------------------------------- MODULE Listings -------------------------------
(***************************************************************************)
(* Lists that an agent takes page by page while others write:              *)
(*   "notifications"  listNotifications (src/src/service.ts): by priority, *)
(*      date and id, the cursor holds these three;                         *)
(*      threads and tickets (findResources in                              *)
(*      src/src/service/mcp-dispatch.ts, listThreadMetadata) are listed so *)
(*      too, without priorities, and a filter lets them come and go;       *)
(*   "project"        projectHistoryList: the operations from the latest,  *)
(*      the cursor names the last one listed;                              *)
(*   "revisions"      resourceHistory: the revisions from the latest, the  *)
(*      cursor counts them.                                                *)
(* Each page is a transaction of its own. An entry has a version: activity *)
(* in a thread gives a notification of it a new date, event and all.       *)
(***************************************************************************)
EXTENDS FiniteSetsExt, SequencesExt

CONSTANTS
    Listers,       \* listings under way at one time
    EntryIds,       \* ids of entries, numbers: they are random, and compared only in ties
    ListLimit,     \* entries to a page, at most: the limit, or what fits in 8 KiB
    MaxMoment      \* bound on the dates

ASSUME EntriesAssumption == EntryIds \subseteq Nat /\ ListLimit \in Nat \ {0}

VARIABLES
    subject,   \* which list this is
    entries,   \* its entries
    unused,    \* ids that no entry had yet
    moment,    \* the date
    listing    \* each listing: what it shows, how far it got
listVars == <<subject, entries, unused, moment, listing>>

NotListing == [at |-> "idle"]

ListsInit ==
    /\ subject \in {"notifications", "project", "revisions"}
    /\ entries = {}
    /\ unused = EntryIds
    /\ moment = 1
    /\ listing = [l \in Listers |-> NotListing]

-----------------------------------------------------------------------------
(* What is listed. *)

NewestFirst == subject \in {"project", "revisions"}

\* Mutation of Precedes: entries of one date in no order of their own, but as they come.
PrecedesUnlessTied(x, y) ==
    \/ x.priority < y.priority
    \/ x.priority = y.priority /\ (IF NewestFirst THEN x.date > y.date ELSE x.date < y.date)

\* The order of the list. The date is not enough: what is written in one millisecond has one.
Precedes(x, y) ==
    \/ x.priority < y.priority
    \/ /\ x.priority = y.priority
       /\ \/ IF NewestFirst THEN x.date > y.date ELSE x.date < y.date
          \/ x.date = y.date /\ (IF NewestFirst THEN x.id > y.id ELSE x.id < y.id)

\* Entries as a query returns them.
AsListed(S) ==
    CHOOSE q \in SetToSeqs(S) : \A i, j \in DOMAIN q : i < j => ~Precedes(q[j], q[i])

\* Who changes is no longer one of those a listing must show.
ChangesEntries(gone, new) ==
    /\ entries' = (entries \ gone) \cup new
    /\ listing' = [l \in Listers |->
          IF listing[l].at = "listing" THEN [listing[l] EXCEPT !.steady = @ \ gone]
          ELSE listing[l]]
    /\ UNCHANGED <<subject, moment>>

\* A commit writes a notification, a thread, an operation or a revision. Its date was taken
\* before, so that the order of dates is not the order of commits; but the revisions of one
\* resource are numbered.
EntryComes(id, date, priority) ==
    /\ id \in unused
    /\ subject # "notifications" => priority = 0
    /\ subject = "revisions" => \A x \in entries : x.date < date
    /\ unused' = unused \ {id}
    /\ ChangesEntries({}, {[id |-> id, date |-> date, priority |-> priority]})

\* A notification is acknowledged, a thread is archived. History stays.
EntryGoes(x) == ~NewestFirst /\ ChangesEntries({x}, {}) /\ UNCHANGED unused

\* Activity takes over the notification of earlier activity in its thread.
Redate(x) ==
    /\ subject = "notifications" /\ x.priority = 1 /\ x.date < moment
    /\ ChangesEntries({x}, {[x EXCEPT !.date = moment]})
    /\ UNCHANGED unused

DatePasses ==
    /\ moment < MaxMoment
    /\ moment' = moment + 1
    /\ UNCHANGED <<subject, entries, unused, listing>>

-----------------------------------------------------------------------------
(* Listings. *)

StartList(l) ==
    /\ listing[l].at # "listing"
    /\ listing' = [listing EXCEPT ![l] =
          [at |-> "listing", steady |-> entries, got |-> <<>>]]
    /\ UNCHANGED <<subject, entries, unused, moment>>

\* Mutation of LeftToList: what has not been listed begins where the number says.
LeftByCount(shown) ==
    ToSet(SubSeq(AsListed(entries), Len(shown) + 1, Cardinality(entries)))

\* The rest of the list, by the cursor of the page before: after the key of its last entry,
\* or, for revisions, after as many as were listed.
LeftToList(shown) ==
    IF subject = "revisions" THEN LeftByCount(shown)
    ELSE {x \in entries : shown = <<>> \/ Precedes(Last(shown), x)}

\* The list is complete, and is about a past: who was there all the time and is not on it,
\* and whether it has some version twice.
Listed(steady, got) ==
    [at |-> "done", missed |-> steady \ ToSet(got), twice |-> ~IsInjective(got)]

\* Pages end at the limit, or before an entry for which there is no room.
NextPage(l) ==
    /\ listing[l].at = "listing"
    /\ LET left == AsListed(LeftToList(listing[l].got))
           full == Min({ListLimit, Len(left)})
       IN \E n \in 0..full :
             /\ n = 0 => full = 0
             /\ listing' = [listing EXCEPT ![l] =
                   LET got == @.got \o SubSeq(left, 1, n) IN
                   IF n < Len(left) THEN [@ EXCEPT !.got = got]
                   ELSE Listed(@.steady, got)]
    /\ UNCHANGED <<subject, entries, unused, moment>>

\* The cursor of notifications is refused unless its date is a whole number of milliseconds,
\* which the dates of SystemClock are by chance only.
CursorRefused(l) ==
    /\ subject = "notifications"
    /\ listing[l].at = "listing" /\ listing[l].got # <<>>
    /\ listing' = [listing EXCEPT ![l] = NotListing]
    /\ UNCHANGED <<subject, entries, unused, moment>>

ListsNext ==
    \/ \E id \in EntryIds, date \in {d \in {moment - 1, moment} : d > 0}, priority \in {0, 1} :
          EntryComes(id, date, priority)
    \/ \E x \in entries : EntryGoes(x) \/ Redate(x)
    \/ DatePasses
    \/ \E l \in Listers : StartList(l) \/ NextPage(l) \/ CursorRefused(l)

ListsSpec == ListsInit /\ [][ListsNext]_listVars

-----------------------------------------------------------------------------
(* Properties. *)

\* An entry that was there all the time is listed, and no version of an entry is listed twice,
\* whatever came, went and moved between the pages. Revisions may come twice: the cursor
\* counts those that came since.
ListsAreComplete ==
    \A l \in Listers : listing[l].at = "done" =>
        listing[l].missed = {} /\ (listing[l].twice => subject = "revisions")
=============================================================================
