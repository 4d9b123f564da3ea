---------------------------- MODULE ActivityEvents -----------------------------
(***************************************************************************)
(* What the log of activity says of who is there (CoordinationState        *)
(* .agentEvents in src/src/storage/rows.ts). A transaction that changes    *)
(* instances of an agent compares, in its snapshot and with its own        *)
(* changes, whether one of them is active: and records agent.connected or  *)
(* agent.disconnected. Transactions run side by side, and conflict by the  *)
(* rows they write. Their events wait in an outbox, and are published in   *)
(* an order of random ids (ActivityLog).                                   *)
(***************************************************************************)
EXTENDS Naturals

CONSTANTS
    Visits,    \* instances that are ever opened
    Persons,   \* identities of agents
    Changes,   \* transactions at one time
    NoPerson

ASSUME PersonsAssumption == NoPerson \notin Persons

VARIABLES
    rows,      \* each instance: the identity it is of, and whether it is active
    boundTo,   \* the identity a host session is bound to
    change,    \* each transaction: its snapshot, and what was written since
    waiting,   \* of each identity, the presence events in the outbox
    said,      \* and the last one in the log
    doubtful   \* history: the identities whose events are not to be relied on
eventVars == <<rows, boundTo, change, waiting, said, doubtful>>

NoRow == [of |-> NoPerson, active |-> FALSE]
Resting == [at |-> "idle"]

EventsInit ==
    /\ rows = [i \in Visits |-> NoRow]
    /\ boundTo = NoPerson
    /\ change = [t \in Changes |-> Resting]
    /\ waiting = [d \in Persons |-> {}]
    /\ said = [d \in Persons |-> FALSE]
    /\ doubtful = {}

ActiveOf(r, d) == {i \in Visits : r[i].of = d /\ r[i].active}
Online(d) == ActiveOf(rows, d) # {}

-----------------------------------------------------------------------------
(* What a transaction that sees s writes: instances, and the binding of the session. *)

Written(new, bound, besides) == [rows |-> new, bound |-> bound, besides |-> besides]

FreshVisits == {i \in Visits : rows[i] = NoRow}
Unused(s) == {d \in Persons : ActiveOf(s.rows, d) = {}}
Coming(i, d) == [j \in {i} |-> [of |-> d, active |-> TRUE]]
Moving(r, d, e) == [i \in ActiveOf(r, d) |-> [of |-> e, active |-> TRUE]]
Leaving(r, lost) == [i \in lost |-> [r[i] EXCEPT !.active = FALSE]]

\* open. A session comes back as who it is bound to; others come with a name, which must be
\* free. The first instance of a bound identity writes to the binding (its wakeKey).
ComesBack(s, i, d) ==
    Written(Coming(i, d), d, IF s.bound = NoPerson \/ d \in Unused(s) THEN {"binding"} ELSE {})

Arrivals(s) ==
    {ComesBack(s, i, d) :
        i \in FreshVisits, d \in IF s.bound = NoPerson THEN Unused(s) ELSE {s.bound}}
    \cup {Written(Coming(i, d), s.bound, {}) : i \in FreshVisits, d \in Unused(s) \ {s.bound}}

\* disconnect of one; a sweep ends all whose heartbeats are too old.
Departures(s) ==
    {Written(Leaving(s.rows, lost), s.bound, {}) :
        lost \in SUBSET {i \in Visits : s.rows[i].active} \ {{}}}

\* A heartbeat writes the instance, and changes nothing that matters here.
Refreshes(s) ==
    {Written([j \in {i} |-> s.rows[j]], s.bound, {}) : i \in {j \in Visits : s.rows[j].active}}

\* requestName with the name of another identity that nobody uses: all that is active of the
\* one becomes the other's, and so does the session.
TakesName(s, d, e) ==
    IF s.bound = d THEN Written(Moving(s.rows, d, e), e, {"binding"})
    ELSE Written(Moving(s.rows, d, e), s.bound, {})

Renamings(s) ==
    {TakesName(s, d, e) : d \in Persons \ Unused(s), e \in Unused(s) \ {s.bound}}

Writings(s) == Arrivals(s) \cup Departures(s) \cup Refreshes(s) \cup Renamings(s)

-----------------------------------------------------------------------------
(* The events of a transaction. *)

\* An identity is looked at when an instance that was written is its own now.
Affected(w) == {w.rows[i].of : i \in DOMAIN w.rows}

WasOnline(s, d) == ActiveOf(s.rows, d) # {}

\* Mutation of IsOnline: only the instances that were written are looked at.
OnlineByWritten(s, w, d) == \E i \in DOMAIN w.rows : w.rows[i].of = d /\ w.rows[i].active

\* What was written counts instead of what was there, if it is of this identity still.
IsOnline(s, w, d) ==
    \E i \in Visits :
        IF i \in DOMAIN w.rows /\ w.rows[i].of = d THEN w.rows[i].active
        ELSE s.rows[i].of = d /\ s.rows[i].active

Announced(s, w) == {d \in Affected(w) : WasOnline(s, d) # IsOnline(s, w, d)}

-----------------------------------------------------------------------------
(* Transactions. *)

BeginChange(t) ==
    /\ change[t] = Resting
    /\ change' = [change EXCEPT ![t] =
          [at |-> "running", rows |-> rows, bound |-> boundTo, stale |-> {}, crossed |-> {}]]
    /\ UNCHANGED <<rows, boundTo, waiting, said, doubtful>>

WrittenBy(w) == DOMAIN w.rows \cup w.besides

\* Whose instances change with a commit.
ChangedBy(w) ==
    LET new == {i \in DOMAIN w.rows : w.rows[i] # rows[i]}
    IN  ({rows[i].of : i \in new} \cup {w.rows[i].of : i \in new}) \ {NoPerson}

\* History: another transaction changed instances of d, so that s is not what d's presence is
\* judged by; an identity was left without a word; or two batches wait, in no order.
Doubted(s, w, now) ==
    (s.crossed \cap Affected(w)) \cup (ChangedBy(w) \ Affected(w))
    \cup {d \in Announced(s, w) : now[d] # {IsOnline(s, w, d)}}

CommitChange(t) ==
    /\ change[t].at = "running"
    /\ \E w \in Writings(change[t]) :
          LET s == change[t]
              now == [d \in Persons |->
                        waiting[d] \cup IF d \in Announced(s, w) THEN {IsOnline(s, w, d)} ELSE {}]
          IN  /\ WrittenBy(w) \cap s.stale = {}
              /\ rows' = [i \in Visits |-> IF i \in DOMAIN w.rows THEN w.rows[i] ELSE rows[i]]
              /\ boundTo' = IF "binding" \in w.besides THEN w.bound ELSE boundTo
              /\ change' = [u \in Changes |->
                    IF u = t THEN Resting
                    ELSE IF change[u] = Resting THEN Resting
                    ELSE [change[u] EXCEPT !.stale = @ \cup WrittenBy(w),
                                           !.crossed = @ \cup ChangedBy(w)]]
              /\ waiting' = now
              /\ doubtful' = (doubtful \ Announced(s, w)) \cup Doubted(s, w, now)
    /\ UNCHANGED said

\* A conflict, or an operation that changes nothing: the next attempt has another snapshot.
EndChange(t) ==
    /\ change[t].at = "running"
    /\ change' = [change EXCEPT ![t] = Resting]
    /\ UNCHANGED <<rows, boundTo, waiting, said, doubtful>>

\* All that waits is published; of one identity, any event may come last.
PublishEvents ==
    /\ \E d \in Persons : waiting[d] # {}
    /\ \E last \in [Persons -> BOOLEAN] :
          /\ \A d \in Persons :
                IF waiting[d] = {} THEN last[d] = said[d] ELSE last[d] \in waiting[d]
          /\ said' = last
    /\ waiting' = [d \in Persons |-> {}]
    /\ UNCHANGED <<rows, boundTo, change, doubtful>>

EventsNext ==
    \/ \E t \in Changes : BeginChange(t) \/ CommitChange(t) \/ EndChange(t)
    \/ PublishEvents

EventsSpec == EventsInit /\ [][EventsNext]_eventVars

-----------------------------------------------------------------------------
(* Properties. *)

\* The log's last word on an agent is true once it is published, unless transactions about it
\* crossed, two batches of events waited at once, or its instances took another name.
EventsAreTrue ==
    \A d \in Persons \ doubtful : waiting[d] = {} => said[d] = Online(d)

\* Does not hold: without doubt. Two closes at once of an agent's last two instances each find
\* the other's active; an open beside a close; two opens of one free name; two batches that are
\* published in the order of their random ids; requestName leaves an identity without a word.
LastWordsAreTrue == \A d \in Persons : waiting[d] = {} => said[d] = Online(d)
=============================================================================
