----------------------------- MODULE ObservedLists -----------------------------
(***************************************************************************)
(* The lists the observers of a project page through (ProjectObserver in   *)
(* src/src/observer.ts, observeContent in src/src/storage/content.ts,      *)
(* page in src/src/storage/turso-activity.ts). Each page is read in a      *)
(* transaction of its own, and agents, turns, threads and tickets move     *)
(* between the pages:                                                      *)
(*   "agents"    who is online first;                                      *)
(*   "turns"     the active ones, by their random ids;                     *)
(*   "content"   threads or tickets that pass the filter, by their last    *)
(*               revision, the latest first;                               *)
(*   "activity"  events, the latest first.                                 *)
(* The next page of the first three begins at a number, the offset; that   *)
(* of events at the event the page before ended with.                      *)
(***************************************************************************)
EXTENDS Naturals, FiniteSets

CONSTANTS
    ListedIds,        \* what may be listed, by numbers that stand for the ids
    Lookers,      \* readers that page through the list
    PageLimit,    \* entries to a page at most: 100, or what fits into the bytes
    MaxRank       \* bound on the ranks

ASSUME ShownAssumption ==
    /\ ListedIds \subseteq Nat /\ IsFiniteSet(ListedIds)
    /\ PageLimit \in Nat \ {0} /\ MaxRank \in Nat \ {0}

VARIABLES
    listed,   \* which list this is
    rank,     \* of each entry; 0 who is not in the list
    looking   \* each reader: how far it is, what it has been shown, what it must be shown
lookVars == <<listed, rank, looking>>

NotLooking == [at |-> "idle"]

ObservedInit ==
    /\ listed \in {"agents", "turns", "content", "activity"}
    /\ rank = [e \in ListedIds |-> 0]
    /\ looking = [l \in Lookers |-> NotLooking]

Present == {e \in ListedIds : rank[e] > 0}
ByNumber == listed # "activity"

\* Higher ranks come first, of one rank the lower ids.
InFrontBy(r, x, y) == r[x] > r[y] \/ (r[x] = r[y] /\ x < y)
FrontBy(r, e) == {x \in ListedIds : r[x] > 0 /\ InFrontBy(r, x, e)}
InFrontOf(e) == FrontBy(rank, e)

-----------------------------------------------------------------------------
(* What happens to the project. *)

\* How an entry of each list may move. Who is online has rank 2, who was once has 1. A turn is
\* active or is not. A thread or ticket gets a later revision, or comes and goes as the filter
\* has it. An event is later than all before; the oldest are pruned.
MayMove(e, to) ==
    CASE listed = "agents"   -> to \in {1, 2}
      [] listed = "turns"    -> to \in {0, 1}
      [] listed = "content"  -> to = 0 \/ to > rank[e]
      [] listed = "activity" ->
            IF rank[e] = 0 THEN \A x \in ListedIds : rank[x] < to
            ELSE to = 0 /\ \A x \in Present : rank[e] <= rank[x]

\* History: what a reader is still owed, and what it has been shown and must not see again. Who
\* moves is neither. Where pages begin at a number, the entries behind one that leaves its
\* place are not owed any more: they move up. Before one that comes, they move back.
MoveSeen(look, e, r) ==
    LET up == {x \in ListedIds : e \in InFrontOf(x) \ FrontBy(r, x)}
        back == {x \in ListedIds : e \in FrontBy(r, x) \ InFrontOf(x)}
    IN  IF look.at # "paging" THEN look
        ELSE [look EXCEPT !.owed = @ \ ({e} \cup IF ByNumber THEN up ELSE {}),
                          !.shown = @ \ ({e} \cup IF ByNumber THEN back ELSE {})]

EntryMoves(e, to) ==
    /\ to # rank[e] /\ MayMove(e, to)
    /\ rank' = [rank EXCEPT ![e] = to]
    /\ looking' = [l \in Lookers |-> MoveSeen(looking[l], e, rank')]
    /\ UNCHANGED listed

-----------------------------------------------------------------------------
(* Readers. *)

\* Mutation of NextOffset: the offset counts what was asked for, not what was shown.
NextOffsetByLimit(look, page) == look.offset + PageLimit

NextOffset(look, page) == look.offset + Cardinality(page)

\* What comes after the pages before.
Rest(look) ==
    IF ByNumber THEN {e \in Present : look.offset <= Cardinality(InFrontOf(e))}
    ELSE {e \in Present : rank[e] < look.last}

LookAtList(l) ==
    /\ looking[l].at # "paging"
    /\ looking' = [looking EXCEPT ![l] =
          [at |-> "paging", offset |-> 0, last |-> MaxRank + 1, owed |-> Present, shown |-> {}]]
    /\ UNCHANGED <<listed, rank>>

\* A page is a beginning of the rest: the first of it that fit, at least one if there is any.
Pages(look) ==
    {page \in SUBSET Rest(look) :
        /\ Cardinality(page) <= PageLimit
        /\ page = {} => Rest(look) = {}
        /\ \A x \in page, y \in Rest(look) : InFrontBy(rank, y, x) => y \in page}

\* Where the events of a page end.
IsLast(r, page) == (\A x \in page : r <= rank[x]) /\ \E x \in page : r = rank[x]

\* The list ends with the page that has all of the rest.
NextLook(l) ==
    /\ looking[l].at = "paging"
    /\ \E page \in Pages(looking[l]) :
          looking' = [looking EXCEPT ![l] =
              IF page = Rest(looking[l])
              THEN [at |-> "done", missed |-> looking[l].owed \ page]
              ELSE [looking[l] EXCEPT
                      !.offset = NextOffset(looking[l], page),
                      !.last = CHOOSE r \in 0..MaxRank : IsLast(r, page),
                      !.owed = looking[l].owed \ page,
                      !.shown = looking[l].shown \cup (looking[l].owed \cap page)]]
    /\ UNCHANGED <<listed, rank>>

ObservedNext ==
    \/ \E e \in ListedIds, to \in 0..MaxRank : EntryMoves(e, to)
    \/ \E l \in Lookers : LookAtList(l) \/ NextLook(l)

ObservedSpec == ObservedInit /\ [][ObservedNext]_lookVars

-----------------------------------------------------------------------------
(* Properties. *)

\* Nothing on the pages to come has been shown already, and a reader who has come to the end was
\* shown everything that stayed in its place: unless the list is read by numbers, and another
\* entry came to be in front of it, or left from there.
ListsAreShown ==
    \A l \in Lookers :
        /\ looking[l].at = "paging" => looking[l].shown \cap Rest(looking[l]) = {}
        /\ looking[l].at = "done" => looking[l].missed = {}
=============================================================================
