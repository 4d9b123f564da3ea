------------------------------- MODULE KeyedLock -------------------------------
(* What a mutex per key promises: of the runs of one key at most one is inside, *)
(* and they get inside in the order in which they were called.                  *)
EXTENDS Naturals

CONSTANTS Keys, Runs

VARIABLES
  turnOf,   \* the number with which a run was called, 0 when it is not on its way
  keyOf,    \* its key
  inside    \* the runs that are inside

lockVars == <<turnOf, keyOf, inside>>

\* The runs of key k that were called before run p and have not ended.
Before(p, k) == {q \in Runs : turnOf[q] > 0 /\ keyOf[q] = k /\ turnOf[q] < turnOf[p]}

LockInit == /\ turnOf = [p \in Runs |-> 0]
            /\ keyOf \in [Runs -> Keys]
            /\ inside = {}

\* A call gets a number above those of all calls that have not ended.
LockCall(p, k) == /\ turnOf[p] = 0
                  /\ turnOf'[p] \in Nat \ {0}
                  /\ \A q \in Runs : turnOf[q] < turnOf'[p]
                  /\ turnOf' = [turnOf EXCEPT ![p] = turnOf'[p]]
                  /\ keyOf' = [keyOf EXCEPT ![p] = k]
                  /\ UNCHANGED inside

LockEnter(p) == /\ turnOf[p] > 0
                /\ p \notin inside
                /\ Before(p, keyOf[p]) = {}
                /\ inside' = inside \union {p}
                /\ UNCHANGED <<turnOf, keyOf>>

LockLeave(p) == /\ p \in inside
                /\ inside' = inside \ {p}
                /\ turnOf' = [turnOf EXCEPT ![p] = 0]
                /\ UNCHANGED keyOf

LockNext == \E p \in Runs : LockEnter(p) \/ LockLeave(p) \/ \E k \in Keys : LockCall(p, k)

LockSpec == LockInit /\ [][LockNext]_lockVars
================================================================================
