------------------------------ MODULE KeyedMutex -------------------------------
(* KeyedMutex of runtime.ts: a promise chain per key. A call waits for the      *)
(* promise of the call before it and leaves its own as the tail of the chain.   *)
(* Commits, claims, captures, polls of tasks and startup of adapters use it.    *)
EXTENDS Naturals

CONSTANTS
  Keys,       \* "turn:..", "graph:..", an identity, ..
  Runs,       \* calls of run() that may be on their way at one time
  NoRun,      \* no promise: Promise.resolve(), or no entry in the map
  MaxCalls    \* bound: calls made while others are on their way

ASSUME RunsAssumption == NoRun \notin Runs
ASSUME CallsAssumption == MaxCalls \in Nat

VARIABLES
  tails,      \* the map: the run whose promise is the tail of a key's chain
  previous,   \* the promise a run awaits; NoRun once it is resolved
  at,         \* where a run stands: "idle", "waiting" for previous, "inside" fn
  keyOf,      \* the key of a run
  turnOf      \* history: the number of a run's call, for properties only

mutexVars == <<tails, previous, at, keyOf, turnOf>>

Active == {p \in Runs : at[p] # "idle"}
MutexPlaces == {"idle", "waiting", "inside"}

MutexInit == /\ tails = [k \in Keys |-> NoRun]
        /\ previous = [p \in Runs |-> NoRun]
        /\ at = [p \in Runs |-> "idle"]
        /\ keyOf \in [Runs -> Keys]
        /\ turnOf = [p \in Runs |-> 0]

\* run(): everything up to "await previous" is one synchronous piece.
Call(p, k) ==
  /\ at[p] = "idle"
  /\ \E n \in 1..MaxCalls : /\ \A q \in Runs : turnOf[q] < n
                            /\ turnOf' = [turnOf EXCEPT ![p] = n]
  /\ previous' = [previous EXCEPT ![p] = tails[k]]
  /\ tails' = [tails EXCEPT ![k] = p]
  /\ at' = [at EXCEPT ![p] = "waiting"]
  /\ keyOf' = [keyOf EXCEPT ![p] = k]

\* The awaited promise is resolved, and fn starts.
Enter(p) ==
  /\ at[p] = "waiting"
  /\ previous[p] = NoRun
  /\ at' = [at EXCEPT ![p] = "inside"]
  /\ UNCHANGED <<tails, previous, keyOf, turnOf>>

\* Mutation of Untail: the entry is removed whoever's promise it is by now.
UntailAlways(p, k) == [tails EXCEPT ![k] = NoRun]

\* The map after run p of key k has ended: its promise is removed if no later call replaced it.
Untail(p, k) == IF tails[k] = p THEN [tails EXCEPT ![k] = NoRun] ELSE tails

\* fn has returned or thrown: the finally block resolves the promise of this run.
Leave(p) ==
  /\ at[p] = "inside"
  /\ previous' = [q \in Runs |-> IF previous[q] = p THEN NoRun ELSE previous[q]]
  /\ tails' = Untail(p, keyOf[p])
  /\ at' = [at EXCEPT ![p] = "idle"]
  /\ turnOf' = [turnOf EXCEPT ![p] = 0]
  /\ UNCHANGED keyOf

MutexNext == \E p \in Runs : Enter(p) \/ Leave(p) \/ \E k \in Keys : Call(p, k)

\* A resolved promise continues its waiter, and every fn ends: the bodies under a mutex are
\* transactions and file lookups, none of which waits for another agent.
MutexFairness == \A p \in Runs : WF_mutexVars(Enter(p)) /\ WF_mutexVars(Leave(p))

MutexSpec == MutexInit /\ [][MutexNext]_mutexVars
MutexLiveSpec == MutexSpec /\ MutexFairness

--------------------------------------------------------------------------------
(* Properties *)

MutexTypeOK == /\ tails \in [Keys -> Runs \union {NoRun}]
          /\ previous \in [Runs -> Runs \union {NoRun}]
          /\ at \in [Runs -> MutexPlaces]
          /\ keyOf \in [Runs -> Keys]
          /\ turnOf \in [Runs -> Nat]

\* What the chain of promises must be for the mutex to work: each run awaits the last one of its
\* key called before it, if that has not ended, and the tail of a key is its last active run.
\* A tail that outlives its run would hold up every later call of the key, and one removed too
\* early would let the next call in beside those still waiting.
ChainIsWhole ==
  /\ \A p \in Active :
       LET earlier == {q \in Active : keyOf[q] = keyOf[p] /\ turnOf[q] < turnOf[p]}
       IN  IF previous[p] = NoRun
           THEN earlier = {}
           ELSE /\ previous[p] \in earlier
                /\ \A q \in earlier : turnOf[q] <= turnOf[previous[p]]
  /\ \A k \in Keys :
       LET callers == {p \in Active : keyOf[p] = k}
       IN  IF tails[k] = NoRun
           THEN callers = {}
           ELSE /\ tails[k] \in callers
                /\ \A q \in callers : turnOf[q] <= turnOf[tails[k]]

\* The runs of one key exclude each other and get inside in the order of their calls, also when
\* a run fails: the promise KeyedMutex gives to commits, claims and captures.
Locks == INSTANCE KeyedLock WITH inside <- {p \in Runs : at[p] = "inside"}
ImplementsLock == Locks!LockSpec

\* Whoever called run() gets inside in the end.
EveryRunEnters == \A p \in Runs : at[p] = "waiting" ~> at[p] = "inside"
================================================================================
