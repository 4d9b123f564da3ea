----------------------------- MODULE TursoStore -----------------------------
(***************************************************************************)
(* The control store's connections (src/src/storage/turso.ts): a pool of   *)
(* connections that units of work lease in the order they ask, the         *)
(* attempts of one unit of work, the replacement of a connection that has  *)
(* prepared too many statements, and the close that drains all of it.      *)
(*                                                                         *)
(* What a unit of work reads and writes is left out: `applied` counts how  *)
(* often its effect became durable. The driver is the environment: it says *)
(* whether an attempt committed, was rolled back or cannot tell.           *)
(***************************************************************************)
EXTENDS Naturals, Sequences, FiniteSets

CONSTANTS
    Calls,          \* units of work: calls of execute() outside a transaction
    Slots,          \* connection slots
    MaxAttempts,    \* five in the code
    PrepareLimit,   \* statements after which a connection is replaced
    MaxGeneration,  \* bound: replacements of one slot
    NoCall

ASSUME StoreAssumption ==
    /\ MaxAttempts \in Nat \ {0} /\ PrepareLimit \in Nat \ {0}
    /\ MaxGeneration \in Nat
    /\ NoCall \notin Calls
    /\ IsFiniteSet(Slots)

VARIABLES
    callAt,         \* where each call is
    attempts,   \* attempts each call has failed with a conflict
    answer,     \* what each call was told
    applied,    \* how often each call's effect was committed
    published,  \* calls whose after-commit callbacks have run
    state,      \* state of each slot
    lease,      \* the call that holds each slot's connection
    prepares,   \* statements the slot's connection has prepared
    generation, \* which connection of the slot is in use
    unresolved, \* slots whose last transaction may still be open
    available,  \* slots free to lease, oldest first
    waiters,    \* calls that wait for a slot, oldest first
    replacing,  \* slots to be replaced, in order; only the first is at work
    step,       \* how far the replacement of each slot is
    open,       \* connections that are open: <<slot, generation>>
    phase       \* of the store

callVars == <<callAt, attempts, answer, applied, published>>
slotVars == <<state, lease, prepares, unresolved>>
poolVars == <<available, waiters>>
replaceVars == <<generation, replacing, step, open>>
storeVars == <<callVars, slotVars, poolVars, replaceVars, phase>>

Answers == {"none", "ok", "failed", "busy", "unknown", "unavailable"}

StoreTypeOK ==
    /\ callAt \in [Calls -> {"new", "waiting", "working", "backoff", "done"}]
    /\ attempts \in [Calls -> 0..MaxAttempts]
    /\ answer \in [Calls -> Answers]
    /\ applied \in [Calls -> Nat]
    /\ published \subseteq Calls
    /\ state \in [Slots -> {"available", "leased", "retiring", "quarantined", "closed"}]
    /\ lease \in [Slots -> Calls \cup {NoCall}]
    /\ prepares \in [Slots -> Nat]
    /\ generation \in [Slots -> Nat]
    /\ unresolved \subseteq Slots
    /\ available \in Seq(Slots) /\ waiters \in Seq(Calls) /\ replacing \in Seq(Slots)
    /\ step \in [Slots -> {"none", "queued", "opening", "configuring", "closing"}]
    /\ open \subseteq Slots \X Nat
    /\ phase \in {"starting", "open", "draining", "settling", "closing", "closed", "failed"}

Running == phase = "open"
Leases == {s \in Slots : lease[s] # NoCall}

StoreInit ==
    /\ callAt = [c \in Calls |-> "new"]
    /\ attempts = [c \in Calls |-> 0]
    /\ answer = [c \in Calls |-> "none"]
    /\ applied = [c \in Calls |-> 0]
    /\ published = {}
    /\ state = [s \in Slots |-> "available"]
    /\ lease = [s \in Slots |-> NoCall]
    /\ prepares = [s \in Slots |-> 0]
    /\ generation = [s \in Slots |-> 0]
    /\ unresolved = {}
    /\ available = <<>> /\ waiters = <<>> /\ replacing = <<>>
    /\ step = [s \in Slots |-> "none"]
    /\ open = {}
    /\ phase = "starting"

-----------------------------------------------------------------------------
(* Opening the store. *)

OpenConnection(s) ==
    /\ phase = "starting" /\ <<s, 0>> \notin open
    /\ open' = open \cup {<<s, 0>>}
    /\ available' = Append(available, s)
    /\ phase' = IF Cardinality(open) + 1 = Cardinality(Slots) THEN "open" ELSE "starting"
    /\ UNCHANGED <<callVars, slotVars, waiters, generation, replacing, step>>

\* A connection that cannot be opened takes the others with it.
OpenFails ==
    /\ phase = "starting"
    /\ open' = {} /\ available' = <<>> /\ phase' = "failed"
    /\ UNCHANGED <<callVars, slotVars, waiters, generation, replacing, step>>

-----------------------------------------------------------------------------
(* Leasing. *)

\* acquire(): the first free slot, or a place at the end of the queue.
Acquire(c) ==
    /\ callAt[c] \in {"new", "backoff"} /\ phase \notin {"starting", "failed"}
    /\ IF ~Running
       THEN /\ callAt' = [callAt EXCEPT ![c] = "done"]
            /\ answer' = [answer EXCEPT ![c] = "unavailable"]
            /\ UNCHANGED <<state, lease, poolVars>>
       ELSE /\ UNCHANGED answer
            /\ \/ /\ available # <<>>
                  /\ lease' = [lease EXCEPT ![Head(available)] = c]
                  /\ state' = [state EXCEPT ![Head(available)] = "leased"]
                  /\ available' = Tail(available)
                  /\ callAt' = [callAt EXCEPT ![c] = "working"]
                  /\ UNCHANGED waiters
               \/ /\ available = <<>>
                  /\ waiters' = Append(waiters, c)
                  /\ callAt' = [callAt EXCEPT ![c] = "waiting"]
                  /\ UNCHANGED <<state, lease, available>>
    /\ UNCHANGED <<attempts, applied, published, prepares, unresolved, replaceVars, phase>>

\* Hand slot s to the call that has waited longest, or keep it; `left` is where
\* the calls are once s has been given up.
MakeAvailable(s, left) ==
    CASE ~Running ->
            /\ lease' = [lease EXCEPT ![s] = NoCall]
            /\ callAt' = left /\ UNCHANGED <<state, poolVars>>
      [] Running /\ waiters # <<>> ->
            /\ state' = [state EXCEPT ![s] = "leased"]
            /\ lease' = [lease EXCEPT ![s] = Head(waiters)]
            /\ waiters' = Tail(waiters)
            /\ callAt' = [left EXCEPT ![Head(waiters)] = "working"]
            /\ UNCHANGED available
      [] OTHER ->
            /\ state' = [state EXCEPT ![s] = "available"]
            /\ lease' = [lease EXCEPT ![s] = NoCall]
            /\ available' = Append(available, s)
            /\ callAt' = left /\ UNCHANGED waiters

\* release(): call lease[s] goes on at `to`; a worn connection is replaced.
Release(s, to) ==
    LET left == [callAt EXCEPT ![lease[s]] = to] IN
    IF Running /\ prepares[s] >= PrepareLimit
    THEN /\ state' = [state EXCEPT ![s] = "retiring"]
         /\ lease' = [lease EXCEPT ![s] = NoCall]
         /\ replacing' = Append(replacing, s)
         /\ step' = [step EXCEPT ![s] = "queued"]
         /\ callAt' = left /\ UNCHANGED poolVars
    ELSE MakeAvailable(s, left) /\ UNCHANGED <<replacing, step>>

-----------------------------------------------------------------------------
(* One attempt of a unit of work, on the slot s it has leased. *)

Working(s) == s \in Leases /\ callAt[lease[s]] = "working" /\ s \notin unresolved

\* Statements past the limit change nothing more.
Prepare(s) ==
    /\ Working(s) /\ prepares[s] < PrepareLimit
    /\ prepares' = [prepares EXCEPT ![s] = @ + 1]
    /\ UNCHANGED <<callVars, state, lease, unresolved, poolVars, replaceVars, phase>>

\* The attempt commits, and the callbacks of this attempt's transaction run.
Commit(s) ==
    /\ Working(s)
    /\ applied' = [applied EXCEPT ![lease[s]] = @ + 1]
    /\ published' = published \cup {lease[s]}
    /\ answer' = [answer EXCEPT ![lease[s]] = "ok"]
    /\ Release(s, "done")
    /\ UNCHANGED <<attempts, prepares, unresolved, generation, open, phase>>

\* The callback, or the start of the transaction, fails and is rolled back.
CallbackFails(s) ==
    /\ Working(s)
    /\ answer' = [answer EXCEPT ![lease[s]] = "failed"]
    /\ Release(s, "done")
    /\ UNCHANGED <<attempts, applied, published, prepares, unresolved, generation, open, phase>>

\* A conflict that was rolled back: try again, five times in all.
Conflict(s) ==
    LET c == lease[s] IN
    /\ Working(s)
    /\ attempts' = [attempts EXCEPT ![c] = @ + 1]
    /\ IF attempts[c] + 1 = MaxAttempts
       THEN answer' = [answer EXCEPT ![c] = "busy"] /\ Release(s, "done")
       ELSE Release(s, "backoff") /\ UNCHANGED answer
    /\ UNCHANGED <<applied, published, prepares, unresolved, generation, open, phase>>

\* Mutation of CommitUncertain: a commit error is retried like a conflict.
CommitUncertainRetried(s) ==
    LET c == lease[s] IN
    /\ Working(s) /\ attempts[c] + 1 < MaxAttempts
    /\ attempts' = [attempts EXCEPT ![c] = @ + 1]
    /\ \E done \in {0, 1} : applied' = [applied EXCEPT ![c] = @ + done]
    /\ Release(s, "backoff")
    /\ UNCHANGED <<answer, published, prepares, unresolved, generation, open, phase>>

\* COMMIT fails with an error that is no conflict: it may have been durable.
CommitUncertain(s) ==
    /\ Working(s)
    /\ \E done \in {0, 1} : applied' = [applied EXCEPT ![lease[s]] = @ + done]
    /\ answer' = [answer EXCEPT ![lease[s]] = "unknown"]
    /\ Release(s, "done")
    /\ UNCHANGED <<attempts, published, prepares, unresolved, generation, open, phase>>

-----------------------------------------------------------------------------
(* Closing. *)

\* close() up to its first await: nothing can be leased and every waiter is
\* told; `told` and `at` are the answers and places of the calls by then.
StartClosing(told, at) ==
    LET rejected == {waiters[i] : i \in DOMAIN waiters} IN
    /\ phase' = "draining" /\ available' = <<>> /\ waiters' = <<>>
    /\ callAt' = [c \in Calls |-> IF c \in rejected THEN "done" ELSE at[c]]
    /\ answer' = [c \in Calls |-> IF c \in rejected THEN "unavailable" ELSE told[c]]

Close ==
    /\ Running
    /\ StartClosing(answer, callAt)
    /\ UNCHANGED <<attempts, applied, published, slotVars, replaceVars>>

\* Mutation of RollbackUnresolved: the connection is released like any other.
RollbackUnresolvedReleased(s) ==
    /\ Working(s)
    /\ unresolved' = unresolved \cup {s}
    /\ answer' = [answer EXCEPT ![lease[s]] = "unknown"]
    /\ Release(s, "done")
    /\ UNCHANGED <<attempts, applied, published, prepares, generation, open, phase>>

\* The rollback could not be confirmed: the store closes rather than lease this
\* connection again.
RollbackUnresolved(s) ==
    LET told == [answer EXCEPT ![lease[s]] = "unknown"]
        at == [callAt EXCEPT ![lease[s]] = "done"]
    IN
    /\ Working(s)
    /\ unresolved' = unresolved \cup {s}
    /\ lease' = [lease EXCEPT ![s] = NoCall]
    /\ IF Running THEN StartClosing(told, at)
       ELSE answer' = told /\ callAt' = at /\ UNCHANGED <<poolVars, phase>>
    /\ UNCHANGED <<attempts, applied, published, state, prepares, replaceVars>>

Drained ==
    /\ phase = "draining" /\ Leases = {}
    /\ phase' = "settling"
    /\ UNCHANGED <<callVars, slotVars, poolVars, replaceVars>>

\* Mutation of ReplacementsSettled: the connections are closed at once.
ReplacementsSettledEarly ==
    /\ phase = "settling"
    /\ phase' = "closing"
    /\ UNCHANGED <<callVars, slotVars, poolVars, replaceVars>>

ReplacementsSettled ==
    /\ phase = "settling" /\ replacing = <<>>
    /\ phase' = "closing"
    /\ UNCHANGED <<callVars, slotVars, poolVars, replaceVars>>

\* Every open connection is closed; the ones that fail to stay open, and close
\* reports them.
CloseConnections(stuck) ==
    /\ phase = "closing" /\ stuck \subseteq open
    /\ open' = stuck /\ phase' = "closed"
    /\ state' = [s \in Slots |-> IF <<s, generation[s]>> \in stuck THEN state[s] ELSE "closed"]
    /\ UNCHANGED <<callVars, lease, prepares, unresolved, poolVars, generation, replacing, step>>

-----------------------------------------------------------------------------
(* Replacing a worn connection. *)

\* Replacements run one after the other.
AtWork(s) == replacing # <<>> /\ Head(replacing) = s

\* A replacement that starts while the store closes does nothing.
ReplaceStarts(s) ==
    /\ AtWork(s) /\ step[s] = "queued"
    /\ IF Running
       THEN step' = [step EXCEPT ![s] = "opening"] /\ UNCHANGED replacing
       ELSE step' = [step EXCEPT ![s] = "none"] /\ replacing' = Tail(replacing)
    /\ UNCHANGED <<callVars, slotVars, poolVars, generation, open, phase>>

ReplaceOpens(s) ==
    /\ AtWork(s) /\ step[s] = "opening" /\ generation[s] < MaxGeneration
    /\ open' = open \cup {<<s, generation[s] + 1>>}
    /\ step' = [step EXCEPT ![s] = "configuring"]
    /\ UNCHANGED <<callVars, slotVars, poolVars, generation, replacing, phase>>

ReplaceConfigures(s) ==
    /\ AtWork(s) /\ step[s] = "configuring"
    /\ step' = [step EXCEPT ![s] = "closing"]
    /\ UNCHANGED <<callVars, slotVars, poolVars, generation, replacing, open, phase>>

\* The old connection is closed and the new one takes its slot.
ReplaceEnds(s) ==
    /\ AtWork(s) /\ step[s] = "closing"
    /\ open' = open \ {<<s, generation[s]>>}
    /\ generation' = [generation EXCEPT ![s] = @ + 1]
    /\ prepares' = [prepares EXCEPT ![s] = 0]
    /\ step' = [step EXCEPT ![s] = "none"] /\ replacing' = Tail(replacing)
    /\ MakeAvailable(s, callAt)
    /\ UNCHANGED <<attempts, answer, applied, published, unresolved, phase>>

\* Mutation of ReplaceFails: the replacement awaits the close it starts.
ReplaceFailsAwaitingClose(s) ==
    /\ AtWork(s) /\ step[s] \in {"opening", "configuring", "closing"} /\ Running
    /\ state' = [state EXCEPT ![s] = "quarantined"]
    /\ StartClosing(answer, callAt)
    /\ UNCHANGED <<attempts, applied, published, lease, prepares, unresolved, replaceVars>>

\* Any of the three steps fails: the slot is out of use and the store closes,
\* with whatever the replacement has opened.
ReplaceFails(s) ==
    /\ AtWork(s) /\ step[s] \in {"opening", "configuring", "closing"}
    /\ state' = [state EXCEPT ![s] = "quarantined"]
    /\ step' = [step EXCEPT ![s] = "none"] /\ replacing' = Tail(replacing)
    /\ IF Running THEN StartClosing(answer, callAt) ELSE UNCHANGED <<callAt, answer, poolVars, phase>>
    /\ UNCHANGED <<attempts, applied, published, lease, prepares, unresolved, generation, open>>

-----------------------------------------------------------------------------
StoreNext ==
    \/ OpenFails \/ Close \/ Drained \/ ReplacementsSettled
    \/ \E c \in Calls : Acquire(c)
    \/ \E s \in Slots :
          \/ OpenConnection(s) \/ Prepare(s) \/ Commit(s) \/ CallbackFails(s) \/ Conflict(s)
          \/ CommitUncertain(s) \/ RollbackUnresolved(s)
          \/ ReplaceStarts(s) \/ ReplaceOpens(s) \/ ReplaceConfigures(s) \/ ReplaceEnds(s)
          \/ ReplaceFails(s)
    \/ \E stuck \in SUBSET open : CloseConnections(stuck)

StoreSpec == StoreInit /\ [][StoreNext]_storeVars

\* A call that was made goes on, an attempt ends, a replacement that began goes on
\* or fails, and close does its steps. Nobody has to open the store or close it.
StoreFairness ==
    /\ WF_storeVars(Drained) /\ WF_storeVars(ReplacementsSettled)
    /\ WF_storeVars(\E stuck \in SUBSET open : CloseConnections(stuck))
    /\ \A c \in Calls : WF_storeVars(Acquire(c))
    /\ \A s \in Slots :
          /\ WF_storeVars(Commit(s) \/ CallbackFails(s) \/ Conflict(s) \/ CommitUncertain(s)
                        \/ RollbackUnresolved(s))
          /\ WF_storeVars(ReplaceStarts(s) \/ ReplaceOpens(s) \/ ReplaceConfigures(s)
                        \/ ReplaceEnds(s) \/ ReplaceFails(s))

StoreFairSpec == StoreSpec /\ StoreFairness

-----------------------------------------------------------------------------
(* Properties. *)

\* What a caller is told about its unit of work is true: "ok" means it happened
\* once and was published, "unknown" means once or not at all and unpublished,
\* anything else means it did not happen; and nothing ever happens twice,
\* whatever the retries.
AnswersAreTrue ==
    \A c \in Calls :
        /\ applied[c] <= 1
        /\ answer[c] = "ok" <=> c \in published
        /\ answer[c] = "ok" => applied[c] = 1
        /\ answer[c] \notin {"ok", "unknown"} => applied[c] = 0

\* A connection whose last transaction may still be open is never leased again.
UnresolvedIsNeverLeased == \A s \in unresolved : lease[s] = NoCall /\ state[s] # "available"

\* No connection is leased after it has prepared its fill of statements, except by
\* the unit of work that filled it up.
WornIsReplaced ==
    [][\A s \in Slots :
         lease'[s] \notin {NoCall, lease[s]} => prepares'[s] < PrepareLimit]_storeVars

\* While the store is open no connection idles while a call waits for one.
NoIdleConnection == Running => (waiters = <<>> \/ available = <<>>)

\* However many connections are worn, at most one more than the pool's is open.
OneExtraConnection == Cardinality(open) <= Cardinality(Slots) + 1


\* When close has closed the connections, no call is at work or waiting, no
\* replacement can open another one, and what is still open is what would not close.
CloseIsFinal ==
    [][phase' \in {"closing", "closed"} =>
         /\ Leases' = {} /\ waiters' = <<>>
         /\ open' \subseteq open
         /\ \A s \in Slots : step'[s] = "none"]_storeVars

\* A connection is never leased with a transaction left open, never idles while a call waits,
\* never comes on top of one replacement at work, and goes out of use when it is worn or the
\* store is closed, whatever is under way.
PoolIsSound ==
    /\ [](UnresolvedIsNeverLeased /\ NoIdleConnection /\ OneExtraConnection)
    /\ WornIsReplaced /\ CloseIsFinal

\* Every unit of work ends with an answer, also when the store closes under it.
CallsAreAnswered == \A c \in Calls : callAt[c] \in {"waiting", "working", "backoff"} ~> answer[c] # "none"

\* A store that begins to close ends up closed.
CloseEnds == phase = "draining" ~> phase = "closed"

\* Neither a unit of work nor the close waits for ever on the other.
StoreSettles == CallsAreAnswered /\ CloseEnds
=============================================================================
