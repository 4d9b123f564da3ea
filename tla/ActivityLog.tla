---------------------------- MODULE ActivityLog -----------------------------
(***************************************************************************)
(* The activity log and those who watch it: events are written to an       *)
(* outbox in the transaction they tell of, a single publisher gives them   *)
(* public numbers afterwards (src/src/storage/turso-activity.ts), old      *)
(* events are pruned, and observers wait for the number to change          *)
(* (ProjectObserver in src/src/observer.ts). One project; what an event    *)
(* says is left out.                                                       *)
(***************************************************************************)
EXTENDS Naturals, Sequences, FiniteSets

CONSTANTS
    Batches,     \* transactions that record activity
    BatchEvents,   \* events each of them records
    Observers,
    MaxPrunes    \* bound on prunes

ASSUME SizeAssumption == BatchEvents \in Nat \ {0} /\ MaxPrunes \in Nat

Events == Batches \X (1..BatchEvents)

VARIABLES
    committed,  \* batches whose transaction has committed
    outbox,     \* events committed and not yet published
    log,        \* retained events with their numbers: <<number, event>>
    last,       \* the greatest number ever given out
    head,       \* controlMeta.activityHead
    pruned,     \* activityProjects.prunedThrough
    prunes,     \* prunes so far
    waitAt,         \* where each observer's wait is
    after,      \* the cursor each observer waits past
    listening,  \* observers whose wakeup is registered
    replied     \* the last answer of each observer: its cursor, and whether it has a gap

logVars == <<outbox, log, last, head>>
pruneVars == <<pruned, prunes>>
waitVars == <<waitAt, after, listening, replied>>
activityVars == <<committed, logVars, pruneVars, waitVars>>

Numbers == {e[1] : e \in log}
Greatest(S) == CHOOSE n \in S : \A m \in S : m <= n

ActivityTypeOK ==
    /\ committed \subseteq Batches
    /\ outbox \subseteq Events
    /\ log \subseteq Nat \X Events
    /\ last \in Nat /\ head \in Nat /\ pruned \in Nat /\ prunes \in 0..MaxPrunes
    /\ waitAt \in [Observers -> {"idle", "publish1", "read1", "publish2", "read2", "asleep",
                             "publish3", "read3", "gap"}]
    /\ after \in [Observers -> Nat]
    /\ listening \subseteq Observers
    /\ replied \in [Observers -> [from : Nat, cursor : Nat, gap : BOOLEAN]]

ActivityInit ==
    /\ committed = {} /\ outbox = {} /\ log = {} /\ last = 0 /\ head = 0
    /\ pruned = 0 /\ prunes = 0
    /\ waitAt = [o \in Observers |-> "idle"]
    /\ after = [o \in Observers |-> 0]
    /\ listening = {}
    /\ replied = [o \in Observers |-> [from |-> 0, cursor |-> 0, gap |-> FALSE]]

-----------------------------------------------------------------------------
\* A control transaction commits, and its events with it.
RecordActivity(b) ==
    /\ b \notin committed
    /\ committed' = committed \cup {b}
    /\ outbox' = outbox \cup ({b} \X (1..BatchEvents))
    /\ UNCHANGED <<log, last, head, pruneVars, waitVars>>

\* Batches are published in the order of their random ids, events of one in theirs.
Orders(bs) == {f \in [1..Cardinality(bs) -> bs] : \A i, j \in DOMAIN f : f[i] = f[j] => i = j}

\* Mutation of FirstNumber: numbers of pruned events are given out again.
FirstNumberRetained == IF log = {} THEN 1 ELSE Greatest(Numbers) + 1

\* AUTOINCREMENT
FirstNumber == last + 1

\* Mutation of Published: the newest first.
PublishedBackwards(order) ==
    LET new == [k \in 1..(Len(order) * BatchEvents) |->
                  <<order[((k - 1) \div BatchEvents) + 1], BatchEvents - ((k - 1) % BatchEvents)>>]
    IN /\ log' = log \cup {<<FirstNumber + k - 1, new[k]>> : k \in DOMAIN new}
       /\ last' = FirstNumber + Len(new) - 1
       /\ head' = last'
       /\ outbox' = {}

\* One transaction moves the whole outbox to the log, batches in this order.
Published(order) ==
    LET new == [k \in 1..(Len(order) * BatchEvents) |->
                  <<order[((k - 1) \div BatchEvents) + 1], ((k - 1) % BatchEvents) + 1>>]
    IN /\ log' = log \cup {<<FirstNumber + k - 1, new[k]>> : k \in DOMAIN new}
       /\ last' = FirstNumber + Len(new) - 1
       /\ head' = last'
       /\ outbox' = {}

\* Every registered observer goes on to answer; `at` is where the others are.
Woken(at) ==
    /\ waitAt' = [o \in Observers |-> IF o \in listening THEN "publish3" ELSE at[o]]
    /\ listening' = {}

Publication(at) ==
    IF outbox = {} THEN waitAt' = at /\ UNCHANGED <<logVars, listening>>
    ELSE /\ \E order \in Orders({e[1] : e \in outbox}) : Published(order)
         /\ IF listening = {} THEN waitAt' = at /\ UNCHANGED listening ELSE Woken(at)

\* publishActivity(), after a transaction; a publication that fails is left for later.
Publish ==
    /\ outbox # {}
    /\ Publication(waitAt)
    /\ UNCHANGED <<committed, pruneVars, after, replied>>

\* Events that are too old, or too many: what is deleted need not be the lowest numbers,
\* since an event's time is not its number.
Prune(doomed) ==
    /\ prunes < MaxPrunes /\ doomed \subseteq log /\ doomed # {}
    /\ log' = log \ doomed
    /\ pruned' = Greatest({pruned} \cup {e[1] : e \in doomed})
    /\ prunes' = prunes + 1
    /\ UNCHANGED <<committed, outbox, last, head, waitVars>>

-----------------------------------------------------------------------------
(* ProjectObserver.wait(after). *)

Goto(o, where) == waitAt' = [waitAt EXCEPT ![o] = where]

\* snapshot(): the cursor and what is shown come from one read transaction, which
\* does not publish.
Snapshot(o) ==
    /\ waitAt[o] = "idle"
    /\ after' = [after EXCEPT ![o] = head]
    /\ UNCHANGED <<committed, logVars, pruneVars, waitAt, listening, replied>>

Wait(o) ==
    /\ waitAt[o] = "idle"
    /\ Goto(o, "publish1")
    /\ UNCHANGED <<committed, logVars, pruneVars, after, listening, replied>>

\* head(): publish first, then read.
PublishFirst(o) ==
    /\ \/ waitAt[o] = "publish1" /\ Publication([waitAt EXCEPT ![o] = "read1"])
       \/ waitAt[o] = "publish3" /\ Publication([waitAt EXCEPT ![o] = "read3"])
       \* An observer that is registered by now wakes itself too.
       \/ waitAt[o] = "publish2" /\ Publication([waitAt EXCEPT ![o] = "read2"])
    /\ UNCHANGED <<committed, pruneVars, after, replied>>

\* Mutation of Look: the observer registers only when it has looked again.
LookUnregistered(o) ==
    /\ waitAt[o] = "read1"
    /\ Goto(o, IF head = after[o] THEN "publish2" ELSE "publish3")
    /\ UNCHANGED <<committed, logVars, pruneVars, after, listening, replied>>

\* Nothing new: register, start the timer and look again.
Look(o) ==
    /\ waitAt[o] = "read1"
    /\ IF head = after[o]
       THEN Goto(o, "publish2") /\ listening' = listening \cup {o}
       ELSE Goto(o, "publish3") /\ UNCHANGED listening
    /\ UNCHANGED <<committed, logVars, pruneVars, after, replied>>

LookAgain(o) ==
    /\ waitAt[o] = "read2"
    /\ IF head = after[o]
       THEN Goto(o, "asleep") /\ UNCHANGED listening
       ELSE Goto(o, "publish3") /\ listening' = listening \ {o}
    /\ UNCHANGED <<committed, logVars, pruneVars, after, replied>>

TimedOut(o) ==
    /\ waitAt[o] \in {"publish2", "read2", "asleep"}
    /\ Goto(o, "publish3") /\ listening' = listening \ {o}
    /\ UNCHANGED <<committed, logVars, pruneVars, after, replied>>

\* The request is aborted, or a publication it asked for fails.
Fails(o) ==
    /\ waitAt[o] # "idle"
    /\ Goto(o, "idle") /\ listening' = listening \ {o}
    /\ UNCHANGED <<committed, logVars, pruneVars, after, replied>>

\* The answer: the cursor, and then whether anything past `after` was pruned.
ReadCursor(o) ==
    /\ waitAt[o] = "read3"
    /\ replied' = [replied EXCEPT ![o] = [from |-> after[o], cursor |-> head, gap |-> FALSE]]
    /\ Goto(o, "gap")
    /\ UNCHANGED <<committed, logVars, pruneVars, after, listening>>

ReadGap(o) ==
    /\ waitAt[o] = "gap"
    /\ replied' = [replied EXCEPT ![o].gap = replied[o].from < pruned]
    /\ after' = [after EXCEPT ![o] = replied[o].cursor]
    /\ Goto(o, "idle")
    /\ UNCHANGED <<committed, logVars, pruneVars, listening>>

\* The daemon ends: waits are lost, the outbox and the log are not.
DaemonEnds ==
    /\ waitAt' = [o \in Observers |-> "idle"] /\ listening' = {}
    /\ UNCHANGED <<committed, logVars, pruneVars, after, replied>>

-----------------------------------------------------------------------------
ActivityNext ==
    \/ Publish \/ DaemonEnds
    \/ \E b \in Batches : RecordActivity(b)
    \/ \E doomed \in SUBSET log : Prune(doomed)
    \/ \E o \in Observers :
          \/ Snapshot(o) \/ Wait(o) \/ PublishFirst(o) \/ Look(o) \/ LookAgain(o)
          \/ TimedOut(o) \/ Fails(o) \/ ReadCursor(o) \/ ReadGap(o)

ActivitySpec == ActivityInit /\ [][ActivityNext]_activityVars

\* Whoever writes publishes afterwards, and a wait goes on; it need not time out.
ActivityFairness ==
    /\ WF_activityVars(Publish)
    /\ \A o \in Observers :
          WF_activityVars(PublishFirst(o) \/ Look(o) \/ LookAgain(o) \/ ReadCursor(o) \/ ReadGap(o))
ActivityFairSpec == ActivitySpec /\ ActivityFairness

-----------------------------------------------------------------------------
(* Properties. *)

\* Every event of a committed transaction is waiting or has one number, never both,
\* unless it was pruned; nothing else is there.
PublishedOnce ==
    /\ \A e \in log, f \in log : (e[2] = f[2] \/ e[1] = f[1]) => e = f
    /\ {e[2] : e \in log} \cap outbox = {}
    /\ \A e \in log : e[2][1] \in committed
    /\ prunes = 0 => outbox \cup {e[2] : e \in log} = committed \X (1..BatchEvents)

\* The events of one transaction keep their order.
TransactionOrder ==
    \A e, f \in log : e[2][1] = f[2][1] /\ e[2][2] < f[2][2] => e[1] < f[1]

\* The log is the history of what was committed: complete, without repeats, in order.
LogIsHistory == PublishedOnce /\ TransactionOrder

\* Whatever is published from now on is past every cursor an observer has been given:
\* a transaction that finishes late cannot hide its events behind one.
CursorsHideNothing ==
    [][\A e \in log' \ log :
         /\ e[1] > head
         /\ \A o \in Observers : e[1] > after[o] /\ e[1] > replied[o].cursor]_activityVars

\* No observer sleeps on while the log has moved past its cursor.
NoSleepPastNews == \A o \in Observers : waitAt[o] = "asleep" => head = after[o] /\ o \in listening

\* An observer that is told of no gap can still read everything past the cursor it
\* had, as of the moment it was told.
GapIsTold ==
    [][\A o \in Observers :
         ReadGap(o) => \/ replied'[o].gap
                       \/ \A n \in (replied[o].from + 1)..replied[o].cursor : n \in Numbers]_activityVars

\* An observer gets every event past its cursor, or is told that some are gone.
CursorsAreHonest == []LogIsHistory /\ CursorsHideNothing /\ GapIsTold

\* An observer asleep when a transaction commits is answered, or its wait fails.
NewsArrives ==
    \A o \in Observers : (waitAt[o] = "asleep" /\ outbox # {}) ~> waitAt[o] # "asleep"
=============================================================================
