-------------------------------- MODULE Wakeups --------------------------------
(***************************************************************************)
(* Waiting for work: WakeSignals and the three loops that use it, for one  *)
(* identity. A commit wakes the waiters that are registered, after it is   *)
(* durable; a loop looks at the inbox, and sleeps when there is nothing.   *)
(* Between any two steps of a loop other calls of the daemon run.          *)
(***************************************************************************)
EXTENDS Naturals, FiniteSets

CONSTANTS
    InboxWaiters,   \* calls of waitInbox
    WorkWaiters,    \* calls of waitForWork
    TaskWaiters,    \* calls of waitWorkTask, and of getWorkTask (no time to wait)
    MaxWork,        \* bound: notifications that may be captured at one time
    MaxToWake       \* bound: commits whose hooks have not run

ASSUME BoundsAssumption == MaxWork \in Nat \ {0} /\ MaxToWake \in Nat \ {0}

\* A call waits in one of the three loops.
ASSUME LoopsAssumption == (InboxWaiters \cup WorkWaiters) \cap TaskWaiters = {}

Waiters == InboxWaiters \cup WorkWaiters \cup TaskWaiters

VARIABLES
    work,       \* number of actionable notifications in no live batch
    toWake,     \* number of commits whose afterCommit hooks have not run
    task,       \* status of the identity's work task
    place,      \* where a call stands
    settled,    \* what became of its promise: "no", "woken" or "cancelled"
    registered, \* the waiters in the map of WakeSignals
    expired,    \* the calls whose time is up
    late,       \* those for which it was when they registered
    aborted,    \* those whose signal is aborted
    lost,       \* history: the calls that ended without an answer
    missed      \* history: a commit took place since the call last looked

waiterVars == <<place, settled, registered, expired, late, aborted, lost, missed>>
wakeVars == <<work, toWake, task, place, settled, registered, expired, late, aborted, lost, missed>>

Places == {"off", "viewing", "looking", "polling", "capturing", "holding", "empty", "asleep"}
NoOne == {}

WakeInit ==
    /\ work = 0
    /\ toWake = 0
    /\ task = "none"
    /\ place = [w \in Waiters |-> "off"]
    /\ settled = [w \in Waiters |-> "no"]
    /\ registered = NoOne
    /\ expired = NoOne
    /\ late = NoOne
    /\ aborted = NoOne
    /\ lost = NoOne
    /\ missed = NoOne

----------------------------------------------------------------------------
(* Commits and other users of the inbox                                    *)

\* A commit that notifies the identity. Its hooks run when it is durable.
NotifyCommit ==
    /\ work < MaxWork
    /\ toWake < MaxToWake
    /\ work' = work + 1
    /\ toWake' = toWake + 1
    /\ missed' = missed \cup {w \in Waiters : place[w] \in {"asleep", "empty"}}
    /\ UNCHANGED <<task, place, settled, registered, expired, late, aborted, lost>>

\* WakeSignals.signal: everybody registered is taken out of the map and woken.
Signal ==
    /\ toWake > 0
    /\ toWake' = toWake - 1
    /\ settled' = [w \in Waiters |->
        IF w \in registered /\ place[w] # "off" THEN "woken" ELSE settled[w]]
    /\ registered' = NoOne
    /\ UNCHANGED <<work, task, place, expired, late, aborted, lost, missed>>

\* Hooks and reads capture what there is; a batch that is released gives it back, and
\* nobody is woken for that.
CaptureElsewhere ==
    /\ work > 0
    /\ work' = 0
    /\ UNCHANGED <<toWake, task, waiterVars>>

GiveBack ==
    /\ work < MaxWork
    /\ work' = work + 1
    /\ UNCHANGED <<toWake, task, waiterVars>>

----------------------------------------------------------------------------
(* Steps that the loops share                                              *)

Start(w) ==
    /\ place[w] = "off"
    /\ w \notin registered
    /\ w \in TaskWaiters => task # "none"
    /\ place' = [place EXCEPT ![w] = IF w \in TaskWaiters THEN "polling" ELSE "viewing"]
    /\ \E timeUp \in BOOLEAN : expired' = IF timeUp THEN expired \cup {w} ELSE expired
    /\ lost' = lost \ {w}
    /\ UNCHANGED <<work, toWake, task, settled, registered, late, aborted, missed>>

\* The call ends; cancel() takes its waiter out of the map.
Forget(w) ==
    /\ place' = [place EXCEPT ![w] = "off"]
    /\ settled' = [settled EXCEPT ![w] = "no"]
    /\ expired' = expired \ {w}
    /\ late' = late \ {w}
    /\ aborted' = aborted \ {w}
    /\ missed' = missed \ {w}
    /\ UNCHANGED lost

Ends(w) ==
    /\ Forget(w)
    /\ registered' = registered \ {w}

\* Nobody handles the rejection of a promise that nobody awaits yet: Node ends the process,
\* and with it every call. The next daemon starts with an empty map.
Crash ==
    /\ place' = [w \in Waiters |-> "off"]
    /\ settled' = [w \in Waiters |-> "no"]
    /\ lost' = {w \in Waiters : place[w] # "off"}
    /\ registered' = NoOne
    /\ expired' = NoOne
    /\ late' = NoOne
    /\ aborted' = NoOne
    /\ missed' = NoOne
    /\ toWake' = 0
    /\ UNCHANGED <<work, task>>

\* The call's time passes, and the timer of its waiter fires.
Expire(w) ==
    /\ place[w] # "off"
    /\ w \notin expired
    /\ expired' = expired \cup {w}
    /\ UNCHANGED <<work, toWake, task, place, settled, registered, late, aborted, lost, missed>>

\* Mutation of TimerFires: the timer of a wait is cleared when the call starts to sleep.
TimerFiresAbandoned(w) ==
    /\ w \in registered
    /\ place[w] = "off"
    /\ registered' = registered \ {w}
    /\ UNCHANGED <<work, toWake, task, place, settled, expired, late, aborted, lost, missed>>

TimerFires(w) ==
    /\ w \in registered
    /\ w \in expired \/ place[w] = "off"
    /\ settled' = [settled EXCEPT ![w] = IF place[w] = "off" THEN "no" ELSE "woken"]
    /\ registered' = registered \ {w}
    /\ UNCHANGED <<work, toWake, task, place, expired, late, aborted, lost, missed>>

\* The caller cancels its request or its connection closes.
Abort(w) ==
    /\ place[w] # "off"
    /\ w \notin aborted
    /\ IF w \in registered /\ place[w] = "looking"
       THEN Crash
       ELSE /\ settled' = [settled EXCEPT ![w] = IF w \in registered THEN "cancelled" ELSE @]
            /\ registered' = registered \ {w}
            /\ aborted' = aborted \cup {w}
            /\ UNCHANGED <<work, toWake, task, place, expired, late, lost, missed>>

\* wait() puts a waiter into the map.
Register(w) ==
    /\ registered' = IF w \in aborted THEN registered ELSE registered \cup {w}
    /\ settled' = [settled EXCEPT ![w] = IF w \in aborted THEN "cancelled" ELSE "no"]

----------------------------------------------------------------------------
(* waitInbox and waitForWork register, then look                           *)

\* The actor is known; the waiter is registered before the inbox is inspected.
RegisterFirst(w) ==
    /\ place[w] = "viewing"
    /\ IF w \in aborted
       THEN Crash
       ELSE /\ Register(w)
            /\ late' = IF w \in expired THEN late \cup {w} ELSE late
            /\ place' = [place EXCEPT ![w] = "looking"]
            /\ UNCHANGED <<work, toWake, task, expired, aborted, lost, missed>>

\* hasActionable sees work, or capture takes it.
LookFinds(w) ==
    /\ place[w] = "looking"
    /\ work > 0
    /\ Ends(w)
    /\ work' = IF w \in WorkWaiters THEN 0 ELSE work
    /\ UNCHANGED <<toWake, task>>

LookFindsNothing(w) ==
    /\ place[w] = "looking"
    /\ work = 0
    /\ IF w \in late
       THEN Ends(w)
       ELSE /\ place' = [place EXCEPT ![w] = "asleep"]
            /\ missed' = missed \ {w}
            /\ UNCHANGED <<settled, registered, expired, late, aborted, lost>>
    /\ UNCHANGED <<work, toWake, task>>

\* The look throws, say because the session ended meanwhile: the waiter stays in the map until
\* its timer fires.
LookFails(w) ==
    /\ place[w] = "looking"
    /\ Forget(w)
    /\ UNCHANGED <<work, toWake, task, registered>>

\* The awaited promise is resolved. waitForWork gives up when its time is up; the others look.
Wake(w) ==
    /\ place[w] = "asleep"
    /\ settled[w] = "woken"
    /\ IF w \in WorkWaiters \cap expired
       THEN Ends(w)
       ELSE /\ place' = [place EXCEPT ![w] = IF w \in TaskWaiters THEN "polling" ELSE "viewing"]
            /\ UNCHANGED <<settled, registered, expired, late, aborted, lost, missed>>
    /\ UNCHANGED <<work, toWake, task>>

WakeCancelled(w) ==
    /\ place[w] = "asleep"
    /\ settled[w] = "cancelled"
    /\ Ends(w)
    /\ UNCHANGED <<work, toWake, task>>

----------------------------------------------------------------------------
(* waitWorkTask looks, then registers                                      *)

CreateWorkTask ==
    /\ task # "working"
    /\ task' = "working"
    /\ UNCHANGED <<work, toWake, waiterVars>>

CancelWorkTask ==
    /\ task = "working"
    /\ task' = "cancelled"
    /\ UNCHANGED <<work, toWake, waiterVars>>

\* getWorkTask: the status of the task, in a transaction of its own.
PollTask(w) ==
    /\ place[w] = "polling"
    /\ IF task = "working"
       THEN /\ place' = [place EXCEPT ![w] = "capturing"]
            /\ UNCHANGED <<settled, registered, expired, late, aborted, lost, missed>>
       ELSE Ends(w)
    /\ UNCHANGED <<work, toWake, task>>

\* getWorkTask: a working task captures what there is.
CaptureForTask(w) ==
    /\ place[w] = "capturing"
    /\ place' = [place EXCEPT ![w] = IF work > 0 THEN "holding" ELSE "empty"]
    /\ work' = 0
    /\ missed' = missed \ {w}
    /\ UNCHANGED <<toWake, task, settled, registered, expired, late, aborted, lost>>

\* getWorkTask: the task is completed with the batch unless it ended meanwhile; the batch is
\* then left for the agent to read.
CompleteTask(w) ==
    /\ place[w] = "holding"
    /\ task' = IF task = "working" THEN "completed" ELSE task
    /\ Ends(w)
    /\ UNCHANGED <<work, toWake>>

\* waitWorkTask: there was nothing. It ends if its time is up, else it registers.
RegisterLast(w) ==
    /\ place[w] = "empty"
    /\ IF w \in expired
       THEN Ends(w)
       ELSE /\ Register(w)
            /\ place' = [place EXCEPT ![w] = "asleep"]
            /\ UNCHANGED <<expired, late, aborted, lost, missed>>
    /\ UNCHANGED <<work, toWake, task>>

Step(w) ==
    \/ RegisterFirst(w) \/ LookFinds(w) \/ LookFindsNothing(w) \/ Wake(w) \/ WakeCancelled(w)
    \/ PollTask(w) \/ CaptureForTask(w) \/ CompleteTask(w) \/ RegisterLast(w)

WakeNext ==
    \/ NotifyCommit \/ Signal \/ CaptureElsewhere \/ GiveBack \/ CreateWorkTask \/ CancelWorkTask
    \/ \E w \in Waiters :
        Start(w) \/ Expire(w) \/ TimerFires(w) \/ Abort(w) \/ LookFails(w) \/ Step(w)

\* Steps of a call are carried out, time passes, and timers and hooks run.
WakeFairness ==
    /\ WF_wakeVars(Signal)
    /\ \A w \in Waiters : WF_wakeVars(Step(w)) /\ WF_wakeVars(Expire(w)) /\ WF_wakeVars(TimerFires(w))

WakeSpec == WakeInit /\ [][WakeNext]_wakeVars
WakeLiveSpec == WakeSpec /\ WakeFairness

----------------------------------------------------------------------------
(* Properties                                                              *)

WakeTypeOK ==
    /\ work \in 0..MaxWork
    /\ toWake \in 0..MaxToWake
    /\ task \in {"none", "working", "completed", "cancelled"}
    /\ place \in [Waiters -> Places]
    /\ settled \in [Waiters -> {"no", "woken", "cancelled"}]
    /\ {registered, expired, late, aborted, lost, missed} \subseteq SUBSET Waiters
    /\ late \subseteq expired
    /\ registered \cap aborted = {}

\* waitInbox and waitForWork do not sleep through a commit: if one notified the identity after
\* they looked, they are awake or its hooks are about to wake them. waitWorkTask, which looks
\* before it registers, has no such promise and may sleep until its time is up.
NoWakeLost ==
    \A w \in InboxWaiters \cup WorkWaiters :
        place[w] = "asleep" /\ settled[w] = "no" /\ w \in missed => toWake > 0

\* Whoever sleeps can still be woken: by its entry in the map, or it is awake already. A waiter
\* dropped from the map with its promise open would sleep for ever, timer and signals
\* notwithstanding.
SleepersAreRegistered ==
    \A w \in Waiters : place[w] = "asleep" /\ settled[w] = "no" => w \in registered

\* Every wait ends, whatever is committed, captured or given back meanwhile.
WaitsEnd == \A w \in Waiters : place[w] # "off" ~> place[w] = "off"

\* A wait that is cancelled ends with an answer to its caller, and so do all others: no call is
\* lost because another was cancelled.
WaitsAreAnswered == lost = {}
=============================================================================
