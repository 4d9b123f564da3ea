------------------------------ MODULE TaskWatch ------------------------------
(***************************************************************************)
(* How an MCP client hears of its tasks (TaskAwareStdioTransport and the   *)
(* watchers of src/src/mcp.ts). A client listens to tasks; the transport   *)
(* keeps the request until the protocol library acknowledges it, and asks  *)
(* for a watcher per task somebody listens to. A watcher waits at the      *)
(* daemon for a change (waitTask, waitWorkTask) and sends what it hears to *)
(* the subscriptions that are acknowledged.                                *)
(*                                                                         *)
(* Tasks change at the daemon as TurnTasks and Wakeups describe; here each *)
(* has a number of changes ahead, the last of which ends it, and a stamp,  *)
(* lastUpdatedAt, by which a watcher tells what it has heard.              *)
(***************************************************************************)
EXTENDS Naturals

CONSTANTS
    Followed,     \* tasks
    Listens,      \* ids of subscriptions/listen requests
    Watchers,     \* runs of the loop of watchTasks; bounds how many may start
    LastChange,   \* the change that ends a task
    StampSteps,   \* how far the clock, in milliseconds, moves between two changes of a task
    Backpressure  \* whether stdout may make a notification wait

ASSUME WatchAssumption ==
    LastChange \in Nat /\ StampSteps \subseteq Nat /\ Backpressure \in BOOLEAN

VARIABLES
    tasks,     \* at the daemon: the last change of each task, and its stamp
    listen,    \* listen requests: new, pending, acknowledged, cancelled
    wants,     \* the tasks each is about
    routed,    \* tasks made by a call with a host session route
    watched,   \* watchers: the loop each task's entry is of
    loop,      \* the runs of the loop, and how each that is through left
    routes,    \* taskRoutes: the routed tasks the adapter knows the host session of
    told       \* the change each subscription was last told, for each task

watchVars == <<tasks, listen, wants, routed, watched, loop, routes, told>>

NoWatcher == "none"
NoLoop == [at |-> "new"]

WatchInit ==
    /\ tasks = [t \in Followed |-> [change |-> 1, stamp |-> 1]]
    /\ listen = [s \in Listens |-> "new"]
    /\ wants \in [Listens -> SUBSET Followed \ {{}}]
    /\ watched = [t \in Followed |-> NoWatcher]
    /\ loop = [l \in Watchers |-> NoLoop]
    /\ routed \in SUBSET Followed
    /\ routes = routed
    /\ told = [s \in Listens |-> [t \in Followed |-> 0]]

\* The task changes at the daemon, by a poll, another client or the sweep.
TaskChanges(t) ==
    /\ tasks[t].change < LastChange
    /\ \E d \in StampSteps :
          tasks' = [tasks EXCEPT ![t] = [change |-> @.change + 1, stamp |-> @.stamp + d]]
    /\ UNCHANGED <<listen, wants, routed, watched, loop, routes, told>>

-----------------------------------------------------------------------------
(* The transport. *)

Wanted(ls) == UNION {wants[s] : s \in {s \in Listens : ls[s] \in {"pending", "acknowledged"}}}

\* watchTasks: the watchers of tasks nobody wants any more are aborted, entry and route
\* removed; each task without an entry gets a new watcher.
Watch(ids) ==
    LET gone == {t \in Followed : watched[t] # NoWatcher /\ t \notin ids}
        missing == {t \in ids : watched[t] = NoWatcher}
    IN  \E start \in [missing -> {l \in Watchers : loop[l] = NoLoop}] :
           /\ \A t, u \in missing : start[t] = start[u] => t = u
           /\ watched' = [t \in Followed |->
                 IF t \in gone THEN NoWatcher ELSE IF t \in missing THEN start[t] ELSE watched[t]]
           /\ loop' = [l \in Watchers |->
                 IF \E t \in missing : start[t] = l
                 THEN [at |-> "ask", of |-> CHOOSE t \in missing : start[t] = l,
                       after |-> 0, aborted |-> FALSE, last |-> FALSE]
                 ELSE IF \E t \in gone : watched[t] = l THEN [loop[l] EXCEPT !.aborted = TRUE]
                 ELSE loop[l]]
           /\ routes' = routes \ gone

\* subscriptions/listen, and notifications/cancelled.
Listen(s) ==
    /\ listen[s] = "new"
    /\ listen' = [listen EXCEPT ![s] = "pending"]
    /\ Watch(Wanted(listen'))
    /\ UNCHANGED <<tasks, wants, routed, told>>
Unlisten(s) ==
    /\ listen[s] \in {"pending", "acknowledged"}
    /\ listen' = [listen EXCEPT ![s] = "cancelled"]
    /\ Watch(Wanted(listen'))
    /\ UNCHANGED <<tasks, wants, routed, told>>

\* Mutation of Acknowledge: the tasks are asked for once, when the request comes.
AcknowledgeOnly(s) ==
    /\ listen[s] = "pending"
    /\ listen' = [listen EXCEPT ![s] = "acknowledged"]
    /\ UNCHANGED <<tasks, wants, routed, told, watched, loop, routes>>

\* send of subscriptions/acknowledged: from here on notifications reach the subscription.
Acknowledge(s) ==
    /\ listen[s] = "pending"
    /\ listen' = [listen EXCEPT ![s] = "acknowledged"]
    /\ Watch(Wanted(listen'))
    /\ UNCHANGED <<tasks, wants, routed, told>>

-----------------------------------------------------------------------------
(* A watcher. *)

Ended(t) == tasks[t].change = LastChange

Knows(t) == t \in routes \cup (Followed \ routed)
Hears(l) == loop[l].at = "ask" /\ ~loop[l].aborted /\ Knows(loop[l].of)

\* A loop is through: it takes the entry of its task out of the map, whosever it is.
LeaveLoop(l, how) ==
    /\ watched' = [watched EXCEPT ![loop[l].of] = NoWatcher]
    /\ loop' = [loop EXCEPT ![l].at = how]

\* waitTask answers with something newer than the loop has heard, and the acknowledged
\* subscriptions are told; at once, or when stdout takes it.
Hear(l) ==
    LET t == loop[l].of IN
    /\ Hears(l) /\ tasks[t].stamp > loop[l].after
    /\ told' = [s \in Listens |->
          IF listen[s] = "acknowledged" /\ t \in wants[s]
          THEN [told[s] EXCEPT ![t] = tasks[t].change] ELSE told[s]]
    /\ \/ /\ Ended(t) /\ LeaveLoop(l, "ended")
       \/ /\ ~Ended(t) /\ loop' = [loop EXCEPT ![l].after = tasks[t].stamp] /\ UNCHANGED watched
       \/ /\ Backpressure /\ \E s \in Listens : listen[s] = "acknowledged" /\ t \in wants[s]
          /\ loop' = [loop EXCEPT ![l].after = tasks[t].stamp, ![l].at = "told",
                                   ![l].last = Ended(t)]
          /\ UNCHANGED watched
    /\ UNCHANGED <<tasks, listen, wants, routed, routes>>

\* The wait is over and brings nothing newer, but the task has ended: the loop leaves without
\* a word, since the end carries the stamp of a change that it has heard.
Overhear(l) ==
    /\ Hears(l) /\ Ended(loop[l].of) /\ tasks[loop[l].of].stamp <= loop[l].after
    /\ LeaveLoop(l, "unaware")
    /\ UNCHANGED <<tasks, listen, wants, routed, routes, told>>

\* The call, or the notification, fails with something that is no error of the daemon's, or
\* the daemon does not find the task: the loop breaks, without a word. (After any other error
\* it asks again.)
Break(l) ==
    /\ loop[l].at \in {"ask", "told"} /\ ~loop[l].aborted
    /\ LeaveLoop(l, "failed")
    /\ UNCHANGED <<tasks, listen, wants, routed, routes, told>>

\* stdout drained.
StdoutDrains(l) ==
    /\ loop[l].at = "told"
    /\ \/ loop[l].last /\ LeaveLoop(l, "ended")
       \/ ~loop[l].last /\ loop' = [loop EXCEPT ![l].at = "ask"] /\ UNCHANGED watched
    /\ UNCHANGED <<tasks, listen, wants, routed, routes, told>>

\* The call of an aborted watcher is rejected.
Stop(l) ==
    /\ loop[l].at = "ask" /\ loop[l].aborted
    /\ LeaveLoop(l, "ended")
    /\ UNCHANGED <<tasks, listen, wants, routed, routes, told>>

WatchNext ==
    \/ \E t \in Followed : TaskChanges(t)
    \/ \E s \in Listens : Listen(s) \/ Unlisten(s) \/ Acknowledge(s)
    \/ \E l \in Watchers : Hear(l) \/ Overhear(l) \/ Break(l) \/ StdoutDrains(l) \/ Stop(l)

WatchSpec == WatchInit /\ [][WatchNext]_watchVars

-----------------------------------------------------------------------------
(* Properties. *)

WatcherOf(l, t) ==
    /\ loop[l].at = "ask" \/ (loop[l].at = "told" /\ ~loop[l].last)
    /\ loop[l].of = t /\ ~loop[l].aborted
WatcherAtWork(t) ==
    \E l \in Watchers : WatcherOf(l, t) /\ loop[l].after < tasks[t].stamp /\ Knows(t)

\* How the end of a task can be missed. A watcher left on an error, or not aware of the end, or
\* while somebody subscribed when stdout made it wait with its last words, and nobody has
\* subscribed since, which starts another; or a watcher is about to leave so; or the adapter
\* forgot the host session whose task it is.
Missed(t) ==
    \/ /\ watched[t] = NoWatcher
       /\ \E l \in Watchers :
             /\ loop[l].at \in {"failed", "unaware"} \/ (loop[l].at = "ended" /\ loop[l].last)
             /\ loop[l].of = t
    \/ \E l \in Watchers : loop[l].at = "told" /\ loop[l].last /\ loop[l].of = t
    \/ \E l \in Watchers : WatcherOf(l, t) /\ loop[l].after = tasks[t].stamp
    \/ ~Knows(t)

\* Whoever listens to a task is told that it ended, or a watcher that has not heard it yet is
\* at work, whatever comes between a request and its acknowledgement, with other subscriptions
\* to the task coming and going, and watchers stopping late: except in the ways of Missed, and
\* there, unless the session is forgotten, the next request of any subscription makes it good.
EndsAreTold ==
    \A s \in Listens : \A t \in wants[s] :
        listen[s] = "acknowledged" /\ Ended(t) /\ ~Missed(t) =>
            told[s][t] = LastChange \/ WatcherAtWork(t)

\* Does not hold: every watcher at work is the one of its task's entry. A watcher that was
\* stopped removes the entry of its successor, which nobody will stop, and which gets a twin.
OneWatcherPerTask ==
    \A l \in Watchers : loop[l].at = "ask" /\ ~loop[l].aborted => watched[loop[l].of] = l
=============================================================================
