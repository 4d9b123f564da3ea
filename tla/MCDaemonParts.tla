--------------------------- MODULE MCDaemonParts ----------------------------
(***************************************************************************)
(* Parts of the daemon that share no state, on small instances, side by    *)
(* side: the initial state picks the part that runs. The others stay where *)
(* they begin, and there no action under fairness is enabled.              *)
(***************************************************************************)
EXTENDS
    KeyedMutex, Wakeups, ActivityLog, TursoStore, Ipc, Tickets, AgentUpdates,
    ThreadContent, TurnTasks, TaskWatch, DaemonOwnership, HostSessions,
    OpenCodePlugin, Diagnostics, Sonar, TurnReads, Listings, Posts,
    AdapterLink, NativeWake, TicketGraph, DaemonConnections, DiagnosticLog,
    ObservedLists, ActivityEvents, TLC

VARIABLE part

vars ==
    <<part, mutexVars, wakeVars, activityVars, storeVars, ipcVars, ticketVars,
    updateVars, threadVars, taskVars, watchVars, ownershipVars, hostVars,
    pluginVars, diagnosticVars, sonarVars, readVars, listVars, postVars,
    linkVars, wakeupVars, graphVars, connectionVars, logFileVars, lookVars,
    eventVars>>

Init ==
    /\ part \in {
           "mutex", "wakeups", "activity", "store", "ipc", "tickets",
           "updates", "thread", "tasks", "watch", "ownership", "host",
           "plugin", "diagnostics", "sonar", "reads", "lists", "posts",
           "link", "native", "graph", "connections", "log", "observed",
           "events"}
    \* No run has a key before its call; of other parts one initial state is enough.
    /\ keyOf = [p \in Runs |-> CHOOSE k \in Keys : TRUE]
    /\ dependsOn = [t \in GraphTickets |-> {1} \ {t}] /\ onTicket = 1
    /\ MutexInit /\ WakeInit /\ ActivityInit /\ StoreInit /\ IpcInit
    /\ TicketsInit /\ UpdatesInit /\ ThreadInit /\ TasksInit /\ WatchInit
    /\ OwnershipInit /\ HostInit /\ PluginInit /\ DiagnosticsInit /\ SonarInit
    /\ ReadsInit /\ ListsInit /\ PostsInit /\ LinkInit /\ WakeupInit
    /\ GraphInit /\ ConnectionsInit /\ LogInit /\ ObservedInit /\ EventsInit
    /\ DOMAIN tickets \in IF part = "tickets" THEN {{}, TicketIds} ELSE {{}}
    /\ part # "watch" => wants = [s \in Listens |-> Followed] /\ routed = {}
    /\ part # "lists" => subject = "project"
    /\ part # "observed" => listed = "agents"

\* How many of these are in each state, whoever they are.
Alike(stateOf) ==
    [v \in {stateOf[x] : x \in DOMAIN stateOf} |->
        Cardinality({x \in DOMAIN stateOf : stateOf[x] = v})]

\* States of a part differ in its own variables only. It makes no difference which writer
\* of the log, which transaction, read or call is the one in some state.
View ==
    CASE part = "mutex" -> <<part, mutexVars>>
      [] part = "wakeups" -> <<part, wakeVars>>
      [] part = "activity" -> <<part, activityVars>>
      [] part = "store" -> <<part, storeVars>>
      [] part = "ipc" -> <<part, ipcVars>>
      [] part = "tickets" -> <<part, ticketVars>>
      [] part = "updates" -> <<part, updateVars>>
      [] part = "thread" -> <<part, thread, revisions, visibility, Alike(editing), Alike(pageRead)>>
      [] part = "tasks" -> <<part, taskVars>>
      [] part = "watch" -> <<part, watchVars>>
      [] part = "ownership" -> <<part, ownershipVars>>
      [] part = "host" -> <<part, hostVars>>
      [] part = "plugin" -> <<part, pluginVars>>
      [] part = "diagnostics" -> <<part, diagnosticVars>>
      [] part = "sonar" -> <<part, sonarVars>>
      [] part = "reads" -> <<part, holding, bases, current, Alike(readCall), keptPages>>
      [] part = "lists" -> <<part, listVars>>
      [] part = "posts" -> <<part, postVars>>
      [] part = "link" ->
            <<part, link, session, connecting, linkInUse, heartbeat, adapterStopped, preferred,
            Alike(toolCall), doubt>>
      [] part = "native" -> <<part, wakeupVars>>
      [] part = "graph" -> <<part, graphVars>>
      [] part = "connections" -> <<part, connectionVars>>
      [] part = "log" ->
            <<part, Alike([l \in Loggers |-> <<logger[l], logLock = l>>]), records, written,
            emitted>>
      [] part = "observed" -> <<part, lookVars>>
      [] part = "events" -> <<part, rows, boundTo, Alike(change), waiting, said, doubtful>>

\* The part p acts; no other has left its initial state.
Only(p, taken, others) == part = p /\ taken /\ UNCHANGED <<part, others>>

Next ==
    \/ Only("mutex", MutexNext,
           <<wakeVars, activityVars, storeVars, ipcVars, ticketVars, updateVars,
           threadVars, taskVars, watchVars, ownershipVars, hostVars, pluginVars,
           diagnosticVars, sonarVars, readVars, listVars, postVars, linkVars,
           wakeupVars, graphVars, connectionVars, logFileVars, lookVars, eventVars>>)
    \/ Only("wakeups", WakeNext,
           <<mutexVars, activityVars, storeVars, ipcVars, ticketVars, updateVars,
           threadVars, taskVars, watchVars, ownershipVars, hostVars, pluginVars,
           diagnosticVars, sonarVars, readVars, listVars, postVars, linkVars,
           wakeupVars, graphVars, connectionVars, logFileVars, lookVars, eventVars>>)
    \/ Only("activity", ActivityNext,
           <<mutexVars, wakeVars, storeVars, ipcVars, ticketVars, updateVars,
           threadVars, taskVars, watchVars, ownershipVars, hostVars, pluginVars,
           diagnosticVars, sonarVars, readVars, listVars, postVars, linkVars,
           wakeupVars, graphVars, connectionVars, logFileVars, lookVars, eventVars>>)
    \/ Only("store", StoreNext,
           <<mutexVars, wakeVars, activityVars, ipcVars, ticketVars, updateVars,
           threadVars, taskVars, watchVars, ownershipVars, hostVars, pluginVars,
           diagnosticVars, sonarVars, readVars, listVars, postVars, linkVars,
           wakeupVars, graphVars, connectionVars, logFileVars, lookVars, eventVars>>)
    \/ Only("ipc", IpcNext,
           <<mutexVars, wakeVars, activityVars, storeVars, ticketVars, updateVars,
           threadVars, taskVars, watchVars, ownershipVars, hostVars, pluginVars,
           diagnosticVars, sonarVars, readVars, listVars, postVars, linkVars,
           wakeupVars, graphVars, connectionVars, logFileVars, lookVars, eventVars>>)
    \/ Only("tickets", TicketsNext,
           <<mutexVars, wakeVars, activityVars, storeVars, ipcVars, updateVars,
           threadVars, taskVars, watchVars, ownershipVars, hostVars, pluginVars,
           diagnosticVars, sonarVars, readVars, listVars, postVars, linkVars,
           wakeupVars, graphVars, connectionVars, logFileVars, lookVars, eventVars>>)
    \/ Only("updates", UpdatesNext,
           <<mutexVars, wakeVars, activityVars, storeVars, ipcVars, ticketVars,
           threadVars, taskVars, watchVars, ownershipVars, hostVars, pluginVars,
           diagnosticVars, sonarVars, readVars, listVars, postVars, linkVars,
           wakeupVars, graphVars, connectionVars, logFileVars, lookVars, eventVars>>)
    \/ Only("thread", ThreadNext,
           <<mutexVars, wakeVars, activityVars, storeVars, ipcVars, ticketVars,
           updateVars, taskVars, watchVars, ownershipVars, hostVars, pluginVars,
           diagnosticVars, sonarVars, readVars, listVars, postVars, linkVars,
           wakeupVars, graphVars, connectionVars, logFileVars, lookVars, eventVars>>)
    \/ Only("tasks", TasksNext,
           <<mutexVars, wakeVars, activityVars, storeVars, ipcVars, ticketVars,
           updateVars, threadVars, watchVars, ownershipVars, hostVars, pluginVars,
           diagnosticVars, sonarVars, readVars, listVars, postVars, linkVars,
           wakeupVars, graphVars, connectionVars, logFileVars, lookVars, eventVars>>)
    \/ Only("watch", WatchNext,
           <<mutexVars, wakeVars, activityVars, storeVars, ipcVars, ticketVars,
           updateVars, threadVars, taskVars, ownershipVars, hostVars, pluginVars,
           diagnosticVars, sonarVars, readVars, listVars, postVars, linkVars,
           wakeupVars, graphVars, connectionVars, logFileVars, lookVars, eventVars>>)
    \/ Only("ownership", OwnershipNext,
           <<mutexVars, wakeVars, activityVars, storeVars, ipcVars, ticketVars,
           updateVars, threadVars, taskVars, watchVars, hostVars, pluginVars,
           diagnosticVars, sonarVars, readVars, listVars, postVars, linkVars,
           wakeupVars, graphVars, connectionVars, logFileVars, lookVars, eventVars>>)
    \/ Only("host", HostNext,
           <<mutexVars, wakeVars, activityVars, storeVars, ipcVars, ticketVars,
           updateVars, threadVars, taskVars, watchVars, ownershipVars, pluginVars,
           diagnosticVars, sonarVars, readVars, listVars, postVars, linkVars,
           wakeupVars, graphVars, connectionVars, logFileVars, lookVars, eventVars>>)
    \/ Only("plugin", PluginNext,
           <<mutexVars, wakeVars, activityVars, storeVars, ipcVars, ticketVars,
           updateVars, threadVars, taskVars, watchVars, ownershipVars, hostVars,
           diagnosticVars, sonarVars, readVars, listVars, postVars, linkVars,
           wakeupVars, graphVars, connectionVars, logFileVars, lookVars, eventVars>>)
    \/ Only("diagnostics", DiagnosticsNext,
           <<mutexVars, wakeVars, activityVars, storeVars, ipcVars, ticketVars,
           updateVars, threadVars, taskVars, watchVars, ownershipVars, hostVars,
           pluginVars, sonarVars, readVars, listVars, postVars, linkVars, wakeupVars,
           graphVars, connectionVars, logFileVars, lookVars, eventVars>>)
    \/ Only("sonar", SonarNext,
           <<mutexVars, wakeVars, activityVars, storeVars, ipcVars, ticketVars,
           updateVars, threadVars, taskVars, watchVars, ownershipVars, hostVars,
           pluginVars, diagnosticVars, readVars, listVars, postVars, linkVars,
           wakeupVars, graphVars, connectionVars, logFileVars, lookVars, eventVars>>)
    \/ Only("reads", ReadsNext,
           <<mutexVars, wakeVars, activityVars, storeVars, ipcVars, ticketVars,
           updateVars, threadVars, taskVars, watchVars, ownershipVars, hostVars,
           pluginVars, diagnosticVars, sonarVars, listVars, postVars, linkVars,
           wakeupVars, graphVars, connectionVars, logFileVars, lookVars, eventVars>>)
    \/ Only("lists", ListsNext,
           <<mutexVars, wakeVars, activityVars, storeVars, ipcVars, ticketVars,
           updateVars, threadVars, taskVars, watchVars, ownershipVars, hostVars,
           pluginVars, diagnosticVars, sonarVars, readVars, postVars, linkVars,
           wakeupVars, graphVars, connectionVars, logFileVars, lookVars, eventVars>>)
    \/ Only("posts", PostsNext,
           <<mutexVars, wakeVars, activityVars, storeVars, ipcVars, ticketVars,
           updateVars, threadVars, taskVars, watchVars, ownershipVars, hostVars,
           pluginVars, diagnosticVars, sonarVars, readVars, listVars, linkVars,
           wakeupVars, graphVars, connectionVars, logFileVars, lookVars, eventVars>>)
    \/ Only("link", LinkNext,
           <<mutexVars, wakeVars, activityVars, storeVars, ipcVars, ticketVars,
           updateVars, threadVars, taskVars, watchVars, ownershipVars, hostVars,
           pluginVars, diagnosticVars, sonarVars, readVars, listVars, postVars,
           wakeupVars, graphVars, connectionVars, logFileVars, lookVars, eventVars>>)
    \/ Only("native", WakeupNext,
           <<mutexVars, wakeVars, activityVars, storeVars, ipcVars, ticketVars,
           updateVars, threadVars, taskVars, watchVars, ownershipVars, hostVars,
           pluginVars, diagnosticVars, sonarVars, readVars, listVars, postVars,
           linkVars, graphVars, connectionVars, logFileVars, lookVars, eventVars>>)
    \/ Only("graph", GraphNext,
           <<mutexVars, wakeVars, activityVars, storeVars, ipcVars, ticketVars,
           updateVars, threadVars, taskVars, watchVars, ownershipVars, hostVars,
           pluginVars, diagnosticVars, sonarVars, readVars, listVars, postVars,
           linkVars, wakeupVars, connectionVars, logFileVars, lookVars, eventVars>>)
    \/ Only("connections", ConnectionsNext,
           <<mutexVars, wakeVars, activityVars, storeVars, ipcVars, ticketVars,
           updateVars, threadVars, taskVars, watchVars, ownershipVars, hostVars,
           pluginVars, diagnosticVars, sonarVars, readVars, listVars, postVars,
           linkVars, wakeupVars, graphVars, logFileVars, lookVars, eventVars>>)
    \/ Only("log", LogNext,
           <<mutexVars, wakeVars, activityVars, storeVars, ipcVars, ticketVars,
           updateVars, threadVars, taskVars, watchVars, ownershipVars, hostVars,
           pluginVars, diagnosticVars, sonarVars, readVars, listVars, postVars,
           linkVars, wakeupVars, graphVars, connectionVars, lookVars, eventVars>>)
    \/ Only("observed", ObservedNext,
           <<mutexVars, wakeVars, activityVars, storeVars, ipcVars, ticketVars,
           updateVars, threadVars, taskVars, watchVars, ownershipVars, hostVars,
           pluginVars, diagnosticVars, sonarVars, readVars, listVars, postVars,
           linkVars, wakeupVars, graphVars, connectionVars, logFileVars, eventVars>>)
    \/ Only("events", EventsNext,
           <<mutexVars, wakeVars, activityVars, storeVars, ipcVars, ticketVars,
           updateVars, threadVars, taskVars, watchVars, ownershipVars, hostVars,
           pluginVars, diagnosticVars, sonarVars, readVars, listVars, postVars,
           linkVars, wakeupVars, graphVars, connectionVars, logFileVars, lookVars>>)

Spec == Init /\ [][Next]_vars

FairSpec ==
    /\ Spec
    /\ MutexFairness /\ WakeFairness /\ ActivityFairness /\ StoreFairness
    /\ IpcFairness

-----------------------------------------------------------------------------
(* Bodies of tickets, patches of one or two hunks, whose numbers may be wrong, and documents. *)

Bodies == UNION {[1..n -> {"a", "-- x"}] : n \in 1..3}

Hunks(n) ==
    [start : 0..4, old : 0..2, new : 0..2,
     rows : UNION {[1..m -> [mark : {" ", "-", "+"}, text : {"a", "-- x"}]] : m \in 0..n}]
CountsRight(h) == h.old = Len(Old(h)) /\ h.new = Len(New(h))
Patches ==
    LET one == Hunks(1) \cup {h \in Hunks(2) : CountsRight(h)}
        small == {h \in Hunks(1) : CountsRight(h)}
    IN  [header : BOOLEAN, hunks : {<<>>} \cup {<<h>> : h \in one}]
        \cup [header : {FALSE}, hunks : {<<h, g>> : h \in one, g \in small}]

Documents ==
    UNION {[1..n -> {"a", "#", "##", "###", "===", "ticks", ""}] : n \in 1..4}
    \cup [1..5 -> {"a", "#", "##", "---"}]

-----------------------------------------------------------------------------
(* Properties of several parts. *)

\* Nobody sleeps through what it waits for: neither the waits for notifications nor the
\* observers of the log, although commits come between their look and their sleep, nor the
\* sessions that went idle.
NobodySleepsThroughNews ==
    NoWakeLost /\ SleepersAreRegistered /\ NoSleepPastNews /\ SleepersAreMarked

\* Calls and connections end as the daemon and its adapters are told, what they had is given
\* up, an adapter has one session, under the name it knows, a home one daemon, and the log of
\* activity is right about who is there.
LinksAreSound == EndsAgree /\ LinkIsSound /\ ConnectionsAreClean /\ DaemonIsAlone /\ EventsAreTrue

\* What an agent is told of, by a message or by an update of its view, is what it has not seen.
AgentsLearn == AgentsKeepUp /\ PostsReach

\* What is read page by page is all of it, and of one moment where that is promised; a graph is
\* the one that was asked for last.
ReadsAreWhole == ThreadsAreWhole /\ ListsAreComplete /\ ListsAreShown /\ GraphIsAsked

\* What is shown is so: to an agent under its turn, and to the reader of the terminal, whose
\* screen shows what was asked for last.
ShownIsTrue == PagesAreCommittable /\ ScreenIsHonest

\* What is worked out is right: which operations are shown as active, whose monitor it is that
\* asks, however the hosts have started each other, what a graph shows and how one moves in it,
\* what a patch makes of a body, and where its sections are.
WorkedOutRight ==
    /\ [](GhostsFade /\ WaitingGoesOn)
    /\ SelectionIsSeen
    /\ part = "native" => MonitorsFindTheirOwn(Trees)
    /\ part = "graph" =>
          /\ GraphsAreWhole(Dags(1..4)) /\ WaysAreHighlighted(Dags(1..4))
          /\ ArrowsReachAll(1..4, {1, 30, 59}, {1, 8})
          /\ EdgesCanBeFollowed({1, 4} \X {1, 2, 4})
    /\ part = "thread" => PatchesDoWhatTheySay(Bodies, Patches) /\ SectionsNest(Documents)

\* Nobody waits for ever for a mutex, for a signal or for the log.
CallersAreServed == EveryRunEnters /\ WaitsEnd /\ NewsArrives

\* Action constraint of the run with liveness: one wait at a time; what others do to it
\* are commits, captures and batches given back.
OneWaiter == \A v, w \in Waiters : v # w => place'[v] = "off" \/ place'[w] = "off"
=============================================================================
