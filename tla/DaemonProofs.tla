---------------------------- MODULE DaemonProofs ----------------------------
(***************************************************************************)
(* What the daemon promises in several of its parts at once, for any       *)
(* number of everything: the parts take their steps side by side, and each *)
(* keeps what it promises alone.                                           *)
(***************************************************************************)
EXTENDS MCDaemonParts, HostsProofs, ContentProofs, StorageProofs

(* Waiters. *)

\* Who is in the loop of waitWorkTask is one of its calls.
LoopsKept ==
    \A w \in Waiters :
        place[w] \in {"polling", "capturing", "holding", "empty"} => w \in TaskWaiters

\* From its registration on a call is in the map, or settled.
OnTheMap ==
    \A w \in Waiters : place[w] \in {"looking", "asleep"} /\ settled[w] = "no" => w \in registered

WakeInv == WakeTypeOK /\ LoopsKept /\ OnTheMap /\ NoWakeLost

LEMMA WakeInvHolds == WakeSpec => []WakeInv
<1>1. WakeInit => WakeInv
  BY BoundsAssumption DEF WakeInit, WakeInv, WakeTypeOK, LoopsKept, OnTheMap, NoWakeLost, NoOne, Places
<1>2. WakeInv /\ [WakeNext]_wakeVars => WakeInv'
  <2> SUFFICES ASSUME WakeInv, [WakeNext]_wakeVars PROVE WakeInv'
    OBVIOUS
  <2> USE BoundsAssumption, LoopsAssumption DEF WakeInv, WakeTypeOK, LoopsKept, OnTheMap, NoWakeLost,
      Waiters, NoOne, Places
  <2>1. CASE NotifyCommit
    BY <2>1 DEF NotifyCommit
  <2>2. CASE Signal
    BY <2>2 DEF Signal
  <2>3. CASE CaptureElsewhere \/ GiveBack \/ CreateWorkTask \/ CancelWorkTask
    BY <2>3 DEF CaptureElsewhere, GiveBack, CreateWorkTask, CancelWorkTask, waiterVars
  <2>4. ASSUME NEW w \in Waiters, Start(w) PROVE WakeInv'
    BY <2>4 DEF Start
  <2>5. ASSUME NEW w \in Waiters, Expire(w) \/ TimerFires(w) PROVE WakeInv'
    BY <2>5 DEF Expire, TimerFires
  <2>6. Crash => WakeInv'
    BY DEF Crash
  <2>7. ASSUME NEW w \in Waiters, Abort(w) PROVE WakeInv'
    BY <2>6, <2>7 DEF Abort
  <2>8. ASSUME NEW w \in Waiters, LookFails(w) PROVE WakeInv'
    BY <2>8 DEF LookFails, Forget
  <2>9. ASSUME NEW w \in Waiters, RegisterFirst(w) PROVE WakeInv'
    BY <2>6, <2>9 DEF RegisterFirst, Register
  <2>10. ASSUME NEW w \in Waiters, LookFinds(w) \/ LookFindsNothing(w) PROVE WakeInv'
    BY <2>10 DEF LookFinds, LookFindsNothing, Ends, Forget
  <2>11. ASSUME NEW w \in Waiters, Wake(w) \/ WakeCancelled(w) PROVE WakeInv'
    BY <2>11 DEF Wake, WakeCancelled, Ends, Forget
  <2>12. ASSUME NEW w \in Waiters, PollTask(w) \/ CaptureForTask(w) PROVE WakeInv'
    BY <2>12 DEF PollTask, CaptureForTask, Ends, Forget
  <2>13. ASSUME NEW w \in Waiters, CompleteTask(w) \/ RegisterLast(w) PROVE WakeInv'
    BY <2>13 DEF CompleteTask, RegisterLast, Register, Ends, Forget
  <2>14. CASE UNCHANGED wakeVars
    BY <2>14 DEF wakeVars
  <2> QED
    BY <2>1, <2>2, <2>3, <2>4, <2>5, <2>7, <2>8, <2>9, <2>10, <2>11, <2>12, <2>13, <2>14
       DEF WakeNext, Step
<1> QED
  BY <1>1, <1>2, PTL DEF WakeSpec

\* For any number of calls in the three loops: whoever sleeps can still be woken, and no sleep of
\* waitInbox and waitForWork outlasts a commit that notified it, whatever is captured, given back,
\* aborted, timed out or thrown between its look and its sleep.
THEOREM SleepersCanBeWoken == WakeSpec => [](NoWakeLost /\ SleepersAreRegistered)
<1>1. WakeInv => NoWakeLost /\ SleepersAreRegistered
  BY DEF WakeInv, OnTheMap, SleepersAreRegistered
<1> QED
  BY <1>1, WakeInvHolds, PTL


-----------------------------------------------------------------------------
(* The parts. *)

\* What a part does is a step of that part alone.
LEMMA PartsTakeSteps ==
    ASSUME [Next]_vars
    PROVE  /\ [WakeNext]_wakeVars /\ [ActivityNext]_activityVars /\ [WakeupNext]_wakeupVars
           /\ [IpcNext]_ipcVars /\ [LinkNext]_linkVars /\ [UpdatesNext]_updateVars
           /\ [PostsNext]_postVars /\ [ThreadNext]_threadVars /\ [ListsNext]_listVars
           /\ [MutexNext]_mutexVars /\ [StoreNext]_storeVars /\ [TicketsNext]_ticketVars
           /\ [TasksNext]_taskVars /\ [WatchNext]_watchVars /\ [OwnershipNext]_ownershipVars
           /\ [HostNext]_hostVars /\ [PluginNext]_pluginVars /\ [ReadsNext]_readVars
           /\ [SonarNext]_sonarVars /\ [GraphNext]_graphVars
           /\ [ConnectionsNext]_connectionVars /\ [LogNext]_logFileVars
           /\ [ObservedNext]_lookVars /\ [EventsNext]_eventVars
<1>1. CASE UNCHANGED vars
    BY <1>1 DEF vars
<1>2. CASE Next
    BY <1>2 DEF Next, Only
<1> QED
    BY <1>1, <1>2

LEMMA PartsBehave ==
    Spec => /\ WakeSpec /\ ActivitySpec /\ WakeupSpec /\ IpcSpec /\ LinkSpec /\ UpdatesSpec
            /\ PostsSpec /\ ThreadSpec /\ ListsSpec /\ MutexSpec /\ StoreSpec /\ TicketsSpec
            /\ TasksSpec /\ WatchSpec /\ OwnershipSpec /\ HostSpec /\ PluginSpec /\ ReadsSpec
            /\ SonarSpec /\ GraphSpec /\ ConnectionsSpec /\ LogSpec /\ ObservedSpec /\ EventsSpec
<1>1. Init => /\ WakeInit /\ ActivityInit /\ WakeupInit /\ IpcInit /\ LinkInit /\ UpdatesInit
              /\ PostsInit /\ ThreadInit /\ ListsInit /\ MutexInit /\ StoreInit /\ TicketsInit
              /\ TasksInit /\ WatchInit /\ OwnershipInit /\ HostInit /\ PluginInit /\ ReadsInit
              /\ SonarInit /\ GraphInit /\ ConnectionsInit /\ LogInit /\ ObservedInit
              /\ EventsInit
    BY DEF Init
<1> QED
    BY <1>1, PartsTakeSteps, PTL
       DEF Spec, WakeSpec, ActivitySpec, WakeupSpec, IpcSpec, LinkSpec, UpdatesSpec, PostsSpec,
           ThreadSpec, ListsSpec, MutexSpec, StoreSpec, TicketsSpec, TasksSpec, WatchSpec,
           OwnershipSpec, HostSpec, PluginSpec, ReadsSpec, SonarSpec, GraphSpec,
           ConnectionsSpec, LogSpec, ObservedSpec, EventsSpec

\* Waits for notifications, observers of the log and idle sessions: none of them sleeps through
\* what it waits for, whoever commits, signals, captures or fails in between.
THEOREM NewsWakesEverybody == Spec => []NobodySleepsThroughNews
<1>1. WakeInv => NoWakeLost /\ SleepersAreRegistered
    BY DEF WakeInv, OnTheMap, SleepersAreRegistered
<1>2. LogWatchInv => NoSleepPastNews
    BY DEF LogWatchInv, NoSleepPastNews
<1>3. MarksInv => SleepersAreMarked
    BY DEF MarksInv, SleepersAreMarked
<1>4. WakeInv /\ LogWatchInv /\ MarksInv => NobodySleepsThroughNews
    BY <1>1, <1>2, <1>3 DEF NobodySleepsThroughNews
<1> QED
    BY <1>4, PartsBehave, WakeInvHolds, LogWatchInvHolds, MarksInvHolds, PTL

\* Calls end once, as the daemon told, what a connection had is given up, an adapter has one
\* session, under the name it knows, one daemon at most has the workspace, and the log says who
\* is there.
THEOREM LinksStaySound == Spec => []LinksAreSound
BY PartsBehave, EndsStayInAgreement, LinkStaysSound, ConnectionsStayClean, DaemonStaysAlone,
   EventsStayTrue, PTL DEF LinksAreSound

\* Agents are told what they have not seen: by the updates of their view, and by messages.
THEOREM AgentsAlwaysLearn == Spec => []AgentsLearn
BY PartsBehave, AgentsAlwaysKeepUp, PostsAlwaysReach, PTL DEF AgentsLearn

\* Threads and lists, those of the observers too, that are read page by page are whole, whatever
\* is written between the pages,
\* and a graph is that of what was asked for last.
THEOREM ReadsStayWhole == Spec => []ReadsAreWhole
BY PartsBehave, ThreadsStayWhole, ListsStayComplete, GraphStaysAsked, ListsStayShown, PTL
   DEF ReadsAreWhole

\* No observer of the log is led past an entry, nor shown one twice.
THEOREM CursorsStayHonestInTheDaemon == Spec => CursorsAreHonest
BY PartsBehave, CursorsStayHonest, PTL

\* What is shown is so: an agent commits what it read under its turn, and no screen goes back or
\* hides a gap.
THEOREM ShownStaysTrue == Spec => ShownIsTrue
BY PartsBehave, PagesStayCommittable, ScreenStaysHonest, PTL DEF ShownIsTrue

\* The parts below and beside them keep their promises in the daemon too: keys are locks, callers
\* of storage are told the truth and its pool is bounded, tickets are judged on what is committed,
\* a task's verdict is that of its turn, hosts have one session each, no batch of the plugin is
\* passed over, and the log of it all is kept.
THEOREM PartsKeepTheirPromises ==
    Spec => /\ ImplementsLock /\ PoolIsSound /\ GraphIsJudged /\ SessionsAreKept
            /\ [](AnswersAreTrue /\ VerdictsAreTrue /\ BatchesReachSession /\ LogIsKept)
BY PartsBehave, MutexImplementsLock, PoolStaysSound, TicketsAreJudged, SessionsStayKept,
   CallersAreToldTheTruth, TasksAreJudged, PluginLosesNothing, LogStaysKept, PTL
=============================================================================
