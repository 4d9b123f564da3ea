------------------------------ MODULE NativeWake ------------------------------
(***************************************************************************)
(* How an idle session of Claude Code is woken. Its host runs two          *)
(* processes: an adapter (src/src/mcp.ts), through which hooks tell the    *)
(* daemon when the session is busy and when it is idle and take news with  *)
(* them, and a monitor (src/src/notifications-cli.ts), which asks the      *)
(* daemon for news while the session is idle and prints them, which wakes  *)
(* the session. All hosts of a user have one client id; the daemon         *)
(* (src/src/daemon.ts) finds a monitor's session by the processes that its *)
(* monitor and its adapter descend from (src/src/agents/claude-native.ts). *)
(*                                                                         *)
(* News are counted here; the batches they become are Inbox's. How a       *)
(* connection is made is AdapterLink's, how a session gets a handle is     *)
(* HostSessions'.                                                          *)
(***************************************************************************)
EXTENDS Naturals, Sequences

CONSTANTS
    Hosts,         \* the hosts of a user in a project, each with one session
    AdapterDepth,  \* processes from an adapter up to its host
    MonitorDepth,  \* from a monitor up to it
    MaxNotices,    \* bound on the news
    MaxMishaps     \* bound on timeouts, lost replies and lost connections

VARIABLES
    hostIs,     \* each host: busy, idle, or idle by a hook that was not answered
    hook,       \* the hook under way in each host
    lateHooks,  \* hooks a host has given up and the daemon is at
    adapter,    \* hosts whose adapter has a connection to the daemon
    idleMark,   \* idleHostSessions
    unread,     \* news of each session that nobody captured
    monitor,    \* what the daemon does for each monitor
    astray,     \* history: sessions whose mark or news were lost since the mark was set
    newsCount, mishaps

wakeupVars ==
    <<hostIs, hook, lateHooks, adapter, idleMark, unread, monitor, astray, newsCount, mishaps>>

Phases == {"prompt", "active", "idle"}
NoHook == [at |-> "none", phase |-> "none"]
NoSession == "none"
Watching == [at |-> "waits", of |-> NoSession, got |-> 0]

-----------------------------------------------------------------------------
(* The tree of processes: what started each host, another host, a login of *)
(* the user's or process 1.                                                *)

Login == <<"login">>
Process1 == <<"process 1">>
Trees ==
    {tree \in [Hosts -> Hosts \cup {Login, Process1}] :
        \A h \in Hosts : tree[h] \in Hosts => tree[tree[h]] \notin Hosts}
OneLogin == [h \in Hosts |-> Login]

\* The processes above a host, itself first. Process 1 is nobody's in particular.
Lineage(tree, h) ==
    LET up[i \in Hosts] ==
            <<i>> \o IF tree[i] \in Hosts THEN <<<<"shell of", i>>>> \o up[tree[i]]
                     ELSE IF tree[i] = Login THEN <<<<"shell of", i>>, Login, Process1>>
                     ELSE <<Process1>>
    IN up[h]

\* processAncestry of a process that is started through others; only indices matter.
Ancestry(tree, h, kind, depth) == [n \in 1..depth |-> <<kind, h, n>>] \o Lineage(tree, h)

\* Mutation of Score: as near to the adapter as can be.
ScoreOfAdapter(i, j) == <<i, i>>

\* How near a common process is, at these places of the two ancestries.
Score(i, j) == <<IF i > j THEN i ELSE j, i + j>>

Nearer(s, t) == s[1] < t[1] \/ (s[1] = t[1] /\ s[2] < t[2])

\* The scores of the processes that a monitor and an adapter have in common.
Scores(tree, m, a) ==
    LET ofMonitor == Ancestry(tree, m, "monitor", MonitorDepth)
        ofAdapter == Ancestry(tree, a, "adapter", AdapterDepth)
    IN {Score(p[1], p[2]) : p \in
          {q \in (DOMAIN ofAdapter) \X (DOMAIN ofMonitor) :
              ofAdapter[q[1]] = ofMonitor[q[2]] /\ ofAdapter[q[1]] # Process1}}

\* selectNativeCandidate: the adapter with the nearest common process, if there is one such.
SelectedIn(tree, candidates, m) ==
    LET nearest == {a \in candidates :
            /\ Scores(tree, m, a) # {}
            /\ \A b \in candidates : \A t \in Scores(tree, m, b) :
                  \E s \in Scores(tree, m, a) : ~Nearer(t, s)}
    IN IF \E a \in Hosts : nearest = {a} THEN CHOOSE a \in Hosts : nearest = {a}
       ELSE NoSession

\* What follows runs in one login of the user's.
Selected(m) == SelectedIn(OneLogin, adapter, m)

WakeupInit ==
    /\ hostIs = [h \in Hosts |-> "busy"]
    /\ hook = [h \in Hosts |-> NoHook]
    /\ lateHooks = {}
    /\ adapter = Hosts
    /\ idleMark = {}
    /\ unread = [h \in Hosts |-> 0]
    /\ monitor = [h \in Hosts |-> Watching]
    /\ astray = {}
    /\ newsCount = 0 /\ mishaps = 0

NewsFor(h) ==
    /\ newsCount < MaxNotices
    /\ newsCount' = newsCount + 1
    /\ unread' = [unread EXCEPT ![h] = @ + 1]
    /\ UNCHANGED <<hostIs, hook, lateHooks, adapter, idleMark, monitor, astray, mishaps>>

Mishap == mishaps < MaxMishaps /\ mishaps' = mishaps + 1

-----------------------------------------------------------------------------
(* Hooks: deliverHostNotifications in the adapter, takeHostDelivery in the *)
(* daemon. A host waits for its hook.                                      *)

\* A prompt ends idleness; the others come while the session works. The adapter connects for
\* its call if it has to.
HookCalls(h, phase) ==
    /\ hook[h] = NoHook
    /\ phase = "prompt" <=> hostIs[h] # "busy"
    /\ hostIs' = [hostIs EXCEPT ![h] = "busy"]
    /\ adapter' = adapter \cup {h}
    /\ hook' = [hook EXCEPT ![h] = [at |-> "called", phase |-> phase]]
    /\ UNCHANGED <<lateHooks, idleMark, unread, monitor, astray, newsCount, mishaps>>

Marked(h, phase) == IF phase = "idle" THEN idleMark \cup {h} ELSE idleMark \ {h}

\* The handle is there: the daemon notes what the session does.
HookMarks(h) ==
    /\ hook[h].at = "called"
    /\ idleMark' = Marked(h, hook[h].phase)
    /\ astray' = astray \ {h}
    /\ hook' = [hook EXCEPT ![h].at = "marked"]
    /\ UNCHANGED <<hostIs, lateHooks, adapter, unread, monitor, newsCount, mishaps>>

\* The news that a hook may capture: in the midst of work only those that call for action.
Captured(h, phase) == IF phase = "active" THEN 0..unread[h] ELSE {unread[h]}

\* The news are captured for the hook, and it returns. With news a session that was to stop
\* goes on.
HookReturns(h) ==
    /\ hook[h].at = "marked"
    /\ hostIs' = [hostIs EXCEPT ![h] =
          IF hook[h].phase = "idle" /\ unread[h] = 0 THEN "idle" ELSE "busy"]
    /\ \E n \in Captured(h, hook[h].phase) : unread' = [unread EXCEPT ![h] = @ - n]
    /\ hook' = [hook EXCEPT ![h] = NoHook]
    /\ UNCHANGED <<lateHooks, adapter, idleMark, monitor, astray, newsCount, mishaps>>

\* Three seconds: the host goes on as if there were no news, and so does the daemon.
HookTimesOut(h) ==
    /\ Mishap
    /\ hook[h] # NoHook
    /\ lateHooks' = lateHooks \cup {[of |-> h, at |-> hook[h].at, phase |-> hook[h].phase]}
    /\ hostIs' = [hostIs EXCEPT ![h] = IF hook[h].phase = "idle" THEN "deferred" ELSE "busy"]
    /\ hook' = [hook EXCEPT ![h] = NoHook]
    /\ UNCHANGED <<adapter, idleMark, unread, monitor, astray, newsCount>>

LateHookMarks(l) ==
    /\ l.at = "called"
    /\ idleMark' = Marked(l.of, l.phase)
    /\ astray' = IF l.of \in idleMark \ idleMark' THEN astray \cup {l.of} ELSE astray
    /\ lateHooks' = (lateHooks \ {l}) \cup {[l EXCEPT !.at = "marked"]}
    /\ UNCHANGED <<hostIs, hook, adapter, unread, monitor, newsCount, mishaps>>

LateHookCaptures(l) ==
    /\ l.at = "marked"
    /\ \E n \in Captured(l.of, l.phase) : unread' = [unread EXCEPT ![l.of] = @ - n]
    /\ lateHooks' = lateHooks \ {l}
    /\ UNCHANGED <<hostIs, hook, adapter, idleMark, monitor, astray, newsCount, mishaps>>

\* The connection is lost, or the daemon starts anew; the adapter connects with its next call.
AdapterLeaves(h) ==
    /\ Mishap
    /\ h \in adapter /\ hook[h] = NoHook
    /\ adapter' = adapter \ {h}
    /\ idleMark' = idleMark \ {h}
    /\ astray' = astray \cup {h}
    /\ UNCHANGED <<hostIs, hook, lateHooks, unread, monitor, newsCount>>

-----------------------------------------------------------------------------
(* Monitors: waitNativeDelivery. The daemon looks again whenever something *)
(* changed, and four times a second.                                       *)

\* A session is found, and its idleness.
MonitorLooks(m) ==
    /\ monitor[m].at = "waits"
    /\ Selected(m) \in idleMark
    /\ monitor' = [monitor EXCEPT ![m] = [at |-> "found", of |-> Selected(m), got |-> 0]]
    /\ UNCHANGED <<hostIs, hook, lateHooks, adapter, idleMark, unread, astray,
                   newsCount, mishaps>>

MonitorCaptures(m) ==
    /\ monitor[m].at = "found"
    /\ LET of == monitor[m].of IN
          /\ monitor' = [monitor EXCEPT ![m] = [at |-> "captured", of |-> of, got |-> unread[of]]]
          /\ unread' = [unread EXCEPT ![of] = 0]
          /\ astray' = IF of # m /\ unread[of] > 0 THEN astray \cup {of} ELSE astray
    /\ UNCHANGED <<hostIs, hook, lateHooks, adapter, idleMark, newsCount, mishaps>>

\* Mutation of Spent: whoever was looked at is no longer idle.
SpentAlways(m) == {monitor[m].of}

\* A session that will be woken is not idle any more.
Spent(m) == IF monitor[m].got > 0 THEN {monitor[m].of} ELSE {}

MonitorReturns(m) ==
    /\ monitor[m].at = "captured"
    /\ idleMark' = idleMark \ Spent(m)
    /\ monitor' = [monitor EXCEPT ![m] =
          IF @.got > 0 THEN [@ EXCEPT !.at = "returned"] ELSE Watching]
    /\ astray' = astray \cup (Spent(m) \ {m})
    /\ UNCHANGED <<hostIs, hook, lateHooks, adapter, unread, newsCount, mishaps>>

\* The monitor prints the news; its own host goes on with them when it is in no hook.
MonitorPrints(m) ==
    /\ monitor[m].at = "returned" /\ hook[m] = NoHook
    /\ hostIs' = [hostIs EXCEPT ![m] = "busy"]
    /\ monitor' = [monitor EXCEPT ![m] = Watching]
    /\ UNCHANGED <<hook, lateHooks, adapter, idleMark, unread, astray, newsCount, mishaps>>

\* The connection of the monitor is lost, and with it the reply.
ReplyIsLost(m) ==
    /\ Mishap
    /\ monitor[m].at = "returned"
    /\ monitor' = [monitor EXCEPT ![m] = Watching]
    /\ astray' = astray \cup {monitor[m].of}
    /\ UNCHANGED <<hostIs, hook, lateHooks, adapter, idleMark, unread, newsCount>>

WakeupNext ==
    \/ \E h \in Hosts :
          \/ NewsFor(h) \/ HookMarks(h) \/ HookReturns(h)
          \/ HookTimesOut(h) \/ AdapterLeaves(h)
          \/ \E phase \in Phases : HookCalls(h, phase)
          \/ MonitorLooks(h) \/ MonitorCaptures(h) \/ MonitorReturns(h) \/ MonitorPrints(h)
          \/ ReplyIsLost(h)
    \/ \E l \in lateHooks : LateHookMarks(l) \/ LateHookCaptures(l)

WakeupSpec == WakeupInit /\ [][WakeupNext]_wakeupVars

-----------------------------------------------------------------------------
(* Properties. *)

\* A monitor whose own adapter is connected finds its own session, in each of these trees:
\* as adapters are as far from their hosts as monitors, or as other adapters.
MonitorsFindTheirOwn(trees) ==
    \A tree \in trees, candidates \in SUBSET Hosts : \A m \in candidates :
        SelectedIn(tree, candidates, m) = m

\* A session that went to sleep by a hook that was answered is woken by the next news: it is
\* marked, or news for it are on their way to its monitor. Its mark or its news are lost only by
\* a lost reply, by a hook that the host had given up, by a new connection of its adapter, or to
\* the monitor of a host whose own adapter is not connected.
SleepersAreMarked ==
    \A h \in Hosts : hostIs[h] = "idle" /\ hook[h] = NoHook /\ h \notin astray =>
        \/ h \in idleMark
        \/ monitor[h].of = h /\ monitor[h].got > 0

\* Does not hold: while its own adapter is not connected, a monitor takes the news of another
\* session, prints them in the wrong host, and the session sleeps on.
NewsComeHome == \A m \in Hosts : monitor[m].got > 0 => monitor[m].of = m
=============================================================================
