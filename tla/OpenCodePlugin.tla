--------------------------- MODULE OpenCodePlugin -----------------------------
(***************************************************************************)
(* How the OpenCode plugin (src/src/opencode-plugin.ts) brings batches of  *)
(* notifications to one top-level session of its host. A pump takes them   *)
(* from the daemon into two queues: what is actionable is told at once, by *)
(* a prompt that does not interrupt when the session is busy, and activity *)
(* when the session is idle. What the plugin believes of the session comes *)
(* from events, which are behind, and from a status it asks for.           *)
(*                                                                         *)
(* A session may be deleted and come back: each time it has a state of its *)
(* own, and what was under way for an earlier one goes on. Which batches   *)
(* the daemon has is in Inbox.                                             *)
(***************************************************************************)
EXTENDS Naturals, Sequences, FiniteSets

CONSTANTS
    Lives,        \* the states of the session in the plugin's map, one after another
    MaxBatches,   \* bound on the batches of each kind that pumps take
    MaxTurns,     \* bound on the prompts of the user
    MaxFailures   \* bound on the calls of the host that fail

VARIABLES
    opened,      \* the life the map holds, or none
    life,      \* each life
    host,      \* the session in the host: idle or busy
    news,      \* events of it on their way to the plugin
    turns, failures

pluginVars == <<opened, life, host, news, turns, failures>>

BatchKinds == {"actionable", "activity"}
NoLife == "none"
Fresh == [idle |-> FALSE,                     \* what the plugin believes
          waits |-> [k \in BatchKinds |-> <<>>],   \* the queues
          taken |-> [k \in BatchKinds |-> 0],      \* by the pump
          told |-> [k \in BatchKinds |-> 0],       \* the last one in the conversation
          step |-> "none", queue |-> "none",  \* of the injection under way
          batch |-> 0, resume |-> FALSE]

PluginInit ==
    /\ opened = NoLife
    /\ life = [x \in Lives |-> Fresh]
    /\ host = "busy" /\ news = <<>>
    /\ turns = 0 /\ failures = 0

\* schedule: actionable first, one injection at a time.
Chosen(s) == IF s.waits["actionable"] # <<>> THEN "actionable"
             ELSE IF s.idle /\ s.waits["activity"] # <<>> THEN "activity" ELSE "none"
Scheduled(s) ==
    IF s.step # "none" \/ Chosen(s) = "none" THEN s
    ELSE [s EXCEPT !.step = "begin", !.queue = Chosen(s)]

-----------------------------------------------------------------------------
(* The host. *)

Heard(event) == news' = Append(news, event)

\* A user's prompt; the hook chat.message knows of it before there is an event.
UserPrompts ==
    /\ turns < MaxTurns /\ opened # NoLife
    /\ turns' = turns + 1
    /\ life' = [life EXCEPT ![opened].idle = FALSE]
    /\ host' = "busy" /\ Heard("busy")
    /\ UNCHANGED <<opened, failures>>
TurnEnds ==
    /\ host = "busy"
    /\ host' = "idle" /\ Heard("idle")
    /\ UNCHANGED <<opened, life, turns, failures>>
\* event: session.idle, session.status.
EventArrives ==
    /\ news # <<>>
    /\ news' = Tail(news)
    /\ life' = IF opened = NoLife THEN life
               ELSE [life EXCEPT ![opened] = Scheduled([@ EXCEPT !.idle = Head(news) = "idle"])]
    /\ UNCHANGED <<opened, host, turns, failures>>

\* ensureSession, from a tool call or a prompt.
OpenLife(x) ==
    /\ opened = NoLife /\ life[x] = Fresh
    /\ opened' = x
    /\ UNCHANGED <<life, host, news, turns, failures>>
\* closeSession: the pump stops, and an injection goes on.
CloseLife ==
    /\ opened # NoLife /\ opened' = NoLife
    /\ UNCHANGED <<life, host, news, turns, failures>>

-----------------------------------------------------------------------------
(* Batches. *)

\* runPump: the next batch joins its queue.
Pumped(s, k) ==
    LET n == s.taken[k] + 1
    IN  [s EXCEPT !.taken[k] = n, !.waits[k] = Append(s.waits[k], n)]
TakeBatch(k) ==
    /\ opened # NoLife
    /\ Cardinality({b \in Lives \X (1..MaxBatches) : b[2] <= life[b[1]].taken[k]}) < MaxBatches
    /\ life' = [life EXCEPT ![opened] = Scheduled(Pumped(life[opened], k))]
    /\ UNCHANGED <<opened, host, news, turns, failures>>

\* The batch leaves its queue, and the prompt is sent: with a turn, if the session is idle.
Attempting(s) ==
    [s EXCEPT !.step = "prompt", !.waits[s.queue] = Tail(@), !.batch = Head(s.waits[s.queue]),
              !.resume = s.idle, !.idle = FALSE]

\* Mutation of Finished: it is free, and nothing is scheduled.
FinishedOnly(x, s) ==
    [life EXCEPT ![x] = [s EXCEPT !.step = "none", !.queue = "none", !.batch = 0, !.resume = FALSE]]

\* The finally block: the state is free again, and what the map holds now is scheduled.
Finished(x, s) ==
    LET free == [s EXCEPT !.step = "none", !.queue = "none", !.batch = 0, !.resume = FALSE]
    IN  [y \in Lives |->
           LET now == IF y = x THEN free ELSE life[y] IN IF y = opened THEN Scheduled(now) ELSE now]

\* The microtask: what is believed idle is asked about first.
InjectionBegins(x) ==
    /\ life[x].step = "begin"
    /\ life' = [life EXCEPT ![x] = IF @.idle THEN [@ EXCEPT !.step = "asking"] ELSE Attempting(@)]
    /\ UNCHANGED <<opened, host, news, turns, failures>>
\* statusIsIdle, as the host had it.
HostAnswers(x) ==
    /\ life[x].step = "asking"
    /\ life' = [life EXCEPT ![x].step = host]
    /\ UNCHANGED <<opened, host, news, turns, failures>>
\* The answer comes. A session that is busy after all has no use for activity.
AnswerComes(x) ==
    /\ LET s == life[x]  busy == [s EXCEPT !.idle = FALSE]
       IN  /\ s.step \in {"idle", "busy"}
           /\ life' = IF s.step = "idle" THEN [life EXCEPT ![x] = Attempting(s)]
                      ELSE IF s.queue = "activity" THEN Finished(x, busy)
                      ELSE [life EXCEPT ![x] = Attempting(busy)]
    /\ UNCHANGED <<opened, host, news, turns, failures>>

Tells(s) == [s EXCEPT !.told[s.queue] = s.batch]
\* The catch block puts the batch back where it was.
PutBack(s) == IF s.step = "prompt" THEN [s EXCEPT !.waits[s.queue] = <<s.batch>> \o @] ELSE s

PromptIsTold(x) ==
    /\ life[x].step = "prompt"
    /\ life' = Finished(x, Tells(life[x]))
    /\ IF life[x].resume THEN host' = "busy" /\ Heard("busy") ELSE UNCHANGED <<host, news>>
    /\ UNCHANGED <<opened, turns, failures>>
\* The host refuses, or its answer is lost; or it does not tell the status.
CallFails(x) ==
    /\ life[x].step \in {"asking", "prompt"} /\ failures < MaxFailures
    /\ failures' = failures + 1
    /\ \/ life' = Finished(x, PutBack(life[x])) /\ UNCHANGED <<host, news>>
       \/ /\ life[x].step = "prompt"
          /\ life' = Finished(x, PutBack(Tells(life[x])))
          /\ IF life[x].resume THEN host' = "busy" /\ Heard("busy") ELSE UNCHANGED <<host, news>>
    /\ UNCHANGED <<opened, turns>>

PluginNext ==
    \/ UserPrompts \/ TurnEnds \/ EventArrives \/ CloseLife
    \/ \E k \in BatchKinds : TakeBatch(k)
    \/ \E x \in Lives :
          \/ OpenLife(x) \/ InjectionBegins(x) \/ HostAnswers(x) \/ AnswerComes(x)
          \/ PromptIsTold(x) \/ CallFails(x)

PluginSpec == PluginInit /\ [][PluginNext]_pluginVars

-----------------------------------------------------------------------------
(* Properties. *)

\* No batch is passed over, and none is stuck: of each kind, what waits or is being told goes
\* on without a gap after what was told, up to what was taken, though prompts and statuses
\* fail, answers are lost and earlier lives of the session are at work; and the opened life is
\* at work whenever it has something actionable, or is believed idle and has anything.
Waiting(x, k) ==
    LET s == life[x]
    IN  (IF s.step = "prompt" /\ s.queue = k THEN <<s.batch>> ELSE <<>>) \o s.waits[k]
InOrder ==
    \A x \in Lives : \A k \in BatchKinds :
        LET w == Waiting(x, k)  last == life[x].taken[k]
        IN  /\ \A i \in DOMAIN w : w[i] = last - Len(w) + i
            /\ last - Len(w) <= life[x].told[k]
NoneIsStuck == opened # NoLife => life[opened].step # "none" \/ Chosen(life[opened]) = "none"
BatchesReachSession == InOrder /\ NoneIsStuck

\* Does not hold: activity is told to idle sessions. The user may have begun a turn since the
\* host answered.
ActivityWaitsForIdle ==
    \A x \in Lives : life[x].step = "prompt" /\ life[x].queue = "activity" => life[x].resume

\* Does not hold: an idle session is woken by what is actionable. While the event of its idling
\* is on its way, or after a prompt that failed, it is told without a turn, and sleeps on.
SleepersAreWoken ==
    \A x \in Lives :
        life[x].step = "prompt" /\ life[x].queue = "actionable" /\ host = "idle" => life[x].resume
=============================================================================
