--------------------------- MODULE CodexDelivery ---------------------------
(***************************************************************************)
(* Deliveries of an inbox to one Codex session: hooks of the host, and the *)
(* listener in its adapter that queues work for the session when it is     *)
(* idle (agents/codex-queue.ts, the hooks of mcp.ts, and what daemon.ts    *)
(* answers to them).                                                       *)
(*                                                                         *)
(* The adapter may be bound to another session and back, so more than one  *)
(* listener of this session can be at work: stopping one only tells it so. *)
(* A listener is a sequence of calls to the daemon; a call is answered in  *)
(* the step that the daemon takes for it, but for a capture, which has     *)
(* two.  An agent may capture and acknowledge at any time.                 *)
(***************************************************************************)
EXTENDS Inbox

CONSTANTS
    Listeners,    \* loops of CodexQueue.listen for this session
    Agent,        \* whoever else captures: hooks, tools, forgotten callers
    NoToken,
    Faults        \* what goes wrong: restart, lost, leave, exit

ASSUME CallersAssumption == Callers = Listeners \cup {Agent} /\ Agent \notin Listeners
ASSUME NoTokenAssumption == NoToken \notin Tokens
ASSUME FaultsAssumption == Faults \subseteq {"restart", "lost", "leave", "exit"}

VARIABLES
    adapter,      \* the session as the daemon and the adapter see it
    listeners,    \* where each listener is, and its batch
    launched      \* versions for which a queue command was started

deliveryVars == <<adapter, listeners, launched>>
vars == <<unread, events, batches, captures, adapter, listeners, launched>>

----------------------------------------------------------------------------
(* Listeners *)

\* A call to the daemon is on its way.
Calls == {"reserving", "submitting", "accepting", "doubting", "denying", "releasing"}
Places == Calls \cup {"off", "waiting", "ready", "reserved", "launching", "running"}

Off == [at |-> "off", token |-> NoToken, aborted |-> FALSE]

Goto(l, place) == [listeners EXCEPT ![l].at = place]

\* The end of a turn of the loop.
Again(listener) ==
    IF listener.aborted THEN Off ELSE [listener EXCEPT !.at = "waiting", !.token = NoToken]

\* A call fails.  A failure to report success is treated like one of the
\* command: its outcome is unknown, or, when there is no socket to connect
\* to, a file is missing, as when there is no executable.
Failed(listener, doubt) ==
    IF listener.at = "accepting" THEN [listener EXCEPT !.at = doubt] ELSE Again(listener)

\* The session is idle, and the daemon takes calls for it from this adapter.
Attended == adapter.bound /\ adapter.idle

Look(l) ==
    /\ listeners[l].at = "waiting"
    /\ ~adapter.paused
    /\ Attended
    /\ HasActionable
    /\ listeners' = Goto(l, "ready")
    /\ UNCHANGED <<inboxVars, adapter, launched>>

\* An aborted wait, delay or loop condition.
Leave(l) ==
    /\ listeners[l].at \in {"waiting", "ready"}
    /\ listeners[l].aborted
    /\ listeners' = [listeners EXCEPT ![l] = Off]
    /\ UNCHANGED <<inboxVars, adapter, launched>>

Ask(l) ==
    /\ listeners[l].at = "ready"
    /\ ~listeners[l].aborted
    /\ listeners' = Goto(l, IF adapter.paused THEN "waiting" ELSE "reserving")
    /\ UNCHANGED <<inboxVars, adapter, launched>>

Reserve(l) ==
    /\ listeners[l].at = "reserving"
    /\ Attended
    /\ BeginCapture(l, "actionable", TRUE)
    /\ UNCHANGED deliveryVars

\* No batch: refused, or empty.
ReserveNothing(l) ==
    /\ listeners[l].at = "reserving"
    /\ \A k \in captures : k.by # l
    /\ ~Attended \/ Nothing("actionable", TRUE)
    /\ listeners' = [listeners EXCEPT ![l] = Again(@)]
    /\ UNCHANGED <<inboxVars, adapter, launched>>

Reserved(l) ==
    /\ \E k \in captures, t \in Tokens :
         /\ k.by = l
         /\ \A m \in Listeners : listeners[m].token # t
         /\ EndCapture(k, t)
         /\ listeners' = [listeners EXCEPT ![l].at = "reserved", ![l].token = t]
    /\ UNCHANGED <<adapter, launched>>

ReserveFails(l) ==
    /\ \E k \in captures : k.by = l /\ FailCapture(k)
    /\ listeners' = [listeners EXCEPT ![l] = Again(@)]
    /\ UNCHANGED <<adapter, launched>>

Check(l) ==
    /\ listeners[l].at = "reserved"
    /\ listeners' = Goto(l, IF listeners[l].aborted \/ adapter.paused THEN "releasing" ELSE "submitting")
    /\ UNCHANGED <<inboxVars, adapter, launched>>

\* The command is started, or is not: because the listener was aborted, for
\* want of the executable, or for another reason that says nothing.
Launch(l) ==
    /\ listeners[l].at = "launching"
    /\ \/ /\ ~listeners[l].aborted
          /\ listeners' = Goto(l, "running")
          /\ launched' = launched \cup batches[listeners[l].token].entries
       \/ /\ \/ listeners' = Goto(l, "doubting")
             \/ ~listeners[l].aborted /\ listeners' = Goto(l, "denying")
          /\ UNCHANGED launched
    /\ UNCHANGED <<inboxVars, adapter>>

Exit(l) ==
    /\ listeners[l].at = "running"
    /\ \/ ~listeners[l].aborted /\ listeners' = Goto(l, "accepting")
       \/ listeners' = Goto(l, "doubting")
    /\ UNCHANGED <<inboxVars, adapter, launched>>

\* What a listener asks for at each of its calls about its batch.
Wanted(place) ==
    CASE place = "releasing" -> "released"
      [] place = "submitting" -> "submitting"
      [] place = "accepting" -> "accepted"
      [] place = "doubting" -> "uncertain"
      [] place = "denying" -> "released"

Telling == {"releasing", "submitting", "accepting", "doubting", "denying"}

Granted(l) ==
    /\ adapter.bound
    /\ MayBecome(listeners[l].token, Wanted(listeners[l].at))

Tell(l) ==
    /\ listeners[l].at \in Telling
    /\ Granted(l)
    /\ Transition(listeners[l].token, Wanted(listeners[l].at))
    /\ listeners' = [listeners EXCEPT ![l] =
         CASE @.at = "submitting" -> [@ EXCEPT !.at = "launching"]
           [] @.at = "denying" -> Off
           [] OTHER -> Again(@)]
    /\ UNCHANGED <<adapter, launched>>

Refused(l) ==
    /\ listeners[l].at \in Telling
    /\ ~Granted(l)
    /\ listeners' = [listeners EXCEPT ![l] = Failed(@, "doubting")]
    /\ UNCHANGED <<inboxVars, adapter, launched>>

Listen(l) ==
    \/ Look(l) \/ Leave(l) \/ Ask(l) \/ Reserve(l) \/ ReserveNothing(l) \/ Reserved(l)
    \/ ReserveFails(l) \/ Check(l) \/ Launch(l) \/ Exit(l) \/ Tell(l) \/ Refused(l)

----------------------------------------------------------------------------
(* Hooks.  The daemon answers one, then the adapter acts on the answer; an  *)
(* interrupt pauses the adapter first.                                      *)

Hears(bound, idle, hook) ==
    adapter' = [adapter EXCEPT !.bound = bound, !.idle = idle, !.hook = hook]

Prompt ==
    /\ adapter.hook = "none"
    /\ Hears(TRUE, FALSE, "bind")
    /\ Present
    /\ UNCHANGED <<listeners, launched>>

ToolUse ==
    /\ adapter.hook = "none"
    /\ Hears(TRUE, FALSE, "none")
    /\ Present
    /\ UNCHANGED <<listeners, launched>>

Stop ==
    /\ adapter.hook = "none"
    /\ Hears(TRUE, TRUE, "none")
    /\ UNCHANGED <<inboxVars, listeners, launched>>

Interrupt ==
    /\ adapter.hook = "none"
    /\ adapter' = [adapter EXCEPT !.paused = TRUE, !.hook = "pause"]
    /\ UNCHANGED <<inboxVars, listeners, launched>>

Interrupted ==
    /\ adapter.hook = "pause"
    /\ Hears(TRUE, FALSE, "none")
    /\ UNCHANGED <<inboxVars, listeners, launched>>

\* A listener that has ended by itself is not started again: its controller
\* has not been aborted.
Bind ==
    /\ adapter.hook = "bind"
    /\ adapter' = [adapter EXCEPT !.hook = "none", !.paused = FALSE, !.controller = TRUE]
    /\ IF adapter.controller
       THEN UNCHANGED listeners
       ELSE \E l \in Listeners :
              /\ listeners[l] = Off
              /\ \A k \in captures : k.by # l
              /\ listeners' = Goto(l, "waiting")
    /\ UNCHANGED <<inboxVars, launched>>

\* A prompt of another session in the same adapter.
PromptElsewhere ==
    /\ "leave" \in Faults
    /\ adapter.hook = "none"
    /\ adapter.bound
    /\ Hears(FALSE, FALSE, "leave")
    /\ UNCHANGED <<inboxVars, listeners, launched>>

BindElsewhere ==
    /\ adapter.hook = "leave"
    /\ adapter' = [adapter EXCEPT !.hook = "none", !.paused = FALSE, !.controller = FALSE]
    /\ listeners' = [l \in Listeners |->
         IF listeners[l] = Off THEN Off ELSE [listeners[l] EXCEPT !.aborted = TRUE]]
    /\ UNCHANGED <<inboxVars, launched>>

Hook ==
    \/ Prompt \/ ToolUse \/ Stop \/ Interrupt \/ Interrupted
    \/ Bind \/ PromptElsewhere \/ BindElsewhere

----------------------------------------------------------------------------
(* The agent, and the others of its project *)

NotifyAgent ==
    /\ \E kind \in Kinds : Notify(kind)
    /\ UNCHANGED deliveryVars

Read ==
    /\ \E scope \in {"all", "actionable"} : BeginCapture(Agent, scope, FALSE)
    /\ UNCHANGED deliveryVars

ReadEnds ==
    /\ \E k \in captures : k.by = Agent /\ \/ FailCapture(k)
                                           \/ \E t \in Tokens :
                                                /\ \A l \in Listeners : listeners[l].token # t
                                                /\ EndCapture(k, t)
    /\ UNCHANGED deliveryVars

AcknowledgeBatch ==
    /\ \E t \in Tokens : \E entries \in SUBSET batches[t].entries : Acknowledge(t, entries)
    /\ UNCHANGED deliveryVars

Sweep ==
    /\ \E t \in Tokens : Discard(t)
    /\ UNCHANGED deliveryVars

----------------------------------------------------------------------------
(* Faults *)

\* The answer to a call does not arrive, whether or not it was carried out.
Unheard == Calls \cup {"reserved", "launching"}

LoseAnswer(l) ==
    /\ "lost" \in Faults
    /\ listeners[l].at \in Unheard
    /\ listeners' = [listeners EXCEPT ![l] = Failed(@, "doubting")]
    /\ Forsake({l}, Agent)
    /\ UNCHANGED <<adapter, launched>>

\* Sessions are opened again, as the adapter knows them, and are not idle
\* before a hook says so.  Any answer not yet heard may be lost.
RestartDaemon ==
    /\ "restart" \in Faults
    /\ Restart
    /\ \E bound \in {adapter.bound, adapter.controller} : Hears(bound, FALSE, adapter.hook)
    /\ \E lost \in SUBSET {l \in Listeners : listeners[l].at \in Unheard},
          doubt \in {"doubting", "denying"} :
         /\ {k.by : k \in captures} \cap Listeners \subseteq lost
         /\ listeners' = [l \in Listeners |->
              IF l \in lost THEN Failed(listeners[l], doubt) ELSE listeners[l]]
    /\ UNCHANGED launched

\* The host is closed, and its adapter with it; the daemon goes on.
ExitAdapter ==
    /\ "exit" \in Faults
    /\ adapter' = [bound |-> FALSE, idle |-> FALSE, paused |-> FALSE,
                   controller |-> FALSE, hook |-> "none"]
    /\ listeners' = [l \in Listeners |-> Off]
    /\ Forsake(Listeners, Agent)
    /\ UNCHANGED launched

Fault == RestartDaemon \/ ExitAdapter \/ \E l \in Listeners : LoseAnswer(l)

----------------------------------------------------------------------------
Init ==
    /\ InboxInit
    /\ adapter = [bound |-> FALSE, idle |-> FALSE, paused |-> FALSE,
                  controller |-> FALSE, hook |-> "none"]
    /\ listeners = [l \in Listeners |-> Off]
    /\ launched = {}

Next ==
    \/ \E l \in Listeners : Listen(l)
    \/ Hook
    \/ NotifyAgent \/ Read \/ ReadEnds \/ AcknowledgeBatch \/ Sweep
    \/ Fault

Spec == Init /\ [][Next]_vars

\* Calls are carried out, a store that keeps being asked to commit a capture
\* commits one in the end, and the maintenance loop sweeps (without it the
\* names of batches, bounded here, would run out).  Nothing is assumed of
\* host and agent.
Fairness ==
    \A l \in Listeners :
        /\ WF_vars(Look(l) \/ Leave(l) \/ Ask(l) \/ ReserveNothing(l) \/ Check(l)
                   \/ Launch(l) \/ Exit(l) \/ Tell(l) \/ Refused(l))
        /\ SF_vars(Reserve(l))
        /\ SF_vars(Reserved(l))

FairSpec == Spec /\ Fairness /\ WF_vars(ReadEnds) /\ WF_vars(Sweep)

----------------------------------------------------------------------------
(* Properties *)

TypeOK ==
    /\ InboxTypeOK
    /\ adapter \in [bound : BOOLEAN, idle : BOOLEAN, paused : BOOLEAN, controller : BOOLEAN,
                    hook : {"none", "bind", "leave", "pause"}]
    /\ listeners \in [Listeners -> [at : Places, token : Tokens \cup {NoToken}, aborted : BOOLEAN]]
    /\ launched \subseteq Versions

\* No event is put into the queue of a host twice, though batches are given
\* back, calls get lost, listeners overlap and daemons restart between the
\* command and the report of its success (CodexQueue.listen).
LaunchedOnce ==
    [][\A l \in Listeners :
         listeners[l].at = "launching" /\ listeners'[l].at = "running" =>
            batches[listeners[l].token].entries \cap launched = {}]_vars

\* A listener is at a place from which it tells what became of its batch.
Settles(l, t) ==
    /\ listeners[l].token = t
    /\ \/ /\ batches[t].status = "reserved"
          /\ listeners[l].at \in {"reserved", "releasing", "submitting"}
       \/ /\ batches[t].status = "submitting"
          /\ listeners[l].at \in {"launching", "running", "accepting", "doubting", "denying"}

Tended(t) ==
    batches[t].status \in {"reserved", "submitting"} => \E l \in Listeners : Settles(l, t)

\* A batch reserved or being submitted has a listener that will settle it:
\* while there is such a batch the session is not woken for anything else
\* (Inbox.hasActionable).
ReservationsAreTended == \A t \in Tokens : Tended(t)

\* The host exits; an answer to the listener of the batch is lost (or was, and
\* the batch it asked for is reserved for nobody); or the daemon does not hear
\* it since it takes the adapter to be with another session (daemon.ts 553).
Strands(t) ==
    \/ ExitAdapter
    \/ \E l \in Listeners : listeners[l].token = t /\ LoseAnswer(l)
    \/ \E l \in Listeners : listeners[l].token = t /\ Refused(l) /\ ~adapter.bound
    \/ \E k \in captures : k.by = Agent /\ k.session /\ EndCapture(k, t)

\* Whatever goes wrong, only these leave a batch reserved or in submission
\* without the listener that would settle it: no overlap of listeners, no hook,
\* no reader or sweep and no restart does (CodexQueue.listen).
OnlyFaultsStrand == [][\A t \in Tokens : Tended(t) /\ ~Tended(t)' => Strands(t)]_vars

\* "A launched command with an ambiguous result retains an uncertain batch"
\* (docs/coordination-efficiency.md): once nobody is left to learn how its
\* command ended, a batch does not remain in submission.
AmbiguityIsKept ==
    \A t \in Tokens :
        batches[t].status = "submitting" /\ batches[t].entries \subseteq launched =>
            \E l \in Listeners : listeners[l].token = t

Wakeable ==
    /\ HasActionable
    /\ Attended
    /\ ~adapter.paused
    /\ \E l \in Listeners : listeners[l].at # "off" /\ ~listeners[l].aborted

\* An idle session with work in its inbox and a listener does not remain so:
\* the work is captured, unless the session is no longer idle.
IdleSessionsWake == []<>~Wakeable
=============================================================================
