----------------------------- MODULE Diagnostics ------------------------------
(***************************************************************************)
(* What the diagnostics worker shows as active operations                  *)
(* (src/src/runtime-diagnostics.ts and its worker). The daemon tells it    *)
(* of operations by messages, of which only so many may be unacknowledged: *)
(* the state of an operation then waits, its latest one only, and beyond   *)
(* another limit is dropped. A message says how many were dropped before   *)
(* it, upon which the worker forgets all it shows.                         *)
(***************************************************************************)
EXTENDS Naturals, Sequences, FiniteSets

LOCAL INSTANCE SequencesExt

CONSTANTS
    Operations,
    SoftLimit,    \* unacknowledged messages beyond which states of operations wait: 128
    HardLimit,    \* beyond which everything is dropped: 1024
    DeferLimit,   \* operations whose state may wait: 1024
    SentLimit,    \* operations the worker may know of: 1024
    MaxSamples    \* bound on messages about the daemon itself

VARIABLES
    operation,  \* new, active, finished
    main,       \* the daemon's side, with the messages to the worker
    acks,       \* acknowledgements on their way back
    shown,      \* the worker's operations
    samples

diagnosticVars == <<operation, main, acks, shown, samples>>

NoOperation == "none"

DiagnosticsInit ==
    /\ operation = [o \in Operations |-> "new"]
    /\ main = [deferred |-> <<>>,   \* deferredOperations
               sent |-> {},         \* sentOperations
               dropped |-> FALSE,   \* whether there are any: the number is only logged
               pending |-> 0, channel |-> <<>>]
    /\ acks = 0 /\ shown = {} /\ samples = 0

Defers(m, o) == {i \in DOMAIN m.deferred : m.deferred[i].of = o}
Undeferred(m, o) == [m EXCEPT !.deferred = SelectSeq(@, LAMBDA e : e.of # o)]
Dropped(m) == [m EXCEPT !.dropped = TRUE]

\* send.
Sent(m, event, o) ==
    IF \/ event = "active" /\ o \notin m.sent /\ Cardinality(m.sent) >= SentLimit
       \/ m.pending >= HardLimit
    THEN Dropped(m)
    ELSE [m EXCEPT !.channel = Append(@, [event |-> event, of |-> o, dropped |-> m.dropped]),
                   !.dropped = FALSE, !.pending = @ + 1,
                   !.sent = IF event = "active" THEN @ \cup {o}
                            ELSE IF event = "finished" THEN @ \ {o} ELSE @]

\* emit, of an operation. One that ends before the worker was told of it needs no message.
Deferred(m, event, o) ==
    IF Defers(m, o) # {}
    THEN [m EXCEPT !.deferred[CHOOSE i \in Defers(m, o) : TRUE].event = event]
    ELSE IF Len(m.deferred) < DeferLimit
    THEN [m EXCEPT !.deferred = Append(@, [event |-> event, of |-> o])]
    ELSE Dropped(m)
Emitted(m, event, o) ==
    IF event = "finished" /\ o \notin m.sent THEN Undeferred(m, o)
    ELSE IF m.pending >= SoftLimit \/ Defers(m, o) # {} THEN Deferred(m, event, o)
    ELSE Sent(m, event, o)

\* flushOperations.
Flushed(m) ==
    FoldLeft(LAMBDA now, e : IF now.pending >= SoftLimit THEN now
                             ELSE Sent(Undeferred(now, e.of), e.event, e.of), m, m.deferred)

-----------------------------------------------------------------------------
(* The daemon. *)

\* An operation begins, or comes to another phase; or it ends.
Progresses(o) ==
    /\ operation[o] # "finished"
    /\ operation' = [operation EXCEPT ![o] = "active"]
    /\ main' = Emitted(main, "active", o)
    /\ UNCHANGED <<acks, shown, samples>>
Finishes(o) ==
    /\ operation[o] = "active"
    /\ operation' = [operation EXCEPT ![o] = "finished"]
    /\ main' = Emitted(main, "finished", o)
    /\ UNCHANGED <<acks, shown, samples>>
\* runtime.main, an incident.
Samples ==
    /\ samples < MaxSamples
    /\ samples' = samples + 1
    /\ main' = Sent(main, "sample", NoOperation)
    /\ UNCHANGED <<operation, acks, shown>>

\* Mutation of AckArrives: what waits is not looked at.
AckArrivesOnly ==
    /\ acks > 0 /\ acks' = acks - 1
    /\ main' = [main EXCEPT !.pending = @ - 1]
    /\ UNCHANGED <<operation, shown, samples>>

AckArrives ==
    /\ acks > 0 /\ acks' = acks - 1
    /\ main' = Flushed([main EXCEPT !.pending = @ - 1])
    /\ UNCHANGED <<operation, shown, samples>>

-----------------------------------------------------------------------------
(* The worker. *)

\* Mutation of Told: what was dropped is counted only.
ToldOnly(e) ==
    CASE e.event = "active"   -> shown \cup {e.of}
      [] e.event = "finished" -> shown \ {e.of}
      [] OTHER                -> shown

Told(e) ==
    LET known == IF e.dropped THEN {} ELSE shown
    IN  CASE e.event = "active"   -> known \cup {e.of}
          [] e.event = "finished" -> known \ {e.of}
          [] OTHER                -> known

WorkerTakes ==
    /\ main.channel # <<>>
    /\ main' = [main EXCEPT !.channel = Tail(@)]
    /\ acks' = acks + 1
    /\ shown' = Told(Head(main.channel))
    /\ UNCHANGED <<operation, samples>>

DiagnosticsNext ==
    \/ \E o \in Operations : Progresses(o) \/ Finishes(o)
    \/ Samples \/ AckArrives \/ WorkerTakes

-----------------------------------------------------------------------------
(* Properties. *)

\* No ghost stays: an operation that is shown and is over will be taken off, by its end, which
\* waits or is on its way, or by the news that something was dropped. That news may wait for
\* the next message, and there is one every second.
Foretold(o) ==
    \/ \E i \in Defers(main, o) : main.deferred[i].event = "finished"
    \/ main.dropped
    \/ \E i \in DOMAIN main.channel :
          LET e == main.channel[i] IN e.dropped \/ (e.event = "finished" /\ e.of = o)
GhostsFade == \A o \in shown : operation[o] = "finished" => Foretold(o)

\* What waits is not forgotten: an acknowledgement is to come, upon which it goes on.
WaitingGoesOn == main.deferred # <<>> => main.pending > 0
ActiveIsTrue == GhostsFade /\ WaitingGoesOn

\* Does not hold: who is over does not count against SentLimit. The id of an operation whose
\* end was dropped stays in sentOperations for good.
SentIsActive ==
    \A o \in main.sent : operation[o] = "finished" => Defers(main, o) # {}
=============================================================================
