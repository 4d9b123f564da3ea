------------------------------- MODULE Inbox -------------------------------
(***************************************************************************)
(* The inbox of one agent identity (service/inbox.ts): the notifications   *)
(* it has not acknowledged, and the batches in which they were handed out. *)
(* Identities share no rows, and captures are serialized per identity, so  *)
(* one inbox stands for all.                                               *)
(*                                                                         *)
(* A notification is one row; an activity row is reused for newer activity *)
(* of its thread, so what a batch holds is a version: a row and the event  *)
(* it was about.  Every action is one transaction, except for a capture,   *)
(* which reads a snapshot and inserts its batch later: it writes no row    *)
(* that others write, so no conflict stops it.                             *)
(***************************************************************************)
EXTENDS Naturals, FiniteSets

CONSTANTS
    Tokens,       \* the names of batches
    Callers,      \* who captures
    Kinds,        \* the kinds of events that occur
    BatchSize,    \* the most entries of a batch (20)
    MaxEvents     \* bound: events that ever occur

ASSUME KindsAssumption == Kinds \subseteq {"work", "activity"}
ASSUME SizesAssumption == BatchSize \in Nat \ {0} /\ MaxEvents \in Nat

VARIABLES
    unread,       \* rows of notifications
    events,       \* the number of the last event
    batches,      \* rows of notificationBatches, by token
    captures      \* captures between their snapshot and their commit

inboxVars == <<unread, events, batches, captures>>

----------------------------------------------------------------------------
(* Rows *)

Versions == [id : Nat, event : Nat, kind : {"work", "activity"}]

Statuses == {"none", "reserved", "submitting", "accepted", "uncertain",
             "presented", "handled", "released"}

Batch(status, session, entries) ==
    [status |-> status, session |-> session, entries |-> entries, acknowledged |-> {}]

NoBatch == Batch("none", FALSE, {})

\* Held for the queue of a host session: nothing else is queued beside it.
Unsettled == {"reserved", "submitting", "accepted", "uncertain"}

\* Neither finished nor given back.
Live == Unsettled \cup {"presented"}

----------------------------------------------------------------------------
(* What may be handed out *)

Presented ==
    UNION {batches[t].entries : t \in {u \in Tokens : batches[u].status \notin {"none", "released"}}}

Available(scope) ==
    {n \in unread : n \notin Presented /\ (scope = "all" \/ n.kind = "work")}

Before(m, n) ==
    \/ m.kind = "work" /\ n.kind # "work"
    \/ m.kind = n.kind /\ m.event < n.event

\* The first of the available entries, as many as fit in a page.
Pages(available) ==
    {entries \in SUBSET available :
        /\ entries # {}
        /\ Cardinality(entries) <= BatchSize
        /\ \A m \in entries : \A n \in available \ entries : Before(m, n)}

\* Mutation of Blocked: what the session has been shown blocks it too.
BlockedByPresented(session) ==
    session /\ \E t \in Tokens : batches[t].session /\ batches[t].status \in Live

\* The host session has a batch in its queue already.
Blocked(session) ==
    session /\ \E t \in Tokens : batches[t].session /\ batches[t].status \in Unsettled

HasActionable ==
    /\ \A t \in Tokens : batches[t].status \notin Unsettled
    /\ Available("actionable") # {}

\* Mutation of MayCapture: without the mutex.
CaptureAtAnyTime == TRUE

\* The turn to capture, given by a mutex per identity.
MayCapture == captures = {}

Nothing(scope, session) ==
    MayCapture /\ (Blocked(session) \/ Available(scope) = {})

----------------------------------------------------------------------------
(* Operations *)

\* A committed write about which the agent is told.  Activity of the thread
\* takes the place of the activity not yet acknowledged.
Notify(kind) ==
    /\ events < MaxEvents
    /\ events' = events + 1
    /\ LET row(id) == [id |-> id, event |-> events + 1, kind |-> kind] IN
       \/ \E n \in unread :
            /\ kind = "activity" /\ n.kind = "activity"
            /\ unread' = (unread \ {n}) \cup {row(n.id)}
       \/ /\ kind = "activity" => \A n \in unread : n.kind # "activity"
          /\ unread' = unread \cup {row(events + 1)}
    /\ UNCHANGED <<batches, captures>>

BeginCapture(caller, scope, session) ==
    /\ MayCapture
    /\ ~Blocked(session)
    /\ \E entries \in Pages(Available(scope)) :
         captures' = captures \cup {[by |-> caller, session |-> session, entries |-> entries]}
    /\ UNCHANGED <<unread, events, batches>>

EndCapture(capture, t) ==
    /\ batches[t] = NoBatch
    /\ captures' = captures \ {capture}
    /\ batches' = [batches EXCEPT ![t] =
         Batch(IF capture.session THEN "reserved" ELSE "presented", capture.session, capture.entries)]
    /\ UNCHANGED <<unread, events>>

FailCapture(capture) ==
    /\ captures' = captures \ {capture}
    /\ UNCHANGED <<unread, events, batches>>

\* Mutation of Acknowledge: rows are removed, whatever they have become.
AcknowledgeRows(t, entries) ==
    /\ batches[t].status # "none"
    /\ unread' = {n \in unread : \A m \in entries \ batches[t].acknowledged : m.id # n.id}
    /\ LET acknowledged == batches[t].acknowledged \cup entries IN
       batches' = [batches EXCEPT
         ![t].acknowledged = acknowledged,
         ![t].status = IF acknowledged = batches[t].entries THEN "handled" ELSE @]
    /\ UNCHANGED <<events, captures>>

\* Mutation of Acknowledge: any acknowledgement finishes the batch.
AcknowledgeFinishes(t, entries) ==
    /\ batches[t].status # "none"
    /\ unread' = unread \ (entries \ batches[t].acknowledged)
    /\ batches' = [batches EXCEPT
         ![t].acknowledged = @ \cup entries,
         ![t].status = "handled"]
    /\ UNCHANGED <<events, captures>>

\* Only the versions that the batch holds are removed; a newer event in the
\* same row stays.
Acknowledge(t, entries) ==
    /\ batches[t].status # "none"
    /\ unread' = unread \ (entries \ batches[t].acknowledged)
    /\ LET acknowledged == batches[t].acknowledged \cup entries IN
       batches' = [batches EXCEPT
         ![t].acknowledged = acknowledged,
         ![t].status = IF acknowledged = batches[t].entries THEN "handled" ELSE @]
    /\ UNCHANGED <<events, captures>>

\* Mutation of Successors: an uncertain batch may be given back.
SuccessorsBackwards(status) ==
    CASE status = "reserved" -> {"submitting", "released", "uncertain"}
      [] status = "submitting" -> {"accepted", "uncertain", "released"}
      [] status = "accepted" -> {"presented"}
      [] status = "uncertain" -> {"presented", "released"}
      [] OTHER -> {}

\* Where a delivery may go from here.
Successors(status) ==
    CASE status = "reserved" -> {"submitting", "released", "uncertain"}
      [] status = "submitting" -> {"accepted", "uncertain", "released"}
      [] status \in {"accepted", "uncertain"} -> {"presented"}
      [] OTHER -> {}

MayBecome(t, status) ==
    /\ batches[t].status # "none"
    /\ \/ batches[t].status \in {status, "handled"}
       \/ status \in Successors(batches[t].status)

Transition(t, status) ==
    /\ MayBecome(t, status)
    /\ batches' = [batches EXCEPT ![t].status = IF @ = "handled" THEN @ ELSE status]
    /\ UNCHANGED <<unread, events, captures>>

\* The agent of the host session has come to a point where it sees its inbox.
Present ==
    /\ batches' = [t \in Tokens |->
         IF batches[t].session /\ batches[t].status \in {"accepted", "uncertain"}
         THEN [batches[t] EXCEPT !.status = "presented"] ELSE batches[t]]
    /\ UNCHANGED <<unread, events, captures>>

\* The sweep forgets a batch an hour after it was finished or given back.
Discard(t) ==
    /\ batches[t].status \in {"handled", "released"}
    /\ batches' = [batches EXCEPT ![t] = NoBatch]
    /\ UNCHANGED <<unread, events, captures>>

\* Mutation of Restart: reservations are forgotten.
RestartSubmissions ==
    /\ batches' = [t \in Tokens |->
         IF batches[t].status = "submitting"
         THEN [batches[t] EXCEPT !.status = "uncertain"] ELSE batches[t]]
    /\ captures' = {}
    /\ UNCHANGED <<unread, events>>

\* A new daemon does not know how far a submission got.
Restart ==
    /\ batches' = [t \in Tokens |->
         IF batches[t].status \in {"reserved", "submitting"}
         THEN [batches[t] EXCEPT !.status = "uncertain"] ELSE batches[t]]
    /\ captures' = {}
    /\ UNCHANGED <<unread, events>>

\* Those who asked have stopped waiting for the answer.
Forsake(callers, nobody) ==
    /\ captures' = {[k EXCEPT !.by = IF @ \in callers THEN nobody ELSE @] : k \in captures}
    /\ UNCHANGED <<unread, events, batches>>

----------------------------------------------------------------------------
InboxInit ==
    /\ unread = {}
    /\ events = 0
    /\ batches = [t \in Tokens |-> NoBatch]
    /\ captures = {}

InboxNext ==
    \/ \E kind \in Kinds : Notify(kind)
    \/ \E c \in Callers, scope \in {"all", "actionable"}, session \in BOOLEAN :
         BeginCapture(c, scope, session)
    \/ \E k \in captures : FailCapture(k) \/ \E t \in Tokens : EndCapture(k, t)
    \/ \E t \in Tokens : \E entries \in SUBSET batches[t].entries : Acknowledge(t, entries)
    \/ \E t \in Tokens, status \in Live \cup {"released"} : Transition(t, status)
    \/ \E t \in Tokens : Discard(t)
    \/ Present
    \/ Restart
    \/ \E callers \in SUBSET Callers, nobody \in Callers : Forsake(callers, nobody)

InboxSpec == InboxInit /\ [][InboxNext]_inboxVars

----------------------------------------------------------------------------
(* Properties *)

\* Rows keep their types; no batch has more entries than fit in a page, and
\* only its own entries are acknowledged.
InboxTypeOK ==
    /\ unread \subseteq Versions
    /\ events \in Nat
    /\ batches \in [Tokens -> [status : Statuses, session : BOOLEAN,
                               entries : SUBSET Versions, acknowledged : SUBSET Versions]]
    /\ captures \subseteq [by : Callers, session : BOOLEAN, entries : SUBSET Versions]
    /\ \A t \in Tokens : /\ Cardinality(batches[t].entries) <= BatchSize
                         /\ batches[t].acknowledged \subseteq batches[t].entries

\* One version of a notification is in the hands of one batch at a time,
\* whoever captures when, gives back, acknowledges or crashes: an agent is
\* not told twice of the same event (Inbox.capture).
DeliveredOnce ==
    \A t, u \in Tokens :
        t # u /\ {batches[t].status, batches[u].status} \subseteq Live =>
            batches[t].entries \cap batches[u].entries = {}

\* No unread notification is out of reach: it can be captured, or it waits
\* for its acknowledgement in a batch that is not finished.  "Unhandled
\* batches remain recoverable" (docs/coordination-efficiency.md).
UnreadIsReachable ==
    \A n \in unread :
        \/ n \in Available("all")
        \/ \E t \in Tokens : batches[t].status \in Live
                             /\ n \in batches[t].entries \ batches[t].acknowledged

\* A notification disappears only when exactly this version was in a batch
\* that is acknowledged, or when a newer event took its row: an old
\* acknowledgement does not remove a newer event (Inbox.acknowledge).
NothingLostUnseen ==
    [][\A n \in unread \ unread' :
         \/ \E m \in unread' : m.id = n.id /\ m.event > n.event
         \/ \E t \in Tokens : n \in batches[t].entries \cap batches'[t].acknowledged]_inboxVars
=============================================================================
