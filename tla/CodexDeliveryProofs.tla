------------------------ MODULE CodexDeliveryProofs ------------------------
(***************************************************************************)
(* What an inbox promises, for any number of batches, callers and events;  *)
(* and that what listeners, hooks and faults do to it is what it allows    *)
(* anyone to do: CodexDelivery implements Inbox, and so has its properties *)
(* for any number of listeners.                                            *)
(***************************************************************************)
EXTENDS CodexDelivery, FiniteSetTheorems, TLAPS

(* The inbox. *)

USE DEF Live, Unsettled

\* No version is newer than the last event.
Numbered ==
    /\ \A n \in unread : n.event <= events
    /\ \A t \in Tokens : \A n \in batches[t].entries : n.event <= events
    /\ \A k \in captures : \A n \in k.entries : n.event <= events

\* Captures take turns, and are of what no batch in hand has.
Captures ==
    /\ \A j, k \in captures : j = k
    /\ \A k \in captures : Cardinality(k.entries) <= BatchSize
    /\ \A k \in captures : \A t \in Tokens :
         batches[t].status \in Live => k.entries \cap batches[t].entries = {}

\* What is acknowledged is not unread; what is handled is acknowledged.
Settled ==
    \A t \in Tokens :
        /\ batches[t].acknowledged \cap unread = {}
        /\ batches[t].status = "handled" => batches[t].acknowledged = batches[t].entries
        /\ batches[t].status = "none" => batches[t].entries = {}

InboxInv == InboxTypeOK /\ Numbered /\ Captures /\ Settled /\ DeliveredOnce

----------------------------------------------------------------------------
\* Every operation keeps the types of rows and the bounds of a batch.
LEMMA TypesKept ==
    ASSUME InboxInv, [InboxNext]_inboxVars
    PROVE  InboxTypeOK'
<1> USE DEF InboxInv, InboxTypeOK, Batch, NoBatch, Statuses
<1> SUFFICES ASSUME InboxNext PROVE InboxTypeOK'
    BY DEF inboxVars
<1>0. Cardinality({}) = 0 BY FS_EmptySet
<1>1. ASSUME NEW kind \in Kinds, Notify(kind) PROVE InboxTypeOK'
    <2>1. [id |-> events + 1, event |-> events + 1, kind |-> kind] \in Versions
        BY KindsAssumption DEF Versions
    <2>2. \A n \in unread : [id |-> n.id, event |-> events + 1, kind |-> kind] \in Versions
        BY KindsAssumption DEF Versions
    <2> QED BY <1>1, <2>1, <2>2 DEF Notify
<1>2. ASSUME NEW c \in Callers, NEW scope \in {"all", "actionable"}, NEW session \in BOOLEAN,
             BeginCapture(c, scope, session)
      PROVE  InboxTypeOK'
    BY <1>2 DEF BeginCapture, Pages, Available
<1>3. ASSUME NEW k \in captures, FailCapture(k) PROVE InboxTypeOK'
    BY <1>3 DEF FailCapture
<1>4. ASSUME NEW k \in captures, NEW t \in Tokens, EndCapture(k, t) PROVE InboxTypeOK'
    <2>1. Cardinality(k.entries) <= BatchSize BY DEF Captures
    <2>2. k \in [by : Callers, session : BOOLEAN, entries : SUBSET Versions] OBVIOUS
    <2> QED BY <1>4, <2>1, <2>2 DEF EndCapture
<1>5. ASSUME NEW t \in Tokens, NEW entries \in SUBSET batches[t].entries, Acknowledge(t, entries)
      PROVE  InboxTypeOK'
    <2> DEFINE acknowledged == batches[t].acknowledged \cup entries
               status == IF acknowledged = batches[t].entries THEN "handled" ELSE batches[t].status
    <2>1. acknowledged \subseteq batches[t].entries /\ status \in Statuses OBVIOUS
    <2>2. batches' = [batches EXCEPT ![t].acknowledged = acknowledged, ![t].status = status]
        BY <1>5 DEF Acknowledge
    <2>3. unread' \subseteq unread /\ UNCHANGED <<events, captures>> BY <1>5 DEF Acknowledge
    <2>4. batches'[t] = [batches[t] EXCEPT !.acknowledged = acknowledged, !.status = status]
        BY <2>2
    <2>5. \A u \in Tokens \ {t} : batches'[u] = batches[u] BY <2>2
    <2> DEFINE Row == [status : Statuses, session : BOOLEAN,
                       entries : SUBSET Versions, acknowledged : SUBSET Versions]
    <2>6. batches'[t] \in Row
        <3>1. batches[t] \in Row OBVIOUS
        <3>2. acknowledged \subseteq Versions BY <2>1
        <3> HIDE DEF acknowledged, status
        <3> QED BY <2>1, <2>4, <3>1, <3>2
    <2>7. batches' \in [Tokens -> Row]
        <3> HIDE DEF Row, status, acknowledged
        <3>1. batches \in [Tokens -> Row] BY DEF Row
        <3>2. batches' = [u \in Tokens |-> IF u = t THEN batches'[t] ELSE batches[u]] BY <2>2
        <3> QED BY <2>6, <3>1, <3>2
    <2>8. \A u \in Tokens : Cardinality(batches'[u].entries) <= BatchSize
                            /\ batches'[u].acknowledged \subseteq batches'[u].entries
        <3>1. batches'[t].entries = batches[t].entries /\ batches'[t].acknowledged = acknowledged
            BY <2>4
        <3> HIDE DEF acknowledged, status
        <3> QED BY <2>1, <2>5, <3>1
    <2>9. unread' \subseteq Versions /\ events' \in Nat
          /\ captures' \subseteq [by : Callers, session : BOOLEAN, entries : SUBSET Versions]
        BY <2>3
    <2> QED BY <2>7, <2>8, <2>9
<1>6. ASSUME NEW t \in Tokens, NEW status \in Live \cup {"released"}, Transition(t, status)
      PROVE  InboxTypeOK'
    BY <1>6 DEF Transition
<1>7. ASSUME NEW t \in Tokens, Discard(t) PROVE InboxTypeOK'
    BY <1>7, <1>0, SizesAssumption DEF Discard
<1>8. CASE Present BY <1>8 DEF Present
<1>9. CASE Restart BY <1>9 DEF Restart
<1>10. ASSUME NEW callers \in SUBSET Callers, NEW nobody \in Callers, Forsake(callers, nobody)
       PROVE  InboxTypeOK'
    BY <1>10 DEF Forsake
<1> QED BY <1>1, <1>2, <1>3, <1>4, <1>5, <1>6, <1>7, <1>8, <1>9, <1>10 DEF InboxNext

\* Nothing is numbered above the events there have been.
LEMMA NumbersKept ==
    ASSUME InboxInv, [InboxNext]_inboxVars
    PROVE  Numbered'
<1> USE DEF InboxInv, InboxTypeOK, Numbered, Batch, NoBatch, Versions
<1> SUFFICES ASSUME InboxNext PROVE Numbered'
    BY DEF inboxVars
<1>1. ASSUME NEW kind \in Kinds, Notify(kind) PROVE Numbered'
    BY <1>1 DEF Notify
<1>2. ASSUME NEW c \in Callers, NEW scope \in {"all", "actionable"}, NEW session \in BOOLEAN,
             BeginCapture(c, scope, session)
      PROVE  Numbered'
    BY <1>2 DEF BeginCapture, Pages, Available
<1>3. ASSUME NEW k \in captures, FailCapture(k) PROVE Numbered'
    BY <1>3 DEF FailCapture
<1>4. ASSUME NEW k \in captures, NEW t \in Tokens, EndCapture(k, t) PROVE Numbered'
    BY <1>4 DEF EndCapture
<1>5. ASSUME NEW t \in Tokens, NEW entries \in SUBSET batches[t].entries, Acknowledge(t, entries)
      PROVE  Numbered'
    BY <1>5 DEF Acknowledge
<1>6. ASSUME NEW t \in Tokens, NEW status \in Live \cup {"released"}, Transition(t, status)
      PROVE  Numbered'
    BY <1>6 DEF Transition
<1>7. ASSUME NEW t \in Tokens, Discard(t) PROVE Numbered'
    BY <1>7 DEF Discard
<1>8. CASE Present BY <1>8 DEF Present
<1>9. CASE Restart BY <1>9 DEF Restart
<1>10. ASSUME NEW callers \in SUBSET Callers, NEW nobody \in Callers, Forsake(callers, nobody)
       PROVE  Numbered'
    BY <1>10 DEF Forsake
<1> QED BY <1>1, <1>2, <1>3, <1>4, <1>5, <1>6, <1>7, <1>8, <1>9, <1>10 DEF InboxNext

\* Captures stay alone, and apart from what is in hand: a batch given back
\* never returns into hand, so only the end of a capture adds to it.
LEMMA CapturesKept ==
    ASSUME InboxInv, [InboxNext]_inboxVars
    PROVE  Captures' /\ DeliveredOnce'
<1> USE DEF InboxInv, InboxTypeOK, Captures, DeliveredOnce, Batch, NoBatch
<1> SUFFICES ASSUME InboxNext PROVE Captures' /\ DeliveredOnce'
    BY DEF inboxVars
<1>1. ASSUME NEW kind \in Kinds, Notify(kind) PROVE Captures' /\ DeliveredOnce'
    BY <1>1 DEF Notify
<1>2. ASSUME NEW c \in Callers, NEW scope \in {"all", "actionable"}, NEW session \in BOOLEAN,
             BeginCapture(c, scope, session)
      PROVE  Captures' /\ DeliveredOnce'
    <2>1. PICK entries \in Pages(Available(scope)) :
            captures' = {[by |-> c, session |-> session, entries |-> entries]}
        BY <1>2 DEF BeginCapture, MayCapture
    <2>2. Cardinality(entries) <= BatchSize /\ entries \subseteq Available(scope)
        BY <2>1 DEF Pages
    <2>3. \A t \in Tokens : batches[t].status \in Live => batches[t].entries \subseteq Presented
        BY DEF Presented
    <2>4. entries \cap Presented = {}
        BY <2>2 DEF Available
    <2> QED BY <1>2, <2>1, <2>2, <2>3, <2>4 DEF BeginCapture
<1>3. ASSUME NEW k \in captures, FailCapture(k) PROVE Captures' /\ DeliveredOnce'
    BY <1>3 DEF FailCapture
<1>4. ASSUME NEW k \in captures, NEW t \in Tokens, EndCapture(k, t)
      PROVE  Captures' /\ DeliveredOnce'
    <2>1. captures' = {} BY <1>4 DEF EndCapture
    <2>2. \A u \in Tokens \ {t} : batches'[u] = batches[u] BY <1>4 DEF EndCapture
    <2>3. batches'[t].entries = k.entries BY <1>4 DEF EndCapture
    <2> QED BY <2>1, <2>2, <2>3
<1>5. ASSUME NEW t \in Tokens, NEW entries \in SUBSET batches[t].entries, Acknowledge(t, entries)
      PROVE  Captures' /\ DeliveredOnce'
    BY <1>5 DEF Acknowledge
<1>6. ASSUME NEW t \in Tokens, NEW status \in Live \cup {"released"}, Transition(t, status)
      PROVE  Captures' /\ DeliveredOnce'
    <2>1. batches[t].status \notin Live => batches'[t].status \notin Live
        BY <1>6 DEF Transition, MayBecome, Successors
    <2>2. \A u \in Tokens : batches'[u].entries = batches[u].entries
                            /\ (u # t => batches'[u] = batches[u])
        BY <1>6 DEF Transition
    <2>3. \A u \in Tokens : batches'[u].status \in Live => batches[u].status \in Live
        BY <2>1, <2>2
    <2>4. captures' = captures BY <1>6 DEF Transition
    <2> QED BY <2>2, <2>3, <2>4
<1>7. ASSUME NEW t \in Tokens, Discard(t) PROVE Captures' /\ DeliveredOnce'
    BY <1>7 DEF Discard
<1>8. CASE Present BY <1>8 DEF Present
<1>9. CASE Restart BY <1>9 DEF Restart
<1>10. ASSUME NEW callers \in SUBSET Callers, NEW nobody \in Callers, Forsake(callers, nobody)
       PROVE  Captures' /\ DeliveredOnce'
    <2>1. \A k \in captures' : \E j \in captures : k.entries = j.entries
        BY <1>10 DEF Forsake
    <2>2. \A j, k \in captures' : j = k BY <1>10 DEF Forsake
    <2>3. batches' = batches BY <1>10 DEF Forsake
    <2> QED BY <2>1, <2>2, <2>3
<1> HIDE DEF InboxInv, InboxTypeOK, Captures, DeliveredOnce
<1> QED BY <1>1, <1>2, <1>3, <1>4, <1>5, <1>6, <1>7, <1>8, <1>9, <1>10 DEF InboxNext

\* What has been acknowledged does not come back: a new event has a new
\* number.
LEMMA SettledKept ==
    ASSUME InboxInv, [InboxNext]_inboxVars
    PROVE  Settled'
<1> USE DEF InboxInv, InboxTypeOK, Settled, Batch, NoBatch
<1> SUFFICES ASSUME InboxNext PROVE Settled'
    BY DEF inboxVars
<1>1. ASSUME NEW kind \in Kinds, Notify(kind) PROVE Settled'
    <2>1. \A n \in unread' \ unread : n.event = events + 1
        BY <1>1 DEF Notify
    <2>2. \A t \in Tokens : \A n \in batches[t].acknowledged : n.event <= events
        BY DEF Numbered
    <2>3. \A t \in Tokens : batches[t].acknowledged \subseteq Versions
        OBVIOUS
    <2> QED BY <1>1, <2>1, <2>2, <2>3 DEF Notify, Versions
<1>2. ASSUME NEW c \in Callers, NEW scope \in {"all", "actionable"}, NEW session \in BOOLEAN,
             BeginCapture(c, scope, session)
      PROVE  Settled'
    BY <1>2 DEF BeginCapture
<1>3. ASSUME NEW k \in captures, FailCapture(k) PROVE Settled'
    BY <1>3 DEF FailCapture
<1>4. ASSUME NEW k \in captures, NEW t \in Tokens, EndCapture(k, t) PROVE Settled'
    BY <1>4 DEF EndCapture
<1>5. ASSUME NEW t \in Tokens, NEW entries \in SUBSET batches[t].entries, Acknowledge(t, entries)
      PROVE  Settled'
    <2>1. /\ unread' = unread \ (entries \ batches[t].acknowledged)
          /\ batches'[t].acknowledged = batches[t].acknowledged \cup entries
          /\ batches'[t].entries = batches[t].entries
          /\ batches'[t].status = "handled" =>
               \/ batches'[t].acknowledged = batches[t].entries
               \/ batches[t].status = "handled"
          /\ batches'[t].status # "none"
        BY <1>5 DEF Acknowledge
    <2>2. \A u \in Tokens \ {t} : batches'[u] = batches[u]
        BY <1>5 DEF Acknowledge
    <2>3. batches[t].acknowledged \subseteq batches[t].entries OBVIOUS
    <2> QED BY <2>1, <2>2, <2>3
<1>6. ASSUME NEW t \in Tokens, NEW status \in Live \cup {"released"}, Transition(t, status)
      PROVE  Settled'
    BY <1>6 DEF Transition, MayBecome
<1>7. ASSUME NEW t \in Tokens, Discard(t) PROVE Settled'
    BY <1>7 DEF Discard
<1>8. CASE Present BY <1>8 DEF Present
<1>9. CASE Restart BY <1>9 DEF Restart
<1>10. ASSUME NEW callers \in SUBSET Callers, NEW nobody \in Callers, Forsake(callers, nobody)
       PROVE  Settled'
    BY <1>10 DEF Forsake
<1> QED BY <1>1, <1>2, <1>3, <1>4, <1>5, <1>6, <1>7, <1>8, <1>9, <1>10 DEF InboxNext

----------------------------------------------------------------------------
\* It holds at first, and every operation keeps it.
LEMMA InboxStarts == ASSUME InboxInit PROVE InboxInv
<1>1. Cardinality({}) = 0 BY FS_EmptySet
<1> QED BY <1>1, SizesAssumption
        DEF InboxInit, InboxInv, InboxTypeOK, Numbered, Captures, Settled, DeliveredOnce,
            Batch, NoBatch, Statuses

LEMMA InboxStays ==
    ASSUME InboxInv, [InboxNext]_inboxVars
    PROVE  InboxInv'
BY TypesKept, NumbersKept, CapturesKept, SettledKept DEF InboxInv

\* The invariant from which the rest follows.
THEOREM InboxInvariant == InboxSpec => []InboxInv
<1>1. InboxInit => InboxInv BY InboxStarts
<1>2. InboxInv /\ [InboxNext]_inboxVars => InboxInv' BY InboxStays
<1> QED BY <1>1, <1>2, PTL DEF InboxSpec

\* Rows keep their types, batches their bounds (Inbox.capture).
THEOREM InboxTypeCorrect == InboxSpec => []InboxTypeOK
<1>1. InboxInv => InboxTypeOK BY DEF InboxInv
<1> QED BY <1>1, InboxInvariant, PTL

\* No version is in the hands of two batches (Inbox.capture).
THEOREM EventsAreDeliveredOnce == InboxSpec => []DeliveredOnce
<1>1. InboxInv => DeliveredOnce BY DEF InboxInv
<1> QED BY <1>1, InboxInvariant, PTL

\* An unread notification that is not available is in a batch that is neither
\* given back nor handled, so it is not acknowledged there.
THEOREM UnreadStaysReachable == InboxSpec => []UnreadIsReachable
<1>1. InboxInv => UnreadIsReachable
    <2> SUFFICES ASSUME InboxInv, NEW n \in unread, n \notin Available("all")
                 PROVE  \E t \in Tokens : batches[t].status \in Live
                                          /\ n \in batches[t].entries \ batches[t].acknowledged
        BY DEF UnreadIsReachable
    <2>1. PICK t \in Tokens : n \in batches[t].entries /\ batches[t].status \notin {"none", "released"}
        BY DEF Available, Presented
    <2>2. n \notin batches[t].acknowledged BY DEF InboxInv, Settled
    <2>3. batches[t].status # "handled" BY <2>1, <2>2 DEF InboxInv, Settled
    <2>4. batches[t].status \in Statuses BY DEF InboxInv, InboxTypeOK
    <2> QED BY <2>1, <2>2, <2>3, <2>4 DEF Statuses
<1> QED BY <1>1, InboxInvariant, PTL

\* Only an acknowledgement of this very version, or a newer event in its row,
\* removes a notification (Inbox.acknowledge).
THEOREM NothingIsLostUnseen == InboxSpec => NothingLostUnseen
<1> DEFINE Seen ==
      \A n \in unread \ unread' :
         \/ \E m \in unread' : m.id = n.id /\ m.event > n.event
         \/ \E t \in Tokens : n \in batches[t].entries \cap batches'[t].acknowledged
<1>1. InboxInv /\ [InboxNext]_inboxVars => [Seen]_inboxVars
    <2> SUFFICES ASSUME InboxInv, InboxNext, NEW n \in unread, n \notin unread'
                 PROVE  \/ \E m \in unread' : m.id = n.id /\ m.event > n.event
                        \/ \E t \in Tokens : n \in batches[t].entries \cap batches'[t].acknowledged
        OBVIOUS
    <2>1. ASSUME NEW kind \in Kinds, Notify(kind)
          PROVE  \E m \in unread' : m.id = n.id /\ m.event > n.event
        <3>1. events \in Nat /\ n.event \in Nat /\ n.event <= events
            BY DEF InboxInv, InboxTypeOK, Numbered, Versions
        <3>2. PICK m \in unread :
                unread' = (unread \ {m}) \cup {[id |-> m.id, event |-> events + 1, kind |-> kind]}
            BY <2>1 DEF Notify
        <3> DEFINE row == [id |-> n.id, event |-> events + 1, kind |-> kind]
        <3>3. m = n BY <3>2
        <3>4. row \in unread' BY <3>2, <3>3
        <3>5. row.id = n.id /\ row.event > n.event BY <3>1
        <3> QED BY <3>4, <3>5
    <2>2. ASSUME NEW t \in Tokens, NEW entries \in SUBSET batches[t].entries,
                 Acknowledge(t, entries)
          PROVE  n \in batches[t].entries \cap batches'[t].acknowledged
        BY <2>2 DEF Acknowledge, InboxInv, InboxTypeOK
    <2>3. CASE UNCHANGED unread BY <2>3
    <2> QED BY <2>1, <2>2, <2>3
            DEF InboxNext, BeginCapture, FailCapture, EndCapture, Transition, Discard,
                Present, Restart, Forsake
<1> QED BY <1>1, InboxInvariant, PTL DEF InboxSpec, NothingLostUnseen

HIDE DEF Live, Unsettled

-----------------------------------------------------------------------------
(* The delivery to Codex sessions. *)

\* From here to the end of its turn a listener has a batch.
Holding == Telling \cup {"reserved", "launching", "running"}

Listener == [at : Places, token : Tokens \cup {NoToken}, aborted : BOOLEAN]

Adapter == [bound : BOOLEAN, idle : BOOLEAN, paused : BOOLEAN, controller : BOOLEAN,
            hook : {"none", "bind", "leave", "pause"}]

ListenersOK ==
    /\ listeners \in [Listeners -> Listener]
    /\ \A l \in Listeners : listeners[l].at \in Holding => listeners[l].token \in Tokens

\* TypeOK and what makes it inductive: the invariant of the inbox, and that
\* a listener that speaks of its batch has one.
DeliveryInv == InboxInv /\ ListenersOK /\ adapter \in Adapter /\ launched \subseteq Versions

----------------------------------------------------------------------------
\* A listener's turn ends, and its calls fail, in places where it may be.
LEMMA TurnsEnd ==
    ASSUME NEW listener \in Listener, NEW doubt \in {"doubting", "denying"},
           listener.at \in Holding => listener.token \in Tokens
    PROVE  /\ Again(listener) \in Listener
           /\ Again(listener).at \notin Holding
           /\ Failed(listener, doubt) \in Listener
           /\ Failed(listener, doubt).at \in Holding => Failed(listener, doubt).token \in Tokens
BY DEF Again, Failed, Off, Listener, Holding, Telling, Places, Calls

\* A step of a listener is a step of the inbox, or leaves it alone.
LEMMA ListenersKeepToTheInbox ==
    ASSUME ListenersOK, NEW l \in Listeners, Listen(l)
    PROVE  [InboxNext]_inboxVars
<1>1. CASE Look(l) \/ Leave(l) \/ Ask(l) \/ ReserveNothing(l) \/ Check(l) \/ Launch(l)
           \/ Exit(l) \/ Refused(l)
    BY <1>1 DEF Look, Leave, Ask, ReserveNothing, Check, Launch, Exit, Refused
<1>2. CASE Reserve(l)
    <2>1. BeginCapture(l, "actionable", TRUE) BY <1>2 DEF Reserve
    <2>2. l \in Callers BY CallersAssumption
    <2> QED BY <2>1, <2>2 DEF InboxNext
<1>3. CASE Reserved(l)
    <2>1. PICK k \in captures, t \in Tokens : EndCapture(k, t) BY <1>3 DEF Reserved
    <2> QED BY <2>1 DEF InboxNext
<1>4. CASE ReserveFails(l) BY <1>4 DEF ReserveFails, InboxNext
<1>5. CASE Tell(l)
    <2>1. Wanted(listeners[l].at) \in Live \cup {"released"}
        BY <1>5 DEF Tell, Telling, Wanted, Live, Unsettled
    <2>2. Transition(listeners[l].token, Wanted(listeners[l].at)) BY <1>5 DEF Tell
    <2>3. listeners[l].token \in Tokens BY <1>5 DEF Tell, ListenersOK, Holding
    <2> QED BY <2>1, <2>2, <2>3 DEF InboxNext
<1> QED BY <1>1, <1>2, <1>3, <1>4, <1>5 DEF Listen

\* And so is every other step.
LEMMA StepsKeepToTheInbox ==
    ASSUME ListenersOK, [Next]_vars
    PROVE  [InboxNext]_inboxVars
<1>1. CASE \E l \in Listeners : Listen(l) BY <1>1, ListenersKeepToTheInbox
<1>2. CASE Hook
    BY <1>2 DEF Hook, Prompt, ToolUse, Stop, Interrupt, Interrupted, Bind, PromptElsewhere,
                BindElsewhere, InboxNext
<1>3. CASE NotifyAgent BY <1>3 DEF NotifyAgent, InboxNext
<1>4. CASE Read
    <2>1. Agent \in Callers BY CallersAssumption
    <2> QED BY <1>4, <2>1 DEF Read, InboxNext
<1>5. CASE ReadEnds BY <1>5 DEF ReadEnds, InboxNext
<1>6. CASE AcknowledgeBatch BY <1>6 DEF AcknowledgeBatch, InboxNext
<1>7. CASE Sweep BY <1>7 DEF Sweep, InboxNext
<1>8. CASE RestartDaemon BY <1>8 DEF RestartDaemon, InboxNext
<1>9. CASE ExitAdapter
    <2>1. Listeners \in SUBSET Callers /\ Agent \in Callers BY CallersAssumption
    <2>2. Forsake(Listeners, Agent) BY <1>9 DEF ExitAdapter
    <2> QED BY <2>1, <2>2 DEF InboxNext
<1>10. ASSUME NEW l \in Listeners, LoseAnswer(l) PROVE InboxNext
    <2>1. {l} \in SUBSET Callers /\ Agent \in Callers BY CallersAssumption
    <2>2. Forsake({l}, Agent) BY <1>10 DEF LoseAnswer
    <2> QED BY <2>1, <2>2 DEF InboxNext
<1>11. CASE UNCHANGED vars BY <1>11 DEF vars, inboxVars
<1> QED BY <1>1, <1>2, <1>3, <1>4, <1>5, <1>6, <1>7, <1>8, <1>9, <1>10, <1>11 DEF Next, Fault

----------------------------------------------------------------------------
\* Listeners keep their types, and a batch while they need one.
LEMMA ListenersKept ==
    ASSUME DeliveryInv, [Next]_vars
    PROVE  ListenersOK'
<1> USE DEF DeliveryInv
<1>1. ASSUME NEW l \in Listeners, NEW listener \in Listener,
             listener.at \in Holding => listener.token \in Tokens,
             listeners' = [listeners EXCEPT ![l] = listener]
      PROVE  ListenersOK'
    BY <1>1 DEF ListenersOK
<1>2. ASSUME NEW l \in Listeners, Listen(l) PROVE ListenersOK'
    <2> DEFINE place(at) == [listeners[l] EXCEPT !.at = at]
    <2>1. listeners[l] \in Listener /\ (listeners[l].at \in Holding => listeners[l].token \in Tokens)
        BY DEF ListenersOK
    <2>2. \A at \in Places : place(at) \in Listener /\ place(at).at = at
                             /\ place(at).token = listeners[l].token
        BY <2>1 DEF Listener
    <2>3. ASSUME NEW at \in Places, at \in Holding => listeners[l].at \in Holding,
                 listeners' = Goto(l, at)
          PROVE  ListenersOK'
        BY <1>1, <2>1, <2>2, <2>3 DEF Goto, ListenersOK
    <2>4. Off \in Listener /\ Off.at \notin Holding
        BY DEF Off, Listener, Holding, Telling, Places, Calls
    <2>5. CASE Look(l) \/ Ask(l) \/ Check(l) \/ Launch(l) \/ Exit(l)
        BY <2>3, <2>5 DEF Look, Ask, Check, Launch, Exit, Holding, Telling, Places, Calls
    <2>6. CASE Leave(l) BY <1>1, <2>4, <2>6 DEF Leave
    <2>7. CASE Reserve(l) BY <2>7 DEF Reserve, deliveryVars, ListenersOK
    <2>8. CASE ReserveNothing(l) \/ ReserveFails(l)
        BY <1>1, <2>1, <2>8, TurnsEnd DEF ReserveNothing, ReserveFails, ListenersOK
    <2>9. CASE Reserved(l)
        <3>1. PICK t \in Tokens :
                listeners' = [listeners EXCEPT ![l].at = "reserved", ![l].token = t]
            BY <2>9 DEF Reserved
        <3> DEFINE held == [listeners[l] EXCEPT !.at = "reserved", !.token = t]
        <3>2. held \in Listener /\ held.token \in Tokens
            BY <2>1 DEF Listener, Places
        <3>3. listeners' = [listeners EXCEPT ![l] = held] BY <3>1 DEF ListenersOK
        <3> QED BY <1>1, <3>2, <3>3
    <2>10. CASE Tell(l)
        <3>1. CASE listeners[l].at = "submitting"
            <4>1. listeners' = Goto(l, "launching") BY <2>10, <3>1 DEF Tell, Goto, ListenersOK
            <4> QED BY <2>3, <3>1, <4>1 DEF Holding, Telling, Places
        <3>2. CASE listeners[l].at = "denying" BY <1>1, <2>4, <2>10, <3>2 DEF Tell, ListenersOK
        <3>3. CASE listeners[l].at \notin {"submitting", "denying"}
            BY <1>1, <2>1, <2>10, <3>3, TurnsEnd DEF Tell, ListenersOK
        <3> QED BY <3>1, <3>2, <3>3
    <2>11. CASE Refused(l)
        BY <1>1, <2>1, <2>11, TurnsEnd DEF Refused, ListenersOK
    <2> QED BY <1>2, <2>5, <2>6, <2>7, <2>8, <2>9, <2>10, <2>11 DEF Listen
<1>3. CASE UNCHANGED listeners BY <1>3 DEF ListenersOK
<1>4. CASE Bind
    <2>1. SUFFICES ASSUME NEW l \in Listeners, listeners[l] = Off, listeners' = Goto(l, "waiting")
                   PROVE  ListenersOK'
        BY <1>3, <1>4 DEF Bind
    <2>2. [Off EXCEPT !.at = "waiting"] \in Listener BY DEF Off, Listener, Places
    <2> QED BY <1>1, <2>1, <2>2 DEF Goto, Off, Holding, Telling, ListenersOK
<1>5. CASE BindElsewhere
    BY ZenonT(40),
       <1>5 DEF BindElsewhere, ListenersOK, Listener, Off, Holding, Telling, Places, Calls
<1>6. ASSUME NEW l \in Listeners, LoseAnswer(l) PROVE ListenersOK'
    <2>1. listeners' = [listeners EXCEPT ![l] = Failed(listeners[l], "doubting")]
        BY <1>6 DEF LoseAnswer, ListenersOK
    <2> QED BY <1>1, <2>1, TurnsEnd DEF ListenersOK
<1>7. CASE RestartDaemon
    <2>1. PICK lost \in SUBSET Listeners, doubt \in {"doubting", "denying"} :
            listeners' = [l \in Listeners |->
              IF l \in lost THEN Failed(listeners[l], doubt) ELSE listeners[l]]
        BY <1>7 DEF RestartDaemon
    <2>2. \A l \in Listeners :
            /\ Failed(listeners[l], doubt) \in Listener
            /\ Failed(listeners[l], doubt).at \in Holding =>
                 Failed(listeners[l], doubt).token \in Tokens
        BY TurnsEnd DEF ListenersOK
    <2> QED BY <2>1, <2>2 DEF ListenersOK
<1>8. CASE ExitAdapter
    BY <1>8 DEF ExitAdapter, ListenersOK, Listener, Off, Holding, Telling, Places, Calls
<1> QED BY <1>2, <1>3, <1>4, <1>5, <1>6, <1>7, <1>8
        DEF Next, Hook, Prompt, ToolUse, Stop, Interrupt, Interrupted, PromptElsewhere, Fault,
            NotifyAgent, Read, ReadEnds, AcknowledgeBatch, Sweep, deliveryVars, vars

\* The adapter keeps its type, and what was launched was in a batch.
LEMMA AdapterKept ==
    ASSUME DeliveryInv, [Next]_vars
    PROVE  adapter' \in Adapter /\ launched' \subseteq Versions
<1> USE DEF DeliveryInv, Adapter
<1>1. ASSUME NEW l \in Listeners, Listen(l) PROVE adapter' \in Adapter /\ launched' \subseteq Versions
    <2>1. CASE Launch(l)
        <3>1. listeners[l].token \in Tokens BY <2>1 DEF Launch, ListenersOK, Holding
        <3>2. batches[listeners[l].token].entries \subseteq Versions
            BY <3>1 DEF InboxInv, InboxTypeOK
        <3> QED BY <2>1, <3>2 DEF Launch
    <2>2. CASE ~Launch(l)
        BY <1>1, <2>2 DEF Listen, Look, Leave, Ask, Reserve, ReserveNothing, Reserved,
                          ReserveFails, Check, Exit, Tell, Refused, deliveryVars
    <2> QED BY <2>1, <2>2
<1>2. CASE Hook
    BY <1>2 DEF Hook, Hears, Prompt, ToolUse, Stop, Interrupt, Interrupted, Bind,
                PromptElsewhere, BindElsewhere
<1>3. CASE RestartDaemon
    <2>1. PICK bound \in {adapter.bound, adapter.controller} : Hears(bound, FALSE, adapter.hook)
        BY <1>3 DEF RestartDaemon
    <2>2. bound \in BOOLEAN /\ UNCHANGED launched BY <1>3 DEF RestartDaemon
    <2> QED BY <2>1, <2>2 DEF Hears
<1>4. CASE ExitAdapter BY <1>4 DEF ExitAdapter
<1>5. ASSUME NEW l \in Listeners, LoseAnswer(l) PROVE UNCHANGED <<adapter, launched>>
    BY <1>5 DEF LoseAnswer
<1> QED BY <1>1, <1>2, <1>3, <1>4, <1>5
        DEF Next, Fault, NotifyAgent, Read, ReadEnds, AcknowledgeBatch, Sweep, deliveryVars, vars

\* The invariant from which the rest follows.
THEOREM DeliveryInvariant == Spec => []DeliveryInv
<1>1. Init => InboxInit /\ ListenersOK /\ adapter \in Adapter /\ launched \subseteq Versions
    BY DEF Init, ListenersOK, Listener, Off, Adapter, Holding, Telling, Places
<1>2. Init => DeliveryInv BY <1>1, InboxStarts DEF DeliveryInv
<1>3. DeliveryInv /\ [Next]_vars => DeliveryInv'
    <2> SUFFICES ASSUME DeliveryInv, [Next]_vars PROVE DeliveryInv' OBVIOUS
    <2>1. InboxInv' BY StepsKeepToTheInbox, InboxStays DEF DeliveryInv
    <2>2. ListenersOK' BY ListenersKept
    <2>3. adapter' \in Adapter /\ launched' \subseteq Versions BY AdapterKept
    <2> QED BY <2>1, <2>2, <2>3 DEF DeliveryInv, Adapter, Versions
<1> QED BY <1>2, <1>3, PTL DEF Spec

\* The rows, the adapter and the listeners keep their types (CodexQueue.listen).
THEOREM DeliveryTypeCorrect == Spec => []TypeOK
<1>1. DeliveryInv => TypeOK
    BY DEF DeliveryInv, InboxInv, TypeOK, ListenersOK, Listener, Adapter
<1> QED BY <1>1, DeliveryInvariant, PTL

\* Whatever listeners, hooks, agent and faults do, the inbox behaves as the
\* specification of inboxes says (Inbox, CodexQueue.listen, the hooks).
THEOREM DeliveryImplementsInbox == Spec => InboxSpec
<1>1. Init => InboxInit BY DEF Init
<1>2. DeliveryInv /\ [Next]_vars => [InboxNext]_inboxVars
    BY StepsKeepToTheInbox DEF DeliveryInv
<1> QED BY <1>1, <1>2, DeliveryInvariant, PTL DEF Spec, InboxSpec

\* No event is in two batches, however many listeners there are.
THEOREM SessionsAreToldOnce == Spec => []DeliveredOnce
BY DeliveryImplementsInbox, EventsAreDeliveredOnce, PTL

\* No unread notification is out of reach, though calls get lost.
THEOREM SessionsMissNothing == Spec => []UnreadIsReachable
BY DeliveryImplementsInbox, UnreadStaysReachable, PTL

----------------------------------------------------------------------------
(* Why nothing is launched twice *)

InHand(l) == batches[listeners[l].token].entries

\* No command was started for this batch.
Unlaunched == {"reserved", "releasing", "submitting", "launching"}

\* Listeners have batches of their own.
HeldApart ==
    \A l, m \in Listeners :
        l # m /\ {listeners[l].at, listeners[m].at} \subseteq Holding =>
            listeners[l].token # listeners[m].token /\ InHand(l) \cap InHand(m) = {}

\* A batch is not given back by anyone but the listener that has it, and not
\* captured again before.
HeldAreKept ==
    \A l \in Listeners : listeners[l].at \in Holding =>
        /\ batches[listeners[l].token].status # "released"
        /\ \A k \in captures : k.entries \cap InHand(l) = {}

\* A batch that can still be launched or given back was not launched.
HeldAreNew ==
    \A l \in Listeners :
        /\ listeners[l].at \in Unlaunched => InHand(l) \cap launched = {}
        /\ listeners[l].at = "denying" =>
             \/ InHand(l) \cap launched = {}
             \/ batches[listeners[l].token].status \notin {"reserved", "submitting"}

\* What was launched is acknowledged or in a batch, so not captured again.
LaunchedAreOut ==
    /\ \A k \in captures : k.entries \cap launched = {}
    /\ launched \cap unread \subseteq Presented
    /\ \A n \in launched : n.event <= events

LaunchInv == HeldApart /\ HeldAreKept /\ HeldAreNew /\ LaunchedAreOut

\* A batch in the hands of a listener keeps its entries from being captured.
LEMMA HeldAreOut ==
    ASSUME DeliveryInv, HeldAreKept, NEW l \in Listeners, listeners[l].at \in Holding
    PROVE  InHand(l) \subseteq Presented
<1>1. listeners[l].token \in Tokens BY DEF DeliveryInv, ListenersOK
<1>2. batches[listeners[l].token].status # "released" BY DEF HeldAreKept
<1>3. batches[listeners[l].token].status = "none" => InHand(l) = {}
    BY <1>1 DEF DeliveryInv, InboxInv, Settled, InHand
<1> QED BY <1>1, <1>2, <1>3 DEF Presented, InHand

\* Listeners that go on, and captures that are dropped, disturb nothing.
LEMMA PlacesKeep ==
    ASSUME LaunchInv, UNCHANGED <<unread, events, batches, launched>>,
           \A k \in captures' : \E j \in captures : j.entries = k.entries,
           \A l \in Listeners : listeners'[l].at \in Holding =>
               /\ listeners[l].at \in Holding /\ listeners'[l].token = listeners[l].token
               /\ listeners'[l].at \in Unlaunched => listeners[l].at \in Unlaunched
               /\ listeners'[l].at = "denying" => listeners[l].at \in {"launching", "denying"}
    PROVE  LaunchInv'
<1>1. HeldApart' BY DEF LaunchInv, HeldApart, InHand
<1>2. HeldAreKept' BY DEF LaunchInv, HeldAreKept, InHand
<1>3. HeldAreNew' BY DEF LaunchInv, HeldAreNew, InHand, Unlaunched, Holding, Telling
<1>4. LaunchedAreOut' BY DEF LaunchInv, LaunchedAreOut, Presented
<1> QED BY <1>1, <1>2, <1>3, <1>4 DEF LaunchInv

\* Nor do batches of which all keep their entries, in states that say as much.
LEMMA BatchesKeep ==
    ASSUME DeliveryInv, LaunchInv, UNCHANGED <<listeners, launched, events, captures>>,
           unread' \subseteq unread,
           \A t \in Tokens :
               /\ batches'[t].entries = batches[t].entries
               /\ batches[t].status # "none" => batches'[t].status # "none"
               /\ batches'[t].status = "released" => batches[t].status = "released"
               /\ batches'[t].status \in {"reserved", "submitting"} =>
                    batches[t].status = batches'[t].status
    PROVE  LaunchInv'
<1>1. \A l \in Listeners : listeners[l].at \in Holding => listeners[l].token \in Tokens
    BY DEF DeliveryInv, ListenersOK
<1>2. \A l \in Listeners : listeners[l].at \in Holding => InHand(l)' = InHand(l)
    BY <1>1 DEF InHand
<1>3. HeldApart' BY <1>2 DEF LaunchInv, HeldApart
<1>4. HeldAreKept' BY <1>1, <1>2 DEF LaunchInv, HeldAreKept
<1>5. HeldAreNew'
    <2>1. Unlaunched \cup {"denying"} \subseteq Holding BY DEF Unlaunched, Holding, Telling
    <2> QED BY <1>1, <1>2, <2>1 DEF LaunchInv, HeldAreNew
<1>6. Presented \subseteq Presented' BY DEF Presented
<1>7. LaunchedAreOut' BY <1>6 DEF LaunchInv, LaunchedAreOut
<1> QED BY <1>3, <1>4, <1>5, <1>7 DEF LaunchInv

\* A new batch has only what is neither launched nor in the hands of anyone.
LEMMA CapturesKeep ==
    ASSUME DeliveryInv, LaunchInv, UNCHANGED launched,
           NEW k \in captures, NEW t \in Tokens, EndCapture(k, t),
           \A l \in Listeners : listeners[l].token # t,
           \/ UNCHANGED listeners
           \/ \E l \in Listeners :
                listeners' = [listeners EXCEPT ![l].at = "reserved", ![l].token = t]
    PROVE  LaunchInv'
<1>1. \A l \in Listeners : listeners[l].at \in Holding => listeners[l].token \in Tokens
    BY DEF DeliveryInv, ListenersOK
<1>2. batches'[t].entries = k.entries /\ batches'[t].status \in {"reserved", "presented"}
      /\ batches[t] = NoBatch
    BY DEF EndCapture, Batch, DeliveryInv, InboxInv, InboxTypeOK
<1>3. \A u \in Tokens \ {t} : batches'[u] = batches[u]
    BY DEF EndCapture, DeliveryInv, InboxInv, InboxTypeOK
<1>4. \A l \in Listeners : listeners'[l].at \in Holding =>
         \/ listeners'[l].token = t /\ listeners'[l].at = "reserved"
         \/ listeners'[l] = listeners[l] /\ listeners[l].token \in Tokens \ {t}
    <2>1. ASSUME NEW l \in Listeners,
                 listeners' = [listeners EXCEPT ![l].at = "reserved", ![l].token = t]
          PROVE  /\ listeners'[l].token = t /\ listeners'[l].at = "reserved"
                 /\ \A m \in Listeners \ {l} : listeners'[m] = listeners[m]
        BY <2>1 DEF DeliveryInv, ListenersOK, Listener
    <2>2. CASE UNCHANGED listeners BY <1>1, <2>2
    <2> QED BY <1>1, <2>1, <2>2
<1>5. \A l, m \in Listeners : l # m => listeners'[l].token # t \/ listeners'[m].token # t
    <2>1. ASSUME NEW l \in Listeners,
                 listeners' = [listeners EXCEPT ![l].at = "reserved", ![l].token = t]
          PROVE  \A m \in Listeners \ {l} : listeners'[m].token # t
        BY <2>1 DEF DeliveryInv, ListenersOK
    <2> QED BY <2>1
<1>6. captures' \subseteq captures BY DEF EndCapture
<1>7. \A j \in captures' : j = k BY <1>6 DEF DeliveryInv, InboxInv, Captures
<1>8. captures' = {} BY <1>7 DEF EndCapture
<1>9. Presented \subseteq Presented' BY <1>2, <1>3 DEF Presented, NoBatch, Batch
<1>10. HeldApart' BY <1>2, <1>3, <1>4, <1>5 DEF LaunchInv, HeldApart, HeldAreKept, InHand
<1>11. HeldAreKept' BY <1>2, <1>3, <1>4, <1>8 DEF LaunchInv, HeldAreKept, InHand
<1>12. HeldAreNew'
    <2>1. Unlaunched \cup {"denying"} \subseteq Holding BY DEF Unlaunched, Holding, Telling
    <2>2. k.entries \cap launched = {} BY DEF LaunchInv, LaunchedAreOut
    <2> QED BY <1>2, <1>3, <1>4, <2>1, <2>2 DEF LaunchInv, HeldAreNew, InHand
<1>13. LaunchedAreOut' BY <1>8, <1>9 DEF LaunchInv, LaunchedAreOut, EndCapture
<1> QED BY <1>10, <1>11, <1>12, <1>13 DEF LaunchInv

\* Whatever others do to the rows.
LEMMA RowsKeep ==
    ASSUME DeliveryInv, LaunchInv, UNCHANGED <<listeners, launched>>,
           \/ \E kind \in Kinds : Notify(kind)
           \/ \E c \in Callers, scope \in {"all", "actionable"}, session \in BOOLEAN :
                BeginCapture(c, scope, session)
           \/ \E t \in Tokens : \E entries \in SUBSET batches[t].entries : Acknowledge(t, entries)
           \/ \E t \in Tokens : Discard(t)
           \/ Present
    PROVE  LaunchInv'
<1> USE DEF DeliveryInv, InboxInv, InboxTypeOK
<1>1. ASSUME NEW kind \in Kinds, Notify(kind) PROVE LaunchInv'
    <2>1. events' = events + 1 /\ UNCHANGED <<batches, captures>> BY <1>1 DEF Notify
    <2>2. \A n \in unread' : n \in unread \/ n.event = events + 1 BY <1>1 DEF Notify
    <2>3. LaunchedAreOut'
        BY <2>1, <2>2 DEF LaunchInv, LaunchedAreOut, Presented, Versions
    <2> QED BY <2>1, <2>3 DEF LaunchInv, HeldApart, HeldAreKept, HeldAreNew, InHand
<1>2. ASSUME NEW c \in Callers, NEW scope \in {"all", "actionable"}, NEW session \in BOOLEAN,
             BeginCapture(c, scope, session)
      PROVE  LaunchInv'
    <2>1. PICK entries \in Pages(Available(scope)) :
            captures' = captures \cup {[by |-> c, session |-> session, entries |-> entries]}
        BY <1>2 DEF BeginCapture
    <2>2. entries \subseteq unread /\ entries \cap Presented = {} BY <2>1 DEF Pages, Available
    <2>3. entries \cap launched = {} BY <2>2 DEF LaunchInv, LaunchedAreOut
    <2>4. \A l \in Listeners : listeners[l].at \in Holding => entries \cap InHand(l) = {}
        BY <2>2, HeldAreOut DEF LaunchInv
    <2>5. \A k \in captures' : k \in captures \/ k.entries = entries BY <2>1
    <2>6. UNCHANGED <<unread, events, batches>> BY <1>2 DEF BeginCapture
    <2>7. HeldAreKept' BY <2>4, <2>5, <2>6 DEF LaunchInv, HeldAreKept, InHand
    <2>8. LaunchedAreOut' BY <2>3, <2>5, <2>6 DEF LaunchInv, LaunchedAreOut, Presented
    <2> QED BY <2>6, <2>7, <2>8 DEF LaunchInv, HeldApart, HeldAreNew, InHand
<1>3. ASSUME NEW t \in Tokens, NEW entries \in SUBSET batches[t].entries, Acknowledge(t, entries)
      PROVE  LaunchInv'
    <2>1. batches'[t].entries = batches[t].entries /\ batches[t].status # "none"
          /\ batches'[t].status \in {batches[t].status, "handled"}
        BY <1>3 DEF Acknowledge
    <2>2. \A u \in Tokens \ {t} : batches'[u] = batches[u] BY <1>3 DEF Acknowledge
    <2>3. unread' \subseteq unread /\ UNCHANGED <<events, captures>> BY <1>3 DEF Acknowledge
    <2> QED BY <2>1, <2>2, <2>3, BatchesKeep
<1>4. ASSUME NEW t \in Tokens, Discard(t) PROVE LaunchInv'
    <2>1. batches'[t] = NoBatch /\ UNCHANGED <<unread, events, captures>>
          /\ \A u \in Tokens \ {t} : batches'[u] = batches[u]
        BY <1>4 DEF Discard
    <2>2. \A l \in Listeners : listeners[l].at \in Holding => listeners[l].token \in Tokens
        BY DEF ListenersOK
    <2>3. \A l \in Listeners : listeners[l].at \in Holding => InHand(l)' \subseteq InHand(l)
        BY <2>1, <2>2 DEF InHand, NoBatch, Batch
    <2>4. \A u \in Tokens : batches'[u].status \in {batches[u].status, "none"}
        BY <2>1 DEF NoBatch, Batch
    <2>5. Unlaunched \cup {"denying"} \subseteq Holding BY DEF Unlaunched, Holding, Telling
    <2>6. HeldApart' BY <2>3 DEF LaunchInv, HeldApart
    <2>7. HeldAreKept' BY <2>1, <2>2, <2>3, <2>4 DEF LaunchInv, HeldAreKept
    <2>8. HeldAreNew' BY <2>2, <2>3, <2>4, <2>5 DEF LaunchInv, HeldAreNew
    <2>9. batches[t].entries \cap unread = {} \/ batches[t].status = "released"
        BY <1>4 DEF Discard, Settled
    <2>10. Presented \cap unread \subseteq Presented' BY <2>1, <2>9 DEF Presented
    <2>11. LaunchedAreOut' BY <2>1, <2>10 DEF LaunchInv, LaunchedAreOut
    <2> QED BY <2>6, <2>7, <2>8, <2>11 DEF LaunchInv
<1>5. CASE Present
    <2>1. \A t \in Tokens :
            /\ batches'[t].entries = batches[t].entries
            /\ batches'[t].status # batches[t].status =>
                 batches[t].status \in {"accepted", "uncertain"} /\ batches'[t].status = "presented"
        BY <1>5 DEF Present
    <2>2. UNCHANGED <<unread, events, captures>> BY <1>5 DEF Present
    <2> QED BY <2>1, <2>2, BatchesKeep
<1> QED BY <1>1, <1>2, <1>3, <1>4, <1>5

\* Every step of a listener.
LEMMA ListenersLaunchOnce ==
    ASSUME DeliveryInv, LaunchInv, NEW l \in Listeners, Listen(l)
    PROVE  LaunchInv'
<1> DEFINE token == listeners[l].token
<1>1. listeners[l] \in Listener /\ (listeners[l].at \in Holding => token \in Tokens)
    BY DEF DeliveryInv, ListenersOK
<1>2. \A m \in Listeners : listeners[m].at \in Holding => listeners[m].token \in Tokens
    BY DEF DeliveryInv, ListenersOK
<1>3. \A m \in Listeners \ {l} : listeners'[m] = listeners[m]
    BY DEF DeliveryInv, ListenersOK, Listen, Look, Leave, Ask, Reserve, ReserveNothing, Reserved,
           ReserveFails, Check, Launch, Exit, Tell, Refused, Goto, deliveryVars
<1>4. Again(listeners[l]).at \notin Holding BY <1>1, TurnsEnd
<1>5. CASE Look(l) \/ Leave(l) \/ Ask(l) \/ ReserveNothing(l) \/ ReserveFails(l) \/ Check(l)
           \/ Exit(l) \/ Refused(l)
    <2>1. UNCHANGED <<unread, events, batches, launched>>
        BY <1>5 DEF Look, Leave, Ask, ReserveNothing, ReserveFails, Check, Exit, Refused,
                    FailCapture, inboxVars
    <2>2. captures' \subseteq captures
        BY <1>5 DEF Look, Leave, Ask, ReserveNothing, ReserveFails, Check, Exit, Refused,
                    FailCapture, inboxVars
    <2>3. listeners'[l].at \in Holding =>
            /\ listeners[l].at \in Holding /\ listeners'[l].token = token
            /\ listeners'[l].at \in Unlaunched => listeners[l].at \in Unlaunched
            /\ listeners'[l].at = "denying" => listeners[l].at \in {"launching", "denying"}
        <3>1. CASE Look(l) \/ Leave(l) \/ Ask(l)
            BY <3>1 DEF Look, Leave, Ask, Goto, Off, Holding, Telling, DeliveryInv, ListenersOK,
                        Listener
        <3>2. CASE ReserveNothing(l) \/ ReserveFails(l)
            BY <1>4, <3>2 DEF ReserveNothing, ReserveFails, DeliveryInv, ListenersOK
        <3>3. CASE Check(l) \/ Exit(l)
            BY <1>1, <3>3 DEF Check, Exit, Goto, Holding, Telling, Unlaunched, Listener,
                              DeliveryInv, ListenersOK
        <3>4. CASE Refused(l)
            <4>1. listeners[l].at \in Holding /\ listeners'[l] = Failed(listeners[l], "doubting")
                BY <3>4 DEF Refused, DeliveryInv, ListenersOK, Holding
            <4>2. CASE listeners[l].at = "accepting"
                BY <1>1, <4>1, <4>2 DEF Failed, Listener, Unlaunched
            <4>3. CASE listeners[l].at # "accepting" BY <1>4, <4>1, <4>3 DEF Failed
            <4> QED BY <4>2, <4>3
        <3> QED BY <1>5, <3>1, <3>2, <3>3, <3>4
    <2> QED BY <1>3, <2>1, <2>2, <2>3, PlacesKeep
<1>6. CASE Reserve(l)
    <2>1. l \in Callers BY CallersAssumption
    <2> QED BY <1>6, <2>1, RowsKeep DEF Reserve, deliveryVars
<1>7. CASE Reserved(l)
    BY <1>7, CapturesKeep DEF Reserved
<1>8. CASE Launch(l) /\ listeners' = Goto(l, "running")
                     /\ launched' = launched \cup batches[token].entries
    <2>1. listeners[l].at = "launching" /\ listeners'[l].at = "running"
          /\ listeners'[l].token = token /\ token \in Tokens /\ UNCHANGED inboxVars
        BY <1>1, <1>8 DEF Launch, Goto, Holding, DeliveryInv, ListenersOK, Listener
    <2>2. listeners[l].at \in Holding BY <2>1 DEF Holding
    <2>3. \A m \in Listeners : listeners'[m].at \in Holding =>
            listeners[m].at \in Holding /\ listeners'[m].token = listeners[m].token
        BY <1>3, <2>1, <2>2
    <2>4. HeldApart' BY <2>1, <2>3 DEF LaunchInv, HeldApart, InHand, inboxVars
    <2>5. HeldAreKept' BY <2>1, <2>3 DEF LaunchInv, HeldAreKept, InHand, inboxVars
    <2>6. HeldAreNew'
        <3>1. \A m \in Listeners \ {l} :
                listeners[m].at \in Holding => InHand(m) \cap batches[token].entries = {}
            BY <2>2 DEF LaunchInv, HeldApart, InHand
        <3>2. Unlaunched \cup {"denying"} \subseteq Holding BY DEF Unlaunched, Holding, Telling
        <3>3. "running" \notin Unlaunched \cup {"denying"} BY DEF Unlaunched
        <3> QED BY <1>3, <1>8, <2>1, <3>1, <3>2, <3>3 DEF LaunchInv, HeldAreNew, InHand, inboxVars
    <2>7. LaunchedAreOut'
        <3>1. \A k \in captures : k.entries \cap batches[token].entries = {}
            BY <2>2 DEF LaunchInv, HeldAreKept, InHand
        <3>2. batches[token].entries \subseteq Presented
            BY <2>2, HeldAreOut DEF LaunchInv, InHand
        <3>3. \A n \in batches[token].entries : n.event <= events
            BY <2>1 DEF DeliveryInv, InboxInv, Numbered
        <3> QED BY <1>8, <2>1, <3>1, <3>2, <3>3 DEF LaunchInv, LaunchedAreOut, Presented, inboxVars
    <2> QED BY <2>4, <2>5, <2>6, <2>7 DEF LaunchInv
<1>9. CASE Launch(l) /\ UNCHANGED launched
    <2>1. listeners[l].at = "launching" /\ listeners'[l].at \in {"doubting", "denying", "running"}
          /\ listeners'[l].token = token /\ UNCHANGED inboxVars
        BY <1>1, <1>9 DEF Launch, Goto, DeliveryInv, ListenersOK, Listener
    <2>2. listeners[l].at \in Holding /\ listeners'[l].at \notin Unlaunched
        BY <2>1 DEF Holding, Unlaunched
    <2> QED BY <1>3, <1>9, <2>1, <2>2, PlacesKeep DEF inboxVars
<1>10. CASE Tell(l)
    <2> DEFINE place == listeners[l].at
    <2>1. place \in Telling /\ place \in Holding /\ token \in Tokens
        BY <1>1, <1>10 DEF Tell, Holding
    <2>2. MayBecome(token, Wanted(place)) /\ UNCHANGED <<unread, events, captures, launched>>
        BY <1>10 DEF Tell, Transition
    <2>3. batches'[token].entries = batches[token].entries
          /\ batches'[token].status = IF batches[token].status = "handled" THEN "handled"
                                      ELSE Wanted(place)
        BY <1>10, <2>1 DEF Tell, Transition, DeliveryInv, InboxInv, InboxTypeOK
    <2>4. \A t \in Tokens \ {token} : batches'[t] = batches[t]
        BY <1>10, <2>1 DEF Tell, Transition, DeliveryInv, InboxInv, InboxTypeOK
    <2>5. listeners'[l].at \in Holding =>
            place = "submitting" /\ listeners'[l].at = "launching" /\ listeners'[l].token = token
        <3>1. listeners'[l] = CASE place = "submitting" -> [listeners[l] EXCEPT !.at = "launching"]
                                [] place = "denying" -> Off
                                [] OTHER -> Again(listeners[l])
            BY <1>10 DEF Tell, DeliveryInv, ListenersOK
        <3>2. Off.at \notin Holding /\ Again(listeners[l]).at \notin Holding
            BY <1>1, TurnsEnd DEF Off, Holding, Telling
        <3> QED BY <1>1, <3>1, <3>2 DEF Listener
    <2>6. \A m \in Listeners \ {l} : listeners[m].at \in Holding =>
            listeners[m].token \in Tokens \ {token}
        BY <1>2, <2>1 DEF LaunchInv, HeldApart
    <2>7. HeldApart'
        <3>1. \A m \in Listeners : listeners'[m].at \in Holding =>
                /\ listeners[m].at \in Holding
                /\ listeners'[m].token = listeners[m].token
                /\ InHand(m)' = InHand(m)
            BY <1>3, <2>1, <2>3, <2>4, <2>5, <2>6 DEF InHand
        <3> QED BY <3>1 DEF LaunchInv, HeldApart
    <2>8. HeldAreKept'
        <3>1. place = "submitting" => Wanted(place) = "submitting" BY DEF Wanted
        <3> QED BY <1>3, <2>1, <2>2, <2>3, <2>4, <2>5, <2>6, <3>1
                DEF LaunchInv, HeldAreKept, InHand
    <2>9. HeldAreNew'
        <3>1. Unlaunched \cup {"denying"} \subseteq Holding BY DEF Unlaunched, Holding, Telling
        <3>2. "submitting" \in Unlaunched BY DEF Unlaunched
        <3> QED BY <1>3, <2>2, <2>3, <2>4, <2>5, <2>6, <3>1, <3>2
                DEF LaunchInv, HeldAreNew, InHand
    <2>10. LaunchedAreOut'
        <3>1. CASE batches'[token].status # "released"
            <4>1. batches'[token].status # "none"
                BY <2>1, <2>3 DEF Wanted, Telling
            <4>2. Presented \subseteq Presented' BY <2>1, <2>3, <2>4, <3>1, <4>1 DEF Presented
            <4> QED BY <2>2, <4>2 DEF LaunchInv, LaunchedAreOut
        <3>2. CASE batches'[token].status = "released"
            <4>1. place \in {"releasing", "denying"} /\ batches[token].status # "handled"
                BY <2>1, <2>3, <3>2 DEF Wanted, Telling
            <4>2. Wanted(place) = "released" BY <4>1 DEF Wanted
            <4>3. batches[token].status # "released" BY <2>1 DEF LaunchInv, HeldAreKept
            <4>4. batches[token].status \in {"reserved", "submitting"}
                BY <2>2, <4>1, <4>2, <4>3 DEF MayBecome, Successors
            <4>5. InHand(l) \cap launched = {}
                BY <4>1, <4>4 DEF LaunchInv, HeldAreNew, Unlaunched
            <4>6. Presented \subseteq Presented' \cup InHand(l)
                BY <2>1, <2>4 DEF Presented, InHand
            <4> QED BY <2>2, <4>5, <4>6 DEF LaunchInv, LaunchedAreOut
        <3> QED BY <3>1, <3>2
    <2> QED BY <2>7, <2>8, <2>9, <2>10 DEF LaunchInv
<1> QED BY <1>5, <1>6, <1>7, <1>8, <1>9, <1>10 DEF Listen, Launch

\* A new daemon makes what was being submitted uncertain, so that it is not
\* given back, whatever a listener makes of the failure of its report.
LEMMA RestartsLaunchOnce ==
    ASSUME DeliveryInv, LaunchInv, RestartDaemon
    PROVE  LaunchInv'
<1>1. PICK lost \in SUBSET Listeners, doubt \in {"doubting", "denying"} :
        listeners' = [l \in Listeners |->
          IF l \in lost THEN Failed(listeners[l], doubt) ELSE listeners[l]]
    BY DEF RestartDaemon
<1>2. captures' = {} /\ UNCHANGED <<unread, events, launched>> BY DEF RestartDaemon, Restart
<1>3. \A t \in Tokens :
        /\ batches'[t].entries = batches[t].entries
        /\ batches'[t].status = IF batches[t].status \in {"reserved", "submitting"}
                                THEN "uncertain" ELSE batches[t].status
    BY DEF RestartDaemon, Restart, DeliveryInv, InboxInv, InboxTypeOK
<1>4. \A l \in Listeners : listeners[l].at \in Holding => listeners[l].token \in Tokens
    BY DEF DeliveryInv, ListenersOK
<1>5. \A l \in Listeners : listeners'[l].at \in Holding =>
        /\ listeners[l].at \in Holding /\ listeners'[l].token = listeners[l].token
        /\ listeners'[l].at \in Unlaunched => listeners[l].at \in Unlaunched
    <2> SUFFICES ASSUME NEW l \in Listeners, listeners'[l].at \in Holding
                 PROVE  /\ listeners[l].at \in Holding /\ listeners'[l].token = listeners[l].token
                        /\ listeners'[l].at \in Unlaunched => listeners[l].at \in Unlaunched
        OBVIOUS
    <2>1. listeners[l] \in Listener /\ (listeners[l].at \in Holding => listeners[l].token \in Tokens)
        BY DEF DeliveryInv, ListenersOK
    <2>2. Again(listeners[l]).at \notin Holding BY <2>1, TurnsEnd
    <2>3. CASE l \notin lost BY <1>1, <2>3
    <2>4. CASE l \in lost /\ listeners[l].at = "accepting"
        BY <1>1, <2>1, <2>4 DEF Failed, Listener, Unlaunched, Holding, Telling
    <2>5. CASE l \in lost /\ listeners[l].at # "accepting" BY <1>1, <2>2, <2>5 DEF Failed
    <2> QED BY <2>3, <2>4, <2>5
<1>6. \A l \in Listeners : listeners'[l].at \in Holding =>
        /\ InHand(l)' = InHand(l)
        /\ listeners'[l].token \in Tokens
        /\ batches'[listeners'[l].token].status \notin {"reserved", "submitting"}
    BY <1>3, <1>4, <1>5 DEF InHand
<1>7. HeldApart' BY <1>5, <1>6 DEF LaunchInv, HeldApart
<1>8. HeldAreKept' BY <1>2, <1>3, <1>4, <1>5 DEF LaunchInv, HeldAreKept
<1>9. HeldAreNew'
    <2>1. Unlaunched \cup {"denying"} \subseteq Holding BY DEF Unlaunched, Holding, Telling
    <2> QED BY <1>2, <1>5, <1>6, <2>1 DEF LaunchInv, HeldAreNew
<1>10. Presented \subseteq Presented' BY <1>3 DEF Presented
<1>11. LaunchedAreOut' BY <1>2, <1>10 DEF LaunchInv, LaunchedAreOut
<1> QED BY <1>7, <1>8, <1>9, <1>11 DEF LaunchInv

\* Every step of everybody.
LEMMA StepsLaunchOnce ==
    ASSUME DeliveryInv, LaunchInv, [Next]_vars
    PROVE  LaunchInv'
<1>1. CASE \E l \in Listeners : Listen(l) BY <1>1, ListenersLaunchOnce
<1>2. CASE Prompt \/ ToolUse BY <1>2, RowsKeep DEF Prompt, ToolUse
<1>3. CASE \/ Stop \/ Interrupt \/ Interrupted \/ PromptElsewhere \/ UNCHANGED vars
    BY <1>3, PlacesKeep
       DEF Stop, Interrupt, Interrupted, PromptElsewhere, inboxVars, vars
<1>4. CASE Bind
    <2>1. UNCHANGED <<unread, events, batches, captures, launched>> BY <1>4 DEF Bind, inboxVars
    <2>2. \A l \in Listeners : listeners'[l].at \in Holding => listeners'[l] = listeners[l]
        <3>1. ASSUME NEW l \in Listeners, listeners' = Goto(l, "waiting")
              PROVE  listeners'[l].at \notin Holding
                     /\ \A m \in Listeners \ {l} : listeners'[m] = listeners[m]
            BY <3>1 DEF Goto, Holding, Telling, DeliveryInv, ListenersOK, Listener
        <3> QED BY <1>4, <3>1 DEF Bind
    <2> QED BY <2>1, <2>2, PlacesKeep
<1>5. CASE BindElsewhere
    <2>1. UNCHANGED <<unread, events, batches, captures, launched>>
        BY <1>5 DEF BindElsewhere, inboxVars
    <2>2. \A l \in Listeners :
            listeners'[l].at = listeners[l].at /\ listeners'[l].token = listeners[l].token
        BY <1>5 DEF BindElsewhere, DeliveryInv, ListenersOK, Listener
    <2> QED BY <2>1, <2>2, PlacesKeep
<1>6. CASE NotifyAgent \/ Read \/ AcknowledgeBatch \/ Sweep
    <2>1. UNCHANGED <<listeners, launched>> /\ Agent \in Callers
        BY <1>6, CallersAssumption DEF NotifyAgent, Read, AcknowledgeBatch, Sweep, deliveryVars
    <2> QED BY <1>6, <2>1, RowsKeep DEF NotifyAgent, Read, AcknowledgeBatch, Sweep
<1>7. CASE ReadEnds
    <2>1. PICK k \in captures :
            \/ FailCapture(k)
            \/ \E t \in Tokens : (\A l \in Listeners : listeners[l].token # t) /\ EndCapture(k, t)
        BY <1>7 DEF ReadEnds
    <2>2. UNCHANGED <<listeners, launched>> BY <1>7 DEF ReadEnds, deliveryVars
    <2>3. CASE FailCapture(k) BY <2>2, <2>3, PlacesKeep DEF FailCapture
    <2> QED BY <2>1, <2>2, <2>3, CapturesKeep
<1>8. CASE RestartDaemon BY <1>8, RestartsLaunchOnce
<1>9. CASE ExitAdapter
    <2>1. UNCHANGED <<unread, events, batches, launched>> BY <1>9 DEF ExitAdapter, Forsake
    <2>2. \A k \in captures' : \E j \in captures : j.entries = k.entries
        BY <1>9 DEF ExitAdapter, Forsake, DeliveryInv, InboxInv, InboxTypeOK
    <2>3. \A l \in Listeners : listeners'[l].at \notin Holding
        BY <1>9 DEF ExitAdapter, Off, Holding, Telling
    <2> QED BY <2>1, <2>2, <2>3, PlacesKeep
<1>10. ASSUME NEW l \in Listeners, LoseAnswer(l) PROVE LaunchInv'
    <2>1. UNCHANGED <<unread, events, batches, launched>> BY <1>10 DEF LoseAnswer, Forsake
    <2>2. \A k \in captures' : \E j \in captures : j.entries = k.entries
        BY <1>10 DEF LoseAnswer, Forsake, DeliveryInv, InboxInv, InboxTypeOK
    <2>3. listeners[l] \in Listener /\ (listeners[l].at \in Holding => listeners[l].token \in Tokens)
        BY DEF DeliveryInv, ListenersOK
    <2>4. listeners'[l] = Failed(listeners[l], "doubting")
          /\ \A m \in Listeners \ {l} : listeners'[m] = listeners[m]
        BY <1>10 DEF LoseAnswer, DeliveryInv, ListenersOK
    <2>5. Again(listeners[l]).at \notin Holding BY <2>3, TurnsEnd
    <2>6. CASE listeners[l].at = "accepting"
        BY <2>1, <2>2, <2>3, <2>4, <2>6, PlacesKeep
           DEF Failed, Listener, Unlaunched, Holding, Telling
    <2>7. CASE listeners[l].at # "accepting"
        BY <2>1, <2>2, <2>4, <2>5, <2>7, PlacesKeep DEF Failed
    <2> QED BY <2>6, <2>7
<1> QED BY <1>1, <1>2, <1>3, <1>4, <1>5, <1>6, <1>7, <1>8, <1>9, <1>10 DEF Next, Hook, Fault

\* No event is put into the queue of a host twice, whatever gets lost and
\* however many listeners overlap (CodexQueue.listen).
THEOREM EventsAreLaunchedOnce == Spec => LaunchedOnce
<1> DEFINE Once ==
      \A l \in Listeners :
         listeners[l].at = "launching" /\ listeners'[l].at = "running" =>
            batches[listeners[l].token].entries \cap launched = {}
<1>1. Init => LaunchInv
    BY DEF Init, InboxInit, Off, LaunchInv, HeldApart, HeldAreKept, HeldAreNew, LaunchedAreOut,
           Holding, Telling, Unlaunched
<1>2. DeliveryInv /\ LaunchInv /\ [Next]_vars => LaunchInv' BY StepsLaunchOnce
<1>3. LaunchInv => Once BY DEF LaunchInv, HeldAreNew, Unlaunched, InHand
<1>4. LaunchInv /\ [Next]_vars => [Once]_vars BY <1>3
<1> QED BY <1>1, <1>2, <1>4, DeliveryInvariant, PTL DEF Spec, LaunchedOnce

----------------------------------------------------------------------------
(* Why only faults leave a reservation alone *)

\* What a listener has asked for it still waits for.
CapturesAreAwaited ==
    \A k \in captures : k.by \in Listeners => listeners[k.by].at = "reserving"

\* Captures take turns, so the end of one leaves none.
LEMMA CapturesEnd ==
    ASSUME Captures, NEW k \in captures, FailCapture(k) \/ \E t \in Tokens : EndCapture(k, t)
    PROVE  captures' = {}
BY DEF Captures, FailCapture, EndCapture

\* One listener moves and was not waiting for a capture, others stay.
LEMMA MovesAreAwaited ==
    ASSUME CapturesAreAwaited, NEW l \in Listeners, UNCHANGED captures,
           \A k \in captures : k.by # l,
           \A m \in Listeners : m # l => listeners'[m].at = listeners[m].at
    PROVE  CapturesAreAwaited'
BY DEF CapturesAreAwaited

LEMMA ListenersAwait ==
    ASSUME DeliveryInv, CapturesAreAwaited, NEW l \in Listeners, Listen(l)
    PROVE  CapturesAreAwaited'
<1>1. listeners \in [Listeners -> Listener] /\ Captures
    BY DEF DeliveryInv, ListenersOK, InboxInv
<1>2. CASE Reserve(l)
    <2>1. PICK entries :
            captures' = captures \cup {[by |-> l, session |-> TRUE, entries |-> entries]}
        BY <1>2 DEF Reserve, BeginCapture
    <2>2. UNCHANGED listeners /\ listeners[l].at = "reserving"
        BY <1>2 DEF Reserve, deliveryVars
    <2> QED BY <2>1, <2>2 DEF CapturesAreAwaited
<1>3. CASE Reserved(l) \/ ReserveFails(l)
    <2>1. captures' = {} BY <1>1, <1>3, CapturesEnd DEF Reserved, ReserveFails
    <2> QED BY <2>1 DEF CapturesAreAwaited
<1>4. CASE \/ Look(l) \/ Leave(l) \/ Ask(l) \/ ReserveNothing(l) \/ Check(l) \/ Launch(l)
           \/ Exit(l) \/ Tell(l) \/ Refused(l)
    <2>1. UNCHANGED captures /\ \E next : listeners' = [listeners EXCEPT ![l] = next]
        BY <1>4 DEF Look, Leave, Ask, ReserveNothing, Check, Launch, Exit, Tell, Refused, Goto,
                    Transition, inboxVars
    <2>2. \A k \in captures : k.by # l
        BY <1>4 DEF Look, Leave, Ask, ReserveNothing, Check, Launch, Exit, Tell, Refused,
                    Telling, CapturesAreAwaited
    <2>3. \A m \in Listeners : m # l => listeners'[m] = listeners[m] BY <1>1, <2>1
    <2> QED BY <2>1, <2>2, <2>3, MovesAreAwaited
<1> QED BY <1>2, <1>3, <1>4 DEF Listen

\* What is asked for is awaited, whatever goes wrong.
LEMMA StepsAwait ==
    ASSUME DeliveryInv, CapturesAreAwaited, [Next]_vars
    PROVE  CapturesAreAwaited'
<1>1. /\ listeners \in [Listeners -> Listener] /\ Captures /\ Agent \notin Listeners
    BY CallersAssumption DEF DeliveryInv, ListenersOK, InboxInv
<1>2. ASSUME NEW l \in Listeners, Listen(l) PROVE CapturesAreAwaited'
    BY <1>2, ListenersAwait
<1>3. CASE Hook
    <2>1. UNCHANGED captures
        BY <1>3 DEF Hook, Prompt, ToolUse, Stop, Interrupt, Interrupted, Bind, PromptElsewhere,
                    BindElsewhere, Present, inboxVars
    <2>2. CASE UNCHANGED listeners BY <2>1, <2>2 DEF CapturesAreAwaited
    <2>3. ASSUME NEW l \in Listeners, \A k \in captures : k.by # l,
                 listeners' = Goto(l, "waiting")
          PROVE  CapturesAreAwaited'
        <3>1. \A m \in Listeners : m # l => listeners'[m] = listeners[m] BY <1>1, <2>3 DEF Goto
        <3> QED BY <2>1, <2>3, <3>1, MovesAreAwaited
    <2>4. CASE BindElsewhere
        <3>1. \A m \in Listeners : listeners'[m].at = listeners[m].at
            BY <1>1, <2>4 DEF BindElsewhere, Off, Listener
        <3> QED BY <2>1, <3>1 DEF CapturesAreAwaited
    <2> QED BY <1>3, <2>2, <2>3, <2>4
            DEF Hook, Prompt, ToolUse, Stop, Interrupt, Interrupted, Bind, PromptElsewhere
<1>4. CASE NotifyAgent \/ AcknowledgeBatch \/ Sweep
    BY <1>4 DEF NotifyAgent, Notify, AcknowledgeBatch, Acknowledge, Sweep, Discard, deliveryVars,
                CapturesAreAwaited
<1>5. CASE Read
    <2>1. PICK entries :
            captures' = captures \cup {[by |-> Agent, session |-> FALSE, entries |-> entries]}
        BY <1>5 DEF Read, BeginCapture
    <2>2. UNCHANGED listeners BY <1>5 DEF Read, deliveryVars
    <2> QED BY <1>1, <2>1, <2>2 DEF CapturesAreAwaited
<1>6. CASE ReadEnds \/ RestartDaemon
    <2>1. captures' = {} BY <1>1, <1>6, CapturesEnd DEF ReadEnds, RestartDaemon, Restart
    <2> QED BY <2>1 DEF CapturesAreAwaited
<1>7. CASE ExitAdapter
    <2>1. \A k \in captures' : k.by \notin Listeners
        <3> SUFFICES ASSUME NEW k \in captures PROVE
                [k EXCEPT !.by = IF @ \in Listeners THEN Agent ELSE @].by \notin Listeners
            BY <1>7 DEF ExitAdapter, Forsake
        <3>1. k \in [by : Callers, session : BOOLEAN, entries : SUBSET Versions]
            BY DEF DeliveryInv, InboxInv, InboxTypeOK
        <3> QED BY <1>1, <3>1
    <2> QED BY <2>1 DEF CapturesAreAwaited
<1>8. ASSUME NEW l \in Listeners, LoseAnswer(l) PROVE CapturesAreAwaited'
    <2>1. captures' = {[k EXCEPT !.by = IF @ \in {l} THEN Agent ELSE @] : k \in captures}
          /\ listeners' = [listeners EXCEPT ![l] = Failed(@, "doubting")]
        BY <1>8 DEF LoseAnswer, Forsake
    <2>2. \A m \in Listeners : m # l => listeners'[m] = listeners[m] BY <1>1, <2>1
    <2> SUFFICES ASSUME NEW j \in captures', j.by \in Listeners
                 PROVE  listeners'[j.by].at = "reserving"
        BY DEF CapturesAreAwaited
    <2>3. PICK k \in captures : j = [k EXCEPT !.by = IF @ \in {l} THEN Agent ELSE @] BY <2>1
    <2>4. k \in [by : Callers, session : BOOLEAN, entries : SUBSET Versions]
        BY DEF DeliveryInv, InboxInv, InboxTypeOK
    <2>5. k.by # l /\ j.by = k.by BY <1>1, <2>3, <2>4
    <2> QED BY <2>2, <2>5 DEF CapturesAreAwaited
<1>9. CASE UNCHANGED vars BY <1>9 DEF vars, CapturesAreAwaited
<1> QED BY <1>2, <1>3, <1>4, <1>5, <1>6, <1>7, <1>8, <1>9 DEF Next, Fault

\* A batch is tended as long as it stays as it is and its listener where it is.
LEMMA StaysTended ==
    ASSUME NEW t \in Tokens, Tended(t),
           batches'[t].status \in {"reserved", "submitting"} =>
               batches'[t].status = batches[t].status,
           \A l \in Listeners : Settles(l, t) => Settles(l, t)'
    PROVE  Tended(t)'
BY DEF Tended

\* One listener moves, and no batch changes.
LEMMA MoverTends ==
    ASSUME NEW t \in Tokens, Tended(t), NEW l \in Listeners, NEW next,
           listeners \in [Listeners -> Listener], listeners' = [listeners EXCEPT ![l] = next],
           UNCHANGED batches, Settles(l, t) => Settles(l, t)'
    PROVE  Tended(t)'
<1>1. \A m \in Listeners : m # l => listeners'[m] = listeners[m] OBVIOUS
<1>2. \A m \in Listeners : Settles(m, t) => Settles(m, t)' BY <1>1 DEF Settles
<1> QED BY <1>2, StaysTended

\* Who speaks of a batch that it settles is not refused by a daemon that takes
\* it to be of this session.
LEMMA SettlersAreHeard ==
    ASSUME NEW l \in Listeners, NEW t \in Tokens, adapter.bound, listeners[l].at \in Telling,
           Settles(l, t)
    PROVE  Granted(l)
BY DEF Settles, Granted, MayBecome, Wanted, Successors, Telling

LEMMA ListenersTend ==
    ASSUME DeliveryInv, CapturesAreAwaited, NEW l \in Listeners, Listen(l),
           NEW t \in Tokens, Tended(t)
    PROVE  Tended(t)' \/ Strands(t)
<1>1. /\ listeners \in [Listeners -> Listener] /\ listeners[l] \in Listener
      /\ batches \in [Tokens -> [status : Statuses, session : BOOLEAN, entries : SUBSET Versions,
                                 acknowledged : SUBSET Versions]]
    BY DEF DeliveryInv, ListenersOK, InboxInv, InboxTypeOK
<1> DEFINE place(at) == [listeners[l] EXCEPT !.at = at]
<1>2. \A at \in Places : place(at).at = at /\ place(at).token = listeners[l].token
    BY <1>1 DEF Listener
<1>3. ASSUME NEW at \in Places, listeners' = Goto(l, at), UNCHANGED inboxVars,
             ~Settles(l, t) \/ [from |-> listeners[l].at, to |-> at] \in
                 [from : {"reserved"}, to : {"releasing", "submitting"}]
                 \cup [from : {"launching"}, to : {"running", "doubting", "denying"}]
                 \cup [from : {"running"}, to : {"accepting", "doubting"}]
      PROVE  Tended(t)'
    <2>1. listeners' = [listeners EXCEPT ![l] = place(at)] BY <1>3 DEF Goto
    <2>2. listeners'[l] = place(at) BY <1>1, <2>1
    <2>3. UNCHANGED batches BY <1>3 DEF inboxVars
    <2>4. Settles(l, t) => Settles(l, t)'
        <3> HIDE DEF place
        <3> QED BY <1>2, <1>3, <2>2, <2>3 DEF Settles
    <2> HIDE DEF place
    <2> QED BY <1>1, <2>1, <2>3, <2>4, MoverTends
<1>4. CASE Look(l) \/ Ask(l)
    <2>1. \E at \in {"ready", "waiting", "reserving"} : at \in Places /\ listeners' = Goto(l, at)
        BY <1>4 DEF Look, Ask, Places, Calls
    <2>2. UNCHANGED inboxVars /\ ~Settles(l, t) BY <1>4 DEF Look, Ask, Settles
    <2> QED BY <1>3, <2>1, <2>2
<1>5. CASE Leave(l) \/ ReserveNothing(l) \/ Reserve(l)
    <2>1. ~Settles(l, t) /\ UNCHANGED batches
        BY <1>5 DEF Leave, ReserveNothing, Reserve, BeginCapture, Settles, inboxVars
    <2>2. UNCHANGED listeners \/ \E next : listeners' = [listeners EXCEPT ![l] = next]
        BY <1>5 DEF Leave, ReserveNothing, Reserve, deliveryVars
    <2>3. CASE UNCHANGED listeners BY <2>1, <2>3, StaysTended DEF Settles
    <2> QED BY <1>1, <2>1, <2>2, <2>3, MoverTends
<1>6. CASE Check(l)
    <2>1. PICK at \in {"releasing", "submitting"} : listeners' = Goto(l, at)
        BY <1>6 DEF Check
    <2>2. UNCHANGED inboxVars /\ listeners[l].at = "reserved" /\ at \in Places
        BY <1>6 DEF Check, Places, Calls
    <2> QED BY <1>3, <2>1, <2>2
<1>7. CASE Launch(l)
    <2>1. PICK at \in {"running", "doubting", "denying"} : listeners' = Goto(l, at)
        BY <1>7 DEF Launch
    <2>2. UNCHANGED inboxVars /\ listeners[l].at = "launching" /\ at \in Places
        BY <1>7 DEF Launch, Places, Calls
    <2> QED BY <1>3, <2>1, <2>2
<1>8. CASE Exit(l)
    <2>1. PICK at \in {"accepting", "doubting"} : listeners' = Goto(l, at)
        BY <1>8 DEF Exit
    <2>2. UNCHANGED inboxVars /\ listeners[l].at = "running" /\ at \in Places
        BY <1>8 DEF Exit, Places, Calls
    <2> QED BY <1>3, <2>1, <2>2
<1>9. CASE Refused(l)
    <2>1. UNCHANGED batches /\ \E next : listeners' = [listeners EXCEPT ![l] = next]
        BY <1>9 DEF Refused, inboxVars
    <2>2. CASE ~Settles(l, t) BY <1>1, <2>1, <2>2, MoverTends
    <2>3. CASE Settles(l, t)
        <3>1. ~adapter.bound BY <1>9, <2>3, SettlersAreHeard DEF Refused
        <3>2. listeners[l].token = t BY <2>3 DEF Settles
        <3> QED BY <1>9, <3>1, <3>2 DEF Strands
    <2> QED BY <2>2, <2>3
<1>10. CASE Tell(l)
    <2> DEFINE u == listeners[l].token
               to == Wanted(listeners[l].at)
    <2>1. /\ batches' = [batches EXCEPT ![u].status = IF @ = "handled" THEN @ ELSE to]
          /\ listeners[l].at \in Telling
        BY <1>10 DEF Tell, Transition
    <2>2. PICK next : listeners' = [listeners EXCEPT ![l] = next]
                      /\ (listeners[l].at = "submitting" => next = place("launching"))
        BY <1>10 DEF Tell
    <2>3. /\ listeners'[l] = next /\ \A m \in Listeners : m # l => listeners'[m] = listeners[m]
          /\ batches'[t] # batches[t] => u = t
          /\ u = t => batches'[t].status \in {"handled", to}
        BY <1>1, <2>1, <2>2
    <2>4. to \in {"reserved", "submitting"} => listeners[l].at = "submitting" /\ to = "submitting"
        BY <2>1 DEF Wanted, Telling
    <2>5. listeners[l].at = "submitting" => next.at = "launching" /\ next.token = u
        BY <1>2, <2>2 DEF Places
    <2> HIDE DEF place, to
    <2>6. CASE u = t
        <3>1. batches'[t].status \in {"reserved", "submitting"} => Settles(l, t)'
            BY <2>3, <2>4, <2>5, <2>6 DEF Settles
        <3> QED BY <3>1 DEF Tended
    <2>7. CASE u # t
        <3>1. batches'[t] = batches[t] BY <2>3, <2>7
        <3>2. \A m \in Listeners : Settles(m, t) => Settles(m, t)' BY <2>3, <2>7, <3>1 DEF Settles
        <3> QED BY <3>1, <3>2, StaysTended
    <2> QED BY <2>6, <2>7
<1>11. CASE ReserveFails(l)
    <2>1. UNCHANGED batches /\ \E next : listeners' = [listeners EXCEPT ![l] = next]
        BY <1>11 DEF ReserveFails, FailCapture
    <2>2. ~Settles(l, t) BY <1>11 DEF ReserveFails, CapturesAreAwaited, Settles
    <2> QED BY <1>1, <2>1, <2>2, MoverTends
<1>12. CASE Reserved(l)
    <2>1. PICK k \in captures, u \in Tokens :
            /\ k.by = l /\ EndCapture(k, u)
            /\ listeners' = [listeners EXCEPT ![l].at = "reserved", ![l].token = u]
        BY <1>12 DEF Reserved
    <2> DEFINE held == [listeners[l] EXCEPT !.at = "reserved", !.token = u]
    <2>2. held.at = "reserved" /\ held.token = u BY <1>1 DEF Listener
    <2>3. listeners' = [listeners EXCEPT ![l] = held] BY <1>1, <2>1
    <2> HIDE DEF held
    <2>4. listeners'[l] = held /\ \A m \in Listeners : m # l => listeners'[m] = listeners[m]
        BY <1>1, <2>3
    <2>5. ~Settles(l, t) BY <2>1 DEF CapturesAreAwaited, Settles
    <2>6. batches' = [batches EXCEPT ![u] =
              Batch(IF k.session THEN "reserved" ELSE "presented", k.session, k.entries)]
        BY <2>1 DEF EndCapture
    <2>7. /\ batches'[u].status \in {"reserved", "presented"}
          /\ t # u => batches'[t] = batches[t]
        BY <1>1, <2>6 DEF Batch
    <2>8. CASE u = t
        <3>1. batches'[t].status \in {"reserved", "submitting"} => Settles(l, t)'
            BY <2>2, <2>4, <2>7, <2>8 DEF Settles
        <3> QED BY <3>1 DEF Tended
    <2>9. CASE u # t
        <3>1. \A m \in Listeners : Settles(m, t) => Settles(m, t)'
            BY <2>4, <2>5, <2>7, <2>9 DEF Settles
        <3> QED BY <2>7, <2>9, <3>1, StaysTended
    <2> QED BY <2>8, <2>9
<1> QED BY <1>4, <1>5, <1>6, <1>7, <1>8, <1>9, <1>10, <1>11, <1>12 DEF Listen

\* Hooks stop and start listeners, and show batches that are in the queue.
LEMMA HooksTend ==
    ASSUME DeliveryInv, Hook, NEW t \in Tokens, Tended(t)
    PROVE  Tended(t)'
<1>1. /\ listeners \in [Listeners -> Listener]
      /\ batches \in [Tokens -> [status : Statuses, session : BOOLEAN, entries : SUBSET Versions,
                                 acknowledged : SUBSET Versions]]
    BY DEF DeliveryInv, ListenersOK, InboxInv, InboxTypeOK
<1>2. CASE Prompt \/ ToolUse
    <2>1. Present /\ UNCHANGED listeners BY <1>2 DEF Prompt, ToolUse
    <2>2. batches'[t].status \in {"reserved", "submitting"} =>
              batches'[t].status = batches[t].status
        <3>1. CASE batches[t].session /\ batches[t].status \in {"accepted", "uncertain"}
            <4>1. batches'[t] = [batches[t] EXCEPT !.status = "presented"]
                BY <2>1, <3>1 DEF Present
            <4> QED BY <1>1, <4>1
        <3>2. CASE ~(batches[t].session /\ batches[t].status \in {"accepted", "uncertain"})
            BY <2>1, <3>2 DEF Present
        <3> QED BY <3>1, <3>2
    <2>3. CASE batches'[t].status = batches[t].status
        <3>1. \A m \in Listeners : Settles(m, t) => Settles(m, t)' BY <2>1, <2>3 DEF Settles
        <3> QED BY <2>2, <3>1, StaysTended
    <2>4. CASE batches'[t].status # batches[t].status BY <2>2, <2>4 DEF Tended
    <2> QED BY <2>3, <2>4
<1>3. CASE Stop \/ Interrupt \/ Interrupted \/ PromptElsewhere
    BY <1>3, StaysTended DEF Stop, Interrupt, Interrupted, PromptElsewhere, inboxVars, Settles
<1>4. CASE Bind
    <2>1. UNCHANGED batches BY <1>4 DEF Bind, inboxVars
    <2>2. CASE UNCHANGED listeners BY <2>1, <2>2, StaysTended DEF Settles
    <2>3. ASSUME NEW l \in Listeners, listeners[l] = Off, listeners' = Goto(l, "waiting")
          PROVE  Tended(t)'
        <3>1. ~Settles(l, t) BY <2>3 DEF Off, Settles
        <3>2. \E next : listeners' = [listeners EXCEPT ![l] = next] BY <2>3 DEF Goto
        <3> QED BY <1>1, <2>1, <3>1, <3>2, MoverTends
    <2> QED BY <1>4, <2>2, <2>3 DEF Bind
<1>5. CASE BindElsewhere
    <2>1. UNCHANGED batches BY <1>5 DEF BindElsewhere, inboxVars
    <2>2. ASSUME NEW l \in Listeners
          PROVE  listeners'[l].at = listeners[l].at /\ listeners'[l].token = listeners[l].token
        <3>1. listeners[l] \in Listener BY <1>1
        <3> QED BY <1>5, <3>1 DEF BindElsewhere, Off, Listener
    <2>3. \A m \in Listeners : Settles(m, t) => Settles(m, t)' BY <2>1, <2>2 DEF Settles
    <2> QED BY <2>1, <2>3, StaysTended
<1> QED BY <1>2, <1>3, <1>4, <1>5 DEF Hook

\* Readers leave reservations alone, but for one that nobody waits for.
LEMMA AgentsTend ==
    ASSUME DeliveryInv, NotifyAgent \/ Read \/ ReadEnds \/ AcknowledgeBatch \/ Sweep,
           NEW t \in Tokens, Tended(t)
    PROVE  Tended(t)' \/ Strands(t)
<1>1. /\ UNCHANGED listeners
      /\ batches \in [Tokens -> [status : Statuses, session : BOOLEAN, entries : SUBSET Versions,
                                 acknowledged : SUBSET Versions]]
    BY DEF NotifyAgent, Read, ReadEnds, AcknowledgeBatch, Sweep, deliveryVars, DeliveryInv,
           InboxInv, InboxTypeOK
<1>2. ASSUME batches'[t].status \in {batches[t].status, "handled", "none", "presented"}
      PROVE  Tended(t)'
    <2>1. CASE batches'[t].status = batches[t].status
        <3>1. \A m \in Listeners : Settles(m, t) => Settles(m, t)' BY <1>1, <2>1 DEF Settles
        <3> QED BY <2>1, <3>1, StaysTended
    <2>2. CASE batches'[t].status # batches[t].status BY <1>2, <2>2 DEF Tended
    <2> QED BY <2>1, <2>2
<1>3. CASE NotifyAgent \/ Read
    BY <1>2, <1>3 DEF NotifyAgent, Notify, Read, BeginCapture
<1>4. CASE ReadEnds
    <2>1. PICK k \in captures :
            k.by = Agent /\ (FailCapture(k) \/ \E u \in Tokens : EndCapture(k, u))
        BY <1>4 DEF ReadEnds
    <2>2. CASE FailCapture(k) BY <1>2, <2>2 DEF FailCapture
    <2>3. ASSUME NEW u \in Tokens, EndCapture(k, u) PROVE Tended(t)' \/ Strands(t)
        <3>1. batches' = [batches EXCEPT ![u] =
                  Batch(IF k.session THEN "reserved" ELSE "presented", k.session, k.entries)]
            BY <2>3 DEF EndCapture
        <3>2. CASE u # t BY <1>1, <1>2, <3>1, <3>2
        <3>3. CASE u = t /\ k.session BY <2>1, <2>3, <3>3 DEF Strands
        <3>4. CASE u = t /\ ~k.session
            <4>1. batches'[t].status = "presented" BY <1>1, <3>1, <3>4 DEF Batch
            <4> QED BY <1>2, <4>1
        <3> QED BY <3>2, <3>3, <3>4
    <2> QED BY <2>1, <2>2, <2>3
<1>5. CASE AcknowledgeBatch
    <2>1. PICK u \in Tokens : \E entries : Acknowledge(u, entries) BY <1>5 DEF AcknowledgeBatch
    <2>2. batches'[t].status \in {batches[t].status, "handled"}
        BY <1>1, <2>1 DEF Acknowledge
    <2> QED BY <1>2, <2>2
<1>6. CASE Sweep
    <2>1. PICK u \in Tokens : Discard(u) BY <1>6 DEF Sweep
    <2>2. batches'[t].status \in {batches[t].status, "none"}
        BY <1>1, <2>1 DEF Discard, NoBatch, Batch
    <2> QED BY <1>2, <2>2
<1> QED BY <1>3, <1>4, <1>5, <1>6

\* The next daemon knows no reservation; the other faults strand one.
LEMMA FaultsTend ==
    ASSUME DeliveryInv, Fault, NEW t \in Tokens, Tended(t)
    PROVE  Tended(t)' \/ Strands(t)
<1>1. /\ listeners \in [Listeners -> Listener]
      /\ batches \in [Tokens -> [status : Statuses, session : BOOLEAN, entries : SUBSET Versions,
                                 acknowledged : SUBSET Versions]]
    BY DEF DeliveryInv, ListenersOK, InboxInv, InboxTypeOK
<1>2. CASE RestartDaemon
    <2>1. batches'[t] = IF batches[t].status \in {"reserved", "submitting"}
                        THEN [batches[t] EXCEPT !.status = "uncertain"] ELSE batches[t]
        BY <1>2 DEF RestartDaemon, Restart
    <2>2. batches'[t].status \notin {"reserved", "submitting"} BY <1>1, <2>1
    <2> QED BY <2>2 DEF Tended
<1>3. CASE ExitAdapter BY <1>3 DEF Strands
<1>4. ASSUME NEW l \in Listeners, LoseAnswer(l) PROVE Tended(t)' \/ Strands(t)
    <2>1. CASE listeners[l].token = t BY <1>4, <2>1 DEF Strands
    <2>2. CASE listeners[l].token # t
        <3>1. UNCHANGED batches /\ \E next : listeners' = [listeners EXCEPT ![l] = next]
            BY <1>4 DEF LoseAnswer, Forsake
        <3>2. ~Settles(l, t) BY <2>2 DEF Settles
        <3> QED BY <1>1, <3>1, <3>2, MoverTends
    <2> QED BY <2>1, <2>2
<1> QED BY <1>2, <1>3, <1>4 DEF Fault

\* Whatever goes wrong: a batch reserved or in submission is left without the
\* listener that would settle it only when the host exits, an answer to that
\* listener is lost, or the daemon takes its adapter to be with another session
\* (CodexQueue.listen).  Nothing that goes on beside it does: neither another
\* listener nor a hook, a reader, the sweep or a restart.
THEOREM OnlyFaultsLeaveAlone == Spec => OnlyFaultsStrand
<1> DEFINE Alone == \A t \in Tokens : Tended(t) /\ ~Tended(t)' => Strands(t)
<1>1. Init => CapturesAreAwaited BY DEF Init, InboxInit, CapturesAreAwaited
<1>2. DeliveryInv /\ CapturesAreAwaited /\ [Next]_vars => CapturesAreAwaited' BY StepsAwait
<1>3. DeliveryInv /\ CapturesAreAwaited /\ [Next]_vars => [Alone]_vars
    <2> SUFFICES ASSUME DeliveryInv, CapturesAreAwaited, Next, NEW t \in Tokens, Tended(t)
                 PROVE  Tended(t)' \/ Strands(t)
        OBVIOUS
    <2>1. CASE \E l \in Listeners : Listen(l) BY <2>1, ListenersTend
    <2>2. CASE Hook BY <2>2, HooksTend
    <2>3. CASE NotifyAgent \/ Read \/ ReadEnds \/ AcknowledgeBatch \/ Sweep BY <2>3, AgentsTend
    <2>4. CASE Fault BY <2>4, FaultsTend
    <2> QED BY <2>1, <2>2, <2>3, <2>4 DEF Next
<1> HIDE DEF Alone
<1>4. Spec => [][Alone]_vars
    BY <1>1, <1>2, <1>3, DeliveryInvariant, PTL DEF Spec
<1> QED BY <1>4 DEF Alone, OnlyFaultsStrand
=============================================================================
