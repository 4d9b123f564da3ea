------------------------------ MODULE HostsProofs ------------------------------
(***************************************************************************)
(* What the hosts of agents are shown, for any number of tasks, polls,     *)
(* subscriptions, watchers, batches, calls and connections: the verdict of *)
(* a task is true of its turn, who listens to a task is told that it       *)
(* ended, no batch is passed over or stuck, a call ends as the daemon      *)
(* told, an adapter has one session, an idle session is not forgotten, the *)
(* end of a connection takes its own work with it and no other, and what   *)
(* the log of activity last says of an agent's presence is true.           *)
(***************************************************************************)
EXTENDS
    TurnTasks, TaskWatch, OpenCodePlugin, Ipc, AdapterLink, NativeWake, HostSessions,
    DaemonConnections, ActivityEvents,
    WellFoundedInduction, TLAPS

-----------------------------------------------------------------------------
(* Turns that are followed as tasks. *)

AskStates == InForce \cup {"COMMITTED", "RELEASED", "EXPIRED", "CANCELLED", "FAILED"}
NoAsk == [state |-> "none"]
AnAsk == [state : AskStates, by : Attachments, mode : {"ticket", "task"}]
APoll == [at : {"claim", "settle", "give up"}, by : Attachments, ask : Asks]

TasksTypeOK ==
  /\ asks \in [Asks -> {NoAsk} \cup AnAsk]
  /\ line \in Seq(Asks)
  /\ verdict \in [Asks -> Verdicts]
  /\ granted \subseteq Asks
  /\ poll \in [Polls -> {NoPoll} \cup APoll]

(***************************************************************************)
(* A verdict is about a request that was made, and whose turn is held was  *)
(* granted: what "completed" needs when a poll finds the turn claimed by   *)
(* somebody else.                                                          *)
(***************************************************************************)
VerdictsAreOfAsks == \A q \in Asks : asks[q].state = "none" => verdict[q] = "none"
HeldAreGranted == \A q \in Asks : asks[q].state = "CLAIMED" => q \in granted

AsksSound == VerdictsAreOfAsks /\ HeldAreGranted /\ VerdictsAreTrue
TasksInv == TasksTypeOK /\ AsksSound

LEMMA LeastIndex ==
  ASSUME NEW T \in SUBSET Nat, T # {}
  PROVE  \E i \in T : \A j \in T : i <= j
<1>1. PICK i \in T : \A j \in T : ~ (<<j, i>> \in OpToRel(<, Nat))
  BY NatLessThanWellFounded, WFMin
<1>2. \A j \in T : ~ (j < i)
  BY <1>1 DEF OpToRel
<1> QED
  BY <1>2

Asked == [Asks -> {NoAsk} \cup AnAsk]

LEMMA AskForm ==
  ASSUME NEW as \in Asked, NEW q \in Asks
  PROVE  /\ as[q].state # "none" => as[q] \in AnAsk
         /\ as[q].state = "none" => as[q] = NoAsk
         /\ as[q] \in AnAsk => as[q].state # "none"
         /\ as[q].state \in {"none"} \cup AskStates
<1>1. as[q] = NoAsk \/ as[q] \in AnAsk
  BY DEF Asked
<1>2. NoAsk.state = "none"
  BY DEF NoAsk
<1>3. ASSUME as[q] \in AnAsk PROVE as[q].state \in AskStates /\ as[q].state # "none"
  BY <1>3 DEF AnAsk, AskStates, InForce, Pending
<1>4. as[q] = NoAsk => as[q].state = "none"
  BY <1>2, Zenon
<1> QED
  BY <1>1, <1>3, <1>4, Zenon

LEMMA ReplacedAsk ==
  ASSUME NEW as \in Asked, NEW q \in Asks, NEW a \in AnAsk
  PROVE  /\ [as EXCEPT ![q] = a] \in Asked /\ [as EXCEPT ![q] = a][q] = a
         /\ \A o \in Asks : o # q => [as EXCEPT ![q] = a][o] = as[o]
BY DEF Asked

LEMMA MovedForm ==
  ASSUME NEW as \in Asked, NEW q \in Asks, as[q].state # "none", NEW to \in AskStates
  PROVE  /\ Moved(as, q, to) \in Asked
         /\ Moved(as, q, to)[q].state = to
         /\ \A o \in Asks : o # q => Moved(as, q, to)[o] = as[o]
<1> DEFINE a == [as[q] EXCEPT !.state = to]
<1>1. as[q] \in AnAsk
  BY AskForm
<1>2. a \in AnAsk /\ a.state = to
  BY <1>1 DEF AnAsk
<1>3. Moved(as, q, to) = [as EXCEPT ![q] = a]
  BY DEF Moved
<1> HIDE DEF a
<1>4. /\ [as EXCEPT ![q] = a] \in Asked /\ [as EXCEPT ![q] = a][q] = a
      /\ \A o \in Asks : o # q => [as EXCEPT ![q] = a][o] = as[o]
  BY <1>2 DEF Asked
<1> QED
  BY <1>2, <1>3, <1>4, Zenon

\* promote moves at most one of those that wait, on to a turn that is ready or offered.
LEMMA AdvancedForm ==
  ASSUME NEW as \in Asked, NEW ln \in Seq(Asks)
  PROVE  /\ Advanced(as, ln) \in Asked
         /\ \A q \in Asks : as[q].state # "QUEUED" => Advanced(as, ln)[q] = as[q]
         /\ \A q \in Asks : as[q].state = "QUEUED" =>
              Advanced(as, ln)[q].state \in {"QUEUED", "READY", "OFFERED"}
<1>1. CASE Waits(as, ln) = {} \/ \E q \in Asks : as[q].state \in Held
  <2>1. Advanced(as, ln) = as
    BY <1>1 DEF Advanced
  <2> QED
    BY <2>1
<1>2. CASE ~(Waits(as, ln) = {} \/ \E q \in Asks : as[q].state \in Held)
  <2> DEFINE first == CHOOSE i \in Waits(as, ln) : \A j \in Waits(as, ln) : i <= j
             next == ln[first]
             to == IF as[next].mode = "task" THEN "READY" ELSE "OFFERED"
  <2>1. DOMAIN ln \subseteq Nat /\ \A i \in DOMAIN ln : ln[i] \in Asks
    OBVIOUS
  <2>2. Waits(as, ln) \in SUBSET Nat
    BY <2>1 DEF Waits
  <2>3. first \in Waits(as, ln)
    BY <1>2, <2>2, LeastIndex
  <2>4. next \in Asks /\ as[next].state = "QUEUED"
    BY <2>1, <2>3 DEF Waits
  <2>5. Advanced(as, ln) = Moved(as, next, to)
    BY <1>2 DEF Advanced
  <2>6. to \in {"READY", "OFFERED"} /\ to \in AskStates
    BY DEF AskStates, InForce, Pending
  <2> HIDE DEF first, next, to
  <2> DEFINE moved == Moved(as, next, to)
  <2>7. /\ moved \in Asked /\ moved[next].state = to
        /\ \A o \in Asks : o # next => moved[o] = as[o]
    BY <2>4, <2>6, MovedForm, ZenonT(40)
  <2> HIDE DEF moved
  <2>8. moved[next].state \in {"QUEUED", "READY", "OFFERED"}
    BY <2>6, <2>7
  <2>9. Advanced(as, ln) = moved
    BY <2>5 DEF moved
  <2> QED
    BY <2>4, <2>7, <2>8, <2>9
<1> QED
  BY <1>1, <1>2

Finals == {"COMMITTED", "RELEASED", "EXPIRED", "CANCELLED", "FAILED"}

\* A step of the requests: where it leaves the one it is about, and that the others only move up.
StepTo(q, to) ==
  /\ asks' \in Asked
  /\ asks'[q].state = to
  /\ \A o \in Asks : o # q /\ asks[o].state # "QUEUED" => asks'[o] = asks[o]
  /\ \A o \in Asks : o # q /\ asks[o].state = "QUEUED" =>
       asks'[o].state \in {"QUEUED", "READY", "OFFERED"}

LEMMA EndStep ==
  ASSUME TasksInv, NEW q \in Asks, asks[q].state # "none", NEW final \in Finals,
         EndAsk(q, final)
  PROVE  StepTo(q, final)
<1> DEFINE moved == Moved(asks, q, final)
<1>1. asks \in Asked /\ line \in Seq(Asks)
  BY DEF TasksInv, TasksTypeOK, Asked
<1>2. final \in AskStates /\ final # "QUEUED"
  BY DEF Finals, AskStates, InForce, Pending
<1>3. /\ moved \in Asked /\ moved[q].state = final
      /\ \A o \in Asks : o # q => moved[o] = asks[o]
  BY <1>1, <1>2, MovedForm
<1>4. asks' = Advanced(moved, line)
  BY DEF EndAsk
<1> HIDE DEF moved
<1>5. /\ Advanced(moved, line) \in Asked
      /\ \A o \in Asks : moved[o].state # "QUEUED" => Advanced(moved, line)[o] = moved[o]
      /\ \A o \in Asks : moved[o].state = "QUEUED" =>
           Advanced(moved, line)[o].state \in {"QUEUED", "READY", "OFFERED"}
  BY <1>1, <1>3, AdvancedForm
<1> QED
  BY <1>2, <1>3, <1>4, <1>5 DEF StepTo

\* What a step keeps, when the request it is about is as the invariant says.
SoundAt(q) ==
  /\ verdict'[q] = "none" \/ asks'[q].state # "none"
  /\ asks'[q].state = "CLAIMED" => q \in granted'
  /\ verdict'[q] = "completed" => q \in granted'
  /\ verdict'[q] \in {"failed", "cancelled"} => asks'[q].state \notin InForce
  /\ verdict'[q] = "working" => asks'[q].state \in InForce \cup {"COMMITTED"}

LEMMA StepKeeps ==
  ASSUME TasksInv, NEW q \in Asks, NEW to, StepTo(q, to), granted \subseteq granted',
         \A o \in Asks : o # q => verdict'[o] = verdict[o],
         SoundAt(q)
  PROVE  AsksSound'
<1>1. ASSUME NEW o \in Asks, o # q PROVE SoundAt(o)
  <2>1. verdict'[o] = verdict[o]
    BY <1>1
  <2>2. CASE asks[o].state = "QUEUED"
    <3>1. asks'[o].state \in {"QUEUED", "READY", "OFFERED"}
      BY <1>1, <2>2 DEF StepTo
    <3> QED
      BY <2>1, <2>2, <3>1
      DEF SoundAt, TasksInv, AsksSound, VerdictsAreOfAsks, HeldAreGranted, VerdictsAreTrue,
          InForce, Pending
  <2>3. CASE asks[o].state # "QUEUED"
    <3>1. asks'[o] = asks[o]
      BY <1>1, <2>3 DEF StepTo
    <3> QED
      BY <2>1, <3>1
      DEF SoundAt, TasksInv, AsksSound, VerdictsAreOfAsks, HeldAreGranted, VerdictsAreTrue
  <2> QED
    BY <2>2, <2>3
<1>2. \A o \in Asks : SoundAt(o)
  BY <1>1
<1> QED
  BY <1>2 DEF SoundAt, AsksSound, VerdictsAreOfAsks, HeldAreGranted, VerdictsAreTrue

\* The request of q moves and no other does.
LEMMA MoveStep ==
  ASSUME TasksInv, NEW q \in Asks, asks[q].state # "none", NEW to \in AskStates,
         asks' = Moved(asks, q, to)
  PROVE  StepTo(q, to)
<1>1. asks \in Asked
  BY DEF TasksInv, TasksTypeOK, Asked
<1>2. /\ asks' \in Asked /\ asks'[q].state = to
      /\ \A o \in Asks : o # q => asks'[o] = asks[o]
  BY <1>1, MovedForm
<1> QED
  BY <1>2 DEF StepTo

LEMMA EndKeeps ==
  ASSUME TasksInv, NEW q \in Asks, asks[q].state \in InForce, NEW final \in Finals,
         EndAsk(q, final)
  PROVE  /\ AsksSound'
         /\ asks' \in Asked /\ verdict' \in [Asks -> Verdicts]
<1>1. asks[q].state # "none" /\ asks[q].state # "COMMITTED"
  BY DEF InForce, Pending
<1>2. StepTo(q, final)
  BY <1>1, EndStep
<1> DEFINE v == VerdictOf(final, verdict[q])
<1>3. verdict \in [Asks -> Verdicts] /\ granted' = granted /\ verdict' = [verdict EXCEPT ![q] = v]
  BY DEF TasksInv, TasksTypeOK, EndAsk
<1>4. /\ v \in Verdicts
      /\ v = "none" => verdict[q] = "none"
      /\ v = "completed" => verdict[q] = "completed"
      /\ v = "working" => final = "COMMITTED"
  BY <1>3 DEF VerdictOf, Verdicts
<1> HIDE DEF v
<1>5. verdict'[q] = v /\ \A o \in Asks : o # q => verdict'[o] = verdict[o]
  BY <1>3
<1>6. final # "none" /\ final # "CLAIMED" /\ final \notin InForce
  BY DEF Finals, InForce, Pending
<1>7. verdict[q] = "completed" => q \in granted
  BY DEF TasksInv, AsksSound, VerdictsAreTrue
<1>8. SoundAt(q)
  BY <1>2, <1>3, <1>4, <1>5, <1>6, <1>7 DEF SoundAt, StepTo
<1>9. AsksSound'
  BY <1>2, <1>3, <1>5, <1>8, StepKeeps
<1> QED
  BY <1>2, <1>3, <1>4, <1>9 DEF StepTo

-----------------------------------------------------------------------------
(* Each action keeps the invariant. *)

\* What a step of requests leaves of the invariant to show.
LEMMA TasksInvFrom ==
  ASSUME asks' \in Asked, line' \in Seq(Asks), verdict' \in [Asks -> Verdicts],
         granted' \subseteq Asks, poll' \in [Polls -> {NoPoll} \cup APoll], AsksSound'
  PROVE  TasksInv'
BY DEF TasksInv, TasksTypeOK, Asked

LEMMA TasksTypes ==
  ASSUME TasksInv
  PROVE  /\ asks \in Asked /\ line \in Seq(Asks) /\ verdict \in [Asks -> Verdicts]
         /\ granted \subseteq Asks /\ poll \in [Polls -> {NoPoll} \cup APoll] /\ AsksSound
BY DEF TasksInv, TasksTypeOK, Asked

LEMMA PollForm ==
  ASSUME NEW p \in Polls, poll \in [Polls -> {NoPoll} \cup APoll]
  PROVE  /\ poll[p].at # "idle" =>
              /\ poll[p].by \in Attachments /\ poll[p].ask \in Asks
              /\ \A step \in {"claim", "settle", "give up"} :
                   At(p, step) \in [Polls -> {NoPoll} \cup APoll]
         /\ Done(p) \in [Polls -> {NoPoll} \cup APoll]
<1>1. Done(p) \in [Polls -> {NoPoll} \cup APoll]
  BY DEF Done
<1>2. ASSUME poll[p].at # "idle"
      PROVE  /\ poll[p].by \in Attachments /\ poll[p].ask \in Asks
             /\ \A step \in {"claim", "settle", "give up"} :
                  At(p, step) \in [Polls -> {NoPoll} \cup APoll]
  <2>1. poll[p] \in APoll
    BY <1>2 DEF NoPoll
  <2>2. ASSUME NEW step \in {"claim", "settle", "give up"}
        PROVE  At(p, step) \in [Polls -> {NoPoll} \cup APoll]
    <3>1. [poll[p] EXCEPT !.at = step] \in APoll
      BY <2>1 DEF APoll
    <3> QED
      BY <3>1 DEF At
  <2> QED
    BY <2>1, <2>2 DEF APoll
<1> QED
  BY <1>1, <1>2

\* A verdict given to the task of q.
LEMMA VerdictGiven ==
  ASSUME verdict \in [Asks -> Verdicts], NEW q \in Asks, NEW v \in Verdicts,
         verdict' = [verdict EXCEPT ![q] = v]
  PROVE  /\ verdict' \in [Asks -> Verdicts] /\ verdict'[q] = v
         /\ \A o \in Asks : o # q => verdict'[o] = verdict[o]
OBVIOUS

LEMMA TasksInitially == TasksInit => TasksInv
<1> SUFFICES ASSUME TasksInit PROVE TasksInv
  OBVIOUS
<1> USE DEF TasksInit
<1>1. TasksTypeOK
  BY DEF TasksTypeOK, Verdicts, NoAsk
<1>2. \A q \in Asks : asks[q].state = "none" /\ verdict[q] = "none"
  OBVIOUS
<1>3. AsksSound
  BY <1>2 DEF AsksSound, VerdictsAreOfAsks, HeldAreGranted, VerdictsAreTrue
<1> QED
  BY <1>1, <1>3 DEF TasksInv

LEMMA AcquireKeeps ==
  ASSUME TasksInv, NEW a \in Attachments, NEW q \in Asks, NEW mode \in {"ticket", "task"},
         AcquireTurn(a, q, mode)
  PROVE  TasksInv'
<1> DEFINE new == [state |-> "QUEUED", by |-> a, mode |-> mode]
           start == [asks EXCEPT ![q] = new]
           queued == Advanced(start, line')
           atOnce == mode = "task" /\ queued[q].state = "READY"
           offered == [queued EXCEPT ![q].state = "OFFERED", ![q].mode = "ticket"]
<1>1. /\ asks \in Asked /\ line \in Seq(Asks) /\ verdict \in [Asks -> Verdicts]
      /\ granted \subseteq Asks /\ poll \in [Polls -> {NoPoll} \cup APoll] /\ AsksSound
  BY TasksTypes
<1>2. /\ asks[q].state = "none" /\ line' = Append(line, q)
      /\ granted' = granted /\ poll' = poll
      /\ asks' = IF atOnce THEN offered ELSE queued
      /\ verdict' = [verdict EXCEPT ![q] = IF mode = "task" /\ ~atOnce THEN "working" ELSE @]
  BY DEF AcquireTurn
<1>3. line' \in Seq(Asks)
  BY <1>1, <1>2
<1>4. new \in AnAsk /\ new.state = "QUEUED"
  BY DEF AnAsk, AskStates, InForce, Pending
<1> HIDE DEF new
<1>5. start \in Asked /\ start[q].state = "QUEUED" /\ \A o \in Asks : o # q => start[o] = asks[o]
  BY <1>1, <1>4 DEF Asked
<1> HIDE DEF start
<1>6. /\ queued \in Asked
      /\ \A o \in Asks : start[o].state # "QUEUED" => queued[o] = start[o]
      /\ \A o \in Asks : start[o].state = "QUEUED" =>
           queued[o].state \in {"QUEUED", "READY", "OFFERED"}
  BY <1>3, <1>5, AdvancedForm
<1> HIDE DEF queued
<1>7. queued[q] \in AnAsk
  <2>1. queued[q].state # "none"
    BY <1>5, <1>6
  <2> QED
    BY <1>6, <2>1, AskForm
<1>8. /\ offered \in Asked /\ offered[q].state = "OFFERED"
      /\ \A o \in Asks : o # q => offered[o] = queued[o]
  <2> DEFINE b == [queued[q] EXCEPT !.state = "OFFERED", !.mode = "ticket"]
  <2>1. b \in AnAsk /\ b.state = "OFFERED"
    BY <1>7 DEF AnAsk, AskStates, InForce, Pending
  <2>2. offered = [queued EXCEPT ![q] = b]
    BY <1>6 DEF Asked
  <2> HIDE DEF b
  <2> QED
    BY <1>6, <2>1, <2>2 DEF Asked
<1> HIDE DEF offered
<1>9. /\ asks' \in Asked /\ asks'[q].state \in {"QUEUED", "READY", "OFFERED"}
      /\ \A o \in Asks : o # q => asks'[o] = queued[o]
  <2>1. CASE atOnce
    BY <1>2, <1>8, <2>1
  <2>2. CASE ~atOnce
    BY <1>2, <1>5, <1>6, <2>2
  <2> QED
    BY <2>1, <2>2
<1>10. StepTo(q, asks'[q].state)
  BY <1>5, <1>6, <1>9 DEF StepTo
<1> DEFINE v == IF mode = "task" /\ ~atOnce THEN "working" ELSE verdict[q]
<1>11. verdict' = [verdict EXCEPT ![q] = v]
  BY <1>2
<1>12. verdict[q] = "none"
  BY <1>1, <1>2 DEF AsksSound, VerdictsAreOfAsks
<1>13. v \in {"none", "working"} /\ v \in Verdicts
  BY <1>12 DEF Verdicts
<1> HIDE DEF v
<1>14. /\ verdict' \in [Asks -> Verdicts] /\ verdict'[q] = v
       /\ \A o \in Asks : o # q => verdict'[o] = verdict[o]
  BY <1>1, <1>11, <1>13, VerdictGiven
<1>15. SoundAt(q)
  BY <1>9, <1>13, <1>14 DEF SoundAt, InForce, Pending
<1>16. AsksSound'
  BY <1>2, <1>10, <1>14, <1>15, StepKeeps
<1> QED
  BY <1>1, <1>2, <1>3, <1>9, <1>14, <1>16, TasksInvFrom

LEMMA FollowKeeps ==
  ASSUME TasksInv, NEW a \in Attachments, NEW q \in Asks, Follow(a, q)
  PROVE  TasksInv'
<1> DEFINE b == [asks[q] EXCEPT !.mode = "task"]
<1>1. /\ asks \in Asked /\ line \in Seq(Asks) /\ verdict \in [Asks -> Verdicts]
      /\ granted \subseteq Asks /\ poll \in [Polls -> {NoPoll} \cup APoll] /\ AsksSound
  BY TasksTypes
<1>2. /\ asks[q].state \in {"QUEUED", "READY"}
      /\ asks' = [asks EXCEPT ![q] = b]
      /\ verdict' = [verdict EXCEPT ![q] = "working"]
      /\ line' = line /\ granted' = granted /\ poll' = poll
  BY DEF Follow
<1>3. asks[q] \in AnAsk
  BY <1>1, <1>2, AskForm
<1>4. b \in AnAsk /\ b.state = asks[q].state
  BY <1>3 DEF AnAsk
<1> HIDE DEF b
<1>5. /\ asks' \in Asked /\ asks'[q].state = asks[q].state
      /\ \A o \in Asks : o # q => asks'[o] = asks[o]
  BY <1>1, <1>2, <1>4 DEF Asked
<1>6. StepTo(q, asks[q].state)
  BY <1>5 DEF StepTo
<1>7. "working" \in Verdicts
  BY DEF Verdicts
<1>8. /\ verdict' \in [Asks -> Verdicts] /\ verdict'[q] = "working"
      /\ \A o \in Asks : o # q => verdict'[o] = verdict[o]
  BY <1>1, <1>2, <1>7, VerdictGiven
<1>9. SoundAt(q)
  BY <1>2, <1>5, <1>8 DEF SoundAt, InForce, Pending
<1>10. AsksSound'
  BY <1>2, <1>6, <1>8, <1>9, StepKeeps
<1> QED
  BY <1>1, <1>2, <1>5, <1>8, <1>10, TasksInvFrom

\* READY and OFFERED become OFFERED, OFFERED becomes CLAIMED: verdicts stay.
LEMMA OfferedKeeps ==
  ASSUME TasksInv, NEW q \in Asks, asks[q].state \in {"READY", "OFFERED"},
         asks' = Moved(asks, q, "OFFERED"), line' = line, verdict' = verdict,
         granted' = granted, poll' \in [Polls -> {NoPoll} \cup APoll]
  PROVE  TasksInv'
<1>1. /\ asks \in Asked /\ line \in Seq(Asks) /\ verdict \in [Asks -> Verdicts]
      /\ granted \subseteq Asks /\ AsksSound
  BY TasksTypes
<1>2. "OFFERED" \in AskStates /\ asks[q].state # "none"
  BY DEF AskStates, InForce, Pending
<1>3. StepTo(q, "OFFERED")
  BY <1>2, MoveStep
<1>4. SoundAt(q)
  BY <1>1, <1>3
  DEF SoundAt, StepTo, AsksSound, VerdictsAreTrue, InForce, Pending
<1>5. AsksSound'
  BY <1>3, <1>4, StepKeeps
<1> QED
  BY <1>1, <1>3, <1>5, TasksInvFrom DEF StepTo

LEMMA ClaimedKeeps ==
  ASSUME TasksInv, NEW a, NEW q \in Asks, Claimable(a, q), ClaimBy(a, q),
         poll' \in [Polls -> {NoPoll} \cup APoll]
  PROVE  TasksInv'
<1>1. /\ asks \in Asked /\ line \in Seq(Asks) /\ verdict \in [Asks -> Verdicts]
      /\ granted \subseteq Asks /\ AsksSound
  BY TasksTypes
<1>2. "CLAIMED" \in AskStates /\ asks[q].state = "OFFERED"
  BY DEF AskStates, InForce, Claimable
<1>3. /\ asks' = Moved(asks, q, "CLAIMED") /\ granted' = granted \cup {q}
      /\ line' = line /\ verdict' = verdict
  BY DEF ClaimBy
<1>4. StepTo(q, "CLAIMED")
  BY <1>2, <1>3, MoveStep
<1>5. SoundAt(q)
  BY <1>1, <1>2, <1>3, <1>4
  DEF SoundAt, StepTo, AsksSound, VerdictsAreTrue, InForce, Pending
<1>6. AsksSound'
  BY <1>3, <1>4, <1>5, StepKeeps
<1> QED
  BY <1>1, <1>3, <1>4, <1>6, TasksInvFrom DEF StepTo

LEMMA EndedKeeps ==
  ASSUME TasksInv, NEW q \in Asks, asks[q].state \in InForce, NEW final \in Finals,
         EndAsk(q, final), poll' \in [Polls -> {NoPoll} \cup APoll]
  PROVE  TasksInv'
<1>1. line \in Seq(Asks) /\ granted \subseteq Asks
  BY TasksTypes
<1>2. line' = line /\ granted' = granted
  BY DEF EndAsk
<1>3. AsksSound' /\ asks' \in Asked /\ verdict' \in [Asks -> Verdicts]
  BY EndKeeps
<1> QED
  BY <1>1, <1>2, <1>3, TasksInvFrom

\* Only the verdict of one task changes, to one that is true of its request.
LEMMA JudgedKeeps ==
  ASSUME TasksInv, NEW q \in Asks, NEW v \in Verdicts,
         verdict' = [verdict EXCEPT ![q] = v],
         asks' = asks, line' = line, granted' = granted,
         poll' \in [Polls -> {NoPoll} \cup APoll],
         v = "none" \/ asks[q].state # "none",
         v = "completed" => q \in granted,
         v \in {"failed", "cancelled"} => asks[q].state \notin InForce,
         v = "working" => verdict[q] = "working"
  PROVE  TasksInv'
<1>1. /\ asks \in Asked /\ line \in Seq(Asks) /\ verdict \in [Asks -> Verdicts]
      /\ granted \subseteq Asks /\ AsksSound
  BY TasksTypes
<1>2. StepTo(q, asks[q].state)
  BY <1>1 DEF StepTo
<1>3. /\ verdict' \in [Asks -> Verdicts] /\ verdict'[q] = v
      /\ \A o \in Asks : o # q => verdict'[o] = verdict[o]
  BY <1>1, VerdictGiven
<1>4. SoundAt(q)
  BY <1>1, <1>3 DEF SoundAt, AsksSound, HeldAreGranted, VerdictsAreTrue
<1>5. AsksSound'
  BY <1>2, <1>3, <1>4, StepKeeps
<1> QED
  BY <1>1, <1>3, <1>5, TasksInvFrom

LEMMA PollsKeep ==
  ASSUME TasksInv, NEW p \in Polls,
         \/ PollClaims(p) \/ PollIsRefused(p) \/ PollSettles(p) \/ PollGivesUp(p)
  PROVE  TasksInv'
<1> DEFINE q == poll[p].ask
<1>1. /\ verdict \in [Asks -> Verdicts] /\ AsksSound
      /\ poll \in [Polls -> {NoPoll} \cup APoll]
  BY TasksTypes
<1>2. poll[p].at # "idle"
  BY DEF PollClaims, PollIsRefused, PollSettles, PollGivesUp
<1>3. /\ poll[p].by \in Attachments /\ q \in Asks
      /\ At(p, "settle") \in [Polls -> {NoPoll} \cup APoll]
      /\ At(p, "give up") \in [Polls -> {NoPoll} \cup APoll]
      /\ Done(p) \in [Polls -> {NoPoll} \cup APoll]
  BY <1>1, <1>2, PollForm
<1>4. CASE PollClaims(p)
  <2>1. Claimable(poll[p].by, q) /\ ClaimBy(poll[p].by, q) /\ poll' = At(p, "settle")
    BY <1>4 DEF PollClaims
  <2> HIDE DEF q
  <2> QED
    BY <1>3, <2>1, ClaimedKeeps
<1>5. CASE PollIsRefused(p)
  <2>1. /\ asks' = asks /\ line' = line /\ verdict' = verdict /\ granted' = granted
        /\ poll' = At(p, "give up")
    BY <1>5 DEF PollIsRefused
  <2> QED
    BY <1>3, <2>1, TasksTypes, TasksInvFrom
    DEF AsksSound, VerdictsAreOfAsks, HeldAreGranted, VerdictsAreTrue
<1>6. CASE PollSettles(p)
  <2> DEFINE sure == verdict[q] # "none" /\ asks[q].state = "CLAIMED"
             v == IF sure THEN "completed" ELSE verdict[q]
  <2>1. /\ verdict' = [verdict EXCEPT ![q] = v]
        /\ asks' = asks /\ line' = line /\ granted' = granted
        /\ poll' = IF sure THEN Done(p) ELSE At(p, "give up")
    BY <1>6 DEF PollSettles
  <2>2. poll' \in [Polls -> {NoPoll} \cup APoll]
    BY <1>3, <2>1
  <2>3. v \in Verdicts
    BY <1>1, <1>3 DEF Verdicts
  <2>4. asks[q].state = "CLAIMED" => q \in granted /\ asks[q].state # "none"
    BY <1>1, <1>3 DEF AsksSound, HeldAreGranted
  <2>5. /\ verdict[q] # "none" => asks[q].state # "none"
        /\ verdict[q] = "completed" => q \in granted
        /\ verdict[q] \in {"failed", "cancelled"} => asks[q].state \notin InForce
    BY <1>1, <1>3 DEF AsksSound, VerdictsAreOfAsks, VerdictsAreTrue
  <2>6. /\ v = "none" \/ asks[q].state # "none"
        /\ v = "completed" => q \in granted
        /\ v \in {"failed", "cancelled"} => asks[q].state \notin InForce
        /\ v = "working" => verdict[q] = "working"
    BY <2>4, <2>5
  <2> HIDE DEF q, v
  <2> QED
    BY <1>3, <2>1, <2>2, <2>3, <2>6, JudgedKeeps
<1>7. CASE PollGivesUp(p)
  <2>1. poll' = Done(p)
    BY <1>7 DEF PollGivesUp
  <2>2. CASE verdict[q] = "working" /\ asks[q].state \in InForce
    <3>1. EndAsk(q, "FAILED")
      BY <1>7, <2>2 DEF PollGivesUp, GivesUp
    <3>2. "FAILED" \in Finals
      BY DEF Finals
    <3>3. asks[q].state \in InForce
      BY <2>2
    <3> HIDE DEF q
    <3> QED
      BY <1>3, <2>1, <3>1, <3>2, <3>3, EndedKeeps
  <2>3. CASE verdict[q] = "working" /\ asks[q].state \notin InForce
    <3>1. /\ verdict' = [verdict EXCEPT ![q] = "failed"]
          /\ asks' = asks /\ line' = line /\ granted' = granted
      BY <1>7, <2>3 DEF PollGivesUp, GivesUp
    <3>2. "failed" \in Verdicts
      BY DEF Verdicts
    <3>3. asks[q].state # "none"
      BY <1>1, <1>3, <2>3 DEF AsksSound, VerdictsAreOfAsks
    <3>4. asks[q].state \notin InForce
      BY <2>3
    <3> HIDE DEF q
    <3> QED
      BY <1>3, <2>1, <3>1, <3>2, <3>3, <3>4, JudgedKeeps
  <2>4. CASE verdict[q] # "working"
    <3>1. asks' = asks /\ line' = line /\ verdict' = verdict /\ granted' = granted
      BY <1>7, <2>4 DEF PollGivesUp
    <3> QED
      BY <1>3, <2>1, <3>1, TasksTypes, TasksInvFrom
      DEF AsksSound, VerdictsAreOfAsks, HeldAreGranted, VerdictsAreTrue
  <2> QED
    BY <2>2, <2>3, <2>4
<1> QED
  BY <1>4, <1>5, <1>6, <1>7

LEMMA PollLooksKeeps ==
  ASSUME TasksInv, NEW p \in Polls, NEW a \in Attachments, NEW q \in Asks, PollLooks(p, a, q)
  PROVE  TasksInv'
<1> DEFINE offers == verdict[q] = "working" /\ asks[q].state \in {"READY", "OFFERED"}
           claimed == verdict[q] = "working" /\ asks[q].state = "CLAIMED"
           claiming == [at |-> "claim", by |-> a, ask |-> q]
           v == IF claimed THEN "completed" ELSE verdict[q]
<1>1. /\ verdict \in [Asks -> Verdicts] /\ AsksSound
      /\ poll \in [Polls -> {NoPoll} \cup APoll]
  BY TasksTypes
<1>2. /\ offers \/ claimed
      /\ asks' = IF offers THEN Moved(asks, q, "OFFERED") ELSE asks
      /\ verdict' = [verdict EXCEPT ![q] = v]
      /\ poll' = [poll EXCEPT ![p] = IF offers THEN claiming ELSE @]
      /\ line' = line /\ granted' = granted
  BY DEF PollLooks
<1>3. claiming \in APoll
  BY DEF APoll
<1>4. poll' \in [Polls -> {NoPoll} \cup APoll]
  BY <1>1, <1>2, <1>3
<1>5. CASE offers
  <2>1. ~claimed
    BY <1>5
  <2>2. verdict' = verdict
    BY <1>1, <1>2, <2>1
  <2>3. asks' = Moved(asks, q, "OFFERED") /\ asks[q].state \in {"READY", "OFFERED"}
    BY <1>2, <1>5
  <2> QED
    BY <1>2, <1>4, <2>2, <2>3, OfferedKeeps
<1>6. CASE ~offers
  <2>1. claimed
    BY <1>2, <1>6
  <2>2. verdict' = [verdict EXCEPT ![q] = "completed"] /\ asks' = asks
    BY <1>2, <1>6, <2>1
  <2>3. "completed" \in Verdicts
    BY DEF Verdicts
  <2>4. q \in granted /\ asks[q].state # "none"
    BY <1>1, <2>1 DEF AsksSound, HeldAreGranted
  <2> QED
    BY <1>2, <1>4, <2>2, <2>3, <2>4, JudgedKeeps
<1> QED
  BY <1>5, <1>6

LEMMA TasksStep == TasksInv /\ [TasksNext]_taskVars => TasksInv'
<1> SUFFICES ASSUME TasksInv, [TasksNext]_taskVars PROVE TasksInv'
  OBVIOUS
<1>0. poll \in [Polls -> {NoPoll} \cup APoll]
  BY TasksTypes
<1>1. ASSUME NEW a \in Attachments, NEW q \in Asks, NEW mode \in {"ticket", "task"},
             AcquireTurn(a, q, mode)
      PROVE  TasksInv'
  BY <1>1, AcquireKeeps
<1>2. ASSUME NEW a \in Attachments, NEW q \in Asks, Follow(a, q) PROVE TasksInv'
  BY <1>2, FollowKeeps
<1>3. ASSUME NEW a \in Attachments, NEW q \in Asks, Claim(a, q) PROVE TasksInv'
  <2>1. Claimable(a, q) /\ ClaimBy(a, q) /\ poll' = poll
    BY <1>3 DEF Claim
  <2> QED
    BY <1>0, <2>1, ClaimedKeeps
<1>4. ASSUME NEW p \in Polls, NEW a \in Attachments, NEW q \in Asks, PollLooks(p, a, q)
      PROVE  TasksInv'
  BY <1>4, PollLooksKeeps
<1>5. ASSUME NEW q \in Asks, Offer(q) PROVE TasksInv'
  <2>1. /\ asks[q].state \in {"READY", "OFFERED"} /\ asks' = Moved(asks, q, "OFFERED")
        /\ line' = line /\ verdict' = verdict /\ granted' = granted /\ poll' = poll
    BY <1>5 DEF Offer
  <2> QED
    BY <1>0, <2>1, OfferedKeeps
<1>6. ASSUME NEW q \in Asks, NEW final \in Finals, asks[q].state \in InForce,
             EndAsk(q, final), poll' = poll
      PROVE  TasksInv'
  BY <1>0, <1>6, EndedKeeps
<1>7. ASSUME NEW q \in Asks, Discard(q) PROVE TasksInv'
  <2>1. /\ verdict' = [verdict EXCEPT ![q] = "none"] /\ asks' = asks /\ line' = line
        /\ granted' = granted /\ poll' = poll
    BY <1>7 DEF Discard
  <2>2. "none" \in Verdicts
    BY DEF Verdicts
  <2> QED
    BY <1>0, <2>1, <2>2, JudgedKeeps
<1>8. ASSUME NEW q \in Asks, NEW final \in {"COMMITTED", "RELEASED"}, Use(q, final)
      PROVE  TasksInv'
  BY <1>6, <1>8 DEF Use, Finals, InForce
<1>9. ASSUME NEW q \in Asks, CancelTurn(q) \/ Lapse(q) PROVE TasksInv'
  BY <1>6, <1>9 DEF CancelTurn, Lapse, Finals, InForce
<1>10. CASE UNCHANGED taskVars
  BY <1>10 DEF taskVars, TasksInv, TasksTypeOK, AsksSound, VerdictsAreOfAsks, HeldAreGranted,
               VerdictsAreTrue
<1> QED
  BY <1>1, <1>2, <1>3, <1>4, <1>5, <1>7, <1>8, <1>9, <1>10, PollsKeep DEF TasksNext

\* A task that says completed had its turn, one that says failed or cancelled has none and will
\* not get any, and one that works is of a turn that is pending, held or used: whatever other
\* attachments, the sweep and direct claims do between the transactions of getTask, for any
\* number of attachments, requests and polls.
THEOREM TasksAreJudged == TasksSpec => []VerdictsAreTrue
<1>1. TasksInv => VerdictsAreTrue
  BY DEF TasksInv, AsksSound
<1> QED
  BY <1>1, TasksInitially, TasksStep, PTL DEF TasksSpec

-----------------------------------------------------------------------------
(* Subscriptions to tasks. *)

ARun == [at : {"ask", "told", "ended", "failed", "unaware"}, of : Followed, after : Nat,
         aborted : BOOLEAN, last : BOOLEAN]

WatchTypeOK ==
  /\ tasks \in [Followed -> [change : Nat, stamp : Nat \ {0}]]
  /\ listen \in [Listens -> {"new", "pending", "acknowledged", "cancelled"}]
  /\ wants \in [Listens -> SUBSET Followed]
  /\ watched \in [Followed -> Watchers \cup {NoWatcher}]
  /\ loop \in [Watchers -> {NoLoop} \cup ARun]
  /\ told \in [Listens -> [Followed -> Nat]]

LoopStages == {"ask", "told"}

\* A loop of the task that nobody has stopped; one that will still hear of it.
LoopOf(lo, l, t) == lo[l].at \in LoopStages /\ lo[l].of = t /\ ~lo[l].aborted
FollowsTask(lo, l, t) ==
  LoopOf(lo, l, t) /\ (lo[l].at = "ask" \/ (lo[l].at = "told" /\ ~lo[l].last))

\* A loop that stands at stdout with its last words, and one that left without a word, or when
\* stdout took them.
LastWords(lo, l, t) == lo[l].at = "told" /\ lo[l].last /\ lo[l].of = t
LeftBadly(lo, l, t) ==
  /\ lo[l].at \in {"failed", "unaware"} \/ (lo[l].at = "ended" /\ lo[l].last)
  /\ lo[l].of = t
Lost(wa, lo, t) ==
  \/ wa[t] = NoWatcher /\ \E l \in Watchers : LeftBadly(lo, l, t)
  \/ \E l \in Watchers : LastWords(lo, l, t)

HeardIsPast ==
  \A l \in Watchers : loop[l].at \in LoopStages => loop[l].after <= tasks[loop[l].of].stamp

\* The loop of an entry is at work for its task.
EntriesAreAtWork ==
  \A t \in Followed : watched[t] # NoWatcher =>
    watched[t] \in Watchers /\ LoopOf(loop, watched[t], t)

(***************************************************************************)
(* Whoever listens knows the end, or a loop is at work for the task, the   *)
(* entry's or one whose entry a predecessor took out of the map, or one    *)
(* left badly and none has begun since, or is about to leave so.           *)
(***************************************************************************)
ListenersAreServed ==
  \A s \in Listens : listen[s] = "acknowledged" => \A t \in wants[s] :
    \/ Ended(t) /\ told[s][t] = LastChange
    \/ \E l \in Watchers : FollowsTask(loop, l, t)
    \/ Lost(watched, loop, t)

WatchInv == WatchTypeOK /\ HeardIsPast /\ EntriesAreAtWork /\ ListenersAreServed

\* A loop as Watch starts it.
Begun(t) == [at |-> "ask", of |-> t, after |-> 0, aborted |-> FALSE, last |-> FALSE]

LEMMA RunForm ==
  ASSUME WatchTypeOK, NEW l \in Watchers, loop[l].at # "new"
  PROVE  loop[l] \in ARun /\ loop[l].of \in Followed
<1>1. loop[l] \in ARun
  BY DEF WatchTypeOK, NoLoop
<1> QED
  BY <1>1 DEF ARun

(***************************************************************************)
(* What watchTasks does: entries stay or become those of loops at work,    *)
(* and each task that is wanted has one.                                   *)
(***************************************************************************)
Served(ids) ==
  /\ watched' \in [Followed -> Watchers \cup {NoWatcher}]
  /\ loop' \in [Watchers -> {NoLoop} \cup ARun]
  /\ EntriesAreAtWork'
  /\ \A l \in Watchers : loop'[l].at \in LoopStages =>
       /\ loop'[l].of \in Followed
       /\ \/ loop'[l].after = 0
          \/ /\ loop[l].at \in LoopStages /\ loop'[l].of = loop[l].of
             /\ loop'[l].after = loop[l].after
  /\ \A t \in ids : \E l \in Watchers : LoopOf(loop', l, t)

LEMMA WatchServes ==
  ASSUME WatchInv, NEW ids \in SUBSET Followed, Watch(ids)
  PROVE  Served(ids)
<1> DEFINE gone == {t \in Followed : watched[t] # NoWatcher /\ t \notin ids}
           missing == {t \in ids : watched[t] = NoWatcher}
<1>1. PICK start \in [missing -> {l \in Watchers : loop[l] = NoLoop}] :
         /\ \A t, u \in missing : start[t] = start[u] => t = u
         /\ watched' = [t \in Followed |->
               IF t \in gone THEN NoWatcher ELSE IF t \in missing THEN start[t] ELSE watched[t]]
         /\ loop' = [l \in Watchers |->
               IF \E t \in missing : start[t] = l
               THEN Begun(CHOOSE t \in missing : start[t] = l)
               ELSE IF \E t \in gone : watched[t] = l THEN [loop[l] EXCEPT !.aborted = TRUE]
               ELSE loop[l]]
  BY DEF Watch, Begun
<1>2. /\ watched \in [Followed -> Watchers \cup {NoWatcher}]
      /\ loop \in [Watchers -> {NoLoop} \cup ARun]
      /\ missing \subseteq Followed
  BY DEF WatchInv, WatchTypeOK
<1>3. ASSUME NEW t \in missing
      PROVE  /\ start[t] \in Watchers /\ loop[start[t]].at = "new" /\ t \in Followed
             /\ loop'[start[t]] = Begun(t) /\ watched'[t] = start[t]
  <2>1. start[t] \in Watchers /\ loop[start[t]] = NoLoop
    BY <1>1
  <2>2. (CHOOSE u \in missing : start[u] = start[t]) = t
    BY <1>1
  <2>3. loop'[start[t]] = Begun(CHOOSE u \in missing : start[u] = start[t])
    BY <1>1, <2>1
  <2> QED
    BY <1>1, <1>2, <2>1, <2>2, <2>3 DEF NoLoop
<1>4. \A t \in Followed : Begun(t) \in ARun /\ Begun(t).after = 0 /\ Begun(t).at = "ask"
        /\ Begun(t).of = t /\ ~Begun(t).aborted
  BY DEF Begun, ARun
<1>5. ASSUME NEW t \in missing PROVE LoopOf(loop', start[t], t)
  BY <1>2, <1>3, <1>4 DEF LoopOf, LoopStages
<1>6. ASSUME NEW t \in Followed, watched[t] # NoWatcher
      PROVE  watched[t] \in Watchers /\ LoopOf(loop, watched[t], t)
  BY <1>6 DEF WatchInv, EntriesAreAtWork
<1>7. ASSUME NEW l \in Watchers, loop[l].at \in LoopStages,
             \A t \in gone : watched[t] # l
      PROVE  loop'[l] = loop[l]
  <2>1. \A t \in missing : start[t] # l
    BY <1>3, <1>7 DEF LoopStages
  <2> QED
    BY <1>1, <1>7, <2>1
<1>8. ASSUME NEW l \in Watchers, loop[l].at \in LoopStages, ~loop[l].aborted, loop[l].of \in ids
      PROVE  loop'[l] = loop[l]
  <2>1. \A t \in gone : watched[t] # l
    BY <1>6, <1>8 DEF LoopOf
  <2> QED
    BY <1>7, <1>8, <2>1
<1>9. ASSUME NEW t \in Followed, watched'[t] # NoWatcher
      PROVE  watched'[t] \in Watchers /\ LoopOf(loop', watched'[t], t)
  <2>1. CASE t \in missing
    BY <1>3, <1>5, <2>1
  <2>2. CASE t \notin missing
    <3>1. t \notin gone /\ watched'[t] = watched[t]
      BY <1>1, <1>9, <2>2
    <3>2. watched[t] # NoWatcher /\ t \in ids
      BY <1>9, <3>1
    <3>3. watched[t] \in Watchers /\ LoopOf(loop, watched[t], t)
      BY <1>6, <3>2
    <3>4. loop'[watched[t]] = loop[watched[t]]
      BY <1>8, <3>2, <3>3 DEF LoopOf
    <3> QED
      BY <3>1, <3>3, <3>4 DEF LoopOf
  <2> QED
    BY <2>1, <2>2
<1>10. ASSUME NEW l \in Watchers PROVE loop'[l] \in {NoLoop} \cup ARun
  <2>1. CASE \E t \in missing : start[t] = l
    BY <1>2, <1>3, <1>4, <2>1
  <2>2. CASE ~(\E t \in missing : start[t] = l) /\ \E t \in gone : watched[t] = l
    <3>1. loop[l].at # "new"
      BY <1>6, <2>2 DEF LoopOf, LoopStages
    <3>2. loop[l] \in ARun
      BY <3>1, RunForm DEF WatchInv
    <3>3. loop'[l] = [loop[l] EXCEPT !.aborted = TRUE]
      BY <1>1, <2>2
    <3> QED
      BY <3>2, <3>3 DEF ARun
  <2>3. CASE ~(\E t \in missing : start[t] = l) /\ ~(\E t \in gone : watched[t] = l)
    BY <1>1, <1>2, <2>3
  <2> QED
    BY <2>1, <2>2, <2>3
<1>11. ASSUME NEW l \in Watchers, loop'[l].at \in LoopStages
       PROVE  /\ loop'[l].of \in Followed
              /\ \/ loop'[l].after = 0
                 \/ /\ loop[l].at \in LoopStages /\ loop'[l].of = loop[l].of
                    /\ loop'[l].after = loop[l].after
  <2>1. CASE \E t \in missing : start[t] = l
    BY <1>2, <1>3, <1>4, <2>1
  <2>2. CASE ~(\E t \in missing : start[t] = l) /\ \E t \in gone : watched[t] = l
    <3>1. loop[l].at \in LoopStages
      BY <1>6, <2>2 DEF LoopOf
    <3>2. loop[l] \in ARun /\ loop[l].of \in Followed
      BY <3>1, RunForm DEF WatchInv, LoopStages
    <3>3. loop'[l] = [loop[l] EXCEPT !.aborted = TRUE]
      BY <1>1, <2>2
    <3> QED
      BY <3>1, <3>2, <3>3 DEF ARun
  <2>3. CASE ~(\E t \in missing : start[t] = l) /\ ~(\E t \in gone : watched[t] = l)
    <3>1. loop'[l] = loop[l]
      BY <1>1, <2>3
    <3>2. loop[l].of \in Followed
      BY <1>11, <3>1, RunForm DEF WatchInv, LoopStages
    <3> QED
      BY <1>11, <3>1, <3>2
  <2> QED
    BY <2>1, <2>2, <2>3
<1>12. ASSUME NEW t \in ids PROVE \E l \in Watchers : LoopOf(loop', l, t)
  <2>1. CASE watched[t] = NoWatcher
    BY <1>3, <1>5, <2>1
  <2>2. CASE watched[t] # NoWatcher
    <3>1. watched[t] \in Watchers /\ LoopOf(loop, watched[t], t)
      BY <1>6, <2>2
    <3>2. loop'[watched[t]] = loop[watched[t]]
      BY <1>8, <3>1 DEF LoopOf
    <3> QED
      BY <3>1, <3>2 DEF LoopOf
  <2> QED
    BY <2>1, <2>2
<1>13. watched' \in [Followed -> Watchers \cup {NoWatcher}]
  BY <1>1, <1>2, <1>3
<1>14. loop' \in [Watchers -> {NoLoop} \cup ARun]
  <2>1. loop' = [l \in Watchers |-> loop'[l]]
    BY <1>1
  <2> QED
    BY <1>10, <2>1
<1> HIDE DEF gone, missing
<1>15. EntriesAreAtWork'
  BY <1>9 DEF EntriesAreAtWork
<1> QED
  BY <1>11, <1>12, <1>13, <1>14, <1>15 DEF Served

LEMMA ServedKeeps ==
  ASSUME WatchInv, NEW s \in Listens, NEW to \in {"pending", "acknowledged", "cancelled"},
         listen' = [listen EXCEPT ![s] = to], Served(Wanted(listen')),
         tasks' = tasks, wants' = wants, told' = told
  PROVE  WatchInv'
<1> DEFINE ids == Wanted(listen')
<1>1. /\ listen' \in [Listens -> {"new", "pending", "acknowledged", "cancelled"}]
      /\ \A u \in Listens : listen'[u] \in {"pending", "acknowledged"} => wants[u] \subseteq ids
  BY DEF WatchInv, WatchTypeOK, Wanted
<1> HIDE DEF ids
<1>2. WatchTypeOK'
  BY <1>1 DEF WatchInv, WatchTypeOK, Served
<1>3. EntriesAreAtWork'
  BY DEF Served
<1>4. HeardIsPast'
  <2> SUFFICES ASSUME NEW l \in Watchers, loop'[l].at \in LoopStages
               PROVE  loop'[l].after <= tasks[loop'[l].of].stamp
    BY DEF HeardIsPast
  <2>1. /\ loop'[l].of \in Followed
        /\ \/ loop'[l].after = 0
           \/ /\ loop[l].at \in LoopStages /\ loop'[l].of = loop[l].of
              /\ loop'[l].after = loop[l].after
    BY DEF Served
  <2>2. tasks[loop'[l].of].stamp \in Nat \ {0}
    BY <2>1 DEF WatchInv, WatchTypeOK
  <2> QED
    BY <2>1, <2>2 DEF WatchInv, HeardIsPast
<1>5. ListenersAreServed'
  <2> SUFFICES ASSUME NEW u \in Listens, listen'[u] = "acknowledged", NEW t \in wants[u]
               PROVE  \/ \E l \in Watchers : FollowsTask(loop', l, t)
                      \/ Lost(watched', loop', t)
    BY DEF ListenersAreServed
  <2>1. t \in ids
    BY <1>1
  <2>2. PICK l \in Watchers : LoopOf(loop', l, t)
    BY <2>1 DEF Served, ids
  <2> QED
    BY <2>2 DEF LoopOf, FollowsTask, Lost, LastWords, LoopStages
<1> QED
  BY <1>2, <1>3, <1>4, <1>5 DEF WatchInv

LEMMA TransportKeeps ==
  ASSUME WatchInv, NEW s \in Listens, Listen(s) \/ Unlisten(s) \/ Acknowledge(s)
  PROVE  WatchInv'
<1>1. PICK to \in {"pending", "acknowledged", "cancelled"} :
        /\ listen' = [listen EXCEPT ![s] = to] /\ Watch(Wanted(listen'))
        /\ tasks' = tasks /\ wants' = wants /\ told' = told
  BY DEF Listen, Unlisten, Acknowledge
<1>2. Wanted(listen') \in SUBSET Followed
  BY DEF WatchInv, WatchTypeOK, Wanted
<1>3. Served(Wanted(listen'))
  BY <1>1, <1>2, WatchServes
<1> QED
  BY <1>1, <1>3, ServedKeeps

LEMMA TaskChangesKeeps ==
  ASSUME WatchAssumption, WatchInv, NEW t \in Followed, TaskChanges(t)
  PROVE  WatchInv'
<1>1. PICK d \in StampSteps :
        tasks' = [tasks EXCEPT ![t] = [change |-> tasks[t].change + 1,
                                       stamp |-> tasks[t].stamp + d]]
  BY DEF TaskChanges
<1>2. d \in Nat
  BY DEF WatchAssumption
<1>3. tasks \in [Followed -> [change : Nat, stamp : Nat \ {0}]]
  BY DEF WatchInv, WatchTypeOK
<1>4. /\ tasks' \in [Followed -> [change : Nat, stamp : Nat \ {0}]]
      /\ tasks'[t].stamp = tasks[t].stamp + d
      /\ \A u \in Followed : u # t => tasks'[u] = tasks[u]
  BY <1>1, <1>2, <1>3
<1>5. /\ tasks[t].change # LastChange
      /\ listen' = listen /\ wants' = wants /\ watched' = watched
      /\ loop' = loop /\ told' = told
  BY <1>3 DEF TaskChanges, WatchAssumption
<1>6. WatchTypeOK'
  BY <1>4, <1>5 DEF WatchInv, WatchTypeOK
<1>7. HeardIsPast'
  <2> SUFFICES ASSUME NEW l \in Watchers, loop[l].at \in LoopStages
               PROVE  loop[l].after <= tasks'[loop[l].of].stamp
    BY <1>5 DEF HeardIsPast
  <2>1. loop[l] \in ARun /\ loop[l].of \in Followed
    BY RunForm DEF WatchInv, LoopStages
  <2>2. loop[l].after <= tasks[loop[l].of].stamp
    BY DEF WatchInv, HeardIsPast
  <2>3. loop[l].after \in Nat
    BY <2>1 DEF ARun
  <2>4. CASE loop[l].of = t
    <3>1. tasks[t].stamp \in Nat
      BY <1>3
    <3> QED
      BY <1>2, <1>4, <2>2, <2>3, <2>4, <3>1
  <2>5. CASE loop[l].of # t
    BY <1>4, <2>1, <2>2, <2>5
  <2> QED
    BY <2>4, <2>5
<1>8. EntriesAreAtWork'
  BY <1>5 DEF WatchInv, EntriesAreAtWork
<1>9. ListenersAreServed'
  <2> SUFFICES ASSUME NEW s \in Listens, listen[s] = "acknowledged", NEW u \in wants[s]
               PROVE  \/ tasks'[u].change = LastChange /\ told[s][u] = LastChange
                      \/ \E l \in Watchers : FollowsTask(loop, l, u)
                      \/ Lost(watched, loop, u)
    BY <1>5 DEF ListenersAreServed, Ended
  <2>1. \/ tasks[u].change = LastChange /\ told[s][u] = LastChange
        \/ \E l \in Watchers : FollowsTask(loop, l, u)
        \/ Lost(watched, loop, u)
    BY DEF WatchInv, ListenersAreServed, Ended
  <2>2. u \in Followed
    BY DEF WatchInv, WatchTypeOK
  <2>3. tasks[u].change = LastChange => tasks'[u] = tasks[u]
    BY <1>4, <1>5, <2>2
  <2> QED
    BY <2>1, <2>3
<1> QED
  BY <1>6, <1>7, <1>8, <1>9 DEF WatchInv

\* A loop leaves: it was stopped, or leaves badly, or all who listen have been told.
LEMMA LeaveKeeps ==
  ASSUME WatchInv, NEW l \in Watchers, loop[l].at \in LoopStages,
         NEW how \in {"ended", "failed", "unaware"}, LeaveLoop(l, how),
         tasks' = tasks, listen' = listen, wants' = wants,
         told' \in [Listens -> [Followed -> Nat]],
         \A s \in Listens : \A t \in Followed :
           \/ told'[s][t] = told[s][t]
           \/ t = loop[l].of,
         \/ loop[l].aborted
         \/ how \in {"failed", "unaware"}
         \/ loop[l].last
         \/ /\ Ended(loop[l].of)
            /\ \A s \in Listens : listen[s] = "acknowledged" /\ loop[l].of \in wants[s] =>
                 told'[s][loop[l].of] = LastChange,
         loop[l].aborted => told' = told
  PROVE  WatchInv'
<1> DEFINE left == [loop[l] EXCEPT !.at = how]
<1>1. /\ loop \in [Watchers -> {NoLoop} \cup ARun]
      /\ watched \in [Followed -> Watchers \cup {NoWatcher}]
      /\ \A s \in Listens : wants[s] \subseteq Followed
  BY DEF WatchInv, WatchTypeOK
<1>2. /\ loop[l].of \in Followed /\ left \in ARun
      /\ left.at = how /\ left.of = loop[l].of /\ (left.last <=> loop[l].last)
  <2>1. loop[l] \in ARun /\ loop[l].of \in Followed
    BY RunForm DEF WatchInv, LoopStages
  <2> QED
    BY <2>1 DEF ARun
<1>3. watched' = [watched EXCEPT ![loop[l].of] = NoWatcher] /\ loop' = [loop EXCEPT ![l] = left]
  BY <1>1 DEF LeaveLoop
<1> HIDE DEF left
<1>4. /\ loop' \in [Watchers -> {NoLoop} \cup ARun]
      /\ loop'[l] = left /\ \A k \in Watchers : k # l => loop'[k] = loop[k]
      /\ watched' \in [Followed -> Watchers \cup {NoWatcher}]
      /\ watched'[loop[l].of] = NoWatcher
      /\ \A t \in Followed : t # loop[l].of => watched'[t] = watched[t]
  BY <1>1, <1>2, <1>3
<1>5. WatchTypeOK'
  BY <1>4 DEF WatchInv, WatchTypeOK
<1>6. HeardIsPast'
  BY <1>2, <1>4 DEF WatchInv, HeardIsPast, LoopStages
<1>7. EntriesAreAtWork'
  <2> SUFFICES ASSUME NEW t \in Followed, watched'[t] # NoWatcher
               PROVE  watched'[t] \in Watchers /\ LoopOf(loop', watched'[t], t)
    BY DEF EntriesAreAtWork
  <2>1. t # loop[l].of /\ watched'[t] = watched[t]
    BY <1>4
  <2>2. watched[t] \in Watchers /\ LoopOf(loop, watched[t], t)
    BY <2>1 DEF WatchInv, EntriesAreAtWork
  <2> QED
    BY <1>4, <2>1, <2>2 DEF LoopOf
<1>8. ListenersAreServed'
  <2> SUFFICES ASSUME NEW s \in Listens, listen[s] = "acknowledged", NEW t \in wants[s]
               PROVE  \/ Ended(t) /\ told'[s][t] = LastChange
                      \/ \E k \in Watchers : FollowsTask(loop', k, t)
                      \/ Lost(watched', loop', t)
    BY DEF ListenersAreServed, Ended
  <2>1. \/ Ended(t) /\ told[s][t] = LastChange
        \/ \E k \in Watchers : FollowsTask(loop, k, t)
        \/ Lost(watched, loop, t)
    BY DEF WatchInv, ListenersAreServed
  <2>2. t \in Followed
    BY <1>1
  <2>3. CASE t # loop[l].of
    <3>1. told'[s][t] = told[s][t] /\ watched'[t] = watched[t]
      BY <1>4, <2>2, <2>3
    <3>2. \A k \in Watchers :
            /\ FollowsTask(loop, k, t) => FollowsTask(loop', k, t)
            /\ LeftBadly(loop, k, t) => LeftBadly(loop', k, t)
            /\ LastWords(loop, k, t) => LastWords(loop', k, t)
      BY <1>4, <2>3 DEF FollowsTask, LoopOf, LeftBadly, LastWords
    <3> QED
      BY <2>1, <3>1, <3>2 DEF Lost
  <2>4. CASE t = loop[l].of /\ (how \in {"failed", "unaware"} \/ loop[l].last)
    <3>1. LeftBadly(loop', l, t)
      BY <1>2, <1>4, <2>4 DEF LeftBadly
    <3> QED
      BY <1>4, <2>4, <3>1 DEF Lost
  <2>5. CASE t = loop[l].of /\ loop[l].aborted /\ ~loop[l].last
    <3>1. told' = told /\ watched'[t] = NoWatcher
      BY <1>4, <2>5
    <3>2. \A k \in Watchers :
            /\ FollowsTask(loop, k, t) => FollowsTask(loop', k, t)
            /\ LeftBadly(loop, k, t) => LeftBadly(loop', k, t)
            /\ LastWords(loop, k, t) => LastWords(loop', k, t)
      BY <1>4, <2>5 DEF FollowsTask, LoopOf, LeftBadly, LastWords, LoopStages
    <3> QED
      BY <2>1, <3>1, <3>2 DEF Lost
  <2>6. CASE t = loop[l].of /\ ~loop[l].aborted /\ ~loop[l].last /\ how = "ended"
    BY <2>6
  <2> QED
    BY <2>3, <2>4, <2>5, <2>6
<1> QED
  BY <1>5, <1>6, <1>7, <1>8 DEF WatchInv

LEMMA HearKeeps ==
  ASSUME WatchInv, NEW l \in Watchers, Hear(l)
  PROVE  WatchInv'
<1> DEFINE t == loop[l].of
           now == tasks[t].change
           stamp == tasks[t].stamp
           heard == [loop[l] EXCEPT !.after = stamp]
           waits == [loop[l] EXCEPT !.after = stamp, !.at = "told", !.last = Ended(t)]
<1>1. /\ loop[l].at = "ask" /\ ~loop[l].aborted
      /\ tasks' = tasks /\ listen' = listen /\ wants' = wants
  BY DEF Hear, Hears
<1>2. /\ loop \in [Watchers -> {NoLoop} \cup ARun]
      /\ tasks \in [Followed -> [change : Nat, stamp : Nat \ {0}]]
      /\ told \in [Listens -> [Followed -> Nat]]
      /\ \A s \in Listens : wants[s] \subseteq Followed
  BY DEF WatchInv, WatchTypeOK
<1>3. t \in Followed /\ now \in Nat /\ stamp \in Nat /\ loop[l] \in ARun
  BY <1>1, <1>2, RunForm DEF WatchInv
<1>4. told' = [s \in Listens |->
         IF listen[s] = "acknowledged" /\ t \in wants[s]
         THEN [told[s] EXCEPT ![t] = now] ELSE told[s]]
  BY DEF Hear
<1>5. \/ Ended(t) /\ LeaveLoop(l, "ended")
      \/ ~Ended(t) /\ loop' = [loop EXCEPT ![l] = heard] /\ watched' = watched
      \/ loop' = [loop EXCEPT ![l] = waits] /\ watched' = watched
  BY <1>2 DEF Hear
<1>6. ASSUME NEW s \in Listens
      PROVE  /\ told'[s] \in [Followed -> Nat]
             /\ \A u \in Followed : u # t => told'[s][u] = told[s][u]
             /\ listen[s] = "acknowledged" /\ t \in wants[s] => told'[s][t] = now
  BY <1>2, <1>3, <1>4
<1>7. told' \in [Listens -> [Followed -> Nat]]
  BY <1>4, <1>6
<1>8. CASE Ended(t) /\ LeaveLoop(l, "ended")
  <2>1. now = LastChange
    BY <1>8 DEF Ended
  <2> HIDE DEF now, stamp, heard, waits
  <2> QED
    BY <1>1, <1>6, <1>7, <1>8, <2>1, LeaveKeeps DEF LoopStages
<1>9. ASSUME NEW after \in ARun, after.at \in LoopStages, after.of = t, after.after = stamp,
             ~after.aborted, Ended(t) \/ ~after.last \/ after.at = "ask",
             Ended(t) => after.at = "told" /\ after.last,
             loop' = [loop EXCEPT ![l] = after], watched' = watched
      PROVE  WatchInv'
  <2> HIDE DEF now, stamp, heard, waits
  <2>1. /\ loop' \in [Watchers -> {NoLoop} \cup ARun] /\ loop'[l] = after
        /\ \A k \in Watchers : k # l => loop'[k] = loop[k]
    BY <1>2, <1>9
  <2>2. \A k \in Watchers : \A u \in Followed : LoopOf(loop, k, u) => LoopOf(loop', k, u)
    BY <1>9, <2>1 DEF LoopOf
  <2>3. WatchTypeOK'
    BY <1>1, <1>7, <1>9, <2>1 DEF WatchInv, WatchTypeOK
  <2>4. HeardIsPast'
    <3>1. stamp <= stamp
      BY <1>3
    <3> QED
      BY <1>1, <1>9, <2>1, <3>1 DEF WatchInv, HeardIsPast, stamp
  <2>5. EntriesAreAtWork'
    BY <1>9, <2>2 DEF WatchInv, EntriesAreAtWork
  <2>6. ListenersAreServed'
    <3> SUFFICES ASSUME NEW s \in Listens, listen[s] = "acknowledged", NEW u \in wants[s]
                 PROVE  \/ Ended(u) /\ told'[s][u] = LastChange
                        \/ \E k \in Watchers : FollowsTask(loop', k, u)
                        \/ Lost(watched', loop', u)
      BY <1>1 DEF ListenersAreServed, Ended
    <3>1. \/ Ended(u) /\ told[s][u] = LastChange
          \/ \E k \in Watchers : FollowsTask(loop, k, u)
          \/ Lost(watched, loop, u)
      BY DEF WatchInv, ListenersAreServed
    <3>2. u \in Followed
      BY <1>2
    <3>3. CASE u = t /\ Ended(t)
      BY <1>9, <2>1, <3>3 DEF Lost, LastWords
    <3>4. CASE u = t /\ ~Ended(t)
      BY <1>9, <2>1, <3>4 DEF FollowsTask, LoopOf, LoopStages
    <3>5. CASE u # t
      <4>1. told'[s][u] = told[s][u]
        BY <1>6, <3>2, <3>5
      <4>2. \A k \in Watchers :
              /\ FollowsTask(loop, k, u) => FollowsTask(loop', k, u)
              /\ LeftBadly(loop, k, u) => LeftBadly(loop', k, u)
              /\ LastWords(loop, k, u) => LastWords(loop', k, u)
        BY <2>1, <3>5 DEF FollowsTask, LoopOf, LeftBadly, LastWords
      <4> QED
        BY <1>9, <3>1, <4>1, <4>2 DEF Lost
    <3> QED
      BY <3>3, <3>4, <3>5
  <2> QED
    BY <2>3, <2>4, <2>5, <2>6 DEF WatchInv
<1>10. CASE ~Ended(t) /\ loop' = [loop EXCEPT ![l] = heard] /\ watched' = watched
  <2>1. /\ heard \in ARun /\ heard.at = "ask" /\ heard.of = t /\ heard.after = stamp
        /\ ~heard.aborted
    BY <1>1, <1>3 DEF ARun
  <2> HIDE DEF heard, stamp, t
  <2> QED
    BY <1>9, <1>10, <2>1 DEF LoopStages
<1>11. CASE loop' = [loop EXCEPT ![l] = waits] /\ watched' = watched
  <2>1. Ended(t) \in BOOLEAN
    BY DEF Ended
  <2>2. /\ waits \in ARun /\ waits.at = "told" /\ waits.of = t /\ waits.after = stamp
        /\ ~waits.aborted /\ waits.last = Ended(t)
    BY <1>1, <1>3, <2>1 DEF ARun
  <2> HIDE DEF waits, stamp, t
  <2> QED
    BY <1>9, <1>11, <2>2 DEF LoopStages
<1> QED
  BY <1>5, <1>8, <1>10, <1>11

\* stdout took what a loop had to tell, and there will be more.
LEMMA DrainKeeps ==
  ASSUME WatchInv, NEW l \in Watchers, loop[l].at = "told", ~loop[l].last,
         loop' = [loop EXCEPT ![l].at = "ask"],
         UNCHANGED <<tasks, listen, wants, watched, told>>
  PROVE  WatchInv'
<1> DEFINE again == [loop[l] EXCEPT !.at = "ask"]
<1>1. loop \in [Watchers -> {NoLoop} \cup ARun] /\ loop[l] \in ARun
  BY RunForm DEF WatchInv, WatchTypeOK
<1>2. /\ again \in ARun /\ again.at = "ask" /\ again.of = loop[l].of
      /\ again.after = loop[l].after /\ (again.aborted <=> loop[l].aborted)
  BY <1>1 DEF ARun
<1>3. loop' = [loop EXCEPT ![l] = again]
  BY <1>1
<1> HIDE DEF again
<1>4. /\ loop' \in [Watchers -> {NoLoop} \cup ARun]
      /\ loop'[l] = again /\ \A k \in Watchers : k # l => loop'[k] = loop[k]
  BY <1>1, <1>2, <1>3
<1>5. \A k \in Watchers : \A t \in Followed :
        /\ LoopOf(loop, k, t) => LoopOf(loop', k, t)
        /\ FollowsTask(loop, k, t) => FollowsTask(loop', k, t)
        /\ LeftBadly(loop, k, t) => LeftBadly(loop', k, t)
        /\ LastWords(loop, k, t) => LastWords(loop', k, t)
  BY <1>2, <1>4 DEF LoopOf, FollowsTask, LeftBadly, LastWords, LoopStages
<1>6. WatchTypeOK'
  BY <1>4 DEF WatchInv, WatchTypeOK
<1>7. HeardIsPast'
  BY <1>2, <1>4 DEF WatchInv, HeardIsPast, LoopStages
<1>8. EntriesAreAtWork'
  BY <1>5 DEF WatchInv, EntriesAreAtWork
<1>9. ListenersAreServed'
  <2>1. \A s \in Listens : wants[s] \subseteq Followed
    BY DEF WatchInv, WatchTypeOK
  <2> QED
    BY <1>5, <2>1 DEF WatchInv, ListenersAreServed, Lost, Ended
<1> QED
  BY <1>6, <1>7, <1>8, <1>9 DEF WatchInv

\* A loop leaves, and nothing is told.
LEMMA SilentlyKeeps ==
  ASSUME WatchInv, NEW l \in Watchers, loop[l].at \in LoopStages,
         NEW how \in {"ended", "failed", "unaware"}, LeaveLoop(l, how),
         UNCHANGED <<tasks, listen, wants, told>>,
         loop[l].aborted \/ loop[l].last \/ how \in {"failed", "unaware"}
  PROVE  WatchInv'
<1>1. told' \in [Listens -> [Followed -> Nat]] /\ told' = told
  BY DEF WatchInv, WatchTypeOK
<1>2. \A s \in Listens : \A t \in Followed : told'[s][t] = told[s][t] \/ t = loop[l].of
  BY <1>1
<1> QED
  BY <1>1, <1>2, LeaveKeeps

LEMMA WatchInitially == WatchAssumption /\ WatchInit => WatchInv
<1> SUFFICES ASSUME WatchAssumption, WatchInit PROVE WatchInv
  OBVIOUS
<1>1. WatchTypeOK
  BY DEF WatchInit, WatchTypeOK
<1>2. \A l \in Watchers : loop[l].at = "new"
  BY DEF WatchInit, NoLoop
<1>3. HeardIsPast
  BY <1>2 DEF HeardIsPast, LoopStages
<1>4. EntriesAreAtWork
  BY DEF EntriesAreAtWork, WatchInit
<1>5. ListenersAreServed
  BY DEF ListenersAreServed, WatchInit
<1> QED
  BY <1>1, <1>3, <1>4, <1>5 DEF WatchInv

LEMMA WatchStep ==
  ASSUME WatchAssumption, WatchInv, [WatchNext]_watchVars
  PROVE  WatchInv'
<1>1. ASSUME NEW t \in Followed, TaskChanges(t) PROVE WatchInv'
  BY <1>1, TaskChangesKeeps
<1>2. ASSUME NEW s \in Listens, Listen(s) \/ Unlisten(s) \/ Acknowledge(s) PROVE WatchInv'
  BY <1>2, TransportKeeps
<1>3. ASSUME NEW l \in Watchers, Hear(l) PROVE WatchInv'
  BY <1>3, HearKeeps
<1>4. ASSUME NEW l \in Watchers, StdoutDrains(l) PROVE WatchInv'
  BY <1>4, DrainKeeps, SilentlyKeeps DEF StdoutDrains, LoopStages
<1>5. ASSUME NEW l \in Watchers, Stop(l) PROVE WatchInv'
  BY <1>5, SilentlyKeeps DEF Stop, LoopStages
<1>6. ASSUME NEW l \in Watchers, Overhear(l) PROVE WatchInv'
  BY <1>6, SilentlyKeeps DEF Overhear, Hears, LoopStages
<1>7. ASSUME NEW l \in Watchers, Break(l) PROVE WatchInv'
  BY <1>7, SilentlyKeeps DEF Break, LoopStages
<1>8. CASE UNCHANGED watchVars
  BY <1>8 DEF watchVars, WatchInv, WatchTypeOK, HeardIsPast, EntriesAreAtWork,
              ListenersAreServed, FollowsTask, LoopOf, Lost, LeftBadly, LastWords, Ended
<1> QED
  BY <1>1, <1>2, <1>3, <1>4, <1>5, <1>6, <1>7, <1>8 DEF WatchNext

LEMMA WatchImplies == WatchInv => EndsAreTold
<1> SUFFICES ASSUME WatchInv, NEW s \in Listens, NEW t \in wants[s],
                    listen[s] = "acknowledged", Ended(t), ~Missed(t)
             PROVE  told[s][t] = LastChange \/ WatcherAtWork(t)
  BY DEF EndsAreTold
<1>1. t \in Followed
  BY DEF WatchInv, WatchTypeOK
<1>2. ~Lost(watched, loop, t) /\ Knows(t)
  BY DEF Lost, LeftBadly, LastWords, Missed
<1>3. ASSUME NEW l \in Watchers, FollowsTask(loop, l, t) PROVE WatcherAtWork(t)
  <2>1. WatcherOf(l, t) /\ loop[l].at \in LoopStages /\ loop[l].of = t
    BY <1>3 DEF FollowsTask, LoopOf, WatcherOf
  <2>2. loop[l] \in ARun
    BY <2>1, RunForm DEF WatchInv, LoopStages
  <2>3. loop[l].after <= tasks[t].stamp /\ loop[l].after # tasks[t].stamp
    BY <2>1 DEF WatchInv, HeardIsPast, Missed
  <2>4. loop[l].after \in Nat /\ tasks[t].stamp \in Nat
    BY <1>1, <2>2 DEF ARun, WatchInv, WatchTypeOK
  <2> QED
    BY <1>2, <2>1, <2>3, <2>4 DEF WatcherAtWork
<1> QED
  BY <1>2, <1>3 DEF WatchInv, ListenersAreServed

\* Whoever listens to a task is told that it ended, or a watcher that has not heard it yet is at
\* work, however subscriptions come and go, however late watchers stop, with calls that fail,
\* changes of one stamp, tasks of other host sessions and a stdout that makes them wait, for any
\* number of them; save for the ways of Missed, each of which the code has.
THEOREM ListenersHearEnds == WatchSpec => []EndsAreTold
<1>1. WatchInit => WatchInv
  BY WatchAssumption, WatchInitially
<1>2. WatchInv /\ [WatchNext]_watchVars => WatchInv'
  BY WatchAssumption, WatchStep
<1> QED
  BY <1>1, <1>2, WatchImplies, PTL DEF WatchSpec

-----------------------------------------------------------------------------
(* Batches of the OpenCode plugin. *)

\* The batches of a queue are those up to the last one, without a gap.
Consecutive(w, last) ==
  /\ w \in Seq(Nat) /\ last \in Nat /\ Len(w) <= last
  /\ \A i \in 1..Len(w) : w[i] = last - Len(w) + i

LEMMA ConsecutiveNone == Consecutive(<<>>, 0)
BY DEF Consecutive

LEMMA ConsecutiveLen ==
  ASSUME NEW w, NEW last, Consecutive(w, last)
  PROVE  /\ w \in Seq(Nat) /\ last \in Nat /\ Len(w) \in Nat /\ Len(w) <= last
         /\ w # <<>> <=> Len(w) > 0
BY DEF Consecutive

LEMMA ConsecutiveAppend ==
  ASSUME NEW w, NEW last, Consecutive(w, last)
  PROVE  /\ Consecutive(Append(w, last + 1), last + 1)
         /\ Len(Append(w, last + 1)) = Len(w) + 1
BY DEF Consecutive

LEMMA ConsecutiveTail ==
  ASSUME NEW w, NEW last, Consecutive(w, last), w # <<>>
  PROVE  /\ Consecutive(Tail(w), last)
         /\ Len(Tail(w)) = Len(w) - 1
         /\ Head(w) = last - Len(w) + 1
<1>1. Len(w) \in Nat \ {0}
  BY DEF Consecutive
<1>2. Tail(w) \in Seq(Nat) /\ Len(Tail(w)) = Len(w) - 1
  BY DEF Consecutive
<1>3. \A i \in 1..Len(Tail(w)) : Tail(w)[i] = w[i + 1]
  BY DEF Consecutive
<1>4. Head(w) = w[1]
  BY DEF Consecutive
<1> QED
  BY <1>1, <1>2, <1>3, <1>4 DEF Consecutive

LEMMA ConsecutiveBack ==
  ASSUME NEW w, NEW last, Consecutive(w, last), Len(w) < last
  PROVE  /\ Consecutive(<<last - Len(w)>> \o w, last)
         /\ Len(<<last - Len(w)>> \o w) = Len(w) + 1
<1> DEFINE b == last - Len(w)
           c == <<b>> \o w
<1>1. w \in Seq(Nat) /\ b \in Nat /\ Len(w) \in Nat /\ last \in Nat
  BY DEF Consecutive
<1>2. c \in Seq(Nat) /\ Len(c) = Len(w) + 1
  BY <1>1
<1>3. \A i \in 1..Len(c) : c[i] = IF i = 1 THEN b ELSE w[i - 1]
  BY <1>1
<1> QED
  BY <1>1, <1>2, <1>3 DEF Consecutive

Steps == {"none", "begin", "asking", "idle", "busy", "prompt"}
ALife == [idle : BOOLEAN, waits : [BatchKinds -> Seq(Nat)], taken : [BatchKinds -> Nat],
          told : [BatchKinds -> Nat], step : Steps, queue : BatchKinds \cup {"none"},
          batch : Nat, resume : BOOLEAN]

\* The batch that is being told counts as one that waits.
InHand(s, k) == IF s.step = "prompt" /\ s.queue = k THEN 1 ELSE 0

(***************************************************************************)
(* A life of the session: its queues have no gaps, what is being told is   *)
(* the batch before its queue, and what was chosen is still there.         *)
(***************************************************************************)
LifeIsSound(s) ==
  /\ s \in ALife
  /\ \A k \in BatchKinds : Consecutive(s.waits[k], s.taken[k])
  /\ \A k \in BatchKinds : s.taken[k] - Len(s.waits[k]) - InHand(s, k) <= s.told[k]
  /\ s.step # "none" => s.queue \in BatchKinds
  /\ s.step \in {"begin", "asking", "idle", "busy"} => s.waits[s.queue] # <<>>
  /\ s.step = "prompt" =>
       s.batch = s.taken[s.queue] - Len(s.waits[s.queue]) /\ s.batch > 0

Unstuck(s) == s.step # "none" \/ Chosen(s) = "none"

PluginInv ==
  /\ opened \in Lives \cup {NoLife}
  /\ host \in {"idle", "busy"}
  /\ life \in [Lives -> ALife]
  /\ \A x \in Lives : LifeIsSound(life[x])
  /\ opened # NoLife => Unstuck(life[opened])

LEMMA FreshIsSound == LifeIsSound(Fresh) /\ Chosen(Fresh) = "none"
<1>1. Fresh \in ALife
  BY DEF Fresh, ALife, Steps
<1>2. \A k \in BatchKinds : Fresh.waits[k] = <<>> /\ Fresh.taken[k] = 0 /\ Fresh.told[k] = 0
  BY DEF Fresh
<1>3. Fresh.step = "none" /\ Fresh.waits["actionable"] = <<>> /\ Fresh.waits["activity"] = <<>>
  BY DEF Fresh, BatchKinds
<1>4. \A k \in BatchKinds : Consecutive(Fresh.waits[k], Fresh.taken[k])
  BY <1>2, ConsecutiveNone
<1>5. Chosen(Fresh) = "none"
  BY <1>3 DEF Chosen
<1> QED
  BY <1>1, <1>2, <1>3, <1>4, <1>5 DEF LifeIsSound, InHand

LEMMA ScheduledIsSound ==
  ASSUME NEW s, LifeIsSound(s)
  PROVE  LifeIsSound(Scheduled(s)) /\ Unstuck(Scheduled(s))
<1>1. CASE s.step # "none" \/ Chosen(s) = "none"
  BY <1>1 DEF Scheduled, Unstuck
<1>2. CASE ~(s.step # "none" \/ Chosen(s) = "none")
  <2> DEFINE c == Chosen(s)
             n == [s EXCEPT !.step = "begin", !.queue = c]
  <2>1. Scheduled(s) = n
    BY <1>2 DEF Scheduled
  <2>2. c \in BatchKinds /\ s.waits[c] # <<>>
    BY <1>2 DEF Chosen, BatchKinds
  <2> HIDE DEF c
  <2>3. s \in ALife
    BY DEF LifeIsSound
  <2>4. /\ n \in ALife /\ n.step = "begin" /\ n.queue = c
        /\ n.waits = s.waits /\ n.taken = s.taken /\ n.told = s.told
    BY <2>2, <2>3 DEF ALife, Steps
  <2> HIDE DEF n
  <2>5. LifeIsSound(n)
    BY <1>2, <2>2, <2>4 DEF LifeIsSound, InHand
  <2> QED
    BY <2>1, <2>4, <2>5 DEF Unstuck
<1> QED
  BY <1>1, <1>2

\* What the plugin believes of the session, and the step of a call, change nothing else.
LEMMA BelievedIsSound ==
  ASSUME NEW s, LifeIsSound(s), NEW b \in BOOLEAN
  PROVE  /\ LifeIsSound([s EXCEPT !.idle = b])
         /\ [s EXCEPT !.idle = b].step = s.step /\ [s EXCEPT !.idle = b].queue = s.queue
         /\ [s EXCEPT !.idle = b].waits = s.waits /\ [s EXCEPT !.idle = b].idle = b
<1> DEFINE n == [s EXCEPT !.idle = b]
<1>1. s \in ALife
  BY DEF LifeIsSound
<1>2. /\ n \in ALife /\ n.step = s.step /\ n.queue = s.queue /\ n.batch = s.batch
      /\ n.waits = s.waits /\ n.taken = s.taken /\ n.told = s.told /\ n.idle = b
  BY <1>1 DEF ALife
<1> HIDE DEF n
<1>3. LifeIsSound(n)
  BY <1>2 DEF LifeIsSound, InHand
<1> QED
  BY <1>2, <1>3 DEF n

LEMMA SteppedIsSound ==
  ASSUME NEW s, LifeIsSound(s), s.step \in {"begin", "asking"},
         NEW to \in {"asking", "idle", "busy"}
  PROVE  LifeIsSound([s EXCEPT !.step = to]) /\ Unstuck([s EXCEPT !.step = to])
<1> DEFINE n == [s EXCEPT !.step = to]
<1>1. s \in ALife
  BY DEF LifeIsSound
<1>2. /\ n \in ALife /\ n.step = to /\ n.queue = s.queue
      /\ n.waits = s.waits /\ n.taken = s.taken /\ n.told = s.told
  BY <1>1 DEF ALife, Steps
<1> HIDE DEF n
<1>3. LifeIsSound(n) /\ Unstuck(n)
  BY <1>2 DEF LifeIsSound, InHand, Unstuck
<1> QED
  BY <1>3 DEF n

LEMMA PumpedIsSound ==
  ASSUME NEW s, LifeIsSound(s), NEW k \in BatchKinds
  PROVE  LifeIsSound(Pumped(s, k))
<1> DEFINE n == Pumped(s, k)
           w == Append(s.waits[k], s.taken[k] + 1)
<1>1. s \in ALife
  BY DEF LifeIsSound
<1>2. Consecutive(w, s.taken[k] + 1) /\ Len(w) = Len(s.waits[k]) + 1
  BY ConsecutiveAppend DEF LifeIsSound
<1>3. w \in Seq(Nat) /\ s.taken[k] + 1 \in Nat
  BY <1>2 DEF Consecutive
<1> HIDE DEF w
<1>4. n = [s EXCEPT !.taken = [s.taken EXCEPT ![k] = s.taken[k] + 1],
                    !.waits = [s.waits EXCEPT ![k] = w]]
  BY <1>1 DEF Pumped, ALife, w
<1>5. /\ [s.taken EXCEPT ![k] = s.taken[k] + 1] \in [BatchKinds -> Nat]
      /\ [s.waits EXCEPT ![k] = w] \in [BatchKinds -> Seq(Nat)]
  BY <1>1, <1>3 DEF ALife
<1>6. /\ n \in ALife /\ n.step = s.step /\ n.queue = s.queue /\ n.batch = s.batch
      /\ n.told = s.told
      /\ n.taken = [s.taken EXCEPT ![k] = s.taken[k] + 1]
      /\ n.waits = [s.waits EXCEPT ![k] = w]
  BY <1>1, <1>4, <1>5 DEF ALife
<1> HIDE DEF n
<1>7. /\ n.waits[k] = w /\ n.taken[k] = s.taken[k] + 1
      /\ \A j \in BatchKinds : j # k => n.waits[j] = s.waits[j] /\ n.taken[j] = s.taken[j]
  BY <1>1, <1>6 DEF ALife
<1>8. \A j \in BatchKinds :
        /\ Consecutive(n.waits[j], n.taken[j])
        /\ s.taken[j] \in Nat /\ Len(s.waits[j]) \in Nat
        /\ n.taken[j] - Len(n.waits[j]) = s.taken[j] - Len(s.waits[j])
  <2> SUFFICES ASSUME NEW j \in BatchKinds
               PROVE  /\ Consecutive(n.waits[j], n.taken[j])
                      /\ s.taken[j] \in Nat /\ Len(s.waits[j]) \in Nat
                      /\ n.taken[j] - Len(n.waits[j]) = s.taken[j] - Len(s.waits[j])
    OBVIOUS
  <2>1. Consecutive(s.waits[j], s.taken[j])
    BY DEF LifeIsSound
  <2>2. s.taken[j] \in Nat /\ Len(s.waits[j]) \in Nat
    BY <2>1, ConsecutiveLen
  <2>3. CASE j = k
    <3>1. n.taken[j] = s.taken[j] + 1 /\ n.waits[j] = w
      BY <1>7, <2>3
    <3>2. Consecutive(n.waits[j], n.taken[j]) /\ Len(n.waits[j]) = Len(s.waits[j]) + 1
      BY <1>2, <2>3, <3>1
    <3>3. \A a, b \in Nat : (a + 1) - (b + 1) = a - b
      OBVIOUS
    <3>4. n.taken[j] - Len(n.waits[j]) = (s.taken[j] + 1) - (Len(s.waits[j]) + 1)
      BY <3>1, <3>2, Zenon
    <3>5. n.taken[j] - Len(n.waits[j]) = s.taken[j] - Len(s.waits[j])
      BY <2>2, <3>3, <3>4, Zenon
    <3> QED
      BY <2>2, <3>2, <3>5, Zenon
  <2>4. CASE j # k
    BY <1>7, <2>1, <2>2, <2>4
  <2> QED
    BY <2>3, <2>4
<1>9. \A j \in BatchKinds : n.taken[j] - Len(n.waits[j]) - InHand(n, j) <= n.told[j]
  BY <1>6, <1>8 DEF LifeIsSound, InHand
<1>10. s.step # "none" => n.queue \in BatchKinds
  BY <1>6 DEF LifeIsSound
<1>11. \A j \in BatchKinds : s.waits[j] # <<>> => n.waits[j] # <<>>
  <2>1. Len(w) > 0
    BY <1>2, <1>8
  <2>2. w # <<>>
    BY <1>2, <2>1, ConsecutiveLen
  <2> QED
    BY <1>7, <2>2
<1>12. n.step = "prompt" => n.batch = n.taken[n.queue] - Len(n.waits[n.queue]) /\ n.batch > 0
  BY <1>6, <1>8, <1>10 DEF LifeIsSound
<1>13. LifeIsSound(n)
  BY <1>6, <1>8, <1>9, <1>10, <1>11, <1>12 DEF LifeIsSound
<1> QED
  BY <1>13 DEF n

\* The batch leaves its queue, and is in hand.
LEMMA AttemptingIsSound ==
  ASSUME NEW s, LifeIsSound(s), s.step \in {"begin", "idle", "busy"}
  PROVE  LifeIsSound(Attempting(s)) /\ Unstuck(Attempting(s))
<1> DEFINE n == Attempting(s)
           k == s.queue
           w == Tail(s.waits[k])
           b == Head(s.waits[k])
<1>1. s \in ALife /\ k \in BatchKinds /\ s.waits[k] # <<>>
  BY DEF LifeIsSound
<1>2. /\ Consecutive(s.waits[k], s.taken[k])
      /\ Consecutive(w, s.taken[k]) /\ Len(w) = Len(s.waits[k]) - 1
      /\ b = s.taken[k] - Len(s.waits[k]) + 1
  BY <1>1, ConsecutiveTail DEF LifeIsSound
<1>3. /\ w \in Seq(Nat) /\ b \in Nat /\ b > 0 /\ b = s.taken[k] - Len(w)
      /\ Len(s.waits[k]) \in Nat /\ s.taken[k] \in Nat
  <2>1. /\ s.taken[k] \in Nat /\ Len(s.waits[k]) \in Nat
        /\ Len(s.waits[k]) <= s.taken[k] /\ Len(s.waits[k]) > 0
    BY <1>1, <1>2, ConsecutiveLen
  <2>2. w \in Seq(Nat) /\ Len(w) \in Nat
    BY <1>2, ConsecutiveLen
  <2> DEFINE n0 == Len(s.waits[k])
             m0 == s.taken[k]
  <2>3. Len(w) = n0 - 1 /\ b = m0 - n0 + 1 /\ n0 \in Nat /\ m0 \in Nat /\ n0 <= m0 /\ n0 > 0
    BY <1>2, <2>1
  <2>4. b \in Nat /\ b > 0 /\ b = m0 - Len(w)
    <3> HIDE DEF w, b, k, n0, m0
    <3> QED
      BY <2>2, <2>3
  <2> QED
    BY <2>1, <2>2, <2>4
<1>4. n = [s EXCEPT !.step = "prompt", !.waits = [s.waits EXCEPT ![k] = w],
                    !.batch = b, !.resume = s.idle, !.idle = FALSE]
  BY <1>1 DEF Attempting, ALife
<1> HIDE DEF w, b
<1>5. [s.waits EXCEPT ![k] = w] \in [BatchKinds -> Seq(Nat)] /\ s.idle \in BOOLEAN
  BY <1>1, <1>3 DEF ALife
<1> HIDE DEF k
<1>6. /\ n \in ALife /\ n.step = "prompt" /\ n.queue = s.queue /\ n.batch = b
      /\ n.told = s.told /\ n.taken = s.taken /\ n.waits = [s.waits EXCEPT ![k] = w]
  BY <1>1, <1>3, <1>4, <1>5 DEF ALife, Steps
<1> HIDE DEF n
<1>7. n.waits[k] = w /\ \A j \in BatchKinds : j # k => n.waits[j] = s.waits[j]
  BY <1>1, <1>6 DEF ALife
<1>8. \A j \in BatchKinds : Consecutive(n.waits[j], n.taken[j])
  BY <1>2, <1>6, <1>7 DEF LifeIsSound
<1>9. \A j \in BatchKinds : n.taken[j] - Len(n.waits[j]) - InHand(n, j) <= n.told[j]
  <2>1. InHand(n, k) = 1
    BY <1>6 DEF InHand, k
  <2>2. \A j \in BatchKinds : InHand(s, j) = 0
    BY DEF InHand
  <2>3. \A j \in BatchKinds : j # k => InHand(n, j) = 0
    BY <1>6 DEF InHand, k
  <2> DEFINE there == s.taken[k]
             m == Len(s.waits[k])
  <2>4. there \in Nat /\ m \in Nat /\ m > 0 /\ s.told[k] \in Nat /\ k \in BatchKinds
        /\ there - m - InHand(s, k) <= s.told[k] /\ Len(w) = m - 1
    BY <1>1, <1>2, <1>3 DEF ALife, LifeIsSound
  <2>5. n.taken[k] = there /\ n.waits[k] = w /\ n.told[k] = s.told[k]
    BY <1>6, <1>7
  <2>6. n.taken[k] - Len(n.waits[k]) - InHand(n, k) <= n.told[k]
    <3>1. InHand(s, k) = 0
      BY <2>2, <2>4
    <3> HIDE DEF there, m
    <3> QED
      BY <2>1, <2>4, <2>5, <3>1
  <2>7. ASSUME NEW j \in BatchKinds, j # k
        PROVE  n.taken[j] - Len(n.waits[j]) - InHand(n, j) <= n.told[j]
    <3>1. n.taken[j] = s.taken[j] /\ n.waits[j] = s.waits[j] /\ n.told[j] = s.told[j]
      BY <1>6, <1>7, <2>7
    <3>2. InHand(n, j) = InHand(s, j)
      BY <2>2, <2>3, <2>7
    <3> QED
      BY <1>1, <3>1, <3>2 DEF LifeIsSound
  <2> QED
    BY <2>6, <2>7
<1>10. n.queue = k
  BY <1>6 DEF k
<1>11. LifeIsSound(n) /\ Unstuck(n)
  BY <1>1, <1>3, <1>6, <1>7, <1>8, <1>9, <1>10 DEF LifeIsSound, Unstuck
<1> QED
  BY <1>11 DEF n

\* The state is free again: after a status, a prompt that was told, or one that failed.
Freed(s) == [s EXCEPT !.step = "none", !.queue = "none", !.batch = 0, !.resume = FALSE]

\* What Freed needs: as LifeIsSound, with nothing in hand.
Settled(s) ==
  /\ s \in ALife
  /\ \A k \in BatchKinds : Consecutive(s.waits[k], s.taken[k])
  /\ \A k \in BatchKinds : s.taken[k] - Len(s.waits[k]) <= s.told[k]

LEMMA FreedIsSound ==
  ASSUME NEW s, Settled(s)
  PROVE  LifeIsSound(Freed(s))
<1> DEFINE n == Freed(s)
<1>1. s \in ALife
  BY DEF Settled
<1>2. /\ n \in ALife /\ n.step = "none"
      /\ n.waits = s.waits /\ n.taken = s.taken /\ n.told = s.told
  BY <1>1 DEF Freed, ALife, Steps
<1> HIDE DEF n
<1>3. \A k \in BatchKinds : s.taken[k] \in Nat /\ Len(s.waits[k]) \in Nat
  BY ConsecutiveLen DEF Settled
<1>4. \A k \in BatchKinds : n.taken[k] - Len(n.waits[k]) - InHand(n, k) <= n.told[k]
  BY <1>2, <1>3 DEF Settled, InHand
<1>5. LifeIsSound(n)
  BY <1>2, <1>4 DEF LifeIsSound, Settled
<1> QED
  BY <1>5 DEF n

LEMMA NotPromptIsSettled ==
  ASSUME NEW s, LifeIsSound(s), s.step # "prompt"
  PROVE  Settled(s)
<1>1. \A k \in BatchKinds : s.taken[k] \in Nat /\ Len(s.waits[k]) \in Nat
  BY ConsecutiveLen DEF LifeIsSound
<1> QED
  BY <1>1 DEF LifeIsSound, Settled, InHand

LEMMA ToldIsSettled ==
  ASSUME NEW s, LifeIsSound(s), s.step = "prompt"
  PROVE  Settled(Tells(s))
<1> DEFINE n == Tells(s)
           k == s.queue
<1>1. s \in ALife /\ k \in BatchKinds /\ s.batch \in Nat
  BY DEF LifeIsSound, ALife
<1>2. [s.told EXCEPT ![k] = s.batch] \in [BatchKinds -> Nat]
  BY <1>1 DEF ALife
<1>3. n = [s EXCEPT !.told = [s.told EXCEPT ![k] = s.batch]]
  BY <1>1 DEF Tells, ALife
<1> HIDE DEF n, k
<1>4. /\ n \in ALife /\ n.waits = s.waits /\ n.taken = s.taken
      /\ n.told = [s.told EXCEPT ![k] = s.batch]
  BY <1>1, <1>2, <1>3 DEF ALife
<1>5. n.told[k] = s.batch /\ \A j \in BatchKinds : j # k => n.told[j] = s.told[j]
  BY <1>1, <1>4 DEF ALife
<1>6. s.batch = s.taken[k] - Len(s.waits[k])
  BY DEF LifeIsSound, k
<1>7. \A j \in BatchKinds : s.taken[j] \in Nat /\ Len(s.waits[j]) \in Nat
  BY ConsecutiveLen DEF LifeIsSound
<1>8. \A j \in BatchKinds : j # k => InHand(s, j) = 0
  BY DEF InHand, k
<1>9. \A j \in BatchKinds : n.taken[j] - Len(n.waits[j]) <= n.told[j]
  <2> SUFFICES ASSUME NEW j \in BatchKinds PROVE s.taken[j] - Len(s.waits[j]) <= n.told[j]
    BY <1>4
  <2>1. CASE j = k
    BY <1>1, <1>5, <1>6, <2>1
  <2>2. CASE j # k
    <3>1. s.taken[j] - Len(s.waits[j]) - 0 <= s.told[j]
      BY <1>8, <2>2 DEF LifeIsSound
    <3> QED
      BY <1>5, <1>7, <2>2, <3>1
  <2> QED
    BY <2>1, <2>2
<1>10. Settled(n)
  BY <1>4, <1>9 DEF Settled, LifeIsSound
<1> QED
  BY <1>10 DEF n

\* A prompt that failed, whether it was told or not.
LEMMA PutBackIsSettled ==
  ASSUME NEW s, NEW heard, s.step = "prompt", LifeIsSound(s),
         heard \in ALife, heard.step = "prompt", heard.queue = s.queue, heard.batch = s.batch,
         heard.waits = s.waits, heard.taken = s.taken,
         \A k \in BatchKinds : \/ heard.told[k] >= s.told[k]
                               \/ heard.told[k] = s.batch /\ k = s.queue
  PROVE  Settled(PutBack(heard))
<1> DEFINE n == PutBack(heard)
           k == s.queue
           w == <<s.batch>> \o s.waits[k]
<1>1. s \in ALife /\ k \in BatchKinds /\ s.batch \in Nat /\ s.batch > 0
  BY DEF LifeIsSound, ALife
<1>2. \A j \in BatchKinds : /\ Consecutive(s.waits[j], s.taken[j])
                            /\ s.taken[j] \in Nat /\ Len(s.waits[j]) \in Nat
                            /\ s.told[j] \in Nat /\ heard.told[j] \in Nat
  BY <1>1, ConsecutiveLen DEF LifeIsSound, ALife
<1>3. s.batch = s.taken[k] - Len(s.waits[k])
  BY DEF LifeIsSound
<1>4. Len(s.waits[k]) < s.taken[k]
  BY <1>1, <1>2, <1>3
<1>5. Consecutive(w, s.taken[k]) /\ Len(w) = Len(s.waits[k]) + 1
  BY <1>1, <1>2, <1>3, <1>4, ConsecutiveBack
<1>6. w \in Seq(Nat)
  BY <1>5, ConsecutiveLen
<1>7. n = [heard EXCEPT !.waits = [s.waits EXCEPT ![k] = w]]
  BY <1>1 DEF PutBack, ALife
<1>8. [s.waits EXCEPT ![k] = w] \in [BatchKinds -> Seq(Nat)]
  BY <1>1, <1>6 DEF ALife
<1> HIDE DEF n, w
<1>9. /\ n \in ALife /\ n.waits = [s.waits EXCEPT ![k] = w]
      /\ n.taken = s.taken /\ n.told = heard.told
  BY <1>7, <1>8 DEF ALife
<1>10. n.waits[k] = w /\ \A j \in BatchKinds : j # k => n.waits[j] = s.waits[j]
  BY <1>1, <1>9 DEF ALife
<1>11. \A j \in BatchKinds : Consecutive(n.waits[j], n.taken[j])
  BY <1>2, <1>5, <1>9, <1>10
<1>12. InHand(s, k) = 1 /\ \A j \in BatchKinds : j # k => InHand(s, j) = 0
  BY DEF InHand
<1>13. s.taken[k] - Len(s.waits[k]) - 1 <= s.told[k]
  BY <1>1, <1>12 DEF LifeIsSound
<1>14. \A j \in BatchKinds : j # k => s.taken[j] - Len(s.waits[j]) <= s.told[j]
  BY <1>2, <1>12 DEF LifeIsSound
<1> HIDE DEF k
<1>15. ASSUME NEW j \in BatchKinds PROVE n.taken[j] - Len(n.waits[j]) <= n.told[j]
  <2>1. CASE j = k
    <3>1. Len(n.waits[j]) = Len(s.waits[k]) + 1
      BY <1>5, <1>10, <2>1
    <3>2. n.told[j] >= s.told[j] \/ n.told[j] = s.batch
      BY <1>9
    <3> QED
      BY <1>2, <1>3, <1>9, <1>13, <2>1, <3>1, <3>2, SMTT(30)
  <2>2. CASE j # k
    <3>1. heard.told[j] >= s.told[j]
      BY <2>2 DEF k
    <3> QED
      BY <1>2, <1>9, <1>10, <1>14, <2>2, <3>1
  <2> QED
    BY <2>1, <2>2
<1>16. Settled(n)
  BY <1>9, <1>11, <1>15 DEF Settled
<1> QED
  BY <1>16 DEF n

\* A step of one life: it stays sound, and is not stuck when it is the opened one.
LEMMA LifeKeeps ==
  ASSUME PluginInv, NEW x \in Lives, NEW s, LifeIsSound(s), Unstuck(s),
         life' = [life EXCEPT ![x] = s], opened' = opened, host' \in {"idle", "busy"}
  PROVE  PluginInv'
<1>1. life \in [Lives -> ALife] /\ s \in ALife
  BY DEF PluginInv, LifeIsSound
<1>2. /\ life' \in [Lives -> ALife] /\ life'[x] = s
      /\ \A y \in Lives : y # x => life'[y] = life[y]
  BY <1>1
<1>3. \A y \in Lives : LifeIsSound(life'[y])
  BY <1>2 DEF PluginInv
<1>4. opened # NoLife => Unstuck(life'[opened])
  BY <1>2 DEF PluginInv
<1> QED
  BY <1>2, <1>3, <1>4 DEF PluginInv

LEMMA FinishedKeeps ==
  ASSUME PluginInv, NEW x \in Lives, NEW s, Settled(s),
         life' = Finished(x, s), opened' = opened, host' \in {"idle", "busy"}
  PROVE  PluginInv'
<1> DEFINE now(y) == IF y = x THEN Freed(s) ELSE life[y]
<1>1. LifeIsSound(Freed(s))
  BY FreedIsSound
<1>2. \A y \in Lives : LifeIsSound(now(y))
  BY <1>1 DEF PluginInv
<1>3. life' = [y \in Lives |-> IF y = opened THEN Scheduled(now(y)) ELSE now(y)]
  BY DEF Finished, Freed
<1> HIDE DEF now
<1>4. ASSUME NEW y \in Lives
      PROVE  LifeIsSound(life'[y]) /\ (y = opened => Unstuck(life'[y]))
  <2>1. LifeIsSound(Scheduled(now(y))) /\ Unstuck(Scheduled(now(y)))
    BY <1>2, ScheduledIsSound
  <2> QED
    BY <1>2, <1>3, <2>1
<1>5. \A y \in Lives : life'[y] \in ALife
  BY <1>4 DEF LifeIsSound
<1>6. life' \in [Lives -> ALife]
  BY <1>3, <1>5
<1> QED
  BY <1>4, <1>6 DEF PluginInv

LEMMA PluginInitially == PluginInit => PluginInv
<1> SUFFICES ASSUME PluginInit PROVE PluginInv
  OBVIOUS
<1>1. life = [x \in Lives |-> Fresh] /\ opened = NoLife /\ host = "busy"
  BY DEF PluginInit
<1>2. Fresh \in ALife
  BY FreshIsSound DEF LifeIsSound
<1> QED
  BY <1>1, <1>2, FreshIsSound DEF PluginInv

LEMMA UserPromptsKeeps == PluginInv /\ UserPrompts => PluginInv'
<1> SUFFICES ASSUME PluginInv, UserPrompts PROVE PluginInv'
  OBVIOUS
<1> DEFINE s == life[opened]
           n == [s EXCEPT !.idle = FALSE]
<1>1. opened \in Lives /\ LifeIsSound(s) /\ Unstuck(s)
  BY DEF UserPrompts, PluginInv
<1>2. life' = [life EXCEPT ![opened] = n] /\ opened' = opened /\ host' = "busy"
  BY DEF UserPrompts
<1> HIDE DEF s
<1>3. /\ LifeIsSound(n) /\ n.step = s.step /\ n.waits = s.waits /\ n.idle = FALSE
  BY <1>1, BelievedIsSound
<1> HIDE DEF n
<1>4. Unstuck(n)
  BY <1>1, <1>3 DEF Unstuck, Chosen
<1> QED
  BY <1>1, <1>2, <1>3, <1>4, LifeKeeps

LEMMA EventArrivesKeeps == PluginInv /\ EventArrives => PluginInv'
<1> SUFFICES ASSUME PluginInv, EventArrives PROVE PluginInv'
  OBVIOUS
<1>1. opened' = opened /\ host' = host /\ host \in {"idle", "busy"}
  BY DEF EventArrives, PluginInv
<1>2. CASE opened = NoLife
  BY <1>1, <1>2 DEF EventArrives, PluginInv
<1>3. CASE opened # NoLife
  <2> DEFINE s == life[opened]
             b == Head(news) = "idle"
             n == [s EXCEPT !.idle = b]
  <2>1. opened \in Lives /\ LifeIsSound(s) /\ b \in BOOLEAN
    BY <1>3 DEF PluginInv
  <2>2. life' = [life EXCEPT ![opened] = Scheduled(n)]
    BY <1>3 DEF EventArrives
  <2> HIDE DEF s, b
  <2>3. LifeIsSound(n)
    BY <2>1, BelievedIsSound
  <2> HIDE DEF n
  <2>4. LifeIsSound(Scheduled(n)) /\ Unstuck(Scheduled(n))
    BY <2>3, ScheduledIsSound
  <2> QED
    BY <1>1, <2>1, <2>2, <2>4, LifeKeeps
<1> QED
  BY <1>2, <1>3

LEMMA TakeBatchKeeps ==
  ASSUME PluginInv, NEW k \in BatchKinds, TakeBatch(k)
  PROVE  PluginInv'
<1> DEFINE s == life[opened]
<1>1. opened \in Lives /\ LifeIsSound(s) /\ host \in {"idle", "busy"}
  BY DEF TakeBatch, PluginInv
<1>2. life' = [life EXCEPT ![opened] = Scheduled(Pumped(s, k))]
  BY DEF TakeBatch
<1>3. opened' = opened /\ host' = host
  BY DEF TakeBatch
<1> HIDE DEF s
<1>4. LifeIsSound(Pumped(s, k))
  BY <1>1, PumpedIsSound
<1>5. LifeIsSound(Scheduled(Pumped(s, k))) /\ Unstuck(Scheduled(Pumped(s, k)))
  BY <1>4, ScheduledIsSound
<1> QED
  BY <1>1, <1>2, <1>3, <1>5, LifeKeeps

LEMMA OpenCloseKeeps ==
  ASSUME PluginInv, CloseLife \/ \E x \in Lives : OpenLife(x)
  PROVE  PluginInv'
<1>1. CASE CloseLife
  BY <1>1 DEF CloseLife, PluginInv
<1>2. ASSUME NEW x \in Lives, OpenLife(x) PROVE PluginInv'
  <2>1. opened' = x /\ life' = life /\ host' = host /\ life[x] = Fresh
    BY <1>2 DEF OpenLife
  <2>2. Unstuck(life[x])
    BY <2>1, FreshIsSound DEF Unstuck
  <2> QED
    BY <2>1, <2>2 DEF PluginInv
<1> QED
  BY <1>1, <1>2

LEMMA InjectionKeeps ==
  ASSUME PluginInv, NEW x \in Lives,
         InjectionBegins(x) \/ HostAnswers(x) \/ AnswerComes(x)
  PROVE  PluginInv'
<1> DEFINE s == life[x]
<1>1. LifeIsSound(s) /\ host \in {"idle", "busy"}
  BY DEF PluginInv
<1>2. opened' = opened /\ host' = host
  BY DEF InjectionBegins, HostAnswers, AnswerComes
<1>3. CASE InjectionBegins(x)
  <2>1. s.step = "begin"
    BY <1>3 DEF InjectionBegins
  <2>2. CASE s.idle
    <3>1. life' = [life EXCEPT ![x] = [s EXCEPT !.step = "asking"]]
      BY <1>3, <2>2 DEF InjectionBegins
    <3> HIDE DEF s
    <3>2. LifeIsSound([s EXCEPT !.step = "asking"]) /\ Unstuck([s EXCEPT !.step = "asking"])
      BY <1>1, <2>1, SteppedIsSound
    <3> QED
      BY <1>1, <1>2, <3>1, <3>2, LifeKeeps
  <2>3. CASE ~s.idle
    <3>1. life' = [life EXCEPT ![x] = Attempting(s)]
      BY <1>3, <2>3 DEF InjectionBegins
    <3> HIDE DEF s
    <3>2. LifeIsSound(Attempting(s)) /\ Unstuck(Attempting(s))
      BY <1>1, <2>1, AttemptingIsSound
    <3> QED
      BY <1>1, <1>2, <3>1, <3>2, LifeKeeps
  <2> QED
    BY <2>2, <2>3
<1>4. CASE HostAnswers(x)
  <2>1. s.step = "asking" /\ life' = [life EXCEPT ![x] = [s EXCEPT !.step = host]]
    BY <1>4 DEF HostAnswers
  <2> HIDE DEF s
  <2>2. LifeIsSound([s EXCEPT !.step = host]) /\ Unstuck([s EXCEPT !.step = host])
    BY <1>1, <2>1, SteppedIsSound
  <2> QED
    BY <1>1, <1>2, <2>1, <2>2, LifeKeeps
<1>5. CASE AnswerComes(x)
  <2> DEFINE busy == [s EXCEPT !.idle = FALSE]
  <2>1. /\ s.step \in {"idle", "busy"}
        /\ life' = IF s.step = "idle" THEN [life EXCEPT ![x] = Attempting(s)]
                   ELSE IF s.queue = "activity" THEN Finished(x, busy)
                   ELSE [life EXCEPT ![x] = Attempting(busy)]
    BY <1>5 DEF AnswerComes
  <2> HIDE DEF s
  <2>2. LifeIsSound(busy) /\ busy.step = s.step
    BY <1>1, BelievedIsSound
  <2> HIDE DEF busy
  <2>3. /\ LifeIsSound(Attempting(s)) /\ Unstuck(Attempting(s))
        /\ LifeIsSound(Attempting(busy)) /\ Unstuck(Attempting(busy))
    BY <1>1, <2>1, <2>2, AttemptingIsSound
  <2>4. Settled(busy)
    BY <2>1, <2>2, NotPromptIsSettled
  <2>5. CASE s.step = "idle"
    BY <1>1, <1>2, <2>1, <2>3, <2>5, LifeKeeps
  <2>6. CASE s.step # "idle" /\ s.queue = "activity"
    BY <1>1, <1>2, <2>1, <2>4, <2>6, FinishedKeeps
  <2>7. CASE s.step # "idle" /\ s.queue # "activity"
    BY <1>1, <1>2, <2>1, <2>3, <2>7, LifeKeeps
  <2> QED
    BY <2>5, <2>6, <2>7
<1> QED
  BY <1>3, <1>4, <1>5

LEMMA PromptKeeps ==
  ASSUME PluginInv, NEW x \in Lives, PromptIsTold(x) \/ CallFails(x)
  PROVE  PluginInv'
<1> DEFINE s == life[x]
<1>1. LifeIsSound(s) /\ s \in ALife /\ host \in {"idle", "busy"}
  BY DEF PluginInv, LifeIsSound
<1>2. opened' = opened /\ host' \in {"idle", "busy"}
  BY <1>1 DEF PromptIsTold, CallFails
<1>3. \/ s.step = "prompt" /\ life' = Finished(x, Tells(s))
      \/ s.step = "asking" /\ life' = Finished(x, s)
      \/ s.step = "prompt" /\ life' = Finished(x, PutBack(s))
      \/ s.step = "prompt" /\ life' = Finished(x, PutBack(Tells(s)))
  BY DEF PromptIsTold, CallFails, PutBack
<1> HIDE DEF s
<1>4. s.step = "prompt" => Settled(Tells(s))
  BY <1>1, ToldIsSettled
<1>5. s.step = "asking" => Settled(s)
  BY <1>1, NotPromptIsSettled
<1>6. s.step = "prompt" => Settled(PutBack(s))
  <2>1. \A k \in BatchKinds : s.told[k] \in Nat
    BY <1>1 DEF ALife
  <2>2. \A k \in BatchKinds : s.told[k] >= s.told[k]
    BY <2>1
  <2> QED
    BY <1>1, <2>2, PutBackIsSettled
<1>7. s.step = "prompt" => Settled(PutBack(Tells(s)))
  <2> SUFFICES ASSUME s.step = "prompt" PROVE Settled(PutBack(Tells(s)))
    OBVIOUS
  <2> DEFINE n == Tells(s)
             mark == [s.told EXCEPT ![s.queue] = s.batch]
  <2>1. s.queue \in BatchKinds /\ s.batch \in Nat
    BY <1>1 DEF LifeIsSound, ALife
  <2>2. mark \in [BatchKinds -> Nat]
    BY <1>1, <2>1 DEF ALife
  <2>3. n = [s EXCEPT !.told = mark]
    BY <1>1, <2>1 DEF Tells, ALife
  <2> HIDE DEF n, mark
  <2>4. /\ n \in ALife /\ n.step = s.step /\ n.queue = s.queue /\ n.batch = s.batch
        /\ n.waits = s.waits /\ n.taken = s.taken /\ n.told = mark
    BY <1>1, <2>2, <2>3 DEF ALife
  <2>5. ASSUME NEW k \in BatchKinds
        PROVE  \/ n.told[k] >= s.told[k]
               \/ n.told[k] = s.batch /\ k = s.queue
    <3>1. s.told \in [BatchKinds -> Nat]
      BY <1>1 DEF ALife
    <3>2. CASE k = s.queue
      BY <2>1, <2>4, <3>1, <3>2 DEF mark
    <3>3. CASE k # s.queue
      <4>1. n.told[k] = s.told[k]
        BY <2>1, <2>4, <3>1, <3>3 DEF mark
      <4>2. s.told[k] \in Nat
        BY <3>1
      <4> QED
        BY <4>1, <4>2
    <3> QED
      BY <3>2, <3>3
  <2>6. Settled(PutBack(n))
    BY <1>1, <2>4, <2>5, PutBackIsSettled
  <2> QED
    BY <2>6 DEF n
<1>8. PICK n : Settled(n) /\ life' = Finished(x, n)
  BY <1>3, <1>4, <1>5, <1>6, <1>7
<1> QED
  BY <1>2, <1>8, FinishedKeeps

LEMMA PluginStep == PluginInv /\ [PluginNext]_pluginVars => PluginInv'
<1> SUFFICES ASSUME PluginInv, [PluginNext]_pluginVars PROVE PluginInv'
  OBVIOUS
<1>1. CASE TurnEnds
  BY <1>1 DEF TurnEnds, PluginInv
<1>2. CASE UNCHANGED pluginVars
  BY <1>2 DEF pluginVars, PluginInv
<1> QED
  BY <1>1, <1>2, UserPromptsKeeps, EventArrivesKeeps, TakeBatchKeeps, OpenCloseKeeps,
     InjectionKeeps, PromptKeeps DEF PluginNext

LEMMA PluginImplies == PluginInv => BatchesReachSession
<1> SUFFICES ASSUME PluginInv PROVE BatchesReachSession
  OBVIOUS
<1>1. NoneIsStuck
  BY DEF PluginInv, NoneIsStuck, Unstuck
<1>2. ASSUME NEW x \in Lives, NEW k \in BatchKinds
      PROVE  /\ \A i \in DOMAIN Waiting(x, k) :
                   Waiting(x, k)[i] = life[x].taken[k] - Len(Waiting(x, k)) + i
             /\ life[x].taken[k] - Len(Waiting(x, k)) <= life[x].told[k]
  <2> DEFINE s == life[x]
             w == s.waits[k]
             last == s.taken[k]
  <2>1. /\ LifeIsSound(s) /\ Consecutive(w, last)
        /\ last - Len(w) - InHand(s, k) <= s.told[k]
    BY DEF PluginInv, LifeIsSound
  <2>2. w \in Seq(Nat) /\ last \in Nat /\ Len(w) \in Nat
    BY <2>1, ConsecutiveLen
  <2>3. CASE s.step = "prompt" /\ s.queue = k
    <3>1. s.batch = last - Len(w) /\ s.batch > 0 /\ InHand(s, k) = 1
      BY <2>1, <2>3 DEF LifeIsSound, InHand
    <3>2. Waiting(x, k) = <<last - Len(w)>> \o w
      BY <2>3, <3>1 DEF Waiting
    <3> HIDE DEF s, w, last
    <3>3. Len(w) < last
      BY <2>2, <3>1
    <3>4. Consecutive(Waiting(x, k), last) /\ Len(Waiting(x, k)) = Len(w) + 1
      BY <2>1, <3>2, <3>3, ConsecutiveBack
    <3>5. last - Len(Waiting(x, k)) <= s.told[k]
      BY <2>1, <2>2, <3>1, <3>4
    <3>6. \A i \in DOMAIN Waiting(x, k) : Waiting(x, k)[i] = last - Len(Waiting(x, k)) + i
      BY <3>4 DEF Consecutive
    <3> QED
      BY <3>5, <3>6 DEF s, last
  <2>4. CASE ~(s.step = "prompt" /\ s.queue = k)
    <3>0. \A v \in Seq(Nat) : <<>> \o v = v
      OBVIOUS
    <3>1. Waiting(x, k) = w
      <4>1. Waiting(x, k) = <<>> \o w
        BY <2>4 DEF Waiting
      <4> QED
        BY <2>2, <3>0, <4>1, Zenon
    <3>2. InHand(s, k) = 0
      BY <2>4 DEF InHand
    <3> HIDE DEF s, w, last
    <3>3. last - Len(Waiting(x, k)) <= s.told[k]
      BY <2>1, <2>2, <3>1, <3>2
    <3>4. \A i \in DOMAIN Waiting(x, k) : Waiting(x, k)[i] = last - Len(Waiting(x, k)) + i
      BY <2>1, <2>2, <3>1 DEF Consecutive
    <3> QED
      BY <3>3, <3>4 DEF s, last
  <2> QED
    BY <2>3, <2>4
<1>3. InOrder
  BY <1>2 DEF InOrder
<1> QED
  BY <1>1, <1>3 DEF BatchesReachSession

\* No batch of the plugin is passed over and none is stuck, though prompts and statuses fail,
\* answers are lost, and the session is deleted and comes back, for any number of lives, batches
\* and failures.
THEOREM PluginLosesNothing == PluginSpec => []BatchesReachSession
<1> QED
  BY PluginInitially, PluginStep, PluginImplies, PTL DEF PluginSpec

-----------------------------------------------------------------------------
(* Calls and connections. *)

UpFrames == [kind : {"request", "cancel"}, id : Requests]
DownFrames == [id : Requests, outcome : {"result", "error"}]

IpcTypes ==
    /\ IpcTypeOK
    /\ up \in [Connections -> Seq(UpFrames)] /\ down \in [Connections -> Seq(DownFrames)]

\* A frame is on the connection of its request; a result tells of an effect.
FramesAreTheirs ==
    \A c \in Connections :
        /\ \A i \in 1..Len(up[c]) : conn[up[c][i].id] = c
        /\ \A i \in 1..Len(down[c]) :
              /\ conn[down[c][i].id] = c
              /\ down[c][i].outcome = "result" => down[c][i].id \in effect

\* A call that was refused was not sent, and one whose connection is not chosen is not known to
\* anybody.
RefusedAreUnsent ==
    /\ \A r \in Requests : response[r] \in {"closed", "cancelled"} \/ conn[r] = NoConnection =>
          /\ r \notin pending \cup running \cup effect
          /\ \A c \in Connections : \A i \in 1..Len(up[c]) : up[c][i].id # r
    /\ \A r \in Requests : conn[r] = NoConnection => response[r] = "none"
    /\ \A r \in running \cup pending : conn[r] \in Connections

IpcInv == IpcTypes /\ FramesAreTheirs /\ RefusedAreUnsent /\ EndsAgree

\* Frames at the end of a queue, and what is left of it.
LEMMA Queues ==
  ASSUME NEW T, NEW s \in Seq(T), NEW x \in T
  PROVE  /\ Append(s, x) \in Seq(T)
         /\ \A i \in 1..Len(Append(s, x)) :
               (i \in 1..Len(s) /\ Append(s, x)[i] = s[i]) \/ Append(s, x)[i] = x
OBVIOUS

LEMMA QueueHeads ==
  ASSUME NEW T, NEW s \in Seq(T), s # <<>>
  PROVE  /\ Head(s) \in T /\ Tail(s) \in Seq(T) /\ 1 \in 1..Len(s) /\ s[1] = Head(s)
         /\ \A i \in 1..Len(Tail(s)) : i + 1 \in 1..Len(s) /\ Tail(s)[i] = s[i + 1]
OBVIOUS

LEMMA FramesAre ==
  /\ <<>> \in Seq(UpFrames) /\ <<>> \in Seq(DownFrames)
  /\ \A f \in UpFrames : f.id \in Requests
  /\ \A f \in DownFrames : f.id \in Requests /\ f.outcome \in {"result", "error"}
  /\ \A r \in Requests :
        /\ [kind |-> "request", id |-> r] \in UpFrames /\ [kind |-> "cancel", id |-> r] \in UpFrames
        /\ [id |-> r, outcome |-> "result"] \in DownFrames
        /\ [id |-> r, outcome |-> "error"] \in DownFrames
BY DEF UpFrames, DownFrames

LEMMA IpcInvHolds == IpcSpec => []IpcInv
<1>1. IpcInit => IpcInv
  BY ConnectionsAssumption DEF IpcInit, IpcInv, IpcTypes, IpcTypeOK, FramesAreTheirs, RefusedAreUnsent, EndsAgree,
     ResponsesAreTrue, SessionsEndLast, ReleasedLast, DrainedIsQuiet, OrphansAreAborted, Responses
<1>2. IpcInv /\ [IpcNext]_ipcVars => IpcInv'
  <2> SUFFICES ASSUME IpcInv, [IpcNext]_ipcVars PROVE IpcInv'
    OBVIOUS
  <2> USE ConnectionsAssumption, FramesAre DEF IpcInv, IpcTypes, IpcTypeOK, Responses, rpcVars, wireVars, jobVars,
     Of, Settle
  <2>1. CASE ServerCloses
    <3>1. IpcTypes'
      BY <2>1 DEF ServerCloses
    <3>2. FramesAreTheirs'
      BY <2>1 DEF ServerCloses, FramesAreTheirs
    <3>3. RefusedAreUnsent'
      BY <2>1 DEF ServerCloses, RefusedAreUnsent
    <3>4. ResponsesAreTrue'
      BY <2>1 DEF ServerCloses, ResponsesAreTrue, EndsAgree, RefusedAreUnsent, FramesAreTheirs
    <3>5. SessionsEndLast'
      BY <2>1 DEF ServerCloses, SessionsEndLast, ReleasedLast, DrainedIsQuiet, OrphansAreAborted, EndsAgree, RefusedAreUnsent
    <3> QED
      BY <3>1, <3>2, <3>3, <3>4, <3>5 DEF EndsAgree
  <2>2. CASE Drain
    <3>1. IpcTypes'
      BY <2>2 DEF Drain
    <3>2. FramesAreTheirs'
      BY <2>2 DEF Drain, FramesAreTheirs
    <3>3. RefusedAreUnsent'
      BY <2>2 DEF Drain, RefusedAreUnsent
    <3>4. ResponsesAreTrue'
      BY <2>2 DEF Drain, ResponsesAreTrue, EndsAgree, RefusedAreUnsent, FramesAreTheirs
    <3>5. SessionsEndLast'
      <4>1. /\ running = {} /\ \A c \in Connections : server[c] = "released"
            /\ running' = running /\ server' = server
        BY <2>2 DEF Drain, rpcVars, wireVars, jobVars
      <4> QED
        BY <4>1 DEF SessionsEndLast, ReleasedLast, DrainedIsQuiet, OrphansAreAborted
    <3> QED
      BY <3>1, <3>2, <3>3, <3>4, <3>5 DEF EndsAgree
  <2>3. ASSUME NEW r \in Requests, Cancel(r) PROVE IpcInv'
    <3> DEFINE frame == [kind |-> "cancel", id |-> r]
    <3>1. conn[r] \in Connections /\ frame \in UpFrames
      BY <2>3 DEF Cancel, RefusedAreUnsent
    <3>2. up[conn[r]] \in Seq(UpFrames)
      BY <3>1
    <3>3. IpcTypes'
      BY <2>3, <3>1, <3>2, Queues DEF Cancel
    <3>4. FramesAreTheirs'
      BY <2>3, <3>1, <3>2, Queues DEF Cancel, FramesAreTheirs
    <3>5. RefusedAreUnsent'
      BY <2>3, <3>1, <3>2, Queues, SMTT(30) DEF Cancel, RefusedAreUnsent
    <3>6. ResponsesAreTrue'
      BY <2>3, <3>1, <3>2, Queues DEF Cancel, ResponsesAreTrue, EndsAgree, RefusedAreUnsent, FramesAreTheirs
    <3>7. SessionsEndLast'
      BY <2>3, <3>1, <3>2, Queues DEF Cancel, SessionsEndLast, ReleasedLast, DrainedIsQuiet, OrphansAreAborted, EndsAgree, RefusedAreUnsent
    <3> QED
      BY <3>3, <3>4, <3>5, <3>6, <3>7 DEF EndsAgree
  <2>4. ASSUME NEW r \in Requests, Deadline(r) PROVE IpcInv'
    <3>1. IpcTypes'
      BY <2>4 DEF Deadline
    <3>2. FramesAreTheirs'
      BY <2>4 DEF Deadline, FramesAreTheirs
    <3>3. RefusedAreUnsent'
      BY <2>4 DEF Deadline, RefusedAreUnsent
    <3>4. ResponsesAreTrue'
      BY <2>4 DEF Deadline, ResponsesAreTrue, EndsAgree, RefusedAreUnsent, FramesAreTheirs
    <3>5. SessionsEndLast'
      BY <2>4 DEF Deadline, SessionsEndLast, ReleasedLast, DrainedIsQuiet, OrphansAreAborted, EndsAgree, RefusedAreUnsent
    <3> QED
      BY <3>1, <3>2, <3>3, <3>4, <3>5 DEF EndsAgree
  <2>5. ASSUME NEW r \in Requests, Act(r) PROVE IpcInv'
    <3>1. IpcTypes'
      BY <2>5 DEF Act
    <3>2. FramesAreTheirs'
      BY <2>5 DEF Act, FramesAreTheirs
    <3>3. RefusedAreUnsent'
      BY <2>5 DEF Act, RefusedAreUnsent
    <3>4. ResponsesAreTrue'
      BY <2>5 DEF Act, ResponsesAreTrue, EndsAgree, RefusedAreUnsent, FramesAreTheirs
    <3>5. SessionsEndLast'
      BY <2>5 DEF Act, SessionsEndLast, ReleasedLast, DrainedIsQuiet, OrphansAreAborted, EndsAgree, RefusedAreUnsent
    <3> QED
      BY <3>1, <3>2, <3>3, <3>4, <3>5 DEF EndsAgree
  <2>6. ASSUME NEW r \in Requests, Finish(r) PROVE IpcInv'
    <3> DEFINE c == conn[r]
    <3>0. /\ r \in running /\ running' = running \ {r} /\ c \in Connections
          /\ UNCHANGED <<rpcVars, up, client, server, stopped, effect, serving>>
          /\ down[c] \in Seq(DownFrames)
      BY <2>6 DEF Finish, RefusedAreUnsent
    <3>1. \/ UNCHANGED down
          \/ \E f \in DownFrames :
                /\ f.id = r /\ (f.outcome = "result" => r \in effect)
                /\ down' = [down EXCEPT ![c] = Append(down[c], f)]
      BY <2>6 DEF Finish
    <3> HIDE DEF c
    <3>2. IpcTypes' /\ FramesAreTheirs'
      <4>1. CASE UNCHANGED down
        BY <3>0, <4>1 DEF FramesAreTheirs
      <4>2. ASSUME NEW f \in DownFrames, f.id = r, f.outcome = "result" => r \in effect,
                   down' = [down EXCEPT ![c] = Append(down[c], f)]
            PROVE  IpcTypes' /\ FramesAreTheirs'
        <5> DEFINE s == Append(down[c], f)
        <5>1. /\ s \in Seq(DownFrames) /\ down' = [down EXCEPT ![c] = s]
              /\ \A i \in 1..Len(s) : (i \in 1..Len(down[c]) /\ s[i] = down[c][i]) \/ s[i] = f
          BY <3>0, <4>2, Queues
        <5> HIDE DEF s
        <5>2. IpcTypes'
          BY <3>0, <5>1
        <5>3. FramesAreTheirs'
          BY <3>0, <4>2, <5>1 DEF FramesAreTheirs, c
        <5> QED
          BY <5>2, <5>3
      <4> QED
        BY <3>1, <4>1, <4>2
    <3>3. RefusedAreUnsent'
      BY <3>0 DEF RefusedAreUnsent
    <3>4. ResponsesAreTrue'
      BY <3>0 DEF ResponsesAreTrue, EndsAgree
    <3>5. SessionsEndLast'
      BY <3>0 DEF SessionsEndLast, ReleasedLast, DrainedIsQuiet, OrphansAreAborted, EndsAgree
    <3> QED
      BY <3>2, <3>3, <3>4, <3>5 DEF EndsAgree
  <2>7. ASSUME NEW r \in Requests, NEW c \in Connections, SendCall(r, c) PROVE IpcInv'
    <3> DEFINE f == [kind |-> "request", id |-> r]
    <3>0. /\ f \in UpFrames /\ f.id = r /\ conn[r] = NoConnection /\ conn' = [conn EXCEPT ![r] = c]
          /\ UNCHANGED <<overdue, down, client, server, jobVars, serving>>
          /\ up[c] \in Seq(UpFrames)
      BY <2>7 DEF SendCall
    <3>1. CASE client[c] = "open"
      <4>1. /\ pending' = pending \cup {r} /\ UNCHANGED response
            /\ up' = [up EXCEPT ![c] = Append(up[c], f)]
        BY <2>7, <3>1 DEF SendCall
      <4> HIDE DEF f
      <4>2. /\ Append(up[c], f) \in Seq(UpFrames)
            /\ \A i \in 1..Len(Append(up[c], f)) :
                  (i \in 1..Len(up[c]) /\ Append(up[c], f)[i] = up[c][i]) \/ Append(up[c], f)[i] = f
        BY <3>0, Queues
      <4> DEFINE s == Append(up[c], f)
      <4> HIDE DEF s
      <4>3. /\ s \in Seq(UpFrames) /\ up' = [up EXCEPT ![c] = s]
            /\ \A i \in 1..Len(s) : (i \in 1..Len(up[c]) /\ s[i] = up[c][i]) \/ s[i] = f
        BY <4>1, <4>2 DEF s
      <4>4. IpcTypes'
        BY <3>0, <4>1, <4>3
      <4>5. FramesAreTheirs'
        <5>1. ASSUME NEW x \in Connections, NEW i \in 1..Len(up'[x]) PROVE conn'[up'[x][i].id] = x
          <6>1. CASE x = c
            <7>1. up'[c] = s /\ i \in 1..Len(s)
              BY <4>3, <6>1
            <7>2. \A j \in 1..Len(up[c]) :
                    up[c][j].id # r /\ conn[up[c][j].id] = c /\ up[c][j].id \in Requests
              BY <3>0 DEF FramesAreTheirs, RefusedAreUnsent
            <7>3. conn'[r] = c /\ \A q \in Requests : q # r => conn'[q] = conn[q]
              BY <3>0
            <7>4. CASE s[i] = f
              BY <3>0, <6>1, <7>1, <7>3, <7>4
            <7>5. CASE i \in 1..Len(up[c]) /\ s[i] = up[c][i]
              BY <6>1, <7>1, <7>2, <7>3, <7>5
            <7> QED
              BY <4>3, <7>1, <7>4, <7>5
          <6>2. CASE x # c
            BY <3>0, <4>3, <6>2 DEF FramesAreTheirs, RefusedAreUnsent
          <6> QED
            BY <6>1, <6>2
        <5>2. ASSUME NEW x \in Connections, NEW i \in 1..Len(down[x])
              PROVE  /\ conn'[down[x][i].id] = x
                     /\ down[x][i].outcome = "result" => down[x][i].id \in effect
          BY <3>0 DEF FramesAreTheirs
        <5> QED
          BY <3>0, <5>1, <5>2 DEF FramesAreTheirs
      <4>6. RefusedAreUnsent'
        BY <3>0, <4>1, <4>3, SMTT(30) DEF RefusedAreUnsent
      <4>7. ResponsesAreTrue'
        BY <3>0, <4>1 DEF ResponsesAreTrue, EndsAgree
      <4>8. SessionsEndLast'
        BY <3>0, <4>1 DEF SessionsEndLast, ReleasedLast, DrainedIsQuiet, OrphansAreAborted, EndsAgree,
                          RefusedAreUnsent
      <4> QED
        BY <4>4, <4>5, <4>6, <4>7, <4>8 DEF EndsAgree
    <3>2. CASE client[c] # "open"
      <4>1. response' = [response EXCEPT ![r] = "closed"] /\ UNCHANGED <<pending, up>>
        BY <2>7, <3>2 DEF SendCall
      <4>2. IpcTypes'
        BY <3>0, <4>1
      <4>3. FramesAreTheirs'
        BY <3>0, <4>1 DEF FramesAreTheirs, RefusedAreUnsent
      <4>4. RefusedAreUnsent'
        BY <3>0, <4>1 DEF RefusedAreUnsent
      <4>5. ResponsesAreTrue'
        BY <3>0, <4>1 DEF ResponsesAreTrue, EndsAgree, RefusedAreUnsent
      <4>6. SessionsEndLast'
        BY <3>0, <4>1 DEF SessionsEndLast, ReleasedLast, DrainedIsQuiet, OrphansAreAborted, EndsAgree,
                          RefusedAreUnsent
      <4> QED
        BY <4>2, <4>3, <4>4, <4>5, <4>6 DEF EndsAgree
    <3> QED
      BY <3>1, <3>2
  <2>8. ASSUME NEW r \in Requests, NEW c \in Connections, CallAborted(r, c) PROVE IpcInv'
    <3>1. IpcTypes'
      BY <2>8 DEF CallAborted
    <3>2. FramesAreTheirs'
      BY <2>8 DEF CallAborted, FramesAreTheirs
    <3>3. RefusedAreUnsent'
      BY <2>8 DEF CallAborted, RefusedAreUnsent
    <3>4. ResponsesAreTrue'
      BY <2>8 DEF CallAborted, ResponsesAreTrue, EndsAgree, RefusedAreUnsent, FramesAreTheirs
    <3>5. SessionsEndLast'
      BY <2>8 DEF CallAborted, SessionsEndLast, ReleasedLast, DrainedIsQuiet, OrphansAreAborted, EndsAgree, RefusedAreUnsent
    <3> QED
      BY <3>1, <3>2, <3>3, <3>4, <3>5 DEF EndsAgree
  <2>9. ASSUME NEW c \in Connections, Receive(c) PROVE IpcInv'
    <3> DEFINE f == Head(down[c])
    <3>1. down[c] \in Seq(DownFrames) /\ down[c] # <<>> /\ down' = [down EXCEPT ![c] = Tail(down[c])]
      BY <2>9 DEF Receive
    <3>2. f \in DownFrames /\ 1 \in 1..Len(down[c]) /\ down[c][1] = f
      BY <3>1, QueueHeads
    <3>3. conn[f.id] = c /\ (f.outcome = "result" => f.id \in effect)
      <4> HIDE DEF f
      <4>1. down[c][1].id = f.id /\ down[c][1].outcome = f.outcome
        BY <3>2
      <4> QED
        BY <3>2, <4>1 DEF FramesAreTheirs
    <3>4. /\ Tail(down[c]) \in Seq(DownFrames)
          /\ \A i \in 1..Len(Tail(down[c])) :
                i + 1 \in 1..Len(down[c]) /\ Tail(down[c])[i] = down[c][i + 1]
      BY <3>1, QueueHeads
    <3>5. /\ \/ f.id \in pending /\ Settle({f.id}, f.outcome) /\ UNCHANGED overdue
             \/ overdue' = overdue \ {f.id} /\ UNCHANGED <<response, pending>>
          /\ UNCHANGED <<conn, up, client, server, jobVars, serving>>
      BY <2>9 DEF Receive
    <3> HIDE DEF f
    <3>6. IpcTypes'
      BY <3>1, <3>2, <3>3, <3>4, <3>5
    <3>7. FramesAreTheirs'
      BY <3>1, <3>2, <3>3, <3>4, <3>5 DEF FramesAreTheirs
    <3>8. RefusedAreUnsent'
      BY <3>1, <3>2, <3>3, <3>4, <3>5, SMTT(30) DEF RefusedAreUnsent
    <3>9. ResponsesAreTrue'
      BY <3>1, <3>2, <3>3, <3>4, <3>5 DEF ResponsesAreTrue, EndsAgree, RefusedAreUnsent, FramesAreTheirs
    <3>10. SessionsEndLast'
      BY <3>1, <3>2, <3>3, <3>4, <3>5 DEF SessionsEndLast, ReleasedLast, DrainedIsQuiet, OrphansAreAborted, EndsAgree, RefusedAreUnsent
    <3> QED
      BY <3>6, <3>7, <3>8, <3>9, <3>10 DEF EndsAgree
  <2>10. ASSUME NEW c \in Connections, ClientCloses(c) PROVE IpcInv'
    <3>1. IpcTypes'
      BY <2>10 DEF ClientCloses
    <3>2. FramesAreTheirs'
      BY <2>10 DEF ClientCloses, FramesAreTheirs
    <3>3. RefusedAreUnsent'
      BY <2>10 DEF ClientCloses, RefusedAreUnsent
    <3>4. ResponsesAreTrue'
      BY <2>10 DEF ClientCloses, ResponsesAreTrue, EndsAgree, RefusedAreUnsent, FramesAreTheirs
    <3>5. SessionsEndLast'
      BY <2>10 DEF ClientCloses, SessionsEndLast, ReleasedLast, DrainedIsQuiet, OrphansAreAborted, EndsAgree, RefusedAreUnsent
    <3> QED
      BY <3>1, <3>2, <3>3, <3>4, <3>5 DEF EndsAgree
  <2>11. ASSUME NEW c \in Connections, Serve(c) PROVE IpcInv'
    <3> DEFINE f == Head(up[c])
    <3>1. /\ up[c] \in Seq(UpFrames) /\ server[c] = "open" /\ up[c] # <<>>
          /\ up' = [up EXCEPT ![c] = Tail(up[c])]
          /\ \/ f.kind = "request" /\ running' = running \cup {f.id} /\ UNCHANGED stopped
             \/ f.kind # "request" /\ stopped' = stopped \cup ({f.id} \cap running) /\ UNCHANGED running
          /\ UNCHANGED <<rpcVars, down, client, server, effect, serving>>
      BY <2>11 DEF Serve
    <3>2. f \in UpFrames /\ 1 \in 1..Len(up[c]) /\ up[c][1] = f
      BY <3>1, QueueHeads
    <3>3. /\ f.id \in Requests /\ conn[f.id] = c
          /\ response[f.id] \notin {"closed", "cancelled"} /\ conn[f.id] # NoConnection
      BY <3>2 DEF FramesAreTheirs, RefusedAreUnsent
    <3>4. /\ Tail(up[c]) \in Seq(UpFrames)
          /\ \A i \in 1..Len(Tail(up[c])) : i + 1 \in 1..Len(up[c]) /\ Tail(up[c])[i] = up[c][i + 1]
      BY <3>1, QueueHeads
    <3> HIDE DEF f
    <3>5. IpcTypes'
      BY <3>1, <3>3, <3>4
    <3>6. FramesAreTheirs'
      BY <3>1, <3>3, <3>4 DEF FramesAreTheirs
    <3>7. RefusedAreUnsent'
      BY <3>1, <3>3, <3>4, SMTT(30) DEF RefusedAreUnsent
    <3>8. ResponsesAreTrue'
      BY <3>1, <3>3, <3>4 DEF ResponsesAreTrue, EndsAgree, RefusedAreUnsent, FramesAreTheirs
    <3>9. SessionsEndLast'
      BY <3>1, <3>3, <3>4 DEF SessionsEndLast, ReleasedLast, DrainedIsQuiet, OrphansAreAborted, EndsAgree, RefusedAreUnsent
    <3> QED
      BY <3>5, <3>6, <3>7, <3>8, <3>9 DEF EndsAgree
  <2>12. ASSUME NEW c \in Connections, SocketCloses(c) PROVE IpcInv'
    <3>1. IpcTypes'
      BY <2>12 DEF SocketCloses
    <3>2. FramesAreTheirs'
      BY <2>12 DEF SocketCloses, FramesAreTheirs
    <3>3. RefusedAreUnsent'
      BY <2>12 DEF SocketCloses, RefusedAreUnsent
    <3>4. ResponsesAreTrue'
      BY <2>12 DEF SocketCloses, ResponsesAreTrue, EndsAgree, RefusedAreUnsent, FramesAreTheirs
    <3>5. SessionsEndLast'
      BY <2>12 DEF SocketCloses, SessionsEndLast, ReleasedLast, DrainedIsQuiet, OrphansAreAborted, EndsAgree, RefusedAreUnsent
    <3> QED
      BY <3>1, <3>2, <3>3, <3>4, <3>5 DEF EndsAgree
  <2>13. ASSUME NEW c \in Connections, Disconnect(c) \/ Disconnected(c) PROVE IpcInv'
    <3>1. IpcTypes'
      BY <2>13 DEF Disconnect, Disconnected
    <3>2. FramesAreTheirs'
      <4>1. UNCHANGED <<rpcVars, wireVars, jobVars, serving>>
        BY <2>13 DEF Disconnect, Disconnected
      <4> QED
        BY <4>1 DEF FramesAreTheirs
    <3>3. RefusedAreUnsent'
      BY <2>13 DEF Disconnect, Disconnected, RefusedAreUnsent
    <3>4. ResponsesAreTrue'
      BY <2>13 DEF Disconnect, Disconnected, ResponsesAreTrue, EndsAgree, RefusedAreUnsent, FramesAreTheirs
    <3>5. SessionsEndLast'
      BY <2>13 DEF Disconnect, Disconnected, SessionsEndLast, ReleasedLast, DrainedIsQuiet, OrphansAreAborted, EndsAgree, RefusedAreUnsent
    <3> QED
      BY <3>1, <3>2, <3>3, <3>4, <3>5 DEF EndsAgree
  <2>14. CASE UNCHANGED ipcVars
    <3>1. IpcTypes'
      BY <2>14 DEF ipcVars
    <3>2. FramesAreTheirs'
      BY <2>14 DEF ipcVars, FramesAreTheirs
    <3>3. RefusedAreUnsent'
      BY <2>14 DEF ipcVars, RefusedAreUnsent
    <3>4. ResponsesAreTrue'
      BY <2>14 DEF ipcVars, ResponsesAreTrue, EndsAgree, RefusedAreUnsent, FramesAreTheirs
    <3>5. SessionsEndLast'
      BY <2>14 DEF ipcVars, SessionsEndLast, ReleasedLast, DrainedIsQuiet, OrphansAreAborted, EndsAgree, RefusedAreUnsent
    <3> QED
      BY <3>1, <3>2, <3>3, <3>4, <3>5 DEF EndsAgree
  <2> QED
    BY <2>1, <2>2, <2>3, <2>4, <2>5, <2>6, <2>7, <2>8, <2>9, <2>10, <2>11, <2>12, <2>13, <2>14
       DEF IpcNext
<1> QED
  BY <1>1, <1>2, PTL DEF IpcSpec

\* For any requests and connections: what a caller is told of its call is so, and the sessions and
\* the storage of a daemon end after the handlers that use them, whoever closes first, cancels, or
\* is late.
THEOREM EndsStayInAgreement == IpcSpec => []EndsAgree
<1>1. IpcInv => EndsAgree
  BY DEF IpcInv
<1> QED
  BY <1>1, IpcInvHolds, PTL

-----------------------------------------------------------------------------
(* The adapter and its session. *)

CallUnderway == {"sent", "late", "done", "answered"}

LinkTypes ==
    /\ link \in [Links -> {"unused", "connected", "dead"}]
    /\ session \in [Links -> AgentNames \cup {NoName}]
    /\ connecting \in [at : {"no", "daemon", "opening", "opened", "failed"},
                       over : Links \cup {NoLink}, name : AgentNames \cup {NoName}]
    /\ linkInUse \in Links \cup {NoLink} /\ heartbeat \in {NoLink, linkInUse}
    /\ adapterStopped \in {"no", "closing", "yes"}
    /\ preferred \in AgentNames \cup {NoName}
    /\ doubt \in {"no", "pending", "yes"}
    /\ toolCall \in [ToolCalls ->
          [at : {"idle", "waits"}, name : AgentNames \cup {NoName}]
          \cup [at : CallUnderway, over : Links \cup {NoLink}, name : AgentNames \cup {NoName}]]

\* An attempt has a socket of its own, which is unused until it is connected; it is made while the
\* one in use is gone. The session it opened has the name it was given, if it still is.
AttemptIsApart ==
    /\ connecting.at = "no" => connecting = NotConnecting
    /\ connecting.at # "no" => ~Usable /\ connecting.over # linkInUse /\ connecting.over # NoLink
    /\ connecting.at = "daemon" => link[connecting.over] = "unused"
    /\ connecting.at = "opened" => session[connecting.over] \in {connecting.name, NoName}
    /\ linkInUse # NoLink => link[linkInUse] # "unused"

\* Who has a socket open, and who a session.
LinksHaveUsers ==
    /\ \A l \in Links : link[l] = "connected" => l = linkInUse \/ l = connecting.over
    /\ \A l \in Links : session[l] # NoName =>
          link[l] = "dead" \/ l = linkInUse \/ (l = connecting.over /\ connecting.at = "opened")
    /\ Usable /\ adapterStopped = "no" => heartbeat = linkInUse
    /\ adapterStopped = "yes" => ~Usable
    /\ adapterStopped = "closing" => linkInUse # NoLink

\* Calls are on the socket in use.
CallsAreCurrent ==
    \A c \in ToolCalls : toolCall[c].at \in CallUnderway => toolCall[c].over = linkInUse /\ Usable

(***************************************************************************)
(* Where there is no doubt, or one answer settles it, one change of name   *)
(* at most is under way, it is waited for, and once it is done the session *)
(* has its name; until then, without doubt, it has the preferred one.      *)
(***************************************************************************)
ChangesAreSettled ==
    /\ \A c \in ToolCalls : toolCall[c].at = "done" => toolCall[c].name # NoName
    /\ doubt # "yes" =>
          /\ \A c, d \in Renaming : c = d
          /\ \A c \in Renaming :
                /\ toolCall[c].at # "late"
                /\ toolCall[c].at \in {"done", "answered"} =>
                      session[linkInUse] \in {toolCall[c].name, NoName}
    /\ doubt = "no" /\ Usable /\ (\A c \in Renaming : toolCall[c].at = "sent") =>
          session[linkInUse] \in {preferred, NoName}

LinkInv ==
    /\ LinkTypes /\ AttemptIsApart /\ LinksHaveUsers
    /\ CallsAreCurrent /\ ChangesAreSettled

LEMMA LinkInvHolds == LinkSpec => []LinkInv
<1>1. LinkInit => LinkInv
  BY LinksAssumption DEF LinkInit, LinkInv, LinkTypes, AttemptIsApart, LinksHaveUsers, CallsAreCurrent,
     ChangesAreSettled, Renaming, CallUnderway, Usable, NotConnecting, NoToolCall
<1>2. LinkInv /\ [LinkNext]_linkVars => LinkInv'
  <2> SUFFICES ASSUME LinkInv, [LinkNext]_linkVars PROVE LinkInv'
    OBVIOUS
  <2> USE LinksAssumption DEF LinkInv, LinkTypes, AttemptIsApart, LinksHaveUsers, CallsAreCurrent,
     ChangesAreSettled, Renaming, CallUnderway, Usable, NotConnecting
  <2>1. ASSUME NEW c \in ToolCalls, NEW want \in AgentNames \cup {NoName}, Calling(c, want) PROVE LinkInv'
    BY <2>1 DEF Calling, SentOver, NoToolCall
  <2>2. ASSUME NEW c \in ToolCalls, CallDone(c) PROVE LinkInv'
    BY <2>2 DEF CallDone, CarriedOut, NoToolCall
  <2>3. ASSUME NEW c \in ToolCalls, Replied(c) PROVE LinkInv'
    BY <2>3 DEF Replied, NewName, NoToolCall
  <2>4. ASSUME NEW l \in Links, Connects(l) PROVE LinkInv'
    BY <2>4 DEF Connects, MayConnect
  <2>5. ASSUME NEW l \in Links, SocketEnds(l) PROVE LinkInv'
    BY <2>5 DEF SocketEnds, Without, NoToolCall
  <2>6. ASSUME NEW l \in Links, DaemonNotices(l) PROVE LinkInv'
    BY <2>6 DEF DaemonNotices
  <2>7. ASSUME NEW name \in AgentNames, SessionOpens(name) PROVE LinkInv'
    BY <2>7 DEF SessionOpens
  <2>8. CASE Connected
    BY <2>8 DEF Connected
  <2>9. CASE LinkTaken
    BY <2>9 DEF LinkTaken, TakesLink, TakesLinkAnyway, AllWaiting, SentOver
  <2>10. CASE LinkGivenUp
    BY <2>10 DEF LinkGivenUp
  <2>11. CASE ConnectFails
    BY <2>11 DEF ConnectFails, AllWaiting, NoToolCall
  <2>12. CASE HeartbeatFails
    BY <2>12 DEF HeartbeatFails, Without, NoToolCall
  <2>13. CASE StopAdapter
    BY <2>13 DEF StopAdapter
  <2>14. ASSUME NEW answered \in BOOLEAN, CloseAdapter(answered) PROVE LinkInv'
    BY <2>14 DEF CloseAdapter, Without, NoToolCall
  <2>15. ASSUME NEW c \in ToolCalls, CallAnswered(c) PROVE LinkInv'
    <3> DEFINE call == [toolCall[c] EXCEPT !.at = "answered", !.name = session[linkInUse]]
    <3>1. /\ toolCall[c].at = "done" /\ toolCall[c].over = linkInUse
          /\ toolCall[c] \in [at : CallUnderway, over : Links \cup {NoLink},
                             name : AgentNames \cup {NoName}]
          /\ toolCall[c].name # NoName /\ session[linkInUse] # NoName /\ linkInUse \in Links
      BY <2>15 DEF CallAnswered
    <3>2. /\ call \in [at : CallUnderway, over : Links \cup {NoLink}, name : AgentNames \cup {NoName}]
          /\ call.at = "answered" /\ call.over = linkInUse /\ call.name = session[linkInUse]
      BY <3>1
    <3>3. /\ toolCall' = [toolCall EXCEPT ![c] = call]
          /\ UNCHANGED <<link, session, connecting, linkInUse, heartbeat, adapterStopped,
                         preferred, doubt>>
      BY <2>15, <3>1 DEF CallAnswered
    <3> HIDE DEF call
    <3>4. toolCall'[c] = call /\ \A d \in ToolCalls : d # c => toolCall'[d] = toolCall[d]
      BY <3>2, <3>3
    <3>5. Renaming' = Renaming
      BY <3>1, <3>2, <3>4
    <3> QED
      BY <3>1, <3>2, <3>3, <3>4, <3>5
  <2>16. ASSUME NEW c \in ToolCalls, Refused(c) PROVE LinkInv'
    BY <2>16 DEF Refused, NoToolCall
  <2>17. ASSUME NEW c \in ToolCalls, NoAnswer(c) PROVE LinkInv'
    BY <2>17 DEF NoAnswer, NoToolCall
  <2>18. CASE UNCHANGED linkVars
    BY <2>18 DEF linkVars
  <2> QED
    BY <2>1, <2>2, <2>3, <2>4, <2>5, <2>6, <2>7, <2>8, <2>9, <2>10, <2>11, <2>12, <2>13, <2>14,
       <2>15, <2>16, <2>17, <2>18
       DEF LinkNext
<1> QED
  BY <1>1, <1>2, PTL DEF LinkSpec

\* For any sockets, calls and names: an adapter has one session, kept alive as long as it is used,
\* none outlives its stop, and it is under the name the adapter knows, whatever fails meanwhile,
\* as long as changes of name are answered and do not overlap, and again after the next one that
\* is, or with the next connection.
THEOREM LinkStaysSound == LinkSpec => []LinkIsSound
<1>1. LinkInv => LinkIsSound
  BY LinksAssumption DEF LinkInv, LinkTypes, AttemptIsApart, LinksHaveUsers, LinkIsSound, OneLiveSession, Usable,
     NotConnecting, ChangesAreSettled, NameIsKnown, Renaming
<1> QED
  BY <1>1, LinkInvHolds, PTL

-----------------------------------------------------------------------------
(* Marks of idle sessions. *)

\* The next news for the session wake it, or do so already.
Roused(h) == h \in idleMark \/ (monitor[h].of = h /\ monitor[h].got > 0)

MarksInv ==
    /\ hostIs \in [Hosts -> {"busy", "idle", "deferred"}]
    /\ hook \in [Hosts -> [at : {"none", "called", "marked"}, phase : Phases \cup {"none"}]]
    /\ lateHooks \subseteq [of : Hosts, at : {"none", "called", "marked"}, phase : Phases \cup {"none"}]
    /\ unread \in [Hosts -> Nat] /\ idleMark \subseteq Hosts
    /\ monitor \in [Hosts -> [at : {"waits", "found", "captured", "returned"},
                              of : Hosts \cup {NoSession}, got : Nat]]
    \* A monitor has news from its capture on; until then and after it none.
    /\ \A h \in Hosts : monitor[h].at \in {"waits", "found"} => monitor[h].got = 0
    /\ \A h \in Hosts : monitor[h].at # "waits" => monitor[h].of \in Hosts
    /\ \A h \in Hosts : hook[h].at = "none" => hook[h] = NoHook
    \* A session whose hook noted that it is about to stop, and one that stopped.
    /\ \A h \in Hosts : hook[h].at = "marked" /\ hook[h].phase = "idle" /\ h \notin astray => Roused(h)
    /\ SleepersAreMarked

LEMMA MarksInvHolds == WakeupSpec => []MarksInv
<1>1. WakeupInit => MarksInv
  BY DEF WakeupInit, MarksInv, NoHook, Watching, Phases, SleepersAreMarked
<1>2. MarksInv /\ [WakeupNext]_wakeupVars => MarksInv'
  <2> SUFFICES ASSUME MarksInv, [WakeupNext]_wakeupVars PROVE MarksInv'
    OBVIOUS
  <2> USE DEF MarksInv, SleepersAreMarked, Roused, NoHook, Watching, Phases, Mishap
  <2>1. ASSUME NEW h \in Hosts, NewsFor(h) PROVE MarksInv'
    BY <2>1 DEF NewsFor
  <2>2. ASSUME NEW h \in Hosts, NEW phase \in Phases, HookCalls(h, phase) PROVE MarksInv'
    BY <2>2 DEF HookCalls
  <2>3. ASSUME NEW h \in Hosts, HookMarks(h) PROVE MarksInv'
    BY <2>3 DEF HookMarks, Marked
  <2>4. ASSUME NEW h \in Hosts, HookReturns(h) PROVE MarksInv'
    BY <2>4 DEF HookReturns, Captured
  <2>5. ASSUME NEW h \in Hosts, HookTimesOut(h) PROVE MarksInv'
    BY <2>5 DEF HookTimesOut
  <2>6. ASSUME NEW h \in Hosts, AdapterLeaves(h) PROVE MarksInv'
    BY <2>6 DEF AdapterLeaves
  <2>7. ASSUME NEW h \in Hosts, MonitorLooks(h) PROVE MarksInv'
    BY <2>7 DEF MonitorLooks
  <2>8. ASSUME NEW h \in Hosts, MonitorCaptures(h) PROVE MarksInv'
    BY <2>8 DEF MonitorCaptures
  <2>9. ASSUME NEW h \in Hosts, MonitorReturns(h) PROVE MarksInv'
    BY <2>9 DEF MonitorReturns, Spent
  <2>10. ASSUME NEW h \in Hosts, MonitorPrints(h) PROVE MarksInv'
    BY <2>10 DEF MonitorPrints
  <2>11. ASSUME NEW h \in Hosts, ReplyIsLost(h) PROVE MarksInv'
    BY <2>11 DEF ReplyIsLost
  <2>12. ASSUME NEW l \in lateHooks, LateHookMarks(l) \/ LateHookCaptures(l) PROVE MarksInv'
    BY <2>12, SMTT(30) DEF LateHookMarks, LateHookCaptures, Marked, Captured
  <2>13. CASE UNCHANGED wakeupVars
    BY <2>13 DEF wakeupVars
  <2> QED
    BY <2>1, <2>2, <2>3, <2>4, <2>5, <2>6, <2>7, <2>8, <2>9, <2>10, <2>11, <2>12, <2>13
       DEF WakeupNext
<1> QED
  BY <1>1, <1>2, PTL DEF WakeupSpec

-----------------------------------------------------------------------------
(* Sessions of the hosts. *)

Stages == {"new", "beating", "opening", "closing", "closed", "alive", "expired", "opened"}
Instances == [of : HostIds \cup {NoId}, live : BOOLEAN]
RequestsUnderWay ==
    [at : Stages, kind : {"bind", "idle", "active", "call", "wake", "close"}, of : HostIds,
     old : HostIds, handle : Handles \cup {NoHandle}, met : BOOLEAN, again : BOOLEAN]

HostTypes ==
    /\ linked \in {"open", "closing", "closed"}
    /\ kept \in [HostIds -> Handles \cup {NoHandle}]
    /\ bound \in HostIds \cup {NoId} /\ leaving \in SUBSET Handles
    /\ (linked = "open" => leaving = {})
    /\ instance \in [Handles -> Instances]
    /\ request \in [Works -> {NoWork} \cup RequestsUnderWay]

\* A request goes on with a handle of the session it is for, or of the one it closes; and where
\* it says that the instance is gone, it is.
HandleFits(r, instances) ==
    /\ r.at \in {"beating", "alive", "expired", "opened"} =>
          r.handle \in Handles /\ instances[r.handle].of = r.of
    /\ r.at \in {"closing", "closed"} => r.handle \in Handles /\ instances[r.handle].of = r.old
    /\ r.at \in {"closed", "expired"} => ~instances[r.handle].live

\* Requests for one session that are under way together have met.
Share(r, q) == {r.of, r.old} \cap {q.of, q.old} # {}
MeetingsAreNoted ==
    \A v, w \in Works :
        v # w /\ request[v] # NoWork /\ request[w] # NoWork /\ Share(request[v], request[w]) =>
            request[v].met /\ request[w].met

\* What a request found of the handles is still so, unless it has met another one.
Undisturbed(r, linkNow, handles) ==
    linkNow = "open" /\ ~r.met =>
        /\ r.at \in {"closing", "closed"} => handles[r.old] = r.handle
        /\ r.at \in {"beating", "alive", "expired"} => handles[r.of] = r.handle
        /\ r.at \in {"opening", "opened"} => handles[r.of] = NoHandle

HostInv ==
    /\ HostTypes /\ HandlesAreOfTheirSessions /\ MeetingsAreNoted
    /\ \A w \in Works : request[w] # NoWork =>
           HandleFits(request[w], instance) /\ Undisturbed(request[w], linked, kept)

LEMMA RequestsAre ==
    /\ NoWork.at = "none" /\ NoWork \notin RequestsUnderWay
    /\ \A r \in RequestsUnderWay :
          /\ r.at \in Stages /\ r # NoWork /\ r.of \in HostIds /\ r.old \in HostIds
          /\ r.handle \in Handles \cup {NoHandle} /\ r.met \in BOOLEAN
    /\ NoId \notin HostIds /\ NoHandle \notin Handles
<1>1. \A r \in RequestsUnderWay :
          /\ r.at \in Stages /\ r.of \in HostIds /\ r.old \in HostIds
          /\ r.handle \in Handles \cup {NoHandle} /\ r.met \in BOOLEAN
    BY DEF RequestsUnderWay
<1>2. NoWork.at = "none" /\ "none" \notin Stages
    BY DEF NoWork, Stages
<1>3. NoId \notin HostIds /\ NoHandle \notin Handles
    BY HostsAssumption DEF NoId, NoHandle
<1> QED
    BY <1>1, <1>2, <1>3

\* A request that goes on is still the same.
Continues(q, r) ==
    /\ r \in RequestsUnderWay /\ r # NoWork
    /\ r.of = q.of /\ r.old = q.old /\ (r.met <=> q.met)

LEMMA RequestsContinue ==
    ASSUME NEW q \in RequestsUnderWay
    PROVE  /\ \A a \in Stages : /\ Continues(q, [q EXCEPT !.at = a])
                                /\ [q EXCEPT !.at = a].at = a
                                /\ [q EXCEPT !.at = a].handle = q.handle
           /\ \A a \in Stages : \A h \in Handles \cup {NoHandle} :
                 /\ Continues(q, [q EXCEPT !.at = a, !.handle = h])
                 /\ [q EXCEPT !.at = a, !.handle = h].at = a
                 /\ [q EXCEPT !.at = a, !.handle = h].handle = h
           /\ Continues(q, [q EXCEPT !.again = FALSE])
           /\ [q EXCEPT !.again = FALSE].handle = q.handle
<1>1. q # NoWork /\ NoWork \notin RequestsUnderWay
    BY RequestsAre
<1>2. ASSUME NEW a \in Stages
      PROVE  /\ Continues(q, [q EXCEPT !.at = a])
             /\ [q EXCEPT !.at = a].at = a
             /\ [q EXCEPT !.at = a].handle = q.handle
    <2>1. [q EXCEPT !.at = a] \in RequestsUnderWay
        BY DEF RequestsUnderWay
    <2> QED
        BY <1>1, <2>1 DEF RequestsUnderWay, Continues
<1>3. ASSUME NEW a \in Stages, NEW h \in Handles \cup {NoHandle}
      PROVE  /\ Continues(q, [q EXCEPT !.at = a, !.handle = h])
             /\ [q EXCEPT !.at = a, !.handle = h].at = a
             /\ [q EXCEPT !.at = a, !.handle = h].handle = h
    <2>1. [q EXCEPT !.at = a, !.handle = h] \in RequestsUnderWay
        BY DEF RequestsUnderWay
    <2> QED
        BY <1>1, <2>1 DEF RequestsUnderWay, Continues
<1>4. /\ Continues(q, [q EXCEPT !.again = FALSE])
      /\ [q EXCEPT !.again = FALSE].handle = q.handle
    <2>1. [q EXCEPT !.again = FALSE] \in RequestsUnderWay
        BY DEF RequestsUnderWay
    <2> QED
        BY <1>1, <2>1 DEF RequestsUnderWay, Continues
<1> QED
    BY <1>2, <1>3, <1>4

\* It goes on with the handle that is kept, or without one.
LEMMA EnsuringContinues ==
    ASSUME NEW handles \in [HostIds -> Handles \cup {NoHandle}], NEW q \in RequestsUnderWay
    PROVE  /\ Continues(q, EnsuringFrom(handles, q))
           /\ EnsuringFrom(handles, q).at \in {"beating", "opening"}
           /\ EnsuringFrom(handles, q).at = "beating" =>
                 /\ EnsuringFrom(handles, q).handle = handles[q.of]
                 /\ handles[q.of] # NoHandle
           /\ EnsuringFrom(handles, q).at = "opening" => handles[q.of] = NoHandle
<1>1. q.of \in HostIds /\ handles[q.of] \in Handles \cup {NoHandle}
    BY RequestsAre
<1>2. "beating" \in Stages /\ "opening" \in Stages
    BY DEF Stages
<1>3. CASE handles[q.of] # NoHandle
    <2>1. EnsuringFrom(handles, q) = [q EXCEPT !.at = "beating", !.handle = handles[q.of]]
        BY <1>3 DEF EnsuringFrom
    <2>2. \A a \in Stages : \A h \in Handles \cup {NoHandle} :
              /\ Continues(q, [q EXCEPT !.at = a, !.handle = h])
              /\ [q EXCEPT !.at = a, !.handle = h].at = a
              /\ [q EXCEPT !.at = a, !.handle = h].handle = h
        BY RequestsContinue
    <2>3. /\ Continues(q, [q EXCEPT !.at = "beating", !.handle = handles[q.of]])
          /\ [q EXCEPT !.at = "beating", !.handle = handles[q.of]].at = "beating"
          /\ [q EXCEPT !.at = "beating", !.handle = handles[q.of]].handle = handles[q.of]
        BY <1>1, <1>2, <1>3, <2>2, ZenonT(40)
    <2> DEFINE r == EnsuringFrom(handles, q)
    <2>4. Continues(q, r) /\ r.at = "beating" /\ r.handle = handles[q.of]
        BY <2>1, <2>3
    <2> HIDE DEF r
    <2>5. /\ Continues(q, r) /\ r.at \in {"beating", "opening"}
          /\ r.at = "beating" => r.handle = handles[q.of] /\ handles[q.of] # NoHandle
          /\ r.at = "opening" => handles[q.of] = NoHandle
        BY <1>3, <2>4
    <2> QED
        BY <2>5 DEF r
<1>4. CASE handles[q.of] = NoHandle
    <2>1. EnsuringFrom(handles, q) = [q EXCEPT !.at = "opening", !.handle = NoHandle]
        BY <1>4 DEF EnsuringFrom
    <2>2. \A a \in Stages : \A h \in Handles \cup {NoHandle} :
              /\ Continues(q, [q EXCEPT !.at = a, !.handle = h])
              /\ [q EXCEPT !.at = a, !.handle = h].at = a
              /\ [q EXCEPT !.at = a, !.handle = h].handle = h
        BY RequestsContinue
    <2>3. /\ Continues(q, [q EXCEPT !.at = "opening", !.handle = NoHandle])
          /\ [q EXCEPT !.at = "opening", !.handle = NoHandle].at = "opening"
          /\ [q EXCEPT !.at = "opening", !.handle = NoHandle].handle = NoHandle
        <3>1. NoHandle \in Handles \cup {NoHandle}
            OBVIOUS
        <3> QED
            BY <1>2, <2>2, <3>1
    <2> DEFINE r == EnsuringFrom(handles, q)
    <2>4. Continues(q, r) /\ r.at = "opening" /\ r.handle = NoHandle
        BY <2>1, <2>3
    <2> HIDE DEF r
    <2>5. /\ Continues(q, r) /\ r.at \in {"beating", "opening"}
          /\ r.at = "beating" => r.handle = handles[q.of] /\ handles[q.of] # NoHandle
          /\ r.at = "opening" => handles[q.of] = NoHandle
        BY <1>4, <2>4
    <2> QED
        BY <2>5 DEF r
<1> QED
    BY <1>3, <1>4

\* What a step of one request leaves of the invariant to be shown.
LEMMA OneGoesOn ==
    ASSUME HostInv, NEW w \in Works, request[w] # NoWork, NEW r \in {NoWork} \cup RequestsUnderWay,
           request' = [request EXCEPT ![w] = r], UNCHANGED <<linked, leaving>>,
           bound' \in HostIds \cup {NoId}, kept' \in [HostIds -> Handles \cup {NoHandle}],
           \A s \in HostIds : s \notin {request[w].of, request[w].old} => kept'[s] = kept[s],
           instance' \in [Handles -> Instances],
           \A h \in Handles : instance[h].of # NoId =>
               instance'[h].of = instance[h].of /\ (instance'[h].live => instance[h].live),
           \A s \in HostIds : kept'[s] # NoHandle => instance'[kept'[s]].of = s,
           r # NoWork => /\ Continues(request[w], r)
                         /\ HandleFits(r, instance') /\ Undisturbed(r, linked', kept')
    PROVE  HostInv'
<1> USE DEF HostInv, HostTypes
<1>1. \A v \in Works : request'[v] = IF v = w THEN r ELSE request[v]
    OBVIOUS
<1>2. \A v \in Works : request[v] # NoWork => request[v] \in RequestsUnderWay
    OBVIOUS
<1>3. HostTypes'
    OBVIOUS
<1>4. HandlesAreOfTheirSessions'
    BY DEF HandlesAreOfTheirSessions
<1>5. MeetingsAreNoted'
    BY <1>1, <1>2 DEF MeetingsAreNoted, Share, Continues
<1>6. ASSUME NEW v \in Works, request'[v] # NoWork
      PROVE  HandleFits(request'[v], instance') /\ Undisturbed(request'[v], linked', kept')
    <2>1. CASE v = w
        BY <1>1, <1>6, <2>1
    <2>2. CASE v # w
        <3> DEFINE q == request[v]
        <3>1. q \in RequestsUnderWay /\ HandleFits(q, instance) /\ Undisturbed(q, linked, kept) /\ request'[v] = q
            BY <1>1, <1>2, <1>6, <2>2
        <3>2. q.met \/ ~Share(q, request[w])
            BY <2>2, <3>1, RequestsAre DEF MeetingsAreNoted
        <3>3. ~q.met => kept'[q.of] = kept[q.of] /\ kept'[q.old] = kept[q.old]
            <4>1. ~q.met => q.of \notin {request[w].of, request[w].old}
                            /\ q.old \notin {request[w].of, request[w].old}
                BY <3>2 DEF Share
            <4> QED
                BY <3>1, <4>1, RequestsAre
        <3>4. HandleFits(request'[v], instance')
            <4>1. \A h \in Handles : \A s \in HostIds : instance[h].of = s =>
                      instance'[h].of = s /\ (instance'[h].live => instance[h].live)
                BY RequestsAre
            <4> HIDE DEF q
            <4>2. q.of \in HostIds /\ q.old \in HostIds
                BY <3>1, RequestsAre
            <4> QED
                BY <3>1, <4>1, <4>2 DEF HandleFits
        <3>5. Undisturbed(request'[v], linked', kept')
            BY <3>1, <3>3 DEF Undisturbed
        <3> QED
            BY <3>4, <3>5
    <2> QED
        BY <2>1, <2>2
<1> QED
    BY <1>3, <1>4, <1>5, <1>6

\* A step leaves nobody alone with an instance, unless requests for its session overlap.
NobodyIsLeft ==
    \A h \in Handles : Abandoned(h)' /\ ~Abandoned(h) => Overlap(instance'[h].of)

\* A request that is begun has met those for its sessions, and they it.
LEMMA BeginKeeps ==
    ASSUME HostInv, NEW w \in Works, NEW s \in HostIds,
           NEW kind \in {"bind", "idle", "active", "call", "wake", "close"}, Begin(w, kind, s)
    PROVE  HostInv' /\ NobodyIsLeft
<1> USE DEF HostInv, HostTypes
<1> DEFINE unbinds == kind \in {"bind", "idle", "active"} /\ bound \notin {NoId, s}
           r == [at |-> "new", kind |-> kind, of |-> s, old |-> s, handle |-> NoHandle,
                 met |-> FALSE, again |-> unbinds /\ kind # "bind"]
           new == IF kind = "close" THEN Closing(r, s)
                  ELSE IF unbinds /\ kept[bound] # NoHandle THEN Closing(r, bound)
                  ELSE Ensuring(r)
           met == Under(new.of) \cup Under(new.old)
<1>1. /\ request[w] = NoWork /\ linked = "open" /\ (kind = "close" => kept[s] # NoHandle)
      /\ request' = [v \in Works |->
              IF v = w THEN [new EXCEPT !.met = met # {}]
              ELSE IF v \in met THEN [request[v] EXCEPT !.met = TRUE] ELSE request[v]]
      /\ UNCHANGED <<linked, kept, bound, leaving, instance>>
    BY DEF Begin
<1>2. /\ new \in RequestsUnderWay /\ ~new.met
      /\ new.at \in {"closing", "beating", "opening"}
      /\ new.at = "closing" => kept[new.old] = new.handle /\ new.handle # NoHandle
      /\ new.at = "beating" => kept[new.of] = new.handle /\ new.handle # NoHandle
      /\ new.at = "opening" => kept[new.of] = NoHandle
    <2> DEFINE again == unbinds /\ kind # "bind"
    <2>1. again \in BOOLEAN /\ r = [at |-> "new", kind |-> kind, of |-> s, old |-> s,
                                      handle |-> NoHandle, met |-> FALSE, again |-> again]
        OBVIOUS
    <2> HIDE DEF again, r
    <2>2. r \in RequestsUnderWay /\ r.of = s /\ r.old = s /\ ~r.met
        BY <2>1 DEF RequestsUnderWay, Stages
    <2>3. ASSUME NEW p \in HostIds
          PROVE  /\ Closing(r, p) \in RequestsUnderWay /\ ~Closing(r, p).met
                 /\ Closing(r, p).at = "closing" /\ Closing(r, p).old = p
                 /\ Closing(r, p).handle = kept[p]
        <3>1. /\ [r EXCEPT !.at = "closing", !.old = p, !.handle = kept[p]] \in RequestsUnderWay
              /\ "closing" \in Stages
            BY <2>2 DEF RequestsUnderWay, Stages
        <3> QED
            BY <2>2, <3>1 DEF RequestsUnderWay, Closing
    <2>4. CASE kind = "close"
        BY <1>1, <2>3, <2>4
    <2>5. CASE kind # "close" /\ unbinds /\ kept[bound] # NoHandle
        <3>1. bound \in HostIds
            BY <2>5
        <3> QED
            BY <2>3, <2>5, <3>1
    <2>6. CASE kind # "close" /\ ~(unbinds /\ kept[bound] # NoHandle)
        <3>1. new = EnsuringFrom(kept, r)
            BY <2>6 DEF Ensuring
        <3> HIDE DEF new, unbinds
        <3> QED
            BY <2>2, <3>1, EnsuringContinues DEF Continues
    <2> QED
        BY <2>4, <2>5, <2>6
<1> HIDE DEF new
<1> DEFINE now == [new EXCEPT !.met = met # {}]
<1>3. /\ now \in RequestsUnderWay /\ now.at = new.at /\ now.of = new.of /\ now.old = new.old
      /\ now.handle = new.handle /\ (now.met <=> met # {})
    <2> DEFINE b == (met # {})
    <2>1. b \in BOOLEAN
        OBVIOUS
    <2> HIDE DEF b
    <2>2. [new EXCEPT !.met = b] \in RequestsUnderWay /\ [new EXCEPT !.met = b].met = b
          /\ [new EXCEPT !.met = b].at = new.at /\ [new EXCEPT !.met = b].of = new.of
          /\ [new EXCEPT !.met = b].old = new.old /\ [new EXCEPT !.met = b].handle = new.handle
        BY <1>2, <2>1 DEF RequestsUnderWay
    <2> QED
        BY <2>2 DEF b
<1>4. \A v \in Works : v \in met <=>
          request[v] # NoWork /\ {new.of, new.old} \cap {request[v].of, request[v].old} # {}
    BY DEF Under
<1> HIDE DEF met, now
<1>5. \A q \in RequestsUnderWay :
          /\ [q EXCEPT !.met = TRUE] \in RequestsUnderWay /\ [q EXCEPT !.met = TRUE].met
          /\ [q EXCEPT !.met = TRUE].at = q.at /\ [q EXCEPT !.met = TRUE].of = q.of
          /\ [q EXCEPT !.met = TRUE].old = q.old /\ [q EXCEPT !.met = TRUE].handle = q.handle
    BY DEF RequestsUnderWay
<1>6. /\ request'[w] = now
      /\ \A v \in Works \ {w} : request'[v] = IF v \in met THEN [request[v] EXCEPT !.met = TRUE]
                                               ELSE request[v]
    BY <1>1 DEF now
<1>7. \A v \in Works \ {w} :
          /\ request'[v] # NoWork <=> request[v] # NoWork
          /\ request[v] # NoWork =>
                 /\ request[v] \in RequestsUnderWay /\ request'[v] \in RequestsUnderWay
                 /\ request'[v].at = request[v].at /\ request'[v].of = request[v].of
                 /\ request'[v].old = request[v].old /\ request'[v].handle = request[v].handle
                 /\ (request'[v].met <=> request[v].met \/ v \in met)
    <2> TAKE v \in Works \ {w}
    <2>1. CASE request[v] = NoWork
        BY <1>4, <1>6, <2>1
    <2>2. CASE request[v] # NoWork
        <3>1. request[v] \in RequestsUnderWay
            BY <2>2
        <3>2. CASE v \in met
            <4> DEFINE p == request[v]
            <4>1. p \in RequestsUnderWay /\ request'[v] = [p EXCEPT !.met = TRUE]
                BY <1>6, <3>1, <3>2
            <4> HIDE DEF p
            <4>2. /\ request'[v] \in RequestsUnderWay /\ request'[v].met
                  /\ request'[v].at = p.at /\ request'[v].of = p.of
                  /\ request'[v].old = p.old /\ request'[v].handle = p.handle
                BY <1>5, <4>1
            <4> QED
                BY <2>2, <3>1, <3>2, <4>2, RequestsAre DEF p
        <3>3. CASE v \notin met
            BY <1>6, <2>2, <3>1, <3>3
        <3> QED
            BY <3>2, <3>3
    <2> QED
        BY <2>1, <2>2
<1>8. HostTypes'
    <2>1. \A v \in Works : request'[v] \in {NoWork} \cup RequestsUnderWay
        BY <1>3, <1>6, <1>7
    <2>2. request' = [v \in Works |-> request'[v]]
        BY <1>1
    <2>3. request' \in [Works -> {NoWork} \cup RequestsUnderWay]
        BY <2>1, <2>2
    <2> QED
        BY <1>1, <2>3
<1>9. HandlesAreOfTheirSessions'
    BY <1>1 DEF HandlesAreOfTheirSessions
<1>10. MeetingsAreNoted'
    <2> SUFFICES ASSUME NEW v \in Works, NEW u \in Works, v # u, request'[v] # NoWork,
                        request'[u] # NoWork, Share(request'[v], request'[u])
                 PROVE  request'[v].met /\ request'[u].met
        BY DEF MeetingsAreNoted, Share
    <2>1. CASE v # w /\ u # w
        BY <1>7, <2>1 DEF MeetingsAreNoted, Share
    <2>2. CASE v = w
        <3>1. u \in met
            BY <1>3, <1>4, <1>6, <1>7, <2>2 DEF Share
        <3> QED
            BY <1>3, <1>6, <1>7, <2>2, <3>1
    <2>3. CASE u = w
        <3>1. v \in met
            BY <1>3, <1>4, <1>6, <1>7, <2>3 DEF Share
        <3> QED
            BY <1>3, <1>6, <1>7, <2>3, <3>1
    <2> QED
        BY <2>1, <2>2, <2>3
<1>11. ASSUME NEW v \in Works, request'[v] # NoWork
       PROVE  HandleFits(request'[v], instance') /\ Undisturbed(request'[v], linked', kept')
    <2>1. CASE v = w
        <3>1. /\ now.at \in {"closing", "beating", "opening"}
              /\ now.at = "closing" => kept[now.old] = now.handle /\ now.handle # NoHandle
              /\ now.at = "beating" => kept[now.of] = now.handle /\ now.handle # NoHandle
              /\ now.at = "opening" => kept[now.of] = NoHandle
              /\ now.handle \in Handles \cup {NoHandle} /\ now.of \in HostIds /\ now.old \in HostIds
            BY <1>2, <1>3, RequestsAre
        <3> QED
            BY <1>1, <1>6, <2>1, <3>1 DEF HandleFits, Undisturbed, HandlesAreOfTheirSessions
    <2>2. CASE v # w
        BY <1>1, <1>7, <1>11, <2>2 DEF HandleFits, Undisturbed
    <2> QED
        BY <2>1, <2>2
<1>12. NobodyIsLeft
    <2>1. ASSUME NEW v \in Works, request[v].at \in {"opened", "closing"}
          PROVE  request'[v].at = request[v].at /\ request'[v].handle = request[v].handle
        <3>1. request[v] # NoWork
            BY <2>1, RequestsAre
        <3> QED
            BY <1>1, <1>7, <3>1
    <2> QED
        BY <1>1, <2>1 DEF NobodyIsLeft, Abandoned, KeptHandles
<1> QED
    BY <1>8, <1>9, <1>10, <1>11, <1>12

LEMMA RequestStepsKeep ==
    ASSUME HostInv, NEW w \in Works,
           \/ Disconnects(w) \/ Beats(w) \/ Forgets(w) \/ Reopens(w) \/ Proceeds(w)
           \/ \E h \in Handles : Opens(w, h)
    PROVE  HostInv' /\ NobodyIsLeft
<1> USE DEF HostInv, HostTypes
<1> DEFINE q == request[w]
<1>1. /\ q # NoWork /\ q \in RequestsUnderWay /\ HandleFits(q, instance) /\ Undisturbed(q, linked, kept)
    <2>1. q # NoWork
        BY RequestsAre DEF Disconnects, Beats, Forgets, Reopens, Proceeds, Opens
    <2> QED
        BY <2>1
<1>2. /\ q.of \in HostIds /\ q.old \in HostIds /\ q.handle \in Handles \cup {NoHandle}
      /\ q.met \in BOOLEAN
    BY <1>1, RequestsAre
<1>3. \A s \in {q.of, q.old} : w \in Under(s)
    BY <1>1 DEF Under
<1>4. \A s \in {q.of, q.old} : q.met \/ linked # "open" => Overlap(s)
    BY <1>3 DEF Overlap
<1>6. \A a \in Stages : /\ Continues(q, [q EXCEPT !.at = a]) /\ [q EXCEPT !.at = a].at = a
                        /\ [q EXCEPT !.at = a].handle = q.handle
    BY <1>1, RequestsContinue, ZenonT(40)
<1>7. \A a \in Stages : \A h \in Handles \cup {NoHandle} :
          /\ Continues(q, [q EXCEPT !.at = a, !.handle = h])
          /\ [q EXCEPT !.at = a, !.handle = h].at = a
          /\ [q EXCEPT !.at = a, !.handle = h].handle = h
    BY <1>1, RequestsContinue
<1>5. /\ "closed" \in Stages /\ "alive" \in Stages /\ "expired" \in Stages
      /\ "opened" \in Stages /\ "opening" \in Stages
    BY DEF Stages
<1>8. \A v \in Works : v # w => request'[v] = request[v]
    BY DEF Disconnects, Beats, Forgets, Reopens, Proceeds, Opens
<1>9. ASSUME Disconnects(w) PROVE HostInv' /\ NobodyIsLeft
    <2> DEFINE r == [q EXCEPT !.at = "closed"]
    <2>1. /\ q.at = "closing" /\ request' = [request EXCEPT ![w] = r]
          /\ instance' = [instance EXCEPT ![q.handle].live = FALSE]
          /\ UNCHANGED <<linked, kept, bound, leaving>>
        BY <1>9 DEF Disconnects, Left
    <2>2. Continues(q, r) /\ r.at = "closed" /\ r.handle = q.handle
        BY <1>5, <1>6
    <2> HIDE DEF r
    <2>3. q.handle \in Handles /\ instance[q.handle].of = q.old
        BY <1>1, <2>1 DEF HandleFits
    <2>4. /\ instance' \in [Handles -> Instances]
          /\ \A h \in Handles : /\ instance'[h].of = instance[h].of
                                /\ instance'[h].live => instance[h].live /\ h # q.handle
        BY <2>1, <2>3 DEF Instances
    <2>5. HandleFits(r, instance') /\ Undisturbed(r, linked', kept')
        BY <1>1, <1>2, <2>1, <2>2, <2>3, <2>4 DEF HandleFits, Undisturbed, Continues
    <2>6. HostInv'
        BY <1>1, <2>1, <2>2, <2>4, <2>5, OneGoesOn, ZenonT(40) DEF HandlesAreOfTheirSessions, Continues
    <2>7. NobodyIsLeft
        BY <1>8, <2>1, <2>4 DEF NobodyIsLeft, Abandoned, KeptHandles
    <2> QED
        BY <2>6, <2>7
<1>10. ASSUME Beats(w) PROVE HostInv' /\ NobodyIsLeft
    <2> DEFINE a == IF instance[q.handle].live THEN "alive" ELSE "expired"
               r == [q EXCEPT !.at = a]
    <2>1. /\ q.at = "beating" /\ request' = [request EXCEPT ![w] = r]
          /\ UNCHANGED <<linked, kept, bound, leaving, instance>>
        BY <1>10 DEF Beats
    <2>2. Continues(q, r) /\ r.at = a /\ r.handle = q.handle
        <3>1. a \in Stages
            BY <1>5
        <3> HIDE DEF a
        <3> QED
            BY <1>6, <3>1
    <2>3. a \in {"alive", "expired"} /\ (a = "expired" => ~instance[q.handle].live)
        OBVIOUS
    <2> HIDE DEF r, a
    <2>4. HandleFits(r, instance') /\ Undisturbed(r, linked', kept')
        BY <1>1, <1>2, <2>1, <2>2, <2>3 DEF HandleFits, Undisturbed, Continues
    <2>5. HostInv'
        BY <1>1, <2>1, <2>2, <2>4, OneGoesOn DEF HandlesAreOfTheirSessions, Continues
    <2>6. NobodyIsLeft
        BY <1>8, <2>1 DEF NobodyIsLeft, Abandoned, KeptHandles
    <2> QED
        BY <2>5, <2>6
<1>11. ASSUME NEW h \in Handles, Opens(w, h) PROVE HostInv' /\ NobodyIsLeft
    <2> DEFINE r == [q EXCEPT !.at = "opened", !.handle = h]
    <2>1. /\ q.at = "opening" /\ request' = [request EXCEPT ![w] = r]
          /\ instance[h].of = NoId
          /\ instance' = [instance EXCEPT ![h] = [of |-> q.of, live |-> TRUE]]
          /\ UNCHANGED <<linked, kept, bound, leaving>>
        BY <1>11 DEF Opens
    <2>2. Continues(q, r) /\ r.at = "opened" /\ r.handle = h
        BY <1>5, <1>7
    <2> HIDE DEF r
    <2>3. /\ instance' \in [Handles -> Instances] /\ instance'[h].of = q.of
          /\ \A g \in Handles : g # h => instance'[g] = instance[g]
        BY <1>2, <2>1 DEF Instances
    <2>4. HandleFits(r, instance') /\ Undisturbed(r, linked', kept')
        BY <1>1, <1>2, <2>1, <2>2, <2>3 DEF HandleFits, Undisturbed, Continues
    <2>5. \A s \in HostIds : kept'[s] # NoHandle => instance'[kept'[s]].of = s
        BY <2>1, <2>3, RequestsAre DEF HandlesAreOfTheirSessions
    <2>6. HostInv'
        BY <1>1, <2>1, <2>2, <2>3, <2>4, <2>5, OneGoesOn DEF Continues
    <2>7. NobodyIsLeft
        <3>1. \A g \in Handles : Abandoned(g)' => g # h
            BY <2>1, <2>2 DEF Abandoned
        <3>2. \A g \in Handles : g # h /\ Abandoned(g)' => Abandoned(g)
            BY <1>8, <2>1, <2>3 DEF Abandoned, KeptHandles
        <3> QED
            BY <3>1, <3>2 DEF NobodyIsLeft
    <2> QED
        BY <2>6, <2>7
<1>12. ASSUME Forgets(w) PROVE HostInv' /\ NobodyIsLeft
    <2> DEFINE now == [kept EXCEPT ![q.old] = NoHandle]
               r == IF q.kind = "close" THEN NoWork ELSE EnsuringFrom(now, q)
    <2>1. /\ q.at = "closed" /\ request' = [request EXCEPT ![w] = r] /\ kept' = now
          /\ bound' \in HostIds \cup {NoId} /\ UNCHANGED <<linked, leaving, instance>>
        BY <1>12 DEF Forgets
    <2>2. /\ now \in [HostIds -> Handles \cup {NoHandle}] /\ now[q.old] = NoHandle
          /\ \A s \in HostIds : s # q.old => now[s] = kept[s]
        BY <1>2
    <2> HIDE DEF now
    <2>3. \/ r = NoWork
          \/ /\ Continues(q, r) /\ r.at \in {"beating", "opening"}
             /\ r.at = "beating" => r.handle = now[q.of] /\ now[q.of] # NoHandle
             /\ r.at = "opening" => now[q.of] = NoHandle
        BY <1>1, <2>2, EnsuringContinues
    <2> HIDE DEF r
    <2>4. \A s \in HostIds : kept'[s] # NoHandle => instance'[kept'[s]].of = s
        BY <2>1, <2>2 DEF HandlesAreOfTheirSessions
    <2>5. r # NoWork => HandleFits(r, instance') /\ Undisturbed(r, linked', kept')
        BY <1>2, <2>1, <2>2, <2>3, <2>4 DEF HandleFits, Undisturbed, Continues
    <2>6. HostInv'
        BY <1>1, <2>1, <2>2, <2>3, <2>4, <2>5, OneGoesOn DEF Continues
    <2>7. NobodyIsLeft
        <3> SUFFICES ASSUME NEW h \in Handles, Abandoned(h)', ~Abandoned(h)
                     PROVE  Overlap(instance'[h].of)
            BY DEF NobodyIsLeft
        <3>1. linked = "open" /\ h \in KeptHandles /\ h \notin KeptHandles' /\ instance[h].live
            BY <1>8, <2>1 DEF Abandoned
        <3>2. kept[q.old] = h
            BY <2>1, <2>2, <3>1 DEF KeptHandles
        <3>3. q.met
            BY <1>1, <2>1, <3>1, <3>2 DEF HandleFits, Undisturbed, Continues
        <3>4. instance'[h].of = q.old
            BY <1>2, <2>1, <3>2, RequestsAre DEF HandlesAreOfTheirSessions
        <3> QED
            BY <1>4, <3>3, <3>4
    <2> QED
        BY <2>6, <2>7
<1>13. ASSUME Reopens(w) PROVE HostInv' /\ NobodyIsLeft
    <2> DEFINE r == [q EXCEPT !.at = "opening", !.handle = NoHandle]
    <2>1. /\ q.at = "expired" /\ request' = [request EXCEPT ![w] = r]
          /\ kept' = [kept EXCEPT ![q.of] = NoHandle]
          /\ UNCHANGED <<linked, bound, leaving, instance>>
        BY <1>13 DEF Reopens
    <2>2. /\ kept' \in [HostIds -> Handles \cup {NoHandle}] /\ kept'[q.of] = NoHandle
          /\ \A s \in HostIds : s # q.of => kept'[s] = kept[s]
        BY <1>2, <2>1
    <2>3. Continues(q, r) /\ r.at = "opening"
        BY <1>5, <1>7
    <2> HIDE DEF r
    <2>4. \A s \in HostIds : kept'[s] # NoHandle => instance'[kept'[s]].of = s
        BY <2>1, <2>2 DEF HandlesAreOfTheirSessions
    <2>5. HandleFits(r, instance') /\ Undisturbed(r, linked', kept')
        BY <1>2, <2>1, <2>2, <2>3 DEF HandleFits, Undisturbed, Continues
    <2>6. HostInv'
        BY <1>1, <2>1, <2>2, <2>3, <2>4, <2>5, OneGoesOn DEF Continues
    <2>7. NobodyIsLeft
        <3> SUFFICES ASSUME NEW h \in Handles, Abandoned(h)', ~Abandoned(h)
                     PROVE  Overlap(instance'[h].of)
            BY DEF NobodyIsLeft
        <3>1. linked = "open" /\ h \in KeptHandles /\ h \notin KeptHandles' /\ instance[h].live
            BY <1>8, <2>1 DEF Abandoned
        <3>2. kept[q.of] = h
            BY <2>1, <2>2, <3>1 DEF KeptHandles
        <3>3. q.met
            BY <1>1, <2>1, <3>1, <3>2 DEF HandleFits, Undisturbed, Continues
        <3>4. instance'[h].of = q.of
            BY <1>2, <2>1, <3>2, RequestsAre DEF HandlesAreOfTheirSessions
        <3> QED
            BY <1>4, <3>3, <3>4
    <2> QED
        BY <2>6, <2>7
<1>14. ASSUME Proceeds(w) PROVE HostInv' /\ NobodyIsLeft
    <2> DEFINE now == IF q.at = "opened" THEN KeptFor(q) ELSE kept
               r == IF q.again THEN EnsuringFrom(now, [q EXCEPT !.again = FALSE]) ELSE NoWork
    <2>1. /\ q.at \in {"opened", "alive"} /\ request' = [request EXCEPT ![w] = r] /\ kept' = now
          /\ bound' \in HostIds \cup {NoId} /\ UNCHANGED <<linked, leaving, instance>>
        BY <1>2, <1>14 DEF Proceeds
    <2>2. q.handle \in Handles /\ instance[q.handle].of = q.of
        BY <1>1, <2>1 DEF HandleFits
    <2>3. /\ now \in [HostIds -> Handles \cup {NoHandle}]
          /\ \A s \in HostIds : s # q.of => now[s] = kept[s]
          /\ q.at = "opened" => now[q.of] = q.handle
          /\ q.at = "alive" => now = kept
        BY <1>2, <2>1, <2>2 DEF KeptFor
    <2> HIDE DEF now
    <2>4. \/ r = NoWork
          \/ /\ Continues(q, r) /\ r.at \in {"beating", "opening"}
             /\ r.at = "beating" => r.handle = now[q.of] /\ now[q.of] # NoHandle
             /\ r.at = "opening" => now[q.of] = NoHandle
        <3> DEFINE p == [q EXCEPT !.again = FALSE]
        <3>1. Continues(q, p)
            BY <1>1, RequestsContinue
        <3>2. r = NoWork \/ r = EnsuringFrom(now, p)
            BY DEF p
        <3> HIDE DEF p
        <3>3. p \in RequestsUnderWay
            BY <3>1 DEF Continues
        <3>4. /\ Continues(p, EnsuringFrom(now, p))
              /\ EnsuringFrom(now, p).at \in {"beating", "opening"}
              /\ EnsuringFrom(now, p).at = "beating" =>
                    EnsuringFrom(now, p).handle = now[p.of] /\ now[p.of] # NoHandle
              /\ EnsuringFrom(now, p).at = "opening" => now[p.of] = NoHandle
            BY <2>3, <3>3, EnsuringContinues
        <3> QED
            BY <3>1, <3>2, <3>4 DEF Continues
    <2> HIDE DEF r
    <2>5. \A s \in HostIds : kept'[s] # NoHandle => instance'[kept'[s]].of = s
        BY <2>1, <2>2, <2>3 DEF HandlesAreOfTheirSessions
    <2>6. r # NoWork => HandleFits(r, instance') /\ Undisturbed(r, linked', kept')
        BY <1>2, <2>1, <2>3, <2>4, <2>5 DEF HandleFits, Undisturbed, Continues
    <2>7. HostInv'
        BY <1>1, <2>1, <2>3, <2>4, <2>5, <2>6, OneGoesOn DEF Continues
    <2>8. NobodyIsLeft
        <3> SUFFICES ASSUME NEW h \in Handles, Abandoned(h)', ~Abandoned(h)
                     PROVE  Overlap(instance'[h].of)
            BY DEF NobodyIsLeft
        <3>1. CASE linked = "open" /\ h \in KeptHandles
            <4>1. h \notin KeptHandles'
                BY <2>1, <3>1 DEF Abandoned
            <4>2. kept[q.of] = h /\ q.at = "opened"
                BY <2>1, <2>3, <3>1, <4>1 DEF KeptHandles
            <4>3. q.met
                BY <1>1, <3>1, <4>2, RequestsAre DEF Undisturbed
            <4>4. instance'[h].of = q.of
                BY <1>2, <2>1, <4>2, RequestsAre DEF HandlesAreOfTheirSessions
            <4> QED
                BY <1>4, <4>3, <4>4
        <3>2. CASE ~(linked = "open" /\ h \in KeptHandles)
            <4>1. q.at = "opened" /\ q.handle = h
                BY <1>8, <2>1, <3>2 DEF Abandoned
            <4>2. now[q.of] = h /\ h # NoHandle
                BY <2>3, <4>1, RequestsAre
            <4>3. h \in KeptHandles'
                BY <1>2, <2>1, <4>2 DEF KeptHandles
            <4>4. linked # "open"
                BY <2>1, <4>3 DEF Abandoned
            <4>5. instance'[h].of = q.of
                BY <2>1, <2>2, <4>1
            <4> QED
                BY <1>4, <4>4, <4>5
        <3> QED
            BY <3>1, <3>2
    <2> QED
        BY <2>7, <2>8
<1> QED
    BY <1>9, <1>10, <1>11, <1>12, <1>13, <1>14

\* What ends instances or the connection, and no request.
LEMMA EndsKeep ==
    ASSUME HostInv, UNCHANGED request, HostTypes', linked' = linked \/ linked' # "open",
           kept' = kept \/ kept' = [s \in HostIds |-> NoHandle], linked' = "open" => kept' = kept,
           \A h \in Handles : /\ instance'[h].of = instance[h].of
                              /\ instance'[h].live => instance[h].live
    PROVE  HostInv'
<1>1. HandlesAreOfTheirSessions'
    BY DEF HostInv, HostTypes, HandlesAreOfTheirSessions
<1>2. MeetingsAreNoted'
    BY DEF HostInv, MeetingsAreNoted
<1>3. ASSUME NEW w \in Works, request'[w] # NoWork
      PROVE  HandleFits(request'[w], instance') /\ Undisturbed(request'[w], linked', kept')
    <2>1. request'[w] = request[w] /\ HandleFits(request[w], instance)
          /\ Undisturbed(request[w], linked, kept)
        BY <1>3 DEF HostInv
    <2> QED
        BY <2>1 DEF HandleFits, Undisturbed
<1> QED
    BY <1>1, <1>2, <1>3 DEF HostInv

LEMMA HostStep == HostInv /\ [HostNext]_hostVars => HostInv' /\ (HostNext => NobodyIsLeft)
<1> SUFFICES ASSUME HostInv, [HostNext]_hostVars PROVE HostInv' /\ (HostNext => NobodyIsLeft)
    OBVIOUS
<1>1. CASE UNCHANGED hostVars
    <2>1. HostInv'
        BY <1>1, EndsKeep DEF hostVars, HostInv, HostTypes
    <2>2. NobodyIsLeft
        BY <1>1 DEF hostVars, NobodyIsLeft, Abandoned, KeptHandles
    <2> QED
        BY <2>1, <2>2
<1>2. ASSUME NEW w \in Works, NEW s \in HostIds,
             NEW kind \in {"bind", "idle", "active", "call", "wake", "close"}, Begin(w, kind, s)
      PROVE  HostInv' /\ NobodyIsLeft
    BY <1>2, BeginKeeps
<1>3. ASSUME NEW w \in Works,
             \/ Disconnects(w) \/ Beats(w) \/ Forgets(w) \/ Reopens(w) \/ Proceeds(w)
             \/ \E h \in Handles : Opens(w, h)
      PROVE  HostInv' /\ NobodyIsLeft
    BY <1>3, RequestStepsKeep
<1>4. ASSUME NEW h \in Handles, Expires(h) \/ EndDisconnects(h) PROVE HostInv' /\ NobodyIsLeft
    <2>1. /\ instance' = [instance EXCEPT ![h].live = FALSE]
          /\ UNCHANGED <<linked, kept, bound, request>>
          /\ leaving' = leaving \/ (leaving' = leaving \ {h} /\ h \in leaving)
        BY <1>4 DEF Expires, EndDisconnects, Left
    <2>2. /\ instance' \in [Handles -> Instances] /\ ~instance'[h].live
          /\ \A g \in Handles : /\ instance'[g].of = instance[g].of
                                /\ instance'[g].live => instance[g].live
        BY <2>1 DEF HostInv, HostTypes, Instances
    <2>3. HostInv'
        BY <2>1, <2>2, EndsKeep DEF HostInv, HostTypes
    <2>4. NobodyIsLeft
        BY <2>1, <2>2 DEF NobodyIsLeft, Abandoned, KeptHandles
    <2> QED
        BY <2>3, <2>4
<1>5. CASE EndBegins
    <2>1. HostTypes'
        BY <1>5 DEF HostInv, HostTypes, EndBegins, KeptHandles
    <2>2. HostInv'
        BY <1>5, <2>1, EndsKeep DEF EndBegins
    <2>3. NobodyIsLeft
        BY <1>5 DEF NobodyIsLeft, Abandoned, EndBegins, HostInv, HostTypes
    <2> QED
        BY <2>2, <2>3
<1>6. CASE EndIsThrough
    <2>1. HostTypes'
        BY <1>6 DEF HostInv, HostTypes, EndIsThrough, NoId
    <2>2. HostInv'
        BY <1>6, <2>1, EndsKeep DEF EndIsThrough
    <2>3. NobodyIsLeft
        BY <1>6 DEF NobodyIsLeft, Abandoned, EndIsThrough
    <2> QED
        BY <2>2, <2>3
<1> QED
    BY <1>1, <1>2, <1>3, <1>4, <1>5, <1>6 DEF HostNext

LEMMA HostBegins == HostInit => HostInv
BY RequestsAre DEF HostInit, HostInv, HostTypes, Instances, HandlesAreOfTheirSessions, MeetingsAreNoted

\* For any host sessions, handles and requests: a handle is kept for the session it was opened for,
\* a request runs as an instance of the session it was for when it came, and an instance is left
\* to the sweep only where requests for its session overlapped, or one and the connection's end.
THEOREM SessionsStayKept == HostSpec => SessionsAreKept
<1>1. HostInv => HandlesAreOfTheirSessions /\ RequestsRunAsTheirSessions
    BY RequestsAre DEF HostInv, RequestsRunAsTheirSessions, HandleFits
<1>2. HostInv /\ [HostNext]_hostVars =>
          [\A h \in Handles : Abandoned(h)' /\ ~Abandoned(h) => Overlap(instance'[h].of)]_hostVars
    BY HostStep DEF NobodyIsLeft
<1>3. HostInv /\ [HostNext]_hostVars => HostInv'
    BY HostStep
<1> QED
    BY <1>1, <1>2, <1>3, HostBegins, PTL DEF HostSpec, SessionsAreKept, AbandonedByOverlap

-----------------------------------------------------------------------------
(* Connections. *)

ServeRecords ==
    [at : {"resolving", "opening", "opened", "undoing", "reading", "using", "shutting", "shut"},
     of : Sockets, kind : {"view", "look", "open", "use", "shut"},
     presence : Presences \cup {NoPresence}, cancelled : BOOLEAN]
ServeStates == {NotServing} \cup ServeRecords

\* A request that is cancelled is the same otherwise.
LEMMA Cancelled ==
    ASSUME NEW r \in ServeRecords
    PROVE  /\ [r EXCEPT !.cancelled = TRUE] \in ServeRecords
           /\ [r EXCEPT !.cancelled = TRUE] # NotServing
           /\ [r EXCEPT !.cancelled = TRUE].cancelled
           /\ [r EXCEPT !.cancelled = TRUE].at = r.at
           /\ [r EXCEPT !.cancelled = TRUE].of = r.of
           /\ [r EXCEPT !.cancelled = TRUE].kind = r.kind
           /\ [r EXCEPT !.cancelled = TRUE].presence = r.presence
BY DEF ServeRecords, NotServing

ConnectionsTypes ==
    /\ ends \in [Sockets -> {"open", "ended", "cleaning", "gone"}]
    /\ viewers \subseteq Sockets /\ observers \subseteq Sockets /\ opening \subseteq Sockets
    /\ adapters \in [Sockets -> Presences \cup {NoPresence}]
    /\ asked \in [Serves -> ServeStates]
    /\ present \subseteq Presences

IsOpening(q) == IsAsked(q) /\ asked[q].kind \in {"view", "open"}

\* How far a request of each kind may have come.
KindsAreServed ==
    \A q \in Serves : IsAsked(q) =>
        /\ asked[q].kind = "view" => asked[q].at = "resolving"
        /\ asked[q].kind = "look" => asked[q].at = "reading"
        /\ asked[q].kind = "open" => asked[q].at \in {"resolving", "opening", "opened", "undoing"}
        /\ asked[q].kind = "use" => asked[q].at = "using"
        /\ asked[q].kind = "shut" => asked[q].at \in {"shutting", "shut"}
        /\ asked[q].kind \in {"use", "shut"} => asked[q].presence \in Presences
        /\ asked[q].at = "opened" => asked[q].presence \in Presences

\* One request at most opens something on a connection, which has no session then.
OpeningsAreAlone ==
    /\ \A q \in Serves : IsOpening(q) =>
          asked[q].of \in opening /\ adapters[asked[q].of] = NoPresence
    /\ \A p, q \in Serves : IsOpening(p) /\ IsOpening(q) /\ asked[p].of = asked[q].of => p = q
    /\ \A s \in opening : \E q \in Serves : IsOpening(q) /\ asked[q].of = s

\* A session that is closed is that of the connection.
ShutsAreOfSessions ==
    \A q \in Serves : IsAsked(q) /\ asked[q].kind = "shut" =>
        /\ adapters[asked[q].of] = asked[q].presence
        /\ asked[q].at = "shut" => asked[q].presence \notin present
OneShutAtATime ==
    \A p, q \in Serves :
        /\ IsAsked(p) /\ asked[p].kind = "shut"
        /\ IsAsked(q) /\ asked[q].kind = "shut"
        /\ asked[p].of = asked[q].of
        => p = q
UsesAreOfSessions ==
    \A q \in Serves : IsAsked(q) /\ asked[q].kind = "use" =>
        adapters[asked[q].of] = asked[q].presence \/ asked[q].presence \notin present

ViewersView ==
    /\ observers \subseteq viewers
    /\ \A q \in Serves : IsAsked(q) =>
          /\ asked[q].kind = "view" => asked[q].of \in viewers
          /\ asked[q].kind \in {"open", "shut"} => asked[q].of \notin viewers

EndsAreKnown ==
    \A s \in Sockets : ends[s] # "open" =>
        /\ \A q \in Serves : IsAsked(q) /\ asked[q].of = s => asked[q].cancelled
        /\ ends[s] # "ended" => AllAnswered(s) /\ s \notin observers

ConnectionsInv ==
    /\ ConnectionsTypes /\ KindsAreServed /\ OpeningsAreAlone /\ ShutsAreOfSessions
    /\ OneShutAtATime /\ UsesAreOfSessions /\ ViewersView /\ EndsAreKnown /\ ConnectionsAreClean

LEMMA ConnectionsInvHolds == ConnectionsSpec => []ConnectionsInv
<1>1. ConnectionsInit => ConnectionsInv
  BY PresencesAssumption
     DEF ConnectionsInit, ConnectionsInv, ConnectionsTypes, KindsAreServed, OpeningsAreAlone,
         ShutsAreOfSessions, OneShutAtATime, UsesAreOfSessions, ViewersView, EndsAreKnown,
         ConnectionsAreClean, ObserversOnlyRead, NoneIsForgotten, NothingIsLeft, AllAnswered,
         ServeStates, ServeRecords, IsAsked, IsOpening, NotServing
<1>2. ConnectionsInv /\ [ConnectionsNext]_connectionVars => ConnectionsInv'
  <2> SUFFICES ASSUME ConnectionsInv, [ConnectionsNext]_connectionVars PROVE ConnectionsInv'
    OBVIOUS
  <2> USE PresencesAssumption
      DEF ConnectionsInv, ConnectionsTypes, KindsAreServed, OpeningsAreAlone, ShutsAreOfSessions,
          OneShutAtATime, UsesAreOfSessions, ViewersView, EndsAreKnown, ConnectionsAreClean,
          ObserversOnlyRead, NoneIsForgotten, NothingIsLeft, IsTended, AllAnswered, IsOpening,
          ServeStates, ServeRecords, NotServing, IsAsked, NoPresence
  <2>1. ASSUME NEW q \in Serves, NEW s \in Sockets, OpensObserver(q, s)
        PROVE  ConnectionsInv'
    BY <2>1, SMTT(60) DEF OpensObserver, Free, Ask, Admitted
  <2>2. ASSUME NEW q \in Serves, NEW s \in Sockets, Observes(q, s)
        PROVE  ConnectionsInv'
    BY <2>2, SMTT(60) DEF Observes, Ask, Admitted
  <2>3. ASSUME NEW q \in Serves, NEW s \in Sockets, OpensSession(q, s)
        PROVE  ConnectionsInv'
    BY <2>3, SMTT(60) DEF OpensSession, Free, Ask, Admitted
  <2>4. ASSUME NEW q \in Serves, NEW s \in Sockets, UsesSession(q, s)
        PROVE  ConnectionsInv'
    BY <2>4, SMTT(60) DEF UsesSession, Ask, Admitted
  <2>5. ASSUME NEW q \in Serves, NEW s \in Sockets, ClosesSession(q, s)
        PROVE  ConnectionsInv'
    BY <2>5, SMTT(60) DEF ClosesSession, Ask, Admitted
  <2>6. ASSUME NEW q \in Serves, Resolves(q)
        PROVE  ConnectionsInv'
    BY <2>6, SMTT(60) DEF Resolves, Reaches, Through
  <2>7. ASSUME NEW q \in Serves, NEW i \in Presences, OpensInstance(q, i)
        PROVE  ConnectionsInv'
    BY <2>7, SMTT(60) DEF OpensInstance
  <2>8. ASSUME NEW q \in Serves, Keeps(q)
        PROVE  ConnectionsInv'
    BY <2>8, SMTT(60) DEF Keeps, Reaches, Through
  <2>9. ASSUME NEW q \in Serves, NEW fails \in BOOLEAN, ClosesAdapter(q, fails)
        PROVE  ConnectionsInv'
    BY <2>9, SMTT(60) DEF ClosesAdapter, Reaches, Through
  <2>10. ASSUME NEW q \in Serves, ForgetsSession(q)
        PROVE  ConnectionsInv'
    BY <2>10, SMTT(60) DEF ForgetsSession, Through
  <2>11. ASSUME NEW q \in Serves, EndsRequest(q)
        PROVE  ConnectionsInv'
    BY <2>11, SMTT(60) DEF EndsRequest, Through
  <2>12. ASSUME NEW q \in Serves, Withdraws(q)
        PROVE  ConnectionsInv'
    <3>1. IsAsked(q) => asked[q] \in ServeRecords
      OBVIOUS
    <3>2. IsAsked(q) => [asked[q] EXCEPT !.cancelled = TRUE] \in ServeRecords
      BY <3>1, Cancelled
    <3> QED
      BY <2>12, <3>2, SMTT(60) DEF Withdraws
  <2>13. ASSUME NEW s \in Sockets, ClosesObserver(s)
        PROVE  ConnectionsInv'
    BY <2>13, SMTT(60) DEF ClosesObserver, Admitted
  <2>14. ASSUME NEW s \in Sockets, Leaves(s)
        PROVE  ConnectionsInv'
    <3>1. \A p \in Serves : IsAsked(p) => asked[p] \in ServeRecords
      OBVIOUS
    <3>2. \A p \in Serves : IsAsked(p) => [asked[p] EXCEPT !.cancelled = TRUE] \in ServeRecords
      BY <3>1, Cancelled
    <3>3. ASSUME NEW p \in Serves
          PROVE  /\ IsAsked(p)' <=> IsAsked(p)
                 /\ IsAsked(p) =>
                       /\ asked'[p].at = asked[p].at /\ asked'[p].of = asked[p].of
                       /\ asked'[p].kind = asked[p].kind
                       /\ asked'[p].presence = asked[p].presence
                       /\ asked[p].cancelled \/ asked[p].of = s => asked'[p].cancelled
      <4>1. CASE IsAsked(p) /\ asked[p].of = s
        <5> DEFINE toBeTold == [asked[p] EXCEPT !.cancelled = TRUE]
        <5>1. asked'[p] = toBeTold
          BY <2>14, <4>1 DEF Leaves
        <5>2. /\ toBeTold # NotServing /\ toBeTold.at = asked[p].at /\ toBeTold.of = asked[p].of
              /\ toBeTold.kind = asked[p].kind /\ toBeTold.presence = asked[p].presence
              /\ toBeTold.cancelled
          BY <3>1, <4>1, Cancelled
        <5> HIDE DEF toBeTold
        <5> QED
          BY <4>1, <5>1, <5>2
      <4>2. CASE ~(IsAsked(p) /\ asked[p].of = s)
        <5>1. asked'[p] = asked[p]
          BY <2>14, <4>2 DEF Leaves
        <5> QED
          BY <4>2, <5>1
      <4> QED
        BY <4>1, <4>2
    <3>4. asked' \in [Serves -> ServeStates]
      BY <2>14, <3>2 DEF Leaves
    <3>5. /\ ends' = [ends EXCEPT ![s] = "ended"] /\ ends[s] = "open"
          /\ UNCHANGED <<halting, viewers, observers, opening, adapters, present, unclosed, served>>
      BY <2>14 DEF Leaves
    <3> QED
      BY <3>3, <3>4, <3>5, SMTT(60)
  <2>15. ASSUME NEW s \in Sockets, CleansUp(s)
        PROVE  ConnectionsInv'
    BY <2>15, SMTT(60) DEF CleansUp
  <2>16. ASSUME NEW s \in Sockets, NEW fails \in BOOLEAN, CleanedUp(s, fails)
        PROVE  ConnectionsInv'
    BY <2>16, SMTT(60) DEF CleanedUp
  <2>17. ASSUME NEW i \in Presences, Falls(i)
        PROVE  ConnectionsInv'
    BY <2>17, SMTT(60) DEF Falls
  <2>18. CASE Stops
    BY <2>18 DEF Stops
  <2>19. CASE UNCHANGED connectionVars
    BY <2>19 DEF connectionVars
  <2> QED
    <3> HIDE DEF ConnectionsInv
    <3> QED
      BY <2>1, <2>2, <2>3, <2>4, <2>5, <2>6, <2>7, <2>8, <2>9, <2>10, <2>11, <2>12, <2>13, <2>14,
         <2>15, <2>16, <2>17, <2>18, <2>19 DEF ConnectionsNext
<1> QED
  BY <1>1, <1>2, PTL DEF ConnectionsSpec

\* For any number of connections, requests at a time and instances: an observer only reads, every
\* instance is some connection's, which is still there, or its disconnect failed, and who has
\* gone leaves nothing else; whenever a connection ends, whatever it was asked for.
THEOREM ConnectionsStayClean == ConnectionsSpec => []ConnectionsAreClean
BY ConnectionsInvHolds, PTL DEF ConnectionsInv

-----------------------------------------------------------------------------
(* Presence in the log of activity. *)

VisitRows == {NoRow} \cup [of : Persons, active : BOOLEAN]
RunningChanges == [at : {"running"}, rows : [Visits -> VisitRows], bound : Persons \cup {NoPerson},
                   stale : SUBSET (Visits \cup {"binding"}), crossed : SUBSET Persons]

EventsTypeOK ==
    /\ rows \in [Visits -> VisitRows]
    /\ boundTo \in Persons \cup {NoPerson}
    /\ change \in [Changes -> {Resting} \cup RunningChanges]
    /\ waiting \in [Persons -> SUBSET BOOLEAN]
    /\ said \in [Persons -> BOOLEAN]

\* What a transaction sees of an identity nobody else changed is what there is, and so is what
\* it sees of an instance nobody else wrote.
SeesRight(r, s) ==
    s.at = "running" =>
        /\ \A i \in Visits : i \notin s.stale => s.rows[i] = r[i]
        /\ \A d \in Persons \ s.crossed, i \in Visits :
              s.rows[i].of = d \/ r[i].of = d => s.rows[i] = r[i]

\* The last event about an identity, published or waiting alone, is true.
SaysTrue(r, wait, say, d) ==
    /\ wait[d] = {} => say[d] = (ActiveOf(r, d) # {})
    /\ wait[d] # {} => wait[d] = {ActiveOf(r, d) # {}}

EventsInv ==
    /\ EventsTypeOK
    /\ \A t \in Changes : SeesRight(rows, change[t])
    /\ \A d \in Persons \ doubtful : SaysTrue(rows, waiting, said, d)

LEMMA WrittenParts ==
  ASSUME NEW a, NEW b, NEW c
  PROVE  Written(a, b, c).rows = a /\ Written(a, b, c).bound = b /\ Written(a, b, c).besides = c
BY DEF Written

\* What a transaction writes: instances, none of which leaves an identity whose presence it
\* looks at.
LEMMA WritingsHaveShape ==
  ASSUME EventsTypeOK, NEW s \in RunningChanges, NEW w \in Writings(s)
  PROVE  /\ DOMAIN w.rows \in SUBSET Visits
         /\ \A i \in DOMAIN w.rows : w.rows[i] \in VisitRows /\ w.rows[i].of \in Persons
         /\ w.besides \in SUBSET {"binding"} /\ w.bound \in Persons \cup {NoPerson}
         /\ (\A i \in DOMAIN w.rows : s.rows[i] = rows[i]) =>
               \A i, j \in DOMAIN w.rows :
                  s.rows[i].of = w.rows[j].of => w.rows[i].of = s.rows[i].of
<1>0. /\ s.rows \in [Visits -> VisitRows] /\ s.bound \in Persons \cup {NoPerson}
      /\ \A i \in Visits : s.rows[i] \in VisitRows /\ s.rows[i].active \in BOOLEAN
      /\ \A i \in Visits : s.rows[i].active => s.rows[i].of \in Persons
  <2>1. s.rows \in [Visits -> VisitRows] /\ s.bound \in Persons \cup {NoPerson}
    BY DEF RunningChanges
  <2>2. \A x \in VisitRows : x.active \in BOOLEAN /\ (x.active => x.of \in Persons)
    <3> SUFFICES ASSUME NEW x \in VisitRows PROVE x.active \in BOOLEAN /\ (x.active => x.of \in Persons)
      OBVIOUS
    <3>1. CASE x = NoRow
      BY <3>1 DEF NoRow
    <3>2. CASE x \in [of : Persons, active : BOOLEAN]
      BY <3>2
    <3> QED
      BY <3>1, <3>2 DEF VisitRows
  <2> QED
    BY <2>1, <2>2
<1> DEFINE shaped ==
        /\ DOMAIN w.rows \in SUBSET Visits
        /\ \A i \in DOMAIN w.rows : w.rows[i] \in VisitRows /\ w.rows[i].of \in Persons
        /\ w.besides \in SUBSET {"binding"} /\ w.bound \in Persons \cup {NoPerson}
        /\ (\A i \in DOMAIN w.rows : s.rows[i] = rows[i]) =>
              \A i, j \in DOMAIN w.rows :
                 s.rows[i].of = w.rows[j].of => w.rows[i].of = s.rows[i].of
<1>1. ASSUME NEW i \in FreshVisits, NEW d \in Persons, w.rows = Coming(i, d),
             w.besides \in SUBSET {"binding"}, w.bound \in Persons \cup {NoPerson}
      PROVE  shaped
  <2>1. /\ i \in Visits /\ rows[i] = NoRow
        /\ DOMAIN w.rows = {i} /\ w.rows[i] = [of |-> d, active |-> TRUE]
    BY <1>1 DEF Coming, FreshVisits
  <2>2. w.rows[i] \in VisitRows /\ w.rows[i].of = d
    BY <2>1 DEF VisitRows
  <2>3. rows[i].of = NoPerson
    BY <2>1 DEF NoRow
  <2> QED
    BY <1>1, <2>1, <2>2, <2>3, PersonsAssumption
<1>2. CASE w \in Arrivals(s)
  <2>1. CASE \E i \in FreshVisits, d \in IF s.bound = NoPerson THEN Unused(s) ELSE {s.bound} :
                w = ComesBack(s, i, d)
    <3>1. PICK i \in FreshVisits, d \in IF s.bound = NoPerson THEN Unused(s) ELSE {s.bound} :
              w = ComesBack(s, i, d)
      BY <2>1
    <3>2. d \in Persons
      BY <1>0 DEF Unused
    <3>3. /\ w.rows = Coming(i, d) /\ w.bound = d
          /\ w.besides = IF s.bound = NoPerson \/ d \in Unused(s) THEN {"binding"} ELSE {}
      BY <3>1, WrittenParts DEF ComesBack
    <3> QED
      BY <3>2, <3>3, <1>1
  <2>2. CASE \E i \in FreshVisits, d \in Unused(s) \ {s.bound} : w = Written(Coming(i, d), s.bound, {})
    <3>1. PICK i \in FreshVisits, d \in Unused(s) \ {s.bound} : w = Written(Coming(i, d), s.bound, {})
      BY <2>2
    <3>2. d \in Persons
      BY DEF Unused
    <3>3. w.rows = Coming(i, d) /\ w.bound = s.bound /\ w.besides = {}
      BY <3>1, WrittenParts
    <3> QED
      BY <3>2, <3>3, <1>0, <1>1
  <2> QED
    BY <1>2, <2>1, <2>2 DEF Arrivals
<1>3. CASE w \in Departures(s)
  <2>1. PICK lost \in SUBSET {i \in Visits : s.rows[i].active} \ {{}} :
           w = Written(Leaving(s.rows, lost), s.bound, {})
    BY <1>3 DEF Departures
  <2>2. w.rows = Leaving(s.rows, lost) /\ w.bound = s.bound /\ w.besides = {}
    BY <2>1, WrittenParts
  <2>3. DOMAIN w.rows = lost /\ \A i \in lost : w.rows[i] = [s.rows[i] EXCEPT !.active = FALSE]
    BY <2>2 DEF Leaving
  <2>4. ASSUME NEW i \in lost
        PROVE  i \in Visits /\ w.rows[i] \in VisitRows /\ w.rows[i].of = s.rows[i].of
               /\ w.rows[i].of \in Persons
    <3>1. i \in Visits /\ s.rows[i].active
      OBVIOUS
    <3>2. s.rows[i] \in VisitRows /\ s.rows[i].of \in Persons
      BY <3>1, <1>0
    <3>3. s.rows[i] \in [of : Persons, active : BOOLEAN]
      BY <3>2, PersonsAssumption DEF VisitRows, NoRow
    <3>4. w.rows[i] = [s.rows[i] EXCEPT !.active = FALSE]
      BY <2>3
    <3>5. w.rows[i] \in [of : Persons, active : BOOLEAN] /\ w.rows[i].of = s.rows[i].of
      BY <3>3, <3>4
    <3> QED
      BY <3>1, <3>2, <3>5 DEF VisitRows
  <2> QED
    BY <2>2, <2>3, <2>4, <1>0
<1>4. CASE w \in Refreshes(s)
  <2>1. PICK j \in {i \in Visits : s.rows[i].active} :
           w = Written([i \in {j} |-> s.rows[i]], s.bound, {})
    BY <1>4 DEF Refreshes
  <2>2. w.rows = [i \in {j} |-> s.rows[i]] /\ w.bound = s.bound /\ w.besides = {}
    BY <2>1, WrittenParts
  <2>3. DOMAIN w.rows = {j} /\ w.rows[j] = s.rows[j] /\ j \in Visits /\ s.rows[j].active
    BY <2>2
  <2> QED
    BY <2>2, <2>3, <1>0
<1>5. CASE w \in Renamings(s)
  <2>1. PICK d \in Persons \ Unused(s), e \in Unused(s) \ {s.bound} : w = TakesName(s, d, e)
    BY <1>5 DEF Renamings
  <2>2. /\ w.rows = Moving(s.rows, d, e) /\ w.besides \in SUBSET {"binding"}
        /\ w.bound \in {e, s.bound}
    <3>1. CASE s.bound = d
      <4>1. w = Written(Moving(s.rows, d, e), e, {"binding"})
        BY <2>1, <3>1 DEF TakesName
      <4> QED
        BY <4>1, WrittenParts
    <3>2. CASE s.bound # d
      <4>1. w = Written(Moving(s.rows, d, e), s.bound, {})
        BY <2>1, <3>2 DEF TakesName
      <4>2. w.rows = Moving(s.rows, d, e) /\ w.besides = {} /\ w.bound = s.bound
        BY <4>1, WrittenParts
      <4> QED
        BY <4>2
    <3> QED
      BY <3>1, <3>2
  <2>3. /\ DOMAIN w.rows = ActiveOf(s.rows, d)
        /\ \A i \in ActiveOf(s.rows, d) : w.rows[i] = [of |-> e, active |-> TRUE]
    BY <2>2 DEF Moving
  <2>4. /\ d \in Persons /\ e \in Persons /\ d # e
        /\ \A i \in ActiveOf(s.rows, d) : i \in Visits /\ s.rows[i].of = d
    BY <2>1 DEF ActiveOf, Unused
  <2>5. [of |-> e, active |-> TRUE] \in VisitRows
    BY <2>4 DEF VisitRows
  <2> QED
    BY <2>2, <2>3, <2>4, <2>5, <1>0
<1> QED
  BY <1>2, <1>3, <1>4, <1>5 DEF Writings

\* Whose instances a commit leaves as they are, is there as before.
LEMMA OthersStayThere ==
  ASSUME NEW r, NEW new, NEW d,
         \A i \in Visits : r[i].of = d \/ new[i].of = d => new[i] = r[i]
  PROVE  ActiveOf(new, d) = ActiveOf(r, d)
BY DEF ActiveOf

\* The commit of a transaction.
CommitOf(t, s, w, now) ==
    /\ WrittenBy(w) \cap s.stale = {}
    /\ rows' = [i \in Visits |-> IF i \in DOMAIN w.rows THEN w.rows[i] ELSE rows[i]]
    /\ boundTo' = IF "binding" \in w.besides THEN w.bound ELSE boundTo
    /\ change' = [u \in Changes |->
          IF u = t THEN Resting
          ELSE IF change[u] = Resting THEN Resting
          ELSE [change[u] EXCEPT !.stale = @ \cup WrittenBy(w),
                                 !.crossed = @ \cup ChangedBy(w)]]
    /\ waiting' = now
    /\ doubtful' = (doubtful \ Announced(s, w)) \cup Doubted(s, w, now)
    /\ said' = said

LEMMA CommitsSayTrue ==
  ASSUME EventsInv, NEW t \in Changes, CommitChange(t)
  PROVE  EventsInv'
<1> DEFINE s == change[t]
           nowOf(w) == [d \in Persons |->
               waiting[d] \cup IF d \in Announced(s, w) THEN {IsOnline(s, w, d)} ELSE {}]
<1>1. PICK w \in Writings(s) : CommitOf(t, s, w, nowOf(w))
  BY DEF CommitChange, CommitOf
<1> DEFINE now == nowOf(w)
<1>2. EventsTypeOK /\ s \in RunningChanges /\ SeesRight(rows, s) /\ s.at = "running"
  <2>1. EventsTypeOK /\ SeesRight(rows, s) /\ s.at = "running"
    BY DEF CommitChange, EventsInv
  <2>2. s \in {Resting} \cup RunningChanges
    BY <2>1 DEF EventsTypeOK
  <2> QED
    BY <2>1, <2>2 DEF Resting
<1>3. \A i \in DOMAIN w.rows : i \in Visits => s.rows[i] = rows[i]
  BY <1>1, <1>2 DEF CommitOf, SeesRight, WrittenBy
<1>4. /\ DOMAIN w.rows \in SUBSET Visits
      /\ \A i \in DOMAIN w.rows : w.rows[i] \in VisitRows /\ w.rows[i].of \in Persons
      /\ w.besides \in SUBSET {"binding"} /\ w.bound \in Persons \cup {NoPerson}
      /\ \A i, j \in DOMAIN w.rows :
            s.rows[i].of = w.rows[j].of => w.rows[i].of = s.rows[i].of
      /\ \A i \in DOMAIN w.rows : s.rows[i] = rows[i]
  <2> HIDE DEF s
  <2>1. DOMAIN w.rows \in SUBSET Visits
    BY <1>2, WritingsHaveShape
  <2>2. \A i \in DOMAIN w.rows : s.rows[i] = rows[i]
    BY <2>1, <1>3
  <2> QED
    BY <2>1, <2>2, <1>2, WritingsHaveShape
<1> HIDE DEF nowOf, now
<1>5. /\ rows' \in [Visits -> VisitRows]
      /\ \A i \in Visits : rows'[i] = IF i \in DOMAIN w.rows THEN w.rows[i] ELSE rows[i]
  BY <1>1, <1>2, <1>4 DEF CommitOf, EventsTypeOK
<1>6. /\ ChangedBy(w) \in SUBSET Persons
      /\ \A i \in Visits, d \in Persons :
            d \notin ChangedBy(w) => (rows[i].of = d \/ rows'[i].of = d => rows'[i] = rows[i])
  <2>1. \A i \in Visits : rows[i] \in VisitRows
    BY <1>2 DEF EventsTypeOK
  <2> QED
    BY <2>1, <1>4, <1>5, PersonsAssumption DEF ChangedBy, VisitRows, NoRow
<1>7. ASSUME NEW u \in Changes
      PROVE  change'[u] \in {Resting} \cup RunningChanges /\ SeesRight(rows', change'[u])
  <2>1. CASE change'[u] = Resting
    BY <2>1 DEF Resting, SeesRight
  <2>2. CASE change'[u] # Resting
    <3> DEFINE c == change[u]
               n == [c EXCEPT !.stale = @ \cup WrittenBy(w), !.crossed = @ \cup ChangedBy(w)]
    <3>1. c \in RunningChanges /\ change'[u] = n /\ SeesRight(rows, c)
      BY <2>2, <1>1, <1>2 DEF CommitOf, EventsTypeOK, EventsInv
    <3>2. WrittenBy(w) \in SUBSET (Visits \cup {"binding"}) /\ DOMAIN w.rows \in SUBSET WrittenBy(w)
      BY <1>4 DEF WrittenBy
    <3>3. /\ n \in RunningChanges /\ n.rows = c.rows /\ n.stale = c.stale \cup WrittenBy(w)
          /\ n.crossed = c.crossed \cup ChangedBy(w) /\ c.at = "running"
      BY <3>1, <3>2, <1>6 DEF RunningChanges
    <3> HIDE DEF n
    <3>4. ASSUME NEW i \in Visits, i \notin n.stale PROVE n.rows[i] = rows'[i]
      BY <3>1, <3>2, <3>3, <3>4, <1>5 DEF SeesRight
    <3>5. ASSUME NEW d \in Persons \ n.crossed, NEW i \in Visits,
                 n.rows[i].of = d \/ rows'[i].of = d
          PROVE  n.rows[i] = rows'[i]
      <4>1. d \notin c.crossed /\ d \notin ChangedBy(w)
        BY <3>3
      <4>2. c.rows[i].of = d \/ rows[i].of = d => c.rows[i] = rows[i]
        BY <4>1, <3>1, <3>3 DEF SeesRight
      <4>3. rows[i].of = d \/ rows'[i].of = d => rows'[i] = rows[i]
        BY <4>1, <1>6
      <4> QED
        BY <4>2, <4>3, <3>3, <3>5
    <3> QED
      BY <3>1, <3>3, <3>4, <3>5 DEF SeesRight
  <2> QED
    BY <2>1, <2>2
<1>8. ASSUME NEW d \in Persons
      PROVE  now[d] = waiting[d] \cup IF d \in Announced(s, w) THEN {IsOnline(s, w, d)} ELSE {}
  BY DEF now, nowOf
<1>9. EventsTypeOK'
  <2>1. change' \in [Changes -> {Resting} \cup RunningChanges]
    BY <1>1, <1>7 DEF CommitOf
  <2>2. now \in [Persons -> SUBSET BOOLEAN]
    <3>1. ASSUME NEW d \in Persons PROVE now[d] \in SUBSET BOOLEAN
      <4>1. IsOnline(s, w, d) \in BOOLEAN
        BY DEF IsOnline
      <4>2. waiting[d] \in SUBSET BOOLEAN
        BY <1>2 DEF EventsTypeOK
      <4> QED
        BY <4>1, <4>2, <1>8
    <3> QED
      BY <3>1 DEF now, nowOf
  <2> QED
    BY <2>1, <2>2, <1>1, <1>2, <1>4, <1>5 DEF CommitOf, EventsTypeOK, now
<1>10. ASSUME NEW d \in Persons \ doubtful' PROVE SaysTrue(rows', waiting', said', d)
  <2>1. /\ waiting' = now /\ said' = said /\ d \notin s.crossed \cap Affected(w)
        /\ d \notin ChangedBy(w) \ Affected(w)
        /\ d \in Announced(s, w) => now[d] = {IsOnline(s, w, d)}
        /\ d \notin Announced(s, w) => d \notin doubtful
    BY <1>1 DEF CommitOf, Doubted, now
  <2>2. CASE d \notin Affected(w)
    <3>1. d \notin Announced(s, w) /\ d \notin ChangedBy(w)
      BY <2>1, <2>2 DEF Announced
    <3>2. ActiveOf(rows', d) = ActiveOf(rows, d)
      BY <3>1, <1>6, OthersStayThere
    <3>3. now[d] = waiting[d] /\ SaysTrue(rows, waiting, said, d)
      BY <3>1, <2>1, <1>8 DEF EventsInv
    <3> QED
      BY <3>2, <3>3, <2>1 DEF SaysTrue
  <2>3. CASE d \in Affected(w)
    <3>1. ActiveOf(s.rows, d) = ActiveOf(rows, d)
      <4>1. \A i \in Visits : s.rows[i].of = d \/ rows[i].of = d => s.rows[i] = rows[i]
        BY <2>1, <2>3, <1>2 DEF SeesRight
      <4> QED
        BY <4>1 DEF ActiveOf
    <3>2. IsOnline(s, w, d) <=> ActiveOf(rows', d) # {}
      <4>1. ASSUME NEW i \in Visits
            PROVE  (IF i \in DOMAIN w.rows /\ w.rows[i].of = d THEN w.rows[i].active
                    ELSE s.rows[i].of = d /\ s.rows[i].active)
                   <=> (rows'[i].of = d /\ rows'[i].active)
        <5>1. CASE i \in DOMAIN w.rows
          <6>1. rows'[i] = w.rows[i] /\ s.rows[i] = rows[i]
            BY <5>1, <1>4, <1>5
          <6>2. s.rows[i].of = d => w.rows[i].of = d
            BY <5>1, <2>3, <1>4 DEF Affected
          <6> QED
            BY <5>1, <6>1, <6>2
        <5>2. CASE i \notin DOMAIN w.rows
          <6>1. rows'[i] = rows[i]
            BY <5>2, <1>5
          <6>2. s.rows[i].of = d \/ rows[i].of = d => s.rows[i] = rows[i]
            BY <2>1, <2>3, <1>2 DEF SeesRight
          <6> QED
            BY <5>2, <6>1, <6>2
        <5> QED
          BY <5>1, <5>2
      <4> QED
        BY <4>1 DEF IsOnline, ActiveOf
    <3>3. CASE d \in Announced(s, w)
      <4>1. now[d] = {IsOnline(s, w, d)}
        BY <3>3, <2>1
      <4>2. now[d] # {}
        BY <4>1
      <4>3. now[d] = {ActiveOf(rows', d) # {}}
        <5>1. IsOnline(s, w, d) \in BOOLEAN /\ (ActiveOf(rows', d) # {}) \in BOOLEAN
          BY DEF IsOnline
        <5>2. IsOnline(s, w, d) = (ActiveOf(rows', d) # {})
          BY <3>2, <5>1
        <5> QED
          BY <4>1, <5>2
      <4> QED
        BY <4>2, <4>3, <2>1 DEF SaysTrue
    <3>4. CASE d \notin Announced(s, w)
      <4>1. ActiveOf(rows, d) # {} <=> ActiveOf(rows', d) # {}
        <5>1. WasOnline(s, d) = IsOnline(s, w, d)
          BY <3>4, <2>3 DEF Announced
        <5> QED
          BY <5>1, <3>1, <3>2 DEF WasOnline
      <4>2. now[d] = waiting[d] /\ SaysTrue(rows, waiting, said, d)
        BY <3>4, <2>1, <1>8 DEF EventsInv
      <4> QED
        BY <4>1, <4>2, <2>1 DEF SaysTrue
    <3> QED
      BY <3>3, <3>4
  <2> QED
    BY <2>2, <2>3
<1> QED
  BY <1>7, <1>9, <1>10 DEF EventsInv

LEMMA BeginningsSeeRight ==
  ASSUME EventsInv, NEW t \in Changes, BeginChange(t)
  PROVE  EventsInv'
<1> DEFINE n == [at |-> "running", rows |-> rows, bound |-> boundTo, stale |-> {}, crossed |-> {}]
<1>1. /\ change' = [change EXCEPT ![t] = n] /\ rows' = rows /\ boundTo' = boundTo
      /\ waiting' = waiting /\ said' = said /\ doubtful' = doubtful /\ EventsTypeOK
  BY DEF BeginChange, EventsInv
<1>2. n \in RunningChanges /\ SeesRight(rows, n)
  BY <1>1 DEF EventsTypeOK, RunningChanges, SeesRight
<1> HIDE DEF n
<1>3. EventsTypeOK'
  BY <1>1, <1>2 DEF EventsTypeOK
<1>4. \A u \in Changes : SeesRight(rows', change'[u])
  BY <1>1, <1>2 DEF EventsInv, EventsTypeOK
<1> QED
  BY <1>1, <1>3, <1>4 DEF EventsInv, SaysTrue

LEMMA EndingsSeeRight ==
  ASSUME EventsInv, NEW t \in Changes, EndChange(t)
  PROVE  EventsInv'
<1>1. /\ change' = [change EXCEPT ![t] = Resting] /\ rows' = rows /\ boundTo' = boundTo
      /\ waiting' = waiting /\ said' = said /\ doubtful' = doubtful /\ EventsTypeOK
  BY DEF EndChange, EventsInv
<1>2. SeesRight(rows, Resting)
  BY DEF SeesRight, Resting
<1>3. EventsTypeOK'
  BY <1>1 DEF EventsTypeOK
<1>4. \A u \in Changes : SeesRight(rows', change'[u])
  BY <1>1, <1>2 DEF EventsInv, EventsTypeOK
<1> QED
  BY <1>1, <1>3, <1>4 DEF EventsInv, SaysTrue

LEMMA PublishedAreTrue ==
  ASSUME EventsInv, PublishEvents
  PROVE  EventsInv'
<1>1. /\ rows' = rows /\ boundTo' = boundTo /\ change' = change /\ doubtful' = doubtful
      /\ waiting' = [d \in Persons |-> {}] /\ EventsTypeOK /\ said' \in [Persons -> BOOLEAN]
      /\ \A d \in Persons : IF waiting[d] = {} THEN said'[d] = said[d] ELSE said'[d] \in waiting[d]
  BY DEF PublishEvents, EventsInv
<1>2. ASSUME NEW d \in Persons \ doubtful PROVE SaysTrue(rows, waiting', said', d)
  <2>1. SaysTrue(rows, waiting, said, d) /\ waiting'[d] = {}
    BY <1>1 DEF EventsInv
  <2>2. said'[d] = (ActiveOf(rows, d) # {})
    <3>1. CASE waiting[d] = {}
      BY <3>1, <2>1, <1>1 DEF SaysTrue
    <3>2. CASE waiting[d] # {}
      <4>1. said'[d] \in {ActiveOf(rows, d) # {}}
        BY <3>2, <2>1, <1>1 DEF SaysTrue
      <4> QED
        BY <4>1
    <3> QED
      BY <3>1, <3>2
  <2> QED
    BY <2>1, <2>2 DEF SaysTrue
<1> QED
  BY <1>1, <1>2 DEF EventsInv, EventsTypeOK

\* The last event of the activity log about an agent, once published, says whether it is there.
THEOREM EventsStayTrue == EventsSpec => []EventsAreTrue
<1>1. EventsInit => EventsInv
  <2> SUFFICES ASSUME EventsInit PROVE EventsInv
    OBVIOUS
  <2>1. EventsTypeOK
    BY DEF EventsInit, EventsTypeOK, VisitRows
  <2>2. \A t \in Changes : SeesRight(rows, change[t])
    BY DEF EventsInit, SeesRight, Resting
  <2>3. ASSUME NEW d \in Persons PROVE SaysTrue(rows, waiting, said, d)
    <3>1. ActiveOf(rows, d) = {}
      BY DEF EventsInit, ActiveOf, NoRow
    <3>2. waiting[d] = {} /\ said[d] = FALSE
      BY DEF EventsInit
    <3> QED
      BY <3>1, <3>2 DEF SaysTrue
  <2> QED
    BY <2>1, <2>2, <2>3 DEF EventsInv
<1>2. EventsInv /\ [EventsNext]_eventVars => EventsInv'
  <2> SUFFICES ASSUME EventsInv, [EventsNext]_eventVars PROVE EventsInv'
    OBVIOUS
  <2>1. CASE UNCHANGED eventVars
    BY <2>1 DEF eventVars, EventsInv, EventsTypeOK
  <2>2. CASE EventsNext
    BY <2>2, BeginningsSeeRight, CommitsSayTrue, EndingsSeeRight, PublishedAreTrue DEF EventsNext
  <2> QED
    BY <2>1, <2>2
<1>3. EventsInv => EventsAreTrue
  BY DEF EventsInv, EventsAreTrue, SaysTrue, Online
<1> QED
  BY <1>1, <1>2, <1>3, PTL DEF EventsSpec
=============================================================================
