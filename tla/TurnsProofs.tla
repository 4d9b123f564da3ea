---------------------------- MODULE TurnsProofs ----------------------------
(***************************************************************************)
(* Turns and the sessions that ask for them, for any number of requests,   *)
(* instances and targets and whatever the limits: turns are exclusive, the *)
(* queue is fair, fences are ordered, nothing waits for the dead, no       *)
(* request loses its owner, a finished row outlives its task but for one   *)
(* that failed late, a marked commit keeps its turn, and nothing that      *)
(* could go on waits for a sweep.                                          *)
(***************************************************************************)
EXTENDS Turns, TurnStateProofs

USE DEF ReservedStates, ActiveStates, FinalStates, TaskStates, Deadlines, NoDeadline

(***************************************************************************)
(* What the tables of requests keep besides their arrangement: a claimed   *)
(* turn carries the target's fence and revision; and fences are the traces *)
(* of claims, in the order of the queue.                                   *)
(***************************************************************************)
Current(rq, fn, rv) ==
  \A r \in DOMAIN rq :
    rq[r].state = "CLAIMED" /\ ~IsFiles(rq[r])
      => rq[r].fence = fn[rq[r].target] /\ rq[r].base = rv[rq[r].target]

Fenced(rq, fn) ==
  /\ \A r \in DOMAIN rq : Unclaimed(rq[r]) \/ IsFiles(rq[r]) => rq[r].fence = 0
  /\ \A r \in DOMAIN rq : rq[r].state = "CLAIMED" /\ ~IsFiles(rq[r]) => rq[r].fence > 0
  /\ \A r \in DOMAIN rq : rq[r].fence > 0 => rq[r].fence <= fn[rq[r].target]
  /\ \A r, s \in DOMAIN rq :
       rq[r].target = rq[s].target /\ rq[r].fence > 0 /\ Unclaimed(rq[s])
         => rq[r].seq < rq[s].seq
  /\ \A r, s \in DOMAIN rq :
       /\ rq[r].target = rq[s].target /\ rq[r].seq < rq[s].seq
       /\ rq[r].fence > 0 /\ rq[s].fence > 0
       => rq[r].fence < rq[s].fence

Sound(rq, qs, fs, fn, rv) ==
  /\ IsTable(rq)
  /\ Alone(rq)
  /\ Numbered(rq, qs, fs)
  /\ Current(rq, fn, rv)
  /\ Ordered(rq)
  /\ Fenced(rq, fn)

\* Whatever is calm keeps a table sound: ends, disconnects, sweeps and restarts.
LEMMA CalmSound ==
  ASSUME NEW old, NEW new, NEW qs, NEW fs, NEW fn, NEW rv,
         Sound(old, qs, fs, fn, rv), Calm(new, old)
  PROVE  Sound(new, qs, fs, fn, rv)
<1>1. Arranged(new, qs, fs)
  BY CalmIsQuiet, QuietArranged DEF Sound, Arranged
<1>2. Current(new, fn, rv)
  BY DEF Sound, Current, Calm, CalmRow, IsFiles
<1>3. Fenced(new, fn)
  BY DEF Sound, Fenced, Calm, CalmRow, IsFiles
<1> QED
  BY <1>1, <1>2, <1>3 DEF Sound, Arranged

\* Nor does promotion disturb a sound table.
LEMMA PromoteSound ==
  ASSUME NEW rq, NEW qs, NEW fs, NEW fn, NEW rv, NEW targets, NEW live,
         Sound(rq, qs, fs, fn, rv)
  PROVE  Sound(PromoteAmong(targets, rq, live), qs, fs, fn, rv)
<1> DEFINE new == PromoteAmong(targets, rq, live)
           moved == {r \in DOMAIN rq : rq[r].target \in targets /\ Promotable(rq, live, r)}
<1>1. Arranged(new, qs, fs)
  BY PromoteArranged DEF Sound, Arranged
<1>2. DOMAIN new = DOMAIN rq
  BY DEF PromoteAmong
<1>3. \A r \in DOMAIN rq :
        /\ new[r].target = rq[r].target /\ new[r].seq = rq[r].seq
        /\ new[r].fence = rq[r].fence
        /\ r \notin moved => new[r] = rq[r]
        /\ r \in moved => new[r].state \in {"READY", "OFFERED"} /\ rq[r].state = "QUEUED"
  BY PromoteKeeps DEF Sound
<1> HIDE DEF new, moved
<1>4. Current(new, fn, rv)
  BY <1>2, <1>3 DEF Sound, Current, IsFiles
<1>5. Fenced(new, fn)
  BY <1>2, <1>3 DEF Sound, Fenced, IsFiles, Unclaimed
<1> QED
  BY <1>1, <1>4, <1>5 DEF new, Sound, Arranged

----------------------------------------------------------------------------
\* The table of the current state is sound.
TableInv == Sound(requests, queueSeq, fileSeq, fence, revision)

LEMMA PromoteAllSound ==
  ASSUME NEW rq, NEW qs, NEW fs, NEW fn, NEW rv, NEW live, Sound(rq, qs, fs, fn, rv)
  PROVE  Sound(Promote(rq, live), qs, fs, fn, rv)
<1> DEFINE promoted == PromoteRequests(rq, live)
<1>1. Sound(promoted, qs, fs, fn, rv)
  BY PromoteSound DEF PromoteRequests
<1>2. DOMAIN promoted = DOMAIN rq /\ \A r \in DOMAIN rq : promoted[r] \in Row
  BY <1>1 DEF PromoteRequests, PromoteAmong, Sound, IsTable
<1>3. Calm(Promote(rq, live), promoted)
  BY <1>2, FinishCalm, SelfCalm DEF Promote, Calm
<1> QED
  BY <1>1, <1>3, CalmSound

\* Content targets on which a turn is claimed, and a step that only takes turns away.
Taken(rq) == {t \in ContentTargets : \E r \in DOMAIN rq : rq[r].target = t /\ rq[r].state = "CLAIMED"}

Loses == Taken(requests') \subseteq Taken(requests) /\ UNCHANGED <<fence, revision>>

LEMMA CalmTaken ==
  ASSUME NEW old, NEW new, Calm(new, old)
  PROVE  Taken(new) \subseteq Taken(old)
  BY DEF Calm, CalmRow, Taken

\* Promotion claims nothing and takes no claimed turn away.
LEMMA PromoteAmongTaken ==
  ASSUME NEW rq, IsTable(rq), NEW targets, NEW live
  PROVE  Taken(PromoteAmong(targets, rq, live)) = Taken(rq)
<1> DEFINE new == PromoteAmong(targets, rq, live)
<1>1. DOMAIN new = DOMAIN rq
  BY DEF PromoteAmong
<1>2. \A r \in DOMAIN rq : /\ new[r].target = rq[r].target
                           /\ new[r].state = "CLAIMED" <=> rq[r].state = "CLAIMED"
  BY MakeAvailableKeeps DEF PromoteAmong, Promotable, IsTable
<1> HIDE DEF new
<1>3. Taken(new) = Taken(rq)
  BY <1>1, <1>2 DEF Taken
<1> QED
  BY <1>3 DEF new

LEMMA PromoteTaken ==
  ASSUME NEW rq, NEW qs, NEW fs, NEW fn, NEW rv, NEW live, Sound(rq, qs, fs, fn, rv)
  PROVE  Taken(Promote(rq, live)) = Taken(rq)
<1> DEFINE promoted == PromoteRequests(rq, live)
           new == Promote(rq, live)
<1>1. Sound(promoted, qs, fs, fn, rv) /\ Taken(promoted) = Taken(rq)
  BY PromoteSound, PromoteAmongTaken DEF PromoteRequests, Sound
<1>2. /\ DOMAIN promoted = DOMAIN rq /\ \A r \in DOMAIN rq : promoted[r] \in Row
      /\ DOMAIN new = DOMAIN rq
      /\ \A r \in DOMAIN rq : \/ new[r] = promoted[r]
                              \/ /\ promoted[r].state \in {"READY", "OFFERED"}
                                 /\ new[r] = Finish(promoted[r], "EXPIRED")
  BY <1>1 DEF Promote, PromoteRequests, PromoteAmong, Sound, IsTable
<1> HIDE DEF promoted, new
<1>3. \A r \in DOMAIN rq : /\ new[r].target = promoted[r].target
                           /\ new[r].state = "CLAIMED" <=> promoted[r].state = "CLAIMED"
  BY <1>2, FinishCalm DEF CalmRow
<1>4. Taken(new) = Taken(promoted)
  BY <1>2, <1>3 DEF Taken
<1> QED
  BY <1>1, <1>4 DEF new

\* A calm change followed by a promotion: most transactions are of this form.
LEMMA CalmThenPromote ==
  ASSUME TableInv, NEW rq, Calm(rq, requests), NEW live,
         requests' = Promote(rq, live),
         UNCHANGED <<queueSeq, fileSeq, fence, revision>>
  PROVE  TableInv' /\ Loses
<1>1. Sound(rq, queueSeq, fileSeq, fence, revision)
  BY CalmSound DEF TableInv
<1>2. TableInv'
  BY <1>1, PromoteAllSound DEF TableInv
<1>3. Taken(requests') = Taken(rq) /\ Taken(rq) \subseteq Taken(requests)
  BY <1>1, PromoteTaken, CalmTaken
<1> QED
  BY <1>2, <1>3 DEF Loses

LEMMA CalmStep ==
  ASSUME TableInv, Calm(requests', requests), UNCHANGED <<queueSeq, fileSeq, fence, revision>>
  PROVE  TableInv' /\ Loses
  BY CalmSound, CalmTaken DEF TableInv, Loses

----------------------------------------------------------------------------
(* The type invariant. *)

ScalarsOK ==
  /\ instances \in [Instances -> [active: BOOLEAN, current: BOOLEAN,
                                  ident: Identities, idle: Nat]]
  /\ queueSeq \in [ContentTargets -> Nat]
  /\ fileSeq \in Nat
  /\ fence \in [ContentTargets -> Nat]
  /\ revision \in [ContentTargets -> Nat]
  /\ bound \subseteq Identities
  /\ committing \subseteq Requests
  /\ inflight \subseteq Requests \X {"turn", "graph"}
  /\ polls \subseteq Instances \X Requests
  /\ jumped \in BOOLEAN
  /\ behind \in BOOLEAN

LEMMA InitInv == Init => ScalarsOK /\ TableInv
<1> SUFFICES ASSUME Init PROVE ScalarsOK /\ TableInv
  OBVIOUS
<1>1. (CHOOSE d \in Identities : TRUE) \in Identities
  BY BoundsAssumption
<1>2. ScalarsOK
  BY <1>1, BoundsAssumption DEF Init, ScalarsOK
<1>3. TableInv
  BY DEF Init, TableInv, Sound, IsTable, Alone, Numbered, Current, Ordered, Fenced
<1> QED
  BY <1>2, <1>3

----------------------------------------------------------------------------
(* Every action keeps the table sound. *)

LEMMA InsertSound ==
  ASSUME TableInv, ScalarsOK, NEW i \in Instances, NEW r \in Requests, r \notin DOMAIN requests,
         NEW t \in Targets, NEW mode \in {"ticket", "task"}, NEW n \in Nat,
         NEW qs, NEW fs,
         t \in FileTargets => qs = queueSeq /\ n = fileSeq + 1 /\ fs = n,
         t \in ContentTargets => /\ fs = fileSeq /\ n = queueSeq[t] + 1
                                 /\ qs = [queueSeq EXCEPT ![t] = n]
  PROVE  /\ Sound(Insert(requests, r, NewRow(i, t, n, mode)), qs, fs, fence, revision)
         /\ Taken(Insert(requests, r, NewRow(i, t, n, mode))) \subseteq Taken(requests)
<1> USE DEF TableInv
<1> DEFINE row == NewRow(i, t, n, mode)
           new == Insert(requests, r, row)
<1>1. row \in Row /\ row.target = t /\ row.seq = n /\ row.state = "QUEUED" /\ row.fence = 0
  BY LimitsAssumption DEF NewRow, Row, ScalarsOK
<1>2. /\ DOMAIN new = DOMAIN requests \cup {r}
      /\ new[r] = row
      /\ \A s \in DOMAIN requests : new[s] = requests[s] /\ requests[s] \in Row
      /\ new = [q \in DOMAIN requests \cup {r} |-> IF q = r THEN row ELSE requests[q]]
  BY DEF Insert, TableInv, Sound, IsTable
<1>3. Arranged(requests, queueSeq, fileSeq)
  BY DEF Sound, Arranged
<1> HIDE DEF row, new
<1>4. /\ Arranged(new, qs, fs)
      /\ \A s \in DOMAIN requests : Overlap(requests[s], row) => requests[s].seq < n
  <2>1. /\ row.target \in FileTargets => qs = queueSeq /\ row.seq = fileSeq + 1 /\ fs = row.seq
        /\ row.target \in ContentTargets => /\ fs = fileSeq /\ row.seq = queueSeq[row.target] + 1
                                            /\ qs = [queueSeq EXCEPT ![row.target] = row.seq]
    BY <1>1
  <2>2. queueSeq \in [ContentTargets -> Nat] /\ fileSeq \in Nat
    BY DEF ScalarsOK
  <2>3. /\ Arranged(new, qs, fs)
        /\ \A s \in DOMAIN requests : Overlap(requests[s], row) => requests[s].seq < row.seq
    BY <1>1, <1>2, <1>3, <2>1, <2>2, InsertArranged, SMTT(60)
  <2> QED
    BY <1>1, <2>3
<1>5. Current(new, fence, revision)
  BY <1>1, <1>2 DEF TableInv, Sound, Current, IsFiles
<1>6. Fenced(new, fence)
  <2>1. \A s \in DOMAIN requests : requests[s].target = t => requests[s].seq < n
    BY <1>1, <1>2, <1>4, TargetsAssumption DEF Overlap, Row
  <2> QED
    BY <2>1, <1>1, <1>2 DEF Sound, Fenced, Unclaimed, IsFiles, Row
<1>7. Taken(new) \subseteq Taken(requests)
  BY ZenonT(40), <1>1, <1>2 DEF Taken
<1> QED
  BY <1>4, <1>5, <1>6, <1>7 DEF Sound, Arranged, new, row

LEMMA ScalarsStep == ScalarsOK /\ TableInv /\ [Next]_vars => ScalarsOK'
<1> SUFFICES ASSUME ScalarsOK, TableInv, [Next]_vars PROVE ScalarsOK'
  OBVIOUS
<1> USE DEF ScalarsOK
<1>0. \A r \in DOMAIN requests : r \in Requests /\ requests[r] \in Row
  BY DEF TableInv, Sound, IsTable
<1>1. ASSUME NEW i \in Instances, InstanceStep(i) PROVE ScalarsOK'
  <2>1. ASSUME NEW d \in Identities, NEW session \in BOOLEAN, Open(i, d, session)
        PROVE  ScalarsOK'
    BY <2>1, LimitsAssumption DEF Open, underway, clock
  <2>2. ASSUME NEW d \in Identities, RequestName(i, d) PROVE ScalarsOK'
    BY <2>2 DEF RequestName, underway, clock
  <2>3. CASE Heartbeat(i)
    BY <2>3, LimitsAssumption DEF Heartbeat, ledger, underway, clock
  <2>4. ASSUME NEW clean \in BOOLEAN, Disconnect(i, clean) PROVE ScalarsOK'
    BY <2>4 DEF Disconnect, Close, ledger, underway, clock
  <2> QED
    BY <1>1, <2>1, <2>2, <2>3, <2>4 DEF InstanceStep
<1>2. ASSUME NEW i \in Instances, NEW r \in Requests, RequestStep(i, r) PROVE ScalarsOK'
  <2>1. ASSUME NEW t \in ContentTargets, NEW mode \in Modes, RequestResourceTurn(i, r, t, mode)
        PROVE  ScalarsOK'
    BY <2>1 DEF RequestResourceTurn, underway, clock
  <2>2. ASSUME NEW t \in FileTargets, NEW mode \in Modes, RequestFileTurn(i, r, t, mode)
        PROVE  ScalarsOK'
    BY <2>2 DEF RequestFileTurn, underway, clock
  <2>3. CASE Status(i, r) \/ EnsureTurnTask(i, r) \/ CancelTurnRequest(i, r)
    BY <2>3 DEF Status, EnsureTurnTask, CancelTurnRequest, ledger, underway, clock
  <2> QED
    BY <1>2, <2>1, <2>2, <2>3 DEF RequestStep
<1>3. ASSUME NEW i \in Instances, NEW r \in Requests, TurnStep(i, r) PROVE ScalarsOK'
  <2>1. CASE ClaimContentTurn(i, r)
    <3>1. requests[r].target \in ContentTargets
      BY <1>0, <2>1 DEF ClaimContentTurn, Offered, IsFiles, Row, Targets
    <3> QED
      BY <2>1, <3>1 DEF ClaimContentTurn, underway, clock
  <2>2. ASSUME NEW lock \in Locks, StartCommit(i, r, lock) PROVE ScalarsOK'
    BY <2>2, BoundsAssumption DEF StartCommit, ledger, clock
  <2>3. CASE ClaimFiles(i, r) \/ ReleaseTurn(i, r) \/ ReleaseFiles(i, r)
    BY <2>3 DEF ClaimFiles, ReleaseTurn, ReleaseFiles, ledger, underway, clock
  <2> QED
    BY <1>3, <2>1, <2>2, <2>3 DEF TurnStep
<1>4. CASE DaemonStep
  <2>1. ASSUME NEW r \in Requests, ForceRelease(r) PROVE ScalarsOK'
    BY <2>1 DEF ForceRelease, ledger, underway, clock
  <2>2. ASSUME NEW r \in Requests, NEW lock \in Locks,
               FinishCommit(r, lock) \/ AbortCommit(r, lock) \/ RefuseCommit(r, lock)
        PROVE  ScalarsOK'
    BY <2>2 DEF FinishCommit, AbortCommit, RefuseCommit, ledger, clock
  <2>3. \A i \in Instances :
          Close(instances[i]) \in [active: BOOLEAN, current: BOOLEAN, ident: Identities, idle: Nat]
    BY DEF Close
  <2>4. CASE Sweep
    BY <2>3, <2>4 DEF Sweep, ledger, underway
  <2>5. CASE FailedSweep
    BY <2>5 DEF FailedSweep, ledger, underway
  <2>6. CASE Restart
    BY <2>3, <2>6 DEF Restart, ledger
  <2> QED
    BY <1>4, <2>1, <2>2, <2>4, <2>5, <2>6 DEF DaemonStep
<1>5. CASE ClockStep
  <2>1. \A i \in Instances : Sooner(instances[i].idle) \in Nat
    BY DEF Sooner
  <2>2. CASE Tick
    BY <2>1, <2>2 DEF Tick, ledger, underway, clock
  <2>3. CASE ClockJump \/ WallCatchesUp
    BY <2>3 DEF ClockJump, WallCatchesUp, ledger, underway
  <2> QED
    BY <1>5, <2>2, <2>3 DEF ClockStep
<1>6. ASSUME NEW i \in Instances, NEW r \in Requests, TaskStep(i, r) PROVE ScalarsOK'
  <2>1. CASE PollTask(i, r) \/ CompleteTask(i, r) \/ FailTask(i, r) \/ EndPoll(i, r)
    BY <2>1 DEF PollTask, CompleteTask, FailTask, EndPoll, ledger, clock
  <2>2. CASE CancelTask(i, r)
    BY <2>2 DEF CancelTask, ledger, underway, clock
  <2> QED
    BY <1>6, <2>1, <2>2 DEF TaskStep
<1>7. CASE UNCHANGED vars
  BY <1>7 DEF vars
<1> QED
  BY <1>1, <1>2, <1>3, <1>4, <1>5, <1>6, <1>7 DEF Next

LEMMA GrantedSound ==
  ASSUME NEW rq, NEW r \in DOMAIN rq, NEW qs, NEW fs, Sound(rq, qs, fs, fence, revision)
  PROVE  /\ Sound(GrantedAtOnce(rq, r), qs, fs, fence, revision)
         /\ Taken(GrantedAtOnce(rq, r)) \subseteq Taken(rq)
<1>1. IsTable(rq) /\ rq[r] \in Row
  BY DEF Sound, IsTable
<1> DEFINE row == [Materialize(rq[r]) EXCEPT !.mode = "ticket", !.task = "none", !.taskLeft = 0]
<1>2. CalmRow(Materialize(rq[r]), rq[r])
  BY <1>1, MaterializeCalm
<1>3. CalmRow(row, rq[r])
  <2> DEFINE q == Materialize(rq[r])
  <2> HIDE DEF q
  <2>1. q \in Row => [q EXCEPT !.mode = "ticket", !.task = "none", !.taskLeft = 0] \in Row
    BY DEF Row
  <2> QED
    BY <1>2, <2>1 DEF CalmRow, Row, Reserved, Unclaimed, q
<1> HIDE DEF row
<1>4. Calm([rq EXCEPT ![r] = row], rq)
  BY <1>1, <1>3, OneRowCalm
<1> QED
  BY <1>4, CalmSound, CalmTaken DEF GrantedAtOnce, row

LEMMA RequestStepSound ==
  ASSUME ScalarsOK, TableInv, NEW i \in Instances, NEW r \in Requests, RequestStep(i, r)
  PROVE  TableInv' /\ Loses
<1>0. /\ \A s \in DOMAIN requests : requests[s] \in Row
      /\ IsTable(requests)
  BY DEF TableInv, Sound, IsTable
<1>1. ASSUME NEW t \in ContentTargets, NEW mode \in Modes, RequestResourceTurn(i, r, t, mode)
      PROVE  TableInv' /\ Loses
  <2> DEFINE n == queueSeq[t] + 1
             table == Insert(requests, r, NewRow(i, t, n, mode))
  <2>1. /\ r \notin DOMAIN requests /\ queueSeq' = [queueSeq EXCEPT ![t] = n]
        /\ queueSeq'[t] = n /\ n \in Nat
        /\ UNCHANGED <<fileSeq, fence, revision>>
        /\ requests' = GrantedAtOnce(Promote(table, Connected(instances)), r)
    BY <1>1 DEF RequestResourceTurn, Fresh, ScalarsOK
  <2>2. /\ Sound(table, queueSeq', fileSeq', fence, revision)
        /\ Taken(table) \subseteq Taken(requests)
    BY <2>1, InsertSound, TargetsAssumption, BoundsAssumption DEF Targets
  <2>3. /\ Sound(Promote(table, Connected(instances)), queueSeq', fileSeq', fence, revision)
        /\ Taken(Promote(table, Connected(instances))) = Taken(table)
    BY <2>2, PromoteAllSound, PromoteTaken
  <2>4. r \in DOMAIN Promote(table, Connected(instances))
    BY DEF Promote, Insert
  <2> HIDE DEF table, n
  <2> QED
    BY <2>1, <2>2, <2>3, <2>4, GrantedSound DEF TableInv, Loses
<1>2. ASSUME NEW t \in FileTargets, NEW mode \in Modes, RequestFileTurn(i, r, t, mode)
      PROVE  TableInv' /\ Loses
  <2> DEFINE n == fileSeq + 1
             table == Insert(requests, r, NewRow(i, t, n, mode))
  <2>1. /\ r \notin DOMAIN requests /\ fileSeq' = n /\ n \in Nat
        /\ UNCHANGED <<queueSeq, fence, revision>>
        /\ requests' = GrantedAtOnce(PromoteFileRequests(table, Connected(instances)), r)
    BY <1>2 DEF RequestFileTurn, Fresh, ScalarsOK
  <2>2. /\ Sound(table, queueSeq', fileSeq', fence, revision)
        /\ Taken(table) \subseteq Taken(requests)
    BY <2>1, InsertSound, TargetsAssumption, BoundsAssumption DEF Targets
  <2>3. /\ Sound(PromoteFileRequests(table, Connected(instances)),
                 queueSeq', fileSeq', fence, revision)
        /\ Taken(PromoteFileRequests(table, Connected(instances))) = Taken(table)
    BY <2>2, PromoteSound, PromoteAmongTaken DEF PromoteFileRequests, Sound
  <2>4. r \in DOMAIN PromoteFileRequests(table, Connected(instances))
    BY DEF PromoteFileRequests, PromoteAmong, Insert
  <2> HIDE DEF table, n
  <2> QED
    BY <2>1, <2>2, <2>3, <2>4, GrantedSound DEF TableInv, Loses
<1>3. CASE Status(i, r)
  <2>1. CalmRow(Materialize(requests[r]), requests[r])
    BY <1>0, <1>3, MaterializeCalm DEF Status, Owns
  <2> QED
    BY <1>0, <1>3, <2>1, OneRowCalm, CalmStep DEF Status, Owns, ledger
<1>4. CASE EnsureTurnTask(i, r)
  <2> DEFINE row == [requests[r] EXCEPT !.mode = "task", !.task = "working",
                                        !.taskLeft = requests[r].left]
  <2>1. r \in DOMAIN requests /\ requests' = [requests EXCEPT ![r] = row]
    BY <1>4 DEF EnsureTurnTask, Owns
  <2>2. CalmRow(row, requests[r])
    BY <1>0, <2>1 DEF CalmRow, Row, Reserved, Unclaimed
  <2> HIDE DEF row
  <2>3. Calm([requests EXCEPT ![r] = row], requests)
    BY <1>0, <2>1, <2>2, OneRowCalm
  <2>4. UNCHANGED <<queueSeq, fileSeq, fence, revision>>
    BY <1>4 DEF EnsureTurnTask, ledger
  <2> QED
    BY <2>1, <2>3, <2>4, CalmStep
<1>5. CASE CancelTurnRequest(i, r)
  <2> DEFINE table == IF Active(requests[r])
                        THEN [requests EXCEPT ![r] = Finish(requests[r], "CANCELLED")]
                        ELSE requests
  <2>1. r \in DOMAIN requests /\ requests' = Promote(table, Connected(instances))
    BY <1>5 DEF CancelTurnRequest, Owns
  <2>2. CalmRow(Finish(requests[r], "CANCELLED"), requests[r])
    BY <1>0, <2>1, FinishCalm
  <2>3. Calm([requests EXCEPT ![r] = Finish(requests[r], "CANCELLED")], requests)
    BY <1>0, <2>1, <2>2, OneRowCalm
  <2>4. Calm(requests, requests)
    BY <1>0, SelfCalm DEF Calm, IsTable
  <2>5. Calm(table, requests)
    BY <2>3, <2>4
  <2> HIDE DEF table
  <2> QED
    BY <1>5, <2>1, <2>5, CalmThenPromote DEF CancelTurnRequest, ledger
<1> QED
  BY <1>1, <1>2, <1>3, <1>4, <1>5 DEF RequestStep

LEMMA InstanceStepSound ==
  ASSUME ScalarsOK, TableInv, NEW i \in Instances, InstanceStep(i)
  PROVE  TableInv' /\ Loses
<1>0. IsTable(requests) /\ \A s \in DOMAIN requests : requests[s] \in Row
  BY DEF TableInv, Sound, IsTable
<1>1. Calm(requests, requests)
  BY <1>0, SelfCalm DEF Calm, IsTable
<1>2. ASSUME NEW d \in Identities, NEW session \in BOOLEAN, Open(i, d, session) PROVE TableInv' /\ Loses
  <2>1. PICK rq \in Rebound(requests, i, d) : requests' = Promote(rq, Connected(instances'))
    BY <1>2 DEF Open
  <2>2. Calm(rq, requests)
    <3>1. ASSUME NEW r \in DOMAIN requests,
                 rq = [requests EXCEPT ![r] = [@ EXCEPT !.inst = i, !.reconnect = NoDeadline]]
          PROVE  Calm(rq, requests)
      <4>1. CalmRow([requests[r] EXCEPT !.inst = i, !.reconnect = NoDeadline], requests[r])
        BY <1>0 DEF CalmRow, Row, Reserved, Unclaimed
      <4> QED
        BY <1>0, <3>1, <4>1, OneRowCalm
    <3> QED
      BY <1>1, <3>1 DEF Rebound, Rebindable
  <2>3. UNCHANGED <<queueSeq, fileSeq, fence, revision>>
    BY <1>2 DEF Open
  <2> QED
    BY <2>1, <2>2, <2>3, CalmThenPromote
<1>3. ASSUME NEW d \in Identities, RequestName(i, d) PROVE TableInv' /\ Loses
  <2>1. /\ requests' = Promote(requests, Connected(instances'))
        /\ UNCHANGED <<queueSeq, fileSeq, fence, revision>>
    BY <1>3 DEF RequestName
  <2> QED
    BY <1>1, <2>1, CalmThenPromote
<1>4. CASE Heartbeat(i)
  BY <1>1, <1>4, CalmStep DEF Heartbeat, ledger
<1>5. ASSUME NEW clean \in BOOLEAN, Disconnect(i, clean) PROVE TableInv' /\ Loses
  <2>1. /\ requests' = Promote(DetachAll(requests, {i}, clean, committing),
                               Connected(instances'))
        /\ UNCHANGED <<queueSeq, fileSeq, fence, revision>>
    BY <1>5 DEF Disconnect, ledger
  <2>2. Calm(DetachAll(requests, {i}, clean, committing), requests)
    BY <1>0, DetachAllCalm
  <2> QED
    BY <2>1, <2>2, CalmThenPromote
<1> QED
  BY <1>2, <1>3, <1>4, <1>5 DEF InstanceStep

\* A turn ends and its target is handed on.
LEMMA FinishThenPromote ==
  ASSUME TableInv, NEW r \in DOMAIN requests, NEW final \in FinalStates, NEW live,
         requests' = Promote([requests EXCEPT ![r] = Finish(@, final)], live),
         UNCHANGED <<queueSeq, fileSeq, fence, revision>>
  PROVE  TableInv' /\ Loses
<1>1. IsTable(requests) /\ requests[r] \in Row
  BY DEF TableInv, Sound, IsTable
<1>2. CalmRow(Finish(requests[r], final), requests[r])
  BY <1>1, FinishCalm
<1>3. Calm([requests EXCEPT ![r] = Finish(requests[r], final)], requests)
  BY <1>1, <1>2, OneRowCalm
<1> QED
  BY <1>3, CalmThenPromote

\* Beside a reserved request no other one is claimed on the same target.
LEMMA ClaimedAlone ==
  ASSUME TableInv, NEW r \in DOMAIN requests, NEW s \in DOMAIN requests, r # s,
         Reserved(requests[r]), requests[s].state = "CLAIMED"
  PROVE  requests[s].target # requests[r].target
<1>1. requests[r].target \in Targets
  BY DEF TableInv, Sound, IsTable, Row
<1> QED
  BY <1>1, TargetsAssumption DEF TableInv, Sound, Alone, Overlap, Reserved

LEMMA ClaimSound ==
  ASSUME ScalarsOK, TableInv, NEW i \in Instances, NEW r \in Requests, ClaimContentTurn(i, r)
  PROVE  TableInv'
<1> DEFINE t == requests[r].target
           row == [requests[r] EXCEPT !.state = "CLAIMED", !.fence = fence[t] + 1,
                                      !.base = revision[t], !.left = TurnMs]
<1>0. \A s \in DOMAIN requests : s \in Requests /\ requests[s] \in Row
  BY DEF TableInv, Sound, IsTable
<1>1. /\ r \in DOMAIN requests /\ requests[r].state = "OFFERED" /\ ~IsFiles(requests[r])
      /\ requests' = [requests EXCEPT ![r] = row]
      /\ fence' = [fence EXCEPT ![t] = @ + 1]
      /\ UNCHANGED <<queueSeq, fileSeq, revision>>
  BY DEF ClaimContentTurn, Offered
<1>2. t \in ContentTargets /\ Reserved(requests[r])
  BY <1>0, <1>1 DEF Row, IsFiles, Targets, Reserved
<1>3. /\ fence[t] + 1 \in Nat /\ revision[t] \in Nat /\ TurnMs \in Nat
      /\ fence'[t] = fence[t] + 1
      /\ \A u \in ContentTargets : u # t => fence'[u] = fence[u]
  BY <1>1, <1>2, LimitsAssumption DEF ScalarsOK
<1>4. /\ row \in Row /\ row.target = t /\ row.seq = requests[r].seq
      /\ row.state = "CLAIMED" /\ row.fence = fence'[t] /\ row.base = revision[t]
  BY ZenonT(40), <1>0, <1>1, <1>3 DEF Row
<1> HIDE DEF row
<1>5. /\ DOMAIN requests' = DOMAIN requests /\ requests'[r] = row
      /\ \A s \in DOMAIN requests : s # r => requests'[s] = requests[s]
  BY <1>0, <1>1
<1>6. IsTable(requests')
  BY <1>0, <1>1, <1>4, <1>5 DEF IsTable
<1>7. Alone(requests')
  BY <1>2, <1>4, <1>5 DEF TableInv, Sound, Alone, Overlap
<1>8. Numbered(requests', queueSeq, fileSeq)
  BY <1>4, <1>5 DEF TableInv, Sound, Numbered, Overlap, IsFiles
<1>9. Current(requests', fence', revision)
  <2> SUFFICES ASSUME NEW s \in DOMAIN requests, requests'[s].state = "CLAIMED",
                      ~IsFiles(requests'[s])
               PROVE  /\ requests'[s].fence = fence'[requests'[s].target]
                      /\ requests'[s].base = revision[requests'[s].target]
    BY <1>5 DEF Current
  <2>1. CASE s = r
    BY <2>1, <1>4, <1>5
  <2>2. CASE s # r
    <3>1. requests[s].target # t /\ requests[s].target \in ContentTargets
      BY <2>2, <1>0, <1>1, <1>2, <1>5, ClaimedAlone DEF Row, IsFiles, Targets
    <3> QED
      BY <2>2, <3>1, <1>3, <1>5 DEF TableInv, Sound, Current
  <2> QED
    BY <2>1, <2>2
<1>10. Ordered(requests')
  BY <1>2, <1>4, <1>5 DEF TableInv, Sound, Ordered, Overlap
<1>11. \A s \in DOMAIN requests :
         s # r /\ requests[s].target = t =>
           /\ Unclaimed(requests[s]) => requests[r].seq < requests[s].seq
           /\ requests[s].fence > 0 => /\ requests[s].seq < requests[r].seq
                                       /\ requests[s].fence <= fence[t]
  <2> SUFFICES ASSUME NEW s \in DOMAIN requests, s # r, requests[s].target = t
               PROVE  /\ Unclaimed(requests[s]) => requests[r].seq < requests[s].seq
                      /\ requests[s].fence > 0 => /\ requests[s].seq < requests[r].seq
                                                  /\ requests[s].fence <= fence[t]
    OBVIOUS
  <2>1. Overlap(requests[r], requests[s])
    BY <1>2, TargetsAssumption DEF Overlap, Targets
  <2>2. Unclaimed(requests[s]) => requests[s].state = "QUEUED"
    BY <1>1, <1>2, <2>1 DEF TableInv, Sound, Alone, Reserved, Unclaimed
  <2>3. Unclaimed(requests[r])
    BY <1>1 DEF Unclaimed
  <2>4. Unclaimed(requests[s]) => requests[r].seq < requests[s].seq
    BY <1>1, <1>2, <2>1, <2>2 DEF TableInv, Sound, Ordered
  <2>5. requests[s].fence > 0 => requests[s].seq < requests[r].seq /\ requests[s].fence <= fence[t]
    BY <1>1, <2>3 DEF TableInv, Sound, Fenced
  <2> QED
    BY <2>4, <2>5
<1>12. Fenced(requests', fence')
  <2>1. \A s \in DOMAIN requests : requests[s].fence \in Nat /\ requests[s].seq \in Nat
    BY <1>0 DEF Row
  <2>2. fence[t] \in Nat /\ row.fence = fence[t] + 1 /\ ~IsFiles(row)
    BY <1>1, <1>2, <1>3, <1>4 DEF ScalarsOK, IsFiles
  <2>3. \A s \in DOMAIN requests :
          Unclaimed(requests'[s]) \/ IsFiles(requests'[s]) => requests'[s].fence = 0
    BY <1>4, <1>5, <2>2 DEF TableInv, Sound, Fenced, Unclaimed, IsFiles
  <2>4. \A s \in DOMAIN requests :
          requests'[s].state = "CLAIMED" /\ ~IsFiles(requests'[s]) => requests'[s].fence > 0
    BY <1>5, <2>2 DEF TableInv, Sound, Fenced
  <2>5. \A s \in DOMAIN requests :
          requests'[s].fence > 0 => requests'[s].fence <= fence'[requests'[s].target]
    <3> SUFFICES ASSUME NEW s \in DOMAIN requests, requests'[s].fence > 0
                 PROVE  requests'[s].fence <= fence'[requests'[s].target]
      OBVIOUS
    <3>1. CASE s = r
      BY <3>1, <1>3, <1>4, <1>5, <2>2
    <3>2. CASE s # r /\ requests[s].target = t
      BY <3>2, <1>3, <1>5, <1>11, <2>1, <2>2
    <3>3. CASE s # r /\ requests[s].target # t
      <4>1. requests[s].target \in ContentTargets
        BY <3>3, <1>0, <1>5 DEF TableInv, Sound, Fenced, IsFiles, Row, Targets
      <4> QED
        BY <3>3, <4>1, <1>3, <1>5 DEF TableInv, Sound, Fenced
    <3> QED
      BY <3>1, <3>2, <3>3
  <2>6. ASSUME NEW p \in DOMAIN requests, NEW s \in DOMAIN requests,
               requests'[p].target = requests'[s].target, requests'[p].fence > 0,
               Unclaimed(requests'[s])
        PROVE  requests'[p].seq < requests'[s].seq
    <3>1. s # r /\ requests'[s] = requests[s]
      BY <2>6, <1>4, <1>5 DEF Unclaimed
    <3>2. CASE p = r
      BY <2>6, <3>1, <3>2, <1>4, <1>5, <1>11
    <3>3. CASE p # r
      BY <2>6, <3>1, <3>3, <1>5 DEF TableInv, Sound, Fenced
    <3> QED
      BY <3>2, <3>3
  <2>7. ASSUME NEW p \in DOMAIN requests, NEW s \in DOMAIN requests,
               requests'[p].target = requests'[s].target,
               requests'[p].seq < requests'[s].seq,
               requests'[p].fence > 0, requests'[s].fence > 0
        PROVE  requests'[p].fence < requests'[s].fence
    <3>1. CASE p = r
      BY <2>7, <3>1, <1>4, <1>5, <1>11, <2>1
    <3>2. CASE s = r
      BY <2>7, <3>2, <1>4, <1>5, <1>11, <2>1, <2>2
    <3>3. CASE p # r /\ s # r
      BY <2>7, <3>3, <1>5 DEF TableInv, Sound, Fenced
    <3> QED
      BY <3>1, <3>2, <3>3
  <2> QED
    BY <1>5, <2>3, <2>4, <2>5, <2>6, <2>7 DEF Fenced
<1> QED
  BY <1>1, <1>6, <1>7, <1>8, <1>9, <1>10, <1>12 DEF TableInv, Sound

LEMMA TurnStepSound ==
  ASSUME ScalarsOK, TableInv, NEW i \in Instances, NEW r \in Requests, TurnStep(i, r)
  PROVE  TableInv' /\ (ClaimContentTurn(i, r) \/ Loses)
<1>0. IsTable(requests) /\ \A s \in DOMAIN requests : requests[s] \in Row
  BY DEF TableInv, Sound, IsTable
<1>1. CASE ClaimContentTurn(i, r)
  BY <1>1, ClaimSound
<1>2. CASE ClaimFiles(i, r)
  <2> DEFINE row == [requests[r] EXCEPT !.state = "CLAIMED"]
  <2>1. /\ r \in DOMAIN requests /\ requests[r].state = "OFFERED" /\ IsFiles(requests[r])
        /\ requests' = [requests EXCEPT ![r] = row]
        /\ UNCHANGED <<queueSeq, fileSeq, fence, revision>>
    BY <1>2 DEF ClaimFiles, Offered, ledger
  <2>2. /\ row \in Row /\ row.target = requests[r].target /\ row.seq = requests[r].seq
        /\ row.state = "CLAIMED" /\ row.fence = requests[r].fence
        /\ Reserved(requests[r])
    BY <1>0, <2>1 DEF Row, Reserved
  <2> HIDE DEF row
  <2>3. /\ DOMAIN requests' = DOMAIN requests /\ requests'[r] = row
        /\ \A s \in DOMAIN requests : s # r => requests'[s] = requests[s]
    BY <2>1
  <2>4. IsTable(requests')
    BY <1>0, <2>1, <2>2, <2>3 DEF IsTable
  <2>5. Alone(requests')
    BY <2>2, <2>3 DEF TableInv, Sound, Alone, Overlap
  <2>6. Numbered(requests', queueSeq, fileSeq)
    BY <2>2, <2>3 DEF TableInv, Sound, Numbered, Overlap, IsFiles
  <2>7. Current(requests', fence, revision)
    BY <2>1, <2>2, <2>3 DEF TableInv, Sound, Current, IsFiles
  <2>8. Ordered(requests')
    BY <2>2, <2>3 DEF TableInv, Sound, Ordered, Overlap
  <2>9. Fenced(requests', fence)
    BY <2>1, <2>2, <2>3 DEF TableInv, Sound, Fenced, IsFiles, Unclaimed
  <2>10. Taken(requests') \subseteq Taken(requests)
    BY <2>1, <2>2, <2>3, TargetsAssumption DEF Taken, IsFiles
  <2> QED
    BY <2>1, <2>4, <2>5, <2>6, <2>7, <2>8, <2>9, <2>10 DEF TableInv, Sound, Loses
<1>3. CASE ReleaseTurn(i, r)
  BY <1>3, FinishThenPromote DEF ReleaseTurn, Claimed, Owns, ledger
<1>4. CASE ReleaseFiles(i, r)
  <2> DEFINE table == [requests EXCEPT ![r] = Finish(@, "RELEASED")]
  <2>1. /\ r \in DOMAIN requests
        /\ requests' = PromoteFileRequests(table, Connected(instances))
        /\ UNCHANGED <<queueSeq, fileSeq, fence, revision>>
    BY <1>4 DEF ReleaseFiles, Owns, ledger
  <2>2. CalmRow(Finish(requests[r], "RELEASED"), requests[r])
    BY <1>0, <2>1, FinishCalm
  <2>3. Calm(table, requests)
    BY <1>0, <2>1, <2>2, OneRowCalm
  <2>4. Sound(table, queueSeq, fileSeq, fence, revision)
    BY <2>3, CalmSound DEF TableInv
  <2> HIDE DEF table
  <2> QED
    BY <2>1, <2>3, <2>4, PromoteSound, PromoteAmongTaken, CalmTaken
       DEF TableInv, PromoteFileRequests, Loses, Sound
<1>5. ASSUME NEW lock \in Locks, StartCommit(i, r, lock) PROVE TableInv' /\ Loses
  BY <1>5 DEF StartCommit, ledger, TableInv, Loses
<1> QED
  BY <1>1, <1>2, <1>3, <1>4, <1>5 DEF TurnStep

\* A verdict on a task is no change of its turn.
LEMMA WithTaskCalm ==
  ASSUME NEW q \in Row, NEW verdict \in TaskStates
  PROVE  CalmRow(WithTask(q, verdict), q)
  BY LimitsAssumption DEF WithTask, CalmRow, Row, Reserved, Unclaimed

LEMMA TaskStepSound ==
  ASSUME TableInv, NEW i \in Instances, NEW r \in Requests, TaskStep(i, r)
  PROVE  TableInv' /\ Loses
<1>0. IsTable(requests) /\ \A s \in DOMAIN requests : requests[s] \in Row
  BY DEF TableInv, Sound, IsTable
<1>1. r \in DOMAIN requests => /\ CalmRow(WithTask(requests[r], "completed"), requests[r])
                               /\ CalmRow(WithTask(requests[r], "failed"), requests[r])
                               /\ CalmRow(Materialize(requests[r]), requests[r])
                               /\ CalmRow(Finish(requests[r], "FAILED"), requests[r])
                               /\ CalmRow(Finish(requests[r], "CANCELLED"), requests[r])
  BY <1>0, WithTaskCalm, MaterializeCalm, FinishCalm
<1>2. CASE PollTask(i, r)
  <2> DEFINE row == IF requests[r].state = "CLAIMED" THEN WithTask(requests[r], "completed")
                    ELSE Materialize(requests[r])
  <2>1. /\ r \in DOMAIN requests /\ requests' = [requests EXCEPT ![r] = row]
        /\ UNCHANGED <<queueSeq, fileSeq, fence, revision>>
    BY <1>2 DEF PollTask, Working, Owns, ledger
  <2>2. CalmRow(row, requests[r])
    BY <1>1, <2>1
  <2> HIDE DEF row
  <2>3. Calm([requests EXCEPT ![r] = row], requests)
    BY <1>0, <2>1, <2>2, OneRowCalm
  <2> QED
    BY <2>1, <2>3, CalmStep
<1>3. CASE CompleteTask(i, r)
  <2>1. /\ r \in DOMAIN requests
        /\ requests' = [requests EXCEPT ![r] = WithTask(requests[r], "completed")]
        /\ UNCHANGED <<queueSeq, fileSeq, fence, revision>>
    BY <1>3 DEF CompleteTask, Working, Owns, ledger
  <2>2. Calm([requests EXCEPT ![r] = WithTask(requests[r], "completed")], requests)
    BY <1>0, <1>1, <2>1, OneRowCalm
  <2> QED
    BY <2>1, <2>2, CalmStep
<1>4. CASE FailTask(i, r)
  <2> DEFINE row == IF Active(requests[r]) THEN Finish(requests[r], "FAILED")
                    ELSE WithTask(requests[r], "failed")
  <2>1. /\ r \in DOMAIN requests
        /\ requests' = Promote([requests EXCEPT ![r] = row], Connected(instances))
        /\ UNCHANGED <<queueSeq, fileSeq, fence, revision>>
    BY <1>4 DEF FailTask, Working, Owns, ledger
  <2>2. CalmRow(row, requests[r])
    BY <1>1, <2>1
  <2> HIDE DEF row
  <2>3. Calm([requests EXCEPT ![r] = row], requests)
    BY <1>0, <2>1, <2>2, OneRowCalm
  <2> QED
    BY <2>1, <2>3, CalmThenPromote
<1>5. CASE EndPoll(i, r)
  BY <1>5 DEF EndPoll, ledger, TableInv, Loses
<1>6. CASE CancelTask(i, r)
  <2> DEFINE ends == /\ requests[r].task = "working"
                     /\ requests[r].state \in {"QUEUED", "READY", "OFFERED"}
             table == IF ends THEN [requests EXCEPT ![r] = Finish(requests[r], "CANCELLED")]
                      ELSE requests
  <2>1. /\ r \in DOMAIN requests /\ requests' = Promote(table, Connected(instances))
        /\ UNCHANGED <<queueSeq, fileSeq, fence, revision>>
    BY <1>6 DEF CancelTask, Owns, ledger
  <2>2. Calm([requests EXCEPT ![r] = Finish(requests[r], "CANCELLED")], requests)
    BY <1>0, <1>1, <2>1, OneRowCalm
  <2>3. Calm(requests, requests)
    BY <1>0, SelfCalm DEF Calm, IsTable
  <2>4. Calm(table, requests)
    BY <2>2, <2>3
  <2> HIDE DEF table
  <2> QED
    BY <2>1, <2>4, CalmThenPromote
<1> QED
  BY <1>2, <1>3, <1>4, <1>5, <1>6 DEF TaskStep

\* A commit takes its turn off the target before the revision moves on.
LEMMA FinishCommitSound ==
  ASSUME ScalarsOK, TableInv, NEW r \in Requests, NEW lock \in Locks, FinishCommit(r, lock)
  PROVE  TableInv'
<1> DEFINE table == [requests EXCEPT ![r] = Finish(requests[r], "COMMITTED")]
<1>0. IsTable(requests) /\ \A s \in DOMAIN requests : requests[s] \in Row
  BY DEF TableInv, Sound, IsTable
<1>1. /\ r \in DOMAIN requests /\ requests[r].state = "CLAIMED"
      /\ revision' = [revision EXCEPT ![requests[r].target] = @ + 1]
      /\ requests' = Promote(table, Connected(instances))
      /\ UNCHANGED <<queueSeq, fileSeq, fence>>
  BY DEF FinishCommit
<1>2. CalmRow(Finish(requests[r], "COMMITTED"), requests[r])
  BY <1>0, <1>1, FinishCalm
<1>3. Calm(table, requests)
  BY <1>0, <1>1, <1>2, OneRowCalm
<1>4. Sound(table, queueSeq, fileSeq, fence, revision)
  BY <1>3, CalmSound DEF TableInv
<1>5. /\ DOMAIN table = DOMAIN requests /\ table[r].state = "COMMITTED"
      /\ \A s \in DOMAIN requests : s # r => table[s] = requests[s]
  BY <1>0, <1>1 DEF Finish, Row
<1> HIDE DEF table
<1>6. Current(table, fence, revision')
  <2> SUFFICES ASSUME NEW s \in DOMAIN requests, table[s].state = "CLAIMED", ~IsFiles(table[s])
               PROVE  /\ table[s].fence = fence[table[s].target]
                      /\ table[s].base = revision'[table[s].target]
    BY <1>5 DEF Current
  <2>1. s # r /\ table[s] = requests[s]
    BY <1>5
  <2>2. /\ requests[s].fence = fence[requests[s].target]
        /\ requests[s].base = revision[requests[s].target]
    BY <2>1 DEF TableInv, Sound, Current
  <2>3. requests[s].target # requests[r].target /\ requests[s].target \in ContentTargets
    BY <2>1, <1>0, <1>1, ClaimedAlone DEF Row, IsFiles, Targets, Reserved
  <2> QED
    BY <2>1, <2>2, <2>3, <1>1 DEF ScalarsOK
<1>7. Sound(table, queueSeq, fileSeq, fence, revision')
  BY <1>4, <1>6 DEF Sound
<1> QED
  BY <1>1, <1>7, PromoteAllSound DEF TableInv

LEMMA SweepSound ==
  ASSUME ScalarsOK, TableInv, Sweep
  PROVE  TableInv' /\ Loses
<1> DEFINE detached == DetachAll(requests, Silent, FALSE, committing)
           swept == SweepRows(detached, jumped \/ behind, committing)
<1>1. /\ requests' = Promote(swept, Connected(instances'))
      /\ UNCHANGED <<queueSeq, fileSeq, fence, revision>>
  BY DEF Sweep, ledger
<1>2. Calm(detached, requests)
  BY DetachAllCalm DEF TableInv, Sound
<1>3. Sound(detached, queueSeq, fileSeq, fence, revision)
  BY <1>2, CalmSound DEF TableInv
<1>4. (jumped \/ behind) \in BOOLEAN
  BY DEF ScalarsOK
<1> HIDE DEF detached
<1>5. Calm(swept, detached)
  BY <1>3, <1>4, SweepRowsCalm DEF Sound
<1> HIDE DEF swept
<1>6. Sound(swept, queueSeq, fileSeq, fence, revision)
  BY <1>3, <1>5, CalmSound
<1>7. Taken(swept) \subseteq Taken(requests)
  BY <1>2, <1>5, CalmTaken
<1> QED
  BY <1>1, <1>6, <1>7, PromoteAllSound, PromoteTaken DEF TableInv, Loses

LEMMA DaemonStepSound ==
  ASSUME ScalarsOK, TableInv, DaemonStep
  PROVE  /\ TableInv'
         /\ \/ \E r \in Requests, lock \in Locks : FinishCommit(r, lock)
            \/ Loses
<1>0. IsTable(requests) /\ \A s \in DOMAIN requests : requests[s] \in Row
  BY DEF TableInv, Sound, IsTable
<1>1. ASSUME NEW r \in Requests, ForceRelease(r) PROVE TableInv' /\ Loses
  BY <1>1, FinishThenPromote DEF ForceRelease, ledger
<1>2. ASSUME NEW r \in Requests, NEW lock \in Locks, FinishCommit(r, lock) PROVE TableInv'
  BY <1>2, FinishCommitSound
<1>3. ASSUME NEW r \in Requests, NEW lock \in Locks,
             AbortCommit(r, lock) \/ RefuseCommit(r, lock)
      PROVE  TableInv' /\ Loses
  BY <1>3 DEF AbortCommit, RefuseCommit, ledger, TableInv, Loses
<1>4. CASE FailedSweep
  BY <1>4 DEF FailedSweep, ledger, TableInv, Loses
<1>5. CASE Restart
  <2>1. \A r \in DOMAIN requests : CalmRow(Recover(requests[r]), requests[r])
    BY <1>0, RecoverCalm
  <2>2. /\ requests' = [r \in DOMAIN requests |-> Recover(requests[r])]
        /\ UNCHANGED <<queueSeq, fileSeq, fence, revision>>
    BY <1>5 DEF Restart, ledger
  <2>3. Calm(requests', requests)
    BY <2>1, <2>2 DEF Calm
  <2> QED
    BY <2>2, <2>3, CalmStep
<1> QED
  BY <1>1, <1>2, <1>3, <1>4, <1>5, SweepSound DEF DaemonStep

LEMMA ClockStepSound ==
  ASSUME ScalarsOK, TableInv, ClockStep
  PROVE  TableInv' /\ Loses
<1>1. CASE Tick
  <2>1. \A r \in DOMAIN requests : CalmRow(Age(requests[r]), requests[r])
    BY AgeCalm DEF TableInv, Sound, IsTable
  <2>2. /\ requests' = [r \in DOMAIN requests |-> Age(requests[r])]
        /\ UNCHANGED <<queueSeq, fileSeq, fence, revision>>
    BY <1>1 DEF Tick, ledger
  <2>3. Calm(requests', requests)
    BY <2>1, <2>2 DEF Calm
  <2> QED
    BY <2>2, <2>3, CalmStep
<1>2. CASE ClockJump \/ WallCatchesUp
  BY <1>2 DEF ClockJump, WallCatchesUp, ledger, TableInv, Loses
<1> QED
  BY <1>1, <1>2 DEF ClockStep

----------------------------------------------------------------------------
(* The inductive invariant and what follows from it. *)

Inv == ScalarsOK /\ TableInv

\* Every step keeps the invariant; other than a claim and a commit, none takes a turn or writes.
LEMMA StepSound ==
  ASSUME Inv, [Next]_vars
  PROVE  /\ Inv'
         /\ \/ Loses
            \/ \E i \in Instances, r \in Requests : ClaimContentTurn(i, r)
            \/ \E r \in Requests, lock \in Locks : FinishCommit(r, lock)
<1> USE DEF Inv
<1>1. ScalarsOK'
  BY ScalarsStep
<1>2. CASE UNCHANGED vars
  BY <1>1, <1>2 DEF vars, TableInv, Loses
<1>3. CASE Next
  BY <1>1, <1>3, InstanceStepSound, RequestStepSound, TaskStepSound, TurnStepSound,
     DaemonStepSound, ClockStepSound DEF Next
<1> QED
  BY <1>2, <1>3

\* In every run of the daemon the tables are sound and everything has its type.
THEOREM Invariant == Spec => []Inv
<1>1. Init => Inv
  BY InitInv DEF Inv
<1>2. Inv /\ [Next]_vars => Inv'
  BY StepSound
<1> QED
  BY <1>1, <1>2, PTL DEF Spec

\* Type correctness: every transaction, sweep, restart and clock step leaves rows, counters,
\* marks and sessions of their types.
THEOREM TypeCorrect == Spec => []TypeOK
<1>1. Inv => TypeOK
  BY DEF Inv, ScalarsOK, TableInv, Sound, TypeOK
<1> QED
  BY <1>1, Invariant, PTL

\* No two requests that overlap are ever reserved together, for any number of requests,
\* instances, threads, tickets and file sets, however the latter intersect: promotion never
\* gives a turn on something that is READY, OFFERED or CLAIMED, and the index
\* reserved_resource never has anything to refuse.
THEOREM TurnsAreExclusive == Spec => []Exclusive
<1>1. Inv => Exclusive
  BY DEF Inv, TableInv, Sound, Alone, Exclusive
<1> QED
  BY <1>1, Invariant, PTL

\* A turn that is still claimed holds the newest fence of its target and has seen its last
\* revision, so that no commit overwrites what its author has not read.
THEOREM ClaimsAreCurrent == Spec => []ClaimIsCurrent
<1>1. Inv => ClaimIsCurrent
  BY DEF Inv, TableInv, Sound, Current, ClaimIsCurrent
<1> QED
  BY <1>1, Invariant, PTL

\* Turns go in the order they were asked for: neither a disconnect that puts a ready turn
\* back, nor a reconnect, a sweep or a restart lets anything reserved have been queued
\* behind what still waits for an overlapping target.
THEOREM QueueIsFair == Spec => []NoOvertaking
<1>1. Inv => NoOvertaking
  BY DEF Inv, TableInv, Sound, Ordered, NoOvertaking
<1> QED
  BY <1>1, Invariant, PTL

\* The fences of a target, those of spent turns included, are in the order of its queue.
THEOREM FencesAreOrdered == Spec => []FencesFollowQueue
<1>1. Inv => FencesFollowQueue
  BY DEF Inv, TableInv, Sound, Fenced, FencesFollowQueue
<1> QED
  BY <1>1, Invariant, PTL

-----------------------------------------------------------------------------
(* Turns implements FencedWrites: a claim takes a turn, a commit writes, and *)
(* everything else takes turns away or leaves them alone.                    *)

\* A held turn's token is its target's fence: the row that held picks does not matter.
HeldOf(rq) ==
  [t \in ContentTargets |->
     LET holders == {r \in DOMAIN rq : rq[r].target = t /\ rq[r].state = "CLAIMED"}
     IN IF holders = {} THEN 0 ELSE rq[CHOOSE r \in holders : TRUE].fence]

LEMMA HeldIs ==
  ASSUME NEW rq, NEW qs, NEW fs, NEW fn, NEW rv, Sound(rq, qs, fs, fn, rv)
  PROVE  HeldOf(rq) = [t \in ContentTargets |-> IF t \in Taken(rq) THEN fn[t] ELSE 0]
<1> SUFFICES ASSUME NEW t \in ContentTargets
             PROVE  HeldOf(rq)[t] = IF t \in Taken(rq) THEN fn[t] ELSE 0
  BY DEF HeldOf
<1> DEFINE holders == {r \in DOMAIN rq : rq[r].target = t /\ rq[r].state = "CLAIMED"}
<1>1. HeldOf(rq)[t] = IF holders = {} THEN 0 ELSE rq[CHOOSE r \in holders : TRUE].fence
  BY DEF HeldOf
<1>2. t \in Taken(rq) <=> holders # {}
  BY DEF Taken
<1>3. \A r \in holders : rq[r].fence = fn[t]
  BY TargetsAssumption DEF Sound, Current, IsFiles
<1> HIDE DEF holders
<1> QED
  BY <1>1, <1>2, <1>3

\* A step that neither claims nor commits ends the turns of some targets, or of none.
LEMMA LosesImplements ==
  ASSUME Inv, Inv', Loses
  PROVE  Writes!Next
<1> DEFINE lost == ContentTargets \ Taken(requests')
<1>1. held = [t \in ContentTargets |-> IF t \in Taken(requests) THEN fence[t] ELSE 0]
  BY HeldIs DEF Inv, TableInv, held, HeldOf
<1>2. held' = [t \in ContentTargets |-> IF t \in Taken(requests') THEN fence'[t] ELSE 0]
  BY HeldIs DEF Inv, TableInv, held, HeldOf
<1>3. held' = [t \in ContentTargets |-> IF t \in lost THEN 0 ELSE held[t]]
  BY <1>1, <1>2 DEF Loses
<1>4. Writes!Lose(lost)
  BY <1>3 DEF Loses, Writes!Lose
<1> QED
  BY <1>4 DEF Writes!Next

LEMMA ClaimImplements ==
  ASSUME Inv, Inv', NEW i \in Instances, NEW r \in Requests, ClaimContentTurn(i, r)
  PROVE  Writes!Next
<1> DEFINE t == requests[r].target
<1>1. held = [u \in ContentTargets |-> IF u \in Taken(requests) THEN fence[u] ELSE 0]
  BY HeldIs DEF Inv, TableInv, held, HeldOf
<1>2. held' = [u \in ContentTargets |-> IF u \in Taken(requests') THEN fence'[u] ELSE 0]
  BY HeldIs DEF Inv, TableInv, held, HeldOf
<1>3. /\ r \in DOMAIN requests /\ Reserved(requests[r]) /\ requests[r].state # "CLAIMED"
      /\ t \in ContentTargets
  <2>1. r \in DOMAIN requests /\ requests[r].state = "OFFERED" /\ ~IsFiles(requests[r])
    BY DEF ClaimContentTurn, Offered
  <2>2. requests[r].target \in Targets
    BY <2>1 DEF Inv, TableInv, Sound, IsTable, Row
  <2> QED
    BY <2>1, <2>2 DEF Reserved, IsFiles, Targets
<1>4. t \notin Taken(requests)
  BY <1>3, ClaimedAlone DEF Inv, Taken
<1>5. /\ fence' = [fence EXCEPT ![t] = @ + 1] /\ revision' = revision
      /\ fence \in [ContentTargets -> Nat]
  BY DEF ClaimContentTurn, Inv, ScalarsOK
<1>6. /\ DOMAIN requests' = DOMAIN requests
      /\ requests'[r].target = t /\ requests'[r].state = "CLAIMED"
      /\ \A s \in DOMAIN requests : s # r => requests'[s] = requests[s]
  <2>1. IsTable(requests)
    BY DEF Inv, TableInv, Sound
  <2>2. requests' = [requests EXCEPT ![r] = [requests[r] EXCEPT !.state = "CLAIMED",
                       !.fence = fence[t] + 1, !.base = revision[t], !.left = TurnMs]]
    BY <1>3 DEF ClaimContentTurn
  <2> QED
    BY <1>3, <2>1, <2>2 DEF IsTable, Row
<1> HIDE DEF t
<1>7. Taken(requests') = Taken(requests) \cup {t}
  BY <1>3, <1>6 DEF Taken
<1>8. held[t] = 0
  BY <1>1, <1>3, <1>4
<1>9. held' = [held EXCEPT ![t] = fence[t] + 1]
  BY <1>1, <1>2, <1>3, <1>5, <1>7
<1>10. Writes!Take(t)
  BY <1>5, <1>8, <1>9 DEF Writes!Take
<1> QED
  BY <1>3, <1>10 DEF Writes!Next

LEMMA CommitImplements ==
  ASSUME Inv, Inv', NEW r \in Requests, NEW lock \in Locks, FinishCommit(r, lock)
  PROVE  Writes!Next
<1> DEFINE t == requests[r].target
           table == [requests EXCEPT ![r] = Finish(requests[r], "COMMITTED")]
<1>1. held = [u \in ContentTargets |-> IF u \in Taken(requests) THEN fence[u] ELSE 0]
  BY HeldIs DEF Inv, TableInv, held, HeldOf
<1>2. held' = [u \in ContentTargets |-> IF u \in Taken(requests') THEN fence'[u] ELSE 0]
  BY HeldIs DEF Inv, TableInv, held, HeldOf
<1>3. /\ r \in DOMAIN requests /\ requests[r].state = "CLAIMED" /\ Reserved(requests[r])
      /\ requests' = Promote(table, Connected(instances))
      /\ revision' = [revision EXCEPT ![t] = @ + 1] /\ fence' = fence
  BY DEF FinishCommit, Reserved
<1>4. IsTable(requests) /\ requests[r] \in Row
  BY <1>3 DEF Inv, TableInv, Sound, IsTable
<1>5. Calm(table, requests)
  <2>1. CalmRow(Finish(requests[r], "COMMITTED"), requests[r])
    BY <1>4, FinishCalm
  <2> QED
    BY <1>3, <1>4, <2>1, OneRowCalm
<1>6. Sound(table, queueSeq, fileSeq, fence, revision)
  BY <1>5, CalmSound DEF Inv, TableInv
<1>7. /\ DOMAIN table = DOMAIN requests /\ table[r].state = "COMMITTED"
      /\ \A s \in DOMAIN requests : s # r => table[s] = requests[s]
  BY <1>3, <1>4 DEF Finish, Row
<1> HIDE DEF table
<1>8. Taken(requests') = Taken(table)
  BY <1>3, <1>6, PromoteTaken
<1>9. \A s \in DOMAIN requests : s # r /\ requests[s].state = "CLAIMED" => requests[s].target # t
  BY <1>3, ClaimedAlone DEF Inv
<1>10. Taken(table) = Taken(requests) \ {t}
  BY <1>3, <1>7, <1>9 DEF Taken
<1>11. CASE t \in ContentTargets
  <2>1. t \in Taken(requests) /\ fence[t] > 0 /\ fence[t] \in Nat
    <3>1. ~IsFiles(requests[r])
      BY <1>11, TargetsAssumption DEF IsFiles
    <3>2. requests[r].fence > 0 /\ requests[r].fence = fence[t]
      BY <1>3, <3>1 DEF Inv, TableInv, Sound, Fenced, Current
    <3> QED
      BY <1>3, <1>11, <3>2 DEF Taken, Inv, ScalarsOK
  <2> HIDE DEF t
  <2>2. held[t] # 0
    BY <1>1, <1>11, <2>1
  <2>3. held' = [held EXCEPT ![t] = 0]
    BY <1>1, <1>2, <1>3, <1>8, <1>10, <1>11
  <2>4. Writes!Write(t)
    BY <1>3, <2>2, <2>3 DEF Writes!Write
  <2> QED
    BY <1>11, <2>4 DEF Writes!Next
\* Only turns on content are committed; on anything else a commit would write nothing.
<1>12. CASE t \notin ContentTargets
  <2>1. revision' = revision
    BY <1>3, <1>12 DEF Inv, ScalarsOK
  <2>2. Loses
    BY <1>3, <1>8, <1>10, <2>1 DEF Loses
  <2> QED
    BY <2>2, LosesImplements
<1> QED
  BY <1>11, <1>12

\* The whole of Turns implements FencedWrites: behind queues, sessions, sweeps and restarts,
\* the content of a thread or ticket changes only under its newest turn, once per turn, and
\* never under a turn that was lost.
THEOREM TurnsImplementFencedWrites == Spec => WritesAreFenced
<1>1. Init => Writes!Init
  BY DEF Init, Writes!Init, held
<1>2. Inv /\ Inv' /\ [Next]_vars => [Writes!Next]_Writes!vars
  BY StepSound, LosesImplements, ClaimImplements, CommitImplements
<1> QED
  BY <1>1, <1>2, Invariant, PTL DEF Spec, WritesAreFenced, Writes!Spec

-----------------------------------------------------------------------------
(* Turns and the sessions that ask for them. *)

(***************************************************************************)
(* What a row has to keep towards the instances.  DeadHoldNothing says     *)
(* the first two parts; the third makes OwnersKeepIdentity inductive over  *)
(* a rename, the fourth OnlyLateFailuresHoldUp over the end of a turn: a   *)
(* task that is still working gets a new discard time then, one that has   *)
(* its verdict already is kept for no longer than that.                    *)
(***************************************************************************)
Attached(q, insts) ==
  /\ q.state \in {"READY", "OFFERED"} \/ (IsFiles(q) /\ Active(q)) => insts[q.inst].active
  /\ q.state = "QUEUED" => (insts[q.inst].active <=> q.reconnect = NoDeadline)

OwnedBy(q, insts) ==
  Active(q) /\ insts[q.inst].active => q.ident = insts[q.inst].ident

Tasked(q) ==
  /\ Active(q) /\ q.task \notin {"none", "working"} => q.taskLeft <= RetentionMs
  /\ q.state \in FinalStates /\ q.task = "working" => q.state = "COMMITTED"
  /\ q.state \in FinalStates /\ q.task # "none"
       => q.taskLeft <= q.left \/ (q.state = "COMMITTED" /\ q.task = "failed")

Tended(q, insts) == q \in Row /\ Attached(q, insts) /\ OwnedBy(q, insts) /\ Tasked(q)

RowsTended(rq, insts) == \A r \in DOMAIN rq : Tended(rq[r], insts)

OnePerInstance(rq) ==
  \A r, s \in DOMAIN rq :
    r # s /\ rq[r].inst = rq[s].inst /\ Active(rq[r]) /\ Active(rq[s])
      => IsFiles(rq[r]) # IsFiles(rq[s])

SharedAreBound ==
  \A i, j \in Instances :
    i # j /\ Live(i) /\ Live(j) /\ instances[i].ident = instances[j].ident
      => instances[i].ident \in bound

\* A mark has its commit, and the row of a commit in flight is not waiting for anything:
\* otherwise a disconnect, which spares the marked, would leave it with the dead.
Marked(rq) ==
  /\ \A r \in committing : \E c \in inflight : c[1] = r
  /\ \A c \in inflight : c[1] \in DOMAIN rq =>
       ~Unclaimed(rq[c[1]]) /\ ~IsFiles(rq[c[1]])

SessionInv ==
  /\ RowsTended(requests, instances)
  /\ OnePerInstance(requests)
  /\ SharedAreBound
  /\ Marked(requests)

(***************************************************************************)
(* Every change to a row other than a takeover leaves it with its owner,   *)
(* and makes nothing active, or waiting, that was not.                     *)
(***************************************************************************)
SameOwner(new, old) ==
  /\ new.inst = old.inst /\ new.ident = old.ident /\ new.target = old.target
  /\ Active(new) => Active(old)
  /\ Unclaimed(new) => Unclaimed(old)

SameOwners(new, old) ==
  /\ DOMAIN new \subseteq DOMAIN old
  /\ \A r \in DOMAIN new : SameOwner(new[r], old[r])

LEMMA SameOwnersKeep ==
  ASSUME NEW old, NEW new, SameOwners(new, old)
  PROVE  /\ OnePerInstance(old) => OnePerInstance(new)
         /\ Marked(old) => Marked(new)
<1>1. OnePerInstance(old) => OnePerInstance(new)
  BY DEF SameOwners, SameOwner, OnePerInstance, IsFiles
<1>2. Marked(old) => Marked(new)
  BY DEF SameOwners, SameOwner, Marked, IsFiles
<1> QED
  BY <1>1, <1>2

LEMMA SameOwnersTransitive ==
  ASSUME NEW a, NEW b, NEW c, SameOwners(a, b), SameOwners(b, c)
  PROVE  SameOwners(a, c)
  BY DEF SameOwners, SameOwner

\* The end of a turn, and of the task that was still working for it.
LEMMA FinishTended ==
  ASSUME NEW q \in Row, Tasked(q), Active(q), NEW final \in FinalStates, NEW insts
  PROVE  Tended(Finish(q, final), insts) /\ SameOwner(Finish(q, final), q)
<1> DEFINE taskLeft == IF q.task = "working" THEN RetentionMs ELSE q.taskLeft
           task == IF q.task # "working" \/ final = "COMMITTED" THEN q.task
                   ELSE IF final = "FAILED" THEN "failed" ELSE "cancelled"
<1>1. taskLeft \in Nat /\ task \in TaskStates /\ RetentionMs \in Nat
  BY LimitsAssumption DEF Row
<1>2. Finish(q, final) = [q EXCEPT !.state = final, !.left = RetentionMs,
                                   !.reconnect = NoDeadline, !.taskLeft = taskLeft,
                                   !.task = task]
  BY DEF Finish
<1>3. /\ task # "none" => taskLeft <= RetentionMs
      /\ task = "working" => final = "COMMITTED"
  BY <1>1 DEF Tasked
<1> HIDE DEF taskLeft, task
<1>4. /\ Finish(q, final) \in Row
      /\ Finish(q, final).state = final /\ Finish(q, final).inst = q.inst
      /\ Finish(q, final).ident = q.ident /\ Finish(q, final).target = q.target
      /\ Finish(q, final).task = task /\ Finish(q, final).taskLeft = taskLeft
      /\ Finish(q, final).left = RetentionMs
  BY <1>1, <1>2 DEF Row
<1> QED
  BY <1>1, <1>3, <1>4
     DEF Tended, Attached, OwnedBy, Tasked, SameOwner, Active, Unclaimed, IsFiles

LEMMA SelfOwner ==
  ASSUME NEW q
  PROVE  SameOwner(q, q)
  BY DEF SameOwner

LEMMA MakeAvailableTended ==
  ASSUME NEW q, NEW insts, Tended(q, insts), q.state = "QUEUED", insts[q.inst].active
  PROVE  Tended(MakeAvailable(q), insts) /\ SameOwner(MakeAvailable(q), q)
<1>1. OfferMs \in Nat
  BY LimitsAssumption
<1>2. /\ MakeAvailable(q) \in Row
      /\ MakeAvailable(q).state \in {"READY", "OFFERED"} /\ MakeAvailable(q).inst = q.inst
      /\ MakeAvailable(q).ident = q.ident /\ MakeAvailable(q).target = q.target
      /\ MakeAvailable(q).task = q.task /\ MakeAvailable(q).taskLeft = q.taskLeft
  BY <1>1 DEF MakeAvailable, Row, Tended
<1> QED
  BY <1>2 DEF Tended, Attached, OwnedBy, Tasked, SameOwner, Active, Unclaimed, IsFiles

LEMMA MaterializeTended ==
  ASSUME NEW q, NEW insts, Tended(q, insts)
  PROVE  Tended(Materialize(q), insts) /\ SameOwner(Materialize(q), q)
<1>1. OfferMs \in Nat
  BY LimitsAssumption
<1>2. CASE q.state = "READY"
  <2>1. /\ Materialize(q) \in Row
        /\ Materialize(q).state = "OFFERED" /\ Materialize(q).inst = q.inst
        /\ Materialize(q).ident = q.ident /\ Materialize(q).target = q.target
        /\ Materialize(q).task = q.task /\ Materialize(q).taskLeft = q.taskLeft
    BY <1>1, <1>2 DEF Materialize, Row, Tended
  <2> QED
    BY <1>2, <2>1 DEF Tended, Attached, OwnedBy, Tasked, SameOwner, Active, Unclaimed, IsFiles
<1>3. CASE q.state # "READY"
  BY <1>3, SelfOwner DEF Materialize
<1> QED
  BY <1>2, <1>3

\* A turn that is put back into the queue gets its deadline with it.
LEMMA QueuedTended ==
  ASSUME NEW q \in Row, Tasked(q), q.state \in {"QUEUED", "READY"}, ~IsFiles(q),
         NEW insts, ~insts[q.inst].active
  PROVE  LET back == [q EXCEPT !.state = "QUEUED", !.reconnect = Least(q.left, ReconnectMs)]
         IN Tended(back, insts) /\ SameOwner(back, q)
<1> DEFINE back == [q EXCEPT !.state = "QUEUED", !.reconnect = Least(q.left, ReconnectMs)]
<1>1. Least(q.left, ReconnectMs) \in Nat
  BY LeastType, LimitsAssumption DEF Row
<1>2. /\ back \in Row /\ back.state = "QUEUED" /\ back.reconnect \in Nat
      /\ back.inst = q.inst /\ back.ident = q.ident /\ back.target = q.target
      /\ back.task = q.task /\ back.taskLeft = q.taskLeft
  BY <1>1 DEF Row
<1> HIDE DEF back
<1>3. Tended(back, insts)
  BY <1>2 DEF Tended, Attached, OwnedBy, Tasked, Active, IsFiles
<1>4. SameOwner(back, q)
  BY <1>2 DEF SameOwner, Active, Unclaimed
<1> QED
  BY <1>3, <1>4 DEF back

\* What is left of a request of an instance that goes away is not waiting for it, unless it
\* is claimed and its commit in flight.
LEMMA DetachTended ==
  ASSUME NEW q \in Row, Tasked(q), NEW clean \in BOOLEAN, NEW c \in BOOLEAN,
         c => ~Unclaimed(q) /\ ~IsFiles(q), NEW insts, ~insts[q.inst].active
  PROVE  Tended(Detach(q, clean, c), insts) /\ SameOwner(Detach(q, clean, c), q)
<1> DEFINE back == [q EXCEPT !.state = "QUEUED", !.reconnect = Least(q.left, ReconnectMs)]
<1>1. \/ ~Unclaimed(q) /\ ~(IsFiles(q) /\ Active(q)) /\ Detach(q, clean, c) = q
      \/ ~IsFiles(q) /\ q.state \in {"QUEUED", "READY"} /\ Detach(q, clean, c) = back
      \/ Active(q) /\ \E final \in FinalStates : Detach(q, clean, c) = Finish(q, final)
  BY DEF Detach, Active, Unclaimed
<1>2. ~Unclaimed(q) /\ ~(IsFiles(q) /\ Active(q)) => Tended(q, insts)
  BY DEF Tended, Attached, OwnedBy, Unclaimed
<1> HIDE DEF back
<1>3. CASE ~Unclaimed(q) /\ ~(IsFiles(q) /\ Active(q)) /\ Detach(q, clean, c) = q
  BY <1>2, <1>3, SelfOwner
<1>4. CASE ~IsFiles(q) /\ q.state \in {"QUEUED", "READY"} /\ Detach(q, clean, c) = back
  BY <1>4, QueuedTended DEF back
<1>5. CASE Active(q) /\ \E final \in FinalStates : Detach(q, clean, c) = Finish(q, final)
  BY <1>5, FinishTended
<1> QED
  BY <1>1, <1>3, <1>4, <1>5

LEMMA RecoverTended ==
  ASSUME NEW q \in Row, Tasked(q), NEW insts, ~insts[q.inst].active
  PROVE  Tended(Recover(q), insts) /\ SameOwner(Recover(q), q)
<1> DEFINE back == [q EXCEPT !.state = "QUEUED", !.reconnect = Least(q.left, ReconnectMs)]
<1>1. \/ ~Active(q) /\ Recover(q) = q
      \/ ~IsFiles(q) /\ q.state \in {"QUEUED", "READY"} /\ Recover(q) = back
      \/ Active(q) /\ Recover(q) = Finish(q, "EXPIRED")
  BY DEF Recover, Active
<1>2. ~Active(q) => Tended(q, insts)
  BY DEF Tended, Attached, OwnedBy, Active
<1> HIDE DEF back
<1>3. CASE ~Active(q) /\ Recover(q) = q
  BY <1>2, <1>3, SelfOwner
<1>4. CASE ~IsFiles(q) /\ q.state \in {"QUEUED", "READY"} /\ Recover(q) = back
  BY <1>4, QueuedTended DEF back
<1>5. CASE Active(q) /\ Recover(q) = Finish(q, "EXPIRED")
  BY <1>5, FinishTended
<1> QED
  BY <1>1, <1>3, <1>4, <1>5

LEMMA AgeTended ==
  ASSUME NEW q, NEW insts, Tended(q, insts)
  PROVE  Tended(Age(q), insts) /\ SameOwner(Age(q), q)
<1>1. /\ q \in Row /\ q.left \in Nat /\ q.taskLeft \in Nat /\ q.reconnect \in Deadlines
  BY DEF Tended, Row
<1>2. /\ Sooner(q.left) \in Nat /\ Sooner(q.taskLeft) \in Nat
      /\ Sooner(q.reconnect) \in Deadlines
      /\ Sooner(q.reconnect) = NoDeadline <=> q.reconnect = NoDeadline
      /\ q.taskLeft <= q.left => Sooner(q.taskLeft) <= Sooner(q.left)
      /\ q.taskLeft <= RetentionMs => Sooner(q.taskLeft) <= RetentionMs
  BY <1>1, LimitsAssumption DEF Sooner
<1>3. /\ Age(q) \in Row /\ Age(q).state = q.state /\ Age(q).inst = q.inst
      /\ Age(q).ident = q.ident /\ Age(q).target = q.target /\ Age(q).task = q.task
      /\ Age(q).left = Sooner(q.left) /\ Age(q).taskLeft = Sooner(q.taskLeft)
      /\ Age(q).reconnect = Sooner(q.reconnect)
  BY <1>1, <1>2 DEF Age, Row
<1>4. Tended(Age(q), insts)
  BY <1>1, <1>2, <1>3 DEF Tended, Attached, OwnedBy, Tasked, Active, IsFiles
<1>5. SameOwner(Age(q), q)
  BY <1>3 DEF SameOwner, Active, Unclaimed
<1> QED
  BY <1>4, <1>5

LEMMA DropTaskTended ==
  ASSUME NEW q, NEW insts, Tended(q, insts)
  PROVE  Tended(DropTask(q), insts) /\ SameOwner(DropTask(q), q)
<1>1. CASE q.taskLeft = 0
  <2>1. /\ DropTask(q) \in Row /\ DropTask(q).state = q.state /\ DropTask(q).inst = q.inst
        /\ DropTask(q).ident = q.ident /\ DropTask(q).target = q.target
        /\ DropTask(q).task = "none" /\ DropTask(q).reconnect = q.reconnect
    BY <1>1 DEF DropTask, Row, Tended
  <2> QED
    BY <2>1 DEF Tended, Attached, OwnedBy, Tasked, SameOwner, Active, Unclaimed, IsFiles
<1>2. CASE q.taskLeft # 0
  BY <1>2, SelfOwner DEF DropTask
<1> QED
  BY <1>1, <1>2

----------------------------------------------------------------------------
(* Tables. *)

\* What a change leaves at least: the rows tended under the instances after it, and every
\* row with its owner.
TendedFrom(new, old, insts) == RowsTended(new, insts) /\ SameOwners(new, old)

LEMMA PromoteAmongTended ==
  ASSUME NEW rq, NEW insts, NEW targets, RowsTended(rq, insts)
  PROVE  TendedFrom(PromoteAmong(targets, rq, Connected(insts)), rq, insts)
<1> DEFINE new == PromoteAmong(targets, rq, Connected(insts))
<1>1. DOMAIN new = DOMAIN rq
  BY DEF PromoteAmong
<1>2. \A r \in DOMAIN rq :
        \/ new[r] = rq[r]
        \/ /\ new[r] = MakeAvailable(rq[r]) /\ rq[r].state = "QUEUED"
           /\ insts[rq[r].inst].active
  BY DEF PromoteAmong, Promotable, Connected
<1> HIDE DEF new
<1>3. \A r \in DOMAIN rq : Tended(new[r], insts) /\ SameOwner(new[r], rq[r])
  BY <1>2, MakeAvailableTended, SelfOwner DEF RowsTended
<1> QED
  BY <1>1, <1>3 DEF TendedFrom, RowsTended, SameOwners, new

LEMMA PromoteTended ==
  ASSUME NEW rq, NEW insts, RowsTended(rq, insts)
  PROVE  TendedFrom(Promote(rq, Connected(insts)), rq, insts)
<1> DEFINE promoted == PromoteRequests(rq, Connected(insts))
           new == Promote(rq, Connected(insts))
<1>1. TendedFrom(promoted, rq, insts)
  BY PromoteAmongTended DEF PromoteRequests
<1>2. DOMAIN new = DOMAIN promoted /\ DOMAIN new = DOMAIN rq
  BY DEF Promote, PromoteRequests, PromoteAmong
<1>3. \A r \in DOMAIN promoted :
        \/ new[r] = promoted[r]
        \/ Active(promoted[r]) /\ new[r] = Finish(promoted[r], "EXPIRED")
  BY <1>2 DEF Promote, Active
<1> HIDE DEF promoted, new
<1>4. \A r \in DOMAIN promoted : Tended(new[r], insts) /\ SameOwner(new[r], promoted[r])
  BY <1>1, <1>3, FinishTended, SelfOwner DEF TendedFrom, RowsTended, Tended
<1>5. SameOwners(new, promoted)
  BY <1>2, <1>4 DEF SameOwners
<1> QED
  BY <1>1, <1>2, <1>4, <1>5, SameOwnersTransitive DEF TendedFrom, RowsTended, new

\* The instances in gone are no longer active, and nothing else of the instances changed.
Without(insts, gone, old) ==
  \A i \in Instances :
    /\ i \in gone => ~insts[i].active
    /\ i \notin gone => insts[i] = old[i]

LEMMA DetachAllTended ==
  ASSUME NEW rq, NEW old, NEW insts, NEW gone, NEW clean \in BOOLEAN,
         RowsTended(rq, old), Without(insts, gone, old), Marked(rq)
  PROVE  TendedFrom(DetachAll(rq, gone, clean, committing), rq, insts)
<1> DEFINE new == DetachAll(rq, gone, clean, committing)
<1>1. DOMAIN new = DOMAIN rq
  BY DEF DetachAll
<1>2. \A r \in DOMAIN rq : Tended(new[r], insts) /\ SameOwner(new[r], rq[r])
  <2> TAKE r \in DOMAIN rq
  <2>1. /\ Tended(rq[r], old) /\ rq[r] \in Row /\ Tasked(rq[r])
        /\ rq[r].inst \in Instances
    BY DEF RowsTended, Tended, Row
  <2>2. CASE rq[r].inst \in gone
    <3>1. /\ new[r] = Detach(rq[r], clean, r \in committing) /\ ~insts[rq[r].inst].active
          /\ (r \in committing) \in BOOLEAN
      BY <2>1, <2>2 DEF DetachAll, Without
    <3>2. r \in committing => ~Unclaimed(rq[r]) /\ ~IsFiles(rq[r])
      BY DEF Marked
    <3> HIDE DEF new
    <3> QED
      BY <2>1, <3>1, <3>2, DetachTended
  <2>3. CASE rq[r].inst \notin gone
    <3>1. new[r] = rq[r] /\ insts[rq[r].inst] = old[rq[r].inst]
      BY <2>1, <2>3 DEF DetachAll, Without
    <3> QED
      BY <2>1, <3>1, SelfOwner DEF Tended, Attached, OwnedBy
  <2> QED
    BY <2>2, <2>3
<1> QED
  BY <1>1, <1>2 DEF TendedFrom, RowsTended, SameOwners

LEMMA SweepRowsTended ==
  ASSUME NEW rq, NEW insts, NEW jump, RowsTended(rq, insts)
  PROVE  TendedFrom(SweepRows(rq, jump, committing), rq, insts)
<1> DEFINE new == SweepRows(rq, jump, committing)
<1>1. DOMAIN new \subseteq DOMAIN rq
  BY DEF SweepRows
<1>2. \A r \in DOMAIN new :
        \/ new[r] = DropTask(rq[r])
        \/ Active(rq[r]) /\ new[r] = DropTask(Finish(rq[r], "EXPIRED"))
  BY DEF SweepRows, Lapsed, Active
<1> HIDE DEF new
<1>3. \A r \in DOMAIN new : Tended(new[r], insts) /\ SameOwner(new[r], rq[r])
  <2> TAKE r \in DOMAIN new
  <2>1. Tended(rq[r], insts) /\ rq[r] \in Row /\ Tasked(rq[r])
    BY <1>1 DEF RowsTended, Tended
  <2>2. CASE new[r] = DropTask(rq[r])
    BY <2>1, <2>2, DropTaskTended
  <2>3. CASE Active(rq[r]) /\ new[r] = DropTask(Finish(rq[r], "EXPIRED"))
    <3>1. Tended(Finish(rq[r], "EXPIRED"), insts) /\ SameOwner(Finish(rq[r], "EXPIRED"), rq[r])
      BY <2>1, <2>3, FinishTended
    <3>2. Tended(new[r], insts) /\ SameOwner(new[r], Finish(rq[r], "EXPIRED"))
      BY <2>3, <3>1, DropTaskTended
    <3> QED
      BY <3>1, <3>2 DEF SameOwner
  <2> QED
    BY <1>2, <2>2, <2>3
<1> QED
  BY <1>1, <1>3 DEF TendedFrom, RowsTended, SameOwners, new

\* One row changes.
LEMMA OneRowTended ==
  ASSUME NEW rq, NEW insts, RowsTended(rq, insts), NEW r \in DOMAIN rq,
         NEW row, Tended(row, insts), SameOwner(row, rq[r])
  PROVE  TendedFrom([rq EXCEPT ![r] = row], rq, insts)
  BY SelfOwner DEF TendedFrom, RowsTended, SameOwners

LEMMA TendedThen ==
  ASSUME NEW a, NEW b, NEW c, NEW insts, SameOwners(b, a), TendedFrom(c, b, insts)
  PROVE  TendedFrom(c, a, insts)
  BY SameOwnersTransitive DEF TendedFrom

LEMMA FinishOneTended ==
  ASSUME NEW rq, NEW insts, RowsTended(rq, insts), NEW r \in DOMAIN rq, Active(rq[r]),
         NEW final \in FinalStates
  PROVE  TendedFrom([rq EXCEPT ![r] = Finish(@, final)], rq, insts)
<1>1. Tended(Finish(rq[r], final), insts) /\ SameOwner(Finish(rq[r], final), rq[r])
  BY FinishTended DEF RowsTended, Tended
<1> QED
  BY <1>1, OneRowTended

----------------------------------------------------------------------------
(* Every action keeps the sessions in order. *)

LEMMA TendedBeside ==
  ASSUME SessionInv, TendedFrom(requests', requests, instances'),
         UNCHANGED <<committing, inflight>>, SharedAreBound'
  PROVE  SessionInv'
<1>1. OnePerInstance(requests') /\ Marked(requests')
  BY SameOwnersKeep DEF SessionInv, TendedFrom
<1>2. Marked(requests)'
  BY <1>1 DEF Marked
<1> QED
  BY <1>1, <1>2 DEF SessionInv, TendedFrom

LEMMA TendedStep ==
  ASSUME SessionInv, TendedFrom(requests', requests, instances'), UNCHANGED underway,
         SharedAreBound'
  PROVE  SessionInv'
  BY TendedBeside DEF underway

\* A change to marks alone.
LEMMA MarksStep ==
  ASSUME SessionInv, UNCHANGED <<requests, instances, bound>>, Marked(requests)'
  PROVE  SessionInv'
  BY DEF SessionInv, RowsTended, OnePerInstance, SharedAreBound, Live

\* Instances that stay active keep their identities, and bindings stay.
LEMMA SharedKept ==
  ASSUME SharedAreBound, bound \subseteq bound',
         \A i \in Instances : instances'[i].active =>
            instances[i].active /\ instances'[i].ident = instances[i].ident
  PROVE  SharedAreBound'
  BY DEF SharedAreBound, Live

LEMMA OpenTended ==
  ASSUME Inv, SessionInv, NEW i \in Instances, NEW d \in Identities, NEW session \in BOOLEAN,
         Open(i, d, session)
  PROVE  SessionInv'
<1> DEFINE takenOver(r) == [requests[r] EXCEPT !.inst = i, !.reconnect = NoDeadline]
<1>1. /\ ~instances[i].active
      /\ \A r \in DOMAIN requests : requests[r].inst = i => ~Active(requests[r])
      /\ instances'[i].active /\ instances'[i].ident = d
      /\ \A j \in Instances : j # i => instances'[j] = instances[j]
      /\ UNCHANGED underway
  BY DEF Open, Live, Inv, ScalarsOK
<1>2. \A r \in DOMAIN requests :
        /\ requests[r] \in Row /\ requests[r].inst \in Instances
        /\ Tended(requests[r], instances)
  BY DEF SessionInv, RowsTended, Tended, Row
<1>3. RowsTended(requests, instances')
  BY <1>1, <1>2 DEF RowsTended, Tended, Attached, OwnedBy, Active
<1>4. PICK rq \in Rebound(requests, i, d) : requests' = Promote(rq, Connected(instances'))
  BY DEF Open
<1>5. \/ rq = requests
      \/ \E r \in Rebindable(requests, d) : rq = [requests EXCEPT ![r] = takenOver(r)]
  BY <1>4 DEF Rebound
<1>6. RowsTended(rq, instances') /\ OnePerInstance(rq) /\ Marked(rq)
  <2>1. CASE rq = requests
    BY <2>1, <1>3 DEF SessionInv
  <2>2. ASSUME NEW r \in Rebindable(requests, d), rq = [requests EXCEPT ![r] = takenOver(r)]
        PROVE  RowsTended(rq, instances') /\ OnePerInstance(rq) /\ Marked(rq)
    <3>1. /\ r \in DOMAIN requests /\ ~IsFiles(requests[r]) /\ requests[r].ident = d
          /\ requests[r].state \in {"QUEUED", "READY"}
      BY DEF Rebindable
    <3>2. /\ takenOver(r) \in Row /\ takenOver(r).inst = i /\ takenOver(r).ident = d
          /\ takenOver(r).state = requests[r].state /\ takenOver(r).reconnect = NoDeadline
          /\ takenOver(r).target = requests[r].target /\ takenOver(r).task = requests[r].task
          /\ takenOver(r).taskLeft = requests[r].taskLeft
      BY ZenonT(40), <3>1, <1>2 DEF Row
    <3> HIDE DEF takenOver
    <3>3. /\ DOMAIN rq = DOMAIN requests /\ rq[r] = takenOver(r)
          /\ \A s \in DOMAIN requests : s # r => rq[s] = requests[s]
      BY <2>2, <3>1
    <3>4. Tended(takenOver(r), instances')
      BY <3>1, <3>2, <1>1, <1>2 DEF Tended, Attached, OwnedBy, Tasked, IsFiles, Active
    <3>5. RowsTended(rq, instances')
      BY <3>3, <3>4, <1>3 DEF RowsTended
    <3>6. OnePerInstance(rq)
      BY <3>2, <3>3, <1>1 DEF OnePerInstance, SessionInv, IsFiles, Active
    <3>7. Marked(rq)
      BY <3>2, <3>3 DEF Marked, SessionInv, IsFiles, Unclaimed
    <3> QED
      BY <3>5, <3>6, <3>7
  <2> QED
    BY <1>5, <2>1, <2>2
<1>7. TendedFrom(requests', rq, instances')
  BY <1>4, <1>6, PromoteTended
<1>8. OnePerInstance(requests') /\ Marked(requests')
  BY <1>6, <1>7, SameOwnersKeep DEF TendedFrom
<1>9. Marked(requests)'
  BY <1>1, <1>8 DEF Marked, underway
<1>10. SharedAreBound'
  <2>1. bound \subseteq bound' /\ (session => d \in bound')
    BY DEF Open
  <2>2. (session /\ d \in bound) \/ Unused(d)
    BY DEF Open
  <2> SUFFICES ASSUME NEW j \in Instances, NEW k \in Instances, j # k,
                      instances'[j].active, instances'[k].active,
                      instances'[j].ident = instances'[k].ident
               PROVE  instances'[j].ident \in bound'
    BY DEF SharedAreBound, Live
  <2>3. CASE j # i /\ k # i
    BY <2>1, <2>3, <1>1 DEF SessionInv, SharedAreBound, Live
  <2>4. CASE j = i \/ k = i
    BY <2>1, <2>2, <2>4, <1>1 DEF Unused, Live
  <2> QED
    BY <2>3, <2>4
<1> QED
  BY <1>7, <1>8, <1>9, <1>10 DEF SessionInv, TendedFrom

LEMMA RequestNameTended ==
  ASSUME Inv, SessionInv, NEW i \in Instances, NEW d \in Identities, RequestName(i, d)
  PROVE  SessionInv'
<1> DEFINE own == instances[i].ident
<1>1. /\ instances[i].active
      /\ \A r \in DOMAIN requests : requests[r].ident = own => ~Active(requests[r])
      /\ d # own => d \notin bound /\ Unused(d)
      /\ \A j \in Instances : instances'[j].active = instances[j].active
      /\ \A j \in Instances :
           instances'[j].ident = IF Live(j) /\ instances[j].ident = own
                                   THEN d ELSE instances[j].ident
      /\ bound' = IF own \in bound THEN (bound \ {own}) \cup {d} ELSE bound
      /\ requests' = Promote(requests, Connected(instances'))
      /\ UNCHANGED underway
  BY DEF RequestName, Live, Inv, ScalarsOK
<1>2. RowsTended(requests, instances')
  <2> SUFFICES ASSUME NEW r \in DOMAIN requests
               PROVE  Tended(requests[r], instances')
    BY DEF RowsTended
  <2>1. Tended(requests[r], instances) /\ requests[r].inst \in Instances
    BY DEF SessionInv, RowsTended, Tended, Row
  <2>2. Attached(requests[r], instances')
    BY <2>1, <1>1 DEF Tended, Attached
  <2>3. OwnedBy(requests[r], instances')
    BY <2>1, <1>1 DEF Tended, OwnedBy, Live
  <2> QED
    BY <2>1, <2>2, <2>3 DEF Tended
<1>3. TendedFrom(requests', requests, instances')
  BY <1>1, <1>2, PromoteTended
<1>4. SharedAreBound'
  <2> SUFFICES ASSUME NEW j \in Instances, NEW k \in Instances, j # k,
                      instances'[j].active, instances'[k].active,
                      instances'[j].ident = instances'[k].ident
               PROVE  instances'[j].ident \in bound'
    BY DEF SharedAreBound, Live
  <2>1. CASE d = own
    BY <2>1, <1>1 DEF SessionInv, SharedAreBound, Live
  <2>2. CASE d # own /\ (instances[j].ident = own <=> instances[k].ident = own)
    BY <2>2, <1>1 DEF SessionInv, SharedAreBound, Live
  <2>3. CASE d # own /\ ~(instances[j].ident = own <=> instances[k].ident = own)
    BY <2>3, <1>1 DEF Unused, Live
  <2> QED
    BY <2>1, <2>2, <2>3
<1> QED
  BY <1>1, <1>3, <1>4, TendedStep

\* Nothing becomes of the requests when only their instances' heartbeats change.
LEMMA SameRows ==
  ASSUME NEW old, NEW insts, RowsTended(requests, old),
         \A i \in Instances : /\ insts[i].active = old[i].active
                              /\ insts[i].ident = old[i].ident
  PROVE  RowsTended(requests, insts)
  BY DEF RowsTended, Tended, Attached, OwnedBy, Row

LEMMA InstanceStepTended ==
  ASSUME Inv, SessionInv, NEW i \in Instances, InstanceStep(i)
  PROVE  SessionInv'
<1>1. ASSUME NEW d \in Identities, NEW session \in BOOLEAN, Open(i, d, session)
      PROVE  SessionInv'
  BY <1>1, OpenTended
<1>2. ASSUME NEW d \in Identities, RequestName(i, d) PROVE SessionInv'
  BY <1>2, RequestNameTended
<1>3. CASE Heartbeat(i)
  <2>1. /\ UNCHANGED <<requests, bound, underway>>
        /\ \A j \in Instances : /\ instances'[j].active = instances[j].active
                                /\ instances'[j].ident = instances[j].ident
    BY <1>3 DEF Heartbeat, ledger, Inv, ScalarsOK
  <2>2. SharedAreBound'
    BY <2>1, SharedKept DEF SessionInv
  <2>3. RowsTended(requests, instances')
    BY <2>1, SameRows DEF SessionInv
  <2>4. TendedFrom(requests', requests, instances')
    BY <2>1, <2>3, SelfOwner DEF TendedFrom, SameOwners
  <2> QED
    BY <2>1, <2>2, <2>4, TendedStep
<1>4. ASSUME NEW clean \in BOOLEAN, Disconnect(i, clean) PROVE SessionInv'
  <2> DEFINE table == DetachAll(requests, {i}, clean, committing)
  <2>1. /\ requests' = Promote(table, Connected(instances'))
        /\ UNCHANGED <<bound, underway>>
        /\ ~instances'[i].active
        /\ \A j \in Instances : j # i => instances'[j] = instances[j]
    BY <1>4 DEF Disconnect, ledger, Close, Inv, ScalarsOK
  <2>2. Without(instances', {i}, instances)
    BY <2>1 DEF Without
  <2>3. TendedFrom(table, requests, instances')
    BY <2>2, DetachAllTended DEF SessionInv
  <2> HIDE DEF table
  <2>4. TendedFrom(requests', table, instances')
    BY <2>1, <2>3, PromoteTended DEF TendedFrom
  <2>5. TendedFrom(requests', requests, instances')
    BY <2>3, <2>4, TendedThen DEF TendedFrom
  <2>6. SharedAreBound'
    BY <2>1, SharedKept DEF SessionInv
  <2> QED
    BY <2>1, <2>5, <2>6, TendedStep
<1> QED
  BY <1>1, <1>2, <1>3, <1>4 DEF InstanceStep

\* A request that is made belongs to the live instance that makes it.
LEMMA InsertTended ==
  ASSUME Inv, SessionInv, NEW i \in Instances, NEW r \in Requests, Live(i), Fresh(r),
         NEW t \in Targets, NonePending(i, t \in FileTargets),
         NEW mode \in {"ticket", "task"}, NEW n \in Nat
  PROVE  LET table == Insert(requests, r, NewRow(i, t, n, mode))
         IN RowsTended(table, instances) /\ OnePerInstance(table) /\ Marked(table)
<1> DEFINE row == NewRow(i, t, n, mode)
           table == Insert(requests, r, row)
<1>1. /\ row \in Row /\ row.state = "QUEUED" /\ row.inst = i /\ row.target = t
      /\ row.ident = instances[i].ident /\ row.reconnect = NoDeadline
      /\ row.task \in {"none", "working"}
  BY LimitsAssumption DEF NewRow, Row, Inv, ScalarsOK
<1>2. /\ DOMAIN table = DOMAIN requests \cup {r}
      /\ table[r] = row
      /\ r \notin DOMAIN requests /\ \A c \in inflight : c[1] # r
      /\ \A s \in DOMAIN requests : table[s] = requests[s]
  BY DEF Insert, Fresh
<1> HIDE DEF row, table
<1>3. Tended(row, instances)
  BY <1>1 DEF Tended, Attached, OwnedBy, Tasked, Live, Active
<1>4. RowsTended(table, instances)
  BY <1>2, <1>3 DEF SessionInv, RowsTended
<1>5. \A s \in DOMAIN requests :
        requests[s].inst = i /\ Active(requests[s]) => IsFiles(requests[s]) # IsFiles(row)
  BY <1>1 DEF NonePending, IsFiles
<1>6. OnePerInstance(table)
  BY <1>1, <1>2, <1>5 DEF SessionInv, OnePerInstance
<1>7. Marked(table)
  BY <1>2 DEF SessionInv, Marked
<1> QED
  BY <1>4, <1>6, <1>7 DEF table, row

LEMMA GrantedTended ==
  ASSUME NEW rq, NEW insts, RowsTended(rq, insts), NEW r \in DOMAIN rq
  PROVE  TendedFrom(GrantedAtOnce(rq, r), rq, insts)
<1> DEFINE made == Materialize(rq[r])
           row == [made EXCEPT !.mode = "ticket", !.task = "none", !.taskLeft = 0]
<1>1. Tended(made, insts) /\ SameOwner(made, rq[r])
  BY MaterializeTended DEF RowsTended
<1> HIDE DEF made
<1>2. /\ row \in Row /\ row.state = made.state /\ row.inst = made.inst
      /\ row.ident = made.ident /\ row.target = made.target /\ row.task = "none"
      /\ row.reconnect = made.reconnect
  BY <1>1 DEF Tended, Row
<1> HIDE DEF row
<1>3. Tended(row, insts)
  BY <1>1, <1>2 DEF Tended, Attached, OwnedBy, Tasked, Active, IsFiles
<1>4. SameOwner(row, rq[r])
  BY <1>1, <1>2 DEF SameOwner, Active, Unclaimed
<1>5. TendedFrom([rq EXCEPT ![r] = row], rq, insts)
  BY <1>3, <1>4, OneRowTended
<1>6. TendedFrom(rq, rq, insts)
  BY SelfOwner DEF TendedFrom, SameOwners
<1> QED
  BY <1>5, <1>6 DEF GrantedAtOnce, row, made

LEMMA RequestStepTended ==
  ASSUME Inv, SessionInv, NEW i \in Instances, NEW r \in Requests, RequestStep(i, r)
  PROVE  SessionInv'
<1>0. RowsTended(requests, instances)
  BY DEF SessionInv
<1>1. ASSUME NEW t \in ContentTargets, NEW mode \in Modes, RequestResourceTurn(i, r, t, mode)
      PROVE  SessionInv'
  <2> DEFINE n == queueSeq[t] + 1
             table == Insert(requests, r, NewRow(i, t, n, mode))
             promoted == Promote(table, Connected(instances))
  <2>0. n \in Nat /\ queueSeq'[t] = n
    BY <1>1 DEF RequestResourceTurn, Inv, ScalarsOK
  <2>1. /\ Live(i) /\ Fresh(r) /\ NonePending(i, FALSE)
        /\ requests' = GrantedAtOnce(promoted, r)
        /\ UNCHANGED <<instances, bound, underway>>
    BY <1>1, <2>0 DEF RequestResourceTurn
  <2>2. t \in Targets /\ (t \in FileTargets) = FALSE /\ mode \in {"ticket", "task"}
    BY TargetsAssumption, BoundsAssumption DEF Targets
  <2>3. RowsTended(table, instances) /\ OnePerInstance(table) /\ Marked(table)
    BY <2>0, <2>1, <2>2, InsertTended
  <2>4. r \in DOMAIN promoted
    BY DEF Promote, Insert
  <2> HIDE DEF table
  <2>5. TendedFrom(promoted, table, instances)
    BY <2>3, PromoteTended
  <2> HIDE DEF promoted
  <2>6. TendedFrom(requests', promoted, instances)
    BY <2>1, <2>4, <2>5, GrantedTended DEF TendedFrom
  <2>7. /\ RowsTended(requests', instances) /\ OnePerInstance(requests') /\ Marked(requests')
    BY <2>3, <2>5, <2>6, SameOwnersKeep DEF TendedFrom
  <2> QED
    BY <2>1, <2>7 DEF SessionInv, Marked, SharedAreBound, Live, underway
<1>2. ASSUME NEW t \in FileTargets, NEW mode \in Modes, RequestFileTurn(i, r, t, mode)
      PROVE  SessionInv'
  <2> DEFINE n == fileSeq + 1
             table == Insert(requests, r, NewRow(i, t, n, mode))
             promoted == PromoteFileRequests(table, Connected(instances))
  <2>0. n \in Nat /\ fileSeq' = n
    BY <1>2 DEF RequestFileTurn, Inv, ScalarsOK
  <2>1. /\ Live(i) /\ Fresh(r) /\ NonePending(i, TRUE)
        /\ requests' = GrantedAtOnce(promoted, r)
        /\ UNCHANGED <<instances, bound, underway>>
    BY <1>2, <2>0 DEF RequestFileTurn
  <2>2. t \in Targets /\ (t \in FileTargets) = TRUE /\ mode \in {"ticket", "task"}
    BY BoundsAssumption DEF Targets
  <2>3. RowsTended(table, instances) /\ OnePerInstance(table) /\ Marked(table)
    BY <2>0, <2>1, <2>2, InsertTended
  <2>4. r \in DOMAIN promoted
    BY DEF PromoteFileRequests, PromoteAmong, Insert
  <2> HIDE DEF table
  <2>5. TendedFrom(promoted, table, instances)
    BY <2>3, PromoteAmongTended DEF PromoteFileRequests
  <2> HIDE DEF promoted
  <2>6. TendedFrom(requests', promoted, instances)
    BY <2>1, <2>4, <2>5, GrantedTended DEF TendedFrom
  <2>7. /\ RowsTended(requests', instances) /\ OnePerInstance(requests') /\ Marked(requests')
    BY <2>3, <2>5, <2>6, SameOwnersKeep DEF TendedFrom
  <2> QED
    BY <2>1, <2>7 DEF SessionInv, Marked, SharedAreBound, Live, underway
<1>3. CASE Status(i, r)
  <2>1. /\ r \in DOMAIN requests
        /\ requests' = [requests EXCEPT ![r] = Materialize(requests[r])]
        /\ UNCHANGED <<instances, bound, underway>>
    BY <1>3 DEF Status, Owns, ledger
  <2>2. Tended(Materialize(requests[r]), instances)
        /\ SameOwner(Materialize(requests[r]), requests[r])
    BY <1>0, <2>1, MaterializeTended DEF RowsTended
  <2>3. TendedFrom(requests', requests, instances')
    BY <1>0, <2>1, <2>2, OneRowTended
  <2> QED
    BY <2>1, <2>3, TendedStep DEF SessionInv, SharedAreBound, Live
<1>4. CASE EnsureTurnTask(i, r)
  <2> DEFINE row == [requests[r] EXCEPT !.mode = "task", !.task = "working",
                                        !.taskLeft = requests[r].left]
  <2>1. /\ r \in DOMAIN requests /\ requests' = [requests EXCEPT ![r] = row]
        /\ requests[r].state \in {"QUEUED", "READY"}
        /\ UNCHANGED <<instances, bound, underway>>
    BY <1>4 DEF EnsureTurnTask, Owns, ledger
  <2>2. Tended(requests[r], instances)
    BY <1>0, <2>1 DEF RowsTended
  <2>3. /\ row \in Row /\ row.state = requests[r].state /\ row.inst = requests[r].inst
        /\ row.ident = requests[r].ident /\ row.target = requests[r].target
        /\ row.task = "working" /\ row.reconnect = requests[r].reconnect
    BY <2>2 DEF Tended, Row
  <2> HIDE DEF row
  <2>4. Tended(row, instances)
    BY <2>1, <2>2, <2>3 DEF Tended, Attached, OwnedBy, Tasked, Active, IsFiles
  <2>5. SameOwner(row, requests[r])
    BY <2>3 DEF SameOwner, Active, Unclaimed
  <2>6. TendedFrom(requests', requests, instances')
    BY <1>0, <2>1, <2>4, <2>5, OneRowTended
  <2> QED
    BY <2>1, <2>6, TendedStep DEF SessionInv, SharedAreBound, Live
<1>5. CASE CancelTurnRequest(i, r)
  <2> DEFINE table == IF Active(requests[r])
                        THEN [requests EXCEPT ![r] = Finish(@, "CANCELLED")] ELSE requests
  <2>1. /\ r \in DOMAIN requests /\ requests' = Promote(table, Connected(instances))
        /\ UNCHANGED <<instances, bound, underway>>
    BY <1>5 DEF CancelTurnRequest, Owns, ledger
  <2>2. TendedFrom(requests, requests, instances)
    BY <1>0, SelfOwner DEF TendedFrom, SameOwners
  <2>3. Active(requests[r]) =>
          TendedFrom([requests EXCEPT ![r] = Finish(@, "CANCELLED")], requests, instances)
    BY <1>0, <2>1, FinishOneTended
  <2>4. TendedFrom(table, requests, instances)
    BY <2>2, <2>3
  <2> HIDE DEF table
  <2>5. TendedFrom(requests', table, instances)
    BY <2>1, <2>4, PromoteTended DEF TendedFrom
  <2>6. TendedFrom(requests', requests, instances')
    BY <2>1, <2>4, <2>5, TendedThen DEF TendedFrom
  <2> QED
    BY <2>1, <2>6, TendedStep DEF SessionInv, SharedAreBound, Live
<1> QED
  BY <1>1, <1>2, <1>3, <1>4, <1>5 DEF RequestStep

\* A turn ends and its target is handed on.
LEMMA FinishThenPromoteTended ==
  ASSUME SessionInv, NEW r \in DOMAIN requests, Active(requests[r]),
         NEW final \in FinalStates,
         requests' = Promote([requests EXCEPT ![r] = Finish(@, final)], Connected(instances))
  PROVE  TendedFrom(requests', requests, instances)
<1> DEFINE table == [requests EXCEPT ![r] = Finish(@, final)]
<1>1. TendedFrom(table, requests, instances)
  BY FinishOneTended DEF SessionInv
<1> HIDE DEF table
<1>2. TendedFrom(requests', table, instances)
  BY <1>1, PromoteTended DEF TendedFrom, table
<1> QED
  BY <1>1, <1>2, TendedThen DEF TendedFrom

LEMMA TurnStepTended ==
  ASSUME Inv, SessionInv, NEW i \in Instances, NEW r \in Requests, TurnStep(i, r)
  PROVE  SessionInv'
<1>0. RowsTended(requests, instances)
  BY DEF SessionInv
<1>1. CASE ClaimContentTurn(i, r) \/ ClaimFiles(i, r)
  <2>1. /\ r \in DOMAIN requests /\ requests[r].state = "OFFERED"
        /\ UNCHANGED <<instances, bound, underway>>
        /\ DOMAIN requests' = DOMAIN requests
        /\ \A s \in DOMAIN requests : s # r => requests'[s] = requests[s]
    BY <1>1 DEF ClaimContentTurn, ClaimFiles, Offered, ledger
  <2>2. Tended(requests[r], instances)
    BY <1>0, <2>1 DEF RowsTended
  <2>3. /\ requests'[r].state = "CLAIMED" /\ requests'[r].inst = requests[r].inst
        /\ requests'[r].ident = requests[r].ident /\ requests'[r].target = requests[r].target
        /\ requests'[r].task = requests[r].task
        /\ requests'[r].taskLeft = requests[r].taskLeft
    BY ZenonT(40), <1>1, <2>1, <2>2 DEF ClaimContentTurn, ClaimFiles, Offered, Tended, Row
  <2>4. TableInv'
    BY <1>1, TurnStepSound DEF Inv, TurnStep
  <2>5. requests'[r] \in Row
    BY <2>1, <2>4 DEF TableInv, Sound, IsTable
  <2>6. Tended(requests'[r], instances)
    BY <2>1, <2>2, <2>3, <2>5 DEF Tended, Attached, OwnedBy, Tasked, Active, IsFiles
  <2>7. SameOwner(requests'[r], requests[r])
    BY <2>1, <2>3 DEF SameOwner, Active, Unclaimed
  <2>8. TendedFrom(requests', requests, instances')
    BY <1>0, <2>1, <2>6, <2>7, SelfOwner DEF TendedFrom, RowsTended, SameOwners
  <2> QED
    BY <2>1, <2>8, TendedStep DEF SessionInv, SharedAreBound, Live
<1>2. CASE ReleaseTurn(i, r)
  <2>1. /\ r \in DOMAIN requests /\ Active(requests[r])
        /\ requests' = Promote([requests EXCEPT ![r] = Finish(@, "RELEASED")],
                               Connected(instances))
        /\ UNCHANGED <<instances, bound, underway>>
    BY <1>2 DEF ReleaseTurn, Claimed, Owns, Active, ledger
  <2>2. TendedFrom(requests', requests, instances')
    BY <2>1, FinishThenPromoteTended
  <2> QED
    BY <2>1, <2>2, TendedStep DEF SessionInv, SharedAreBound, Live
<1>3. CASE ReleaseFiles(i, r)
  <2> DEFINE table == [requests EXCEPT ![r] = Finish(@, "RELEASED")]
  <2>1. /\ r \in DOMAIN requests /\ Active(requests[r])
        /\ requests' = PromoteFileRequests(table, Connected(instances))
        /\ UNCHANGED <<instances, bound, underway>>
    BY <1>3 DEF ReleaseFiles, Owns, Active, ledger
  <2>2. TendedFrom(table, requests, instances)
    BY <1>0, <2>1, FinishOneTended
  <2> HIDE DEF table
  <2>3. TendedFrom(requests', table, instances)
    BY <2>1, <2>2, PromoteAmongTended DEF TendedFrom, PromoteFileRequests
  <2>4. TendedFrom(requests', requests, instances')
    BY <2>1, <2>2, <2>3, TendedThen DEF TendedFrom
  <2> QED
    BY <2>1, <2>4, TendedStep DEF SessionInv, SharedAreBound, Live
<1>4. ASSUME NEW lock \in Locks, StartCommit(i, r, lock) PROVE SessionInv'
  <2>1. /\ requests[r].state = "CLAIMED" /\ ~IsFiles(requests[r])
        /\ inflight' = inflight \cup {<<r, lock>>}
        /\ committing' = committing \cup {r}
        /\ UNCHANGED <<requests, instances, bound>>
    BY <1>4 DEF StartCommit, Claimed, ledger
  <2>2. Marked(requests)
    BY DEF SessionInv
  <2>3. \A s \in committing' : \E c \in inflight' : c[1] = s
    <3>1. <<r, lock>> \in inflight' /\ <<r, lock>>[1] = r
      BY <2>1
    <3> QED
      BY <2>1, <2>2, <3>1 DEF Marked
  <2>4. \A c \in inflight' : c[1] \in DOMAIN requests =>
          ~Unclaimed(requests[c[1]]) /\ ~IsFiles(requests[c[1]])
    BY <2>1, <2>2 DEF Marked, Unclaimed
  <2>5. Marked(requests)'
    BY <2>1, <2>3, <2>4 DEF Marked, Unclaimed, IsFiles
  <2> QED
    BY <2>1, <2>5, MarksStep
<1> QED
  BY <1>1, <1>2, <1>3, <1>4 DEF TurnStep

\* The verdict of a poll: on a turn that is claimed, or on one that was committed past the poll.
LEMMA WithTaskTended ==
  ASSUME NEW q, NEW insts, Tended(q, insts), NEW verdict \in {"completed", "failed"},
         verdict = "completed" => Active(q), verdict = "failed" => ~Active(q) /\ q.task = "working"
  PROVE  Tended(WithTask(q, verdict), insts) /\ SameOwner(WithTask(q, verdict), q)
<1> DEFINE row == WithTask(q, verdict)
<1>1. /\ row \in Row /\ row.state = q.state /\ row.inst = q.inst /\ row.ident = q.ident
      /\ row.target = q.target /\ row.reconnect = q.reconnect /\ row.left = q.left
      /\ row.task = verdict /\ row.taskLeft = RetentionMs /\ RetentionMs \in Nat
      /\ q.state \in ActiveStates \cup FinalStates
  BY LimitsAssumption DEF WithTask, Tended, Row
<1>2. Tasked(q)
  BY DEF Tended
<1> HIDE DEF row
<1>3. Tasked(row)
  BY <1>1, <1>2 DEF Tasked, Active
<1>4. Tended(row, insts)
  BY <1>1, <1>3 DEF Tended, Attached, OwnedBy, Active, IsFiles
<1>5. SameOwner(row, q)
  BY <1>1 DEF SameOwner, Active, Unclaimed
<1> QED
  BY <1>4, <1>5 DEF row

LEMMA TaskStepTended ==
  ASSUME Inv, SessionInv, NEW i \in Instances, NEW r \in Requests, TaskStep(i, r)
  PROVE  SessionInv'
<1>0. RowsTended(requests, instances) /\ SharedAreBound
  BY DEF SessionInv
<1>1. /\ UNCHANGED <<instances, bound, committing, inflight>>
      /\ EndPoll(i, r) \/ r \in DOMAIN requests
  BY DEF TaskStep, PollTask, CompleteTask, FailTask, EndPoll, CancelTask, Working, Owns, ledger,
         underway
<1>2. SharedAreBound'
  BY <1>0, <1>1 DEF SharedAreBound, Live
<1>3. TendedFrom(requests, requests, instances)
  BY <1>0, SelfOwner DEF TendedFrom, SameOwners
<1>4. CASE PollTask(i, r)
  <2> DEFINE row == IF requests[r].state = "CLAIMED" THEN WithTask(requests[r], "completed")
                    ELSE Materialize(requests[r])
  <2>1. r \in DOMAIN requests /\ requests' = [requests EXCEPT ![r] = row]
    BY <1>4 DEF PollTask, Working, Owns
  <2>2. Tended(row, instances) /\ SameOwner(row, requests[r])
    BY <1>0, <2>1, WithTaskTended, MaterializeTended DEF RowsTended, Active
  <2> HIDE DEF row
  <2>3. TendedFrom(requests', requests, instances)
    BY <1>0, <2>1, <2>2, OneRowTended
  <2> QED
    BY <1>1, <1>2, <2>3, TendedBeside
<1>5. CASE CompleteTask(i, r)
  <2>1. /\ r \in DOMAIN requests /\ Active(requests[r])
        /\ requests' = [requests EXCEPT ![r] = WithTask(requests[r], "completed")]
    BY <1>5 DEF CompleteTask, Working, Owns, Active
  <2>2. /\ Tended(WithTask(requests[r], "completed"), instances)
        /\ SameOwner(WithTask(requests[r], "completed"), requests[r])
    BY <1>0, <2>1, WithTaskTended DEF RowsTended
  <2>3. TendedFrom(requests', requests, instances)
    BY <1>0, <2>1, <2>2, OneRowTended
  <2> QED
    BY <1>1, <1>2, <2>3, TendedBeside
<1>6. CASE FailTask(i, r)
  <2>1. r \in DOMAIN requests /\ requests[r].task = "working"
    BY <1>6 DEF FailTask, Working, Owns
  <2>2. CASE Active(requests[r])
    <3>1. requests' = Promote([requests EXCEPT ![r] = Finish(@, "FAILED")],
                              Connected(instances))
      BY <1>6, <2>2 DEF FailTask
    <3>2. TendedFrom(requests', requests, instances)
      BY <2>1, <2>2, <3>1, FinishThenPromoteTended
    <3> QED
      BY <1>1, <1>2, <3>2, TendedBeside
  <2>3. CASE ~Active(requests[r])
    <3> DEFINE table == [requests EXCEPT ![r] = WithTask(requests[r], "failed")]
    <3>1. requests' = Promote(table, Connected(instances))
      BY <1>6, <2>3 DEF FailTask
    <3>2. /\ Tended(WithTask(requests[r], "failed"), instances)
          /\ SameOwner(WithTask(requests[r], "failed"), requests[r])
      BY <1>0, <2>1, <2>3, WithTaskTended DEF RowsTended
    <3>3. TendedFrom(table, requests, instances)
      BY <1>0, <2>1, <3>2, OneRowTended
    <3> HIDE DEF table
    <3>4. TendedFrom(requests', table, instances)
      BY <3>1, <3>3, PromoteTended DEF TendedFrom
    <3>5. TendedFrom(requests', requests, instances)
      BY <3>3, <3>4, TendedThen DEF TendedFrom
    <3> QED
      BY <1>1, <1>2, <3>5, TendedBeside
  <2> QED
    BY <2>2, <2>3
<1>7. CASE EndPoll(i, r)
  <2>1. requests' = requests
    BY <1>7 DEF EndPoll
  <2> QED
    BY <1>1, <1>2, <1>3, <2>1, TendedBeside
<1>8. CASE CancelTask(i, r)
  <2> DEFINE ends == /\ requests[r].task = "working"
                     /\ requests[r].state \in {"QUEUED", "READY", "OFFERED"}
             table == IF ends THEN [requests EXCEPT ![r] = Finish(@, "CANCELLED")] ELSE requests
  <2>1. r \in DOMAIN requests /\ requests' = Promote(table, Connected(instances))
    BY <1>8 DEF CancelTask, Owns
  <2>2. ends => TendedFrom([requests EXCEPT ![r] = Finish(@, "CANCELLED")], requests, instances)
    BY <1>0, <2>1, FinishOneTended DEF Active
  <2>3. TendedFrom(table, requests, instances)
    BY <1>3, <2>2
  <2> HIDE DEF table
  <2>4. TendedFrom(requests', table, instances)
    BY <2>1, <2>3, PromoteTended DEF TendedFrom
  <2>5. TendedFrom(requests', requests, instances)
    BY <2>3, <2>4, TendedThen DEF TendedFrom
  <2> QED
    BY <1>1, <1>2, <2>5, TendedBeside
<1> QED
  BY <1>4, <1>5, <1>6, <1>7, <1>8 DEF TaskStep

LEMMA DaemonStepTended ==
  ASSUME Inv, SessionInv, DaemonStep
  PROVE  SessionInv'
<1>1. ASSUME NEW r \in Requests, ForceRelease(r) PROVE SessionInv'
  <2>1. /\ r \in DOMAIN requests /\ Active(requests[r])
        /\ requests' = Promote([requests EXCEPT ![r] = Finish(@, "RELEASED")],
                               Connected(instances))
        /\ UNCHANGED <<instances, bound, underway>>
    BY <1>1 DEF ForceRelease, Active, ledger
  <2>2. TendedFrom(requests', requests, instances')
    BY <2>1, FinishThenPromoteTended
  <2> QED
    BY <2>1, <2>2, TendedStep DEF SessionInv, SharedAreBound, Live
<1>2. ASSUME NEW r \in Requests, NEW lock \in Locks, FinishCommit(r, lock) PROVE SessionInv'
  <2>1. /\ r \in DOMAIN requests /\ Active(requests[r])
        /\ requests' = Promote([requests EXCEPT ![r] = Finish(@, "COMMITTED")],
                               Connected(instances))
        /\ inflight' = inflight \ {<<r, lock>>} /\ committing' = committing \ {r}
        /\ UNCHANGED <<instances, bound>>
    BY <1>2 DEF FinishCommit, Active
  <2>2. TendedFrom(requests', requests, instances')
    BY <2>1, FinishThenPromoteTended
  <2>3. OnePerInstance(requests') /\ Marked(requests')
    BY <2>2, SameOwnersKeep DEF SessionInv, TendedFrom
  <2>4. Marked(requests)'
    <3>1. \A s \in committing' : \E c \in inflight' : c[1] = s
      <4> TAKE s \in committing'
      <4>1. PICK c \in inflight : c[1] = s
        BY <2>1, <2>3 DEF Marked
      <4>2. c # <<r, lock>>
        BY <2>1, <4>1
      <4> QED
        BY <2>1, <4>1, <4>2
    <3> QED
      BY <2>1, <2>3, <3>1 DEF Marked
  <2> QED
    BY <2>1, <2>2, <2>3, <2>4 DEF SessionInv, TendedFrom, SharedAreBound, Live
<1>3. ASSUME NEW r \in Requests, NEW lock \in Locks,
             AbortCommit(r, lock) \/ RefuseCommit(r, lock)
      PROVE  SessionInv'
  <2>1. /\ inflight' \in {inflight, inflight \ {<<r, lock>>}}
        /\ committing' = committing \ {r}
        /\ UNCHANGED <<requests, instances, bound>>
    BY <1>3 DEF AbortCommit, RefuseCommit, ledger
  <2>2. Marked(requests)'
    <3>1. \A s \in committing' : \E c \in inflight' : c[1] = s
      <4> TAKE s \in committing'
      <4>1. PICK c \in inflight : c[1] = s
        BY <2>1 DEF SessionInv, Marked
      <4>2. c # <<r, lock>>
        BY <2>1, <4>1
      <4> QED
        BY <2>1, <4>1, <4>2
    <3> QED
      BY <2>1, <3>1 DEF SessionInv, Marked, Unclaimed, IsFiles
  <2> QED
    BY <2>1, <2>2, MarksStep
<1>4. CASE Sweep
  <2> DEFINE detached == DetachAll(requests, Silent, FALSE, committing)
             swept == SweepRows(detached, jumped \/ behind, committing)
  <2>1. /\ requests' = Promote(swept, Connected(instances'))
        /\ UNCHANGED <<bound, underway>>
        /\ \A i \in Instances : instances'[i] = IF i \in Silent THEN Close(instances[i])
                                                ELSE instances[i]
    BY <1>4 DEF Sweep, ledger
  <2>2. Without(instances', Silent, instances)
    BY <2>1 DEF Without, Close, Inv, ScalarsOK
  <2>3. TendedFrom(detached, requests, instances')
    BY <2>2, DetachAllTended DEF SessionInv
  <2> HIDE DEF detached
  <2>4. TendedFrom(swept, detached, instances')
    BY <2>3, SweepRowsTended DEF TendedFrom
  <2> HIDE DEF swept
  <2>5. TendedFrom(requests', swept, instances')
    BY <2>1, <2>4, PromoteTended DEF TendedFrom
  <2>6. TendedFrom(requests', requests, instances')
    BY <2>3, <2>4, <2>5, TendedThen DEF TendedFrom
  <2>7. SharedAreBound'
    <3>1. \A i \in Instances : instances'[i].active =>
            instances[i].active /\ instances'[i].ident = instances[i].ident
      BY <2>1, <2>2 DEF Without
    <3> QED
      BY <2>1, <3>1, SharedKept DEF SessionInv
  <2> QED
    BY <2>1, <2>6, <2>7, TendedStep
<1>5. CASE FailedSweep
  BY <1>5 DEF FailedSweep, ledger, underway, SessionInv, RowsTended, Marked, SharedAreBound, Live
<1>6. CASE Restart
  <2>1. /\ \A i \in Instances : ~instances'[i].active
        /\ requests' = [r \in DOMAIN requests |-> Recover(requests[r])]
        /\ committing' = {} /\ inflight' = {}
    BY <1>6 DEF Restart, Close, Inv, ScalarsOK
  <2>2. \A r \in DOMAIN requests :
          /\ requests[r] \in Row /\ Tasked(requests[r]) /\ requests[r].inst \in Instances
    BY DEF SessionInv, RowsTended, Tended, Row
  <2>3. \A r \in DOMAIN requests :
          Tended(requests'[r], instances') /\ SameOwner(requests'[r], requests[r])
    BY <2>1, <2>2, RecoverTended
  <2>4. TendedFrom(requests', requests, instances')
    BY <2>1, <2>3 DEF TendedFrom, RowsTended, SameOwners
  <2>5. OnePerInstance(requests')
    BY <2>4, SameOwnersKeep DEF SessionInv, TendedFrom
  <2> QED
    BY <2>1, <2>4, <2>5 DEF SessionInv, TendedFrom, Marked, SharedAreBound, Live
<1> QED
  BY <1>1, <1>2, <1>3, <1>4, <1>5, <1>6 DEF DaemonStep

LEMMA ClockStepTended ==
  ASSUME Inv, SessionInv, ClockStep
  PROVE  SessionInv'
<1>1. CASE Tick
  <2>1. /\ requests' = [r \in DOMAIN requests |-> Age(requests[r])]
        /\ \A i \in Instances : /\ instances'[i].active = instances[i].active
                                /\ instances'[i].ident = instances[i].ident
        /\ UNCHANGED <<bound, underway>>
    BY <1>1 DEF Tick, ledger, Inv, ScalarsOK
  <2>2. RowsTended(requests, instances')
    BY <2>1, SameRows DEF SessionInv
  <2>3. TendedFrom(requests', requests, instances')
    BY <2>1, <2>2, AgeTended DEF TendedFrom, RowsTended, SameOwners
  <2>4. SharedAreBound'
    BY <2>1, SharedKept DEF SessionInv
  <2> QED
    BY <2>1, <2>3, <2>4, TendedStep
<1>2. CASE ClockJump \/ WallCatchesUp
  BY <1>2 DEF ClockJump, WallCatchesUp, ledger, underway, SessionInv, RowsTended, Marked,
              SharedAreBound, Live
<1> QED
  BY <1>1, <1>2 DEF ClockStep

LEMMA InitTended == Init => SessionInv
  BY DEF Init, SessionInv, RowsTended, OnePerInstance, SharedAreBound, Marked, Live

LEMMA SessionStep == Inv /\ SessionInv /\ [Next]_vars => SessionInv'
<1> SUFFICES ASSUME Inv, SessionInv, [Next]_vars PROVE SessionInv'
  OBVIOUS
<1>1. CASE Next
  BY <1>1, InstanceStepTended, RequestStepTended, TaskStepTended, TurnStepTended, DaemonStepTended,
     ClockStepTended DEF Next
<1>2. CASE UNCHANGED vars
  BY <1>2 DEF vars, SessionInv, RowsTended, OnePerInstance, SharedAreBound, Marked, Live
<1> QED
  BY <1>1, <1>2

\* In every run rows and sessions stay in order.
THEOREM SessionsInvariant == Spec => [](Inv /\ SessionInv)
<1>1. Init => Inv /\ SessionInv
  BY InitInv, InitTended DEF Inv
<1>2. Inv /\ SessionInv /\ [Next]_vars => (Inv /\ SessionInv)'
  BY StepSound, SessionStep
<1> QED
  BY <1>1, <1>2, PTL DEF Spec

\* Nobody waits for the dead, whatever the number of sessions and whenever they are lost, come
\* back or are swept: an offer, a ready turn and any file request belong to a live instance,
\* and a queued request has a deadline exactly while its instance is gone.
THEOREM DeadAreNotWaitedFor == Spec => []DeadHoldNothing
<1>1. SessionInv => DeadHoldNothing
  BY DEF SessionInv, RowsTended, Tended, Attached, DeadHoldNothing, Live
<1> QED
  BY <1>1, SessionsInvariant, PTL

\* A finished request's row is never due before its task's, which refers to it, however polls and
\* their failures fall between commits, cancels and sweeps: but where a poll failed the task of a
\* turn that was claimed past it and committed.
THEOREM RowsOutliveTasks == Spec => []OnlyLateFailuresHoldUp
<1>1. SessionInv => OnlyLateFailuresHoldUp
  BY DEF SessionInv, RowsTended, Tended, Tasked, OnlyLateFailuresHoldUp
<1> QED
  BY <1>1, SessionsInvariant, PTL

\* Renames, reconnects and takeovers never separate an active request from its owner, and two
\* live instances have one identity only if a host session is bound to it.
THEOREM OwnersStay == Spec => []OwnersKeepIdentity
<1>1. SessionInv => OwnersKeepIdentity
  BY DEF SessionInv, RowsTended, Tended, OwnedBy, SharedAreBound, OwnersKeepIdentity, Live
<1> QED
  BY <1>1, SessionsInvariant, PTL

\* An instance never has two active requests of one kind, also after a takeover: the unique
\* indexes one_content_request and one_file_request have nothing to refuse.
THEOREM OneRequestEach == Spec => []OneRequestPerInstance
<1>1. SessionInv => OneRequestPerInstance
  BY DEF SessionInv, OnePerInstance, OneRequestPerInstance
<1> QED
  BY <1>1, SessionsInvariant, PTL

----------------------------------------------------------------------------
(***************************************************************************)
(* Nothing waits for a sweep.  A promotion leaves nothing that could be    *)
(* promoted, and what is not followed by one frees nothing.                *)
(***************************************************************************)
LEMMA PromoteSettles ==
  ASSUME NEW rq, IsTable(rq), NEW live, ~behind
  PROVE  Settled(Promote(rq, live), live)
<1>1. \A r \in DOMAIN rq : rq[r].target \in Targets
  BY DEF IsTable, Row
<1>2. Settled(PromoteRequests(rq, live), live)
  BY <1>1, PromoteAmongSettles DEF PromoteRequests
<1>3. Promote(rq, live) = PromoteRequests(rq, live)
  BY DEF Promote, PromoteRequests, PromoteAmong
<1> QED
  BY <1>2, <1>3

\* A change that frees nothing and puts nothing into the queue.
Holds(new, old) ==
  /\ DOMAIN new = DOMAIN old
  /\ \A r \in DOMAIN old :
       /\ new[r].target = old[r].target /\ new[r].seq = old[r].seq
       /\ new[r].inst = old[r].inst
       /\ Reserved(old[r]) => Reserved(new[r])
       /\ new[r].state = "QUEUED" <=> old[r].state = "QUEUED"

LEMMA HoldsSettled ==
  ASSUME NEW new, NEW old, Holds(new, old), NEW live, Settled(old, live)
  PROVE  Settled(new, live)
  BY DEF Holds, Settled, Promotable, Overlap

LEMMA MaterializeHolds ==
  ASSUME NEW q \in Row
  PROVE  LET new == Materialize(q)
         IN /\ new.target = q.target /\ new.seq = q.seq /\ new.inst = q.inst
            /\ Reserved(q) => Reserved(new)
            /\ new.state = "QUEUED" <=> q.state = "QUEUED"
  BY DEF Materialize, Row, Reserved

LEMMA GrantedHolds ==
  ASSUME NEW rq, IsTable(rq), NEW r \in DOMAIN rq
  PROVE  Holds(GrantedAtOnce(rq, r), rq)
<1> DEFINE made == Materialize(rq[r])
           row == [made EXCEPT !.mode = "ticket", !.task = "none", !.taskLeft = 0]
<1>1. rq[r] \in Row
  BY DEF IsTable
<1>2. made \in Row
  BY <1>1, MaterializeCalm DEF CalmRow
<1>3. /\ made.target = rq[r].target /\ made.seq = rq[r].seq /\ made.inst = rq[r].inst
      /\ Reserved(rq[r]) => Reserved(made)
      /\ made.state = "QUEUED" <=> rq[r].state = "QUEUED"
  BY <1>1, MaterializeHolds
<1> HIDE DEF made
<1>4. /\ row.target = made.target /\ row.seq = made.seq /\ row.inst = made.inst
      /\ row.state = made.state
  BY <1>2 DEF Row
<1>5. GrantedAtOnce(rq, r) = rq \/ GrantedAtOnce(rq, r) = [rq EXCEPT ![r] = row]
  BY DEF GrantedAtOnce, made
<1> HIDE DEF row
<1>6. Holds([rq EXCEPT ![r] = row], rq)
  BY <1>3, <1>4 DEF Holds, Reserved
<1>7. Holds(rq, rq)
  BY DEF Holds
<1> QED
  BY <1>5, <1>6, <1>7

\* No content request overlaps a file request.
LEMMA FilesApart ==
  ASSUME NEW p \in Row, NEW q \in Row, IsFiles(p), ~IsFiles(q)
  PROVE  ~Overlap(p, q)
  BY TargetsAssumption DEF Overlap, IsFiles, Row, Targets

\* What happens to a file request leaves the content requests as they were.
LEMMA FileRowApart ==
  ASSUME NEW old, NEW new, IsTable(old), IsTable(new), NEW live, Settled(old, live),
         DOMAIN old \subseteq DOMAIN new, NEW r \in DOMAIN new, IsFiles(new[r]),
         DOMAIN new \subseteq DOMAIN old \cup {r},
         r \in DOMAIN old => IsFiles(old[r]),
         \A s \in DOMAIN old : s # r => new[s] = old[s]
  PROVE  \A s \in DOMAIN new : new[s].target \notin FileTargets => ~Promotable(new, live, s)
<1> SUFFICES ASSUME NEW s \in DOMAIN new, ~IsFiles(new[s]), Promotable(new, live, s)
             PROVE  FALSE
  BY DEF IsFiles
<1>1. s # r /\ s \in DOMAIN old /\ new[s] = old[s]
  OBVIOUS
<1>2. \A o \in DOMAIN old : old[o] \in Row
  BY DEF IsTable
<1>3. \A o \in DOMAIN old \ {s} :
        Overlap(old[o], old[s]) => o # r /\ new[o] = old[o]
  BY <1>1, <1>2, FilesApart
<1>4. Promotable(old, live, s)
  BY <1>1, <1>3 DEF Promotable
<1> QED
  BY <1>1, <1>4 DEF Settled

Punctual == ~jumped /\ ~behind /\ Settled(requests, Connected(instances))

\* A transaction that ends in a promotion.
LEMMA PromotedPunctual ==
  ASSUME Punctual, NEW rq, IsTable(rq), requests' = Promote(rq, Connected(instances')),
         ~jumped', UNCHANGED behind
  PROVE  Punctual'
  BY PromoteSettles DEF Punctual

LEMMA HeldPunctual ==
  ASSUME Punctual, Holds(requests', requests), Connected(instances') = Connected(instances),
         ~jumped', UNCHANGED behind
  PROVE  Punctual'
  BY HoldsSettled DEF Punctual

\* A calm change leaves a table.
LEMMA CalmTable ==
  ASSUME NEW rq, NEW old, Calm(rq, old)
  PROVE  IsTable(old) => IsTable(rq)
  BY DEF Calm, CalmRow, IsTable

LEMMA FinishTable ==
  ASSUME NEW rq, IsTable(rq), NEW r \in DOMAIN rq, NEW final \in FinalStates
  PROVE  IsTable([rq EXCEPT ![r] = Finish(@, final)])
<1>1. rq[r] \in Row
  BY DEF IsTable
<1>2. CalmRow(Finish(rq[r], final), rq[r])
  BY <1>1, FinishCalm
<1>3. Calm([rq EXCEPT ![r] = Finish(rq[r], final)], rq)
  BY <1>2, OneRowCalm
<1> QED
  BY <1>3, CalmTable

LEMMA PunctualStep ==
  ASSUME ~ClockMayJump, Inv, Punctual, [Next]_vars
  PROVE  Punctual'
<1>0. /\ IsTable(requests) /\ \A r \in DOMAIN requests : requests[r] \in Row
      /\ ~jumped /\ ~behind /\ Settled(requests, Connected(instances))
  BY DEF Inv, TableInv, Sound, IsTable, Punctual
<1>1. ASSUME NEW i \in Instances, InstanceStep(i) PROVE Punctual'
  <2>1. ASSUME NEW d \in Identities, NEW session \in BOOLEAN, Open(i, d, session)
        PROVE  Punctual'
    <3>1. PICK rq \in Rebound(requests, i, d) : requests' = Promote(rq, Connected(instances'))
      BY <2>1 DEF Open
    <3>2. IsTable(rq)
      <4>1. ASSUME NEW r \in DOMAIN requests,
                   rq = [requests EXCEPT ![r] = [@ EXCEPT !.inst = i, !.reconnect = NoDeadline]]
            PROVE  IsTable(rq)
        <5>1. [requests[r] EXCEPT !.inst = i, !.reconnect = NoDeadline] \in Row
          BY <1>0 DEF Row
        <5> QED
          BY <1>0, <4>1, <5>1 DEF IsTable
      <4> QED
        BY <1>0, <3>1, <4>1 DEF Rebound, Rebindable
    <3> QED
      BY <1>0, <2>1, <3>1, <3>2, PromotedPunctual DEF Open, clock
  <2>2. ASSUME NEW d \in Identities, RequestName(i, d) PROVE Punctual'
    BY <1>0, <2>2, PromotedPunctual DEF RequestName, clock
  <2>3. CASE Heartbeat(i)
    <3>1. Connected(instances') = Connected(instances)
      BY <2>3 DEF Heartbeat, Connected, Inv, ScalarsOK
    <3> QED
      BY <1>0, <2>3, <3>1 DEF Heartbeat, clock, Punctual
  <2>4. ASSUME NEW clean \in BOOLEAN, Disconnect(i, clean) PROVE Punctual'
    <3>1. IsTable(DetachAll(requests, {i}, clean, committing))
      BY <1>0, DetachAllCalm, CalmTable
    <3> QED
      BY <1>0, <2>4, <3>1, PromotedPunctual DEF Disconnect, clock
  <2> QED
    BY <1>1, <2>1, <2>2, <2>3, <2>4 DEF InstanceStep
<1>2. ASSUME NEW i \in Instances, NEW r \in Requests, RequestStep(i, r) PROVE Punctual'
  <2>1. ASSUME NEW t \in ContentTargets, NEW mode \in Modes, RequestResourceTurn(i, r, t, mode)
        PROVE  Punctual'
    <3> DEFINE n == queueSeq[t] + 1
               table == Insert(requests, r, NewRow(i, t, n, mode))
               promoted == Promote(table, Connected(instances))
    <3>0. n \in Nat /\ queueSeq'[t] = n /\ queueSeq' = [queueSeq EXCEPT ![t] = n]
      BY <2>1 DEF RequestResourceTurn, Inv, ScalarsOK
    <3>1. /\ r \notin DOMAIN requests /\ requests' = GrantedAtOnce(promoted, r)
          /\ UNCHANGED <<instances, clock>>
      BY <2>1, <3>0 DEF RequestResourceTurn, Fresh
    <3>2. Sound(table, queueSeq', fileSeq, fence, revision)
      BY <3>0, <3>1, InsertSound, TargetsAssumption, BoundsAssumption DEF Targets, Inv
    <3>3. r \in DOMAIN promoted
      BY DEF Promote, Insert
    <3> HIDE DEF table
    <3>4. IsTable(table) /\ IsTable(promoted)
      BY <3>2, PromoteAllSound DEF Sound
    <3>5. Settled(promoted, Connected(instances))
      BY <1>0, <3>4, PromoteSettles
    <3> HIDE DEF promoted
    <3>6. Settled(requests', Connected(instances))
      BY <3>1, <3>3, <3>4, <3>5, GrantedHolds, HoldsSettled
    <3> QED
      BY <1>0, <3>1, <3>6 DEF Punctual, clock
  <2>2. ASSUME NEW t \in FileTargets, NEW mode \in Modes, RequestFileTurn(i, r, t, mode)
        PROVE  Punctual'
    <3> DEFINE n == fileSeq + 1
               row == NewRow(i, t, n, mode)
               table == Insert(requests, r, row)
               promoted == PromoteFileRequests(table, Connected(instances))
    <3>0. n \in Nat /\ fileSeq' = n
      BY <2>2 DEF RequestFileTurn, Inv, ScalarsOK
    <3>1. /\ r \notin DOMAIN requests /\ requests' = GrantedAtOnce(promoted, r)
          /\ UNCHANGED <<instances, clock>>
      BY <2>2, <3>0 DEF RequestFileTurn, Fresh
    <3>2. Sound(table, queueSeq, fileSeq', fence, revision)
      BY <3>0, <3>1, InsertSound, TargetsAssumption, BoundsAssumption DEF Targets, Inv
    <3>3. r \in DOMAIN promoted
      BY DEF PromoteFileRequests, PromoteAmong, Insert
    <3>4. /\ DOMAIN table = DOMAIN requests \cup {r} /\ IsFiles(table[r])
          /\ \A s \in DOMAIN requests : s # r => table[s] = requests[s]
      BY <3>1 DEF Insert, NewRow, IsFiles
    <3> HIDE DEF table, row
    <3>5. IsTable(table) /\ IsTable(promoted)
      BY <3>2, PromoteSound DEF Sound, PromoteFileRequests
    <3>6. \A s \in DOMAIN table :
            table[s].target \notin FileTargets => ~Promotable(table, Connected(instances), s)
      BY <1>0, <3>1, <3>4, <3>5, FileRowApart
    <3>7. Settled(promoted, Connected(instances))
      BY <3>5, <3>6, PromoteAmongSettles DEF PromoteFileRequests
    <3> HIDE DEF promoted
    <3>8. Settled(requests', Connected(instances))
      BY <3>1, <3>3, <3>5, <3>7, GrantedHolds, HoldsSettled
    <3> QED
      BY <1>0, <3>1, <3>8 DEF Punctual, clock
  <2>3. CASE Status(i, r)
    <3>1. /\ r \in DOMAIN requests
          /\ requests' = [requests EXCEPT ![r] = Materialize(requests[r])]
          /\ UNCHANGED <<instances, clock>>
      BY <2>3 DEF Status, Owns
    <3>2. Holds(requests', requests)
      BY <1>0, <3>1, MaterializeHolds DEF Holds
    <3> QED
      BY <1>0, <3>1, <3>2, HeldPunctual DEF clock
  <2>4. CASE EnsureTurnTask(i, r)
    <3> DEFINE row == [requests[r] EXCEPT !.mode = "task", !.task = "working",
                                          !.taskLeft = requests[r].left]
    <3>1. /\ r \in DOMAIN requests /\ requests' = [requests EXCEPT ![r] = row]
          /\ UNCHANGED <<instances, clock>>
      BY <2>4 DEF EnsureTurnTask, Owns
    <3>2. /\ row.target = requests[r].target /\ row.seq = requests[r].seq
          /\ row.inst = requests[r].inst /\ row.state = requests[r].state
      BY <1>0, <3>1 DEF Row
    <3> HIDE DEF row
    <3>3. Holds(requests', requests)
      BY <3>1, <3>2 DEF Holds, Reserved
    <3> QED
      BY <1>0, <3>1, <3>3, HeldPunctual DEF clock
  <2>5. CASE CancelTurnRequest(i, r)
    <3> DEFINE table == IF Active(requests[r])
                          THEN [requests EXCEPT ![r] = Finish(@, "CANCELLED")] ELSE requests
    <3>1. /\ r \in DOMAIN requests /\ requests' = Promote(table, Connected(instances))
          /\ UNCHANGED <<instances, clock>>
      BY <2>5 DEF CancelTurnRequest, Owns
    <3>2. IsTable([requests EXCEPT ![r] = Finish(@, "CANCELLED")])
      BY <1>0, <3>1, FinishTable
    <3>3. IsTable(table)
      BY <1>0, <3>2
    <3> HIDE DEF table
    <3> QED
      BY <1>0, <3>1, <3>3, PromotedPunctual DEF clock
  <2> QED
    BY <1>2, <2>1, <2>2, <2>3, <2>4, <2>5 DEF RequestStep
<1>3. ASSUME NEW i \in Instances, NEW r \in Requests, TurnStep(i, r) PROVE Punctual'
  <2>1. CASE ClaimContentTurn(i, r) \/ ClaimFiles(i, r)
    <3>1. /\ r \in DOMAIN requests /\ requests[r].state = "OFFERED"
          /\ UNCHANGED <<instances, clock>>
          /\ DOMAIN requests' = DOMAIN requests
          /\ \A s \in DOMAIN requests : s # r => requests'[s] = requests[s]
      BY <2>1 DEF ClaimContentTurn, ClaimFiles, Offered
    <3>2. /\ requests'[r].state = "CLAIMED" /\ requests'[r].inst = requests[r].inst
          /\ requests'[r].target = requests[r].target /\ requests'[r].seq = requests[r].seq
      <4>1. requests[r] \in Row
        BY <1>0, <3>1
      <4>2. CASE ClaimContentTurn(i, r)
        BY <3>1, <4>1, <4>2 DEF ClaimContentTurn, Row
      <4>3. CASE ClaimFiles(i, r)
        BY <3>1, <4>1, <4>3 DEF ClaimFiles, Row
      <4> QED
        BY <2>1, <4>2, <4>3
    <3>3. Holds(requests', requests)
      BY <3>1, <3>2 DEF Holds, Reserved
    <3> QED
      BY <1>0, <3>1, <3>3, HeldPunctual DEF clock
  <2>2. CASE ReleaseTurn(i, r)
    <3>1. IsTable([requests EXCEPT ![r] = Finish(@, "RELEASED")])
      BY <1>0, <2>2, FinishTable DEF ReleaseTurn, Claimed, Owns
    <3> QED
      BY <1>0, <2>2, <3>1, PromotedPunctual DEF ReleaseTurn, clock
  <2>3. CASE ReleaseFiles(i, r)
    <3> DEFINE table == [requests EXCEPT ![r] = Finish(@, "RELEASED")]
    <3>1. /\ r \in DOMAIN requests /\ IsFiles(requests[r])
          /\ requests' = PromoteFileRequests(table, Connected(instances))
          /\ UNCHANGED <<instances, clock>>
      BY <2>3 DEF ReleaseFiles, Owns
    <3>2. IsTable(table)
      BY <1>0, <3>1, FinishTable
    <3>3. Finish(requests[r], "RELEASED").target = requests[r].target
      BY <1>0, <3>1, FinishCalm DEF CalmRow
    <3>4. /\ DOMAIN table = DOMAIN requests /\ IsFiles(table[r])
          /\ \A s \in DOMAIN requests : s # r => table[s] = requests[s]
      BY <3>1, <3>3 DEF IsFiles
    <3> HIDE DEF table
    <3>5. \A s \in DOMAIN table :
            table[s].target \notin FileTargets => ~Promotable(table, Connected(instances), s)
      BY <1>0, <3>1, <3>2, <3>4, FileRowApart
    <3>6. Settled(requests', Connected(instances))
      BY <3>1, <3>2, <3>5, PromoteAmongSettles DEF PromoteFileRequests
    <3> QED
      BY <1>0, <3>1, <3>6 DEF Punctual, clock
  <2>4. ASSUME NEW lock \in Locks, StartCommit(i, r, lock) PROVE Punctual'
    BY <1>0, <2>4 DEF StartCommit, clock, Punctual
  <2> QED
    BY <1>3, <2>1, <2>2, <2>3, <2>4 DEF TurnStep
<1>4. CASE DaemonStep
  <2>1. ASSUME NEW r \in Requests, ForceRelease(r) PROVE Punctual'
    <3>1. IsTable([requests EXCEPT ![r] = Finish(@, "RELEASED")])
      BY <1>0, <2>1, FinishTable DEF ForceRelease
    <3> QED
      BY <1>0, <2>1, <3>1, PromotedPunctual DEF ForceRelease, clock
  <2>2. ASSUME NEW r \in Requests, NEW lock \in Locks, FinishCommit(r, lock) PROVE Punctual'
    <3>1. IsTable([requests EXCEPT ![r] = Finish(@, "COMMITTED")])
      BY <1>0, <2>2, FinishTable DEF FinishCommit
    <3> QED
      BY <1>0, <2>2, <3>1, PromotedPunctual DEF FinishCommit, clock
  <2>3. ASSUME NEW r \in Requests, NEW lock \in Locks,
               AbortCommit(r, lock) \/ RefuseCommit(r, lock)
        PROVE  Punctual'
    BY <1>0, <2>3 DEF AbortCommit, RefuseCommit, clock, Punctual
  <2>4. CASE Sweep
    <3> DEFINE detached == DetachAll(requests, Silent, FALSE, committing)
               swept == SweepRows(detached, jumped \/ behind, committing)
    <3>1. requests' = Promote(swept, Connected(instances')) /\ ~jumped' /\ UNCHANGED behind
      BY <2>4 DEF Sweep
    <3>2. IsTable(detached)
      BY <1>0, DetachAllCalm, CalmTable
    <3>3. (jumped \/ behind) \in BOOLEAN
      BY DEF Inv, ScalarsOK
    <3> HIDE DEF detached
    <3>4. IsTable(swept)
      BY <3>2, <3>3, SweepRowsCalm, CalmTable
    <3> HIDE DEF swept
    <3> QED
      BY <1>0, <3>1, <3>4, PromotedPunctual
  <2>5. CASE FailedSweep
    BY <1>0, <2>5 DEF FailedSweep
  <2>6. CASE Restart
    <3>1. Connected(instances') = {} /\ ~jumped' /\ UNCHANGED behind
      BY <2>6 DEF Restart, Connected, Close, Inv, ScalarsOK
    <3> QED
      BY <1>0, <3>1 DEF Punctual, Settled, Promotable
  <2> QED
    BY <1>4, <2>1, <2>2, <2>3, <2>4, <2>5, <2>6 DEF DaemonStep
<1>5. CASE ClockStep
  <2>1. CASE Tick
    <3>1. \A r \in DOMAIN requests :
            LET q == requests[r] IN
              /\ Age(q).target = q.target /\ Age(q).seq = q.seq /\ Age(q).inst = q.inst
              /\ Age(q).state = q.state
      BY <1>0 DEF Age, Row
    <3>2. requests' = [r \in DOMAIN requests |-> Age(requests[r])] /\ UNCHANGED clock
      BY <2>1 DEF Tick
    <3>3. Holds(requests', requests)
      BY <3>1, <3>2 DEF Holds, Reserved
    <3>4. Connected(instances') = Connected(instances)
      <4>1. \A i \in Instances : instances'[i].active = instances[i].active
        BY <2>1 DEF Tick, Inv, ScalarsOK
      <4> QED
        BY <4>1 DEF Connected
    <3> QED
      BY <1>0, <3>2, <3>3, <3>4, HeldPunctual DEF clock
  <2>2. CASE ClockJump \/ WallCatchesUp
    BY <1>0, <2>2 DEF ClockJump, WallCatchesUp
  <2> QED
    BY <1>5, <2>1, <2>2 DEF ClockStep
<1>6. ASSUME NEW i \in Instances, NEW r \in Requests, TaskStep(i, r) PROVE Punctual'
  <2>0. /\ UNCHANGED <<instances, jumped, behind>>
        /\ EndPoll(i, r) \/ r \in DOMAIN requests
    BY <1>6 DEF TaskStep, PollTask, CompleteTask, FailTask, EndPoll, CancelTask, Working, Owns,
                clock
  <2>1. r \in DOMAIN requests =>
          LET q == requests[r]
              done == WithTask(q, "completed")
          IN done.target = q.target /\ done.seq = q.seq /\ done.inst = q.inst
             /\ done.state = q.state
    BY <1>0 DEF WithTask, Row
  <2>2. r \in DOMAIN requests =>
          /\ Holds([requests EXCEPT ![r] = WithTask(@, "completed")], requests)
          /\ Holds([requests EXCEPT ![r] = Materialize(@)], requests)
    BY <1>0, <2>1, MaterializeHolds DEF Holds, Reserved
  <2>3. CASE PollTask(i, r)
    <3>1. \/ requests' = [requests EXCEPT ![r] = WithTask(@, "completed")]
          \/ requests' = [requests EXCEPT ![r] = Materialize(@)]
      BY <2>3 DEF PollTask
    <3>2. Holds(requests', requests)
      BY <2>0, <2>2, <2>3, <3>1 DEF PollTask, Working, Owns
    <3> QED
      BY <1>0, <2>0, <3>2, HeldPunctual
  <2>4. CASE CompleteTask(i, r)
    <3>1. Holds(requests', requests)
      BY <2>2, <2>4 DEF CompleteTask, Working, Owns
    <3> QED
      BY <1>0, <2>0, <3>1, HeldPunctual
  <2>5. CASE FailTask(i, r)
    <3> DEFINE row == IF Active(requests[r]) THEN Finish(requests[r], "FAILED")
                      ELSE WithTask(requests[r], "failed")
               table == [requests EXCEPT ![r] = row]
    <3>1. r \in DOMAIN requests /\ requests' = Promote(table, Connected(instances))
      BY <2>5 DEF FailTask, Working, Owns
    <3>2. CalmRow(row, requests[r])
      BY <1>0, <3>1, FinishCalm, WithTaskCalm
    <3> HIDE DEF row
    <3>3. IsTable(table)
      BY <1>0, <3>1, <3>2, OneRowCalm, CalmTable
    <3> HIDE DEF table
    <3> QED
      BY <1>0, <2>0, <3>1, <3>3, PromotedPunctual
  <2>6. CASE EndPoll(i, r)
    BY <1>0, <2>6, <2>0 DEF EndPoll, Punctual
  <2>7. CASE CancelTask(i, r)
    <3> DEFINE ends == /\ requests[r].task = "working"
                       /\ requests[r].state \in {"QUEUED", "READY", "OFFERED"}
               table == IF ends THEN [requests EXCEPT ![r] = Finish(@, "CANCELLED")]
                        ELSE requests
    <3>1. r \in DOMAIN requests /\ requests' = Promote(table, Connected(instances))
      BY <2>7 DEF CancelTask, Owns
    <3>2. IsTable([requests EXCEPT ![r] = Finish(@, "CANCELLED")])
      BY <1>0, <3>1, FinishTable
    <3>3. IsTable(table)
      BY <1>0, <3>2
    <3> HIDE DEF table
    <3> QED
      BY <1>0, <2>0, <3>1, <3>3, PromotedPunctual
  <2> QED
    BY <1>6, <2>3, <2>4, <2>5, <2>6, <2>7 DEF TaskStep
<1>7. CASE UNCHANGED vars
  BY <1>0, <1>7 DEF vars, Punctual
<1> QED
  BY <1>1, <1>2, <1>3, <1>4, <1>5, <1>6, <1>7 DEF Next

\* As long as the clock does not jump, every transaction that frees a target, brings a session
\* back or puts a request at the head of its queue also hands the turn on: no request that
\* could go next waits for a sweep.  With the clock behind, promotion expires what it makes
\* available and the next request waits for the sweep that follows.
THEOREM NothingWaitsForASweep ==
  ASSUME ~ClockMayJump
  PROVE  Spec => []WorkConserving
<1>1. Init => Inv /\ Punctual
  BY InitInv DEF Init, Inv, Punctual, Settled
<1>2. Inv /\ Punctual /\ [Next]_vars => (Inv /\ Punctual)'
  BY StepSound, PunctualStep
<1>3. Punctual => WorkConserving
  BY DEF Punctual, Settled, WorkConserving
<1> QED
  BY <1>1, <1>2, <1>3, PTL DEF Spec

----------------------------------------------------------------------------
(***************************************************************************)
(* A commit in flight keeps its turn while it is marked, and only the ends *)
(* of commit calls of its own turn take marks off.                         *)
(***************************************************************************)

\* Promotion leaves what is claimed alone.
LEMMA PromoteKeepsClaim ==
  ASSUME NEW rq, NEW live, NEW r \in DOMAIN rq, rq[r].state = "CLAIMED"
  PROVE  /\ r \in DOMAIN Promote(rq, live) /\ Promote(rq, live)[r] = rq[r]
         /\ r \in DOMAIN PromoteFileRequests(rq, live) /\ PromoteFileRequests(rq, live)[r] = rq[r]
<1>1. ASSUME NEW targets
      PROVE  /\ r \in DOMAIN PromoteAmong(targets, rq, live)
             /\ PromoteAmong(targets, rq, live)[r] = rq[r]
  BY DEF PromoteAmong, Promotable
<1>2. PromoteRequests(rq, live)[r] = rq[r]
  BY <1>1 DEF PromoteRequests
<1>3. r \in DOMAIN Promote(rq, live) /\ Promote(rq, live)[r] = rq[r]
  BY <1>2 DEF Promote
<1> QED
  BY <1>1, <1>3 DEF PromoteFileRequests

LEMMA ClaimsKept ==
  ASSUME Inv, NEW r \in committing, r \in DOMAIN requests, requests[r].state = "CLAIMED",
         ~IsFiles(requests[r]), r \in DOMAIN requests', requests'[r].state # "CLAIMED", Next
  PROVE  EndedByOwner(r)
<1>0. \A s \in DOMAIN requests : requests[s] \in Row
  BY DEF Inv, TableInv, Sound, IsTable
<1>1. ASSUME NEW rq, NEW live, r \in DOMAIN rq, rq[r] = requests[r],
             requests' = Promote(rq, live) \/ requests' = PromoteFileRequests(rq, live)
      PROVE  FALSE
  BY <1>1, PromoteKeepsClaim
<1>2. ASSUME NEW s \in DOMAIN requests, s # r, NEW final, NEW live,
             \/ requests' = Promote([requests EXCEPT ![s] = Finish(@, final)], live)
             \/ requests' = PromoteFileRequests([requests EXCEPT ![s] = Finish(@, final)], live)
      PROVE  FALSE
  <2> DEFINE rq == [requests EXCEPT ![s] = Finish(@, final)]
  <2>1. r \in DOMAIN rq /\ rq[r] = requests[r]
    BY <1>2
  <2> HIDE DEF rq
  <2> QED
    BY <1>1, <1>2, <2>1 DEF rq
<1>3. ASSUME NEW i \in Instances, InstanceStep(i) PROVE FALSE
  <2>1. ASSUME NEW d \in Identities, NEW session \in BOOLEAN, Open(i, d, session) PROVE FALSE
    <3>1. PICK rq \in Rebound(requests, i, d) : requests' = Promote(rq, Connected(instances'))
      BY <2>1 DEF Open
    <3>2. r \notin Rebindable(requests, d)
      BY DEF Rebindable
    <3>3. r \in DOMAIN rq /\ rq[r] = requests[r]
      BY <3>1, <3>2 DEF Rebound
    <3> QED
      BY <1>1, <3>1, <3>3
  <2>2. ASSUME NEW d \in Identities, RequestName(i, d) PROVE FALSE
    BY <1>1, <2>2 DEF RequestName
  <2>3. CASE Heartbeat(i)
    BY <2>3 DEF Heartbeat
  <2>4. ASSUME NEW clean \in BOOLEAN, Disconnect(i, clean) PROVE FALSE
    <3>1. requests' = Promote(DetachAll(requests, {i}, clean, committing), Connected(instances'))
      BY <2>4 DEF Disconnect
    <3>2. Detach(requests[r], clean, TRUE) = requests[r]
      BY DEF Detach
    <3>3. /\ r \in DOMAIN DetachAll(requests, {i}, clean, committing)
          /\ DetachAll(requests, {i}, clean, committing)[r] = requests[r]
      BY <3>2 DEF DetachAll
    <3> QED
      BY <1>1, <3>1, <3>3
  <2> QED
    BY <1>3, <2>1, <2>2, <2>3, <2>4 DEF InstanceStep
<1>4. ASSUME NEW i \in Instances, NEW s \in Requests, RequestStep(i, s) PROVE FALSE
  <2>1. ASSUME NEW t \in ContentTargets, NEW mode \in Modes, RequestResourceTurn(i, s, t, mode)
        PROVE  FALSE
    <3> DEFINE table == Insert(requests, s, NewRow(i, t, queueSeq'[t], mode))
               promoted == Promote(table, Connected(instances))
    <3>1. s # r /\ requests' = GrantedAtOnce(promoted, s)
      BY <2>1 DEF RequestResourceTurn, Fresh
    <3>2. r \in DOMAIN table /\ table[r] = requests[r]
      BY <3>1 DEF Insert
    <3> HIDE DEF table
    <3>3. r \in DOMAIN promoted /\ promoted[r] = requests[r]
      BY <3>2, PromoteKeepsClaim
    <3> HIDE DEF promoted
    <3> QED
      BY <3>1, <3>3 DEF GrantedAtOnce
  <2>2. ASSUME NEW t \in FileTargets, NEW mode \in Modes, RequestFileTurn(i, s, t, mode)
        PROVE  FALSE
    <3> DEFINE table == Insert(requests, s, NewRow(i, t, fileSeq', mode))
               promoted == PromoteFileRequests(table, Connected(instances))
    <3>1. s # r /\ requests' = GrantedAtOnce(promoted, s)
      BY <2>2 DEF RequestFileTurn, Fresh
    <3>2. r \in DOMAIN table /\ table[r] = requests[r]
      BY <3>1 DEF Insert
    <3> HIDE DEF table
    <3>3. r \in DOMAIN promoted /\ promoted[r] = requests[r]
      BY <3>2, PromoteKeepsClaim
    <3> HIDE DEF promoted
    <3> QED
      BY <3>1, <3>3 DEF GrantedAtOnce
  <2>3. CASE Status(i, s)
    BY <2>3 DEF Status, Owns, Materialize
  <2>4. CASE EnsureTurnTask(i, s)
    BY <2>4 DEF EnsureTurnTask, Owns
  <2>5. CASE CancelTurnRequest(i, s)
    <3>1. s \in DOMAIN requests /\ s # r
      BY <2>5 DEF CancelTurnRequest, Owns
    <3>2. CASE Active(requests[s])
      BY <1>2, <2>5, <3>1, <3>2 DEF CancelTurnRequest
    <3>3. CASE ~Active(requests[s])
      BY <1>1, <2>5, <3>3 DEF CancelTurnRequest
    <3> QED
      BY <3>2, <3>3
  <2> QED
    BY <1>4, <2>1, <2>2, <2>3, <2>4, <2>5 DEF RequestStep
<1>5. ASSUME NEW i \in Instances, NEW s \in Requests, TurnStep(i, s)
      PROVE  ReleaseTurn(i, r)
  <2>1. CASE ClaimContentTurn(i, s) \/ ClaimFiles(i, s)
    BY <2>1 DEF ClaimContentTurn, ClaimFiles, Offered
  <2>2. CASE ReleaseTurn(i, s)
    BY <1>2, <2>2 DEF ReleaseTurn, Claimed, Owns
  <2>3. CASE ReleaseFiles(i, s)
    BY <1>2, <2>3 DEF ReleaseFiles, Owns
  <2>4. ASSUME NEW lock \in Locks, StartCommit(i, s, lock) PROVE FALSE
    BY <2>4 DEF StartCommit
  <2> QED
    BY <1>5, <2>1, <2>2, <2>3, <2>4 DEF TurnStep
<1>6. CASE DaemonStep
  <2>1. ASSUME NEW s \in Requests, ForceRelease(s) PROVE FALSE
    BY <1>2, <2>1 DEF ForceRelease
  <2>2. ASSUME NEW s \in Requests, NEW lock \in Locks, FinishCommit(s, lock)
        PROVE  FinishCommit(r, lock)
    BY <1>2, <2>2 DEF FinishCommit
  <2>3. ASSUME NEW s \in Requests, NEW lock \in Locks,
               AbortCommit(s, lock) \/ RefuseCommit(s, lock)
        PROVE  FALSE
    BY <2>3 DEF AbortCommit, RefuseCommit
  <2>4. CASE Sweep
    <3> DEFINE detached == DetachAll(requests, Silent, FALSE, committing)
               swept == SweepRows(detached, jumped \/ behind, committing)
    <3>1. requests' = Promote(swept, Connected(instances'))
      BY <2>4 DEF Sweep
    <3>2. Detach(requests[r], FALSE, TRUE) = requests[r]
      BY DEF Detach
    <3>3. r \in DOMAIN detached /\ detached[r] = requests[r]
      BY <3>2 DEF DetachAll
    <3> HIDE DEF detached
    <3>4. r \in DOMAIN swept /\ swept[r] = DropTask(requests[r])
      BY <3>3 DEF SweepRows
    <3>5. DropTask(requests[r]).state = "CLAIMED"
      BY <1>0 DEF DropTask, Row
    <3> HIDE DEF swept
    <3> QED
      BY <3>1, <3>4, <3>5, PromoteKeepsClaim
  <2>5. CASE FailedSweep
    BY <2>5 DEF FailedSweep
  <2> QED
    BY <1>6, <2>1, <2>2, <2>3, <2>4, <2>5 DEF DaemonStep, EndedByOwner
<1>7. CASE ClockStep
  <2>1. Age(requests[r]).state = "CLAIMED"
    BY <1>0 DEF Age, Row
  <2> QED
    BY <1>7, <2>1 DEF ClockStep, Tick, ClockJump, WallCatchesUp
<1>8. ASSUME NEW i \in Instances, NEW s \in Requests, TaskStep(i, s)
      PROVE  FailTask(i, r)
  <2>0. requests[r] \in Row /\ WithTask(requests[r], "completed").state = "CLAIMED"
    BY <1>0 DEF WithTask, Row
  <2>1. CASE PollTask(i, s)
    BY <2>0, <2>1 DEF PollTask, Working, Owns
  <2>2. CASE CompleteTask(i, s)
    BY <2>0, <2>2 DEF CompleteTask, Working, Owns
  <2>3. CASE FailTask(i, s)
    <3>1. CASE s # r
      <4> DEFINE row == IF Active(requests[s]) THEN Finish(requests[s], "FAILED")
                        ELSE WithTask(requests[s], "failed")
                 rq == [requests EXCEPT ![s] = row]
      <4>1. s \in DOMAIN requests /\ requests' = Promote(rq, Connected(instances))
        BY <2>3 DEF FailTask, Working, Owns
      <4>2. r \in DOMAIN rq /\ rq[r] = requests[r]
        BY <3>1
      <4> HIDE DEF rq
      <4> QED
        BY <1>1, <4>1, <4>2
    <3> QED
      BY <2>3, <3>1
  <2>4. CASE EndPoll(i, s)
    BY <2>4 DEF EndPoll
  <2>5. CASE CancelTask(i, s)
    <3> DEFINE ends == /\ requests[s].task = "working"
                       /\ requests[s].state \in {"QUEUED", "READY", "OFFERED"}
               rq == IF ends THEN [requests EXCEPT ![s] = Finish(@, "CANCELLED")] ELSE requests
    <3>1. requests' = Promote(rq, Connected(instances))
      BY <2>5 DEF CancelTask
    <3>2. r \in DOMAIN rq /\ rq[r] = requests[r]
      OBVIOUS
    <3> HIDE DEF rq
    <3> QED
      BY <1>1, <3>1, <3>2
  <2> QED
    BY <1>8, <2>1, <2>2, <2>3, <2>4, <2>5 DEF TaskStep
<1> QED
  BY <1>3, <1>4, <1>5, <1>6, <1>7, <1>8 DEF Next, EndedByOwner

\* What takes a mark off.
LEMMA MarksKept ==
  ASSUME NEW r \in committing, r \notin committing', Next
  PROVE  \/ Restart
         \/ \E lock \in Locks : \/ FinishCommit(r, lock)
                                \/ AbortCommit(r, lock)
                                \/ RefuseCommit(r, lock)
<1>1. ASSUME NEW i \in Instances, InstanceStep(i) PROVE FALSE
  BY <1>1 DEF InstanceStep, Open, RequestName, Heartbeat, Disconnect, underway
<1>2. ASSUME NEW i \in Instances, NEW s \in Requests,
             RequestStep(i, s) \/ TaskStep(i, s) \/ TurnStep(i, s)
      PROVE  FALSE
  <2>1. CASE RequestStep(i, s)
    BY <2>1 DEF RequestStep, RequestResourceTurn, RequestFileTurn, Status, EnsureTurnTask,
                CancelTurnRequest, underway
  <2>2. CASE TaskStep(i, s)
    BY <2>2 DEF TaskStep, PollTask, CompleteTask, FailTask, EndPoll, CancelTask, underway
  <2>3. CASE TurnStep(i, s)
    BY <2>3 DEF TurnStep, ClaimContentTurn, ClaimFiles, ReleaseTurn, ReleaseFiles, StartCommit,
                underway
  <2> QED
    BY <1>2, <2>1, <2>2, <2>3
<1>3. CASE DaemonStep
  <2>1. ASSUME NEW s \in Requests, NEW lock \in Locks,
               FinishCommit(s, lock) \/ AbortCommit(s, lock) \/ RefuseCommit(s, lock)
        PROVE  s = r
    BY <2>1 DEF FinishCommit, AbortCommit, RefuseCommit
  <2>2. ASSUME (\E s \in Requests : ForceRelease(s)) \/ Sweep \/ FailedSweep PROVE FALSE
    BY <2>2 DEF ForceRelease, Sweep, FailedSweep, underway
  <2> QED
    BY <1>3, <2>1, <2>2 DEF DaemonStep
<1>4. CASE ClockStep
  BY <1>4 DEF ClockStep, Tick, ClockJump, WallCatchesUp, underway
<1> QED
  BY <1>1, <1>2, <1>3, <1>4 DEF Next

\* A commit in flight keeps its turn as long as it is marked: no forced release, sweep or
\* disconnect takes it away, only its owner's release or failed poll, its commit or the death of
\* the daemon.  And only the end of a commit call of the same turn takes the mark away; that it
\* may be the end of another call than the one in flight is what run commits_unprotected shows.
THEOREM CommitsKeepTheirTurns == Spec => MarksProtect
<1> DEFINE Protected ==
      \A c \in inflight : c[1] \in committing =>
        /\ ClaimEnds(c[1]) => EndedByOwner(c[1])
        /\ c[1] \notin committing' =>
             \/ Restart
             \/ \E lock \in Locks : \/ FinishCommit(c[1], lock)
                                    \/ AbortCommit(c[1], lock)
                                    \/ RefuseCommit(c[1], lock)
<1>1. Inv /\ SessionInv /\ [Next]_vars => [Protected]_vars
  <2> SUFFICES ASSUME Inv, SessionInv, Next, NEW c \in inflight, c[1] \in committing
               PROVE  /\ ClaimEnds(c[1]) => EndedByOwner(c[1])
                      /\ c[1] \notin committing' =>
                           \/ Restart
                           \/ \E lock \in Locks : \/ FinishCommit(c[1], lock)
                                                  \/ AbortCommit(c[1], lock)
                                                  \/ RefuseCommit(c[1], lock)
    BY Zenon
  <2>1. ASSUME ClaimEnds(c[1]) PROVE EndedByOwner(c[1])
    <3>1. /\ c[1] \in DOMAIN requests /\ requests[c[1]].state = "CLAIMED"
          /\ c[1] \in DOMAIN requests' /\ requests'[c[1]].state # "CLAIMED"
      BY <2>1 DEF ClaimEnds
    <3>2. ~IsFiles(requests[c[1]])
      BY <3>1 DEF SessionInv, Marked
    <3> QED
      BY <3>1, <3>2, ClaimsKept
  <2>2. ASSUME c[1] \notin committing'
        PROVE  \/ Restart
               \/ \E lock \in Locks : \/ FinishCommit(c[1], lock)
                                      \/ AbortCommit(c[1], lock)
                                      \/ RefuseCommit(c[1], lock)
    BY <2>2, MarksKept
  <2> QED
    BY <2>1, <2>2
<1> QED
  BY <1>1, SessionsInvariant, PTL DEF Spec, MarksProtect
=============================================================================
