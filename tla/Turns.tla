------------------------------- MODULE Turns -------------------------------
(***************************************************************************)
(* Exclusive turns on threads, tickets and file sets: class Bassfish in    *)
(* src/service.ts, from requesting a turn to committing under it, with     *)
(* instances that come, go silent and reconnect, a clock that may jump and *)
(* a daemon that may crash and start again on its database.                *)
(*                                                                         *)
(* An action is one committed control transaction.  Every handler of the   *)
(* code first runs Sweep in a transaction of its own; here Sweep is an     *)
(* action that may happen at any moment, so the clock may also have moved  *)
(* on between a handler's sweep and its own transaction, as it can in the  *)
(* code.  A commit spans time: it validates its turn, marks it in the      *)
(* daemon's memory (committingTurns) and only later becomes durable, and   *)
(* everything else goes on between the two.  So does a poll of a task,     *)
(* which makes an offer, claims it and completes the task in three steps.  *)
(***************************************************************************)
EXTENDS TurnState

CONSTANTS
  BoundIdentities,  \* identities bound to a host session when the daemon first starts
  Locks,            \* locks commits run under: "turn", and "graph" for ticket metadata
  Modes,            \* delivery modes of the clients: "ticket" and "task"
  ClockMayJump,     \* whether the wall clock is ever set or the machine suspended
  MaxSequence       \* bound on the requests ever made of a target, for model checking

ASSUME BoundsAssumption ==
  /\ MaxSequence \in Nat
  /\ Identities # {}
  /\ BoundIdentities \subseteq Identities
  /\ Locks \subseteq {"turn", "graph"}
  /\ Modes \subseteq {"ticket", "task"}
  /\ ClockMayJump \in BOOLEAN

VARIABLES
  requests,    \* turnRequests and tasks
  instances,   \* instances: active, of the daemon's current epoch, identity, time until silent
  queueSeq,    \* resources.queueSequence
  fileSeq,     \* controlMeta.fileQueueSequence
  fence,       \* resources.fence
  revision,    \* revision of the content of each target
  bound,       \* identities a hostSessionBindings row refers to
  committing,  \* committingTurns: turns marked in the daemon's memory
  inflight,    \* <<turn, lock>> of the commits in flight
  polls,       \* <<instance, task>> of the polls between their transactions
  jumped,      \* a clock discontinuity the next sweep will detect
  behind       \* the wall clock is behind its persisted high-water mark

vars == <<requests, instances, queueSeq, fileSeq, fence, revision, bound, committing,
          inflight, polls, jumped, behind>>
ledger == <<queueSeq, fileSeq, fence, revision, bound>>
underway == <<committing, inflight, polls>>
clock == <<jumped, behind>>

\* A closed instance; its heartbeat is never looked at again.
Close(instance) == [instance EXCEPT !.active = FALSE, !.idle = 0]

Connected(insts) == {i \in Instances : insts[i].active}
Live(i) == instances[i].active

Init ==
  /\ requests = [r \in {} |-> 0]
  /\ instances = [i \in Instances |-> [active |-> FALSE, current |-> FALSE, idle |-> 0,
                                      ident |-> CHOOSE d \in Identities : TRUE]]
  /\ queueSeq = [t \in ContentTargets |-> 0]
  /\ fileSeq = 0
  /\ fence = [t \in ContentTargets |-> 0]
  /\ revision = [t \in ContentTargets |-> 0]
  /\ bound = BoundIdentities
  /\ committing = {}
  /\ inflight = {}
  /\ polls = {}
  /\ jumped = FALSE
  /\ behind = FALSE

----------------------------------------------------------------------------
\* promote: with the wall clock behind, what was just made available expires at once.
Promote(rq, live) ==
  LET promoted == PromoteRequests(rq, live)
  IN [r \in DOMAIN rq |->
        IF behind /\ promoted[r].state \in {"READY", "OFFERED"}
          THEN Finish(promoted[r], "EXPIRED") ELSE promoted[r]]

\* Requests a new instance of identity d may take over, as of rebind.
Rebindable(rq, d) ==
  {r \in DOMAIN rq : /\ ~IsFiles(rq[r]) /\ rq[r].ident = d
                     /\ rq[r].state \in {"QUEUED", "READY"} /\ rq[r].reconnect > 0}

\* p was created no later than q; queueUntil - QueueMs is the time of creation.
NotYounger(p, q) == p.left < q.left \/ (p.left = q.left /\ p.seq <= q.seq)

\* The tables rebind may leave: the oldest of its candidates moves to instance i.
Rebound(rq, i, d) ==
  LET oldest == {r \in Rebindable(rq, d) : \A s \in Rebindable(rq, d) : NotYounger(rq[r], rq[s])}
  IN IF oldest = {} THEN {rq}
     ELSE {[rq EXCEPT ![r] = [@ EXCEPT !.inst = i, !.reconnect = NoDeadline]] : r \in oldest}

Unused(d) == \A j \in Instances : Live(j) => instances[j].ident # d

\* An instance is a fresh id in the code: one that still owns active requests is not reused.
\* The attachments of one host session share the identity bound to it; any other instance
\* needs an identity that is neither bound nor in use.
Open(i, d, session) ==
  /\ ~Live(i)
  /\ \A r \in DOMAIN requests : requests[r].inst = i => ~Active(requests[r])
  /\ (session /\ d \in bound) \/ (d \notin bound /\ Unused(d))
  /\ bound' = IF session THEN bound \cup {d} ELSE bound
  /\ instances' = [instances EXCEPT ![i] = [active |-> TRUE, current |-> TRUE,
                                            ident |-> d, idle |-> InstanceMs]]
  /\ \E rq \in Rebound(requests, i, d) : requests' = Promote(rq, Connected(instances'))
  /\ UNCHANGED <<queueSeq, fileSeq, fence, revision, underway, clock>>

\* Mutation of RequestName: requests of other attachments are not waited for.
RenameAnyway(i, d) ==
  /\ Live(i) /\ instances[i].ident # d /\ d \notin bound /\ Unused(d)
  /\ \A r \in DOMAIN requests : requests[r].inst = i => ~Active(requests[r])
  /\ instances' = [j \in Instances |->
                     IF Live(j) /\ instances[j].ident = instances[i].ident
                       THEN [instances[j] EXCEPT !.ident = d] ELSE instances[j]]
  /\ bound' = IF instances[i].ident \in bound THEN (bound \ {instances[i].ident}) \cup {d}
              ELSE bound
  /\ UNCHANGED <<requests, queueSeq, fileSeq, fence, revision, underway, clock>>

\* requestName with the name of another identity: every attachment moves to it, and the
\* binding with them.  With a new name the identity is only renamed.
RequestName(i, d) ==
  LET own == instances[i].ident IN
  /\ Live(i)
  /\ \A r \in DOMAIN requests : requests[r].ident = own => ~Active(requests[r])
  /\ d # own => d \notin bound /\ Unused(d)
  /\ instances' = [j \in Instances |->
                     IF Live(j) /\ instances[j].ident = own
                       THEN [instances[j] EXCEPT !.ident = d] ELSE instances[j]]
  /\ bound' = IF own \in bound THEN (bound \ {own}) \cup {d} ELSE bound
  /\ requests' = Promote(requests, Connected(instances'))
  /\ UNCHANGED <<queueSeq, fileSeq, fence, revision, underway, clock>>

Heartbeat(i) ==
  /\ Live(i)
  /\ instances' = [instances EXCEPT ![i].idle = InstanceMs]
  /\ UNCHANGED <<requests, ledger, underway, clock>>

\* A close (clean) or a lost socket; a handle of this epoch can be closed more than once.
Disconnect(i, clean) ==
  /\ instances[i].current
  /\ instances' = [instances EXCEPT ![i] = Close(@)]
  /\ requests' = Promote(DetachAll(requests, {i}, clean, committing), Connected(instances'))
  /\ UNCHANGED <<ledger, underway, clock>>

----------------------------------------------------------------------------
NewRow(i, t, n, mode) ==
  [state |-> "QUEUED", target |-> t, inst |-> i, ident |-> instances[i].ident, seq |-> n,
   mode |-> mode, left |-> QueueMs, reconnect |-> NoDeadline, fence |-> 0, base |-> 0,
   task |-> IF mode = "task" THEN "working" ELSE "none",
   taskLeft |-> IF mode = "task" THEN QueueMs ELSE 0]

Insert(rq, r, row) == [s \in DOMAIN rq \cup {r} |-> IF s = r THEN row ELSE rq[s]]

\* A task that found its turn free at once is not needed: the request becomes a ticket.
GrantedAtOnce(rq, r) ==
  IF rq[r].state = "READY"
    THEN [rq EXCEPT ![r] = [Materialize(@) EXCEPT !.mode = "ticket", !.task = "none",
                                                  !.taskLeft = 0]]
    ELSE rq

\* An id no row, no commit in flight and no poll knows.
Fresh(r) ==
  /\ r \notin DOMAIN requests
  /\ \A c \in inflight : c[1] # r
  /\ \A p \in polls : p[2] # r

\* TURN_REQUEST_EXISTS: one active request of each kind per instance.
NonePending(i, files) ==
  \A s \in DOMAIN requests :
    requests[s].inst = i /\ Active(requests[s]) => IsFiles(requests[s]) # files

RequestResourceTurn(i, r, t, mode) ==
  /\ Live(i)
  /\ Fresh(r)
  /\ NonePending(i, FALSE)
  /\ queueSeq[t] < MaxSequence
  /\ queueSeq' = [queueSeq EXCEPT ![t] = @ + 1]
  /\ requests' = GrantedAtOnce(Promote(Insert(requests, r, NewRow(i, t, queueSeq'[t], mode)),
                                       Connected(instances)), r)
  /\ UNCHANGED <<instances, fileSeq, fence, revision, bound, underway, clock>>

RequestFileTurn(i, r, t, mode) ==
  /\ Live(i)
  /\ Fresh(r)
  /\ NonePending(i, TRUE)
  /\ fileSeq < MaxSequence
  /\ fileSeq' = fileSeq + 1
  /\ requests' = GrantedAtOnce(
                   PromoteFileRequests(Insert(requests, r, NewRow(i, t, fileSeq', mode)),
                                       Connected(instances)), r)
  /\ UNCHANGED <<instances, queueSeq, fence, revision, bound, underway, clock>>

\* ownRequest: any live attachment of the identity may look at its requests.
Owns(i, r) == Live(i) /\ r \in DOMAIN requests /\ requests[r].ident = instances[i].ident

Status(i, r) ==
  /\ Owns(i, r)
  /\ requests' = [requests EXCEPT ![r] = Materialize(@)]
  /\ UNCHANGED <<instances, ledger, underway, clock>>

\* ensureTurnTask: a client that can poll tasks resumes a queued request as a task.
EnsureTurnTask(i, r) ==
  /\ "task" \in Modes
  /\ Owns(i, r)
  /\ requests[r].inst = i
  /\ requests[r].state \in {"QUEUED", "READY"}
  /\ requests[r].task = "none"
  /\ requests' = [requests EXCEPT ![r] = [@ EXCEPT !.mode = "task", !.task = "working",
                                                   !.taskLeft = requests[r].left]]
  /\ UNCHANGED <<instances, ledger, underway, clock>>

\* Mutation of CancelTurnRequest: the target is not handed on.
CancelOnly(i, r) ==
  /\ Owns(i, r) /\ requests[r].inst = i /\ requests[r].state \in {"QUEUED", "READY", "OFFERED"}
  /\ requests' = [requests EXCEPT ![r] = Finish(@, "CANCELLED")]
  /\ UNCHANGED <<instances, ledger, underway, clock>>

CancelTurnRequest(i, r) ==
  /\ Owns(i, r)
  /\ requests[r].inst = i
  /\ requests[r].state # "CLAIMED"
  /\ requests' = Promote(IF Active(requests[r])
                           THEN [requests EXCEPT ![r] = Finish(@, "CANCELLED")] ELSE requests,
                         Connected(instances))
  /\ UNCHANGED <<instances, ledger, underway, clock>>

----------------------------------------------------------------------------
(***************************************************************************)
(* getTask.  The first transaction of a poll makes the offer, or sees that *)
(* the turn is claimed.  Then the poll claims the turn as any claim does   *)
(* (ClaimContentTurn, ClaimFiles), and its last transaction completes the  *)
(* task; when the claim or that transaction fails, for whatever reason, a  *)
(* last one ends the turn with the task.                                   *)
(***************************************************************************)
Working(i, r) == Owns(i, r) /\ requests[r].task = "working"

WithTask(q, verdict) == [q EXCEPT !.task = verdict, !.taskLeft = RetentionMs]

PollTask(i, r) ==
  /\ Working(i, r)
  /\ requests' = [requests EXCEPT ![r] = IF @.state = "CLAIMED" THEN WithTask(@, "completed")
                                          ELSE Materialize(@)]
  /\ polls' = IF requests'[r].state = "OFFERED" THEN polls \cup {<<i, r>>} ELSE polls
  /\ UNCHANGED <<instances, ledger, committing, inflight, clock>>

CompleteTask(i, r) ==
  /\ <<i, r>> \in polls
  /\ Working(i, r)
  /\ requests[r].state = "CLAIMED"
  /\ requests' = [requests EXCEPT ![r] = WithTask(@, "completed")]
  /\ polls' = polls \ {<<i, r>>}
  /\ UNCHANGED <<instances, ledger, committing, inflight, clock>>

\* The catch block: an active request fails, a claimed one too, and its task with it; of one
\* that has ended meanwhile only the task fails, and is kept from now on.
FailTask(i, r) ==
  /\ <<i, r>> \in polls
  /\ Working(i, r)
  /\ requests' = Promote([requests EXCEPT ![r] = IF Active(@) THEN Finish(@, "FAILED")
                                                  ELSE WithTask(@, "failed")],
                         Connected(instances))
  /\ polls' = polls \ {<<i, r>>}
  /\ UNCHANGED <<instances, ledger, committing, inflight, clock>>

\* The poll finds its task ended or discarded, its instance gone, or storage busy.
EndPoll(i, r) ==
  /\ <<i, r>> \in polls
  /\ polls' = polls \ {<<i, r>>}
  /\ UNCHANGED <<requests, instances, ledger, committing, inflight, clock>>

\* cancelTask: any attachment of the identity may cancel its tasks.
CancelTask(i, r) ==
  /\ Owns(i, r)
  /\ requests[r].task # "none"
  /\ requests' = Promote(IF /\ requests[r].task = "working"
                            /\ requests[r].state \in {"QUEUED", "READY", "OFFERED"}
                           THEN [requests EXCEPT ![r] = Finish(@, "CANCELLED")] ELSE requests,
                         Connected(instances))
  /\ UNCHANGED <<instances, ledger, underway, clock>>

----------------------------------------------------------------------------
\* An offer can be claimed by the instance it was made to, until claimBy.
Offered(i, r) ==
  /\ Live(i)
  /\ r \in DOMAIN requests
  /\ requests[r].inst = i
  /\ requests[r].state = "OFFERED"
  /\ requests[r].left > 0

ClaimContentTurn(i, r) ==
  /\ Offered(i, r)
  /\ ~IsFiles(requests[r])
  /\ LET t == requests[r].target IN
       /\ fence' = [fence EXCEPT ![t] = @ + 1]
       /\ requests' = [requests EXCEPT ![r] = [@ EXCEPT !.state = "CLAIMED",
                                                        !.fence = fence[t] + 1,
                                                        !.base = revision[t],
                                                        !.left = TurnMs]]
  /\ UNCHANGED <<instances, queueSeq, fileSeq, revision, bound, underway, clock>>

ClaimFiles(i, r) ==
  /\ Offered(i, r)
  /\ IsFiles(requests[r])
  /\ requests' = [requests EXCEPT ![r] = [@ EXCEPT !.state = "CLAIMED"]]
  /\ UNCHANGED <<instances, ledger, underway, clock>>

\* claimed, with the fence the row was given.
Claimed(i, r) ==
  /\ Owns(i, r)
  /\ requests[r].inst = i
  /\ ~IsFiles(requests[r])
  /\ requests[r].fence = fence[requests[r].target]
  /\ requests[r].left > 0
  /\ requests[r].state = "CLAIMED"

\* The row of a commit in flight is read as CLAIMED here; the commit's own write to it
\* conflicts with this one, and whichever of the two is durable first wins.
ReleaseTurn(i, r) ==
  /\ Claimed(i, r)
  /\ requests' = Promote([requests EXCEPT ![r] = Finish(@, "RELEASED")], Connected(instances))
  /\ UNCHANGED <<instances, ledger, underway, clock>>

ReleaseFiles(i, r) ==
  /\ Owns(i, r)
  /\ requests[r].inst = i
  /\ IsFiles(requests[r])
  /\ requests[r].state = "CLAIMED"
  /\ requests' = PromoteFileRequests([requests EXCEPT ![r] = Finish(@, "RELEASED")],
                                     Connected(instances))
  /\ UNCHANGED <<instances, ledger, underway, clock>>

\* Mutation of ForceRelease: commits in flight are not spared.
ForceAnyRelease(r) ==
  /\ r \in DOMAIN requests /\ requests[r].state = "CLAIMED"
  /\ requests' = Promote([requests EXCEPT ![r] = Finish(@, "RELEASED")], Connected(instances))
  /\ UNCHANGED <<instances, ledger, underway, clock>>

\* An operator frees a claimed turn, a file lock included, unless it is committing.
ForceRelease(r) ==
  /\ r \in DOMAIN requests
  /\ requests[r].state = "CLAIMED"
  /\ r \notin committing
  /\ requests' = Promote([requests EXCEPT ![r] = Finish(@, "RELEASED")], Connected(instances))
  /\ UNCHANGED <<instances, ledger, underway, clock>>

----------------------------------------------------------------------------
(***************************************************************************)
(* commitTurn.  Two commits of one turn can be in flight when they hold    *)
(* different locks: the project's graph lock for ticket metadata, the      *)
(* turn's own lock for any other mutation.  All of them share one mark.    *)
(***************************************************************************)
LockFree(r, lock) ==
  IF lock = "graph" THEN \A c \in inflight : c[2] # "graph" ELSE <<r, lock>> \notin inflight

\* Up to the mark: the turn is claimed and its base still the current revision.
StartCommit(i, r, lock) ==
  /\ LockFree(r, lock)
  /\ Claimed(i, r)
  /\ requests[r].base = revision[requests[r].target]
  /\ inflight' = inflight \cup {<<r, lock>>}
  /\ committing' = committing \cup {r}
  /\ UNCHANGED <<requests, instances, ledger, polls, clock>>

\* Mutation of FinishCommit: nothing stops a commit whose turn was lost meanwhile.
FinishLostCommit(r, lock) ==
  /\ <<r, lock>> \in inflight /\ r \in DOMAIN requests
  /\ revision' = [revision EXCEPT ![requests[r].target] = @ + 1]
  /\ requests' = Promote([requests EXCEPT ![r] = Finish(@, "COMMITTED")], Connected(instances))
  /\ inflight' = inflight \ {<<r, lock>>}
  /\ committing' = committing \ {r}
  /\ UNCHANGED <<instances, queueSeq, fileSeq, fence, bound, polls, clock>>

\* The commit becomes durable: its transaction wrote the row, so no other one has since.
FinishCommit(r, lock) ==
  /\ <<r, lock>> \in inflight
  /\ r \in DOMAIN requests
  /\ requests[r].state = "CLAIMED"
  /\ requests[r].base = revision[requests[r].target]
  /\ revision' = [revision EXCEPT ![requests[r].target] = @ + 1]
  /\ requests' = Promote([requests EXCEPT ![r] = Finish(@, "COMMITTED")], Connected(instances))
  /\ inflight' = inflight \ {<<r, lock>>}
  /\ committing' = committing \ {r}
  /\ UNCHANGED <<instances, queueSeq, fileSeq, fence, bound, polls, clock>>

\* A commit that throws, its transaction rolled back, only removes the mark of its turn.
AbortCommit(r, lock) ==
  /\ <<r, lock>> \in inflight
  /\ inflight' = inflight \ {<<r, lock>>}
  /\ committing' = committing \ {r}
  /\ UNCHANGED <<requests, instances, ledger, polls, clock>>

\* So does a call that is refused before it gets as far as setting the mark.
RefuseCommit(r, lock) ==
  /\ LockFree(r, lock)
  /\ committing' = committing \ {r}
  /\ UNCHANGED <<requests, instances, ledger, inflight, polls, clock>>

----------------------------------------------------------------------------
\* Instances whose heartbeat is overdue.
Silent == {i \in Instances : Live(i) /\ instances[i].idle = 0}

\* A row cannot be deleted while the row of its task refers to it: the whole sweep fails.
HeldUp ==
  \E r \in DOMAIN requests \ committing :
    Forgotten(requests[r]) /\ requests[r].task # "none" /\ requests[r].taskLeft > 0

Sweep ==
  /\ ~HeldUp
  /\ instances' = [i \in Instances |-> IF i \in Silent THEN Close(instances[i]) ELSE instances[i]]
  /\ LET detached == DetachAll(requests, Silent, FALSE, committing)
     IN requests' = Promote(SweepRows(detached, jumped \/ behind, committing),
                            Connected(instances'))
  /\ jumped' = FALSE
  /\ UNCHANGED <<ledger, underway, behind>>

\* A sweep whose transaction fails has already read, and so reset, the clock's jump.
FailedSweep ==
  /\ jumped
  /\ jumped' = FALSE
  /\ UNCHANGED <<requests, instances, ledger, underway, behind>>

Tick ==
  /\ requests' = [r \in DOMAIN requests |-> Age(requests[r])]
  /\ instances' = [i \in Instances |-> [instances[i] EXCEPT !.idle = Sooner(@)]]
  /\ UNCHANGED <<ledger, underway, clock>>

\* The wall clock is set forwards or backwards.
ClockJump ==
  /\ ClockMayJump
  /\ jumped' = TRUE
  /\ behind' \in BOOLEAN
  /\ UNCHANGED <<requests, instances, ledger, underway>>

\* Time passes the high-water mark again.
WallCatchesUp ==
  /\ behind
  /\ behind' = FALSE
  /\ UNCHANGED <<requests, instances, ledger, underway, jumped>>

\* The daemon dies, commits in flight with it, and a new one runs initialize.
Restart ==
  /\ instances' = [i \in Instances |-> [Close(instances[i]) EXCEPT !.current = FALSE]]
  /\ requests' = [r \in DOMAIN requests |-> Recover(requests[r])]
  /\ committing' = {}
  /\ inflight' = {}
  /\ polls' = {}
  /\ jumped' = FALSE
  /\ UNCHANGED <<ledger, behind>>

----------------------------------------------------------------------------
InstanceStep(i) ==
  \/ \E d \in Identities, session \in BOOLEAN : Open(i, d, session)
  \/ \E d \in Identities : RequestName(i, d)
  \/ Heartbeat(i)
  \/ \E clean \in BOOLEAN : Disconnect(i, clean)

RequestStep(i, r) ==
  \/ \E t \in ContentTargets, mode \in Modes : RequestResourceTurn(i, r, t, mode)
  \/ \E t \in FileTargets, mode \in Modes : RequestFileTurn(i, r, t, mode)
  \/ Status(i, r)
  \/ EnsureTurnTask(i, r)
  \/ CancelTurnRequest(i, r)

TaskStep(i, r) ==
  \/ PollTask(i, r)
  \/ CompleteTask(i, r)
  \/ FailTask(i, r)
  \/ EndPoll(i, r)
  \/ CancelTask(i, r)

TurnStep(i, r) ==
  \/ ClaimContentTurn(i, r)
  \/ ClaimFiles(i, r)
  \/ ReleaseTurn(i, r)
  \/ ReleaseFiles(i, r)
  \/ \E lock \in Locks : StartCommit(i, r, lock)

DaemonStep ==
  \/ \E r \in Requests : ForceRelease(r)
  \/ \E r \in Requests, lock \in Locks :
       FinishCommit(r, lock) \/ AbortCommit(r, lock) \/ RefuseCommit(r, lock)
  \/ Sweep
  \/ FailedSweep
  \/ Restart

ClockStep == Tick \/ ClockJump \/ WallCatchesUp

Next ==
  \/ \E i \in Instances : InstanceStep(i)
  \/ \E i \in Instances, r \in Requests : RequestStep(i, r) \/ TaskStep(i, r) \/ TurnStep(i, r)
  \/ DaemonStep
  \/ ClockStep

Spec == Init /\ [][Next]_vars

(***************************************************************************)
(* The daemon's maintenance loop sweeps every 250 ms, time passes, and a   *)
(* commit's transaction ends one way or the other.                         *)
(***************************************************************************)
Fairness ==
  /\ WF_vars(Sweep)
  /\ WF_vars(Tick)
  /\ \A r \in Requests, lock \in Locks : WF_vars(FinishCommit(r, lock) \/ AbortCommit(r, lock))

FairSpec == Spec /\ Fairness

----------------------------------------------------------------------------
(* What has to hold. *)

\* Type invariant.
TypeOK ==
  /\ IsTable(requests)
  /\ instances \in [Instances -> [active: BOOLEAN, current: BOOLEAN,
                                  ident: Identities, idle: Nat]]
  /\ queueSeq \in [ContentTargets -> Nat]
  /\ fileSeq \in Nat
  /\ fence \in [ContentTargets -> Nat]
  /\ revision \in [ContentTargets -> Nat]
  /\ bound \subseteq Identities
  /\ committing \subseteq Requests
  /\ inflight \subseteq Requests \X {"turn", "graph"}
  /\ polls \subseteq Instances \X Requests
  /\ jumped \in BOOLEAN
  /\ behind \in BOOLEAN

\* No two requests hold, or are about to hold, targets that overlap: the index
\* reserved_resource is never what stops a transaction, and file sets are as exclusive.
Exclusive ==
  \A r, s \in DOMAIN requests :
    r # s /\ Reserved(requests[r]) /\ Reserved(requests[s]) => ~Overlap(requests[r], requests[s])

\* Turns go in the order they were asked for, through disconnects and reconnects: nothing
\* reserved was queued behind a request that still waits for an overlapping target.
NoOvertaking ==
  \A r, s \in DOMAIN requests :
    Reserved(requests[r]) /\ requests[s].state = "QUEUED" /\ Overlap(requests[r], requests[s])
      => requests[r].seq < requests[s].seq

\* The same of turns already spent: fences are handed out in queue order.
FencesFollowQueue ==
  \A r, s \in DOMAIN requests :
    /\ requests[r].target = requests[s].target
    /\ requests[r].seq < requests[s].seq
    /\ requests[r].fence > 0 /\ requests[s].fence > 0
    => requests[r].fence < requests[s].fence

\* A turn that is still claimed was the last one claimed and has seen the last write:
\* nothing was written behind its back, so committing it overwrites nothing unseen.
ClaimIsCurrent ==
  \A r \in DOMAIN requests :
    requests[r].state = "CLAIMED" /\ ~IsFiles(requests[r])
      => /\ requests[r].fence = fence[requests[r].target]
         /\ requests[r].base = revision[requests[r].target]

\* An instance has at most one active content request and one active file request, also
\* after it took over a request from an earlier instance of its identity.
OneRequestPerInstance ==
  \A r, s \in DOMAIN requests :
    /\ r # s
    /\ requests[r].inst = requests[s].inst
    /\ Active(requests[r]) /\ Active(requests[s])
    => IsFiles(requests[r]) # IsFiles(requests[s])

\* Renaming and reconnecting never separate a request from its owner: the instance an
\* active request is bound to, if live, still has the identity that asked for it, and only
\* a host session's identity has more than one live instance.
OwnersKeepIdentity ==
  /\ \A r \in DOMAIN requests :
       Active(requests[r]) /\ Live(requests[r].inst)
         => requests[r].ident = instances[requests[r].inst].ident
  /\ \A i, j \in Instances :
       i # j /\ Live(i) /\ Live(j) /\ instances[i].ident = instances[j].ident
         => instances[i].ident \in bound

\* Nobody waits for the dead: an offer, a ready turn and any file request belong to a live
\* instance; a queued request whose instance is gone has a deadline to be taken over, and
\* one that has been taken over no longer has it.
DeadHoldNothing ==
  \A r \in DOMAIN requests :
    LET q == requests[r] IN
      /\ q.state \in {"READY", "OFFERED"} \/ (IsFiles(q) /\ Active(q)) => Live(q.inst)
      /\ q.state = "QUEUED" => (Live(q.inst) <=> q.reconnect = NoDeadline)

\* A sweep finds each row it is to delete without the row of its task, which refers to it by a
\* foreign key, whatever polls did between their transactions; but for a task that a poll has
\* failed after its turn was claimed and committed past the poll.
OnlyLateFailuresHoldUp ==
  \A r \in DOMAIN requests :
    requests[r].state \in FinalStates /\ requests[r].task # "none"
      => \/ requests[r].taskLeft <= requests[r].left
         \/ requests[r].state = "COMMITTED" /\ requests[r].task = "failed"

\* Does not hold: a finished request's row outlives its task's. Once it does not, every sweep
\* fails until the task may be discarded too.
NothingHoldsUp == ~HeldUp

\* As long as the clock does not jump, every transaction that frees a target also hands it
\* on: no request that could go next is ever left waiting for a sweep.
WorkConserving == \A r \in DOMAIN requests : ~Promotable(requests, Connected(instances), r)

\* The tokens of the turns that are held, and what they promise: FencedWrites.
held == [t \in ContentTargets |->
           LET holders == {r \in DOMAIN requests : /\ requests[r].target = t
                                                   /\ requests[r].state = "CLAIMED"}
           IN IF holders = {} THEN 0 ELSE requests[CHOOSE r \in holders : TRUE].fence]

Writes == INSTANCE FencedWrites
            WITH Targets <- ContentTargets, token <- fence, version <- revision

\* Behind the queue, the sessions and the sweeps, content is written only under the newest
\* turn, once per turn, and never by a turn that has been lost.
WritesAreFenced == Writes!Spec

\* What ends a turn under a commit: the commit, its owner, who releases it or whose poll gives it
\* up, or a daemon that dies.
EndedByOwner(r) ==
  \/ \E i \in Instances : ReleaseTurn(i, r) \/ FailTask(i, r)
  \/ \E lock \in Locks : FinishCommit(r, lock)
  \/ Restart

ClaimEnds(r) ==
  /\ r \in DOMAIN requests /\ requests[r].state = "CLAIMED"
  /\ r \in DOMAIN requests' /\ requests'[r].state # "CLAIMED"

\* The mark keeps a forced release, a sweep and a disconnect away from a commit in flight:
\* its turn ends by the commit or by its owner, unless the daemon dies.
CommitsAreProtected ==
  [][\A c \in inflight : ClaimEnds(c[1]) => EndedByOwner(c[1])]_vars

\* It is so while the commit's mark is there, and what takes the mark away is the end of a commit
\* call of the same turn, be it another one.
MarksProtect ==
  [][\A c \in inflight : c[1] \in committing =>
       /\ ClaimEnds(c[1]) => EndedByOwner(c[1])
       /\ c[1] \notin committing' =>
            \/ Restart
            \/ \E lock \in Locks : \/ FinishCommit(c[1], lock)
                                   \/ AbortCommit(c[1], lock)
                                   \/ RefuseCommit(c[1], lock)]_vars

\* Every turn asked for comes to an end, and nobody queues for ever: sweeps turn silence
\* and missed deadlines into ends.  A held file lock may last as long as its session.
TurnsEnd ==
  \A r \in Requests :
    (r \in DOMAIN requests /\ Active(requests[r]) /\ ~IsFiles(requests[r]))
      ~> (r \notin DOMAIN requests \/ ~Active(requests[r]))

QueuesDrain ==
  \A r \in Requests :
    (r \in DOMAIN requests /\ requests[r].state = "QUEUED")
      ~> (r \notin DOMAIN requests \/ requests[r].state # "QUEUED")
=============================================================================
