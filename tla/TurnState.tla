----------------------------- MODULE TurnState -----------------------------
(***************************************************************************)
(* The rows of the turnRequests and tasks tables and the functions that    *)
(* rewrite them inside one control transaction: src/service/turn-state.ts, *)
(* the state sets of src/domain.ts and the row loops of                    *)
(* Bassfish.disconnectIn, Bassfish.sweep and Bassfish.initialize.          *)
(*                                                                         *)
(* A table of requests is a function rq from the ids of its rows to rows.  *)
(* What a row's target covers is a set: a thread or ticket covers itself,  *)
(* a file set covers the files under its paths, so two requests compete    *)
(* exactly when their targets intersect.  A deadline is the time left      *)
(* until it: now >= deadline in the code is left = 0 here.  The row keeps  *)
(* one of them in left, the one its state is waiting for: queueUntil while *)
(* QUEUED or READY, claimBy while OFFERED, expiresAt while CLAIMED, the    *)
(* end of retention once finished.  A task row has the id of its request   *)
(* (task, taskLeft).                                                       *)
(***************************************************************************)
EXTENDS Integers

CONSTANTS
  Requests,        \* ids a request row can have
  Instances,       \* adapter instances
  Identities,      \* agent identities
  ContentTargets,  \* one singleton per thread or ticket
  FileTargets,     \* resolved file sets, each the set of files it covers
  OfferMs, TurnMs, QueueMs, ReconnectMs, InstanceMs, RetentionMs   \* Limits

Targets == ContentTargets \cup FileTargets

ASSUME LimitsAssumption ==
  {OfferMs, TurnMs, QueueMs, ReconnectMs, InstanceMs, RetentionMs} \subseteq Nat \ {0}

\* Two content targets never intersect, nor does one intersect a file set.
ASSUME TargetsAssumption ==
  /\ \A t \in Targets : t # {}
  /\ \A t \in ContentTargets, u \in Targets : t # u => t \cap u = {}
  /\ ContentTargets \cap FileTargets = {}

----------------------------------------------------------------------------
ReservedStates == {"READY", "OFFERED", "CLAIMED"}
ActiveStates == ReservedStates \cup {"QUEUED"}
FinalStates == {"COMMITTED", "RELEASED", "EXPIRED", "CANCELLED", "FAILED"}
TaskStates == {"none", "working", "completed", "failed", "cancelled"}

NoDeadline == -1
Deadlines == Nat \cup {NoDeadline}

Row == [state: ActiveStates \cup FinalStates, target: Targets, inst: Instances,
        ident: Identities, seq: Nat, mode: {"ticket", "task"}, left: Nat,
        reconnect: Deadlines, fence: Nat, base: Nat,
        task: TaskStates, taskLeft: Nat]

\* A table of request rows.
IsTable(rq) == DOMAIN rq \subseteq Requests /\ rq \in [DOMAIN rq -> Row]

Active(q) == q.state \in ActiveStates
Reserved(q) == q.state \in ReservedStates
IsFiles(q) == q.target \in FileTargets
Overlap(p, q) == p.target \cap q.target # {}
Least(m, n) == IF m <= n THEN m ELSE n

----------------------------------------------------------------------------
\* Mutation of Finish: the discard time of the task is left as it was.
FinishKeepsTaskTime(q, final) ==
  [q EXCEPT !.state = final, !.left = RetentionMs, !.reconnect = NoDeadline]

(***************************************************************************)
(* finishRequest: a terminal state; a task still working ends with it,     *)
(* except that a commit leaves it working and only moves its discard time. *)
(* The reconnect deadline of a finished row is never looked at again.      *)
(***************************************************************************)
Finish(q, final) ==
  [q EXCEPT !.state = final,
            !.left = RetentionMs,
            !.reconnect = NoDeadline,
            !.taskLeft = IF q.task = "working" THEN RetentionMs ELSE @,
            !.task = IF @ # "working" \/ final = "COMMITTED" THEN @
                     ELSE IF final = "FAILED" THEN "failed" ELSE "cancelled"]

\* makeRequestAvailable: a task's turn waits in READY to be polled, any other is offered.
MakeAvailable(q) ==
  IF q.mode = "task"
    THEN [q EXCEPT !.state = "READY"]
    ELSE [q EXCEPT !.state = "OFFERED", !.left = OfferMs]

\* materializeRequestOffer
Materialize(q) ==
  IF q.state = "READY" THEN [q EXCEPT !.state = "OFFERED", !.left = OfferMs] ELSE q

\* Mutation of Promotable: what is reserved is not looked at.
PromotableIfReserved(rq, live, r) ==
  /\ rq[r].state = "QUEUED" /\ rq[r].inst \in live
  /\ \A o \in DOMAIN rq : Overlap(rq[o], rq[r]) /\ rq[o].state = "QUEUED" => rq[o].seq >= rq[r].seq

\* Mutation of Promotable: a head whose instance is gone is passed over.
PromotablePastDead(rq, live, r) ==
  /\ rq[r].state = "QUEUED" /\ rq[r].inst \in live
  /\ \A o \in DOMAIN rq \ {r} :
       Overlap(rq[o], rq[r]) =>
         ~Reserved(rq[o])
         /\ ~(rq[o].state = "QUEUED" /\ rq[o].inst \in live /\ rq[o].seq < rq[r].seq)

(***************************************************************************)
(* A queued request goes next when its instance is connected, nothing it   *)
(* overlaps is reserved and nothing it overlaps was queued before it.  A   *)
(* head whose instance is gone keeps its place and blocks those behind it. *)
(***************************************************************************)
Promotable(rq, live, r) ==
  /\ rq[r].state = "QUEUED"
  /\ rq[r].inst \in live
  /\ \A o \in DOMAIN rq \ {r} :
       Overlap(rq[o], rq[r]) =>
         /\ ~Reserved(rq[o])
         /\ ~(rq[o].state = "QUEUED" /\ rq[o].seq < rq[r].seq)

PromoteAmong(targets, rq, live) ==
  [r \in DOMAIN rq |->
     IF rq[r].target \in targets /\ Promotable(rq, live, r)
       THEN MakeAvailable(rq[r]) ELSE rq[r]]

PromoteFileRequests(rq, live) == PromoteAmong(FileTargets, rq, live)
PromoteRequests(rq, live) == PromoteAmong(Targets, rq, live)

----------------------------------------------------------------------------
\* Mutation of Detach: a ready turn is left with the instance that went away.
DetachQueuedOnly(q, clean, committing) ==
  CASE q.state = "QUEUED" -> IF clean THEN Finish(q, "CANCELLED")
                             ELSE [q EXCEPT !.reconnect = Least(q.left, ReconnectMs)]
    [] q.state \in {"CLAIMED", "OFFERED"} /\ ~committing -> Finish(q, "EXPIRED")
    [] OTHER -> q

\* disconnectIn, for one request of the instance that goes away.
Detach(q, clean, committing) ==
  CASE IsFiles(q) ->
         IF Active(q) THEN Finish(q, IF clean THEN "CANCELLED" ELSE "EXPIRED") ELSE q
    [] ~IsFiles(q) /\ ~committing /\ q.state \in {"QUEUED", "READY"} ->
         IF clean THEN Finish(q, "CANCELLED")
         ELSE [q EXCEPT !.state = "QUEUED", !.reconnect = Least(q.left, ReconnectMs)]
    [] ~IsFiles(q) /\ ~committing /\ q.state \in {"CLAIMED", "OFFERED"} ->
         Finish(q, IF clean THEN "RELEASED" ELSE "EXPIRED")
    [] OTHER -> q

\* The table after the instances in gone have been disconnected.
DetachAll(rq, gone, clean, committing) ==
  [r \in DOMAIN rq |->
     IF rq[r].inst \in gone THEN Detach(rq[r], clean, r \in committing) ELSE rq[r]]

\* Mutation of Lapsed: a claimed turn has no deadline.
LapsedUnclaimed(q, jump) ==
  \/ q.state \in {"QUEUED", "READY"} /\ (q.left = 0 \/ q.reconnect = 0)
  \/ q.state \in {"READY", "OFFERED"} /\ jump
  \/ q.state = "OFFERED" /\ q.left = 0

\* Mutation of Lapsed: only turns that hold something are swept.
LapsedReserved(q, jump) ==
  \/ q.state = "READY" /\ (jump \/ q.left = 0 \/ q.reconnect = 0)
  \/ q.state \in {"OFFERED", "CLAIMED"} /\ ~IsFiles(q) /\ (jump \/ q.left = 0)

(***************************************************************************)
(* sweep: what has run out of time.  A jump of the clock invalidates every *)
(* deadline given out: of an unclaimed turn, and of a claimed one unless   *)
(* it is a file lock, which lasts as long as its session.                  *)
(***************************************************************************)
Lapsed(q, jump) ==
  \/ q.state \in {"QUEUED", "READY"} /\ (q.left = 0 \/ q.reconnect = 0)
  \/ q.state = "READY" /\ jump
  \/ q.state = "OFFERED" /\ (jump \/ q.left = 0)
  \/ q.state = "CLAIMED" /\ ~IsFiles(q) /\ (jump \/ q.left = 0)

Forgotten(q) == q.state \in FinalStates /\ q.left = 0

DropTask(q) == IF q.taskLeft = 0 THEN [q EXCEPT !.task = "none"] ELSE q

\* Rows whose commit is in flight are skipped; tasks are discarded by their own clock.
SweepRows(rq, jump, committing) ==
  [r \in {s \in DOMAIN rq : s \in committing \/ ~Forgotten(rq[s])} |->
     DropTask(IF r \notin committing /\ Lapsed(rq[r], jump)
                THEN Finish(rq[r], "EXPIRED") ELSE rq[r])]

\* initialize: the daemon starts on the rows a previous one left behind.
Recover(q) ==
  CASE IsFiles(q) -> IF Active(q) THEN Finish(q, "EXPIRED") ELSE q
    [] ~IsFiles(q) /\ q.state \in {"QUEUED", "READY"} ->
         [q EXCEPT !.state = "QUEUED", !.reconnect = Least(q.left, ReconnectMs)]
    [] ~IsFiles(q) /\ q.state \in {"OFFERED", "CLAIMED"} -> Finish(q, "EXPIRED")
    [] OTHER -> q

\* Mutation of Sooner: an elapsed deadline goes on falling.
SoonerForEver(t) == t - 1

\* One unit of time: every deadline is one closer, an elapsed one stays elapsed.
Sooner(t) == IF t > 0 THEN t - 1 ELSE t
Age(q) == [q EXCEPT !.left = Sooner(@), !.reconnect = Sooner(@), !.taskLeft = Sooner(@)]
=============================================================================
