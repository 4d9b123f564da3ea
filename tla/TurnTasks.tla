------------------------------ MODULE TurnTasks -------------------------------
(***************************************************************************)
(* Turn requests that an MCP client follows as tasks (acquireMcpTurn,      *)
(* getTask and cancelTask of src/src/service.ts). A poll of a task whose   *)
(* turn is ready makes the offer, claims it and completes the task, in     *)
(* transactions of their own: between them others claim, cancel, commit    *)
(* and release, the sweep expires requests, and discards tasks.            *)
(*                                                                         *)
(* All calls are of one identity with several attachments, in one queue.   *)
(* What queues are made of and what a clock does to them is in Turns: here *)
(* a request may expire whenever it is active, but for a write in flight.  *)
(***************************************************************************)
EXTENDS Naturals, Sequences

CONSTANTS
    Attachments,   \* instances of the identity
    Asks,          \* ids of requests, which are those of their tasks
    Polls          \* calls of getTask

VARIABLES
    asks,     \* requests: their state, attachment and way of delivery
    line,     \* the asks in the order of their sequence numbers
    verdict,  \* of each ask's task
    granted,  \* asks that were claimed at some time
    poll      \* the calls of getTask under way

taskVars == <<asks, line, verdict, granted, poll>>

Pending == {"QUEUED", "READY", "OFFERED"}
Held == {"READY", "OFFERED", "CLAIMED"}
InForce == Pending \cup {"CLAIMED"}
Verdicts == {"none", "working", "completed", "failed", "cancelled"}

NoPoll == [at |-> "idle"]

TasksInit ==
    /\ asks = [q \in Asks |-> [state |-> "none"]]
    /\ line = <<>>
    /\ verdict = [q \in Asks |-> "none"]
    /\ granted = {}
    /\ poll = [p \in Polls |-> NoPoll]

Stored == {q \in Asks : asks[q].state # "none"}
Moved(as, q, to) == [as EXCEPT ![q].state = to]

\* promote: when nobody holds the resource, the first who waits is next.
Waits(as, ln) == {i \in DOMAIN ln : as[ln[i]].state = "QUEUED"}
Advanced(as, ln) ==
    IF Waits(as, ln) = {} \/ \E q \in Asks : as[q].state \in Held THEN as
    ELSE LET next == ln[CHOOSE i \in Waits(as, ln) : \A j \in Waits(as, ln) : i <= j]
         IN  Moved(as, next, IF as[next].mode = "task" THEN "READY" ELSE "OFFERED")

\* finishRequest for the task that still works.
VerdictOf(final, was) ==
    IF was # "working" \/ final = "COMMITTED" THEN was
    ELSE IF final = "FAILED" THEN "failed" ELSE "cancelled"

EndAsk(q, final) ==
    /\ asks' = Advanced(Moved(asks, q, final), line)
    /\ verdict' = [verdict EXCEPT ![q] = VerdictOf(final, @)]
    /\ UNCHANGED <<line, granted>>

-----------------------------------------------------------------------------
(* Requests. *)

\* acquireMcpTurn with a target: requestResourceTurn. What is granted at once needs no task.
AcquireTurn(a, q, mode) ==
    /\ asks[q].state = "none"
    /\ \A o \in Stored : asks[o].by = a => asks[o].state \notin InForce
    /\ line' = Append(line, q)
    /\ LET new == [state |-> "QUEUED", by |-> a, mode |-> mode]
           queued == Advanced([asks EXCEPT ![q] = new], line')
           atOnce == mode = "task" /\ queued[q].state = "READY"
       IN  /\ asks' = IF atOnce THEN [queued EXCEPT ![q].state = "OFFERED", ![q].mode = "ticket"]
                      ELSE queued
           /\ verdict' = [verdict EXCEPT ![q] = IF mode = "task" /\ ~atOnce THEN "working" ELSE @]
    /\ UNCHANGED <<granted, poll>>

\* ensureTurnTask: acquireMcpTurn with the token of a request that waits.
Follow(a, q) ==
    /\ asks[q].state \in {"QUEUED", "READY"} /\ asks[q].by = a /\ verdict[q] = "none"
    /\ asks' = [asks EXCEPT ![q].mode = "task"]
    /\ verdict' = [verdict EXCEPT ![q] = "working"]
    /\ UNCHANGED <<line, granted, poll>>

\* status, which waitForTurn asks for: a turn that is ready becomes an offer.
Offer(q) ==
    /\ asks[q].state = "READY"
    /\ asks' = Moved(asks, q, "OFFERED")
    /\ UNCHANGED <<line, verdict, granted, poll>>

\* claimTurn: the offer is of the attachment that asked.
Claimable(a, q) == asks[q].state = "OFFERED" /\ asks[q].by = a
ClaimBy(a, q) ==
    /\ asks' = Moved(asks, q, "CLAIMED")
    /\ granted' = granted \cup {q}
    /\ UNCHANGED <<line, verdict>>

\* acquireMcpTurn, once it was shown the offer.
Claim(a, q) == Claimable(a, q) /\ ClaimBy(a, q) /\ UNCHANGED poll

\* commitTurn, releaseTurn.
Use(q, final) == asks[q].state = "CLAIMED" /\ EndAsk(q, final) /\ UNCHANGED poll
\* cancelTurnRequest and cancelTask.
CancelTurn(q) == asks[q].state \in Pending /\ EndAsk(q, "CANCELLED") /\ UNCHANGED poll
\* sweep.
Lapse(q) == asks[q].state \in InForce /\ EndAsk(q, "EXPIRED") /\ UNCHANGED poll
Discard(q) ==
    /\ verdict[q] # "none"
    /\ verdict' = [verdict EXCEPT ![q] = "none"]
    /\ UNCHANGED <<asks, line, granted, poll>>

-----------------------------------------------------------------------------
(* Polls. *)

At(p, step) == [poll EXCEPT ![p].at = step]
Done(p) == [poll EXCEPT ![p] = NoPoll]

\* taskAcquisitions: one poll of a task at a time. The first transaction makes the offer,
\* or sees that the turn is claimed; else there is no more to do than to show the task.
PollLooks(p, a, q) ==
    /\ poll[p] = NoPoll /\ \A o \in Polls : poll[o] # NoPoll => poll[o].ask # q
    /\ verdict[q] # "none"
    /\ LET offers == verdict[q] = "working" /\ asks[q].state \in {"READY", "OFFERED"}
           claimed == verdict[q] = "working" /\ asks[q].state = "CLAIMED"
       IN  /\ offers \/ claimed
           /\ asks' = IF offers THEN Moved(asks, q, "OFFERED") ELSE asks
           /\ verdict' = [verdict EXCEPT ![q] = IF claimed THEN "completed" ELSE @]
           /\ poll' = [poll EXCEPT ![p] =
                 IF offers THEN [at |-> "claim", by |-> a, ask |-> q] ELSE @]
    /\ UNCHANGED <<line, granted>>

PollClaims(p) ==
    /\ poll[p].at = "claim"
    /\ Claimable(poll[p].by, poll[p].ask)
    /\ ClaimBy(poll[p].by, poll[p].ask)
    /\ poll' = At(p, "settle")

\* The claim is refused, or storage is busy.
PollIsRefused(p) ==
    /\ poll[p].at = "claim"
    /\ poll' = At(p, "give up")
    /\ UNCHANGED <<asks, line, verdict, granted>>

\* The second transaction; the task may have been discarded before it.
PollSettles(p) ==
    /\ poll[p].at = "settle"
    /\ LET q == poll[p].ask
           sure == verdict[q] # "none" /\ asks[q].state = "CLAIMED"
       IN  /\ verdict' = [verdict EXCEPT ![q] = IF sure THEN "completed" ELSE @]
           /\ poll' = IF sure THEN Done(p) ELSE At(p, "give up")
    /\ UNCHANGED <<asks, line, granted>>

\* Mutation of GivesUp: the task fails, and nobody ends its request.
GivesUpTask(q) == verdict' = [verdict EXCEPT ![q] = "failed"] /\ UNCHANGED <<asks, line, granted>>

\* The catch block, for a task that works.
GivesUp(q) ==
    IF asks[q].state \in InForce THEN EndAsk(q, "FAILED")
    ELSE verdict' = [verdict EXCEPT ![q] = "failed"] /\ UNCHANGED <<asks, line, granted>>

PollGivesUp(p) ==
    /\ poll[p].at = "give up"
    /\ IF verdict[poll[p].ask] = "working" THEN GivesUp(poll[p].ask)
       ELSE UNCHANGED <<asks, line, verdict, granted>>
    /\ poll' = Done(p)

TasksNext ==
    \/ \E a \in Attachments, q \in Asks :
          \/ \E mode \in {"ticket", "task"} : AcquireTurn(a, q, mode)
          \/ Follow(a, q) \/ Claim(a, q)
          \/ \E p \in Polls : PollLooks(p, a, q)
    \/ \E q \in Asks :
          \/ Offer(q) \/ CancelTurn(q) \/ Lapse(q) \/ Discard(q)
          \/ \E final \in {"COMMITTED", "RELEASED"} : Use(q, final)
    \/ \E p \in Polls : PollClaims(p) \/ PollIsRefused(p) \/ PollSettles(p) \/ PollGivesUp(p)

TasksSpec == TasksInit /\ [][TasksNext]_taskVars

-----------------------------------------------------------------------------
(* Properties. *)

\* A task that says completed had its turn; one that says failed or cancelled has none, now or
\* to come, so that its client may ask again; and one that works is for a turn that is pending
\* or held, or was used without its task. Whatever other attachments, the sweep and direct
\* claims do between the transactions of a poll.
VerdictsAreTrue ==
    \A q \in Asks :
        /\ verdict[q] = "completed" => q \in granted
        /\ verdict[q] \in {"failed", "cancelled"} => asks[q].state \notin InForce
        /\ verdict[q] = "working" => asks[q].state \in InForce \cup {"COMMITTED"}

\* Does not hold: a task works as long as its turn does. A turn claimed with the request's
\* token and committed leaves its task working until it is discarded.
WorkEnds == \A q \in Asks : verdict[q] = "working" => asks[q].state \in InForce

\* Does not hold: a poll takes no claimed turn away. One that finds the offer claimed by a
\* direct call, or that comes from another attachment, marks the request FAILED.
ClaimsSurvivePolls ==
    [][\A q \in Asks : asks[q].state = "CLAIMED" => asks'[q].state # "FAILED"]_taskVars
=============================================================================
