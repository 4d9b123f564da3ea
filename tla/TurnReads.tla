------------------------------ MODULE TurnReads ------------------------------
(***************************************************************************)
(* What an agent reads with a turn: the readers of src/src/service.ts and  *)
(* ResourceReads (src/src/service/reads.ts). A reader looks whether the    *)
(* turn is held, gets a page of the revision the turn is based on, looks   *)
(* again, lists the tickets the page names and replies; each is a          *)
(* transaction of its own, and meanwhile the deadline passes, the operator *)
(* takes the turn away, other calls of the same agent commit or release,   *)
(* and others commit. The result of a task is read without any look. What  *)
(* does not fit in a reply stays in ReplyPages, where a cursor finds it,   *)
(* with or without the turn it was read with.                              *)
(*                                                                         *)
(* One resource. Turns has the claims and the queue; here one turn at a    *)
(* time is enough, and another agent's turn is its commit.                 *)
(***************************************************************************)
EXTENDS Naturals

CONSTANTS
    ReadCalls,       \* the agent's calls under way at one time
    MaxReadTurns,    \* bound on the turns it gets
    MaxReadRevision  \* bound on the commits

VARIABLES
    holding,    \* the agent's turn: its token and whether its deadline passed
    bases,      \* the revisions its turns were based on, in the rows of their requests
    current,    \* the current revision of the resource
    readCall,   \* each call: idle, or what it has found so far
    keptPages   \* ReplyPages: the revisions of the pages a cursor names
readVars == <<holding, bases, current, readCall, keptPages>>

TurnTokens == 1..MaxReadTurns
NoTurn == [token |-> 0, due |-> FALSE]
NoBase == 0
NotReading == [at |-> "idle"]

ReadsInit ==
    /\ holding = NoTurn
    /\ bases = [token \in TurnTokens |-> NoBase]
    /\ current = 1
    /\ readCall = [c \in ReadCalls |-> NotReading]
    /\ keptPages = {}

-----------------------------------------------------------------------------
(* The turn, while readers are at work. *)

\* TurnTokens and fences do not return.
ClaimsTurn(token) ==
    /\ holding = NoTurn /\ bases[token] = NoBase
    /\ holding' = [token |-> token, due |-> FALSE]
    /\ bases' = [bases EXCEPT ![token] = current]
    /\ UNCHANGED <<current, readCall, keptPages>>

\* Mutation of Holds: the deadline is left to the sweep.
HoldsUntilSwept(token) == holding.token = token

\* claimed: this turn is the agent's, its fence is current and its deadline has not passed.
Holds(token) == holding.token = token /\ ~holding.due

DeadlinePasses ==
    /\ holding # NoTurn /\ ~holding.due
    /\ holding' = [holding EXCEPT !.due = TRUE]
    /\ UNCHANGED <<bases, current, readCall, keptPages>>

\* A sweep finds the deadline passed; or a release, or the operator's.
LosesTurn ==
    /\ holding # NoTurn
    /\ holding' = NoTurn
    /\ UNCHANGED <<bases, current, readCall, keptPages>>

\* The agent's own commit consumes its turn; another agent's needs one of its own.
Commits ==
    /\ current < MaxReadRevision
    /\ ~holding.due
    /\ current' = current + 1
    /\ holding' = NoTurn
    /\ UNCHANGED <<bases, readCall, keptPages>>

-----------------------------------------------------------------------------
(* Readers with a turn: read, readTurn, ticketOutline, findTicket,         *)
(* claimedSnapshot and the first page of ResourceReads.read.               *)

AtRest(c) == readCall[c].at \in {"idle", "replied"}

ReadGoesOn(c, at) == readCall' = [readCall EXCEPT ![c].at = at]

\* A reader of a finished task (active is FALSE) only needs that the turn was once claimed.
Begins(c, token, active) ==
    /\ AtRest(c)
    /\ readCall' = [readCall EXCEPT ![c] =
          IF IF active THEN Holds(token) ELSE bases[token] # NoBase
          THEN [at |-> "looked", token |-> token, revision |-> bases[token], active |-> active]
          ELSE NotReading]
    /\ UNCHANGED <<holding, bases, current, keptPages>>

\* The page is of the revision the turn is based on, whatever the resource is by now. What
\* did not fit is captured with it, before the turn is looked at again.
Fetches(c) ==
    /\ readCall[c].at = "looked"
    /\ ReadGoesOn(c, "fetched")
    /\ \E more \in {{}, {readCall[c].revision}} : keptPages' = keptPages \cup more
    /\ UNCHANGED <<holding, bases, current>>

\* Mutation of LooksAgain: the look at the start is enough.
LooksOnce(c) == readCall[c].at = "fetched"

\* The sweep and the look after the page was read.
LooksAgain(c) ==
    /\ readCall[c].at = "fetched"
    /\ readCall[c].active => Holds(readCall[c].token)

Assures(c) ==
    /\ LooksAgain(c)
    /\ ReadGoesOn(c, "assured")
    /\ UNCHANGED <<holding, bases, current, keptPages>>

\* The reply leaves when the tickets have been listed, without another look.
Replies(c) ==
    /\ readCall[c].at = "assured"
    /\ ReadGoesOn(c, "replied")
    /\ UNCHANGED <<holding, bases, current, keptPages>>

\* The turn is found lost, or storage is busy.
Refuses(c) ==
    /\ ~AtRest(c)
    /\ readCall' = [readCall EXCEPT ![c] = NotReading]
    /\ UNCHANGED <<holding, bases, current, keptPages>>

-----------------------------------------------------------------------------
(* Pages by their cursor. *)

\* A read without a turn, of any revision, leaves pages too.
ReadsPlainly ==
    /\ \E revision \in 1..current : keptPages' = keptPages \cup {revision}
    /\ UNCHANGED <<holding, bases, current, readCall>>

\* Mutation of OfTheTurn: any turn on the resource will do.
OfAnyTurn(revision, token) == Holds(token)

\* The page is of the revision of the turn that the agent names.
OfTheTurn(revision, token) == Holds(token) /\ revision = bases[token]

ReadsOn(c, revision, token) ==
    /\ AtRest(c)
    /\ revision \in keptPages
    /\ readCall' = [readCall EXCEPT ![c] =
          IF OfTheTurn(revision, token)
          THEN [at |-> "assured", token |-> token, revision |-> revision, active |-> TRUE]
          ELSE NotReading]
    /\ UNCHANGED <<holding, bases, current, keptPages>>

\* An hour, or the agent's session, is over.
Forgotten ==
    /\ keptPages # {}
    /\ \E revision \in keptPages : keptPages' = keptPages \ {revision}
    /\ UNCHANGED <<holding, bases, current, readCall>>

ReadsNext ==
    \/ \E token \in TurnTokens : ClaimsTurn(token)
    \/ DeadlinePasses \/ LosesTurn \/ Commits \/ ReadsPlainly \/ Forgotten
    \/ \E c \in ReadCalls :
          \/ \E token \in TurnTokens :
                \/ \E active \in BOOLEAN : Begins(c, token, active)
                \/ \E revision \in keptPages : ReadsOn(c, revision, token)
          \/ Fetches(c) \/ Assures(c) \/ Replies(c) \/ Refuses(c)

ReadsSpec == ReadsInit /\ [][ReadsNext]_readVars

-----------------------------------------------------------------------------
(* Properties. *)

\* What an agent is shown under its turn is the resource as its commit would find it. A page
\* that was read some transactions ago, or is the rest of an earlier reply, goes on to the reply
\* only when the turn is found held and in time, and is then of the current revision. The reply
\* may come later, and the result of a task comes without any look: but as long as the agent has
\* the turn a reply names, what it was shown is current, and its commit replaces nothing unseen.
PagesAreCommittable ==
    [][\A c \in ReadCalls :
          /\ readCall'[c].at = "assured" /\ readCall'[c] # readCall[c] /\ readCall'[c].active =>
                /\ readCall'[c].revision = current
                /\ holding.token = readCall'[c].token /\ ~holding.due
          /\ readCall'[c].at = "replied" /\ readCall'[c].token = holding'.token =>
                readCall'[c].revision = current']_readVars

\* Does not hold: a reply under a turn that is lost while the tickets are listed.
RepliesAreInTime ==
    [][\A c \in ReadCalls :
          readCall'[c].at = "replied" /\ readCall'[c] # readCall[c] =>
              holding.token = readCall'[c].token /\ ~holding.due]_readVars
=============================================================================
