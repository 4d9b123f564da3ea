---------------------------- MODULE StorageProofs ----------------------------
(***************************************************************************)
(* The connection pool of the control store, for any number of units of    *)
(* work and connections: callers are told the truth, and no connection is  *)
(* leased with a transaction left open, worn, or after the close.          *)
(*                                                                         *)
(* And the processes that share a data directory, for any number of        *)
(* daemons, launchers and resets: one at most has its storage. The owner's *)
(* lock says who it is, and a socket leads to nobody but that one.         *)
(*                                                                         *)
(* Writers of content take turns: KeyedMutex implements KeyedLock, for any *)
(* number of keys, calls and promises. And what taking turns gives to the  *)
(* graph of tickets, whose writers all use one key: it stays without       *)
(* cycles and who becomes ready is told of it, for any number of agents,   *)
(* tickets and writes. Nobody else is at work meanwhile, so the snapshot   *)
(* that a commit judges by is what it writes to.                           *)
(*                                                                         *)
(* And the files of the diagnostic log, for any number of writers, lines   *)
(* and files: what was written is kept in order until it is pushed out.    *)
(***************************************************************************)
EXTENDS
    TursoStore, DaemonOwnership, KeyedMutex, Tickets, DiagnosticLog, Integers,
    FiniteSetTheorems, TLAPS

-----------------------------------------------------------------------------
(* The pool. *)

Distinct(q) == \A i, j \in DOMAIN q : q[i] = q[j] => i = j
ElementsOf(q) == {q[i] : i \in DOMAIN q}

(***************************************************************************)
(* Of a call that is not through, nothing has happened and nothing is      *)
(* told.  AnswersAreTrue needs it at the step that settles the call, and   *)
(* needs that those in the queue are waiting, whom a close answers.        *)
(***************************************************************************)
Undecided(c) ==
  /\ answer[c] = "none" /\ applied[c] = 0 /\ c \notin published
  /\ attempts[c] < MaxAttempts

CallsTold ==
  /\ \A c \in Calls : callAt[c] # "done" => Undecided(c)
  /\ AnswersAreTrue
  /\ Distinct(waiters)
  /\ \A c \in ElementsOf(waiters) : callAt[c] = "waiting"

(***************************************************************************)
(* A slot is free, leased, to be replaced or out of use, and never two of  *)
(* these.  Only the first of those to be replaced has begun.               *)
(***************************************************************************)
Underway(s) == step[s] \in {"opening", "configuring", "closing"}

SlotsSorted ==
  /\ \A s \in Slots : lease[s] # NoCall => state[s] = "leased"
  /\ Distinct(available)
  /\ \A s \in ElementsOf(available) :
        state[s] = "available" /\ lease[s] = NoCall /\ prepares[s] < PrepareLimit
  /\ Distinct(replacing)
  /\ \A s \in ElementsOf(replacing) : state[s] = "retiring" /\ lease[s] = NoCall
  /\ \A s \in Slots : step[s] # "none" <=> s \in ElementsOf(replacing)
  /\ \A s \in Slots : Underway(s) => AtWork(s)

PhasesKept ==
  /\ phase \in {"starting", "failed"} =>
       /\ replacing = <<>> /\ Leases = {} /\ waiters = <<>> /\ unresolved = {}
       /\ \A s \in Slots : generation[s] = 0 /\ prepares[s] = 0
  /\ phase = "starting" =>
       /\ \A s \in ElementsOf(available) : <<s, 0>> \in open
       /\ \A s \in Slots : state[s] = "available"
  /\ phase = "open" => unresolved = {}
  /\ phase \notin {"starting", "open"} => waiters = <<>> /\ available = <<>>
  /\ phase \in {"settling", "closing", "closed"} => Leases = {}
  /\ phase \in {"closing", "closed"} => replacing = <<>>

(***************************************************************************)
(* The connections that are open beyond those in use: at most the one a    *)
(* replacement has opened, or that a failed one has left to the close.     *)
(***************************************************************************)
InUse == {<<s, generation[s]>> : s \in Slots}
Extra == open \ InUse

ExtraIsOne ==
  /\ \A x, y \in Extra : x = y
  /\ \A s \in Slots : step[s] = "opening" => Extra = {}
  /\ \A s \in Slots :
       step[s] \in {"configuring", "closing"} => Extra \subseteq {<<s, generation[s] + 1>>}
  /\ phase \in {"starting", "open"} /\ (\A s \in Slots : ~Underway(s)) => Extra = {}

StoreInv ==
  /\ StoreTypeOK
  /\ CallsTold
  /\ SlotsSorted
  /\ PhasesKept
  /\ UnresolvedIsNeverLeased
  /\ NoIdleConnection
  /\ ExtraIsOne

-----------------------------------------------------------------------------
(* Queues. *)

LEMMA EmptyQueue ==
  ASSUME NEW S
  PROVE  <<>> \in Seq(S) /\ ElementsOf(<<>>) = {} /\ Distinct(<<>>)
BY DEF ElementsOf, Distinct

LEMMA AppendQueue ==
  ASSUME NEW S, NEW q \in Seq(S), NEW x \in S
  PROVE  /\ Append(q, x) \in Seq(S) /\ Append(q, x) # <<>>
         /\ ElementsOf(Append(q, x)) = ElementsOf(q) \cup {x}
         /\ Distinct(q) /\ x \notin ElementsOf(q) => Distinct(Append(q, x))
         /\ q # <<>> => Head(Append(q, x)) = Head(q)
         /\ q = <<>> => Head(Append(q, x)) = x
<1>1. /\ Append(q, x) \in Seq(S) /\ DOMAIN Append(q, x) = 1..(Len(q) + 1)
      /\ DOMAIN q = 1..Len(q) /\ Len(q) \in Nat
      /\ \A i \in 1..Len(q) : Append(q, x)[i] = q[i]
      /\ Append(q, x)[Len(q) + 1] = x
  OBVIOUS
<1> DEFINE p == Append(q, x)
<1>2. ElementsOf(p) = ElementsOf(q) \cup {x}
  <2>1. ElementsOf(p) \subseteq ElementsOf(q) \cup {x}
    BY <1>1 DEF ElementsOf
  <2>2. ElementsOf(q) \subseteq ElementsOf(p)
    BY <1>1 DEF ElementsOf
  <2>3. x \in ElementsOf(p)
    BY <1>1 DEF ElementsOf
  <2> QED
    BY <2>1, <2>2, <2>3
<1>3. ASSUME Distinct(q), x \notin ElementsOf(q)
      PROVE  Distinct(p)
  <2> SUFFICES ASSUME NEW i \in DOMAIN p, NEW j \in DOMAIN p, p[i] = p[j]
               PROVE  i = j
    BY DEF Distinct
  <2>1. \A k \in 1..Len(q) : q[k] # x
    BY <1>1, <1>3 DEF ElementsOf
  <2> QED
    BY <1>1, <1>3, <2>1 DEF Distinct
<1>4. p # <<>> /\ (q # <<>> => Head(p) = Head(q)) /\ (q = <<>> => Head(p) = x)
  BY <1>1
<1> QED
  BY <1>1, <1>2, <1>3, <1>4

LEMMA TailQueue ==
  ASSUME NEW S, NEW q \in Seq(S), q # <<>>
  PROVE  /\ Tail(q) \in Seq(S) /\ Head(q) \in S /\ Head(q) \in ElementsOf(q)
         /\ ElementsOf(Tail(q)) \subseteq ElementsOf(q)
         /\ Distinct(q) => Distinct(Tail(q)) /\ ElementsOf(Tail(q)) = ElementsOf(q) \ {Head(q)}
<1>1. /\ Len(q) \in Nat \ {0} /\ DOMAIN q = 1..Len(q)
      /\ Tail(q) \in Seq(S) /\ DOMAIN Tail(q) = 1..(Len(q) - 1)
      /\ \A i \in 1..(Len(q) - 1) : Tail(q)[i] = q[i + 1]
      /\ Head(q) = q[1] /\ q[1] \in S
  OBVIOUS
<1> DEFINE p == Tail(q)
<1>2. Head(q) \in ElementsOf(q) /\ ElementsOf(p) \subseteq ElementsOf(q)
  BY <1>1 DEF ElementsOf
<1>3. ASSUME Distinct(q)
      PROVE  Distinct(p) /\ ElementsOf(p) = ElementsOf(q) \ {Head(q)}
  <2>1. Distinct(p)
    <3> SUFFICES ASSUME NEW i \in DOMAIN p, NEW j \in DOMAIN p, p[i] = p[j]
                 PROVE  i = j
      BY DEF Distinct
    <3>1. q[i + 1] = q[j + 1] /\ i + 1 \in DOMAIN q /\ j + 1 \in DOMAIN q
      BY <1>1
    <3> QED
      BY <1>1, <1>3, <3>1 DEF Distinct
  <2>2. Head(q) \notin ElementsOf(p)
    BY <1>1, <1>3 DEF ElementsOf, Distinct
  <2>3. \A x \in ElementsOf(q) : x = Head(q) \/ x \in ElementsOf(p)
    <3> SUFFICES ASSUME NEW i \in 1..Len(q), q[i] # Head(q)
                 PROVE  q[i] \in ElementsOf(p)
      BY <1>1 DEF ElementsOf
    <3>1. i - 1 \in 1..(Len(q) - 1) /\ q[i] = p[i - 1]
      BY <1>1
    <3> QED
      BY <1>1, <3>1 DEF ElementsOf
  <2> QED
    BY <1>2, <2>1, <2>2, <2>3
<1> QED
  BY <1>1, <1>2, <1>3

LEMMA NoMembers ==
  ASSUME NEW S, NEW q \in Seq(S)
  PROVE  q = <<>> <=> ElementsOf(q) = {}
<1>1. ASSUME q # <<>> PROVE Head(q) \in ElementsOf(q)
  BY <1>1, TailQueue
<1> QED
  BY <1>1, EmptyQueue

-----------------------------------------------------------------------------
(* What hands a slot on. *)

\* The slot's unit of work has ended, by a commit or not.
AttemptEnds(s, to) ==
  /\ Working(s) /\ to \in {"done", "backoff"}
  /\ Release(s, to)
  /\ UNCHANGED <<prepares, unresolved, generation, open, phase>>

LEMMA LeaseIsCall ==
  ASSUME StoreTypeOK, NEW s \in Slots, Working(s)
  PROVE  lease[s] \in Calls /\ callAt[lease[s]] = "working" /\ s \notin unresolved
BY DEF StoreTypeOK, Working, Leases

\* Where the calls are when slot s is made available, with the others at left.
LEMMA HandsOn ==
  ASSUME StoreTypeOK, CallsTold, NEW s \in Slots,
         NEW left \in [Calls -> {"new", "waiting", "working", "backoff", "done"}],
         \A c \in ElementsOf(waiters) : left[c] = "waiting",
         MakeAvailable(s, left)
  PROVE  /\ callAt' \in [Calls -> {"new", "waiting", "working", "backoff", "done"}]
         /\ waiters' \in Seq(Calls) /\ Distinct(waiters')
         /\ \A c \in ElementsOf(waiters') : callAt'[c] = "waiting"
         /\ \A c \in Calls : callAt'[c] = left[c]
                             \/ (left[c] = "waiting" /\ callAt'[c] = "working")
<1>1. waiters \in Seq(Calls) /\ Distinct(waiters)
  BY DEF StoreTypeOK, CallsTold
<1>2. CASE Running /\ waiters # <<>>
  <2> DEFINE h == Head(waiters)
  <2>1. waiters' = Tail(waiters) /\ callAt' = [left EXCEPT ![h] = "working"]
    BY <1>2 DEF MakeAvailable
  <2>2. /\ h \in Calls /\ h \in ElementsOf(waiters) /\ waiters' \in Seq(Calls)
        /\ Distinct(waiters') /\ ElementsOf(waiters') = ElementsOf(waiters) \ {h}
    BY <1>1, <1>2, <2>1, TailQueue
  <2> HIDE DEF h
  <2>3. \A c \in ElementsOf(waiters') : c \in Calls
    BY <2>2 DEF ElementsOf
  <2> QED
    BY <2>1, <2>2, <2>3
<1>3. CASE ~(Running /\ waiters # <<>>)
  <2>1. waiters' = waiters /\ callAt' = left
    BY <1>3 DEF MakeAvailable, poolVars
  <2> QED
    BY <1>1, <2>1
<1> QED
  BY <1>2, <1>3

LEMMA EndsCalls ==
  ASSUME StoreTypeOK, CallsTold, NEW s \in Slots, NEW to, AttemptEnds(s, to)
  PROVE  /\ callAt' \in [Calls -> {"new", "waiting", "working", "backoff", "done"}]
         /\ waiters' \in Seq(Calls) /\ Distinct(waiters')
         /\ \A c \in ElementsOf(waiters') : callAt'[c] = "waiting"
         /\ callAt'[lease[s]] = to
         /\ \A c \in Calls : c # lease[s] /\ callAt[c] = "done" => callAt'[c] = "done"
         /\ \A c \in Calls : c # lease[s] /\ callAt'[c] = "done" => callAt[c] = "done"
<1> DEFINE c == lease[s]
           left == [callAt EXCEPT ![c] = to]
<1>1. c \in Calls /\ callAt[c] = "working" /\ to \in {"done", "backoff"}
  BY LeaseIsCall DEF AttemptEnds
<1>2. /\ left \in [Calls -> {"new", "waiting", "working", "backoff", "done"}]
      /\ waiters \in Seq(Calls) /\ Distinct(waiters)
      /\ \A d \in ElementsOf(waiters) : callAt[d] = "waiting" /\ d \in Calls
  BY <1>1 DEF StoreTypeOK, CallsTold, ElementsOf
<1>3. \A d \in ElementsOf(waiters) : left[d] = "waiting"
  BY <1>1, <1>2 DEF StoreTypeOK
<1>4. left[c] = to /\ \A d \in Calls : d # c => left[d] = callAt[d]
  BY <1>1 DEF StoreTypeOK
<1>5. CASE Running /\ prepares[s] >= PrepareLimit
  <2>1. callAt' = left /\ waiters' = waiters
    BY <1>5 DEF AttemptEnds, Release, poolVars
  <2> QED
    BY <1>1, <1>2, <1>3, <1>4, <2>1
<1>6. CASE ~(Running /\ prepares[s] >= PrepareLimit)
  <2>1. MakeAvailable(s, left)
    BY <1>6 DEF AttemptEnds, Release
  <2> HIDE DEF left, c
  <2>2. /\ callAt' \in [Calls -> {"new", "waiting", "working", "backoff", "done"}]
        /\ waiters' \in Seq(Calls) /\ Distinct(waiters')
        /\ \A d \in ElementsOf(waiters') : callAt'[d] = "waiting"
        /\ \A d \in Calls : callAt'[d] = left[d]
                            \/ (left[d] = "waiting" /\ callAt'[d] = "working")
    BY <1>2, <1>3, <2>1, HandsOn
  <2> QED
    BY <1>1, <1>4, <2>2 DEF c
<1> QED
  BY <1>5, <1>6

-----------------------------------------------------------------------------
(* Callers. *)

LEMMA ClosingCalls ==
  ASSUME StoreTypeOK, NEW told \in [Calls -> Answers],
         NEW stage \in [Calls -> {"new", "waiting", "working", "backoff", "done"}],
         StartClosing(told, stage)
  PROVE  /\ callAt' \in [Calls -> {"new", "waiting", "working", "backoff", "done"}]
         /\ answer' \in [Calls -> Answers]
         /\ waiters' = <<>> /\ available' = <<>> /\ phase' = "draining"
         /\ \A c \in ElementsOf(waiters) : callAt'[c] = "done" /\ answer'[c] = "unavailable"
         /\ \A c \in Calls : c \notin ElementsOf(waiters) =>
               callAt'[c] = stage[c] /\ answer'[c] = told[c]
<1>1. ElementsOf(waiters) \subseteq Calls
  BY DEF StoreTypeOK, ElementsOf
<1>2. /\ callAt' = [c \in Calls |-> IF c \in ElementsOf(waiters) THEN "done" ELSE stage[c]]
      /\ answer' = [c \in Calls |-> IF c \in ElementsOf(waiters) THEN "unavailable" ELSE told[c]]
      /\ waiters' = <<>> /\ available' = <<>> /\ phase' = "draining"
  BY DEF StartClosing, ElementsOf
<1> QED
  BY <1>1, <1>2 DEF Answers

LEMMA EndsTypes ==
  ASSUME StoreTypeOK, CallsTold, NEW s \in Slots, NEW to, AttemptEnds(s, to)
  PROVE  /\ state' \in [Slots -> {"available", "leased", "retiring", "quarantined", "closed"}]
         /\ lease' \in [Slots -> Calls \cup {NoCall}]
         /\ available' \in Seq(Slots) /\ replacing' \in Seq(Slots)
         /\ step' \in [Slots -> {"none", "queued", "opening", "configuring", "closing"}]
<1>1. waiters # <<>> => Head(waiters) \in Calls
  BY TailQueue DEF StoreTypeOK
<1>2. Append(available, s) \in Seq(Slots) /\ Append(replacing, s) \in Seq(Slots)
  BY AppendQueue DEF StoreTypeOK
<1>3. CASE Running /\ prepares[s] >= PrepareLimit
  BY <1>2, <1>3 DEF AttemptEnds, Release, StoreTypeOK, poolVars
<1>4. CASE ~(Running /\ prepares[s] >= PrepareLimit)
  <2>1. PICK left : MakeAvailable(s, left) /\ UNCHANGED <<replacing, step>>
    BY <1>4 DEF AttemptEnds, Release
  <2> QED
    BY <1>1, <1>2, <2>1 DEF MakeAvailable, StoreTypeOK, poolVars
<1> QED
  BY <1>3, <1>4

LEMMA Replaced ==
  ASSUME NEW A, NEW B, NEW f \in [A -> B], NEW a \in A, NEW b \in B
  PROVE  /\ [f EXCEPT ![a] = b] \in [A -> B] /\ [f EXCEPT ![a] = b][a] = b
         /\ \A x \in A : x # a => [f EXCEPT ![a] = b][x] = f[x]
OBVIOUS

\* An attempt ends with an answer, which may be none yet, after `tries` conflicts.
Settles(s, to, ans, done, tries) ==
  /\ AttemptEnds(s, to)
  /\ ans \in Answers /\ done \in {0, 1} /\ tries \in 0..MaxAttempts
  /\ answer' = [answer EXCEPT ![lease[s]] = ans]
  /\ applied' = [applied EXCEPT ![lease[s]] = done]
  /\ published' = IF ans = "ok" THEN published \cup {lease[s]} ELSE published
  /\ attempts' = [attempts EXCEPT ![lease[s]] = tries]
  /\ to = "backoff" => ans = "none" /\ done = 0 /\ tries < MaxAttempts
  /\ ans = "ok" => done = 1
  /\ ans \notin {"ok", "unknown"} => done = 0

LEMMA EndsTold ==
  ASSUME StoreTypeOK, CallsTold, NEW s \in Slots, NEW to, NEW ans, NEW done, NEW tries,
         Settles(s, to, ans, done, tries)
  PROVE  StoreTypeOK' /\ CallsTold'
<1> DEFINE c == lease[s]
<1>0. AttemptEnds(s, to)
  BY DEF Settles
<1>1. c \in Calls /\ callAt[c] = "working" /\ to \in {"done", "backoff"}
  BY <1>0, LeaseIsCall DEF AttemptEnds
<1>2. /\ callAt' \in [Calls -> {"new", "waiting", "working", "backoff", "done"}]
      /\ waiters' \in Seq(Calls) /\ Distinct(waiters')
      /\ \A d \in ElementsOf(waiters') : callAt'[d] = "waiting"
      /\ callAt'[c] = to
      /\ \A d \in Calls : d # c /\ callAt'[d] # "done" => callAt[d] # "done"
  BY <1>0, EndsCalls
<1>3. Undecided(c)
  BY <1>1 DEF CallsTold
<1> HIDE DEF c
<1>4. /\ answer' = [answer EXCEPT ![c] = ans] /\ applied' = [applied EXCEPT ![c] = done]
      /\ published' = (IF ans = "ok" THEN published \cup {c} ELSE published)
      /\ attempts' = [attempts EXCEPT ![c] = tries]
      /\ ans \in Answers /\ done \in {0, 1} /\ tries \in 0..MaxAttempts
      /\ to = "backoff" => ans = "none" /\ done = 0 /\ tries < MaxAttempts
      /\ ans = "ok" => done = 1
      /\ ans \notin {"ok", "unknown"} => done = 0
  BY DEF c, Settles
<1>5. /\ answer' \in [Calls -> Answers] /\ applied' \in [Calls -> Nat]
      /\ published' \subseteq Calls /\ attempts' \in [Calls -> 0..MaxAttempts]
      /\ answer'[c] = ans /\ applied'[c] = done /\ (c \in published' <=> ans = "ok")
      /\ attempts'[c] = tries
      /\ \A d \in Calls : d # c =>
           /\ answer'[d] = answer[d] /\ applied'[d] = applied[d]
           /\ d \in published' <=> d \in published
           /\ attempts'[d] = attempts[d]
  <2>1. /\ published' \subseteq Calls
        /\ c \in published' <=> ans = "ok"
        /\ \A d \in Calls : d # c => (d \in published' <=> d \in published)
    BY <1>1, <1>3, <1>4 DEF StoreTypeOK, Undecided
  <2>2. /\ answer \in [Calls -> Answers] /\ attempts \in [Calls -> 0..MaxAttempts]
        /\ applied \in [Calls -> Nat] /\ done \in Nat
    BY <1>4 DEF StoreTypeOK
  <2>3. /\ answer' \in [Calls -> Answers] /\ answer'[c] = ans
        /\ \A d \in Calls : d # c => answer'[d] = answer[d]
    BY <1>1, <1>4, <2>2, Replaced
  <2>4. /\ attempts' \in [Calls -> 0..MaxAttempts] /\ attempts'[c] = tries
        /\ \A d \in Calls : d # c => attempts'[d] = attempts[d]
    BY <1>1, <1>4, <2>2, Replaced
  <2>5. /\ applied' \in [Calls -> Nat] /\ applied'[c] = done
        /\ \A d \in Calls : d # c => applied'[d] = applied[d]
    BY <1>1, <1>4, <2>2, Replaced
  <2> QED
    BY <2>1, <2>3, <2>4, <2>5
<1>6. StoreTypeOK'
  <2>1. /\ state' \in [Slots -> {"available", "leased", "retiring", "quarantined", "closed"}]
        /\ lease' \in [Slots -> Calls \cup {NoCall}]
        /\ available' \in Seq(Slots) /\ replacing' \in Seq(Slots)
        /\ step' \in [Slots -> {"none", "queued", "opening", "configuring", "closing"}]
    BY <1>0, EndsTypes
  <2>2. /\ prepares' = prepares /\ unresolved' = unresolved /\ generation' = generation
        /\ open' = open /\ phase' = phase
    BY <1>0 DEF AttemptEnds
  <2> QED
    BY <1>2, <1>5, <2>1, <2>2 DEF StoreTypeOK
<1>7. \A d \in Calls : callAt'[d] # "done" => Undecided(d)'
  BY <1>1, <1>2, <1>4, <1>5 DEF CallsTold, Undecided
<1>8. AnswersAreTrue'
  <2> SUFFICES ASSUME NEW d \in Calls
               PROVE  /\ applied'[d] <= 1
                      /\ answer'[d] = "ok" <=> d \in published'
                      /\ answer'[d] = "ok" => applied'[d] = 1
                      /\ answer'[d] \notin {"ok", "unknown"} => applied'[d] = 0
    BY DEF AnswersAreTrue
  <2>1. CASE d = c
    BY <1>4, <1>5, <2>1
  <2>2. CASE d # c
    BY <1>5, <2>2 DEF CallsTold, AnswersAreTrue
  <2> QED
    BY <2>1, <2>2
<1> QED
  BY <1>2, <1>6, <1>7, <1>8 DEF CallsTold

Attempt(s) == Commit(s) \/ CallbackFails(s) \/ Conflict(s) \/ CommitUncertain(s)

LEMMA AttemptsEnd ==
  ASSUME NEW s \in Slots, Attempt(s)
  PROVE  \E to \in {"done", "backoff"} : AttemptEnds(s, to)
<1>1. CASE Commit(s)
  BY <1>1 DEF Commit, AttemptEnds
<1>2. CASE CallbackFails(s)
  BY <1>2 DEF CallbackFails, AttemptEnds
<1>3. CASE Conflict(s)
  BY <1>3 DEF Conflict, AttemptEnds
<1>4. CASE CommitUncertain(s)
  BY <1>4 DEF CommitUncertain, AttemptEnds
<1> QED
  BY <1>1, <1>2, <1>3, <1>4 DEF Attempt

LEMMA AttemptTold ==
  ASSUME StoreTypeOK, CallsTold, NEW s \in Slots, Attempt(s)
  PROVE  StoreTypeOK' /\ CallsTold'
<1> DEFINE c == lease[s]
<1>1. c \in Calls /\ callAt[c] = "working"
  BY LeaseIsCall DEF Attempt, Commit, CallbackFails, Conflict, CommitUncertain
<1>2. Undecided(c)
  BY <1>1 DEF CallsTold
<1>3. /\ answer \in [Calls -> Answers] /\ applied \in [Calls -> Nat]
      /\ attempts \in [Calls -> 0..MaxAttempts] /\ MaxAttempts \in Nat
      /\ answer[c] = "none" /\ applied[c] = 0 /\ attempts[c] < MaxAttempts
      /\ answer[c] \in Answers /\ attempts[c] \in 0..MaxAttempts
  BY <1>1, <1>2, StoreAssumption DEF StoreTypeOK, Undecided
<1>4. /\ answer = [answer EXCEPT ![c] = "none"]
      /\ applied = [applied EXCEPT ![c] = 0]
      /\ attempts = [attempts EXCEPT ![c] = attempts[c]]
  BY <1>1, <1>3
<1>5. {"none", "ok", "failed", "busy", "unknown"} \subseteq Answers
  BY DEF Answers
<1>6. CASE Commit(s)
  <2>1. AttemptEnds(s, "done")
    BY <1>6 DEF Commit, AttemptEnds
  <2>2. applied' = [applied EXCEPT ![c] = 1]
    BY <1>3, <1>6 DEF Commit
  <2>3. Settles(s, "done", "ok", 1, attempts[c])
    BY <1>3, <1>4, <1>5, <1>6, <2>1, <2>2 DEF Commit, Settles
  <2> QED
    BY <2>3, EndsTold
<1>7. CASE CallbackFails(s)
  <2>1. AttemptEnds(s, "done")
    BY <1>7 DEF CallbackFails, AttemptEnds
  <2>2. Settles(s, "done", "failed", 0, attempts[c])
    BY <1>3, <1>4, <1>5, <1>7, <2>1 DEF CallbackFails, Settles
  <2> QED
    BY <2>2, EndsTold
<1>8. CASE Conflict(s)
  <2>1. attempts' = [attempts EXCEPT ![c] = attempts[c] + 1] /\ attempts[c] + 1 \in 0..MaxAttempts
    BY <1>3, <1>8 DEF Conflict
  <2>2. CASE attempts[c] + 1 = MaxAttempts
    <3>1. AttemptEnds(s, "done")
      BY <1>8, <2>2 DEF Conflict, AttemptEnds
    <3>2. Settles(s, "done", "busy", 0, attempts[c] + 1)
      BY <1>3, <1>4, <1>5, <1>8, <2>1, <2>2, <3>1 DEF Conflict, Settles
    <3> QED
      BY <3>2, EndsTold
  <2>3. CASE attempts[c] + 1 # MaxAttempts
    <3>1. AttemptEnds(s, "backoff")
      BY <1>8, <2>3 DEF Conflict, AttemptEnds
    <3>2. Settles(s, "backoff", "none", 0, attempts[c] + 1)
      BY <1>3, <1>4, <1>5, <1>8, <2>1, <2>3, <3>1 DEF Conflict, Settles
    <3> QED
      BY <3>2, EndsTold
  <2> QED
    BY <2>2, <2>3
<1>9. CASE CommitUncertain(s)
  <2>1. AttemptEnds(s, "done")
    BY <1>9 DEF CommitUncertain, AttemptEnds
  <2>2. PICK done \in {0, 1} : applied' = [applied EXCEPT ![c] = @ + done]
    BY <1>9 DEF CommitUncertain
  <2>3. applied' = [applied EXCEPT ![c] = done]
    BY <1>3, <2>2
  <2>4. Settles(s, "done", "unknown", done, attempts[c])
    BY <1>3, <1>4, <1>5, <1>9, <2>1, <2>3 DEF CommitUncertain, Settles
  <2> QED
    BY <2>4, EndsTold
<1> QED
  BY <1>6, <1>7, <1>8, <1>9 DEF Attempt

\* Nothing changes for the calls when those that wait stay as they are or go on.
LEMMA SameTold ==
  ASSUME StoreTypeOK, CallsTold, UNCHANGED <<attempts, answer, applied, published>>,
         callAt' \in [Calls -> {"new", "waiting", "working", "backoff", "done"}],
         waiters' \in Seq(Calls), Distinct(waiters'),
         \A c \in ElementsOf(waiters') : callAt'[c] = "waiting",
         \A c \in Calls : callAt'[c] # "done" => callAt[c] # "done"
  PROVE  CallsTold'
<1>1. \A c \in Calls : callAt'[c] # "done" => Undecided(c)'
  BY DEF CallsTold, Undecided
<1>2. AnswersAreTrue'
  BY DEF CallsTold, AnswersAreTrue
<1> QED
  BY <1>1, <1>2 DEF CallsTold

\* A close tells those that wait; another call may have been told before.
LEMMA ClosingTold ==
  ASSUME StoreTypeOK, CallsTold, NEW told \in [Calls -> Answers],
         NEW stage \in [Calls -> {"new", "waiting", "working", "backoff", "done"}],
         StartClosing(told, stage), UNCHANGED <<attempts, applied, published>>,
         \A c \in Calls : stage[c] # "done" => callAt[c] # "done",
         \A c \in Calls : told[c] = answer[c]
                          \/ (told[c] = "unknown" /\ stage[c] = "done" /\ callAt[c] # "done")
  PROVE  CallsTold'
<1>1. /\ waiters' = <<>>
      /\ \A c \in ElementsOf(waiters) : callAt'[c] = "done" /\ answer'[c] = "unavailable"
      /\ \A c \in Calls : c \notin ElementsOf(waiters) =>
            callAt'[c] = stage[c] /\ answer'[c] = told[c]
  BY ClosingCalls
<1>2. \A c \in ElementsOf(waiters) : c \in Calls /\ Undecided(c)
  <2>1. ElementsOf(waiters) \subseteq Calls
    BY DEF StoreTypeOK, ElementsOf
  <2>2. \A c \in ElementsOf(waiters) : callAt[c] # "done"
    BY DEF CallsTold
  <2> QED
    BY <2>1, <2>2 DEF CallsTold
<1>3. \A c \in Calls : callAt[c] # "done" => Undecided(c)
  BY DEF CallsTold
<1>4. \A c \in Calls : callAt'[c] # "done" => Undecided(c)'
  <2> SUFFICES ASSUME NEW c \in Calls, callAt'[c] # "done"
               PROVE  answer'[c] = answer[c] /\ Undecided(c)
    <3>1. UNCHANGED <<attempts, applied, published>>
      OBVIOUS
    <3> QED
      BY <3>1 DEF Undecided
  <2>1. c \notin ElementsOf(waiters) /\ stage[c] # "done"
    BY <1>1
  <2> QED
    BY <1>1, <1>3, <2>1
<1>5. AnswersAreTrue'
  <2> SUFFICES ASSUME NEW c \in Calls
               PROVE  /\ applied[c] <= 1
                      /\ answer'[c] = "ok" <=> c \in published
                      /\ answer'[c] = "ok" => applied[c] = 1
                      /\ answer'[c] \notin {"ok", "unknown"} => applied[c] = 0
    BY DEF AnswersAreTrue
  <2>1. CASE answer'[c] = answer[c]
    BY <2>1 DEF CallsTold, AnswersAreTrue
  <2>2. CASE answer'[c] # answer[c]
    <3>1. answer'[c] \in {"unavailable", "unknown"} /\ Undecided(c)
      BY <1>1, <1>2, <1>3, <2>2
    <3> QED
      BY <3>1 DEF Undecided
  <2> QED
    BY <2>1, <2>2
<1>6. Distinct(waiters') /\ ElementsOf(waiters') = {}
  BY <1>1, EmptyQueue
<1> QED
  BY <1>4, <1>5, <1>6 DEF CallsTold

LEMMA AcquireTold ==
  ASSUME StoreTypeOK, CallsTold, NEW c \in Calls, Acquire(c)
  PROVE  StoreTypeOK' /\ CallsTold'
<1>1. callAt[c] \in {"new", "backoff"} /\ Undecided(c) /\ c \notin ElementsOf(waiters)
  BY DEF Acquire, CallsTold
<1>2. /\ callAt \in [Calls -> {"new", "waiting", "working", "backoff", "done"}]
      /\ waiters \in Seq(Calls) /\ available \in Seq(Slots) /\ answer \in [Calls -> Answers]
  BY DEF StoreTypeOK
<1>3. UNCHANGED <<attempts, applied, published, prepares, unresolved, replaceVars, phase>>
  BY DEF Acquire
<1>4. CASE ~Running
  <2>1. /\ callAt' = [callAt EXCEPT ![c] = "done"]
        /\ answer' = [answer EXCEPT ![c] = "unavailable"]
        /\ UNCHANGED <<state, lease, poolVars>>
    BY <1>4 DEF Acquire
  <2>2. StoreTypeOK'
    BY <1>3, <2>1 DEF StoreTypeOK, poolVars, replaceVars, Answers
  <2>3. /\ \A d \in Calls : callAt'[d] # "done" => d # c /\ callAt[d] = callAt'[d]
        /\ \A d \in Calls : d # c => callAt'[d] = callAt[d] /\ answer'[d] = answer[d]
        /\ answer'[c] = "unavailable"
    BY <1>2, <2>1 DEF Answers
  <2>4. \A d \in Calls : callAt'[d] # "done" => Undecided(d)'
    BY <1>3, <2>3 DEF CallsTold, Undecided
  <2>5. AnswersAreTrue'
    <3> SUFFICES ASSUME NEW d \in Calls
                 PROVE  /\ applied'[d] <= 1
                        /\ answer'[d] = "ok" <=> d \in published'
                        /\ answer'[d] = "ok" => applied'[d] = 1
                        /\ answer'[d] \notin {"ok", "unknown"} => applied'[d] = 0
      BY DEF AnswersAreTrue
    <3>1. CASE d = c
      BY <1>1, <1>3, <2>3, <3>1 DEF Undecided
    <3>2. CASE d # c
      BY <1>3, <2>3, <3>2 DEF CallsTold, AnswersAreTrue
    <3> QED
      BY <3>1, <3>2
  <2>6. Distinct(waiters') /\ \A d \in ElementsOf(waiters') : callAt'[d] = "waiting"
    <3>1. waiters' = waiters /\ ElementsOf(waiters) \subseteq Calls
      BY <1>2, <2>1 DEF poolVars, ElementsOf
    <3> QED
      BY <1>1, <2>3, <3>1 DEF CallsTold
  <2> QED
    BY <2>2, <2>4, <2>5, <2>6 DEF CallsTold
<1>5. CASE Running /\ waiters' = waiters
  <2>1. /\ available # <<>>
        /\ lease' = [lease EXCEPT ![Head(available)] = c]
        /\ state' = [state EXCEPT ![Head(available)] = "leased"]
        /\ available' = Tail(available)
        /\ callAt' = [callAt EXCEPT ![c] = "working"] /\ answer' = answer
    <3>1. Append(waiters, c) # waiters
      BY <1>1, <1>2, AppendQueue
    <3> QED
      BY <1>5, <3>1 DEF Acquire
  <2>2. Head(available) \in Slots /\ Tail(available) \in Seq(Slots)
    BY <1>2, <2>1, TailQueue
  <2>3. StoreTypeOK'
    BY <1>3, <1>5, <2>1, <2>2 DEF StoreTypeOK, replaceVars
  <2>4. \A d \in ElementsOf(waiters') : callAt'[d] = "waiting"
    BY <1>1, <1>2, <1>5, <2>1 DEF CallsTold, ElementsOf
  <2>5. /\ callAt' \in [Calls -> {"new", "waiting", "working", "backoff", "done"}]
        /\ \A d \in Calls : callAt'[d] # "done" => callAt[d] # "done"
    BY <1>1, <1>2, <2>1
  <2>6. waiters' \in Seq(Calls) /\ Distinct(waiters')
    BY <1>2, <1>5 DEF CallsTold
  <2> QED
    BY <1>3, <2>1, <2>3, <2>4, <2>5, <2>6, SameTold
<1>6. CASE Running /\ waiters' # waiters
  <2>1. /\ waiters' = Append(waiters, c) /\ callAt' = [callAt EXCEPT ![c] = "waiting"]
        /\ UNCHANGED <<state, lease, available, answer>>
    BY <1>6 DEF Acquire
  <2>2. /\ waiters' \in Seq(Calls) /\ ElementsOf(waiters') = ElementsOf(waiters) \cup {c}
        /\ Distinct(waiters')
    BY <1>1, <1>2, <2>1, AppendQueue DEF CallsTold
  <2>3. StoreTypeOK'
    BY <1>3, <2>1, <2>2 DEF StoreTypeOK, replaceVars
  <2>4. \A d \in ElementsOf(waiters') : callAt'[d] = "waiting"
    BY <1>1, <1>2, <2>1, <2>2 DEF CallsTold, ElementsOf
  <2>5. /\ callAt' \in [Calls -> {"new", "waiting", "working", "backoff", "done"}]
        /\ \A d \in Calls : callAt'[d] # "done" => callAt[d] # "done"
    BY <1>1, <1>2, <2>1
  <2> QED
    BY <1>3, <2>1, <2>2, <2>3, <2>4, <2>5, SameTold
<1> QED
  BY <1>4, <1>5, <1>6

LEMMA HandsOnTypes ==
  ASSUME StoreTypeOK, NEW s \in Slots, NEW left, MakeAvailable(s, left)
  PROVE  /\ state' \in [Slots -> {"available", "leased", "retiring", "quarantined", "closed"}]
         /\ lease' \in [Slots -> Calls \cup {NoCall}]
         /\ available' \in Seq(Slots)
<1>1. waiters # <<>> => Head(waiters) \in Calls
  BY TailQueue DEF StoreTypeOK
<1>2. Append(available, s) \in Seq(Slots)
  BY AppendQueue DEF StoreTypeOK
<1> QED
  BY <1>1, <1>2 DEF MakeAvailable, StoreTypeOK, poolVars

LEMMA RollbackTold ==
  ASSUME StoreTypeOK, CallsTold, NEW s \in Slots, RollbackUnresolved(s)
  PROVE  StoreTypeOK' /\ CallsTold'
<1> DEFINE c == lease[s]
           told == [answer EXCEPT ![c] = "unknown"]
           stage == [callAt EXCEPT ![c] = "done"]
<1>1. c \in Calls /\ callAt[c] = "working"
  BY LeaseIsCall DEF RollbackUnresolved
<1>2. Undecided(c)
  BY <1>1 DEF CallsTold
<1>3. /\ told \in [Calls -> Answers]
      /\ stage \in [Calls -> {"new", "waiting", "working", "backoff", "done"}]
      /\ told[c] = "unknown" /\ stage[c] = "done"
      /\ \A d \in Calls : d # c => told[d] = answer[d] /\ stage[d] = callAt[d]
  BY <1>1 DEF StoreTypeOK, Answers
<1>4. /\ unresolved' = unresolved \cup {s} /\ lease' = [lease EXCEPT ![s] = NoCall]
      /\ UNCHANGED <<attempts, applied, published, state, prepares, replaceVars>>
      /\ IF Running THEN StartClosing(told, stage)
         ELSE answer' = told /\ callAt' = stage /\ UNCHANGED <<poolVars, phase>>
  BY DEF RollbackUnresolved
<1> HIDE DEF told, stage, c
<1>5. CASE Running
  <2>1. StartClosing(told, stage)
    BY <1>4, <1>5
  <2>2. /\ callAt' \in [Calls -> {"new", "waiting", "working", "backoff", "done"}]
        /\ answer' \in [Calls -> Answers]
        /\ waiters' = <<>> /\ available' = <<>> /\ phase' = "draining"
    BY <1>3, <2>1, ClosingCalls
  <2>3. StoreTypeOK'
    BY <1>4, <2>2 DEF StoreTypeOK, replaceVars
  <2>4. /\ \A d \in Calls : stage[d] # "done" => callAt[d] # "done"
        /\ \A d \in Calls : told[d] = answer[d]
                            \/ (told[d] = "unknown" /\ stage[d] = "done" /\ callAt[d] # "done")
    BY <1>1, <1>3
  <2>5. CallsTold'
    BY <1>3, <1>4, <2>1, <2>4, ClosingTold
  <2> QED
    BY <2>3, <2>5
<1>6. CASE ~Running
  <2>1. answer' = told /\ callAt' = stage /\ UNCHANGED <<poolVars, phase>>
    BY <1>4, <1>6
  <2>2. StoreTypeOK'
    BY <1>3, <1>4, <2>1 DEF StoreTypeOK, replaceVars, poolVars
  <2>3. \A d \in Calls : callAt'[d] # "done" => Undecided(d)'
    BY <1>1, <1>3, <1>4, <2>1 DEF CallsTold, Undecided
  <2>4. AnswersAreTrue'
    <3> SUFFICES ASSUME NEW d \in Calls
                 PROVE  /\ applied'[d] <= 1
                        /\ answer'[d] = "ok" <=> d \in published'
                        /\ answer'[d] = "ok" => applied'[d] = 1
                        /\ answer'[d] \notin {"ok", "unknown"} => applied'[d] = 0
      BY DEF AnswersAreTrue
    <3>1. CASE d = c
      BY <1>2, <1>3, <1>4, <2>1, <3>1 DEF Undecided
    <3>2. CASE d # c
      BY <1>3, <1>4, <2>1, <3>2 DEF CallsTold, AnswersAreTrue
    <3> QED
      BY <3>1, <3>2
  <2>5. Distinct(waiters') /\ \A d \in ElementsOf(waiters') : callAt'[d] = "waiting"
    <3>1. waiters' = waiters /\ ElementsOf(waiters) \subseteq Calls
      BY <2>1 DEF poolVars, ElementsOf, StoreTypeOK
    <3> QED
      BY <1>1, <1>3, <2>1, <3>1 DEF CallsTold
  <2> QED
    BY <2>2, <2>3, <2>4, <2>5 DEF CallsTold
<1> QED
  BY <1>5, <1>6

LEMMA CloseTold ==
  ASSUME StoreTypeOK, CallsTold, StartClosing(answer, callAt),
         UNCHANGED <<attempts, applied, published>>
  PROVE  /\ CallsTold' /\ waiters' = <<>> /\ available' = <<>> /\ phase' = "draining"
         /\ callAt' \in [Calls -> {"new", "waiting", "working", "backoff", "done"}]
         /\ answer' \in [Calls -> Answers]
<1>1. /\ answer \in [Calls -> Answers]
      /\ callAt \in [Calls -> {"new", "waiting", "working", "backoff", "done"}]
  BY DEF StoreTypeOK
<1> QED
  BY <1>1, ClosingCalls, ClosingTold

\* Steps that leave every call and the queue alone.
LEMMA QuietTold == CallsTold /\ UNCHANGED <<callVars, waiters>> => CallsTold'
  BY DEF CallsTold, Undecided, AnswersAreTrue, callVars, Distinct, ElementsOf

LEMMA StepTold ==
  ASSUME StoreInv, StoreNext
  PROVE  StoreTypeOK' /\ CallsTold'
<1> USE DEF StoreInv
<1>1. CASE OpenFails \/ Drained \/ ReplacementsSettled
  <2>1. UNCHANGED <<callVars, waiters>>
    BY <1>1 DEF OpenFails, Drained, ReplacementsSettled, poolVars
  <2>2. StoreTypeOK'
    BY <1>1, EmptyQueue DEF OpenFails, Drained, ReplacementsSettled, StoreTypeOK, callVars,
       slotVars, poolVars, replaceVars
  <2> QED
    BY <2>1, <2>2, QuietTold
<1>2. CASE Close
  <2>1. CallsTold' /\ waiters' = <<>> /\ available' = <<>> /\ phase' = "draining"
        /\ callAt' \in [Calls -> {"new", "waiting", "working", "backoff", "done"}]
        /\ answer' \in [Calls -> Answers]
    BY <1>2, CloseTold DEF Close
  <2> QED
    BY <1>2, <2>1 DEF Close, StoreTypeOK, slotVars, replaceVars
<1>3. ASSUME NEW c \in Calls, Acquire(c) PROVE StoreTypeOK' /\ CallsTold'
  BY <1>3, AcquireTold
<1>4. ASSUME NEW s \in Slots, OpenConnection(s) \/ Prepare(s)
      PROVE  StoreTypeOK' /\ CallsTold'
  <2>1. UNCHANGED <<callVars, waiters>>
    BY <1>4 DEF OpenConnection, Prepare, poolVars
  <2>2. CASE OpenConnection(s)
    <3>1. available' \in Seq(Slots) /\ open' \subseteq Slots \X Nat
      BY <2>2, AppendQueue DEF OpenConnection, StoreTypeOK
    <3>2. StoreTypeOK'
      BY <2>2, <3>1 DEF OpenConnection, StoreTypeOK, callVars, slotVars
    <3> QED
      BY <2>1, <3>2, QuietTold
  <2>3. CASE Prepare(s)
    <3>1. StoreTypeOK'
      BY <2>3 DEF Prepare, StoreTypeOK, callVars, poolVars, replaceVars
    <3> QED
      BY <2>1, <3>1, QuietTold
  <2> QED
    BY <1>4, <2>2, <2>3
<1>5. ASSUME NEW s \in Slots, Attempt(s) PROVE StoreTypeOK' /\ CallsTold'
  BY <1>5, AttemptTold
<1>6. ASSUME NEW s \in Slots, RollbackUnresolved(s) PROVE StoreTypeOK' /\ CallsTold'
  BY <1>6, RollbackTold
<1>7. ASSUME NEW s \in Slots, ReplaceStarts(s) \/ ReplaceOpens(s) \/ ReplaceConfigures(s)
      PROVE  StoreTypeOK' /\ CallsTold'
  <2>1. UNCHANGED <<callVars, waiters>>
    BY <1>7 DEF ReplaceStarts, ReplaceOpens, ReplaceConfigures, poolVars
  <2>2. CASE ReplaceStarts(s)
    <3>1. Tail(replacing) \in Seq(Slots)
      BY <2>2, TailQueue DEF ReplaceStarts, AtWork, StoreTypeOK
    <3>2. StoreTypeOK'
      BY <2>2, <3>1 DEF ReplaceStarts, StoreTypeOK, callVars, slotVars, poolVars
    <3> QED
      BY <2>1, <3>2, QuietTold
  <2>3. CASE ReplaceOpens(s)
    <3>1. generation[s] + 1 \in Nat
      BY DEF StoreTypeOK
    <3>2. StoreTypeOK'
      BY <2>3, <3>1 DEF ReplaceOpens, StoreTypeOK, callVars, slotVars, poolVars
    <3> QED
      BY <2>1, <3>2, QuietTold
  <2>4. CASE ReplaceConfigures(s)
    <3>1. StoreTypeOK'
      BY <2>4 DEF ReplaceConfigures, StoreTypeOK, callVars, slotVars, poolVars
    <3> QED
      BY <2>1, <3>1, QuietTold
  <2> QED
    BY <1>7, <2>2, <2>3, <2>4
<1>8. ASSUME NEW s \in Slots, ReplaceEnds(s) PROVE StoreTypeOK' /\ CallsTold'
  <2>1. /\ MakeAvailable(s, callAt)
        /\ UNCHANGED <<attempts, answer, applied, published, unresolved, phase>>
    BY <1>8 DEF ReplaceEnds
  <2>2. callAt \in [Calls -> {"new", "waiting", "working", "backoff", "done"}]
    BY DEF StoreTypeOK
  <2>3. /\ callAt' \in [Calls -> {"new", "waiting", "working", "backoff", "done"}]
        /\ waiters' \in Seq(Calls) /\ Distinct(waiters')
        /\ \A c \in ElementsOf(waiters') : callAt'[c] = "waiting"
        /\ \A c \in Calls : callAt'[c] # "done" => callAt[c] # "done"
    <3>1. \A c \in ElementsOf(waiters) : callAt[c] = "waiting"
      BY DEF CallsTold
    <3> QED
      BY <2>1, <2>2, <3>1, HandsOn
  <2>4. /\ state' \in [Slots -> {"available", "leased", "retiring", "quarantined", "closed"}]
        /\ lease' \in [Slots -> Calls \cup {NoCall}] /\ available' \in Seq(Slots)
    BY <2>1, HandsOnTypes
  <2>5. Tail(replacing) \in Seq(Slots) /\ generation[s] + 1 \in Nat
    BY <1>8, TailQueue DEF ReplaceEnds, AtWork, StoreTypeOK
  <2>6. StoreTypeOK'
    BY <1>8, <2>3, <2>4, <2>5 DEF ReplaceEnds, StoreTypeOK
  <2> QED
    BY <2>1, <2>3, <2>6, SameTold
<1>9. ASSUME NEW s \in Slots, ReplaceFails(s) PROVE StoreTypeOK' /\ CallsTold'
  <2>1. /\ Tail(replacing) \in Seq(Slots) /\ replacing' = Tail(replacing)
        /\ UNCHANGED <<attempts, applied, published, lease, prepares, unresolved, generation,
                       open>>
    BY <1>9, TailQueue DEF ReplaceFails, AtWork, StoreTypeOK
  <2>2. CASE Running
    <3>1. CallsTold' /\ waiters' = <<>> /\ available' = <<>> /\ phase' = "draining"
          /\ callAt' \in [Calls -> {"new", "waiting", "working", "backoff", "done"}]
          /\ answer' \in [Calls -> Answers]
      BY <1>9, <2>1, <2>2, CloseTold DEF ReplaceFails
    <3>2. waiters' \in Seq(Calls) /\ available' \in Seq(Slots)
      BY <3>1
    <3>3. /\ state' = [state EXCEPT ![s] = "quarantined"]
          /\ step' = [step EXCEPT ![s] = "none"]
      BY <1>9 DEF ReplaceFails
    <3> QED
      BY <2>1, <3>1, <3>2, <3>3 DEF StoreTypeOK
  <2>3. CASE ~Running
    <3>1. UNCHANGED <<callVars, waiters>> /\ UNCHANGED <<available, phase>>
      <4>1. UNCHANGED <<callAt, answer, poolVars, phase>>
        BY <1>9, <2>3 DEF ReplaceFails
      <4> QED
        BY <2>1, <4>1 DEF callVars, poolVars
    <3>2. StoreTypeOK'
      BY <1>9, <2>1, <3>1 DEF ReplaceFails, StoreTypeOK, callVars
    <3> QED
      BY <3>1, <3>2, QuietTold
  <2> QED
    BY <2>2, <2>3
<1>10. ASSUME NEW stuck \in SUBSET open, CloseConnections(stuck)
       PROVE  StoreTypeOK' /\ CallsTold'
  <2>1. UNCHANGED <<callVars, waiters>>
    BY <1>10 DEF CloseConnections, poolVars
  <2>2. StoreTypeOK'
    BY <1>10 DEF CloseConnections, StoreTypeOK, callVars, poolVars
  <2> QED
    BY <2>1, <2>2, QuietTold
<1> QED
  BY <1>1, <1>2, <1>3, <1>4, <1>5, <1>6, <1>7, <1>8, <1>9, <1>10 DEF StoreNext, Attempt

-----------------------------------------------------------------------------
(* Slots. *)

LEMMA HandsOnSlots ==
  ASSUME StoreTypeOK, Distinct(available), NoIdleConnection,
         NEW s \in Slots, s \notin ElementsOf(available), NEW left, MakeAvailable(s, left)
  PROVE  /\ \A u \in Slots : u # s => state'[u] = state[u] /\ lease'[u] = lease[u]
         /\ Distinct(available')
         /\ \A u \in ElementsOf(available') : u \in ElementsOf(available)
              \/ (u = s /\ Running /\ state'[u] = "available" /\ lease'[u] = NoCall)
         /\ lease'[s] # NoCall => Running /\ state'[s] = "leased"
         /\ ~Running => lease'[s] = NoCall /\ UNCHANGED <<state, poolVars>>
         /\ Running => waiters' = <<>> \/ available' = <<>>
         /\ Running => state'[s] \in {"leased", "available"}
<1>1. /\ available \in Seq(Slots) /\ state \in [Slots -> {"available", "leased", "retiring",
                                                          "quarantined", "closed"}]
      /\ lease \in [Slots -> Calls \cup {NoCall}]
  BY DEF StoreTypeOK
<1>2. CASE ~Running
  BY <1>1, <1>2 DEF MakeAvailable, poolVars
<1>3. CASE Running /\ waiters # <<>>
  BY <1>1, <1>3 DEF MakeAvailable, NoIdleConnection
<1>4. CASE Running /\ waiters = <<>>
  <2>1. /\ state' = [state EXCEPT ![s] = "available"] /\ lease' = [lease EXCEPT ![s] = NoCall]
        /\ available' = Append(available, s) /\ waiters' = waiters
    BY <1>4 DEF MakeAvailable
  <2>2. Distinct(available') /\ ElementsOf(available') = ElementsOf(available) \cup {s}
    BY <1>1, <2>1, AppendQueue
  <2> QED
    BY <1>1, <1>4, <2>1, <2>2
<1> QED
  BY <1>2, <1>3, <1>4

\* Only the replacement at work has begun.
LEMMA OneAtWork ==
  ASSUME SlotsSorted, NEW s \in Slots, AtWork(s)
  PROVE  \A u \in Slots : u # s => ~Underway(u)
BY DEF SlotsSorted, AtWork

LEMMA EndsSlots ==
  ASSUME StoreTypeOK, SlotsSorted, NoIdleConnection, NEW s \in Slots, NEW to,
         AttemptEnds(s, to)
  PROVE  /\ SlotsSorted' /\ NoIdleConnection'
         /\ \A u \in Slots : lease'[u] \notin {NoCall, lease[u]} => prepares[u] < PrepareLimit
         /\ \A u \in Slots : u # s => state'[u] = state[u] /\ lease'[u] = lease[u]
         /\ s \notin ElementsOf(replacing) /\ lease[s] # NoCall
         /\ ~Running => lease'[s] = NoCall /\ UNCHANGED <<poolVars, replacing>>
         /\ \A u \in Slots : Underway(u)' <=> Underway(u)
         /\ \A u \in Slots : Underway(u) => step'[u] = step[u]
<1>1. lease[s] \in Calls /\ lease[s] # NoCall /\ state[s] = "leased" /\ s \notin unresolved
  BY LeaseIsCall, StoreAssumption DEF AttemptEnds, SlotsSorted
<1>2. s \notin ElementsOf(available) /\ s \notin ElementsOf(replacing) /\ step[s] = "none"
  BY <1>1 DEF SlotsSorted
<1>3. UNCHANGED <<prepares, unresolved, generation, open, phase>>
  BY DEF AttemptEnds
<1>4. /\ state \in [Slots -> {"available", "leased", "retiring", "quarantined", "closed"}]
      /\ lease \in [Slots -> Calls \cup {NoCall}] /\ prepares \in [Slots -> Nat]
      /\ step \in [Slots -> {"none", "queued", "opening", "configuring", "closing"}]
      /\ available \in Seq(Slots) /\ replacing \in Seq(Slots) /\ PrepareLimit \in Nat
  BY StoreAssumption DEF StoreTypeOK
<1>5. CASE Running /\ prepares[s] >= PrepareLimit
  <2>1. /\ state' = [state EXCEPT ![s] = "retiring"] /\ lease' = [lease EXCEPT ![s] = NoCall]
        /\ replacing' = Append(replacing, s) /\ step' = [step EXCEPT ![s] = "queued"]
        /\ UNCHANGED <<available, waiters>>
    BY <1>5 DEF AttemptEnds, Release, poolVars
  <2>2. /\ Distinct(replacing') /\ ElementsOf(replacing') = ElementsOf(replacing) \cup {s}
        /\ replacing' # <<>> /\ (replacing # <<>> => Head(replacing') = Head(replacing))
    BY <1>2, <1>4, <2>1, AppendQueue DEF SlotsSorted
  <2>3. /\ \A u \in Slots : u # s =>
               state'[u] = state[u] /\ lease'[u] = lease[u] /\ step'[u] = step[u]
        /\ state'[s] = "retiring" /\ lease'[s] = NoCall /\ step'[s] = "queued"
    BY <1>4, <2>1
  <2>4. ElementsOf(available) \subseteq Slots /\ ElementsOf(replacing) \subseteq Slots
    BY <1>4 DEF ElementsOf
  <2>5. \A u \in Slots : (Underway(u)' <=> Underway(u)) /\ (Underway(u) => step'[u] = step[u])
    BY <1>2, <2>3 DEF Underway
  <2>6. \A u \in Slots : Underway(u)' => AtWork(u)'
    BY <2>2, <2>5 DEF SlotsSorted, AtWork
  <2>7. ElementsOf(available') = ElementsOf(available) /\ Distinct(available')
    BY <2>1 DEF SlotsSorted
  <2>8. SlotsSorted'
    BY <1>2, <1>3, <2>2, <2>3, <2>4, <2>6, <2>7 DEF SlotsSorted
  <2>9. NoIdleConnection'
    BY <1>3, <2>1 DEF NoIdleConnection, Running
  <2> QED
    BY <1>1, <1>2, <1>5, <2>3, <2>5, <2>8, <2>9
<1>6. CASE ~(Running /\ prepares[s] >= PrepareLimit)
  <2>1. PICK left : MakeAvailable(s, left) /\ UNCHANGED <<replacing, step>>
    BY <1>6 DEF AttemptEnds, Release
  <2>2. /\ \A u \in Slots : u # s => state'[u] = state[u] /\ lease'[u] = lease[u]
        /\ Distinct(available')
        /\ \A u \in ElementsOf(available') : u \in ElementsOf(available)
             \/ (u = s /\ Running /\ state'[u] = "available" /\ lease'[u] = NoCall)
        /\ lease'[s] # NoCall => Running /\ state'[s] = "leased"
        /\ ~Running => lease'[s] = NoCall /\ UNCHANGED <<state, poolVars>>
        /\ Running => waiters' = <<>> \/ available' = <<>>
    BY <1>2, <2>1, HandsOnSlots DEF SlotsSorted
  <2>3. ElementsOf(available) \subseteq Slots /\ ElementsOf(replacing) \subseteq Slots
    BY <1>4 DEF ElementsOf
  <2>4. Running => prepares[s] < PrepareLimit
    BY <1>4, <1>6
  <2>5. \A u \in Slots : (Underway(u)' <=> Underway(u)) /\ (Underway(u)' => AtWork(u)')
    BY <2>1 DEF Underway, SlotsSorted, AtWork
  <2>6. /\ \A u \in Slots : lease'[u] # NoCall => state'[u] = "leased"
        /\ \A u \in ElementsOf(available') :
             state'[u] = "available" /\ lease'[u] = NoCall /\ prepares[u] < PrepareLimit
    BY <1>2, <2>2, <2>3, <2>4 DEF SlotsSorted
  <2>7. /\ Distinct(replacing') /\ ElementsOf(replacing') = ElementsOf(replacing) /\ step' = step
        /\ \A u \in ElementsOf(replacing) : u # s /\ state'[u] = "retiring" /\ lease'[u] = NoCall
    BY <1>2, <2>1, <2>2, <2>3 DEF SlotsSorted
  <2>8. SlotsSorted'
    BY <1>3, <2>2, <2>5, <2>6, <2>7 DEF SlotsSorted
  <2>9. NoIdleConnection'
    BY <1>3, <2>2 DEF NoIdleConnection, Running
  <2> QED
    BY <1>1, <1>2, <2>1, <2>2, <2>4, <2>5, <2>8, <2>9
<1> QED
  BY <1>5, <1>6

PoolInv == SlotsSorted /\ PhasesKept /\ UnresolvedIsNeverLeased /\ NoIdleConnection

FreshIsLeased ==
  \A s \in Slots : lease'[s] \notin {NoCall, lease[s]} => prepares'[s] < PrepareLimit
ClosedIsQuiet ==
  phase' \in {"closing", "closed"} =>
    /\ Leases' = {} /\ waiters' = <<>>
    /\ open' \subseteq open
    /\ \A s \in Slots : step'[s] = "none"
PoolStep == FreshIsLeased /\ ClosedIsQuiet

LEMMA AttemptSlots ==
  ASSUME StoreTypeOK, PoolInv, NEW s \in Slots, NEW to, AttemptEnds(s, to)
  PROVE  PoolInv' /\ PoolStep
<1> USE DEF PoolInv
<1>1. /\ SlotsSorted' /\ NoIdleConnection'
      /\ \A u \in Slots : lease'[u] \notin {NoCall, lease[u]} => prepares[u] < PrepareLimit
      /\ \A u \in Slots : u # s => state'[u] = state[u] /\ lease'[u] = lease[u]
      /\ lease[s] # NoCall
      /\ ~Running => lease'[s] = NoCall /\ UNCHANGED <<poolVars, replacing>>
  BY EndsSlots
<1>2. /\ UNCHANGED <<prepares, unresolved, generation, open, phase>>
      /\ s \notin unresolved /\ unresolved \subseteq Slots
  BY DEF AttemptEnds, Working, StoreTypeOK
<1>3. phase \notin {"starting", "failed", "settling", "closing", "closed"}
  BY <1>1 DEF PhasesKept, Leases
<1>4. PhasesKept'
  BY <1>1, <1>2, <1>3 DEF PhasesKept, Running, poolVars
<1>5. UnresolvedIsNeverLeased'
  BY <1>1, <1>2 DEF UnresolvedIsNeverLeased
<1>6. PoolStep
  BY <1>1, <1>2, <1>3 DEF PoolStep, FreshIsLeased, ClosedIsQuiet
<1> QED
  BY <1>1, <1>4, <1>5, <1>6

LEMMA AcquireSlots ==
  ASSUME StoreTypeOK, PoolInv, NEW c \in Calls, Acquire(c)
  PROVE  PoolInv' /\ PoolStep
<1> USE DEF PoolInv
<1>1. /\ phase \notin {"starting", "failed"}
      /\ UNCHANGED <<attempts, applied, published, prepares, unresolved, replaceVars, phase>>
      /\ UNCHANGED <<generation, replacing, step, open>>
  BY DEF Acquire, replaceVars
<1>2. \A u \in Slots : Underway(u)' <=> Underway(u)
  BY <1>1 DEF Underway
<1>3. \A u \in Slots : AtWork(u)' <=> AtWork(u)
  BY <1>1 DEF AtWork
<1>4. /\ state \in [Slots -> {"available", "leased", "retiring", "quarantined", "closed"}]
      /\ lease \in [Slots -> Calls \cup {NoCall}] /\ prepares \in [Slots -> Nat]
      /\ available \in Seq(Slots) /\ replacing \in Seq(Slots) /\ unresolved \subseteq Slots
      /\ waiters \in Seq(Calls)
  BY DEF StoreTypeOK
<1>5. CASE UNCHANGED <<state, lease, available>>
  <2>1. SlotsSorted'
    BY <1>1, <1>2, <1>3, <1>5 DEF SlotsSorted
  <2>2. ~Running => waiters' = waiters
    BY DEF Acquire, poolVars
  <2>3. PhasesKept'
    BY <1>1, <1>5, <2>2 DEF PhasesKept, Leases, Running
  <2>4. NoIdleConnection'
    <3>1. waiters' # waiters => available = <<>>
      BY DEF Acquire, poolVars
    <3> QED
      BY <1>1, <1>5, <3>1 DEF NoIdleConnection, Running
  <2>5. UnresolvedIsNeverLeased'
    BY <1>1, <1>5 DEF UnresolvedIsNeverLeased
  <2>6. FreshIsLeased
    BY <1>5 DEF FreshIsLeased
  <2>7. ClosedIsQuiet
    <3> SUFFICES ASSUME phase \in {"closing", "closed"}
                 PROVE  /\ Leases' = {} /\ waiters' = <<>> /\ open' \subseteq open
                        /\ \A s \in Slots : step'[s] = "none"
      BY <1>1 DEF ClosedIsQuiet
    <3>1. ElementsOf(replacing) = {}
      BY EmptyQueue DEF PhasesKept
    <3> QED
      BY <1>1, <1>5, <2>2, <3>1 DEF PhasesKept, SlotsSorted, Leases, Running
  <2> QED
    BY <2>1, <2>3, <2>4, <2>5, <2>6, <2>7 DEF PoolStep
<1>6. CASE ~UNCHANGED <<state, lease, available>>
  <2> DEFINE h == Head(available)
  <2>1. /\ Running /\ available # <<>> /\ lease' = [lease EXCEPT ![h] = c]
        /\ state' = [state EXCEPT ![h] = "leased"] /\ available' = Tail(available)
        /\ waiters' = waiters
    BY <1>6 DEF Acquire, poolVars
  <2>2. /\ h \in Slots /\ h \in ElementsOf(available)
        /\ Distinct(available') /\ ElementsOf(available') = ElementsOf(available) \ {h}
    BY <1>4, <2>1, TailQueue DEF SlotsSorted
  <2>3. state[h] = "available" /\ lease[h] = NoCall /\ prepares[h] < PrepareLimit
    BY <2>2 DEF SlotsSorted
  <2>4. /\ ElementsOf(available) \subseteq Slots /\ ElementsOf(replacing) \subseteq Slots
        /\ h \notin ElementsOf(replacing)
    <3>1. h \notin ElementsOf(replacing)
      BY <2>3 DEF SlotsSorted
    <3> QED
      BY <1>4, <3>1 DEF ElementsOf
  <2>5. /\ \A u \in Slots : u # h => state'[u] = state[u] /\ lease'[u] = lease[u]
        /\ state'[h] = "leased" /\ lease'[h] = c
    BY <1>4, <2>1, <2>2
  <2> HIDE DEF h
  <2>6. SlotsSorted'
    <3>1. \A s \in Slots : lease'[s] # NoCall => state'[s] = "leased"
      BY <2>5 DEF SlotsSorted
    <3>2. \A s \in ElementsOf(available') :
            state'[s] = "available" /\ lease'[s] = NoCall /\ prepares'[s] < PrepareLimit
      BY <1>1, <2>2, <2>4, <2>5 DEF SlotsSorted
    <3>3. \A s \in ElementsOf(replacing) : state'[s] = "retiring" /\ lease'[s] = NoCall
      BY <2>4, <2>5 DEF SlotsSorted
    <3>4. ElementsOf(replacing') = ElementsOf(replacing) /\ Distinct(replacing')
      BY <1>1 DEF SlotsSorted
    <3> QED
      BY <1>1, <1>2, <1>3, <2>2, <3>1, <3>2, <3>3, <3>4 DEF SlotsSorted
  <2>7. PhasesKept'
    BY <1>1, <2>1 DEF PhasesKept, Running
  <2>8. NoIdleConnection'
    BY <1>1, <2>1 DEF NoIdleConnection, Running
  <2>9. UnresolvedIsNeverLeased'
    BY <1>1, <2>1 DEF UnresolvedIsNeverLeased, PhasesKept, Running
  <2>10. PoolStep
    BY <1>1, <2>1, <2>3, <2>5 DEF PoolStep, FreshIsLeased, ClosedIsQuiet, Running
  <2> QED
    BY <2>6, <2>7, <2>8, <2>9, <2>10
<1> QED
  BY <1>5, <1>6

LEMMA RollbackSlots ==
  ASSUME StoreTypeOK, PoolInv, NEW s \in Slots, RollbackUnresolved(s)
  PROVE  PoolInv' /\ PoolStep
<1> USE DEF PoolInv
<1>1. lease[s] # NoCall /\ state[s] = "leased"
  BY LeaseIsCall, StoreAssumption DEF RollbackUnresolved, SlotsSorted
<1>2. /\ unresolved' = unresolved \cup {s} /\ lease' = [lease EXCEPT ![s] = NoCall]
      /\ UNCHANGED <<state, prepares, generation, replacing, step, open>>
      /\ ~Running => UNCHANGED <<available, waiters, phase>>
      /\ Running => available' = <<>> /\ waiters' = <<>> /\ phase' = "draining"
  BY DEF RollbackUnresolved, StartClosing, replaceVars, poolVars
<1>3. phase \notin {"starting", "failed", "settling", "closing", "closed"}
  BY <1>1 DEF PhasesKept, Leases
<1>4. /\ \A u \in Slots : u # s => lease'[u] = lease[u]
      /\ lease'[s] = NoCall
  BY <1>2 DEF StoreTypeOK
<1>5. \A u \in Slots : (Underway(u)' <=> Underway(u)) /\ (AtWork(u)' <=> AtWork(u))
  BY <1>2 DEF Underway, AtWork
<1>6. ElementsOf(available') \subseteq ElementsOf(available) /\ Distinct(available')
  BY <1>2, EmptyQueue DEF SlotsSorted
<1>7. /\ ElementsOf(available) \subseteq Slots /\ ElementsOf(replacing) \subseteq Slots
      /\ unresolved \subseteq Slots
  BY DEF StoreTypeOK, ElementsOf
<1>8. SlotsSorted'
  BY <1>2, <1>4, <1>5, <1>6, <1>7 DEF SlotsSorted
<1>9. PhasesKept' /\ NoIdleConnection'
  BY <1>2, <1>3 DEF PhasesKept, NoIdleConnection, Running
<1>10. UnresolvedIsNeverLeased'
  BY <1>1, <1>2, <1>4, <1>7 DEF UnresolvedIsNeverLeased
<1>11. PoolStep
  BY <1>2, <1>3, <1>4 DEF PoolStep, FreshIsLeased, ClosedIsQuiet, Running
<1> QED
  BY <1>8, <1>9, <1>10, <1>11

\* Steps that change no more than the phase, and what is free, waits or is open.
LEMMA PhaseSlots ==
  ASSUME StoreTypeOK, PoolInv, Close \/ OpenFails \/ Drained \/ ReplacementsSettled
  PROVE  PoolInv' /\ PoolStep
<1> USE DEF PoolInv
<1>1. UNCHANGED <<slotVars, generation, replacing, step>>
  BY DEF Close, OpenFails, Drained, ReplacementsSettled, replaceVars
<1>2. UNCHANGED <<state, lease, prepares, unresolved>>
  BY <1>1 DEF slotVars
<1>3. \/ /\ phase \in {"starting", "open"} /\ phase' \in {"failed", "draining"}
         /\ available' = <<>> /\ waiters' = <<>>
         /\ phase' = "failed" => phase = "starting"
      \/ phase = "draining" /\ Leases = {} /\ phase' = "settling" /\ UNCHANGED <<poolVars, open>>
      \/ phase = "settling" /\ replacing = <<>> /\ phase' = "closing"
         /\ UNCHANGED <<poolVars, open>>
  BY DEF Close, StartClosing, OpenFails, Drained, ReplacementsSettled, Running, replaceVars,
     PhasesKept
<1>4. UNCHANGED poolVars => UNCHANGED <<available, waiters>>
  BY DEF poolVars
<1>5. \A u \in Slots : (Underway(u)' <=> Underway(u)) /\ (AtWork(u)' <=> AtWork(u))
  BY <1>1 DEF Underway, AtWork
<1>6. ElementsOf(available') \subseteq ElementsOf(available) /\ Distinct(available')
  BY <1>3, <1>4, EmptyQueue DEF SlotsSorted
<1>7. SlotsSorted'
  BY <1>1, <1>2, <1>5, <1>6 DEF SlotsSorted
<1>8. PhasesKept'
  BY <1>1, <1>2, <1>3, <1>4 DEF PhasesKept, Leases
<1>9. NoIdleConnection'
  BY <1>3 DEF NoIdleConnection, Running
<1>10. UnresolvedIsNeverLeased'
  BY <1>2 DEF UnresolvedIsNeverLeased
<1>11. FreshIsLeased
  BY <1>2 DEF FreshIsLeased
<1>12. ClosedIsQuiet
  <2> SUFFICES ASSUME phase' \in {"closing", "closed"}
               PROVE  /\ Leases' = {} /\ waiters' = <<>> /\ open' \subseteq open
                      /\ \A s \in Slots : step'[s] = "none"
    BY DEF ClosedIsQuiet
  <2>1. phase = "settling" /\ replacing = <<>> /\ UNCHANGED <<poolVars, open>>
    BY <1>3
  <2>2. ElementsOf(replacing) = {}
    BY <2>1, EmptyQueue
  <2> QED
    BY <1>1, <1>2, <1>4, <2>1, <2>2 DEF PhasesKept, SlotsSorted, Leases
<1> QED
  BY <1>7, <1>8, <1>9, <1>10, <1>11, <1>12 DEF PoolStep

LEMMA PrepareSlots ==
  ASSUME StoreTypeOK, PoolInv, NEW s \in Slots, Prepare(s)
  PROVE  PoolInv' /\ PoolStep
<1> USE DEF PoolInv
<1>1. lease[s] # NoCall /\ s \notin ElementsOf(available)
  BY LeaseIsCall, StoreAssumption DEF Prepare, SlotsSorted
<1>2. /\ prepares' = [prepares EXCEPT ![s] = @ + 1]
      /\ UNCHANGED <<callVars, state, lease, unresolved, poolVars, replaceVars, phase>>
      /\ UNCHANGED <<generation, replacing, step, open, available, waiters>>
  BY DEF Prepare, replaceVars, poolVars
<1>3. phase \notin {"starting", "failed", "settling", "closing", "closed"}
  BY <1>1 DEF PhasesKept, Leases
<1>4. \A u \in ElementsOf(available) : u \in Slots /\ prepares'[u] = prepares[u]
  BY <1>1, <1>2 DEF StoreTypeOK, ElementsOf
<1>5. \A u \in Slots : (Underway(u)' <=> Underway(u)) /\ (AtWork(u)' <=> AtWork(u))
  BY <1>2 DEF Underway, AtWork
<1>6. SlotsSorted'
  BY <1>2, <1>4, <1>5 DEF SlotsSorted
<1>7. PhasesKept' /\ NoIdleConnection' /\ UnresolvedIsNeverLeased'
  BY <1>2, <1>3 DEF PhasesKept, NoIdleConnection, UnresolvedIsNeverLeased, Running
<1>8. PoolStep
  BY <1>2, <1>3 DEF PoolStep, FreshIsLeased, ClosedIsQuiet
<1> QED
  BY <1>6, <1>7, <1>8

LEMMA OpenSlots ==
  ASSUME StoreTypeOK, PoolInv, NEW s \in Slots, OpenConnection(s)
  PROVE  PoolInv' /\ PoolStep
<1> USE DEF PoolInv
<1>1. /\ phase = "starting" /\ <<s, 0>> \notin open /\ open' = open \cup {<<s, 0>>}
      /\ available' = Append(available, s) /\ phase' \in {"open", "starting"}
      /\ UNCHANGED <<state, lease, prepares, unresolved, waiters, generation, replacing, step>>
  BY DEF OpenConnection, slotVars
<1>2. /\ s \notin ElementsOf(available) /\ state[s] = "available" /\ Leases = {}
      /\ prepares[s] = 0 /\ waiters = <<>> /\ unresolved = {}
  BY <1>1 DEF PhasesKept
<1>3. Distinct(available') /\ ElementsOf(available') = ElementsOf(available) \cup {s}
  BY <1>1, <1>2, AppendQueue DEF StoreTypeOK, SlotsSorted
<1>4. \A u \in Slots : (Underway(u)' <=> Underway(u)) /\ (AtWork(u)' <=> AtWork(u))
  BY <1>1 DEF Underway, AtWork
<1>5. lease[s] = NoCall /\ prepares[s] < PrepareLimit
  BY <1>2, StoreAssumption DEF Leases
<1>6. SlotsSorted'
  BY <1>1, <1>2, <1>3, <1>4, <1>5 DEF SlotsSorted
<1>7. PhasesKept'
  BY <1>1, <1>2, <1>3 DEF PhasesKept, Leases
<1>8. NoIdleConnection' /\ UnresolvedIsNeverLeased'
  BY <1>1, <1>2 DEF NoIdleConnection, UnresolvedIsNeverLeased
<1>9. PoolStep
  BY <1>1 DEF PoolStep, FreshIsLeased, ClosedIsQuiet
<1> QED
  BY <1>6, <1>7, <1>8, <1>9

LEMMA CloseSlots ==
  ASSUME StoreTypeOK, PoolInv, NEW stuck \in SUBSET open, CloseConnections(stuck)
  PROVE  PoolInv' /\ PoolStep
<1> USE DEF PoolInv
<1>1. /\ phase = "closing" /\ open' = stuck /\ phase' = "closed"
      /\ UNCHANGED <<lease, prepares, unresolved, available, waiters, generation, replacing, step>>
      /\ \A u \in Slots : state'[u] \in {state[u], "closed"}
  BY DEF CloseConnections, poolVars
<1>2. /\ Leases = {} /\ waiters = <<>> /\ available = <<>> /\ replacing = <<>>
  BY <1>1 DEF PhasesKept
<1>3. ElementsOf(available) = {} /\ ElementsOf(replacing) = {}
  BY <1>2, EmptyQueue
<1>4. \A u \in Slots : lease[u] = NoCall /\ step[u] = "none"
  BY <1>2, <1>3 DEF Leases, SlotsSorted
<1>5. SlotsSorted'
  BY <1>1, <1>3, <1>4 DEF SlotsSorted, Underway
<1>6. PhasesKept' /\ NoIdleConnection'
  BY <1>1, <1>2 DEF PhasesKept, NoIdleConnection, Leases
<1>7. UnresolvedIsNeverLeased'
  BY <1>1, <1>4 DEF UnresolvedIsNeverLeased, StoreTypeOK
<1>8. PoolStep
  BY <1>1, <1>2, <1>4 DEF PoolStep, FreshIsLeased, ClosedIsQuiet, Leases
<1> QED
  BY <1>5, <1>6, <1>7, <1>8

\* The replacement at work leaves the queue: nobody else has begun.
LEMMA LeavesQueue ==
  ASSUME StoreTypeOK, SlotsSorted, NEW s \in Slots, AtWork(s),
         replacing' = Tail(replacing), step' = [step EXCEPT ![s] = "none"]
  PROVE  /\ s \in ElementsOf(replacing) /\ state[s] = "retiring" /\ lease[s] = NoCall
         /\ Distinct(replacing') /\ ElementsOf(replacing') = ElementsOf(replacing) \ {s}
         /\ \A u \in Slots : step'[u] # "none" <=> u \in ElementsOf(replacing')
         /\ \A u \in Slots : ~Underway(u)'
<1>1. /\ replacing \in Seq(Slots) /\ replacing # <<>> /\ Head(replacing) = s
      /\ step \in [Slots -> {"none", "queued", "opening", "configuring", "closing"}]
  BY DEF StoreTypeOK, AtWork
<1>2. /\ s \in ElementsOf(replacing)
      /\ Distinct(replacing') /\ ElementsOf(replacing') = ElementsOf(replacing) \ {s}
  BY <1>1, TailQueue DEF SlotsSorted
<1>3. state[s] = "retiring" /\ lease[s] = NoCall
  BY <1>2 DEF SlotsSorted
<1>4. step'[s] = "none" /\ \A u \in Slots : u # s => step'[u] = step[u]
  BY <1>1
<1>5. \A u \in Slots : step'[u] # "none" <=> u \in ElementsOf(replacing')
  BY <1>2, <1>4 DEF SlotsSorted
<1>6. \A u \in Slots : ~Underway(u)'
  BY <1>4, OneAtWork DEF Underway
<1> QED
  BY <1>2, <1>3, <1>5, <1>6

LEMMA ReplaceSlots ==
  ASSUME StoreTypeOK, PoolInv, NEW s \in Slots,
         ReplaceStarts(s) \/ ReplaceOpens(s) \/ ReplaceConfigures(s)
  PROVE  PoolInv' /\ PoolStep
<1> USE DEF PoolInv
<1>1. /\ AtWork(s) /\ UNCHANGED <<state, lease, prepares, unresolved, available, waiters>>
      /\ UNCHANGED <<generation, phase>>
  BY DEF ReplaceStarts, ReplaceOpens, ReplaceConfigures, slotVars, poolVars
<1>2. s \in ElementsOf(replacing) /\ replacing # <<>>
  BY <1>1, TailQueue DEF AtWork, StoreTypeOK
<1>3. phase \notin {"starting", "failed", "closing", "closed"}
  BY <1>2 DEF PhasesKept
<1>4. PhasesKept' /\ NoIdleConnection' /\ UnresolvedIsNeverLeased'
  BY <1>1, <1>3 DEF PhasesKept, NoIdleConnection, UnresolvedIsNeverLeased, Running, Leases
<1>5. PoolStep
  BY <1>1, <1>3 DEF PoolStep, FreshIsLeased, ClosedIsQuiet
<1>6. CASE replacing' = replacing /\ \E to \in {"opening", "configuring", "closing"} :
             step' = [step EXCEPT ![s] = to]
  <2>1. PICK to \in {"opening", "configuring", "closing"} : step' = [step EXCEPT ![s] = to]
    BY <1>6
  <2>2. step'[s] = to /\ \A u \in Slots : u # s => step'[u] = step[u]
    BY <2>1 DEF StoreTypeOK
  <2>3. \A u \in Slots : Underway(u)' => u = s
    BY <1>1, <2>2, OneAtWork DEF Underway
  <2>4. AtWork(s)' /\ ElementsOf(replacing') = ElementsOf(replacing) /\ Distinct(replacing')
    BY <1>1, <1>6 DEF AtWork, SlotsSorted
  <2>5. \A u \in Slots : step'[u] # "none" <=> u \in ElementsOf(replacing')
    BY <1>2, <2>2, <2>4 DEF SlotsSorted
  <2>6. SlotsSorted'
    BY <1>1, <2>3, <2>4, <2>5 DEF SlotsSorted
  <2> QED
    BY <1>4, <1>5, <2>6
<1>7. CASE replacing' = Tail(replacing) /\ step' = [step EXCEPT ![s] = "none"]
  <2>1. /\ Distinct(replacing') /\ ElementsOf(replacing') = ElementsOf(replacing) \ {s}
        /\ \A u \in Slots : step'[u] # "none" <=> u \in ElementsOf(replacing')
        /\ \A u \in Slots : ~Underway(u)'
    BY <1>1, <1>7, LeavesQueue
  <2>2. SlotsSorted'
    BY <1>1, <2>1 DEF SlotsSorted
  <2> QED
    BY <1>4, <1>5, <2>2
<1> QED
  BY <1>6, <1>7 DEF ReplaceStarts, ReplaceOpens, ReplaceConfigures

LEMMA ReplaceFailsSlots ==
  ASSUME StoreTypeOK, PoolInv, NEW s \in Slots, ReplaceFails(s)
  PROVE  PoolInv' /\ PoolStep
<1> USE DEF PoolInv
<1>1. /\ AtWork(s) /\ replacing' = Tail(replacing) /\ step' = [step EXCEPT ![s] = "none"]
      /\ state' = [state EXCEPT ![s] = "quarantined"]
      /\ UNCHANGED <<lease, prepares, unresolved, generation, open>>
      /\ ~Running => UNCHANGED <<available, waiters, phase>>
      /\ Running => available' = <<>> /\ waiters' = <<>> /\ phase' = "draining"
  BY DEF ReplaceFails, StartClosing, poolVars
<1>2. /\ s \in ElementsOf(replacing) /\ state[s] = "retiring" /\ lease[s] = NoCall
      /\ Distinct(replacing') /\ ElementsOf(replacing') = ElementsOf(replacing) \ {s}
      /\ \A u \in Slots : step'[u] # "none" <=> u \in ElementsOf(replacing')
      /\ \A u \in Slots : ~Underway(u)'
  BY <1>1, LeavesQueue
<1>3. phase \notin {"starting", "failed", "closing", "closed"}
  BY <1>1 DEF PhasesKept, AtWork
<1>4. /\ ElementsOf(replacing) \subseteq Slots /\ ElementsOf(available) \subseteq Slots
      /\ unresolved \subseteq Slots
  BY DEF StoreTypeOK, ElementsOf
<1>5. /\ state'[s] = "quarantined" /\ \A u \in Slots : u # s => state'[u] = state[u]
  BY <1>1 DEF StoreTypeOK
<1>6. ElementsOf(available') \subseteq ElementsOf(available) /\ Distinct(available')
  BY <1>1, EmptyQueue DEF SlotsSorted
<1>7. s \notin ElementsOf(available)
  BY <1>2 DEF SlotsSorted
<1>8. SlotsSorted'
  BY <1>1, <1>2, <1>4, <1>5, <1>6, <1>7 DEF SlotsSorted
<1>9. PhasesKept' /\ NoIdleConnection'
  BY <1>1, <1>3 DEF PhasesKept, NoIdleConnection, Running, Leases
<1>10. UnresolvedIsNeverLeased'
  BY <1>1, <1>4, <1>5 DEF UnresolvedIsNeverLeased
<1>11. PoolStep
  BY <1>1, <1>3 DEF PoolStep, FreshIsLeased, ClosedIsQuiet, Running
<1> QED
  BY <1>8, <1>9, <1>10, <1>11

LEMMA ReplaceEndsSlots ==
  ASSUME StoreTypeOK, PoolInv, NEW s \in Slots, ReplaceEnds(s)
  PROVE  PoolInv' /\ PoolStep
<1> USE DEF PoolInv
<1>1. /\ AtWork(s) /\ replacing' = Tail(replacing) /\ step' = [step EXCEPT ![s] = "none"]
      /\ prepares' = [prepares EXCEPT ![s] = 0] /\ MakeAvailable(s, callAt)
      /\ UNCHANGED <<attempts, answer, applied, published, unresolved, phase>>
  BY DEF ReplaceEnds
<1>2. /\ s \in ElementsOf(replacing) /\ state[s] = "retiring" /\ lease[s] = NoCall
      /\ Distinct(replacing') /\ ElementsOf(replacing') = ElementsOf(replacing) \ {s}
      /\ \A u \in Slots : step'[u] # "none" <=> u \in ElementsOf(replacing')
      /\ \A u \in Slots : ~Underway(u)'
  BY <1>1, LeavesQueue
<1>3. phase \notin {"starting", "failed", "closing", "closed"}
  BY <1>1 DEF PhasesKept, AtWork
<1>4. s \notin ElementsOf(available)
  BY <1>2 DEF SlotsSorted
<1>5. /\ \A u \in Slots : u # s => state'[u] = state[u] /\ lease'[u] = lease[u]
      /\ Distinct(available')
      /\ \A u \in ElementsOf(available') : u \in ElementsOf(available)
           \/ (u = s /\ Running /\ state'[u] = "available" /\ lease'[u] = NoCall)
      /\ lease'[s] # NoCall => Running /\ state'[s] = "leased"
      /\ ~Running => lease'[s] = NoCall /\ UNCHANGED <<state, poolVars>>
      /\ Running => waiters' = <<>> \/ available' = <<>>
  BY <1>1, <1>4, HandsOnSlots DEF SlotsSorted
<1>6. /\ prepares'[s] = 0 /\ 0 < PrepareLimit
      /\ \A u \in Slots : u # s => prepares'[u] = prepares[u]
  BY <1>1, StoreAssumption DEF StoreTypeOK
<1>7. /\ ElementsOf(replacing) \subseteq Slots /\ ElementsOf(available) \subseteq Slots
      /\ unresolved \subseteq Slots
  BY DEF StoreTypeOK, ElementsOf
<1>8. \A u \in ElementsOf(available') :
        state'[u] = "available" /\ lease'[u] = NoCall /\ prepares'[u] < PrepareLimit
  BY <1>4, <1>5, <1>6, <1>7 DEF SlotsSorted
<1>9. \A u \in Slots : lease'[u] # NoCall => state'[u] = "leased"
  BY <1>5 DEF SlotsSorted
<1>10. SlotsSorted'
  BY <1>2, <1>5, <1>7, <1>8, <1>9 DEF SlotsSorted
<1>11. ~Running => UNCHANGED <<available, waiters>>
  BY <1>5 DEF poolVars
<1>12. phase \in {"settling"} => Leases' = {}
  BY <1>2, <1>5 DEF PhasesKept, Leases, Running
<1>13. PhasesKept' /\ NoIdleConnection'
  BY <1>1, <1>3, <1>5, <1>11, <1>12 DEF PhasesKept, NoIdleConnection, Running
<1>14. UnresolvedIsNeverLeased'
  <2>1. Running => unresolved = {}
    BY DEF PhasesKept, Running
  <2> QED
    BY <1>1, <1>5, <1>7, <2>1 DEF UnresolvedIsNeverLeased
<1>15. PoolStep
  <2>1. FreshIsLeased
    BY <1>5, <1>6 DEF FreshIsLeased
  <2> QED
    BY <1>1, <1>3, <2>1 DEF PoolStep, ClosedIsQuiet
<1> QED
  BY <1>10, <1>13, <1>14, <1>15

LEMMA StepPool ==
  ASSUME StoreInv, StoreNext
  PROVE  PoolInv' /\ PoolStep
<1>1. StoreTypeOK /\ PoolInv
  BY DEF StoreInv, PoolInv
<1>2. ASSUME NEW s \in Slots, Attempt(s) PROVE PoolInv' /\ PoolStep
  BY <1>1, <1>2, AttemptsEnd, AttemptSlots
<1> QED
  BY <1>1, <1>2, AcquireSlots, RollbackSlots, PhaseSlots, PrepareSlots, OpenSlots, CloseSlots,
     ReplaceSlots, ReplaceFailsSlots, ReplaceEndsSlots DEF StoreNext, Attempt

-----------------------------------------------------------------------------
(* The extra connection. *)

LEMMA SameExtra ==
  ASSUME ExtraIsOne, UNCHANGED generation, Extra' \subseteq Extra,
         \A u \in Slots : Underway(u)' <=> Underway(u),
         \A u \in Slots : Underway(u) => step'[u] = step[u],
         phase' \in {"starting", "open"} => phase \in {"starting", "open"}
  PROVE  ExtraIsOne'
<1>1. \A u \in Slots : step'[u] = "opening" => step[u] = "opening"
  BY DEF Underway
<1>2. \A u \in Slots :
        step'[u] \in {"configuring", "closing"} => step[u] \in {"configuring", "closing"}
  BY DEF Underway
<1>3. \A x, y \in Extra' : x = y
  BY DEF ExtraIsOne
<1>4. \A u \in Slots : step'[u] = "opening" => Extra' = {}
  BY <1>1 DEF ExtraIsOne
<1>5. \A u \in Slots : step'[u] \in {"configuring", "closing"} =>
        Extra' \subseteq {<<u, generation'[u] + 1>>}
  BY <1>2 DEF ExtraIsOne
<1>6. phase' \in {"starting", "open"} /\ (\A u \in Slots : ~Underway(u)') => Extra' = {}
  BY DEF ExtraIsOne
<1> QED
  BY <1>3, <1>4, <1>5, <1>6 DEF ExtraIsOne

\* The connections in use stay the same, and none is opened that is not of them.
LEMMA LessExtra ==
  ASSUME UNCHANGED generation, \A x \in open' : x \in open \/ x \in InUse
  PROVE  Extra' \subseteq Extra
BY DEF Extra, InUse

LEMMA ReplaceExtra ==
  ASSUME StoreTypeOK, SlotsSorted, ExtraIsOne, NEW s \in Slots,
         ReplaceStarts(s) \/ ReplaceOpens(s) \/ ReplaceConfigures(s)
  PROVE  ExtraIsOne'
<1>1. AtWork(s) /\ UNCHANGED <<generation, phase>>
  BY DEF ReplaceStarts, ReplaceOpens, ReplaceConfigures
<1>2. \A u \in Slots : u # s => ~Underway(u)
  BY <1>1, OneAtWork
<1>3. /\ step \in [Slots -> {"none", "queued", "opening", "configuring", "closing"}]
      /\ generation \in [Slots -> Nat]
  BY DEF StoreTypeOK
<1>4. CASE ReplaceStarts(s) /\ Running
  <2>1. step' = [step EXCEPT ![s] = "opening"] /\ open' = open /\ ~Underway(s)
    BY <1>4 DEF ReplaceStarts, Underway
  <2>2. Extra = {} /\ Extra' = {}
    BY <1>1, <1>2, <1>4, <2>1 DEF ExtraIsOne, Running, Extra, InUse
  <2> QED
    BY <2>2 DEF ExtraIsOne
<1>5. CASE ReplaceStarts(s) /\ ~Running
  <2>1. /\ step' = [step EXCEPT ![s] = "none"] /\ open' = open /\ ~Underway(s)
    BY <1>5 DEF ReplaceStarts, Underway
  <2>2. \A u \in Slots : ~Underway(u)' /\ ~Underway(u)
    BY <1>2, <1>3, <2>1 DEF Underway
  <2>3. Extra' = Extra
    BY <1>1, <2>1 DEF Extra, InUse
  <2> QED
    BY <1>1, <2>2, <2>3, SameExtra
<1>6. CASE ReplaceOpens(s)
  <2> DEFINE x == <<s, generation[s] + 1>>
  <2>1. step' = [step EXCEPT ![s] = "configuring"] /\ open' = open \cup {x}
        /\ step[s] = "opening"
    BY <1>6 DEF ReplaceOpens
  <2>2. Extra = {}
    BY <2>1 DEF ExtraIsOne
  <2>3. Extra' \subseteq {x}
    BY <1>1, <2>1, <2>2 DEF Extra, InUse
  <2>4. step'[s] = "configuring" /\ \A u \in Slots : u # s => ~Underway(u)'
    BY <1>2, <1>3, <2>1 DEF Underway
  <2>5. \A u \in Slots : step'[u] \in {"opening", "configuring", "closing"} => u = s
    BY <2>4 DEF Underway
  <2> QED
    BY <1>1, <2>3, <2>4, <2>5 DEF ExtraIsOne, Underway
<1>7. CASE ReplaceConfigures(s)
  <2>1. step' = [step EXCEPT ![s] = "closing"] /\ open' = open /\ step[s] = "configuring"
    BY <1>7 DEF ReplaceConfigures
  <2>2. Extra' = Extra /\ Extra \subseteq {<<s, generation[s] + 1>>}
    BY <1>1, <2>1 DEF Extra, InUse, ExtraIsOne
  <2>3. step'[s] = "closing" /\ \A u \in Slots : u # s => ~Underway(u)'
    BY <1>2, <1>3, <2>1 DEF Underway
  <2>4. \A u \in Slots : step'[u] \in {"opening", "configuring", "closing"} => u = s
    BY <2>3 DEF Underway
  <2> QED
    BY <1>1, <2>2, <2>3, <2>4 DEF ExtraIsOne, Underway
<1> QED
  BY <1>4, <1>5, <1>6, <1>7

LEMMA ReplaceEndsExtra ==
  ASSUME StoreTypeOK, SlotsSorted, ExtraIsOne, NEW s \in Slots, ReplaceEnds(s)
  PROVE  ExtraIsOne'
<1> DEFINE g == generation[s]
<1>1. /\ AtWork(s) /\ step[s] = "closing" /\ open' = open \ {<<s, g>>}
      /\ generation' = [generation EXCEPT ![s] = g + 1]
      /\ replacing' = Tail(replacing) /\ step' = [step EXCEPT ![s] = "none"]
  BY DEF ReplaceEnds
<1>2. \A u \in Slots : ~Underway(u)'
  BY <1>1, LeavesQueue
<1>3. generation'[s] = g + 1 /\ \A u \in Slots : u # s => generation'[u] = generation[u]
  BY <1>1 DEF StoreTypeOK
<1>4. Extra' = {}
  <2> SUFFICES ASSUME NEW x \in open' PROVE x \in InUse'
    BY DEF Extra
  <2>1. x \in InUse \/ x = <<s, g + 1>>
    BY <1>1 DEF Extra, ExtraIsOne
  <2>2. CASE x = <<s, g + 1>>
    BY <1>3, <2>2 DEF InUse
  <2>3. CASE x \in InUse
    <3>1. PICK u \in Slots : x = <<u, generation[u]>>
      BY <2>3 DEF InUse
    <3>2. u # s
      BY <1>1, <3>1
    <3> QED
      BY <1>3, <3>1, <3>2 DEF InUse
  <2> QED
    BY <2>1, <2>2, <2>3
<1> QED
  BY <1>2, <1>4 DEF ExtraIsOne, Underway

LEMMA ReplaceFailsExtra ==
  ASSUME StoreTypeOK, SlotsSorted, PhasesKept, ExtraIsOne, NEW s \in Slots, ReplaceFails(s)
  PROVE  ExtraIsOne'
<1>1. /\ AtWork(s) /\ replacing' = Tail(replacing) /\ step' = [step EXCEPT ![s] = "none"]
      /\ UNCHANGED <<generation, open>>
      /\ phase' \notin {"starting", "open"}
  BY DEF ReplaceFails, StartClosing, Running, PhasesKept, AtWork
<1>2. \A u \in Slots : ~Underway(u)'
  BY <1>1, LeavesQueue
<1>3. Extra' = Extra
  BY <1>1 DEF Extra, InUse
<1> QED
  BY <1>1, <1>2, <1>3 DEF ExtraIsOne, Underway

LEMMA StepExtra ==
  ASSUME StoreInv, StoreNext
  PROVE  ExtraIsOne'
<1> USE DEF StoreInv
<1>1. CASE OpenFails \/ Close \/ Drained \/ ReplacementsSettled
  <2>1. /\ UNCHANGED <<generation, step>> /\ open' \subseteq open
        /\ phase' \in {"starting", "open"} => phase \in {"starting", "open"}
    BY <1>1 DEF OpenFails, Close, StartClosing, Drained, ReplacementsSettled, replaceVars
  <2>2. Extra' \subseteq Extra
    BY <2>1, LessExtra
  <2> QED
    BY <2>1, <2>2, SameExtra DEF Underway
<1>2. ASSUME NEW c \in Calls, Acquire(c) PROVE ExtraIsOne'
  <2>1. UNCHANGED <<generation, step, open, phase>>
    BY <1>2 DEF Acquire, replaceVars
  <2>2. Extra' \subseteq Extra
    BY <2>1, LessExtra
  <2> QED
    BY <2>1, <2>2, SameExtra DEF Underway
<1>3. ASSUME NEW s \in Slots, OpenConnection(s) PROVE ExtraIsOne'
  <2>1. /\ open' = open \cup {<<s, 0>>} /\ generation[s] = 0 /\ phase = "starting"
        /\ UNCHANGED <<generation, step>>
    BY <1>3 DEF OpenConnection, PhasesKept
  <2>2. Extra' \subseteq Extra
    <3>1. <<s, 0>> \in InUse
      BY <2>1 DEF InUse
    <3> QED
      BY <2>1, <3>1, LessExtra
  <2> QED
    BY <2>1, <2>2, SameExtra DEF Underway
<1>4. ASSUME NEW s \in Slots, Prepare(s) \/ RollbackUnresolved(s) PROVE ExtraIsOne'
  <2>1. /\ UNCHANGED <<generation, step, open>>
        /\ phase' \in {"starting", "open"} => phase \in {"starting", "open"}
    BY <1>4 DEF Prepare, RollbackUnresolved, StartClosing, replaceVars
  <2>2. Extra' \subseteq Extra
    BY <2>1, LessExtra
  <2> QED
    BY <2>1, <2>2, SameExtra DEF Underway
<1>5. ASSUME NEW s \in Slots, Attempt(s) PROVE ExtraIsOne'
  <2>1. PICK to \in {"done", "backoff"} : AttemptEnds(s, to)
    BY <1>5, AttemptsEnd
  <2>2. /\ \A u \in Slots : Underway(u)' <=> Underway(u)
        /\ \A u \in Slots : Underway(u) => step'[u] = step[u]
    BY <2>1, EndsSlots
  <2>3. UNCHANGED <<generation, open, phase>>
    BY <2>1 DEF AttemptEnds
  <2>4. Extra' \subseteq Extra
    BY <2>3, LessExtra
  <2> QED
    BY <2>2, <2>3, <2>4, SameExtra
<1>6. ASSUME NEW stuck \in SUBSET open, CloseConnections(stuck) PROVE ExtraIsOne'
  <2>1. UNCHANGED <<generation, step>> /\ open' \subseteq open /\ phase' = "closed"
    BY <1>6 DEF CloseConnections
  <2>2. Extra' \subseteq Extra
    BY <2>1, LessExtra
  <2> QED
    BY <2>1, <2>2, SameExtra DEF Underway
<1> QED
  BY <1>1, <1>2, <1>3, <1>4, <1>5, <1>6, ReplaceExtra, ReplaceEndsExtra, ReplaceFailsExtra
     DEF StoreNext, Attempt

-----------------------------------------------------------------------------
(* The store. *)

LEMMA InitStoreInv == StoreInit => StoreInv
<1> SUFFICES ASSUME StoreInit PROVE StoreInv
  OBVIOUS
<1>1. ElementsOf(<<>>) = {} /\ Distinct(<<>>)
  BY EmptyQueue
<1>2. StoreTypeOK
  BY StoreAssumption DEF StoreInit, StoreTypeOK, Answers
<1>3. CallsTold
  BY <1>1, StoreAssumption DEF StoreInit, CallsTold, Undecided, AnswersAreTrue
<1>4. SlotsSorted
  BY <1>1 DEF StoreInit, SlotsSorted, Underway
<1>5. PhasesKept
  BY <1>1 DEF StoreInit, PhasesKept, Leases
<1>6. UnresolvedIsNeverLeased /\ NoIdleConnection /\ ExtraIsOne
  BY DEF StoreInit, UnresolvedIsNeverLeased, NoIdleConnection, ExtraIsOne, Extra, Running
<1> QED
  BY <1>2, <1>3, <1>4, <1>5, <1>6 DEF StoreInv

LEMMA QuietStep ==
  ASSUME StoreInv, UNCHANGED storeVars
  PROVE  StoreInv'
<1> USE DEF storeVars, callVars, slotVars, poolVars, replaceVars
<1>1. StoreTypeOK' /\ CallsTold'
  BY SMTT(30) DEF StoreInv, StoreTypeOK, CallsTold, Undecided, AnswersAreTrue, Distinct, ElementsOf
<1>2. SlotsSorted'
  BY DEF StoreInv, SlotsSorted, Distinct, ElementsOf, Underway, AtWork
<1>3. PhasesKept'
  BY DEF StoreInv, PhasesKept, Leases, ElementsOf
<1>4. UnresolvedIsNeverLeased' /\ NoIdleConnection' /\ ExtraIsOne'
  BY DEF StoreInv, UnresolvedIsNeverLeased, NoIdleConnection, ExtraIsOne, Extra, InUse, Running,
     Underway
<1> QED
  BY <1>1, <1>2, <1>3, <1>4 DEF StoreInv

LEMMA OneExtra == StoreInv => OneExtraConnection
<1> SUFFICES ASSUME StoreInv PROVE Cardinality(open) <= Cardinality(Slots) + 1
  BY DEF OneExtraConnection
<1>1. IsFiniteSet(Slots) /\ Cardinality(Slots) \in Nat
  BY StoreAssumption, FS_CardinalityType
<1> DEFINE f == [s \in Slots |-> <<s, generation[s]>>]
<1>2. f \in Surjection(Slots, InUse)
  BY DEF Surjection, InUse
<1>3. IsFiniteSet(InUse) /\ Cardinality(InUse) <= Cardinality(Slots)
  BY <1>1, <1>2, FS_Surjection
<1>4. Cardinality(InUse) \in Nat
  BY <1>3, FS_CardinalityType
<1>5. PICK x : Extra \subseteq {x}
  BY DEF StoreInv, ExtraIsOne
<1>6. IsFiniteSet(InUse \cup {x}) /\ Cardinality(InUse \cup {x}) <= Cardinality(InUse) + 1
  <2>1. /\ IsFiniteSet(InUse \cup {x})
        /\ Cardinality(InUse \cup {x}) =
             IF x \in InUse THEN Cardinality(InUse) ELSE Cardinality(InUse) + 1
    BY <1>3, FS_AddElement
  <2> QED
    BY <1>4, <2>1
<1>7. open \subseteq InUse \cup {x}
  BY <1>5 DEF Extra
<1>8. Cardinality(open) <= Cardinality(InUse \cup {x})
  BY <1>6, <1>7, FS_Subset
<1>9. Cardinality(open) \in Nat /\ Cardinality(InUse \cup {x}) \in Nat
  BY <1>6, <1>7, FS_Subset, FS_CardinalityType
<1> QED
  BY <1>1, <1>3, <1>4, <1>6, <1>8, <1>9

\* What every step keeps, and what it may do: the invariant of the pool.
THEOREM StoreInvariant == StoreSpec => [](StoreInv) /\ [][PoolStep]_storeVars
<1>1. StoreInv /\ [StoreNext]_storeVars => StoreInv'
  BY StepTold, StepPool, StepExtra, QuietStep DEF StoreInv, PoolInv
<1>2. StoreInv /\ [StoreNext]_storeVars => [PoolStep]_storeVars
  BY StepPool
<1> QED
  BY <1>1, <1>2, InitStoreInv, PTL DEF StoreSpec

\* Whatever conflicts, failures and closes come between, what a caller is told of its unit of
\* work is true, and no unit of work happens twice.
THEOREM CallersAreToldTheTruth == StoreSpec => []AnswersAreTrue
<1>1. StoreInv => AnswersAreTrue
  BY DEF StoreInv, CallsTold
<1> QED
  BY <1>1, StoreInvariant, PTL

\* With any number of slots and calls: no connection is leased with a transaction left open or
\* when it is worn, none idles while a call waits, there is one to spare at most, and after the
\* close nothing opens, works or waits.
THEOREM PoolStaysSound == StoreSpec => PoolIsSound
<1>1. StoreInv => UnresolvedIsNeverLeased /\ NoIdleConnection /\ OneExtraConnection
  BY OneExtra DEF StoreInv
<1>2. [PoolStep]_storeVars =>
        [\A s \in Slots :
           lease'[s] \notin {NoCall, lease[s]} => prepares'[s] < PrepareLimit]_storeVars
  BY DEF PoolStep, FreshIsLeased
<1>3. [PoolStep]_storeVars =>
        [phase' \in {"closing", "closed"} =>
           /\ Leases' = {} /\ waiters' = <<>>
           /\ open' \subseteq open
           /\ \A s \in Slots : step'[s] = "none"]_storeVars
  BY DEF PoolStep, ClosedIsQuiet
<1>4. StoreSpec => [](UnresolvedIsNeverLeased /\ NoIdleConnection /\ OneExtraConnection)
  BY <1>1, StoreInvariant, PTL
<1>5. StoreSpec => WornIsReplaced
  BY <1>2, StoreInvariant, PTL DEF WornIsReplaced
<1>6. StoreSpec => CloseIsFinal
  BY <1>3, StoreInvariant, PTL DEF CloseIsFinal
<1> QED
  BY <1>4, <1>5, <1>6 DEF PoolIsSound

-----------------------------------------------------------------------------
(* Who owns the data directory. *)

LifePlaces == {"unborn", "born", "owning", "starting", "listening", "serving", "closing", "exiting",
           "gone"}
DaemonFates == {"none", "requested", "early", "failed", "killed"}

OwnershipTypeOK ==
    /\ daemon \in [Daemons -> LifePlaces]
    /\ ending \in [Daemons -> DaemonFates]
    /\ record \in [by : Daemons \cup {Nobody},
                   event : {"none", "starting", "ready", "failed", "stopped"}]

\* Whoever has storage has the lock of it, and so has the reset that moves the directory.
StorageIsOwned ==
    /\ \A d \in Daemons : HasStorage(d) => owner = d
    /\ reset = "owning" => owner = TheReset

\* Who is recorded to have failed, or is about to be, cannot be asked to end any more.
FailedAreOver == \A d \in Daemons :
    /\ record = [by |-> d, event |-> "failed"] => daemon[d] \in {"closing", "exiting", "gone"}
    /\ daemon[d] = "exiting" => ending[d] # "requested"

OwnershipInv == /\ OwnershipTypeOK
                /\ StorageIsOwned
                /\ Reachable
                /\ FailedAreOver
                /\ EndsAreTrue

LEMMA InitOwnershipInv == OwnershipInit => OwnershipInv
BY DaemonsAssumption DEF OwnershipInit, OwnershipInv, OwnershipTypeOK, LifePlaces, DaemonFates,
   StorageIsOwned, HasStorage, Serving, Reachable, FailedAreOver, EndsAreTrue, Nobody

\* What the owner's lock is good for.
LEMMA OneHasStorage ==
  ASSUME OwnershipInv
  PROVE  /\ Alone
         /\ MovedUnused
         /\ owner = Nobody => \A d \in Daemons : ~HasStorage(d)
BY DaemonsAssumption DEF OwnershipInv, StorageIsOwned, Alone, MovedUnused, Nobody, TheReset

-----------------------------------------------------------------------------
(* A daemon moves to another place and does nothing to the lock: the others *)
(* are where they were.                                                     *)

LEMMA RunKeeps ==
  ASSUME OwnershipInv, NEW d \in Daemons, daemon[d] = "unborn", Becomes(d, "born"),
         UNCHANGED <<ending, record, owner, socket, reset>>
  PROVE  OwnershipInv'
BY DEF OwnershipInv, OwnershipTypeOK, LifePlaces, StorageIsOwned, HasStorage, Serving, Reachable,
   FailedAreOver, EndsAreTrue, Becomes

LEMMA OwnKeeps ==
  ASSUME OwnershipInv, NEW d \in Daemons, Own(d)
  PROVE  OwnershipInv'
<1>1. CASE owner = Nobody /\ owner' = d /\ Becomes(d, "owning") /\ Records(d, "starting")
  <2>1. \A e \in Daemons : ~HasStorage(e)
    BY <1>1, OneHasStorage
  <2>2. reset # "owning"
    BY <1>1 DEF OwnershipInv, StorageIsOwned, Nobody, TheReset
  <2> QED
    BY <1>1, <2>1, <2>2 DEF Own, OwnershipInv, OwnershipTypeOK, LifePlaces, StorageIsOwned, HasStorage,
       Serving, Reachable, FailedAreOver, EndsAreTrue, Becomes, Records
<1>2. CASE Becomes(d, "gone") /\ UNCHANGED <<owner, record>>
  BY <1>2 DEF Own, OwnershipInv, OwnershipTypeOK, LifePlaces, StorageIsOwned, HasStorage, Serving,
     Reachable, FailedAreOver, EndsAreTrue, Becomes
<1> QED
  BY <1>1, <1>2 DEF Own

\* The start: a socket that is there is that of a daemon that is gone.
LEMMA StartKeeps ==
  ASSUME OwnershipInv, NEW d \in Daemons, ClearSocket(d) \/ ServeSocket(d)
  PROVE  OwnershipInv'
<1>1. HasStorage(d)
  BY DEF ClearSocket, ServeSocket, HasStorage
<1>2. \A e \in Daemons \ {d} : ~HasStorage(e)
  BY <1>1, OneHasStorage DEF Alone
<1> QED
  BY <1>1, <1>2 DEF ClearSocket, ServeSocket, OwnershipInv, OwnershipTypeOK, LifePlaces,
     StorageIsOwned, HasStorage, Serving, Reachable, FailedAreOver, EndsAreTrue, Becomes

LEMMA ReadyKeeps ==
  ASSUME OwnershipInv, NEW d \in Daemons, BecomeReady(d)
  PROVE  OwnershipInv'
BY DEF BecomeReady, OwnershipInv, OwnershipTypeOK, LifePlaces, StorageIsOwned, HasStorage, Serving,
   Reachable, FailedAreOver, EndsAreTrue, Becomes, Records, fileVars

LEMMA StartFailsKeeps ==
  ASSUME OwnershipInv, NEW d \in Daemons, StartFails(d)
  PROVE  OwnershipInv'
BY DEF StartFails, OwnershipInv, OwnershipTypeOK, LifePlaces, DaemonFates, StorageIsOwned, HasStorage,
   Serving, Reachable, FailedAreOver, EndsAreTrue, Becomes, Records, fileVars

\* The end begins: the socket goes, and no other daemon serves that had one.
LEMMA StopKeeps ==
  ASSUME OwnershipInv, NEW d \in Daemons, NEW why \in DaemonFates, Stop1(d, why),
         UNCHANGED record \/ (Records(d, "failed") /\ why = "failed"),
         UNCHANGED <<owner, reset>>
  PROVE  OwnershipInv'
<1>1. \A e \in Daemons \ {d} : ~HasStorage(e)
  BY OneHasStorage DEF Stop1, Alone, HasStorage
<1>2. record # [by |-> d, event |-> "failed"]
  BY DEF Stop1, Serving, OwnershipInv, FailedAreOver
<1> QED
  BY <1>1, <1>2 DEF Stop1, OwnershipInv, OwnershipTypeOK, LifePlaces, StorageIsOwned, HasStorage,
     Serving, Reachable, FailedAreOver, EndsAreTrue, Becomes, Records

LEMMA CloseKeeps ==
  ASSUME OwnershipInv, NEW d \in Daemons, CloseDaemon(d)
  PROVE  OwnershipInv'
<1>1. \A e \in Daemons \ {d} : ~HasStorage(e)
  BY OneHasStorage DEF CloseDaemon, Alone, HasStorage
<1>2. owner = d /\ reset # "owning"
  BY DaemonsAssumption DEF CloseDaemon, OwnershipInv, StorageIsOwned, HasStorage
<1> QED
  BY <1>1, <1>2 DEF CloseDaemon, OwnershipInv, OwnershipTypeOK, LifePlaces, DaemonFates, StorageIsOwned,
     HasStorage, Serving, Reachable, FailedAreOver, EndsAreTrue, Becomes, Records

LEMMA ExitKeeps ==
  ASSUME OwnershipInv, NEW d \in Daemons, Exit(d)
  PROVE  OwnershipInv'
BY DEF Exit, OwnershipInv, OwnershipTypeOK, LifePlaces, StorageIsOwned, HasStorage, Serving,
   Reachable, FailedAreOver, EndsAreTrue, Becomes, Records, fileVars

\* The lock of a process that is killed goes; no other had storage by it.
LEMMA CrashKeeps ==
  ASSUME OwnershipInv, NEW d \in Daemons, CrashDaemon(d)
  PROVE  OwnershipInv'
<1>1. owner = d => reset # "owning" /\ \A e \in Daemons \ {d} : ~HasStorage(e)
  BY DaemonsAssumption DEF OwnershipInv, StorageIsOwned
<1> QED
  BY <1>1 DEF CrashDaemon, OwnershipInv, OwnershipTypeOK, LifePlaces, DaemonFates, StorageIsOwned,
     HasStorage, Serving, Reachable, FailedAreOver, EndsAreTrue, Becomes

LEMMA StepFailsKeeps ==
  ASSUME OwnershipInv, NEW d \in Daemons, StepFails(d)
  PROVE  OwnershipInv'
<1>1. CASE daemon[d] = "serving"
  BY <1>1, StopKeeps DEF StepFails, DaemonFates
<1>2. CASE daemon[d] # "serving"
  BY <1>2 DEF StepFails, OwnershipInv, OwnershipTypeOK, StorageIsOwned, HasStorage, Serving,
     Reachable, FailedAreOver, EndsAreTrue
<1> QED
  BY <1>1, <1>2

-----------------------------------------------------------------------------
(* The reset. *)

LEMMA ResetKeeps ==
  ASSUME OwnershipInv, ResetEnters \/ ResetOwns \/ ResetMoves \/ ResetLeaves
  PROVE  OwnershipInv'
<1>1. CASE ResetEnters \/ ResetLeaves
  BY <1>1 DEF ResetEnters, ResetLeaves, daemonVars, OwnershipInv, OwnershipTypeOK, StorageIsOwned,
     HasStorage, Serving, Reachable, FailedAreOver, EndsAreTrue
<1>2. CASE ResetOwns
  <2>1. owner = Nobody => \A d \in Daemons : ~HasStorage(d)
    BY OneHasStorage
  <2> QED
    BY <1>2, <2>1 DEF ResetOwns, daemonVars, OwnershipInv, OwnershipTypeOK, StorageIsOwned,
       HasStorage, Serving, Reachable, FailedAreOver, EndsAreTrue
<1>3. CASE ResetMoves
  <2>1. \A d \in Daemons : ~HasStorage(d)
    BY <1>3, OneHasStorage DEF ResetMoves, MovedUnused
  <2>2. \A d \in Daemons : record' # [by |-> d, event |-> "failed"]
    BY <1>3 DEF ResetMoves
  <2> QED
    BY <1>3, <2>1, <2>2 DEF ResetMoves, OwnershipInv, OwnershipTypeOK, StorageIsOwned,
       HasStorage, Serving, Reachable, FailedAreOver, EndsAreTrue, Nobody
<1> QED
  BY <1>1, <1>2, <1>3

-----------------------------------------------------------------------------

\* Nothing the invariant speaks of has changed.
LEMMA OthersKeep ==
  ASSUME OwnershipInv, UNCHANGED <<daemon, ending, record, owner, socket, reset>>
  PROVE  OwnershipInv'
BY DEF OwnershipInv, OwnershipTypeOK, StorageIsOwned, HasStorage, Serving, Reachable,
   FailedAreOver, EndsAreTrue

LEMMA StepKeepsOwnershipInv == OwnershipInv /\ [OwnershipNext]_ownershipVars => OwnershipInv'
<1> SUFFICES ASSUME OwnershipInv, [OwnershipNext]_ownershipVars PROVE OwnershipInv'
  OBVIOUS
<1>1. CASE UNCHANGED ownershipVars
  BY <1>1, OthersKeep DEF ownershipVars, daemonVars, fileVars
<1>2. ASSUME NEW d \in Daemons, Run(d) PROVE OwnershipInv'
  BY <1>2, RunKeeps DEF Run, fileVars
<1>3. ASSUME NEW d \in Daemons, StopAsked(d) PROVE OwnershipInv'
  BY <1>3, StopKeeps DEF StopAsked, DaemonFates
<1>4. ASSUME NEW d \in Daemons, StepStarts(d) \/ StepEnds(d) PROVE OwnershipInv'
  BY <1>4, OthersKeep DEF StepStarts, StepEnds, fileVars
<1>5. ASSUME NEW d \in Daemons, NEW l \in Launchers, Spawns(l, d) PROVE OwnershipInv'
  BY <1>5, RunKeeps DEF Spawns, fileVars
<1>6. ASSUME NEW l \in Launchers, Finds(l) \/ Misses(l) \/ Enters(l) \/ GivesUpLaunch(l)
      PROVE  OwnershipInv'
  BY <1>6, OthersKeep DEF Finds, Misses, Enters, GivesUpLaunch, daemonVars, fileVars
<1> QED
  BY <1>1, <1>2, <1>3, <1>4, <1>5, <1>6, OwnKeeps, StartKeeps, ReadyKeeps, StartFailsKeeps,
     CloseKeeps, ExitKeeps, CrashKeeps, StepFailsKeeps, ResetKeeps DEF OwnershipNext

\* The inductive invariant: storage is open under the owner's lock only, and whoever is
\* recorded to have failed is past being asked to end.
THEOREM OwnershipInvariant == OwnershipSpec => []OwnershipInv
<1> QED
  BY InitOwnershipInv, StepKeepsOwnershipInv, PTL DEF OwnershipSpec

\* One process at most has a data directory's storage open, none while a reset moves it; the
\* socket leads to the daemon that serves, and an end that was asked for and went well is not
\* recorded as a failure (runDaemon of daemon.ts, data-reset.ts).
THEOREM DaemonStaysAlone == OwnershipSpec => []DaemonIsAlone
<1>1. OwnershipInv => DaemonIsAlone
  BY OneHasStorage DEF OwnershipInv, DaemonIsAlone
<1> QED
  BY <1>1, OwnershipInvariant, PTL

-----------------------------------------------------------------------------
(* The mutex. *)

\* The calls of key k that have not ended.
Callers(k) == {p \in Active : keyOf[p] = k}

\* Those called before run p.
Earlier(p) == {q \in Active : keyOf[q] = keyOf[p] /\ turnOf[q] < turnOf[p]}

\* A run has a number while it is on its way, and no two have the same.
CallsNumbered ==
    /\ \A p \in Runs : turnOf[p] > 0 <=> at[p] # "idle"
    /\ \A p, q \in Active : turnOf[p] = turnOf[q] => p = q

\* Who is inside awaits nothing any more.
InsideAwaitsNone == \A p \in Runs : at[p] # "waiting" => previous[p] = NoRun

Awaits(p) == IF previous[p] = NoRun
             THEN Earlier(p) = {}
             ELSE /\ previous[p] \in Earlier(p)
                  /\ \A q \in Earlier(p) : turnOf[q] <= turnOf[previous[p]]

Newest(k) ==
    IF tails[k] = NoRun
    THEN Callers(k) = {}
    ELSE /\ tails[k] \in Callers(k)
         /\ \A q \in Callers(k) : turnOf[q] <= turnOf[tails[k]]

ChainInv ==
    /\ MutexTypeOK
    /\ CallsNumbered
    /\ InsideAwaitsNone
    /\ \A p \in Active : Awaits(p)
    /\ \A k \in Keys : Newest(k)

LEMMA InitChainInv == MutexInit => ChainInv
BY RunsAssumption DEF MutexInit, ChainInv, MutexTypeOK, CallsNumbered, InsideAwaitsNone, Newest,
   Callers, Active, MutexPlaces

LEMMA CallKeeps ==
  ASSUME ChainInv, NEW p \in Runs, NEW k \in Keys, Call(p, k)
  PROVE  ChainInv'
<1> USE DEF Call
<1>n. PICK n \in 1..MaxCalls : /\ \A q \in Runs : turnOf[q] < n
                               /\ turnOf' = [turnOf EXCEPT ![p] = n]
  OBVIOUS
<1>t. /\ n \in Nat /\ n > 0
      /\ MutexTypeOK
  BY CallsAssumption DEF ChainInv
<1>1. /\ turnOf'[p] = n /\ at'[p] = "waiting" /\ keyOf'[p] = k /\ previous'[p] = tails[k]
      /\ \A q \in Runs \ {p} : turnOf'[q] = turnOf[q] /\ at'[q] = at[q] /\ keyOf'[q] = keyOf[q]
                               /\ previous'[q] = previous[q]
      /\ tails'[k] = p
      /\ \A j \in Keys \ {k} : tails'[j] = tails[j]
  BY <1>n, <1>t DEF MutexTypeOK
<1>a. Active' = Active \union {p} /\ p \notin Active
  BY <1>1 DEF Active
<1>2. MutexTypeOK'
  BY <1>t, <1>n DEF MutexTypeOK, MutexPlaces
<1>3. CallsNumbered'
  <2>1. \A q \in Runs \ {p} : turnOf[q] \in Nat /\ turnOf[q] < n
    BY <1>n, <1>t DEF MutexTypeOK
  <2>2. \A q \in Runs : turnOf'[q] > 0 <=> at'[q] # "idle"
    BY <1>1, <1>t DEF ChainInv, CallsNumbered
  <2>3. ASSUME NEW q \in Active', NEW r \in Active', turnOf'[q] = turnOf'[r] PROVE q = r
    BY <1>1, <1>a, <1>t, <2>1, <2>3 DEF ChainInv, CallsNumbered, Active
  <2> QED BY <2>2, <2>3 DEF CallsNumbered
<1>4. InsideAwaitsNone'
  BY <1>1 DEF ChainInv, InsideAwaitsNone
<1>c. Callers(k)' = Callers(k) \union {p}
  BY <1>1, <1>a DEF Callers, Active
<1>d. \A j \in Keys \ {k} : Callers(j)' = Callers(j)
  BY <1>1, <1>a DEF Callers, Active
<1>e. Earlier(p)' = Callers(k)
  <2>1. \A q \in Active : q \in Runs /\ q # p /\ turnOf[q] < n
    BY <1>n, <1>a DEF Active
  <2> QED BY <1>1, <1>a, <1>t, <2>1 DEF Earlier, Callers, MutexTypeOK
<1>f. \A q \in Active : Earlier(q)' = Earlier(q)
  <2>1. \A q \in Active : q \in Runs /\ q # p /\ turnOf[q] < n /\ turnOf[q] \in Nat
    BY <1>n, <1>a, <1>t DEF Active, MutexTypeOK
  <2> QED BY <1>1, <1>a, <1>t, <2>1 DEF Earlier
<1>5. ASSUME NEW q \in Active' PROVE Awaits(q)'
  <2>1. CASE q = p
    <3>1. \A r \in Callers(k) : r \in Runs \ {p}
      BY <1>a DEF Callers, Active
    <3>2. Newest(k)
      BY DEF ChainInv
    <3>3. tails[k] # NoRun => turnOf'[tails[k]] = turnOf[tails[k]] /\ \A r \in Callers(k) : turnOf'[r] = turnOf[r]
      BY <1>1, <3>1, <3>2 DEF Newest
    <3> QED BY <1>1, <1>e, <2>1, <3>2, <3>3 DEF Awaits, Newest
  <2>2. CASE q # p
    <3>1. q \in Active /\ q \in Runs \ {p} /\ Awaits(q)
      BY <2>2, <1>a DEF ChainInv, Active
    <3>2. \A r \in Earlier(q) : turnOf'[r] = turnOf[r]
      BY <1>1, <1>a DEF Earlier, Active
    <3> QED BY <1>1, <1>f, <3>1, <3>2 DEF Awaits
  <2> QED BY <2>1, <2>2
<1>6. ASSUME NEW j \in Keys PROVE Newest(j)'
  <2>1. CASE j = k
    <3>1. tails'[j] = p /\ p # NoRun /\ p \in Callers(k)'
      BY <1>1, <1>c, <2>1, RunsAssumption
    <3>2. \A q \in Callers(k)' : turnOf'[q] <= turnOf'[p]
      <4>1. \A q \in Runs \ {p} : turnOf'[q] < n /\ turnOf'[q] \in Nat
        BY <1>1, <1>n, <1>t DEF MutexTypeOK
      <4>2. \A q \in Callers(k)' : q \in Runs
        BY <1>a, <1>c DEF Callers, Active
      <4> QED BY <4>1, <4>2, <1>1, <1>t
    <3> QED BY <2>1, <3>1, <3>2 DEF Newest
  <2>2. CASE j # k
    <3>1. Newest(j) /\ Callers(j)' = Callers(j) /\ tails'[j] = tails[j]
      BY <2>2, <1>1, <1>d DEF ChainInv
    <3>2. \A q \in Callers(j) : turnOf'[q] = turnOf[q]
      BY <1>1, <1>a DEF Callers, Active
    <3> QED BY <3>1, <3>2 DEF Newest
  <2> QED BY <2>1, <2>2
<1> QED BY <1>2, <1>3, <1>4, <1>5, <1>6 DEF ChainInv

LEMMA EnterKeeps ==
  ASSUME ChainInv, NEW p \in Runs, Enter(p)
  PROVE  ChainInv'
<1> USE DEF Enter
<1>1. /\ at'[p] = "inside" /\ previous[p] = NoRun
      /\ \A q \in Runs \ {p} : at'[q] = at[q]
      /\ MutexTypeOK
  BY DEF ChainInv, MutexTypeOK
<1>a. Active' = Active
  BY <1>1 DEF Active
<1>2. MutexTypeOK'
  BY <1>1 DEF MutexTypeOK, MutexPlaces
<1>3. CallsNumbered'
  BY <1>1, <1>a DEF ChainInv, CallsNumbered
<1>4. InsideAwaitsNone'
  BY <1>1 DEF ChainInv, InsideAwaitsNone
<1>5. \A q \in Active' : Awaits(q)'
  BY <1>a DEF ChainInv, Awaits, Earlier
<1>6. \A k \in Keys : Newest(k)'
  BY <1>a DEF ChainInv, Newest, Callers
<1> QED BY <1>2, <1>3, <1>4, <1>5, <1>6 DEF ChainInv

\* Whoever is inside is the first of its key.
LEMMA InsideIsFirst ==
  ASSUME ChainInv, NEW p \in Runs, at[p] = "inside"
  PROVE  /\ p \in Active
         /\ \A q \in Callers(keyOf[p]) \ {p} : turnOf[p] < turnOf[q]
<1>1. p \in Active /\ previous[p] = NoRun /\ Earlier(p) = {}
  BY DEF ChainInv, InsideAwaitsNone, Active, Awaits
<1>2. \A q \in Callers(keyOf[p]) \ {p} : turnOf[q] # turnOf[p] /\ ~(turnOf[q] < turnOf[p])
  BY <1>1 DEF ChainInv, CallsNumbered, Earlier, Callers
<1>3. \A q \in Callers(keyOf[p]) : turnOf[q] \in Nat /\ turnOf[p] \in Nat
  BY DEF ChainInv, MutexTypeOK, Callers, Active
<1> QED BY <1>1, <1>2, <1>3

LEMMA LeaverKeeps ==
  ASSUME ChainInv, NEW p \in Runs, Leave(p)
  PROVE  ChainInv'
<1> USE DEF Leave
<1>t. MutexTypeOK
  BY DEF ChainInv
<1>y. PICK k \in Keys : k = keyOf[p]
  BY <1>t DEF MutexTypeOK
<1>1. /\ at'[p] = "idle" /\ turnOf'[p] = 0
      /\ \A q \in Runs \ {p} : at'[q] = at[q] /\ turnOf'[q] = turnOf[q]
      /\ \A q \in Runs : previous'[q] = IF previous[q] = p THEN NoRun ELSE previous[q]
      /\ keyOf' = keyOf
  BY <1>t DEF MutexTypeOK
<1>k. /\ tails'[k] = IF tails[k] = p THEN NoRun ELSE tails[k]
      /\ \A j \in Keys \ {k} : tails'[j] = tails[j]
  BY <1>t, <1>y DEF MutexTypeOK, Untail
<1>f. /\ p \in Active /\ previous[p] = NoRun /\ p # NoRun
      /\ \A q \in Callers(k) \ {p} : turnOf[p] < turnOf[q]
  BY InsideIsFirst, RunsAssumption, <1>y DEF ChainInv, InsideAwaitsNone
<1>a. Active' = Active \ {p}
  BY <1>1 DEF Active
<1>n. \A q \in Runs : turnOf[q] \in Nat
  BY <1>t DEF MutexTypeOK
<1>2. MutexTypeOK'
  BY <1>t, <1>1 DEF MutexTypeOK, MutexPlaces, Untail
<1>3. CallsNumbered'
  <2>1. \A q \in Runs : turnOf'[q] > 0 <=> at'[q] # "idle"
    BY <1>1 DEF ChainInv, CallsNumbered
  <2>2. \A q, r \in Active' : turnOf'[q] = turnOf'[r] => q = r
    BY <1>1, <1>a DEF ChainInv, CallsNumbered, Active
  <2> QED BY <2>1, <2>2 DEF CallsNumbered
<1>4. InsideAwaitsNone'
  BY <1>1, <1>f DEF ChainInv, InsideAwaitsNone
<1>c. /\ Callers(k)' = Callers(k) \ {p}
      /\ p \in Callers(k)
      /\ \A j \in Keys \ {k} : Callers(j)' = Callers(j)
  BY <1>1, <1>a, <1>f, <1>y DEF Callers, Active
<1>e. \A q \in Active' : q \in Active /\ q \in Runs \ {p} /\ Earlier(q)' = Earlier(q) \ {p}
  BY <1>1, <1>a DEF Earlier, Active
<1>5. ASSUME NEW q \in Active' PROVE Awaits(q)'
  <2>1. Awaits(q) /\ q \in Runs \ {p} /\ Earlier(q)' = Earlier(q) \ {p}
    BY <1>e DEF ChainInv
  <2>2. \A r \in Earlier(q)' : turnOf'[r] = turnOf[r] /\ r \in Runs \ {p} /\ r \in Earlier(q)
    BY <1>1, <2>1 DEF Earlier, Active
  <2>3. CASE previous[q] = NoRun
    BY <2>1, <2>3, <1>1, <1>f DEF Awaits
  <2>4. CASE previous[q] = p
    <3>1. p \in Earlier(q) /\ \A r \in Earlier(q) : turnOf[r] <= turnOf[p]
      BY <2>1, <2>4, <1>f DEF Awaits
    <3>2. \A r \in Earlier(q) \ {p} : r \in Callers(k) \ {p} /\ r \in Runs
      BY <3>1, <1>y, <2>4 DEF Earlier, Callers, Active
    <3>3. \A r \in Earlier(q) \ {p} : turnOf[r] <= turnOf[p] /\ turnOf[p] < turnOf[r]
      BY <3>1, <3>2, <1>f
    <3>4. Earlier(q)' = {}
      BY <2>1, <3>2, <3>3, <1>n
    <3> QED BY <3>4, <1>1, <2>1, <2>4 DEF Awaits
  <2>5. CASE previous[q] # NoRun /\ previous[q] # p
    <3>1. previous'[q] = previous[q] /\ previous[q] \in Earlier(q)'
      BY <1>1, <2>1, <2>5 DEF Awaits
    <3>2. \A r \in Earlier(q)' : turnOf'[r] <= turnOf'[previous[q]]
      BY <2>1, <2>2, <2>5, <3>1 DEF Awaits
    <3> QED BY <2>5, <3>1, <3>2 DEF Awaits
  <2> QED BY <2>3, <2>4, <2>5
<1>6. ASSUME NEW j \in Keys PROVE Newest(j)'
  <2>0. Newest(j)
    BY DEF ChainInv
  <2>s. \A q \in Callers(j)' : turnOf'[q] = turnOf[q] /\ q \in Runs \ {p}
    BY <1>1 DEF Callers, Active
  <2>1. CASE j = k /\ tails[k] = p
    <3>1. \A q \in Callers(k) \ {p} : turnOf[q] <= turnOf[p] /\ turnOf[p] < turnOf[q] /\ q \in Runs
      BY <2>0, <2>1, <1>f DEF Newest, Callers, Active
    <3>2. Callers(k)' = {}
      BY <3>1, <1>c, <1>n
    <3>3. tails'[j] = NoRun
      BY <2>1, <1>k
    <3>4. Callers(j)' = {}
      BY <2>1, <3>2
    <3> QED BY <3>3, <3>4 DEF Newest
  <2>2. CASE j = k /\ tails[k] # p
    <3>1. tails'[j] = tails[j] /\ Callers(j)' = Callers(j) \ {p} /\ p \in Callers(j)
      BY <2>2, <1>k, <1>c
    <3>2. tails[j] # NoRun /\ tails[j] \in Callers(j) /\ \A q \in Callers(j) : turnOf[q] <= turnOf[tails[j]]
      BY <2>0, <3>1 DEF Newest
    <3>4. tails[j] \in Callers(j)'
      BY <3>1, <3>2, <2>2
    <3>3. \A q \in Callers(j)' : turnOf'[q] <= turnOf'[tails[j]]
      BY <2>s, <3>1, <3>2, <3>4
    <3> QED BY <3>1, <3>2, <3>3, <3>4 DEF Newest
  <2>3. CASE j # k
    <3>1. tails'[j] = tails[j] /\ Callers(j)' = Callers(j)
      BY <2>3, <1>k, <1>c
    <3> QED BY <2>0, <2>s, <3>1 DEF Newest
  <2> QED BY <2>1, <2>2, <2>3
<1> QED BY <1>2, <1>3, <1>4, <1>5, <1>6 DEF ChainInv

LEMMA StutterKeeps == ChainInv /\ UNCHANGED mutexVars => ChainInv'
<1> SUFFICES ASSUME ChainInv, UNCHANGED mutexVars PROVE ChainInv'
  OBVIOUS
<1>1. Active' = Active
  BY DEF mutexVars, Active
<1>2. \A p : Earlier(p)' = Earlier(p)
  BY <1>1 DEF mutexVars, Earlier
<1>3. \A k : Callers(k)' = Callers(k)
  BY <1>1 DEF mutexVars, Callers
<1>4. \A p \in Active' : Awaits(p)'
  BY <1>1, <1>2 DEF mutexVars, ChainInv, Awaits
<1>5. \A k \in Keys : Newest(k)'
  BY <1>3 DEF mutexVars, ChainInv, Newest
<1>6. MutexTypeOK' /\ CallsNumbered' /\ InsideAwaitsNone'
  BY <1>1 DEF mutexVars, ChainInv, MutexTypeOK, CallsNumbered, InsideAwaitsNone
<1> QED BY <1>4, <1>5, <1>6 DEF ChainInv

LEMMA SpecChainInv == MutexSpec => []ChainInv
<1>1. ChainInv /\ [MutexNext]_mutexVars => ChainInv'
  BY CallKeeps, EnterKeeps, LeaverKeeps, StutterKeeps DEF MutexNext
<1> QED BY <1>1, InitChainInv, PTL DEF MutexSpec

\* The promises of a key form one chain in the order of the calls, whose end the map knows.
THEOREM ChainStaysWhole == MutexSpec => []ChainIsWhole
<1>1. ChainInv => ChainIsWhole
  BY DEF ChainInv, ChainIsWhole, Awaits, Earlier, Newest, Callers
<1> QED BY <1>1, SpecChainInv, PTL

\* run() is a fair lock per key: one at a time, first come first served.
THEOREM MutexImplementsLock == MutexSpec => ImplementsLock
<1> DEFINE Inside == {p \in Runs : at[p] = "inside"}
<1>1. MutexInit => Locks!LockInit
  BY DEF MutexInit, Locks!LockInit
<1>2. ASSUME ChainInv, [MutexNext]_mutexVars PROVE [Locks!LockNext]_(Locks!lockVars)
  <2>1. CASE UNCHANGED mutexVars
    BY <2>1 DEF mutexVars, Locks!lockVars
  <2>2. ASSUME NEW p \in Runs, NEW k \in Keys, Call(p, k) PROVE Locks!LockCall(p, k)
    <3>1. PICK n \in 1..MaxCalls : /\ \A q \in Runs : turnOf[q] < n
                                   /\ turnOf' = [turnOf EXCEPT ![p] = n]
      BY <2>2 DEF Call
    <3>2. turnOf'[p] = n /\ n \in Nat \ {0}
      BY <3>1, <1>2, CallsAssumption DEF ChainInv, MutexTypeOK
    <3>3. at'[p] = "waiting" /\ at[p] = "idle" /\ \A q \in Runs \ {p} : at'[q] = at[q]
      BY <2>2, <1>2 DEF Call, ChainInv, MutexTypeOK
    <3>4. Inside' = Inside
      BY <3>3
    <3>5. turnOf[p] = 0
      BY <3>3, <1>2 DEF ChainInv, CallsNumbered, MutexTypeOK
    <3> QED BY <2>2, <3>1, <3>2, <3>4, <3>5 DEF Call, Locks!LockCall
  <2>3. ASSUME NEW p \in Runs, Enter(p) PROVE Locks!LockEnter(p)
    <3>1. at[p] = "waiting" /\ at'[p] = "inside" /\ \A q \in Runs \ {p} : at'[q] = at[q]
      BY <2>3, <1>2 DEF Enter, ChainInv, MutexTypeOK
    <3>2. Inside' = Inside \union {p} /\ p \notin Inside
      BY <3>1
    <3>3. turnOf[p] > 0 /\ p \in Active
      BY <3>1, <1>2 DEF ChainInv, CallsNumbered, Active
    <3>4. Earlier(p) = {}
      BY <2>3, <3>3, <1>2 DEF Enter, ChainInv, Awaits
    <3>5. Locks!Before(p, keyOf[p]) = {}
      BY <3>4, <1>2 DEF Locks!Before, Earlier, ChainInv, CallsNumbered, Active
    <3> QED BY <2>3, <3>2, <3>3, <3>5 DEF Enter, Locks!LockEnter
  <2>4. ASSUME NEW p \in Runs, Leave(p) PROVE Locks!LockLeave(p)
    <3>1. at[p] = "inside" /\ at'[p] = "idle" /\ \A q \in Runs \ {p} : at'[q] = at[q]
      BY <2>4, <1>2 DEF Leave, ChainInv, MutexTypeOK
    <3>2. Inside' = Inside \ {p} /\ p \in Inside
      BY <3>1
    <3> QED BY <2>4, <3>2 DEF Leave, Locks!LockLeave
  <2> QED BY <2>1, <2>2, <2>3, <2>4, <1>2 DEF MutexNext, Locks!LockNext
<1> QED BY <1>1, <1>2, SpecChainInv, PTL DEF MutexSpec, Locks!LockSpec, ImplementsLock

-----------------------------------------------------------------------------
(* The graph of tickets. *)

TicketRows == [owner : Agents, state : {"todo", "done"}, dependsOn : SUBSET TicketIds]

\* The graph as it is: some of the tickets, each with its row.
IsGraph(g) == DOMAIN g \subseteq TicketIds /\ g \in [DOMAIN g -> TicketRows]

\* A call keeps its form when the store runs it again: only `by` may change.
IsWrite(op) ==
    /\ Names(op, "kind") /\ op.kind \in {"createTicket", "updateTicket"}
    /\ Names(op, "ticket") /\ op.ticket \in TicketIds
    /\ Names(op, "owner") => op.owner \in [by : {"name", "id"}, who : Agents]
    /\ Names(op, "state") => op.state \in {"todo", "done"}
    /\ Names(op, "dependsOn") => op.dependsOn \subseteq TicketIds
    /\ op.kind = "createTicket" => \A field \in {"owner", "state", "dependsOn"} : Names(op, field)

\* What a call at work holds: a write in its form, of a ticket that exists unless it makes it.
CallsAreWrites == \A a \in Writing :
    /\ writer[a].at = "working"
    /\ IsWrite(writer[a].op)
    /\ writer[a].op.kind = "createTicket" <=> writer[a].op.ticket \notin DOMAIN tickets

TicketsTypeOK == /\ IsGraph(tickets)
                 /\ DOMAIN writer = Agents
                 /\ CallsAreWrites

\* One call works on the graph at a time, and what it has seen is what there is.
OneWriterOfTheGraph == \A a, b \in Writing : a = b
SnapshotsAreCurrent == \A a \in Writing : writer[a].seen = tickets

TicketsInv == /\ TicketsTypeOK
              /\ OneWriterOfTheGraph
              /\ SnapshotsAreCurrent
              /\ GraphIsAcyclic
-----------------------------------------------------------------------------

\* Every call begins with a write in its form.
LEMMA CallsHaveForm == ASSUME NEW op \in Creations \cup Updates PROVE IsWrite(op)
BY DEF Creations, Updates, IsWrite, Names

\* Another run of the same call asks for the same, whatever became of the owner's name.
LEMMA RetriesHaveForm ==
  ASSUME NEW op, IsWrite(op), Names(op, "owner"),
         NEW again, again = [op EXCEPT !.owner.by = "id"]
  PROVE  IsWrite(again) /\ again.kind = op.kind /\ again.ticket = op.ticket
<1>1. DOMAIN again = DOMAIN op
  OBVIOUS
<1>2. \A field \in DOMAIN op \ {"owner"} : again[field] = op[field]
  OBVIOUS
<1>3. again.owner \in [by : {"name", "id"}, who : Agents]
  BY DEF Names, IsWrite
<1> QED
  BY <1>1, <1>2, <1>3 DEF IsWrite, Names

\* An edit of the graph by a write in its form makes a graph.
LEMMA EditsKeepGraphs ==
  ASSUME NEW g, IsGraph(g), NEW op, IsWrite(op),
         op.kind = "createTicket" <=> op.ticket \notin DOMAIN g
  PROVE  IsGraph(Edited(g, op))
<1>1. Prepared(g, op) \in TicketRows
  <2>1. CASE op.kind = "createTicket"
    BY <2>1 DEF IsWrite, Prepared, TicketRows
  <2>2. CASE op.kind # "createTicket"
    <3>1. g[op.ticket] \in TicketRows
      BY <2>2 DEF IsGraph
    <3> QED
      BY <3>1 DEF IsWrite, Prepared, TicketRows
  <2> QED
    BY <2>1, <2>2
<1> QED
  BY <1>1 DEF IsGraph, IsWrite, Edited

LEMMA InitTicketsInv == TicketsInit => TicketsInv
<1> SUFFICES ASSUME TicketsInit PROVE TicketsInv
  OBVIOUS
<1>1. PICK S \in SUBSET TicketIds :
        tickets \in [S -> [owner : Agents, state : {"todo"}, dependsOn : {{}}]]
  BY DEF TicketsInit
<1>2. IsGraph(tickets)
  BY <1>1 DEF IsGraph, TicketRows
<1>3. ValidGraph(tickets)
  <2>1. \A t \in DOMAIN tickets : tickets[t].dependsOn = {}
    BY <1>1
  <2> QED
    BY <2>1 DEF ValidGraph
<1>4. Writing = {} /\ DOMAIN writer = Agents
  BY DEF TicketsInit, Writing, NoWrite
<1> QED
  BY <1>2, <1>3, <1>4 DEF TicketsInv, TicketsTypeOK, CallsAreWrites, OneWriterOfTheGraph,
     SnapshotsAreCurrent, GraphIsAcyclic

\* A call that ends without a commit leaves the graph to the next.
LEMMA EndKeepsTicketsInv ==
  ASSUME TicketsInv, NEW a \in Agents,
         writer' = [writer EXCEPT ![a] = NoWrite], UNCHANGED tickets
  PROVE  TicketsInv'
<1>1. Writing' = Writing \ {a} /\ \A b \in Writing' : writer'[b] = writer[b]
  BY DEF TicketsInv, TicketsTypeOK, Writing, NoWrite
<1>2. DOMAIN writer' = Agents
  BY DEF TicketsInv, TicketsTypeOK
<1> QED
  BY <1>1, <1>2 DEF TicketsInv, TicketsTypeOK, IsGraph, CallsAreWrites, OneWriterOfTheGraph,
     SnapshotsAreCurrent, GraphIsAcyclic

LEMMA BeginKeepsTicketsInv ==
  ASSUME TicketsInv, NEW a \in Agents, NEW op \in Creations \cup Updates, BeginWrite(a, op)
  PROVE  TicketsInv'
<1> USE DEF BeginWrite
<1>1. Writing = {}
  BY DEF LockOf
<1>2. Writing' = {a} /\ DOMAIN writer' = Agents
  BY <1>1 DEF TicketsInv, TicketsTypeOK, Writing, NoWrite
<1>3. writer'[a] = [at |-> "working", op |-> op, seen |-> tickets]
  BY DEF TicketsInv, TicketsTypeOK
<1>4. IsWrite(op)
  BY CallsHaveForm
<1>5. CallsAreWrites'
  BY <1>2, <1>3, <1>4 DEF CallsAreWrites
<1> QED
  BY <1>2, <1>3, <1>5 DEF TicketsInv, TicketsTypeOK, IsGraph, OneWriterOfTheGraph,
     SnapshotsAreCurrent, GraphIsAcyclic

\* A commit writes what it judged, to the graph it judged.
LEMMA CommitWritesEdited ==
  ASSUME TicketsInv, NEW a \in Agents, CommitWrite(a)
  PROVE  /\ Writing = {a} /\ writer[a].seen = tickets
         /\ IsWrite(writer[a].op)
         /\ writer[a].op.kind = "createTicket" <=> writer[a].op.ticket \notin DOMAIN tickets
         /\ tickets' = Edited(tickets, writer[a].op)
<1>1. a \in Writing
  BY DEF CommitWrite, Writing
<1>2. Writing = {a} /\ writer[a].seen = tickets
  BY <1>1 DEF TicketsInv, OneWriterOfTheGraph, SnapshotsAreCurrent
<1>3. /\ IsWrite(writer[a].op)
      /\ writer[a].op.kind = "createTicket" <=> writer[a].op.ticket \notin DOMAIN tickets
  BY <1>1 DEF TicketsInv, TicketsTypeOK, CallsAreWrites
<1>4. tickets' = Edited(tickets, writer[a].op)
  BY <1>2 DEF CommitWrite, Edited
<1> QED
  BY <1>2, <1>3, <1>4

LEMMA CommitKeepsTicketsInv ==
  ASSUME TicketsInv, NEW a \in Agents, CommitWrite(a)
  PROVE  TicketsInv'
<1>1. /\ Writing = {a} /\ writer[a].seen = tickets
      /\ IsWrite(writer[a].op)
      /\ writer[a].op.kind = "createTicket" <=> writer[a].op.ticket \notin DOMAIN tickets
      /\ tickets' = Edited(tickets, writer[a].op)
  BY CommitWritesEdited
<1>2. IsGraph(tickets)'
  BY <1>1, EditsKeepGraphs DEF TicketsInv, TicketsTypeOK
<1>3. ValidGraph(tickets')
  BY <1>1 DEF CommitWrite, Acceptable
<1>4. Writing' = {} /\ DOMAIN writer' = Agents
  BY <1>1 DEF CommitWrite, TicketsInv, TicketsTypeOK, Writing, NoWrite
<1> QED
  BY <1>2, <1>3, <1>4 DEF TicketsInv, TicketsTypeOK, CallsAreWrites, OneWriterOfTheGraph,
     SnapshotsAreCurrent, GraphIsAcyclic

LEMMA RetryKeepsTicketsInv ==
  ASSUME TicketsInv, NEW a \in Agents, RetryWrite(a)
  PROVE  TicketsInv'
<1> DEFINE op == writer[a].op
           again == IF op.kind = "updateTicket" /\ Names(op, "owner")
                    THEN [op EXCEPT !.owner.by = "id"] ELSE op
<1>1. a \in Writing /\ writer[a].at = "working"
  BY DEF RetryWrite, Writing
<1>2. /\ IsWrite(op)
      /\ op.kind = "createTicket" <=> op.ticket \notin DOMAIN tickets
      /\ Writing = {a} /\ DOMAIN writer = Agents
  BY <1>1 DEF TicketsInv, TicketsTypeOK, CallsAreWrites, OneWriterOfTheGraph
<1>3. IsWrite(again) /\ again.kind = op.kind /\ again.ticket = op.ticket
  <2>1. CASE op.kind = "updateTicket" /\ Names(op, "owner")
    BY <1>2, <2>1, RetriesHaveForm
  <2>2. CASE ~(op.kind = "updateTicket" /\ Names(op, "owner"))
    BY <1>2, <2>2
  <2> QED
    BY <2>1, <2>2
<1>4. /\ writer'[a].at = writer[a].at /\ writer'[a].op = again /\ writer'[a].seen = tickets
      /\ \A b \in Agents \ {a} : writer'[b] = writer[b]
      /\ DOMAIN writer' = Agents
  BY <1>2 DEF RetryWrite
<1>5. Writing' = {a}
  BY <1>1, <1>2, <1>4 DEF Writing
<1>6. UNCHANGED tickets
  BY DEF RetryWrite
<1>7. CallsAreWrites'
  BY <1>1, <1>2, <1>3, <1>4, <1>5, <1>6 DEF CallsAreWrites
<1> QED
  BY <1>4, <1>5, <1>6, <1>7 DEF TicketsInv, TicketsTypeOK, IsGraph, OneWriterOfTheGraph,
     SnapshotsAreCurrent, GraphIsAcyclic

LEMMA StepKeepsTicketsInv == TicketsInv /\ [TicketsNext]_ticketVars => TicketsInv'
<1> SUFFICES ASSUME TicketsInv, [TicketsNext]_ticketVars PROVE TicketsInv'
  OBVIOUS
<1>1. CASE UNCHANGED ticketVars
  BY <1>1 DEF ticketVars, TicketsInv, TicketsTypeOK, IsGraph, CallsAreWrites, Writing,
     OneWriterOfTheGraph, SnapshotsAreCurrent, GraphIsAcyclic
<1>2. ASSUME NEW a \in Agents, NEW op \in Creations \cup Updates, BeginWrite(a, op)
      PROVE  TicketsInv'
  BY <1>2, BeginKeepsTicketsInv
<1>3. ASSUME NEW a \in Agents, RefuseWrite(a) \/ GiveUpWrite(a) PROVE TicketsInv'
  BY <1>3, EndKeepsTicketsInv DEF RefuseWrite, GiveUpWrite
<1>4. ASSUME NEW a \in Agents, CommitWrite(a) PROVE TicketsInv'
  BY <1>4, CommitKeepsTicketsInv
<1>5. ASSUME NEW a \in Agents, RetryWrite(a) PROVE TicketsInv'
  BY <1>5, RetryKeepsTicketsInv
<1> QED
  BY <1>1, <1>2, <1>3, <1>4, <1>5 DEF TicketsNext

\* The inductive invariant: calls and rows keep their form, one call works on the graph at a
\* time on a snapshot that is current, and the graph has no cycle.
THEOREM TicketsInvariant == TicketsSpec => []TicketsInv
<1> QED
  BY InitTicketsInv, StepKeepsTicketsInv, PTL DEF TicketsSpec

-----------------------------------------------------------------------------

\* What one commit owes to the owners of the tickets it makes ready.
LEMMA CommitTellsTheReady ==
  ASSUME TicketsInv, NEW a \in Agents, CommitWrite(a),
         NEW t \in DOMAIN tickets, ~Ready(tickets, t), Ready(tickets', t),
         tickets'[t].owner # a
  PROVE  <<tickets'[t].owner, t, "ticket_ready">> \in Notices(a)
<1>1. writer[a].seen = tickets /\ tickets' = Edited(tickets, writer[a].op)
  BY CommitWritesEdited
<1>2. t \in {u \in DOMAIN writer[a].seen :
                ~Ready(writer[a].seen, u) /\ Ready(Edited(writer[a].seen, writer[a].op), u)}
  BY <1>1
<1> QED
  BY <1>1, <1>2 DEF Notices

\* No two agents close a circle of tickets that wait for each other, and whoever finishes
\* what a ticket was waiting for tells its owner (createTicket and commitTurn of service.ts
\* under the graph's lock, with validateTicketGraph and the notices of ticket.ts).
THEOREM TicketsAreJudged == TicketsSpec => GraphIsJudged
<1>1. TicketsInv => GraphIsAcyclic
  BY DEF TicketsInv
<1>2. TicketsInv /\ [TicketsNext]_ticketVars =>
        [\A t \in DOMAIN tickets : ~Ready(tickets, t) /\ Ready(tickets', t) =>
            \A a \in Agents : CommitWrite(a) =>
                \/ tickets'[t].owner = a
                \/ <<tickets'[t].owner, t, "ticket_ready">> \in Notices(a)]_ticketVars
  BY CommitTellsTheReady
<1> QED
  BY <1>1, <1>2, TicketsInvariant, PTL DEF GraphIsJudged, ReadyIsAnnounced, TicketsSpec

-----------------------------------------------------------------------------
(* The diagnostic log. *)

InFlush == {"checking", "copying", "truncating", "appending", "failing"}

Writers ==
    [at : InFlush \cup {"idle", "locking", "dead"}, file : 0..2, queue : Nat, dropped : Nat,
     timer : BOOLEAN, closing : BOOLEAN]

LogFileTypes ==
    /\ logger \in [Loggers -> Writers]
    /\ logLock \in Loggers \cup {Unlocked}
    /\ records \in [Files -> [from : Nat, to : Int]]
    /\ written \in Nat /\ emitted \in Nat

\* Who is in a flush holds the lock.
FlushesAlone == \A l \in Loggers : logger[l].at \in InFlush => logLock = l

\* The log goes to the last record; the others hold some in a row, none before the first.
FilesHoldRows ==
    /\ records[Latest].to = written /\ records[Latest] # NoFile
    /\ \A f \in Files :
          records[f] # NoFile =>
              /\ 1 <= records[f].from /\ records[f].from <= records[f].to + 1
              /\ records[f].to <= written

\* What comes after the first record of a file is in it or in a newer one.
NewerHoldTheRest ==
    \A f \in Files : \A n \in Nat :
        records[f] # NoFile /\ records[f].from <= n /\ n <= written => \E g \in 0..f : In(n, g)

FilesInv == FilesHoldRows /\ FilesAreInOrder /\ NewerHoldTheRest /\ LatestAreAtHand

\* A file that is about to be written over has been copied, but the oldest.
CopyIsSafe(w, held) ==
    /\ w.at = "copying" =>
          /\ held[Latest].to - held[Latest].from + 1 >= FileLimit
          /\ w.file < 2 => held[w.file + 1] = NoFile \/ held[w.file + 2] = held[w.file + 1]
    /\ w.at = "truncating" =>
          /\ held[Latest].to - held[Latest].from + 1 >= FileLimit
          /\ held[1] = held[Latest]
CopiesAreSafe == \A l \in Loggers : CopyIsSafe(logger[l], records)

WriterIsTended(w) == w.queue > 0 => w.at # "idle" \/ w.timer

LogKeptInv == LogFileTypes /\ FlushesAlone /\ FilesInv /\ CopiesAreSafe /\ QueuedIsTended

\* A file that is copied to the next, in full or in part, leaves what is kept without a gap.
LEMMA CopyKeeps ==
    ASSUME records \in [Files -> [from : Nat, to : Int]], written \in Nat, FilesInv,
           Size(Latest) >= FileLimit,
           NEW f \in 0..2, NEW copy \in [from : Nat, to : Int], records[f] # NoFile,
           \/ copy = NoFile
           \/ /\ copy.from = records[f].from /\ copy.from <= copy.to + 1
              /\ copy.to <= records[f].to,
           f < 2 => records[f + 1] = NoFile \/ records[f + 2] = records[f + 1],
           records' = [records EXCEPT ![f + 1] = copy], written' = written
    PROVE  FilesInv'
<1> USE LogAssumption
<1>0. /\ \A g \in Files : records'[g] = IF g = f + 1 THEN copy ELSE records[g]
      /\ f + 1 \in Files /\ f \in Files /\ f + 1 # Latest /\ Latest \in Files
    BY DEF Files, Latest
<1>1. \A n \in Nat, g \in Files : g # f + 1 => (In(n, g)' <=> In(n, g))
    BY <1>0 DEF In
<1>2. FilesHoldRows'
    BY <1>0, Z3 DEF FilesInv, FilesHoldRows, Files, Latest, NoFile, Row
<1>3. FilesAreInOrder'
  <2> SUFFICES ASSUME NEW h \in Files, NEW g \in Files, h < g, records'[h] # NoFile,
                      records'[g] # NoFile
               PROVE  records'[g].from <= records'[h].from
      BY DEF FilesAreInOrder
  <2>1. \A a, b \in Files : a < b /\ records[a] # NoFile /\ records[b] # NoFile =>
            records[b].from <= records[a].from
      BY DEF FilesInv, FilesAreInOrder
  <2>2. CASE h = f + 1
    <3>1. f < g /\ g # f + 1
        BY <2>2 DEF Files
    <3> QED
        BY <2>1, <2>2, <3>1, <1>0
  <2>3. CASE g = f + 1
    <3>1. h <= f /\ h # f + 1
        BY <2>3 DEF Files
    <3>2. records[f].from <= records[h].from
        BY <2>1, <2>3, <3>1, <1>0 DEF Files
    <3> QED
        BY <2>3, <3>1, <3>2, <1>0
  <2>4. CASE h # f + 1 /\ g # f + 1
      BY <2>1, <2>4, <1>0
  <2> QED
      BY <2>2, <2>3, <2>4
<1>4. NewerHoldTheRest'
  <2> SUFFICES ASSUME NEW h \in Files, NEW n \in Nat, records'[h] # NoFile,
                      records'[h].from <= n, n <= written
               PROVE  \E g \in 0..h : In(n, g)'
      BY DEF NewerHoldTheRest
  <2>1. \A a \in Files : records[a] # NoFile /\ records[a].from <= n => \E g \in 0..a : In(n, g)
      BY DEF FilesInv, NewerHoldTheRest
  <2>2. CASE h = f + 1
    <3>1. PICK g \in 0..f : In(n, g)
        BY <2>1, <2>2, <1>0
    <3>2. g \in Files /\ g # f + 1 /\ g \in 0..h
        BY <2>2 DEF Files
    <3> QED
        BY <3>1, <3>2, <1>1
  <2>3. CASE h # f + 1
    <3>1. PICK g \in 0..h : In(n, g)
        BY <2>1, <2>3, <1>0
    <3>2. g \in Files
        BY DEF Files
    <3>3. CASE g # f + 1
        BY <3>1, <3>2, <3>3, <1>1
    <3>4. CASE g = f + 1
      <4>1. f < 2 /\ f + 2 \in 0..h /\ f + 2 \in Files /\ f + 2 # f + 1
          BY <3>4, <2>3 DEF Files
      <4>2. records[f + 1] # NoFile
          BY <3>1, <3>4 DEF In, NoFile, Row
      <4>3. In(n, f + 2)
          BY <4>1, <4>2, <3>1, <3>4 DEF In
      <4> QED
          BY <4>1, <4>3, <1>1
    <3> QED
        BY <3>3, <3>4
  <2> QED
      BY <2>2, <2>3
<1>5. LatestAreAtHand'
  <2> SUFFICES ASSUME NEW n \in 1..written, n > written - FileLimit PROVE In(n, Latest)'
      BY DEF LatestAreAtHand
  <2>1. records[Latest].from <= n /\ n <= records[Latest].to
      BY <1>0 DEF FilesInv, FilesHoldRows, Size
  <2> QED
      BY <2>1, <1>0, <1>1 DEF In
<1> QED
    BY <1>2, <1>3, <1>4, <1>5 DEF FilesInv

\* The log is emptied when the first of the older files is a copy of it.
LEMMA TruncationKeeps ==
    ASSUME records \in [Files -> [from : Nat, to : Int]], written \in Nat, FilesInv,
           Size(Latest) >= FileLimit, records[1] = records[Latest],
           records' = [records EXCEPT ![Latest] = Row(written + 1, written)], written' = written
    PROVE  FilesInv'
<1> USE LogAssumption
<1>0. /\ \A g \in Files : records'[g] = IF g = Latest THEN Row(written + 1, written)
                                        ELSE records[g]
      /\ Latest \in Files /\ 1 \in Files /\ Latest # 1
    BY DEF Files, Latest
<1>1. \A n \in Nat, g \in Files : g # Latest => (In(n, g)' <=> In(n, g))
    BY <1>0 DEF In
<1>2. FilesHoldRows'
    BY <1>0, Z3 DEF FilesInv, FilesHoldRows, Files, Latest, NoFile, Row
<1>3. FilesAreInOrder'
  <2> SUFFICES ASSUME NEW h \in Files, NEW g \in Files, h < g, records'[h] # NoFile,
                      records'[g] # NoFile
               PROVE  records'[g].from <= records'[h].from
      BY DEF FilesAreInOrder
  <2>1. g # Latest /\ records[g] # NoFile
      BY <1>0 DEF Files, Latest
  <2>2. CASE h # Latest
      BY <2>1, <2>2, <1>0 DEF FilesInv, FilesAreInOrder
  <2>3. CASE h = Latest
    <3>1. records[g].from <= written + 1
        BY <2>1, <1>0 DEF FilesInv, FilesHoldRows
    <3> QED
        BY <2>1, <2>3, <3>1, <1>0 DEF Row
  <2> QED
      BY <2>2, <2>3
<1>4. NewerHoldTheRest'
  <2> SUFFICES ASSUME NEW h \in Files, NEW n \in Nat, records'[h] # NoFile,
                      records'[h].from <= n, n <= written
               PROVE  \E g \in 0..h : In(n, g)'
      BY DEF NewerHoldTheRest
  <2>1. h # Latest
      BY <1>0 DEF Row
  <2>2. PICK g \in 0..h : In(n, g)
      BY <2>1, <1>0 DEF FilesInv, NewerHoldTheRest
  <2>3. g \in Files /\ 1 \in 0..h
      BY <2>1 DEF Files, Latest
  <2>4. CASE g = Latest
      BY <2>2, <2>3, <2>4, <1>0, <1>1 DEF In
  <2> QED
      BY <2>2, <2>3, <2>4, <1>1
<1>5. LatestAreAtHand'
  <2> SUFFICES ASSUME NEW n \in 1..written, n > written - FileLimit PROVE In(n, 1)'
      BY DEF LatestAreAtHand
  <2>1. records[Latest].from <= n /\ n <= records[Latest].to
      BY <1>0 DEF FilesInv, FilesHoldRows, Size
  <2> QED
      BY <2>1, <1>0, <1>1 DEF In
<1> QED
    BY <1>2, <1>3, <1>4, <1>5 DEF FilesInv

\* A record is appended.
LEMMA AppendKeeps ==
    ASSUME records \in [Files -> [from : Nat, to : Int]], written \in Nat, FilesInv,
           records' = [records EXCEPT ![Latest].to = written + 1], written' = written + 1
    PROVE  FilesInv'
<1> USE LogAssumption
<1>0. /\ \A g \in Files : g # Latest => records'[g] = records[g]
      /\ records'[Latest].from = records[Latest].from /\ records'[Latest].to = written + 1
      /\ records[Latest].from \in Nat /\ Latest \in Files
      /\ records' \in [Files -> [from : Nat, to : Int]]
    BY DEF Files, Latest
<1>a. /\ 1 <= records[Latest].from /\ records[Latest].from <= written + 1
      /\ records[Latest].to = written
    BY <1>0 DEF FilesInv, FilesHoldRows
<1>1. \A n \in Nat, g \in Files : In(n, g) => In(n, g)'
    BY <1>0, <1>a DEF In
<1>b. In(written, Latest)'
  <2>1. records'[Latest].from <= written' /\ written' <= records'[Latest].to
      BY <1>0, <1>a
  <2> QED
      BY <2>1 DEF In
<1>c. records'[Latest] # NoFile
    BY <1>0 DEF NoFile, Row
<1>2. FilesHoldRows'
  <2> SUFFICES ASSUME NEW f \in Files, records'[f] # NoFile
               PROVE  /\ 1 <= records'[f].from /\ records'[f].from <= records'[f].to + 1
                      /\ records'[f].to <= written + 1
      BY <1>0, <1>c DEF FilesHoldRows
  <2>1. CASE f = Latest
      BY <2>1, <1>0, <1>a
  <2>2. CASE f # Latest
      BY <2>2, <1>0 DEF FilesInv, FilesHoldRows
  <2> QED
      BY <2>1, <2>2
<1>3. FilesAreInOrder'
  <2> SUFFICES ASSUME NEW h \in Files, NEW g \in Files, h < g, records'[h] # NoFile,
                      records'[g] # NoFile
               PROVE  records'[g].from <= records'[h].from
      BY DEF FilesAreInOrder
  <2>1. /\ records'[g].from = records[g].from /\ records'[h].from = records[h].from
        /\ records[h] # NoFile /\ records[g] # NoFile
      BY <1>0 DEF Files, Latest, FilesInv, FilesHoldRows
  <2> QED
      BY <2>1 DEF FilesInv, FilesAreInOrder
<1>4. NewerHoldTheRest'
  <2> SUFFICES ASSUME NEW h \in Files, NEW n \in Nat, records'[h] # NoFile,
                      records'[h].from <= n, n <= written + 1
               PROVE  \E g \in 0..h : In(n, g)'
      BY DEF NewerHoldTheRest
  <2>1. CASE n = written + 1
      BY <2>1, <1>b DEF Files, Latest
  <2>2. CASE n # written + 1
    <3>1. records[h] # NoFile /\ records[h].from <= n /\ n <= written
        BY <2>2, <1>0 DEF FilesInv, FilesHoldRows
    <3>2. PICK g \in 0..h : In(n, g)
        BY <3>1 DEF FilesInv, NewerHoldTheRest
    <3> QED
        BY <3>2, <1>1 DEF Files
  <2> QED
      BY <2>1, <2>2
<1>5. LatestAreAtHand'
  <2> SUFFICES ASSUME NEW n \in 1..written + 1, n > written + 1 - FileLimit
               PROVE  In(n, Latest)' \/ In(n, 1)'
      BY DEF LatestAreAtHand
  <2>1. CASE n = written + 1
      BY <2>1, <1>b
  <2>2. CASE n # written + 1
    <3>1. n \in 1..written /\ n > written - FileLimit
        BY <2>2
    <3>2. In(n, Latest) \/ In(n, 1)
        BY <3>1 DEF FilesInv, LatestAreAtHand
    <3> QED
        BY <3>2, <1>1 DEF Files, Latest
  <2> QED
      BY <2>1, <2>2
<1> QED
    BY <1>2, <1>3, <1>4, <1>5 DEF FilesInv

LEMMA WriterFields ==
    ASSUME NEW w \in Writers
    PROVE  /\ [w EXCEPT !.at = "copying", !.file = 2] \in Writers
           /\ [w EXCEPT !.queue = @ + 1] \in Writers
           /\ [w EXCEPT !.at = "locking"] \in Writers
<1> DEFINE a == [w EXCEPT !.queue = @ + 1]
           b == [w EXCEPT !.at = "copying", !.file = 2]
<1>1. a = [at |-> w.at, file |-> w.file, queue |-> w.queue + 1, dropped |-> w.dropped,
           timer |-> w.timer, closing |-> w.closing]
    BY DEF Writers
<1>2. b = [at |-> "copying", file |-> 2, queue |-> w.queue, dropped |-> w.dropped,
           timer |-> w.timer, closing |-> w.closing]
  <2> DEFINE c == [w EXCEPT !.at = "copying"]
  <2>1. c = [at |-> "copying", file |-> w.file, queue |-> w.queue, dropped |-> w.dropped,
             timer |-> w.timer, closing |-> w.closing]
      BY DEF Writers
  <2>2. b = [c EXCEPT !.file = 2]
      OBVIOUS
  <2> HIDE DEF c, b
  <2> QED
      BY <2>1, <2>2
<1>3. /\ w.at \in InFlush \cup {"idle", "locking", "dead"} /\ w.file \in 0..2
      /\ w.queue \in Nat /\ w.queue + 1 \in Nat /\ w.dropped \in Nat
      /\ w.timer \in BOOLEAN /\ w.closing \in BOOLEAN
    BY DEF Writers
<1>4. a \in Writers
  <2> HIDE DEF a
  <2> QED
      BY <1>1, <1>3 DEF Writers
<1>5. b \in Writers
  <2> HIDE DEF b
  <2> QED
      BY <1>2, <1>3 DEF Writers, InFlush
<1>6. [w EXCEPT !.at = "locking"] \in Writers
    BY DEF Writers
<1> QED
    BY <1>4, <1>5, <1>6

\* A writer moves on: alone, if the files change.
LEMMA WriterMoves ==
    ASSUME LogKeptInv, NEW l \in Loggers, NEW b \in Writers, logger' = [logger EXCEPT ![l] = b],
           FilesInv', records' \in [Files -> [from : Nat, to : Int]], written' \in Nat,
           emitted' \in Nat,
           UNCHANGED records \/ logLock = l,
           \/ logLock' = logLock
           \/ logLock = Unlocked /\ logLock' = l
           \/ logLock = l /\ logLock' = Unlocked,
           b.at \in InFlush => logLock' = l,
           CopyIsSafe(b, records'), WriterIsTended(b)
    PROVE  LogKeptInv'
<1>1. logger' \in [Loggers -> Writers] /\ logger'[l] = b
    BY DEF LogKeptInv, LogFileTypes
<1>2. \A k \in Loggers : k # l => logger'[k] = logger[k]
    BY DEF LogKeptInv, LogFileTypes
<1>3. Unlocked \notin Loggers
    BY LogAssumption DEF Unlocked
<1>4. LogFileTypes'
    BY <1>1 DEF LogKeptInv, LogFileTypes
<1>5. FlushesAlone'
    BY <1>1, <1>2, <1>3 DEF LogKeptInv, FlushesAlone
<1>6. CopiesAreSafe'
  <2> SUFFICES ASSUME NEW k \in Loggers, k # l PROVE CopyIsSafe(logger[k], records')
      BY <1>1, <1>2 DEF CopiesAreSafe
  <2>1. CASE UNCHANGED records
      BY <2>1 DEF LogKeptInv, CopiesAreSafe
  <2>2. CASE logLock = l
    <3>1. logger[k].at \notin InFlush
        BY <2>2 DEF LogKeptInv, FlushesAlone
    <3> QED
        BY <3>1 DEF InFlush, CopyIsSafe
  <2> QED
      BY <2>1, <2>2
<1>7. QueuedIsTended'
  <2> SUFFICES ASSUME NEW k \in Loggers PROVE WriterIsTended(logger'[k])
      BY DEF QueuedIsTended, WriterIsTended
  <2>1. CASE k = l
      BY <2>1, <1>1
  <2>2. CASE k # l
      BY <2>2, <1>2 DEF LogKeptInv, QueuedIsTended, WriterIsTended
  <2> QED
      BY <2>1, <2>2
<1> QED
    BY <1>4, <1>5, <1>6, <1>7 DEF LogKeptInv

LEMMA LogKeptInvHolds == LogSpec => []LogKeptInv
<1> USE LogAssumption
<1>1. LogInit => LogKeptInv
  <2> SUFFICES ASSUME LogInit PROVE LogKeptInv
      OBVIOUS
  <2>1. LogFileTypes /\ FlushesAlone /\ CopiesAreSafe /\ QueuedIsTended
      BY DEF LogInit, LogFileTypes, FlushesAlone, CopiesAreSafe, CopyIsSafe, QueuedIsTended, InFlush,
             Writers, Files, Latest, NoFile, Row
  <2>2. FilesInv
      BY DEF LogInit, FilesInv, FilesHoldRows, FilesAreInOrder, NewerHoldTheRest, LatestAreAtHand,
             Files, Latest, NoFile, Row
  <2> QED
      BY <2>1, <2>2 DEF LogKeptInv
<1>2. LogKeptInv /\ [LogNext]_logFileVars => LogKeptInv'
  <2> SUFFICES ASSUME LogKeptInv, [LogNext]_logFileVars PROVE LogKeptInv'
      OBVIOUS
  <2>0. FilesInv /\ UNCHANGED <<records, written>> => FilesInv'
      BY DEF FilesInv, FilesHoldRows, FilesAreInOrder, NewerHoldTheRest, LatestAreAtHand, In
  <2>t. /\ records \in [Files -> [from : Nat, to : Int]] /\ written \in Nat /\ emitted \in Nat
        /\ \A l \in Loggers : logger[l] \in Writers /\ CopyIsSafe(logger[l], records)
        /\ \A l \in Loggers : logger[l].at \in InFlush => logLock = l
        /\ \A l \in Loggers : WriterIsTended(logger[l])
        /\ FilesInv
      BY DEF LogKeptInv, LogFileTypes, CopiesAreSafe, FlushesAlone, QueuedIsTended, WriterIsTended
  <2>a. ASSUME NEW l \in Loggers, Emits(l) PROVE LogKeptInv'
    <3> DEFINE b == IF logger[l].queue >= QueueLimit
                       THEN [logger[l] EXCEPT !.dropped = @ + 1]
                       ELSE Flushes([logger[l] EXCEPT !.queue = @ + 1])
    <3>1. logger' = [logger EXCEPT ![l] = b] /\ UNCHANGED <<records, written>> /\ emitted' \in Nat
        BY <2>a, <2>t DEF Emits, WriterGoes, Flushes
    <3>2. b \in Writers /\ (b.at \in InFlush => logLock' = l)
      <4>1. /\ [logger[l] EXCEPT !.dropped = @ + 1] \in Writers
            /\ [logger[l] EXCEPT !.dropped = @ + 1].at = "idle"
          BY <2>a, <2>t DEF Emits, Writers, InFlush
      <4>2. /\ Flushes([logger[l] EXCEPT !.queue = @ + 1]) \in Writers
            /\ Flushes([logger[l] EXCEPT !.queue = @ + 1]).at = "locking"
        <5> DEFINE c == [logger[l] EXCEPT !.queue = @ + 1]
        <5>1. c \in Writers
            BY ZenonT(40), <2>t, WriterFields
        <5> HIDE DEF c
        <5>2. Flushes(c) \in Writers /\ Flushes(c).at = "locking"
            BY ZenonT(40), <5>1, WriterFields DEF Flushes, Writers
        <5> QED
            BY <5>2 DEF c
      <4> QED
          BY <4>1, <4>2 DEF InFlush
    <3>3. CopyIsSafe(b, records) /\ WriterIsTended(b)
        BY <2>a, <2>t DEF Emits, WriterGoes, Flushes, Writers, CopyIsSafe, WriterIsTended
    <3>4. \/ logLock' = logLock
          \/ logLock = Unlocked /\ logLock' = l
          \/ logLock = l /\ logLock' = Unlocked
        BY <2>a DEF Emits, WriterGoes, Flushes
    <3> HIDE DEF b
    <3> QED
        BY <2>0, <2>t, <3>1, <3>2, <3>3, <3>4, WriterMoves
  <2>b. ASSUME NEW l \in Loggers, Retries(l) PROVE LogKeptInv'
    <3> DEFINE b == Flushes([logger[l] EXCEPT !.timer = FALSE])
    <3>1. logger' = [logger EXCEPT ![l] = b] /\ UNCHANGED <<records, written>> /\ emitted' \in Nat
        BY <2>b, <2>t DEF Retries, WriterGoes, Flushes
    <3>2. b \in Writers /\ (b.at \in InFlush => logLock' = l)
        BY <2>b, <2>t DEF Retries, WriterGoes, Flushes, Writers, InFlush
    <3>3. CopyIsSafe(b, records) /\ WriterIsTended(b)
        BY <2>b, <2>t DEF Retries, WriterGoes, Flushes, Writers, CopyIsSafe, WriterIsTended
    <3>4. \/ logLock' = logLock
          \/ logLock = Unlocked /\ logLock' = l
          \/ logLock = l /\ logLock' = Unlocked
        BY <2>b DEF Retries, WriterGoes, Flushes
    <3> HIDE DEF b
    <3> QED
        BY <2>0, <2>t, <3>1, <3>2, <3>3, <3>4, WriterMoves
  <2>c. ASSUME NEW l \in Loggers, Closes(l) PROVE LogKeptInv'
    <3> DEFINE b == Flushes([logger[l] EXCEPT !.closing = TRUE])
    <3>1. logger' = [logger EXCEPT ![l] = b] /\ UNCHANGED <<records, written>> /\ emitted' \in Nat
        BY <2>c, <2>t DEF Closes, WriterGoes, Flushes
    <3>2. b \in Writers /\ (b.at \in InFlush => logLock' = l)
        BY <2>c, <2>t DEF Closes, WriterGoes, Flushes, Writers, InFlush
    <3>3. CopyIsSafe(b, records) /\ WriterIsTended(b)
        BY <2>c, <2>t DEF Closes, WriterGoes, Flushes, Writers, CopyIsSafe, WriterIsTended
    <3>4. \/ logLock' = logLock
          \/ logLock = Unlocked /\ logLock' = l
          \/ logLock = l /\ logLock' = Unlocked
        BY <2>c DEF Closes, WriterGoes, Flushes
    <3> HIDE DEF b
    <3> QED
        BY <2>0, <2>t, <3>1, <3>2, <3>3, <3>4, WriterMoves
  <2>d. ASSUME NEW l \in Loggers, LocksLog(l) PROVE LogKeptInv'
    <3> DEFINE b == [logger[l] EXCEPT !.at = "checking"]
    <3>1. logger' = [logger EXCEPT ![l] = b] /\ UNCHANGED <<records, written>> /\ emitted' \in Nat
        BY <2>d, <2>t DEF LocksLog, WriterGoes
    <3>2. b \in Writers /\ (b.at \in InFlush => logLock' = l)
        BY <2>d, <2>t DEF LocksLog, WriterGoes, Writers, InFlush
    <3>3. CopyIsSafe(b, records) /\ WriterIsTended(b)
        BY <2>d, <2>t DEF LocksLog, WriterGoes, Writers, CopyIsSafe, WriterIsTended
    <3>4. \/ logLock' = logLock
          \/ logLock = Unlocked /\ logLock' = l
          \/ logLock = l /\ logLock' = Unlocked
        BY <2>d DEF LocksLog, WriterGoes
    <3> HIDE DEF b
    <3> QED
        BY <2>0, <2>t, <3>1, <3>2, <3>3, <3>4, WriterMoves
  <2>e. ASSUME NEW l \in Loggers, Checks(l) PROVE LogKeptInv'
    <3> DEFINE b == IF Size(Latest) >= FileLimit
                       THEN [logger[l] EXCEPT !.at = "copying", !.file = 2]
                       ELSE [logger[l] EXCEPT !.at = "appending"]
    <3>1. logger' = [logger EXCEPT ![l] = b] /\ UNCHANGED <<records, written>> /\ emitted' \in Nat
        BY <2>e, <2>t DEF Checks, WriterGoes, Size
    <3>2. b \in Writers /\ (b.at \in InFlush => logLock' = l)
      <4>1. logLock' = l
          BY <2>e, <2>t DEF Checks, InFlush
      <4>2. [logger[l] EXCEPT !.at = "copying", !.file = 2] \in Writers
          BY ZenonT(40), <2>t, WriterFields
      <4>3. [logger[l] EXCEPT !.at = "appending"] \in Writers
          BY <2>t DEF Writers, InFlush
      <4> QED
          BY <4>1, <4>2, <4>3
    <3>3. CopyIsSafe(b, records) /\ WriterIsTended(b)
        BY <2>e, <2>t DEF Checks, WriterGoes, Size, Writers, CopyIsSafe, WriterIsTended
    <3>4. \/ logLock' = logLock
          \/ logLock = Unlocked /\ logLock' = l
          \/ logLock = l /\ logLock' = Unlocked
        BY <2>e DEF Checks, WriterGoes, Size
    <3> HIDE DEF b
    <3> QED
        BY <2>0, <2>t, <3>1, <3>2, <3>3, <3>4, WriterMoves
  <2>f. ASSUME NEW l \in Loggers, EndsFlush(l) PROVE LogKeptInv'
    <3> DEFINE b == IF logger[l].closing THEN [logger[l] EXCEPT !.at = "dead"]
                       ELSE [logger[l] EXCEPT !.at = "idle", !.timer = FALSE]
    <3>1. logger' = [logger EXCEPT ![l] = b] /\ UNCHANGED <<records, written>> /\ emitted' \in Nat
        BY <2>f, <2>t DEF EndsFlush, WriterGoes, Rests, Unlocks
    <3>2. b \in Writers /\ (b.at \in InFlush => logLock' = l)
        BY ZenonT(40), <2>f, <2>t DEF EndsFlush, WriterGoes, Rests, Unlocks, Writers, InFlush
    <3>3. CopyIsSafe(b, records) /\ WriterIsTended(b)
        BY <2>f, <2>t DEF EndsFlush, WriterGoes, Rests, Unlocks, Writers, CopyIsSafe, WriterIsTended
    <3>4. \/ logLock' = logLock
          \/ logLock = Unlocked /\ logLock' = l
          \/ logLock = l /\ logLock' = Unlocked
        BY <2>f DEF EndsFlush, WriterGoes, Rests, Unlocks
    <3> HIDE DEF b
    <3> QED
        BY <2>0, <2>t, <3>1, <3>2, <3>3, <3>4, WriterMoves
  <2>g. ASSUME NEW l \in Loggers, FailsFlush(l) PROVE LogKeptInv'
    <3> DEFINE b == IF logger[l].closing THEN [logger[l] EXCEPT !.at = "dead"]
                       ELSE [logger[l] EXCEPT !.at = "idle", !.timer = TRUE]
    <3>1. logger' = [logger EXCEPT ![l] = b] /\ UNCHANGED <<records, written>> /\ emitted' \in Nat
        BY <2>g, <2>t DEF FailsFlush, WriterGoes, Rests, Unlocks
    <3>2. b \in Writers /\ (b.at \in InFlush => logLock' = l)
        BY <2>g, <2>t DEF FailsFlush, WriterGoes, Rests, Unlocks, Writers, InFlush
    <3>3. CopyIsSafe(b, records) /\ WriterIsTended(b)
        BY <2>g, <2>t
           DEF FailsFlush, WriterGoes, Rests, Unlocks, Writers, CopyIsSafe, WriterIsTended
    <3>4. \/ logLock' = logLock
          \/ logLock = Unlocked /\ logLock' = l
          \/ logLock = l /\ logLock' = Unlocked
        BY <2>g DEF FailsFlush, WriterGoes, Rests, Unlocks
    <3> HIDE DEF b
    <3> QED
        BY <2>0, <2>t, <3>1, <3>2, <3>3, <3>4, WriterMoves
  <2>h. ASSUME NEW l \in Loggers, Dies(l) PROVE LogKeptInv'
    <3> DEFINE b == [logger[l] EXCEPT !.at = "dead"]
    <3>1. logger' = [logger EXCEPT ![l] = b] /\ UNCHANGED <<records, written>> /\ emitted' \in Nat
        BY <2>h, <2>t DEF Dies, WriterGoes, Unlocks
    <3>2. b \in Writers /\ (b.at \in InFlush => logLock' = l)
        BY <2>h, <2>t DEF Dies, WriterGoes, Unlocks, Writers, InFlush
    <3>3. CopyIsSafe(b, records) /\ WriterIsTended(b)
        BY <2>h, <2>t DEF Dies, WriterGoes, Unlocks, Writers, CopyIsSafe, WriterIsTended
    <3>4. \/ logLock' = logLock
          \/ logLock = Unlocked /\ logLock' = l
          \/ logLock = l /\ logLock' = Unlocked
        BY <2>h DEF Dies, WriterGoes, Unlocks
    <3> HIDE DEF b
    <3> QED
        BY <2>0, <2>t, <3>1, <3>2, <3>3, <3>4, WriterMoves
  <2>i. ASSUME NEW l \in Loggers, Copies(l) PROVE LogKeptInv'
    <3> DEFINE f == logger[l].file
               b == Copied(l)
    <3>1. /\ f \in 0..2 /\ Size(Latest) >= FileLimit /\ logLock = l
          /\ f < 2 => records[f + 1] = NoFile \/ records[f + 2] = records[f + 1]
          /\ written' = written /\ logger' = [logger EXCEPT ![l] = b]
          /\ logLock' = logLock /\ emitted' = emitted
        BY <2>i, <2>t DEF Copies, CopyIsSafe, Writers, InFlush, Size, WriterGoes
    <3>2. b \in Writers
        BY <2>i, <2>t, <3>1 DEF Copied, Writers, InFlush, Latest
    <3>3. /\ records' \in [Files -> [from : Nat, to : Int]]
          /\ records'[Latest] = records[Latest]
          /\ records'[f] = NoFile \/ records'[f + 1] = records'[f]
          /\ FilesInv'
      <4>1. CASE records[f] = NoFile
        BY <4>1, <2>i, <2>0, <2>t, <3>1 DEF Copies
      <4>2. CASE records[f] # NoFile
        <5>1. records' = [records EXCEPT ![f + 1] = records[f]]
            BY <4>2, <2>i DEF Copies, NextOlder
        <5>2. records[f] \in [from : Nat, to : Int] /\ records[f].from <= records[f].to + 1
            BY <2>t, <3>1, <4>2 DEF FilesInv, FilesHoldRows, Files
        <5>3. FilesInv'
          <6>1. /\ records[f].from \in Nat /\ records[f].to \in Int
                /\ records[f].to <= records[f].to
              BY <5>2
          <6> HIDE DEF f
          <6> QED
              BY <2>t, <3>1, <4>2, <5>1, <5>2, <6>1, CopyKeeps
        <5> QED
            BY <2>t, <3>1, <5>1, <5>2, <5>3 DEF Files, Latest
      <4> QED
          BY <4>1, <4>2
    <3>4. CopyIsSafe(b, records') /\ WriterIsTended(b)
      <4>1. CASE f = Latest
        <5>1. /\ b = [logger[l] EXCEPT !.at = "truncating"]
              /\ b.at = "truncating"
            BY <4>1, <2>t DEF Copied, Writers
        <5>2. records'[1] = records'[Latest]
            BY <4>1, <2>t, <3>3 DEF Latest, FilesInv, FilesHoldRows
        <5> QED
            BY <5>1, <5>2, <2>t, <3>1, <3>3 DEF CopyIsSafe, WriterIsTended, Size
      <4>2. CASE f # Latest
        <5>1. /\ b = [logger[l] EXCEPT !.file = @ - 1] /\ logger[l].at = "copying"
              /\ b.file = f - 1 /\ b.at = "copying" /\ f \in 1..2
            BY <4>2, <2>i, <2>t, <3>1 DEF Copied, Copies, Writers, Latest
        <5>2. b.file + 1 = f /\ b.file + 2 = f + 1
            BY <5>1
        <5> QED
            BY <5>1, <5>2, <2>t, <3>1, <3>3 DEF CopyIsSafe, WriterIsTended, Size
      <4> QED
          BY <4>1, <4>2
    <3> HIDE DEF b
    <3> QED
        BY <2>t, <3>1, <3>2, <3>3, <3>4, WriterMoves
  <2>j. ASSUME NEW l \in Loggers, NEW upTo \in 0..written, CopiesInPart(l, upTo)
        PROVE  LogKeptInv'
    <3> DEFINE f == logger[l].file
               b == [logger[l] EXCEPT !.at = "failing"]
    <3>1. /\ f \in 0..2 /\ Size(Latest) >= FileLimit /\ records[f] # NoFile /\ logLock = l
          /\ f < 2 => records[f + 1] = NoFile \/ records[f + 2] = records[f + 1]
          /\ written' = written /\ logger' = [logger EXCEPT ![l] = b]
          /\ logLock' = logLock /\ emitted' = emitted
          /\ records[f].from - 1 <= upTo /\ upTo < records[f].to
        BY <2>j, <2>t DEF CopiesInPart, CopyIsSafe, Writers, InFlush, Size, WriterGoes
    <3>2. b \in Writers /\ CopyIsSafe(b, records') /\ WriterIsTended(b)
        BY <2>j, <2>t DEF Writers, InFlush, CopyIsSafe, WriterIsTended
    <3>3. PICK left \in {NoFile, Row(records[f].from, upTo)} :
              records' = [records EXCEPT ![f + 1] = left]
        BY <2>j DEF CopiesInPart, NextOlder
    <3>4. /\ records[f].from \in Nat /\ records[f].to \in Int /\ upTo \in Nat
          /\ upTo <= records[f].to
        BY <2>t, <3>1 DEF Files
    <3>5. left \in [from : Nat, to : Int]
        BY <2>t, <3>1, <3>4 DEF NoFile, Row
    <3>6. \/ left = NoFile
          \/ /\ left.from = records[f].from /\ left.from <= left.to + 1
             /\ left.to <= records[f].to
        BY <3>1, <3>4 DEF Row
    <3>7. FilesInv'
      <4> HIDE DEF f
      <4> QED
          BY <2>t, <3>1, <3>3, <3>5, <3>6, CopyKeeps
    <3>8. records' \in [Files -> [from : Nat, to : Int]]
        BY <2>t, <3>3, <3>5
    <3> HIDE DEF b
    <3> QED
        BY <2>t, <3>1, <3>2, <3>7, <3>8, WriterMoves
  <2>k. ASSUME NEW l \in Loggers, Truncates(l) PROVE LogKeptInv'
    <3> DEFINE b == [logger[l] EXCEPT !.at = "appending"]
    <3>1. /\ Size(Latest) >= FileLimit /\ records[1] = records[Latest] /\ logLock = l
          /\ written' = written /\ logger' = [logger EXCEPT ![l] = b]
          /\ logLock' = logLock /\ emitted' = emitted
          /\ records' = [records EXCEPT ![Latest] = Row(written + 1, written)]
        BY <2>k, <2>t DEF Truncates, CopyIsSafe, InFlush, Size, WriterGoes
    <3>2. b \in Writers /\ CopyIsSafe(b, records') /\ WriterIsTended(b)
        BY <2>k, <2>t DEF Writers, InFlush, CopyIsSafe, WriterIsTended
    <3>3. FilesInv' /\ records' \in [Files -> [from : Nat, to : Int]]
      <4>1. FilesInv'
          BY <2>t, <3>1, TruncationKeeps
      <4>2. Row(written + 1, written) \in [from : Nat, to : Int]
          BY <2>t DEF Row
      <4> QED
          BY <2>t, <3>1, <4>1, <4>2 DEF Files, Latest
    <3> HIDE DEF b
    <3> QED
        BY <2>t, <3>1, <3>2, <3>3, WriterMoves
  <2>l. ASSUME NEW l \in Loggers, Appends(l) PROVE LogKeptInv'
    <3> DEFINE c == IF logger[l].dropped > 0 THEN [logger[l] EXCEPT !.dropped = 0]
                    ELSE [logger[l] EXCEPT !.queue = @ - 1]
               b == IF c.queue > 0 THEN [c EXCEPT !.at = "checking"] ELSE c
    <3>1. /\ logLock = l /\ written' = written + 1 /\ logger' = [logger EXCEPT ![l] = b]
          /\ logLock' = logLock /\ emitted' = emitted
          /\ records' = [records EXCEPT ![Latest].to = written + 1]
          /\ logger[l].at = "appending"
        BY <2>l, <2>t DEF Appends, InFlush, WriterGoes
    <3>2. b \in Writers /\ CopyIsSafe(b, records') /\ WriterIsTended(b)
      <4>1. /\ logger[l].dropped > 0 => c = [logger[l] EXCEPT !.dropped = 0]
            /\ ~(logger[l].dropped > 0) =>
                  c = [logger[l] EXCEPT !.queue = @ - 1] /\ logger[l].queue - 1 \in Nat
          BY <2>l, <2>t DEF Appends, Writers
      <4>2. c \in Writers /\ c.at = "appending"
          BY <4>1, <3>1, <2>t DEF Writers, InFlush
      <4> HIDE DEF c
      <4>3. b \in Writers /\ b.at \in {"checking", "appending"}
          BY <4>2 DEF Writers, InFlush
      <4> QED
          BY <4>3 DEF CopyIsSafe, WriterIsTended
    <3>3. FilesInv'
        BY <2>t, <3>1, AppendKeeps
    <3>4. records' \in [Files -> [from : Nat, to : Int]] /\ written' \in Nat
        BY <2>t, <3>1 DEF Files, Latest
    <3> HIDE DEF b
    <3> QED
        BY <2>t, <3>1, <3>2, <3>3, <3>4, WriterMoves
  <2>m. CASE UNCHANGED logFileVars
      BY <2>m, <2>0, <2>t
         DEF logFileVars, LogKeptInv, LogFileTypes, FlushesAlone, CopiesAreSafe, QueuedIsTended
  <2> QED
      BY <2>a, <2>b, <2>c, <2>d, <2>e, <2>f, <2>g, <2>h, <2>i, <2>j, <2>k, <2>l, <2>m DEF LogNext
<1> QED
    BY <1>1, <1>2, PTL DEF LogSpec

\* For any number of writers, of records, and any limit of a file: the log and its older files hold
\* the latest records without a gap, and what waits will be tried again, wherever a rotation or an
\* append failed and whoever died in the midst of it.
THEOREM LogStaysKept == LogSpec => []LogIsKept
<1>1. LogKeptInv => LogIsKept
  <2> SUFFICES ASSUME LogKeptInv PROVE KeptWithoutAGap
      BY DEF LogIsKept, LogKeptInv, FilesInv
  <2> SUFFICES ASSUME NEW n \in 1..written, NEW m \in 1..written, n < m, IsKept(n) PROVE IsKept(m)
      BY DEF KeptWithoutAGap
  <2>1. PICK f \in Files : In(n, f)
      BY DEF IsKept
  <2>2. written \in Nat /\ n \in Nat /\ m \in Nat /\ m <= written
      BY DEF LogKeptInv, LogFileTypes
  <2>3. records[f] # NoFile /\ records[f].from <= m
      BY <2>1, <2>2 DEF In, NoFile, Row, LogKeptInv, LogFileTypes
  <2>4. PICK g \in 0..f : In(m, g)
      BY <2>2, <2>3 DEF LogKeptInv, FilesInv, NewerHoldTheRest
  <2> QED
      BY <2>4 DEF IsKept, Files
<1> QED
    BY <1>1, LogKeptInvHolds, PTL
=============================================================================
