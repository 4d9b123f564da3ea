-------------------------- MODULE TurnStateProofs ---------------------------
(***************************************************************************)
(* What the functions of TurnState keep of a table of requests, for any    *)
(* number of requests, instances and targets and whatever the limits, and  *)
(* what the targets of file requests stand for. Turns, where transactions  *)
(* are serial, and Snapshots, where they are not, rest on the same lemmas. *)
(***************************************************************************)
EXTENDS TurnState, FileTargets, WellFoundedInduction, TLAPS

USE DEF ReservedStates, ActiveStates, FinalStates, TaskStates, Deadlines, NoDeadline

(***************************************************************************)
(* What one row keeps.  Nothing a row goes through other than promotion    *)
(* and a claim makes it newly reserved or newly claimed, or changes what   *)
(* it asked for.                                                           *)
(***************************************************************************)
Unclaimed(q) == q.state \in {"QUEUED", "READY", "OFFERED"}

CalmRow(new, old) ==
  /\ new \in Row
  /\ new.target = old.target /\ new.seq = old.seq
  /\ new.fence = old.fence /\ new.base = old.base
  /\ Reserved(new) => Reserved(old)
  /\ Unclaimed(new) => Unclaimed(old)
  /\ new.state = "QUEUED" => old.state \in {"QUEUED", "READY"}
  /\ new.state = "CLAIMED" => old.state = "CLAIMED"

\* finishRequest keeps the row's request and ends its reservation.
LEMMA FinishCalm ==
  ASSUME NEW q \in Row, NEW final \in FinalStates
  PROVE  CalmRow(Finish(q, final), q)
<1> DEFINE taskLeft == IF q.task = "working" THEN RetentionMs ELSE q.taskLeft
           task == IF q.task # "working" \/ final = "COMMITTED" THEN q.task
                   ELSE IF final = "FAILED" THEN "failed" ELSE "cancelled"
<1>1. taskLeft \in Nat /\ task \in TaskStates /\ RetentionMs \in Nat
  BY LimitsAssumption DEF Row
<1>2. Finish(q, final) = [q EXCEPT !.state = final, !.left = RetentionMs,
                                   !.reconnect = NoDeadline, !.taskLeft = taskLeft,
                                   !.task = task]
  BY DEF Finish
<1> HIDE DEF taskLeft, task
<1> QED
  BY <1>1, <1>2 DEF CalmRow, Row, Reserved, Unclaimed

LEMMA MaterializeCalm ==
  ASSUME NEW q \in Row
  PROVE  CalmRow(Materialize(q), q)
  BY LimitsAssumption DEF Materialize, CalmRow, Row, Reserved, Unclaimed

LEMMA SelfCalm ==
  ASSUME NEW q \in Row
  PROVE  CalmRow(q, q)
  BY DEF CalmRow

LEMMA LeastType ==
  ASSUME NEW m \in Nat, NEW n \in Nat
  PROVE  Least(m, n) \in Nat
  BY DEF Least

LEMMA DetachCalm ==
  ASSUME NEW q \in Row, NEW clean \in BOOLEAN, NEW c \in BOOLEAN
  PROVE  CalmRow(Detach(q, clean, c), q)
<1>1. Least(q.left, ReconnectMs) \in Nat
  BY LeastType, LimitsAssumption DEF Row
<1>2. q.state \in {"QUEUED", "READY"} =>
        CalmRow([q EXCEPT !.state = "QUEUED", !.reconnect = Least(q.left, ReconnectMs)], q)
  BY <1>1 DEF CalmRow, Row, Reserved, Unclaimed
<1> DEFINE queued == [q EXCEPT !.state = "QUEUED", !.reconnect = Least(q.left, ReconnectMs)]
<1>3. \/ Detach(q, clean, c) = q
      \/ q.state \in {"QUEUED", "READY"} /\ Detach(q, clean, c) = queued
      \/ \E final \in FinalStates : Detach(q, clean, c) = Finish(q, final)
  BY Zenon DEF Detach
<1> HIDE DEF queued
<1> QED
  BY <1>2, <1>3, FinishCalm, SelfCalm DEF queued

LEMMA RecoverCalm ==
  ASSUME NEW q \in Row
  PROVE  CalmRow(Recover(q), q)
<1>1. Least(q.left, ReconnectMs) \in Nat
  BY LeastType, LimitsAssumption DEF Row
<1>2. q.state \in {"QUEUED", "READY"} =>
        CalmRow([q EXCEPT !.state = "QUEUED", !.reconnect = Least(q.left, ReconnectMs)], q)
  BY <1>1 DEF CalmRow, Row, Reserved, Unclaimed
<1> DEFINE queued == [q EXCEPT !.state = "QUEUED", !.reconnect = Least(q.left, ReconnectMs)]
<1>3. \/ Recover(q) = q
      \/ q.state \in {"QUEUED", "READY"} /\ Recover(q) = queued
      \/ \E final \in FinalStates : Recover(q) = Finish(q, final)
  BY Zenon DEF Recover
<1> HIDE DEF queued
<1> QED
  BY <1>2, <1>3, FinishCalm, SelfCalm DEF queued

LEMMA AgeCalm ==
  ASSUME NEW q \in Row
  PROVE  CalmRow(Age(q), q)
<1>1. /\ Sooner(q.left) \in Nat /\ Sooner(q.taskLeft) \in Nat
      /\ Sooner(q.reconnect) \in Deadlines
  BY DEF Sooner, Row
<1> QED
  BY ZenonT(40), <1>1 DEF Age, CalmRow, Row, Reserved, Unclaimed

LEMMA DropTaskCalm ==
  ASSUME NEW p, NEW q, CalmRow(q, p)
  PROVE  CalmRow(DropTask(q), p)
  BY DEF DropTask, CalmRow, Row, Reserved, Unclaimed

(***************************************************************************)
(* What every table has to keep.  Its rows are rows; nothing that overlaps *)
(* is reserved twice; requests that overlap have different sequence        *)
(* numbers, none above the counter they are drawn from; and nothing        *)
(* reserved was queued behind what still waits.  Alone is not inductive:   *)
(* two requests with the same number would be promoted together.  Nor is   *)
(* the order of the queue: a ready turn is put back into it when its       *)
(* instance is lost, in front of everybody only because nothing that       *)
(* overlaps it was reserved.                                               *)
(***************************************************************************)
Alone(rq) ==
  \A r, s \in DOMAIN rq :
    r # s /\ Reserved(rq[r]) /\ Reserved(rq[s]) => ~Overlap(rq[r], rq[s])

Numbered(rq, qs, fs) ==
  /\ \A r, s \in DOMAIN rq : r # s /\ Overlap(rq[r], rq[s]) => rq[r].seq # rq[s].seq
  /\ \A r \in DOMAIN rq : rq[r].seq <= IF IsFiles(rq[r]) THEN fs ELSE qs[rq[r].target]

Ordered(rq) ==
  \A r, s \in DOMAIN rq :
    Reserved(rq[r]) /\ rq[s].state = "QUEUED" /\ Overlap(rq[r], rq[s]) => rq[r].seq < rq[s].seq

Arranged(rq, qs, fs) ==
  /\ IsTable(rq)
  /\ Alone(rq)
  /\ Numbered(rq, qs, fs)
  /\ Ordered(rq)

\* The row asks for the same as before, and is neither newly reserved nor active again.
QuietRow(new, old) ==
  /\ new \in Row
  /\ new.target = old.target /\ new.seq = old.seq
  /\ Reserved(new) => Reserved(old)
  /\ new.state = "QUEUED" => old.state \in {"QUEUED", "READY"}

Quiet(new, old) ==
  /\ DOMAIN new \subseteq DOMAIN old
  /\ new = [r \in DOMAIN new |-> new[r]]
  /\ \A r \in DOMAIN new : QuietRow(new[r], old[r])

\* Every row of new continues one of old without being newly reserved or claimed.
Calm(new, old) ==
  /\ DOMAIN new \subseteq DOMAIN old
  /\ new = [r \in DOMAIN new |-> new[r]]
  /\ \A r \in DOMAIN new : CalmRow(new[r], old[r])

LEMMA CalmIsQuiet ==
  ASSUME NEW old, NEW new, Calm(new, old)
  PROVE  Quiet(new, old)
  BY DEF Calm, CalmRow, Quiet, QuietRow

\* Whatever is quiet keeps a table arranged: ends, claims, disconnects, sweeps and restarts.
LEMMA QuietArranged ==
  ASSUME NEW old, NEW new, NEW qs, NEW fs, Arranged(old, qs, fs), Quiet(new, old)
  PROVE  Arranged(new, qs, fs)
<1>1. IsTable(new)
  BY DEF Arranged, IsTable, Quiet, QuietRow
<1>2. Alone(new)
  BY DEF Arranged, Alone, Quiet, QuietRow, Overlap
<1>3. Numbered(new, qs, fs)
  BY DEF Arranged, Numbered, Quiet, QuietRow, Overlap, IsFiles
<1>4. Ordered(new)
  <2> SUFFICES ASSUME NEW r \in DOMAIN new, NEW s \in DOMAIN new,
                      Reserved(new[r]), new[s].state = "QUEUED", Overlap(new[r], new[s])
               PROVE  new[r].seq < new[s].seq
    BY DEF Ordered
  <2>1. QuietRow(new[r], old[r]) /\ QuietRow(new[s], old[s])
    BY DEF Quiet
  <2>2. /\ r \in DOMAIN old /\ s \in DOMAIN old /\ r # s
        /\ Reserved(old[r]) /\ Overlap(old[r], old[s])
        /\ old[s].state \in {"QUEUED", "READY"}
    BY <2>1 DEF Quiet, QuietRow, Overlap, Reserved
  <2>3. old[s].state = "QUEUED"
    BY <2>2 DEF Arranged, Alone, Reserved
  <2> QED
    BY <2>1, <2>2, <2>3 DEF Arranged, Ordered, QuietRow
<1> QED
  BY <1>1, <1>2, <1>3, <1>4 DEF Arranged

LEMMA MakeAvailableKeeps ==
  ASSUME NEW q \in Row, q.state = "QUEUED"
  PROVE  /\ MakeAvailable(q) \in Row
         /\ MakeAvailable(q).target = q.target /\ MakeAvailable(q).seq = q.seq
         /\ MakeAvailable(q).fence = q.fence
         /\ MakeAvailable(q).state \in {"READY", "OFFERED"}
  BY LimitsAssumption DEF MakeAvailable, Row


LEMMA PromoteKeeps ==
  ASSUME NEW rq, IsTable(rq), NEW targets, NEW live
  PROVE  LET new == PromoteAmong(targets, rq, live)
             moved == {r \in DOMAIN rq : rq[r].target \in targets /\ Promotable(rq, live, r)} IN
         /\ DOMAIN new = DOMAIN rq
         /\ new = [r \in DOMAIN rq |-> IF r \in moved THEN MakeAvailable(rq[r]) ELSE rq[r]]
         /\ \A r \in DOMAIN rq :
              /\ rq[r] \in Row /\ new[r] \in Row
              /\ new[r].target = rq[r].target /\ new[r].seq = rq[r].seq
              /\ new[r].fence = rq[r].fence
              /\ r \notin moved => new[r] = rq[r]
              /\ r \in moved => new[r].state \in {"READY", "OFFERED"} /\ rq[r].state = "QUEUED"
<1> DEFINE new == PromoteAmong(targets, rq, live)
           moved == {r \in DOMAIN rq : rq[r].target \in targets /\ Promotable(rq, live, r)}
<1>1. /\ DOMAIN new = DOMAIN rq
      /\ new = [r \in DOMAIN rq |-> IF r \in moved THEN MakeAvailable(rq[r]) ELSE rq[r]]
  BY DEF PromoteAmong
<1>2. \A r \in DOMAIN rq : rq[r] \in Row /\ (r \in moved => rq[r].state = "QUEUED")
  BY DEF IsTable, Promotable
<1> HIDE DEF moved
<1>3. \A r \in DOMAIN rq : new[r] = IF r \in moved THEN MakeAvailable(rq[r]) ELSE rq[r]
  BY <1>1
<1> HIDE DEF new
<1>4. \A r \in DOMAIN rq :
        /\ rq[r] \in Row /\ new[r] \in Row
        /\ new[r].target = rq[r].target /\ new[r].seq = rq[r].seq
        /\ new[r].fence = rq[r].fence
        /\ r \notin moved => new[r] = rq[r]
        /\ r \in moved => new[r].state \in {"READY", "OFFERED"} /\ rq[r].state = "QUEUED"
  BY <1>2, <1>3, MakeAvailableKeeps
<1> QED
  BY <1>1, <1>4, Zenon DEF new, moved

\* Two requests that overlap are never promoted together, nor beside a reserved one.
LEMMA PromoteArranged ==
  ASSUME NEW rq, NEW qs, NEW fs, NEW targets, NEW live, Arranged(rq, qs, fs)
  PROVE  Arranged(PromoteAmong(targets, rq, live), qs, fs)
<1> DEFINE new == PromoteAmong(targets, rq, live)
           moved == {r \in DOMAIN rq : rq[r].target \in targets /\ Promotable(rq, live, r)}
<1>1. /\ DOMAIN new = DOMAIN rq
      /\ new = [r \in DOMAIN rq |-> new[r]]
  BY DEF PromoteAmong
<1>2. \A r \in DOMAIN rq :
        /\ rq[r] \in Row /\ new[r] \in Row
        /\ new[r].target = rq[r].target /\ new[r].seq = rq[r].seq
        /\ r \notin moved => new[r] = rq[r]
        /\ r \in moved => new[r].state \in {"READY", "OFFERED"} /\ rq[r].state = "QUEUED"
  BY PromoteKeeps DEF Arranged
<1> HIDE DEF new
<1>3. IsTable(new)
  BY <1>1, <1>2 DEF Arranged, IsTable
<1>4. Alone(new)
  <2> SUFFICES ASSUME NEW r \in DOMAIN rq, NEW s \in DOMAIN rq, r # s,
                      Reserved(new[r]), Reserved(new[s]), Overlap(rq[r], rq[s])
               PROVE  FALSE
    BY <1>1, <1>2 DEF Alone, Overlap
  <2>1. Overlap(rq[s], rq[r])
    BY DEF Overlap
  <2>2. CASE r \in moved /\ s \in moved
    BY <2>1, <2>2, <1>2 DEF Promotable, Arranged, Numbered, Row
  <2>3. CASE r \in moved /\ s \notin moved
    BY <2>1, <2>3, <1>2 DEF Promotable
  <2>4. CASE r \notin moved /\ s \in moved
    BY <2>4, <1>2 DEF Promotable
  <2>5. CASE r \notin moved /\ s \notin moved
    BY <2>5, <1>2 DEF Arranged, Alone
  <2> QED
    BY <2>2, <2>3, <2>4, <2>5
<1>5. Numbered(new, qs, fs)
  BY <1>1, <1>2 DEF Arranged, Numbered, Overlap, IsFiles
<1>6. Ordered(new)
  <2> SUFFICES ASSUME NEW r \in DOMAIN rq, NEW s \in DOMAIN rq,
                      Reserved(new[r]), new[s].state = "QUEUED", Overlap(rq[r], rq[s])
               PROVE  rq[r].seq < rq[s].seq
    BY <1>1, <1>2 DEF Ordered, Overlap
  <2>1. s \notin moved /\ rq[s].state = "QUEUED" /\ r # s /\ Overlap(rq[s], rq[r])
    BY <1>2 DEF Overlap, Reserved
  <2>2. rq[r].seq # rq[s].seq /\ rq[r].seq \in Nat /\ rq[s].seq \in Nat
    BY <1>2, <2>1 DEF Arranged, Numbered, Row
  <2>3. CASE r \in moved
    BY <2>1, <2>2, <2>3 DEF Promotable
  <2>4. CASE r \notin moved
    BY <1>2, <2>1, <2>4 DEF Arranged, Ordered
  <2> QED
    BY <2>3, <2>4
<1> QED
  BY <1>3, <1>4, <1>5, <1>6 DEF new, Arranged

\* A content request overlaps only requests of the same target.
LEMMA ContentOverlap ==
  ASSUME NEW t \in ContentTargets, NEW u \in Targets, t \cap u # {}
  PROVE  t = u
  BY TargetsAssumption DEF Targets


\* A request that takes the next number of its target goes to the end of its queue.
LEMMA InsertArranged ==
  ASSUME NEW rq, NEW qs, NEW fs, Arranged(rq, qs, fs), qs \in [ContentTargets -> Nat], fs \in Nat,
         NEW r \in Requests, r \notin DOMAIN rq, NEW row \in Row, row.state = "QUEUED",
         NEW qs2, NEW fs2,
         row.target \in FileTargets => qs2 = qs /\ row.seq = fs + 1 /\ fs2 = row.seq,
         row.target \in ContentTargets => /\ fs2 = fs /\ row.seq = qs[row.target] + 1
                                          /\ qs2 = [qs EXCEPT ![row.target] = row.seq],
         NEW new, new = [q \in DOMAIN rq \cup {r} |-> IF q = r THEN row ELSE rq[q]]
  PROVE  /\ Arranged(new, qs2, fs2)
         /\ \A s \in DOMAIN rq : Overlap(rq[s], row) => rq[s].seq < row.seq
<1> DEFINE t == row.target  n == row.seq
<1>1. t \in Targets /\ n \in Nat
  BY DEF Row
<1>2. /\ DOMAIN new = DOMAIN rq \cup {r}
      /\ new[r] = row
      /\ \A s \in DOMAIN rq : new[s] = rq[s] /\ rq[s] \in Row /\ s \in Requests
      /\ new = [s \in DOMAIN new |-> new[s]]
  BY DEF Arranged, IsTable
<1>3. \A s \in DOMAIN rq : Overlap(rq[s], row) => rq[s].seq < n
  <2> SUFFICES ASSUME NEW s \in DOMAIN rq, rq[s].target \cap t # {}
               PROVE  rq[s].seq < n
    BY DEF Overlap
  <2>1. rq[s] \in Row /\ rq[s].target \in Targets /\ rq[s].seq \in Nat
    BY <1>2 DEF Row
  <2>2. rq[s].seq <= IF IsFiles(rq[s]) THEN fs ELSE qs[rq[s].target]
    BY DEF Arranged, Numbered
  <2>3. CASE t \in ContentTargets
    <3>1. rq[s].target = t /\ ~IsFiles(rq[s])
      BY <2>1, <2>3, ContentOverlap, TargetsAssumption DEF IsFiles
    <3> QED
      BY <2>1, <2>2, <2>3, <3>1
  <2>4. CASE t \in FileTargets
    <3>1. rq[s].target \notin ContentTargets
      BY <2>1, <2>4, <1>1, ContentOverlap, TargetsAssumption
    <3> QED
      BY <2>1, <2>2, <2>4, <3>1 DEF IsFiles, Targets
  <2> QED
    BY <1>1, <2>3, <2>4 DEF Targets
<1>4. IsTable(new)
  BY <1>2 DEF Arranged, IsTable
<1>5. Alone(new)
  BY <1>2 DEF Arranged, Alone, Reserved
<1>6. \A p \in DOMAIN new, s \in DOMAIN new : p # s /\ Overlap(new[p], new[s]) => new[p].seq # new[s].seq
  <2> TAKE p \in DOMAIN new, s \in DOMAIN new
  <2> HAVE p # s /\ Overlap(new[p], new[s])
  <2>1. CASE p = r
    <3>1. s \in DOMAIN rq /\ new[s] = rq[s] /\ Overlap(rq[s], row) /\ rq[s].seq \in Nat
      BY <2>1, <1>2 DEF Overlap, Row
    <3> QED
      BY <2>1, <3>1, <1>1, <1>2, <1>3
  <2>2. CASE s = r
    <3>1. p \in DOMAIN rq /\ new[p] = rq[p] /\ Overlap(rq[p], row) /\ rq[p].seq \in Nat
      BY <2>2, <1>2 DEF Overlap, Row
    <3> QED
      BY <2>2, <3>1, <1>1, <1>2, <1>3
  <2>3. CASE p # r /\ s # r
    BY <2>3, <1>2 DEF Arranged, Numbered
  <2> QED
    BY <2>1, <2>2, <2>3
<1>7. \A s \in DOMAIN new : new[s].seq <= IF IsFiles(new[s]) THEN fs2 ELSE qs2[new[s].target]
  <2> SUFFICES ASSUME NEW s \in DOMAIN new
               PROVE  new[s].seq <= IF IsFiles(new[s]) THEN fs2 ELSE qs2[new[s].target]
    OBVIOUS
  <2>1. CASE s = r
    BY <2>1, <1>1, <1>2, TargetsAssumption DEF IsFiles, Targets
  <2>2. CASE s # r
    <3>1. /\ new[s] = rq[s] /\ rq[s] \in Row
          /\ rq[s].seq <= IF IsFiles(rq[s]) THEN fs ELSE qs[rq[s].target]
      BY <2>2, <1>2 DEF Arranged, Numbered
    <3>2. rq[s].seq \in Nat /\ rq[s].target \in Targets
      BY <3>1 DEF Row
    <3> QED
      BY <3>1, <3>2, <1>1, TargetsAssumption DEF IsFiles, Targets
  <2> QED
    BY <2>1, <2>2
<1>8. Ordered(new)
  <2> SUFFICES ASSUME NEW p \in DOMAIN new, NEW s \in DOMAIN new,
                      Reserved(new[p]), new[s].state = "QUEUED", Overlap(new[p], new[s])
               PROVE  new[p].seq < new[s].seq
    BY DEF Ordered
  <2>1. p # r /\ new[p] = rq[p] /\ p \in DOMAIN rq
    BY <1>2 DEF Reserved
  <2>2. CASE s = r
    BY <2>1, <2>2, <1>2, <1>3
  <2>3. CASE s # r
    BY <2>1, <2>3, <1>2 DEF Arranged, Ordered
  <2> QED
    BY <2>2, <2>3
<1> QED
  BY <1>3, <1>4, <1>5, <1>6, <1>7, <1>8 DEF Arranged, Numbered

----------------------------------------------------------------------------
(* The table operations that are calm. *)

LEMMA DetachAllCalm ==
  ASSUME NEW rq, IsTable(rq), NEW gone, NEW clean \in BOOLEAN, NEW marked
  PROVE  Calm(DetachAll(rq, gone, clean, marked), rq)
<1>1. \A r \in DOMAIN rq : rq[r] \in Row
  BY DEF IsTable
<1>2. \A r \in DOMAIN rq : CalmRow(Detach(rq[r], clean, r \in marked), rq[r])
  <2> TAKE r \in DOMAIN rq
  <2>1. (r \in marked) \in BOOLEAN
    OBVIOUS
  <2> QED
    BY <1>1, <2>1, DetachCalm
<1> QED
  BY <1>1, <1>2, SelfCalm DEF DetachAll, Calm

LEMMA SweepRowsCalm ==
  ASSUME NEW rq, IsTable(rq), NEW jump \in BOOLEAN, NEW marked
  PROVE  Calm(SweepRows(rq, jump, marked), rq)
<1>1. \A r \in DOMAIN rq : rq[r] \in Row
  BY DEF IsTable
<1>2. \A r \in DOMAIN rq : CalmRow(DropTask(Finish(rq[r], "EXPIRED")), rq[r])
  BY <1>1, FinishCalm, DropTaskCalm
<1>3. \A r \in DOMAIN rq : CalmRow(DropTask(rq[r]), rq[r])
  BY <1>1, SelfCalm, DropTaskCalm
<1> QED
  BY <1>2, <1>3 DEF SweepRows, Calm

LEMMA OneRowCalm ==
  ASSUME NEW rq, IsTable(rq), NEW r \in DOMAIN rq, NEW row, CalmRow(row, rq[r])
  PROVE  Calm([rq EXCEPT ![r] = row], rq)
<1>1. \A s \in DOMAIN rq : rq[s] \in Row
  BY DEF IsTable
<1> QED
  BY <1>1, SelfCalm DEF Calm, IsTable

-----------------------------------------------------------------------------
(* A promotion leaves nothing that could be promoted. *)

Settled(rq, live) == \A r \in DOMAIN rq : ~Promotable(rq, live, r)

LEMMA OverlapIsMutual ==
  ASSUME NEW p, NEW q, Overlap(p, q)
  PROVE  Overlap(q, p)
  BY DEF Overlap

\* What a promotion among targets leaves: of those, nothing that could be promoted, and the
\* others as they were.
LEMMA PromoteAmongSettles ==
  ASSUME NEW rq, IsTable(rq), NEW targets, NEW live,
         \A r \in DOMAIN rq : rq[r].target \notin targets => ~Promotable(rq, live, r)
  PROVE  Settled(PromoteAmong(targets, rq, live), live)
<1> DEFINE new == PromoteAmong(targets, rq, live)
           moved == {r \in DOMAIN rq : rq[r].target \in targets /\ Promotable(rq, live, r)}
<1>1. /\ DOMAIN new = DOMAIN rq
      /\ \A r \in DOMAIN rq : new[r] = IF r \in moved THEN MakeAvailable(rq[r]) ELSE rq[r]
  BY DEF PromoteAmong
<1>2. \A r \in DOMAIN rq : rq[r] \in Row
  BY DEF IsTable
<1>3. \A r \in moved : rq[r].state = "QUEUED"
  BY DEF Promotable
<1>4. \A r \in DOMAIN rq :
        /\ new[r].target = rq[r].target /\ new[r].seq = rq[r].seq
        /\ Reserved(rq[r]) => Reserved(new[r])
        /\ new[r].state = "QUEUED" => r \notin moved /\ new[r] = rq[r]
        /\ rq[r].state = "QUEUED" => Reserved(new[r]) \/ new[r] = rq[r]
  <2> TAKE r \in DOMAIN rq
  <2>1. CASE r \in moved
    BY <2>1, <1>1, <1>2, <1>3, MakeAvailableKeeps DEF Reserved
  <2>2. CASE r \notin moved
    BY <2>2, <1>1
  <2> QED
    BY <2>1, <2>2
<1>5. \A r \in DOMAIN rq : r \notin moved => ~Promotable(rq, live, r)
  OBVIOUS
<1> HIDE DEF new, moved
<1>6. ASSUME NEW r \in DOMAIN rq, Promotable(new, live, r) PROVE FALSE
  <2>1. new[r].state = "QUEUED" /\ r \notin moved /\ new[r] = rq[r]
    BY <1>4, <1>6 DEF Promotable
  <2>2. rq[r].inst \in live
    BY <2>1, <1>6 DEF Promotable
  <2>3. PICK o \in DOMAIN rq \ {r} : /\ Overlap(rq[o], rq[r])
                                     /\ \/ Reserved(rq[o])
                                        \/ rq[o].state = "QUEUED" /\ rq[o].seq < rq[r].seq
    BY <1>5, <2>1, <2>2 DEF Promotable
  <2>4. Overlap(new[o], new[r])
    BY <2>1, <2>3, <1>4 DEF Overlap
  <2>5. Reserved(new[o]) \/ (new[o].state = "QUEUED" /\ new[o].seq < new[r].seq)
    BY <2>1, <2>3, <1>4
  <2> QED
    BY <1>1, <1>6, <2>4, <2>5 DEF Promotable
<1> QED
  BY <1>1, <1>6 DEF Settled, new

-----------------------------------------------------------------------------
(***************************************************************************)
(* Targets of file turns: what the service decides path by path is the     *)
(* intersection of sets of files that Turns takes for it.                  *)
(***************************************************************************)
LEMMA PrefixesNest ==
  ASSUME NEW p \in ResolvedPaths, NEW q \in ResolvedPaths, NEW r \in ResolvedPaths
  PROVE  /\ ContainsPath(p, p)
         /\ ContainsPath(p, q) /\ ContainsPath(q, r) => ContainsPath(p, r)
         /\ ContainsPath(p, r) /\ ContainsPath(q, r) => ContainsPath(p, q) \/ ContainsPath(q, p)
         /\ ContainsPath(p, q) /\ Len(q) <= Len(p) => p = q
<1>1. Len(p) \in Nat /\ Len(q) \in Nat /\ Len(r) \in Nat
  BY DEF ResolvedPaths
<1>2. ContainsPath(p, p)
  BY <1>1 DEF ContainsPath
<1>3. ContainsPath(p, q) /\ ContainsPath(q, r) => ContainsPath(p, r)
  BY <1>1 DEF ContainsPath
<1>4. ContainsPath(p, r) /\ ContainsPath(q, r) => ContainsPath(p, q) \/ ContainsPath(q, p)
  BY <1>1 DEF ContainsPath
<1>5. ContainsPath(p, q) /\ Len(q) <= Len(p) => p = q
  BY <1>1 DEF ContainsPath, ResolvedPaths
<1> QED
  BY <1>2, <1>3, <1>4, <1>5

\* Two sets of targets overlap, as the service decides it, exactly when there is a file both
\* of them let their owners write: the meaning Turns gives to overlapping file turns.
THEOREM OverlapIsASharedFile ==
  ASSUME NEW left \in SUBSET ResolvedTargets, NEW right \in SUBSET ResolvedTargets
  PROVE  FileSetsOverlap(left, right) <=> Covered(left) \cap Covered(right) # {}
<1>1. \A t \in ResolvedTargets :
         /\ t.path \in ResolvedPaths /\ t.kind \in {"file", "directory"}
         /\ t.path \in Covers(t)
  BY PrefixesNest DEF ResolvedTargets, Covers
<1>2. \A t \in ResolvedTargets : \A p \in Covers(t) :
         /\ p \in ResolvedPaths /\ ContainsPath(t.path, p)
         /\ t.kind = "directory" \/ p = t.path
  BY PrefixesNest, <1>1 DEF ResolvedTargets, Covers
<1>3. ASSUME FileSetsOverlap(left, right) PROVE Covered(left) \cap Covered(right) # {}
  <2>1. PICK a \in left, b \in right :
           \/ a.path = b.path
           \/ a.kind = "directory" /\ ContainsPath(a.path, b.path)
           \/ b.kind = "directory" /\ ContainsPath(b.path, a.path)
    BY <1>3 DEF FileSetsOverlap
  <2>2. a \in ResolvedTargets /\ b \in ResolvedTargets
    OBVIOUS
  <2>3. (b.path \in Covers(a) /\ b.path \in Covers(b)) \/ (a.path \in Covers(a) /\ a.path \in Covers(b))
    BY <2>1, <2>2, <1>1 DEF Covers
  <2> QED
    BY <2>2, <2>3 DEF Covered
<1>4. ASSUME Covered(left) \cap Covered(right) # {} PROVE FileSetsOverlap(left, right)
  <2>1. PICK p : p \in Covered(left) /\ p \in Covered(right)
    BY <1>4
  <2>2. PICK a \in left, b \in right : p \in Covers(a) /\ p \in Covers(b)
    BY <2>1 DEF Covered
  <2>3. a \in ResolvedTargets /\ b \in ResolvedTargets
    OBVIOUS
  <2>4. ContainsPath(a.path, b.path) \/ ContainsPath(b.path, a.path)
    BY <2>2, <2>3, <1>1, <1>2, PrefixesNest
  <2>5. /\ a.kind = "directory" \/ p = a.path
        /\ b.kind = "directory" \/ p = b.path
        /\ ContainsPath(a.path, p) /\ ContainsPath(b.path, p)
    BY <2>2, <2>3, <1>2
  <2> QED
    BY <2>4, <2>5 DEF FileSetsOverlap
<1> QED
  BY <1>3, <1>4

LEMMA LeastLength ==
  ASSUME NEW T \in SUBSET Nat, T # {}
  PROVE  \E m \in T : \A n \in T : m <= n
<1>1. PICK m \in T : \A n \in T : ~ (<<n, m>> \in OpToRel(<, Nat))
  BY NatLessThanWellFounded, WFMin
<1>2. \A n \in T : ~ (n < m)
  BY <1>1 DEF OpToRel
<1> QED
  BY <1>2

\* What is kept of the resolved targets covers the same files as all of them, and no file
\* twice: a directory stands for what was asked for in it, and nothing else gets lost.
THEOREM OutermostCoverAll ==
  ASSUME NEW resolved \in SUBSET ResolvedTargets, OneKindEach(resolved)
  PROVE  /\ Covered(Outermost(resolved)) = Covered(resolved)
         /\ \A s, t \in Outermost(resolved) : s # t => Covers(s) \cap Covers(t) = {}
<1>1. \A t \in ResolvedTargets :
         t.path \in ResolvedPaths /\ t.kind \in {"file", "directory"} /\ Len(t.path) \in Nat
  BY DEF ResolvedTargets, ResolvedPaths
<1>2. \A t \in ResolvedTargets : \A p \in Covers(t) :
         /\ p \in ResolvedPaths /\ ContainsPath(t.path, p)
         /\ t.kind = "directory" \/ p = t.path
  BY PrefixesNest, <1>1 DEF ResolvedTargets, Covers
<1>3. ASSUME NEW p \in Covered(resolved) PROVE p \in Covered(Outermost(resolved))
  <2> DEFINE above == {t \in resolved : p \in Covers(t)}
  <2>1. above # {} /\ above \subseteq ResolvedTargets
    BY <1>3 DEF Covered
  <2>2. PICK t \in above : \A u \in above : Len(t.path) <= Len(u.path)
    <3> DEFINE T == {Len(u.path) : u \in above}
    <3>1. T \in SUBSET Nat /\ T # {}
      BY <2>1, <1>1
    <3>2. PICK m \in T : \A n \in T : m <= n
      BY <3>1, LeastLength
    <3> QED
      BY <3>2
  <2>3. ASSUME NEW parent \in resolved, parent # t, parent.kind = "directory",
               ContainsPath(parent.path, t.path)
        PROVE  FALSE
    <3>1. parent \in ResolvedTargets /\ t \in ResolvedTargets /\ p \in Covers(t)
      BY <2>1
    <3>2. p \in ResolvedPaths /\ ContainsPath(parent.path, p)
      BY <3>1, <2>3, <1>1, <1>2, PrefixesNest
    <3>3. parent \in above
      BY <3>2, <2>3 DEF Covers
    <3>4. parent.path = t.path
      BY <3>1, <3>3, <2>2, <2>3, <1>1, PrefixesNest
    <3> QED
      BY <3>4, <2>3 DEF OneKindEach
  <2>4. t \in Outermost(resolved)
    BY <2>3 DEF Outermost
  <2> QED
    BY <2>4 DEF Covered
<1>4. Covered(Outermost(resolved)) \subseteq Covered(resolved)
  BY DEF Covered, Outermost
<1>5. ASSUME NEW s \in Outermost(resolved), NEW t \in Outermost(resolved), s # t,
             NEW p \in Covers(s), p \in Covers(t)
      PROVE  FALSE
  <2>1. /\ s \in resolved /\ t \in resolved
        /\ s \in ResolvedTargets /\ t \in ResolvedTargets
    BY DEF Outermost
  <2>2. ContainsPath(s.path, t.path) \/ ContainsPath(t.path, s.path)
    BY <1>5, <2>1, <1>1, <1>2, PrefixesNest
  <2>3. /\ s.kind = "directory" \/ p = s.path
        /\ t.kind = "directory" \/ p = t.path
        /\ ContainsPath(s.path, p) /\ ContainsPath(t.path, p)
    BY <1>5, <2>1, <1>2
  <2>4. s.path # t.path
    BY <1>5, <2>1 DEF OneKindEach
  <2>5. \/ s.kind = "directory" /\ ContainsPath(s.path, t.path)
        \/ t.kind = "directory" /\ ContainsPath(t.path, s.path)
    BY <2>1, <2>2, <2>3, <2>4, <1>1, PrefixesNest DEF ContainsPath, ResolvedPaths
  <2> QED
    BY <1>5, <2>1, <2>5 DEF Outermost
<1> QED
  BY <1>3, <1>4, <1>5
=============================================================================
