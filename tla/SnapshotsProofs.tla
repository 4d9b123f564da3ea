--------------------------- MODULE SnapshotsProofs ---------------------------
(***************************************************************************)
(* Transactions that run side by side, each on its snapshot, keep turns    *)
(* exclusive and requests in order: for any number of transactions,        *)
(* instances, requests and targets. And a sweep that nothing came between  *)
(* leaves nothing that waits in vain.                                      *)
(*                                                                         *)
(* A transaction reads much and writes little; only rows that two of them  *)
(* write make one of them fail. What they must share is where numbers are  *)
(* drawn from: of two requests that overlap, one table has both, and in it *)
(* what is granted comes before what waits. So two transactions that grant *)
(* what overlaps would each have put its own request before the other's.   *)
(***************************************************************************)
EXTENDS Snapshots, TurnStateProofs, FiniteSetTheorems

USE DEF ReservedStates, ActiveStates, FinalStates, TaskStates, Deadlines, NoDeadline

\* Requests of this module are made for an offer, not for a task.
TicketRow(q) == q.mode = "ticket" /\ q.state # "READY"

\* The counters of the queues of content.
Numbers(s) == [c \in ContentTargets |-> s.res[c].seq]

\* What the tables keep, and with them every snapshot and what a transaction makes of it.
WellKept(s) ==
  /\ s = [rq |-> s.rq, inst |-> s.inst, res |-> s.res, fileSeq |-> s.fileSeq]
  /\ s.inst \in [Instances -> [active : BOOLEAN, opened : BOOLEAN, ident : Identities]]
  /\ s.res \in [ContentTargets -> [seq : Nat, fence : Nat]]
  /\ s.fileSeq \in Nat
  /\ \A r \in DOMAIN s.rq : TicketRow(s.rq[r])
  /\ IsFiniteSet(DOMAIN s.rq)
  /\ Arranged(s.rq, Numbers(s), s.fileSeq)

\* The counter a request for t draws its number from.
Counter(s, t) == IF t \in FileTargets THEN s.fileSeq ELSE s.res[t].seq

RowContinues(new, old) ==
  /\ new.target = old.target /\ new.seq = old.seq
  /\ new.state = "QUEUED" => old.state = "QUEUED"
  /\ Active(new) => Active(old)

\* The tables e come after s: no row goes, none returns to its queue or from its end, and
\* what is new has a number behind all that were given out.
Continues(e, s) ==
  /\ DOMAIN s.rq \subseteq DOMAIN e.rq
  /\ \A r \in DOMAIN s.rq : RowContinues(e.rq[r], s.rq[r])
  /\ \A t \in Targets : Counter(s, t) <= Counter(e, t)
  /\ \A r \in DOMAIN e.rq \ DOMAIN s.rq : Counter(s, e.rq[r].target) < e.rq[r].seq

\* The tables were s and have become d, and the rows that differ are among stale.
Since(s, d, stale) ==
  /\ Continues(d, s)
  /\ \A r \in Requests : <<"request", r>> \notin stale =>
       /\ r \in DOMAIN s.rq <=> r \in DOMAIN d.rq
       /\ r \in DOMAIN s.rq => d.rq[r] = s.rq[r]
  /\ \A i \in Instances : <<"instance", i>> \notin stale => d.inst[i] = s.inst[i]
  /\ \A c \in ContentTargets : <<"resource", c>> \notin stale => d.res[c] = s.res[c]
  /\ <<"meta", "fileQueueSequence">> \notin stale => d.fileSeq = s.fileSeq

LEMMA CounterType ==
  ASSUME NEW s, WellKept(s), NEW t \in Targets
  PROVE  Counter(s, t) \in Nat
  BY DEF WellKept, Counter, Targets

LEMMA BelowCounter ==
  ASSUME NEW s, WellKept(s), NEW r \in DOMAIN s.rq
  PROVE  /\ s.rq[r] \in Row /\ s.rq[r].target \in Targets /\ s.rq[r].seq \in Nat /\ r \in Requests
         /\ s.rq[r].seq <= Counter(s, s.rq[r].target)
<1>1. s.rq[r] \in Row /\ r \in Requests
  BY DEF WellKept, Arranged, IsTable
<1>2. s.rq[r].target \in Targets /\ s.rq[r].seq \in Nat
  BY <1>1 DEF Row
<1>3. s.rq[r].seq <= IF IsFiles(s.rq[r]) THEN s.fileSeq ELSE Numbers(s)[s.rq[r].target]
  BY DEF WellKept, Arranged, Numbered
<1> QED
  BY <1>1, <1>2, <1>3 DEF Counter, Numbers, IsFiles, Targets

LEMMA ContinuesSelf ==
  ASSUME NEW s, WellKept(s)
  PROVE  Continues(s, s)
<1>1. \A t \in Targets : Counter(s, t) <= Counter(s, t)
  BY CounterType
<1> QED
  BY <1>1 DEF Continues, RowContinues

LEMMA ContinuesFurther ==
  ASSUME NEW s, NEW d, NEW e, WellKept(s), WellKept(d), WellKept(e),
         Continues(d, s), Continues(e, d)
  PROVE  Continues(e, s)
<1>1. \A t \in Targets : Counter(s, t) <= Counter(e, t)
  <2> TAKE t \in Targets
  <2>1. Counter(s, t) \in Nat /\ Counter(d, t) \in Nat /\ Counter(e, t) \in Nat
    BY CounterType
  <2>2. Counter(s, t) <= Counter(d, t) /\ Counter(d, t) <= Counter(e, t)
    BY DEF Continues
  <2> QED
    BY <2>1, <2>2
<1>2. \A r \in DOMAIN s.rq : RowContinues(e.rq[r], s.rq[r])
  BY DEF Continues, RowContinues
<1>3. ASSUME NEW r \in DOMAIN e.rq \ DOMAIN s.rq
      PROVE  Counter(s, e.rq[r].target) < e.rq[r].seq
  <2>1. e.rq[r].target \in Targets /\ e.rq[r].seq \in Nat
    BY BelowCounter
  <2>2. CASE r \in DOMAIN d.rq
    <3>1. e.rq[r].target = d.rq[r].target /\ e.rq[r].seq = d.rq[r].seq
      BY <2>2 DEF Continues, RowContinues
    <3> QED
      BY <2>2, <3>1 DEF Continues
  <2>3. CASE r \notin DOMAIN d.rq
    <3>1. Counter(d, e.rq[r].target) < e.rq[r].seq
      BY <2>3 DEF Continues
    <3>2. Counter(s, e.rq[r].target) <= Counter(d, e.rq[r].target)
      BY <2>1 DEF Continues
    <3>3. Counter(s, e.rq[r].target) \in Nat /\ Counter(d, e.rq[r].target) \in Nat
      BY <2>1, CounterType
    <3> QED
      BY <2>1, <3>1, <3>2, <3>3
  <2> QED
    BY <2>2, <2>3
<1> QED
  BY <1>1, <1>2, <1>3 DEF Continues

-----------------------------------------------------------------------------
(* What an operation does to tables that are well kept. *)

\* Rows end, or stay: the tables go on.
LEMMA QuietKept ==
  ASSUME NEW s, WellKept(s), NEW rows, Quiet(rows, s.rq), DOMAIN rows = DOMAIN s.rq,
         \A r \in DOMAIN rows : TicketRow(rows[r]),
         NEW inst \in [Instances -> [active : BOOLEAN, opened : BOOLEAN, ident : Identities]],
         NEW res \in [ContentTargets -> [seq : Nat, fence : Nat]],
         \A c \in ContentTargets : res[c].seq = s.res[c].seq,
         NEW e, e = [rq |-> rows, inst |-> inst, res |-> res, fileSeq |-> s.fileSeq]
  PROVE  WellKept(e) /\ Continues(e, s)
<1>1. /\ e.rq = rows /\ e.inst = inst /\ e.res = res /\ e.fileSeq = s.fileSeq
      /\ e = [rq |-> e.rq, inst |-> e.inst, res |-> e.res, fileSeq |-> e.fileSeq]
  OBVIOUS
<1>2. Numbers(e) = Numbers(s)
  BY <1>1 DEF Numbers
<1>3. Arranged(e.rq, Numbers(e), e.fileSeq)
  BY <1>1, <1>2, QuietArranged DEF WellKept
<1>4. WellKept(e)
  BY <1>1, <1>3 DEF WellKept
<1>5. \A t \in Targets : Counter(e, t) = Counter(s, t) /\ Counter(s, t) <= Counter(s, t)
  <2> TAKE t \in Targets
  <2>1. Counter(e, t) = Counter(s, t)
    BY <1>1 DEF Counter, Targets
  <2>2. Counter(s, t) \in Nat
    BY CounterType
  <2> QED
    BY <2>1, <2>2
<1>6. \A r \in DOMAIN s.rq : RowContinues(e.rq[r], s.rq[r])
  <2> TAKE r \in DOMAIN s.rq
  <2>1. QuietRow(e.rq[r], s.rq[r]) /\ s.rq[r].state # "READY"
    BY <1>1 DEF Quiet, WellKept, TicketRow
  <2> QED
    BY <2>1 DEF QuietRow, RowContinues, Active, Reserved
<1> QED
  BY <1>1, <1>4, <1>5, <1>6 DEF Continues

LEMMA PromotedKept ==
  ASSUME NEW s, WellKept(s), NEW targets, NEW live,
         NEW e, e = [s EXCEPT !.rq = PromoteAmong(targets, s.rq, live)]
  PROVE  /\ WellKept(e) /\ Continues(e, s) /\ DOMAIN e.rq = DOMAIN s.rq
         /\ e.inst = s.inst /\ e.res = s.res /\ e.fileSeq = s.fileSeq
         /\ e.rq = PromoteAmong(targets, s.rq, live)
<1> DEFINE rows == PromoteAmong(targets, s.rq, live)
           moved == {r \in DOMAIN s.rq : s.rq[r].target \in targets /\ Promotable(s.rq, live, r)}
<1>1. /\ e.rq = rows /\ e.inst = s.inst /\ e.res = s.res /\ e.fileSeq = s.fileSeq
      /\ e = [rq |-> e.rq, inst |-> e.inst, res |-> e.res, fileSeq |-> e.fileSeq]
  BY DEF WellKept
<1>2. IsTable(s.rq)
  BY DEF WellKept, Arranged
<1>3. /\ DOMAIN rows = DOMAIN s.rq
      /\ \A r \in DOMAIN s.rq :
           /\ s.rq[r] \in Row
           /\ rows[r].target = s.rq[r].target /\ rows[r].seq = s.rq[r].seq
           /\ r \notin moved => rows[r] = s.rq[r]
           /\ r \in moved => /\ rows[r] = MakeAvailable(s.rq[r])
                             /\ rows[r].state \in {"READY", "OFFERED"} /\ s.rq[r].state = "QUEUED"
  BY <1>2, PromoteKeeps
<1> HIDE DEF rows, moved
<1>4. \A r \in DOMAIN s.rq : TicketRow(rows[r])
  <2> TAKE r \in DOMAIN s.rq
  <2>1. TicketRow(s.rq[r]) /\ s.rq[r] \in Row
    BY <1>3 DEF WellKept
  <2>2. CASE r \in moved
    BY <2>1, <2>2, <1>3 DEF MakeAvailable, TicketRow, Row
  <2> QED
    BY <2>1, <2>2, <1>3
<1>5. Numbers(e) = Numbers(s)
  BY <1>1 DEF Numbers
<1>6. Arranged(e.rq, Numbers(e), e.fileSeq)
  BY <1>1, <1>5, PromoteArranged DEF WellKept, rows
<1>7. WellKept(e)
  BY <1>1, <1>3, <1>4, <1>6 DEF WellKept
<1>8. \A t \in Targets : Counter(e, t) = Counter(s, t) /\ Counter(s, t) <= Counter(s, t)
  <2> TAKE t \in Targets
  <2>1. Counter(e, t) = Counter(s, t)
    BY <1>1 DEF Counter, Targets
  <2>2. Counter(s, t) \in Nat
    BY CounterType
  <2> QED
    BY <2>1, <2>2
<1>9. \A r \in DOMAIN s.rq : RowContinues(e.rq[r], s.rq[r])
  BY <1>1, <1>3 DEF RowContinues, Active, Reserved
<1>10. Continues(e, s)
  BY <1>1, <1>3, <1>8, <1>9 DEF Continues
<1> QED
  BY <1>1, <1>3, <1>7, <1>10 DEF rows

LEMMA PromotedTables ==
  ASSUME NEW s, WellKept(s)
  PROVE  /\ WellKept(Promoted(s)) /\ Continues(Promoted(s), s)
         /\ Promoted(s).inst = s.inst /\ DOMAIN Promoted(s).rq = DOMAIN s.rq
         /\ Promoted(s).rq = PromoteRequests(s.rq, Connected(s))
         /\ WellKept(FilesPromoted(s)) /\ Continues(FilesPromoted(s), s)
<1>1. /\ Promoted(s) = [s EXCEPT !.rq = PromoteAmong(Targets, s.rq, Connected(s))]
      /\ FilesPromoted(s) = [s EXCEPT !.rq = PromoteAmong(FileTargets, s.rq, Connected(s))]
  BY DEF Promoted, FilesPromoted, PromoteRequests, PromoteFileRequests
<1> QED
  BY <1>1, PromotedKept DEF PromoteRequests

LEMMA FinishIsTicket ==
  ASSUME NEW q \in Row, q.mode = "ticket", NEW final \in FinalStates
  PROVE  TicketRow(Finish(q, final)) /\ QuietRow(Finish(q, final), q)
<1>1. CalmRow(Finish(q, final), q)
  BY FinishCalm
<1>2. Finish(q, final).mode = q.mode /\ Finish(q, final).state = final
  BY DEF Finish, Row
<1> QED
  BY <1>1, <1>2 DEF TicketRow, CalmRow, QuietRow

LEMMA DetachIsTicket ==
  ASSUME NEW q \in Row, TicketRow(q), NEW clean \in BOOLEAN, NEW c \in BOOLEAN
  PROVE  TicketRow(Detach(q, clean, c))
<1> DEFINE queued == [q EXCEPT !.state = "QUEUED", !.reconnect = Least(q.left, ReconnectMs)]
<1>1. \/ Detach(q, clean, c) = q
      \/ Detach(q, clean, c) = queued
      \/ \E final \in FinalStates : Detach(q, clean, c) = Finish(q, final)
  BY Zenon DEF Detach
<1>2. TicketRow(queued)
  BY DEF TicketRow, Row
<1> HIDE DEF queued
<1> QED
  BY <1>1, <1>2, FinishIsTicket DEF TicketRow

LEMMA SelfQuiet ==
  ASSUME NEW s, WellKept(s)
  PROVE  /\ Quiet(s.rq, s.rq) /\ s.rq = [r \in DOMAIN s.rq |-> s.rq[r]]
         /\ \A r \in DOMAIN s.rq : s.rq[r] \in Row /\ QuietRow(s.rq[r], s.rq[r])
<1>1. s.rq = [r \in DOMAIN s.rq |-> s.rq[r]] /\ \A r \in DOMAIN s.rq : s.rq[r] \in Row
  BY DEF WellKept, Arranged, IsTable
<1>2. \A r \in DOMAIN s.rq : QuietRow(s.rq[r], s.rq[r])
  BY <1>1 DEF QuietRow
<1> QED
  BY <1>1, <1>2 DEF Quiet

\* One row is replaced, and the fence of a resource may move.
LEMMA OneRowKept ==
  ASSUME NEW s, WellKept(s), NEW r \in DOMAIN s.rq, NEW row, QuietRow(row, s.rq[r]), TicketRow(row),
         NEW res \in [ContentTargets -> [seq : Nat, fence : Nat]],
         \A c \in ContentTargets : res[c].seq = s.res[c].seq,
         NEW e, e = [rq |-> [s.rq EXCEPT ![r] = row], inst |-> s.inst, res |-> res,
                     fileSeq |-> s.fileSeq]
  PROVE  WellKept(e) /\ Continues(e, s)
<1> DEFINE rows == [s.rq EXCEPT ![r] = row]
<1>1. /\ DOMAIN rows = DOMAIN s.rq
      /\ \A q \in DOMAIN s.rq : rows[q] = IF q = r THEN row ELSE s.rq[q]
      /\ rows = [q \in DOMAIN rows |-> rows[q]]
  BY SelfQuiet
<1> HIDE DEF rows
<1>2. Quiet(rows, s.rq)
  BY <1>1, SelfQuiet DEF Quiet
<1>3. \A q \in DOMAIN rows : TicketRow(rows[q])
  BY <1>1 DEF WellKept
<1>4. s.inst \in [Instances -> [active : BOOLEAN, opened : BOOLEAN, ident : Identities]]
  BY DEF WellKept
<1>5. e = [rq |-> rows, inst |-> s.inst, res |-> res, fileSeq |-> s.fileSeq]
  BY DEF rows
<1> QED
  BY <1>1, <1>2, <1>3, <1>4, <1>5, QuietKept

LEMMA ReboundKept ==
  ASSUME NEW s, WellKept(s), NEW i \in Instances, NEW d
  PROVE  WellKept(Rebound(s, i, d)) /\ Continues(Rebound(s, i, d), s)
<1> DEFINE oldest == {r \in Rebindable(s, d) : \A q \in Rebindable(s, d) : s.rq[r].seq <= s.rq[q].seq}
           chosen == CHOOSE r \in oldest : TRUE
           row == [s.rq[chosen] EXCEPT !.inst = i, !.reconnect = NoDeadline]
           e == [rq |-> [s.rq EXCEPT ![chosen] = row], inst |-> s.inst, res |-> s.res,
                 fileSeq |-> s.fileSeq]
<1>1. CASE oldest = {}
  <2>1. Rebound(s, i, d) = s
    BY <1>1 DEF Rebound
  <2> QED
    BY <2>1, ContinuesSelf
<1>2. CASE oldest # {}
  <2>1. chosen \in oldest
    BY <1>2
  <2>2. chosen \in DOMAIN s.rq
    BY <2>1 DEF Rebindable
  <2>3. s.rq[chosen] \in Row /\ TicketRow(s.rq[chosen])
    BY <2>2, SelfQuiet DEF WellKept
  <2> HIDE DEF chosen
  <2>4. QuietRow(row, s.rq[chosen]) /\ TicketRow(row)
    BY <2>3 DEF QuietRow, TicketRow, Row, Reserved
  <2>5. Rebound(s, i, d) = [s EXCEPT !.rq[chosen] = row]
    BY <1>2, Zenon DEF Rebound, chosen
  <2> HIDE DEF row, oldest
  <2>6. Rebound(s, i, d) = e
    BY <2>5 DEF WellKept
  <2>7. s.res \in [ContentTargets -> [seq : Nat, fence : Nat]]
    BY DEF WellKept
  <2> QED
    BY <2>2, <2>4, <2>6, <2>7, OneRowKept
<1> QED
  BY <1>1, <1>2

LEMMA OpenKept ==
  ASSUME NEW s, WellKept(s), NEW i \in Instances, NEW d \in Identities
  PROVE  LET e == Promoted(Rebound([s EXCEPT !.inst[i] = [active |-> TRUE, opened |-> TRUE,
                                                          ident |-> d]], i, d)) IN
         WellKept(e) /\ Continues(e, s)
<1> DEFINE opened == [active |-> TRUE, opened |-> TRUE, ident |-> d]
           inst == [s.inst EXCEPT ![i] = opened]
           s1 == [s EXCEPT !.inst[i] = opened]
           s2 == Rebound(s1, i, d)
<1>1. inst \in [Instances -> [active : BOOLEAN, opened : BOOLEAN, ident : Identities]]
  BY DEF WellKept
<1>2. s1 = [rq |-> s.rq, inst |-> inst, res |-> s.res, fileSeq |-> s.fileSeq]
  <2> HIDE DEF opened
  <2> QED
    BY DEF WellKept
<1>3. /\ s.res \in [ContentTargets -> [seq : Nat, fence : Nat]]
      /\ \A r \in DOMAIN s.rq : TicketRow(s.rq[r])
  BY DEF WellKept
<1> HIDE DEF inst, s1
<1>4. WellKept(s1) /\ Continues(s1, s)
  BY <1>1, <1>2, <1>3, SelfQuiet, QuietKept
<1>5. WellKept(s2) /\ Continues(s2, s1)
  BY <1>4, ReboundKept
<1> HIDE DEF s2
<1>6. WellKept(Promoted(s2)) /\ Continues(Promoted(s2), s2)
  BY <1>5, PromotedTables
<1>7. WellKept(Promoted(s2)) /\ Continues(Promoted(s2), s)
  BY <1>4, <1>5, <1>6, ContinuesFurther
<1> QED
  BY <1>7 DEF s1, s2

LEMMA DisconnectKept ==
  ASSUME NEW s, WellKept(s), NEW i \in Instances, NEW clean \in BOOLEAN
  PROVE  LET e == Promoted([s EXCEPT !.inst[i].active = FALSE,
                                     !.rq = DetachAll(@, {i}, clean, {})]) IN
         WellKept(e) /\ Continues(e, s)
<1> DEFINE rows == DetachAll(s.rq, {i}, clean, {})
           inst == [s.inst EXCEPT ![i] = [@ EXCEPT !.active = FALSE]]
           s1 == [s EXCEPT !.inst[i].active = FALSE, !.rq = DetachAll(@, {i}, clean, {})]
<1>1. inst \in [Instances -> [active : BOOLEAN, opened : BOOLEAN, ident : Identities]]
  BY DEF WellKept
<1>2. s1 = [rq |-> rows, inst |-> inst, res |-> s.res, fileSeq |-> s.fileSeq]
  <2>1. s = [rq |-> s.rq, inst |-> s.inst, res |-> s.res, fileSeq |-> s.fileSeq]
    BY DEF WellKept
  <2>2. s1 = [s EXCEPT !.inst = inst, !.rq = rows]
    OBVIOUS
  <2> HIDE DEF rows, inst, s1
  <2> QED
    BY <2>1, <2>2
<1>3. IsTable(s.rq) /\ \A r \in DOMAIN s.rq : s.rq[r] \in Row /\ TicketRow(s.rq[r])
  BY DEF WellKept, Arranged, IsTable
<1>4. Quiet(rows, s.rq) /\ DOMAIN rows = DOMAIN s.rq
  <2>1. Calm(rows, s.rq)
    BY <1>3, DetachAllCalm
  <2>2. DOMAIN rows = DOMAIN s.rq
    BY DEF DetachAll
  <2> QED
    BY <2>1, <2>2, CalmIsQuiet
<1>5. \A r \in DOMAIN rows : TicketRow(rows[r])
  <2> TAKE r \in DOMAIN rows
  <2>1. TicketRow(Detach(s.rq[r], clean, r \in {}))
    <3>1. (r \in {}) \in BOOLEAN
      OBVIOUS
    <3> QED
      BY <1>3, <1>4, <3>1, DetachIsTicket
  <2> QED
    BY <1>3, <1>4, <2>1 DEF DetachAll
<1>6. s.res \in [ContentTargets -> [seq : Nat, fence : Nat]]
  BY DEF WellKept
<1> HIDE DEF inst, s1, rows
<1>7. WellKept(s1) /\ Continues(s1, s)
  BY <1>1, <1>2, <1>4, <1>5, <1>6, QuietKept
<1>8. WellKept(Promoted(s1)) /\ Continues(Promoted(s1), s1)
  BY <1>7, PromotedTables
<1>9. WellKept(Promoted(s1)) /\ Continues(Promoted(s1), s)
  BY <1>7, <1>8, ContinuesFurther
<1> QED
  BY <1>9 DEF s1

\* A request that takes the number after all others of its target.
LEMMA InsertKept ==
  ASSUME NEW s, WellKept(s), NEW r \in Requests, r \notin DOMAIN s.rq,
         NEW row \in Row, row.state = "QUEUED", TicketRow(row),
         NEW res, NEW fileSeq,
         row.target \in FileTargets =>
           res = s.res /\ fileSeq = row.seq /\ row.seq = s.fileSeq + 1,
         row.target \in ContentTargets =>
           /\ fileSeq = s.fileSeq /\ row.seq = s.res[row.target].seq + 1
           /\ res = [s.res EXCEPT ![row.target] = [@ EXCEPT !.seq = row.seq]],
         NEW e, e = [rq |-> With(s.rq, r, row), inst |-> s.inst, res |-> res, fileSeq |-> fileSeq]
  PROVE  WellKept(e) /\ Continues(e, s)
<1> DEFINE rows == With(s.rq, r, row)
<1>1. /\ e.rq = rows /\ e.inst = s.inst /\ e.res = res /\ e.fileSeq = fileSeq
      /\ e = [rq |-> e.rq, inst |-> e.inst, res |-> e.res, fileSeq |-> e.fileSeq]
  OBVIOUS
<1>2. /\ DOMAIN rows = DOMAIN s.rq \cup {r}
      /\ rows = [q \in DOMAIN s.rq \cup {r} |-> IF q = r THEN row ELSE s.rq[q]]
      /\ rows[r] = row /\ \A q \in DOMAIN s.rq : rows[q] = s.rq[q]
  BY DEF With
<1> HIDE DEF rows
<1>3. /\ s.res \in [ContentTargets -> [seq : Nat, fence : Nat]] /\ s.fileSeq \in Nat
      /\ Numbers(s) \in [ContentTargets -> Nat] /\ Arranged(s.rq, Numbers(s), s.fileSeq)
      /\ row.seq \in Nat /\ row.target \in Targets
  BY DEF WellKept, Numbers, Row
<1>4. /\ IsFiniteSet(DOMAIN rows) /\ \A q \in DOMAIN rows : TicketRow(rows[q])
      /\ s.inst \in [Instances -> [active : BOOLEAN, opened : BOOLEAN, ident : Identities]]
  BY <1>2, FS_AddElement DEF WellKept
<1>5. CASE row.target \in FileTargets
  <2>1. row.target \notin ContentTargets
    BY <1>5, TargetsAssumption
  <2>2. res = s.res /\ fileSeq = row.seq /\ row.seq = s.fileSeq + 1
    BY <1>5
  <2>3. Numbers(e) = Numbers(s)
    BY <1>1, <2>2 DEF Numbers
  <2> DEFINE old == Numbers(s)
             new == Numbers(e)
  <2> HIDE DEF old, new
  <2>4. Arranged(rows, Numbers(e), fileSeq)
    <3>1. /\ row.target \in FileTargets =>
               new = old /\ row.seq = s.fileSeq + 1 /\ fileSeq = row.seq
          /\ row.target \in ContentTargets =>
               /\ fileSeq = s.fileSeq /\ row.seq = old[row.target] + 1
               /\ new = [old EXCEPT ![row.target] = row.seq]
      BY <2>1, <2>2, <2>3 DEF old, new
    <3>2. old \in [ContentTargets -> Nat] /\ s.fileSeq \in Nat /\ Arranged(s.rq, old, s.fileSeq)
      BY <1>3 DEF old
    <3>3. Arranged(rows, new, fileSeq)
      BY <1>2, <3>1, <3>2, InsertArranged, SMTT(60)
    <3> QED
      BY <3>3 DEF new
  <2>5. \A t \in Targets : Counter(s, t) <= Counter(e, t)
    <3> TAKE t \in Targets
    <3>1. Counter(s, t) \in Nat
      BY CounterType
    <3> QED
      BY <3>1, <1>1, <1>3, <2>2 DEF Counter
  <2>6. Counter(s, row.target) < row.seq
    BY <1>3, <1>5, <2>2 DEF Counter
  <2>7. WellKept(e)
    BY <1>1, <1>2, <1>3, <1>4, <2>2, <2>4 DEF WellKept
  <2>8. Continues(e, s)
    BY <1>1, <1>2, <2>5, <2>6 DEF Continues, RowContinues
  <2> QED
    BY <2>7, <2>8
<1>6. CASE row.target \in ContentTargets
  <2>1. row.target \notin FileTargets
    BY <1>6, TargetsAssumption
  <2>2. /\ fileSeq = s.fileSeq /\ row.seq = s.res[row.target].seq + 1
        /\ res = [s.res EXCEPT ![row.target] = [@ EXCEPT !.seq = row.seq]]
    BY <1>6
  <2>3. /\ res \in [ContentTargets -> [seq : Nat, fence : Nat]]
        /\ \A c \in ContentTargets : res[c].seq = IF c = row.target THEN row.seq ELSE s.res[c].seq
    BY ZenonT(40), <1>3, <2>2
  <2>4. /\ Numbers(e) = [Numbers(s) EXCEPT ![row.target] = row.seq]
        /\ row.seq = Numbers(s)[row.target] + 1
    BY <1>1, <1>6, <2>2, <2>3 DEF Numbers
  <2> DEFINE old == Numbers(s)
             new == Numbers(e)
  <2> HIDE DEF old, new
  <2>5. Arranged(rows, Numbers(e), fileSeq)
    <3>1. /\ row.target \in FileTargets =>
               new = old /\ row.seq = s.fileSeq + 1 /\ fileSeq = row.seq
          /\ row.target \in ContentTargets =>
               /\ fileSeq = s.fileSeq /\ row.seq = old[row.target] + 1
               /\ new = [old EXCEPT ![row.target] = row.seq]
      BY <2>1, <2>2, <2>4 DEF old, new
    <3>2. old \in [ContentTargets -> Nat] /\ s.fileSeq \in Nat /\ Arranged(s.rq, old, s.fileSeq)
      BY <1>3 DEF old
    <3>3. Arranged(rows, new, fileSeq)
      BY <1>2, <3>1, <3>2, InsertArranged, SMTT(60)
    <3> QED
      BY <3>3 DEF new
  <2>6. \A t \in Targets : Counter(s, t) <= Counter(e, t)
    <3> TAKE t \in Targets
    <3>1. Counter(s, t) \in Nat
      BY CounterType
    <3> QED
      BY <3>1, <1>1, <1>3, <2>2, <2>3 DEF Counter, Targets
  <2>7. Counter(s, row.target) < row.seq
    <3>1. Counter(s, row.target) = s.res[row.target].seq /\ s.res[row.target].seq \in Nat
      BY <1>3, <1>6, <2>1 DEF Counter
    <3> QED
      BY <3>1, <2>2
  <2>8. WellKept(e)
    BY <1>1, <1>2, <1>3, <1>4, <2>2, <2>3, <2>5 DEF WellKept
  <2>9. Continues(e, s)
    BY <1>1, <1>2, <2>6, <2>7 DEF Continues, RowContinues
  <2> QED
    BY <2>8, <2>9
<1> QED
  BY <1>3, <1>5, <1>6 DEF Targets

LEMMA RequestKept ==
  ASSUME NEW s, WellKept(s), NEW i \in Instances, NEW r \in Requests, r \notin DOMAIN s.rq,
         NEW t \in Targets, NEW op, op.i = i, op.target = t
  PROVE  /\ t \in ContentTargets =>
              LET e == [TakeNumber(s, t) EXCEPT !.rq = With(@, r, NewRow(s, op, s.res[t].seq + 1))] IN
              WellKept(e) /\ Continues(e, s)
         /\ t \in FileTargets =>
              LET e == [s EXCEPT !.fileSeq = @ + 1,
                                 !.rq = With(@, r, NewRow(s, op, s.fileSeq + 1))] IN
              WellKept(e) /\ Continues(e, s)
<1>1. /\ s = [rq |-> s.rq, inst |-> s.inst, res |-> s.res, fileSeq |-> s.fileSeq]
      /\ s.res \in [ContentTargets -> [seq : Nat, fence : Nat]] /\ s.fileSeq \in Nat
      /\ s.inst[i].ident \in Identities
  BY DEF WellKept
<1>2. ASSUME NEW n \in Nat
      PROVE  LET row == NewRow(s, op, n) IN
             row \in Row /\ row.state = "QUEUED" /\ TicketRow(row) /\ row.target = t /\ row.seq = n
  BY <1>1, LimitsAssumption DEF NewRow, Row, TicketRow
<1>3. CASE t \in ContentTargets
  <2> DEFINE n == s.res[t].seq + 1
             row == NewRow(s, op, n)
             res == [s.res EXCEPT ![t] = [@ EXCEPT !.seq = n]]
             e == [TakeNumber(s, t) EXCEPT !.rq = With(@, r, row)]
  <2>1. n \in Nat
    BY <1>1, <1>3
  <2>2. row \in Row /\ row.state = "QUEUED" /\ TicketRow(row) /\ row.target = t /\ row.seq = n
    BY <1>2, <2>1
  <2>3. t \notin FileTargets
    BY <1>3, TargetsAssumption
  <2>4. TakeNumber(s, t) = [rq |-> s.rq, inst |-> s.inst, res |-> res, fileSeq |-> s.fileSeq]
    <3>1. TakeNumber(s, t) = [s EXCEPT !.res = res]
      BY DEF TakeNumber
    <3> HIDE DEF res
    <3> QED
      BY <1>1, <3>1
  <2> HIDE DEF row, res
  <2>5. e = [rq |-> With(s.rq, r, row), inst |-> s.inst, res |-> res, fileSeq |-> s.fileSeq]
    BY <2>4
  <2> HIDE DEF e
  <2>6. res = [s.res EXCEPT ![row.target] = [@ EXCEPT !.seq = row.seq]]
    BY <2>2 DEF res
  <2>7. WellKept(e) /\ Continues(e, s)
    BY <2>2, <2>3, <2>5, <2>6, InsertKept
  <2> QED
    BY <2>3, <2>7 DEF e, row
<1>4. CASE t \in FileTargets
  <2> DEFINE n == s.fileSeq + 1
             row == NewRow(s, op, n)
             e == [s EXCEPT !.fileSeq = @ + 1, !.rq = With(@, r, row)]
  <2>1. n \in Nat
    BY <1>1
  <2>2. row \in Row /\ row.state = "QUEUED" /\ TicketRow(row) /\ row.target = t /\ row.seq = n
    BY <1>2, <2>1
  <2>3. t \notin ContentTargets
    BY <1>4, TargetsAssumption
  <2>4. e = [rq |-> With(s.rq, r, row), inst |-> s.inst, res |-> s.res, fileSeq |-> n]
    <3> DEFINE X == With(s.rq, r, row)
    <3>1. e = [s EXCEPT !.fileSeq = n, !.rq = X]
      OBVIOUS
    <3> HIDE DEF X, n, e
    <3>2. e = [rq |-> X, inst |-> s.inst, res |-> s.res, fileSeq |-> n]
      BY <1>1, <3>1
    <3> QED
      BY <3>2 DEF X
  <2> HIDE DEF row, e
  <2>5. WellKept(e) /\ Continues(e, s)
    BY <2>2, <2>3, <2>4, InsertKept
  <2> QED
    BY <2>3, <2>5 DEF e, row
<1> QED
  BY <1>3, <1>4 DEF Targets

LEMMA ClaimKept ==
  ASSUME NEW s, WellKept(s), NEW r \in DOMAIN s.rq, s.rq[r].state = "OFFERED"
  PROVE  LET e == IF IsFiles(s.rq[r])
                  THEN [s EXCEPT !.rq[r].state = "CLAIMED"]
                  ELSE [s EXCEPT !.rq[r].state = "CLAIMED",
                                 !.res[s.rq[r].target].fence = @ + 1] IN
         WellKept(e) /\ Continues(e, s)
<1> DEFINE row == [s.rq[r] EXCEPT !.state = "CLAIMED"]
           rows == [s.rq EXCEPT ![r] = row]
           k == s.rq[r].target
           fenced == [s.res[k] EXCEPT !.fence = s.res[k].fence + 1]
           res == [s.res EXCEPT ![k] = fenced]
           e1 == [s EXCEPT !.rq[r].state = "CLAIMED"]
           e2 == [s EXCEPT !.rq[r].state = "CLAIMED", !.res[k].fence = @ + 1]
<1>1. /\ s = [rq |-> s.rq, inst |-> s.inst, res |-> s.res, fileSeq |-> s.fileSeq]
      /\ s.res \in [ContentTargets -> [seq : Nat, fence : Nat]]
  BY DEF WellKept
<1>2. s.rq[r] \in Row /\ TicketRow(s.rq[r]) /\ k \in Targets
  BY SelfQuiet DEF WellKept, Row
<1>3. QuietRow(row, s.rq[r]) /\ TicketRow(row)
  BY <1>2 DEF QuietRow, TicketRow, Row, Reserved
<1>4. CASE IsFiles(s.rq[r])
  <2>1. e1 = [s EXCEPT !.rq = rows]
    OBVIOUS
  <2>2. e1 = [rq |-> rows, inst |-> s.inst, res |-> s.res, fileSeq |-> s.fileSeq]
    <3> HIDE DEF rows, e1
    <3> QED
      BY <1>1, <2>1
  <2>3. WellKept(e1) /\ Continues(e1, s)
    <3> HIDE DEF row, e1
    <3> QED
      BY <1>1, <1>3, <2>2, OneRowKept
  <2> QED
    BY <1>4, <2>3
<1>5. CASE ~IsFiles(s.rq[r])
  <2>1. k \in ContentTargets
    BY <1>2, <1>5 DEF IsFiles, Targets
  <2>2. /\ res \in [ContentTargets -> [seq : Nat, fence : Nat]]
        /\ \A c \in ContentTargets : res[c].seq = s.res[c].seq
    <3>1. fenced \in [seq : Nat, fence : Nat] /\ fenced.seq = s.res[k].seq
      BY <1>1, <2>1
    <3> HIDE DEF fenced
    <3> QED
      BY <1>1, <2>1, <3>1
  <2>3. e2 = [s EXCEPT !.rq = rows, !.res = res]
    <3>1. DOMAIN s = {"rq", "inst", "res", "fileSeq"}
      BY <1>1
    <3> QED
      BY <3>1, Zenon
  <2>4. e2 = [rq |-> rows, inst |-> s.inst, res |-> res, fileSeq |-> s.fileSeq]
    <3> HIDE DEF rows, res, e2
    <3> QED
      BY <1>1, <2>3
  <2>5. WellKept(e2) /\ Continues(e2, s)
    <3> HIDE DEF row, res, e2
    <3> QED
      BY <1>1, <1>3, <2>2, <2>4, OneRowKept
  <2> QED
    BY <1>5, <2>5
<1> QED
  BY <1>4, <1>5

LEMMA ReleaseKept ==
  ASSUME NEW s, WellKept(s), NEW r \in DOMAIN s.rq
  PROVE  LET e == Promoted([s EXCEPT !.rq[r] = Finish(@, "RELEASED")]) IN
         WellKept(e) /\ Continues(e, s)
<1> DEFINE row == Finish(s.rq[r], "RELEASED")
           s1 == [s EXCEPT !.rq[r] = Finish(@, "RELEASED")]
<1>1. /\ s = [rq |-> s.rq, inst |-> s.inst, res |-> s.res, fileSeq |-> s.fileSeq]
      /\ s.res \in [ContentTargets -> [seq : Nat, fence : Nat]]
  BY DEF WellKept
<1>2. QuietRow(row, s.rq[r]) /\ TicketRow(row)
  BY SelfQuiet, FinishIsTicket DEF WellKept, TicketRow
<1> HIDE DEF row
<1>3. s1 = [rq |-> [s.rq EXCEPT ![r] = row], inst |-> s.inst, res |-> s.res, fileSeq |-> s.fileSeq]
  BY <1>1 DEF row
<1> HIDE DEF s1
<1>4. WellKept(s1) /\ Continues(s1, s)
  BY <1>1, <1>2, <1>3, OneRowKept
<1>5. WellKept(Promoted(s1)) /\ Continues(Promoted(s1), s1)
  BY <1>4, PromotedTables
<1>6. WellKept(Promoted(s1)) /\ Continues(Promoted(s1), s)
  BY <1>4, <1>5, ContinuesFurther
<1> QED
  BY <1>6 DEF s1

\* A sweep makes no request and leaves nothing that could be promoted.
LEMMA SweepKept ==
  ASSUME NEW s, WellKept(s), NEW op \in Sweeps
  PROVE  LET e == Effect(s, op) IN
         /\ WellKept(e) /\ Continues(e, s)
         /\ e.inst = s.inst /\ DOMAIN e.rq = DOMAIN s.rq /\ Settled(e.rq, Connected(e))
         /\ \A r \in DOMAIN s.rq : e.rq[r].inst = s.rq[r].inst
<1> DEFINE rows == [r \in DOMAIN s.rq |->
                      IF r \in op.lapsed /\ s.rq[r].state \in {"QUEUED", "OFFERED"}
                      THEN Finish(s.rq[r], "EXPIRED") ELSE s.rq[r]]
           s1 == [s EXCEPT !.rq = rows]
<1>1. Effect(s, op) = Promoted(s1)
  BY DEF Effect, Sweeps
<1>2. \A r \in DOMAIN s.rq : s.rq[r] \in Row /\ TicketRow(s.rq[r])
  BY SelfQuiet DEF WellKept
<1>3. \A r \in DOMAIN s.rq : LET f == Finish(s.rq[r], "EXPIRED") IN
                             QuietRow(f, s.rq[r]) /\ TicketRow(f) /\ f.inst = s.rq[r].inst
  <2> TAKE r \in DOMAIN s.rq
  <2>1. s.rq[r] \in Row /\ s.rq[r].mode = "ticket"
    BY <1>2 DEF TicketRow
  <2>2. Finish(s.rq[r], "EXPIRED").inst = s.rq[r].inst
    BY <2>1 DEF Finish, Row
  <2> QED
    BY <2>1, <2>2, FinishIsTicket
<1>4. /\ DOMAIN rows = DOMAIN s.rq /\ rows = [r \in DOMAIN rows |-> rows[r]]
      /\ \A r \in DOMAIN rows : /\ QuietRow(rows[r], s.rq[r]) /\ TicketRow(rows[r])
                                /\ rows[r].inst = s.rq[r].inst
  BY <1>2, <1>3, SelfQuiet
<1> HIDE DEF rows
<1>5. s1 = [rq |-> rows, inst |-> s.inst, res |-> s.res, fileSeq |-> s.fileSeq]
  BY DEF WellKept
<1>6. Quiet(rows, s.rq)
  BY <1>4 DEF Quiet
<1>7. /\ s.inst \in [Instances -> [active : BOOLEAN, opened : BOOLEAN, ident : Identities]]
      /\ s.res \in [ContentTargets -> [seq : Nat, fence : Nat]]
  BY DEF WellKept
<1> HIDE DEF s1
<1>8. WellKept(s1) /\ Continues(s1, s)
  BY <1>4, <1>5, <1>6, <1>7, QuietKept
<1> DEFINE e == Promoted(s1)
<1>9. /\ WellKept(e) /\ Continues(e, s1) /\ e.inst = s1.inst /\ DOMAIN e.rq = DOMAIN s1.rq
      /\ e.rq = PromoteAmong(Targets, s1.rq, Connected(s1))
  BY <1>8, PromotedTables DEF PromoteRequests
<1> HIDE DEF e
<1>10. Continues(e, s)
  BY <1>8, <1>9, ContinuesFurther
<1>11. e.inst = s.inst /\ DOMAIN e.rq = DOMAIN s.rq /\ Connected(e) = Connected(s1)
  BY <1>4, <1>5, <1>9 DEF Connected
<1>12. IsTable(s1.rq) /\ \A r \in DOMAIN s1.rq : s1.rq[r].target \in Targets
  BY <1>8, BelowCounter DEF WellKept, Arranged
<1>13. Settled(e.rq, Connected(e))
  BY <1>9, <1>11, <1>12, PromoteAmongSettles
<1>14. \A r \in DOMAIN s.rq : e.rq[r].inst = s.rq[r].inst
  <2>1. \A r \in DOMAIN s1.rq : /\ s1.rq[r] \in Row
                                /\ \/ e.rq[r] = s1.rq[r]
                                   \/ e.rq[r] = MakeAvailable(s1.rq[r])
    BY <1>9, <1>12, SelfQuiet, <1>8 DEF PromoteAmong
  <2>2. \A r \in DOMAIN s1.rq : e.rq[r].inst = s1.rq[r].inst
    BY <2>1 DEF MakeAvailable, Row
  <2> QED
    BY <2>2, <1>4, <1>5
<1> QED
  BY <1>1, <1>9, <1>10, <1>11, <1>13, <1>14 DEF e

\* Whatever the operation, it leaves tables that are well kept and come after those it saw.
LEMMA EffectKept ==
  ASSUME NEW s, WellKept(s), NEW op \in Ops \cup Sweeps, Accepts(s, op)
  PROVE  WellKept(Effect(s, op)) /\ Continues(Effect(s, op), s)
<1>1. CASE op \in [kind : {"open"}, i : Instances, d : Identities]
  <2>1. op.kind = "open" /\ op.i \in Instances /\ op.d \in Identities
    BY <1>1
  <2>2. Effect(s, op) = Promoted(Rebound([s EXCEPT !.inst[op.i] =
                          [active |-> TRUE, opened |-> TRUE, ident |-> op.d]], op.i, op.d))
    BY <2>1 DEF Effect
  <2> QED
    BY <2>1, <2>2, OpenKept, Zenon
<1>2. CASE op \in [kind : {"disconnect"}, i : Instances, clean : BOOLEAN]
  <2>1. op.kind = "disconnect" /\ op.i \in Instances /\ op.clean \in BOOLEAN
    BY <1>2
  <2>2. Effect(s, op) = Promoted([s EXCEPT !.inst[op.i].active = FALSE,
                                           !.rq = DetachAll(@, {op.i}, op.clean, {})])
    BY <2>1 DEF Effect
  <2> QED
    BY <2>1, <2>2, DisconnectKept, Zenon
<1>3. CASE op \in [kind : {"requestResourceTurn"}, i : Instances, r : Requests,
                   target : ContentTargets]
  <2> DEFINE e == [TakeNumber(s, op.target) EXCEPT
                     !.rq = With(@, op.r, NewRow(s, op, s.res[op.target].seq + 1))]
  <2>1. /\ op.kind = "requestResourceTurn" /\ op.i \in Instances /\ op.r \in Requests
        /\ op.target \in ContentTargets /\ op.target \in Targets
    BY <1>3 DEF Targets
  <2>2. op.r \notin DOMAIN s.rq
    BY <2>1 DEF Accepts
  <2>3. Effect(s, op) = Promoted(e)
    BY <2>1 DEF Effect
  <2>4. WellKept(e) /\ Continues(e, s)
    BY <2>1, <2>2, RequestKept, Zenon
  <2> HIDE DEF e
  <2> QED
    BY <2>3, <2>4, PromotedTables, ContinuesFurther
<1>4. CASE op \in [kind : {"requestFileTurn"}, i : Instances, r : Requests, target : FileTargets]
  <2> DEFINE e == [s EXCEPT !.fileSeq = @ + 1,
                            !.rq = With(@, op.r, NewRow(s, op, s.fileSeq + 1))]
  <2>1. /\ op.kind = "requestFileTurn" /\ op.i \in Instances /\ op.r \in Requests
        /\ op.target \in FileTargets /\ op.target \in Targets
    BY <1>4 DEF Targets
  <2>2. op.r \notin DOMAIN s.rq
    BY <2>1 DEF Accepts
  <2>3. Effect(s, op) = FilesPromoted(e)
    BY <2>1 DEF Effect
  <2>4. WellKept(e) /\ Continues(e, s)
    BY <2>1, <2>2, RequestKept, Zenon
  <2> HIDE DEF e
  <2> QED
    BY <2>3, <2>4, PromotedTables, ContinuesFurther
<1>5. CASE op \in [kind : {"claim", "release"}, i : Instances, r : Requests]
  <2>1. CASE op.kind = "claim"
    <3>1. op.r \in DOMAIN s.rq /\ s.rq[op.r].state = "OFFERED"
      BY <2>1 DEF Accepts
    <3> DEFINE e == IF IsFiles(s.rq[op.r])
                    THEN [s EXCEPT !.rq[op.r].state = "CLAIMED"]
                    ELSE [s EXCEPT !.rq[op.r].state = "CLAIMED",
                                   !.res[s.rq[op.r].target].fence = @ + 1]
    <3>2. Effect(s, op) = e
      BY <2>1 DEF Effect
    <3>3. WellKept(e) /\ Continues(e, s)
      BY <3>1, ClaimKept
    <3> HIDE DEF e
    <3> QED
      BY <3>2, <3>3
  <2>2. CASE op.kind = "release"
    <3>1. op.r \in DOMAIN s.rq
      BY <2>2 DEF Accepts
    <3>2. Effect(s, op) = Promoted([s EXCEPT !.rq[op.r] = Finish(@, "RELEASED")])
      BY <2>2 DEF Effect
    <3> QED
      BY <3>1, <3>2, ReleaseKept, Zenon
  <2> QED
    BY <1>5, <2>1, <2>2
<1>6. CASE op \in Sweeps
  BY <1>6, SweepKept
<1> QED
  BY <1>1, <1>2, <1>3, <1>4, <1>5, <1>6 DEF Ops

-----------------------------------------------------------------------------
(* Two tables that come after the same ones, joined. *)

\* Requests that overlap draw their numbers from one counter.
LEMMA OneCounter ==
  ASSUME NEW s, NEW p, NEW q, p.target \in Targets, q.target \in Targets, Overlap(p, q)
  PROVE  Counter(s, p.target) = Counter(s, q.target)
<1>1. CASE p.target \in ContentTargets
  BY <1>1, ContentOverlap DEF Overlap
<1>2. CASE q.target \in ContentTargets
  <2>1. q.target \cap p.target # {}
    BY DEF Overlap
  <2> QED
    BY <1>2, <2>1, ContentOverlap
<1>3. CASE p.target \in FileTargets /\ q.target \in FileTargets
  BY <1>3 DEF Counter
<1> QED
  BY <1>1, <1>2, <1>3 DEF Targets

\* A row that m has from e: its number is no other's, and if it is reserved, it is before
\* whatever is active.
LEMMA StaysBefore ==
  ASSUME NEW e, WellKept(e), NEW m, Continues(m, e),
         NEW r \in DOMAIN e.rq, NEW q \in DOMAIN m.rq, r # q,
         m.rq[r] = e.rq[r], m.rq[q] \in Row, Overlap(m.rq[r], m.rq[q])
  PROVE  /\ m.rq[r].seq # m.rq[q].seq
         /\ Reserved(m.rq[r]) /\ Active(m.rq[q]) => m.rq[r].seq < m.rq[q].seq
<1>1. /\ e.rq[r] \in Row /\ e.rq[r].target \in Targets /\ e.rq[r].seq \in Nat
      /\ e.rq[r].seq <= Counter(e, e.rq[r].target)
  BY BelowCounter
<1>2. m.rq[q].target \in Targets /\ m.rq[q].seq \in Nat
  BY DEF Row
<1>3. CASE q \in DOMAIN e.rq
  <2>1. RowContinues(m.rq[q], e.rq[q])
    BY <1>3 DEF Continues
  <2>2. Overlap(e.rq[r], e.rq[q]) /\ e.rq[q].seq = m.rq[q].seq
    BY <2>1 DEF RowContinues, Overlap
  <2>3. e.rq[r].seq # e.rq[q].seq
    BY <1>3, <2>2 DEF WellKept, Arranged, Numbered
  <2>4. ASSUME Reserved(e.rq[r]), Active(e.rq[q])
        PROVE  e.rq[r].seq < e.rq[q].seq
    <3>1. ~Reserved(e.rq[q])
      BY <1>3, <2>2, <2>4 DEF WellKept, Arranged, Alone
    <3>2. e.rq[q].state = "QUEUED"
      BY <2>4, <3>1 DEF Active, Reserved
    <3> QED
      BY <1>3, <2>2, <2>4, <3>2 DEF WellKept, Arranged, Ordered
  <2> QED
    BY <2>1, <2>2, <2>3, <2>4 DEF RowContinues
<1>4. CASE q \notin DOMAIN e.rq
  <2>1. Counter(e, m.rq[q].target) < m.rq[q].seq
    BY <1>4 DEF Continues
  <2>2. Counter(e, m.rq[q].target) = Counter(e, e.rq[r].target)
    BY <1>1, <1>2, OneCounter
  <2>3. Counter(e, e.rq[r].target) \in Nat
    BY <1>1, CounterType
  <2>4. \A a, b, c \in Nat : a <= b /\ b < c => a < c /\ a # c
    OBVIOUS
  <2> QED
    BY <1>1, <1>2, <2>1, <2>2, <2>3, <2>4
<1> QED
  BY <1>3, <1>4

\* What comes after both d and e, with each row from one of them, is well kept.
LEMMA JoinKept ==
  ASSUME NEW d, WellKept(d), NEW e, WellKept(e), NEW m, Continues(m, d), Continues(m, e),
         m = [rq |-> m.rq, inst |-> m.inst, res |-> m.res, fileSeq |-> m.fileSeq],
         m.inst \in [Instances -> [active : BOOLEAN, opened : BOOLEAN, ident : Identities]],
         m.res \in [ContentTargets -> [seq : Nat, fence : Nat]],
         m.fileSeq \in Nat,
         m.rq = [r \in DOMAIN m.rq |-> m.rq[r]],
         DOMAIN m.rq = DOMAIN d.rq \cup DOMAIN e.rq,
         \A r \in DOMAIN m.rq : \/ r \in DOMAIN d.rq /\ m.rq[r] = d.rq[r]
                                \/ r \in DOMAIN e.rq /\ m.rq[r] = e.rq[r]
  PROVE  WellKept(m)
<1>1. \A r \in DOMAIN m.rq : /\ m.rq[r] \in Row /\ TicketRow(m.rq[r]) /\ r \in Requests
                             /\ m.rq[r].target \in Targets /\ m.rq[r].seq \in Nat
  BY ZenonT(40), BelowCounter DEF WellKept
<1>2. IsFiniteSet(DOMAIN m.rq)
  <2>1. IsFiniteSet(DOMAIN d.rq) /\ IsFiniteSet(DOMAIN e.rq)
    BY DEF WellKept
  <2>2. IsFiniteSet(DOMAIN d.rq \cup DOMAIN e.rq)
    BY <2>1, FS_Union, Zenon
  <2> QED
    BY <2>2
<1>3. IsTable(m.rq)
  BY <1>1 DEF IsTable
<1>4. ASSUME NEW r \in DOMAIN m.rq, NEW q \in DOMAIN m.rq, r # q, Overlap(m.rq[r], m.rq[q])
      PROVE  /\ m.rq[r].seq # m.rq[q].seq
             /\ Reserved(m.rq[r]) /\ Active(m.rq[q]) => m.rq[r].seq < m.rq[q].seq
  <2>1. m.rq[q] \in Row
    BY <1>1
  <2>2. CASE r \in DOMAIN d.rq /\ m.rq[r] = d.rq[r]
    BY <1>4, <2>1, <2>2, StaysBefore
  <2>3. CASE r \in DOMAIN e.rq /\ m.rq[r] = e.rq[r]
    BY <1>4, <2>1, <2>3, StaysBefore
  <2> QED
    BY <2>2, <2>3
<1>5. Alone(m.rq)
  <2> SUFFICES ASSUME NEW r \in DOMAIN m.rq, NEW q \in DOMAIN m.rq, r # q,
                      Reserved(m.rq[r]), Reserved(m.rq[q]), Overlap(m.rq[r], m.rq[q])
               PROVE  FALSE
    BY DEF Alone
  <2>1. Overlap(m.rq[q], m.rq[r]) /\ Active(m.rq[r]) /\ Active(m.rq[q])
    BY OverlapIsMutual DEF Active, Reserved
  <2>2. m.rq[r].seq < m.rq[q].seq /\ m.rq[q].seq < m.rq[r].seq
    BY <1>4, <2>1
  <2> QED
    BY <1>1, <2>2
<1>6. Ordered(m.rq)
  <2> SUFFICES ASSUME NEW r \in DOMAIN m.rq, NEW q \in DOMAIN m.rq,
                      Reserved(m.rq[r]), m.rq[q].state = "QUEUED", Overlap(m.rq[r], m.rq[q])
               PROVE  m.rq[r].seq < m.rq[q].seq
    BY DEF Ordered
  <2>1. r # q /\ Active(m.rq[q])
    BY DEF Active, Reserved
  <2> QED
    BY <1>4, <2>1
<1>7. Numbered(m.rq, Numbers(m), m.fileSeq)
  <2>1. \A r, q \in DOMAIN m.rq : r # q /\ Overlap(m.rq[r], m.rq[q]) => m.rq[r].seq # m.rq[q].seq
    BY <1>4
  <2>2. ASSUME NEW r \in DOMAIN m.rq
        PROVE  m.rq[r].seq <= IF IsFiles(m.rq[r]) THEN m.fileSeq ELSE Numbers(m)[m.rq[r].target]
    <3> DEFINE t == m.rq[r].target
    <3>1. t \in Targets /\ m.rq[r].seq \in Nat
      BY <1>1
    <3>2. /\ Counter(d, t) \in Nat /\ Counter(e, t) \in Nat
          /\ Counter(d, t) <= Counter(m, t) /\ Counter(e, t) <= Counter(m, t)
      BY <3>1, CounterType DEF Continues
    <3>3. Counter(m, t) = (IF IsFiles(m.rq[r]) THEN m.fileSeq ELSE Numbers(m)[t])
      BY <3>1 DEF Counter, IsFiles, Numbers, Targets
    <3>4. Counter(m, t) \in Nat
      BY <3>1 DEF Counter, Targets
    <3>5. m.rq[r].seq <= Counter(d, t) \/ m.rq[r].seq <= Counter(e, t)
      BY BelowCounter
    <3>6. m.rq[r].seq <= Counter(m, t)
      <4> HIDE DEF t
      <4> QED
        BY <3>1, <3>2, <3>4, <3>5
    <3> QED
      BY <3>3, <3>6
  <2> QED
    BY <2>1, <2>2 DEF Numbered
<1> QED
  BY <1>1, <1>2, <1>3, <1>5, <1>6, <1>7 DEF WellKept, Arranged

LEMMA WrittenRows ==
  ASSUME NEW s, NEW e
  PROVE  /\ \A r : <<"request", r>> \in Written(s, e) <=> r \in RequestsChanged(s, e)
         /\ \A i \in Instances : <<"instance", i>> \in Written(s, e) <=> s.inst[i] # e.inst[i]
         /\ \A c \in ContentTargets : <<"resource", c>> \in Written(s, e) <=> s.res[c] # e.res[c]
         /\ <<"meta", "fileQueueSequence">> \in Written(s, e) <=> s.fileSeq # e.fileSeq
<1>1. <<"meta", "fileQueueSequence">> \in Written(s, e) <=> s.fileSeq # e.fileSeq
  BY DEF Written, SharedRows
<1>2. \A r : <<"request", r>> \in Written(s, e) <=> r \in RequestsChanged(s, e)
  BY DEF Written
<1>3. \A i \in Instances : <<"instance", i>> \in Written(s, e) <=> s.inst[i] # e.inst[i]
  BY DEF Written
<1>4. \A c \in ContentTargets : <<"resource", c>> \in Written(s, e) <=> s.res[c] # e.res[c]
  BY DEF Written
<1> QED
  BY <1>1, <1>2, <1>3, <1>4

\* A commit that no written row stands against joins what the transaction made of its
\* snapshot with what the others have committed.
LEMMA MergeKept ==
  ASSUME NEW s, WellKept(s), WellKept(db), NEW e, WellKept(e), Continues(e, s),
         NEW stale, Since(s, db, stale), Written(s, e) \cap stale = {},
         NEW m, m = Merged(e, Written(s, e))
  PROVE  WellKept(m) /\ Since(db, m, Written(s, e))
<1> DEFINE rows == Written(s, e)
           changed == RequestsChanged(s, e)
<1>1. /\ m = [rq |-> m.rq, inst |-> m.inst, res |-> m.res, fileSeq |-> m.fileSeq]
      /\ m.rq = [r \in DOMAIN db.rq \cup {q \in DOMAIN e.rq : <<"request", q>> \in rows} |->
                   IF <<"request", r>> \in rows THEN e.rq[r] ELSE db.rq[r]]
      /\ m.inst = [i \in Instances |->
                     IF <<"instance", i>> \in rows THEN e.inst[i] ELSE db.inst[i]]
      /\ m.res = [k \in ContentTargets |->
                    IF <<"resource", k>> \in rows THEN e.res[k] ELSE db.res[k]]
      /\ m.fileSeq = IF <<"meta", "fileQueueSequence">> \in rows THEN e.fileSeq ELSE db.fileSeq
  BY DEF Merged
<1>2. \A r : <<"request", r>> \in rows <=> r \in changed
  BY WrittenRows
<1>3. /\ DOMAIN db.rq \subseteq Requests /\ DOMAIN e.rq \subseteq Requests
      /\ changed \subseteq DOMAIN e.rq
  BY DEF WellKept, Arranged, IsTable, RequestsChanged
<1>4. \A r \in changed : /\ r \in DOMAIN s.rq <=> r \in DOMAIN db.rq
                         /\ r \in DOMAIN s.rq => db.rq[r] = s.rq[r]
  <2> TAKE r \in changed
  <2>1. r \in Requests /\ <<"request", r>> \notin stale
    BY <1>2, <1>3
  <2> QED
    BY <2>1 DEF Since
<1>5. \A r \in DOMAIN e.rq \ changed : /\ r \in DOMAIN s.rq /\ s.rq[r] = e.rq[r]
                                       /\ r \in DOMAIN db.rq
  BY DEF RequestsChanged, Since, Continues
<1>6. /\ DOMAIN m.rq = DOMAIN db.rq \cup DOMAIN e.rq
      /\ \A r \in DOMAIN m.rq : m.rq[r] = IF r \in changed THEN e.rq[r] ELSE db.rq[r]
      /\ \A r \in DOMAIN m.rq \ changed : r \in DOMAIN db.rq
      /\ m.rq = [r \in DOMAIN m.rq |-> m.rq[r]]
  <2> HIDE DEF changed, rows
  <2>1. DOMAIN m.rq = DOMAIN db.rq \cup {q \in DOMAIN e.rq : <<"request", q>> \in rows}
    BY <1>1
  <2>2. DOMAIN m.rq = DOMAIN db.rq \cup DOMAIN e.rq
    BY <2>1, <1>2, <1>5
  <2> QED
    BY <1>1, <1>2, <1>5, <2>1, <2>2
<1> HIDE DEF changed
<1>7. \A t \in Targets : \/ Counter(m, t) = Counter(e, t) /\ Counter(db, t) = Counter(s, t)
                         \/ Counter(m, t) = Counter(db, t) /\ Counter(e, t) = Counter(s, t)
  <2> TAKE t \in Targets
  <2>1. CASE t \in FileTargets
    <3>1. <<"meta", "fileQueueSequence">> \in rows <=> s.fileSeq # e.fileSeq
      BY WrittenRows
    <3>2. <<"meta", "fileQueueSequence">> \in rows => db.fileSeq = s.fileSeq
      BY DEF Since
    <3> QED
      BY <1>1, <2>1, <3>1, <3>2 DEF Counter
  <2>2. CASE t \notin FileTargets
    <3>1. t \in ContentTargets
      BY <2>2 DEF Targets
    <3>2. <<"resource", t>> \in rows <=> s.res[t] # e.res[t]
      BY <3>1, WrittenRows
    <3>3. <<"resource", t>> \in rows => db.res[t] = s.res[t]
      BY <3>1 DEF Since
    <3>4. m.res[t] = IF <<"resource", t>> \in rows THEN e.res[t] ELSE db.res[t]
      BY <1>1, <3>1
    <3> QED
      BY <2>2, <3>2, <3>3, <3>4 DEF Counter
  <2> QED
    BY <2>1, <2>2
<1>8. \A t \in Targets :
        /\ Counter(s, t) \in Nat /\ Counter(db, t) \in Nat /\ Counter(e, t) \in Nat
        /\ Counter(s, t) <= Counter(db, t) /\ Counter(s, t) <= Counter(e, t)
  BY CounterType DEF Since, Continues
<1>9. Continues(m, db)
  <2>1. \A r \in DOMAIN db.rq : RowContinues(m.rq[r], db.rq[r])
    <3> TAKE r \in DOMAIN db.rq
    <3>1. CASE r \in changed
      BY <1>3, <1>4, <1>6, <3>1 DEF Continues
    <3>2. CASE r \notin changed
      BY <1>6, <3>2 DEF RowContinues
    <3> QED
      BY <3>1, <3>2
  <2>2. \A t \in Targets : Counter(db, t) <= Counter(m, t)
    BY <1>7, <1>8
  <2>3. ASSUME NEW r \in DOMAIN m.rq \ DOMAIN db.rq
        PROVE  Counter(db, m.rq[r].target) < m.rq[r].seq
    <3>1. r \in changed /\ r \notin DOMAIN s.rq /\ r \in DOMAIN e.rq /\ m.rq[r] = e.rq[r]
      BY <1>3, <1>4, <1>6
    <3> DEFINE t == e.rq[r].target
    <3>2. t \in Targets /\ e.rq[r].seq \in Nat /\ e.rq[r].seq <= Counter(e, t)
      BY <3>1, BelowCounter
    <3>3. Counter(s, t) < e.rq[r].seq
      BY <3>1 DEF Continues
    <3>4. Counter(db, t) = Counter(s, t)
      BY <1>7, <1>8, <3>2, <3>3
    <3> QED
      BY <3>1, <3>3, <3>4
  <2> QED
    BY <1>6, <2>1, <2>2, <2>3 DEF Continues
<1>10. Continues(m, e)
  <2>1. \A r \in DOMAIN e.rq : RowContinues(m.rq[r], e.rq[r])
    <3> TAKE r \in DOMAIN e.rq
    <3>1. CASE r \in changed
      BY <1>6, <3>1 DEF RowContinues
    <3>2. CASE r \notin changed
      BY <1>5, <1>6, <3>2 DEF Since, Continues
    <3> QED
      BY <3>1, <3>2
  <2>2. \A t \in Targets : Counter(e, t) <= Counter(m, t)
    BY <1>7, <1>8
  <2>3. ASSUME NEW r \in DOMAIN m.rq \ DOMAIN e.rq
        PROVE  Counter(e, m.rq[r].target) < m.rq[r].seq
    <3>1. r \in DOMAIN db.rq /\ r \notin DOMAIN s.rq /\ m.rq[r] = db.rq[r]
      BY <1>3, <1>6 DEF Continues
    <3> DEFINE t == db.rq[r].target
    <3>2. t \in Targets /\ db.rq[r].seq \in Nat /\ db.rq[r].seq <= Counter(db, t)
      BY <3>1, BelowCounter
    <3>3. Counter(s, t) < db.rq[r].seq
      BY <3>1 DEF Since, Continues
    <3>4. Counter(e, t) = Counter(s, t)
      BY <1>7, <1>8, <3>2, <3>3
    <3> QED
      BY <3>1, <3>3, <3>4
  <2> QED
    BY <1>6, <2>1, <2>2, <2>3 DEF Continues
<1>11. /\ m.inst \in [Instances -> [active : BOOLEAN, opened : BOOLEAN, ident : Identities]]
       /\ m.res \in [ContentTargets -> [seq : Nat, fence : Nat]]
       /\ m.fileSeq \in Nat
  <2> HIDE DEF rows
  <2> QED
    BY <1>1 DEF WellKept
<1>12. \A r \in DOMAIN m.rq : \/ r \in DOMAIN db.rq /\ m.rq[r] = db.rq[r]
                              \/ r \in DOMAIN e.rq /\ m.rq[r] = e.rq[r]
  BY <1>3, <1>6
<1>13. WellKept(m)
  <2>1. m = [rq |-> m.rq, inst |-> m.inst, res |-> m.res, fileSeq |-> m.fileSeq]
    BY <1>1
  <2>2. DOMAIN m.rq = DOMAIN db.rq \cup DOMAIN e.rq /\ m.rq = [r \in DOMAIN m.rq |-> m.rq[r]]
    BY <1>6
  <2> QED
    BY <1>9, <1>10, <1>11, <1>12, <2>1, <2>2, JoinKept, SMTT(60)
<1>14. \A r \in Requests : <<"request", r>> \notin rows =>
         /\ r \in DOMAIN db.rq <=> r \in DOMAIN m.rq
         /\ r \in DOMAIN db.rq => m.rq[r] = db.rq[r]
  BY <1>2, <1>6
<1>15. /\ \A i \in Instances : <<"instance", i>> \notin rows => m.inst[i] = db.inst[i]
       /\ \A c \in ContentTargets : <<"resource", c>> \notin rows => m.res[c] = db.res[c]
       /\ <<"meta", "fileQueueSequence">> \notin rows => m.fileSeq = db.fileSeq
  <2> HIDE DEF rows
  <2> QED
    BY <1>1
<1> QED
  BY <1>9, <1>13, <1>14, <1>15 DEF Since

\* Of what has changed since a snapshot, after one commit more.
LEMMA SinceFurther ==
  ASSUME NEW s, WellKept(s), NEW d, WellKept(d), NEW m, WellKept(m),
         NEW stale, Since(s, d, stale), NEW rows, Since(d, m, rows)
  PROVE  Since(s, m, stale \cup rows)
<1>1. Continues(m, s)
  BY ContinuesFurther DEF Since
<1>2. ASSUME NEW r \in Requests, <<"request", r>> \notin stale \cup rows
      PROVE  /\ r \in DOMAIN s.rq <=> r \in DOMAIN m.rq
             /\ r \in DOMAIN s.rq => m.rq[r] = s.rq[r]
  <2>1. <<"request", r>> \notin stale /\ <<"request", r>> \notin rows
    BY <1>2
  <2> QED
    BY <2>1 DEF Since
<1>3. \A i \in Instances : <<"instance", i>> \notin stale \cup rows => m.inst[i] = s.inst[i]
  BY DEF Since
<1>4. \A c \in ContentTargets : <<"resource", c>> \notin stale \cup rows => m.res[c] = s.res[c]
  BY DEF Since
<1>5. <<"meta", "fileQueueSequence">> \notin stale \cup rows => m.fileSeq = s.fileSeq
  BY DEF Since
<1> QED
  BY <1>1, <1>2, <1>3, <1>4, <1>5 DEF Since

-----------------------------------------------------------------------------
(* The invariant and the theorems. *)

\* A transaction under way: what it saw is well kept and lets it go ahead, and what the
\* others have committed since is among the rows it knows to be stale.
UnderWay(x) ==
  /\ x = [op |-> x.op, seen |-> x.seen, stale |-> x.stale]
  /\ x.op \in Ops \cup Sweeps
  /\ WellKept(x.seen) /\ Accepts(x.seen, x.op)
  /\ Since(x.seen, db, x.stale)

SnapshotsInv ==
  /\ WellKept(db)
  /\ OneRequestPerInstance
  /\ tx = [t \in Transactions |-> tx[t]]
  /\ \A t \in Transactions : tx[t] # Idle => UnderWay(tx[t])

LEMMA InitSound ==
  ASSUME Init
  PROVE  SnapshotsInv
<1> PICK d \in Identities :
      db = [rq |-> [r \in {} |-> 0],
            inst |-> [i \in Instances |-> [active |-> FALSE, opened |-> FALSE, ident |-> d]],
            res |-> [t \in ContentTargets |-> [seq |-> 0, fence |-> 0]],
            fileSeq |-> 0]
  BY DEF Init
<1>1. /\ DOMAIN db.rq = {} /\ db.rq = [r \in DOMAIN db.rq |-> 0]
      /\ db.inst = [i \in Instances |-> [active |-> FALSE, opened |-> FALSE, ident |-> d]]
      /\ db.res = [t \in ContentTargets |-> [seq |-> 0, fence |-> 0]] /\ db.fileSeq = 0
      /\ db = [rq |-> db.rq, inst |-> db.inst, res |-> db.res, fileSeq |-> db.fileSeq]
  OBVIOUS
<1>2. db.rq \in [DOMAIN db.rq -> Row]
  BY <1>1
<1>3. Arranged(db.rq, Numbers(db), db.fileSeq)
  BY <1>1, <1>2 DEF Arranged, IsTable, Alone, Numbered, Ordered
<1>4. WellKept(db)
  BY <1>1, <1>3, FS_EmptySet DEF WellKept
<1>5. OneRequestPerInstance
  <2>1. \A i \in Instances, files \in BOOLEAN : Pending(db, i, files) = {}
    BY <1>1 DEF Pending
  <2>2. Cardinality({}) = 0 /\ 0 <= 1
    BY FS_EmptySet
  <2> QED
    BY <2>1, <2>2 DEF OneRequestPerInstance
<1>6. tx = [t \in Transactions |-> tx[t]] /\ \A t \in Transactions : tx[t] = Idle
  BY DEF Init
<1> QED
  BY <1>4, <1>5, <1>6 DEF SnapshotsInv

LEMMA BeginSound ==
  ASSUME SnapshotsInv, NEW t \in Transactions, NEW op \in Ops \cup Sweeps, Begin(t, op)
  PROVE  SnapshotsInv'
<1> DEFINE x == [op |-> op, seen |-> db, stale |-> {}]
<1>1. WellKept(db) /\ Accepts(db, op) /\ db' = db
  BY DEF SnapshotsInv, Begin
<1>2. tx' = [tx EXCEPT ![t] = x]
  BY DEF Begin
<1>3. Since(db, db, {})
  BY <1>1, ContinuesSelf DEF Since
<1>4. UnderWay(x)
  BY <1>1, <1>3 DEF UnderWay
<1> HIDE DEF x
<1>5. /\ tx' = [u \in Transactions |-> tx'[u]]
      /\ \A u \in Transactions : tx'[u] = IF u = t THEN x ELSE tx[u]
  BY <1>2 DEF SnapshotsInv
<1>6. ASSUME NEW u \in Transactions, tx'[u] # Idle
      PROVE  UnderWay(tx[u])'
  <2>1. CASE u = t
    <3>1. tx'[u] = x
      BY <1>5, <2>1
    <3> QED
      BY <1>1, <1>4, <3>1 DEF UnderWay
  <2>2. CASE u # t
    <3>1. tx'[u] = tx[u] /\ UnderWay(tx[u])
      BY <1>5, <1>6, <2>2 DEF SnapshotsInv
    <3> QED
      BY <1>1, <3>1 DEF UnderWay
  <2> QED
    BY <2>1, <2>2
<1>7. WellKept(db)' /\ OneRequestPerInstance'
  BY <1>1 DEF SnapshotsInv, OneRequestPerInstance
<1> QED
  BY <1>5, <1>6, <1>7 DEF SnapshotsInv

LEMMA CommitSound ==
  ASSUME SnapshotsInv, NEW t \in Transactions, Commit(t)
  PROVE  SnapshotsInv'
<1> DEFINE s == tx[t].seen
           e == Effect(s, tx[t].op)
           rows == Written(s, e)
           m == Merged(e, rows)
<1>1. UnderWay(tx[t]) /\ WellKept(db)
  BY DEF SnapshotsInv, Commit
<1>2. WellKept(s) /\ WellKept(e) /\ Continues(e, s) /\ Since(s, db, tx[t].stale)
  BY <1>1, EffectKept DEF UnderWay
<1>3. IF rows \cap tx[t].stale = {} /\ UniqueIndexes(m)
      THEN /\ db' = m
           /\ tx' = [u \in Transactions |->
                       IF u = t \/ tx[u] = Idle THEN Idle
                       ELSE [tx[u] EXCEPT !.stale = @ \cup rows]]
      ELSE tx' = [tx EXCEPT ![t] = Idle] /\ UNCHANGED db
  BY DEF Commit
<1> HIDE DEF s, e, rows, m
<1>4. CASE rows \cap tx[t].stale = {} /\ UniqueIndexes(m)
  <2>1. db' = m
    BY <1>3, <1>4
  <2>2. WellKept(m) /\ Since(db, m, rows)
    BY <1>1, <1>2, <1>4, MergeKept DEF rows, m
  <2>3. /\ tx' = [u \in Transactions |-> tx'[u]]
        /\ \A u \in Transactions :
             tx'[u] = IF u = t \/ tx[u] = Idle THEN Idle ELSE [tx[u] EXCEPT !.stale = @ \cup rows]
    BY <1>3, <1>4
  <2>4. ASSUME NEW u \in Transactions, tx'[u] # Idle
        PROVE  UnderWay(tx[u])'
    <3>1. tx'[u] = [tx[u] EXCEPT !.stale = @ \cup rows] /\ UnderWay(tx[u])
      BY <2>3, <2>4 DEF SnapshotsInv
    <3>2. tx[u] = [op |-> tx[u].op, seen |-> tx[u].seen, stale |-> tx[u].stale]
      BY <3>1 DEF UnderWay
    <3>3. /\ tx'[u] = [op |-> tx'[u].op, seen |-> tx'[u].seen, stale |-> tx'[u].stale]
          /\ tx'[u].op = tx[u].op /\ tx'[u].seen = tx[u].seen
          /\ tx'[u].stale = tx[u].stale \cup rows
      BY <3>1, <3>2
    <3>4. Since(tx[u].seen, m, tx[u].stale \cup rows)
      BY <1>1, <2>2, <3>1, SinceFurther DEF UnderWay
    <3> QED
      BY <2>1, <3>1, <3>3, <3>4 DEF UnderWay
  <2>5. WellKept(db)' /\ OneRequestPerInstance'
    BY <1>4, <2>1, <2>2 DEF UniqueIndexes, OneRequestPerInstance
  <2> QED
    BY <2>3, <2>4, <2>5 DEF SnapshotsInv
<1>5. CASE ~(rows \cap tx[t].stale = {} /\ UniqueIndexes(m))
  <2>1. tx' = [tx EXCEPT ![t] = Idle] /\ db' = db
    BY <1>3, <1>5
  <2>2. /\ tx' = [u \in Transactions |-> tx'[u]]
        /\ \A u \in Transactions : tx'[u] = IF u = t THEN Idle ELSE tx[u]
    BY <2>1 DEF SnapshotsInv
  <2>3. ASSUME NEW u \in Transactions, tx'[u] # Idle
        PROVE  UnderWay(tx[u])'
    <3>1. tx'[u] = tx[u] /\ UnderWay(tx[u])
      BY <2>2, <2>3 DEF SnapshotsInv
    <3> QED
      BY <2>1, <3>1 DEF UnderWay
  <2>4. WellKept(db)' /\ OneRequestPerInstance'
    BY <2>1 DEF SnapshotsInv, OneRequestPerInstance
  <2> QED
    BY <2>2, <2>3, <2>4 DEF SnapshotsInv
<1> QED
  BY <1>4, <1>5

LEMMA StepSound ==
  ASSUME SnapshotsInv, [Next]_vars
  PROVE  SnapshotsInv'
<1>1. CASE UNCHANGED vars
  BY <1>1 DEF vars, SnapshotsInv, OneRequestPerInstance, UnderWay
<1>2. ASSUME NEW t \in Clients, NEW op \in Ops, Begin(t, op)
      PROVE  SnapshotsInv'
  <2>1. t \in Transactions /\ op \in Ops \cup Sweeps
    BY DEF Transactions
  <2> QED
    BY <1>2, <2>1, BeginSound
<1>3. ASSUME NEW t \in Sweepers, NEW op \in Sweeps, Begin(t, op)
      PROVE  SnapshotsInv'
  <2>1. t \in Transactions /\ op \in Ops \cup Sweeps
    BY DEF Transactions
  <2> QED
    BY <1>3, <2>1, BeginSound
<1>4. ASSUME NEW t \in Transactions, Commit(t)
      PROVE  SnapshotsInv'
  BY <1>4, CommitSound
<1> QED
  BY <1>1, <1>2, <1>3, <1>4 DEF Next

\* Transactions that run on snapshots, each writing only the rows it changed, keep the
\* tables as transactions that run one after the other would: every row arranged, every
\* counter behind its numbers, nothing lost that another wrote.
THEOREM SnapshotsInvariant == Spec => []SnapshotsInv
<1>1. Init => SnapshotsInv
  BY InitSound
<1>2. SnapshotsInv /\ [Next]_vars => SnapshotsInv'
  BY StepSound
<1> QED
  BY <1>1, <1>2, PTL DEF Spec

\* Whichever transactions run side by side, nothing that overlaps is granted twice and no
\* instance ends up with two requests of a kind (the conflicts of the store's commit and
\* the unique indexes of the schema, storage/rows.ts and storage/coordination.ts).
THEOREM GrantsStaySound == Spec => []GrantsAreSound
<1>1. SnapshotsInv => GrantsAreSound
  BY DEF SnapshotsInv, GrantsAreSound, ExclusiveTurns, WellKept, Arranged, Alone
<1> QED
  BY <1>1, SnapshotsInvariant, PTL

\* What a sweep commits that nothing came between leaves nobody waiting for a turn that
\* is free: it need not be retried for a request and a release that did not see each other.
LEMMA SweepSettles ==
  ASSUME SnapshotsInv, NEW t \in Transactions, tx[t].op.kind = "sweep", tx[t].stale = {},
         Commit(t)
  PROVE  \A r \in DOMAIN db'.rq : ~Promotable(db'.rq, Connected(db'), r)
<1> DEFINE s == tx[t].seen
           e == Effect(s, tx[t].op)
           rows == Written(s, e)
           m == Merged(e, rows)
<1>1. UnderWay(tx[t]) /\ WellKept(db) /\ OneRequestPerInstance
  BY DEF SnapshotsInv, Commit
<1>2. tx[t].op \in Sweeps
  BY <1>1 DEF UnderWay, Ops
<1>3. WellKept(s) /\ Since(s, db, {})
  BY <1>1 DEF UnderWay
<1>4. s = db
  <2>1. DOMAIN s.rq \subseteq Requests /\ DOMAIN db.rq \subseteq Requests
    BY <1>1, <1>3 DEF WellKept, Arranged, IsTable
  <2>2. DOMAIN s.rq = DOMAIN db.rq /\ \A r \in DOMAIN s.rq : s.rq[r] = db.rq[r]
    BY <1>3, <2>1 DEF Since
  <2> HIDE DEF s
  <2>3. s.rq = db.rq
    BY ZenonT(40), <1>1, <1>3, <2>2, SelfQuiet, Zenon
  <2>4. s.inst = db.inst
    BY <1>1, <1>3 DEF Since, WellKept
  <2>5. s.res = db.res
    BY <1>1, <1>3 DEF Since, WellKept
  <2>6. s.fileSeq = db.fileSeq
    BY <1>3 DEF Since
  <2> QED
    BY <1>1, <1>3, <2>3, <2>4, <2>5, <2>6 DEF WellKept
<1>5. /\ WellKept(e) /\ Continues(e, s)
      /\ e.inst = s.inst /\ DOMAIN e.rq = DOMAIN s.rq /\ Settled(e.rq, Connected(e))
      /\ \A r \in DOMAIN s.rq : e.rq[r].inst = s.rq[r].inst
  BY <1>2, <1>3, SweepKept
<1>6. rows \cap tx[t].stale = {}
  OBVIOUS
<1>7. IF rows \cap tx[t].stale = {} /\ UniqueIndexes(m) THEN db' = m ELSE UNCHANGED db
  BY DEF Commit
<1> HIDE DEF s, e, m
<1>8. /\ m.inst = db.inst
      /\ m.rq = [r \in DOMAIN db.rq \cup {q \in DOMAIN e.rq : <<"request", q>> \in rows} |->
                   IF <<"request", r>> \in rows THEN e.rq[r] ELSE db.rq[r]]
  <2>1. \A i \in Instances : <<"instance", i>> \notin rows
    BY <1>5, WrittenRows
  <2> HIDE DEF rows
  <2>2. m.inst = [i \in Instances |-> db.inst[i]]
    BY <2>1 DEF m, Merged
  <2>3. db.inst = [i \in Instances |-> db.inst[i]]
    BY <1>1 DEF WellKept
  <2>4. m.rq = [r \in DOMAIN db.rq \cup {q \in DOMAIN e.rq : <<"request", q>> \in rows} |->
                  IF <<"request", r>> \in rows THEN e.rq[r] ELSE db.rq[r]]
    BY DEF m, Merged
  <2> QED
    BY <2>2, <2>3, <2>4
<1>9. m.rq = e.rq
  <2>1. \A r \in DOMAIN e.rq : <<"request", r>> \notin rows => e.rq[r] = db.rq[r]
    BY <1>4, <1>5, WrittenRows DEF RequestsChanged
  <2> HIDE DEF rows
  <2>2. m.rq = [r \in DOMAIN e.rq |-> IF <<"request", r>> \in rows THEN e.rq[r] ELSE db.rq[r]]
    BY <1>4, <1>5, <1>8
  <2>3. m.rq = [r \in DOMAIN e.rq |-> e.rq[r]]
    BY <2>1, <2>2
  <2>4. e.rq = [r \in DOMAIN e.rq |-> e.rq[r]]
    BY <1>5, SelfQuiet
  <2> QED
    BY <2>3, <2>4
<1>10. Settled(m.rq, Connected(m))
  BY <1>4, <1>5, <1>8, <1>9 DEF Connected
<1>11. UniqueIndexes(m)
  <2> SUFFICES ASSUME NEW i \in Instances, NEW files \in BOOLEAN
               PROVE  Cardinality(Pending(m, i, files)) <= 1
    BY DEF UniqueIndexes
  <2>1. Pending(m, i, files) \subseteq Pending(db, i, files)
    <3>1. \A r \in DOMAIN db.rq : /\ r \in DOMAIN m.rq /\ m.rq[r].inst = db.rq[r].inst
                                  /\ Active(m.rq[r]) => Active(db.rq[r])
                                  /\ m.rq[r].target = db.rq[r].target
      BY <1>4, <1>5, <1>9 DEF Continues, RowContinues
    <3>2. DOMAIN m.rq = DOMAIN db.rq
      BY <1>4, <1>5, <1>9
    <3> QED
      BY <3>1, <3>2 DEF Pending, IsFiles
  <2>2. IsFiniteSet(Pending(db, i, files))
    <3>1. Pending(db, i, files) \subseteq DOMAIN db.rq /\ IsFiniteSet(DOMAIN db.rq)
      BY <1>1 DEF Pending, WellKept
    <3> QED
      BY <3>1, FS_Subset
  <2>3. Cardinality(Pending(db, i, files)) <= 1
    BY <1>1 DEF OneRequestPerInstance
  <2>4. /\ Cardinality(Pending(m, i, files)) <= Cardinality(Pending(db, i, files))
        /\ Cardinality(Pending(m, i, files)) \in Nat /\ Cardinality(Pending(db, i, files)) \in Nat
    BY <2>1, <2>2, FS_Subset, FS_CardinalityType
  <2> QED
    BY <2>3, <2>4
<1>12. db' = m
  BY <1>6, <1>7, <1>11
<1> QED
  BY <1>10, <1>12 DEF Settled

\* A sweep that nothing came between leaves nothing waiting that could be promoted
\* (sweep in service.ts promotes all that it finds free).
THEOREM SweepsLeaveNothing == Spec => SweepsCatchUp
<1>1. SnapshotsInv /\ [Next]_vars =>
        [\A t \in Transactions :
           tx[t].op.kind = "sweep" /\ tx[t].stale = {} /\ Commit(t)
             => \A r \in DOMAIN db'.rq : ~Promotable(db'.rq, Connected(db'), r)]_vars
  BY SweepSettles
<1> QED
  BY <1>1, SnapshotsInvariant, PTL DEF Spec, SweepsCatchUp
=============================================================================
