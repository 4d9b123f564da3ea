--------------------------- MODULE ContentProofs ----------------------------
(***************************************************************************)
(* What is written and who reads it, for any number of writers and readers *)
(* and any sizes: no observer of the activity log is led past an entry,    *)
(* threads and lists taken page by page are whole, an agent is told what   *)
(* it has not seen of its view, and a message reaches whom it is for. And  *)
(* what an observer looks at: its lists, its screen and its graph.         *)
(***************************************************************************)
EXTENDS
    ActivityLog, ThreadContent, Listings, AgentUpdates, Posts, TurnReads, Sonar,
    TicketGraph, ObservedLists, Integers, Functions,
    FiniteSetTheorems, FunctionTheorems, WellFoundedInduction, TLAPS

-----------------------------------------------------------------------------
(* Places in the activity log. *)

(* Quotients and remainders. *)

LEMMA Divided ==
  ASSUME NEW B \in Nat \ {0}, NEW k \in Nat
  PROVE  k \div B \in Nat /\ k % B \in 0..(B - 1) /\ k = B * (k \div B) + (k % B)
BY Z3

LEMMA Composed ==
  ASSUME NEW B \in Nat \ {0}, NEW q \in Nat, NEW r \in 0..(B - 1)
  PROVE  (q * B + r) \div B = q /\ (q * B + r) % B = r
BY Z3

LEMMA QuotientsAreBelow ==
  ASSUME NEW B \in Nat \ {0}, NEW q \in Nat, NEW n \in Nat, NEW r \in 0..(B - 1)
  PROVE  q * B + r < n * B <=> q < n
<1>1. CASE q >= n
  <2>1. PICK d \in Nat : q = n + d
    BY <1>1
  <2>2. q * B = n * B + d * B
    BY <2>1
  <2>3. d * B >= 0 /\ n * B \in Nat /\ d * B \in Nat
    OBVIOUS
  <2> QED
    BY <1>1, <2>2, <2>3
<1>2. CASE q < n
  <2>1. PICK d \in Nat : n = q + 1 + d
    BY <1>2
  <2>2. n * B = q * B + B + d * B
    BY <2>1
  <2>3. d * B >= 0 /\ q * B \in Nat /\ d * B \in Nat
    OBVIOUS
  <2> QED
    BY <1>2, <2>2, <2>3
<1> QED
  BY <1>1, <1>2

LEMMA LeastPlace ==
  ASSUME NEW S \in SUBSET Nat, S # {}
  PROVE  \E m \in S : \A n \in S : m <= n
<1>1. IsWellFoundedOn(OpToRel(<,Nat), Nat)
  BY NatLessThanWellFounded
<1>2. PICK x \in S : \A y \in S : ~ (<<y, x>> \in OpToRel(<,Nat))
  BY <1>1, WFMin
<1>3. \A y \in S : y < x => <<y, x>> \in OpToRel(<,Nat)
  BY DEF OpToRel
<1>4. ASSUME NEW y \in S PROVE x <= y
  <2>1. ~(y < x)
    BY <1>2, <1>3
  <2> QED
    BY <2>1
<1> QED
  BY <1>4

LEMMA GreatestIs ==
  ASSUME NEW S \in SUBSET Nat, S # {}, NEW n \in Nat, \A m \in S : m <= n
  PROVE  Greatest(S) \in S /\ \A m \in S : m <= Greatest(S)
<1> DEFINE T == {n - m : m \in S}
<1>0. \A m \in S : n - m \in Nat
  OBVIOUS
<1>1. T \in SUBSET Nat /\ T # {}
  BY <1>0
<1>2. PICK t \in T : \A u \in T : t <= u
  BY <1>1, LeastPlace
<1>3. PICK g \in S : t = n - g
  OBVIOUS
<1>4. \A m \in S : m <= g
  <2> TAKE m \in S
  <2>1. n - g <= n - m
    BY <1>2, <1>3
  <2> QED
    BY <2>1
<1> QED
  BY <1>4 DEF Greatest

-----------------------------------------------------------------------------
(* The log. *)

\* The batches that are committed and not yet published.
NotYetPublished == {e[1] : e \in outbox}

LogTypes ==
    /\ committed \subseteq Batches
    /\ log \subseteq Nat \X Events
    /\ last \in Nat /\ head = last /\ pruned \in Nat /\ prunes \in Nat
    /\ waitAt \in [Observers -> {"idle", "publish1", "read1", "publish2", "read2", "asleep",
                                 "publish3", "read3", "gap"}]
    /\ after \in [Observers -> Nat]
    /\ replied \in [Observers -> [from : Nat, cursor : Nat, gap : BOOLEAN]]

\* Batches wait as a whole, and what waits has no number.
OutboxIsWhole ==
    /\ IsFiniteSet(NotYetPublished) /\ NotYetPublished \subseteq committed
    /\ outbox = NotYetPublished \X (1..BatchEvents)

\* No number is above the last one, and what is missing is known to be pruned.
NumbersAreBounded ==
    /\ \A e \in log : e[1] \in 1..last
    /\ \A n \in 1..last : n > pruned => n \in Numbers

\* No cursor is ahead of the log.
CursorsAreBehind == \A o \in Observers : after[o] <= last /\ replied[o].cursor <= last

LogInv == LogTypes /\ OutboxIsWhole /\ NumbersAreBounded /\ CursorsAreBehind /\ LogIsHistory

\* The event that comes k-th when batches are published in this order.
Slot(order, k) == <<order[((k - 1) \div BatchEvents) + 1], ((k - 1) % BatchEvents) + 1>>

PlacesCopied(order) == 1..(Len(order) * BatchEvents)

LEMMA OrdersFill ==
  ASSUME OutboxIsWhole, NEW order \in Orders(NotYetPublished)
  PROVE  /\ Len(order) \in Nat
         /\ order \in Surjection(1..Len(order), NotYetPublished)
         /\ order \in Injection(1..Len(order), NotYetPublished)
         /\ order \in Seq(NotYetPublished)
<1> DEFINE n == Cardinality(NotYetPublished)
<1>1. n \in Nat /\ IsFiniteSet(1..n) /\ Cardinality(1..n) = n
  BY FS_CardinalityType, FS_Interval DEF OutboxIsWhole
<1>2. order \in [1..n -> NotYetPublished] /\ order \in Injection(1..n, NotYetPublished)
  BY DEF Orders, Injection, IsInjective
<1>3. order \in Surjection(1..n, NotYetPublished)
  BY <1>1, <1>2, FS_Injection DEF OutboxIsWhole
<1>4. order \in Seq(NotYetPublished) /\ Len(order) = n
  BY <1>1, <1>2
<1> QED
  BY <1>1, <1>2, <1>3, <1>4

\* Every event that waits has one place, in the order of its batch.
LEMMA SlotsFill ==
  ASSUME OutboxIsWhole, NEW order \in Orders(NotYetPublished)
  PROVE  /\ \A k \in PlacesCopied(order) : Slot(order, k) \in outbox
         /\ \A k, l \in PlacesCopied(order) : Slot(order, k) = Slot(order, l) => k = l
         /\ \A k, l \in PlacesCopied(order) :
               Slot(order, k)[1] = Slot(order, l)[1] /\ Slot(order, k)[2] < Slot(order, l)[2] => k < l
         /\ \A e \in outbox : \E k \in PlacesCopied(order) : Slot(order, k) = e
<1> DEFINE B == BatchEvents
           n == Len(order)
           q(k) == (k - 1) \div B
           r(k) == (k - 1) % B
<1>0. /\ n \in Nat /\ order \in Surjection(1..n, NotYetPublished) /\ order \in Injection(1..n, NotYetPublished)
      /\ B \in Nat \ {0}
  BY OrdersFill, SizeAssumption
<1> HIDE DEF B, n
<1>1. ASSUME NEW k \in PlacesCopied(order)
      PROVE  q(k) \in 0..(n - 1) /\ r(k) \in 0..(B - 1) /\ k = q(k) * B + r(k) + 1
  <2>1. k - 1 \in Nat /\ k - 1 < n * B
    BY <1>0 DEF PlacesCopied, n, B
  <2>2. q(k) \in Nat /\ r(k) \in 0..(B - 1) /\ k - 1 = B * q(k) + r(k)
    BY <1>0, <2>1, Divided
  <2> HIDE DEF q, r
  <2>3. B * q(k) = q(k) * B
    BY <1>0, <2>2
  <2>4. q(k) * B + r(k) < n * B
    BY <2>1, <2>2, <2>3
  <2>5. q(k) < n
    BY <1>0, <2>2, <2>4, QuotientsAreBelow
  <2> QED
    BY <1>0, <2>1, <2>2, <2>3, <2>5 DEF PlacesCopied
<1>2. ASSUME NEW i \in 1..n, NEW j \in 1..B
      PROVE  \E k \in PlacesCopied(order) : q(k) = i - 1 /\ r(k) = j - 1
  <2> DEFINE k == (i - 1) * B + (j - 1) + 1
  <2>1. i - 1 \in Nat /\ i - 1 < n /\ j - 1 \in 0..(B - 1)
    BY <1>0
  <2>2. (i - 1) * B + (j - 1) < n * B /\ (i - 1) * B \in Nat
    BY <1>0, <2>1, QuotientsAreBelow
  <2>3. k \in 1..(n * B) /\ k - 1 = (i - 1) * B + (j - 1)
    BY <1>0, <2>1, <2>2
  <2>4. q(k) = i - 1 /\ r(k) = j - 1
    BY <1>0, <2>1, <2>3, Composed
  <2>5. k \in PlacesCopied(order)
    BY <2>3 DEF PlacesCopied, n, B
  <2> QED
    BY <2>4, <2>5
<1>3. \A k \in PlacesCopied(order) : Slot(order, k) = <<order[q(k) + 1], r(k) + 1>>
  BY DEF Slot, B
<1> HIDE DEF q, r
<1>4. \A k \in PlacesCopied(order) : q(k) + 1 \in 1..n /\ r(k) + 1 \in 1..B
  BY <1>0, <1>1
<1>5. \A k \in PlacesCopied(order) : Slot(order, k) \in outbox
  BY <1>0, <1>3, <1>4 DEF Injection, OutboxIsWhole, B
<1>6. ASSUME NEW k \in PlacesCopied(order), NEW l \in PlacesCopied(order),
             Slot(order, k)[1] = Slot(order, l)[1]
      PROVE  q(k) = q(l)
  <2>1. order[q(k) + 1] = order[q(l) + 1]
    BY <1>3, <1>6
  <2>2. q(k) + 1 = q(l) + 1
    BY <1>0, <1>4, <2>1 DEF Injection, IsInjective
  <2> QED
    BY <1>1, <2>2
<1>7. ASSUME NEW k \in PlacesCopied(order), NEW l \in PlacesCopied(order), Slot(order, k) = Slot(order, l)
      PROVE  k = l
  <2>1. q(k) = q(l)
    BY <1>6, <1>7
  <2>2. r(k) = r(l)
    BY <1>1, <1>3, <1>7
  <2> QED
    BY <1>1, <2>1, <2>2
<1>8. ASSUME NEW k \in PlacesCopied(order), NEW l \in PlacesCopied(order),
             Slot(order, k)[1] = Slot(order, l)[1], Slot(order, k)[2] < Slot(order, l)[2]
      PROVE  k < l
  <2>1. q(k) = q(l) /\ r(k) + 1 < r(l) + 1
    BY <1>3, <1>6, <1>8
  <2>2. q(k) * B \in Nat
    BY <1>0, <1>1
  <2> QED
    BY <1>1, <2>1, <2>2
<1>9. ASSUME NEW e \in outbox PROVE \E k \in PlacesCopied(order) : Slot(order, k) = e
  <2>1. e[1] \in NotYetPublished /\ e[2] \in 1..B /\ e = <<e[1], e[2]>>
    BY DEF OutboxIsWhole, B
  <2>2. PICK i \in 1..n : order[i] = e[1]
    BY <1>0, <2>1 DEF Surjection
  <2>3. PICK k \in PlacesCopied(order) : q(k) = i - 1 /\ r(k) = e[2] - 1
    BY <1>2, <2>1
  <2>4. q(k) + 1 = i /\ r(k) + 1 = e[2]
    BY <1>0, <2>1, <2>3
  <2> QED
    BY <1>3, <2>1, <2>2, <2>4
<1> QED
  BY <1>5, <1>7, <1>8, <1>9


\* What a publication does: the events that waited get the next numbers, in this order.
LEMMA PublishedTells ==
  ASSUME LogInv, NEW order \in Orders(NotYetPublished), Published(order)
  PROVE  /\ log' = log \cup {<<last + k, Slot(order, k)>> : k \in PlacesCopied(order)}
         /\ last' = last + Len(order) * BatchEvents /\ head' = last' /\ outbox' = {}
         /\ Len(order) * BatchEvents \in Nat
<1> DEFINE N == Len(order) * BatchEvents
           new == [k \in 1..N |-> Slot(order, k)]
<1>1. N \in Nat
  BY OrdersFill, SizeAssumption DEF LogInv
<1>2. Len(new) = N /\ DOMAIN new = 1..N
  <2> HIDE DEF N
  <2>1. new \in Seq({Slot(order, k) : k \in 1..N})
    BY <1>1
  <2> QED
    BY <1>1, <2>1
<1>3. /\ log' = log \cup {<<last + 1 + k - 1, new[k]>> : k \in DOMAIN new}
      /\ last' = last + 1 + Len(new) - 1 /\ head' = last' /\ outbox' = {}
  BY DEF Published, FirstNumber, Slot
<1>4. \A k \in 1..N : last + 1 + k - 1 = last + k /\ new[k] = Slot(order, k)
  BY <1>1 DEF LogInv, LogTypes
<1>5. last + 1 + N - 1 = last + N
  BY <1>1 DEF LogInv, LogTypes
<1> HIDE DEF new
<1>6. {<<last + 1 + k - 1, new[k]>> : k \in DOMAIN new} = {<<last + k, Slot(order, k)>> : k \in 1..N}
  BY <1>2, <1>4
<1> QED
  BY <1>1, <1>2, <1>3, <1>5, <1>6 DEF PlacesCopied

LEMMA PublishedKeeps ==
  ASSUME LogInv, outbox # {}, NEW order \in Orders(NotYetPublished), Published(order),
         waitAt' \in [Observers -> {"idle", "publish1", "read1", "publish2", "read2", "asleep",
                                    "publish3", "read3", "gap"}],
         UNCHANGED <<committed, pruneVars, after, replied>>
  PROVE  LogInv' /\ log \subseteq log' /\ \A e \in log' \ log : e[1] > last
<1> DEFINE P == PlacesCopied(order)
           N == Len(order) * BatchEvents
<1>0. /\ log' = log \cup {<<last + k, Slot(order, k)>> : k \in P}
      /\ last' = last + N /\ head' = last' /\ outbox' = {} /\ N \in Nat /\ P = 1..N
  BY PublishedTells DEF PlacesCopied
<1>1. /\ \A k \in P : Slot(order, k) \in outbox
      /\ \A k, l \in P : Slot(order, k) = Slot(order, l) => k = l
      /\ \A k, l \in P :
            Slot(order, k)[1] = Slot(order, l)[1] /\ Slot(order, k)[2] < Slot(order, l)[2] => k < l
      /\ \A e \in outbox : \E k \in P : Slot(order, k) = e
  BY SlotsFill DEF LogInv
<1> HIDE DEF P, N
<1>2. UNCHANGED <<committed, pruned, prunes, after, replied>>
  BY DEF pruneVars
<1> USE DEF LogInv
<1>3. ASSUME NEW e \in log' PROVE e \in log \/ \E k \in P : e = <<last + k, Slot(order, k)>>
  BY <1>0, <1>3
<1>4. \A k \in P : k \in Nat /\ k > 0 /\ last + k \in Nat /\ last + k > last /\ last + k <= last + N
  BY <1>0 DEF LogTypes
<1>5. outbox \subseteq Events /\ \A e \in outbox : e[1] \in committed /\ e[1] \in NotYetPublished
  BY DEF OutboxIsWhole, LogTypes, Events
<1>6. \A e \in log : e[2] \notin outbox /\ e[2][1] \notin NotYetPublished
  <2> TAKE e \in log
  <2>1. e[2] \notin outbox
    BY DEF LogIsHistory, PublishedOnce
  <2>2. e[2] = <<e[2][1], e[2][2]>> /\ e[2][2] \in 1..BatchEvents
    BY DEF LogTypes, Events
  <2> QED
    BY <2>1, <2>2 DEF OutboxIsWhole
<1>7. LogTypes'
  <2>1. log' \subseteq Nat \X Events
    BY <1>1, <1>3, <1>4, <1>5 DEF LogTypes
  <2> QED
    BY <1>0, <1>2, <2>1 DEF LogTypes
<1>8. OutboxIsWhole'
  BY <1>0, FS_EmptySet DEF OutboxIsWhole, NotYetPublished
<1>9. NumbersAreBounded'
  <2>1. \A e \in log' : e[1] \in 1..last'
    <3> TAKE e \in log'
    <3>1. CASE e \in log
      BY <1>0, <3>1 DEF NumbersAreBounded, LogTypes
    <3>2. ASSUME NEW k \in P, e = <<last + k, Slot(order, k)>> PROVE e[1] \in 1..last'
      BY <1>0, <1>4, <3>2 DEF LogTypes
    <3> QED
      BY <1>3, <3>1, <3>2
  <2>2. ASSUME NEW n \in 1..last', n > pruned PROVE n \in Numbers'
    <3>1. CASE n <= last
      <4>1. n \in Numbers
        BY <2>2, <3>1 DEF NumbersAreBounded, LogTypes
      <4> QED
        BY <1>0, <4>1 DEF Numbers
    <3>2. CASE n > last
      <4>1. n - last \in P /\ n = last + (n - last)
        BY <1>0, <2>2, <3>2 DEF LogTypes
      <4>2. <<last + (n - last), Slot(order, n - last)>> \in log'
        BY <1>0, <4>1
      <4> QED
        BY <4>1, <4>2 DEF Numbers
    <3> QED
      BY <1>0, <2>2, <3>1, <3>2 DEF LogTypes
  <2> QED
    BY <1>2, <2>1, <2>2 DEF NumbersAreBounded
<1>10. CursorsAreBehind'
  BY <1>0, <1>2 DEF CursorsAreBehind, LogTypes
<1>11. \A e \in log, k \in P : e[1] <= last /\ e[1] \in Nat
  BY DEF NumbersAreBounded, LogTypes
<1>12. PublishedOnce'
  <2>1. ASSUME NEW e \in log', NEW f \in log', e[2] = f[2] \/ e[1] = f[1] PROVE e = f
    <3>1. CASE e \in log /\ f \in log
      BY <2>1, <3>1 DEF LogIsHistory, PublishedOnce
    <3>2. ASSUME NEW g \in log, NEW k \in P PROVE g[1] # last + k /\ g[2] # Slot(order, k)
      BY <1>1, <1>4, <1>6, <1>11 DEF LogTypes
    <3>3. ASSUME NEW k \in P, NEW l \in P,
                 e = <<last + k, Slot(order, k)>>, f = <<last + l, Slot(order, l)>>
          PROVE  e = f
      <4>1. Slot(order, k) = Slot(order, l) \/ last + k = last + l
        BY <2>1, <3>3
      <4>2. k = l
        <5>1. CASE Slot(order, k) = Slot(order, l)
          BY <1>1, <5>1
        <5>2. CASE last + k = last + l
          BY <1>4, <5>2 DEF LogTypes
        <5> QED
          BY <4>1, <5>1, <5>2
      <4> QED
        BY <3>3, <4>2
    <3> QED
      BY <1>3, <2>1, <3>1, <3>2, <3>3
  <2>2. \A e \in log' : e[2][1] \in committed'
    BY <1>1, <1>2, <1>3, <1>5 DEF LogIsHistory, PublishedOnce
  <2>3. {e[2] : e \in log'} = {e[2] : e \in log} \cup outbox
    <3>1. \A e \in log' : e[2] \in {f[2] : f \in log} \cup outbox
      BY <1>1, <1>3
    <3>2. \A x \in outbox : \E e \in log' : e[2] = x
      <4> TAKE x \in outbox
      <4>1. PICK k \in P : Slot(order, k) = x
        BY <1>1
      <4>2. <<last + k, Slot(order, k)>> \in log'
        BY <1>0
      <4> QED
        BY <4>1, <4>2
    <3> QED
      BY <1>0, <3>1, <3>2
  <2>4. prunes' = 0 => outbox' \cup {e[2] : e \in log'} = committed' \X (1..BatchEvents)
    BY <1>0, <1>2, <2>3 DEF LogIsHistory, PublishedOnce
  <2> QED
    BY <1>0, <2>1, <2>2, <2>4 DEF PublishedOnce
<1>13. TransactionOrder'
  <2> SUFFICES ASSUME NEW e \in log', NEW f \in log', e[2][1] = f[2][1], e[2][2] < f[2][2]
               PROVE  e[1] < f[1]
    BY DEF TransactionOrder
  <2>1. CASE e \in log /\ f \in log
    BY <2>1 DEF LogIsHistory, TransactionOrder
  <2>2. ASSUME NEW g \in log, NEW k \in P PROVE g[2][1] # Slot(order, k)[1]
    BY <1>1, <1>5, <1>6
  <2>3. ASSUME NEW k \in P, NEW l \in P,
               e = <<last + k, Slot(order, k)>>, f = <<last + l, Slot(order, l)>>
        PROVE  e[1] < f[1]
    <3>1. k < l
      BY <1>1, <2>3
    <3> QED
      BY <1>4, <2>3, <3>1 DEF LogTypes
  <2> QED
    BY <1>3, <2>1, <2>2, <2>3
<1>14. log \subseteq log' /\ \A e \in log' \ log : e[1] > last
  BY <1>0, <1>3, <1>4
<1> QED
  BY <1>7, <1>8, <1>9, <1>10, <1>12, <1>13, <1>14 DEF LogIsHistory


\* Whoever publishes, whatever it does next.
LEMMA PublicationKeeps ==
  ASSUME LogInv, NEW next \in [Observers -> {"idle", "publish1", "read1", "publish2", "read2",
                                             "asleep", "publish3", "read3", "gap"}],
         Publication(next), UNCHANGED <<committed, pruneVars, after, replied>>
  PROVE  LogInv' /\ log \subseteq log' /\ \A e \in log' \ log : e[1] > last
<1>1. CASE outbox = {}
  BY <1>1 DEF Publication, logVars, pruneVars, LogInv, LogTypes, OutboxIsWhole, NotYetPublished,
              NumbersAreBounded, Numbers, CursorsAreBehind, LogIsHistory, PublishedOnce,
              TransactionOrder
<1>2. CASE outbox # {}
  <2>1. PICK order \in Orders(NotYetPublished) : Published(order)
    BY <1>2 DEF Publication, NotYetPublished
  <2>2. waitAt' \in [Observers -> {"idle", "publish1", "read1", "publish2", "read2", "asleep",
                                   "publish3", "read3", "gap"}]
    BY <1>2 DEF Publication, Woken
  <2> QED
    BY <1>2, <2>1, <2>2, PublishedKeeps
<1> QED
  BY <1>1, <1>2

LEMMA LogInvKept == LogInv /\ [ActivityNext]_activityVars => LogInv'
<1> SUFFICES ASSUME LogInv, [ActivityNext]_activityVars PROVE LogInv'
  OBVIOUS
<1>1. CASE Publish
  BY <1>1, PublicationKeeps DEF Publish, LogInv, LogTypes
<1>2. ASSUME NEW b \in Batches, RecordActivity(b) PROVE LogInv'
  <2>0. /\ b \notin committed /\ committed' = committed \cup {b}
        /\ outbox' = outbox \cup ({b} \X (1..BatchEvents))
        /\ UNCHANGED <<log, last, head, pruned, prunes, waitAt, after, replied>>
    BY <1>2 DEF RecordActivity, pruneVars, waitVars
  <2>1. BatchEvents \in Nat \ {0} /\ 1 \in 1..BatchEvents
    BY SizeAssumption
  <2>2. NotYetPublished' = NotYetPublished \cup {b}
    <3>1. <<b, 1>> \in outbox'
      BY <2>0, <2>1
    <3> QED
      BY <2>0, <3>1 DEF NotYetPublished
  <2>3. OutboxIsWhole'
    <3>1. IsFiniteSet(NotYetPublished')
      BY <2>2, FS_AddElement DEF LogInv, OutboxIsWhole
    <3> QED
      BY <2>0, <2>2, <3>1 DEF LogInv, OutboxIsWhole
  <2>4. LogTypes' /\ NumbersAreBounded' /\ CursorsAreBehind' /\ TransactionOrder'
    BY <2>0 DEF LogInv, LogTypes, NumbersAreBounded, Numbers, CursorsAreBehind, LogIsHistory,
                TransactionOrder
  <2>5. PublishedOnce'
    <3>1. ASSUME NEW e \in log PROVE e[2] \notin outbox'
      BY <2>0 DEF LogInv, LogIsHistory, PublishedOnce, LogTypes, Events
    <3> QED
      BY <2>0, <3>1 DEF LogInv, LogIsHistory, PublishedOnce
  <2> QED
    BY <2>3, <2>4, <2>5 DEF LogInv, LogIsHistory
<1>3. ASSUME NEW doomed \in SUBSET log, Prune(doomed) PROVE LogInv'
  <2>0. /\ log' = log \ doomed /\ prunes' = prunes + 1
        /\ pruned' = Greatest({pruned} \cup {e[1] : e \in doomed})
        /\ UNCHANGED <<committed, outbox, last, head, waitAt, after, replied>>
    BY <1>3 DEF Prune, waitVars
  <2> DEFINE Gone == {pruned} \cup {e[1] : e \in doomed}
             n == IF pruned <= last THEN last ELSE pruned
  <2>1. Gone \in SUBSET Nat /\ Gone # {} /\ n \in Nat /\ \A m \in Gone : m <= n
    BY DEF LogInv, LogTypes, NumbersAreBounded
  <2> HIDE DEF n
  <2>2. pruned' \in Gone /\ \A m \in Gone : m <= pruned'
    BY <2>0, <2>1, GreatestIs
  <2>3. pruned' \in Nat /\ pruned <= pruned' /\ \A e \in doomed : e[1] <= pruned'
    BY <2>1, <2>2
  <2>4. LogTypes'
    BY <2>0, <2>3 DEF LogInv, LogTypes
  <2>5. NumbersAreBounded'
    <3> SUFFICES ASSUME NEW i \in 1..last, i > pruned' PROVE i \in Numbers'
      BY <2>0 DEF LogInv, NumbersAreBounded
    <3>0. i \in 1..last /\ i > pruned /\ ~(i <= pruned')
      BY <2>3 DEF LogInv, LogTypes
    <3>1. i \in Numbers
      BY <3>0 DEF LogInv, NumbersAreBounded
    <3>2. PICK e \in log : e[1] = i
      BY <3>1 DEF Numbers
    <3>3. e \notin doomed
      BY <2>3, <3>0, <3>2
    <3> QED
      BY <2>0, <3>2, <3>3 DEF Numbers
  <2>6. OutboxIsWhole' /\ CursorsAreBehind' /\ TransactionOrder' /\ PublishedOnce'
    BY <2>0 DEF LogInv, LogTypes, OutboxIsWhole, NotYetPublished, CursorsAreBehind, LogIsHistory,
                TransactionOrder, PublishedOnce
  <2> QED
    BY <2>4, <2>5, <2>6 DEF LogInv, LogIsHistory
<1>4. ASSUME NEW o \in Observers, PublishFirst(o) PROVE LogInv'
  <2>1. CASE waitAt[o] = "publish1"
    BY <1>4, <2>1, PublicationKeeps DEF PublishFirst, LogInv, LogTypes
  <2>2. CASE waitAt[o] = "publish2"
    BY <1>4, <2>2, PublicationKeeps DEF PublishFirst, LogInv, LogTypes
  <2>3. CASE waitAt[o] = "publish3"
    BY <1>4, <2>3, PublicationKeeps DEF PublishFirst, LogInv, LogTypes
  <2> QED
    BY <1>4, <2>1, <2>2, <2>3 DEF PublishFirst
\* The rest leaves the log alone.
<1>5. ASSUME UNCHANGED <<committed, outbox, log, last, head, pruned, prunes>>,
             LogTypes', CursorsAreBehind'
      PROVE  LogInv'
  BY <1>5 DEF LogInv, OutboxIsWhole, NotYetPublished, NumbersAreBounded, Numbers, LogIsHistory,
              PublishedOnce, TransactionOrder
<1>6. CASE DaemonEnds
  BY <1>5, <1>6 DEF DaemonEnds, LogInv, LogTypes, CursorsAreBehind, logVars, pruneVars
<1>7. ASSUME NEW o \in Observers, Snapshot(o) \/ Wait(o) \/ Look(o) \/ LookAgain(o) PROVE LogInv'
  BY <1>5, <1>7 DEF Snapshot, Wait, Look, LookAgain, Goto, LogInv, LogTypes, CursorsAreBehind,
                    logVars, pruneVars
<1>8. ASSUME NEW o \in Observers, TimedOut(o) \/ Fails(o) PROVE LogInv'
  BY <1>5, <1>8 DEF TimedOut, Fails, Goto, LogInv, LogTypes, CursorsAreBehind, logVars, pruneVars
<1>9. ASSUME NEW o \in Observers, ReadCursor(o) PROVE LogInv'
  BY <1>5, <1>9 DEF ReadCursor, Goto, LogInv, LogTypes, CursorsAreBehind, logVars, pruneVars
<1>10. ASSUME NEW o \in Observers, ReadGap(o) PROVE LogInv'
  <2>1. (replied[o].from < pruned) \in BOOLEAN
    BY DEF LogInv, LogTypes
  <2> QED
    BY <1>5, <1>10, <2>1 DEF ReadGap, Goto, LogInv, LogTypes, CursorsAreBehind, logVars, pruneVars
<1>11. CASE UNCHANGED activityVars
  BY <1>5, <1>11 DEF activityVars, logVars, pruneVars, waitVars, LogInv, LogTypes, CursorsAreBehind
<1> QED
  BY <1>1, <1>2, <1>3, <1>4, <1>6, <1>7, <1>8, <1>9, <1>10, <1>11 DEF ActivityNext

LEMMA LogInvHolds == ActivitySpec => []LogInv
<1>1. ActivityInit => LogInv
  <2> SUFFICES ASSUME ActivityInit PROVE LogInv
    OBVIOUS
  <2>1. LogTypes /\ NumbersAreBounded /\ CursorsAreBehind /\ TransactionOrder
    BY DEF ActivityInit, LogTypes, NumbersAreBounded, Numbers, CursorsAreBehind, TransactionOrder
  <2>2. NotYetPublished = {} /\ OutboxIsWhole
    BY FS_EmptySet DEF ActivityInit, OutboxIsWhole, NotYetPublished
  <2>3. {e[2] : e \in log} = {} /\ PublishedOnce
    BY DEF ActivityInit, PublishedOnce
  <2> QED
    BY <2>1, <2>2, <2>3 DEF LogInv, LogIsHistory
<1> QED
  BY <1>1, LogInvKept, PTL DEF ActivitySpec

\* For any transactions, events, observers and prunes: the log is what was committed, once, in
\* order and without holes but for what was pruned; nothing is published behind a cursor; and who
\* is told of no gap can read everything past the cursor it had.
THEOREM CursorsStayHonest == ActivitySpec => CursorsAreHonest
<1>1. LogInv => LogIsHistory
  BY DEF LogInv
<1>2. LogInv /\ [ActivityNext]_activityVars =>
        [\A e \in log' \ log :
            /\ e[1] > head
            /\ \A o \in Observers : e[1] > after[o] /\ e[1] > replied[o].cursor]_activityVars
  <2> SUFFICES ASSUME LogInv, ActivityNext, NEW e \in log' \ log
               PROVE  e[1] > head /\ \A o \in Observers : e[1] > after[o] /\ e[1] > replied[o].cursor
    OBVIOUS
  <2>1. LogInv'
    BY LogInvKept
  <2>2. e[1] > last
    <3>1. CASE Publish
      BY <3>1, PublicationKeeps DEF Publish, LogInv, LogTypes
    <3>2. ASSUME NEW o \in Observers, PublishFirst(o) PROVE e[1] > last
      <4>1. CASE waitAt[o] = "publish1"
        BY <3>2, <4>1, PublicationKeeps DEF PublishFirst, LogInv, LogTypes
      <4>2. CASE waitAt[o] = "publish2"
        BY <3>2, <4>2, PublicationKeeps DEF PublishFirst, LogInv, LogTypes
      <4>3. CASE waitAt[o] = "publish3"
        BY <3>2, <4>3, PublicationKeeps DEF PublishFirst, LogInv, LogTypes
      <4> QED
        BY <3>2, <4>1, <4>2, <4>3 DEF PublishFirst
    <3>3. CASE log' \subseteq log
      BY <3>3
    <3> QED
      BY <3>1, <3>2, <3>3 DEF ActivityNext, DaemonEnds, RecordActivity, Prune, Snapshot, Wait, Look,
         LookAgain, TimedOut, Fails, ReadCursor, ReadGap, logVars
  <2> QED
    BY <2>1, <2>2 DEF LogInv, LogTypes, CursorsAreBehind
<1>3. LogInv /\ [ActivityNext]_activityVars =>
        [\A o \in Observers :
            ReadGap(o) => \/ replied'[o].gap
                          \/ \A n \in (replied[o].from + 1)..replied[o].cursor : n \in Numbers
        ]_activityVars
  <2> SUFFICES ASSUME LogInv, NEW o \in Observers, ReadGap(o), ~replied'[o].gap,
                      NEW n \in (replied[o].from + 1)..replied[o].cursor
               PROVE  n \in Numbers
    OBVIOUS
  <2>1. ~(replied[o].from < pruned)
    BY DEF ReadGap, LogInv, LogTypes
  <2> QED
    BY <2>1 DEF LogInv, LogTypes, CursorsAreBehind, NumbersAreBounded
<1> QED
  BY <1>1, <1>2, <1>3, LogInvHolds, PTL DEF ActivitySpec, CursorsAreHonest, CursorsHideNothing, GapIsTold

\* An observer that found nothing new is registered until it knows better; while it sleeps its
\* cursor is the head of the log.
LogWatchInv ==
    /\ waitAt \in [Observers -> {"idle", "publish1", "read1", "publish2", "read2", "asleep",
                                 "publish3", "read3", "gap"}]
    /\ after = [o \in Observers |-> after[o]]
    /\ \A o \in Observers :
          /\ waitAt[o] \in {"publish2", "read2", "asleep"} => o \in listening
          /\ waitAt[o] = "asleep" => head = after[o]

LEMMA LogWatchInvHolds == ActivitySpec => []LogWatchInv
<1>1. ActivityInit => LogWatchInv
  BY DEF ActivityInit, LogWatchInv
<1>2. LogWatchInv /\ [ActivityNext]_activityVars => LogWatchInv'
  <2> SUFFICES ASSUME LogWatchInv, [ActivityNext]_activityVars PROVE LogWatchInv'
    OBVIOUS
  <2> USE DEF LogWatchInv
  \* Where there is something to publish all who are registered are woken.
  <2>1. ASSUME NEW next \in [Observers -> {"idle", "publish1", "read1", "publish2", "read2",
                                            "asleep", "publish3", "read3", "gap"}],
               \A o \in Observers :
                  /\ next[o] \in {"publish2", "read2", "asleep"} => o \in listening
                  /\ next[o] = "asleep" => head = after[o],
               Publication(next), UNCHANGED after
        PROVE  LogWatchInv'
    BY <2>1 DEF Publication, Woken, logVars
  <2>2. CASE Publish
    BY <2>1, <2>2 DEF Publish
  <2>3. CASE DaemonEnds
    BY <2>3 DEF DaemonEnds, logVars
  <2>4. ASSUME NEW b \in Batches, RecordActivity(b) PROVE LogWatchInv'
    BY <2>4 DEF RecordActivity, waitVars
  <2>5. ASSUME NEW doomed \in SUBSET log, Prune(doomed) PROVE LogWatchInv'
    BY <2>5 DEF Prune, waitVars
  <2>6. ASSUME NEW o \in Observers, PublishFirst(o) PROVE LogWatchInv'
    <3>1. CASE waitAt[o] = "publish1"
      BY <2>1, <2>6, <3>1 DEF PublishFirst
    <3>2. CASE waitAt[o] = "publish3"
      BY <2>1, <2>6, <3>2 DEF PublishFirst
    <3>3. CASE waitAt[o] = "publish2"
      BY <2>1, <2>6, <3>3 DEF PublishFirst
    <3> QED
      BY <2>6, <3>1, <3>2, <3>3 DEF PublishFirst
  <2>7. ASSUME NEW o \in Observers, Snapshot(o) \/ Wait(o) \/ Look(o) PROVE LogWatchInv'
    BY <2>7 DEF Snapshot, Wait, Look, Goto, logVars
  <2>8. ASSUME NEW o \in Observers, LookAgain(o) \/ TimedOut(o) \/ Fails(o) PROVE LogWatchInv'
    BY <2>8 DEF LookAgain, TimedOut, Fails, Goto, logVars
  <2>9. ASSUME NEW o \in Observers, ReadCursor(o) \/ ReadGap(o) PROVE LogWatchInv'
    BY <2>9 DEF ReadCursor, ReadGap, Goto, logVars
  <2>10. CASE UNCHANGED activityVars
    BY <2>10 DEF activityVars, logVars, waitVars
  <2> QED
    BY <2>2, <2>3, <2>4, <2>5, <2>6, <2>7, <2>8, <2>9, <2>10 DEF ActivityNext
<1> QED
  BY <1>1, <1>2, PTL DEF ActivitySpec

-----------------------------------------------------------------------------
(* Threads that are read page by page. *)

ThreadStates == {"active", "archived", "deleted"}
ThreadRows == [revision : Nat, state : ThreadStates, head : Nat]
FirstMutation == [kind |-> "createThread"]
Revisions ==
    [revision : Nat, data : ThreadRows, mutation : Mutations \cup {FirstMutation}]
AboutMessage == {"retractMessage", "reinstateMessage"}

\* What visibility says of a revision of a message.
Visible(row) ==
    [message |-> row.mutation.message, revision |-> row.revision,
     visible |-> row.mutation.kind = "reinstateMessage"]

\* The history is one row for each revision, each an edit of the one before.
HistoryIsKept ==
    /\ revisions \in SUBSET Revisions /\ IsFiniteSet(revisions)
    /\ \E row \in revisions : row.data = thread
    /\ \A row \in revisions :
          /\ row.revision = row.data.revision /\ 1 <= row.revision
          /\ row.revision <= thread.revision
          /\ row.revision = 1 => row.data.head = 0 /\ row.mutation = FirstMutation
          /\ row.revision > 1 =>
                /\ row.revision <= MaxRevision /\ row.mutation \in Mutations
                /\ \E before \in revisions : /\ before.revision = row.revision - 1
                                             /\ row.data = PreparedRow(before.data, row.mutation)
    /\ \A a, b \in revisions : a.revision = b.revision => a = b
    /\ \A n \in 1..thread.revision : \E row \in revisions : row.revision = n

HeadsCount ==
    \A row \in revisions :
        /\ row.data.head = Cardinality(Kinds("appendMessage", row.revision))
        /\ row.data.head < row.revision

VisibilityIsOfMutations ==
    visibility = {Visible(row) : row \in {row \in revisions : row.mutation.kind \in AboutMessage}}

Edits == [at : {"prepared"}, row : ThreadRows, mutation : Mutations]

EditsAreOfRevisions ==
    /\ editing \in [Editors -> {NoEdit} \cup Edits]
    /\ \A e \in Editors : editing[e].at = "prepared" =>
          /\ editing[e].row.revision <= MaxRevision
          /\ \E before \in revisions :
                /\ before.revision = editing[e].row.revision - 1
                /\ editing[e].row = PreparedRow(before.data, editing[e].mutation)

ThreadInv ==
    /\ thread \in ThreadRows /\ 1 <= thread.revision
    /\ HistoryIsKept /\ HeadsCount /\ VisibilityIsOfMutations /\ EditsAreOfRevisions

LEMMA MutationsAre ==
    \A m \in Mutations :
        /\ m.kind \in AboutMessage <=> "message" \in DOMAIN m
        /\ m.kind \in AboutMessage => m.message \in 1..MaxRevision
        /\ m.kind \in {"appendMessage", "archiveThread", "activateThread", "deleteThread"}
                      \cup AboutMessage
        /\ m # FirstMutation
BY DEF Mutations, AboutMessage, FirstMutation

LEMMA FirstIs == FirstMutation.kind = "createThread" /\ "message" \notin DOMAIN FirstMutation
BY DEF FirstMutation

LEMMA PreparedIs ==
    ASSUME NEW row \in ThreadRows, NEW m \in Mutations
    PROVE  /\ PreparedRow(row, m) \in ThreadRows
           /\ PreparedRow(row, m).revision = row.revision + 1
           /\ PreparedRow(row, m).head =
                 IF m.kind = "appendMessage" THEN row.head + 1 ELSE row.head
<1>1. (IF m.kind \in DOMAIN NextState THEN NextState[m.kind] ELSE row.state) \in ThreadStates
    BY DEF NextState, ThreadStates, ThreadRows
<1>2. row.revision + 1 \in Nat /\ row.head + 1 \in Nat /\ row.head \in Nat
    BY DEF ThreadRows
<1> QED
    BY <1>1, <1>2 DEF PreparedRow, ThreadRows

LEMMA RevisionsAre ==
    \A row \in Revisions : /\ row.revision \in Nat /\ row.data \in ThreadRows
                           /\ row.mutation \in Mutations \cup {FirstMutation}
BY DEF Revisions

LEMMA ThreadRowsAre ==
    \A row \in ThreadRows : row.revision \in Nat /\ row.head \in Nat /\ row.state \in ThreadStates
BY DEF ThreadRows

LEMMA RowAtIs ==
    ASSUME HistoryIsKept, NEW n \in 1..thread.revision
    PROVE  /\ RowAt(n) \in revisions /\ RowAt(n).revision = n
           /\ \A row \in revisions : row.revision = n => row = RowAt(n)
BY DEF HistoryIsKept, RowAt

\* What is known of the revisions there are stays as it is.
SeenOf(m, n) == {v \in visibility : v.message = m /\ v.revision <= n}
Past(n) == RowAt(n)' = RowAt(n) /\ \A m : SeenOf(m, n)' = SeenOf(m, n)

LEMMA NothingWritten ==
    ASSUME ThreadInv, UNCHANGED <<thread, revisions, visibility>>
    PROVE  /\ thread' \in ThreadRows /\ 1 <= thread'.revision
           /\ HistoryIsKept' /\ HeadsCount' /\ VisibilityIsOfMutations'
           /\ \A n \in 1..thread.revision : Past(n)
<1>1. HistoryIsKept'
    BY DEF ThreadInv, HistoryIsKept, PreparedRow
<1>2. HeadsCount'
    BY DEF ThreadInv, HeadsCount, Kinds
<1>3. VisibilityIsOfMutations'
    BY DEF ThreadInv, VisibilityIsOfMutations, Visible
<1> QED
    BY <1>1, <1>2, <1>3 DEF ThreadInv, Past, RowAt, SeenOf

LEMMA WritingKeeps ==
    ASSUME ThreadInv, NEW e \in Editors, editing[e].at = "prepared", Unchanged(e),
           thread' = editing[e].row,
           revisions' = revisions \cup
               {[revision |-> editing[e].row.revision, data |-> editing[e].row,
                 mutation |-> editing[e].mutation]},
           visibility' = visibility \cup
               {[message |-> m.message, revision |-> editing[e].row.revision,
                 visible |-> m.kind = "reinstateMessage"] :
                   m \in {n \in {editing[e].mutation} : "message" \in DOMAIN n}}
    PROVE  /\ thread' \in ThreadRows /\ 1 <= thread'.revision
           /\ HistoryIsKept' /\ HeadsCount' /\ VisibilityIsOfMutations'
           /\ thread.revision <= thread'.revision
           /\ \A n \in 1..thread.revision : Past(n)
<1> USE DEF ThreadInv
<1> DEFINE row == editing[e].row
           mutation == editing[e].mutation
           new == [revision |-> row.revision, data |-> row, mutation |-> mutation]
<1>1. editing[e] \in Edits
    <2>1. NoEdit.at # "prepared"
        BY DEF NoEdit
    <2> QED
        BY <2>1 DEF EditsAreOfRevisions
<1>2. row \in ThreadRows /\ mutation \in Mutations
    BY <1>1 DEF Edits
<1>3. row.revision \in Nat /\ thread.revision \in Nat /\ thread.revision = row.revision - 1
    BY <1>2, ThreadRowsAre DEF Unchanged
<1>4. row.revision = thread.revision + 1 /\ 1 <= row.revision /\ row.revision # 1
    BY <1>3
<1>5. new \in Revisions
    BY <1>2, <1>3 DEF Revisions
<1>6. new.revision = row.revision /\ new.data = row /\ new.mutation = mutation
    OBVIOUS
<1>7. revisions' = revisions \cup {new} /\ thread' = row
    OBVIOUS
<1>8. PICK before \in revisions : /\ before.revision = row.revision - 1
                                 /\ row = PreparedRow(before.data, mutation)
    BY DEF EditsAreOfRevisions
<1>9. row.revision <= MaxRevision
    BY DEF EditsAreOfRevisions
<1> HIDE DEF new, row, mutation
<1>10. /\ revisions \in SUBSET Revisions
       /\ \A old \in revisions : /\ old.revision \in Nat /\ old.revision <= thread.revision
                                /\ old.revision # row.revision
    BY <1>3, RevisionsAre DEF HistoryIsKept
<1>22. thread'.revision = row.revision
    BY <1>7
<1>23. \A n \in Nat : n <= thread.revision => n <= row.revision
    BY <1>3, <1>4
<1>11. HistoryIsKept'
    <2>1. revisions' \in SUBSET Revisions /\ IsFiniteSet(revisions')
        BY <1>5, <1>7, FS_AddElement DEF HistoryIsKept
    <2>2. \E old \in revisions' : old.data = thread'
        BY <1>6, <1>7
    <2>3. ASSUME NEW old \in revisions'
          PROVE  /\ old.revision = old.data.revision /\ 1 <= old.revision
                 /\ old.revision <= thread'.revision
                 /\ old.revision = 1 => old.data.head = 0 /\ old.mutation = FirstMutation
                 /\ old.revision > 1 =>
                       /\ old.revision <= MaxRevision /\ old.mutation \in Mutations
                       /\ \E one \in revisions' :
                             /\ one.revision = old.revision - 1
                             /\ old.data = PreparedRow(one.data, old.mutation)
        <3>1. CASE old = new
            <4>1. old.revision = row.revision /\ old.data = row /\ old.mutation = mutation
                BY <3>1, <1>6
            <4>2. row.revision <= row.revision
                BY <1>3
            <4>3. before \in revisions'
                BY <1>7
            <4> QED
                BY <4>1, <4>2, <4>3, <1>2, <1>4, <1>8, <1>9, <1>22
        <3>2. CASE old \in revisions
            <4>1. old.revision <= thread'.revision
                BY <3>2, <1>10, <1>22, <1>23
            <4> QED
                BY <3>2, <4>1, <1>7 DEF HistoryIsKept
        <3> QED
            BY <3>1, <3>2, <1>7
    <2>4. \A a, b \in revisions' : a.revision = b.revision => a = b
        BY <1>6, <1>7, <1>10 DEF HistoryIsKept
    <2>5. ASSUME NEW n \in 1..thread'.revision PROVE \E old \in revisions' : old.revision = n
        <3>1. n = row.revision \/ n \in 1..thread.revision
            BY <1>3, <1>4, <1>22
        <3> QED
            BY <3>1, <1>6, <1>7 DEF HistoryIsKept
    <2>6. \A old \in revisions' : old.revision > 1 =>
              \E one \in revisions' : /\ one.revision = old.revision - 1
                                    /\ old.data = PreparedRow(one.data, old.mutation)'
        BY <2>3 DEF PreparedRow
    <2> QED
        BY <2>1, <2>2, <2>3, <2>4, <2>5, <2>6 DEF HistoryIsKept
<1>12. \A n : Kinds("appendMessage", n)' =
              Kinds("appendMessage", n)
                \cup {old \in {new} : mutation.kind = "appendMessage" /\ row.revision <= n}
    BY <1>6, <1>7 DEF Kinds
<1>13. ASSUME NEW n \in Nat, n <= thread.revision
       PROVE  Kinds("appendMessage", n)' = Kinds("appendMessage", n)
    <2>1. ~(row.revision <= n)
        BY <1>3, <1>4, <1>13
    <2> QED
        BY <2>1, <1>12
<1>14. Kinds("appendMessage", row.revision) = Kinds("appendMessage", thread.revision)
    <2>1. \A old \in revisions : old.revision <= row.revision <=> old.revision <= thread.revision
        BY <1>3, <1>4, <1>10
    <2> QED
        BY <2>1 DEF Kinds
<1>15. \A n : IsFiniteSet(Kinds("appendMessage", n)) /\ new \notin Kinds("appendMessage", n)
    <2> TAKE n
    <2>1. Kinds("appendMessage", n) \subseteq revisions
        BY DEF Kinds
    <2>2. new \notin revisions
        BY <1>6, <1>10
    <2> QED
        BY <2>1, <2>2, FS_Subset DEF HistoryIsKept
<1>16. /\ before.data \in ThreadRows /\ before.data.head \in Nat
       /\ before.data.head = Cardinality(Kinds("appendMessage", thread.revision))
       /\ before.data.head < thread.revision
    BY <1>3, <1>8, RevisionsAre, ThreadRowsAre DEF HistoryIsKept, HeadsCount
<1>17. row.head = IF mutation.kind = "appendMessage" THEN before.data.head + 1 ELSE before.data.head
    BY <1>2, <1>8, <1>16, PreparedIs
<1>24. PICK newest : newest = row.revision
    OBVIOUS
<1>18. HeadsCount'
    <2>1. row.head = Cardinality(Kinds("appendMessage", newest)')
        <3>1. CASE mutation.kind = "appendMessage"
            <4>1. Kinds("appendMessage", newest)' =
                      Kinds("appendMessage", thread.revision) \cup {new}
                <5>1. row.revision <= row.revision
                    BY <1>3
                <5> QED
                    BY <3>1, <5>1, <1>12, <1>14, <1>24
            <4>2. Cardinality(Kinds("appendMessage", thread.revision) \cup {new})
                    = Cardinality(Kinds("appendMessage", thread.revision)) + 1
                BY <1>15, FS_AddElement
            <4> QED
                BY <3>1, <4>1, <4>2, <1>16, <1>17
        <3>2. CASE mutation.kind # "appendMessage"
            <4>1. Kinds("appendMessage", newest)' = Kinds("appendMessage", thread.revision)
                BY <3>2, <1>12, <1>14, <1>24
            <4> QED
                BY <3>2, <4>1, <1>16, <1>17
        <3> QED
            BY <3>1, <3>2
    <2>2. row.head < row.revision
        BY <1>3, <1>4, <1>16, <1>17
    <2>3. ASSUME NEW old \in revisions'
          PROVE  /\ old.data.head = Cardinality(Kinds("appendMessage", old.revision)')
                 /\ old.data.head < old.revision
        <3>1. CASE old = new
            <4>1. old.data = row /\ old.revision = row.revision
                BY <3>1, <1>6
            <4> QED
                BY <4>1, <1>24, <2>1, <2>2
        <3>2. CASE old \in revisions
            BY <3>2, <1>10, <1>13 DEF HeadsCount
        <3> QED
            BY <3>1, <3>2, <1>7
    <2> QED
        BY <2>3 DEF HeadsCount
<1>19. visibility' = visibility \cup
           {Visible(r) : r \in {r \in {new} : r.mutation.kind \in AboutMessage}}
    BY <1>2, <1>6, MutationsAre DEF Visible, row, mutation
<1>20. VisibilityIsOfMutations'
    BY <1>7, <1>19 DEF VisibilityIsOfMutations, Visible
<1>21. ASSUME NEW n \in 1..thread.revision PROVE Past(n)
    <2>1. \A old \in revisions' : old.revision = n <=> (old \in revisions /\ old.revision = n)
        BY <1>3, <1>4, <1>6, <1>7
    <2>2. RowAt(n)' = RowAt(n)
        BY <2>1, <1>7 DEF RowAt
    <2>3. \A v \in visibility' \ visibility : ~(v.revision <= n)
        BY <1>3, <1>4, <1>6, <1>19 DEF Visible
    <2>4. visibility \subseteq visibility'
        BY <1>19
    <2>5. ASSUME NEW m PROVE SeenOf(m, n)' = SeenOf(m, n)
        BY <2>3, <2>4 DEF SeenOf
    <2> QED
        BY <2>2, <2>5 DEF Past
<1> QED
    <2>1. thread.revision <= thread.revision
        BY <1>3
    <2>2. thread' \in ThreadRows /\ 1 <= thread'.revision /\ thread.revision <= thread'.revision
        BY <2>1, <1>2, <1>3, <1>4, <1>7, <1>22, <1>23
    <2> QED
        BY <2>2, <1>11, <1>18, <1>20, <1>21

LEMMA EditsAreKept ==
    ASSUME ThreadInv, revisions \subseteq revisions',
           NEW e \in Editors, NEW new \in {NoEdit} \cup Edits,
           editing' = [editing EXCEPT ![e] = new],
           new.at = "prepared" =>
               /\ new.row.revision <= MaxRevision
               /\ \E before \in revisions : /\ before.revision = new.row.revision - 1
                                           /\ new.row = PreparedRow(before.data, new.mutation)
    PROVE  EditsAreOfRevisions'
<1> USE DEF ThreadInv
<1>1. editing' \in [Editors -> {NoEdit} \cup Edits]
    BY DEF EditsAreOfRevisions
<1>2. ASSUME NEW d \in Editors, editing'[d].at = "prepared"
      PROVE  /\ editing'[d].row.revision <= MaxRevision
             /\ \E before \in revisions' :
                   /\ before.revision = editing'[d].row.revision - 1
                   /\ editing'[d].row = PreparedRow(before.data, editing'[d].mutation)
    <2>1. CASE d = e
        <3>1. editing'[d] = new
            BY <2>1 DEF EditsAreOfRevisions
        <3> QED
            BY <3>1, <1>2
    <2>2. CASE d # e
        <3>1. editing'[d] = editing[d]
            BY <2>2 DEF EditsAreOfRevisions
        <3> QED
            BY <3>1, <1>2 DEF EditsAreOfRevisions
    <2> QED
        BY <2>1, <2>2
<1> QED
    BY <1>1, <1>2 DEF EditsAreOfRevisions, PreparedRow

LEMMA HistoryGrows ==
    ASSUME ThreadInv, ThreadNext
    PROVE  /\ ThreadInv' /\ thread.revision <= thread'.revision
           /\ \A n \in 1..thread.revision : Past(n)
<1> USE DEF ThreadInv
<1>0. thread.revision \in Nat /\ thread.revision <= thread.revision
    <2>1. thread.revision \in Nat
        BY ThreadRowsAre
    <2> QED
        BY <2>1
<1>1. NoEdit \in {NoEdit} \cup Edits /\ NoEdit.at # "prepared"
    BY DEF NoEdit
<1>2. ASSUME NEW e \in Editors, NEW mutation \in Mutations, PrepareEdit(e, mutation)
      PROVE  ThreadInv' /\ thread' = thread /\ \A n \in 1..thread.revision : Past(n)
    <2> DEFINE new == [at |-> "prepared", row |-> PreparedRow(thread, mutation),
                       mutation |-> mutation]
    <2>1. /\ UNCHANGED <<thread, revisions, visibility>>
          /\ editing' = [editing EXCEPT ![e] = new] /\ thread.revision < MaxRevision
        BY <1>2 DEF PrepareEdit
    <2>2. /\ PreparedRow(thread, mutation) \in ThreadRows
          /\ PreparedRow(thread, mutation).revision = thread.revision + 1
        BY PreparedIs
    <2>3. new \in Edits /\ new.row = PreparedRow(thread, mutation) /\ new.mutation = mutation
        BY <2>2 DEF Edits
    <2> HIDE DEF new
    <2>4. PICK before \in revisions : before.data = thread /\ before.revision = thread.revision
        BY DEF HistoryIsKept
    <2>5. new.row.revision <= MaxRevision /\ before.revision = new.row.revision - 1
        BY <1>0, <2>1, <2>2, <2>3, <2>4, PagesAssumption
    <2>6. new.row = PreparedRow(before.data, new.mutation)
        BY <2>3, <2>4
    <2>7. EditsAreOfRevisions'
        BY <2>1, <2>3, <2>5, <2>6, EditsAreKept
    <2> QED
        BY <2>1, <2>7, NothingWritten
<1>3. ASSUME NEW e \in Editors, WriteEdit(e)
      PROVE  /\ ThreadInv' /\ thread.revision <= thread'.revision
             /\ \A n \in 1..thread.revision : Past(n)
    <2>1. editing' = [editing EXCEPT ![e] = NoEdit] /\ editing[e].at = "prepared"
        BY <1>3 DEF WriteEdit
    <2>2. revisions \subseteq revisions'
        BY <1>3 DEF WriteEdit
    <2>3. EditsAreOfRevisions'
        BY <1>1, <2>1, <2>2, EditsAreKept
    <2>4. CASE Unchanged(e)
        <3>1. /\ thread' = editing[e].row
              /\ revisions' = revisions \cup
                    {[revision |-> editing[e].row.revision, data |-> editing[e].row,
                      mutation |-> editing[e].mutation]}
              /\ visibility' = visibility \cup
                    {[message |-> m.message, revision |-> editing[e].row.revision,
                      visible |-> m.kind = "reinstateMessage"] :
                        m \in {n \in {editing[e].mutation} : "message" \in DOMAIN n}}
            BY <1>3, <2>4 DEF WriteEdit
        <3> QED
            BY <2>1, <2>3, <2>4, <3>1, WritingKeeps
    <2>5. CASE ~Unchanged(e)
        <3>1. UNCHANGED <<thread, revisions, visibility>>
            BY <1>3, <2>5 DEF WriteEdit
        <3> QED
            BY <1>0, <2>3, <3>1, NothingWritten
    <2> QED
        BY <2>4, <2>5
<1>4. ASSUME NEW e \in Editors, AbandonEdit(e)
      PROVE  ThreadInv' /\ thread' = thread /\ \A n \in 1..thread.revision : Past(n)
    <2>1. /\ UNCHANGED <<thread, revisions, visibility>>
          /\ editing' = [editing EXCEPT ![e] = NoEdit]
        BY <1>4 DEF AbandonEdit
    <2>2. EditsAreOfRevisions'
        BY <1>1, <2>1, EditsAreKept
    <2> QED
        BY <2>1, <2>2, NothingWritten
<1>5. ASSUME UNCHANGED <<thread, revisions, visibility, editing>>
      PROVE  ThreadInv' /\ thread' = thread /\ \A n \in 1..thread.revision : Past(n)
    <2>1. EditsAreOfRevisions'
        BY <1>5 DEF EditsAreOfRevisions, PreparedRow
    <2> QED
        BY <1>5, <2>1, NothingWritten
<1>6. ASSUME NEW r \in Readers,
             \/ ReadThread(r)
             \/ \E from \in 1..MaxRevision : DiffThread(r, from)
             \/ \E view \in {"page", "delta"}, from, revision \in 1..MaxRevision :
                   StartRead(r, view, from, revision)
      PROVE  UNCHANGED <<thread, revisions, visibility, editing>>
    BY <1>6 DEF ReadThread, DiffThread, StartRead
<1> QED
    BY <1>0, <1>2, <1>3, <1>4, <1>5, <1>6 DEF ThreadNext

LEMMA ThreadBegins == ThreadInit => ThreadInv
<1> SUFFICES ASSUME ThreadInit PROVE ThreadInv
    OBVIOUS
<1> DEFINE first == [revision |-> 1, data |-> thread, mutation |-> FirstMutation]
<1>1. thread \in ThreadRows /\ thread.revision = 1 /\ thread.head = 0
    BY DEF ThreadInit, ThreadRows, ThreadStates
<1>2. first \in Revisions
    BY <1>1 DEF Revisions
<1>3. /\ first.revision = 1 /\ first.data = thread /\ first.mutation = FirstMutation
      /\ revisions = {first}
    BY DEF ThreadInit, FirstMutation
<1> HIDE DEF first
<1>4. HistoryIsKept
    <2>1. IsFiniteSet(revisions)
        BY <1>3, FS_Singleton
    <2>2. \A n \in 1..thread.revision : n = 1
        BY <1>1
    <2>3. ~(1 > 1) /\ 1 <= 1
        OBVIOUS
    <2> QED
        BY <1>1, <1>2, <1>3, <2>1, <2>2, <2>3 DEF HistoryIsKept
<1>5. HeadsCount
    <2>1. Kinds("appendMessage", 1) = {}
        BY <1>3, FirstIs DEF Kinds
    <2>2. Cardinality({}) = 0
        BY FS_EmptySet
    <2> QED
        BY <1>1, <1>3, <2>1, <2>2 DEF HeadsCount
<1>6. VisibilityIsOfMutations
    BY <1>3, FirstIs DEF VisibilityIsOfMutations, ThreadInit, AboutMessage
<1>7. EditsAreOfRevisions
    <2>1. NoEdit.at # "prepared"
        BY DEF NoEdit
    <2> QED
        BY <2>1 DEF ThreadInit, EditsAreOfRevisions
<1> QED
    BY <1>1, <1>4, <1>5, <1>6, <1>7 DEF ThreadInv

-----------------------------------------------------------------------------
(* The reads of a thread. *)

PageReads ==
    [at : {"reading", "done"}, view : {"page", "delta", "diff"}, from : Nat, revision : Nat,
     before : Nat, got : SUBSET (Nat \X {"body", "retracted"})]

\* The messages that a read of all pages is about.
WantedMessages(read) == IF read.view = "page" THEN InSnapshot(read) ELSE InDelta(read)
Shows(messages, revision) == {Shown(m, revision) : m \in messages}

\* What a diff of two revisions says.
Changed(from, to) ==
    {<<m, "body">> : m \in VisibleAt(to) \ VisibleAt(from)}
    \cup {<<m, "retracted">> : m \in VisibleAt(from) \ VisibleAt(to)}

ReadIsOfPast(read) ==
    /\ 1 <= read.from /\ read.from <= read.revision /\ read.revision <= thread.revision
    /\ read.at = "reading" =>
          /\ read.view # "diff"
          /\ read.got = Shows({m \in WantedMessages(read) : read.before <= m}, read.revision)
    /\ read.at = "done" =>
          read.got = IF read.view = "diff" THEN Changed(read.from, read.revision)
                     ELSE Shows(WantedMessages(read), read.revision)

ReadsInv ==
    /\ pageRead \in [Readers -> {NoPages} \cup PageReads]
    /\ \A r \in Readers : pageRead[r] # NoPages => ReadIsOfPast(pageRead[r])

LEMMA PageReadsAre ==
    \A read \in PageReads : /\ read.at \in {"reading", "done"} /\ read.from \in Nat
                            /\ read.revision \in Nat /\ read.before \in Nat
                            /\ read.view \in {"page", "delta", "diff"}
                            /\ read.got \in SUBSET (Nat \X {"body", "retracted"})
                            /\ read # NoPages
<1>1. NoPages.at = "idle"
    BY DEF NoPages
<1> QED
    BY <1>1 DEF PageReads

LEMMA NoPagesIs == NoPages.at = "idle"
BY DEF NoPages

LEMMA HeadsAre ==
    ASSUME ThreadInv, NEW n \in 1..thread.revision
    PROVE  RowAt(n).data.head \in Nat
BY RowAtIs, RevisionsAre, ThreadRowsAre DEF ThreadInv, HistoryIsKept

LEMMA PastStays ==
    ASSUME NEW n, Past(n)
    PROVE  /\ \A m : Retracted(m, n)' = Retracted(m, n) /\ Shown(m, n)' = Shown(m, n)
           /\ VisibleAt(n)' = VisibleAt(n)
<1>1. \A m : Retracted(m, n)' = Retracted(m, n)
    BY DEF Past, SeenOf, Retracted
<1>2. VisibleAt(n)' = VisibleAt(n)
    BY <1>1 DEF Past, VisibleAt
<1> QED
    BY <1>1, <1>2 DEF Shown

LEMMA ReadsOfPastStay ==
    ASSUME ThreadInv, ThreadNext \/ UNCHANGED threadVars,
           NEW read \in PageReads, ReadIsOfPast(read)
    PROVE  ReadIsOfPast(read)'
<1>1. /\ ThreadInv' /\ thread.revision <= thread'.revision
      /\ \A n \in 1..thread.revision : Past(n)
    <2>1. CASE ThreadNext
        BY <2>1, HistoryGrows
    <2>2. CASE UNCHANGED threadVars
        <3>1. UNCHANGED <<thread, revisions, visibility, editing>>
            BY <2>2 DEF threadVars
        <3>2. EditsAreOfRevisions'
            BY <3>1 DEF ThreadInv, EditsAreOfRevisions, PreparedRow
        <3>3. thread.revision <= thread'.revision
            BY <3>1, ThreadRowsAre DEF ThreadInv
        <3> QED
            BY <3>1, <3>2, <3>3, NothingWritten DEF ThreadInv
    <2> QED
        BY <2>1, <2>2
<1>2. thread.revision \in Nat /\ thread'.revision \in Nat
    BY <1>1, ThreadRowsAre DEF ThreadInv
<1>3. /\ read.from \in Nat /\ read.revision \in Nat
      /\ read.from \in 1..thread.revision /\ read.revision \in 1..thread.revision
    BY <1>2, PageReadsAre DEF ReadIsOfPast
<1>4. Past(read.from) /\ Past(read.revision)
    BY <1>1, <1>3
<1>5. WantedMessages(read)' = WantedMessages(read)
    <2>1. InSnapshot(read)' = InSnapshot(read)
        BY <1>4 DEF InSnapshot, Past
    <2>2. ASSUME NEW m
          PROVE  (\E v \in visibility : v.message = m /\ v.revision > read.from
                                        /\ v.revision <= read.revision)' <=>
                 (\E v \in visibility : v.message = m /\ v.revision > read.from
                                        /\ v.revision <= read.revision)
        BY <1>4 DEF Past, SeenOf
    <2>3. InDelta(read)' = InDelta(read)
        BY <1>4, <2>2 DEF InDelta, Past
    <2> QED
        BY <2>1, <2>3 DEF WantedMessages
<1>6. \A m : Shown(m, read.revision)' = Shown(m, read.revision)
    BY <1>4, PastStays
<1>7. Changed(read.from, read.revision)' = Changed(read.from, read.revision)
    BY <1>4, PastStays DEF Changed
<1>8. Shows(WantedMessages(read), read.revision)' = Shows(WantedMessages(read), read.revision)
    BY <1>5, <1>6 DEF Shows
<1>9. Shows({m \in WantedMessages(read) : read.before <= m}, read.revision)' =
          Shows({m \in WantedMessages(read) : read.before <= m}, read.revision)
    BY <1>5, <1>6 DEF Shows
<1>10. read.revision <= thread'.revision
    BY <1>1, <1>2, <1>3
<1> QED
    BY <1>7, <1>8, <1>9, <1>10 DEF ReadIsOfPast

LEMMA LeastOfSet ==
    ASSUME NEW S \in SUBSET Nat, S # {}
    PROVE  Min(S) \in S /\ \A n \in S : Min(S) <= n
<1>1. IsWellFoundedOn(OpToRel(<,Nat), Nat)
    BY NatLessThanWellFounded
<1>2. PICK x \in S : \A y \in S : ~ (<<y, x>> \in OpToRel(<,Nat))
    BY <1>1, WFMin
<1>3. \A y \in S : y < x => <<y, x>> \in OpToRel(<,Nat)
    BY DEF OpToRel
<1>4. ASSUME NEW y \in S PROVE x <= y
    <2>1. ~(y < x)
        BY <1>2, <1>3
    <2> QED
        BY <2>1
<1> QED
    BY <1>4 DEF Min

LEMMA GreatestIn ==
    ASSUME NEW S \in SUBSET Nat, S # {}, NEW top \in Nat, \A m \in S : m <= top
    PROVE  \E g \in S : \A m \in S : m <= g
<1> DEFINE T == {top - m : m \in S}
<1>0. \A m \in S : top - m \in Nat
    OBVIOUS
<1>1. T \in SUBSET Nat /\ T # {}
    BY <1>0
<1>2. PICK t \in T : \A u \in T : t <= u
    BY <1>1, LeastOfSet
<1>3. PICK g \in S : t = top - g
    OBVIOUS
<1>4. \A m \in S : m <= g
    <2> TAKE m \in S
    <2>1. top - g <= top - m
        BY <1>2, <1>3
    <2> QED
        BY <2>1
<1> QED
    BY <1>4

\* A page that is not all is the newest messages, from its oldest on.
LEMMA PagesAreNewest ==
    ASSUME NEW left \in SUBSET Nat, NEW top \in Nat, \A m \in left : m <= top,
           NEW page, page = {m \in left : Cardinality({n \in left : n > m}) < PageSize},
           page # left
    PROVE  Min(page) \in page /\ page = {m \in left : Min(page) <= m}
<1>1. IsFiniteSet(left)
    <2>1. left \subseteq 0..top
        OBVIOUS
    <2>2. IsFiniteSet(0..top)
        BY FS_Interval
    <2> QED
        BY <2>1, <2>2, FS_Subset
<1>2. page # {}
    <2>1. left # {}
        OBVIOUS
    <2>2. PICK g \in left : \A m \in left : m <= g
        BY <2>1, GreatestIn
    <2>3. {n \in left : n > g} = {}
        <3>1. g \in Nat /\ \A n \in left : n \in Nat /\ n <= g
            BY <2>2
        <3>2. \A a, b \in Nat : a <= b => ~(a > b)
            OBVIOUS
        <3> QED
            BY <3>1, <3>2
    <2>4. Cardinality({n \in left : n > g}) = 0
        BY <2>3, FS_EmptySet
    <2>5. 0 < PageSize
        BY PagesAssumption
    <2> QED
        BY <2>2, <2>4, <2>5
<1>3. Min(page) \in page /\ \A m \in page : Min(page) <= m
    BY <1>2, LeastOfSet
<1>4. ASSUME NEW m \in left, Min(page) <= m
      PROVE  m \in page
    <2> DEFINE above == {n \in left : n > m}
               beyond == {n \in left : n > Min(page)}
    <2>1. above \subseteq beyond
        <3>1. \A a, b, c \in Nat : a <= b /\ c > b => c > a
            OBVIOUS
        <3>2. Min(page) \in Nat /\ m \in Nat /\ \A n \in left : n \in Nat
            BY <1>3
        <3> QED
            BY <1>4, <3>1, <3>2
    <2>2. IsFiniteSet(above) /\ IsFiniteSet(beyond)
        BY <1>1, FS_Subset
    <2>3. Cardinality(above) <= Cardinality(beyond)
        BY <2>1, <2>2, FS_Subset
    <2>4. Cardinality(beyond) < PageSize
        BY <1>3
    <2>5. Cardinality(above) \in Nat /\ Cardinality(beyond) \in Nat
        BY <2>2, FS_CardinalityType
    <2>6. Cardinality(above) < PageSize
        BY <2>3, <2>4, <2>5, PagesAssumption
    <2> QED
        BY <2>6
<1> QED
    BY <1>3, <1>4

LEMMA WantedAre ==
    ASSUME ThreadInv, NEW read \in PageReads, ReadIsOfPast(read)
    PROVE  /\ RowAt(read.revision).data.head \in Nat
           /\ WantedMessages(read) \subseteq 1..RowAt(read.revision).data.head
<1>1. thread.revision \in Nat
    BY ThreadRowsAre DEF ThreadInv
<1>2. read.revision \in 1..thread.revision
    BY <1>1, PageReadsAre DEF ReadIsOfPast
<1> QED
    BY <1>2, HeadsAre DEF WantedMessages, InSnapshot, InDelta

LEMMA ShowsAre ==
    ASSUME NEW messages \in SUBSET Nat, NEW n
    PROVE  Shows(messages, n) \in SUBSET (Nat \X {"body", "retracted"})
<1>1. ASSUME NEW m \in messages PROVE Shown(m, n) \in Nat \X {"body", "retracted"}
    <2>1. CASE Retracted(m, n)
        BY <2>1 DEF Shown
    <2>2. CASE ~Retracted(m, n)
        BY <2>2 DEF Shown
    <2> QED
        BY <2>1, <2>2
<1> QED
    BY <1>1 DEF Shows

\* The first page asks for all, and each page for what the ones before left.
LEMMA PageKeeps ==
    ASSUME ThreadInv, NEW read \in PageReads, ReadIsOfPast(read), read.at = "reading",
           NEW left, left = {m \in WantedMessages(read) : m < read.before},
           NEW page, page = {m \in left : Cardinality({n \in left : n > m}) < PageSize},
           NEW next,
           next = [read EXCEPT !.at = IF page = left THEN "done" ELSE "reading",
                               !.before = IF page = left THEN 0 ELSE Min(page),
                               !.got = @ \cup {Shown(m, read.revision) : m \in page}]
    PROVE  next \in PageReads /\ ReadIsOfPast(next)
<1> DEFINE top == RowAt(read.revision).data.head
<1>1. top \in Nat /\ WantedMessages(read) \subseteq 1..top
    BY WantedAre
<1> HIDE DEF top
<1>2. left \in SUBSET Nat /\ (\A m \in left : m <= top) /\ page \subseteq left
    BY <1>1
<1>3. read.before \in Nat /\ read.view # "diff"
    BY PageReadsAre DEF ReadIsOfPast
<1>4. read.got = Shows({m \in WantedMessages(read) : read.before <= m}, read.revision)
    BY DEF ReadIsOfPast
<1>5. read.got \cup {Shown(m, read.revision) : m \in page}
          = Shows({m \in WantedMessages(read) : read.before <= m} \cup page, read.revision)
    BY <1>4 DEF Shows
<1>6. {m \in WantedMessages(read) : read.before <= m} \cup page \in SUBSET Nat
    BY <1>1, <1>2
<1>7. read.got \cup {Shown(m, read.revision) : m \in page}
          \in SUBSET (Nat \X {"body", "retracted"})
    BY <1>5, <1>6, ShowsAre
<1>8. ASSUME NEW at \in {"reading", "done"}, NEW before \in Nat,
             NEW got \in SUBSET (Nat \X {"body", "retracted"}),
             next = [read EXCEPT !.at = at, !.before = before, !.got = got]
      PROVE  /\ next \in PageReads /\ next.at = at /\ next.before = before /\ next.got = got
             /\ next.view = read.view /\ next.from = read.from
             /\ next.revision = read.revision /\ WantedMessages(next) = WantedMessages(read)
    <2>1. /\ next \in PageReads /\ next.at = at /\ next.before = before /\ next.got = got
          /\ next.view = read.view /\ next.from = read.from /\ next.revision = read.revision
        BY <1>8 DEF PageReads
    <2> QED
        BY <2>1 DEF WantedMessages, InSnapshot, InDelta
<1>9. CASE page = left
    <2>1. {m \in WantedMessages(read) : read.before <= m} \cup page = WantedMessages(read)
        BY <1>1, <1>3, <1>9
    <2>2. next = [read EXCEPT !.at = "done", !.before = 0,
                              !.got = Shows(WantedMessages(read), read.revision)]
        BY <1>5, <1>9, <2>1
    <2>3. /\ next \in PageReads /\ next.at = "done" /\ next.view = read.view
          /\ next.got = Shows(WantedMessages(read), read.revision) /\ next.from = read.from
          /\ next.revision = read.revision /\ WantedMessages(next) = WantedMessages(read)
        <3>1. Shows(WantedMessages(read), read.revision) \in SUBSET (Nat \X {"body", "retracted"})
            BY <1>5, <1>7, <2>1
        <3>2. "done" \in {"reading", "done"} /\ 0 \in Nat
            OBVIOUS
        <3>3. PICK got : got = Shows(WantedMessages(read), read.revision)
            OBVIOUS
        <3>4. got \in SUBSET (Nat \X {"body", "retracted"})
            BY <3>1, <3>3
        <3>5. next = [read EXCEPT !.at = "done", !.before = 0, !.got = got]
            BY <2>2, <3>3
        <3> HIDE DEF top
        <3>6. /\ next \in PageReads /\ next.at = "done" /\ next.view = read.view
              /\ next.got = got /\ next.from = read.from
              /\ next.revision = read.revision /\ WantedMessages(next) = WantedMessages(read)
            BY ONLY <1>8, <3>2, <3>4, <3>5
        <3> QED
            BY <3>3, <3>6
    <2> QED
        BY <1>3, <2>3 DEF ReadIsOfPast
<1>10. CASE page # left
    <2>1. Min(page) \in page /\ page = {m \in left : Min(page) <= m}
        <3>1. page = {m \in left : Cardinality({n \in left : n > m}) < PageSize}
            OBVIOUS
        <3> HIDE DEF top
        <3>2. left \in SUBSET Nat /\ top \in Nat /\ \A m \in left : m <= top
            BY <1>1, <1>2
        <3> QED
            BY ONLY <3>1, <3>2, <1>10, PagesAreNewest
    <2>2. Min(page) \in Nat /\ Min(page) < read.before
        BY <1>2, <2>1
    <2>3. {m \in WantedMessages(read) : read.before <= m} \cup page
              = {m \in WantedMessages(read) : Min(page) <= m}
        <3>1. \A a, b, c \in Nat : (a < b /\ b <= c => a <= c) /\ (b <= c \/ c < b)
            OBVIOUS
        <3>2. \A m \in WantedMessages(read) : m \in Nat
            BY <1>1
        <3> QED
            BY <1>3, <2>1, <2>2, <3>1, <3>2
    <2>4. next = [read EXCEPT !.at = "reading", !.before = Min(page),
                      !.got = Shows({m \in WantedMessages(read) : Min(page) <= m}, read.revision)]
        BY <1>5, <1>10, <2>3
    <2>5. /\ next \in PageReads /\ next.at = "reading" /\ next.before = Min(page)
          /\ next.got = Shows({m \in WantedMessages(read) : Min(page) <= m}, read.revision)
          /\ next.view = read.view /\ next.from = read.from
          /\ next.revision = read.revision /\ WantedMessages(next) = WantedMessages(read)
        <3>1. Shows({m \in WantedMessages(read) : Min(page) <= m}, read.revision)
                  \in SUBSET (Nat \X {"body", "retracted"})
            BY <1>5, <1>7, <2>3
        <3>2. "reading" \in {"reading", "done"} /\ Min(page) \in Nat
            BY <2>2
        <3>3. PICK got : got = Shows({m \in WantedMessages(read) : Min(page) <= m}, read.revision)
            OBVIOUS
        <3>4. got \in SUBSET (Nat \X {"body", "retracted"})
            BY <3>1, <3>3
        <3>5. PICK before \in Nat : before = Min(page)
            BY <3>2
        <3>6. next = [read EXCEPT !.at = "reading", !.before = before, !.got = got]
            BY <2>4, <3>3, <3>5
        <3>7. /\ next \in PageReads /\ next.at = "reading" /\ next.before = before
              /\ next.got = got /\ next.view = read.view /\ next.from = read.from
              /\ next.revision = read.revision /\ WantedMessages(next) = WantedMessages(read)
            BY ONLY <1>8, <3>2, <3>4, <3>6
        <3> QED
            BY <3>3, <3>5, <3>7
    <2> QED
        BY <1>3, <2>5, ZenonT(40) DEF ReadIsOfPast
<1> QED
    BY <1>9, <1>10

LEMMA ReadsStep ==
    ASSUME ThreadInv, ReadsInv, [ThreadNext]_threadVars
    PROVE  ReadsInv'
<1> USE DEF ReadsInv
<1>1. \A r \in Readers : pageRead[r] # NoPages =>
          /\ pageRead[r] \in PageReads /\ ReadIsOfPast(pageRead[r])
    OBVIOUS
<1>2. \A read \in PageReads : ReadIsOfPast(read) => ReadIsOfPast(read)'
    BY ReadsOfPastStay
<1>3. thread.revision \in Nat /\ thread.revision <= thread.revision
    <2>1. thread.revision \in Nat
        BY ThreadRowsAre DEF ThreadInv
    <2> QED
        BY <2>1
<1>4. ASSUME NEW r \in Readers, NEW next \in PageReads, ReadIsOfPast(next),
             pageRead' = [pageRead EXCEPT ![r] = next]
      PROVE  ReadsInv'
    <2>1. pageRead' \in [Readers -> {NoPages} \cup PageReads]
        BY <1>4
    <2>2. ReadIsOfPast(next)'
        BY <1>2, <1>4
    <2>3. ASSUME NEW q \in Readers, pageRead'[q] # NoPages PROVE ReadIsOfPast(pageRead[q])'
        <3>1. PICK read : read = pageRead'[q]
            OBVIOUS
        <3>2. ReadIsOfPast(read)'
            <4>1. CASE q = r
                BY <1>4, <2>2, <3>1, <4>1
            <4>2. CASE q # r
                BY <1>1, <1>2, <1>4, <2>3, <3>1, <4>2
            <4> QED
                BY <4>1, <4>2
        <3> QED
            BY <3>1, <3>2
    <2> QED
        BY <2>1, <2>3
<1>5. ASSUME NEW r \in Readers, ReadThread(r) PROVE ReadsInv'
    <2> DEFINE read == pageRead[r]
               left == {m \in WantedMessages(read) : m < read.before}
               page == {m \in left : Cardinality({n \in left : n > m}) < PageSize}
               next == [read EXCEPT !.at = IF page = left THEN "done" ELSE "reading",
                                    !.before = IF page = left THEN 0 ELSE Min(page),
                                    !.got = @ \cup {Shown(m, read.revision) : m \in page}]
    <2>1. read.at = "reading" /\ read # NoPages
        BY <1>5, NoPagesIs DEF ReadThread
    <2>2. read \in PageReads /\ ReadIsOfPast(read)
        BY <1>1, <2>1
    <2>3. pageRead' = [pageRead EXCEPT ![r] = next]
        BY <1>5 DEF ReadThread, Pinned, WantedMessages
    <2> HIDE DEF read
    <2>4. next \in PageReads /\ ReadIsOfPast(next)
        BY <2>1, <2>2, PageKeeps
    <2> HIDE DEF next
    <2> QED
        BY <1>4, <2>3, <2>4
<1>6. ASSUME NEW r \in Readers, NEW from \in 1..MaxRevision, DiffThread(r, from)
      PROVE  ReadsInv'
    <2> DEFINE next == [at |-> "done", view |-> "diff", from |-> from,
                        revision |-> thread.revision, before |-> 0, got |-> Differences(from)]
    <2>1. from \in Nat /\ 1 <= from /\ from <= thread.revision
        BY <1>6, PagesAssumption DEF DiffThread
    <2>2. Differences(from) = Changed(from, thread.revision)
        BY DEF Differences, Changed
    <2>3. Differences(from) \in SUBSET (Nat \X {"body", "retracted"})
        <3>1. from \in 1..thread.revision /\ thread.revision \in 1..thread.revision
            BY <1>3, <2>1
        <3>2. VisibleAt(from) \in SUBSET Nat /\ VisibleAt(thread.revision) \in SUBSET Nat
            BY <3>1, HeadsAre DEF VisibleAt
        <3> QED
            BY <2>2, <3>2 DEF Changed
    <2>4. next \in PageReads
        BY <1>3, <2>1, <2>3 DEF PageReads
    <2>5. ReadIsOfPast(next)
        BY <1>3, <2>1, <2>2 DEF ReadIsOfPast
    <2>6. pageRead' = [pageRead EXCEPT ![r] = next]
        BY <1>6 DEF DiffThread
    <2> QED
        BY <1>4, <2>4, <2>5, <2>6
<1>7. ASSUME NEW r \in Readers, NEW view \in {"page", "delta"},
             NEW from \in 1..MaxRevision, NEW revision \in 1..MaxRevision,
             StartRead(r, view, from, revision)
      PROVE  ReadsInv'
    <2> DEFINE next == [at |-> "reading", view |-> view, from |-> from, revision |-> revision,
                        before |-> RowAt(revision).data.head + 1, got |-> {}]
    <2>1. /\ from \in Nat /\ revision \in Nat /\ 1 <= from /\ from <= revision
          /\ revision <= thread.revision
        BY <1>7, PagesAssumption DEF StartRead
    <2>2. revision \in 1..thread.revision
        BY <1>3, <2>1
    <2>3. RowAt(revision).data.head \in Nat
        BY <2>2, HeadsAre
    <2>4. next \in PageReads
        BY <2>1, <2>3 DEF PageReads
    <2>5. next.view # "diff" /\ next.before = RowAt(revision).data.head + 1 /\ next.got = {}
          /\ next.from = from /\ next.revision = revision /\ next.at = "reading"
        OBVIOUS
    <2> HIDE DEF next
    <2>6. WantedMessages(next) \subseteq 1..RowAt(revision).data.head
        BY <2>5 DEF WantedMessages, InSnapshot, InDelta
    <2>7. {m \in WantedMessages(next) : next.before <= m} = {}
        BY <2>3, <2>5, <2>6
    <2>8. ReadIsOfPast(next)
        BY <2>1, <2>5, <2>7 DEF ReadIsOfPast, Shows
    <2>9. pageRead' = [pageRead EXCEPT ![r] = next]
        BY <1>7 DEF StartRead, next
    <2> QED
        BY <1>4, <2>4, <2>8, <2>9
<1>8. ASSUME pageRead' = pageRead PROVE ReadsInv'
    <2>1. ASSUME NEW q \in Readers, pageRead'[q] # NoPages PROVE ReadIsOfPast(pageRead[q])'
        <3>1. PICK read : read = pageRead'[q]
            OBVIOUS
        <3>2. ReadIsOfPast(read)'
            BY <1>1, <1>2, <1>8, <2>1, <3>1
        <3> QED
            BY <3>1, <3>2
    <2> QED
        BY <1>8, <2>1
<1>9. ASSUME NEW e \in Editors,
             WriteEdit(e) \/ AbandonEdit(e) \/ \E mutation \in Mutations : PrepareEdit(e, mutation)
      PROVE  pageRead' = pageRead
    BY <1>9 DEF WriteEdit, AbandonEdit, PrepareEdit
<1>10. CASE UNCHANGED threadVars
    BY <1>8, <1>10 DEF threadVars
<1> QED
    BY <1>5, <1>6, <1>7, <1>8, <1>9, <1>10 DEF ThreadNext

-----------------------------------------------------------------------------
(* What a read shows is what was done. *)

LEMMA VisibleIs ==
    \A row : /\ Visible(row).message = row.mutation.message
            /\ Visible(row).revision = row.revision
            /\ Visible(row).visible = (row.mutation.kind = "reinstateMessage")
BY DEF Visible

\* A message is hidden where the query finds it so.
LEMMA HiddenIsRetracted ==
    ASSUME ThreadInv, NEW n \in 1..thread.revision, NEW m \in 1..MaxRevision
    PROVE  m \in HiddenAt(n) <=> Retracted(m, n)
<1> DEFINE about == {row \in revisions : row.revision <= n /\ "message" \in DOMAIN row.mutation
                                          /\ row.mutation.message = m}
           seen == {v \in visibility : v.message = m /\ v.revision <= n}
<1>1. \A row \in revisions : /\ row.mutation \in Mutations \cup {FirstMutation}
                             /\ row.mutation.kind \in AboutMessage <=>
                                   "message" \in DOMAIN row.mutation
    BY RevisionsAre, MutationsAre, FirstIs DEF ThreadInv, HistoryIsKept, AboutMessage
<1>2. seen = {Visible(row) : row \in about}
    <2>1. ASSUME NEW row \in about PROVE Visible(row) \in seen
        BY <1>1, VisibleIs DEF ThreadInv, VisibilityIsOfMutations
    <2>2. ASSUME NEW v \in seen PROVE \E row \in about : v = Visible(row)
        <3>1. PICK row \in revisions : row.mutation.kind \in AboutMessage /\ v = Visible(row)
            BY DEF ThreadInv, VisibilityIsOfMutations
        <3> QED
            BY <1>1, <3>1, VisibleIs
    <2> QED
        BY <2>1, <2>2
<1>3. \A row \in about : row.mutation.kind = "retractMessage" <=> ~Visible(row).visible
    BY <1>1, VisibleIs DEF AboutMessage
<1>4. m \in HiddenAt(n) <=>
          \E row \in about : row.mutation.kind = "retractMessage"
                             /\ \A other \in about : other.revision <= row.revision
    BY DEF HiddenAt
<1>5. Retracted(m, n) <=> \E v \in seen : ~v.visible /\ \A u \in seen : u.revision <= v.revision
    BY DEF Retracted
<1> HIDE DEF about, seen
<1>6. ASSUME NEW row \in about
      PROVE  (\A other \in about : other.revision <= row.revision) <=>
             (\A u \in seen : u.revision <= Visible(row).revision)
    BY <1>2, VisibleIs
<1> QED
    BY <1>2, <1>3, <1>4, <1>5, <1>6

\* What the thread looked like is what the messages of its row show.
LEMMA LooksAre ==
    ASSUME ThreadInv, NEW n \in 1..thread.revision
    PROVE  LooksAt(n) = [m \in 1..RowAt(n).data.head |->
                            IF Retracted(m, n) THEN "retracted" ELSE "body"]
<1>1. /\ RowAt(n) \in revisions /\ RowAt(n).revision = n /\ RowAt(n).data.head \in Nat
      /\ thread.revision \in Nat
    BY RowAtIs, HeadsAre, ThreadRowsAre DEF ThreadInv
<1>2. RowAt(n).data.head = Cardinality(Kinds("appendMessage", n)) /\ RowAt(n).data.head < n
    BY <1>1 DEF ThreadInv, HeadsCount
<1>3. \A m \in 1..RowAt(n).data.head : m \in 1..MaxRevision
    <2>1. n > 1 => n <= MaxRevision
        BY <1>1 DEF ThreadInv, HistoryIsKept
    <2>2. n = 1 => RowAt(n).data.head = 0
        BY <1>1 DEF ThreadInv, HistoryIsKept
    <2> QED
        BY <1>1, <1>2, <2>1, <2>2, PagesAssumption
<1>4. \A m \in 1..RowAt(n).data.head : m \in HiddenAt(n) <=> Retracted(m, n)
    BY <1>3, HiddenIsRetracted
<1> QED
    BY <1>2, <1>4 DEF LooksAt

LEMMA HeadsGrow ==
    ASSUME ThreadInv, NEW a \in 1..thread.revision, NEW b \in 1..thread.revision, a <= b
    PROVE  RowAt(a).data.head <= RowAt(b).data.head
<1>1. /\ RowAt(a) \in revisions /\ RowAt(a).revision = a
      /\ RowAt(b) \in revisions /\ RowAt(b).revision = b
    BY RowAtIs DEF ThreadInv
<1>2. /\ RowAt(a).data.head = Cardinality(Kinds("appendMessage", a))
      /\ RowAt(b).data.head = Cardinality(Kinds("appendMessage", b))
    BY <1>1 DEF ThreadInv, HeadsCount
<1>3. thread.revision \in Nat /\ \A row \in revisions : row.revision \in Nat
    BY RevisionsAre, ThreadRowsAre DEF ThreadInv, HistoryIsKept
<1>4. Kinds("appendMessage", a) \subseteq Kinds("appendMessage", b)
    BY <1>3 DEF Kinds
<1>5. IsFiniteSet(Kinds("appendMessage", b))
    <2>1. Kinds("appendMessage", b) \subseteq revisions
        BY DEF Kinds
    <2> QED
        BY <2>1, FS_Subset DEF ThreadInv, HistoryIsKept
<1> QED
    BY <1>2, <1>4, <1>5, FS_Subset

\* The same messages, gathered as they were read.
LEMMA GatheredAre ==
    ASSUME NEW messages, NEW shown, NEW gathered,
           \A g \in gathered : \E m \in messages : g = <<m, shown[m]>>,
           \A m \in messages : <<m, shown[m]>> \in gathered
    PROVE  /\ \A g, h \in gathered : g[1] = h[1] => g = h
           /\ \A g \in gathered : g[1] \in messages /\ g[2] = shown[g[1]]
           /\ \A m \in messages : \E g \in gathered : g[1] = m
<1>1. ASSUME NEW g \in gathered
      PROVE  g[1] \in messages /\ g = <<g[1], shown[g[1]]>> /\ g[2] = shown[g[1]]
    <2>1. PICK m \in messages : g = <<m, shown[m]>>
        OBVIOUS
    <2> QED
        BY <2>1
<1>2. \A m \in messages : <<m, shown[m]>> \in gathered /\ <<m, shown[m]>>[1] = m
    OBVIOUS
<1>3. \A g, h \in gathered : g[1] = h[1] => g = h
    BY <1>1
<1> QED
    BY <1>1, <1>2, <1>3

LEMMA ReadsShow ==
    ASSUME ThreadInv, NEW read \in PageReads, ReadIsOfPast(read), read.at = "done"
    PROVE  LET known == IF read.view = "page" THEN <<>> ELSE LooksAt(read.from)
               got == [m \in {g[1] : g \in read.got} |-> (CHOOSE g \in read.got : g[1] = m)[2]]
               all == [m \in DOMAIN known \cup DOMAIN got |->
                          IF m \in DOMAIN got THEN got[m] ELSE known[m]]
               looks == LooksAt(read.revision)
           IN /\ \A g, h \in read.got : g[1] = h[1] => g = h
              /\ IF read.view = "diff"
                 THEN {m \in DOMAIN all : all[m] = "body"} = {m \in DOMAIN looks : looks[m] = "body"}
                 ELSE all = looks
<1> DEFINE known == IF read.view = "page" THEN <<>> ELSE LooksAt(read.from)
           got == [m \in {g[1] : g \in read.got} |-> (CHOOSE g \in read.got : g[1] = m)[2]]
           all == [m \in DOMAIN known \cup DOMAIN got |->
                      IF m \in DOMAIN got THEN got[m] ELSE known[m]]
           looks == LooksAt(read.revision)
           from == read.from
           to == read.revision
           old == RowAt(from).data.head
           top == RowAt(to).data.head
<1>1. thread.revision \in Nat
    BY ThreadRowsAre DEF ThreadInv
<1>2. from \in 1..thread.revision /\ to \in 1..thread.revision /\ from <= to
    BY <1>1, PageReadsAre DEF ReadIsOfPast
<1>3. old \in Nat /\ top \in Nat /\ old <= top
    BY <1>2, HeadsAre, HeadsGrow
<1>4. /\ looks = [m \in 1..top |-> IF Retracted(m, to) THEN "retracted" ELSE "body"]
      /\ LooksAt(from) = [m \in 1..old |-> IF Retracted(m, from) THEN "retracted" ELSE "body"]
    BY <1>2, LooksAre
<1> HIDE DEF old, top
<1>5. CASE read.view = "diff"
    <2> DEFINE before == VisibleAt(from)
               later == VisibleAt(to)
               messages == (later \ before) \cup (before \ later)
               shown == [m \in messages |-> IF m \in later THEN "body" ELSE "retracted"]
    <2>1. /\ before = {m \in 1..old : ~Retracted(m, from)}
          /\ later = {m \in 1..top : ~Retracted(m, to)}
        BY DEF VisibleAt, old, top
    <2>2. read.got = {<<m, "body">> : m \in later \ before}
                     \cup {<<m, "retracted">> : m \in before \ later}
        BY <1>5 DEF ReadIsOfPast, Changed
    <2>3. read.got = {<<m, shown[m]>> : m \in messages}
        BY <2>2
    <2> HIDE DEF before, later
    <2>4. /\ \A g, h \in read.got : g[1] = h[1] => g = h
          /\ got = [m \in messages |-> shown[m]]
        <3> HIDE DEF messages, shown
        <3>1. /\ \A g \in read.got : \E m \in messages : g = <<m, shown[m]>>
              /\ \A m \in messages : <<m, shown[m]>> \in read.got
            BY <2>3
        <3>2. /\ \A g, h \in read.got : g[1] = h[1] => g = h
              /\ \A g \in read.got : g[1] \in messages /\ g[2] = shown[g[1]]
              /\ \A m \in messages : \E g \in read.got : g[1] = m
            BY ONLY <3>1, GatheredAre
        <3>3. {g[1] : g \in read.got} = messages
            BY <3>2
        <3>4. ASSUME NEW m \in messages
              PROVE  (CHOOSE g \in read.got : g[1] = m)[2] = shown[m]
            <4>1. \E g \in read.got : g[1] = m
                BY <3>2
            <4> QED
                BY <4>1, <3>2
        <3> QED
            BY <3>2, <3>3, <3>4 DEF got
    <2>5. DOMAIN got = messages
          /\ \A m \in messages : got[m] = IF m \in later THEN "body" ELSE "retracted"
        BY <2>4
    <2>6. /\ DOMAIN known = 1..old
          /\ \A m \in 1..old : known[m] = IF Retracted(m, from) THEN "retracted" ELSE "body"
        BY <1>4, <1>5
    <2> HIDE DEF known, got
    <2>7. {m \in DOMAIN looks : looks[m] = "body"} = later
        BY <1>4, <2>1
    <2>8. /\ DOMAIN all = (1..old) \cup messages
          /\ \A m \in DOMAIN all : all[m] = IF m \in messages THEN got[m] ELSE known[m]
        BY <2>5, <2>6
    <2> HIDE DEF all, looks
    <2>9. ASSUME NEW m PROVE m \in DOMAIN all /\ all[m] = "body" <=> m \in later
        <3>1. CASE m \in messages
            BY <3>1, <2>5, <2>8
        <3>2. CASE m \notin messages
            BY <3>2, <2>1, <2>6, <2>8
        <3> QED
            BY <3>1, <3>2
    <2>10. {m \in DOMAIN all : all[m] = "body"} = later
        BY <2>9
    <2> QED
        BY <1>5, <2>4, <2>7, <2>10 DEF all, looks, known, got
<1>6. CASE read.view # "diff"
    <2> DEFINE messages == WantedMessages(read)
               shown == [m \in messages |-> IF Retracted(m, to) THEN "retracted" ELSE "body"]
    <2>1. read.got = {<<m, shown[m]>> : m \in messages}
        BY <1>6 DEF ReadIsOfPast, Shows, Shown
    <2> HIDE DEF messages
    <2>2. /\ \A g, h \in read.got : g[1] = h[1] => g = h
          /\ got = [m \in messages |-> shown[m]]
        <3> HIDE DEF shown
        <3>1. /\ \A g \in read.got : \E m \in messages : g = <<m, shown[m]>>
              /\ \A m \in messages : <<m, shown[m]>> \in read.got
            BY <2>1
        <3>2. /\ \A g, h \in read.got : g[1] = h[1] => g = h
              /\ \A g \in read.got : g[1] \in messages /\ g[2] = shown[g[1]]
              /\ \A m \in messages : \E g \in read.got : g[1] = m
            BY ONLY <3>1, GatheredAre
        <3>3. {g[1] : g \in read.got} = messages
            BY <3>2
        <3>4. ASSUME NEW m \in messages
              PROVE  (CHOOSE g \in read.got : g[1] = m)[2] = shown[m]
            <4>1. \E g \in read.got : g[1] = m
                BY <3>2
            <4> QED
                BY <4>1, <3>2
        <3> QED
            BY <3>2, <3>3, <3>4 DEF got
    <2>3. /\ DOMAIN got = messages
          /\ \A m \in messages : got[m] = IF Retracted(m, to) THEN "retracted" ELSE "body"
        BY <2>2
    <2> HIDE DEF got
    <2>4. CASE read.view = "page"
        <3>1. messages = 1..top
            BY <2>4 DEF messages, WantedMessages, InSnapshot, top
        <3>2. DOMAIN known = {}
            BY <2>4
        <3> HIDE DEF known
        <3>3. all = [m \in 1..top |-> got[m]]
            BY <3>1, <3>2, <2>3
        <3>4. all = looks
            BY <3>1, <3>3, <2>3, <1>4
        <3> QED
            BY <1>6, <2>2, <3>4 DEF got, known
    <2>5. CASE read.view # "page"
        <3>1. messages = {m \in 1..top : \/ m > old
                                        \/ \E v \in visibility : v.message = m
                                              /\ v.revision > from /\ v.revision <= to}
            BY <2>5 DEF messages, WantedMessages, InDelta, top, old
        <3>2. known = [m \in 1..old |-> IF Retracted(m, from) THEN "retracted" ELSE "body"]
            BY <2>5, <1>4
        <3>3. ASSUME NEW m \in (1..top) \ messages
              PROVE  m \in 1..old /\ (Retracted(m, from) <=> Retracted(m, to))
            <4>1. m \in 1..old
                BY <1>3, <3>1
            <4>2. \A v \in visibility : v.revision \in Nat
                BY RevisionsAre, VisibleIs
                   DEF ThreadInv, VisibilityIsOfMutations, HistoryIsKept
            <4>3. from \in Nat /\ to \in Nat
                BY <1>1, <1>2
            <4>4. \A v \in visibility : v.message = m =>
                      (v.revision <= to <=> v.revision <= from)
                <5> DEFINE late(v) == v.message = m /\ v.revision > from /\ v.revision <= to
                <5>1. \A v \in visibility : ~late(v)
                    BY <3>1
                <5>2. \A x \in Nat : (x <= from => x <= to) /\ (x <= from \/ x > from)
                    BY <4>3, <1>2
                <5> QED
                    BY <4>2, <5>1, <5>2
            <4>5. {v \in visibility : v.message = m /\ v.revision <= to} =
                      {v \in visibility : v.message = m /\ v.revision <= from}
                BY <4>4
            <4> QED
                BY <4>1, <4>5 DEF Retracted
        <3>4. messages \subseteq 1..top /\ 1..old \subseteq 1..top
            BY <3>1, <1>3
        <3> HIDE DEF known
        <3>5. DOMAIN known \cup DOMAIN got = 1..top
            BY <3>2, <3>3, <3>4, <2>3
        <3>6. ASSUME NEW m \in 1..top
              PROVE  (IF m \in DOMAIN got THEN got[m] ELSE known[m])
                         = IF Retracted(m, to) THEN "retracted" ELSE "body"
            BY <3>2, <3>3, <2>3
        <3>7. all = looks
            BY <3>5, <3>6, <1>4
        <3> QED
            BY <1>6, <2>2, <3>7 DEF got, known
    <2> QED
        BY <2>4, <2>5
<1> QED
    BY <1>5, <1>6

THEOREM ThreadsStayWhole == ThreadSpec => []ThreadsAreWhole
<1>1. ThreadInit => ThreadInv /\ ReadsInv
    <2>1. ThreadInit => ReadsInv
        BY DEF ThreadInit, ReadsInv
    <2> QED
        BY <2>1, ThreadBegins
<1>2. ThreadInv /\ ReadsInv /\ [ThreadNext]_threadVars => (ThreadInv /\ ReadsInv)'
    <2> SUFFICES ASSUME ThreadInv, ReadsInv, [ThreadNext]_threadVars PROVE ThreadInv' /\ ReadsInv'
        OBVIOUS
    <2>1. ThreadInv'
        <3>1. CASE ThreadNext
            BY <3>1, HistoryGrows
        <3>2. CASE UNCHANGED threadVars
            <4>1. UNCHANGED <<thread, revisions, visibility, editing>>
                BY <3>2 DEF threadVars
            <4>2. EditsAreOfRevisions'
                BY <4>1 DEF ThreadInv, EditsAreOfRevisions, PreparedRow
            <4> QED
                BY <4>1, <4>2, NothingWritten DEF ThreadInv
        <3> QED
            BY <3>1, <3>2
    <2> QED
        BY <2>1, ReadsStep
<1>3. ThreadInv /\ ReadsInv => ThreadsAreWhole
    <2> SUFFICES ASSUME ThreadInv, ReadsInv PROVE ThreadsAreWhole
        OBVIOUS
    <2>1. NoEditIsLost
        BY DEF ThreadInv, HistoryIsKept, NoEditIsLost
    <2>2. ReadsShowOneRevision
        <3>1. \A r \in Readers : pageRead[r].at = "done" =>
                  pageRead[r] \in PageReads /\ ReadIsOfPast(pageRead[r])
            BY NoPagesIs DEF ReadsInv
        <3> QED
            BY <3>1, ReadsShow DEF ReadsShowOneRevision
    <2> QED
        BY <2>1, <2>2 DEF ThreadsAreWhole
<1> QED
    BY <1>1, <1>2, <1>3, PTL DEF ThreadSpec

-----------------------------------------------------------------------------
(* Lists that are taken page by page. *)

Entry == [id : Nat, date : Nat, priority : {0, 1}]

\* A set of entries that a list may have: no two of one id.
Listable(S) == S \in SUBSET Entry /\ IsFiniteSet(S) /\ \A x, y \in S : x.id = y.id => x = y

LEMMA PrecedesIsOrder ==
    /\ \A x \in Entry : ~Precedes(x, x)
    /\ \A x, y \in Entry : ~(Precedes(x, y) /\ Precedes(y, x))
    /\ \A x, y, z \in Entry : Precedes(x, y) /\ Precedes(y, z) => Precedes(x, z)
    /\ \A x, y \in Entry : x.id # y.id => Precedes(x, y) \/ Precedes(y, x)
<1>1. \A x \in Entry : x.id \in Nat /\ x.date \in Nat /\ x.priority \in Nat
    BY DEF Entry
<1>2. CASE NewestFirst
    BY <1>1, <1>2 DEF Precedes
<1>3. CASE ~NewestFirst
    BY <1>1, <1>3 DEF Precedes
<1> QED
    BY <1>2, <1>3

LEMMA SubsetsAreListable == ASSUME NEW S, Listable(S), NEW T \in SUBSET S PROVE Listable(T)
BY FS_Subset DEF Listable

\* The place of an entry is known by those before it: a set can be put in order.
LEMMA OrderExists ==
    ASSUME NEW S, Listable(S)
    PROVE  \E q \in SetToSeqs(S) : \A i, j \in DOMAIN q : i < j => ~Precedes(q[j], q[i])
<1> DEFINE n == Cardinality(S)
           before(x) == {y \in S : Precedes(y, x)}
           place == [x \in S |-> Cardinality(before(x)) + 1]
<1>1. n \in Nat /\ IsFiniteSet(S) /\ S \in SUBSET Entry
    BY FS_CardinalityType DEF Listable
<1>2. ASSUME NEW x \in S
      PROVE  IsFiniteSet(before(x)) /\ Cardinality(before(x)) \in Nat
             /\ Cardinality(before(x)) < n
    <2>1. IsFiniteSet(before(x)) /\ before(x) \subseteq S \ {x}
        BY <1>1, FS_Subset, PrecedesIsOrder
    <2>2. Cardinality(S \ {x}) = n - 1 /\ IsFiniteSet(S \ {x})
        BY <1>1, FS_RemoveElement
    <2>3. Cardinality(before(x)) <= n - 1
        BY <2>1, <2>2, FS_Subset
    <2>4. Cardinality(before(x)) \in Nat
        BY <2>1, FS_CardinalityType
    <2> QED
        BY <1>1, <2>1, <2>3, <2>4
<1>3. ASSUME NEW x \in S, NEW y \in S, Precedes(x, y)
      PROVE  Cardinality(before(x)) < Cardinality(before(y))
    <2>1. before(x) \cup {x} \subseteq before(y)
        BY <1>1, <1>3, PrecedesIsOrder
    <2>2. x \notin before(x)
        BY <1>1, PrecedesIsOrder
    <2>3. Cardinality(before(x) \cup {x}) = Cardinality(before(x)) + 1
        BY <1>2, <2>2, FS_AddElement
    <2>4. Cardinality(before(x) \cup {x}) <= Cardinality(before(y))
        BY <1>2, <2>1, FS_Subset
    <2> QED
        <3>1. Cardinality(before(x)) \in Nat /\ Cardinality(before(y)) \in Nat
            BY <1>2
        <3>2. \A a, b \in Nat : a + 1 <= b => a < b
            OBVIOUS
        <3>3. Cardinality(before(x)) + 1 <= Cardinality(before(y))
            BY <2>3, <2>4
        <3> HIDE DEF before
        <3> QED
            BY <3>1, <3>2, <3>3
<1>4. place \in [S -> 1..n] /\ \A x \in S : place[x] \in Nat
    <2>1. \A a \in Nat : a < n => a + 1 \in 1..n /\ a + 1 \in Nat
        BY <1>1
    <2>2. ASSUME NEW x \in S PROVE Cardinality(before(x)) + 1 \in 1..n /\ place[x] \in Nat
        <3>1. Cardinality(before(x)) \in Nat /\ Cardinality(before(x)) < n
            BY <1>2
        <3> HIDE DEF before, n
        <3> QED
            BY <2>1, <3>1
    <2> QED
        BY <2>2
<1>5. ASSUME NEW x \in S, NEW y \in S, Precedes(x, y) PROVE place[x] < place[y]
    <2>1. Cardinality(before(x)) \in Nat /\ Cardinality(before(y)) \in Nat
        BY <1>2
    <2>2. Cardinality(before(x)) < Cardinality(before(y))
        BY <1>3, <1>5
    <2> HIDE DEF before
    <2> QED
        BY <2>1, <2>2
<1>6. \A x, y \in S : x # y => Precedes(x, y) \/ Precedes(y, x)
    BY <1>1, PrecedesIsOrder DEF Listable
<1> HIDE DEF place, n
<1>7. \A x, y \in S : place[x] = place[y] => x = y
    <2> TAKE x, y \in S
    <2>1. place[x] < place[y] => place[x] # place[y]
        BY <1>4
    <2>2. place[y] < place[x] => place[x] # place[y]
        BY <1>4
    <2> QED
        BY <1>5, <1>6, <2>1, <2>2
<1>8. place \in Injection(S, 1..n)
    BY <1>4, <1>7 DEF Injection, IsInjective
<1>9. IsFiniteSet(1..n) /\ Cardinality(1..n) = n
    BY <1>1, FS_Interval
<1>10. place \in Surjection(S, 1..n)
    BY <1>1, <1>8, <1>9, FS_Injection DEF n
<1> DEFINE q == [i \in 1..n |-> CHOOSE x \in S : place[x] = i]
<1>11. ASSUME NEW i \in 1..n PROVE q[i] \in S /\ place[q[i]] = i
    <2>1. \E x \in S : place[x] = i
        BY <1>10 DEF Surjection
    <2> QED
        BY <2>1
<1> HIDE DEF q
<1>12. q \in [1..n -> S]
    BY <1>11 DEF q
<1>13. q \in SetToSeqs(S)
    BY <1>11, <1>12 DEF SetToSeqs, n
<1>14. ASSUME NEW i \in DOMAIN q, NEW j \in DOMAIN q, i < j PROVE ~Precedes(q[j], q[i])
    <2>1. i \in 1..n /\ j \in 1..n
        BY <1>12
    <2>2. place[q[i]] = i /\ place[q[j]] = j /\ q[i] \in S /\ q[j] \in S
        BY <1>11, <2>1
    <2>3. ~(j < i)
        BY <1>1, <1>14, <2>1
    <2> QED
        BY <1>5, <2>2, <2>3
<1> QED
    BY <1>13, <1>14

LEMMA AsListedIs ==
    ASSUME NEW S, Listable(S)
    PROVE  /\ AsListed(S) \in [1..Cardinality(S) -> S] /\ Cardinality(S) \in Nat
           /\ \A x \in S : \E i \in 1..Cardinality(S) : x = AsListed(S)[i]
           /\ \A i, j \in 1..Cardinality(S) : i < j => Precedes(AsListed(S)[i], AsListed(S)[j])
<1> DEFINE n == Cardinality(S)
           q == AsListed(S)
<1>1. q \in SetToSeqs(S) /\ \A i, j \in DOMAIN q : i < j => ~Precedes(q[j], q[i])
    BY OrderExists DEF AsListed
<1>2. n \in Nat /\ IsFiniteSet(S) /\ S \in SUBSET Entry
    BY FS_CardinalityType DEF Listable
<1> HIDE DEF q
<1>3. q \in [1..n -> S] /\ \A i, j \in 1..n : i # j => q[i] # q[j]
    BY <1>1 DEF SetToSeqs
<1>4. q \in Injection(1..n, S)
    BY <1>3 DEF Injection, IsInjective
<1>5. IsFiniteSet(1..n) /\ Cardinality(1..n) = n
    BY <1>2, FS_Interval
<1>6. q \in Surjection(1..n, S)
    BY <1>2, <1>4, <1>5, FS_Injection
<1>7. \A x \in S : \E i \in 1..n : x = q[i]
    BY <1>6 DEF Surjection
<1>8. ASSUME NEW i \in 1..n, NEW j \in 1..n, i < j PROVE Precedes(q[i], q[j])
    <2>1. q[i] \in S /\ q[j] \in S /\ q[i] # q[j]
        BY <1>2, <1>3, <1>8
    <2>2. q[i].id # q[j].id /\ q[i] \in Entry /\ q[j] \in Entry
        BY <1>2, <2>1 DEF Listable
    <2>3. ~Precedes(q[j], q[i])
        BY <1>1, <1>3, <1>8
    <2> QED
        BY <2>2, <2>3, PrecedesIsOrder
<1> QED
    BY <1>2, <1>3, <1>7, <1>8 DEF q

\* How far an entry is from the head of the list.
EntriesAhead(x) == {y \in entries : Precedes(y, x)}

UnderWay == [at : {"listing"}, steady : SUBSET Entry, got : Seq(Entry)]
ListingDone == [at : {"done"}, missed : SUBSET Entry, twice : BOOLEAN]
ListTypes ==
    /\ subject \in {"notifications", "project", "revisions"}
    /\ Listable(entries) /\ unused \in SUBSET EntryIds
    /\ \A x \in entries : x.id \in EntryIds \ unused
    /\ moment \in Nat
    /\ listing \in [Listers -> {NotListing} \cup UnderWay \cup ListingDone]

\* What a listing must still show comes after what it has: by the key of the last, or by count.
Rising(got) == \A i, j \in 1..Len(got) : i < j => Precedes(got[i], got[j])
ShownOrAfter(steady, got) ==
    \A x \in steady : \/ \E i \in 1..Len(got) : x = got[i]
                      \/ Len(got) = 0 \/ Precedes(got[Len(got)], x)
ShownOrBeyond(steady, got) ==
    \A x \in steady : \/ \E i \in 1..Len(got) : x = got[i]
                      \/ Len(got) <= Cardinality(EntriesAhead(x))
OnItsWay(l) ==
    /\ listing[l].steady \subseteq entries
    /\ IF subject = "revisions" THEN ShownOrBeyond(listing[l].steady, listing[l].got)
       ELSE Rising(listing[l].got) /\ ShownOrAfter(listing[l].steady, listing[l].got)

ListsInv ==
    /\ ListTypes /\ ListsAreComplete
    /\ \A l \in Listers : listing[l].at = "listing" => OnItsWay(l)

LEMMA ListingsAre ==
    /\ NotListing.at = "idle"
    /\ \A s \in UnderWay : s.at = "listing" /\ s.steady \in SUBSET Entry /\ s.got \in Seq(Entry)
    /\ \A s \in ListingDone : s.at = "done" /\ s.missed \in SUBSET Entry /\ s.twice \in BOOLEAN
BY DEF NotListing, UnderWay, ListingDone

\* Commits take away what was promised, and may push back what is still to come.
LEMMA EntriesChangeKeeps ==
    ASSUME ListsInv, NEW gone, NEW new, ChangesEntries(gone, new),
           Listable(entries'), unused' \in SUBSET EntryIds,
           \A x \in entries' : x.id \in EntryIds \ unused',
           subject = "revisions" => gone = {}
    PROVE  ListsInv'
<1> USE DEF ListsInv, ListTypes
<1>1. entries' = (entries \ gone) \cup new /\ UNCHANGED <<subject, moment>>
    BY DEF ChangesEntries
<1>2. ASSUME NEW l \in Listers, listing[l].at = "listing"
      PROVE  /\ listing[l] \in UnderWay /\ listing'[l] \in UnderWay
             /\ listing'[l].steady = listing[l].steady \ gone /\ listing'[l].got = listing[l].got
             /\ listing'[l].at = "listing"
    <2>1. listing[l] \in UnderWay
        BY <1>2, ListingsAre
    <2>2. listing'[l] = [listing[l] EXCEPT !.steady = @ \ gone]
        BY <1>2 DEF ChangesEntries
    <2> QED
        BY <2>1, <2>2 DEF UnderWay
<1>3. \A l \in Listers : listing[l].at # "listing" => listing'[l] = listing[l]
    BY DEF ChangesEntries
<1>4. listing' \in [Listers -> {NotListing} \cup UnderWay \cup ListingDone]
    <2>1. DOMAIN listing' = Listers /\ listing' = [l \in Listers |-> listing'[l]]
        BY DEF ChangesEntries
    <2>2. \A l \in Listers : listing'[l] \in {NotListing} \cup UnderWay \cup ListingDone
        BY <1>2, <1>3
    <2> QED
        BY <2>1, <2>2
<1>5. ListsAreComplete'
    BY <1>1, <1>2, <1>3 DEF ListsAreComplete
<1>6. ASSUME NEW l \in Listers, listing'[l].at = "listing"
      PROVE  OnItsWay(l)'
    <2>1. listing[l].at = "listing"
        BY <1>3, <1>6
    <2>2. /\ listing'[l].steady = listing[l].steady \ gone /\ listing'[l].got = listing[l].got
          /\ listing[l] \in UnderWay /\ OnItsWay(l)
        BY <1>2, <2>1
    <2>3. listing'[l].steady \subseteq entries'
        BY <1>1, <2>2 DEF OnItsWay
    <2>4. CASE subject # "revisions"
        BY <1>1, <2>2, <2>3, <2>4 DEF OnItsWay, Rising, ShownOrAfter, Precedes, NewestFirst
    <2>5. CASE subject = "revisions"
        <3>1. \A x, y : Precedes(x, y)' <=> Precedes(x, y)
            BY <1>1 DEF Precedes, NewestFirst
        <3>2. ASSUME NEW x
              PROVE  EntriesAhead(x) \subseteq EntriesAhead(x)' /\ IsFiniteSet(EntriesAhead(x)') /\ IsFiniteSet(EntriesAhead(x))
            <4>1. EntriesAhead(x) \subseteq EntriesAhead(x)'
                BY <1>1, <2>5, <3>1 DEF EntriesAhead
            <4>2. EntriesAhead(x)' \subseteq entries' /\ IsFiniteSet(entries')
                BY DEF EntriesAhead, Listable
            <4> QED
                BY <4>1, <4>2, FS_Subset
        <3>3. ASSUME NEW x PROVE Len(listing[l].got) <= Cardinality(EntriesAhead(x)) =>
                                     Len(listing[l].got) <= Cardinality(EntriesAhead(x)')
            <4>1. Cardinality(EntriesAhead(x)) <= Cardinality(EntriesAhead(x)')
                BY <3>2, FS_Subset
            <4>2. Cardinality(EntriesAhead(x)) \in Nat /\ Cardinality(EntriesAhead(x)') \in Nat
                BY <3>2, FS_CardinalityType
            <4>3. Len(listing[l].got) \in Nat
                BY <2>2, ListingsAre
            <4> QED
                BY <4>1, <4>2, <4>3
        <3>4. ShownOrBeyond(listing[l].steady, listing[l].got)
            BY <2>2, <2>5 DEF OnItsWay
        <3>5. \A x \in listing'[l].steady :
                  \/ \E i \in 1..Len(listing'[l].got) : x = listing'[l].got[i]
                  \/ Len(listing'[l].got) <= Cardinality(EntriesAhead(x)')
            BY <2>2, <3>3, <3>4 DEF ShownOrBeyond
        <3> QED
            BY <1>1, <2>3, <2>5, <3>5 DEF OnItsWay, ShownOrBeyond
    <2> QED
        BY <2>4, <2>5
<1> QED
    BY <1>1, <1>4, <1>5, <1>6

LEMMA LeastOfTwo ==
    ASSUME NEW a \in Nat, NEW b \in Nat
    PROVE  Min({a, b}) = IF a <= b THEN a ELSE b
<1> DEFINE least == IF a <= b THEN a ELSE b
<1>1. least \in {a, b} /\ \A y \in {a, b} : least <= y
    OBVIOUS
<1>2. \A x \in {a, b} : (\A y \in {a, b} : x <= y) => x = least
    OBVIOUS
<1> HIDE DEF least
<1>3. (CHOOSE x \in {a, b} : \A y \in {a, b} : x <= y) = least
    BY <1>1, <1>2
<1> QED
    BY <1>3 DEF Min, least

\* The page is the entries that come next, and it is empty only at the end.
LEMMA PageIs ==
    ASSUME NEW S, Listable(S), NEW got \in Seq(Entry),
           NEW n \in 0..Min({ListLimit, Len(AsListed(S))}),
           n = 0 => Min({ListLimit, Len(AsListed(S))}) = 0
    PROVE  LET left == AsListed(S)
               more == got \o SubSeq(left, 1, n)
           IN /\ Len(left) = Cardinality(S) /\ n \in 0..Len(left) /\ (n = 0 => Len(left) = 0)
              /\ more \in Seq(Entry) /\ Len(more) = Len(got) + n
              /\ \A i \in 1..Len(got) : more[i] = got[i]
              /\ \A i \in 1..n : more[Len(got) + i] = left[i]
<1> DEFINE left == AsListed(S)
           page == SubSeq(left, 1, n)
           more == got \o page
<1>1. /\ left \in [1..Cardinality(S) -> S] /\ Cardinality(S) \in Nat /\ S \in SUBSET Entry
    BY AsListedIs DEF Listable
<1> HIDE DEF left
<1>2. left \in Seq(Entry) /\ Len(left) = Cardinality(S)
    <2>1. \A m \in Nat : \A f \in [1..m -> S] : f \in Seq(Entry) /\ Len(f) = m
        BY <1>1
    <2> QED
        BY <1>1, <2>1
<1>3. ListLimit \in Nat /\ ListLimit # 0
    BY EntriesAssumption
<1>4. n \in 0..Len(left) /\ (n = 0 => Len(left) = 0)
    <2>1. Min({ListLimit, Len(left)}) = IF ListLimit <= Len(left) THEN ListLimit ELSE Len(left)
        BY <1>1, <1>2, <1>3, LeastOfTwo
    <2>2. n \in 0..Min({ListLimit, Len(left)}) /\ (n = 0 => Min({ListLimit, Len(left)}) = 0)
        BY DEF left
    <2> QED
        BY <1>1, <1>2, <1>3, <2>1, <2>2
<1>5. page \in Seq(Entry) /\ Len(page) = n /\ \A i \in 1..n : page[i] = left[i]
    BY <1>2, <1>4
<1> HIDE DEF page
<1>6. more \in Seq(Entry) /\ Len(more) = Len(got) + n
    BY <1>4, <1>5
<1>7. \A i \in 1..Len(got) : more[i] = got[i]
    BY <1>5
<1>8. ASSUME NEW i \in 1..n PROVE more[Len(got) + i] = left[i]
    <2>1. more[Len(got) + i] = page[i]
        BY <1>4, <1>5
    <2> QED
        BY <1>5, <2>1
<1> QED
    BY <1>2, <1>4, <1>6, <1>7, <1>8 DEF left, page

\* The first n of what is left are shown now.
Paged(got, S, n, more) ==
    /\ n \in 0..Cardinality(S) /\ (n = 0 => Cardinality(S) = 0)
    /\ Len(more) = Len(got) + n
    /\ \A i \in 1..Len(got) : more[i] = got[i]
    /\ \A i \in 1..n : more[Len(got) + i] = AsListed(S)[i]

LeftByKey(E, got) == {x \in E : Len(got) = 0 \/ Precedes(got[Len(got)], x)}

\* By the key: what is left comes after the last entry shown.
LEMMA KeyPages ==
    ASSUME NEW E, Listable(E), NEW got \in Seq(Entry), NEW steady \in SUBSET E,
           Rising(got), ShownOrAfter(steady, got),
           NEW S, S = LeftByKey(E, got), NEW more \in Seq(Entry), NEW n, Paged(got, S, n, more)
    PROVE  /\ Rising(more)
           /\ n < Cardinality(S) => ShownOrAfter(steady, more)
           /\ n = Cardinality(S) => \A x \in steady : \E i \in 1..Len(more) : x = more[i]
<1> USE DEF Paged, LeftByKey
<1> DEFINE size == Cardinality(S)
           left == AsListed(S)
           shown == Len(got)
<1>1. Listable(S) /\ S \subseteq E /\ S \subseteq Entry
    BY SubsetsAreListable DEF Listable
<1>2. /\ left \in [1..size -> S] /\ size \in Nat
      /\ \A x \in S : \E i \in 1..size : x = left[i]
      /\ \A i, j \in 1..size : i < j => Precedes(left[i], left[j])
    BY <1>1, AsListedIs
<1>3. shown \in Nat /\ \A i \in 1..shown : got[i] \in Entry
    OBVIOUS
<1>4. n \in Nat /\ n <= size
    BY <1>2
<1> HIDE DEF size, left, shown
<1>5. ASSUME NEW i \in 1..shown, NEW x \in S PROVE Precedes(got[i], x)
    <2>1. shown # 0 /\ Precedes(got[shown], x)
        BY <1>3 DEF shown
    <2>2. CASE i = shown
        BY <2>1, <2>2
    <2>3. CASE i # shown
        <3>1. i < shown /\ shown \in 1..shown
            BY <1>3, <2>3
        <3>2. Precedes(got[i], got[shown])
            BY <3>1 DEF Rising, shown
        <3> QED
            BY <1>1, <1>3, <2>1, <3>1, <3>2, PrecedesIsOrder
    <2> QED
        BY <2>2, <2>3
<1>6. ASSUME NEW k \in 1..Len(more)
      PROVE  \/ k \in 1..shown /\ more[k] = got[k]
             \/ \E i \in 1..n : /\ k = shown + i /\ i \in 1..size
                                /\ more[k] = left[i] /\ left[i] \in S
    <2>1. CASE k <= shown
        BY <1>3, <2>1 DEF shown
    <2>2. CASE ~(k <= shown)
        <3> DEFINE i == k - shown
        <3>1. i \in 1..n /\ k = shown + i /\ i \in 1..size
            BY <1>2, <1>3, <1>4, <2>2 DEF shown
        <3> HIDE DEF i
        <3>2. more[k] = left[i] /\ left[i] \in S
            BY <1>2, <3>1 DEF shown, left
        <3> QED
            BY <3>1, <3>2
    <2> QED
        BY <2>1, <2>2
<1>7. Rising(more)
    <2> SUFFICES ASSUME NEW a \in 1..Len(more), NEW b \in 1..Len(more), a < b
                 PROVE  Precedes(more[a], more[b])
        BY DEF Rising
    <2>1. CASE a \in 1..shown /\ more[a] = got[a]
        <3>1. CASE b \in 1..shown /\ more[b] = got[b]
            BY <2>1, <3>1 DEF Rising, shown
        <3>2. CASE \E i \in 1..n : more[b] = left[i] /\ left[i] \in S
            BY <2>1, <3>2, <1>5
        <3> QED
            BY <3>1, <3>2, <1>6
    <2>2. CASE \E i \in 1..n : a = shown + i /\ i \in 1..size /\ more[a] = left[i]
        <3>1. PICK i \in 1..n : a = shown + i /\ i \in 1..size /\ more[a] = left[i]
            BY <2>2
        <3>2. ~(b \in 1..shown)
            BY <1>3, <1>4, <3>1
        <3>3. PICK j \in 1..n : b = shown + j /\ j \in 1..size /\ more[b] = left[j]
            BY <1>6, <3>2
        <3>4. i < j
            BY <1>3, <1>4, <3>1, <3>3
        <3> QED
            BY <1>2, <3>1, <3>3, <3>4
    <2> QED
        BY <2>1, <2>2, <1>6
<1>8. ASSUME NEW x \in steady
      PROVE  \/ \E i \in 1..Len(more) : x = more[i]
             \/ \E i \in 1..size : x = left[i] /\ n < i
    <2>1. CASE \E i \in 1..shown : x = got[i]
        <3>1. 1..shown \subseteq 1..Len(more)
            BY <1>3, <1>4 DEF shown
        <3> QED
            BY <2>1, <3>1 DEF shown
    <2>2. CASE ~ \E i \in 1..shown : x = got[i]
        <3>1. x \in S
            BY <2>2 DEF ShownOrAfter, shown
        <3>2. PICK i \in 1..size : x = left[i]
            BY <1>2, <3>1
        <3>3. CASE i <= n
            <4>1. i \in 1..n /\ shown + i \in 1..Len(more)
                BY <1>3, <1>4, <3>3 DEF shown
            <4>2. more[shown + i] = left[i]
                BY <4>1 DEF shown, left
            <4> QED
                BY <3>2, <4>1, <4>2
        <3>4. CASE ~(i <= n)
            <4>1. n < i
                BY <1>2, <1>4, <3>4
            <4> QED
                BY <3>2, <4>1
        <3> QED
            BY <3>3, <3>4
    <2> QED
        BY <2>1, <2>2
<1>9. ASSUME n < size PROVE ShownOrAfter(steady, more)
    <2>1. n # 0
        BY <1>2, <1>9 DEF size
    <2>2. n \in 1..n /\ n \in 1..size /\ Len(more) = shown + n
        BY <1>2, <1>4, <2>1 DEF shown
    <2>3. more[Len(more)] = left[n]
        BY <2>2 DEF shown, left
    <2>4. \A i \in 1..size : n < i => Precedes(left[n], left[i])
        BY <1>2, <2>2
    <2> QED
        BY <1>8, <2>3, <2>4 DEF ShownOrAfter
<1>10. ASSUME n = size PROVE \A x \in steady : \E i \in 1..Len(more) : x = more[i]
    <2>1. \A i \in 1..size : ~(n < i)
        BY <1>2, <1>10
    <2> QED
        BY <1>8, <2>1
<1> QED
    BY <1>7, <1>9, <1>10 DEF size

\* The first k of f are the elements of T, one each.
Enumerates(f, k, T) ==
    /\ \A i, j \in 1..k : i < j => f[i] # f[j]
    /\ \A i \in 1..k : f[i] \in T
    /\ \A x \in T : \E i \in 1..k : x = f[i]

LEMMA AsManyAsPlaces ==
    ASSUME NEW k \in Nat, NEW f, NEW T, Enumerates(f, k, T)
    PROVE  IsFiniteSet(T) /\ Cardinality(T) = k
<1> USE DEF Enumerates
<1> DEFINE g == [i \in 1..k |-> f[i]]
<1>1. IsFiniteSet(1..k) /\ Cardinality(1..k) = k
    BY FS_Interval
<1>2. g \in Surjection(1..k, T)
    BY DEF Surjection
<1>3. \A i, j \in 1..k : f[i] = f[j] => i = j
    <2> TAKE i, j \in 1..k
    <2>1. i < j \/ j < i \/ i = j
        OBVIOUS
    <2> QED
        BY <2>1
<1>4. g \in Injection(1..k, T)
    BY <1>3 DEF Injection, IsInjective
<1> HIDE DEF g
<1> QED
    BY <1>1, <1>2, <1>4, FS_Surjection

\* By the count: what is left is what the list has behind it.
LEMMA LeftByCountIs ==
    ASSUME Listable(entries), NEW got \in Seq(Entry)
    PROVE  /\ LeftByCount(got) =
                  {AsListed(entries)[q] : q \in (Len(got) + 1)..Cardinality(entries)}
           /\ LeftByCount(got) \subseteq entries
<1> DEFINE S == LeftByCount(got)
           shown == Len(got)
           sorted == AsListed(entries)
           all == Cardinality(entries)
<1>2. sorted \in [1..all -> entries] /\ all \in Nat
    BY AsListedIs
<1>3. shown \in Nat
    OBVIOUS
<1>4. S = ToSet(SubSeq(sorted, shown + 1, all))
    BY DEF LeftByCount
<1> HIDE DEF S, shown, sorted, all
<1>5. S = {sorted[q] : q \in (shown + 1)..all}
    <2>1. sorted \in Seq(entries) /\ Len(sorted) = all
        <3>1. \A m \in Nat : \A f \in [1..m -> entries] : f \in Seq(entries) /\ Len(f) = m
            OBVIOUS
        <3> QED
            BY <1>2, <3>1
    <2> DEFINE rest == SubSeq(sorted, shown + 1, all)
    <2>2. CASE shown < all
        <3>1. rest \in Seq(entries) /\ Len(rest) = all - shown
              /\ \A i \in 1..(all - shown) : rest[i] = sorted[i + shown]
            BY <1>2, <1>3, <2>1, <2>2
        <3>2. DOMAIN rest = 1..(all - shown)
            BY <3>1
        <3> HIDE DEF rest
        <3>3. ToSet(rest) = {rest[i] : i \in 1..(all - shown)}
            BY <3>2 DEF ToSet
        <3>4. \A i \in 1..(all - shown) : i + shown \in (shown + 1)..all
            BY <1>2, <1>3, <2>2
        <3>5. \A q \in (shown + 1)..all : q - shown \in 1..(all - shown) /\ (q - shown) + shown = q
            BY <1>2, <1>3, <2>2
        <3>6. ToSet(rest) \subseteq {sorted[q] : q \in (shown + 1)..all}
            BY <3>1, <3>3, <3>4
        <3>7. {sorted[q] : q \in (shown + 1)..all} \subseteq ToSet(rest)
            <4>1. ASSUME NEW q \in (shown + 1)..all PROVE sorted[q] \in ToSet(rest)
                <5>1. rest[q - shown] = sorted[q] /\ q - shown \in 1..(all - shown)
                    BY <3>1, <3>5
                <5> QED
                    BY <3>3, <5>1
            <4> QED
                BY <4>1
        <3>8. S = ToSet(rest)
            BY <1>4 DEF rest
        <3> QED
            BY <3>6, <3>7, <3>8
    <2>3. CASE ~(shown < all)
        <3>1. Len(rest) = 0 /\ rest \in Seq(entries)
            BY <1>2, <1>3, <2>1, <2>3
        <3>2. DOMAIN rest = {}
            BY <3>1
        <3>3. ToSet(rest) = {}
            BY <3>2 DEF ToSet
        <3>4. (shown + 1)..all = {}
            BY <1>2, <1>3, <2>3
        <3>5. S = ToSet(rest)
            BY <1>4
        <3> HIDE DEF rest
        <3> QED
            BY <3>3, <3>4, <3>5
    <2> QED
        BY <2>2, <2>3
<1>6. S \subseteq entries
    <2>1. (shown + 1)..all \subseteq 1..all
        BY <1>2, <1>3
    <2> QED
        BY <1>2, <1>5, <2>1
<1> QED
    BY <1>5, <1>6 DEF S, shown, sorted, all

\* By the count: what is not shown yet has as many entries before it as were shown, and more
\* once more are shown.
LEMMA CountPages ==
    ASSUME Listable(entries), NEW got \in Seq(Entry), NEW steady \in SUBSET entries,
           ShownOrBeyond(steady, got),
           NEW S, S = LeftByCount(got), Listable(S),
           NEW more \in Seq(Entry), NEW n, Paged(got, S, n, more)
    PROVE  /\ n < Cardinality(S) => ShownOrBeyond(steady, more)
           /\ n = Cardinality(S) => \A x \in steady : \E i \in 1..Len(more) : x = more[i]
<1> USE DEF Paged
<1> DEFINE size == Cardinality(S)
           left == AsListed(S)
           shown == Len(got)
           sorted == AsListed(entries)
           all == Cardinality(entries)
<1>1. /\ left \in [1..size -> S] /\ size \in Nat
      /\ \A x \in S : \E i \in 1..size : x = left[i]
      /\ \A i, j \in 1..size : i < j => Precedes(left[i], left[j])
    BY AsListedIs
<1>2. /\ sorted \in [1..all -> entries] /\ all \in Nat
      /\ \A x \in entries : \E i \in 1..all : x = sorted[i]
      /\ \A i, j \in 1..all : i < j => Precedes(sorted[i], sorted[j])
    BY AsListedIs
<1>3. shown \in Nat /\ n \in Nat /\ n <= size /\ entries \in SUBSET Entry /\ S \in SUBSET Entry
    BY <1>1 DEF Listable
<1> HIDE DEF size, left, shown, sorted, all
<1>5. S = {sorted[q] : q \in (shown + 1)..all}
    BY LeftByCountIs DEF sorted, shown, all
<1>9a. S \subseteq entries
    BY LeftByCountIs
<1>6. ASSUME NEW x \in entries, NEW p \in 1..all, x = sorted[p]
      PROVE  /\ IsFiniteSet(EntriesAhead(x)) /\ Cardinality(EntriesAhead(x)) \in Nat
             /\ Cardinality(EntriesAhead(x)) <= p - 1 /\ {sorted[q] : q \in 1..(p - 1)} \subseteq EntriesAhead(x)
    <2> DEFINE T == {sorted[q] : q \in 1..(p - 1)}
    <2>1. p - 1 \in Nat /\ 1..(p - 1) \subseteq 1..all /\ \A q \in 1..(p - 1) : q < p
        BY <1>2
    <2>2. \A i, j \in 1..(p - 1) : i < j => sorted[i] # sorted[j]
        BY <1>2, <1>3, <2>1, PrecedesIsOrder
    <2>3. IsFiniteSet(T) /\ Cardinality(T) = p - 1
        <3>1. /\ \A q \in 1..(p - 1) : sorted[q] \in T
              /\ \A y \in T : \E q \in 1..(p - 1) : y = sorted[q]
            OBVIOUS
        <3>2. Enumerates(sorted, p - 1, T)
            BY <2>2, <3>1 DEF Enumerates
        <3> HIDE DEF T
        <3> QED
            BY <2>1, <3>2, AsManyAsPlaces
    <2>4. EntriesAhead(x) \subseteq T
        <3> SUFFICES ASSUME NEW y \in entries, Precedes(y, x) PROVE y \in T
            BY DEF EntriesAhead
        <3>1. PICK q \in 1..all : y = sorted[q]
            BY <1>2
        <3>2. ~(p < q) /\ p # q
            BY <1>2, <1>3, <1>6, <3>1, PrecedesIsOrder
        <3>3. q \in 1..(p - 1)
            BY <1>2, <3>2
        <3> QED
            BY <3>1, <3>3
    <2>5. T \subseteq EntriesAhead(x)
        BY <1>2, <1>6, <2>1 DEF EntriesAhead
    <2> HIDE DEF T
    <2>6. IsFiniteSet(EntriesAhead(x)) /\ Cardinality(EntriesAhead(x)) <= p - 1
        BY <2>3, <2>4, FS_Subset
    <2> QED
        BY <2>5, <2>6, FS_CardinalityType DEF T
<1>7. ASSUME NEW x \in steady, ~ \E i \in 1..Len(more) : x = more[i]
      PROVE  n < size /\ Len(more) <= Cardinality(EntriesAhead(x))
    <2>1. shown <= Cardinality(EntriesAhead(x))
        <3>1. 1..shown \subseteq 1..Len(more)
            BY <1>3 DEF shown
        <3>2. ~ \E i \in 1..shown : x = got[i]
            BY <1>7, <3>1 DEF shown
        <3> QED
            BY <3>2 DEF ShownOrBeyond, shown
    <2>2. PICK p \in 1..all : x = sorted[p]
        BY <1>2
    <2>3. p \in (shown + 1)..all
        <3>1. Cardinality(EntriesAhead(x)) \in Nat /\ Cardinality(EntriesAhead(x)) <= p - 1
            BY <1>6, <2>2
        <3> QED
            BY <1>2, <1>3, <2>1, <3>1
    <2>4. x \in S
        BY <1>5, <2>2, <2>3
    <2>5. PICK i \in 1..size : x = left[i]
        BY <1>1, <2>4
    <2>6. n < i
        <3>1. CASE i <= n
            <4>1. i \in 1..n /\ shown + i \in 1..Len(more)
                BY <1>1, <1>3, <3>1 DEF shown
            <4>2. more[shown + i] = left[i]
                BY <4>1 DEF shown, left
            <4> QED
                BY <1>7, <2>5, <4>1, <4>2
        <3> QED
            BY <1>1, <1>3, <3>1
    <2> DEFINE A == {sorted[q] : q \in 1..shown}
               B == {left[k] : k \in 1..n}
    <2>7. IsFiniteSet(A) /\ Cardinality(A) = shown
        <3>1. 1..shown \subseteq 1..all
            BY <1>2, <1>3, <2>3
        <3>2. \A a, b \in 1..shown : a < b => sorted[a] # sorted[b]
            BY <1>2, <1>3, <3>1, PrecedesIsOrder
        <3>3. (\A q \in 1..shown : sorted[q] \in A) /\ \A y \in A : \E q \in 1..shown : y = sorted[q]
            OBVIOUS
        <3>4. Enumerates(sorted, shown, A)
            BY <3>2, <3>3 DEF Enumerates
        <3> HIDE DEF A
        <3> QED
            BY <1>3, <3>4, AsManyAsPlaces
    <2>8. IsFiniteSet(B) /\ Cardinality(B) = n
        <3>1. 1..n \subseteq 1..size
            BY <1>1, <1>3
        <3>2. \A a, b \in 1..n : a < b => left[a] # left[b]
            BY <1>1, <1>3, <3>1, PrecedesIsOrder
        <3>3. (\A k \in 1..n : left[k] \in B) /\ \A y \in B : \E k \in 1..n : y = left[k]
            OBVIOUS
        <3>4. Enumerates(left, n, B)
            BY <3>2, <3>3 DEF Enumerates
        <3> HIDE DEF B
        <3> QED
            BY <1>3, <3>4, AsManyAsPlaces
    <2>9. A \cap B = {}
        <3>1. B \subseteq S
            BY <1>1, <1>3
        <3>2. ASSUME NEW a \in 1..shown, NEW b \in (shown + 1)..all PROVE sorted[a] # sorted[b]
            <4>1. a < b /\ a \in 1..all /\ b \in 1..all
                BY <1>2, <1>3, <2>3
            <4> QED
                BY <1>2, <1>3, <4>1, PrecedesIsOrder
        <3>3. \A y \in B : \E b \in (shown + 1)..all : y = sorted[b]
            BY <1>5, <3>1
        <3>4. \A y \in A : \E a \in 1..shown : y = sorted[a]
            OBVIOUS
        <3> HIDE DEF A, B
        <3> QED
            BY <3>2, <3>3, <3>4
    <2>10. A \subseteq EntriesAhead(x)
        <3>1. 1..shown \subseteq 1..(p - 1)
            BY <1>2, <1>3, <2>3
        <3>2. {sorted[q] : q \in 1..(p - 1)} \subseteq EntriesAhead(x)
            BY <1>6, <2>2
        <3> QED
            BY <3>1, <3>2
    <2>11. B \subseteq EntriesAhead(x)
        <3>1. ASSUME NEW k \in 1..n PROVE left[k] \in EntriesAhead(x)
            <4>1. k < i /\ k \in 1..size
                BY <1>1, <1>3, <2>6
            <4>2. left[k] \in S /\ S \subseteq entries
                BY <1>1, <1>9a, <4>1
            <4> QED
                BY <1>1, <2>5, <4>1, <4>2 DEF EntriesAhead
        <3> QED
            BY <3>1
    <2> HIDE DEF A, B
    <2>12. IsFiniteSet(A \cup B) /\ Cardinality(A \cup B) = shown + n
        <3>1. Cardinality({}) = 0
            BY FS_EmptySet
        <3>2. Cardinality(A \cup B) = Cardinality(A) + Cardinality(B) - Cardinality(A \cap B)
            BY <2>7, <2>8, FS_Union
        <3>3. IsFiniteSet(A \cup B)
            BY <2>7, <2>8, FS_Union
        <3>4. Cardinality(A \cup B) = shown + n - 0
            BY <2>7, <2>8, <2>9, <3>1, <3>2
        <3> QED
            BY <1>3, <3>3, <3>4
    <2>13. Cardinality(A \cup B) <= Cardinality(EntriesAhead(x))
        BY <1>6, <2>2, <2>10, <2>11, FS_Subset
    <2> QED
        <3>1. n < size
            BY <1>1, <1>3, <2>6
        <3>2. Len(more) = shown + n
            BY DEF shown
        <3> QED
            BY <2>12, <2>13, <3>1, <3>2
<1>8. n < size => ShownOrBeyond(steady, more)
    BY <1>7 DEF ShownOrBeyond
<1>9. n = size => \A x \in steady : \E i \in 1..Len(more) : x = more[i]
    <2>1. n = size => ~(n < size)
        BY <1>1
    <2> QED
        BY <1>7, <2>1
<1> QED
    BY <1>8, <1>9 DEF size

LEMMA OnItsWayStays ==
    ASSUME NEW l \in Listers, OnItsWay(l), listing'[l] = listing[l], UNCHANGED <<subject, entries>>
    PROVE  OnItsWay(l)'
BY DEF OnItsWay, Rising, ShownOrAfter, ShownOrBeyond, Precedes, NewestFirst, EntriesAhead

\* A page shows what comes next, once; and the last one what was still to be shown.
LEMMA NextPageKeeps ==
    ASSUME ListsInv, NEW l \in Listers, NextPage(l)
    PROVE  ListsInv'
<1> USE DEF ListsInv, ListTypes
<1> DEFINE E == entries
           steady == listing[l].steady
           got == listing[l].got
           S == LeftToList(got)
           left == AsListed(S)
<1>1. /\ listing[l] \in UnderWay /\ OnItsWay(l)
      /\ got \in Seq(Entry) /\ steady \in SUBSET Entry /\ listing[l].at = "listing"
    <2>1. listing[l].at = "listing"
        BY DEF NextPage
    <2> QED
        BY <2>1, ListingsAre
<1>2. Listable(S)
    <2>1. S \subseteq entries
        BY <1>1, LeftByCountIs DEF LeftToList
    <2> QED
        BY <2>1, SubsetsAreListable
<1>3. PICK n \in 0..Min({ListLimit, Len(left)}) :
         /\ n = 0 => Min({ListLimit, Len(left)}) = 0
         /\ listing' = [listing EXCEPT ![l] =
               IF n < Len(left) THEN [listing[l] EXCEPT !.got = got \o SubSeq(left, 1, n)]
               ELSE Listed(steady, got \o SubSeq(left, 1, n))]
    BY DEF NextPage
<1> DEFINE more == got \o SubSeq(left, 1, n)
<1>4. /\ Len(left) = Cardinality(S) /\ n \in 0..Len(left) /\ (n = 0 => Len(left) = 0)
      /\ more \in Seq(Entry) /\ Len(more) = Len(got) + n
      /\ \A i \in 1..Len(got) : more[i] = got[i]
      /\ \A i \in 1..n : more[Len(got) + i] = left[i]
    BY <1>1, <1>2, <1>3, PageIs
<1>5. UNCHANGED <<subject, entries, unused, moment>>
    BY DEF NextPage
<1>6. listing' = [listing EXCEPT ![l] =
          IF n < Len(left) THEN [listing[l] EXCEPT !.got = more] ELSE Listed(steady, more)]
    BY <1>3
<1>7. steady \subseteq entries
    BY <1>1 DEF OnItsWay
<1> HIDE DEF more
<1>8. /\ subject # "revisions" => Rising(more)
      /\ n < Len(left) => IF subject = "revisions" THEN ShownOrBeyond(steady, more)
                          ELSE ShownOrAfter(steady, more)
      /\ n = Len(left) => \A x \in steady : \E i \in 1..Len(more) : x = more[i]
    <2>1. CASE subject = "revisions"
        <3>1. S = LeftByCount(got)
            BY <2>1 DEF LeftToList
        <3>2. ShownOrBeyond(steady, got)
            BY <1>1, <2>1 DEF OnItsWay
        <3>3. Paged(got, S, n, more)
            BY <1>4 DEF Paged
        <3> HIDE DEF left, got, steady, S, ListsInv
        <3>4. /\ n < Cardinality(S) => ShownOrBeyond(steady, more)
              /\ n = Cardinality(S) => \A x \in steady : \E i \in 1..Len(more) : x = more[i]
            BY <1>1, <1>2, <1>4, <1>7, <3>1, <3>2, <3>3, CountPages, SMTT(30) DEF ListsInv
        <3> QED
            BY <1>4, <2>1, <3>4
    <2>2. CASE subject # "revisions"
        <3>1. S = LeftByKey(entries, got)
            <4>1. got = <<>> <=> Len(got) = 0
                BY <1>1
            <4> QED
                BY <2>2, <4>1 DEF LeftToList, Last, LeftByKey
        <3>2. Rising(got) /\ ShownOrAfter(steady, got)
            BY <1>1, <2>2 DEF OnItsWay
        <3>3. Paged(got, S, n, more)
            BY <1>4 DEF Paged
        <3> HIDE DEF left, got, steady, S, ListsInv
        <3>4. /\ Rising(more)
              /\ n < Cardinality(S) => ShownOrAfter(steady, more)
              /\ n = Cardinality(S) => \A x \in steady : \E i \in 1..Len(more) : x = more[i]
            BY <1>1, <1>4, <1>7, <3>1, <3>2, <3>3, KeyPages DEF ListsInv
        <3> QED
            BY <1>4, <2>2, <3>4
    <2> QED
        BY <2>1, <2>2
<1>9. CASE n < Len(left)
    <2>1. listing'[l] = [listing[l] EXCEPT !.got = more] /\ listing'[l] \in UnderWay
        BY <1>1, <1>4, <1>6, <1>9 DEF UnderWay
    <2>2. listing'[l].at = "listing" /\ listing'[l].got = more /\ listing'[l].steady = steady
        BY <1>1, <2>1 DEF UnderWay
    <2>3. OnItsWay(l)'
        BY <1>5, <1>7, <1>8, <1>9, <2>2
           DEF OnItsWay, Rising, ShownOrAfter, ShownOrBeyond, Precedes, NewestFirst, EntriesAhead
    <2>4. \A k \in Listers : k # l => listing'[k] = listing[k]
        BY <1>6
    <2>5. listing' \in [Listers -> {NotListing} \cup UnderWay \cup ListingDone]
        BY <1>6, <2>1
    <2>6. ListsAreComplete'
        BY <1>5, <2>2, <2>4 DEF ListsAreComplete
    <2>7. \A k \in Listers : listing'[k].at = "listing" => OnItsWay(k)'
        BY <1>5, <2>3, <2>4, OnItsWayStays
    <2> QED
        BY <1>5, <2>5, <2>6, <2>7
<1>10. CASE ~(n < Len(left))
    <2>1. n = Len(left) /\ Len(left) \in Nat
        BY <1>2, <1>4, <1>10, FS_CardinalityType DEF Listable
    <2>2. listing'[l] = Listed(steady, more)
        BY <1>6, <1>10
    <2>3. steady \ ToSet(more) = {}
        BY <1>4, <1>8, <2>1 DEF ToSet
    <2>4. subject = "revisions" \/ IsInjective(more)
        <3>1. ASSUME subject # "revisions" PROVE \A a, b \in DOMAIN more : more[a] = more[b] => a = b
            <4> SUFFICES ASSUME NEW a \in DOMAIN more, NEW b \in DOMAIN more, more[a] = more[b]
                         PROVE  a = b
                OBVIOUS
            <4>1. /\ a \in 1..Len(more) /\ b \in 1..Len(more)
                  /\ more[a] \in Entry /\ more[b] \in Entry
                BY <1>4
            <4>2. ~(a < b) /\ ~(b < a)
                BY <1>8, <3>1, <4>1, PrecedesIsOrder DEF Rising
            <4> QED
                BY <4>1, <4>2
        <3> QED
            BY <3>1 DEF IsInjective
    <2>5. /\ listing'[l] \in ListingDone /\ listing'[l].at = "done" /\ listing'[l].missed = {}
          /\ listing'[l].twice => subject = "revisions"
        <3> DEFINE t == ~IsInjective(more)
        <3>1. listing'[l] = [at |-> "done", missed |-> {}, twice |-> t]
            BY <2>2, <2>3 DEF Listed
        <3>2. t \in BOOLEAN /\ (t => subject = "revisions")
            BY <2>4
        <3> HIDE DEF t
        <3> QED
            BY <3>1, <3>2 DEF ListingDone
    <2>6. \A k \in Listers : k # l => listing'[k] = listing[k]
        BY <1>6
    <2>7. listing' \in [Listers -> {NotListing} \cup UnderWay \cup ListingDone]
        <3>1. listing' = [listing EXCEPT ![l] = listing'[l]]
            BY <1>6, <1>10, <2>2
        <3> QED
            BY <2>5, <3>1
    <2>8. ListsAreComplete'
        BY <1>5, <2>5, <2>6 DEF ListsAreComplete
    <2>9. \A k \in Listers : listing'[k].at = "listing" => OnItsWay(k)'
        BY <1>5, <2>5, <2>6, OnItsWayStays
    <2> QED
        BY <1>5, <2>7, <2>8, <2>9
<1> QED
    BY <1>9, <1>10

LEMMA ListsInvHolds == ListsSpec => []ListsInv
<1>1. ListsInit => ListsInv
    <2> SUFFICES ASSUME ListsInit PROVE ListsInv
        OBVIOUS
    <2>1. Listable({})
        BY FS_EmptySet DEF Listable
    <2>2. \A l \in Listers : listing[l].at = "idle"
        BY ListingsAre DEF ListsInit
    <2> QED
        BY <2>1, <2>2 DEF ListsInit, ListsInv, ListTypes, ListsAreComplete
<1>2. ListsInv /\ [ListsNext]_listVars => ListsInv'
    <2> SUFFICES ASSUME ListsInv, [ListsNext]_listVars PROVE ListsInv'
        OBVIOUS
    <2> USE DEF ListsInv, ListTypes
    <2>1. ASSUME NEW id \in EntryIds, NEW date \in {d \in {moment - 1, moment} : d > 0},
                 NEW priority \in {0, 1}, EntryComes(id, date, priority)
          PROVE  ListsInv'
        <3> DEFINE x == [id |-> id, date |-> date, priority |-> priority]
        <3>1. x \in Entry /\ x.id = id
            BY EntriesAssumption DEF Entry
        <3>2. entries' = entries \cup {x} /\ ChangesEntries({}, {x})
            BY <2>1 DEF EntryComes, ChangesEntries
        <3>3. unused' = unused \ {id} /\ id \in unused
            BY <2>1 DEF EntryComes
        <3> HIDE DEF x
        <3>4. Listable(entries')
            <4>1. IsFiniteSet(entries \cup {x})
                BY FS_AddElement DEF Listable
            <4> QED
                BY <3>1, <3>2, <3>3, <4>1 DEF Listable
        <3>5. \A y \in entries' : y.id \in EntryIds \ unused'
            BY <3>1, <3>2, <3>3
        <3> QED
            BY <3>2, <3>3, <3>4, <3>5, EntriesChangeKeeps
    <2>2. ASSUME NEW x \in entries, EntryGoes(x) PROVE ListsInv'
        <3>1. /\ entries' = entries \ {x} /\ ChangesEntries({x}, {}) /\ unused' = unused
              /\ subject # "revisions"
            BY <2>2 DEF EntryGoes, ChangesEntries, NewestFirst
        <3>2. Listable(entries')
            BY <3>1, SubsetsAreListable
        <3> QED
            BY <3>1, <3>2, EntriesChangeKeeps
    <2>3. ASSUME NEW x \in entries, Redate(x) PROVE ListsInv'
        <3> DEFINE y == [x EXCEPT !.date = moment]
        <3>1. x \in Entry /\ y \in Entry /\ y.id = x.id
            BY DEF Listable, Entry
        <3>2. /\ entries' = (entries \ {x}) \cup {y} /\ ChangesEntries({x}, {y})
              /\ unused' = unused /\ subject # "revisions"
            BY <2>3 DEF Redate, ChangesEntries
        <3> HIDE DEF y
        <3>3. Listable(entries')
            <4>1. IsFiniteSet(entries \ {x})
                BY FS_RemoveElement DEF Listable
            <4>2. IsFiniteSet((entries \ {x}) \cup {y})
                BY <4>1, FS_AddElement
            <4> QED
                BY <3>1, <3>2, <4>2 DEF Listable
        <3>4. \A z \in entries' : z.id \in EntryIds \ unused'
            BY <3>1, <3>2
        <3> QED
            BY <3>2, <3>3, <3>4, EntriesChangeKeeps
    <2>4. CASE DatePasses
        BY <2>4, OnItsWayStays DEF DatePasses, ListsAreComplete
    <2>5. ASSUME NEW l \in Listers, StartList(l) PROVE ListsInv'
        <3> DEFINE r == [at |-> "listing", steady |-> entries, got |-> <<>>]
        <3>1. r \in UnderWay /\ r.at = "listing" /\ r.steady = entries /\ r.got = <<>>
            BY DEF UnderWay, Listable
        <3>2. listing' = [listing EXCEPT ![l] = r] /\ UNCHANGED <<subject, entries, unused, moment>>
            BY <2>5 DEF StartList
        <3> HIDE DEF r
        <3>3. listing' \in [Listers -> {NotListing} \cup UnderWay \cup ListingDone]
            BY <3>1, <3>2
        <3>4. \A k \in Listers : listing'[k] = IF k = l THEN r ELSE listing[k]
            BY <3>2
        <3>5. ListsAreComplete'
            BY <3>1, <3>2, <3>4 DEF ListsAreComplete
        <3>6. ASSUME NEW k \in Listers, listing'[k].at = "listing" PROVE OnItsWay(k)'
            <4>1. CASE k = l
                <5>1. listing'[k].steady = entries /\ Len(listing'[k].got) = 0
                    BY <3>1, <3>4, <4>1
                <5>2. \A x : Cardinality(EntriesAhead(x)) \in Nat
                    <6>1. \A x : EntriesAhead(x) \subseteq entries /\ IsFiniteSet(entries)
                        BY DEF EntriesAhead, Listable
                    <6> QED
                        BY <6>1, FS_Subset, FS_CardinalityType
                <5>3. \A x : EntriesAhead(x)' = EntriesAhead(x)
                    BY <3>2 DEF EntriesAhead, Precedes, NewestFirst
                <5>4. \A x : Len(listing'[k].got) <= Cardinality(EntriesAhead(x)')
                    BY <5>1, <5>2, <5>3
                <5>5. Rising(listing[k].got)'
                    BY <5>1 DEF Rising
                <5> QED
                    BY <3>2, <5>1, <5>4, <5>5 DEF OnItsWay, ShownOrAfter, ShownOrBeyond
            <4>2. CASE k # l
                BY <3>2, <3>4, <3>6, <4>2, OnItsWayStays
            <4> QED
                BY <4>1, <4>2
        <3> QED
            BY <3>2, <3>3, <3>5, <3>6
    <2>6. ASSUME NEW l \in Listers, CursorRefused(l) PROVE ListsInv'
        <3>1. /\ listing' = [listing EXCEPT ![l] = NotListing]
              /\ UNCHANGED <<subject, entries, unused, moment>>
            BY <2>6 DEF CursorRefused
        <3>2. listing' \in [Listers -> {NotListing} \cup UnderWay \cup ListingDone]
            BY <3>1
        <3>3. \A k \in Listers : listing'[k] = IF k = l THEN NotListing ELSE listing[k]
            BY <3>1
        <3>4. ListsAreComplete'
            BY <3>1, <3>3, ListingsAre DEF ListsAreComplete
        <3>5. \A k \in Listers : listing'[k].at = "listing" => OnItsWay(k)'
            BY <3>1, <3>3, ListingsAre, OnItsWayStays
        <3> QED
            BY <3>1, <3>2, <3>4, <3>5
    <2>7. CASE UNCHANGED listVars
        BY <2>7, OnItsWayStays DEF listVars, ListsAreComplete
    <2> QED
        BY <2>1, <2>2, <2>3, <2>4, <2>5, <2>6, <2>7, NextPageKeeps DEF ListsNext
<1> QED
    BY <1>1, <1>2, PTL DEF ListsSpec

\* Whatever is written, moved and removed while a list is taken page by page, it has every entry
\* that was there all the time, and no version twice, revisions apart.
THEOREM ListsStayComplete == ListsSpec => []ListsAreComplete
<1>1. ListsInv => ListsAreComplete
    BY DEF ListsInv
<1> QED
    BY <1>1, ListsInvHolds, PTL

-----------------------------------------------------------------------------
(* Updates of an agent's view. *)

ToldStates == {Absent, "there", "quiet", "pending"}
Views == [Entries -> ToldStates]
ViewChanges == Entries \X ToldStates
Points == [token : Nat, head : Nat, metadata : Views]
AtCapture == {"replied", "replied first", "paging"}
BegunReads ==
    [at : {"reading"}, view : Views, baseline : SUBSET Points, seen : Views, head : Nat,
     settled : BOOLEAN]
Answered ==
    [at : AtCapture, rows : SUBSET ViewChanges, rest : SUBSET ViewChanges, view : Views,
     token : Nat]
ReadStates == {NoRead} \cup BegunReads \cup Answered
UpdatesTypes ==
    /\ world \in Views /\ unpublished \in BOOLEAN /\ journal \in Nat
    /\ checkpoints \in Seq(Points) /\ inflight \in SUBSET Points
    /\ held \in [cursor : Nat, view : Views]
    /\ reading \in [Reads -> ReadStates]
    /\ tokens \in Nat

\* The checkpoints the server still has, its replies' pages out or not.
Remembered == ToSet(checkpoints) \cup inflight
Loud == Entries \ (Silent \cup {Context})

TokensAreUnique ==
    /\ held.cursor <= tokens
    /\ \A c \in Remembered : c.token <= tokens /\ \A d \in Remembered : c.token = d.token => c = d
    /\ \A c, d \in inflight : c = d
    /\ \A r \in Reads : reading[r].at \in AtCapture => reading[r].token <= tokens

\* What the agent holds, and what each reply adds to, is the metadata of its checkpoint.
PointsAreHeld ==
    /\ \A c \in Remembered : c.token = held.cursor => c.metadata = held.view
    /\ \A r \in Reads : reading[r].at = "reading" =>
          /\ \A c \in reading[r].baseline : c.metadata = reading[r].view
          /\ \A c, d \in reading[r].baseline : c = d
    /\ \A r \in Reads : reading[r].at \in AtCapture =>
          \A c \in Remembered : c.token = reading[r].token =>
              c.metadata = Merged(Merged(reading[r].view, reading[r].rows), reading[r].rest)

\* A head the log has not moved from speaks for the metadata read at it.
HeadsTell ==
    /\ \A c \in Remembered : c.head <= journal
          /\ (c.head = journal /\ ~unpublished => \A k \in Loud : c.metadata[k] = world[k])
    /\ \A r \in Reads : reading[r].at = "reading" =>
          /\ reading[r].head <= journal
          /\ reading[r].head = journal /\ ~unpublished =>
                reading[r].settled /\ \A k \in Loud : reading[r].seen[k] = world[k]
          /\ \A c \in reading[r].baseline : c.head = reading[r].head /\ reading[r].settled =>
                \A k \in Loud : c.metadata[k] = reading[r].seen[k]

UpdatesInv == UpdatesTypes /\ TokensAreUnique /\ PointsAreHeld /\ HeadsTell

LEMMA StatesAreTold ==
    ASSUME NEW s \in ReadStates
    PROVE  /\ s.at = "reading" => s \in BegunReads
           /\ s.at \in AtCapture => s \in Answered
<1>1. NoRead.at = "idle"
    BY DEF NoRead
<1>2. \A b \in BegunReads : b.at = "reading"
    BY DEF BegunReads
<1>3. \A a \in Answered : a.at \in AtCapture
    BY DEF Answered
<1>4. "idle" # "reading" /\ "idle" \notin AtCapture /\ "reading" \notin AtCapture
    BY DEF AtCapture
<1> QED
    BY <1>1, <1>2, <1>3, <1>4 DEF ReadStates

LEMMA AnsweredAre ==
    \A s \in Answered : /\ s.at \in AtCapture /\ s.rows \in SUBSET ViewChanges
                        /\ s.rest \in SUBSET ViewChanges /\ s.view \in Views /\ s.token \in Nat
BY DEF Answered

LEMMA BegunAre ==
    \A s \in BegunReads : /\ s.at = "reading" /\ s.view \in Views /\ s.baseline \in SUBSET Points
                     /\ s.seen \in Views /\ s.head \in Nat /\ s.settled \in BOOLEAN
BY DEF BegunReads

LEMMA MergedIsAView ==
    ASSUME NEW v \in Views, NEW rows \in SUBSET ViewChanges
    PROVE  Merged(v, rows) \in Views
<1>1. ASSUME NEW k \in Entries PROVE Merged(v, rows)[k] \in ToldStates
    <2>1. CASE \E row \in rows : row[1] = k
        <3>1. (CHOOSE row \in rows : row[1] = k) \in rows
            BY <2>1
        <3> QED
            BY <3>1, <2>1 DEF Merged, ViewChanges
    <2>2. CASE ~ \E row \in rows : row[1] = k
        BY <2>2 DEF Merged, Views
    <2> QED
        BY <2>1, <2>2
<1> QED
    BY <1>1 DEF Merged, Views

LEMMA MergedNothing ==
    ASSUME NEW v \in Views
    PROVE  Merged(v, {}) = v
BY DEF Merged, Views

LEMMA MergedInTwo ==
    ASSUME NEW before \in Views, NEW later \in Views,
           NEW first \in SUBSET {<<k, later[k]>> : k \in {k \in Entries : later[k] # before[k]}}
    PROVE  Merged(Merged(before, first),
                  {<<k, later[k]>> : k \in {k \in Entries : later[k] # before[k]}} \ first) = later
<1> DEFINE rows == {<<k, later[k]>> : k \in {k \in Entries : later[k] # before[k]}}
           half == Merged(before, first)
<1>1. \A row \in rows : row[1] \in Entries /\ row[2] = later[row[1]]
    OBVIOUS
<1>2. \A k \in Entries : later[k] # before[k] => <<k, later[k]>> \in rows
    OBVIOUS
<1>3. \A k \in Entries : (\E row \in first : row[1] = k) => half[k] = later[k]
    <2> SUFFICES ASSUME NEW k \in Entries, \E row \in first : row[1] = k
                 PROVE  half[k] = later[k]
        OBVIOUS
    <2>1. (CHOOSE row \in first : row[1] = k) \in first /\ (CHOOSE row \in first : row[1] = k)[1] = k
        OBVIOUS
    <2> QED
        BY <2>1, <1>1 DEF Merged
<1>4. \A k \in Entries : ~(\E row \in first : row[1] = k) => half[k] = before[k]
    BY DEF Merged
<1>5. ASSUME NEW k \in Entries PROVE Merged(half, rows \ first)[k] = later[k]
    <2>1. CASE \E row \in rows \ first : row[1] = k
        <3>1. /\ (CHOOSE row \in rows \ first : row[1] = k) \in rows \ first
              /\ (CHOOSE row \in rows \ first : row[1] = k)[1] = k
            BY <2>1
        <3> QED
            BY <3>1, <2>1, <1>1 DEF Merged
    <2>2. CASE ~ \E row \in rows \ first : row[1] = k
        <3>1. Merged(half, rows \ first)[k] = half[k]
            BY <2>2 DEF Merged
        <3>2. CASE \E row \in first : row[1] = k
            BY <3>1, <3>2, <1>3
        <3>3. CASE ~ \E row \in first : row[1] = k
            <4>1. ~ \E row \in rows : row[1] = k
                BY <2>2, <3>3
            <4>2. later[k] = before[k]
                BY <4>1, <1>2
            <4> QED
                BY <4>2, <3>1, <3>3, <1>4
        <3> QED
            BY <3>2, <3>3
    <2> QED
        BY <2>1, <2>2
<1>6. Merged(half, rows \ first) = [k \in Entries |-> later[k]]
    BY <1>5 DEF Merged
<1> QED
    BY <1>6 DEF Views

LEMMA SingletonsAreListed ==
    ASSUME NEW S, NEW done \in SUBSET S, done # {}, \A c, d \in done : c = d
    PROVE  SetToSeq(done) \in Seq(done)
<1>1. PICK x : done = {x}
    OBVIOUS
<1>2. Cardinality(done) = 1
    BY <1>1, FS_Singleton
<1> DEFINE f == [i \in 1..1 |-> x]
<1>3. f \in [1..Cardinality(done) -> done] /\ IsInjective(f)
    BY <1>1, <1>2 DEF IsInjective
<1>4. SetToSeq(done) \in [1..Cardinality(done) -> done]
    BY <1>3 DEF SetToSeq
<1> DEFINE row1 == SetToSeq(done)
<1>5. row1 \in [1..1 -> done]
    BY <1>4, <1>2
<1> HIDE DEF row1
<1>6. \A n \in Nat : \A g \in [1..n -> done] : g \in Seq(done)
    OBVIOUS
<1>7. row1 \in Seq(done)
    BY <1>5, <1>6, 1 \in Nat
<1> QED
    BY <1>7 DEF row1

\* The last two are of those before and the one completed, and none is lost of those whose
\* pages are under way.
LEMMA CompletingKeeps ==
    ASSUME checkpoints \in Seq(Points),
           NEW pending \in SUBSET Points, \A c, d \in pending : c = d,
           NEW cursor, Complete(pending, cursor)
    PROVE  /\ checkpoints' \in Seq(Points) /\ inflight' \in SUBSET pending
           /\ ToSet(checkpoints') \cup inflight' \subseteq ToSet(checkpoints) \cup pending
<1> DEFINE done == {c \in pending : c.token = cursor}
           kept == checkpoints \o SetToSeq(done)
<1>1. inflight' = pending \ done
    BY DEF Complete
<1>2. CASE done = {}
    BY <1>1, <1>2 DEF Complete
<1>3. CASE done # {}
    <2>1. SetToSeq(done) \in Seq(done)
        BY <1>3, SingletonsAreListed
    <2>2. SetToSeq(done) \in Seq(Points)
        BY <2>1
    <2>3. /\ kept \in Seq(Points)
          /\ \A i \in 1..Len(kept) : kept[i] \in ToSet(checkpoints) \cup done
        <3>1. kept \in Seq(Points)
            BY <2>2
        <3> SUFFICES ASSUME NEW i \in 1..Len(kept) PROVE kept[i] \in ToSet(checkpoints) \cup done
            BY <3>1
        <3>2. CASE i <= Len(checkpoints)
            BY <2>2, <3>2 DEF ToSet
        <3>3. CASE i > Len(checkpoints)
            <4>1. i - Len(checkpoints) \in 1..Len(SetToSeq(done))
                BY <3>3, <2>1
            <4>2. kept[i] = SetToSeq(done)[i - Len(checkpoints)]
                BY <3>3, <2>2
            <4>3. SetToSeq(done)[i - Len(checkpoints)] \in done
                BY <4>1, <2>1
            <4> QED
                BY <4>2, <4>3
        <3> QED
            BY <3>2, <3>3
    <2> DEFINE from == IF Len(kept) > 2 THEN Len(kept) - 1 ELSE 1
    <2>4. checkpoints' = SubSeq(kept, from, Len(kept))
        BY <1>3 DEF Complete
    <2> HIDE DEF kept, done
    <2>5. from \in Nat /\ from >= 1
        BY <2>3
    <2> HIDE DEF from
    <2>6. /\ checkpoints' \in Seq(Points)
          /\ \A i \in 1..Len(checkpoints') : checkpoints'[i] \in ToSet(checkpoints) \cup done
        <3>1. checkpoints' \in Seq(Points)
            BY <2>3, <2>4, <2>5
        <3>2. Len(checkpoints') = IF from <= Len(kept) THEN Len(kept) - from + 1 ELSE 0
            BY <2>3, <2>4, <2>5
        <3> SUFFICES ASSUME NEW i \in 1..Len(checkpoints')
                     PROVE  checkpoints'[i] \in ToSet(checkpoints) \cup done
            BY <3>1
        <3>3. from + i - 1 \in 1..Len(kept) /\ checkpoints'[i] = kept[from + i - 1]
            BY <2>3, <2>4, <2>5, <3>2
        <3> QED
            BY <3>3, <2>3
    <2>7. ToSet(checkpoints') \subseteq ToSet(checkpoints) \cup done
        BY <2>6 DEF ToSet
    <2> QED
        BY <1>1, <2>6, <2>7 DEF done
<1> QED
    BY <1>2, <1>3

LEMMA ChangeKeeps ==
    ASSUME UpdatesInv, NEW k \in Entries, NEW value \in Values(k), Change(k, value)
    PROVE  UpdatesInv'
<1> USE DEF UpdatesInv, Change
<1>1. UpdatesTypes'
    <2>1. value \in ToldStates
        BY DEF Values, ToldStates
    <2> QED
        BY <2>1 DEF UpdatesTypes, Views
<1>2. TokensAreUnique'
    BY DEF TokensAreUnique, Remembered
<1>3. PointsAreHeld'
    BY DEF PointsAreHeld, Remembered, Merged
<1>4. \A i \in Loud : ~unpublished' => world'[i] = world[i] /\ ~unpublished
    BY DEF Loud, UpdatesTypes, Views
<1>5. HeadsTell'
    <2>1. Remembered' = Remembered
        BY DEF Remembered
    <2>2. Loud # {} => (~unpublished' => ~unpublished)
        BY <1>4
    <2>3. ASSUME NEW c \in Remembered', c.head = journal', ~unpublished', NEW i \in Loud
          PROVE  c.metadata[i] = world'[i]
        BY <2>1, <2>3, <1>4 DEF HeadsTell
    <2>4. ~unpublished' => ~unpublished
        BY DEF UpdatesTypes
    <2>5. ASSUME NEW r \in Reads, reading'[r].at = "reading", reading'[r].head = journal',
                 ~unpublished'
          PROVE  reading'[r].settled /\ \A i \in Loud : reading'[r].seen[i] = world'[i]
        BY <2>4, <2>5, <1>4 DEF HeadsTell
    <2> QED
        BY <2>1, <2>3, <2>5 DEF HeadsTell, Loud
<1> QED
    BY <1>1, <1>2, <1>3, <1>5

LEMMA PublishingKeeps ==
    ASSUME UpdatesInv, PublishNews
    PROVE  UpdatesInv'
<1> USE DEF UpdatesInv, PublishNews
<1>1. UpdatesTypes'
    <2>1. journal' \in Nat
        BY DEF UpdatesTypes
    <2> QED
        BY <2>1 DEF UpdatesTypes
<1>2. TokensAreUnique'
    BY DEF TokensAreUnique, Remembered
<1>3. PointsAreHeld'
    BY DEF PointsAreHeld, Remembered, Merged
<1>4. HeadsTell'
    <2>1. Remembered' = Remembered /\ Remembered \subseteq Points
        BY DEF Remembered, UpdatesTypes, ToSet
    <2>2. \A c \in Remembered : c.head <= journal' /\ c.head # journal'
        BY <2>1 DEF HeadsTell, UpdatesTypes, Points
    <2>3. \A r \in Reads : reading[r].at = "reading" => reading[r].head \in Nat
        BY StatesAreTold, BegunAre DEF UpdatesTypes
    <2>4. \A r \in Reads : reading[r].at = "reading" =>
              reading[r].head <= journal' /\ reading[r].head # journal'
        BY <2>3 DEF HeadsTell, UpdatesTypes
    <2> QED
        BY <2>1, <2>2, <2>4 DEF HeadsTell, Loud
<1> QED
    BY <1>1, <1>2, <1>3, <1>4

LEMMA RestartKeeps ==
    ASSUME UpdatesInv, ServerRestarts
    PROVE  UpdatesInv'
<1> USE DEF UpdatesInv, ServerRestarts
<1>1. ToSet(checkpoints') = {} /\ inflight' = {}
    BY DEF ToSet
<1>2. \A r \in Reads : reading'[r] = NoRead /\ reading'[r].at = "idle"
    BY DEF NoRead
<1>3. UpdatesTypes'
    BY <1>2 DEF UpdatesTypes, ReadStates
<1>4. TokensAreUnique'
    BY <1>1, <1>2 DEF TokensAreUnique, Remembered, AtCapture
<1>5. PointsAreHeld'
    BY <1>1, <1>2 DEF PointsAreHeld, Remembered, AtCapture
<1>6. HeadsTell'
    BY <1>1, <1>2 DEF HeadsTell, Remembered
<1> QED
    BY <1>3, <1>4, <1>5, <1>6

LEMMA BeginningKeeps ==
    ASSUME UpdatesInv, NEW r \in Reads, ReadBegins(r)
    PROVE  UpdatesInv'
<1> USE DEF UpdatesInv
<1>1. PICK baseline \in SUBSET Known(held.cursor) :
          reading' = [reading EXCEPT ![r] =
             [at |-> "reading", view |-> held.view, baseline |-> baseline,
              seen |-> world, head |-> journal, settled |-> ~unpublished]]
    BY DEF ReadBegins
<1> DEFINE new == [at |-> "reading", view |-> held.view, baseline |-> baseline,
                   seen |-> world, head |-> journal, settled |-> ~unpublished]
<1>2. /\ UNCHANGED <<world, unpublished, journal, checkpoints, inflight, held, changes, tokens>>
      /\ Remembered' = Remembered
    BY DEF ReadBegins, Remembered
<1>3. baseline \subseteq Remembered /\ Remembered \subseteq Points
    BY DEF Known, Remembered, UpdatesTypes, ToSet
<1>4. \A c \in baseline : c.token = held.cursor
    BY DEF Known
<1>5. new \in ReadStates
    BY <1>3 DEF ReadStates, BegunReads, UpdatesTypes
<1>6. reading'[r] = new /\ \A q \in Reads \ {r} : reading'[q] = reading[q]
    BY <1>1 DEF UpdatesTypes
<1>7. /\ new.at = "reading" /\ new.view = held.view /\ new.baseline = baseline
      /\ new.seen = world /\ new.head = journal /\ new.settled = ~unpublished
    OBVIOUS
<1> HIDE DEF new
<1>8. UpdatesTypes'
    BY <1>1, <1>2, <1>5 DEF UpdatesTypes, new
<1>9. TokensAreUnique'
    BY <1>2, <1>6, <1>7 DEF TokensAreUnique, AtCapture
<1>10. PointsAreHeld'
    <2>1. ASSUME NEW c \in baseline PROVE c.metadata = held.view
        BY <1>3, <1>4 DEF PointsAreHeld
    <2>2. \A c, d \in baseline : c = d
        BY <1>3, <1>4 DEF TokensAreUnique
    <2>3. \A q \in Reads : reading'[q].at = "reading" =>
              /\ \A c \in reading'[q].baseline : c.metadata = reading'[q].view
              /\ \A c, d \in reading'[q].baseline : c = d
        BY <1>6, <1>7, <2>1, <2>2 DEF PointsAreHeld
    <2>4. \A q \in Reads : reading'[q].at \in AtCapture => q # r /\ reading'[q] = reading[q]
        BY <1>6, <1>7 DEF AtCapture
    <2> QED
        BY <1>2, <2>3, <2>4 DEF PointsAreHeld, Merged
<1>11. HeadsTell'
    <2>1. \A c \in baseline : c.head = journal /\ ~unpublished =>
              \A k \in Loud : c.metadata[k] = world[k]
        BY <1>3 DEF HeadsTell
    <2>2. ASSUME NEW q \in Reads, reading'[q].at = "reading"
          PROVE  /\ reading'[q].head <= journal'
                 /\ reading'[q].head = journal' /\ ~unpublished' =>
                       reading'[q].settled /\ \A k \in Loud : reading'[q].seen[k] = world'[k]
                 /\ \A c \in reading'[q].baseline :
                       c.head = reading'[q].head /\ reading'[q].settled =>
                          \A k \in Loud : c.metadata[k] = reading'[q].seen[k]
        <3>1. CASE q = r
            <4>1. new.head <= journal'
                BY <1>2, <1>7 DEF UpdatesTypes
            <4> QED
                BY <3>1, <4>1, <1>2, <1>6, <1>7, <2>1
        <3>2. CASE q # r
            BY <3>2, <1>2, <1>6, <2>2 DEF HeadsTell
        <3> QED
            BY <3>1, <3>2
    <2> QED
        BY <1>2, <2>2 DEF HeadsTell, Loud
<1> QED
    BY <1>8, <1>9, <1>10, <1>11

\* What the reply of a read would say is a view, and what it remembers is true of its head.
LEMMA MetadataTells ==
    ASSUME UpdatesInv, NEW r \in Reads, reading[r].at = "reading"
    PROVE  /\ Metadata(r) \in Views
           /\ reading[r].settled => \A k \in Loud : Metadata(r)[k] = reading[r].seen[k]
<1> USE DEF UpdatesInv
<1>1. /\ reading[r].baseline \in SUBSET Points /\ reading[r].seen \in Views
      /\ reading[r].head \in Nat /\ reading[r].view \in Views
    BY StatesAreTold, BegunAre DEF UpdatesTypes
<1>2. CASE \E c \in reading[r].baseline : c.head = reading[r].head
    <2>1. PICK c \in reading[r].baseline : c.head = reading[r].head
        BY <1>2
    <2>2. (CHOOSE d \in reading[r].baseline : TRUE) = c
        BY <2>1 DEF PointsAreHeld
    <2>3. Metadata(r) = [k \in Entries |-> IF k = Context THEN reading[r].seen[k]
                                                        ELSE c.metadata[k]]
        BY <1>2, <2>2 DEF Metadata
    <2>4. c.metadata \in Views
        BY <1>1 DEF Points
    <2>5. reading[r].settled => \A k \in Loud : c.metadata[k] = reading[r].seen[k]
        BY <2>1 DEF HeadsTell
    <2>6. Metadata(r) \in Views
        BY <2>3, <2>4, <1>1 DEF Views
    <2> QED
        BY <2>3, <2>5, <2>6 DEF Loud
<1>3. CASE ~ \E c \in reading[r].baseline : c.head = reading[r].head
    BY <1>1, <1>3 DEF Metadata
<1> QED
    BY <1>2, <1>3

\* The checkpoints only move: what was true of those remembered stays so.
LEMMA PagingKeeps ==
    ASSUME UpdatesInv, NEW r \in Reads, ReadPage(r)
    PROVE  UpdatesInv'
<1> USE DEF UpdatesInv
<1>1. /\ checkpoints' \in Seq(Points) /\ inflight' \in SUBSET inflight
      /\ Remembered' \subseteq Remembered
    <2>1. Complete(inflight, reading[r].token)
        BY DEF ReadPage
    <2> QED
        BY <2>1, CompletingKeeps DEF UpdatesTypes, TokensAreUnique, Remembered
<1>2. /\ UNCHANGED <<world, unpublished, journal, held, changes, tokens>>
      /\ reading' = [reading EXCEPT ![r].at = "replied"] /\ reading[r].at = "paging"
    BY DEF ReadPage
<1>3. /\ reading[r] \in Answered
      /\ reading'[r] = [reading[r] EXCEPT !.at = "replied"]
      /\ \A q \in Reads \ {r} : reading'[q] = reading[q]
    BY <1>2, StatesAreTold DEF UpdatesTypes, AtCapture
<1>4. /\ reading'[r] \in Answered
      /\ reading'[r].at = "replied" /\ reading'[r].view = reading[r].view
      /\ reading'[r].rows = reading[r].rows /\ reading'[r].rest = reading[r].rest
      /\ reading'[r].token = reading[r].token
    BY <1>3 DEF Answered, AtCapture
<1>5. UpdatesTypes'
    BY <1>1, <1>2, <1>4 DEF UpdatesTypes, ReadStates
<1>6. \A q \in Reads : reading'[q].at = "reading" => q # r /\ reading'[q] = reading[q]
    BY <1>3, <1>4
<1>7. \A q \in Reads : reading'[q].at \in AtCapture =>
          /\ reading[q].at \in AtCapture /\ reading'[q].view = reading[q].view
          /\ reading'[q].rows = reading[q].rows /\ reading'[q].rest = reading[q].rest
          /\ reading'[q].token = reading[q].token
    BY <1>2, <1>3, <1>4 DEF AtCapture
<1>8. TokensAreUnique'
    BY <1>1, <1>2, <1>7 DEF TokensAreUnique
<1>9. PointsAreHeld'
    BY <1>1, <1>2, <1>6, <1>7 DEF PointsAreHeld, Merged
<1>10. HeadsTell'
    BY <1>1, <1>2, <1>6 DEF HeadsTell, Loud
<1> QED
    BY <1>5, <1>8, <1>9, <1>10

LEMMA AskingKeeps ==
    ASSUME UpdatesInv, NEW r \in Reads, AskAgain(r)
    PROVE  UpdatesInv'
<1> USE DEF UpdatesInv
<1>1. /\ UNCHANGED <<world, unpublished, journal, checkpoints, inflight, held, changes, tokens>>
      /\ reading' = [reading EXCEPT ![r].at = "paging"] /\ reading[r].at = "replied"
      /\ Remembered' = Remembered
    BY DEF AskAgain, Remembered
<1>2. /\ reading[r] \in Answered
      /\ reading'[r] = [reading[r] EXCEPT !.at = "paging"]
      /\ \A q \in Reads \ {r} : reading'[q] = reading[q]
    BY <1>1, StatesAreTold DEF UpdatesTypes, AtCapture
<1>3. /\ reading'[r] \in Answered
      /\ reading'[r].at = "paging" /\ reading'[r].view = reading[r].view
      /\ reading'[r].rows = reading[r].rows /\ reading'[r].rest = reading[r].rest
      /\ reading'[r].token = reading[r].token
    BY <1>2 DEF Answered, AtCapture
<1>4. UpdatesTypes'
    BY <1>1, <1>3 DEF UpdatesTypes, ReadStates
<1>5. \A q \in Reads : reading'[q].at = "reading" => q # r /\ reading'[q] = reading[q]
    BY <1>2, <1>3
<1>6. \A q \in Reads : reading'[q].at \in AtCapture =>
          /\ reading[q].at \in AtCapture /\ reading'[q].view = reading[q].view
          /\ reading'[q].rows = reading[q].rows /\ reading'[q].rest = reading[q].rest
          /\ reading'[q].token = reading[q].token
    BY <1>1, <1>2, <1>3 DEF AtCapture
<1>7. TokensAreUnique'
    BY <1>1, <1>6 DEF TokensAreUnique
<1>8. PointsAreHeld'
    BY <1>1, <1>5, <1>6 DEF PointsAreHeld, Merged
<1>9. HeadsTell'
    BY <1>1, <1>5 DEF HeadsTell, Loud
<1> QED
    BY <1>4, <1>7, <1>8, <1>9

LEMMA GivingUpKeeps ==
    ASSUME UpdatesInv, NEW r \in Reads, GiveUpRead(r)
    PROVE  UpdatesInv'
<1> USE DEF UpdatesInv
<1>1. /\ UNCHANGED <<world, unpublished, journal, checkpoints, inflight, held, changes, tokens>>
      /\ reading' = [reading EXCEPT ![r] = NoRead] /\ Remembered' = Remembered
    BY DEF GiveUpRead, Remembered
<1>2. /\ reading'[r] = NoRead /\ reading'[r].at = "idle"
      /\ \A q \in Reads \ {r} : reading'[q] = reading[q]
    BY <1>1 DEF UpdatesTypes, NoRead
<1>3. UpdatesTypes'
    BY <1>1 DEF UpdatesTypes, ReadStates
<1>4. \A q \in Reads : reading'[q].at \in AtCapture \cup {"reading"} => reading'[q] = reading[q]
    BY <1>2 DEF AtCapture
<1>5. TokensAreUnique'
    BY <1>1, <1>4 DEF TokensAreUnique
<1>6. PointsAreHeld'
    BY <1>1, <1>4 DEF PointsAreHeld, Merged
<1>7. HeadsTell'
    BY <1>1, <1>4 DEF HeadsTell, Loud
<1> QED
    BY <1>3, <1>5, <1>6, <1>7

LEMMA TakingKeeps ==
    ASSUME UpdatesInv, NEW r \in Reads, TakeReply(r)
    PROVE  UpdatesInv'
<1> USE DEF UpdatesInv
<1> DEFINE view == Merged(reading[r].view, reading[r].rows)
<1>1. /\ UNCHANGED <<world, unpublished, journal, checkpoints, inflight, changes, tokens>>
      /\ Remembered' = Remembered
    BY DEF TakeReply, Remembered
<1>2. /\ reading[r].at \in AtCapture
      /\ reading[r] \in Answered
    BY StatesAreTold DEF TakeReply, UpdatesTypes, AtCapture
<1>3. view \in Views
    BY <1>2, AnsweredAre, MergedIsAView
<1>4. \A c \in Remembered : c.token = reading[r].token => c.metadata = Merged(view, reading[r].rest)
    BY <1>2 DEF PointsAreHeld
<1>5. CASE reading[r].rest # {}
    <2> DEFINE new == [at |-> "paging", rows |-> reading[r].rest, rest |-> {}, view |-> view,
                       token |-> reading[r].token]
    <2>1. /\ reading' = [reading EXCEPT ![r] = new] /\ held' = held
        BY <1>5 DEF TakeReply
    <2>2. reading'[r] = new /\ \A q \in Reads \ {r} : reading'[q] = reading[q]
        BY <2>1 DEF UpdatesTypes
    <2>3. new \in ReadStates
        BY <1>2, <1>3, AnsweredAre DEF ReadStates, Answered, AtCapture
    <2>4. Merged(Merged(view, reading[r].rest), {}) = Merged(view, reading[r].rest)
        BY <1>2, <1>3, AnsweredAre, MergedIsAView, MergedNothing
    <2>5. /\ new.at = "paging" /\ new.rows = reading[r].rest /\ new.rest = {}
          /\ new.view = view /\ new.token = reading[r].token
        OBVIOUS
    <2> HIDE DEF new
    <2>6. UpdatesTypes'
        BY <1>1, <2>1, <2>3 DEF UpdatesTypes
    <2>7. TokensAreUnique'
        BY <1>1, <1>2, <2>1, <2>2, <2>5 DEF TokensAreUnique
    <2>8. \A q \in Reads : reading'[q].at = "reading" => q # r /\ reading'[q] = reading[q]
        BY <2>2, <2>5
    <2>9. ASSUME NEW q \in Reads, reading'[q].at \in AtCapture, NEW c \in Remembered,
                 c.token = reading'[q].token
          PROVE  c.metadata = Merged(Merged(reading'[q].view, reading'[q].rows), reading'[q].rest)
        <3>1. CASE q = r
            BY <3>1, <1>4, <2>2, <2>4, <2>5, <2>9
        <3>2. CASE q # r
            BY <3>2, <2>2, <2>9 DEF PointsAreHeld
        <3> QED
            BY <3>1, <3>2
    <2>10. PointsAreHeld'
        BY <1>1, <2>1, <2>8, <2>9 DEF PointsAreHeld, Merged
    <2>11. HeadsTell'
        BY <1>1, <2>8 DEF HeadsTell, Loud
    <2> QED
        BY <2>6, <2>7, <2>10, <2>11
<1>6. CASE reading[r].rest = {}
    <2>1. /\ reading' = [reading EXCEPT ![r] = NoRead]
          /\ held' = [cursor |-> reading[r].token, view |-> view]
        BY <1>6 DEF TakeReply
    <2>2. /\ reading'[r] = NoRead /\ reading'[r].at = "idle"
          /\ \A q \in Reads \ {r} : reading'[q] = reading[q]
        BY <2>1 DEF UpdatesTypes, NoRead
    <2>3. held'.cursor = reading[r].token /\ held'.view = view
        BY <2>1
    <2>4. UpdatesTypes'
        BY <1>1, <1>2, <1>3, <2>1, AnsweredAre DEF UpdatesTypes, ReadStates
    <2>5. \A q \in Reads : reading'[q].at \in AtCapture \cup {"reading"} => reading'[q] = reading[q]
        BY <2>2 DEF AtCapture
    <2>6. TokensAreUnique'
        BY <1>1, <1>2, <2>3, <2>5 DEF TokensAreUnique
    <2>7. \A c \in Remembered : c.token = held'.cursor => c.metadata = held'.view
        BY <1>3, <1>4, <1>6, <2>3, MergedNothing
    <2>8. PointsAreHeld'
        BY <1>1, <2>5, <2>7 DEF PointsAreHeld, Merged
    <2>9. HeadsTell'
        BY <1>1, <2>5 DEF HeadsTell, Loud
    <2> QED
        BY <2>4, <2>6, <2>8, <2>9
<1> QED
    BY <1>5, <1>6

LEMMA EndingKeeps ==
    ASSUME UpdatesInv, NEW r \in Reads, ReadEnds(r)
    PROVE  UpdatesInv'
<1> USE DEF UpdatesInv
<1>1. /\ UNCHANGED <<world, unpublished, journal, held, changes>>
      /\ reading[r].at = "reading"
    BY DEF ReadEnds
<1>2. CASE Rows(r) = {}
    <2>1. /\ reading' = [reading EXCEPT ![r] = NoRead]
          /\ UNCHANGED <<checkpoints, inflight, tokens>> /\ Remembered' = Remembered
        BY <1>2 DEF ReadEnds, Remembered
    <2>2. /\ reading'[r] = NoRead /\ reading'[r].at = "idle"
          /\ \A q \in Reads \ {r} : reading'[q] = reading[q]
        BY <2>1 DEF UpdatesTypes, NoRead
    <2>3. UpdatesTypes'
        BY <1>1, <2>1 DEF UpdatesTypes, ReadStates
    <2>4. \A q \in Reads : reading'[q].at \in AtCapture \cup {"reading"} => reading'[q] = reading[q]
        BY <2>2 DEF AtCapture
    <2>5. TokensAreUnique'
        BY <1>1, <2>1, <2>4 DEF TokensAreUnique
    <2>6. PointsAreHeld'
        BY <1>1, <2>1, <2>4 DEF PointsAreHeld, Merged
    <2>7. HeadsTell'
        BY <1>1, <2>1, <2>4 DEF HeadsTell, Loud
    <2> QED
        BY <2>3, <2>5, <2>6, <2>7
<1>3. CASE Rows(r) # {}
    <2> DEFINE base == IF reading[r].baseline = {} THEN Nothing ELSE reading[r].view
               before == IF reading[r].baseline = {} THEN Nothing
                         ELSE (CHOOSE c \in reading[r].baseline : TRUE).metadata
    <2>1. PICK first \in (SUBSET Rows(r)) \ {{}} :
              /\ Complete({Checkpointed(r)}, IF first = Rows(r) THEN tokens + 1 ELSE 0)
              /\ reading' = [reading EXCEPT ![r] =
                    [at |-> "replied first", rows |-> first, rest |-> Rows(r) \ first,
                     view |-> base, token |-> tokens + 1]]
        BY <1>3 DEF ReadEnds
    <2> DEFINE new == [at |-> "replied first", rows |-> first, rest |-> Rows(r) \ first,
                       view |-> base, token |-> tokens + 1]
               point == Checkpointed(r)
    <2>2. tokens' = tokens + 1
        BY <1>3 DEF ReadEnds
    <2>3. /\ reading[r].baseline \in SUBSET Points /\ reading[r].view \in Views
          /\ reading[r].head \in Nat
        BY <1>1, StatesAreTold, BegunAre DEF UpdatesTypes
    <2>4. base = before /\ base \in Views
        <3>1. Nothing \in Views
            BY DEF Nothing, Views, ToldStates
        <3>2. reading[r].baseline # {} =>
                  (CHOOSE c \in reading[r].baseline : TRUE).metadata = reading[r].view
            BY <1>1 DEF PointsAreHeld
        <3> QED
            BY <2>3, <3>1, <3>2
    <2>5. /\ Metadata(r) \in Views
          /\ reading[r].settled => \A k \in Loud : Metadata(r)[k] = reading[r].seen[k]
        BY <1>1, MetadataTells
    <2>6. /\ point \in Points /\ point.token = tokens + 1 /\ point.head = reading[r].head
          /\ point.metadata = Metadata(r)
        BY <2>3, <2>5 DEF Checkpointed, Points, UpdatesTypes
    <2>7. /\ checkpoints' \in Seq(Points) /\ inflight' \in SUBSET {point}
          /\ Remembered' \subseteq Remembered \cup {point}
        <3>1. {point} \in SUBSET Points /\ \A c, d \in {point} : c = d
            BY <2>6
        <3> QED
            BY <2>1, <3>1, CompletingKeeps DEF UpdatesTypes, Remembered
    <2> HIDE DEF point
    <2>8. reading'[r] = new /\ \A q \in Reads \ {r} : reading'[q] = reading[q]
        BY <2>1 DEF UpdatesTypes
    <2>9. Rows(r) = {<<k, Metadata(r)[k]>> : k \in {k \in Entries : Metadata(r)[k] # base[k]}}
        BY <2>4 DEF Rows
    <2>10. Merged(Merged(base, first), Rows(r) \ first) = Metadata(r)
        BY <2>4, <2>5, <2>9, MergedInTwo
    <2>11. Rows(r) \subseteq ViewChanges
        BY <2>5, <2>9 DEF Views, ViewChanges
    <2>12. new \in ReadStates
        <3>1. tokens + 1 \in Nat
            BY DEF UpdatesTypes
        <3>2. "replied first" \in AtCapture
            BY DEF AtCapture
        <3>3. first \in SUBSET ViewChanges /\ Rows(r) \ first \in SUBSET ViewChanges
            BY <2>11
        <3>4. new \in Answered
            BY <2>4, <3>1, <3>2, <3>3 DEF Answered
        <3> QED
            BY <3>4 DEF ReadStates
    <2>13. /\ new.at = "replied first" /\ new.rows = first /\ new.rest = Rows(r) \ first
           /\ new.view = base /\ new.token = tokens + 1
        OBVIOUS
    <2> HIDE DEF new, base, before
    <2>14. UpdatesTypes'
        <3>1. tokens' \in Nat
            BY <2>2 DEF UpdatesTypes
        <3>2. reading' = [reading EXCEPT ![r] = new]
            BY <2>1 DEF new
        <3>3. inflight' \in SUBSET Points
            BY <2>6, <2>7
        <3> QED
            BY <1>1, <2>7, <2>12, <3>1, <3>2, <3>3 DEF UpdatesTypes
    <2>15. \A q \in Reads : reading'[q].at = "reading" => q # r /\ reading'[q] = reading[q]
        BY <2>8, <2>13
    <2>16. \A c \in Remembered : c.token <= tokens /\ c.token \in Nat
        <3>1. Remembered \subseteq Points
            BY DEF Remembered, UpdatesTypes, ToSet
        <3> QED
            BY <3>1 DEF TokensAreUnique, Points
    <2>17. TokensAreUnique'
        <3>1. held'.cursor <= tokens'
            BY <1>1, <2>2 DEF TokensAreUnique, UpdatesTypes
        <3>2. \A c \in Remembered' : c.token <= tokens'
            BY <2>2, <2>6, <2>7, <2>16 DEF UpdatesTypes
        <3>3. \A c, d \in Remembered' : c.token = d.token => c = d
            BY <2>6, <2>7, <2>16 DEF TokensAreUnique, UpdatesTypes
        <3>4. ASSUME NEW q \in Reads, reading'[q].at \in AtCapture
              PROVE  reading'[q].token <= tokens'
            <4>1. CASE q = r
                <5>1. tokens' <= tokens'
                    BY <2>2 DEF UpdatesTypes
                <5> QED
                    BY <4>1, <5>1, <2>2, <2>8, <2>13
            <4>2. CASE q # r
                <5>1. reading'[q] = reading[q] /\ reading[q].token \in Nat
                    BY <4>2, <3>4, <2>8, StatesAreTold, AnsweredAre DEF UpdatesTypes
                <5> QED
                    BY <5>1, <3>4, <2>2 DEF TokensAreUnique, UpdatesTypes
            <4> QED
                BY <4>1, <4>2
        <3> QED
            BY <2>7, <3>1, <3>2, <3>3, <3>4 DEF TokensAreUnique
    <2>18. PointsAreHeld'
        <3>1. \A c \in Remembered' : c.token = held'.cursor => c.metadata = held'.view
            BY <1>1, <2>6, <2>7 DEF PointsAreHeld, TokensAreUnique, UpdatesTypes
        <3>2. ASSUME NEW q \in Reads, reading'[q].at \in AtCapture, NEW c \in Remembered',
                     c.token = reading'[q].token
              PROVE  c.metadata =
                         Merged(Merged(reading'[q].view, reading'[q].rows), reading'[q].rest)
            <4>1. CASE q = r
                <5>1. c.token = tokens + 1
                    BY <4>1, <3>2, <2>8, <2>13
                <5>2. c = point
                    BY <5>1, <2>7, <2>16 DEF UpdatesTypes
                <5> QED
                    BY <5>2, <4>1, <2>6, <2>8, <2>10, <2>13
            <4>2. CASE q # r
                <5>1. reading'[q] = reading[q] /\ reading[q].token <= tokens
                      /\ reading[q].token \in Nat
                    BY <4>2, <3>2, <2>8, StatesAreTold, AnsweredAre
                       DEF UpdatesTypes, TokensAreUnique
                <5>2. c \in Remembered
                    BY <5>1, <3>2, <2>6, <2>7 DEF UpdatesTypes
                <5> QED
                    BY <5>1, <5>2, <3>2 DEF PointsAreHeld
            <4> QED
                BY <4>1, <4>2
        <3> QED
            BY <2>15, <3>1, <3>2 DEF PointsAreHeld, Merged
    <2>19. HeadsTell'
        <3>1. /\ reading[r].head <= journal
              /\ reading[r].head = journal /\ ~unpublished =>
                    reading[r].settled /\ \A k \in Loud : reading[r].seen[k] = world[k]
            BY <1>1 DEF HeadsTell
        <3>2. \A c \in Remembered' : c.head <= journal'
                  /\ (c.head = journal' /\ ~unpublished' =>
                         \A k \in Loud : c.metadata[k] = world'[k])
            BY <1>1, <2>5, <2>6, <2>7, <3>1 DEF HeadsTell
        <3> QED
            BY <1>1, <2>15, <3>2 DEF HeadsTell, Loud
    <2> QED
        BY <2>14, <2>17, <2>18, <2>19
<1> QED
    BY <1>2, <1>3

LEMMA UpdatesInvHolds == UpdatesSpec => []UpdatesInv
<1>1. UpdatesInit => UpdatesInv
    <2> SUFFICES ASSUME UpdatesInit PROVE UpdatesInv
        OBVIOUS
    <2> USE DEF UpdatesInit
    <2>1. Nothing \in Views /\ world \in Views
        BY DEF Nothing, Views, ToldStates, Entries
    <2>2. ToSet(checkpoints) = {}
        BY DEF ToSet
    <2>3. \A r \in Reads : reading[r] = NoRead /\ reading[r].at = "idle"
        BY DEF NoRead
    <2>4. reading \in [Reads -> ReadStates]
        BY <2>3 DEF ReadStates
    <2>5. UpdatesTypes
        <3>1. held \in [cursor : Nat, view : Views]
            BY <2>1
        <3>2. checkpoints \in Seq(Points)
            OBVIOUS
        <3> QED
            BY <2>1, <2>4, <3>1, <3>2 DEF UpdatesTypes
    <2>6. TokensAreUnique
        <3>1. held.cursor <= tokens
            OBVIOUS
        <3> QED
            BY <2>2, <2>3, <3>1 DEF TokensAreUnique, Remembered, AtCapture
    <2>7. PointsAreHeld
        BY <2>2, <2>3 DEF PointsAreHeld, Remembered, AtCapture
    <2>8. HeadsTell
        BY <2>2, <2>3 DEF HeadsTell, Remembered
    <2> QED
        BY <2>5, <2>6, <2>7, <2>8 DEF UpdatesInv
<1>2. UpdatesInv /\ [UpdatesNext]_updateVars => UpdatesInv'
    <2> SUFFICES ASSUME UpdatesInv, [UpdatesNext]_updateVars PROVE UpdatesInv'
        OBVIOUS
    <2> USE DEF UpdatesInv
    <2>1. ASSUME NEW k \in Entries, NEW value \in Values(k), Change(k, value) PROVE UpdatesInv'
        BY <2>1, ChangeKeeps
    <2>2. CASE PublishNews
        BY <2>2, PublishingKeeps
    <2>3. CASE ServerRestarts
        BY <2>3, RestartKeeps
    <2>4. ASSUME NEW r \in Reads, ReadBegins(r) PROVE UpdatesInv'
        BY <2>4, BeginningKeeps
    <2>5. ASSUME NEW r \in Reads, ReadEnds(r) PROVE UpdatesInv'
        BY <2>5, EndingKeeps
    <2>6. ASSUME NEW r \in Reads, ReadPage(r) PROVE UpdatesInv'
        BY <2>6, PagingKeeps
    <2>7. ASSUME NEW r \in Reads, TakeReply(r) PROVE UpdatesInv'
        BY <2>7, TakingKeeps
    <2>8. ASSUME NEW r \in Reads, AskAgain(r) PROVE UpdatesInv'
        BY <2>8, AskingKeeps
    <2>9. ASSUME NEW r \in Reads, GiveUpRead(r) PROVE UpdatesInv'
        BY <2>9, GivingUpKeeps
    <2>10. CASE UNCHANGED updateVars
        BY <2>10 DEF updateVars, UpdatesTypes, TokensAreUnique, PointsAreHeld, HeadsTell,
                     Remembered, Loud, Merged
    <2> QED
        BY <2>1, <2>2, <2>3, <2>4, <2>5, <2>6, <2>7, <2>8, <2>9, <2>10 DEF UpdatesNext
<1> QED
    BY <1>1, <1>2, PTL DEF UpdatesSpec

THEOREM AgentsAlwaysKeepUp == UpdatesSpec => []AgentsKeepUp
<1>1. UpdatesInv => AgentsKeepUp
    <2> SUFFICES ASSUME UpdatesInv PROVE AgentsKeepUp
        OBVIOUS
    <2> USE DEF UpdatesInv
    <2>1. ViewsMatchCheckpoints
        BY DEF ViewsMatchCheckpoints, PointsAreHeld, Remembered
    <2>2. ASSUME NEW r \in Reads, reading[r].at = "reading", reading[r].settled,
                 NEW k \in Entries \ Silent
          PROVE  Metadata(r)[k] = reading[r].seen[k]
        <3>1. CASE \E c \in reading[r].baseline : c.head = reading[r].head
            <4>1. PICK c \in reading[r].baseline : c.head = reading[r].head
                BY <3>1
            <4>2. (CHOOSE d \in reading[r].baseline : TRUE) = c
                BY <4>1, <2>2 DEF PointsAreHeld
            <4>3. k # Context => c.metadata[k] = reading[r].seen[k]
                BY <4>1, <2>2 DEF HeadsTell, Loud
            <4> QED
                BY <3>1, <4>2, <4>3 DEF Metadata
        <3>2. CASE ~ \E c \in reading[r].baseline : c.head = reading[r].head
            BY <3>2 DEF Metadata
        <3> QED
            BY <3>1, <3>2
    <2> QED
        BY <2>1, <2>2 DEF AgentsKeepUp, RepliesAreFresh
<1> QED
    BY <1>1, UpdatesInvHolds, PTL

-----------------------------------------------------------------------------
(* Messages and who is told of them. *)

AllReasons == {"followed_message", "direct_mention", "here", "global", "thread_activity"}

PostNotices ==
    [id : Members \X Nat, of : Members, topic : Topics, event : Nat, reasons : SUBSET AllReasons]

PostCommits ==
    [at : {"open"}, topic : Topics, author : Members,
     mentions : [agents : SUBSET Members, here : BOOLEAN, global : BOOLEAN],
     around : SUBSET Members, follows : SUBSET (Members \X Topics), notices : SUBSET PostNotices]

PostsTypes ==
    /\ around \subseteq Members /\ follows \subseteq Members \X Topics
    /\ notices \subseteq PostNotices
    /\ post \in [Topics -> {NoPost} \cup PostCommits]
    /\ posts \in Nat
    /\ mustKnow \subseteq [of : Members, topic : Topics, event : Nat, why : {{"named"}, Activity}]

\* A row has an id of its own, which says whose it is.
RowsAreIdentified ==
    /\ \A m, n \in notices : m.id = n.id => m = n
    /\ \A n \in notices : n.id[1] = n.of /\ n.id[2] <= posts /\ n.event <= posts
    /\ \A m \in mustKnow : m.event <= posts

\* A commit knows the rows of its thread: other commits write of other threads.
SnapshotsHaveTheThread ==
    \A t \in Topics : post[t] # NoPost =>
        post[t].topic = t /\ \A n \in notices : n.topic = t => n \in post[t].notices

\* A row says of a message that it is mere activity only to whom it is.
ReasonsAreRight ==
    \A m \in mustKnow, n \in notices :
        n.of = m.of /\ n.topic = m.topic /\ n.event = m.event /\ n.reasons = Activity
            => m.why = Activity

PostsInv ==
    PostsTypes /\ RowsAreIdentified /\ SnapshotsHaveTheThread /\ ReasonsAreRight /\ PostsReach

LEMMA ReasonsAre ==
  ASSUME NEW p \in PostCommits, NEW i \in Members
  PROVE  /\ Reasons(p, i) \in SUBSET AllReasons
         /\ i \in p.around \cup p.mentions.agents => Reasons(p, i) # {}
         /\ Reasons(p, i) = Activity =>
               /\ i \in p.around /\ i \notin p.mentions.agents
               /\ ~p.mentions.global /\ <<i, p.topic>> \notin p.follows
<1> DEFINE online == i \in p.around
           follower == online /\ <<i, p.topic>> \in p.follows
           named == (IF follower THEN {"followed_message"} ELSE {})
                    \cup (IF i \in p.mentions.agents THEN {"direct_mention"} ELSE {})
                    \cup (IF p.mentions.here /\ follower THEN {"here"} ELSE {})
                    \cup (IF p.mentions.global /\ online THEN {"global"} ELSE {})
<1>1. Reasons(p, i) = IF online /\ named = {} THEN Activity ELSE named
  BY DEF Reasons
<1>2. named \in SUBSET AllReasons /\ "thread_activity" \notin named
  BY DEF AllReasons
<1>3. /\ follower => "followed_message" \in named
      /\ i \in p.mentions.agents => "direct_mention" \in named
      /\ p.mentions.global /\ online => "global" \in named
  OBVIOUS
<1> HIDE DEF named
<1>4. Activity \in SUBSET AllReasons /\ Activity # {} /\ named # Activity
  BY <1>2 DEF Activity, AllReasons
<1> QED
  BY <1>1, <1>2, <1>3, <1>4

LEMMA CommitKeeps ==
  ASSUME PostsInv, NEW t \in Topics, CommitPost(t)
  PROVE  PostsInv'
<1> DEFINE p == post[t]
           event == posts + 1
           old(i) == {n \in p.notices : Replaces(p, i, n)}
           idOf(i) == IF old(i) = {} THEN <<i, event>> ELSE (CHOOSE n \in old(i) : TRUE).id
           row(i) == [id |-> idOf(i), of |-> i, topic |-> t, event |-> event,
                      reasons |-> Reasons(p, i)]
           new == {row(i) : i \in Recipients(p)}
           why(i) == IF i \in p.mentions.agents \/ p.mentions.global \/ <<i, t>> \in p.follows
                     THEN {"named"} ELSE Activity
           told == (p.around \cup p.mentions.agents) \ {p.author}
           toldOf == {[of |-> i, topic |-> t, event |-> event, why |-> why(i)] : i \in told}
<1>1. /\ p # NoPost /\ NoConflict(p)
      /\ notices' = {n \in notices : \A m \in new : m.id # n.id} \cup new
      /\ mustKnow' = mustKnow \cup toldOf
      /\ posts' = posts + 1 /\ post' = [post EXCEPT ![t] = NoPost]
      /\ UNCHANGED <<around, follows, moves>>
  BY DEF CommitPost
<1>2. /\ p \in PostCommits /\ p.topic = t /\ event \in Nat /\ posts \in Nat
      /\ \A n \in notices : n.topic = t => n \in p.notices
  BY <1>1 DEF PostsInv, PostsTypes, SnapshotsHaveTheThread
\* What is taken over is the one row of activity in this thread.
<1>3. ASSUME NEW i \in Members
      PROVE  /\ old(i) \subseteq notices
             /\ \A n \in old(i) : n.of = i /\ n.topic = t /\ n.reasons = Activity
                                  /\ Reasons(p, i) = Activity
             /\ \A m, n \in old(i) : m = n
             /\ \A n \in notices : n.of = i /\ n.topic = t /\ n.reasons = Activity
                                   /\ Reasons(p, i) = Activity => n \in old(i)
  BY <1>1, <1>2 DEF NoConflict, Replaces, PostsInv, PostsReach
<1> HIDE DEF old
<1>4. ASSUME NEW i \in Members
      PROVE  \/ old(i) = {} /\ idOf(i) = <<i, event>>
             \/ \E n \in old(i) : n \in notices /\ n.of = i /\ idOf(i) = n.id
  BY <1>3
<1> HIDE DEF idOf
<1>5. ASSUME NEW i \in Members
      PROVE  idOf(i) \in Members \X Nat /\ idOf(i)[1] = i /\ idOf(i)[2] <= event
  BY <1>2, <1>4 DEF PostsInv, PostsTypes, PostNotices, RowsAreIdentified
<1>6. Recipients(p) \subseteq Members /\ told \subseteq Recipients(p)
      /\ \A i \in Recipients(p) : Reasons(p, i) \in SUBSET AllReasons
  BY <1>2, ReasonsAre DEF Recipients, PostCommits
\* A row that goes is the one taken over.
<1>7. ASSUME NEW n \in notices, NEW i \in Recipients(p), idOf(i) = n.id
      PROVE  n \in old(i)
  <2>1. n.id[2] <= posts /\ n.id[2] \in Nat
    BY DEF PostsInv, PostsTypes, PostNotices, RowsAreIdentified
  <2>2. n.id # <<i, event>>
    BY <1>2, <2>1
  <2>3. PICK m \in old(i) : m \in notices /\ idOf(i) = m.id
    BY <1>4, <1>6, <1>7, <2>2
  <2>4. m = n
    BY <1>7, <2>3 DEF PostsInv, RowsAreIdentified
  <2> QED
    BY <2>3, <2>4
<1>8. \A i, j \in Recipients(p) : idOf(i) = idOf(j) => i = j
  BY <1>5, <1>6
<1>9. \A n \in notices' : n \in notices \/ \E i \in Recipients(p) : n = row(i)
  BY <1>1
<1>10. \A i \in Recipients(p) : row(i) \in notices'
  BY <1>1
<1>11. ASSUME NEW i \in Recipients(p)
       PROVE  /\ row(i) \in PostNotices /\ row(i).id = idOf(i) /\ row(i).of = i /\ row(i).topic = t
              /\ row(i).event = event /\ row(i).reasons = Reasons(p, i)
  BY <1>2, <1>5, <1>6 DEF PostNotices
<1> HIDE DEF row
<1>12. ASSUME NEW i \in told
       PROVE  why(i) \in {{"named"}, Activity}
              /\ (Reasons(p, i) = Activity => why(i) = Activity)
  BY <1>2, <1>6, ReasonsAre
<1> HIDE DEF why, told
<1>13. ASSUME NEW m \in mustKnow'
       PROVE  m \in mustKnow
              \/ \E i \in told : m.of = i /\ m.topic = t /\ m.event = event /\ m.why = why(i)
  BY <1>1
<1>14. \A n \in notices : n \in notices' \/ \E i \in Recipients(p) : n \in old(i)
  BY <1>1, <1>7, <1>11
<1>15. PostsTypes'
  <2>1. notices' \subseteq PostNotices
    BY <1>9, <1>11 DEF PostsInv, PostsTypes
  <2>2. mustKnow' \subseteq [of : Members, topic : Topics, event : Nat, why : {{"named"}, Activity}]
    <3>1. toldOf \subseteq [of : Members, topic : Topics, event : Nat, why : {{"named"}, Activity}]
      BY <1>2, <1>6, <1>12
    <3> QED
      BY <1>1, <3>1 DEF PostsInv, PostsTypes
  <2> QED
    BY <1>1, <1>2, <2>1, <2>2 DEF PostsInv, PostsTypes
<1>16. RowsAreIdentified'
  <2>1. ASSUME NEW m \in notices', NEW n \in notices', m.id = n.id PROVE m = n
    <3>1. CASE m \in notices /\ n \in notices
      BY <2>1, <3>1 DEF PostsInv, RowsAreIdentified
    \* A row that stays does not have the id of a new one.
    <3>2. ASSUME NEW k \in notices', k \in notices, NEW i \in Recipients(p), k.id = idOf(i)
          PROVE  \E j \in Recipients(p) : k = row(j)
      BY <1>1, <1>11, <3>2
    <3>3. ASSUME NEW i \in Recipients(p), NEW j \in Recipients(p), m = row(i), n = row(j)
          PROVE  m = n
      BY <1>8, <1>11, <2>1, <3>3
    <3> QED
      BY <1>9, <1>11, <2>1, <3>1, <3>2, <3>3
  <2>2. ASSUME NEW n \in notices'
        PROVE  n.id[1] = n.of /\ n.id[2] <= posts' /\ n.event <= posts'
    <3>1. CASE n \in notices
      BY <1>1, <3>1 DEF PostsInv, PostsTypes, PostNotices, RowsAreIdentified
    <3>2. ASSUME NEW i \in Recipients(p), n = row(i)
          PROVE  n.id[1] = n.of /\ n.id[2] <= posts' /\ n.event <= posts'
      BY <1>1, <1>2, <1>5, <1>6, <1>11, <3>2
    <3> QED
      BY <1>9, <3>1, <3>2
  <2>3. \A m \in mustKnow' : m.event <= posts'
    BY <1>1, <1>2, <1>13 DEF PostsInv, PostsTypes, RowsAreIdentified
  <2> QED
    BY <2>1, <2>2, <2>3 DEF RowsAreIdentified
<1>17. SnapshotsHaveTheThread'
  <2> SUFFICES ASSUME NEW u \in Topics, post'[u] # NoPost
               PROVE  post'[u].topic = u /\ \A n \in notices' : n.topic = u => n \in post'[u].notices
    BY DEF SnapshotsHaveTheThread
  <2>1. u # t /\ post'[u] = post[u]
    BY <1>1 DEF PostsInv, PostsTypes
  <2> QED
    BY <1>9, <1>11, <2>1 DEF PostsInv, SnapshotsHaveTheThread
<1>18. ReasonsAreRight'
  <2> SUFFICES ASSUME NEW m \in mustKnow', NEW n \in notices', n.of = m.of, n.topic = m.topic,
                      n.event = m.event, n.reasons = Activity
               PROVE  m.why = Activity
    BY DEF ReasonsAreRight
  <2>1. CASE m \in mustKnow /\ n \in notices
    BY <2>1 DEF PostsInv, ReasonsAreRight
  <2>2. \A k \in mustKnow : k.event # event
    BY <1>2 DEF PostsInv, PostsTypes, RowsAreIdentified
  <2>3. \A k \in notices : k.event # event
    BY <1>2 DEF PostsInv, PostsTypes, PostNotices, RowsAreIdentified
  <2>4. ASSUME NEW i \in told, NEW j \in Recipients(p), m.of = i, m.why = why(i), n = row(j)
        PROVE  m.why = Activity
    BY <1>11, <1>12, <2>4
  <2> QED
    BY <1>9, <1>11, <1>13, <2>1, <2>2, <2>3, <2>4
<1>19. PostsReach'
  <2>1. ASSUME NEW m \in mustKnow'
        PROVE  \E n \in notices' :
                  /\ n.of = m.of /\ n.topic = m.topic
                  /\ \/ n.event = m.event
                     \/ m.why = Activity /\ n.reasons = Activity /\ n.event > m.event
    <3>1. ASSUME NEW i \in told, m.of = i, m.topic = t, m.event = event
          PROVE  \E n \in notices' : n.of = m.of /\ n.topic = m.topic /\ n.event = m.event
      BY <1>6, <1>10, <1>11, <3>1
    <3>2. CASE m \in mustKnow
      <4>1. PICK n \in notices :
                  /\ n.of = m.of /\ n.topic = m.topic
                  /\ \/ n.event = m.event
                     \/ m.why = Activity /\ n.reasons = Activity /\ n.event > m.event
        BY <3>2 DEF PostsInv, PostsReach
      <4>2. CASE n \in notices'
        BY <4>1, <4>2
      <4>3. ASSUME NEW i \in Recipients(p), n \in old(i)
            PROVE  /\ row(i).of = m.of /\ row(i).topic = m.topic
                   /\ m.why = Activity /\ row(i).reasons = Activity /\ row(i).event > m.event
        <5>1. n.of = i /\ n.topic = t /\ n.reasons = Activity /\ Reasons(p, i) = Activity
          BY <1>3, <1>6, <4>3
        <5>2. m.why = Activity
          BY <3>2, <4>1, <5>1 DEF PostsInv, ReasonsAreRight
        <5>3. m.event \in Nat /\ m.event <= posts
          BY <3>2 DEF PostsInv, PostsTypes, RowsAreIdentified
        <5> QED
          BY <1>2, <1>11, <4>1, <5>1, <5>2, <5>3
      <4> QED
        BY <1>10, <1>14, <4>2, <4>3
    <3> QED
      BY <1>13, <3>1, <3>2
  <2>2. ASSUME NEW m \in notices', NEW n \in notices', m.of = n.of, m.topic = n.topic,
               m.reasons = Activity, n.reasons = Activity
        PROVE  m = n
    <3>1. CASE m \in notices /\ n \in notices
      BY <2>2, <3>1 DEF PostsInv, PostsReach
    <3>2. ASSUME NEW k \in notices, k \in notices', NEW i \in Recipients(p),
                 k.of = i, k.topic = t, k.reasons = Activity, Reasons(p, i) = Activity
          PROVE  \E j \in Recipients(p) : k = row(j)
      <4>1. k \in old(i)
        BY <1>3, <1>6, <3>2
      <4>2. idOf(i) = k.id
        BY <1>3, <1>4, <1>6, <4>1
      <4> QED
        BY <1>1, <1>11, <3>2, <4>2
    <3>3. ASSUME NEW i \in Recipients(p), NEW j \in Recipients(p), m = row(i), n = row(j)
          PROVE  m = n
      BY <1>11, <2>2, <3>3
    <3> QED
      BY <1>9, <1>11, <2>2, <3>1, <3>2, <3>3
  <2> QED
    BY <2>1, <2>2 DEF PostsReach
<1> QED
  BY <1>15, <1>16, <1>17, <1>18, <1>19 DEF PostsInv

LEMMA PostsInvHolds == PostsSpec => []PostsInv
<1>1. PostsInit => PostsInv
  BY DEF PostsInit, PostsInv, PostsTypes, RowsAreIdentified, SnapshotsHaveTheThread,
         ReasonsAreRight, PostsReach
<1>2. PostsInv /\ [PostsNext]_postVars => PostsInv'
  <2> SUFFICES ASSUME PostsInv, [PostsNext]_postVars PROVE PostsInv'
    OBVIOUS
  <2> USE DEF PostsInv
  <2>1. ASSUME NEW i \in Members, ComesOrGoes(i) PROVE PostsInv'
    BY <2>1 DEF ComesOrGoes, PostsTypes, RowsAreIdentified, SnapshotsHaveTheThread,
                ReasonsAreRight, PostsReach
  <2>2. ASSUME NEW i \in Members, NEW t \in Topics, FollowThread(i, t) PROVE PostsInv'
    BY <2>2 DEF FollowThread, PostsTypes, RowsAreIdentified, SnapshotsHaveTheThread,
                ReasonsAreRight, PostsReach
  <2>3. ASSUME NEW n \in notices, AcknowledgeNotice(n) PROVE PostsInv'
    <3>1. /\ notices' = notices \ {n} /\ mustKnow' \subseteq mustKnow
          /\ \A m \in mustKnow' :
                \/ m.of # n.of \/ m.topic # n.topic \/ m.event > n.event
                \/ m.event < n.event /\ (m.why # Activity \/ n.reasons # Activity)
          /\ UNCHANGED <<around, follows, post, posts, moves>>
      BY <2>3 DEF AcknowledgeNotice
    <3>2. PostsTypes' /\ RowsAreIdentified' /\ SnapshotsHaveTheThread' /\ ReasonsAreRight'
      BY <3>1 DEF PostsTypes, RowsAreIdentified, SnapshotsHaveTheThread, ReasonsAreRight
    <3>3. ASSUME NEW m \in mustKnow'
          PROVE  \E k \in notices' :
                    /\ k.of = m.of /\ k.topic = m.topic
                    /\ \/ k.event = m.event
                       \/ m.why = Activity /\ k.reasons = Activity /\ k.event > m.event
      <4>1. PICK k \in notices :
                    /\ k.of = m.of /\ k.topic = m.topic
                    /\ \/ k.event = m.event
                       \/ m.why = Activity /\ k.reasons = Activity /\ k.event > m.event
        BY <3>1 DEF PostsReach
      <4>2. m.event \in Nat /\ n.event \in Nat
        BY <3>1 DEF PostsTypes, PostNotices
      <4>3. k # n
        BY <3>1, <4>1, <4>2
      <4> QED
        BY <3>1, <4>1, <4>3
    <3> QED
      BY <3>1, <3>2, <3>3 DEF PostsReach
  <2>4. ASSUME NEW t \in Topics, NEW author \in Members, NEW mentions \in Mentioned,
               BeginPost(t, author, mentions)
        PROVE  PostsInv'
    <3> DEFINE q == [at |-> "open", topic |-> t, author |-> author, mentions |-> mentions,
                     around |-> around, follows |-> follows', notices |-> notices]
    <3>1. /\ follows' = follows \cup {<<author, t>>} /\ post' = [post EXCEPT ![t] = q]
          /\ UNCHANGED <<around, notices, posts, mustKnow, moves>>
      BY <2>4 DEF BeginPost
    <3>2. mentions \in [agents : SUBSET Members, here : BOOLEAN, global : BOOLEAN]
      BY DEF Mentioned
    <3>3. follows' \subseteq Members \X Topics
      BY <3>1 DEF PostsTypes
    <3>4. q \in PostCommits /\ q.topic = t /\ q.notices = notices
      BY <3>2, <3>3 DEF PostsTypes, PostCommits
    <3> HIDE DEF q
    <3>5. PostsTypes' /\ SnapshotsHaveTheThread'
      BY <3>1, <3>3, <3>4 DEF PostsTypes, SnapshotsHaveTheThread
    <3> QED
      BY <3>1, <3>5 DEF RowsAreIdentified, ReasonsAreRight, PostsReach
  <2>5. ASSUME NEW t \in Topics, CommitPost(t) PROVE PostsInv'
    BY <2>5, CommitKeeps
  <2>6. ASSUME NEW t \in Topics, RetryPost(t) PROVE PostsInv'
    <3> DEFINE p == post[t]
               q == [p EXCEPT !.around = around, !.follows = follows, !.notices = notices]
    <3>1. /\ p # NoPost /\ post' = [post EXCEPT ![t] = q]
          /\ UNCHANGED <<around, follows, notices, posts, mustKnow, moves>>
      BY <2>6 DEF RetryPost
    <3>2. p \in PostCommits /\ p.topic = t
      BY <3>1 DEF PostsTypes, SnapshotsHaveTheThread
    <3>3. q \in PostCommits /\ q.topic = t /\ q.notices = notices
      BY <3>2 DEF PostsTypes, PostCommits
    <3> HIDE DEF p, q
    <3>4. PostsTypes' /\ SnapshotsHaveTheThread'
      BY <3>1, <3>3 DEF PostsTypes, SnapshotsHaveTheThread
    <3> QED
      BY <3>1, <3>4 DEF RowsAreIdentified, ReasonsAreRight, PostsReach
  <2>7. CASE UNCHANGED postVars
    BY <2>7 DEF postVars, PostsTypes, RowsAreIdentified, SnapshotsHaveTheThread, ReasonsAreRight,
                PostsReach
  <2> QED
    BY <2>1, <2>2, <2>3, <2>4, <2>5, <2>6, <2>7 DEF PostsNext
<1> QED
  BY <1>1, <1>2, PTL DEF PostsSpec

\* For any agents, threads and messages: whoever had to be told of a message is told of it, or of
\* what came later where it was not its concern, whatever commits, comings, follows and
\* acknowledgements lie between the snapshot of a commit and its end.
THEOREM PostsAlwaysReach == PostsSpec => []PostsReach
<1>1. PostsInv => PostsReach
  BY DEF PostsInv
<1> QED
  BY <1>1, PostsInvHolds, PTL

-----------------------------------------------------------------------------
(* Pages of a turn. *)

ReadStages == {"looked", "fetched", "assured", "replied"}
TurnsHeld == [token : TurnTokens, due : BOOLEAN]
CallsUnderWay == [at : ReadStages, token : TurnTokens, revision : Nat, active : BOOLEAN]

\* The agent's turn is based on what is current, and a call reads what its turn is based on.
PagesInv ==
    /\ holding \in {NoTurn} \cup TurnsHeld /\ current \in Nat \ {0}
    /\ bases \in [TurnTokens -> Nat]
    /\ readCall \in [ReadCalls -> {NotReading} \cup CallsUnderWay]
    /\ holding # NoTurn => bases[holding.token] = current
    /\ \A c \in ReadCalls : readCall[c].at # "idle" =>
          /\ readCall[c].revision = bases[readCall[c].token]
          /\ readCall[c].revision # NoBase

LEMMA CallsAre ==
    /\ NotReading.at = "idle" /\ NoTurn.token = 0 /\ NoTurn \notin TurnsHeld
    /\ 0 \notin TurnTokens /\ NoBase = 0
    /\ \A r \in CallsUnderWay :
          /\ r.at \in ReadStages /\ r.at # "idle" /\ r.token \in TurnTokens /\ r.revision \in Nat
          /\ r.active \in BOOLEAN
    /\ \A r \in CallsUnderWay : \A a \in ReadStages :
          /\ [r EXCEPT !.at = a] \in CallsUnderWay /\ [r EXCEPT !.at = a].token = r.token
          /\ [r EXCEPT !.at = a].revision = r.revision /\ [r EXCEPT !.at = a].at = a
          /\ [r EXCEPT !.at = a].active = r.active
    /\ \A h \in TurnsHeld : h.token \in TurnTokens /\ h.due \in BOOLEAN
BY DEF NotReading, NoTurn, TurnsHeld, CallsUnderWay, ReadStages, TurnTokens, NoBase

\* For any calls that overlap, over expiries and commits, and whatever comes between the last look
\* and the reply: an agent that still has a turn was shown, under it, nothing but the revision its
\* commit replaces, and readers that require the turn go on only when they have found it held.
THEOREM PagesStayCommittable == ReadsSpec => []PagesInv /\ PagesAreCommittable
<1>1. ReadsInit => PagesInv
    BY CallsAre DEF ReadsInit, PagesInv
<1> DEFINE Assured == \A c \in ReadCalls :
               readCall'[c].at = "assured" /\ readCall'[c] # readCall[c] /\ readCall'[c].active =>
                   /\ readCall'[c].revision = current
                   /\ holding.token = readCall'[c].token /\ ~holding.due
           ShownPages == \A c \in ReadCalls :
               readCall'[c].at = "replied" /\ readCall'[c].token = holding'.token =>
                   readCall'[c].revision = current'
<1>2. PagesInv /\ [ReadsNext]_readVars => PagesInv' /\ [Assured]_readVars
    <2> SUFFICES ASSUME PagesInv, [ReadsNext]_readVars PROVE PagesInv' /\ [Assured]_readVars
        OBVIOUS
    <2> USE DEF PagesInv
    <2>1. ASSUME NEW token \in TurnTokens, ClaimsTurn(token) PROVE PagesInv' /\ Assured
        <3>1. /\ holding' = [token |-> token, due |-> FALSE] /\ bases[token] = NoBase
              /\ bases' = [bases EXCEPT ![token] = current]
              /\ UNCHANGED <<current, readCall>>
            BY <2>1 DEF ClaimsTurn
        <3>2. holding' \in TurnsHeld /\ holding'.token = token
            BY <3>1 DEF TurnsHeld
        <3>3. bases' \in [TurnTokens -> Nat] /\ bases'[token] = current
            BY <3>1
        <3>4. \A c \in ReadCalls : readCall[c].at # "idle" =>
                  /\ readCall[c].token \in TurnTokens /\ readCall[c].token # token
                  /\ bases'[readCall[c].token] = bases[readCall[c].token]
            BY <3>1, CallsAre
        <3> QED
            BY <3>1, <3>2, <3>3, <3>4
    <2>2. CASE DeadlinePasses
        <3>1. /\ holding' = [holding EXCEPT !.due = TRUE] /\ UNCHANGED <<bases, current, readCall>>
              /\ holding \in TurnsHeld
            BY <2>2 DEF DeadlinePasses
        <3>2. holding' \in TurnsHeld /\ holding'.token = holding.token
            BY <3>1 DEF TurnsHeld
        <3> QED
            BY <2>2, <3>1, <3>2 DEF DeadlinePasses
    <2>3. CASE LosesTurn \/ Commits
        <3>1. holding' = NoTurn /\ UNCHANGED <<bases, readCall>> /\ current' \in Nat \ {0}
            BY <2>3 DEF LosesTurn, Commits
        <3> QED
            BY <3>1
    <2>4. CASE ReadsPlainly \/ Forgotten
        BY <2>4 DEF ReadsPlainly, Forgotten
    <2>5. ASSUME NEW c \in ReadCalls, NEW r \in {NotReading} \cup CallsUnderWay,
                 readCall' = [readCall EXCEPT ![c] = r], UNCHANGED <<holding, bases, current>>,
                 r.at # "idle" => r.revision = bases[r.token] /\ r.revision # NoBase,
                 r.at = "assured" /\ r.active => holding.token = r.token /\ ~holding.due
          PROVE  PagesInv' /\ Assured
        <3>1. \A d \in ReadCalls : readCall'[d] = IF d = c THEN r ELSE readCall[d]
            BY <2>5
        <3>2. readCall' \in [ReadCalls -> {NotReading} \cup CallsUnderWay]
            BY <2>5
        <3>3. PagesInv'
            BY <2>5, <3>1, <3>2
        <3>4. r.at = "assured" /\ r.active => r.revision = current
            <4>1. r.at = "assured" => r \in CallsUnderWay
                BY <2>5, CallsAre
            <4> QED
                BY <2>5, <4>1, CallsAre
        <3>5. Assured
            BY <2>5, <3>1, <3>4
        <3> QED
            BY <3>3, <3>5
    <2>6. ASSUME NEW c \in ReadCalls, NEW token \in TurnTokens, NEW active \in BOOLEAN,
                 Begins(c, token, active)
          PROVE  PagesInv' /\ Assured
        <3> DEFINE r == [at |-> "looked", token |-> token, revision |-> bases[token],
                         active |-> active]
        <3>1. /\ readCall' = [readCall EXCEPT ![c] = r] \/ readCall' = [readCall EXCEPT ![c] = NotReading]
              /\ UNCHANGED <<holding, bases, current>>
            BY <2>6 DEF Begins
        <3>2. r \in CallsUnderWay /\ r.at = "looked" /\ r.revision = bases[r.token]
            BY DEF CallsUnderWay, ReadStages
        <3>3. CASE readCall' = [readCall EXCEPT ![c] = NotReading]
            BY <2>5, <3>1, <3>3, CallsAre
        <3>4. CASE (IF active THEN Holds(token) ELSE bases[token] # NoBase)
                   /\ readCall' = [readCall EXCEPT ![c] = r]
            <4>1. bases[token] # NoBase
                BY <3>4, CallsAre DEF Holds
            <4>2. r.revision # NoBase
                BY <4>1
            <4> HIDE DEF r
            <4> QED
                BY <2>5, <3>1, <3>2, <3>4, <4>2
        <3> QED
            BY <2>6, <3>3, <3>4 DEF Begins
    <2>7. ASSUME NEW c \in ReadCalls, Fetches(c) \/ Replies(c) \/ Assures(c)
          PROVE  PagesInv' /\ Assured
        <3>1. PICK a \in {"fetched", "assured", "replied"} :
                  /\ readCall' = [readCall EXCEPT ![c].at = a]
                  /\ a = "assured" => Assures(c)
            BY <2>7 DEF Fetches, Replies, Assures, ReadGoesOn
        <3> DEFINE r == [readCall[c] EXCEPT !.at = a]
        <3>2. /\ readCall[c] \in CallsUnderWay
              /\ readCall' = [readCall EXCEPT ![c] = r] /\ UNCHANGED <<holding, bases, current>>
            BY <2>7, <3>1, CallsAre DEF Fetches, Replies, Assures, LooksAgain
        <3>3. /\ r \in CallsUnderWay /\ r.at = a /\ r.token = readCall[c].token
              /\ r.revision = readCall[c].revision /\ readCall[c].at # "idle"
              /\ r.active = readCall[c].active
            <4>1. a \in ReadStages
                BY DEF ReadStages
            <4> QED
                BY <3>2, <4>1, CallsAre
        <3>4. r.at = "assured" /\ r.active => holding.token = r.token /\ ~holding.due
            BY <3>1, <3>3 DEF Assures, LooksAgain, Holds
        <3> HIDE DEF r
        <3> QED
            BY <2>5, <3>2, <3>3, <3>4
    <2>8. ASSUME NEW c \in ReadCalls, Refuses(c) PROVE PagesInv' /\ Assured
        BY <2>5, <2>8, CallsAre DEF Refuses
    <2>9. ASSUME NEW c \in ReadCalls, NEW token \in TurnTokens, NEW revision \in keptPages,
                 ReadsOn(c, revision, token)
          PROVE  PagesInv' /\ Assured
        <3>1. CASE OfTheTurn(revision, token)
            <4> DEFINE r == [at |-> "assured", token |-> token, revision |-> revision,
                             active |-> TRUE]
            <4>1. /\ revision = bases[token] /\ holding.token = token /\ ~holding.due
                  /\ bases[token] # NoBase
                BY <3>1, CallsAre DEF OfTheTurn, Holds
            <4>2. /\ r \in CallsUnderWay /\ r.at = "assured" /\ r.revision = bases[r.token]
                  /\ r.revision # NoBase /\ r.token = token
                BY <4>1, CallsAre DEF CallsUnderWay, ReadStages
            <4>3. readCall' = [readCall EXCEPT ![c] = r] /\ UNCHANGED <<holding, bases, current>>
                BY <2>9, <3>1 DEF ReadsOn
            <4> HIDE DEF r
            <4> QED
                BY <2>5, <4>1, <4>2, <4>3
        <3>2. CASE ~OfTheTurn(revision, token)
            <4>1. /\ readCall' = [readCall EXCEPT ![c] = NotReading]
                  /\ UNCHANGED <<holding, bases, current>>
                BY <2>9, <3>2 DEF ReadsOn
            <4> QED
                BY <2>5, <4>1, CallsAre
        <3> QED
            BY <3>1, <3>2
    <2>10. CASE UNCHANGED readVars
        BY <2>10 DEF readVars
    <2> QED
        BY <2>1, <2>2, <2>3, <2>4, <2>6, <2>7, <2>8, <2>9, <2>10 DEF ReadsNext
<1>3. PagesInv' => ShownPages
    BY CallsAre DEF PagesInv
<1>4. Assured /\ ShownPages => \A c \in ReadCalls :
          /\ readCall'[c].at = "assured" /\ readCall'[c] # readCall[c] /\ readCall'[c].active =>
                /\ readCall'[c].revision = current
                /\ holding.token = readCall'[c].token /\ ~holding.due
          /\ readCall'[c].at = "replied" /\ readCall'[c].token = holding'.token =>
                readCall'[c].revision = current'
    OBVIOUS
<1> QED
    BY <1>1, <1>2, <1>3, <1>4, PTL DEF ReadsSpec, PagesAreCommittable

-----------------------------------------------------------------------------
(* Observers. *)

Snapshots == [epoch : Nat, cursor : Nat, filter : Filters \cup {"none"}]
Refreshings == [id : Nat, generation : Nat, by : {"loop", "key"}, filter : Filters,
                taken : Snapshots]
Details == [id : Nat, generation : Nat, of : Conversations, cursor : Nat, older : BOOLEAN,
            cancelled : BOOLEAN]
Clients == [loop : {"connecting", "opening", "reads", "waits", "asleep", "told", "backoff", "ends"},
            connected : BOOLEAN, generation : Nat, refreshId : Nat, filter : Filters,
            phase : {"connecting", "live", "reconnecting", "waiting", "error"},
            snapshot : Snapshots, gap : BOOLEAN, waited : Nat]
Screens == [selected : Conversations, atEnd : BOOLEAN, error : BOOLEAN, asked : Nat,
            detail : [of : Conversations \cup {"none"}, cursor : Nat, older : BOOLEAN]]

SonarTypes ==
    /\ observed \in [up : BOOLEAN, epoch : Nat, cursor : Nat]
    /\ sonar \in Clients /\ refreshes \in SUBSET Refreshings
    /\ screen \in Screens /\ details \in SUBSET Details

NotAfter(x, y) == x.cursor <= y.cursor /\ x.epoch <= y.epoch

\* The last snapshot asked for is not older than the one shown, and neither is of the future.
LastIsNewest ==
    /\ NotAfter(sonar.snapshot, observed)
    /\ \A r \in refreshes :
          /\ r.id <= sonar.refreshId /\ NotAfter(r.taken, observed)
          /\ \A q \in refreshes : q.id = r.id => q = r
          /\ r.id = sonar.refreshId /\ r.taken # NoSnapshot => NotAfter(sonar.snapshot, r.taken)

\* What is still waited for of a conversation is of the selected one, as of the snapshot shown.
AwaitedAreSelected ==
    \A d \in details : ~d.older /\ ~d.cancelled =>
        d.of = screen.selected /\ d.cursor = sonar.snapshot.cursor

LiveIsShown == sonar.phase = "live" => sonar.snapshot # NoSnapshot

SonarInv ==
    /\ SonarTypes /\ LastIsNewest /\ AwaitedAreSelected
    /\ LiveIsConnected /\ LiveIsShown /\ Follows

\* What a step of the client may do to what is shown.
ShowsForward ==
    /\ NotAfter(sonar.snapshot, sonar'.snapshot)
    /\ sonar.gap => sonar'.gap
    /\ (sonar.snapshot # NoSnapshot /\ sonar'.snapshot.epoch # sonar.snapshot.epoch) => sonar'.gap

LEMMA NothingTaken == NoSnapshot \in Snapshots
BY DEF NoSnapshot, Snapshots

\* What is not waited for any more; an older page still is.
Unwanted(d) == [d EXCEPT !.cancelled = @ \/ ~d.older]

\* The conversation is looked at again.
LEMMA LooksKeep ==
    ASSUME SonarTypes, NEW s \in Screens, NEW connected \in BOOLEAN, NEW generation \in Nat,
           NEW shown \in Snapshots, Looks(s, connected, generation, shown, details)
    PROVE  /\ screen' \in Screens /\ details' \in SUBSET Details
           /\ screen'.selected = s.selected /\ screen'.atEnd = s.atEnd
           /\ \A d \in details' : ~d.older /\ ~d.cancelled =>
                 d.of = s.selected /\ d.cursor = shown.cursor
           /\ shown # NoSnapshot /\ s.atEnd /\ connected =>
                 \E d \in details' : ~d.cancelled /\ ~d.older /\ d.of = s.selected
<1> DEFINE left == {Unwanted(d) : d \in details}
<1>1. \A d \in details : Unwanted(d) \in Details /\ (~Unwanted(d).older => Unwanted(d).cancelled)
    <2> TAKE d \in details
    <2> DEFINE b == d.cancelled \/ ~d.older
    <2>1. d \in Details /\ b \in BOOLEAN /\ (~d.older => b) /\ Unwanted(d) = [d EXCEPT !.cancelled = b]
        BY DEF SonarTypes, Unwanted
    <2> HIDE DEF b
    <2> QED
        BY <2>1 DEF Details
<1>2. left \in SUBSET Details /\ (\A d \in left : ~d.older => d.cancelled)
    BY <1>1
<1>3. CASE shown # NoSnapshot /\ s.atEnd /\ connected
    <2> DEFINE new == [id |-> s.asked + 1, generation |-> generation, of |-> s.selected,
                       cursor |-> shown.cursor, older |-> FALSE, cancelled |-> FALSE]
    <2>1. screen' = [s EXCEPT !.asked = @ + 1] /\ details' = left \cup {new}
        BY <1>3 DEF Looks, Unwanted
    <2>2. new \in Details /\ ~new.older /\ ~new.cancelled /\ new.of = s.selected
          /\ new.cursor = shown.cursor
        BY DEF Details, Screens, Snapshots
    <2>3. screen' \in Screens /\ screen'.selected = s.selected /\ screen'.atEnd = s.atEnd
        BY <2>1 DEF Screens
    <2> HIDE DEF new, left
    <2> QED
        BY <1>2, <1>3, <2>1, <2>2, <2>3
<1>4. CASE ~(shown # NoSnapshot /\ s.atEnd /\ connected)
    <2>1. screen' = s /\ details' = left
        BY <1>4 DEF Looks, Unwanted
    <2> HIDE DEF left
    <2> QED
        BY <1>2, <1>4, <2>1
<1> QED
    BY <1>3, <1>4

LEMMA SonarBegins == SonarInit => SonarInv
<1> SUFFICES ASSUME SonarInit PROVE SonarInv
    OBVIOUS
<1>1. (CHOOSE f \in Filters : TRUE) \in Filters /\ (CHOOSE c \in Conversations : TRUE) \in Conversations
    BY SonarAssumption
<1>2. SonarTypes
    BY <1>1, NothingTaken DEF SonarInit, SonarTypes, Clients, Screens, NoDetail
<1>3. /\ LastIsNewest /\ AwaitedAreSelected /\ LiveIsConnected
      /\ LiveIsShown /\ Follows
    BY DEF SonarInit, LastIsNewest, AwaitedAreSelected, LiveIsConnected,
       LiveIsShown, Follows, NotAfter, NoSnapshot
<1> QED
    BY <1>2, <1>3 DEF SonarInv

\* The daemon goes on: what is shown does not change.
LEMMA DaemonKeeps ==
    ASSUME SonarInv, NewsHappens \/ DaemonRestarts
    PROVE  SonarInv' /\ ShowsForward
<1>1. /\ UNCHANGED <<sonar, refreshes, screen, details>>
      /\ observed' \in [up : BOOLEAN, epoch : Nat, cursor : Nat]
      /\ NotAfter(observed, observed')
    <2>1. CASE NewsHappens
        BY <2>1 DEF SonarInv, SonarTypes, NewsHappens, NotAfter
    <2>2. CASE DaemonRestarts
        <3>0. observed \in [up : BOOLEAN, epoch : Nat, cursor : Nat]
            BY DEF SonarInv, SonarTypes
        <3>1. CASE observed.up
            <4>1. UNCHANGED <<sonar, refreshes, screen, details>> /\ observed' = [observed EXCEPT !.up = FALSE]
                BY <2>2, <3>1 DEF DaemonRestarts
            <4>2. /\ observed' \in [up : BOOLEAN, epoch : Nat, cursor : Nat]
                  /\ observed'.epoch = observed.epoch /\ observed'.cursor = observed.cursor
                BY <3>0, <4>1
            <4>3. observed.epoch \in Nat /\ observed.cursor \in Nat
                BY <3>0
            <4> QED
                BY <4>1, <4>2, <4>3 DEF NotAfter
        <3>2. CASE ~observed.up
            <4> DEFINE e == observed.epoch + 1
            <4>1. /\ UNCHANGED <<sonar, refreshes, screen, details>>
                  /\ observed' = [observed EXCEPT !.up = TRUE, !.epoch = e]
                BY <2>2, <3>2 DEF DaemonRestarts
            <4>2. e \in Nat /\ observed.epoch <= e
                BY DEF SonarInv, SonarTypes
            <4> HIDE DEF e
            <4>3. /\ observed' \in [up : BOOLEAN, epoch : Nat, cursor : Nat]
                  /\ observed'.epoch = e /\ observed'.cursor = observed.cursor
                BY <3>0, <4>1, <4>2
            <4>4. observed.cursor \in Nat
                BY <3>0
            <4> QED
                BY <4>1, <4>2, <4>3, <4>4 DEF NotAfter
        <3> QED
            BY <3>1, <3>2
    <2> QED
        BY <2>1, <2>2
<1>2. sonar.snapshot \in Snapshots
    BY DEF SonarInv, SonarTypes, Clients
<1>3. /\ NotAfter(sonar.snapshot, observed')
      /\ \A r \in refreshes : NotAfter(r.taken, observed')
    <2>1. \A x \in Snapshots : NotAfter(x, observed) => NotAfter(x, observed')
        BY <1>1 DEF SonarInv, SonarTypes, NotAfter, Snapshots
    <2>2. \A r \in refreshes : r.taken \in Snapshots
        BY DEF SonarInv, SonarTypes, Refreshings
    <2> QED
        BY <1>2, <2>1, <2>2 DEF SonarInv, LastIsNewest
<1>4. SonarInv'
    BY <1>1, <1>3 DEF SonarInv, SonarTypes, LastIsNewest,
       AwaitedAreSelected, LiveIsConnected, LiveIsShown, Follows
<1>5. ShowsForward
    BY <1>1, <1>2 DEF ShowsForward, NotAfter, Snapshots
<1> QED
    BY <1>4, <1>5

\* A step of the loop that leaves what is shown and what is asked for.
LEMMA LoopKeeps ==
    ASSUME SonarInv,
           \/ Connect \/ WaitForNews \/ (\E trimmed \in BOOLEAN : WaitReturns(trimmed)) \/ Backoff
    PROVE  SonarInv' /\ ShowsForward
<1>1. /\ UNCHANGED <<observed, refreshes, screen, details>>
      /\ sonar'.snapshot = sonar.snapshot /\ sonar'.refreshId = sonar.refreshId
      /\ sonar'.phase = sonar.phase /\ (sonar.connected => sonar'.connected)
      /\ (sonar.gap => sonar'.gap)
    BY ZenonT(40) DEF SonarInv, SonarTypes, Clients, Connect, WaitForNews, WaitReturns, Backoff
<1>2. sonar' \in Clients
    <2>1. CASE Connect
        <3> DEFINE g == sonar.generation + 1
        <3>1. g \in Nat
            BY DEF SonarInv, SonarTypes, Clients
        <3>2. sonar' = [sonar EXCEPT !.loop = "opening", !.connected = TRUE, !.generation = g]
            BY <2>1 DEF Connect
        <3> HIDE DEF g
        <3> QED
            BY <3>1, <3>2 DEF SonarInv, SonarTypes, Clients
    <2>2. CASE WaitForNews
        <3>1. sonar.snapshot.cursor \in Nat
            BY DEF SonarInv, SonarTypes, Clients, Snapshots
        <3> QED
            BY <2>2, <3>1 DEF SonarInv, SonarTypes, Clients, WaitForNews
    <2>3. ASSUME NEW trimmed \in BOOLEAN, WaitReturns(trimmed) PROVE sonar' \in Clients
        <3> DEFINE gap == sonar.gap \/ trimmed
        <3>1. gap \in BOOLEAN /\ sonar' = [sonar EXCEPT !.loop = "told", !.gap = gap]
            BY <2>3 DEF WaitReturns
        <3> HIDE DEF gap
        <3> QED
            BY <3>1 DEF SonarInv, SonarTypes, Clients
    <2>4. CASE Backoff
        BY <2>4 DEF SonarInv, SonarTypes, Clients, Backoff
    <2> QED
        BY <2>1, <2>2, <2>3, <2>4
<1>3. SonarInv'
    BY <1>1, <1>2 DEF SonarInv, SonarTypes, LastIsNewest,
       AwaitedAreSelected, LiveIsConnected, LiveIsShown, Follows
<1>4. ShowsForward
    BY <1>1, <1>2 DEF ShowsForward, NotAfter, Snapshots, Clients, SonarInv, SonarTypes
<1> QED
    BY <1>3, <1>4

\* The end of a connection, after which no answer comes.
LEMMA ConnectionEndKeeps ==
    ASSUME SonarInv, ConnectionFails \/ GivesUpForGood
    PROVE  SonarInv' /\ ShowsForward
<1>1. /\ UNCHANGED <<observed, screen>> /\ refreshes' \subseteq refreshes
      /\ details' \subseteq details
      /\ sonar'.snapshot = sonar.snapshot /\ sonar'.refreshId = sonar.refreshId
      /\ sonar'.phase # "live" /\ sonar'.gap = sonar.gap
    BY ZenonT(40) DEF SonarInv, SonarTypes, Clients, ConnectionFails, GivesUpForGood, Kept
<1>2. sonar' \in Clients
    <2>1. CASE ConnectionFails
        <3> DEFINE now == IF sonar.snapshot # NoSnapshot THEN "reconnecting" ELSE "waiting"
                   g == sonar.generation + 1
        <3>1. now \in {"reconnecting", "waiting"} /\ g \in Nat
            BY DEF SonarInv, SonarTypes, Clients
        <3>2. sonar' = [sonar EXCEPT !.loop = "backoff", !.connected = FALSE,
                                     !.generation = g, !.phase = now]
            BY <2>1 DEF ConnectionFails
        <3> HIDE DEF now, g
        <3> QED
            BY <3>1, <3>2 DEF SonarInv, SonarTypes, Clients
    <2>2. CASE GivesUpForGood
        <3> DEFINE g == sonar.generation + 1
        <3>1. g \in Nat
            BY DEF SonarInv, SonarTypes, Clients
        <3>2. sonar' = [sonar EXCEPT !.loop = "ends", !.connected = FALSE, !.generation = g,
                                     !.phase = "error"]
            BY <2>2 DEF GivesUpForGood
        <3> HIDE DEF g
        <3> QED
            BY <3>1, <3>2 DEF SonarInv, SonarTypes, Clients
    <2> QED
        BY <2>1, <2>2
<1>3. SonarTypes' /\ LastIsNewest'
    BY <1>1, <1>2 DEF SonarInv, SonarTypes, LastIsNewest
<1>4. AwaitedAreSelected' /\ LiveIsConnected' /\ LiveIsShown' /\ Follows'
    BY <1>1 DEF SonarInv, AwaitedAreSelected, LiveIsConnected, LiveIsShown, Follows
<1>5. ShowsForward
    BY <1>1, <1>2 DEF ShowsForward, NotAfter, Snapshots, Clients, SonarInv, SonarTypes
<1> QED
    BY <1>3, <1>4, <1>5 DEF SonarInv

\* A snapshot is asked for, after which those asked for before are dated.
LEMMA RefreshingKeeps ==
    ASSUME SonarInv, NEW s \in Clients, NEW by \in {"loop", "key"}, Refreshing(s, by),
           s.snapshot = sonar.snapshot, s.refreshId = sonar.refreshId, s.phase = sonar.phase,
           s.connected = sonar.connected, s.gap = sonar.gap,
           UNCHANGED <<observed, screen, details>>
    PROVE  SonarInv' /\ ShowsForward
<1> DEFINE new == [id |-> s.refreshId + 1, generation |-> s.generation, by |-> by,
                   filter |-> s.filter, taken |-> NoSnapshot]
<1>1. /\ sonar' = [s EXCEPT !.refreshId = @ + 1]
      /\ refreshes' = refreshes \/ refreshes' = refreshes \cup {new}
    BY DEF Refreshing
<1>2. /\ sonar' \in Clients /\ sonar'.refreshId = sonar.refreshId + 1
      /\ sonar'.snapshot = sonar.snapshot /\ sonar'.phase = sonar.phase
      /\ sonar'.connected = sonar.connected /\ sonar'.gap = sonar.gap /\ sonar.refreshId \in Nat
    BY <1>1 DEF Clients
<1>3. /\ new \in Refreshings /\ new.id = sonar.refreshId + 1 /\ new.taken = NoSnapshot
    BY NothingTaken DEF Refreshings, Clients
<1> HIDE DEF new
<1>4. \A r \in refreshes : r.id <= sonar.refreshId /\ r.id \in Nat
    BY DEF SonarInv, SonarTypes, LastIsNewest, Refreshings
<1>5. SonarTypes'
    BY <1>1, <1>2, <1>3 DEF SonarInv, SonarTypes
<1>6. LastIsNewest'
    <2>1. \A r \in refreshes : r.id < sonar'.refreshId /\ r.id # new.id /\ r.id # sonar'.refreshId
        BY <1>2, <1>3, <1>4
    <2>2. \A r \in refreshes' : r \in refreshes \/ r = new
        BY <1>1
    <2>3. \A r \in refreshes' : r.id <= sonar'.refreshId
        BY <1>2, <1>3, <1>4, <2>2
    <2>4. \A r \in refreshes' : \A q \in refreshes' : q.id = r.id => q = r
        BY <2>1, <2>2 DEF SonarInv, LastIsNewest
    <2>5. \A r \in refreshes' : r.id = sonar'.refreshId => r.taken = NoSnapshot
        BY <1>3, <2>1, <2>2
    <2>6. \A r \in refreshes' : NotAfter(r.taken, observed)
        <3>1. NotAfter(NoSnapshot, observed)
            BY DEF NotAfter, NoSnapshot, SonarInv, SonarTypes
        <3> QED
            BY <1>3, <2>2, <3>1 DEF SonarInv, LastIsNewest
    <2>7. NotAfter(sonar.snapshot, observed)
        BY DEF SonarInv, LastIsNewest
    <2> QED
        BY <1>2, <2>3, <2>4, <2>5, <2>6, <2>7 DEF LastIsNewest
<1>7. AwaitedAreSelected' /\ LiveIsConnected' /\ LiveIsShown' /\ Follows'
    BY <1>2 DEF SonarInv, AwaitedAreSelected, LiveIsConnected, LiveIsShown, Follows
<1>8. ShowsForward
    BY <1>2 DEF ShowsForward, NotAfter, Snapshots, Clients, SonarInv, SonarTypes
<1> QED
    BY <1>5, <1>6, <1>7, <1>8 DEF SonarInv

LEMMA CaptureKeeps ==
    ASSUME SonarInv, NEW r \in refreshes, Capture(r)
    PROVE  SonarInv' /\ ShowsForward
<1> DEFINE taken == [epoch |-> observed.epoch, cursor |-> observed.cursor, filter |-> r.filter]
           new == [r EXCEPT !.taken = taken]
<1>1. /\ refreshes' = (refreshes \ {r}) \cup {new} /\ UNCHANGED <<observed, sonar, screen, details>>
    BY DEF Capture
<1>2. r \in Refreshings /\ observed.epoch \in Nat /\ observed.cursor \in Nat
    BY DEF SonarInv, SonarTypes
<1>3. taken \in Snapshots /\ taken.epoch = observed.epoch /\ taken.cursor = observed.cursor
    BY <1>2 DEF Snapshots, Refreshings
<1> HIDE DEF taken
<1>4. new \in Refreshings /\ new.id = r.id /\ new.taken = taken
    BY <1>2, <1>3 DEF Refreshings
<1> HIDE DEF new
<1>5. SonarTypes'
    BY <1>1, <1>4 DEF SonarInv, SonarTypes
<1>6. LastIsNewest'
    <2>1. NotAfter(sonar.snapshot, taken)
        BY <1>3 DEF SonarInv, LastIsNewest, NotAfter
    <2>2. \A q \in refreshes' : q = new \/ (q \in refreshes /\ q # r)
        BY <1>1
    <2>3. \A q \in refreshes' : q.id <= sonar.refreshId
        BY <1>4, <2>2 DEF SonarInv, LastIsNewest
    <2>4. \A p, q \in refreshes' : p.id = q.id => p = q
        BY <1>4, <2>2 DEF SonarInv, LastIsNewest
    <2>5. \A q \in refreshes' : q.id = sonar.refreshId /\ q.taken # NoSnapshot =>
              NotAfter(sonar.snapshot, q.taken)
        BY <1>4, <2>1, <2>2 DEF SonarInv, LastIsNewest
    <2>6. NotAfter(sonar.snapshot, observed)
        BY DEF SonarInv, LastIsNewest
    <2>7. \A q \in refreshes' : NotAfter(q.taken, observed)
        <3>1. NotAfter(taken, observed)
            BY <1>2, <1>3 DEF NotAfter
        <3> QED
            BY <1>4, <2>2, <3>1 DEF SonarInv, LastIsNewest
    <2> QED
        BY <1>1, <2>3, <2>4, <2>5, <2>6, <2>7 DEF LastIsNewest
<1>7. AwaitedAreSelected' /\ LiveIsConnected' /\ LiveIsShown' /\ Follows'
    BY <1>1 DEF SonarInv, AwaitedAreSelected, LiveIsConnected, LiveIsShown, Follows
<1>8. ShowsForward
    BY <1>1 DEF ShowsForward, NotAfter, Snapshots, Clients, SonarInv, SonarTypes
<1> QED
    BY <1>5, <1>6, <1>7, <1>8 DEF SonarInv

\* A snapshot arrives: the last that was asked for is shown, any other is not.
LEMMA ArrivalKeeps ==
    ASSUME SonarInv, NEW r \in refreshes, SnapshotArrives(r)
    PROVE  SonarInv' /\ ShowsForward
<1> DEFINE loop == IF r.by = "loop" THEN "waits" ELSE sonar.loop
           next == [sonar EXCEPT !.loop = loop]
<1>1. /\ sonar.connected /\ r.taken # NoSnapshot /\ refreshes' = refreshes \ {r}
      /\ IF Dated(r) THEN sonar' = next /\ UNCHANGED <<screen, details>>
         ELSE /\ sonar' = Showing(next, r.taken)
              /\ Looks(screen, TRUE, sonar.generation, r.taken, details)
      /\ UNCHANGED observed
    BY DEF SnapshotArrives, Current
<1>2. r \in Refreshings /\ r.taken \in Snapshots /\ sonar \in Clients /\ screen \in Screens
    BY DEF SonarInv, SonarTypes, Refreshings
<1>3. /\ next \in Clients /\ next.snapshot = sonar.snapshot /\ next.refreshId = sonar.refreshId
      /\ next.phase = sonar.phase /\ next.connected = sonar.connected /\ next.gap = sonar.gap
    BY <1>2 DEF Clients
<1> HIDE DEF next
<1>4. CASE Dated(r)
    <2>1. SonarTypes' /\ LastIsNewest'
        BY <1>1, <1>3, <1>4 DEF SonarInv, SonarTypes, LastIsNewest
    <2>2. AwaitedAreSelected' /\ LiveIsConnected' /\ LiveIsShown' /\ Follows'
        BY <1>1, <1>3, <1>4 DEF SonarInv, AwaitedAreSelected, LiveIsConnected, LiveIsShown, Follows
    <2>3. ShowsForward
        BY <1>1, <1>3, <1>4 DEF ShowsForward, NotAfter, Snapshots, Clients, SonarInv, SonarTypes
    <2> QED
        BY <2>1, <2>2, <2>3 DEF SonarInv
<1>5. CASE ~Dated(r)
    <2> DEFINE gap == sonar.gap \/ (sonar.snapshot # NoSnapshot /\ sonar.snapshot.epoch # r.taken.epoch)
    <2>1. /\ sonar' = [next EXCEPT !.phase = "live", !.snapshot = r.taken, !.gap = gap]
          /\ gap \in BOOLEAN
        <3>1. Showing(next, r.taken) =
                  [next EXCEPT !.phase = "live", !.snapshot = r.taken,
                               !.gap = @ \/ (next.snapshot # NoSnapshot
                                             /\ next.snapshot.epoch # r.taken.epoch)]
            BY DEF Showing
        <3> QED
            BY <1>1, <1>3, <1>5, <3>1
    <2> HIDE DEF gap
    <2>2. /\ sonar' \in Clients /\ sonar'.snapshot = r.taken /\ sonar'.refreshId = sonar.refreshId
          /\ sonar'.phase = "live" /\ sonar'.connected = sonar.connected /\ sonar'.gap = gap
        BY <1>2, <1>3, <2>1 DEF Clients
    <2>3. /\ screen' \in Screens /\ details' \in SUBSET Details
          /\ screen'.selected = screen.selected /\ screen'.atEnd = screen.atEnd
          /\ \A d \in details' : ~d.older /\ ~d.cancelled =>
                d.of = screen.selected /\ d.cursor = r.taken.cursor
          /\ screen.atEnd =>
                \E d \in details' : ~d.cancelled /\ ~d.older /\ d.of = screen.selected
        <3>1. sonar.generation \in Nat /\ SonarTypes
            BY DEF SonarInv, SonarTypes, Clients
        <3>2. Looks(screen, TRUE, sonar.generation, r.taken, details)
            BY <1>1, <1>5
        <3> QED
            BY <1>1, <1>2, <3>1, <3>2, LooksKeep
    <2>4. r.id = sonar.refreshId
        BY <1>5 DEF Dated
    <2>5. NotAfter(sonar.snapshot, r.taken)
        BY <1>1, <2>4 DEF SonarInv, LastIsNewest
    <2>6. SonarTypes'
        BY <1>1, <2>2, <2>3 DEF SonarInv, SonarTypes
    <2>7. LastIsNewest'
        <3>1. \A q \in refreshes' : q \in refreshes /\ q.id # sonar.refreshId
            BY <1>1, <2>4 DEF SonarInv, LastIsNewest
        <3>2. NotAfter(r.taken, observed)
            BY DEF SonarInv, LastIsNewest
        <3> QED
            BY <1>1, <2>2, <3>1, <3>2 DEF SonarInv, LastIsNewest
    <2>8. AwaitedAreSelected' /\ Follows'
        BY <2>2, <2>3 DEF AwaitedAreSelected, Follows
    <2>9. LiveIsConnected' /\ LiveIsShown'
        BY <1>1, <2>2 DEF LiveIsConnected, LiveIsShown
    <2>10. ShowsForward
        BY <1>2, <2>2, <2>5 DEF ShowsForward, NotAfter, Snapshots, Clients, gap
    <2> QED
        BY <2>6, <2>7, <2>8, <2>9, <2>10 DEF SonarInv
<1> QED
    BY <1>4, <1>5

\* What the reader does to the conversation.
LEMMA KeysKeep ==
    ASSUME SonarInv, NEW s \in Screens, Looking(s)
    PROVE  SonarInv' /\ ShowsForward
<1>1. UNCHANGED <<observed, sonar, refreshes>>
    BY DEF Looking
<1>2. sonar.snapshot \in Snapshots /\ sonar.connected \in BOOLEAN /\ sonar.generation \in Nat
    BY DEF SonarInv, SonarTypes, Clients
<1>3. /\ screen' \in Screens /\ details' \in SUBSET Details
      /\ screen'.selected = s.selected /\ screen'.atEnd = s.atEnd
      /\ \A d \in details' : ~d.older /\ ~d.cancelled =>
            d.of = s.selected /\ d.cursor = sonar.snapshot.cursor
      /\ sonar.snapshot # NoSnapshot /\ s.atEnd /\ sonar.connected =>
            \E d \in details' : ~d.cancelled /\ ~d.older /\ d.of = s.selected
    BY <1>2, LooksKeep DEF Looking, SonarInv
<1>4. SonarTypes' /\ LastIsNewest' /\ AwaitedAreSelected' /\ LiveIsConnected' /\ LiveIsShown'
    BY <1>1, <1>3 DEF SonarInv, SonarTypes, LastIsNewest, AwaitedAreSelected, LiveIsConnected,
       LiveIsShown
<1>5. Follows'
    BY <1>1, <1>3 DEF SonarInv, LiveIsConnected, LiveIsShown, Follows
<1>6. ShowsForward
    BY <1>1, <1>2 DEF ShowsForward, NotAfter, Snapshots
<1> QED
    BY <1>4, <1>5, <1>6 DEF SonarInv

\* A page of the conversation is asked for, comes or fails.
LEMMA PagesOfScreenKeep ==
    ASSUME SonarInv, Older \/ (\E d \in details : DetailArrives(d) \/ DetailFails(d))
    PROVE  SonarInv' /\ ShowsForward
<1>1. /\ UNCHANGED <<observed, sonar, refreshes>> /\ sonar.snapshot \in Snapshots
      /\ screen \in Screens
    BY DEF Older, DetailArrives, DetailFails, SonarInv, SonarTypes, Clients
<1>2. LastIsNewest' /\ LiveIsConnected' /\ LiveIsShown' /\ ShowsForward
    BY <1>1 DEF SonarInv, LastIsNewest, LiveIsConnected, LiveIsShown, ShowsForward, NotAfter, Snapshots
<1>3. ASSUME Older PROVE SonarInv'
    <2> DEFINE new == [id |-> screen.asked + 1, generation |-> sonar.generation,
                       of |-> screen.selected, cursor |-> screen.detail.cursor,
                       older |-> TRUE, cancelled |-> FALSE]
    <2>1. screen' = [screen EXCEPT !.asked = @ + 1] /\ details' = details \cup {new}
        BY <1>3 DEF Older
    <2>2. new \in Details /\ new.older
        BY DEF SonarInv, SonarTypes, Details, Screens, Clients
    <2> HIDE DEF new
    <2>3. /\ screen' \in Screens /\ screen'.selected = screen.selected
          /\ screen'.atEnd = screen.atEnd /\ screen'.detail = screen.detail
          /\ screen'.error = screen.error
        BY <1>1, <2>1 DEF Screens
    <2>4. SonarTypes'
        BY <1>1, <2>1, <2>2, <2>3 DEF SonarInv, SonarTypes
    <2>5. AwaitedAreSelected' /\ Follows'
        BY <1>1, <2>1, <2>2, <2>3 DEF SonarInv, AwaitedAreSelected, Follows
    <2> QED
        BY <1>2, <2>4, <2>5 DEF SonarInv
<1>4. ASSUME NEW d \in details, DetailFails(d) PROVE SonarInv'
    <2> DEFINE b == screen.error \/ ~d.cancelled
    <2>1. screen' = [screen EXCEPT !.error = b] /\ details' = details \ {d} /\ b \in BOOLEAN
        BY <1>4 DEF DetailFails
    <2>2. d.cancelled \/ b
        OBVIOUS
    <2>3. screen.error => b
        OBVIOUS
    <2> HIDE DEF b
    <2>4. /\ screen' \in Screens /\ screen'.selected = screen.selected
          /\ screen'.atEnd = screen.atEnd /\ screen'.detail = screen.detail
          /\ screen'.error = b
        BY <1>1, <2>1 DEF Screens
    <2>5. SonarTypes'
        BY <1>1, <2>1, <2>4 DEF SonarInv, SonarTypes
    <2>6. AwaitedAreSelected'
        BY <1>1, <2>1, <2>4 DEF SonarInv, AwaitedAreSelected
    <2>7. Follows'
        BY <1>1, <2>1, <2>2, <2>3, <2>4 DEF SonarInv, Follows
    <2> QED
        BY <1>2, <2>5, <2>6, <2>7 DEF SonarInv
<1>5. ASSUME NEW d \in details, DetailArrives(d) PROVE SonarInv'
    <2>1. details' = details \ {d} /\ d \in Details
        BY <1>5 DEF DetailArrives, SonarInv, SonarTypes
    <2>2. CASE ~Awaited(d)
        <3>1. screen' = screen /\ (d.older \/ d.cancelled)
            BY <1>5, <2>2 DEF DetailArrives, Awaited
        <3>2. SonarTypes' /\ AwaitedAreSelected' /\ Follows'
            BY <1>1, <2>1, <3>1 DEF SonarInv, SonarTypes, AwaitedAreSelected, Follows
        <3> QED
            BY <1>2, <3>2 DEF SonarInv
    <2>3. CASE Awaited(d)
        <3> DEFINE shown == [of |-> d.of, cursor |-> d.cursor, older |-> d.older]
                   end == screen.atEnd /\ ~d.older
                   error == screen.error /\ d.older
        <3>1. screen' = [screen EXCEPT !.detail = shown, !.atEnd = end, !.error = error]
            BY <1>5, <2>3 DEF DetailArrives
        <3>2. /\ shown \in [of : Conversations \cup {"none"}, cursor : Nat, older : BOOLEAN]
              /\ end \in BOOLEAN /\ error \in BOOLEAN
            BY <2>1 DEF Details
        <3>3. end => ~d.older /\ ~d.cancelled
            BY <2>3 DEF Awaited
        <3>4. end => shown = [of |-> screen.selected, cursor |-> sonar.snapshot.cursor, older |-> FALSE]
            <4>1. end => d.of = screen.selected /\ d.cursor = sonar.snapshot.cursor
                BY <3>3 DEF SonarInv, AwaitedAreSelected
            <4> QED
                BY <2>1, <3>3, <4>1 DEF Details
        <3> HIDE DEF shown, end, error
        <3>5. /\ screen' \in Screens /\ screen'.selected = screen.selected
              /\ screen'.atEnd = end /\ screen'.detail = shown
            BY <1>1, <3>1, <3>2 DEF Screens
        <3>6. SonarTypes' /\ AwaitedAreSelected'
            BY <1>1, <2>1, <3>5 DEF SonarInv, SonarTypes, AwaitedAreSelected
        <3>7. Follows'
            BY <1>1, <3>4, <3>5 DEF Follows
        <3> QED
            BY <1>2, <3>6, <3>7 DEF SonarInv
    <2> QED
        BY <2>2, <2>3
<1> QED
    BY <1>2, <1>3, <1>4, <1>5

LEMMA SonarStep == SonarInv /\ [SonarNext]_sonarVars => SonarInv' /\ ShowsForward
<1> SUFFICES ASSUME SonarInv, [SonarNext]_sonarVars PROVE SonarInv' /\ ShowsForward
    OBVIOUS
<1>1. CASE UNCHANGED sonarVars
    BY <1>1 DEF sonarVars, SonarInv, SonarTypes, LastIsNewest, AwaitedAreSelected, LiveIsConnected,
       LiveIsShown, Follows, ShowsForward, NotAfter, Snapshots, Clients
<1>2. CASE NewsHappens \/ DaemonRestarts
    BY <1>2, DaemonKeeps
<1>3. ASSUME NEW r \in refreshes, Capture(r) PROVE SonarInv' /\ ShowsForward
    BY <1>3, CaptureKeeps
<1>4. ASSUME NEW r \in refreshes, SnapshotArrives(r) PROVE SonarInv' /\ ShowsForward
    BY <1>4, ArrivalKeeps
<1>5. ASSUME NEW r \in refreshes, SnapshotFails(r) PROVE SonarInv' /\ ShowsForward
    BY <1>5 DEF SnapshotFails, SonarInv, SonarTypes, LastIsNewest, AwaitedAreSelected,
       LiveIsConnected, LiveIsShown, Follows, ShowsForward, NotAfter, Snapshots, Clients
<1>6. CASE Connect \/ WaitForNews \/ (\E trimmed \in BOOLEAN : WaitReturns(trimmed)) \/ Backoff
    BY <1>6, LoopKeeps
<1>7. CASE ConnectionFails \/ GivesUpForGood
    BY <1>7, ConnectionEndKeeps
<1>8. CASE Refresh
    <2> DEFINE s == [sonar EXCEPT !.loop = "reads"]
    <2>1. /\ s \in Clients /\ s.snapshot = sonar.snapshot /\ s.refreshId = sonar.refreshId
          /\ s.phase = sonar.phase /\ s.connected = sonar.connected /\ s.gap = sonar.gap
        BY DEF SonarInv, SonarTypes, Clients
    <2>2. Refreshing(s, "loop") /\ UNCHANGED <<observed, screen, details>>
        BY <1>8 DEF Refresh
    <2> HIDE DEF s
    <2> QED
        BY <2>1, <2>2, RefreshingKeeps
<1>9. ASSUME NEW f \in Filters, ChooseFilter(f) PROVE SonarInv' /\ ShowsForward
    <2> DEFINE s == [sonar EXCEPT !.filter = f]
    <2>1. /\ s \in Clients /\ s.snapshot = sonar.snapshot /\ s.refreshId = sonar.refreshId
          /\ s.phase = sonar.phase /\ s.connected = sonar.connected /\ s.gap = sonar.gap
        BY DEF SonarInv, SonarTypes, Clients
    <2>2. Refreshing(s, "key") /\ UNCHANGED <<observed, screen, details>>
        BY <1>9 DEF ChooseFilter
    <2> HIDE DEF s
    <2> QED
        BY <2>1, <2>2, RefreshingKeeps
<1>10. ASSUME NEW c \in Conversations, SelectConversation(c) PROVE SonarInv' /\ ShowsForward
    <2>1. [screen EXCEPT !.selected = c, !.atEnd = TRUE] \in Screens
        BY DEF SonarInv, SonarTypes, Screens
    <2> QED
        BY <1>10, <2>1, KeysKeep DEF SelectConversation
<1>11. CASE ScrollUp \/ PressEnd
    <2>1. [screen EXCEPT !.atEnd = FALSE] \in Screens /\ [screen EXCEPT !.atEnd = TRUE] \in Screens
        BY DEF SonarInv, SonarTypes, Screens
    <2> QED
        BY <1>11, <2>1, KeysKeep DEF ScrollUp, PressEnd
<1>12. CASE Older \/ (\E d \in details : DetailArrives(d) \/ DetailFails(d))
    BY <1>12, PagesOfScreenKeep
<1> QED
    BY <1>1, <1>2, <1>3, <1>4, <1>5, <1>6, <1>7, <1>8, <1>9, <1>10, <1>11, <1>12 DEF SonarNext

\* Whatever snapshots, filters, conversations and pages overlap, over any number of connections and
\* runs of the daemon: the screen never goes back, tells of gaps, is live only while it is
\* connected, and follows the conversation it selects or says that it cannot.
THEOREM ScreenStaysHonest == SonarSpec => ScreenIsHonest
<1>1. SonarInv /\ [SonarNext]_sonarVars => SonarInv'
    BY SonarStep
<1>2. SonarInv /\ [SonarNext]_sonarVars =>
          [/\ sonar'.snapshot.cursor >= sonar.snapshot.cursor
           /\ sonar'.snapshot.epoch >= sonar.snapshot.epoch
           /\ sonar.gap => sonar'.gap
           /\ (sonar.snapshot # NoSnapshot /\ sonar'.snapshot.epoch # sonar.snapshot.epoch)
                 => sonar'.gap]_sonarVars
    <2>1. SonarInv => sonar.snapshot.cursor \in Nat /\ sonar.snapshot.epoch \in Nat
        BY DEF SonarInv, SonarTypes, Clients, Snapshots
    <2>2. SonarInv' => sonar'.snapshot.cursor \in Nat /\ sonar'.snapshot.epoch \in Nat
        BY DEF SonarInv, SonarTypes, Clients, Snapshots
    <2> QED
        BY <2>1, <2>2, SonarStep DEF ShowsForward, NotAfter
<1>3. SonarInv => LiveIsConnected /\ Follows
    BY DEF SonarInv
<1> QED
    BY <1>1, <1>2, <1>3, SonarBegins, PTL DEF SonarSpec, ScreenIsHonest, Forward

-----------------------------------------------------------------------------
(* The graph on the screen. *)

\* A read that counts is for what is asked.
CountedAreAsked ==
    \A a \in graphReads :
        a.cancelled = TRUE
        \/ (a.cancelled = FALSE /\ a.root = RootOf(graphRoot, onTicket) /\ a.focused = focused)

\* Without such a read what is asked is there, unless nobody looks or the last read failed.
AnsweredAreShown ==
    (/\ LooksAtGraph /\ RootOf(graphRoot, onTicket) # NoTicket /\ ~graphFailed
     /\ \A a \in graphReads : a.cancelled = TRUE)
    => graph = Observed(dependsOn, RootOf(graphRoot, onTicket), focused)

GraphInv ==
    /\ focused \in BOOLEAN
    /\ CountedAreAsked
    /\ AnsweredAreShown

\* What is asked is read when the reader looks, and what was asked before does not count any more.
LEMMA RereadAsks ==
    ASSUME Reread, focused' \in BOOLEAN
    PROVE  GraphInv'
<1> DEFINE r == RootOf(graphRoot', onTicket')
           fresh == [root |-> r, focused |-> focused', cancelled |-> FALSE]
<1>1. graphReads' = {CancelledRead : a \in graphReads}
                        \cup (IF r = NoTicket \/ ~LooksAtGraph' THEN {} ELSE {fresh})
  BY DEF Reread, Asking
<1>2. CancelledRead.cancelled = TRUE
  BY DEF CancelledRead
<1>3. fresh.root = r /\ fresh.focused = focused' /\ fresh.cancelled = FALSE
  OBVIOUS
<1> HIDE DEF fresh
<1>4. \A a \in graphReads' :
        a.cancelled = TRUE \/ (a.cancelled = FALSE /\ a.root = r /\ a.focused = focused')
  <2> SUFFICES ASSUME NEW a \in graphReads'
               PROVE  a.cancelled = TRUE
                      \/ (a.cancelled = FALSE /\ a.root = r /\ a.focused = focused')
    OBVIOUS
  <2>1. a = CancelledRead \/ a = fresh
    BY <1>1
  <2> QED
    BY <2>1, <1>2, <1>3
<1>5. r # NoTicket /\ LooksAtGraph' => fresh \in graphReads'
  BY <1>1
<1>6. CountedAreAsked'
  BY <1>4 DEF CountedAreAsked
<1>7. AnsweredAreShown'
  BY <1>3, <1>5 DEF AnsweredAreShown
<1> QED
  BY <1>6, <1>7 DEF GraphInv

\* A change of what the effect depends on makes it run.
LEMMA RereadIfChangedAsks ==
    ASSUME GraphInv, RereadIfChanged, focused' \in BOOLEAN,
           dependsOn' = dependsOn, graph' = graph
    PROVE  GraphInv'
<1>1. CASE /\ RootOf(graphRoot', onTicket') = RootOf(graphRoot, onTicket)
           /\ focused' = focused /\ LooksAtGraph' = LooksAtGraph
  <2>1. graphReads' = graphReads /\ graphFailed' = graphFailed
    BY <1>1 DEF RereadIfChanged, readingVars
  <2>2. CountedAreAsked'
    BY <1>1, <2>1 DEF GraphInv, CountedAreAsked
  <2>3. AnsweredAreShown'
    BY <1>1, <2>1 DEF GraphInv, AnsweredAreShown
  <2> QED
    BY <2>2, <2>3 DEF GraphInv
<1>2. CASE ~(/\ RootOf(graphRoot', onTicket') = RootOf(graphRoot, onTicket)
             /\ focused' = focused /\ LooksAtGraph' = LooksAtGraph)
  BY <1>2, RereadAsks DEF RereadIfChanged
<1> QED
  BY <1>1, <1>2

\* One step of the reader, the daemon or the reads.
LEMMA GraphStep ==
    ASSUME GraphInv, [GraphNext]_graphVars
    PROVE  GraphInv'
<1>0. focused \in BOOLEAN
  BY DEF GraphInv
<1>1. CASE UNCHANGED graphVars
  BY <1>1 DEF graphVars, readingVars, lookingVars, shownVars, GraphInv, CountedAreAsked,
              AnsweredAreShown, LooksAtGraph
<1>2. CASE SnapshotComes
  <2>1. Reread /\ focused' = focused
    BY <1>2 DEF SnapshotComes
  <2> QED
    BY <1>0, <2>1, RereadAsks
<1>3. CASE ToggleFocus
  <2>1. /\ focused' = ~focused /\ dependsOn' = dependsOn /\ graph' = graph
        /\ RereadIfChanged
    BY <1>3, Zenon DEF ToggleFocus, shownVars
  <2>2. focused' \in BOOLEAN
    BY <1>0, <2>1, Zenon
  <2> QED
    BY <2>1, <2>2, RereadIfChangedAsks
<1>4. ASSUME NEW a \in graphReads, CancelledArrives(a) PROVE GraphInv'
  <2>1. /\ a.cancelled /\ graphReads' = graphReads \ {a} /\ graph' = graph
        /\ UNCHANGED <<dependsOn, graphRoot, focused, onTicket, graphFailed>>
        /\ LooksAtGraph' = LooksAtGraph
    BY <1>4 DEF CancelledArrives, shownVars, lookingVars, LooksAtGraph
  <2>2. a.cancelled = TRUE
    BY <2>1 DEF GraphInv, CountedAreAsked
  <2>3. CountedAreAsked'
    BY <2>1 DEF GraphInv, CountedAreAsked
  <2>4. AnsweredAreShown'
    BY <2>1, <2>2 DEF GraphInv, AnsweredAreShown
  <2> QED
    BY <2>1, <2>3, <2>4 DEF GraphInv
<1>5. ASSUME NEW a \in graphReads, GraphArrives(a) PROVE GraphInv'
  <2>1. /\ ~a.cancelled /\ graphReads' = graphReads \ {a}
        /\ graphRoot' = RootOf(graphRoot, a.root)
        /\ graph' = Observed(dependsOn, a.root, a.focused)
        /\ UNCHANGED <<dependsOn, focused, onTicket>>
    BY <1>5 DEF GraphArrives
  <2>2. a.root = RootOf(graphRoot, onTicket) /\ a.focused = focused
    BY <2>1 DEF GraphInv, CountedAreAsked
  <2>3. RootOf(graphRoot', onTicket') = RootOf(graphRoot, onTicket)
    BY <2>1, <2>2 DEF RootOf
  <2>4. CountedAreAsked'
    BY <2>1, <2>3 DEF GraphInv, CountedAreAsked
  <2>5. AnsweredAreShown'
    BY <2>1, <2>2, <2>3 DEF AnsweredAreShown
  <2> QED
    BY <1>0, <2>1, <2>4, <2>5 DEF GraphInv
<1>6. ASSUME NEW a \in graphReads, GraphFails(a) PROVE GraphInv'
  <2>1. /\ graphReads' = graphReads \ {a} /\ graphFailed' = TRUE
        /\ UNCHANGED <<graphRoot, focused, onTicket>>
    BY <1>6 DEF GraphFails
  <2>2. CountedAreAsked' /\ AnsweredAreShown'
    BY <2>1 DEF GraphInv, CountedAreAsked, AnsweredAreShown
  <2> QED
    BY <1>0, <2>1, <2>2 DEF GraphInv
<1>7. ASSUME NEW d \in Directions, ArrowKey(d) PROVE GraphInv'
  BY <1>0, <1>7, RereadIfChangedAsks DEF ArrowKey
<1>8. ASSUME NEW d \in Directions, ShiftArrow(d) PROVE GraphInv'
  <2>1. /\ UNCHANGED <<dependsOn, graphRoot, focused, onTicket, graphReads, graphFailed, graph>>
        /\ LooksAtGraph' = LooksAtGraph
    BY <1>8 DEF ShiftArrow, lookingVars, readingVars, LooksAtGraph
  <2> QED
    BY <2>1 DEF GraphInv, CountedAreAsked, AnsweredAreShown
<1>9. ASSUME NEW t \in GraphTickets, PickTicket(t) PROVE GraphInv'
  BY <1>0, <1>9, RereadIfChangedAsks DEF PickTicket, shownVars
<1>10. ASSUME NEW t \in GraphTickets \cup {NoTicket}, ListMoves(t) PROVE GraphInv'
  BY <1>0, <1>10, RereadIfChangedAsks DEF ListMoves, shownVars
<1>11. CASE PauseKey
  BY <1>0, <1>11, RereadIfChangedAsks DEF PauseKey, shownVars
<1>12. CASE SwitchView
  BY <1>0, <1>12, RereadIfChangedAsks DEF SwitchView, shownVars
<1> QED
  BY <1>1, <1>2, <1>3, <1>4, <1>5, <1>6, <1>7, <1>8, <1>9, <1>10, <1>11, <1>12 DEF GraphNext

LEMMA GraphBegins ==
    ASSUME GraphInit
    PROVE  GraphInv
<1> DEFINE first == [root |-> onTicket, focused |-> FALSE, cancelled |-> FALSE]
<1>1. graphReads = {first} /\ graphRoot = NoTicket /\ focused = FALSE
  BY DEF GraphInit
<1>2. first.root = onTicket /\ first.focused = FALSE /\ first.cancelled = FALSE
  OBVIOUS
<1> HIDE DEF first
<1>3. RootOf(graphRoot, onTicket) = onTicket
  BY <1>1 DEF RootOf
<1> QED
  BY <1>1, <1>2, <1>3 DEF GraphInv, CountedAreAsked, AnsweredAreShown

\* To a reader who looks at it the graph on the screen is that of the ticket and the focus that
\* were asked for last, whatever was asked before and in whatever order the answers came, unless
\* it is being read or the last read failed: across pauses, changes of view, reads that are
\* cancelled, and selections that move by themselves.
THEOREM GraphStaysAsked == GraphSpec => []GraphIsAsked
<1>1. GraphInit => GraphInv
  BY GraphBegins
<1>2. GraphInv /\ [GraphNext]_graphVars => GraphInv'
  BY GraphStep
<1>3. GraphInv => GraphIsAsked
  <2>1. GraphInv /\ (\A a \in graphReads : a.cancelled) => \A a \in graphReads : a.cancelled = TRUE
    BY DEF GraphInv, CountedAreAsked
  <2> QED
    BY <2>1 DEF GraphInv, AnsweredAreShown, GraphIsAsked
<1> QED
  BY <1>1, <1>2, <1>3, PTL DEF GraphSpec

\* Finitely many numbers have a greatest one: a smallest set without one could lose an element.
LEMMA FurthestIs ==
    ASSUME NEW S \in SUBSET Nat, S # {}, IsFiniteSet(S)
    PROVE  Furthest(S) \in S /\ \A k \in S : k <= Furthest(S)
<1> DEFINE Topped(U) == \E g \in U : \A k \in U : k <= g
           bad == {U \in SUBSET S : U # {} /\ ~Topped(U)}
           sizes == {Cardinality(U) : U \in bad}
<1>1. \A U \in SUBSET S : IsFiniteSet(U) /\ Cardinality(U) \in Nat
  BY FS_Subset, FS_CardinalityType
<1>2. bad = {}
  <2>1. SUFFICES ASSUME bad # {} PROVE FALSE
    OBVIOUS
  <2>2. sizes \in SUBSET Nat /\ sizes # {}
    BY <1>1, <2>1
  <2>3. \E n \in sizes : \A m \in sizes : n <= m
    BY <2>2, LeastOfSet
  <2>4. PICK U \in bad : \A V \in bad : Cardinality(U) <= Cardinality(V)
    BY <2>3
  <2>5. PICK u \in U : TRUE
    OBVIOUS
  <2> DEFINE rest == U \ {u}
  <2>6. rest \in SUBSET S /\ IsFiniteSet(U) /\ Cardinality(U) \in Nat /\ u \in Nat
    BY <1>1
  <2>7. Cardinality(rest) = Cardinality(U) - 1
    BY <2>6, FS_RemoveElement
  <2>8. rest \notin bad
    <3>1. rest \in bad => Cardinality(U) <= Cardinality(rest)
      BY <2>4
    <3> HIDE DEF rest, bad
    <3> QED
      BY <2>6, <2>7, <3>1
  <2>9. CASE rest = {}
    <3>1. \A k \in U : k = u
      BY <2>9
    <3> QED
      BY <2>4, <2>6, <3>1
  <2>10. CASE rest # {}
    <3>1. PICK g \in rest : \A k \in rest : k <= g
      BY <2>6, <2>8, <2>10
    <3>2. g \in Nat /\ g \in U
      BY <2>6
    <3>3. CASE g <= u
      <4>1. \A k \in U : k \in Nat /\ (k = u \/ k <= g)
        BY <3>1, <2>6
      <4> QED
        BY <2>4, <2>6, <3>2, <3>3, <4>1
    <3>4. CASE ~(g <= u)
      <4>1. \A k \in U : k <= g
        BY <3>1, <2>6, <3>2, <3>4
      <4> QED
        BY <2>4, <3>2, <4>1
    <3> QED
      BY <3>3, <3>4
  <2> QED
    BY <2>9, <2>10
<1> QED
  BY <1>2 DEF Furthest

\* After a selection is centered its whole box is on the screen, wherever the layout has put it
\* and wherever the screen was before.
THEOREM CenteredIsSeen ==
    ASSUME NEW shown, NEW at \in [shown -> [x : Columns, y : Lines]], NEW t \in shown,
           NEW p \in [x : Nat, y : Nat]
    PROVE  LET seen == Centered(at, t, p)
           IN  /\ seen \in [x : Nat, y : Nat]
               /\ FitsAcross(at, t, seen) /\ FitsDown(at, t, seen)
<1> DEFINE xs == {at[u].x : u \in DOMAIN at}
           width == LayoutWidth(at)
           bx == at[t].x
           by == at[t].y
<1>1. bx \in Nat /\ by \in Nat /\ xs \in SUBSET Nat /\ bx \in xs
  BY GraphAssumption
<1>2. IsFiniteSet(xs)
  <2>1. xs \in SUBSET Columns
    OBVIOUS
  <2> QED
    BY <2>1, GraphAssumption, FS_Subset
<1>3. Furthest(xs) \in Nat /\ bx <= Furthest(xs)
  BY <1>1, <1>2, FurthestIs
<1>4. width \in Nat /\ bx + BoxWidth + 1 <= width
  <2>1. width = Furthest(xs) + BoxWidth + 1
    BY DEF LayoutWidth
  <2> HIDE DEF xs, width, bx
  <2> QED
    BY <1>1, <1>3, <2>1 DEF BoxWidth
<1> DEFINE seen == Centered(at, t, p)
<1>5. seen = [x |-> IF FitsAcross(at, t, p) THEN p.x ELSE MiddleX(at, t),
              y |-> IF FitsDown(at, t, p) THEN p.y ELSE AtLeast0(by - 2)]
  BY DEF Centered
<1>6. /\ MiddleX(at, t) \in Nat /\ MiddleX(at, t) <= bx
      /\ bx + BoxWidth <= MiddleX(at, t) + ViewWidth
  <2> DEFINE half == ViewWidth \div 2
  <2>1. half \in Nat /\ 2 * half <= ViewWidth /\ ViewWidth <= 2 * half + 1
    BY GraphAssumption
  <2>2. MiddleX(at, t) = AtLeast0(Lesser(width - ViewWidth, bx - half + 12))
    BY DEF MiddleX
  <2> HIDE DEF half, width, bx
  <2> QED
    BY <1>1, <1>4, <2>1, <2>2, GraphAssumption DEF AtLeast0, Lesser, BoxWidth
<1>7. /\ AtLeast0(by - 2) \in Nat /\ AtLeast0(by - 2) <= by
      /\ by + BoxHeight <= AtLeast0(by - 2) + ViewHeight
  <2> HIDE DEF by
  <2> QED
    BY <1>1, GraphAssumption DEF AtLeast0, BoxHeight
<1>8. /\ seen \in [x : Nat, y : Nat]
      /\ seen.x = IF FitsAcross(at, t, p) THEN p.x ELSE MiddleX(at, t)
      /\ seen.y = IF FitsDown(at, t, p) THEN p.y ELSE AtLeast0(by - 2)
  <2> HIDE DEF seen, by
  <2> QED
    BY <1>5, <1>6, <1>7
<1> HIDE DEF seen
<1>9. FitsAcross(at, t, seen)
  BY <1>6, <1>8 DEF FitsAcross
<1>10. FitsDown(at, t, seen)
  BY <1>7, <1>8 DEF FitsDown
<1> QED
  BY <1>8, <1>9, <1>10 DEF seen

-----------------------------------------------------------------------------
(* Lists of observers. *)

Ranks == [ListedIds -> Nat]

LEMMA FrontsAreFinite ==
  ASSUME NEW r, NEW x
  PROVE  IsFiniteSet(FrontBy(r, x)) /\ Cardinality(FrontBy(r, x)) \in Nat
<1>1. FrontBy(r, x) \subseteq ListedIds
  BY DEF FrontBy
<1> QED
  BY <1>1, ShownAssumption, FS_Subset, FS_CardinalityType

\* One comes in front of another in an order.
LEMMA FrontsAreOrdered ==
  ASSUME NEW r \in Ranks
  PROVE  /\ \A x \in ListedIds : ~InFrontBy(r, x, x)
         /\ \A x, y, z \in ListedIds : InFrontBy(r, x, y) /\ InFrontBy(r, y, z) => InFrontBy(r, x, z)
         /\ \A x, y \in ListedIds : x # y => InFrontBy(r, x, y) \/ InFrontBy(r, y, x)
BY ShownAssumption DEF Ranks, InFrontBy

LEMMA FrontsGrow ==
  ASSUME NEW r \in Ranks, NEW x \in ListedIds, NEW y \in ListedIds, InFrontBy(r, x, y)
  PROVE  /\ FrontBy(r, x) \subseteq FrontBy(r, y)
         /\ Cardinality(FrontBy(r, x)) <= Cardinality(FrontBy(r, y))
         /\ r[x] > 0 => Cardinality(FrontBy(r, x)) < Cardinality(FrontBy(r, y))
<1>1. FrontBy(r, x) \subseteq FrontBy(r, y)
  BY FrontsAreOrdered DEF FrontBy
<1>2. Cardinality(FrontBy(r, x)) <= Cardinality(FrontBy(r, y))
  BY <1>1, FrontsAreFinite, FS_Subset
<1>3. ASSUME r[x] > 0 PROVE Cardinality(FrontBy(r, x)) < Cardinality(FrontBy(r, y))
  <2>1. x \in FrontBy(r, y) /\ x \notin FrontBy(r, x)
    BY <1>3, FrontsAreOrdered DEF FrontBy
  <2>2. Cardinality(FrontBy(r, x)) # Cardinality(FrontBy(r, y))
    BY <1>1, <2>1, FrontsAreFinite, FS_Subset
  <2> QED
    BY <1>2, <2>2, FrontsAreFinite
<1> QED
  BY <1>1, <1>2, <1>3

LEMMA OneIsInFront ==
  ASSUME NEW r \in Ranks, NEW S \in SUBSET {x \in ListedIds : r[x] > 0}, S # {}
  PROVE  \E f \in S : \A x \in S : x # f => InFrontBy(r, f, x)
<1> DEFINE N == {Cardinality(FrontBy(r, x)) : x \in S}
<1>1. N \in SUBSET Nat /\ N # {}
  BY FrontsAreFinite
<1>2. PICK m \in N : \A n \in N : m <= n
  BY <1>1, LeastPlace
<1>3. PICK f \in S : m = Cardinality(FrontBy(r, f))
  BY <1>2
<1>4. ASSUME NEW x \in S, x # f PROVE InFrontBy(r, f, x)
  <2>1. Cardinality(FrontBy(r, f)) <= Cardinality(FrontBy(r, x))
    BY <1>2, <1>3
  <2>2. ~InFrontBy(r, x, f)
    <3> SUFFICES ASSUME InFrontBy(r, x, f) PROVE FALSE
      OBVIOUS
    <3>1. Cardinality(FrontBy(r, x)) < Cardinality(FrontBy(r, f))
      BY FrontsGrow
    <3> QED
      BY <2>1, <3>1, FrontsAreFinite
  <2> QED
    BY <1>4, <2>2, FrontsAreOrdered
<1> QED
  BY <1>4

LEMMA OneIsLast ==
  ASSUME NEW r \in Ranks, NEW S \in SUBSET {x \in ListedIds : r[x] > 0}, S # {}
  PROVE  \E f \in S : \A x \in S : x # f => InFrontBy(r, x, f)
<1> DEFINE k(x) == Cardinality(ListedIds) - Cardinality(FrontBy(r, x))
           N == {k(x) : x \in S}
<1>0. /\ Cardinality(ListedIds) \in Nat
      /\ \A x : /\ Cardinality(FrontBy(r, x)) \in Nat
                /\ Cardinality(FrontBy(r, x)) <= Cardinality(ListedIds)
  <2>1. \A x : FrontBy(r, x) \in SUBSET ListedIds
    BY DEF FrontBy
  <2> QED
    BY <2>1, FrontsAreFinite, FS_Subset, FS_CardinalityType, ShownAssumption
<1>1. N \in SUBSET Nat /\ N # {}
  <2>1. \A x \in S : k(x) \in Nat
    BY <1>0
  <2> QED
    BY <2>1
<1>2. PICK m \in N : \A n \in N : m <= n
  BY <1>1, LeastPlace
<1>3. PICK f \in S : m = k(f)
  BY <1>2
<1>4. ASSUME NEW x \in S, x # f PROVE InFrontBy(r, x, f)
  <2>1. k(f) <= k(x)
    BY <1>2, <1>3
  <2>2. ~InFrontBy(r, f, x)
    <3> SUFFICES ASSUME InFrontBy(r, f, x) PROVE FALSE
      OBVIOUS
    <3>1. Cardinality(FrontBy(r, f)) < Cardinality(FrontBy(r, x))
      BY FrontsGrow
    <3> QED
      BY <2>1, <3>1, <1>0
  <2> QED
    BY <1>4, <2>2, FrontsAreOrdered
<1> QED
  BY <1>4

LEMMA SetsApartAdd ==
  ASSUME NEW A, NEW B, IsFiniteSet(A), IsFiniteSet(B), A \cap B = {}
  PROVE  /\ IsFiniteSet(A \cup B)
         /\ Cardinality(A \cup B) = Cardinality(A) + Cardinality(B)
<1>1. Cardinality(A \cap B) = 0
  BY FS_EmptySet
<1>2. /\ Cardinality(A) \in Nat /\ Cardinality(B) \in Nat
  BY FS_CardinalityType
<1>3. /\ IsFiniteSet(A \cup B)
      /\ Cardinality(A \cup B) = Cardinality(A) + Cardinality(B) - Cardinality(A \cap B)
  BY FS_Union
<1> QED
  BY <1>1, <1>2, <1>3

\* Where the list is read by numbers: who is still owed stands behind the offset, who was shown
\* before it.
LEMMA PagesCount ==
  ASSUME NEW r \in Ranks, NEW offset \in Nat,
         NEW rest, rest = {e \in {x \in ListedIds : r[x] > 0} : offset <= Cardinality(FrontBy(r, e))},
         NEW page \in SUBSET rest,
         \A x \in page, y \in rest : InFrontBy(r, y, x) => y \in page,
         NEW x \in ListedIds, r[x] > 0
  PROVE  /\ Cardinality(page) \in Nat
         /\ x \in rest \ page =>
               offset + Cardinality(page) <= Cardinality(FrontBy(r, x))
         /\ x \in page => Cardinality(FrontBy(r, x)) < offset + Cardinality(page)
<1> DEFINE there == {y \in ListedIds : r[y] > 0}
           begun == there \ rest
<1>a. \A e : e \in rest <=> /\ e \in ListedIds /\ r[e] > 0
                            /\ offset <= Cardinality(FrontBy(r, e))
  OBVIOUS
<1>b. \A y \in page, z \in rest : InFrontBy(r, z, y) => z \in page
  OBVIOUS
<1>c. /\ there \in SUBSET ListedIds /\ begun \in SUBSET there /\ page \in SUBSET rest
      /\ rest \in SUBSET there
      /\ \A y \in begun : Cardinality(FrontBy(r, y)) < offset
  BY <1>a, FrontsAreFinite
<1>d. \A y : y \in begun \/ y \in rest \/ y \notin there
  OBVIOUS
<1>e. \A y : y \in there <=> y \in ListedIds /\ r[y] > 0
  OBVIOUS
<1>f. begun \cap rest = {}
  OBVIOUS
<1> HIDE DEF there, begun
<1>1. IsFiniteSet(page) /\ IsFiniteSet(begun) /\ Cardinality(page) \in Nat
      /\ Cardinality(begun) \in Nat
  <2>1. page \in SUBSET ListedIds /\ begun \in SUBSET ListedIds
    BY <1>c
  <2> QED
    BY <2>1, FS_Subset, FS_CardinalityType, ShownAssumption
<1>2. ASSUME x \in rest, x \notin page
      PROVE  offset + Cardinality(page) <= Cardinality(FrontBy(r, x))
  <2>1. CASE page = {}
    BY <2>1, <1>2, FS_EmptySet, FrontsAreFinite
  <2>2. CASE page # {}
    <3>1. PICK f \in page : \A y \in page : y # f => InFrontBy(r, f, y)
      <4>1. page \in SUBSET {y \in ListedIds : r[y] > 0}
        BY <1>c, <1>e
      <4> QED
        BY <4>1, <2>2, OneIsInFront
    <3>2. \A y \in page : InFrontBy(r, y, x)
      BY <1>2, <1>b, <1>c, <1>e, FrontsAreOrdered
    <3>3. page \in SUBSET FrontBy(r, x)
      BY <3>2, <1>c, <1>e DEF FrontBy
    <3>9. FrontBy(r, f) \in SUBSET FrontBy(r, x)
      <4>1. f \in ListedIds /\ InFrontBy(r, f, x)
        BY <3>2, <1>c
      <4> QED
        BY <4>1, FrontsGrow
    <3>4. FrontBy(r, f) \cap page = {}
      <4> SUFFICES ASSUME NEW y \in page, y \in FrontBy(r, f) PROVE FALSE
        OBVIOUS
      <4>1. y \in ListedIds /\ f \in ListedIds /\ InFrontBy(r, y, f)
        BY <1>c DEF FrontBy
      <4> QED
        BY <4>1, <3>1, FrontsAreOrdered
    <3>5. offset <= Cardinality(FrontBy(r, f))
      BY <1>a
    <3>6. /\ IsFiniteSet(FrontBy(r, f) \cup page)
          /\ Cardinality(FrontBy(r, f) \cup page) = Cardinality(FrontBy(r, f)) + Cardinality(page)
      BY <3>4, <1>1, FrontsAreFinite, SetsApartAdd
    <3>7. Cardinality(FrontBy(r, f) \cup page) <= Cardinality(FrontBy(r, x))
      <4>1. FrontBy(r, f) \cup page \in SUBSET FrontBy(r, x)
        BY <3>3, <3>9
      <4> QED
        BY <4>1, FrontsAreFinite, FS_Subset
    <3> QED
      BY <3>5, <3>6, <3>7, <1>1, FrontsAreFinite
  <2> QED
    BY <2>1, <2>2
<1>3. ASSUME x \in page PROVE Cardinality(FrontBy(r, x)) < offset + Cardinality(page)
  <2>1. Cardinality(begun) <= offset
    <3>1. CASE begun = {}
      BY <3>1, FS_EmptySet
    <3>2. CASE begun # {}
      <4>1. PICK b \in begun : \A y \in begun : y # b => InFrontBy(r, y, b)
        <5>1. begun \in SUBSET {y \in ListedIds : r[y] > 0}
          BY <1>c, <1>e
        <5> QED
          BY <5>1, <3>2, OneIsLast
      <4>2. begun \ {b} \in SUBSET FrontBy(r, b)
        BY <4>1, <1>c, <1>e DEF FrontBy
      <4>3. Cardinality(begun \ {b}) <= Cardinality(FrontBy(r, b))
        BY <4>2, FrontsAreFinite, FS_Subset
      <4>4. Cardinality(begun \ {b}) = Cardinality(begun) - 1
        BY <4>1, <1>1, FS_RemoveElement
      <4>5. Cardinality(FrontBy(r, b)) < offset
        BY <4>1, <1>c
      <4> QED
        BY <4>3, <4>4, <4>5, <1>1, FrontsAreFinite
    <3> QED
      BY <3>1, <3>2
  <2>2. FrontBy(r, x) \in SUBSET (begun \cup (page \ {x}))
    <3> SUFFICES ASSUME NEW y \in FrontBy(r, x) PROVE y \in begun \cup (page \ {x})
      OBVIOUS
    <3>1. y \in ListedIds /\ r[y] > 0 /\ InFrontBy(r, y, x)
      BY DEF FrontBy
    <3>2. y # x
      BY <3>1, FrontsAreOrdered
    <3>3. y \in begun \/ y \in rest
      BY <3>1, <1>d, <1>e
    <3> QED
      BY <3>1, <3>2, <3>3, <1>3, <1>b
  <2>3. /\ IsFiniteSet(page \ {x}) /\ Cardinality(page \ {x}) = Cardinality(page) - 1
    BY <1>3, <1>1, FS_RemoveElement
  <2>4. /\ IsFiniteSet(begun \cup (page \ {x}))
        /\ Cardinality(begun \cup (page \ {x})) = Cardinality(begun) + Cardinality(page) - 1
    <3>1. begun \cap (page \ {x}) = {}
      BY <1>f, <1>c
    <3> QED
      BY <3>1, <2>3, <1>1, SetsApartAdd
  <2>5. Cardinality(FrontBy(r, x)) <= Cardinality(begun \cup (page \ {x}))
    BY <2>2, <2>4, FS_Subset
  <2> QED
    BY <2>1, <2>4, <2>5, <1>1, FrontsAreFinite
<1> QED
  BY <1>1, <1>2, <1>3

PagingRecords == [at : {"paging"}, offset : Nat, last : 0..(MaxRank + 1),
                  owed : SUBSET ListedIds, shown : SUBSET ListedIds]
DoneRecords == [at : {"done"}, missed : SUBSET ListedIds]

LookTypeOK ==
    /\ listed \in {"agents", "turns", "content", "activity"}
    /\ rank \in [ListedIds -> 0..MaxRank]
    /\ looking \in [Lookers -> {NotLooking} \cup PagingRecords \cup DoneRecords]

\* Events are in an order of their own: of two, one is later.
EventsApart(k, r) ==
    k = "activity" => \A x, y \in ListedIds : r[x] > 0 /\ r[x] = r[y] => x = y

\* Where a reader stands: what it is owed is on the pages to come, what it was shown is not.
StandsRight(k, r, look) ==
    look.at = "paging" =>
        /\ \A x \in look.owed :
              /\ r[x] > 0
              /\ IF k # "activity" THEN look.offset <= Cardinality(FrontBy(r, x))
                 ELSE r[x] < look.last
        /\ \A x \in look.shown :
              /\ r[x] > 0
              /\ IF k # "activity" THEN Cardinality(FrontBy(r, x)) < look.offset
                 ELSE look.last <= r[x]

NoneMissed(look) == look.at = "done" => look.missed = {}

LookInv ==
    /\ LookTypeOK
    /\ EventsApart(listed, rank)
    /\ \A l \in Lookers : StandsRight(listed, rank, looking[l]) /\ NoneMissed(looking[l])

\* Who stays in its place keeps everybody in front who does not leave from there, and gets
\* nobody in front who does not come there.
LEMMA FrontsMove ==
  ASSUME NEW r \in Ranks, NEW e \in ListedIds, NEW to \in Nat, NEW x \in ListedIds, x # e,
         NEW new, new = [r EXCEPT ![e] = to]
  PROVE  /\ new \in Ranks /\ new[x] = r[x]
         /\ e \notin FrontBy(r, x) \ FrontBy(new, x) =>
                Cardinality(FrontBy(r, x)) <= Cardinality(FrontBy(new, x))
         /\ e \notin FrontBy(new, x) \ FrontBy(r, x) =>
                Cardinality(FrontBy(new, x)) <= Cardinality(FrontBy(r, x))
<1>1. new \in Ranks /\ \A y \in ListedIds : y # e => new[y] = r[y]
  BY DEF Ranks
<1>2. \A y \in ListedIds : y # e => (y \in FrontBy(r, x) <=> y \in FrontBy(new, x))
  BY <1>1 DEF FrontBy, InFrontBy
<1>3. FrontBy(r, x) \in SUBSET ListedIds /\ FrontBy(new, x) \in SUBSET ListedIds
  BY DEF FrontBy
<1>4. ASSUME e \notin FrontBy(r, x) \ FrontBy(new, x)
      PROVE  Cardinality(FrontBy(r, x)) <= Cardinality(FrontBy(new, x))
  <2>1. FrontBy(r, x) \in SUBSET FrontBy(new, x)
    BY <1>2, <1>3, <1>4
  <2> QED
    BY <2>1, FrontsAreFinite, FS_Subset
<1>5. ASSUME e \notin FrontBy(new, x) \ FrontBy(r, x)
      PROVE  Cardinality(FrontBy(new, x)) <= Cardinality(FrontBy(r, x))
  <2>1. FrontBy(new, x) \in SUBSET FrontBy(r, x)
    BY <1>2, <1>3, <1>5
  <2> QED
    BY <2>1, FrontsAreFinite, FS_Subset
<1> QED
  BY <1>1, <1>4, <1>5

LEMMA MovesKeepPlaces ==
  ASSUME LookInv, NEW e \in ListedIds, NEW to \in 0..MaxRank, EntryMoves(e, to)
  PROVE  LookInv'
<1>1. /\ LookTypeOK /\ EventsApart(listed, rank) /\ MayMove(e, to)
      /\ rank' = [rank EXCEPT ![e] = to] /\ listed' = listed
      /\ looking' = [l \in Lookers |-> MoveSeen(looking[l], e, rank')]
      /\ MaxRank \in Nat
  BY ShownAssumption DEF LookInv, EntryMoves
<1>2. rank \in Ranks /\ to \in Nat /\ rank' \in [ListedIds -> 0..MaxRank] /\ rank' \in Ranks
  BY <1>1 DEF LookTypeOK, Ranks
<1>3. EventsApart(listed', rank')
  <2> SUFFICES ASSUME listed = "activity", NEW x \in ListedIds, NEW y \in ListedIds,
                      rank'[x] > 0, rank'[x] = rank'[y]
               PROVE  x = y
    BY <1>1 DEF EventsApart
  <2>1. IF rank[e] = 0 THEN \A z \in ListedIds : rank[z] < to ELSE to = 0
    BY <1>1 DEF MayMove
  <2> QED
    BY <1>1, <1>2, <2>1 DEF EventsApart, Ranks
<1>4. ASSUME NEW l \in Lookers
      PROVE  /\ looking'[l] \in {NotLooking} \cup PagingRecords \cup DoneRecords
             /\ StandsRight(listed', rank', looking'[l]) /\ NoneMissed(looking'[l])
  <2> DEFINE o == looking[l]
             n == MoveSeen(o, e, rank')
  <2>1. /\ o \in {NotLooking} \cup PagingRecords \cup DoneRecords
        /\ StandsRight(listed, rank, o) /\ NoneMissed(o) /\ looking'[l] = n
    BY <1>1 DEF LookTypeOK, LookInv
  <2>2. CASE o.at # "paging"
    <3>1. n = o
      BY <2>2 DEF MoveSeen
    <3> QED
      BY <2>1, <2>2, <3>1 DEF StandsRight
  <2>3. CASE o.at = "paging"
    <3>1. o \in PagingRecords
      BY <2>1, <2>3 DEF NotLooking, DoneRecords
    <3> DEFINE up == {x \in ListedIds : e \in FrontBy(rank, x) \ FrontBy(rank', x)}
               back == {x \in ListedIds : e \in FrontBy(rank', x) \ FrontBy(rank, x)}
               gone == {e} \cup IF ByNumber THEN up ELSE {}
               come == {e} \cup IF ByNumber THEN back ELSE {}
    <3>2. n = [o EXCEPT !.owed = @ \ gone, !.shown = @ \ come]
      BY <2>3 DEF MoveSeen, InFrontOf
    <3> HIDE DEF gone, come, n
    <3>3. /\ n \in PagingRecords /\ n.at = "paging" /\ n.offset = o.offset /\ n.last = o.last
          /\ n.owed = o.owed \ gone /\ n.shown = o.shown \ come
      BY <3>1, <3>2 DEF PagingRecords
    <3>4. ASSUME NEW x \in n.owed
          PROVE  /\ rank'[x] > 0
                 /\ IF listed # "activity" THEN n.offset <= Cardinality(FrontBy(rank', x))
                    ELSE rank'[x] < n.last
      <4>1. x \in o.owed /\ x \in ListedIds /\ x # e /\ (ByNumber => x \notin up)
        BY <3>3, <3>1 DEF PagingRecords, gone
      <4>2. /\ rank'[x] = rank[x]
            /\ ByNumber => Cardinality(FrontBy(rank, x)) <= Cardinality(FrontBy(rank', x))
        BY <4>1, <1>1, <1>2, FrontsMove
      <4>3. /\ rank[x] > 0
            /\ IF listed # "activity" THEN o.offset <= Cardinality(FrontBy(rank, x))
               ELSE rank[x] < o.last
        BY <4>1, <2>1, <2>3 DEF StandsRight
      <4>4. o.offset \in Nat
        BY <3>1 DEF PagingRecords
      <4> QED
        BY <4>2, <4>3, <4>4, <3>3, FrontsAreFinite DEF ByNumber
    <3>5. ASSUME NEW x \in n.shown
          PROVE  /\ rank'[x] > 0
                 /\ IF listed # "activity" THEN Cardinality(FrontBy(rank', x)) < n.offset
                    ELSE n.last <= rank'[x]
      <4>1. x \in o.shown /\ x \in ListedIds /\ x # e /\ (ByNumber => x \notin back)
        BY <3>3, <3>1 DEF PagingRecords, come
      <4>2. /\ rank'[x] = rank[x]
            /\ ByNumber => Cardinality(FrontBy(rank', x)) <= Cardinality(FrontBy(rank, x))
        BY <4>1, <1>1, <1>2, FrontsMove
      <4>3. /\ rank[x] > 0
            /\ IF listed # "activity" THEN Cardinality(FrontBy(rank, x)) < o.offset
               ELSE o.last <= rank[x]
        BY <4>1, <2>1, <2>3 DEF StandsRight
      <4>4. o.offset \in Nat
        BY <3>1 DEF PagingRecords
      <4> QED
        BY <4>2, <4>3, <4>4, <3>3, FrontsAreFinite DEF ByNumber
    <3>6. StandsRight(listed', rank', n) /\ NoneMissed(n)
      BY <3>3, <3>4, <3>5, <1>1 DEF StandsRight, NoneMissed
    <3> QED
      BY <3>3, <3>6, <2>1
  <2> QED
    BY <2>2, <2>3
<1>5. LookTypeOK'
  BY <1>1, <1>2, <1>4 DEF LookTypeOK
<1> QED
  BY <1>3, <1>4, <1>5 DEF LookInv

LEMMA FirstLookStandsRight ==
  ASSUME LookInv, NEW l \in Lookers, LookAtList(l)
  PROVE  LookInv'
<1> DEFINE n == [at |-> "paging", offset |-> 0, last |-> MaxRank + 1,
                 owed |-> Present, shown |-> {}]
<1>1. /\ LookTypeOK /\ looking' = [looking EXCEPT ![l] = n] /\ rank' = rank /\ listed' = listed
      /\ MaxRank \in Nat
  BY ShownAssumption DEF LookInv, LookAtList
<1>2. n \in PagingRecords
  BY <1>1 DEF PagingRecords, Present
<1>3. StandsRight(listed, rank, n) /\ NoneMissed(n)
  <2>1. \A x \in Present : rank[x] > 0 /\ rank[x] < MaxRank + 1
    BY <1>1 DEF LookTypeOK, Present
  <2> QED
    BY <2>1, FrontsAreFinite DEF StandsRight, NoneMissed
<1> HIDE DEF n
<1>4. LookTypeOK'
  BY <1>1, <1>2 DEF LookTypeOK
<1>5. ASSUME NEW k \in Lookers
      PROVE  StandsRight(listed', rank', looking'[k]) /\ NoneMissed(looking'[k])
  BY <1>1, <1>3 DEF LookInv, LookTypeOK
<1> QED
  BY <1>1, <1>4, <1>5 DEF LookInv

\* The place a page of events ends at is found, and is where one of them stands.
LEMMA PlacesOfEvents ==
  ASSUME NEW r \in [ListedIds -> 0..MaxRank], NEW p \in SUBSET ListedIds, p # {}
  PROVE  \E m \in 0..MaxRank : (\A x \in p : m <= r[x]) /\ \E x \in p : m = r[x]
<1> DEFINE N == {r[x] : x \in p}
<1>0. \A x \in p : r[x] \in 0..MaxRank /\ r[x] \in Nat
  BY ShownAssumption
<1>1. N \in SUBSET Nat /\ N # {} /\ N \in SUBSET (0..MaxRank)
  BY <1>0
<1>2. PICK m \in N : \A n \in N : m <= n
  BY <1>1, LeastPlace
<1> QED
  BY <1>1, <1>2

LEMMA NextLookStandsRight ==
  ASSUME LookInv, NEW l \in Lookers, NextLook(l)
  PROVE  LookInv'
<1> DEFINE o == looking[l]
<1>1. /\ LookTypeOK /\ EventsApart(listed, rank) /\ o.at = "paging" /\ MaxRank \in Nat
      /\ StandsRight(listed, rank, o) /\ rank' = rank /\ listed' = listed
  BY ShownAssumption DEF LookInv, NextLook
<1>2. PICK page \in Pages(o) : looking' = [looking EXCEPT ![l] =
              IF page = Rest(o) THEN [at |-> "done", missed |-> o.owed \ page]
              ELSE [o EXCEPT !.offset = NextOffset(o, page),
                             !.last = CHOOSE r \in 0..MaxRank : IsLast(r, page),
                             !.owed = o.owed \ page,
                             !.shown = o.shown \cup (o.owed \cap page)]]
  BY DEF NextLook
<1>3. o \in PagingRecords
  BY <1>1 DEF LookTypeOK, NotLooking, DoneRecords
<1>4. /\ page \in SUBSET Rest(o) /\ (page = {} => Rest(o) = {})
      /\ \A x \in page, y \in Rest(o) : InFrontBy(rank, y, x) => y \in page
  BY DEF Pages
<1>5. rank \in Ranks
  BY <1>1 DEF LookTypeOK, Ranks
<1>6. o.owed \in SUBSET Rest(o) /\ o.owed \in SUBSET ListedIds /\ o.shown \in SUBSET ListedIds
      /\ Rest(o) \in SUBSET ListedIds
  BY <1>1, <1>3 DEF StandsRight, PagingRecords, Rest, ByNumber, Present, InFrontOf
<1>7. CASE page = Rest(o)
  <2> DEFINE n == [at |-> "done", missed |-> o.owed \ page]
  <2>1. n \in DoneRecords /\ StandsRight(listed, rank, n) /\ NoneMissed(n)
    BY <1>6, <1>7 DEF DoneRecords, StandsRight, NoneMissed
  <2>2. looking' = [looking EXCEPT ![l] = n]
    BY <1>2, <1>7
  <2> HIDE DEF n
  <2>3. LookTypeOK'
    BY <1>1, <2>1, <2>2 DEF LookTypeOK
  <2>4. ASSUME NEW k \in Lookers
        PROVE  StandsRight(listed', rank', looking'[k]) /\ NoneMissed(looking'[k])
    BY <1>1, <2>1, <2>2 DEF LookInv, LookTypeOK
  <2> QED
    BY <1>1, <2>3, <2>4 DEF LookInv
<1>8. CASE page # Rest(o)
  <2> DEFINE m == CHOOSE r \in 0..MaxRank : IsLast(r, page)
             n == [o EXCEPT !.offset = NextOffset(o, page), !.last = m,
                            !.owed = @ \ page, !.shown = @ \cup (o.owed \cap page)]
  <2>1. looking' = [looking EXCEPT ![l] = n]
    BY <1>2, <1>8
  <2>2. page # {} /\ page \in SUBSET ListedIds
    BY <1>4, <1>6, <1>8
  <2>3. m \in 0..MaxRank /\ (\A x \in page : m <= rank[x]) /\ \E x \in page : m = rank[x]
    <3>1. \E r \in 0..MaxRank : IsLast(r, page)
      BY <1>1, <2>2, PlacesOfEvents DEF LookTypeOK, IsLast
    <3>2. m \in 0..MaxRank /\ IsLast(m, page)
      BY <3>1
    <3> QED
      BY <3>2 DEF IsLast
  <2> HIDE DEF m
  <2>4. Cardinality(page) \in Nat /\ NextOffset(o, page) = o.offset + Cardinality(page)
        /\ o.offset \in Nat
    BY <2>2, <1>3, ShownAssumption, FS_Subset, FS_CardinalityType DEF NextOffset, PagingRecords
  <2>5. /\ n \in PagingRecords /\ n.at = "paging" /\ n.last = m
        /\ n.offset = o.offset + Cardinality(page)
        /\ n.owed = o.owed \ page /\ n.shown = o.shown \cup (o.owed \cap page)
    <3>1. /\ o.owed \ page \in SUBSET ListedIds
          /\ o.shown \cup (o.owed \cap page) \in SUBSET ListedIds
          /\ NextOffset(o, page) \in Nat /\ m \in 0..(MaxRank + 1)
      BY <1>6, <2>3, <2>4, <1>1
    <3> QED
      BY <3>1, <1>3, <2>4 DEF PagingRecords
  <2> HIDE DEF n
  <2>6. ASSUME listed # "activity" PROVE StandsRight(listed, rank, n)
    <3>1. Rest(o) = {e \in {x \in ListedIds : rank[x] > 0} :
                        o.offset <= Cardinality(FrontBy(rank, e))}
      BY <2>6 DEF Rest, ByNumber, Present, InFrontOf
    <3>2. ASSUME NEW x \in ListedIds, rank[x] > 0
          PROVE  /\ x \in Rest(o) \ page =>
                        o.offset + Cardinality(page) <= Cardinality(FrontBy(rank, x))
                 /\ x \in page => Cardinality(FrontBy(rank, x)) < o.offset + Cardinality(page)
      BY <3>1, <3>2, <1>4, <1>5, <2>4, PagesCount
    <3>3. ASSUME NEW x \in n.owed
          PROVE  rank[x] > 0 /\ n.offset <= Cardinality(FrontBy(rank, x))
      <4>1. x \in o.owed /\ x \in Rest(o) \ page /\ x \in ListedIds /\ rank[x] > 0
        BY <2>5, <1>6, <1>1 DEF StandsRight
      <4> QED
        BY <4>1, <3>2, <2>5
    <3>4. ASSUME NEW x \in n.shown
          PROVE  rank[x] > 0 /\ Cardinality(FrontBy(rank, x)) < n.offset
      <4>1. CASE x \in page
        <5>1. x \in ListedIds /\ rank[x] > 0
          BY <4>1, <1>4, <3>1
        <5> QED
          BY <5>1, <4>1, <3>2, <2>5
      <4>2. CASE x \in o.shown
        <5>1. rank[x] > 0 /\ Cardinality(FrontBy(rank, x)) < o.offset
          BY <4>2, <2>6, <1>1 DEF StandsRight
        <5> QED
          BY <5>1, <2>4, <2>5, FrontsAreFinite
      <4> QED
        BY <4>1, <4>2, <2>5
    <3> QED
      BY <2>6, <3>3, <3>4 DEF StandsRight
  <2>7. ASSUME listed = "activity" PROVE StandsRight(listed, rank, n)
    <3>1. PICK f \in page : m = rank[f]
      BY <2>3
    <3>2. f \in ListedIds /\ rank[f] > 0 /\ rank[f] < o.last /\ \A x \in ListedIds : rank[x] \in Nat
      BY <1>4, <2>7, <1>5 DEF Rest, ByNumber, Present, Ranks
    <3>3. ASSUME NEW x \in n.owed PROVE rank[x] > 0 /\ rank[x] < n.last
      <4>1. x \in Rest(o) /\ x \notin page /\ x \in ListedIds /\ rank[x] > 0
        BY <2>5, <1>6, <1>1 DEF StandsRight
      <4>2. ~InFrontBy(rank, x, f) /\ x # f
        BY <4>1, <1>4
      <4>3. rank[x] # rank[f]
        BY <4>1, <4>2, <3>2, <2>7, <1>1 DEF EventsApart
      <4> QED
        BY <4>1, <4>2, <4>3, <3>1, <3>2, <2>5 DEF InFrontBy
    <3>4. ASSUME NEW x \in n.shown PROVE rank[x] > 0 /\ n.last <= rank[x]
      <4>1. CASE x \in page
        <5>1. rank[x] > 0
          BY <4>1, <1>4, <2>7 DEF Rest, ByNumber, Present
        <5> QED
          BY <5>1, <4>1, <2>3, <2>5
      <4>2. CASE x \in o.shown
        <5>1. x \in ListedIds /\ rank[x] > 0 /\ o.last <= rank[x]
          BY <4>2, <2>7, <1>1, <1>6 DEF StandsRight
        <5>2. o.last \in Nat /\ m \in Nat
          BY <1>3, <2>3, <1>1 DEF PagingRecords
        <5> QED
          BY <5>1, <5>2, <3>1, <3>2, <2>5
      <4> QED
        BY <4>1, <4>2, <2>5
    <3> QED
      BY <2>7, <3>3, <3>4 DEF StandsRight
  <2>8. NoneMissed(n)
    BY <2>5 DEF NoneMissed
  <2>9. LookTypeOK'
    BY <1>1, <2>1, <2>5 DEF LookTypeOK
  <2>10. ASSUME NEW k \in Lookers
         PROVE  StandsRight(listed', rank', looking'[k]) /\ NoneMissed(looking'[k])
    BY <1>1, <2>1, <2>6, <2>7, <2>8 DEF LookInv, LookTypeOK
  <2> QED
    BY <1>1, <2>9, <2>10 DEF LookInv
<1> QED
  BY <1>7, <1>8

\* A reader of the lists of the observers is shown everything that stays in its place, and
\* nothing of it twice.
THEOREM ListsStayShown == ObservedSpec => []ListsAreShown
<1>1. ObservedInit => LookInv
  BY ShownAssumption
  DEF ObservedInit, LookInv, LookTypeOK, EventsApart, StandsRight, NoneMissed, NotLooking
<1>2. LookInv /\ [ObservedNext]_lookVars => LookInv'
  <2> SUFFICES ASSUME LookInv, [ObservedNext]_lookVars PROVE LookInv'
    OBVIOUS
  <2>1. CASE UNCHANGED lookVars
    BY <2>1 DEF lookVars, LookInv, LookTypeOK
  <2>2. CASE ObservedNext
    BY <2>2, MovesKeepPlaces, FirstLookStandsRight, NextLookStandsRight DEF ObservedNext
  <2> QED
    BY <2>1, <2>2
<1>3. LookInv => ListsAreShown
  <2> SUFFICES ASSUME LookInv, NEW l \in Lookers
               PROVE  /\ looking[l].at = "paging" =>
                             looking[l].shown \cap Rest(looking[l]) = {}
                      /\ looking[l].at = "done" => looking[l].missed = {}
    BY DEF ListsAreShown
  <2>1. looking[l].at = "done" => looking[l].missed = {}
    BY DEF LookInv, NoneMissed
  <2>2. ASSUME looking[l].at = "paging", NEW x \in looking[l].shown, x \in Rest(looking[l])
        PROVE  FALSE
    <3>1. looking[l] \in PagingRecords /\ rank \in [ListedIds -> 0..MaxRank] /\ MaxRank \in Nat
      BY <2>2, ShownAssumption DEF LookInv, LookTypeOK, NotLooking, DoneRecords
    <3>2. /\ x \in ListedIds /\ looking[l].offset \in Nat /\ looking[l].last \in Nat
          /\ rank[x] \in Nat
      BY <3>1, <2>2 DEF PagingRecords
    <3> QED
      BY <3>2, <2>2, FrontsAreFinite
      DEF LookInv, StandsRight, Rest, ByNumber, Present, InFrontOf
  <2> QED
    BY <2>1, <2>2
<1> QED
  BY <1>1, <1>2, <1>3, PTL DEF ObservedSpec
=============================================================================
