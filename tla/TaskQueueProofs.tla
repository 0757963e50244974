--------------------------- MODULE TaskQueueProofs ---------------------------
(***************************************************************************)
(* What Push, Pop and Remove of the waiting list (pkg/task/queue.go) return*)
(* for a list of any length: the facts the proofs about the scheduler need.*)
(***************************************************************************)
EXTENDS TaskQueue, SequenceTheorems, WellFoundedInduction, TLAPS

\* Higher priority first: the order Push keeps and Pop relies on.
InOrder(q) == \A i, k \in 1..Len(q) : i < k => Prio[q[i]] >= Prio[q[k]]

\* No object waits twice.
NoTwice(q) == \A i, k \in 1..Len(q) : q[i] = q[k] => i = k

\* t waits in front of u.
Before(q, t, u) == \E i, k \in 1..Len(q) : i < k /\ q[i] = t /\ q[k] = u

\* A set of naturals with a member has a least one: sort.Search's loop and
\* Remove's scan both end on a first match.
LEMMA LeastNatural ==
  ASSUME NEW S \in SUBSET Nat, S # {}
  PROVE  \E n \in S : \A m \in S : n <= m
<1>1. IsWellFoundedOn(OpToRel(<, Nat), Nat)
  BY NatLessThanWellFounded
<1>2. PICK n \in S : \A m \in S : <<m, n>> \notin OpToRel(<, Nat)
  BY <1>1, WFMin
<1>3. \A m \in S : ~(m < n)
  BY <1>2 DEF OpToRel
<1> QED BY <1>3

\* InsertAt shifts what follows the position by one.
LEMMA InsertAtProperties ==
  ASSUME NEW q \in Seq(Task), NEW k \in 1..Len(q) + 1, NEW t \in Task
  PROVE  /\ InsertAt(q, k, t) \in Seq(Task)
         /\ Len(InsertAt(q, k, t)) = Len(q) + 1
         /\ \A i \in 1..Len(q) + 1 :
              InsertAt(q, k, t)[i] = IF i < k THEN q[i] ELSE IF i = k THEN t ELSE q[i - 1]
<1> DEFINE l == SubSeq(q, 1, k - 1)
           r == SubSeq(q, k, Len(q))
<1>0. Len(q) \in Nat /\ \A i \in 1..Len(q) : q[i] \in Task
  BY LenProperties, ElementOfSeq
<1>1. l \in Seq(Task) /\ Len(l) = k - 1 /\ \A i \in 1..k - 1 : l[i] = q[i]
  BY <1>0, SubSeqProperties
<1>2. r \in Seq(Task) /\ Len(r) = Len(q) - k + 1 /\ \A i \in 1..Len(q) - k + 1 : r[i] = q[k + i - 1]
  BY <1>0, SubSeqProperties
<1>3. <<t>> \in Seq(Task) /\ Len(<<t>>) = 1 /\ <<t>>[1] = t
  OBVIOUS
<1> HIDE DEF l, r
<1>4. /\ l \o <<t>> \in Seq(Task)
      /\ Len(l \o <<t>>) = k
      /\ \A i \in 1..k : (l \o <<t>>)[i] = IF i < k THEN q[i] ELSE t
  BY <1>0, <1>1, <1>3, ConcatProperties
<1>5. /\ (l \o <<t>>) \o r \in Seq(Task)
      /\ Len((l \o <<t>>) \o r) = Len(q) + 1
      /\ \A i \in 1..Len(q) + 1 : ((l \o <<t>>) \o r)[i] = IF i <= k THEN (l \o <<t>>)[i] ELSE r[i - k]
  <2> DEFINE f == l \o <<t>>
  <2>1. f \in Seq(Task) /\ Len(f) = k
    BY <1>4
  <2> HIDE DEF f
  <2>2. /\ f \o r \in Seq(Task)
        /\ Len(f \o r) = Len(f) + Len(r)
        /\ \A i \in 1..Len(f) + Len(r) : (f \o r)[i] = IF i <= Len(f) THEN f[i] ELSE r[i - Len(f)]
    BY <1>2, <2>1, ConcatProperties
  <2>3. Len(f) + Len(r) = Len(q) + 1
    BY <1>0, <1>2, <2>1
  <2>4. /\ f \o r \in Seq(Task)
        /\ Len(f \o r) = Len(q) + 1
        /\ \A i \in 1..Len(q) + 1 : (f \o r)[i] = IF i <= k THEN f[i] ELSE r[i - k]
    BY <2>1, <2>2, <2>3
  <2> QED BY <2>4 DEF f
<1>6. \A i \in 1..Len(q) + 1 : i > k => r[i - k] = q[i - 1]
  <2> TAKE i \in 1..Len(q) + 1
  <2> HAVE i > k
  <2>1. i - k \in 1..Len(q) - k + 1 /\ k + (i - k) - 1 = i - 1
    BY <1>0
  <2> QED BY <1>2, <2>1
<1>7. InsertAt(q, k, t) = (l \o <<t>>) \o r
  BY DEF InsertAt, l, r
<1> QED BY <1>0, <1>4, <1>5, <1>6, <1>7

\* RemoveAt closes the gap.
LEMMA RemoveAtProperties ==
  ASSUME NEW q \in Seq(Task), NEW k \in 1..Len(q)
  PROVE  /\ RemoveAt(q, k) \in Seq(Task)
         /\ Len(RemoveAt(q, k)) = Len(q) - 1
         /\ \A i \in 1..Len(q) - 1 :
              RemoveAt(q, k)[i] = IF i < k THEN q[i] ELSE q[i + 1]
<1> DEFINE l == SubSeq(q, 1, k - 1)
           r == SubSeq(q, k + 1, Len(q))
<1>0. Len(q) \in Nat /\ \A i \in 1..Len(q) : q[i] \in Task
  BY LenProperties, ElementOfSeq
<1>1. l \in Seq(Task) /\ Len(l) = k - 1 /\ \A i \in 1..k - 1 : l[i] = q[i]
  BY <1>0, SubSeqProperties
<1>2. r \in Seq(Task) /\ Len(r) = Len(q) - k /\ \A i \in 1..Len(q) - k : r[i] = q[k + i]
  <2>1. \A i \in k + 1..Len(q) : q[i] \in Task
    BY <1>0
  <2>2. /\ r \in Seq(Task)
        /\ Len(r) = IF k + 1 <= Len(q) THEN Len(q) - (k + 1) + 1 ELSE 0
        /\ \A i \in 1..Len(q) - (k + 1) + 1 : r[i] = q[(k + 1) + i - 1]
    BY <1>0, <2>1, SubSeqProperties
  <2> HIDE DEF r
  <2>3. Len(r) = Len(q) - k
    BY <1>0, <2>2
  <2>4. ASSUME NEW i \in 1..Len(q) - k
        PROVE  r[i] = q[k + i]
    <3>1. i \in 1..Len(q) - (k + 1) + 1 /\ (k + 1) + i - 1 = k + i
      BY <1>0
    <3> QED BY <2>2, <3>1
  <2> QED BY <2>2, <2>3, <2>4
<1>3. RemoveAt(q, k) = l \o r
  BY DEF RemoveAt
<1> HIDE DEF l, r
<1>4. /\ l \o r \in Seq(Task)
      /\ Len(l \o r) = Len(q) - 1
      /\ \A i \in 1..Len(q) - 1 : (l \o r)[i] = IF i <= k - 1 THEN l[i] ELSE r[i - (k - 1)]
  <2>1. /\ l \o r \in Seq(Task)
        /\ Len(l \o r) = Len(l) + Len(r)
        /\ \A i \in 1..Len(l) + Len(r) : (l \o r)[i] = IF i <= Len(l) THEN l[i] ELSE r[i - Len(l)]
    BY <1>1, <1>2, ConcatProperties
  <2>2. Len(l) + Len(r) = Len(q) - 1
    BY <1>0, <1>1, <1>2
  <2> QED BY <1>1, <2>1, <2>2
<1>5. \A i \in 1..Len(q) - 1 : i >= k => r[i - (k - 1)] = q[i + 1]
  <2> TAKE i \in 1..Len(q) - 1
  <2> HAVE i >= k
  <2>1. i - (k - 1) \in 1..Len(q) - k /\ k + (i - (k - 1)) = i + 1
    BY <1>0
  <2> QED BY <1>2, <2>1
<1>6. ASSUME NEW i \in 1..Len(q) - 1
      PROVE  (l \o r)[i] = IF i < k THEN q[i] ELSE q[i + 1]
  <2>1. (l \o r)[i] = IF i <= k - 1 THEN l[i] ELSE r[i - (k - 1)]
    BY <1>4
  <2>2. CASE i < k
    <3>1. i \in 1..k - 1 /\ i <= k - 1
      BY <1>0, <2>2
    <3> QED BY <1>1, <2>1, <2>2, <3>1
  <2>3. CASE i >= k
    <3>1. ~(i <= k - 1) /\ ~(i < k)
      BY <1>0, <2>3
    <3> QED BY <1>5, <2>1, <2>3, <3>1
  <2>4. i < k \/ i >= k
    BY <1>0
  <2> QED BY <2>2, <2>3, <2>4
<1> QED BY <1>3, <1>4, <1>6

\* The position Push picks exists in every list: behind what is at least as
\* urgent, in front of the first entry that is less so.
LEMMA PushPointProperties ==
  ASSUME NEW q \in Seq(Task), NEW t \in Task
  PROVE  /\ PushPoint(q, t) \in 1..Len(q) + 1
         /\ \A i \in 1..PushPoint(q, t) - 1 : Prio[q[i]] >= Prio[t]
         /\ PushPoint(q, t) <= Len(q) => Prio[q[PushPoint(q, t)]] < Prio[t]
<1> DEFINE Lower == {i \in 1..Len(q) : Prio[q[i]] < Prio[t]} \cup {Len(q) + 1}
           Fits(k) == /\ \A i \in 1..k - 1 : Prio[q[i]] >= Prio[t]
                      /\ k <= Len(q) => Prio[q[k]] < Prio[t]
<1>0. Len(q) \in Nat /\ Prio[t] \in Int /\ \A i \in 1..Len(q) : Prio[q[i]] \in Int
  BY LenProperties, ElementOfSeq, QueueAssumption
<1>1. PICK k \in Lower : \A m \in Lower : k <= m
  <2>1. Lower \in SUBSET Nat /\ Lower # {}
    BY <1>0
  <2> HIDE DEF Lower
  <2> QED BY <2>1, LeastNatural
<1>2. k \in 1..Len(q) + 1 /\ Fits(k)
  BY <1>0, <1>1
<1>3. PushPoint(q, t) = CHOOSE m \in 1..Len(q) + 1 : Fits(m)
  BY DEF PushPoint
<1> HIDE DEF Fits
<1>4. PushPoint(q, t) \in 1..Len(q) + 1 /\ Fits(PushPoint(q, t))
  BY <1>2, <1>3
<1> QED BY <1>4 DEF Fits

\* Push returns a list with the newcomer at PushPoint and the rest as it was.
LEMMA PushProperties ==
  ASSUME NEW q \in Seq(Task), NEW t \in Task
  PROVE  /\ Push(q, t) \in Seq(Task)
         /\ Len(Push(q, t)) = Len(q) + 1
         /\ \A i \in 1..Len(q) + 1 :
              Push(q, t)[i] = IF i < PushPoint(q, t) THEN q[i]
                              ELSE IF i = PushPoint(q, t) THEN t ELSE q[i - 1]
<1>1. PushPoint(q, t) \in 1..Len(q) + 1
  BY PushPointProperties
<1> QED BY <1>1, InsertAtProperties DEF Push

\* Push keeps the list in priority order.
LEMMA PushKeepsOrder ==
  ASSUME NEW q \in Seq(Task), NEW t \in Task, InOrder(q)
  PROVE  InOrder(Push(q, t))
<1> DEFINE p == Push(q, t)
           k == PushPoint(q, t)
<1>0. Len(q) \in Nat /\ Prio[t] \in Int /\ \A i \in 1..Len(q) : Prio[q[i]] \in Int
  BY LenProperties, ElementOfSeq, QueueAssumption
<1>1. /\ k \in 1..Len(q) + 1
      /\ \A i \in 1..k - 1 : Prio[q[i]] >= Prio[t]
      /\ k <= Len(q) => Prio[q[k]] < Prio[t]
  BY PushPointProperties
<1>2. /\ Len(p) = Len(q) + 1
      /\ \A i \in 1..Len(q) + 1 : p[i] = IF i < k THEN q[i] ELSE IF i = k THEN t ELSE q[i - 1]
  BY PushProperties
<1> HIDE DEF p, k
<1>3. \A i, m \in 1..Len(q) : i < m => Prio[q[i]] >= Prio[q[m]]
  BY DEF InOrder
<1>4. \A i \in k..Len(q) : Prio[q[i]] < Prio[t]
  BY <1>0, <1>1, <1>3
<1>5. SUFFICES ASSUME NEW i \in 1..Len(q) + 1, NEW m \in 1..Len(q) + 1, i < m
               PROVE  Prio[p[i]] >= Prio[p[m]]
  BY <1>2 DEF InOrder, p
<1>6. CASE m < k
  BY <1>0, <1>1, <1>2, <1>3, <1>5, <1>6
<1>7. CASE m = k
  BY <1>0, <1>1, <1>2, <1>5, <1>7
<1>8. CASE m > k /\ i < k
  BY <1>0, <1>1, <1>2, <1>3, <1>5, <1>8
<1>9. CASE m > k /\ i = k
  <2>1. m - 1 \in k..Len(q) /\ p[m] = q[m - 1] /\ p[i] = t
    BY <1>0, <1>1, <1>2, <1>5, <1>9
  <2> QED BY <1>0, <1>1, <1>4, <2>1
<1>10. CASE i > k
  <2>1. /\ i - 1 \in 1..Len(q) /\ m - 1 \in 1..Len(q) /\ i - 1 < m - 1
        /\ p[m] = q[m - 1] /\ p[i] = q[i - 1]
    BY <1>0, <1>1, <1>2, <1>5, <1>10
  <2> QED BY <1>3, <2>1
<1> QED BY <1>0, <1>1, <1>5, <1>6, <1>7, <1>8, <1>9, <1>10

\* Push adds the newcomer to what waits and nothing else, and never a double.
LEMMA PushContents ==
  ASSUME NEW q \in Seq(Task), NEW t \in Task
  PROVE  /\ Waiting(Push(q, t)) = Waiting(q) \cup {t}
         /\ NoTwice(q) /\ t \notin Waiting(q) => NoTwice(Push(q, t))
<1> DEFINE p == Push(q, t)
           k == PushPoint(q, t)
<1>0. Len(q) \in Nat
  BY LenProperties
<1>1. k \in 1..Len(q) + 1
  BY PushPointProperties
<1>2. /\ Len(p) = Len(q) + 1
      /\ \A i \in 1..Len(q) + 1 : p[i] = IF i < k THEN q[i] ELSE IF i = k THEN t ELSE q[i - 1]
  BY PushProperties
<1> HIDE DEF p, k
<1>3. \A i \in 1..Len(q) : \E m \in 1..Len(q) + 1 : p[m] = q[i]
  <2> TAKE i \in 1..Len(q)
  <2>1. CASE i < k
    BY <1>0, <1>1, <1>2, <2>1
  <2>2. CASE i >= k
    <3>1. i + 1 \in 1..Len(q) + 1 /\ i + 1 > k /\ (i + 1) - 1 = i
      BY <1>0, <1>1, <2>2
    <3>2. p[i + 1] = q[i]
      BY <1>0, <1>1, <1>2, <3>1
    <3> QED BY <3>1, <3>2
  <2> QED BY <1>0, <1>1, <2>1, <2>2
<1>4. \A i \in 1..Len(q) + 1 : i # k => (IF i < k THEN i ELSE i - 1) \in 1..Len(q)
  BY <1>0, <1>1
<1>5. Waiting(p) = Waiting(q) \cup {t}
  BY <1>0, <1>1, <1>2, <1>3, <1>4 DEF Waiting
<1>6. ASSUME NoTwice(q), t \notin Waiting(q)
      PROVE  NoTwice(p)
  <2>1. \A i \in 1..Len(q) : q[i] # t
    BY <1>6 DEF Waiting
  <2>2. \A i, m \in 1..Len(q) : q[i] = q[m] => i = m
    BY <1>6 DEF NoTwice
  <2>3. \A i, m \in 1..Len(q) + 1 : p[i] = p[m] => i = m
    BY <1>0, <1>1, <1>2, <1>4, <2>1, <2>2
  <2> QED BY <1>2, <2>3 DEF NoTwice
<1> QED BY <1>5, <1>6 DEF p

\* Pop hands out one object and keeps the others, in their order.
LEMMA PopProperties ==
  ASSUME NEW q \in Seq(Task), q # <<>>
  PROVE  /\ Head(q) \in Waiting(q) /\ Tail(q) \in Seq(Task)
         /\ InOrder(q) => InOrder(Tail(q))
         /\ NoTwice(q) => NoTwice(Tail(q)) /\ Waiting(Tail(q)) = Waiting(q) \ {Head(q)}
<1>0. Len(q) \in Nat \ {0} /\ Head(q) = q[1] /\ Head(q) \in Task
  BY LenProperties, EmptySeq, HeadTailProperties
<1>1. /\ Tail(q) \in Seq(Task)
      /\ Len(Tail(q)) = Len(q) - 1
      /\ \A i \in 1..Len(q) - 1 : Tail(q)[i] = q[i + 1]
  BY HeadTailProperties
<1>2. InOrder(q) => InOrder(Tail(q))
  BY <1>0, <1>1 DEF InOrder
<1>3. NoTwice(q) => NoTwice(Tail(q))
  BY <1>0, <1>1 DEF NoTwice
<1>4. ASSUME NoTwice(q)
      PROVE  Waiting(Tail(q)) = Waiting(q) \ {Head(q)}
  <2>1. \A i \in 1..Len(q) - 1 : Tail(q)[i] \in Waiting(q) /\ Tail(q)[i] # Head(q)
    BY <1>0, <1>1, <1>4 DEF Waiting, NoTwice
  <2>2. \A i \in 1..Len(q) : q[i] # Head(q) => i - 1 \in 1..Len(q) - 1 /\ q[i] = Tail(q)[i - 1]
    BY <1>0, <1>1
  <2> QED BY <1>0, <1>1, <2>1, <2>2 DEF Waiting
<1>5. Head(q) \in Waiting(q)
  BY <1>0 DEF Waiting
<1> QED BY <1>1, <1>2, <1>3, <1>4, <1>5

\* Remove finds the first entry with the ID.
LEMMA FirstPositionProperties ==
  ASSUME NEW q \in Seq(Task), NEW j, Positions(q, j) # {}
  PROVE  FirstPosition(q, j) \in 1..Len(q) /\ IdOf[q[FirstPosition(q, j)]] = j
<1>1. Positions(q, j) \in SUBSET Nat
  BY LenProperties DEF Positions
<1>2. \E i \in Positions(q, j) : \A k \in Positions(q, j) : i <= k
  BY <1>1, LeastNatural
<1>3. FirstPosition(q, j) \in Positions(q, j)
  BY <1>2 DEF FirstPosition
<1> QED BY <1>3 DEF Positions

\* Remove takes out one object and keeps the others, in their order.
LEMMA RemoveProperties ==
  ASSUME NEW q \in Seq(Task), NEW k \in 1..Len(q)
  PROVE  /\ q[k] \in Waiting(q) /\ RemoveAt(q, k) \in Seq(Task)
         /\ InOrder(q) => InOrder(RemoveAt(q, k))
         /\ NoTwice(q) => /\ NoTwice(RemoveAt(q, k))
                          /\ Waiting(RemoveAt(q, k)) = Waiting(q) \ {q[k]}
<1> DEFINE r == RemoveAt(q, k)
<1>0. Len(q) \in Nat /\ \A i \in 1..Len(q) : q[i] \in Task
  BY LenProperties, ElementOfSeq
<1>1. /\ r \in Seq(Task)
      /\ Len(r) = Len(q) - 1
      /\ \A i \in 1..Len(q) - 1 : r[i] = IF i < k THEN q[i] ELSE q[i + 1]
  BY RemoveAtProperties
<1> HIDE DEF r
<1>2. InOrder(q) => InOrder(r)
  BY <1>0, <1>1 DEF InOrder
<1>3. NoTwice(q) => NoTwice(r)
  BY <1>0, <1>1 DEF NoTwice
<1>4. ASSUME NoTwice(q)
      PROVE  Waiting(r) = Waiting(q) \ {q[k]}
  <2>1. \A i \in 1..Len(q) - 1 : r[i] \in Waiting(q) /\ r[i] # q[k]
    BY <1>0, <1>1, <1>4 DEF Waiting, NoTwice
  <2>2. \A i \in 1..Len(q) : q[i] # q[k] =>
          \E m \in 1..Len(q) - 1 : q[i] = r[m]
    <3> TAKE i \in 1..Len(q)
    <3> HAVE q[i] # q[k]
    <3>1. CASE i < k
      BY <1>0, <1>1, <3>1
    <3>2. CASE i > k
      <4>1. i - 1 \in 1..Len(q) - 1 /\ ~(i - 1 < k) /\ (i - 1) + 1 = i
        BY <1>0, <3>2
      <4> QED BY <1>1, <4>1
    <3> QED BY <1>0, <3>1, <3>2
  <2>3. Waiting(r) \subseteq Waiting(q) \ {q[k]}
    BY <1>1, <2>1 DEF Waiting
  <2>4. ASSUME NEW x \in Waiting(q), x # q[k]
        PROVE  x \in Waiting(r)
    <3>1. PICK i \in 1..Len(q) : x = q[i]
      BY DEF Waiting
    <3>2. PICK m \in 1..Len(q) - 1 : q[i] = r[m]
      BY <2>2, <2>4, <3>1
    <3>3. m \in 1..Len(r)
      BY <1>1, <3>2
    <3> QED BY <3>1, <3>2, <3>3 DEF Waiting
  <2> QED BY <2>3, <2>4
<1>5. q[k] \in Waiting(q)
  BY DEF Waiting
<1> QED BY <1>1, <1>2, <1>3, <1>4, <1>5 DEF r

-----------------------------------------------------------------------------
(* First come, first served among equals.                                  *)

\* A newcomer overtakes nobody of its own priority and changes no order.
LEMMA PushKeepsBefore ==
  ASSUME NEW q \in Seq(Task), NEW x \in Task, InOrder(q),
         NEW t \in Waiting(q), NEW u \in Waiting(q) \cup {x}, Prio[t] = Prio[u],
         u \in Waiting(q) => Before(q, t, u)
  PROVE  Before(Push(q, x), t, u)
<1> DEFINE p == Push(q, x)
           k == PushPoint(q, x)
<1>0. Len(q) \in Nat /\ Prio[x] \in Int /\ \A i \in 1..Len(q) : Prio[q[i]] \in Int
  BY LenProperties, ElementOfSeq, QueueAssumption
<1>1. /\ k \in 1..Len(q) + 1
      /\ k <= Len(q) => Prio[q[k]] < Prio[x]
  BY PushPointProperties
<1>2. /\ Len(p) = Len(q) + 1
      /\ \A i \in 1..Len(q) + 1 : p[i] = IF i < k THEN q[i] ELSE IF i = k THEN x ELSE q[i - 1]
  BY PushProperties
<1> HIDE DEF p, k
<1>3. CASE u \in Waiting(q)
  <2>1. PICK i, m \in 1..Len(q) : i < m /\ q[i] = t /\ q[m] = u
    BY <1>3 DEF Before
  <2> DEFINE Shifted(n) == IF n < k THEN n ELSE n + 1
  <2>2. \A n \in 1..Len(q) : Shifted(n) \in 1..Len(q) + 1 /\ p[Shifted(n)] = q[n]
    BY <1>0, <1>1, <1>2
  <2>3. Shifted(i) < Shifted(m)
    BY <1>0, <1>1, <2>1
  <2> HIDE DEF Shifted
  <2>4. Before(p, t, u)
    BY <1>2, <2>1, <2>2, <2>3 DEF Before
  <2> QED BY <2>4 DEF p
<1>4. CASE u = x
  <2>1. PICK i \in 1..Len(q) : q[i] = t
    BY DEF Waiting
  <2>2. i < k
    <3>1. \A m \in k..Len(q) : Prio[q[m]] < Prio[x]
      BY <1>0, <1>1 DEF InOrder
    <3> QED BY <1>0, <1>1, <1>4, <2>1, <3>1
  <2>3. p[i] = t /\ p[k] = u /\ i \in 1..Len(p) /\ k \in 1..Len(p)
    BY <1>0, <1>1, <1>2, <1>4, <2>1, <2>2
  <2>4. Before(p, t, u)
    BY <2>2, <2>3 DEF Before
  <2> QED BY <2>4 DEF p
<1> QED BY <1>3, <1>4

\* Popping the head leaves the others in their order.
LEMMA PopKeepsBefore ==
  ASSUME NEW q \in Seq(Task), q # <<>>, NoTwice(q), NEW t, NEW u, Before(q, t, u),
         t \in Waiting(Tail(q))
  PROVE  Before(Tail(q), t, u)
<1>0. Len(q) \in Nat \ {0} /\ Head(q) = q[1]
  BY LenProperties, EmptySeq
<1>1. /\ Len(Tail(q)) = Len(q) - 1
      /\ \A i \in 1..Len(q) - 1 : Tail(q)[i] = q[i + 1]
  BY HeadTailProperties
<1>2. PICK i, m \in 1..Len(q) : i < m /\ q[i] = t /\ q[m] = u
  BY DEF Before
<1>3. i # 1
  BY <1>0, <1>2, PopProperties
<1>4. /\ i - 1 \in 1..Len(q) - 1 /\ m - 1 \in 1..Len(q) - 1 /\ i - 1 < m - 1
      /\ Tail(q)[i - 1] = t /\ Tail(q)[m - 1] = u
  BY <1>0, <1>1, <1>2, <1>3
<1> QED BY <1>1, <1>4 DEF Before

\* So does removing an entry from the middle.
LEMMA RemoveKeepsBefore ==
  ASSUME NEW q \in Seq(Task), NEW k \in 1..Len(q), NoTwice(q), NEW t, NEW u, Before(q, t, u),
         t \in Waiting(RemoveAt(q, k)), u \in Waiting(RemoveAt(q, k))
  PROVE  Before(RemoveAt(q, k), t, u)
<1> DEFINE r == RemoveAt(q, k)
<1>0. Len(q) \in Nat
  BY LenProperties
<1>1. /\ Len(r) = Len(q) - 1
      /\ \A i \in 1..Len(q) - 1 : r[i] = IF i < k THEN q[i] ELSE q[i + 1]
  BY RemoveAtProperties
<1>2. PICK i, m \in 1..Len(q) : i < m /\ q[i] = t /\ q[m] = u
  BY DEF Before
<1>3. i # k /\ m # k
  BY <1>2, RemoveProperties
<1> HIDE DEF r
<1> DEFINE Shifted(n) == IF n < k THEN n ELSE n - 1
<1>4. \A n \in 1..Len(q) : n # k => Shifted(n) \in 1..Len(q) - 1 /\ r[Shifted(n)] = q[n]
  BY <1>0, <1>1
<1>5. Shifted(i) < Shifted(m)
  BY <1>0, <1>2, <1>3
<1> HIDE DEF Shifted
<1>6. Before(r, t, u)
  BY <1>1, <1>2, <1>3, <1>4, <1>5 DEF Before
<1> QED BY <1>6 DEF r
=============================================================================
