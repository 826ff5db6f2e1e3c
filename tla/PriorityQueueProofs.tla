------------------------ MODULE PriorityQueueProofs ------------------------
(***************************************************************************)
(* What the calls of the priority queue do to its entries and their order, *)
(* for every queue and every assignment of SLOs.                           *)
(***************************************************************************)
EXTENDS PriorityQueue, SequenceTheorems, WellFoundedInduction, TLAPS

(* A non-empty set of naturals has a least element, and Min is it.         *)
LEMMA MinOfNat ==
  ASSUME NEW S \in SUBSET Nat, S # {}
  PROVE  /\ Min(S) \in S
         /\ \A y \in S : Min(S) <= y
<1>1. \E x \in S : \A y \in S : x <= y
  <2>1. PICK x \in S : \A y \in S : <<y, x>> \notin OpToRel(<, Nat)
    BY NatLessThanWellFounded, WFMin
  <2>2. \A y \in S : ~(y < x)
    BY <2>1 DEF OpToRel
  <2> QED  BY <2>2
<1> QED  BY <1>1 DEF Min

(* InsertAt, entry by entry.                                               *)
LEMMA InsertAtEntries ==
  ASSUME NEW S, NEW q \in Seq(S), NEW k \in 1..(Len(q) + 1), NEW e \in S
  PROVE  /\ InsertAt(q, k, e) \in Seq(S)
         /\ Len(InsertAt(q, k, e)) = Len(q) + 1
         /\ \A i \in 1..(Len(q) + 1) :
              InsertAt(q, k, e)[i] = IF i < k THEN q[i]
                                     ELSE IF i = k THEN e ELSE q[i - 1]
<1> DEFINE a == SubSeq(q, 1, k - 1)
           b == SubSeq(q, k, Len(q))
<1>1. /\ a \in Seq(S) /\ Len(a) = k - 1
      /\ \A i \in 1..(k - 1) : a[i] = q[i]
  OBVIOUS
<1>2. /\ b \in Seq(S) /\ Len(b) = Len(q) - k + 1
      /\ \A i \in 1..(Len(q) - k + 1) : b[i] = q[k + i - 1]
  OBVIOUS
<1> HIDE DEF a, b
<1>3. /\ a \o <<e>> \in Seq(S) /\ Len(a \o <<e>>) = k
      /\ \A i \in 1..k : (a \o <<e>>)[i] = IF i < k THEN q[i] ELSE e
  BY <1>1
<1> DEFINE c == a \o <<e>>
<1> HIDE DEF c
<1>4. /\ c \in Seq(S) /\ Len(c) = k
      /\ \A i \in 1..k : c[i] = IF i < k THEN q[i] ELSE e
  BY <1>3 DEF c
<1>5. /\ c \o b \in Seq(S) /\ Len(c \o b) = Len(q) + 1
      /\ \A i \in 1..(Len(q) + 1) :
           (c \o b)[i] = IF i <= k THEN c[i] ELSE b[i - k]
  <2>1. Len(c) + Len(b) = Len(q) + 1  BY <1>2, <1>4
  <2>2. /\ c \o b \in Seq(S) /\ Len(c \o b) = Len(c) + Len(b)
        /\ \A i \in 1..(Len(c) + Len(b)) :
             (c \o b)[i] = IF i <= Len(c) THEN c[i] ELSE b[i - Len(c)]
    BY <1>2, <1>4, ConcatProperties, Zenon
  <2> QED  BY <1>4, <2>1, <2>2
<1>6. InsertAt(q, k, e) = c \o b
  BY DEF InsertAt, a, b, c
<1>7. ASSUME NEW i \in 1..(Len(q) + 1)
      PROVE (c \o b)[i] = IF i < k THEN q[i] ELSE IF i = k THEN e ELSE q[i - 1]
  BY <1>2, <1>4, <1>5
<1> QED  BY <1>5, <1>6, <1>7

(* RemoveAt, entry by entry.                                               *)
LEMMA RemoveAtEntries ==
  ASSUME NEW S, NEW q \in Seq(S), NEW k \in 1..Len(q)
  PROVE  /\ RemoveAt(q, k) \in Seq(S)
         /\ Len(RemoveAt(q, k)) = Len(q) - 1
         /\ \A i \in 1..(Len(q) - 1) :
              RemoveAt(q, k)[i] = IF i < k THEN q[i] ELSE q[i + 1]
<1> DEFINE a == SubSeq(q, 1, k - 1)
           b == SubSeq(q, k + 1, Len(q))
<1>1. /\ a \in Seq(S) /\ Len(a) = k - 1
      /\ \A i \in 1..(k - 1) : a[i] = q[i]
  OBVIOUS
<1>2. /\ b \in Seq(S) /\ Len(b) = Len(q) - k
      /\ \A i \in 1..(Len(q) - k) : b[i] = q[k + i]
  OBVIOUS
<1> HIDE DEF a, b
<1>3. /\ a \o b \in Seq(S) /\ Len(a \o b) = Len(q) - 1
      /\ \A i \in 1..(Len(q) - 1) :
           (a \o b)[i] = IF i < k THEN a[i] ELSE b[i - k + 1]
  <2>1. Len(a) + Len(b) = Len(q) - 1  BY <1>1, <1>2
  <2>2. /\ a \o b \in Seq(S) /\ Len(a \o b) = Len(a) + Len(b)
        /\ \A i \in 1..(Len(a) + Len(b)) :
             (a \o b)[i] = IF i <= Len(a) THEN a[i] ELSE b[i - Len(a)]
    BY <1>1, <1>2, ConcatProperties, Zenon
  <2> DEFINE d == a \o b
  <2>3. \A i \in 1..(Len(a) + Len(b)) :
          d[i] = IF i <= Len(a) THEN a[i] ELSE b[i - Len(a)]
    BY <2>2
  <2> HIDE DEF d
  <2>4. ASSUME NEW i \in 1..(Len(q) - 1)
        PROVE  d[i] = IF i < k THEN a[i] ELSE b[i - k + 1]
    <3>1. i - Len(a) = i - k + 1 /\ (i <= Len(a) <=> i < k)  BY <1>1
    <3>2. d[i] = IF i <= Len(a) THEN a[i] ELSE b[i - Len(a)]  BY <2>1, <2>3
    <3> QED  BY <3>1, <3>2, Zenon
  <2> QED  BY <2>1, <2>2, <2>4 DEF d
<1>4. RemoveAt(q, k) = a \o b
  BY DEF RemoveAt, a, b
<1>5. ASSUME NEW i \in 1..(Len(q) - 1)
      PROVE (a \o b)[i] = IF i < k THEN q[i] ELSE q[i + 1]
  <2>1. CASE i < k
    BY <1>1, <1>3, <2>1
  <2>2. CASE ~(i < k)
    <3>1. i - k + 1 \in 1..(Len(q) - k)  BY <2>2
    <3>2. b[i - k + 1] = q[i + 1]  BY <1>2, <3>1
    <3> QED  BY <1>3, <2>2, <3>2
  <2> QED  BY <2>1, <2>2
<1> QED  BY <1>3, <1>4, <1>5

(* Enqueue's position: in front of the first strictly later entry.         *)
LEMMA InsertIdxPlace ==
  ASSUME NEW q \in Seq(Jobs), NEW j \in Jobs
  PROVE  /\ InsertIdx(q, j) \in 1..(Len(q) + 1)
         /\ \A i \in 1..Len(q) : i < InsertIdx(q, j) => SLO[q[i]] <= SLO[j]
         /\ InsertIdx(q, j) <= Len(q) => SLO[j] < SLO[q[InsertIdx(q, j)]]
<1>0. SLO \in [Jobs -> Nat]  BY SLOAssumption
<1>1. Later(q, j) \in SUBSET Nat  BY DEF Later
<1>2. CASE Later(q, j) = {}
  BY <1>0, <1>2 DEF InsertIdx, Later
<1>3. CASE Later(q, j) # {}
  <2>1. /\ Min(Later(q, j)) \in Later(q, j)
        /\ \A y \in Later(q, j) : Min(Later(q, j)) <= y
    BY <1>1, <1>3, MinOfNat
  <2>2. InsertIdx(q, j) = Min(Later(q, j))  BY <1>3 DEF InsertIdx
  <2>3. /\ InsertIdx(q, j) \in 1..Len(q)
        /\ SLO[j] < SLO[q[InsertIdx(q, j)]]
    BY <2>1, <2>2 DEF Later
  <2>4. ASSUME NEW i \in 1..Len(q), i < InsertIdx(q, j)
        PROVE  SLO[q[i]] <= SLO[j]
    <3>1. i \notin Later(q, j)  BY <2>1, <2>2, <2>3, <2>4
    <3>2. SLO[j] \in Nat /\ SLO[q[i]] \in Nat  BY <1>0
    <3> QED  BY <3>1, <3>2 DEF Later
  <2> QED  BY <2>3, <2>4
<1> QED  BY <1>2, <1>3

(* Enqueue adds exactly the job, keeps the order, and makes no duplicate   *)
(* of a job that had no entry.                                             *)
LEMMA EnqueuedEntries ==
  ASSUME NEW q \in Seq(Jobs), NEW j \in Jobs
  PROVE  /\ Enqueued(q, j) \in Seq(Jobs)
         /\ Queued(Enqueued(q, j)) = Queued(q) \cup {j}
         /\ SortedBySLO(q) => SortedBySLO(Enqueued(q, j))
         /\ NoDuplicate(q) /\ j \notin Queued(q) => NoDuplicate(Enqueued(q, j))
<1> DEFINE k == InsertIdx(q, j)
           r == InsertAt(q, k, j)
           n == Len(q)
<1>0. SLO \in [Jobs -> Nat] /\ n \in Nat /\ \A i \in 1..n : q[i] \in Jobs
  BY SLOAssumption
<1>1. /\ k \in 1..(n + 1)
      /\ \A i \in 1..n : i < k => SLO[q[i]] <= SLO[j]
      /\ k <= n => SLO[j] < SLO[q[k]]
  BY InsertIdxPlace
<1> HIDE DEF k
<1>2. /\ r \in Seq(Jobs) /\ Len(r) = n + 1
      /\ \A i \in 1..(n + 1) :
           r[i] = IF i < k THEN q[i] ELSE IF i = k THEN j ELSE q[i - 1]
  BY <1>1, InsertAtEntries
<1>3. Enqueued(q, j) = r  BY DEF Enqueued, k
<1>4. DOMAIN r = 1..(n + 1) /\ DOMAIN q = 1..n  BY <1>2
<1> HIDE DEF r, n
<1>5. n \in Nat /\ k \in Nat /\ 1 <= k /\ k <= n + 1  BY <1>0, <1>1
\* Where each entry of r comes from, and where each entry of q goes to.
<1>6. ASSUME NEW i \in 1..(n + 1), i < k PROVE i \in 1..n /\ r[i] = q[i]
  <2>1. i \in 1..n  BY <1>5, <1>6
  <2>2. r[i] = q[i]  BY <1>2, <1>6
  <2> QED  BY <2>1, <2>2
<1>7. r[k] = j
  <2>1. k \in 1..(n + 1) /\ ~(k < k)  BY <1>5
  <2> QED  BY <1>2, <2>1
<1>8. ASSUME NEW i \in 1..(n + 1), i > k
      PROVE  i - 1 \in 1..n /\ k <= i - 1 /\ r[i] = q[i - 1]
  <2>1. i - 1 \in 1..n /\ k <= i - 1 /\ ~(i < k) /\ i # k  BY <1>5, <1>8
  <2>2. r[i] = q[i - 1]  BY <1>2, <2>1
  <2> QED  BY <2>1, <2>2
<1>9. ASSUME NEW i \in 1..n
      PROVE  \E m \in 1..(n + 1) : r[m] = q[i]
  <2>1. CASE i < k
    <3>1. i \in 1..(n + 1)  BY <1>5
    <3> QED  BY <1>6, <2>1, <3>1
  <2>2. CASE ~(i < k)
    <3> DEFINE m == i + 1
    <3>1. m \in 1..(n + 1) /\ m > k /\ m - 1 = i  BY <1>5, <2>2
    <3> HIDE DEF m
    <3>2. r[m] = q[m - 1]  BY <1>8, <3>1
    <3>3. r[m] = q[i]  BY <3>1, <3>2
    <3> QED  BY <3>1, <3>3
  <2> QED  BY <2>1, <2>2
<1>10. \A i \in 1..(n + 1) : i < k \/ i = k \/ i > k  BY <1>5
<1>11. Queued(r) = Queued(q) \cup {j}
  <2>1. ASSUME NEW x \in Queued(r) PROVE x \in Queued(q) \cup {j}
    <3>1. PICK i \in 1..(n + 1) : x = r[i]  BY <1>4 DEF Queued, ToSet
    <3>2. x = j \/ \E m \in 1..n : x = q[m]
      <4>1. CASE i < k  BY <1>6, <3>1, <4>1
      <4>2. CASE i = k  BY <1>7, <3>1, <4>2
      <4>3. CASE i > k  BY <1>8, <3>1, <4>3
      <4> QED  BY <1>10, <4>1, <4>2, <4>3
    <3> QED  BY <1>4, <3>2 DEF Queued, ToSet
  <2>2. ASSUME NEW x \in Queued(q) PROVE x \in Queued(r)
    <3>1. PICK i \in 1..n : x = q[i]  BY <1>4 DEF Queued, ToSet
    <3>2. PICK m \in 1..(n + 1) : r[m] = q[i]  BY <1>9
    <3> QED  BY <1>4, <3>1, <3>2 DEF Queued, ToSet
  <2>3. j \in Queued(r)
    <3>1. k \in 1..(n + 1)  BY <1>5
    <3> QED  BY <1>4, <1>7, <3>1 DEF Queued, ToSet
  <2> QED  BY <2>1, <2>2, <2>3
<1>12. ASSUME SortedBySLO(q) PROVE SortedBySLO(r)
  <2>1. \A i, m \in 1..n : i < m => SLO[q[i]] <= SLO[q[m]]
    BY <1>12 DEF SortedBySLO, n
  <2>2. ASSUME NEW i \in 1..n, k <= i PROVE SLO[j] <= SLO[q[i]]
    <3>1. k \in 1..n /\ k <= n  BY <1>5, <2>2
    <3>2. SLO[j] \in Nat /\ SLO[q[k]] \in Nat /\ SLO[q[i]] \in Nat
      BY <1>0, <3>1
    <3>3. SLO[j] < SLO[q[k]]  BY <1>1, <3>1
    <3>4. k = i \/ SLO[q[k]] <= SLO[q[i]]  BY <1>5, <2>1, <2>2, <3>1
    <3> QED  BY <3>2, <3>3, <3>4
  <2>3. ASSUME NEW i \in 1..(n + 1), NEW m \in 1..(n + 1), i < m
        PROVE  SLO[r[i]] <= SLO[r[m]]
    <3>1. CASE m < k
      <4>1. i < k  BY <1>5, <2>3, <3>1
      <4>2. r[i] = q[i] /\ i \in 1..n  BY <1>6, <4>1
      <4>3. r[m] = q[m] /\ m \in 1..n  BY <1>6, <3>1
      <4> QED  BY <2>1, <2>3, <4>2, <4>3
    <3>2. CASE m = k
      <4>1. i < k  BY <2>3, <3>2
      <4>2. r[i] = q[i] /\ i \in 1..n  BY <1>6, <4>1
      <4> QED  BY <1>1, <1>7, <3>2, <4>1, <4>2
    <3>3. CASE m > k /\ i < k
      <4>1. r[i] = q[i] /\ i \in 1..n  BY <1>6, <3>3
      <4>2. r[m] = q[m - 1] /\ m - 1 \in 1..n /\ k <= m - 1  BY <1>8, <3>3
      <4>3. i < m - 1  BY <1>5, <3>3, <4>2
      <4> QED  BY <2>1, <4>1, <4>2, <4>3
    <3>4. CASE m > k /\ i = k
      <4>1. r[m] = q[m - 1] /\ m - 1 \in 1..n /\ k <= m - 1  BY <1>8, <3>4
      <4> QED  BY <1>7, <2>2, <3>4, <4>1
    <3>5. CASE m > k /\ i > k
      <4>1. r[i] = q[i - 1] /\ i - 1 \in 1..n  BY <1>8, <3>5
      <4>2. r[m] = q[m - 1] /\ m - 1 \in 1..n  BY <1>8, <3>5
      <4>3. i - 1 < m - 1  BY <2>3
      <4> QED  BY <2>1, <4>1, <4>2, <4>3
    <3> QED  BY <1>10, <3>1, <3>2, <3>3, <3>4, <3>5
  <2> QED  BY <1>2, <2>3 DEF SortedBySLO
<1>13. ASSUME NoDuplicate(q), j \notin Queued(q) PROVE NoDuplicate(r)
  <2>1. \A i, m \in 1..n : i # m => q[i] # q[m]  BY <1>13 DEF NoDuplicate, n
  <2>2. \A i \in 1..n : q[i] # j  BY <1>4, <1>13 DEF Queued, ToSet
  <2>3. ASSUME NEW i \in 1..(n + 1), NEW m \in 1..(n + 1), i < m
        PROVE  r[i] # r[m]
    <3>1. CASE m < k
      <4>1. i < k /\ i # m  BY <1>5, <2>3, <3>1
      <4>2. r[i] = q[i] /\ i \in 1..n  BY <1>6, <4>1
      <4>3. r[m] = q[m] /\ m \in 1..n  BY <1>6, <3>1
      <4> QED  BY <2>1, <4>1, <4>2, <4>3
    <3>2. CASE m = k
      <4>1. i < k  BY <2>3, <3>2
      <4>2. r[i] = q[i] /\ i \in 1..n  BY <1>6, <4>1
      <4> QED  BY <1>7, <2>2, <3>2, <4>2
    <3>3. CASE m > k /\ i < k
      <4>1. r[i] = q[i] /\ i \in 1..n  BY <1>6, <3>3
      <4>2. r[m] = q[m - 1] /\ m - 1 \in 1..n /\ k <= m - 1  BY <1>8, <3>3
      <4>3. i # m - 1  BY <1>5, <3>3, <4>2
      <4> QED  BY <2>1, <4>1, <4>2, <4>3
    <3>4. CASE m > k /\ i = k
      <4>1. r[m] = q[m - 1] /\ m - 1 \in 1..n  BY <1>8, <3>4
      <4> QED  BY <1>7, <2>2, <3>4, <4>1
    <3>5. CASE m > k /\ i > k
      <4>1. r[i] = q[i - 1] /\ i - 1 \in 1..n  BY <1>8, <3>5
      <4>2. r[m] = q[m - 1] /\ m - 1 \in 1..n  BY <1>8, <3>5
      <4>3. i - 1 # m - 1  BY <2>3
      <4> QED  BY <2>1, <4>1, <4>2, <4>3
    <3> QED  BY <1>10, <2>3, <3>1, <3>2, <3>3, <3>4, <3>5
  <2>4. \A i, m \in 1..(n + 1) : i # m => i < m \/ m < i  BY <1>5
  <2>5. \A i, m \in 1..(n + 1) : i # m => r[i] # r[m]  BY <2>3, <2>4
  <2> QED  BY <1>2, <2>5 DEF NoDuplicate
<1> QED  BY <1>2, <1>3, <1>11, <1>12, <1>13

(* Dequeue takes the head, a most urgent entry, and leaves the others in   *)
(* their order.                                                            *)
LEMMA DequeuedEntries ==
  ASSUME NEW q \in Seq(Jobs), q # <<>>
  PROVE  /\ Dequeued(q) \in Seq(Jobs)
         /\ Head(q) \in Queued(q) /\ Head(q) \in Jobs
         /\ Queued(q) = Queued(Dequeued(q)) \cup {Head(q)}
         /\ SortedBySLO(q) => /\ SortedBySLO(Dequeued(q))
                              /\ \A j \in Queued(q) : SLO[Head(q)] <= SLO[j]
         /\ NoDuplicate(q) => /\ NoDuplicate(Dequeued(q))
                              /\ Head(q) \notin Queued(Dequeued(q))
<1> DEFINE n == Len(q)
           r == Tail(q)
<1>1. /\ n \in Nat \ {0} /\ Head(q) = q[1]
      /\ \A i \in 1..n : q[i] \in Jobs
  OBVIOUS
<1>2. /\ r \in Seq(Jobs) /\ Len(r) = n - 1
      /\ \A i \in 1..(n - 1) : r[i] = q[i + 1]
  OBVIOUS
<1>3. DOMAIN r = 1..(n - 1) /\ DOMAIN q = 1..n  BY <1>2
<1>4. Dequeued(q) = r  BY DEF Dequeued
<1> HIDE DEF r
<1>5. Head(q) \in Queued(q)  BY <1>1, <1>3 DEF Queued, ToSet
<1>6. Queued(q) = Queued(r) \cup {Head(q)}
  <2>1. ASSUME NEW x \in Queued(q) PROVE x \in Queued(r) \cup {Head(q)}
    <3>1. PICK i \in 1..n : x = q[i]  BY <1>3 DEF Queued, ToSet
    <3>2. CASE i = 1  BY <1>1, <3>1, <3>2
    <3>3. CASE i # 1
      <4>1. i - 1 \in 1..(n - 1) /\ r[i - 1] = x  BY <1>1, <1>2, <3>1, <3>3
      <4> QED  BY <1>3, <4>1 DEF Queued, ToSet
    <3> QED  BY <3>2, <3>3
  <2>2. ASSUME NEW x \in Queued(r) PROVE x \in Queued(q)
    <3>1. PICK i \in 1..(n - 1) : x = r[i]  BY <1>3 DEF Queued, ToSet
    <3>2. i + 1 \in 1..n /\ q[i + 1] = x  BY <1>1, <1>2, <3>1
    <3> QED  BY <1>3, <3>2 DEF Queued, ToSet
  <2> QED  BY <1>5, <2>1, <2>2
<1>7. ASSUME SortedBySLO(q)
      PROVE  SortedBySLO(r) /\ \A j \in Queued(q) : SLO[Head(q)] <= SLO[j]
  <2>1. \A i, m \in 1..n : i < m => SLO[q[i]] <= SLO[q[m]]
    BY <1>7 DEF SortedBySLO
  <2>2. SortedBySLO(r)  BY <1>1, <1>2, <2>1 DEF SortedBySLO
  <2>3. ASSUME NEW j \in Queued(q) PROVE SLO[q[1]] <= SLO[j]
    <3>1. PICK i \in 1..n : j = q[i]  BY <1>3 DEF Queued, ToSet
    <3>2. SLO[j] \in Nat  BY <1>1, <3>1, SLOAssumption
    <3> QED  BY <1>1, <2>1, <3>1, <3>2
  <2> QED  BY <1>1, <2>2, <2>3
<1>8. ASSUME NoDuplicate(q) PROVE NoDuplicate(r) /\ Head(q) \notin Queued(r)
  <2>1. \A i, m \in 1..n : i # m => q[i] # q[m]  BY <1>8 DEF NoDuplicate
  <2>2. NoDuplicate(r)  BY <1>1, <1>2, <2>1 DEF NoDuplicate
  <2>3. \A i \in 1..(n - 1) : r[i] # q[1]  BY <1>1, <1>2, <2>1
  <2> QED  BY <1>1, <1>3, <2>2, <2>3 DEF Queued, ToSet
<1> QED  BY <1>1, <1>2, <1>4, <1>5, <1>6, <1>7, <1>8

(* Remove takes out the job, and only the job, and leaves the others in    *)
(* their order.                                                            *)
LEMMA RemovedEntries ==
  ASSUME NEW q \in Seq(Jobs), NEW j \in Jobs
  PROVE  /\ Removed(q, j) \in Seq(Jobs)
         /\ Queued(Removed(q, j)) \subseteq Queued(q)
         /\ Queued(q) \ {j} \subseteq Queued(Removed(q, j))
         /\ SortedBySLO(q) => SortedBySLO(Removed(q, j))
         /\ NoDuplicate(q) => /\ NoDuplicate(Removed(q, j))
                              /\ j \notin Queued(Removed(q, j))
<1> DEFINE n == Len(q)
           I == {i \in 1..n : q[i] = j}
           k == Min(I)
<1>0. n \in Nat /\ DOMAIN q = 1..n  OBVIOUS
<1>1. CASE I = {}
  <2>1. Removed(q, j) = q  BY <1>1 DEF Removed, RemoveFirst
  <2>2. j \notin Queued(q)  BY <1>0, <1>1 DEF Queued, ToSet
  <2> QED  BY <2>1, <2>2
<1>2. CASE I # {}
  <2>1. I \in SUBSET Nat  OBVIOUS
  <2>2. k \in I  BY <1>2, <2>1, MinOfNat
  <2>3. k \in 1..n /\ q[k] = j  BY <2>2
  <2>4. Removed(q, j) = RemoveAt(q, k)
    <3>1. \E i \in 1..Len(q) : q[i] = j  BY <1>2
    <3>2. SelectInSeq(q, LAMBDA v : v = j) = k  BY <1>2 DEF SelectInSeq
    <3> QED  BY <3>1, <3>2 DEF Removed, RemoveFirst
  <2> HIDE DEF k
  <2> DEFINE r == RemoveAt(q, k)
  <2>5. /\ r \in Seq(Jobs) /\ Len(r) = n - 1
        /\ \A i \in 1..(n - 1) : r[i] = IF i < k THEN q[i] ELSE q[i + 1]
    BY <2>3, RemoveAtEntries
  <2> HIDE DEF r
  <2>6. DOMAIN r = 1..(n - 1)  BY <2>5, <1>0
  <2> DEFINE Old(x) == IF x < k THEN x ELSE x + 1
  <2>7. \A x \in 1..(n - 1) : Old(x) \in 1..n /\ Old(x) # k /\ r[x] = q[Old(x)]
    BY <1>0, <2>3, <2>5
  <2>8. \A x, y \in 1..(n - 1) : /\ x < y => Old(x) < Old(y)
                                 /\ x # y => Old(x) # Old(y)
    BY <1>0, <2>3
  <2>9. \A y \in 1..n : y # k => \E x \in 1..(n - 1) : y = Old(x)
    <3>1. ASSUME NEW y \in 1..n, y # k PROVE \E x \in 1..(n - 1) : y = Old(x)
      <4>1. CASE y < k
        <5>1. y \in 1..(n - 1) /\ y = Old(y)  BY <1>0, <2>3, <4>1
        <5> QED  BY <5>1
      <4>2. CASE y > k
        <5>1. y - 1 \in 1..(n - 1) /\ y = Old(y - 1)  BY <1>0, <2>3, <4>2
        <5> QED  BY <5>1
      <4> QED  BY <2>3, <3>1, <4>1, <4>2
    <3> QED  BY <3>1
  <2> HIDE DEF Old
  <2>10. Queued(r) \subseteq Queued(q)
    BY <1>0, <2>6, <2>7 DEF Queued, ToSet
  <2>11. Queued(q) \ {j} \subseteq Queued(r)
    <3>1. ASSUME NEW e \in Queued(q), e # j PROVE e \in Queued(r)
      <4>1. PICK y \in 1..n : e = q[y]  BY <1>0 DEF Queued, ToSet
      <4>2. PICK x \in 1..(n - 1) : y = Old(x)  BY <2>3, <2>9, <3>1, <4>1
      <4> QED  BY <2>6, <2>7, <4>1, <4>2 DEF Queued, ToSet
    <3> QED  BY <3>1
  <2>12. ASSUME SortedBySLO(q) PROVE SortedBySLO(r)
    <3>1. \A x, y \in 1..n : x < y => SLO[q[x]] <= SLO[q[y]]
      BY <2>12 DEF SortedBySLO
    <3>2. \A x, y \in 1..(n - 1) : x < y => SLO[r[x]] <= SLO[r[y]]
      BY <2>7, <2>8, <3>1
    <3> QED  BY <2>5, <3>2 DEF SortedBySLO
  <2>13. ASSUME NoDuplicate(q) PROVE NoDuplicate(r) /\ j \notin Queued(r)
    <3>1. \A x, y \in 1..n : x # y => q[x] # q[y]  BY <2>13 DEF NoDuplicate
    <3>2. \A x, y \in 1..(n - 1) : x # y => r[x] # r[y]
      BY <2>7, <2>8, <3>1
    <3>3. NoDuplicate(r)  BY <2>5, <3>2 DEF NoDuplicate
    <3>4. \A x \in 1..(n - 1) : r[x] # j  BY <2>3, <2>7, <3>1
    <3>5. j \notin Queued(r)  BY <2>6, <3>4 DEF Queued, ToSet
    <3> QED  BY <3>3, <3>5
  <2> QED  BY <2>4, <2>5, <2>10, <2>11, <2>12, <2>13 DEF r
<1> QED  BY <1>1, <1>2
=============================================================================
