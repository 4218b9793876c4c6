------------------------- MODULE SleepQProofs -------------------------
(***************************************************************************)
(* What the sleep queue operations do to a queue, for queues of any length *)
(* and any priorities.                                                     *)
(***************************************************************************)
EXTENDS SleepQ, Integers, FiniteSetTheorems, WellFoundedInduction, TLAPS

-----------------------------------------------------------------------
(* Every non-empty set of naturals has a least element. *)
LEMMA LeastNatural ==
  ASSUME NEW S \in SUBSET Nat, S # {}
  PROVE  \E i \in S : \A j \in S : i <= j
<1>1. PICK i \in S : \A j \in S : <<j, i>> \notin OpToRel(<, Nat)
  BY NatLessThanWellFounded, WFMin, Zenon
<1>2. \A j \in S : <<j, i>> \in Nat \X Nat
  OBVIOUS
<1>3. \A j \in S : ~(j < i)
  BY <1>1, <1>2 DEF OpToRel
<1> QED
  BY <1>3

(* The insertion loop of sleepq_insert stops, behind every thread of at    *)
(* least the priority of c that it passed.                                 *)
LEMMA InsertPosProperty ==
  ASSUME NEW T, NEW q \in Seq(T), NEW c \in T, NEW prio \in [T -> Nat]
  PROVE  LET i == InsertPos(q, c, prio)
         IN  /\ i \in 1..(Len(q) + 1)
             /\ i <= Len(q) => prio[c] > prio[q[i]]
             /\ \A j \in 1..(i - 1) : prio[c] <= prio[q[j]]
<1> DEFINE S == {i \in 1..(Len(q) + 1) : i <= Len(q) => prio[c] > prio[q[i]]}
<1>1. S \in SUBSET Nat /\ S # {}
  <2>1. Len(q) + 1 \in S
    OBVIOUS
  <2> QED
    BY <2>1
<1>2. PICK i \in S : \A j \in S : i <= j
  BY <1>1, LeastNatural
<1>3. \A j \in 1..(i - 1) : prio[c] <= prio[q[j]]
  <2> SUFFICES ASSUME NEW j \in 1..(i - 1)
               PROVE  prio[c] <= prio[q[j]]
    OBVIOUS
  <2>1. j \in 1..Len(q) /\ ~(i <= j)
    OBVIOUS
  <2>2. j \notin S
    BY <1>2, <2>1
  <2>3. q[j] \in T
    BY <2>1
  <2> QED
    BY <2>1, <2>2, <2>3
<1> QED
  BY <1>2, <1>3 DEF InsertPos

(* sleepq_insert adds exactly c. *)
LEMMA InsertAdds ==
  ASSUME NEW T, NEW q \in Seq(T), NEW c \in T, NEW prio \in [T -> Nat]
  PROVE  LET r == SleepqInsert(q, c, prio)
         IN  /\ r \in Seq(T)
             /\ Len(r) = Len(q) + 1
             /\ \A x : OnQueue(r, x) <=> (OnQueue(q, x) \/ x = c)
             /\ Distinct(q) /\ ~OnQueue(q, c) => Distinct(r)
<1> DEFINE i == InsertPos(q, c, prio)
           r == SleepqInsert(q, c, prio)
<1>1. i \in 1..(Len(q) + 1)
  BY InsertPosProperty
<1> HIDE DEF i
<1>2. r = [k \in 1..(Len(q) + 1) |-> IF k < i THEN q[k] ELSE IF k = i THEN c ELSE q[k - 1]]
  BY DEF SleepqInsert, i
<1>3. r \in Seq(T) /\ Len(r) = Len(q) + 1
  BY <1>1, <1>2
<1> HIDE DEF r
<1>4. \A k \in 1..Len(q) : q[k] = IF k < i THEN r[k] ELSE r[k + 1]
  BY <1>1, <1>2
<1>5. \A x : OnQueue(r, x) <=> (OnQueue(q, x) \/ x = c)
  <2>1. ASSUME NEW x, OnQueue(r, x) PROVE OnQueue(q, x) \/ x = c
    <3>1. PICK k \in 1..(Len(q) + 1) : r[k] = x
      BY <2>1, <1>3 DEF OnQueue
    <3>2. CASE k < i
      BY <3>1, <3>2, <1>1, <1>2 DEF OnQueue
    <3>3. CASE k = i
      BY <3>1, <3>3, <1>1, <1>2
    <3>4. CASE k > i
      <4>1. k - 1 \in 1..Len(q) /\ q[k - 1] = x
        BY <3>1, <3>4, <1>1, <1>2
      <4> QED
        BY <4>1 DEF OnQueue
    <3> QED
      BY <3>2, <3>3, <3>4, <1>1
  <2>2. OnQueue(r, c)
    <3>1. i \in 1..Len(r) /\ r[i] = c
      BY <1>1, <1>2, <1>3
    <3> QED
      BY <3>1 DEF OnQueue
  <2>3. ASSUME NEW x, OnQueue(q, x) PROVE OnQueue(r, x)
    <3>1. PICK k \in 1..Len(q) : q[k] = x
      BY <2>3 DEF OnQueue
    <3>2. CASE k < i
      BY <3>1, <3>2, <1>1, <1>3, <1>4 DEF OnQueue
    <3>3. CASE ~(k < i)
      <4>1. k + 1 \in 1..Len(r) /\ r[k + 1] = x
        BY <3>1, <3>3, <1>1, <1>3, <1>4
      <4> QED
        BY <4>1 DEF OnQueue
    <3> QED
      BY <3>2, <3>3
  <2> QED
    BY <2>1, <2>2, <2>3
<1>6. ASSUME Distinct(q), ~OnQueue(q, c) PROVE Distinct(r)
  <2> DEFINE Old(k) == IF k < i THEN k ELSE k - 1
  <2>1. \A k \in 1..Len(r) : k # i => Old(k) \in 1..Len(q) /\ r[k] = q[Old(k)]
    BY <1>1, <1>2, <1>3
  <2>2. \A j, k \in 1..Len(r) : j # i /\ k # i /\ Old(j) = Old(k) => j = k
    BY <1>1, <1>3
  <2>3. r[i] = c
    BY <1>1, <1>2
  <2>4. \A k \in 1..Len(r) : k # i => r[k] # c
    BY <1>6, <2>1 DEF OnQueue
  <2> HIDE DEF Old
  <2> QED
    BY <1>6, <2>1, <2>2, <2>3, <2>4 DEF Distinct
<1> QED
  BY <1>3, <1>5, <1>6 DEF r

(* sleepq_insert keeps the order. *)
LEMMA InsertKeepsOrder ==
  ASSUME NEW T, NEW q \in Seq(T), NEW c \in T, NEW prio \in [T -> Nat],
         InOrder(q, prio)
  PROVE  InOrder(SleepqInsert(q, c, prio), prio)
<1> DEFINE i == InsertPos(q, c, prio)
           r == SleepqInsert(q, c, prio)
<1>1. /\ i \in 1..(Len(q) + 1)
      /\ i <= Len(q) => prio[c] > prio[q[i]]
      /\ \A j \in 1..(i - 1) : prio[c] <= prio[q[j]]
  BY InsertPosProperty
<1>2. r = [k \in 1..(Len(q) + 1) |-> IF k < i THEN q[k] ELSE IF k = i THEN c ELSE q[k - 1]]
  BY DEF SleepqInsert
<1> HIDE DEF i
<1>3. \A k \in 1..Len(q) : q[k] \in T /\ prio[q[k]] \in Nat
  OBVIOUS
<1>4. \A j \in 1..Len(q) : i <= j => prio[c] > prio[q[j]]
  BY <1>1, <1>3 DEF InOrder
<1>5. Len(r) = Len(q) + 1
  BY <1>2, InsertAdds
<1> HIDE DEF r
<1>6. SUFFICES ASSUME NEW j \in 1..Len(r), NEW k \in 1..Len(r), j < k
               PROVE  prio[r[j]] >= prio[r[k]]
  BY DEF InOrder, r
<1>7. CASE j < i /\ k < i
  <2>1. j \in 1..Len(q) /\ k \in 1..Len(q) /\ r[j] = q[j] /\ r[k] = q[k]
    BY <1>1, <1>2, <1>5, <1>6, <1>7
  <2> QED
    BY <1>6, <2>1 DEF InOrder
<1>8. CASE j < i /\ k = i
  <2>1. j \in 1..(i - 1) /\ r[j] = q[j] /\ r[k] = c
    BY <1>1, <1>2, <1>5, <1>6, <1>8
  <2>2. j \in 1..Len(q)
    BY <1>1, <1>8
  <2> QED
    BY <1>1, <1>3, <2>1, <2>2
<1>9. CASE j < i /\ k > i
  <2>1. j \in 1..Len(q) /\ k - 1 \in 1..Len(q) /\ r[j] = q[j] /\ r[k] = q[k - 1]
    BY <1>1, <1>2, <1>5, <1>6, <1>9
  <2>2. j < k - 1
    BY <1>1, <1>9
  <2> QED
    BY <2>1, <2>2 DEF InOrder
<1>10. CASE j = i
  <2>1. k - 1 \in 1..Len(q) /\ r[k] = q[k - 1] /\ i <= k - 1 /\ r[j] = c
    BY <1>1, <1>2, <1>5, <1>6, <1>10
  <2> QED
    BY <1>3, <1>4, <2>1
<1>11. CASE j > i
  <2>1. j - 1 \in 1..Len(q) /\ k - 1 \in 1..Len(q) /\ r[j] = q[j - 1] /\ r[k] = q[k - 1]
    BY <1>1, <1>2, <1>5, <1>6, <1>11
  <2>2. j - 1 < k - 1
    BY <1>6
  <2> QED
    BY <2>1, <2>2 DEF InOrder
<1> QED
  BY <1>6, <1>7, <1>8, <1>9, <1>10, <1>11, <1>1

(* sleepq_dequeue takes out exactly t. *)
LEMMA DequeueRemoves ==
  ASSUME NEW T, NEW q \in Seq(T), NEW t, Distinct(q), OnQueue(q, t)
  PROVE  LET r == SleepqDequeue(q, t)
         IN  /\ r \in Seq(T)
             /\ Len(r) = Len(q) - 1
             /\ \A x : OnQueue(r, x) <=> (OnQueue(q, x) /\ x # t)
             /\ Distinct(r)
<1> DEFINE i == CHOOSE k \in 1..Len(q) : q[k] = t /\ \A j \in 1..(k - 1) : q[j] # t
           r == SleepqDequeue(q, t)
<1>1. i \in 1..Len(q) /\ q[i] = t
  <2>1. PICK k \in 1..Len(q) : q[k] = t
    BY DEF OnQueue
  <2>2. \A j \in 1..(k - 1) : q[j] # t
    BY <2>1 DEF Distinct
  <2> QED
    BY <2>1, <2>2
<1>2. r = [k \in 1..(Len(q) - 1) |-> IF k < i THEN q[k] ELSE q[k + 1]]
  BY DEF SleepqDequeue
<1> HIDE DEF i
<1>3. r \in Seq(T) /\ Len(r) = Len(q) - 1
  BY <1>1, <1>2
<1> HIDE DEF r
<1>4. ASSUME NEW x, OnQueue(r, x) PROVE OnQueue(q, x) /\ x # t
  <2>1. PICK k \in 1..(Len(q) - 1) : r[k] = x
    BY <1>3, <1>4 DEF OnQueue
  <2>2. CASE k < i
    <3>1. k \in 1..Len(q) /\ q[k] = x /\ k # i
      BY <1>1, <1>2, <2>1, <2>2
    <3> QED
      BY <1>1, <3>1 DEF OnQueue, Distinct
  <2>3. CASE ~(k < i)
    <3>1. k + 1 \in 1..Len(q) /\ q[k + 1] = x /\ k + 1 # i
      BY <1>1, <1>2, <2>1, <2>3
    <3> QED
      BY <1>1, <3>1 DEF OnQueue, Distinct
  <2> QED
    BY <2>2, <2>3
<1>5. ASSUME NEW x, OnQueue(q, x), x # t PROVE OnQueue(r, x)
  <2>1. PICK k \in 1..Len(q) : q[k] = x
    BY <1>5 DEF OnQueue
  <2>2. CASE k < i
    <3>1. k \in 1..Len(r) /\ r[k] = x
      BY <1>1, <1>2, <1>3, <2>1, <2>2
    <3> QED
      BY <3>1 DEF OnQueue
  <2>3. CASE k > i
    <3>1. k - 1 \in 1..Len(r) /\ r[k - 1] = x
      BY <1>1, <1>2, <1>3, <2>1, <2>3
    <3> QED
      BY <3>1 DEF OnQueue
  <2> QED
    BY <1>1, <1>5, <2>1, <2>2, <2>3
<1>6. Distinct(r)
  BY <1>1, <1>2, <1>3 DEF Distinct
<1> QED
  BY <1>3, <1>4, <1>5, <1>6 DEF r

(* Taking the first thread, as sleepq_wakeone and sema_v do. *)
LEMMA TailRemoves ==
  ASSUME NEW T, NEW q \in Seq(T), q # << >>, Distinct(q)
  PROVE  /\ Tail(q) \in Seq(T)
         /\ Len(Tail(q)) = Len(q) - 1
         /\ \A x : OnQueue(Tail(q), x) <=> (OnQueue(q, x) /\ x # q[1])
         /\ Distinct(Tail(q))
<1> DEFINE r == Tail(q)
<1>1. Len(q) \in Nat /\ Len(q) >= 1 /\ r \in Seq(T) /\ Len(r) = Len(q) - 1
  OBVIOUS
<1>2. \A k \in 1..Len(r) : r[k] = q[k + 1]
  OBVIOUS
<1> HIDE DEF r
<1>3. ASSUME NEW x, OnQueue(r, x) PROVE OnQueue(q, x) /\ x # q[1]
  <2>1. PICK k \in 1..Len(r) : r[k] = x
    BY <1>3 DEF OnQueue
  <2>2. k + 1 \in 1..Len(q) /\ q[k + 1] = x /\ k + 1 # 1 /\ 1 \in 1..Len(q)
    BY <1>1, <1>2, <2>1
  <2> QED
    BY <2>2 DEF OnQueue, Distinct
<1>4. ASSUME NEW x, OnQueue(q, x), x # q[1] PROVE OnQueue(r, x)
  <2>1. PICK k \in 1..Len(q) : q[k] = x
    BY <1>4 DEF OnQueue
  <2>2. k - 1 \in 1..Len(r) /\ r[k - 1] = x
    BY <1>1, <1>2, <1>4, <2>1
  <2> QED
    BY <2>2 DEF OnQueue
<1>5. Distinct(r)
  BY <1>1, <1>2 DEF Distinct
<1> QED
  BY <1>1, <1>3, <1>4, <1>5 DEF r

(* Unlinking a thread keeps the rest in order. *)
LEMMA DequeueKeepsOrder ==
  ASSUME NEW T, NEW q \in Seq(T), NEW t, NEW prio, InOrder(q, prio),
         Distinct(q), OnQueue(q, t)
  PROVE  InOrder(SleepqDequeue(q, t), prio)
<1> DEFINE i == CHOOSE k \in 1..Len(q) : q[k] = t /\ \A j \in 1..(k - 1) : q[j] # t
           r == SleepqDequeue(q, t)
<1>1. i \in 1..Len(q)
  <2>1. PICK k \in 1..Len(q) : q[k] = t
    BY DEF OnQueue
  <2>2. \A j \in 1..(k - 1) : q[j] # t
    BY <2>1 DEF Distinct
  <2> QED
    BY <2>1, <2>2
<1>2. r = [k \in 1..(Len(q) - 1) |-> IF k < i THEN q[k] ELSE q[k + 1]]
  BY DEF SleepqDequeue
<1>3. Len(r) = Len(q) - 1
  BY DequeueRemoves
<1> HIDE DEF i, r
<1> DEFINE Old(k) == IF k < i THEN k ELSE k + 1
<1>4. \A k \in 1..Len(r) : Old(k) \in 1..Len(q) /\ r[k] = q[Old(k)]
  BY <1>1, <1>2, <1>3
<1>5. \A j, k \in 1..Len(r) : j < k => Old(j) < Old(k)
  BY <1>1, <1>3
<1> HIDE DEF Old
<1>6. InOrder(r, prio)
  BY <1>4, <1>5 DEF InOrder
<1> QED
  BY <1>6 DEF r

(* So does taking the first. *)
LEMMA TailKeepsOrder ==
  ASSUME NEW T, NEW q \in Seq(T), q # << >>, NEW prio, InOrder(q, prio)
  PROVE  InOrder(Tail(q), prio)
<1>1. Len(q) \in Nat /\ Len(Tail(q)) = Len(q) - 1
  OBVIOUS
<1>2. \A k \in 1..Len(Tail(q)) : Tail(q)[k] = q[k + 1] /\ k + 1 \in 1..Len(q)
  OBVIOUS
<1>3. \A j, k \in 1..Len(Tail(q)) : j < k => j + 1 < k + 1
  BY <1>1
<1> QED
  BY <1>2, <1>3 DEF InOrder

(* The order of a queue depends on the priorities of its threads only. *)
LEMMA OrderOfMembers ==
  ASSUME NEW q, NEW prio, NEW prio2, InOrder(q, prio),
         \A x : OnQueue(q, x) => prio2[x] = prio[x]
  PROVE  InOrder(q, prio2)
BY DEF InOrder, OnQueue

(* So a queue that is sound stays so when a thread that is not on it is    *)
(* put on it...                                                            *)
LEMMA InsertSound ==
  ASSUME NEW T, NEW q \in Seq(T), NEW c \in T, NEW prio \in [T -> Nat],
         Distinct(q), ~OnQueue(q, c), InOrder(q, prio)
  PROVE  /\ SleepqInsert(q, c, prio) \in Seq(T) /\ Distinct(SleepqInsert(q, c, prio))
         /\ InOrder(SleepqInsert(q, c, prio), prio)
         /\ \A x : OnQueue(SleepqInsert(q, c, prio), x) <=> (OnQueue(q, x) \/ x = c)
BY InsertAdds, InsertKeepsOrder

(* ... and when one that is on it is unlinked and put back by another      *)
(* priority.                                                               *)
LEMMA RequeueSound ==
  ASSUME NEW T, NEW q \in Seq(T), NEW c \in T, NEW prio \in [T -> Nat], NEW prio2 \in [T -> Nat],
         Distinct(q), OnQueue(q, c), InOrder(q, prio), \A x \in T \ {c} : prio2[x] = prio[x]
  PROVE  /\ SleepqInsert(SleepqDequeue(q, c), c, prio2) \in Seq(T)
         /\ Distinct(SleepqInsert(SleepqDequeue(q, c), c, prio2))
         /\ InOrder(SleepqInsert(SleepqDequeue(q, c), c, prio2), prio2)
         /\ \A x : OnQueue(SleepqInsert(SleepqDequeue(q, c), c, prio2), x) <=> OnQueue(q, x)
<1> DEFINE d == SleepqDequeue(q, c)
<1>1. d \in Seq(T) /\ Distinct(d) /\ \A x : OnQueue(d, x) <=> (OnQueue(q, x) /\ x # c)
  BY DequeueRemoves
<1>2. InOrder(d, prio)
  BY DequeueKeepsOrder
<1> HIDE DEF d
<1>3. \A x : OnQueue(d, x) => x \in T \ {c}
  <2>1. \A x : OnQueue(d, x) => x \in T
    BY <1>1 DEF OnQueue
  <2> QED
    BY <1>1, <2>1
<1>4. \A x : OnQueue(d, x) => prio2[x] = prio[x]
  BY <1>3
<1>5. InOrder(d, prio2)
  BY <1>2, <1>4, OrderOfMembers
<1>6. ~OnQueue(d, c)
  BY <1>1
<1>7. /\ SleepqInsert(d, c, prio2) \in Seq(T) /\ Distinct(SleepqInsert(d, c, prio2))
      /\ InOrder(SleepqInsert(d, c, prio2), prio2)
      /\ \A x : OnQueue(SleepqInsert(d, c, prio2), x) <=> (OnQueue(d, x) \/ x = c)
  BY <1>1, <1>5, <1>6, InsertSound
<1>8. \A x : OnQueue(d, x) \/ x = c <=> OnQueue(q, x)
  BY <1>1
<1> QED
  BY <1>7, <1>8 DEF d

(* The threads of a queue, as a set. *)
LEMMA SleepersOnQueue ==
  ASSUME NEW q
  PROVE  \A x : x \in Sleepers(q) <=> OnQueue(q, x)
BY DEF Sleepers, OnQueue

(* A queue without duplicates has as many threads as it is long. *)
LEMMA SleepersCount ==
  ASSUME NEW T, NEW q \in Seq(T), Distinct(q)
  PROVE  /\ Sleepers(q) \subseteq T
         /\ IsFiniteSet(Sleepers(q))
         /\ Cardinality(Sleepers(q)) = Len(q)
<1>1. Len(q) \in Nat /\ q \in [1..Len(q) -> T] /\ DOMAIN q = 1..Len(q)
  OBVIOUS
<1>2. q \in [1..Len(q) -> Sleepers(q)] /\ Sleepers(q) \subseteq T
  BY <1>1 DEF Sleepers
<1>3. q \in Bijection(1..Len(q), Sleepers(q))
  BY <1>1, <1>2 DEF Bijection, Injection, IsInjective, Surjection, Distinct, Sleepers
<1>4. ExistsBijection(1..Len(q), Sleepers(q))
  BY <1>3 DEF ExistsBijection
<1>5. IsFiniteSet(Sleepers(q))
  BY <1>1, <1>4, FS_NatBijection
<1> QED
  BY <1>1, <1>2, <1>4, <1>5, FS_CountingElements

-----------------------------------------------------------------------
(* One thread enters or leaves a finite set of threads. *)
LEMMA CardAdd ==
  ASSUME NEW S, IsFiniteSet(S), NEW R, NEW x, x \notin S, \A y : y \in R <=> (y \in S \/ y = x)
  PROVE  IsFiniteSet(R) /\ Cardinality(R) = Cardinality(S) + 1
<1>1. R = S \cup {x}
  OBVIOUS
<1> QED
  BY <1>1, FS_AddElement

(* ... and one leaves it. *)
LEMMA CardRemove ==
  ASSUME NEW S, IsFiniteSet(S), NEW R, NEW x, x \in S, \A y : y \in R <=> (y \in S /\ y # x)
  PROVE  IsFiniteSet(R) /\ Cardinality(R) = Cardinality(S) - 1
<1>1. R = S \ {x}
  OBVIOUS
<1> QED
  BY <1>1, FS_RemoveElement


-----------------------------------------------------------------------
(* The walk that unlinks the threads of S, up to position m of q.  What it *)
(* computes is shown by taking the least position at which it would fail.  *)
Walk(f, q, S, m) ==
  f = [n \in 0..m |-> IF n = 0 THEN << >>
                      ELSE IF q[n] \in S THEN f[n - 1] ELSE Append(f[n - 1], q[n])]

(* A walk over any number of positions exists. *)
LEMMA WalkExists ==
  ASSUME NEW q, NEW S, NEW m \in Nat
  PROVE  \E f : Walk(f, q, S, m)
<1> DEFINE Bad == {k \in Nat : ~\E f : Walk(f, q, S, k)}
<1> SUFFICES ASSUME Bad # {} PROVE FALSE
  OBVIOUS
<1>1. PICK k \in Bad : \A j \in Bad : k <= j
  <2>1. Bad \in SUBSET Nat
    OBVIOUS
  <2> QED
    BY <2>1, LeastNatural
<1>2. k \in Nat /\ ~\E f : Walk(f, q, S, k)
  OBVIOUS
<1>3. CASE k = 0
  <2> DEFINE f == [n \in 0..0 |-> << >>]
  <2>1. f = [n \in 0..0 |-> IF n = 0 THEN << >> ELSE IF q[n] \in S THEN f[n - 1] ELSE Append(f[n - 1], q[n])]
    OBVIOUS
  <2> QED
    BY <1>2, <1>3, <2>1 DEF Walk
<1>4. CASE k # 0
  <2>1. k - 1 \in Nat /\ k - 1 \notin Bad
    BY <1>1, <1>2, <1>4
  <2>2. PICK g : Walk(g, q, S, k - 1)
    BY <2>1
  <2>3. PICK v : v = IF q[k] \in S THEN g[k - 1] ELSE Append(g[k - 1], q[k])
    OBVIOUS
  <2>4. PICK f : f = [n \in 0..k |-> IF n = k THEN v ELSE g[n]]
    OBVIOUS
  <2>5. \A n \in 0..k : f[n] = IF n = 0 THEN << >> ELSE IF q[n] \in S THEN f[n - 1] ELSE Append(f[n - 1], q[n])
    <3> SUFFICES ASSUME NEW n \in 0..k
                 PROVE  f[n] = IF n = 0 THEN << >> ELSE IF q[n] \in S THEN f[n - 1] ELSE Append(f[n - 1], q[n])
      OBVIOUS
    <3>1. CASE n = k
      <4>1. f[n] = v /\ f[n - 1] = g[k - 1]
        BY <1>2, <1>4, <2>4, <3>1
      <4> QED
        BY <1>4, <2>3, <3>1, <4>1
    <3>2. CASE n # k
      <4>1. n \in 0..(k - 1) /\ f[n] = g[n]
        BY <1>2, <2>4, <3>2
      <4>2. n # 0 => f[n - 1] = g[n - 1]
        BY <1>2, <2>4, <3>2
      <4>3. g[n] = IF n = 0 THEN << >> ELSE IF q[n] \in S THEN g[n - 1] ELSE Append(g[n - 1], q[n])
        BY <2>2, <4>1 DEF Walk
      <4> QED
        BY <4>1, <4>2, <4>3
    <3> QED
      BY <3>1, <3>2
  <2>6. f = [n \in 0..k |-> f[n]]
    BY <2>4
  <2>7. Walk(f, q, S, k)
    BY <2>5, <2>6 DEF Walk
  <2> QED
    BY <1>2, <2>7
<1> QED
  BY <1>3, <1>4

(* r is what is left of the first m threads of q: h says where each of     *)
(* them stood.                                                             *)
LeftBy(h, r, q, S, m) ==
  /\ h \in [1..Len(r) -> 1..m]
  /\ \A i, j \in 1..Len(r) : i < j => h[i] < h[j]
  /\ \A i \in 1..Len(r) : r[i] = q[h[i]] /\ q[h[i]] \notin S
  /\ \A k \in 1..m : q[k] \notin S => \E i \in 1..Len(r) : h[i] = k

(* Each step of the walk leaves the threads that are not in S, in order. *)
LEMMA WalkLeaves ==
  ASSUME NEW T, NEW q \in Seq(T), NEW S, NEW f, Walk(f, q, S, Len(q)), NEW m \in 0..Len(q)
  PROVE  f[m] \in Seq(T) /\ \E h : LeftBy(h, f[m], q, S, m)
<1> DEFINE Good(k) == f[k] \in Seq(T) /\ \E h : LeftBy(h, f[k], q, S, k)
           Bad == {k \in 0..Len(q) : ~Good(k)}
<1> SUFFICES ASSUME Bad # {} PROVE FALSE
  OBVIOUS
<1>0. Len(q) \in Nat /\ \A n \in 1..Len(q) : q[n] \in T
  OBVIOUS
<1>1. PICK k \in Bad : \A j \in Bad : k <= j
  <2>1. Bad \in SUBSET Nat
    BY <1>0
  <2> HIDE DEF Bad
  <2> QED
    BY <2>1, LeastNatural
<1>2. k \in 0..Len(q) /\ ~Good(k)
  BY <1>1
<1>3. CASE k = 0
  <2>1. f[0] = << >>
    BY <1>0 DEF Walk
  <2>2. LeftBy(<< >>, f[0], q, S, 0)
    BY <2>1 DEF LeftBy
  <2> QED
    BY <1>2, <1>3, <2>1, <2>2
<1>4. CASE k # 0
  <2>1. k \in 1..Len(q) /\ k - 1 \in 0..Len(q) /\ k - 1 \notin Bad
    BY <1>0, <1>1, <1>2, <1>4
  <2>2. Good(k - 1)
    BY <2>1
  <2>3. PICK p : p = f[k - 1]
    OBVIOUS
  <2>4. PICK h : LeftBy(h, p, q, S, k - 1)
    BY <2>2, <2>3
  <2>5. p \in Seq(T) /\ Len(p) \in Nat
    BY <2>2, <2>3
  <2>6. f[k] = IF q[k] \in S THEN p ELSE Append(p, q[k])
    BY <1>2, <1>4, <2>3 DEF Walk
  <2>7. CASE q[k] \in S
    <3>1. LeftBy(h, p, q, S, k)
      BY <1>0, <2>1, <2>4, <2>5, <2>7 DEF LeftBy
    <3> QED
      BY <1>2, <2>5, <2>6, <2>7, <3>1
  <2>8. CASE q[k] \notin S
    <3>1. PICK r : r = Append(p, q[k])
      OBVIOUS
    <3>2. r \in Seq(T) /\ Len(r) = Len(p) + 1 /\ r[Len(p) + 1] = q[k] /\ \A i \in 1..Len(p) : r[i] = p[i]
      BY <1>0, <2>1, <2>5, <3>1
    <3>3. PICK g : g = [i \in 1..(Len(p) + 1) |-> IF i = Len(p) + 1 THEN k ELSE h[i]]
      OBVIOUS
    <3>4. g[Len(p) + 1] = k /\ \A i \in 1..Len(p) : g[i] = h[i] /\ h[i] \in 1..(k - 1)
      BY <2>4, <2>5, <3>3 DEF LeftBy
    <3>5. g \in [1..Len(r) -> 1..k]
      <4>1. \A i \in 1..(Len(p) + 1) : i \in 1..Len(p) \/ i = Len(p) + 1
        BY <2>5
      <4>2. \A i \in 1..(Len(p) + 1) : g[i] \in 1..k
        BY <1>0, <2>1, <3>4, <4>1
      <4> QED
        BY <3>2, <3>3, <4>2
    <3>6. \A i, j \in 1..Len(r) : i < j => g[i] < g[j]
      <4> SUFFICES ASSUME NEW i \in 1..Len(r), NEW j \in 1..Len(r), i < j PROVE g[i] < g[j]
        OBVIOUS
      <4>1. i \in 1..Len(p)
        BY <2>5, <3>2
      <4>2. CASE j = Len(p) + 1
        BY <2>1, <3>4, <4>1, <4>2
      <4>3. CASE j # Len(p) + 1
        <5>1. j \in 1..Len(p)
          BY <2>5, <3>2, <4>3
        <5> QED
          BY <2>4, <3>4, <4>1, <5>1 DEF LeftBy
      <4> QED
        BY <4>2, <4>3
    <3>7. \A i \in 1..Len(r) : r[i] = q[g[i]] /\ q[g[i]] \notin S
      <4> SUFFICES ASSUME NEW i \in 1..Len(r) PROVE r[i] = q[g[i]] /\ q[g[i]] \notin S
        OBVIOUS
      <4>1. CASE i = Len(p) + 1
        BY <2>8, <3>2, <3>4, <4>1
      <4>2. CASE i # Len(p) + 1
        <5>1. i \in 1..Len(p)
          BY <2>5, <3>2, <4>2
        <5> QED
          BY <2>4, <3>2, <3>4, <5>1 DEF LeftBy
      <4> QED
        BY <4>1, <4>2
    <3>8. \A n \in 1..k : q[n] \notin S => \E i \in 1..Len(r) : g[i] = n
      <4> SUFFICES ASSUME NEW n \in 1..k, q[n] \notin S PROVE \E i \in 1..Len(r) : g[i] = n
        OBVIOUS
      <4>1. CASE n = k
        BY <2>5, <3>2, <3>4, <4>1
      <4>2. CASE n # k
        <5>1. n \in 1..(k - 1)
          BY <2>1, <4>2
        <5>2. PICK i \in 1..Len(p) : h[i] = n
          BY <2>4, <5>1 DEF LeftBy
        <5> QED
          BY <2>5, <3>2, <3>4, <5>2
      <4> QED
        BY <4>1, <4>2
    <3>9. LeftBy(g, r, q, S, k)
      BY <3>5, <3>6, <3>7, <3>8 DEF LeftBy
    <3> QED
      BY <1>2, <2>6, <2>8, <3>1, <3>2, <3>9
  <2> QED
    BY <2>7, <2>8
<1> QED
  BY <1>3, <1>4

(* sleepq_wakeone_chan and sleepq_wakeall_chan take off exactly the threads *)
(* of S and keep the others in their order.                                *)
LEMMA TakeOffRemoves ==
  ASSUME NEW T, NEW q \in Seq(T), NEW S, Distinct(q)
  PROVE  /\ SleepqTakeOff(q, S) \in Seq(T)
         /\ \A x : OnQueue(SleepqTakeOff(q, S), x) <=> (OnQueue(q, x) /\ x \notin S)
         /\ Distinct(SleepqTakeOff(q, S))
         /\ \A prio : InOrder(q, prio) => InOrder(SleepqTakeOff(q, S), prio)
<1> DEFINE W == CHOOSE f : Walk(f, q, S, Len(q))
<1>0. Len(q) \in Nat
  OBVIOUS
<1>1. Walk(W, q, S, Len(q))
  BY <1>0, WalkExists, Zenon
<1>2. SleepqTakeOff(q, S) = W[Len(q)]
  BY Zenon DEF SleepqTakeOff, Walk
<1>3. PICK r : r = SleepqTakeOff(q, S)
  OBVIOUS
<1>4. r \in Seq(T) /\ \E h : LeftBy(h, r, q, S, Len(q))
  <2> HIDE DEF W
  <2> QED
    BY <1>0, <1>1, <1>2, <1>3, WalkLeaves
<1>5. PICK h : LeftBy(h, r, q, S, Len(q))
  BY <1>4
<1>6. \A x : OnQueue(r, x) <=> (OnQueue(q, x) /\ x \notin S)
  <2>1. ASSUME NEW x, OnQueue(r, x) PROVE OnQueue(q, x) /\ x \notin S
    BY <1>5, <2>1 DEF LeftBy, OnQueue
  <2>2. ASSUME NEW x, OnQueue(q, x), x \notin S PROVE OnQueue(r, x)
    <3>1. PICK k \in 1..Len(q) : q[k] = x
      BY <2>2 DEF OnQueue
    <3>2. PICK i \in 1..Len(r) : h[i] = k
      BY <1>5, <2>2, <3>1 DEF LeftBy
    <3> QED
      BY <1>5, <3>1, <3>2 DEF LeftBy, OnQueue
  <2> QED
    BY <2>1, <2>2
<1>7. Distinct(r)
  <2> SUFFICES ASSUME NEW i \in 1..Len(r), NEW j \in 1..Len(r), r[i] = r[j] PROVE i = j
    BY DEF Distinct
  <2>1. h[i] \in 1..Len(q) /\ h[j] \in 1..Len(q) /\ q[h[i]] = q[h[j]]
    BY <1>5 DEF LeftBy
  <2>2. h[i] = h[j]
    BY <2>1 DEF Distinct
  <2>3. ~(h[i] < h[j]) /\ ~(h[j] < h[i])
    BY <1>0, <2>1, <2>2
  <2>4. ~(i < j) /\ ~(j < i)
    BY <1>5, <2>3 DEF LeftBy
  <2> QED
    BY <1>4, <2>4
<1>8. ASSUME NEW prio, InOrder(q, prio) PROVE InOrder(r, prio)
  BY <1>5, <1>8 DEF LeftBy, InOrder
<1> QED
  BY <1>3, <1>4, <1>6, <1>7, <1>8
=======================================================================
