------------------------- MODULE CalloutProofs -------------------------
(***************************************************************************)
(* Machine-checked proofs about the callout table (Callout), for any       *)
(* clients, executors and structs, any range of a long and any number of   *)
(* buckets, and about the soft calls (Softcall) by which its realtime half *)
(* is run, for any CPUs, any set of calls and any size of the pool.        *)
(***************************************************************************)
EXTENDS Callout, Softcall, SleepQProofs, SequenceTheorems

-----------------------------------------------------------------------
(* The values of a long, half their number, and the buckets. *)
Times == 0..(TimeMod - 1)
Half  == TimeMod \div 2
Slots == 0..(Buckets - 1)

-----------------------------------------------------------------------
(* Arithmetic on times. *)

(* A range of longs has two halves. *)
LEMMA HalfTwice == Half \in Nat /\ TimeMod \in Nat /\ TimeMod = 2 * Half /\ Half >= 1
<1>1. TimeMod \in Nat /\ TimeMod > 0 /\ TimeMod % 2 = 0
  BY TimeAssumption
<1> QED BY <1>1 DEF Half

(* Reduction modulo TimeMod, for the sums that occur here. *)
LEMMA ModTime ==
  ASSUME NEW x \in Int, 0 <= x, x < 3 * TimeMod
  PROVE  /\ x % TimeMod \in Times
         /\ x % TimeMod \in {x, x - TimeMod, x - 2 * TimeMod}
<1>1. TimeMod \in Nat /\ TimeMod > 0
  BY TimeAssumption
<1>2. x % TimeMod \in Times
  BY <1>1 DEF Times
<1>3. CASE x < TimeMod
  <2>1. x % TimeMod = x
    BY <1>1, <1>3
  <2> QED BY <2>1, <1>2
<1>4. CASE TimeMod <= x /\ x < 2 * TimeMod
  <2>1. x % TimeMod = x - TimeMod
    BY <1>1, <1>4
  <2> QED BY <2>1, <1>2
<1>5. CASE 2 * TimeMod <= x
  <2>1. x % TimeMod = x - 2 * TimeMod
    BY <1>1, <1>5
  <2> QED BY <2>1, <1>2
<1> QED BY <1>1, <1>3, <1>4, <1>5

(* Addition wraps at most once. *)
LEMMA AddIs ==
  ASSUME NEW x \in Times, NEW k \in Times
  PROVE  Add(x, k) \in Times /\ Add(x, k) \in {x + k, x + k - TimeMod}
<1>1. TimeMod \in Nat /\ TimeMod > 0
  BY TimeAssumption
<1>2. /\ (x + k) % TimeMod \in Times
      /\ (x + k) % TimeMod \in {x + k, x + k - TimeMod, x + k - 2 * TimeMod}
  BY <1>1, ModTime DEF Times
<1>3. (x + k) % TimeMod # x + k - 2 * TimeMod
  BY <1>1, <1>2 DEF Times
<1> QED BY <1>2, <1>3 DEF Add

(* The signed difference is the difference, brought into half a range     *)
(* around zero.                                                            *)
LEMMA SDiffIs ==
  ASSUME NEW x \in Times, NEW y \in Times
  PROVE  /\ SDiff(x, y) \in (0 - Half)..(Half - 1)
         /\ SDiff(x, y) \in {x - y, x - y + TimeMod, x - y - TimeMod}
<1>1. TimeMod \in Nat /\ TimeMod > 0 /\ Half \in Nat /\ TimeMod = 2 * Half
  BY TimeAssumption, HalfTwice
<1> DEFINE z == x - y + TimeMod + Half
<1>2. z \in Int /\ 0 <= z /\ z < 3 * TimeMod
  BY <1>1 DEF Times
<1>3. z % TimeMod \in Times /\ z % TimeMod \in {z, z - TimeMod, z - 2 * TimeMod}
  BY <1>2, ModTime
<1>4. SDiff(x, y) = (z % TimeMod) - Half
  BY DEF SDiff, Half
<1> DEFINE m == z % TimeMod
<1>5. m \in Times /\ m \in {z, z - TimeMod, z - 2 * TimeMod} /\ SDiff(x, y) = m - Half
  BY <1>3, <1>4
<1> HIDE DEF m
<1> QED BY <1>1, <1>5 DEF Times

(* The signed difference undoes addition within half a range. *)
LEMMA SDiffAdd ==
  ASSUME NEW x \in Times, NEW k \in 0..(Half - 1)
  PROVE  k \in Times /\ Add(x, k) \in Times /\ SDiff(Add(x, k), x) = k
<1>1. Half \in Nat /\ TimeMod \in Nat /\ TimeMod = 2 * Half
  BY HalfTwice
<1>2. k \in Times
  BY <1>1 DEF Times
<1>3. Add(x, k) \in Times /\ Add(x, k) \in {x + k, x + k - TimeMod}
  BY <1>2, AddIs
<1> DEFINE y == Add(x, k)
<1> HIDE DEF y
<1>4. y \in Times /\ y \in {x + k, x + k - TimeMod}
  BY <1>3 DEF y
<1>5. SDiff(y, x) \in (0 - Half)..(Half - 1) /\ SDiff(y, x) \in {y - x, y - x + TimeMod, y - x - TimeMod}
  BY <1>4, SDiffIs
<1>6. SDiff(y, x) = k
  BY <1>1, <1>4, <1>5 DEF Times
<1> QED BY <1>2, <1>4, <1>6 DEF y

(* A time is reached by adding its difference. *)
LEMMA AddSDiff ==
  ASSUME NEW x \in Times, NEW y \in Times, SDiff(y, x) >= 0
  PROVE  Add(x, SDiff(y, x)) = y
<1>1. Half \in Nat /\ TimeMod \in Nat /\ TimeMod = 2 * Half
  BY HalfTwice
<1>2. /\ SDiff(y, x) \in (0 - Half)..(Half - 1)
      /\ SDiff(y, x) \in {y - x, y - x + TimeMod, y - x - TimeMod}
  BY SDiffIs
<1> DEFINE k == SDiff(y, x)
<1> HIDE DEF k
<1>3. k \in 0..(Half - 1) /\ k \in {y - x, y - x + TimeMod, y - x - TimeMod}
  BY <1>1, <1>2 DEF k
<1>4. k \in Times
  BY <1>1, <1>3 DEF Times
<1>5. Add(x, k) \in Times /\ Add(x, k) \in {x + k, x + k - TimeMod}
  BY <1>4, AddIs
<1>6. Add(x, k) = y
  BY <1>1, <1>3, <1>5 DEF Times
<1> QED BY <1>6 DEF k

(* The bucket of a time. *)
LEMMA SlotOf ==
  ASSUME NEW r \in Times
  PROVE  BucketOf(r) \in Slots
BY TimeAssumption DEF BucketOf, Slots, Times

(* u stands before v in list q. *)
Before(q, u, v) == \E i, j \in 1..Len(q) : i < j /\ q[i] = u /\ q[j] = v

(* The members of a list. *)
LEMMA InList ==
  ASSUME NEW T, NEW q \in Seq(T), NEW s
  PROVE  /\ s \in ToSet(q) <=> \E i \in 1..Len(q) : q[i] = s
         /\ ToSet(q) \subseteq T
<1>1. DOMAIN q = 1..Len(q)
  OBVIOUS
<1>2. \A i \in 1..Len(q) : q[i] \in T
  OBVIOUS
<1> QED BY <1>1, <1>2 DEF ToSet

(* A list in which no struct occurs twice. *)
LEMMA InjectiveIs ==
  ASSUME NEW T, NEW q \in Seq(T)
  PROVE  IsInjective(q) <=> \A i, j \in 1..Len(q) : q[i] = q[j] => i = j
BY DEF IsInjective

(* A struct put at the head of a list. *)
LEMMA PushProperties ==
  ASSUME NEW T, NEW q \in Seq(T), NEW s \in T
  PROVE  /\ <<s>> \o q \in Seq(T)
         /\ ToSet(<<s>> \o q) = ToSet(q) \cup {s}
         /\ IsInjective(q) /\ s \notin ToSet(q) => IsInjective(<<s>> \o q)
         /\ \A u, v : Before(<<s>> \o q, u, v) <=> Before(q, u, v) \/ (u = s /\ v \in ToSet(q))
<1> DEFINE r == <<s>> \o q
<1>1. r \in Seq(T) /\ Len(r) = Len(q) + 1 /\ Len(q) \in Nat
  OBVIOUS
<1>2. r[1] = s /\ \A i \in 1..Len(q) : r[i + 1] = q[i]
  OBVIOUS
<1> HIDE DEF r
<1>3. \A k \in 1..Len(r) : k = 1 \/ (k - 1 \in 1..Len(q) /\ r[k] = q[k - 1])
  <2> SUFFICES ASSUME NEW k \in 1..Len(r), k # 1
               PROVE  k - 1 \in 1..Len(q) /\ r[k] = q[k - 1]
    OBVIOUS
  <2>1. k - 1 \in 1..Len(q) /\ (k - 1) + 1 = k
    BY <1>1
  <2>2. r[(k - 1) + 1] = q[k - 1]
    BY <1>2, <2>1
  <2> QED BY <2>1, <2>2
<1>4. ToSet(r) = ToSet(q) \cup {s}
  <2>1. ASSUME NEW u \in ToSet(r) PROVE u \in ToSet(q) \cup {s}
    <3>1. PICK k \in 1..Len(r) : r[k] = u
      BY <1>1, <2>1, InList
    <3> QED BY <1>2, <1>3, <3>1, InList
  <2>2. ASSUME NEW u \in ToSet(q) PROVE u \in ToSet(r)
    <3>1. PICK i \in 1..Len(q) : q[i] = u
      BY <2>2, InList
    <3>2. i + 1 \in 1..Len(r) /\ r[i + 1] = u
      BY <1>1, <1>2, <3>1
    <3> QED BY <1>1, <3>2, InList
  <2>3. s \in ToSet(r)
    <3>1. 1 \in 1..Len(r)
      BY <1>1
    <3> QED BY <1>1, <1>2, <3>1, InList
  <2> QED BY <2>1, <2>2, <2>3
<1>5. ASSUME IsInjective(q), s \notin ToSet(q) PROVE IsInjective(r)
  <2> SUFFICES ASSUME NEW i \in 1..Len(r), NEW j \in 1..Len(r), r[i] = r[j]
               PROVE  i = j
    BY <1>1, InjectiveIs
  <2>1. \A k \in 1..Len(q) : q[k] # s
    BY <1>5, InList
  <2>2. CASE i = 1 \/ j = 1
    BY <1>2, <1>3, <2>1, <2>2
  <2>3. CASE i # 1 /\ j # 1
    <3>1. /\ i - 1 \in 1..Len(q) /\ j - 1 \in 1..Len(q) /\ q[i - 1] = q[j - 1]
      BY <1>3, <2>3
    <3>2. i - 1 = j - 1
      BY <1>5, <3>1, InjectiveIs
    <3> QED BY <1>1, <3>2
  <2> QED BY <2>2, <2>3
<1>6. ASSUME NEW u, NEW v
      PROVE  Before(r, u, v) <=> Before(q, u, v) \/ (u = s /\ v \in ToSet(q))
  <2>1. ASSUME Before(r, u, v) PROVE Before(q, u, v) \/ (u = s /\ v \in ToSet(q))
    <3>1. PICK i, j \in 1..Len(r) : i < j /\ r[i] = u /\ r[j] = v
      BY <2>1 DEF Before
    <3>2. j - 1 \in 1..Len(q) /\ q[j - 1] = v
      BY <1>1, <1>3, <3>1
    <3>3. CASE i = 1
      BY <1>2, <3>1, <3>2, <3>3, InList
    <3>4. CASE i # 1
      <4>1. i - 1 \in 1..Len(q) /\ q[i - 1] = u /\ i - 1 < j - 1
        BY <1>1, <1>3, <3>1, <3>4
      <4> QED BY <3>2, <4>1 DEF Before
    <3> QED BY <3>3, <3>4
  <2>2. ASSUME Before(q, u, v) PROVE Before(r, u, v)
    <3>1. PICK i, j \in 1..Len(q) : i < j /\ q[i] = u /\ q[j] = v
      BY <2>2 DEF Before
    <3>2. i + 1 \in 1..Len(r) /\ j + 1 \in 1..Len(r) /\ i + 1 < j + 1 /\ r[i + 1] = u /\ r[j + 1] = v
      BY <1>1, <1>2, <3>1
    <3> QED BY <3>2 DEF Before
  <2>3. ASSUME u = s, v \in ToSet(q) PROVE Before(r, u, v)
    <3>1. PICK j \in 1..Len(q) : q[j] = v
      BY <2>3, InList
    <3>2. 1 \in 1..Len(r) /\ j + 1 \in 1..Len(r) /\ 1 < j + 1 /\ r[1] = u /\ r[j + 1] = v
      BY <1>1, <1>2, <2>3, <3>1
    <3> QED BY <3>2 DEF Before
  <2> QED BY <2>1, <2>2, <2>3
<1> QED BY <1>1, <1>4, <1>5, <1>6 DEF r

(* A member of a list has a position. *)
LEMMA PosProperty ==
  ASSUME NEW T, NEW q \in Seq(T), NEW s \in ToSet(q)
  PROVE  PosOf(q, s) \in 1..Len(q) /\ q[PosOf(q, s)] = s
<1>1. \E i \in 1..Len(q) : q[i] = s
  BY InList
<1> QED BY <1>1 DEF PosOf

(* A struct taken out of a list: nothing else is lost, and the order of    *)
(* the others stays.                                                       *)
LEMMA UnlinkProperties ==
  ASSUME NEW T, NEW q \in Seq(T), IsInjective(q), NEW s \in ToSet(q)
  PROVE  /\ Unlink(q, s) \in Seq(T)
         /\ ToSet(Unlink(q, s)) = ToSet(q) \ {s}
         /\ IsInjective(Unlink(q, s))
         /\ \A u, v : Before(Unlink(q, s), u, v) => Before(q, u, v)
<1> DEFINE p == PosOf(q, s)
           r == Unlink(q, s)
<1>1. p \in 1..Len(q) /\ q[p] = s /\ Len(q) \in Nat
  BY PosProperty
<1>2. r = SubSeq(q, 1, p - 1) \o SubSeq(q, p + 1, Len(q))
  BY DEF Unlink, RemoveAt
<1> HIDE DEF p, r
<1> DEFINE a == SubSeq(q, 1, p - 1)
           b == SubSeq(q, p + 1, Len(q))
<1>3. a \in Seq(T) /\ Len(a) = p - 1 /\ \A k \in 1..(p - 1) : a[k] = q[k]
  BY <1>1, SubSeqProperties
<1>4. b \in Seq(T) /\ Len(b) = Len(q) - p /\ \A k \in 1..(Len(q) - p) : b[k] = q[p + k]
  BY <1>1, SubSeqProperties
<1> HIDE DEF a, b
<1>5. r = a \o b
  BY <1>2 DEF a, b
<1>6. /\ r \in Seq(T) /\ Len(r) = Len(q) - 1
      /\ \A k \in 1..Len(r) : r[k] = IF k <= Len(a) THEN a[k] ELSE b[k - Len(a)]
  <2>1. /\ a \o b \in Seq(T) /\ Len(a \o b) = Len(a) + Len(b)
        /\ \A k \in 1..(Len(a) + Len(b)) :
             (a \o b)[k] = IF k <= Len(a) THEN a[k] ELSE b[k - Len(a)]
    BY <1>3, <1>4, ConcatProperties
  <2>2. Len(a) + Len(b) = Len(q) - 1
    BY <1>1, <1>3, <1>4
  <2> QED BY <1>5, <2>1, <2>2
<1> DEFINE Old(k) == IF k < p THEN k ELSE k + 1
<1>7. \A k \in 1..Len(r) : Old(k) \in 1..Len(q) /\ Old(k) # p /\ r[k] = q[Old(k)]
  <2> SUFFICES ASSUME NEW k \in 1..Len(r)
               PROVE  Old(k) \in 1..Len(q) /\ Old(k) # p /\ r[k] = q[Old(k)]
    OBVIOUS
  <2>1. CASE k < p
    BY <1>1, <1>3, <1>6, <2>1
  <2>2. CASE ~(k < p)
    <3>1. k - (p - 1) \in 1..(Len(q) - p)
      BY <1>1, <1>6, <2>2
    <3>2. r[k] = b[k - (p - 1)]
      BY <1>1, <1>3, <1>6, <2>2
    <3>3. b[k - (p - 1)] = q[p + (k - (p - 1))]
      BY <1>4, <3>1
    <3>4. p + (k - (p - 1)) = k + 1
      BY <1>1
    <3> QED BY <1>1, <1>6, <2>2, <3>2, <3>3, <3>4
  <2> QED BY <2>1, <2>2
<1>8. \A j, k \in 1..Len(r) : (j < k <=> Old(j) < Old(k)) /\ (Old(j) = Old(k) => j = k)
  BY <1>1, <1>6
<1>9. \A i \in 1..Len(q) : i # p => \E k \in 1..Len(r) : Old(k) = i
  <2> SUFFICES ASSUME NEW i \in 1..Len(q), i # p
               PROVE  \E k \in 1..Len(r) : Old(k) = i
    OBVIOUS
  <2>1. CASE i < p
    <3>1. i \in 1..Len(r) /\ Old(i) = i
      BY <1>1, <1>6, <2>1
    <3> QED BY <3>1
  <2>2. CASE i > p
    <3>1. i - 1 \in 1..Len(r) /\ Old(i - 1) = i
      BY <1>1, <1>6, <2>2
    <3> QED BY <3>1
  <2> QED BY <1>1, <2>1, <2>2
<1> HIDE DEF Old
<1>10. \A i, j \in 1..Len(q) : q[i] = q[j] => i = j
  BY InjectiveIs
<1>11. ToSet(r) = ToSet(q) \ {s}
  <2>1. ASSUME NEW u \in ToSet(r) PROVE u \in ToSet(q) /\ u # s
    <3>1. PICK k \in 1..Len(r) : r[k] = u
      BY <1>6, <2>1, InList
    <3>2. Old(k) \in 1..Len(q) /\ Old(k) # p /\ q[Old(k)] = u
      BY <1>7, <3>1
    <3> QED BY <1>1, <1>10, <3>2, InList
  <2>2. ASSUME NEW u \in ToSet(q), u # s PROVE u \in ToSet(r)
    <3>1. PICK i \in 1..Len(q) : q[i] = u
      BY <2>2, InList
    <3>2. PICK k \in 1..Len(r) : Old(k) = i
      BY <1>1, <1>9, <2>2, <3>1
    <3>3. r[k] = u
      BY <1>7, <3>1, <3>2
    <3> QED BY <1>6, <3>3, InList
  <2> QED BY <2>1, <2>2
<1>12. IsInjective(r)
  BY <1>6, <1>7, <1>8, <1>10, InjectiveIs
<1>13. \A u, v : Before(r, u, v) => Before(q, u, v)
  BY <1>7, <1>8 DEF Before
<1> QED BY <1>6, <1>11, <1>12, <1>13 DEF r

(* The part of a bucket behind s, where a scan goes on. *)
LEMMA BehindProperties ==
  ASSUME NEW T, NEW q \in Seq(T), IsInjective(q), NEW s \in ToSet(q)
  PROVE  /\ Behind(q, s) \in Seq(T)
         /\ \A u : u \in ToSet(Behind(q, s)) <=> Before(q, s, u)
         /\ \A u, v : Before(q, u, v) /\ v \in ToSet(Behind(q, s)) =>
                        u = s \/ Before(q, u, s) \/ Before(Behind(q, s), u, v)
<1> DEFINE p == PosOf(q, s)
           b == Behind(q, s)
<1>1. p \in 1..Len(q) /\ q[p] = s /\ Len(q) \in Nat
  BY PosProperty
<1>2. b = SubSeq(q, p + 1, Len(q))
  BY DEF Behind
<1> HIDE DEF p, b
<1>3. b \in Seq(T) /\ Len(b) = Len(q) - p /\ \A k \in 1..(Len(q) - p) : b[k] = q[p + k]
  BY <1>1, <1>2, SubSeqProperties
<1>4. \A i, j \in 1..Len(q) : q[i] = q[j] => i = j
  BY InjectiveIs
<1>5. ASSUME NEW u PROVE u \in ToSet(b) <=> Before(q, s, u)
  <2>1. ASSUME u \in ToSet(b) PROVE Before(q, s, u)
    <3>1. PICK k \in 1..Len(b) : b[k] = u
      BY <1>3, <2>1, InList
    <3>2. p + k \in 1..Len(q) /\ p < p + k /\ q[p + k] = u
      BY <1>1, <1>3, <3>1
    <3> QED BY <1>1, <3>2 DEF Before
  <2>2. ASSUME Before(q, s, u) PROVE u \in ToSet(b)
    <3>1. PICK i, j \in 1..Len(q) : i < j /\ q[i] = s /\ q[j] = u
      BY <2>2 DEF Before
    <3>2. i = p
      BY <1>1, <1>4, <3>1
    <3>3. j - p \in 1..(Len(q) - p) /\ p + (j - p) = j
      BY <1>1, <3>1, <3>2
    <3>4. b[j - p] = u
      BY <1>3, <3>1, <3>3
    <3> QED BY <1>3, <3>3, <3>4, InList
  <2> QED BY <2>1, <2>2
<1>6. ASSUME NEW u, NEW v, Before(q, u, v), v \in ToSet(b)
      PROVE  u = s \/ Before(q, u, s) \/ Before(b, u, v)
  <2>1. PICK i, j \in 1..Len(q) : i < j /\ q[i] = u /\ q[j] = v
    BY <1>6 DEF Before
  <2>2. CASE i < p
    BY <1>1, <2>1, <2>2 DEF Before
  <2>3. CASE i = p
    BY <1>1, <2>1, <2>3
  <2>4. CASE i > p
    <3>1. /\ i - p \in 1..(Len(q) - p) /\ p + (i - p) = i
          /\ j - p \in 1..(Len(q) - p) /\ p + (j - p) = j /\ i - p < j - p
      BY <1>1, <2>1, <2>4
    <3>2. b[i - p] = u /\ b[j - p] = v
      BY <1>3, <2>1, <3>1
    <3> QED BY <1>3, <3>1, <3>2 DEF Before
  <2> QED BY <1>1, <2>2, <2>3, <2>4
<1> QED BY <1>3, <1>5, <1>6 DEF b

(* The ids timeout() hands out. *)
Ids == Slots \X Nat

-----------------------------------------------------------------------
(* The operators of the model. *)

(* The times ReadyTimes looks at are those from start up to now. *)
LEMMA ReadyTimesIs ==
  ASSUME NEW start \in Times, NEW now \in Times, NEW r
  PROVE  r \in ReadyTimes(start, now) <=>
           /\ r \in Times /\ 0 <= SDiff(r, start) /\ SDiff(r, start) <= SDiff(now, start)
           /\ \E s \in ToSet(cs_bucket[BucketOf(r)]) : Ready(s, r)
<1>1. Half \in Nat /\ SDiff(now, start) \in (0 - Half)..(Half - 1)
  BY HalfTwice, SDiffIs
<1>2. ASSUME NEW k \in 0..SDiff(now, start)
      PROVE  Add(start, k) \in Times /\ SDiff(Add(start, k), start) = k
  <2>1. k \in 0..(Half - 1)
    BY <1>1, <1>2
  <2> QED BY <2>1, SDiffAdd
<1>3. ASSUME r \in ReadyTimes(start, now)
      PROVE  r \in Times /\ 0 <= SDiff(r, start) /\ SDiff(r, start) <= SDiff(now, start)
  <2>1. PICK k \in 0..SDiff(now, start) : r = Add(start, k)
    BY <1>3 DEF ReadyTimes
  <2> QED BY <1>1, <1>2, <2>1
<1>4. ASSUME r \in Times, 0 <= SDiff(r, start), SDiff(r, start) <= SDiff(now, start)
      PROVE  \E k \in 0..SDiff(now, start) : r = Add(start, k)
  <2>1. SDiff(r, start) \in (0 - Half)..(Half - 1)
    BY <1>4, SDiffIs
  <2>2. SDiff(r, start) \in 0..SDiff(now, start)
    BY <1>1, <1>4, <2>1
  <2>3. Add(start, SDiff(r, start)) = r
    BY <1>4, AddSDiff
  <2> QED BY <2>2, <2>3
<1> QED BY <1>3, <1>4 DEF ReadyTimes

(* The earliest of some times is one of them. *)
LEMMA EarliestIs ==
  ASSUME NEW start \in Times, NEW R \in SUBSET Times, R # {}
  PROVE  /\ Earliest(R, start) \in R
         /\ \A q \in R : SDiff(Earliest(R, start), start) <= SDiff(q, start)
<1>1. Half \in Nat /\ \A r \in R : SDiff(r, start) \in (0 - Half)..(Half - 1)
  BY HalfTwice, SDiffIs
<1> DEFINE N == {SDiff(r, start) + Half : r \in R}
<1>2. N \in SUBSET Nat /\ N # {}
  BY <1>1
<1>3. PICK n \in N : \A m \in N : n <= m
  BY <1>2, LeastNatural
<1>4. PICK r \in R : n = SDiff(r, start) + Half
  BY <1>3
<1>5. \A q \in R : SDiff(r, start) <= SDiff(q, start)
  <2> SUFFICES ASSUME NEW q \in R PROVE SDiff(r, start) <= SDiff(q, start)
    OBVIOUS
  <2>1. SDiff(r, start) + Half <= SDiff(q, start) + Half
    BY <1>3, <1>4
  <2> QED BY <1>1, <2>1
<1> QED BY <1>4, <1>5 DEF Earliest

(* The scan takes the first struct that is ready. *)
LEMMA FirstReadyIs ==
  ASSUME NEW q \in Seq(Structs), IsInjective(q), NEW r, HasReady(q, r)
  PROVE  /\ FirstReady(q, r) \in ToSet(q) /\ Ready(FirstReady(q, r), r)
         /\ \A u : Before(q, u, FirstReady(q, r)) => ~Ready(u, r)
<1> DEFINE N == {i \in 1..Len(q) : Ready(q[i], r)}
<1>1. N \in SUBSET Nat /\ N # {} /\ Len(q) \in Nat
  BY DEF HasReady
<1>2. PICK n \in N : \A m \in N : n <= m
  BY <1>1, LeastNatural
<1>3. n \in 1..Len(q) /\ Ready(q[n], r) /\ \A j \in 1..(n - 1) : ~Ready(q[j], r)
  <2> SUFFICES ASSUME NEW j \in 1..(n - 1), Ready(q[j], r) PROVE FALSE
    BY <1>2
  <2>1. j \in N /\ ~(n <= j)
    BY <1>1, <1>2
  <2> QED BY <1>2, <2>1
<1> DEFINE k == CHOOSE i \in 1..Len(q) : Ready(q[i], r) /\ \A j \in 1..(i - 1) : ~Ready(q[j], r)
<1>4. k \in 1..Len(q) /\ Ready(q[k], r) /\ \A j \in 1..(k - 1) : ~Ready(q[j], r)
  BY <1>3
<1>5. FirstReady(q, r) = q[k]
  BY DEF FirstReady
<1> HIDE DEF k, N
<1>6. q[k] \in ToSet(q)
  BY <1>4, InList
<1>7. ASSUME NEW u, Before(q, u, q[k]) PROVE ~Ready(u, r)
  <2>1. PICK i, j \in 1..Len(q) : i < j /\ q[i] = u /\ q[j] = q[k]
    BY <1>7 DEF Before
  <2>2. j = k
    BY <1>4, <2>1, InjectiveIs
  <2>3. i \in 1..(k - 1)
    BY <1>1, <1>4, <2>1, <2>2
  <2> QED BY <1>4, <2>1, <2>3
<1> QED BY <1>4, <1>5, <1>6, <1>7

(* A callout id nobody holds exists: there are fewer clients than numbers. *)
LEMMA FreshIdIs ==
  ASSUME NEW b \in Slots, handle \in [Clients -> Ids]
  PROVE  /\ FreshId(b) \in Ids /\ FreshId(b)[1] = b /\ FreshId(b) # NoId
         /\ \A x \in Clients : handle[x] # FreshId(b)
<1> DEFINE n == Cardinality(Clients)
           Free == {k \in IdRange : \A x \in Clients : handle[x] # <<b, k>>}
<1>1. n \in Nat /\ IsFiniteSet(Clients)
  BY SetsAssumption, FS_CardinalityType
<1>2. IdRange = 1..(n + 1)
  BY DEF IdRange
<1>3. Free # {}
  <2> SUFFICES ASSUME \A k \in 1..(n + 1) : \E x \in Clients : handle[x] = <<b, k>>
               PROVE  FALSE
    BY <1>2
  <2> DEFINE g == [k \in 1..(n + 1) |-> CHOOSE x \in Clients : handle[x] = <<b, k>>]
  <2>1. g \in [1..(n + 1) -> Clients] /\ \A k \in 1..(n + 1) : handle[g[k]] = <<b, k>>
    OBVIOUS
  <2>2. \A i, j \in 1..(n + 1) : g[i] = g[j] => i = j
    <3> HIDE DEF g
    <3> SUFFICES ASSUME NEW i \in 1..(n + 1), NEW j \in 1..(n + 1), g[i] = g[j]
                 PROVE  i = j
      OBVIOUS
    <3>1. <<b, i>> = <<b, j>>
      BY <2>1
    <3> QED BY <3>1
  <2>3. IsFiniteSet(1..(n + 1)) /\ Cardinality(1..(n + 1)) = n + 1
    BY <1>1, FS_Interval
  <2>4. Cardinality(Clients) < Cardinality(1..(n + 1))
    BY <1>1, <2>3
  <2> HIDE DEF g, n
  <2>5. \E i, j \in 1..(n + 1) : i # j /\ g[i] = g[j]
    BY <1>1, <2>1, <2>3, <2>4, FS_PigeonHole
  <2> QED BY <2>2, <2>5
<1>4. Free \in SUBSET Nat
  BY <1>1, <1>2
<1>5. PICK k \in Free : \A j \in Free : k <= j
  BY <1>3, <1>4, LeastNatural
<1>6. \A m \in 1..(k - 1) : \E x \in Clients : handle[x] = <<b, m>>
  <2> SUFFICES ASSUME NEW m \in 1..(k - 1), \A x \in Clients : handle[x] # <<b, m>>
               PROVE  FALSE
    OBVIOUS
  <2>1. k \in 1..(n + 1)
    BY <1>2, <1>5
  <2>2. m \in 1..(n + 1) /\ ~(k <= m)
    BY <1>1, <2>1
  <2>3. m \in Free
    BY <1>2, <2>2
  <2> QED BY <1>5, <2>2, <2>3
<1> DEFINE P(i) == /\ \A x \in Clients : handle[x] # <<b, i>>
                   /\ \A m \in 1..(i - 1) : \E x \in Clients : handle[x] = <<b, m>>
           i == CHOOSE j \in IdRange : P(j)
<1>7. k \in IdRange /\ P(k)
  BY <1>5, <1>6
<1>8. i \in IdRange /\ P(i)
  <2> HIDE DEF P
  <2> QED BY <1>7
<1>9. FreshId(b) = <<b, i>>
  BY DEF FreshId
<1> HIDE DEF i, n, Free
<1>10. i \in Nat /\ i # 0
  BY <1>1, <1>2, <1>8
<1>11. <<b, i>> \in Ids /\ <<b, i>>[1] = b /\ <<b, i>> # NoId
  BY <1>10 DEF Ids, NoId
<1> QED BY <1>8, <1>9, <1>11

(* callout_save moves nothing: every callout is skipped. *)
LEMMA NothingSaved ==
  ASSUME NEW q \in Seq(Structs)
  PROVE  /\ Sublist(q, SkippedIn(q)) = q
         /\ Reverse(Sublist(q, (1..Len(q)) \ SkippedIn(q))) = << >>
<1>1. SkippedIn(q) = 1..Len(q) /\ Len(q) \in Nat
  BY DEF SkippedIn, SaveSkips
<1>2. \A i \in 1..Len(q) : {j \in 1..Len(q) : j <= i} = 1..i
  BY <1>1
<1>3. \A i \in 1..Len(q) : Cardinality({j \in 1..Len(q) : j <= i}) = i
  <2> SUFFICES ASSUME NEW i \in 1..Len(q) PROVE Cardinality(1..i) = i
    BY <1>2
  <2>1. i \in Nat
    BY <1>1
  <2> QED BY <2>1, FS_Interval
<1>4. Cardinality(1..Len(q)) = Len(q)
  BY <1>1, FS_Interval
<1> DEFINE At(n) == CHOOSE i \in 1..Len(q) : Cardinality({j \in 1..Len(q) : j <= i}) = n
<1>5. \A n \in 1..Len(q) : At(n) = n
  <2> SUFFICES ASSUME NEW n \in 1..Len(q) PROVE At(n) = n
    OBVIOUS
  <2>1. Cardinality({j \in 1..Len(q) : j <= n}) = n
    BY <1>3
  <2>2. \A i \in 1..Len(q) : Cardinality({j \in 1..Len(q) : j <= i}) = n => i = n
    BY <1>3
  <2> QED BY <2>1, <2>2
<1>6. Sublist(q, SkippedIn(q)) = [n \in 1..Len(q) |-> q[n]]
  <2>1. Sublist(q, 1..Len(q)) = [n \in 1..Cardinality(1..Len(q)) |-> q[At(n)]]
    BY DEF Sublist
  <2> HIDE DEF At
  <2> QED BY <1>1, <1>4, <1>5, <2>1
<1>7. Sublist(q, {}) = << >>
  <2>1. Cardinality({}) = 0
    BY FS_EmptySet
  <2> QED BY <2>1 DEF Sublist
<1>8. (1..Len(q)) \ SkippedIn(q) = {}
  BY <1>1
<1>9. Reverse(<< >>) = << >>
  BY DEF Reverse
<1> QED BY <1>6, <1>7, <1>8, <1>9

-----------------------------------------------------------------------
(* The invariants. *)

(* The values the state variables range over. *)
Fields == [c_id : Ids, executing : BOOLEAN, unsafe : BOOLEAN, c_runtime : Times,
           c_arg : Clients \cup {None}, c_executor : Executors \cup {None}]
EPCs == {"start", "idle", "wait", "woken", "enter", "func", "done", "cprwait"}
CSTs == {"none", "armed", "delwait", "delwoken", "retake"}
NothingIn == [b \in Slots |-> << >>]

(* The types, in full. *)
Typed ==
  /\ lbolt \in Times /\ cs_curtime \in Times /\ cs_runtime \in Times /\ ticked \in BOOLEAN
  /\ cs_bucket \in [Slots -> Seq(Structs)] /\ cs_freelist \in Seq(Structs)
  /\ allocated \subseteq Structs /\ c \in [Structs -> Fields]
  /\ epc \in [Executors -> EPCs] /\ ecp \in [Executors -> Structs \cup {None}]
  /\ ert \in [Executors -> Times] /\ soft \in BOOLEAN
  /\ cst \in [Clients -> CSTs] /\ handle \in [Clients -> Ids]
  /\ dcp \in [Clients -> Structs \cup {None}]
  /\ unsafe_driver \in Clients \cup Executors \cup {None}
  /\ cpr_stop \in BOOLEAN
  /\ saved = << >> \/ \E r \in Times : saved = <<r, NothingIn>>
  /\ due \in [Clients -> Times] /\ runs \in [Clients -> Nat]

(* A struct that is not in the table has been cleared. *)
FreeOK == \A s \in Structs : s \notin InTable => c[s] = FreeStruct
(* A callout in the table is that of a client which holds its id and is    *)
(* not in a return from untimeout(); a client has at most one.             *)
OwnOK ==
  /\ \A s \in InTable :
       /\ c[s].c_arg \in Clients /\ c[s].c_id = handle[c[s].c_arg]
       /\ cst[c[s].c_arg] \in {"armed", "delwait", "delwoken"}
  /\ \A s, t \in InTable : c[s].c_arg = c[t].c_arg => s = t
(* Ids in clients' hands are distinct. *)
IdsOK ==
  /\ \A x \in Clients : cst[x] # "none" => handle[x] # NoId
  /\ \A x, y \in Clients : cst[x] # "none" /\ cst[y] # "none" /\ handle[x] = handle[y] => x = y
(* Executors from the taking of a callout to its deletion. *)
Busy(e) == epc[e] \in {"enter", "func", "done", "cprwait"}
(* An executor and the callout it runs point at each other: the executing  *)
(* bit and c_executor are set for just the callouts in executors' hands.   *)
ExecOK ==
  /\ \A e \in Executors :
       /\ Busy(e) <=> ecp[e] # None
       /\ ecp[e] # None => /\ ecp[e] \in InTable /\ c[ecp[e]].executing
                           /\ c[ecp[e]].c_executor = e /\ c[ecp[e]].c_runtime = ert[e]
  /\ \A s \in InTable : c[s].executing =>
       c[s].c_executor \in Executors /\ ecp[c[s].c_executor] = s
(* The function of callout s has been called. *)
Called(s) == c[s].executing /\ epc[c[s].c_executor] # "enter"
(* How often the function of a client has been called: once if its callout *)
(* is gone or its function has been entered, else not yet.                 *)
RunsOK ==
  /\ \A s \in InTable : runs[c[s].c_arg] = IF Called(s) THEN 1 ELSE 0
  /\ \A x \in Clients : cst[x] # "none" /\ (\A s \in InTable : c[s].c_arg # x) => runs[x] = 1
(* A client waits in callout_delete() for its own callout only, and sleeps *)
(* only while that is still executing.                                     *)
WaitOK ==
  \A x \in Clients :
    /\ cst[x] \in {"delwait", "delwoken"} =>
         /\ dcp[x] \in Structs
         /\ \A s \in InTable : c[s].c_arg = x => s = dcp[x] /\ c[s].executing
    /\ cst[x] = "delwait" => dcp[x] \in InTable /\ c[dcp[x]].c_arg = x
(* The inductive invariant, without the times. *)
IInv == Typed /\ StructsConserved /\ FreeOK /\ OwnOK /\ IdsOK /\ ExecOK /\ RunsOK /\ WaitOK

(* callout_schedule() is at most one tick behind lbolt. *)
ClockOK == SDiff(lbolt, cs_curtime) \in {0, 1} /\ (~ticked => lbolt = cs_curtime)
(* The times from which the table is or will be scanned: cs_runtime, and   *)
(* the one callout_restore() will put back.                                *)
TableTimes == {cs_runtime} \cup (IF saved = << >> THEN {} ELSE {saved[1]})
(* The scans are within MaxLag ticks of the clock and at most one tick     *)
(* ahead; an executor runs only what is due.                               *)
LagOK ==
  /\ \A r \in TableTimes : SDiff(lbolt, r) \in -1..MaxLag /\ SDiff(cs_curtime, r) >= -1
  /\ \A e \in Executors : ecp[e] # None =>
       SDiff(lbolt, ert[e]) \in 0..MaxLag /\ SDiff(cs_curtime, ert[e]) >= 0
(* A callout still to run is not behind a scan, and no further ahead of    *)
(* the clock than a delay allows.                                          *)
PendOK ==
  \A s \in InTable : ~c[s].executing =>
    /\ \A r \in TableTimes : SDiff(c[s].c_runtime, r) >= 0
    /\ \E d \in Deltas \cup {1} : SDiff(c[s].c_runtime, lbolt) \in (-MaxLag)..d
(* A callout runs at the time asked for or one tick later. *)
DueOK ==
  \A s \in InTable :
    (c[s].executing => epc[c[s].c_executor] \in {"enter", "func"}) =>
      SDiff(c[s].c_runtime, due[c[s].c_arg]) \in {0, 1}
(* What an executor has passed in its bucket is not ready at its time. *)
AheadOK ==
  \A e \in Executors : ecp[e] # None =>
    \A u \in Structs : Before(cs_bucket[BucketOf(ert[e])], u, ecp[e]) => ~Ready(u, ert[e])
(* The inductive invariant about times. *)
TimeInv == ClockOK /\ LagOK /\ PendOK /\ DueOK /\ AheadOK

-----------------------------------------------------------------------
(* The structs in the table. *)
LEMMA InTableIs ==
  ASSUME NEW s
  PROVE  s \in InTable <=> \E b \in Slots : s \in ToSet(cs_bucket[b])
BY DEF InTable, Slots

(* The structs in the table after a step. *)
LEMMA InTableIsNext ==
  ASSUME NEW s
  PROVE  s \in InTable' <=> \E b \in Slots : s \in ToSet(cs_bucket'[b])
BY DEF InTable, Slots

(* Nothing is saved aside while a suspend lasts. *)
LEMMA SavedEmpty == Typed => Saved = {}
<1> SUFFICES ASSUME Typed, saved # << >> PROVE Saved = {}
  BY DEF Saved
<1>1. PICK r \in Times : saved = <<r, NothingIn>>
  BY DEF Typed
<1>2. \A b \in Slots : saved[2][b] = << >>
  BY <1>1 DEF NothingIn
<1>3. ToSet(<< >>) = {}
  BY DEF ToSet
<1> QED BY <1>2, <1>3 DEF Saved, Slots

(* Where a struct of the table is. *)
LEMMA Located ==
  ASSUME Typed, StructsConserved, NEW s \in InTable
  PROVE  /\ s \in Structs /\ s \in allocated /\ s \notin ToSet(cs_freelist)
         /\ c[s] \in Fields
         /\ BucketOf(c[s].c_runtime) \in Slots /\ s \in ToSet(cs_bucket[BucketOf(c[s].c_runtime)])
         /\ BucketOf(c[s].c_runtime) = c[s].c_id[1]
         /\ \A b \in Slots : s \in ToSet(cs_bucket[b]) => b = BucketOf(c[s].c_runtime)
<1>1. PICK b \in Slots : s \in ToSet(cs_bucket[b])
  BY InTableIs
<1>2. cs_bucket[b] \in Seq(Structs)
  BY DEF Typed
<1>3. s \in Structs
  BY <1>1, <1>2, InList
<1>4. \A d \in Slots : s \in ToSet(cs_bucket[d]) => BucketOf(c[s].c_runtime) = d /\ c[s].c_id[1] = d
  BY DEF StructsConserved, Slots
<1>5. s \in allocated /\ s \notin ToSet(cs_freelist)
  BY DEF StructsConserved
<1>6. c[s] \in Fields
  BY <1>3 DEF Typed
<1> QED BY <1>1, <1>3, <1>4, <1>5, <1>6

(* The same after a step. *)
LEMMA SavedEmptyNext == Typed' => Saved' = {}
<1> SUFFICES ASSUME Typed', saved' # << >> PROVE Saved' = {}
  BY DEF Saved
<1>1. PICK r \in Times : saved' = <<r, NothingIn>>
  BY DEF Typed
<1>2. \A b \in Slots : saved'[2][b] = << >>
  BY <1>1 DEF NothingIn
<1>3. ToSet(<< >>) = {}
  BY DEF ToSet
<1> QED BY <1>2, <1>3 DEF Saved, Slots

(* A cleared struct. *)
LEMMA FreeStructType == FreeStruct \in Fields /\ ~FreeStruct.executing /\ FreeStruct.c_id = NoId
<1>1. NoId \in Ids
  BY TimeAssumption DEF NoId, Ids, Slots
<1>2. 0 \in Times
  BY TimeAssumption DEF Times
<1> QED BY <1>1, <1>2 DEF FreeStruct, Fields

(* Constants that are times and ids. *)
LEMMA ZeroIsTime == 0 \in Times /\ 1 \in Times /\ NoId \in Ids
<1>1. TimeMod \in Nat /\ TimeMod >= 2
  BY HalfTwice
<1> QED BY <1>1, TimeAssumption DEF Times, NoId, Ids, Slots

(* The invariant holds at the start. *)
LEMMA InitIInv == Init => IInv
<1> SUFFICES ASSUME Init PROVE IInv
  OBVIOUS
<1>1. InTable = {} /\ Saved = {} /\ ToSet(cs_freelist) = {}
  <2>1. ToSet(<< >>) = {}
    BY DEF ToSet
  <2> QED BY <2>1 DEF Init, InTable, Saved
<1>2. Typed
  <2>1. StartTime \in Times
    BY TimeAssumption DEF Times
  <2>2. cs_bucket \in [Slots -> Seq(Structs)] /\ cs_freelist \in Seq(Structs)
    BY DEF Init, Slots
  <2>3. epc \in [Executors -> EPCs] /\ ecp \in [Executors -> Structs \cup {None}]
    BY DEF Init, EPCs
  <2>4. c \in [Structs -> Fields]
    BY FreeStructType DEF Init
  <2>5. cst \in [Clients -> CSTs] /\ dcp \in [Clients -> Structs \cup {None}]
    BY DEF Init, CSTs
  <2>6. ert \in [Executors -> Times] /\ handle \in [Clients -> Ids] /\ due \in [Clients -> Times]
    BY ZeroIsTime DEF Init
  <2> QED BY <2>1, <2>2, <2>3, <2>4, <2>5, <2>6 DEF Typed, Init
<1>3. StructsConserved
  <2>1. \A b \in 0..(Buckets - 1) : cs_bucket[b] = << >> /\ ToSet(cs_bucket[b]) = {}
    BY DEF Init, ToSet
  <2>2. IsInjective(<< >>)
    BY DEF IsInjective
  <2> QED BY <1>1, <2>1, <2>2 DEF Init, StructsConserved
<1>4. FreeOK /\ OwnOK /\ IdsOK /\ RunsOK /\ WaitOK
  BY <1>1 DEF Init, FreeOK, OwnOK, IdsOK, RunsOK, WaitOK
<1>5. ExecOK
  BY <1>1, TimeAssumption DEF Init, ExecOK, Busy
<1> QED BY <1>2, <1>3, <1>4, <1>5 DEF IInv

(* A step that leaves the table, the free list and the structs alone. *)
LEMMA ListsKept ==
  ASSUME Typed, Typed', StructsConserved, UNCHANGED <<cs_bucket, cs_freelist, allocated, c>>
  PROVE  StructsConserved' /\ InTable' = InTable
<1>1. Saved = {} /\ Saved' = {}
  BY SavedEmpty, SavedEmptyNext
<1>2. InTable' = InTable
  BY DEF InTable
<1> QED BY <1>1, <1>2 DEF StructsConserved

(* A step of the clock, of CPR, of an executor outside callout_execute's   *)
(* scan: no callout changes hands.                                         *)
LEMMA QuietKeeps ==
  ASSUME IInv, Typed',
         UNCHANGED <<cs_bucket, cs_freelist, allocated, c, ecp, ert, cst, handle, dcp, runs>>,
         \A e \in Executors : (Busy(e)' <=> Busy(e)) /\ (epc'[e] = "enter" <=> epc[e] = "enter")
  PROVE  IInv'
<1>1. StructsConserved' /\ InTable' = InTable
  BY ListsKept DEF IInv
<1>2. FreeOK' /\ OwnOK' /\ IdsOK' /\ WaitOK'
  BY <1>1 DEF IInv, FreeOK, OwnOK, IdsOK, WaitOK
<1>3. ExecOK'
  BY <1>1 DEF IInv, ExecOK
<1>4. RunsOK'
  <2>1. \A s \in InTable : Called(s)' <=> Called(s)
    BY DEF IInv, ExecOK, Called
  <2> QED BY <1>1, <2>1 DEF IInv, RunsOK
<1> QED BY <1>1, <1>2, <1>3, <1>4 DEF IInv

(* untimeout() returns, or a client drops its id, when no callout of the   *)
(* client is left in the table.                                            *)
LEMMA DisarmKeeps ==
  ASSUME IInv, NEW x \in Clients, Disarm(x), \A s \in InTable : c[s].c_arg # x,
         UNCHANGED <<tvars, svars, evars, cpr_stop, saved>>,
         unsafe_driver' \in Clients \cup Executors \cup {None}
  PROVE  IInv'
<1>1. Typed'
  <2>1. /\ cst' = [cst EXCEPT ![x] = "none"] /\ handle' = [handle EXCEPT ![x] = NoId]
        /\ dcp' = [dcp EXCEPT ![x] = None]
        /\ due' = [due EXCEPT ![x] = 0] /\ runs' = [runs EXCEPT ![x] = 0]
    BY DEF Disarm
  <2>2. /\ cst' \in [Clients -> CSTs] /\ handle' \in [Clients -> Ids]
        /\ dcp' \in [Clients -> Structs \cup {None}]
        /\ due' \in [Clients -> Times] /\ runs' \in [Clients -> Nat]
    BY <2>1, ZeroIsTime DEF IInv, Typed, CSTs
  <2> QED BY <2>2 DEF IInv, Typed, tvars, svars, evars
<1>2. StructsConserved' /\ InTable' = InTable
  BY <1>1, ListsKept DEF IInv, svars
<1>3. /\ \A y \in Clients : y # x => /\ cst'[y] = cst[y] /\ handle'[y] = handle[y]
                                     /\ dcp'[y] = dcp[y] /\ runs'[y] = runs[y]
      /\ cst'[x] = "none"
      /\ UNCHANGED <<c, ecp, ert, epc>>
  BY DEF IInv, Typed, Disarm, svars, evars
<1>4. FreeOK' /\ OwnOK'
  BY <1>2, <1>3 DEF IInv, FreeOK, OwnOK
<1>5. IdsOK' /\ WaitOK'
  BY <1>2, <1>3 DEF IInv, IdsOK, WaitOK
<1>6. ExecOK' /\ RunsOK'
  BY <1>2, <1>3 DEF IInv, ExecOK, RunsOK, OwnOK, Busy, Called
<1> QED BY <1>1, <1>2, <1>4, <1>5, <1>6 DEF IInv

-----------------------------------------------------------------------
(* What the steps do to the lists. *)

(* No bucket links a struct twice. *)
Injective == \A b \in Slots : IsInjective(cs_bucket[b])

(* That is part of StructsConserved. *)
LEMMA ListsInjective == StructsConserved => Injective
BY DEF StructsConserved, Injective, Slots

(* What callout_insert's two stores do to the table. *)
LEMMA InsertTable ==
  ASSUME Typed, Injective, NEW b \in Slots, NEW s \in Structs, s \notin InTable,
         cs_bucket' = [cs_bucket EXCEPT ![b] = <<s>> \o @]
  PROVE  /\ cs_bucket' \in [Slots -> Seq(Structs)] /\ Injective'
         /\ InTable' = InTable \cup {s}
         /\ ToSet(cs_bucket'[b]) = ToSet(cs_bucket[b]) \cup {s}
         /\ \A d \in Slots : d # b => cs_bucket'[d] = cs_bucket[d]
         /\ \A d \in Slots : \A u, v : Before(cs_bucket'[d], u, v) =>
              Before(cs_bucket[d], u, v) \/ u = s
<1> DEFINE q == cs_bucket[b]
<1>1. q \in Seq(Structs) /\ IsInjective(q) /\ s \notin ToSet(q)
  BY InTableIs DEF Typed, Injective
<1>2. cs_bucket'[b] = <<s>> \o q /\ \A d \in Slots : d # b => cs_bucket'[d] = cs_bucket[d]
  BY DEF Typed
<1> HIDE DEF q
<1>3. /\ <<s>> \o q \in Seq(Structs) /\ ToSet(<<s>> \o q) = ToSet(q) \cup {s}
      /\ IsInjective(<<s>> \o q)
      /\ \A u, v : Before(<<s>> \o q, u, v) <=> Before(q, u, v) \/ (u = s /\ v \in ToSet(q))
  BY <1>1, PushProperties
<1>4. cs_bucket' \in [Slots -> Seq(Structs)]
  <2>1. cs_bucket' = [cs_bucket EXCEPT ![b] = <<s>> \o q]
    BY DEF q
  <2> QED BY <1>3, <2>1 DEF Typed
<1>5. Injective'
  BY <1>2, <1>3 DEF Injective
<1>6. ToSet(cs_bucket'[b]) = ToSet(cs_bucket[b]) \cup {s}
  BY <1>2, <1>3 DEF q
<1>7. InTable' = InTable \cup {s}
  <2>1. ASSUME NEW t PROVE t \in InTable' <=> t \in InTable \/ t = s
    <3>1. \A d \in Slots : t \in ToSet(cs_bucket'[d]) <=> t \in ToSet(cs_bucket[d]) \/ (d = b /\ t = s)
      BY <1>2, <1>6
    <3> QED BY <3>1, InTableIs, InTableIsNext
  <2> QED BY <2>1
<1>8. \A d \in Slots : \A u, v : Before(cs_bucket'[d], u, v) => Before(cs_bucket[d], u, v) \/ u = s
  <2> SUFFICES ASSUME NEW d \in Slots, NEW u, NEW v, Before(cs_bucket'[d], u, v)
               PROVE  Before(cs_bucket[d], u, v) \/ u = s
    OBVIOUS
  <2>1. CASE d = b
    BY <1>2, <1>3, <2>1 DEF q
  <2>2. CASE d # b
    BY <1>2, <2>2
  <2> QED BY <2>1, <2>2
<1> QED BY <1>2, <1>4, <1>5, <1>6, <1>7, <1>8

(* What unlinking a struct does to the table. *)
LEMMA RemoveTable ==
  ASSUME Typed, StructsConserved, NEW b \in Slots, NEW s \in ToSet(cs_bucket[b]),
         cs_bucket' = [cs_bucket EXCEPT ![b] = Unlink(@, s)]
  PROVE  /\ cs_bucket' \in [Slots -> Seq(Structs)] /\ Injective'
         /\ InTable' = InTable \ {s}
         /\ \A d \in Slots : ToSet(cs_bucket'[d]) = ToSet(cs_bucket[d]) \ {s}
         /\ \A d \in Slots : \A u, v : Before(cs_bucket'[d], u, v) => Before(cs_bucket[d], u, v)
<1> DEFINE q == cs_bucket[b]
<1>0. Injective
  BY ListsInjective
<1>1. q \in Seq(Structs) /\ IsInjective(q) /\ s \in ToSet(q)
  BY <1>0 DEF Typed, Injective
<1>2. cs_bucket'[b] = Unlink(q, s) /\ \A d \in Slots : d # b => cs_bucket'[d] = cs_bucket[d]
  BY DEF Typed
<1> HIDE DEF q
<1>3. /\ Unlink(q, s) \in Seq(Structs) /\ ToSet(Unlink(q, s)) = ToSet(q) \ {s}
      /\ IsInjective(Unlink(q, s))
      /\ \A u, v : Before(Unlink(q, s), u, v) => Before(q, u, v)
  BY <1>1, UnlinkProperties
<1>4. cs_bucket' \in [Slots -> Seq(Structs)]
  <2>1. cs_bucket' = [cs_bucket EXCEPT ![b] = Unlink(q, s)]
    BY DEF q
  <2> QED BY <1>3, <2>1 DEF Typed
<1>5. Injective'
  BY <1>0, <1>2, <1>3 DEF Injective
<1>6. \A d \in Slots : ToSet(cs_bucket'[d]) = ToSet(cs_bucket[d]) \ {s}
  <2> SUFFICES ASSUME NEW d \in Slots PROVE ToSet(cs_bucket'[d]) = ToSet(cs_bucket[d]) \ {s}
    OBVIOUS
  <2>1. CASE d = b
    BY <1>2, <1>3, <2>1 DEF q
  <2>2. CASE d # b
    <3>1. s \in InTable
      BY InTableIs
    <3>2. s \notin ToSet(cs_bucket[d])
      BY <2>2, <3>1, Located
    <3> QED BY <1>2, <2>2, <3>2
  <2> QED BY <2>1, <2>2
<1>7. InTable' = InTable \ {s}
  <2>1. ASSUME NEW t PROVE t \in InTable' <=> t \in InTable \ {s}
    BY <1>6, InTableIs, InTableIsNext
  <2> QED BY <2>1
<1>8. \A d \in Slots : \A u, v : Before(cs_bucket'[d], u, v) => Before(cs_bucket[d], u, v)
  <2> SUFFICES ASSUME NEW d \in Slots, NEW u, NEW v, Before(cs_bucket'[d], u, v)
               PROVE  Before(cs_bucket[d], u, v)
    OBVIOUS
  <2>1. CASE d = b
    BY <1>2, <1>3, <2>1 DEF q
  <2>2. CASE d # b
    BY <1>2, <2>2
  <2> QED BY <2>1, <2>2
<1> QED BY <1>4, <1>5, <1>6, <1>7, <1>8

(* A struct goes back to the free list. *)
LEMMA PushFree ==
  ASSUME Typed, Typed', StructsConserved, NEW s \in InTable,
         cs_freelist' = <<s>> \o cs_freelist, allocated' = allocated,
         InTable' = InTable \ {s}, Injective',
         \A d \in Slots : ToSet(cs_bucket'[d]) = ToSet(cs_bucket[d]) \ {s},
         \A t \in InTable \ {s} : c'[t].c_runtime = c[t].c_runtime /\ c'[t].c_id = c[t].c_id
  PROVE  StructsConserved'
<1>1. s \in Structs /\ s \in allocated /\ s \notin ToSet(cs_freelist)
  BY Located
<1>2. /\ ToSet(cs_freelist') = ToSet(cs_freelist) \cup {s} /\ IsInjective(cs_freelist')
  BY <1>1, PushProperties DEF Typed, StructsConserved
<1>3. Saved = {} /\ Saved' = {}
  BY SavedEmpty, SavedEmptyNext
<1>4. /\ ToSet(cs_freelist') \cap InTable' = {}
      /\ ToSet(cs_freelist') \cup InTable' \cup Saved' = allocated'
  BY <1>1, <1>2, <1>3 DEF StructsConserved
<1>5. ASSUME NEW b \in Slots, NEW t \in ToSet(cs_bucket'[b])
      PROVE  BucketOf(c'[t].c_runtime) = b /\ c'[t].c_id[1] = b
  <2>1. t \in ToSet(cs_bucket[b]) /\ t # s
    OBVIOUS
  <2>2. t \in InTable
    BY <2>1, InTableIs
  <2>3. BucketOf(c[t].c_runtime) = b /\ c[t].c_id[1] = b
    BY <2>1 DEF StructsConserved, Slots
  <2> QED BY <2>1, <2>2, <2>3
<1> QED BY <1>2, <1>4, <1>5 DEF StructsConserved, Injective, Slots

(* A client in untimeout() goes to sleep, wakes or goes to retake.         *)
LEMMA WaitKeeps ==
  ASSUME IInv, NEW x \in Clients, NEW v \in {"delwait", "delwoken", "retake"},
         NEW d \in Structs \cup {None},
         cst[x] # "none", cst' = [cst EXCEPT ![x] = v], dcp' = [dcp EXCEPT ![x] = d],
         v = "retake" => \A s \in InTable : c[s].c_arg # x,
         v # "retake" => d \in Structs /\ \A s \in InTable : c[s].c_arg = x => s = d /\ c[s].executing,
         v = "delwait" => d \in InTable /\ c[d].c_arg = x,
         UNCHANGED <<tvars, svars, evars, handle, cpr_stop, saved, hvars>>,
         unsafe_driver' \in Clients \cup Executors \cup {None}
  PROVE  IInv'
<1>1. Typed'
  <2>1. cst' \in [Clients -> CSTs] /\ dcp' \in [Clients -> Structs \cup {None}]
    BY DEF IInv, Typed, CSTs
  <2> QED BY <2>1 DEF IInv, Typed, tvars, svars, evars, hvars
<1>2. StructsConserved' /\ InTable' = InTable
  BY <1>1, ListsKept DEF IInv, svars
<1>3. /\ \A y \in Clients : y # x => cst'[y] = cst[y] /\ dcp'[y] = dcp[y]
      /\ cst'[x] = v /\ dcp'[x] = d
      /\ UNCHANGED <<c, ecp, ert, epc, handle, runs>>
  BY DEF IInv, Typed, svars, evars, hvars
<1>4. FreeOK' /\ OwnOK'
  BY <1>2, <1>3 DEF IInv, FreeOK, OwnOK
<1>5. IdsOK'
  BY <1>2, <1>3 DEF IInv, IdsOK
<1>6. WaitOK'
  BY <1>2, <1>3 DEF IInv, WaitOK
<1>7. ExecOK' /\ RunsOK'
  BY <1>2, <1>3 DEF IInv, ExecOK, RunsOK, Busy, Called
<1> QED BY <1>1, <1>2, <1>4, <1>5, <1>6, <1>7 DEF IInv

(* A struct with x's id is x's, and x's is found by its id. *)
LEMMA MatchIsOwn ==
  ASSUME IInv, NEW x \in Clients, cst[x] # "none", NEW s \in Structs
  PROVE  /\ c[s].c_id = handle[x] <=> s \in InTable /\ c[s].c_arg = x
         /\ s \in Matching(handle[x]) <=> s \in InTable /\ c[s].c_arg = x
<1>1. ASSUME c[s].c_id = handle[x] PROVE s \in InTable /\ c[s].c_arg = x
  <2>1. handle[x] # NoId
    BY DEF IInv, IdsOK
  <2>2. s \in InTable
    BY <1>1, <2>1, FreeStructType DEF IInv, FreeOK
  <2> QED BY <1>1, <2>2 DEF IInv, OwnOK, IdsOK
<1>2. ASSUME s \in InTable, c[s].c_arg = x PROVE c[s].c_id = handle[x] /\ s \in Matching(handle[x])
  <2>1. c[s].c_id = handle[x]
    BY <1>2 DEF IInv, OwnOK
  <2>2. s \in ToSet(cs_bucket[c[s].c_id[1]])
    BY <1>2, Located DEF IInv
  <2> QED BY <2>1, <2>2 DEF Matching
<1>3. s \in Matching(handle[x]) => c[s].c_id = handle[x]
  BY DEF Matching
<1> QED BY <1>1, <1>2, <1>3

-----------------------------------------------------------------------
(* timeout() *)

(* The time callout_insert() picks is a time. *)
LEMMA RunTimeType ==
  ASSUME Typed, NEW delta \in Deltas
  PROVE  RunTime(delta) \in Times /\ BucketOf(RunTime(delta)) \in Slots /\ Add(lbolt, delta) \in Times
<1>1. delta \in Times
  BY TimeAssumption DEF Times
<1>2. Add(lbolt, delta) \in Times /\ Add(cs_curtime, 1) \in Times
  BY <1>1, ZeroIsTime, AddIs DEF Typed
<1>3. RunTime(delta) \in Times
  BY <1>2 DEF RunTime
<1> QED BY <1>2, <1>3, SlotOf

(* What timeout() leaves behind. *)
Inserted(x, delta, s) ==
  /\ s \in Structs /\ s \notin InTable
  /\ InTable' = InTable \cup {s}
  /\ c'[s].c_arg = x /\ ~c'[s].executing /\ c'[s].c_runtime = RunTime(delta)
  /\ c'[s].c_id = handle'[x]
  /\ \A t \in Structs : t # s => c'[t] = c[t]
  /\ \A d \in Slots : \A u, v : Before(cs_bucket'[d], u, v) => Before(cs_bucket[d], u, v) \/ u = s

(* timeout() puts one new callout into the table, with an id nobody holds. *)
LEMMA TimeoutInserts ==
  ASSUME IInv, NEW x \in Clients, NEW delta \in Deltas, Timeout(x, delta)
  PROVE  /\ Typed' /\ StructsConserved'
         /\ \E s \in Structs : Inserted(x, delta, s)
         /\ \A y \in Clients : handle[y] # handle'[x]
         /\ handle'[x] # NoId
<1> DEFINE r == RunTime(delta)
           b == BucketOf(r)
           id == FreshId(b)
           New(u) == [c_id |-> id, executing |-> FALSE, unsafe |-> u, c_runtime |-> r,
                      c_arg |-> x, c_executor |-> None]
           N == New(unsafe_driver = x)
<1>1. r \in Times /\ b \in Slots /\ Add(lbolt, delta) \in Times
  BY RunTimeType DEF IInv
<1>2. PICK s \in Structs :
       /\ \/ /\ cs_freelist # << >> /\ s = Head(cs_freelist)
             /\ cs_freelist' = Tail(cs_freelist) /\ UNCHANGED allocated
          \/ /\ cs_freelist = << >> /\ s \notin allocated
             /\ allocated' = allocated \cup {s} /\ UNCHANGED cs_freelist
       /\ c' = [c EXCEPT ![s] = N]
       /\ cs_bucket' = [cs_bucket EXCEPT ![b] = <<s>> \o @]
  BY DEF Timeout
<1>3. /\ cst' = [cst EXCEPT ![x] = "armed"] /\ handle' = [handle EXCEPT ![x] = id]
      /\ due' = [due EXCEPT ![x] = Add(lbolt, delta)] /\ runs' = [runs EXCEPT ![x] = 0]
      /\ UNCHANGED <<tvars, evars, dcp, unsafe_driver, cpr_stop, saved>>
  BY DEF Timeout
<1>4. id \in Ids /\ id[1] = b /\ id # NoId /\ \A y \in Clients : handle[y] # id
  BY <1>1, FreshIdIs DEF IInv, Typed
<1> HIDE DEF r, b, id
<1>5. /\ N \in Fields /\ N.c_id = id /\ ~N.executing /\ N.c_runtime = r /\ N.c_arg = x
  <2>1. \A u \in BOOLEAN :
          /\ New(u) \in Fields /\ New(u).c_id = id /\ ~New(u).executing
          /\ New(u).c_runtime = r /\ New(u).c_arg = x
    BY <1>1, <1>4 DEF Fields
  <2>2. (unsafe_driver = x) \in BOOLEAN
    BY Zenon
  <2> HIDE DEF New
  <2> QED BY <2>1, <2>2, Zenon
<1> HIDE DEF N
<1>6. /\ ToSet(cs_freelist') \subseteq Structs /\ cs_freelist' \in Seq(Structs)
      /\ IsInjective(cs_freelist') /\ s \notin ToSet(cs_freelist') /\ s \notin InTable
      /\ ToSet(cs_freelist') \subseteq ToSet(cs_freelist)
      /\ ToSet(cs_freelist') \cup {s} \cup InTable = allocated' /\ allocated' \subseteq Structs
  <2>0. /\ cs_freelist \in Seq(Structs) /\ IsInjective(cs_freelist) /\ Saved = {}
        /\ ToSet(cs_freelist) \cap InTable = {} /\ ToSet(cs_freelist) \cup InTable = allocated
        /\ allocated \subseteq Structs
    BY SavedEmpty DEF IInv, Typed, StructsConserved
  <2>1. CASE cs_freelist = << >> /\ s \notin allocated
    <3>1. allocated' = allocated \cup {s} /\ cs_freelist' = cs_freelist
      BY <1>2, <2>1
    <3> QED BY <2>0, <2>1, <3>1
  <2>2. CASE cs_freelist # << >> /\ s = Head(cs_freelist)
    <3> DEFINE f == cs_freelist
               g == Tail(cs_freelist)
    <3>1. cs_freelist' = g /\ allocated' = allocated
      BY <1>2, <2>2
    <3>2. /\ g \in Seq(Structs) /\ Len(g) = Len(f) - 1 /\ Len(f) \in Nat /\ Len(f) >= 1
          /\ \A i \in 1..Len(g) : g[i] = f[i + 1]
          /\ s = f[1]
      BY <2>0, <2>2, HeadTailProperties
    <3>3. \A i, j \in 1..Len(f) : f[i] = f[j] => i = j
      BY <2>0, InjectiveIs
    <3>4. f \in Seq(Structs)
      BY <2>0
    <3> HIDE DEF f, g
    <3>5. \A i \in 1..Len(g) : i + 1 \in 1..Len(f) /\ i + 1 # 1
      BY <3>2
    <3>6. \A i \in 1..Len(f) : i # 1 => i - 1 \in 1..Len(g) /\ g[i - 1] = f[i]
      BY <3>2
    <3>7. IsInjective(g)
      <4>1. \A i, j \in 1..Len(g) : g[i] = g[j] => i + 1 = j + 1
        BY <3>2, <3>3, <3>5
      <4>2. \A i, j \in 1..Len(g) : g[i] = g[j] => i = j
        BY <4>1, <3>2
      <4> QED BY <3>2, <4>2, InjectiveIs
    <3>8. ToSet(g) = ToSet(f) \ {s} /\ s \in ToSet(f)
      <4>1. \A u : u \in ToSet(g) <=> \E i \in 1..Len(g) : g[i] = u
        BY <3>2, InList
      <4>2. \A u : u \in ToSet(f) <=> \E i \in 1..Len(f) : f[i] = u
        BY <3>4, InList
      <4>3. 1 \in 1..Len(f)
        BY <3>2
      <4>4. ASSUME NEW u \in ToSet(g) PROVE u \in ToSet(f) /\ u # s
        BY <4>1, <4>2, <4>3, <4>4, <3>2, <3>3, <3>5
      <4>5. ASSUME NEW u \in ToSet(f), u # s PROVE u \in ToSet(g)
        BY <4>1, <4>2, <4>5, <3>2, <3>6
      <4>6. s \in ToSet(f)
        BY <4>2, <4>3, <3>2
      <4> QED BY <4>4, <4>5, <4>6
    <3>9. ToSet(f) = ToSet(cs_freelist)
      BY DEF f
    <3> QED BY <2>0, <3>1, <3>2, <3>7, <3>8, <3>9
  <2> QED BY <1>2, <2>1, <2>2
<1>7. /\ cs_bucket' \in [Slots -> Seq(Structs)] /\ Injective' /\ InTable' = InTable \cup {s}
      /\ ToSet(cs_bucket'[b]) = ToSet(cs_bucket[b]) \cup {s}
      /\ \A d \in Slots : d # b => cs_bucket'[d] = cs_bucket[d]
      /\ \A d \in Slots : \A u, v : Before(cs_bucket'[d], u, v) => Before(cs_bucket[d], u, v) \/ u = s
  BY <1>1, <1>2, <1>6, InsertTable, ListsInjective DEF IInv
<1>8. Typed'
  <2>1. /\ cst' \in [Clients -> CSTs] /\ handle' \in [Clients -> Ids] /\ due' \in [Clients -> Times]
        /\ runs' \in [Clients -> Nat] /\ c' \in [Structs -> Fields]
    BY <1>1, <1>2, <1>3, <1>4, <1>5 DEF IInv, Typed, CSTs
  <2> QED BY <1>3, <1>6, <1>7, <2>1 DEF IInv, Typed, tvars, evars
<1>9. c'[s] = N /\ \A t \in Structs : t # s => c'[t] = c[t]
  BY <1>2 DEF IInv, Typed
<1>10. handle'[x] = id
  BY <1>3 DEF IInv, Typed
<1>11. Inserted(x, delta, s)
  BY <1>5, <1>6, <1>7, <1>9, <1>10 DEF Inserted, r
<1>12. StructsConserved'
  <2>1. Saved' = {}
    BY <1>8, SavedEmptyNext
  <2>2. ASSUME NEW d \in Slots, NEW t \in ToSet(cs_bucket'[d])
        PROVE  BucketOf(c'[t].c_runtime) = d /\ c'[t].c_id[1] = d
    <3>1. CASE t = s
      <4>1. d = b
        BY <1>6, <1>7, <2>2, <3>1, InTableIs
      <4> QED BY <1>4, <1>5, <1>9, <3>1, <4>1 DEF b
    <3>2. CASE t # s
      <4>1. t \in ToSet(cs_bucket[d])
        BY <1>7, <2>2, <3>2
      <4>2. t \in Structs
        BY <4>1, InList DEF IInv, Typed
      <4> QED BY <1>9, <3>2, <4>1, <4>2 DEF IInv, StructsConserved, Slots
    <3> QED BY <3>1, <3>2
  <2>3. ToSet(cs_freelist') \cap InTable' = {}
    BY <1>6, <1>7 DEF IInv, StructsConserved
  <2> QED BY <1>6, <1>7, <2>1, <2>2, <2>3 DEF StructsConserved, Injective, Slots
<1> QED BY <1>4, <1>8, <1>10, <1>11, <1>12

(* timeout() keeps the invariant. *)
LEMMA TimeoutKeeps ==
  ASSUME IInv, NEW x \in Clients, NEW delta \in Deltas, Timeout(x, delta)
  PROVE  IInv'
<1>1. /\ Typed' /\ StructsConserved'
      /\ \A y \in Clients : handle[y] # handle'[x]
      /\ handle'[x] # NoId
  BY TimeoutInserts
<1>2. PICK s \in Structs : Inserted(x, delta, s)
  BY TimeoutInserts
<1>3. /\ cst[x] = "none" /\ cst'[x] = "armed" /\ runs'[x] = 0
      /\ \A y \in Clients : y # x => /\ cst'[y] = cst[y] /\ handle'[y] = handle[y]
                                     /\ runs'[y] = runs[y]
      /\ UNCHANGED <<ecp, ert, epc, dcp>>
  BY DEF IInv, Typed, Timeout, evars
<1>4. \A t \in InTable : t \in Structs /\ t # s /\ c'[t] = c[t] /\ c[t].c_arg # x /\ c[t].c_arg \in Clients
  BY <1>2, <1>3, Located DEF IInv, OwnOK, Inserted
<1>5. /\ InTable' = InTable \cup {s} /\ s \notin InTable
      /\ c'[s].c_arg = x /\ ~c'[s].executing /\ c'[s].c_id = handle'[x]
      /\ \A t \in Structs : t # s => c'[t] = c[t]
  BY <1>2 DEF Inserted
<1>6. FreeOK'
  BY <1>5 DEF IInv, FreeOK
<1>7. OwnOK'
  BY <1>3, <1>4, <1>5 DEF IInv, OwnOK
<1>8. IdsOK'
  BY <1>1, <1>3 DEF IInv, IdsOK
<1>9. ExecOK'
  BY <1>3, <1>4, <1>5 DEF IInv, ExecOK, Busy
<1>10. RunsOK'
  <2>1. \A t \in InTable : Called(t)' <=> Called(t)
    BY <1>3, <1>4 DEF Called
  <2>2. ~Called(s)'
    BY <1>5 DEF Called
  <2> QED BY <1>3, <1>4, <1>5, <2>1, <2>2 DEF IInv, RunsOK
<1>11. WaitOK'
  BY <1>3, <1>4, <1>5 DEF IInv, WaitOK
<1> QED BY <1>1, <1>6, <1>7, <1>8, <1>9, <1>10, <1>11 DEF IInv

-----------------------------------------------------------------------
(* untimeout() *)

(* What untimeout() of a callout that is not executing leaves behind. *)
LEMMA DeleteRemoves ==
  ASSUME IInv, NEW x \in Clients, UntimeoutDelete(x)
  PROVE  /\ Typed' /\ StructsConserved'
         /\ \E s \in InTable :
              /\ c[s].c_arg = x /\ ~c[s].executing /\ InTable' = InTable \ {s}
              /\ c' = [c EXCEPT ![s] = FreeStruct]
              /\ \A d \in Slots : \A u, v : Before(cs_bucket'[d], u, v) => Before(cs_bucket[d], u, v)
<1>1. cst[x] = "armed"
  BY DEF UntimeoutDelete, UntimeoutCall
<1>2. PICK s \in Matching(handle[x]) :
        /\ ~c[s].executing
        /\ cs_bucket' = [cs_bucket EXCEPT ![handle[x][1]] = Unlink(@, s)]
        /\ cs_freelist' = <<s>> \o cs_freelist
        /\ c' = [c EXCEPT ![s] = FreeStruct]
  BY DEF UntimeoutDelete, MustWait
<1> DEFINE b == handle[x][1]
<1>3. b \in Slots /\ s \in ToSet(cs_bucket[b])
  BY <1>2 DEF IInv, Typed, Ids, Matching
<1>4. s \in InTable /\ s \in Structs
  BY <1>3, InTableIs, InList DEF IInv, Typed
<1>5. c[s].c_arg = x
  BY <1>1, <1>2, <1>4, MatchIsOwn
<1>6. /\ cs_bucket' \in [Slots -> Seq(Structs)] /\ Injective' /\ InTable' = InTable \ {s}
      /\ \A d \in Slots : ToSet(cs_bucket'[d]) = ToSet(cs_bucket[d]) \ {s}
      /\ \A d \in Slots : \A u, v : Before(cs_bucket'[d], u, v) => Before(cs_bucket[d], u, v)
  BY <1>2, <1>3, RemoveTable DEF IInv
<1>7. Typed'
  <2>1. cs_freelist' \in Seq(Structs)
    BY <1>2, <1>4, PushProperties DEF IInv, Typed
  <2>2. c' \in [Structs -> Fields]
    BY <1>2, FreeStructType DEF IInv, Typed
  <2>3. /\ cst' = [cst EXCEPT ![x] = "none"] /\ handle' = [handle EXCEPT ![x] = NoId]
        /\ dcp' = [dcp EXCEPT ![x] = None]
        /\ due' = [due EXCEPT ![x] = 0] /\ runs' = [runs EXCEPT ![x] = 0]
        /\ UNCHANGED <<tvars, evars, cpr_stop, saved, allocated, unsafe_driver>>
    BY DEF UntimeoutDelete, UntimeoutCall, Disarm
  <2>4. /\ cst' \in [Clients -> CSTs] /\ handle' \in [Clients -> Ids]
        /\ dcp' \in [Clients -> Structs \cup {None}]
        /\ due' \in [Clients -> Times] /\ runs' \in [Clients -> Nat]
    BY <2>3, ZeroIsTime DEF IInv, Typed, CSTs
  <2> QED BY <1>6, <2>1, <2>2, <2>3, <2>4 DEF IInv, Typed, tvars, evars
<1>8. \A t \in InTable \ {s} : c'[t] = c[t]
  <2>1. InTable \subseteq Structs
    BY Located DEF IInv
  <2> QED BY <1>2, <2>1 DEF IInv, Typed
<1>9. StructsConserved'
  <2>1. allocated' = allocated
    BY DEF UntimeoutDelete
  <2> QED BY <1>2, <1>4, <1>6, <1>7, <1>8, <2>1, PushFree DEF IInv
<1> QED BY <1>2, <1>4, <1>5, <1>6, <1>7, <1>9

(* untimeout() of a callout that is not executing keeps the invariant. *)
LEMMA DeleteKeeps ==
  ASSUME IInv, NEW x \in Clients, UntimeoutDelete(x)
  PROVE  IInv'
<1>1. Typed' /\ StructsConserved'
  BY DeleteRemoves
<1>2. PICK s \in InTable : /\ c[s].c_arg = x /\ ~c[s].executing /\ InTable' = InTable \ {s}
                           /\ c' = [c EXCEPT ![s] = FreeStruct]
  BY DeleteRemoves
<1>3. InTable \subseteq Structs
  BY Located DEF IInv
<1>4. /\ \A t \in Structs : t # s => c'[t] = c[t]
      /\ c'[s] = FreeStruct
      /\ \A t \in InTable' : t \in InTable /\ c'[t] = c[t] /\ c[t].c_arg # x
  BY <1>2, <1>3 DEF IInv, Typed, OwnOK
<1>5. /\ cst'[x] = "none"
      /\ \A y \in Clients : y # x => /\ cst'[y] = cst[y] /\ handle'[y] = handle[y]
                                     /\ dcp'[y] = dcp[y] /\ runs'[y] = runs[y]
      /\ UNCHANGED <<ecp, ert, epc>>
  BY DEF IInv, Typed, UntimeoutDelete, UntimeoutCall, Disarm, evars
<1>6. FreeOK'
  BY <1>2, <1>4 DEF IInv, FreeOK
<1>7. OwnOK'
  BY <1>4, <1>5 DEF IInv, OwnOK
<1>8. IdsOK'
  BY <1>5 DEF IInv, IdsOK
<1>9. ExecOK'
  BY <1>2, <1>4, <1>5 DEF IInv, ExecOK, Busy
<1>10. RunsOK'
  <2>1. \A t \in InTable' : Called(t)' <=> Called(t)
    BY <1>4, <1>5 DEF Called
  <2>2. \A t \in InTable : t # s => t \in InTable'
    BY <1>2
  <2>3. \A t \in InTable' : runs'[c'[t].c_arg] = IF Called(t)' THEN 1 ELSE 0
    BY <1>4, <1>5, <2>1 DEF IInv, RunsOK, OwnOK
  <2>4. ASSUME NEW y \in Clients, cst'[y] # "none", \A t \in InTable' : c'[t].c_arg # y
        PROVE  runs'[y] = 1
    <3>1. y # x /\ cst[y] # "none"
      BY <1>5, <2>4
    <3>2. \A t \in InTable : c[t].c_arg # y
      BY <1>2, <1>4, <2>2, <2>4, <3>1
    <3> QED BY <1>5, <3>1, <3>2 DEF IInv, RunsOK
  <2> QED BY <2>3, <2>4 DEF RunsOK
<1>11. WaitOK'
  BY <1>2, <1>4, <1>5 DEF IInv, WaitOK
<1> QED BY <1>1, <1>6, <1>7, <1>8, <1>9, <1>10, <1>11 DEF IInv

(* No callout of x is left in the table when untimeout() of x returns      *)
(* without having taken it out, or when x forgets its id.                  *)
Returns(x) ==
  \/ UntimeoutNotFound(x) \/ DelRetake(x) \/ Forget(x)
  \/ DelRecheck(x) /\ ~StillExecuting(x) /\ x \notin UnsafeClients

(* untimeout() returns, or goes to retake unsafe_driver, only when no      *)
(* callout of the client is in the table: the id is still its own, so an   *)
(* id that is not found, or a struct that has got another id, is a callout *)
(* that is gone.                                                           *)
LEMMA DoneWhenReturns ==
  ASSUME IInv, NEW x \in Clients,
         Returns(x) \/ (DelRecheck(x) /\ ~StillExecuting(x))
  PROVE  cst[x] # "none" /\ \A s \in InTable : c[s].c_arg # x
<1>0. InTable \subseteq Structs
  BY Located DEF IInv
<1>1. CASE UntimeoutNotFound(x)
  BY <1>0, <1>1, MatchIsOwn DEF UntimeoutNotFound, UntimeoutCall
<1>2. CASE DelRetake(x)
  BY <1>2 DEF DelRetake, IInv, OwnOK
<1>3. CASE Forget(x)
  BY <1>3 DEF Forget
<1>4. CASE DelRecheck(x) /\ ~StillExecuting(x)
  <2>1. cst[x] = "delwoken"
    BY <1>4 DEF DelRecheck
  <2>2. SUFFICES ASSUME NEW s \in InTable, c[s].c_arg = x PROVE FALSE
    BY <2>1
  <2>3. s = dcp[x] /\ c[s].executing
    BY <2>1, <2>2 DEF IInv, WaitOK
  <2>4. c[s].c_id = handle[x]
    BY <2>2 DEF IInv, OwnOK
  <2> QED BY <1>4, <2>3, <2>4 DEF StillExecuting
<1> QED BY <1>1, <1>2, <1>3, <1>4 DEF Returns

(* What these returns change. *)
LEMMA ReturnsDisarms ==
  ASSUME IInv, NEW x \in Clients, Returns(x)
  PROVE  /\ Disarm(x) /\ UNCHANGED <<tvars, svars, evars, cpr_stop, saved>>
         /\ unsafe_driver' \in Clients \cup Executors \cup {None}
<1>0. unsafe_driver \in Clients \cup Executors \cup {None}
  BY DEF IInv, Typed
<1>1. CASE UntimeoutNotFound(x)
  BY <1>0, <1>1 DEF UntimeoutNotFound, UntimeoutCall
<1>2. CASE DelRetake(x)
  BY <1>2 DEF DelRetake
<1>3. CASE Forget(x)
  BY <1>0, <1>3 DEF Forget
<1>4. CASE DelRecheck(x) /\ ~StillExecuting(x) /\ x \notin UnsafeClients
  BY <1>0, <1>4 DEF DelRecheck
<1> QED BY <1>1, <1>2, <1>3, <1>4 DEF Returns

(* The steps of untimeout() that keep it waiting. *)
StaysInDelete(x) ==
  \/ UntimeoutWait(x) \/ SpuriousWakeup(x)
  \/ DelRecheck(x) /\ (StillExecuting(x) \/ x \in UnsafeClients)

(* Going to sleep on c_done, waking up and testing again keep the          *)
(* invariant.                                                              *)
LEMMA StaysKeeps ==
  ASSUME IInv, NEW x \in Clients, StaysInDelete(x)
  PROVE  IInv'
<1>0. /\ InTable \subseteq Structs /\ unsafe_driver \in Clients \cup Executors \cup {None}
      /\ cst \in [Clients -> CSTs] /\ dcp \in [Clients -> Structs \cup {None}]
  BY Located DEF IInv, Typed
<1>1. CASE UntimeoutWait(x)
  <2>1. PICK s \in Matching(handle[x]) : c[s].executing /\ dcp' = [dcp EXCEPT ![x] = s] /\ DropForWait(x, s)
    BY <1>1 DEF UntimeoutWait, MustWait
  <2>2. cst[x] = "armed" /\ cst' = [cst EXCEPT ![x] = "delwait"]
    BY <1>1 DEF UntimeoutWait, UntimeoutCall
  <2>3. s \in Structs
    <3>1. s \in ToSet(cs_bucket[handle[x][1]]) /\ handle[x][1] \in Slots
      BY <2>1 DEF Matching, IInv, Typed, Ids
    <3> QED BY <3>1, InList DEF IInv, Typed
  <2>4. s \in InTable /\ c[s].c_arg = x
    BY <2>1, <2>2, <2>3, MatchIsOwn
  <2>5. \A t \in InTable : c[t].c_arg = x => t = s /\ c[t].executing
    BY <2>1, <2>4 DEF IInv, OwnOK
  <2>6. unsafe_driver' \in Clients \cup Executors \cup {None}
    BY <1>0, <2>1 DEF DropForWait
  <2>7. UNCHANGED <<tvars, svars, evars, handle, cpr_stop, saved, hvars>>
    BY <1>1 DEF UntimeoutWait, UntimeoutCall
  <2> QED BY <2>1, <2>2, <2>3, <2>4, <2>5, <2>6, <2>7, WaitKeeps
<1>2. CASE SpuriousWakeup(x)
  <2>1. cst[x] = "delwait" /\ cst' = [cst EXCEPT ![x] = "delwoken"] /\ dcp' = [dcp EXCEPT ![x] = dcp[x]]
    BY <1>0, <1>2 DEF SpuriousWakeup
  <2>2. dcp[x] \in Structs /\ \A s \in InTable : c[s].c_arg = x => s = dcp[x] /\ c[s].executing
    BY <2>1 DEF IInv, WaitOK
  <2>3. UNCHANGED <<tvars, svars, evars, handle, cpr_stop, saved, hvars, unsafe_driver>>
    BY <1>2 DEF SpuriousWakeup
  <2> QED BY <1>0, <2>1, <2>2, <2>3, WaitKeeps
<1>3. CASE DelRecheck(x) /\ StillExecuting(x)
  <2>1. cst[x] = "delwoken" /\ cst' = [cst EXCEPT ![x] = "delwait"] /\ dcp' = [dcp EXCEPT ![x] = dcp[x]]
    BY <1>0, <1>3 DEF DelRecheck
  <2>2. dcp[x] \in Structs /\ \A s \in InTable : c[s].c_arg = x => s = dcp[x] /\ c[s].executing
    BY <2>1 DEF IInv, WaitOK
  <2>3. dcp[x] \in InTable /\ c[dcp[x]].c_arg = x
    BY <1>3, <2>1, <2>2, MatchIsOwn DEF StillExecuting
  <2>4. UNCHANGED <<tvars, svars, evars, handle, cpr_stop, saved, hvars, unsafe_driver>>
    BY <1>3 DEF DelRecheck
  <2> QED BY <1>0, <2>1, <2>2, <2>3, <2>4, WaitKeeps
<1>4. CASE DelRecheck(x) /\ ~StillExecuting(x) /\ x \in UnsafeClients
  <2>1. cst[x] = "delwoken" /\ cst' = [cst EXCEPT ![x] = "retake"] /\ dcp' = [dcp EXCEPT ![x] = dcp[x]]
    BY <1>0, <1>4 DEF DelRecheck
  <2>2. \A s \in InTable : c[s].c_arg # x
    BY <1>4, DoneWhenReturns
  <2>3. UNCHANGED <<tvars, svars, evars, handle, cpr_stop, saved, hvars, unsafe_driver>>
    BY <1>4 DEF DelRecheck
  <2>4. dcp[x] \in Structs \cup {None}
    BY <1>0
  <2> QED BY <1>0, <2>1, <2>2, <2>3, <2>4, WaitKeeps
<1> QED BY <1>1, <1>2, <1>3, <1>4 DEF StaysInDelete

(* The returns from untimeout() keep the invariant. *)
LEMMA ReturnsKeeps ==
  ASSUME IInv, NEW x \in Clients, Returns(x)
  PROVE  IInv'
BY DoneWhenReturns, ReturnsDisarms, DisarmKeeps

-----------------------------------------------------------------------
(* The clock, CPR, and the executors outside a scan. *)

(* Where a signal sends a sleeper of the pool. *)
LEMMA WokenIs == Woken["wait"] = "woken" /\ Woken["cprwait"] = "done"
BY DEF Woken

(* cs_runtime is left at a time. *)
LEMMA AdvanceType ==
  ASSUME NEW start \in Times, NEW now \in Times
  PROVE  Advance(start, now) \in Times
<1>1. ReadyTimes(start, now) \subseteq Times
  BY ReadyTimesIs
<1>2. Add(now, 1) \in Times
  BY ZeroIsTime, AddIs
<1>3. CASE ReadyTimes(start, now) # {}
  BY <1>1, <1>3, EarliestIs DEF Advance
<1>4. CASE ReadyTimes(start, now) = {}
  BY <1>2, <1>4 DEF Advance
<1> QED BY <1>3, <1>4

(* A signal moves at most sleepers of the pool. *)
LEMMA SignalWakes ==
  ASSUME Typed, SignalPool
  PROVE  /\ epc' \in [Executors -> EPCs] /\ soft' \in BOOLEAN
         /\ \A e \in Executors : \/ epc'[e] = epc[e]
                                 \/ epc[e] = "wait" /\ epc'[e] = "woken"
                                 \/ epc[e] = "cprwait" /\ epc'[e] = "done"
<1>1. CASE Realtime
  BY <1>1 DEF SignalPool, Typed
<1>2. CASE ~Realtime /\ UNCHANGED epc
  BY <1>2 DEF SignalPool, Typed
<1>3. CASE ~Realtime /\ \E e \in PoolWaiters : epc' = [epc EXCEPT ![e] = Woken[@]]
  <2>1. PICK e \in PoolWaiters : epc' = [epc EXCEPT ![e] = Woken[epc[e]]]
    BY <1>3
  <2>2. e \in Executors /\ epc[e] \in {"wait", "cprwait"}
    BY DEF PoolWaiters
  <2>3. soft' = soft
    BY <1>3 DEF SignalPool
  <2>4. Woken[epc[e]] = IF epc[e] = "wait" THEN "woken" ELSE "done"
    BY <2>2, WokenIs
  <2> QED BY <2>1, <2>2, <2>3, <2>4 DEF Typed, EPCs
<1> QED BY <1>1, <1>2, <1>3, TimeAssumption DEF SignalPool

(* The steps that change no callout. *)
QuietStep ==
  \/ Tick \/ CalloutSchedule \/ CprStop \/ CprSave \/ CprOtherRestored \/ CprRestore
  \/ \E e \in Executors : \/ StartThread(e) \/ SoftInt(e) \/ BackToSleep(e) \/ FuncReturns(e)
                          \/ CprWait(e)
  \/ \E x \in Clients : EnterUnsafe(x) \/ ExitUnsafe(x)

(* How such a step may move an executor. *)
PcMove(old, new) ==
  \/ new = old
  \/ old \in {"start", "idle", "wait", "woken"} /\ new \in {"start", "idle", "wait", "woken"}
  \/ old \in {"func", "done", "cprwait"} /\ new \in {"done", "cprwait"}

(* What the quiet steps change. A suspend moves nothing: the test in       *)
(* callout_save() skips every callout.                                     *)
LEMMA QuietStepIs ==
  ASSUME IInv, QuietStep
  PROVE  /\ Typed'
         /\ UNCHANGED <<cs_bucket, cs_freelist, allocated, c, ecp, ert, cst, handle, dcp, runs>>
         /\ \A e \in Executors : PcMove(epc[e], epc'[e])
<1> DEFINE Same == UNCHANGED <<cs_bucket, cs_freelist, allocated, c, ecp, ert, cst, handle, dcp, runs>>
<1>0. Typed
  BY DEF IInv
<1>1. CASE Tick
  <2>1. lbolt' \in Times
    BY <1>0, <1>1, ZeroIsTime, AddIs DEF Tick, Typed
  <2>2. Same /\ UNCHANGED <<cs_curtime, cs_runtime, epc, soft, unsafe_driver, cpr_stop, saved, due>>
    BY <1>1 DEF Tick, svars, evars, cvars, hvars
  <2>3. ticked' \in BOOLEAN
    BY <1>1 DEF Tick
  <2> QED BY <1>0, <2>1, <2>2, <2>3 DEF Typed, PcMove
<1>2. CASE CalloutSchedule
  <2>1. cs_curtime' = lbolt /\ cs_runtime' \in Times /\ ticked' = FALSE
    BY <1>0, <1>2, AdvanceType DEF CalloutSchedule, Typed
  <2>2. Same /\ UNCHANGED <<lbolt, unsafe_driver, cpr_stop, saved, due>>
    BY <1>2 DEF CalloutSchedule, svars, cvars, hvars
  <2>3. /\ epc' \in [Executors -> EPCs] /\ soft' \in BOOLEAN
        /\ \A e \in Executors : PcMove(epc[e], epc'[e])
    <3>1. CASE SignalPool
      BY <1>0, <3>1, SignalWakes DEF PcMove
    <3>2. CASE UNCHANGED <<epc, soft>>
      BY <1>0, <3>2 DEF PcMove, Typed
    <3> QED BY <1>2, <3>1, <3>2 DEF CalloutSchedule
  <2> QED BY <1>0, <2>1, <2>2, <2>3 DEF Typed
<1>3. CASE CprStop \/ CprOtherRestored
  <2>1. Same /\ UNCHANGED <<lbolt, ticked, cs_curtime, cs_runtime, epc, soft, unsafe_driver, saved, due>>
    BY <1>3 DEF CprStop, CprOtherRestored, tvars, svars, evars, cvars, hvars
  <2>2. cpr_stop' \in BOOLEAN
    BY <1>3 DEF CprStop, CprOtherRestored
  <2> QED BY <1>0, <2>1, <2>2 DEF Typed, PcMove
<1>4. CASE CprSave
  <2>1. UNCHANGED <<lbolt, ticked, cs_curtime, cs_runtime, cs_freelist, allocated, c, epc, ecp, ert,
                    soft, cst, handle, dcp, unsafe_driver, cpr_stop, due, runs>>
    BY <1>4 DEF CprSave, tvars, evars, cvars, hvars
  <2>2. \A b \in Slots : /\ Sublist(cs_bucket[b], SkippedIn(cs_bucket[b])) = cs_bucket[b]
                         /\ Reverse(Sublist(cs_bucket[b], (1..Len(cs_bucket[b])) \ SkippedIn(cs_bucket[b]))) = << >>
    BY <1>0, NothingSaved DEF Typed
  <2>3. cs_bucket' = [b \in Slots |-> cs_bucket[b]]
    BY <1>4, <2>2 DEF CprSave, Slots
  <2>4. saved' = <<cs_runtime, NothingIn>>
    <3>1. [b \in Slots |-> Reverse(Sublist(cs_bucket[b], (1..Len(cs_bucket[b])) \ SkippedIn(cs_bucket[b])))] = NothingIn
      BY <2>2 DEF NothingIn
    <3> QED BY <1>4, <3>1 DEF CprSave, Slots
  <2>5. cs_bucket' = cs_bucket
    BY <1>0, <2>3 DEF Typed
  <2> QED BY <1>0, <2>1, <2>4, <2>5 DEF Typed, PcMove
<1>5. CASE CprRestore
  <2>1. PICK r \in Times : saved = <<r, NothingIn>>
    BY <1>0, <1>5 DEF CprRestore, Typed
  <2>2. cs_runtime' = r /\ cs_runtime' \in Times /\ saved' = << >> /\ cpr_stop' = FALSE
    BY <1>5, <2>1 DEF CprRestore
  <2>3. cs_bucket' = cs_bucket
    <3>1. \A b \in Slots : Reverse(saved[2][b]) \o cs_bucket[b] = cs_bucket[b]
      <4> SUFFICES ASSUME NEW b \in Slots PROVE Reverse(saved[2][b]) \o cs_bucket[b] = cs_bucket[b]
        OBVIOUS
      <4>1. saved[2][b] = << >>
        BY <2>1 DEF NothingIn
      <4>2. Reverse(<< >>) = << >>
        BY DEF Reverse
      <4>3. cs_bucket[b] \in Seq(Structs)
        BY <1>0 DEF Typed
      <4>4. << >> \o cs_bucket[b] = cs_bucket[b]
        BY <4>3
      <4> QED BY <4>1, <4>2, <4>4
    <3>2. cs_bucket' = [b \in Slots |-> cs_bucket[b]]
      BY <1>5, <3>1 DEF CprRestore, Slots
    <3> QED BY <1>0, <3>2 DEF Typed
  <2>4. /\ epc' \in [Executors -> EPCs]
        /\ \A e \in Executors : PcMove(epc[e], epc'[e])
    <3>1. epc' = [e \in Executors |-> IF e \in PoolWaiters THEN Woken[epc[e]] ELSE epc[e]]
      BY <1>5 DEF CprRestore
    <3>2. \A e \in PoolWaiters : Woken[epc[e]] = IF epc[e] = "wait" THEN "woken" ELSE "done"
      BY WokenIs DEF PoolWaiters
    <3>3. \A e \in Executors : epc'[e] \in EPCs /\ PcMove(epc[e], epc'[e])
      BY <1>0, <3>1, <3>2 DEF Typed, PcMove, EPCs, PoolWaiters
    <3> QED BY <3>1, <3>3
  <2>5. UNCHANGED <<lbolt, ticked, cs_curtime, cs_freelist, allocated, c, ecp, ert, soft, cst,
                    handle, dcp, unsafe_driver, due, runs>>
    BY <1>5 DEF CprRestore, cvars, hvars
  <2> QED BY <1>0, <2>2, <2>3, <2>4, <2>5 DEF Typed
<1>6. ASSUME NEW e \in Executors, StartThread(e) \/ SoftInt(e) \/ BackToSleep(e) \/ CprWait(e)
      PROVE  Typed' /\ Same /\ \A f \in Executors : PcMove(epc[f], epc'[f])
  <2>1. Same /\ UNCHANGED <<tvars, unsafe_driver, cpr_stop, saved, due>>
    BY <1>6 DEF StartThread, SoftInt, BackToSleep, CprWait, svars, cvars, hvars
  <2>2. soft' \in BOOLEAN
    BY <1>0, <1>6 DEF StartThread, SoftInt, BackToSleep, CprWait, Typed
  <2>3. \/ epc[e] = "start" /\ epc' = [epc EXCEPT ![e] = "wait"]
        \/ epc[e] = "idle" /\ epc' = [epc EXCEPT ![e] = "woken"]
        \/ epc[e] = "woken" /\ epc' = [epc EXCEPT ![e] = "wait"]
        \/ epc[e] = "done" /\ epc' = [epc EXCEPT ![e] = "cprwait"]
    BY <1>6 DEF StartThread, SoftInt, BackToSleep, CprWait
  <2>4. epc' \in [Executors -> EPCs] /\ \A f \in Executors : PcMove(epc[f], epc'[f])
    BY <1>0, <2>3 DEF Typed, EPCs, PcMove
  <2> QED BY <1>0, <2>1, <2>2, <2>4 DEF Typed, tvars
<1>7. ASSUME NEW e \in Executors, FuncReturns(e)
      PROVE  Typed' /\ Same /\ \A f \in Executors : PcMove(epc[f], epc'[f])
  <2>1. Same /\ UNCHANGED <<tvars, soft, cpr_stop, saved>>
    BY <1>7 DEF FuncReturns, svars, cvars
  <2>2. unsafe_driver' \in Clients \cup Executors \cup {None}
    BY <1>0, <1>7 DEF FuncReturns, Typed
  <2>3. epc[e] = "func" /\ epc' = [epc EXCEPT ![e] = "done"]
    BY <1>7 DEF FuncReturns
  <2>4. epc' \in [Executors -> EPCs] /\ \A f \in Executors : PcMove(epc[f], epc'[f])
    BY <1>0, <2>3 DEF Typed, EPCs, PcMove
  <2>5. due' \in [Clients -> Times]
    BY <1>0, <1>7, ZeroIsTime DEF FuncReturns, Typed
  <2> QED BY <1>0, <2>1, <2>2, <2>4, <2>5 DEF Typed, tvars
<1>8. ASSUME NEW x \in Clients, EnterUnsafe(x) \/ ExitUnsafe(x)
      PROVE  Typed' /\ Same /\ \A f \in Executors : PcMove(epc[f], epc'[f])
  <2>1. Same /\ UNCHANGED <<tvars, epc, soft, cpr_stop, saved, due>>
    BY <1>8 DEF EnterUnsafe, ExitUnsafe, svars, evars, cvars, hvars
  <2>2. unsafe_driver' \in Clients \cup Executors \cup {None}
    BY <1>8 DEF EnterUnsafe, ExitUnsafe
  <2> QED BY <1>0, <2>1, <2>2 DEF Typed, tvars, PcMove
<1> QED BY <1>1, <1>2, <1>3, <1>4, <1>5, <1>6, <1>7, <1>8 DEF QuietStep

(* The quiet steps keep the invariant. *)
LEMMA QuietStepKeeps ==
  ASSUME IInv, QuietStep
  PROVE  IInv'
<1>1. /\ Typed'
      /\ UNCHANGED <<cs_bucket, cs_freelist, allocated, c, ecp, ert, cst, handle, dcp, runs>>
      /\ \A e \in Executors : PcMove(epc[e], epc'[e])
  BY QuietStepIs
<1>2. \A e \in Executors : (Busy(e)' <=> Busy(e)) /\ (epc'[e] = "enter" <=> epc[e] = "enter")
  BY <1>1 DEF PcMove, Busy
<1> QED BY <1>1, <1>2, QuietKeeps

(* c_func is called. *)
LEMMA RunFuncKeeps ==
  ASSUME IInv, NEW e \in Executors, RunFunc(e)
  PROVE  IInv'
<1>0. epc[e] = "enter" /\ ecp[e] # None
  BY DEF IInv, ExecOK, Busy, RunFunc
<1>1. PICK s \in InTable : s = ecp[e]
  BY <1>0 DEF IInv, ExecOK
<1>2. PICK x \in Clients : x = c[s].c_arg
  BY DEF IInv, OwnOK
<1>3. /\ epc' = [epc EXCEPT ![e] = "func"]
      /\ runs' = [runs EXCEPT ![x] = runs[x] + 1]
      /\ UNCHANGED <<tvars, svars, ecp, ert, soft, cvars, cpr_stop, saved, due>>
  BY <1>1, <1>2 DEF RunFunc
<1>4. c[s].executing /\ c[s].c_executor = e /\ runs[x] = 0
  BY <1>0, <1>1, <1>2 DEF IInv, ExecOK, RunsOK, Called
<1>5. Typed'
  <2>1. unsafe_driver' \in Clients \cup Executors \cup {None}
    BY DEF RunFunc, IInv, Typed
  <2>2. epc' \in [Executors -> EPCs]
    BY <1>3 DEF IInv, Typed, EPCs
  <2>3. runs' \in [Clients -> Nat]
    BY <1>3, <1>4 DEF IInv, Typed
  <2> QED BY <1>3, <2>1, <2>2, <2>3 DEF IInv, Typed, tvars, svars, cvars
<1>6. StructsConserved' /\ InTable' = InTable
  BY <1>3, <1>5, ListsKept DEF IInv, svars
<1>7. /\ UNCHANGED <<c, ecp, ert, cst, handle, dcp>>
      /\ epc'[e] = "func" /\ \A f \in Executors : f # e => epc'[f] = epc[f]
      /\ runs'[x] = 1 /\ \A y \in Clients : y # x => runs'[y] = runs[y]
  BY <1>3, <1>4 DEF IInv, Typed, svars, cvars
<1>8. FreeOK' /\ OwnOK' /\ IdsOK' /\ WaitOK'
  BY <1>6, <1>7 DEF IInv, FreeOK, OwnOK, IdsOK, WaitOK
<1>9. ExecOK'
  <2>1. \A f \in Executors : Busy(f)' <=> Busy(f)
    BY <1>0, <1>7 DEF Busy
  <2> QED BY <1>6, <1>7, <2>1 DEF IInv, ExecOK
<1>10. RunsOK'
  <2>1. Called(s)'
    BY <1>4, <1>7 DEF Called
  <2>2. ASSUME NEW t \in InTable, t # s PROVE (Called(t)' <=> Called(t)) /\ c[t].c_arg # x
    <3>1. c[t].c_arg # x
      BY <1>2, <2>2 DEF IInv, OwnOK
    <3>2. c[t].executing => c[t].c_executor \in Executors /\ c[t].c_executor # e
      BY <1>1, <2>2 DEF IInv, ExecOK
    <3> QED BY <1>7, <3>1, <3>2 DEF Called
  <2>3. ASSUME NEW t \in InTable PROVE runs'[c[t].c_arg] = IF Called(t)' THEN 1 ELSE 0
    <3>1. CASE t = s
      BY <1>2, <1>7, <2>1, <3>1
    <3>2. CASE t # s
      BY <1>7, <2>2, <3>2 DEF IInv, RunsOK, OwnOK
    <3> QED BY <3>1, <3>2
  <2>4. \A y \in Clients : cst'[y] # "none" /\ (\A t \in InTable' : c'[t].c_arg # y) => runs'[y] = 1
    BY <1>2, <1>6, <1>7 DEF IInv, RunsOK
  <2> QED BY <1>6, <1>7, <2>3, <2>4 DEF RunsOK
<1> QED BY <1>5, <1>6, <1>8, <1>9, <1>10 DEF IInv

(* A function that calls untimeout() on its own id does not wait for       *)
(* itself: c_executor is the caller.                                       *)
LEMMA NestedIsReturn ==
  ASSUME IInv, NEW e \in Executors, NestedUntimeout(e)
  PROVE  FuncReturns(e)
<1>1. epc[e] = "func"
  BY DEF NestedUntimeout
<1>2. NestedReturns(e)
  BY <1>1 DEF IInv, ExecOK, Busy, NestedReturns
<1> QED BY <1>2 DEF NestedUntimeout

-----------------------------------------------------------------------
(* callout_execute(): the scans. *)

(* Executor e has t in its hands, or nothing if t is None; the other       *)
(* fields are as in fields.                                                *)
InHand(e, t, fields) ==
  /\ t = None \/ (t \in InTable /\ ~c[t].executing)
  /\ c' \in [Structs -> Fields]
  /\ \A u \in Structs : u # t => c'[u] = fields[u]
  /\ t # None => /\ c'[t].executing /\ c'[t].c_executor = e
                 /\ c'[t].c_arg = c[t].c_arg /\ c'[t].c_id = c[t].c_id
                 /\ c'[t].c_runtime = c[t].c_runtime /\ ert'[e] = c[t].c_runtime
  /\ ecp' = [ecp EXCEPT ![e] = t]
  /\ ert' \in [Executors -> Times] /\ \A f \in Executors : f # e => ert'[f] = ert[f]
  /\ epc' = [epc EXCEPT ![e] = IF t # None THEN "enter" ELSE IF Realtime THEN "idle" ELSE "wait"]

(* The callout that is taken is handed to the executor. *)
LEMMA TakeHands ==
  ASSUME Typed, NEW e \in Executors, NEW t \in InTable, t \in Structs, NEW r \in Times,
         Ready(t, r), NEW fields \in [Structs -> Fields], fields[t] = c[t],
         Take(e, t, r, fields)
  PROVE  InHand(e, t, fields)
<1>1. t # None
  BY SetsAssumption
<1>2. /\ c' = [fields EXCEPT ![t].executing = TRUE, ![t].c_executor = e]
      /\ ecp' = [ecp EXCEPT ![e] = t] /\ ert' = [ert EXCEPT ![e] = r]
      /\ epc' = [epc EXCEPT ![e] = "enter"]
  BY DEF Take
<1>3. c[t] \in Fields /\ ~c[t].executing /\ c[t].c_runtime = r
  BY DEF Typed, Ready
<1> DEFINE g == [fields EXCEPT ![t].executing = TRUE]
           v == [c[t] EXCEPT !.executing = TRUE]
           w == [v EXCEPT !.c_executor = e]
<1>4. v \in Fields /\ w \in Fields
  BY <1>3 DEF Fields
<1>5. /\ w.executing /\ w.c_executor = e /\ w.c_arg = c[t].c_arg /\ w.c_id = c[t].c_id
      /\ w.c_runtime = c[t].c_runtime
  BY <1>3 DEF Fields
<1>6. g = [fields EXCEPT ![t] = v]
  OBVIOUS
<1>7. g[t] = v /\ g \in [Structs -> Fields] /\ \A u \in Structs : u # t => g[u] = fields[u]
  BY <1>4, <1>6
<1>8. c' = [g EXCEPT ![t].c_executor = e]
  BY <1>2
<1> HIDE DEF g, v
<1>9. c' = [g EXCEPT ![t] = w]
  BY <1>7, <1>8
<1> HIDE DEF w
<1>10. /\ c'[t] = w /\ c' \in [Structs -> Fields]
       /\ \A u \in Structs : u # t => c'[u] = fields[u]
  BY <1>4, <1>7, <1>9
<1>11. /\ ert' \in [Executors -> Times] /\ ert'[e] = r
       /\ \A f \in Executors : f # e => ert'[f] = ert[f]
  BY <1>2 DEF Typed
<1> QED BY <1>1, <1>2, <1>3, <1>5, <1>10, <1>11 DEF InHand

(* What the outer loop of callout_execute() takes. *)
LEMMA OuterScanHands ==
  ASSUME Typed, StructsConserved, NEW e \in Executors, NEW start \in Times,
         NEW s \in Structs \cup {None}, s # None => c[s].executing,
         NEW fields \in [Structs -> Fields], \A u \in Structs : u # s => fields[u] = c[u],
         OuterScan(e, start, fields)
  PROVE  cs_runtime' \in Times /\ \E t \in Structs \cup {None} : InHand(e, t, fields)
<1> DEFINE R == ReadyTimes(start, cs_curtime)
           r == Earliest(R, start)
           q == cs_bucket[BucketOf(r)]
           t == FirstReady(q, r)
<1>1. cs_runtime' \in Times
  BY AdvanceType DEF OuterScan, Typed
<1>2. CASE R # {}
  <2>1. R \subseteq Times
    BY ReadyTimesIs DEF Typed
  <2>2. r \in R
    BY <1>2, <2>1, EarliestIs
  <2>3. r \in Times /\ \E u \in ToSet(q) : Ready(u, r)
    BY <2>2, ReadyTimesIs DEF Typed
  <2>4. q \in Seq(Structs) /\ IsInjective(q) /\ BucketOf(r) \in Slots
    BY <2>3, SlotOf, ListsInjective DEF Typed, Injective
  <2>5. HasReady(q, r)
    BY <2>3, <2>4, InList DEF HasReady
  <2>6. t \in ToSet(q) /\ Ready(t, r)
    BY <2>4, <2>5, FirstReadyIs
  <2>7. t \in InTable /\ t \in Structs
    BY <2>4, <2>6, InTableIs, InList
  <2>8. t # s
    <3>1. t # None
      BY <2>7, SetsAssumption
    <3> QED BY <2>6, <3>1 DEF Ready
  <2>9. Take(e, t, r, fields)
    BY <1>2 DEF OuterScan
  <2>10. fields[t] = c[t]
    BY <2>7, <2>8
  <2> HIDE DEF t, r, q, R
  <2>11. InHand(e, t, fields)
    BY <2>3, <2>6, <2>7, <2>9, <2>10, TakeHands
  <2> QED BY <1>1, <2>7, <2>11
<1>3. CASE R = {}
  <2>1. /\ c' = fields
        /\ ecp' = [ecp EXCEPT ![e] = None] /\ ert' = [ert EXCEPT ![e] = 0]
        /\ epc' = [epc EXCEPT ![e] = IF Realtime THEN "idle" ELSE "wait"]
    BY <1>3 DEF OuterScan
  <2>2. ert' \in [Executors -> Times] /\ \A f \in Executors : f # e => ert'[f] = ert[f]
    BY <2>1, ZeroIsTime DEF Typed
  <2>3. InHand(e, None, fields)
    BY <2>1, <2>2, SetsAssumption DEF InHand
  <2> QED BY <1>1, <2>3
<1> QED BY <1>2, <1>3

(* What a scan leaves behind: executor e, which was done with s, has       *)
(* deleted it, and has t in its hands; None stands for no struct.          *)
Scanned(e, s, t) ==
  /\ s = ecp[e] /\ epc[e] \in {"woken", "done"}
  /\ InTable' = InTable \ {s}
  /\ InHand(e, t, [u \in Structs |-> IF u = s THEN FreeStruct ELSE c[u]])
  /\ cst' = [x \in Clients |-> IF cst[x] = "delwait" /\ dcp[x] = s THEN "delwoken" ELSE cst[x]]
  /\ UNCHANGED <<handle, dcp, runs, due, allocated>>

(* A callout thread that is woken, or a realtime_timein, begins a scan     *)
(* with nothing in its hands.                                              *)
LEMMA ExecuteScans ==
  ASSUME IInv, NEW e \in Executors, Execute(e)
  PROVE  /\ Typed' /\ StructsConserved'
         /\ \E t \in Structs \cup {None} : Scanned(e, None, t)
         /\ cs_bucket' = cs_bucket
<1>1. /\ epc[e] = "woken" /\ OuterScan(e, cs_runtime, c)
      /\ UNCHANGED <<lbolt, ticked, cs_curtime, cs_bucket, cs_freelist, allocated, soft,
                     cst, handle, dcp, unsafe_driver, cpr_stop, saved, due, runs>>
  BY DEF Execute, cvars, hvars
<1>2. ecp[e] = None
  BY <1>1 DEF IInv, ExecOK, Busy
<1>3. /\ Typed /\ StructsConserved /\ c \in [Structs -> Fields] /\ cs_runtime \in Times
  BY DEF IInv, Typed
<1>4. /\ cs_runtime' \in Times /\ \E t \in Structs \cup {None} : InHand(e, t, c)
  BY <1>1, <1>3, OuterScanHands
<1>5. PICK t \in Structs \cup {None} : InHand(e, t, c)
  BY <1>4
<1>6. Typed'
  <2>1. ecp' \in [Executors -> Structs \cup {None}] /\ epc' \in [Executors -> EPCs]
    BY <1>3, <1>5 DEF InHand, Typed, EPCs
  <2>2. c' \in [Structs -> Fields] /\ ert' \in [Executors -> Times]
    BY <1>5 DEF InHand
  <2> QED BY <1>1, <1>3, <1>4, <2>1, <2>2 DEF Typed
<1>7. InTable' = InTable
  BY <1>1 DEF InTable
<1>8. \A u \in Structs : c'[u].c_runtime = c[u].c_runtime /\ c'[u].c_id = c[u].c_id
  BY <1>5, SetsAssumption DEF InHand
<1>9. StructsConserved'
  <2>1. Saved = {} /\ Saved' = {}
    BY <1>3, <1>6, SavedEmpty, SavedEmptyNext
  <2>2. \A b \in Slots : ToSet(cs_bucket[b]) \subseteq Structs
    BY <1>3, InList DEF Typed
  <2> QED BY <1>1, <1>3, <1>7, <1>8, <2>1, <2>2 DEF StructsConserved, Slots
<1>10. None \notin InTable /\ None \notin Structs
  BY <1>3, Located, SetsAssumption
<1>11. c = [u \in Structs |-> IF u = None THEN FreeStruct ELSE c[u]]
  BY <1>3, <1>10
<1>12. cst' = [x \in Clients |-> IF cst[x] = "delwait" /\ dcp[x] = None THEN "delwoken" ELSE cst[x]]
  <2>1. \A x \in Clients : cst[x] = "delwait" => dcp[x] # None
    BY <1>10 DEF IInv, WaitOK
  <2>2. cst = [x \in Clients |-> cst[x]] /\ cst' = cst
    BY <1>1, <1>3 DEF Typed
  <2>3. [x \in Clients |-> cst[x]]
         = [x \in Clients |-> IF cst[x] = "delwait" /\ dcp[x] = None THEN "delwoken" ELSE cst[x]]
    BY <2>1, Zenon
  <2> QED BY <2>2, <2>3
<1>13. InHand(e, t, [u \in Structs |-> IF u = None THEN FreeStruct ELSE c[u]])
  BY <1>5, <1>11
<1>14. InTable' = InTable \ {None}
  BY <1>7, <1>10
<1>15. Scanned(e, None, t)
  BY <1>1, <1>2, <1>12, <1>13, <1>14 DEF Scanned
<1> QED BY <1>1, <1>6, <1>9, <1>15

(* The part of a list behind an element has no struct twice either. *)
LEMMA BehindInjective ==
  ASSUME NEW T, NEW q \in Seq(T), IsInjective(q), NEW s \in ToSet(q)
  PROVE  IsInjective(Behind(q, s))
<1> DEFINE p == PosOf(q, s)
           b == Behind(q, s)
<1>1. p \in 1..Len(q)
  BY PosProperty
<1>2. b = SubSeq(q, p + 1, Len(q)) /\ Len(q) \in Nat
  BY DEF Behind
<1>3. b \in Seq(T) /\ Len(b) = Len(q) - p /\ \A i \in 1..Len(b) : b[i] = q[p + i] /\ p + i \in 1..Len(q)
  <2> HIDE DEF p, b
  <2> QED BY <1>1, <1>2
<1>4. \A i, j \in 1..Len(q) : q[i] = q[j] => i = j
  BY InjectiveIs
<1> HIDE DEF p, b
<1>5. \A i, j \in 1..Len(b) : b[i] = b[j] => p + i = p + j
  BY <1>3, <1>4
<1>6. \A i, j \in 1..Len(b) : b[i] = b[j] => i = j
  BY <1>1, <1>3, <1>5
<1> QED BY <1>3, <1>6, InjectiveIs DEF b

(* Finish does too. *)
LEMMA FinishScans ==
  ASSUME IInv, NEW e \in Executors, Finish(e)
  PROVE  /\ Typed' /\ StructsConserved'
         /\ \E s \in InTable : \E t \in Structs \cup {None} : Scanned(e, s, t)
         /\ \A d \in Slots : \A u, v : Before(cs_bucket'[d], u, v) => Before(cs_bucket[d], u, v)
<1>0. Typed /\ StructsConserved
  BY DEF IInv
<1>1. epc[e] = "done" /\ ecp[e] # None
  BY DEF Finish, IInv, ExecOK, Busy
<1>2. PICK s \in InTable : s = ecp[e]
  BY <1>1 DEF IInv, ExecOK
<1>3. c[s].executing /\ c[s].c_runtime = ert[e]
  BY <1>1, <1>2 DEF IInv, ExecOK
<1> DEFINE b == BucketOf(ert[e])
           q == cs_bucket[b]
           rest == Behind(q, s)
           g == [c EXCEPT ![s] = FreeStruct]
<1>4. /\ cs_bucket' = [cs_bucket EXCEPT ![b] = Unlink(@, s)]
      /\ cs_freelist' = <<s>> \o cs_freelist
      /\ BroadcastDone(s)
      /\ UNCHANGED <<lbolt, ticked, cs_curtime, allocated, soft, handle, dcp, unsafe_driver,
                     cpr_stop, saved, due, runs>>
  BY <1>2 DEF Finish, hvars
<1>5. \/ HasReady(rest, ert[e]) /\ Take(e, FirstReady(rest, ert[e]), ert[e], g) /\ UNCHANGED cs_runtime
      \/ OuterScan(e, NextStart(ert[e]), g)
  BY <1>2 DEF Finish
<1>6. s \in Structs /\ b \in Slots /\ s \in ToSet(cs_bucket[b])
  BY <1>0, <1>3, Located
<1>7. /\ cs_bucket' \in [Slots -> Seq(Structs)] /\ Injective'
      /\ InTable' = InTable \ {s}
      /\ \A d \in Slots : ToSet(cs_bucket'[d]) = ToSet(cs_bucket[d]) \ {s}
      /\ \A d \in Slots : \A u, v : Before(cs_bucket'[d], u, v) => Before(cs_bucket[d], u, v)
  BY <1>0, <1>4, <1>6, RemoveTable
<1>8. /\ g \in [Structs -> Fields] /\ g[s] = FreeStruct
      /\ \A u \in Structs : u # s => g[u] = c[u]
      /\ g = [u \in Structs |-> IF u = s THEN FreeStruct ELSE c[u]]
  BY <1>0, <1>6, FreeStructType DEF Typed
<1>9. q \in Seq(Structs) /\ IsInjective(q)
  BY <1>0, <1>6, ListsInjective DEF Typed, Injective
<1>10. ert[e] \in Times /\ NextStart(ert[e]) \in Times /\ cs_runtime \in Times
  BY <1>0, ZeroIsTime, AddIs DEF NextStart, Typed
<1> HIDE DEF g, b
<1>11. cs_runtime' \in Times /\ \E t \in Structs \cup {None} : InHand(e, t, g)
  <2>1. CASE HasReady(rest, ert[e]) /\ Take(e, FirstReady(rest, ert[e]), ert[e], g) /\ UNCHANGED cs_runtime
    <3> DEFINE t == FirstReady(rest, ert[e])
    <3>1. rest \in Seq(Structs) /\ \A u : u \in ToSet(rest) <=> Before(q, s, u)
      BY <1>6, <1>9, BehindProperties
    <3>2. IsInjective(rest)
      BY <1>6, <1>9, BehindInjective
    <3>3. t \in ToSet(rest) /\ Ready(t, ert[e])
      BY <2>1, <3>1, <3>2, FirstReadyIs
    <3>4. t \in ToSet(q)
      BY <1>9, <3>1, <3>3, InList DEF Before
    <3>5. t \in InTable /\ t \in Structs
      BY <1>6, <1>9, <3>4, InTableIs, InList
    <3>6. t # s
      BY <1>3, <3>3 DEF Ready
    <3> HIDE DEF t
    <3>7. g[t] = c[t]
      BY <1>8, <3>5, <3>6
    <3>8. Take(e, t, ert[e], g)
      BY <2>1 DEF t
    <3>9. InHand(e, t, g)
      BY <1>0, <1>8, <1>10, <3>3, <3>5, <3>7, <3>8, TakeHands
    <3> QED BY <1>10, <2>1, <3>5, <3>9
  <2>2. CASE OuterScan(e, NextStart(ert[e]), g)
    BY <1>0, <1>3, <1>6, <1>8, <1>10, <2>2, OuterScanHands
  <2> QED BY <1>5, <2>1, <2>2
<1>12. PICK t \in Structs \cup {None} : InHand(e, t, g)
  BY <1>11
<1>13. cst' = [x \in Clients |-> IF cst[x] = "delwait" /\ dcp[x] = s THEN "delwoken" ELSE cst[x]]
  BY <1>4 DEF BroadcastDone
<1>14. Typed'
  <2>1. ecp' \in [Executors -> Structs \cup {None}] /\ epc' \in [Executors -> EPCs]
    BY <1>0, <1>12 DEF InHand, Typed, EPCs
  <2>2. c' \in [Structs -> Fields] /\ ert' \in [Executors -> Times]
    BY <1>12 DEF InHand
  <2>3. cs_freelist' \in Seq(Structs)
    BY <1>0, <1>4, <1>6, PushProperties DEF Typed
  <2>4. cst' \in [Clients -> CSTs]
    BY <1>0, <1>13 DEF Typed, CSTs
  <2> QED BY <1>0, <1>4, <1>7, <1>11, <2>1, <2>2, <2>3, <2>4 DEF Typed
<1>15. \A u \in InTable \ {s} : c'[u].c_runtime = c[u].c_runtime /\ c'[u].c_id = c[u].c_id
  <2>1. InTable \subseteq Structs
    BY <1>0, Located
  <2> QED BY <1>8, <1>12, <2>1, SetsAssumption DEF InHand
<1>16. StructsConserved'
  BY <1>0, <1>4, <1>7, <1>14, <1>15, PushFree
<1>17. InHand(e, t, [u \in Structs |-> IF u = s THEN FreeStruct ELSE c[u]])
  BY <1>8, <1>12
<1>18. Scanned(e, s, t)
  BY <1>1, <1>2, <1>4, <1>7, <1>13, <1>17 DEF Scanned
<1> QED BY <1>7, <1>14, <1>16, <1>18

(* A scan keeps the invariant. *)
LEMMA ScanKeeps ==
  ASSUME IInv, Typed', StructsConserved', NEW e \in Executors,
         NEW s \in Structs \cup {None}, NEW t \in Structs \cup {None}, Scanned(e, s, t)
  PROVE  IInv'
<1>0. InTable \subseteq Structs /\ None \notin Structs
  BY Located, SetsAssumption DEF IInv
<1>1. /\ s = ecp[e] /\ InTable' = InTable \ {s}
      /\ UNCHANGED <<handle, dcp, runs>>
      /\ cst' = [x \in Clients |-> IF cst[x] = "delwait" /\ dcp[x] = s THEN "delwoken" ELSE cst[x]]
  BY DEF Scanned
<1>2. s # None => /\ s \in InTable /\ c[s].executing /\ c[s].c_executor = e
                  /\ epc[e] # "enter"
  BY DEF Scanned, IInv, ExecOK
<1>3. t # None => t \in InTable /\ ~c[t].executing /\ t # s /\ t \in InTable'
  BY <1>0, <1>1, <1>2 DEF Scanned, InHand
<1>4. /\ \A u \in Structs : u # t /\ u # s => c'[u] = c[u]
      /\ s # None => c'[s] = FreeStruct
  BY <1>0, <1>3 DEF Scanned, InHand
<1>5. t # None => /\ c'[t].executing /\ c'[t].c_executor = e
                  /\ c'[t].c_arg = c[t].c_arg /\ c'[t].c_id = c[t].c_id
                  /\ c'[t].c_runtime = c[t].c_runtime /\ ert'[e] = c[t].c_runtime
  BY DEF Scanned, InHand
<1>6. /\ ecp'[e] = t /\ \A f \in Executors : f # e => ecp'[f] = ecp[f] /\ ert'[f] = ert[f] /\ epc'[f] = epc[f]
      /\ t # None => epc'[e] = "enter"
      /\ t = None => epc'[e] \in {"idle", "wait"}
  BY DEF Scanned, InHand, IInv, Typed
<1>7. \A u \in InTable' : /\ u \in InTable /\ u # s /\ u \in Structs
                          /\ c'[u].c_arg = c[u].c_arg /\ c'[u].c_id = c[u].c_id
                          /\ c'[u].c_runtime = c[u].c_runtime
  BY <1>0, <1>1, <1>4, <1>5
<1>8. \A u \in InTable : u # s => u \in InTable'
  BY <1>1
<1>9. \A x \in Clients : cst'[x] = cst[x] \/ (cst[x] = "delwait" /\ cst'[x] = "delwoken")
  BY <1>1
<1>10. FreeOK'
  <2>1. ASSUME NEW u \in Structs, u \notin InTable' PROVE c'[u] = FreeStruct
    <3>1. CASE u = s
      BY <1>0, <1>4, <3>1
    <3>2. CASE u # s
      BY <1>0, <1>3, <1>4, <1>8, <2>1, <3>2 DEF IInv, FreeOK
    <3> QED BY <3>1, <3>2
  <2> QED BY <2>1 DEF FreeOK
<1>11. OwnOK'
  <2>1. \A u \in InTable' : /\ c'[u].c_arg \in Clients /\ c'[u].c_id = handle'[c'[u].c_arg]
                            /\ cst'[c'[u].c_arg] \in {"armed", "delwait", "delwoken"}
    BY <1>1, <1>7, <1>9 DEF IInv, OwnOK
  <2>2. \A u, w \in InTable' : c'[u].c_arg = c'[w].c_arg => u = w
    BY <1>7 DEF IInv, OwnOK
  <2> QED BY <2>1, <2>2 DEF OwnOK
<1>12. IdsOK'
  BY <1>1, <1>9 DEF IInv, IdsOK
<1>13. ExecOK'
  <2>1. ASSUME NEW f \in Executors
        PROVE  /\ Busy(f)' <=> ecp'[f] # None
               /\ ecp'[f] # None => /\ ecp'[f] \in InTable' /\ c'[ecp'[f]].executing
                                    /\ c'[ecp'[f]].c_executor = f /\ c'[ecp'[f]].c_runtime = ert'[f]
    <3>1. CASE f = e
      BY <1>3, <1>5, <1>6, <3>1 DEF Busy
    <3>2. CASE f # e
      <4>1. Busy(f) <=> ecp[f] # None
        BY DEF IInv, ExecOK
      <4>2. Busy(f)' <=> ecp'[f] # None
        BY <1>6, <3>2, <4>1 DEF Busy
      <4>3. ASSUME ecp[f] # None
            PROVE  /\ ecp[f] \in InTable /\ c[ecp[f]].executing /\ c[ecp[f]].c_executor = f
                   /\ c[ecp[f]].c_runtime = ert[f]
        BY <4>3 DEF IInv, ExecOK
      <4>4. ASSUME ecp[f] # None PROVE ecp[f] # s /\ ecp[f] # t
        BY <1>2, <1>3, <3>2, <4>3, <4>4
      <4> QED BY <1>0, <1>4, <1>6, <1>8, <3>2, <4>2, <4>3, <4>4
    <3> QED BY <3>1, <3>2
  <2>2. ASSUME NEW u \in InTable', c'[u].executing
        PROVE  c'[u].c_executor \in Executors /\ ecp'[c'[u].c_executor] = u
    <3>1. CASE u = t
      BY <1>0, <1>5, <1>6, <1>7, <3>1
    <3>2. CASE u # t
      <4>1. u \in InTable /\ c'[u] = c[u] /\ u # s
        BY <1>4, <1>7, <3>2
      <4>2. c[u].c_executor \in Executors /\ ecp[c[u].c_executor] = u
        BY <2>2, <4>1 DEF IInv, ExecOK
      <4> QED BY <1>1, <1>6, <4>1, <4>2
    <3> QED BY <3>1, <3>2
  <2> QED BY <2>1, <2>2 DEF ExecOK
<1>14. RunsOK'
  <2>1. ASSUME NEW u \in InTable' PROVE runs'[c'[u].c_arg] = IF Called(u)' THEN 1 ELSE 0
    <3>0. u \in InTable /\ runs'[c'[u].c_arg] = runs[c[u].c_arg]
      BY <1>1, <1>7
    <3>1. Called(u)' <=> Called(u)
      <4>1. CASE u = t
        BY <1>0, <1>3, <1>5, <1>6, <1>7, <4>1 DEF Called
      <4>2. CASE u # t
        <5>1. c'[u] = c[u] /\ u # s
          BY <1>4, <1>7, <4>2
        <5>2. c[u].executing => c[u].c_executor \in Executors /\ c[u].c_executor # e
          BY <1>1, <3>0, <5>1 DEF IInv, ExecOK
        <5> QED BY <1>6, <5>1, <5>2 DEF Called
      <4> QED BY <4>1, <4>2
    <3> QED BY <3>0, <3>1 DEF IInv, RunsOK
  <2>2. ASSUME NEW x \in Clients, cst'[x] # "none", \A u \in InTable' : c'[u].c_arg # x
        PROVE  runs'[x] = 1
    <3>1. cst[x] # "none"
      BY <1>9, <2>2
    <3>2. CASE \A u \in InTable : c[u].c_arg # x
      BY <1>1, <3>1, <3>2 DEF IInv, RunsOK
    <3>3. CASE \E u \in InTable : c[u].c_arg = x
      <4>1. PICK u \in InTable : c[u].c_arg = x
        BY <3>3
      <4>2. u = s
        BY <1>7, <1>8, <2>2, <4>1
      <4>3. Called(s)
        BY <1>0, <1>2, <4>1, <4>2 DEF Called
      <4> QED BY <1>1, <4>1, <4>2, <4>3 DEF IInv, RunsOK
    <3> QED BY <3>2, <3>3
  <2> QED BY <2>1, <2>2 DEF RunsOK
<1>15. WaitOK'
  <2> SUFFICES ASSUME NEW x \in Clients
               PROVE  /\ cst'[x] \in {"delwait", "delwoken"} =>
                           /\ dcp'[x] \in Structs
                           /\ \A u \in InTable' : c'[u].c_arg = x => u = dcp'[x] /\ c'[u].executing
                      /\ cst'[x] = "delwait" => dcp'[x] \in InTable' /\ c'[dcp'[x]].c_arg = x
    BY DEF WaitOK
  <2>1. ASSUME cst'[x] \in {"delwait", "delwoken"}
        PROVE  /\ dcp[x] \in Structs
               /\ \A u \in InTable' : c'[u].c_arg = x => u = dcp[x] /\ c'[u].executing
    <3>1. cst[x] \in {"delwait", "delwoken"}
      BY <1>9, <2>1
    <3>2. dcp[x] \in Structs /\ \A u \in InTable : c[u].c_arg = x => u = dcp[x] /\ c[u].executing
      BY <3>1 DEF IInv, WaitOK
    <3>3. ASSUME NEW u \in InTable', c'[u].c_arg = x PROVE u = dcp[x] /\ c'[u].executing
      <4>1. u = dcp[x] /\ c[u].executing
        BY <1>7, <3>2, <3>3
      <4>2. u # t /\ u # s
        BY <1>0, <1>3, <1>7, <4>1
      <4> QED BY <1>4, <1>7, <4>1, <4>2
    <3> QED BY <3>2, <3>3
  <2>2. ASSUME cst'[x] = "delwait" PROVE dcp[x] \in InTable' /\ c'[dcp[x]].c_arg = x
    <3>1. cst[x] = "delwait" /\ dcp[x] # s
      BY <1>1, <2>2
    <3>2. dcp[x] \in InTable /\ c[dcp[x]].c_arg = x
      BY <3>1 DEF IInv, WaitOK
    <3> QED BY <1>7, <1>8, <3>1, <3>2
  <2> QED BY <1>1, <2>1, <2>2
<1> QED BY <1>10, <1>11, <1>12, <1>13, <1>14, <1>15 DEF IInv

(* The invariant is inductive. *)
LEMMA NextIInv == IInv /\ [Next]_vars => IInv'
<1> SUFFICES ASSUME IInv, [Next]_vars PROVE IInv'
  OBVIOUS
<1>0. InTable \subseteq Structs
  BY Located DEF IInv
<1>1. ASSUME NEW x \in Clients, ClientStep(x) PROVE IInv'
  <2>1. CASE Returns(x)
    BY <2>1, ReturnsKeeps
  <2>2. CASE StaysInDelete(x)
    BY <2>2, StaysKeeps
  <2>3. CASE UntimeoutDelete(x)
    BY <2>3, DeleteKeeps
  <2>4. CASE EnterUnsafe(x) \/ ExitUnsafe(x)
    BY <2>4, QuietStepKeeps DEF QuietStep
  <2> QED BY <1>1, <2>1, <2>2, <2>3, <2>4 DEF ClientStep, Returns, StaysInDelete
<1>2. ASSUME NEW x \in Clients, NEW d \in Deltas, Timeout(x, d) PROVE IInv'
  BY <1>2, TimeoutKeeps
<1>3. ASSUME NEW e \in Executors, ExecutorStep(e) PROVE IInv'
  <2>1. CASE StartThread(e) \/ SoftInt(e) \/ BackToSleep(e) \/ FuncReturns(e) \/ CprWait(e)
    BY <2>1, QuietStepKeeps DEF QuietStep
  <2>2. CASE NestedUntimeout(e)
    BY <2>2, NestedIsReturn, QuietStepKeeps DEF QuietStep
  <2>3. CASE RunFunc(e)
    BY <2>3, RunFuncKeeps
  <2>4. CASE Execute(e)
    BY <2>4, ExecuteScans, ScanKeeps
  <2>5. CASE Finish(e)
    BY <1>0, <2>5, FinishScans, ScanKeeps
  <2> QED BY <1>3, <2>1, <2>2, <2>3, <2>4, <2>5 DEF ExecutorStep
<1>4. CASE Tick \/ CalloutSchedule \/ CprStop \/ CprSave \/ CprOtherRestored \/ CprRestore
  BY <1>4, QuietStepKeeps DEF QuietStep
<1>5. CASE UNCHANGED vars
  <2>1. UNCHANGED <<lbolt, ticked, cs_curtime, cs_runtime, cs_bucket, cs_freelist, allocated, c,
                    epc, ecp, ert, soft, cst, handle, dcp, unsafe_driver, cpr_stop, saved, due, runs>>
    BY <1>5 DEF vars, tvars, svars, evars, cvars, hvars
  <2>2. Typed'
    BY <2>1 DEF IInv, Typed
  <2> QED BY <2>1, <2>2, QuietKeeps DEF Busy
<1> QED BY <1>1, <1>2, <1>3, <1>4, <1>5 DEF Next

(* IInv is an invariant of the table. *)
LEMMA IInvHolds == Spec => []IInv
<1>1. Init => IInv
  BY InitIInv
<1>2. IInv /\ [Next]_vars => IInv'
  BY NextIInv
<1> QED BY <1>1, <1>2, PTL DEF Spec

(* After untimeout() has returned, the function does not run any more. *)
LEMMA IInvGone == IInv => GoneAfterUntimeout
<1> SUFFICES ASSUME IInv, NEW x \in Clients, cst[x] = "none"
             PROVE  /\ \A s \in InTable : c[s].c_arg # x
                    /\ \A e \in Executors : ecp[e] # None => c[ecp[e]].c_arg # x
  BY DEF GoneAfterUntimeout
<1>1. \A s \in InTable : c[s].c_arg # x
  BY DEF IInv, OwnOK
<1>2. \A e \in Executors : ecp[e] # None => ecp[e] \in InTable
  BY DEF IInv, ExecOK
<1> QED BY <1>1, <1>2

(* A callout is called once and is not lost. *)
LEMMA IInvOnce == IInv => RunsExactlyOnce
<1> SUFFICES ASSUME IInv, NEW x \in Clients, cst[x] # "none"
             PROVE  /\ runs[x] <= 1
                    /\ \/ runs[x] = 1
                       \/ \E s \in InTable \cup Saved : c[s].c_arg = x /\ c[s].c_id = handle[x]
  BY DEF RunsExactlyOnce
<1>1. CASE \A s \in InTable : c[s].c_arg # x
  BY <1>1 DEF IInv, RunsOK
<1>2. CASE \E s \in InTable : c[s].c_arg = x
  <2>1. PICK s \in InTable : c[s].c_arg = x
    BY <1>2
  <2>2. c[s].c_id = handle[x]
    BY <2>1 DEF IInv, OwnOK
  <2>3. runs[x] \in {0, 1}
    BY <2>1 DEF IInv, RunsOK
  <2> QED BY <2>1, <2>2, <2>3
<1> QED BY <1>1, <1>2

(* The parts of TableSound that do not speak of times. *)
LEMMA IInvSound == IInv => TypeOK /\ StructsConserved /\ NoLostDone
<1> SUFFICES ASSUME IInv PROVE TypeOK /\ NoLostDone
  BY DEF IInv
<1>1. NoLostDone
  <2> SUFFICES ASSUME NEW x \in Clients, cst[x] = "delwait" PROVE StillExecuting(x)
    BY DEF NoLostDone
  <2>1. dcp[x] \in InTable /\ c[dcp[x]].c_arg = x /\ c[dcp[x]].executing
    BY DEF IInv, WaitOK
  <2>2. c[dcp[x]].c_id = handle[x]
    BY <2>1 DEF IInv, OwnOK
  <2> QED BY <2>1, <2>2 DEF StillExecuting
<1>2. TypeOK
  <2>1. {lbolt, cs_curtime, cs_runtime} \subseteq 0..(TimeMod - 1) /\ ticked \in BOOLEAN
    BY DEF IInv, Typed, Times
  <2>2. \A b \in 0..(Buckets - 1) : ToSet(cs_bucket[b]) \subseteq allocated
    BY Located, InTableIs DEF IInv, Slots
  <2>3. ToSet(cs_freelist) \subseteq allocated /\ allocated \subseteq Structs
    BY DEF IInv, Typed, StructsConserved
  <2>4. \A s \in Structs : c[s].c_arg \in Clients \cup {None} /\ c[s].c_runtime \in 0..(TimeMod - 1)
    BY DEF IInv, Typed, Fields, Times
  <2>5. \A e \in Executors :
          /\ epc[e] \in {"start", "idle", "wait", "woken", "enter", "func",
                         "selfwait", "done", "cprwait"}
          /\ ecp[e] \in Structs \cup {None}
    BY DEF IInv, Typed, EPCs
  <2>6. \A x \in Clients :
          /\ cst[x] \in {"none", "armed", "delwait", "delwoken", "retake"}
          /\ dcp[x] \in Structs \cup {None} /\ runs[x] \in Nat
    BY DEF IInv, Typed, CSTs
  <2>7. unsafe_driver \in Clients \cup Executors \cup {None}
    BY DEF IInv, Typed
  <2> QED BY <2>1, <2>2, <2>3, <2>4, <2>5, <2>6, <2>7 DEF TypeOK
<1> QED BY <1>1, <1>2

(* After untimeout() has returned, whatever it returned, the function is   *)
(* not running and will not run: for any number of clients, callout        *)
(* threads and structs, with unsafe drivers and suspends.                  *)
THEOREM GoneAfterUntimeoutHolds == Spec => []GoneAfterUntimeout
BY IInvHolds, IInvGone, PTL

(* A callout that is armed and not taken back is called at most once, and  *)
(* is in the table until it has been called, whatever is done to the table *)
(* while cs_lock is dropped for a function.                                *)
THEOREM RunsExactlyOnceHolds == Spec => []RunsExactlyOnce
BY IInvHolds, IInvOnce, PTL

(* What needs no hypothesis on the delays, for any range of a long: every  *)
(* struct is in one place, on the free list, in a bucket or set aside by a *)
(* suspend, whatever the callers, executors and suspends do, and nobody    *)
(* sleeps on the c_done of a callout that is no longer executing.          *)
THEOREM TableKept == Spec => [](TypeOK /\ StructsConserved /\ NoLostDone)
BY IInvHolds, IInvSound, PTL

-----------------------------------------------------------------------
(* The refinement of AbstractTimeout. *)

(* What the abstract table sees of a client's callout. *)
TmoMeaning ==
  \A x \in Clients :
    /\ cst[x] = "none" => Tmo[x] = "none"
    /\ cst[x] # "none" /\ (\A s \in InTable : c[s].c_arg # x) => Tmo[x] = "done"
    /\ \A s \in InTable : c[s].c_arg = x => Tmo[x] = IF c[s].executing THEN "running" ELSE "armed"

(* What TmoOf says of a client, by where its callout is. *)
LEMMA TmoIs == IInv => TmoMeaning
<1> SUFFICES ASSUME IInv, NEW x \in Clients
             PROVE  /\ cst[x] = "none" => Tmo[x] = "none"
                    /\ cst[x] # "none" /\ (\A s \in InTable : c[s].c_arg # x) => Tmo[x] = "done"
                    /\ \A s \in InTable : c[s].c_arg = x =>
                         Tmo[x] = IF c[s].executing THEN "running" ELSE "armed"
  BY DEF TmoMeaning
<1>1. Tmo[x] = TmoOf(x)
  BY DEF Tmo
<1>2. Saved = {}
  BY SavedEmpty DEF IInv
<1>3. OwnIn(x, InTable \cup Saved) = OwnIn(x, InTable)
  BY <1>2 DEF OwnIn
<1>4. (\A s \in InTable : c[s].c_arg # x) => OwnIn(x, InTable) = {}
  BY DEF OwnIn
<1>5. ASSUME NEW s \in InTable, c[s].c_arg = x
      PROVE  TmoOf(x) = IF c[s].executing THEN "running" ELSE "armed"
  <2>1. OwnIn(x, InTable) = {s}
    BY <1>5 DEF OwnIn, IInv, OwnOK
  <2>2. cst[x] # "none"
    BY <1>5 DEF IInv, OwnOK
  <2> QED BY <1>3, <2>1, <2>2 DEF TmoOf
<1> QED BY <1>1, <1>3, <1>4, <1>5 DEF TmoOf

(* The next state is seen the same way. *)
LEMMA TmoIsNext == IInv' => TmoMeaning'
BY TmoIs, PTL

(* The mapped variable is a function on the clients. *)
LEMMA TmoFun == Tmo = [x \in Clients |-> Tmo[x]] /\ Tmo' = [x \in Clients |-> Tmo'[x]]
<1>1. Tmo = [x \in Clients |-> TmoOf(x)] /\ Tmo' = [x \in Clients |-> TmoOf(x)']
  BY DEF Tmo
<1> QED BY <1>1

(* A step that gives one client's callout the value v. *)
LEMMA OneTmo ==
  ASSUME NEW x \in Clients, NEW v, Tmo'[x] = v, \A y \in Clients : y # x => Tmo'[y] = Tmo[y]
  PROVE  Tmo' = [Tmo EXCEPT ![x] = v]
<1>1. Tmo = [y \in Clients |-> Tmo[y]] /\ Tmo' = [y \in Clients |-> Tmo'[y]]
  BY TmoFun
<1> QED BY <1>1

(* A step that changes nothing the abstract table sees. *)
LEMMA SameTmo ==
  ASSUME IInv, IInv', InTable' = InTable, \A s \in InTable : c'[s] = c[s],
         \A x \in Clients : cst'[x] = "none" <=> cst[x] = "none"
  PROVE  Tmo' = Tmo
<1>1. TmoMeaning /\ TmoMeaning'
  BY TmoIs, TmoIsNext
<1>2. \A x \in Clients : Tmo'[x] = Tmo[x]
  BY <1>1 DEF TmoMeaning
<1>3. Tmo = [y \in Clients |-> Tmo[y]] /\ Tmo' = [y \in Clients |-> Tmo'[y]]
  BY TmoFun
<1>4. [y \in Clients |-> Tmo'[y]] = [y \in Clients |-> Tmo[y]]
  BY <1>2, Zenon
<1> QED BY <1>3, <1>4

(* timeout() arms. *)
LEMMA TimeoutArms ==
  ASSUME IInv, IInv', NEW x \in Clients, NEW delta \in Deltas, Timeout(x, delta)
  PROVE  AT!Arm(x)
<1>1. PICK s \in Structs : Inserted(x, delta, s)
  BY TimeoutInserts
<1>2. /\ cst[x] = "none" /\ \A y \in Clients : y # x => cst'[y] = cst[y]
  BY DEF IInv, Typed, Timeout
<1>3. /\ InTable' = InTable \cup {s} /\ s \notin InTable /\ c'[s].c_arg = x /\ ~c'[s].executing
      /\ \A t \in InTable : c'[t] = c[t]
  BY <1>1, Located DEF IInv, Inserted
<1>4. TmoMeaning /\ TmoMeaning'
  BY TmoIs, TmoIsNext
<1>5. Tmo[x] = "none" /\ Tmo'[x] = "armed"
  BY <1>2, <1>3, <1>4 DEF TmoMeaning
<1>6. \A y \in Clients : y # x => Tmo'[y] = Tmo[y]
  BY <1>2, <1>3, <1>4 DEF TmoMeaning
<1> QED BY <1>5, <1>6, OneTmo DEF AT!Arm

(* untimeout() of a callout that is not executing takes it back. *)
LEMMA DeleteCancels ==
  ASSUME IInv, IInv', NEW x \in Clients, UntimeoutDelete(x)
  PROVE  AT!Cancel(x)
<1>1. PICK s \in InTable : /\ c[s].c_arg = x /\ ~c[s].executing /\ InTable' = InTable \ {s}
                           /\ c' = [c EXCEPT ![s] = FreeStruct]
  BY DeleteRemoves
<1>2. cst'[x] = "none" /\ \A y \in Clients : y # x => cst'[y] = cst[y]
  BY DEF IInv, Typed, UntimeoutDelete, Disarm
<1>3. \A t \in InTable' : c'[t] = c[t]
  BY <1>1, Located DEF IInv, Typed
<1>4. TmoMeaning /\ TmoMeaning'
  BY TmoIs, TmoIsNext
<1>5. Tmo[x] = "armed" /\ Tmo'[x] = "none"
  BY <1>1, <1>2, <1>4 DEF TmoMeaning
<1>6. ASSUME NEW y \in Clients, y # x PROVE Tmo'[y] = Tmo[y]
  <2>1. \A t \in InTable : c[t].c_arg = y => t \in InTable'
    BY <1>1, <1>6
  <2>2. cst'[y] = cst[y]
    BY <1>2, <1>6
  <2> QED BY <1>1, <1>3, <1>4, <2>1, <2>2 DEF TmoMeaning
<1> QED BY <1>5, <1>6, OneTmo DEF AT!Cancel

(* untimeout() returns, or the id is dropped, when the callout is done. *)
LEMMA ReturnsDrops ==
  ASSUME IInv, IInv', NEW x \in Clients, Returns(x)
  PROVE  AT!Drop(x)
<1>1. cst[x] # "none" /\ \A s \in InTable : c[s].c_arg # x
  BY DoneWhenReturns
<1>2. Disarm(x) /\ UNCHANGED svars
  BY ReturnsDisarms
<1>3. cst'[x] = "none" /\ (\A y \in Clients : y # x => cst'[y] = cst[y]) /\ c' = c /\ InTable' = InTable
  BY <1>2 DEF IInv, Typed, Disarm, svars, InTable
<1>4. TmoMeaning /\ TmoMeaning'
  BY TmoIs, TmoIsNext
<1>5. Tmo[x] = "done" /\ Tmo'[x] = "none"
  BY <1>1, <1>3, <1>4 DEF TmoMeaning
<1>6. \A y \in Clients : y # x => Tmo'[y] = Tmo[y]
  BY <1>3, <1>4 DEF TmoMeaning
<1> QED BY <1>5, <1>6, OneTmo DEF AT!Drop

(* A scan completes one callout and starts another, or does one of them,   *)
(* or neither.                                                             *)
LEMMA ScanRuns ==
  ASSUME IInv, IInv', NEW e \in Executors,
         NEW s \in Structs \cup {None}, NEW t \in Structs \cup {None}, Scanned(e, s, t)
  PROVE  \E E, S \in SUBSET Clients : AT!Run(E, S)
<1> DEFINE E == {x \in Clients : s # None /\ c[s].c_arg = x}
           S == {x \in Clients : t # None /\ c[t].c_arg = x}
<1>0. InTable \subseteq Structs /\ None \notin Structs
  BY Located, SetsAssumption DEF IInv
<1>1. /\ s = ecp[e] /\ InTable' = InTable \ {s}
      /\ cst' = [x \in Clients |-> IF cst[x] = "delwait" /\ dcp[x] = s THEN "delwoken" ELSE cst[x]]
  BY DEF Scanned
<1>2. s # None => s \in InTable /\ c[s].executing
  BY <1>1 DEF IInv, ExecOK
<1>3. t # None => t \in InTable /\ ~c[t].executing /\ t # s /\ t \in InTable'
  BY <1>0, <1>1, <1>2 DEF Scanned, InHand
<1>4. /\ \A u \in InTable' : u # t => c'[u] = c[u]
      /\ t # None => c'[t].executing /\ c'[t].c_arg = c[t].c_arg
  BY <1>0, <1>1, <1>3 DEF Scanned, InHand
<1>5. \A x \in Clients : cst'[x] = "none" <=> cst[x] = "none"
  BY <1>1
<1>6. TmoMeaning /\ TmoMeaning'
  BY TmoIs, TmoIsNext
<1>7. ASSUME NEW x \in E PROVE Tmo[x] = "running" /\ Tmo'[x] = "done"
  <2>1. s \in InTable /\ c[s].executing /\ c[s].c_arg = x /\ cst[x] # "none"
    BY <1>2 DEF IInv, OwnOK
  <2>2. \A u \in InTable' : c'[u].c_arg # x
    BY <1>0, <1>1, <1>4, <2>1 DEF IInv, OwnOK
  <2> QED BY <1>5, <1>6, <2>1, <2>2 DEF TmoMeaning
<1>8. ASSUME NEW x \in S PROVE Tmo[x] = "armed" /\ Tmo'[x] = "running"
  BY <1>3, <1>4, <1>6 DEF TmoMeaning
<1>9. ASSUME NEW x \in Clients, x \notin E, x \notin S PROVE Tmo'[x] = Tmo[x]
  <2>1. \A u \in InTable : c[u].c_arg = x => u # s /\ u # t /\ u \in InTable' /\ c'[u] = c[u]
    BY <1>0, <1>1, <1>4, <1>9
  <2>2. \A u \in InTable' : c'[u].c_arg = x => u \in InTable /\ c[u].c_arg = x
    BY <1>0, <1>1, <1>3, <1>4
  <2>3. CASE \E u \in InTable : c[u].c_arg = x
    BY <1>6, <2>1, <2>3 DEF TmoMeaning
  <2>4. CASE \A u \in InTable : c[u].c_arg # x
    BY <1>5, <1>6, <2>2, <2>4 DEF TmoMeaning
  <2> QED BY <2>3, <2>4
<1> HIDE DEF E, S
<1>10. \A x \in Clients : Tmo'[x] = IF x \in E THEN "done" ELSE IF x \in S THEN "running" ELSE Tmo[x]
  BY <1>7, <1>8, <1>9
<1>11. Tmo' = [x \in Clients |-> IF x \in E THEN "done" ELSE IF x \in S THEN "running" ELSE Tmo[x]]
  <2>1. Tmo' = [x \in Clients |-> Tmo'[x]]
    BY TmoFun
  <2>2. [x \in Clients |-> Tmo'[x]]
         = [x \in Clients |-> IF x \in E THEN "done" ELSE IF x \in S THEN "running" ELSE Tmo[x]]
    BY <1>10, Zenon
  <2> QED BY <2>1, <2>2
<1>12. AT!Run(E, S)
  BY <1>7, <1>8, <1>11 DEF AT!Run
<1>13. E \in SUBSET Clients /\ S \in SUBSET Clients
  BY DEF E, S
<1> QED BY <1>12, <1>13

(* Every step of the table is a step of the abstract one, or none. *)
LEMMA CalloutStep ==
  ASSUME IInv, [Next]_vars
  PROVE  [AT!Next]_Tmo
<1>0. IInv' /\ InTable \subseteq Structs
  BY NextIInv, Located DEF IInv
<1>1. ASSUME UNCHANGED <<cs_bucket, c>>, \A x \in Clients : cst'[x] = "none" <=> cst[x] = "none"
      PROVE  Tmo' = Tmo
  <2>1. InTable' = InTable
    BY <1>1 DEF InTable
  <2> QED BY <1>0, <1>1, <2>1, SameTmo
<1>2. ASSUME QuietStep PROVE Tmo' = Tmo
  BY <1>1, <1>2, QuietStepIs
<1>3. ASSUME NEW x \in Clients, ClientStep(x) PROVE [AT!Next]_Tmo
  <2>1. CASE Returns(x)
    BY <1>0, <2>1, ReturnsDrops DEF AT!Next
  <2>2. CASE StaysInDelete(x)
    <3>1. UNCHANGED svars /\ cst[x] # "none" /\ \E v \in {"delwait", "delwoken", "retake"} : cst' = [cst EXCEPT ![x] = v]
      <4>1. CASE UntimeoutWait(x)
        BY <4>1 DEF UntimeoutWait, UntimeoutCall
      <4>2. CASE SpuriousWakeup(x)
        BY <4>2 DEF SpuriousWakeup
      <4>3. CASE DelRecheck(x) /\ (StillExecuting(x) \/ x \in UnsafeClients)
        BY <4>3 DEF DelRecheck
      <4> QED BY <2>2, <4>1, <4>2, <4>3 DEF StaysInDelete
    <3>2. \A y \in Clients : cst'[y] = "none" <=> cst[y] = "none"
      BY <3>1 DEF IInv, Typed
    <3> QED BY <1>1, <3>1, <3>2 DEF svars
  <2>3. CASE UntimeoutDelete(x)
    BY <1>0, <2>3, DeleteCancels DEF AT!Next
  <2>4. CASE EnterUnsafe(x) \/ ExitUnsafe(x)
    BY <1>2, <2>4 DEF QuietStep
  <2> QED BY <1>3, <2>1, <2>2, <2>3, <2>4 DEF ClientStep, Returns, StaysInDelete
<1>4. ASSUME NEW x \in Clients, NEW d \in Deltas, Timeout(x, d) PROVE [AT!Next]_Tmo
  BY <1>0, <1>4, TimeoutArms DEF AT!Next
<1>5. ASSUME NEW e \in Executors, ExecutorStep(e) PROVE [AT!Next]_Tmo
  <2>1. CASE StartThread(e) \/ SoftInt(e) \/ BackToSleep(e) \/ FuncReturns(e) \/ CprWait(e)
    BY <1>2, <2>1 DEF QuietStep
  <2>2. CASE NestedUntimeout(e)
    BY <1>2, <2>2, NestedIsReturn DEF QuietStep
  <2>3. CASE RunFunc(e)
    BY <1>1, <2>3 DEF RunFunc, svars, cvars
  <2>4. CASE Execute(e)
    <3>1. \E t \in Structs \cup {None} : Scanned(e, None, t)
      BY <2>4, ExecuteScans
    <3>2. \E E, S \in SUBSET Clients : AT!Run(E, S)
      BY <1>0, <3>1, ScanRuns
    <3> QED BY <3>2 DEF AT!Next
  <2>5. CASE Finish(e)
    <3>1. \E s \in InTable : \E t \in Structs \cup {None} : Scanned(e, s, t)
      BY <2>5, FinishScans
    <3>2. \E E, S \in SUBSET Clients : AT!Run(E, S)
      BY <1>0, <3>1, ScanRuns
    <3> QED BY <3>2 DEF AT!Next
  <2> QED BY <1>5, <2>1, <2>2, <2>3, <2>4, <2>5 DEF ExecutorStep
<1>6. CASE Tick \/ CalloutSchedule \/ CprStop \/ CprSave \/ CprOtherRestored \/ CprRestore
  BY <1>2, <1>6 DEF QuietStep
<1>7. CASE UNCHANGED vars
  BY <1>1, <1>7 DEF vars, svars, cvars
<1> QED BY <1>3, <1>4, <1>5, <1>6, <1>7 DEF Next

(* The callout table implements AbstractTimeout: a callout is taken back   *)
(* or run, not both, is run once, and untimeout() returns when it is gone. *)
THEOREM TimeoutRefinement == Spec => ImplementsTimeout
<1>1. Init => AT!Init
  <2> SUFFICES ASSUME Init PROVE AT!Init
    OBVIOUS
  <2>1. \A x \in Clients : TmoOf(x) = "none"
    BY DEF Init, TmoOf
  <2>2. [x \in Clients |-> TmoOf(x)] = [x \in Clients |-> "none"]
    BY <2>1, Zenon
  <2> QED BY <2>2 DEF AT!Init, Tmo
<1>2. IInv /\ [Next]_vars => [AT!Next]_Tmo
  BY CalloutStep
<1> QED BY <1>1, <1>2, IInvHolds, PTL DEF Spec, ImplementsTimeout, AT!Spec

-----------------------------------------------------------------------
(* The times. *)

(* Differences add up while they stay within half the range. *)
LEMMA Chain ==
  ASSUME NEW x \in Times, NEW y \in Times, NEW z \in Times,
         SDiff(x, y) + SDiff(y, z) >= 0 - Half, SDiff(x, y) + SDiff(y, z) < Half
  PROVE  SDiff(x, z) = SDiff(x, y) + SDiff(y, z)
<1> DEFINE a == SDiff(x, y)
           b == SDiff(y, z)
           d == SDiff(x, z)
<1>1. Half \in Nat /\ TimeMod \in Nat /\ TimeMod = 2 * Half /\ Half >= 1
  BY HalfTwice
<1>2. /\ a \in (0 - Half)..(Half - 1) /\ a \in {x - y, x - y + TimeMod, x - y - TimeMod}
      /\ b \in (0 - Half)..(Half - 1) /\ b \in {y - z, y - z + TimeMod, y - z - TimeMod}
      /\ d \in (0 - Half)..(Half - 1) /\ d \in {x - z, x - z + TimeMod, x - z - TimeMod}
  BY SDiffIs
<1>3. x \in Int /\ y \in Int /\ z \in Int
  BY <1>1 DEF Times
<1>4. a + b >= 0 - Half /\ a + b < Half
  OBVIOUS
<1> HIDE DEF a, b, d, Half
<1>5. d = a + b
  BY <1>1, <1>2, <1>3, <1>4
<1> QED BY <1>5 DEF a, b, d

(* Two times as seen from a third. *)
LEMMA Shift ==
  ASSUME NEW x \in Times, NEW y \in Times, NEW z \in Times,
         SDiff(x, z) - SDiff(y, z) >= 0 - Half, SDiff(x, z) - SDiff(y, z) < Half
  PROVE  SDiff(x, y) = SDiff(x, z) - SDiff(y, z)
<1> DEFINE a == SDiff(x, z)
           b == SDiff(y, z)
           d == SDiff(x, y)
<1>1. Half \in Nat /\ TimeMod \in Nat /\ TimeMod = 2 * Half /\ Half >= 1
  BY HalfTwice
<1>2. /\ a \in (0 - Half)..(Half - 1) /\ a \in {x - z, x - z + TimeMod, x - z - TimeMod}
      /\ b \in (0 - Half)..(Half - 1) /\ b \in {y - z, y - z + TimeMod, y - z - TimeMod}
      /\ d \in (0 - Half)..(Half - 1) /\ d \in {x - y, x - y + TimeMod, x - y - TimeMod}
  BY SDiffIs
<1>3. x \in Int /\ y \in Int /\ z \in Int
  BY <1>1 DEF Times
<1>4. a - b >= 0 - Half /\ a - b < Half
  OBVIOUS
<1> HIDE DEF a, b, d, Half
<1>5. d = a - b
  BY <1>1, <1>2, <1>3, <1>4
<1> QED BY <1>5 DEF a, b, d

(* Only equal times have difference zero. *)
LEMMA SDiffZero ==
  ASSUME NEW x \in Times, NEW y \in Times
  PROVE  SDiff(x, y) \in Int /\ (SDiff(x, y) = 0 <=> x = y)
<1> DEFINE a == SDiff(x, y)
<1>1. Half \in Nat /\ TimeMod \in Nat /\ TimeMod = 2 * Half /\ Half >= 1
  BY HalfTwice
<1>2. a \in (0 - Half)..(Half - 1) /\ a \in {x - y, x - y + TimeMod, x - y - TimeMod}
  BY SDiffIs
<1>3. x \in Int /\ y \in Int /\ x >= 0 /\ y >= 0 /\ x < TimeMod /\ y < TimeMod
  BY <1>1 DEF Times
<1> HIDE DEF a, Half
<1>4. a \in Int /\ (a = 0 <=> x = y)
  BY <1>1, <1>2, <1>3
<1> QED BY <1>4 DEF a

(* The opposite difference. *)
LEMMA Opposite ==
  ASSUME NEW x \in Times, NEW y \in Times, SDiff(x, y) > 0 - Half
  PROVE  SDiff(y, x) = 0 - SDiff(x, y)
<1>1. SDiff(y, y) = 0 /\ SDiff(x, y) \in Int /\ Half \in Nat /\ Half >= 1
  BY SDiffZero, HalfTwice
<1>2. SDiff(x, y) < Half
  BY <1>1, SDiffIs
<1>3. SDiff(y, y) - SDiff(x, y) >= 0 - Half /\ SDiff(y, y) - SDiff(x, y) < Half
  <2> HIDE DEF Half
  <2> QED BY <1>1, <1>2
<1> QED BY <1>1, <1>3, Shift

(* What ShortDelays gives. *)
LEMMA ShortIs ==
  ASSUME ShortDelays
  PROVE  /\ Half \in Nat /\ MaxLag \in Nat /\ MaxLag >= 1 /\ MaxLag + 1 < Half
         /\ \A d \in Deltas \cup {1} : d \in Nat /\ d + MaxLag < Half
         /\ \A x \in Times : Add(x, 1) \in Times /\ SDiff(Add(x, 1), x) = 1
<1>1. Half \in Nat /\ TimeMod \in Nat
  BY HalfTwice
<1>2. MaxLag \in Nat /\ MaxLag >= 1
  BY <1>1, TimeAssumption DEF Half
<1>3. \A d \in Deltas \cup {1} : d \in Nat
  BY <1>1, TimeAssumption
<1>4. \A d \in Deltas \cup {1} : d + MaxLag < Half
  BY DEF ShortDelays, Half
<1>5. 1 + MaxLag < Half
  BY <1>4
<1>6. 1 \in 0..(Half - 1)
  <2> HIDE DEF Half
  <2> QED BY <1>1, <1>2, <1>5
<1>7. \A x \in Times : Add(x, 1) \in Times /\ SDiff(Add(x, 1), x) = 1
  BY <1>6, SDiffAdd
<1> HIDE DEF Half
<1> QED BY <1>1, <1>2, <1>3, <1>4, <1>5, <1>7

(* Where the loop leaves cs_runtime: not behind start, at most one tick    *)
(* ahead of now, and not past a callout that is still to run.              *)
LEMMA AdvanceIs ==
  ASSUME ShortDelays, Typed, StructsConserved, NEW start \in Times, NEW now \in Times,
         SDiff(now, start) \in -1..MaxLag
  PROVE  /\ Advance(start, now) \in Times
         /\ SDiff(Advance(start, now), start) \in 0..(MaxLag + 1)
         /\ SDiff(now, Advance(start, now)) >= -1
         /\ ReadyTimes(start, now) # {} => SDiff(now, Advance(start, now)) >= 0
         /\ \A s \in InTable : ~c[s].executing /\ SDiff(c[s].c_runtime, start) >= 0 =>
              SDiff(c[s].c_runtime, Advance(start, now)) >= 0
<1> DEFINE a == Advance(start, now)
           n == SDiff(now, start)
           R == ReadyTimes(start, now)
<1>0. /\ Half \in Nat /\ MaxLag \in Nat /\ MaxLag >= 1 /\ MaxLag + 1 < Half
      /\ n \in Int /\ n >= -1 /\ n <= MaxLag
  BY ShortIs, SDiffZero
<1>1. a \in Times
  BY AdvanceType
<1>2. ASSUME NEW s \in InTable, ~c[s].executing
      PROVE  /\ c[s].c_runtime \in Times
             /\ SDiff(c[s].c_runtime, start) >= 0 /\ SDiff(c[s].c_runtime, start) <= n => c[s].c_runtime \in R
             /\ SDiff(c[s].c_runtime, start) \in Int /\ SDiff(c[s].c_runtime, start) < Half
  <2>1. /\ c[s] \in Fields /\ s \in ToSet(cs_bucket[BucketOf(c[s].c_runtime)])
    BY Located
  <2>2. c[s].c_runtime \in Times
    BY <2>1 DEF Fields
  <2>3. Ready(s, c[s].c_runtime)
    BY <1>2 DEF Ready
  <2>4. SDiff(c[s].c_runtime, start) \in (0 - Half)..(Half - 1)
    BY <2>2, SDiffIs
  <2>5. SDiff(c[s].c_runtime, start) \in Int /\ SDiff(c[s].c_runtime, start) < Half
    <3> HIDE DEF Half
    <3> QED BY <1>0, <2>4
  <2> QED BY <2>1, <2>2, <2>3, <2>5, ReadyTimesIs
<1>3. CASE R # {}
  <2>1. R \subseteq Times
    BY ReadyTimesIs
  <2>2. a \in R /\ \A q \in R : SDiff(a, start) <= SDiff(q, start)
    BY <1>3, <2>1, EarliestIs DEF Advance
  <2>3. SDiff(a, start) \in Int /\ SDiff(a, start) >= 0 /\ SDiff(a, start) <= n
    BY <2>1, <2>2, ReadyTimesIs, SDiffZero
  <2> HIDE DEF a, n, R, Half
  <2>4. n - SDiff(a, start) >= 0 - Half /\ n - SDiff(a, start) < Half /\ n - SDiff(a, start) >= 0
    BY <1>0, <2>3
  <2>5. SDiff(now, a) >= 0
    BY <1>1, <2>4, Shift DEF n
  <2>6. ASSUME NEW s \in InTable, ~c[s].executing, SDiff(c[s].c_runtime, start) >= 0
        PROVE  SDiff(c[s].c_runtime, a) >= 0
    <3> DEFINE k == SDiff(c[s].c_runtime, start)
    <3>1. c[s].c_runtime \in Times /\ k \in Int /\ k < Half /\ k >= 0
      BY <1>2, <2>6
    <3>2. SDiff(a, start) <= k
      <4>1. CASE k <= n
        BY <1>2, <2>2, <2>6, <4>1
      <4>2. CASE k > n
        <5> HIDE DEF k
        <5> QED BY <1>0, <2>3, <3>1, <4>2
      <4> HIDE DEF k
      <4> QED BY <1>0, <3>1, <4>1, <4>2
    <3>3. k - SDiff(a, start) >= 0 /\ k - SDiff(a, start) >= 0 - Half /\ k - SDiff(a, start) < Half
      <4> HIDE DEF k
      <4> QED BY <1>0, <2>3, <3>1, <3>2
    <3> QED BY <1>1, <3>1, <3>3, Shift
  <2>7. SDiff(now, a) \in Int
    BY <1>1, SDiffZero
  <2>8. SDiff(a, start) \in 0..(MaxLag + 1) /\ SDiff(now, a) >= -1
    BY <1>0, <2>3, <2>5, <2>7
  <2> QED BY <1>1, <2>5, <2>6, <2>8 DEF a, R
<1>4. CASE R = {} /\ SDiff(start, now) <= 0
  <2>1. a = Add(now, 1)
    BY <1>4 DEF Advance
  <2>2. SDiff(a, now) = 1
    BY <2>1, ShortIs
  <2> HIDE DEF a, n, R, Half
  <2>3. n > 0 - Half
    BY <1>0
  <2>4. SDiff(start, now) = 0 - n
    BY <2>3, Opposite DEF n
  <2>5. n >= 0
    BY <1>0, <1>4, <2>4
  <2>6. SDiff(a, start) = 1 + n
    <3>1. SDiff(a, now) + n >= 0 - Half /\ SDiff(a, now) + n < Half
      BY <1>0, <2>2, <2>5
    <3> QED BY <1>1, <2>2, <3>1, Chain DEF n
  <2>7. SDiff(now, a) = 0 - 1
    <3>1. SDiff(a, now) > 0 - Half
      BY <1>0, <2>2
    <3> QED BY <1>1, <2>2, <3>1, Opposite
  <2>8. ASSUME NEW s \in InTable, ~c[s].executing, SDiff(c[s].c_runtime, start) >= 0
        PROVE  SDiff(c[s].c_runtime, a) >= 0
    <3> DEFINE k == SDiff(c[s].c_runtime, start)
    <3>1. c[s].c_runtime \in Times /\ k \in Int /\ k < Half /\ k >= 0
      BY <1>2, <2>8
    <3>2. ~(k <= n)
      BY <1>2, <1>4, <2>8
    <3>3. k - SDiff(a, start) >= 0 /\ k - SDiff(a, start) >= 0 - Half /\ k - SDiff(a, start) < Half
      <4> HIDE DEF k
      <4> QED BY <1>0, <2>5, <2>6, <3>1, <3>2
    <3> QED BY <1>1, <3>1, <3>3, Shift
  <2>9. SDiff(a, start) \in 0..(MaxLag + 1) /\ SDiff(now, a) >= -1
    BY <1>0, <2>5, <2>6, <2>7
  <2> QED BY <1>1, <1>4, <2>8, <2>9 DEF a, R
<1>5. CASE R = {} /\ ~(SDiff(start, now) <= 0)
  <2>1. a = start
    BY <1>5 DEF Advance
  <2>2. SDiff(a, start) = 0
    BY <2>1, SDiffZero
  <2>3. SDiff(now, a) = n
    BY <2>1
  <2>4. \A s \in InTable : ~c[s].executing /\ SDiff(c[s].c_runtime, start) >= 0 => SDiff(c[s].c_runtime, a) >= 0
    BY <2>1
  <2> HIDE DEF a, n, R, Half
  <2>5. SDiff(a, start) \in 0..(MaxLag + 1) /\ SDiff(now, a) >= -1
    BY <1>0, <2>2, <2>3
  <2> QED BY <1>1, <1>5, <2>4, <2>5 DEF a, R
<1> QED BY <1>3, <1>4, <1>5

(* The times the table keeps are times. *)
LEMMA TableTimesType ==
  ASSUME Typed
  PROVE  TableTimes \subseteq Times /\ cs_runtime \in TableTimes
BY DEF Typed, TableTimes

(* The time of a callout is a time. *)
LEMMA PendingTime ==
  ASSUME Typed, StructsConserved, NEW s \in InTable
  PROVE  c[s].c_runtime \in Times /\ s \in Structs
BY Located DEF Fields

(* A clock that reaches time now from which old work is seen. *)
LEMMA LagFrom ==
  ASSUME ShortDelays, NEW r \in Times, NEW l \in Times, NEW t \in Times,
         SDiff(l, t) \in {0, 1}, SDiff(l, r) \in -1..MaxLag
  PROVE  SDiff(t, r) = SDiff(l, r) - SDiff(l, t)
<1> DEFINE a == SDiff(l, t)
           b == SDiff(l, r)
<1>0. /\ Half \in Nat /\ MaxLag \in Nat /\ MaxLag >= 1 /\ MaxLag + 1 < Half
      /\ a \in {0, 1} /\ b \in -1..MaxLag
  BY ShortIs
<1>1. SDiff(t, l) = 0 - a
  <2>1. a > 0 - Half
    <3> HIDE DEF a, b, Half
    <3> QED BY <1>0
  <2> QED BY <2>1, Opposite
<1>2. SDiff(t, l) + b >= 0 - Half /\ SDiff(t, l) + b < Half
  <2> HIDE DEF a, b, Half
  <2> QED BY <1>0, <1>1
<1>3. SDiff(t, r) = SDiff(t, l) + b
  BY <1>2, Chain
<1> HIDE DEF a, b
<1>4. SDiff(t, r) = b - a
  BY <1>0, <1>1, <1>3
<1> QED BY <1>4 DEF a, b

(* A callout that has yet to be run, or whose function runs. *)
Live(s) == c[s].executing => epc[c[s].c_executor] \in {"enter", "func"}

(* The order of a bucket only loses structs. *)
OrderKept == \A d \in Slots : \A u, v : Before(cs_bucket'[d], u, v) => Before(cs_bucket[d], u, v)

(* A step that leaves the buckets alone keeps their order. *)
LEMMA SameOrder == cs_bucket' = cs_bucket => OrderKept
BY DEF OrderKept

(* Structs that stand before another are in the table. *)
LEMMA BeforeInTableNext ==
  ASSUME Typed', NEW b \in Slots, NEW u, NEW v, Before(cs_bucket'[b], u, v)
  PROVE  u \in InTable' /\ u \in Structs
<1>1. cs_bucket'[b] \in Seq(Structs)
  BY DEF Typed
<1>2. u \in ToSet(cs_bucket'[b])
  BY <1>1, InList DEF Before
<1> QED BY <1>1, <1>2, InList, InTableIsNext

(* A step that leaves the times alone and starts nothing. *)
LEMMA TimesKept ==
  ASSUME TimeInv, IInv, IInv',
         UNCHANGED <<lbolt, ticked, cs_curtime, cs_runtime, saved, ecp, ert>>,
         InTable' \subseteq InTable, OrderKept,
         \A s \in InTable' : c'[s] = c[s],
         \A s \in InTable' : Live(s)' => Live(s) /\ due'[c[s].c_arg] = due[c[s].c_arg]
  PROVE  TimeInv'
<1>1. ClockOK'
  BY DEF TimeInv, ClockOK
<1>2. TableTimes' = TableTimes
  BY DEF TableTimes
<1>3. LagOK'
  BY <1>2 DEF TimeInv, LagOK
<1>4. PendOK'
  BY <1>2 DEF TimeInv, PendOK
<1>5. DueOK'
  BY DEF TimeInv, DueOK, Live
<1>6. AheadOK'
  <2> SUFFICES ASSUME NEW e \in Executors, ecp'[e] # None, NEW u \in Structs,
                      Before(cs_bucket'[BucketOf(ert'[e])], u, ecp'[e]), Ready(u, ert[e])'
               PROVE  FALSE
    BY DEF AheadOK
  <2>1. ert[e] \in Times /\ BucketOf(ert[e]) \in Slots
    BY SlotOf DEF IInv, Typed
  <2>2. Before(cs_bucket[BucketOf(ert[e])], u, ecp[e])
    BY <2>1 DEF OrderKept
  <2>3. u \in InTable'
    BY <2>1, BeforeInTableNext DEF IInv
  <2>4. Ready(u, ert[e])
    BY <2>3 DEF Ready
  <2> QED BY <2>2, <2>4 DEF TimeInv, AheadOK
<1> QED BY <1>1, <1>3, <1>4, <1>5, <1>6 DEF TimeInv

(* The times still being worked on are times. *)
LEMMA OldWorkType ==
  ASSUME Typed
  PROVE  OldWork \subseteq Times
BY DEF Typed, OldWork

(* The clock. *)
LEMMA TickTime ==
  ASSUME ShortDelays, TimeInv, IInv, Tick
  PROVE  TimeInv'
<1>0. /\ UNCHANGED <<cs_curtime, cs_runtime, cs_bucket, c, epc, ecp, ert, saved, due>>
      /\ ticked' = TRUE /\ lbolt = cs_curtime
  BY DEF Tick, svars, evars, hvars, TimeInv, ClockOK
<1>1. InTable' = InTable /\ TableTimes' = TableTimes
  BY <1>0 DEF InTable, TableTimes
<1>2. DueOK' /\ AheadOK'
  BY <1>0, <1>1 DEF TimeInv, DueOK, AheadOK, Ready
<1>3. CASE lbolt' = lbolt
  <2>1. ClockOK'
    BY <1>0, <1>3 DEF TimeInv, ClockOK
  <2>2. LagOK' /\ PendOK'
    BY <1>0, <1>1, <1>3 DEF TimeInv, LagOK, PendOK
  <2> QED BY <1>2, <2>1, <2>2 DEF TimeInv
<1>4. CASE lbolt' = Add(lbolt, 1) /\ ~AtLagBound
  <2>0. /\ Half \in Nat /\ MaxLag \in Nat /\ MaxLag >= 1 /\ MaxLag + 1 < Half
        /\ \A d \in Deltas \cup {1} : d \in Nat /\ d + MaxLag < Half
        /\ lbolt \in Times /\ cs_curtime \in Times /\ TableTimes \subseteq Times
        /\ Typed /\ StructsConserved /\ cs_runtime \in TableTimes
    BY ShortIs, TableTimesType DEF IInv, Typed
  <2>1. lbolt' \in Times /\ SDiff(lbolt', lbolt) = 1
    BY <1>4, <2>0, ShortIs
  <2>2. \A r \in OldWork : SDiff(lbolt', r) <= MaxLag
    BY <1>4, <2>0, <2>1, SDiffZero, OldWorkType DEF AtLagBound
  <2>3. TableTimes \subseteq OldWork /\ \A e \in Executors : ecp[e] # None => ert[e] \in OldWork
    BY DEF TableTimes, OldWork
  <2>4. ASSUME NEW r \in Times, SDiff(lbolt, r) \in -1..MaxLag
        PROVE  SDiff(lbolt', r) = SDiff(lbolt, r) + 1
    <3>1. 1 + SDiff(lbolt, r) >= 0 - Half /\ 1 + SDiff(lbolt, r) < Half
      <4> HIDE DEF Half
      <4> QED BY <2>0, <2>4
    <3> QED BY <2>0, <2>1, <2>4, <3>1, Chain
  <2>5. ClockOK'
    BY <1>0, <2>1 DEF ClockOK
  <2>6. LagOK'
    <3>1. ASSUME NEW r \in TableTimes PROVE SDiff(lbolt', r) \in -1..MaxLag /\ SDiff(cs_curtime, r) >= -1
      <4>1. SDiff(lbolt, r) \in -1..MaxLag /\ SDiff(cs_curtime, r) >= -1 /\ r \in Times
        BY <2>0 DEF TimeInv, LagOK
      <4> HIDE DEF Half
      <4> QED BY <2>0, <2>2, <2>3, <2>4, <4>1
    <3>2. ASSUME NEW e \in Executors, ecp[e] # None
          PROVE  SDiff(lbolt', ert[e]) \in 0..MaxLag /\ SDiff(cs_curtime, ert[e]) >= 0
      <4>1. SDiff(lbolt, ert[e]) \in 0..MaxLag /\ SDiff(cs_curtime, ert[e]) >= 0 /\ ert[e] \in Times
        BY <3>2 DEF TimeInv, LagOK, IInv, Typed
      <4>2. SDiff(lbolt, ert[e]) \in -1..MaxLag
        BY <2>0, <4>1
      <4>3. SDiff(lbolt', ert[e]) <= MaxLag
        BY <2>2, <2>3, <3>2
      <4> HIDE DEF Half
      <4> QED BY <2>0, <2>4, <4>1, <4>2, <4>3
    <3> QED BY <1>0, <1>1, <3>1, <3>2 DEF LagOK
  <2>7. PendOK'
    <3> SUFFICES ASSUME NEW s \in InTable, ~c[s].executing
                 PROVE  /\ \A r \in TableTimes : SDiff(c[s].c_runtime, r) >= 0
                        /\ \E d \in Deltas \cup {1} : SDiff(c[s].c_runtime, lbolt') \in (-MaxLag)..d
      BY <1>0, <1>1 DEF PendOK
    <3> DEFINE k == c[s].c_runtime
               D == SDiff(k, lbolt)
               L == SDiff(lbolt, cs_runtime)
               a == SDiff(k, cs_runtime)
    <3>1. \A r \in TableTimes : SDiff(k, r) >= 0
      BY DEF TimeInv, PendOK
    <3>2. PICK d \in Deltas \cup {1} : D \in (-MaxLag)..d
      BY DEF TimeInv, PendOK
    <3>3. k \in Times
      BY <2>0, PendingTime
    <3>4. L \in -1..MaxLag /\ L + 1 <= MaxLag /\ cs_runtime \in Times
      <4>1. L \in -1..MaxLag /\ cs_runtime \in Times
        BY <2>0 DEF TimeInv, LagOK
      <4>2. SDiff(lbolt', cs_runtime) = L + 1
        BY <2>4, <4>1
      <4> QED BY <2>0, <2>2, <2>3, <4>1, <4>2
    <3>5. a = D + L
      <4>1. D + L >= 0 - Half /\ D + L < Half
        <5>1. d \in Nat /\ d + MaxLag < Half
          BY <2>0
        <5> HIDE DEF Half, D, L
        <5> QED BY <2>0, <3>2, <3>4, <5>1
      <4> QED BY <2>0, <3>3, <3>4, <4>1, Chain
    <3>6. a >= 0
      BY <2>0, <3>1
    <3>7. SDiff(k, lbolt') = D - 1
      <4>0. SDiff(lbolt, lbolt') = 0 - 1
        <5>1. SDiff(lbolt', lbolt) > 0 - Half
          <6> HIDE DEF Half
          <6> QED BY <2>0, <2>1
        <5> QED BY <2>0, <2>1, <5>1, Opposite
      <4>1. D + SDiff(lbolt, lbolt') >= 0 - Half /\ D + SDiff(lbolt, lbolt') < Half
        <5>1. d \in Nat /\ d + MaxLag < Half
          BY <2>0
        <5> HIDE DEF Half, D, L
        <5> QED BY <2>0, <3>2, <4>0, <5>1
      <4>2. SDiff(k, lbolt') = D + SDiff(lbolt, lbolt')
        BY <2>0, <2>1, <3>3, <4>1, Chain
      <4> HIDE DEF Half, D
      <4> QED BY <3>2, <4>0, <4>2, <2>0
    <3>8. D - 1 \in (-MaxLag)..d
      <4>1. d \in Nat
        BY <2>0
      <4> HIDE DEF Half, D, L, a
      <4> QED BY <2>0, <3>2, <3>4, <3>5, <3>6, <4>1
    <3> QED BY <3>1, <3>7, <3>8
  <2> QED BY <1>2, <2>5, <2>6, <2>7 DEF TimeInv
<1> QED BY <1>3, <1>4 DEF Tick

(* callout_schedule() *)
LEMMA ScheduleTime ==
  ASSUME ShortDelays, TimeInv, IInv, IInv', CalloutSchedule
  PROVE  TimeInv'
<1> DEFINE a == Advance(cs_runtime, lbolt)
<1>0. /\ cs_curtime' = lbolt /\ cs_runtime' = a
      /\ UNCHANGED <<lbolt, cs_bucket, c, ecp, ert, saved, due>>
  BY DEF CalloutSchedule, svars, hvars
<1>1. /\ Half \in Nat /\ MaxLag \in Nat /\ MaxLag >= 1 /\ MaxLag + 1 < Half
      /\ lbolt \in Times /\ cs_curtime \in Times /\ cs_runtime \in Times
      /\ TableTimes \subseteq Times /\ cs_runtime \in TableTimes
      /\ Typed /\ StructsConserved
  BY ShortIs, TableTimesType DEF IInv, Typed
<1>2. SDiff(lbolt, cs_runtime) \in -1..MaxLag
  BY <1>1 DEF TimeInv, LagOK
<1>3. /\ a \in Times /\ SDiff(a, cs_runtime) \in 0..(MaxLag + 1) /\ SDiff(lbolt, a) >= -1
      /\ \A s \in InTable : ~c[s].executing /\ SDiff(c[s].c_runtime, cs_runtime) >= 0 =>
           SDiff(c[s].c_runtime, a) >= 0
  BY <1>1, <1>2, AdvanceIs
<1> HIDE DEF a
<1>4. SDiff(lbolt, a) \in -1..MaxLag
  <2>1. /\ SDiff(lbolt, cs_runtime) - SDiff(a, cs_runtime) >= 0 - Half
        /\ SDiff(lbolt, cs_runtime) - SDiff(a, cs_runtime) < Half
    <3> HIDE DEF Half
    <3> QED BY <1>1, <1>2, <1>3
  <2>2. SDiff(lbolt, a) = SDiff(lbolt, cs_runtime) - SDiff(a, cs_runtime)
    BY <1>1, <1>3, <2>1, Shift
  <2> HIDE DEF Half
  <2> QED BY <1>1, <1>2, <1>3, <2>2
<1>5. InTable' = InTable /\ TableTimes' \subseteq TableTimes \cup {a}
  BY <1>0 DEF InTable, TableTimes
<1>6. ClockOK'
  <2>1. SDiff(lbolt, lbolt) = 0
    BY <1>1, SDiffZero
  <2> QED BY <1>0, <2>1 DEF ClockOK
<1>7. LagOK'
  <2>1. ASSUME NEW r \in TableTimes \cup {a} PROVE SDiff(lbolt, r) \in -1..MaxLag /\ SDiff(lbolt, r) >= -1
    <3>1. SDiff(lbolt, r) \in -1..MaxLag
      BY <1>4 DEF TimeInv, LagOK
    <3> QED BY <1>1, <3>1
  <2>2. ASSUME NEW e \in Executors, ecp[e] # None PROVE SDiff(lbolt, ert[e]) \in 0..MaxLag /\ SDiff(lbolt, ert[e]) >= 0
    <3>1. SDiff(lbolt, ert[e]) \in 0..MaxLag
      BY <2>2 DEF TimeInv, LagOK
    <3> QED BY <1>1, <3>1
  <2> QED BY <1>0, <1>5, <2>1, <2>2 DEF LagOK
<1>8. PendOK'
  BY <1>0, <1>1, <1>3, <1>5 DEF TimeInv, PendOK
<1>9. DueOK'
  <2>1. \A s \in InTable : Live(s)' => Live(s)
    <3> SUFFICES ASSUME NEW s \in InTable, c[s].executing, epc'[c[s].c_executor] \in {"enter", "func"}
                 PROVE  epc[c[s].c_executor] \in {"enter", "func"}
      BY <1>0 DEF Live
    <3>1. c[s].c_executor \in Executors
      BY DEF IInv, ExecOK
    <3>2. \A e \in Executors : PcMove(epc[e], epc'[e])
      BY QuietStepIs DEF QuietStep
    <3> QED BY <3>1, <3>2 DEF PcMove
  <2> QED BY <1>0, <1>5, <2>1 DEF TimeInv, DueOK, Live
<1>10. AheadOK'
  BY <1>0 DEF TimeInv, AheadOK, Ready
<1> QED BY <1>6, <1>7, <1>8, <1>9, <1>10 DEF TimeInv

(* The steps of a suspend. *)
LEMMA CprTime ==
  ASSUME TimeInv, IInv, IInv', CprSave \/ CprRestore
  PROVE  TimeInv'
<1>0. QuietStep
  BY DEF QuietStep
<1>1. /\ UNCHANGED <<cs_bucket, c, ecp, ert>>
      /\ \A e \in Executors : PcMove(epc[e], epc'[e])
  BY <1>0, QuietStepIs
<1>2. UNCHANGED <<lbolt, ticked, cs_curtime, due>>
  BY DEF CprSave, CprRestore, tvars, hvars
<1>3. TableTimes' \subseteq TableTimes
  <2>1. CASE CprSave
    <3>1. cs_runtime' = cs_runtime
      BY <2>1 DEF CprSave, tvars
    <3>2. saved' # << >> => saved'[1] = cs_runtime
      BY <2>1 DEF CprSave
    <3> QED BY <3>1, <3>2 DEF TableTimes
  <2>2. CASE CprRestore
    BY <2>2 DEF CprRestore, TableTimes
  <2> QED BY <2>1, <2>2
<1>4. InTable' = InTable
  BY <1>1 DEF InTable
<1>5. ClockOK' /\ LagOK' /\ PendOK'
  BY <1>1, <1>2, <1>3, <1>4 DEF TimeInv, ClockOK, LagOK, PendOK
<1>6. DueOK'
  <2>1. \A s \in InTable : Live(s)' => Live(s)
    <3> SUFFICES ASSUME NEW s \in InTable, c[s].executing, epc'[c[s].c_executor] \in {"enter", "func"}
                 PROVE  epc[c[s].c_executor] \in {"enter", "func"}
      BY <1>1 DEF Live
    <3>1. c[s].c_executor \in Executors
      BY DEF IInv, ExecOK
    <3> QED BY <1>1, <3>1 DEF PcMove
  <2> QED BY <1>1, <1>2, <1>4, <2>1 DEF TimeInv, DueOK, Live
<1>7. AheadOK'
  BY <1>1 DEF TimeInv, AheadOK, Ready
<1> QED BY <1>5, <1>6, <1>7 DEF TimeInv

(* The other steps of the clients and of the executors outside a scan. *)
LEMMA ClientTime ==
  ASSUME TimeInv, IInv, IInv', NEW x \in Clients, ClientStep(x)
  PROVE  TimeInv'
<1>0. InTable \subseteq Structs
  BY Located DEF IInv
<1>1. CASE Returns(x)
  <2>1. \A s \in InTable : c[s].c_arg # x
    BY <1>1, DoneWhenReturns
  <2>2. Disarm(x) /\ UNCHANGED <<tvars, svars, evars, cpr_stop, saved>>
    BY <1>1, ReturnsDisarms
  <2>3. \A y \in Clients : y # x => due'[y] = due[y]
    BY <2>2 DEF Disarm, IInv, Typed
  <2>4. InTable' = InTable /\ UNCHANGED <<c, epc, cs_bucket>>
    BY <2>2 DEF svars, evars, InTable
  <2>5. \A s \in InTable' : Live(s)' => Live(s) /\ due'[c[s].c_arg] = due[c[s].c_arg]
    BY <2>1, <2>3, <2>4 DEF Live, IInv, OwnOK
  <2> QED BY <2>2, <2>4, <2>5, TimesKept, SameOrder DEF tvars, evars
<1>2. CASE StaysInDelete(x) \/ EnterUnsafe(x) \/ ExitUnsafe(x)
  <2>1. UNCHANGED <<tvars, svars, evars, saved, hvars>>
    BY <1>2 DEF StaysInDelete, UntimeoutWait, UntimeoutCall, SpuriousWakeup, DelRecheck, EnterUnsafe, ExitUnsafe
  <2>2. InTable' = InTable /\ UNCHANGED <<c, epc, cs_bucket, due>>
    BY <2>1 DEF svars, evars, hvars, InTable
  <2>3. \A s \in InTable' : Live(s)' => Live(s)
    BY <2>2 DEF Live
  <2> QED BY <2>1, <2>2, <2>3, TimesKept, SameOrder DEF tvars, evars
<1>3. CASE UntimeoutDelete(x)
  <2>1. PICK s \in InTable : /\ c[s].c_arg = x /\ ~c[s].executing /\ InTable' = InTable \ {s}
                             /\ c' = [c EXCEPT ![s] = FreeStruct]
                             /\ OrderKept
    BY <1>3, DeleteRemoves DEF OrderKept
  <2>2. UNCHANGED <<tvars, evars, saved>>
    BY <1>3 DEF UntimeoutDelete, UntimeoutCall
  <2>3. \A y \in Clients : y # x => due'[y] = due[y]
    BY <1>3 DEF UntimeoutDelete, Disarm, IInv, Typed
  <2>4. \A t \in InTable' : t \in InTable /\ c'[t] = c[t] /\ c[t].c_arg # x /\ c[t].c_arg \in Clients
    BY <1>0, <2>1 DEF IInv, Typed, OwnOK
  <2>5. \A t \in InTable' : Live(t)' => Live(t) /\ due'[c[t].c_arg] = due[c[t].c_arg]
    BY <2>2, <2>3, <2>4 DEF Live, evars
  <2> QED BY <2>1, <2>2, <2>4, <2>5, TimesKept DEF tvars, evars
<1> QED BY <1>1, <1>2, <1>3 DEF ClientStep, Returns, StaysInDelete

(* The executors' steps outside a scan keep TimeInv. *)
LEMMA ExecutorTime ==
  ASSUME TimeInv, IInv, IInv', NEW e \in Executors,
         StartThread(e) \/ SoftInt(e) \/ BackToSleep(e) \/ CprWait(e) \/ FuncReturns(e) \/ RunFunc(e)
  PROVE  TimeInv'
<1>1. /\ UNCHANGED <<tvars, svars, ecp, ert, saved>>
      /\ \A f \in Executors : f # e => epc'[f] = epc[f]
      /\ epc'[e] \in {"enter", "func"} => epc[e] \in {"enter", "func"} /\ UNCHANGED due
  BY DEF StartThread, SoftInt, BackToSleep, CprWait, FuncReturns, RunFunc, IInv, Typed, hvars
<1>2. InTable' = InTable /\ UNCHANGED <<c, cs_bucket>>
  BY <1>1 DEF svars, InTable
<1>3. ASSUME NEW s \in InTable', Live(s)' PROVE Live(s) /\ due'[c[s].c_arg] = due[c[s].c_arg]
  <2>1. c[s].executing => c[s].c_executor \in Executors /\ ecp[c[s].c_executor] = s
    BY <1>2 DEF IInv, ExecOK
  <2>2. Live(s)
    BY <1>1, <1>2, <1>3, <2>1 DEF Live
  <2>3. due'[c[s].c_arg] = due[c[s].c_arg]
    <3>1. CASE ~FuncReturns(e)
      BY <3>1 DEF StartThread, SoftInt, BackToSleep, CprWait, RunFunc, hvars
    <3>2. CASE FuncReturns(e)
      <4>1. /\ epc[e] = "func" /\ epc' = [epc EXCEPT ![e] = "done"]
            /\ due' = [due EXCEPT ![c[ecp[e]].c_arg] = 0]
        BY <3>2 DEF FuncReturns
      <4>2. ecp[e] \in InTable /\ c[ecp[e]].executing /\ c[ecp[e]].c_executor = e
        BY <4>1 DEF IInv, ExecOK, Busy
      <4>3. s # ecp[e]
        BY <1>2, <1>3, <4>1, <4>2 DEF Live, IInv, Typed
      <4>4. c[s].c_arg # c[ecp[e]].c_arg /\ c[s].c_arg \in Clients
        BY <1>2, <4>2, <4>3 DEF IInv, OwnOK
      <4> QED BY <4>1, <4>4 DEF IInv, Typed
    <3> QED BY <3>1, <3>2
  <2> QED BY <2>2, <2>3
<1> QED BY <1>1, <1>2, <1>3, TimesKept, SameOrder DEF tvars

(* The time callout_insert() picks: after cs_curtime, no earlier than      *)
(* asked and at most a tick later, not further off than the delay.         *)
LEMMA RunTimeIs ==
  ASSUME ShortDelays, Typed, ClockOK, NEW delta \in Deltas
  PROVE  /\ RunTime(delta) \in Times
         /\ SDiff(RunTime(delta), Add(lbolt, delta)) \in {0, 1}
         /\ \E d \in Deltas \cup {1} : SDiff(RunTime(delta), lbolt) = d
         /\ SDiff(RunTime(delta), lbolt) + SDiff(lbolt, cs_curtime) >= 1
<1> DEFINE A == Add(lbolt, delta)
           k == SDiff(lbolt, cs_curtime)
           rt == RunTime(delta)
<1>0. /\ Half \in Nat /\ MaxLag \in Nat /\ MaxLag >= 1 /\ MaxLag + 1 < Half
      /\ delta \in Nat /\ delta + MaxLag < Half
      /\ lbolt \in Times /\ cs_curtime \in Times /\ k \in {0, 1}
  BY ShortIs DEF Typed, ClockOK
<1>1. delta \in 0..(Half - 1)
  <2> HIDE DEF Half
  <2> QED BY <1>0
<1>2. A \in Times /\ SDiff(A, lbolt) = delta
  BY <1>0, <1>1, SDiffAdd
<1>3. rt \in Times /\ rt = IF SDiff(A, cs_curtime) <= 0 THEN Add(cs_curtime, 1) ELSE A
  BY RunTimeType DEF RunTime
<1> HIDE DEF A, rt
<1>4. SDiff(A, cs_curtime) = delta + k
  <2>1. SDiff(A, lbolt) + k >= 0 - Half /\ SDiff(A, lbolt) + k < Half
    <3> HIDE DEF Half, k
    <3> QED BY <1>0, <1>2
  <2> QED BY <1>0, <1>2, <2>1, Chain
<1>5. CASE SDiff(A, cs_curtime) <= 0
  <2>1. delta = 0 /\ k = 0
    <3> HIDE DEF Half, k
    <3> QED BY <1>0, <1>4, <1>5
  <2>2. lbolt = cs_curtime /\ A = lbolt
    BY <1>0, <1>2, <2>1, SDiffZero
  <2>3. SDiff(rt, lbolt) = 1
    BY <1>0, <1>3, <1>5, <2>2, ShortIs
  <2> QED BY <1>3, <2>1, <2>2, <2>3 DEF A, rt
<1>6. CASE ~(SDiff(A, cs_curtime) <= 0)
  <2>1. rt = A /\ SDiff(rt, A) = 0 /\ SDiff(rt, lbolt) = delta
    BY <1>2, <1>3, <1>6, SDiffZero
  <2>2. delta + k >= 1
    <3> HIDE DEF Half, k
    <3> QED BY <1>0, <1>4, <1>6
  <2> QED BY <1>3, <2>1, <2>2 DEF A, rt
<1> QED BY <1>5, <1>6

(* timeout() *)
LEMMA TimeoutTime ==
  ASSUME ShortDelays, TimeInv, IInv, IInv', NEW x \in Clients, NEW delta \in Deltas, Timeout(x, delta)
  PROVE  TimeInv'
<1>1. PICK s \in Structs : Inserted(x, delta, s)
  BY TimeoutInserts
<1>2. PICK rt \in Times :
        /\ rt = RunTime(delta)
        /\ SDiff(rt, Add(lbolt, delta)) \in {0, 1}
        /\ \E d \in Deltas \cup {1} : SDiff(rt, lbolt) = d
        /\ SDiff(rt, lbolt) + SDiff(lbolt, cs_curtime) >= 1
  BY RunTimeIs DEF IInv, TimeInv
<1>3. /\ s \notin InTable /\ InTable' = InTable \cup {s}
      /\ c'[s].c_arg = x /\ ~c'[s].executing /\ c'[s].c_runtime = rt
      /\ \A t \in Structs : t # s => c'[t] = c[t]
      /\ \A d \in Slots : \A u, v : Before(cs_bucket'[d], u, v) => Before(cs_bucket[d], u, v) \/ u = s
  BY <1>1, <1>2 DEF Inserted
<1>4. /\ cst[x] = "none" /\ due' = [due EXCEPT ![x] = Add(lbolt, delta)]
      /\ UNCHANGED <<lbolt, ticked, cs_curtime, cs_runtime, epc, ecp, ert, saved>>
  BY DEF Timeout, tvars, evars
<1>5. due'[x] = Add(lbolt, delta) /\ \A y \in Clients : y # x => due'[y] = due[y]
  BY <1>4 DEF IInv, Typed
<1>6. \A t \in InTable : t \in Structs /\ t # s /\ c'[t] = c[t] /\ c[t].c_arg # x /\ c[t].c_arg \in Clients
  BY <1>3, <1>4, Located DEF IInv, OwnOK
<1>7. /\ Half \in Nat /\ MaxLag \in Nat /\ MaxLag >= 1 /\ MaxLag + 1 < Half
      /\ \A d \in Deltas \cup {1} : d \in Nat /\ d + MaxLag < Half
      /\ lbolt \in Times /\ cs_curtime \in Times /\ SDiff(lbolt, cs_curtime) \in {0, 1}
      /\ TableTimes \subseteq Times /\ TableTimes' = TableTimes
  BY <1>4, ShortIs, TableTimesType DEF IInv, Typed, TimeInv, ClockOK, TableTimes
<1>8. PICK d \in Deltas \cup {1} : SDiff(rt, lbolt) = d /\ d \in Nat /\ d + MaxLag < Half
  BY <1>2, <1>7
<1>9. ASSUME NEW r \in Times, SDiff(lbolt, r) \in -1..MaxLag
      PROVE  /\ SDiff(rt, r) = d + SDiff(lbolt, r)
             /\ SDiff(cs_curtime, r) = SDiff(lbolt, r) - SDiff(lbolt, cs_curtime)
  <2>1. d + SDiff(lbolt, r) >= 0 - Half /\ d + SDiff(lbolt, r) < Half
    <3> HIDE DEF Half
    <3> QED BY <1>7, <1>8, <1>9
  <2>2. SDiff(rt, r) = d + SDiff(lbolt, r)
    BY <1>7, <1>8, <2>1, Chain
  <2> QED BY <1>7, <1>9, <2>2, LagFrom
<1>10. ClockOK'
  BY <1>4 DEF TimeInv, ClockOK
<1>11. LagOK'
  BY <1>4, <1>7 DEF TimeInv, LagOK
<1>12. PendOK'
  <2>1. ASSUME NEW r \in TableTimes PROVE SDiff(rt, r) >= 0
    <3>1. r \in Times /\ SDiff(lbolt, r) \in -1..MaxLag /\ SDiff(cs_curtime, r) >= -1
      BY <1>7 DEF TimeInv, LagOK
    <3>2. /\ SDiff(rt, r) = d + SDiff(lbolt, r)
          /\ SDiff(cs_curtime, r) = SDiff(lbolt, r) - SDiff(lbolt, cs_curtime)
      BY <1>9, <3>1
    <3>3. d + SDiff(lbolt, cs_curtime) >= 1
      BY <1>2, <1>8
    <3> HIDE DEF Half
    <3> QED BY <1>7, <1>8, <3>1, <3>2, <3>3
  <2>2. SDiff(rt, lbolt) \in (-MaxLag)..d
    <3> HIDE DEF Half
    <3> QED BY <1>7, <1>8
  <2>3. ASSUME NEW t \in InTable', ~c'[t].executing
        PROVE  /\ \A r \in TableTimes : SDiff(c'[t].c_runtime, r) >= 0
               /\ \E f \in Deltas \cup {1} : SDiff(c'[t].c_runtime, lbolt) \in (-MaxLag)..f
    <3>1. CASE t = s
      BY <1>3, <2>1, <2>2, <3>1
    <3>2. CASE t # s
      <4>1. t \in InTable /\ c'[t] = c[t]
        BY <1>3, <1>6, <3>2
      <4> QED BY <2>3, <4>1 DEF TimeInv, PendOK
    <3> QED BY <3>1, <3>2
  <2> QED BY <1>4, <1>7, <2>3 DEF PendOK
<1>13. DueOK'
  <2> SUFFICES ASSUME NEW t \in InTable', Live(t)'
               PROVE  SDiff(c'[t].c_runtime, due'[c'[t].c_arg]) \in {0, 1}
    BY DEF DueOK, Live
  <2>1. CASE t = s
    BY <1>2, <1>3, <1>5, <2>1
  <2>2. CASE t # s
    <3>1. t \in InTable /\ c'[t] = c[t] /\ due'[c[t].c_arg] = due[c[t].c_arg]
      BY <1>3, <1>5, <1>6, <2>2
    <3>2. Live(t)
      BY <1>4, <3>1 DEF Live
    <3> QED BY <3>1, <3>2 DEF TimeInv, DueOK, Live
  <2> QED BY <2>1, <2>2
<1>14. AheadOK'
  <2> SUFFICES ASSUME NEW e \in Executors, ecp'[e] # None, NEW u \in Structs,
                      Before(cs_bucket'[BucketOf(ert'[e])], u, ecp'[e]), Ready(u, ert[e])'
               PROVE  FALSE
    BY DEF AheadOK
  <2>1. ert[e] \in Times /\ BucketOf(ert[e]) \in Slots
    BY SlotOf DEF IInv, Typed
  <2>2. u # s
    <3>1. SDiff(lbolt, ert[e]) \in 0..MaxLag /\ SDiff(cs_curtime, ert[e]) >= 0
      BY <1>4 DEF TimeInv, LagOK
    <3>2. SDiff(lbolt, ert[e]) \in -1..MaxLag
      BY <1>7, <3>1
    <3>3. /\ SDiff(rt, ert[e]) = d + SDiff(lbolt, ert[e])
          /\ SDiff(cs_curtime, ert[e]) = SDiff(lbolt, ert[e]) - SDiff(lbolt, cs_curtime)
      BY <1>9, <2>1, <3>2
    <3>4. d + SDiff(lbolt, cs_curtime) >= 1
      BY <1>2, <1>8
    <3>5. SDiff(rt, ert[e]) # 0
      <4> HIDE DEF Half
      <4> QED BY <1>7, <1>8, <3>1, <3>3, <3>4
    <3>6. rt # ert[e]
      BY <2>1, <3>5, SDiffZero
    <3> QED BY <1>3, <1>4, <3>6 DEF Ready
  <2>3. Before(cs_bucket[BucketOf(ert[e])], u, ecp[e])
    BY <1>3, <1>4, <2>1, <2>2
  <2>4. Ready(u, ert[e])
    BY <1>3, <1>4, <2>2 DEF Ready
  <2> QED BY <1>4, <2>3, <2>4 DEF TimeInv, AheadOK
<1> QED BY <1>10, <1>11, <1>12, <1>13, <1>14 DEF TimeInv

(* What a scan by e, which was done with s, does to the times: cs_runtime  *)
(* is left within reach of the clock and not past a callout that is still  *)
(* to run, and e has taken the first callout of a time that has come.      *)
ScanTimes(e, s) ==
  /\ SDiff(lbolt, cs_runtime') \in -1..MaxLag /\ SDiff(cs_curtime, cs_runtime') >= -1
  /\ \A t \in InTable : ~c[t].executing => SDiff(c[t].c_runtime, cs_runtime') >= 0
  /\ ecp'[e] # None =>
       /\ SDiff(lbolt, ert'[e]) \in 0..MaxLag /\ SDiff(cs_curtime, ert'[e]) >= 0
       /\ \A u \in Structs : u # s /\ Before(cs_bucket[BucketOf(ert'[e])], u, ecp'[e]) => ~Ready(u, ert'[e])

(* The outer loop of callout_execute() does so. *)
LEMMA OuterScanTimes ==
  ASSUME ShortDelays, TimeInv, IInv, NEW e \in Executors, NEW start \in Times, NEW s, NEW fields,
         SDiff(lbolt, start) \in -1..MaxLag, SDiff(cs_curtime, start) >= -1,
         \A t \in InTable : ~c[t].executing => SDiff(c[t].c_runtime, start) >= 0,
         OuterScan(e, start, fields)
  PROVE  ScanTimes(e, s)
<1> DEFINE a == Advance(start, cs_curtime)
           k == SDiff(lbolt, cs_curtime)
           L == SDiff(lbolt, start)
<1>0. /\ Half \in Nat /\ MaxLag \in Nat /\ MaxLag >= 1 /\ MaxLag + 1 < Half
      /\ lbolt \in Times /\ cs_curtime \in Times /\ k \in {0, 1}
      /\ Typed /\ StructsConserved /\ Injective
  BY ShortIs, ListsInjective DEF IInv, Typed, TimeInv, ClockOK
<1>1. SDiff(cs_curtime, start) = L - k
  BY <1>0, LagFrom
<1>2. SDiff(cs_curtime, start) \in -1..MaxLag
  <2> HIDE DEF Half, k, L
  <2> QED BY <1>0, <1>1 DEF L
<1>3. /\ a \in Times /\ SDiff(a, start) \in 0..(MaxLag + 1) /\ SDiff(cs_curtime, a) >= -1
      /\ ReadyTimes(start, cs_curtime) # {} => SDiff(cs_curtime, a) >= 0
      /\ \A t \in InTable : ~c[t].executing => SDiff(c[t].c_runtime, a) >= 0
  BY <1>0, <1>2, AdvanceIs
<1>4. cs_runtime' = a
  BY DEF OuterScan
<1> HIDE DEF a
<1>5. SDiff(lbolt, a) = L - SDiff(a, start) /\ SDiff(lbolt, a) \in Int
  <2>1. L - SDiff(a, start) >= 0 - Half /\ L - SDiff(a, start) < Half
    <3>1. L \in -1..MaxLag
      OBVIOUS
    <3> HIDE DEF Half, k, L
    <3> QED BY <1>0, <1>3, <3>1
  <2> QED BY <1>0, <1>3, <2>1, Shift, SDiffZero
<1>6. SDiff(lbolt, a) = k + SDiff(cs_curtime, a)
  <2>1. k + SDiff(cs_curtime, a) >= 0 - Half /\ k + SDiff(cs_curtime, a) < Half
    <3>1. SDiff(cs_curtime, a) = SDiff(cs_curtime, start) - SDiff(a, start)
      <4>1. /\ SDiff(cs_curtime, start) - SDiff(a, start) >= 0 - Half
            /\ SDiff(cs_curtime, start) - SDiff(a, start) < Half
        <5> HIDE DEF Half
        <5> QED BY <1>0, <1>2, <1>3
      <4> QED BY <1>0, <1>3, <4>1, Shift
    <3> HIDE DEF Half, k
    <3> QED BY <1>0, <1>2, <1>3, <3>1
  <2> QED BY <1>0, <1>3, <2>1, Chain
<1>7. SDiff(lbolt, a) \in -1..MaxLag /\ (SDiff(cs_curtime, a) >= 0 => SDiff(lbolt, a) \in 0..MaxLag)
  <2>1. L \in -1..MaxLag
    OBVIOUS
  <2>2. SDiff(cs_curtime, a) \in Int
    BY <1>0, <1>3, SDiffZero
  <2> HIDE DEF Half, k, L
  <2> QED BY <1>0, <1>3, <1>5, <1>6, <2>1, <2>2
<1>8. CASE ReadyTimes(start, cs_curtime) = {}
  <2>1. ecp' = [ecp EXCEPT ![e] = None]
    BY <1>8 DEF OuterScan
  <2>2. ecp'[e] = None
    BY <1>0, <2>1 DEF Typed
  <2> QED BY <1>3, <1>4, <1>7, <2>2 DEF ScanTimes
<1>9. CASE ReadyTimes(start, cs_curtime) # {}
  <2> DEFINE R == ReadyTimes(start, cs_curtime)
             q == cs_bucket[BucketOf(a)]
             t == FirstReady(q, a)
  <2>1. a = Earliest(R, start)
    BY <1>9 DEF a, Advance
  <2>2. a \in R
    <3>1. R \subseteq Times
      BY <1>0, ReadyTimesIs
    <3> QED BY <1>9, <2>1, <3>1, EarliestIs
  <2>3. \E u \in ToSet(q) : Ready(u, a)
    BY <1>0, <2>2, ReadyTimesIs
  <2>4. q \in Seq(Structs) /\ IsInjective(q)
    BY <1>0, <1>3, SlotOf DEF Typed, Injective
  <2>5. HasReady(q, a)
    BY <2>3, <2>4, InList DEF HasReady
  <2>6. \A u : Before(q, u, t) => ~Ready(u, a)
    BY <2>4, <2>5, FirstReadyIs
  <2>7. Take(e, t, a, fields)
    BY <1>9, <2>1 DEF OuterScan
  <2>8. ecp'[e] = t /\ ert'[e] = a
    BY <1>0, <2>7 DEF Take, Typed
  <2>9. SDiff(cs_curtime, a) >= 0 /\ SDiff(lbolt, a) \in 0..MaxLag
    BY <1>3, <1>7, <1>9
  <2> HIDE DEF t, R
  <2> QED BY <1>3, <1>4, <1>7, <2>6, <2>8, <2>9 DEF ScanTimes
<1> QED BY <1>8, <1>9

(* A scan keeps the times in order. *)
LEMMA ScanKeepsTime ==
  ASSUME TimeInv, IInv, IInv', NEW e \in Executors, NEW s \in Structs \cup {None},
         NEW t \in Structs \cup {None}, Scanned(e, s, t), ScanTimes(e, s), OrderKept,
         UNCHANGED <<lbolt, ticked, cs_curtime, saved>>
  PROVE  TimeInv'
<1>0. InTable \subseteq Structs /\ None \notin Structs
  BY Located, SetsAssumption DEF IInv
<1>1. InTable' = InTable \ {s} /\ UNCHANGED due
  BY DEF Scanned
<1>2. t # None => t \in InTable /\ ~c[t].executing
  BY DEF Scanned, InHand
<1>3. \A u \in InTable' : u # t => c'[u] = c[u]
  BY <1>0, <1>1 DEF Scanned, InHand
<1>4. t # None => /\ c'[t].executing /\ c'[t].c_arg = c[t].c_arg
                  /\ c'[t].c_runtime = c[t].c_runtime /\ c'[t].c_executor = e
  BY DEF Scanned, InHand
<1>5. /\ ecp'[e] = t
      /\ \A f \in Executors : f # e => ecp'[f] = ecp[f] /\ ert'[f] = ert[f] /\ epc'[f] = epc[f]
  BY DEF Scanned, InHand, IInv, Typed
<1>6. TableTimes' \subseteq TableTimes \cup {cs_runtime'}
  BY DEF TableTimes
<1>7. ClockOK'
  BY DEF TimeInv, ClockOK
<1>8. LagOK'
  <2>1. \A r \in TableTimes' : SDiff(lbolt, r) \in -1..MaxLag /\ SDiff(cs_curtime, r) >= -1
    BY <1>6 DEF TimeInv, LagOK, ScanTimes
  <2>2. \A f \in Executors : ecp'[f] # None =>
          SDiff(lbolt, ert'[f]) \in 0..MaxLag /\ SDiff(cs_curtime, ert'[f]) >= 0
    BY <1>5 DEF TimeInv, LagOK, ScanTimes
  <2> QED BY <2>1, <2>2 DEF LagOK
<1>9. PendOK'
  <2> SUFFICES ASSUME NEW u \in InTable', ~c'[u].executing
               PROVE  /\ \A r \in TableTimes' : SDiff(c'[u].c_runtime, r) >= 0
                      /\ \E d \in Deltas \cup {1} : SDiff(c'[u].c_runtime, lbolt) \in (-MaxLag)..d
    BY DEF PendOK
  <2>1. u \in InTable /\ c'[u] = c[u] /\ ~c[u].executing
    BY <1>0, <1>1, <1>3, <1>4
  <2> QED BY <1>6, <2>1 DEF TimeInv, PendOK, ScanTimes
<1>10. DueOK'
  <2> SUFFICES ASSUME NEW u \in InTable', Live(u)'
               PROVE  SDiff(c'[u].c_runtime, due'[c'[u].c_arg]) \in {0, 1}
    BY DEF DueOK, Live
  <2>0. u \in InTable /\ u # s /\ u \in Structs
    BY <1>0, <1>1
  <2>1. CASE u = t
    <3>1. Live(t) /\ t # None
      BY <1>0, <1>2, <2>0, <2>1 DEF Live
    <3> QED BY <1>1, <1>4, <2>0, <2>1, <3>1 DEF TimeInv, DueOK, Live
  <2>2. CASE u # t
    <3>1. c'[u] = c[u]
      BY <1>3, <2>2
    <3>2. c[u].executing => c[u].c_executor \in Executors /\ c[u].c_executor # e
      BY <2>0 DEF IInv, ExecOK, Scanned
    <3>3. Live(u)
      BY <1>5, <3>1, <3>2 DEF Live
    <3> QED BY <1>1, <2>0, <3>1, <3>3 DEF TimeInv, DueOK, Live
  <2> QED BY <2>1, <2>2
<1>11. AheadOK'
  <2> SUFFICES ASSUME NEW f \in Executors, ecp'[f] # None, NEW u \in Structs,
                      Before(cs_bucket'[BucketOf(ert'[f])], u, ecp'[f]), Ready(u, ert[f])'
               PROVE  FALSE
    BY DEF AheadOK
  <2>1. ert'[f] \in Times /\ BucketOf(ert'[f]) \in Slots
    BY SlotOf DEF IInv, Typed
  <2>2. Before(cs_bucket[BucketOf(ert'[f])], u, ecp'[f])
    BY <2>1 DEF OrderKept
  <2>3. u \in InTable' /\ u # s
    BY <1>1, <2>1, BeforeInTableNext DEF IInv
  <2>4. u # t
    BY <1>0, <1>4 DEF Ready
  <2>5. Ready(u, ert'[f])
    BY <1>3, <2>3, <2>4 DEF Ready
  <2>6. CASE f = e
    BY <2>2, <2>3, <2>5, <2>6 DEF ScanTimes
  <2>7. CASE f # e
    BY <1>5, <2>2, <2>5, <2>7 DEF TimeInv, AheadOK
  <2> QED BY <2>6, <2>7
<1> QED BY <1>7, <1>8, <1>9, <1>10, <1>11 DEF TimeInv

(* The start of a scan keeps TimeInv. *)
LEMMA ExecuteTime ==
  ASSUME ShortDelays, TimeInv, IInv, IInv', NEW e \in Executors, Execute(e)
  PROVE  TimeInv'
<1>1. PICK t \in Structs \cup {None} : Scanned(e, None, t)
  BY ExecuteScans
<1>2. cs_bucket' = cs_bucket
  BY ExecuteScans
<1>3. OuterScan(e, cs_runtime, c) /\ UNCHANGED <<lbolt, ticked, cs_curtime, saved>>
  BY DEF Execute
<1>4. cs_runtime \in Times /\ cs_runtime \in TableTimes
  BY TableTimesType DEF IInv, Typed
<1>5. ScanTimes(e, None)
  <2>1. SDiff(lbolt, cs_runtime) \in -1..MaxLag /\ SDiff(cs_curtime, cs_runtime) >= -1
    BY <1>4 DEF TimeInv, LagOK
  <2>2. \A t1 \in InTable : ~c[t1].executing => SDiff(c[t1].c_runtime, cs_runtime) >= 0
    BY <1>4 DEF TimeInv, PendOK
  <2> QED BY <1>3, <1>4, <2>1, <2>2, OuterScanTimes
<1> QED BY <1>1, <1>2, <1>3, <1>5, ScanKeepsTime, SameOrder

(* Nothing that is ready at its time is left when an executor has come to  *)
(* the end of the bucket: what it has passed was not, and callouts put at  *)
(* the head meanwhile are for later.                                       *)
LEMMA NoneLeft ==
  ASSUME TimeInv, IInv, NEW e \in Executors, ecp[e] # None,
         ~HasReady(Behind(cs_bucket[BucketOf(ert[e])], ecp[e]), ert[e]),
         NEW t \in InTable, ~c[t].executing
  PROVE  c[t].c_runtime # ert[e]
<1> SUFFICES ASSUME c[t].c_runtime = ert[e] PROVE FALSE
  OBVIOUS
<1> DEFINE b == BucketOf(ert[e])
           q == cs_bucket[b]
           s == ecp[e]
           rest == Behind(q, s)
<1>1. s \in InTable /\ c[s].executing /\ c[s].c_runtime = ert[e]
  BY DEF IInv, ExecOK
<1>2. b \in Slots /\ s \in ToSet(q) /\ t \in ToSet(q) /\ t \in Structs
  BY <1>1, Located DEF IInv
<1>3. q \in Seq(Structs) /\ IsInjective(q)
  BY <1>2, ListsInjective DEF IInv, Typed, Injective
<1>4. Ready(t, ert[e])
  BY DEF Ready
<1>5. t # s
  BY <1>1
<1>6. \A u \in Structs : Before(q, u, s) => ~Ready(u, ert[e])
  BY DEF TimeInv, AheadOK
<1>7. rest \in Seq(Structs) /\ \A u : u \in ToSet(rest) <=> Before(q, s, u)
  BY <1>2, <1>3, BehindProperties
<1>8. ~HasReady(rest, ert[e])
  OBVIOUS
<1> HIDE DEF q, s, rest, b
<1>9. Before(q, t, s) \/ Before(q, s, t)
  <2>1. PICK i \in 1..Len(q) : q[i] = t
    BY <1>2, <1>3, InList
  <2>2. PICK j \in 1..Len(q) : q[j] = s
    BY <1>2, <1>3, InList
  <2>3. i # j /\ i \in Int /\ j \in Int
    BY <1>3, <1>5, <2>1, <2>2
  <2>4. i < j \/ j < i
    BY <2>3
  <2> QED BY <2>1, <2>2, <2>4 DEF Before
<1>10. t \in ToSet(rest)
  BY <1>2, <1>4, <1>6, <1>7, <1>9
<1> QED BY <1>4, <1>7, <1>8, <1>10, InList DEF HasReady

(* Finish *)
LEMMA FinishTime ==
  ASSUME ShortDelays, TimeInv, IInv, IInv', NEW e \in Executors, Finish(e)
  PROVE  TimeInv'
<1>1. PICK s \in InTable : \E t \in Structs \cup {None} : Scanned(e, s, t)
  BY FinishScans
<1>2. PICK t \in Structs \cup {None} : Scanned(e, s, t)
  BY <1>1
<1>3. OrderKept
  BY FinishScans DEF OrderKept
<1>4. UNCHANGED <<lbolt, ticked, cs_curtime, saved>>
  BY DEF Finish
<1> DEFINE r == ert[e]
           b == BucketOf(r)
           q == cs_bucket[b]
           rest == Behind(q, s)
           g == [c EXCEPT ![s] = FreeStruct]
<1>5. s = ecp[e] /\ s # None /\ s \in Structs
  BY <1>2, Located, SetsAssumption DEF Scanned, IInv
<1>6. \/ HasReady(rest, r) /\ Take(e, FirstReady(rest, r), r, g) /\ UNCHANGED cs_runtime
      \/ ~HasReady(rest, r) /\ OuterScan(e, NextStart(r), g)
  BY <1>5 DEF Finish
<1>7. /\ Half \in Nat /\ MaxLag \in Nat /\ MaxLag >= 1 /\ MaxLag + 1 < Half
      /\ lbolt \in Times /\ cs_curtime \in Times /\ cs_runtime \in Times /\ r \in Times
      /\ cs_runtime \in TableTimes /\ SDiff(lbolt, cs_curtime) \in {0, 1}
  BY ShortIs, TableTimesType DEF IInv, Typed, TimeInv, ClockOK
<1>8. /\ SDiff(lbolt, cs_runtime) \in -1..MaxLag /\ SDiff(cs_curtime, cs_runtime) >= -1
      /\ SDiff(lbolt, r) \in 0..MaxLag /\ SDiff(cs_curtime, r) >= 0
  BY <1>5, <1>7 DEF TimeInv, LagOK
<1>9. \A u \in InTable : ~c[u].executing => SDiff(c[u].c_runtime, cs_runtime) >= 0
  BY <1>7 DEF TimeInv, PendOK
<1>10. CASE HasReady(rest, r) /\ Take(e, FirstReady(rest, r), r, g) /\ UNCHANGED cs_runtime
  <2>1. c[s].c_runtime = r
    BY <1>5 DEF IInv, ExecOK
  <2>2. b \in Slots /\ s \in ToSet(q)
    BY <2>1, Located DEF IInv
  <2>3. q \in Seq(Structs) /\ IsInjective(q)
    BY <2>2, ListsInjective DEF IInv, Typed, Injective
  <2>4. /\ rest \in Seq(Structs) /\ IsInjective(rest)
        /\ \A u, v : Before(q, u, v) /\ v \in ToSet(rest) => u = s \/ Before(q, u, s) \/ Before(rest, u, v)
    BY <2>2, <2>3, BehindProperties, BehindInjective
  <2> DEFINE w == FirstReady(rest, r)
  <2>5. w \in ToSet(rest) /\ \A u : Before(rest, u, w) => ~Ready(u, r)
    BY <1>10, <2>4, FirstReadyIs
  <2>6. ecp'[e] = w /\ ert'[e] = r
    BY <1>10 DEF Take, IInv, Typed
  <2>7. \A u \in Structs : Before(q, u, s) => ~Ready(u, r)
    BY <1>5 DEF TimeInv, AheadOK
  <2> HIDE DEF w, rest
  <2>8. \A u \in Structs : u # s /\ Before(q, u, w) => ~Ready(u, r)
    BY <2>4, <2>5, <2>7
  <2>9. ScanTimes(e, s)
    BY <1>8, <1>9, <1>10, <2>6, <2>8 DEF ScanTimes
  <2> QED BY <1>2, <1>3, <1>4, <1>5, <2>9, ScanKeepsTime
<1>11. CASE ~HasReady(rest, r) /\ OuterScan(e, NextStart(r), g)
  <2>1. CASE cs_runtime # r
    <3>1. NextStart(r) = cs_runtime
      BY <2>1 DEF NextStart
    <3>2. ScanTimes(e, s)
      BY <1>7, <1>8, <1>9, <1>11, <3>1, OuterScanTimes
    <3> QED BY <1>2, <1>3, <1>4, <1>5, <3>2, ScanKeepsTime
  <2>2. CASE cs_runtime = r
    <3> DEFINE n == NextStart(r)
    <3>1. n = Add(r, 1)
      BY <2>2 DEF NextStart
    <3>2. n \in Times /\ SDiff(n, r) = 1
      BY <1>7, <3>1, ShortIs
    <3> HIDE DEF n
    <3>3. ASSUME NEW x \in Times, SDiff(x, r) >= 0 PROVE SDiff(x, n) = SDiff(x, r) - 1
      <4>1. SDiff(x, r) \in Int /\ SDiff(x, r) < Half
        BY <1>7, <3>3, SDiffIs
      <4>2. SDiff(x, r) - SDiff(n, r) >= 0 - Half /\ SDiff(x, r) - SDiff(n, r) < Half
        <5> HIDE DEF Half
        <5> QED BY <1>7, <3>2, <3>3, <4>1
      <4> QED BY <1>7, <3>2, <4>2, Shift
    <3>4. SDiff(lbolt, n) \in -1..MaxLag /\ SDiff(cs_curtime, n) >= -1
      <4>1. SDiff(lbolt, r) >= 0 /\ SDiff(cs_curtime, r) \in Int
        BY <1>7, <1>8, SDiffZero
      <4>2. SDiff(lbolt, n) = SDiff(lbolt, r) - 1 /\ SDiff(cs_curtime, n) = SDiff(cs_curtime, r) - 1
        BY <1>7, <1>8, <3>3, <4>1
      <4> HIDE DEF Half
      <4> QED BY <1>7, <1>8, <4>1, <4>2
    <3>5. ASSUME NEW u \in InTable, ~c[u].executing PROVE SDiff(c[u].c_runtime, n) >= 0
      <4>1. c[u].c_runtime \in Times
        BY PendingTime DEF IInv
      <4>2. SDiff(c[u].c_runtime, r) >= 0 /\ SDiff(c[u].c_runtime, r) \in Int
        BY <1>7, <1>9, <2>2, <3>5, <4>1, SDiffZero
      <4>3. c[u].c_runtime # r
        BY <1>5, <1>11, <3>5, NoneLeft
      <4>4. SDiff(c[u].c_runtime, r) # 0
        BY <1>7, <4>1, <4>3, SDiffZero
      <4>5. SDiff(c[u].c_runtime, n) = SDiff(c[u].c_runtime, r) - 1
        BY <3>3, <4>1, <4>2
      <4> QED BY <4>2, <4>4, <4>5
    <3>6. ScanTimes(e, s)
      BY <1>11, <3>2, <3>4, <3>5, OuterScanTimes DEF n
    <3> QED BY <1>2, <1>3, <1>4, <1>5, <3>6, ScanKeepsTime
  <2> QED BY <2>1, <2>2
<1> QED BY <1>6, <1>10, <1>11

(* The times at the start. *)
LEMMA InitTime ==
  ASSUME ShortDelays, Init
  PROVE  TimeInv
<1>1. StartTime \in Times /\ SDiff(StartTime, StartTime) = 0 /\ MaxLag \in Nat
  <2>1. StartTime \in Times
    BY TimeAssumption DEF Times
  <2> QED BY <2>1, SDiffZero, ShortIs
<1>2. InTable = {} /\ TableTimes = {StartTime}
  <2>1. ToSet(<< >>) = {}
    BY DEF ToSet
  <2> QED BY <2>1 DEF Init, InTable, TableTimes
<1>3. ClockOK /\ PendOK /\ DueOK /\ AheadOK
  BY <1>1, <1>2 DEF Init, ClockOK, PendOK, DueOK, AheadOK
<1>4. LagOK
  BY <1>1, <1>2 DEF Init, LagOK
<1> QED BY <1>3, <1>4 DEF TimeInv

(* The invariant with the times, under the hypothesis on the delays. *)
TInv == IInv /\ ShortDelays /\ TimeInv

(* The invariant with the times is inductive. *)
LEMMA NextTInv == TInv /\ [Next]_vars => TInv'
<1> SUFFICES ASSUME IInv, ShortDelays, TimeInv, [Next]_vars PROVE IInv' /\ TimeInv'
  BY DEF TInv, ShortDelays
<1>0. IInv'
  BY NextIInv
<1>1. ASSUME NEW x \in Clients, ClientStep(x) PROVE TimeInv'
  BY <1>0, <1>1, ClientTime
<1>2. ASSUME NEW x \in Clients, NEW d \in Deltas, Timeout(x, d) PROVE TimeInv'
  BY <1>0, <1>2, TimeoutTime
<1>3. ASSUME NEW e \in Executors, ExecutorStep(e) PROVE TimeInv'
  <2>1. CASE StartThread(e) \/ SoftInt(e) \/ BackToSleep(e) \/ CprWait(e) \/ FuncReturns(e) \/ RunFunc(e)
    BY <1>0, <2>1, ExecutorTime
  <2>2. CASE NestedUntimeout(e)
    BY <1>0, <2>2, NestedIsReturn, ExecutorTime
  <2>3. CASE Execute(e)
    BY <1>0, <2>3, ExecuteTime
  <2>4. CASE Finish(e)
    BY <1>0, <2>4, FinishTime
  <2> QED BY <1>3, <2>1, <2>2, <2>3, <2>4 DEF ExecutorStep
<1>4. CASE Tick
  BY <1>0, <1>4, TickTime
<1>5. CASE CalloutSchedule
  BY <1>0, <1>5, ScheduleTime
<1>6. CASE CprSave \/ CprRestore
  BY <1>0, <1>6, CprTime
<1>7. CASE CprStop \/ CprOtherRestored \/ UNCHANGED vars
  <2>1. UNCHANGED <<lbolt, ticked, cs_curtime, cs_runtime, saved, ecp, ert, cs_bucket, c, epc, due>>
    BY <1>7 DEF CprStop, CprOtherRestored, vars, tvars, svars, evars, hvars
  <2>2. InTable' = InTable
    BY <2>1 DEF InTable
  <2>3. \A s \in InTable' : Live(s)' => Live(s)
    BY <2>1 DEF Live
  <2> QED BY <1>0, <2>1, <2>2, <2>3, TimesKept, SameOrder
<1> QED BY <1>0, <1>1, <1>2, <1>3, <1>4, <1>5, <1>6, <1>7 DEF Next

(* It holds of the table when delays are short. *)
LEMMA TInvHolds == ShortDelays /\ Spec => []TInv
<1>1. ShortDelays /\ Init => TInv
  BY InitIInv, InitTime DEF TInv
<1>2. TInv /\ [Next]_vars => TInv'
  BY NextTInv
<1> QED BY <1>1, <1>2, PTL DEF Spec

(* A function that runs is due. *)
LEMMA TInvNotEarly == TInv => NotEarly
<1> SUFFICES ASSUME TInv, NEW e \in Executors, Running(e)
             PROVE  SDiff(lbolt, due[c[ecp[e]].c_arg]) >= 0
  BY DEF NotEarly
<1> USE DEF TInv
<1>1. epc[e] = "func"
  BY DEF Running, IInv, Typed, EPCs
<1>2. /\ ecp[e] # None /\ ecp[e] \in InTable /\ c[ecp[e]].executing /\ c[ecp[e]].c_executor = e
      /\ c[ecp[e]].c_runtime = ert[e]
  BY <1>1 DEF IInv, ExecOK, Busy
<1> DEFINE x == c[ecp[e]].c_arg
<1>3. SDiff(ert[e], due[x]) \in {0, 1}
  BY <1>1, <1>2 DEF TimeInv, DueOK
<1>4. SDiff(lbolt, ert[e]) \in 0..MaxLag
  BY <1>2 DEF TimeInv, LagOK
<1>5. Half \in Nat /\ MaxLag \in Nat /\ MaxLag + 1 < Half
  BY ShortIs
<1>6. lbolt \in Times /\ ert[e] \in Times /\ due[x] \in Times
  BY <1>2 DEF IInv, Typed, OwnOK
<1> HIDE DEF x
<1>7. /\ SDiff(lbolt, ert[e]) + SDiff(ert[e], due[x]) >= 0 - Half
      /\ SDiff(lbolt, ert[e]) + SDiff(ert[e], due[x]) < Half
      /\ SDiff(lbolt, ert[e]) + SDiff(ert[e], due[x]) >= 0
  <2> HIDE DEF Half
  <2> QED BY <1>3, <1>4, <1>5
<1>8. SDiff(lbolt, due[x]) >= 0
  BY <1>6, <1>7, Chain
<1> QED BY <1>8 DEF x

(* The table is sound. *)
LEMMA TInvSound == TInv => TableSound
<1> SUFFICES ASSUME TInv PROVE NoneBehind
  BY IInvSound DEF TInv, TableSound
<1>1. cs_runtime \in TableTimes
  BY TableTimesType DEF TInv, IInv
<1> QED BY <1>1 DEF TInv, TimeInv, PendOK, NoneBehind, Pending

(* No function is called before the time its client asked for, for any     *)
(* number of clients and executors, any delays and any wrap-around of      *)
(* lbolt, as long as delays and lag together stay under half the range of  *)
(* a long.                                                                 *)
THEOREM NotEarlyHolds == ShortDelays /\ Spec => []NotEarly
BY TInvHolds, TInvNotEarly, PTL

(* The table is sound, times included: in particular no scan, tick or      *)
(* resume leaves a callout behind cs_runtime, however executors overtake   *)
(* each other.                                                             *)
THEOREM TableSoundHolds == ShortDelays /\ Spec => []TableSound
BY TInvHolds, TInvSound, PTL

-----------------------------------------------------------------------
(* Soft calls. *)

(* The queue holds no call twice. *)
NoDuplicates ==
  \A i, j \in 1..Len(softhead) : softhead[i].func = softhead[j].func => i = j

(* The inductive invariant.  NoneStranded rests on PendingIsPosted, for a  *)
(* siron() that finds siron_pending set does nothing; PoolSuffices rests   *)
(* on NoDuplicates and PoolConserved.                                      *)
SoftcallInv ==
  /\ SoftcallTypeOK /\ PendingIsPosted /\ NoneStranded
  /\ PoolConserved /\ NoDuplicates /\ PoolSuffices

(* What a step that leaves the queue and the pool alone needs to show. *)
QueueSame == UNCHANGED <<softhead, softfree, panicstr>>

-----------------------------------------------------------------------
(* softcall_init(): an empty queue and a full pool. *)
LEMMA InitSoftcallInv == SoftcallInit => SoftcallInv
<1> SUFFICES ASSUME SoftcallInit PROVE SoftcallInv
  OBVIOUS
<1>1. SoftcallTypeOK
  <2>1. softhead \in Seq(Sc) /\ softfree \in Nat
    BY SoftcallAssumption DEF SoftcallInit
  <2>2. /\ cpc \in [CPUs -> PCs] /\ cur \in [CPUs -> Funcs \cup {None}]
        /\ sir \in [CPUs -> {"out", "set", "post"}]
    BY DEF SoftcallInit, PCs
  <2>3. /\ siron_pending \in BOOLEAN /\ intr \subseteq CPUs
        /\ softcall_lock \in CPUs \cup {None}
        /\ unsafe_driver \in CPUs \cup {Driver, None} /\ panicstr \in BOOLEAN
    BY DEF SoftcallInit
  <2> QED
    BY <2>1, <2>2, <2>3 DEF SoftcallTypeOK
<1>2. PendingIsPosted /\ NoneStranded /\ NoDuplicates /\ PoolSuffices
  BY DEF SoftcallInit, PendingIsPosted, NoneStranded, NoDuplicates, PoolSuffices
<1>3. PoolConserved
  BY SoftcallAssumption DEF SoftcallInit, PoolConserved
<1> QED
  BY <1>1, <1>2, <1>3 DEF SoftcallInv

(* The queue's own invariants are kept by a step that does not touch it. *)
LEMMA QueueKept ==
  ASSUME SoftcallInv, QueueSame
  PROVE  PoolConserved' /\ NoDuplicates' /\ PoolSuffices'
BY DEF SoftcallInv, QueueSame, PoolConserved, NoDuplicates, PoolSuffices

(* The test in siron() leaves an interrupt, a softlevel1() or a siron()    *)
(* behind, on this CPU or another, after which the queue will be looked at.*)
LEMMA SironPosts ==
  ASSUME SoftcallInv, NEW p \in CPUs, SironTest(p), UNCHANGED <<cpc, intr, siron_pending>>
  PROVE  /\ sir' \in [CPUs -> {"out", "set", "post"}]
         /\ PendingIsPosted'
         /\ sir[p] = "out" => intr' # {} \/ \E q \in CPUs : Looking(q)' \/ sir'[q] # "out"
<1>1. sir \in [CPUs -> {"out", "set", "post"}]
  BY DEF SoftcallInv, SoftcallTypeOK
<1>2. CASE siron_pending
  <2>1. intr # {} \/ \E q \in CPUs : cpc[q] = "level1" \/ sir[q] = "post"
    BY <1>2 DEF SoftcallInv, PendingIsPosted
  <2>2. sir' = sir
    BY <1>2 DEF SironTest
  <2> QED
    BY <1>1, <2>1, <2>2 DEF PendingIsPosted, Looking
<1>3. CASE ~siron_pending
  <2>1. sir' = [sir EXCEPT ![p] = "set"]
    BY <1>3 DEF SironTest
  <2>2. sir'[p] = "set"
    BY <1>1, <2>1
  <2> QED
    BY <1>1, <1>3, <2>1, <2>2 DEF PendingIsPosted
<1> QED
  BY <1>2, <1>3

(* A pool as large as the set of calls is not empty when a call that is    *)
(* not queued arrives: the queue is an injection into the other calls.     *)
LEMMA RoomForNew ==
  ASSUME SoftcallInv, NEW f \in Funcs, ~Coalesce(f), PoolEmpty
  PROVE  ~(Cardinality(Funcs) <= NSOFTCALLS)
<1> DEFINE n == Len(softhead)
           R == Funcs \ {f}
           g == [i \in 1..n |-> softhead[i].func]
<1>1. n \in Nat /\ NSOFTCALLS \in Nat /\ IsFiniteSet(Funcs) /\ n = NSOFTCALLS
  BY SoftcallAssumption DEF SoftcallInv, SoftcallTypeOK, PoolConserved, PoolEmpty
<1>2. g \in [1..n -> R]
  <2>1. SUFFICES ASSUME NEW i \in 1..n PROVE softhead[i].func \in R
    OBVIOUS
  <2>2. softhead[i] \in Sc
    BY DEF SoftcallInv, SoftcallTypeOK
  <2>3. softhead[i].func \in Queued
    BY DEF Queued
  <2> QED
    BY <2>2, <2>3 DEF Sc, Coalesce
<1>3. \A i, j \in 1..n : g[i] = g[j] => i = j
  BY DEF SoftcallInv, NoDuplicates
<1>4. IsFiniteSet(R) /\ Cardinality(R) = Cardinality(Funcs) - 1
  BY <1>1, FS_RemoveElement
<1>5. IsFiniteSet(1..n) /\ Cardinality(1..n) = n
  BY <1>1, FS_Interval
<1>6. Cardinality(1..n) <= Cardinality(R)
  <2>1. Cardinality(R) \in Nat
    BY <1>4, FS_CardinalityType
  <2>2. SUFFICES ASSUME Cardinality(R) < Cardinality(1..n) PROVE FALSE
    BY <1>1, <1>5, <2>1
  <2>3. \E i, j \in 1..n : i # j /\ g[i] = g[j]
    <3> HIDE DEF g, n, R
    <3> QED BY <1>2, <1>4, <1>5, <2>2, FS_PigeonHole
  <2> QED
    BY <1>3, <2>3
<1>7. Cardinality(Funcs) \in Nat
  BY <1>1, FS_CardinalityType
<1> QED
  BY <1>1, <1>4, <1>5, <1>6, <1>7

(* softcall() keeps the invariant, whoever calls it. *)
LEMMA SoftcallKeeps ==
  ASSUME SoftcallInv, NEW p \in CPUs, NEW f \in Funcs, NEW u \in BOOLEAN, DoSoftcall(p, f, u)
  PROVE  SoftcallInv'
<1>1. UNCHANGED <<siron_pending, intr, cpc, cur, unsafe_driver>> /\ sir[p] = "out"
  BY DEF DoSoftcall
<1>2. CASE Coalesce(f)
  <2>1. UNCHANGED <<softhead, softfree, softcall_lock, sir, panicstr>>
    BY <1>2 DEF DoSoftcall, qvars
  <2> QED
    BY <1>1, <2>1 DEF SoftcallInv, SoftcallTypeOK, PendingIsPosted, NoneStranded, Looking, PoolConserved,
                      NoDuplicates, PoolSuffices
<1>3. CASE ~Coalesce(f) /\ PoolEmpty
  <2>1. UNCHANGED <<softhead, softfree, softcall_lock, sir>> /\ panicstr' = TRUE
    BY <1>3 DEF DoSoftcall, qvars
  <2>2. PoolSuffices'
    BY <1>3, RoomForNew DEF PoolSuffices
  <2> QED
    BY <1>1, <2>1, <2>2 DEF SoftcallInv, SoftcallTypeOK, PendingIsPosted, NoneStranded, Looking,
                            PoolConserved, NoDuplicates
<1>4. CASE ~Coalesce(f) /\ ~PoolEmpty
  <2> DEFINE sc == [func |-> f, unsafe |-> u]
  <2>1. /\ softfree' = softfree - 1 /\ softhead' = Append(softhead, sc)
        /\ panicstr' = panicstr
        /\ IF MustSiron(softhead) THEN SironTest(p) ELSE UNCHANGED sir
        /\ softcall_lock' \in {p, None}
    BY <1>4 DEF DoSoftcall
  <2>2. /\ softhead \in Seq(Sc) /\ sc \in Sc /\ softfree \in Nat /\ softfree # 0
        /\ sir \in [CPUs -> {"out", "set", "post"}]
    BY <1>4 DEF SoftcallInv, SoftcallTypeOK, Sc, PoolEmpty
  <2>3. /\ softhead' \in Seq(Sc) /\ Len(softhead') = Len(softhead) + 1
        /\ \A i \in 1..Len(softhead) : softhead'[i] = softhead[i]
        /\ softhead'[Len(softhead) + 1] = sc
    BY <2>1, <2>2, AppendProperties
  <2>4. /\ sir' \in [CPUs -> {"out", "set", "post"}] /\ PendingIsPosted'
        /\ NoneStranded'
    <3>1. CASE softhead = << >>
      BY <1>1, <2>1, <3>1, SironPosts DEF MustSiron, NoneStranded
    <3>2. CASE softhead # << >>
      BY <1>1, <2>1, <2>2, <3>2 DEF MustSiron, SoftcallInv, NoneStranded, PendingIsPosted, Looking
    <3> QED
      BY <3>1, <3>2
  <2>5. SoftcallTypeOK'
    BY <1>1, <2>1, <2>2, <2>3, <2>4 DEF SoftcallInv, SoftcallTypeOK
  <2>6. PoolConserved'
    <3>1. Len(softhead) \in Nat /\ softfree + Len(softhead) = NSOFTCALLS
      BY <2>2 DEF SoftcallInv, PoolConserved
    <3> QED
      BY <2>1, <2>2, <2>3, <3>1 DEF PoolConserved
  <2>7. NoDuplicates'
    <3>1. Len(softhead) \in Nat
      BY <2>2
    <3>2. \A i \in 1..Len(softhead) : softhead[i].func # f
      BY <1>4 DEF Coalesce, Queued
    <3>3. SUFFICES ASSUME NEW i \in 1..(Len(softhead) + 1), NEW j \in 1..(Len(softhead) + 1),
                          softhead'[i].func = softhead'[j].func
                   PROVE  i = j
      BY <2>3 DEF NoDuplicates
    <3>4. \A k \in 1..(Len(softhead) + 1) :
            k \in 1..Len(softhead) \/ k = Len(softhead) + 1
      BY <3>1
    <3>5. sc.func = f
      OBVIOUS
    <3> HIDE DEF sc
    <3> QED
      BY <2>3, <3>2, <3>3, <3>4, <3>5 DEF SoftcallInv, NoDuplicates
  <2>8. PoolSuffices'
    BY <2>1 DEF SoftcallInv, PoolSuffices
  <2> QED
    BY <2>4, <2>5, <2>6, <2>7, <2>8 DEF SoftcallInv
<1> QED
  BY <1>2, <1>3, <1>4

(* softint() takes the first of the queue and remains to look again. *)
LEMMA TakeKeeps ==
  ASSUME SoftcallInv, NEW p \in CPUs, SoftintTake(p)
  PROVE  SoftcallInv'
<1>1. /\ softhead \in Seq(Sc) /\ softhead # << >> /\ softfree \in Nat
      /\ cpc \in [CPUs -> PCs] /\ cur \in [CPUs -> Funcs \cup {None}]
  BY DEF SoftcallInv, SoftcallTypeOK, SoftintTake
<1>2. /\ Head(softhead) \in Sc /\ Tail(softhead) \in Seq(Sc)
      /\ Len(Tail(softhead)) = Len(softhead) - 1
      /\ \A i \in 1..Len(Tail(softhead)) : Tail(softhead)[i] = softhead[i + 1]
  BY <1>1, HeadTailProperties
<1>3. /\ softhead' = Tail(softhead) /\ softfree' = softfree + 1
      /\ cpc' = [cpc EXCEPT ![p] = NextPc(Head(softhead))]
      /\ cur' = [cur EXCEPT ![p] = Head(softhead).func]
      /\ UNCHANGED <<softcall_lock, siron_pending, sir, intr, unsafe_driver, panicstr>>
  BY DEF SoftintTake, FreeOne, ivars
<1>4. NextPc(Head(softhead)) \in {"enter", "func"} /\ cpc[p] = "loop"
  BY DEF NextPc, SoftintTake
<1>5. SoftcallTypeOK'
  <2>1. Head(softhead).func \in Funcs
    BY <1>2 DEF Sc
  <2> QED
    BY <1>1, <1>2, <1>3, <1>4, <2>1 DEF SoftcallInv, SoftcallTypeOK, PCs
<1>6. Looking(p)' /\ \A q \in CPUs : cpc[q] = "level1" => cpc'[q] = "level1"
  BY <1>1, <1>3, <1>4 DEF Looking
<1>7. PendingIsPosted' /\ NoneStranded'
  BY <1>3, <1>6 DEF SoftcallInv, PendingIsPosted, NoneStranded
<1>8. PoolConserved'
  <2>1. Len(softhead) \in Nat /\ softfree + Len(softhead) = NSOFTCALLS
    BY <1>1 DEF SoftcallInv, PoolConserved
  <2> QED
    BY <1>1, <1>2, <1>3, <2>1 DEF PoolConserved
<1>9. NoDuplicates'
  <2>1. Len(softhead) \in Nat
    BY <1>1
  <2>2. SUFFICES ASSUME NEW i \in 1..Len(Tail(softhead)), NEW j \in 1..Len(Tail(softhead)),
                        Tail(softhead)[i].func = Tail(softhead)[j].func
                 PROVE  i = j
    BY <1>3 DEF NoDuplicates
  <2>3. i + 1 \in 1..Len(softhead) /\ j + 1 \in 1..Len(softhead)
    BY <1>2, <2>1
  <2>4. softhead[i + 1].func = softhead[j + 1].func
    BY <1>2, <2>2
  <2>5. i + 1 = j + 1
    BY <2>3, <2>4 DEF SoftcallInv, NoDuplicates
  <2> QED
    BY <2>1, <2>5, <1>2
<1>10. PoolSuffices'
  BY <1>3 DEF SoftcallInv, PoolSuffices
<1> QED
  BY <1>5, <1>7, <1>8, <1>9, <1>10 DEF SoftcallInv

(* Every step keeps the invariant. *)
LEMMA NextSoftcallInv == SoftcallInv /\ [SoftcallNext]_softcall_vars => SoftcallInv'
<1> SUFFICES ASSUME SoftcallInv, [SoftcallNext]_softcall_vars PROVE SoftcallInv'
  OBVIOUS
<1>1. ASSUME NEW p \in CPUs, TrapSiron(p) PROVE SoftcallInv'
  <2>1. /\ SironTest(p) /\ sir[p] = "out"
        /\ UNCHANGED <<softhead, softfree, softcall_lock, siron_pending, intr, cpc, cur,
                       unsafe_driver, panicstr>>
    BY <1>1 DEF TrapSiron, qvars
  <2>2. PoolConserved' /\ NoDuplicates' /\ PoolSuffices'
    BY <2>1, QueueKept DEF QueueSame
  <2> QED
    BY <2>1, <2>2, SironPosts DEF SoftcallInv, SoftcallTypeOK, NoneStranded
<1>2. ASSUME NEW p \in CPUs, Softlevel1(p) PROVE SoftcallInv'
  <2>1. /\ intr' = intr \ {p} /\ cpc' = [cpc EXCEPT ![p] = "level1"]
        /\ UNCHANGED <<softhead, softfree, softcall_lock, siron_pending, sir, cur,
                       unsafe_driver, panicstr>>
    BY <1>2 DEF Softlevel1, qvars
  <2>2. cpc'[p] = "level1"
    BY <2>1 DEF SoftcallInv, SoftcallTypeOK
  <2>3. PoolConserved' /\ NoDuplicates' /\ PoolSuffices'
    BY <2>1, QueueKept DEF QueueSame
  <2> QED
    BY <2>1, <2>2, <2>3 DEF SoftcallInv, SoftcallTypeOK, PCs, PendingIsPosted, NoneStranded, Looking
<1>3. ASSUME NEW p \in CPUs, ClearPending(p) PROVE SoftcallInv'
  <2>1. /\ siron_pending' = FALSE /\ cpc' = [cpc EXCEPT ![p] = "loop"]
        /\ UNCHANGED <<softhead, softfree, softcall_lock, sir, intr, cur, unsafe_driver,
                       panicstr>>
    BY <1>3 DEF ClearPending, ResetPending, qvars
  <2>2. cpc'[p] = "loop"
    BY <2>1 DEF SoftcallInv, SoftcallTypeOK
  <2>3. PoolConserved' /\ NoDuplicates' /\ PoolSuffices'
    BY <2>1, QueueKept DEF QueueSame
  <2> QED
    BY <2>1, <2>2, <2>3 DEF SoftcallInv, SoftcallTypeOK, PCs, PendingIsPosted, NoneStranded, Looking
<1>4. ASSUME NEW p \in CPUs, SoftintReturns(p) PROVE SoftcallInv'
  <2>1. /\ cpc[p] = "loop" /\ softhead = << >> /\ cpc' = [cpc EXCEPT ![p] = "idle"]
        /\ UNCHANGED <<softhead, softfree, softcall_lock, siron_pending, sir, intr, cur,
                       unsafe_driver, panicstr>>
    BY <1>4 DEF SoftintReturns, qvars, ivars
  <2>2. \A q \in CPUs : cpc[q] = "level1" => cpc'[q] = "level1"
    BY <2>1 DEF SoftcallInv, SoftcallTypeOK
  <2>3. PoolConserved' /\ NoDuplicates' /\ PoolSuffices'
    BY <2>1, QueueKept DEF QueueSame
  <2> QED
    BY <2>1, <2>2, <2>3 DEF SoftcallInv, SoftcallTypeOK, PCs, PendingIsPosted, NoneStranded
<1>5. ASSUME NEW p \in CPUs, SoftintEnter(p) PROVE SoftcallInv'
  <2>1. /\ cpc[p] = "enter" /\ cpc' = [cpc EXCEPT ![p] = "func"] /\ unsafe_driver' = p
        /\ UNCHANGED <<softhead, softfree, softcall_lock, siron_pending, sir, intr, cur, panicstr>>
    BY <1>5 DEF SoftintEnter, qvars, ivars
  <2>2. /\ cpc'[p] = "func"
        /\ \A q \in CPUs : cpc[q] = "level1" => cpc'[q] = "level1"
    BY <2>1 DEF SoftcallInv, SoftcallTypeOK
  <2>3. PoolConserved' /\ NoDuplicates' /\ PoolSuffices'
    BY <2>1, QueueKept DEF QueueSame
  <2> QED
    BY <2>1, <2>2, <2>3 DEF SoftcallInv, SoftcallTypeOK, PCs, PendingIsPosted, NoneStranded, Looking
<1>6. ASSUME NEW p \in CPUs, SoftintCallReturns(p) PROVE SoftcallInv'
  <2>1. /\ cpc[p] = "func" /\ cpc' = [cpc EXCEPT ![p] = "loop"]
        /\ cur' = [cur EXCEPT ![p] = None]
        /\ unsafe_driver' \in {unsafe_driver, None}
        /\ UNCHANGED <<softhead, softfree, softcall_lock, siron_pending, sir, intr, panicstr>>
    BY <1>6 DEF SoftintCallReturns, qvars, ivars
  <2>2. /\ cpc'[p] = "loop"
        /\ \A q \in CPUs : cpc[q] = "level1" => cpc'[q] = "level1"
    BY <2>1 DEF SoftcallInv, SoftcallTypeOK
  <2>3. PoolConserved' /\ NoDuplicates' /\ PoolSuffices'
    BY <2>1, QueueKept DEF QueueSame
  <2> QED
    BY <2>1, <2>2, <2>3 DEF SoftcallInv, SoftcallTypeOK, PCs, PendingIsPosted, NoneStranded, Looking
<1>7. ASSUME NEW p \in CPUs, NEW f \in Funcs, CallSoftcall(p, f) \/ DriverSoftcall(p, f)
      PROVE  SoftcallInv'
  BY <1>7, SoftcallKeeps DEF CallSoftcall, DriverSoftcall
<1>8. ASSUME DriverEnter \/ DriverExit \/ UNCHANGED softcall_vars PROVE SoftcallInv'
  <2>1. /\ UNCHANGED <<softhead, softfree, softcall_lock, siron_pending, sir, intr, cpc, cur,
                       panicstr>>
        /\ unsafe_driver' \in {unsafe_driver, Driver, None}
    BY <1>8 DEF DriverEnter, DriverExit, softcall_vars, qvars, ivars
  <2>2. PoolConserved' /\ NoDuplicates' /\ PoolSuffices'
    BY <2>1, QueueKept DEF QueueSame
  <2> QED
    BY <2>1, <2>2 DEF SoftcallInv, SoftcallTypeOK, PendingIsPosted, NoneStranded, Looking
<1>9. ASSUME NEW p \in CPUs, SironSet(p) \/ SironPost(p) PROVE SoftcallInv'
  <2>1. /\ UNCHANGED <<softhead, softfree, cpc, cur, unsafe_driver, panicstr>>
        /\ softcall_lock' \in {softcall_lock, None}
        /\ sir \in [CPUs -> {"out", "set", "post"}] /\ intr \subseteq CPUs
    BY <1>9 DEF SironSet, SironPost, qvars, SoftcallInv, SoftcallTypeOK
  <2>2. PoolConserved' /\ NoDuplicates' /\ PoolSuffices'
    BY <2>1, QueueKept DEF QueueSame
  <2>3. CASE SironSet(p)
    <3>1. sir' = [sir EXCEPT ![p] = "post"] /\ siron_pending' = TRUE /\ intr' = intr
      BY <2>3 DEF SironSet
    <3>2. sir'[p] = "post"
      BY <2>1, <3>1
    <3> QED
      BY <2>1, <2>2, <3>1, <3>2 DEF SoftcallInv, SoftcallTypeOK, PendingIsPosted, NoneStranded
  <2>4. CASE SironPost(p)
    <3>1. sir' = [sir EXCEPT ![p] = "out"] /\ intr' = intr \cup {p} /\ siron_pending' = siron_pending
      BY <2>4 DEF SironPost
    <3> QED
      BY <2>1, <2>2, <3>1 DEF SoftcallInv, SoftcallTypeOK, PendingIsPosted, NoneStranded
  <2> QED
    BY <1>9, <2>3, <2>4
<1> QED
  BY <1>1, <1>2, <1>3, <1>4, <1>5, <1>6, <1>7, <1>8, <1>9, TakeKeeps DEF SoftcallNext, CpuStep

(* The inductive invariant holds of every behaviour. *)
LEMMA SoftcallInvHolds == SoftcallSpec => []SoftcallInv
BY InitSoftcallInv, NextSoftcallInv, PTL DEF SoftcallSpec

(* For any CPUs and calls: the variables keep their types, and a call put  *)
(* on the queue by softcall() always has a posted interrupt or a softint() *)
(* that will look at the queue.                                            *)
THEOREM SoftcallNoneStranded == SoftcallSpec => [](SoftcallTypeOK /\ NoneStranded)
<1>1. SoftcallInv => SoftcallTypeOK /\ NoneStranded
  BY DEF SoftcallInv
<1> QED
  BY SoftcallInvHolds, <1>1, PTL

(* siron_pending never stays set without an interrupt that will clear it. *)
THEOREM SoftcallPendingPosted == SoftcallSpec => []PendingIsPosted
<1>1. SoftcallInv => PendingIsPosted
  BY DEF SoftcallInv
<1> QED
  BY SoftcallInvHolds, <1>1, PTL

(* The panic in softcall() cannot happen when the pool has a structure for *)
(* each distinct call, whatever the interleaving; structures do not leak.  *)
THEOREM SoftcallPoolSuffices == SoftcallSpec => [](PoolSuffices /\ PoolConserved)
<1>1. SoftcallInv => PoolSuffices /\ PoolConserved
  BY DEF SoftcallInv
<1> QED
  BY SoftcallInvHolds, <1>1, PTL

-----------------------------------------------------------------------
(* A request waits in the queue, or in mutex_enter() of the softint() that *)
(* has taken it.                                                           *)
Served(f) == f \in Queued \/ \E p \in CPUs : cpc[p] = "enter" /\ cur[p] = f

(* A step that takes nothing off the queue and ends no mutex_enter(). *)
LEMMA ServedKept ==
  ASSUME SoftcallInv, OwedIsQueued, softhead' = softhead, panicstr' = panicstr, owed' = owed,
         \A p \in CPUs : cpc[p] = "enter" => cpc'[p] = "enter" /\ cur'[p] = cur[p]
  PROVE  OwedIsQueued'
BY DEF OwedIsQueued, Queued

(* No step of softcall() or softint() loses a call that is owed. *)
LEMMA OwedNext == SoftcallInv /\ OwedIsQueued /\ [SoftcallNext]_softcall_vars => OwedIsQueued'
<1> SUFFICES ASSUME SoftcallInv, OwedIsQueued, [SoftcallNext]_softcall_vars PROVE OwedIsQueued'
  OBVIOUS
<1>0. /\ softhead \in Seq(Sc) /\ cpc \in [CPUs -> PCs] /\ cur \in [CPUs -> Funcs \cup {None}]
      /\ panicstr \in BOOLEAN
  BY DEF SoftcallInv, SoftcallTypeOK
<1>1. ASSUME NEW p \in CPUs, NEW f \in Funcs, NEW u \in BOOLEAN, DoSoftcall(p, f, u)
      PROVE  OwedIsQueued'
  <2>1. owed' = owed \cup {<<f, u>>} /\ cpc' = cpc /\ cur' = cur /\ ~panicstr
    BY <1>1 DEF DoSoftcall
  <2>2. Queued \subseteq Queued' /\ (f \in Queued' \/ panicstr')
    <3>1. CASE Coalesce(f)
      BY <1>1, <3>1 DEF DoSoftcall, qvars, Coalesce, Queued
    <3>2. CASE ~Coalesce(f) /\ PoolEmpty
      BY <1>1, <3>2 DEF DoSoftcall, qvars, Queued
    <3>3. CASE ~Coalesce(f) /\ ~PoolEmpty
      <4> DEFINE sc == [func |-> f, unsafe |-> u]
      <4>1. softhead' = Append(softhead, sc) /\ sc \in Sc
        BY <1>1, <3>3 DEF DoSoftcall, Sc
      <4>2. /\ Len(softhead') = Len(softhead) + 1 /\ Len(softhead) \in Nat
            /\ \A i \in 1..Len(softhead) : softhead'[i] = softhead[i]
            /\ softhead'[Len(softhead) + 1] = sc
        BY <1>0, <4>1, AppendProperties
      <4>3. sc.func = f
        OBVIOUS
      <4> HIDE DEF sc
      <4>4. \A i \in 1..Len(softhead) : i \in 1..Len(softhead')
        BY <4>2
      <4>5. Len(softhead) + 1 \in 1..Len(softhead')
        BY <4>2
      <4> QED
        BY <4>2, <4>3, <4>4, <4>5 DEF Queued
    <3> QED
      BY <3>1, <3>2, <3>3
  <2>3. SUFFICES ASSUME ~panicstr', NEW o \in owed' PROVE Served(o[1])'
    BY DEF OwedIsQueued, Served
  <2>4. CASE o \in owed
    BY <2>1, <2>2, <2>4 DEF OwedIsQueued, Served
  <2>5. CASE o = <<f, u>>
    BY <2>2, <2>3, <2>5 DEF Served
  <2> QED
    BY <2>1, <2>4, <2>5
<1>2. ASSUME NEW p \in CPUs, SoftintTake(p) PROVE OwedIsQueued'
  <2>1. /\ cpc[p] = "loop" /\ softhead # << >> /\ softhead' = Tail(softhead) /\ panicstr' = panicstr
        /\ cur' = [cur EXCEPT ![p] = Head(softhead).func]
        /\ cpc' = [cpc EXCEPT ![p] = NextPc(Head(softhead))]
        /\ owed' = Started(Head(softhead))
    BY <1>2 DEF SoftintTake
  <2>2. /\ Len(softhead) \in Nat /\ Head(softhead) = softhead[1]
        /\ Len(Tail(softhead)) = Len(softhead) - 1
        /\ \A i \in 1..Len(Tail(softhead)) : Tail(softhead)[i] = softhead[i + 1]
    BY <1>0, <2>1, HeadTailProperties
  <2>3. SUFFICES ASSUME ~panicstr, NEW o \in owed' PROVE Served(o[1])'
    BY <2>1 DEF OwedIsQueued, Served
  <2>4. o \in owed /\ (softhead[1].unsafe \/ o[1] # softhead[1].func)
    BY <2>1, <2>2 DEF Started
  <2>5. CASE o[1] = softhead[1].func
    <3>1. cpc'[p] = "enter" /\ cur'[p] = o[1]
      BY <1>0, <2>1, <2>2, <2>4, <2>5 DEF NextPc
    <3> QED
      BY <3>1 DEF Served
  <2>6. CASE o[1] # softhead[1].func /\ o[1] \in Queued
    <3>1. PICK i \in 1..Len(softhead) : softhead[i].func = o[1]
      BY <2>6 DEF Queued
    <3>2. i # 1
      BY <2>6, <3>1
    <3>3. i - 1 \in 1..Len(softhead') /\ softhead'[i - 1] = softhead[i]
      BY <2>1, <2>2, <3>1, <3>2
    <3> QED
      BY <3>1, <3>3 DEF Served, Queued
  <2>7. CASE \E q \in CPUs : cpc[q] = "enter" /\ cur[q] = o[1]
    <3>1. PICK q \in CPUs : cpc[q] = "enter" /\ cur[q] = o[1]
      BY <2>7
    <3>2. cpc'[q] = "enter" /\ cur'[q] = o[1]
      BY <1>0, <2>1, <3>1
    <3> QED
      BY <3>2 DEF Served
  <2> QED
    BY <2>3, <2>4, <2>5, <2>6, <2>7 DEF OwedIsQueued
<1>3. ASSUME NEW p \in CPUs, SoftintEnter(p) PROVE OwedIsQueued'
  <2>1. /\ owed' = {o \in owed : o[1] # cur[p]} /\ cpc' = [cpc EXCEPT ![p] = "func"]
        /\ cur' = cur /\ softhead' = softhead /\ panicstr' = panicstr
    BY <1>3 DEF SoftintEnter, qvars
  <2> QED
    BY <1>0, <2>1 DEF OwedIsQueued, Queued
<1>4. ASSUME NEW p \in CPUs, SoftintReturns(p) \/ SoftintCallReturns(p) \/ Softlevel1(p) \/ ClearPending(p)
      PROVE  OwedIsQueued'
  <2>1. softhead' = softhead /\ panicstr' = panicstr /\ owed' = owed
    BY <1>4 DEF SoftintReturns, SoftintCallReturns, Softlevel1, ClearPending, qvars
  <2>2. \A q \in CPUs : cpc[q] = "enter" => cpc'[q] = "enter" /\ cur'[q] = cur[q]
    BY <1>0, <1>4 DEF SoftintReturns, SoftintCallReturns, Softlevel1, ClearPending
  <2> QED
    BY <2>1, <2>2, ServedKept
<1>5. ASSUME NEW p \in CPUs, TrapSiron(p) \/ SironSet(p) \/ SironPost(p) PROVE OwedIsQueued'
  BY <1>5, ServedKept DEF TrapSiron, SironSet, SironPost, qvars
<1>6. CASE DriverEnter \/ DriverExit \/ UNCHANGED softcall_vars
  BY <1>6, ServedKept DEF DriverEnter, DriverExit, softcall_vars, qvars
<1> QED
  BY <1>1, <1>2, <1>3, <1>4, <1>5, <1>6 DEF SoftcallNext, CpuStep, CallSoftcall, DriverSoftcall

(* A softcall() made after the function last started is not lost by being  *)
(* merged into the call that runs: it is on the queue, or a softint() has  *)
(* it and waits for unsafe_driver.                                         *)
THEOREM SoftcallOwedIsQueued == SoftcallSpec => []OwedIsQueued
<1>1. SoftcallInit => OwedIsQueued
  BY DEF SoftcallInit, OwedIsQueued
<1> QED
  BY <1>1, InitSoftcallInv, NextSoftcallInv, OwedNext, PTL DEF SoftcallSpec
=======================================================================
