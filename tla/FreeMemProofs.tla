------------------------- MODULE FreeMemProofs -------------------------
(***************************************************************************)
(* Theorems about FreeMem, for any number of threads, buckets and pages:   *)
(* no more pages are promised than there are, and whoever sleeps for       *)
(* memory is counted in every bucket.                                      *)
(***************************************************************************)
EXTENDS FreeMem, FiniteSetTheorems, NaturalsInduction, WellFoundedInduction, TLAPS

-----------------------------------------------------------------------
(* Sums over finite sets.  The library's induction theorems take an        *)
(* operator, so induction is by a smallest counterexample.                 *)

(* Every non-empty set of naturals has a least element. *)
LEMMA LeastNatural ==
  ASSUME NEW S \in SUBSET Nat, S # {}
  PROVE  \E i \in S : \A j \in S : i <= j
<1>1. PICK i \in S : \A j \in S : <<j, i>> \notin OpToRel(<, Nat)
  BY NatLessThanWellFounded, WFMin, Zenon
<1>2. \A j \in S : <<j, i>> \in Nat \X Nat
  OBVIOUS
<1>3. \A j \in S : ~(j < i)
  BY <1>1, <1>2 DEF OpToRel
<1> QED
  BY <1>3

(* In a non-empty family of finite sets there is one that is in it with no *)
(* set of fewer elements.                                                  *)
LEMMA SmallestSet ==
  ASSUME NEW S, IsFiniteSet(S), NEW B \in SUBSET SUBSET S, B # {}
  PROVE  \E s \in B : \A r \in B : Cardinality(s) <= Cardinality(r)
<1> DEFINE C == {Cardinality(s) : s \in B}
<1>1. \A s \in B : Cardinality(s) \in Nat
  BY FS_Subset, FS_CardinalityType
<1>2. C \in SUBSET Nat /\ C # {}
  BY <1>1
<1>3. PICK i \in C : \A j \in C : i <= j
  <2> HIDE DEF C
  <2> QED
    BY <1>2, LeastNatural
<1>4. PICK s \in B : i = Cardinality(s)
  BY <1>3
<1> QED
  BY <1>3, <1>4

(* What MapThenSumSet computes for a subset s, from what g says of smaller *)
(* ones.                                                                   *)
Pick(s) == CHOOSE x \in s : TRUE
Unroll(f, g, s) == IF s = {} THEN 0 ELSE f[Pick(s)] + g[s \ {Pick(s)}]
Adds(f, S, g) == g = [s \in SUBSET S |-> Unroll(f, g, s)]
SumOf(f, S) == CHOOSE g : Adds(f, S, g)

(* A sum is the value of the recursive function at the whole set. *)
LEMMA SumDef ==
  ASSUME NEW S, NEW f
  PROVE  Sum(f, S) = SumOf(f, S)[S]
BY DEF Sum, MapThenSumSet, MapThenFoldSet, SumOf, Adds, Unroll, Pick

(* CHOOSE picks an element of a non-empty set. *)
LEMMA PickIn ==
  ASSUME NEW s, s # {}
  PROVE  Pick(s) \in s
BY DEF Pick

(* The recursion is well founded: the function exists. *)
LEMMA SumOfExists ==
  ASSUME NEW S, IsFiniteSet(S), NEW f
  PROVE  Adds(f, S, SumOf(f, S))
<1> DEFINE Fits(g, n) == \A s \in SUBSET S : Cardinality(s) <= n => g[s] = Unroll(f, g, s)
           Bad == {n \in Nat : ~\E g : Fits(g, n)}
<1>0. \A s \in SUBSET S : Cardinality(s) \in Nat /\ IsFiniteSet(s)
  BY FS_Subset, FS_CardinalityType
<1>1. Bad = {}
  <2> SUFFICES ASSUME Bad # {} PROVE FALSE
    OBVIOUS
  <2>1. PICK k \in Bad : \A j \in Bad : k <= j
    <3>1. Bad \in SUBSET Nat
      OBVIOUS
    <3> HIDE DEF Bad
    <3> QED
      BY <3>1, LeastNatural
  <2>2. k \in Nat /\ ~\E g : Fits(g, k)
    OBVIOUS
  <2>3. CASE k = 0
    <3> DEFINE z == [s \in SUBSET S |-> 0]
    <3>1. \A s \in SUBSET S : Cardinality(s) <= 0 => s = {}
      BY <1>0, FS_EmptySet
    <3>2. Fits(z, 0)
      BY <3>1 DEF Unroll
    <3> QED
      BY <2>2, <2>3, <3>2
  <2>4. CASE k # 0
    <3>1. k - 1 \in Nat /\ k - 1 \notin Bad
      BY <2>1, <2>2, <2>4
    <3>2. PICK g : Fits(g, k - 1)
      BY <3>1
    <3> DEFINE h == [s \in SUBSET S |-> Unroll(f, g, s)]
    <3>3. \A s \in SUBSET S : Cardinality(s) <= k - 1 => h[s] = g[s]
      BY <3>2
    <3>4. ASSUME NEW s \in SUBSET S, Cardinality(s) <= k PROVE h[s] = Unroll(f, h, s)
      <4>1. CASE s = {}
        BY <4>1 DEF Unroll
      <4>2. CASE s # {}
        <5>1. Pick(s) \in s
          BY <4>2, PickIn
        <5>2. Cardinality(s \ {Pick(s)}) = Cardinality(s) - 1
          BY <5>1, <1>0, FS_RemoveElement
        <5>3. s \ {Pick(s)} \in SUBSET S /\ Cardinality(s \ {Pick(s)}) <= k - 1
          BY <5>2, <3>4, <1>0, <2>2
        <5>4. h[s \ {Pick(s)}] = g[s \ {Pick(s)}]
          BY <3>3, <5>3
        <5>5. h[s] = Unroll(f, g, s)
          OBVIOUS
        <5> HIDE DEF h
        <5> QED
          BY <4>2, <5>4, <5>5 DEF Unroll
      <4> QED
        BY <4>1, <4>2
    <3>5. Fits(h, k)
      <4> HIDE DEF h
      <4> QED
        BY <3>4
    <3> QED
      BY <2>2, <3>5
  <2> QED
    BY <2>3, <2>4
<1>2. Cardinality(S) \in Nat
  BY <1>0
<1>3. PICK g : Fits(g, Cardinality(S))
  BY <1>1, <1>2
<1>4. \A s \in SUBSET S : Cardinality(s) <= Cardinality(S)
  BY FS_Subset
<1>5. \A s \in SUBSET S : g[s] = Unroll(f, g, s)
  BY <1>3, <1>4
<1> DEFINE h == [s \in SUBSET S |-> Unroll(f, g, s)]
<1>6. \A s \in SUBSET S : h[s] = g[s]
  BY <1>5
<1>7. ASSUME NEW s \in SUBSET S PROVE Unroll(f, h, s) = Unroll(f, g, s)
  <2>1. CASE s = {}
    BY <2>1 DEF Unroll
  <2>2. CASE s # {}
    <3>1. s \ {Pick(s)} \in SUBSET S
      OBVIOUS
    <3>2. h[s \ {Pick(s)}] = g[s \ {Pick(s)}]
      BY <3>1, <1>6
    <3> HIDE DEF h
    <3> QED
      BY <2>2, <3>2 DEF Unroll
  <2> QED
    BY <2>1, <2>2
<1>8. Adds(f, S, h)
  <2>1. h = [s \in SUBSET S |-> Unroll(f, h, s)]
    BY <1>7
  <2> HIDE DEF h
  <2> QED
    BY <2>1 DEF Adds
<1> QED
  <2> HIDE DEF h
  <2> QED
    BY <1>8, Zenon DEF SumOf

(* The recursion, at any subset. *)
LEMMA SumOfAt ==
  ASSUME NEW S, IsFiniteSet(S), NEW f, NEW s \in SUBSET S
  PROVE  SumOf(f, S)[s] = IF s = {} THEN 0 ELSE f[Pick(s)] + SumOf(f, S)[s \ {Pick(s)}]
<1> DEFINE g == SumOf(f, S)
<1>1. Adds(f, S, g)
  BY SumOfExists
<1> HIDE DEF g
<1>2. g[s] = Unroll(f, g, s)
  BY <1>1 DEF Adds
<1> QED
  BY <1>2 DEF Unroll, g

(* Sums of integers are integers, and no order of summation matters: an    *)
(* element can be left for the last.                                       *)
LEMMA SumOfAdd ==
  ASSUME NEW S, IsFiniteSet(S), NEW f, \A x \in S : f[x] \in Int
  PROVE  \A s \in SUBSET S : /\ SumOf(f, S)[s] \in Int
                             /\ \A a \in s : SumOf(f, S)[s] = SumOf(f, S)[s \ {a}] + f[a]
<1> DEFINE g == SumOf(f, S)
           Good(s) == g[s] \in Int /\ \A a \in s : g[s] = g[s \ {a}] + f[a]
           Bad == {s \in SUBSET S : ~Good(s)}
<1>0. \A s \in SUBSET S : g[s] = IF s = {} THEN 0 ELSE f[Pick(s)] + g[s \ {Pick(s)}]
  BY SumOfAt
<1> HIDE DEF g
<1> SUFFICES ASSUME Bad # {} PROVE FALSE
  BY DEF g
<1>1. PICK s \in Bad : \A r \in Bad : Cardinality(s) <= Cardinality(r)
  <2>1. Bad \in SUBSET SUBSET S
    OBVIOUS
  <2> HIDE DEF Bad
  <2> QED
    BY <2>1, SmallestSet
<1>2. s \in SUBSET S /\ ~Good(s) /\ IsFiniteSet(s) /\ Cardinality(s) \in Nat
  BY FS_Subset, FS_CardinalityType
<1>3. s # {}
  <2> SUFFICES ASSUME s = {} PROVE FALSE
    OBVIOUS
  <2>1. g[s] = 0
    BY <1>0, <1>2
  <2>2. g[s] \in Int
    BY <2>1
  <2> QED
    BY <1>2, <2>2
<1>4. ASSUME NEW r \in SUBSET S, Cardinality(r) < Cardinality(s), Cardinality(r) \in Nat PROVE Good(r)
  <2>1. r \notin Bad
    BY <1>1, <1>4, <1>2
  <2> QED
    BY <2>1
<1>5. PICK x \in s : g[s] = f[x] + g[s \ {x}]
  BY <1>0, <1>2, <1>3, PickIn
<1>6. ASSUME NEW a \in s PROVE Good(s \ {a})
  <2>1. Cardinality(s \ {a}) = Cardinality(s) - 1 /\ IsFiniteSet(s \ {a})
    BY <1>2, FS_RemoveElement
  <2>2. Cardinality(s \ {a}) \in Nat
    BY <2>1, FS_CardinalityType
  <2>3. Cardinality(s \ {a}) < Cardinality(s) /\ s \ {a} \in SUBSET S
    BY <1>2, <2>1, <2>2
  <2> QED
    BY <1>4, <2>2, <2>3
<1>7. x \in S /\ f[x] \in Int /\ g[s \ {x}] \in Int /\ g[s] \in Int
  <2>1. x \in S /\ f[x] \in Int
    BY <1>2
  <2>2. g[s \ {x}] \in Int
    BY <1>6
  <2> QED
    BY <1>5, <2>1, <2>2
<1>8. ASSUME NEW a \in s PROVE g[s] = g[s \ {a}] + f[a]
  <2>1. CASE a = x
    BY <1>5, <1>7, <2>1
  <2>2. CASE a # x
    <3>1. g[s \ {x}] = g[(s \ {x}) \ {a}] + f[a]
      BY <1>6, <2>2
    <3>2. g[s \ {a}] = g[(s \ {a}) \ {x}] + f[x]
      BY <1>6, <2>2
    <3>3. (s \ {x}) \ {a} = (s \ {a}) \ {x}
      OBVIOUS
    <3>4. (s \ {x}) \ {a} \in SUBSET S /\ a \in S /\ f[a] \in Int
      BY <1>2
    <3>5. g[(s \ {x}) \ {a}] \in Int
      <4>1. Cardinality(s \ {x}) = Cardinality(s) - 1 /\ IsFiniteSet(s \ {x})
        BY <1>2, FS_RemoveElement
      <4>2. IsFiniteSet((s \ {x}) \ {a}) /\ Cardinality((s \ {x}) \ {a}) = Cardinality(s \ {x}) - 1
        BY <4>1, <2>2, FS_RemoveElement
      <4>3. Cardinality((s \ {x}) \ {a}) \in Nat
        BY <4>2, FS_CardinalityType
      <4> QED
        BY <1>2, <1>4, <3>4, <4>1, <4>2, <4>3
    <3>6. PICK z, u, v, w : z = g[(s \ {x}) \ {a}] /\ u = g[s \ {x}] /\ v = g[s \ {a}] /\ w = g[s]
      OBVIOUS
    <3>7. u = z + f[a] /\ v = z + f[x] /\ w = f[x] + u
      BY <1>5, <3>1, <3>2, <3>3, <3>6
    <3>8. z \in Int /\ f[a] \in Int /\ f[x] \in Int
      BY <1>7, <3>4, <3>5, <3>6
    <3>9. w = v + f[a]
      BY <3>7, <3>8
    <3> QED
      BY <3>6, <3>9
  <2> QED
    BY <2>1, <2>2
<1> QED
  BY <1>2, <1>7, <1>8

(* The sum over a part of S is what the recursion over S says of it. *)
LEMMA SumPart ==
  ASSUME NEW S, IsFiniteSet(S), NEW f, NEW T \in SUBSET S
  PROVE  SumOf(f, T)[T] = SumOf(f, S)[T]
<1> DEFINE g == SumOf(f, S)
           h == SumOf(f, T)
           Bad == {s \in SUBSET T : g[s] # h[s]}
<1>0. IsFiniteSet(T)
  BY FS_Subset
<1>1. \A s \in SUBSET T : g[s] = IF s = {} THEN 0 ELSE f[Pick(s)] + g[s \ {Pick(s)}]
  BY SumOfAt
<1>2. \A s \in SUBSET T : h[s] = IF s = {} THEN 0 ELSE f[Pick(s)] + h[s \ {Pick(s)}]
  BY <1>0, SumOfAt
<1> HIDE DEF g, h
<1> SUFFICES ASSUME Bad # {} PROVE FALSE
  BY DEF g, h
<1>3. PICK s \in Bad : \A r \in Bad : Cardinality(s) <= Cardinality(r)
  <2>1. Bad \in SUBSET SUBSET T
    OBVIOUS
  <2> HIDE DEF Bad
  <2> QED
    BY <1>0, <2>1, SmallestSet
<1>4. s \in SUBSET T /\ g[s] # h[s] /\ IsFiniteSet(s) /\ Cardinality(s) \in Nat
  BY <1>0, FS_Subset, FS_CardinalityType
<1>5. s # {} /\ Pick(s) \in s
  BY <1>1, <1>2, <1>4, PickIn
<1>6. Cardinality(s \ {Pick(s)}) = Cardinality(s) - 1
  BY <1>4, <1>5, FS_RemoveElement
<1>7. s \ {Pick(s)} \in SUBSET T /\ s \ {Pick(s)} \notin Bad
  BY <1>3, <1>4, <1>6
<1>8. g[s \ {Pick(s)}] = h[s \ {Pick(s)}]
  BY <1>7
<1> QED
  BY <1>1, <1>2, <1>4, <1>5, <1>8

(* Sums, element by element. *)
LEMMA SumAdd ==
  ASSUME NEW S, IsFiniteSet(S), NEW f, \A x \in S : f[x] \in Int
  PROVE  /\ Sum(f, {}) = 0 /\ Sum(f, S) \in Int
         /\ \A a \in S : Sum(f, S) = Sum(f, S \ {a}) + f[a]
<1>1. Sum(f, {}) = 0
  <2>1. SumOf(f, {})[{}] = 0
    BY FS_EmptySet, SumOfAt
  <2> QED
    BY <2>1, SumDef
<1>2. S \in SUBSET S
  OBVIOUS
<1>3. Sum(f, S) \in Int
  BY <1>2, SumOfAdd, SumDef
<1>4. ASSUME NEW a \in S PROVE Sum(f, S) = Sum(f, S \ {a}) + f[a]
  <2>1. SumOf(f, S)[S] = SumOf(f, S)[S \ {a}] + f[a]
    BY <1>2, SumOfAdd
  <2>2. SumOf(f, S \ {a})[S \ {a}] = SumOf(f, S)[S \ {a}]
    BY SumPart
  <2> QED
    BY <2>1, <2>2, SumDef
<1> QED
  BY <1>1, <1>3, <1>4

(* Only the values at the elements of the set count. *)
LEMMA SumSame ==
  ASSUME NEW S, IsFiniteSet(S), NEW f, NEW g, \A x \in S : f[x] \in Int /\ g[x] = f[x]
  PROVE  Sum(g, S) = Sum(f, S)
<1> DEFINE Bad == {s \in SUBSET S : Sum(g, s) # Sum(f, s)}
<1> SUFFICES ASSUME Bad # {} PROVE FALSE
  OBVIOUS
<1>1. PICK s \in Bad : \A r \in Bad : Cardinality(s) <= Cardinality(r)
  <2>1. Bad \in SUBSET SUBSET S
    OBVIOUS
  <2> HIDE DEF Bad
  <2> QED
    BY <2>1, SmallestSet
<1>2. s \in SUBSET S /\ Sum(g, s) # Sum(f, s) /\ IsFiniteSet(s) /\ Cardinality(s) \in Nat
  BY FS_Subset, FS_CardinalityType
<1>3. s # {}
  BY <1>2, SumAdd
<1>4. PICK a \in s : TRUE
  BY <1>3
<1>5. Cardinality(s \ {a}) = Cardinality(s) - 1
  BY <1>2, FS_RemoveElement
<1>6. s \ {a} \in SUBSET S /\ s \ {a} \notin Bad
  BY <1>1, <1>2, <1>5
<1>7. Sum(g, s \ {a}) = Sum(f, s \ {a})
  BY <1>6
<1>8. \A x \in s : f[x] \in Int /\ g[x] \in Int /\ g[x] = f[x]
  BY <1>2
<1>9. Sum(f, s) = Sum(f, s \ {a}) + f[a]
  BY <1>2, <1>8, SumAdd
<1>10. Sum(g, s) = Sum(g, s \ {a}) + g[a]
  BY <1>2, <1>8, SumAdd
<1> QED
  BY <1>2, <1>7, <1>8, <1>9, <1>10

(* A change at one element changes the sum by as much. *)
LEMMA SumChange ==
  ASSUME NEW S, IsFiniteSet(S), NEW f, NEW g, NEW a \in S, g[a] \in Int,
         \A x \in S : f[x] \in Int, \A x \in S \ {a} : g[x] = f[x]
  PROVE  Sum(f, S) \in Int /\ Sum(g, S) = Sum(f, S) - f[a] + g[a]
<1>1. IsFiniteSet(S \ {a})
  BY FS_RemoveElement
<1>2. Sum(g, S \ {a}) = Sum(f, S \ {a})
  BY <1>1, SumSame
<1>3. Sum(f, S) = Sum(f, S \ {a}) + f[a] /\ Sum(f, S) \in Int
  BY SumAdd
<1>4. Sum(g, S) = Sum(g, S \ {a}) + g[a]
  <2>1. \A x \in S : g[x] \in Int
    OBVIOUS
  <2> QED
    BY <2>1, SumAdd
<1>5. Sum(f, S \ {a}) \in Int
  BY <1>1, SumAdd
<1> QED
  BY <1>2, <1>3, <1>4, <1>5

(* A sum of naturals is at least each of its parts. *)
LEMMA SumNat ==
  ASSUME NEW S, IsFiniteSet(S), NEW f, \A x \in S : f[x] \in Nat
  PROVE  Sum(f, S) \in Nat /\ \A a \in S : Sum(f, S) >= f[a]
<1>0. \A x \in S : f[x] \in Int
  OBVIOUS
<1> DEFINE Bad == {s \in SUBSET S : Sum(f, s) \notin Nat}
<1>1. Bad = {}
  <2> SUFFICES ASSUME Bad # {} PROVE FALSE
    OBVIOUS
  <2>1. PICK s \in Bad : \A r \in Bad : Cardinality(s) <= Cardinality(r)
    <3>1. Bad \in SUBSET SUBSET S
      OBVIOUS
    <3> HIDE DEF Bad
    <3> QED
      BY <3>1, SmallestSet
  <2>2. s \in SUBSET S /\ Sum(f, s) \notin Nat /\ IsFiniteSet(s) /\ Cardinality(s) \in Nat
    BY FS_Subset, FS_CardinalityType
  <2>3. s # {}
    <3>1. Sum(f, {}) = 0
      BY <1>0, SumAdd
    <3> QED
      BY <2>2, <3>1
  <2>4. PICK a \in s : TRUE
    BY <2>3
  <2>5. Cardinality(s \ {a}) = Cardinality(s) - 1
    BY <2>2, FS_RemoveElement
  <2>6. s \ {a} \in SUBSET S /\ s \ {a} \notin Bad
    BY <2>1, <2>2, <2>5
  <2>7. Sum(f, s \ {a}) \in Nat /\ f[a] \in Nat
    BY <2>2, <2>6
  <2>8. Sum(f, s) = Sum(f, s \ {a}) + f[a]
    BY <2>2, <1>0, SumAdd
  <2> QED
    BY <2>2, <2>7, <2>8
<1>2. \A s \in SUBSET S : Sum(f, s) \in Nat
  BY <1>1
<1>3. ASSUME NEW a \in S PROVE Sum(f, S) >= f[a]
  <2>1. Sum(f, S) = Sum(f, S \ {a}) + f[a]
    BY <1>0, SumAdd
  <2>2. Sum(f, S \ {a}) \in Nat /\ f[a] \in Nat
    BY <1>2
  <2> QED
    BY <2>1, <2>2
<1> QED
  BY <1>2, <1>3

(* A sum of nothing but zeros. *)
LEMMA SumZero ==
  ASSUME NEW S, IsFiniteSet(S), NEW f, \A x \in S : f[x] = 0
  PROVE  Sum(f, S) = 0
<1>0. \A x \in S : f[x] \in Int
  OBVIOUS
<1> DEFINE Bad == {s \in SUBSET S : Sum(f, s) # 0}
<1> SUFFICES ASSUME Bad # {} PROVE FALSE
  OBVIOUS
<1>1. PICK s \in Bad : \A r \in Bad : Cardinality(s) <= Cardinality(r)
  <2>1. Bad \in SUBSET SUBSET S
    OBVIOUS
  <2> HIDE DEF Bad
  <2> QED
    BY <2>1, SmallestSet
<1>2. s \in SUBSET S /\ Sum(f, s) # 0 /\ IsFiniteSet(s) /\ Cardinality(s) \in Nat
  BY FS_Subset, FS_CardinalityType
<1>3. s # {}
  BY <1>2, <1>0, SumAdd
<1>4. PICK a \in s : TRUE
  BY <1>3
<1>5. Cardinality(s \ {a}) = Cardinality(s) - 1
  BY <1>2, FS_RemoveElement
<1>6. s \ {a} \in SUBSET S /\ s \ {a} \notin Bad
  BY <1>1, <1>2, <1>5
<1>7. Sum(f, s \ {a}) = 0 /\ f[a] = 0
  BY <1>2, <1>6
<1>8. Sum(f, s) = Sum(f, s \ {a}) + f[a]
  BY <1>2, <1>0, SumAdd
<1> QED
  BY <1>2, <1>7, <1>8

-----------------------------------------------------------------------
(* The inductive invariant. *)

NppSum == SumLoc(Npp)
PlistSum == SumLoc(Plist)
ClaimedSum == SumLoc(Claimed)
UncountedSum == SumLoc(Uncounted)
Destroyed == Cardinality(At("destroy"))
PcfSum == CountIn(Buckets) + Reserved
Sleeping == {t \in Threads : pc[t] \in DOMAIN After}
PcgsPCs == {"block", "blocked", "unblock"}

(* What thread t's local variables say at each place: nothing outside a    *)
(* call, a request before the claim, then what of it is still to be found; *)
(* and in page_create_putback(), what of it is still to be put back.       *)
Empty(l) == l.n = 0 /\ l.found = 0 /\ l.npp = 0 /\ l.plist = 0
Asked(l) == l.n > 0 /\ l.left = 0 /\ l.found = 0 /\ l.npp = 0 /\ l.plist = 0 /\ l.i = 1
Given(l) == l.n > 0 /\ l.found + l.left <= l.n
PutsBack(l) == l.n > 0 /\ l.left > 0 /\ l.found = 0 /\ l.npp = 0 /\ l.plist = 0 /\ l.left + (l.i - 1) * Lump(l.n) = l.n
Shape(t) ==
  /\ pc[t] \in {"run", "reclaim", "destroy", "reclaim_slept"} => Empty(loc[t])
  /\ pc[t] \in {"va", "wait", "va_slept", "wait_slept"} => Asked(loc[t])
  /\ pc[t] \in {"get", "pcgs", "block", "blocked", "unblock", "undo", "over"} => Given(loc[t])
  /\ pc[t] = "account" => Empty(loc[t]) \/ Given(loc[t])
  /\ pc[t] \in {"pcgs", "block", "blocked"} => loc[t].npp = 0
  /\ pc[t] = "get" => loc[t].i = 1
  /\ pc[t] = "blocked" => loc[t].i = 1
  /\ pc[t] = "over" => loc[t].npp = 0 /\ loc[t].plist = 0
  /\ pc[t] \in {"large", "putback", "putadd"} => PutsBack(loc[t])
  /\ pc[t] = "large" => loc[t].i = 1

(* Pages that somebody locked are on the lists; there is room for the      *)
(* pages that are found and in use.                                        *)
PagesOK ==
  /\ Present >= Promised
  /\ lists + NppSum + Destroyed + PlistSum <= NPages
  /\ Busy <= lists
WaitOK ==
  /\ WaitersCounted /\ freemem_cv \subseteq Sleeping
PcgsOK ==
  /\ BlockedIsUnblocked /\ \A t \in Threads : pc[t] \in PcgsPCs <=> pcgs_lock = t
Inv == TypeOK /\ (\A t \in Threads : Shape(t)) /\ PagesOK /\ WaitOK /\ PcgsOK

(* The types of one thread's locals. *)
LocType == [n : Nat, wait : BOOLEAN, excl : BOOLEAN, large : BOOLEAN, left : Nat, found : Nat,
            npp : {0, 1}, plist : Nat, i : Buckets, which : BOOLEAN]
PCs == {"run", "va", "wait", "get", "pcgs", "block", "blocked", "unblock", "undo", "account", "over",
        "reclaim", "destroy", "large", "putback", "putadd", "va_slept", "wait_slept", "reclaim_slept"}
Moved(t) ==
  /\ pc' \in [Threads -> PCs] /\ loc' \in [Threads -> LocType]
  /\ \A u \in Threads \ {t} : pc'[u] = pc[u] /\ loc'[u] = loc[u]

(* What TypeOK says, in the names used here. *)
LEMMA Typing ==
  ASSUME TypeOK
  PROVE  /\ pc \in [Threads -> PCs] /\ loc \in [Threads -> LocType]
         /\ pcf_count \in [Buckets -> Nat] /\ pcf_reserve \in [Buckets -> Nat]
         /\ 1 \in Buckets /\ Buckets \subseteq Nat
<1>1. DOMAIN After = {"va_slept", "wait_slept", "reclaim_slept"}
  BY DEF After
<1>2. pc \in [Threads -> PCs]
  BY <1>1 DEF TypeOK, PCs
<1>3. loc \in [Threads -> LocType]
  BY DEF TypeOK, LocType
<1>4. pcf_count \in [Buckets -> Nat] /\ pcf_reserve \in [Buckets -> Nat]
  BY DEF TypeOK
<1>5. 1 \in Buckets /\ Buckets \subseteq Nat
  BY FreeMemAssumption DEF Buckets
<1> QED
  BY <1>2, <1>3, <1>4, <1>5

(* Lumps of the size that page_create_putback() computes cover the whole   *)
(* request, so the last bucket takes what is left.                         *)
LEMMA LumpCovers ==
  ASSUME NEW n \in Nat \ {0}
  PROVE  Lump(n) \in Nat \ {0} /\ Lump(n) * PCF_FANOUT >= n
<1>1. PCF_FANOUT \in Nat \ {0}
  BY FreeMemAssumption
<1>2. ASSUME NEW F \in Nat \ {0} PROVE /\ (n + F - 1) \div F \in Nat \ {0}
                                     /\ ((n + F - 1) \div F) * F >= n
  OBVIOUS
<1> QED
  BY <1>1, <1>2 DEF Lump

(* A putback that has more than a lump left has a bucket left, and the    *)
(* bookkeeping of its loop goes on.                                        *)
LEMMA PutbackEnds ==
  ASSUME NEW l \in LocType, PutsBack(l), l.left > Lump(l.n)
  PROVE  /\ l.i + 1 \in Buckets
         /\ l.left - Lump(l.n) + (l.i + 1 - 1) * Lump(l.n) = l.n
<1>1. l.n \in Nat \ {0} /\ l.i \in 1..PCF_FANOUT /\ l.left \in Nat /\ l.left + (l.i - 1) * Lump(l.n) = l.n
  BY DEF PutsBack, LocType, Buckets
<1>2. Lump(l.n) \in Nat \ {0} /\ Lump(l.n) * PCF_FANOUT >= l.n
  BY <1>1, LumpCovers
<1>3. ASSUME NEW k \in Nat \ {0}, NEW n \in Nat, NEW F \in Nat, NEW i \in 1..F, NEW left \in Nat,
             left + (i - 1) * k = n, k * F >= n, left > k
      PROVE  i # F /\ left - k + (i + 1 - 1) * k = n
  <2>1. (i - 1) * k = i * k - k
    OBVIOUS
  <2> QED
    BY <2>1, <1>3
<1> QED
  BY <1>1, <1>2, <1>3, FreeMemAssumption DEF Buckets

(* Assignments of the right types move one thread. *)
LEMMA SetMoves ==
  ASSUME pc \in [Threads -> PCs], loc \in [Threads -> LocType], NEW t \in Threads, NEW l \in PCs, NEW r \in LocType,
         pc' = [pc EXCEPT ![t] = l], loc' = [loc EXCEPT ![t] = r]
  PROVE  Moved(t) /\ pc'[t] = l /\ loc'[t] = r
BY DEF Moved

(* Every step of thread t changes the place and the locals of t only, and  *)
(* keeps their types.                                                      *)
LEMMA StepMoves ==
  ASSUME TypeOK, NEW t \in Threads, Shape(t), Call(t) \/ Step(t)
  PROVE  Moved(t)
<1>0. /\ pc \in [Threads -> PCs] /\ loc \in [Threads -> LocType]
      /\ 1 \in Buckets /\ Buckets \subseteq Nat /\ PCF_FANOUT \in Nat
      /\ pc = [pc EXCEPT ![t] = pc[t]] /\ loc = [loc EXCEPT ![t] = loc[t]]
      /\ pc[t] \in PCs /\ loc[t] \in LocType
  BY Typing, FreeMemAssumption
<1>1. ASSUME NEW n \in Requests, NEW wait \in BOOLEAN, NEW excl \in BOOLEAN, PageCreateVa(t, n, wait, excl)
      PROVE  Moved(t)
  BY <1>0, <1>1, FreeMemAssumption DEF PageCreateVa, Goto, Set, Fresh, Moved, PCs, LocType
<1>2. ASSUME NEW n \in LargePages, LargeCreate(t, n)
      PROVE  Moved(t)
  BY <1>0, <1>2, FreeMemAssumption DEF LargeCreate, Goto, Set, Fresh, Moved, PCs, LocType
<1>3. CASE PageFree(t)
  BY <1>0, <1>3 DEF PageFree, Goto, Set, Fresh, Moved, PCs, LocType
<1>4. CASE PageReclaim(t)
  BY <1>0, <1>4 DEF PageReclaim, Goto, Set, Fresh, Moved, PCs, LocType
<1>5. CASE PageDestroyFree(t)
  BY <1>0, <1>5 DEF PageDestroyFree, Goto, Set, Fresh, Moved, PCs, LocType
<1>6. CASE Slept(t)
  BY <1>0, <1>6 DEF Slept, Goto, Set, Fresh, Moved, PCs, LocType, After
<1>7. CASE ThrottleWaits(t)
  BY <1>0, <1>7 DEF ThrottleWaits, Goto, Set, Fresh, Moved, PCs, LocType, CvWait
<1>8. CASE ThrottleFails(t)
  BY <1>0, <1>8 DEF ThrottleFails, Goto, Set, Fresh, Moved, PCs, LocType, Return
<1>9. CASE ScanFinds(t)
  <2>1. PICK counts : Claim(t, counts)
    BY <1>9 DEF ScanFinds
  <2> QED
    BY <1>0, <2>1 DEF Claim, Goto, Set, Moved, PCs, LocType
<1>10. CASE ScanMisses(t)
  BY <1>0, <1>10 DEF ScanMisses, Goto, Set, Fresh, Moved, PCs, LocType
<1>11. CASE PageCreateWait(t)
  <2>1. CASE Claim(t, Coalesce(loc[t].n))
    BY <1>0, <2>1 DEF Claim, Goto, Set, Moved, PCs, LocType
  <2>2. CASE Return(t)
    BY <1>0, <2>2 DEF Return, Goto, Set, Fresh, Moved, PCs, LocType
  <2>3. CASE CvWait(t, "wait_slept") /\ UNCHANGED loc
    BY <1>0, <2>3 DEF CvWait, Goto, Moved, PCs
  <2> QED
    BY <1>11, <2>1, <2>2, <2>3 DEF PageCreateWait
<1>12. CASE GetPage(t)
  BY <1>0, <1>12 DEF GetPage, Goto, Set, Fresh, Moved, PCs, LocType
<1>13. CASE PcgsLock(t)
  BY <1>0, <1>13 DEF PcgsLock, Goto, Set, Fresh, Moved, PCs, LocType
<1>14. CASE PcgsBlock(t)
  <2>1. NextBucket(t, "blocked")
    BY <1>14 DEF PcgsBlock
  <2>2. CASE loc[t].i < PCF_FANOUT
    <3>1. loc[t].i + 1 \in Buckets
      BY <1>0, <2>2 DEF LocType, Buckets
    <3> QED
      BY <1>0, <2>1, <2>2, <3>1 DEF NextBucket, Set, Moved, LocType
  <2>3. CASE ~(loc[t].i < PCF_FANOUT)
    BY <1>0, <2>1, <2>3 DEF NextBucket, Goto, Set, Moved, PCs, LocType
  <2> QED
    BY <2>2, <2>3
<1>15. CASE PcgsGet(t)
  BY <1>0, <1>15 DEF PcgsGet, Goto, Set, Fresh, Moved, PCs, LocType
<1>16. CASE PcgsUnblock(t)
  <2>1. NextBucket(t, "get")
    BY <1>16 DEF PcgsUnblock
  <2>2. CASE loc[t].i < PCF_FANOUT
    <3>1. loc[t].i + 1 \in Buckets
      BY <1>0, <2>2 DEF LocType, Buckets
    <3> QED
      BY <1>0, <2>1, <2>2, <3>1 DEF NextBucket, Set, Moved, LocType
  <2>3. CASE ~(loc[t].i < PCF_FANOUT)
    BY <1>0, <2>1, <2>3 DEF NextBucket, Goto, Set, Moved, PCs, LocType
  <2> QED
    BY <2>2, <2>3
<1>17. CASE HashIn(t)
  <2> DEFINE v == [loc[t] EXCEPT !.left = @ - 1]
  <2>1. v \in LocType
    BY <1>0, <1>17 DEF HashIn, LocType
  <2>2. UNCHANGED pc
    BY <1>17 DEF HashIn
  <2>3. \/ Set(t, [v EXCEPT !.npp = 0, !.found = @ + 1, !.plist = @ + 1])
        \/ Set(t, [v EXCEPT !.found = @ + 1, !.plist = @ + 1])
        \/ Set(t, [v EXCEPT !.plist = @ + 1])
    BY <1>17 DEF HashIn
  <2>4. /\ [v EXCEPT !.npp = 0, !.found = @ + 1, !.plist = @ + 1] \in LocType
        /\ [v EXCEPT !.found = @ + 1, !.plist = @ + 1] \in LocType
        /\ [v EXCEPT !.plist = @ + 1] \in LocType
    <3> HIDE DEF v
    <3>1. v.found + 1 \in Nat /\ v.plist + 1 \in Nat
      BY <2>1 DEF LocType
    <3>2. [v EXCEPT !.npp = 0, !.found = v.found + 1, !.plist = v.plist + 1] \in LocType
      BY <2>1, <3>1 DEF LocType
    <3>3. [v EXCEPT !.found = v.found + 1, !.plist = v.plist + 1] \in LocType
      BY <2>1, <3>1 DEF LocType
    <3>4. [v EXCEPT !.plist = v.plist + 1] \in LocType
      BY <2>1, <3>1 DEF LocType
    <3> QED
      BY <3>2, <3>3, <3>4
  <2> HIDE DEF v
  <2> QED
    BY <1>0, <2>2, <2>3, <2>4, SetMoves DEF Set
<1>18. CASE HashExists(t)
  BY <1>0, <1>18 DEF HashExists, Goto, Set, Fresh, Moved, PCs, LocType
<1>19. CASE Undo(t)
  BY <1>0, <1>19 DEF Undo, Goto, Set, Fresh, Moved, PCs, LocType
<1>20. CASE PutBackNpp(t)
  <2>1. CASE Goto(t, "over") /\ Set(t, [loc[t] EXCEPT !.npp = 0, !.plist = 0])
    BY <1>0, <2>1 DEF Goto, Set, Moved, PCs, LocType
  <2>2. CASE Return(t)
    BY <1>0, <2>2 DEF Return, Goto, Set, Fresh, Moved, PCs, LocType
  <2> QED
    BY <1>20, <2>1, <2>2 DEF PutBackNpp
<1>21. CASE GiveBack(t)
  BY <1>0, <1>21 DEF GiveBack, Goto, Set, Fresh, Moved, PCs, LocType, Return
<1>22. CASE PageFreeAccount(t)
  BY <1>0, <1>22 DEF PageFreeAccount, Goto, Set, Fresh, Moved, PCs, LocType
<1>23. CASE Reclaimed(t)
  BY <1>0, <1>23 DEF Reclaimed, Goto, Set, Fresh, Moved, PCs, LocType
<1>24. CASE ReclaimNomem(t)
  BY <1>0, <1>24 DEF ReclaimNomem, Goto, Set, Fresh, Moved, PCs, LocType, CvWait
<1>25. CASE DestroyDone(t)
  BY <1>0, <1>25 DEF DestroyDone, Goto, Set, Fresh, Moved, PCs, LocType
<1>26. CASE LargeGet(t)
  <2>1. CASE Return(t)
    BY <1>0, <2>1 DEF Return, Goto, Set, Fresh, Moved, PCs, LocType
  <2>2. CASE Goto(t, "putback") /\ UNCHANGED loc
    BY <1>0, <2>2 DEF Goto, Moved, PCs
  <2> QED
    BY <1>26, <2>1, <2>2 DEF LargeGet
<1>27. CASE PutbackLook(t)
  <2>1. pcf_block[loc[t].i] \in BOOLEAN
    BY <1>0 DEF TypeOK, LocType
  <2>2. [loc[t] EXCEPT !.which = pcf_block[loc[t].i]] \in LocType
    BY <1>0, <2>1 DEF LocType
  <2> QED
    BY <1>0, <2>2, <1>27, SetMoves DEF PutbackLook, Goto, Set, PCs
<1>28. CASE PutbackAdd(t)
  <2>1. CASE Return(t)
    BY <1>0, <2>1 DEF Return, Goto, Set, Fresh, Moved, PCs, LocType
  <2>2. CASE ~Return(t)
    <3> DEFINE k == IF Lump(loc[t].n) < loc[t].left THEN Lump(loc[t].n) ELSE loc[t].left
               r == [loc[t] EXCEPT !.left = loc[t].left - k, !.i = @ + 1, !.which = FALSE]
    <3>1. loc[t].left - k # 0 /\ Goto(t, "putback") /\ Set(t, r)
      BY <1>28, <2>2 DEF PutbackAdd
    <3>2. PutsBack(loc[t])
      BY <1>28 DEF Shape, PutbackAdd
    <3>3. loc[t].n \in Nat \ {0} /\ loc[t].left \in Nat
      BY <1>0, <3>2 DEF LocType, PutsBack
    <3>4. Lump(loc[t].n) \in Nat \ {0}
      BY <3>3, LumpCovers
    <3>5. k = Lump(loc[t].n) /\ loc[t].left > Lump(loc[t].n)
      BY <3>1, <3>3, <3>4
    <3>6. loc[t].i + 1 \in Buckets
      BY <1>0, <3>2, <3>5, PutbackEnds
    <3>7. loc[t].left - k \in Nat
      BY <3>3, <3>4, <3>5
    <3>8. r \in LocType
      <4> HIDE DEF k
      <4> QED
        BY <1>0, <3>6, <3>7 DEF LocType
    <3> HIDE DEF r
    <3> QED
      BY <1>0, <3>1, <3>8, SetMoves DEF Goto, Set, PCs
  <2> QED
    BY <2>1, <2>2
<1> QED
  BY <1>1, <1>2, <1>3, <1>4, <1>5, <1>6, <1>7, <1>8, <1>9, <1>10, <1>11, <1>12, <1>13, <1>14, <1>15, <1>16, <1>17, <1>18, <1>19, <1>20, <1>21, <1>22, <1>23, <1>24, <1>25, <1>26, <1>27, <1>28 DEF Call, Step

(* A claim is what the rest of the call works off. *)
LEMMA ClaimShape ==
  ASSUME pc \in [Threads -> PCs], loc \in [Threads -> LocType], NEW t \in Threads, Asked(loc[t]), NEW c, Claim(t, c)
  PROVE  Shape(t)'
<1>1. loc[t] \in LocType /\ loc[t].n \in Nat \ {0}
  BY DEF Asked, LocType
<1>2. Lump(loc[t].n) \in Nat
  BY <1>1, LumpCovers
<1>3. /\ pc'[t] \in {"get", "large"}
      /\ loc'[t].n = loc[t].n /\ loc'[t].left = loc[t].n /\ loc'[t].found = 0 /\ loc'[t].npp = 0
      /\ loc'[t].plist = 0 /\ loc'[t].i = 1
  BY <1>1 DEF Claim, Goto, Set, Asked, LocType
<1>4. (loc[t].n + (1 - 1) * Lump(loc[t].n)) = loc[t].n
  BY <1>1, <1>2
<1> QED
  BY <1>1, <1>3, <1>4 DEF Shape, Given, PutsBack

(* The locals of the thread that moves have the shape its new place asks   *)
(* for.                                                                    *)
LEMMA StepShape ==
  ASSUME TypeOK, NEW t \in Threads, Shape(t), Call(t) \/ Step(t)
  PROVE  Shape(t)'
<1>0. /\ pc \in [Threads -> PCs] /\ loc \in [Threads -> LocType]
      /\ loc[t].n \in Nat /\ loc[t].left \in Nat /\ loc[t].found \in Nat /\ loc[t].npp \in {0, 1}
      /\ loc[t].plist \in Nat /\ loc[t].i \in Nat
  <2>1. loc[t] \in LocType /\ Buckets \subseteq Nat
    BY Typing
  <2> QED
    BY <2>1, Typing DEF LocType
<1>1. ASSUME NEW n \in Requests, NEW wait \in BOOLEAN, NEW excl \in BOOLEAN, PageCreateVa(t, n, wait, excl)
      PROVE  Shape(t)'
  BY <1>0, <1>1, FreeMemAssumption DEF PageCreateVa, Goto, Set, Fresh, Shape, Empty, Asked, Given, PutsBack
<1>2. ASSUME NEW n \in LargePages, LargeCreate(t, n)
      PROVE  Shape(t)'
  BY <1>0, <1>2, FreeMemAssumption DEF LargeCreate, Goto, Set, Fresh, Shape, Empty, Asked, Given, PutsBack
<1>3. CASE PageFree(t)
  BY <1>0, <1>3 DEF PageFree, Goto, Set, Fresh, Shape, Empty, Asked, Given, PutsBack
<1>4. CASE PageReclaim(t)
  BY <1>0, <1>4 DEF PageReclaim, Goto, Set, Fresh, Shape, Empty, Asked, Given, PutsBack
<1>5. CASE PageDestroyFree(t)
  BY <1>0, <1>5 DEF PageDestroyFree, Goto, Set, Fresh, Shape, Empty, Asked, Given, PutsBack
<1>6. CASE Slept(t)
  BY <1>0, <1>6 DEF Slept, Goto, Set, Fresh, Shape, Empty, Asked, Given, PutsBack, After
<1>7. CASE ThrottleWaits(t)
  BY <1>0, <1>7 DEF ThrottleWaits, Goto, Set, Fresh, Shape, Empty, Asked, Given, PutsBack, CvWait
<1>8. CASE ThrottleFails(t)
  BY <1>0, <1>8 DEF ThrottleFails, Goto, Set, Fresh, Shape, Empty, Asked, Given, PutsBack, Return
<1>9. CASE ScanFinds(t)
  BY <1>0, <1>9, ClaimShape DEF ScanFinds, Shape
<1>10. CASE ScanMisses(t)
  BY <1>0, <1>10 DEF ScanMisses, Goto, Set, Fresh, Shape, Empty, Asked, Given, PutsBack
<1>11. CASE PageCreateWait(t)
  <2>1. CASE Claim(t, Coalesce(loc[t].n))
    BY <1>0, <1>11, <2>1, ClaimShape DEF PageCreateWait, Shape
  <2>2. CASE Return(t)
    BY <1>0, <2>2 DEF Return, Goto, Set, Fresh, Shape, Empty
  <2>3. CASE CvWait(t, "wait_slept") /\ UNCHANGED loc
    BY <1>0, <1>11, <2>3 DEF PageCreateWait, CvWait, Goto, Shape
  <2> QED
    BY <1>11, <2>1, <2>2, <2>3 DEF PageCreateWait
<1>12. CASE GetPage(t)
  <2>1. CASE Set(t, [loc[t] EXCEPT !.npp = 1]) /\ UNCHANGED pc
    <3>1. /\ pc'[t] = "get"
          /\ loc'[t].n = loc[t].n /\ loc'[t].left = loc[t].left /\ loc'[t].found = loc[t].found /\ loc'[t].i = loc[t].i
      BY <1>0, <1>12, <2>1 DEF GetPage, Set, LocType
    <3> QED
      BY <1>12, <3>1 DEF GetPage, Shape, Given
  <2>2. CASE Goto(t, "pcgs") /\ UNCHANGED loc
    BY <1>0, <1>12, <2>2 DEF GetPage, Goto, Shape
  <2> QED
    BY <1>12, <2>1, <2>2 DEF GetPage
<1>13. CASE PcgsLock(t)
  BY <1>0, <1>13 DEF PcgsLock, Goto, Set, Fresh, Shape, Empty, Asked, Given, PutsBack
<1>14. CASE PcgsBlock(t)
  <2>1. NextBucket(t, "blocked") /\ pc[t] = "block"
    BY <1>14 DEF PcgsBlock
  <2>2. /\ loc'[t].n = loc[t].n /\ loc'[t].left = loc[t].left /\ loc'[t].found = loc[t].found
        /\ loc'[t].npp = loc[t].npp
    BY <1>0, <2>1 DEF NextBucket, Set, LocType
  <2>3. pc'[t] = "block" \/ (pc'[t] = "blocked" /\ loc'[t].i = 1)
    BY <1>0, <2>1 DEF NextBucket, Set, Goto, LocType
  <2> QED
    BY <2>1, <2>2, <2>3 DEF Shape, Given
<1>15. CASE PcgsGet(t)
  BY <1>0, <1>15 DEF PcgsGet, Goto, Set, Fresh, Shape, Empty, Asked, Given, PutsBack
<1>16. CASE PcgsUnblock(t)
  <2>1. NextBucket(t, "get") /\ pc[t] = "unblock"
    BY <1>16 DEF PcgsUnblock
  <2>2. /\ loc'[t].n = loc[t].n /\ loc'[t].left = loc[t].left /\ loc'[t].found = loc[t].found
        /\ loc'[t].npp = loc[t].npp
    BY <1>0, <2>1 DEF NextBucket, Set, LocType
  <2>3. pc'[t] = "unblock" \/ (pc'[t] = "get" /\ loc'[t].i = 1)
    BY <1>0, <2>1 DEF NextBucket, Set, Goto, LocType
  <2> QED
    BY <2>1, <2>2, <2>3 DEF Shape, Given
<1>17. CASE HashIn(t)
  <2>1. /\ pc[t] = "get" /\ pc'[t] = "get" /\ loc[t].left > 0
        /\ loc'[t].n = loc[t].n /\ loc'[t].left = loc[t].left - 1 /\ loc'[t].i = loc[t].i
        /\ loc'[t].found = loc[t].found + 1 \/ loc'[t].found = loc[t].found
    <3> DEFINE v == [loc[t] EXCEPT !.left = @ - 1]
    <3>1. /\ v.n = loc[t].n /\ v.left = loc[t].left - 1 /\ v.i = loc[t].i /\ v.found = loc[t].found
          /\ v = [n |-> v.n, wait |-> v.wait, excl |-> v.excl, large |-> v.large, left |-> v.left, found |-> v.found,
                  npp |-> v.npp, plist |-> v.plist, i |-> v.i, which |-> v.which]
      BY <1>0 DEF LocType
    <3>2. pc[t] = "get" /\ pc'[t] = "get" /\ loc[t].left > 0
      BY <1>0, <1>17 DEF HashIn
    <3>3. \/ loc'[t] = [v EXCEPT !.npp = 0, !.found = @ + 1, !.plist = @ + 1]
          \/ loc'[t] = [v EXCEPT !.found = @ + 1, !.plist = @ + 1]
          \/ loc'[t] = [v EXCEPT !.plist = @ + 1]
      BY <1>0, <1>17 DEF HashIn, Set
    <3> HIDE DEF v
    <3>4. loc'[t].n = v.n /\ loc'[t].left = v.left /\ loc'[t].i = v.i /\ loc'[t].found \in {v.found, v.found + 1}
      BY <3>1, <3>3
    <3> QED
      BY <3>1, <3>2, <3>4
  <2> QED
    BY <1>0, <2>1 DEF Shape, Given
<1>18. CASE HashExists(t)
  BY <1>0, <1>18 DEF HashExists, Goto, Set, Fresh, Shape, Empty, Asked, Given, PutsBack
<1>19. CASE Undo(t)
  BY <1>0, <1>19 DEF Undo, Goto, Set, Fresh, Shape, Empty, Asked, Given, PutsBack
<1>20. CASE PutBackNpp(t)
  <2>0. pc[t] \in {"get", "undo"}
    BY <1>20 DEF PutBackNpp
  <2>1. CASE Goto(t, "over") /\ Set(t, [loc[t] EXCEPT !.npp = 0, !.plist = 0])
    <3>1. /\ pc'[t] = "over" /\ loc'[t].npp = 0 /\ loc'[t].plist = 0
          /\ loc'[t].n = loc[t].n /\ loc'[t].left = loc[t].left /\ loc'[t].found = loc[t].found
      BY <1>0, <2>1 DEF Goto, Set, LocType
    <3> QED
      BY <2>0, <3>1 DEF Shape, Given
  <2>2. CASE Return(t)
    BY <1>0, <2>2 DEF Return, Goto, Set, Fresh, Shape, Empty
  <2> QED
    BY <1>20, <2>1, <2>2 DEF PutBackNpp
<1>21. CASE GiveBack(t)
  BY <1>0, <1>21 DEF GiveBack, Goto, Set, Fresh, Shape, Empty, Asked, Given, PutsBack, Return
<1>22. CASE PageFreeAccount(t)
  BY <1>0, <1>22 DEF PageFreeAccount, Goto, Set, Fresh, Shape, Empty, Asked, Given, PutsBack
<1>23. CASE Reclaimed(t)
  BY <1>0, <1>23 DEF Reclaimed, Goto, Set, Fresh, Shape, Empty, Asked, Given, PutsBack
<1>24. CASE ReclaimNomem(t)
  BY <1>0, <1>24 DEF ReclaimNomem, Goto, Set, Fresh, Shape, Empty, Asked, Given, PutsBack, CvWait
<1>25. CASE DestroyDone(t)
  BY <1>0, <1>25 DEF DestroyDone, Goto, Set, Fresh, Shape, Empty, Asked, Given, PutsBack
<1>26. CASE LargeGet(t)
  BY <1>0, <1>26 DEF LargeGet, Goto, Set, Fresh, Shape, Empty, Asked, Given, PutsBack, Return
<1>27. CASE PutbackLook(t)
  BY <1>0, <1>27 DEF PutbackLook, Goto, Set, Fresh, Shape, Empty, Asked, Given, PutsBack
<1>28. CASE PutbackAdd(t)
  <2>1. CASE Return(t)
    BY <1>0, <2>1 DEF Return, Goto, Set, Fresh, Shape, Empty
  <2>2. CASE ~Return(t)
    <3> DEFINE k == IF Lump(loc[t].n) < loc[t].left THEN Lump(loc[t].n) ELSE loc[t].left
               r == [loc[t] EXCEPT !.left = loc[t].left - k, !.i = @ + 1, !.which = FALSE]
    <3>1. loc[t].left - k # 0 /\ Goto(t, "putback") /\ Set(t, r)
      BY <1>28, <2>2 DEF PutbackAdd
    <3>2. PutsBack(loc[t])
      BY <1>28 DEF Shape, PutbackAdd
    <3>3. loc[t].n \in Nat \ {0} /\ loc[t].left \in Nat
      BY <1>0, <3>2 DEF PutsBack
    <3>4. Lump(loc[t].n) \in Nat \ {0}
      BY <3>3, LumpCovers
    <3>5. k = Lump(loc[t].n) /\ loc[t].left > Lump(loc[t].n)
      BY <3>1, <3>3, <3>4
    <3>6. loc[t].left - Lump(loc[t].n) + (loc[t].i + 1 - 1) * Lump(loc[t].n) = loc[t].n
      BY <1>0, <3>2, <3>5, PutbackEnds
    <3>7. /\ pc'[t] = "putback"
          /\ loc'[t].n = loc[t].n /\ loc'[t].found = loc[t].found /\ loc'[t].npp = loc[t].npp
          /\ loc'[t].plist = loc[t].plist /\ loc'[t].i = loc[t].i + 1 /\ loc'[t].left = loc[t].left - k
      <4> HIDE DEF k
      <4> QED
        BY <1>0, <3>1 DEF Goto, Set, LocType
    <3> HIDE DEF k, r
    <3>8. loc'[t].left > 0
      BY <3>3, <3>4, <3>5, <3>7
    <3>9. PutsBack(loc'[t])
      <4>1. loc'[t].left + (loc'[t].i - 1) * Lump(loc'[t].n) = loc'[t].n
        BY <1>0, <3>3, <3>4, <3>5, <3>6, <3>7
      <4> QED
        BY <3>2, <3>7, <3>8, <4>1 DEF PutsBack
    <3> QED
      BY <3>7, <3>9 DEF Shape
  <2> QED
    BY <2>1, <2>2
<1> QED
  BY <1>1, <1>2, <1>3, <1>4, <1>5, <1>6, <1>7, <1>8, <1>9, <1>10, <1>11, <1>12, <1>13, <1>14, <1>15, <1>16, <1>17, <1>18, <1>19, <1>20, <1>21, <1>22, <1>23, <1>24, <1>25, <1>26, <1>27, <1>28 DEF Call, Step

-----------------------------------------------------------------------
(* What a step of one thread does to the sums over all threads. *)

(* Two sets of threads that differ in t at most. *)
LEMMA CardStep ==
  ASSUME NEW A \in SUBSET Threads, NEW B \in SUBSET Threads, NEW t \in Threads, A \ {t} = B \ {t}
  PROVE  /\ IsFiniteSet(A) /\ Cardinality(A) \in Nat /\ Cardinality(B) \in Nat
         /\ Cardinality(B) = Cardinality(A) - (IF t \in A THEN 1 ELSE 0) + (IF t \in B THEN 1 ELSE 0)
<1>1. IsFiniteSet(A) /\ IsFiniteSet(B)
  BY FreeMemAssumption, FS_Subset
<1>2. Cardinality(A) \in Nat /\ Cardinality(B) \in Nat
  BY <1>1, FS_CardinalityType
<1>3. Cardinality(A \ {t}) = IF t \in A THEN Cardinality(A) - 1 ELSE Cardinality(A)
  BY <1>1, FS_RemoveElement
<1>4. Cardinality(B \ {t}) = IF t \in B THEN Cardinality(B) - 1 ELSE Cardinality(B)
  BY <1>1, FS_RemoveElement
<1> QED
  BY <1>1, <1>2, <1>3, <1>4

(* Each sum changes by what the thread's own part changes. *)
LEMMA ThreadSums ==
  ASSUME NEW f \in [Threads -> Int], NEW g \in [Threads -> Int], NEW t \in Threads,
         \A u \in Threads \ {t} : g[u] = f[u]
  PROVE  Sum(f, Threads) \in Int /\ Sum(g, Threads) = Sum(f, Threads) - f[t] + g[t]
<1>1. IsFiniteSet(Threads) /\ g[t] \in Int /\ \A x \in Threads : f[x] \in Int
  BY FreeMemAssumption
<1> QED
  BY <1>1, SumChange

(* The same for the sums that the promise is made of. *)
LEMMA ThreadDeltas ==
  ASSUME TypeOK, NEW t \in Threads, Moved(t)
  PROVE  /\ NppSum \in Int /\ NppSum' = NppSum - loc[t].npp + loc'[t].npp
         /\ PlistSum \in Int /\ PlistSum' = PlistSum - loc[t].plist + loc'[t].plist
         /\ ClaimedSum \in Int /\ ClaimedSum' = ClaimedSum - Claimed(t) + Claimed(t)'
         /\ UncountedSum \in Int /\ UncountedSum' = UncountedSum - Uncounted(t) + Uncounted(t)'
<1>0. /\ pc \in [Threads -> PCs] /\ loc \in [Threads -> LocType] /\ pc' \in [Threads -> PCs] /\ loc' \in [Threads -> LocType]
      /\ \A u \in Threads \ {t} : pc'[u] = pc[u] /\ loc'[u] = loc[u]
  BY Typing DEF Moved
<1>1. /\ \A u \in Threads : loc[u].n \in Int /\ loc[u].left \in Int /\ loc[u].found \in Int /\ loc[u].npp \in Int /\ loc[u].plist \in Int
      /\ \A u \in Threads : loc'[u].n \in Int /\ loc'[u].left \in Int /\ loc'[u].found \in Int /\ loc'[u].npp \in Int /\ loc'[u].plist \in Int
  BY <1>0 DEF LocType
<1>2. NppSum \in Int /\ NppSum' = NppSum - loc[t].npp + loc'[t].npp
  <2> DEFINE f == [u \in Threads |-> loc[u].npp]
             g == [u \in Threads |-> loc'[u].npp]
  <2>1. f \in [Threads -> Int] /\ g \in [Threads -> Int] /\ f[t] = loc[t].npp /\ g[t] = loc'[t].npp
    BY <1>1
  <2>2. \A u \in Threads \ {t} : g[u] = f[u]
    BY <1>0
  <2>3. NppSum = Sum(f, Threads) /\ NppSum' = Sum(g, Threads)
    BY DEF NppSum, SumLoc, Npp
  <2> HIDE DEF f, g
  <2> QED
    BY <2>1, <2>2, <2>3, ThreadSums
<1>3. PlistSum \in Int /\ PlistSum' = PlistSum - loc[t].plist + loc'[t].plist
  <2> DEFINE f == [u \in Threads |-> loc[u].plist]
             g == [u \in Threads |-> loc'[u].plist]
  <2>1. f \in [Threads -> Int] /\ g \in [Threads -> Int] /\ f[t] = loc[t].plist /\ g[t] = loc'[t].plist
    BY <1>1
  <2>2. \A u \in Threads \ {t} : g[u] = f[u]
    BY <1>0
  <2>3. PlistSum = Sum(f, Threads) /\ PlistSum' = Sum(g, Threads)
    BY DEF PlistSum, SumLoc, Plist
  <2> HIDE DEF f, g
  <2> QED
    BY <2>1, <2>2, <2>3, ThreadSums
<1>4. ClaimedSum \in Int /\ ClaimedSum' = ClaimedSum - Claimed(t) + Claimed(t)'
  <2> DEFINE f == [u \in Threads |-> Claimed(u)]
             g == [u \in Threads |-> Claimed(u)']
  <2>1. f \in [Threads -> Int] /\ g \in [Threads -> Int] /\ f[t] = Claimed(t) /\ g[t] = Claimed(t)'
    BY <1>1 DEF Claimed
  <2>2. \A u \in Threads \ {t} : g[u] = f[u]
    BY <1>0 DEF Claimed
  <2>3. ClaimedSum = Sum(f, Threads) /\ ClaimedSum' = Sum(g, Threads)
    BY DEF ClaimedSum, SumLoc
  <2> HIDE DEF f, g
  <2> QED
    BY <2>1, <2>2, <2>3, ThreadSums
<1>5. UncountedSum \in Int /\ UncountedSum' = UncountedSum - Uncounted(t) + Uncounted(t)'
  <2> DEFINE f == [u \in Threads |-> Uncounted(u)]
             g == [u \in Threads |-> Uncounted(u)']
  <2>1. f \in [Threads -> Int] /\ g \in [Threads -> Int] /\ f[t] = Uncounted(t) /\ g[t] = Uncounted(t)'
    BY DEF Uncounted
  <2>2. \A u \in Threads \ {t} : g[u] = f[u]
    BY <1>0 DEF Uncounted
  <2>3. UncountedSum = Sum(f, Threads) /\ UncountedSum' = Sum(g, Threads)
    BY DEF UncountedSum, SumLoc
  <2> HIDE DEF f, g
  <2> QED
    BY <2>1, <2>2, <2>3, ThreadSums
<1> QED
  BY <1>2, <1>3, <1>4, <1>5

(* And what it does to the numbers of threads at a place. *)
LEMMA PlaceDeltas ==
  ASSUME TypeOK, NEW t \in Threads, Moved(t)
  PROVE  /\ Destroyed \in Nat /\ Busy \in Nat /\ Busy' \in Nat /\ Destroyed' \in Nat
         /\ Destroyed' = Destroyed - (IF pc[t] = "destroy" THEN 1 ELSE 0) + (IF pc'[t] = "destroy" THEN 1 ELSE 0)
         /\ Busy' = Busy - (IF pc[t] = "reclaim" THEN 1 ELSE 0) + (IF pc'[t] = "reclaim" THEN 1 ELSE 0)
         /\ Cardinality(Sleeping) \in Nat /\ Cardinality(Sleeping)' \in Nat
         /\ Cardinality(Sleeping)' = Cardinality(Sleeping) - (IF pc[t] \in DOMAIN After THEN 1 ELSE 0)
                                                           + (IF pc'[t] \in DOMAIN After THEN 1 ELSE 0)
<1>0. \A u \in Threads \ {t} : pc'[u] = pc[u]
  BY DEF Moved
<1>1. ASSUME NEW l PROVE At(l) \in SUBSET Threads /\ At(l)' \in SUBSET Threads /\ At(l) \ {t} = At(l)' \ {t}
  BY <1>0 DEF At
<1>2. ASSUME NEW l PROVE t \in At(l) <=> pc[t] = l
  BY DEF At
<1>3. ASSUME NEW l PROVE t \in At(l)' <=> pc'[t] = l
  BY DEF At
<1>4. Sleeping \in SUBSET Threads /\ Sleeping' \in SUBSET Threads /\ Sleeping \ {t} = Sleeping' \ {t}
  BY <1>0 DEF Sleeping
<1>5. (t \in Sleeping <=> pc[t] \in DOMAIN After) /\ (t \in Sleeping' <=> pc'[t] \in DOMAIN After)
  BY DEF Sleeping
<1>6. /\ Destroyed \in Nat /\ Destroyed' \in Nat
      /\ Destroyed' = Destroyed - (IF pc[t] = "destroy" THEN 1 ELSE 0) + (IF pc'[t] = "destroy" THEN 1 ELSE 0)
  BY <1>1, <1>2, <1>3, CardStep DEF Destroyed
<1>7. /\ Busy \in Nat /\ Busy' \in Nat
      /\ Busy' = Busy - (IF pc[t] = "reclaim" THEN 1 ELSE 0) + (IF pc'[t] = "reclaim" THEN 1 ELSE 0)
  BY <1>1, <1>2, <1>3, CardStep DEF Busy
<1>8. /\ Cardinality(Sleeping) \in Nat /\ Cardinality(Sleeping)' \in Nat
      /\ Cardinality(Sleeping)' = Cardinality(Sleeping) - (IF pc[t] \in DOMAIN After THEN 1 ELSE 0)
                                                        + (IF pc'[t] \in DOMAIN After THEN 1 ELSE 0)
  BY <1>4, <1>5, CardStep
<1> QED
  BY <1>6, <1>7, <1>8

-----------------------------------------------------------------------
(* What a step does to the sums over the buckets. *)

(* A change of one bucket changes the sum over all by as much. *)
LEMMA BucketChange ==
  ASSUME NEW f \in [Buckets -> Nat], NEW g \in [Buckets -> Nat], NEW b \in Buckets,
         \A x \in Buckets \ {b} : g[x] = f[x]
  PROVE  Sum(f, Buckets) \in Nat /\ Sum(g, Buckets) = Sum(f, Buckets) - f[b] + g[b]
<1>1. IsFiniteSet(Buckets)
  BY FreeMemAssumption, FS_Interval DEF Buckets
<1>2. g[b] \in Int /\ \A x \in Buckets : f[x] \in Int /\ f[x] \in Nat
  OBVIOUS
<1>3. Sum(g, Buckets) = Sum(f, Buckets) - f[b] + g[b]
  BY <1>1, <1>2, SumChange
<1>4. Sum(f, Buckets) \in Nat
  BY <1>1, <1>2, SumNat
<1> QED
  BY <1>3, <1>4

(* The sum over an interval, from either end. *)
LEMMA IntervalSums ==
  ASSUME NEW f \in [Buckets -> Nat], NEW a \in Nat, NEW k \in Nat, a >= 1, a <= k, k <= PCF_FANOUT
  PROVE  /\ Sum(f, a..k) \in Nat /\ Sum(f, (a+1)..k) \in Nat /\ Sum(f, a..(k-1)) \in Nat
         /\ Sum(f, a..k) = Sum(f, (a+1)..k) + f[a]
         /\ Sum(f, a..k) = Sum(f, a..(k-1)) + f[k]
<1>1. IsFiniteSet(a..k) /\ IsFiniteSet((a+1)..k) /\ IsFiniteSet(a..(k-1))
  BY FS_Interval
<1>2. /\ \A x \in a..k : f[x] \in Nat /\ f[x] \in Int
      /\ \A x \in (a+1)..k : f[x] \in Nat
      /\ \A x \in a..(k-1) : f[x] \in Nat
  BY FreeMemAssumption DEF Buckets
<1>3. (a..k) \ {a} = (a+1)..k /\ (a..k) \ {k} = a..(k-1) /\ a \in a..k /\ k \in a..k
  OBVIOUS
<1>4. Sum(f, a..k) \in Nat /\ Sum(f, (a+1)..k) \in Nat /\ Sum(f, a..(k-1)) \in Nat
  BY <1>1, <1>2, SumNat
<1>5. Sum(f, a..k) = Sum(f, (a..k) \ {a}) + f[a] /\ Sum(f, a..k) = Sum(f, (a..k) \ {k}) + f[k]
  BY <1>1, <1>2, <1>3, SumAdd
<1> QED
  BY <1>3, <1>4, <1>5

(* page_create_wait() finds the buckets that hold the request between them.*)
LEMMA EnoughStops ==
  ASSUME TypeOK, NEW n \in Nat \ {0}, Enough(n)
  PROVE  \E k \in Buckets : CountIn(1..k) >= n /\ CountIn(1..(k-1)) < n
<1> DEFINE C(j) == Sum(pcf_count, 1..j)
           K == {j \in Nat : j <= PCF_FANOUT /\ C(j) >= n}
<1>0. pcf_count \in [Buckets -> Nat] /\ PCF_FANOUT \in Nat \ {0}
  BY Typing, FreeMemAssumption
<1>1. PCF_FANOUT \in K
  BY <1>0 DEF Enough, CountIn, Buckets
<1>2. PICK k \in K : \A j \in K : k <= j
  <2>1. K \in SUBSET Nat /\ K # {}
    BY <1>1
  <2> HIDE DEF K
  <2> QED
    BY <2>1, LeastNatural
<1>3. k \in Nat /\ k <= PCF_FANOUT /\ C(k) >= n
  BY <1>2
<1>4. k # 0
  <2>1. 1..0 = {}
    OBVIOUS
  <2>2. \A x \in {} : pcf_count[x] \in Int
    OBVIOUS
  <2>3. Sum(pcf_count, {}) = 0
    BY <2>2, SumAdd, FS_EmptySet
  <2> QED
    BY <1>3, <2>1, <2>3
<1>5. k - 1 \in Nat /\ k - 1 \notin K
  BY <1>2, <1>3, <1>4
<1>6. C(k-1) \in Nat
  BY <1>0, <1>3, <1>4, IntervalSums
<1>7. C(k-1) < n
  BY <1>0, <1>3, <1>5, <1>6
<1> QED
  BY <1>0, <1>3, <1>4, <1>7 DEF CountIn, Buckets

(* The buckets give the request between them, no more and no less. *)
LEMMA CoalesceTakes ==
  ASSUME TypeOK, NEW n \in Nat \ {0}, Enough(n)
  PROVE  Coalesce(n) \in [Buckets -> Nat] /\ Sum(Coalesce(n), Buckets) = CountIn(Buckets) - n
<1> DEFINE k == CHOOSE j \in Buckets : CountIn(1..j) >= n /\ CountIn(1..(j-1)) < n
           T(b) == Sum(pcf_count, (b+1)..k)
           c == pcf_count
           g == Coalesce(n)
<1>0. c \in [Buckets -> Nat] /\ PCF_FANOUT \in Nat \ {0}
  BY Typing, FreeMemAssumption
<1>1. k \in Buckets /\ CountIn(1..k) >= n
  BY EnoughStops
<1>2. g = [b \in Buckets |-> IF b > k \/ n - T(b) <= 0 THEN c[b]
                             ELSE IF c[b] <= n - T(b) THEN 0 ELSE c[b] - (n - T(b))]
  BY DEF Coalesce, CountIn
<1> HIDE DEF k, g
<1>3. k \in Nat /\ k >= 1 /\ k <= PCF_FANOUT
  BY <1>0, <1>1 DEF Buckets
<1>4. ASSUME NEW b \in Nat, b >= 1, b <= k
      PROVE  /\ T(b) \in Nat /\ T(b-1) \in Nat /\ T(b-1) = T(b) + c[b] /\ b \in Buckets /\ c[b] \in Nat
             /\ b - 1 + 1 = b
  <2>1. Sum(c, b..k) \in Nat /\ Sum(c, (b+1)..k) \in Nat /\ Sum(c, b..k) = Sum(c, (b+1)..k) + c[b]
    BY <1>0, <1>3, <1>4, IntervalSums
  <2>2. b - 1 + 1 = b /\ b \in Buckets
    BY <1>0, <1>3, <1>4 DEF Buckets
  <2> QED
    BY <1>0, <2>1, <2>2
<1>5. g \in [Buckets -> Nat]
  <2>1. ASSUME NEW b \in Buckets PROVE g[b] \in Nat
    <3>1. c[b] \in Nat /\ b \in Nat /\ b >= 1
      BY <1>0 DEF Buckets
    <3>2. CASE b > k
      BY <1>2, <3>1, <3>2
    <3>3. CASE ~(b > k)
      <4>1. T(b) \in Nat
        BY <1>3, <1>4, <3>1, <3>3
      <4>2. g[b] = IF b > k \/ n - T(b) <= 0 THEN c[b]
                   ELSE IF c[b] <= n - T(b) THEN 0 ELSE c[b] - (n - T(b))
        BY <1>2
      <4> QED
        BY <3>1, <4>1, <4>2
    <3> QED
      BY <3>2, <3>3
  <2> QED
    BY <1>2, <2>1
<1> DEFINE U(b) == Sum(g, (b+1)..k)
           Bad == {m \in Nat : m <= k /\ U(k-m) # IF T(k-m) <= n THEN 0 ELSE T(k-m) - n}
<1>6. Bad = {}
  <2> SUFFICES ASSUME Bad # {} PROVE FALSE
    OBVIOUS
  <2>1. PICK m \in Bad : \A j \in Bad : m <= j
    <3>1. Bad \in SUBSET Nat
      OBVIOUS
    <3> HIDE DEF Bad
    <3> QED
      BY <3>1, LeastNatural
  <2>2. m \in Nat /\ m <= k /\ U(k-m) # IF T(k-m) <= n THEN 0 ELSE T(k-m) - n
    BY <2>1
  <2>3. m # 0
    <3>1. (k-0+1)..k = {}
      BY <1>3
    <3>2. \A x \in {} : c[x] \in Int /\ g[x] \in Int
      OBVIOUS
    <3>3. Sum(c, {}) = 0 /\ Sum(g, {}) = 0
      BY <3>2, SumAdd, FS_EmptySet
    <3>4. T(k-0) = 0 /\ U(k-0) = 0
      BY <3>1, <3>3
    <3> QED
      BY <2>2, <3>4
  <2>4. m - 1 \in Nat /\ m - 1 \notin Bad
    BY <2>1, <2>2, <2>3
  <2> DEFINE b == k - m + 1
  <2>5. b \in Nat /\ b >= 1 /\ b <= k /\ k - (m - 1) = b /\ k - m = b - 1
    BY <1>3, <2>2, <2>3
  <2>6. U(b) = IF T(b) <= n THEN 0 ELSE T(b) - n
    BY <2>2, <2>4, <2>5, <1>3
  <2>7. T(b) \in Nat /\ T(b-1) \in Nat /\ T(b-1) = T(b) + c[b] /\ b \in Buckets /\ c[b] \in Nat /\ b - 1 + 1 = b
    BY <1>4, <2>5
  <2>8. U(b-1) = U(b) + g[b]
    <3>1. Sum(g, b..k) = Sum(g, (b+1)..k) + g[b]
      BY <1>3, <1>5, <2>5, IntervalSums
    <3> QED
      BY <2>7, <3>1
  <2>9. g[b] = IF n - T(b) <= 0 THEN c[b]
               ELSE IF c[b] <= n - T(b) THEN 0 ELSE c[b] - (n - T(b))
    <3>1. ~(b > k)
      BY <1>3, <2>5
    <3> QED
      BY <1>2, <2>7, <3>1
  <2>10. U(b-1) # IF T(b-1) <= n THEN 0 ELSE T(b-1) - n
    BY <2>2, <2>5
  <2> HIDE DEF b, T, U
  <2> QED
    BY <2>6, <2>7, <2>8, <2>9, <2>10
<1>7. Sum(g, 1..k) = Sum(c, 1..k) - n
  <2>0. k \notin Bad
    <3> HIDE DEF Bad
    <3> QED
      BY <1>6
  <2>1. k \notin Bad /\ k \in Nat /\ k <= k /\ k - k = 0 /\ 0 + 1 = 1
    <3> HIDE DEF Bad
    <3> QED
      BY <1>3, <2>0
  <2>2. U(0) = IF T(0) <= n THEN 0 ELSE T(0) - n
    BY <2>1
  <2>3. Sum(c, 1..k) \in Nat
    BY <1>0, <1>3, IntervalSums
  <2> QED
    BY <1>1, <2>1, <2>2, <2>3 DEF CountIn
<1> DEFINE Worse == {j \in Nat : j >= k /\ j <= PCF_FANOUT /\ Sum(g, 1..j) # Sum(c, 1..j) - n}
<1>8. Worse = {}
  <2> SUFFICES ASSUME Worse # {} PROVE FALSE
    OBVIOUS
  <2>1. PICK j \in Worse : \A i \in Worse : j <= i
    <3>1. Worse \in SUBSET Nat
      OBVIOUS
    <3> HIDE DEF Worse
    <3> QED
      BY <3>1, LeastNatural
  <2>2. j \in Nat /\ j >= k /\ j <= PCF_FANOUT /\ Sum(g, 1..j) # Sum(c, 1..j) - n
    BY <2>1
  <2>3. j > k
    BY <1>3, <1>7, <2>2
  <2>4. j - 1 \in Nat /\ j - 1 \notin Worse
    BY <1>3, <2>1, <2>2, <2>3
  <2>5. Sum(g, 1..(j-1)) = Sum(c, 1..(j-1)) - n
    BY <1>0, <1>3, <2>2, <2>3, <2>4
  <2>6. /\ Sum(g, 1..j) = Sum(g, 1..(j-1)) + g[j] /\ Sum(c, 1..j) = Sum(c, 1..(j-1)) + c[j]
        /\ Sum(c, 1..(j-1)) \in Nat
    <3>1. 1 \in Nat /\ 1 >= 1 /\ 1 <= j /\ j \in Nat
      BY <1>3, <2>2, <2>3
    <3>2. Sum(g, 1..j) = Sum(g, 1..(j-1)) + g[j]
      BY <1>5, <2>2, <3>1, IntervalSums
    <3>3. Sum(c, 1..j) = Sum(c, 1..(j-1)) + c[j] /\ Sum(c, 1..(j-1)) \in Nat
      BY <1>0, <2>2, <3>1, IntervalSums
    <3> QED
      BY <3>2, <3>3
  <2>7. j \in Buckets /\ g[j] = c[j] /\ c[j] \in Nat
    BY <1>0, <1>2, <1>3, <2>2, <2>3 DEF Buckets
  <2> QED
    BY <2>2, <2>5, <2>6, <2>7
<1>9. Sum(g, 1..PCF_FANOUT) = Sum(c, 1..PCF_FANOUT) - n
  BY <1>0, <1>3, <1>8
<1> QED
  BY <1>5, <1>9 DEF g, CountIn, Buckets

(* A bucket's count and reserve change. *)
PcfTypes == pcf_count \in [Buckets -> Nat] /\ pcf_reserve \in [Buckets -> Nat]

(* Assignments to the count and the reserve of one bucket, and the sum of  *)
(* all counts and reserves.                                                *)
LEMMA PcfChange ==
  ASSUME TypeOK, NEW b \in Buckets, NEW v \in Nat, NEW w \in Nat,
         pcf_count' = [pcf_count EXCEPT ![b] = v], pcf_reserve' = [pcf_reserve EXCEPT ![b] = w]
  PROVE  PcfTypes' /\ PcfSum \in Nat /\ PcfSum' = PcfSum - pcf_count[b] - pcf_reserve[b] + v + w
<1>1. PcfTypes /\ PcfTypes'
  BY Typing DEF PcfTypes
<1>2. /\ Sum(pcf_count, Buckets) \in Nat
      /\ Sum(pcf_count', Buckets) = Sum(pcf_count, Buckets) - pcf_count[b] + v
  <2>1. pcf_count' \in [Buckets -> Nat] /\ pcf_count'[b] = v /\ \A x \in Buckets \ {b} : pcf_count'[x] = pcf_count[x]
    BY <1>1 DEF PcfTypes
  <2>2. pcf_count \in [Buckets -> Nat]
    BY <1>1 DEF PcfTypes
  <2> QED
    BY <2>1, <2>2, BucketChange
<1>3. /\ Sum(pcf_reserve, Buckets) \in Nat
      /\ Sum(pcf_reserve', Buckets) = Sum(pcf_reserve, Buckets) - pcf_reserve[b] + w
  <2>1. pcf_reserve' \in [Buckets -> Nat] /\ pcf_reserve'[b] = w /\ \A x \in Buckets \ {b} : pcf_reserve'[x] = pcf_reserve[x]
    BY <1>1 DEF PcfTypes
  <2>2. pcf_reserve \in [Buckets -> Nat]
    BY <1>1 DEF PcfTypes
  <2> QED
    BY <2>1, <2>2, BucketChange
<1>4. /\ PcfSum = Sum(pcf_count, Buckets) + Sum(pcf_reserve, Buckets)
      /\ PcfSum' = Sum(pcf_count', Buckets) + Sum(pcf_reserve', Buckets)
  BY DEF PcfSum, CountIn, Reserved
<1>5. pcf_count[b] \in Nat /\ pcf_reserve[b] \in Nat
  BY <1>1 DEF PcfTypes
<1> QED
  BY <1>1, <1>2, <1>3, <1>4, <1>5

(* That sum where counts and reserves stay as they are. *)
LEMMA PcfKept ==
  ASSUME TypeOK, UNCHANGED <<pcf_count, pcf_reserve>>
  PROVE  PcfTypes' /\ PcfSum \in Nat /\ PcfSum' = PcfSum
<1>1. pcf_count' = [pcf_count EXCEPT ![1] = pcf_count[1]] /\ pcf_reserve' = [pcf_reserve EXCEPT ![1] = pcf_reserve[1]]
      /\ 1 \in Buckets /\ pcf_count[1] \in Nat /\ pcf_reserve[1] \in Nat
  BY Typing
<1>2. PcfTypes' /\ PcfSum \in Nat /\ PcfSum' = PcfSum - pcf_count[1] - pcf_reserve[1] + pcf_count[1] + pcf_reserve[1]
  BY <1>1, PcfChange
<1> QED
  BY <1>1, <1>2

(* Pages are added to the count or to the reserve. *)
LEMMA AddToSum ==
  ASSUME TypeOK, NEW b \in Buckets, NEW k \in Nat, AddTo(b, k)
  PROVE  PcfTypes' /\ PcfSum \in Nat /\ PcfSum' = PcfSum + k
<1>0. pcf_count[b] \in Nat /\ pcf_reserve[b] \in Nat
  BY Typing
<1>1. CASE pcf_block[b]
  <2>1. pcf_count' = [pcf_count EXCEPT ![b] = pcf_count[b]] /\ pcf_reserve' = [pcf_reserve EXCEPT ![b] = pcf_reserve[b] + k]
    BY <1>1, Typing DEF AddTo
  <2>2. pcf_reserve[b] + k \in Nat
    BY <1>0
  <2>3. PcfTypes' /\ PcfSum \in Nat /\ PcfSum' = PcfSum - pcf_count[b] - pcf_reserve[b] + pcf_count[b] + (pcf_reserve[b] + k)
    BY <1>0, <2>1, <2>2, PcfChange
  <2> QED
    BY <1>0, <2>3
<1>2. CASE ~pcf_block[b]
  <2>1. pcf_count' = [pcf_count EXCEPT ![b] = pcf_count[b] + k] /\ pcf_reserve' = [pcf_reserve EXCEPT ![b] = pcf_reserve[b]]
    BY <1>2, Typing DEF AddTo
  <2>2. pcf_count[b] + k \in Nat
    BY <1>0
  <2>3. PcfTypes' /\ PcfSum \in Nat /\ PcfSum' = PcfSum - pcf_count[b] - pcf_reserve[b] + (pcf_count[b] + k) + pcf_reserve[b]
    BY <1>0, <2>1, <2>2, PcfChange
  <2> QED
    BY <1>0, <2>3
<1> QED
  BY <1>1, <1>2

(* No step promises more than it provides, or takes a page that is locked. *)
LEMMA PagesNext ==
  ASSUME TypeOK, NEW t \in Threads, Shape(t), PagesOK, Call(t) \/ Step(t)
  PROVE  PagesOK' /\ PcfTypes' /\ lists' \in Int
<1>0. /\ pc \in [Threads -> PCs] /\ loc \in [Threads -> LocType] /\ loc[t] \in LocType /\ lists \in Int /\ NPages \in Int
      /\ loc[t].n \in Nat /\ loc[t].left \in Nat /\ loc[t].found \in Nat /\ loc[t].npp \in {0, 1}
      /\ loc[t].plist \in Nat /\ loc[t].i \in Nat /\ loc[t].i \in Buckets
      /\ DOMAIN After = {"va_slept", "wait_slept", "reclaim_slept"}
  <2>1. loc[t] \in LocType /\ Buckets \subseteq Nat
    BY Typing
  <2>2. /\ loc[t].n \in Nat /\ loc[t].left \in Nat /\ loc[t].found \in Nat /\ loc[t].npp \in {0, 1}
        /\ loc[t].plist \in Nat /\ loc[t].i \in Nat /\ loc[t].i \in Buckets
    BY <2>1 DEF LocType
  <2>3. lists \in Int /\ NPages \in Int
    BY FreeMemAssumption DEF TypeOK
  <2>4. DOMAIN After = {"va_slept", "wait_slept", "reclaim_slept"}
    BY DEF After
  <2> QED
    BY <2>1, <2>2, <2>3, <2>4, Typing
<1>m. Moved(t)
  BY StepMoves
<1>d. /\ NppSum \in Int /\ NppSum' = NppSum - loc[t].npp + loc'[t].npp
      /\ PlistSum \in Int /\ PlistSum' = PlistSum - loc[t].plist + loc'[t].plist
      /\ ClaimedSum \in Int /\ ClaimedSum' = ClaimedSum - Claimed(t) + Claimed(t)'
      /\ UncountedSum \in Int /\ UncountedSum' = UncountedSum - Uncounted(t) + Uncounted(t)'
  BY <1>m, ThreadDeltas
<1>p. /\ Destroyed \in Nat /\ Busy \in Nat
      /\ Destroyed' = Destroyed - (IF pc[t] = "destroy" THEN 1 ELSE 0) + (IF pc'[t] = "destroy" THEN 1 ELSE 0)
      /\ Busy' = Busy - (IF pc[t] = "reclaim" THEN 1 ELSE 0) + (IF pc'[t] = "reclaim" THEN 1 ELSE 0)
  BY <1>m, PlaceDeltas
<1>i. /\ lists + Destroyed + NppSum >= PcfSum + ClaimedSum + UncountedSum
      /\ lists + NppSum + Destroyed + PlistSum <= NPages
      /\ Busy <= lists
  BY DEF PagesOK, Present, Promised, PcfSum, NppSum, ClaimedSum, UncountedSum, Destroyed
<1> SUFFICES /\ PcfTypes' /\ lists' \in Int
             /\ lists' + Destroyed' + NppSum' >= PcfSum' + ClaimedSum' + UncountedSum'
             /\ lists' + NppSum' + Destroyed' + PlistSum' <= NPages
             /\ Busy' <= lists'
  BY DEF PagesOK, Present, Promised, PcfSum, NppSum, ClaimedSum, UncountedSum, Destroyed
<1>u. InUse = NPages - lists - NppSum - Destroyed /\ SumLoc(Plist) = PlistSum
  BY DEF InUse, NppSum, Destroyed, PlistSum
<1>1. ASSUME NEW n \in Requests, NEW wait \in BOOLEAN, NEW excl \in BOOLEAN, PageCreateVa(t, n, wait, excl)
      PROVE  /\ PcfTypes' /\ lists' \in Int
             /\ lists' + Destroyed' + NppSum' >= PcfSum' + ClaimedSum' + UncountedSum'
             /\ lists' + NppSum' + Destroyed' + PlistSum' <= NPages
             /\ Busy' <= lists'
  <2>1. PcfTypes' /\ PcfSum \in Nat /\ PcfSum' = PcfSum
    BY <1>1, PcfKept DEF PageCreateVa, pcf
  <2> QED
    BY <1>0, <1>d, <1>p, <1>i, <1>u, <1>1, <2>1 DEF PageCreateVa, Goto, Set, Claimed, Uncounted, Shape, Empty, Asked, Given, PutsBack, pcf, Fresh
<1>2. ASSUME NEW n \in LargePages, LargeCreate(t, n)
      PROVE  /\ PcfTypes' /\ lists' \in Int
             /\ lists' + Destroyed' + NppSum' >= PcfSum' + ClaimedSum' + UncountedSum'
             /\ lists' + NppSum' + Destroyed' + PlistSum' <= NPages
             /\ Busy' <= lists'
  <2>1. PcfTypes' /\ PcfSum \in Nat /\ PcfSum' = PcfSum
    BY <1>2, PcfKept DEF LargeCreate, pcf
  <2> QED
    BY <1>0, <1>d, <1>p, <1>i, <1>u, <1>2, <2>1 DEF LargeCreate, Goto, Set, Claimed, Uncounted, Shape, Empty, Asked, Given, PutsBack, pcf, Fresh
<1>3. CASE PageFree(t)
  <2>1. PcfTypes' /\ PcfSum \in Nat /\ PcfSum' = PcfSum
    BY <1>3, PcfKept DEF PageFree, pcf
  <2> QED
    BY <1>0, <1>d, <1>p, <1>i, <1>u, <1>3, <2>1 DEF PageFree, Goto, Set, Claimed, Uncounted, Shape, Empty, Asked, Given, PutsBack, pcf, Fresh, LocType
<1>4. CASE PageReclaim(t)
  <2>1. PcfTypes' /\ PcfSum \in Nat /\ PcfSum' = PcfSum
    BY <1>4, PcfKept DEF PageReclaim, pcf
  <2> QED
    BY <1>0, <1>d, <1>p, <1>i, <1>u, <1>4, <2>1 DEF PageReclaim, Goto, Set, Claimed, Uncounted, Shape, Empty, Asked, Given, PutsBack, pcf, Fresh, LocType
<1>5. CASE PageDestroyFree(t)
  <2>1. PcfTypes' /\ PcfSum \in Nat /\ PcfSum' = PcfSum
    BY <1>5, PcfKept DEF PageDestroyFree, pcf
  <2> QED
    BY <1>0, <1>d, <1>p, <1>i, <1>u, <1>5, <2>1 DEF PageDestroyFree, Goto, Set, Claimed, Uncounted, Shape, Empty, Asked, Given, PutsBack, pcf, Fresh, LocType
<1>6. CASE Slept(t)
  <2>1. PcfTypes' /\ PcfSum \in Nat /\ PcfSum' = PcfSum
    BY <1>6, PcfKept DEF Slept, pcf
  <2> QED
    BY <1>0, <1>d, <1>p, <1>i, <1>u, <1>6, <2>1 DEF Slept, Goto, Set, Claimed, Uncounted, Shape, Empty, Asked, Given, PutsBack, pcf, Fresh, LocType, After
<1>7. CASE ThrottleWaits(t)
  <2>1. PcfTypes' /\ PcfSum \in Nat /\ PcfSum' = PcfSum
    BY <1>7, PcfKept DEF ThrottleWaits, pcf
  <2> QED
    BY <1>0, <1>d, <1>p, <1>i, <1>u, <1>7, <2>1 DEF ThrottleWaits, Goto, Set, Claimed, Uncounted, Shape, Empty, Asked, Given, PutsBack, pcf, Fresh, LocType, CvWait
<1>8. CASE ThrottleFails(t)
  <2>1. PcfTypes' /\ PcfSum \in Nat /\ PcfSum' = PcfSum
    BY <1>8, PcfKept DEF ThrottleFails, pcf
  <2> QED
    BY <1>0, <1>d, <1>p, <1>i, <1>u, <1>8, <2>1 DEF ThrottleFails, Goto, Set, Claimed, Uncounted, Shape, Empty, Asked, Given, PutsBack, pcf, Fresh, LocType, Return
<1>9. CASE ScanFinds(t)
  <2>1. PICK b \in Buckets : pcf_count[b] > loc[t].n /\ Claim(t, [pcf_count EXCEPT ![b] = @ - loc[t].n])
    BY <1>9 DEF ScanFinds
  <2>2. pcf_count[b] \in Nat /\ pcf_reserve[b] \in Nat /\ pcf_count[b] - loc[t].n \in Nat
    BY <1>0, <2>1, Typing
  <2>3. pcf_count' = [pcf_count EXCEPT ![b] = pcf_count[b] - loc[t].n] /\ pcf_reserve' = [pcf_reserve EXCEPT ![b] = pcf_reserve[b]]
    BY <1>9, <2>1, Typing DEF Claim, ScanFinds
  <2>9. /\ PcfTypes' /\ PcfSum \in Nat
        /\ PcfSum' = PcfSum - pcf_count[b] - pcf_reserve[b] + (pcf_count[b] - loc[t].n) + pcf_reserve[b]
    BY <2>2, <2>3, PcfChange
  <2>4. PcfTypes' /\ PcfSum \in Nat /\ PcfSum' = PcfSum - loc[t].n
    BY <1>0, <2>2, <2>9
  <2>5. pc[t] = "va" /\ pc'[t] \in {"get", "large"} /\ loc'[t] = [loc[t] EXCEPT !.left = loc[t].n, !.wait = FALSE] /\ UNCHANGED lists
    BY <1>9, <1>0, <2>1 DEF ScanFinds, Claim, Goto, Set
  <2> QED
    BY <1>0, <1>d, <1>p, <1>i, <1>u, <2>4, <2>5 DEF Claimed, Uncounted, Shape, Asked, LocType
<1>10. CASE ScanMisses(t)
  <2>1. PcfTypes' /\ PcfSum \in Nat /\ PcfSum' = PcfSum
    BY <1>10, PcfKept DEF ScanMisses, pcf
  <2> QED
    BY <1>0, <1>d, <1>p, <1>i, <1>u, <1>10, <2>1 DEF ScanMisses, Goto, Set, Claimed, Uncounted, Shape, Empty, Asked, Given, PutsBack, pcf, Fresh, LocType
<1>11. CASE PageCreateWait(t)
  <2>1. CASE Enough(loc[t].n) /\ Claim(t, Coalesce(loc[t].n))
    <3>1. loc[t].n \in Nat \ {0}
      BY <1>0, <1>11 DEF PageCreateWait, Shape, Asked
    <3>2. pcf_count' = Coalesce(loc[t].n) /\ UNCHANGED pcf_reserve
      BY <1>11, <2>1 DEF PageCreateWait, Claim
    <3>3. pcf_count' \in [Buckets -> Nat] /\ Sum(pcf_count', Buckets) = CountIn(Buckets) - loc[t].n
      BY <2>1, <3>1, <3>2, CoalesceTakes
    <3>4. CountIn(Buckets) \in Nat /\ Reserved \in Nat
      <4>1. IsFiniteSet(Buckets) /\ \A b \in Buckets : pcf_count[b] \in Nat /\ pcf_reserve[b] \in Nat
        <5>1. IsFiniteSet(1..PCF_FANOUT)
          BY FreeMemAssumption, FS_Interval
        <5> QED
          BY <5>1, Typing DEF Buckets
      <4> QED
        BY <4>1, SumNat DEF CountIn, Reserved
    <3>5. CountIn(Buckets)' = Sum(pcf_count', Buckets) /\ Reserved' = Reserved
      BY <3>2 DEF CountIn, Reserved
    <3>6. PcfTypes' /\ PcfSum \in Nat /\ PcfSum' = PcfSum - loc[t].n
      BY <1>0, <3>2, <3>3, <3>4, <3>5, Typing DEF PcfTypes, PcfSum
    <3>7. pc[t] = "wait" /\ pc'[t] \in {"get", "large"} /\ loc'[t] = [loc[t] EXCEPT !.left = loc[t].n, !.wait = FALSE] /\ UNCHANGED lists
      BY <1>11, <1>0, <2>1 DEF PageCreateWait, Claim, Goto, Set
    <3> QED
      BY <1>0, <1>d, <1>p, <1>i, <1>u, <3>6, <3>7 DEF Claimed, Uncounted, Shape, Asked, LocType
  <2>2. CASE ~(Enough(loc[t].n) /\ Claim(t, Coalesce(loc[t].n)))
    <3>0. UNCHANGED pcf_count
      BY <1>11, <2>2 DEF PageCreateWait
    <3>1. PcfTypes' /\ PcfSum \in Nat /\ PcfSum' = PcfSum
      BY <1>11, <3>0, PcfKept DEF PageCreateWait
    <3>2. /\ pc[t] = "wait" /\ UNCHANGED lists
          /\ \/ pc'[t] = "run" /\ loc'[t] = Fresh
             \/ pc'[t] = "wait_slept" /\ UNCHANGED loc
      BY <1>11, <1>0, <2>2 DEF PageCreateWait, Return, CvWait, Goto, Set
    <3> QED
      BY <1>0, <1>d, <1>p, <1>i, <1>u, <3>1, <3>2 DEF Claimed, Uncounted, Shape, Asked, Fresh
  <2> QED
    BY <1>11, <2>1, <2>2 DEF PageCreateWait
<1>12. CASE GetPage(t)
  <2>1. PcfTypes' /\ PcfSum \in Nat /\ PcfSum' = PcfSum
    BY <1>12, PcfKept DEF GetPage, pcf
  <2> QED
    BY <1>0, <1>d, <1>p, <1>i, <1>u, <1>12, <2>1 DEF GetPage, Goto, Set, Claimed, Uncounted, Shape, Empty, Asked, Given, PutsBack, pcf, Fresh, LocType
<1>13. CASE PcgsLock(t)
  <2>1. PcfTypes' /\ PcfSum \in Nat /\ PcfSum' = PcfSum
    BY <1>13, PcfKept DEF PcgsLock, pcf
  <2> QED
    BY <1>0, <1>d, <1>p, <1>i, <1>u, <1>13, <2>1 DEF PcgsLock, Goto, Set, Claimed, Uncounted, Shape, Empty, Asked, Given, PutsBack, pcf, Fresh, LocType
<1>14. CASE PcgsBlock(t)
  <2> DEFINE b == loc[t].i
  <2>1. pcf_count[b] \in Nat /\ pcf_reserve[b] \in Nat /\ 0 \in Nat /\ b \in Buckets
    BY <1>0, Typing
  <2>2. PcfTypes' /\ PcfSum \in Nat /\ PcfSum' = PcfSum - pcf_count[b] - pcf_reserve[b] + 0 + pcf_count[b]
    BY <1>14, <2>1, PcfChange DEF PcgsBlock
  <2>3. PcfTypes' /\ PcfSum \in Nat /\ PcfSum' \in Int /\ PcfSum' <= PcfSum
    BY <2>1, <2>2
  <2>4. /\ pc[t] = "block" /\ pc'[t] \in {"block", "blocked"} /\ UNCHANGED lists
        /\ loc'[t].n = loc[t].n /\ loc'[t].found = loc[t].found /\ loc'[t].npp = loc[t].npp /\ loc'[t].plist = loc[t].plist
    BY <1>14, <1>0 DEF PcgsBlock, NextBucket, Goto, Set, LocType
  <2> QED
    BY <1>0, <1>d, <1>p, <1>i, <1>u, <2>3, <2>4 DEF Claimed, Uncounted
<1>15. CASE PcgsGet(t)
  <2>1. PcfTypes' /\ PcfSum \in Nat /\ PcfSum' = PcfSum
    BY <1>15, PcfKept DEF PcgsGet, pcf
  <2> QED
    BY <1>0, <1>d, <1>p, <1>i, <1>u, <1>15, <2>1 DEF PcgsGet, Goto, Set, Claimed, Uncounted, Shape, Empty, Asked, Given, PutsBack, pcf, Fresh, LocType
<1>16. CASE PcgsUnblock(t)
  <2> DEFINE b == loc[t].i
  <2>1. pcf_count[b] \in Nat /\ pcf_reserve[b] \in Nat /\ 0 \in Nat /\ b \in Buckets
    BY <1>0, Typing
  <2>2. PcfTypes' /\ PcfSum \in Nat /\ PcfSum' = PcfSum - pcf_count[b] - pcf_reserve[b] + pcf_reserve[b] + 0
    BY <1>16, <2>1, PcfChange DEF PcgsUnblock
  <2>3. PcfTypes' /\ PcfSum \in Nat /\ PcfSum' \in Int /\ PcfSum' <= PcfSum
    BY <2>1, <2>2
  <2>4. /\ pc[t] = "unblock" /\ pc'[t] \in {"unblock", "get"} /\ UNCHANGED lists
        /\ loc'[t].n = loc[t].n /\ loc'[t].found = loc[t].found /\ loc'[t].npp = loc[t].npp /\ loc'[t].plist = loc[t].plist
    BY <1>16, <1>0 DEF PcgsUnblock, NextBucket, Goto, Set, LocType
  <2> QED
    BY <1>0, <1>d, <1>p, <1>i, <1>u, <2>3, <2>4 DEF Claimed, Uncounted
<1>17. CASE HashIn(t)
  <2>1. PcfTypes' /\ PcfSum \in Nat /\ PcfSum' = PcfSum
    BY <1>17, PcfKept DEF HashIn, pcf
  <2> DEFINE v == [loc[t] EXCEPT !.left = @ - 1]
  <2>2. /\ v.n = loc[t].n /\ v.plist = loc[t].plist /\ v.npp = loc[t].npp /\ v.found = loc[t].found
        /\ v = [n |-> v.n, wait |-> v.wait, excl |-> v.excl, large |-> v.large, left |-> v.left, found |-> v.found,
                npp |-> v.npp, plist |-> v.plist, i |-> v.i, which |-> v.which]
    BY <1>0 DEF LocType
  <2>3. pc[t] = "get" /\ pc'[t] = "get" /\ loc[t].npp = 1
    BY <1>0, <1>17 DEF HashIn
  <2>4. \/ loc'[t] = [v EXCEPT !.npp = 0, !.found = @ + 1, !.plist = @ + 1] /\ lists' = lists
        \/ loc'[t] = [v EXCEPT !.found = @ + 1, !.plist = @ + 1] /\ lists > Busy /\ lists' = lists - 1
        \/ loc'[t] = [v EXCEPT !.plist = @ + 1] /\ lists' = lists /\ InUse > SumLoc(Plist)
    BY <1>0, <1>17 DEF HashIn, Set
  <2> HIDE DEF v
  <2>5. /\ loc'[t].n = v.n /\ loc'[t].plist = v.plist + 1
        /\ \/ loc'[t].npp = 0 /\ loc'[t].found = v.found + 1 /\ lists' = lists
           \/ loc'[t].npp = v.npp /\ loc'[t].found = v.found + 1 /\ lists > Busy /\ lists' = lists - 1
           \/ loc'[t].npp = v.npp /\ loc'[t].found = v.found /\ lists' = lists /\ InUse > SumLoc(Plist)
    BY <2>2, <2>4
  <2> QED
    BY <1>0, <1>d, <1>p, <1>i, <1>u, <2>1, <2>2, <2>3, <2>5 DEF Claimed, Uncounted
<1>18. CASE HashExists(t)
  <2>1. PcfTypes' /\ PcfSum \in Nat /\ PcfSum' = PcfSum
    BY <1>18, PcfKept DEF HashExists, pcf
  <2> QED
    BY <1>0, <1>d, <1>p, <1>i, <1>u, <1>18, <2>1 DEF HashExists, Goto, Set, Claimed, Uncounted, Shape, Empty, Asked, Given, PutsBack, pcf, Fresh, LocType
<1>19. CASE Undo(t)
  <2>1. PcfTypes' /\ PcfSum \in Nat /\ PcfSum' = PcfSum
    BY <1>19, PcfKept DEF Undo, pcf
  <2> QED
    BY <1>0, <1>d, <1>p, <1>i, <1>u, <1>19, <2>1 DEF Undo, Goto, Set, Claimed, Uncounted, Shape, Empty, Asked, Given, PutsBack, pcf, Fresh, LocType
<1>20. CASE PutBackNpp(t)
  <2>1. PcfTypes' /\ PcfSum \in Nat /\ PcfSum' = PcfSum
    BY <1>20, PcfKept DEF PutBackNpp, pcf
  <2>2. /\ pc[t] \in {"get", "undo"} /\ lists' = lists + loc[t].npp
        /\ \/ pc'[t] = "over" /\ loc'[t] = [loc[t] EXCEPT !.npp = 0, !.plist = 0]
           \/ pc'[t] = "run" /\ loc'[t] = Fresh
    BY <1>0, <1>20 DEF PutBackNpp, Goto, Set, Return
  <2>3. Given(loc[t])
    BY <2>2 DEF Shape
  <2>4. /\ loc'[t].npp = 0 /\ loc'[t].plist = 0 /\ pc'[t] \in {"over", "run"}
        /\ Claimed(t) = loc[t].n - loc[t].found /\ Claimed(t)' \in {Claimed(t), 0}
        /\ Uncounted(t) = 0 /\ Uncounted(t)' = 0
    <3>1. Claimed(t) = loc[t].n - loc[t].found /\ Uncounted(t) = 0
      BY <1>0, <2>2 DEF Claimed, Uncounted
    <3>2. CASE pc'[t] = "run" /\ loc'[t] = Fresh
      BY <3>1, <3>2 DEF Claimed, Uncounted, Fresh
    <3>3. CASE pc'[t] = "over" /\ loc'[t] = [loc[t] EXCEPT !.npp = 0, !.plist = 0]
      <4>1. loc'[t].npp = 0 /\ loc'[t].plist = 0 /\ loc'[t].n = loc[t].n /\ loc'[t].found = loc[t].found
        BY <1>0, <3>3 DEF LocType
      <4> QED
        BY <1>0, <3>1, <3>3, <4>1 DEF Claimed, Uncounted
    <3> QED
      BY <2>2, <3>2, <3>3
  <2> QED
    BY <1>0, <1>d, <1>p, <1>i, <1>u, <2>1, <2>2, <2>3, <2>4 DEF Given
<1>21. CASE GiveBack(t)
  <2>1. PICK b \in Buckets : AddTo(b, Overshoot(t))
    BY <1>21 DEF GiveBack
  <2>2. Overshoot(t) = loc[t].n - loc[t].found /\ Overshoot(t) \in Nat
    BY <1>0, <1>21 DEF Overshoot, GiveBack, Shape, Given
  <2>3. PcfTypes' /\ PcfSum \in Nat /\ PcfSum' = PcfSum + Overshoot(t)
    BY <2>1, <2>2, AddToSum
  <2>4. pc[t] = "over" /\ pc'[t] = "run" /\ loc'[t] = Fresh /\ UNCHANGED lists
    BY <1>21, <1>0 DEF GiveBack, Return, Goto, Set
  <2> QED
    BY <1>0, <1>d, <1>p, <1>i, <1>u, <2>2, <2>3, <2>4 DEF Claimed, Uncounted, Shape, Fresh
<1>22. CASE PageFreeAccount(t)
  <2>1. PICK b \in Buckets : AddTo(b, 1)
    BY <1>22 DEF PageFreeAccount
  <2>2. PcfTypes' /\ PcfSum \in Nat /\ PcfSum' = PcfSum + 1
    BY <2>1, AddToSum
  <2> QED
    BY <1>0, <1>d, <1>p, <1>i, <1>u, <1>22, <2>2 DEF PageFreeAccount, Goto, Claimed, Uncounted, Shape, Empty, Given
<1>23. CASE Reclaimed(t)
  <2>1. PICK b \in Buckets : CanReclaim(b) /\ pcf_count' = [pcf_count EXCEPT ![b] = @ - 1]
    BY <1>23 DEF Reclaimed
  <2>2. pcf_count[b] \in Nat /\ pcf_reserve[b] \in Nat /\ pcf_count[b] - 1 \in Nat
    BY <2>1, Typing DEF CanReclaim
  <2>3. pcf_count' = [pcf_count EXCEPT ![b] = pcf_count[b] - 1] /\ pcf_reserve' = [pcf_reserve EXCEPT ![b] = pcf_reserve[b]]
    BY <1>23, <2>1, Typing DEF Reclaimed
  <2>9. /\ PcfTypes' /\ PcfSum \in Nat
        /\ PcfSum' = PcfSum - pcf_count[b] - pcf_reserve[b] + (pcf_count[b] - 1) + pcf_reserve[b]
    BY <2>2, <2>3, PcfChange
  <2>4. PcfTypes' /\ PcfSum \in Nat /\ PcfSum' = PcfSum - 1
    BY <2>2, <2>9
  <2> QED
    BY <1>0, <1>d, <1>p, <1>i, <1>u, <1>23, <2>4 DEF Reclaimed, Goto, Claimed, Uncounted
<1>24. CASE ReclaimNomem(t)
  <2>1. PcfTypes' /\ PcfSum \in Nat /\ PcfSum' = PcfSum
    BY <1>24, PcfKept DEF ReclaimNomem, pcf
  <2> QED
    BY <1>0, <1>d, <1>p, <1>i, <1>u, <1>24, <2>1 DEF ReclaimNomem, Goto, Set, Claimed, Uncounted, Shape, Empty, Asked, Given, PutsBack, pcf, Fresh, LocType, CvWait
<1>25. CASE DestroyDone(t)
  <2>1. PcfTypes' /\ PcfSum \in Nat /\ PcfSum' = PcfSum
    BY <1>25, PcfKept DEF DestroyDone, pcf
  <2> QED
    BY <1>0, <1>d, <1>p, <1>i, <1>u, <1>25, <2>1 DEF DestroyDone, Goto, Set, Claimed, Uncounted, Shape, Empty, Asked, Given, PutsBack, pcf, Fresh, LocType
<1>26. CASE LargeGet(t)
  <2>1. PcfTypes' /\ PcfSum \in Nat /\ PcfSum' = PcfSum
    BY <1>26, PcfKept DEF LargeGet, pcf
  <2>2. /\ pc[t] = "large"
        /\ \/ lists - Busy >= loc[t].n /\ lists' = lists - loc[t].n /\ pc'[t] = "run" /\ loc'[t] = Fresh
           \/ pc'[t] = "putback" /\ UNCHANGED <<lists, loc>>
    BY <1>0, <1>26 DEF LargeGet, Goto, Set, Return
  <2>3. loc[t].left + (1 - 1) * Lump(loc[t].n) = loc[t].n /\ loc[t].n \in Nat \ {0}
    BY <1>0, <2>2 DEF Shape, PutsBack
  <2>4. Lump(loc[t].n) \in Nat
    BY <2>3, LumpCovers
  <2>5. loc[t].left = loc[t].n /\ loc[t].found = 0 /\ loc[t].npp = 0 /\ loc[t].plist = 0
    BY <1>0, <2>2, <2>3, <2>4 DEF Shape, PutsBack
  <2>6. /\ Claimed(t) = loc[t].n /\ Uncounted(t) = 0 /\ Uncounted(t)' = 0
        /\ loc'[t].npp = 0 /\ loc'[t].plist = 0
        /\ \/ lists - Busy >= loc[t].n /\ lists' = lists - loc[t].n /\ pc'[t] = "run" /\ Claimed(t)' = 0
           \/ pc'[t] = "putback" /\ lists' = lists /\ Claimed(t)' = loc[t].n
    BY <1>0, <2>2, <2>5 DEF Claimed, Uncounted, Fresh
  <2> QED
    BY <1>0, <1>d, <1>p, <1>i, <1>u, <2>1, <2>2, <2>5, <2>6
<1>27. CASE PutbackLook(t)
  <2>1. PcfTypes' /\ PcfSum \in Nat /\ PcfSum' = PcfSum
    BY <1>27, PcfKept DEF PutbackLook, pcf
  <2> QED
    BY <1>0, <1>d, <1>p, <1>i, <1>u, <1>27, <2>1 DEF PutbackLook, Goto, Set, Claimed, Uncounted, Shape, Empty, Asked, Given, PutsBack, pcf, Fresh, LocType
<1>28. CASE PutbackAdd(t)
  <2> DEFINE b == loc[t].i
             k == IF Lump(loc[t].n) < loc[t].left THEN Lump(loc[t].n) ELSE loc[t].left
  <2>0. loc[t].n \in Nat \ {0} /\ pc[t] = "putadd"
    BY <1>0, <1>28 DEF PutbackAdd, Shape, PutsBack
  <2>1. Lump(loc[t].n) \in Nat
    BY <2>0, LumpCovers
  <2>2. k \in Nat /\ k <= loc[t].left /\ pcf_count[b] \in Nat /\ pcf_reserve[b] \in Nat /\ b \in Buckets
    BY <1>0, <2>1, Typing
  <2>3. \/ /\ pcf_count' = [pcf_count EXCEPT ![b] = pcf_count[b] + k]
           /\ pcf_reserve' = [pcf_reserve EXCEPT ![b] = pcf_reserve[b]]
        \/ /\ pcf_count' = [pcf_count EXCEPT ![b] = pcf_count[b]]
           /\ pcf_reserve' = [pcf_reserve EXCEPT ![b] = pcf_reserve[b] + k]
    BY <1>28, Typing DEF PutbackAdd
  <2>4. /\ UNCHANGED lists
        /\ \/ loc[t].left - k = 0 /\ pc'[t] = "run" /\ loc'[t] = Fresh
           \/ pc'[t] = "putback" /\ loc'[t] = [loc[t] EXCEPT !.left = loc[t].left - k, !.i = @ + 1, !.which = FALSE]
    BY <1>28, <1>0 DEF PutbackAdd, Return, Goto, Set
  <2> HIDE DEF k
  <2>5. PcfTypes' /\ PcfSum \in Nat /\ PcfSum' = PcfSum + k
    <3>1. pcf_count[b] + k \in Nat /\ pcf_reserve[b] + k \in Nat
      BY <2>2
    <3> QED
      BY <2>2, <2>3, <3>1, PcfChange
  <2>6. /\ loc[t].npp = 0 /\ loc[t].plist = 0 /\ loc'[t].npp = 0 /\ loc'[t].plist = 0 /\ UNCHANGED lists
        /\ Claimed(t) = loc[t].left /\ Claimed(t)' = loc[t].left - k /\ Uncounted(t) = 0 /\ Uncounted(t)' = 0
        /\ pc[t] = "putadd" /\ pc'[t] \in {"run", "putback"}
    <3>1. loc[t].npp = 0 /\ loc[t].plist = 0 /\ Claimed(t) = loc[t].left /\ Uncounted(t) = 0
      BY <1>0, <2>0 DEF Shape, PutsBack, Claimed, Uncounted
    <3>2. CASE loc[t].left - k = 0 /\ pc'[t] = "run" /\ loc'[t] = Fresh
      BY <2>0, <2>4, <3>1, <3>2 DEF Claimed, Uncounted, Fresh
    <3>3. CASE pc'[t] = "putback" /\ loc'[t] = [loc[t] EXCEPT !.left = loc[t].left - k, !.i = @ + 1, !.which = FALSE]
      <4>1. loc'[t].left = loc[t].left - k /\ loc'[t].npp = loc[t].npp /\ loc'[t].plist = loc[t].plist
        BY <1>0, <3>3 DEF LocType
      <4> QED
        BY <1>0, <2>0, <2>4, <3>1, <3>3, <4>1 DEF Claimed, Uncounted
    <3> QED
      BY <2>4, <3>2, <3>3
  <2> QED
    BY <1>0, <1>d, <1>p, <1>i, <1>u, <2>2, <2>5, <2>6
<1> QED
  BY <1>1, <1>2, <1>3, <1>4, <1>5, <1>6, <1>7, <1>8, <1>9, <1>10, <1>11, <1>12, <1>13, <1>14, <1>15, <1>16, <1>17, <1>18, <1>19, <1>20, <1>21, <1>22, <1>23, <1>24, <1>25, <1>26, <1>27, <1>28 DEF Call, Step

-----------------------------------------------------------------------
(* The sleepers on freemem_cv. *)

(* The sleepers are finitely many and counted; with none counted there is  *)
(* none.                                                                   *)
LEMMA SleepersFinite ==
  ASSUME TypeOK, WaitOK
  PROVE  /\ IsFiniteSet(freemem_cv) /\ Cardinality(freemem_cv) \in Nat /\ freemem_cv \subseteq Threads
         /\ freemem_wait = Cardinality(Sleeping) /\ freemem_wait \in Nat
         /\ freemem_wait = 0 => freemem_cv = {}
         /\ pcf_wait \in [Buckets -> 0..MaxWait] /\ \A b \in Buckets : pcf_wait[b] \in Nat /\ pcf_wait[b] >= Cardinality(freemem_cv)
<1>1. freemem_cv \in SUBSET Threads /\ Sleeping \in SUBSET Threads /\ IsFiniteSet(Threads)
  BY FreeMemAssumption DEF TypeOK, Sleeping
<1>2. IsFiniteSet(freemem_cv) /\ IsFiniteSet(Sleeping)
  BY <1>1, FS_Subset
<1>3. Cardinality(freemem_cv) \in Nat /\ Cardinality(Sleeping) \in Nat
  BY <1>2, FS_CardinalityType
<1>4. freemem_wait = Cardinality(Sleeping) /\ freemem_cv \subseteq Sleeping
  BY DEF WaitOK, WaitersCounted, Sleeping
<1>5. freemem_wait = 0 => freemem_cv = {}
  BY <1>2, <1>4, FS_EmptySet
<1>6. pcf_wait \in [Buckets -> 0..MaxWait] /\ \A b \in Buckets : pcf_wait[b] \in Nat /\ pcf_wait[b] >= Cardinality(freemem_cv)
  BY FreeMemAssumption DEF TypeOK, WaitOK, WaitersCounted
<1> QED
  BY <1>1, <1>2, <1>3, <1>4, <1>5, <1>6

(* cv_signal() takes one sleeper off, if there is one. *)
LEMMA SignalTakes ==
  ASSUME TypeOK, WaitOK, CvSignal
  PROVE  /\ freemem_cv' \subseteq freemem_cv /\ Cardinality(freemem_cv') \in Nat
         /\ Cardinality(freemem_cv') = IF freemem_cv = {} THEN 0 ELSE Cardinality(freemem_cv) - 1
<1>1. CASE freemem_cv = {}
  BY <1>1, FS_EmptySet DEF CvSignal
<1>2. CASE freemem_cv # {}
  <2>1. PICK u \in freemem_cv : freemem_cv' = freemem_cv \ {u}
    BY <1>2 DEF CvSignal
  <2>2. Cardinality(freemem_cv \ {u}) = Cardinality(freemem_cv) - 1 /\ IsFiniteSet(freemem_cv \ {u})
    BY SleepersFinite, FS_RemoveElement
  <2>3. Cardinality(freemem_cv \ {u}) \in Nat
    BY <2>2, FS_CardinalityType
  <2> QED
    BY <1>2, <2>1, <2>2, <2>3
<1> QED
  BY <1>1, <1>2

(* What a change of the sleepers must respect. *)
Counted == /\ pcf_wait' \in [Buckets -> 0..MaxWait] /\ freemem_cv' \subseteq freemem_cv
           /\ \A b \in Buckets : pcf_wait'[b] >= Cardinality(freemem_cv')

(* A wakeup takes the sleeper it wakes out of one bucket, and every other  *)
(* bucket still counts the rest.                                           *)
LEMMA WakeCounts ==
  ASSUME TypeOK, WaitOK, NEW b \in Buckets, NEW all \in BOOLEAN, Wake(b, all)
  PROVE  Counted
<1>0. /\ Cardinality(freemem_cv) \in Nat /\ (freemem_wait = 0 => freemem_cv = {}) /\ MaxWait \in Nat
      /\ pcf_wait \in [Buckets -> 0..MaxWait] /\ \A x \in Buckets : pcf_wait[x] \in Nat /\ pcf_wait[x] >= Cardinality(freemem_cv)
  BY SleepersFinite, FreeMemAssumption
<1>1. CASE pcf_wait[b] = 0
  BY <1>0, <1>1 DEF Wake, Counted
<1>2. CASE pcf_wait[b] # 0 /\ freemem_wait = 0
  <2>1. Cardinality(freemem_cv') = 0 /\ freemem_cv' = freemem_cv /\ pcf_wait' = [pcf_wait EXCEPT ![b] = 0]
    BY <1>0, <1>2, FS_EmptySet DEF Wake
  <2> QED
    BY <1>0, <2>1 DEF Counted
<1>3. CASE pcf_wait[b] # 0 /\ freemem_wait # 0
  <2>1. pcf_wait' = [pcf_wait EXCEPT ![b] = pcf_wait[b] - 1]
    BY <1>3 DEF Wake
  <2>2. freemem_cv' \subseteq freemem_cv /\ Cardinality(freemem_cv') \in Nat
        /\ Cardinality(freemem_cv') <= Cardinality(freemem_cv) /\ Cardinality(freemem_cv') <= pcf_wait[b] - 1
    <3>1. CASE all
      <4>1. freemem_cv' = {} /\ Cardinality(freemem_cv') = 0
        BY <1>3, <3>1, FS_EmptySet DEF Wake
      <4> QED
        BY <1>0, <1>3, <4>1
    <3>2. CASE ~all
      <4>1. CvSignal
        BY <1>3, <3>2 DEF Wake
      <4>2. /\ freemem_cv' \subseteq freemem_cv /\ Cardinality(freemem_cv') \in Nat
            /\ Cardinality(freemem_cv') = IF freemem_cv = {} THEN 0 ELSE Cardinality(freemem_cv) - 1
        BY <4>1, SignalTakes
      <4>3. freemem_cv = {} => Cardinality(freemem_cv) = 0
        BY FS_EmptySet
      <4> QED
        BY <1>0, <1>3, <4>2, <4>3
    <3> QED
      BY <3>1, <3>2
  <2> QED
    BY <1>0, <1>3, <2>1, <2>2 DEF Counted
<1> QED
  BY <1>1, <1>2, <1>3

(* A step that touches neither keeps them in agreement. *)
LEMMA KeptCounts ==
  ASSUME TypeOK, WaitOK, UNCHANGED <<pcf_wait, freemem_cv>>
  PROVE  Counted
BY SleepersFinite DEF Counted

(* So does one that adds pages to a bucket or its reserve. *)
LEMMA AddToCounts ==
  ASSUME TypeOK, WaitOK, NEW b \in Buckets, NEW k, AddTo(b, k)
  PROVE  Counted
BY WakeCounts, KeptCounts DEF AddTo

(* Whoever sleeps is counted in every bucket, after every step. *)
LEMMA WaitNext ==
  ASSUME TypeOK, NEW t \in Threads, Shape(t), WaitOK, Call(t) \/ Step(t)
  PROVE  WaitOK' /\ pcf_wait' \in [Buckets -> 0..MaxWait] /\ freemem_wait' \in Nat /\ freemem_cv' \subseteq Threads
<1>0. /\ pc \in [Threads -> PCs] /\ loc \in [Threads -> LocType]
      /\ DOMAIN After = {"va_slept", "wait_slept", "reclaim_slept"}
  <2>1. DOMAIN After = {"va_slept", "wait_slept", "reclaim_slept"}
    BY DEF After
  <2> QED
    BY <2>1, Typing
<1>m. Moved(t)
  BY StepMoves
<1>f. /\ IsFiniteSet(freemem_cv) /\ Cardinality(freemem_cv) \in Nat /\ freemem_cv \subseteq Threads
      /\ freemem_wait = Cardinality(Sleeping) /\ freemem_wait \in Nat /\ MaxWait \in Nat
      /\ pcf_wait \in [Buckets -> 0..MaxWait] /\ \A b \in Buckets : pcf_wait[b] \in Nat /\ pcf_wait[b] >= Cardinality(freemem_cv)
  BY SleepersFinite, FreeMemAssumption
<1>s. freemem_cv \subseteq Sleeping
  BY DEF WaitOK
<1>p. /\ Cardinality(Sleeping) \in Nat /\ Cardinality(Sleeping)' \in Nat
      /\ Cardinality(Sleeping)' = Cardinality(Sleeping) - (IF pc[t] \in DOMAIN After THEN 1 ELSE 0)
                                                        + (IF pc'[t] \in DOMAIN After THEN 1 ELSE 0)
  BY <1>m, PlaceDeltas
<1>o. \A u \in Threads \ {t} : u \in Sleeping => u \in Sleeping'
  BY <1>m DEF Moved, Sleeping
(* A thread that neither goes to sleep nor was asleep. *)
<1>a. ASSUME Counted, pc[t] \notin DOMAIN After, pc'[t] \notin DOMAIN After, UNCHANGED freemem_wait
      PROVE  WaitOK' /\ pcf_wait' \in [Buckets -> 0..MaxWait] /\ freemem_wait' \in Nat /\ freemem_cv' \subseteq Threads
  <2>1. t \notin Sleeping
    BY <1>a DEF Sleeping
  <2>2. freemem_cv' \subseteq Sleeping' /\ freemem_cv' \subseteq Threads
    BY <1>a, <1>f, <1>s, <1>o, <2>1 DEF Counted
  <2>3. freemem_wait' = Cardinality(Sleeping)'
    BY <1>a, <1>f, <1>p
  <2> QED
    BY <1>a, <1>f, <2>2, <2>3 DEF Counted, WaitOK, WaitersCounted, Sleeping
(* A thread that goes to sleep. *)
<1>b. ASSUME NEW l, CvWait(t, l), l \in DOMAIN After, pc[t] \notin DOMAIN After
      PROVE  WaitOK' /\ pcf_wait' \in [Buckets -> 0..MaxWait] /\ freemem_wait' \in Nat /\ freemem_cv' \subseteq Threads
  <2>1. t \notin freemem_cv
    BY <1>b, <1>s DEF Sleeping
  <2>2. pc'[t] = l
    BY <1>b, <1>0 DEF CvWait, Goto
  <2>3. freemem_cv' = freemem_cv \cup {t} /\ freemem_wait' = freemem_wait + 1
    BY <1>b DEF CvWait
  <2>4. Cardinality(freemem_cv') = Cardinality(freemem_cv) + 1
    BY <1>f, <2>1, <2>3, FS_AddElement
  <2>5. t \in Sleeping'
    BY <1>b, <2>2 DEF Sleeping
  <2>6. freemem_cv' \subseteq Sleeping' /\ freemem_cv' \subseteq Threads
    BY <1>f, <1>s, <1>o, <2>3, <2>5
  <2>7. pcf_wait' \in [Buckets -> 0..MaxWait] /\ \A x \in Buckets : pcf_wait'[x] >= Cardinality(freemem_cv')
    BY <1>b, <1>f, <2>4 DEF CvWait, WaitAll
  <2>8. freemem_wait' = Cardinality(Sleeping)' /\ freemem_wait' \in Nat
    BY <1>b, <1>f, <1>p, <2>2, <2>3
  <2> QED
    BY <2>6, <2>7, <2>8 DEF WaitOK, WaitersCounted, Sleeping
<1>1. ASSUME NEW n \in Requests, NEW wait \in BOOLEAN, NEW excl \in BOOLEAN, PageCreateVa(t, n, wait, excl)
      PROVE  WaitOK' /\ pcf_wait' \in [Buckets -> 0..MaxWait] /\ freemem_wait' \in Nat /\ freemem_cv' \subseteq Threads
  <2>1. Counted
    BY <1>1, KeptCounts DEF PageCreateVa, pcf, cvars
  <2> QED
    BY <1>0, <1>1, <1>a, <2>1 DEF PageCreateVa, Goto, cvars
<1>2. ASSUME NEW n \in LargePages, LargeCreate(t, n)
      PROVE  WaitOK' /\ pcf_wait' \in [Buckets -> 0..MaxWait] /\ freemem_wait' \in Nat /\ freemem_cv' \subseteq Threads
  <2>1. Counted
    BY <1>2, KeptCounts DEF LargeCreate, pcf, cvars
  <2> QED
    BY <1>0, <1>2, <1>a, <2>1 DEF LargeCreate, Goto, cvars
<1>3. CASE PageFree(t)
  <2>1. Counted
    BY <1>3, KeptCounts DEF PageFree, pcf, cvars
  <2> QED
    BY <1>3, <1>0, <1>a, <2>1 DEF PageFree, Goto, cvars
<1>4. CASE PageReclaim(t)
  <2>1. Counted
    BY <1>4, KeptCounts DEF PageReclaim, pcf, cvars
  <2> QED
    BY <1>4, <1>0, <1>a, <2>1 DEF PageReclaim, Goto, cvars
<1>5. CASE PageDestroyFree(t)
  <2>1. Counted
    BY <1>5, KeptCounts DEF PageDestroyFree, pcf, cvars
  <2> QED
    BY <1>5, <1>0, <1>a, <2>1 DEF PageDestroyFree, Goto, cvars
<1>6. CASE Slept(t)
  <2>1. /\ pc[t] \in DOMAIN After /\ t \notin freemem_cv /\ pc'[t] \notin DOMAIN After
        /\ freemem_wait' = freemem_wait - 1 /\ UNCHANGED <<pcf_wait, freemem_cv>>
    BY <1>6, <1>0 DEF Slept, Goto, After, pcf
  <2>2. freemem_cv' \subseteq Sleeping'
    BY <1>s, <1>o, <1>f, <2>1
  <2>3. freemem_wait' = Cardinality(Sleeping)' /\ freemem_wait' \in Nat
    BY <1>f, <1>p, <2>1
  <2> QED
    BY <1>f, <2>1, <2>2, <2>3 DEF WaitOK, WaitersCounted, Sleeping
<1>7. CASE ThrottleWaits(t)
  BY <1>7, <1>0, <1>b DEF ThrottleWaits
<1>8. CASE ThrottleFails(t)
  <2>1. Counted
    BY <1>8, KeptCounts DEF ThrottleFails, pcf, cvars
  <2> QED
    BY <1>8, <1>0, <1>a, <2>1 DEF ThrottleFails, Goto, cvars, Return
<1>9. CASE ScanFinds(t)
  <2>1. Counted
    BY <1>9, KeptCounts DEF ScanFinds, pcf, cvars
  <2> QED
    BY <1>9, <1>0, <1>a, <2>1 DEF ScanFinds, Goto, cvars, Claim
<1>10. CASE ScanMisses(t)
  <2>1. Counted
    BY <1>10, KeptCounts DEF ScanMisses, pcf, cvars
  <2> QED
    BY <1>10, <1>0, <1>a, <2>1 DEF ScanMisses, Goto, cvars
<1>11. CASE PageCreateWait(t)
  <2>1. CASE CvWait(t, "wait_slept")
    BY <1>11, <1>0, <1>b, <2>1 DEF PageCreateWait
  <2>2. CASE ~CvWait(t, "wait_slept")
    <3>1. Counted
      BY <1>11, <2>2, KeptCounts DEF PageCreateWait, cvars
    <3>2. pc[t] = "wait" /\ pc'[t] \in {"get", "large", "run"} /\ UNCHANGED freemem_wait
      BY <1>11, <1>0, <2>2 DEF PageCreateWait, Claim, Return, Goto, cvars
    <3> QED
      BY <1>0, <1>a, <3>1, <3>2
  <2> QED
    BY <2>1, <2>2
<1>12. CASE GetPage(t)
  <2>1. Counted
    BY <1>12, KeptCounts DEF GetPage, pcf, cvars
  <2> QED
    BY <1>12, <1>0, <1>a, <2>1 DEF GetPage, Goto, cvars
<1>13. CASE PcgsLock(t)
  <2>1. Counted
    BY <1>13, KeptCounts DEF PcgsLock, pcf, cvars
  <2> QED
    BY <1>13, <1>0, <1>a, <2>1 DEF PcgsLock, Goto, cvars
<1>14. CASE PcgsBlock(t)
  <2>1. Counted
    BY <1>14, KeptCounts DEF PcgsBlock, pcf, cvars
  <2> QED
    BY <1>14, <1>0, <1>a, <2>1 DEF PcgsBlock, Goto, cvars, NextBucket
<1>15. CASE PcgsGet(t)
  <2>1. Counted
    BY <1>15, KeptCounts DEF PcgsGet, pcf, cvars
  <2> QED
    BY <1>15, <1>0, <1>a, <2>1 DEF PcgsGet, Goto, cvars
<1>16. CASE PcgsUnblock(t)
  <2> DEFINE b == loc[t].i
  <2>0. b \in Buckets
    BY <1>0 DEF LocType
  <2>1. Counted
    <3>1. CASE pcf_wait' = [pcf_wait EXCEPT ![b] = 0] /\ freemem_cv' = {}
      <4>1. Cardinality(freemem_cv') = 0
        BY <3>1, FS_EmptySet
      <4>2. 0 \in 0..MaxWait
        BY <1>f
      <4>3. pcf_wait' \in [Buckets -> 0..MaxWait]
        <5> HIDE DEF b
        <5> QED
          BY <1>f, <2>0, <3>1, <4>2, Zenon
      <4>4. \A x \in Buckets : pcf_wait'[x] >= 0
        BY <1>f, <4>3
      <4> QED
        BY <3>1, <4>1, <4>3, <4>4 DEF Counted
    <3>2. CASE Wake(b, FALSE)
      BY <2>0, <3>2, WakeCounts
    <3> QED
      BY <1>16, <3>1, <3>2 DEF PcgsUnblock, PcgsWake
  <2>2. pc[t] = "unblock" /\ pc'[t] \in {"unblock", "get"} /\ UNCHANGED freemem_wait
    BY <1>16, <1>0 DEF PcgsUnblock, NextBucket, Goto
  <2> QED
    BY <1>0, <1>a, <2>1, <2>2
<1>17. CASE HashIn(t)
  <2>1. Counted
    BY <1>17, KeptCounts DEF HashIn, pcf, cvars
  <2> QED
    BY <1>17, <1>0, <1>a, <2>1 DEF HashIn, Goto, cvars
<1>18. CASE HashExists(t)
  <2>1. Counted
    BY <1>18, KeptCounts DEF HashExists, pcf, cvars
  <2> QED
    BY <1>18, <1>0, <1>a, <2>1 DEF HashExists, Goto, cvars
<1>19. CASE Undo(t)
  <2>1. Counted
    BY <1>19, KeptCounts DEF Undo, pcf, cvars
  <2> QED
    BY <1>19, <1>0, <1>a, <2>1 DEF Undo, Goto, cvars
<1>20. CASE PutBackNpp(t)
  <2>1. Counted
    BY <1>20, KeptCounts DEF PutBackNpp, pcf, cvars
  <2> QED
    BY <1>20, <1>0, <1>a, <2>1 DEF PutBackNpp, Goto, cvars, Return, Overshoot
<1>21. CASE GiveBack(t)
  <2>1. Counted
    BY <1>21, AddToCounts DEF GiveBack
  <2> QED
    BY <1>21, <1>0, <1>a, <2>1 DEF GiveBack, Return, Goto
<1>22. CASE PageFreeAccount(t)
  <2>1. Counted
    BY <1>22, AddToCounts DEF PageFreeAccount
  <2> QED
    BY <1>22, <1>0, <1>a, <2>1 DEF PageFreeAccount, Goto
<1>23. CASE Reclaimed(t)
  <2>1. Counted
    BY <1>23, KeptCounts DEF Reclaimed, pcf, cvars
  <2> QED
    BY <1>23, <1>0, <1>a, <2>1 DEF Reclaimed, Goto, cvars
<1>24. CASE ReclaimNomem(t)
  BY <1>24, <1>0, <1>b DEF ReclaimNomem
<1>25. CASE DestroyDone(t)
  <2>1. Counted
    <3>1. CASE UNCHANGED freemem_cv
      BY <1>25, <3>1, KeptCounts DEF DestroyDone, pcf
    <3>2. CASE CvSignal
      <4>1. /\ freemem_cv' \subseteq freemem_cv /\ Cardinality(freemem_cv') \in Nat
            /\ Cardinality(freemem_cv') <= Cardinality(freemem_cv)
        BY <1>f, <3>2, SignalTakes, FS_EmptySet
      <4> QED
        BY <1>25, <1>f, <4>1 DEF DestroyDone, pcf, Counted
    <3> QED
      BY <1>25, <3>1, <3>2 DEF DestroyDone
  <2> QED
    BY <1>25, <1>0, <1>a, <2>1 DEF DestroyDone, Goto
<1>26. CASE LargeGet(t)
  <2>1. Counted
    BY <1>26, KeptCounts DEF LargeGet, pcf, cvars
  <2> QED
    BY <1>26, <1>0, <1>a, <2>1 DEF LargeGet, Goto, cvars, Return
<1>27. CASE PutbackLook(t)
  <2>1. Counted
    BY <1>27, KeptCounts DEF PutbackLook, pcf, cvars
  <2> QED
    BY <1>27, <1>0, <1>a, <2>1 DEF PutbackLook, Goto, cvars
<1>28. CASE PutbackAdd(t)
  <2> DEFINE b == loc[t].i
  <2>0. b \in Buckets
    BY <1>0 DEF LocType
  <2> DEFINE k == IF Lump(loc[t].n) < loc[t].left THEN Lump(loc[t].n) ELSE loc[t].left
             all == loc[t].left - k > 1
  <2>1. Wake(b, all) /\ all \in BOOLEAN
    BY <1>28 DEF PutbackAdd
  <2> HIDE DEF all
  <2>2. Counted
    BY <2>0, <2>1, WakeCounts
  <2>3. pc[t] = "putadd" /\ pc'[t] \in {"run", "putback"} /\ UNCHANGED freemem_wait
    BY <1>28, <1>0 DEF PutbackAdd, Return, Goto
  <2> QED
    BY <1>0, <1>a, <2>2, <2>3
<1> QED
  BY <1>1, <1>2, <1>3, <1>4, <1>5, <1>6, <1>7, <1>8, <1>9, <1>10, <1>11, <1>12, <1>13, <1>14, <1>15, <1>16, <1>17, <1>18, <1>19, <1>20, <1>21, <1>22, <1>23, <1>24, <1>25, <1>26, <1>27, <1>28 DEF Call, Step

-----------------------------------------------------------------------
(* page_create_get_something() and its blocked buckets. *)

(* A step outside page_create_get_something(). *)
Outside(t) == /\ pc[t] \notin PcgsPCs /\ pc'[t] \notin PcgsPCs
              /\ UNCHANGED <<pcf_block, pcgs_lock>>
(* A step inside it, or into or out of it. *)
Inside(t) == PcgsLock(t) \/ PcgsBlock(t) \/ PcgsGet(t) \/ PcgsUnblock(t)

(* All other operations leave pcf_block and pcgs_lock alone.               *)
LEMMA OutsideSteps ==
  ASSUME TypeOK, NEW t \in Threads, Call(t) \/ Step(t), ~Inside(t)
  PROVE  Outside(t)
<1>0. pc \in [Threads -> PCs] /\ pc[t] \in PCs /\ DOMAIN After = {"va_slept", "wait_slept", "reclaim_slept"}
  <2>1. DOMAIN After = {"va_slept", "wait_slept", "reclaim_slept"}
    BY DEF After
  <2> QED
    BY <2>1, Typing
<1>1. ASSUME NEW n \in Requests, NEW wait \in BOOLEAN, NEW excl \in BOOLEAN, PageCreateVa(t, n, wait, excl)
      PROVE  Outside(t)
  BY <1>0, <1>1 DEF PageCreateVa, Goto, Outside, PcgsPCs, pcf
<1>2. ASSUME NEW n \in LargePages, LargeCreate(t, n)
      PROVE  Outside(t)
  BY <1>0, <1>2 DEF LargeCreate, Goto, Outside, PcgsPCs, pcf
<1>3. CASE PageFree(t)
  BY <1>0, <1>3 DEF PageFree, Goto, Outside, PcgsPCs, pcf
<1>4. CASE PageReclaim(t)
  BY <1>0, <1>4 DEF PageReclaim, Goto, Outside, PcgsPCs, pcf
<1>5. CASE PageDestroyFree(t)
  BY <1>0, <1>5 DEF PageDestroyFree, Goto, Outside, PcgsPCs, pcf
<1>6. CASE Slept(t)
  <2>1. After[pc[t]] \in {"va", "wait", "run"} /\ pc'[t] = After[pc[t]]
    BY <1>0, <1>6 DEF Slept, Goto, After
  <2> QED
    BY <1>0, <1>6, <2>1 DEF Slept, Outside, PcgsPCs, pcf
<1>7. CASE ThrottleWaits(t)
  BY <1>0, <1>7 DEF ThrottleWaits, Goto, CvWait, Outside, PcgsPCs, pcf
<1>8. CASE ThrottleFails(t)
  BY <1>0, <1>8 DEF ThrottleFails, Goto, Return, Outside, PcgsPCs, pcf
<1>9. CASE ScanFinds(t)
  BY <1>0, <1>9 DEF ScanFinds, Goto, Claim, Outside, PcgsPCs, pcf
<1>10. CASE ScanMisses(t)
  BY <1>0, <1>10 DEF ScanMisses, Goto, Outside, PcgsPCs, pcf
<1>11. CASE PageCreateWait(t)
  BY <1>0, <1>11 DEF PageCreateWait, Goto, Claim, Return, CvWait, Outside, PcgsPCs, pcf
<1>12. CASE GetPage(t)
  BY <1>0, <1>12 DEF GetPage, Goto, Outside, PcgsPCs, pcf
<1>13. CASE HashIn(t)
  BY <1>0, <1>13 DEF HashIn, Goto, Outside, PcgsPCs, pcf
<1>14. CASE HashExists(t)
  BY <1>0, <1>14 DEF HashExists, Goto, Outside, PcgsPCs, pcf
<1>15. CASE Undo(t)
  BY <1>0, <1>15 DEF Undo, Goto, Outside, PcgsPCs, pcf
<1>16. CASE PutBackNpp(t)
  BY <1>0, <1>16 DEF PutBackNpp, Goto, Return, Outside, PcgsPCs, pcf
<1>17. CASE GiveBack(t)
  BY <1>0, <1>17 DEF GiveBack, Goto, Return, Outside, PcgsPCs, pcf
<1>18. CASE PageFreeAccount(t)
  BY <1>0, <1>18 DEF PageFreeAccount, Goto, Outside, PcgsPCs, pcf
<1>19. CASE Reclaimed(t)
  BY <1>0, <1>19 DEF Reclaimed, Goto, Outside, PcgsPCs, pcf
<1>20. CASE ReclaimNomem(t)
  BY <1>0, <1>20 DEF ReclaimNomem, Goto, CvWait, Outside, PcgsPCs, pcf
<1>21. CASE DestroyDone(t)
  BY <1>0, <1>21 DEF DestroyDone, Goto, Outside, PcgsPCs, pcf
<1>22. CASE LargeGet(t)
  BY <1>0, <1>22 DEF LargeGet, Goto, Return, Outside, PcgsPCs, pcf
<1>23. CASE PutbackLook(t)
  BY <1>0, <1>23 DEF PutbackLook, Goto, Outside, PcgsPCs, pcf
<1>24. CASE PutbackAdd(t)
  BY <1>0, <1>24 DEF PutbackAdd, Goto, Return, Outside, PcgsPCs, pcf
<1> QED
  BY <1>1, <1>2, <1>3, <1>4, <1>5, <1>6, <1>7, <1>8, <1>9, <1>10, <1>11, <1>12, <1>13, <1>14, <1>15, <1>16, <1>17, <1>18, <1>19, <1>20, <1>21, <1>22, <1>23, <1>24 DEF Call, Step, Inside

(* pcgs_lock is held just in page_create_get_something(), and its holder   *)
(* has yet to come to every bucket that is blocked.                        *)
LEMMA PcgsNext ==
  ASSUME TypeOK, NEW t \in Threads, \A u \in Threads : Shape(u), PcgsOK, Call(t) \/ Step(t)
  PROVE  PcgsOK' /\ pcf_block' \in [Buckets -> BOOLEAN] /\ pcgs_lock' \in Threads \cup {None}
<1>0. /\ pc \in [Threads -> PCs] /\ loc \in [Threads -> LocType] /\ pcf_block \in [Buckets -> BOOLEAN]
      /\ pcgs_lock \in Threads \cup {None} /\ None \notin Threads /\ loc[t].i \in Buckets /\ loc[t] \in LocType
      /\ Buckets \subseteq Nat /\ PCF_FANOUT \in Nat \ {0} /\ 1 \in Buckets
  <2>1. loc[t] \in LocType
    BY Typing
  <2>2. loc[t].i \in Buckets
    BY <2>1 DEF LocType
  <2> QED
    BY <2>1, <2>2, Typing, FreeMemAssumption DEF TypeOK
<1>m. Moved(t)
  BY StepMoves
<1>h. \A u \in Threads : pc[u] \in PcgsPCs <=> pcgs_lock = u
  BY DEF PcgsOK
<1>1. CASE Outside(t)
  <2>1. \A u \in Threads : pc'[u] \in PcgsPCs <=> pcgs_lock' = u
    BY <1>1, <1>m, <1>h DEF Outside, Moved
  <2>2. ASSUME NEW b \in Buckets, pcf_block'[b]
        PROVE  \E u \in Threads : /\ pcgs_lock' = u
                                  /\ \/ pc'[u] = "blocked"
                                     \/ pc'[u] = "block" /\ b < loc'[u].i
                                     \/ pc'[u] = "unblock" /\ b >= loc'[u].i
    <3>1. PICK u \in Threads : /\ pcgs_lock = u
                               /\ \/ pc[u] = "blocked"
                                  \/ pc[u] = "block" /\ b < loc[u].i
                                  \/ pc[u] = "unblock" /\ b >= loc[u].i
      BY <1>1, <2>2 DEF Outside, PcgsOK, BlockedIsUnblocked
    <3>2. u # t
      BY <1>1, <3>1 DEF Outside, PcgsPCs
    <3> QED
      BY <1>1, <1>m, <3>1, <3>2 DEF Outside, Moved
  <2> QED
    BY <1>0, <1>1, <2>1, <2>2 DEF PcgsOK, BlockedIsUnblocked, Outside
<1>2. CASE PcgsLock(t)
  <2>1. \A b \in Buckets : ~pcf_block'[b]
    BY <1>0, <1>2 DEF PcgsLock, PcgsOK, BlockedIsUnblocked, pcf
  <2>2. pc'[t] = "block" /\ pcgs_lock' = t /\ pcf_block' = pcf_block /\ pcgs_lock = None
    BY <1>0, <1>2 DEF PcgsLock, Goto, pcf
  <2>3. \A u \in Threads : pc'[u] \in PcgsPCs <=> pcgs_lock' = u
    BY <1>0, <1>m, <1>h, <2>2 DEF Moved, PcgsPCs
  <2> QED
    BY <1>0, <2>1, <2>2, <2>3 DEF PcgsOK, BlockedIsUnblocked
<1>3. CASE PcgsBlock(t)
  <2>1. pc[t] = "block" /\ pcgs_lock = t /\ pcgs_lock' = t
    BY <1>0, <1>3, <1>h DEF PcgsBlock, PcgsPCs
  <2>2. /\ pcf_block' \in [Buckets -> BOOLEAN]
        /\ \A b \in Buckets : pcf_block'[b] => b = loc[t].i \/ pcf_block[b]
    BY <1>0, <1>3 DEF PcgsBlock
  <2>3. \/ pc'[t] = "block" /\ loc'[t].i = loc[t].i + 1
        \/ pc'[t] = "blocked"
    BY <1>0, <1>3, <2>1 DEF PcgsBlock, NextBucket, Goto, Set, LocType
  <2>4. \A u \in Threads : pc'[u] \in PcgsPCs <=> pcgs_lock' = u
    BY <1>m, <1>h, <2>1, <2>3 DEF Moved, PcgsPCs
  <2>5. ASSUME NEW b \in Buckets, pcf_block'[b]
        PROVE  pc'[t] = "blocked" \/ (pc'[t] = "block" /\ b < loc'[t].i)
    <3>1. b = loc[t].i \/ b < loc[t].i
      BY <2>1, <2>2, <2>5 DEF PcgsOK, BlockedIsUnblocked
    <3>2. b \in Nat /\ loc[t].i \in Nat
      BY <1>0
    <3> QED
      BY <2>3, <3>1, <3>2
  <2> QED
    BY <2>1, <2>2, <2>4, <2>5 DEF PcgsOK, BlockedIsUnblocked
<1>4. CASE PcgsGet(t)
  <2>1. pc[t] = "blocked" /\ pcgs_lock = t /\ pcgs_lock' = t /\ pcf_block' = pcf_block
    BY <1>0, <1>4, <1>h DEF PcgsGet, PcgsPCs, pcf
  <2>2. pc'[t] = "unblock" /\ loc'[t].i = 1
    <3>1. loc[t].i = 1
      BY <2>1 DEF Shape
    <3> QED
      BY <1>0, <1>4, <3>1 DEF PcgsGet, Goto, Set, LocType
  <2>3. \A u \in Threads : pc'[u] \in PcgsPCs <=> pcgs_lock' = u
    BY <1>m, <1>h, <2>1, <2>2 DEF Moved, PcgsPCs
  <2>4. \A b \in Buckets : b >= loc'[t].i
    BY <2>2 DEF Buckets
  <2> QED
    BY <1>0, <2>1, <2>2, <2>3, <2>4 DEF PcgsOK, BlockedIsUnblocked
<1>5. CASE PcgsUnblock(t)
  <2>1. pc[t] = "unblock" /\ pcgs_lock = t
    BY <1>0, <1>5, <1>h DEF PcgsUnblock, PcgsPCs
  <2>2. /\ pcf_block' \in [Buckets -> BOOLEAN]
        /\ \A b \in Buckets : pcf_block'[b] => b # loc[t].i /\ pcf_block[b]
    BY <1>0, <1>5 DEF PcgsUnblock, Unblocked
  <2>3. \/ pc'[t] = "unblock" /\ loc'[t].i = loc[t].i + 1 /\ pcgs_lock' = t /\ loc[t].i # PCF_FANOUT
        \/ pc'[t] = "get" /\ pcgs_lock' = None /\ loc[t].i = PCF_FANOUT
    <3>1. loc[t].i < PCF_FANOUT \/ loc[t].i = PCF_FANOUT
      BY <1>0 DEF Buckets
    <3> QED
      BY <1>0, <1>5, <2>1, <3>1 DEF PcgsUnblock, NextBucket, Goto, Set, LocType
  <2>4. \A u \in Threads : pc'[u] \in PcgsPCs <=> pcgs_lock' = u
    BY <1>0, <1>m, <1>h, <2>1, <2>3 DEF Moved, PcgsPCs
  <2>5. ASSUME NEW b \in Buckets, pcf_block'[b]
        PROVE  pcgs_lock' = t /\ pc'[t] = "unblock" /\ b >= loc'[t].i
    <3>1. b # loc[t].i /\ b >= loc[t].i
      BY <2>1, <2>2, <2>5 DEF PcgsOK, BlockedIsUnblocked
    <3>2. b <= PCF_FANOUT /\ b \in Nat /\ loc[t].i \in Nat /\ PCF_FANOUT \in Nat
      BY <1>0 DEF Buckets
    <3> QED
      BY <2>3, <3>1, <3>2
  <2>6. pcgs_lock' \in Threads \cup {None}
    BY <2>3
  <2> QED
    BY <2>2, <2>4, <2>5, <2>6 DEF PcgsOK, BlockedIsUnblocked
<1> QED
  BY <1>1, <1>2, <1>3, <1>4, <1>5, OutsideSteps DEF Inside

-----------------------------------------------------------------------
(* The invariant holds. *)

(* The pages that the threads hold are never fewer than none. *)
LEMMA HeldNat ==
  ASSUME NEW l \in [Threads -> LocType]
  PROVE  /\ Sum([t \in Threads |-> l[t].npp], Threads) \in Nat
         /\ Sum([t \in Threads |-> l[t].plist], Threads) \in Nat
<1>0. IsFiniteSet(Threads) /\ \A t \in Threads : l[t].npp \in Nat /\ l[t].plist \in Nat
  BY FreeMemAssumption DEF LocType
<1>1. \A t \in Threads : /\ [u \in Threads |-> l[u].npp][t] \in Nat
                         /\ [u \in Threads |-> l[u].plist][t] \in Nat
  BY <1>0
<1> QED
  BY <1>0, <1>1, SumNat

(* At first all pages are on the lists and counted in the first bucket. *)
LEMMA InvInit ==
  ASSUME Init
  PROVE  Inv
<1>0. /\ IsFiniteSet(Threads) /\ None \notin Threads /\ NPages \in Nat /\ MaxWait \in Nat
      /\ PCF_FANOUT \in Nat \ {0} /\ 1 \in Buckets /\ Buckets \subseteq Nat /\ IsFiniteSet(Buckets)
      /\ DOMAIN After = {"va_slept", "wait_slept", "reclaim_slept"}
  <2>1. DOMAIN After = {"va_slept", "wait_slept", "reclaim_slept"}
    BY DEF After
  <2> QED
    BY <2>1, FreeMemAssumption, FS_Interval DEF Buckets
<1>1. TypeOK
  <2>1. Fresh \in [n : Nat, wait : BOOLEAN, excl : BOOLEAN, large : BOOLEAN, left : Nat, found : Nat,
                   npp : {0, 1}, plist : Nat, i : Buckets, which : BOOLEAN]
    BY <1>0 DEF Fresh
  <2>2. pcf_count \in [Buckets -> Nat] /\ pcf_wait \in [Buckets -> 0..MaxWait] /\ pcf_reserve \in [Buckets -> Nat]
    BY <1>0 DEF Init
  <2> QED
    BY <1>0, <2>1, <2>2 DEF Init, TypeOK
<1>2. \A t \in Threads : Shape(t)
  <2>1. \A t \in Threads : pc[t] = "run" /\ loc[t] = Fresh
    BY DEF Init
  <2>2. Empty(Fresh)
    BY DEF Empty, Fresh
  <2> QED
    BY <2>1, <2>2 DEF Shape
<1>3. /\ \A t \in Threads : pc[t] = "run" /\ loc[t].npp = 0 /\ loc[t].plist = 0
      /\ \A t \in Threads : Claimed(t) = 0 /\ Uncounted(t) = 0
  BY DEF Init, Fresh, Claimed, Uncounted
<1>4. At("destroy") = {} /\ At("reclaim") = {} /\ Sleeping = {}
  BY <1>0, <1>3 DEF At, Sleeping
<1>5. Destroyed = 0 /\ Busy = 0 /\ Cardinality(Sleeping) = 0 /\ Cardinality(freemem_cv) = 0 /\ freemem_cv = {}
  BY <1>4, FS_EmptySet DEF Destroyed, Busy, Init
<1>6. NppSum = 0
  <2>1. \A t \in Threads : [u \in Threads |-> loc[u].npp][t] = 0
    BY <1>3
  <2> QED
    BY <1>0, <2>1, SumZero DEF NppSum, SumLoc, Npp
<1>7. PlistSum = 0
  <2>1. \A t \in Threads : [u \in Threads |-> loc[u].plist][t] = 0
    BY <1>3
  <2> QED
    BY <1>0, <2>1, SumZero DEF PlistSum, SumLoc, Plist
<1>8. ClaimedSum = 0 /\ UncountedSum = 0
  <2>1. \A t \in Threads : [u \in Threads |-> Claimed(u)][t] = 0 /\ [u \in Threads |-> Uncounted(u)][t] = 0
    BY <1>3
  <2>2. /\ Sum([u \in Threads |-> Claimed(u)], Threads) = 0
        /\ Sum([u \in Threads |-> Uncounted(u)], Threads) = 0
    BY <1>0, <2>1, SumZero
  <2> QED
    BY <2>2 DEF ClaimedSum, UncountedSum, SumLoc
<1>9. CountIn(Buckets) = NPages /\ Reserved = 0
  <2>1. /\ pcf_reserve \in [Buckets -> Nat] /\ pcf_count \in [Buckets -> Nat]
        /\ \A b \in Buckets : pcf_reserve[b] = 0 /\ pcf_count[1] = NPages /\ pcf_reserve[1] = 0
        /\ \A b \in Buckets \ {1} : pcf_count[b] = pcf_reserve[b]
    BY <1>0 DEF Init
  <2>2. Sum(pcf_reserve, Buckets) = 0
    BY <1>0, <2>1, SumZero
  <2>3. Sum(pcf_count, Buckets) = Sum(pcf_reserve, Buckets) - pcf_reserve[1] + pcf_count[1]
    BY <1>0, <2>1, BucketChange
  <2>4. pcf_count[1] = NPages /\ pcf_reserve[1] = 0
    BY <1>0, <2>1
  <2> QED
    BY <1>0, <2>2, <2>3, <2>4 DEF CountIn, Reserved
<1>10. PagesOK
  <2>1. Present = NPages
    BY <1>0, <1>5, <1>6 DEF Present, Init, NppSum, Destroyed
  <2>2. Promised = NPages
    BY <1>0, <1>8, <1>9 DEF Promised, ClaimedSum, UncountedSum
  <2> QED
    BY <1>0, <1>5, <1>6, <1>7, <2>1, <2>2 DEF PagesOK, Init
<1>11. WaitOK
  <2>1. \A b \in Buckets : pcf_wait[b] = 0
    BY DEF Init
  <2>2. freemem_wait = Cardinality(Sleeping)
    BY <1>5 DEF Init
  <2> QED
    BY <1>5, <2>1, <2>2 DEF WaitOK, WaitersCounted, Sleeping
<1>12. PcgsOK
  BY <1>0, <1>3 DEF Init, PcgsOK, BlockedIsUnblocked, PcgsPCs
<1> QED
  BY <1>1, <1>2, <1>10, <1>11, <1>12 DEF Inv

(* Every step keeps the invariant. *)
LEMMA InvNext ==
  ASSUME Inv, [Next]_vars
  PROVE  Inv'
<1>1. CASE UNCHANGED vars
  BY <1>1 DEF Inv, vars, pcf, cvars, TypeOK, Shape, PagesOK, WaitOK, PcgsOK, Present, Promised, NppSum, PlistSum,
     Destroyed, Busy, SumLoc, Npp, Plist, Claimed, Uncounted, CountIn, Reserved, At, WaitersCounted,
     Sleeping, BlockedIsUnblocked
<1>2. ASSUME NEW t \in Threads, Call(t) \/ Step(t)
      PROVE  Inv'
  <2>1. TypeOK /\ (\A u \in Threads : Shape(u)) /\ PagesOK /\ WaitOK /\ PcgsOK
    BY DEF Inv
  <2>2. Moved(t)
    BY <1>2, <2>1, StepMoves
  <2>3. \A u \in Threads : Shape(u)'
    <3>1. Shape(t)'
      BY <1>2, <2>1, StepShape
    <3>2. ASSUME NEW u \in Threads \ {t} PROVE Shape(u)'
      <4>1. pc'[u] = pc[u] /\ loc'[u] = loc[u] /\ Shape(u)
        BY <2>1, <2>2 DEF Moved
      <4> QED
        BY <4>1 DEF Shape
    <3> QED
      BY <3>1, <3>2
  <2>4. PagesOK' /\ PcfTypes' /\ lists' \in Int
    BY <1>2, <2>1, PagesNext
  <2>5. WaitOK' /\ pcf_wait' \in [Buckets -> 0..MaxWait] /\ freemem_wait' \in Nat /\ freemem_cv' \subseteq Threads
    BY <1>2, <2>1, WaitNext
  <2>6. PcgsOK' /\ pcf_block' \in [Buckets -> BOOLEAN] /\ pcgs_lock' \in Threads \cup {None}
    BY <1>2, <2>1, PcgsNext
  <2>7. lists' \in 0..NPages
    <3>1. loc' \in [Threads -> LocType]
      BY <2>2 DEF Moved
    <3>2. /\ NppSum' = Sum([u \in Threads |-> loc'[u].npp], Threads)
          /\ PlistSum' = Sum([u \in Threads |-> loc'[u].plist], Threads)
      BY DEF NppSum, PlistSum, SumLoc, Npp, Plist
    <3>3. NppSum' \in Nat /\ PlistSum' \in Nat
      BY <3>1, <3>2, HeldNat
    <3>4. Busy' \in Nat /\ Destroyed' \in Nat
      BY <2>1, <2>2, PlaceDeltas
    <3>5. lists' + NppSum' + Destroyed' + PlistSum' <= NPages /\ Busy' <= lists'
      BY <2>4 DEF PagesOK
    <3>6. NPages \in Nat
      BY FreeMemAssumption
    <3>7. \A l \in Int, a, b, c, d \in Nat : l + a + b + c <= NPages /\ d <= l => l \in 0..NPages
      BY <3>6
    <3> QED
      BY <2>4, <3>3, <3>4, <3>5, <3>6, <3>7
  <2>8. TypeOK'
    <3>1. DOMAIN After = {"va_slept", "wait_slept", "reclaim_slept"}
      BY DEF After
    <3>2. pc' \in [Threads -> {"run", "va", "wait", "get", "pcgs", "block", "blocked", "unblock", "undo",
                         "account", "over", "reclaim", "destroy", "large", "putback", "putadd"} \cup DOMAIN After]
      BY <2>2, <3>1 DEF Moved, PCs
    <3> QED
      BY <2>2, <2>4, <2>5, <2>6, <2>7, <3>2 DEF TypeOK, PcfTypes, Moved, LocType
  <2> QED
    BY <2>3, <2>4, <2>5, <2>6, <2>8 DEF Inv
<1> QED
  BY <1>1, <1>2 DEF Next

(* The inductive invariant holds of every behaviour of the free page       *)
(* accounting.                                                             *)
THEOREM FreeMemInv == Spec => []Inv
<1>1. Init => Inv
  BY InvInit
<1>2. Inv /\ [Next]_vars => Inv'
  BY InvNext
<1> QED
  BY <1>1, <1>2, PTL DEF Spec

(* No more pages are promised than there are, for any number of threads,   *)
(* buckets, pages and sizes of requests: pcf_count, pcf_reserve and the    *)
(* claims of page_create_va() together never exceed the pages on the lists *)
(* and in the hands of those who will put them back.                       *)
THEOREM FreeMemPagesCovered == Spec => []PagesCovered
<1>1. Inv => PagesCovered
  <2> SUFFICES ASSUME Inv PROVE PagesCovered
    OBVIOUS
  <2>1. TypeOK /\ Present >= Promised
    BY DEF Inv, PagesOK
  <2>2. ASSUME NEW t \in Threads PROVE Claimed(t) >= 0
    <3>1. loc[t] \in LocType /\ pc[t] \in PCs
      BY <2>1, Typing
    <3>2. Shape(t)
      BY DEF Inv
    <3>3. loc[t].n \in Nat /\ loc[t].left \in Nat /\ loc[t].found \in Nat
      BY <3>1 DEF LocType
    <3>4. DOMAIN After = {"va_slept", "wait_slept", "reclaim_slept"}
      BY DEF After
    <3> QED
      BY <3>1, <3>2, <3>3, <3>4 DEF Claimed, Shape, Empty, Given, PutsBack, PCs
  <2> QED
    BY <2>1, <2>2 DEF PagesCovered
<1> QED
  BY <1>1, FreeMemInv, PTL

(* Nobody who sleeps for memory is passed over: every bucket counts every  *)
(* sleeper, whatever the wakeups of other buckets did, and a bucket that   *)
(* page_create_get_something() blocked is one it will unblock.             *)
THEOREM FreeMemCountsSound == Spec => []CountsSound
<1>1. Inv => CountsSound
  BY DEF Inv, WaitOK, PcgsOK, CountsSound
<1> QED
  BY <1>1, FreeMemInv, PTL
=======================================================================
