-------------------------- MODULE MutexProofs --------------------------
(***************************************************************************)
(* Theorems about Mutex, for any number of threads, mutexes, turnstiles    *)
(* and priorities: a turnstile serves one mutex, who inherits through it   *)
(* will waive it and keeps what it inherits till then, and no wakeup is    *)
(* lost.                                                                   *)
(*                                                                         *)
(* What carries the argument is the discipline of ts_wlock: it is held     *)
(* from step to step at known places of the code (LockOK), and a           *)
(* turnstile's queue, its mutex and its pirec change under it only.        *)
(***************************************************************************)
EXTENDS Mutex, SleepQProofs

-----------------------------------------------------------------------
(* The inductive invariant. *)

(* The places where actor a holds the disp lock of turnstile s. *)
Locks(a, s) ==
  \/ pc[a] \in {"recheck", "free", "dfree"} /\ ts[a] = s
  \/ pc[a] \in {"pi", "pilock"} /\ t_ts[waiter[a]] = s
LockOK == \A s \in Turnstiles, a \in Actors : ts_wlock[s] = a <=> Locks(a, s)

(* Thread b owns the mutex of turnstile s, or is on its way out of it and  *)
(* will find the turnstile.                                                *)
Serves(b, s) ==
  \/ owner[ts_sobj[s]] = b
  \/ /\ lp[b] = ts_sobj[s]
     /\ pc[b] = "exit" \/ (pc[b] \in {"release", "destroy", "dfree"} /\ ts[b] = s)

(* What holds of actor a at each place: which mutex it is busy with, what  *)
(* it has seen of the owner, where it can be asleep, and whose turnstile   *)
(* it has locked.                                                          *)
ActorOK(a) ==
  /\ waiter[a] # None => pc[a] \in {"pi", "pilock", "free"}
  /\ pc[a] \in {"pi", "pilock"} => waiter[a] # None /\ t_ts[waiter[a]] # None
  /\ pc[a] = "free" => ts_sobj[ts[a]] # None
PlaceOK(t) ==
  /\ pc[t] = "run" <=> lp[t] = None
  /\ pc[t] \in {"look", "alloc", "verify", "recheck"} => owner_lock[t] # None
  /\ t_ts[t] # None => pc[t] \in {"pi", "pilock", "swtch"} \/ (pc[t] = "free" /\ waiter[t] # None)
  /\ pc[t] = "pilock" => powner[t] # None /\ Serves(powner[t], t_ts[waiter[t]])
  /\ pc[t] \in {"recheck", "dfree"} => ts_sobj[ts[t]] = lp[t]
ClockOK == pc[Clock] \in {"run", "free"}

(* Nobody is inside mutex_enter() for a mutex that is being destroyed. *)
DestroyOK ==
  \A t, u \in Threads : pc[t] \in {"destroy", "dfree"} => ~Entering(u, lp[t])

(* The parts of TurnstileSound. *)
AttachOK ==
  /\ \A m \in Mutexes : \A s \in Turnstiles : m_waiters[m] = s <=> ts_sobj[s] = m
  /\ \A s \in Turnstiles : s \in tsp_list <=> ts_sobj[s] = None
  /\ \A s \in Turnstiles : s \in tsp_list => pi_benef[s] = None
  /\ \A t \in Threads : t_ts[t] # None => ts_sobj[t_ts[t]] = lp[t]
QueueOK ==
  \A s \in Turnstiles :
    /\ Distinct(ts_sleepq[s])
    /\ \A t \in Threads : OnQueue(ts_sleepq[s], t) <=> t_ts[t] = s
BenefOK == \A s \in Turnstiles : pi_benef[s] # None => Serves(pi_benef[s], s)

Inv ==
  /\ TypeOK
  /\ \A a \in Actors : ActorOK(a)
  /\ \A t \in Threads : PlaceOK(t)
  /\ ClockOK /\ LockOK /\ DestroyOK
  /\ AttachOK /\ QueueOK /\ BenefOK

-----------------------------------------------------------------------
(* Types. *)

Idle == {"run", "spin", "look", "alloc", "verify", "swtch", "try", "exit", "release", "destroy"}
PCs == EnterPCs \cup {"run", "exit", "release", "free", "destroy", "dfree"}

(* What the invariant says of the types, as the provers use it. *)
LEMMA Typing ==
  ASSUME TypeOK
  PROVE  /\ owner \in [Mutexes -> Threads \cup {None}] /\ m_waiters \in [Mutexes -> Turnstiles \cup {None}]
         /\ ts_sobj \in [Turnstiles -> Mutexes \cup {None}] /\ ts_sleepq \in [Turnstiles -> Seq(Threads)]
         /\ pi_benef \in [Turnstiles -> Threads \cup {None}] /\ pi_epri_hi \in [Turnstiles -> Nat]
         /\ ts_wlock \in [Turnstiles -> Actors \cup {None}] /\ t_ts \in [Threads -> Turnstiles \cup {None}]
         /\ t_epri \in [Threads -> Nat] /\ pc \in [Actors -> PCs] /\ lp \in [Threads -> Mutexes \cup {None}]
         /\ owner_lock \in [Threads -> Threads \cup {None}] /\ powner \in [Threads -> Threads \cup {None}]
         /\ ts \in [Actors -> Turnstiles \cup {None}] /\ waiter \in [Actors -> Threads \cup {None}]
         /\ Threads \subseteq Actors /\ Clock \in Actors /\ Clock \notin Threads
         /\ None \notin Actors /\ None \notin Mutexes /\ None \notin Turnstiles /\ None \notin Threads
BY MutexAssumption DEF TypeOK, Actors, PCs

(* The dispatch priorities are priorities. *)
LEMMA PrioType ==
  ASSUME NEW e \in [Threads -> Nat]
  PROVE  DispPrio(Pri, e) \in [Threads -> Nat]
BY MutexAssumption DEF DispPrio

(* A finite set of naturals has a greatest element. *)
LEMMA GreatestNatural ==
  ASSUME NEW S \in SUBSET Nat, IsFiniteSet(S), S # {}
  PROVE  \E x \in S : \A y \in S : y <= x
<1> DEFINE HasMax(T) == \E x \in T : \A y \in T : y <= x
           Bad == {T \in SUBSET S : T # {} /\ ~HasMax(T)}
           C == {Cardinality(T) : T \in Bad}
<1> SUFFICES ASSUME Bad # {} PROVE FALSE
  OBVIOUS
<1>1. \A T \in Bad : IsFiniteSet(T) /\ Cardinality(T) \in Nat
  BY FS_Subset, FS_CardinalityType
<1>2. C \in SUBSET Nat /\ C # {}
  BY <1>1
<1>3. PICK i \in C : \A j \in C : i <= j
  <2> HIDE DEF C
  <2> QED
    BY <1>2, LeastNatural
<1>4. PICK T \in Bad : Cardinality(T) = i
  BY <1>3
<1>5. PICK x \in T : TRUE
  BY <1>4
<1>6. Cardinality(T \ {x}) = Cardinality(T) - 1 /\ T \ {x} \in SUBSET S /\ Cardinality(T) \in Nat
  BY <1>1, <1>4, FS_RemoveElement
<1>7. T \ {x} \notin Bad
  <2> SUFFICES ASSUME T \ {x} \in Bad PROVE FALSE
    OBVIOUS
  <2>1. Cardinality(T \ {x}) \in C
    OBVIOUS
  <2> HIDE DEF C, Bad
  <2> QED
    BY <1>3, <1>4, <1>6, <2>1
<1>8. CASE T \ {x} = {}
  BY <1>4, <1>5, <1>8
<1>9. CASE T \ {x} # {}
  <2>1. PICK z \in T \ {x} : \A y \in T \ {x} : y <= z
    BY <1>6, <1>7, <1>9
  <2>2. x \in Nat /\ z \in Nat /\ \A y \in T : y \in Nat
    BY <1>4
  <2>3. CASE x <= z
    BY <2>1, <2>2, <2>3, <1>4
  <2>4. CASE z <= x
    <3>1. \A y \in T : y <= x
      BY <2>1, <2>2, <2>4
    <3> QED
      BY <3>1, <1>4
  <2> QED
    BY <2>2, <2>3, <2>4
<1> QED
  BY <1>8, <1>9

(* pirec_calcpri(): what a thread still inherits is a priority, not less   *)
(* than its own or what any other record says.                             *)
LEMMA CalcPriNat ==
  ASSUME TypeOK, NEW s \in Turnstiles, pi_benef[s] # None
  PROVE  /\ CalcPri(s) \in Nat
         /\ Others(s) # {} => CalcPri(s) >= Pri[pi_benef[s]]
         /\ \A r \in Others(s) : CalcPri(s) >= pi_epri_hi[r]
<1>1. CASE Others(s) = {}
  BY <1>1 DEF CalcPri
<1>2. CASE Others(s) # {}
  <2> DEFINE P == {Pri[pi_benef[s]]} \cup {pi_epri_hi[r] : r \in Others(s)}
  <2>1. pi_benef[s] \in Threads /\ Pri[pi_benef[s]] \in Nat /\ Others(s) \subseteq Turnstiles
    BY Typing, MutexAssumption DEF Others
  <2>2. \A r \in Others(s) : pi_epri_hi[r] \in Nat
    BY <2>1, Typing
  <2>3. P \in SUBSET Nat /\ P # {}
    BY <2>1, <2>2
  <2>4. IsFiniteSet(P)
    <3>1. IsFiniteSet(Others(s))
      BY <2>1, MutexAssumption, FS_Subset
    <3>2. IsFiniteSet({pi_epri_hi[r] : r \in Others(s)})
      <4> DEFINE f == [r \in Others(s) |-> pi_epri_hi[r]]
      <4>1. f \in Surjection(Others(s), {pi_epri_hi[r] : r \in Others(s)})
        BY DEF Surjection
      <4> QED
        BY <3>1, <4>1, FS_Surjection
    <3>3. IsFiniteSet({Pri[pi_benef[s]]})
      BY FS_Singleton
    <3> QED
      BY <3>2, <3>3, FS_Union
  <2>5. \E x \in P : \A y \in P : y <= x
    <3> HIDE DEF P
    <3> QED
      BY <2>3, <2>4, GreatestNatural
  <2>6. \E p \in P : p >= Pri[pi_benef[s]] /\ \A r \in Others(s) : p >= pi_epri_hi[r]
    <3>1. PICK x \in P : \A y \in P : y <= x
      BY <2>5
    <3>2. x \in Nat /\ Pri[pi_benef[s]] <= x /\ \A r \in Others(s) : pi_epri_hi[r] <= x
      BY <2>3, <3>1
    <3> QED
      BY <2>1, <2>2, <3>1, <3>2
  <2>7. /\ CalcPri(s) \in P /\ CalcPri(s) >= Pri[pi_benef[s]]
        /\ \A r \in Others(s) : CalcPri(s) >= pi_epri_hi[r]
    BY <1>2, <2>6, Zenon DEF CalcPri
  <2> QED
    BY <2>3, <2>7
<1> QED
  BY <1>1, <1>2

-----------------------------------------------------------------------
(* The sleep queues. *)

(* A family of queues, each without duplicates. *)
Queues(q) == q \in [Turnstiles -> Seq(Threads)] /\ \A s \in Turnstiles : Distinct(q[s])
SameQueues(q, r) == \A s \in Turnstiles : \A x : OnQueue(q[s], x) <=> OnQueue(r[s], x)

(* A change of priority moves the thread within its queue. *)
LEMMA ChangePriKeeps ==
  ASSUME TypeOK, NEW q, Queues(q), NEW t \in Threads, NEW p \in Nat, ChangePri(q, t, p),
         t_ts[t] # None => OnQueue(q[t_ts[t]], t)
  PROVE  Queues(ts_sleepq') /\ SameQueues(ts_sleepq', q) /\ t_epri' \in [Threads -> Nat]
<1>0. t_epri' = [t_epri EXCEPT ![t] = p] /\ t_epri' \in [Threads -> Nat]
  BY Typing DEF ChangePri
<1>1. CASE t_ts[t] = None
  BY <1>0, <1>1 DEF ChangePri, Asleep, SameQueues
<1>2. CASE t_ts[t] # None
  <2>1. PICK s \in Turnstiles : s = t_ts[t]
    BY <1>2, Typing
  <2>2. PICK e \in [Threads -> Nat] : e = [t_epri EXCEPT ![t] = p]
    BY Typing
  <2>3. q[s] \in Seq(Threads) /\ Distinct(q[s]) /\ OnQueue(q[s], t)
    BY <1>2, <2>1 DEF Queues
  <2>4. PICK d : d = SleepqDequeue(q[s], t)
    OBVIOUS
  <2>5. d \in Seq(Threads) /\ Distinct(d) /\ \A x : OnQueue(d, x) <=> (OnQueue(q[s], x) /\ x # t)
    BY <2>3, <2>4, DequeueRemoves
  <2>6. DispPrio(Pri, e) \in [Threads -> Nat]
    BY PrioType
  <2>7. PICK i : i = SleepqInsert(d, t, DispPrio(Pri, e))
    OBVIOUS
  <2>8. i \in Seq(Threads) /\ Distinct(i) /\ \A x : OnQueue(i, x) <=> (OnQueue(d, x) \/ x = t)
    BY <2>5, <2>6, <2>7, InsertAdds
  <2>9. ts_sleepq' = [q EXCEPT ![s] = i]
    BY <1>2, <2>1, <2>2, <2>4, <2>7 DEF ChangePri, Asleep
  <2>10. Queues(ts_sleepq')
    BY <2>8, <2>9 DEF Queues
  <2>11. SameQueues(ts_sleepq', q)
    <3>1. \A r \in Turnstiles : ts_sleepq'[r] = IF r = s THEN i ELSE q[r]
      BY <2>9 DEF Queues
    <3>2. \A x : OnQueue(i, x) <=> OnQueue(q[s], x)
      BY <2>3, <2>5, <2>8
    <3> QED
      BY <3>1, <3>2 DEF SameQueues
  <2> QED
    BY <1>0, <2>10, <2>11
<1> QED
  BY <1>1, <1>2

(* pi_waive() takes the beneficiary off the turnstile's record. *)
LEMMA PiWaiveKeeps ==
  ASSUME TypeOK, NEW q, Queues(q), NEW s \in Turnstiles, pi_benef[s] # None, PiWaive(q, s),
         t_ts[pi_benef[s]] # None => OnQueue(q[t_ts[pi_benef[s]]], pi_benef[s])
  PROVE  /\ Queues(ts_sleepq') /\ SameQueues(ts_sleepq', q) /\ t_epri' \in [Threads -> Nat]
         /\ pi_benef' = [pi_benef EXCEPT ![s] = None]
         /\ pi_benef' \in [Turnstiles -> Threads \cup {None}] /\ pi_epri_hi' \in [Turnstiles -> Nat]
<1>1. CalcPri(s) \in Nat /\ pi_benef[s] \in Threads
  BY CalcPriNat, Typing
<1>2. /\ pi_benef' = [pi_benef EXCEPT ![s] = None]
      /\ pi_benef' \in [Turnstiles -> Threads \cup {None}] /\ pi_epri_hi' \in [Turnstiles -> Nat]
  BY Typing DEF PiWaive
<1>3. CASE ChangePri(q, pi_benef[s], CalcPri(s))
  BY <1>1, <1>2, <1>3, ChangePriKeeps
<1>4. CASE ts_sleepq' = q /\ UNCHANGED t_epri
  BY <1>2, <1>4, Typing DEF SameQueues
<1> QED
  BY <1>3, <1>4 DEF PiWaive

(* A queue that has the same threads as before, in whatever order. *)
LEMMA QueuesSame ==
  ASSUME QueueOK, Queues(ts_sleepq'), SameQueues(ts_sleepq', ts_sleepq), UNCHANGED t_ts
  PROVE  QueueOK'
BY DEF QueueOK, Queues, SameQueues

(* The invariant's queues, and where a thread is on one. *)
LEMMA QueuesOfInv ==
  ASSUME TypeOK, QueueOK
  PROVE  /\ Queues(ts_sleepq)
         /\ \A t \in Threads : t_ts[t] # None => OnQueue(ts_sleepq[t_ts[t]], t)
         /\ \A s \in Turnstiles : \A x : OnQueue(ts_sleepq[s], x) => x \in Threads /\ t_ts[x] = s
<1>1. Queues(ts_sleepq)
  BY Typing DEF Queues, QueueOK
<1>2. ASSUME NEW t \in Threads, t_ts[t] # None PROVE OnQueue(ts_sleepq[t_ts[t]], t)
  BY <1>2, Typing DEF QueueOK
<1>3. ASSUME NEW s \in Turnstiles, NEW x, OnQueue(ts_sleepq[s], x) PROVE x \in Threads /\ t_ts[x] = s
  <2>1. ts_sleepq[s] \in Seq(Threads)
    BY Typing
  <2>2. x \in Threads
    BY <1>3, <2>1 DEF OnQueue
  <2> QED
    BY <1>3, <2>2 DEF QueueOK
<1> QED
  BY <1>1, <1>2, <1>3

(* t_block() puts the thread on the queue of its turnstile. *)
LEMMA TBlockKeeps ==
  ASSUME TypeOK, QueueOK, NEW t \in Threads, t_ts[t] = None, NEW s \in Turnstiles, TBlock(t, s)
  PROVE  QueueOK' /\ ts_sleepq' \in [Turnstiles -> Seq(Threads)] /\ t_ts' \in [Threads -> Turnstiles \cup {None}]
<1>1. ts_sleepq \in [Turnstiles -> Seq(Threads)] /\ t_ts \in [Threads -> Turnstiles \cup {None}] /\ None \notin Turnstiles
  BY Typing
<1>2. Prio \in [Threads -> Nat]
  BY Typing, PrioType DEF Prio
<1>3. PICK i : i = SleepqInsert(ts_sleepq[s], t, Prio)
  OBVIOUS
<1>4. ~OnQueue(ts_sleepq[s], t) /\ Distinct(ts_sleepq[s]) /\ ts_sleepq[s] \in Seq(Threads)
  BY <1>1 DEF QueueOK
<1>5. i \in Seq(Threads) /\ Distinct(i) /\ \A x : OnQueue(i, x) <=> (OnQueue(ts_sleepq[s], x) \/ x = t)
  BY <1>2, <1>3, <1>4, InsertAdds
<1>6. ts_sleepq' = [ts_sleepq EXCEPT ![s] = i] /\ t_ts' = [t_ts EXCEPT ![t] = s]
  BY <1>3 DEF TBlock
<1>7. \A r \in Turnstiles : ts_sleepq'[r] = IF r = s THEN i ELSE ts_sleepq[r]
  BY <1>1, <1>6
<1>8. \A u \in Threads : t_ts'[u] = IF u = t THEN s ELSE t_ts[u]
  BY <1>1, <1>6
<1>9. QueueOK'
  <2> SUFFICES ASSUME NEW r \in Turnstiles
               PROVE  /\ Distinct(ts_sleepq'[r])
                      /\ \A u \in Threads : OnQueue(ts_sleepq'[r], u) <=> t_ts'[u] = r
    BY DEF QueueOK
  <2>1. CASE r = s
    BY <1>1, <1>5, <1>7, <1>8, <2>1 DEF QueueOK
  <2>2. CASE r # s
    <3>1. ~OnQueue(ts_sleepq[r], t)
      BY <1>1 DEF QueueOK
    <3> QED
      BY <1>7, <1>8, <2>2, <3>1 DEF QueueOK
  <2> QED
    BY <2>1, <2>2
<1> QED
  BY <1>1, <1>5, <1>6, <1>9

(* mutex_unsleep() takes it off. *)
LEMMA MutexUnsleepKeeps ==
  ASSUME TypeOK, QueueOK, NEW t \in Threads, t_ts[t] # None, MutexUnsleep(t)
  PROVE  /\ QueueOK' /\ ts_sleepq' \in [Turnstiles -> Seq(Threads)] /\ t_ts' \in [Threads -> Turnstiles \cup {None}]
         /\ \A u \in Threads : t_ts'[u] = IF u = t THEN None ELSE t_ts[u]
<1>1. ts_sleepq \in [Turnstiles -> Seq(Threads)] /\ t_ts \in [Threads -> Turnstiles \cup {None}] /\ None \notin Turnstiles
  BY Typing
<1>2. PICK s \in Turnstiles : s = t_ts[t]
  BY <1>1
<1>3. PICK d : d = SleepqDequeue(ts_sleepq[s], t)
  OBVIOUS
<1>4. OnQueue(ts_sleepq[s], t) /\ Distinct(ts_sleepq[s]) /\ ts_sleepq[s] \in Seq(Threads)
  BY <1>1, <1>2 DEF QueueOK
<1>5. d \in Seq(Threads) /\ Distinct(d) /\ \A x : OnQueue(d, x) <=> (OnQueue(ts_sleepq[s], x) /\ x # t)
  BY <1>3, <1>4, DequeueRemoves
<1>6. ts_sleepq' = [ts_sleepq EXCEPT ![s] = d] /\ t_ts' = [t_ts EXCEPT ![t] = None]
  BY <1>2, <1>3 DEF MutexUnsleep
<1>7. \A r \in Turnstiles : ts_sleepq'[r] = IF r = s THEN d ELSE ts_sleepq[r]
  BY <1>1, <1>6
<1>8. \A u \in Threads : t_ts'[u] = IF u = t THEN None ELSE t_ts[u]
  BY <1>1, <1>6
<1>9. QueueOK'
  <2> SUFFICES ASSUME NEW r \in Turnstiles
               PROVE  /\ Distinct(ts_sleepq'[r])
                      /\ \A u \in Threads : OnQueue(ts_sleepq'[r], u) <=> t_ts'[u] = r
    BY DEF QueueOK
  <2>1. CASE r = s
    BY <1>1, <1>5, <1>7, <1>8, <2>1 DEF QueueOK
  <2>2. CASE r # s
    <3>1. ~OnQueue(ts_sleepq[r], t)
      BY <1>2, <2>2 DEF QueueOK
    <3> QED
      BY <1>1, <1>7, <1>8, <2>2, <3>1 DEF QueueOK
  <2> QED
    BY <2>1, <2>2
<1> QED
  BY <1>1, <1>5, <1>6, <1>8, <1>9

-----------------------------------------------------------------------
(* What a step of actor a leaves alone. *)

(* The places and locals of all others. *)
Frame(a) ==
  /\ \A b \in Actors \ {a} : pc'[b] = pc[b] /\ ts'[b] = ts[b] /\ waiter'[b] = waiter[b]
  /\ \A u \in Threads \ {a} : lp'[u] = lp[u] /\ owner_lock'[u] = owner_lock[u] /\ powner'[u] = powner[u]

(* The turnstiles that others have locked, and who serves those.           *)
Respects(a) ==
  /\ \A s \in Turnstiles : ts_wlock'[s] # ts_wlock[s] => ts_wlock[s] \in {None, a} /\ ts_wlock'[s] \in {None, a}
  /\ \A s \in Turnstiles : ts_wlock[s] \notin {None, a} =>
       /\ ts_sobj'[s] = ts_sobj[s]
       /\ \A u \in Threads : t_ts'[u] = s <=> t_ts[u] = s
       /\ \A u \in Threads : Serves(u, s) => Serves(u, s)'
  /\ \A u \in Threads \ {a} : t_ts'[u] \in {t_ts[u], None}

(* Then the others are still sound, and if a has locked what its place     *)
(* says, so are all locks.                                                 *)
LEMMA OthersNext ==
  ASSUME Inv, NEW a \in Actors, Frame(a), Respects(a), t_ts' \in [Threads -> Turnstiles \cup {None}],
         \A s \in Turnstiles : ts_wlock'[s] = a <=> Locks(a, s)'
  PROVE  /\ LockOK'
         /\ \A b \in Actors \ {a} : ActorOK(b)'
         /\ \A u \in Threads \ {a} : PlaceOK(u)'
         /\ a # Clock => ClockOK'
<1>0. /\ TypeOK /\ LockOK /\ (\A b \in Actors : ActorOK(b)) /\ (\A u \in Threads : PlaceOK(u)) /\ ClockOK
      /\ \A t \in Threads : t_ts[t] # None => ts_sobj[t_ts[t]] = lp[t]
  BY DEF Inv, AttachOK
<1>1. /\ t_ts \in [Threads -> Turnstiles \cup {None}] /\ waiter \in [Actors -> Threads \cup {None}]
      /\ ts \in [Actors -> Turnstiles \cup {None}] /\ ts_wlock \in [Turnstiles -> Actors \cup {None}]
      /\ Threads \subseteq Actors /\ None \notin Turnstiles /\ None \notin Actors /\ None \notin Threads
      /\ powner \in [Threads -> Threads \cup {None}] /\ Clock \in Actors
      /\ pc[a] \in PCs
  BY <1>0, Typing
<1>2. ASSUME NEW b \in Actors \ {a}, pc[b] \in {"pi", "pilock"}
      PROVE  /\ waiter[b] \in Threads /\ t_ts[waiter[b]] \in Turnstiles /\ ts_wlock[t_ts[waiter[b]]] = b
             /\ t_ts'[waiter[b]] = t_ts[waiter[b]] /\ waiter'[b] = waiter[b] /\ pc'[b] = pc[b]
  <2>1. waiter[b] \in Threads /\ t_ts[waiter[b]] \in Turnstiles
    BY <1>0, <1>1, <1>2 DEF ActorOK
  <2>2. ts_wlock[t_ts[waiter[b]]] = b
    BY <1>0, <1>2, <2>1 DEF LockOK, Locks
  <2>3. t_ts'[waiter[b]] = t_ts[waiter[b]]
    BY <1>1, <2>1, <2>2 DEF Respects
  <2> QED
    BY <2>1, <2>2, <2>3 DEF Frame
<1>3. ASSUME NEW b \in Actors \ {a}, NEW s \in Turnstiles PROVE Locks(b, s)' <=> Locks(b, s)
  <2>1. pc'[b] = pc[b] /\ ts'[b] = ts[b] /\ waiter'[b] = waiter[b]
    BY DEF Frame
  <2> QED
    BY <1>2, <2>1 DEF Locks
<1>4. LockOK'
  <2> SUFFICES ASSUME NEW s \in Turnstiles, NEW b \in Actors PROVE ts_wlock'[s] = b <=> Locks(b, s)'
    BY DEF LockOK
  <2>1. CASE b = a
    BY <2>1
  <2>2. CASE b # a
    <3>1. ts_wlock[s] = b <=> Locks(b, s)
      BY <1>0 DEF LockOK
    <3>2. ts_wlock'[s] = b <=> ts_wlock[s] = b
      BY <1>1, <2>2 DEF Respects
    <3> QED
      BY <1>3, <2>2, <3>1, <3>2
  <2> QED
    BY <2>1, <2>2
<1>5. ASSUME NEW b \in Actors \ {a} PROVE ActorOK(b)'
  <2>1. pc'[b] = pc[b] /\ ts'[b] = ts[b] /\ waiter'[b] = waiter[b] /\ ActorOK(b)
    BY <1>0 DEF Frame
  <2>2. ASSUME pc[b] = "free" PROVE ts_sobj'[ts[b]] # None
    <3>1. ts[b] \in Turnstiles
      BY <1>0, <1>1, <2>2 DEF TypeOK
    <3>2. ts_wlock[ts[b]] = b
      BY <1>0, <2>2, <3>1 DEF LockOK, Locks
    <3> QED
      BY <1>1, <2>1, <2>2, <3>1, <3>2 DEF ActorOK, Respects
  <2> QED
    BY <1>1, <1>2, <2>1, <2>2 DEF ActorOK
<1>6. ASSUME NEW u \in Threads \ {a} PROVE PlaceOK(u)'
  <2>1. /\ pc'[u] = pc[u] /\ ts'[u] = ts[u] /\ waiter'[u] = waiter[u] /\ PlaceOK(u)
        /\ lp'[u] = lp[u] /\ owner_lock'[u] = owner_lock[u] /\ powner'[u] = powner[u]
    BY <1>0, <1>1 DEF Frame
  <2>2. t_ts'[u] # None => t_ts[u] # None
    BY DEF Respects
  <2>3. ASSUME pc[u] = "pilock" PROVE powner[u] # None /\ Serves(powner[u], t_ts[waiter[u]])'
    <3>1. powner[u] \in Threads /\ Serves(powner[u], t_ts[waiter[u]])
      BY <1>1, <2>1, <2>3 DEF PlaceOK
    <3>2. /\ t_ts[waiter[u]] \in Turnstiles /\ ts_wlock[t_ts[waiter[u]]] = u
          /\ t_ts'[waiter'[u]] = t_ts[waiter[u]] /\ powner'[u] = powner[u]
      BY <1>1, <1>2, <2>1, <2>3
    <3>3. PICK s \in Turnstiles : s = t_ts[waiter[u]]
      BY <3>2
    <3>4. PICK o \in Threads : o = powner[u]
      BY <3>1
    <3>5. Serves(o, s)'
      BY <1>1, <3>1, <3>2, <3>3, <3>4 DEF Respects
    <3>6. owner'[ts_sobj'[s]] = o \/ (lp'[o] = ts_sobj'[s] /\ (pc'[o] = "exit" \/ (pc'[o] \in {"release", "destroy", "dfree"} /\ ts'[o] = s)))
      BY <3>5 DEF Serves
    <3> QED
      BY <1>1, <3>1, <3>2, <3>3, <3>4, <3>6 DEF Serves
  <2>4. ASSUME pc[u] \in {"recheck", "dfree"} PROVE ts_sobj'[ts[u]] = lp[u]
    <3>1. ts[u] \in Turnstiles
      BY <1>0, <1>1, <2>4 DEF TypeOK
    <3>2. ts_wlock[ts[u]] = u
      BY <1>0, <1>1, <2>4, <3>1 DEF LockOK, Locks
    <3> QED
      BY <1>1, <2>1, <2>4, <3>1, <3>2 DEF PlaceOK, Respects
  <2> QED
    BY <2>1, <2>2, <2>3, <2>4 DEF PlaceOK
<1>7. a # Clock => ClockOK'
  BY <1>0, <1>1 DEF ClockOK, Frame
<1> QED
  BY <1>4, <1>5, <1>6, <1>7

(* Nobody begins to enter a mutex that is being destroyed, or to destroy   *)
(* one that somebody enters.                                               *)
LEMMA DestroyNext ==
  ASSUME TypeOK, DestroyOK, \A u \in Threads : PlaceOK(u),
         NEW t \in Threads, Frame(t), lp'[t] \in Mutexes \cup {None},
         \A m \in Mutexes : Entering(t, m)' => Entering(t, m) \/ ~Destroying(m),
         pc'[t] \in {"destroy", "dfree"} =>
           \/ pc[t] \in {"destroy", "dfree"} /\ lp'[t] = lp[t]
           \/ \A m \in Mutexes : lp'[t] = m => \A u \in Threads : ~Entering(u, m),
         pc'[t] \in {"destroy", "dfree"} => lp'[t] \in Mutexes
  PROVE  DestroyOK'
<1>0. /\ lp \in [Threads -> Mutexes \cup {None}] /\ Threads \subseteq Actors
  BY Typing
<1>1. \A u \in Threads \ {t} : pc'[u] = pc[u] /\ lp'[u] = lp[u] /\ waiter'[u] = waiter[u]
  BY <1>0 DEF Frame
<1>2. \A u \in Threads \ {t} : \A m : Entering(u, m)' <=> Entering(u, m)
  BY <1>1 DEF Entering
<1>3. \A v, u \in Threads : pc[v] \in {"destroy", "dfree"} => ~Entering(u, lp[v])
  BY DEF DestroyOK
<1> SUFFICES ASSUME NEW v \in Threads, NEW u \in Threads, pc'[v] \in {"destroy", "dfree"},
                    lp'[u] = lp'[v], pc'[u] \in EnterPCs \/ (pc'[u] = "free" /\ waiter'[u] # None)
             PROVE  FALSE
  BY DEF DestroyOK, Entering
<1>4. PICK m : m = lp'[v]
  OBVIOUS
<1>5. Entering(u, m)'
  BY <1>4 DEF Entering
<1>6. CASE v # t
  <2>1. pc[v] \in {"destroy", "dfree"} /\ lp[v] = m
    BY <1>1, <1>4, <1>6
  <2>2. CASE u # t
    BY <1>2, <1>3, <1>5, <2>1, <2>2
  <2>3. CASE u = t
    <3>1. m \in Mutexes
      BY <1>0, <2>1 DEF PlaceOK
    <3>2. Destroying(m)
      BY <2>1 DEF Destroying
    <3> QED
      BY <1>3, <1>5, <2>1, <2>3, <3>1, <3>2
  <2> QED
    BY <2>2, <2>3
<1>7. CASE v = t
  <2>1. CASE u = t
    BY <1>7, <2>1 DEF EnterPCs
  <2>2. CASE u # t
    <3>1. Entering(u, m)
      BY <1>2, <1>5, <2>2
    <3>2. m \in Mutexes
      BY <1>4, <1>7
    <3>3. ~Entering(u, m)
      BY <1>3, <1>4, <1>7, <3>2
    <3> QED
      BY <3>1, <3>3
  <2> QED
    BY <2>1, <2>2
<1> QED
  BY <1>6, <1>7

(* Together: a step of thread t that leaves the turnstiles, the queues and *)
(* the locks alone, and by which nobody stops serving a turnstile.         *)
LEMMA IdleStep ==
  ASSUME Inv, NEW t \in Threads, TypeOK', Frame(t), pc[t] \in Idle, pc'[t] \in Idle,
         UNCHANGED <<m_waiters, ts_sobj, ts_sleepq, pi_benef, tsp_list, ts_wlock, t_ts, waiter>>,
         pc[t] = "swtch" => t_ts[t] = None,
         pc'[t] = "run" <=> lp'[t] = None,
         pc'[t] \in {"look", "alloc", "verify"} => owner_lock'[t] # None,
         \A u \in Threads, s \in Turnstiles : Serves(u, s) => Serves(u, s)',
         \A m \in Mutexes : Entering(t, m)' => Entering(t, m) \/ ~Destroying(m),
         pc'[t] = "destroy" => \A m \in Mutexes : lp'[t] = m => \A u \in Threads : ~Entering(u, m)
  PROVE  Inv'
<1>0. /\ TypeOK /\ LockOK /\ (\A b \in Actors : ActorOK(b)) /\ (\A u \in Threads : PlaceOK(u)) /\ ClockOK
      /\ DestroyOK /\ AttachOK /\ QueueOK /\ BenefOK
  BY DEF Inv
<1>1. /\ t_ts \in [Threads -> Turnstiles \cup {None}] /\ Threads \subseteq Actors /\ t \in Actors /\ t # Clock
      /\ pi_benef \in [Turnstiles -> Threads \cup {None}]
  BY <1>0, Typing
<1>2. waiter[t] = None /\ t_ts[t] = None
  BY <1>0, <1>1 DEF ActorOK, PlaceOK, Idle
<1>3. Respects(t)
  BY <1>1 DEF Respects
<1>4. \A s \in Turnstiles : ts_wlock'[s] = t <=> Locks(t, s)'
  <2>1. \A s \in Turnstiles : ts_wlock[s] # t
    BY <1>0, <1>1 DEF LockOK, Locks, Idle
  <2>2. \A s \in Turnstiles : ~Locks(t, s)'
    BY DEF Locks, Idle
  <2> QED
    BY <2>1, <2>2
<1>5. /\ LockOK' /\ ClockOK'
      /\ \A b \in Actors \ {t} : ActorOK(b)'
      /\ \A u \in Threads \ {t} : PlaceOK(u)'
  BY <1>1, <1>3, <1>4, OthersNext
<1>6. ActorOK(t)'
  BY <1>2 DEF ActorOK, Idle
<1>7. PlaceOK(t)'
  BY <1>2 DEF PlaceOK, Idle
<1>8. DestroyOK'
  <2>1. lp'[t] \in Mutexes \cup {None}
    BY DEF TypeOK
  <2>2. pc'[t] \in {"destroy", "dfree"} => lp'[t] \in Mutexes /\ pc'[t] = "destroy"
    BY <2>1 DEF Idle
  <2> QED
    BY <1>0, <2>1, <2>2, DestroyNext
<1>9. AttachOK'
  <2>1. \A u \in Threads : t_ts[u] # None => lp'[u] = lp[u]
    BY <1>2 DEF Frame
  <2> QED
    BY <1>0, <2>1 DEF AttachOK
<1>10. QueueOK'
  BY <1>0 DEF QueueOK
<1>11. BenefOK'
  <2> SUFFICES ASSUME NEW s \in Turnstiles, pi_benef[s] # None PROVE Serves(pi_benef[s], s)'
    BY DEF BenefOK
  <2>1. PICK b \in Threads : b = pi_benef[s]
    BY <1>1
  <2>2. Serves(b, s)'
    BY <1>0, <2>1 DEF BenefOK
  <2> QED
    BY <2>1, <2>2 DEF Serves
<1>12. (\A b \in Actors : ActorOK(b)') /\ (\A u \in Threads : PlaceOK(u)')
  BY <1>5, <1>6, <1>7
<1> QED
  BY <1>5, <1>8, <1>9, <1>10, <1>11, <1>12 DEF Inv

-----------------------------------------------------------------------
(* mutex_enter() and mutex_exit() where they leave the turnstiles alone.   *)

(* Where an idle thread is. *)
LEMMA IdleTyping ==
  ASSUME Inv, NEW t \in Threads
  PROVE  /\ TypeOK /\ t \in Actors /\ t # Clock /\ t # None
         /\ pc[t] \in PCs /\ (pc[t] = "run" <=> lp[t] = None) /\ lp[t] \in Mutexes \cup {None}
         /\ (pc[t] # "run" => lp[t] \in Mutexes)
         /\ pc[t] \in {"look", "alloc", "verify", "recheck"} => owner_lock[t] # None
         /\ owner \in [Mutexes -> Threads \cup {None}] /\ m_waiters \in [Mutexes -> Turnstiles \cup {None}]
         /\ ts_sobj \in [Turnstiles -> Mutexes \cup {None}] /\ None \notin Threads /\ None \notin Turnstiles
         /\ pc \in [Actors -> PCs] /\ lp \in [Threads -> Mutexes \cup {None}] /\ None \notin Mutexes
         /\ ts \in [Actors -> Turnstiles \cup {None}] /\ waiter \in [Actors -> Threads \cup {None}]
         /\ owner_lock \in [Threads -> Threads \cup {None}] /\ powner \in [Threads -> Threads \cup {None}]
         /\ ts_wlock \in [Turnstiles -> Actors \cup {None}] /\ Threads \subseteq Actors
         /\ t_ts \in [Threads -> Turnstiles \cup {None}]
         /\ pc[t] \in {"verify", "recheck", "release", "free", "destroy", "dfree"} => ts[t] \in Turnstiles
<1>1. TypeOK /\ PlaceOK(t)
  BY DEF Inv
<1>2. /\ owner \in [Mutexes -> Threads \cup {None}] /\ m_waiters \in [Mutexes -> Turnstiles \cup {None}]
      /\ ts_sobj \in [Turnstiles -> Mutexes \cup {None}] /\ None \notin Threads /\ None \notin Turnstiles
      /\ pc \in [Actors -> PCs] /\ lp \in [Threads -> Mutexes \cup {None}] /\ None \notin Mutexes
      /\ ts \in [Actors -> Turnstiles \cup {None}] /\ waiter \in [Actors -> Threads \cup {None}]
      /\ owner_lock \in [Threads -> Threads \cup {None}] /\ powner \in [Threads -> Threads \cup {None}]
      /\ ts_wlock \in [Turnstiles -> Actors \cup {None}] /\ Threads \subseteq Actors
      /\ t_ts \in [Threads -> Turnstiles \cup {None}] /\ t # Clock
  BY <1>1, Typing
<1>3. pc[t] \in {"verify", "recheck", "release", "free", "destroy", "dfree"} => ts[t] # None
  BY <1>1, <1>2 DEF TypeOK
<1> QED
  BY <1>1, <1>2, <1>3 DEF PlaceOK

(* A free mutex is taken: its owner word changes from zero. *)
LEMMA OwnerTaken ==
  ASSUME Inv, NEW t \in Threads, NEW m \in Mutexes, owner[m] = None, owner' = [owner EXCEPT ![m] = t],
         UNCHANGED <<ts_sobj, ts>>,
         \A u \in Threads : pc[u] \in {"exit", "release", "destroy", "dfree"} => pc'[u] = pc[u] /\ lp'[u] = lp[u]
  PROVE  \A u \in Threads, s \in Turnstiles : Serves(u, s) => Serves(u, s)'
<1>1. owner \in [Mutexes -> Threads \cup {None}] /\ None \notin Threads
  BY IdleTyping
<1>2. \A x : \A u \in Threads : owner[x] = u /\ x # m => owner'[x] = u
  BY <1>1
<1> QED
  BY <1>1, <1>2 DEF Serves

(* A step of thread t to place l, with mutex m, turnstile s and owner word *)
(* o in its locals.                                                        *)
LEMMA IdleMove ==
  ASSUME Inv, NEW t \in Threads, pc[t] \in Idle, pc[t] = "swtch" => t_ts[t] = None,
         NEW l \in Idle, NEW m \in Mutexes \cup {None}, NEW s \in Turnstiles \cup {None},
         NEW o \in Threads \cup {None},
         pc' = [pc EXCEPT ![t] = l], lp' = [lp EXCEPT ![t] = m], ts' = [ts EXCEPT ![t] = s],
         owner_lock' = [owner_lock EXCEPT ![t] = o],
         owner' \in [Mutexes -> Threads \cup {None}],
         UNCHANGED <<m_waiters, tsvars, ts_wlock, tvars, waiter, powner, panicstr>>,
         l = "run" <=> m = None, l \in {"look", "alloc", "verify"} => o # None,
         l \in {"verify", "release", "destroy"} => s # None,
         \A u \in Threads, r \in Turnstiles : Serves(u, r) => Serves(u, r)',
         l \in EnterPCs => (pc[t] \in EnterPCs /\ m = lp[t]) \/ ~Destroying(m),
         l = "destroy" => \A u \in Threads : ~Entering(u, m)
  PROVE  Inv'
<1>0. /\ TypeOK /\ t \in Actors /\ t # Clock /\ t # None /\ Threads \subseteq Actors
      /\ pc \in [Actors -> PCs] /\ lp \in [Threads -> Mutexes \cup {None}]
      /\ ts \in [Actors -> Turnstiles \cup {None}] /\ owner_lock \in [Threads -> Threads \cup {None}]
  BY IdleTyping
<1>1. pc'[t] = l /\ lp'[t] = m /\ ts'[t] = s /\ owner_lock'[t] = o
  BY <1>0
<1>2. Frame(t)
  BY <1>0 DEF Frame
<1>3. TypeOK'
  <2>1. /\ lp' \in [Threads -> Mutexes \cup {None}] /\ pc' \in [Actors -> PCs]
        /\ ts' \in [Actors -> Turnstiles \cup {None}] /\ owner_lock' \in [Threads -> Threads \cup {None}]
    BY <1>0 DEF PCs, EnterPCs, Idle
  <2>2. \A b \in Actors : pc'[b] \in {"verify", "recheck", "release", "free", "destroy", "dfree"} => ts'[b] # None
    <3> SUFFICES ASSUME NEW b \in Actors, pc'[b] \in {"verify", "recheck", "release", "free", "destroy", "dfree"}
                 PROVE  ts'[b] # None
      OBVIOUS
    <3>1. CASE b = t
      BY <1>1, <3>1 DEF Idle
    <3>2. CASE b # t
      BY <1>0, <3>2 DEF TypeOK
    <3> QED
      BY <3>1, <3>2
  <2>3. /\ m_waiters' \in [Mutexes -> Turnstiles \cup {None}] /\ ts_sobj' \in [Turnstiles -> Mutexes \cup {None}]
        /\ ts_sleepq' \in [Turnstiles -> Seq(Threads)]
        /\ pi_benef' \in [Turnstiles -> Threads \cup {None}] /\ pi_epri_hi' \in [Turnstiles -> Nat]
        /\ ts_wlock' \in [Turnstiles -> Actors \cup {None}] /\ tsp_list' \subseteq Turnstiles
        /\ t_ts' \in [Threads -> Turnstiles \cup {None}] /\ t_epri' \in [Threads -> Nat]
        /\ powner' \in [Threads -> Threads \cup {None}] /\ waiter' \in [Actors -> Threads \cup {None}]
        /\ panicstr' \in BOOLEAN
    BY <1>0 DEF TypeOK, tsvars, tvars
  <2> QED
    BY <2>1, <2>2, <2>3 DEF TypeOK, PCs
<1>4. \A x \in Mutexes : Entering(t, x)' => Entering(t, x) \/ ~Destroying(x)
  <2> SUFFICES ASSUME NEW x \in Mutexes, lp'[t] = x, pc'[t] \in EnterPCs \/ pc'[t] = "free"
               PROVE  Entering(t, x) \/ ~Destroying(x)
    BY DEF Entering
  <2> QED
    BY <1>1 DEF Entering, Idle
<1>5. UNCHANGED <<m_waiters, ts_sobj, ts_sleepq, pi_benef, tsp_list, ts_wlock, t_ts, waiter>>
  BY DEF tsvars, tvars
<1>6. /\ pc'[t] \in Idle /\ (pc'[t] = "run" <=> lp'[t] = None)
      /\ (pc'[t] \in {"look", "alloc", "verify"} => owner_lock'[t] # None)
      /\ (pc'[t] = "destroy" => \A x \in Mutexes : lp'[t] = x => \A u \in Threads : ~Entering(u, x))
  BY <1>1
<1> QED
  BY <1>2, <1>3, <1>4, <1>5, <1>6, IdleStep

(* Nobody stops serving a turnstile when a thread that was not on its way  *)
(* out moves.                                                              *)
LEMMA ServesStill ==
  ASSUME Inv, NEW t \in Threads, pc[t] \notin {"exit", "release", "destroy", "dfree"}, Frame(t),
         UNCHANGED <<owner, ts_sobj>>
  PROVE  \A u \in Threads, s \in Turnstiles : Serves(u, s) => Serves(u, s)'
<1>1. Threads \subseteq Actors
  BY IdleTyping
<1>2. \A u \in Threads : pc[u] \in {"exit", "release", "destroy", "dfree"} =>
        pc'[u] = pc[u] /\ lp'[u] = lp[u] /\ ts'[u] = ts[u]
  BY <1>1 DEF Frame
<1> QED
  BY <1>2 DEF Serves

(* mutex_enter(): the cas takes a free mutex, or the slow path begins. *)
LEMMA MutexEnterKeeps ==
  ASSUME Inv, NEW t \in Threads, NEW m \in Mutexes, MutexEnter(t, m)
  PROVE  Inv'
<1>0. /\ t \in Actors /\ pc[t] = "run" /\ lp[t] = None /\ ts[t] \in Turnstiles \cup {None}
      /\ owner_lock[t] \in Threads \cup {None} /\ m # None
      /\ owner \in [Mutexes -> Threads \cup {None}] /\ ts' = [ts EXCEPT ![t] = ts[t]]
      /\ owner_lock' = [owner_lock EXCEPT ![t] = owner_lock[t]]
      /\ pc = [pc EXCEPT ![t] = pc[t]] /\ lp = [lp EXCEPT ![t] = lp[t]] /\ ~Destroying(m)
      /\ UNCHANGED <<m_waiters, tsvars, ts_wlock, tvars, waiter, powner, panicstr>>
  BY IdleTyping DEF MutexEnter, locals
<1>1. CASE owner[m] = None
  <2>1. owner' = [owner EXCEPT ![m] = t] /\ UNCHANGED <<pc, lp, ts, ts_sobj>>
    BY <1>1 DEF MutexEnter, locals, tsvars
  <2>2. \A u \in Threads, s \in Turnstiles : Serves(u, s) => Serves(u, s)'
    BY <1>1, <2>1, OwnerTaken
  <2> QED
    <3>1. /\ pc' = [pc EXCEPT ![t] = "run"] /\ lp' = [lp EXCEPT ![t] = None]
          /\ owner' \in [Mutexes -> Threads \cup {None}]
      BY <1>0, <2>1
    <3> QED
      BY <1>0, <2>2, <3>1, IdleMove DEF Idle, EnterPCs
<1>2. CASE owner[m] # None
  <2>1. pc' = [pc EXCEPT ![t] = "spin"] /\ lp' = [lp EXCEPT ![t] = m] /\ UNCHANGED <<owner, ts, ts_sobj, locals>>
    BY <1>2 DEF MutexEnter, Goto, locals, tsvars
  <2>2. Frame(t)
    BY <1>0, <2>1 DEF Frame, locals
  <2>3. \A u \in Threads, s \in Turnstiles : Serves(u, s) => Serves(u, s)'
    BY <1>0, <2>1, <2>2, ServesStill
  <2> QED
    BY <1>0, <2>1, <2>3, IdleMove DEF Idle, EnterPCs
<1> QED
  BY <1>1, <1>2

(* mutex_tryenter() takes a free mutex. *)
LEMMA MutexTryenterKeeps ==
  ASSUME Inv, NEW t \in Threads, NEW m \in Mutexes, MutexTryenter(t, m)
  PROVE  Inv'
<1>0. /\ t \in Actors /\ pc[t] = "run" /\ lp[t] = None /\ ts[t] \in Turnstiles \cup {None}
      /\ owner_lock[t] \in Threads \cup {None}
      /\ owner \in [Mutexes -> Threads \cup {None}] /\ ts' = [ts EXCEPT ![t] = ts[t]]
      /\ owner_lock' = [owner_lock EXCEPT ![t] = owner_lock[t]]
      /\ pc' = [pc EXCEPT ![t] = "run"] /\ lp' = [lp EXCEPT ![t] = None]
      /\ UNCHANGED <<m_waiters, tsvars, ts_wlock, tvars, waiter, powner, panicstr>>
  BY IdleTyping DEF MutexTryenter, locals
<1>1. owner[m] = None /\ owner' = [owner EXCEPT ![m] = t] /\ UNCHANGED <<pc, lp, ts, ts_sobj>>
  BY DEF MutexTryenter, locals, tsvars
<1>2. \A u \in Threads, s \in Turnstiles : Serves(u, s) => Serves(u, s)'
  BY <1>1, OwnerTaken
<1>3. owner' \in [Mutexes -> Threads \cup {None}]
  BY <1>0, <1>1
<1> QED
  BY <1>0, <1>2, <1>3, IdleMove DEF Idle, EnterPCs

(* mutex_adaptive_tryenter(), at the end of the slow path. *)
LEMMA TryKeeps ==
  ASSUME Inv, NEW t \in Threads, Try(t)
  PROVE  Inv'
<1>0. /\ t \in Actors /\ pc[t] = "try" /\ lp[t] \in Mutexes /\ ts[t] \in Turnstiles \cup {None}
      /\ owner_lock[t] \in Threads \cup {None} /\ pc \in [Actors -> PCs] /\ lp \in [Threads -> Mutexes \cup {None}]
      /\ owner \in [Mutexes -> Threads \cup {None}] /\ ts' = [ts EXCEPT ![t] = ts[t]]
      /\ owner_lock' = [owner_lock EXCEPT ![t] = owner_lock[t]] /\ lp[t] # None
      /\ UNCHANGED <<m_waiters, tsvars, ts_wlock, tvars, waiter, powner, panicstr>>
  BY IdleTyping DEF Try, locals
<1>1. CASE owner[lp[t]] = None
  <2>1. /\ owner' = [owner EXCEPT ![lp[t]] = t] /\ UNCHANGED <<ts, ts_sobj>>
        /\ pc' = [pc EXCEPT ![t] = "run"] /\ lp' = [lp EXCEPT ![t] = None]
    BY <1>1 DEF Try, Goto, locals, tsvars
  <2>2. \A u \in Threads : pc[u] \in {"exit", "release", "destroy", "dfree"} => pc'[u] = pc[u] /\ lp'[u] = lp[u]
    BY <1>0, <2>1 DEF Actors
  <2>3. \A u \in Threads, s \in Turnstiles : Serves(u, s) => Serves(u, s)'
    BY <1>0, <1>1, <2>1, <2>2, OwnerTaken
  <2>4. owner' \in [Mutexes -> Threads \cup {None}]
    BY <1>0, <2>1
  <2> QED
    BY <1>0, <2>1, <2>3, <2>4, IdleMove DEF Idle, EnterPCs
<1>2. CASE owner[lp[t]] # None
  <2>1. /\ pc' = [pc EXCEPT ![t] = "spin"] /\ lp' = [lp EXCEPT ![t] = lp[t]]
        /\ UNCHANGED <<owner, lp, ts, ts_sobj, locals>>
    BY <1>0, <1>2 DEF Try, Goto, locals, tsvars
  <2>2. Frame(t)
    BY <1>0, <2>1 DEF Frame, locals
  <2>3. \A u \in Threads, s \in Turnstiles : Serves(u, s) => Serves(u, s)'
    BY <1>0, <2>1, <2>2, ServesStill
  <2> QED
    BY <1>0, <2>1, <2>3, IdleMove DEF Idle, EnterPCs
<1> QED
  BY <1>1, <1>2

(* A thread inside mutex_enter() moves on. *)
LEMMA EnterMove ==
  ASSUME Inv, NEW t \in Threads, pc[t] \in Idle, pc[t] \in EnterPCs, pc[t] = "swtch" => t_ts[t] = None,
         NEW l \in Idle, l \in EnterPCs, NEW s \in Turnstiles \cup {None}, NEW o \in Threads \cup {None},
         pc' = [pc EXCEPT ![t] = l], ts' = [ts EXCEPT ![t] = s], owner_lock' = [owner_lock EXCEPT ![t] = o],
         UNCHANGED <<mvars, tsvars, ts_wlock, tvars, lp, waiter, powner, panicstr>>,
         l \in {"look", "alloc", "verify"} => o # None, l = "verify" => s # None
  PROVE  Inv'
<1>0. /\ t \in Actors /\ lp[t] \in Mutexes /\ lp[t] # None /\ pc \in [Actors -> PCs]
      /\ lp \in [Threads -> Mutexes \cup {None}]
      /\ ts \in [Actors -> Turnstiles \cup {None}] /\ owner_lock \in [Threads -> Threads \cup {None}]
      /\ owner \in [Mutexes -> Threads \cup {None}]
  BY IdleTyping DEF Idle, EnterPCs
<1>1. Frame(t)
  BY <1>0 DEF Frame
<1>2. \A u \in Threads, r \in Turnstiles : Serves(u, r) => Serves(u, r)'
  BY <1>1, ServesStill DEF Idle, EnterPCs, mvars, tsvars
<1>3. owner' \in [Mutexes -> Threads \cup {None}]
  BY <1>0 DEF mvars
<1>4. UNCHANGED <<m_waiters, tsvars, ts_wlock, tvars, waiter, powner, panicstr>>
  BY DEF mvars
<1>5. l \notin {"run", "release", "destroy"}
  BY DEF EnterPCs
<1>6. PICK m \in Mutexes : m = lp[t] /\ m # None /\ lp' = [lp EXCEPT ![t] = m]
  BY <1>0
<1> QED
  BY <1>2, <1>3, <1>4, <1>5, <1>6, IdleMove

(* mutex_adaptive_enter() returns after a panic. *)
LEMMA PanicReturnKeeps ==
  ASSUME Inv, NEW t \in Threads, PanicReturn(t)
  PROVE  Inv'
<1>0. /\ t \in Actors /\ pc \in [Actors -> PCs] /\ lp \in [Threads -> Mutexes \cup {None}]
      /\ owner \in [Mutexes -> Threads \cup {None}]
      /\ ts[t] \in Turnstiles \cup {None} /\ owner_lock[t] \in Threads \cup {None}
      /\ ts' = [ts EXCEPT ![t] = ts[t]] /\ owner_lock' = [owner_lock EXCEPT ![t] = owner_lock[t]]
  BY IdleTyping DEF PanicReturn, locals
<1>1. /\ pc' = [pc EXCEPT ![t] = "run"] /\ lp' = [lp EXCEPT ![t] = None] /\ pc[t] = "spin"
      /\ UNCHANGED <<owner, ts_sobj, locals>>
      /\ UNCHANGED <<m_waiters, tsvars, ts_wlock, tvars, waiter, powner, panicstr>>
  BY DEF PanicReturn, Goto, locals, mvars, tsvars
<1>2. Frame(t)
  BY <1>0, <1>1 DEF Frame, locals
<1>3. \A u \in Threads, r \in Turnstiles : Serves(u, r) => Serves(u, r)'
  BY <1>1, <1>2, ServesStill
<1> QED
  BY <1>0, <1>1, <1>3, IdleMove DEF Idle, EnterPCs

(* The owner word is loaded at the head of the loop. *)
LEMMA SpinKeeps ==
  ASSUME Inv, NEW t \in Threads, Spin(t)
  PROVE  Inv'
<1>0. /\ pc[t] = "spin" /\ lp[t] \in Mutexes /\ owner[lp[t]] \in Threads \cup {None}
      /\ ts[t] \in Turnstiles \cup {None} /\ ts' = [ts EXCEPT ![t] = ts[t]]
      /\ UNCHANGED <<mvars, tsvars, ts_wlock, tvars, lp, waiter, powner, panicstr>>
      /\ owner_lock' = [owner_lock EXCEPT ![t] = owner[lp[t]]]
  BY IdleTyping DEF Spin
<1>1. CASE owner[lp[t]] = None
  <2>1. pc' = [pc EXCEPT ![t] = "try"] /\ owner_lock' = [owner_lock EXCEPT ![t] = None]
    BY <1>0, <1>1 DEF Spin, Goto
  <2> QED
    BY <1>0, <2>1, EnterMove DEF Idle, EnterPCs
<1>2. CASE owner[lp[t]] # None
  <2>1. pc' = [pc EXCEPT ![t] = "look"]
    BY <1>2 DEF Spin, Goto
  <2>2. PICK o \in Threads \cup {None} : o = owner[lp[t]]
    BY <1>0
  <2> QED
    BY <1>0, <1>2, <2>1, <2>2, EnterMove DEF Idle, EnterPCs
<1> QED
  BY <1>1, <1>2

(* m_waiters is loaded. *)
LEMMA LookKeeps ==
  ASSUME Inv, NEW t \in Threads, Look(t)
  PROVE  Inv'
<1>0. /\ pc[t] = "look" /\ lp[t] \in Mutexes /\ m_waiters[lp[t]] \in Turnstiles \cup {None}
      /\ owner_lock[t] \in Threads \cup {None} /\ owner_lock[t] # None
      /\ owner_lock' = [owner_lock EXCEPT ![t] = owner_lock[t]]
      /\ UNCHANGED <<mvars, tsvars, ts_wlock, tvars, lp, waiter, powner, panicstr>>
      /\ ts' = [ts EXCEPT ![t] = m_waiters[lp[t]]]
  BY IdleTyping DEF Look
<1>1. CASE m_waiters[lp[t]] = None
  <2>1. pc' = [pc EXCEPT ![t] = "alloc"] /\ ts' = [ts EXCEPT ![t] = None]
    BY <1>0, <1>1 DEF Look, Goto
  <2> QED
    BY <1>0, <2>1, EnterMove DEF Idle, EnterPCs
<1>2. CASE m_waiters[lp[t]] # None
  <2>1. pc' = [pc EXCEPT ![t] = "verify"]
    BY <1>2 DEF Look, Goto
  <2>2. PICK s \in Turnstiles \cup {None} : s = m_waiters[lp[t]]
    BY <1>0
  <2> QED
    BY <1>0, <1>2, <2>1, <2>2, EnterMove DEF Idle, EnterPCs
<1> QED
  BY <1>1, <1>2

(* The loop goes around again. *)
LEMMA LoopAgainKeeps ==
  ASSUME Inv, NEW t \in Threads, pc[t] \in {"alloc", "verify"}, LoopAgain(t),
         UNCHANGED <<mvars, tsvars, ts_wlock, tvars, lp, waiter, powner, panicstr>>
  PROVE  Inv'
<1>1. /\ pc' = [pc EXCEPT ![t] = "spin"] /\ ts' = [ts EXCEPT ![t] = None]
      /\ owner_lock' = [owner_lock EXCEPT ![t] = None]
  BY DEF LoopAgain, Goto
<1> QED
  BY <1>1, EnterMove DEF Idle, EnterPCs

(* swtch() returns in a thread that is off its queue. *)
LEMMA SwtchKeeps ==
  ASSUME Inv, NEW t \in Threads, Swtch(t)
  PROVE  Inv'
<1>1. /\ pc' = [pc EXCEPT ![t] = "spin"] /\ ts' = [ts EXCEPT ![t] = ts[t]]
      /\ owner_lock' = [owner_lock EXCEPT ![t] = owner_lock[t]] /\ pc[t] = "swtch"
      /\ ts[t] \in Turnstiles \cup {None} /\ owner_lock[t] \in Threads \cup {None} /\ t_ts[t] = None
      /\ UNCHANGED <<mvars, tsvars, ts_wlock, tvars, lp, waiter, powner, panicstr>>
  BY IdleTyping DEF Swtch, Goto, locals, Asleep
<1> QED
  BY <1>1, EnterMove DEF Idle, EnterPCs

(* mutex_exit() clears the owner: the thread still serves the turnstile. *)
LEMMA MutexExitKeeps ==
  ASSUME Inv, NEW t \in Threads, NEW m \in Mutexes, MutexExit(t, m)
  PROVE  Inv'
<1>0. /\ t \in Actors /\ pc[t] = "run" /\ lp[t] = None /\ ts[t] \in Turnstiles \cup {None} /\ m # None
      /\ owner_lock[t] \in Threads \cup {None} /\ Threads \subseteq Actors
      /\ owner \in [Mutexes -> Threads \cup {None}] /\ ts' = [ts EXCEPT ![t] = ts[t]]
      /\ pc \in [Actors -> PCs] /\ lp \in [Threads -> Mutexes \cup {None}]
      /\ owner_lock' = [owner_lock EXCEPT ![t] = owner_lock[t]]
      /\ UNCHANGED <<m_waiters, tsvars, ts_wlock, tvars, waiter, powner, panicstr>>
  BY IdleTyping DEF MutexExit, locals
<1>1. owner[m] = t /\ owner' = [owner EXCEPT ![m] = None] /\ UNCHANGED <<ts, ts_sobj>>
  BY DEF MutexExit, locals, tsvars
<1>2. pc' = [pc EXCEPT ![t] = "exit"] /\ lp' = [lp EXCEPT ![t] = m]
  BY DEF MutexExit, Goto
<1>3. \A u \in Threads, s \in Turnstiles : Serves(u, s) => Serves(u, s)'
  <2> SUFFICES ASSUME NEW u \in Threads, NEW s \in Turnstiles, Serves(u, s) PROVE Serves(u, s)'
    OBVIOUS
  <2>1. CASE ts_sobj[s] = m /\ u = t
    BY <1>0, <1>1, <1>2, <2>1 DEF Serves
  <2>2. CASE u # t
    <3>1. pc'[u] = pc[u] /\ lp'[u] = lp[u] /\ ts'[u] = ts[u] /\ ts_sobj'[s] = ts_sobj[s]
      BY <1>0, <1>1, <1>2, <2>2
    <3>2. owner[ts_sobj[s]] = u => owner'[ts_sobj[s]] = u
      BY <1>0, <1>1, <2>2
    <3> QED
      BY <3>1, <3>2 DEF Serves
  <2>3. CASE u = t /\ ts_sobj[s] # m
    <3>1. owner[ts_sobj[s]] = t
      BY <1>0, <2>3 DEF Serves
    <3> QED
      BY <1>0, <1>1, <1>2, <2>3, <3>1 DEF Serves
  <2> QED
    BY <2>1, <2>2, <2>3
<1>4. owner' \in [Mutexes -> Threads \cup {None}]
  BY <1>0, <1>1
<1>5. PICK s \in Turnstiles \cup {None} : s = ts[t] /\ ts' = [ts EXCEPT ![t] = s]
  BY <1>0
<1>6. PICK o \in Threads \cup {None} : o = owner_lock[t] /\ owner_lock' = [owner_lock EXCEPT ![t] = o]
  BY <1>0
<1>7. /\ "exit" \in Idle /\ pc[t] \in Idle /\ "exit" \notin EnterPCs /\ pc[t] # "swtch" /\ m # None
      /\ UNCHANGED <<m_waiters, tsvars, ts_wlock, tvars, waiter, powner, panicstr>>
  BY <1>0 DEF Idle, EnterPCs
<1> QED
  BY <1>2, <1>3, <1>4, <1>5, <1>6, <1>7, IdleMove

(* A thread on its way out of mutex m is done: it served no turnstile. *)
LEMMA DoneKeeps ==
  ASSUME Inv, NEW t \in Threads, pc[t] \in {"exit", "release", "destroy"}, Done(t),
         \A s \in Turnstiles : lp[t] = ts_sobj[s] => ~(pc[t] = "exit" \/ ts[t] = s),
         UNCHANGED <<mvars, tsvars, ts_wlock, tvars, owner_lock, waiter, powner, panicstr>>
  PROVE  Inv'
<1>0. /\ t \in Actors /\ owner_lock[t] \in Threads \cup {None} /\ Threads \subseteq Actors
      /\ owner \in [Mutexes -> Threads \cup {None}] /\ ts \in [Actors -> Turnstiles \cup {None}]
      /\ pc \in [Actors -> PCs] /\ lp \in [Threads -> Mutexes \cup {None}]
      /\ owner_lock' = [owner_lock EXCEPT ![t] = owner_lock[t]]
      /\ UNCHANGED <<m_waiters, tsvars, ts_wlock, tvars, waiter, powner, panicstr>>
  BY IdleTyping DEF mvars
<1>1. /\ pc' = [pc EXCEPT ![t] = "run"] /\ lp' = [lp EXCEPT ![t] = None] /\ ts' = [ts EXCEPT ![t] = None]
      /\ UNCHANGED <<owner, ts_sobj>>
  BY DEF Done, Goto, mvars, tsvars
<1>2. \A u \in Threads, s \in Turnstiles : Serves(u, s) => Serves(u, s)'
  <2> SUFFICES ASSUME NEW u \in Threads, NEW s \in Turnstiles, Serves(u, s) PROVE Serves(u, s)'
    OBVIOUS
  <2>1. CASE u # t
    <3>1. pc'[u] = pc[u] /\ lp'[u] = lp[u] /\ ts'[u] = ts[u]
      BY <1>0, <1>1, <2>1
    <3> QED
      BY <1>1, <3>1 DEF Serves
  <2>2. CASE u = t
    BY <1>1, <2>2 DEF Serves
  <2> QED
    BY <2>1, <2>2
<1>3. owner' \in [Mutexes -> Threads \cup {None}]
  BY <1>0, <1>1
<1> QED
  BY <1>0, <1>1, <1>2, <1>3, IdleMove DEF Idle, EnterPCs

(* mutex_exit() loads m_waiters. *)
LEMMA LoadWaitersKeeps ==
  ASSUME Inv, NEW t \in Threads, LoadWaiters(t)
  PROVE  Inv'
<1>0. /\ t \in Actors /\ owner_lock[t] \in Threads \cup {None} /\ Threads \subseteq Actors
      /\ owner \in [Mutexes -> Threads \cup {None}] /\ ts \in [Actors -> Turnstiles \cup {None}]
      /\ pc \in [Actors -> PCs] /\ lp \in [Threads -> Mutexes \cup {None}]
      /\ lp[t] \in Mutexes /\ lp[t] # None /\ None \notin Turnstiles /\ m_waiters[lp[t]] \in Turnstiles \cup {None}
      /\ owner_lock' = [owner_lock EXCEPT ![t] = owner_lock[t]]
      /\ pc[t] = "exit" /\ UNCHANGED <<mvars, tsvars, ts_wlock, tvars, owner_lock, waiter, powner, panicstr>>
  BY IdleTyping DEF LoadWaiters
<1>1. \A s \in Turnstiles : ts_sobj[s] = lp[t] => m_waiters[lp[t]] = s
  BY <1>0 DEF Inv, AttachOK
<1>2. CASE m_waiters[lp[t]] = None
  <2>1. Done(t)
    BY <1>2 DEF LoadWaiters
  <2> QED
    BY <1>0, <1>1, <1>2, <2>1, DoneKeeps
<1>3. CASE m_waiters[lp[t]] # None
  <2>1. PICK s \in Turnstiles : s = m_waiters[lp[t]]
    BY <1>0, <1>3
  <2>2. PICK m \in Mutexes : m = lp[t]
    BY <1>0
  <2>3. /\ pc' = [pc EXCEPT ![t] = "release"] /\ lp' = [lp EXCEPT ![t] = m] /\ ts' = [ts EXCEPT ![t] = s]
        /\ UNCHANGED <<owner, ts_sobj>> /\ s # None /\ m # None
        /\ UNCHANGED <<m_waiters, tsvars, ts_wlock, tvars, waiter, powner, panicstr>>
    BY <1>0, <1>3, <2>1, <2>2 DEF LoadWaiters, Goto, mvars, tsvars
  <2>4. \A u \in Threads, r \in Turnstiles : Serves(u, r) => Serves(u, r)'
    <3> SUFFICES ASSUME NEW u \in Threads, NEW r \in Turnstiles, Serves(u, r) PROVE Serves(u, r)'
      OBVIOUS
    <3>1. CASE u # t
      <4>1. pc'[u] = pc[u] /\ lp'[u] = lp[u] /\ ts'[u] = ts[u]
        BY <1>0, <2>3, <3>1
      <4> QED
        BY <2>3, <4>1 DEF Serves
    <3>2. CASE u = t
      <4>1. pc'[t] = "release" /\ lp'[t] = lp[t] /\ ts'[t] = s
        BY <1>0, <2>2, <2>3
      <4> QED
        BY <1>0, <1>1, <2>1, <2>3, <3>2, <4>1 DEF Serves
    <3> QED
      BY <3>1, <3>2
  <2>5. owner' \in [Mutexes -> Threads \cup {None}]
    BY <1>0, <2>3
  <2> QED
    BY <1>0, <2>3, <2>4, <2>5, IdleMove DEF Idle, EnterPCs
<1> QED
  BY <1>2, <1>3

(* mutex_destroy() begins. *)
LEMMA MutexDestroyKeeps ==
  ASSUME Inv, NEW t \in Threads, NEW m \in Mutexes, MutexDestroy(t, m)
  PROVE  Inv'
<1>0. /\ t \in Actors /\ owner_lock[t] \in Threads \cup {None} /\ Threads \subseteq Actors
      /\ owner \in [Mutexes -> Threads \cup {None}] /\ ts \in [Actors -> Turnstiles \cup {None}]
      /\ pc \in [Actors -> PCs] /\ lp \in [Threads -> Mutexes \cup {None}]
      /\ lp[t] = None /\ m # None /\ None \notin Turnstiles /\ m_waiters[m] \in Turnstiles \cup {None}
      /\ owner_lock' = [owner_lock EXCEPT ![t] = owner_lock[t]] /\ None \notin Threads
      /\ pc[t] = "run" /\ UNCHANGED <<m_waiters, tsvars, ts_wlock, tvars, waiter, powner, panicstr>>
  BY IdleTyping DEF MutexDestroy
<1>1. /\ owner[m] \in {None, t} /\ (\A u \in Threads : ~Entering(u, m))
      /\ owner' = [owner EXCEPT ![m] = None] /\ UNCHANGED ts_sobj
  BY DEF MutexDestroy, tsvars
<1>2. \A s \in Turnstiles : ts_sobj[s] = m => m_waiters[m] = s
  BY <1>0 DEF Inv, AttachOK
<1>3. owner' \in [Mutexes -> Threads \cup {None}]
  BY <1>0, <1>1
<1>4. \A u \in Threads : \A x : owner[x] = u => owner'[x] = u \/ (u = t /\ x = m)
  BY <1>0, <1>1
<1>5. CASE m_waiters[m] = None
  <2>1. PICK s \in Turnstiles \cup {None} : s = ts[t]
    BY <1>0
  <2>2. /\ pc' = [pc EXCEPT ![t] = "run"] /\ lp' = [lp EXCEPT ![t] = None] /\ ts' = [ts EXCEPT ![t] = s]
    BY <1>0, <1>5, <2>1 DEF MutexDestroy
  <2>3. \A u \in Threads, r \in Turnstiles : Serves(u, r) => Serves(u, r)'
    <3>1. UNCHANGED <<pc, lp, ts>>
      BY <1>5 DEF MutexDestroy
    <3> QED
      BY <1>0, <1>1, <1>2, <1>4, <1>5, <3>1 DEF Serves
  <2> QED
    <3>1. PICK o \in Threads \cup {None} : o = owner_lock[t] /\ owner_lock' = [owner_lock EXCEPT ![t] = o]
      BY <1>0
    <3>2. "run" \in Idle /\ pc[t] \in Idle /\ "run" \notin EnterPCs
      BY <1>0 DEF Idle, EnterPCs
    <3> QED
      BY <1>0, <1>3, <2>2, <2>3, <3>1, <3>2, IdleMove
<1>6. CASE m_waiters[m] # None
  <2>1. PICK s \in Turnstiles : s = m_waiters[m]
    BY <1>0, <1>6
  <2>2. /\ pc' = [pc EXCEPT ![t] = "destroy"] /\ lp' = [lp EXCEPT ![t] = m] /\ ts' = [ts EXCEPT ![t] = s]
        /\ s # None
    BY <1>0, <1>6, <2>1 DEF MutexDestroy, Goto
  <2>3. \A u \in Threads, r \in Turnstiles : Serves(u, r) => Serves(u, r)'
    <3> SUFFICES ASSUME NEW u \in Threads, NEW r \in Turnstiles, Serves(u, r) PROVE Serves(u, r)'
      OBVIOUS
    <3>1. CASE u # t
      <4>1. pc'[u] = pc[u] /\ lp'[u] = lp[u] /\ ts'[u] = ts[u]
        BY <1>0, <2>2, <3>1
      <4> QED
        BY <1>1, <1>4, <3>1, <4>1 DEF Serves
    <3>2. CASE u = t
      <4>1. pc'[t] = "destroy" /\ lp'[t] = m /\ ts'[t] = s /\ owner[ts_sobj[r]] = t
        BY <1>0, <2>2, <3>2 DEF Serves
      <4> QED
        BY <1>1, <1>2, <1>4, <2>1, <3>2, <4>1 DEF Serves
    <3> QED
      BY <3>1, <3>2
  <2> QED
    BY <1>0, <1>1, <1>3, <2>2, <2>3, IdleMove DEF Idle, EnterPCs
<1> QED
  BY <1>5, <1>6

-----------------------------------------------------------------------
(* Steps that change a turnstile, under its lock. *)

(* What a step that changes a turnstile has to show. *)
LEMMA StepKeeps ==
  ASSUME Inv, NEW a \in Actors, Frame(a), Respects(a), TypeOK',
         \A s \in Turnstiles : ts_wlock'[s] = a <=> Locks(a, s)',
         ActorOK(a)', a \in Threads => PlaceOK(a)', a = Clock => ClockOK',
         DestroyOK', AttachOK', QueueOK', BenefOK'
  PROVE  Inv'
<1>1. t_ts' \in [Threads -> Turnstiles \cup {None}]
  BY DEF TypeOK
<1>2. /\ LockOK' /\ (a # Clock => ClockOK')
      /\ \A b \in Actors \ {a} : ActorOK(b)'
      /\ \A u \in Threads \ {a} : PlaceOK(u)'
  BY <1>1, OthersNext
<1>3. (\A b \in Actors : ActorOK(b)') /\ (\A u \in Threads : PlaceOK(u)') /\ ClockOK'
  BY <1>2
<1> QED
  BY <1>2, <1>3 DEF Inv

(* Nobody stops serving a turnstile that keeps its mutex while actor a     *)
(* moves, unless it is a that was on its way out.                          *)
LEMMA ServesFrame ==
  ASSUME TypeOK, NEW a \in Actors, Frame(a), UNCHANGED owner
  PROVE  \A u \in Threads, s \in Turnstiles :
           ts_sobj'[s] = ts_sobj[s] /\ Serves(u, s) =>
             Serves(u, s)' \/ (u = a /\ pc[a] \in {"exit", "release", "destroy", "dfree"})
<1>1. Threads \subseteq Actors
  BY Typing
<1> SUFFICES ASSUME NEW u \in Threads, NEW s \in Turnstiles, ts_sobj'[s] = ts_sobj[s], Serves(u, s)
             PROVE  Serves(u, s)' \/ (u = a /\ pc[a] \in {"exit", "release", "destroy", "dfree"})
  OBVIOUS
<1>2. CASE u # a
  <2>1. pc'[u] = pc[u] /\ lp'[u] = lp[u] /\ ts'[u] = ts[u]
    BY <1>1, <1>2 DEF Frame
  <2> QED
    BY <2>1 DEF Serves
<1>3. CASE u = a
  BY <1>3 DEF Serves
<1> QED
  BY <1>2, <1>3

(* BenefOK, one beneficiary at a time. *)
LEMMA BenefNext ==
  ASSUME pi_benef' \in [Turnstiles -> Threads \cup {None}],
         \A s \in Turnstiles, b \in Threads : pi_benef'[s] = b => Serves(b, s)'
  PROVE  BenefOK'
<1> SUFFICES ASSUME NEW s \in Turnstiles, pi_benef'[s] # None PROVE Serves(pi_benef[s], s)'
  BY DEF BenefOK
<1>1. PICK b \in Threads : b = pi_benef'[s]
  OBVIOUS
<1>2. Serves(b, s)'
  BY <1>1
<1> QED
  BY <1>1, <1>2 DEF Serves

(* tstile_alloc(): a free turnstile goes to mutex lp[t], locked by t. *)
LEMMA AllocKeeps ==
  ASSUME Inv, NEW t \in Threads, Alloc(t)
  PROVE  Inv'
<1>0. /\ TypeOK /\ LockOK /\ (\A b \in Actors : ActorOK(b)) /\ (\A u \in Threads : PlaceOK(u))
      /\ DestroyOK /\ AttachOK /\ QueueOK /\ BenefOK
  BY DEF Inv
<1>1. /\ t \in Actors /\ t # Clock /\ t # None /\ lp[t] \in Mutexes /\ None \notin Mutexes /\ None \notin Turnstiles
      /\ m_waiters \in [Mutexes -> Turnstiles \cup {None}] /\ ts_sobj \in [Turnstiles -> Mutexes \cup {None}]
      /\ pc \in [Actors -> PCs] /\ ts \in [Actors -> Turnstiles \cup {None}] /\ owner_lock[t] # None
      /\ ts_wlock \in [Turnstiles -> Actors \cup {None}] /\ t_ts \in [Threads -> Turnstiles \cup {None}]
      /\ lp \in [Threads -> Mutexes \cup {None}] /\ pc[t] = "alloc" /\ Threads \subseteq Actors
      /\ None \notin Threads
  BY IdleTyping DEF Alloc
<1>2. PICK s \in Turnstiles :
        /\ s \in tsp_list /\ tsp_list' = tsp_list \ {s}
        /\ ts_wlock[s] = None /\ ts_wlock' = [ts_wlock EXCEPT ![s] = t]
        /\ ts_sobj' = [ts_sobj EXCEPT ![s] = lp[t]]
        /\ m_waiters' = [m_waiters EXCEPT ![lp[t]] = s]
        /\ ts' = [ts EXCEPT ![t] = s]
  BY DEF Alloc, TstileAlloc
<1>3. /\ m_waiters[lp[t]] = None /\ pc' = [pc EXCEPT ![t] = "recheck"]
      /\ UNCHANGED <<owner, ts_sleepq, pi_benef, pi_epri_hi, t_ts, t_epri, lp, owner_lock, waiter, powner, panicstr>>
  BY DEF Alloc, Goto, tvars
<1>4. ts_sobj[s] = None /\ pi_benef[s] = None
  BY <1>0, <1>2 DEF AttachOK
<1>5. \A u \in Threads : t_ts[u] # s
  BY <1>0, <1>1, <1>4 DEF AttachOK, PlaceOK
<1>6. waiter[t] = None /\ t_ts[t] = None
  BY <1>0, <1>1 DEF ActorOK, PlaceOK
<1>7. Frame(t)
  BY <1>1, <1>2, <1>3 DEF Frame
<1>8. pc'[t] = "recheck" /\ ts'[t] = s /\ ts_sobj'[s] = lp[t] /\ lp'[t] = lp[t] /\ owner_lock'[t] = owner_lock[t]
  BY <1>1, <1>2, <1>3
<1>9. \A u \in Threads, r \in Turnstiles : r # s /\ Serves(u, r) => Serves(u, r)' /\ ts_sobj'[r] = ts_sobj[r]
  BY <1>0, <1>1, <1>2, <1>3, <1>7, ServesFrame
<1>10. Respects(t)
  BY <1>1, <1>2, <1>3, <1>9 DEF Respects
<1>11. \A r \in Turnstiles : ts_wlock'[r] = t <=> Locks(t, r)'
  <2>1. \A r \in Turnstiles : ts_wlock[r] # t
    BY <1>0, <1>1 DEF LockOK, Locks
  <2> QED
    BY <1>1, <1>2, <1>8, <2>1 DEF Locks
<1>12. TypeOK'
  <2>1. /\ m_waiters' \in [Mutexes -> Turnstiles \cup {None}] /\ ts_sobj' \in [Turnstiles -> Mutexes \cup {None}]
        /\ pc' \in [Actors -> PCs] /\ ts' \in [Actors -> Turnstiles \cup {None}]
        /\ ts_wlock' \in [Turnstiles -> Actors \cup {None}] /\ tsp_list' \subseteq Turnstiles
    BY <1>0, <1>1, <1>2, <1>3 DEF PCs, EnterPCs, TypeOK
  <2>2. \A b \in Actors : pc'[b] \in {"verify", "recheck", "release", "free", "destroy", "dfree"} => ts'[b] # None
    BY <1>0, <1>1, <1>2, <1>3, <1>8 DEF TypeOK
  <2> QED
    BY <1>0, <1>3, <2>1, <2>2 DEF TypeOK, PCs
<1>13. ActorOK(t)' /\ PlaceOK(t)'
  BY <1>1, <1>3, <1>6, <1>8 DEF ActorOK, PlaceOK
<1>14. DestroyOK'
  <2>1. \A m \in Mutexes : Entering(t, m)' => Entering(t, m)
    BY <1>1, <1>3 DEF Entering, EnterPCs
  <2>2. pc'[t] \notin {"destroy", "dfree"} /\ lp'[t] \in Mutexes \cup {None}
    BY <1>1, <1>8
  <2> QED
    BY <1>0, <1>7, <2>1, <2>2, DestroyNext
<1>15. AttachOK'
  <2>1. \A m \in Mutexes : \A r \in Turnstiles : m_waiters'[m] = r <=> ts_sobj'[r] = m
    <3> SUFFICES ASSUME NEW m \in Mutexes, NEW r \in Turnstiles PROVE m_waiters'[m] = r <=> ts_sobj'[r] = m
      OBVIOUS
    <3>1. m_waiters[m] = r <=> ts_sobj[r] = m
      BY <1>0 DEF AttachOK
    <3>2. m_waiters[m] = s <=> ts_sobj[s] = m
      BY <1>0 DEF AttachOK
    <3>3. m_waiters[lp[t]] = r <=> ts_sobj[r] = lp[t]
      BY <1>0, <1>1 DEF AttachOK
    <3> QED
      BY <1>1, <1>2, <1>3, <1>4, <3>1, <3>2, <3>3
  <2>2. \A r \in Turnstiles : r \in tsp_list' <=> ts_sobj'[r] = None
    BY <1>0, <1>1, <1>2 DEF AttachOK
  <2>3. \A u \in Threads : t_ts[u] # None => ts_sobj'[t_ts[u]] = lp[u]
    <3> SUFFICES ASSUME NEW u \in Threads, t_ts[u] # None PROVE ts_sobj'[t_ts[u]] = lp[u]
      OBVIOUS
    <3>1. t_ts[u] \in Turnstiles /\ t_ts[u] # s /\ ts_sobj[t_ts[u]] = lp[u]
      BY <1>0, <1>1, <1>5 DEF AttachOK
    <3> QED
      BY <1>1, <1>2, <3>1
  <2> QED
    BY <1>0, <1>2, <1>3, <2>1, <2>2, <2>3 DEF AttachOK
<1>16. QueueOK'
  BY <1>0, <1>3 DEF QueueOK
<1>17. BenefOK'
  <2>1. pi_benef' \in [Turnstiles -> Threads \cup {None}]
    BY <1>12 DEF TypeOK
  <2>2. \A r \in Turnstiles, b \in Threads : pi_benef'[r] = b => Serves(b, r)'
    <3> SUFFICES ASSUME NEW r \in Turnstiles, NEW b \in Threads, pi_benef[r] = b PROVE Serves(b, r)'
      BY <1>3
    <3>1. Serves(b, r) /\ r # s
      BY <1>0, <1>1, <1>4 DEF BenefOK
    <3> QED
      BY <1>9, <3>1
  <2> QED
    BY <2>1, <2>2, BenefNext
<1> QED
  BY <1>1, <1>7, <1>10, <1>11, <1>12, <1>13, <1>14, <1>15, <1>16, <1>17, StepKeeps

(* A step of thread t that leaves all but its place, its locals and its    *)
(* locks alone.                                                            *)
LEMMA LockMove ==
  ASSUME Inv, NEW t \in Threads, Frame(t), TypeOK', UNCHANGED <<mvars, tsvars, tvars, lp>>,
         \A s \in Turnstiles : ts_wlock'[s] # ts_wlock[s] => ts_wlock[s] \in {None, t} /\ ts_wlock'[s] \in {None, t},
         \A s \in Turnstiles : ts_wlock'[s] = t <=> Locks(t, s)',
         ActorOK(t)', PlaceOK(t)',
         \/ pc[t] \in EnterPCs /\ pc'[t] \in EnterPCs
         \/ pc[t] = "destroy" /\ pc'[t] = "dfree" /\ ts'[t] = ts[t]
  PROVE  Inv'
<1>0. /\ TypeOK /\ LockOK /\ (\A b \in Actors : ActorOK(b)) /\ (\A u \in Threads : PlaceOK(u))
      /\ DestroyOK /\ AttachOK /\ QueueOK /\ BenefOK
  BY DEF Inv
<1>1. /\ t \in Actors /\ t # Clock /\ None \notin Threads /\ lp[t] \in Mutexes \cup {None}
      /\ pi_benef \in [Turnstiles -> Threads \cup {None}] /\ Threads \subseteq Actors
  BY <1>0, Typing
<1>2. UNCHANGED <<owner, m_waiters, ts_sobj, ts_sleepq, pi_benef, tsp_list, t_ts>>
  BY DEF mvars, tsvars, tvars
<1>3. \A u \in Threads, s \in Turnstiles : Serves(u, s) => Serves(u, s)'
  <2> SUFFICES ASSUME NEW u \in Threads, NEW s \in Turnstiles, Serves(u, s) PROVE Serves(u, s)'
    OBVIOUS
  <2>1. CASE u # t \/ pc[t] \in EnterPCs
    BY <1>0, <1>1, <1>2, <2>1, ServesFrame DEF EnterPCs
  <2>2. CASE u = t /\ pc[t] = "destroy"
    BY <1>2, <2>2 DEF Serves, EnterPCs
  <2> QED
    BY <2>1, <2>2
<1>4. Respects(t)
  BY <1>2, <1>3 DEF Respects
<1>5. DestroyOK'
  <2>1. \A m \in Mutexes : Entering(t, m)' => Entering(t, m)
    BY DEF Entering, EnterPCs
  <2>2. pc'[t] \in {"destroy", "dfree"} => pc[t] = "destroy" /\ lp'[t] = lp[t] /\ lp'[t] \in Mutexes
    BY <1>0, <1>1 DEF EnterPCs, PlaceOK
  <2>3. lp'[t] \in Mutexes \cup {None}
    BY <1>1
  <2> QED
    BY <1>0, <2>1, <2>2, <2>3, DestroyNext
<1>6. AttachOK' /\ QueueOK'
  BY <1>0, <1>2 DEF AttachOK, QueueOK
<1>7. BenefOK'
  <2>1. \A r \in Turnstiles, b \in Threads : pi_benef'[r] = b => Serves(b, r)'
    <3> SUFFICES ASSUME NEW r \in Turnstiles, NEW b \in Threads, pi_benef[r] = b PROVE Serves(b, r)'
      BY <1>2
    <3>1. Serves(b, r)
      BY <1>0, <1>1 DEF BenefOK
    <3> QED
      BY <1>3, <3>1
  <2> QED
    BY <1>1, <1>2, <2>1, BenefNext
<1> QED
  BY <1>1, <1>4, <1>5, <1>6, <1>7, StepKeeps

(* The turnstile that was found is locked and compared. *)
LEMMA VerifyKeeps ==
  ASSUME Inv, NEW t \in Threads, Verify(t)
  PROVE  Inv'
<1>0. /\ TypeOK /\ LockOK /\ ActorOK(t) /\ PlaceOK(t)
  BY IdleTyping DEF Inv
<1>1. /\ t \in Actors /\ pc[t] = "verify" /\ ts[t] \in Turnstiles /\ pc \in [Actors -> PCs] /\ t # None
      /\ ts_wlock \in [Turnstiles -> Actors \cup {None}] /\ ts_wlock[ts[t]] = None /\ Threads \subseteq Actors
  BY IdleTyping DEF Verify
<1>2. CASE ~SameSobj(t)
  BY <1>1, <1>2, LoopAgainKeeps DEF Verify
<1>3. CASE SameSobj(t)
  <2>1. /\ ts_wlock' = [ts_wlock EXCEPT ![ts[t]] = t] /\ pc' = [pc EXCEPT ![t] = "recheck"]
        /\ UNCHANGED <<mvars, tsvars, tvars, lp, ts, owner_lock, waiter, powner, panicstr>>
    BY <1>3 DEF Verify, Goto
  <2>2. Frame(t)
    BY <1>1, <2>1 DEF Frame
  <2>3. TypeOK'
    <3>1. pc' \in [Actors -> PCs] /\ ts_wlock' \in [Turnstiles -> Actors \cup {None}]
      BY <1>1, <2>1 DEF PCs, EnterPCs
    <3>2. \A b \in Actors : pc'[b] \in {"verify", "recheck", "release", "free", "destroy", "dfree"} =>
            pc[b] \in {"verify", "recheck", "release", "free", "destroy", "dfree"}
      BY <1>1, <2>1
    <3> QED
      BY <1>0, <2>1, <3>1, <3>2 DEF TypeOK, PCs, mvars, tsvars, tvars
  <2>4. \A s \in Turnstiles : ts_wlock'[s] = t <=> Locks(t, s)'
    <3>1. \A s \in Turnstiles : ts_wlock[s] # t
      BY <1>0, <1>1 DEF LockOK, Locks
    <3> QED
      BY <1>1, <2>1, <3>1 DEF Locks
  <2>5. ActorOK(t)' /\ PlaceOK(t)'
    BY <1>0, <1>1, <1>3, <2>1 DEF ActorOK, PlaceOK, SameSobj, tvars, tsvars
  <2>6. /\ \A s \in Turnstiles : ts_wlock'[s] # ts_wlock[s] => ts_wlock[s] \in {None, t} /\ ts_wlock'[s] \in {None, t}
        /\ pc[t] \in EnterPCs /\ pc'[t] \in EnterPCs
    BY <1>1, <2>1 DEF EnterPCs
  <2> QED
    BY <2>1, <2>2, <2>3, <2>4, <2>5, <2>6, LockMove
<1> QED
  BY <1>2, <1>3

(* mutex_destroy() locks the turnstile that it found and compares it. *)
LEMMA DestroyLockKeeps ==
  ASSUME Inv, NEW t \in Threads, DestroyLock(t)
  PROVE  Inv'
<1>0. /\ TypeOK /\ LockOK /\ ActorOK(t) /\ PlaceOK(t)
  BY IdleTyping DEF Inv
<1>1. /\ t \in Actors /\ pc[t] = "destroy" /\ ts[t] \in Turnstiles /\ pc \in [Actors -> PCs] /\ t # None
      /\ ts_wlock \in [Turnstiles -> Actors \cup {None}] /\ ts_wlock[ts[t]] = None /\ Threads \subseteq Actors
  BY IdleTyping DEF DestroyLock
<1>2. CASE ~SameSobj(t)
  BY <1>1, <1>2, DoneKeeps DEF DestroyLock, SameSobj
<1>3. CASE SameSobj(t)
  <2>1. /\ ts_wlock' = [ts_wlock EXCEPT ![ts[t]] = t] /\ pc' = [pc EXCEPT ![t] = "dfree"]
        /\ UNCHANGED <<mvars, tsvars, tvars, lp, ts, owner_lock, waiter, powner, panicstr>>
    BY <1>3 DEF DestroyLock, Goto
  <2>2. Frame(t)
    BY <1>1, <2>1 DEF Frame
  <2>3. TypeOK'
    <3>1. pc' \in [Actors -> PCs] /\ ts_wlock' \in [Turnstiles -> Actors \cup {None}]
      BY <1>1, <2>1 DEF PCs, EnterPCs
    <3>2. \A b \in Actors : pc'[b] \in {"verify", "recheck", "release", "free", "destroy", "dfree"} =>
            pc[b] \in {"verify", "recheck", "release", "free", "destroy", "dfree"}
      BY <1>1, <2>1
    <3> QED
      BY <1>0, <2>1, <3>1, <3>2 DEF TypeOK, PCs, mvars, tsvars, tvars
  <2>4. \A s \in Turnstiles : ts_wlock'[s] = t <=> Locks(t, s)'
    <3>1. \A s \in Turnstiles : ts_wlock[s] # t
      BY <1>0, <1>1 DEF LockOK, Locks
    <3> QED
      BY <1>1, <2>1, <3>1 DEF Locks
  <2>5. ActorOK(t)' /\ PlaceOK(t)'
    BY <1>0, <1>1, <1>3, <2>1 DEF ActorOK, PlaceOK, SameSobj, tvars, tsvars
  <2>6. /\ \A s \in Turnstiles : ts_wlock'[s] # ts_wlock[s] => ts_wlock[s] \in {None, t} /\ ts_wlock'[s] \in {None, t}
        /\ pc'[t] = "dfree" /\ ts'[t] = ts[t]
    BY <1>1, <2>1
  <2> QED
    BY <1>1, <2>1, <2>2, <2>3, <2>4, <2>5, <2>6, LockMove
<1> QED
  BY <1>2, <1>3

(* The owner word is compared again: the thread goes to sleep or around. *)
LEMMA RecheckKeeps ==
  ASSUME Inv, NEW t \in Threads, Recheck(t)
  PROVE  Inv'
<1>0. /\ TypeOK /\ LockOK /\ (\A b \in Actors : ActorOK(b)) /\ (\A u \in Threads : PlaceOK(u))
      /\ DestroyOK /\ AttachOK /\ QueueOK /\ BenefOK
  BY DEF Inv
<1>1. /\ t \in Actors /\ t # Clock /\ pc[t] = "recheck" /\ ts[t] \in Turnstiles /\ pc \in [Actors -> PCs] /\ t # None
      /\ ts_wlock \in [Turnstiles -> Actors \cup {None}] /\ Threads \subseteq Actors /\ None \notin Threads
      /\ ts \in [Actors -> Turnstiles \cup {None}] /\ owner_lock \in [Threads -> Threads \cup {None}]
      /\ waiter \in [Actors -> Threads \cup {None}] /\ lp[t] \in Mutexes /\ lp[t] # None
      /\ t_ts \in [Threads -> Turnstiles \cup {None}] /\ None \notin Turnstiles
  BY IdleTyping DEF Recheck
<1>2. PICK s \in Turnstiles : s = ts[t]
  BY <1>1
<1>3. waiter[t] = None /\ t_ts[t] = None /\ ts_sobj[s] = lp[t]
  BY <1>0, <1>1, <1>2 DEF ActorOK, PlaceOK
<1>4. \A r \in Turnstiles : ts_wlock[r] = t <=> r = s
  BY <1>0, <1>1, <1>2 DEF LockOK, Locks
<1>5. UNCHANGED <<mvars, ts_sobj, pi_benef, pi_epri_hi, tsp_list, t_epri, lp, powner, panicstr>>
  BY DEF Recheck
<1>6. CASE ~StillOwned(t)
  <2>1. /\ pc' = [pc EXCEPT ![t] = "spin"] /\ ts' = [ts EXCEPT ![t] = None]
        /\ owner_lock' = [owner_lock EXCEPT ![t] = None] /\ ts_wlock' = [ts_wlock EXCEPT ![s] = None]
        /\ UNCHANGED <<mvars, tsvars, tvars, lp, waiter, powner, panicstr>>
    BY <1>2, <1>6 DEF Recheck, LoopAgain, Goto, tsvars, tvars
  <2>2. Frame(t)
    BY <1>1, <2>1 DEF Frame
  <2>3. TypeOK'
    <3>1. /\ pc' \in [Actors -> PCs] /\ ts_wlock' \in [Turnstiles -> Actors \cup {None}]
          /\ ts' \in [Actors -> Turnstiles \cup {None}] /\ owner_lock' \in [Threads -> Threads \cup {None}]
      BY <1>1, <2>1 DEF PCs, EnterPCs
    <3>2. \A b \in Actors : pc'[b] \in {"verify", "recheck", "release", "free", "destroy", "dfree"} => ts'[b] # None
      BY <1>0, <1>1, <2>1 DEF TypeOK
    <3> QED
      BY <1>0, <2>1, <3>1, <3>2 DEF TypeOK, PCs, mvars, tsvars, tvars
  <2>4. \A r \in Turnstiles : ts_wlock'[r] = t <=> Locks(t, r)'
    BY <1>1, <1>4, <2>1 DEF Locks
  <2>5. ActorOK(t)' /\ PlaceOK(t)'
    BY <1>1, <1>3, <2>1 DEF ActorOK, PlaceOK, tvars
  <2>6. /\ \A r \in Turnstiles : ts_wlock'[r] # ts_wlock[r] => ts_wlock[r] \in {None, t} /\ ts_wlock'[r] \in {None, t}
        /\ pc[t] \in EnterPCs /\ pc'[t] \in EnterPCs
    BY <1>1, <1>4, <2>1 DEF EnterPCs
  <2> QED
    BY <2>1, <2>2, <2>3, <2>4, <2>5, <2>6, LockMove
<1>7. CASE StillOwned(t)
  <2>1. /\ pc' = [pc EXCEPT ![t] = "pi"] /\ waiter' = [waiter EXCEPT ![t] = t]
        /\ ts' = [ts EXCEPT ![t] = None] /\ owner_lock' = [owner_lock EXCEPT ![t] = None]
        /\ TBlock(t, s) /\ UNCHANGED ts_wlock
    BY <1>2, <1>7 DEF Recheck, Goto
  <2>2. Frame(t)
    BY <1>1, <1>5, <2>1 DEF Frame
  <2>3. QueueOK' /\ ts_sleepq' \in [Turnstiles -> Seq(Threads)] /\ t_ts' \in [Threads -> Turnstiles \cup {None}]
    BY <1>0, <1>3, <2>1, TBlockKeeps
  <2>4. \A u \in Threads : t_ts'[u] = IF u = t THEN s ELSE t_ts[u]
    BY <1>1, <2>1 DEF TBlock
  <2>5. pc'[t] = "pi" /\ waiter'[t] = t /\ t_ts'[t] = s /\ lp'[t] = lp[t] /\ ts_sobj'[s] = lp[t]
    BY <1>1, <1>3, <1>5, <2>1, <2>4
  <2>6. \A u \in Threads, r \in Turnstiles : Serves(u, r) => Serves(u, r)'
    BY <1>0, <1>1, <1>5, <2>2, ServesFrame DEF mvars
  <2>7. Respects(t)
    BY <1>1, <1>3, <1>4, <1>5, <2>1, <2>4, <2>6 DEF Respects
  <2>8. \A r \in Turnstiles : ts_wlock'[r] = t <=> Locks(t, r)'
    BY <1>4, <2>1, <2>5 DEF Locks
  <2>9. TypeOK'
    <3>1. /\ pc' \in [Actors -> PCs] /\ waiter' \in [Actors -> Threads \cup {None}]
          /\ ts' \in [Actors -> Turnstiles \cup {None}] /\ owner_lock' \in [Threads -> Threads \cup {None}]
      BY <1>1, <2>1 DEF PCs, EnterPCs
    <3>2. \A b \in Actors : pc'[b] \in {"verify", "recheck", "release", "free", "destroy", "dfree"} => ts'[b] # None
      BY <1>0, <1>1, <2>1 DEF TypeOK
    <3> QED
      BY <1>0, <1>5, <2>1, <2>3, <3>1, <3>2 DEF TypeOK, PCs, mvars
  <2>10. ActorOK(t)' /\ PlaceOK(t)'
    BY <1>1, <2>5 DEF ActorOK, PlaceOK
  <2>11. DestroyOK'
    <3>1. \A m \in Mutexes : Entering(t, m)' => Entering(t, m)
      BY <1>1, <1>5 DEF Entering, EnterPCs
    <3>2. pc'[t] \notin {"destroy", "dfree"} /\ lp'[t] \in Mutexes \cup {None}
      BY <1>1, <2>5
    <3> QED
      BY <1>0, <2>2, <3>1, <3>2, DestroyNext
  <2>12. AttachOK'
    <3>1. \A u \in Threads : t_ts'[u] # None => ts_sobj[t_ts'[u]] = lp[u]
      BY <1>0, <1>3, <2>4 DEF AttachOK
    <3> QED
      BY <1>0, <1>5, <3>1 DEF AttachOK, mvars
  <2>13. BenefOK'
    <3>1. \A r \in Turnstiles, b \in Threads : pi_benef'[r] = b => Serves(b, r)'
      BY <1>0, <1>1, <1>5, <2>6 DEF BenefOK
    <3> QED
      BY <2>9, <3>1, BenefNext DEF TypeOK
  <2> QED
    BY <1>1, <2>2, <2>3, <2>7, <2>8, <2>9, <2>10, <2>11, <2>12, <2>13, StepKeeps
<1> QED
  BY <1>6, <1>7

-----------------------------------------------------------------------
(* pi_willto(). *)

(* The waiter that thread t has locked, and its turnstile. *)
LEMMA PiTyping ==
  ASSUME Inv, NEW t \in Threads, pc[t] \in {"pi", "pilock"}
  PROVE  /\ waiter[t] \in Threads /\ waiter[t] # None /\ t_ts[waiter[t]] \in Turnstiles /\ t_ts[waiter[t]] # None
         /\ \A r \in Turnstiles : ts_wlock[r] = t <=> r = t_ts[waiter[t]]
         /\ ts_sobj[t_ts[waiter[t]]] = lp[waiter[t]] /\ lp[waiter[t]] \in Mutexes /\ lp[waiter[t]] # None
         /\ lp[t] \in Mutexes /\ lp[t] # None
<1>1. /\ t \in Actors /\ waiter \in [Actors -> Threads \cup {None}] /\ t_ts \in [Threads -> Turnstiles \cup {None}]
      /\ None \notin Mutexes /\ lp[t] \in Mutexes
  BY IdleTyping
<1>2. waiter[t] \in Threads /\ t_ts[waiter[t]] \in Turnstiles /\ t_ts[waiter[t]] # None /\ waiter[t] # None
  BY <1>1 DEF Inv, ActorOK
<1>3. \A r \in Turnstiles : ts_wlock[r] = t <=> r = t_ts[waiter[t]]
  BY <1>1 DEF Inv, LockOK, Locks
<1>4. ts_sobj[t_ts[waiter[t]]] = lp[waiter[t]]
  BY <1>2 DEF Inv, AttachOK
<1>5. pc[waiter[t]] # "run"
  BY <1>2 DEF Inv, PlaceOK
<1>6. lp[waiter[t]] \in Mutexes
  BY <1>2, <1>5, IdleTyping
<1> QED
  BY <1>1, <1>2, <1>3, <1>4, <1>6

(* pi_willto() ends its walk. *)
LEMMA WillStopKeeps ==
  ASSUME Inv, NEW t \in Threads, pc[t] = "pi", WillStop(t),
         UNCHANGED <<mvars, tsvars, tvars, lp, owner_lock, ts, powner, panicstr>>
  PROVE  Inv'
<1>0. TypeOK
  BY DEF Inv
<1>1. /\ t \in Actors /\ pc \in [Actors -> PCs] /\ t # None /\ waiter \in [Actors -> Threads \cup {None}]
      /\ ts_wlock \in [Turnstiles -> Actors \cup {None}] /\ Threads \subseteq Actors
  BY IdleTyping
<1>2. PICK s \in Turnstiles : s = t_ts[waiter[t]] /\ \A r \in Turnstiles : ts_wlock[r] = t <=> r = s
  BY PiTyping
<1>3. /\ pc' = [pc EXCEPT ![t] = "swtch"] /\ waiter' = [waiter EXCEPT ![t] = None]
      /\ ts_wlock' = [ts_wlock EXCEPT ![s] = None]
  BY <1>2 DEF WillStop, Goto
<1>4. pc'[t] = "swtch" /\ waiter'[t] = None /\ lp'[t] = lp[t] /\ lp[t] # None
  BY <1>1, <1>3, PiTyping
<1>5. Frame(t)
  BY <1>1, <1>3 DEF Frame
<1>6. TypeOK'
  <2>1. /\ pc' \in [Actors -> PCs] /\ waiter' \in [Actors -> Threads \cup {None}]
        /\ ts_wlock' \in [Turnstiles -> Actors \cup {None}]
    BY <1>1, <1>3 DEF PCs, EnterPCs
  <2>2. \A b \in Actors : pc'[b] \in {"verify", "recheck", "release", "free", "destroy", "dfree"} => ts'[b] # None
    BY <1>0, <1>1, <1>3 DEF TypeOK
  <2> QED
    BY <1>0, <2>1, <2>2 DEF TypeOK, PCs, mvars, tsvars, tvars
<1>7. \A r \in Turnstiles : ts_wlock'[r] = t <=> Locks(t, r)'
  BY <1>1, <1>2, <1>3, <1>4 DEF Locks
<1>8. ActorOK(t)' /\ PlaceOK(t)'
  BY <1>4 DEF ActorOK, PlaceOK
<1>9. /\ \A r \in Turnstiles : ts_wlock'[r] # ts_wlock[r] => ts_wlock[r] \in {None, t} /\ ts_wlock'[r] \in {None, t}
      /\ pc[t] \in EnterPCs /\ pc'[t] \in EnterPCs
  BY <1>1, <1>2, <1>3, <1>4 DEF EnterPCs
<1> QED
  BY <1>5, <1>6, <1>7, <1>8, <1>9, LockMove

(* Thread w is taken off its turnstile s, which actor a has locked and     *)
(* goes on to free.                                                        *)
LEMMA UnsleepKeeps ==
  ASSUME Inv, NEW a \in Actors, NEW w \in Threads, NEW s \in Turnstiles, s = t_ts[w], a # w,
         MutexUnsleep(w), Frame(a), TypeOK',
         pc'[a] = "free", ts'[a] = s, waiter'[a] = w, lp' = lp,
         UNCHANGED <<mvars, ts_sobj, pi_benef, pi_epri_hi, tsp_list, t_epri>>,
         a \in Threads => pc[a] = "pi", a = Clock => pc[a] = "run",
         ts_wlock' = [ts_wlock EXCEPT ![s] = a],
         ts_wlock[s] \in {None, a}, \A r \in Turnstiles : ts_wlock[r] = a => r = s
  PROVE  Inv'
<1>0. /\ TypeOK /\ LockOK /\ (\A b \in Actors : ActorOK(b)) /\ (\A u \in Threads : PlaceOK(u))
      /\ DestroyOK /\ AttachOK /\ QueueOK /\ BenefOK /\ ClockOK
  BY DEF Inv
<1>1. /\ t_ts \in [Threads -> Turnstiles \cup {None}] /\ None \notin Turnstiles /\ None \notin Threads
      /\ Threads \subseteq Actors /\ Clock \notin Threads /\ ts_wlock \in [Turnstiles -> Actors \cup {None}]
      /\ lp \in [Threads -> Mutexes \cup {None}] /\ None \notin Actors
  BY <1>0, Typing
<1>2. /\ QueueOK' /\ \A u \in Threads : t_ts'[u] = IF u = w THEN None ELSE t_ts[u]
  BY <1>0, <1>1, MutexUnsleepKeeps
<1>3. \A u \in Threads, r \in Turnstiles : Serves(u, r) => Serves(u, r)'
  BY <1>0, <1>1, ServesFrame DEF mvars
<1>4. Respects(a)
  BY <1>1, <1>2, <1>3 DEF Respects
<1>5. \A r \in Turnstiles : ts_wlock'[r] = a <=> Locks(a, r)'
  BY <1>1 DEF Locks
<1>6. lp[w] # None /\ ts_sobj[s] = lp[w]
  BY <1>0, <1>1 DEF PlaceOK, AttachOK
<1>7. ActorOK(a)' /\ (a = Clock => ClockOK')
  BY <1>1, <1>6 DEF ActorOK, ClockOK
<1>8. a \in Threads => PlaceOK(a)'
  BY <1>0, <1>1 DEF PlaceOK
<1>9. DestroyOK'
  <2>1. CASE a \in Threads
    <3>1. \A m \in Mutexes : Entering(a, m)' => Entering(a, m)
      BY <2>1 DEF Entering, EnterPCs
    <3>2. pc'[a] \notin {"destroy", "dfree"} /\ lp'[a] \in Mutexes \cup {None}
      BY <1>1, <2>1
    <3> QED
      BY <1>0, <2>1, <3>1, <3>2, DestroyNext
  <2>2. CASE a \notin Threads
    <3>1. \A u \in Threads : pc'[u] = pc[u] /\ waiter'[u] = waiter[u]
      BY <1>1, <2>2 DEF Frame
    <3> QED
      BY <1>0, <3>1 DEF DestroyOK, Entering
  <2> QED
    BY <2>1, <2>2
<1>10. AttachOK'
  BY <1>0, <1>2 DEF AttachOK, mvars
<1>11. BenefOK'
  <2>1. \A r \in Turnstiles, b \in Threads : pi_benef'[r] = b => Serves(b, r)'
    BY <1>0, <1>1, <1>3 DEF BenefOK
  <2> QED
    BY <2>1, BenefNext DEF TypeOK
<1> QED
  BY <1>2, <1>4, <1>5, <1>7, <1>8, <1>9, <1>10, <1>11, StepKeeps

(* pi_willto() looks at the owner of what the waiter sleeps for. *)
LEMMA PiOwnerKeeps ==
  ASSUME Inv, NEW t \in Threads, PiOwner(t)
  PROVE  Inv'
<1>0. TypeOK /\ PlaceOK(t)
  BY DEF Inv
<1>1. /\ t \in Actors /\ pc \in [Actors -> PCs] /\ t # None /\ waiter \in [Actors -> Threads \cup {None}] /\ t # Clock
      /\ ts_wlock \in [Turnstiles -> Actors \cup {None}] /\ Threads \subseteq Actors /\ None \notin Threads
      /\ ts \in [Actors -> Turnstiles \cup {None}] /\ powner \in [Threads -> Threads \cup {None}]
      /\ owner \in [Mutexes -> Threads \cup {None}] /\ lp \in [Threads -> Mutexes \cup {None}]
  BY IdleTyping
<1>2. pc[t] = "pi" /\ UNCHANGED <<mvars, ts_sobj, pi_benef, pi_epri_hi, tsp_list, t_epri, lp, owner_lock, panicstr>>
  BY DEF PiOwner
<1>3. PICK w \in Threads : w = waiter[t]
  BY <1>2, PiTyping
<1>4. PICK s \in Turnstiles : s = t_ts[w] /\ s # None /\ \A r \in Turnstiles : ts_wlock[r] = t <=> r = s
  BY <1>2, <1>3, PiTyping
<1>5. ts_sobj[s] = lp[w] /\ lp[w] \in Mutexes /\ lp[t] # None
  BY <1>2, <1>3, <1>4, PiTyping
<1>6. PICK o \in Threads \cup {None} : o = owner[lp[w]]
  BY <1>1, <1>5
<1>7. CASE WillStop(t) /\ UNCHANGED <<ts_sleepq, t_ts, ts, powner>>
  BY <1>2, <1>7, WillStopKeeps DEF tsvars, tvars
<1>8. CASE /\ w # t /\ MutexUnsleep(w) /\ ts' = [ts EXCEPT ![t] = t_ts[w]]
           /\ Goto(t, "free") /\ UNCHANGED <<waiter, ts_wlock, powner>>
  <2>1. pc' = [pc EXCEPT ![t] = "free"] /\ ts' = [ts EXCEPT ![t] = s] /\ UNCHANGED <<waiter, ts_wlock, powner>>
    BY <1>4, <1>8 DEF Goto
  <2>2. pc'[t] = "free" /\ ts'[t] = s /\ waiter'[t] = w /\ ts_wlock' = [ts_wlock EXCEPT ![s] = t]
    BY <1>1, <1>3, <1>4, <2>1
  <2>3. Frame(t)
    BY <1>1, <1>2, <2>1 DEF Frame
  <2>4. ts_sleepq' \in [Turnstiles -> Seq(Threads)] /\ t_ts' \in [Threads -> Turnstiles \cup {None}]
    BY <1>0, <1>4, <1>8, MutexUnsleepKeeps DEF Inv
  <2>5. TypeOK'
    <3>1. pc' \in [Actors -> PCs] /\ ts' \in [Actors -> Turnstiles \cup {None}]
      BY <1>1, <2>1 DEF PCs
    <3>2. \A b \in Actors : pc'[b] \in {"verify", "recheck", "release", "free", "destroy", "dfree"} => ts'[b] # None
      BY <1>0, <1>1, <1>4, <2>1 DEF TypeOK
    <3> QED
      BY <1>0, <1>2, <2>1, <2>4, <3>1, <3>2 DEF TypeOK, PCs, mvars
  <2> QED
    <3>1. /\ ts_wlock[s] \in {None, t} /\ (\A r \in Turnstiles : ts_wlock[r] = t => r = s) /\ s = t_ts[w]
          /\ t \in Actors /\ t # w /\ t # Clock /\ pc[t] = "pi" /\ lp' = lp /\ MutexUnsleep(w)
          /\ UNCHANGED <<mvars, ts_sobj, pi_benef, pi_epri_hi, tsp_list, t_epri>>
      BY <1>1, <1>2, <1>4, <1>8
    <3> QED
      BY <2>2, <2>3, <2>5, <3>1, UnsleepKeeps
<1>9. CASE /\ o \notin {None, t} /\ Goto(t, "pilock") /\ powner' = [powner EXCEPT ![t] = o]
           /\ UNCHANGED <<ts_sleepq, t_ts, ts, waiter, ts_wlock>>
  <2>1. pc' = [pc EXCEPT ![t] = "pilock"] /\ powner' = [powner EXCEPT ![t] = o] /\ o \in Threads
    BY <1>9 DEF Goto
  <2>2. Frame(t)
    BY <1>1, <1>2, <1>9, <2>1 DEF Frame
  <2>3. TypeOK'
    <3>1. pc' \in [Actors -> PCs] /\ powner' \in [Threads -> Threads \cup {None}]
      BY <1>1, <2>1 DEF PCs, EnterPCs
    <3>2. \A b \in Actors : pc'[b] \in {"verify", "recheck", "release", "free", "destroy", "dfree"} => ts'[b] # None
      BY <1>0, <1>1, <1>9, <2>1 DEF TypeOK
    <3> QED
      BY <1>0, <1>2, <1>9, <3>1, <3>2 DEF TypeOK, PCs, mvars
  <2>4. /\ pc'[t] = "pilock" /\ powner'[t] = o /\ waiter'[t] = w /\ t_ts'[w] = s /\ lp'[t] = lp[t]
        /\ owner'[ts_sobj'[s]] = o
    BY <1>1, <1>2, <1>3, <1>4, <1>5, <1>6, <1>9, <2>1 DEF mvars
  <2>5. \A r \in Turnstiles : ts_wlock'[r] = t <=> Locks(t, r)'
    BY <1>4, <1>9, <2>4 DEF Locks
  <2>6. ActorOK(t)' /\ PlaceOK(t)'
    BY <1>1, <1>4, <1>5, <2>1, <2>4 DEF ActorOK, PlaceOK, Serves
  <2>7. pc[t] \in EnterPCs /\ pc'[t] \in EnterPCs
    BY <1>2, <2>4 DEF EnterPCs
  <2> QED
    BY <1>2, <1>9, <2>2, <2>3, <2>5, <2>6, <2>7, LockMove DEF tsvars, tvars
<1> QED
  BY <1>3, <1>6, <1>7, <1>8, <1>9 DEF PiOwner

(* pi_willto() bequeaths the priority and moves on to the owner. *)
LEMMA PiInheritKeeps ==
  ASSUME Inv, NEW t \in Threads, PiInherit(t)
  PROVE  Inv'
<1>0. /\ TypeOK /\ LockOK /\ (\A b \in Actors : ActorOK(b)) /\ (\A u \in Threads : PlaceOK(u))
      /\ DestroyOK /\ AttachOK /\ QueueOK /\ BenefOK /\ ClockOK
  BY DEF Inv
<1>1. /\ t \in Actors /\ pc \in [Actors -> PCs] /\ t # None /\ waiter \in [Actors -> Threads \cup {None}] /\ t # Clock
      /\ ts_wlock \in [Turnstiles -> Actors \cup {None}] /\ Threads \subseteq Actors /\ None \notin Threads
      /\ ts \in [Actors -> Turnstiles \cup {None}] /\ powner \in [Threads -> Threads \cup {None}]
      /\ t_ts \in [Threads -> Turnstiles \cup {None}] /\ None \notin Turnstiles
      /\ lp \in [Threads -> Mutexes \cup {None}]
  BY IdleTyping
<1>2. /\ pc[t] = "pilock" /\ UNCHANGED <<mvars, ts_sobj, tsp_list, t_ts, lp, owner_lock, ts, panicstr>>
  BY DEF PiInherit
<1>3. PICK w \in Threads : w = waiter[t]
  BY <1>2, PiTyping
<1>4. PICK s \in Turnstiles : s = t_ts[w] /\ s # None /\ \A r \in Turnstiles : ts_wlock[r] = t <=> r = s
  BY <1>2, <1>3, PiTyping
<1>5. ts_sobj[s] = lp[w] /\ lp[w] \in Mutexes /\ lp[t] # None /\ lp[w] # None
  BY <1>2, <1>3, <1>4, PiTyping
<1>6. PICK o \in Threads : o = powner[t] /\ Serves(o, s)
  BY <1>0, <1>1, <1>2, <1>3, <1>4 DEF PlaceOK
<1>7. Prio \in [Threads -> Nat]
  BY <1>0, Typing, PrioType DEF Prio
<1>8. PICK p \in Nat : p = Prio[w]
  BY <1>7
<1>9. /\ t_ts[o] # None => ts_wlock[t_ts[o]] = None
      /\ pi_benef' = IF pi_benef[s] = None THEN [pi_benef EXCEPT ![s] = o] ELSE pi_benef
      /\ pi_epri_hi' = [pi_epri_hi EXCEPT ![s] = IF pi_benef[s] = None THEN p ELSE Max2(@, p)]
      /\ ChangePri(ts_sleepq, o, p) \/ UNCHANGED <<ts_sleepq, t_epri>>
      /\ ts_wlock' = [r \in Turnstiles |-> IF r = s THEN None
                                           ELSE IF r = t_ts[o] THEN t ELSE ts_wlock[r]]
      /\ pc' = [pc EXCEPT ![t] = IF t_ts[o] # None THEN "pi" ELSE "swtch"]
      /\ waiter' = [waiter EXCEPT ![t] = IF t_ts[o] # None THEN o ELSE None]
      /\ powner' = [powner EXCEPT ![t] = None]
  BY <1>3, <1>4, <1>6, <1>8 DEF PiInherit, Goto, Asleep, ThreadLockFree
<1>10. /\ QueueOK' /\ ts_sleepq' \in [Turnstiles -> Seq(Threads)] /\ t_epri' \in [Threads -> Nat]
  <2>1. CASE UNCHANGED <<ts_sleepq, t_epri>>
    BY <1>0, <1>2, <2>1 DEF QueueOK, TypeOK
  <2>2. CASE ChangePri(ts_sleepq, o, p)
    <3>1. Queues(ts_sleepq) /\ (t_ts[o] # None => OnQueue(ts_sleepq[t_ts[o]], o))
      BY <1>0, QueuesOfInv
    <3>2. Queues(ts_sleepq') /\ SameQueues(ts_sleepq', ts_sleepq) /\ t_epri' \in [Threads -> Nat]
      BY <1>0, <2>2, <3>1, ChangePriKeeps
    <3>3. QueueOK'
      BY <1>0, <1>2, <3>2, QueuesSame
    <3> QED
      BY <3>2, <3>3 DEF Queues
  <2> QED
    BY <1>9, <2>1, <2>2
<1>11. Frame(t)
  BY <1>1, <1>2, <1>9 DEF Frame
<1>12. \A u \in Threads, r \in Turnstiles : Serves(u, r) => Serves(u, r)'
  BY <1>0, <1>1, <1>2, <1>11, ServesFrame DEF mvars
<1>13. t_ts[o] # s
  BY <1>1, <1>4, <1>9
<1>14. \A r \in Turnstiles : ts_wlock'[r] = IF r = s THEN None ELSE IF r = t_ts[o] THEN t ELSE ts_wlock[r]
  BY <1>9
<1>15. Respects(t)
  BY <1>1, <1>2, <1>4, <1>9, <1>12, <1>14 DEF Respects
<1>16. /\ t_ts[o] # None => pc'[t] = "pi" /\ waiter'[t] = o
       /\ t_ts[o] = None => pc'[t] = "swtch" /\ waiter'[t] = None
  BY <1>1, <1>9
<1>17. \A r \in Turnstiles : ts_wlock'[r] = t <=> Locks(t, r)'
  BY <1>1, <1>2, <1>4, <1>13, <1>14, <1>16 DEF Locks
<1>18. TypeOK'
  <2>1. /\ pc' \in [Actors -> PCs] /\ waiter' \in [Actors -> Threads \cup {None}]
        /\ powner' \in [Threads -> Threads \cup {None}] /\ ts_wlock' \in [Turnstiles -> Actors \cup {None}]
    BY <1>1, <1>9 DEF PCs, EnterPCs
  <2>2. \A b \in Actors : pc'[b] \in {"verify", "recheck", "release", "free", "destroy", "dfree"} => ts'[b] # None
    BY <1>0, <1>1, <1>2, <1>9 DEF TypeOK
  <2>3. pi_benef' \in [Turnstiles -> Threads \cup {None}]
    BY <1>0, <1>9, Typing
  <2>4. pi_epri_hi' \in [Turnstiles -> Nat]
    <3>1. pi_epri_hi \in [Turnstiles -> Nat]
      BY <1>0, Typing
    <3> QED
      BY <1>9, <3>1 DEF Max2
  <2> QED
    BY <1>0, <1>2, <1>10, <2>1, <2>2, <2>3, <2>4 DEF TypeOK, PCs, mvars
<1>19. ActorOK(t)' /\ PlaceOK(t)'
  BY <1>1, <1>2, <1>5, <1>16 DEF ActorOK, PlaceOK
<1>20. DestroyOK'
  <2>1. \A m \in Mutexes : Entering(t, m)' => Entering(t, m)
    BY <1>2 DEF Entering, EnterPCs
  <2>2. pc'[t] \notin {"destroy", "dfree"} /\ lp'[t] \in Mutexes \cup {None}
    BY <1>1, <1>2, <1>16
  <2> QED
    BY <1>0, <1>11, <2>1, <2>2, DestroyNext
<1>21. AttachOK'
  <2>1. s \notin tsp_list
    BY <1>0, <1>5 DEF AttachOK
  <2>2. \A r \in Turnstiles : r \in tsp_list => pi_benef'[r] = None
    BY <1>0, <1>9, <2>1, Typing DEF AttachOK
  <2> QED
    BY <1>0, <1>2, <2>2 DEF AttachOK, mvars
<1>22. BenefOK'
  <2>1. \A r \in Turnstiles, b \in Threads : pi_benef'[r] = b => Serves(b, r)'
    <3> SUFFICES ASSUME NEW r \in Turnstiles, NEW b \in Threads, pi_benef'[r] = b PROVE Serves(b, r)
      BY <1>12
    <3>1. CASE r = s /\ b = o
      BY <1>6, <3>1
    <3>2. CASE pi_benef[r] = b
      BY <1>0, <1>1, <3>2 DEF BenefOK
    <3> QED
      BY <1>0, <1>9, <3>1, <3>2, Typing
  <2> QED
    BY <1>18, <2>1, BenefNext DEF TypeOK
<1> QED
  BY <1>1, <1>10, <1>11, <1>15, <1>17, <1>18, <1>19, <1>20, <1>21, <1>22, StepKeeps

-----------------------------------------------------------------------
(* mutex_adaptive_release(), tstile_free() and setrun(). *)

(* The one that is woken was asleep on the turnstile. *)
LEMMA WokenAsleep ==
  ASSUME TypeOK, QueueOK, NEW s \in Turnstiles, NEW u \in Woken(ts_sleepq[s])
  PROVE  u \in Threads /\ t_ts[u] = s
<1>1. ts_sleepq[s] \in Seq(Threads) /\ ts_sleepq[s] # << >> /\ u = Head(ts_sleepq[s])
  BY Typing DEF Woken
<1>2. OnQueue(ts_sleepq[s], u)
  BY <1>1 DEF OnQueue
<1> QED
  BY <1>2, QueuesOfInv

(* With a waiver or without: what becomes of the queues and the pirecs. *)
LEMMA WaiveOrNot ==
  ASSUME TypeOK, NEW q, Queues(q), NEW s \in Turnstiles,
         \/ pi_benef[s] # None /\ PiWaive(q, s) /\
            (t_ts[pi_benef[s]] # None => OnQueue(q[t_ts[pi_benef[s]]], pi_benef[s]))
         \/ NoWaive(q)
  PROVE  /\ Queues(ts_sleepq') /\ SameQueues(ts_sleepq', q) /\ t_epri' \in [Threads -> Nat]
         /\ pi_benef' \in [Turnstiles -> Threads \cup {None}] /\ pi_epri_hi' \in [Turnstiles -> Nat]
         /\ \A r \in Turnstiles : pi_benef'[r] \in {None, pi_benef[r]}
<1>1. CASE NoWaive(q)
  BY <1>1, Typing DEF NoWaive, SameQueues
<1>2. CASE pi_benef[s] # None /\ PiWaive(q, s) /\ (t_ts[pi_benef[s]] # None => OnQueue(q[t_ts[pi_benef[s]]], pi_benef[s]))
  <2>1. /\ Queues(ts_sleepq') /\ SameQueues(ts_sleepq', q) /\ t_epri' \in [Threads -> Nat]
        /\ pi_benef' = [pi_benef EXCEPT ![s] = None]
        /\ pi_benef' \in [Turnstiles -> Threads \cup {None}] /\ pi_epri_hi' \in [Turnstiles -> Nat]
    BY <1>2, PiWaiveKeeps
  <2>2. pi_benef \in [Turnstiles -> Threads \cup {None}]
    BY Typing
  <2>3. \A r \in Turnstiles : pi_benef'[r] \in {None, pi_benef[r]}
    BY <2>1, <2>2
  <2> QED
    BY <2>1, <2>3
<1> QED
  BY <1>1, <1>2

(* mutex_adaptive_release() waives and wakes the first sleeper. *)
LEMMA ReleaseKeeps ==
  ASSUME Inv, NEW t \in Threads, Release(t)
  PROVE  Inv'
<1>0. /\ TypeOK /\ LockOK /\ (\A b \in Actors : ActorOK(b)) /\ (\A u \in Threads : PlaceOK(u))
      /\ DestroyOK /\ AttachOK /\ QueueOK /\ BenefOK
  BY DEF Inv
<1>1. /\ t \in Actors /\ t # Clock /\ pc[t] = "release" /\ ts[t] \in Turnstiles /\ pc \in [Actors -> PCs] /\ t # None
      /\ ts_wlock \in [Turnstiles -> Actors \cup {None}] /\ Threads \subseteq Actors /\ None \notin Threads
      /\ t_ts \in [Threads -> Turnstiles \cup {None}] /\ None \notin Turnstiles
      /\ lp[t] \in Mutexes /\ lp[t] # None
  BY IdleTyping DEF Release
<1>2. PICK s \in Turnstiles : s = ts[t]
  BY <1>1
<1>3. PICK w : w = Woken(ts_sleepq[s])
  OBVIOUS
<1>4. PICK q : q = [ts_sleepq EXCEPT ![s] = SleepqTakeOff(@, w)]
  OBVIOUS
<1>5. ts_wlock[s] = None /\ UNCHANGED <<mvars, ts_sobj, tsp_list, owner_lock, waiter, powner, panicstr>>
  BY <1>2 DEF Release
<1>6. waiter[t] = None /\ t_ts[t] = None
  BY <1>0, <1>1 DEF ActorOK, PlaceOK
<1>7. CASE ~SameSobj(t)
  <2>1. /\ Done(t) /\ UNCHANGED <<mvars, tsvars, ts_wlock, tvars, owner_lock, waiter, powner, panicstr>>
    BY <1>7 DEF Release, tsvars, tvars
  <2> QED
    BY <1>1, <1>7, <2>1, DoneKeeps DEF SameSobj
<1>8. CASE SameSobj(t)
  <2>1. /\ ts_wlock' = [ts_wlock EXCEPT ![s] = t] /\ pc' = [pc EXCEPT ![t] = "free"]
        /\ t_ts' = [u \in Threads |-> IF u \in w THEN None ELSE t_ts[u]] /\ UNCHANGED <<lp, ts>>
        /\ ts_sobj[s] = lp[t]
    BY <1>2, <1>3, <1>8 DEF Release, Goto, SameSobj
  <2>2. IF pi_benef[s] = t THEN PiWaive(q, s) ELSE NoWaive(q)
    BY <1>2, <1>3, <1>4, <1>8 DEF Release, MustWaive
  <2>3. \A u \in w : u \in Threads /\ t_ts[u] = s
    BY <1>0, <1>3, WokenAsleep
  <2>4. /\ Queues(q)
        /\ \A r \in Turnstiles : \A x : OnQueue(q[r], x) <=> (OnQueue(ts_sleepq[r], x) /\ ~(r = s /\ x \in w))
    <3>1. Queues(ts_sleepq)
      BY <1>0, QueuesOfInv
    <3>2. PICK d : d = SleepqTakeOff(ts_sleepq[s], w)
      OBVIOUS
    <3>3. ts_sleepq[s] \in Seq(Threads) /\ Distinct(ts_sleepq[s])
      BY <3>1 DEF Queues
    <3>4. d \in Seq(Threads) /\ Distinct(d) /\ \A x : OnQueue(d, x) <=> (OnQueue(ts_sleepq[s], x) /\ x \notin w)
      BY <3>2, <3>3, TakeOffRemoves
    <3>5. q = [ts_sleepq EXCEPT ![s] = d] /\ \A r \in Turnstiles : q[r] = IF r = s THEN d ELSE ts_sleepq[r]
      BY <1>4, <3>1, <3>2 DEF Queues
    <3>6. q \in [Turnstiles -> Seq(Threads)]
      BY <3>1, <3>4, <3>5 DEF Queues
    <3> QED
      BY <3>1, <3>4, <3>5, <3>6 DEF Queues
  <2>5. /\ Queues(ts_sleepq') /\ SameQueues(ts_sleepq', q) /\ t_epri' \in [Threads -> Nat]
        /\ pi_benef' \in [Turnstiles -> Threads \cup {None}] /\ pi_epri_hi' \in [Turnstiles -> Nat]
        /\ \A r \in Turnstiles : pi_benef'[r] \in {None, pi_benef[r]}
    BY <1>0, <1>1, <1>6, <2>2, <2>4, WaiveOrNot
  <2>6. pi_benef'[s] # t
    <3>1. CASE pi_benef[s] = t
      <4>1. pi_benef' = [pi_benef EXCEPT ![s] = None]
        BY <2>2, <3>1 DEF PiWaive
      <4> QED
        BY <1>0, <1>1, <4>1, Typing
    <3>2. CASE pi_benef[s] # t
      BY <1>1, <2>5, <3>2
    <3> QED
      BY <3>1, <3>2
  <2>7. Frame(t)
    BY <1>1, <1>5, <2>1 DEF Frame
  <2>8. \A u \in Threads, r \in Turnstiles : Serves(u, r) /\ ~(u = t /\ r = s) => Serves(u, r)'
    <3> SUFFICES ASSUME NEW u \in Threads, NEW r \in Turnstiles, Serves(u, r), ~(u = t /\ r = s) PROVE Serves(u, r)'
      OBVIOUS
    <3>1. CASE u # t
      BY <1>0, <1>1, <1>5, <2>7, <3>1, ServesFrame DEF mvars
    <3>2. CASE u = t
      <4>1. owner[ts_sobj[r]] = u
        BY <1>1, <1>2, <3>2 DEF Serves
      <4> QED
        BY <1>5, <4>1 DEF Serves, mvars
    <3> QED
      BY <3>1, <3>2
  <2>9. /\ \A u \in Threads : t_ts'[u] = IF u \in w THEN None ELSE t_ts[u]
        /\ t_ts' \in [Threads -> Turnstiles \cup {None}]
    BY <1>1, <2>1
  <2>10. Respects(t)
    <3>1. \A r \in Turnstiles : ts_wlock'[r] = IF r = s THEN t ELSE ts_wlock[r]
      BY <1>1, <2>1
    <3>2. \A r \in Turnstiles : r # s => \A u \in Threads : t_ts'[u] = r <=> t_ts[u] = r
      BY <1>1, <2>3, <2>9
    <3> QED
      BY <1>5, <2>8, <2>9, <3>1, <3>2 DEF Respects
  <2>11. pc'[t] = "free" /\ ts'[t] = s /\ waiter'[t] = None /\ lp'[t] = lp[t] /\ ts_sobj'[s] = lp[t] /\ t_ts'[t] = None
    BY <1>1, <1>2, <1>5, <1>6, <2>1, <2>9
  <2>12. \A r \in Turnstiles : ts_wlock'[r] = t <=> Locks(t, r)'
    <3>1. \A r \in Turnstiles : ts_wlock[r] # t
      BY <1>0, <1>1 DEF LockOK, Locks
    <3> QED
      BY <1>1, <2>1, <2>11, <3>1 DEF Locks
  <2>13. TypeOK'
    <3>1. pc' \in [Actors -> PCs] /\ ts_wlock' \in [Turnstiles -> Actors \cup {None}]
      BY <1>1, <2>1 DEF PCs
    <3>2. \A b \in Actors : pc'[b] \in {"verify", "recheck", "release", "free", "destroy", "dfree"} => ts'[b] # None
      BY <1>0, <1>1, <2>1 DEF TypeOK
    <3>3. ts_sleepq' \in [Turnstiles -> Seq(Threads)]
      BY <2>5 DEF Queues
    <3> QED
      BY <1>0, <1>5, <2>1, <2>5, <2>9, <3>1, <3>2, <3>3 DEF TypeOK, PCs, mvars
  <2>14. ActorOK(t)' /\ PlaceOK(t)'
    BY <1>1, <2>11 DEF ActorOK, PlaceOK
  <2>15. DestroyOK'
    <3>1. \A m \in Mutexes : ~Entering(t, m)'
      BY <2>11 DEF Entering, EnterPCs
    <3>2. pc'[t] \notin {"destroy", "dfree"} /\ lp'[t] \in Mutexes \cup {None}
      BY <1>1, <2>11
    <3> QED
      BY <1>0, <2>7, <3>1, <3>2, DestroyNext
  <2>16. AttachOK'
    <3>1. \A r \in Turnstiles : r \in tsp_list => pi_benef'[r] = None
      BY <1>0, <2>5 DEF AttachOK
    <3> QED
      BY <1>0, <1>5, <2>1, <2>9, <3>1 DEF AttachOK, mvars
  <2>17. QueueOK'
    <3> SUFFICES ASSUME NEW r \in Turnstiles
                 PROVE  Distinct(ts_sleepq'[r]) /\ \A u \in Threads : OnQueue(ts_sleepq'[r], u) <=> t_ts'[u] = r
      BY DEF QueueOK
    <3>1. Distinct(ts_sleepq'[r])
      BY <2>5 DEF Queues
    <3>2. \A u \in Threads : OnQueue(ts_sleepq'[r], u) <=> (t_ts[u] = r /\ ~(r = s /\ u \in w))
      BY <1>0, <2>4, <2>5 DEF SameQueues, QueueOK
    <3>3. \A u \in Threads : t_ts'[u] = r <=> (t_ts[u] = r /\ ~(r = s /\ u \in w))
      BY <1>1, <2>3, <2>9
    <3> QED
      BY <3>1, <3>2, <3>3
  <2>18. BenefOK'
    <3>1. \A r \in Turnstiles, b \in Threads : pi_benef'[r] = b => Serves(b, r)'
      <4> SUFFICES ASSUME NEW r \in Turnstiles, NEW b \in Threads, pi_benef'[r] = b PROVE Serves(b, r)'
        OBVIOUS
      <4>1. pi_benef[r] = b /\ ~(b = t /\ r = s)
        BY <1>1, <2>5, <2>6
      <4>2. Serves(b, r)
        BY <1>0, <1>1, <4>1 DEF BenefOK
      <4> QED
        BY <2>8, <4>1, <4>2
    <3> QED
      BY <2>5, <3>1, BenefNext
  <2> QED
    BY <1>1, <2>7, <2>10, <2>12, <2>13, <2>14, <2>15, <2>16, <2>17, <2>18, StepKeeps
<1> QED
  BY <1>7, <1>8

(* tstile_free(): an empty turnstile goes back to the pool. *)
LEMMA TstileFreeKeeps ==
  ASSUME Inv, NEW a \in Actors, TstileFree(a)
  PROVE  Inv'
<1>0. /\ TypeOK /\ LockOK /\ (\A b \in Actors : ActorOK(b)) /\ (\A u \in Threads : PlaceOK(u))
      /\ DestroyOK /\ AttachOK /\ QueueOK /\ BenefOK /\ ClockOK
  BY DEF Inv
<1>1. /\ pc \in [Actors -> PCs] /\ ts \in [Actors -> Turnstiles \cup {None}] /\ waiter \in [Actors -> Threads \cup {None}]
      /\ ts_wlock \in [Turnstiles -> Actors \cup {None}] /\ Threads \subseteq Actors /\ None \notin Threads
      /\ t_ts \in [Threads -> Turnstiles \cup {None}] /\ None \notin Turnstiles /\ None \notin Actors
      /\ lp \in [Threads -> Mutexes \cup {None}] /\ ts_sobj \in [Turnstiles -> Mutexes \cup {None}]
      /\ m_waiters \in [Mutexes -> Turnstiles \cup {None}] /\ None \notin Mutexes /\ Clock \notin Threads
      /\ pi_benef \in [Turnstiles -> Threads \cup {None}]
  BY <1>0, Typing
<1>2. pc[a] \in {"free", "dfree"} /\ UNCHANGED <<owner, t_ts, owner_lock, powner, panicstr>>
  BY DEF TstileFree
<1>3. PICK s \in Turnstiles : s = ts[a]
  BY <1>0, <1>1, <1>2 DEF TypeOK
<1>4. \A r \in Turnstiles : ts_wlock[r] = a <=> r = s
  BY <1>0, <1>2, <1>3 DEF LockOK, Locks
<1>5. /\ ts_wlock' = [ts_wlock EXCEPT ![s] = None]
      /\ ts' = [ts EXCEPT ![a] = None] /\ waiter' = [waiter EXCEPT ![a] = None]
      /\ IF a \in Threads /\ waiter[a] # None
         THEN pc' = [pc EXCEPT ![a] = "swtch"] /\ UNCHANGED lp
         ELSE pc' = [pc EXCEPT ![a] = "run"] /\ lp' = [t \in Threads |-> IF t = a THEN None ELSE lp[t]]
  BY <1>3 DEF TstileFree, Goto
<1>6. PICK m \in Mutexes : m = ts_sobj[s] /\ ts_sobj[s] # None
  <2>1. CASE pc[a] = "free"
    BY <1>0, <1>1, <1>3, <2>1 DEF ActorOK
  <2>2. CASE pc[a] = "dfree"
    <3>1. a \in Threads
      BY <1>0, <2>2 DEF ClockOK, Actors
    <3> QED
      BY <1>0, <1>1, <1>3, <2>2, <3>1 DEF PlaceOK
  <2> QED
    BY <1>2, <2>1, <2>2
<1>7. s \notin tsp_list
  BY <1>0, <1>6 DEF AttachOK
(* The two outcomes. *)
<1>8. \/ /\ \A u \in Threads : t_ts[u] # s
         /\ m_waiters' = [m_waiters EXCEPT ![m] = None]
         /\ (pi_benef[s] # None /\ PiWaive(ts_sleepq, s)) \/ (pi_benef[s] = None /\ NoWaive(ts_sleepq))
         /\ ts_sobj' = [ts_sobj EXCEPT ![s] = None] /\ tsp_list' = tsp_list \cup {s}
      \/ /\ UNCHANGED <<m_waiters, ts_sobj, ts_sleepq, pi_benef, pi_epri_hi, tsp_list, t_epri>> /\ pc[a] = "free"
  <2>1. CASE IsEmpty(s)
    <3>1. \A u \in Threads : t_ts[u] # s
      BY <1>0, <2>1 DEF IsEmpty, QueueOK, OnQueue
    <3>2. /\ m_waiters' = [m_waiters EXCEPT ![ts_sobj[s]] = None]
          /\ ts_sobj' = [ts_sobj EXCEPT ![s] = None] /\ tsp_list' = tsp_list \cup {s}
      BY <1>3, <2>1 DEF TstileFree
    <3>3. (pi_benef[s] # None /\ PiWaive(ts_sleepq, s)) \/ (pi_benef[s] = None /\ NoWaive(ts_sleepq))
      <4>1. /\ pi_benef[s] = None => NoWaive(ts_sleepq)
            /\ pi_benef[s] # None => PiWaive(ts_sleepq, s)
        BY <1>3, <2>1 DEF TstileFree
      <4> QED
        BY <4>1
    <3> QED
      BY <1>6, <3>1, <3>2, <3>3
  <2>2. CASE ~IsEmpty(s)
    <3>1. UNCHANGED <<m_waiters, ts_sobj, ts_sleepq, pi_benef, pi_epri_hi, tsp_list, t_epri>>
      BY <1>3, <2>2 DEF TstileFree, tsvars
    <3>2. PICK u \in Threads : t_ts[u] = s
      <4>1. ts_sleepq[s] \in Seq(Threads) /\ ts_sleepq[s] # << >>
        BY <1>0, <2>2, Typing DEF IsEmpty
      <4>2. ts_sleepq[s][1] \in Threads /\ OnQueue(ts_sleepq[s], ts_sleepq[s][1])
        BY <4>1 DEF OnQueue
      <4> QED
        BY <1>0, <4>2 DEF QueueOK
    <3>3. pc[a] # "dfree"
      <4> SUFFICES ASSUME pc[a] = "dfree" PROVE FALSE
        OBVIOUS
      <4>1. a \in Threads
        BY <1>0 DEF ClockOK, Actors
      <4>2. ts_sobj[s] = lp[a] /\ ts_sobj[s] = lp[u]
        BY <1>0, <1>1, <1>3, <3>2, <4>1 DEF PlaceOK, AttachOK
      <4>3. Entering(u, lp[a])
        BY <1>0, <1>1, <3>2, <4>2 DEF PlaceOK, Entering, EnterPCs
      <4> QED
        BY <1>0, <4>1, <4>3 DEF DestroyOK
    <3> QED
      BY <1>2, <3>1, <3>3
  <2> QED
    BY <2>1, <2>2
<1>9. /\ Queues(ts_sleepq') /\ SameQueues(ts_sleepq', ts_sleepq) /\ t_epri' \in [Threads -> Nat]
      /\ pi_benef' \in [Turnstiles -> Threads \cup {None}] /\ pi_epri_hi' \in [Turnstiles -> Nat]
      /\ \A r \in Turnstiles : pi_benef'[r] \in {None, pi_benef[r]}
  <2>1. Queues(ts_sleepq) /\ \A u \in Threads : t_ts[u] # None => OnQueue(ts_sleepq[t_ts[u]], u)
    BY <1>0, QueuesOfInv
  <2>2. CASE pi_benef[s] # None /\ PiWaive(ts_sleepq, s)
    <3>1. t_ts[pi_benef[s]] # None => OnQueue(ts_sleepq[t_ts[pi_benef[s]]], pi_benef[s])
      BY <1>1, <2>1, <2>2
    <3> QED
      BY <1>0, <2>1, <2>2, <3>1, WaiveOrNot
  <2>3. CASE NoWaive(ts_sleepq)
    BY <1>0, <2>1, <2>3, WaiveOrNot
  <2>4. CASE UNCHANGED <<ts_sleepq, pi_benef, pi_epri_hi, t_epri>>
    BY <1>0, <2>1, <2>4, WaiveOrNot DEF NoWaive
  <2> QED
    BY <1>8, <2>2, <2>3, <2>4
<1>10. /\ ts_sobj' \in [Turnstiles -> Mutexes \cup {None}] /\ m_waiters' \in [Mutexes -> Turnstiles \cup {None}]
       /\ tsp_list' \subseteq Turnstiles
       /\ \A r \in Turnstiles : r # s => ts_sobj'[r] = ts_sobj[r]
  BY <1>0, <1>1, <1>8 DEF TypeOK
<1>11. Frame(a)
  BY <1>1, <1>2, <1>5 DEF Frame
<1>12. \A u \in Threads, r \in Turnstiles :
         Serves(u, r) /\ (r # s \/ (ts_sobj' = ts_sobj /\ pc[a] = "free")) => Serves(u, r)'
  <2> SUFFICES ASSUME NEW u \in Threads, NEW r \in Turnstiles, Serves(u, r),
                      r # s \/ (ts_sobj' = ts_sobj /\ pc[a] = "free")
               PROVE  Serves(u, r)'
    OBVIOUS
  <2>1. ts_sobj'[r] = ts_sobj[r]
    BY <1>10
  <2>2. CASE u # a \/ pc[a] = "free"
    BY <1>0, <1>2, <1>11, <2>1, <2>2, ServesFrame
  <2>3. CASE u = a /\ pc[a] = "dfree"
    <3>1. owner[ts_sobj[r]] = u
      BY <1>3, <2>3 DEF Serves
    <3> QED
      BY <1>2, <2>1, <3>1 DEF Serves
  <2> QED
    BY <1>2, <2>2, <2>3
<1>13. Respects(a)
  <2>1. \A r \in Turnstiles : ts_wlock'[r] = IF r = s THEN None ELSE ts_wlock[r]
    BY <1>1, <1>5
  <2>2. \A r \in Turnstiles : ts_wlock[r] \notin {None, a} => r # s
    BY <1>4
  <2> QED
    BY <1>2, <1>4, <1>10, <1>12, <2>1, <2>2 DEF Respects
<1>14. /\ ts'[a] = None /\ waiter'[a] = None
       /\ \/ a \in Threads /\ waiter[a] # None /\ pc'[a] = "swtch" /\ pc[a] = "free" /\ lp' = lp
          \/ pc'[a] = "run" /\ (a \in Threads => lp'[a] = None /\ t_ts[a] = None)
  BY <1>0, <1>1, <1>2, <1>5 DEF ActorOK, PlaceOK
<1>15. \A r \in Turnstiles : ts_wlock'[r] = a <=> Locks(a, r)'
  BY <1>1, <1>4, <1>5, <1>14 DEF Locks
<1>16. TypeOK'
  <2>1. /\ pc' \in [Actors -> PCs] /\ ts' \in [Actors -> Turnstiles \cup {None}]
        /\ waiter' \in [Actors -> Threads \cup {None}] /\ ts_wlock' \in [Turnstiles -> Actors \cup {None}]
        /\ lp' \in [Threads -> Mutexes \cup {None}]
    BY <1>1, <1>5 DEF PCs, EnterPCs
  <2>2. \A b \in Actors : pc'[b] \in {"verify", "recheck", "release", "free", "destroy", "dfree"} => ts'[b] # None
    BY <1>0, <1>11, <1>14 DEF TypeOK, Frame
  <2>3. ts_sleepq' \in [Turnstiles -> Seq(Threads)]
    BY <1>9 DEF Queues
  <2> QED
    BY <1>0, <1>2, <1>9, <1>10, <2>1, <2>2, <2>3 DEF TypeOK, PCs
<1>17. ActorOK(a)' /\ (a = Clock => ClockOK')
  BY <1>1, <1>14 DEF ActorOK, ClockOK
<1>18. a \in Threads => PlaceOK(a)'
  BY <1>0, <1>1, <1>2, <1>14 DEF PlaceOK
<1>19. DestroyOK'
  <2>1. CASE a \in Threads
    <3>1. \A x \in Mutexes : Entering(a, x)' => Entering(a, x)
      BY <1>14 DEF Entering, EnterPCs
    <3>2. pc'[a] \notin {"destroy", "dfree"}
      BY <1>14
    <3>3. lp'[a] \in Mutexes \cup {None}
      BY <1>16, <2>1 DEF TypeOK
    <3> QED
      BY <1>0, <1>11, <2>1, <3>1, <3>2, <3>3, DestroyNext
  <2>2. CASE a \notin Threads
    <3>1. \A u \in Threads : pc'[u] = pc[u] /\ waiter'[u] = waiter[u] /\ lp'[u] = lp[u]
      BY <1>1, <1>11, <2>2 DEF Frame
    <3> QED
      BY <1>0, <3>1 DEF DestroyOK, Entering
  <2> QED
    BY <2>1, <2>2
<1>20. AttachOK'
  <2>1. \A u \in Threads : t_ts[u] # None => lp'[u] = lp[u]
    BY <1>11, <1>14 DEF Frame
  <2>2. \A r \in Turnstiles : r \in tsp_list' => pi_benef'[r] = None
    <3>1. CASE tsp_list' = tsp_list
      BY <1>0, <1>9, <3>1 DEF AttachOK
    <3>2. CASE /\ (pi_benef[s] # None /\ PiWaive(ts_sleepq, s)) \/ (pi_benef[s] = None /\ NoWaive(ts_sleepq))
               /\ tsp_list' = tsp_list \cup {s}
      <4>1. pi_benef'[s] = None
        BY <1>1, <3>2 DEF PiWaive, NoWaive
      <4> QED
        BY <1>0, <1>9, <3>2, <4>1 DEF AttachOK
    <3> QED
      BY <1>8, <3>1, <3>2
  <2>3. CASE UNCHANGED <<m_waiters, ts_sobj, tsp_list>>
    BY <1>0, <1>2, <2>1, <2>2, <2>3 DEF AttachOK
  <2>4. CASE /\ \A u \in Threads : t_ts[u] # s
             /\ m_waiters' = [m_waiters EXCEPT ![m] = None]
             /\ ts_sobj' = [ts_sobj EXCEPT ![s] = None] /\ tsp_list' = tsp_list \cup {s}
    <3>1. \A x \in Mutexes : \A r \in Turnstiles : m_waiters'[x] = r <=> ts_sobj'[r] = x
      <4> SUFFICES ASSUME NEW x \in Mutexes, NEW r \in Turnstiles PROVE m_waiters'[x] = r <=> ts_sobj'[r] = x
        OBVIOUS
      <4>1. (m_waiters[x] = r <=> ts_sobj[r] = x) /\ (m_waiters[x] = s <=> ts_sobj[s] = x) /\ (m_waiters[m] = r <=> ts_sobj[r] = m)
        BY <1>0 DEF AttachOK
      <4>2. m_waiters'[x] = (IF x = m THEN None ELSE m_waiters[x]) /\ ts_sobj'[r] = (IF r = s THEN None ELSE ts_sobj[r])
        BY <1>1, <2>4
      <4>3. m_waiters[m] = s
        BY <1>0, <1>6 DEF AttachOK
      <4> QED
        BY <1>1, <1>6, <4>1, <4>2, <4>3
    <3>2. \A r \in Turnstiles : r \in tsp_list' <=> ts_sobj'[r] = None
      BY <1>0, <1>1, <2>4 DEF AttachOK
    <3>3. \A u \in Threads : t_ts[u] # None => ts_sobj'[t_ts[u]] = lp[u]
      <4> SUFFICES ASSUME NEW u \in Threads, t_ts[u] # None PROVE ts_sobj'[t_ts[u]] = lp[u]
        OBVIOUS
      <4>1. t_ts[u] \in Turnstiles /\ t_ts[u] # s /\ ts_sobj[t_ts[u]] = lp[u]
        BY <1>0, <1>1, <2>4 DEF AttachOK
      <4> QED
        BY <1>10, <4>1
    <3> QED
      BY <1>2, <2>1, <2>2, <3>1, <3>2, <3>3 DEF AttachOK
  <2> QED
    BY <1>8, <2>3, <2>4
<1>21. QueueOK'
  BY <1>0, <1>2, <1>9, QueuesSame
<1>22. BenefOK'
  <2>1. \A r \in Turnstiles, b \in Threads : pi_benef'[r] = b => Serves(b, r)'
    <3> SUFFICES ASSUME NEW r \in Turnstiles, NEW b \in Threads, pi_benef'[r] = b PROVE Serves(b, r)'
      OBVIOUS
    <3>1. pi_benef[r] = b
      BY <1>1, <1>9
    <3>2. Serves(b, r)
      BY <1>0, <1>1, <3>1 DEF BenefOK
    <3>3. CASE r # s
      BY <1>12, <3>2, <3>3
    <3>4. CASE r = s
      <4>1. ts_sobj' = ts_sobj /\ pc[a] = "free"
        <5>1. ~(pi_benef[s] # None /\ PiWaive(ts_sleepq, s)) /\ ~(pi_benef[s] = None /\ NoWaive(ts_sleepq))
          BY <1>1, <3>1, <3>4 DEF PiWaive
        <5> QED
          BY <1>8, <5>1
      <4> QED
        BY <1>12, <3>2, <4>1
    <3> QED
      BY <3>3, <3>4
  <2> QED
    BY <1>9, <2>1, BenefNext
<1> QED
  BY <1>11, <1>13, <1>15, <1>16, <1>17, <1>18, <1>19, <1>20, <1>21, <1>22, StepKeeps

(* setrun() takes a sleeper off its turnstile. *)
LEMMA SetrunKeeps ==
  ASSUME Inv, NEW t \in Threads, Setrun(t)
  PROVE  Inv'
<1>0. /\ TypeOK /\ LockOK
  BY DEF Inv
<1>1. /\ pc \in [Actors -> PCs] /\ waiter \in [Actors -> Threads \cup {None}] /\ Clock \notin Threads
      /\ ts_wlock \in [Turnstiles -> Actors \cup {None}] /\ Threads \subseteq Actors /\ None \notin Threads
      /\ ts \in [Actors -> Turnstiles \cup {None}] /\ t_ts \in [Threads -> Turnstiles \cup {None}]
      /\ Clock \in Actors /\ None \notin Turnstiles
  BY <1>0, Typing
<1>2. /\ pc[Clock] = "run" /\ t_ts[t] # None /\ ts_wlock[t_ts[t]] = None /\ MutexUnsleep(t)
      /\ UNCHANGED <<mvars, ts_sobj, pi_benef, pi_epri_hi, tsp_list, t_epri, lp, owner_lock, powner, panicstr>>
  BY DEF Setrun, Asleep, ThreadLockFree
<1>3. PICK s \in Turnstiles : s = t_ts[t]
  BY <1>1, <1>2
<1>4. /\ pc' = [pc EXCEPT ![Clock] = "free"] /\ ts' = [ts EXCEPT ![Clock] = s]
      /\ waiter' = [waiter EXCEPT ![Clock] = t] /\ ts_wlock' = [ts_wlock EXCEPT ![s] = Clock]
  BY <1>3 DEF Setrun, Goto
<1>5. pc'[Clock] = "free" /\ ts'[Clock] = s /\ waiter'[Clock] = t
  BY <1>1, <1>4
<1>6. Frame(Clock)
  BY <1>1, <1>2, <1>4 DEF Frame
<1>7. ts_sleepq' \in [Turnstiles -> Seq(Threads)] /\ t_ts' \in [Threads -> Turnstiles \cup {None}]
  BY <1>0, <1>2, MutexUnsleepKeeps DEF Inv
<1>8. TypeOK'
  <2>1. /\ pc' \in [Actors -> PCs] /\ ts' \in [Actors -> Turnstiles \cup {None}]
        /\ waiter' \in [Actors -> Threads \cup {None}] /\ ts_wlock' \in [Turnstiles -> Actors \cup {None}]
    BY <1>1, <1>4 DEF PCs
  <2>2. \A b \in Actors : pc'[b] \in {"verify", "recheck", "release", "free", "destroy", "dfree"} => ts'[b] # None
    BY <1>0, <1>1, <1>4 DEF TypeOK
  <2> QED
    BY <1>0, <1>2, <1>7, <2>1, <2>2 DEF TypeOK, PCs, mvars
<1>9. /\ ts_wlock[s] \in {None, Clock} /\ (\A r \in Turnstiles : ts_wlock[r] = Clock => r = s)
      /\ Clock # t /\ lp' = lp /\ UNCHANGED <<mvars, ts_sobj, pi_benef, pi_epri_hi, tsp_list, t_epri>>
  BY <1>0, <1>1, <1>2, <1>3 DEF LockOK, Locks
<1> QED
  BY <1>1, <1>2, <1>3, <1>4, <1>5, <1>6, <1>8, <1>9, UnsleepKeeps

-----------------------------------------------------------------------
(* Together. *)

(* The invariant holds at the start. *)
LEMMA InvInit == Init => Inv
<1> SUFFICES ASSUME Init PROVE Inv
  OBVIOUS
<1>0. /\ Threads \subseteq Actors /\ Clock \notin Threads /\ None \notin Actors /\ None \notin Mutexes
      /\ None \notin Turnstiles /\ None \notin Threads /\ Clock \in Actors
  BY MutexAssumption DEF Actors
<1>1. TypeOK
  <2>1. /\ owner \in [Mutexes -> Threads \cup {None}] /\ m_waiters \in [Mutexes -> Turnstiles \cup {None}]
        /\ ts_sobj \in [Turnstiles -> Mutexes \cup {None}] /\ ts_sleepq \in [Turnstiles -> Seq(Threads)]
        /\ pi_benef \in [Turnstiles -> Threads \cup {None}] /\ pi_epri_hi \in [Turnstiles -> Nat]
        /\ ts_wlock \in [Turnstiles -> Actors \cup {None}] /\ tsp_list \subseteq Turnstiles
    BY DEF Init
  <2>2. /\ t_ts \in [Threads -> Turnstiles \cup {None}] /\ t_epri \in [Threads -> Nat]
        /\ pc \in [Actors -> PCs] /\ lp \in [Threads -> Mutexes \cup {None}] /\ panicstr \in BOOLEAN
        /\ owner_lock \in [Threads -> Threads \cup {None}] /\ powner \in [Threads -> Threads \cup {None}]
        /\ ts \in [Actors -> Turnstiles \cup {None}] /\ waiter \in [Actors -> Threads \cup {None}]
    BY DEF Init, PCs
  <2>3. \A b \in Actors : pc[b] = "run"
    BY DEF Init
  <2> QED
    BY <2>1, <2>2, <2>3 DEF TypeOK, PCs
<1>2. (\A b \in Actors : pc[b] = "run" /\ waiter[b] = None) /\ \A u \in Threads : lp[u] = None /\ t_ts[u] = None
  BY DEF Init
<1>3. (\A b \in Actors : ActorOK(b)) /\ (\A u \in Threads : PlaceOK(u)) /\ ClockOK /\ DestroyOK
  BY <1>0, <1>2 DEF ActorOK, PlaceOK, ClockOK, DestroyOK
<1>4. LockOK
  BY <1>0, <1>2 DEF Init, LockOK, Locks
<1>5. AttachOK /\ BenefOK
  BY <1>0 DEF Init, AttachOK, BenefOK
<1>6. QueueOK
  BY <1>0 DEF Init, QueueOK, Distinct, OnQueue
<1> QED
  BY <1>1, <1>3, <1>4, <1>5, <1>6 DEF Inv

(* Every step keeps it. *)
LEMMA InvNext == Inv /\ [Next]_vars => Inv'
<1> SUFFICES ASSUME Inv, [Next]_vars PROVE Inv'
  OBVIOUS
<1>1. CASE UNCHANGED vars
  <2>1. /\ UNCHANGED <<owner, m_waiters, ts_sobj, ts_sleepq, pi_benef, pi_epri_hi, tsp_list, ts_wlock, t_ts, t_epri>>
        /\ UNCHANGED <<pc, lp, owner_lock, ts, waiter, powner, panicstr>>
    BY <1>1 DEF vars, mvars, tsvars, tvars, locals
  <2> QED
    BY <2>1 DEF Inv, TypeOK, ActorOK, PlaceOK, ClockOK, LockOK, Locks, DestroyOK, Entering, AttachOK, QueueOK, BenefOK, Serves
<1>2. CASE Panic
  <2>1. /\ UNCHANGED <<owner, m_waiters, ts_sobj, ts_sleepq, pi_benef, pi_epri_hi, tsp_list, ts_wlock, t_ts, t_epri>>
        /\ UNCHANGED <<pc, lp, owner_lock, ts, waiter, powner>> /\ panicstr' = TRUE
    BY <1>2 DEF Panic, mvars, tsvars, tvars, locals
  <2> QED
    BY <2>1 DEF Inv, TypeOK, ActorOK, PlaceOK, ClockOK, LockOK, Locks, DestroyOK, Entering, AttachOK, QueueOK, BenefOK, Serves
<1>3. ASSUME NEW a \in Actors, TstileFree(a) PROVE Inv'
  BY <1>3, TstileFreeKeeps
<1>4. ASSUME NEW t \in Threads, NEW m \in Mutexes,
             MutexEnter(t, m) \/ MutexTryenter(t, m) \/ MutexExit(t, m) \/ MutexDestroy(t, m)
      PROVE  Inv'
  BY <1>4, MutexEnterKeeps, MutexTryenterKeeps, MutexExitKeeps, MutexDestroyKeeps
<1>5. ASSUME NEW t \in Threads, EnterStep(t) PROVE Inv'
  <2>1. CASE AllocLost(t)
    BY <2>1, LoopAgainKeeps DEF AllocLost
  <2> QED
    BY <1>5, <2>1, PanicReturnKeeps, SpinKeeps, LookKeeps, AllocKeeps, VerifyKeeps, RecheckKeeps,
       PiOwnerKeeps, PiInheritKeeps, SwtchKeeps, TryKeeps DEF EnterStep
<1>6. ASSUME NEW t \in Threads, ExitStep(t) PROVE Inv'
  BY <1>6, LoadWaitersKeeps, ReleaseKeeps, DestroyLockKeeps DEF ExitStep
<1>7. ASSUME NEW t \in Threads, Setrun(t) PROVE Inv'
  BY <1>7, SetrunKeeps
<1> QED
  BY <1>1, <1>2, <1>3, <1>4, <1>5, <1>6, <1>7 DEF Next, Call

(* The inductive invariant of mutexes, turnstiles and pirecs. *)
THEOREM MutexInv == Spec => []Inv
BY InvInit, InvNext, PTL DEF Spec

(* A turnstile belongs to one mutex at a time and its sleepers sleep for   *)
(* that mutex, whatever the interleaving of mutex_adaptive_enter(),        *)
(* mutex_adaptive_release(), mutex_destroy(), pi_willto() and setrun();    *)
(* and what is inherited through it is inherited by one that will waive it.*)
THEOREM MutexSoundHolds == Spec => []MutexSound
<1>1. Inv => MutexSound
  <2> SUFFICES ASSUME Inv PROVE MutexSound
    OBVIOUS
  <2>1. TypeOK /\ AttachOK /\ QueueOK /\ BenefOK
    BY DEF Inv
  <2>2. BeneficiarySound
    BY <2>1 DEF BenefOK, Serves, BeneficiarySound
  <2>3. \A s \in Turnstiles : s \in tsp_list => ts_sleepq[s] = << >>
    <3> SUFFICES ASSUME NEW s \in Turnstiles, s \in tsp_list, ts_sleepq[s] # << >> PROVE FALSE
      OBVIOUS
    <3>1. ts_sleepq[s] \in Seq(Threads) /\ ts_sobj[s] = None
      BY <2>1, Typing DEF AttachOK
    <3>2. OnQueue(ts_sleepq[s], ts_sleepq[s][1])
      BY <3>1 DEF OnQueue
    <3>3. PICK u \in Threads : t_ts[u] = s
      BY <2>1, <3>2, QueuesOfInv
    <3>4. lp[u] = None /\ pc[u] # "run"
      BY <2>1, <3>1, <3>3, Typing DEF AttachOK, Inv, PlaceOK
    <3> QED
      BY <3>4 DEF Inv, PlaceOK
  <2>4. TurnstileSound
    BY <2>1, <2>3 DEF TurnstileSound, AttachOK, QueueOK, Asleep
  <2> QED
    BY <2>1, <2>2, <2>4 DEF MutexSound
<1> QED
  BY <1>1, MutexInv, PTL

-----------------------------------------------------------------------
(* No wakeup is lost. *)

(* Thread u is awake and will try for mutex m, or wake who sleeps for it. *)
Carries(u, m) ==
  /\ ~Asleep(u)
  /\ \/ Entering(u, m)
     \/ lp[u] = m /\ pc[u] = "exit"
     \/ lp[u] = m /\ pc[u] = "release" /\ ts[u] = m_waiters[m]
SleepsFor(u, m) == t_ts[u] # None /\ lp[u] = m

(* A thread that sleeps for m sleeps on its turnstile, and is inside       *)
(* mutex_enter().                                                          *)
LEMMA SleeperOf ==
  ASSUME Inv, NEW m \in Mutexes, NEW u \in Threads, SleepsFor(u, m)
  PROVE  m_waiters[m] = t_ts[u] /\ t_ts[u] \in Turnstiles /\ ts_sobj[t_ts[u]] = m /\ Entering(u, m)
<1>1. t_ts[u] \in Turnstiles
  BY IdleTyping DEF SleepsFor
<1>2. ts_sobj[t_ts[u]] = m /\ m_waiters[m] = t_ts[u]
  BY <1>1 DEF Inv, AttachOK, SleepsFor
<1>3. Entering(u, m)
  BY DEF Inv, PlaceOK, Entering, EnterPCs, SleepsFor
<1> QED
  BY <1>1, <1>2, <1>3

(* What a step of actor a has to show: a mutex that is free and slept for  *)
(* was so before, or somebody is there to care for it; and if a was the    *)
(* one to care, somebody still is.                                         *)
LEMMA WakeupNext ==
  ASSUME Inv, NoLostWakeup, NEW a \in Actors, Frame(a), UNCHANGED panicstr,
         \A b \in Threads \ {a} : t_ts'[b] \in {t_ts[b], None},
         \A m \in Mutexes, u \in Threads : owner'[m] = None /\ SleepsFor(u, m)' =>
           /\ SleepsFor(u, m) /\ m_waiters'[m] = m_waiters[m]
           /\ owner[m] = None \/ \E b \in Threads : Carries(b, m)',
         \A m \in Mutexes, u \in Threads : owner'[m] = None /\ SleepsFor(u, m)' /\ a \in Threads /\ Carries(a, m) =>
           \E b \in Threads : Carries(b, m)'
  PROVE  NoLostWakeup'
<1> SUFFICES ASSUME NEW m \in Mutexes, ~panicstr, owner'[m] = None,
                    NEW u \in Threads, SleepsFor(u, m)'
             PROVE  \E b \in Threads : Carries(b, m)'
  BY DEF NoLostWakeup, Carries, SleepsFor, Asleep
<1>1. SleepsFor(u, m) /\ m_waiters'[m] = m_waiters[m] /\ (owner[m] = None \/ \E b \in Threads : Carries(b, m)')
  OBVIOUS
<1>2. CASE owner[m] = None
  <2>1. PICK b \in Threads : Carries(b, m)
    BY <1>1, <1>2 DEF NoLostWakeup, Carries, SleepsFor, Asleep
  <2>2. CASE b = a
    BY <2>1, <2>2
  <2>3. CASE b # a
    <3>1. /\ pc'[b] = pc[b] /\ lp'[b] = lp[b] /\ ts'[b] = ts[b] /\ waiter'[b] = waiter[b]
          /\ t_ts'[b] \in {t_ts[b], None}
      BY <2>3 DEF Frame, Actors
    <3>2. Carries(b, m)'
      BY <1>1, <2>1, <3>1 DEF Carries, Entering, Asleep
    <3> QED
      BY <3>2
  <2> QED
    BY <2>2, <2>3
<1> QED
  BY <1>1, <1>2

(* A step that puts nobody to sleep and wakes nobody. *)
LEMMA WakeupQuiet ==
  ASSUME Inv, NoLostWakeup, NEW a \in Actors, Frame(a), UNCHANGED <<m_waiters, t_ts, panicstr>>,
         \A m \in Mutexes : owner'[m] = None => owner[m] = None,
         a \in Threads /\ t_ts[a] # None => lp'[a] = lp[a],
         \A m \in Mutexes : a \in Threads /\ Carries(a, m) /\ owner'[m] = None => Carries(a, m)'
  PROVE  NoLostWakeup'
<1>1. \A m \in Mutexes, u \in Threads : SleepsFor(u, m)' => SleepsFor(u, m)
  BY DEF SleepsFor, Frame
<1> QED
  BY <1>1, WakeupNext

(* A step of a thread that stays inside mutex_enter(). *)
LEMMA WakeupEnter ==
  ASSUME Inv, NoLostWakeup, NEW t \in Threads, Frame(t), pc[t] \in EnterPCs, pc'[t] \in EnterPCs,
         UNCHANGED <<owner, m_waiters, t_ts, lp, panicstr>>
  PROVE  NoLostWakeup'
<1>1. \A m \in Mutexes : Carries(t, m) => Carries(t, m)'
  BY DEF Carries, Entering, Asleep, EnterPCs
<1>2. t \in Actors
  BY DEF Actors
<1> QED
  BY <1>1, <1>2, WakeupQuiet

(* The steps of mutex_enter() lose no wakeup. *)
LEMMA EnterStepWakeup ==
  ASSUME Inv, NoLostWakeup, NEW t \in Threads, EnterStep(t)
  PROVE  NoLostWakeup'
<1>0. /\ t \in Actors /\ pc \in [Actors -> PCs] /\ lp \in [Threads -> Mutexes \cup {None}] /\ t # None
      /\ ts \in [Actors -> Turnstiles \cup {None}] /\ waiter \in [Actors -> Threads \cup {None}]
      /\ owner_lock \in [Threads -> Threads \cup {None}] /\ powner \in [Threads -> Threads \cup {None}]
      /\ owner \in [Mutexes -> Threads \cup {None}] /\ Threads \subseteq Actors
      /\ lp[t] \in Mutexes \cup {None} /\ t_ts \in [Threads -> Turnstiles \cup {None}]
  BY IdleTyping
<1>1. CASE PanicReturn(t)
  BY <1>1 DEF PanicReturn, NoLostWakeup
<1>2. CASE Spin(t)
  <2>1. Frame(t) /\ pc[t] \in EnterPCs /\ pc'[t] \in EnterPCs /\ UNCHANGED <<owner, m_waiters, t_ts, lp, panicstr>>
    BY <1>0, <1>2 DEF Frame, Spin, Goto, EnterPCs, mvars, tvars
  <2> QED
    BY <2>1, WakeupEnter
<1>3. CASE Look(t)
  <2>1. Frame(t) /\ pc[t] \in EnterPCs /\ pc'[t] \in EnterPCs /\ UNCHANGED <<owner, m_waiters, t_ts, lp, panicstr>>
    BY <1>0, <1>3 DEF Frame, Look, Goto, EnterPCs, mvars, tvars
  <2> QED
    BY <2>1, WakeupEnter
<1>4. CASE Alloc(t)
  <2>1. PICK s \in Turnstiles : ts' = [ts EXCEPT ![t] = s] /\ m_waiters' = [m_waiters EXCEPT ![lp[t]] = s]
    BY <1>4 DEF Alloc
  <2>2. /\ pc' = [pc EXCEPT ![t] = "recheck"] /\ m_waiters[lp[t]] = None /\ pc[t] = "alloc"
        /\ UNCHANGED <<owner, t_ts, lp, owner_lock, waiter, powner, panicstr>>
    BY <1>4 DEF Alloc, Goto, tvars
  <2>3. Frame(t)
    BY <1>0, <2>1, <2>2 DEF Frame
  <2>4. \A m \in Mutexes : Carries(t, m) => Carries(t, m)'
    BY <1>0, <2>2 DEF Carries, Entering, Asleep, EnterPCs
  <2>5. \A m \in Mutexes, u \in Threads : SleepsFor(u, m)' => SleepsFor(u, m) /\ m_waiters'[m] = m_waiters[m]
    <3> SUFFICES ASSUME NEW m \in Mutexes, NEW u \in Threads, SleepsFor(u, m) PROVE m_waiters'[m] = m_waiters[m]
      BY <2>2 DEF SleepsFor
    <3>1. m_waiters[m] # None
      BY SleeperOf DEF SleepsFor
    <3>2. m_waiters \in [Mutexes -> Turnstiles \cup {None}]
      BY IdleTyping
    <3> QED
      BY <2>1, <2>2, <3>1, <3>2
  <2> QED
    BY <1>0, <2>2, <2>3, <2>4, <2>5, WakeupNext
<1>5. CASE AllocLost(t)
  <2>1. Frame(t) /\ pc[t] \in EnterPCs /\ pc'[t] \in EnterPCs /\ UNCHANGED <<owner, m_waiters, t_ts, lp, panicstr>>
    BY <1>0, <1>5 DEF Frame, AllocLost, LoopAgain, Goto, EnterPCs, mvars, tvars
  <2> QED
    BY <2>1, WakeupEnter
<1>6. CASE Verify(t)
  <2>1. Frame(t) /\ pc[t] \in EnterPCs /\ pc'[t] \in EnterPCs /\ UNCHANGED <<owner, m_waiters, t_ts, lp, panicstr>>
    BY <1>0, <1>6 DEF Frame, Verify, LoopAgain, Goto, EnterPCs, mvars, tvars
  <2> QED
    BY <2>1, WakeupEnter
<1>7. CASE Recheck(t)
  <2>0. /\ pc[t] = "recheck" /\ UNCHANGED <<owner, m_waiters, lp, powner, panicstr>>
    BY <1>7 DEF Recheck, mvars
  <2>1. CASE StillOwned(t)
    <3>1. /\ pc' = [pc EXCEPT ![t] = "pi"] /\ waiter' = [waiter EXCEPT ![t] = t] /\ ts' = [ts EXCEPT ![t] = None]
          /\ owner_lock' = [owner_lock EXCEPT ![t] = None] /\ t_ts' = [t_ts EXCEPT ![t] = ts[t]]
      BY <1>7, <2>1 DEF Recheck, Goto, TBlock
    <3>2. Frame(t)
      BY <1>0, <2>0, <3>1 DEF Frame
    <3>3. lp[t] \in Mutexes /\ owner[lp[t]] # None
      BY <2>0, <2>1, IdleTyping DEF StillOwned
    <3>4. \A m \in Mutexes, u \in Threads : owner'[m] = None /\ SleepsFor(u, m)' => SleepsFor(u, m)
      BY <1>0, <2>0, <3>1, <3>3 DEF SleepsFor
    <3>5. \A m \in Mutexes : owner'[m] = None => ~Carries(t, m)
      BY <2>0, <3>3 DEF Carries, Entering
    <3>6. \A b \in Threads \ {t} : t_ts'[b] \in {t_ts[b], None}
      BY <1>0, <3>1
    <3> QED
      BY <1>0, <2>0, <3>2, <3>4, <3>5, <3>6, WakeupNext
  <2>2. CASE ~StillOwned(t)
    <3>1. Frame(t) /\ pc[t] \in EnterPCs /\ pc'[t] \in EnterPCs /\ UNCHANGED <<owner, m_waiters, t_ts, lp, panicstr>>
      BY <1>0, <1>7, <2>0, <2>2 DEF Frame, Recheck, LoopAgain, Goto, EnterPCs
    <3> QED
      BY <3>1, WakeupEnter
  <2> QED
    BY <2>1, <2>2
<1>8. CASE PiOwner(t)
  <2>0. /\ pc[t] = "pi" /\ UNCHANGED <<owner, m_waiters, lp, owner_lock, panicstr>>
    BY <1>8 DEF PiOwner, mvars
  <2>1. CASE WillStop(t) /\ UNCHANGED <<t_ts, ts, powner>>
    <3>1. Frame(t) /\ pc[t] \in EnterPCs /\ pc'[t] \in EnterPCs /\ UNCHANGED <<owner, m_waiters, t_ts, lp, panicstr>>
      BY <1>0, <2>0, <2>1 DEF Frame, WillStop, Goto, EnterPCs
    <3> QED
      BY <3>1, WakeupEnter
  <2>2. CASE Goto(t, "pilock") /\ UNCHANGED <<t_ts, ts, waiter>> /\ \E o : powner' = [powner EXCEPT ![t] = o]
    <3>1. Frame(t) /\ pc[t] \in EnterPCs /\ pc'[t] \in EnterPCs /\ UNCHANGED <<owner, m_waiters, t_ts, lp, panicstr>>
      BY <1>0, <2>0, <2>2 DEF Frame, Goto, EnterPCs
    <3> QED
      BY <3>1, WakeupEnter
  <2>3. CASE /\ waiter[t] # t /\ MutexUnsleep(waiter[t]) /\ (\E s : ts' = [ts EXCEPT ![t] = s])
             /\ Goto(t, "free") /\ UNCHANGED <<waiter, powner>>
    <3>1. PICK w \in Threads : w = waiter[t]
      BY <2>0, PiTyping
    <3>2. Frame(t)
      BY <1>0, <2>0, <2>3 DEF Frame, Goto
    <3>3. \A u \in Threads : t_ts'[u] = IF u = w THEN None ELSE t_ts[u]
      BY <1>0, <2>3, <3>1 DEF MutexUnsleep
    <3>4. pc'[t] = "free" /\ waiter'[t] = w /\ t_ts'[t] = t_ts[t] /\ w # None /\ lp'[t] = lp[t]
      BY <1>0, <2>0, <2>3, <3>1, <3>3, PiTyping DEF Goto
    <3>5. \A m \in Mutexes : Carries(t, m) => Carries(t, m)'
      BY <2>0, <3>4 DEF Carries, Entering, Asleep
    <3>6. \A m \in Mutexes, u \in Threads : SleepsFor(u, m)' => SleepsFor(u, m)
      BY <2>0, <3>3 DEF SleepsFor
    <3> QED
      BY <1>0, <2>0, <3>2, <3>3, <3>5, <3>6, WakeupNext
  <2> QED
    BY <1>8, <2>1, <2>2, <2>3 DEF PiOwner
<1>9. CASE PiInherit(t)
  <2>1. Frame(t) /\ pc[t] \in EnterPCs /\ pc'[t] \in EnterPCs /\ UNCHANGED <<owner, m_waiters, t_ts, lp, panicstr>>
    BY <1>0, <1>9 DEF Frame, PiInherit, Goto, EnterPCs, mvars
  <2> QED
    BY <2>1, WakeupEnter
<1>10. CASE Swtch(t)
  <2>1. Frame(t) /\ pc[t] \in EnterPCs /\ pc'[t] \in EnterPCs /\ UNCHANGED <<owner, m_waiters, t_ts, lp, panicstr>>
    BY <1>0, <1>10 DEF Frame, Swtch, Goto, EnterPCs, mvars, tvars, locals
  <2> QED
    BY <2>1, WakeupEnter
<1>11. CASE Try(t)
  <2>0. /\ pc[t] = "try" /\ UNCHANGED <<m_waiters, t_ts, panicstr, ts, waiter, owner_lock, powner>>
    BY <1>11 DEF Try, tvars, locals
  <2>1. CASE owner[lp[t]] = None
    <3>1. owner' = [owner EXCEPT ![lp[t]] = t] /\ pc' = [pc EXCEPT ![t] = "run"] /\ lp' = [lp EXCEPT ![t] = None]
      BY <1>11, <2>1 DEF Try, Goto
    <3>2. Frame(t)
      BY <1>0, <2>0, <3>1 DEF Frame
    <3>3. \A m \in Mutexes : owner'[m] = None => owner[m] = None /\ m # lp[t]
      BY <1>0, <3>1
    <3>4. t_ts[t] = None
      BY <2>0 DEF Inv, PlaceOK
    <3>5. \A m \in Mutexes : owner'[m] = None => ~Carries(t, m)
      BY <3>3 DEF Carries, Entering
    <3> QED
      BY <1>0, <2>0, <3>2, <3>3, <3>4, <3>5, WakeupQuiet
  <2>2. CASE owner[lp[t]] # None
    <3>1. Frame(t) /\ pc[t] \in EnterPCs /\ pc'[t] \in EnterPCs /\ UNCHANGED <<owner, m_waiters, t_ts, lp, panicstr>>
      BY <1>0, <1>11, <2>0, <2>2 DEF Frame, Try, Goto, EnterPCs
    <3> QED
      BY <3>1, WakeupEnter
  <2> QED
    BY <2>1, <2>2
<1> QED
  BY <1>1, <1>2, <1>3, <1>4, <1>5, <1>6, <1>7, <1>8, <1>9, <1>10, <1>11 DEF EnterStep

(* Nor does the beginning of an operation. *)
LEMMA CallWakeup ==
  ASSUME Inv, NoLostWakeup, NEW t \in Threads, NEW m \in Mutexes,
         MutexEnter(t, m) \/ MutexTryenter(t, m) \/ MutexExit(t, m) \/ MutexDestroy(t, m)
  PROVE  NoLostWakeup'
<1>0. /\ t \in Actors /\ pc \in [Actors -> PCs] /\ lp \in [Threads -> Mutexes \cup {None}] /\ t # None
      /\ ts \in [Actors -> Turnstiles \cup {None}] /\ waiter \in [Actors -> Threads \cup {None}]
      /\ owner \in [Mutexes -> Threads \cup {None}] /\ Threads \subseteq Actors
      /\ t_ts \in [Threads -> Turnstiles \cup {None}]
  BY IdleTyping
<1>1. pc[t] = "run" /\ t_ts[t] = None /\ UNCHANGED <<m_waiters, t_ts, panicstr, waiter, owner_lock, powner>>
  <2>1. pc[t] = "run" /\ UNCHANGED <<m_waiters, t_ts, panicstr, waiter, owner_lock, powner>>
    BY DEF MutexEnter, MutexTryenter, MutexExit, MutexDestroy, tvars, locals
  <2> QED
    BY <2>1 DEF Inv, PlaceOK
<1>2. \A x \in Mutexes : ~Carries(t, x)
  BY <1>1 DEF Carries, Entering, EnterPCs
<1>3. CASE MutexEnter(t, m) \/ MutexTryenter(t, m)
  <2>1. Frame(t)
    BY <1>0, <1>1, <1>3 DEF Frame, MutexEnter, MutexTryenter, Goto, locals
  <2>2. \A x \in Mutexes : owner'[x] = None => owner[x] = None
    BY <1>0, <1>3 DEF MutexEnter, MutexTryenter
  <2> QED
    BY <1>0, <1>1, <1>2, <2>1, <2>2, WakeupQuiet
<1>4. CASE MutexExit(t, m)
  <2>1. /\ pc' = [pc EXCEPT ![t] = "exit"] /\ lp' = [lp EXCEPT ![t] = m] /\ owner' = [owner EXCEPT ![m] = None]
        /\ UNCHANGED ts
    BY <1>4 DEF MutexExit, Goto, locals
  <2>2. Frame(t)
    BY <1>0, <1>1, <2>1 DEF Frame
  <2>3. Carries(t, m)'
    BY <1>0, <1>1, <2>1 DEF Carries, Asleep
  <2>4. \A x \in Mutexes : owner'[x] = None => owner[x] = None \/ x = m
    BY <1>0, <2>1
  <2>5. \A x \in Mutexes, u \in Threads : SleepsFor(u, x)' => SleepsFor(u, x)
    BY <1>1, <2>2 DEF SleepsFor, Frame
  <2> QED
    BY <1>0, <1>1, <1>2, <2>2, <2>3, <2>4, <2>5, WakeupNext
<1>5. CASE MutexDestroy(t, m)
  <2>1. owner' = [owner EXCEPT ![m] = None] /\ \A u \in Threads : ~Entering(u, m)
    BY <1>5 DEF MutexDestroy
  <2>2. Frame(t)
    BY <1>0, <1>1, <1>5 DEF Frame, MutexDestroy, Goto
  <2>3. \A x \in Mutexes, u \in Threads : SleepsFor(u, x)' => SleepsFor(u, x)
    BY <1>1, <2>2 DEF SleepsFor, Frame
  <2>4. \A u \in Threads : ~SleepsFor(u, m)
    BY <2>1, SleeperOf
  <2>5. \A x \in Mutexes : owner'[x] = None => owner[x] = None \/ x = m
    BY <1>0, <2>1
  <2> QED
    BY <1>0, <1>1, <1>2, <2>2, <2>3, <2>4, <2>5, WakeupNext
<1> QED
  BY <1>3, <1>4, <1>5

(* Nor do the steps of mutex_exit() and mutex_destroy(). *)
LEMMA ExitStepWakeup ==
  ASSUME Inv, NoLostWakeup, NEW t \in Threads, ExitStep(t)
  PROVE  NoLostWakeup'
<1>0. /\ t \in Actors /\ pc \in [Actors -> PCs] /\ lp \in [Threads -> Mutexes \cup {None}] /\ t # None
      /\ ts \in [Actors -> Turnstiles \cup {None}] /\ Threads \subseteq Actors
      /\ t_ts \in [Threads -> Turnstiles \cup {None}] /\ None \notin Turnstiles
      /\ m_waiters \in [Mutexes -> Turnstiles \cup {None}]
  BY IdleTyping
<1>1. /\ pc[t] \in {"exit", "release", "destroy"}
      /\ UNCHANGED <<owner, m_waiters, panicstr, waiter, owner_lock, powner>>
  BY DEF ExitStep, LoadWaiters, Release, DestroyLock, mvars
<1>2. t_ts[t] = None /\ lp[t] \in Mutexes
  BY <1>1, IdleTyping DEF Inv, PlaceOK
<1>3. CASE LoadWaiters(t)
  <2>1. UNCHANGED t_ts
    BY <1>3 DEF LoadWaiters, tvars
  <2>2. CASE m_waiters[lp[t]] = None
    <3>1. pc' = [pc EXCEPT ![t] = "run"] /\ lp' = [lp EXCEPT ![t] = None] /\ ts' = [ts EXCEPT ![t] = None]
      BY <1>3, <2>2 DEF LoadWaiters, Done, Goto
    <3>2. Frame(t)
      BY <1>0, <1>1, <3>1 DEF Frame
    <3>3. \A m \in Mutexes, u \in Threads : SleepsFor(u, m)' => SleepsFor(u, m)
      BY <1>2, <2>1, <3>2 DEF SleepsFor, Frame
    <3>4. \A m \in Mutexes, u \in Threads : SleepsFor(u, m) => m # lp[t]
      BY <1>0, <2>2, SleeperOf
    <3>5. \A m \in Mutexes : Carries(t, m) => m = lp[t]
      BY DEF Carries, Entering
    <3> QED
      BY <1>0, <1>1, <2>1, <3>2, <3>3, <3>4, <3>5, WakeupNext
  <2>3. CASE m_waiters[lp[t]] # None
    <3>1. pc' = [pc EXCEPT ![t] = "release"] /\ lp' = lp /\ ts' = [ts EXCEPT ![t] = m_waiters[lp[t]]]
      BY <1>3, <2>3 DEF LoadWaiters, Goto
    <3>2. Frame(t)
      BY <1>0, <1>1, <3>1 DEF Frame
    <3>3. \A m \in Mutexes : Carries(t, m) => Carries(t, m)'
      BY <1>0, <1>1, <1>2, <2>1, <3>1 DEF Carries, Entering, EnterPCs, Asleep
    <3> QED
      BY <1>0, <1>1, <2>1, <3>1, <3>2, <3>3, WakeupQuiet
  <2> QED
    BY <2>2, <2>3
<1>4. CASE DestroyLock(t)
  <2>1. pc[t] = "destroy" /\ UNCHANGED t_ts
    BY <1>4 DEF DestroyLock, tvars
  <2>2. Frame(t)
    BY <1>0, <1>1, <1>4 DEF Frame, DestroyLock, Done, Goto
  <2>3. \A m \in Mutexes : ~Carries(t, m)
    BY <2>1 DEF Carries, Entering, EnterPCs
  <2> QED
    BY <1>0, <1>1, <1>2, <2>1, <2>2, <2>3, WakeupQuiet
<1>5. CASE Release(t)
  <2>0. pc[t] = "release"
    BY <1>5 DEF Release
  <2>1. PICK s \in Turnstiles : s = ts[t]
    BY <2>0, IdleTyping
  <2>2. \A m \in Mutexes : Carries(t, m) => m = lp[t] /\ m_waiters[m] = s
    BY <2>0, <2>1 DEF Carries, Entering, EnterPCs
  <2>3. CASE ~SameSobj(t)
    <3>1. Done(t) /\ UNCHANGED t_ts
      BY <1>5, <2>3 DEF Release, tvars
    <3>2. Frame(t)
      BY <1>0, <1>1, <3>1 DEF Frame, Done, Goto
    <3>3. \A m \in Mutexes : ~Carries(t, m)
      BY <2>1, <2>2, <2>3 DEF Inv, AttachOK, SameSobj
    <3> QED
      BY <1>0, <1>1, <1>2, <3>1, <3>2, <3>3, WakeupQuiet
  <2>4. CASE SameSobj(t)
    <3>1. PICK w : w = Woken(ts_sleepq[s])
      OBVIOUS
    <3>2. /\ pc' = [pc EXCEPT ![t] = "free"] /\ UNCHANGED <<lp, ts>>
          /\ t_ts' = [u \in Threads |-> IF u \in w THEN None ELSE t_ts[u]]
      BY <1>5, <2>1, <2>4, <3>1 DEF Release, Goto
    <3>3. Frame(t)
      BY <1>0, <1>1, <3>2 DEF Frame
    <3>4. \A u \in w : u \in Threads /\ t_ts[u] = s
      BY <3>1, WokenAsleep DEF Inv
    <3>5. \A m \in Mutexes, u \in Threads : SleepsFor(u, m)' => SleepsFor(u, m)
      BY <3>2 DEF SleepsFor
    <3>6. ASSUME NEW m \in Mutexes, NEW u \in Threads, SleepsFor(u, m), Carries(t, m)
          PROVE  \E b \in Threads : Carries(b, m)'
      <4>1. t_ts[u] = s /\ lp[t] = m /\ ts_sobj[s] = m
        BY <2>2, <3>6, SleeperOf
      <4>2. OnQueue(ts_sleepq[s], u) /\ ts_sleepq[s] \in Seq(Threads)
        BY <4>1, Typing DEF Inv, QueueOK
      <4>3. ts_sleepq[s] # << >>
        BY <4>2 DEF OnQueue
      <4>4. PICK b \in w : TRUE
        BY <3>1, <4>3 DEF Woken
      <4>5. b \in Threads /\ t_ts[b] = s /\ b # t
        BY <1>0, <1>2, <3>4, <4>4
      <4>6. SleepsFor(b, m)
        BY <1>0, <4>1, <4>5 DEF SleepsFor, Inv, AttachOK
      <4>7. Entering(b, m)
        BY <4>5, <4>6, SleeperOf
      <4>8. Carries(b, m)'
        BY <1>0, <1>1, <3>2, <4>4, <4>5, <4>7 DEF Carries, Entering, Asleep
      <4> QED
        BY <4>5, <4>8
    <3>7. \A b \in Threads : t_ts'[b] \in {t_ts[b], None}
      BY <3>2
    <3> QED
      BY <1>0, <1>1, <3>3, <3>5, <3>6, <3>7, WakeupNext
  <2> QED
    BY <2>3, <2>4
<1> QED
  BY <1>3, <1>4, <1>5 DEF ExitStep

(* Nor does tstile_free(), which clears m_waiters of an empty turnstile only. *)
LEMMA TstileFreeWakeup ==
  ASSUME Inv, NoLostWakeup, NEW a \in Actors, TstileFree(a)
  PROVE  NoLostWakeup'
<1>0. /\ TypeOK /\ AttachOK /\ QueueOK /\ (\A b \in Actors : ActorOK(b)) /\ (\A u \in Threads : PlaceOK(u))
  BY DEF Inv
<1>1. /\ pc \in [Actors -> PCs] /\ ts \in [Actors -> Turnstiles \cup {None}] /\ waiter \in [Actors -> Threads \cup {None}]
      /\ t_ts \in [Threads -> Turnstiles \cup {None}] /\ None \notin Turnstiles /\ Threads \subseteq Actors
      /\ lp \in [Threads -> Mutexes \cup {None}] /\ m_waiters \in [Mutexes -> Turnstiles \cup {None}]
  BY <1>0, Typing
<1>2. pc[a] \in {"free", "dfree"} /\ UNCHANGED <<owner, t_ts, owner_lock, powner, panicstr>>
  BY DEF TstileFree
<1>3. PICK s \in Turnstiles : s = ts[a]
  BY <1>0, <1>1, <1>2 DEF TypeOK
<1>4. /\ ts' = [ts EXCEPT ![a] = None] /\ waiter' = [waiter EXCEPT ![a] = None]
      /\ IF a \in Threads /\ waiter[a] # None
         THEN pc' = [pc EXCEPT ![a] = "swtch"] /\ UNCHANGED lp
         ELSE pc' = [pc EXCEPT ![a] = "run"] /\ lp' = [t \in Threads |-> IF t = a THEN None ELSE lp[t]]
  BY DEF TstileFree, Goto
<1>5. Frame(a)
  BY <1>1, <1>2, <1>4 DEF Frame
<1>6. a \in Threads /\ t_ts[a] # None => lp' = lp
  BY <1>0, <1>1, <1>2, <1>4 DEF PlaceOK
<1>7. \A m \in Mutexes, u \in Threads : SleepsFor(u, m)' => SleepsFor(u, m)
  BY <1>2, <1>5, <1>6 DEF SleepsFor, Frame
<1>8. ASSUME NEW m \in Mutexes, NEW u \in Threads, SleepsFor(u, m) PROVE m_waiters'[m] = m_waiters[m]
  <2>1. t_ts[u] \in Turnstiles /\ ts_sobj[t_ts[u]] = m /\ m_waiters[m] = t_ts[u]
    BY <1>8, SleeperOf
  <2>2. CASE IsEmpty(s)
    <3>1. t_ts[u] # s
      BY <1>0, <2>2 DEF IsEmpty, QueueOK, OnQueue
    <3>2. m_waiters' = [m_waiters EXCEPT ![ts_sobj[s]] = None]
      BY <1>3, <2>2 DEF TstileFree
    <3>3. ts_sobj[s] # m
      BY <1>0, <2>1, <3>1 DEF AttachOK
    <3> QED
      BY <1>1, <3>2, <3>3
  <2>3. CASE ~IsEmpty(s)
    BY <1>3, <2>3 DEF TstileFree
  <2> QED
    BY <2>2, <2>3
<1>9. \A m \in Mutexes : a \in Threads /\ Carries(a, m) => Carries(a, m)'
  <2> SUFFICES ASSUME NEW m \in Mutexes, a \in Threads, Carries(a, m) PROVE Carries(a, m)'
    OBVIOUS
  <2>1. lp[a] = m /\ waiter[a] # None /\ t_ts[a] = None
    BY <1>2 DEF Carries, Entering, EnterPCs, Asleep
  <2>2. pc'[a] = "swtch" /\ lp'[a] = m /\ t_ts'[a] = None
    BY <1>1, <1>2, <1>4, <2>1
  <2> QED
    BY <2>2 DEF Carries, Entering, EnterPCs, Asleep
<1> QED
  BY <1>2, <1>5, <1>7, <1>8, <1>9, WakeupNext

(* Nor does setrun(). *)
LEMMA SetrunWakeup ==
  ASSUME Inv, NoLostWakeup, NEW t \in Threads, Setrun(t)
  PROVE  NoLostWakeup'
<1>0. /\ pc \in [Actors -> PCs] /\ ts \in [Actors -> Turnstiles \cup {None}] /\ waiter \in [Actors -> Threads \cup {None}]
      /\ t_ts \in [Threads -> Turnstiles \cup {None}] /\ Clock \in Actors /\ Clock \notin Threads
  BY Typing DEF Inv
<1>1. /\ pc' = [pc EXCEPT ![Clock] = "free"] /\ ts' = [ts EXCEPT ![Clock] = t_ts[t]]
      /\ waiter' = [waiter EXCEPT ![Clock] = t] /\ t_ts' = [t_ts EXCEPT ![t] = None]
      /\ UNCHANGED <<owner, m_waiters, lp, owner_lock, powner, panicstr>>
  BY DEF Setrun, Goto, MutexUnsleep, mvars
<1>2. Frame(Clock)
  BY <1>0, <1>1 DEF Frame
<1>3. \A m \in Mutexes, u \in Threads : SleepsFor(u, m)' => SleepsFor(u, m)
  BY <1>0, <1>1 DEF SleepsFor
<1>4. \A b \in Threads : t_ts'[b] \in {t_ts[b], None}
  BY <1>0, <1>1
<1> QED
  BY <1>0, <1>1, <1>2, <1>3, <1>4, WakeupNext

(* No thread sleeps for a mutex that is free unless a thread that is awake *)
(* will try for it or wake the sleepers: mutex_enter() sets m_waiters      *)
(* before it looks at the owner again, mutex_exit() clears the owner       *)
(* before it loads m_waiters, and what mutex_adaptive_release() wakes      *)
(* tries for the mutex.                                                    *)
THEOREM MutexNoLostWakeup == Spec => []NoLostWakeup
<1>1. Init => NoLostWakeup
  BY DEF Init, NoLostWakeup, Asleep
<1>2. Inv /\ NoLostWakeup /\ [Next]_vars => NoLostWakeup'
  <2> SUFFICES ASSUME Inv, NoLostWakeup, [Next]_vars PROVE NoLostWakeup'
    OBVIOUS
  <2>1. CASE UNCHANGED vars
    BY <2>1 DEF vars, mvars, tvars, locals, NoLostWakeup, Asleep, Entering
  <2>2. CASE Panic
    BY <2>2 DEF Panic, NoLostWakeup
  <2>3. ASSUME NEW t \in Threads, Call(t) PROVE NoLostWakeup'
    BY <2>3, CallWakeup DEF Call
  <2> QED
    BY <2>1, <2>2, <2>3, EnterStepWakeup, ExitStepWakeup, TstileFreeWakeup, SetrunWakeup DEF Next
<1> QED
  BY <1>1, <1>2, MutexInv, PTL DEF Spec

-----------------------------------------------------------------------
(* What is inherited is kept. *)

(* A thread in pi_willto() that has found the owner of the mutex its       *)
(* waiter sleeps for: if the turnstile's record names another, that one    *)
(* does not own the mutex.                                                 *)
PilockAt(t) ==
  LET s == t_ts[waiter[t]] IN
  pi_benef[s] \in {None, powner[t]} \/ owner[ts_sobj[s]] # pi_benef[s]
PilockOK == \A t \in Threads : pc[t] = "pilock" => PilockAt(t)

(* A step of actor a takes mutexes only in mutex_enter(), and changes the  *)
(* records, mutexes and sleepers of turnstiles only that nobody else has   *)
(* locked.                                                                 *)
Took(a) ==
  \A m \in Mutexes :
    owner'[m] \in {owner[m], None} \/ (a \in Threads /\ owner'[m] = a /\ pc[a] \in {"run", "try"})
Spares(a) ==
  /\ \A s \in Turnstiles : ts_wlock[s] \notin {None, a} => ts_sobj'[s] = ts_sobj[s] /\ pi_benef'[s] = pi_benef[s]
  /\ \A u \in Threads : t_ts[u] # None /\ ts_wlock[t_ts[u]] \notin {None, a} => t_ts'[u] = t_ts[u]

(* Nobody is on the record of a mutex that it takes. *)
LEMMA BenefOwned ==
  ASSUME Inv, NEW a \in Actors, Took(a), NEW s \in Turnstiles, pi_benef[s] # None,
         owner'[ts_sobj[s]] = pi_benef[s]
  PROVE  owner[ts_sobj[s]] = pi_benef[s]
<1>1. Serves(pi_benef[s], s)
  BY DEF Inv, BenefOK
<1>2. ts_sobj[s] \in Mutexes
  BY Typing DEF Inv, AttachOK
<1> QED
  BY <1>1, <1>2 DEF Serves, Took

(* Another thread in pi_willto() has its turnstile locked. *)
LEMMA PilockOthers ==
  ASSUME Inv, PilockOK, NEW a \in Actors, Frame(a), Took(a), Spares(a),
         NEW u \in Threads \ {a}, pc'[u] = "pilock"
  PROVE  PilockAt(u)'
<1>0. u \in Actors /\ u # None /\ pc[u] = "pilock" /\ waiter'[u] = waiter[u] /\ powner'[u] = powner[u]
  BY IdleTyping DEF Frame
<1>1. PICK s \in Turnstiles : s = t_ts[waiter[u]] /\ s # None /\ ts_wlock[s] = u
  BY <1>0, PiTyping
<1>2. waiter[u] \in Threads /\ ts_sobj[s] \in Mutexes
  BY <1>0, <1>1, PiTyping
<1>3. t_ts'[waiter[u]] = s
  BY <1>0, <1>1, <1>2 DEF Spares
<1>4. ts_sobj'[s] = ts_sobj[s] /\ pi_benef'[s] = pi_benef[s]
  BY <1>0, <1>1 DEF Spares
<1>5. pi_benef[s] \in {None, powner[u]} \/ owner[ts_sobj[s]] # pi_benef[s]
  BY <1>0, <1>1 DEF PilockOK, PilockAt
<1>6. pi_benef[s] \in {None, powner[u]} \/ owner'[ts_sobj[s]] # pi_benef[s]
  BY <1>5, BenefOwned
<1> QED
  BY <1>0, <1>3, <1>4, <1>6 DEF PilockAt

(* A step that leaves records and priorities alone. *)
LEMMA KeptQuiet ==
  ASSUME Inv, InheritedKept, PilockOK, NEW a \in Actors, Frame(a), Took(a), Spares(a),
         UNCHANGED <<pi_benef, pi_epri_hi, t_epri>>,
         \A s \in Turnstiles : pi_benef[s] # None => ts_sobj'[s] = ts_sobj[s],
         a \in Threads /\ pc'[a] = "pilock" => PilockAt(a)'
  PROVE  InheritedKept' /\ PilockOK'
<1>1. PilockOK'
  BY PilockOthers DEF PilockOK
<1>2. InheritedKept'
  BY BenefOwned DEF InheritedKept, Prio
<1> QED BY <1>1, <1>2

(* pi_waive() leaves the other records of the beneficiary with no more     *)
(* than it then has.                                                       *)
LEMMA WaiveLeaves ==
  ASSUME TypeOK, NEW q, NEW s \in Turnstiles, pi_benef[s] # None, PiWaive(q, s)
  PROVE  /\ pi_benef'[s] = None
         /\ \A r \in Turnstiles \ {s} : pi_benef'[r] = pi_benef[r] /\ pi_epri_hi'[r] = pi_epri_hi[r]
         /\ \A r \in Turnstiles \ {s} : pi_benef[r] = pi_benef[s] => Prio'[pi_benef[s]] >= pi_epri_hi[r]
         /\ \A u \in Threads \ {pi_benef[s]} : Prio'[u] = Prio[u]
<1>0. /\ pi_benef \in [Turnstiles -> Threads \cup {None}] /\ pi_epri_hi \in [Turnstiles -> Nat]
      /\ t_epri \in [Threads -> Nat] /\ DOMAIN Pri = Threads /\ \A u \in Threads : Pri[u] \in Nat \ {0}
  BY Typing, MutexAssumption
<1>1. PICK b \in Threads : b = pi_benef[s]
  BY <1>0
<1>2. PICK p : p = CalcPri(s)
  OBVIOUS
<1>3. /\ p \in Nat /\ (Others(s) # {} => p >= Pri[b]) /\ \A r \in Others(s) : p >= pi_epri_hi[r]
  BY <1>1, <1>2, CalcPriNat
<1>4. pi_benef' = [pi_benef EXCEPT ![s] = None] /\ pi_epri_hi' = [pi_epri_hi EXCEPT ![s] = 0]
  BY DEF PiWaive
<1>5. CASE Others(s) = {} \/ p # Prio[b]
  <2>1. t_epri' = [t_epri EXCEPT ![b] = p]
    BY <1>1, <1>2, <1>5 DEF PiWaive, ChangePri
  <2>2. \A u \in Threads \ {b} : Prio'[u] = Prio[u]
    BY <1>0, <2>1 DEF Prio, DispPrio
  <2>3. Others(s) # {} => Prio'[b] = p
    BY <1>0, <1>1, <1>3, <2>1 DEF Prio, DispPrio
  <2> QED BY <1>0, <1>1, <1>3, <1>4, <2>2, <2>3 DEF Others
<1>6. CASE ~(Others(s) = {} \/ p # Prio[b])
  <2>1. UNCHANGED t_epri
    BY <1>1, <1>2, <1>6 DEF PiWaive
  <2>2. \A u \in Threads : Prio'[u] = Prio[u]
    BY <2>1 DEF Prio
  <2>3. Prio[b] = p
    BY <1>6
  <2> QED BY <1>0, <1>1, <1>3, <1>4, <2>2, <2>3 DEF Others
<1> QED BY <1>5, <1>6

(* A step with pi_waive(). *)
LEMMA KeptWaive ==
  ASSUME Inv, InheritedKept, PilockOK, NEW a \in Actors, Frame(a), Spares(a), UNCHANGED owner,
         NEW q, NEW s \in Turnstiles, pi_benef[s] # None, PiWaive(q, s),
         \A r \in Turnstiles \ {s} : ts_sobj'[r] = ts_sobj[r],
         a \in Threads => pc'[a] # "pilock"
  PROVE  InheritedKept' /\ PilockOK'
<1>0. TypeOK /\ pi_benef \in [Turnstiles -> Threads \cup {None}]
  BY Typing DEF Inv
<1>1. PilockOK'
  BY PilockOthers DEF PilockOK, Took
<1>2. InheritedKept'
  <2> SUFFICES ASSUME NEW r \in Turnstiles, pi_benef'[r] # None, owner'[ts_sobj'[r]] = pi_benef'[r]
               PROVE  Prio'[pi_benef'[r]] >= pi_epri_hi'[r]
    BY DEF InheritedKept
  <2>1. r # s /\ pi_benef'[r] = pi_benef[r] /\ pi_epri_hi'[r] = pi_epri_hi[r] /\ ts_sobj'[r] = ts_sobj[r]
    BY <1>0, WaiveLeaves
  <2>2. CASE pi_benef[r] = pi_benef[s]
    BY <1>0, <2>1, <2>2, WaiveLeaves
  <2>3. CASE pi_benef[r] # pi_benef[s]
    <3>1. Prio[pi_benef[r]] >= pi_epri_hi[r]
      BY <2>1 DEF InheritedKept
    <3>2. Prio'[pi_benef[r]] = Prio[pi_benef[r]]
      BY <1>0, <2>1, <2>3, WaiveLeaves
    <3> QED BY <2>1, <3>1, <3>2
  <2> QED BY <2>2, <2>3
<1> QED BY <1>1, <1>2

(* pi_willto() raises the record, and the thread that it found to be the   *)
(* owner.                                                                  *)
LEMMA PiInheritKept ==
  ASSUME Inv, InheritedKept, PilockOK, NEW t \in Threads, PiInherit(t)
  PROVE  InheritedKept' /\ PilockOK'
<1>0. /\ t \in Actors /\ pc \in [Actors -> PCs] /\ t # None /\ waiter \in [Actors -> Threads \cup {None}] /\ t # Clock
      /\ ts_wlock \in [Turnstiles -> Actors \cup {None}] /\ Threads \subseteq Actors /\ None \notin Threads
      /\ powner \in [Threads -> Threads \cup {None}] /\ t_ts \in [Threads -> Turnstiles \cup {None}]
  BY IdleTyping
<1>1. /\ pi_benef \in [Turnstiles -> Threads \cup {None}] /\ pi_epri_hi \in [Turnstiles -> Nat]
      /\ t_epri \in [Threads -> Nat] /\ DOMAIN Pri = Threads /\ \A u \in Threads : Pri[u] \in Nat \ {0}
  BY Typing, MutexAssumption DEF Inv
<1>2. pc[t] = "pilock" /\ UNCHANGED <<mvars, ts_sobj, tsp_list, t_ts, lp, owner_lock, ts, panicstr>>
  BY DEF PiInherit
<1>3. PICK w \in Threads : w = waiter[t]
  BY <1>2, PiTyping
<1>4. PICK s \in Turnstiles : s = t_ts[w] /\ s # None /\ ts_wlock[s] = t
  BY <1>2, <1>3, PiTyping
<1>5. PICK o \in Threads : o = powner[t]
  BY <1>0, <1>2 DEF Inv, PlaceOK
<1>6. Prio \in [Threads -> Nat]
  BY <1>1, PrioType DEF Prio
<1>7. PICK p \in Nat : p = Prio[w]
  BY <1>6
<1>8. /\ pi_benef' = IF pi_benef[s] = None THEN [pi_benef EXCEPT ![s] = o] ELSE pi_benef
      /\ pi_epri_hi' = [pi_epri_hi EXCEPT ![s] = IF pi_benef[s] = None THEN p ELSE Max2(@, p)]
      /\ IF p > Prio[o] THEN ChangePri(ts_sleepq, o, p) ELSE UNCHANGED <<ts_sleepq, t_epri>>
      /\ pc' = [pc EXCEPT ![t] = IF Asleep(o) THEN "pi" ELSE "swtch"]
      /\ waiter' = [waiter EXCEPT ![t] = IF Asleep(o) THEN o ELSE None]
      /\ powner' = [powner EXCEPT ![t] = None]
  BY <1>3, <1>4, <1>5, <1>7 DEF PiInherit, Goto
<1>9. Frame(t)
  BY <1>0, <1>2, <1>8 DEF Frame
<1>10. Took(t)
  BY <1>2 DEF Took, mvars
<1>11. Spares(t)
  BY <1>0, <1>1, <1>2, <1>4, <1>8 DEF Spares
<1>12. PilockOK'
  <2>1. pc'[t] # "pilock"
    BY <1>0, <1>8
  <2> QED BY <1>0, <1>9, <1>10, <1>11, <2>1, PilockOthers DEF PilockOK
<1>13. Prio'[o] >= p /\ \A u \in Threads : Prio'[u] \in Nat /\ Prio'[u] >= Prio[u]
  <2>1. CASE p > Prio[o]
    <3>1. t_epri' = [t_epri EXCEPT ![o] = p]
      BY <1>8, <2>1 DEF ChangePri
    <3>2. p # 0
      BY <1>6, <2>1
    <3>3. Prio' = [u \in Threads |-> IF u = o THEN p ELSE Prio[u]]
      BY <1>1, <3>1, <3>2 DEF Prio, DispPrio
    <3> QED BY <1>6, <2>1, <3>3
  <2>2. CASE ~(p > Prio[o])
    <3>1. Prio' = Prio
      BY <1>8, <2>2 DEF Prio
    <3> QED BY <1>6, <2>2, <3>1
  <2> QED BY <2>1, <2>2
<1>14. InheritedKept'
  <2> SUFFICES ASSUME NEW r \in Turnstiles, pi_benef'[r] # None, owner'[ts_sobj'[r]] = pi_benef'[r]
               PROVE  Prio'[pi_benef'[r]] >= pi_epri_hi'[r]
    BY DEF InheritedKept
  <2>0. owner' = owner /\ ts_sobj' = ts_sobj
    BY <1>2 DEF mvars
  <2>1. CASE r # s
    <3>1. pi_benef'[r] = pi_benef[r] /\ pi_epri_hi'[r] = pi_epri_hi[r] /\ pi_benef[r] \in Threads
      BY <1>1, <1>8, <2>1
    <3>2. Prio[pi_benef[r]] >= pi_epri_hi[r]
      BY <2>0, <3>1 DEF InheritedKept
    <3> QED BY <1>1, <1>6, <1>13, <3>1, <3>2
  <2>2. CASE r = s /\ pi_benef[s] = None
    BY <1>1, <1>8, <1>13, <2>2
  <2>3. CASE r = s /\ pi_benef[s] # None
    <3>1. pi_benef'[s] = pi_benef[s] /\ pi_benef[s] \in Threads /\ owner[ts_sobj[s]] = pi_benef[s]
      BY <1>1, <1>8, <2>0, <2>3
    <3>2. pi_benef[s] = o
      BY <1>2, <1>3, <1>4, <1>5, <2>3, <3>1 DEF PilockOK, PilockAt
    <3>3. Prio[o] >= pi_epri_hi[s]
      BY <3>1, <3>2, <2>3 DEF InheritedKept
    <3>4. pi_epri_hi'[s] \in {p, pi_epri_hi[s]}
      BY <1>1, <1>8, <2>3 DEF Max2
    <3>5. Prio'[o] >= p /\ Prio'[o] >= pi_epri_hi[s]
      BY <1>1, <1>6, <1>13, <3>3
    <3> QED BY <2>3, <3>1, <3>2, <3>4, <3>5
  <2> QED BY <2>1, <2>2, <2>3
<1> QED BY <1>12, <1>14

(* A step that changes no mutex, record or sleeper. *)
LEMMA KeptSame ==
  ASSUME Inv, InheritedKept, PilockOK, NEW a \in Actors, Frame(a),
         UNCHANGED <<owner, ts_sobj, pi_benef, pi_epri_hi, t_ts, t_epri>>,
         pc'[a] # "pilock"
  PROVE  InheritedKept' /\ PilockOK'
BY KeptQuiet DEF Took, Spares

(* The steps of mutex_enter(). *)
LEMMA EnterStepKept ==
  ASSUME Inv, InheritedKept, PilockOK, NEW t \in Threads, EnterStep(t)
  PROVE  InheritedKept' /\ PilockOK'
<1>0. /\ t \in Actors /\ pc \in [Actors -> PCs] /\ lp \in [Threads -> Mutexes \cup {None}] /\ t # None
      /\ ts \in [Actors -> Turnstiles \cup {None}] /\ waiter \in [Actors -> Threads \cup {None}]
      /\ owner_lock \in [Threads -> Threads \cup {None}] /\ powner \in [Threads -> Threads \cup {None}]
      /\ owner \in [Mutexes -> Threads \cup {None}] /\ Threads \subseteq Actors
      /\ lp[t] \in Mutexes \cup {None} /\ t_ts \in [Threads -> Turnstiles \cup {None}]
      /\ ts_sobj \in [Turnstiles -> Mutexes \cup {None}]
  BY IdleTyping
<1>1. CASE PanicReturn(t) \/ Spin(t) \/ Look(t) \/ AllocLost(t) \/ Verify(t) \/ Swtch(t)
  <2>1. Frame(t)
    BY <1>0, <1>1 DEF Frame, PanicReturn, Spin, Look, AllocLost, Verify, Swtch, LoopAgain, Goto, locals
  <2>2. pc'[t] # "pilock"
    BY <1>0, <1>1 DEF PanicReturn, Spin, Look, AllocLost, Verify, Swtch, LoopAgain, Goto
  <2>3. UNCHANGED <<owner, ts_sobj, pi_benef, pi_epri_hi, t_ts, t_epri>>
    BY <1>1 DEF PanicReturn, Spin, Look, AllocLost, Verify, Swtch, LoopAgain, mvars, tsvars, tvars
  <2> QED BY <1>0, <2>1, <2>2, <2>3, KeptSame
<1>2. CASE Alloc(t)
  <2>1. PICK s \in Turnstiles :
          /\ s \in tsp_list /\ ts_wlock[s] = None /\ ts_sobj' = [ts_sobj EXCEPT ![s] = lp[t]]
          /\ ts' = [ts EXCEPT ![t] = s]
    BY <1>2 DEF Alloc, TstileAlloc
  <2>2. /\ pc' = [pc EXCEPT ![t] = "recheck"]
        /\ UNCHANGED <<owner, pi_benef, pi_epri_hi, t_ts, t_epri, lp, owner_lock, waiter, powner>>
    BY <1>2 DEF Alloc, Goto, tvars
  <2>3. Frame(t)
    BY <1>0, <2>1, <2>2 DEF Frame
  <2>4. Took(t) /\ Spares(t)
    BY <1>0, <2>1, <2>2 DEF Took, Spares
  <2>5. \A r \in Turnstiles : pi_benef[r] # None => ts_sobj'[r] = ts_sobj[r]
    BY <1>0, <2>1 DEF Inv, AttachOK
  <2>6. pc'[t] # "pilock"
    BY <1>0, <2>2
  <2> QED BY <1>0, <2>2, <2>3, <2>4, <2>5, <2>6, KeptQuiet
<1>3. CASE Recheck(t)
  <2>1. /\ pc[t] = "recheck"
        /\ UNCHANGED <<owner, m_waiters, ts_sobj, pi_benef, pi_epri_hi, t_epri, lp, powner>>
    BY <1>3 DEF Recheck, mvars
  <2>2. Frame(t) /\ pc'[t] # "pilock"
    BY <1>0, <1>3, <2>1 DEF Frame, Recheck, LoopAgain, Goto
  <2>3. t_ts[t] = None
    BY <2>1 DEF Inv, PlaceOK
  <2>4. \A u \in Threads \ {t} : t_ts'[u] = t_ts[u]
    BY <1>0, <1>3 DEF Recheck, TBlock
  <2>5. Took(t) /\ Spares(t)
    BY <2>1, <2>3, <2>4 DEF Took, Spares
  <2> QED BY <1>0, <2>1, <2>2, <2>5, KeptQuiet
<1>4. CASE PiOwner(t)
  <2>1. /\ pc[t] = "pi"
        /\ UNCHANGED <<owner, m_waiters, ts_sobj, pi_benef, pi_epri_hi, t_epri, lp, owner_lock>>
    BY <1>4 DEF PiOwner, mvars
  <2>2. PICK w \in Threads : w = waiter[t]
    BY <2>1, PiTyping
  <2>3. PICK s \in Turnstiles : s = t_ts[w] /\ s # None /\ ts_wlock[s] = t /\ ts_sobj[s] = lp[w]
    BY <2>1, <2>2, PiTyping
  <2>4. CASE WillStop(t) /\ UNCHANGED <<t_ts, ts, powner>>
    <3>1. Frame(t) /\ pc'[t] # "pilock"
      BY <1>0, <2>1, <2>4 DEF Frame, WillStop, Goto
    <3> QED BY <1>0, <2>1, <2>4, <3>1, KeptSame
  <2>5. CASE MutexUnsleep(w) /\ (\E r : ts' = [ts EXCEPT ![t] = r]) /\ Goto(t, "free") /\ UNCHANGED <<waiter, powner>>
    <3>1. Frame(t) /\ pc'[t] # "pilock"
      BY <1>0, <2>1, <2>5 DEF Frame, Goto
    <3>2. \A u \in Threads \ {w} : t_ts'[u] = t_ts[u]
      BY <1>0, <2>5 DEF MutexUnsleep
    <3>3. Took(t) /\ Spares(t)
      BY <2>1, <2>3, <3>2 DEF Took, Spares
    <3> QED BY <1>0, <2>1, <3>1, <3>3, KeptQuiet
  <2>6. CASE /\ Goto(t, "pilock") /\ powner' = [powner EXCEPT ![t] = owner[lp[w]]]
             /\ UNCHANGED <<t_ts, ts, waiter>>
    <3>1. Frame(t)
      BY <1>0, <2>1, <2>6 DEF Frame, Goto
    <3>2. Took(t) /\ Spares(t)
      BY <2>1, <2>6 DEF Took, Spares
    <3>3. PilockAt(t)'
      BY <1>0, <2>1, <2>2, <2>3, <2>6 DEF PilockAt
    <3> QED BY <1>0, <2>1, <3>1, <3>2, <3>3, KeptQuiet
  <2> QED BY <1>4, <2>2, <2>4, <2>5, <2>6 DEF PiOwner
<1>5. CASE PiInherit(t)
  BY <1>5, PiInheritKept
<1>6. CASE Try(t)
  <2>1. /\ pc[t] = "try" /\ UNCHANGED <<ts_sobj, pi_benef, pi_epri_hi, t_ts, t_epri>>
    BY <1>6 DEF Try, tsvars, tvars
  <2>2. Frame(t) /\ pc'[t] # "pilock"
    BY <1>0, <1>6 DEF Frame, Try, Goto, locals
  <2>3. Took(t) /\ Spares(t)
    BY <1>0, <1>6, <2>1 DEF Took, Spares, Try
  <2> QED BY <1>0, <2>1, <2>2, <2>3, KeptQuiet
<1> QED
  BY <1>1, <1>2, <1>3, <1>4, <1>5, <1>6 DEF EnterStep

(* The beginning of an operation. *)
LEMMA CallKept ==
  ASSUME Inv, InheritedKept, PilockOK, NEW t \in Threads, NEW m \in Mutexes,
         MutexEnter(t, m) \/ MutexTryenter(t, m) \/ MutexExit(t, m) \/ MutexDestroy(t, m)
  PROVE  InheritedKept' /\ PilockOK'
<1>0. /\ t \in Actors /\ pc \in [Actors -> PCs] /\ lp \in [Threads -> Mutexes \cup {None}]
      /\ ts \in [Actors -> Turnstiles \cup {None}] /\ owner \in [Mutexes -> Threads \cup {None}]
  BY IdleTyping
<1>1. pc[t] = "run" /\ UNCHANGED <<ts_sobj, pi_benef, pi_epri_hi, t_ts, t_epri, waiter, owner_lock, powner>>
  BY DEF MutexEnter, MutexTryenter, MutexExit, MutexDestroy, tsvars, tvars, locals
<1>2. Frame(t) /\ pc'[t] # "pilock"
  BY <1>0, <1>1 DEF Frame, MutexEnter, MutexTryenter, MutexExit, MutexDestroy, Goto, locals
<1>3. Took(t) /\ Spares(t)
  <2>1. \A x \in Mutexes : owner'[x] \in {owner[x], None, t}
    BY <1>0 DEF MutexEnter, MutexTryenter, MutexExit, MutexDestroy
  <2> QED BY <1>1, <2>1 DEF Took, Spares
<1> QED BY <1>0, <1>1, <1>2, <1>3, KeptQuiet

(* The steps of mutex_exit() and mutex_destroy(). *)
LEMMA ExitStepKept ==
  ASSUME Inv, InheritedKept, PilockOK, NEW t \in Threads, ExitStep(t)
  PROVE  InheritedKept' /\ PilockOK'
<1>0. /\ t \in Actors /\ pc \in [Actors -> PCs] /\ lp \in [Threads -> Mutexes \cup {None}] /\ t # None
      /\ ts \in [Actors -> Turnstiles \cup {None}] /\ None \notin Threads
      /\ pi_benef \in [Turnstiles -> Threads \cup {None}] /\ TypeOK /\ QueueOK
  BY IdleTyping, Typing DEF Inv
<1>1. CASE LoadWaiters(t) \/ DestroyLock(t)
  <2>1. Frame(t) /\ pc'[t] # "pilock"
    BY <1>0, <1>1 DEF Frame, LoadWaiters, DestroyLock, Done, Goto
  <2>2. UNCHANGED <<owner, ts_sobj, pi_benef, pi_epri_hi, t_ts, t_epri>>
    BY <1>1 DEF LoadWaiters, DestroyLock, mvars, tsvars, tvars
  <2> QED BY <1>0, <2>1, <2>2, KeptSame
<1>2. CASE Release(t)
  <2>1. /\ pc[t] = "release" /\ ts_wlock[ts[t]] = None
        /\ UNCHANGED <<owner, ts_sobj, owner_lock, waiter, powner>>
    BY <1>2 DEF Release, mvars
  <2>2. PICK s \in Turnstiles : s = ts[t]
    BY <2>1, IdleTyping
  <2>3. CASE ~SameSobj(t)
    <3>1. Frame(t) /\ pc'[t] # "pilock"
      BY <1>0, <1>2, <2>1, <2>3 DEF Frame, Release, Done, Goto
    <3>2. UNCHANGED <<pi_benef, pi_epri_hi, t_ts, t_epri>>
      BY <1>2, <2>3 DEF Release, tvars
    <3> QED BY <1>0, <2>1, <3>1, <3>2, KeptSame
  <2>4. CASE SameSobj(t)
    <3>1. PICK w : w = Woken(ts_sleepq[s])
      OBVIOUS
    <3>2. PICK q : q = [ts_sleepq EXCEPT ![s] = SleepqTakeOff(@, w)]
      OBVIOUS
    <3>3. /\ pc' = [pc EXCEPT ![t] = "free"] /\ UNCHANGED <<lp, ts>>
          /\ IF pi_benef[s] = t THEN PiWaive(q, s) ELSE NoWaive(q)
          /\ t_ts' = [u \in Threads |-> IF u \in w THEN None ELSE t_ts[u]]
      BY <1>2, <2>2, <2>4, <3>1, <3>2 DEF Release, MustWaive, Goto
    <3>4. Frame(t) /\ pc'[t] # "pilock"
      BY <1>0, <2>1, <3>3 DEF Frame
    <3>5. \A u \in w : t_ts[u] = s
      BY <1>0, <3>1, WokenAsleep
    <3>6. \A u \in Threads : t_ts[u] # s => t_ts'[u] = t_ts[u]
      BY <3>3, <3>5
    <3>7. CASE pi_benef[s] = t
      <4>1. pi_benef[s] # None /\ PiWaive(q, s)
        BY <1>0, <3>3, <3>7
      <4>2. \A r \in Turnstiles \ {s} : pi_benef'[r] = pi_benef[r]
        BY <1>0, <4>1, WaiveLeaves
      <4>3. Spares(t)
        BY <2>1, <2>2, <3>6, <4>2 DEF Spares
      <4> QED BY <1>0, <2>1, <3>4, <4>1, <4>3, KeptWaive
    <3>8. CASE pi_benef[s] # t
      <4>1. UNCHANGED <<pi_benef, pi_epri_hi, t_epri>>
        BY <3>3, <3>8 DEF NoWaive
      <4>2. Took(t) /\ Spares(t)
        BY <2>1, <2>2, <3>6, <4>1 DEF Took, Spares
      <4> QED BY <1>0, <2>1, <3>4, <4>1, <4>2, KeptQuiet
    <3> QED BY <3>7, <3>8
  <2> QED BY <2>3, <2>4
<1> QED BY <1>1, <1>2 DEF ExitStep

(* tstile_free(). *)
LEMMA TstileFreeKept ==
  ASSUME Inv, InheritedKept, PilockOK, NEW a \in Actors, TstileFree(a)
  PROVE  InheritedKept' /\ PilockOK'
<1>0. /\ TypeOK /\ LockOK /\ pc \in [Actors -> PCs] /\ ts \in [Actors -> Turnstiles \cup {None}]
      /\ waiter \in [Actors -> Threads \cup {None}] /\ Threads \subseteq Actors
      /\ lp \in [Threads -> Mutexes \cup {None}] /\ ts_sobj \in [Turnstiles -> Mutexes \cup {None}]
      /\ pi_benef \in [Turnstiles -> Threads \cup {None}] /\ AttachOK
  BY Typing DEF Inv
<1>1. pc[a] \in {"free", "dfree"} /\ UNCHANGED <<owner, t_ts, owner_lock, powner, panicstr>>
  BY DEF TstileFree
<1>2. PICK s \in Turnstiles : s = ts[a] /\ ts_wlock[s] = a
  BY <1>0, <1>1 DEF TypeOK, LockOK, Locks
<1>3. /\ ts' = [ts EXCEPT ![a] = None] /\ waiter' = [waiter EXCEPT ![a] = None]
      /\ IF a \in Threads /\ waiter[a] # None
         THEN pc' = [pc EXCEPT ![a] = "swtch"] /\ UNCHANGED lp
         ELSE pc' = [pc EXCEPT ![a] = "run"] /\ lp' = [t \in Threads |-> IF t = a THEN None ELSE lp[t]]
  BY DEF TstileFree, Goto
<1>4. Frame(a) /\ pc'[a] # "pilock"
  BY <1>0, <1>1, <1>3 DEF Frame
<1>5. CASE ~IsEmpty(s)
  <2>1. UNCHANGED <<ts_sobj, pi_benef, pi_epri_hi, t_epri>>
    BY <1>2, <1>5 DEF TstileFree, tsvars
  <2> QED BY <1>1, <1>4, <2>1, KeptSame
<1>6. CASE IsEmpty(s)
  <2>1. /\ ts_sobj' = [ts_sobj EXCEPT ![s] = None]
        /\ IF pi_benef[s] = None THEN NoWaive(ts_sleepq) ELSE PiWaive(ts_sleepq, s)
    BY <1>2, <1>6 DEF TstileFree
  <2>2. \A r \in Turnstiles \ {s} : ts_sobj'[r] = ts_sobj[r]
    BY <1>0, <2>1
  <2>3. CASE pi_benef[s] = None
    <3>1. UNCHANGED <<pi_benef, pi_epri_hi, t_epri>>
      BY <2>1, <2>3 DEF NoWaive
    <3>2. Took(a) /\ Spares(a)
      BY <1>1, <1>2, <2>2, <3>1 DEF Took, Spares
    <3> QED BY <1>4, <2>2, <2>3, <3>1, <3>2, KeptQuiet
  <2>4. CASE pi_benef[s] # None
    <3>1. PiWaive(ts_sleepq, s)
      BY <2>1, <2>4
    <3>2. \A r \in Turnstiles \ {s} : pi_benef'[r] = pi_benef[r]
      BY <1>0, <2>4, <3>1, WaiveLeaves
    <3>3. Spares(a)
      BY <1>1, <1>2, <2>2, <3>2 DEF Spares
    <3> QED BY <1>1, <1>4, <2>2, <2>4, <3>1, <3>3, KeptWaive
  <2> QED BY <2>3, <2>4
<1> QED BY <1>5, <1>6

(* setrun(). *)
LEMMA SetrunKept ==
  ASSUME Inv, InheritedKept, PilockOK, NEW t \in Threads, Setrun(t)
  PROVE  InheritedKept' /\ PilockOK'
<1>0. /\ pc \in [Actors -> PCs] /\ ts \in [Actors -> Turnstiles \cup {None}] /\ waiter \in [Actors -> Threads \cup {None}]
      /\ t_ts \in [Threads -> Turnstiles \cup {None}] /\ Clock \in Actors
  BY Typing DEF Inv
<1>1. /\ pc' = [pc EXCEPT ![Clock] = "free"] /\ ts' = [ts EXCEPT ![Clock] = t_ts[t]]
      /\ waiter' = [waiter EXCEPT ![Clock] = t] /\ t_ts' = [t_ts EXCEPT ![t] = None]
      /\ UNCHANGED <<owner, ts_sobj, pi_benef, pi_epri_hi, t_epri, lp, owner_lock, powner>>
      /\ ts_wlock[t_ts[t]] = None
  BY DEF Setrun, Goto, MutexUnsleep, ThreadLockFree, mvars
<1>2. Frame(Clock) /\ pc'[Clock] # "pilock"
  BY <1>0, <1>1 DEF Frame
<1>3. Took(Clock) /\ Spares(Clock)
  BY <1>0, <1>1 DEF Took, Spares
<1> QED BY <1>0, <1>1, <1>2, <1>3, KeptQuiet

(* The owner of a mutex runs at no less than what the mutex's turnstile    *)
(* has on record for it, for any blocking chains, stale records, setrun()  *)
(* of sleepers and turnstiles that come and go: what pi_willto() gave it   *)
(* is not lost when it releases another mutex.                             *)
THEOREM MutexInheritedKept == Spec => []InheritedKept
<1>1. Init => InheritedKept /\ PilockOK
  <2> SUFFICES ASSUME Init PROVE InheritedKept /\ PilockOK
    OBVIOUS
  <2>1. (\A s \in Turnstiles : pi_benef[s] = None) /\ (\A t \in Threads : pc[t] = "run")
    BY DEF Init, Actors
  <2> QED BY <2>1 DEF InheritedKept, PilockOK
<1>2. Inv /\ InheritedKept /\ PilockOK /\ [Next]_vars => InheritedKept' /\ PilockOK'
  <2> SUFFICES ASSUME Inv, InheritedKept, PilockOK, [Next]_vars PROVE InheritedKept' /\ PilockOK'
    OBVIOUS
  <2>1. CASE Panic \/ UNCHANGED vars
    <3>1. UNCHANGED <<owner, ts_sobj, pi_benef, pi_epri_hi, t_ts, t_epri, pc, waiter, powner>>
      BY <2>1 DEF Panic, vars, mvars, tsvars, tvars, locals
    <3> QED BY <3>1 DEF InheritedKept, PilockOK, PilockAt, Prio
  <2>2. ASSUME NEW t \in Threads, Call(t) PROVE InheritedKept' /\ PilockOK'
    BY <2>2, CallKept DEF Call
  <2> QED
    BY <2>1, <2>2, EnterStepKept, ExitStepKept, TstileFreeKept, SetrunKept DEF Next
<1> QED
  BY <1>1, <1>2, MutexInv, PTL DEF Spec
=======================================================================
