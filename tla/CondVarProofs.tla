------------------------ MODULE CondVarProofs ------------------------
(***************************************************************************)
(* What is proved of the condition variables, for every set of waiters,    *)
(* signallers and condition variables, every delay and every priority.     *)
(***************************************************************************)
EXTENDS CondVar, SleepQProofs, TLAPS

(* The types of what TypeOK leaves out. *)
LocalsOK ==
  /\ rv \in [Waiters -> Int] /\ tim \in [TimedWaiters -> Int] /\ timeleft \in [TimedWaiters -> Int]
  /\ c_runtime \in [TimedWaiters -> Int] /\ panicstr \in BOOLEAN
  /\ spc \in [Signallers -> [at : {"out", "preview", "wake"}, cv : CVs \cup {None}, all : BOOLEAN]]
  /\ \A p \in Signallers : spc[p].at # "out" => spc[p].cv \in CVs

(* The sleep queue: in order, and each thread on it asleep on its variable. *)
QueueOK ==
  /\ Distinct(sq) /\ InOrder(sq, Prio)
  /\ \A t \in Waiters : Asleep(t) <=> t_wchan[t] # None
  /\ \A t \in Waiters : Asleep(t) => t_wchan[t] = CvOf[t] /\ pc[t] \in {"blocked", "look", "swtch"}
CountOK == \A v \in CVs : cv_waiters[v] = Cardinality(SleepersOn(v))

(* A waiter holds mp at these places. *)
Holding(t) ==
  \/ pc[t] \in {"test", "arming", "armed", "blocked", "issig", "ret"}
  \/ pc[t] = "untimeout" /\ t \in SigWaiters
MonitorOK(t) ==
  /\ Holding(t) => mp = t
  /\ pc[t] \in {"arming", "armed"} => ~cond[CvOf[t]]
  /\ pc[t] \in {"arming", "armed"} => t \in TimedWaiters
  /\ pc[t] = "untimeout" => t \in TimedWaiters
  /\ pc[t] \in {"issig", "forreal"} => t \in SigWaiters
  /\ rv[t] = 0 => pc[t] = "ret"
  /\ pc[t] \in {"out", "test"} /\ t \in TimedWaiters => rv[t] = 1
  /\ SigWaiters = {} /\ pc[t] = "ret" /\ rv[t] = 0 => ~cond[CvOf[t]]
  /\ t \in SigWaiters /\ pc[t] = "swtch" /\ Asleep(t) => ~pending[t]

(* A callout is made for one wait, runs when its time has come and not     *)
(* before the time that was asked for, and is gone before the wait ends.   *)
CalloutOK(t) ==
  /\ tmo[t] # "none" => pc[t] \in InWait
  /\ tmo[t] = "none" => pc[t] \notin {"armed", "blocked", "look", "swtch"}
  /\ tmo[t] # "none" /\ pc[t] = "remutex" => t \in SigWaiters
  /\ pc[t] = "arming" => lbolt + timeleft[t] >= tim[t]
  /\ tmo[t] = "armed" => c_runtime[t] >= tim[t]
  /\ tmo[t] \in {"running", "done"} => lbolt >= tim[t]
  /\ tmo[t] = "done" => ~(pc[t] = "swtch" /\ Asleep(t))
  /\ rv[t] = -1 => lbolt >= tim[t]

Inv ==
  /\ TypeOK
  /\ LocalsOK
  /\ QueueOK
  /\ CountOK
  /\ \A t \in Waiters : MonitorOK(t)
  /\ \A t \in TimedWaiters : CalloutOK(t)

-----------------------------------------------------------------------
(* What the invariant says of the types, as the provers use it. *)
LEMMA Typing ==
  ASSUME Inv
  PROVE  /\ sq \in Seq(Waiters) /\ t_wchan \in [Waiters -> CVs \cup {None}] /\ cv_waiters \in [CVs -> Nat]
         /\ pc \in [Waiters -> InWait \cup {"out", "test", "arming", "ret", "issig", "forreal"}]
         /\ cond \in [CVs -> BOOLEAN] /\ pending \in [Waiters -> BOOLEAN] /\ rv \in [Waiters -> Int]
         /\ t_epri \in [Waiters -> Pris \cup {0}] /\ lbolt \in Int
         /\ DOMAIN pc = Waiters /\ DOMAIN rv = Waiters /\ DOMAIN pending = Waiters /\ DOMAIN t_wchan = Waiters
         /\ DOMAIN tmo = TimedWaiters /\ DOMAIN tim = TimedWaiters /\ DOMAIN timeleft = TimedWaiters
         /\ DOMAIN c_runtime = TimedWaiters /\ DOMAIN spc = Signallers /\ DOMAIN cond = CVs /\ DOMAIN cv_waiters = CVs
         /\ CvOf \in [Waiters -> CVs] /\ None \notin CVs /\ None \notin Waiters /\ None \notin Signallers
         /\ TimedWaiters \subseteq Waiters /\ SigWaiters \subseteq Waiters /\ IsFiniteSet(Waiters)
         /\ \A v \in CVs : v # None
BY ThreadsAssumption, NumbersAssumption DEF Inv, TypeOK, LocalsOK

(* Dispatch priorities are numbers. *)
LEMMA PrioType ==
  ASSUME NEW e \in [Waiters -> Pris \cup {0}]
  PROVE  DispPrio(InitPri, e) \in [Waiters -> Nat]
BY NumbersAssumption DEF DispPrio

(* The sleepers of a variable are a finite set of waiters. *)
LEMMA SleepersFinite ==
  ASSUME Inv, NEW v
  PROVE  /\ IsFiniteSet(SleepersOn(v)) /\ Cardinality(SleepersOn(v)) \in Nat
         /\ \A t : t \in SleepersOn(v) <=> (Asleep(t) /\ t \in Waiters /\ t_wchan[t] = v)
<1>1. \A t : Asleep(t) => t \in Waiters
  BY Typing DEF Asleep, OnQueue
<1>2. \A t : t \in SleepersOn(v) <=> (Asleep(t) /\ t_wchan[t] = v)
  BY SleepersOnQueue DEF SleepersOn, Asleep
<1>3. SleepersOn(v) \subseteq Waiters
  BY <1>1, <1>2
<1>4. IsFiniteSet(SleepersOn(v))
  BY <1>3, Typing, FS_Subset
<1> QED
  BY <1>1, <1>2, <1>4, FS_CardinalityType

(* A step that leaves the queue alone. *)
LEMMA QueueSame ==
  ASSUME Inv, UNCHANGED <<sq, t_wchan, cv_waiters, t_epri>>,
         \A t \in Waiters : Asleep(t) => pc'[t] \in {"blocked", "look", "swtch"}
  PROVE  /\ QueueOK' /\ CountOK' /\ sq' \in Seq(Waiters)
         /\ t_wchan' \in [Waiters -> CVs \cup {None}] /\ cv_waiters' \in [CVs -> Nat]
         /\ \A t \in Waiters : Asleep(t)' <=> Asleep(t)
<1>1. (\A t \in Waiters : Asleep(t)' <=> Asleep(t)) /\ (\A v : SleepersOn(v)' = SleepersOn(v)) /\ Prio' = Prio
  BY DEF Asleep, SleepersOn, Prio
<1> QED
  BY <1>1, Typing DEF Inv, QueueOK, CountOK

(* The threads of W are taken off the queue, and counted off. *)
TakenOff(W) ==
  /\ sq' \in Seq(Waiters) /\ Distinct(sq')
  /\ \A prio : InOrder(sq, prio) => InOrder(sq', prio)
  /\ \A x : OnQueue(sq', x) <=> (OnQueue(sq, x) /\ x \notin W)
  /\ \A t \in W : Asleep(t)
  /\ t_wchan' = [t \in Waiters |-> IF t \in W THEN None ELSE t_wchan[t]]
  /\ UNCHANGED t_epri

(* Taking threads off the queue keeps it sound. *)
LEMMA QueueShrinks ==
  ASSUME Inv, NEW W, TakenOff(W),
         \A t \in Waiters : Asleep(t) /\ t \notin W => pc'[t] \in {"blocked", "look", "swtch"}
  PROVE  /\ QueueOK' /\ sq' \in Seq(Waiters) /\ t_wchan' \in [Waiters -> CVs \cup {None}]
         /\ \A t \in Waiters : Asleep(t)' <=> (Asleep(t) /\ t \notin W)
         /\ \A v \in CVs : \A t : t \in SleepersOn(v)' <=> (t \in SleepersOn(v) /\ t \notin W)
<1>1. \A t : Asleep(t)' <=> (Asleep(t) /\ t \notin W)
  BY DEF TakenOff, Asleep
<1>2. \A t : Asleep(t) => t \in Waiters
  BY Typing DEF Asleep, OnQueue
<1>3. \A t \in Waiters : t_wchan'[t] = IF t \in W THEN None ELSE t_wchan[t]
  BY DEF TakenOff
<1>4. \A v \in CVs : \A t : t \in SleepersOn(v)' <=> (Asleep(t)' /\ t_wchan'[t] = v)
  BY SleepersOnQueue DEF SleepersOn, Asleep
<1>5. \A v \in CVs : \A t : t \in SleepersOn(v) <=> (Asleep(t) /\ t_wchan[t] = v)
  BY SleepersOnQueue DEF SleepersOn, Asleep
<1>6. \A v \in CVs : \A t : t \in SleepersOn(v)' <=> (t \in SleepersOn(v) /\ t \notin W)
  BY <1>1, <1>2, <1>3, <1>4, <1>5
<1>7. Prio' = Prio
  BY DEF TakenOff, Prio
<1>8. Distinct(sq') /\ InOrder(sq', Prio')
  BY <1>7 DEF TakenOff, Inv, QueueOK
<1>9. \A t \in Waiters : /\ Asleep(t)' <=> t_wchan'[t] # None
                         /\ Asleep(t)' => t_wchan'[t] = CvOf[t] /\ pc'[t] \in {"blocked", "look", "swtch"}
  BY <1>1, <1>3 DEF Inv, QueueOK, TakenOff
<1>10. QueueOK'
  BY <1>8, <1>9 DEF QueueOK
<1>11. t_wchan' \in [Waiters -> CVs \cup {None}]
  BY Typing DEF TakenOff
<1> QED
  BY <1>1, <1>6, <1>10, <1>11 DEF TakenOff

(* ... and the count, when one thread is taken off. *)
LEMMA CountShrinks ==
  ASSUME Inv, NEW u \in Waiters, TakenOff({u}), cv_waiters' = [cv_waiters EXCEPT ![t_wchan[u]] = @ - 1],
         \A t \in Waiters : Asleep(t) /\ t # u => pc'[t] \in {"blocked", "look", "swtch"}
  PROVE  CountOK' /\ cv_waiters' \in [CVs -> Nat]
<1>1. \A v \in CVs : \A t : t \in SleepersOn(v)' <=> (t \in SleepersOn(v) /\ t # u)
  BY QueueShrinks
<1>2. Asleep(u) /\ t_wchan[u] \in CVs
  BY Typing DEF TakenOff, Inv, QueueOK
<1>3. ASSUME NEW v \in CVs PROVE cv_waiters'[v] = Cardinality(SleepersOn(v)') /\ cv_waiters'[v] \in Nat
  <2>1. CASE v = t_wchan[u]
    <3>1. u \in SleepersOn(v) /\ IsFiniteSet(SleepersOn(v))
      BY <1>2, <2>1, SleepersFinite
    <3>2. IsFiniteSet(SleepersOn(v)') /\ Cardinality(SleepersOn(v)') = Cardinality(SleepersOn(v)) - 1
      BY <1>1, <3>1, CardRemove
    <3>3. Cardinality(SleepersOn(v)') \in Nat
      BY <3>2, FS_CardinalityType
    <3>4. cv_waiters[v] = Cardinality(SleepersOn(v)) /\ cv_waiters'[v] = cv_waiters[v] - 1
      BY <2>1, Typing DEF Inv, CountOK
    <3> QED
      BY <3>2, <3>3, <3>4
  <2>2. CASE v # t_wchan[u]
    <3>1. SleepersOn(v)' = SleepersOn(v)
      BY <1>1, <2>2, SleepersFinite
    <3> QED
      BY <2>2, <3>1, Typing DEF Inv, CountOK
  <2> QED
    BY <2>1, <2>2
<1>4. CountOK'
  BY <1>3 DEF CountOK
<1>5. cv_waiters' \in [CVs -> Nat]
  BY <1>3, Typing
<1> QED
  BY <1>4, <1>5

(* setrun() takes the thread off, if it is asleep. *)
LEMMA SetrunTakes ==
  ASSUME Inv, NEW t \in Waiters, Setrun(t), UNCHANGED t_epri, Asleep(t)
  PROVE  TakenOff({t}) /\ cv_waiters' = [cv_waiters EXCEPT ![t_wchan[t]] = @ - 1]
<1>1. sq' = SleepqDequeue(sq, t) /\ cv_waiters' = [cv_waiters EXCEPT ![t_wchan[t]] = @ - 1]
      /\ t_wchan' = [t_wchan EXCEPT ![t] = None]
  BY DEF Setrun, CvUnsleep
<1>2. sq \in Seq(Waiters) /\ Distinct(sq) /\ OnQueue(sq, t)
  BY Typing DEF Inv, QueueOK, Asleep
<1>3. /\ SleepqDequeue(sq, t) \in Seq(Waiters) /\ Distinct(SleepqDequeue(sq, t))
      /\ \A x : OnQueue(SleepqDequeue(sq, t), x) <=> (OnQueue(sq, x) /\ x # t)
  BY <1>2, DequeueRemoves
<1>4. \A prio : InOrder(sq, prio) => InOrder(sq', prio)
  BY <1>1, <1>2, DequeueKeepsOrder
<1>5. t_wchan' = [u \in Waiters |-> IF u \in {t} THEN None ELSE t_wchan[u]]
  BY <1>1, Typing
<1> QED
  BY <1>1, <1>3, <1>4, <1>5 DEF TakenOff

(* setrun() of t leaves the queue sound and t not on it. *)
LEMMA QueueSetrun ==
  ASSUME Inv, NEW t \in Waiters, Setrun(t), UNCHANGED t_epri,
         \A u \in Waiters : Asleep(u) /\ u # t => pc'[u] \in {"blocked", "look", "swtch"}
  PROVE  /\ QueueOK' /\ CountOK' /\ sq' \in Seq(Waiters)
         /\ t_wchan' \in [Waiters -> CVs \cup {None}] /\ cv_waiters' \in [CVs -> Nat]
         /\ \A u \in Waiters : Asleep(u)' <=> (Asleep(u) /\ u # t)
<1>1. CASE Asleep(t)
  <2>1. TakenOff({t}) /\ cv_waiters' = [cv_waiters EXCEPT ![t_wchan[t]] = @ - 1]
    BY <1>1, SetrunTakes
  <2>2. /\ QueueOK' /\ sq' \in Seq(Waiters) /\ t_wchan' \in [Waiters -> CVs \cup {None}]
        /\ \A u \in Waiters : Asleep(u)' <=> (Asleep(u) /\ u \notin {t})
    BY <2>1, QueueShrinks
  <2>3. CountOK' /\ cv_waiters' \in [CVs -> Nat]
    BY <2>1, CountShrinks
  <2> QED
    BY <2>2, <2>3
<1>2. CASE ~Asleep(t)
  <2>1. UNCHANGED <<sq, t_wchan, cv_waiters, t_epri>>
    BY <1>2 DEF Setrun, qvars
  <2> QED
    BY <1>2, <2>1, QueueSame
<1> QED
  BY <1>1, <1>2

(* sleepq_wakeone_chan finds the first sleeper of v, when there is one; it *)
(* has the highest priority of them.                                       *)
LEMMA WakeOneFinds ==
  ASSUME Inv, NEW v \in CVs, SleepersOn(v) # {}
  PROVE  \E u \in SleepersOn(v) : WakeOne(v) = {u} /\ \A t \in SleepersOn(v) : Prio[t] <= Prio[u]
<1> DEFINE On == {k \in 1..Len(sq) : t_wchan[sq[k]] = v}
<1>0. sq \in Seq(Waiters) /\ Len(sq) \in Nat
  BY Typing
<1>1. \A t : t \in SleepersOn(v) <=> \E k \in On : sq[k] = t
  BY DEF SleepersOn, Sleepers
<1>2. On # {} /\ On \in SUBSET Nat
  BY <1>0, <1>1
<1>3. PICK k \in On : \A j \in On : k <= j
  <2> HIDE DEF On
  <2> QED
    BY <1>2, LeastNatural
<1>4. k \in 1..Len(sq) /\ t_wchan[sq[k]] = v /\ \A j \in 1..(k - 1) : t_wchan[sq[j]] # v
  <2>1. ASSUME NEW j \in 1..(k - 1), t_wchan[sq[j]] = v PROVE FALSE
    <3>1. j \in On /\ ~(k <= j)
      BY <1>0, <2>1
    <3> QED
      BY <1>3, <3>1
  <2> QED
    BY <2>1
<1>5. \A i \in 1..Len(sq) : t_wchan[sq[i]] = v /\ (\A j \in 1..(i - 1) : t_wchan[sq[j]] # v) => i = k
  <2> SUFFICES ASSUME NEW i \in 1..Len(sq), t_wchan[sq[i]] = v, \A j \in 1..(i - 1) : t_wchan[sq[j]] # v
               PROVE  i = k
    OBVIOUS
  <2>1. k <= i
    BY <1>3
  <2>2. ~(k < i)
    BY <1>0, <1>4
  <2> QED
    BY <1>0, <1>4, <2>1, <2>2
<1>6. WakeOne(v) = {sq[k]}
  BY <1>4, <1>5 DEF WakeOne
<1>7. sq[k] \in SleepersOn(v)
  BY <1>1, <1>3
<1>8. \A t \in SleepersOn(v) : Prio[t] <= Prio[sq[k]]
  <2> SUFFICES ASSUME NEW t \in SleepersOn(v) PROVE Prio[t] <= Prio[sq[k]]
    OBVIOUS
  <2>1. PICK j \in On : sq[j] = t
    BY <1>1
  <2>2. k <= j /\ j \in 1..Len(sq) /\ sq[j] \in Waiters
    BY <1>0, <1>3, <2>1
  <2>3. Prio \in [Waiters -> Nat]
    BY Typing, PrioType DEF Prio
  <2>4. CASE k = j
    BY <2>1, <2>2, <2>3, <2>4
  <2>5. CASE k < j
    BY <1>4, <2>1, <2>2, <2>5 DEF Inv, QueueOK, InOrder
  <2> QED
    BY <1>4, <2>2, <2>4, <2>5
<1> QED
  BY <1>6, <1>7, <1>8

(* Threads of v are taken off, by cv_signal or cv_broadcast. *)
LEMMA TakeOffTakes ==
  ASSUME Inv, NEW W, NEW count, TakeOff(W, count), \A t \in W : Asleep(t), UNCHANGED t_epri
  PROVE  TakenOff(W) /\ cv_waiters' = count
<1>1. sq \in Seq(Waiters) /\ Distinct(sq)
  BY Typing DEF Inv, QueueOK
<1> QED
  BY <1>1, TakeOffRemoves DEF TakeOff, TakenOff

(* What cv_signal does to the queue: it takes off one sleeper of its       *)
(* variable, with the highest priority, or finds none.                     *)
LEMMA SignalTakes ==
  ASSUME Inv, NEW p \in Signallers, CvSignal(p)
  PROVE  \/ \E u \in SleepersOn(spc[p].cv) :
              /\ TakenOff({u}) /\ cv_waiters' = [cv_waiters EXCEPT ![t_wchan[u]] = @ - 1]
              /\ \A t \in SleepersOn(spc[p].cv) : Prio[t] <= Prio[u]
         \/ UNCHANGED qvars /\ SleepersOn(spc[p].cv) = {}
<1>1. PICK v \in CVs : v = spc[p].cv
  BY DEF Inv, LocalsOK, CvSignal
<1>2. UNCHANGED t_epri
  BY DEF CvSignal
<1>3. cv_waiters[v] = Cardinality(SleepersOn(v)) /\ IsFiniteSet(SleepersOn(v)) /\ cv_waiters[v] \in Nat
  BY SleepersFinite, Typing DEF Inv, CountOK
<1>4. cv_waiters[v] = 0 <=> SleepersOn(v) = {}
  BY <1>3, FS_EmptySet
<1>5. CASE StillWaiters(v)
  <2>1. TakeOff(WakeOne(v), [cv_waiters EXCEPT ![v] = @ - 1])
    BY <1>1, <1>5 DEF CvSignal
  <2>2. SleepersOn(v) # {}
    BY <1>3, <1>4, <1>5 DEF StillWaiters
  <2>3. PICK u \in SleepersOn(v) : WakeOne(v) = {u} /\ \A t \in SleepersOn(v) : Prio[t] <= Prio[u]
    BY <2>2, WakeOneFinds
  <2>4. Asleep(u) /\ t_wchan[u] = v
    BY SleepersFinite
  <2>5. TakenOff({u}) /\ cv_waiters' = [cv_waiters EXCEPT ![v] = @ - 1]
    BY <1>2, <2>1, <2>3, <2>4, TakeOffTakes
  <2> QED
    BY <1>1, <2>3, <2>4, <2>5
<1>6. CASE ~StillWaiters(v)
  <2>1. UNCHANGED qvars
    BY <1>1, <1>6 DEF CvSignal
  <2>2. SleepersOn(v) = {}
    BY <1>3, <1>4, <1>6 DEF StillWaiters
  <2> QED
    BY <1>1, <2>1, <2>2
<1> QED
  BY <1>5, <1>6

(* cv_broadcast takes off every sleeper of its variable. *)
LEMMA BroadcastTakes ==
  ASSUME Inv, NEW p \in Signallers, CvBroadcast(p)
  PROVE  \/ /\ TakenOff(SleepersOn(spc[p].cv)) /\ spc[p].cv \in CVs
            /\ cv_waiters' = [cv_waiters EXCEPT ![spc[p].cv] = 0]
         \/ UNCHANGED qvars /\ SleepersOn(spc[p].cv) = {}
<1>1. PICK v \in CVs : v = spc[p].cv
  BY DEF Inv, LocalsOK, CvBroadcast
<1>2. UNCHANGED t_epri
  BY DEF CvBroadcast
<1>3. cv_waiters[v] = Cardinality(SleepersOn(v)) /\ IsFiniteSet(SleepersOn(v)) /\ cv_waiters[v] \in Nat
  BY SleepersFinite, Typing DEF Inv, CountOK
<1>4. cv_waiters[v] = 0 <=> SleepersOn(v) = {}
  BY <1>3, FS_EmptySet
<1>5. CASE StillWaiters(v)
  <2>1. TakeOff(SleepersOn(v), [cv_waiters EXCEPT ![v] = 0])
    BY <1>1, <1>5 DEF CvBroadcast, WakeAll
  <2>2. \A t \in SleepersOn(v) : Asleep(t)
    BY SleepersFinite
  <2>3. TakenOff(SleepersOn(v)) /\ cv_waiters' = [cv_waiters EXCEPT ![v] = 0]
    BY <1>2, <2>1, <2>2, TakeOffTakes
  <2> QED
    BY <1>1, <2>3
<1>6. CASE ~StillWaiters(v)
  <2>1. UNCHANGED qvars
    BY <1>1, <1>6 DEF CvBroadcast
  <2>2. SleepersOn(v) = {}
    BY <1>3, <1>4, <1>6 DEF StillWaiters
  <2> QED
    BY <1>1, <2>1, <2>2
<1> QED
  BY <1>5, <1>6

(* So neither disturbs the queue. *)
LEMMA QueueWoken ==
  ASSUME Inv, NEW p \in Signallers, CvSignal(p) \/ CvBroadcast(p)
  PROVE  /\ QueueOK' /\ CountOK' /\ sq' \in Seq(Waiters)
         /\ t_wchan' \in [Waiters -> CVs \cup {None}] /\ cv_waiters' \in [CVs -> Nat]
         /\ \A u \in Waiters : Asleep(u)' => Asleep(u)
<1>0. UNCHANGED <<t_epri, pc>> /\ \A t \in Waiters : Asleep(t) => pc'[t] \in {"blocked", "look", "swtch"}
  BY DEF CvSignal, CvBroadcast, Inv, QueueOK
<1>1. CASE UNCHANGED qvars
  <2>1. UNCHANGED <<sq, t_wchan, cv_waiters, t_epri>>
    BY <1>0, <1>1 DEF qvars
  <2> QED
    BY <1>0, <2>1, QueueSame
<1>2. ASSUME NEW u \in SleepersOn(spc[p].cv), TakenOff({u}), cv_waiters' = [cv_waiters EXCEPT ![t_wchan[u]] = @ - 1]
      PROVE  /\ QueueOK' /\ CountOK' /\ sq' \in Seq(Waiters)
             /\ t_wchan' \in [Waiters -> CVs \cup {None}] /\ cv_waiters' \in [CVs -> Nat]
             /\ \A t \in Waiters : Asleep(t)' => Asleep(t)
  <2>1. u \in Waiters
    BY SleepersFinite
  <2>2. CountOK' /\ cv_waiters' \in [CVs -> Nat]
    BY <1>0, <1>2, <2>1, CountShrinks
  <2>3. /\ QueueOK' /\ sq' \in Seq(Waiters) /\ t_wchan' \in [Waiters -> CVs \cup {None}]
        /\ \A t \in Waiters : Asleep(t)' => Asleep(t)
    BY <1>0, <1>2, QueueShrinks
  <2> QED
    BY <2>2, <2>3
<1>3. ASSUME NEW v \in CVs, TakenOff(SleepersOn(v)), cv_waiters' = [cv_waiters EXCEPT ![v] = 0]
      PROVE  /\ QueueOK' /\ CountOK' /\ sq' \in Seq(Waiters)
             /\ t_wchan' \in [Waiters -> CVs \cup {None}] /\ cv_waiters' \in [CVs -> Nat]
             /\ \A t \in Waiters : Asleep(t)' => Asleep(t)
  <2>1. /\ QueueOK' /\ sq' \in Seq(Waiters) /\ t_wchan' \in [Waiters -> CVs \cup {None}]
        /\ \A t \in Waiters : Asleep(t)' => Asleep(t)
        /\ \A w \in CVs : \A t : t \in SleepersOn(w)' <=> (t \in SleepersOn(w) /\ t \notin SleepersOn(v))
    BY <1>0, <1>3, QueueShrinks
  <2>2. ASSUME NEW w \in CVs PROVE cv_waiters'[w] = Cardinality(SleepersOn(w)') /\ cv_waiters'[w] \in Nat
    <3>1. CASE w = v
      <4>1. SleepersOn(w)' = {}
        BY <2>1, <3>1
      <4> QED
        BY <1>3, <3>1, <4>1, FS_EmptySet, Typing
    <3>2. CASE w # v
      <4>1. \A t \in SleepersOn(w) : t \notin SleepersOn(v)
        BY <3>2, SleepersFinite
      <4>2. SleepersOn(w)' = SleepersOn(w)
        BY <2>1, <4>1
      <4> QED
        BY <1>3, <3>2, <4>2, Typing DEF Inv, CountOK
    <3> QED
      BY <3>1, <3>2
  <2>3. CountOK' /\ cv_waiters' \in [CVs -> Nat]
    BY <1>3, <2>2, Typing DEF CountOK
  <2> QED
    BY <2>1, <2>3
<1> QED
  BY <1>1, <1>2, <1>3, SignalTakes, BroadcastTakes

(* cv_block puts the thread on the queue, in the order of priority. *)
LEMMA QueueBlock ==
  ASSUME Inv, NEW t \in Waiters, CvBlock(t)
  PROVE  /\ QueueOK' /\ CountOK' /\ sq' \in Seq(Waiters)
         /\ t_wchan' \in [Waiters -> CVs \cup {None}] /\ cv_waiters' \in [CVs -> Nat]
         /\ \A u \in Waiters : Asleep(u)' <=> (Asleep(u) \/ u = t)
         /\ \A v \in CVs \ {CvOf[t]} : SleepersOn(v)' = SleepersOn(v)
<1>0. /\ sq' = SleepqInsert(sq, t, Prio) /\ t_wchan' = [t_wchan EXCEPT ![t] = CvOf[t]]
      /\ cv_waiters' = [cv_waiters EXCEPT ![CvOf[t]] = @ + 1] /\ pc' = [pc EXCEPT ![t] = "blocked"]
      /\ UNCHANGED t_epri
  BY DEF CvBlock
<1>1. ~Asleep(t) /\ CvOf[t] \in CVs
  BY Typing DEF CvBlock, MustWait, Inv, QueueOK
<1>2. sq \in Seq(Waiters) /\ Prio \in [Waiters -> Nat] /\ Distinct(sq) /\ InOrder(sq, Prio) /\ ~OnQueue(sq, t)
  BY <1>1, Typing, PrioType DEF Prio, Inv, QueueOK, Asleep
<1>3. /\ sq' \in Seq(Waiters) /\ Distinct(sq') /\ InOrder(sq', Prio)
      /\ \A x : OnQueue(sq', x) <=> (OnQueue(sq, x) \/ x = t)
  BY <1>0, <1>2, InsertSound
<1>4. \A u : Asleep(u)' <=> (Asleep(u) \/ u = t)
  BY <1>3 DEF Asleep
<1>5. Prio' = Prio
  BY <1>0 DEF Prio
<1>6. \A u \in Waiters : t_wchan'[u] = (IF u = t THEN CvOf[t] ELSE t_wchan[u]) /\ pc'[u] = (IF u = t THEN "blocked" ELSE pc[u])
  BY <1>0, Typing
<1>7. \A u \in Waiters : /\ Asleep(u)' <=> t_wchan'[u] # None
                         /\ Asleep(u)' => t_wchan'[u] = CvOf[u] /\ pc'[u] \in {"blocked", "look", "swtch"}
  BY <1>1, <1>4, <1>6, Typing DEF Inv, QueueOK
<1>8. QueueOK'
  BY <1>3, <1>5, <1>7 DEF QueueOK
<1>9. \A v \in CVs : \A u : u \in SleepersOn(v)' <=> (Asleep(u)' /\ t_wchan'[u] = v)
  BY SleepersOnQueue DEF SleepersOn, Asleep
<1>10. \A v \in CVs : \A u : u \in SleepersOn(v)' <=> (u \in SleepersOn(v) \/ (u = t /\ v = CvOf[t]))
  <2> SUFFICES ASSUME NEW v \in CVs, NEW u
               PROVE  u \in SleepersOn(v)' <=> (u \in SleepersOn(v) \/ (u = t /\ v = CvOf[t]))
    OBVIOUS
  <2>1. u \in SleepersOn(v) <=> (Asleep(u) /\ u \in Waiters /\ t_wchan[u] = v)
    BY SleepersFinite
  <2>2. Asleep(u) => u \in Waiters
    BY Typing DEF Asleep, OnQueue
  <2> QED
    BY <1>1, <1>4, <1>6, <1>9, <2>1, <2>2
<1>11. \A v \in CVs \ {CvOf[t]} : SleepersOn(v)' = SleepersOn(v)
  BY <1>10
<1>12. ASSUME NEW v \in CVs PROVE cv_waiters'[v] = Cardinality(SleepersOn(v)') /\ cv_waiters'[v] \in Nat
  <2>1. CASE v = CvOf[t]
    <3>1. t \notin SleepersOn(v) /\ IsFiniteSet(SleepersOn(v))
      BY <1>1, SleepersFinite
    <3>2. Cardinality(SleepersOn(v)') = Cardinality(SleepersOn(v)) + 1
      BY <1>10, <2>1, <3>1, CardAdd
    <3>3. cv_waiters[v] = Cardinality(SleepersOn(v)) /\ cv_waiters[v] \in Nat /\ cv_waiters'[v] = cv_waiters[v] + 1
      BY <1>0, <2>1, Typing DEF Inv, CountOK
    <3> QED
      BY <3>2, <3>3
  <2>2. CASE v # CvOf[t]
    BY <1>0, <1>11, <2>2, Typing DEF Inv, CountOK
  <2> QED
    BY <2>1, <2>2
<1>13. CountOK' /\ cv_waiters' \in [CVs -> Nat]
  BY <1>0, <1>12, Typing DEF CountOK
<1>14. t_wchan' \in [Waiters -> CVs \cup {None}]
  BY <1>0, <1>1, Typing
<1> QED
  BY <1>3, <1>4, <1>8, <1>11, <1>13, <1>14

(* cv_changepri moves a sleeper to the place of its new priority. *)
LEMMA QueueChangePri ==
  ASSUME Inv, NEW t \in Waiters, NEW pri \in Pris \cup {0}, CvChangePri(t, pri)
  PROVE  /\ QueueOK' /\ CountOK' /\ sq' \in Seq(Waiters) /\ t_epri' \in [Waiters -> Pris \cup {0}]
         /\ \A u \in Waiters : Asleep(u)' <=> Asleep(u)
         /\ \A v \in CVs : SleepersOn(v)' = SleepersOn(v)
<1>0. /\ t_epri' = [t_epri EXCEPT ![t] = pri] /\ UNCHANGED <<t_wchan, cv_waiters, pc>>
      /\ sq' = IF Asleep(t) THEN SleepqInsert(SleepqDequeue(sq, t), t, DispPrio(InitPri, t_epri')) ELSE sq
  BY DEF CvChangePri, Requeue
<1>1. t_epri' \in [Waiters -> Pris \cup {0}] /\ \A u \in Waiters \ {t} : t_epri'[u] = t_epri[u]
  BY <1>0, Typing
<1>2. PICK p2 : p2 = DispPrio(InitPri, t_epri')
  OBVIOUS
<1>3. Prio' = p2 /\ p2 \in [Waiters -> Nat] /\ Prio \in [Waiters -> Nat]
  BY <1>1, <1>2, Typing, PrioType DEF Prio
<1>4. \A u \in Waiters \ {t} : p2[u] = Prio[u]
  <2>1. DOMAIN InitPri = Waiters
    BY NumbersAssumption
  <2> QED
    BY <1>1, <1>2, <2>1 DEF Prio, DispPrio
<1>5. sq \in Seq(Waiters) /\ Distinct(sq) /\ InOrder(sq, Prio)
  BY Typing DEF Inv, QueueOK
<1>6. /\ sq' \in Seq(Waiters) /\ Distinct(sq') /\ InOrder(sq', p2)
      /\ \A x : OnQueue(sq', x) <=> OnQueue(sq, x)
  <2>1. CASE Asleep(t)
    <3>1. OnQueue(sq, t) /\ sq' = SleepqInsert(SleepqDequeue(sq, t), t, p2)
      BY <1>0, <1>2, <2>1 DEF Asleep
    <3> QED
      BY <1>3, <1>4, <1>5, <3>1, RequeueSound
  <2>2. CASE ~Asleep(t)
    <3>1. \A x : OnQueue(sq, x) => p2[x] = Prio[x]
      BY <1>4, <1>5, <2>2 DEF Asleep, OnQueue
    <3>2. InOrder(sq, p2)
      BY <1>5, <3>1, OrderOfMembers
    <3> QED
      BY <1>0, <1>5, <2>2, <3>2
  <2> QED
    BY <2>1, <2>2
<1>7. \A u : Asleep(u)' <=> Asleep(u)
  BY <1>6 DEF Asleep
<1>8. \A v \in CVs : SleepersOn(v)' = SleepersOn(v)
  <2>1. Sleepers(sq)' = Sleepers(sq)
    <3>1. \A x : x \in Sleepers(sq) <=> OnQueue(sq, x)
      BY SleepersOnQueue
    <3>2. \A x : x \in Sleepers(sq') <=> OnQueue(sq', x)
      BY SleepersOnQueue
    <3> QED
      BY <1>6, <3>1, <3>2
  <2> QED
    BY <1>0, <2>1 DEF SleepersOn
<1>9. QueueOK'
  BY <1>0, <1>3, <1>6, <1>7 DEF Inv, QueueOK
<1>10. CountOK'
  BY <1>0, <1>8 DEF Inv, CountOK
<1> QED
  BY <1>1, <1>6, <1>7, <1>8, <1>9, <1>10

-----------------------------------------------------------------------
(* A step of a waiter, or a signal for it. *)

(* It does to the queue what the lemmas above say. *)
LEMMA WaiterQueue ==
  ASSUME Inv, NEW t \in Waiters, WaiterStep(t) \/ PostSignal(t)
  PROVE  /\ QueueOK' /\ CountOK' /\ sq' \in Seq(Waiters)
         /\ t_wchan' \in [Waiters -> CVs \cup {None}] /\ cv_waiters' \in [CVs -> Nat]
         /\ \A u \in Waiters : Asleep(u)' => Asleep(u) \/ (u = t /\ CvBlock(t))
         /\ Setrun(t) => ~Asleep(t)'
<1>0. \A u \in Waiters : Asleep(u) => pc[u] \in {"blocked", "look", "swtch"}
  BY DEF Inv, QueueOK
<1>1. ASSUME UNCHANGED <<sq, t_wchan, cv_waiters, t_epri>>,
             \A u \in Waiters : Asleep(u) => pc'[u] \in {"blocked", "look", "swtch"}
      PROVE  /\ QueueOK' /\ CountOK' /\ sq' \in Seq(Waiters)
             /\ t_wchan' \in [Waiters -> CVs \cup {None}] /\ cv_waiters' \in [CVs -> Nat]
             /\ \A u \in Waiters : Asleep(u)' => Asleep(u)
             /\ Setrun(t) => ~Asleep(t)'
  <2>1. Setrun(t) => ~Asleep(t)'
    BY <1>1, QueueSetrun
  <2> QED
    BY <1>1, <2>1, QueueSame
<1>2. ASSUME Setrun(t), UNCHANGED t_epri, \A u \in Waiters : Asleep(u) /\ u # t => pc'[u] \in {"blocked", "look", "swtch"}
      PROVE  /\ QueueOK' /\ CountOK' /\ sq' \in Seq(Waiters)
             /\ t_wchan' \in [Waiters -> CVs \cup {None}] /\ cv_waiters' \in [CVs -> Nat]
             /\ \A u \in Waiters : Asleep(u)' => Asleep(u)
             /\ ~Asleep(t)'
  BY <1>2, QueueSetrun
<1>3. CASE \/ Enter(t) \/ Leave(t) \/ Again(t) \/ PanicReturn(t) \/ (\E d \in Delays : TimedWait(t, d))
           \/ RealtimeTimeout(t) \/ SchedctlSkips(t) \/ MutexEnter(t) \/ Untimeout(t) \/ NoSignal(t) \/ IsSig(t) \/ ForReal(t)
           \/ MutexExit(t) \/ SwtchReturns(t)
  <2>1. UNCHANGED <<sq, t_wchan, cv_waiters, t_epri>>
    BY <1>3 DEF Enter, Leave, Again, PanicReturn, TimedWait, RealtimeTimeout, SchedctlSkips, MutexEnter, Untimeout,
                NoSignal, IsSig, ForReal, MutexExit, SwtchReturns, qvars
  <2>2. \A u \in Waiters \ {t} : pc'[u] = pc[u]
    BY <1>3, Typing DEF Enter, Leave, Again, PanicReturn, TimedWait, RealtimeTimeout, SchedctlSkips, MutexEnter, Untimeout,
                NoSignal, IsSig, ForReal, MutexExit, SwtchReturns
  <2>3. Asleep(t) => pc'[t] \in {"blocked", "look", "swtch"}
    BY <1>0, <1>3, Typing DEF Enter, Leave, Again, PanicReturn, TimedWait, RealtimeTimeout, SchedctlSkips, MutexEnter,
                Untimeout, NoSignal, IsSig, ForReal, MutexExit, SwtchReturns, MustWait
  <2> QED
    BY <1>0, <1>1, <2>1, <2>2, <2>3
<1>4. CASE CvBlock(t)
  <2>1. ~Setrun(t)
    <3>1. ~Asleep(t) /\ Asleep(t)'
      BY <1>4, QueueBlock DEF CvBlock, MustWait, Inv, QueueOK
    <3> QED
      BY <3>1 DEF Setrun, qvars, Asleep
  <2> QED
    BY <1>4, <2>1, QueueBlock
<1>5. CASE Look(t)
  <2>1. UNCHANGED t_epri /\ pc' = [pc EXCEPT ![t] = "swtch"]
    BY <1>5 DEF Look
  <2>2. \A u \in Waiters : Asleep(u) => pc'[u] \in {"blocked", "look", "swtch"}
    BY <1>0, <2>1, Typing
  <2>3. CASE Setrun(t)
    BY <1>2, <2>1, <2>2, <2>3
  <2>4. CASE ~Setrun(t)
    <3>1. UNCHANGED <<sq, t_wchan, cv_waiters, t_epri>>
      BY <1>5, <2>1, <2>4 DEF Look, qvars
    <3> QED
      BY <1>1, <2>2, <3>1
  <2> QED
    BY <2>3, <2>4
<1>6. CASE PostSignal(t)
  <2>1. UNCHANGED <<t_epri, pc>>
    BY <1>6 DEF PostSignal
  <2>2. \A u \in Waiters : Asleep(u) => pc'[u] \in {"blocked", "look", "swtch"}
    BY <1>0, <2>1
  <2>3. CASE Setrun(t)
    BY <1>2, <2>1, <2>2, <2>3
  <2>4. CASE ~Setrun(t)
    <3>1. UNCHANGED <<sq, t_wchan, cv_waiters, t_epri>>
      BY <1>6, <2>1, <2>4 DEF PostSignal, qvars
    <3> QED
      BY <1>1, <2>2, <3>1
  <2> QED
    BY <2>3, <2>4
<1> QED
  BY <1>3, <1>4, <1>5, <1>6 DEF WaiterStep

(* ForgetTimes keeps types and the times of the others. *)
LEMMA ForgetTypes ==
  ASSUME Inv, NEW t \in Waiters, ForgetTimes(t)
  PROVE  /\ tim' \in [TimedWaiters -> Int] /\ timeleft' \in [TimedWaiters -> Int] /\ c_runtime' \in [TimedWaiters -> Int]
         /\ \A u \in TimedWaiters \ {t} : tim'[u] = tim[u] /\ timeleft'[u] = timeleft[u] /\ c_runtime'[u] = c_runtime[u]
         /\ t \in TimedWaiters => tim'[t] = 0
         /\ tmo' = tmo
BY DEF ForgetTimes, Inv, LocalsOK

(* The other variables keep their types. *)
LEMMA WaiterTypes ==
  ASSUME Inv, NEW t \in Waiters, WaiterStep(t) \/ PostSignal(t)
  PROVE  TypeOK' /\ LocalsOK'
<1>0. TypeOK /\ LocalsOK /\ TimedWaiters \subseteq Waiters /\ Delays \subseteq Int
  BY ThreadsAssumption, NumbersAssumption DEF Inv
<1>1. sq' \in Seq(Waiters) /\ t_wchan' \in [Waiters -> CVs \cup {None}] /\ cv_waiters' \in [CVs -> Nat]
  BY WaiterQueue
<1>2. lbolt' = lbolt /\ t_epri' = t_epri /\ spc' = spc /\ panicstr' = panicstr
  BY DEF WaiterStep, PostSignal, Enter, Leave, Again, PanicReturn, TimedWait, RealtimeTimeout, SchedctlSkips, MutexEnter,
         Untimeout, NoSignal, IsSig, ForReal, MutexExit, SwtchReturns, CvBlock, Look
<1>3. mp' \in {mp, t, None}
  BY DEF WaiterStep, PostSignal, Enter, Leave, Again, PanicReturn, TimedWait, RealtimeTimeout, SchedctlSkips, MutexEnter,
         Untimeout, NoSignal, IsSig, ForReal, MutexExit, SwtchReturns, CvBlock, Look
<1>4. pc' = pc \/ \E l \in InWait \cup {"out", "test", "arming", "ret", "issig", "forreal"} : pc' = [pc EXCEPT ![t] = l]
  BY DEF WaiterStep, PostSignal, Enter, Leave, Again, PanicReturn, TimedWait, RealtimeTimeout, SchedctlSkips, MutexEnter,
         Untimeout, NoSignal, IsSig, ForReal, MutexExit, SwtchReturns, CvBlock, Look, InWait
<1>5. cond' = cond \/ \E v \in CVs : cond' = [cond EXCEPT ![v] = FALSE]
  BY Typing DEF WaiterStep, PostSignal, Enter, Leave, Again, PanicReturn, TimedWait, RealtimeTimeout, SchedctlSkips, MutexEnter,
         Untimeout, NoSignal, IsSig, ForReal, MutexExit, SwtchReturns, CvBlock, Look
<1>6. pending' = pending \/ \E b \in BOOLEAN : pending' = [pending EXCEPT ![t] = b]
  BY DEF WaiterStep, PostSignal, Enter, Leave, Again, PanicReturn, TimedWait, RealtimeTimeout, SchedctlSkips, MutexEnter,
         Untimeout, NoSignal, IsSig, ForReal, MutexExit, SwtchReturns, CvBlock, Look
<1>7. /\ tmo' \in [TimedWaiters -> {"none", "armed", "running", "done"}]
      /\ rv' \in [Waiters -> Int] /\ tim' \in [TimedWaiters -> Int]
      /\ timeleft' \in [TimedWaiters -> Int] /\ c_runtime' \in [TimedWaiters -> Int]
  <2>0. rv \in [Waiters -> Int] /\ lbolt \in Int /\ tim \in [TimedWaiters -> Int] /\ timeleft \in [TimedWaiters -> Int]
        /\ c_runtime \in [TimedWaiters -> Int] /\ tmo \in [TimedWaiters -> {"none", "armed", "running", "done"}]
        /\ 1 \in Int /\ 0 \in Int /\ -1 \in Int
    BY <1>0, Typing DEF TypeOK, LocalsOK
  <2>1. CASE Leave(t) \/ Again(t)
    <3>1. rv' = [rv EXCEPT ![t] = 1] /\ ForgetTimes(t)
      BY <2>1 DEF Leave, Again
    <3> QED
      BY <2>0, <3>1, ForgetTypes
  <2>2. CASE Untimeout(t)
    <3>1. \E n \in Int : rv' = [rv EXCEPT ![t] = n]
      <4>1. \A c \in Int : t \in TimedWaiters => TimeLeft(t, c) \in Int
        BY <2>0 DEF TimeLeft
      <4>2. t \in TimedWaiters
        BY <2>2 DEF Untimeout, Inv, MonitorOK
      <4>3. lbolt - 1 \in Int
        BY <2>0
      <4> QED
        BY <2>0, <2>2, <4>1, <4>2, <4>3 DEF Untimeout
    <3>2. tmo' = [tmo EXCEPT ![t] = "none"] /\ UNCHANGED <<tim, timeleft, c_runtime>>
      BY <2>2 DEF Untimeout, GoneBy, T!Cancel, T!Drop
    <3> QED
      BY <2>0, <3>1, <3>2
  <2>3. CASE RealtimeTimeout(t)
    <3>1. t \in TimedWaiters
      BY <2>3 DEF RealtimeTimeout, Inv, MonitorOK
    <3> QED
      BY <2>0, <2>3, <3>1 DEF RealtimeTimeout, T!Arm
  <2>4. ASSUME NEW d \in Delays, TimedWait(t, d)
        PROVE  /\ tmo' \in [TimedWaiters -> {"none", "armed", "running", "done"}]
               /\ rv' \in [Waiters -> Int] /\ tim' \in [TimedWaiters -> Int]
               /\ timeleft' \in [TimedWaiters -> Int] /\ c_runtime' \in [TimedWaiters -> Int]
    <3>1. d \in Int /\ lbolt + d \in Int
      BY <1>0, <2>0
    <3> QED
      BY <2>0, <2>4, <3>1 DEF TimedWait
  <2>5. CASE ForReal(t)
    BY <2>0, <2>5 DEF ForReal, tovars
  <2>6. CASE PanicReturn(t)
    BY <2>0, <2>6 DEF PanicReturn, tovars
  <2>7. CASE \/ Enter(t) \/ SchedctlSkips(t) \/ MutexEnter(t) \/ NoSignal(t) \/ IsSig(t) \/ MutexExit(t) \/ SwtchReturns(t)
             \/ CvBlock(t) \/ Look(t) \/ PostSignal(t)
    BY <2>0, <2>7 DEF PostSignal, Enter, SchedctlSkips, MutexEnter, NoSignal, IsSig, MutexExit, SwtchReturns, CvBlock, Look, tovars
  <2> QED
    BY <2>1, <2>2, <2>3, <2>4, <2>5, <2>6, <2>7 DEF WaiterStep
<1>8. mp' \in Waiters \cup Signallers \cup {None} /\ pc' \in [Waiters -> InWait \cup {"out", "test", "arming", "ret", "issig", "forreal"}]
  BY <1>0, <1>3, <1>4 DEF TypeOK
<1>9. cond' \in [CVs -> BOOLEAN] /\ pending' \in [Waiters -> BOOLEAN]
  BY <1>0, <1>5, <1>6 DEF TypeOK
<1>10. TypeOK'
  BY <1>0, <1>1, <1>2, <1>7, <1>8, <1>9 DEF TypeOK
<1>11. LocalsOK'
  BY <1>0, <1>2, <1>7 DEF LocalsOK
<1> QED
  BY <1>10, <1>11

(* The step leaves the other waiters where they are, and the mutex with    *)
(* who has it; a condition is at most used up.                             *)
LEMMA WaiterOthers ==
  ASSUME Inv, NEW t \in Waiters, WaiterStep(t) \/ PostSignal(t)
  PROVE  /\ \A u \in Waiters \ {t} : pc'[u] = pc[u] /\ rv'[u] = rv[u] /\ pending'[u] = pending[u] /\ (mp = u => mp' = u)
         /\ \A u \in TimedWaiters \ {t} : tmo'[u] = tmo[u] /\ tim'[u] = tim[u] /\ timeleft'[u] = timeleft[u]
                                          /\ c_runtime'[u] = c_runtime[u]
         /\ \A v \in CVs : ~cond[v] => ~cond'[v]
         /\ lbolt' = lbolt
<1>1. \A u \in Waiters \ {t} : pc'[u] = pc[u]
  BY Typing DEF WaiterStep, PostSignal, Enter, Leave, Again, PanicReturn, TimedWait, RealtimeTimeout, SchedctlSkips, MutexEnter,
         Untimeout, NoSignal, IsSig, ForReal, MutexExit, SwtchReturns, CvBlock, Look
<1>2. \A u \in Waiters \ {t} : rv'[u] = rv[u] /\ pending'[u] = pending[u]
  BY Typing DEF WaiterStep, PostSignal, Enter, Leave, Again, PanicReturn, TimedWait, RealtimeTimeout, SchedctlSkips, MutexEnter,
         Untimeout, NoSignal, IsSig, ForReal, MutexExit, SwtchReturns, CvBlock, Look
<1>3. mp' = mp \/ mp = None \/ mp = t
  <2>1. Holding(t) => mp = t
    BY DEF Inv, MonitorOK
  <2> QED
    BY <2>1 DEF WaiterStep, PostSignal, Enter, Leave, Again, PanicReturn, TimedWait, RealtimeTimeout, SchedctlSkips, MutexEnter,
         Untimeout, NoSignal, IsSig, ForReal, MutexExit, SwtchReturns, CvBlock, Look, Holding, MustWait
<1>4. \A u \in TimedWaiters \ {t} : tmo'[u] = tmo[u] /\ tim'[u] = tim[u] /\ timeleft'[u] = timeleft[u]
                                    /\ c_runtime'[u] = c_runtime[u]
  BY Typing, ForgetTypes DEF WaiterStep, PostSignal, Enter, Leave, Again, PanicReturn, TimedWait, RealtimeTimeout, SchedctlSkips,
         MutexEnter, Untimeout, NoSignal, IsSig, ForReal, MutexExit, SwtchReturns, CvBlock, Look, tovars,
         T!Arm, T!Cancel, T!Drop, GoneBy
<1>5. \A v \in CVs : ~cond[v] => ~cond'[v]
  BY Typing DEF WaiterStep, PostSignal, Enter, Leave, Again, PanicReturn, TimedWait, RealtimeTimeout, SchedctlSkips, MutexEnter,
         Untimeout, NoSignal, IsSig, ForReal, MutexExit, SwtchReturns, CvBlock, Look
<1>6. lbolt' = lbolt
  BY DEF WaiterStep, PostSignal, Enter, Leave, Again, PanicReturn, TimedWait, RealtimeTimeout, SchedctlSkips, MutexEnter,
         Untimeout, NoSignal, IsSig, ForReal, MutexExit, SwtchReturns, CvBlock, Look
<1> QED
  BY <1>1, <1>2, <1>3, <1>4, <1>5, <1>6, Typing

(* It leaves the waiter itself at a place that agrees with what it holds   *)
(* and has found.                                                          *)
LEMMA WaiterMonitor ==
  ASSUME Inv, NEW t \in Waiters, WaiterStep(t) \/ PostSignal(t)
  PROVE  \A u \in Waiters : MonitorOK(u)'
<1>0. /\ \A u \in Waiters \ {t} : pc'[u] = pc[u] /\ rv'[u] = rv[u] /\ pending'[u] = pending[u] /\ (mp = u => mp' = u)
      /\ \A v \in CVs : ~cond[v] => ~cond'[v]
  BY WaiterOthers
<1>1. (\A u \in Waiters : Asleep(u)' => Asleep(u) \/ (u = t /\ CvBlock(t))) /\ (Setrun(t) => ~Asleep(t)')
  BY WaiterQueue
<1>2. \A u \in Waiters : MonitorOK(u)
  BY DEF Inv
<1>3. ASSUME NEW u \in Waiters \ {t} PROVE MonitorOK(u)'
  BY <1>0, <1>1, <1>2, <1>3, Typing DEF MonitorOK, Holding
<1>4. MonitorOK(t) /\ t \in Waiters /\ CvOf[t] \in CVs
  BY <1>2, Typing
<1>5. ASSUME Enter(t) PROVE MonitorOK(t)'
  BY <1>0, <1>1, <1>5, <1>4, Typing DEF Enter, MonitorOK, Holding, MustWait
<1>6. ASSUME Leave(t) PROVE MonitorOK(t)'
  BY <1>0, <1>1, <1>6, <1>4, Typing DEF Leave, MonitorOK, Holding, MustWait
<1>7. ASSUME Again(t) PROVE MonitorOK(t)'
  BY <1>0, <1>1, <1>7, <1>4, Typing DEF Again, MonitorOK, Holding, MustWait
<1>8. ASSUME PanicReturn(t) PROVE MonitorOK(t)'
  BY <1>0, <1>1, <1>8, <1>4, Typing DEF PanicReturn, MonitorOK, Holding, MustWait
<1>9. ASSUME RealtimeTimeout(t) PROVE MonitorOK(t)'
  BY <1>0, <1>1, <1>9, <1>4, Typing DEF RealtimeTimeout, MonitorOK, Holding, MustWait
<1>10. ASSUME CvBlock(t) PROVE MonitorOK(t)'
  BY <1>0, <1>1, <1>10, <1>4, Typing DEF CvBlock, MonitorOK, Holding, MustWait
<1>11. ASSUME SchedctlSkips(t) PROVE MonitorOK(t)'
  BY <1>0, <1>1, <1>11, <1>4, Typing DEF SchedctlSkips, MonitorOK, Holding, MustWait
<1>12. ASSUME MutexExit(t) PROVE MonitorOK(t)'
  BY <1>0, <1>1, <1>12, <1>4, Typing DEF MutexExit, MonitorOK, Holding, MustWait
<1>13. ASSUME Look(t) PROVE MonitorOK(t)'
  BY <1>0, <1>1, <1>13, <1>4, Typing DEF Look, MonitorOK, Holding, MustWait, SigCame, qvars
<1>14. ASSUME SwtchReturns(t) PROVE MonitorOK(t)'
  BY <1>0, <1>1, <1>14, <1>4, Typing DEF SwtchReturns, MonitorOK, Holding, MustWait
<1>15. ASSUME MutexEnter(t) PROVE MonitorOK(t)'
  BY <1>0, <1>1, <1>15, <1>4, Typing DEF MutexEnter, MonitorOK, Holding, MustWait
<1>16. ASSUME Untimeout(t) PROVE MonitorOK(t)'
  BY <1>0, <1>1, <1>16, <1>4, Typing DEF Untimeout, MonitorOK, Holding, MustWait, TimeLeft
<1>17. ASSUME NoSignal(t) PROVE MonitorOK(t)'
  BY <1>0, <1>1, <1>17, <1>4, Typing DEF NoSignal, MonitorOK, Holding, MustWait
<1>18. ASSUME IsSig(t) PROVE MonitorOK(t)'
  BY <1>0, <1>1, <1>18, <1>4, Typing DEF IsSig, MonitorOK, Holding, MustWait
<1>19. ASSUME ForReal(t) PROVE MonitorOK(t)'
  BY <1>0, <1>1, <1>19, <1>4, Typing DEF ForReal, MonitorOK, Holding, MustWait
<1>20. ASSUME PostSignal(t) PROVE MonitorOK(t)'
  BY <1>0, <1>1, <1>20, <1>4, Typing DEF PostSignal, MonitorOK, Holding, MustWait, Wakeable, Setrun, qvars
<1>21. ASSUME NEW d \in Delays, TimedWait(t, d) PROVE MonitorOK(t)'
  BY <1>0, <1>1, <1>21, <1>4, Typing DEF TimedWait, MonitorOK, Holding, MustWait
<1>22. MonitorOK(t)'
  BY <1>5, <1>6, <1>7, <1>8, <1>9, <1>10, <1>11, <1>12, <1>13, <1>14, <1>15, <1>16, <1>17, <1>18, <1>19, <1>20, <1>21 DEF WaiterStep
<1> QED
  BY <1>3, <1>22

(* ... and its callout where the wait needs it. *)
LEMMA WaiterCallout ==
  ASSUME Inv, NEW t \in Waiters, WaiterStep(t) \/ PostSignal(t)
  PROVE  \A u \in TimedWaiters : CalloutOK(u)'
<1>0. /\ \A u \in Waiters \ {t} : pc'[u] = pc[u] /\ rv'[u] = rv[u]
      /\ \A u \in TimedWaiters \ {t} : tmo'[u] = tmo[u] /\ tim'[u] = tim[u] /\ timeleft'[u] = timeleft[u]
                                       /\ c_runtime'[u] = c_runtime[u]
      /\ lbolt' = lbolt
  BY WaiterOthers
<1>1. (\A u \in Waiters : Asleep(u)' => Asleep(u) \/ (u = t /\ CvBlock(t))) /\ (Setrun(t) => ~Asleep(t)')
  BY WaiterQueue
<1>2. \A u \in TimedWaiters : CalloutOK(u)
  BY DEF Inv
<1>3. ASSUME NEW u \in TimedWaiters, u # t PROVE CalloutOK(u)'
  BY <1>0, <1>1, <1>2, <1>3, Typing DEF CalloutOK
<1>4. SUFFICES ASSUME t \in TimedWaiters PROVE CalloutOK(t)'
  BY <1>3
<1>5. CalloutOK(t) /\ MonitorOK(t) /\ tim[t] \in Int /\ c_runtime[t] \in Int /\ timeleft[t] \in Int /\ rv[t] \in Int
      /\ lbolt \in Nat /\ tmo[t] \in {"none", "armed", "running", "done"}
  BY <1>2, <1>4, Typing DEF Inv, LocalsOK, TypeOK
<1>6. ASSUME Enter(t) PROVE CalloutOK(t)'
  BY <1>0, <1>1, <1>4, <1>5, <1>6, Typing DEF Enter, CalloutOK, MonitorOK, MustWait, InWait, tovars
<1>7. ASSUME Leave(t) PROVE CalloutOK(t)'
  BY <1>0, <1>1, <1>4, <1>5, <1>7, Typing, ForgetTypes DEF Leave, CalloutOK, MonitorOK, MustWait, InWait, tovars
<1>8. ASSUME Again(t) PROVE CalloutOK(t)'
  BY <1>0, <1>1, <1>4, <1>5, <1>8, Typing, ForgetTypes DEF Again, CalloutOK, MonitorOK, MustWait, InWait, tovars
<1>9. ASSUME PanicReturn(t) PROVE CalloutOK(t)'
  BY <1>0, <1>1, <1>4, <1>5, <1>9, Typing DEF PanicReturn, CalloutOK, MonitorOK, MustWait, InWait, tovars
<1>10. ASSUME RealtimeTimeout(t) PROVE CalloutOK(t)'
  BY <1>0, <1>1, <1>4, <1>5, <1>10, Typing DEF RealtimeTimeout, CalloutOK, MonitorOK, MustWait, InWait, tovars, T!Arm
<1>11. ASSUME CvBlock(t) PROVE CalloutOK(t)'
  BY <1>0, <1>1, <1>4, <1>5, <1>11, Typing DEF CvBlock, CalloutOK, MonitorOK, MustWait, InWait, tovars
<1>12. ASSUME SchedctlSkips(t) PROVE CalloutOK(t)'
  BY <1>0, <1>1, <1>4, <1>5, <1>12, Typing DEF SchedctlSkips, CalloutOK, MonitorOK, MustWait, InWait, tovars
<1>13. ASSUME MutexExit(t) PROVE CalloutOK(t)'
  BY <1>0, <1>1, <1>4, <1>5, <1>13, Typing DEF MutexExit, CalloutOK, MonitorOK, MustWait, InWait, tovars
<1>14. ASSUME Look(t) PROVE CalloutOK(t)'
  BY <1>0, <1>1, <1>4, <1>5, <1>14, Typing DEF Look, CalloutOK, MonitorOK, MustWait, InWait, tovars, SigCame, TimeIsUp, qvars
<1>15. ASSUME SwtchReturns(t) PROVE CalloutOK(t)'
  BY <1>0, <1>1, <1>4, <1>5, <1>15, Typing DEF SwtchReturns, CalloutOK, MonitorOK, MustWait, InWait, tovars
<1>16. ASSUME MutexEnter(t) PROVE CalloutOK(t)'
  BY <1>0, <1>1, <1>4, <1>5, <1>16, Typing DEF MutexEnter, CalloutOK, MonitorOK, MustWait, InWait, tovars
<1>17. ASSUME Untimeout(t) PROVE CalloutOK(t)'
  BY <1>0, <1>1, <1>4, <1>5, <1>17, Typing DEF Untimeout, CalloutOK, MonitorOK, MustWait, InWait, tovars, TimeLeft, GoneBy, T!Cancel, T!Drop
<1>18. ASSUME NoSignal(t) PROVE CalloutOK(t)'
  BY <1>0, <1>1, <1>4, <1>5, <1>18, Typing DEF NoSignal, CalloutOK, MonitorOK, MustWait, InWait, tovars
<1>19. ASSUME IsSig(t) PROVE CalloutOK(t)'
  BY <1>0, <1>1, <1>4, <1>5, <1>19, Typing DEF IsSig, CalloutOK, MonitorOK, MustWait, InWait, tovars
<1>20. ASSUME ForReal(t) PROVE CalloutOK(t)'
  BY <1>0, <1>1, <1>4, <1>5, <1>20, Typing DEF ForReal, CalloutOK, MonitorOK, MustWait, InWait, tovars
<1>21. ASSUME PostSignal(t) PROVE CalloutOK(t)'
  BY <1>0, <1>1, <1>4, <1>5, <1>21, Typing DEF PostSignal, CalloutOK, MonitorOK, MustWait, InWait, tovars, Wakeable, Setrun, qvars
<1>22. ASSUME NEW d \in Delays, TimedWait(t, d) PROVE CalloutOK(t)'
  BY <1>0, <1>1, <1>4, <1>5, <1>22, NumbersAssumption, Typing DEF TimedWait, CalloutOK, MonitorOK, MustWait, InWait
<1> QED
  BY <1>6, <1>7, <1>8, <1>9, <1>10, <1>11, <1>12, <1>13, <1>14, <1>15, <1>16, <1>17, <1>18, <1>19, <1>20, <1>21, <1>22 DEF WaiterStep

-----------------------------------------------------------------------
(* A step of a signaller: it makes a condition true only while nobody has  *)
(* the mutex.                                                              *)
LEMMA SignallerNext ==
  ASSUME Inv, NEW p \in Signallers, SignallerStep(p)
  PROVE  Inv'
<1>0. /\ UNCHANGED <<pc, rv, tmo, tim, timeleft, c_runtime, pending, t_epri, lbolt, panicstr>>
      /\ p \notin Waiters /\ TypeOK /\ LocalsOK
  BY ThreadsAssumption DEF SignallerStep, Produce, Preview, CvSignal, CvBroadcast, tovars, Inv
<1>1. /\ QueueOK' /\ CountOK' /\ sq' \in Seq(Waiters)
      /\ t_wchan' \in [Waiters -> CVs \cup {None}] /\ cv_waiters' \in [CVs -> Nat]
      /\ \A u \in Waiters : Asleep(u)' => Asleep(u)
  <2>1. CASE CvSignal(p) \/ CvBroadcast(p)
    BY <2>1, QueueWoken
  <2>2. CASE Preview(p) \/ \E v \in CVs : Produce(p, v)
    <3>1. UNCHANGED <<sq, t_wchan, cv_waiters, t_epri>>
      BY <2>2 DEF Preview, Produce, qvars
    <3>2. \A t \in Waiters : Asleep(t) => pc'[t] \in {"blocked", "look", "swtch"}
      BY <1>0 DEF Inv, QueueOK
    <3> QED
      BY <3>1, <3>2, QueueSame
  <2> QED
    BY <2>1, <2>2 DEF SignallerStep
<1>2. mp' \in {mp, p, None} /\ (mp' # mp => mp = None \/ mp = p)
  BY DEF SignallerStep, Produce, Preview, CvSignal, CvBroadcast, SignalDone
<1>3. /\ spc' \in [Signallers -> [at : {"out", "preview", "wake"}, cv : CVs \cup {None}, all : BOOLEAN]]
      /\ \A q \in Signallers : spc'[q].at # "out" => spc'[q].cv \in CVs
  <2> DEFINE R == [at : {"out", "preview", "wake"}, cv : CVs \cup {None}, all : BOOLEAN]
  <2>1. spc \in [Signallers -> R] /\ \A q \in Signallers : spc[q].at # "out" => spc[q].cv \in CVs
    BY <1>0 DEF LocalsOK
  <2>2. \E r \in R : (r.at # "out" => r.cv \in CVs) /\ spc' = [spc EXCEPT ![p] = r]
    <3>1. ASSUME NEW v \in CVs, Produce(p, v)
          PROVE  \E r \in R : (r.at # "out" => r.cv \in CVs) /\ spc' = [spc EXCEPT ![p] = r]
      <4>1. PICK all \in BOOLEAN : spc' = [spc EXCEPT ![p] = [at |-> "preview", cv |-> v, all |-> all]]
        BY <3>1 DEF Produce
      <4>2. PICK r : r = [at |-> "preview", cv |-> v, all |-> all]
        OBVIOUS
      <4>3. r \in R /\ r.cv = v
        BY <4>2
      <4> QED
        BY <4>1, <4>2, <4>3
    <3>2. CASE SignalDone(p)
      <4>1. IdleSignaller \in R /\ IdleSignaller.at = "out"
        BY DEF IdleSignaller
      <4> QED
        BY <3>2, <4>1 DEF SignalDone
    <3>3. CASE spc[p].at = "preview" /\ spc' = [spc EXCEPT ![p].at = "wake"]
      <4>1. PICK r : r = [spc[p] EXCEPT !.at = "wake"]
        OBVIOUS
      <4>2. r \in R /\ r.cv = spc[p].cv
        BY <2>1, <4>1
      <4>3. spc' = [spc EXCEPT ![p] = r]
        BY <3>3, <4>1
      <4> QED
        BY <2>1, <3>3, <4>2, <4>3
    <3> QED
      BY <3>1, <3>2, <3>3 DEF SignallerStep, Preview, CvSignal, CvBroadcast
  <2>3. PICK r \in R : (r.at # "out" => r.cv \in CVs) /\ spc' = [spc EXCEPT ![p] = r]
    BY <2>2
  <2>4. spc' \in [Signallers -> R]
    BY <2>1, <2>3
  <2>5. \A q \in Signallers : spc'[q] = IF q = p THEN r ELSE spc[q]
    BY <2>1, <2>3
  <2> QED
    BY <2>1, <2>3, <2>4, <2>5
<1>4. cond' = cond \/ (mp = None /\ \E v \in CVs : cond' = [cond EXCEPT ![v] = TRUE])
  BY DEF SignallerStep, Produce, Preview, CvSignal, CvBroadcast
<1>5. cond' \in [CVs -> BOOLEAN]
  BY <1>4, Typing
<1>6. TypeOK'
  BY <1>0, <1>1, <1>2, <1>5 DEF TypeOK
<1>7. LocalsOK'
  BY <1>0, <1>3 DEF LocalsOK
<1>8. \A u \in Waiters : MonitorOK(u)'
  <2> SUFFICES ASSUME NEW u \in Waiters PROVE MonitorOK(u)'
    OBVIOUS
  <2>1. MonitorOK(u) /\ u # p /\ u # None
    BY <1>0, Typing DEF Inv
  <2>2. Holding(u) => mp' = u /\ cond' = cond
    BY <1>2, <1>4, <2>1 DEF MonitorOK
  <2>3. Holding(u)' <=> Holding(u)
    BY <1>0 DEF Holding
  <2> QED
    BY <1>0, <1>1, <2>1, <2>2, <2>3 DEF MonitorOK, Holding
<1>9. \A u \in TimedWaiters : CalloutOK(u)'
  BY <1>0, <1>1, Typing DEF Inv, CalloutOK
<1> QED
  BY <1>1, <1>6, <1>7, <1>8, <1>9 DEF Inv

(* The clock ticks, or a callout is taken and calls setrun(). *)
LEMMA TimeNext ==
  ASSUME Inv, TimeStep
  PROVE  Inv'
<1>0. TypeOK /\ LocalsOK /\ MaxTime \in Nat /\ TimedWaiters \subseteq Waiters
  BY NumbersAssumption, ThreadsAssumption DEF Inv
<1>1. CASE Tick
  <2>1. UNCHANGED <<sq, t_wchan, cv_waiters, t_epri, mp, cond, pc, rv, tmo, tim, timeleft, c_runtime, pending, spc, panicstr>>
        /\ lbolt <= MaxTime /\ lbolt' = lbolt + 1
    BY <1>1 DEF Tick, qvars, tovars
  <2>2. \A t \in Waiters : Asleep(t) => pc'[t] \in {"blocked", "look", "swtch"}
    BY <2>1 DEF Inv, QueueOK
  <2>3. QueueOK' /\ CountOK' /\ \A t \in Waiters : Asleep(t)' <=> Asleep(t)
    BY <2>1, <2>2, QueueSame
  <2>4. TypeOK' /\ LocalsOK'
    BY <1>0, <2>1 DEF TypeOK, LocalsOK
  <2>5. \A u \in Waiters : MonitorOK(u)'
    BY <2>1, <2>3 DEF Inv, MonitorOK, Holding
  <2>6. \A u \in TimedWaiters : CalloutOK(u)'
    <3> SUFFICES ASSUME NEW u \in TimedWaiters PROVE CalloutOK(u)'
      OBVIOUS
    <3>1. CalloutOK(u) /\ lbolt \in Int /\ tim[u] \in Int /\ timeleft[u] \in Int /\ c_runtime[u] \in Int
      BY <1>0, Typing DEF Inv, LocalsOK
    <3> QED
      BY <1>0, <2>1, <2>3, <3>1 DEF CalloutOK
  <2> QED
    BY <2>3, <2>4, <2>5, <2>6 DEF Inv
<1>2. ASSUME NEW t \in TimedWaiters, CalloutStart(t) PROVE Inv'
  <2>1. UNCHANGED <<sq, t_wchan, cv_waiters, t_epri, mp, cond, pc, rv, tim, timeleft, c_runtime, pending, spc, panicstr, lbolt>>
        /\ lbolt >= c_runtime[t] /\ tmo[t] = "armed"
    BY <1>2 DEF CalloutStart, qvars
  <2>2. tmo' = [x \in TimedWaiters |-> IF x = t THEN "running" ELSE tmo[x]]
    BY <1>2 DEF CalloutStart, T!Run
  <2>3. \A u \in Waiters : Asleep(u) => pc'[u] \in {"blocked", "look", "swtch"}
    BY <2>1 DEF Inv, QueueOK
  <2>4. QueueOK' /\ CountOK' /\ \A u \in Waiters : Asleep(u)' <=> Asleep(u)
    BY <2>1, <2>3, QueueSame
  <2>5. TypeOK' /\ LocalsOK'
    BY <1>0, <2>1, <2>2 DEF TypeOK, LocalsOK
  <2>6. \A u \in Waiters : MonitorOK(u)'
    BY <2>1, <2>4 DEF Inv, MonitorOK, Holding
  <2>7. \A u \in TimedWaiters : CalloutOK(u)'
    <3> SUFFICES ASSUME NEW u \in TimedWaiters PROVE CalloutOK(u)'
      OBVIOUS
    <3>1. CalloutOK(u) /\ lbolt \in Int /\ tim[u] \in Int /\ timeleft[u] \in Int /\ c_runtime[u] \in Int
      BY <1>0, Typing DEF Inv, LocalsOK
    <3> QED
      BY <1>0, <2>1, <2>2, <2>4, <3>1 DEF CalloutOK
  <2> QED
    BY <2>4, <2>5, <2>6, <2>7 DEF Inv
<1>3. ASSUME NEW t \in TimedWaiters, CalloutSetrun(t) PROVE Inv'
  <2>1. UNCHANGED <<t_epri, mp, cond, pc, rv, tim, timeleft, c_runtime, pending, spc, panicstr, lbolt>>
        /\ tmo[t] = "running" /\ Setrun(t)
    BY <1>3 DEF CalloutSetrun
  <2>2. tmo' = [x \in TimedWaiters |-> IF x = t THEN "done" ELSE tmo[x]]
    BY <1>3 DEF CalloutSetrun, T!Run
  <2>3. \A u \in Waiters : Asleep(u) => pc'[u] \in {"blocked", "look", "swtch"}
    BY <2>1 DEF Inv, QueueOK
  <2>4. /\ QueueOK' /\ CountOK' /\ \A u \in Waiters : Asleep(u)' <=> (Asleep(u) /\ u # t)
        /\ sq' \in Seq(Waiters) /\ t_wchan' \in [Waiters -> CVs \cup {None}] /\ cv_waiters' \in [CVs -> Nat]
    BY <1>0, <2>1, <2>3, QueueSetrun
  <2>5. TypeOK' /\ LocalsOK'
    BY <1>0, <2>1, <2>2, <2>4 DEF TypeOK, LocalsOK
  <2>6. \A u \in Waiters : MonitorOK(u)'
    BY <2>1, <2>4 DEF Inv, MonitorOK, Holding
  <2>7. \A u \in TimedWaiters : CalloutOK(u)'
    <3> SUFFICES ASSUME NEW u \in TimedWaiters PROVE CalloutOK(u)'
      OBVIOUS
    <3>1. CalloutOK(u) /\ lbolt \in Int /\ tim[u] \in Int /\ timeleft[u] \in Int /\ c_runtime[u] \in Int
      BY <1>0, Typing DEF Inv, LocalsOK
    <3> QED
      BY <1>0, <2>1, <2>2, <2>4, <3>1 DEF CalloutOK
  <2> QED
    BY <2>4, <2>5, <2>6, <2>7 DEF Inv
<1> QED
  BY <1>1, <1>2, <1>3 DEF TimeStep

(* A priority is inherited, the system panics, or nothing happens. *)
LEMMA QuietNext ==
  ASSUME Inv, (\E t \in Waiters : \E pri \in Pris \cup {0} : CvChangePri(t, pri)) \/ Panic \/ UNCHANGED vars
  PROVE  Inv'
<1>0. UNCHANGED <<t_wchan, cv_waiters, mp, cond, pc, rv, tmo, tim, timeleft, c_runtime, pending, spc, lbolt>>
      /\ TypeOK /\ LocalsOK
  BY DEF CvChangePri, Panic, vars, qvars, tovars, Inv
<1>1. /\ QueueOK' /\ CountOK' /\ sq' \in Seq(Waiters) /\ t_epri' \in [Waiters -> Pris \cup {0}]
      /\ \A u \in Waiters : Asleep(u)' <=> Asleep(u)
  <2>1. ASSUME NEW t \in Waiters, NEW pri \in Pris \cup {0}, CvChangePri(t, pri)
        PROVE  /\ QueueOK' /\ CountOK' /\ sq' \in Seq(Waiters) /\ t_epri' \in [Waiters -> Pris \cup {0}]
               /\ \A u \in Waiters : Asleep(u)' <=> Asleep(u)
    BY <2>1, QueueChangePri
  <2>2. CASE Panic \/ UNCHANGED vars
    <3>1. UNCHANGED <<sq, t_wchan, cv_waiters, t_epri>>
      BY <2>2 DEF Panic, vars, qvars
    <3>2. \A t \in Waiters : Asleep(t) => pc'[t] \in {"blocked", "look", "swtch"}
      BY <1>0 DEF Inv, QueueOK
    <3> QED
      BY <3>1, <3>2, QueueSame, Typing
  <2> QED
    BY <2>1, <2>2
<1>2. panicstr' \in BOOLEAN
  BY <1>0 DEF CvChangePri, Panic, vars, LocalsOK
<1>3. TypeOK' /\ LocalsOK'
  BY <1>0, <1>1, <1>2 DEF TypeOK, LocalsOK
<1>4. \A u \in Waiters : MonitorOK(u)'
  BY <1>0, <1>1 DEF Inv, MonitorOK, Holding
<1>5. \A u \in TimedWaiters : CalloutOK(u)'
  BY <1>0, <1>1, Typing DEF Inv, CalloutOK
<1> QED
  BY <1>1, <1>3, <1>4, <1>5 DEF Inv

(* The invariant holds at first. *)
LEMMA InvInit == Init => Inv
<1> SUFFICES ASSUME Init PROVE Inv
  OBVIOUS
<1>0. sq = << >> /\ \A t : ~Asleep(t)
  BY DEF Init, Asleep, OnQueue
<1>1. TypeOK
  BY ThreadsAssumption, NumbersAssumption DEF Init, TypeOK, T!Init
<1>2. IdleSignaller \in [at : {"out", "preview", "wake"}, cv : CVs \cup {None}, all : BOOLEAN] /\ IdleSignaller.at = "out"
  BY DEF IdleSignaller
<1>3. LocalsOK
  <2>1. spc = [p \in Signallers |-> IdleSignaller]
    BY DEF Init
  <2>2. \A p \in Signallers : spc[p].at = "out"
    BY <1>2, <2>1
  <2>3. spc \in [Signallers -> [at : {"out", "preview", "wake"}, cv : CVs \cup {None}, all : BOOLEAN]]
    BY <1>2, <2>1
  <2>4. panicstr = FALSE
    BY DEF Init
  <2>5. rv = [t \in Waiters |-> 1] /\ tim = [t \in TimedWaiters |-> 0]
        /\ timeleft = [t \in TimedWaiters |-> 0] /\ c_runtime = [t \in TimedWaiters |-> 0]
    BY DEF Init
  <2>6. rv \in [Waiters -> Int] /\ tim \in [TimedWaiters -> Int] /\ timeleft \in [TimedWaiters -> Int]
        /\ c_runtime \in [TimedWaiters -> Int]
    BY <2>5
  <2> QED
    BY <2>2, <2>3, <2>4, <2>6 DEF LocalsOK
<1>4. QueueOK
  BY <1>0 DEF QueueOK, Distinct, InOrder, Init
<1>5. CountOK
  <2>1. \A v : SleepersOn(v) = {}
    BY <1>0 DEF SleepersOn, Sleepers
  <2> QED
    BY <2>1, FS_EmptySet DEF CountOK, Init
<1>6. \A t \in Waiters : MonitorOK(t)
  BY DEF Init, MonitorOK, Holding
<1>7. \A t \in TimedWaiters : CalloutOK(t)
  BY ThreadsAssumption DEF Init, CalloutOK, T!Init
<1> QED
  BY <1>1, <1>3, <1>4, <1>5, <1>6, <1>7 DEF Inv

(* Every step keeps the invariant. *)
LEMMA InvNext == Inv /\ [Next]_vars => Inv'
<1> SUFFICES ASSUME Inv, [Next]_vars PROVE Inv'
  OBVIOUS
<1>1. ASSUME NEW t \in Waiters, WaiterStep(t) \/ PostSignal(t) PROVE Inv'
  BY <1>1, WaiterQueue, WaiterTypes, WaiterMonitor, WaiterCallout DEF Inv
<1> QED
  BY <1>1, SignallerNext, TimeNext, QuietNext DEF Next

(* The inductive invariant of condvar.c. *)
THEOREM CondVarInv == Spec => []Inv
BY InvInit, InvNext, PTL DEF Spec

(* cv_waiters is the number of threads asleep on the variable, on a queue  *)
(* that it shares, through every preview, signal, broadcast, timeout and   *)
(* signal to a thread (condvar.c:409-455, 501-513).                        *)
THEOREM CondVarSound == Spec => []CvSound
<1>1. Inv => CvSound
  BY DEF Inv, CvSound, WaitersMatchQueue, QueueOK, CountOK
<1> QED
  BY <1>1, CondVarInv, PTL

(* No thread sleeps on after its callout has come and gone. *)
THEOREM CondVarTimed == Spec => []TimedSound
<1>1. Inv => TimedSound
  BY Typing DEF Inv, TypeOK, TimedSound, CvSound, WaitersMatchQueue, QueueOK, CountOK, NoLostTimeout, CalloutOK
<1> QED
  BY <1>1, CondVarInv, PTL

(* No setrun() callout outlives its wait. *)
THEOREM CondVarNoStaleSetrun == Spec => []NoStaleSetrun
<1>1. Inv => NoStaleSetrun
  BY DEF Inv, NoStaleSetrun, CalloutOK
<1> QED
  BY <1>1, CondVarInv, PTL

(* cv_timedwait and cv_timedwait_sig say -1 only when the time has come. *)
THEOREM CondVarTimeoutHonest == Spec => []TimeoutHonest
<1>1. Inv => TimeoutHonest
  BY DEF Inv, TimeoutHonest, CalloutOK
<1> QED
  BY <1>1, CondVarInv, PTL

(* No thread sleeps interruptibly on a signal that has come. *)
THEOREM CondVarNoSleepOnSignal == Spec => []NoSleepOnSignal
<1>1. Inv => NoSleepOnSignal
  BY ThreadsAssumption DEF Inv, NoSleepOnSignal, MonitorOK
<1> QED
  BY <1>1, CondVarInv, PTL

-----------------------------------------------------------------------
(* Sleepers of a variable, in the next state. *)
LEMMA SleepersNext ==
  ASSUME Inv', NEW v
  PROVE  \A t : t \in SleepersOn(v)' <=> (Asleep(t)' /\ t \in Waiters /\ t_wchan'[t] = v)
<1>1. sq' \in Seq(Waiters)
  BY DEF Inv, TypeOK
<1>2. \A t : Asleep(t)' => t \in Waiters
  BY <1>1 DEF Asleep, OnQueue
<1>3. \A t : t \in SleepersOn(v)' <=> (Asleep(t)' /\ t_wchan'[t] = v)
  BY SleepersOnQueue DEF SleepersOn, Asleep
<1> QED
  BY <1>2, <1>3

(* A sleeper sleeps on its own variable, before and after a step. *)
LEMMA SleepersAreAsleep ==
  ASSUME Inv, Inv', NEW v \in CVs
  PROVE  /\ \A t : t \in SleepersOn(v) <=> (Asleep(t) /\ t \in Waiters /\ CvOf[t] = v)
         /\ \A t : t \in SleepersOn(v)' <=> (Asleep(t)' /\ t \in Waiters /\ CvOf[t] = v)
<1>1. \A t \in Waiters : (Asleep(t) => t_wchan[t] = CvOf[t]) /\ (Asleep(t)' => t_wchan'[t] = CvOf[t])
  BY DEF Inv, QueueOK
<1> QED
  BY <1>1, SleepersFinite, SleepersNext

(* A thread that is awake and has yet to test the condition of v. *)
Watches(t, v) ==
  CvOf[t] = v /\ ~Asleep(t) /\ pc[t] \in InWait \cup {"test", "ret", "issig", "forreal"}

(* A waiter's step does not leave a true condition unwatched. *)
LEMMA WaiterWatches ==
  ASSUME Inv, Inv', SigWaiters = {}, NoMissedWakeup, NEW t \in Waiters, WaiterStep(t),
         NEW v \in CVs, cond'[v], SleepersOn(v)' # {}
  PROVE  \/ \E p \in Signallers : spc'[p].cv = v
         \/ \E u \in Waiters : Watches(u, v)'
<1>0. /\ \A u \in Waiters \ {t} : pc'[u] = pc[u]
      /\ cond[v]
      /\ \A u \in Waiters : Asleep(u)' => Asleep(u) \/ (u = t /\ CvBlock(t))
  BY WaiterOthers, WaiterQueue, Typing
<1>1. spc' = spc
  BY DEF WaiterStep, Enter, Leave, Again, PanicReturn, TimedWait, RealtimeTimeout, SchedctlSkips, MutexEnter,
         Untimeout, NoSignal, IsSig, ForReal, MutexExit, SwtchReturns, CvBlock, Look
<1>2. CvBlock(t) => CvOf[t] # v
  BY <1>0 DEF CvBlock, MustWait, Inv, MonitorOK
<1>3. SleepersOn(v) # {}
  <2>1. PICK u : u \in SleepersOn(v)'
    OBVIOUS
  <2>2. u \in Waiters /\ Asleep(u)' /\ CvOf[u] = v
    BY <2>1, SleepersAreAsleep
  <2>3. Asleep(u)
    BY <1>0, <1>2, <2>2
  <2> QED
    BY <2>2, <2>3, SleepersAreAsleep
<1>4. (\E p \in Signallers : spc[p].cv = v) \/ (\E u \in Waiters : Watches(u, v))
  BY <1>0, <1>3 DEF NoMissedWakeup, Watches
<1>5. ASSUME NEW u \in Waiters, Watches(u, v) PROVE Watches(u, v)'
  <2>1. CvOf[u] = v /\ ~Asleep(u)'
    BY <1>0, <1>2, <1>5 DEF Watches
  <2>2. CASE u # t
    BY <1>0, <1>5, <2>1, <2>2 DEF Watches
  <2>3. CASE u = t
    <3>1. ~Leave(t)
      BY <1>0, <1>5, <2>1, <2>3, Typing DEF Leave, Inv, MonitorOK
    <3>2. \A d \in Delays : ~TimedWait(t, d)
      BY <1>0, <1>5, <2>1, <2>3 DEF TimedWait, MustWait
    <3>3. ~RealtimeTimeout(t) /\ ~Enter(t)
      BY <1>5, <2>3 DEF RealtimeTimeout, Enter, Watches, InWait
    <3>4. ~CvBlock(t)
      BY <1>2, <2>1, <2>3
    <3>5. pc'[t] \in InWait \cup {"test", "ret", "issig", "forreal"}
      BY <3>1, <3>2, <3>3, <3>4, Typing DEF WaiterStep, Again, PanicReturn, SchedctlSkips, MutexEnter,
         Untimeout, NoSignal, IsSig, ForReal, MutexExit, SwtchReturns, Look, InWait
    <3> QED
      BY <2>1, <2>3, <3>5 DEF Watches
  <2> QED
    BY <2>2, <2>3
<1> QED
  BY <1>1, <1>4, <1>5

(* A step after which nobody new sleeps on v, no thread has moved and the  *)
(* signallers of v are still there.                                        *)
LEMMA StillWatched ==
  ASSUME Inv, Inv', NoMissedWakeup, NEW v \in CVs, cond[v], SleepersOn(v)' # {}, UNCHANGED pc,
         \A u \in Waiters : Asleep(u)' => Asleep(u),
         \A p \in Signallers : spc[p].cv = v => spc'[p].cv = v
  PROVE  \/ \E p \in Signallers : spc'[p].cv = v
         \/ \E u \in Waiters : Watches(u, v)'
<1>1. SleepersOn(v) # {}
  BY SleepersAreAsleep
<1>2. (\E p \in Signallers : spc[p].cv = v) \/ (\E u \in Waiters : Watches(u, v))
  BY <1>1 DEF NoMissedWakeup, Watches
<1> QED
  BY <1>2 DEF Watches

(* A signaller that has gone leaves nobody asleep on its variable, or a    *)
(* thread that it has woken.                                               *)
LEMMA SignallerWatches ==
  ASSUME Inv, Inv', NoMissedWakeup, NEW p \in Signallers, SignallerStep(p),
         NEW v \in CVs, cond'[v], SleepersOn(v)' # {}
  PROVE  \/ \E q \in Signallers : spc'[q].cv = v
         \/ \E u \in Waiters : Watches(u, v)'
<1>0. /\ UNCHANGED pc /\ DOMAIN spc = Signallers
      /\ \A u \in Waiters : Asleep(u)' => Asleep(u)
  <2>1. UNCHANGED pc
    BY DEF SignallerStep, Produce, Preview, CvSignal, CvBroadcast
  <2>2. CASE CvSignal(p) \/ CvBroadcast(p)
    BY <2>1, <2>2, QueueWoken, Typing
  <2>3. CASE ~(CvSignal(p) \/ CvBroadcast(p))
    BY <2>1, <2>3, Typing DEF SignallerStep, Produce, Preview, qvars, Asleep
  <2> QED
    BY <2>2, <2>3
<1>1. ASSUME NEW w \in CVs, Produce(p, w)
      PROVE  \/ \E q \in Signallers : spc'[q].cv = v
             \/ \E u \in Waiters : Watches(u, v)'
  <2>1. PICK all \in BOOLEAN : spc' = [spc EXCEPT ![p] = [at |-> "preview", cv |-> w, all |-> all]]
    BY <1>1 DEF Produce
  <2>2. spc'[p].cv = w /\ \A q \in Signallers \ {p} : spc'[q] = spc[q]
    BY <1>0, <2>1
  <2>3. CASE v = w
    BY <2>2, <2>3
  <2>4. CASE v # w
    <3>1. spc[p].cv # v /\ cond[v]
      BY <1>1, <2>4, Typing DEF Produce, IdleSignaller
    <3>2. \A q \in Signallers : spc[q].cv = v => spc'[q].cv = v
      BY <2>2, <3>1
    <3> QED
      BY <1>0, <3>1, <3>2, StillWatched
  <2> QED
    BY <2>3, <2>4
<1>2. CASE Preview(p) \/ CvSignal(p) \/ CvBroadcast(p)
  <2>0. cond[v] /\ \A q \in Signallers \ {p} : spc'[q] = spc[q]
    BY <1>0, <1>2 DEF Preview, CvSignal, CvBroadcast, SignalDone
  <2>1. CASE spc[p].cv # v \/ spc'[p].cv = v
    <3>1. \A q \in Signallers : spc[q].cv = v => spc'[q].cv = v
      BY <2>0, <2>1
    <3> QED
      BY <1>0, <2>0, <3>1, StillWatched
  <2>2. CASE spc[p].cv = v /\ spc'[p].cv # v
    <3>1. SleepersOn(v) # {}
      BY <1>0, SleepersAreAsleep
    <3>2. IsFiniteSet(SleepersOn(v)) /\ cv_waiters[v] = Cardinality(SleepersOn(v)) /\ cv_waiters[v] \in Nat
      BY SleepersFinite, Typing DEF Inv, CountOK
    <3>3. cv_waiters[v] > 0
      BY <3>1, <3>2, FS_EmptySet
    <3>4. CASE Preview(p)
      <4>1. spc' = [spc EXCEPT ![p].at = "wake"]
        BY <2>2, <3>3, <3>4 DEF Preview
      <4>2. spc'[p] = [spc[p] EXCEPT !.at = "wake"]
        BY <1>0, <4>1
      <4>3. spc[p] \in [at : {"out", "preview", "wake"}, cv : CVs \cup {None}, all : BOOLEAN]
        BY DEF Inv, LocalsOK
      <4>4. spc'[p].cv = spc[p].cv
        BY <4>2, <4>3
      <4> QED
        BY <2>2, <4>4
    <3>5. CASE CvSignal(p)
      <4>1. PICK u \in SleepersOn(v) : TakenOff({u})
        BY <2>2, <3>1, <3>5, SignalTakes
      <4>2. u \in Waiters /\ CvOf[u] = v /\ Asleep(u)
        BY SleepersAreAsleep
      <4>3. ~Asleep(u)'
        BY <4>1 DEF TakenOff, Asleep
      <4>4. pc'[u] \in InWait
        BY <1>0, <4>2 DEF Inv, QueueOK, InWait
      <4> QED
        BY <4>2, <4>3, <4>4 DEF Watches
    <3>6. CASE CvBroadcast(p)
      <4>1. TakenOff(SleepersOn(v))
        BY <2>2, <3>1, <3>6, BroadcastTakes
      <4>2. \A u : Asleep(u)' => Asleep(u) /\ u \notin SleepersOn(v)
        BY <4>1 DEF TakenOff, Asleep
      <4>3. SleepersOn(v)' = {}
        BY <4>2, SleepersAreAsleep
      <4> QED
        BY <4>3
    <3> QED
      BY <1>2, <3>4, <3>5, <3>6
  <2> QED
    BY <2>1, <2>2
<1> QED
  BY <1>1, <1>2 DEF SignallerStep

(* While nobody waits interruptibly, nobody sleeps on a condition that is  *)
(* true unless a signaller has yet to look at the queue or a thread that   *)
(* is off it has yet to test the condition.  (A wait that a signal breaks  *)
(* off may use up a cv_signal and leave the condition true.)               *)
THEOREM CondVarNoMissedWakeup ==
  ASSUME SigWaiters = {}
  PROVE  Spec => []NoMissedWakeup
<1>1. Init => NoMissedWakeup
  BY DEF Init, NoMissedWakeup
<1>2. Inv /\ Inv' /\ NoMissedWakeup /\ [Next]_vars => NoMissedWakeup'
  <2> SUFFICES ASSUME Inv, Inv', NoMissedWakeup, [Next]_vars, NEW v \in CVs, cond'[v], SleepersOn(v)' # {}
               PROVE  \/ \E p \in Signallers : spc'[p].cv = v
                      \/ \E u \in Waiters : Watches(u, v)'
    BY DEF NoMissedWakeup, Watches
  <2>1. ASSUME NEW t \in Waiters, PostSignal(t) PROVE FALSE
    BY <2>1 DEF PostSignal
  <2>2. ASSUME UNCHANGED <<pc, cond, spc>>, \A u \in Waiters : Asleep(u)' => Asleep(u)
        PROVE  \/ \E p \in Signallers : spc'[p].cv = v
               \/ \E u \in Waiters : Watches(u, v)'
    BY <2>2, StillWatched
  <2>3. CASE TimeStep
    <3>1. UNCHANGED <<pc, cond, spc>>
      BY <2>3 DEF TimeStep, Tick, CalloutStart, CalloutSetrun
    <3>2. ASSUME NEW t \in TimedWaiters, CalloutSetrun(t) PROVE \A u \in Waiters : Asleep(u)' => Asleep(u)
      <4>1. Setrun(t) /\ UNCHANGED t_epri /\ \A u \in Waiters : Asleep(u) => pc'[u] \in {"blocked", "look", "swtch"}
        BY <3>1, <3>2 DEF CalloutSetrun, Inv, QueueOK
      <4> QED
        BY <4>1, QueueSetrun, ThreadsAssumption
    <3>3. CASE Tick \/ \E t \in TimedWaiters : CalloutStart(t)
      BY <2>2, <3>1, <3>3 DEF Tick, CalloutStart, qvars, Asleep
    <3> QED
      BY <2>2, <2>3, <3>1, <3>2, <3>3 DEF TimeStep
  <2>4. CASE \E t \in Waiters : \E pri \in Pris \cup {0} : CvChangePri(t, pri)
    <3>1. UNCHANGED <<pc, cond, spc>>
      BY <2>4 DEF CvChangePri
    <3> QED
      BY <2>2, <2>4, <3>1, QueueChangePri
  <2>5. CASE Panic \/ UNCHANGED vars
    <3>1. UNCHANGED <<pc, cond, spc, sq>>
      BY <2>5 DEF Panic, vars, qvars
    <3>2. \A u \in Waiters : Asleep(u)' => Asleep(u)
      BY <3>1 DEF Asleep
    <3> QED
      BY <2>2, <3>1, <3>2
  <2> QED
    BY <2>1, <2>3, <2>4, <2>5, WaiterWatches, SignallerWatches DEF Next
<1> QED
  BY <1>1, <1>2, CondVarInv, PTL DEF Spec

(* cv_signal wakes a sleeper of its variable with the highest priority,    *)
(* whatever priorities were inherited while they slept.                    *)
THEOREM CondVarWakesHighest == Spec => SignalWakesHighest
<1> DEFINE Highest(p) ==
      spc[p].at = "wake" /\ ~spc[p].all /\ spc'[p].at = "out" =>
        \A t \in Sleepers(sq) \ Sleepers(sq') :
          t_wchan[t] = spc[p].cv /\ \A u \in SleepersOn(spc[p].cv) : Prio[u] <= Prio[t]
<1>1. ASSUME Inv, Next, NEW p \in Signallers PROVE Highest(p)
  <2> SUFFICES ASSUME spc[p].at = "wake", ~spc[p].all, spc'[p].at = "out",
                      NEW t \in Sleepers(sq) \ Sleepers(sq')
               PROVE  t_wchan[t] = spc[p].cv /\ \A u \in SleepersOn(spc[p].cv) : Prio[u] <= Prio[t]
    OBVIOUS
  <2>1. spc' # spc
    OBVIOUS
  <2>2. \A u \in Waiters : ~WaiterStep(u) /\ ~PostSignal(u)
    BY <2>1 DEF WaiterStep, PostSignal, Enter, Leave, Again, PanicReturn, TimedWait, RealtimeTimeout, SchedctlSkips,
       MutexEnter, Untimeout, NoSignal, IsSig, ForReal, MutexExit, SwtchReturns, CvBlock, Look
  <2>3. ~TimeStep /\ ~Panic /\ \A u \in Waiters : \A pri \in Pris \cup {0} : ~CvChangePri(u, pri)
    BY <2>1 DEF TimeStep, Tick, CalloutStart, CalloutSetrun, Panic, CvChangePri
  <2>4. PICK q \in Signallers : SignallerStep(q)
    BY <1>1, <2>2, <2>3 DEF Next
  <2>5. q = p
    <3>1. \A r \in Signallers \ {q} : spc'[r] = spc[r]
      BY <1>1, <2>4, Typing DEF SignallerStep, Produce, Preview, CvSignal, CvBroadcast, SignalDone
    <3> QED
      BY <3>1
  <2>6. CvSignal(p)
    BY <2>4, <2>5 DEF SignallerStep, Produce, Preview, CvBroadcast, IdleSignaller
  <2>7. OnQueue(sq, t) /\ ~OnQueue(sq', t)
    BY SleepersOnQueue
  <2>8. CASE UNCHANGED qvars
    BY <2>7, <2>8 DEF qvars
  <2>9. ASSUME NEW u \in SleepersOn(spc[p].cv), TakenOff({u}), \A w \in SleepersOn(spc[p].cv) : Prio[w] <= Prio[u]
        PROVE  t_wchan[t] = spc[p].cv /\ \A w \in SleepersOn(spc[p].cv) : Prio[w] <= Prio[t]
    <3>1. t = u
      BY <2>7, <2>9 DEF TakenOff
    <3> QED
      BY <1>1, <2>9, <3>1, SleepersFinite
  <2> QED
    BY <1>1, <2>6, <2>8, <2>9, SignalTakes
<1>2. Inv /\ [Next]_vars => [\A p \in Signallers : Highest(p)]_vars
  BY <1>1
<1> QED
  BY <1>2, CondVarInv, PTL DEF Spec, SignalWakesHighest
=======================================================================
