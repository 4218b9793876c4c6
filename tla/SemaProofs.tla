-------------------------- MODULE SemaProofs --------------------------
(***************************************************************************)
(* Machine-checked proofs about Sema, for any number of threads, any       *)
(* priorities and any initial count.                                       *)
(***************************************************************************)
EXTENDS Sema, SleepQProofs

-----------------------------------------------------------------------
(* Dispatch priorities are numbers. *)
LEMMA PrioType ==
  ASSUME TypeOK
  PROVE  Prio \in [Threads -> Nat]
<1>1. \A t \in Threads : t_pri[t] \in Nat /\ t_epri[t] \in Nat
  <2>1. t_pri \in [Threads -> Pris] /\ t_epri \in [Threads -> Pris \cup {0}]
    BY DEF TypeOK
  <2>2. Pris \subseteq Nat /\ Pris \cup {0} \subseteq Nat
    BY PrisAssumption
  <2> QED
    BY <2>1, <2>2
<1>2. DOMAIN t_pri = Threads
  BY DEF TypeOK
<1> QED
  BY <1>1, <1>2 DEF Prio, DispPrio

(* They stay so when priority inheritance sets t_epri. *)
LEMMA PrioNext ==
  ASSUME TypeOK, t_epri' \in [Threads -> Pris \cup {0}]
  PROVE  DispPrio(t_pri, t_epri') \in [Threads -> Nat]
<1>1. \A t \in Threads : t_pri[t] \in Nat /\ t_epri'[t] \in Nat
  <2>1. t_pri \in [Threads -> Pris]
    BY DEF TypeOK
  <2>2. Pris \subseteq Nat /\ Pris \cup {0} \subseteq Nat
    BY PrisAssumption
  <2> QED
    BY <2>1, <2>2
<1>2. DOMAIN t_pri = Threads
  BY DEF TypeOK
<1> QED
  BY <1>1, <1>2 DEF DispPrio

(* SEMA_BLOCK on a thread that is not asleep yet. *)
LEMMA BlockAdds ==
  ASSUME TypeOK, QueueSound, NEW t \in Threads, ~Asleep(t), SemaBlock(t)
  PROVE  /\ s_slpq' \in Seq(Threads)
         /\ Len(s_slpq') = Len(s_slpq) + 1
         /\ Distinct(s_slpq')
         /\ \A x : OnQueue(s_slpq', x) <=> (OnQueue(s_slpq, x) \/ x = t)
<1>1. s_slpq \in Seq(Threads)
  BY DEF TypeOK
<1>2. Prio \in [Threads -> Nat]
  BY PrioType
<1>3. Distinct(s_slpq) /\ ~OnQueue(s_slpq, t)
  BY DEF QueueSound, Asleep
<1>4. s_slpq' = SleepqInsert(s_slpq, t, Prio)
  BY DEF SemaBlock
<1> HIDE DEF Prio
<1> QED
  BY <1>1, <1>2, <1>3, <1>4, InsertAdds

(* sema_unsleep takes the thread off the queue if it is there. *)
LEMMA UnsleepRemoves ==
  ASSUME TypeOK, QueueSound, NEW t \in Threads
  PROVE  LET r == SemaUnsleep(s_slpq, t)
         IN  /\ r \in Seq(Threads)
             /\ Distinct(r)
             /\ \A x : OnQueue(r, x) => OnQueue(s_slpq, x) /\ x # t
<1>1. s_slpq \in Seq(Threads) /\ Distinct(s_slpq)
  BY DEF TypeOK, QueueSound
<1>2. CASE OnQueue(s_slpq, t)
  BY <1>1, <1>2, DequeueRemoves DEF SemaUnsleep
<1>3. CASE ~OnQueue(s_slpq, t)
  <2>1. SemaUnsleep(s_slpq, t) = s_slpq
    BY <1>3 DEF SemaUnsleep, SleepqDequeue
  <2> QED
    BY <1>1, <1>3, <2>1
<1> QED
  BY <1>2, <1>3

(* sema_changepri moves the thread within the queue. *)
LEMMA ChangePriKeeps ==
  ASSUME TypeOK, QueueSound, NEW t \in Threads, Asleep(t), NEW prio \in [Threads -> Nat]
  PROVE  LET r == SemaChangePri(s_slpq, t, prio)
         IN  /\ r \in Seq(Threads)
             /\ Len(r) = Len(s_slpq)
             /\ Distinct(r)
             /\ \A x : OnQueue(r, x) <=> OnQueue(s_slpq, x)
<1>1. s_slpq \in Seq(Threads) /\ Distinct(s_slpq) /\ OnQueue(s_slpq, t)
  BY DEF TypeOK, QueueSound, Asleep
<1> DEFINE d == SleepqDequeue(s_slpq, t)
<1>2. /\ d \in Seq(Threads) /\ Len(d) = Len(s_slpq) - 1 /\ Distinct(d)
      /\ \A x : OnQueue(d, x) <=> (OnQueue(s_slpq, x) /\ x # t)
  BY <1>1, DequeueRemoves
<1> HIDE DEF d
<1>3. ~OnQueue(d, t)
  BY <1>2
<1>4. LET r == SleepqInsert(d, t, prio)
      IN  /\ r \in Seq(Threads) /\ Len(r) = Len(d) + 1 /\ Distinct(r)
          /\ \A x : OnQueue(r, x) <=> (OnQueue(d, x) \/ x = t)
  BY <1>2, <1>3, InsertAdds
<1>5. SemaChangePri(s_slpq, t, prio) = SleepqInsert(d, t, prio)
  BY DEF SemaChangePri, SemaQueue, SemaDequeue, d
<1>6. Len(s_slpq) \in Nat
  BY <1>1
<1> QED
  BY <1>1, <1>2, <1>4, <1>5, <1>6

-----------------------------------------------------------------------
(* The type invariant and the soundness of the queue are inductive         *)
(* together: removal from the queue is typed because nothing is on it      *)
(* twice.                                                                  *)
SoundInv == TypeOK /\ QueueSound

(* sema_init() leaves an empty queue and threads that run. *)
LEMMA SoundInit == Init => SoundInv
<1> SUFFICES ASSUME Init PROVE SoundInv
  OBVIOUS
<1>1. TypeOK
  BY PrisAssumption, CountAssumption DEF Init, TypeOK, PCs
<1>2. s_slpq = << >> /\ Len(s_slpq) = 0
  BY DEF Init
<1> QED
  BY <1>1, <1>2 DEF SoundInv, QueueSound, Distinct, Asleep, OnQueue

(* A step that leaves the queue alone and moves no sleeping thread. *)
LEMMA QueueSoundKept ==
  ASSUME QueueSound, s_slpq' = s_slpq, NEW t \in Threads, NEW l,
         pc \in [Threads -> PCs], pc' = [pc EXCEPT ![t] = l],
         ~Asleep(t) \/ l \in SleepPCs
  PROVE  QueueSound'
BY DEF QueueSound, Asleep

(* Every step of sema_p(), sema_p_sig(), sema_v() and their callers keeps  *)
(* the queue and the types sound.                                          *)
LEMMA SoundNext == SoundInv /\ [Next]_vars => SoundInv'
<1> SUFFICES ASSUME TypeOK, QueueSound, [Next]_vars PROVE TypeOK' /\ QueueSound'
  BY DEF SoundInv
<1>0. pc \in [Threads -> PCs]
  BY DEF TypeOK
<1>1. ASSUME NEW t \in Threads, SemaP(t) PROVE TypeOK' /\ QueueSound'
  <2>1. ~Asleep(t)
    BY <1>1 DEF SemaP, QueueSound, SleepPCs
  <2>2. CASE SemaBlock(t)
    BY <1>1, <2>1, <2>2, BlockAdds DEF SemaP, TypeOK, QueueSound, Asleep, PCs, SleepPCs
  <2>3. CASE UNCHANGED s_slpq
    <3>1. TypeOK'
      BY <1>1, <2>3 DEF SemaP, TypeOK, PCs
    <3>2. PICK l : pc' = [pc EXCEPT ![t] = l]
      BY <1>1 DEF SemaP
    <3> QED
      BY <1>0, <2>1, <2>3, <3>1, <3>2, QueueSoundKept
  <2> QED
    BY <1>1, <2>2, <2>3 DEF SemaP
<1>2. ASSUME NEW t \in Threads, SemaPDropUnsafe(t) PROVE TypeOK' /\ QueueSound'
  <2>1. TypeOK'
    BY <1>2 DEF SemaPDropUnsafe, ExitUnsafeDriver, TypeOK, PCs
  <2>2. s_slpq' = s_slpq /\ pc' = [pc EXCEPT ![t] = "p_sleep_unsafe"]
    BY <1>2 DEF SemaPDropUnsafe
  <2> QED
    BY <1>0, <2>1, <2>2, QueueSoundKept DEF SleepPCs
<1>3. ASSUME NEW t \in Threads, SemaPReturn(t) PROVE TypeOK' /\ QueueSound'
  <2>1. TypeOK'
    BY <1>3 DEF SemaPReturn, TypeOK, PCs
  <2>2. ~Asleep(t)
    BY <1>3 DEF SemaPReturn, QueueSound, SleepPCs
  <2>3. s_slpq' = s_slpq /\ \E l : pc' = [pc EXCEPT ![t] = l]
    BY <1>3 DEF SemaPReturn
  <2> QED
    BY <1>0, <2>1, <2>2, <2>3, QueueSoundKept
<1>4. ASSUME NEW t \in Threads, SemaPRetakeUnsafe(t) PROVE TypeOK' /\ QueueSound'
  <2>1. TypeOK'
    BY <1>4 DEF SemaPRetakeUnsafe, TypeOK, PCs
  <2>2. ~Asleep(t)
    BY <1>4 DEF SemaPRetakeUnsafe, QueueSound, SleepPCs
  <2>3. s_slpq' = s_slpq /\ \E l : pc' = [pc EXCEPT ![t] = l]
    BY <1>4 DEF SemaPRetakeUnsafe
  <2> QED
    BY <1>0, <2>1, <2>2, <2>3, QueueSoundKept
<1>5. ASSUME NEW t \in Threads, SemaPSig(t) PROVE TypeOK' /\ QueueSound'
  <2>1. ~Asleep(t)
    BY <1>5 DEF SemaPSig, QueueSound, SleepPCs
  <2>2. CASE SemaBlock(t) /\ pc' = [pc EXCEPT ![t] = "sig_look"]
    BY <1>5, <2>1, <2>2, BlockAdds DEF SemaPSig, TypeOK, QueueSound, Asleep, PCs, SleepPCs
  <2>3. CASE s_slpq' = s_slpq /\ pc' = [pc EXCEPT ![t] = "held"]
    <3>1. TypeOK'
      BY <1>5, <2>3 DEF SemaPSig, TypeOK, PCs
    <3> QED
      BY <1>0, <2>1, <2>3, <3>1, QueueSoundKept
  <2> QED
    BY <1>5, <2>2, <2>3 DEF SemaPSig, SigLoop
<1>6. ASSUME NEW t \in Threads, SemaPSigLook(t) PROVE TypeOK' /\ QueueSound'
  <2>1. CASE pending[t]
    BY <1>6, <2>1, UnsleepRemoves
       DEF SemaPSigLook, LookThenSetrun, TypeOK, QueueSound, Asleep, PCs, SleepPCs
  <2>2. CASE ~pending[t]
    <3>1. s_slpq' = s_slpq /\ pc' = [pc EXCEPT ![t] = "sig_sleep"]
      BY <1>6, <2>2 DEF SemaPSigLook, LookThenSetrun
    <3>2. TypeOK'
      BY <1>6, <3>1 DEF SemaPSigLook, TypeOK, PCs
    <3> QED
      BY <1>0, <3>1, <3>2, QueueSoundKept DEF SleepPCs
  <2> QED
    BY <2>1, <2>2
<1>7. ASSUME NEW t \in Threads, SemaPSigWake(t) PROVE TypeOK' /\ QueueSound'
  <2>1. TypeOK'
    BY <1>7 DEF SemaPSigWake, TypeOK, PCs
  <2>2. ~Asleep(t)
    BY <1>7 DEF SemaPSigWake, QueueSound, SleepPCs
  <2>3. s_slpq' = s_slpq /\ \E l : pc' = [pc EXCEPT ![t] = l]
    BY <1>7 DEF SemaPSigWake
  <2> QED
    BY <1>0, <2>1, <2>2, <2>3, QueueSoundKept
<1>8. ASSUME NEW t \in Threads, SemaPSigAbort(t) PROVE TypeOK' /\ QueueSound'
  <2>1. TypeOK'
    BY <1>8 DEF SemaPSigAbort, GiveBackClaim, TypeOK, PCs
  <2>2. ~Asleep(t)
    BY <1>8 DEF SemaPSigAbort, QueueSound, SleepPCs
  <2>3. s_slpq' = s_slpq /\ \E l : pc' = [pc EXCEPT ![t] = l]
    BY <1>8 DEF SemaPSigAbort
  <2> QED
    BY <1>0, <2>1, <2>2, <2>3, QueueSoundKept
<1>9. ASSUME NEW t \in Threads, SemaPSigRetry(t) PROVE TypeOK' /\ QueueSound'
  <2>1. ~Asleep(t)
    BY <1>9 DEF SemaPSigRetry, QueueSound, SleepPCs
  <2>2. CASE SemaBlock(t) /\ pc' = [pc EXCEPT ![t] = "sig_look"]
    BY <1>9, <2>1, <2>2, BlockAdds DEF SemaPSigRetry, TypeOK, QueueSound, Asleep, PCs, SleepPCs
  <2>3. CASE s_slpq' = s_slpq /\ pc' = [pc EXCEPT ![t] = "held"]
    <3>1. TypeOK'
      BY <1>9, <2>3 DEF SemaPSigRetry, TypeOK, PCs
    <3> QED
      BY <1>0, <2>1, <2>3, <3>1, QueueSoundKept
  <2> QED
    BY <1>9, <2>2, <2>3 DEF SemaPSigRetry, SigLoop
<1>10. ASSUME NEW t \in Threads, SemaTryP(t) PROVE TypeOK' /\ QueueSound'
  <2>1. TypeOK'
    BY <1>10 DEF SemaTryP, TryTake, TypeOK, PCs
  <2>2. ~Asleep(t)
    BY <1>10 DEF SemaTryP, QueueSound, SleepPCs
  <2>3. s_slpq' = s_slpq /\ \E l : pc' = [pc EXCEPT ![t] = l]
    BY <1>10 DEF SemaTryP
  <2> QED
    BY <1>0, <2>1, <2>2, <2>3, QueueSoundKept
<1>11. ASSUME NEW t \in Threads, SemaV(t) PROVE TypeOK' /\ QueueSound'
  <2>1. CASE s_slpq' = s_slpq
    <3>1. TypeOK'
      BY <1>11, <2>1 DEF SemaV, SemaVBody, TypeOK, PCs
    <3> QED
      BY <1>11, <2>1, <3>1 DEF SemaV, TypeOK, QueueSound, Asleep, SleepPCs
  <2>2. CASE s_slpq # << >> /\ s_slpq' = Tail(s_slpq)
    <3>1. /\ s_slpq' \in Seq(Threads) /\ Distinct(s_slpq')
          /\ \A x : OnQueue(s_slpq', x) => OnQueue(s_slpq, x)
      BY <2>2, TailRemoves DEF TypeOK, QueueSound
    <3>2. TypeOK'
      BY <1>11, <3>1 DEF SemaV, SemaVBody, TypeOK, PCs
    <3> QED
      BY <1>11, <3>1, <3>2 DEF SemaV, TypeOK, QueueSound, Asleep, SleepPCs
  <2> QED
    BY <1>11, <2>1, <2>2 DEF SemaV, SemaVBody
<1>12. ASSUME SemaVPost PROVE TypeOK' /\ QueueSound'
  <2>1. CASE s_slpq' = s_slpq
    <3>1. TypeOK'
      BY <1>12, <2>1, CountAssumption DEF SemaVPost, SemaVBody, TypeOK, PCs
    <3> QED
      BY <1>12, <2>1, <3>1 DEF SemaVPost, TypeOK, QueueSound, Asleep, SleepPCs
  <2>2. CASE s_slpq # << >> /\ s_slpq' = Tail(s_slpq)
    <3>1. /\ s_slpq' \in Seq(Threads) /\ Distinct(s_slpq')
          /\ \A x : OnQueue(s_slpq', x) => OnQueue(s_slpq, x)
      BY <2>2, TailRemoves DEF TypeOK, QueueSound
    <3>2. TypeOK'
      BY <1>12, <3>1, CountAssumption DEF SemaVPost, SemaVBody, TypeOK, PCs
    <3> QED
      BY <1>12, <3>1, <3>2 DEF SemaVPost, TypeOK, QueueSound, Asleep, SleepPCs
  <2> QED
    BY <1>12, <2>1, <2>2 DEF SemaVPost, SemaVBody
<1>13. ASSUME NEW t \in Threads, Consume(t) PROVE TypeOK' /\ QueueSound'
  <2>1. TypeOK'
    BY <1>13, CountAssumption DEF Consume, TypeOK, PCs
  <2>2. ~Asleep(t)
    BY <1>13 DEF Consume, QueueSound, SleepPCs
  <2>3. s_slpq' = s_slpq /\ \E l : pc' = [pc EXCEPT ![t] = l]
    BY <1>13 DEF Consume
  <2> QED
    BY <1>0, <2>1, <2>2, <2>3, QueueSoundKept
<1>14. ASSUME NEW t \in Threads, EnterUnsafe(t) PROVE TypeOK' /\ QueueSound'
  BY <1>14 DEF EnterUnsafe, TypeOK, QueueSound, Asleep
<1>15. ASSUME NEW t \in Threads, ExitUnsafe(t) PROVE TypeOK' /\ QueueSound'
  BY <1>15 DEF ExitUnsafe, TypeOK, QueueSound, Asleep
<1>16. ASSUME NEW t \in Threads, PostSignal(t) PROVE TypeOK' /\ QueueSound'
  <2>1. /\ s_slpq' \in Seq(Threads) /\ Distinct(s_slpq')
        /\ \A x : OnQueue(s_slpq', x) => OnQueue(s_slpq, x)
    BY <1>16, UnsleepRemoves DEF PostSignal, TypeOK, QueueSound
  <2> QED
    BY <1>16, <2>1 DEF PostSignal, TypeOK, QueueSound, Asleep
<1>17. ASSUME NEW t \in Threads, NEW p \in Pris \cup {0}, PiChangePri(t, p)
      PROVE  TypeOK' /\ QueueSound'
  <2>1. t_epri' \in [Threads -> Pris \cup {0}] /\ t_pri' = t_pri
    BY <1>17 DEF PiChangePri, SetEpri, TypeOK
  <2>2. DispPrio(t_pri, t_epri') \in [Threads -> Nat]
    BY <2>1, PrioNext
  <2>3. /\ s_slpq' \in Seq(Threads) /\ Distinct(s_slpq')
        /\ \A x : OnQueue(s_slpq', x) <=> OnQueue(s_slpq, x)
    <3>1. CASE Asleep(t)
      BY <1>17, <2>2, <3>1, ChangePriKeeps DEF PiChangePri
    <3>2. CASE ~Asleep(t)
      BY <1>17, <3>2 DEF PiChangePri, TypeOK, QueueSound
    <3> QED
      BY <3>1, <3>2
  <2> QED
    BY <1>17, <2>1, <2>3 DEF PiChangePri, TypeOK, QueueSound, Asleep
<1>18. ASSUME NEW t \in Threads, NEW p \in Pris, ClassChangePri(t, p)
      PROVE  TypeOK' /\ QueueSound'
  BY <1>18 DEF ClassChangePri, TypeOK, QueueSound, Asleep
<1>19. ASSUME Panic PROVE TypeOK' /\ QueueSound'
  BY <1>19 DEF Panic, TypeOK, QueueSound, Asleep
<1>20. ASSUME UNCHANGED vars PROVE TypeOK' /\ QueueSound'
  BY <1>20 DEF vars, TypeOK, QueueSound, Asleep
<1> QED
  BY <1>1, <1>2, <1>3, <1>4, <1>5, <1>6, <1>7, <1>8, <1>9, <1>10, <1>11, <1>12, <1>13, <1>14, <1>15, <1>16, <1>17, <1>18, <1>19, <1>20 DEF Next, ThreadStep

(* Every variable keeps its type and the sleep queue stays sound in every  *)
(* behaviour of semaphore.c, sema_p_sig and its signals included: no       *)
(* thread is queued twice, and none is queued while it runs elsewhere.     *)
THEOREM SemaSound == Spec => [](TypeOK /\ QueueSound)
<1>1. SoundInv => TypeOK /\ QueueSound
  BY DEF SoundInv
<1> QED
  BY <1>1, SoundInit, SoundNext, PTL DEF Spec

-----------------------------------------------------------------------
(* Nobody is inside sema_p_sig. *)
NoSig == \A t \in Threads : pc[t] \notin {"sig_look", "sig_sleep", "sig_retry", "sig_abort"}

(* The inductive invariant behind sema_v: its test s_count < 0 is exactly  *)
(* the test for a sleeper, when nobody calls sema_p_sig.                   *)
CountInv == CountMatchesQueue /\ NoSemaPanic /\ NoSig

(* When nobody calls sema_p_sig(), every step keeps s_count equal to the   *)
(* units left or to minus the sleepers.                                    *)
LEMMA CountNext ==
  ASSUME LwpThreads = {}, SoundInv, CountInv, [Next]_vars
  PROVE  CountInv'
<1> USE DEF SoundInv, CountInv
<1>0. s_count \in Int /\ s_slpq \in Seq(Threads) /\ Len(s_slpq) \in Nat /\ pc \in [Threads -> PCs]
  BY DEF TypeOK
<1>1. ASSUME NEW t \in Threads, SemaP(t) PROVE CountInv'
  <2>1. ~Asleep(t)
    BY <1>1 DEF SemaP, QueueSound, SleepPCs
  <2>2. NoSemaPanic' /\ NoSig'
    BY <1>0, <1>1 DEF SemaP, NoSemaPanic, NoSig
  <2>3. CASE Panicking
    BY <1>1, <2>2, <2>3 DEF SemaP, Panicking, CountMatchesQueue
  <2>4. CASE ~Panicking /\ Granted /\ UNCHANGED s_slpq
    BY <1>0, <1>1, <2>2, <2>4 DEF SemaP, Granted, Panicking, CountMatchesQueue
  <2>5. CASE ~Panicking /\ ~Granted /\ SemaBlock(t)
    <3>1. Len(s_slpq') = Len(s_slpq) + 1
      BY <2>1, <2>5, BlockAdds
    <3> QED
      BY <1>0, <1>1, <2>2, <2>5, <3>1 DEF SemaP, Granted, Panicking, CountMatchesQueue
  <2> QED
    BY <1>1, <2>3, <2>4, <2>5 DEF SemaP
<1>2. ASSUME NEW t \in Threads, SemaPDropUnsafe(t) PROVE CountInv'
  BY <1>0, <1>2 DEF SemaPDropUnsafe, CountMatchesQueue, Panicking, NoSemaPanic, NoSig
<1>3. ASSUME NEW t \in Threads, SemaPReturn(t) PROVE CountInv'
  BY <1>0, <1>3 DEF SemaPReturn, CountMatchesQueue, Panicking, NoSemaPanic, NoSig
<1>4. ASSUME NEW t \in Threads, SemaPRetakeUnsafe(t) PROVE CountInv'
  BY <1>0, <1>4 DEF SemaPRetakeUnsafe, CountMatchesQueue, Panicking, NoSemaPanic, NoSig
<1>5. ASSUME NEW t \in Threads, Consume(t) PROVE CountInv'
  BY <1>0, <1>5 DEF Consume, CountMatchesQueue, Panicking, NoSemaPanic, NoSig
<1>6. ASSUME NEW t \in Threads, EnterUnsafe(t) PROVE CountInv'
  BY <1>0, <1>6 DEF EnterUnsafe, CountMatchesQueue, Panicking, NoSemaPanic, NoSig
<1>7. ASSUME NEW t \in Threads, ExitUnsafe(t) PROVE CountInv'
  BY <1>0, <1>7 DEF ExitUnsafe, CountMatchesQueue, Panicking, NoSemaPanic, NoSig
<1>8. ASSUME NEW t \in Threads, SemaTryP(t) PROVE CountInv'
  BY <1>0, <1>8 DEF SemaTryP, TryGranted, TryTake, CountMatchesQueue, Panicking, NoSemaPanic, NoSig
<1>9. ASSUME SemaVBody
      PROVE  CountMatchesQueue' /\ NoSemaPanic'
  <2>1. CASE Panicking
    BY <1>9, <2>1 DEF SemaVBody, Panicking, CountMatchesQueue, NoSemaPanic
  <2>2. CASE ~Panicking /\ ~MustWake
    BY <1>0, <1>9, <2>2 DEF SemaVBody, Panicking, MustWake, CountMatchesQueue, NoSemaPanic
  <2>3. CASE ~Panicking /\ MustWake
    <3>1. Len(s_slpq) = -s_count /\ s_slpq # << >>
      BY <1>0, <2>3 DEF MustWake, CountMatchesQueue
    <3>2. s_slpq' = Tail(s_slpq) /\ s_count' = s_count + 1 /\ panicstr' = panicstr
      BY <1>9, <2>3, <3>1 DEF SemaVBody
    <3>3. Len(s_slpq') = Len(s_slpq) - 1
      BY <1>0, <3>1, <3>2
    <3> QED
      BY <1>0, <2>3, <3>1, <3>2, <3>3 DEF MustWake, CountMatchesQueue, NoSemaPanic
  <2> QED
    BY <2>1, <2>2, <2>3
<1>10. ASSUME NEW t \in Threads, SemaV(t) PROVE CountInv'
  BY <1>0, <1>9, <1>10 DEF SemaV, NoSig
<1>11. CASE SemaVPost
  BY <1>0, <1>9, <1>11 DEF SemaVPost, NoSig
<1>12. ASSUME NEW t \in Threads,
             SemaPSig(t) \/ SemaPSigLook(t) \/ SemaPSigWake(t) \/ SemaPSigAbort(t)
             \/ SemaPSigRetry(t) \/ PostSignal(t)
      PROVE  FALSE
  BY <1>12 DEF NoSig, SemaPSig, SemaPSigLook, SemaPSigWake, SemaPSigAbort, SemaPSigRetry, PostSignal
<1>13. ASSUME NEW t \in Threads, NEW p \in Pris \cup {0}, PiChangePri(t, p)
      PROVE  CountInv'
  <2>1. t_epri' \in [Threads -> Pris \cup {0}]
    BY <1>13 DEF PiChangePri, SetEpri, TypeOK
  <2>2. DispPrio(t_pri, t_epri') \in [Threads -> Nat]
    BY <2>1, PrioNext
  <2>3. Len(s_slpq') = Len(s_slpq)
    <3>1. CASE Asleep(t)
      BY <1>13, <2>2, <3>1, ChangePriKeeps DEF PiChangePri
    <3>2. CASE ~Asleep(t)
      BY <1>13, <3>2 DEF PiChangePri
    <3> QED
      BY <3>1, <3>2
  <2> QED
    BY <1>13, <2>3 DEF PiChangePri, CountMatchesQueue, Panicking, NoSemaPanic, NoSig
<1>14. ASSUME NEW t \in Threads, NEW p \in Pris, ClassChangePri(t, p)
      PROVE  CountInv'
  BY <1>14 DEF ClassChangePri, CountMatchesQueue, Panicking, NoSemaPanic, NoSig
<1>15. CASE Panic
  BY <1>15 DEF Panic, CountMatchesQueue, Panicking, NoSemaPanic, NoSig
<1>16. CASE UNCHANGED vars
  BY <1>16 DEF vars, CountMatchesQueue, Panicking, NoSemaPanic, NoSig
<1> QED
  BY <1>1, <1>2, <1>3, <1>4, <1>5, <1>6, <1>7, <1>8, <1>10, <1>11, <1>12, <1>13, <1>14, <1>15, <1>16 DEF Next, ThreadStep

(* While nobody calls sema_p_sig, a negative count is minus the number of  *)
(* sleepers, there are no sleepers otherwise, and so sema_v always finds   *)
(* the thread it must wake and never panics.                               *)
THEOREM SemaCount ==
  ASSUME LwpThreads = {}
  PROVE  Spec => [](CountMatchesQueue /\ NoSemaPanic)
<1>1. Init => CountInv
  BY CountAssumption DEF Init, CountInv, CountMatchesQueue, NoSemaPanic, NoSig, Panicking
<1>2. SoundInv /\ CountInv /\ [Next]_vars => SoundInv' /\ CountInv'
  BY SoundNext, CountNext
<1>3. CountInv => CountMatchesQueue /\ NoSemaPanic
  BY DEF CountInv
<1> QED
  BY <1>1, <1>2, <1>3, SoundInit, PTL DEF Spec

-----------------------------------------------------------------------
(* The threads whose call has decremented s_count and not given it back. *)
Claimants(f) == {t \in Threads : f[t] \notin {"idle", "panicked"}}
Claim(l) == IF l \in {"idle", "panicked"} THEN 0 ELSE 1

(* CountAccounts as one cardinality, with what pc says of a panic. *)
AccountInv ==
  /\ s_count = supply - Cardinality(Claimants(pc))
  /\ \A t \in Threads : pc[t] = "panicked" => panicstr = "sema_v"

(* A step of thread t changes the number of claims by its own. *)
LEMMA ClaimantsMove ==
  ASSUME NEW f \in [Threads -> PCs], NEW t \in Threads, NEW l \in PCs,
         NEW g, g = [f EXCEPT ![t] = l]
  PROVE  /\ Cardinality(Claimants(f)) \in Nat
         /\ Cardinality(Claimants(g)) = Cardinality(Claimants(f)) + Claim(l) - Claim(f[t])
<1>0. /\ IsFiniteSet(Claimants(f)) /\ Cardinality(Claimants(f)) \in Nat
      /\ \A x \in Threads : g[x] = IF x = t THEN l ELSE f[x]
  BY ThreadsAssumption, FS_Subset, FS_CardinalityType DEF Claimants
<1>1. CASE Claim(l) = Claim(f[t])
  <2>1. Claimants(g) = Claimants(f)
    BY <1>0, <1>1 DEF Claimants, Claim
  <2> QED
    BY <1>0, <1>1, <2>1 DEF Claim
<1>2. CASE Claim(l) = 1 /\ Claim(f[t]) = 0
  <2>1. t \notin Claimants(f) /\ \A y : y \in Claimants(g) <=> (y \in Claimants(f) \/ y = t)
    BY <1>0, <1>2 DEF Claimants, Claim
  <2>2. Cardinality(Claimants(g)) = Cardinality(Claimants(f)) + 1
    BY <1>0, <2>1, CardAdd
  <2> QED
    BY <1>0, <1>2, <2>2
<1>3. CASE Claim(l) = 0 /\ Claim(f[t]) = 1
  <2>1. t \in Claimants(f) /\ \A y : y \in Claimants(g) <=> (y \in Claimants(f) /\ y # t)
    BY <1>0, <1>3 DEF Claimants, Claim
  <2>2. Cardinality(Claimants(g)) = Cardinality(Claimants(f)) - 1
    BY <1>0, <2>1, CardRemove
  <2> QED
    BY <1>0, <1>3, <2>2
<1> QED
  BY <1>1, <1>2, <1>3 DEF Claim

(* The claims are those of the holders and those of the waiting calls. *)
LEMMA ClaimantsSplit ==
  ASSUME TypeOK
  PROVE  /\ IsFiniteSet(Claimants(pc))
         /\ Cardinality(Claimants(pc)) = Cardinality(Holders) + Cardinality(InSemaP)
<1>1. IsFiniteSet(Holders) /\ IsFiniteSet(InSemaP)
  BY ThreadsAssumption, FS_Subset DEF Holders, InSemaP
<1>2. Claimants(pc) = Holders \cup InSemaP /\ Holders \cap InSemaP = {}
  BY DEF Claimants, Holders, InSemaP
<1>3. Cardinality(Holders) \in Nat /\ Cardinality(InSemaP) \in Nat
  BY <1>1, FS_CardinalityType
<1>4. /\ IsFiniteSet(Holders \cup InSemaP)
      /\ Cardinality(Holders \cup InSemaP) = Cardinality(Holders) + Cardinality(InSemaP) - 0
  BY <1>1, <1>2, FS_Union, FS_EmptySet
<1> QED
  BY <1>2, <1>3, <1>4

(* Thread t moves to l and the count and the supply follow its claim. *)
ClaimStep(t, l) ==
  /\ l \in PCs /\ pc' = [pc EXCEPT ![t] = l]
  /\ l = "panicked" => panicstr' = "sema_v"
  /\ panicstr = "sema_v" => panicstr' = "sema_v"
  /\ s_count' \in Int /\ supply' \in Int
  /\ s_count' - s_count = supply' - supply + Claim(pc[t]) - Claim(l)

(* Every step changes s_count by what it takes from or puts into the       *)
(* accounts of units and claims.                                           *)
LEMMA AccountNext ==
  ASSUME TypeOK, QueueSound, AccountInv, [Next]_vars
  PROVE  AccountInv'
<1>0. /\ s_count \in Int /\ supply \in Int /\ pc \in [Threads -> PCs]
      /\ s_count = supply - Cardinality(Claimants(pc))
      /\ \A t \in Threads : pc[t] = "panicked" => panicstr = "sema_v"
  BY DEF TypeOK, AccountInv
<1>1. ASSUME NEW t \in Threads, NEW l, ClaimStep(t, l) PROVE AccountInv'
  <2>1. /\ Cardinality(Claimants(pc)) \in Nat
        /\ Cardinality(Claimants(pc')) = Cardinality(Claimants(pc)) + Claim(l) - Claim(pc[t])
    BY <1>0, <1>1, ClaimantsMove DEF ClaimStep
  <2>2. Claim(l) \in Int /\ Claim(pc[t]) \in Int
    BY DEF Claim
  <2>3. s_count' = supply' - Cardinality(Claimants(pc'))
    BY <1>0, <1>1, <2>1, <2>2 DEF ClaimStep
  <2>4. \A x \in Threads : pc'[x] = "panicked" => panicstr' = "sema_v"
    BY <1>0, <1>1 DEF ClaimStep
  <2> QED
    BY <2>3, <2>4 DEF AccountInv
<1>2. ASSUME UNCHANGED <<s_count, supply, pc>>, panicstr = "sema_v" => panicstr' = "sema_v"
      PROVE  AccountInv'
  BY <1>0, <1>2 DEF AccountInv
<1>3. ASSUME NEW t \in Threads, SemaP(t)
      PROVE  ClaimStep(t, "held") \/ ClaimStep(t, "p_drop") \/ ClaimStep(t, "p_sleep")
  BY <1>0, <1>3 DEF SemaP, ClaimStep, Claim, PCs
<1>4. ASSUME NEW t \in Threads, SemaPSig(t) PROVE ClaimStep(t, "held") \/ ClaimStep(t, "sig_look")
  BY <1>0, <1>4 DEF SemaPSig, SigLoop, ClaimStep, Claim, PCs
<1>5. ASSUME NEW t \in Threads, SemaPSigRetry(t) PROVE ClaimStep(t, "held") \/ ClaimStep(t, "sig_look")
  BY <1>0, <1>5 DEF SemaPSigRetry, SigLoop, ClaimStep, Claim, PCs
<1>6. ASSUME NEW t \in Threads, SemaPSigAbort(t) PROVE ClaimStep(t, "idle")
  BY <1>0, <1>6 DEF SemaPSigAbort, GiveBackClaim, ClaimStep, Claim, PCs
<1>7. ASSUME NEW t \in Threads, SemaTryP(t) PROVE ClaimStep(t, "held")
  BY <1>0, <1>7 DEF SemaTryP, TryTake, ClaimStep, Claim, PCs
<1>8. ASSUME NEW t \in Threads, Consume(t) PROVE ClaimStep(t, "idle")
  BY <1>0, <1>8 DEF Consume, ClaimStep, Claim, PCs
<1>9. ASSUME NEW t \in Threads, SemaPDropUnsafe(t) PROVE ClaimStep(t, "p_sleep_unsafe")
  BY <1>0, <1>9 DEF SemaPDropUnsafe, ClaimStep, Claim, PCs
<1>10. ASSUME NEW t \in Threads, SemaPReturn(t) PROVE ClaimStep(t, "held") \/ ClaimStep(t, "p_retake")
  <2>1. CASE pc[t] = "p_sleep"
    BY <1>0, <1>10, <2>1 DEF SemaPReturn, ClaimStep, Claim, PCs
  <2>2. CASE pc[t] = "p_sleep_unsafe"
    BY <1>0, <1>10, <2>2 DEF SemaPReturn, ClaimStep, Claim, PCs
  <2> QED
    BY <1>10, <2>1, <2>2 DEF SemaPReturn
<1>11. ASSUME NEW t \in Threads, SemaPRetakeUnsafe(t) PROVE ClaimStep(t, "held")
  BY <1>0, <1>11 DEF SemaPRetakeUnsafe, ClaimStep, Claim, PCs
<1>12. ASSUME NEW t \in Threads, SemaPSigLook(t) PROVE ClaimStep(t, "sig_sleep")
  BY <1>0, <1>12 DEF SemaPSigLook, ClaimStep, Claim, PCs
<1>13. ASSUME NEW t \in Threads, SemaPSigWake(t) PROVE ClaimStep(t, "sig_abort") \/ ClaimStep(t, "sig_retry")
  BY <1>0, <1>13 DEF SemaPSigWake, ClaimStep, Claim, PCs
<1>14. ASSUME NEW t \in Threads, SemaV(t) PROVE ClaimStep(t, "panicked") \/ ClaimStep(t, "idle")
  <2>1. CASE panicstr' = panicstr
    <3>1. pc' = [pc EXCEPT ![t] = "idle"] /\ s_count' = s_count + 1
      BY <1>14, <2>1 DEF SemaV, SemaVBody
    <3> QED
      BY <1>0, <1>14, <2>1, <3>1 DEF SemaV, ClaimStep, Claim, PCs
  <2>2. CASE panicstr' # panicstr
    <3>1. /\ pc' = [pc EXCEPT ![t] = "panicked"] /\ s_count' = s_count + 1
          /\ panicstr' = "sema_v"
      BY <1>14, <2>2 DEF SemaV, SemaVBody
    <3>2. pc[t] = "held" /\ supply' = supply
      BY <1>14 DEF SemaV
    <3>3. Claim(pc[t]) = 1 /\ Claim("panicked") = 0
      BY <3>2 DEF Claim
    <3> QED
      BY <1>0, <3>1, <3>2, <3>3 DEF ClaimStep, PCs
  <2> QED
    BY <2>1, <2>2
<1>15. CASE SemaVPost
  <2>1. /\ s_count' = s_count + 1 /\ (panicstr' = panicstr \/ panicstr' = "sema_v")
        /\ supply' = supply + 1 /\ pc' = pc
    BY <1>15 DEF SemaVPost, SemaVBody
  <2>2. Cardinality(Claimants(pc)) \in Nat
    BY ThreadsAssumption, FS_Subset, FS_CardinalityType DEF Claimants
  <2>3. s_count' = supply' - Cardinality(Claimants(pc'))
    BY <1>0, <2>1, <2>2
  <2> QED
    BY <1>0, <2>1, <2>3 DEF AccountInv
<1>16. ASSUME NEW t \in Threads, EnterUnsafe(t) \/ ExitUnsafe(t) \/ PostSignal(t) PROVE AccountInv'
  BY <1>2, <1>16 DEF EnterUnsafe, ExitUnsafe, PostSignal
<1>17. ASSUME NEW t \in Threads, NEW p, PiChangePri(t, p) \/ ClassChangePri(t, p) PROVE AccountInv'
  BY <1>2, <1>17 DEF PiChangePri, ClassChangePri
<1>18. CASE Panic
  BY <1>2, <1>18 DEF Panic, Panicking
<1>19. CASE UNCHANGED vars
  BY <1>2, <1>19 DEF vars
<1> QED
  BY <1>1, <1>3, <1>4, <1>5, <1>6, <1>7, <1>8, <1>9, <1>10, <1>11, <1>12, <1>13, <1>14, <1>15, <1>16, <1>17, <1>18, <1>19 DEF Next, ThreadStep

(* The accounts balance after sema_init(). *)
LEMMA AccountInit == Init => AccountInv
<1> SUFFICES ASSUME Init PROVE AccountInv
  OBVIOUS
<1>1. Claimants(pc) = {} /\ \A t \in Threads : pc[t] = "idle"
  BY DEF Init, Claimants
<1>2. s_count = InitCount /\ supply = InitCount /\ Cardinality(Claimants(pc)) = 0
  BY <1>1, FS_EmptySet DEF Init
<1> QED
  BY <1>1, <1>2, CountAssumption DEF AccountInv

(* In every behaviour of semaphore.c, signals and panics included, s_count *)
(* is the units supplied less one for each unit held and one for each call *)
(* still inside sema_p or sema_p_sig: the s_count++ of the signal exit     *)
(* gives back exactly the decrement at entry, and no claim is lost.        *)
THEOREM SemaAccounts == Spec => []CountAccounts
<1>1. SoundInv /\ AccountInv /\ [Next]_vars => SoundInv' /\ AccountInv'
  BY SoundNext, AccountNext DEF SoundInv
<1>2. SoundInv /\ AccountInv => CountAccounts
  <2> SUFFICES ASSUME TypeOK, AccountInv PROVE CountAccounts
    BY DEF SoundInv
  <2>1. Cardinality(Claimants(pc)) = Cardinality(Holders) + Cardinality(InSemaP)
    BY ClaimantsSplit
  <2>2. Cardinality(Holders) \in Nat /\ Cardinality(InSemaP) \in Nat
    BY ThreadsAssumption, FS_Subset, FS_CardinalityType DEF Holders, InSemaP
  <2> QED
    BY <2>1, <2>2 DEF AccountInv, CountAccounts, TypeOK
<1> QED
  BY <1>1, <1>2, SoundInit, AccountInit, PTL DEF Spec

-----------------------------------------------------------------------
(* A step that changes neither the queue nor the signals of a thread and   *)
(* puts none to sleep.                                                     *)
LEMMA NoLostSignalKept ==
  ASSUME NoLostSignal, pc \in [Threads -> PCs], NEW t \in Threads, NEW l,
         pc' = [pc EXCEPT ![t] = l], l # "sig_sleep",
         \A x \in Threads : x # t => (OnQueue(s_slpq', x) => OnQueue(s_slpq, x)),
         pending' = pending
  PROVE  NoLostSignal'
BY DEF NoLostSignal, Asleep

(* No step puts a thread with a signal pending to sleep for good in        *)
(* sema_p_sig().                                                           *)
LEMMA NoLostSignalNext ==
  ASSUME TypeOK, QueueSound, NoLostSignal, [Next]_vars
  PROVE  NoLostSignal'
<1>0. pc \in [Threads -> PCs] /\ pending \in [Threads -> BOOLEAN]
  BY DEF TypeOK
<1>1. ASSUME NEW t \in Threads, SemaP(t) PROVE NoLostSignal'
  <2>1. PICK l \in {"held", "p_drop", "p_sleep"} : pc' = [pc EXCEPT ![t] = l]
    BY <1>1 DEF SemaP
  <2>2. ~Asleep(t) /\ pending' = pending
    BY <1>1 DEF SemaP, QueueSound, SleepPCs
  <2>3. \A x : OnQueue(s_slpq', x) => OnQueue(s_slpq, x) \/ x = t
    <3>1. CASE SemaBlock(t)
      BY <2>2, <3>1, BlockAdds
    <3>2. CASE UNCHANGED s_slpq
      BY <3>2
    <3> QED
      BY <1>1, <3>1, <3>2 DEF SemaP
  <2> QED
    BY <1>0, <2>1, <2>2, <2>3, NoLostSignalKept
<1>2. ASSUME NEW t \in Threads, SemaPSig(t) \/ SemaPSigRetry(t) PROVE NoLostSignal'
  <2>1. ~Asleep(t) /\ pending' = pending
    BY <1>2 DEF SemaPSig, SemaPSigRetry, QueueSound, SleepPCs
  <2>2. CASE SemaBlock(t) /\ pc' = [pc EXCEPT ![t] = "sig_look"]
    <3>1. \A x : OnQueue(s_slpq', x) => OnQueue(s_slpq, x) \/ x = t
      BY <2>1, <2>2, BlockAdds
    <3> QED
      BY <1>0, <2>1, <2>2, <3>1, NoLostSignalKept
  <2>3. CASE s_slpq' = s_slpq /\ pc' = [pc EXCEPT ![t] = "held"]
    BY <1>0, <2>1, <2>3, NoLostSignalKept
  <2> QED
    BY <1>2, <2>2, <2>3 DEF SemaPSig, SemaPSigRetry, SigLoop
<1>3. ASSUME NEW t \in Threads, SemaPSigLook(t) PROVE NoLostSignal'
  <2>1. CASE pending[t]
    <3>1. \A x : OnQueue(s_slpq', x) => OnQueue(s_slpq, x) /\ x # t
      BY <1>3, <2>1, UnsleepRemoves DEF SemaPSigLook, LookThenSetrun
    <3> QED
      BY <1>0, <1>3, <3>1 DEF SemaPSigLook, NoLostSignal, Asleep
  <2>2. CASE ~pending[t]
    BY <1>0, <1>3, <2>2 DEF SemaPSigLook, LookThenSetrun, NoLostSignal, Asleep
  <2> QED
    BY <2>1, <2>2
<1>4. ASSUME NEW t \in Threads, PostSignal(t) PROVE NoLostSignal'
  <2>1. CASE pc[t] \in {"sig_look", "sig_sleep"}
    <3>1. \A x : OnQueue(s_slpq', x) => OnQueue(s_slpq, x) /\ x # t
      BY <1>4, <2>1, UnsleepRemoves DEF PostSignal
    <3> QED
      BY <1>0, <1>4, <3>1 DEF PostSignal, NoLostSignal, Asleep
  <2>2. CASE pc[t] \notin {"sig_look", "sig_sleep"}
    BY <1>0, <1>4, <2>2 DEF PostSignal, NoLostSignal, Asleep
  <2> QED
    BY <2>1, <2>2
<1>5. ASSUME NEW t \in Threads, SemaPSigWake(t) PROVE NoLostSignal'
  BY <1>0, <1>5 DEF SemaPSigWake, NoLostSignal, Asleep
<1>6. ASSUME NEW t \in Threads,
             SemaPDropUnsafe(t) \/ SemaPReturn(t) \/ SemaPRetakeUnsafe(t) \/ SemaPSigAbort(t)
             \/ SemaTryP(t) \/ Consume(t)
      PROVE  NoLostSignal'
  <2>1. PICK l \in PCs \ {"sig_sleep"} : pc' = [pc EXCEPT ![t] = l]
    BY <1>6 DEF SemaPDropUnsafe, SemaPReturn, SemaPRetakeUnsafe, SemaPSigAbort, SemaTryP, Consume, PCs
  <2>2. s_slpq' = s_slpq /\ pending' = pending
    BY <1>6 DEF SemaPDropUnsafe, SemaPReturn, SemaPRetakeUnsafe, SemaPSigAbort, SemaTryP, Consume
  <2> QED
    BY <1>0, <2>1, <2>2, NoLostSignalKept
<1>7. ASSUME SemaVBody PROVE \A x : OnQueue(s_slpq', x) => OnQueue(s_slpq, x)
  <2>1. CASE s_slpq # << >> /\ s_slpq' = Tail(s_slpq)
    BY <2>1, TailRemoves DEF TypeOK, QueueSound
  <2> QED
    BY <1>7, <2>1 DEF SemaVBody
<1>8. ASSUME NEW t \in Threads, SemaV(t) PROVE NoLostSignal'
  <2>1. PICK l \in {"panicked", "idle"} : pc' = [pc EXCEPT ![t] = l]
    BY <1>8 DEF SemaV
  <2>2. pending' = pending /\ \A x : OnQueue(s_slpq', x) => OnQueue(s_slpq, x)
    BY <1>7, <1>8 DEF SemaV
  <2> QED
    BY <1>0, <2>1, <2>2, NoLostSignalKept
<1>9. CASE SemaVPost
  BY <1>7, <1>9 DEF SemaVPost, NoLostSignal, Asleep
<1>10. ASSUME NEW t \in Threads, NEW p \in Pris \cup {0}, PiChangePri(t, p) PROVE NoLostSignal'
  <2>1. DispPrio(t_pri, t_epri') \in [Threads -> Nat]
    BY <1>10, PrioNext DEF PiChangePri, SetEpri, TypeOK
  <2>2. \A x : OnQueue(s_slpq', x) => OnQueue(s_slpq, x)
    BY <1>10, <2>1, ChangePriKeeps DEF PiChangePri
  <2> QED
    BY <1>10, <2>2 DEF PiChangePri, NoLostSignal, Asleep
<1>11. ASSUME NEW t \in Threads, EnterUnsafe(t) \/ ExitUnsafe(t) \/ (\E p \in Pris : ClassChangePri(t, p))
      PROVE  NoLostSignal'
  BY <1>11 DEF EnterUnsafe, ExitUnsafe, ClassChangePri, NoLostSignal, Asleep
<1>12. CASE Panic \/ UNCHANGED vars
  BY <1>12 DEF Panic, vars, NoLostSignal, Asleep
<1> QED
  BY <1>1, <1>2, <1>3, <1>4, <1>5, <1>6, <1>8, <1>9, <1>10, <1>11, <1>12 DEF Next, ThreadStep

(* A signal posted at any moment of sema_p_sig is seen: no thread stays    *)
(* asleep in swtch() with a signal pending, because ISSIG(JUSTLOOKING) is  *)
(* tested after SEMA_BLOCK_SIG has made the thread wakeable.               *)
THEOREM SemaSignals == Spec => []NoLostSignal
<1>1. Init => NoLostSignal
  BY DEF Init, NoLostSignal
<1>2. SoundInv /\ NoLostSignal /\ [Next]_vars => SoundInv' /\ NoLostSignal'
  BY SoundNext, NoLostSignalNext DEF SoundInv
<1> QED
  BY <1>1, <1>2, SoundInit, PTL DEF Spec

-----------------------------------------------------------------------
(* The queue stays in order when no class changes t_pri under it. *)
LEMMA OrderNext ==
  ASSUME PriocntlThreads = {}, TypeOK, QueueSound, QueueInPrioOrder, [Next]_vars
  PROVE  QueueInPrioOrder'
<1>0. s_slpq \in Seq(Threads) /\ Distinct(s_slpq) /\ InOrder(s_slpq, Prio) /\ Prio \in [Threads -> Nat]
  BY PrioType DEF TypeOK, QueueSound, QueueInPrioOrder
<1>1. ASSUME UNCHANGED <<t_pri, t_epri>> PROVE Prio' = Prio
  BY <1>1 DEF Prio
<1>2. ASSUME UNCHANGED <<t_pri, t_epri>>, InOrder(s_slpq', Prio) PROVE QueueInPrioOrder'
  BY <1>1, <1>2 DEF QueueInPrioOrder
<1>3. ASSUME NEW t \in Threads, SemaBlock(t), UNCHANGED <<t_pri, t_epri>> PROVE QueueInPrioOrder'
  <2>1. s_slpq' = SleepqInsert(s_slpq, t, Prio)
    BY <1>3 DEF SemaBlock
  <2> HIDE DEF Prio
  <2>2. InOrder(s_slpq', Prio)
    BY <1>0, <2>1, InsertKeepsOrder
  <2> QED
    BY <1>2, <1>3, <2>2
<1>4. ASSUME NEW t \in Threads, s_slpq' = SemaUnsleep(s_slpq, t), UNCHANGED <<t_pri, t_epri>>
      PROVE  QueueInPrioOrder'
  <2> HIDE DEF Prio
  <2>1. CASE OnQueue(s_slpq, t)
    BY <1>0, <1>2, <1>4, <2>1, DequeueKeepsOrder DEF SemaUnsleep
  <2>2. CASE ~OnQueue(s_slpq, t)
    BY <1>0, <1>2, <1>4, <2>2 DEF SemaUnsleep, SleepqDequeue
  <2> QED
    BY <2>1, <2>2
<1>5. ASSUME UNCHANGED <<s_slpq, t_pri, t_epri>> PROVE QueueInPrioOrder'
  BY <1>0, <1>2, <1>5
<1>6. ASSUME SemaVBody, UNCHANGED <<t_pri, t_epri>> PROVE QueueInPrioOrder'
  <2> HIDE DEF Prio
  <2>1. CASE s_slpq # << >> /\ s_slpq' = Tail(s_slpq)
    BY <1>0, <1>2, <1>6, <2>1, TailKeepsOrder
  <2> QED
    BY <1>5, <1>6, <2>1 DEF SemaVBody
<1>7. ASSUME NEW t \in Threads, NEW p \in Pris \cup {0}, PiChangePri(t, p) PROVE QueueInPrioOrder'
  <2> DEFINE prio == DispPrio(t_pri, t_epri')
  <2>1. prio \in [Threads -> Nat] /\ prio = Prio'
    BY <1>7, PrioNext DEF PiChangePri, SetEpri, TypeOK, Prio
  <2>2. \A x \in Threads : x # t => prio[x] = Prio[x]
    BY <1>7 DEF PiChangePri, SetEpri, TypeOK, Prio, DispPrio
  <2> HIDE DEF prio, Prio
  <2>3. \A x : OnQueue(s_slpq, x) => x \in Threads
    BY <1>0 DEF OnQueue
  <2>4. CASE Asleep(t)
    <3> DEFINE d == SleepqDequeue(s_slpq, t)
    <3>1. d \in Seq(Threads) /\ InOrder(d, Prio) /\ \A x : OnQueue(d, x) => OnQueue(s_slpq, x) /\ x # t
      BY <1>0, <2>4, DequeueRemoves, DequeueKeepsOrder DEF Asleep
    <3>2. s_slpq' = SleepqInsert(d, t, prio)
      BY <1>7, <2>4 DEF PiChangePri, SemaChangePri, SemaQueue, SemaDequeue, prio
    <3> HIDE DEF d
    <3>3. InOrder(d, prio)
      BY <2>2, <2>3, <3>1, OrderOfMembers
    <3>4. InOrder(s_slpq', prio)
      BY <2>1, <3>1, <3>2, <3>3, InsertKeepsOrder
    <3> QED
      BY <2>1, <3>4 DEF QueueInPrioOrder
  <2>5. CASE ~Asleep(t)
    <3>1. s_slpq' = s_slpq
      BY <1>7, <2>5 DEF PiChangePri
    <3>2. \A x : OnQueue(s_slpq, x) => prio[x] = Prio[x]
      BY <2>2, <2>3, <2>5 DEF Asleep
    <3>3. InOrder(s_slpq', prio)
      BY <1>0, <3>1, <3>2, OrderOfMembers
    <3> QED
      BY <2>1, <3>3 DEF QueueInPrioOrder
  <2> QED
    BY <2>4, <2>5
<1>8. ASSUME NEW t \in Threads, SemaP(t) PROVE QueueInPrioOrder'
  BY <1>3, <1>5, <1>8 DEF SemaP
<1>9. ASSUME NEW t \in Threads, SemaPSig(t) \/ SemaPSigRetry(t) PROVE QueueInPrioOrder'
  BY <1>3, <1>5, <1>9 DEF SemaPSig, SemaPSigRetry, SigLoop
<1>10. ASSUME NEW t \in Threads, SemaPSigLook(t) PROVE QueueInPrioOrder'
  BY <1>4, <1>5, <1>10 DEF SemaPSigLook, LookThenSetrun
<1>11. ASSUME NEW t \in Threads, PostSignal(t) PROVE QueueInPrioOrder'
  BY <1>4, <1>5, <1>11 DEF PostSignal
<1>12. ASSUME NEW t \in Threads, SemaV(t) PROVE QueueInPrioOrder'
  BY <1>6, <1>12 DEF SemaV
<1>13. CASE SemaVPost
  BY <1>6, <1>13 DEF SemaVPost
<1>14. ASSUME NEW t \in Threads,
              SemaPDropUnsafe(t) \/ SemaPReturn(t) \/ SemaPRetakeUnsafe(t) \/ SemaPSigWake(t)
              \/ SemaPSigAbort(t) \/ SemaTryP(t) \/ Consume(t) \/ EnterUnsafe(t) \/ ExitUnsafe(t)
       PROVE  QueueInPrioOrder'
  BY <1>5, <1>14 DEF SemaPDropUnsafe, SemaPReturn, SemaPRetakeUnsafe, SemaPSigWake, SemaPSigAbort,
                     SemaTryP, Consume, EnterUnsafe, ExitUnsafe
<1>15. CASE Panic \/ UNCHANGED vars
  BY <1>5, <1>15 DEF Panic, vars
<1>16. ASSUME NEW t \in Threads, NEW p \in Pris, ClassChangePri(t, p) PROVE FALSE
  BY <1>16 DEF ClassChangePri
<1> QED
  BY <1>7, <1>8, <1>9, <1>10, <1>11, <1>12, <1>13, <1>14, <1>15, <1>16 DEF Next, ThreadStep

(* As long as no scheduling class sets t_pri under a sleeping thread, the  *)
(* head of the queue, which sema_v wakes, is a thread of highest dispatch  *)
(* priority, whatever priority inheritance and signals do to the queue.    *)
THEOREM SemaOrder ==
  ASSUME PriocntlThreads = {}
  PROVE  Spec => []QueueInPrioOrder
<1>1. Init => QueueInPrioOrder
  BY DEF Init, QueueInPrioOrder, InOrder
<1>2. SoundInv /\ QueueInPrioOrder /\ [Next]_vars => SoundInv' /\ QueueInPrioOrder'
  BY SoundNext, OrderNext DEF SoundInv
<1> QED
  BY <1>1, <1>2, SoundInit, PTL DEF Spec

-----------------------------------------------------------------------
(* The rule for unsafe_driver around swtch() is inductive as it stands. *)
LEMMA UnsafeNext ==
  ASSUME TypeOK, UnsafeDroppedAsleep, [Next]_vars
  PROVE  UnsafeDroppedAsleep'
<1>0. /\ pc \in [Threads -> PCs] /\ unsafe_driver \in Threads \cup {NoThread}
      /\ NoThread \notin Threads /\ UnsafeThreads \subseteq Threads
  BY ThreadsAssumption DEF TypeOK
<1>1. ASSUME NEW t \in Threads, NEW l, pc' = [pc EXCEPT ![t] = l], l \notin {"p_sleep_unsafe", "p_sleep"},
             unsafe_driver' = unsafe_driver \/ unsafe_driver' = t
      PROVE  UnsafeDroppedAsleep'
  BY <1>0, <1>1 DEF UnsafeDroppedAsleep
<1>2. ASSUME pc' = pc, unsafe_driver' = unsafe_driver PROVE UnsafeDroppedAsleep'
  BY <1>2 DEF UnsafeDroppedAsleep
<1>3. ASSUME NEW t \in Threads, SemaP(t) PROVE UnsafeDroppedAsleep'
  BY <1>0, <1>3 DEF SemaP, MayCall, UnsafeDroppedAsleep
<1>4. ASSUME NEW t \in Threads, SemaPDropUnsafe(t) PROVE UnsafeDroppedAsleep'
  BY <1>0, <1>4 DEF SemaPDropUnsafe, ExitUnsafeDriver, UnsafeDroppedAsleep
<1>5. ASSUME NEW t \in Threads, SemaPReturn(t) PROVE UnsafeDroppedAsleep'
  BY <1>0, <1>5 DEF SemaPReturn, UnsafeDroppedAsleep
<1>6. ASSUME NEW t \in Threads, SemaPRetakeUnsafe(t) PROVE UnsafeDroppedAsleep'
  BY <1>0, <1>6 DEF SemaPRetakeUnsafe, UnsafeDroppedAsleep
<1>7. ASSUME NEW t \in Threads, SemaPSig(t) \/ SemaPSigRetry(t) PROVE UnsafeDroppedAsleep'
  BY <1>0, <1>7 DEF SemaPSig, SemaPSigRetry, SigLoop, UnsafeDroppedAsleep
<1>8. ASSUME NEW t \in Threads, SemaPSigLook(t) \/ SemaPSigAbort(t) PROVE UnsafeDroppedAsleep'
  BY <1>0, <1>8 DEF SemaPSigLook, SemaPSigAbort, UnsafeDroppedAsleep
<1>9. ASSUME NEW t \in Threads, SemaPSigWake(t) PROVE UnsafeDroppedAsleep'
  BY <1>0, <1>9 DEF SemaPSigWake, UnsafeDroppedAsleep
<1>10. ASSUME NEW t \in Threads, SemaTryP(t) \/ SemaV(t) \/ Consume(t) PROVE UnsafeDroppedAsleep'
  BY <1>0, <1>10 DEF SemaTryP, SemaV, Consume, UnsafeDroppedAsleep
<1>11. ASSUME NEW t \in Threads, EnterUnsafe(t) \/ ExitUnsafe(t) PROVE UnsafeDroppedAsleep'
  BY <1>0, <1>11 DEF EnterUnsafe, ExitUnsafe, UnsafeDroppedAsleep
<1>12. ASSUME NEW t \in Threads, NEW p, PostSignal(t) \/ PiChangePri(t, p) \/ ClassChangePri(t, p)
       PROVE  UnsafeDroppedAsleep'
  BY <1>2, <1>12 DEF PostSignal, PiChangePri, ClassChangePri
<1>13. CASE SemaVPost \/ Panic \/ UNCHANGED vars
  BY <1>2, <1>13 DEF SemaVPost, Panic, vars
<1> QED
  BY <1>3, <1>4, <1>5, <1>6, <1>7, <1>8, <1>9, <1>10, <1>11, <1>12, <1>13 DEF Next, ThreadStep

(* Units are conserved: the claims that are not asleep are those granted,  *)
(* and the sleepers are as many as s_count is below zero.                  *)
LEMMA UnitsFromCount ==
  ASSUME TypeOK, QueueSound, AccountInv, CountInv
  PROVE  UnitsConserved
<1> SUFFICES ASSUME ~Panicking PROVE UnitsConserved
  BY DEF UnitsConserved
<1> DEFINE S == Sleepers(s_slpq)
<1>1. s_slpq \in Seq(Threads) /\ Distinct(s_slpq) /\ s_count \in Int /\ supply \in Int
  BY DEF TypeOK, QueueSound
<1>2. \A t \in Threads : pc[t] # "panicked"
  BY DEF AccountInv, Panicking, CountInv, NoSemaPanic
<1>3. IsFiniteSet(Claimants(pc)) /\ Cardinality(Claimants(pc)) \in Nat
  BY ClaimantsSplit, FS_CardinalityType
<1>4. S \subseteq Threads /\ IsFiniteSet(S) /\ Cardinality(S) = Len(s_slpq)
  BY <1>1, SleepersCount
<1>5. \A x : x \in S <=> Asleep(x)
  BY SleepersOnQueue DEF Asleep
<1> HIDE DEF S
<1>6. GrantedSet = Claimants(pc) \ S /\ Claimants(pc) \cap S = S
  BY <1>2, <1>4, <1>5 DEF GrantedSet, Claimants, QueueSound, SleepPCs
<1>7. Cardinality(GrantedSet) = Cardinality(Claimants(pc)) - Len(s_slpq)
  <2>1. Cardinality(Claimants(pc) \ S) = Cardinality(Claimants(pc)) - Cardinality(Claimants(pc) \cap S)
    BY <1>3, FS_Difference
  <2> QED
    BY <1>4, <1>6, <2>1
<1>8. Len(s_slpq) = IF s_count < 0 THEN -s_count ELSE 0
  BY DEF CountInv, CountMatchesQueue
<1>9. s_count = supply - Cardinality(Claimants(pc))
  BY DEF AccountInv
<1>10. Avail + Cardinality(GrantedSet) = supply
  BY <1>1, <1>3, <1>7, <1>8, <1>9 DEF Avail
<1> QED
  BY <1>10 DEF UnitsConserved

(* Everything about the state of sema_p, sema_tryp and sema_v at once. *)
SemaInv ==
  /\ TypeOK /\ QueueSound /\ CountInv /\ AccountInv
  /\ QueueInPrioOrder /\ UnsafeDroppedAsleep

(* While nobody calls sema_p_sig and no class changes the priority of a    *)
(* sleeper, the state is sound: no unit is made or lost when sema_v hands  *)
(* one to a sleeper that has not run yet, the thread it takes is the right *)
(* one, and nobody switches away with unsafe_driver held.                  *)
THEOREM SemaStateSound ==
  ASSUME LwpThreads = {}, PriocntlThreads = {}
  PROVE  Spec => []StateSound
<1>1. Init => SemaInv
  <2> SUFFICES ASSUME Init PROVE SemaInv
    OBVIOUS
  <2>1. TypeOK /\ QueueSound /\ AccountInv
    BY SoundInit, AccountInit DEF SoundInv
  <2>2. CountInv
    BY CountAssumption DEF Init, CountInv, CountMatchesQueue, NoSemaPanic, NoSig, Panicking
  <2>3. QueueInPrioOrder /\ UnsafeDroppedAsleep
    BY ThreadsAssumption DEF Init, QueueInPrioOrder, InOrder, UnsafeDroppedAsleep
  <2> QED
    BY <2>1, <2>2, <2>3 DEF SemaInv
<1>2. SemaInv /\ [Next]_vars => SemaInv'
  <2> SUFFICES ASSUME SemaInv, [Next]_vars PROVE SemaInv'
    OBVIOUS
  <2>1. TypeOK' /\ QueueSound'
    BY SoundNext DEF SemaInv, SoundInv
  <2>2. CountInv' /\ AccountInv'
    BY CountNext, AccountNext DEF SemaInv, SoundInv
  <2>3. QueueInPrioOrder' /\ UnsafeDroppedAsleep'
    BY OrderNext, UnsafeNext DEF SemaInv
  <2> QED
    BY <2>1, <2>2, <2>3 DEF SemaInv
<1>3. SemaInv => StateSound
  BY UnitsFromCount DEF SemaInv, StateSound
<1> QED
  BY <1>1, <1>2, <1>3, PTL DEF Spec

-----------------------------------------------------------------------
(* The sets of the refinement mapping, by their members. *)
LEMMA MappedSets ==
  ASSUME TypeOK
  PROVE  /\ \A x : x \in Waiting <=> Asleep(x)
         /\ \A x : x \in GrantedSet <=> x \in Threads /\ pc[x] # "idle" /\ ~Asleep(x)
         /\ \A x : Asleep(x) => x \in Threads
<1>1. s_slpq \in Seq(Threads)
  BY DEF TypeOK
<1> QED
  BY <1>1, SleepersOnQueue DEF Waiting, GrantedSet, Asleep, OnQueue

(* Nobody waits while a unit is free; with nobody waiting no unit is owed. *)
LEMMA WaitingMeansNone ==
  ASSUME TypeOK, CountInv, ~Panicking
  PROVE  /\ Avail \in Nat
         /\ s_count < 0 <=> s_slpq # << >>
         /\ s_slpq = << >> <=> Waiting = {}
<1>1. s_count \in Int /\ s_slpq \in Seq(Threads) /\ Len(s_slpq) \in Nat
  BY DEF TypeOK
<1>2. Len(s_slpq) = IF s_count < 0 THEN -s_count ELSE 0
  BY DEF CountInv, CountMatchesQueue
<1>3. s_slpq = << >> <=> Len(s_slpq) = 0
  BY <1>1
<1>4. s_slpq = << >> <=> Waiting = {}
  <2>1. Len(s_slpq) # 0 => s_slpq[1] \in Waiting
    BY <1>1 DEF Waiting, Sleepers
  <2>2. Len(s_slpq) = 0 => Waiting = {}
    BY <1>1 DEF Waiting, Sleepers
  <2> QED
    BY <1>3, <2>1, <2>2
<1> QED
  BY <1>1, <1>2, <1>3, <1>4 DEF Avail

(* What the body of sema_v does to the mapped state when it is called by a *)
(* thread that gives a unit back (from) or by an interrupt (from empty).   *)
LEMMA SupplyStep ==
  ASSUME TypeOK, QueueSound, CountInv, TypeOK', QueueSound', ~Panicking, SemaVBody,
         NEW from \in SUBSET Threads,
         \A t \in from : pc[t] = "held" /\ pc'[t] = "idle",
         \A t \in Threads \ from : pc'[t] = pc[t]
  PROVE  AS!Supply(from)
<1>0. s_count \in Int /\ s_slpq \in Seq(Threads) /\ Distinct(s_slpq)
  BY DEF TypeOK, QueueSound
<1>1. /\ Avail \in Nat
      /\ s_count < 0 <=> s_slpq # << >>
      /\ s_slpq = << >> <=> Waiting = {}
  BY WaitingMeansNone
<1>2. /\ \A x : x \in Waiting <=> Asleep(x)
      /\ \A x : x \in GrantedSet <=> x \in Threads /\ pc[x] # "idle" /\ ~Asleep(x)
      /\ \A x : Asleep(x) => x \in Threads /\ pc[x] \in SleepPCs
  BY MappedSets DEF QueueSound
<1>3. /\ \A x : x \in Waiting' <=> Asleep(x)'
      /\ \A x : x \in GrantedSet' <=> x \in Threads /\ pc'[x] # "idle" /\ ~Asleep(x)'
      /\ \A x : Asleep(x)' => x \in Threads /\ pc'[x] \in SleepPCs
  <2>1. s_slpq' \in Seq(Threads)
    BY DEF TypeOK
  <2>2. \A x : x \in Waiting' <=> Asleep(x)'
    BY SleepersOnQueue DEF Waiting, Asleep
  <2>3. \A x : Asleep(x)' => x \in Threads
    BY <2>1 DEF Asleep, OnQueue
  <2> QED
    BY <2>2, <2>3 DEF GrantedSet, QueueSound
<1>4. \A x \in from : ~Asleep(x) /\ ~Asleep(x)'
  BY <1>2, <1>3 DEF SleepPCs
<1>5. CASE ~MustWake
  <2>1. s_count' = s_count + 1 /\ s_slpq' = s_slpq /\ panicstr' = panicstr
    BY <1>5, <1>1 DEF SemaVBody, MustWake, Panicking
  <2>2. Waiting = {} /\ Waiting' = Waiting
    BY <1>0, <1>1, <1>5, <2>1 DEF MustWake, Waiting
  <2>3. Avail' = Avail + 1
    BY <1>0, <1>5, <2>1 DEF MustWake, Avail
  <2>4. \A x : Asleep(x)' <=> Asleep(x)
    BY <2>1 DEF Asleep
  <2>5. GrantedSet' = GrantedSet \ from
    BY <1>2, <1>3, <1>4, <2>4
  <2>6. Panicking' = Panicking
    BY <2>1 DEF Panicking
  <2> QED
    BY <2>2, <2>3, <2>5, <2>6 DEF AS!Supply
<1>6. CASE MustWake
  <2>1. s_slpq # << >> /\ s_count' = s_count + 1 /\ s_slpq' = Tail(s_slpq) /\ panicstr' = panicstr
    BY <1>0, <1>1, <1>6 DEF SemaVBody, MustWake
  <2> DEFINE t == s_slpq[1]
  <2>2. \A x : Asleep(x)' <=> Asleep(x) /\ x # t
    BY <1>0, <2>1, TailRemoves DEF Asleep
  <2>3. Asleep(t)
    <3>1. 1 \in 1..Len(s_slpq)
      BY <1>0, <2>1
    <3> QED
      BY <3>1 DEF Asleep, OnQueue
  <2> HIDE DEF t
  <2>4. t \in Waiting /\ t \in Threads /\ pc[t] \in SleepPCs /\ t \notin from
    BY <1>2, <1>4, <2>3
  <2>5. pc'[t] # "idle"
    BY <2>4 DEF SleepPCs
  <2>6. Waiting' = Waiting \ {t}
    BY <1>2, <1>3, <2>2
  <2>7. GrantedSet' = (GrantedSet \ from) \cup {t}
    BY <1>2, <1>3, <1>4, <2>2, <2>4, <2>5
  <2>8. Avail' = Avail /\ Panicking' = Panicking
    BY <1>0, <1>6, <2>1 DEF MustWake, Avail, Panicking
  <2> QED
    BY <2>4, <2>6, <2>7, <2>8 DEF AS!Supply
<1> QED
  BY <1>5, <1>6

(* Every step of semaphore.c is a step of AbstractSema or leaves it alone. *)
LEMMA RefinementStep ==
  ASSUME LwpThreads = {}, TypeOK, QueueSound, CountInv, TypeOK', QueueSound', [Next]_vars
  PROVE  [AS!Next]_(AS!avars)
<1>0. /\ s_count \in Int /\ s_slpq \in Seq(Threads) /\ pc \in [Threads -> PCs]
      /\ panicstr \in {"none", "sema_v", "other"}
  BY DEF TypeOK
<1>1. /\ \A x : x \in Waiting <=> Asleep(x)
      /\ \A x : x \in GrantedSet <=> x \in Threads /\ pc[x] # "idle" /\ ~Asleep(x)
      /\ \A x : Asleep(x) => x \in Threads /\ pc[x] \in SleepPCs
  BY MappedSets DEF QueueSound
<1>2. /\ \A x : x \in Waiting' <=> Asleep(x)'
      /\ \A x : x \in GrantedSet' <=> x \in Threads /\ pc'[x] # "idle" /\ ~Asleep(x)'
      /\ \A x : Asleep(x)' => x \in Threads /\ pc'[x] \in SleepPCs
  <2>1. s_slpq' \in Seq(Threads)
    BY DEF TypeOK
  <2>2. \A x : x \in Waiting' <=> Asleep(x)'
    BY SleepersOnQueue DEF Waiting, Asleep
  <2>3. \A x : Asleep(x)' => x \in Threads
    BY <2>1 DEF Asleep, OnQueue
  <2> QED
    BY <2>2, <2>3 DEF GrantedSet, QueueSound
<1>3. CASE Panicking'
  BY <1>3 DEF AS!Next, AS!Crash
<1>4. ASSUME Panicking PROVE Panicking'
  BY <1>0, <1>4 DEF Panicking, Next, ThreadStep, vars, SemaP, SemaPDropUnsafe, SemaPReturn,
     SemaPRetakeUnsafe, SemaPSig, SemaPSigLook, SemaPSigWake, SemaPSigAbort, SemaPSigRetry, SemaTryP,
     SemaV, SemaVBody, Consume, EnterUnsafe, ExitUnsafe, PostSignal, PiChangePri, ClassChangePri,
     SemaVPost, Panic
<1> SUFFICES ASSUME ~Panicking, ~Panicking' PROVE [AS!Next]_(AS!avars)
  BY <1>3, <1>4
<1>5. /\ Avail \in Nat
      /\ s_count < 0 <=> s_slpq # << >>
      /\ s_slpq = << >> <=> Waiting = {}
  BY WaitingMeansNone
<1>6. Panicking' = Panicking
  BY DEF Panicking
(* A step that moves thread t from one granted place to another. *)
<1>7. ASSUME s_count' = s_count, s_slpq' = s_slpq,
             \A x \in Threads : ~Asleep(x) => (pc'[x] = "idle" <=> pc[x] = "idle")
      PROVE  UNCHANGED AS!avars
  <2>1. Avail' = Avail /\ Waiting' = Waiting
    BY <1>7 DEF Avail, Waiting
  <2>2. \A x : Asleep(x)' <=> Asleep(x)
    BY <1>7 DEF Asleep
  <2>3. GrantedSet' = GrantedSet
    BY <1>1, <1>2, <1>7, <2>2
  <2> QED
    BY <1>6, <2>1, <2>3 DEF AS!avars
<1>8. ASSUME NEW t \in Threads, pc[t] = "idle", s_count > 0, s_count' = s_count - 1,
             s_slpq' = s_slpq, pc' = [pc EXCEPT ![t] = "held"]
      PROVE  AS!Acquire(t)
  <2>1. Avail > 0 /\ Avail' = Avail - 1 /\ Waiting' = Waiting
    BY <1>0, <1>8 DEF Avail, Waiting
  <2>2. \A x : Asleep(x)' <=> Asleep(x)
    BY <1>8 DEF Asleep
  <2>3. ~Asleep(t) /\ t \notin Waiting \cup GrantedSet
    BY <1>1, <1>8 DEF SleepPCs
  <2>4. GrantedSet' = GrantedSet \cup {t}
    BY <1>0, <1>1, <1>2, <1>8, <2>2, <2>3
  <2> QED
    BY <1>6, <2>1, <2>3, <2>4 DEF AS!Acquire
<1>9. ASSUME NEW t \in Threads, SemaP(t) PROVE AS!Acquire(t) \/ AS!Wait(t)
  <2>1. CASE Granted
    BY <1>8, <1>9, <2>1 DEF SemaP, Granted
  <2>2. CASE ~Granted
    <3>1. pc[t] = "idle" /\ SemaBlock(t) /\ s_count' = s_count - 1 /\ ~(s_count > 0)
      BY <1>9, <2>2 DEF SemaP, Granted
    <3>2. PICK l \in {"p_drop", "p_sleep"} : pc' = [pc EXCEPT ![t] = l]
      BY <1>9, <2>2 DEF SemaP
    <3>3. ~Asleep(t) /\ t \notin Waiting \cup GrantedSet
      BY <1>1, <3>1 DEF SleepPCs
    <3>4. \A x : Asleep(x)' <=> Asleep(x) \/ x = t
      BY <3>1, <3>3, BlockAdds DEF Asleep
    <3>5. Waiting' = Waiting \cup {t}
      BY <1>1, <1>2, <3>4
    <3>6. GrantedSet' = GrantedSet
      BY <1>0, <1>1, <1>2, <3>2, <3>3, <3>4
    <3>7. Avail = 0 /\ Avail' = Avail
      BY <1>0, <3>1 DEF Avail
    <3> QED
      BY <1>6, <3>3, <3>5, <3>6, <3>7 DEF AS!Wait
  <2> QED
    BY <2>1, <2>2
<1>10. ASSUME NEW t \in Threads, SemaTryP(t) PROVE AS!Acquire(t)
  BY <1>8, <1>10 DEF SemaTryP, TryGranted, TryTake
<1>11. ASSUME NEW t \in Threads, SemaV(t) PROVE t \in GrantedSet /\ AS!Supply({t})
  <2>1. pc[t] = "held" /\ SemaVBody
    BY <1>11 DEF SemaV
  <2>2. t \in GrantedSet
    BY <1>1, <2>1 DEF SleepPCs
  <2>3. pc' = [pc EXCEPT ![t] = "idle"]
    BY <1>0, <1>11 DEF SemaV, SemaVBody, Panicking
  <2> QED
    BY <1>0, <2>1, <2>2, <2>3, SupplyStep
<1>12. ASSUME SemaVPost PROVE AS!Supply({})
  <2>1. SemaVBody /\ pc' = pc
    BY <1>12 DEF SemaVPost
  <2> QED
    BY <2>1, SupplyStep
<1>13. ASSUME NEW t \in Threads, Consume(t) PROVE AS!Consume(t)
  <2>1. /\ pc[t] = "held" /\ pc' = [pc EXCEPT ![t] = "idle"]
        /\ s_count' = s_count /\ s_slpq' = s_slpq
    BY <1>13 DEF Consume
  <2>2. Avail' = Avail /\ Waiting' = Waiting
    BY <2>1 DEF Avail, Waiting
  <2>3. \A x : Asleep(x)' <=> Asleep(x)
    BY <2>1 DEF Asleep
  <2>4. t \in GrantedSet /\ GrantedSet' = GrantedSet \ {t}
    BY <1>0, <1>1, <1>2, <2>1, <2>3 DEF SleepPCs
  <2> QED
    BY <1>6, <2>2, <2>4 DEF AS!Consume
<1>14. ASSUME NEW t \in Threads, SemaPDropUnsafe(t) \/ SemaPReturn(t) \/ SemaPRetakeUnsafe(t)
       PROVE  UNCHANGED AS!avars
  BY <1>0, <1>7, <1>14 DEF SemaPDropUnsafe, SemaPReturn, SemaPRetakeUnsafe
<1>15. ASSUME NEW t \in Threads, EnterUnsafe(t) \/ ExitUnsafe(t) \/ (\E p \in Pris : ClassChangePri(t, p))
       PROVE  UNCHANGED AS!avars
  BY <1>7, <1>15 DEF EnterUnsafe, ExitUnsafe, ClassChangePri
<1>16. ASSUME NEW t \in Threads, NEW p \in Pris \cup {0}, PiChangePri(t, p)
       PROVE  UNCHANGED AS!avars
  <2>1. DispPrio(t_pri, t_epri') \in [Threads -> Nat]
    BY <1>16, PrioNext DEF PiChangePri, SetEpri, TypeOK
  <2>2. \A x : Asleep(x)' <=> Asleep(x)
    BY <1>16, <2>1, ChangePriKeeps DEF PiChangePri, Asleep
  <2>3. s_count' = s_count /\ pc' = pc
    BY <1>16 DEF PiChangePri
  <2>4. Waiting' = Waiting /\ GrantedSet' = GrantedSet
    BY <1>1, <1>2, <2>2, <2>3
  <2>5. Avail' = Avail
    BY <2>3 DEF Avail
  <2> QED
    BY <1>6, <2>4, <2>5 DEF AS!avars
<1>17. ASSUME NEW t \in Threads,
              SemaPSig(t) \/ SemaPSigLook(t) \/ SemaPSigWake(t) \/ SemaPSigAbort(t)
              \/ SemaPSigRetry(t) \/ PostSignal(t)
       PROVE  FALSE
  BY <1>17 DEF CountInv, NoSig, SemaPSig, SemaPSigLook, SemaPSigWake, SemaPSigAbort, SemaPSigRetry, PostSignal
<1>18. CASE Panic
  BY <1>0, <1>18 DEF Panic, Panicking
<1>19. CASE UNCHANGED vars
  BY <1>7, <1>19 DEF vars
<1> QED
  BY <1>9, <1>10, <1>11, <1>12, <1>13, <1>14, <1>15, <1>16, <1>17, <1>18, <1>19 DEF Next, ThreadStep, AS!Next

(* semaphore.c implements the semaphore of AbstractSema for any number of  *)
(* threads while nobody calls sema_p_sig: a unit goes to exactly one       *)
(* caller, and nobody sleeps while a unit is free.                         *)
THEOREM SemaRefinement ==
  ASSUME LwpThreads = {}
  PROVE  Spec => ImplementsAbstractSema
<1>1. Init => AS!Init
  <2> SUFFICES ASSUME Init PROVE AS!Init
    OBVIOUS
  <2>1. Waiting = {} /\ \A x : ~Asleep(x)
    BY DEF Init, Waiting, Sleepers, Asleep, OnQueue
  <2>2. GrantedSet = {}
    BY DEF Init, GrantedSet
  <2>3. Avail = InitCount
    BY CountAssumption DEF Init, Avail
  <2>4. Panicking = FALSE
    BY DEF Init, Panicking
  <2> QED
    BY <2>1, <2>2, <2>3, <2>4 DEF AS!Init
<1>2. Init => CountInv
  BY CountAssumption DEF Init, CountInv, CountMatchesQueue, NoSemaPanic, NoSig, Panicking
<1>3. SoundInv /\ CountInv /\ [Next]_vars => SoundInv' /\ CountInv'
  BY SoundNext, CountNext
<1>4. SoundInv /\ SoundInv' /\ CountInv /\ [Next]_vars => [AS!Next]_(AS!avars)
  BY RefinementStep DEF SoundInv
<1> QED
  BY <1>1, <1>2, <1>3, <1>4, SoundInit, PTL DEF Spec, ImplementsAbstractSema, AS!Spec

=======================================================================
