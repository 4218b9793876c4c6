---------------------------- MODULE MCMutex ----------------------------
(* Small instances of Mutex for TLC. *)
EXTENDS Mutex, TLC
CONSTANTS t1, t2, t3, t4
OnePri   == [t \in Threads |-> 1]
ThreePris == [t \in Threads |-> IF t = t3 THEN 3 ELSE IF t = t2 THEN 2 ELSE 1]
FourThreads == [t \in Threads |-> IF t = t4 THEN 3 ELSE IF t = t3 THEN 2 ELSE 1]
TsSymmetry == Permutations(Turnstiles)

-----------------------------------------------------------------------
(* Liveness, on an instance the README gives. *)

(* Threads are scheduled, a disp lock is not kept from one that spins for  *)
(* it for ever, and what a mutex protects comes to its end.                *)
Fairness ==
  /\ \A t \in Threads : /\ SF_vars(EnterStep(t)) /\ SF_vars(ExitStep(t))
                         /\ WF_vars(\E m \in Mutexes : MutexExit(t, m))
  /\ \A a \in Actors : SF_vars(TstileFree(a))
FairSpec == Spec /\ Fairness

(* Nobody sleeps for ever among threads of one priority, though the thread *)
(* woken may find that another has the mutex and go to sleep again.        *)
SleeperIsWoken == \A t \in Threads : Asleep(t) ~> ~Asleep(t)

-----------------------------------------------------------------------
(* Not so in the code: see the README. *)

(* A thread that holds nothing inherits nothing: pi_waive() is to cancel   *)
(* what was obtained through a mutex when that is released.                *)
NoLeak == \A t \in Threads : pc[t] = "run" /\ Held(t) = {} => t_epri[t] = 0

(* No inversion: when nobody is on the way into or out of a mutex, its     *)
(* owner runs at no less than the priority of every thread asleep for it.  *)
(* pi_inheritfrom() lets a thread inherit from those it finds asleep, and  *)
(* mutex_enter() does not call it.                                         *)
Settled(m) ==
  \A u \in Threads : lp[u] = m => pc[u] = "swtch" /\ Asleep(u)
OwnerOutranks ==
  ~panicstr /\ (\A a \in Actors : pc[a] \notin {"pi", "pilock", "free"}) =>
    \A m \in Mutexes : owner[m] # None /\ Settled(m) =>
      \A t \in Threads : Asleep(t) /\ lp[t] = m => Prio[owner[m]] >= Prio[t]

(* A state constraint that leads there: t2 hands mutex 2 to t1, which has  *)
(* mutex 1, while t4 wants mutex 1 and t3 mutex 2.                         *)
Handover ==
  /\ owner[1] \in {None, t1} /\ owner[2] \in {None, t1, t2}
  /\ lp[t2] \in {None, 2} /\ lp[t3] \in {None, 2} /\ lp[t4] \in {None, 1}
  /\ pc[Clock] = "run"

(* ASSERT(pool->tsp_list != NULL) in tstile_alloc(): tstile_more() keeps   *)
(* the pool two larger than the number of threads.                         *)
PoolNotEmpty ==
  \A t \in Threads : pc[t] = "alloc" /\ m_waiters[lp[t]] = None => tsp_list # {}
=======================================================================
