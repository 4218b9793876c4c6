----------------------------- MODULE Mutex -----------------------------
(***************************************************************************)
(* Adaptive mutexes, the turnstiles they sleep on and the priorities that  *)
(* are inherited through them: sparc/os/mutex.c, the fast paths of         *)
(* sparc/v9/ml/lock_prim.s, common/os/turnstile.c, tblock_sobj.c,          *)
(* prioinherit.c and pirec.c.                                              *)
(*                                                                         *)
(* mutex_exit() clears the owner and then loads m_waiters, with no lock;   *)
(* mutex_enter() sets m_waiters and then looks at the owner again.  The    *)
(* disp lock ts_wlock is part of the state, for it is held from step to    *)
(* step and is the thread lock of every thread asleep on the turnstile.    *)
(* m_wlock, the pool's lock and the thread lock of a thread that is not    *)
(* asleep are only ever held within a step.  A thread's list of pirecs is  *)
(* the set of turnstiles whose pi_benef it is.  Threads sleep for mutexes  *)
(* only, so the walk of pi_willto() ends at one that is not asleep.        *)
(***************************************************************************)
EXTENDS Integers, FiniteSets, Sequences, SleepQ

CONSTANTS
  Threads,
  Clock,        \* the thread that runs setrun() callouts
  Mutexes,      \* numbered in the order in which threads may block for them
  Turnstiles,
  Pri,          \* t_pri of each thread
  Panics,       \* a panic may happen
  None

ASSUME MutexAssumption ==
  /\ Mutexes \subseteq Nat /\ IsFiniteSet(Threads) /\ IsFiniteSet(Turnstiles)
  /\ Clock \notin Threads /\ None \notin Threads \cup {Clock} \cup Mutexes \cup Turnstiles
  /\ Pri \in [Threads -> Nat \ {0}] /\ Panics \in BOOLEAN

VARIABLES
  owner, m_waiters,       \* mutex -> its owner word, its turnstile
  ts_sobj, ts_sleepq,     \* turnstile -> its mutex, its sleep queue
  pi_benef, pi_epri_hi,   \* turnstile -> who inherits through it, and what
  ts_wlock,               \* turnstile -> who holds its disp lock
  tsp_list,               \* the free turnstiles
  t_ts, t_epri,           \* thread -> turnstile it sleeps on, inherited priority
  pc, lp,                 \* thread -> where it is, the mutex it is busy with
  owner_lock, ts,         \* locals of mutex_adaptive_enter and _release
  waiter, powner,         \* locals of pi_willto
  panicstr

mvars == <<owner, m_waiters>>
tsvars == <<ts_sobj, ts_sleepq, pi_benef, pi_epri_hi, tsp_list>>
tvars == <<t_ts, t_epri>>
locals == <<owner_lock, ts, waiter, powner>>
vars == <<mvars, tsvars, ts_wlock, tvars, pc, lp, locals, panicstr>>

Actors == Threads \cup {Clock}
Prio == DispPrio(Pri, t_epri)
Asleep(t) == t_ts[t] # None
Held(t) == {m \in Mutexes : owner[m] = t}
Goto(a, l) == pc' = [pc EXCEPT ![a] = l]
Max2(a, b) == IF a >= b THEN a ELSE b

EnterPCs == {"spin", "look", "alloc", "verify", "recheck", "pi", "pilock", "swtch", "try"}
(* Inside mutex_enter() for m; pi_willto() may be in tstile_free() then.   *)
Entering(t, m) == lp[t] = m /\ (pc[t] \in EnterPCs \/ (pc[t] = "free" /\ waiter[t] # None))
Destroying(m) == \E t \in Threads : lp[t] = m /\ pc[t] \in {"destroy", "dfree"}

(* thread_lock() of u succeeds: it is asleep on a turnstile that is not    *)
(* locked, or it is not asleep.                                            *)
ThreadLockFree(u) == Asleep(u) => ts_wlock[t_ts[u]] = None

Init ==
  /\ owner = [m \in Mutexes |-> None] /\ m_waiters = [m \in Mutexes |-> None]
  /\ ts_sobj = [s \in Turnstiles |-> None] /\ ts_sleepq = [s \in Turnstiles |-> << >>]
  /\ pi_benef = [s \in Turnstiles |-> None] /\ pi_epri_hi = [s \in Turnstiles |-> 0]
  /\ ts_wlock = [s \in Turnstiles |-> None] /\ tsp_list = Turnstiles
  /\ t_ts = [t \in Threads |-> None] /\ t_epri = [t \in Threads |-> 0]
  /\ pc = [a \in Actors |-> "run"] /\ lp = [t \in Threads |-> None]
  /\ owner_lock = [t \in Threads |-> None] /\ ts = [a \in Actors |-> None]
  /\ waiter = [a \in Actors |-> None] /\ powner = [t \in Threads |-> None]
  /\ panicstr = FALSE

-----------------------------------------------------------------------
(* mutex_enter(): the cas, and mutex_adaptive_enter() when it fails.       *)
(* Threads block for mutexes in their order; mutex_tryenter() needs none.  *)
MutexEnter(t, m) ==
  /\ pc[t] = "run" /\ (\A h \in Held(t) : h < m) /\ ~Destroying(m)
  /\ IF owner[m] = None
     THEN owner' = [owner EXCEPT ![m] = t] /\ UNCHANGED <<pc, lp>>
     ELSE Goto(t, "spin") /\ lp' = [lp EXCEPT ![t] = m] /\ UNCHANGED owner
  /\ UNCHANGED <<m_waiters, tsvars, ts_wlock, tvars, locals, panicstr>>
MutexTryenter(t, m) ==
  /\ pc[t] = "run" /\ owner[m] = None /\ ~Destroying(m)
  /\ owner' = [owner EXCEPT ![m] = t]
  /\ UNCHANGED <<m_waiters, tsvars, ts_wlock, tvars, pc, lp, locals, panicstr>>

(* The head of the loop.  A thread whose owner is on a CPU stays here.     *)
PanicReturn(t) ==
  /\ pc[t] = "spin" /\ panicstr
  /\ Goto(t, "run") /\ lp' = [lp EXCEPT ![t] = None]
  /\ UNCHANGED <<mvars, tsvars, ts_wlock, tvars, locals, panicstr>>
Spin(t) ==
  /\ pc[t] = "spin" /\ ~panicstr
  /\ owner_lock' = [owner_lock EXCEPT ![t] = owner[lp[t]]]
  /\ Goto(t, IF owner[lp[t]] = None THEN "try" ELSE "look")
  /\ UNCHANGED <<mvars, tsvars, ts_wlock, tvars, lp, ts, waiter, powner, panicstr>>

(* The owner is not running: look for the mutex's turnstile. *)
Look(t) ==
  /\ pc[t] = "look"
  /\ ts' = [ts EXCEPT ![t] = m_waiters[lp[t]]]
  /\ Goto(t, IF m_waiters[lp[t]] = None THEN "alloc" ELSE "verify")
  /\ UNCHANGED <<mvars, tsvars, ts_wlock, tvars, lp, owner_lock, waiter, powner, panicstr>>

LoopAgain(t) ==
  /\ Goto(t, "spin")
  /\ ts' = [ts EXCEPT ![t] = None] /\ owner_lock' = [owner_lock EXCEPT ![t] = None]

(* tstile_alloc() under m_wlock, with the turnstile's lock kept. *)
TstileAlloc(s) == s \in tsp_list /\ tsp_list' = tsp_list \ {s}
Alloc(t) ==
  /\ pc[t] = "alloc" /\ m_waiters[lp[t]] = None
  /\ \E s \in Turnstiles :
       /\ TstileAlloc(s)
       /\ ts_wlock[s] = None /\ ts_wlock' = [ts_wlock EXCEPT ![s] = t]
       /\ ts_sobj' = [ts_sobj EXCEPT ![s] = lp[t]]
       /\ m_waiters' = [m_waiters EXCEPT ![lp[t]] = s]
       /\ ts' = [ts EXCEPT ![t] = s]
  /\ Goto(t, "recheck")
  /\ UNCHANGED <<owner, ts_sleepq, pi_benef, pi_epri_hi, tvars, lp, owner_lock, waiter, powner, panicstr>>
AllocLost(t) ==
  /\ pc[t] = "alloc" /\ m_waiters[lp[t]] # None
  /\ LoopAgain(t)
  /\ UNCHANGED <<mvars, tsvars, ts_wlock, tvars, lp, waiter, powner, panicstr>>

(* The turnstile that was found may be another mutex's by now. *)
SameSobj_NoTest(t) == TRUE
SameSobj(t) == ts_sobj[ts[t]] = lp[t]
Verify(t) ==
  /\ pc[t] = "verify" /\ ts_wlock[ts[t]] = None
  /\ IF SameSobj(t)
     THEN /\ ts_wlock' = [ts_wlock EXCEPT ![ts[t]] = t]
          /\ Goto(t, "recheck") /\ UNCHANGED <<ts, owner_lock>>
     ELSE LoopAgain(t) /\ UNCHANGED ts_wlock
  /\ UNCHANGED <<mvars, tsvars, tvars, lp, waiter, powner, panicstr>>

(* t_block(), and mutex_unsleep() before it frees the turnstile. *)
TBlock(t, s) ==
  /\ ts_sleepq' = [ts_sleepq EXCEPT ![s] = SleepqInsert(@, t, Prio)]
  /\ t_ts' = [t_ts EXCEPT ![t] = s]
MutexUnsleep(t) ==
  /\ ts_sleepq' = [ts_sleepq EXCEPT ![t_ts[t]] = SleepqDequeue(@, t)]
  /\ t_ts' = [t_ts EXCEPT ![t] = None]

(* The owner word is compared again, now that m_waiters is set. *)
StillOwned_NoTest(t) == TRUE
StillOwned(t) == owner[lp[t]] = owner_lock[t]
Recheck(t) ==
  /\ pc[t] = "recheck"
  /\ \/ /\ StillOwned(t)
        /\ TBlock(t, ts[t])
        /\ Goto(t, "pi") /\ waiter' = [waiter EXCEPT ![t] = t]
        /\ ts' = [ts EXCEPT ![t] = None] /\ owner_lock' = [owner_lock EXCEPT ![t] = None]
        /\ UNCHANGED ts_wlock
     \/ /\ ~StillOwned(t)
        /\ LoopAgain(t) /\ ts_wlock' = [ts_wlock EXCEPT ![ts[t]] = None]
        /\ UNCHANGED <<ts_sleepq, t_ts, waiter>>
  /\ UNCHANGED <<mvars, ts_sobj, pi_benef, pi_epri_hi, tsp_list, t_epri, lp, powner, panicstr>>

(* swtch() returns once the thread is off the queue and set running. *)
Swtch(t) ==
  /\ pc[t] = "swtch" /\ ~Asleep(t)
  /\ \A a \in Actors : ~(pc[a] = "free" /\ waiter[a] = t)
  /\ Goto(t, "spin")
  /\ UNCHANGED <<mvars, tsvars, ts_wlock, tvars, lp, locals, panicstr>>

(* mutex_adaptive_tryenter() *)
Try(t) ==
  /\ pc[t] = "try"
  /\ IF owner[lp[t]] = None
     THEN /\ owner' = [owner EXCEPT ![lp[t]] = t]
          /\ Goto(t, "run") /\ lp' = [lp EXCEPT ![t] = None]
     ELSE Goto(t, "spin") /\ UNCHANGED <<owner, lp>>
  /\ UNCHANGED <<m_waiters, tsvars, ts_wlock, tvars, locals, panicstr>>

-----------------------------------------------------------------------
(* Priority inheritance. *)

(* pi_changepri() of a thread whose lock is held: requeued when asleep. *)
ChangePri(q, t, pri) ==
  LET e == [t_epri EXCEPT ![t] = pri]
  IN  /\ t_epri' = e
      /\ ts_sleepq' = IF Asleep(t)
                      THEN [q EXCEPT ![t_ts[t]] =
                              SleepqInsert(SleepqDequeue(@, t), t, DispPrio(Pri, e))]
                      ELSE q

(* pi_waive(): the beneficiary loses what it inherits through s, and keeps *)
(* the most of what it inherits otherwise.                                 *)
Others(s) == {r \in Turnstiles \ {s} : pi_benef[r] = pi_benef[s]}
CalcPri_Zero(s) == 0
CalcPri(s) ==
  IF Others(s) = {} THEN 0
  ELSE CHOOSE p \in {Pri[pi_benef[s]]} \cup {pi_epri_hi[r] : r \in Others(s)} :
         p >= Pri[pi_benef[s]] /\ \A r \in Others(s) : p >= pi_epri_hi[r]
PiWaive(q, s) ==
  /\ IF Others(s) = {} \/ CalcPri(s) # Prio[pi_benef[s]]
     THEN ChangePri(q, pi_benef[s], CalcPri(s))
     ELSE ts_sleepq' = q /\ UNCHANGED t_epri
  /\ pi_benef' = [pi_benef EXCEPT ![s] = None] /\ pi_epri_hi' = [pi_epri_hi EXCEPT ![s] = 0]
NoWaive(q) == ts_sleepq' = q /\ UNCHANGED <<t_epri, pi_benef, pi_epri_hi>>

(* The loop of pi_willto(), with waiter[t] locked: who owns the mutex that *)
(* it sleeps for?                                                          *)
WillStop(t) ==
  /\ Goto(t, "swtch") /\ waiter' = [waiter EXCEPT ![t] = None]
  /\ ts_wlock' = [ts_wlock EXCEPT ![t_ts[waiter[t]]] = None]
PiOwner(t) ==
  LET w == waiter[t]
      o == owner[lp[w]]
  IN
  /\ pc[t] = "pi"
  /\ \/ /\ o = None /\ w = t
        /\ WillStop(t) /\ UNCHANGED <<ts_sleepq, t_ts, ts, powner>>
     \/ /\ o = None /\ w # t
        /\ MutexUnsleep(w) /\ ts' = [ts EXCEPT ![t] = t_ts[w]]
        /\ Goto(t, "free") /\ UNCHANGED <<waiter, ts_wlock, powner>>
     \/ /\ o \notin {None, t} /\ Prio[w] <= Pri[o]
        /\ WillStop(t) /\ UNCHANGED <<ts_sleepq, t_ts, ts, powner>>
     \/ /\ o \notin {None, t} /\ Prio[w] > Pri[o]
        /\ Goto(t, "pilock") /\ powner' = [powner EXCEPT ![t] = o]
        /\ UNCHANGED <<ts_sleepq, t_ts, ts, waiter, ts_wlock>>
  /\ UNCHANGED <<mvars, ts_sobj, pi_benef, pi_epri_hi, tsp_list, t_epri, lp, owner_lock, panicstr>>

(* With the owner locked too: its pirec, its priority, and on to what it   *)
(* sleeps for itself.                                                      *)
PiInherit(t) ==
  LET w == waiter[t]
      o == powner[t]
      s == t_ts[w]
      p == Prio[w]
  IN
  /\ pc[t] = "pilock" /\ ThreadLockFree(o)
  /\ pi_benef' = IF pi_benef[s] = None THEN [pi_benef EXCEPT ![s] = o] ELSE pi_benef
  /\ pi_epri_hi' = [pi_epri_hi EXCEPT ![s] = IF pi_benef[s] = None THEN p ELSE Max2(@, p)]
  /\ IF p > Prio[o] THEN ChangePri(ts_sleepq, o, p) ELSE UNCHANGED <<ts_sleepq, t_epri>>
  /\ ts_wlock' = [r \in Turnstiles |-> IF r = s THEN None
                                       ELSE IF r = t_ts[o] THEN t ELSE ts_wlock[r]]
  /\ Goto(t, IF Asleep(o) THEN "pi" ELSE "swtch")
  /\ waiter' = [waiter EXCEPT ![t] = IF Asleep(o) THEN o ELSE None]
  /\ powner' = [powner EXCEPT ![t] = None]
  /\ UNCHANGED <<mvars, ts_sobj, tsp_list, t_ts, lp, owner_lock, ts, panicstr>>

-----------------------------------------------------------------------
(* mutex_exit(): the owner is cleared, then m_waiters is loaded. *)
MutexExit(t, m) ==
  /\ pc[t] = "run" /\ owner[m] = t
  /\ owner' = [owner EXCEPT ![m] = None]
  /\ Goto(t, "exit") /\ lp' = [lp EXCEPT ![t] = m]
  /\ UNCHANGED <<m_waiters, tsvars, ts_wlock, tvars, locals, panicstr>>
Done(t) ==
  /\ Goto(t, "run") /\ lp' = [lp EXCEPT ![t] = None] /\ ts' = [ts EXCEPT ![t] = None]
LoadWaiters(t) ==
  /\ pc[t] = "exit"
  /\ IF m_waiters[lp[t]] = None
     THEN Done(t)
     ELSE /\ ts' = [ts EXCEPT ![t] = m_waiters[lp[t]]]
          /\ Goto(t, "release") /\ UNCHANGED lp
  /\ UNCHANGED <<mvars, tsvars, ts_wlock, tvars, owner_lock, waiter, powner, panicstr>>

(* mutex_adaptive_release(): waive what the thread inherits through this   *)
(* mutex and wake the first.                                               *)
MustWaive(t, s) == pi_benef[s] = t
Woken(q) == IF q = << >> THEN {} ELSE {Head(q)}
Release(t) ==
  LET s == ts[t]
      w == Woken(ts_sleepq[s])
      q == [ts_sleepq EXCEPT ![s] = SleepqTakeOff(@, w)]
  IN
  /\ pc[t] = "release" /\ ts_wlock[s] = None
  /\ \/ /\ SameSobj(t)
        /\ ts_wlock' = [ts_wlock EXCEPT ![s] = t]
        /\ IF MustWaive(t, s) THEN PiWaive(q, s) ELSE NoWaive(q)
        /\ t_ts' = [u \in Threads |-> IF u \in w THEN None ELSE t_ts[u]]
        /\ Goto(t, "free") /\ UNCHANGED <<lp, ts>>
     \/ /\ ~SameSobj(t)
        /\ Done(t) /\ UNCHANGED <<ts_wlock, ts_sleepq, pi_benef, pi_epri_hi, tvars>>
  /\ UNCHANGED <<mvars, ts_sobj, tsp_list, owner_lock, waiter, powner, panicstr>>

(* tstile_free(), and the turnstile's lock dropped.  m_waiters is cleared  *)
(* before pi_waive() has the beneficiary's lock, in one step here: who     *)
(* looks in between finds no turnstile and takes another one, and this one *)
(* cannot be locked before it is on the free list.                         *)
IsEmpty(s) == ts_sleepq[s] = << >>
TstileFree(a) ==
  LET s == ts[a] IN
  /\ pc[a] \in {"free", "dfree"}
  /\ IF IsEmpty(s)
     THEN /\ m_waiters' = [m_waiters EXCEPT ![ts_sobj[s]] = None]
          /\ IF pi_benef[s] = None THEN NoWaive(ts_sleepq)
             ELSE ThreadLockFree(pi_benef[s]) /\ PiWaive(ts_sleepq, s)
          /\ ts_sobj' = [ts_sobj EXCEPT ![s] = None] /\ tsp_list' = tsp_list \cup {s}
     ELSE UNCHANGED <<m_waiters, tsvars, t_epri>>
  /\ ts_wlock' = [ts_wlock EXCEPT ![s] = None]
  /\ ts' = [ts EXCEPT ![a] = None] /\ waiter' = [waiter EXCEPT ![a] = None]
  /\ IF a \in Threads /\ waiter[a] # None
     THEN Goto(a, "swtch") /\ UNCHANGED lp
     ELSE Goto(a, "run") /\ lp' = [t \in Threads |-> IF t = a THEN None ELSE lp[t]]
  /\ UNCHANGED <<owner, t_ts, owner_lock, powner, panicstr>>

(* mutex_destroy() of a mutex that nobody else holds or wants, though some *)
(* may still be on their way out of mutex_exit().                          *)
MutexDestroy(t, m) ==
  /\ pc[t] = "run" /\ owner[m] \in {None, t} /\ ~Destroying(m)
  /\ \A u \in Threads : ~Entering(u, m)
  /\ owner' = [owner EXCEPT ![m] = None]
  /\ IF m_waiters[m] = None
     THEN UNCHANGED <<ts, lp, pc>>
     ELSE /\ ts' = [ts EXCEPT ![t] = m_waiters[m]] /\ lp' = [lp EXCEPT ![t] = m]
          /\ Goto(t, "destroy")
  /\ UNCHANGED <<m_waiters, tsvars, ts_wlock, tvars, owner_lock, waiter, powner, panicstr>>
DestroyLock(t) ==
  /\ pc[t] = "destroy" /\ ts_wlock[ts[t]] = None
  /\ IF SameSobj(t)
     THEN ts_wlock' = [ts_wlock EXCEPT ![ts[t]] = t] /\ Goto(t, "dfree") /\ UNCHANGED <<lp, ts>>
     ELSE Done(t) /\ UNCHANGED ts_wlock
  /\ UNCHANGED <<mvars, tsvars, tvars, owner_lock, waiter, powner, panicstr>>

(* setrun() of a thread that sleeps for a mutex, as the callout of a       *)
(* cv_timedwait_sig() does that has come to its mutex_enter().             *)
Setrun(t) ==
  /\ pc[Clock] = "run" /\ Asleep(t) /\ ThreadLockFree(t)
  /\ ts_wlock' = [ts_wlock EXCEPT ![t_ts[t]] = Clock]
  /\ MutexUnsleep(t) /\ ts' = [ts EXCEPT ![Clock] = t_ts[t]]
  /\ waiter' = [waiter EXCEPT ![Clock] = t] /\ Goto(Clock, "free")
  /\ UNCHANGED <<mvars, ts_sobj, pi_benef, pi_epri_hi, tsp_list, t_epri, lp, owner_lock, powner, panicstr>>

Panic ==
  /\ Panics /\ ~panicstr /\ panicstr' = TRUE
  /\ UNCHANGED <<mvars, tsvars, ts_wlock, tvars, pc, lp, locals>>

-----------------------------------------------------------------------
EnterStep(t) ==
  \/ PanicReturn(t) \/ Spin(t) \/ Look(t) \/ Alloc(t) \/ AllocLost(t) \/ Verify(t)
  \/ Recheck(t) \/ PiOwner(t) \/ PiInherit(t) \/ Swtch(t) \/ Try(t)
ExitStep(t) == LoadWaiters(t) \/ Release(t) \/ DestroyLock(t)
Call(t) ==
  \E m \in Mutexes :
    MutexEnter(t, m) \/ MutexTryenter(t, m) \/ MutexExit(t, m) \/ MutexDestroy(t, m)
Next ==
  \/ \E t \in Threads : Call(t) \/ EnterStep(t) \/ ExitStep(t) \/ Setrun(t)
  \/ \E a \in Actors : TstileFree(a)
  \/ Panic

Spec == Init /\ [][Next]_vars

-----------------------------------------------------------------------
(* The variables have their types, and a thread that has come to where the *)
(* code uses its turnstile pointer ts has one (mutex_adaptive_enter() tests *)
(* for zero what it loads from m_waiters).                                 *)
TypeOK ==
  /\ owner \in [Mutexes -> Threads \cup {None}]
  /\ m_waiters \in [Mutexes -> Turnstiles \cup {None}]
  /\ ts_sobj \in [Turnstiles -> Mutexes \cup {None}]
  /\ ts_sleepq \in [Turnstiles -> Seq(Threads)]
  /\ pi_benef \in [Turnstiles -> Threads \cup {None}] /\ pi_epri_hi \in [Turnstiles -> Nat]
  /\ ts_wlock \in [Turnstiles -> Actors \cup {None}] /\ tsp_list \subseteq Turnstiles
  /\ t_ts \in [Threads -> Turnstiles \cup {None}] /\ t_epri \in [Threads -> Nat]
  /\ pc \in [Actors -> EnterPCs \cup {"run", "exit", "release", "free", "destroy", "dfree"}]
  /\ lp \in [Threads -> Mutexes \cup {None}] /\ panicstr \in BOOLEAN
  /\ owner_lock \in [Threads -> Threads \cup {None}] /\ powner \in [Threads -> Threads \cup {None}]
  /\ ts \in [Actors -> Turnstiles \cup {None}] /\ waiter \in [Actors -> Threads \cup {None}]
  /\ \A a \in Actors :
       pc[a] \in {"verify", "recheck", "release", "free", "destroy", "dfree"} => ts[a] # None

(* Nobody sleeps for a mutex that is free, unless a thread on its way out  *)
(* of mutex_exit() will find the turnstile or a thread that is awake will  *)
(* try for the mutex.                                                      *)
NoLostWakeup ==
  ~panicstr => \A m \in Mutexes : owner[m] = None /\ (\E t \in Threads : Asleep(t) /\ lp[t] = m) =>
    \E u \in Threads : /\ ~Asleep(u)
                       /\ \/ Entering(u, m)
                          \/ lp[u] = m /\ pc[u] = "exit"
                          \/ lp[u] = m /\ pc[u] = "release" /\ ts[u] = m_waiters[m]

(* A turnstile belongs to one mutex at a time, a free one to none; threads *)
(* asleep on it sleep for that mutex: the ts_sobj_priv_data test that      *)
(* enter, release and destroy make after ts_wlock is taken is enough       *)
(* against an id of m_waiters that was loaded before.                      *)
TurnstileSound ==
  /\ \A m \in Mutexes : \A s \in Turnstiles : m_waiters[m] = s <=> ts_sobj[s] = m
  /\ \A s \in Turnstiles :
       /\ s \in tsp_list <=> ts_sobj[s] = None
       /\ s \in tsp_list => ts_sleepq[s] = << >> /\ pi_benef[s] = None
       /\ Distinct(ts_sleepq[s])
       /\ \A t \in Threads : OnQueue(ts_sleepq[s], t) <=> t_ts[t] = s
  /\ \A t \in Threads : Asleep(t) => ts_sobj[t_ts[t]] = lp[t]

(* What is inherited through a turnstile is inherited by the owner of its  *)
(* mutex, or by one that will waive it on its way out of mutex_exit(): no  *)
(* pirec is left with a thread that mutex_adaptive_release() has served.   *)
BeneficiarySound ==
  \A s \in Turnstiles : pi_benef[s] # None =>
    LET b == pi_benef[s] IN
    \/ owner[ts_sobj[s]] = b
    \/ /\ lp[b] = ts_sobj[s]
       /\ pc[b] = "exit" \/ (pc[b] \in {"release", "destroy", "dfree"} /\ ts[b] = s)

(* What the record of a turnstile grants to the owner of its mutex, the    *)
(* owner has: pi_waive() for one mutex leaves what is inherited through    *)
(* others, and pi_willto(), which raises a record whatever owner it finds  *)
(* in it, does not raise one over the head of a thread that owns the mutex *)
(* now.                                                                    *)
InheritedKept ==
  \A s \in Turnstiles :
    LET b == pi_benef[s] IN b # None /\ owner[ts_sobj[s]] = b => Prio[b] >= pi_epri_hi[s]

(* Mutexes, turnstiles and what is inherited through them agree at every   *)
(* step of mutex_enter(), mutex_exit(), pi_willto() and setrun(): TypeOK,  *)
(* TurnstileSound and BeneficiarySound.                                    *)
MutexSound == TypeOK /\ TurnstileSound /\ BeneficiarySound

=======================================================================
