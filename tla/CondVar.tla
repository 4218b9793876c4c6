---------------------------- MODULE CondVar ----------------------------
(***************************************************************************)
(* Condition variables: uts/common/os/condvar.c.                           *)
(*                                                                         *)
(* Several condition variables share one hashed sleep queue.  A waiter     *)
(* uses cv_wait, cv_timedwait, cv_wait_sig or cv_timedwait_sig as a        *)
(* monitor does: it holds the mutex mp, tests its condition, waits, and    *)
(* tests again.  A signaller makes a condition true under mp and calls     *)
(* cv_signal or cv_broadcast, with mp or after it dropped mp.  Timeouts    *)
(* are setrun() callouts with the promises of AbstractTimeout.             *)
(*                                                                         *)
(* What is done under the sleep queue's lock (which is also the lock of    *)
(* every thread asleep on it) is one step.                                 *)
(***************************************************************************)
EXTENDS Integers, Sequences, FiniteSets, SleepQ

CONSTANTS
  Waiters,       \* the threads that wait
  TimedWaiters,  \* those that use cv_timedwait or cv_timedwait_sig
  SigWaiters,    \* those that use cv_wait_sig or cv_timedwait_sig
  Signallers,    \* the threads that make conditions true
  CVs,           \* condition variables that hash to the same sleep queue
  CvOf,          \* waiter -> the one it waits on
  Delays,        \* how far ahead of lbolt the absolute times asked for are
  MaxTime,       \* bound: the clock stops here
  PiThreads,     \* waiters that inherit priority
  Pris, InitPri, \* priorities, and each waiter's own
  Panics,        \* a panic may happen
  None           \* no owner, no channel

ASSUME ThreadsAssumption ==
  /\ IsFiniteSet(Waiters) /\ None \notin Waiters \cup Signallers \cup CVs
  /\ Waiters \cap Signallers = {}
  /\ TimedWaiters \subseteq Waiters /\ SigWaiters \subseteq Waiters
  /\ PiThreads \subseteq Waiters /\ CvOf \in [Waiters -> CVs]
ASSUME NumbersAssumption ==
  /\ Delays \subseteq Int /\ MaxTime \in Nat /\ Panics \in BOOLEAN
  /\ Pris \subseteq Nat \ {0} /\ InitPri \in [Waiters -> Pris]

VARIABLES
  lbolt,
  sq,            \* the sleep queue all of CVs hash to
  t_wchan,       \* thread -> the condition variable it sleeps on
  cv_waiters,    \* condition variable -> its count of sleepers
  mp,            \* owner of the mutex
  cond,          \* condition variable -> its condition
  pc, rv,        \* thread -> where it is; what its wait returned
  tmo, tim,      \* timed waiter -> its callout, the time it asked for
  timeleft,      \* timed waiter -> its local timeleft
  c_runtime,     \* timed waiter -> when the callout is to run
  pending,       \* waiter -> a signal waits for it
  t_epri,        \* waiter -> its inherited priority
  spc,           \* signaller -> where it is
  panicstr

tovars == <<tmo, tim, timeleft, c_runtime>>
qvars == <<sq, t_wchan, cv_waiters>>
vars == <<lbolt, qvars, mp, cond, pc, rv, tovars, pending, t_epri, spc, panicstr>>

T == INSTANCE AbstractTimeout WITH Clients <- TimedWaiters

Prio == DispPrio(InitPri, t_epri)
Asleep(t) == OnQueue(sq, t)                   \* t_state == TS_SLEEP
SleepersOn(cv) == {t \in Sleepers(sq) : t_wchan[t] = cv}
IdleSignaller == [at |-> "out", cv |-> None, all |-> FALSE]

-----------------------------------------------------------------------
Init ==
  /\ lbolt = 0 /\ sq = << >> /\ mp = None /\ panicstr = FALSE
  /\ t_wchan = [t \in Waiters |-> None]
  /\ cv_waiters = [v \in CVs |-> 0] /\ cond = [v \in CVs |-> FALSE]
  /\ pc = [t \in Waiters |-> "out"] /\ rv = [t \in Waiters |-> 1]
  /\ T!Init
  /\ tim = [t \in TimedWaiters |-> 0] /\ c_runtime = [t \in TimedWaiters |-> 0]
  /\ timeleft = [t \in TimedWaiters |-> 0]
  /\ pending = [t \in Waiters |-> FALSE] /\ t_epri = [t \in Waiters |-> 0]
  /\ spc = [p \in Signallers |-> IdleSignaller]

(* A wait is over: its times are of no further use. *)
ForgetTimes(t) ==
  /\ tim' = [u \in TimedWaiters |-> IF u = t THEN 0 ELSE tim[u]]
  /\ c_runtime' = [u \in TimedWaiters |-> IF u = t THEN 0 ELSE c_runtime[u]]
  /\ timeleft' = [u \in TimedWaiters |-> IF u = t THEN 0 ELSE timeleft[u]]
  /\ UNCHANGED tmo

(* The waiter's monitor: enter, and leave with the condition used up. *)
Enter(t) ==
  /\ pc[t] = "out" /\ mp = None
  /\ mp' = t /\ pc' = [pc EXCEPT ![t] = "test"]
  /\ UNCHANGED <<lbolt, qvars, cond, rv, tovars, pending, t_epri, spc, panicstr>>
Leave(t) ==
  /\ \/ pc[t] \in {"test", "ret"} /\ cond[CvOf[t]]   \* also after a timeout
        /\ (pc[t] = "ret" => rv[t] # 0)
        /\ cond' = [cond EXCEPT ![CvOf[t]] = FALSE]
     \/ /\ pc[t] = "ret" /\ (rv[t] = 0 \/ (rv[t] = -1 /\ ~cond[CvOf[t]]))
        /\ UNCHANGED cond
  /\ mp' = None /\ pc' = [pc EXCEPT ![t] = "out"] /\ rv' = [rv EXCEPT ![t] = 1]
  /\ ForgetTimes(t)
  /\ UNCHANGED <<lbolt, qvars, pending, t_epri, spc, panicstr>>
Again(t) ==
  /\ pc[t] = "ret" /\ rv[t] > 0 /\ ~cond[CvOf[t]]
  /\ pc' = [pc EXCEPT ![t] = "test"] /\ rv' = [rv EXCEPT ![t] = 1]
  /\ ForgetTimes(t)
  /\ UNCHANGED <<lbolt, qvars, mp, cond, pending, t_epri, spc, panicstr>>

(* The condition is false and the waiter calls its kind of cv_wait. *)
MustWait(t) == pc[t] = "test" /\ ~cond[CvOf[t]]

(* if (panicstr) return: with no wait. *)
PanicReturn(t) ==
  /\ MustWait(t) /\ panicstr
  /\ rv' = [rv EXCEPT ![t] = IF t \in TimedWaiters \ SigWaiters THEN 0 ELSE 1]
  /\ pc' = [pc EXCEPT ![t] = "ret"]
  /\ UNCHANGED <<lbolt, qvars, mp, cond, tovars, pending, t_epri, spc, panicstr>>

(* cv_timedwait and cv_timedwait_sig: timeleft = tim - lbolt. *)
TimedWait(t, delay) ==
  LET abs == lbolt + delay IN
  /\ MustWait(t) /\ ~panicstr /\ t \in TimedWaiters
  /\ delay > 0 => abs <= MaxTime
  /\ tim' = [tim EXCEPT ![t] = abs]
  /\ IF delay <= 0                                     \* the time is past
     THEN /\ pc' = [pc EXCEPT ![t] = IF t \in SigWaiters THEN "issig" ELSE "ret"]
          /\ rv' = [rv EXCEPT ![t] = -1]
     ELSE /\ pc' = [pc EXCEPT ![t] = "arming"]
          /\ UNCHANGED rv
  /\ timeleft' = [timeleft EXCEPT ![t] = IF delay <= 0 THEN 0 ELSE delay]
  /\ UNCHANGED <<lbolt, qvars, mp, cond, tmo, c_runtime, pending, t_epri, spc, panicstr>>

(* realtime_timeout(setrun, curthread, timeleft) adds timeleft to lbolt,   *)
(* which may have moved on.                                                *)
RealtimeTimeout(t) ==
  /\ pc[t] = "arming"
  /\ T!Arm(t)
  /\ c_runtime' = [c_runtime EXCEPT ![t] = lbolt + timeleft[t]]
  /\ timeleft' = [timeleft EXCEPT ![t] = 0]
  /\ pc' = [pc EXCEPT ![t] = "armed"]
  /\ UNCHANGED <<lbolt, qvars, mp, cond, rv, tim, pending, t_epri, spc, panicstr>>

(* cv_block, under the thread lock; mp is still held. *)
CvBlock(t) ==
  /\ \/ MustWait(t) /\ ~panicstr /\ t \notin TimedWaiters
     \/ pc[t] = "armed"
  /\ sq' = SleepqInsert(sq, t, Prio)
  /\ t_wchan' = [t_wchan EXCEPT ![t] = CvOf[t]]
  /\ cv_waiters' = [cv_waiters EXCEPT ![CvOf[t]] = @ + 1]
  /\ pc' = [pc EXCEPT ![t] = "blocked"]
  /\ UNCHANGED <<lbolt, mp, cond, rv, tovars, pending, t_epri, spc, panicstr>>

(* schedctl_block sent SIGWAITING, dropped mp to do it, and says that the  *)
(* thread is not to block.                                                 *)
SchedctlSkips(t) ==
  /\ t \in SigWaiters
  /\ \/ MustWait(t) /\ ~panicstr /\ t \notin TimedWaiters
     \/ pc[t] = "armed"
  /\ mp' = None /\ pc' = [pc EXCEPT ![t] = "remutex"]
  /\ UNCHANGED <<lbolt, qvars, cond, rv, tovars, pending, t_epri, spc, panicstr>>

MutexExit(t) ==
  /\ pc[t] = "blocked"
  /\ mp' = None
  /\ pc' = [pc EXCEPT ![t] = IF t \in TimedWaiters \cup SigWaiters THEN "look" ELSE "swtch"]
  /\ UNCHANGED <<lbolt, qvars, cond, rv, tovars, pending, t_epri, spc, panicstr>>

(* setrun(t): cv_unsleep takes a sleeper off the queue; a thread that is   *)
(* not asleep is left alone.                                               *)
CvUnsleep_NoCount(v) == cv_waiters
CvUnsleep(v) == [cv_waiters EXCEPT ![v] = @ - 1]
Setrun(t) ==
  IF Asleep(t)
  THEN /\ sq' = SleepqDequeue(sq, t)
       /\ cv_waiters' = CvUnsleep(t_wchan[t])
       /\ t_wchan' = [t_wchan EXCEPT ![t] = None]
  ELSE UNCHANGED qvars

(* After mp is dropped and before swtch(): a signal or the end of the time *)
(* may have come before the thread was asleep.                             *)
SigCame_Never(t) == FALSE
SigCame(t) == t \in SigWaiters /\ pending[t]
TimeIsUp_Never(t) == FALSE
TimeIsUp(t) == t \in TimedWaiters /\ tim[t] - lbolt <= 0
Look(t) ==
  /\ pc[t] = "look"
  /\ IF SigCame(t) \/ TimeIsUp(t) THEN Setrun(t) ELSE UNCHANGED qvars
  /\ pc' = [pc EXCEPT ![t] = "swtch"]
  /\ UNCHANGED <<lbolt, mp, cond, rv, tovars, pending, t_epri, spc, panicstr>>

(* swtch() returns.  cv_timedwait calls untimeout() before mutex_enter(),  *)
(* the others call mutex_enter() first.                                    *)
SwtchReturns(t) ==
  /\ pc[t] = "swtch" /\ ~Asleep(t)
  /\ pc' = [pc EXCEPT ![t] = IF t \in TimedWaiters \ SigWaiters THEN "untimeout" ELSE "remutex"]
  /\ UNCHANGED <<lbolt, qvars, mp, cond, rv, tovars, pending, t_epri, spc, panicstr>>

MutexEnter(t) ==
  /\ pc[t] = "remutex" /\ mp = None
  /\ mp' = t
  /\ pc' = [pc EXCEPT ![t] =
              IF t \in SigWaiters THEN IF t \in TimedWaiters THEN "untimeout" ELSE "issig"
              ELSE IF t \in TimedWaiters THEN "ret" ELSE "test"]
  /\ UNCHANGED <<lbolt, qvars, cond, rv, tovars, pending, t_epri, spc, panicstr>>

(* untimeout(): takes the callout back with the time it had left, or waits *)
(* until it has run.  A time left of nothing counts as a timeout.          *)
TimeLeft_OffByOne(t, curtime) ==
  IF c_runtime[t] - curtime > 1 THEN c_runtime[t] - curtime ELSE -1
TimeLeft(t, curtime) == IF c_runtime[t] - curtime > 0 THEN c_runtime[t] - curtime ELSE -1
GoneBy_NoWait(t) == (tmo[t] = "running" /\ UNCHANGED tmo) \/ T!Drop(t)
GoneBy(t) == T!Drop(t)
Untimeout(t) ==
  /\ pc[t] = "untimeout"
  /\ \/ /\ T!Cancel(t)
        /\ \E curtime \in {lbolt - 1, lbolt} : rv' = [rv EXCEPT ![t] = TimeLeft(t, curtime)]
     \/ GoneBy(t) /\ rv' = [rv EXCEPT ![t] = -1]
  /\ pc' = [pc EXCEPT ![t] = IF t \in SigWaiters THEN "issig" ELSE "remutex"]
  /\ UNCHANGED <<lbolt, qvars, mp, cond, tim, timeleft, c_runtime, pending, t_epri, spc, panicstr>>

(* ISSIG_PENDING, and issig(FORREAL) with mp dropped; the signal is taken  *)
(* and the wait returns 0.  A stop signal may turn out to be nothing.      *)
NoSignal(t) ==
  /\ pc[t] = "issig" /\ ~pending[t]
  /\ pc' = [pc EXCEPT ![t] = "ret"]
  /\ UNCHANGED <<lbolt, qvars, mp, cond, rv, tovars, pending, t_epri, spc, panicstr>>
IsSig(t) ==
  /\ pc[t] = "issig" /\ pending[t]
  /\ mp' = None /\ pc' = [pc EXCEPT ![t] = "forreal"]
  /\ UNCHANGED <<lbolt, qvars, cond, rv, tovars, pending, t_epri, spc, panicstr>>
ForReal(t) ==
  /\ pc[t] = "forreal" /\ mp = None
  /\ mp' = t /\ pc' = [pc EXCEPT ![t] = "ret"]
  /\ pending' = [pending EXCEPT ![t] = FALSE]
  /\ rv' \in {rv, [rv EXCEPT ![t] = 0]}
  /\ UNCHANGED <<lbolt, qvars, cond, tovars, t_epri, spc, panicstr>>

-----------------------------------------------------------------------
(* Signallers. *)

Produce(p, v) ==
  /\ spc[p] = IdleSignaller /\ mp = None /\ ~cond[v]
  /\ cond' = [cond EXCEPT ![v] = TRUE]
  /\ \E keep, all \in BOOLEAN :
       /\ mp' = IF keep THEN p ELSE None
       /\ spc' = [spc EXCEPT ![p] = [at |-> "preview", cv |-> v, all |-> all]]
  /\ UNCHANGED <<lbolt, qvars, pc, rv, tovars, pending, t_epri, panicstr>>

SignalDone(p) ==
  /\ spc' = [spc EXCEPT ![p] = IdleSignaller]
  /\ mp' = IF mp = p THEN None ELSE mp

(* cv_waiters > 0, read with no lock. *)
Preview(p) ==
  /\ spc[p].at = "preview"
  /\ IF cv_waiters[spc[p].cv] > 0
     THEN spc' = [spc EXCEPT ![p].at = "wake"] /\ UNCHANGED mp
     ELSE SignalDone(p)
  /\ UNCHANGED <<lbolt, qvars, cond, pc, rv, tovars, pending, t_epri, panicstr>>

(* sleepq_wakeone_chan and sleepq_wakeall_chan: the first, or every thread *)
(* of the queue that sleeps on v.                                          *)
WakeOne_AnyChan(v) == {Head(sq)}
WakeOne(v) ==
  {sq[i] : i \in {k \in 1..Len(sq) :
     t_wchan[sq[k]] = v /\ \A j \in 1..(k - 1) : t_wchan[sq[j]] # v}}
WakeAll(v) == SleepersOn(v)

(* The rest of cv_signal and cv_broadcast under the queue's lock: the      *)
(* count is tested again.                                                  *)
StillWaiters_NoTest(v) == TRUE
StillWaiters(v) == cv_waiters[v] > 0
TakeOff(woken, count) ==
  /\ sq' = SleepqTakeOff(sq, woken)
  /\ t_wchan' = [t \in Waiters |-> IF t \in woken THEN None ELSE t_wchan[t]]
  /\ cv_waiters' = count
CvSignal(p) ==
  LET v == spc[p].cv IN
  /\ spc[p].at = "wake" /\ ~spc[p].all
  /\ IF StillWaiters(v)
     THEN TakeOff(WakeOne(v), [cv_waiters EXCEPT ![v] = @ - 1])
     ELSE UNCHANGED qvars
  /\ SignalDone(p)
  /\ UNCHANGED <<lbolt, cond, pc, rv, tovars, pending, t_epri, panicstr>>
CvBroadcast(p) ==
  LET v == spc[p].cv IN
  /\ spc[p].at = "wake" /\ spc[p].all
  /\ IF StillWaiters(v)
     THEN TakeOff(WakeAll(v), [cv_waiters EXCEPT ![v] = 0])
     ELSE UNCHANGED qvars
  /\ SignalDone(p)
  /\ UNCHANGED <<lbolt, cond, pc, rv, tovars, pending, t_epri, panicstr>>

-----------------------------------------------------------------------
(* What reaches a thread from outside. *)

(* The clock, bounded: it stops after MaxTime, and ticks once between a    *)
(* thread's computing timeleft and its realtime_timeout().                 *)
Tick ==
  /\ lbolt <= MaxTime /\ lbolt' = lbolt + 1
  /\ \A t \in TimedWaiters : pc[t] = "arming" => lbolt = tim[t] - timeleft[t]
  /\ UNCHANGED <<qvars, mp, cond, pc, rv, tovars, pending, t_epri, spc, panicstr>>

(* The callout is taken when its time has come, and calls setrun(). *)
CalloutStart(t) ==
  /\ lbolt >= c_runtime[t] /\ T!Run({}, {t}) /\ tmo[t] = "armed"
  /\ UNCHANGED <<lbolt, qvars, mp, cond, pc, rv, tim, timeleft, c_runtime, pending, t_epri, spc, panicstr>>
CalloutSetrun(t) ==
  /\ tmo[t] = "running" /\ T!Run({t}, {})
  /\ Setrun(t)
  /\ UNCHANGED <<lbolt, mp, cond, pc, rv, tim, timeleft, c_runtime, pending, t_epri, spc, panicstr>>

(* eat_signal: a thread asleep with T_WAKEABLE is set running. *)
Wakeable(t) == pc[t] \in {"blocked", "look", "swtch"}
PostSignal(t) ==
  /\ t \in SigWaiters /\ ~pending[t]
  /\ pending' = [pending EXCEPT ![t] = TRUE]
  /\ IF Wakeable(t) THEN Setrun(t) ELSE UNCHANGED qvars
  /\ UNCHANGED <<lbolt, mp, cond, pc, rv, tovars, t_epri, spc, panicstr>>

(* pi_changepri, and cv_changepri when the thread sleeps here. *)
Requeue_InPlace(q, t, prio) == q
Requeue(q, t, prio) == SleepqInsert(SleepqDequeue(q, t), t, prio)
CvChangePri(t, pri) ==
  /\ t \in PiThreads /\ t_epri[t] # pri
  /\ t_epri' = [t_epri EXCEPT ![t] = pri]
  /\ sq' = IF Asleep(t) THEN Requeue(sq, t, DispPrio(InitPri, t_epri')) ELSE sq
  /\ UNCHANGED <<lbolt, t_wchan, cv_waiters, mp, cond, pc, rv, tovars, pending, spc, panicstr>>

Panic ==
  /\ Panics /\ ~panicstr /\ panicstr' = TRUE
  /\ UNCHANGED <<lbolt, qvars, mp, cond, pc, rv, tovars, pending, t_epri, spc>>

-----------------------------------------------------------------------
WaiterStep(t) ==
  \/ Enter(t) \/ Leave(t) \/ Again(t) \/ PanicReturn(t)
  \/ (\E d \in Delays : TimedWait(t, d)) \/ RealtimeTimeout(t)
  \/ CvBlock(t) \/ SchedctlSkips(t) \/ MutexExit(t) \/ Look(t) \/ SwtchReturns(t)
  \/ MutexEnter(t) \/ Untimeout(t) \/ NoSignal(t) \/ IsSig(t) \/ ForReal(t)
SignallerStep(p) == (\E v \in CVs : Produce(p, v)) \/ Preview(p) \/ CvSignal(p) \/ CvBroadcast(p)
TimeStep == Tick \/ \E t \in TimedWaiters : CalloutStart(t) \/ CalloutSetrun(t)

Next ==
  \/ \E t \in Waiters : WaiterStep(t) \/ PostSignal(t)
  \/ \E t \in Waiters : \E pri \in Pris \cup {0} : CvChangePri(t, pri)
  \/ \E p \in Signallers : SignallerStep(p)
  \/ TimeStep \/ Panic

Spec == Init /\ [][Next]_vars

(* Threads that are not blocked run; callouts are run (Callout: DueIsRun); *)
(* the mutex is contended, and turnstiles let every waiter have it.        *)
Fairness ==
  /\ WF_vars(Tick)
  /\ \A t \in TimedWaiters : WF_vars(CalloutStart(t)) /\ WF_vars(CalloutSetrun(t))
  /\ \A t \in Waiters :
       /\ WF_vars(Leave(t)) /\ WF_vars(Again(t)) /\ WF_vars(CvBlock(t))
       /\ WF_vars(\E d \in Delays : TimedWait(t, d)) /\ WF_vars(RealtimeTimeout(t))
       /\ WF_vars(PanicReturn(t)) /\ WF_vars(MutexExit(t)) /\ WF_vars(Look(t))
       /\ WF_vars(SwtchReturns(t)) /\ SF_vars(MutexEnter(t)) /\ WF_vars(Untimeout(t))
       /\ WF_vars(NoSignal(t)) /\ WF_vars(IsSig(t)) /\ SF_vars(ForReal(t))
  /\ \A p \in Signallers :
       WF_vars(Preview(p)) /\ WF_vars(CvSignal(p)) /\ WF_vars(CvBroadcast(p))
FairSpec == Spec /\ Fairness

-----------------------------------------------------------------------
InWait == {"armed", "blocked", "look", "swtch", "untimeout", "remutex"}

TypeOK ==
  /\ lbolt \in 0..(MaxTime + 1) /\ sq \in Seq(Waiters)
  /\ t_wchan \in [Waiters -> CVs \cup {None}] /\ cv_waiters \in [CVs -> Nat]
  /\ mp \in Waiters \cup Signallers \cup {None} /\ cond \in [CVs -> BOOLEAN]
  /\ pc \in [Waiters -> InWait \cup {"out", "test", "arming", "ret", "issig", "forreal"}]
  /\ tmo \in [TimedWaiters -> {"none", "armed", "running", "done"}]
  /\ pending \in [Waiters -> BOOLEAN] /\ t_epri \in [Waiters -> Pris \cup {0}]

(* cv_signal, cv_broadcast and setrun() decide by cv_waiters whether there *)
(* is somebody to wake; it is the number of threads on the queue that      *)
(* sleep on the variable, however each was put on or taken off.            *)
WaitersMatchQueue ==
  /\ Distinct(sq)
  /\ \A v \in CVs : cv_waiters[v] = Cardinality(SleepersOn(v))
  /\ \A t \in Waiters : Asleep(t) <=> t_wchan[t] # None

(* The point of releasing mp inside cv_wait: nobody sleeps on a condition  *)
(* that is true unless a signaller of it has yet to look at the queue or a *)
(* thread taken off the queue has yet to test the condition.               *)
NoMissedWakeup ==
  \A v \in CVs : cond[v] /\ SleepersOn(v) # {} =>
    \/ \E p \in Signallers : spc[p].cv = v
    \/ \E t \in Waiters : /\ CvOf[t] = v /\ ~Asleep(t)
                          /\ pc[t] \in InWait \cup {"test", "ret", "issig", "forreal"}

(* A thread that has gone to sleep in a timed wait has a callout that will *)
(* wake it: one that fired before the thread was on the queue is made up   *)
(* for by the test of lbolt after mutex_exit().                            *)
NoLostTimeout ==
  \A t \in TimedWaiters : pc[t] = "swtch" /\ Asleep(t) => tmo[t] \in {"armed", "running"}

(* No setrun() callout outlives the wait it was made for, to wake the      *)
(* thread out of some later sleep.                                         *)
NoStaleSetrun == \A t \in TimedWaiters : tmo[t] # "none" => pc[t] \in InWait

(* -1 is returned only when the time asked for has come. *)
TimeoutHonest ==
  \A t \in TimedWaiters : pc[t] = "ret" /\ rv[t] = -1 => lbolt >= tim[t]

(* No signal is left pending for a thread that sleeps interruptibly. *)
NoSleepOnSignal ==
  \A t \in SigWaiters : pc[t] = "swtch" /\ Asleep(t) => ~pending[t]

(* cv_signal wakes a sleeper of that variable with the highest priority,   *)
(* whatever priorities were inherited while they slept.                    *)
SignalWakesHighest ==
  [][\A p \in Signallers : spc[p].at = "wake" /\ ~spc[p].all /\ spc'[p].at = "out" =>
       \A t \in Sleepers(sq) \ Sleepers(sq') :
         t_wchan[t] = spc[p].cv /\ \A u \in SleepersOn(spc[p].cv) : Prio[u] <= Prio[t]]_vars

(* A timed wait ends, although nobody ever makes the condition true. *)
TimedWaitReturns ==
  \A t \in TimedWaiters : (pc[t] = "arming") ~> (pc[t] \in {"ret", "out"})

(* cv_waiters and the shared sleep queue agree through every preview,      *)
(* signal, broadcast and setrun() (condvar.c:409-455, 501-513): TypeOK and *)
(* WaitersMatchQueue.                                                      *)
CvSound == TypeOK /\ WaitersMatchQueue

(* The same with timed waits, and no thread sleeps on after its callout    *)
(* has come and gone (the test at condvar.c:175): CvSound, NoLostTimeout.  *)
TimedSound == CvSound /\ NoLostTimeout

=======================================================================
