----------------------------- MODULE Sema -----------------------------
(***************************************************************************)
(* Counting semaphores: uts/common/os/semaphore.c.                         *)
(*                                                                         *)
(* One semaphore, the threads that use it, the signals and the priority    *)
(* changes that reach a thread while it sleeps, and the unsafe_driver      *)
(* mutex that sema_p drops around swtch().  The region between             *)
(* disp_lock_enter(sqlp) and the matching exit is one step: the dispatcher *)
(* lock sqlp is a spin lock that every operation on the semaphore holds.   *)
(* Everything else a thread does between two such regions is a step of     *)
(* its own, named by the thread's pc.                                      *)
(***************************************************************************)
EXTENDS Integers, Sequences, FiniteSets, SleepQ

CONSTANTS
  Threads,          \* the threads that use the semaphore
  LwpThreads,       \* those that have an lwp and call sema_p_sig
  UnsafeThreads,    \* those that run an unsafe driver: they hold unsafe_driver
                    \* whenever they enter the semaphore code
  PiThreads,        \* those that own locks others wait for: they inherit priority
  PriocntlThreads,  \* those whose t_pri the scheduling class may set as they sleep
  Pris,             \* the priorities threads are given
  InitPri,          \* the assigned priority of each thread to begin with
  InitCount,        \* sema_init's count
  MaxSupply,        \* bound: units in circulation
  NoThread          \* no owner of unsafe_driver

ASSUME ThreadsAssumption ==
  /\ IsFiniteSet(Threads) /\ NoThread \notin Threads
  /\ LwpThreads \subseteq Threads /\ UnsafeThreads \subseteq Threads
  /\ PiThreads \subseteq Threads /\ PriocntlThreads \subseteq Threads
ASSUME PrisAssumption == Pris \subseteq Nat \ {0} /\ InitPri \in [Threads -> Pris]
ASSUME CountAssumption == InitCount \in Nat /\ MaxSupply \in Nat /\ InitCount <= MaxSupply

VARIABLES
  s_count,          \* negative: minus the number of threads that wait
  s_slpq,           \* the semaphore's sleep queue
  pc,               \* where each thread stands in semaphore.c
  t_pri, t_epri,    \* assigned and inherited priority; t_epri 0 means none
  pending,          \* a signal, a sysabort or HOLDFORK waits for the thread
  panicstr,         \* "none", "sema_v" (the panic in sema_v) or "other"
  unsafe_driver,    \* owner of the unsafe_driver mutex
  supply            \* history: units put in by sema_init and sema_v and not used up

vars == <<s_count, s_slpq, pc, t_pri, t_epri, pending, panicstr, unsafe_driver, supply>>

PCs == {"idle", "held",
        "p_drop", "p_sleep", "p_sleep_unsafe", "p_retake",
        "sig_look", "sig_sleep", "sig_retry", "sig_abort",
        "panicked"}

(* Where SEMA_BLOCK has been executed and swtch() has not yet returned. *)
SleepPCs == {"p_drop", "p_sleep", "p_sleep_unsafe", "sig_look", "sig_sleep"}

Prio == DispPrio(t_pri, t_epri)
Asleep(t) == OnQueue(s_slpq, t)          \* t_state == TS_SLEEP
Panicking == panicstr # "none"

(* The caller may enter the semaphore code: a thread of an unsafe driver   *)
(* has unsafe_driver, the others never do.                                 *)
MayCall(t) == t \in UnsafeThreads => unsafe_driver = t

-----------------------------------------------------------------------
Init ==
  /\ s_count = InitCount /\ s_slpq = << >>
  /\ pc = [t \in Threads |-> "idle"]
  /\ t_pri = InitPri /\ t_epri = [t \in Threads |-> 0]
  /\ pending = [t \in Threads |-> FALSE]
  /\ panicstr = "none" /\ unsafe_driver = NoThread
  /\ supply = InitCount

(* sema_queue and sema_dequeue: the list operations of sema_changepri.     *)
SemaQueue(q, t, prio) == SleepqInsert(q, t, prio)
SemaDequeue_Forgets(q, t) == q                                    \* mutant
SemaDequeue(q, t) == SleepqDequeue(q, t)

(* SEMA_BLOCK: THREAD_SLEEP and the insertion into s_slpq. *)
SemaBlock(t) == s_slpq' = SleepqInsert(s_slpq, t, Prio)

(* sema_unsleep: unlink t and make it runnable. *)
SemaUnsleep(q, t) == SleepqDequeue(q, t)

(* sema_changepri: dequeue, set t_epri, requeue; prio holds the new value. *)
SemaChangePri_InPlace(q, t, prio) == q                            \* mutant
SemaChangePri(q, t, prio) == SemaQueue(SemaDequeue(q, t), t, prio)

(* s_count-- > 0 *)
Granted == s_count > 0

(* sema_p up to the release of sqlp. *)
SemaP(t) ==
  /\ pc[t] = "idle" /\ MayCall(t)
  /\ s_count' = s_count - 1
  /\ \/ /\ Granted \/ Panicking              \* granted, or panic_hook()
        /\ pc' = [pc EXCEPT ![t] = "held"]
        /\ UNCHANGED s_slpq
     \/ /\ ~Granted /\ ~Panicking
        /\ SemaBlock(t)
        /\ pc' = [pc EXCEPT ![t] = IF unsafe_driver = t THEN "p_drop" ELSE "p_sleep"]
  /\ UNCHANGED <<t_pri, t_epri, pending, panicstr, unsafe_driver, supply>>

ExitUnsafeDriver == unsafe_driver' = NoThread

(* mutex_exit(&unsafe_driver) before swtch(); the thread is already TS_SLEEP. *)
SemaPDropUnsafe(t) ==
  /\ pc[t] = "p_drop"
  /\ ExitUnsafeDriver
  /\ pc' = [pc EXCEPT ![t] = "p_sleep_unsafe"]
  /\ UNCHANGED <<s_count, s_slpq, t_pri, t_epri, pending, panicstr, supply>>

(* swtch() returns in sema_p: sema_v has taken the thread off the queue. *)
SemaPReturn(t) ==
  /\ pc[t] \in {"p_sleep", "p_sleep_unsafe"} /\ ~Asleep(t)
  /\ pc' = [pc EXCEPT ![t] = IF pc[t] = "p_sleep" THEN "held" ELSE "p_retake"]
  /\ UNCHANGED <<s_count, s_slpq, t_pri, t_epri, pending, panicstr, unsafe_driver, supply>>

(* mutex_enter(&unsafe_driver) after swtch(). *)
SemaPRetakeUnsafe(t) ==
  /\ pc[t] = "p_retake" /\ unsafe_driver = NoThread
  /\ unsafe_driver' = t
  /\ pc' = [pc EXCEPT ![t] = "held"]
  /\ UNCHANGED <<s_count, s_slpq, t_pri, t_epri, pending, panicstr, supply>>

(* The loop test of sema_p_sig, made with sqlp held, on count n. *)
SigLoop(t, n) ==
  IF n < 0
  THEN SemaBlock(t) /\ pc' = [pc EXCEPT ![t] = "sig_look"]
  ELSE UNCHANGED s_slpq /\ pc' = [pc EXCEPT ![t] = "held"]

(* sema_p_sig: the first decrement and test.  (A caller with no lwp calls  *)
(* sema_p: SemaP.)                                                         *)
SemaPSig(t) ==
  /\ t \in LwpThreads /\ pc[t] = "idle" /\ MayCall(t)
  /\ s_count' = s_count - 1
  /\ SigLoop(t, s_count - 1)
  /\ UNCHANGED <<t_pri, t_epri, pending, panicstr, unsafe_driver, supply>>

LookThenSetrun_Never(t) == s_slpq                                 \* mutant
LookThenSetrun(t) == IF pending[t] THEN SemaUnsleep(s_slpq, t) ELSE s_slpq

(* ISSIG(t, JUSTLOOKING) || ISHOLD(p): if so setrun(t), which reaches      *)
(* sema_unsleep when the thread is still asleep and else does nothing.     *)
SemaPSigLook(t) ==
  /\ pc[t] = "sig_look"
  /\ s_slpq' = LookThenSetrun(t)
  /\ pc' = [pc EXCEPT ![t] = "sig_sleep"]
  /\ UNCHANGED <<s_count, t_pri, t_epri, pending, panicstr, unsafe_driver, supply>>

(* swtch() returns in sema_p_sig; ISSIG(t, FORREAL) || lwp_sysabort ||     *)
(* ISHOLD(p) decides between giving up and testing the count again.        *)
(* issig() may find that the signal is to be ignored and discard it.       *)
SemaPSigWake(t) ==
  /\ pc[t] = "sig_sleep" /\ ~Asleep(t)
  /\ \/ /\ pending[t]
        /\ pc' = [pc EXCEPT ![t] = "sig_abort"]
     \/ pc' = [pc EXCEPT ![t] = "sig_retry"]
  /\ pending' = [pending EXCEPT ![t] = FALSE]
  /\ UNCHANGED <<s_count, s_slpq, t_pri, t_epri, panicstr, unsafe_driver, supply>>

GiveBackClaim_Forgets == UNCHANGED s_count                        \* mutant
GiveBackClaim == s_count' = s_count + 1

(* The signal exit: s_count++ under sqlp, return 1. *)
SemaPSigAbort(t) ==
  /\ pc[t] = "sig_abort"
  /\ GiveBackClaim
  /\ pc' = [pc EXCEPT ![t] = "idle"]
  /\ UNCHANGED <<s_slpq, t_pri, t_epri, pending, panicstr, unsafe_driver, supply>>

(* No signal: sqlp is taken again and the while condition tested. *)
SemaPSigRetry(t) ==
  /\ pc[t] = "sig_retry"
  /\ SigLoop(t, s_count)
  /\ UNCHANGED <<s_count, t_pri, t_epri, pending, panicstr, unsafe_driver, supply>>

TryGranted_OffByOne == s_count >= 0                               \* mutant
TryGranted == s_count > 0
TryTake == s_count' = s_count - 1

(* sema_tryp: takes a unit or returns 0; the failure changes nothing. *)
SemaTryP(t) ==
  /\ pc[t] = "idle" /\ MayCall(t) /\ TryGranted
  /\ TryTake
  /\ pc' = [pc EXCEPT ![t] = "held"]
  /\ UNCHANGED <<s_slpq, t_pri, t_epri, pending, panicstr, unsafe_driver, supply>>

(* s_count++ < 0 *)
MustWake_OffByOne == s_count < -1                                 \* mutant
MustWake == s_count < 0

(* The body of sema_v, run by any thread or interrupt. *)
SemaVBody ==
  /\ s_count' = s_count + 1
  /\ \/ (~MustWake \/ Panicking) /\ UNCHANGED <<s_slpq, panicstr>>
     \/ /\ MustWake /\ ~Panicking /\ s_slpq # << >>
        /\ s_slpq' = Tail(s_slpq)
        /\ UNCHANGED panicstr
     \/ /\ MustWake /\ ~Panicking /\ s_slpq = << >>
        /\ panicstr' = "sema_v"
        /\ UNCHANGED s_slpq

(* sema_v by a thread that gives back the unit it holds. *)
SemaV(t) ==
  /\ pc[t] = "held" /\ MayCall(t)
  /\ SemaVBody
  /\ pc' = [pc EXCEPT ![t] = IF panicstr' # panicstr THEN "panicked" ELSE "idle"]
  /\ UNCHANGED <<t_pri, t_epri, pending, unsafe_driver, supply>>

(* sema_v by code that holds no unit: an interrupt that posts completion   *)
(* (biodone: sema_v(&bp->b_io)).  Bounded by MaxSupply.                    *)
SemaVPost ==
  /\ supply < MaxSupply
  /\ SemaVBody
  /\ supply' = supply + 1
  /\ UNCHANGED <<pc, t_pri, t_epri, pending, unsafe_driver>>

-----------------------------------------------------------------------
(* The environment. *)

(* A caller uses its unit up (waited for a completion) and never gives it back. *)
Consume(t) ==
  /\ pc[t] = "held" /\ supply > 0
  /\ pc' = [pc EXCEPT ![t] = "idle"]
  /\ supply' = supply - 1
  /\ UNCHANGED <<s_count, s_slpq, t_pri, t_epri, pending, panicstr, unsafe_driver>>

(* An unsafe driver is entered, and left. *)
EnterUnsafe(t) ==
  /\ t \in UnsafeThreads /\ pc[t] \in {"idle", "held"} /\ unsafe_driver = NoThread
  /\ unsafe_driver' = t
  /\ UNCHANGED <<s_count, s_slpq, pc, t_pri, t_epri, pending, panicstr, supply>>
ExitUnsafe(t) ==
  /\ unsafe_driver = t /\ pc[t] \in {"idle", "held"}
  /\ unsafe_driver' = NoThread
  /\ UNCHANGED <<s_count, s_slpq, pc, t_pri, t_epri, pending, panicstr, supply>>

(* A signal, a sysabort or a fork hold is posted; eat_signal() then runs   *)
(* the thread if it sleeps with T_WAKEABLE, through sema_unsleep().  A     *)
(* sysabort is one of these only while the thread sleeps: sema_p_sig       *)
(* clears lwp_sysabort when it blocks, and the look before swtch() has     *)
(* nothing to find, since the thread was taken off the queue already.      *)
PostSignal(t) ==
  /\ t \in LwpThreads /\ ~pending[t]
  /\ pending' = [pending EXCEPT ![t] = TRUE]
  /\ s_slpq' = IF pc[t] \in {"sig_look", "sig_sleep"}
               THEN SemaUnsleep(s_slpq, t) ELSE s_slpq
  /\ UNCHANGED <<s_count, pc, t_pri, t_epri, panicstr, unsafe_driver, supply>>

SetEpri(t, p) == t_epri' = [t_epri EXCEPT ![t] = p]

(* pi_changepri(): priority inheritance gives t priority p, or 0 to take   *)
(* it back; a thread asleep here goes through sema_changepri().            *)
PiChangePri(t, p) ==
  /\ t \in PiThreads /\ t_epri[t] # p
  /\ SetEpri(t, p)
  /\ s_slpq' = IF Asleep(t)
               THEN SemaChangePri(s_slpq, t, DispPrio(t_pri, t_epri'))
               ELSE s_slpq
  /\ UNCHANGED <<s_count, pc, t_pri, pending, panicstr, unsafe_driver, supply>>

(* rt_parmsset(), ts_change_priority(): the scheduling class sets t_pri.   *)
(* dispdeq() does not find a sleeping thread on a run queue, and the sleep *)
(* queue is left as it is.                                                 *)
ClassChangePri(t, p) ==
  /\ t \in PriocntlThreads /\ t_pri[t] # p
  /\ t_pri' = [t_pri EXCEPT ![t] = p]
  /\ UNCHANGED <<s_count, s_slpq, pc, t_epri, pending, panicstr, unsafe_driver, supply>>

(* Some other part of the kernel panics. *)
Panic ==
  /\ ~Panicking
  /\ panicstr' = "other"
  /\ UNCHANGED <<s_count, s_slpq, pc, t_pri, t_epri, pending, unsafe_driver, supply>>

-----------------------------------------------------------------------
ThreadStep(t) ==
  \/ SemaP(t) \/ SemaPDropUnsafe(t) \/ SemaPReturn(t) \/ SemaPRetakeUnsafe(t)
  \/ SemaPSig(t) \/ SemaPSigLook(t) \/ SemaPSigWake(t)
  \/ SemaPSigAbort(t) \/ SemaPSigRetry(t)
  \/ SemaTryP(t) \/ SemaV(t) \/ Consume(t)
  \/ EnterUnsafe(t) \/ ExitUnsafe(t)

Next ==
  \/ \E t \in Threads : ThreadStep(t) \/ PostSignal(t)
  \/ \E t \in Threads : \E p \in Pris \cup {0} : PiChangePri(t, p)
  \/ \E t \in Threads : \E p \in Pris : ClassChangePri(t, p)
  \/ SemaVPost
  \/ Panic

Spec == Init /\ [][Next]_vars

-----------------------------------------------------------------------
TypeOK ==
  /\ s_count \in Int
  /\ s_slpq \in Seq(Threads)
  /\ pc \in [Threads -> PCs]
  /\ t_pri \in [Threads -> Pris] /\ t_epri \in [Threads -> Pris \cup {0}]
  /\ pending \in [Threads -> BOOLEAN]
  /\ panicstr \in {"none", "sema_v", "other"}
  /\ unsafe_driver \in Threads \cup {NoThread}
  /\ supply \in 0..MaxSupply

(* Threads between the decrement of s_count and the grant. *)
InSemaP == {t \in Threads : pc[t] \notin {"idle", "held", "panicked"}}
Holders == {t \in Threads : pc[t] = "held"}

(* s_count is the units supplied less those held and those claimed by a    *)
(* call still inside sema_p or sema_p_sig, whatever signals arrive: the    *)
(* count++ of the signal exit gives back exactly the decrement at entry.   *)
CountAccounts == s_count = supply - Cardinality(Holders) - Cardinality(InSemaP)

(* A negative count is minus the number of sleepers, and there are no      *)
(* sleepers otherwise: what sema_v relies on when it finds s_count < 0     *)
(* and takes the first thread of s_slpq.                                   *)
CountMatchesQueue ==
  ~Panicking => Len(s_slpq) = IF s_count < 0 THEN -s_count ELSE 0

(* sema_v never reaches its cmn_err(CE_PANIC, "sema_v"). *)
NoSemaPanic == panicstr # "sema_v"

(* The units free, the threads that sleep for one, and those that have one *)
(* or have been handed one and not run yet.                                *)
Avail == IF s_count > 0 THEN s_count ELSE 0
Waiting == Sleepers(s_slpq)
GrantedSet == {t \in Threads : pc[t] # "idle" /\ ~Asleep(t)}

(* Units are neither made nor lost when sema_v hands one to a sleeper:     *)
(* those free, those held and those handed to a thread that has not yet    *)
(* run again add up to the supply.                                         *)
UnitsConserved ==
  ~Panicking => Avail + Cardinality(GrantedSet) = supply

(* The sleep queue holds a thread once, and only while it is inside        *)
(* sema_p or sema_p_sig: nothing is woken through a stale t_link.          *)
QueueSound ==
  /\ Distinct(s_slpq)
  /\ \A t \in Threads : Asleep(t) => pc[t] \in SleepPCs

(* A signal posted between SEMA_BLOCK_SIG and swtch() is not lost: no      *)
(* thread is in swtch() and asleep with a signal pending.                  *)
NoLostSignal ==
  \A t \in Threads : pc[t] = "sig_sleep" /\ pending[t] => ~Asleep(t)

(* The thread at the head of the queue, which sema_v wakes, has the        *)
(* highest dispatch priority of all sleepers.                              *)
QueueInPrioOrder == InOrder(s_slpq, Prio)

(* A thread that sleeps in sema_p drops unsafe_driver before it switches   *)
(* away and has it again when it returns.                                  *)
UnsafeDroppedAsleep ==
  /\ unsafe_driver # NoThread => pc[unsafe_driver] # "p_sleep_unsafe"
  /\ \A t \in UnsafeThreads : pc[t] # "p_sleep"

-----------------------------------------------------------------------
(* What a semaphore promises. *)
AS == INSTANCE AbstractSema WITH
        avail <- Avail, waiting <- Waiting, granted <- GrantedSet, crashed <- Panicking

(* While the system is not panicking, semaphore.c implements the semaphore *)
(* of AbstractSema.                                                        *)
ImplementsAbstractSema == AS!Spec

(* The state of sema_p(), sema_tryp() and sema_v() is sound: TypeOK, units *)
(* are neither made nor lost (UnitsConserved), the first in the queue is   *)
(* the one to wake (QueueInPrioOrder), and no thread sleeps with the       *)
(* unsafe_driver mutex (UnsafeDroppedAsleep).                              *)
StateSound == TypeOK /\ UnitsConserved /\ QueueInPrioOrder /\ UnsafeDroppedAsleep

=======================================================================
