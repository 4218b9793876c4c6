---------------------------- MODULE Softcall ----------------------------
(***************************************************************************)
(* Deferred calls at software interrupt level: uts/common/os/softint.c,    *)
(* with siron() and softlevel1() as on sun4u.                              *)
(*                                                                         *)
(* softcall() queues a function under softcall_lock and raises the         *)
(* interrupt when the queue was empty; softint() takes them off one by one *)
(* and calls each with the lock dropped.  realtime_timein (Callout) is     *)
(* called this way.  What is done under softcall_lock is one step, except  *)
(* that siron(), which trap() calls without the lock, tests siron_pending, *)
(* sets it and posts the interrupt in three.                               *)
(***************************************************************************)
EXTENDS UnsafeDriver, Integers, Sequences, FiniteSets

CONSTANTS
  CPUs,
  Funcs,         \* the functions, with their arguments, that are deferred
  NSOFTCALLS,    \* structures in the pool
  Driver         \* the thread of unsafe drivers, which holds unsafe_driver when it calls;
                 \* None: no owner

ASSUME SoftcallAssumption ==
  /\ NSOFTCALLS \in Nat /\ IsFiniteSet(Funcs)
  /\ Driver \notin CPUs /\ None \notin CPUs \cup Funcs \cup {Driver}

VARIABLES
  softhead,       \* the queue of [func, unsafe]; unsafe: sc_mutex is unsafe_driver
  softfree,       \* number of structures on the free list
  softcall_lock,  \* the CPU in softcall() that is inside siron()
  siron_pending,
  sir,            \* CPU -> where its siron() is
  intr,           \* CPUs with a level 1 interrupt posted and not yet taken
  cpc, cur,       \* CPU -> where its softlevel1() is, the call it has taken
  panicstr,       \* "too many softcalls"
  owed            \* history: <<func, by>> requested and not started since

qvars == <<softhead, softfree>>
ivars == <<softcall_lock, siron_pending, sir, intr>>
softcall_vars == <<qvars, ivars, cpc, cur, unsafe_driver, panicstr, owed>>

Sc == [func : Funcs, unsafe : BOOLEAN]
Queued == {softhead[i].func : i \in 1..Len(softhead)}

SoftcallInit ==
  /\ softhead = << >> /\ softfree = NSOFTCALLS
  /\ siron_pending = FALSE /\ intr = {}
  /\ softcall_lock = None /\ sir = [p \in CPUs |-> "out"]
  /\ cpc = [p \in CPUs |-> "idle"] /\ cur = [p \in CPUs |-> None]
  /\ unsafe_driver = None /\ panicstr = FALSE /\ owed = {}

(* siron() on CPU p: one interrupt at a time is enough for all CPUs.  The  *)
(* lock, when softcall() called it, is dropped after it.                   *)
SironTest(p) == sir' = IF siron_pending THEN sir ELSE [sir EXCEPT ![p] = "set"]
SironSet(p) ==
  /\ sir[p] = "set"
  /\ siron_pending' = TRUE /\ sir' = [sir EXCEPT ![p] = "post"]
  /\ UNCHANGED <<qvars, softcall_lock, intr, cpc, cur, unsafe_driver, panicstr, owed>>
SironPost(p) ==
  /\ sir[p] = "post"
  /\ intr' = intr \cup {p} /\ sir' = [sir EXCEPT ![p] = "out"]
  /\ softcall_lock' = IF softcall_lock = p THEN None ELSE softcall_lock
  /\ UNCHANGED <<qvars, siron_pending, cpc, cur, unsafe_driver, panicstr, owed>>

(* softcall() from CPU p.  An identical call that is queued serves both.   *)
Coalesce_WithRunning(f) == f \in Queued \/ \E p \in CPUs : cpc[p] = "func" /\ cur[p] = f
Coalesce_Never(f) == FALSE
Coalesce(f) == f \in Queued
PoolEmpty == softfree = 0
MustSiron_Never(q) == FALSE
MustSiron(q) == q = << >>
DoSoftcall(p, f, unsafe) ==
  /\ ~panicstr /\ softcall_lock = None /\ sir[p] = "out"
  /\ owed' = owed \cup {<<f, unsafe>>}
  /\ \/ /\ Coalesce(f)
        /\ UNCHANGED <<qvars, softcall_lock, sir, panicstr>>
     \/ /\ ~Coalesce(f) /\ PoolEmpty
        /\ panicstr' = TRUE
        /\ UNCHANGED <<qvars, softcall_lock, sir>>
     \/ /\ ~Coalesce(f) /\ ~PoolEmpty
        /\ softfree' = softfree - 1
        /\ softhead' = Append(softhead, [func |-> f, unsafe |-> unsafe])
        /\ IF MustSiron(softhead) THEN SironTest(p) ELSE UNCHANGED sir
        /\ softcall_lock' = IF MustSiron(softhead) /\ ~siron_pending THEN p ELSE None
        /\ UNCHANGED panicstr
  /\ UNCHANGED <<siron_pending, intr, cpc, cur, unsafe_driver>>

(* UNSAFE_DRIVER_LOCK_HELD(): the caller is a driver, or a function that   *)
(* softint() called on p with the mutex; an interrupt on top of either     *)
(* does not hold it.                                                       *)
CallSoftcall(p, f) == DoSoftcall(p, f, FALSE)
DriverSoftcall(p, f) == unsafe_driver \in {Driver, p} /\ DoSoftcall(p, f, TRUE)

(* trap() calls siron() of its own accord, to be looked at later. *)
TrapSiron(p) ==
  /\ sir[p] = "out" /\ SironTest(p)
  /\ UNCHANGED <<qvars, softcall_lock, siron_pending, intr, cpc, cur, unsafe_driver, panicstr, owed>>

(* softcall_lock is a spin lock at SPL7: its holder takes no level 1       *)
(* interrupt and does not return to one it interrupted.                    *)
AtLevel1(p) == softcall_lock # p

(* The interrupt is taken and softlevel1() begins. *)
Softlevel1(p) ==
  /\ p \in intr /\ cpc[p] = "idle" /\ AtLevel1(p)
  /\ intr' = intr \ {p} /\ cpc' = [cpc EXCEPT ![p] = "level1"]
  /\ UNCHANGED <<qvars, softcall_lock, siron_pending, sir, cur, unsafe_driver, panicstr, owed>>

ResetPending_Forgets == UNCHANGED siron_pending
ResetPending == siron_pending' = FALSE
ClearPending(p) ==
  /\ cpc[p] = "level1" /\ AtLevel1(p)
  /\ ResetPending /\ cpc' = [cpc EXCEPT ![p] = "loop"]
  /\ UNCHANGED <<qvars, softcall_lock, sir, intr, cur, unsafe_driver, panicstr, owed>>

(* softint(): take the first, with its structure back on the free list. *)
NextPc(sc) == IF sc.unsafe THEN "enter" ELSE "func"
Started(sc) == IF sc.unsafe THEN owed ELSE {o \in owed : o[1] # sc.func}
FreeOne == softfree + 1
SoftintTake(p) ==
  /\ cpc[p] = "loop" /\ softcall_lock = None /\ softhead # << >>
  /\ cur' = [cur EXCEPT ![p] = Head(softhead).func]
  /\ softhead' = Tail(softhead) /\ softfree' = FreeOne
  /\ cpc' = [cpc EXCEPT ![p] = NextPc(Head(softhead))]
  /\ owed' = Started(Head(softhead))
  /\ UNCHANGED <<ivars, unsafe_driver, panicstr>>
SoftintReturns(p) ==
  /\ cpc[p] = "loop" /\ softcall_lock = None /\ softhead = << >>
  /\ cpc' = [cpc EXCEPT ![p] = "idle"]
  /\ UNCHANGED <<qvars, ivars, cur, unsafe_driver, panicstr, owed>>

(* mutex_enter(mp) before the call, for which the interrupt thread blocks  *)
(* and may be resumed on another CPU.                                      *)
SoftintEnter(p) ==
  /\ cpc[p] = "enter" /\ unsafe_driver = None
  /\ unsafe_driver' = p /\ cpc' = [cpc EXCEPT ![p] = "func"]
  /\ owed' = {o \in owed : o[1] # cur[p]}
  /\ UNCHANGED <<qvars, ivars, cur, panicstr>>
SoftintCallReturns(p) ==
  /\ cpc[p] = "func" /\ AtLevel1(p)
  /\ unsafe_driver' = IF unsafe_driver = p THEN None ELSE unsafe_driver
  /\ cpc' = [cpc EXCEPT ![p] = "loop"] /\ cur' = [cur EXCEPT ![p] = None]
  /\ UNCHANGED <<qvars, ivars, panicstr, owed>>

DriverEnter ==
  /\ unsafe_driver = None /\ unsafe_driver' = Driver
  /\ UNCHANGED <<qvars, ivars, cpc, cur, panicstr, owed>>
DriverExit ==
  /\ unsafe_driver = Driver /\ unsafe_driver' = None
  /\ UNCHANGED <<qvars, ivars, cpc, cur, panicstr, owed>>

CpuStep(p) ==
  \/ TrapSiron(p) \/ SironSet(p) \/ SironPost(p) \/ Softlevel1(p) \/ ClearPending(p)
  \/ SoftintTake(p) \/ SoftintReturns(p) \/ SoftintEnter(p) \/ SoftintCallReturns(p)
SoftcallNext ==
  \/ \E p \in CPUs : CpuStep(p)
  \/ \E p \in CPUs : \E f \in Funcs : CallSoftcall(p, f) \/ DriverSoftcall(p, f)
  \/ DriverEnter \/ DriverExit

SoftcallSpec == SoftcallInit /\ [][SoftcallNext]_softcall_vars

(* Interrupts posted are taken and functions return, although a CPU may    *)
(* be called away from them to softcall() again and again; unsafe drivers  *)
(* let go of the mutex, and a contended mutex is granted in the end.       *)
SoftcallFairness ==
  /\ \A p \in CPUs :
       /\ WF_softcall_vars(SironSet(p)) /\ WF_softcall_vars(SironPost(p))
       /\ SF_softcall_vars(Softlevel1(p)) /\ SF_softcall_vars(ClearPending(p)) /\ WF_softcall_vars(SoftintTake(p))
       /\ WF_softcall_vars(SoftintReturns(p)) /\ SF_softcall_vars(SoftintEnter(p)) /\ SF_softcall_vars(SoftintCallReturns(p))
  /\ WF_softcall_vars(DriverExit)
SoftcallFairSpec == SoftcallSpec /\ SoftcallFairness

-----------------------------------------------------------------------
PCs == {"idle", "level1", "loop", "enter", "func"}
SoftcallTypeOK ==
  /\ softhead \in Seq(Sc) /\ softfree \in Nat /\ siron_pending \in BOOLEAN
  /\ softcall_lock \in CPUs \cup {None} /\ sir \in [CPUs -> {"out", "set", "post"}]
  /\ intr \subseteq CPUs /\ cpc \in [CPUs -> PCs] /\ cur \in [CPUs -> Funcs \cup {None}]
  /\ unsafe_driver \in CPUs \cup {Driver, None} /\ panicstr \in BOOLEAN

(* A softint() that will look at the queue again. *)
Looking(p) == cpc[p] \in {"level1", "loop", "enter", "func"}

(* A queued call is never stranded: an interrupt is posted or about to be, *)
(* or a softint() is still to look.  siron() is called for the first of a  *)
(* queue only, and siron_pending, which no lock protects, suppresses it    *)
(* for the sake of another CPU's interrupt.                                *)
NoneStranded ==
  softhead # << >> => intr # {} \/ \E p \in CPUs : Looking(p) \/ sir[p] # "out"

(* siron_pending is not left set when the interrupt it stands for has been *)
(* taken: siron() would be without effect for ever.                        *)
PendingIsPosted ==
  siron_pending => intr # {} \/ \E p \in CPUs : cpc[p] = "level1" \/ sir[p] = "post"

(* A request made after the function last started is in the queue: it is   *)
(* not merged into a call that has already begun.                          *)
OwedIsQueued ==
  ~panicstr => \A o \in owed : \/ o[1] \in Queued
                               \/ \E p \in CPUs : cpc[p] = "enter" /\ cur[p] = o[1]

(* Merging keeps the pool from running out: it is enough to have as many   *)
(* structures as there are distinct calls.                                 *)
PoolSuffices == Cardinality(Funcs) <= NSOFTCALLS => ~panicstr

(* The structures are on the queue or on the free list. *)
PoolConserved == softfree + Len(softhead) = NSOFTCALLS

(* A request is followed by a start of its function. *)
RequestIsServed ==
  \A f \in Funcs : \A u \in BOOLEAN : (<<f, u>> \in owed) ~> (<<f, u>> \notin owed \/ panicstr)

=======================================================================
