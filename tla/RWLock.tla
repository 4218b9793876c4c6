---------------------------- MODULE RWLock ----------------------------
(***************************************************************************)
(* Readers-writer locks: sparc/os/rwlock.c (RW_SLEEP), with the turnstile  *)
(* it lends and what is inherited through it (common/os/turnstile.c,       *)
(* tblock_sobj.c, prioinherit.c).                                          *)
(*                                                                         *)
(* holdcnt and writewanted are written under the hashed mutex mp, the      *)
(* turnstile under the disp lock rw_wlock, and a thread on its way to      *)
(* sleep looks at the former with the latter only.  mp is part of the      *)
(* state where it is held from step to step; where a region is all of a    *)
(* step it is only asked to be free.  One lock, which no thread enters     *)
(* that holds it: so its owner is awake, and what it inherits goes no      *)
(* further.  Threads asleep here may themselves be made to inherit through *)
(* something else that they hold.                                          *)
(***************************************************************************)
EXTENDS Integers, FiniteSets, Sequences, SleepQ

CONSTANTS
  Threads,
  Pri,          \* t_pri of each thread
  PiThreads,    \* threads that may inherit through another object...
  OtherPris,    \* ... one of these priorities
  Panics,       \* a panic may happen
  None

ASSUME RWLockAssumption ==
  /\ IsFiniteSet(Threads) /\ None \notin Threads \cup {"R", "W"} /\ Panics \in BOOLEAN
  /\ Pri \in [Threads -> Nat \ {0}] /\ PiThreads \subseteq Threads /\ OtherPris \subseteq Nat \ {0}

VARIABLES
  mp,                       \* who holds RW_MUTEX(lp)
  holdcnt, writewanted, owner,
  waiters,                  \* a turnstile is attached
  rw_wlock,                 \* who holds it
  ts_sleepq,                \* the turnstile's queues of readers and writers
  pi_benef, pi_epri_hi,     \* who inherits through it, and what
  t_epri, t_kpri_req,
  other,                    \* thread -> what it inherits through another object
  pc, rw,                   \* thread -> where it is, what it enters or leaves as
  hold,                     \* thread -> what it was granted
  panicstr

lockvars == <<holdcnt, writewanted, owner>>
pivars == <<pi_benef, pi_epri_hi, t_epri>>
tsvars == <<waiters, ts_sleepq>>
vars == <<mp, lockvars, rw_wlock, tsvars, pivars, t_kpri_req, other, pc, rw, hold, panicstr>>

Modes == {"R", "W"}
Prio == DispPrio(Pri, t_epri)
Queued(t, k) == OnQueue(ts_sleepq[k], t)
Asleep(t) == Queued(t, "R") \/ Queued(t, "W")
Goto(t, l) == pc' = [pc EXCEPT ![t] = l]
Max2(a, b) == IF a >= b THEN a ELSE b

Init ==
  /\ mp = None /\ holdcnt = 0 /\ writewanted = 0 /\ owner = None
  /\ waiters = FALSE /\ rw_wlock = None /\ ts_sleepq = [k \in Modes |-> << >>]
  /\ pi_benef = None /\ pi_epri_hi = 0
  /\ t_epri = [t \in Threads |-> 0] /\ t_kpri_req = [t \in Threads |-> 0]
  /\ other = [t \in Threads |-> 0]
  /\ pc = [t \in Threads |-> "run"] /\ rw = [t \in Threads |-> "R"]
  /\ hold = [t \in Threads |-> None] /\ panicstr = FALSE

-----------------------------------------------------------------------
(* Priority inheritance through the turnstile. *)

(* pi_willto() from a waiter of priority p, on top of the priorities e. *)
Will(p, e) ==
  IF owner = None \/ p <= Pri[owner]
  THEN t_epri' = e /\ UNCHANGED <<pi_benef, pi_epri_hi>>
  ELSE /\ pi_benef' = IF pi_benef = None THEN owner ELSE pi_benef
       /\ pi_epri_hi' = IF pi_benef = None THEN p ELSE Max2(pi_epri_hi, p)
       /\ t_epri' = IF p > DispPrio(Pri, e)[owner] THEN [e EXCEPT ![owner] = p] ELSE e

(* What is left to t of what it inherits, without this turnstile. *)
OtherPri(t) == IF other[t] = 0 THEN 0 ELSE Max2(Pri[t], other[t])

(* pi_waive(), if anybody inherits. *)
Waive ==
  /\ t_epri' = IF pi_benef = None THEN t_epri ELSE [t_epri EXCEPT ![pi_benef] = OtherPri(pi_benef)]
  /\ pi_benef' = None /\ pi_epri_hi' = 0

(* pi_amend() and pi_inheritfrom(): t is to inherit, and nobody else. *)
FirstPris == {Prio[Head(ts_sleepq[k])] : k \in {j \in Modes : ts_sleepq[j] # << >>}}
MaxSleeping == CHOOSE p \in FirstPris \cup {0} : \A q \in FirstPris : p >= q
Amend(t) ==
  LET e == IF pi_benef = None THEN t_epri ELSE [t_epri EXCEPT ![pi_benef] = OtherPri(pi_benef)]
      q == MaxSleeping
  IN
  IF pi_benef = t THEN UNCHANGED pivars
  ELSE IF q > Pri[t]
  THEN /\ pi_benef' = t /\ pi_epri_hi' = q
       /\ t_epri' = IF q > DispPrio(Pri, e)[t] THEN [e EXCEPT ![t] = q] ELSE e
  ELSE pi_benef' = None /\ pi_epri_hi' = 0 /\ t_epri' = e

-----------------------------------------------------------------------
(* The turnstile's queues, without the threads that are woken. *)
FirstWriterOff ==
  [ts_sleepq EXCEPT !["W"] = IF @ = << >> THEN @ ELSE Tail(@)]
AllReadersOff == [ts_sleepq EXCEPT !["R"] = << >>]

(* t_release() and t_release_all(), with tstile_free(): q is left asleep,  *)
(* and the turnstile leaves the lock when it is empty.                     *)
Release(q, waive) ==
  LET empty == \A k \in Modes : q[k] = << >>
  IN  /\ ts_sleepq' = q /\ waiters' = ~empty
      /\ IF waive \/ empty THEN Waive ELSE UNCHANGED pivars
NoRelease == UNCHANGED <<tsvars, pivars>>

-----------------------------------------------------------------------
(* rw_enter() and rw_tryenter(), under mp. *)
ReaderMustWait_Holders == holdcnt < 0
ReaderMustWait == holdcnt < 0 \/ writewanted > 0
MustWait(k) == IF k = "R" THEN ReaderMustWait ELSE holdcnt # 0
Grant(t, k) ==
  /\ holdcnt' = IF k = "R" THEN holdcnt + 1 ELSE -1
  /\ owner' = IF k = "R" /\ owner # None THEN owner ELSE t
  /\ t_kpri_req' = IF k = "R" THEN [t_kpri_req EXCEPT ![t] = @ + 1] ELSE t_kpri_req
  /\ hold' = [hold EXCEPT ![t] = k]

(* The head of either loop; a reader comes back to it. *)
Test(t, k) ==
  /\ \/ /\ MustWait(k)
        /\ writewanted' = IF k = "W" THEN writewanted + 1 ELSE writewanted
        /\ Goto(t, "fail") /\ UNCHANGED <<holdcnt, owner, t_kpri_req, hold>>
     \/ /\ ~MustWait(k)
        /\ Grant(t, k) /\ Goto(t, IF k = "W" THEN "look" ELSE "run")
        /\ UNCHANGED writewanted
RwEnter(t, k) ==
  /\ pc[t] = "run" /\ hold[t] = None /\ mp = None
  /\ rw' = [rw EXCEPT ![t] = k] /\ Test(t, k)
  /\ UNCHANGED <<mp, rw_wlock, tsvars, pivars, other, panicstr>>
RwTryenter(t, k) ==
  /\ pc[t] = "run" /\ hold[t] = None /\ mp = None
  /\ ~MustWait(k) /\ Grant(t, k)
  /\ UNCHANGED <<mp, writewanted, rw_wlock, tsvars, pivars, other, pc, rw, panicstr>>

(* mp is dropped.  A panicking system does not sleep, and writewanted is   *)
(* left as it is; the caller goes on without the lock.                     *)
PanicReturn(t) ==
  /\ pc[t] = "fail" /\ panicstr /\ Goto(t, "lost")
  /\ UNCHANGED <<mp, lockvars, rw_wlock, tsvars, pivars, t_kpri_req, other, rw, hold, panicstr>>
FindTurnstile(t) ==
  /\ pc[t] = "fail" /\ ~panicstr /\ rw_wlock = None
  /\ rw_wlock' = t /\ waiters' = TRUE /\ Goto(t, "recheck")
  /\ UNCHANGED <<mp, lockvars, ts_sleepq, pivars, t_kpri_req, other, rw, hold, panicstr>>

(* The state of the lock is looked at again, with rw_wlock held and mp not. *)
StillMustWait_NoTest(t) == TRUE
StillMustWait(t) == MustWait(rw[t])
Recheck(t) ==
  /\ pc[t] = "recheck"
  /\ \/ /\ StillMustWait(t)
        /\ ts_sleepq' = [ts_sleepq EXCEPT ![rw[t]] = SleepqInsert(@, t, Prio)]
        /\ Goto(t, "pi") /\ UNCHANGED rw_wlock
     \/ /\ ~StillMustWait(t)
        /\ rw_wlock' = None /\ Goto(t, "swtch") /\ UNCHANGED ts_sleepq
  /\ UNCHANGED <<mp, lockvars, waiters, pivars, t_kpri_req, other, rw, hold, panicstr>>
PiWillto(t) ==
  /\ pc[t] = "pi" /\ Will(Prio[t], t_epri)
  /\ rw_wlock' = None /\ Goto(t, "swtch")
  /\ UNCHANGED <<mp, lockvars, tsvars, t_kpri_req, other, rw, hold, panicstr>>

(* Back from swtch(), to mp.  The writer takes its claim back before it    *)
(* looks.                                                                  *)
ReaderAgain(t) ==
  /\ pc[t] = "swtch" /\ rw[t] = "R" /\ ~Asleep(t) /\ mp = None
  /\ Test(t, "R")
  /\ UNCHANGED <<mp, rw_wlock, tsvars, pivars, other, rw, panicstr>>
WriterAgain(t) ==
  /\ pc[t] = "swtch" /\ rw[t] = "W" /\ ~Asleep(t) /\ mp = None
  /\ mp' = t /\ writewanted' = writewanted - 1 /\ Goto(t, "retest")
  /\ UNCHANGED <<holdcnt, owner, rw_wlock, tsvars, pivars, t_kpri_req, other, rw, hold, panicstr>>
WriterRetest(t) ==
  /\ pc[t] = "retest" /\ mp' = None /\ Test(t, "W")
  /\ UNCHANGED <<rw_wlock, tsvars, pivars, other, rw, panicstr>>

(* The new writer inherits from those it finds asleep. *)
LookWaiters(t) ==
  /\ pc[t] = "look" /\ Goto(t, IF waiters THEN "amend" ELSE "run")
  /\ UNCHANGED <<mp, lockvars, rw_wlock, tsvars, pivars, t_kpri_req, other, rw, hold, panicstr>>
AmendWriter(t) ==
  /\ pc[t] = "amend" /\ rw_wlock = None
  /\ IF ts_sleepq["R"] # << >> THEN Amend(t) ELSE UNCHANGED pivars
  /\ Goto(t, "run")
  /\ UNCHANGED <<mp, lockvars, rw_wlock, tsvars, t_kpri_req, other, rw, hold, panicstr>>

-----------------------------------------------------------------------
(* rw_downgrade(): mp is dropped before the turnstile is locked. *)
RwDowngrade(t) ==
  /\ pc[t] = "run" /\ hold[t] = "W" /\ mp = None
  /\ holdcnt' = 1 /\ hold' = [hold EXCEPT ![t] = "R"]
  /\ t_kpri_req' = [t_kpri_req EXCEPT ![t] = @ + 1]
  /\ Goto(t, IF writewanted = 0 THEN "down" ELSE "run")
  /\ UNCHANGED <<mp, writewanted, owner, rw_wlock, tsvars, pivars, other, rw, panicstr>>
DowngradeLook(t) ==
  /\ pc[t] = "down" /\ Goto(t, IF waiters THEN "downrel" ELSE "run")
  /\ UNCHANGED <<mp, lockvars, rw_wlock, tsvars, pivars, t_kpri_req, other, rw, hold, panicstr>>
DowngradeRelease(t) ==
  /\ pc[t] = "downrel" /\ rw_wlock = None
  /\ Release(AllReadersOff, TRUE) /\ Goto(t, "run")
  /\ UNCHANGED <<mp, lockvars, rw_wlock, t_kpri_req, other, rw, hold, panicstr>>

RwTryupgrade(t) ==
  /\ pc[t] = "run" /\ hold[t] = "R" /\ mp = None
  /\ writewanted = 0 /\ holdcnt = 1
  /\ owner' = t /\ holdcnt' = -1 /\ hold' = [hold EXCEPT ![t] = "W"]
  /\ t_kpri_req' = [t_kpri_req EXCEPT ![t] = @ - 1]
  /\ UNCHANGED <<mp, writewanted, rw_wlock, tsvars, pivars, other, pc, rw, panicstr>>

(* rw_exit(): the lock's fields, then the turnstile, all under mp. *)
RwExit(t) ==
  /\ pc[t] = "run" /\ hold[t] # None /\ mp = None /\ mp' = t
  /\ rw' = [rw EXCEPT ![t] = hold[t]] /\ hold' = [hold EXCEPT ![t] = None]
  /\ holdcnt' = IF hold[t] = "W" THEN 0 ELSE holdcnt - 1
  /\ owner' = IF hold[t] = "W" THEN None ELSE owner
  /\ Goto(t, "exit")
  /\ UNCHANGED <<writewanted, rw_wlock, tsvars, pivars, t_kpri_req, other, panicstr>>
WriterWakes_Readers == AllReadersOff
WriterWakes == IF writewanted > 0 THEN FirstWriterOff ELSE AllReadersOff
WriterExit(t) ==
  /\ pc[t] = "exit" /\ rw[t] = "W" /\ rw_wlock = None
  /\ IF waiters THEN Release(WriterWakes, TRUE) ELSE NoRelease
  /\ mp' = None /\ Goto(t, "run")
  /\ UNCHANGED <<lockvars, rw_wlock, t_kpri_req, other, rw, hold, panicstr>>
ReaderExit(t) ==
  /\ pc[t] = "exit" /\ rw[t] = "R" /\ rw_wlock = None
  /\ owner' = IF owner = t THEN None ELSE owner
  /\ IF waiters /\ holdcnt = 0 THEN Release(FirstWriterOff, owner = t)
     ELSE IF waiters /\ owner = t THEN Waive /\ UNCHANGED tsvars
     ELSE NoRelease
  /\ t_kpri_req' = [t_kpri_req EXCEPT ![t] = @ - 1]
  /\ mp' = None /\ Goto(t, "run")
  /\ UNCHANGED <<holdcnt, writewanted, rw_wlock, other, rw, hold, panicstr>>

(* rw_destroy() by the only user, and rw_init() for the next use: an empty *)
(* turnstile may have been left.                                           *)
RwDestroy(t) ==
  /\ pc[t] = "run" /\ hold[t] # "R" /\ ~panicstr
  /\ \A u \in Threads \ {t} : pc[u] = "run" /\ hold[u] = None
  /\ IF waiters THEN Release(ts_sleepq, FALSE) ELSE NoRelease
  /\ holdcnt' = 0 /\ owner' = None /\ writewanted' = 0 /\ hold' = [hold EXCEPT ![t] = None]
  /\ UNCHANGED <<mp, rw_wlock, t_kpri_req, other, pc, rw, panicstr>>

-----------------------------------------------------------------------
(* pi_willto() comes along a chain to a thread asleep here, through        *)
(* reader_changepri() or writer_changepri(), and on to the owner; later    *)
(* the thread gives the other object up.                                   *)
Requeue_InPlace(q, t, e) == q
Requeue(q, t, e) == SleepqInsert(SleepqDequeue(q, t), t, DispPrio(Pri, e))
ChangePri(t, p) ==
  LET e == [t_epri EXCEPT ![t] = p] IN
  /\ t \in PiThreads /\ Asleep(t) /\ rw_wlock = None /\ other[t] = 0 /\ p > Prio[t]
  /\ other' = [other EXCEPT ![t] = p]
  /\ ts_sleepq' = [ts_sleepq EXCEPT ![rw[t]] = Requeue(@, t, e)]
  /\ Will(p, e)
  /\ UNCHANGED <<mp, lockvars, waiters, rw_wlock, t_kpri_req, pc, rw, hold, panicstr>>
OtherWaived(t) ==
  /\ other[t] # 0 /\ pc[t] = "run"
  /\ other' = [other EXCEPT ![t] = 0]
  /\ t_epri' = [t_epri EXCEPT ![t] = IF pi_benef = t THEN Max2(Pri[t], pi_epri_hi) ELSE 0]
  /\ UNCHANGED <<mp, lockvars, rw_wlock, tsvars, pi_benef, pi_epri_hi, t_kpri_req, pc, rw, hold, panicstr>>

Panic ==
  /\ Panics /\ ~panicstr /\ panicstr' = TRUE
  /\ UNCHANGED <<mp, lockvars, rw_wlock, tsvars, pivars, t_kpri_req, other, pc, rw, hold>>

-----------------------------------------------------------------------
(* One step of a call that is under way. *)
Step(t) ==
  \/ PanicReturn(t) \/ FindTurnstile(t) \/ Recheck(t) \/ PiWillto(t)
  \/ ReaderAgain(t) \/ WriterAgain(t) \/ WriterRetest(t) \/ LookWaiters(t) \/ AmendWriter(t)
  \/ DowngradeLook(t) \/ DowngradeRelease(t) \/ WriterExit(t) \/ ReaderExit(t)
Call(t) ==
  \/ \E k \in Modes : RwEnter(t, k) \/ RwTryenter(t, k)
  \/ RwDowngrade(t) \/ RwTryupgrade(t) \/ RwExit(t) \/ RwDestroy(t)
Next ==
  \/ \E t \in Threads : Call(t) \/ Step(t) \/ OtherWaived(t) \/ (\E p \in OtherPris : ChangePri(t, p))
  \/ Panic

Spec == Init /\ [][Next]_vars

(* Threads are scheduled, mp and rw_wlock are held for a few instructions  *)
(* and not kept for ever from one that wants them, and who has the lock    *)
(* gives it back.                                                          *)
Fairness == \A t \in Threads : SF_vars(Step(t)) /\ SF_vars(RwExit(t))
FairSpec == Spec /\ Fairness

-----------------------------------------------------------------------
PCs == {"run", "fail", "recheck", "pi", "swtch", "retest", "look", "amend", "down", "downrel",
        "exit", "lost"}

TypeOK ==
  /\ mp \in Threads \cup {None} /\ holdcnt \in Nat \cup {-1} /\ writewanted \in Nat
  /\ owner \in Threads \cup {None} /\ rw_wlock \in Threads \cup {None}
  /\ waiters \in BOOLEAN /\ ts_sleepq \in [Modes -> Seq(Threads)]
  /\ pi_benef \in Threads \cup {None} /\ pi_epri_hi \in Nat
  /\ t_epri \in [Threads -> Nat] /\ t_kpri_req \in [Threads -> Nat] /\ other \in [Threads -> OtherPris \cup {0}]
  /\ pc \in [Threads -> PCs] /\ rw \in [Threads -> Modes] /\ hold \in [Threads -> Modes \cup {None}]
  /\ panicstr \in BOOLEAN

Wanting == {t \in Threads : rw[t] = "W" /\ pc[t] \in {"fail", "recheck", "pi", "swtch"}}
Holders(k) == {t \in Threads : hold[t] = k}

(* The fields agree with who has been granted what and who waits: holdcnt, *)
(* writewanted, the owner of record, and the kernel priority that readers, *)
(* and only they, ask for; rw_downgrade() and rw_tryupgrade() move it.     *)
(* While nobody uses the lock no turnstile is left on it.                  *)
FieldsSound ==
  ~panicstr =>
    /\ holdcnt = IF Holders("W") # {} THEN -1 ELSE Cardinality(Holders("R"))
    /\ writewanted = Cardinality(Wanting)
    /\ Holders("W") # {} => Holders("W") = {owner} /\ Holders("R") = {}
    /\ owner # None => hold[owner] # None \/ pc[owner] = "exit"
    /\ \A t \in Threads : t_kpri_req[t] = IF hold[t] = "R" \/ (pc[t] = "exit" /\ rw[t] = "R") THEN 1 ELSE 0
    /\ (\A t \in Threads : pc[t] = "run" /\ hold[t] = None) => ~waiters

(* The turnstile: whoever is on a queue sleeps for the lock in that mode,  *)
(* in the order of priority; the lock has a turnstile while anybody sleeps *)
(* and while rw_downgrade() or a new writer, which saw one before they     *)
(* locked it, is about to use it; who inherits through it owns the lock.   *)
TurnstileSound ==
  /\ \A k \in Modes : /\ Distinct(ts_sleepq[k]) /\ InOrder(ts_sleepq[k], Prio)
                      /\ \A t \in Sleepers(ts_sleepq[k]) : rw[t] = k /\ pc[t] \in {"pi", "swtch"}
  /\ (\E t \in Threads : Asleep(t) \/ pc[t] \in {"amend", "downrel"}) => waiters
  /\ pi_benef # None => pi_benef = owner \/ (pc[pi_benef] = "exit" /\ mp = pi_benef)

(* A sleeping reader waits for a writer that has the lock or has asked for *)
(* it, a sleeping writer for a lock that is held; or else one that is      *)
(* awake is about to wake it or to take its turn.  writewanted counts      *)
(* writers that are not on the queue yet, and rw_downgrade() looks at the  *)
(* turnstile after it has let go of mp.                                    *)
NoLostWakeup ==
  ~panicstr =>
    /\ (\E t \in Threads : Queued(t, "R")) =>
         \/ ReaderMustWait
         \/ \E u \in Threads : pc[u] \in {"retest", "down", "downrel"} \/ (pc[u] = "exit" /\ rw[u] = "W")
    /\ (\E t \in Threads : Queued(t, "W")) =>
         \/ holdcnt # 0
         \/ \E u \in Threads : pc[u] \in {"retest", "exit"} \/ (u \in Wanting /\ ~Asleep(u))

(* What AbstractRWLock sees, until a panic: in it a writer keeps its claim  *)
(* while it looks at the lock again.                                       *)
ReadersNow == {t \in Threads : ~panicstr /\ hold[t] = "R"}
WritersNow == {t \in Threads : ~panicstr /\ hold[t] = "W"}
WantingNow == {t \in Threads : ~panicstr /\ (t \in Wanting \/ pc[t] = "retest")}

(* rwlock.c implements the readers-writer lock of AbstractRWLock: many     *)
(* readers or one writer, and no reader enters over a writer that has      *)
(* asked.                                                                  *)
Abstract == INSTANCE AbstractRWLock WITH
  readers <- ReadersNow, writers <- WritersNow, wanting <- WantingNow, crashed <- panicstr
ImplementsAbstractRWLock == Abstract!Spec

(* No thread of the highest priority sleeps as a writer for ever, and none *)
(* as a reader when writers stop asking; until a panic.                    *)
Top == {t \in Threads : \A u \in Threads : Pri[t] >= Pri[u]}
WaiterIsWoken ==
  \A t \in Top :
    /\ Queued(t, "W") ~> (~Queued(t, "W") \/ panicstr)
    /\ <>[](writewanted = 0) => (Queued(t, "R") ~> (~Queued(t, "R") \/ panicstr))

(* The lock, its turnstile and its readers' kernel priority agree at every *)
(* step of rw_enter(), rw_exit(), rw_downgrade(), rw_tryupgrade() and of a *)
(* change of a sleeper's priority: TypeOK, FieldsSound and TurnstileSound. *)
LockSound == TypeOK /\ FieldsSound /\ TurnstileSound
=======================================================================
