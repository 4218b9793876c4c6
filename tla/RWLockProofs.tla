------------------------- MODULE RWLockProofs -------------------------
(***************************************************************************)
(* What is proved of the readers-writer locks, for every set of threads    *)
(* and every assignment of priorities.                                     *)
(***************************************************************************)
EXTENDS RWLock, SleepQProofs, TLAPS

(* Where a thread is and what it holds: the mutex mp and the disp lock     *)
(* rw_wlock are held at these places and nowhere else.                     *)
PlaceOK(t) ==
  /\ pc[t] \in {"look", "amend"} => hold[t] = "W"
  /\ pc[t] \in {"down", "downrel"} => hold[t] = "R"
  /\ hold[t] # None => pc[t] \in {"run", "look", "amend", "down", "downrel"}
  /\ pc[t] = "retest" => rw[t] = "W"
  /\ mp = t <=> pc[t] \in {"retest", "exit"}
  /\ rw_wlock = t <=> pc[t] \in {"recheck", "pi"}
  /\ pc[t] = "lost" => panicstr

(* A reader asks for a kernel priority until it has left rw_exit(). *)
KpriOK(t) == t_kpri_req[t] = IF hold[t] = "R" \/ (pc[t] = "exit" /\ rw[t] = "R") THEN 1 ELSE 0

(* Writers that writewanted counts: those that a panic stopped do not take *)
(* back their claim.                                                       *)
Claiming(t) == rw[t] = "W" /\ pc[t] \in {"fail", "recheck", "pi", "swtch", "lost"}
Claimants == {t \in Threads : Claiming(t)}

CountOK ==
  /\ (\E t \in Threads : hold[t] = "W") => holdcnt = -1
  /\ (\A t \in Threads : hold[t] # "W") => holdcnt = Cardinality(Holders("R"))
  /\ writewanted = Cardinality(Claimants)

OwnerOK ==
  /\ \A t \in Threads : hold[t] = "W" => owner = t
  /\ \A t, u \in Threads : hold[t] = "W" => hold[u] # "R"
  /\ owner # None => hold[owner] # None \/ (pc[owner] = "exit" /\ rw[owner] = "R")
  /\ \A t \in Threads : pc[t] = "exit" /\ rw[t] = "W" => holdcnt = 0
  /\ \A t, u \in Threads : pc[t] \in {"down", "downrel"} /\ pc[u] \in {"down", "downrel"} => t = u

(* The turnstile. *)
QueueOK(k) ==
  /\ Distinct(ts_sleepq[k]) /\ InOrder(ts_sleepq[k], Prio)
  /\ \A t \in Threads : Queued(t, k) => rw[t] = k /\ pc[t] \in {"pi", "swtch"}
AttachedOK ==
  /\ \A t \in Threads : pc[t] = "pi" => Queued(t, rw[t])
  /\ \A t \in Threads : Asleep(t) \/ pc[t] \in {"recheck", "amend", "downrel"} => waiters
  /\ waiters => \E t \in Threads : pc[t] # "run" \/ hold[t] # None
BenefOK ==
  pi_benef # None => /\ waiters
                     /\ pi_benef = owner \/ (pc[pi_benef] = "exit" /\ rw[pi_benef] = "W")

Inv ==
  /\ TypeOK
  /\ \A t \in Threads : PlaceOK(t)
  /\ \A t \in Threads : KpriOK(t)
  /\ CountOK
  /\ OwnerOK
  /\ \A k \in Modes : QueueOK(k)
  /\ AttachedOK
  /\ BenefOK

-----------------------------------------------------------------------
(* What the invariant says of the types, as the provers use it. *)
LEMMA Typing ==
  ASSUME Inv
  PROVE  /\ pc \in [Threads -> PCs] /\ rw \in [Threads -> Modes] /\ hold \in [Threads -> Modes \cup {None}]
         /\ t_kpri_req \in [Threads -> Nat] /\ t_epri \in [Threads -> Nat]
         /\ DOMAIN pc = Threads /\ DOMAIN rw = Threads /\ DOMAIN hold = Threads
         /\ DOMAIN t_kpri_req = Threads /\ DOMAIN t_epri = Threads
         /\ holdcnt \in Int /\ writewanted \in Nat /\ None \notin Threads /\ None \notin {"R", "W"}
         /\ ts_sleepq["R"] \in Seq(Threads) /\ ts_sleepq["W"] \in Seq(Threads) /\ DOMAIN ts_sleepq = Modes
         /\ IsFiniteSet(Threads) /\ "R" \in Modes /\ "W" \in Modes
BY RWLockAssumption DEF Inv, TypeOK, Modes

(* The readers can be counted. *)
LEMMA ReadersFinite ==
  IsFiniteSet(Holders("R")) /\ Cardinality(Holders("R")) \in Nat
BY RWLockAssumption, FS_Subset, FS_CardinalityType DEF Holders

(* holdcnt tells who holds the lock. *)
LEMMA HoldFacts ==
  ASSUME Inv
  PROVE  /\ holdcnt = 0 <=> \A t \in Threads : hold[t] = None
         /\ holdcnt < 0 <=> \E t \in Threads : hold[t] = "W"
         /\ \A t \in Threads : hold[t] = "R" => holdcnt >= 1
         /\ holdcnt = 1 => \A t, u \in Threads : hold[t] = "R" /\ hold[u] = "R" => t = u
<1>0. IsFiniteSet(Holders("R")) /\ Cardinality(Holders("R")) \in Nat
  BY ReadersFinite
<1>1. Cardinality(Holders("R")) = 0 <=> \A t \in Threads : hold[t] # "R"
  <2>1. Cardinality(Holders("R")) = 0 <=> Holders("R") = {}
    BY <1>0, FS_EmptySet
  <2> QED
    BY <2>1 DEF Holders
<1>2. Cardinality(Holders("R")) = 1 => \A t, u \in Threads : hold[t] = "R" /\ hold[u] = "R" => t = u
  <2>1. SUFFICES ASSUME Cardinality(Holders("R")) = 1, NEW t \in Threads, NEW u \in Threads, hold[t] = "R", hold[u] = "R"
                 PROVE  t = u
    OBVIOUS
  <2>2. \E x : Holders("R") = {x}
    BY <1>0, <2>1, FS_Singleton
  <2>3. t \in Holders("R") /\ u \in Holders("R")
    BY <2>1 DEF Holders
  <2> QED
    BY <2>2, <2>3
<1>3. CASE \E t \in Threads : hold[t] = "W"
  BY <1>3, Typing DEF Inv, CountOK, OwnerOK
<1>4. CASE \A t \in Threads : hold[t] # "W"
  BY <1>0, <1>1, <1>2, <1>4, Typing DEF Inv, CountOK, Modes
<1> QED
  BY <1>3, <1>4

(* writewanted tells whether a writer has asked. *)
LEMMA ClaimFacts ==
  ASSUME Inv
  PROVE  /\ IsFiniteSet(Claimants) /\ Cardinality(Claimants) \in Nat
         /\ writewanted > 0 <=> \E t \in Threads : Claiming(t)
<1>1. IsFiniteSet(Claimants) /\ Cardinality(Claimants) \in Nat
  BY RWLockAssumption, FS_Subset, FS_CardinalityType DEF Claimants
<1>2. Cardinality(Claimants) = 0 <=> Claimants = {}
  BY <1>1, FS_EmptySet
<1> QED
  BY <1>1, <1>2 DEF Claimants, Inv, CountOK

(* How a step of t changes the number of readers and of claims. *)
Bit(b) == IF b THEN 1 ELSE 0

(* A step of t changes the number of readers by what t itself gains or     *)
(* gives up.                                                               *)
LEMMA ReadersStep ==
  ASSUME NEW t \in Threads, \A u \in Threads \ {t} : hold'[u] = hold[u]
  PROVE  /\ Cardinality(Holders("R")') \in Nat /\ Cardinality(Holders("R")) \in Nat
         /\ Cardinality(Holders("R")') = Cardinality(Holders("R")) + Bit(hold'[t] = "R") - Bit(hold[t] = "R")
<1>0. IsFiniteSet(Holders("R")) /\ Cardinality(Holders("R")) \in Nat
  BY ReadersFinite
<1>1. CASE hold'[t] = "R" <=> hold[t] = "R"
  <2>1. Holders("R")' = Holders("R")
    BY <1>1 DEF Holders
  <2> QED
    BY <1>0, <1>1, <2>1 DEF Bit
<1>2. CASE hold'[t] = "R" /\ hold[t] # "R"
  <2>1. t \notin Holders("R") /\ \A u : u \in Holders("R")' <=> (u \in Holders("R") \/ u = t)
    BY <1>2 DEF Holders
  <2>2. Cardinality(Holders("R")') = Cardinality(Holders("R")) + 1
    BY <1>0, <2>1, CardAdd
  <2> QED
    BY <1>0, <1>2, <2>2 DEF Bit
<1>3. CASE hold'[t] # "R" /\ hold[t] = "R"
  <2>1. t \in Holders("R") /\ \A u : u \in Holders("R")' <=> (u \in Holders("R") /\ u # t)
    BY <1>3 DEF Holders
  <2>2. IsFiniteSet(Holders("R")') /\ Cardinality(Holders("R")') = Cardinality(Holders("R")) - 1
    BY <1>0, <2>1, CardRemove
  <2>3. Cardinality(Holders("R")') \in Nat
    BY <2>2, FS_CardinalityType
  <2> QED
    BY <1>0, <1>3, <2>2, <2>3 DEF Bit
<1> QED
  BY <1>1, <1>2, <1>3

(* The same for the writers that have asked. *)
LEMMA ClaimsStep ==
  ASSUME Inv, NEW t \in Threads, \A u \in Threads \ {t} : Claiming(u)' <=> Claiming(u)
  PROVE  /\ Cardinality(Claimants') \in Nat /\ Cardinality(Claimants) \in Nat
         /\ Cardinality(Claimants') = Cardinality(Claimants) + Bit(Claiming(t)') - Bit(Claiming(t))
<1>0. IsFiniteSet(Claimants) /\ Cardinality(Claimants) \in Nat
  BY ClaimFacts
<1>1. CASE Claiming(t)' <=> Claiming(t)
  <2>1. Claimants' = Claimants
    BY <1>1 DEF Claimants
  <2> QED
    BY <1>0, <1>1, <2>1 DEF Bit
<1>2. CASE Claiming(t)' /\ ~Claiming(t)
  <2>1. t \notin Claimants /\ \A u : u \in Claimants' <=> (u \in Claimants \/ u = t)
    BY <1>2 DEF Claimants
  <2>2. Cardinality(Claimants') = Cardinality(Claimants) + 1
    BY <1>0, <2>1, CardAdd
  <2> QED
    BY <1>0, <1>2, <2>2 DEF Bit
<1>3. CASE ~Claiming(t)' /\ Claiming(t)
  <2>1. t \in Claimants /\ \A u : u \in Claimants' <=> (u \in Claimants /\ u # t)
    BY <1>3 DEF Claimants
  <2>2. IsFiniteSet(Claimants') /\ Cardinality(Claimants') = Cardinality(Claimants) - 1
    BY <1>0, <2>1, CardRemove
  <2>3. Cardinality(Claimants') \in Nat
    BY <2>2, FS_CardinalityType
  <2> QED
    BY <1>0, <1>3, <2>2, <2>3 DEF Bit
<1> QED
  BY <1>1, <1>2, <1>3

-----------------------------------------------------------------------
(* The head of rw_enter()'s loop sends t to sleep or gives it the lock. *)
Waits(t, k) ==
  /\ MustWait(k) /\ writewanted' = (IF k = "W" THEN writewanted + 1 ELSE writewanted)
  /\ pc' = [pc EXCEPT ![t] = "fail"] /\ holdcnt' = holdcnt /\ owner' = owner /\ hold' = hold
  /\ t_kpri_req' = t_kpri_req
Enters(t, k) ==
  /\ ~MustWait(k) /\ writewanted' = writewanted
  /\ pc' = [pc EXCEPT ![t] = IF k = "W" THEN "look" ELSE "run"] /\ Grant(t, k)

(* The head of the loop does one or the other. *)
LEMMA TestCases ==
  ASSUME NEW t, NEW k, Test(t, k)
  PROVE  Waits(t, k) \/ Enters(t, k)
BY DEF Test, Waits, Enters, Goto

(* Each step leaves every thread at a place that agrees with what it holds. *)
LEMMA PlaceNext ==
  ASSUME Inv, NEW t \in Threads, Call(t) \/ Step(t)
  PROVE  \A u \in Threads : PlaceOK(u)'
<1>0. (\A u \in Threads : PlaceOK(u)) /\ (mp = None \/ mp \in Threads)
  BY DEF Inv, TypeOK
<1>1. ASSUME NEW k \in Modes, RwEnter(t, k) PROVE \A u \in Threads : PlaceOK(u)'
  <2>1. Waits(t, k) \/ Enters(t, k)
    BY <1>1, TestCases DEF RwEnter
  <2>2. CASE Waits(t, k)
    BY <1>1, <2>2, <1>0, Typing DEF RwEnter, Waits, PlaceOK
  <2>3. CASE Enters(t, k)
    BY <1>1, <2>3, <1>0, Typing DEF RwEnter, Enters, Grant, PlaceOK
  <2> QED
    BY <2>1, <2>2, <2>3
<1>2. ASSUME NEW k \in Modes, RwTryenter(t, k) PROVE \A u \in Threads : PlaceOK(u)'
  BY <1>2, <1>0, Typing DEF RwTryenter, Grant, Goto, PlaceOK
<1>3. CASE RwDowngrade(t)
  BY <1>3, <1>0, Typing DEF RwDowngrade, Goto, PlaceOK
<1>4. CASE RwTryupgrade(t)
  BY <1>4, <1>0, Typing DEF RwTryupgrade, Goto, PlaceOK
<1>5. CASE RwExit(t)
  BY <1>5, <1>0, Typing DEF RwExit, Goto, PlaceOK
<1>6. CASE RwDestroy(t)
  BY <1>6, <1>0, Typing DEF RwDestroy, Goto, PlaceOK
<1>7. CASE PanicReturn(t)
  BY <1>7, <1>0, Typing DEF PanicReturn, Goto, PlaceOK
<1>8. CASE FindTurnstile(t)
  BY <1>8, <1>0, Typing DEF FindTurnstile, Goto, PlaceOK
<1>9. CASE Recheck(t)
  BY <1>9, <1>0, Typing DEF Recheck, Goto, PlaceOK
<1>10. CASE PiWillto(t)
  BY <1>10, <1>0, Typing DEF PiWillto, Goto, PlaceOK
<1>11. CASE ReaderAgain(t)
  <2>1. Waits(t, "R") \/ Enters(t, "R")
    BY <1>11, TestCases DEF ReaderAgain
  <2>2. CASE Waits(t, "R")
    BY <1>11, <2>2, <1>0, Typing DEF ReaderAgain, Waits, PlaceOK
  <2>3. CASE Enters(t, "R")
    BY <1>11, <2>3, <1>0, Typing DEF ReaderAgain, Enters, Grant, PlaceOK
  <2> QED
    BY <2>1, <2>2, <2>3
<1>12. CASE WriterAgain(t)
  BY <1>12, <1>0, Typing DEF WriterAgain, Goto, PlaceOK
<1>13. CASE WriterRetest(t)
  <2>1. Waits(t, "W") \/ Enters(t, "W")
    BY <1>13, TestCases DEF WriterRetest
  <2>2. CASE Waits(t, "W")
    BY <1>13, <2>2, <1>0, Typing DEF WriterRetest, Waits, PlaceOK
  <2>3. CASE Enters(t, "W")
    BY <1>13, <2>3, <1>0, Typing DEF WriterRetest, Enters, Grant, PlaceOK
  <2> QED
    BY <2>1, <2>2, <2>3
<1>14. CASE LookWaiters(t)
  BY <1>14, <1>0, Typing DEF LookWaiters, Goto, PlaceOK
<1>15. CASE AmendWriter(t)
  BY <1>15, <1>0, Typing DEF AmendWriter, Goto, PlaceOK
<1>16. CASE DowngradeLook(t)
  BY <1>16, <1>0, Typing DEF DowngradeLook, Goto, PlaceOK
<1>17. CASE DowngradeRelease(t)
  BY <1>17, <1>0, Typing DEF DowngradeRelease, Goto, PlaceOK
<1>18. CASE WriterExit(t)
  BY <1>18, <1>0, Typing DEF WriterExit, Goto, PlaceOK
<1>19. CASE ReaderExit(t)
  BY <1>19, <1>0, Typing DEF ReaderExit, Goto, PlaceOK
<1> QED
  BY <1>1, <1>2, <1>3, <1>4, <1>5, <1>6, <1>7, <1>8, <1>9, <1>10, <1>11, <1>12, <1>13, <1>14, <1>15, <1>16, <1>17, <1>18, <1>19 DEF Call, Step

(* A reader, and nobody else, asks for a kernel priority. *)
LEMMA KpriNext ==
  ASSUME Inv, NEW t \in Threads, Call(t) \/ Step(t)
  PROVE  t_kpri_req' \in [Threads -> Nat] /\ \A u \in Threads : KpriOK(u)'
<1>0. \A u \in Threads : PlaceOK(u) /\ KpriOK(u)
  BY DEF Inv
<1>1. ASSUME NEW k \in Modes, RwEnter(t, k) PROVE t_kpri_req' \in [Threads -> Nat] /\ \A u \in Threads : KpriOK(u)'
  <2>1. Waits(t, k) \/ Enters(t, k)
    BY <1>1, TestCases DEF RwEnter
  <2>2. CASE Waits(t, k)
    BY <1>1, <2>2, <1>0, Typing DEF RwEnter, Waits, PlaceOK, KpriOK
  <2>3. CASE Enters(t, k)
    BY <1>1, <2>3, <1>0, Typing DEF RwEnter, Enters, Grant, PlaceOK, KpriOK
  <2> QED
    BY <2>1, <2>2, <2>3
<1>2. ASSUME NEW k \in Modes, RwTryenter(t, k) PROVE t_kpri_req' \in [Threads -> Nat] /\ \A u \in Threads : KpriOK(u)'
  BY <1>2, <1>0, Typing DEF RwTryenter, Grant, Goto, PlaceOK, KpriOK
<1>3. CASE RwDowngrade(t)
  BY <1>3, <1>0, Typing DEF RwDowngrade, Goto, PlaceOK, KpriOK
<1>4. CASE RwTryupgrade(t)
  BY <1>4, <1>0, Typing DEF RwTryupgrade, Goto, PlaceOK, KpriOK
<1>5. CASE RwExit(t)
  BY <1>5, <1>0, Typing DEF RwExit, Goto, PlaceOK, KpriOK
<1>6. CASE RwDestroy(t)
  BY <1>6, <1>0, Typing DEF RwDestroy, Goto, PlaceOK, KpriOK
<1>7. CASE PanicReturn(t)
  BY <1>7, <1>0, Typing DEF PanicReturn, Goto, PlaceOK, KpriOK
<1>8. CASE FindTurnstile(t)
  BY <1>8, <1>0, Typing DEF FindTurnstile, Goto, PlaceOK, KpriOK
<1>9. CASE Recheck(t)
  BY <1>9, <1>0, Typing DEF Recheck, Goto, PlaceOK, KpriOK
<1>10. CASE PiWillto(t)
  BY <1>10, <1>0, Typing DEF PiWillto, Goto, PlaceOK, KpriOK
<1>11. CASE ReaderAgain(t)
  <2>1. Waits(t, "R") \/ Enters(t, "R")
    BY <1>11, TestCases DEF ReaderAgain
  <2>2. CASE Waits(t, "R")
    BY <1>11, <2>2, <1>0, Typing DEF ReaderAgain, Waits, PlaceOK, KpriOK
  <2>3. CASE Enters(t, "R")
    <3>1. t_kpri_req[t] = 0
      BY <1>11, <1>0, Typing DEF ReaderAgain, PlaceOK, KpriOK
    <3>2. /\ t_kpri_req' = [t_kpri_req EXCEPT ![t] = 1] /\ hold' = [hold EXCEPT ![t] = "R"]
          /\ pc' = [pc EXCEPT ![t] = "run"] /\ rw' = rw
      BY <1>11, <2>3, <3>1, Typing DEF ReaderAgain, Enters, Grant
    <3> QED
      BY <3>1, <3>2, <1>0, Typing DEF KpriOK
  <2> QED
    BY <2>1, <2>2, <2>3
<1>12. CASE WriterAgain(t)
  BY <1>12, <1>0, Typing DEF WriterAgain, Goto, PlaceOK, KpriOK
<1>13. CASE WriterRetest(t)
  <2>1. Waits(t, "W") \/ Enters(t, "W")
    BY <1>13, TestCases DEF WriterRetest
  <2>2. CASE Waits(t, "W")
    BY <1>13, <2>2, <1>0, Typing DEF WriterRetest, Waits, PlaceOK, KpriOK
  <2>3. CASE Enters(t, "W")
    BY <1>13, <2>3, <1>0, Typing DEF WriterRetest, Enters, Grant, PlaceOK, KpriOK
  <2> QED
    BY <2>1, <2>2, <2>3
<1>14. CASE LookWaiters(t)
  BY <1>14, <1>0, Typing DEF LookWaiters, Goto, PlaceOK, KpriOK
<1>15. CASE AmendWriter(t)
  BY <1>15, <1>0, Typing DEF AmendWriter, Goto, PlaceOK, KpriOK
<1>16. CASE DowngradeLook(t)
  BY <1>16, <1>0, Typing DEF DowngradeLook, Goto, PlaceOK, KpriOK
<1>17. CASE DowngradeRelease(t)
  BY <1>17, <1>0, Typing DEF DowngradeRelease, Goto, PlaceOK, KpriOK
<1>18. CASE WriterExit(t)
  BY <1>18, <1>0, Typing DEF WriterExit, Goto, PlaceOK, KpriOK
<1>19. CASE ReaderExit(t)
  <2>1. t_kpri_req[t] = 1 /\ hold[t] # "R"
    BY <1>19, <1>0, Typing DEF ReaderExit, PlaceOK, KpriOK
  <2>2. t_kpri_req' = [t_kpri_req EXCEPT ![t] = 0] /\ pc' = [pc EXCEPT ![t] = "run"] /\ hold' = hold /\ rw' = rw
    BY <1>19, <2>1, Typing DEF ReaderExit, Goto
  <2> QED
    BY <2>1, <2>2, <1>0, Typing DEF KpriOK
<1> QED
  BY <1>1, <1>2, <1>3, <1>4, <1>5, <1>6, <1>7, <1>8, <1>9, <1>10, <1>11, <1>12, <1>13, <1>14, <1>15, <1>16, <1>17, <1>18, <1>19 DEF Call, Step

(* writewanted counts the claims: a step of t changes it by what it        *)
(* changes of t's own.                                                     *)
LEMMA WantedNext ==
  ASSUME Inv, NEW t \in Threads, Call(t) \/ Step(t)
  PROVE  writewanted' \in Nat /\ writewanted' = Cardinality(Claimants')
<1>0. writewanted = Cardinality(Claimants) /\ \A u \in Threads : PlaceOK(u)
  BY DEF Inv, CountOK
<1> DEFINE Moved == /\ \A u \in Threads \ {t} : pc'[u] = pc[u] /\ rw'[u] = rw[u]
                    /\ writewanted' = writewanted + Bit(Claiming(t)') - Bit(Claiming(t))
<1>1. ASSUME NEW k \in Modes, RwEnter(t, k) PROVE Moved
  <2>1. Waits(t, k) \/ Enters(t, k)
    BY <1>1, TestCases DEF RwEnter
  <2>2. CASE Waits(t, k)
    BY <1>1, <2>2, <1>0, Typing DEF RwEnter, Waits, Claiming, Bit, PlaceOK, Modes
  <2>3. CASE Enters(t, k)
    BY <1>1, <2>3, <1>0, Typing DEF RwEnter, Enters, Grant, Claiming, Bit, PlaceOK
  <2> QED
    BY <2>1, <2>2, <2>3
<1>2. ASSUME NEW k \in Modes, RwTryenter(t, k) PROVE Moved
  BY <1>2, <1>0, Typing DEF RwTryenter, Grant, Goto, lockvars, Claiming, Bit, PlaceOK
<1>3. ASSUME RwDowngrade(t) PROVE Moved
  BY <1>3, <1>0, Typing DEF RwDowngrade, Goto, lockvars, Claiming, Bit, PlaceOK
<1>4. ASSUME RwTryupgrade(t) PROVE Moved
  BY <1>4, <1>0, Typing DEF RwTryupgrade, Goto, lockvars, Claiming, Bit, PlaceOK
<1>5. ASSUME RwExit(t) PROVE Moved
  BY <1>5, <1>0, Typing DEF RwExit, Goto, lockvars, Claiming, Bit, PlaceOK
<1>6. ASSUME RwDestroy(t) PROVE Moved
  <2>1. ~\E u \in Threads : Claiming(u)
    BY <1>6 DEF RwDestroy, Claiming
  <2>2. writewanted = 0
    BY <2>1, ClaimFacts, Typing
  <2> QED
    BY <1>6, <2>1, <2>2 DEF RwDestroy, Claiming, Bit
<1>7. ASSUME PanicReturn(t) PROVE Moved
  BY <1>7, <1>0, Typing DEF PanicReturn, Goto, lockvars, Claiming, Bit, PlaceOK
<1>8. ASSUME FindTurnstile(t) PROVE Moved
  BY <1>8, <1>0, Typing DEF FindTurnstile, Goto, lockvars, Claiming, Bit, PlaceOK
<1>9. ASSUME Recheck(t) PROVE Moved
  BY <1>9, <1>0, Typing DEF Recheck, Goto, lockvars, Claiming, Bit, PlaceOK
<1>10. ASSUME PiWillto(t) PROVE Moved
  BY <1>10, <1>0, Typing DEF PiWillto, Goto, lockvars, Claiming, Bit, PlaceOK
<1>11. ASSUME ReaderAgain(t) PROVE Moved
  <2>1. Waits(t, "R") \/ Enters(t, "R")
    BY <1>11, TestCases DEF ReaderAgain
  <2>2. CASE Waits(t, "R")
    BY <1>11, <2>2, <1>0, Typing DEF ReaderAgain, Waits, Claiming, Bit, PlaceOK, Modes
  <2>3. CASE Enters(t, "R")
    BY <1>11, <2>3, <1>0, Typing DEF ReaderAgain, Enters, Grant, Claiming, Bit, PlaceOK
  <2> QED
    BY <2>1, <2>2, <2>3
<1>12. ASSUME WriterAgain(t) PROVE Moved
  BY <1>12, <1>0, Typing DEF WriterAgain, Goto, lockvars, Claiming, Bit, PlaceOK
<1>13. ASSUME WriterRetest(t) PROVE Moved
  <2>1. Waits(t, "W") \/ Enters(t, "W")
    BY <1>13, TestCases DEF WriterRetest
  <2>2. CASE Waits(t, "W")
    BY <1>13, <2>2, <1>0, Typing DEF WriterRetest, Waits, Claiming, Bit, PlaceOK, Modes
  <2>3. CASE Enters(t, "W")
    BY <1>13, <2>3, <1>0, Typing DEF WriterRetest, Enters, Grant, Claiming, Bit, PlaceOK
  <2> QED
    BY <2>1, <2>2, <2>3
<1>14. ASSUME LookWaiters(t) PROVE Moved
  BY <1>14, <1>0, Typing DEF LookWaiters, Goto, lockvars, Claiming, Bit, PlaceOK
<1>15. ASSUME AmendWriter(t) PROVE Moved
  BY <1>15, <1>0, Typing DEF AmendWriter, Goto, lockvars, Claiming, Bit, PlaceOK
<1>16. ASSUME DowngradeLook(t) PROVE Moved
  BY <1>16, <1>0, Typing DEF DowngradeLook, Goto, lockvars, Claiming, Bit, PlaceOK
<1>17. ASSUME DowngradeRelease(t) PROVE Moved
  BY <1>17, <1>0, Typing DEF DowngradeRelease, Goto, lockvars, Claiming, Bit, PlaceOK
<1>18. ASSUME WriterExit(t) PROVE Moved
  BY <1>18, <1>0, Typing DEF WriterExit, Goto, lockvars, Claiming, Bit, PlaceOK
<1>19. ASSUME ReaderExit(t) PROVE Moved
  BY <1>19, <1>0, Typing DEF ReaderExit, Goto, lockvars, Claiming, Bit, PlaceOK
<1>20. Moved
  BY <1>1, <1>2, <1>3, <1>4, <1>5, <1>6, <1>7, <1>8, <1>9, <1>10, <1>11, <1>12, <1>13, <1>14, <1>15, <1>16, <1>17, <1>18, <1>19 DEF Call, Step
<1>21. \A u \in Threads \ {t} : Claiming(u)' <=> Claiming(u)
  BY <1>20 DEF Claiming
<1> QED
  BY <1>0, <1>20, <1>21, ClaimsStep DEF Bit

(* holdcnt is -1 or the number of readers. *)
HeldOK ==
  /\ (\E t \in Threads : hold[t] = "W") => holdcnt = -1
  /\ (\A t \in Threads : hold[t] # "W") => holdcnt = Cardinality(Holders("R"))

(* A step that grants and gives up nothing keeps the count of holders. *)
LEMMA HeldKept ==
  ASSUME Inv, hold' = hold, holdcnt' = holdcnt
  PROVE  HeldOK'
BY DEF HeldOK, Inv, CountOK, Holders

(* Whoever is granted the lock is its only writer or one reader more. *)
LEMMA GrantHeld ==
  ASSUME Inv, NEW t \in Threads, NEW k \in Modes, hold[t] = None, ~MustWait(k), Grant(t, k)
  PROVE  HeldOK'
<1>1. hold' = [hold EXCEPT ![t] = k] /\ \A u \in Threads \ {t} : hold'[u] = hold[u]
  BY Typing DEF Grant
<1>2. CASE k = "R"
  <2>1. holdcnt >= 0 /\ holdcnt' = holdcnt + 1
    BY <1>2, Typing DEF MustWait, ReaderMustWait, Grant
  <2>2. \A u \in Threads : hold[u] # "W" /\ hold'[u] # "W"
    BY <1>1, <1>2, <2>1, HoldFacts, Typing
  <2>3. holdcnt = Cardinality(Holders("R"))
    BY <2>2 DEF Inv, CountOK
  <2>4. Cardinality(Holders("R")') = Cardinality(Holders("R")) + 1
    BY <1>1, <1>2, ReadersStep, Typing DEF Bit
  <2> QED
    BY <2>1, <2>2, <2>3, <2>4 DEF HeldOK
<1>3. CASE k = "W"
  BY <1>1, <1>3, Typing DEF HeldOK, Grant
<1> QED
  BY <1>2, <1>3 DEF Modes

(* Every step keeps holdcnt right. *)
LEMMA HeldNext ==
  ASSUME Inv, NEW t \in Threads, Call(t) \/ Step(t)
  PROVE  HeldOK'
<1>0. \A u \in Threads : PlaceOK(u)
  BY DEF Inv
<1>1. ASSUME NEW k \in Modes, RwEnter(t, k) \/ RwTryenter(t, k) \/ (ReaderAgain(t) /\ k = "R") \/ (WriterRetest(t) /\ k = "W")
      PROVE  HeldOK'
  <2>1. hold[t] = None
    BY <1>0, <1>1, Typing DEF RwEnter, RwTryenter, ReaderAgain, WriterRetest, PlaceOK
  <2>2. Waits(t, k) \/ (~MustWait(k) /\ Grant(t, k))
    BY <1>1, TestCases DEF RwEnter, RwTryenter, ReaderAgain, WriterRetest, Enters
  <2> QED
    BY <2>1, <2>2, HeldKept, GrantHeld DEF Waits
<1>2. CASE RwDowngrade(t)
  <2>1. /\ hold[t] = "W" /\ hold' = [hold EXCEPT ![t] = "R"] /\ holdcnt' = 1
        /\ \A u \in Threads \ {t} : hold'[u] = hold[u] /\ hold[u] # "W"
    BY <1>2, Typing DEF RwDowngrade, Inv, OwnerOK
  <2>2. Holders("R")' = {t}
    BY <2>1, Typing DEF Holders, Inv, OwnerOK
  <2>3. Cardinality(Holders("R")') = 1
    BY <2>2, FS_Singleton
  <2> QED
    BY <2>1, <2>3, Typing DEF HeldOK
<1>3. CASE RwTryupgrade(t)
  BY <1>3, Typing DEF RwTryupgrade, HeldOK
<1>4. CASE RwExit(t)
  <2>1. hold' = [hold EXCEPT ![t] = None] /\ \A u \in Threads \ {t} : hold'[u] = hold[u]
    BY <1>4, Typing DEF RwExit
  <2>2. CASE hold[t] = "W"
    <3>1. holdcnt' = 0 /\ \A u \in Threads : hold'[u] = None
      BY <1>4, <2>1, <2>2, Typing DEF RwExit, Inv, OwnerOK, Modes
    <3>2. Holders("R")' = {}
      BY <3>1, Typing DEF Holders
    <3> QED
      BY <3>1, <3>2, Typing, FS_EmptySet DEF HeldOK
  <2>3. CASE hold[t] = "R"
    <3>1. holdcnt' = holdcnt - 1 /\ \A u \in Threads : hold[u] # "W" /\ hold'[u] # "W"
      BY <1>4, <2>1, <2>3, Typing DEF RwExit, Inv, OwnerOK
    <3>2. holdcnt = Cardinality(Holders("R"))
      BY <3>1 DEF Inv, CountOK
    <3>3. Cardinality(Holders("R")') = Cardinality(Holders("R")) - 1
      BY <2>1, <2>3, ReadersStep, Typing DEF Bit
    <3> QED
      BY <3>1, <3>2, <3>3 DEF HeldOK
  <2> QED
    BY <1>4, <2>2, <2>3, Typing DEF RwExit, Modes
<1>5. CASE RwDestroy(t)
  <2>1. holdcnt' = 0 /\ \A u \in Threads : hold'[u] = None
    BY <1>5, Typing DEF RwDestroy
  <2>2. Holders("R")' = {}
    BY <2>1, Typing DEF Holders
  <2> QED
    BY <2>1, <2>2, Typing, FS_EmptySet DEF HeldOK
<1>6. CASE PanicReturn(t) \/ FindTurnstile(t) \/ Recheck(t) \/ PiWillto(t) \/ WriterAgain(t) \/ LookWaiters(t)
  BY <1>6, HeldKept DEF PanicReturn, FindTurnstile, Recheck, PiWillto, WriterAgain, LookWaiters, lockvars
<1>7. CASE AmendWriter(t) \/ DowngradeLook(t) \/ DowngradeRelease(t) \/ WriterExit(t) \/ ReaderExit(t)
  BY <1>7, HeldKept DEF AmendWriter, DowngradeLook, DowngradeRelease, WriterExit, ReaderExit, lockvars
<1> QED
  BY <1>1, <1>2, <1>3, <1>4, <1>5, <1>6, <1>7 DEF Call, Step, Modes

(* Every step keeps the owner of record right. *)
LEMMA OwnerNext ==
  ASSUME Inv, NEW t \in Threads, Call(t) \/ Step(t)
  PROVE  OwnerOK'
<1>0. /\ \A u \in Threads : PlaceOK(u)
      /\ OwnerOK /\ owner \in Threads \cup {None}
  BY DEF Inv, TypeOK
<1>1. ASSUME NEW k \in Modes, RwEnter(t, k) \/ RwTryenter(t, k) \/ (ReaderAgain(t) /\ k = "R") \/ (WriterRetest(t) /\ k = "W")
      PROVE  OwnerOK'
  <2>1. /\ hold[t] = None /\ pc[t] \notin {"exit", "down", "downrel"}
        /\ \A u \in Threads : pc[u] # "exit"
        /\ \A u \in Threads \ {t} : rw'[u] = rw[u]
    BY <1>0, <1>1, Typing DEF RwEnter, RwTryenter, ReaderAgain, WriterRetest, PlaceOK
  <2>2. CASE Waits(t, k)
    BY <1>0, <2>1, <2>2, Typing DEF Waits, OwnerOK
  <2>3. CASE ~MustWait(k) /\ Grant(t, k) /\ (Enters(t, k) \/ pc' = pc)
    <3>1. /\ hold' = [hold EXCEPT ![t] = k] /\ \A u \in Threads : pc'[u] # "exit"
          /\ \A u \in Threads : pc'[u] \in {"down", "downrel"} => pc[u] \in {"down", "downrel"}
      BY <2>1, <2>3, Typing DEF Grant, Enters
    <3>2. CASE k = "R"
      <4>1. holdcnt >= 0 /\ owner' = (IF owner # None THEN owner ELSE t)
        BY <2>3, <3>2, Typing DEF MustWait, ReaderMustWait, Grant
      <4>2. \A u \in Threads : hold[u] # "W"
        BY <4>1, HoldFacts, Typing
      <4> QED
        BY <1>0, <2>1, <3>1, <3>2, <4>1, <4>2, Typing DEF OwnerOK
    <3>3. CASE k = "W"
      <4>1. holdcnt = 0 /\ owner' = t
        BY <2>3, <3>3, Typing DEF MustWait, Grant
      <4>2. \A u \in Threads : hold[u] = None
        BY <4>1, HoldFacts
      <4> QED
        BY <1>0, <2>1, <3>1, <3>3, <4>1, <4>2, Typing DEF OwnerOK
    <3> QED
      BY <3>2, <3>3 DEF Modes
  <2>4. CASE RwTryenter(t, k)
    BY <2>3, <2>4 DEF RwTryenter
  <2> QED
    BY <1>1, <2>2, <2>3, <2>4, TestCases DEF RwEnter, ReaderAgain, WriterRetest, Enters
<1>2. CASE RwDowngrade(t)
  BY <1>0, <1>2, Typing DEF RwDowngrade, Goto, OwnerOK, PlaceOK
<1>3. CASE RwTryupgrade(t)
  <2>1. \A u \in Threads \ {t} : hold[u] = None
    BY <1>3, HoldFacts, Typing DEF RwTryupgrade, Modes
  <2> QED
    BY <1>0, <1>3, <2>1, Typing DEF RwTryupgrade, OwnerOK, PlaceOK
<1>4. CASE RwExit(t)
  <2>1. CASE hold[t] = "W"
    BY <1>0, <1>4, <2>1, Typing DEF RwExit, Goto, OwnerOK, PlaceOK
  <2>2. CASE hold[t] = "R"
    BY <1>0, <1>4, <2>2, Typing DEF RwExit, Goto, OwnerOK, PlaceOK
  <2> QED
    BY <1>4, <2>1, <2>2, Typing DEF RwExit, Modes
<1>5. CASE RwDestroy(t)
  BY <1>0, <1>5, Typing DEF RwDestroy, OwnerOK
<1>6. CASE PanicReturn(t) \/ FindTurnstile(t) \/ Recheck(t) \/ PiWillto(t) \/ WriterAgain(t)
  <2>1. /\ hold' = hold /\ holdcnt' = holdcnt /\ owner' = owner /\ rw' = rw /\ pc[t] # "exit"
        /\ \E l \in PCs : pc' = [pc EXCEPT ![t] = l] /\ l \notin {"exit", "down", "downrel"}
    BY <1>6 DEF PanicReturn, FindTurnstile, Recheck, PiWillto, WriterAgain, lockvars, Goto, PCs
  <2> QED
    BY <1>0, <2>1, Typing DEF OwnerOK
<1>7. CASE LookWaiters(t) \/ AmendWriter(t) \/ DowngradeLook(t) \/ DowngradeRelease(t) \/ WriterExit(t)
  <2>1. /\ hold' = hold /\ holdcnt' = holdcnt /\ owner' = owner /\ rw' = rw
        /\ \E l \in PCs : /\ pc' = [pc EXCEPT ![t] = l] /\ l # "exit" /\ (pc[t] = "exit" => rw[t] = "W")
                          /\ (l \in {"down", "downrel"} => pc[t] \in {"down", "downrel"})
    BY <1>7 DEF LookWaiters, AmendWriter, DowngradeLook, DowngradeRelease, WriterExit, lockvars, Goto, PCs
  <2> QED
    BY <1>0, <2>1, Typing DEF OwnerOK, PlaceOK
<1>8. CASE ReaderExit(t)
  BY <1>0, <1>8, Typing DEF ReaderExit, Goto, OwnerOK, PlaceOK
<1> QED
  BY <1>1, <1>2, <1>3, <1>4, <1>5, <1>6, <1>7, <1>8 DEF Call, Step, Modes

-----------------------------------------------------------------------
(* Who owns the lock, or inherits through its turnstile, is awake. *)
LEMMA AwakeOwner ==
  ASSUME Inv
  PROVE  /\ owner # None => owner \in Threads /\ ~Asleep(owner)
         /\ pi_benef # None => pi_benef \in Threads /\ ~Asleep(pi_benef)
<1>1. owner \in Threads \cup {None} /\ pi_benef \in Threads \cup {None}
  BY DEF Inv, TypeOK
<1>2. \A t \in Threads : Asleep(t) => pc[t] \in {"pi", "swtch"} /\ hold[t] = None
  BY DEF Inv, QueueOK, PlaceOK, Asleep, Modes
<1>3. owner # None => ~Asleep(owner)
  BY <1>1, <1>2 DEF Inv, OwnerOK
<1>4. pi_benef # None => ~Asleep(pi_benef)
  BY <1>1, <1>2, <1>3 DEF Inv, BenefOK
<1> QED
  BY <1>1, <1>3, <1>4

(* The types of what is inherited. *)
PiTypes ==
  /\ pi_benef \in Threads \cup {None} /\ pi_epri_hi \in Nat /\ t_epri \in [Threads -> Nat]
  /\ other \in [Threads -> OtherPris \cup {0}]

(* Priorities are natural numbers. *)
LEMMA PriTypes ==
  ASSUME Inv
  PROVE  /\ \A t \in Threads : Pri[t] \in Nat /\ other[t] \in Nat /\ OtherPri(t) \in Nat
         /\ \A t \in Threads : Prio[t] = (IF t_epri[t] # 0 THEN t_epri[t] ELSE Pri[t])
         /\ Prio \in [Threads -> Nat] /\ PiTypes
<1>1. PiTypes /\ Pri \in [Threads -> Nat \ {0}] /\ OtherPris \subseteq Nat \ {0}
  BY RWLockAssumption DEF Inv, TypeOK, PiTypes
<1>2. \A t \in Threads : Pri[t] \in Nat /\ other[t] \in Nat
  <2>1. \A t \in Threads : Pri[t] \in Nat \ {0}
    BY <1>1
  <2>2. \A t \in Threads : other[t] \in OtherPris \cup {0}
    BY <1>1 DEF PiTypes
  <2>3. \A x \in OtherPris \cup {0} : x \in Nat
    BY <1>1
  <2> QED
    BY <2>1, <2>2, <2>3
<1>3. \A t \in Threads : OtherPri(t) \in Nat
  BY <1>2 DEF OtherPri, Max2
<1>4. \A t \in Threads : Prio[t] = (IF t_epri[t] # 0 THEN t_epri[t] ELSE Pri[t])
  BY <1>1 DEF Prio, DispPrio
<1>5. \A t \in Threads : Prio[t] \in Nat
  BY <1>1, <1>2, <1>4 DEF PiTypes
<1>6. Prio \in [Threads -> Nat]
  BY <1>1, <1>5 DEF Prio, DispPrio
<1> QED
  BY <1>1, <1>2, <1>3, <1>4, <1>6

(* pi_willto() raises the owner only, who becomes the beneficiary. *)
LEMMA WillKeeps ==
  ASSUME Inv, NEW p \in Nat, NEW e \in [Threads -> Nat], Will(p, e), other' \in [Threads -> OtherPris \cup {0}]
  PROVE  /\ PiTypes' /\ \A u \in Threads : u # owner => t_epri'[u] = e[u]
         /\ pi_benef' \in {pi_benef, owner}
<1>1. PiTypes /\ owner \in Threads \cup {None}
  BY PriTypes DEF Inv, TypeOK
<1>2. CASE owner = None \/ p <= Pri[owner]
  BY <1>1, <1>2 DEF Will, PiTypes
<1>3. CASE ~(owner = None \/ p <= Pri[owner])
  BY <1>1, <1>3 DEF Will, PiTypes, Max2
<1> QED
  BY <1>2, <1>3

(* pi_waive() lowers the beneficiary only. *)
LEMMA WaiveKeeps ==
  ASSUME Inv, Waive, other' = other
  PROVE  /\ PiTypes' /\ \A u \in Threads : u # pi_benef => t_epri'[u] = t_epri[u]
         /\ pi_benef' = None
<1>1. PiTypes /\ \A t \in Threads : OtherPri(t) \in Nat
  BY PriTypes
<1>2. CASE pi_benef = None
  BY <1>1, <1>2 DEF Waive, PiTypes
<1>3. CASE pi_benef # None
  <2>1. pi_benef \in Threads
    BY <1>1, <1>3 DEF PiTypes
  <2>2. OtherPri(pi_benef) \in Nat
    BY <1>1, <2>1
  <2> QED
    BY <1>1, <1>3, <2>1, <2>2 DEF Waive, PiTypes
<1> QED
  BY <1>2, <1>3

(* The first of the queues is of the highest priority, a natural number. *)
LEMMA MaxSleepingNat ==
  ASSUME Inv
  PROVE  MaxSleeping \in Nat
<1>1. \A k \in Modes : ts_sleepq[k] # << >> => Prio[Head(ts_sleepq[k])] \in Nat
  <2>1. SUFFICES ASSUME NEW k \in Modes, ts_sleepq[k] # << >> PROVE Prio[Head(ts_sleepq[k])] \in Nat
    OBVIOUS
  <2>2. ts_sleepq[k] \in Seq(Threads)
    BY Typing DEF Modes
  <2>3. Head(ts_sleepq[k]) \in Threads
    BY <2>1, <2>2
  <2> QED
    BY <2>3, PriTypes
<1>2. FirstPris \subseteq Nat
  BY <1>1 DEF FirstPris
<1>3. \E p \in FirstPris \cup {0} : \A q \in FirstPris : p >= q
  <2>1. \A q \in FirstPris : (ts_sleepq["R"] # << >> /\ q = Prio[Head(ts_sleepq["R"])]) \/ (ts_sleepq["W"] # << >> /\ q = Prio[Head(ts_sleepq["W"])])
    BY DEF Modes, FirstPris
  <2>2. /\ ts_sleepq["R"] # << >> => Prio[Head(ts_sleepq["R"])] \in FirstPris
        /\ ts_sleepq["W"] # << >> => Prio[Head(ts_sleepq["W"])] \in FirstPris
    BY DEF Modes, FirstPris
  <2>3. CASE ts_sleepq["R"] = << >> /\ ts_sleepq["W"] = << >>
    BY <1>2, <2>1, <2>3
  <2>4. CASE ts_sleepq["R"] # << >> /\ ts_sleepq["W"] = << >>
    BY <1>2, <2>1, <2>2, <2>4
  <2>5. CASE ts_sleepq["R"] = << >> /\ ts_sleepq["W"] # << >>
    BY <1>2, <2>1, <2>2, <2>5
  <2>6. CASE ts_sleepq["R"] # << >> /\ ts_sleepq["W"] # << >>
    <3> DEFINE a == Prio[Head(ts_sleepq["R"])]
               b == Prio[Head(ts_sleepq["W"])]
    <3>1. a \in FirstPris /\ b \in FirstPris /\ a \in Nat /\ b \in Nat /\ \A q \in FirstPris : q = a \/ q = b
      BY <1>2, <2>1, <2>2, <2>6
    <3> HIDE DEF a, b
    <3> QED
      BY <3>1
  <2> QED
    BY <2>3, <2>4, <2>5, <2>6
<1>4. MaxSleeping \in FirstPris \cup {0}
  BY <1>3, Zenon DEF MaxSleeping
<1> QED
  BY <1>2, <1>4

(* pi_amend() moves what is inherited to t. *)
LEMMA AmendKeeps ==
  ASSUME Inv, NEW t \in Threads, Amend(t), other' = other
  PROVE  /\ PiTypes' /\ \A u \in Threads \ {t} : u # pi_benef => t_epri'[u] = t_epri[u]
         /\ pi_benef' \in {None, t}
<1>1. PiTypes /\ (\A u \in Threads : OtherPri(u) \in Nat) /\ MaxSleeping \in Nat
  BY PriTypes, MaxSleepingNat
<1> DEFINE e == IF pi_benef = None THEN t_epri ELSE [t_epri EXCEPT ![pi_benef] = OtherPri(pi_benef)]
<1>2. e \in [Threads -> Nat] /\ \A u \in Threads : u # pi_benef => e[u] = t_epri[u]
  BY <1>1 DEF PiTypes
<1>3. \/ pi_benef = t /\ UNCHANGED pivars
      \/ /\ pi_benef' = t /\ pi_epri_hi' = MaxSleeping
         /\ t_epri' = IF MaxSleeping > DispPrio(Pri, e)[t] THEN [e EXCEPT ![t] = MaxSleeping] ELSE e
      \/ pi_benef' = None /\ pi_epri_hi' = 0 /\ t_epri' = e
  BY DEF Amend
<1> HIDE DEF e
<1> QED
  BY <1>1, <1>2, <1>3 DEF PiTypes, pivars

-----------------------------------------------------------------------
(* What t_release() and t_release_all() leave of a queue. *)
Shrunk(k) ==
  /\ ts_sleepq'[k] \in Seq(Threads) /\ Distinct(ts_sleepq'[k]) /\ InOrder(ts_sleepq'[k], Prio)
  /\ \A u \in Threads : Queued(u, k)' => Queued(u, k)

(* t_release() and t_release_all() leave a part of each queue, in order. *)
LEMMA ReleaseShrinks ==
  ASSUME Inv, ts_sleepq' \in {ts_sleepq, FirstWriterOff, AllReadersOff}
  PROVE  ts_sleepq' \in [Modes -> Seq(Threads)] /\ \A k \in Modes : Shrunk(k)
<1>0. /\ \A k \in Modes : Distinct(ts_sleepq[k]) /\ InOrder(ts_sleepq[k], Prio) /\ ts_sleepq[k] \in Seq(Threads)
      /\ ts_sleepq \in [Modes -> Seq(Threads)]
  BY DEF Inv, QueueOK, TypeOK
<1>1. CASE ts_sleepq' = ts_sleepq
  BY <1>0, <1>1 DEF Shrunk, Queued
<1>2. CASE ts_sleepq' = AllReadersOff
  <2>1. ts_sleepq'["R"] = << >> /\ ts_sleepq'["W"] = ts_sleepq["W"] /\ ts_sleepq' \in [Modes -> Seq(Threads)]
    BY <1>0, <1>2 DEF AllReadersOff, Modes
  <2>2. Shrunk("R")
    <3>1. << >> \in Seq(Threads) /\ Len(<< >>) = 0
      OBVIOUS
    <3> QED
      BY <2>1, <3>1 DEF Shrunk, Queued, Distinct, InOrder, OnQueue
  <2>3. Shrunk("W")
    BY <1>0, <2>1 DEF Shrunk, Queued, Modes
  <2> QED
    BY <2>1, <2>2, <2>3 DEF Modes
<1>3. CASE ts_sleepq' = FirstWriterOff /\ ts_sleepq["W"] = << >>
  <2>1. ts_sleepq' = ts_sleepq
    BY <1>0, <1>3 DEF FirstWriterOff, Modes
  <2> QED
    BY <1>1, <2>1
<1>4. CASE ts_sleepq' = FirstWriterOff /\ ts_sleepq["W"] # << >>
  <2>1. "W" \in Modes /\ "R" \in Modes
    BY DEF Modes
  <2>2. /\ Tail(ts_sleepq["W"]) \in Seq(Threads) /\ Distinct(Tail(ts_sleepq["W"]))
        /\ \A x : OnQueue(Tail(ts_sleepq["W"]), x) => OnQueue(ts_sleepq["W"], x)
    BY <1>0, <1>4, <2>1, TailRemoves
  <2>3. InOrder(Tail(ts_sleepq["W"]), Prio)
    BY <1>0, <1>4, <2>1, TailKeepsOrder
  <2>4. ts_sleepq'["R"] = ts_sleepq["R"] /\ ts_sleepq'["W"] = Tail(ts_sleepq["W"]) /\ ts_sleepq' \in [Modes -> Seq(Threads)]
    BY <1>0, <1>4, <2>1, <2>2 DEF FirstWriterOff
  <2>5. Shrunk("R") /\ Shrunk("W")
    BY <1>0, <2>1, <2>2, <2>3, <2>4 DEF Shrunk, Queued
  <2> QED
    BY <2>4, <2>5 DEF Modes
<1> QED
  BY <1>1, <1>2, <1>3, <1>4

(* A queue stays sound if it only loses threads, those that stay on it     *)
(* stay where they are, and their priorities do not change.                *)
LEMMA QueueKept ==
  ASSUME Inv, NEW k \in Modes, Shrunk(k), PiTypes',
         \A u \in Threads : Queued(u, k)' => /\ rw'[u] = rw[u] /\ t_epri'[u] = t_epri[u]
                                             /\ pc'[u] = pc[u] \/ pc'[u] = "swtch"
  PROVE  QueueOK(k)'
<1>1. Distinct(ts_sleepq'[k]) /\ \A u \in Threads : Queued(u, k)' => rw'[u] = k /\ pc'[u] \in {"pi", "swtch"}
  BY DEF Shrunk, Inv, QueueOK
<1>2. \A u \in Threads : Prio[u] = (IF t_epri[u] # 0 THEN t_epri[u] ELSE Pri[u])
  BY PriTypes
<1>3. \A u \in Threads : Prio'[u] = (IF t_epri'[u] # 0 THEN t_epri'[u] ELSE Pri[u])
  BY RWLockAssumption DEF Prio, DispPrio
<1>4. \A x : OnQueue(ts_sleepq'[k], x) => x \in Threads
  BY DEF Shrunk, OnQueue
<1>5. \A x : OnQueue(ts_sleepq'[k], x) => Prio'[x] = Prio[x]
  BY <1>2, <1>3, <1>4 DEF Queued
<1>6. InOrder(ts_sleepq'[k], Prio')
  BY <1>5, OrderOfMembers DEF Shrunk
<1> QED
  BY <1>1, <1>6 DEF QueueOK

(* A step changes the priority of nobody that sleeps. *)
LEMMA EpriNext ==
  ASSUME Inv, NEW t \in Threads, Call(t) \/ Step(t)
  PROVE  PiTypes' /\ \A u \in Threads : Asleep(u) => t_epri'[u] = t_epri[u]
<1>0. /\ PiTypes /\ (\A k \in Modes : QueueOK(k)) /\ PlaceOK(t)
      /\ owner # None => ~Asleep(owner)
      /\ pi_benef # None => ~Asleep(pi_benef)
  BY AwakeOwner, PriTypes DEF Inv
<1>1. ASSUME UNCHANGED <<pivars, other>> PROVE PiTypes' /\ \A u \in Threads : Asleep(u) => t_epri'[u] = t_epri[u]
  BY <1>0, <1>1 DEF PiTypes, pivars
<1>2. ASSUME Waive, other' = other PROVE PiTypes' /\ \A u \in Threads : Asleep(u) => t_epri'[u] = t_epri[u]
  BY <1>0, <1>2, WaiveKeeps, Typing
<1>3. ASSUME NEW q, NEW w, Release(q, w), other' = other PROVE PiTypes' /\ \A u \in Threads : Asleep(u) => t_epri'[u] = t_epri[u]
  BY <1>1, <1>2, <1>3 DEF Release
<1>4. ASSUME NEW k \in Modes, RwEnter(t, k) \/ RwTryenter(t, k) PROVE PiTypes' /\ \A u \in Threads : Asleep(u) => t_epri'[u] = t_epri[u]
  BY <1>1, <1>4 DEF RwEnter, RwTryenter
<1>5. CASE RwDowngrade(t) \/ RwTryupgrade(t) \/ RwExit(t) \/ PanicReturn(t) \/ FindTurnstile(t) \/ Recheck(t)
  BY <1>1, <1>5 DEF RwDowngrade, RwTryupgrade, RwExit, PanicReturn, FindTurnstile, Recheck
<1>6. CASE ReaderAgain(t) \/ WriterAgain(t) \/ WriterRetest(t) \/ LookWaiters(t) \/ DowngradeLook(t)
  BY <1>1, <1>6 DEF ReaderAgain, WriterAgain, WriterRetest, LookWaiters, DowngradeLook
<1>7. CASE RwDestroy(t) \/ DowngradeRelease(t) \/ WriterExit(t) \/ ReaderExit(t)
  BY <1>1, <1>2, <1>3, <1>7 DEF RwDestroy, DowngradeRelease, WriterExit, ReaderExit, NoRelease
<1>8. CASE PiWillto(t)
  <2>1. Will(Prio[t], t_epri) /\ other' = other /\ Prio[t] \in Nat /\ t_epri \in [Threads -> Nat]
    BY <1>0, <1>8, PriTypes DEF PiWillto, PiTypes
  <2>2. other' \in [Threads -> OtherPris \cup {0}]
    BY <1>0, <2>1 DEF PiTypes
  <2>3. PiTypes' /\ \A u \in Threads : u # owner => t_epri'[u] = t_epri[u]
    BY <2>1, <2>2, WillKeeps
  <2> QED
    BY <1>0, <2>3, Typing
<1>9. CASE AmendWriter(t)
  <2>1. ~Asleep(t)
    BY <1>0, <1>9 DEF AmendWriter, QueueOK, Asleep, Modes
  <2>2. CASE Amend(t)
    BY <1>0, <1>9, <2>1, <2>2, AmendKeeps, Typing DEF AmendWriter
  <2> QED
    BY <1>1, <1>9, <2>2 DEF AmendWriter
<1> QED
  BY <1>4, <1>5, <1>6, <1>7, <1>8, <1>9 DEF Call, Step

(* Recheck() puts t on the queue of its mode. *)
LEMMA SleepQueues ==
  ASSUME Inv, NEW t \in Threads, NEW k \in Modes, k = rw[t], ~Asleep(t), pc'[t] = "pi", rw' = rw,
         \A u \in Threads \ {t} : pc'[u] = pc[u], UNCHANGED pivars,
         ts_sleepq' = [ts_sleepq EXCEPT ![k] = SleepqInsert(@, t, Prio)]
  PROVE  /\ ts_sleepq' \in [Modes -> Seq(Threads)] /\ \A j \in Modes : QueueOK(j)'
         /\ \A u \in Threads, j \in Modes : Queued(u, j)' <=> (Queued(u, j) \/ (u = t /\ j = k))
<1> DEFINE r == SleepqInsert(ts_sleepq[k], t, Prio)
<1>0. /\ ts_sleepq \in [Modes -> Seq(Threads)] /\ Prio \in [Threads -> Nat] /\ Prio' = Prio
      /\ \A j \in Modes : QueueOK(j) /\ ts_sleepq[j] \in Seq(Threads)
      /\ ~OnQueue(ts_sleepq[k], t)
  <2>1. Prio' = Prio
    BY DEF Prio, DispPrio, pivars
  <2> QED
    BY <2>1, PriTypes DEF Inv, TypeOK, Asleep, Queued, Modes
<1>1. /\ r \in Seq(Threads) /\ Distinct(r) /\ InOrder(r, Prio)
      /\ \A x : OnQueue(r, x) <=> (OnQueue(ts_sleepq[k], x) \/ x = t)
  <2>1. /\ ts_sleepq[k] \in Seq(Threads) /\ Distinct(ts_sleepq[k]) /\ InOrder(ts_sleepq[k], Prio)
        /\ Prio \in [Threads -> Nat] /\ ~OnQueue(ts_sleepq[k], t)
    BY <1>0 DEF QueueOK
  <2> QED
    BY <2>1, InsertSound
<1> HIDE DEF r
<1>3. ts_sleepq' = [ts_sleepq EXCEPT ![k] = r]
  BY DEF r
<1>4. ts_sleepq' \in [Modes -> Seq(Threads)] /\ ts_sleepq'[k] = r /\ \A j \in Modes \ {k} : ts_sleepq'[j] = ts_sleepq[j]
  BY <1>0, <1>1, <1>3
<1>5. \A u \in Threads, j \in Modes : Queued(u, j)' <=> (Queued(u, j) \/ (u = t /\ j = k))
  BY <1>1, <1>4 DEF Queued
<1>6. QueueOK(k)'
  <2>1. Distinct(ts_sleepq'[k]) /\ InOrder(ts_sleepq'[k], Prio')
    BY <1>0, <1>1, <1>4
  <2>2. \A u \in Threads : Queued(u, k)' => rw'[u] = k /\ pc'[u] \in {"pi", "swtch"}
    BY <1>0, <1>5 DEF QueueOK
  <2> QED
    BY <2>1, <2>2 DEF QueueOK
<1>7. \A j \in Modes \ {k} : QueueOK(j)'
  BY <1>0, <1>4, <1>5 DEF QueueOK, Queued, Asleep, Modes
<1> QED
  BY <1>4, <1>5, <1>6, <1>7

(* Every step of a call keeps the queues sound. *)
LEMMA QueueNext ==
  ASSUME Inv, NEW t \in Threads, Call(t) \/ Step(t)
  PROVE  ts_sleepq' \in [Modes -> Seq(Threads)] /\ \A k \in Modes : QueueOK(k)'
<1>0. /\ \A k \in Modes : QueueOK(k)
      /\ \A u \in Threads : PlaceOK(u)
      /\ PiTypes' /\ \A u \in Threads : Asleep(u) => t_epri'[u] = t_epri[u]
  BY EpriNext DEF Inv
<1>1. ASSUME ts_sleepq' \in {ts_sleepq, FirstWriterOff, AllReadersOff},
             \A u \in Threads : Asleep(u) => rw'[u] = rw[u] /\ (pc'[u] = pc[u] \/ pc'[u] = "swtch")
      PROVE  ts_sleepq' \in [Modes -> Seq(Threads)] /\ \A k \in Modes : QueueOK(k)'
  <2>1. ts_sleepq' \in [Modes -> Seq(Threads)] /\ \A k \in Modes : Shrunk(k)
    BY <1>1, ReleaseShrinks
  <2>2. \A k \in Modes, u \in Threads : Queued(u, k)' => Asleep(u)
    BY <2>1 DEF Shrunk, Asleep, Modes
  <2> QED
    BY <1>0, <1>1, <2>1, <2>2, QueueKept
<1>2. ASSUME pc[t] \notin {"pi", "swtch"} \/ ~Asleep(t), \A u \in Threads \ {t} : rw'[u] = rw[u] /\ pc'[u] = pc[u],
             ts_sleepq' \in {ts_sleepq, FirstWriterOff, AllReadersOff}
      PROVE  ts_sleepq' \in [Modes -> Seq(Threads)] /\ \A k \in Modes : QueueOK(k)'
  <2>1. ~Asleep(t)
    BY <1>0, <1>2 DEF QueueOK, Asleep, Modes
  <2> QED
    BY <1>1, <1>2, <2>1
<1>3. ASSUME NEW k \in Modes, RwEnter(t, k) \/ RwTryenter(t, k) \/ (ReaderAgain(t) /\ k = "R") \/ (WriterRetest(t) /\ k = "W")
      PROVE  ts_sleepq' \in [Modes -> Seq(Threads)] /\ \A j \in Modes : QueueOK(j)'
  <2>1. ts_sleepq' = ts_sleepq /\ (pc[t] \notin {"pi", "swtch"} \/ ~Asleep(t))
    BY <1>3 DEF RwEnter, RwTryenter, ReaderAgain, WriterRetest, tsvars
  <2>2. \A u \in Threads \ {t} : rw'[u] = rw[u] /\ pc'[u] = pc[u]
    BY <1>3, Typing DEF RwEnter, RwTryenter, ReaderAgain, WriterRetest, Test, Goto
  <2> QED
    BY <1>2, <2>1, <2>2
<1>4. CASE RwDowngrade(t) \/ RwTryupgrade(t) \/ RwExit(t) \/ PanicReturn(t) \/ FindTurnstile(t)
  BY <1>2, <1>4, Typing DEF RwDowngrade, RwTryupgrade, RwExit, PanicReturn, FindTurnstile, tsvars, Goto
<1>5. CASE WriterAgain(t) \/ LookWaiters(t) \/ DowngradeLook(t) \/ AmendWriter(t)
  BY <1>2, <1>5, Typing DEF WriterAgain, LookWaiters, DowngradeLook, AmendWriter, tsvars, Goto
<1>6. CASE RwDestroy(t) \/ DowngradeRelease(t)
  BY <1>2, <1>6, Typing DEF RwDestroy, DowngradeRelease, Release, NoRelease, tsvars, Goto
<1>7. CASE WriterExit(t) \/ ReaderExit(t)
  BY <1>2, <1>7, Typing DEF WriterExit, ReaderExit, WriterWakes, Release, NoRelease, tsvars, Goto
<1>8. CASE PiWillto(t)
  BY <1>1, <1>8, Typing DEF PiWillto, tsvars, Goto
<1>9. CASE Recheck(t)
  <2>1. CASE StillMustWait(t)
    <3>1. ~Asleep(t) /\ rw[t] \in Modes /\ UNCHANGED pivars /\ rw' = rw /\ pc' = [pc EXCEPT ![t] = "pi"]
      BY <1>0, <1>9, <2>1, Typing DEF Recheck, QueueOK, Asleep, Goto, Modes
    <3>2. ts_sleepq' = [ts_sleepq EXCEPT ![rw[t]] = SleepqInsert(@, t, Prio)]
      BY <1>9, <2>1 DEF Recheck
    <3>3. pc'[t] = "pi" /\ \A u \in Threads \ {t} : pc'[u] = pc[u]
      BY <3>1, Typing
    <3> QED
      BY <3>1, <3>2, <3>3, SleepQueues
  <2>2. CASE ~StillMustWait(t)
    BY <1>2, <1>9, <2>2, Typing DEF Recheck, Goto
  <2> QED
    BY <2>1, <2>2
<1> QED
  BY <1>3, <1>4, <1>5, <1>6, <1>7, <1>8, <1>9 DEF Call, Step, Modes

-----------------------------------------------------------------------
(* What a release leaves of the turnstile: it is detached when nobody is   *)
(* on it, and then nobody inherits through it.                             *)
LEMMA ReleaseFacts ==
  ASSUME Inv, NEW q, NEW w \in BOOLEAN, Release(q, w), q \in {ts_sleepq, FirstWriterOff, AllReadersOff}, other' = other
  PROVE  /\ ts_sleepq' = q /\ waiters' \in BOOLEAN
         /\ \A u \in Threads : Asleep(u)' => Asleep(u) /\ waiters'
         /\ waiters' => \E u \in Threads : Asleep(u)'
         /\ pi_benef' = None \/ (pi_benef' = pi_benef /\ waiters' /\ ~w)
<1>1. /\ ts_sleepq' = q /\ waiters' = ~(\A k \in Modes : q[k] = << >>)
      /\ IF w \/ (\A k \in Modes : q[k] = << >>) THEN Waive ELSE UNCHANGED pivars
  BY DEF Release
<1>2. ts_sleepq' \in [Modes -> Seq(Threads)] /\ \A k \in Modes : Shrunk(k)
  BY <1>1, ReleaseShrinks
<1>3. \A u \in Threads : Asleep(u)' => Asleep(u)
  BY <1>2 DEF Shrunk, Asleep, Modes
<1>4. \A k \in Modes : q[k] # << >> <=> \E u \in Threads : Queued(u, k)'
  <2>1. SUFFICES ASSUME NEW k \in Modes PROVE ts_sleepq'[k] # << >> <=> \E u \in Threads : OnQueue(ts_sleepq'[k], u)
    BY <1>1 DEF Queued
  <2>2. ts_sleepq'[k] \in Seq(Threads)
    BY <1>2
  <2> QED
    BY <2>2 DEF OnQueue
<1>5. waiters' <=> \E u \in Threads : Asleep(u)'
  BY <1>1, <1>4 DEF Asleep, Modes
<1>6. pi_benef' = None \/ (pi_benef' = pi_benef /\ waiters' /\ ~w)
  BY <1>1 DEF Waive, pivars
<1> QED
  BY <1>1, <1>3, <1>5, <1>6

(* Every step keeps the turnstile attached for those who need it. *)
LEMMA AttachedNext ==
  ASSUME Inv, NEW t \in Threads, Call(t) \/ Step(t)
  PROVE  AttachedOK'
<1>0. /\ \A u \in Threads : PlaceOK(u)
      /\ AttachedOK /\ (\A k \in Modes : QueueOK(k)) /\ OwnerOK
      /\ \A u \in Threads : Asleep(u) => pc[u] \in {"pi", "swtch"}
  BY DEF Inv, QueueOK, Asleep, Modes
<1>1. ASSUME UNCHANGED tsvars, \A u \in Threads \ {t} : pc'[u] = pc[u] /\ rw'[u] = rw[u] /\ hold'[u] = hold[u],
             pc'[t] # "run" \/ hold'[t] # None \/ ~waiters, pc'[t] # "pi",
             pc'[t] \in {"recheck", "amend", "downrel"} => waiters
      PROVE  AttachedOK'
  BY <1>0, <1>1, Typing DEF AttachedOK, tsvars, Asleep, Queued
<1>2. ASSUME NEW k \in Modes, RwEnter(t, k) \/ RwTryenter(t, k) \/ (ReaderAgain(t) /\ k = "R") \/ (WriterRetest(t) /\ k = "W")
      PROVE  AttachedOK'
  <2>1. UNCHANGED tsvars /\ \A u \in Threads \ {t} : rw'[u] = rw[u]
    BY <1>2, Typing DEF RwEnter, RwTryenter, ReaderAgain, WriterRetest
  <2>2. CASE Waits(t, k)
    BY <1>1, <2>1, <2>2, Typing DEF Waits
  <2>3. CASE Grant(t, k) /\ (Enters(t, k) \/ (pc' = pc /\ pc[t] = "run"))
    BY <1>1, <2>1, <2>3, Typing DEF Grant, Enters, Modes
  <2>4. CASE RwTryenter(t, k)
    BY <2>3, <2>4 DEF RwTryenter
  <2> QED
    BY <1>2, <2>2, <2>3, <2>4, TestCases DEF RwEnter, ReaderAgain, WriterRetest, Enters
<1>3. CASE RwDowngrade(t) \/ RwTryupgrade(t) \/ RwExit(t) \/ PanicReturn(t)
  BY <1>1, <1>3, Typing DEF RwDowngrade, RwTryupgrade, RwExit, PanicReturn, Goto
<1>4. CASE WriterAgain(t) \/ PiWillto(t) \/ LookWaiters(t) \/ AmendWriter(t) \/ DowngradeLook(t)
  BY <1>0, <1>1, <1>4, Typing DEF WriterAgain, PiWillto, LookWaiters, AmendWriter, DowngradeLook, Goto, PlaceOK
<1>5. CASE FindTurnstile(t)
  BY <1>0, <1>5, Typing DEF FindTurnstile, Goto, AttachedOK, Asleep, Queued
<1>6. CASE Recheck(t)
  <2>1. waiters /\ waiters' = waiters /\ rw' = rw /\ ~Asleep(t)
    BY <1>0, <1>6 DEF Recheck, AttachedOK
  <2>2. CASE StillMustWait(t)
    <3>1. /\ pc' = [pc EXCEPT ![t] = "pi"] /\ hold' = hold /\ rw[t] \in Modes /\ UNCHANGED pivars
          /\ ts_sleepq' = [ts_sleepq EXCEPT ![rw[t]] = SleepqInsert(@, t, Prio)]
      BY <1>6, <2>2, Typing DEF Recheck, Goto
    <3>2. \A u \in Threads, j \in Modes : Queued(u, j)' <=> (Queued(u, j) \/ (u = t /\ j = rw[t]))
      BY <2>1, <3>1, Typing, SleepQueues
    <3> QED
      BY <1>0, <2>1, <3>1, <3>2, Typing DEF AttachedOK, Asleep
  <2>3. CASE ~StillMustWait(t)
    <3>1. UNCHANGED tsvars /\ pc' = [pc EXCEPT ![t] = "swtch"] /\ hold' = hold
      BY <1>6, <2>3 DEF Recheck, Goto, tsvars
    <3> QED
      BY <1>1, <2>1, <3>1, Typing
  <2> QED
    BY <2>2, <2>3
<1>7. ASSUME NEW q, NEW w \in BOOLEAN, Release(q, w), q \in {ts_sleepq, FirstWriterOff, AllReadersOff}, other' = other,
             pc[t] \notin {"pi", "swtch"}, pc'[t] = "run", \A u \in Threads \ {t} : pc'[u] = pc[u],
             \A u \in Threads \ {t} : pc[u] \notin {"recheck", "pi", "amend", "downrel"}
      PROVE  AttachedOK'
  <2>1. /\ \A u \in Threads : Asleep(u)' => Asleep(u) /\ waiters'
        /\ waiters' => \E u \in Threads : Asleep(u)'
    BY <1>7, ReleaseFacts
  <2> QED
    BY <1>0, <1>7, <2>1 DEF AttachedOK
<1>8. CASE RwDestroy(t)
  <2>1. CASE waiters
    BY <1>7, <1>8, <2>1 DEF RwDestroy
  <2>2. CASE ~waiters
    BY <1>1, <1>8, <2>2, Typing DEF RwDestroy, NoRelease
  <2> QED
    BY <2>1, <2>2
<1>9. CASE DowngradeRelease(t)
  <2>1. \A u \in Threads \ {t} : pc[u] \notin {"recheck", "pi", "amend", "downrel"}
    BY <1>0, <1>9, Typing DEF DowngradeRelease, PlaceOK, OwnerOK
  <2> QED
    BY <1>7, <1>9, <2>1, Typing DEF DowngradeRelease, Goto
<1>10. CASE WriterExit(t)
  <2>1. \A u \in Threads : hold[u] = None
    BY <1>0, <1>10, HoldFacts DEF WriterExit, OwnerOK
  <2>2. \A u \in Threads \ {t} : pc[u] \notin {"recheck", "pi", "amend", "downrel"}
    BY <1>0, <1>10, <2>1, Typing DEF WriterExit, PlaceOK
  <2>3. CASE waiters
    BY <1>7, <1>10, <2>2, <2>3, Typing DEF WriterExit, WriterWakes, Goto
  <2>4. CASE ~waiters
    BY <1>1, <1>10, <2>4, Typing DEF WriterExit, Goto, NoRelease
  <2> QED
    BY <2>3, <2>4
<1>11. CASE ReaderExit(t)
  <2>1. \A u \in Threads : pc[u] \notin {"recheck", "pi"}
    BY <1>0, <1>11, Typing DEF ReaderExit, PlaceOK
  <2>2. CASE waiters /\ holdcnt = 0
    <3>1. \A u \in Threads : hold[u] = None
      BY <2>2, HoldFacts
    <3>2. \A u \in Threads \ {t} : pc[u] \notin {"recheck", "pi", "amend", "downrel"}
      BY <1>0, <2>1, <3>1, Typing DEF PlaceOK
    <3>3. Release(FirstWriterOff, owner = t) /\ (owner = t) \in BOOLEAN /\ other' = other /\ pc' = [pc EXCEPT ![t] = "run"] /\ pc[t] = "exit"
      BY <1>11, <2>2 DEF ReaderExit, Goto
    <3> QED
      BY <1>7, <3>2, <3>3, Typing
  <2>3. CASE waiters /\ holdcnt # 0
    <3>1. UNCHANGED tsvars /\ pc' = [pc EXCEPT ![t] = "run"] /\ hold' = hold /\ rw' = rw /\ hold[t] = None
      BY <1>0, <1>11, <2>3 DEF ReaderExit, NoRelease, Goto, PlaceOK
    <3>2. \E u \in Threads \ {t} : hold[u] # None
      BY <2>3, <3>1, HoldFacts
    <3> QED
      BY <1>0, <2>1, <3>1, <3>2, Typing DEF AttachedOK, tsvars, Asleep, Queued
  <2>4. CASE ~waiters
    BY <1>1, <1>11, <2>4, Typing DEF ReaderExit, NoRelease, Goto
  <2> QED
    BY <2>2, <2>3, <2>4
<1> QED
  BY <1>2, <1>3, <1>4, <1>5, <1>6, <1>8, <1>9, <1>10, <1>11 DEF Call, Step, Modes

(* Every step keeps what is inherited with the owner of the lock, or with  *)
(* the writer that is about to waive it.                                   *)
LEMMA BenefNext ==
  ASSUME Inv, NEW t \in Threads, Call(t) \/ Step(t)
  PROVE  BenefOK'
<1>0. /\ \A u \in Threads : PlaceOK(u)
      /\ AttachedOK /\ OwnerOK /\ BenefOK
      /\ owner \in Threads \cup {None} /\ pi_benef \in Threads \cup {None} /\ (mp = None \/ mp \in Threads)
  BY DEF Inv, TypeOK
<1>1. ASSUME pi_benef' \in {pi_benef, owner}, owner' = owner, waiters', BenefOK, rw' = rw, pc[t] # "exit",
             \A u \in Threads \ {t} : pc'[u] = pc[u]
      PROVE  BenefOK'
  BY <1>0, <1>1, Typing DEF BenefOK
<1>2. ASSUME pi_benef' = pi_benef, owner' = owner, waiters => waiters', rw' = rw, pc[t] # "exit",
             \A u \in Threads \ {t} : pc'[u] = pc[u]
      PROVE  BenefOK'
  BY <1>0, <1>2, Typing DEF BenefOK
<1>3. ASSUME NEW k \in Modes, RwEnter(t, k) \/ RwTryenter(t, k) \/ (ReaderAgain(t) /\ k = "R") \/ (WriterRetest(t) /\ k = "W")
      PROVE  BenefOK'
  <2>1. pi_benef' = pi_benef /\ waiters' = waiters /\ \A u \in Threads : pc[u] # "exit"
    BY <1>0, <1>3, Typing DEF RwEnter, RwTryenter, ReaderAgain, WriterRetest, pivars, tsvars, PlaceOK
  <2>2. pi_benef # None => pi_benef = owner /\ waiters
    BY <1>0, <2>1 DEF BenefOK
  <2>3. CASE Waits(t, k)
    BY <2>1, <2>2, <2>3 DEF Waits, BenefOK
  <2>4. CASE ~MustWait(k) /\ Grant(t, k)
    <3>1. CASE k = "R"
      BY <2>1, <2>2, <2>4, <3>1 DEF Grant, BenefOK
    <3>2. CASE k = "W"
      <4>1. \A u \in Threads : hold[u] = None
        BY <2>4, <3>2, HoldFacts DEF MustWait
      <4>2. owner = None
        BY <1>0, <2>1, <4>1 DEF OwnerOK
      <4> QED
        BY <2>1, <2>2, <4>2 DEF BenefOK
    <3> QED
      BY <3>1, <3>2 DEF Modes
  <2> QED
    BY <1>3, <2>3, <2>4, TestCases DEF RwEnter, RwTryenter, ReaderAgain, WriterRetest, Enters
<1>4. CASE RwDowngrade(t) \/ PanicReturn(t) \/ FindTurnstile(t) \/ WriterAgain(t) \/ LookWaiters(t) \/ DowngradeLook(t)
  BY <1>2, <1>4, Typing DEF RwDowngrade, PanicReturn, FindTurnstile, WriterAgain, LookWaiters, DowngradeLook, Goto, tsvars, pivars, lockvars
<1>5. CASE Recheck(t)
  BY <1>2, <1>5, Typing DEF Recheck, Goto, pivars, lockvars
<1>6. CASE RwTryupgrade(t)
  <2>1. \A u \in Threads \ {t} : hold[u] = None
    BY <1>6, HoldFacts, Typing DEF RwTryupgrade, Modes
  <2>2. \A u \in Threads : pc[u] # "exit"
    BY <1>0, <1>6, Typing DEF RwTryupgrade, PlaceOK
  <2>3. pi_benef # None => pi_benef = t
    BY <1>0, <2>1, <2>2 DEF BenefOK, OwnerOK
  <2> QED
    BY <1>0, <1>6, <2>3 DEF RwTryupgrade, BenefOK, pivars, tsvars
<1>7. CASE RwExit(t)
  <2>1. \A u \in Threads : pc[u] # "exit"
    BY <1>0, <1>7, Typing DEF RwExit, PlaceOK
  <2>2. /\ pi_benef' = pi_benef /\ waiters' = waiters /\ pc'[t] = "exit" /\ rw'[t] = hold[t]
        /\ owner' = IF hold[t] = "W" THEN None ELSE owner
    BY <1>7, Typing DEF RwExit, Goto, pivars, tsvars
  <2> QED
    BY <1>0, <2>1, <2>2 DEF BenefOK, OwnerOK
<1>8. ASSUME NEW q, NEW w \in BOOLEAN, Release(q, w), q \in {ts_sleepq, FirstWriterOff, AllReadersOff}, other' = other
      PROVE  pi_benef' = None \/ (pi_benef' = pi_benef /\ waiters' /\ ~w)
  BY <1>8, ReleaseFacts
<1>9. CASE RwDestroy(t)
  <2>1. CASE waiters
    <3>1. Release(ts_sleepq, FALSE) /\ other' = other
      BY <1>9, <2>1 DEF RwDestroy
    <3>2. \A u \in Threads : ~Asleep(u)
      BY <1>9 DEF RwDestroy, Inv, QueueOK, Asleep, Modes
    <3>3. ~waiters' /\ (pi_benef' = None \/ waiters')
      BY <3>1, <3>2, ReleaseFacts
    <3> QED
      BY <3>3 DEF BenefOK
  <2>2. CASE ~waiters
    BY <1>0, <1>9, <2>2 DEF RwDestroy, NoRelease, pivars, BenefOK
  <2> QED
    BY <2>1, <2>2
<1>10. CASE DowngradeRelease(t)
  <2>1. pi_benef' = None
    BY <1>8, <1>10 DEF DowngradeRelease
  <2> QED
    BY <2>1 DEF BenefOK
<1>11. CASE WriterExit(t)
  <2>1. CASE waiters
    <3>1. Release(WriterWakes, TRUE) /\ other' = other /\ WriterWakes \in {ts_sleepq, FirstWriterOff, AllReadersOff}
      BY <1>11, <2>1 DEF WriterExit, WriterWakes
    <3>2. pi_benef' = None
      BY <1>8, <3>1
    <3> QED
      BY <3>2 DEF BenefOK
  <2>2. CASE ~waiters
    BY <1>0, <1>11, <2>2 DEF WriterExit, NoRelease, pivars, BenefOK
  <2> QED
    BY <2>1, <2>2
<1>12. CASE ReaderExit(t)
  <2>1. /\ owner' = (IF owner = t THEN None ELSE owner) /\ rw' = rw /\ pc' = [pc EXCEPT ![t] = "run"] /\ rw[t] = "R"
        /\ \A u \in Threads : pc[u] = "exit" => u = t
    BY <1>0, <1>12, Typing DEF ReaderExit, Goto, PlaceOK
  <2>2. pi_benef # None => pi_benef = owner
    BY <1>0, <2>1, Typing DEF BenefOK
  <2>3. CASE owner = t
    <3>1. pi_benef' = None
      <4>1. CASE waiters /\ holdcnt = 0
        <5>1. Release(FirstWriterOff, owner = t) /\ other' = other /\ (owner = t) \in BOOLEAN
          BY <1>12, <4>1 DEF ReaderExit
        <5> QED
          BY <1>8, <2>3, <5>1
      <4>2. CASE waiters /\ holdcnt # 0
        BY <1>12, <2>3, <4>2 DEF ReaderExit, Waive
      <4>3. CASE ~waiters
        BY <1>0, <1>12, <2>3, <4>3 DEF ReaderExit, NoRelease, pivars, BenefOK
      <4> QED
        BY <4>1, <4>2, <4>3
    <3> QED
      BY <3>1 DEF BenefOK
  <2>4. CASE owner # t
    <3>1. pi_benef' = None \/ (pi_benef' = pi_benef /\ (waiters => waiters'))
      <4>1. CASE waiters /\ holdcnt = 0
        <5>1. Release(FirstWriterOff, owner = t) /\ other' = other /\ (owner = t) \in BOOLEAN
          BY <1>12, <4>1 DEF ReaderExit
        <5> QED
          BY <1>8, <5>1
      <4>2. CASE ~(waiters /\ holdcnt = 0)
        BY <1>12, <2>4, <4>2 DEF ReaderExit, NoRelease, tsvars, pivars
      <4> QED
        BY <4>1, <4>2
    <3> QED
      BY <1>0, <2>1, <2>2, <2>4, <3>1 DEF BenefOK
  <2> QED
    BY <2>3, <2>4
<1>13. CASE PiWillto(t)
  <2>1. Will(Prio[t], t_epri) /\ other' = other /\ Prio[t] \in Nat /\ t_epri \in [Threads -> Nat] /\ other' \in [Threads -> OtherPris \cup {0}]
    BY <1>13, PriTypes DEF PiWillto, PiTypes
  <2>2. pi_benef' \in {pi_benef, owner}
    BY <2>1, WillKeeps
  <2>3. waiters' /\ owner' = owner /\ rw' = rw /\ pc[t] # "exit" /\ \A u \in Threads \ {t} : pc'[u] = pc[u]
    BY <1>0, <1>13, Typing DEF PiWillto, AttachedOK, Asleep, Goto, lockvars, tsvars, Modes
  <2> QED
    BY <1>0, <1>1, <2>2, <2>3
<1>14. CASE AmendWriter(t)
  <2>1. waiters' /\ owner' = owner /\ rw' = rw /\ pc[t] # "exit" /\ owner = t /\ \A u \in Threads \ {t} : pc'[u] = pc[u]
    BY <1>0, <1>14, Typing DEF AmendWriter, AttachedOK, PlaceOK, OwnerOK, Goto, lockvars, tsvars
  <2>2. CASE Amend(t)
    BY <1>14, <2>1, <2>2, AmendKeeps DEF AmendWriter, BenefOK
  <2>3. CASE UNCHANGED pivars
    BY <1>2, <2>1, <2>3 DEF pivars
  <2> QED
    BY <1>14, <2>2, <2>3 DEF AmendWriter
<1> QED
  BY <1>3, <1>4, <1>5, <1>6, <1>7, <1>9, <1>10, <1>11, <1>12, <1>13, <1>14 DEF Call, Step, Modes

-----------------------------------------------------------------------
(* The other variables keep their types. *)
PlaceTypes ==
  /\ mp \in Threads \cup {None} /\ owner \in Threads \cup {None} /\ rw_wlock \in Threads \cup {None}
  /\ waiters \in BOOLEAN /\ panicstr \in BOOLEAN
  /\ pc \in [Threads -> PCs] /\ rw \in [Threads -> Modes] /\ hold \in [Threads -> Modes \cup {None}]

(* The place of each thread and the fields keep their types. *)
LEMMA PlaceTypesNext ==
  ASSUME Inv, NEW t \in Threads, Call(t) \/ Step(t)
  PROVE  PlaceTypes'
<1>0. PlaceTypes /\ \A l \in {"run", "fail", "recheck", "pi", "swtch", "retest", "look", "amend", "down", "downrel", "exit", "lost"} : l \in PCs
  BY DEF Inv, TypeOK, PlaceTypes, PCs
<1>1. ASSUME NEW k \in Modes, RwEnter(t, k) \/ RwTryenter(t, k) \/ (ReaderAgain(t) /\ k = "R") \/ (WriterRetest(t) /\ k = "W")
      PROVE  PlaceTypes'
  <2>1. mp' \in {None, mp} /\ rw_wlock' = rw_wlock /\ waiters' = waiters /\ panicstr' = panicstr /\ rw' \in [Threads -> Modes]
    BY <1>0, <1>1 DEF RwEnter, RwTryenter, ReaderAgain, WriterRetest, PlaceTypes, tsvars
  <2>2. CASE Waits(t, k)
    BY <1>0, <2>1, <2>2 DEF Waits, PlaceTypes
  <2>3. CASE Grant(t, k) /\ (Enters(t, k) \/ pc' = pc)
    BY <1>0, <2>1, <2>3 DEF Grant, Enters, PlaceTypes
  <2>4. CASE RwTryenter(t, k)
    BY <2>3, <2>4 DEF RwTryenter
  <2> QED
    BY <1>1, <2>2, <2>3, <2>4, TestCases DEF RwEnter, ReaderAgain, WriterRetest, Enters
<1>2. CASE RwDowngrade(t) \/ RwTryupgrade(t)
  BY <1>0, <1>2 DEF RwDowngrade, RwTryupgrade, Goto, PlaceTypes, tsvars, Modes
<1>3. CASE RwExit(t)
  BY <1>0, <1>3 DEF RwExit, Goto, PlaceTypes, tsvars
<1>4. CASE PanicReturn(t) \/ FindTurnstile(t) \/ Recheck(t) \/ PiWillto(t)
  BY <1>0, <1>4 DEF PanicReturn, FindTurnstile, Recheck, PiWillto, Goto, PlaceTypes, tsvars, lockvars
<1>5. CASE WriterAgain(t) \/ LookWaiters(t) \/ AmendWriter(t) \/ DowngradeLook(t)
  BY <1>0, <1>5 DEF WriterAgain, LookWaiters, AmendWriter, DowngradeLook, Goto, PlaceTypes, tsvars, lockvars
<1>6. CASE RwDestroy(t) \/ DowngradeRelease(t)
  BY <1>0, <1>6 DEF RwDestroy, DowngradeRelease, Release, NoRelease, Goto, PlaceTypes, tsvars, lockvars
<1>7. CASE WriterExit(t) \/ ReaderExit(t)
  <2>1. waiters' \in BOOLEAN
    BY <1>0, <1>7 DEF WriterExit, ReaderExit, Release, NoRelease, PlaceTypes, tsvars
  <2> QED
    BY <1>0, <1>7, <2>1 DEF WriterExit, ReaderExit, Goto, PlaceTypes, lockvars
<1> QED
  BY <1>1, <1>2, <1>3, <1>4, <1>5, <1>6, <1>7 DEF Call, Step, Modes

(* So every step of a call keeps the invariant. *)
LEMMA CallNext ==
  ASSUME Inv, NEW t \in Threads, Call(t) \/ Step(t)
  PROVE  Inv'
<1>1. PlaceTypes' /\ PiTypes' /\ ts_sleepq' \in [Modes -> Seq(Threads)] /\ t_kpri_req' \in [Threads -> Nat]
  BY PlaceTypesNext, EpriNext, QueueNext, KpriNext
<1>2. HeldOK' /\ writewanted' \in Nat /\ writewanted' = Cardinality(Claimants')
  BY HeldNext, WantedNext
<1>3. Cardinality(Holders("R")') \in Nat
  <2>1. Holders("R")' \subseteq Threads
    BY DEF Holders
  <2> QED
    BY <2>1, RWLockAssumption, FS_Subset, FS_CardinalityType
<1>4. holdcnt' \in Nat \cup {-1}
  BY <1>2, <1>3 DEF HeldOK
<1>5. TypeOK'
  BY <1>1, <1>2, <1>4 DEF TypeOK, PlaceTypes, PiTypes
<1>6. CountOK'
  BY <1>2 DEF CountOK, HeldOK
<1> QED
  BY <1>5, <1>6, PlaceNext, KpriNext, OwnerNext, QueueNext, AttachedNext, BenefNext DEF Inv

(* A sleeper that is made to inherit through another object is moved in    *)
(* its queue, and passes what it inherits on to the owner.                 *)
LEMMA ChangePriQueues ==
  ASSUME Inv, NEW t \in Threads, NEW p \in OtherPris, ChangePri(t, p)
  PROVE  /\ PiTypes' /\ pi_benef' \in {pi_benef, owner} /\ ts_sleepq' \in [Modes -> Seq(Threads)]
         /\ \A u \in Threads, j \in Modes : Queued(u, j)' <=> Queued(u, j)
         /\ \A j \in Modes : QueueOK(j)'
<1> DEFINE e == [t_epri EXCEPT ![t] = p]
           prio == DispPrio(Pri, e)
           k == rw[t]
<1>0. /\ Asleep(t) /\ rw[t] \in Modes /\ UNCHANGED <<mp, holdcnt, writewanted, owner, waiters, rw_wlock, t_kpri_req, pc, rw, hold, panicstr>>
      /\ other' = [other EXCEPT ![t] = p] /\ Will(p, e)
      /\ ts_sleepq' = [ts_sleepq EXCEPT ![rw[t]] = SleepqInsert(SleepqDequeue(ts_sleepq[rw[t]], t), t, prio)]
  BY Typing DEF ChangePri, Requeue, lockvars
<1>1. p \in Nat /\ e \in [Threads -> Nat] /\ other' \in [Threads -> OtherPris \cup {0}]
  <2>1. p \in Nat
    BY RWLockAssumption
  <2> QED
    BY <1>0, <2>1, PriTypes DEF PiTypes
<1>2. PiTypes' /\ (\A u \in Threads : u # owner => t_epri'[u] = e[u]) /\ pi_benef' \in {pi_benef, owner}
  <2> HIDE DEF e
  <2> QED
    BY <1>0, <1>1, WillKeeps
<1>3. /\ \A u \in Threads : prio[u] = (IF e[u] # 0 THEN e[u] ELSE Pri[u])
      /\ prio \in [Threads -> Nat]
  <2>1. \A u \in Threads : prio[u] = (IF e[u] # 0 THEN e[u] ELSE Pri[u])
    BY RWLockAssumption DEF DispPrio
  <2>2. \A u \in Threads : e[u] \in Nat /\ Pri[u] \in Nat
    BY <1>1, PriTypes
  <2>3. \A u \in Threads : prio[u] \in Nat
    BY <2>1, <2>2
  <2>4. DOMAIN Pri = Threads
    BY RWLockAssumption
  <2>5. prio = [u \in Threads |-> IF e[u] # 0 THEN e[u] ELSE Pri[u]]
    BY <2>4 DEF DispPrio
  <2> QED
    BY <2>1, <2>3, <2>5
<1>4. \A u \in Threads \ {t} : e[u] = t_epri[u]
  BY Typing
<1> HIDE DEF e, prio
<1>5. \A u \in Threads \ {t} : prio[u] = Prio[u]
  BY <1>3, <1>4, PriTypes
<1>6. \A u \in Threads : Asleep(u) => Prio'[u] = prio[u]
  <2>1. \A u \in Threads : Prio'[u] = (IF t_epri'[u] # 0 THEN t_epri'[u] ELSE Pri[u])
    BY RWLockAssumption DEF Prio, DispPrio
  <2>2. \A u \in Threads : Asleep(u) => u # owner
    BY AwakeOwner, Typing
  <2>3. \A u \in Threads : Asleep(u) => t_epri'[u] = e[u]
    BY <1>2, <2>2
  <2> QED
    BY <1>3, <2>1, <2>3
<1>7. /\ ts_sleepq \in [Modes -> Seq(Threads)]
      /\ \A j \in Modes : QueueOK(j) /\ ts_sleepq[j] \in Seq(Threads)
  BY DEF Inv, TypeOK
<1>8. Queued(t, k) /\ \A j \in Modes \ {k} : ~Queued(t, j)
  BY <1>0, <1>7 DEF Asleep, QueueOK, Modes
<1> DEFINE r == SleepqInsert(SleepqDequeue(ts_sleepq[k], t), t, prio)
<1>9. r \in Seq(Threads) /\ Distinct(r) /\ InOrder(r, prio) /\ \A x : OnQueue(r, x) <=> OnQueue(ts_sleepq[k], x)
  <2>1. /\ ts_sleepq[k] \in Seq(Threads) /\ Distinct(ts_sleepq[k]) /\ OnQueue(ts_sleepq[k], t) /\ InOrder(ts_sleepq[k], Prio)
        /\ prio \in [Threads -> Nat] /\ Prio \in [Threads -> Nat] /\ \A x \in Threads \ {t} : prio[x] = Prio[x]
    BY <1>0, <1>3, <1>5, <1>7, <1>8, PriTypes DEF QueueOK, Queued
  <2> QED
    BY <2>1, RequeueSound
<1>10. ts_sleepq' = [ts_sleepq EXCEPT ![k] = r]
  BY <1>0
<1> HIDE DEF r
<1>11. /\ ts_sleepq' \in [Modes -> Seq(Threads)] /\ ts_sleepq'[k] = r
       /\ \A j \in Modes \ {k} : ts_sleepq'[j] = ts_sleepq[j]
  BY <1>0, <1>7, <1>9, <1>10
<1>12. \A u \in Threads, j \in Modes : Queued(u, j)' <=> Queued(u, j)
  BY <1>9, <1>11 DEF Queued
<1>13. ASSUME NEW j \in Modes PROVE InOrder(ts_sleepq'[j], Prio') /\ Distinct(ts_sleepq'[j])
  <2>1. \A x : OnQueue(ts_sleepq'[j], x) => x \in Threads /\ Asleep(x) /\ OnQueue(ts_sleepq[j], x)
    <3>1. \A x : OnQueue(ts_sleepq'[j], x) => OnQueue(ts_sleepq[j], x)
      BY <1>9, <1>11
    <3>2. \A x : OnQueue(ts_sleepq[j], x) => x \in Threads
      BY <1>7 DEF OnQueue
    <3> QED
      BY <3>1, <3>2 DEF Asleep, Queued, Modes
  <2>2. CASE j = k
    <3>1. \A x : OnQueue(r, x) => Prio'[x] = prio[x]
      BY <1>6, <1>11, <2>1, <2>2
    <3> QED
      BY <1>9, <1>11, <2>2, <3>1, OrderOfMembers
  <2>3. CASE j # k
    <3>1. \A x : OnQueue(ts_sleepq[j], x) => Prio'[x] = Prio[x]
      BY <1>5, <1>6, <1>8, <1>11, <2>1, <2>3 DEF Queued
    <3>2. InOrder(ts_sleepq[j], Prio) /\ Distinct(ts_sleepq[j])
      BY <1>7 DEF QueueOK
    <3> QED
      BY <1>11, <2>3, <3>1, <3>2, OrderOfMembers
  <2> QED
    BY <2>2, <2>3
<1>14. \A j \in Modes : QueueOK(j)'
  BY <1>0, <1>7, <1>12, <1>13 DEF QueueOK
<1> QED
  BY <1>2, <1>11, <1>12, <1>14

(* Nothing else that the invariant speaks of changes. *)
LEMMA ChangePriNext ==
  ASSUME Inv, NEW t \in Threads, NEW p \in OtherPris, ChangePri(t, p)
  PROVE  Inv'
<1>0. Asleep(t) /\ UNCHANGED <<mp, holdcnt, writewanted, owner, waiters, rw_wlock, t_kpri_req, pc, rw, hold, panicstr>>
  BY DEF ChangePri, lockvars
<1>1. /\ PiTypes' /\ pi_benef' \in {pi_benef, owner} /\ ts_sleepq' \in [Modes -> Seq(Threads)]
      /\ \A u \in Threads, j \in Modes : Queued(u, j)' <=> Queued(u, j)
      /\ \A j \in Modes : QueueOK(j)'
  BY ChangePriQueues
<1>2. \A u \in Threads : Asleep(u)' <=> Asleep(u)
  BY <1>1 DEF Asleep, Modes
<1>3. TypeOK'
  BY <1>0, <1>1 DEF Inv, TypeOK, PiTypes
<1>4. CountOK' /\ OwnerOK'
  BY <1>0 DEF Inv, CountOK, OwnerOK, Holders, Claimants, Claiming
<1>5. \A u \in Threads : PlaceOK(u)' /\ KpriOK(u)'
  BY <1>0 DEF Inv, PlaceOK, KpriOK
<1>6. AttachedOK'
  BY <1>0, <1>1, <1>2, Typing DEF Inv, AttachedOK
<1>7. BenefOK'
  <2>1. waiters
    BY <1>0 DEF Inv, AttachedOK
  <2> QED
    BY <1>0, <1>1, <2>1 DEF Inv, BenefOK
<1> QED
  BY <1>1, <1>3, <1>4, <1>5, <1>6, <1>7 DEF Inv

(* A thread gives up the other object it holds; it is awake. *)
LEMMA OtherWaivedNext ==
  ASSUME Inv, NEW t \in Threads, OtherWaived(t)
  PROVE  Inv'
<1>0. /\ UNCHANGED <<mp, holdcnt, writewanted, owner, waiters, rw_wlock, t_kpri_req, pc, rw, hold, panicstr, ts_sleepq, pi_benef, pi_epri_hi>>
      /\ other' = [other EXCEPT ![t] = 0]
      /\ t_epri' = [t_epri EXCEPT ![t] = IF pi_benef = t THEN Max2(Pri[t], pi_epri_hi) ELSE 0]
      /\ pc[t] = "run"
  BY DEF OtherWaived, lockvars, tsvars
<1>1. PiTypes' /\ \A u \in Threads \ {t} : t_epri'[u] = t_epri[u]
  <2>1. PiTypes /\ Pri[t] \in Nat
    BY PriTypes
  <2> QED
    BY <1>0, <2>1 DEF PiTypes, Max2
<1>2. ~Asleep(t)
  BY <1>0 DEF Inv, QueueOK, Asleep, Modes
<1>3. \A k \in Modes : Shrunk(k)
  BY <1>0, ReleaseShrinks
<1>4. \A k \in Modes : QueueOK(k)'
  <2>1. SUFFICES ASSUME NEW k \in Modes PROVE QueueOK(k)'
    OBVIOUS
  <2>2. \A u \in Threads : Queued(u, k)' => u # t
    BY <1>2, <1>3 DEF Shrunk, Asleep, Modes
  <2> QED
    BY <1>0, <1>1, <1>3, <2>2, QueueKept
<1>5. TypeOK'
  BY <1>0, <1>1 DEF Inv, TypeOK, PiTypes
<1>6. CountOK' /\ OwnerOK' /\ AttachedOK' /\ BenefOK'
  BY <1>0 DEF Inv, CountOK, OwnerOK, AttachedOK, BenefOK, Holders, Claimants, Claiming, Asleep, Queued
<1>7. \A u \in Threads : PlaceOK(u)' /\ KpriOK(u)'
  BY <1>0 DEF Inv, PlaceOK, KpriOK
<1> QED
  BY <1>4, <1>5, <1>6, <1>7 DEF Inv

(* A step that changes nothing but panicstr, once and for all. *)
LEMMA QuietNext ==
  ASSUME Inv, Panic \/ UNCHANGED vars
  PROVE  Inv'
<1>0. /\ UNCHANGED <<mp, holdcnt, writewanted, owner, waiters, rw_wlock, t_kpri_req, pc, rw, hold, ts_sleepq, pi_benef, pi_epri_hi, t_epri, other>>
      /\ panicstr' \in BOOLEAN /\ (panicstr => panicstr')
  BY DEF Panic, vars, lockvars, tsvars, pivars, Inv, TypeOK
<1>1. TypeOK'
  BY <1>0 DEF Inv, TypeOK
<1>2. CountOK' /\ OwnerOK' /\ AttachedOK' /\ BenefOK'
  BY <1>0 DEF Inv, CountOK, OwnerOK, AttachedOK, BenefOK, Holders, Claimants, Claiming, Asleep, Queued
<1>3. \A u \in Threads : PlaceOK(u)' /\ KpriOK(u)'
  BY <1>0 DEF Inv, PlaceOK, KpriOK
<1>4. Prio' = Prio
  BY <1>0 DEF Prio, DispPrio
<1>5. \A k \in Modes : QueueOK(k)'
  BY <1>0, <1>4 DEF Inv, QueueOK, Queued
<1> QED
  BY <1>1, <1>2, <1>3, <1>5 DEF Inv

(* rw_init(): nobody has the lock and no turnstile is attached. *)
LEMMA InvInit == Init => Inv
<1> SUFFICES ASSUME Init PROVE Inv
  OBVIOUS
<1>1. \A t \in Threads : pc[t] = "run" /\ rw[t] = "R" /\ hold[t] = None /\ t_kpri_req[t] = 0
  BY DEF Init
<1>2. \A k \in Modes : ts_sleepq[k] = << >> /\ Len(ts_sleepq[k]) = 0
  BY DEF Init
<1>3. Holders("R") = {} /\ Claimants = {}
  BY <1>1, RWLockAssumption DEF Holders, Claimants, Claiming
<1>4. Cardinality({}) = 0
  BY FS_EmptySet
<1>5. CountOK
  BY <1>1, <1>3, <1>4, RWLockAssumption DEF CountOK, Init
<1>6. TypeOK
  <2>1. << >> \in Seq(Threads)
    OBVIOUS
  <2> QED
    BY <2>1 DEF Init, TypeOK, PCs, Modes
<1>7. \A k \in Modes : QueueOK(k)
  BY <1>2 DEF QueueOK, Distinct, InOrder, Queued, OnQueue
<1>8. \A t \in Threads : ~Asleep(t)
  BY <1>2 DEF Asleep, Queued, OnQueue, Modes
<1>9. AttachedOK /\ BenefOK
  BY <1>1, <1>8 DEF AttachedOK, BenefOK, Init
<1>10. OwnerOK
  BY <1>1, RWLockAssumption DEF OwnerOK, Init
<1>11. \A t \in Threads : PlaceOK(t) /\ KpriOK(t)
  BY <1>1, RWLockAssumption DEF PlaceOK, KpriOK, Init
<1> QED
  BY <1>5, <1>6, <1>7, <1>9, <1>10, <1>11 DEF Inv

(* The invariant is inductive. *)
LEMMA InvNext == Inv /\ [Next]_vars => Inv'
BY CallNext, ChangePriNext, OtherWaivedNext, QuietNext DEF Next

(* The inductive invariant holds of every behaviour. *)
THEOREM RWLockInv == Spec => []Inv
BY InvInit, InvNext, PTL DEF Spec

(* The lock, its turnstile and its readers' kernel priority agree at every *)
(* step of rw_enter(), rw_exit(), rw_downgrade(), rw_tryupgrade() and of a *)
(* change of a sleeper's priority, for every set of threads.               *)
THEOREM RWLockSound == Spec => []LockSound
<1>1. ASSUME Inv PROVE LockSound
  <2>0. /\ \A t \in Threads : PlaceOK(t) /\ KpriOK(t)
        /\ TypeOK /\ CountOK /\ OwnerOK /\ AttachedOK /\ BenefOK /\ \A k \in Modes : QueueOK(k)
    BY <1>1 DEF Inv
  <2>1. FieldsSound
    <3>1. SUFFICES ASSUME ~panicstr PROVE FieldsSound!2
      BY DEF FieldsSound
    <3>2. Wanting = Claimants
      BY <2>0, <3>1 DEF Wanting, Claimants, Claiming, PlaceOK
    <3>3. Holders("W") # {} <=> \E t \in Threads : hold[t] = "W"
      BY DEF Holders
    <3>4. holdcnt = IF Holders("W") # {} THEN -1 ELSE Cardinality(Holders("R"))
      BY <2>0, <3>3 DEF CountOK
    <3>5. Holders("W") # {} => Holders("W") = {owner} /\ Holders("R") = {}
      BY <2>0 DEF Holders, OwnerOK
    <3>6. owner # None => hold[owner] # None \/ pc[owner] = "exit"
      BY <2>0 DEF OwnerOK
    <3>7. \A t \in Threads : t_kpri_req[t] = IF hold[t] = "R" \/ (pc[t] = "exit" /\ rw[t] = "R") THEN 1 ELSE 0
      BY <2>0 DEF KpriOK
    <3>8. (\A t \in Threads : pc[t] = "run" /\ hold[t] = None) => ~waiters
      BY <2>0 DEF AttachedOK
    <3>9. writewanted = Cardinality(Wanting)
      BY <2>0, <3>2 DEF CountOK
    <3> QED
      BY <3>4, <3>5, <3>6, <3>7, <3>8, <3>9
  <2>2. TurnstileSound
    <3>1. ASSUME NEW k \in Modes, NEW t \in Sleepers(ts_sleepq[k]) PROVE rw[t] = k /\ pc[t] \in {"pi", "swtch"}
      <4>1. ts_sleepq[k] \in Seq(Threads) /\ OnQueue(ts_sleepq[k], t)
        BY <2>0, SleepersOnQueue DEF TypeOK
      <4>2. t \in Threads
        BY <4>1 DEF OnQueue
      <4> QED
        BY <2>0, <4>1, <4>2 DEF QueueOK, Queued
    <3>2. (\E t \in Threads : Asleep(t) \/ pc[t] \in {"amend", "downrel"}) => waiters
      BY <2>0 DEF AttachedOK
    <3>3. pi_benef # None => pi_benef = owner \/ (pc[pi_benef] = "exit" /\ mp = pi_benef)
      BY <2>0 DEF BenefOK, PlaceOK, TypeOK
    <3> QED
      BY <2>0, <3>1, <3>2, <3>3 DEF TurnstileSound, QueueOK
  <2> QED
    BY <2>0, <2>1, <2>2 DEF LockSound
<1> QED
  BY <1>1, RWLockInv, PTL

-----------------------------------------------------------------------
(* The two halves of NoLostWakeup. *)
ReadersWatched ==
  (\E t \in Threads : Queued(t, "R")) =>
    \/ ReaderMustWait
    \/ \E u \in Threads : pc[u] \in {"retest", "down", "downrel"} \/ (pc[u] = "exit" /\ rw[u] = "W")
WritersWatched ==
  (\E t \in Threads : Queued(t, "W")) =>
    \/ holdcnt # 0
    \/ \E u \in Threads : pc[u] \in {"retest", "exit"} \/ (u \in Wanting /\ ~Asleep(u))

(* No step leaves a reader asleep that nobody will wake. *)
LEMMA ReadersNext ==
  ASSUME Inv, ReadersWatched, NEW t \in Threads, Call(t) \/ Step(t)
  PROVE  ReadersWatched'
<1>0. /\ \A u \in Threads : PlaceOK(u)
      /\ AttachedOK /\ OwnerOK
      /\ \A u \in Threads : Asleep(u) => pc[u] \in {"pi", "swtch"}
  BY DEF Inv, QueueOK, Asleep, Modes
<1>1. ASSUME ts_sleepq'["R"] = ts_sleepq["R"], rw' = rw, holdcnt' = holdcnt, writewanted' = writewanted,
             \A u \in Threads \ {t} : pc'[u] = pc[u],
             pc[t] \notin {"retest", "down", "downrel"} /\ (pc[t] = "exit" => rw[t] = "R")
      PROVE  ReadersWatched'
  BY <1>0, <1>1 DEF ReadersWatched, ReaderMustWait, Queued
<1>2. ASSUME ts_sleepq'["R"] = << >> PROVE ReadersWatched'
  <2>1. \A u : ~OnQueue(<< >>, u)
    BY DEF OnQueue
  <2> QED
    BY <1>2, <2>1 DEF ReadersWatched, Queued
<1>3. ASSUME NEW k \in Modes, RwEnter(t, k) \/ RwTryenter(t, k) \/ (ReaderAgain(t) /\ k = "R") \/ (WriterRetest(t) /\ k = "W")
      PROVE  ReadersWatched'
  <2>1. ts_sleepq' = ts_sleepq /\ pc[t] \notin {"exit", "down", "downrel"} /\ (pc[t] = "retest" => k = "W")
        /\ \A u \in Threads \ {t} : rw'[u] = rw[u]
    BY <1>3, Typing DEF RwEnter, RwTryenter, ReaderAgain, WriterRetest, tsvars
  <2>2. CASE Waits(t, k) /\ k = "W"
    BY <2>1, <2>2, Typing DEF Waits, ReadersWatched, ReaderMustWait
  <2>3. CASE Waits(t, k) /\ k = "R"
    BY <2>1, <2>3, Typing DEF Waits, MustWait, ReadersWatched, ReaderMustWait
  <2>4. CASE ~MustWait(k) /\ Grant(t, k) /\ k = "W"
    BY <2>1, <2>4, Typing DEF Grant, ReadersWatched, ReaderMustWait
  <2>5. CASE ~MustWait(k) /\ Grant(t, k) /\ k = "R" /\ \A u \in Threads \ {t} : pc'[u] = pc[u]
    <3>1. \A u \in Threads : (pc[u] \in {"retest", "down", "downrel"} \/ (pc[u] = "exit" /\ rw[u] = "W"))
             => (pc'[u] \in {"retest", "down", "downrel"} \/ (pc'[u] = "exit" /\ rw'[u] = "W"))
      BY <2>1, <2>5
    <3>2. ~ReaderMustWait
      BY <2>5 DEF MustWait
    <3> QED
      BY <2>1, <3>1, <3>2 DEF ReadersWatched, Queued
  <2>6. Waits(t, k) \/ (~MustWait(k) /\ Grant(t, k) /\ \A u \in Threads \ {t} : pc'[u] = pc[u])
    BY <1>3, TestCases, Typing DEF RwEnter, RwTryenter, ReaderAgain, WriterRetest, Enters
  <2> QED
    BY <2>2, <2>3, <2>4, <2>5, <2>6 DEF Modes
<1>4. CASE RwDowngrade(t)
  <2>1. pc'[t] = "down" \/ writewanted' > 0
    BY <1>4, Typing DEF RwDowngrade, Goto
  <2> QED
    BY <2>1 DEF ReadersWatched, ReaderMustWait
<1>5. CASE RwTryupgrade(t)
  BY <1>5, Typing DEF RwTryupgrade, ReadersWatched, ReaderMustWait
<1>6. CASE RwExit(t)
  <2>1. CASE hold[t] = "W"
    BY <1>6, <2>1, Typing DEF RwExit, Goto, ReadersWatched
  <2>2. CASE hold[t] # "W"
    <3>1. /\ holdcnt' = holdcnt - 1 /\ writewanted' = writewanted /\ pc[t] = "run" /\ ts_sleepq' = ts_sleepq
          /\ \A u \in Threads \ {t} : pc'[u] = pc[u] /\ rw'[u] = rw[u]
      BY <1>6, <2>2, Typing DEF RwExit, Goto, tsvars
    <3>2. ReaderMustWait => ReaderMustWait'
      BY <3>1, Typing DEF ReaderMustWait
    <3> QED
      BY <3>1, <3>2 DEF ReadersWatched, Queued
  <2> QED
    BY <2>1, <2>2
<1>7. CASE RwDestroy(t)
  <2>1. \A u \in Threads : ~Asleep(u)
    BY <1>0, <1>7 DEF RwDestroy
  <2>2. ts_sleepq' = ts_sleepq
    BY <1>7 DEF RwDestroy, Release, NoRelease, tsvars
  <2> QED
    BY <2>1, <2>2 DEF ReadersWatched, Asleep, Queued
<1>8. CASE PanicReturn(t) \/ FindTurnstile(t) \/ PiWillto(t) \/ LookWaiters(t) \/ AmendWriter(t)
  BY <1>1, <1>8, Typing DEF PanicReturn, FindTurnstile, PiWillto, LookWaiters, AmendWriter, Goto, tsvars, lockvars
<1>9. CASE Recheck(t)
  <2>1. CASE StillMustWait(t) /\ rw[t] = "R"
    BY <1>9, <2>1 DEF Recheck, StillMustWait, MustWait, ReadersWatched, ReaderMustWait, lockvars
  <2>2. CASE ~(StillMustWait(t) /\ rw[t] = "R")
    <3>1. ts_sleepq'["R"] = ts_sleepq["R"] /\ pc' = [pc EXCEPT ![t] = IF StillMustWait(t) THEN "pi" ELSE "swtch"]
      BY <1>9, <2>2, Typing DEF Recheck, Goto
    <3> QED
      BY <1>1, <1>9, <3>1, Typing DEF Recheck, lockvars
  <2> QED
    BY <2>1, <2>2
<1>10. CASE WriterAgain(t)
  BY <1>10, Typing DEF WriterAgain, Goto, ReadersWatched
<1>11. CASE DowngradeLook(t)
  <2>1. CASE waiters
    BY <1>11, <2>1, Typing DEF DowngradeLook, Goto, ReadersWatched
  <2>2. CASE ~waiters
    <3>1. \A u \in Threads : ~Asleep(u)
      BY <1>0, <2>2 DEF AttachedOK
    <3> QED
      BY <1>11, <3>1 DEF DowngradeLook, ReadersWatched, Asleep, Queued, tsvars
  <2> QED
    BY <2>1, <2>2
<1>12. CASE DowngradeRelease(t)
  <2>1. ts_sleepq'["R"] = << >>
    BY <1>12, Typing DEF DowngradeRelease, Release, AllReadersOff
  <2> QED
    BY <1>2, <2>1
<1>13. CASE WriterExit(t)
  <2>1. CASE ~waiters
    <3>1. \A u \in Threads : ~Asleep(u)
      BY <1>0, <2>1 DEF AttachedOK
    <3> QED
      BY <1>13, <2>1, <3>1 DEF WriterExit, NoRelease, ReadersWatched, Asleep, Queued, tsvars
  <2>2. CASE waiters /\ writewanted > 0
    BY <1>13, <2>2 DEF WriterExit, ReadersWatched, ReaderMustWait, lockvars
  <2>3. CASE waiters /\ ~(writewanted > 0)
    <3>1. ts_sleepq'["R"] = << >>
      BY <1>13, <2>3, Typing DEF WriterExit, WriterWakes, Release, AllReadersOff
    <3> QED
      BY <1>2, <3>1
  <2> QED
    BY <2>1, <2>2, <2>3
<1>14. CASE ReaderExit(t)
  <2>1. ts_sleepq'["R"] = ts_sleepq["R"]
    BY <1>14, Typing DEF ReaderExit, Release, FirstWriterOff, NoRelease, tsvars
  <2> QED
    BY <1>1, <1>14, <2>1, Typing DEF ReaderExit, Goto
<1> QED
  BY <1>3, <1>4, <1>5, <1>6, <1>7, <1>8, <1>9, <1>10, <1>11, <1>12, <1>13, <1>14 DEF Call, Step, Modes

(* A writer that t_release() takes off the queue is awake and has asked. *)
LEMMA WriterWoken ==
  ASSUME Inv, ts_sleepq' = FirstWriterOff, \E u \in Threads : Queued(u, "W")', NEW t \in Threads,
         pc[t] \notin {"pi", "swtch"}, \A u \in Threads \ {t} : pc'[u] = pc[u], rw' = rw
  PROVE  \E u \in Threads : u \in Wanting' /\ ~Asleep(u)'
<1> DEFINE q == ts_sleepq["W"]
<1>0. /\ ts_sleepq \in [Modes -> Seq(Threads)] /\ q \in Seq(Threads) /\ Distinct(q)
      /\ \A k \in Modes, u \in Threads : Queued(u, k) => rw[u] = k /\ pc[u] \in {"pi", "swtch"}
  BY DEF Inv, QueueOK, TypeOK, Modes
<1>1. q # << >>
  <2>1. SUFFICES ASSUME q = << >> PROVE FALSE
    OBVIOUS
  <2>2. ts_sleepq' = ts_sleepq
    BY <1>0, <2>1 DEF FirstWriterOff, Modes
  <2> QED
    BY <2>1, <2>2 DEF Queued, OnQueue
<1>2. ts_sleepq'["W"] = Tail(q) /\ ts_sleepq'["R"] = ts_sleepq["R"]
  BY <1>0, <1>1 DEF FirstWriterOff, Modes
<1>3. q[1] \in Threads /\ OnQueue(q, q[1])
  <2>1. Len(q) >= 1
    BY <1>0, <1>1
  <2> QED
    BY <1>0, <2>1 DEF OnQueue
<1>4. ~OnQueue(Tail(q), q[1])
  <2> HIDE DEF q
  <2> QED
    BY <1>0, <1>1, TailRemoves
<1> PICK w \in Threads : w = q[1]
  BY <1>3
<1>5. rw[w] = "W" /\ pc[w] \in {"pi", "swtch"} /\ ~Queued(w, "R")
  <2>1. Queued(w, "W") /\ "W" \in Modes /\ "R" \in Modes
    BY <1>3 DEF Queued, Modes
  <2> QED
    BY <1>0, <2>1
<1>6. ~Asleep(w)'
  BY <1>2, <1>4, <1>5 DEF Asleep, Queued
<1>7. w \in Wanting'
  BY <1>5 DEF Wanting
<1> QED
  BY <1>6, <1>7

(* No step leaves a writer asleep that nobody will wake. *)
LEMMA WritersNext ==
  ASSUME Inv, ~panicstr, WritersWatched, NEW t \in Threads, Call(t) \/ Step(t)
  PROVE  WritersWatched'
<1>0. /\ \A u \in Threads : PlaceOK(u)
      /\ AttachedOK /\ OwnerOK
      /\ \A u \in Threads : Asleep(u) => pc[u] \in {"pi", "swtch"}
      /\ \A u \in Threads : Queued(u, "W") => rw[u] = "W" /\ pc[u] \in {"pi", "swtch"}
  BY DEF Inv, QueueOK, Asleep, Modes
<1>1. ASSUME UNCHANGED ts_sleepq, holdcnt' = holdcnt, \A u \in Threads \ {t} : pc'[u] = pc[u] /\ rw'[u] = rw[u],
             pc[t] \in {"retest", "exit"} \/ (t \in Wanting /\ ~Asleep(t)) =>
               pc'[t] \in {"retest", "exit"} \/ t \in Wanting'
      PROVE  WritersWatched'
  <2>1. \A u \in Threads : Asleep(u)' <=> Asleep(u)
    BY <1>1 DEF Asleep, Queued
  <2>2. \A u \in Threads \ {t} : u \in Wanting' <=> u \in Wanting
    BY <1>1 DEF Wanting
  <2>3. \A u \in Threads : Asleep(u) => pc[u] \in {"pi", "swtch"}
    BY <1>0
  <2> QED
    BY <1>1, <2>1, <2>2, <2>3 DEF WritersWatched, Queued
<1>2. ASSUME holdcnt' # 0 PROVE WritersWatched'
  BY <1>2 DEF WritersWatched
<1>3. ASSUME \A u \in Threads : ~Asleep(u), ts_sleepq' = ts_sleepq PROVE WritersWatched'
  BY <1>3 DEF WritersWatched, Asleep, Queued
<1>4. ASSUME NEW k \in Modes, RwEnter(t, k) \/ RwTryenter(t, k) \/ (ReaderAgain(t) /\ k = "R") \/ (WriterRetest(t) /\ k = "W")
      PROVE  WritersWatched'
  <2>1. UNCHANGED ts_sleepq /\ \A u \in Threads \ {t} : rw'[u] = rw[u]
    BY <1>4, Typing DEF RwEnter, RwTryenter, ReaderAgain, WriterRetest, tsvars
  <2>2. CASE Waits(t, k) /\ k = "W"
    BY <1>2, <2>2 DEF Waits, MustWait
  <2>3. CASE Waits(t, k) /\ k = "R"
    <3>1. pc[t] \notin {"retest", "exit"} /\ t \notin Wanting
      BY <1>4, <2>3 DEF RwEnter, RwTryenter, ReaderAgain, WriterRetest, Wanting
    <3> QED
      BY <1>1, <2>1, <2>3, <3>1, Typing DEF Waits
  <2>4. CASE ~MustWait(k) /\ Grant(t, k)
    <3>1. holdcnt' # 0
      BY <2>4, Typing DEF Grant, MustWait, ReaderMustWait, Modes
    <3> QED
      BY <1>2, <3>1
  <2>5. Waits(t, k) \/ (~MustWait(k) /\ Grant(t, k))
    BY <1>4, TestCases DEF RwEnter, RwTryenter, ReaderAgain, WriterRetest, Enters
  <2> QED
    BY <2>2, <2>3, <2>4, <2>5 DEF Modes
<1>5. CASE RwDowngrade(t) \/ RwTryupgrade(t)
  BY <1>2, <1>5 DEF RwDowngrade, RwTryupgrade
<1>6. CASE RwExit(t)
  BY <1>6, Typing DEF RwExit, Goto, WritersWatched
<1>7. CASE RwDestroy(t)
  <2>1. ts_sleepq' = ts_sleepq /\ \A u \in Threads : ~Asleep(u)
    BY <1>0, <1>7 DEF RwDestroy, Release, NoRelease, tsvars
  <2> QED
    BY <1>3, <2>1
<1>8. CASE FindTurnstile(t) \/ PiWillto(t) \/ LookWaiters(t) \/ AmendWriter(t) \/ WriterAgain(t) \/ DowngradeLook(t)
  BY <1>1, <1>8, Typing DEF FindTurnstile, PiWillto, LookWaiters, AmendWriter, WriterAgain, DowngradeLook, Goto, tsvars, lockvars, Wanting
<1>9. CASE PanicReturn(t)
  BY <1>9 DEF PanicReturn
<1>10. CASE Recheck(t)
  <2>1. holdcnt' = holdcnt /\ rw' = rw /\ pc[t] = "recheck" /\ pc' = [pc EXCEPT ![t] = IF StillMustWait(t) THEN "pi" ELSE "swtch"]
    BY <1>10 DEF Recheck, Goto, lockvars
  <2>2. CASE ~StillMustWait(t)
    BY <1>1, <1>10, <2>1, <2>2, Typing DEF Recheck, Wanting
  <2>3. CASE StillMustWait(t) /\ rw[t] = "W"
    BY <1>2, <2>1, <2>3 DEF StillMustWait, MustWait
  <2>4. CASE StillMustWait(t) /\ rw[t] = "R"
    <3>1. ts_sleepq' = [ts_sleepq EXCEPT !["R"] = SleepqInsert(@, t, Prio)] /\ UNCHANGED pivars
      BY <1>10, <2>4 DEF Recheck
    <3>2. \A u \in Threads, j \in Modes : Queued(u, j)' <=> (Queued(u, j) \/ (u = t /\ j = "R"))
      BY <1>0, <2>1, <2>4, <3>1, Typing, SleepQueues
    <3>3. \A u \in Threads \ {t} : (Asleep(u)' <=> Asleep(u)) /\ (u \in Wanting' <=> u \in Wanting) /\ pc'[u] = pc[u]
      BY <2>1, <3>2, Typing DEF Asleep, Wanting, Modes
    <3>4. \A u \in Threads : Queued(u, "W")' <=> Queued(u, "W")
      BY <3>2 DEF Modes
    <3>5. t \notin Wanting
      BY <2>4 DEF Wanting
    <3> QED
      BY <2>1, <3>3, <3>4, <3>5 DEF WritersWatched
  <2> QED
    BY <2>2, <2>3, <2>4, Typing DEF Modes
<1>11. CASE DowngradeRelease(t)
  <2>1. hold[t] = "R"
    BY <1>0, <1>11 DEF DowngradeRelease, PlaceOK
  <2>2. holdcnt' # 0
    BY <1>11, <2>1, HoldFacts, Typing DEF DowngradeRelease, lockvars
  <2> QED
    BY <1>2, <2>2
<1>12. CASE WriterExit(t)
  <2>1. rw' = rw /\ pc[t] = "exit" /\ \A u \in Threads \ {t} : pc'[u] = pc[u]
    BY <1>12, Typing DEF WriterExit, Goto
  <2>2. CASE ~waiters
    BY <1>0, <1>3, <1>12, <2>2 DEF WriterExit, NoRelease, tsvars, AttachedOK
  <2>3. CASE waiters /\ writewanted > 0
    <3>1. ts_sleepq' = FirstWriterOff
      BY <1>12, <2>3 DEF WriterExit, WriterWakes, Release
    <3> QED
      BY <2>1, <3>1, WriterWoken DEF WritersWatched
  <2>4. CASE waiters /\ ~(writewanted > 0)
    <3>1. \A u \in Threads : ~Claiming(u)
      BY <2>4, ClaimFacts
    <3>2. \A u \in Threads : ~Queued(u, "W")
      BY <1>0, <3>1 DEF Claiming
    <3>3. ts_sleepq'["W"] = ts_sleepq["W"]
      BY <1>12, <2>4, Typing DEF WriterExit, WriterWakes, Release, AllReadersOff
    <3> QED
      BY <3>2, <3>3 DEF WritersWatched, Queued
  <2> QED
    BY <2>2, <2>3, <2>4
<1>13. CASE ReaderExit(t)
  <2>1. rw' = rw /\ pc[t] = "exit" /\ holdcnt' = holdcnt /\ \A u \in Threads \ {t} : pc'[u] = pc[u]
    BY <1>13, Typing DEF ReaderExit, Goto
  <2>2. CASE ~waiters
    BY <1>0, <1>3, <1>13, <2>2 DEF ReaderExit, NoRelease, tsvars, AttachedOK
  <2>3. CASE waiters /\ holdcnt = 0
    <3>1. ts_sleepq' = FirstWriterOff
      BY <1>13, <2>3 DEF ReaderExit, Release
    <3> QED
      BY <2>1, <3>1, WriterWoken DEF WritersWatched
  <2>4. CASE holdcnt # 0
    BY <1>2, <2>1, <2>4
  <2> QED
    BY <2>2, <2>3, <2>4
<1> QED
  BY <1>4, <1>5, <1>6, <1>7, <1>8, <1>9, <1>10, <1>11, <1>12, <1>13 DEF Call, Step, Modes

(* No wakeup is lost: a sleeping reader waits for a writer that has the    *)
(* lock or has asked for it, a sleeping writer for a lock that is held; or *)
(* else a thread that is awake, in rw_exit(), rw_downgrade() or rw_enter(), *)
(* is about to wake it or to take its turn.                                *)
THEOREM RWLockNoLostWakeup == Spec => []NoLostWakeup
<1> DEFINE W == Inv /\ (~panicstr => ReadersWatched /\ WritersWatched)
<1>1. Init => W
  <2> SUFFICES ASSUME Init PROVE W
    OBVIOUS
  <2>1. \A t \in Threads : ~Queued(t, "R") /\ ~Queued(t, "W")
    BY DEF Init, Queued, OnQueue, Modes
  <2> QED
    BY <2>1, InvInit DEF ReadersWatched, WritersWatched
<1>2. W /\ [Next]_vars => W'
  <2> SUFFICES ASSUME W, [Next]_vars, ~panicstr' PROVE ReadersWatched' /\ WritersWatched'
    BY InvNext
  <2>1. CASE \E t \in Threads : Call(t) \/ Step(t)
    <3>1. PICK t \in Threads : Call(t) \/ Step(t)
      BY <2>1
    <3>2. ~panicstr
      BY <3>1 DEF Call, Step, RwEnter, RwTryenter, RwDowngrade, RwTryupgrade, RwExit, RwDestroy, PanicReturn,
                  FindTurnstile, Recheck, PiWillto, ReaderAgain, WriterAgain, WriterRetest, LookWaiters, AmendWriter,
                  DowngradeLook, DowngradeRelease, WriterExit, ReaderExit
    <3> QED
      BY <3>1, <3>2, ReadersNext, WritersNext
  <2>2. CASE UNCHANGED vars
    BY <2>2 DEF vars, lockvars, tsvars, ReadersWatched, WritersWatched, ReaderMustWait, Queued, Wanting, Asleep
  <2>3. CASE \E t \in Threads : OtherWaived(t)
    BY <2>3 DEF OtherWaived, lockvars, tsvars, ReadersWatched, WritersWatched, ReaderMustWait, Queued, Wanting, Asleep
  <2>4. ASSUME NEW t \in Threads, NEW p \in OtherPris, ChangePri(t, p) PROVE ReadersWatched' /\ WritersWatched'
    <3>1. UNCHANGED <<holdcnt, writewanted, pc, rw>> /\ ~panicstr
      BY <2>4 DEF ChangePri, lockvars
    <3>2. \A u \in Threads, j \in Modes : Queued(u, j)' <=> Queued(u, j)
      BY <2>4, ChangePriQueues
    <3>3. \A u \in Threads : (Asleep(u)' <=> Asleep(u)) /\ (u \in Wanting' <=> u \in Wanting)
      BY <3>1, <3>2 DEF Asleep, Wanting, Modes
    <3> QED
      BY <3>1, <3>2, <3>3 DEF ReadersWatched, WritersWatched, ReaderMustWait, Modes
  <2>5. CASE Panic
    BY <2>5 DEF Panic
  <2> QED
    BY <2>1, <2>2, <2>3, <2>4, <2>5 DEF Next
<1>3. W => NoLostWakeup
  BY DEF NoLostWakeup, ReadersWatched, WritersWatched
<1> QED
  BY <1>1, <1>2, <1>3, PTL DEF Spec

-----------------------------------------------------------------------
(* The lock as AbstractRWLock sees it.  A thread of which hold and the     *)
(* claim do not change leaves it as it is.                                 *)
Claims(t) == t \in Wanting \/ pc[t] = "retest"

(* Who has the lock and who has asked for it, in a state without panic. *)
LEMMA MappedStep ==
  ASSUME NEW t \in Threads, panicstr = FALSE, panicstr' = FALSE,
         \A u \in Threads \ {t} : hold'[u] = hold[u] /\ (Claims(u)' <=> Claims(u))
  PROVE  /\ \A u \in Threads : u \in ReadersNow <=> hold[u] = "R"
         /\ \A u \in Threads : u \in WritersNow <=> hold[u] = "W"
         /\ \A u \in Threads : u \in WantingNow <=> Claims(u)
         /\ ReadersNow' = IF hold'[t] = "R" THEN ReadersNow \cup {t} ELSE ReadersNow \ {t}
         /\ WritersNow' = IF hold'[t] = "W" THEN WritersNow \cup {t} ELSE WritersNow \ {t}
         /\ WantingNow' = IF Claims(t)' THEN WantingNow \cup {t} ELSE WantingNow \ {t}
<1>1. /\ \A u \in Threads : u \in ReadersNow <=> hold[u] = "R"
      /\ \A u \in Threads : u \in WritersNow <=> hold[u] = "W"
      /\ \A u \in Threads : u \in WantingNow <=> Claims(u)
  BY DEF ReadersNow, WritersNow, WantingNow, Claims
<1>2. /\ \A u : u \in ReadersNow' <=> (u \in Threads /\ hold'[u] = "R")
      /\ \A u : u \in WritersNow' <=> (u \in Threads /\ hold'[u] = "W")
      /\ \A u : u \in WantingNow' <=> (u \in Threads /\ Claims(u)')
  BY DEF ReadersNow, WritersNow, WantingNow, Claims
<1>3. ReadersNow \subseteq Threads /\ WritersNow \subseteq Threads /\ WantingNow \subseteq Threads
  BY DEF ReadersNow, WritersNow, WantingNow
<1>4. ReadersNow' = IF hold'[t] = "R" THEN ReadersNow \cup {t} ELSE ReadersNow \ {t}
  BY <1>1, <1>2, <1>3
<1>5. WritersNow' = IF hold'[t] = "W" THEN WritersNow \cup {t} ELSE WritersNow \ {t}
  BY <1>1, <1>2, <1>3
<1>6. WantingNow' = IF Claims(t)' THEN WantingNow \cup {t} ELSE WantingNow \ {t}
  BY <1>1, <1>2, <1>3
<1> QED
  BY <1>1, <1>4, <1>5, <1>6

(* The lock is free, or only wanted, when the code finds it so. *)
LEMMA MappedFacts ==
  ASSUME Inv, panicstr = FALSE
  PROVE  /\ holdcnt = 0 <=> (ReadersNow = {} /\ WritersNow = {})
         /\ holdcnt < 0 <=> WritersNow # {}
         /\ writewanted = 0 /\ mp = None => WantingNow = {}
         /\ \A t \in Threads : hold[t] = "R" /\ holdcnt = 1 => ReadersNow = {t}
         /\ \A t \in Threads : hold[t] = "W" => WritersNow = {t} /\ ReadersNow = {}
<1>1. /\ \A u : u \in ReadersNow <=> (u \in Threads /\ hold[u] = "R")
      /\ \A u : u \in WritersNow <=> (u \in Threads /\ hold[u] = "W")
      /\ \A u : u \in WantingNow <=> (u \in Threads /\ Claims(u))
  BY DEF ReadersNow, WritersNow, WantingNow, Claims
<1>2. holdcnt = 0 <=> (ReadersNow = {} /\ WritersNow = {})
  BY <1>1, HoldFacts, Typing DEF Modes
<1>3. holdcnt < 0 <=> WritersNow # {}
  BY <1>1, HoldFacts
<1>4. ASSUME writewanted = 0, mp = None PROVE WantingNow = {}
  <2>1. \A u \in Threads : ~Claiming(u) /\ pc[u] # "retest"
    BY <1>4, ClaimFacts, Typing DEF Inv, PlaceOK
  <2> QED
    BY <1>1, <2>1 DEF Claims, Claiming, Wanting
<1>5. ASSUME NEW t \in Threads, hold[t] = "R", holdcnt = 1 PROVE ReadersNow = {t}
  BY <1>1, <1>5, HoldFacts
<1>6. ASSUME NEW t \in Threads, hold[t] = "W" PROVE WritersNow = {t} /\ ReadersNow = {}
  BY <1>1, <1>6 DEF Inv, OwnerOK
<1> QED
  BY <1>2, <1>3, <1>4, <1>5, <1>6

(* A step of t that leaves what it holds and its claim is a stutter. *)
LEMMA MappedStutter ==
  ASSUME NEW t \in Threads, UNCHANGED panicstr, UNCHANGED hold,
         \A u \in Threads : Claims(u)' <=> Claims(u)
  PROVE  UNCHANGED Abstract!avars
BY DEF Abstract!avars, ReadersNow, WritersNow, WantingNow, Claims

(* rw_enter() and rw_tryenter(): a reader enters, or a writer, or a writer *)
(* puts its claim in, or nothing has changed.                              *)
LEMMA EnterMapped ==
  ASSUME Inv, NEW t \in Threads, NEW k \in Modes, panicstr = FALSE,
         RwEnter(t, k) \/ RwTryenter(t, k) \/ (ReaderAgain(t) /\ k = "R") \/ (WriterRetest(t) /\ k = "W")
  PROVE  [Abstract!Next]_(Abstract!avars)
<1>0. /\ hold[t] = None /\ panicstr' = FALSE /\ UNCHANGED panicstr
      /\ k = "R" => mp = None
      /\ \A u \in Threads \ {t} : rw'[u] = rw[u]
  BY Typing DEF RwEnter, RwTryenter, ReaderAgain, WriterRetest, Inv, PlaceOK
<1>1. Waits(t, k) \/ (~MustWait(k) /\ Grant(t, k) /\ (UNCHANGED <<pc, rw>> \/ Enters(t, k)))
  BY TestCases DEF RwEnter, RwTryenter, ReaderAgain, WriterRetest, Enters
<1>2. CASE Waits(t, k)
  <2>1. \A u \in Threads \ {t} : hold'[u] = hold[u] /\ (Claims(u)' <=> Claims(u))
    BY <1>0, <1>2, Typing DEF Waits, Claims, Wanting
  <2>2. CASE k = "R"
    <3>1. rw'[t] = "R" /\ pc'[t] = "fail" /\ ~Claims(t)
      BY <1>2, <2>2, Typing DEF Waits, RwEnter, RwTryenter, ReaderAgain, WriterRetest, Claims, Wanting
    <3>2. ~Claims(t)'
      BY <3>1 DEF Claims, Wanting
    <3>3. UNCHANGED hold
      BY <1>2 DEF Waits
    <3> QED
      BY <1>0, <2>1, <3>1, <3>2, <3>3, MappedStutter
  <2>3. CASE k = "W"
    <3>1. rw'[t] = "W" /\ pc'[t] = "fail" /\ hold'[t] = None
      BY <1>0, <1>2, <2>3, Typing DEF Waits, RwEnter, RwTryenter, ReaderAgain, WriterRetest, Inv, PlaceOK
    <3>2. Claims(t)'
      BY <3>1 DEF Claims, Wanting
    <3>3. /\ t \notin ReadersNow \cup WritersNow
          /\ ReadersNow' = ReadersNow \ {t} /\ WritersNow' = WritersNow \ {t} /\ WantingNow' = WantingNow \cup {t}
      BY <1>0, <2>1, <3>1, <3>2, MappedStep, Typing
    <3>4. ReadersNow \cup WritersNow # {}
      BY <1>2, <2>3, MappedFacts DEF Waits, MustWait
    <3>5. Abstract!Want(t)
      BY <1>0, <3>3, <3>4 DEF Abstract!Want
    <3> QED
      BY <3>5 DEF Abstract!Next
  <2> QED
    BY <2>2, <2>3 DEF Modes
<1>3. CASE ~MustWait(k) /\ Grant(t, k) /\ (UNCHANGED <<pc, rw>> \/ Enters(t, k))
  <2>1. \A u \in Threads \ {t} : hold'[u] = hold[u] /\ (Claims(u)' <=> Claims(u))
    BY <1>0, <1>3, Typing DEF Grant, Enters, Claims, Wanting
  <2>2. hold'[t] = k /\ pc'[t] \in {"run", "look"}
    <3>1. hold'[t] = k
      BY <1>3, Typing DEF Grant
    <3>2. CASE Enters(t, k)
      BY <3>1, <3>2, Typing DEF Enters
    <3>3. CASE ~Enters(t, k)
      <4>1. RwTryenter(t, k)
        BY <1>3, <3>3, TestCases DEF RwEnter, ReaderAgain, WriterRetest, Waits
      <4> QED
        BY <3>1, <4>1 DEF RwTryenter
    <3> QED
      BY <3>2, <3>3
  <2>3. ~Claims(t)'
    BY <2>2 DEF Claims, Wanting
  <2>4. /\ t \notin ReadersNow \cup WritersNow
        /\ ReadersNow' = IF hold'[t] = "R" THEN ReadersNow \cup {t} ELSE ReadersNow \ {t}
        /\ WritersNow' = IF hold'[t] = "W" THEN WritersNow \cup {t} ELSE WritersNow \ {t}
        /\ WantingNow' = WantingNow \ {t}
    BY <1>0, <2>1, <2>3, MappedStep, Typing
  <2>5. CASE k = "R"
    <3>1. writewanted = 0 /\ ~(holdcnt < 0)
      BY <1>3, <2>5, Typing DEF MustWait, ReaderMustWait
    <3>2. WritersNow = {} /\ WantingNow = {}
      BY <1>0, <2>5, <3>1, MappedFacts
    <3>3. Abstract!Read(t)
      BY <1>0, <2>2, <2>4, <2>5, <3>2 DEF Abstract!Read
    <3> QED
      BY <3>3 DEF Abstract!Next
  <2>6. CASE k = "W"
    <3>1. ReadersNow = {} /\ WritersNow = {}
      BY <1>3, <2>6, MappedFacts DEF MustWait
    <3>2. Abstract!Write(t)
      BY <1>0, <2>2, <2>4, <2>6, <3>1 DEF Abstract!Write
    <3> QED
      BY <3>2 DEF Abstract!Next
  <2> QED
    BY <2>5, <2>6 DEF Modes
<1> QED
  BY <1>1, <1>2, <1>3

(* rw_exit(), rw_destroy(), rw_downgrade() and rw_tryupgrade(). *)
LEMMA HolderMapped ==
  ASSUME Inv, NEW t \in Threads, panicstr = FALSE,
         RwExit(t) \/ RwDestroy(t) \/ RwDowngrade(t) \/ RwTryupgrade(t)
  PROVE  [Abstract!Next]_(Abstract!avars)
<1>0. pc[t] = "run" /\ panicstr' = FALSE /\ UNCHANGED panicstr /\ mp = None
  BY Typing DEF RwExit, RwDestroy, RwDowngrade, RwTryupgrade, Inv, PlaceOK, TypeOK
<1>1. \A u \in Threads \ {t} : hold'[u] = hold[u] /\ pc'[u] = pc[u] /\ rw'[u] = rw[u]
  BY Typing DEF RwExit, RwDestroy, RwDowngrade, RwTryupgrade, Goto
<1>2. \A u \in Threads \ {t} : hold'[u] = hold[u] /\ (Claims(u)' <=> Claims(u))
  BY <1>1 DEF Claims, Wanting
<1>3. pc'[t] \in {"run", "exit", "down"}
  BY <1>0, Typing DEF RwExit, RwDestroy, RwDowngrade, RwTryupgrade, Goto
<1>4. ~Claims(t) /\ ~Claims(t)'
  BY <1>0, <1>3 DEF Claims, Wanting
<1>5. /\ t \in ReadersNow <=> hold[t] = "R"
      /\ t \in WritersNow <=> hold[t] = "W"
      /\ t \notin WantingNow
      /\ ReadersNow' = IF hold'[t] = "R" THEN ReadersNow \cup {t} ELSE ReadersNow \ {t}
      /\ WritersNow' = IF hold'[t] = "W" THEN WritersNow \cup {t} ELSE WritersNow \ {t}
      /\ WantingNow' = WantingNow \ {t}
  BY <1>0, <1>2, <1>4, MappedStep
<1>6. WantingNow' = WantingNow
  BY <1>5
<1>7. CASE (RwExit(t) \/ RwDestroy(t)) /\ hold[t] # None
  <2>1. hold'[t] = None /\ None # "R" /\ None # "W" /\ hold[t] \in Modes
    BY <1>7, Typing DEF RwExit, RwDestroy
  <2>2. Abstract!Release(t)
    BY <1>0, <1>5, <1>6, <2>1 DEF Abstract!Release, Modes
  <2> QED
    BY <2>2 DEF Abstract!Next
<1>8. CASE RwDestroy(t) /\ hold[t] = None
  <2>1. UNCHANGED hold
    <3>1. hold' = [hold EXCEPT ![t] = None]
      BY <1>8 DEF RwDestroy
    <3>2. hold = [u \in Threads |-> hold[u]] /\ hold' = [u \in Threads |-> hold'[u]]
      BY <3>1, Typing
    <3>3. \A u \in Threads : hold'[u] = hold[u]
      BY <1>8, <3>1, Typing
    <3> QED
      BY <3>2, <3>3
  <2> QED
    BY <1>0, <1>2, <1>4, <2>1, MappedStutter
<1>9. CASE RwDowngrade(t)
  <2>1. hold[t] = "W" /\ hold'[t] = "R"
    BY <1>9, Typing DEF RwDowngrade
  <2>2. WritersNow = {t} /\ ReadersNow = {}
    BY <2>1, MappedFacts
  <2>3. Abstract!Downgrade(t)
    BY <1>0, <1>5, <1>6, <2>1, <2>2 DEF Abstract!Downgrade
  <2> QED
    BY <2>3 DEF Abstract!Next
<1>10. CASE RwTryupgrade(t)
  <2>1. hold[t] = "R" /\ hold'[t] = "W" /\ writewanted = 0 /\ holdcnt = 1
    BY <1>10, Typing DEF RwTryupgrade
  <2>2. ReadersNow = {t} /\ WritersNow = {} /\ WantingNow = {}
    <3>1. ~(holdcnt < 0)
      BY <2>1
    <3>2. ReadersNow = {t}
      BY <2>1, MappedFacts
    <3>3. WritersNow = {}
      BY <3>1, MappedFacts
    <3>4. WantingNow = {}
      BY <1>0, <2>1, MappedFacts
    <3> QED
      BY <3>2, <3>3, <3>4
  <2>3. Abstract!Upgrade(t)
    BY <1>0, <1>5, <1>6, <2>1, <2>2 DEF Abstract!Upgrade
  <2> QED
    BY <2>3 DEF Abstract!Next
<1> QED
  BY <1>7, <1>8, <1>9, <1>10 DEF RwExit

(* Every step of rwlock.c is a step of the abstract lock, or none. *)
LEMMA RWLockStep ==
  ASSUME Inv, [Next]_vars
  PROVE  [Abstract!Next]_(Abstract!avars)
<1>0. panicstr \in BOOLEAN /\ panicstr' \in BOOLEAN
  BY InvNext DEF Inv, TypeOK
<1>1. panicstr => panicstr'
  BY DEF Next, Call, Step, RwEnter, RwTryenter, RwDowngrade, RwTryupgrade, RwExit, RwDestroy, PanicReturn,
         FindTurnstile, Recheck, PiWillto, ReaderAgain, WriterAgain, WriterRetest, LookWaiters, AmendWriter,
         DowngradeLook, DowngradeRelease, WriterExit, ReaderExit, OtherWaived, ChangePri, Panic, vars
<1>2. CASE panicstr
  <2>1. panicstr' = panicstr
    BY <1>0, <1>1, <1>2
  <2>2. UNCHANGED <<ReadersNow, WritersNow, WantingNow>>
    BY <1>1, <1>2 DEF ReadersNow, WritersNow, WantingNow
  <2> QED
    BY <2>1, <2>2 DEF Abstract!avars
<1>3. CASE panicstr'
  <2>1. panicstr' = TRUE
    BY <1>0, <1>3
  <2>2. Abstract!Crash
    BY <2>1 DEF Abstract!Crash
  <2> QED
    BY <2>2 DEF Abstract!Next
<1>4. CASE ~panicstr /\ ~panicstr'
  <2>0. panicstr = FALSE /\ UNCHANGED panicstr
    BY <1>0, <1>4
  <2>1. ASSUME UNCHANGED <<pc, rw, hold>>
        PROVE  [Abstract!Next]_(Abstract!avars)
    BY <2>0, <2>1 DEF Abstract!avars, ReadersNow, WritersNow, WantingNow, Wanting
  <2>2. CASE UNCHANGED vars \/ (\E t \in Threads : OtherWaived(t) \/ \E p \in OtherPris : ChangePri(t, p)) \/ Panic
    <3>1. UNCHANGED <<pc, rw, hold>>
      BY <2>2 DEF vars, OtherWaived, ChangePri, Panic
    <3> QED
      BY <2>1, <3>1
  <2>3. ASSUME NEW t \in Threads, Call(t)
        PROVE  [Abstract!Next]_(Abstract!avars)
    BY <2>0, <2>3, EnterMapped, HolderMapped DEF Call
  <2>4. ASSUME NEW t \in Threads, Step(t)
        PROVE  [Abstract!Next]_(Abstract!avars)
    <3>1. CASE ReaderAgain(t) \/ WriterRetest(t)
      BY <2>0, <3>1, EnterMapped DEF Modes
    <3>2. CASE ~ReaderAgain(t) /\ ~WriterRetest(t)
      <4>1. UNCHANGED <<rw, hold>> /\ \A u \in Threads \ {t} : pc'[u] = pc[u]
        BY <2>4, <3>2, Typing DEF Step, PanicReturn, FindTurnstile, Recheck, PiWillto, WriterAgain, LookWaiters,
                AmendWriter, DowngradeLook, DowngradeRelease, WriterExit, ReaderExit, Goto
      <4>2. \A u \in Threads \ {t} : Claims(u)' <=> Claims(u)
        BY <4>1 DEF Claims, Wanting
      <4>3. Claims(t)' <=> Claims(t)
        BY <1>4, <2>4, <3>2, <4>1, Typing DEF Step, PanicReturn, FindTurnstile, Recheck, PiWillto, WriterAgain,
           LookWaiters, AmendWriter, DowngradeLook, DowngradeRelease, WriterExit, ReaderExit, Goto, Claims, Wanting
      <4> QED
        BY <2>0, <4>1, <4>2, <4>3, MappedStutter
    <3> QED
      BY <3>1, <3>2
  <2> QED
    BY <2>2, <2>3, <2>4 DEF Next
<1> QED
  BY <1>2, <1>3, <1>4

(* rwlock.c implements the lock of AbstractRWLock for any number of        *)
(* threads, until a panic: many readers or one writer, no reader enters    *)
(* over a writer that has asked, and rw_downgrade() and rw_tryupgrade() let *)
(* nobody in between.                                                      *)
THEOREM RWLockRefinement == Spec => ImplementsAbstractRWLock
<1>1. Init => Abstract!Init
  <2> SUFFICES ASSUME Init PROVE Abstract!Init
    OBVIOUS
  <2>1. ReadersNow = {} /\ WritersNow = {} /\ WantingNow = {}
    BY RWLockAssumption DEF Init, ReadersNow, WritersNow, WantingNow, Wanting
  <2>2. panicstr = FALSE
    BY DEF Init
  <2> QED
    BY <2>1, <2>2 DEF Abstract!Init
<1>2. Inv /\ [Next]_vars => [Abstract!Next]_(Abstract!avars)
  BY RWLockStep
<1> QED
  BY <1>1, <1>2, RWLockInv, PTL DEF Spec, ImplementsAbstractRWLock, Abstract!Spec
=======================================================================
