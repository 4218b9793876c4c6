---------------------------- MODULE FreeMem ----------------------------
(***************************************************************************)
(* The accounting of free pages: common/vm/vm_page.c.                      *)
(*                                                                         *)
(* A page on the free or the cache list is promised to somebody before it  *)
(* is taken: the count of such pages is spread over the buckets pcf[], and *)
(* page_create_va() claims from it before it looks for the pages.  Here a  *)
(* page is one of so many: which list it is on, its colour and its name    *)
(* are left out, and so is freemem, which every thread adds to and         *)
(* subtracts from without a lock: a test of it goes either way.            *)
(*                                                                         *)
(* pcf locks that are taken one after the other and held together make one *)
(* step; so does new_freemem_lock, which is taken while they are held.     *)
(***************************************************************************)
EXTENDS Integers, FiniteSets, FiniteSetsExt

CONSTANTS
  Threads,
  PCF_FANOUT,   \* number of buckets
  NPages,       \* pages, all free at first
  Requests,     \* how many pages page_create_va() is asked for
  LargePages,   \* the sizes of large pages
  MaxWait,      \* bound on pcf_wait, which wakeups need not bring down again
  None

ASSUME FreeMemAssumption ==
  /\ IsFiniteSet(Threads) /\ None \notin Threads
  /\ PCF_FANOUT \in Nat \ {0} /\ NPages \in Nat
  /\ Requests \subseteq Nat \ {0} /\ LargePages \subseteq Nat \ {0} /\ MaxWait \in Nat

VARIABLES
  lists,        \* how many pages are on the free and cache lists
  pcf_count, pcf_wait, pcf_block, pcf_reserve,
  freemem_wait,
  freemem_cv,   \* the threads asleep on it
  pcgs_lock,    \* who holds it
  pc,           \* thread -> where it is
  loc           \* thread -> its local variables

pcf == <<pcf_count, pcf_wait, pcf_block, pcf_reserve>>
cvars == <<freemem_wait, freemem_cv>>
vars == <<lists, pcf, cvars, pcgs_lock, pc, loc>>

Buckets == 1..PCF_FANOUT
Fresh == [n |-> 0, wait |-> FALSE, excl |-> FALSE, large |-> FALSE, left |-> 0, found |-> 0,
          npp |-> 0, plist |-> 0, i |-> 1, which |-> FALSE]

Init ==
  /\ lists = NPages
  /\ pcf_count = [b \in Buckets |-> IF b = 1 THEN NPages ELSE 0]
  /\ pcf_wait = [b \in Buckets |-> 0] /\ pcf_block = [b \in Buckets |-> FALSE]
  /\ pcf_reserve = [b \in Buckets |-> 0]
  /\ freemem_wait = 0 /\ freemem_cv = {} /\ pcgs_lock = None
  /\ pc = [t \in Threads |-> "run"] /\ loc = [t \in Threads |-> Fresh]

-----------------------------------------------------------------------
Goto(t, l) == pc' = [pc EXCEPT ![t] = l]
Set(t, r) == loc' = [loc EXCEPT ![t] = r]
Return(t) == Goto(t, "run") /\ Set(t, Fresh)
At(l) == {t \in Threads : pc[t] = l}

(* Pages on a list that are locked. *)
Busy == Cardinality(At("reclaim"))
Sum(f, S) == LET F(x) == f[x] IN MapThenSumSet(F, S)
SumLoc(F(_)) == Sum([t \in Threads |-> F(t)], Threads)
Npp(t) == loc[t].npp
Plist(t) == loc[t].plist
InUse == NPages - lists - SumLoc(Npp) - Cardinality(At("destroy"))
CountIn(S) == Sum(pcf_count, S)

(* All pcf locks and new_freemem_lock are held until cv_wait(). *)
WaitAll_One == [pcf_wait EXCEPT ![1] = @ + 1]
WaitAll == [b \in Buckets |-> pcf_wait[b] + 1]
CvWait(t, l) ==
  /\ \A b \in Buckets : pcf_wait[b] < MaxWait
  /\ pcf_wait' = WaitAll
  /\ freemem_wait' = freemem_wait + 1 /\ freemem_cv' = freemem_cv \cup {t} /\ Goto(t, l)
CvSignal == IF freemem_cv = {} THEN freemem_cv' = {} ELSE \E u \in freemem_cv : freemem_cv' = freemem_cv \ {u}

(* The wakeup of page_free() and the others, with the locks of bucket b:   *)
(* all is broadcast instead of signal.                                     *)
Wake(b, all) ==
  IF pcf_wait[b] = 0 THEN UNCHANGED <<pcf_wait, freemem_cv>>
  ELSE IF freemem_wait = 0 THEN pcf_wait' = [pcf_wait EXCEPT ![b] = 0] /\ UNCHANGED freemem_cv
  ELSE pcf_wait' = [pcf_wait EXCEPT ![b] = @ - 1] /\ IF all THEN freemem_cv' = {} ELSE CvSignal

(* k pages go to bucket b, or to its reserve. *)
AddTo(b, k) ==
  IF pcf_block[b]
  THEN pcf_reserve' = [pcf_reserve EXCEPT ![b] = @ + k] /\ UNCHANGED <<pcf_count, pcf_wait, freemem_cv>>
  ELSE pcf_count' = [pcf_count EXCEPT ![b] = @ + k] /\ UNCHANGED pcf_reserve /\ Wake(b, FALSE)

(* Back from cv_wait(), with new_freemem_lock. *)
After == [va_slept |-> "va", wait_slept |-> "wait", reclaim_slept |-> "run"]
Slept(t) ==
  /\ pc[t] \in DOMAIN After /\ t \notin freemem_cv
  /\ freemem_wait' = freemem_wait - 1 /\ Goto(t, After[pc[t]])
  /\ UNCHANGED <<lists, pcf, freemem_cv, pcgs_lock, loc>>

-----------------------------------------------------------------------
(* page_create_va(), for n pages; wait is PG_WAIT and excl is PG_EXCL: at  *)
(* least one of them is set.                                               *)
PageCreateVa(t, n, wait, excl) ==
  /\ pc[t] = "run" /\ (wait \/ excl)
  /\ Goto(t, "va") /\ Set(t, [Fresh EXCEPT !.n = n, !.wait = wait, !.excl = excl])
  /\ UNCHANGED <<lists, pcf, cvars, pcgs_lock>>

(* page_create_throttle(), there and in page_create_wait(): freemem is     *)
(* found low; who can wait waits.                                          *)
ThrottleWaits(t) ==
  /\ pc[t] \in {"va", "wait"} /\ loc[t].wait
  /\ CvWait(t, IF pc[t] = "va" THEN "va_slept" ELSE "wait_slept")
  /\ UNCHANGED <<lists, pcf_count, pcf_block, pcf_reserve, pcgs_lock, loc>>
ThrottleFails(t) ==
  /\ pc[t] \in {"va", "wait"} /\ ~loc[t].wait /\ Return(t)
  /\ UNCHANGED <<lists, pcf, cvars, pcgs_lock>>

(* The claim is made: from one bucket, or if the unlocked look at them     *)
(* missed, by page_create_wait().  PG_WAIT has had its effect then.        *)
Claim(t, counts) ==
  /\ pcf_count' = counts
  /\ Goto(t, IF loc[t].large THEN "large" ELSE "get")
  /\ Set(t, [loc[t] EXCEPT !.left = loc[t].n, !.wait = FALSE])
ScanFinds(t) ==
  /\ pc[t] = "va"
  /\ \E b \in Buckets : /\ pcf_count[b] > loc[t].n
                        /\ Claim(t, [pcf_count EXCEPT ![b] = @ - loc[t].n])
  /\ UNCHANGED <<lists, pcf_wait, pcf_block, pcf_reserve, cvars, pcgs_lock>>
ScanMisses(t) ==
  /\ pc[t] = "va" /\ Goto(t, "wait")
  /\ UNCHANGED <<lists, pcf, cvars, pcgs_lock, loc>>

(* The first buckets that hold n between them give them, the last first.   *)
Coalesce(n) ==
  LET k == CHOOSE k \in Buckets : CountIn(1..k) >= n /\ CountIn(1..(k-1)) < n
      rest(b) == n - CountIn((b+1)..k)
  IN  [b \in Buckets |->
         IF b > k \/ rest(b) <= 0 THEN pcf_count[b]
         ELSE IF pcf_count[b] <= rest(b) THEN 0 ELSE pcf_count[b] - rest(b)]
Enough(n) == CountIn(Buckets) >= n
PageCreateWait(t) ==
  /\ pc[t] = "wait"
  /\ \/ /\ Enough(loc[t].n) /\ Claim(t, Coalesce(loc[t].n))
        /\ UNCHANGED <<pcf_wait, cvars>>
     \/ /\ ~Enough(loc[t].n) /\ ~loc[t].wait /\ Return(t)
        /\ UNCHANGED <<pcf_count, pcf_wait, cvars>>
     \/ /\ ~Enough(loc[t].n) /\ loc[t].wait /\ CvWait(t, "wait_slept")
        /\ UNCHANGED <<pcf_count, loc>>
  /\ UNCHANGED <<lists, pcf_block, pcf_reserve, pcgs_lock>>

(* A page that is claimed for is looked for on the lists.  It may not be   *)
(* found, since pages move between the lists and are locked for a moment.  *)
GetPage(t) ==
  /\ pc[t] = "get" /\ loc[t].left > 0 /\ loc[t].npp = 0
  /\ \/ lists > Busy /\ lists' = lists - 1 /\ Set(t, [loc[t] EXCEPT !.npp = 1]) /\ UNCHANGED pc
     \/ Goto(t, "pcgs") /\ UNCHANGED <<lists, loc>>
  /\ UNCHANGED <<pcf, cvars, pcgs_lock>>

(* page_create_get_something(): what is not claimed is moved out of reach, *)
(* bucket by bucket, until the page is found.                              *)
PcgsLock(t) ==
  /\ pc[t] = "pcgs" /\ pcgs_lock = None /\ pcgs_lock' = t /\ Goto(t, "block")
  /\ Set(t, [loc[t] EXCEPT !.i = 1])
  /\ UNCHANGED <<lists, pcf, cvars>>
NextBucket(t, last) ==
  IF loc[t].i < PCF_FANOUT
  THEN Set(t, [loc[t] EXCEPT !.i = @ + 1]) /\ UNCHANGED pc
  ELSE Set(t, [loc[t] EXCEPT !.i = 1]) /\ Goto(t, last)
PcgsBlock(t) ==
  LET b == loc[t].i IN
  /\ pc[t] = "block"
  /\ pcf_block' = [pcf_block EXCEPT ![b] = TRUE]
  /\ pcf_reserve' = [pcf_reserve EXCEPT ![b] = pcf_count[b]]
  /\ pcf_count' = [pcf_count EXCEPT ![b] = 0]
  /\ NextBucket(t, "blocked")
  /\ UNCHANGED <<lists, pcf_wait, cvars, pcgs_lock>>
PcgsGet(t) ==
  /\ pc[t] = "blocked" /\ lists > Busy /\ lists' = lists - 1
  /\ Set(t, [loc[t] EXCEPT !.npp = 1]) /\ Goto(t, "unblock")
  /\ UNCHANGED <<pcf, cvars, pcgs_lock>>
PcgsWake(b) ==
  IF pcf_wait[b] > 0 /\ freemem_wait > 0 /\ pcf_reserve[b] > 1
  THEN pcf_wait' = [pcf_wait EXCEPT ![b] = 0] /\ freemem_cv' = {}
  ELSE Wake(b, FALSE)
Unblocked(b) == [pcf_block EXCEPT ![b] = FALSE]
PcgsUnblock(t) ==
  LET b == loc[t].i IN
  /\ pc[t] = "unblock"
  /\ pcf_count' = [pcf_count EXCEPT ![b] = pcf_reserve[b]]
  /\ pcf_reserve' = [pcf_reserve EXCEPT ![b] = 0]
  /\ pcf_block' = Unblocked(b)
  /\ PcgsWake(b) /\ NextBucket(t, "get")
  /\ pcgs_lock' = IF b = PCF_FANOUT THEN None ELSE pcgs_lock
  /\ UNCHANGED <<lists, freemem_wait>>

(* The page is given its name; or one of that name exists, which is taken  *)
(* instead (on the cache list or in use) unless PG_EXCL forbids it.        *)
HashIn(t) ==
  LET v == [loc[t] EXCEPT !.left = @ - 1] IN
  /\ pc[t] = "get" /\ loc[t].left > 0 /\ loc[t].npp = 1
  /\ \/ /\ Set(t, [v EXCEPT !.npp = 0, !.found = @ + 1, !.plist = @ + 1])
        /\ UNCHANGED lists
     \/ /\ ~loc[t].excl /\ lists > Busy /\ lists' = lists - 1
        /\ Set(t, [v EXCEPT !.found = @ + 1, !.plist = @ + 1])
     \/ /\ ~loc[t].excl /\ InUse > SumLoc(Plist)
        /\ Set(t, [v EXCEPT !.plist = @ + 1]) /\ UNCHANGED lists
  /\ UNCHANGED <<pcf, cvars, pcgs_lock, pc>>
HashExists(t) ==
  /\ pc[t] = "get" /\ loc[t].left > 0 /\ loc[t].npp = 1 /\ loc[t].excl
  /\ InUse + lists - Busy > SumLoc(Plist) /\ Goto(t, "undo")
  /\ UNCHANGED <<lists, pcf, cvars, pcgs_lock, loc>>
Undo(t) ==
  /\ pc[t] = "undo" /\ loc[t].plist > 0
  /\ lists' = lists + 1 /\ Set(t, [loc[t] EXCEPT !.plist = @ - 1]) /\ Goto(t, "account")
  /\ UNCHANGED <<pcf, cvars, pcgs_lock>>

(* The spare page is put back, and what was claimed and not used.          *)
Overshoot(t) == loc[t].n - loc[t].found
PutBackNpp(t) ==
  /\ \/ pc[t] = "get" /\ loc[t].left = 0
     \/ pc[t] = "undo" /\ loc[t].plist = 0
  /\ lists' = lists + loc[t].npp
  /\ IF Overshoot(t) > 0 THEN Goto(t, "over") /\ Set(t, [loc[t] EXCEPT !.npp = 0, !.plist = 0]) ELSE Return(t)
  /\ UNCHANGED <<pcf, cvars, pcgs_lock>>
GiveBack(t) ==
  /\ pc[t] = "over" /\ Return(t)
  /\ \E b \in Buckets : AddTo(b, Overshoot(t))
  /\ UNCHANGED <<lists, pcf_block, freemem_wait, pcgs_lock>>

-----------------------------------------------------------------------
(* page_free(): the page is on the list before it is counted. *)
PageFree(t) ==
  /\ pc[t] = "run" /\ InUse > SumLoc(Plist)
  /\ lists' = lists + 1 /\ Goto(t, "account")
  /\ UNCHANGED <<pcf, cvars, pcgs_lock, loc>>
PageFreeAccount(t) ==
  /\ pc[t] = "account" /\ Goto(t, IF loc[t].n > 0 THEN "undo" ELSE "run")
  /\ \E b \in Buckets : AddTo(b, 1)
  /\ UNCHANGED <<lists, pcf_block, freemem_wait, pcgs_lock, loc>>

(* page_reclaim() of a page on a list that is locked. *)
PageReclaim(t) ==
  /\ pc[t] = "run" /\ lists > Busy /\ Goto(t, "reclaim")
  /\ UNCHANGED <<lists, pcf, cvars, pcgs_lock, loc>>
CanReclaim_Listed(b) == lists > 0
CanReclaim(b) == pcf_count[b] >= 1
Reclaimed(t) ==
  /\ pc[t] = "reclaim"
  /\ \E b \in Buckets : CanReclaim(b) /\ pcf_count' = [pcf_count EXCEPT ![b] = @ - 1]
  /\ lists' = lists - 1 /\ Goto(t, "run")
  /\ UNCHANGED <<pcf_wait, pcf_block, pcf_reserve, cvars, pcgs_lock, loc>>
ReclaimNomem(t) ==
  /\ pc[t] = "reclaim" /\ CvWait(t, "reclaim_slept")
  /\ UNCHANGED <<lists, pcf_count, pcf_block, pcf_reserve, pcgs_lock, loc>>

(* page_destroy_free(): from the cache list to the free list. *)
PageDestroyFree(t) ==
  /\ pc[t] = "run" /\ lists > Busy /\ lists' = lists - 1 /\ Goto(t, "destroy")
  /\ UNCHANGED <<pcf, cvars, pcgs_lock, loc>>
DestroyDone(t) ==
  /\ pc[t] = "destroy" /\ lists' = lists + 1 /\ Goto(t, "run")
  /\ IF freemem_wait > 0 THEN CvSignal ELSE UNCHANGED freemem_cv
  /\ UNCHANGED <<pcf, freemem_wait, pcgs_lock, loc>>

-----------------------------------------------------------------------
(* A large page is claimed with page_create_wait() (anon_map_getpages) and *)
(* taken, or the claim is put back by page_create_putback().               *)
LargeCreate(t, n) ==
  /\ pc[t] = "run" /\ Goto(t, "wait")
  /\ Set(t, [Fresh EXCEPT !.n = n, !.wait = TRUE, !.large = TRUE])
  /\ UNCHANGED <<lists, pcf, cvars, pcgs_lock>>
LargeGet(t) ==
  /\ pc[t] = "large"
  /\ \/ lists - Busy >= loc[t].n /\ lists' = lists - loc[t].n /\ Return(t)
     \/ Goto(t, "putback") /\ UNCHANGED <<lists, loc>>
  /\ UNCHANGED <<pcf, cvars, pcgs_lock>>

(* pcf_block is looked at before pcf_lock is taken. *)
PutbackLook(t) ==
  /\ pc[t] = "putback" /\ Goto(t, "putadd")
  /\ Set(t, [loc[t] EXCEPT !.which = pcf_block[loc[t].i]])
  /\ UNCHANGED <<lists, pcf, cvars, pcgs_lock>>
Lump(n) == (n + PCF_FANOUT - 1) \div PCF_FANOUT
PutbackAdd(t) ==
  LET b == loc[t].i
      k == IF Lump(loc[t].n) < loc[t].left THEN Lump(loc[t].n) ELSE loc[t].left
      left == loc[t].left - k
  IN
  /\ pc[t] = "putadd"
  /\ IF loc[t].which
     THEN pcf_reserve' = [pcf_reserve EXCEPT ![b] = @ + k] /\ UNCHANGED pcf_count
     ELSE pcf_count' = [pcf_count EXCEPT ![b] = @ + k] /\ UNCHANGED pcf_reserve
  /\ Wake(b, left > 1)
  /\ IF left = 0 THEN Return(t)
     ELSE Goto(t, "putback") /\ Set(t, [loc[t] EXCEPT !.left = left, !.i = @ + 1, !.which = FALSE])
  /\ UNCHANGED <<lists, pcf_block, freemem_wait, pcgs_lock>>

-----------------------------------------------------------------------
Call(t) ==
  \/ \E n \in Requests, wait, excl \in BOOLEAN : PageCreateVa(t, n, wait, excl)
  \/ \E n \in LargePages : LargeCreate(t, n)
  \/ PageFree(t) \/ PageReclaim(t) \/ PageDestroyFree(t)
Step(t) ==
  \/ Slept(t) \/ ThrottleWaits(t) \/ ThrottleFails(t) \/ ScanFinds(t) \/ ScanMisses(t)
  \/ PageCreateWait(t) \/ GetPage(t) \/ PcgsLock(t) \/ PcgsBlock(t) \/ PcgsGet(t) \/ PcgsUnblock(t)
  \/ HashIn(t) \/ HashExists(t) \/ Undo(t) \/ PutBackNpp(t) \/ GiveBack(t)
  \/ PageFreeAccount(t) \/ Reclaimed(t) \/ ReclaimNomem(t) \/ DestroyDone(t)
  \/ LargeGet(t) \/ PutbackLook(t) \/ PutbackAdd(t)
Next == \E t \in Threads : Call(t) \/ Step(t)

Spec == Init /\ [][Next]_vars

-----------------------------------------------------------------------
TypeOK ==
  /\ lists \in 0..NPages
  /\ pcf_count \in [Buckets -> Nat] /\ pcf_wait \in [Buckets -> 0..MaxWait]
  /\ pcf_reserve \in [Buckets -> Nat] /\ pcf_block \in [Buckets -> BOOLEAN]
  /\ freemem_wait \in Nat /\ freemem_cv \subseteq Threads /\ pcgs_lock \in Threads \cup {None}
  /\ pc \in [Threads -> {"run", "va", "wait", "get", "pcgs", "block", "blocked", "unblock", "undo",
                         "account", "over", "reclaim", "destroy", "large", "putback", "putadd"} \cup DOMAIN After]
  /\ loc \in [Threads -> [n : Nat, wait : BOOLEAN, excl : BOOLEAN, large : BOOLEAN, left : Nat, found : Nat,
                          npp : {0, 1}, plist : Nat, i : Buckets, which : BOOLEAN]]

(* What thread t has claimed and found no page for yet, and what it has    *)
(* put on a list and not counted yet.                                      *)
Claimed(t) ==
  IF pc[t] \in {"run", "va", "wait", "reclaim", "destroy"} \cup DOMAIN After THEN 0
  ELSE IF pc[t] \in {"putback", "putadd"} THEN loc[t].left
  ELSE loc[t].n - loc[t].found
Uncounted(t) == IF pc[t] = "account" THEN 1 ELSE 0
Reserved == Sum(pcf_reserve, Buckets)
Promised == CountIn(Buckets) + Reserved + SumLoc(Claimed) + SumLoc(Uncounted)
Present == lists + Cardinality(At("destroy")) + SumLoc(Npp)

(* No more pages are promised than there are: for every claim that         *)
(* page_create_va() made there is a page, on a list or in the hands of one *)
(* that will put it back if it does not need it, and so                    *)
(* page_create_get_something() has one to wait for.  TypeOK: the counts    *)
(* are unsigned, and none goes below zero.                                 *)
PagesCovered ==
  /\ TypeOK
  /\ Present >= Promised
  /\ \A t \in Threads : Claimed(t) >= 0

(* Whoever sleeps for memory is counted in every bucket's pcf_wait, so     *)
(* that a page freed into any of them wakes somebody, whatever the wakeups *)
(* of other buckets, page_destroy_free() and pcgs_unblock() did to the     *)
(* counts; and in freemem_wait.                                            *)
WaitersCounted ==
  /\ \A b \in Buckets : pcf_wait[b] >= Cardinality(freemem_cv)
  /\ freemem_wait = Cardinality({t \in Threads : pc[t] \in DOMAIN After})

(* While a bucket is blocked a thread is in page_create_get_something()    *)
(* that will unblock it: the holder of pcgs_lock has yet to come to it.    *)
BlockedIsUnblocked ==
  \A b \in Buckets : pcf_block[b] =>
    \E t \in Threads : /\ pcgs_lock = t
                       /\ \/ pc[t] = "blocked"
                          \/ pc[t] = "block" /\ b < loc[t].i
                          \/ pc[t] = "unblock" /\ b >= loc[t].i

(* Nobody who sleeps for memory is passed over: freed pages find the       *)
(* waiters counted and, after page_create_get_something(), the buckets     *)
(* open (WaitersCounted and BlockedIsUnblocked).                           *)
CountsSound == WaitersCounted /\ BlockedIsUnblocked

=======================================================================
