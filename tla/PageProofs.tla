--------------------------- MODULE PageProofs ---------------------------
(***************************************************************************)
(* Machine-checked proofs about Page, for any threads, pages and names.    *)
(*                                                                         *)
(* The inductive invariant says of every thread, by the place it is at,    *)
(* which operation it is in (Shape) and what is true of the pages that it  *)
(* holds (SpareOK, HeldOK): their fields disagree only while the thread    *)
(* that has them exclusively is between two steps of a change of name or   *)
(* of list.  PhmOK says who has a hash mutex and what it protects.         *)
(***************************************************************************)
EXTENDS Page, FiniteSetTheorems, TLAPS

-----------------------------------------------------------------------
(* A page whose fields agree, one that is in use, and one without a name. *)
Agree(p) ==
  /\ hashed[p] <=> p_vnode[p] # None
  /\ p_free[p] <=> list[p] # "none"
  /\ p_age[p] <=> list[p] = "free"
  /\ p_free[p] => (p_age[p] <=> p_vnode[p] = None)
InUse(p) == ~p_free[p] /\ ~p_age[p] /\ list[p] = "none"
Nameless(p) == ~hashed[p] /\ p_vnode[p] = None

(* The operations that thread t can be in at each place, and the pages     *)
(* that its local variables have then.                                     *)
Shape(t) ==
  LET l == pc[t]  r == loc[t] IN
  /\ r.op \in {"lookup", "nowait", "create", "create_excl", "rename"} => r.id \in Names
  /\ r.op \in {"vplist", "free", "destroy", "dontfree", "destroy_free"} => r.id = None
  /\ r.op \in {"create", "create_excl", "rename", "free", "destroy", "dontfree", "destroy_free"} => r.se = EXCL
  /\ r.npp # None => r.npp # r.pp /\ r.op \in {"create", "create_excl", "rename"}
  /\ l = "run" => r.op = "none" /\ (r.pp = None => r.id = None /\ r.se = EXCL)
  /\ l = "search" => r.op \in {"lookup", "nowait"} /\ r.pp = None
  /\ l \in {"try", "confirm", "downgrade"} => r.op = "lookup" /\ r.pp # None /\ (l = "downgrade" => r.se = SHARED)
  /\ l \in {"phm", "top"} =>
       /\ r.op \in {"lookup", "nowait", "create", "create_excl", "rename"} /\ r.pp = None
       /\ r.op \in {"create", "create_excl", "rename"} => r.npp # None
  /\ l \in {"got", "asleep", "woken"} =>
       /\ r.op \in {"lookup", "rename", "create", "vplist"} /\ r.pp # None
       /\ r.op \in {"create", "rename"} => r.npp # None
  /\ l = "reclaim" => r.op \in {"lookup", "rename"} /\ r.pp # None /\ (r.op = "rename" => r.npp # None)
  /\ l \in {"isfree", "nwtry", "nwgot"} => r.op = "nowait" /\ r.pp # None
  /\ l \in {"hashout", "noname"} =>
       /\ r.op \in {"rename", "create", "create_excl", "destroy", "dontfree", "destroy_free"}
       /\ r.op \in {"create", "create_excl"} => r.pp = None /\ r.npp # None
       /\ r.op \in {"destroy", "dontfree", "destroy_free"} => r.pp # None
       /\ r.op = "rename" => r.npp # None
  /\ l \in {"unloaded", "hashin"} => r.op = "rename" /\ r.npp # None /\ (l = "unloaded" => r.pp # None)
  /\ l = "getpage" => r.op \in {"create", "create_excl"} /\ r.pp = None /\ r.npp = None
  /\ l = "own" => r.op \in {"create", "create_excl"} /\ r.pp = None /\ r.npp # None
  /\ l = "putback" => r.op \in {"create", "create_excl"} /\ r.npp # None
  /\ l = "free" => r.op \in {"free", "destroy", "rename"} /\ r.pp # None
  /\ l = "kept" => r.op = "dontfree" /\ r.pp # None
  /\ l = "relist" => r.op = "destroy_free" /\ r.pp # None
  /\ l \in {"io", "io_asleep"} => r.op \in {"none", "create", "create_excl"} /\ r.pp # None
  /\ l # "panic"

(* The page that t keeps in npp. *)
SpareOK(t) ==
  LET l == pc[t]  r == loc[t]  q == loc[t].npp
      first == l \in {"hashout", "noname"} /\ r.pp = None IN
  q # None =>
    /\ first =>
         /\ hashed[q] <=> l = "hashout"
         /\ p_vnode[q] # None /\ list[q] = "none"
         /\ r.op = "rename" => InUse(q)
    /\ l = "own" => Nameless(q) /\ list[q] = "none"
    /\ l = "free" => hashed[q] /\ p_vnode[q] = r.id /\ InUse(q)
    /\ ~first /\ l \notin {"own", "free"} => Nameless(q) /\ InUse(q)

(* The page that t holds in pp. *)
HeldOK(t) ==
  LET l == pc[t]  r == loc[t]  p == loc[t].pp IN
  p # None =>
    /\ l \in {"run", "io", "io_asleep", "putback"} =>
         Agree(p) /\ ~p_free[p] /\ (r.id # None => p_vnode[p] = r.id)
    /\ l \in {"confirm", "nwgot", "got", "free"} => Agree(p)
    /\ l = "got" =>
         /\ r.op \in {"lookup", "rename"} => ~p_free[p]
         /\ IF r.op = "vplist" THEN p_vnode[p] # None ELSE p_vnode[p] = r.id
    /\ l \in {"reclaim", "downgrade", "unloaded"} =>
         Agree(p) /\ p_vnode[p] = r.id /\ (p_free[p] <=> l = "reclaim")
    /\ l \in {"hashout", "noname"} =>
         /\ hashed[p] <=> l = "hashout"
         /\ p_vnode[p] # None /\ list[p] = "none"
         /\ r.op \in {"rename", "destroy", "dontfree"} => InUse(p)
         /\ r.op = "rename" => p_vnode[p] = r.id
    /\ l \in {"hashin", "kept"} => Nameless(p) /\ InUse(p)
    /\ l = "relist" => Nameless(p)

ThreadsSound == \A t \in Threads : Shape(t) /\ SpareOK(t) /\ HeldOK(t)

(* Does t hold its page exclusively. *)
Excl(t, p) ==
  loc[t].se = EXCL \/ pc[t] \in {"reclaim", "downgrade"} \/ (pc[t] = "confirm" /\ p_free[p])

Holders(p) == {t \in Threads : p \in Holds(t)}

(* The lock word of page p counts its holders, and says how they hold it. *)
LockSound(p) ==
  /\ \A t \in Holders(p) : Excl(t, p) <=> p_selock[p] = -1
  /\ Cardinality(Holders(p)) = IF p_selock[p] = -1 THEN 1 ELSE p_selock[p]

(* The fields of pages that nobody has exclusively, and the names. *)
FieldsSound ==
  /\ \A p \in Pages : p_selock[p] # -1 => Agree(p)
  /\ \A p \in Pages : hashed[p] => p_vnode[p] # None
  /\ \A p, q \in Pages : hashed[p] /\ hashed[q] /\ p_vnode[p] = p_vnode[q] => p = q

(* Who must have the hash mutex of the name it works on. *)
MustHold(t) ==
  \/ pc[t] \in {"top", "hashin"}
  \/ loc[t].op = "rename" /\ pc[t] \in {"got", "reclaim"}
  \/ loc[t].op = "rename" /\ loc[t].pp # None /\ pc[t] \in {"hashout", "noname"}
(* Who may have it. *)
MayHold(t) ==
  \/ MustHold(t)
  \/ pc[t] \in {"got", "reclaim", "downgrade", "isfree", "nwtry", "nwgot"}

PhmOK(t) ==
  /\ \A n \in Names : phm[n] = t => n = loc[t].id /\ MayHold(t)
  /\ MustHold(t) => Hold(t)
  /\ pc[t] \in {"isfree", "nwtry", "nwgot"} /\ Hold(t) => hashed[Pp(t)] /\ p_vnode[Pp(t)] = loc[t].id
  /\ (pc[t] = "hashin" \/ (pc[t] = "noname" /\ loc[t].op = "rename" /\ loc[t].pp # None)) => Matches(t) = {}

(* The i/o lock is with a caller that holds the page; who sleeps for it is *)
(* woken.                                                                  *)
IoOK(t) == \A p \in Pages : p_io[p] = t => pc[t] \in {"run", "putback"} /\ Pp(t) = p
IoWaited(p) == IoWaiters(p) # {} => p_io[p] # None \/ \E t \in Threads : At(t, "io") /\ Pp(t) = p

(* Who sleeps for a page: for a lock that is held, and for its name. *)
SleepOK(t) ==
  pc[t] = "asleep" =>
    /\ p_selock[Pp(t)] # 0
    /\ loc[t].se = SHARED /\ ~p_free[Pp(t)] => p_selock[Pp(t)] = -1
    /\ loc[t].id # None => p_vnode[Pp(t)] = loc[t].id

OwnSound(t) == PhmOK(t) /\ IoOK(t) /\ SleepOK(t)

Inv ==
  /\ TypeOK /\ ThreadsSound /\ (\A t \in Threads : OwnSound(t))
  /\ (\A p \in Pages : LockSound(p) /\ IoWaited(p)) /\ FieldsSound

-----------------------------------------------------------------------
(* What a step of thread u leaves alone: the other threads, except that it *)
(* may wake them, and the fields of pages that others hold.                *)
OthersKeep(u) ==
  \A t \in Threads \ {u} :
    /\ loc'[t] = loc[t]
    /\ \/ pc'[t] = pc[t]
       \/ pc[t] = "asleep" /\ pc'[t] = "woken"
       \/ pc[t] = "io_asleep" /\ pc'[t] = "io"
Same(p) ==
  /\ p_vnode'[p] = p_vnode[p] /\ hashed'[p] = hashed[p]
  /\ p_free'[p] = p_free[p] /\ p_age'[p] = p_age[p] /\ list'[p] = list[p]
FieldsKeep(u) ==
  \A p \in Pages : p_selock[p] = 0 \/ (p \in Holds(u) /\ p_selock[p] = -1) \/ Same(p)

(* page_unlock() wakes the sleepers of the page and moves nobody else. *)
LEMMA UnlockKeeps ==
  ASSUME NEW u \in Threads, NEW l, l # "asleep", DOMAIN pc = Threads, NEW p,
         PageUnlock(u, p, l)
  PROVE  /\ pc'[u] = l
         /\ \A t \in Threads \ {u} :
              pc'[t] = IF UnlockWakes(p) /\ pc[t] = "asleep" /\ Pp(t) = p THEN "woken" ELSE pc[t]
         /\ p_selock' = Unlocked(p)
<1> DEFINE s == [pc EXCEPT ![u] = l]
<1>1. CASE UnlockWakes(p)
  <2>1. pc' = Broadcast(s, p) /\ p_selock' = Unlocked(p)
    BY <1>1 DEF PageUnlock
  <2> QED
    BY <1>1, <2>1 DEF Broadcast
<1>2. CASE ~UnlockWakes(p)
  BY <1>2 DEF PageUnlock
<1> QED
  BY <1>1, <1>2

(* A step of u moves u alone, but for those that a broadcast on p_cv or a  *)
(* signal on p_io_cv wakes.                                                *)
LEMMA OthersStep ==
  ASSUME TypeOK, NEW u \in Threads, Call(u) \/ Step(u)
  PROVE  OthersKeep(u)
<1>0. DOMAIN pc = Threads /\ DOMAIN loc = Threads
  BY DEF TypeOK
<1>1. ASSUME NEW l, Goto(u, l) PROVE \A t \in Threads \ {u} : pc'[t] = pc[t]
  BY <1>0, <1>1 DEF Goto
<1>2. ASSUME NEW r, Set(u, r) PROVE \A t \in Threads \ {u} : loc'[t] = loc[t]
  BY <1>0, <1>2 DEF Set
<1>3. ASSUME NEW p, PageUnlock(u, p, "run") \/ PageUnlock(u, p, "phm")
      PROVE  \A t \in Threads \ {u} : pc'[t] = pc[t] \/ (pc[t] = "asleep" /\ pc'[t] = "woken")
  BY <1>0, <1>3, UnlockKeeps
<1>4. ASSUME Call(u) PROVE OthersKeep(u)
  <2>1. ASSUME NEW op, NEW id, NEW se, Lookup(u, op, id, se) PROVE OthersKeep(u)
    BY <2>1, <1>1, <1>2 DEF Lookup, OthersKeep
  <2>2. ASSUME NEW p, NEW se, VplistDirty(u, p, se) PROVE OthersKeep(u)
    BY <2>2, <1>1, <1>2 DEF VplistDirty, OthersKeep
  <2>3. ASSUME NEW op, NEW id, Create(u, op, id) PROVE OthersKeep(u)
    BY <2>3, <1>1, <1>2 DEF Create, OthersKeep
  <2>4. ASSUME NEW id, Rename(u, id) PROVE OthersKeep(u)
    BY <2>4, <1>1, <1>2 DEF Rename, OthersKeep
  <2>5. ASSUME NEW op, Free(u) \/ Destroy(u, op) PROVE OthersKeep(u)
    BY <2>5, <1>1, <1>2 DEF Free, Destroy, OthersKeep
  <2>6. CASE Unlock(u)
    BY <2>6, <1>3, <1>2 DEF Unlock, OthersKeep
  <2>7. CASE PageDowngrade(u)
    BY <2>7, <1>0, <1>2 DEF PageDowngrade, DowngradeWakes, Broadcast, OthersKeep
  <2>8. CASE TryUpgrade(u)
    BY <2>8, <1>2 DEF TryUpgrade, OthersKeep
  <2>9. CASE IoLock(u) \/ IoTrylock(u)
    BY <2>9, <1>1 DEF IoLock, IoTrylock, OthersKeep
  <2>10. CASE IoUnlock(u)
    BY <2>10, <1>0 DEF IoUnlock, IoSignal, IoWaiters, At, Goto, OthersKeep
  <2> QED
    BY <1>4, <2>1, <2>2, <2>3, <2>4, <2>5, <2>6, <2>7, <2>8, <2>9, <2>10 DEF Call
<1>5. ASSUME Step(u) PROVE OthersKeep(u)
  <2>1. CASE Woken(u) \/ PageReclaim(u) \/ Search(u) \/ TryLock(u) \/ EnterPhm(u)
    BY <2>1, <1>1, <1>2 DEF Woken, PageReclaim, Search, TryLock, EnterPhm, Return, OthersKeep
  <2>2. CASE ReclaimFails(u)
    BY <2>2, <1>2, <1>3 DEF ReclaimFails, OthersKeep
  <2>3. CASE Downgrade(u)
    BY <2>3, <1>0 DEF Downgrade, DowngradeWakes, Broadcast, OthersKeep
  <2>4. CASE Confirm(u)
    BY <2>4, <1>1, <1>2, <1>3 DEF Confirm, Return, OthersKeep
  <2>5. CASE TopMisses(u) \/ TopFinds(u) \/ Got(u) \/ TopFindsNowait(u) \/ NowaitIsFree(u) \/ NowaitTry(u)
    BY <2>5, <1>1, <1>2
       DEF TopMisses, TopFinds, PageLock, Got, TopFindsNowait, NowaitIsFree, NowaitTry, Return, OthersKeep
  <2>6. CASE NowaitGot(u)
    BY <2>6, <1>1, <1>2, <1>3 DEF NowaitGot, Return, OthersKeep
  <2>7. CASE VplistGot(u)
    BY <2>7, <1>1, <1>2, <1>3 DEF VplistGot, Return, OthersKeep
  <2>8. CASE Hashout(u) \/ GetPage(u) \/ Own(u) \/ CreateNew(u) \/ CreateExists(u) \/ CreateGot(u)
    BY <2>8, <1>1, <1>2 DEF Hashout, GetPage, Own, CreateNew, CreateExists, CreateGot, OthersKeep
  <2>9. CASE HashoutName(u)
    <3>1. HashoutNext(u) # "asleep"
      BY DEF HashoutNext
    <3> QED
      BY <2>9, <3>1, <1>0 DEF HashoutName, HashoutWakes, Broadcast, OthersKeep
  <2>10. CASE PageFree(u) \/ Kept(u) \/ Relist(u) \/ PutBack(u)
    BY <2>10, <1>1, <1>2, <1>3 DEF PageFree, Kept, Return, Relist, PutBack, OthersKeep
  <2>11. CASE RenameGot(u) \/ RenameMisses(u) \/ RenameHashin(u) \/ IoTake(u) \/ IoWait(u)
    BY <2>11, <1>1, <1>2 DEF RenameGot, RenameMisses, RenameHashin, IoTake, IoWait, Return, OthersKeep
  <2> QED
    BY <1>5, <2>1, <2>2, <2>3, <2>4, <2>5, <2>6, <2>7, <2>8, <2>9, <2>10, <2>11 DEF Step
<1> QED
  BY <1>4, <1>5

-----------------------------------------------------------------------
(* The holders of a page, by the state of its lock word. *)
LEMMA HoldersFinite ==
  ASSUME NEW p
  PROVE  IsFiniteSet(Holders(p)) /\ Cardinality(Holders(p)) \in Nat
BY PageAssumption, FS_Subset, FS_CardinalityType DEF Holders

(* A page that is locked exclusively has one holder. *)
LEMMA HolderUnique ==
  ASSUME NEW p \in Pages, LockSound(p), p_selock[p] = -1, NEW t \in Holders(p), NEW u \in Holders(p)
  PROVE  t = u
<1>1. Cardinality(Holders(p)) = 1 /\ IsFiniteSet(Holders(p))
  BY HoldersFinite DEF LockSound
<1>2. PICK x : Holders(p) = {x}
  BY <1>1, FS_Singleton
<1> QED
  BY <1>2

(* The p_selock of a page that somebody holds is not zero. *)
LEMMA HeldNotZero ==
  ASSUME NEW p \in Pages, LockSound(p), NEW t \in Holders(p)
  PROVE  p_selock[p] # 0
BY HoldersFinite, FS_EmptySet DEF LockSound

(* The pages that another thread holds are as they were. *)
LEMMA OthersSame ==
  ASSUME ThreadsSound, \A p \in Pages : LockSound(p), NEW u \in Threads, FieldsKeep(u),
         NEW t \in Threads \ {u}, NEW p \in Pages, p \in Holds(t)
  PROVE  Same(p)
<1>1. t \in Holders(p) /\ LockSound(p) /\ p_selock[p] # 0
  BY HeldNotZero DEF Holders
<1>2. ~(p \in Holds(u) /\ p_selock[p] = -1)
  BY <1>1, HolderUnique DEF Holders
<1> QED
  BY <1>1, <1>2 DEF FieldsKeep

(* Another thread holds the same pages in the same way. *)
LEMMA OthersHold ==
  ASSUME TypeOK, ThreadsSound, \A p \in Pages : LockSound(p), NEW u \in Threads,
         OthersKeep(u), FieldsKeep(u), NEW t \in Threads \ {u}
  PROVE  /\ Holds(t)' = Holds(t) /\ Holds(t) \subseteq Pages
         /\ \A p \in Holds(t) : Excl(t, p)' <=> Excl(t, p)
<1>1. Holds(t)' = Holds(t)
  BY DEF OthersKeep, Holds, Spare, Sleeping, Searching, Pp
<1>2. Holds(t) \subseteq Pages
  BY DEF TypeOK, Locals, Holds, Spare, Pp
<1>3. ASSUME NEW p \in Holds(t) PROVE Excl(t, p)' <=> Excl(t, p)
  <2>1. Same(p)
    BY <1>2, OthersSame
  <2> QED
    BY <2>1 DEF OthersKeep, Excl, Same
<1> QED
  BY <1>1, <1>2, <1>3

(* What is true of another thread and its pages stays true. *)
LEMMA OthersSound ==
  ASSUME TypeOK, ThreadsSound, \A p \in Pages : LockSound(p), NEW u \in Threads,
         OthersKeep(u), FieldsKeep(u), NEW t \in Threads \ {u}
  PROVE  Shape(t)' /\ SpareOK(t)' /\ HeldOK(t)'
<1>0. Shape(t) /\ SpareOK(t) /\ HeldOK(t)
  BY DEF ThreadsSound
<1>1. /\ loc'[t] = loc[t] /\ loc[t] \in Locals
      /\ \/ pc'[t] = pc[t]
         \/ pc[t] = "asleep" /\ pc'[t] = "woken"
         \/ pc[t] = "io_asleep" /\ pc'[t] = "io"
  BY DEF OthersKeep, TypeOK
<1>2. Shape(t)'
  BY <1>0, <1>1 DEF Shape
<1>3. SpareOK(t)'
  <2>1. CASE loc[t].npp = None
    BY <1>1, <2>1 DEF SpareOK
  <2>2. CASE loc[t].npp # None
    <3>1. loc[t].npp \in Pages /\ loc[t].npp \in Holds(t)
      BY <1>1, <2>2 DEF Locals, Holds, Spare
    <3>2. Same(loc[t].npp)
      BY <3>1, OthersSame
    <3> QED
      BY <1>0, <1>1, <3>2 DEF SpareOK, Same, InUse, Nameless
  <2> QED
    BY <2>1, <2>2
<1>4. HeldOK(t)'
  <2>1. CASE loc[t].pp = None \/ Sleeping(t) \/ Searching(t)
    BY <1>1, <2>1 DEF HeldOK, Sleeping, Searching
  <2>2. CASE ~(loc[t].pp = None \/ Sleeping(t) \/ Searching(t))
    <3>1. loc[t].pp \in Pages /\ loc[t].pp \in Holds(t)
      BY <1>1, <2>2 DEF Locals, Holds, Pp
    <3>2. Same(loc[t].pp)
      BY <3>1, OthersSame
    <3> QED
      BY <1>0, <1>1, <2>2, <3>2 DEF HeldOK, Same, Agree, InUse, Nameless, Sleeping
  <2> QED
    BY <2>1, <2>2
<1> QED
  BY <1>2, <1>3, <1>4

-----------------------------------------------------------------------
(* What a step of u may do to the lock words: nothing, lock a page in mode *)
(* m, unlock one, or turn its lock on one into the other kind.             *)
Steady(u, q) == Excl(u, q)' <=> Excl(u, q)
LocksKept(u) == p_selock' = p_selock /\ Holds(u)' = Holds(u) /\ \A q \in Holds(u) : Steady(u, q)
LockTaken(u, p, m) ==
  /\ p \in Pages \ Holds(u) /\ CanLock(p, m) /\ p_selock' = Locked(p, m)
  /\ Holds(u)' = Holds(u) \cup {p}
  /\ (Excl(u, p)' <=> m = EXCL) /\ \A q \in Holds(u) : Steady(u, q)
LockDropped(u, p) ==
  /\ p \in Pages \cap Holds(u) /\ p_selock' = Unlocked(p)
  /\ Holds(u)' = Holds(u) \ {p} /\ \A q \in Holds(u)' : Steady(u, q)
LockTurned(u, p, x) ==
  /\ p \in Pages \cap Holds(u) /\ Holds(u)' = Holds(u)
  /\ p_selock[p] = (IF x = 1 THEN -1 ELSE 1) /\ x \in {-1, 1} /\ p_selock' = [p_selock EXCEPT ![p] = x]
  /\ (Excl(u, p)' <=> x = -1) /\ \A q \in Holds(u) \ {p} : Steady(u, q)
LockStep(u) ==
  \/ LocksKept(u)
  \/ \E p \in Pages, m \in {EXCL, SHARED} : LockTaken(u, p, m)
  \/ \E p \in Pages : LockDropped(u, p)
  \/ \E p \in Pages, x \in {-1, 1} : LockTurned(u, p, x)

(* The lock words stay sound. *)
LEMMA LocksNext ==
  ASSUME TypeOK, ThreadsSound, \A p \in Pages : LockSound(p), NEW u \in Threads,
         OthersKeep(u), FieldsKeep(u), LockStep(u)
  PROVE  p_selock' \in [Pages -> Nat \cup {-1}] /\ \A p \in Pages : LockSound(p)'
<1>0. p_selock \in [Pages -> Nat \cup {-1}]
  BY DEF TypeOK
<1>1. \A t \in Threads \ {u} : Holds(t)' = Holds(t) /\ \A p \in Holds(t) : Excl(t, p)' <=> Excl(t, p)
  BY OthersHold
<1>2. ASSUME NEW q \in Pages, p_selock'[q] = p_selock[q], q \in Holds(u)' <=> q \in Holds(u),
             q \in Holds(u) => Steady(u, q)
      PROVE  LockSound(q)'
  <2>1. Holders(q)' = Holders(q)
    BY <1>1, <1>2 DEF Holders
  <2>2. \A t \in Holders(q) : Excl(t, q)' <=> Excl(t, q)
    BY <1>1, <1>2 DEF Holders, Steady
  <2>3. LockSound(q)
    OBVIOUS
  <2> QED
    BY <1>2, <2>1, <2>2, <2>3 DEF LockSound
<1>3. CASE LocksKept(u)
  BY <1>0, <1>2, <1>3 DEF LocksKept
<1>4. ASSUME NEW p \in Pages, NEW m \in {EXCL, SHARED}, LockTaken(u, p, m)
      PROVE  p_selock' \in [Pages -> Nat \cup {-1}] /\ \A q \in Pages : LockSound(q)'
  <2>1. /\ p \notin Holds(u) /\ Holds(u)' = Holds(u) \cup {p} /\ p_selock' = Locked(p, m)
        /\ (Excl(u, p)' <=> m = EXCL) /\ \A q \in Holds(u) : Steady(u, q)
        /\ CanLock(p, m)
    BY <1>4 DEF LockTaken
  <2>2. /\ p_selock[p] # -1 /\ p_selock[p] \in Nat
        /\ p_selock'[p] = IF m = EXCL THEN -1 ELSE p_selock[p] + 1
        /\ m = EXCL => p_selock[p] = 0
        /\ \A q \in Pages \ {p} : p_selock'[q] = p_selock[q]
        /\ p_selock' \in [Pages -> Nat \cup {-1}]
    BY <1>0, <2>1 DEF CanLock, Locked, EXCL, SHARED
  <2>3. \A q \in Pages \ {p} : LockSound(q)'
    BY <1>2, <2>1, <2>2
  <2>4. LockSound(p) /\ u \notin Holders(p) /\ IsFiniteSet(Holders(p))
    BY <2>1, HoldersFinite DEF Holders
  <2>5. Cardinality(Holders(p)) = p_selock[p]
    BY <2>2, <2>4 DEF LockSound
  <2>6. Holders(p)' = Holders(p) \cup {u}
    BY <1>1, <2>1 DEF Holders
  <2>7. Cardinality(Holders(p)') = Cardinality(Holders(p)) + 1
    BY <2>4, <2>6, FS_AddElement
  <2>8. \A t \in Holders(p) : ~Excl(t, p)' /\ m # EXCL
    <3>1. ASSUME NEW t \in Holders(p) PROVE ~Excl(t, p)' /\ m # EXCL
      <4>1. p_selock[p] # 0
        BY HeldNotZero, <2>4
      <4>2. t \in Threads \ {u} /\ p \in Holds(t)
        BY <2>4 DEF Holders
      <4>3. ~Excl(t, p)
        BY <2>2, <2>4 DEF LockSound
      <4> QED
        BY <1>1, <2>2, <4>1, <4>2, <4>3
    <3> QED
      BY <3>1
  <2>9. \A t \in Holders(p)' : Excl(t, p)' <=> p_selock'[p] = -1
    BY <2>1, <2>2, <2>6, <2>8
  <2>10. Cardinality(Holders(p)') = IF p_selock'[p] = -1 THEN 1 ELSE p_selock'[p]
    BY <2>2, <2>5, <2>7
  <2> QED
    BY <2>2, <2>3, <2>9, <2>10 DEF LockSound
<1>5. ASSUME NEW p \in Pages, LockDropped(u, p)
      PROVE  p_selock' \in [Pages -> Nat \cup {-1}] /\ \A q \in Pages : LockSound(q)'
  <2>1. /\ p \in Holds(u) /\ Holds(u)' = Holds(u) \ {p} /\ p_selock' = Unlocked(p)
        /\ \A q \in Holds(u)' : Steady(u, q)
    BY <1>5 DEF LockDropped
  <2>2. LockSound(p) /\ u \in Holders(p) /\ IsFiniteSet(Holders(p)) /\ p_selock[p] # 0
    BY <2>1, HoldersFinite, HeldNotZero DEF Holders
  <2>3. /\ p_selock'[p] = IF p_selock[p] = -1 THEN 0 ELSE p_selock[p] - 1
        /\ p_selock'[p] \in Nat
        /\ \A q \in Pages \ {p} : p_selock'[q] = p_selock[q]
        /\ p_selock' \in [Pages -> Nat \cup {-1}]
    BY <1>0, <2>1, <2>2 DEF Unlocked
  <2>4. \A q \in Pages \ {p} : LockSound(q)'
    BY <1>2, <2>1, <2>3
  <2>5. Holders(p)' = Holders(p) \ {u}
    BY <1>1, <2>1 DEF Holders
  <2>6. Cardinality(Holders(p)') = Cardinality(Holders(p)) - 1
    BY <2>2, <2>5, FS_RemoveElement
  <2>7. Cardinality(Holders(p)') = p_selock'[p]
    BY <1>0, <2>2, <2>3, <2>6 DEF LockSound
  <2>8. \A t \in Holders(p)' : ~Excl(t, p)'
    <3>1. ASSUME NEW t \in Holders(p)' PROVE ~Excl(t, p)'
      <4>1. t \in Holders(p) /\ t \in Threads \ {u} /\ p \in Holds(t)
        BY <2>5, <3>1 DEF Holders
      <4>2. p_selock[p] # -1
        BY <2>2, <4>1, HolderUnique
      <4>3. ~Excl(t, p)
        BY <2>2, <4>1, <4>2 DEF LockSound
      <4> QED
        BY <1>1, <4>1, <4>3
    <3> QED
      BY <3>1
  <2> QED
    BY <2>3, <2>4, <2>7, <2>8 DEF LockSound
<1>6. ASSUME NEW p \in Pages, NEW x \in {-1, 1}, LockTurned(u, p, x)
      PROVE  p_selock' \in [Pages -> Nat \cup {-1}] /\ \A q \in Pages : LockSound(q)'
  <2>1. /\ p \in Holds(u) /\ Holds(u)' = Holds(u) /\ p_selock[p] = IF x = 1 THEN -1 ELSE 1
        /\ p_selock' = [p_selock EXCEPT ![p] = x]
        /\ (Excl(u, p)' <=> x = -1) /\ \A q \in Holds(u) \ {p} : Steady(u, q)
    BY <1>6 DEF LockTurned
  <2>2. /\ p_selock'[p] = x
        /\ \A q \in Pages \ {p} : p_selock'[q] = p_selock[q]
        /\ p_selock' \in [Pages -> Nat \cup {-1}]
    BY <1>0, <2>1
  <2>3. \A q \in Pages \ {p} : LockSound(q)'
    BY <1>2, <2>1, <2>2
  <2>4. LockSound(p) /\ u \in Holders(p) /\ IsFiniteSet(Holders(p)) /\ Holders(p)' = Holders(p)
    BY <1>1, <2>1, HoldersFinite DEF Holders
  <2>5. Cardinality(Holders(p)) = 1
    BY <2>1, <2>4 DEF LockSound
  <2>6. Holders(p) = {u}
    BY <2>4, <2>5, FS_Singleton
  <2> QED
    BY <2>1, <2>2, <2>3, <2>4, <2>5, <2>6 DEF LockSound
<1> QED
  BY <1>3, <1>4, <1>5, <1>6 DEF LockStep

-----------------------------------------------------------------------
(* What a step of u does to what the other threads rely on: the fields of  *)
(* pages that are not left locked exclusively, the names, the hash         *)
(* mutexes, the locks that they sleep for and the i/o locks.               *)
AgreeStep(u) == \A p \in Pages : p_selock'[p] # -1 => Agree(p)'
NoSleeper(u, p) == \A t \in Threads \ {u} : ~(pc'[t] = "asleep" /\ loc[t].pp = p)
NamesKept == p_vnode' = p_vnode /\ hashed' = hashed
Unhashed(u, p) ==
  /\ hashed' = [hashed EXCEPT ![p] = FALSE] /\ p_vnode' = p_vnode
  /\ phm[p_vnode[p]] \in {None, u}
Unnamed(u, p) ==
  /\ p_vnode' = [p_vnode EXCEPT ![p] = None] /\ hashed' = hashed /\ ~hashed[p] /\ NoSleeper(u, p)
Named(u, p) ==
  /\ Nameless(p) /\ loc[u].id \in Names /\ phm[loc[u].id] = u
  /\ \A q \in Pages : hashed[q] => p_vnode[q] # loc[u].id
  /\ p_vnode' = [p_vnode EXCEPT ![p] = loc[u].id] /\ hashed' = [hashed EXCEPT ![p] = TRUE]
NameStep(u) == NamesKept \/ \E p \in Pages : Unhashed(u, p) \/ Unnamed(u, p) \/ Named(u, p)
PhmStep(u) == \A n \in Names : \A t \in Threads \ {u} : phm'[n] = t <=> phm[n] = t
SleepStep(u) ==
  \A p \in Pages :
    \/ p_selock'[p] = -1
    \/ p_selock'[p] = p_selock[p] /\ p_free'[p] = p_free[p]
    \/ p_selock[p] # -1 /\ p_selock'[p] # 0 /\ p_free'[p] = p_free[p]
    \/ NoSleeper(u, p)
IoStep(u) ==
  /\ \A p \in Pages : \A t \in Threads \ {u} : p_io'[p] = t => p_io[p] = t
  /\ \A p \in Pages : IoWaited(p)'

(* A sound step of u. *)
Good(u) ==
  /\ FieldsKeep(u) /\ LockStep(u)
  /\ AgreeStep(u) /\ NameStep(u) /\ PhmStep(u) /\ SleepStep(u) /\ IoStep(u)
  /\ Shape(u)' /\ SpareOK(u)' /\ HeldOK(u)' /\ OwnSound(u)'

(* A thread's hold on a hash mutex outlives the steps of the others. *)
LEMMA PhmOthers ==
  ASSUME TypeOK, ThreadsSound, NEW u \in Threads, OthersKeep(u), NameStep(u), PhmStep(u),
         NEW t \in Threads \ {u}, PhmOK(t)
  PROVE  PhmOK(t)'
<1>0. /\ loc'[t] = loc[t] /\ loc[t] \in Locals /\ None \notin Names /\ None \notin Pages /\ None \notin Threads
      /\ \/ pc'[t] = pc[t]
         \/ pc[t] = "asleep" /\ pc'[t] = "woken"
         \/ pc[t] = "io_asleep" /\ pc'[t] = "io"
  BY PageAssumption DEF OthersKeep, TypeOK
<1>1. (MustHold(t)' <=> MustHold(t)) /\ (MayHold(t)' <=> MayHold(t))
  BY <1>0 DEF MustHold, MayHold
<1>2. Hold(t)' <=> Hold(t)
  BY <1>0 DEF Hold, PhmStep
<1>3. \A n \in Names : phm'[n] = t => n = loc'[t].id /\ MayHold(t)'
  BY <1>0, <1>1 DEF PhmOK, PhmStep
<1>4. MustHold(t)' => Hold(t)'
  BY <1>1, <1>2 DEF PhmOK
<1>5. DOMAIN hashed = Pages /\ DOMAIN p_vnode = Pages
  BY DEF TypeOK
<1>6. ASSUME pc'[t] \in {"isfree", "nwtry", "nwgot"}, Hold(t)'
      PROVE  hashed'[loc[t].pp] /\ p_vnode'[loc[t].pp] = loc[t].id
  <2> DEFINE q == loc[t].pp
  <2>1. pc[t] \in {"isfree", "nwtry", "nwgot"} /\ Hold(t)
    BY <1>0, <1>2, <1>6
  <2>2. hashed[q] /\ p_vnode[q] = loc[t].id /\ phm[loc[t].id] = t /\ loc[t].id \in Names
    BY <2>1 DEF PhmOK, Hold, Pp
  <2>3. q \in Pages
    <3>1. q # None
      BY <2>1 DEF ThreadsSound, Shape
    <3> QED
      BY <1>0, <3>1 DEF Locals
  <2>4. CASE NamesKept
    BY <2>2, <2>4 DEF NamesKept
  <2>5. ASSUME NEW p \in Pages, Unhashed(u, p) PROVE hashed'[q] /\ p_vnode'[q] = loc[t].id
    BY <1>0, <1>5, <2>2, <2>3, <2>5 DEF Unhashed
  <2>6. ASSUME NEW p \in Pages, Unnamed(u, p) PROVE hashed'[q] /\ p_vnode'[q] = loc[t].id
    BY <1>5, <2>2, <2>3, <2>6 DEF Unnamed
  <2>7. ASSUME NEW p \in Pages, Named(u, p) PROVE hashed'[q] /\ p_vnode'[q] = loc[t].id
    BY <1>5, <2>2, <2>3, <2>7 DEF Named, Nameless
  <2> QED
    BY <2>4, <2>5, <2>6, <2>7 DEF NameStep
<1>7. ASSUME pc'[t] = "hashin" \/ (pc'[t] = "noname" /\ loc'[t].op = "rename" /\ loc'[t].pp # None)
      PROVE  Matches(t)' = {}
  <2>1. pc[t] = "hashin" \/ (pc[t] = "noname" /\ loc[t].op = "rename" /\ loc[t].pp # None)
    BY <1>0, <1>7
  <2>2. Matches(t) = {} /\ MustHold(t)
    BY <2>1 DEF PhmOK, MustHold
  <2>3. loc[t].id \in Names /\ phm[loc[t].id] = t
    BY <2>2 DEF PhmOK, Hold
  <2>4. SUFFICES ASSUME NEW q \in Pages, hashed'[q], p_vnode'[q] = loc[t].id PROVE FALSE
    BY <1>0 DEF Matches
  <2>5. ~(hashed[q] /\ p_vnode[q] = loc[t].id)
    BY <2>2 DEF Matches
  <2>6. CASE NamesKept
    BY <2>4, <2>5, <2>6 DEF NamesKept
  <2>7. ASSUME NEW p \in Pages, Unhashed(u, p) PROVE FALSE
    BY <1>5, <2>4, <2>5, <2>7 DEF Unhashed
  <2>8. ASSUME NEW p \in Pages, Unnamed(u, p) PROVE FALSE
    BY <1>0, <1>5, <2>3, <2>4, <2>5, <2>8 DEF Unnamed
  <2>9. ASSUME NEW p \in Pages, Named(u, p) PROVE FALSE
    BY <1>5, <2>3, <2>4, <2>5, <2>9 DEF Named
  <2> QED
    BY <2>6, <2>7, <2>8, <2>9 DEF NameStep
<1> QED
  BY <1>0, <1>3, <1>4, <1>6, <1>7 DEF PhmOK, Pp

(* Who sleeps on p_cv sleeps on a page that is still locked and still has  *)
(* the name, whatever the others do.                                       *)
LEMMA SleepOthers ==
  ASSUME TypeOK, ThreadsSound, NEW u \in Threads, OthersKeep(u), NameStep(u), SleepStep(u),
         NEW t \in Threads \ {u}, SleepOK(t)
  PROVE  SleepOK(t)'
<1>0. /\ loc'[t] = loc[t] /\ loc[t] \in Locals /\ None \notin Names /\ None \notin Pages
      /\ DOMAIN p_vnode = Pages
  BY PageAssumption DEF OthersKeep, TypeOK
<1>1. SUFFICES ASSUME pc'[t] = "asleep" PROVE SleepOK(t)'
  BY DEF SleepOK
<1>2. pc[t] = "asleep"
  BY <1>1 DEF OthersKeep
<1> DEFINE q == loc[t].pp
<1>3. q \in Pages
  <2>1. q # None
    BY <1>2 DEF ThreadsSound, Shape
  <2> QED
    BY <1>0, <2>1 DEF Locals
<1>4. /\ p_selock[q] # 0
      /\ loc[t].se = SHARED /\ ~p_free[q] => p_selock[q] = -1
      /\ loc[t].id # None => p_vnode[q] = loc[t].id
  BY <1>2 DEF SleepOK, Pp
<1>5. ~NoSleeper(u, q)
  BY <1>1 DEF NoSleeper
<1>6. p_selock'[q] # 0 /\ (loc[t].se = SHARED /\ ~p_free'[q] => p_selock'[q] = -1)
  BY <1>3, <1>4, <1>5 DEF SleepStep
<1>7. loc[t].id # None => p_vnode'[q] = loc[t].id
  BY <1>0, <1>3, <1>4, <1>5 DEF NameStep, NamesKept, Unhashed, Unnamed, Named, Nameless
<1> QED
  BY <1>0, <1>6, <1>7 DEF SleepOK, Pp

(* The fields of the pages nobody holds agree again, and no two pages on   *)
(* the hash chains share a name.                                           *)
LEMMA FieldsNext ==
  ASSUME TypeOK, FieldsSound, NEW u \in Threads, AgreeStep(u), NameStep(u)
  PROVE  FieldsSound'
<1>0. None \notin Names /\ DOMAIN p_vnode = Pages /\ DOMAIN hashed = Pages
  BY PageAssumption DEF TypeOK
<1>1. /\ \A p \in Pages : hashed[p] => p_vnode[p] # None
      /\ \A p, q \in Pages : hashed[p] /\ hashed[q] /\ p_vnode[p] = p_vnode[q] => p = q
  BY DEF FieldsSound
<1> DEFINE U == /\ \A p \in Pages : hashed'[p] => p_vnode'[p] # None
                /\ \A p, q \in Pages : hashed'[p] /\ hashed'[q] /\ p_vnode'[p] = p_vnode'[q] => p = q
<1>2. NamesKept => U
  BY <1>1 DEF NamesKept
<1>3. ASSUME NEW p \in Pages, Unhashed(u, p) PROVE U
  BY <1>0, <1>1, <1>3 DEF Unhashed
<1>4. ASSUME NEW p \in Pages, Unnamed(u, p) PROVE U
  BY <1>0, <1>1, <1>4 DEF Unnamed
<1>5. ASSUME NEW p \in Pages, Named(u, p) PROVE U
  BY <1>0, <1>1, <1>5 DEF Named
<1>6. U
  BY <1>2, <1>3, <1>4, <1>5 DEF NameStep
<1> QED
  BY <1>6 DEF FieldsSound, AgreeStep

(* A sound step of u keeps the invariant. *)
LEMMA GoodNext ==
  ASSUME Inv, TypeOK', NEW u \in Threads, OthersKeep(u), Good(u)
  PROVE  Inv'
<1>1. TypeOK /\ ThreadsSound /\ FieldsSound /\ \A p \in Pages : LockSound(p)
  BY DEF Inv
<1>2. \A p \in Pages : LockSound(p)'
  BY <1>1, LocksNext DEF Good
<1>3. \A t \in Threads : Shape(t)' /\ SpareOK(t)' /\ HeldOK(t)'
  BY <1>1, OthersSound DEF Good
<1>4. FieldsSound'
  BY <1>1, FieldsNext DEF Good
<1>5. ASSUME NEW t \in Threads PROVE OwnSound(t)'
  <2>1. CASE t = u
    BY <2>1 DEF Good
  <2>2. CASE t # u
    <3>1. PhmOK(t) /\ IoOK(t) /\ SleepOK(t)
      BY DEF Inv, OwnSound
    <3>2. PhmOK(t)'
      BY <1>1, <2>2, <3>1, PhmOthers DEF Good
    <3>3. SleepOK(t)'
      BY <1>1, <2>2, <3>1, SleepOthers DEF Good
    <3>4. IoOK(t)'
      BY <2>2, <3>1 DEF IoOK, Pp, Good, IoStep, OthersKeep
    <3> QED
      BY <3>2, <3>3, <3>4 DEF OwnSound
  <2> QED
    BY <2>1, <2>2
<1> QED
  BY <1>2, <1>3, <1>4, <1>5 DEF Inv, ThreadsSound, Good, IoStep

-----------------------------------------------------------------------
(* What the steps have in common. *)
LEMMA Typing ==
  ASSUME Inv, NEW u \in Threads
  PROVE  /\ DOMAIN pc = Threads /\ DOMAIN loc = Threads /\ loc[u] \in Locals
         /\ None \notin Names /\ None \notin Pages /\ None \notin Threads
         /\ DOMAIN p_vnode = Pages /\ DOMAIN p_free = Pages /\ DOMAIN p_age = Pages
         /\ DOMAIN list = Pages /\ DOMAIN hashed = Pages /\ DOMAIN p_io = Pages /\ DOMAIN phm = Names
         /\ p_selock \in [Pages -> Nat \cup {-1}]
         /\ Shape(u) /\ SpareOK(u) /\ HeldOK(u) /\ PhmOK(u) /\ IoOK(u) /\ SleepOK(u)
BY PageAssumption DEF Inv, TypeOK, ThreadsSound, OwnSound

(* The place of a thread and its local variables. *)
View(t, l, o, i, s, p, q) ==
  pc[t] = l /\ loc[t].op = o /\ loc[t].id = i /\ loc[t].se = s /\ loc[t].pp = p /\ loc[t].npp = q

(* A step that leaves p_iolock alone, and neither leaves page_io_lock()    *)
(* nor sleeps in it, loses no waiter.                                      *)
LEMMA IoKept ==
  ASSUME Inv, NEW u \in Threads, OthersKeep(u), p_io' = p_io, pc[u] # "io", pc'[u] # "io_asleep"
  PROVE  IoStep(u)
<1>1. ASSUME NEW p \in Pages, IoWaiters(p)' # {}, p_io'[p] = None
      PROVE  \E t \in Threads : At(t, "io")' /\ Pp(t)' = p
  <2>1. PICK t \in Threads : pc'[t] = "io_asleep" /\ loc'[t].pp = p
    BY <1>1 DEF IoWaiters, At, Pp
  <2>2. t # u /\ pc[t] = "io_asleep" /\ loc[t].pp = p
    BY <2>1 DEF OthersKeep
  <2>3. PICK v \in Threads : pc[v] = "io" /\ loc[v].pp = p
    BY <1>1, <2>2 DEF Inv, IoWaited, IoWaiters, At, Pp
  <2>4. v # u /\ pc'[v] = "io" /\ loc'[v].pp = p
    BY <2>3 DEF OthersKeep
  <2> QED
    BY <2>4 DEF At, Pp
<1> QED
  BY <1>1 DEF IoStep, IoWaited

(* The i/o lock stays with the thread that holds it. *)
LEMMA IoMine ==
  ASSUME Inv, NEW u \in Threads, p_io' = p_io,
         \/ pc[u] \notin {"run", "putback"}
         \/ loc[u].pp = None
         \/ p_io[loc[u].pp] # u
         \/ pc'[u] \in {"run", "putback"} /\ loc'[u].pp = loc[u].pp
  PROVE  IoOK(u)'
BY Typing DEF IoOK, Pp

(* A step that changes no page; one that locks a page; one that unlocks    *)
(* one, which agrees.                                                      *)
LEMMA MoveFrame ==
  ASSUME Inv, NEW u \in Threads, OthersKeep(u), UNCHANGED <<p_selock, names, free>>
  PROVE  FieldsKeep(u) /\ AgreeStep(u) /\ NameStep(u) /\ SleepStep(u)
<1>1. /\ p_selock' = p_selock /\ p_vnode' = p_vnode /\ hashed' = hashed
      /\ p_free' = p_free /\ p_age' = p_age /\ list' = list
  BY DEF names, free
<1>2. AgreeStep(u)
  BY <1>1 DEF Inv, FieldsSound, AgreeStep, Agree
<1> QED
  BY <1>1, <1>2 DEF FieldsKeep, Same, NameStep, NamesKept, SleepStep

(* ... one that locks a page in se_trylock()... *)
LEMMA TakeFrame ==
  ASSUME Inv, NEW u \in Threads, OthersKeep(u), NEW p \in Pages, NEW m \in {EXCL, SHARED},
         CanLock(p, m), p_selock' = Locked(p, m), UNCHANGED <<names, free>>
  PROVE  FieldsKeep(u) /\ AgreeStep(u) /\ NameStep(u) /\ SleepStep(u)
<1>1. /\ p_vnode' = p_vnode /\ hashed' = hashed
      /\ p_free' = p_free /\ p_age' = p_age /\ list' = list
  BY DEF names, free
<1>2. /\ p_selock'[p] = -1 \/ (p_selock[p] # -1 /\ p_selock'[p] # 0)
      /\ \A q \in Pages \ {p} : p_selock'[q] = p_selock[q]
      /\ p_selock[p] # -1
  BY Typing DEF CanLock, Locked
<1>3. \A q \in Pages : p_selock'[q] # -1 => p_selock[q] # -1
  BY <1>2
<1>4. AgreeStep(u)
  BY <1>1, <1>3 DEF Inv, FieldsSound, AgreeStep, Agree
<1>5. SleepStep(u)
  BY <1>1, <1>2 DEF SleepStep
<1> QED
  BY <1>1, <1>4, <1>5 DEF FieldsKeep, Same, NameStep, NamesKept

(* page_unlock() leaves nobody asleep on a page that it leaves free. *)
LEMMA UnlockSleepers ==
  ASSUME Inv, NEW u \in Threads, OthersKeep(u), NEW p \in Pages, NEW l, l # "asleep",
         p_selock[p] # 0, PageUnlock(u, p, l)
  PROVE  /\ pc'[u] = l /\ p_selock' = Unlocked(p)
         /\ NoSleeper(u, p) \/ (p_selock[p] # -1 /\ p_selock'[p] # 0)
         /\ p_selock'[p] # -1
         /\ \A q \in Pages \ {p} : p_selock'[q] = p_selock[q]
<1>1. /\ pc'[u] = l /\ p_selock' = Unlocked(p)
      /\ \A t \in Threads \ {u} :
           pc'[t] = IF UnlockWakes(p) /\ pc[t] = "asleep" /\ Pp(t) = p THEN "woken" ELSE pc[t]
  BY Typing, UnlockKeeps
<1>2. UnlockWakes(p) => NoSleeper(u, p)
  BY <1>1 DEF NoSleeper, Pp
<1>3. ~UnlockWakes(p) => p_selock[p] # -1 /\ p_selock'[p] # 0
  BY <1>1, Typing DEF UnlockWakes, Unlocked
<1>4. p_selock'[p] # -1 /\ \A q \in Pages \ {p} : p_selock'[q] = p_selock[q]
  BY <1>1, Typing DEF Unlocked
<1> QED
  BY <1>1, <1>2, <1>3, <1>4

(* ... and one that unlocks a page whose fields agree. *)
LEMMA DropFrame ==
  ASSUME Inv, NEW u \in Threads, OthersKeep(u), NEW p \in Pages, NEW l, l # "asleep",
         p_selock[p] # 0, PageUnlock(u, p, l), Agree(p), UNCHANGED <<names, free>>
  PROVE  FieldsKeep(u) /\ AgreeStep(u) /\ NameStep(u) /\ SleepStep(u)
<1>1. /\ p_vnode' = p_vnode /\ hashed' = hashed
      /\ p_free' = p_free /\ p_age' = p_age /\ list' = list
  BY DEF names, free
<1>2. /\ NoSleeper(u, p) \/ (p_selock[p] # -1 /\ p_selock'[p] # 0)
      /\ \A q \in Pages \ {p} : p_selock'[q] = p_selock[q]
  BY UnlockSleepers
<1>3. AgreeStep(u)
  BY <1>1, <1>2 DEF Inv, FieldsSound, AgreeStep, Agree
<1>4. SleepStep(u)
  BY <1>1, <1>2 DEF SleepStep
<1> QED
  BY <1>1, <1>3, <1>4 DEF FieldsKeep, Same, NameStep, NamesKept

(* The same of a page that is put on a list and then unlocked. *)
LEMMA FreeFrame ==
  ASSUME Inv, NEW u \in Threads, OthersKeep(u), NEW p \in Pages, NEW l, l # "asleep",
         p \in Holds(u), p_selock[p] = -1, PageUnlock(u, p, l), NEW aged \in BOOLEAN, SetFree(p, aged),
         p_vnode[p] = None <=> aged, hashed[p] <=> p_vnode[p] # None, UNCHANGED names
  PROVE  FieldsKeep(u) /\ AgreeStep(u) /\ NameStep(u) /\ SleepStep(u)
<1>1. p_vnode' = p_vnode /\ hashed' = hashed
  BY DEF names
<1>2. /\ NoSleeper(u, p)
      /\ \A q \in Pages \ {p} : p_selock'[q] = p_selock[q]
  BY UnlockSleepers
<1>3. /\ p_free'[p] /\ (p_age'[p] <=> aged) /\ list'[p] = IF aged THEN "free" ELSE "cache"
      /\ \A q \in Pages \ {p} : p_free'[q] = p_free[q] /\ p_age'[q] = p_age[q] /\ list'[q] = list[q]
  BY Typing DEF SetFree
<1>4. Agree(p)'
  BY <1>1, <1>3 DEF Agree
<1>5. AgreeStep(u)
  BY <1>1, <1>2, <1>3, <1>4 DEF Inv, FieldsSound, AgreeStep, Agree
<1>6. SleepStep(u)
  BY <1>2, <1>3 DEF SleepStep
<1> QED
  BY <1>1, <1>3, <1>5, <1>6 DEF FieldsKeep, Same, NameStep, NamesKept

(* The hash mutex of a thread that has none, and of one that drops it. *)
LEMMA PhmQuiet ==
  ASSUME NEW u \in Threads, PhmOK(u), ~MayHold(u), phm' = phm, ~MustHold(u)'
  PROVE  PhmStep(u) /\ PhmOK(u)'
<1>1. \A n \in Names : phm'[n] # u
  BY DEF PhmOK
<1> QED
  BY <1>1 DEF PhmStep, PhmOK, Hold, MustHold

(* A thread that lets go of the hash mutex it may have held. *)
LEMMA PhmDropped ==
  ASSUME NEW u \in Threads, PhmOK(u), DOMAIN phm = Names, None \notin Threads, DropPhm(u), ~MustHold(u)'
  PROVE  PhmStep(u) /\ PhmOK(u)'
<1>1. \A n \in Names : phm'[n] # u
  BY DEF PhmOK, DropPhm, Hold
<1>2. PhmStep(u)
  BY DEF DropPhm, Hold, PhmStep
<1> QED
  BY <1>1, <1>2 DEF PhmOK, Hold, MustHold

(* What a holder knows of p_selock. *)
LEMMA HoldLock ==
  ASSUME Inv, NEW u \in Threads, NEW p \in Pages
  PROVE  p \in Holds(u) => p_selock[p] # 0 /\ (Excl(u, p) <=> p_selock[p] = -1)
BY HeldNotZero DEF Inv, LockSound, Holders

(* A step of u that moves it and changes no page keeps its locks if it     *)
(* holds the same pages in the same way.                                   *)
LEMMA MoveGood ==
  ASSUME Inv, NEW u \in Threads, OthersKeep(u), UNCHANGED <<p_selock, names, free, p_io>>,
         pc[u] # "io", pc'[u] # "io_asleep",
         Holds(u)' = Holds(u), \A q \in Holds(u) : Steady(u, q),
         PhmStep(u), Shape(u)', SpareOK(u)', HeldOK(u)', PhmOK(u)', IoOK(u)', SleepOK(u)'
  PROVE  Good(u)
BY MoveFrame, IoKept DEF Good, OwnSound, LockStep, LocksKept

-----------------------------------------------------------------------
(* The calls that only set out. *)
LEMMA LookupGood ==
  ASSUME Inv, NEW u \in Threads, OthersKeep(u), NEW op \in {"lookup", "nowait"}, NEW id \in Names,
         NEW se \in {EXCL, SHARED}, Lookup(u, op, id, se)
  PROVE  Good(u)
<1>1. pc[u] = "run" /\ loc[u].pp = None /\ UNCHANGED <<p_selock, names, free, p_io>> /\ phm' = phm
  BY DEF Lookup, At, Pp
<1>2. loc[u].op = "none" /\ loc[u].npp = None
  BY <1>1, Typing DEF Shape
<1>3. View(u, "search", op, id, se, None, None)'
  BY Typing DEF Lookup, View, Goto, Set, Idle
<1>4. Shape(u)' /\ SpareOK(u)' /\ HeldOK(u)' /\ SleepOK(u)'
  BY <1>3, Typing DEF View, Shape, SpareOK, HeldOK, SleepOK
<1>5. Holds(u) = {} /\ Holds(u)' = {}
  BY <1>1, <1>2, <1>3 DEF View, Holds, Spare, Pp
<1>6. PhmStep(u) /\ PhmOK(u)' /\ IoOK(u)'
  BY <1>1, <1>2, <1>3, Typing, PhmQuiet, IoMine DEF View, MayHold, MustHold
<1> QED
  BY <1>1, <1>3, <1>4, <1>5, <1>6, MoveGood DEF View

(* page_create_va() sets out, having claimed a free page. *)
LEMMA CreateGood ==
  ASSUME Inv, NEW u \in Threads, OthersKeep(u), NEW op \in {"create", "create_excl"}, NEW id \in Names,
         Create(u, op, id)
  PROVE  Good(u)
<1>1. pc[u] = "run" /\ loc[u].pp = None /\ UNCHANGED <<p_selock, names, free, p_io>> /\ phm' = phm
  BY DEF Create, At, Pp
<1>2. loc[u].op = "none" /\ loc[u].npp = None
  BY <1>1, Typing DEF Shape
<1>3. View(u, "getpage", op, id, EXCL, None, None)'
  BY Typing DEF Create, View, Goto, Set, Idle
<1>4. Shape(u)' /\ SpareOK(u)' /\ HeldOK(u)' /\ SleepOK(u)'
  BY <1>3, Typing DEF View, Shape, SpareOK, HeldOK, SleepOK
<1>5. Holds(u) = {} /\ Holds(u)' = {}
  BY <1>1, <1>2, <1>3 DEF View, Holds, Spare, Pp
<1>6. PhmStep(u) /\ PhmOK(u)' /\ IoOK(u)'
  BY <1>1, <1>2, <1>3, Typing, PhmQuiet, IoMine DEF View, MayHold, MustHold
<1> QED
  BY <1>1, <1>3, <1>4, <1>5, <1>6, MoveGood DEF View

(* The page that the caller holds, when it holds it exclusively. *)
LEMMA HeldByCaller ==
  ASSUME Inv, NEW u \in Threads, pc[u] = "run", loc[u].pp # None
  PROVE  /\ loc[u].pp \in Pages /\ loc[u].op = "none" /\ loc[u].npp = None
         /\ Agree(loc[u].pp) /\ InUse(loc[u].pp)
         /\ loc[u].id # None => p_vnode[loc[u].pp] = loc[u].id
         /\ Holds(u) = {loc[u].pp} /\ p_selock[loc[u].pp] # 0
         /\ loc[u].se = EXCL <=> p_selock[loc[u].pp] = -1
<1>1. loc[u].pp \in Pages /\ loc[u].op = "none" /\ loc[u].npp = None
  BY Typing DEF Shape, Locals
<1>2. Agree(loc[u].pp) /\ ~p_free[loc[u].pp] /\ (loc[u].id # None => p_vnode[loc[u].pp] = loc[u].id)
  BY Typing DEF HeldOK
<1>3. Holds(u) = {loc[u].pp}
  BY <1>1 DEF Holds, Spare, Pp, Sleeping, Searching
<1>4. p_selock[loc[u].pp] # 0 /\ (Excl(u, loc[u].pp) <=> p_selock[loc[u].pp] = -1)
  BY <1>1, <1>3, HoldLock
<1> QED
  BY <1>1, <1>2, <1>3, <1>4 DEF Agree, InUse, Excl

(* page_rename() sets out with the page the caller holds. *)
LEMMA RenameGood ==
  ASSUME Inv, NEW u \in Threads, OthersKeep(u), NEW id \in Names, Rename(u, id)
  PROVE  Good(u)
<1>0. PICK p : p = loc[u].pp
  OBVIOUS
<1>1. /\ pc[u] = "run" /\ p # None /\ loc[u].se = EXCL /\ p_io[p] = None /\ p_vnode[p] # None
      /\ UNCHANGED <<p_selock, names, free, p_io>> /\ phm' = phm
  BY <1>0 DEF Rename, Exclusive, At, Pp
<1>2. p \in Pages /\ loc[u].op = "none" /\ loc[u].npp = None /\ hashed[p] /\ InUse(p) /\ Holds(u) = {p}
  BY <1>0, <1>1, HeldByCaller DEF Agree
<1>3. View(u, "hashout", "rename", id, EXCL, None, p)'
  BY <1>0, Typing DEF Rename, RenameFirst, View, Goto, Set, Idle, Pp
<1>4. hashed'[p] /\ p_vnode'[p] # None /\ InUse(p)'
  BY <1>1, <1>2 DEF names, free, InUse
<1>5. Shape(u)' /\ SpareOK(u)' /\ HeldOK(u)' /\ SleepOK(u)'
  BY <1>2, <1>3, <1>4, Typing DEF View, Shape, SpareOK, HeldOK, SleepOK, InUse
<1>6. Holds(u)' = {p} /\ Steady(u, p)
  BY <1>0, <1>1, <1>2, <1>3, Typing DEF View, Holds, Spare, Pp, Steady, Excl
<1>7. PhmStep(u) /\ PhmOK(u)' /\ IoOK(u)'
  BY <1>0, <1>1, <1>2, <1>3, Typing, PhmQuiet, IoMine DEF View, MayHold, MustHold
<1> QED
  BY <1>1, <1>2, <1>3, <1>5, <1>6, <1>7, MoveGood DEF View

(* page_free() sets out. *)
LEMMA FreeGood ==
  ASSUME Inv, NEW u \in Threads, OthersKeep(u), Free(u)
  PROVE  Good(u)
<1>0. PICK p : p = loc[u].pp
  OBVIOUS
<1>1. /\ pc[u] = "run" /\ p # None /\ loc[u].se = EXCL /\ p_io[p] = None
      /\ UNCHANGED <<p_selock, names, free, p_io>> /\ phm' = phm
  BY <1>0 DEF Free, Exclusive, At, Pp
<1>2. p \in Pages /\ loc[u].op = "none" /\ loc[u].npp = None /\ Agree(p) /\ Holds(u) = {p}
  BY <1>0, <1>1, HeldByCaller
<1>3. View(u, "free", "free", None, EXCL, p, None)'
  BY <1>0, Typing DEF Free, View, Goto, Set, Idle, Pp
<1>4. Agree(p)'
  BY <1>1, <1>2 DEF names, free, Agree
<1>5. Shape(u)' /\ SpareOK(u)' /\ HeldOK(u)' /\ SleepOK(u)'
  BY <1>1, <1>3, <1>4, Typing DEF View, Shape, SpareOK, HeldOK, SleepOK
<1>6. Holds(u)' = {p} /\ Steady(u, p)
  BY <1>0, <1>1, <1>2, <1>3, Typing DEF View, Holds, Spare, Pp, Sleeping, Searching, Steady, Excl
<1>7. PhmStep(u) /\ PhmOK(u)' /\ IoOK(u)'
  BY <1>0, <1>1, <1>2, <1>3, Typing, PhmQuiet, IoMine DEF View, MayHold, MustHold
<1> QED
  BY <1>1, <1>2, <1>3, <1>5, <1>6, <1>7, MoveGood DEF View

(* page_destroy() sets out. *)
LEMMA DestroyGood ==
  ASSUME Inv, NEW u \in Threads, OthersKeep(u), NEW op \in {"destroy", "dontfree"}, Destroy(u, op)
  PROVE  Good(u)
<1>0. PICK p : p = loc[u].pp
  OBVIOUS
<1>1. /\ pc[u] = "run" /\ p # None /\ loc[u].se = EXCL /\ p_io[p] = None /\ p_vnode[p] # None
      /\ UNCHANGED <<p_selock, names, free, p_io>> /\ phm' = phm
  BY <1>0 DEF Destroy, Exclusive, At, Pp
<1>2. p \in Pages /\ loc[u].op = "none" /\ loc[u].npp = None /\ hashed[p] /\ InUse(p) /\ Holds(u) = {p}
  BY <1>0, <1>1, HeldByCaller DEF Agree
<1>3. View(u, "hashout", op, None, EXCL, p, None)'
  BY <1>0, Typing DEF Destroy, View, Goto, Set, Idle, Pp
<1>4. hashed'[p] /\ p_vnode'[p] # None /\ InUse(p)'
  BY <1>1, <1>2 DEF names, free, InUse
<1>5. Shape(u)' /\ SpareOK(u)' /\ HeldOK(u)' /\ SleepOK(u)'
  BY <1>1, <1>3, <1>4, Typing DEF View, Shape, SpareOK, HeldOK, SleepOK, InUse
<1>6. Holds(u)' = {p} /\ Steady(u, p)
  BY <1>0, <1>1, <1>2, <1>3, Typing DEF View, Holds, Spare, Pp, Sleeping, Searching, Steady, Excl
<1>7. PhmStep(u) /\ PhmOK(u)' /\ IoOK(u)'
  BY <1>0, <1>1, <1>2, <1>3, Typing, PhmQuiet, IoMine DEF View, MayHold, MustHold
<1> QED
  BY <1>1, <1>2, <1>3, <1>5, <1>6, <1>7, MoveGood DEF View

(* page_io_lock() sets out. *)
LEMMA IoLockGood ==
  ASSUME Inv, NEW u \in Threads, OthersKeep(u), IoLock(u)
  PROVE  Good(u)
<1>0. PICK p : p = loc[u].pp
  OBVIOUS
<1>1. /\ pc[u] = "run" /\ p # None /\ p_io[p] # u /\ loc' = loc
      /\ UNCHANGED <<p_selock, names, free, p_io>> /\ phm' = phm
  BY <1>0 DEF IoLock, At, Pp
<1>2. /\ p \in Pages /\ loc[u].op = "none" /\ loc[u].npp = None /\ Agree(p) /\ InUse(p) /\ Holds(u) = {p}
      /\ loc[u].id # None => p_vnode[p] = loc[u].id
  BY <1>0, <1>1, HeldByCaller
<1>3. View(u, "io", "none", loc[u].id, loc[u].se, p, None)'
  BY <1>0, <1>1, <1>2, Typing DEF IoLock, View, Goto
<1>4. Agree(p)' /\ ~p_free'[p] /\ p_vnode' = p_vnode
  BY <1>1, <1>2 DEF names, free, Agree, InUse
<1>5. Shape(u)' /\ SpareOK(u)' /\ HeldOK(u)' /\ SleepOK(u)'
  BY <1>1, <1>2, <1>3, <1>4, Typing DEF View, Shape, SpareOK, HeldOK, SleepOK
<1>6. Holds(u)' = {p} /\ Steady(u, p)
  BY <1>0, <1>1, <1>2, <1>3, Typing DEF View, Holds, Spare, Pp, Sleeping, Searching, Steady, Excl
<1>7. PhmStep(u) /\ PhmOK(u)' /\ IoOK(u)'
  BY <1>0, <1>1, <1>2, <1>3, Typing, PhmQuiet, IoMine DEF View, MayHold, MustHold
<1> QED
  BY <1>1, <1>2, <1>3, <1>5, <1>6, <1>7, MoveGood DEF View

(* A caller that stays as it is with its page. *)
LEMMA CallerStays ==
  ASSUME Inv, NEW u \in Threads, OthersKeep(u), pc[u] = "run", loc[u].pp # None, pc'[u] = "run", loc' = loc,
         UNCHANGED <<p_selock, names, free>>, phm' = phm
  PROVE  /\ FieldsKeep(u) /\ LockStep(u) /\ AgreeStep(u) /\ NameStep(u) /\ PhmStep(u) /\ SleepStep(u)
         /\ Shape(u)' /\ SpareOK(u)' /\ HeldOK(u)' /\ PhmOK(u)' /\ SleepOK(u)'
<1>0. PICK p : p = loc[u].pp
  OBVIOUS
<1>1. /\ p \in Pages /\ p # None /\ loc[u].op = "none" /\ loc[u].npp = None /\ Agree(p) /\ InUse(p)
      /\ Holds(u) = {p} /\ (loc[u].id # None => p_vnode[p] = loc[u].id)
  BY <1>0, HeldByCaller
<1>2. Agree(p)' /\ ~p_free'[p] /\ p_vnode' = p_vnode
  BY <1>1 DEF names, free, Agree, InUse
<1>3. Shape(u)' /\ SpareOK(u)' /\ HeldOK(u)' /\ SleepOK(u)'
  BY <1>0, <1>1, <1>2, Typing DEF Shape, SpareOK, HeldOK, SleepOK
<1>4. Holds(u)' = {p} /\ Steady(u, p)
  BY <1>0, <1>1, Typing DEF Holds, Spare, Pp, Sleeping, Searching, Steady, Excl
<1>5. PhmStep(u) /\ PhmOK(u)'
  BY <1>1, Typing, PhmQuiet DEF MayHold, MustHold
<1>6. LockStep(u)
  BY <1>1, <1>4 DEF LockStep, LocksKept
<1> QED
  BY <1>3, <1>5, <1>6, MoveFrame

(* page_io_trylock() takes the i/o lock. *)
LEMMA IoTrylockGood ==
  ASSUME Inv, NEW u \in Threads, OthersKeep(u), IoTrylock(u)
  PROVE  Good(u)
<1>0. PICK p : p = loc[u].pp
  OBVIOUS
<1>1. /\ pc[u] = "run" /\ p # None /\ p_io[p] = None /\ p_io' = [p_io EXCEPT ![p] = u] /\ loc' = loc /\ pc' = pc
      /\ UNCHANGED <<p_selock, names, free>> /\ phm' = phm
  BY <1>0 DEF IoTrylock, At, Pp
<1>2. p \in Pages
  BY <1>0, <1>1, HeldByCaller
<1>3. IoOK(u)'
  BY <1>0, <1>1, <1>2, Typing DEF IoOK, Pp
<1>4. IoStep(u)
  BY <1>1, <1>2, Typing DEF Inv, IoStep, IoWaited, IoWaiters, At, Pp
<1> QED
  BY <1>0, <1>1, <1>3, <1>4, CallerStays DEF Good, OwnSound

(* page_io_unlock() gives it back and wakes one waiter. *)
LEMMA IoUnlockGood ==
  ASSUME Inv, NEW u \in Threads, OthersKeep(u), IoUnlock(u)
  PROVE  Good(u)
<1>0. PICK p : p = loc[u].pp
  OBVIOUS
<1>1. /\ pc[u] = "run" /\ p # None /\ p_io[p] = u /\ p_io' = [p_io EXCEPT ![p] = None] /\ loc' = loc
      /\ UNCHANGED <<p_selock, names, free>> /\ phm' = phm
  BY <1>0 DEF IoUnlock, At, Pp
<1>2. p \in Pages
  BY <1>0, <1>1, HeldByCaller
<1>3. /\ IoWaiters(p) = {} => pc' = pc
      /\ IoWaiters(p) # {} => \E v \in Threads : pc[v] = "io_asleep" /\ loc[v].pp = p /\ pc' = [pc EXCEPT ![v] = "io"]
  BY <1>0 DEF IoUnlock, IoSignal, IoWaiters, Goto, At, Pp
<1>4. pc'[u] = "run"
  BY <1>1, <1>3, Typing
<1>5. IoOK(u)'
  BY <1>0, <1>1, <1>2, <1>4, Typing DEF IoOK, Pp
<1>6. ASSUME NEW q \in Pages, q # p PROVE IoWaited(q)'
  <2>1. p_io'[q] = p_io[q]
    BY <1>1, <1>6, Typing
  <2>2. ASSUME NEW t \in Threads, pc'[t] = "io_asleep" PROVE pc[t] = "io_asleep"
    BY <1>1, <1>4, <2>2 DEF OthersKeep
  <2>3. ASSUME NEW t \in Threads, pc[t] = "io" PROVE pc'[t] = "io"
    BY <1>1, <2>3 DEF OthersKeep
  <2>4. IoWaited(q)
    BY DEF Inv
  <2> QED
    BY <1>1, <2>1, <2>2, <2>3, <2>4 DEF IoWaited, IoWaiters, At, Pp
<1>7. IoWaited(p)'
  <2>1. CASE IoWaiters(p) = {}
    <3>1. pc' = pc
      BY <1>3, <2>1
    <3> QED
      BY <1>1, <2>1, <3>1 DEF IoWaited, IoWaiters, At, Pp
  <2>2. CASE IoWaiters(p) # {}
    <3>1. PICK v \in Threads : loc[v].pp = p /\ pc' = [pc EXCEPT ![v] = "io"]
      BY <1>3, <2>2
    <3>2. pc'[v] = "io" /\ loc'[v].pp = p
      BY <1>1, <3>1, Typing
    <3> QED
      BY <3>2 DEF IoWaited, At, Pp
  <2> QED
    BY <2>1, <2>2
<1>8. IoStep(u)
  BY <1>1, <1>2, <1>6, <1>7, Typing DEF IoStep
<1> QED
  BY <1>0, <1>1, <1>4, <1>5, <1>8, CallerStays DEF Good, OwnSound

-----------------------------------------------------------------------
(* Where many steps lead: the call returns without a page, or with one, or *)
(* tries again with the hash mutex.                                        *)
LEMMA ReturnsNothing ==
  ASSUME NEW u \in Threads, View(u, "run", "none", None, EXCL, None, None)', None \notin Names
  PROVE  /\ Shape(u)' /\ SpareOK(u)' /\ HeldOK(u)' /\ SleepOK(u)' /\ Holds(u)' = {} /\ ~MustHold(u)'
         /\ pc'[u] = "run" /\ loc'[u].pp = None
BY DEF View, Shape, SpareOK, HeldOK, SleepOK, Holds, Spare, Pp, MustHold

(* A call returns with a page locked. *)
LEMMA ReturnsPage ==
  ASSUME NEW u \in Threads, NEW id \in Names \cup {None}, NEW se \in {EXCL, SHARED}, NEW p \in Pages,
         View(u, "run", "none", id, se, p, None)', None \notin Names, None \notin Pages,
         Agree(p)', ~p_free'[p], id # None => p_vnode'[p] = id
  PROVE  /\ Shape(u)' /\ SpareOK(u)' /\ HeldOK(u)' /\ SleepOK(u)' /\ Holds(u)' = {p} /\ ~MustHold(u)'
         /\ pc'[u] = "run" /\ loc'[u].pp = p
<1>1. Shape(u)' /\ SpareOK(u)' /\ SleepOK(u)' /\ ~MustHold(u)' /\ pc'[u] = "run" /\ loc'[u].pp = p
  BY DEF View, Shape, SpareOK, SleepOK, MustHold
<1>2. HeldOK(u)'
  BY DEF View, HeldOK
<1>3. Holds(u)' = {p}
  BY DEF View, Holds, Spare, Pp, Sleeping, Searching
<1> QED
  BY <1>1, <1>2, <1>3

(* A lookup goes back to the hash mutex without a page. *)
LEMMA TriesAgain ==
  ASSUME NEW u \in Threads, NEW op \in {"lookup", "nowait", "create", "create_excl", "rename"}, NEW id \in Names,
         NEW se, NEW q, View(u, "phm", op, id, se, None, q)', None \notin Names, None \notin Pages,
         op \in {"lookup", "nowait"} => q = None,
         op \notin {"lookup", "nowait"} => q \in Pages /\ se = EXCL /\ Nameless(q)' /\ InUse(q)'
  PROVE  /\ Shape(u)' /\ SpareOK(u)' /\ HeldOK(u)' /\ SleepOK(u)' /\ Holds(u)' = {q} \ {None} /\ ~MustHold(u)'
         /\ pc'[u] = "phm" /\ loc'[u].pp = None
<1>1. Shape(u)' /\ HeldOK(u)' /\ SleepOK(u)' /\ ~MustHold(u)' /\ pc'[u] = "phm" /\ loc'[u].pp = None
  BY DEF View, Shape, HeldOK, SleepOK, MustHold
<1>2. SpareOK(u)'
  BY DEF View, SpareOK
<1>3. Holds(u)' = {q} \ {None}
  BY DEF View, Holds, Spare, Pp, Sleeping, Searching
<1> QED
  BY <1>1, <1>2, <1>3

(* A step that turns an exclusive lock into a shared one and wakes those   *)
(* who sleep for it.                                                       *)
LEMMA DowngradeFrame ==
  ASSUME Inv, NEW u \in Threads, OthersKeep(u), NEW p \in Pages, p_selock' = [p_selock EXCEPT ![p] = 1],
         Agree(p), NoSleeper(u, p), UNCHANGED <<names, free>>
  PROVE  FieldsKeep(u) /\ AgreeStep(u) /\ NameStep(u) /\ SleepStep(u)
<1>1. /\ p_vnode' = p_vnode /\ hashed' = hashed
      /\ p_free' = p_free /\ p_age' = p_age /\ list' = list
  BY DEF names, free
<1>2. \A q \in Pages \ {p} : p_selock'[q] = p_selock[q]
  BY Typing
<1>3. AgreeStep(u)
  BY <1>1, <1>2 DEF Inv, FieldsSound, AgreeStep, Agree
<1>4. SleepStep(u)
  BY <1>1, <1>2 DEF SleepStep
<1> QED
  BY <1>1, <1>3, <1>4 DEF FieldsKeep, Same, NameStep, NamesKept

(* page_unlock() by the caller. *)
LEMMA UnlockGood ==
  ASSUME Inv, NEW u \in Threads, OthersKeep(u), Unlock(u)
  PROVE  Good(u)
<1>0. PICK p : p = loc[u].pp
  OBVIOUS
<1>1. /\ pc[u] = "run" /\ p # None /\ p_io[p] # u /\ PageUnlock(u, p, "run")
      /\ UNCHANGED <<names, free>> /\ phm' = phm /\ p_io' = p_io
  BY <1>0 DEF Unlock, At, Pp
<1>2. p \in Pages /\ loc[u].op = "none" /\ Agree(p) /\ Holds(u) = {p} /\ p_selock[p] # 0
  BY <1>0, <1>1, HeldByCaller
<1>3. pc'[u] = "run" /\ p_selock' = Unlocked(p)
  BY <1>1, <1>2, UnlockSleepers
<1>4. View(u, "run", "none", None, EXCL, None, None)'
  BY <1>3, Typing DEF Unlock, View, Set, Idle
<1>5. /\ Shape(u)' /\ SpareOK(u)' /\ HeldOK(u)' /\ SleepOK(u)' /\ Holds(u)' = {} /\ ~MustHold(u)'
  BY <1>4, Typing, ReturnsNothing
<1>6. LockStep(u)
  BY <1>2, <1>3, <1>5 DEF LockStep, LockDropped
<1>7. PhmStep(u) /\ PhmOK(u)' /\ IoOK(u)' /\ IoStep(u)
  BY <1>0, <1>1, <1>2, <1>3, <1>5, Typing, PhmQuiet, IoMine, IoKept DEF MayHold, MustHold
<1>8. FieldsKeep(u) /\ AgreeStep(u) /\ NameStep(u) /\ SleepStep(u)
  BY <1>1, <1>2, DropFrame
<1> QED
  BY <1>5, <1>6, <1>7, <1>8 DEF Good, OwnSound

(* page_downgrade() by the caller, which wakes all who sleep on the page. *)
LEMMA PageDowngradeGood ==
  ASSUME Inv, NEW u \in Threads, OthersKeep(u), PageDowngrade(u)
  PROVE  Good(u)
<1>0. PICK p : p = loc[u].pp
  OBVIOUS
<1>1. /\ pc[u] = "run" /\ p # None /\ loc[u].se = EXCL /\ p_selock' = [p_selock EXCEPT ![p] = 1]
      /\ UNCHANGED <<names, free>> /\ phm' = phm /\ p_io' = p_io
  BY <1>0 DEF PageDowngrade, At, Pp
<1>2. /\ p \in Pages /\ loc[u].op = "none" /\ loc[u].npp = None /\ Agree(p) /\ ~p_free[p] /\ Holds(u) = {p}
      /\ p_selock[p] = -1 /\ (loc[u].id # None => p_vnode[p] = loc[u].id)
  BY <1>0, <1>1, HeldByCaller DEF InUse
<1>3. pc'[u] = "run" /\ NoSleeper(u, p)
  BY <1>0, <1>1, Typing DEF PageDowngrade, DowngradeWakes, Broadcast, NoSleeper, Pp
<1>4. PICK id \in Names \cup {None} : id = loc[u].id
  BY Typing DEF Locals
<1>5. View(u, "run", "none", id, SHARED, p, None)'
  BY <1>0, <1>2, <1>3, <1>4, Typing DEF PageDowngrade, View, Set, Locals
<1>6. Agree(p)' /\ ~p_free'[p] /\ p_vnode' = p_vnode
  BY <1>1, <1>2 DEF names, free, Agree
<1>7. Shape(u)' /\ SpareOK(u)' /\ HeldOK(u)' /\ SleepOK(u)' /\ Holds(u)' = {p} /\ ~MustHold(u)' /\ loc'[u].pp = p
  BY <1>2, <1>4, <1>5, <1>6, Typing, ReturnsPage
<1>8. LockStep(u)
  <2>1. ~Excl(u, p)'
    BY <1>5 DEF View, Excl, EXCL, SHARED
  <2>2. LockTurned(u, p, 1)
    BY <1>1, <1>2, <1>7, <2>1 DEF LockTurned
  <2> QED
    BY <1>2, <2>2 DEF LockStep
<1>9. PhmStep(u) /\ PhmOK(u)' /\ IoOK(u)' /\ IoStep(u)
  BY <1>0, <1>1, <1>2, <1>3, <1>7, Typing, PhmQuiet, IoMine, IoKept DEF MayHold, MustHold
<1>10. FieldsKeep(u) /\ AgreeStep(u) /\ NameStep(u) /\ SleepStep(u)
  BY <1>1, <1>2, <1>3, DowngradeFrame
<1> QED
  BY <1>7, <1>8, <1>9, <1>10 DEF Good, OwnSound

(* page_tryupgrade() of the only sharer. *)
LEMMA TryUpgradeGood ==
  ASSUME Inv, NEW u \in Threads, OthersKeep(u), TryUpgrade(u)
  PROVE  Good(u)
<1>0. PICK p : p = loc[u].pp
  OBVIOUS
<1>1. /\ pc[u] = "run" /\ p # None /\ loc[u].se = SHARED /\ p_selock' = [p_selock EXCEPT ![p] = -1]
      /\ UNCHANGED <<names, free>> /\ phm' = phm /\ p_io' = p_io /\ pc' = pc /\ p_selock[p] = 1
  BY <1>0 DEF TryUpgrade, At, Pp
<1>2. /\ p \in Pages /\ loc[u].op = "none" /\ loc[u].npp = None /\ Agree(p) /\ ~p_free[p] /\ Holds(u) = {p}
      /\ (loc[u].id # None => p_vnode[p] = loc[u].id)
  BY <1>0, <1>1, HeldByCaller DEF InUse
<1>4. PICK id \in Names \cup {None} : id = loc[u].id
  BY Typing DEF Locals
<1>5. View(u, "run", "none", id, EXCL, p, None)'
  BY <1>0, <1>1, <1>2, <1>4, Typing DEF TryUpgrade, View, Set, Locals
<1>6. Agree(p)' /\ ~p_free'[p] /\ p_vnode' = p_vnode /\ hashed' = hashed /\ p_free' = p_free /\ p_age' = p_age /\ list' = list
  BY <1>1, <1>2 DEF names, free, Agree
<1>7. Shape(u)' /\ SpareOK(u)' /\ HeldOK(u)' /\ SleepOK(u)' /\ Holds(u)' = {p} /\ ~MustHold(u)' /\ loc'[u].pp = p
  BY <1>2, <1>4, <1>5, <1>6, Typing, ReturnsPage
<1>8. LockStep(u)
  <2>1. Excl(u, p)'
    BY <1>5 DEF View, Excl
  <2>2. LockTurned(u, p, -1)
    BY <1>1, <1>2, <1>7, <2>1 DEF LockTurned
  <2> QED
    BY <1>2, <2>2 DEF LockStep
<1>9. PhmStep(u) /\ PhmOK(u)' /\ IoOK(u)' /\ IoStep(u)
  BY <1>0, <1>1, <1>2, <1>7, Typing, PhmQuiet, IoMine, IoKept DEF MayHold, MustHold
<1>10. \A q \in Pages \ {p} : p_selock'[q] = p_selock[q]
  BY <1>1, Typing
<1>11. FieldsKeep(u) /\ AgreeStep(u) /\ NameStep(u) /\ SleepStep(u)
  <2>1. AgreeStep(u)
    BY <1>1, <1>2, <1>6, <1>10 DEF Inv, FieldsSound, AgreeStep, Agree
  <2>2. SleepStep(u)
    BY <1>1, <1>2, <1>6, <1>10, Typing DEF SleepStep
  <2> QED
    BY <1>6, <2>1, <2>2 DEF FieldsKeep, Same, NameStep, NamesKept
<1> QED
  BY <1>7, <1>8, <1>9, <1>11 DEF Good, OwnSound

-----------------------------------------------------------------------
(* The page in npp, while it has no name. *)
LEMMA SpareFacts ==
  ASSUME Inv, NEW u \in Threads, loc[u].npp # None, pc[u] \notin {"own", "free"},
         ~(pc[u] \in {"hashout", "noname"} /\ loc[u].pp = None)
  PROVE  /\ loc[u].npp \in Pages /\ Nameless(loc[u].npp) /\ InUse(loc[u].npp)
         /\ loc[u].se = EXCL /\ loc[u].op \in {"create", "create_excl", "rename"} /\ loc[u].npp # loc[u].pp
<1>1. loc[u].npp \in Pages
  BY Typing DEF Locals
<1>2. Nameless(loc[u].npp) /\ InUse(loc[u].npp)
  BY Typing DEF SpareOK
<1>3. loc[u].se = EXCL /\ loc[u].op \in {"create", "create_excl", "rename"} /\ loc[u].npp # loc[u].pp
  BY Typing DEF Shape
<1> QED
  BY <1>1, <1>2, <1>3

(* A step that changes the fields of a page that is held exclusively. *)
LEMMA ExclFrame ==
  ASSUME Inv, NEW u \in Threads, NEW p \in Pages, p \in Holds(u), p_selock[p] = -1, p_selock' = p_selock,
         \A q \in Pages \ {p} : Same(q)
  PROVE  FieldsKeep(u) /\ AgreeStep(u) /\ SleepStep(u)
<1>1. AgreeStep(u)
  BY DEF Inv, FieldsSound, AgreeStep, Agree, Same
<1> QED
  BY <1>1 DEF FieldsKeep, SleepStep, Same

(* What se_trylock() tells of p_selock. *)
LEMMA NotLocked ==
  ASSUME Inv, NEW p \in Pages, NEW m \in {EXCL, SHARED}
  PROVE  /\ ~CanLock(p, m) => p_selock[p] # 0 /\ (m = SHARED => p_selock[p] = -1)
         /\ CanLock(p, m) => p_selock[p] # -1 /\ Agree(p) /\ (m = EXCL => p_selock[p] = 0)
<1>1. p_selock[p] \in Nat \cup {-1} /\ (p_selock[p] # -1 => Agree(p))
  BY DEF Inv, TypeOK, FieldsSound
<1> QED
  BY <1>1 DEF CanLock, EXCL, SHARED

-----------------------------------------------------------------------
(* pvn_vplist_dirty() locks a page of the list, or sleeps on it. *)
LEMMA VplistDirtyGood ==
  ASSUME Inv, NEW u \in Threads, OthersKeep(u), NEW p \in Pages, NEW se \in {EXCL, SHARED}, VplistDirty(u, p, se)
  PROVE  Good(u)
<1>1. /\ pc[u] = "run" /\ loc[u].pp = None /\ p_vnode[p] # None
      /\ UNCHANGED <<names, free>> /\ phm' = phm /\ p_io' = p_io
  BY DEF VplistDirty, At, Pp
<1>2. loc[u].op = "none" /\ loc[u].npp = None
  BY <1>1, Typing DEF Shape
<1>3. Holds(u) = {}
  BY <1>1, <1>2 DEF Holds, Spare, Pp
<1>4. CASE CanLock(p, se)
  <2>1. p_selock' = Locked(p, se) /\ Agree(p)
    BY <1>4, NotLocked DEF VplistDirty
  <2>2. View(u, "got", "vplist", None, se, p, None)'
    BY <1>4, Typing DEF VplistDirty, View, Goto, Set, Idle
  <2>3. Agree(p)' /\ p_vnode'[p] # None
    BY <1>1, <2>1 DEF names, free, Agree
  <2>4. Shape(u)' /\ SpareOK(u)' /\ HeldOK(u)' /\ SleepOK(u)'
    BY <2>2, <2>3, Typing DEF View, Shape, SpareOK, HeldOK, SleepOK
  <2>5. Holds(u)' = {p} /\ (Excl(u, p)' <=> se = EXCL)
    BY <2>2, Typing DEF View, Holds, Spare, Pp, Sleeping, Searching, Excl
  <2>6. LockTaken(u, p, se)
    BY <1>3, <1>4, <2>1, <2>5 DEF LockTaken
  <2>7. PhmStep(u) /\ PhmOK(u)' /\ IoOK(u)' /\ IoStep(u)
    BY <1>1, <1>2, <2>2, Typing, PhmQuiet, IoMine, IoKept DEF View, MayHold, MustHold
  <2>8. FieldsKeep(u) /\ AgreeStep(u) /\ NameStep(u) /\ SleepStep(u)
    BY <1>1, <1>4, <2>1, TakeFrame
  <2> QED
    BY <2>4, <2>6, <2>7, <2>8 DEF Good, OwnSound, LockStep
<1>5. CASE ~CanLock(p, se)
  <2>1. p_selock' = p_selock /\ p_selock[p] # 0 /\ (se = SHARED => p_selock[p] = -1)
    BY <1>5, NotLocked DEF VplistDirty
  <2>2. View(u, "asleep", "vplist", None, se, p, None)'
    BY <1>5, Typing DEF VplistDirty, View, Goto, Set, Idle
  <2>3. Shape(u)' /\ SpareOK(u)' /\ HeldOK(u)'
    BY <2>2, Typing DEF View, Shape, SpareOK, HeldOK
  <2>4. SleepOK(u)'
    BY <2>1, <2>2 DEF View, SleepOK, Pp
  <2>5. Holds(u)' = {}
    BY <2>2 DEF View, Holds, Spare, Pp, Sleeping
  <2>6. PhmStep(u) /\ PhmOK(u)' /\ IoOK(u)'
    BY <1>1, <1>2, <2>2, Typing, PhmQuiet, IoMine DEF View, MayHold, MustHold
  <2> QED
    BY <1>1, <1>3, <2>1, <2>2, <2>3, <2>4, <2>5, <2>6, MoveGood DEF View
<1> QED
  BY <1>4, <1>5

(* What a call returns. *)
LEMMA BackFacts ==
  ASSUME NEW u \in Threads, DOMAIN loc = Threads, NEW p, Set(u, Back(u, p))
  PROVE  /\ loc'[u].op = "none" /\ loc'[u].pp = p /\ loc'[u].npp = None
         /\ loc'[u].id = (IF p = None THEN None ELSE loc[u].id)
         /\ loc'[u].se = (IF p = None THEN EXCL ELSE loc[u].se)
<1>1. loc'[u] = Back(u, p)
  BY DEF Set
<1>2. /\ Back(u, p).op = "none" /\ Back(u, p).pp = p /\ Back(u, p).npp = None
      /\ Back(u, p).id = (IF p = None THEN None ELSE loc[u].id)
      /\ Back(u, p).se = (IF p = None THEN EXCL ELSE loc[u].se)
  BY DEF Back, Idle
<1> QED
  BY <1>1, <1>2

(* Where Return() leaves the thread. *)
LEMMA ReturnFacts ==
  ASSUME NEW u \in Threads, DOMAIN pc = Threads, DOMAIN loc = Threads, NEW p, Return(u, p)
  PROVE  /\ pc'[u] = "run" /\ loc'[u].op = "none" /\ loc'[u].pp = p /\ loc'[u].npp = None
         /\ loc'[u].id = (IF p = None THEN None ELSE loc[u].id)
         /\ loc'[u].se = (IF p = None THEN EXCL ELSE loc[u].se)
<1>1. pc'[u] = "run" /\ Set(u, Back(u, p))
  BY DEF Return, Goto
<1> QED
  BY <1>1, BackFacts

(* Back from cv_wait() in page_lock(). *)
LEMMA WokenGood ==
  ASSUME Inv, NEW u \in Threads, OthersKeep(u), Woken(u)
  PROVE  Good(u)
<1>0. PICK q : q = loc[u].npp
  OBVIOUS
<1>1. pc[u] = "woken" /\ UNCHANGED <<p_selock, names, free, p_io>> /\ phm' = phm
  BY DEF Woken, At
<1>2. Holds(u) = {q} \ {None}
  BY <1>0, <1>1 DEF Holds, Spare, Sleeping
<1>3. CASE loc[u].op \in {"lookup", "rename", "create"}
  <2>1. PICK op, id, se : op \in {"lookup", "rename", "create"} /\ op = loc[u].op /\ id = loc[u].id /\ se = loc[u].se
    BY <1>3
  <2>2. View(u, "phm", op, id, se, None, q)'
    BY <1>0, <1>3, <2>1, Typing DEF Woken, Return, View, Goto, Set, Locals
  <2>3. id \in Names /\ (op = "lookup" => q = None) /\ (op # "lookup" => q # None)
    BY <1>0, <1>1, <2>1, Typing DEF Shape
  <2>4. op # "lookup" => q \in Pages /\ se = EXCL /\ Nameless(q)' /\ InUse(q)'
    BY <1>0, <1>1, <2>1, <2>3, SpareFacts DEF names, free, Nameless, InUse
  <2>5. /\ Shape(u)' /\ SpareOK(u)' /\ HeldOK(u)' /\ SleepOK(u)' /\ Holds(u)' = {q} \ {None} /\ ~MustHold(u)'
        /\ pc'[u] = "phm"
    BY <2>1, <2>2, <2>3, <2>4, Typing, TriesAgain
  <2>6. \A r \in Holds(u) : Steady(u, r)
    BY <1>1, <1>2, <2>1, <2>2, <2>3, <2>4 DEF View, Steady, Excl
  <2>7. PhmStep(u) /\ PhmOK(u)' /\ IoOK(u)'
    BY <1>1, <2>5, Typing, PhmQuiet, IoMine DEF MayHold, MustHold
  <2> QED
    BY <1>1, <1>2, <2>5, <2>6, <2>7, MoveGood
<1>4. CASE loc[u].op \notin {"lookup", "rename", "create"}
  <2>1. loc[u].op = "vplist" /\ q = None
    BY <1>0, <1>1, <1>4, Typing DEF Shape
  <2>2. View(u, "run", "none", None, EXCL, None, None)'
    BY <1>4, Typing, ReturnFacts DEF Woken, View
  <2>3. /\ Shape(u)' /\ SpareOK(u)' /\ HeldOK(u)' /\ SleepOK(u)' /\ Holds(u)' = {} /\ ~MustHold(u)' /\ pc'[u] = "run"
    BY <2>2, Typing, ReturnsNothing
  <2>4. PhmStep(u) /\ PhmOK(u)' /\ IoOK(u)'
    BY <1>1, <2>1, <2>3, Typing, PhmQuiet, IoMine DEF MayHold, MustHold
  <2> QED
    BY <1>1, <1>2, <2>1, <2>3, <2>4, MoveGood
<1> QED
  BY <1>3, <1>4

(* page_reclaim() takes a locked page off its list. *)
LEMMA PageReclaimGood ==
  ASSUME Inv, NEW u \in Threads, OthersKeep(u), PageReclaim(u)
  PROVE  Good(u)
<1>0. PICK p, q : p = loc[u].pp /\ q = loc[u].npp
  OBVIOUS
<1>1. /\ pc[u] = "reclaim" /\ p_selock' = p_selock /\ p_vnode' = p_vnode /\ hashed' = hashed /\ p_io' = p_io
      /\ phm' = phm /\ loc' = loc
      /\ list' = [list EXCEPT ![p] = "none"]
      /\ p_free' = [p_free EXCEPT ![p] = FALSE] /\ p_age' = [p_age EXCEPT ![p] = FALSE]
      /\ pc'[u] = IF loc[u].se = SHARED THEN "downgrade" ELSE "got"
  BY <1>0, Typing DEF PageReclaim, names, At, Goto, Pp
<1>2. p \in Pages /\ loc[u].op \in {"lookup", "rename"} /\ p # q /\ (loc[u].op = "rename" <=> q # None) /\ (q # None => q \in Pages)
  BY <1>0, <1>1, Typing DEF Shape, Locals
<1>3. Agree(p) /\ p_vnode[p] = loc[u].id
  BY <1>0, <1>1, <1>2, Typing DEF HeldOK
<1>4. Holds(u) = {p} \cup ({q} \ {None}) /\ Holds(u)' = Holds(u) /\ \A r \in Holds(u) : Steady(u, r)
  <2>1. Holds(u) = {p} \cup ({q} \ {None}) /\ Holds(u)' = Holds(u)
    BY <1>0, <1>1, <1>2, Typing DEF Holds, Spare, Pp, Sleeping, Searching
  <2>2. q # None => loc[u].se = EXCL
    BY <1>0, <1>1, <1>2, Typing DEF Shape
  <2>3. Steady(u, p)
    BY <1>0, <1>1, Typing DEF Steady, Excl, Locals
  <2> QED
    BY <1>0, <1>1, <2>1, <2>2, <2>3 DEF Steady, Excl
<1>5. p_selock[p] = -1
  BY <1>1, <1>2, <1>4, HoldLock DEF Excl
<1>6. \A r \in Pages \ {p} : Same(r)
  BY <1>1, Typing DEF Same
<1>7. InUse(p)' /\ Agree(p)'
  BY <1>1, <1>2, <1>3, Typing DEF InUse, Agree
<1>8. Shape(u)'
  <2>1. CASE loc[u].se = SHARED
    <3>1. loc[u].op = "lookup"
      BY <1>1, <1>2, <2>1, Typing DEF Shape, SHARED, EXCL
    <3> QED
      BY <1>0, <1>1, <1>2, <2>1, <3>1, Typing DEF Shape
  <2>2. CASE loc[u].se # SHARED
    BY <1>0, <1>1, <1>2, <2>2, Typing DEF Shape
  <2> QED
    BY <2>1, <2>2
<1>9. SpareOK(u)'
  <2>1. q # None => Nameless(q) /\ InUse(q)
    BY <1>0, <1>1, SpareFacts
  <2>2. q # None => Nameless(q)' /\ InUse(q)'
    BY <1>1, <1>2, <1>6, <2>1 DEF Same, Nameless, InUse
  <2> QED
    BY <1>0, <1>1, <2>2 DEF SpareOK
<1>10. HeldOK(u)' /\ SleepOK(u)'
  BY <1>0, <1>1, <1>2, <1>3, <1>7, Typing DEF HeldOK, SleepOK, InUse
<1>11. PhmStep(u) /\ PhmOK(u)'
  BY <1>1, <1>2, Typing DEF PhmStep, PhmOK, MayHold, MustHold, Hold
<1>12. IoOK(u)' /\ IoStep(u)
  BY <1>1, Typing, IoMine, IoKept
<1>13. FieldsKeep(u) /\ AgreeStep(u) /\ SleepStep(u) /\ NameStep(u) /\ LockStep(u)
  BY <1>1, <1>2, <1>4, <1>5, <1>6, ExclFrame DEF NameStep, NamesKept, LockStep, LocksKept
<1> QED
  BY <1>8, <1>9, <1>10, <1>11, <1>12, <1>13 DEF Good, OwnSound

(* page_reclaim() gives up: it unlocks the page and lets go of the hash    *)
(* mutex.                                                                  *)
LEMMA ReclaimFailsGood ==
  ASSUME Inv, NEW u \in Threads, OthersKeep(u), ReclaimFails(u)
  PROVE  Good(u)
<1>0. PICK p, q, op, id, se :
        p = loc[u].pp /\ q = loc[u].npp /\ op = loc[u].op /\ id = loc[u].id /\ se = loc[u].se
  OBVIOUS
<1>1. /\ pc[u] = "reclaim" /\ UNCHANGED <<names, free>> /\ p_io' = p_io /\ PageUnlock(u, p, "phm") /\ DropPhm(u)
      /\ Set(u, [loc[u] EXCEPT !.pp = None])
  BY <1>0 DEF ReclaimFails, At, Pp
<1>2. p \in Pages /\ op \in {"lookup", "rename"} /\ p # q /\ (op = "rename" <=> q # None) /\ id \in Names
  BY <1>0, <1>1, Typing DEF Shape, Locals
<1>3. Agree(p)
  BY <1>0, <1>1, <1>2, Typing DEF HeldOK
<1>4. Holds(u) = {p} \cup ({q} \ {None})
  BY <1>0, <1>1, <1>2, Typing DEF Holds, Spare, Pp, Sleeping, Searching
<1>5. p_selock[p] # 0
  BY <1>2, <1>4, HoldLock
<1>6. pc'[u] = "phm" /\ p_selock' = Unlocked(p)
  BY <1>1, <1>2, <1>5, UnlockSleepers
<1>7. View(u, "phm", op, id, se, None, q)'
  BY <1>0, <1>1, <1>6, Typing DEF View, Set, Locals
<1>8. op # "lookup" => q \in Pages /\ se = EXCL /\ Nameless(q)' /\ InUse(q)'
  BY <1>0, <1>1, <1>2, SpareFacts DEF names, free, Nameless, InUse
<1>9. /\ Shape(u)' /\ SpareOK(u)' /\ HeldOK(u)' /\ SleepOK(u)' /\ Holds(u)' = {q} \ {None} /\ ~MustHold(u)'
  BY <1>2, <1>7, <1>8, Typing, TriesAgain
<1>10. \A r \in Holds(u)' : Steady(u, r)
  BY <1>0, <1>2, <1>7, <1>8, <1>9 DEF View, Steady, Excl
<1>11. LockStep(u)
  BY <1>2, <1>4, <1>6, <1>9, <1>10 DEF LockStep, LockDropped
<1>12. PhmStep(u) /\ PhmOK(u)' /\ IoOK(u)' /\ IoStep(u)
  BY <1>1, <1>6, <1>9, Typing, PhmDropped, IoMine, IoKept
<1>13. FieldsKeep(u) /\ AgreeStep(u) /\ NameStep(u) /\ SleepStep(u)
  BY <1>1, <1>2, <1>3, <1>5, DropFrame
<1> QED
  BY <1>9, <1>11, <1>12, <1>13 DEF Good, OwnSound

(* page_lookup() downgrades what it locked exclusively to reclaim it. *)
LEMMA DowngradeGood ==
  ASSUME Inv, NEW u \in Threads, OthersKeep(u), Downgrade(u)
  PROVE  Good(u)
<1>0. PICK p : p = loc[u].pp
  OBVIOUS
<1>1. /\ pc[u] = "downgrade" /\ p_selock' = [p_selock EXCEPT ![p] = 1] /\ loc' = loc
      /\ UNCHANGED <<names, free>> /\ phm' = phm /\ p_io' = p_io
  BY <1>0 DEF Downgrade, At, Pp
<1>2. p \in Pages /\ loc[u].op = "lookup" /\ loc[u].npp = None /\ loc[u].se = SHARED /\ loc[u].id \in Names
  BY <1>0, <1>1, Typing DEF Shape, Locals
<1>3. Agree(p) /\ p_vnode[p] = loc[u].id /\ ~p_free[p]
  BY <1>0, <1>1, <1>2, Typing DEF HeldOK
<1>4. Holds(u) = {p} /\ Holds(u)' = {p}
  BY <1>0, <1>1, <1>2, Typing DEF Downgrade, DowngradeWakes, Broadcast, Holds, Spare, Pp, Sleeping, Searching
<1>5. p_selock[p] = -1
  BY <1>1, <1>2, <1>4, HoldLock DEF Excl
<1>6. pc'[u] = "got" /\ NoSleeper(u, p)
  BY <1>0, <1>1, Typing DEF Downgrade, DowngradeWakes, Broadcast, NoSleeper, Pp
<1>7. Agree(p)' /\ p_vnode' = p_vnode /\ p_free' = p_free
  BY <1>1, <1>3 DEF names, free, Agree
<1>8. Shape(u)' /\ SpareOK(u)' /\ SleepOK(u)'
  BY <1>0, <1>1, <1>2, <1>6, Typing DEF Shape, SpareOK, SleepOK
<1>9. HeldOK(u)'
  BY <1>0, <1>1, <1>2, <1>3, <1>6, <1>7 DEF HeldOK
<1>10. LockStep(u)
  <2>1. ~Excl(u, p)'
    BY <1>1, <1>2, <1>6 DEF Excl, EXCL, SHARED
  <2>2. LockTurned(u, p, 1)
    BY <1>1, <1>2, <1>4, <1>5, <2>1 DEF LockTurned
  <2> QED
    BY <1>2, <2>2 DEF LockStep
<1>11. PhmStep(u) /\ PhmOK(u)'
  BY <1>1, <1>2, <1>6, Typing DEF PhmStep, PhmOK, MayHold, MustHold, Hold
<1>12. IoOK(u)' /\ IoStep(u)
  BY <1>1, <1>6, Typing, IoMine, IoKept
<1>13. FieldsKeep(u) /\ AgreeStep(u) /\ NameStep(u) /\ SleepStep(u)
  BY <1>1, <1>2, <1>3, <1>6, DowngradeFrame
<1> QED
  BY <1>8, <1>9, <1>10, <1>11, <1>12, <1>13 DEF Good, OwnSound

(* The search of the chain without the hash mutex. *)
LEMMA SearchGood ==
  ASSUME Inv, NEW u \in Threads, OthersKeep(u), Search(u)
  PROVE  Good(u)
<1>0. PICK op, id, se : op = loc[u].op /\ id = loc[u].id /\ se = loc[u].se
  OBVIOUS
<1>1. pc[u] = "search" /\ UNCHANGED <<p_selock, names, free, p_io>> /\ phm' = phm
  BY DEF Search, At
<1>2. op \in {"lookup", "nowait"} /\ id \in Names /\ loc[u].pp = None /\ loc[u].npp = None
  BY <1>0, <1>1, Typing DEF Shape
<1>3. Holds(u) = {}
  BY <1>1, <1>2 DEF Holds, Spare, Searching
<1>4. ASSUME NEW p \in Pages, Set(u, [loc[u] EXCEPT !.pp = p]),
             Goto(u, IF loc[u].op = "lookup" THEN "try" ELSE "isfree")
      PROVE  Good(u)
  <2>1. PICK l : l = IF op = "lookup" THEN "try" ELSE "isfree"
    OBVIOUS
  <2>2. View(u, l, op, id, se, p, None)'
    BY <1>0, <1>2, <1>4, <2>1, Typing DEF View, Goto, Set, Locals
  <2>3. Shape(u)' /\ SpareOK(u)' /\ HeldOK(u)' /\ SleepOK(u)'
    BY <1>2, <2>1, <2>2, Typing DEF View, Shape, SpareOK, HeldOK, SleepOK
  <2>4. Holds(u)' = {}
    BY <2>1, <2>2 DEF View, Holds, Spare, Searching
  <2>5. PhmStep(u) /\ PhmOK(u)' /\ IoOK(u)'
    BY <1>1, <1>2, <2>1, <2>2, Typing, PhmQuiet, IoMine DEF View, MayHold, MustHold
  <2> QED
    BY <1>1, <1>3, <2>1, <2>2, <2>3, <2>4, <2>5, MoveGood DEF View
<1>5. ASSUME Goto(u, "phm"), loc' = loc PROVE Good(u)
  <2>1. View(u, "phm", op, id, se, None, None)'
    BY <1>0, <1>2, <1>5, Typing DEF View, Goto
  <2>2. Shape(u)' /\ SpareOK(u)' /\ HeldOK(u)' /\ SleepOK(u)' /\ Holds(u)' = {} /\ ~MustHold(u)' /\ pc'[u] = "phm"
    BY <1>2, <2>1, Typing, TriesAgain
  <2>3. PhmStep(u) /\ PhmOK(u)' /\ IoOK(u)'
    BY <1>1, <1>2, <2>2, Typing, PhmQuiet, IoMine DEF MayHold, MustHold
  <2> QED
    BY <1>1, <1>3, <2>2, <2>3, MoveGood
<1> QED
  BY <1>4, <1>5 DEF Search

(* page_try_reclaim_lock() of the page found so. *)
LEMMA TryLockGood ==
  ASSUME Inv, NEW u \in Threads, OthersKeep(u), TryLock(u)
  PROVE  Good(u)
<1>0. PICK p, id, se : p = loc[u].pp /\ id = loc[u].id /\ se = loc[u].se
  OBVIOUS
<1>1. pc[u] = "try" /\ UNCHANGED <<names, free>> /\ p_io' = p_io /\ phm' = phm
  BY DEF TryLock, At
<1>2. p \in Pages /\ loc[u].op = "lookup" /\ loc[u].npp = None /\ id \in Names /\ se \in {EXCL, SHARED}
  BY <1>0, <1>1, Typing DEF Shape, Locals
<1>3. Holds(u) = {}
  BY <1>1, <1>2 DEF Holds, Spare, Searching
<1>4. PICK m \in {EXCL, SHARED} : m = LockMode(u, p)
  BY <1>0, <1>2 DEF LockMode
<1>5. m = EXCL <=> se = EXCL \/ p_free[p]
  BY <1>0, <1>2, <1>4 DEF LockMode, Reclaims, EXCL, SHARED
<1>6. CASE CanLock(p, m)
  <2>1. p_selock' = Locked(p, m) /\ loc' = loc /\ pc'[u] = "confirm" /\ Agree(p)
    BY <1>0, <1>2, <1>4, <1>6, Typing, NotLocked DEF TryLock, Pp, Goto
  <2>2. Agree(p)' /\ p_free' = p_free
    BY <1>1, <2>1 DEF names, free, Agree
  <2>3. Shape(u)' /\ SpareOK(u)' /\ HeldOK(u)' /\ SleepOK(u)'
    BY <1>0, <1>2, <2>1, <2>2, Typing DEF Shape, SpareOK, HeldOK, SleepOK
  <2>4. Holds(u)' = {p} /\ (Excl(u, p)' <=> m = EXCL)
    BY <1>0, <1>2, <1>5, <2>1, <2>2, Typing DEF Holds, Spare, Pp, Sleeping, Searching, Excl
  <2>5. LockTaken(u, p, m)
    BY <1>2, <1>3, <1>6, <2>1, <2>4 DEF LockTaken
  <2>6. PhmStep(u) /\ PhmOK(u)' /\ IoOK(u)' /\ IoStep(u)
    BY <1>1, <1>2, <2>1, Typing, PhmQuiet, IoMine, IoKept DEF MayHold, MustHold
  <2>7. FieldsKeep(u) /\ AgreeStep(u) /\ NameStep(u) /\ SleepStep(u)
    BY <1>1, <1>2, <1>6, <2>1, TakeFrame
  <2> QED
    BY <1>2, <2>3, <2>5, <2>6, <2>7 DEF Good, OwnSound, LockStep
<1>7. CASE ~CanLock(p, m)
  <2>1. p_selock' = p_selock /\ View(u, "phm", "lookup", id, se, None, None)'
    BY <1>0, <1>2, <1>4, <1>7, Typing DEF TryLock, Pp, Goto, Set, View, Locals
  <2>2. Shape(u)' /\ SpareOK(u)' /\ HeldOK(u)' /\ SleepOK(u)' /\ Holds(u)' = {} /\ ~MustHold(u)' /\ pc'[u] = "phm"
    BY <1>2, <2>1, Typing, TriesAgain
  <2>3. PhmStep(u) /\ PhmOK(u)' /\ IoOK(u)'
    BY <1>1, <1>2, <2>2, Typing, PhmQuiet, IoMine DEF MayHold, MustHold
  <2> QED
    BY <1>1, <1>3, <2>1, <2>2, <2>3, MoveGood
<1> QED
  BY <1>6, <1>7

(* The name is looked at again with the page locked. *)
LEMMA ConfirmGood ==
  ASSUME Inv, NEW u \in Threads, OthersKeep(u), Confirm(u)
  PROVE  Good(u)
<1>0. PICK p, id, se : p = loc[u].pp /\ id = loc[u].id /\ se = loc[u].se
  OBVIOUS
<1>1. pc[u] = "confirm" /\ UNCHANGED <<names, free>> /\ p_io' = p_io /\ phm' = phm
  BY DEF Confirm, At
<1>2. p \in Pages /\ loc[u].op = "lookup" /\ loc[u].npp = None /\ id \in Names /\ se \in {EXCL, SHARED}
  BY <1>0, <1>1, Typing DEF Shape, Locals
<1>3. Holds(u) = {p} /\ Agree(p)
  BY <1>0, <1>1, <1>2, Typing DEF Holds, Spare, Pp, Sleeping, Searching, HeldOK
<1>4. Agree(p)' /\ p_free' = p_free /\ p_vnode' = p_vnode
  BY <1>1, <1>3 DEF names, free, Agree
<1>5. ASSUME p_vnode[p] = id, p_free[p], Goto(u, "reclaim"), p_selock' = p_selock, loc' = loc PROVE Good(u)
  <2>1. pc'[u] = "reclaim"
    BY <1>5, Typing DEF Goto
  <2>2. Shape(u)' /\ SpareOK(u)' /\ SleepOK(u)'
    BY <1>0, <1>2, <1>5, <2>1, Typing DEF Shape, SpareOK, SleepOK
  <2>3. HeldOK(u)'
    BY <1>0, <1>4, <1>5, <2>1 DEF HeldOK
  <2>4. Holds(u)' = {p} /\ Steady(u, p)
    BY <1>0, <1>1, <1>2, <1>5, <2>1, Typing DEF Holds, Spare, Pp, Sleeping, Searching, Steady, Excl
  <2>5. PhmStep(u) /\ PhmOK(u)' /\ IoOK(u)'
    BY <1>1, <1>2, <1>5, <2>1, Typing, PhmQuiet, IoMine DEF MayHold, MustHold
  <2> QED
    BY <1>1, <1>3, <1>5, <2>1, <2>2, <2>3, <2>4, <2>5, MoveGood
<1>6. ASSUME p_vnode[p] = id, ~p_free[p], Return(u, p), p_selock' = p_selock PROVE Good(u)
  <2>1. View(u, "run", "none", id, se, p, None)'
    BY <1>0, <1>2, <1>6, Typing, ReturnFacts DEF View
  <2>2. Shape(u)' /\ SpareOK(u)' /\ HeldOK(u)' /\ SleepOK(u)' /\ Holds(u)' = {p} /\ ~MustHold(u)' /\ pc'[u] = "run"
    BY <1>2, <1>4, <1>6, <2>1, Typing, ReturnsPage
  <2>3. Steady(u, p)
    BY <1>0, <1>1, <1>6, <2>1 DEF View, Steady, Excl
  <2>4. PhmStep(u) /\ PhmOK(u)' /\ IoOK(u)'
    BY <1>1, <1>2, <2>2, Typing, PhmQuiet, IoMine DEF MayHold, MustHold
  <2> QED
    BY <1>1, <1>3, <1>6, <2>2, <2>3, <2>4, MoveGood
<1>7. ASSUME PageUnlock(u, p, "phm"), Set(u, [loc[u] EXCEPT !.pp = None]) PROVE Good(u)
  <2>1. p_selock[p] # 0
    BY <1>2, <1>3, HoldLock
  <2>2. pc'[u] = "phm" /\ p_selock' = Unlocked(p)
    BY <1>2, <1>7, <2>1, UnlockSleepers
  <2>3. View(u, "phm", "lookup", id, se, None, None)'
    BY <1>0, <1>2, <1>7, <2>2, Typing DEF View, Set, Locals
  <2>4. Shape(u)' /\ SpareOK(u)' /\ HeldOK(u)' /\ SleepOK(u)' /\ Holds(u)' = {} /\ ~MustHold(u)' /\ pc'[u] = "phm"
    BY <1>2, <2>3, Typing, TriesAgain
  <2>5. PhmStep(u) /\ PhmOK(u)' /\ IoOK(u)' /\ IoStep(u)
    BY <1>1, <1>2, <2>4, Typing, PhmQuiet, IoMine, IoKept DEF MayHold, MustHold
  <2>6. FieldsKeep(u) /\ AgreeStep(u) /\ NameStep(u) /\ SleepStep(u)
    BY <1>1, <1>2, <1>3, <1>7, <2>1, DropFrame
  <2>7. LockStep(u)
    BY <1>2, <1>3, <2>2, <2>4 DEF LockStep, LockDropped
  <2> QED
    BY <2>4, <2>5, <2>6, <2>7 DEF Good, OwnSound
<1> QED
  BY <1>0, <1>5, <1>6, <1>7 DEF Confirm, SameName, Pp

(* The hash mutex is entered. *)
LEMMA EnterPhmGood ==
  ASSUME Inv, NEW u \in Threads, OthersKeep(u), EnterPhm(u)
  PROVE  Good(u)
<1>0. PICK p, q, op, id : p = loc[u].pp /\ q = loc[u].npp /\ op = loc[u].op /\ id = loc[u].id
  OBVIOUS
<1>1. /\ pc[u] \in {"phm", "unloaded"} /\ phm[id] = None /\ phm' = [phm EXCEPT ![id] = u] /\ loc' = loc
      /\ pc'[u] = (IF pc[u] = "phm" THEN "top" ELSE "hashout")
      /\ UNCHANGED <<p_selock, names, free, p_io>>
  BY <1>0, Typing DEF EnterPhm, At, Goto
<1>2. /\ id \in Names /\ op \in {"lookup", "nowait", "create", "create_excl", "rename"}
      /\ pc[u] = "phm" => p = None /\ (op \in {"create", "create_excl", "rename"} => q # None)
      /\ pc[u] = "unloaded" => op = "rename" /\ p \in Pages /\ q # None /\ p # q
  BY <1>0, <1>1, Typing DEF Shape, Locals
<1>3. \A n \in Names : phm[n] # u
  BY <1>1, Typing DEF PhmOK, MayHold, MustHold
<1>4. phm'[id] = u /\ \A n \in Names : phm'[n] = u => n = id
  BY <1>1, <1>2, <1>3, Typing
<1>5. PhmStep(u)
  BY <1>1, <1>2, Typing DEF PhmStep
<1>6. PhmOK(u)'
  <2>1. MayHold(u)' /\ loc'[u].id = id
    BY <1>0, <1>1, <1>2, Typing DEF MayHold, MustHold
  <2>2. Hold(u)'
    BY <1>2, <1>4, <2>1 DEF Hold
  <2>3. pc'[u] \in {"top", "hashout"}
    BY <1>1
  <2> QED
    BY <1>4, <2>1, <2>2, <2>3 DEF PhmOK
<1>7. p_vnode' = p_vnode /\ hashed' = hashed /\ p_free' = p_free /\ p_age' = p_age /\ list' = list
  BY <1>1 DEF names, free
<1>8. q # None => Nameless(q)' /\ InUse(q)'
  BY <1>0, <1>1, <1>7, SpareFacts DEF Nameless, InUse
<1>9. SpareOK(u)' /\ SleepOK(u)'
  BY <1>0, <1>1, <1>2, <1>8, Typing DEF SpareOK, SleepOK
<1>10. Shape(u)'
  BY <1>0, <1>1, <1>2, Typing DEF Shape
<1>11. HeldOK(u)'
  <2>1. CASE pc[u] = "phm"
    BY <1>0, <1>1, <1>2, <2>1 DEF HeldOK
  <2>2. CASE pc[u] = "unloaded"
    <3>1. Agree(p) /\ p_vnode[p] = id /\ ~p_free[p]
      BY <1>0, <1>2, <2>2, Typing DEF HeldOK
    <3>2. hashed'[p] /\ p_vnode'[p] # None /\ p_vnode'[p] = id /\ InUse(p)'
      BY <1>2, <1>7, <3>1, Typing DEF Agree, InUse
    <3> QED
      BY <1>0, <1>1, <1>2, <2>2, <3>2 DEF HeldOK, InUse
  <2> QED
    BY <1>1, <2>1, <2>2
<1>12. Holds(u)' = Holds(u) /\ \A r \in Holds(u) : Steady(u, r)
  BY <1>0, <1>1, <1>2 DEF Holds, Spare, Pp, Sleeping, Searching, Steady, Excl
<1>13. IoOK(u)'
  BY <1>1, Typing, IoMine
<1> QED
  BY <1>1, <1>5, <1>6, <1>9, <1>10, <1>11, <1>12, <1>13, MoveGood

(* No page of the name on the chain: a lookup returns nothing. *)
LEMMA TopMissesGood ==
  ASSUME Inv, NEW u \in Threads, OthersKeep(u), TopMisses(u)
  PROVE  Good(u)
<1>1. pc[u] = "top" /\ loc[u].op \in {"lookup", "nowait"} /\ DropPhm(u) /\ UNCHANGED <<p_selock, names, free, p_io>>
  BY DEF TopMisses, At
<1>2. View(u, "run", "none", None, EXCL, None, None)'
  BY Typing, ReturnFacts DEF TopMisses, View
<1>3. Shape(u)' /\ SpareOK(u)' /\ HeldOK(u)' /\ SleepOK(u)' /\ Holds(u)' = {} /\ ~MustHold(u)' /\ pc'[u] = "run"
  BY <1>2, Typing, ReturnsNothing
<1>4. Holds(u) = {}
  <2>1. loc[u].npp = None
    BY <1>1, Typing DEF Shape
  <2> QED
    BY <1>1, <2>1 DEF Holds, Spare, Searching
<1>5. PhmStep(u) /\ PhmOK(u)' /\ IoOK(u)'
  BY <1>1, <1>3, Typing, PhmDropped, IoMine
<1> QED
  BY <1>1, <1>3, <1>4, <1>5, MoveGood

(* page_lock() with the hash mutex held, or asleep without it. *)
LEMMA TopFindsGood ==
  ASSUME Inv, NEW u \in Threads, OthersKeep(u), TopFinds(u)
  PROVE  Good(u)
<1>0. PICK q, op, id, se : q = loc[u].npp /\ op = loc[u].op /\ id = loc[u].id /\ se = loc[u].se
  OBVIOUS
<1>1. PICK p \in Pages : hashed[p] /\ p_vnode[p] = id /\ PageLock(u, p)
  BY <1>0 DEF TopFinds, Matches
<1>2. pc[u] = "top" /\ op \in {"lookup", "rename", "create"} /\ UNCHANGED <<names, free>> /\ p_io' = p_io
  BY <1>0 DEF TopFinds, At
<1>3. id \in Names /\ (op = "lookup" => q = None) /\ (op # "lookup" => q # None) /\ se \in {EXCL, SHARED}
  BY <1>0, <1>2, Typing DEF Shape, Locals
<1>4. q # None => q \in Pages /\ Nameless(q) /\ InUse(q) /\ se = EXCL /\ p # q
  BY <1>0, <1>1, <1>2, SpareFacts DEF Nameless
<1>5. Holds(u) = {q} \ {None} /\ p \notin Holds(u)
  BY <1>0, <1>2, <1>4, Typing, <1>1 DEF Holds, Spare, Searching
<1>6. p_vnode' = p_vnode /\ hashed' = hashed /\ p_free' = p_free /\ p_age' = p_age /\ list' = list
  BY <1>2 DEF names, free
<1>7. q # None => Nameless(q)' /\ InUse(q)'
  BY <1>4, <1>6 DEF Nameless, InUse
<1>8. PICK m \in {EXCL, SHARED} : m = LockMode(u, p)
  BY <1>0, <1>3 DEF LockMode
<1>9. /\ op \in {"lookup", "rename"} /\ p_free[p] => m = EXCL
      /\ ~(op \in {"lookup", "rename"} /\ p_free[p]) => m = se
  BY <1>0, <1>8 DEF LockMode, Reclaims
<1>10. CASE CanLock(p, m)
  <2>1. PICK l : l = IF op \in {"lookup", "rename"} /\ p_free[p] THEN "reclaim" ELSE "got"
    OBVIOUS
  <2>2. p_selock' = Locked(p, m) /\ phm' = phm /\ Agree(p)
    BY <1>1, <1>8, <1>10, NotLocked DEF PageLock
  <2>3. View(u, l, op, id, se, p, q)'
    BY <1>0, <1>1, <1>8, <1>10, <2>1, Typing DEF PageLock, View, Goto, Set, Reclaims, Locals
  <2>4. Shape(u)'
    BY <1>2, <1>3, <1>4, <2>1, <2>3, Typing DEF View, Shape
  <2>5. SpareOK(u)' /\ SleepOK(u)'
    BY <1>7, <2>1, <2>3, Typing DEF View, SpareOK, SleepOK
  <2>6. Agree(p)' /\ p_vnode'[p] = id
    BY <1>1, <1>6, <2>2 DEF Agree
  <2>7. HeldOK(u)'
    BY <1>2, <1>6, <2>1, <2>3, <2>6 DEF View, HeldOK
  <2>8. Holds(u)' = Holds(u) \cup {p}
    BY <1>1, <1>5, <2>1, <2>3, Typing DEF View, Holds, Spare, Pp, Sleeping, Searching
  <2>9. Excl(u, p)' <=> m = EXCL
    BY <1>6, <1>9, <2>1, <2>3 DEF View, Excl
  <2>10. \A r \in Holds(u) : Steady(u, r)
    BY <1>0, <1>4, <1>5, <2>3 DEF View, Steady, Excl
  <2>11. LockTaken(u, p, m)
    BY <1>1, <1>5, <1>10, <2>2, <2>8, <2>9, <2>10 DEF LockTaken
  <2>12. Hold(u) /\ \A n \in Names : phm[n] = u => n = id
    BY <1>0, <1>2, Typing DEF PhmOK, MustHold
  <2>13. PhmStep(u) /\ PhmOK(u)'
    BY <1>0, <1>3, <2>1, <2>2, <2>3, <2>12 DEF View, PhmStep, PhmOK, MayHold, MustHold, Hold
  <2>14. IoOK(u)' /\ IoStep(u)
    BY <1>2, <2>1, <2>3, Typing, IoMine, IoKept DEF View
  <2>15. FieldsKeep(u) /\ AgreeStep(u) /\ NameStep(u) /\ SleepStep(u)
    BY <1>2, <1>10, <2>2, TakeFrame
  <2> QED
    BY <2>4, <2>5, <2>7, <2>11, <2>13, <2>14, <2>15 DEF Good, OwnSound, LockStep
<1>11. CASE ~CanLock(p, m)
  <2>1. p_selock' = p_selock /\ DropPhm(u) /\ p_selock[p] # 0 /\ (m = SHARED => p_selock[p] = -1)
    BY <1>1, <1>8, <1>11, NotLocked DEF PageLock
  <2>2. View(u, "asleep", op, id, se, p, q)'
    BY <1>0, <1>1, <1>8, <1>11, Typing DEF PageLock, View, Goto, Set, Locals
  <2>3. Shape(u)'
    BY <1>2, <1>3, <1>4, <2>2, Typing DEF View, Shape
  <2>4. SpareOK(u)' /\ HeldOK(u)'
    BY <1>7, <2>2 DEF View, SpareOK, HeldOK
  <2>5. SleepOK(u)'
    BY <1>1, <1>6, <1>9, <2>1, <2>2 DEF View, SleepOK, Pp
  <2>6. Holds(u)' = Holds(u)
    BY <1>5, <2>2 DEF View, Holds, Spare, Sleeping
  <2>7. \A r \in Holds(u) : Steady(u, r)
    BY <1>0, <1>4, <1>5, <2>2 DEF View, Steady, Excl
  <2>8. PhmStep(u) /\ PhmOK(u)' /\ IoOK(u)'
    BY <1>2, <2>1, <2>2, Typing, PhmDropped, IoMine DEF View, MustHold
  <2> QED
    BY <1>2, <2>1, <2>2, <2>3, <2>4, <2>5, <2>6, <2>7, <2>8, MoveGood DEF View
<1> QED
  BY <1>10, <1>11

(* page_lookup() returns its page; it does not panic. *)
LEMMA GotGood ==
  ASSUME Inv, NEW u \in Threads, OthersKeep(u), Got(u)
  PROVE  Good(u)
<1>0. PICK p, id, se : p = loc[u].pp /\ id = loc[u].id /\ se = loc[u].se
  OBVIOUS
<1>1. pc[u] = "got" /\ loc[u].op = "lookup" /\ UNCHANGED <<p_selock, names, free, p_io>>
  BY DEF Got, At
<1>2. p \in Pages /\ loc[u].npp = None /\ id \in Names /\ se \in {EXCL, SHARED}
  BY <1>0, <1>1, Typing DEF Shape, Locals
<1>3. Agree(p) /\ ~p_free[p] /\ p_vnode[p] = id
  BY <1>0, <1>1, <1>2, Typing DEF HeldOK
<1>4. DropPhm(u) /\ Return(u, p)
  BY <1>0, <1>3 DEF Got, SameName, Pp
<1>5. View(u, "run", "none", id, se, p, None)'
  BY <1>0, <1>2, <1>4, Typing, ReturnFacts DEF View
<1>6. Agree(p)' /\ ~p_free'[p] /\ p_vnode'[p] = id
  BY <1>1, <1>3 DEF names, free, Agree
<1>7. Shape(u)' /\ SpareOK(u)' /\ HeldOK(u)' /\ SleepOK(u)' /\ Holds(u)' = {p} /\ ~MustHold(u)' /\ pc'[u] = "run"
  BY <1>2, <1>5, <1>6, Typing, ReturnsPage
<1>8. Holds(u) = {p} /\ Steady(u, p)
  BY <1>0, <1>1, <1>2, <1>5, Typing DEF View, Holds, Spare, Pp, Sleeping, Searching, Steady, Excl
<1>9. PhmStep(u) /\ PhmOK(u)' /\ IoOK(u)'
  BY <1>1, <1>4, <1>7, Typing, PhmDropped, IoMine
<1> QED
  BY <1>1, <1>7, <1>8, <1>9, MoveGood

(* page_lookup_nowait() finds its page on the chain. *)
LEMMA TopFindsNowaitGood ==
  ASSUME Inv, NEW u \in Threads, OthersKeep(u), TopFindsNowait(u)
  PROVE  Good(u)
<1>0. PICK id, se : id = loc[u].id /\ se = loc[u].se
  OBVIOUS
<1>1. /\ pc[u] = "top" /\ loc[u].op = "nowait" /\ UNCHANGED <<p_selock, names, free, p_io>> /\ phm' = phm
  BY DEF TopFindsNowait, At
<1>2. PICK p \in Pages : hashed[p] /\ p_vnode[p] = id /\ Set(u, [loc[u] EXCEPT !.pp = p])
  BY <1>0 DEF TopFindsNowait, Matches
<1>3. id \in Names /\ loc[u].npp = None
  BY <1>0, <1>1, Typing DEF Shape
<1>4. View(u, "isfree", "nowait", id, se, p, None)'
  BY <1>0, <1>1, <1>2, <1>3, Typing DEF TopFindsNowait, View, Goto, Set, Locals
<1>5. Shape(u)' /\ SpareOK(u)' /\ HeldOK(u)' /\ SleepOK(u)'
  BY <1>3, <1>4, Typing DEF View, Shape, SpareOK, HeldOK, SleepOK
<1>6. Holds(u) = {} /\ Holds(u)' = {}
  BY <1>1, <1>3, <1>4 DEF View, Holds, Spare, Searching
<1>7. hashed'[p] /\ p_vnode'[p] = id
  BY <1>1, <1>2 DEF names
<1>8. PhmStep(u) /\ PhmOK(u)'
  BY <1>0, <1>1, <1>4, <1>7, Typing DEF View, PhmStep, PhmOK, MayHold, MustHold, Hold, Pp
<1>9. IoOK(u)'
  BY <1>1, Typing, IoMine
<1> QED
  BY <1>1, <1>4, <1>5, <1>6, <1>8, <1>9, MoveGood DEF View

(* Where page_lookup_nowait() is with the page it found. *)
LEMMA NowaitFacts ==
  ASSUME Inv, NEW u \in Threads, pc[u] \in {"isfree", "nwtry", "nwgot"}
  PROVE  /\ loc[u].pp \in Pages /\ loc[u].op = "nowait" /\ loc[u].npp = None /\ loc[u].id \in Names
         /\ loc[u].se \in {EXCL, SHARED}
         /\ Holds(u) = (IF pc[u] = "nwgot" THEN {loc[u].pp} ELSE {})
<1>1. /\ loc[u].pp \in Pages /\ loc[u].op = "nowait" /\ loc[u].npp = None /\ loc[u].id \in Names
      /\ loc[u].se \in {EXCL, SHARED}
  BY Typing DEF Shape, Locals
<1> QED
  BY <1>1, Typing DEF Holds, Spare, Pp, Sleeping, Searching

(* page_lookup_nowait() leaves a free page alone. *)
LEMMA NowaitIsFreeGood ==
  ASSUME Inv, NEW u \in Threads, OthersKeep(u), NowaitIsFree(u)
  PROVE  Good(u)
<1>1. pc[u] = "isfree" /\ UNCHANGED <<p_selock, names, free, p_io>>
  BY DEF NowaitIsFree, At
<1>2. /\ loc[u].pp \in Pages /\ loc[u].op = "nowait" /\ loc[u].npp = None /\ loc[u].id \in Names /\ Holds(u) = {}
  BY <1>1, NowaitFacts
<1>3. CASE p_free[loc[u].pp]
  <2>1. DropPhm(u) /\ View(u, "run", "none", None, EXCL, None, None)'
    BY <1>3, Typing, ReturnFacts DEF NowaitIsFree, View, Pp
  <2>2. Shape(u)' /\ SpareOK(u)' /\ HeldOK(u)' /\ SleepOK(u)' /\ Holds(u)' = {} /\ ~MustHold(u)' /\ pc'[u] = "run"
    BY <2>1, Typing, ReturnsNothing
  <2>3. PhmStep(u) /\ PhmOK(u)' /\ IoOK(u)'
    BY <1>1, <2>1, <2>2, Typing, PhmDropped, IoMine
  <2> QED
    BY <1>1, <1>2, <2>2, <2>3, MoveGood
<1>4. CASE ~p_free[loc[u].pp]
  <2>1. phm' = phm /\ loc' = loc /\ pc'[u] = "nwtry" /\ p_vnode' = p_vnode /\ hashed' = hashed
    BY <1>1, <1>4, Typing DEF NowaitIsFree, Goto, Pp, names
  <2>2. Shape(u)' /\ SpareOK(u)' /\ HeldOK(u)' /\ SleepOK(u)'
    BY <1>2, <2>1, Typing DEF Shape, SpareOK, HeldOK, SleepOK
  <2>3. Holds(u)' = {}
    BY <1>2, <2>1 DEF Holds, Spare, Searching
  <2>4. PhmStep(u) /\ PhmOK(u)'
    BY <1>1, <1>2, <2>1, Typing DEF PhmStep, PhmOK, MayHold, MustHold, Hold, Pp
  <2>5. IoOK(u)'
    BY <1>1, Typing, IoMine
  <2> QED
    BY <1>1, <1>2, <2>1, <2>2, <2>3, <2>4, <2>5, MoveGood
<1> QED
  BY <1>3, <1>4

(* page_lookup_nowait() tries the lock. *)
LEMMA NowaitTryGood ==
  ASSUME Inv, NEW u \in Threads, OthersKeep(u), NowaitTry(u)
  PROVE  Good(u)
<1>0. PICK p, se : p = loc[u].pp /\ se = loc[u].se
  OBVIOUS
<1>1. pc[u] = "nwtry" /\ UNCHANGED <<names, free>> /\ p_io' = p_io
  BY DEF NowaitTry, At
<1>2. /\ p \in Pages /\ loc[u].op = "nowait" /\ loc[u].npp = None /\ loc[u].id \in Names /\ Holds(u) = {}
      /\ se \in {EXCL, SHARED}
  BY <1>0, <1>1, NowaitFacts
<1>3. CASE CanLock(p, se)
  <2>1. /\ p_selock' = Locked(p, se) /\ phm' = phm /\ loc' = loc /\ pc'[u] = "nwgot" /\ Agree(p)
        /\ p_vnode' = p_vnode /\ hashed' = hashed
    BY <1>0, <1>1, <1>2, <1>3, Typing, NotLocked DEF NowaitTry, Goto, Pp, names
  <2>2. Agree(p)'
    BY <1>1, <2>1 DEF names, free, Agree
  <2>3. Shape(u)' /\ SpareOK(u)' /\ HeldOK(u)' /\ SleepOK(u)'
    BY <1>0, <1>2, <2>1, <2>2, Typing DEF Shape, SpareOK, HeldOK, SleepOK
  <2>4. Holds(u)' = {p} /\ (Excl(u, p)' <=> se = EXCL)
    BY <1>0, <1>2, <2>1, Typing DEF Holds, Spare, Pp, Sleeping, Searching, Excl
  <2>5. LockTaken(u, p, se)
    BY <1>2, <1>3, <2>1, <2>4 DEF LockTaken
  <2>6. PhmStep(u) /\ PhmOK(u)'
    BY <1>1, <1>2, <2>1, Typing DEF PhmStep, PhmOK, MayHold, MustHold, Hold, Pp
  <2>7. IoOK(u)' /\ IoStep(u)
    BY <1>1, <2>1, Typing, IoMine, IoKept
  <2>8. FieldsKeep(u) /\ AgreeStep(u) /\ NameStep(u) /\ SleepStep(u)
    BY <1>1, <1>2, <1>3, <2>1, TakeFrame
  <2> QED
    BY <1>2, <2>3, <2>5, <2>6, <2>7, <2>8 DEF Good, OwnSound, LockStep
<1>4. CASE ~CanLock(p, se)
  <2>1. DropPhm(u) /\ p_selock' = p_selock /\ View(u, "run", "none", None, EXCL, None, None)'
    BY <1>0, <1>4, Typing, ReturnFacts DEF NowaitTry, View, Pp
  <2>2. Shape(u)' /\ SpareOK(u)' /\ HeldOK(u)' /\ SleepOK(u)' /\ Holds(u)' = {} /\ ~MustHold(u)' /\ pc'[u] = "run"
    BY <2>1, Typing, ReturnsNothing
  <2>3. PhmStep(u) /\ PhmOK(u)' /\ IoOK(u)'
    BY <1>1, <2>1, <2>2, Typing, PhmDropped, IoMine
  <2> QED
    BY <1>1, <1>2, <2>1, <2>2, <2>3, MoveGood
<1> QED
  BY <1>3, <1>4

(* page_lookup_nowait() looks at the name and at p_free again; it does not *)
(* panic.                                                                  *)
LEMMA NowaitGotGood ==
  ASSUME Inv, NEW u \in Threads, OthersKeep(u), NowaitGot(u)
  PROVE  Good(u)
<1>0. PICK p, id, se : p = loc[u].pp /\ id = loc[u].id /\ se = loc[u].se
  OBVIOUS
<1>1. pc[u] = "nwgot" /\ UNCHANGED <<names, free>> /\ p_io' = p_io
  BY DEF NowaitGot, At
<1>2. /\ p \in Pages /\ loc[u].op = "nowait" /\ loc[u].npp = None /\ id \in Names /\ Holds(u) = {p}
      /\ se \in {EXCL, SHARED}
  BY <1>0, <1>1, NowaitFacts
<1>3. Agree(p) /\ p_selock[p] # 0 /\ (Hold(u) => SameName(u))
  BY <1>0, <1>1, <1>2, Typing, HoldLock DEF HeldOK, PhmOK, SameName
<1>4. Agree(p)' /\ p_free' = p_free /\ p_vnode' = p_vnode
  BY <1>1, <1>3 DEF names, free, Agree
<1>5. ASSUME ~SameName(u), phm' = phm, PageUnlock(u, p, "phm"), Set(u, [loc[u] EXCEPT !.pp = None]) PROVE Good(u)
  <2>1. pc'[u] = "phm" /\ p_selock' = Unlocked(p)
    BY <1>2, <1>3, <1>5, UnlockSleepers
  <2>2. View(u, "phm", "nowait", id, se, None, None)'
    BY <1>0, <1>2, <1>5, <2>1, Typing DEF View, Set, Locals
  <2>3. Shape(u)' /\ SpareOK(u)' /\ HeldOK(u)' /\ SleepOK(u)' /\ Holds(u)' = {} /\ ~MustHold(u)'
    BY <1>2, <2>2, Typing, TriesAgain
  <2>4. DropPhm(u)
    BY <1>3, <1>5 DEF DropPhm
  <2>5. PhmStep(u) /\ PhmOK(u)' /\ IoOK(u)' /\ IoStep(u)
    BY <1>1, <2>1, <2>3, <2>4, Typing, PhmDropped, IoMine, IoKept
  <2>6. FieldsKeep(u) /\ AgreeStep(u) /\ NameStep(u) /\ SleepStep(u)
    BY <1>1, <1>2, <1>3, <1>5, DropFrame
  <2>7. LockStep(u)
    BY <1>2, <2>1, <2>3 DEF LockStep, LockDropped
  <2> QED
    BY <2>3, <2>5, <2>6, <2>7 DEF Good, OwnSound
<1>6. ASSUME PageUnlock(u, p, "run"), Set(u, Idle), DropPhm(u) PROVE Good(u)
  <2>1. pc'[u] = "run" /\ p_selock' = Unlocked(p)
    BY <1>2, <1>3, <1>6, UnlockSleepers
  <2>2. View(u, "run", "none", None, EXCL, None, None)'
    BY <1>6, <2>1, Typing DEF View, Set, Idle
  <2>3. Shape(u)' /\ SpareOK(u)' /\ HeldOK(u)' /\ SleepOK(u)' /\ Holds(u)' = {} /\ ~MustHold(u)'
    BY <2>2, Typing, ReturnsNothing
  <2>4. PhmStep(u) /\ PhmOK(u)' /\ IoOK(u)' /\ IoStep(u)
    BY <1>1, <1>6, <2>1, <2>3, Typing, PhmDropped, IoMine, IoKept
  <2>5. FieldsKeep(u) /\ AgreeStep(u) /\ NameStep(u) /\ SleepStep(u)
    BY <1>1, <1>2, <1>3, <1>6, DropFrame
  <2>6. LockStep(u)
    BY <1>2, <2>1, <2>3 DEF LockStep, LockDropped
  <2> QED
    BY <2>3, <2>4, <2>5, <2>6 DEF Good, OwnSound
<1>7. ASSUME SameName(u), ~p_free[p], DropPhm(u), Return(u, p), p_selock' = p_selock PROVE Good(u)
  <2>1. View(u, "run", "none", id, se, p, None)'
    BY <1>0, <1>2, <1>7, Typing, ReturnFacts DEF View
  <2>2. p_vnode[p] = id
    BY <1>0, <1>7 DEF SameName, Pp
  <2>3. Shape(u)' /\ SpareOK(u)' /\ HeldOK(u)' /\ SleepOK(u)' /\ Holds(u)' = {p} /\ ~MustHold(u)' /\ pc'[u] = "run"
    BY <1>2, <1>4, <1>7, <2>1, <2>2, Typing, ReturnsPage
  <2>4. Steady(u, p)
    BY <1>0, <1>1, <2>1 DEF View, Steady, Excl
  <2>5. PhmStep(u) /\ PhmOK(u)' /\ IoOK(u)'
    BY <1>1, <1>7, <2>3, Typing, PhmDropped, IoMine
  <2> QED
    BY <1>1, <1>2, <1>7, <2>3, <2>4, <2>5, MoveGood
<1> QED
  BY <1>0, <1>3, <1>5, <1>6, <1>7 DEF NowaitGot, Pp

(* pvn_vplist_dirty() has its page: returned, let go, or destroyed. *)
LEMMA VplistGotGood ==
  ASSUME Inv, NEW u \in Threads, OthersKeep(u), VplistGot(u)
  PROVE  Good(u)
<1>0. PICK p, se : p = loc[u].pp /\ se = loc[u].se
  OBVIOUS
<1>1. /\ pc[u] = "got" /\ loc[u].op = "vplist" /\ UNCHANGED names /\ p_free' = p_free /\ p_age' = p_age
      /\ p_io' = p_io /\ phm' = phm
  BY DEF VplistGot, At
<1>2. p \in Pages /\ loc[u].npp = None /\ loc[u].id = None /\ se \in {EXCL, SHARED}
  BY <1>0, <1>1, Typing DEF Shape, Locals
<1>3. Agree(p) /\ p_vnode[p] # None
  BY <1>0, <1>1, <1>2, Typing DEF HeldOK
<1>4. Holds(u) = {p}
  BY <1>0, <1>1, <1>2, Typing DEF Holds, Spare, Pp, Sleeping, Searching
<1>5. p_selock[p] # 0 /\ (se = EXCL => p_selock[p] = -1)
  BY <1>0, <1>2, <1>4, HoldLock DEF Excl
<1>6. p_vnode' = p_vnode /\ hashed' = hashed
  BY <1>1 DEF names
<1>7. DropPhm(u)
  <2>1. ~Hold(u)
    BY <1>2, Typing DEF Hold
  <2> QED
    BY <1>1, <2>1 DEF DropPhm
<1>8. ASSUME ~p_free[p], Return(u, p), p_selock' = p_selock, list' = list PROVE Good(u)
  <2>1. View(u, "run", "none", None, se, p, None)'
    BY <1>0, <1>2, <1>8, Typing, ReturnFacts DEF View
  <2>2. Agree(p)'
    BY <1>1, <1>3, <1>6, <1>8 DEF Agree
  <2>3. Shape(u)' /\ SpareOK(u)' /\ HeldOK(u)' /\ SleepOK(u)' /\ Holds(u)' = {p} /\ ~MustHold(u)' /\ pc'[u] = "run"
    BY <1>1, <1>2, <1>8, <2>1, <2>2, Typing, ReturnsPage
  <2>4. Steady(u, p)
    BY <1>0, <1>1, <2>1 DEF View, Steady, Excl
  <2>5. PhmStep(u) /\ PhmOK(u)' /\ IoOK(u)'
    BY <1>1, <1>7, <2>3, Typing, PhmDropped, IoMine
  <2> QED
    BY <1>1, <1>4, <1>8, <2>3, <2>4, <2>5, MoveGood DEF free
<1>9. ASSUME PageUnlock(u, p, "run"), Set(u, Idle), list' = list PROVE Good(u)
  <2>1. pc'[u] = "run" /\ p_selock' = Unlocked(p)
    BY <1>2, <1>5, <1>9, UnlockSleepers
  <2>2. View(u, "run", "none", None, EXCL, None, None)'
    BY <1>9, <2>1, Typing DEF View, Set, Idle
  <2>3. Shape(u)' /\ SpareOK(u)' /\ HeldOK(u)' /\ SleepOK(u)' /\ Holds(u)' = {} /\ ~MustHold(u)'
    BY <2>2, Typing, ReturnsNothing
  <2>4. PhmStep(u) /\ PhmOK(u)' /\ IoOK(u)' /\ IoStep(u)
    BY <1>1, <1>7, <2>1, <2>3, Typing, PhmDropped, IoMine, IoKept
  <2>5. FieldsKeep(u) /\ AgreeStep(u) /\ NameStep(u) /\ SleepStep(u)
    BY <1>1, <1>2, <1>3, <1>5, <1>9, DropFrame DEF free
  <2>6. LockStep(u)
    BY <1>2, <1>4, <2>1, <2>3 DEF LockStep, LockDropped
  <2> QED
    BY <2>3, <2>4, <2>5, <2>6 DEF Good, OwnSound
<1>10. ASSUME se = EXCL, Goto(u, "hashout"), Set(u, [loc[u] EXCEPT !.op = "destroy_free"]),
              list' = [list EXCEPT ![p] = "none"], p_selock' = p_selock
       PROVE  Good(u)
  <2>1. View(u, "hashout", "destroy_free", None, EXCL, p, None)'
    BY <1>0, <1>2, <1>10, Typing DEF View, Goto, Set, Locals
  <2>2. hashed'[p] /\ p_vnode'[p] # None /\ list'[p] = "none"
    BY <1>2, <1>3, <1>6, <1>10, Typing DEF Agree
  <2>3. Shape(u)' /\ SpareOK(u)' /\ SleepOK(u)'
    BY <1>2, <2>1, Typing DEF View, Shape, SpareOK, SleepOK
  <2>4. HeldOK(u)'
    BY <2>1, <2>2 DEF View, HeldOK
  <2>5. Holds(u)' = {p} /\ Steady(u, p)
    BY <1>0, <1>2, <1>10, <2>1, Typing DEF View, Holds, Spare, Pp, Sleeping, Searching, Steady, Excl
  <2>6. PhmStep(u) /\ PhmOK(u)' /\ IoOK(u)' /\ IoStep(u)
    BY <1>1, <1>7, <2>1, Typing, PhmDropped, IoMine, IoKept DEF View, MustHold
  <2>7. \A q \in Pages \ {p} : Same(q)
    BY <1>1, <1>6, <1>10, Typing DEF Same
  <2>8. FieldsKeep(u) /\ AgreeStep(u) /\ SleepStep(u)
    BY <1>2, <1>4, <1>5, <1>10, <2>7, ExclFrame
  <2>9. NameStep(u) /\ LockStep(u)
    BY <1>4, <1>6, <1>10, <2>5 DEF NameStep, NamesKept, LockStep, LocksKept
  <2> QED
    BY <2>3, <2>4, <2>6, <2>8, <2>9 DEF Good, OwnSound
<1> QED
  BY <1>0, <1>8, <1>9, <1>10 DEF VplistGot, Pp

-----------------------------------------------------------------------
(* The page that loses its name. *)
LEMMA TargetFacts ==
  ASSUME Inv, NEW u \in Threads, pc[u] \in {"hashout", "noname"}
  PROVE  /\ Target(u) \in Pages /\ Target(u) \in Holds(u) /\ p_selock[Target(u)] = -1
         /\ hashed[Target(u)] <=> pc[u] = "hashout"
         /\ p_vnode[Target(u)] # None /\ list[Target(u)] = "none"
         /\ loc[u].op \in {"rename", "destroy", "dontfree"} => InUse(Target(u))
         /\ loc[u].op = "rename" /\ loc[u].pp # None => p_vnode[Target(u)] = loc[u].id
         /\ loc[u].se = EXCL
         /\ loc[u].op \in {"rename", "create", "create_excl", "destroy", "dontfree", "destroy_free"}
         /\ loc[u].op \in {"create", "create_excl"} => loc[u].pp = None
         /\ loc[u].op \in {"destroy", "dontfree", "destroy_free"} => loc[u].npp = None
<1>1. /\ loc[u].op \in {"rename", "create", "create_excl", "destroy", "dontfree", "destroy_free"} /\ loc[u].se = EXCL
      /\ loc[u].op \in {"create", "create_excl"} => loc[u].pp = None
      /\ loc[u].op \in {"destroy", "dontfree", "destroy_free"} => loc[u].npp = None
      /\ loc[u].pp = None => loc[u].npp # None
  BY Typing DEF Shape
<1>2. Target(u) \in Pages /\ Target(u) \in Holds(u)
  BY <1>1, Typing DEF Target, Pp, Locals, Holds, Spare, Sleeping, Searching
<1>3. p_selock[Target(u)] = -1
  BY <1>1, <1>2, HoldLock DEF Excl
<1>4. CASE loc[u].pp = None
  BY <1>1, <1>2, <1>3, <1>4, Typing DEF SpareOK, Target, Pp
<1>5. CASE loc[u].pp # None
  BY <1>1, <1>2, <1>3, <1>5, Typing DEF HeldOK, Target, Pp
<1> QED
  BY <1>4, <1>5

(* page_do_hashout() takes the page off its chain; it does not panic. *)
LEMMA HashoutGood ==
  ASSUME Inv, NEW u \in Threads, OthersKeep(u), Hashout(u)
  PROVE  Good(u)
<1>0. PICK p, q, x : p = loc[u].pp /\ q = loc[u].npp /\ x = Target(u)
  OBVIOUS
<1>1. pc[u] = "hashout" /\ p_selock' = p_selock /\ p_vnode' = p_vnode /\ p_free' = p_free /\ p_age' = p_age
      /\ list' = list /\ p_io' = p_io /\ phm' = phm /\ loc' = loc /\ phm[p_vnode[x]] \in {None, u}
  BY <1>0 DEF Hashout, At, free
<1>2. /\ x \in Pages /\ x \in Holds(u) /\ p_selock[x] = -1 /\ hashed[x] /\ p_vnode[x] # None /\ list[x] = "none"
      /\ loc[u].op \in {"rename", "destroy", "dontfree"} => InUse(x)
      /\ loc[u].op = "rename" /\ p # None => p_vnode[x] = loc[u].id
      /\ loc[u].se = EXCL /\ loc[u].op \in {"rename", "create", "create_excl", "destroy", "dontfree", "destroy_free"}
  BY <1>0, <1>1, TargetFacts
<1>3. hashed' = [hashed EXCEPT ![x] = FALSE] /\ pc'[u] = "noname"
  BY <1>0, <1>2, Typing DEF Hashout, Goto
<1>4. x = (IF p = None THEN q ELSE p)
  BY <1>0 DEF Target, Pp
<1>5. ~hashed'[x] /\ \A r \in Pages \ {x} : hashed'[r] = hashed[r]
  BY <1>2, <1>3, Typing
<1>6. Shape(u)' /\ SleepOK(u)'
  BY <1>0, <1>1, <1>3, Typing DEF Shape, SleepOK
<1>7. SpareOK(u)'
  <2>1. CASE p = None
    BY <1>0, <1>1, <1>2, <1>3, <1>4, <1>5, <2>1 DEF SpareOK, InUse
  <2>2. CASE p # None /\ q # None
    <3>1. q \in Pages \ {x} /\ Nameless(q) /\ InUse(q)
      BY <1>0, <1>1, <1>4, <2>2, SpareFacts
    <3>2. Nameless(q)' /\ InUse(q)'
      BY <1>1, <1>5, <3>1 DEF Nameless, InUse
    <3> QED
      BY <1>0, <1>1, <1>3, <2>2, <3>2 DEF SpareOK
  <2>3. CASE q = None
    BY <1>0, <1>1, <2>3 DEF SpareOK
  <2> QED
    BY <2>1, <2>2, <2>3
<1>8. HeldOK(u)'
  <2>1. CASE p = None
    BY <1>0, <1>1, <2>1 DEF HeldOK
  <2>2. CASE p # None
    BY <1>0, <1>1, <1>2, <1>3, <1>4, <1>5, <2>2 DEF HeldOK, InUse
  <2> QED
    BY <2>1, <2>2
<1>9. Holds(u)' = Holds(u) /\ \A r \in Holds(u) : Steady(u, r)
  BY <1>1, <1>2, <1>3 DEF Holds, Spare, Pp, Sleeping, Searching, Steady, Excl
<1>10. PhmStep(u) /\ PhmOK(u)'
  <2>1. (MustHold(u)' <=> MustHold(u)) /\ (MayHold(u)' <=> MayHold(u)) /\ (Hold(u)' <=> Hold(u))
    BY <1>1, <1>3 DEF MustHold, MayHold, Hold
  <2>2. ASSUME loc[u].op = "rename", p # None PROVE Matches(u)' = {}
    BY <1>1, <1>2, <1>5, <2>2 DEF Matches, Inv, FieldsSound
  <2> QED
    BY <1>0, <1>1, <1>3, <2>1, <2>2, Typing DEF PhmStep, PhmOK
<1>11. IoOK(u)' /\ IoStep(u)
  BY <1>1, <1>3, Typing, IoMine, IoKept
<1>12. \A r \in Pages \ {x} : Same(r)
  BY <1>1, <1>5 DEF Same
<1>13. FieldsKeep(u) /\ AgreeStep(u) /\ SleepStep(u) /\ LockStep(u) /\ NameStep(u)
  BY <1>1, <1>2, <1>3, <1>9, <1>12, ExclFrame DEF LockStep, LocksKept, NameStep, Unhashed
<1> QED
  BY <1>6, <1>7, <1>8, <1>10, <1>11, <1>13 DEF Good, OwnSound

(* page_hashout() clears the name and wakes those who sleep on the page. *)
LEMMA HashoutNameGood ==
  ASSUME Inv, NEW u \in Threads, OthersKeep(u), HashoutName(u)
  PROVE  Good(u)
<1>0. PICK p, q, x, l, op, id :
        p = loc[u].pp /\ q = loc[u].npp /\ x = Target(u) /\ l = HashoutNext(u) /\ op = loc[u].op /\ id = loc[u].id
  OBVIOUS
<1>1. pc[u] = "noname" /\ p_selock' = p_selock /\ hashed' = hashed /\ p_free' = p_free /\ p_age' = p_age
      /\ list' = list /\ p_io' = p_io /\ phm' = phm /\ loc' = loc /\ p_vnode' = [p_vnode EXCEPT ![x] = None]
  BY <1>0 DEF HashoutName, At, free
<1>2. /\ x \in Pages /\ x \in Holds(u) /\ p_selock[x] = -1 /\ ~hashed[x] /\ p_vnode[x] # None /\ list[x] = "none"
      /\ op \in {"rename", "destroy", "dontfree"} => InUse(x)
      /\ op = "rename" /\ p # None => p_vnode[x] = id
      /\ loc[u].se = EXCL /\ op \in {"rename", "create", "create_excl", "destroy", "dontfree", "destroy_free"}
      /\ op \in {"create", "create_excl"} => p = None
      /\ op \in {"destroy", "dontfree", "destroy_free"} => q = None
  BY <1>0, <1>1, TargetFacts
<1>3. x = (IF p = None THEN q ELSE p)
  BY <1>0 DEF Target, Pp
<1>4. /\ p = None => l = (IF op = "rename" THEN "phm" ELSE "own")
      /\ p # None /\ op = "rename" => l = "hashin"
      /\ p # None /\ op = "destroy" => l = "free"
      /\ p # None /\ op = "dontfree" => l = "kept"
      /\ p # None /\ op = "destroy_free" => l = "relist"
      /\ p # None => op \in {"rename", "destroy", "dontfree", "destroy_free"}
      /\ l \notin {"asleep", "io_asleep"}
  <2>1. p # None => op \in {"rename", "destroy", "dontfree", "destroy_free"}
    BY <1>2
  <2> QED
    BY <1>0, <2>1 DEF HashoutNext, Pp
<1>5. pc'[u] = l /\ NoSleeper(u, x)
  BY <1>0, <1>4, Typing DEF HashoutName, HashoutWakes, Broadcast, NoSleeper, Pp
<1>6. p_vnode'[x] = None /\ \A r \in Pages \ {x} : p_vnode'[r] = p_vnode[r]
  BY <1>1, <1>2, Typing
<1>7. Nameless(x)' /\ (InUse(x)' <=> InUse(x))
  BY <1>1, <1>2, <1>6 DEF Nameless, InUse
<1>8. p # None /\ op = "rename" => q \in Pages \ {x} /\ Nameless(q)' /\ InUse(q)'
  <2>1. ASSUME p # None, op = "rename" PROVE q \in Pages \ {x} /\ Nameless(q) /\ InUse(q)
    <3>1. q # None
      BY <1>0, <1>1, <2>1, Typing DEF Shape
    <3> QED
      BY <1>0, <1>1, <1>3, <2>1, <3>1, SpareFacts
  <2> QED
    BY <1>1, <1>6, <2>1 DEF Nameless, InUse
<1>9. Shape(u)' /\ SleepOK(u)'
  <2>1. Shape(u)'
    <3>1. CASE p = None
      BY <1>0, <1>1, <1>2, <1>4, <1>5, <3>1, Typing DEF Shape
    <3>2. CASE p # None
      BY <1>0, <1>1, <1>2, <1>4, <1>5, <3>2, Typing DEF Shape
    <3> QED
      BY <3>1, <3>2
  <2> QED
    BY <1>4, <1>5, <2>1 DEF SleepOK
<1>10. SpareOK(u)'
  <2>1. CASE p = None
    BY <1>0, <1>1, <1>2, <1>3, <1>4, <1>5, <1>7, <2>1 DEF SpareOK
  <2>2. CASE p # None
    BY <1>0, <1>1, <1>2, <1>4, <1>5, <1>8, <2>2 DEF SpareOK
  <2> QED
    BY <2>1, <2>2
<1>11. HeldOK(u)'
  <2>1. CASE p = None
    BY <1>0, <1>1, <2>1 DEF HeldOK
  <2>2. CASE p # None /\ op = "rename"
    BY <1>0, <1>1, <1>2, <1>3, <1>4, <1>5, <1>7, <2>2 DEF HeldOK
  <2>3. CASE p # None /\ op = "destroy"
    <3>1. Agree(x)'
      BY <1>2, <1>7, <2>3 DEF Agree, Nameless, InUse
    <3> QED
      BY <1>0, <1>1, <1>3, <1>4, <1>5, <2>3, <3>1 DEF HeldOK
  <2>4. CASE p # None /\ op = "destroy_free"
    BY <1>0, <1>1, <1>3, <1>4, <1>5, <1>7, <2>4 DEF HeldOK
  <2>5. CASE p # None /\ op = "dontfree"
    BY <1>0, <1>1, <1>2, <1>3, <1>4, <1>5, <1>7, <2>5 DEF HeldOK
  <2> QED
    BY <1>4, <2>1, <2>2, <2>3, <2>4, <2>5
<1>12. Holds(u)' = Holds(u) /\ \A r \in Holds(u) : Steady(u, r)
  BY <1>0, <1>1, <1>2, <1>4, <1>5 DEF Holds, Spare, Pp, Sleeping, Searching, Steady, Excl
<1>13. PhmStep(u) /\ PhmOK(u)'
  <2>1. CASE p # None /\ op = "rename"
    <3>1. Matches(u) = {} /\ Hold(u) /\ \A n \in Names : phm[n] = u => n = id
      BY <1>0, <1>1, <2>1, Typing DEF PhmOK, MustHold
    <3>2. Matches(u)' = {}
      BY <1>0, <1>1, <1>6, <3>1, Typing DEF Matches, Hold
    <3> QED
      BY <1>0, <1>1, <1>4, <1>5, <2>1, <3>1, <3>2 DEF PhmStep, PhmOK, MayHold, MustHold, Hold
  <2>2. CASE ~(p # None /\ op = "rename")
    BY <1>0, <1>1, <1>4, <1>5, <2>2, Typing, PhmQuiet DEF MayHold, MustHold
  <2> QED
    BY <2>1, <2>2
<1>14. IoOK(u)' /\ IoStep(u)
  BY <1>1, <1>4, <1>5, Typing, IoMine, IoKept
<1>15. \A r \in Pages \ {x} : Same(r)
  BY <1>1, <1>6 DEF Same
<1>16. FieldsKeep(u) /\ AgreeStep(u) /\ SleepStep(u) /\ LockStep(u) /\ NameStep(u)
  BY <1>1, <1>2, <1>5, <1>12, <1>15, ExclFrame DEF LockStep, LocksKept, NameStep, Unnamed
<1> QED
  BY <1>9, <1>10, <1>11, <1>13, <1>14, <1>16 DEF Good, OwnSound

-----------------------------------------------------------------------
(* page_free() puts the page on a list and unlocks it. *)
LEMMA PageFreeGood ==
  ASSUME Inv, NEW u \in Threads, OthersKeep(u), PageFree(u)
  PROVE  Good(u)
<1>0. PICK p, q, id : p = loc[u].pp /\ q = loc[u].npp /\ id = loc[u].id
  OBVIOUS
<1>1. /\ pc[u] = "free" /\ SetFree(p, p_vnode[p] = None) /\ PageUnlock(u, p, "run") /\ Set(u, Back(u, q))
      /\ UNCHANGED names /\ p_io' = p_io /\ phm' = phm
  BY <1>0 DEF PageFree, At, Pp
<1>2. p \in Pages /\ loc[u].op \in {"free", "destroy", "rename"} /\ loc[u].se = EXCL /\ p # q
      /\ (q # None => q \in Pages /\ loc[u].op = "rename" /\ id \in Names)
  BY <1>0, <1>1, Typing DEF Shape, Locals
<1>3. Agree(p) /\ (q # None => hashed[q] /\ p_vnode[q] = id /\ InUse(q))
  BY <1>0, <1>1, <1>2, Typing DEF HeldOK, SpareOK
<1>4. Holds(u) = {p} \cup ({q} \ {None})
  BY <1>0, <1>1, <1>2, Typing DEF Holds, Spare, Pp, Sleeping, Searching
<1>5. p_selock[p] = -1
  BY <1>2, <1>4, HoldLock DEF Excl
<1>6. pc'[u] = "run" /\ p_selock' = Unlocked(p)
  BY <1>1, <1>2, <1>5, UnlockSleepers
<1>7. FieldsKeep(u) /\ AgreeStep(u) /\ NameStep(u) /\ SleepStep(u)
  BY <1>1, <1>2, <1>3, <1>4, <1>5, FreeFrame DEF Agree
<1>8. CASE q = None
  <2>1. View(u, "run", "none", None, EXCL, None, None)'
    BY <1>1, <1>6, <1>8, Typing, BackFacts DEF View
  <2>2. Shape(u)' /\ SpareOK(u)' /\ HeldOK(u)' /\ SleepOK(u)' /\ Holds(u)' = {} /\ ~MustHold(u)'
    BY <2>1, Typing, ReturnsNothing
  <2>3. LockStep(u)
    BY <1>2, <1>4, <1>6, <1>8, <2>2 DEF LockStep, LockDropped
  <2>4. PhmStep(u) /\ PhmOK(u)' /\ IoOK(u)' /\ IoStep(u)
    BY <1>1, <1>2, <1>6, <2>2, Typing, PhmQuiet, IoMine, IoKept DEF MayHold, MustHold
  <2> QED
    BY <1>7, <2>2, <2>3, <2>4 DEF Good, OwnSound
<1>9. CASE q # None
  <2>1. View(u, "run", "none", id, EXCL, q, None)'
    BY <1>0, <1>1, <1>2, <1>6, <1>9, Typing, BackFacts DEF View
  <2>2. Agree(q)' /\ ~p_free'[q] /\ p_vnode'[q] = id
    BY <1>1, <1>2, <1>3, <1>9, Typing DEF SetFree, names, Agree, InUse
  <2>3. Shape(u)' /\ SpareOK(u)' /\ HeldOK(u)' /\ SleepOK(u)' /\ Holds(u)' = {q} /\ ~MustHold(u)'
    BY <1>2, <1>9, <2>1, <2>2, Typing, ReturnsPage
  <2>4. Steady(u, q)
    BY <1>2, <2>1 DEF View, Steady, Excl
  <2>5. LockStep(u)
    BY <1>2, <1>4, <1>6, <1>9, <2>3, <2>4 DEF LockStep, LockDropped
  <2>6. PhmStep(u) /\ PhmOK(u)' /\ IoOK(u)' /\ IoStep(u)
    BY <1>0, <1>1, <1>2, <1>6, <2>3, Typing, PhmQuiet, IoMine, IoKept DEF MayHold, MustHold
  <2> QED
    BY <1>7, <2>3, <2>5, <2>6 DEF Good, OwnSound
<1> QED
  BY <1>8, <1>9

(* page_destroy_free() puts the page on the free list and unlocks it. *)
LEMMA RelistGood ==
  ASSUME Inv, NEW u \in Threads, OthersKeep(u), Relist(u)
  PROVE  Good(u)
<1>0. PICK p : p = loc[u].pp
  OBVIOUS
<1>1. /\ pc[u] = "relist" /\ SetFree(p, TRUE) /\ PageUnlock(u, p, "run") /\ Set(u, Idle)
      /\ UNCHANGED names /\ p_io' = p_io /\ phm' = phm
  BY <1>0 DEF Relist, At, Pp
<1>2. p \in Pages /\ loc[u].op = "destroy_free" /\ loc[u].se = EXCL /\ loc[u].npp = None
  BY <1>0, <1>1, Typing DEF Shape, Locals
<1>3. Nameless(p)
  BY <1>0, <1>1, <1>2, Typing DEF HeldOK
<1>4. Holds(u) = {p}
  BY <1>0, <1>1, <1>2, Typing DEF Holds, Spare, Pp, Sleeping, Searching
<1>5. p_selock[p] = -1
  BY <1>2, <1>4, HoldLock DEF Excl
<1>6. pc'[u] = "run" /\ p_selock' = Unlocked(p)
  BY <1>1, <1>2, <1>5, UnlockSleepers
<1>7. FieldsKeep(u) /\ AgreeStep(u) /\ NameStep(u) /\ SleepStep(u)
  BY <1>1, <1>2, <1>3, <1>4, <1>5, FreeFrame DEF Nameless
<1>8. View(u, "run", "none", None, EXCL, None, None)'
  BY <1>1, <1>6, Typing DEF View, Set, Idle
<1>9. Shape(u)' /\ SpareOK(u)' /\ HeldOK(u)' /\ SleepOK(u)' /\ Holds(u)' = {} /\ ~MustHold(u)'
  BY <1>8, Typing, ReturnsNothing
<1>10. LockStep(u)
  BY <1>2, <1>4, <1>6, <1>9 DEF LockStep, LockDropped
<1>11. PhmStep(u) /\ PhmOK(u)' /\ IoOK(u)' /\ IoStep(u)
  BY <1>1, <1>2, <1>6, <1>9, Typing, PhmQuiet, IoMine, IoKept DEF MayHold, MustHold
<1> QED
  BY <1>7, <1>9, <1>10, <1>11 DEF Good, OwnSound

(* page_destroy() with dontfree returns with the page locked. *)
LEMMA KeptGood ==
  ASSUME Inv, NEW u \in Threads, OthersKeep(u), Kept(u)
  PROVE  Good(u)
<1>0. PICK p : p = loc[u].pp
  OBVIOUS
<1>1. pc[u] = "kept" /\ Return(u, p) /\ UNCHANGED <<p_selock, names, free, p_io>> /\ phm' = phm
  BY <1>0 DEF Kept, At, Pp
<1>2. /\ p \in Pages /\ loc[u].op = "dontfree" /\ loc[u].id = None /\ loc[u].se = EXCL /\ loc[u].npp = None
  BY <1>0, <1>1, Typing DEF Shape, Locals
<1>3. Nameless(p) /\ InUse(p)
  BY <1>0, <1>1, <1>2, Typing DEF HeldOK
<1>4. View(u, "run", "none", None, EXCL, p, None)'
  BY <1>1, <1>2, Typing, ReturnFacts DEF View
<1>5. Agree(p)' /\ ~p_free'[p]
  BY <1>1, <1>3 DEF names, free, Nameless, InUse, Agree
<1>6. Shape(u)' /\ SpareOK(u)' /\ HeldOK(u)' /\ SleepOK(u)' /\ Holds(u)' = {p} /\ ~MustHold(u)' /\ pc'[u] = "run"
  BY <1>2, <1>4, <1>5, Typing, ReturnsPage
<1>7. Holds(u) = {p} /\ Steady(u, p)
  BY <1>0, <1>1, <1>2, <1>4, Typing DEF View, Holds, Spare, Pp, Sleeping, Searching, Steady, Excl
<1>8. PhmStep(u) /\ PhmOK(u)' /\ IoOK(u)'
  BY <1>1, <1>2, <1>6, Typing, PhmQuiet, IoMine DEF MayHold, MustHold
<1> QED
  BY <1>1, <1>6, <1>7, <1>8, MoveGood

(* page_create_va() puts back the page it did not need. *)
LEMMA PutBackGood ==
  ASSUME Inv, NEW u \in Threads, OthersKeep(u), PutBack(u)
  PROVE  Good(u)
<1>0. PICK p, q, id : p = loc[u].pp /\ q = loc[u].npp /\ id = loc[u].id
  OBVIOUS
<1>1. /\ pc[u] = "putback" /\ SetFree(q, TRUE) /\ PageUnlock(u, q, "run") /\ Set(u, Back(u, p))
      /\ UNCHANGED names /\ p_io' = p_io /\ phm' = phm
  BY <1>0 DEF PutBack, At, Pp
<1>2. q # None /\ (p # None => p \in Pages) /\ id \in Names
  BY <1>0, <1>1, Typing DEF Shape, Locals
<1>3. q \in Pages /\ Nameless(q) /\ loc[u].se = EXCL /\ loc[u].op \in {"create", "create_excl", "rename"} /\ p # q
  BY <1>0, <1>1, <1>2, SpareFacts
<1>4. Holds(u) = {q} \cup ({p} \ {None})
  BY <1>0, <1>1, <1>2, Typing DEF Holds, Spare, Pp, Sleeping, Searching
<1>5. p_selock[q] = -1
  BY <1>3, <1>4, HoldLock DEF Excl
<1>6. pc'[u] = "run" /\ p_selock' = Unlocked(q)
  BY <1>1, <1>3, <1>5, UnlockSleepers
<1>7. FieldsKeep(u) /\ AgreeStep(u) /\ NameStep(u) /\ SleepStep(u)
  BY <1>1, <1>3, <1>4, <1>5, FreeFrame DEF Nameless
<1>8. CASE p = None
  <2>1. View(u, "run", "none", None, EXCL, None, None)'
    BY <1>1, <1>6, <1>8, Typing, BackFacts DEF View
  <2>2. Shape(u)' /\ SpareOK(u)' /\ HeldOK(u)' /\ SleepOK(u)' /\ Holds(u)' = {} /\ ~MustHold(u)'
    BY <2>1, Typing, ReturnsNothing
  <2>3. LockStep(u)
    BY <1>3, <1>4, <1>6, <1>8, <2>2 DEF LockStep, LockDropped
  <2>4. PhmStep(u) /\ PhmOK(u)' /\ IoOK(u)' /\ IoStep(u)
    BY <1>0, <1>1, <1>3, <1>6, <1>8, <2>2, Typing, PhmQuiet, IoMine, IoKept DEF MayHold, MustHold
  <2> QED
    BY <1>7, <2>2, <2>3, <2>4 DEF Good, OwnSound
<1>9. CASE p # None
  <2>1. View(u, "run", "none", id, EXCL, p, None)'
    BY <1>0, <1>1, <1>3, <1>6, <1>9, Typing, BackFacts DEF View
  <2>2. Agree(p) /\ ~p_free[p] /\ p_vnode[p] = id
    BY <1>0, <1>1, <1>2, <1>9, Typing DEF HeldOK
  <2>3. Agree(p)' /\ ~p_free'[p] /\ p_vnode'[p] = id
    BY <1>1, <1>2, <1>3, <1>9, <2>2, Typing DEF SetFree, names, Agree
  <2>4. Shape(u)' /\ SpareOK(u)' /\ HeldOK(u)' /\ SleepOK(u)' /\ Holds(u)' = {p} /\ ~MustHold(u)' /\ loc'[u].pp = p
    BY <1>2, <1>9, <2>1, <2>3, Typing, ReturnsPage
  <2>5. Steady(u, p)
    BY <1>3, <2>1 DEF View, Steady, Excl
  <2>6. LockStep(u)
    BY <1>3, <1>4, <1>6, <1>9, <2>4, <2>5 DEF LockStep, LockDropped
  <2>7. PhmStep(u) /\ PhmOK(u)' /\ IoOK(u)' /\ IoStep(u)
    BY <1>0, <1>1, <1>3, <1>6, <2>4, Typing, PhmQuiet, IoMine, IoKept DEF MayHold, MustHold
  <2> QED
    BY <1>7, <2>4, <2>6, <2>7 DEF Good, OwnSound
<1> QED
  BY <1>8, <1>9

(* page_get_freelist() and page_get_cachelist() lock a page and take it    *)
(* off its list.                                                           *)
LEMMA GetPageGood ==
  ASSUME Inv, NEW u \in Threads, OthersKeep(u), GetPage(u)
  PROVE  Good(u)
<1>0. PICK op, id : op = loc[u].op /\ id = loc[u].id
  OBVIOUS
<1>1. /\ pc[u] = "getpage" /\ p_vnode' = p_vnode /\ hashed' = hashed /\ p_free' = p_free /\ p_age' = p_age
      /\ p_io' = p_io /\ phm' = phm
  BY DEF GetPage, At, names
<1>2. PICK p \in Pages : /\ list[p] # "none" /\ p_selock[p] = 0 /\ p_selock' = Locked(p, EXCL)
                         /\ list' = [list EXCEPT ![p] = "none"] /\ Set(u, [loc[u] EXCEPT !.npp = p])
                         /\ Goto(u, IF p_age[p] THEN "own" ELSE "hashout")
  BY DEF GetPage
<1>3. op \in {"create", "create_excl"} /\ id \in Names /\ loc[u].se = EXCL /\ loc[u].pp = None /\ loc[u].npp = None
  BY <1>0, <1>1, Typing DEF Shape
<1>4. Holds(u) = {}
  BY <1>3 DEF Holds, Spare, Pp
<1>5. Agree(p) /\ p_free[p]
  BY <1>2 DEF Inv, FieldsSound, Agree
<1>6. PICK l : l = IF p_age[p] THEN "own" ELSE "hashout"
  OBVIOUS
<1>7. View(u, l, op, id, EXCL, None, p)'
  BY <1>0, <1>2, <1>3, <1>6, Typing DEF View, Goto, Set, Locals
<1>8. list'[p] = "none" /\ p_selock'[p] = -1
      /\ \A r \in Pages \ {p} : list'[r] = list[r] /\ p_selock'[r] = p_selock[r]
  BY <1>2, Typing DEF Locked
<1>9. l = "own" => Nameless(p)'
  BY <1>1, <1>5, <1>6, Typing DEF Nameless, Agree
<1>10. l = "hashout" => hashed'[p] /\ p_vnode'[p] # None
  BY <1>1, <1>5, <1>6, Typing DEF Agree
<1>11. Shape(u)' /\ HeldOK(u)' /\ SleepOK(u)'
  BY <1>3, <1>6, <1>7, Typing DEF View, Shape, HeldOK, SleepOK
<1>12. SpareOK(u)'
  BY <1>3, <1>6, <1>7, <1>8, <1>9, <1>10 DEF View, SpareOK
<1>13. Holds(u)' = {p} /\ Excl(u, p)'
  BY <1>6, <1>7, Typing DEF View, Holds, Spare, Pp, Excl
<1>14. LockTaken(u, p, EXCL)
  BY <1>2, <1>4, <1>13 DEF LockTaken, CanLock
<1>15. PhmStep(u) /\ PhmOK(u)' /\ IoOK(u)' /\ IoStep(u)
  BY <1>1, <1>3, <1>6, <1>7, Typing, PhmQuiet, IoMine, IoKept DEF View, MayHold, MustHold
<1>16. FieldsKeep(u) /\ SleepStep(u) /\ NameStep(u)
  BY <1>1, <1>2, <1>8 DEF FieldsKeep, Same, SleepStep, NameStep, NamesKept
<1>17. AgreeStep(u)
  BY <1>1, <1>8 DEF Inv, FieldsSound, AgreeStep, Agree
<1> QED
  BY <1>11, <1>12, <1>14, <1>15, <1>16, <1>17 DEF Good, OwnSound, LockStep

(* page_create_va() clears p_free and p_age of its new page. *)
LEMMA OwnGood ==
  ASSUME Inv, NEW u \in Threads, OthersKeep(u), Own(u)
  PROVE  Good(u)
<1>0. PICK q, op, id : q = loc[u].npp /\ op = loc[u].op /\ id = loc[u].id
  OBVIOUS
<1>1. /\ pc[u] = "own" /\ pc'[u] = "phm" /\ p_selock' = p_selock /\ p_vnode' = p_vnode /\ hashed' = hashed
      /\ list' = list /\ p_io' = p_io /\ phm' = phm /\ loc' = loc
      /\ p_free' = [p_free EXCEPT ![q] = FALSE] /\ p_age' = [p_age EXCEPT ![q] = FALSE]
  BY <1>0, Typing DEF Own, At, Goto, names
<1>2. op \in {"create", "create_excl"} /\ id \in Names /\ loc[u].se = EXCL /\ loc[u].pp = None /\ q \in Pages
  BY <1>0, <1>1, Typing DEF Shape, Locals
<1>3. Nameless(q) /\ list[q] = "none"
  BY <1>0, <1>1, <1>2, Typing DEF SpareOK
<1>4. Holds(u) = {q}
  BY <1>0, <1>2, Typing DEF Holds, Spare, Pp
<1>5. p_selock[q] = -1
  BY <1>2, <1>4, HoldLock DEF Excl
<1>6. View(u, "phm", op, id, EXCL, None, q)'
  BY <1>0, <1>1, <1>2 DEF View
<1>7. Nameless(q)' /\ InUse(q)'
  BY <1>1, <1>2, <1>3, Typing DEF Nameless, InUse
<1>8. Shape(u)' /\ SpareOK(u)' /\ HeldOK(u)' /\ SleepOK(u)' /\ Holds(u)' = {q} /\ ~MustHold(u)'
  BY <1>2, <1>6, <1>7, Typing, TriesAgain
<1>9. Steady(u, q)
  BY <1>1, <1>2 DEF Steady, Excl
<1>10. PhmStep(u) /\ PhmOK(u)' /\ IoOK(u)' /\ IoStep(u)
  BY <1>1, <1>2, <1>8, Typing, PhmQuiet, IoMine, IoKept DEF MayHold, MustHold
<1>11. \A r \in Pages \ {q} : Same(r)
  BY <1>1, Typing DEF Same
<1>12. FieldsKeep(u) /\ AgreeStep(u) /\ SleepStep(u)
  BY <1>1, <1>2, <1>4, <1>5, <1>11, ExclFrame
<1>13. NameStep(u) /\ LockStep(u)
  BY <1>1, <1>4, <1>8, <1>9 DEF NameStep, NamesKept, LockStep, LocksKept
<1> QED
  BY <1>8, <1>10, <1>12, <1>13 DEF Good, OwnSound

(* page_hashin() of a page that u kept without a name. *)
LEMMA HashinFacts ==
  ASSUME Inv, NEW u \in Threads, NEW q \in Pages, q = loc[u].npp, pc[u] \in {"top", "hashin"}, Matches(u) = {},
         Hashin(u, q)
  PROVE  /\ Named(u, q) /\ InUse(q) /\ p_selock[q] = -1 /\ q \in Holds(u) /\ loc[u].id \in Names /\ loc[u].se = EXCL
         /\ p_vnode'[q] = loc[u].id /\ hashed'[q]
         /\ \A r \in Pages \ {q} : p_vnode'[r] = p_vnode[r] /\ hashed'[r] = hashed[r]
<1>1. Nameless(q) /\ InUse(q) /\ loc[u].se = EXCL /\ q # None
  BY SpareFacts, Typing
<1>2. q \in Holds(u)
  BY <1>1 DEF Holds, Spare
<1>3. p_selock[q] = -1
  BY <1>1, <1>2, HoldLock DEF Excl
<1>4. loc[u].id \in Names /\ phm[loc[u].id] = u
  BY Typing DEF PhmOK, MustHold, Hold
<1>5. \A r \in Pages : hashed[r] => p_vnode[r] # loc[u].id
  BY DEF Matches
<1>6. Named(u, q)
  BY <1>1, <1>4, <1>5 DEF Named, Hashin
<1> QED
  BY <1>1, <1>2, <1>3, <1>4, <1>6, Typing DEF Hashin

(* page_create_va() hashes its page in under the name. *)
LEMMA CreateNewGood ==
  ASSUME Inv, NEW u \in Threads, OthersKeep(u), CreateNew(u)
  PROVE  Good(u)
<1>0. PICK q, op, id : q = loc[u].npp /\ op = loc[u].op /\ id = loc[u].id
  OBVIOUS
<1>1. /\ pc[u] = "top" /\ op \in {"create", "create_excl"} /\ Matches(u) = {} /\ Hashin(u, q) /\ DropPhm(u)
      /\ p_selock' = p_selock /\ p_free' = p_free /\ p_age' = p_age /\ list' = list /\ p_io' = p_io
  BY <1>0 DEF CreateNew, Creates, At, Hashin, free
<1>2. q \in Pages /\ loc[u].pp = None
  BY <1>0, <1>1, Typing DEF Shape, Locals
<1>3. /\ Named(u, q) /\ InUse(q) /\ p_selock[q] = -1 /\ q \in Holds(u) /\ id \in Names /\ loc[u].se = EXCL
      /\ p_vnode'[q] = id /\ hashed'[q]
      /\ \A r \in Pages \ {q} : p_vnode'[r] = p_vnode[r] /\ hashed'[r] = hashed[r]
  BY <1>0, <1>1, <1>2, HashinFacts
<1>4. View(u, "io", op, id, EXCL, q, None)'
  BY <1>0, <1>3, Typing DEF CreateNew, View, Goto, Set, Locals
<1>5. Agree(q)' /\ ~p_free'[q]
  BY <1>1, <1>3, Typing DEF Agree, InUse
<1>6. Shape(u)' /\ SpareOK(u)' /\ SleepOK(u)'
  BY <1>1, <1>2, <1>3, <1>4, Typing DEF View, Shape, SpareOK, SleepOK
<1>7. HeldOK(u)'
  BY <1>3, <1>4, <1>5 DEF View, HeldOK
<1>8. Holds(u) = {q} /\ Holds(u)' = {q} /\ Steady(u, q)
  BY <1>0, <1>1, <1>2, <1>3, <1>4, Typing DEF View, Holds, Spare, Pp, Sleeping, Searching, Steady, Excl
<1>9. PhmStep(u) /\ PhmOK(u)' /\ IoOK(u)' /\ IoStep(u)
  BY <1>1, <1>4, Typing, PhmDropped, IoMine, IoKept DEF View, MustHold
<1>10. \A r \in Pages \ {q} : Same(r)
  BY <1>1, <1>3 DEF Same
<1>11. FieldsKeep(u) /\ AgreeStep(u) /\ SleepStep(u)
  BY <1>1, <1>2, <1>3, <1>10, ExclFrame
<1>12. NameStep(u) /\ LockStep(u)
  BY <1>1, <1>2, <1>3, <1>8 DEF NameStep, LockStep, LocksKept
<1> QED
  BY <1>6, <1>7, <1>9, <1>11, <1>12 DEF Good, OwnSound

(* page_create_va() with PG_EXCL finds the name taken. *)
LEMMA CreateExistsGood ==
  ASSUME Inv, NEW u \in Threads, OthersKeep(u), CreateExists(u)
  PROVE  Good(u)
<1>0. PICK q : q = loc[u].npp
  OBVIOUS
<1>1. /\ pc[u] = "top" /\ pc'[u] = "putback" /\ loc[u].op = "create_excl" /\ DropPhm(u) /\ loc' = loc
      /\ UNCHANGED <<p_selock, names, free, p_io>>
  BY Typing DEF CreateExists, At, Goto
<1>2. q # None /\ loc[u].pp = None /\ loc[u].id \in Names /\ loc[u].se = EXCL
  BY <1>0, <1>1, Typing DEF Shape
<1>3. q \in Pages /\ Nameless(q) /\ InUse(q)
  BY <1>0, <1>1, <1>2, SpareFacts
<1>4. Nameless(q)' /\ InUse(q)'
  BY <1>1, <1>3 DEF names, free, Nameless, InUse
<1>5. Shape(u)' /\ HeldOK(u)' /\ SleepOK(u)'
  BY <1>0, <1>1, <1>2, Typing DEF Shape, HeldOK, SleepOK
<1>6. SpareOK(u)'
  BY <1>0, <1>1, <1>4 DEF SpareOK
<1>7. Holds(u) = {q} /\ Holds(u)' = {q} /\ Steady(u, q)
  BY <1>0, <1>1, <1>2 DEF Holds, Spare, Pp, Steady, Excl
<1>8. PhmStep(u) /\ PhmOK(u)' /\ IoOK(u)'
  BY <1>1, Typing, PhmDropped, IoMine DEF MustHold
<1> QED
  BY <1>1, <1>5, <1>6, <1>7, <1>8, MoveGood

(* page_create_va() takes the page that has the name already. *)
LEMMA CreateGotGood ==
  ASSUME Inv, NEW u \in Threads, OthersKeep(u), CreateGot(u)
  PROVE  Good(u)
<1>0. PICK p, q : p = loc[u].pp /\ q = loc[u].npp
  OBVIOUS
<1>1. /\ pc[u] = "got" /\ pc'[u] = "io" /\ loc[u].op = "create" /\ DropPhm(u) /\ loc' = loc
      /\ p_free' = [p_free EXCEPT ![p] = FALSE] /\ list' = [list EXCEPT ![p] = "none"]
      /\ p_selock' = p_selock /\ p_vnode' = p_vnode /\ hashed' = hashed /\ p_age' = p_age /\ p_io' = p_io
  BY <1>0, Typing DEF CreateGot, At, Goto, Pp, names
<1>2. p \in Pages /\ q # None /\ loc[u].id \in Names /\ loc[u].se = EXCL
  BY <1>0, <1>1, Typing DEF Shape, Locals
<1>3. q \in Pages /\ Nameless(q) /\ InUse(q) /\ q # p
  BY <1>0, <1>1, <1>2, SpareFacts
<1>4. Agree(p) /\ p_vnode[p] = loc[u].id
  BY <1>0, <1>1, <1>2, Typing DEF HeldOK
<1>5. Holds(u) = {p, q}
  BY <1>0, <1>1, <1>2, Typing DEF Holds, Spare, Pp, Sleeping, Searching
<1>6. Holds(u)' = {p, q}
  BY <1>0, <1>1, <1>2, Typing DEF Holds, Spare, Pp, Sleeping, Searching
<1>7. p_selock[p] = -1 /\ \A r \in Holds(u) : Steady(u, r)
  BY <1>1, <1>2, <1>5, HoldLock DEF Excl, Steady
<1>8. \A r \in Pages \ {p} : Same(r)
  BY <1>1, Typing DEF Same
<1>9. Agree(p)' /\ ~p_free'[p] /\ p_vnode'[p] = loc[u].id
  BY <1>1, <1>2, <1>4, Typing DEF Agree
<1>10. Nameless(q)' /\ InUse(q)'
  BY <1>3, <1>8 DEF Same, Nameless, InUse
<1>11. Shape(u)' /\ SleepOK(u)'
  BY <1>0, <1>1, <1>2, Typing DEF Shape, SleepOK
<1>12. SpareOK(u)'
  BY <1>0, <1>1, <1>10 DEF SpareOK
<1>13. HeldOK(u)'
  BY <1>0, <1>1, <1>9 DEF HeldOK
<1>14. PhmStep(u) /\ PhmOK(u)' /\ IoOK(u)' /\ IoStep(u)
  BY <1>1, Typing, PhmDropped, IoMine, IoKept DEF MustHold
<1>15. FieldsKeep(u) /\ AgreeStep(u) /\ SleepStep(u)
  BY <1>1, <1>2, <1>5, <1>7, <1>8, ExclFrame
<1>16. NameStep(u) /\ LockStep(u)
  BY <1>1, <1>5, <1>6, <1>7 DEF NameStep, NamesKept, LockStep, LocksKept
<1> QED
  BY <1>11, <1>12, <1>13, <1>14, <1>15, <1>16 DEF Good, OwnSound

(* page_rename() has locked the page that had the name. *)
LEMMA RenameGotGood ==
  ASSUME Inv, NEW u \in Threads, OthersKeep(u), RenameGot(u)
  PROVE  Good(u)
<1>0. PICK p, q, id : p = loc[u].pp /\ q = loc[u].npp /\ id = loc[u].id
  OBVIOUS
<1>1. /\ pc[u] = "got" /\ loc[u].op = "rename" /\ loc' = loc /\ UNCHANGED <<p_selock, names, free, p_io>>
      /\ \/ pc'[u] = "hashout" /\ phm' = phm
         \/ pc'[u] = "unloaded" /\ DropPhm(u)
  BY Typing DEF RenameGot, At, Goto
<1>2. p \in Pages /\ q # None /\ id \in Names /\ loc[u].se = EXCL
  BY <1>0, <1>1, Typing DEF Shape, Locals
<1>3. q \in Pages /\ Nameless(q) /\ InUse(q) /\ q # p
  BY <1>0, <1>1, <1>2, SpareFacts
<1>4. Agree(p) /\ p_vnode[p] = id /\ ~p_free[p]
  BY <1>0, <1>1, <1>2, Typing DEF HeldOK
<1>5. p_vnode' = p_vnode /\ hashed' = hashed /\ p_free' = p_free /\ p_age' = p_age /\ list' = list
  BY <1>1 DEF names, free
<1>6. Agree(p)' /\ p_vnode'[p] = id /\ ~p_free'[p] /\ hashed'[p] /\ InUse(p)' /\ id # None
  BY <1>2, <1>4, <1>5, Typing DEF Agree, InUse
<1>7. Nameless(q)' /\ InUse(q)'
  BY <1>3, <1>5 DEF Nameless, InUse
<1>8. Shape(u)' /\ SleepOK(u)'
  BY <1>0, <1>1, <1>2, Typing DEF Shape, SleepOK
<1>9. SpareOK(u)'
  BY <1>0, <1>1, <1>2, <1>7, Typing DEF SpareOK
<1>10. HeldOK(u)'
  BY <1>0, <1>1, <1>6 DEF HeldOK, InUse
<1>11. Holds(u)' = Holds(u) /\ \A r \in Holds(u) : Steady(u, r)
  BY <1>0, <1>1, <1>2 DEF Holds, Spare, Pp, Sleeping, Searching, Steady, Excl
<1>12. PhmStep(u) /\ PhmOK(u)'
  <2>1. CASE pc'[u] = "unloaded" /\ DropPhm(u)
    BY <1>1, <2>1, Typing, PhmDropped DEF MustHold
  <2>2. CASE pc'[u] = "hashout" /\ phm' = phm
    <3>1. MustHold(u)' /\ Hold(u) /\ \A n \in Names : phm[n] = u => n = id
      BY <1>0, <1>1, <1>2, <2>2, Typing DEF PhmOK, MustHold
    <3> QED
      BY <1>0, <1>1, <2>2, <3>1 DEF PhmStep, PhmOK, MayHold, Hold
  <2> QED
    BY <1>1, <2>1, <2>2
<1>13. IoOK(u)'
  BY <1>1, Typing, IoMine
<1> QED
  BY <1>1, <1>8, <1>9, <1>10, <1>11, <1>12, <1>13, MoveGood

(* page_rename() finds the name free. *)
LEMMA RenameMissesGood ==
  ASSUME Inv, NEW u \in Threads, OthersKeep(u), RenameMisses(u)
  PROVE  Good(u)
<1>0. PICK q, id : q = loc[u].npp /\ id = loc[u].id
  OBVIOUS
<1>1. /\ pc[u] = "top" /\ pc'[u] = "hashin" /\ loc[u].op = "rename" /\ loc' = loc /\ phm' = phm
      /\ Matches(u) = {} /\ UNCHANGED <<p_selock, names, free, p_io>>
  BY Typing DEF RenameMisses, At, Goto
<1>2. q # None /\ loc[u].pp = None /\ id \in Names /\ loc[u].se = EXCL
  BY <1>0, <1>1, Typing DEF Shape
<1>3. Nameless(q) /\ InUse(q)
  BY <1>0, <1>1, <1>2, SpareFacts
<1>4. Nameless(q)' /\ InUse(q)'
  BY <1>1, <1>3 DEF names, free, Nameless, InUse
<1>5. Shape(u)' /\ HeldOK(u)' /\ SleepOK(u)'
  BY <1>0, <1>1, <1>2, Typing DEF Shape, HeldOK, SleepOK
<1>6. SpareOK(u)'
  BY <1>0, <1>1, <1>4 DEF SpareOK
<1>7. Holds(u) = {q} /\ Holds(u)' = {q} /\ Steady(u, q)
  BY <1>0, <1>1, <1>2 DEF Holds, Spare, Pp, Steady, Excl
<1>8. PhmStep(u) /\ PhmOK(u)'
  <2>1. Hold(u) /\ \A n \in Names : phm[n] = u => n = id
    BY <1>0, <1>1, Typing DEF PhmOK, MustHold
  <2>2. Matches(u)' = {}
    BY <1>1 DEF Matches, names
  <2> QED
    BY <1>0, <1>1, <2>1, <2>2 DEF PhmStep, PhmOK, MayHold, MustHold, Hold
<1>9. IoOK(u)'
  BY <1>1, Typing, IoMine
<1> QED
  BY <1>1, <1>5, <1>6, <1>7, <1>8, <1>9, MoveGood

(* page_rename() hashes its page in; it does not panic. *)
LEMMA RenameHashinGood ==
  ASSUME Inv, NEW u \in Threads, OthersKeep(u), RenameHashin(u)
  PROVE  Good(u)
<1>0. PICK p, q, id : p = loc[u].pp /\ q = loc[u].npp /\ id = loc[u].id
  OBVIOUS
<1>1. pc[u] = "hashin" /\ p_selock' = p_selock /\ p_free' = p_free /\ p_age' = p_age /\ list' = list /\ p_io' = p_io
  BY DEF RenameHashin, At, free
<1>2. Matches(u) = {}
  BY <1>1, Typing DEF PhmOK
<1>3. Hashin(u, q) /\ DropPhm(u) /\ IF p = None THEN Return(u, q) ELSE Goto(u, "free") /\ loc' = loc
  BY <1>0, <1>2 DEF RenameHashin, Hashin, Pp
<1>4. q \in Pages /\ loc[u].op = "rename" /\ p # q /\ (p # None => p \in Pages)
  BY <1>0, <1>1, Typing DEF Shape, Locals
<1>5. /\ Named(u, q) /\ InUse(q) /\ p_selock[q] = -1 /\ q \in Holds(u) /\ id \in Names /\ loc[u].se = EXCL
      /\ p_vnode'[q] = id /\ hashed'[q]
      /\ \A r \in Pages \ {q} : p_vnode'[r] = p_vnode[r] /\ hashed'[r] = hashed[r]
  BY <1>0, <1>1, <1>2, <1>3, <1>4, HashinFacts
<1>6. InUse(q)' /\ Agree(q)' /\ ~p_free'[q]
  BY <1>1, <1>5, Typing DEF Agree, InUse
<1>7. \A r \in Pages \ {q} : Same(r)
  BY <1>1, <1>5 DEF Same
<1>8. FieldsKeep(u) /\ AgreeStep(u) /\ SleepStep(u) /\ NameStep(u)
  BY <1>1, <1>4, <1>5, <1>7, ExclFrame DEF NameStep
<1>9. CASE p = None
  <2>1. View(u, "run", "none", id, EXCL, q, None)'
    BY <1>0, <1>3, <1>4, <1>5, <1>9, Typing, ReturnFacts DEF View
  <2>2. Shape(u)' /\ SpareOK(u)' /\ HeldOK(u)' /\ SleepOK(u)' /\ Holds(u)' = {q} /\ ~MustHold(u)' /\ pc'[u] = "run"
    BY <1>4, <1>5, <1>6, <2>1, Typing, ReturnsPage
  <2>3. Holds(u) = {q} /\ Steady(u, q)
    BY <1>0, <1>4, <1>5, <1>9, <2>1, Typing DEF View, Holds, Spare, Pp, Steady, Excl
  <2>4. PhmStep(u) /\ PhmOK(u)' /\ IoOK(u)' /\ IoStep(u)
    BY <1>1, <1>3, <2>2, Typing, PhmDropped, IoMine, IoKept
  <2> QED
    BY <1>1, <1>8, <2>2, <2>3, <2>4 DEF Good, OwnSound, LockStep, LocksKept
<1>10. CASE p # None
  <2>1. pc'[u] = "free" /\ loc' = loc
    BY <1>3, <1>10, Typing DEF Goto
  <2>2. Nameless(p) /\ InUse(p)
    BY <1>0, <1>1, <1>10, Typing DEF HeldOK
  <2>3. Agree(p)'
    BY <1>4, <1>7, <1>10, <2>2 DEF Same, Agree, Nameless, InUse
  <2>4. Shape(u)' /\ SleepOK(u)'
    BY <1>0, <1>4, <1>5, <1>10, <2>1, Typing DEF Shape, SleepOK
  <2>5. SpareOK(u)'
    BY <1>0, <1>5, <1>6, <1>10, <2>1 DEF SpareOK
  <2>6. HeldOK(u)'
    BY <1>0, <2>1, <2>3 DEF HeldOK
  <2>7. Holds(u)' = Holds(u) /\ \A r \in Holds(u) : Steady(u, r)
    BY <1>1, <1>5, <2>1 DEF Holds, Spare, Pp, Sleeping, Searching, Steady, Excl
  <2>8. PhmStep(u) /\ PhmOK(u)' /\ IoOK(u)' /\ IoStep(u)
    BY <1>1, <1>3, <1>4, <2>1, Typing, PhmDropped, IoMine, IoKept DEF MustHold
  <2> QED
    BY <1>1, <1>8, <2>4, <2>5, <2>6, <2>7, <2>8 DEF Good, OwnSound, LockStep, LocksKept
<1> QED
  BY <1>9, <1>10

(* Who has or waits for an i/o lock. *)
LEMMA IoFacts ==
  ASSUME Inv, NEW u \in Threads, pc[u] = "io"
  PROVE  /\ loc[u].pp \in Pages /\ loc[u].op \in {"none", "create", "create_excl"} /\ loc[u].npp # loc[u].pp
         /\ loc[u].id \in Names \cup {None} /\ loc[u].se \in {EXCL, SHARED}
         /\ loc[u].npp # None => loc[u].op # "none" /\ loc[u].npp \in Pages /\ Nameless(loc[u].npp) /\ InUse(loc[u].npp)
         /\ Agree(loc[u].pp) /\ ~p_free[loc[u].pp] /\ (loc[u].id # None => p_vnode[loc[u].pp] = loc[u].id)
         /\ Holds(u) = {loc[u].pp} \cup ({loc[u].npp} \ {None})
         /\ loc[u].npp # None => loc[u].se = EXCL
<1>1. /\ loc[u].pp \in Pages /\ loc[u].op \in {"none", "create", "create_excl"} /\ loc[u].npp # loc[u].pp
      /\ loc[u].id \in Names \cup {None} /\ loc[u].se \in {EXCL, SHARED}
  BY Typing DEF Shape, Locals
<1>2. Agree(loc[u].pp) /\ ~p_free[loc[u].pp] /\ (loc[u].id # None => p_vnode[loc[u].pp] = loc[u].id)
  BY <1>1, Typing DEF HeldOK
<1>3. Holds(u) = {loc[u].pp} \cup ({loc[u].npp} \ {None})
  BY <1>1, Typing DEF Holds, Spare, Pp, Sleeping, Searching
<1> QED
  BY <1>1, <1>2, <1>3, SpareFacts

(* page_io_lock() takes the i/o lock. *)
LEMMA IoTakeGood ==
  ASSUME Inv, NEW u \in Threads, OthersKeep(u), IoTake(u)
  PROVE  Good(u)
<1>0. PICK p, q, id, se : p = loc[u].pp /\ q = loc[u].npp /\ id = loc[u].id /\ se = loc[u].se
  OBVIOUS
<1>1. /\ pc[u] = "io" /\ p_io[p] = None /\ p_io' = [p_io EXCEPT ![p] = u] /\ UNCHANGED <<p_selock, names, free>>
      /\ phm' = phm /\ p_selock' = p_selock
      /\ IF q = None THEN Return(u, p) ELSE Goto(u, "putback") /\ loc' = loc
  BY <1>0 DEF IoTake, At, Pp
<1>2. /\ p \in Pages /\ loc[u].op \in {"none", "create", "create_excl"} /\ p # q /\ id \in Names \cup {None}
      /\ se \in {EXCL, SHARED} /\ Agree(p) /\ ~p_free[p] /\ (id # None => p_vnode[p] = id)
      /\ Holds(u) = {p} \cup ({q} \ {None})
      /\ (q # None => loc[u].op # "none" /\ q \in Pages /\ Nameless(q) /\ InUse(q) /\ se = EXCL)
  BY <1>0, <1>1, IoFacts
<1>3. Agree(p)' /\ ~p_free'[p] /\ (id # None => p_vnode'[p] = id) /\ (q # None => Nameless(q)' /\ InUse(q)')
  BY <1>1, <1>2 DEF names, free, Agree, Nameless, InUse
<1>4. p_io'[p] = u /\ \A r \in Pages \ {p} : p_io'[r] = p_io[r] /\ p_io[r] # u
  <2>1. \A r \in Pages : p_io[r] # u
    BY <1>1, Typing DEF IoOK
  <2> QED
    BY <1>1, <1>2, <2>1, Typing
<1>5. pc'[u] \in {"run", "putback"} /\ loc'[u].pp = p
  BY <1>0, <1>1, Typing, ReturnFacts DEF Goto
<1>6. IoOK(u)'
  BY <1>4, <1>5 DEF IoOK, Pp
<1>7. IoStep(u)
  <2>1. ASSUME NEW r \in Pages \ {p}, IoWaiters(r)' # {}, p_io'[r] = None
        PROVE  \E t \in Threads : At(t, "io")' /\ Pp(t)' = r
    <3>1. PICK t \in Threads : pc'[t] = "io_asleep" /\ loc'[t].pp = r
      BY <2>1 DEF IoWaiters, At, Pp
    <3>2. pc[t] = "io_asleep" /\ loc[t].pp = r
      BY <1>5, <3>1 DEF OthersKeep
    <3>3. PICK v \in Threads : pc[v] = "io" /\ loc[v].pp = r
      BY <1>4, <2>1, <3>2 DEF Inv, IoWaited, IoWaiters, At, Pp
    <3>4. v # u /\ pc'[v] = "io" /\ loc'[v].pp = r
      BY <1>0, <3>3 DEF OthersKeep
    <3> QED
      BY <3>4 DEF At, Pp
  <2>2. p_io'[p] # None /\ \A t \in Threads \ {u} : p_io'[p] # t
    BY <1>4, Typing
  <2> QED
    BY <1>4, <2>1, <2>2 DEF IoStep, IoWaited
<1>8. FieldsKeep(u) /\ AgreeStep(u) /\ NameStep(u) /\ SleepStep(u)
  BY <1>1, MoveFrame
<1>9. CASE q = None
  <2>1. View(u, "run", "none", id, se, p, None)'
    BY <1>0, <1>1, <1>2, <1>9, Typing, ReturnFacts DEF View
  <2>2. Shape(u)' /\ SpareOK(u)' /\ HeldOK(u)' /\ SleepOK(u)' /\ Holds(u)' = {p} /\ ~MustHold(u)'
    BY <1>2, <1>3, <2>1, Typing, ReturnsPage
  <2>3. Steady(u, p)
    BY <1>0, <1>1, <2>1 DEF View, Steady, Excl
  <2>4. PhmStep(u) /\ PhmOK(u)'
    BY <1>1, <2>2, Typing, PhmQuiet DEF MayHold, MustHold
  <2> QED
    BY <1>1, <1>2, <1>6, <1>7, <1>8, <1>9, <2>2, <2>3, <2>4 DEF Good, OwnSound, LockStep, LocksKept
<1>10. CASE q # None
  <2>1. pc'[u] = "putback" /\ loc' = loc
    BY <1>1, <1>10, Typing DEF Goto
  <2>2. Shape(u)' /\ SleepOK(u)'
    BY <1>0, <1>2, <1>10, <2>1, Typing DEF Shape, SleepOK
  <2>3. SpareOK(u)'
    BY <1>0, <1>3, <2>1 DEF SpareOK
  <2>4. HeldOK(u)'
    BY <1>0, <1>3, <2>1 DEF HeldOK
  <2>5. Holds(u)' = Holds(u) /\ \A r \in Holds(u) : Steady(u, r)
    BY <1>0, <1>1, <1>2, <1>10, <2>1 DEF Holds, Spare, Pp, Sleeping, Searching, Steady, Excl
  <2>6. PhmStep(u) /\ PhmOK(u)'
    BY <1>1, <1>2, <1>10, <2>1, Typing, PhmQuiet DEF MayHold, MustHold
  <2> QED
    BY <1>1, <1>6, <1>7, <1>8, <2>2, <2>3, <2>4, <2>5, <2>6 DEF Good, OwnSound, LockStep, LocksKept
<1> QED
  BY <1>9, <1>10

(* page_io_lock() sleeps on p_io_cv. *)
LEMMA IoWaitGood ==
  ASSUME Inv, NEW u \in Threads, OthersKeep(u), IoWait(u)
  PROVE  Good(u)
<1>0. PICK p, q, id, se : p = loc[u].pp /\ q = loc[u].npp /\ id = loc[u].id /\ se = loc[u].se
  OBVIOUS
<1>1. /\ pc[u] = "io" /\ pc'[u] = "io_asleep" /\ p_io[p] # None /\ UNCHANGED <<p_selock, names, free>>
      /\ phm' = phm /\ p_selock' = p_selock /\ loc' = loc /\ p_io' = p_io
  BY <1>0, Typing DEF IoWait, At, Goto, Pp
<1>2. /\ p \in Pages /\ loc[u].op \in {"none", "create", "create_excl"} /\ p # q /\ id \in Names \cup {None}
      /\ se \in {EXCL, SHARED} /\ Agree(p) /\ ~p_free[p] /\ (id # None => p_vnode[p] = id)
      /\ (q # None => loc[u].op # "none" /\ q \in Pages /\ Nameless(q) /\ InUse(q) /\ se = EXCL)
  BY <1>0, <1>1, IoFacts
<1>3. Agree(p)' /\ ~p_free'[p] /\ (id # None => p_vnode'[p] = id) /\ (q # None => Nameless(q)' /\ InUse(q)')
  BY <1>1, <1>2 DEF names, free, Agree, Nameless, InUse
<1>4. IoStep(u)
  <2>1. ASSUME NEW r \in Pages \ {p}, IoWaiters(r)' # {}, p_io'[r] = None
        PROVE  \E t \in Threads : At(t, "io")' /\ Pp(t)' = r
    <3>1. PICK t \in Threads : pc'[t] = "io_asleep" /\ loc'[t].pp = r
      BY <2>1 DEF IoWaiters, At, Pp
    <3>2. t # u /\ pc[t] = "io_asleep" /\ loc[t].pp = r
      BY <1>0, <1>1, <3>1 DEF OthersKeep
    <3>3. PICK v \in Threads : pc[v] = "io" /\ loc[v].pp = r
      BY <1>1, <2>1, <3>2 DEF Inv, IoWaited, IoWaiters, At, Pp
    <3>4. v # u /\ pc'[v] = "io" /\ loc'[v].pp = r
      BY <1>0, <3>3 DEF OthersKeep
    <3> QED
      BY <3>4 DEF At, Pp
  <2> QED
    BY <1>1, <2>1 DEF IoStep, IoWaited
<1>5. Shape(u)' /\ SleepOK(u)'
  BY <1>0, <1>1, <1>2, Typing DEF Shape, SleepOK
<1>6. SpareOK(u)'
  BY <1>0, <1>1, <1>3 DEF SpareOK
<1>7. HeldOK(u)'
  BY <1>0, <1>1, <1>3 DEF HeldOK
<1>8. Holds(u)' = Holds(u) /\ \A r \in Holds(u) : Steady(u, r)
  BY <1>0, <1>1, <1>2, IoFacts DEF Holds, Spare, Pp, Sleeping, Searching, Steady, Excl
<1>9. PhmStep(u) /\ PhmOK(u)' /\ IoOK(u)'
  BY <1>1, <1>2, Typing, PhmQuiet, IoMine DEF MayHold, MustHold
<1> QED
  BY <1>1, <1>4, <1>5, <1>6, <1>7, <1>8, <1>9, MoveFrame DEF Good, OwnSound, LockStep, LocksKept

-----------------------------------------------------------------------
(* The types, for the lock words see LocksNext. *)
LEMMA PcType ==
  ASSUME TypeOK, NEW u \in Threads, Call(u) \/ Step(u)
  PROVE  pc' \in [Threads -> PCs]
<1>0. pc \in [Threads -> PCs]
  BY DEF TypeOK
<1>1. ASSUME NEW l \in PCs, Goto(u, l) PROVE pc' \in [Threads -> PCs]
  BY <1>0, <1>1 DEF Goto
<1>2. ASSUME NEW s \in [Threads -> PCs], NEW p PROVE Broadcast(s, p) \in [Threads -> PCs]
  BY <1>2 DEF Broadcast, PCs
<1>3. ASSUME NEW l \in PCs, NEW p, PageUnlock(u, p, l) PROVE pc' \in [Threads -> PCs]
  <2>1. [pc EXCEPT ![u] = l] \in [Threads -> PCs]
    BY <1>0
  <2> QED
    BY <1>2, <1>3, <2>1 DEF PageUnlock
<1>4. "run" \in PCs /\ "search" \in PCs /\ "try" \in PCs /\ "confirm" \in PCs /\ "phm" \in PCs /\ "top" \in PCs
      /\ "got" \in PCs /\ "reclaim" \in PCs /\ "downgrade" \in PCs /\ "asleep" \in PCs /\ "isfree" \in PCs
      /\ "nwtry" \in PCs /\ "nwgot" \in PCs /\ "hashout" \in PCs /\ "noname" \in PCs /\ "unloaded" \in PCs
      /\ "hashin" \in PCs /\ "getpage" \in PCs /\ "own" \in PCs /\ "putback" \in PCs /\ "free" \in PCs
      /\ "kept" \in PCs /\ "relist" \in PCs /\ "io" \in PCs /\ "io_asleep" \in PCs /\ "panic" \in PCs
  BY DEF PCs
<1>5. ASSUME Call(u) PROVE pc' \in [Threads -> PCs]
  <2>1. ASSUME NEW op, NEW id, NEW se, Lookup(u, op, id, se) PROVE pc' \in [Threads -> PCs]
    BY <1>1, <1>4, <2>1 DEF Lookup
  <2>2. ASSUME NEW p, NEW se, VplistDirty(u, p, se) PROVE pc' \in [Threads -> PCs]
    BY <1>1, <1>4, <2>2 DEF VplistDirty
  <2>3. ASSUME NEW op, NEW id, Create(u, op, id) PROVE pc' \in [Threads -> PCs]
    BY <1>1, <1>4, <2>3 DEF Create
  <2>4. ASSUME NEW id, Rename(u, id) PROVE pc' \in [Threads -> PCs]
    BY <1>1, <1>4, <2>4 DEF Rename, RenameFirst
  <2>5. ASSUME NEW op, Free(u) \/ Destroy(u, op) \/ IoLock(u) PROVE pc' \in [Threads -> PCs]
    BY <1>1, <1>4, <2>5 DEF Free, Destroy, IoLock
  <2>6. CASE Unlock(u)
    BY <1>3, <1>4, <2>6 DEF Unlock
  <2>7. CASE PageDowngrade(u)
    BY <1>0, <1>2, <2>7 DEF PageDowngrade, DowngradeWakes
  <2>8. CASE TryUpgrade(u) \/ IoTrylock(u)
    BY <1>0, <2>8 DEF TryUpgrade, IoTrylock
  <2>9. CASE IoUnlock(u)
    BY <1>0, <1>4, <2>9 DEF IoUnlock, IoSignal, IoWaiters, Goto
  <2> QED
    BY <1>5, <2>1, <2>2, <2>3, <2>4, <2>5, <2>6, <2>7, <2>8, <2>9 DEF Call
<1>6. ASSUME Step(u) PROVE pc' \in [Threads -> PCs]
  <2>1. CASE Woken(u) \/ PageReclaim(u) \/ Search(u) \/ TryLock(u) \/ EnterPhm(u)
    BY <1>1, <1>4, <2>1 DEF Woken, PageReclaim, Search, TryLock, EnterPhm, Return
  <2>2. CASE ReclaimFails(u) \/ PageFree(u) \/ Relist(u) \/ PutBack(u)
    BY <1>3, <1>4, <2>2 DEF ReclaimFails, PageFree, Relist, PutBack
  <2>3. CASE Downgrade(u)
    <3>1. [pc EXCEPT ![u] = "got"] \in [Threads -> PCs]
      BY <1>0, <1>4
    <3> QED
      BY <1>2, <2>3, <3>1 DEF Downgrade, DowngradeWakes
  <2>4. CASE Confirm(u) \/ NowaitGot(u) \/ VplistGot(u)
    BY <1>1, <1>3, <1>4, <2>4 DEF Confirm, NowaitGot, VplistGot, Return
  <2>5. CASE TopMisses(u) \/ TopFinds(u) \/ Got(u) \/ TopFindsNowait(u) \/ NowaitIsFree(u) \/ NowaitTry(u)
    BY <1>1, <1>4, <2>5 DEF TopMisses, TopFinds, PageLock, Got, TopFindsNowait, NowaitIsFree, NowaitTry, Return
  <2>6. CASE Hashout(u) \/ GetPage(u) \/ Own(u) \/ CreateNew(u) \/ CreateExists(u) \/ CreateGot(u)
    BY <1>1, <1>4, <2>6 DEF Hashout, GetPage, Own, CreateNew, CreateExists, CreateGot
  <2>7. CASE HashoutName(u)
    <3>1. HashoutNext(u) \in PCs
      BY <1>4 DEF HashoutNext
    <3>2. [pc EXCEPT ![u] = HashoutNext(u)] \in [Threads -> PCs]
      BY <1>0, <3>1
    <3> QED
      BY <1>2, <2>7, <3>2 DEF HashoutName, HashoutWakes
  <2>8. CASE Kept(u) \/ RenameGot(u) \/ RenameMisses(u) \/ RenameHashin(u) \/ IoTake(u) \/ IoWait(u)
    BY <1>1, <1>4, <2>8 DEF Kept, RenameGot, RenameMisses, RenameHashin, IoTake, IoWait, Return
  <2> QED
    BY <1>6, <2>1, <2>2, <2>3, <2>4, <2>5, <2>6, <2>7, <2>8 DEF Step
<1> QED
  BY <1>5, <1>6

(* The local variables keep their types. *)
LEMMA LocType ==
  ASSUME TypeOK, NEW u \in Threads, Call(u) \/ Step(u)
  PROVE  loc' \in [Threads -> Locals]
<1>0. loc \in [Threads -> Locals] /\ loc[u] \in Locals
  BY DEF TypeOK
<1>1. ASSUME NEW r \in Locals, Set(u, r) PROVE loc' \in [Threads -> Locals]
  BY <1>0, <1>1 DEF Set
<1>2. /\ Idle \in Locals
      /\ \A p \in Pages \cup {None} : [loc[u] EXCEPT !.pp = p] \in Locals /\ [loc[u] EXCEPT !.npp = p] \in Locals
      /\ [loc[u] EXCEPT !.se = EXCL] \in Locals /\ [loc[u] EXCEPT !.se = SHARED] \in Locals
      /\ [loc[u] EXCEPT !.op = "destroy_free"] \in Locals
      /\ [loc[u] EXCEPT !.pp = loc[u].npp, !.npp = None] \in Locals
      /\ loc[u].pp \in Pages \cup {None} /\ loc[u].npp \in Pages \cup {None}
  BY <1>0 DEF Idle, Locals
<1>3. ASSUME NEW p \in Pages \cup {None} PROVE Back(u, p) \in Locals
  <2>1. CASE p = None
    BY <2>1 DEF Back, Idle, Locals
  <2>2. CASE p # None
    BY <1>0, <2>2 DEF Back, Idle, Locals
  <2> QED
    BY <2>1, <2>2
<1>4. ASSUME NEW p \in Pages \cup {None}, Return(u, p) PROVE loc' \in [Threads -> Locals]
  BY <1>1, <1>3, <1>4 DEF Return
<1>5. ASSUME Call(u) PROVE loc' \in [Threads -> Locals]
  <2>1. ASSUME NEW op \in {"lookup", "nowait"}, NEW id \in Names, NEW se \in {EXCL, SHARED}, Lookup(u, op, id, se)
        PROVE  loc' \in [Threads -> Locals]
    <3>1. [Idle EXCEPT !.op = op, !.id = id, !.se = se] \in Locals
      BY DEF Idle, Locals
    <3> QED
      BY <1>1, <2>1, <3>1 DEF Lookup
  <2>2. ASSUME NEW p \in Pages, NEW se \in {EXCL, SHARED}, VplistDirty(u, p, se) PROVE loc' \in [Threads -> Locals]
    <3>1. [Idle EXCEPT !.op = "vplist", !.se = se, !.pp = p] \in Locals
      BY DEF Idle, Locals
    <3> QED
      BY <1>1, <2>2, <3>1 DEF VplistDirty
  <2>3. ASSUME NEW op \in {"create", "create_excl"}, NEW id \in Names, Create(u, op, id)
        PROVE  loc' \in [Threads -> Locals]
    <3>1. [Idle EXCEPT !.op = op, !.id = id] \in Locals
      BY DEF Idle, Locals
    <3> QED
      BY <1>1, <2>3, <3>1 DEF Create
  <2>4. ASSUME NEW id \in Names, Rename(u, id) PROVE loc' \in [Threads -> Locals]
    <3>1. [Idle EXCEPT !.op = "rename", !.id = id, !.npp = Pp(u)] \in Locals
      BY <1>2 DEF Idle, Locals, Pp
    <3> QED
      BY <1>1, <2>4, <3>1 DEF Rename
  <2>5. ASSUME NEW op \in {"destroy", "dontfree"}, Free(u) \/ Destroy(u, op) PROVE loc' \in [Threads -> Locals]
    <3>1. Pp(u) \in Pages \cup {None}
      BY <1>2 DEF Pp
    <3>2. [Idle EXCEPT !.op = "free", !.pp = Pp(u)] \in Locals
      BY <3>1 DEF Idle, Locals
    <3>3. [Idle EXCEPT !.op = op, !.pp = Pp(u)] \in Locals
      <4>1. CASE op = "destroy"
        BY <3>1, <4>1 DEF Idle, Locals
      <4>2. CASE op = "dontfree"
        BY <3>1, <4>2 DEF Idle, Locals
      <4> QED
        BY <4>1, <4>2
    <3> QED
      BY <1>1, <2>5, <3>2, <3>3 DEF Free, Destroy
  <2>6. CASE Unlock(u) \/ PageDowngrade(u) \/ TryUpgrade(u)
    BY <1>1, <1>2, <2>6 DEF Unlock, PageDowngrade, TryUpgrade
  <2>7. CASE IoLock(u) \/ IoTrylock(u) \/ IoUnlock(u)
    BY <1>0, <2>7 DEF IoLock, IoTrylock, IoUnlock
  <2> QED
    BY <1>5, <2>1, <2>2, <2>3, <2>4, <2>5, <2>6, <2>7 DEF Call
<1>6. ASSUME Step(u) PROVE loc' \in [Threads -> Locals]
  <2>1. CASE PageReclaim(u) \/ Downgrade(u) \/ EnterPhm(u) \/ Hashout(u) \/ HashoutName(u) \/ Own(u)
    BY <1>0, <2>1 DEF PageReclaim, Downgrade, EnterPhm, Hashout, HashoutName, Own
  <2>2. CASE CreateExists(u) \/ CreateGot(u) \/ RenameGot(u) \/ RenameMisses(u) \/ IoWait(u)
    BY <1>0, <2>2 DEF CreateExists, CreateGot, RenameGot, RenameMisses, IoWait
  <2>3. CASE Woken(u) \/ ReclaimFails(u) \/ Search(u) \/ TryLock(u) \/ TopMisses(u)
    BY <1>0, <1>1, <1>2, <1>4, <2>3 DEF Woken, ReclaimFails, Search, TryLock, TopMisses
  <2>4. CASE Confirm(u) \/ Got(u) \/ NowaitIsFree(u) \/ NowaitTry(u) \/ NowaitGot(u)
    BY <1>0, <1>1, <1>2, <1>4, <2>4 DEF Confirm, Got, NowaitIsFree, NowaitTry, NowaitGot, Pp
  <2>5. CASE TopFinds(u) \/ TopFindsNowait(u)
    BY <1>1, <1>2, <2>5 DEF TopFinds, PageLock, TopFindsNowait, Matches
  <2>6. CASE VplistGot(u)
    BY <1>1, <1>2, <1>4, <2>6 DEF VplistGot, Pp
  <2>7. CASE PageFree(u) \/ Relist(u) \/ PutBack(u)
    BY <1>1, <1>2, <1>3, <2>7 DEF PageFree, Relist, PutBack, Pp
  <2>8. CASE GetPage(u) \/ CreateNew(u)
    BY <1>1, <1>2, <2>8 DEF GetPage, CreateNew
  <2>9. CASE Kept(u) \/ RenameHashin(u) \/ IoTake(u)
    BY <1>0, <1>2, <1>4, <2>9 DEF Kept, RenameHashin, IoTake, Pp
  <2> QED
    BY <1>6, <2>1, <2>2, <2>3, <2>4, <2>5, <2>6, <2>7, <2>8, <2>9 DEF Step
<1> QED
  BY <1>5, <1>6

(* The fields of the pages and the mutexes. *)
FieldTypes ==
  /\ p_vnode \in [Pages -> Names \cup {None}]
  /\ p_free \in [Pages -> BOOLEAN] /\ p_age \in [Pages -> BOOLEAN] /\ hashed \in [Pages -> BOOLEAN]
  /\ list \in [Pages -> {"free", "cache", "none"}]
  /\ p_io \in [Pages -> Threads \cup {None}] /\ phm \in [Names -> Threads \cup {None}]

(* The fields of the pages keep their types. *)
LEMMA FieldType ==
  ASSUME TypeOK, NEW u \in Threads, Call(u) \/ Step(u)
  PROVE  FieldTypes'
<1>0. FieldTypes /\ loc[u].id \in Names \cup {None}
  BY DEF FieldTypes, TypeOK, Locals
<1>1. ASSUME DropPhm(u) \/ phm' = phm PROVE phm' \in [Names -> Threads \cup {None}]
  BY <1>0, <1>1 DEF DropPhm, FieldTypes
<1>2. ASSUME UNCHANGED names PROVE p_vnode' = p_vnode /\ hashed' = hashed
  BY <1>2 DEF names
<1>3. ASSUME UNCHANGED free PROVE p_free' = p_free /\ p_age' = p_age /\ list' = list
  BY <1>3 DEF free
<1>4. ASSUME UNCHANGED <<names, free, p_io>>, DropPhm(u) \/ phm' = phm PROVE FieldTypes'
  BY <1>0, <1>1, <1>2, <1>3, <1>4 DEF FieldTypes
<1>5. ASSUME NEW p, NEW a \in BOOLEAN, SetFree(p, a), UNCHANGED <<names, p_io>>, phm' = phm PROVE FieldTypes'
  BY <1>0, <1>2, <1>5 DEF FieldTypes, SetFree
<1>6. CASE Call(u)
  <2>1. ASSUME NEW op, NEW id, NEW se, Lookup(u, op, id, se) PROVE FieldTypes'
    BY <1>4, <2>1 DEF Lookup
  <2>2. ASSUME NEW p, NEW se, VplistDirty(u, p, se) PROVE FieldTypes'
    BY <1>4, <2>2 DEF VplistDirty
  <2>3. ASSUME NEW op, NEW id, Create(u, op, id) PROVE FieldTypes'
    BY <1>4, <2>3 DEF Create
  <2>4. ASSUME NEW id, Rename(u, id) PROVE FieldTypes'
    BY <1>4, <2>4 DEF Rename
  <2>5. ASSUME NEW op, Free(u) \/ Destroy(u, op) \/ Unlock(u) \/ PageDowngrade(u) \/ TryUpgrade(u) \/ IoLock(u)
        PROVE  FieldTypes'
    BY <1>4, <2>5 DEF Free, Destroy, Unlock, PageDowngrade, TryUpgrade, IoLock
  <2>6. CASE IoTrylock(u) \/ IoUnlock(u)
    BY <1>0, <1>2, <1>3, <2>6 DEF IoTrylock, IoUnlock, FieldTypes
  <2> QED
    BY <1>6, <2>1, <2>2, <2>3, <2>4, <2>5, <2>6 DEF Call
<1>7. CASE Step(u)
  <2>1. CASE Woken(u) \/ ReclaimFails(u) \/ Downgrade(u) \/ Search(u) \/ TryLock(u) \/ Confirm(u)
    BY <1>4, <2>1 DEF Woken, ReclaimFails, Downgrade, Search, TryLock, Confirm
  <2>2. CASE TopMisses(u) \/ TopFinds(u) \/ Got(u) \/ TopFindsNowait(u) \/ NowaitIsFree(u) \/ NowaitTry(u)
    BY <1>4, <2>2 DEF TopMisses, TopFinds, PageLock, Got, TopFindsNowait, NowaitIsFree, NowaitTry
  <2>3. CASE NowaitGot(u) \/ Kept(u) \/ CreateExists(u) \/ RenameGot(u) \/ RenameMisses(u) \/ IoWait(u)
    BY <1>4, <2>3 DEF NowaitGot, Kept, CreateExists, RenameGot, RenameMisses, IoWait
  <2>4. CASE PageReclaim(u) \/ Own(u)
    BY <1>0, <1>2, <2>4 DEF PageReclaim, Own, FieldTypes
  <2>5. CASE EnterPhm(u) \/ IoTake(u)
    BY <1>0, <1>2, <1>3, <2>5 DEF EnterPhm, IoTake, FieldTypes
  <2>6. CASE VplistGot(u) \/ GetPage(u)
    BY <1>0, <1>2, <2>6 DEF VplistGot, GetPage, FieldTypes
  <2>7. CASE Hashout(u) \/ HashoutName(u)
    BY <1>0, <1>3, <2>7 DEF Hashout, HashoutName, FieldTypes
  <2>8. CASE PageFree(u) \/ Relist(u) \/ PutBack(u)
    BY <1>5, <2>8 DEF PageFree, Relist, PutBack
  <2>9. CASE CreateNew(u) \/ RenameHashin(u)
    BY <1>0, <1>1, <1>2, <1>3, <2>9 DEF CreateNew, RenameHashin, Hashin, FieldTypes
  <2>10. CASE CreateGot(u)
    BY <1>0, <1>1, <1>2, <2>10 DEF CreateGot, FieldTypes
  <2> QED
    BY <1>7, <2>1, <2>2, <2>3, <2>4, <2>5, <2>6, <2>7, <2>8, <2>9, <2>10 DEF Step
<1> QED
  BY <1>6, <1>7

-----------------------------------------------------------------------
(* At the start every page is free, unlocked and without a name. *)
LEMMA InvInit == Init => Inv
<1> SUFFICES ASSUME Init PROVE Inv
  OBVIOUS
<1>0. None \notin Names /\ None \notin Pages /\ None \notin Threads /\ IsFiniteSet(Threads)
  BY PageAssumption
<1>1. \A t \in Threads : pc[t] = "run" /\ loc[t] = Idle
  BY DEF Init
<1>2. \A t \in Threads : loc[t].op = "none" /\ loc[t].id = None /\ loc[t].se = EXCL /\ loc[t].pp = None /\ loc[t].npp = None
  BY <1>1 DEF Idle
<1>3. TypeOK
  <2>1. Idle \in Locals /\ "run" \in PCs
    BY DEF Idle, Locals, PCs
  <2> QED
    BY <2>1 DEF Init, TypeOK
<1>4. ThreadsSound
  BY <1>0, <1>1, <1>2 DEF ThreadsSound, Shape, SpareOK, HeldOK
<1>5. ASSUME NEW t \in Threads PROVE OwnSound(t)
  <2>1. \A n \in Names : phm[n] # t
    BY <1>0 DEF Init
  <2>2. \A p \in Pages : p_io[p] # t
    BY <1>0 DEF Init
  <2> QED
    BY <1>1, <1>2, <2>1, <2>2 DEF OwnSound, PhmOK, IoOK, SleepOK, MustHold, Hold
<1>6. ASSUME NEW p \in Pages PROVE LockSound(p) /\ IoWaited(p)
  <2>1. Holders(p) = {}
    BY <1>0, <1>2 DEF Holders, Holds, Spare, Pp
  <2>2. Cardinality(Holders(p)) = 0 /\ p_selock[p] = 0
    BY <2>1, FS_EmptySet DEF Init
  <2>3. IoWaiters(p) = {}
    BY <1>1 DEF IoWaiters, At
  <2> QED
    BY <2>1, <2>2, <2>3 DEF LockSound, IoWaited
<1>7. FieldsSound
  BY DEF Init, FieldsSound, Agree
<1> QED
  BY <1>3, <1>4, <1>5, <1>6, <1>7 DEF Inv

(* Every step of every call meets its guarantee. *)
LEMMA StepGood ==
  ASSUME Inv, NEW u \in Threads, Call(u) \/ Step(u), OthersKeep(u)
  PROVE  Good(u)
<1>1. CASE Call(u)
  BY <1>1, LookupGood, VplistDirtyGood, CreateGood, RenameGood, FreeGood, DestroyGood, UnlockGood,
     PageDowngradeGood, TryUpgradeGood, IoLockGood, IoTrylockGood, IoUnlockGood DEF Call
<1>2. CASE Step(u)
  BY <1>2, WokenGood, PageReclaimGood, ReclaimFailsGood, DowngradeGood, SearchGood, TryLockGood, ConfirmGood,
     EnterPhmGood, TopMissesGood, TopFindsGood, GotGood, TopFindsNowaitGood, NowaitIsFreeGood, NowaitTryGood,
     NowaitGotGood, VplistGotGood, HashoutGood, HashoutNameGood, PageFreeGood, KeptGood, RelistGood, GetPageGood, OwnGood,
     CreateNewGood, CreateExistsGood, CreateGotGood, PutBackGood, RenameGotGood, RenameMissesGood,
     RenameHashinGood, IoTakeGood, IoWaitGood DEF Step
<1> QED
  BY <1>1, <1>2

(* So every step keeps the invariant. *)
LEMMA InvNext == Inv /\ [Next]_vars => Inv'
<1> SUFFICES ASSUME Inv, [Next]_vars PROVE Inv'
  OBVIOUS
<1>1. CASE Next
  <2>1. PICK u \in Threads : Call(u) \/ Step(u)
    BY <1>1 DEF Next
  <2>2. TypeOK /\ ThreadsSound /\ \A p \in Pages : LockSound(p)
    BY DEF Inv
  <2>3. OthersKeep(u)
    BY <2>1, <2>2, OthersStep
  <2>4. Good(u)
    BY <2>1, <2>3, StepGood
  <2>5. p_selock' \in [Pages -> Nat \cup {-1}]
    BY <2>2, <2>3, <2>4, LocksNext DEF Good
  <2>6. TypeOK'
    BY <2>1, <2>2, <2>5, PcType, LocType, FieldType DEF TypeOK, FieldTypes
  <2> QED
    BY <2>3, <2>4, <2>6, GoodNext
<1>2. CASE UNCHANGED vars
  <2>1. UNCHANGED <<p_selock, p_vnode, hashed, p_free, p_age, list, p_io, phm, pc, loc>>
    BY <1>2 DEF vars, names, free
  <2>2. TypeOK'
    BY <2>1 DEF Inv, TypeOK
  <2>3. ThreadsSound'
    BY <2>1 DEF Inv, ThreadsSound, Shape, SpareOK, HeldOK, Agree, InUse, Nameless
  <2>4. \A t \in Threads : OwnSound(t)'
    BY <2>1 DEF Inv, OwnSound, PhmOK, IoOK, SleepOK, MayHold, MustHold, Hold, Matches, Pp
  <2>5. \A p \in Pages : LockSound(p)' /\ IoWaited(p)'
    <3>1. \A p : Holders(p)' = Holders(p) /\ IoWaiters(p)' = IoWaiters(p)
      BY <2>1 DEF Holders, Holds, Spare, Sleeping, Searching, IoWaiters, At, Pp
    <3> QED
      BY <2>1, <3>1 DEF Inv, LockSound, Excl, IoWaited, At, Pp
  <2>6. FieldsSound'
    BY <2>1 DEF Inv, FieldsSound, Agree
  <2> QED
    BY <2>2, <2>3, <2>4, <2>5, <2>6 DEF Inv
<1> QED
  BY <1>1, <1>2

(* The inductive invariant holds in every reachable state. *)
THEOREM PageInv == Spec => []Inv
BY InvInit, InvNext, PTL DEF Spec

(* page_lock.c: the lock word is what its holders think, and what a call   *)
(* returned is in use, locked and has the name it was asked for.           *)
THEOREM PageLocksSound == Spec => []LocksSound
<1>1. Inv => LocksSound
  <2> SUFFICES ASSUME Inv PROVE LocksSound
    OBVIOUS
  <2>1. ASSUME NEW p \in Pages
        PROVE  /\ p_selock[p] = -1 => Cardinality(Holders(p)) = 1
               /\ p_selock[p] # -1 => p_selock[p] = Cardinality(Holders(p))
               /\ \A t \in Holders(p) : (At(t, "run") /\ Pp(t) = p) =>
                    /\ loc[t].se = EXCL <=> p_selock[p] = -1
                    /\ ~p_free[p] /\ list[p] = "none"
                    /\ loc[t].id # None => p_vnode[p] = loc[t].id
               /\ p_io[p] # None => p_io[p] \in Holders(p)
    <3>1. LockSound(p)
      BY DEF Inv
    <3>2. ASSUME NEW t \in Threads, pc[t] = "run", loc[t].pp = p
          PROVE  /\ loc[t].se = EXCL <=> p_selock[p] = -1
                 /\ ~p_free[p] /\ list[p] = "none"
                 /\ loc[t].id # None => p_vnode[p] = loc[t].id
      <4>1. loc[t].pp # None
        BY <3>2, PageAssumption
      <4> QED
        BY <3>2, <4>1, HeldByCaller DEF InUse
    <3>3. ASSUME p_io[p] # None PROVE p_io[p] \in Holders(p)
      <4>1. PICK t \in Threads : p_io[p] = t
        BY <3>3 DEF Inv, TypeOK
      <4>2. pc[t] \in {"run", "putback"} /\ loc[t].pp = p
        BY <4>1, Typing DEF IoOK, Pp
      <4> QED
        BY <4>1, <4>2, PageAssumption DEF Holders, Holds, Pp, Sleeping, Searching
    <3> QED
      BY <3>1, <3>2, <3>3 DEF LockSound, Holders, At, Pp
  <2> QED
    BY <2>1 DEF Inv, LocksSound, Holders
<1> QED
  BY <1>1, PageInv, PTL

(* vm_page.c: one page on the hash chains for each name, fields that agree *)
(* when nobody has the page exclusively, and no panic in page_lookup(),    *)
(* page_hashout() or page_rename().                                        *)
THEOREM PageNamesSound == Spec => []NamesSound
<1>1. Inv => NamesSound
  BY DEF Inv, FieldsSound, Agree, ThreadsSound, Shape, NamesSound, At
<1> QED
  BY <1>1, PageInv, PTL

(* page_unlock() and page_io_unlock(): who sleeps will be woken. *)
THEOREM PageWaitersNotLost == Spec => []WaitersNotLost
<1>1. Inv => WaitersNotLost
  BY DEF Inv, OwnSound, SleepOK, IoWaited, WaitersNotLost, At
<1> QED
  BY <1>1, PageInv, PTL

(* page_hashout(): who sleeps for the page of a name is woken when the     *)
(* page loses it.                                                          *)
THEOREM PageWaitsForItsName == Spec => []WaitsForItsName
<1>1. Inv => WaitsForItsName
  BY DEF Inv, OwnSound, SleepOK, WaitsForItsName, At
<1> QED
  BY <1>1, PageInv, PTL

(* page_rename(): no two callers sleep for each other's page. *)
THEOREM PageNoWaitCycle == Spec => []NoWaitCycle
<1>1. Inv => NoWaitCycle
  <2> SUFFICES ASSUME Inv, NEW t \in Threads, NEW u \in Threads, pc[t] = "asleep", pc[u] = "asleep",
                      loc[t].pp \in Holds(u), loc[u].pp \in Holds(t)
               PROVE  FALSE
    BY DEF NoWaitCycle, At, Pp
  <2>1. loc[t].npp # None /\ loc[u].npp # None /\ loc[t].pp = loc[u].npp
    BY DEF Holds, Spare, Sleeping
  <2>2. p_vnode[loc[t].pp] = None
    BY <2>1, SpareFacts DEF Nameless
  <2>3. loc[t].id \in Names
    BY <2>1, Typing DEF Shape
  <2>4. p_vnode[loc[t].pp] = loc[t].id
    BY <2>3, Typing DEF SleepOK, Pp
  <2> QED
    BY <2>2, <2>3, <2>4, PageAssumption
<1> QED
  BY <1>1, PageInv, PTL

=======================================================================
