------------------------------ MODULE Page ------------------------------
(***************************************************************************)
(* Pages, their locks and their names: common/vm/page_lock.c, the half of  *)
(* common/vm/vm_page.c that finds, creates, renames, frees and destroys    *)
(* pages, and pvn_vplist_dirty() of vm_pvn.c.                              *)
(*                                                                         *)
(* A name is a [vnode, offset].  A page is found by its name through the   *)
(* hash table, without the hash mutex at first and with it on a second     *)
(* try; or by the vnode's list.  A caller holds at most one page between   *)
(* two calls and waits for no other page while it does, as the order of    *)
(* the callers' locks demands.                                             *)
(*                                                                         *)
(* What is done under pse_mutex is one step.  What is done under a hash    *)
(* mutex is one step as far as only the hash chain matters to it, and so   *)
(* is what is done to a page that is locked exclusively, with the unlock.  *)
(***************************************************************************)
EXTENDS Integers, FiniteSets

CONSTANTS Threads, Pages, Names, None

ASSUME PageAssumption ==
  IsFiniteSet(Threads) /\ IsFiniteSet(Pages) /\ None \notin Threads \cup Pages \cup Names

VARIABLES
  p_selock, p_vnode, p_free, p_age,  \* fields of the pages
  hashed,       \* page -> is it on the chain of its name
  list,         \* page -> the list it is on
  p_io,         \* page -> who has its i/o lock
  phm,          \* name -> who has the mutex of its chain
  pc,           \* thread -> where it is
  loc           \* thread -> its local variables

names == <<p_vnode, hashed>>
free == <<p_free, p_age, list>>
vars == <<p_selock, names, free, p_io, phm, pc, loc>>

EXCL == "SE_EXCL"
SHARED == "SE_SHARED"
(* Between calls, pp is the page that the caller holds. *)
Idle == [op |-> "none", id |-> None, se |-> EXCL, pp |-> None, npp |-> None]

Init ==
  /\ p_selock = [p \in Pages |-> 0] /\ p_vnode = [p \in Pages |-> None]
  /\ p_free = [p \in Pages |-> TRUE] /\ p_age = [p \in Pages |-> TRUE]
  /\ hashed = [p \in Pages |-> FALSE] /\ list = [p \in Pages |-> "free"]
  /\ p_io = [p \in Pages |-> None] /\ phm = [n \in Names |-> None]
  /\ pc = [t \in Threads |-> "run"] /\ loc = [t \in Threads |-> Idle]

-----------------------------------------------------------------------
At(t, l) == pc[t] = l
Goto(t, l) == pc' = [pc EXCEPT ![t] = l]
Set(t, r) == loc' = [loc EXCEPT ![t] = r]
Pp(t) == loc[t].pp
(* The call returns page p, or none. *)
Back(t, p) == [Idle EXCEPT !.pp = p, !.id = IF p = None THEN None ELSE loc[t].id,
                           !.se = IF p = None THEN EXCL ELSE loc[t].se]
Return(t, p) == Goto(t, "run") /\ Set(t, Back(t, p))

Hold(t) == loc[t].id \in Names /\ phm[loc[t].id] = t
DropPhm(t) == phm' = IF Hold(t) THEN [phm EXCEPT ![loc[t].id] = None] ELSE phm

(* se_trylock() *)
CanLock(p, se) == IF se = EXCL THEN p_selock[p] = 0 ELSE p_selock[p] >= 0
Locked(p, se) == [p_selock EXCEPT ![p] = IF se = EXCL THEN -1 ELSE @ + 1]
(* page_unlock() and the cv_broadcast(&p_cv) that goes with it; s is pc as *)
(* the caller leaves it.                                                   *)
Unlocked(p) == [p_selock EXCEPT ![p] = IF @ < 0 THEN 0 ELSE @ - 1]
Broadcast(s, p) == [u \in Threads |-> IF s[u] = "asleep" /\ Pp(u) = p THEN "woken" ELSE s[u]]
UnlockWakes(p) == p_selock[p] \in {-1, 1}
PageUnlock(t, p, l) ==
  /\ p_selock' = Unlocked(p)
  /\ LET s == [pc EXCEPT ![t] = l] IN pc' = IF UnlockWakes(p) THEN Broadcast(s, p) ELSE s

(* Who takes a page off its list when it locks it, and so locks it         *)
(* exclusively.                                                            *)
Reclaims(t) == loc[t].op \in {"lookup", "rename"}
LockMode_Asked(t, p) == loc[t].se
LockMode(t, p) == IF Reclaims(t) /\ p_free[p] THEN EXCL ELSE loc[t].se

(* page_lock(): asleep with the hash mutex dropped, or locked. *)
PageLock(t, p) ==
  /\ Set(t, [loc[t] EXCEPT !.pp = p])
  /\ IF CanLock(p, LockMode(t, p))
     THEN /\ p_selock' = Locked(p, LockMode(t, p)) /\ UNCHANGED phm
          /\ Goto(t, IF Reclaims(t) /\ p_free[p] THEN "reclaim" ELSE "got")
     ELSE DropPhm(t) /\ Goto(t, "asleep") /\ UNCHANGED p_selock
(* Back from cv_wait(): the name may be another page's by now. *)
Woken(t) ==
  /\ At(t, "woken")
  /\ \/ loc[t].op \in {"lookup", "rename", "create"} /\ Goto(t, "phm") /\ Set(t, [loc[t] EXCEPT !.pp = None])
     \/ loc[t].op = "vplist" /\ Return(t, None)
  /\ UNCHANGED <<p_selock, names, free, p_io, phm>>

(* The pages counted in pcf[] that nobody has claimed: those on the lists, *)
(* and those that will be put back there and were never taken out of the   *)
(* count, by page_destroy_free() or by a creator that took the page of the *)
(* cache list for its claim.                                               *)
Returning(t) ==
  \/ loc[t].op = "destroy_free"
  \/ loc[t].op = "create" /\ loc[t].npp # None /\ pc[t] \in {"io", "io_asleep", "putback"}
Unclaimed ==
  Cardinality({p \in Pages : list[p] # "none"}) + Cardinality({t \in Threads : Returning(t)})
    - Cardinality({t \in Threads : At(t, "getpage")})

(* page_reclaim() of a page that is locked.  It gets its page unless those *)
(* that are free are all claimed by others, or memory is found low: then   *)
(* it lets go of it and of the hash mutex, and waits.                      *)
PageReclaim(t) ==
  /\ At(t, "reclaim") /\ Unclaimed > 0
  /\ list' = [list EXCEPT ![Pp(t)] = "none"]
  /\ p_free' = [p_free EXCEPT ![Pp(t)] = FALSE] /\ p_age' = [p_age EXCEPT ![Pp(t)] = FALSE]
  /\ Goto(t, IF loc[t].se = SHARED THEN "downgrade" ELSE "got")
  /\ UNCHANGED <<p_selock, names, p_io, phm, loc>>
ReclaimFails(t) ==
  /\ At(t, "reclaim") /\ DropPhm(t)
  /\ PageUnlock(t, Pp(t), "phm") /\ Set(t, [loc[t] EXCEPT !.pp = None])
  /\ UNCHANGED <<names, free, p_io>>
(* page_downgrade() of what was locked exclusively to be reclaimed. *)
DowngradeWakes_None(s, p) == s
DowngradeWakes(s, p) == Broadcast(s, p)
Downgrade(t) ==
  /\ At(t, "downgrade") /\ p_selock' = [p_selock EXCEPT ![Pp(t)] = 1]
  /\ pc' = DowngradeWakes([pc EXCEPT ![t] = "got"], Pp(t))
  /\ UNCHANGED <<names, free, p_io, phm, loc>>

-----------------------------------------------------------------------
(* page_lookup() and page_lookup_nowait(): the search without the mutex    *)
(* finds a page that has, or just had, the name; or it misses it.          *)
Lookup(t, op, id, se) ==
  /\ At(t, "run") /\ Pp(t) = None
  /\ Set(t, [Idle EXCEPT !.op = op, !.id = id, !.se = se]) /\ Goto(t, "search")
  /\ UNCHANGED <<p_selock, names, free, p_io, phm>>
Search(t) ==
  /\ At(t, "search")
  /\ \/ \E p \in Pages : /\ p_vnode[p] = loc[t].id /\ Set(t, [loc[t] EXCEPT !.pp = p])
                         /\ Goto(t, IF loc[t].op = "lookup" THEN "try" ELSE "isfree")
     \/ Goto(t, "phm") /\ UNCHANGED loc
  /\ UNCHANGED <<p_selock, names, free, p_io, phm>>

(* page_try_reclaim_lock() *)
TryLock(t) ==
  /\ At(t, "try")
  /\ IF CanLock(Pp(t), LockMode(t, Pp(t)))
     THEN p_selock' = Locked(Pp(t), LockMode(t, Pp(t))) /\ Goto(t, "confirm") /\ UNCHANGED loc
     ELSE Goto(t, "phm") /\ Set(t, [loc[t] EXCEPT !.pp = None]) /\ UNCHANGED p_selock
  /\ UNCHANGED <<names, free, p_io, phm>>
SameName_Trust(t) == TRUE
SameName(t) == p_vnode[Pp(t)] = loc[t].id
Confirm(t) ==
  /\ At(t, "confirm")
  /\ \/ SameName(t) /\ p_free[Pp(t)] /\ Goto(t, "reclaim") /\ UNCHANGED <<p_selock, loc>>
     \/ SameName(t) /\ ~p_free[Pp(t)] /\ Return(t, Pp(t)) /\ UNCHANGED p_selock
     \/ ~SameName(t) /\ PageUnlock(t, Pp(t), "phm") /\ Set(t, [loc[t] EXCEPT !.pp = None])
  /\ UNCHANGED <<names, free, p_io, phm>>

EnterPhm(t) ==
  /\ At(t, "phm") \/ At(t, "unloaded")
  /\ phm[loc[t].id] = None /\ phm' = [phm EXCEPT ![loc[t].id] = t]
  /\ Goto(t, IF At(t, "phm") THEN "top" ELSE "hashout")
  /\ UNCHANGED <<p_selock, names, free, p_io, loc>>

(* PAGE_HASH_SEARCH() with the mutex. *)
Matches(t) == {p \in Pages : hashed[p] /\ p_vnode[p] = loc[t].id}
TopMisses(t) ==
  /\ At(t, "top") /\ Matches(t) = {} /\ loc[t].op \in {"lookup", "nowait"}
  /\ DropPhm(t) /\ Return(t, None)
  /\ UNCHANGED <<p_selock, names, free, p_io>>
TopFinds(t) ==
  /\ At(t, "top") /\ loc[t].op \in {"lookup", "rename", "create"}
  /\ \E p \in Matches(t) : PageLock(t, p)
  /\ UNCHANGED <<names, free, p_io>>

(* The page is locked.  page_lookup() panics if it is not the page it      *)
(* looked for; if the mutex is not held that was seen to before.           *)
Got(t) ==
  /\ At(t, "got") /\ loc[t].op = "lookup"
  /\ IF Hold(t) /\ ~SameName(t) THEN Goto(t, "panic") /\ UNCHANGED <<phm, loc>>
     ELSE DropPhm(t) /\ Return(t, Pp(t))
  /\ UNCHANGED <<p_selock, names, free, p_io>>

(* page_lookup_nowait(): a page that is free or locked is left alone. *)
TopFindsNowait(t) ==
  /\ At(t, "top") /\ loc[t].op = "nowait"
  /\ \E p \in Matches(t) : Set(t, [loc[t] EXCEPT !.pp = p])
  /\ Goto(t, "isfree")
  /\ UNCHANGED <<p_selock, names, free, p_io, phm>>
NowaitIsFree(t) ==
  /\ At(t, "isfree")
  /\ IF p_free[Pp(t)] THEN DropPhm(t) /\ Return(t, None) ELSE Goto(t, "nwtry") /\ UNCHANGED <<phm, loc>>
  /\ UNCHANGED <<p_selock, names, free, p_io>>
NowaitTry(t) ==
  /\ At(t, "nwtry")
  /\ IF CanLock(Pp(t), loc[t].se)
     THEN p_selock' = Locked(Pp(t), loc[t].se) /\ Goto(t, "nwgot") /\ UNCHANGED <<phm, loc>>
     ELSE DropPhm(t) /\ Return(t, None) /\ UNCHANGED p_selock
  /\ UNCHANGED <<names, free, p_io>>
NowaitGot(t) ==
  /\ At(t, "nwgot")
  /\ \/ /\ ~SameName(t) /\ UNCHANGED phm
        /\ IF Hold(t) THEN Goto(t, "panic") /\ UNCHANGED <<p_selock, loc>>
           ELSE PageUnlock(t, Pp(t), "phm") /\ Set(t, [loc[t] EXCEPT !.pp = None])
     \/ /\ SameName(t) /\ p_free[Pp(t)] /\ PageUnlock(t, Pp(t), "run") /\ Set(t, Idle) /\ DropPhm(t)
     \/ /\ SameName(t) /\ ~p_free[Pp(t)] /\ DropPhm(t) /\ Return(t, Pp(t)) /\ UNCHANGED p_selock
  /\ UNCHANGED <<names, free, p_io>>

(* pvn_vplist_dirty(): a page of the vnode's list.  One that is free is    *)
(* destroyed or left; another is the caller's.                             *)
VplistDirty(t, p, se) ==
  LET r == [Idle EXCEPT !.op = "vplist", !.se = se, !.pp = p] IN
  /\ At(t, "run") /\ Pp(t) = None /\ p_vnode[p] # None
  /\ Set(t, r) /\ UNCHANGED phm
  /\ IF CanLock(p, se) THEN p_selock' = Locked(p, se) /\ Goto(t, "got")
     ELSE Goto(t, "asleep") /\ UNCHANGED p_selock
  /\ UNCHANGED <<names, free, p_io>>
VplistGot(t) ==
  /\ At(t, "got") /\ loc[t].op = "vplist"
  /\ \/ ~p_free[Pp(t)] /\ Return(t, Pp(t)) /\ UNCHANGED <<p_selock, list>>
     \/ p_free[Pp(t)] /\ PageUnlock(t, Pp(t), "run") /\ Set(t, Idle) /\ UNCHANGED list
     \/ /\ p_free[Pp(t)] /\ loc[t].se = EXCL /\ Goto(t, "hashout") /\ Set(t, [loc[t] EXCEPT !.op = "destroy_free"])
        /\ list' = [list EXCEPT ![Pp(t)] = "none"] /\ UNCHANGED p_selock
  /\ UNCHANGED <<names, p_free, p_age, p_io, phm>>

-----------------------------------------------------------------------
(* page_hashout(): off the chain with the hash mutex; then the name goes,  *)
(* and those who wait for the page of that name are woken.                 *)
Target(t) == IF Pp(t) = None THEN loc[t].npp ELSE Pp(t)
Hashout(t) ==
  LET p == Target(t) IN
  /\ At(t, "hashout") /\ phm[p_vnode[p]] \in {None, t}
  /\ IF hashed[p] THEN hashed' = [hashed EXCEPT ![p] = FALSE] /\ Goto(t, "noname")
     ELSE Goto(t, "panic") /\ UNCHANGED hashed
  /\ UNCHANGED <<p_selock, p_vnode, free, p_io, phm, loc>>
HashoutWakes_None(s, p) == s
HashoutWakes(s, p) == Broadcast(s, p)
HashoutNext(t) ==
  IF Pp(t) = None THEN (IF loc[t].op = "rename" THEN "phm" ELSE "own")
  ELSE CASE loc[t].op = "rename" -> "hashin" [] loc[t].op = "destroy" -> "free"
         [] loc[t].op = "dontfree" -> "kept" [] OTHER -> "relist"
HashoutName(t) ==
  /\ At(t, "noname") /\ p_vnode' = [p_vnode EXCEPT ![Target(t)] = None]
  /\ pc' = HashoutWakes([pc EXCEPT ![t] = HashoutNext(t)], Target(t))
  /\ UNCHANGED <<p_selock, hashed, free, p_io, phm, loc>>

(* page_hashin(), which drops the hash mutex. *)
Hashin(t, p) ==
  /\ p_vnode' = [p_vnode EXCEPT ![p] = loc[t].id] /\ hashed' = [hashed EXCEPT ![p] = TRUE] /\ DropPhm(t)

(* page_free() and the last step of page_destroy_free(): on the list, then *)
(* unlocked; page_rename() returns its own page then.                      *)
SetFree(p, aged) ==
  /\ p_free' = [p_free EXCEPT ![p] = TRUE] /\ p_age' = [p_age EXCEPT ![p] = aged]
  /\ list' = [list EXCEPT ![p] = IF aged THEN "free" ELSE "cache"]
PageFree(t) ==
  /\ At(t, "free") /\ SetFree(Pp(t), p_vnode[Pp(t)] = None)
  /\ PageUnlock(t, Pp(t), "run") /\ Set(t, Back(t, loc[t].npp))
  /\ UNCHANGED <<names, p_io, phm>>
Kept(t) ==
  /\ At(t, "kept") /\ Return(t, Pp(t))
  /\ UNCHANGED <<p_selock, names, free, p_io, phm>>
Relist(t) ==
  /\ At(t, "relist") /\ SetFree(Pp(t), TRUE)
  /\ PageUnlock(t, Pp(t), "run") /\ Set(t, Idle)
  /\ UNCHANGED <<names, p_io, phm>>

-----------------------------------------------------------------------
(* page_create_va() of one page, which it has claimed: "create" takes the  *)
(* page of that name if there is one, "create_excl" wants a new one.       *)
Creates(t) == loc[t].op \in {"create", "create_excl"}
Create(t, op, id) ==
  /\ At(t, "run") /\ Pp(t) = None /\ Unclaimed > 0
  /\ Set(t, [Idle EXCEPT !.op = op, !.id = id]) /\ Goto(t, "getpage")
  /\ UNCHANGED <<p_selock, names, free, p_io, phm>>
(* page_get_freelist() and page_get_cachelist() *)
GetPage(t) ==
  /\ At(t, "getpage")
  /\ \E p \in Pages : /\ list[p] # "none" /\ p_selock[p] = 0
                      /\ p_selock' = Locked(p, EXCL) /\ list' = [list EXCEPT ![p] = "none"]
                      /\ Set(t, [loc[t] EXCEPT !.npp = p])
                      /\ Goto(t, IF p_age[p] THEN "own" ELSE "hashout")
  /\ UNCHANGED <<names, p_free, p_age, p_io, phm>>
Own(t) ==
  /\ At(t, "own") /\ Goto(t, "phm")
  /\ p_free' = [p_free EXCEPT ![loc[t].npp] = FALSE] /\ p_age' = [p_age EXCEPT ![loc[t].npp] = FALSE]
  /\ UNCHANGED <<p_selock, names, list, p_io, phm, loc>>
CreateNew(t) ==
  /\ At(t, "top") /\ Creates(t) /\ Matches(t) = {} /\ Hashin(t, loc[t].npp)
  /\ Set(t, [loc[t] EXCEPT !.pp = loc[t].npp, !.npp = None]) /\ Goto(t, "io")
  /\ UNCHANGED <<p_selock, free, p_io>>
CreateExists(t) ==
  /\ At(t, "top") /\ loc[t].op = "create_excl" /\ Matches(t) # {} /\ DropPhm(t) /\ Goto(t, "putback")
  /\ UNCHANGED <<p_selock, names, free, p_io, loc>>
CreateGot(t) ==
  /\ At(t, "got") /\ loc[t].op = "create" /\ DropPhm(t) /\ Goto(t, "io")
  /\ p_free' = [p_free EXCEPT ![Pp(t)] = FALSE] /\ list' = [list EXCEPT ![Pp(t)] = "none"]
  /\ UNCHANGED <<p_selock, names, p_age, p_io, loc>>
PutBack(t) ==
  /\ At(t, "putback") /\ SetFree(loc[t].npp, TRUE)
  /\ PageUnlock(t, loc[t].npp, "run") /\ Set(t, Back(t, Pp(t)))
  /\ UNCHANGED <<names, p_io, phm>>

-----------------------------------------------------------------------
(* page_rename() of the page held to name id: if a page of that name is    *)
(* there it loses its name, with its mappings if it has any.               *)
Exclusive(t) == At(t, "run") /\ Pp(t) # None /\ loc[t].se = EXCL /\ p_io[Pp(t)] = None
RenameFirst_Search(t) == "phm"
RenameFirst(t) == "hashout"
Rename(t, id) ==
  /\ Exclusive(t) /\ p_vnode[Pp(t)] # None /\ Goto(t, RenameFirst(t))
  /\ Set(t, [Idle EXCEPT !.op = "rename", !.id = id, !.npp = Pp(t)])
  /\ UNCHANGED <<p_selock, names, free, p_io, phm>>
RenameGot(t) ==
  /\ At(t, "got") /\ loc[t].op = "rename"
  /\ \/ Goto(t, "hashout") /\ UNCHANGED phm
     \/ Goto(t, "unloaded") /\ DropPhm(t)
  /\ UNCHANGED <<p_selock, names, free, p_io, loc>>
RenameMisses(t) ==
  /\ At(t, "top") /\ loc[t].op = "rename" /\ Matches(t) = {} /\ Goto(t, "hashin")
  /\ UNCHANGED <<p_selock, names, free, p_io, phm, loc>>
RenameHashin(t) ==
  /\ At(t, "hashin")
  /\ IF Matches(t) # {} THEN Goto(t, "panic") /\ UNCHANGED <<names, phm, loc>>
     ELSE /\ Hashin(t, loc[t].npp)
          /\ IF Pp(t) = None THEN Return(t, loc[t].npp) ELSE Goto(t, "free") /\ UNCHANGED loc
  /\ UNCHANGED <<p_selock, free, p_io>>

(* What else the caller does with its page: page_free(), page_destroy(),   *)
(* which with dontfree leaves it the page without its name, page_unlock(), *)
(* page_downgrade(), page_tryupgrade().                                    *)
Free(t) ==
  /\ Exclusive(t) /\ Goto(t, "free") /\ Set(t, [Idle EXCEPT !.op = "free", !.pp = Pp(t)])
  /\ UNCHANGED <<p_selock, names, free, p_io, phm>>
Destroy(t, op) ==
  /\ Exclusive(t) /\ p_vnode[Pp(t)] # None /\ Goto(t, "hashout")
  /\ Set(t, [Idle EXCEPT !.op = op, !.pp = Pp(t)])
  /\ UNCHANGED <<p_selock, names, free, p_io, phm>>
Unlock(t) ==
  /\ At(t, "run") /\ Pp(t) # None /\ p_io[Pp(t)] # t
  /\ PageUnlock(t, Pp(t), "run") /\ Set(t, Idle)
  /\ UNCHANGED <<names, free, p_io, phm>>
PageDowngrade(t) ==
  /\ At(t, "run") /\ Pp(t) # None /\ loc[t].se = EXCL
  /\ p_selock' = [p_selock EXCEPT ![Pp(t)] = 1] /\ pc' = DowngradeWakes(pc, Pp(t))
  /\ Set(t, [loc[t] EXCEPT !.se = SHARED])
  /\ UNCHANGED <<names, free, p_io, phm>>
TryUpgrade(t) ==
  /\ At(t, "run") /\ Pp(t) # None /\ loc[t].se = SHARED /\ p_selock[Pp(t)] = 1
  /\ p_selock' = [p_selock EXCEPT ![Pp(t)] = -1] /\ Set(t, [loc[t] EXCEPT !.se = EXCL])
  /\ UNCHANGED <<names, free, p_io, phm, pc>>

-----------------------------------------------------------------------
(* page_io_lock(), page_io_trylock() and page_io_unlock() of the page held. *)
IoLock(t) ==
  /\ At(t, "run") /\ Pp(t) # None /\ p_io[Pp(t)] # t /\ Goto(t, "io")
  /\ UNCHANGED <<p_selock, names, free, p_io, phm, loc>>
IoTake(t) ==
  /\ At(t, "io") /\ p_io[Pp(t)] = None /\ p_io' = [p_io EXCEPT ![Pp(t)] = t]
  /\ IF loc[t].npp = None THEN Return(t, Pp(t)) ELSE Goto(t, "putback") /\ UNCHANGED loc
  /\ UNCHANGED <<p_selock, names, free, phm>>
IoWait(t) ==
  /\ At(t, "io") /\ p_io[Pp(t)] # None /\ Goto(t, "io_asleep")
  /\ UNCHANGED <<p_selock, names, free, p_io, phm, loc>>
IoTrylock(t) ==
  /\ At(t, "run") /\ Pp(t) # None /\ p_io[Pp(t)] = None /\ p_io' = [p_io EXCEPT ![Pp(t)] = t]
  /\ UNCHANGED <<p_selock, names, free, phm, pc, loc>>
IoWaiters(p) == {u \in Threads : At(u, "io_asleep") /\ Pp(u) = p}
IoSignal(p) == IF IoWaiters(p) = {} THEN UNCHANGED pc ELSE \E u \in IoWaiters(p) : Goto(u, "io")
IoUnlock(t) ==
  /\ At(t, "run") /\ Pp(t) # None /\ p_io[Pp(t)] = t /\ p_io' = [p_io EXCEPT ![Pp(t)] = None]
  /\ IoSignal(Pp(t))
  /\ UNCHANGED <<p_selock, names, free, phm, loc>>

-----------------------------------------------------------------------
Call(t) ==
  \/ \E op \in {"lookup", "nowait"}, id \in Names, se \in {EXCL, SHARED} : Lookup(t, op, id, se)
  \/ \E p \in Pages, se \in {EXCL, SHARED} : VplistDirty(t, p, se)
  \/ \E op \in {"create", "create_excl"}, id \in Names : Create(t, op, id)
  \/ \E id \in Names : Rename(t, id)
  \/ \E op \in {"destroy", "dontfree"} : Destroy(t, op)
  \/ Free(t) \/ Unlock(t) \/ PageDowngrade(t) \/ TryUpgrade(t)
  \/ IoLock(t) \/ IoTrylock(t) \/ IoUnlock(t)
Step(t) ==
  \/ Woken(t) \/ PageReclaim(t) \/ ReclaimFails(t) \/ Downgrade(t)
  \/ Search(t) \/ TryLock(t) \/ Confirm(t) \/ EnterPhm(t) \/ TopMisses(t) \/ TopFinds(t) \/ Got(t)
  \/ TopFindsNowait(t) \/ NowaitIsFree(t) \/ NowaitTry(t) \/ NowaitGot(t) \/ VplistGot(t)
  \/ Hashout(t) \/ HashoutName(t) \/ PageFree(t) \/ Kept(t) \/ Relist(t)
  \/ GetPage(t) \/ Own(t) \/ CreateNew(t) \/ CreateExists(t) \/ CreateGot(t) \/ PutBack(t)
  \/ RenameGot(t) \/ RenameMisses(t) \/ RenameHashin(t) \/ IoTake(t) \/ IoWait(t)
Next == \E t \in Threads : Call(t) \/ Step(t)

Spec == Init /\ [][Next]_vars

-----------------------------------------------------------------------
PCs == {"run", "search", "try", "confirm", "phm", "top", "got", "reclaim", "downgrade", "asleep",
        "woken", "isfree", "nwtry", "nwgot", "hashout", "noname", "unloaded", "hashin", "getpage",
        "own", "putback", "free", "kept", "relist", "io", "io_asleep", "panic"}
Locals == [op : {"none", "lookup", "nowait", "vplist", "create", "create_excl", "rename",
                 "free", "destroy", "dontfree", "destroy_free"},
           id : Names \cup {None}, se : {EXCL, SHARED}, pp : Pages \cup {None}, npp : Pages \cup {None}]
TypeOK ==
  /\ p_selock \in [Pages -> Nat \cup {-1}] /\ p_vnode \in [Pages -> Names \cup {None}]
  /\ p_free \in [Pages -> BOOLEAN] /\ p_age \in [Pages -> BOOLEAN] /\ hashed \in [Pages -> BOOLEAN]
  /\ list \in [Pages -> {"free", "cache", "none"}]
  /\ p_io \in [Pages -> Threads \cup {None}] /\ phm \in [Names -> Threads \cup {None}]
  /\ pc \in [Threads -> PCs] /\ loc \in [Threads -> Locals]

(* The pages that thread t has locked. *)
Sleeping(t) == pc[t] \in {"asleep", "woken"}
Searching(t) == pc[t] \in {"search", "try", "phm", "top", "isfree", "nwtry"}
Spare(t) == {loc[t].npp} \ {None}
Holds(t) == Spare(t) \cup (IF Sleeping(t) \/ Searching(t) THEN {} ELSE {Pp(t)} \ {None})

(* The locks are what their holders think: a page that is locked           *)
(* exclusively has one holder, and a shared lock counts its holders.  A    *)
(* page that a call returned is not free, and has the name it was asked    *)
(* for until it is renamed, whatever became of it between the search       *)
(* without the mutex and the lock.  TypeOK: no count is taken below zero.  *)
LocksSound ==
  /\ TypeOK
  /\ \A p \in Pages :
       LET H == {t \in Threads : p \in Holds(t)} IN
       /\ p_selock[p] = -1 => Cardinality(H) = 1
       /\ p_selock[p] # -1 => p_selock[p] = Cardinality(H)
       /\ \A t \in H : (At(t, "run") /\ Pp(t) = p) =>
            /\ loc[t].se = EXCL <=> p_selock[p] = -1
            /\ ~p_free[p] /\ list[p] = "none"
            /\ loc[t].id # None => p_vnode[p] = loc[t].id
       /\ p_io[p] # None => p_io[p] \in H

(* No two pages on the hash chains have one name; a page that is on a      *)
(* chain has one.  When nobody holds a page exclusively its fields agree:  *)
(* it is on the chain if it has a name, on a list if it is free, and on    *)
(* the free list, without a name, if it is aged.  No thread panics: the    *)
(* page that page_lookup() locked is the one it found, and page_rename()   *)
(* can enter the name that it kept for itself.                             *)
NamesSound ==
  /\ \A p, q \in Pages : hashed[p] /\ hashed[q] /\ p_vnode[p] = p_vnode[q] => p = q
  /\ \A p \in Pages : hashed[p] => p_vnode[p] # None
  /\ \A p \in Pages : p_selock[p] # -1 =>
       /\ hashed[p] <=> p_vnode[p] # None
       /\ p_free[p] <=> list[p] # "none"
       /\ p_age[p] <=> list[p] = "free"
       /\ p_free[p] => (p_age[p] <=> p_vnode[p] = None)
  /\ \A t \in Threads : ~At(t, "panic")

(* Who sleeps for a page sleeps for a lock that is held: exclusively, if   *)
(* it is the shared lock it wants and it need not reclaim the page.  So    *)
(* the unlock or the downgrade to come will wake it.  Who sleeps for an    *)
(* i/o lock is woken: the lock is held, or it was signalled to another who *)
(* will take it and signal in its turn.                                    *)
WaitersNotLost ==
  /\ \A t \in Threads : At(t, "asleep") =>
       /\ p_selock[Pp(t)] # 0
       /\ loc[t].se = SHARED /\ ~p_free[Pp(t)] => p_selock[Pp(t)] = -1
  /\ \A p \in Pages : IoWaiters(p) # {} => p_io[p] # None \/ \E t \in Threads : At(t, "io") /\ Pp(t) = p

(* Who sleeps for the page of a name sleeps for a page that has it.        *)
WaitsForItsName ==
  \A t \in Threads : At(t, "asleep") /\ loc[t].id # None => p_vnode[Pp(t)] = loc[t].id

(* "Could deadlock if caller 1 tries to rename A to B while caller 2 tries *)
(* to rename B to A": no two threads sleep for a page that the other       *)
(* holds, since the renamed page loses its name first.                     *)
NoWaitCycle ==
  \A t, u \in Threads : ~(At(t, "asleep") /\ At(u, "asleep") /\ Pp(t) \in Holds(u) /\ Pp(u) \in Holds(t))

=======================================================================
