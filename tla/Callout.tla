---------------------------- MODULE Callout ----------------------------
(***************************************************************************)
(* One callout table: uts/common/os/callout.c, sys/callo.h.                *)
(*                                                                         *)
(* timeout() puts a callout into a bucket; the clock calls                 *)
(* callout_schedule() each tick, which signals a callout thread (normal    *)
(* table) or posts a softcall (realtime table) when something is due;      *)
(* callout_execute() runs what is due with cs_lock dropped around the      *)
(* function; untimeout() takes a callout out, or waits for it to complete  *)
(* when it is executing.  CPR stops the table around a suspend.            *)
(*                                                                         *)
(* Each region under cs_lock is one step.  A client owns at most one       *)
(* callout at a time and stands for its func and arg.  Times are longs     *)
(* that wrap: numbers modulo TimeMod, compared by signed difference.       *)
(***************************************************************************)
EXTENDS UnsafeDriver, Integers, Sequences, FiniteSets, SequencesExt

CONSTANTS
  Clients,        \* owners of callouts
  UnsafeClients,  \* clients in unsafe drivers, which call with unsafe_driver held
  Executors,      \* callout threads, or contexts softint() runs in
  Realtime,       \* the realtime table: run by softcall, not by callout threads
  Structs,        \* callout_t structures there is memory for
  Deltas,         \* the delays clients ask for
  TimeMod,        \* longs wrap here; even, and a multiple of Buckets
  Buckets,        \* CALLOUT_BUCKETS
  StartTime,      \* lbolt at boot
  MaxLag,         \* bound: ticks the clock may be ahead of the oldest work
  Cpr             \* checkpoint and resume happen; None: no struct, client, executor

ASSUME SetsAssumption ==
  /\ IsFiniteSet(Clients) /\ UnsafeClients \subseteq Clients
  /\ None \notin Clients \cup Executors \cup Structs
  /\ Clients \cap Executors = {}
ASSUME TimeAssumption ==
  /\ Buckets \in Nat \ {0} /\ TimeMod \in Nat \ {0}
  /\ TimeMod % 2 = 0 /\ TimeMod % Buckets = 0
  /\ StartTime \in 0..(TimeMod - 1)
  /\ Deltas \subseteq 0..(TimeMod - 1)
  /\ MaxLag \in 1..(TimeMod \div 2 - 1)
  /\ Realtime \in BOOLEAN /\ Cpr \in BOOLEAN

VARIABLES
  lbolt,          \* ticks since boot
  ticked,         \* the clock has advanced lbolt and not yet called callout_schedule
  cs_curtime, cs_runtime,
  cs_bucket,      \* bucket -> the structs in it, first to last
  cs_freelist,    \* free structs, first to last
  allocated,      \* structs callout_alloc has handed out
  c,              \* struct -> its fields
  epc,            \* executor -> where it is
  ecp, ert,       \* executor -> its locals cp and runtime
  soft,           \* softcall(realtime_timein) is queued
  cst, handle,    \* client -> where it is, the id timeout() returned
  dcp,            \* client -> the struct callout_delete waits for
  cpr_stop,       \* cpr_stop_callout
  saved,          \* old_callout_state: <<cs_runtime, buckets>>, or << >>
  due, runs       \* history: earliest time asked for (0 once the function has
                  \* returned), runs since timeout()

tvars == <<lbolt, ticked, cs_curtime, cs_runtime>>
svars == <<cs_bucket, cs_freelist, allocated, c>>
evars == <<epc, ecp, ert, soft>>
cvars == <<cst, handle, dcp>>
hvars == <<due, runs>>
vars  == <<tvars, svars, evars, cvars, unsafe_driver, cpr_stop, saved, hvars>>

-----------------------------------------------------------------------
(* Times. *)
Add(x, k)  == (x + k) % TimeMod
SDiff(x, y) == ((x - y + TimeMod + TimeMod \div 2) % TimeMod) - TimeMod \div 2

(* The sign of the difference of two longs tells which is later only       *)
(* within half their range: a delay of that length is taken for the past.  *)
(* What is said of times holds for delays that are shorter by the lag.     *)
ShortDelays == \A d \in Deltas \cup {1} : d + MaxLag < TimeMod \div 2

(* A callout id: the bucket in its low bits and a counter above them.      *)
(* callo.h asserts that the counter does not come round to an id that is   *)
(* still in somebody's hands, so an id is fresh; one that nobody holds may *)
(* come back at once.                                                      *)
BucketOf(time) == time % Buckets
IdRange == 1..(Cardinality(Clients) + 1)
FreshId(b) ==
  <<b, CHOOSE n \in IdRange :
         /\ \A x \in Clients : handle[x] # <<b, n>>
         /\ \A m \in 1..(n - 1) : \E x \in Clients : handle[x] = <<b, m>>>>
NoId == <<0, 0>>

FreeStruct == [c_id |-> NoId, executing |-> FALSE, unsafe |-> FALSE,
               c_runtime |-> 0, c_arg |-> None, c_executor |-> None]

Saved == IF saved = << >> THEN {} ELSE UNION {ToSet(saved[2][b]) : b \in 0..(Buckets - 1)}
InTable == UNION {ToSet(cs_bucket[b]) : b \in 0..(Buckets - 1)}
Pending(s) == s \in InTable /\ ~c[s].executing

(* Executors asleep on cs_threadpool. *)
PoolWaiters == {e \in Executors : epc[e] \in {"wait", "cprwait"}}
Woken == [wait |-> "woken", cprwait |-> "done"]

-----------------------------------------------------------------------
Init ==
  /\ lbolt = StartTime /\ ticked = FALSE
  /\ cs_curtime = StartTime /\ cs_runtime = StartTime
  /\ cs_bucket = [b \in 0..(Buckets - 1) |-> << >>]
  /\ cs_freelist = << >> /\ allocated = {}
  /\ c = [s \in Structs |-> FreeStruct]
  /\ epc = [e \in Executors |-> IF Realtime THEN "idle" ELSE "start"]
  /\ ecp = [e \in Executors |-> None] /\ ert = [e \in Executors |-> 0]
  /\ soft = FALSE
  /\ cst = [x \in Clients |-> "none"] /\ handle = [x \in Clients |-> NoId]
  /\ dcp = [x \in Clients |-> None]
  /\ unsafe_driver = None
  /\ cpr_stop = FALSE /\ saved = << >>
  /\ due = [x \in Clients |-> 0] /\ runs = [x \in Clients |-> 0]

(* callout_insert's runtime: at least one tick after cs_curtime. *)
RunTime_FromCurtime(delta) == Add(cs_curtime, IF delta = 0 THEN 1 ELSE delta)
RunTime(delta) ==
  LET runtime == Add(lbolt, delta)
  IN  IF SDiff(runtime, cs_curtime) <= 0 THEN Add(cs_curtime, 1) ELSE runtime

(* timeout() and realtime_timeout(): callout_insert under cs_lock.  The    *)
(* struct is the first free one or, from callout_alloc, a new one; the     *)
(* callout goes to the head of its bucket.                                 *)
Timeout(x, delta) ==
  LET runtime == RunTime(delta)
      b       == BucketOf(runtime)
      id      == FreshId(b)
  IN
  /\ cst[x] = "none"
  /\ x \in UnsafeClients => unsafe_driver = x
  /\ \E s \in Structs :
       /\ \/ /\ cs_freelist # << >> /\ s = Head(cs_freelist)
             /\ cs_freelist' = Tail(cs_freelist) /\ UNCHANGED allocated
          \/ /\ cs_freelist = << >> /\ s \notin allocated
             /\ allocated' = allocated \cup {s} /\ UNCHANGED cs_freelist
       /\ c' = [c EXCEPT ![s] =
                 [c_id |-> id, executing |-> FALSE, unsafe |-> (unsafe_driver = x),
                  c_runtime |-> runtime, c_arg |-> x, c_executor |-> None]]
       /\ cs_bucket' = [cs_bucket EXCEPT ![b] = <<s>> \o @]
  /\ cst' = [cst EXCEPT ![x] = "armed"] /\ handle' = [handle EXCEPT ![x] = id]
  /\ due' = [due EXCEPT ![x] = Add(lbolt, delta)] /\ runs' = [runs EXCEPT ![x] = 0]
  /\ UNCHANGED <<tvars, evars, dcp, unsafe_driver, cpr_stop, saved>>

Disarm(x) ==
  /\ cst' = [cst EXCEPT ![x] = "none"] /\ handle' = [handle EXCEPT ![x] = NoId]
  /\ dcp' = [dcp EXCEPT ![x] = None]
  /\ due' = [due EXCEPT ![x] = 0] /\ runs' = [runs EXCEPT ![x] = 0]

(* Bucket q without s.  Its predecessor is looked up when it is unlinked:  *)
(* callouts may have gone in before it while its function ran.             *)
PosOf(q, s)  == CHOOSE i \in 1..Len(q) : q[i] = s
Unlink(q, s) == RemoveAt(q, PosOf(q, s))

(* untimeout() up to the release of cs_lock: callout_delete finds no such  *)
(* id, takes the callout out, or must wait because it is executing.        *)
Matching(id) == {s \in ToSet(cs_bucket[id[1]]) : c[s].c_id = id}
MustWait(s) == c[s].executing

UntimeoutCall(x) ==
  /\ cst[x] = "armed"
  /\ x \in UnsafeClients => unsafe_driver = x
  /\ UNCHANGED <<tvars, evars, cpr_stop, saved>>

UntimeoutNotFound(x) ==
  /\ UntimeoutCall(x) /\ Matching(handle[x]) = {}
  /\ Disarm(x)
  /\ UNCHANGED <<svars, unsafe_driver>>

UntimeoutDelete(x) ==
  /\ UntimeoutCall(x)
  /\ \E s \in Matching(handle[x]) :
       /\ ~MustWait(s)
       /\ cs_bucket' = [cs_bucket EXCEPT ![handle[x][1]] = Unlink(@, s)]
       /\ cs_freelist' = <<s>> \o cs_freelist
       /\ c' = [c EXCEPT ![s] = FreeStruct]   \* c_xid stays, but nobody reads it
  /\ Disarm(x)
  /\ UNCHANGED <<allocated, unsafe_driver>>

(* The callout is executing: drop unsafe_driver if it was created under    *)
(* it, and cv_wait on c_done.                                              *)
DropForWait_Forgets(x, s) == UNCHANGED unsafe_driver
DropForWait(x, s) == unsafe_driver' = IF c[s].unsafe THEN None ELSE unsafe_driver
UntimeoutWait(x) ==
  /\ UntimeoutCall(x)
  /\ \E s \in Matching(handle[x]) :
       /\ MustWait(s)
       /\ dcp' = [dcp EXCEPT ![x] = s]
       /\ DropForWait(x, s)
  /\ cst' = [cst EXCEPT ![x] = "delwait"]
  /\ UNCHANGED <<svars, handle, hvars>>

(* A spurious setrun() of a thread that waits on c_done. *)
SpuriousWakeup(x) ==
  /\ cst[x] = "delwait"
  /\ cst' = [cst EXCEPT ![x] = "delwoken"]
  /\ UNCHANGED <<tvars, svars, evars, handle, dcp, unsafe_driver, cpr_stop, saved, hvars>>

(* Back from cv_wait with cs_lock: while (cp->c_xid == xid). *)
StillExecuting_NoRecheck(x) == FALSE
StillExecuting(x) == c[dcp[x]].c_id = handle[x] /\ c[dcp[x]].executing
DelRecheck(x) ==
  /\ cst[x] = "delwoken"
  /\ \/ /\ StillExecuting(x)
        /\ cst' = [cst EXCEPT ![x] = "delwait"]
        /\ UNCHANGED <<handle, dcp, hvars>>
     \/ /\ ~StillExecuting(x) /\ x \notin UnsafeClients
        /\ Disarm(x)
     \/ /\ ~StillExecuting(x) /\ x \in UnsafeClients
        /\ cst' = [cst EXCEPT ![x] = "retake"]
        /\ UNCHANGED <<handle, dcp, hvars>>
  /\ UNCHANGED <<tvars, svars, evars, unsafe_driver, cpr_stop, saved>>

(* mutex_enter(&unsafe_driver) before untimeout() returns. *)
DelRetake(x) ==
  /\ cst[x] = "retake" /\ unsafe_driver = None
  /\ unsafe_driver' = x
  /\ Disarm(x)
  /\ UNCHANGED <<tvars, svars, evars, cpr_stop, saved>>

-----------------------------------------------------------------------
(* The clock. *)

(* The times that are still being worked on.  MaxLag bounds how far behind *)
(* the clock they are, less than half the range of a long: at the bound    *)
(* lbolt stands still, but the clock goes on calling callout_schedule.     *)
OldWork ==
  {cs_runtime} \cup {ert[e] : e \in {f \in Executors : ecp[f] # None}}
  \cup (IF saved = << >> THEN {} ELSE {saved[1]})

AtLagBound == \E old \in OldWork : SDiff(Add(lbolt, 1), old) > MaxLag

Tick ==
  /\ ~ticked /\ ticked' = TRUE
  /\ lbolt' = IF AtLagBound THEN lbolt ELSE Add(lbolt, 1)
  /\ UNCHANGED <<cs_curtime, cs_runtime, svars, evars, cvars, unsafe_driver,
                 cpr_stop, saved, hvars>>

(* The times from start to now that have a callout waiting to be run. *)
Ready_Twice(s, r) == c[s].c_runtime = r
Ready(s, r) == c[s].c_runtime = r /\ ~c[s].executing
ReadyTimes(start, now) ==
  {r \in {Add(start, k) : k \in 0..SDiff(now, start)} :
     \E s \in ToSet(cs_bucket[BucketOf(r)]) : Ready(s, r)}
Earliest(R, start) == CHOOSE r \in R : \A q \in R : SDiff(r, start) <= SDiff(q, start)

(* Where the loop while (cs_runtime - curtime <= 0) leaves cs_runtime. *)
Advance_Past(start, now) == Add(now, 1)
Advance(start, now) ==
  IF ReadyTimes(start, now) # {} THEN Earliest(ReadyTimes(start, now), start)
  ELSE IF SDiff(start, now) <= 0 THEN Add(now, 1) ELSE start

(* cv_signal on cs_threadpool, or the softcall; a signal nobody waits for is lost. *)
SignalPool ==
  IF Realtime THEN soft' = TRUE /\ UNCHANGED epc
  ELSE /\ UNCHANGED soft
       /\ \/ PoolWaiters = {} /\ UNCHANGED epc
          \/ \E e \in PoolWaiters : epc' = [epc EXCEPT ![e] = Woken[@]]

CalloutSchedule ==
  /\ ticked /\ ticked' = FALSE
  /\ cs_curtime' = lbolt
  /\ cs_runtime' = Advance(cs_runtime, lbolt)
  /\ IF ReadyTimes(cs_runtime, lbolt) # {} THEN SignalPool ELSE UNCHANGED <<epc, soft>>
  /\ UNCHANGED <<lbolt, svars, ecp, ert, cvars, unsafe_driver, cpr_stop, saved, hvars>>

-----------------------------------------------------------------------
(* callout_execute. *)

StartThread(e) ==
  /\ epc[e] = "start"
  /\ epc' = [epc EXCEPT ![e] = "wait"]
  /\ UNCHANGED <<tvars, svars, ecp, ert, soft, cvars, unsafe_driver, cpr_stop, saved, hvars>>

(* softint() takes the queued realtime_timein. *)
SoftInt(e) ==
  /\ soft /\ epc[e] = "idle"
  /\ soft' = FALSE /\ epc' = [epc EXCEPT ![e] = "woken"]
  /\ UNCHANGED <<tvars, svars, ecp, ert, cvars, unsafe_driver, cpr_stop, saved, hvars>>

(* The struct the scan takes: the first that is ready at time r in list q. *)
FirstReady(q, r) ==
  q[CHOOSE i \in 1..Len(q) : Ready(q[i], r) /\ \A j \in 1..(i - 1) : ~Ready(q[j], r)]
HasReady(q, r) == \E i \in 1..Len(q) : Ready(q[i], r)

(* Executor e takes s to run it for time r: c_executor and the executing   *)
(* bit are set and cs_lock is dropped.  fields is c as left by what e did  *)
(* before under the same lock.                                             *)
Take(e, s, r, fields) ==
  /\ c' = [fields EXCEPT ![s].executing = TRUE, ![s].c_executor = e]
  /\ ecp' = [ecp EXCEPT ![e] = s] /\ ert' = [ert EXCEPT ![e] = r]
  /\ epc' = [epc EXCEPT ![e] = "enter"]

(* The outer loop from time start: run what is ready, or return. *)
OuterScan(e, start, fields) ==
  /\ cs_runtime' = Advance(start, cs_curtime)
  /\ IF ReadyTimes(start, cs_curtime) # {}
     THEN LET r == Earliest(ReadyTimes(start, cs_curtime), start)
          IN  Take(e, FirstReady(cs_bucket[BucketOf(r)], r), r, fields)
     ELSE /\ c' = fields
          /\ ecp' = [ecp EXCEPT ![e] = None] /\ ert' = [ert EXCEPT ![e] = 0]
          /\ epc' = [epc EXCEPT ![e] = IF Realtime THEN "idle" ELSE "wait"]

(* callout_thread is back from cv_wait, or realtime_timein begins. *)
Execute(e) ==
  /\ epc[e] = "woken" /\ (cpr_stop => Realtime)
  /\ OuterScan(e, cs_runtime, c)
  /\ UNCHANGED <<lbolt, ticked, cs_curtime, cs_bucket, cs_freelist, allocated, soft,
                 cvars, unsafe_driver, cpr_stop, saved, hvars>>

(* if (cpr_stop_callout) continue; *)
BackToSleep(e) ==
  /\ epc[e] = "woken" /\ cpr_stop /\ ~Realtime
  /\ epc' = [epc EXCEPT ![e] = "wait"]
  /\ UNCHANGED <<tvars, svars, ecp, ert, soft, cvars, unsafe_driver, cpr_stop, saved, hvars>>

(* The call of c_func, under unsafe_driver if the callout was created so. *)
RunFunc(e) ==
  LET s == ecp[e] IN
  /\ epc[e] = "enter"
  /\ IF c[s].unsafe THEN unsafe_driver = None /\ unsafe_driver' = e
     ELSE UNCHANGED unsafe_driver
  /\ epc' = [epc EXCEPT ![e] = "func"]
  /\ runs' = [runs EXCEPT ![c[s].c_arg] = @ + 1]
  /\ UNCHANGED <<tvars, svars, ecp, ert, soft, cvars, cpr_stop, saved, due>>

FuncReturns(e) ==
  /\ epc[e] = "func"
  /\ unsafe_driver' = IF unsafe_driver = e THEN None ELSE unsafe_driver
  /\ epc' = [epc EXCEPT ![e] = "done"]
  /\ due' = [due EXCEPT ![c[ecp[e]].c_arg] = 0]
  /\ UNCHANGED <<tvars, svars, ecp, ert, soft, cvars, cpr_stop, saved, runs>>

(* The function calls untimeout() on its own id: callout_delete sees that  *)
(* c_executor is the caller and returns -1 instead of waiting.  That       *)
(* changes nothing, so the function's return is part of the step.          *)
NestedReturns(e) == c[ecp[e]].c_executor = e
NestedUntimeout(e) ==
  /\ epc[e] = "func"
  /\ IF NestedReturns(e)
     THEN FuncReturns(e)
     ELSE /\ epc' = [epc EXCEPT ![e] = "selfwait"]
          /\ UNCHANGED <<tvars, svars, ecp, ert, soft, cvars, unsafe_driver, cpr_stop,
                         saved, hvars>>

(* while (cpr_stop_callout) cv_wait(&cs->cs_threadpool, ...) *)
CprWait(e) ==
  /\ epc[e] = "done" /\ cpr_stop
  /\ epc' = [epc EXCEPT ![e] = "cprwait"]
  /\ UNCHANGED <<tvars, svars, ecp, ert, soft, cvars, unsafe_driver, cpr_stop, saved, hvars>>

(* cv_broadcast(&cp->c_done) *)
BroadcastDone(s) ==
  cst' = [x \in Clients |-> IF cst[x] = "delwait" /\ dcp[x] = s THEN "delwoken" ELSE cst[x]]

(* cs_runtime++ only if no other executor has done so. *)
NextStart_Unconditional(r) == Add(cs_runtime, 1)
NextStart(r) == IF cs_runtime = r THEN Add(r, 1) ELSE cs_runtime

(* The part of a bucket behind s, where the scan goes on: callouts put at  *)
(* the head while the function ran are not looked at.                      *)
Behind(q, s) == SubSeq(q, PosOf(q, s) + 1, Len(q))

(* The function has returned: delete the callout, tell those who wait for  *)
(* it, and go on scanning, first the rest of the bucket for the same time. *)
Finish(e) ==
  LET s == ecp[e]
      r == ert[e]
      b == BucketOf(r)
      rest   == Behind(cs_bucket[b], s)
      fields == [c EXCEPT ![s] = FreeStruct]
  IN
  /\ epc[e] = "done" /\ ~cpr_stop
  /\ cs_bucket' = [cs_bucket EXCEPT ![b] = Unlink(@, s)]
  /\ cs_freelist' = <<s>> \o cs_freelist
  /\ BroadcastDone(s)
  /\ IF HasReady(rest, r)
     THEN Take(e, FirstReady(rest, r), r, fields) /\ UNCHANGED cs_runtime
     ELSE OuterScan(e, NextStart(r), fields)
  /\ UNCHANGED <<lbolt, ticked, cs_curtime, allocated, soft, handle, dcp, unsafe_driver,
                 cpr_stop, saved, hvars>>

-----------------------------------------------------------------------
(* Checkpoint and resume. *)

(* callout_save sets the flag before it takes cs_lock. *)
CprStop ==
  /\ Cpr /\ ~cpr_stop /\ saved = << >>
  /\ cpr_stop' = TRUE
  /\ UNCHANGED <<tvars, svars, evars, cvars, unsafe_driver, saved, hvars>>

(* The test if (cp->c_xid | CALLOUT_EXECUTING): an inclusive or with a     *)
(* constant that is not zero is true of every callout.                     *)
SaveSkips(s) == TRUE

(* The elements of q at the positions in I, in their order. *)
Sublist(q, I) ==
  [n \in 1..Cardinality(I) |-> q[CHOOSE i \in I : Cardinality({j \in I : j <= i}) = n]]
SkippedIn(q) == {i \in 1..Len(q) : SaveSkips(q[i])}

(* The rest of callout_save: copy the table, and move to the copy what is  *)
(* not skipped.                                                            *)
CprSave ==
  /\ cpr_stop /\ saved = << >>
  /\ saved' = <<cs_runtime,
                [b \in 0..(Buckets - 1) |->
                   Reverse(Sublist(cs_bucket[b], (1..Len(cs_bucket[b])) \ SkippedIn(cs_bucket[b])))]>>
  /\ cs_bucket' = [b \in 0..(Buckets - 1) |-> Sublist(cs_bucket[b], SkippedIn(cs_bucket[b]))]
  /\ UNCHANGED <<tvars, cs_freelist, allocated, c, evars, cvars, unsafe_driver,
                 cpr_stop, hvars>>

(* The normal table is restored first and clears the flag for both. *)
CprOtherRestored ==
  /\ Realtime /\ saved # << >> /\ cpr_stop
  /\ cpr_stop' = FALSE
  /\ UNCHANGED <<tvars, svars, evars, cvars, unsafe_driver, saved, hvars>>

(* callout_restore *)
CprRestore ==
  /\ saved # << >>
  /\ cs_bucket' = [b \in 0..(Buckets - 1) |-> Reverse(saved[2][b]) \o cs_bucket[b]]
  /\ cs_runtime' = saved[1]
  /\ cpr_stop' = FALSE /\ saved' = << >>
  /\ epc' = [e \in Executors |-> IF e \in PoolWaiters THEN Woken[epc[e]] ELSE epc[e]]
  /\ UNCHANGED <<lbolt, ticked, cs_curtime, cs_freelist, allocated, c, ecp, ert, soft,
                 cvars, unsafe_driver, hvars>>

-----------------------------------------------------------------------
(* The clients' own steps: an unsafe driver is entered and left; a client  *)
(* learns from its function that the callout has run and drops the id.     *)

EnterUnsafe(x) ==
  /\ x \in UnsafeClients /\ cst[x] \in {"none", "armed"} /\ unsafe_driver = None
  /\ unsafe_driver' = x
  /\ UNCHANGED <<tvars, svars, evars, cvars, cpr_stop, saved, hvars>>
ExitUnsafe(x) ==
  /\ unsafe_driver = x /\ cst[x] \in {"none", "armed"}
  /\ unsafe_driver' = None
  /\ UNCHANGED <<tvars, svars, evars, cvars, cpr_stop, saved, hvars>>
Forget(x) ==
  /\ cst[x] = "armed" /\ runs[x] = 1
  /\ \A s \in InTable : c[s].c_arg # x
  /\ Disarm(x)
  /\ UNCHANGED <<tvars, svars, evars, unsafe_driver, cpr_stop, saved>>

-----------------------------------------------------------------------
ClientStep(x) ==
  \/ UntimeoutNotFound(x) \/ UntimeoutDelete(x) \/ UntimeoutWait(x)
  \/ SpuriousWakeup(x) \/ DelRecheck(x) \/ DelRetake(x)
  \/ EnterUnsafe(x) \/ ExitUnsafe(x) \/ Forget(x)
ExecutorStep(e) ==
  \/ StartThread(e) \/ SoftInt(e) \/ Execute(e) \/ BackToSleep(e) \/ RunFunc(e)
  \/ NestedUntimeout(e) \/ FuncReturns(e) \/ CprWait(e) \/ Finish(e)

Next ==
  \/ \E x \in Clients : ClientStep(x)
  \/ \E x \in Clients : \E d \in Deltas : Timeout(x, d)
  \/ \E e \in Executors : ExecutorStep(e)
  \/ Tick \/ CalloutSchedule
  \/ CprStop \/ CprSave \/ CprOtherRestored \/ CprRestore

Spec == Init /\ [][Next]_vars

(* The clock ticks, runnable threads run, callout functions return, a      *)
(* suspended system is resumed.  unsafe_driver is contended, and a suspend *)
(* may come again and again with time between for the threads it stopped:  *)
(* the steps that either may hold up need strong fairness.                 *)
Fairness ==
  /\ WF_vars(Tick) /\ WF_vars(CalloutSchedule) /\ WF_vars(CprSave) /\ WF_vars(CprRestore)
  /\ \A e \in Executors :
       /\ WF_vars(StartThread(e)) /\ WF_vars(SoftInt(e)) /\ SF_vars(Execute(e))
       /\ SF_vars(RunFunc(e)) /\ WF_vars(FuncReturns(e)) /\ SF_vars(Finish(e))
  /\ \A x \in Clients :
       /\ WF_vars(DelRecheck(x)) /\ SF_vars(DelRetake(x)) /\ WF_vars(ExitUnsafe(x))

FairSpec == Spec /\ Fairness

-----------------------------------------------------------------------
TypeOK ==
  /\ {lbolt, cs_curtime, cs_runtime} \subseteq 0..(TimeMod - 1) /\ ticked \in BOOLEAN
  /\ \A b \in 0..(Buckets - 1) : ToSet(cs_bucket[b]) \subseteq allocated
  /\ ToSet(cs_freelist) \subseteq allocated /\ allocated \subseteq Structs
  /\ \A s \in Structs : c[s].c_arg \in Clients \cup {None} /\ c[s].c_runtime \in 0..(TimeMod - 1)
  /\ \A e \in Executors :
       /\ epc[e] \in {"start", "idle", "wait", "woken", "enter", "func",
                      "selfwait", "done", "cprwait"}
       /\ ecp[e] \in Structs \cup {None}
  /\ \A x \in Clients :
       /\ cst[x] \in {"none", "armed", "delwait", "delwoken", "retake"}
       /\ dcp[x] \in Structs \cup {None} /\ runs[x] \in Nat
  /\ unsafe_driver \in Clients \cup Executors \cup {None}

Running(e) == epc[e] \in {"func", "selfwait"}

(* After untimeout() returns, whatever it returned, the function is not    *)
(* running and will not run: no callout of a client that has none armed    *)
(* is in the table or in the hands of an executor.  This is the DDI's rule *)
(* callout_delete waits for.                                               *)
GoneAfterUntimeout ==
  \A x \in Clients : cst[x] = "none" =>
    /\ \A s \in InTable : c[s].c_arg # x
    /\ \A e \in Executors : ecp[e] # None => c[ecp[e]].c_arg # x

(* A function is not called before the time the client asked for: lbolt    *)
(* has reached lbolt-at-the-call + delta, as cv_timedwait needs.           *)
NotEarly ==
  \A e \in Executors : Running(e) => SDiff(lbolt, due[c[ecp[e]].c_arg]) >= 0

(* A callout armed and not taken back is called once, and it is never      *)
(* lost: it is in the table (or saved by CPR) until it has been called.    *)
RunsExactlyOnce ==
  \A x \in Clients : cst[x] # "none" =>
    /\ runs[x] <= 1
    /\ \/ runs[x] = 1
       \/ \E s \in InTable \cup Saved : c[s].c_arg = x /\ c[s].c_id = handle[x]

(* No callout that is still to run is behind cs_runtime, where the scans   *)
(* would not see it until the clock wraps.                                 *)
NoneBehind == \A s \in InTable : Pending(s) => SDiff(c[s].c_runtime, cs_runtime) >= 0

(* An allocated struct is in exactly one place, once: the free list or the *)
(* bucket its id and its time name.                                        *)
StructsConserved ==
  /\ IsInjective(cs_freelist) /\ ToSet(cs_freelist) \cap InTable = {}
  /\ ToSet(cs_freelist) \cup InTable \cup Saved = allocated
  /\ \A b \in 0..(Buckets - 1) :
       /\ IsInjective(cs_bucket[b])
       /\ \A s \in ToSet(cs_bucket[b]) :
            BucketOf(c[s].c_runtime) = b /\ c[s].c_id[1] = b

(* Nobody sleeps on c_done of a callout that has completed. *)
NoLostDone == \A x \in Clients : cst[x] = "delwait" => StillExecuting(x)

(* Once due, a callout is started or taken back, even when all other       *)
(* callout threads are occupied for good (one executor is enough).         *)
DueIsRun ==
  \A x \in Clients :
    (cst[x] = "armed" /\ runs[x] = 0) ~> (runs[x] = 1 \/ cst[x] = "none")

(* untimeout() returns: a wait for a running callout ends. *)
UntimeoutReturns == \A x \in Clients : (cst[x] = "delwait") ~> (cst[x] = "none")

(* The table keeps the promise of timeout() and untimeout(): a callout is  *)
(* run or taken back, not both; it is run once; untimeout() returns when   *)
(* it is gone.  Between callout_execute's setting of the executing bit and *)
(* its deletion of the callout, the callout is running.                    *)
OwnIn(x, S) == {s \in S : c[s].c_arg = x}
TmoOf(x) ==
  IF cst[x] = "none" THEN "none"
  ELSE IF OwnIn(x, InTable \cup Saved) = {} THEN "done"
  ELSE IF \E s \in OwnIn(x, InTable) : c[s].executing THEN "running" ELSE "armed"
Tmo == [x \in Clients |-> TmoOf(x)]
AT == INSTANCE AbstractTimeout WITH tmo <- Tmo
ImplementsTimeout == AT!Spec

(* The table is sound whatever happens while cs_lock is dropped for a      *)
(* function, a wait in callout_delete() or a suspend: TypeOK, no struct    *)
(* lost or linked twice (StructsConserved), no callout behind the scans    *)
(* (NoneBehind), no untimeout() left asleep (NoLostDone).                  *)
TableSound == TypeOK /\ StructsConserved /\ NoneBehind /\ NoLostDone

=======================================================================
