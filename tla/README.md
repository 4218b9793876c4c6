# Kernel synchronization in Solaris 2.6: a TLA+ verification project

Solaris 2.6 is a whole operating system. This project is about the part of its
kernel that everything else in it blocks on: **sleeping and waking, timeouts,
the locks built on them**, and their most intricate client, **the page layer**,
where a lock, a name and a promise of memory have to agree. The paths below are relative to
`src/os_net/src_ws/usr/src/uts/`.

The code is small, it is executed by every thread, interrupt and CPU at once,
it uses locks only where it must, and its errors show as a thread that never
wakes up. This is where a model checker has most to say and a test least.

## 1. Inventory

### 1.1 The parts of the core

| part | source | state | operations | what makes it correct |
|---|---|---|---|---|
| sleep queues | `common/os/sleepq.c` | a list of threads in dispatch priority order | insert, dequeue, wake one / all, wake one / all of a channel | order, no duplicates, first come first served among equals |
| semaphores | `common/os/semaphore.c` | `s_count`, `s_slpq` | `sema_p`, `sema_p_sig`, `sema_tryp`, `sema_v`, `sema_unsleep`, `sema_changepri` | count and queue agree; units are conserved; signals are not lost |
| condition variables | `common/os/condvar.c` | `cv_waiters`, a hashed sleep queue shared by several variables | `cv_wait` and its timed and interruptible forms, `cv_signal`, `cv_broadcast`, `cv_unsleep`, `cv_changepri` | no missed wakeup, no lost timeout, no callout that outlives its wait |
| callout tables | `common/os/callout.c`, `common/sys/callo.h` | buckets, a free list, `cs_curtime`, `cs_runtime`, callout threads | `timeout`, `untimeout`, the tick, execution, suspend and resume | runs once, not early, not after `untimeout()`; due callouts are run |
| soft calls | `common/os/softint.c`, `sun4u/os/intr.c`, `sun4u/io/autoconf.c` | `softhead`, the pool, `siron_pending` | `softcall`, `softint`, `siron`, `softlevel1` | a queued call is never stranded |
| adaptive mutexes | `sparc/os/mutex.c`, `sparc/v9/ml/lock_prim.s` | owner word, `m_waiters` | enter, tryenter, exit, destroy, `mutex_unsleep`, `mutex_changepri` | no lost wakeup although exit takes no lock |
| turnstiles | `common/os/turnstile.c`, `common/os/tblock_sobj.c` | a pool of queues lent to objects with sleepers | alloc, free, lookup by id, `t_block`, `t_release` | a turnstile serves one object; a stale id does no harm |
| priority inheritance | `common/os/prioinherit.c`, `common/os/pirec.c` | a record per turnstile, `t_epri` | `pi_willto`, `pi_waive`, `pi_changepri` | an owner inherits from its sleepers and keeps that until it releases; what is inherited is given back |
| readers-writer locks | `sparc/os/rwlock.c` | `holdcnt`, `writewanted`, `owner`, `waiters`, a turnstile with two queues | enter, tryenter, exit, downgrade, tryupgrade, destroy, `reader_changepri`, `writer_changepri` | one writer or many readers; no sleeper is forgotten between the mutex that guards the counts and the lock that guards the turnstile |
| page locks and page identity | `common/vm/page_lock.c`, `common/vm/vm_page.c`, `common/vm/vm_pvn.c` | `p_selock`, `p_cv`, the i/o lock; name, hash chain, free and cache list | lock, unlock, upgrade, downgrade; lookup, create, rename, free, destroy, reclaim | the page a search returned has the name asked for; no sleeper waits for a page that lost its name |
| free page accounting | `common/vm/vm_page.c`, `common/vm/vm_anon.c` | `pcf[]` (count, wait, block, reserve), `freemem_wait`, `freemem_cv` | claim, throttle, find, free, reclaim, put back | no more pages are promised than there are; who sleeps for memory is counted everywhere |

`PROJECT.json` ("components") also lists the parts of the system that are
outside the core, with the reason why they are left out.

### 1.2 How they interact

```
   threads ---- mutex_enter/exit ----> adaptive mutex --- turnstile --- priority inheritance
      |                                     ^                               | pi_changepri()
      |---- cv_wait/cv_signal ---> condition variable --- hashed sleep queue| requeues a sleeper
      |          | realtime_timeout()/untimeout()  ^                        v   wherever it sleeps
      |          v                                 | setrun()
      |     callout table  <--- clock() ---> softcall(realtime_timein)
      |          ^                                 |
      |          +---- softint() <--- level 1 interrupt <--- siron()
      |---- sema_p/sema_v ---> semaphore (its own sleep queue) <--- biodone() from interrupts
      |---- rw_enter/rw_exit -> readers-writer lock --- turnstile --- priority inheritance
      +---- page_lookup, page_create_va, page_free ... --> page locks (p_cv), hash mutexes
                                 | a page is claimed first, then found
                                 v
                            free page accounting (pcf[]) --- freemem_cv
```

* Every sleeping thread is on exactly one queue. `setrun()` and `pi_changepri()`
  reach it there through the object's `unsleep` and `changepri` operations.
* `cv_timedwait` uses a callout whose function is `setrun()`. The realtime table
  is run by a soft call, the normal one by threads that wait on a condition
  variable.
* Unsafe (not MT-safe) drivers run under one mutex, `unsafe_driver`. `sema_p`,
  `untimeout` and the functions that callouts and soft calls run for such a
  driver drop and take it.
* A page that is created is first claimed in `pcf[]`, then looked for on the
  lists, then named under the mutex of its hash chain; a page that is freed is
  put on its list first and counted after. `page_reclaim` claims a page that is
  already found.
* A panic (`panicstr`) switches blocking off: every primitive has a branch for it.

### 1.3 What is hard

The list is in `PROJECT.json` under "hazards", each at its line with the
properties that would catch it. By theme:

* **Windows between unlocked steps**: `mutex_exit` clears the owner and then
  loads `m_waiters`; `siron` tests and sets `siron_pending` without a lock;
  `cv_signal` previews `cv_waiters`; a signal or a callout arrives between
  preparing to sleep and sleeping; `rw_enter` looks at the counts with the
  turnstile's lock and without theirs; `page_lookup` searches a hash chain
  without its mutex.
* **State that is stale when it is used**: the turnstile id, the callout struct
  `untimeout` waited on, `cs_runtime` after a function ran, the owner a priority
  record names, the name of a page after a sleep for it, `pcf_block` before
  `pcf_lock` is taken.
* **Boundaries**: `lbolt` and callout times wrap; counts around zero; pools of
  turnstiles and softcall structures; the last pages.
* **Waiting for each other**: `untimeout` from a callout's own function, and the
  `unsafe_driver` mutex around any sleep; two renames that want each other's page.
* **Suspend and resume** of the callout table while callouts run.

## 2. The modules

| module | models | remarks |
|---|---|---|
| `SleepQ` | `sleepq.c`, `DISP_PRIO` | operators on sequences, shared by all others |
| `SleepQProofs` | | lemmas about insertion, removal, the walk of a channel and order; all that sleeps rests on them |
| `Sema` | `semaphore.c`, with the callers that post, signal or change priorities | one step per region under the queue's dispatcher lock |
| `AbstractSema` | what a counting semaphore promises | `Sema` implements it |
| `SemaProofs` | | theorems about `Sema`, and that it implements `AbstractSema` |
| `UnsafeDriver` | the `unsafe_driver` mutex | a declaration that `Callout` and `Softcall` share |
| `Callout` | `callout.c` for one table (constant `Realtime`), the clock's tick, CPR | one step per region under `cs_lock` |
| `AbstractTimeout` | what `timeout` and `untimeout` promise | `Callout` implements it, `CondVar` is built on it |
| `CalloutProofs` | | theorems about `Callout`, that it implements `AbstractTimeout`, and theorems about `Softcall` |
| `CondVar` | `condvar.c`, `sleepq_wakeone_chan` and `_wakeall_chan`, used by monitors | one step per region under the sleep queue's lock |
| `CondVarProofs` | | theorems about `CondVar` |
| `Softcall` | `softint.c`, `siron`, `softlevel1` on several CPUs | `siron`'s test, set and post are separate steps |
| `Mutex` | adaptive mutexes, turnstiles, inheritance, together | the grain is the single load or compare-and-swap |
| `MutexProofs` | | theorems about `Mutex` |
| `RWLock` | `rwlock.c`, with its turnstile, `pi_amend` and `pi_waive` | one step per region under `mp` or `rw_wlock`; each is a variable |
| `AbstractRWLock` | what a readers-writer lock promises: exclusion, and writers before new readers | `RWLock` implements it |
| `RWLockProofs` | | theorems about `RWLock`, and that it implements `AbstractRWLock` |
| `Page` | `page_lock.c` and the part of `vm_page.c` that finds, creates, renames, frees and destroys pages, with `pvn_vplist_dirty` | one step per region under `pse_mutex` |
| `PageProofs` | | theorems about `Page` |
| `FreeMem` | the accounting in `vm_page.c`: `pcf[]`, `page_create_wait`, `page_create_get_something`, `page_create_putback`, and the claim for large pages in `vm_anon.c` | one step per region under the `pcf` locks |
| `FreeMemProofs` | | sums over finite sets, and theorems about `FreeMem` |
| `MC*` | small instances for TLC | priorities by name, symmetry sets |

The composition follows the code. `CondVar` uses `AbstractTimeout` for its
callouts rather than a whole `Callout` table; `Callout` is shown to implement
`AbstractTimeout`, so what `CondVar` relies on is what the table provides.
`SleepQ` is common to semaphores, condition variables and turnstiles as in the
code. `Page` and `FreeMem` look at the same functions from two sides: in `Page`
the accounting is `Unclaimed`, the pages on the lists and those on their way back
to them less the claims, which is what `pcf[]` counts at most: `PagesCovered` of
`FreeMem` shows that the buckets grant no more than that. The properties and
theorems of `Page` do not depend on the test. In `FreeMem` a page is one of so
many, without lock or name. `Callout`'s realtime table is started by
the step `SoftInt`, which has the promise that `Softcall` establishes: a request
is followed by a start. The two modules share the mutex they both take,
`unsafe_driver`, and one module of proofs; the specification in `Softcall` is
therefore called `SoftcallSpec`.

State variables carry the names of the fields they stand for (`s_count`,
`cs_runtime`, `pi_epri_hi`, `m_waiters`); a thread's program counter says
between which two steps of the C code it stands. `map` in `PROJECT.json` gives
the lines of every definition.

### What is abstracted, and why it may be

* *Dispatcher locks.* A region under a dispatcher spin lock that all accesses
  take is one step. Where the lock is held from one step to another and matters
  (`ts_wlock` of a turnstile, which is also the thread lock of its sleepers;
  `softcall_lock`, which keeps interrupts off its holder) it is a variable.
* *Memory order.* Steps are sequentially consistent. `mutex_exit` relies on the
  store-load barrier it executes, and the model takes it as effective.
* *The dispatcher.* Which runnable thread runs next is left open, so is whether
  the owner of a mutex is on a CPU (spin or block).
* *Callout ids.* `callo.h` computes that an id does not come round while somebody
  can still hold it; the model hands out ids no client holds, as small numbers
  that are used again as soon as the code would allow.
* *Times* are numbers modulo `TimeMod` compared by signed difference, as longs
  are; the clock may run at most `MaxLag` ticks ahead of the oldest work.
* *Functions* a callout or soft call runs are a client's name. A callout
  function may call `untimeout` on its own id (`NestedUntimeout`).
  A function that `softlevel1` runs under `unsafe_driver` may call `softcall` in
  turn, and its request is then one of an unsafe driver.
* *`softlevel1`* may itself be registered as an unsafe handler, and then releases
  `unsafe_driver` around the functions; that registration is not modelled. Each
  CPU is in one `siron()` at a time.
* *Mutex sleepers.* In `Mutex` a thread sleeps for mutexes only, so the walk of
  `pi_willto` ends at a thread that is awake; owners that sleep on other objects
  have their priority changed in `Sema` and `CondVar` (`PiChangePri`,
  `CvChangePri`). Threads block for mutexes in a global order, as locking
  hierarchies require (the code panics otherwise); `mutex_tryenter` needs none.
* *Priorities at sleep.* `CL_SLEEP`, by which a scheduling class may give a thread
  a kernel priority as it goes to sleep, is left out: a thread's own priority is
  the one it has when it is queued. Later changes by the class are
  `ClassChangePri` of `Sema`.
* *Who calls.* An interrupt that posts a semaphore (`biodone`), a signal
  (`eat_signal`, which runs a sleeper with `T_WAKEABLE`) and a trap that calls
  `siron` (`kpreempt`) are steps of the environment, mapped to the operation of
  the object that they perform. A signal, `HOLDFORK` and `lwp_sysabort` are one
  cause to break off a sleep; that `sema_p_sig` clears `lwp_sysabort` before it
  sleeps only takes causes away, which a model where none may come covers.
* *The end of a turnstile* (`TstileFree`) is one step. `pi_waive` clears the
  record and lowers the owner one after the other, with `ts_wlock` held, which
  everybody takes who reads both.
* *The turnstile pool* has a fixed size; `tstile_more` is not an action.
* *Readers-writer locks.* There is one lock, so the mutex hashed from its address
  is its own; a collision of two locks there only excludes more. Nobody enters
  the lock that holds it, so an owner is awake as far as this lock goes, and
  inheritance through it ends there; a thread asleep for it may inherit through
  something else that it holds (`ChangePri`), and gives that up later. A panicked
  system does not block: `rw_enter` then returns without the lock (`lost`).
* *Pages.* A name stands for a vnode and an offset. A caller holds at most one
  page from one call to the next and asks for no other while it does, which is
  the order the callers keep; `page_create_va` is asked for one page, so the loop
  that gives back the pages it has so far when `PG_EXCL` finds a name taken is
  only in `FreeMem`, where requests are for several. `page_destroy` with `dontfree`
  returns the page, without its name, to its caller. The search without the hash mutex returns any page
  that has the name, on the chain or just off it, or misses it. Mappings, `p_lckcnt`
  and the links of the vnode's list are left out: `pvn_vplist_dirty` comes to any
  page that has a name, which is more than the list would show it.
* *`freemem`* is added to and subtracted from by everybody without a lock, so that
  no test of it can be relied on: in `FreeMem` every such test goes either way.
  A request has `PG_WAIT`, `PG_EXCL` or both, as the callers pass them.
  `page_create_get_something` finds its page in time: its bound of `MAX_PCGS` rounds
  and the panic behind it are left out, and `PagesCovered` is the claim that there
  is a page to find.
  The cage of `nopagereclaim` and the pageout daemon's scan are left out; the
  daemon is one more caller of `page_free`. `pcf_wait` is never brought down
  again after some wakeups; `MaxWait` bounds it.

## 3. Runs

Each run asks one question. Every property has a mutant: a definition of the
model changed as a slip in the code would change it, which the property catches.

| run | instance | shows |
|---|---|---|
| `sema_p` | 3 threads, 2 priorities, 2 unsafe drivers, inheritance, panics, up to 2 units | count and queue agree; `StateSound`: units are conserved, the queue is in order, `unsafe_driver` is never kept across a sleep; `Sema` implements `AbstractSema` |
| `sema_sig` | 2 interruptible threads, 1 plain one, signals at any time | the count accounts for every claim, the queue stays sound, no signal is lost |
| `sema_sig_panic` | as above | **violation**: the finding of section 5 |
| `callout_rt` | realtime table, 2 clients, 2 CPUs, suspend and resume, times that wrap | nothing early, twice or after `untimeout` returned; `TableSound`: no struct is lost or used twice, none is left behind `cs_runtime`, no `untimeout` is left asleep |
| `callout_live` | normal table, 1 callout thread, 1 client in an unsafe driver, suspends | implements `AbstractTimeout`; due callouts are run; `untimeout` returns |
| `cv_wait` | 3 waiters of 2 variables on one queue, 2 signallers, inheritance, panics | no missed wakeup; the sleeper woken is the right one; `CvSound`: counts match the queue |
| `cv_timed` | `cv_timedwait` and `cv_timedwait_sig` against clock, callouts and signals | `TimedSound`: no lost timeout; no lost signal; no callout outlives its wait; -1 means that the time has come; timed waits return |
| `softcall` | 2 CPUs, traps that call `siron`, an unsafe driver | queued calls are never stranded, requests are served, merging saves the pool |
| `mutex_sleep` | 3 threads of 3 priorities, 2 mutexes, 2 turnstiles, `setrun`, destroy, panics | no lost wakeup; an owner keeps what it inherits; `MutexSound`: a turnstile serves one mutex, and who inherits is on record |
| `rwlock` | 3 threads of 3 priorities, every operation, inheritance through another lock, panics | no lost wakeup; `LockSound`: the counts, the turnstile and the readers' kernel priority agree; implements `AbstractRWLock`; the thread of the highest priority is woken |
| `page` | 3 threads, 2 pages, 2 names | locks have the holders they count; the page returned has its name; no sleeper is forgotten or waits for a name that is gone; no two renames wait for each other |
| `freemem` | 3 threads, 3 pages, 3 buckets, requests for 2 pages and a large page of 3 | no more is promised than there is; `CountsSound`: sleepers are counted in every bucket, a blocked bucket will be opened |

Deadlock is checked except in `rwlock`, where a panicked system may stop with the
lock held, and in `freemem`, where all threads may sleep for memory and none is
left to free a page.

### Bounds

*Threads.* The races of the semaphore and the condition variable are between a
sleeper, another sleeper ahead of or behind it on the queue, and whoever wakes
or signals; three threads give all orders. Blocking chains need two mutexes and
three threads. A readers-writer lock needs a holder, a writer on its way to sleep
and a reader behind it; three different priorities make the order of the queues
and what is inherited tell.
*Time.* `TimeMod = 6` with `StartTime = 4` and two buckets makes time wrap within
two ticks and makes two different times share a bucket. `MaxLag` bounds how far
the clock outruns the callout threads. `Deltas` are the delays clients ask for:
0 (clamped to the next tick) and 1. *CVs.* Two variables on one queue is the
smallest collision. *Units.* `MaxSupply = 2` passes through positive, zero and
negative counts with both kinds of caller. *Softcall.* One function with one
structure makes a second CPU coalesce, or use the structure as soon as it is
freed; the theorems of `CalloutProofs` cover any number. *Pages.* Two pages and
two names are what a rename over an existing page and a rename the other way
need; the third thread searches, frees or sleeps meanwhile. *Free pages.* Three
pages in three buckets: a request for two must collect from several buckets, the
large page of three takes all, and with `page_create_putback` goes back to each of
them. `MaxWait = 2` lets two threads be counted, and a stale count stay.

### Fairness

* `Callout`: the clock ticks and calls `callout_schedule`; runnable threads run
  and callout functions return (weak fairness); a suspended machine is resumed.
  Steps that `unsafe_driver` or a series of suspends can hold up again and again
  are strongly fair: `unsafe_driver` is an ordinary mutex whose sleepers are
  woken (`SleeperIsWoken` of `MCMutex`), and between suspends the threads run.
* `CondVar`: weak fairness of thread steps and of callouts (which is `DueIsRun`
  of `Callout`); strong fairness of re-entering the contended mutex.
* `Softcall`: an interrupt that is posted is taken and a function returns, even
  if the CPU is called away to `softcall()` again and again (strong); the unsafe
  driver leaves its mutex (weak).
* `RWLock`: strong fairness of the steps of a call under way (`mp` and `rw_wlock`
  are held for a few instructions and not kept from one thread for ever) and of
  `rw_exit`: who has the lock gives it back. `WaiterIsWoken` is about the thread
  of the highest priority, since among different ones starvation is by design,
  and for a reader about the time when writers stop asking.
* `Mutex` (`FairSpec` of `MCMutex`): strong fairness of threads inside enter and
  exit and weak fairness of `mutex_exit`. `SleeperIsWoken` holds with three threads
  of one priority, one mutex, one turnstile and no panics (`OnePri`,
  `Mutexes = {1}`, `Panics = FALSE`): barging does not keep a sleeper asleep. It
  has no run of its own.
* Nothing is assumed fair about callers: nobody has to call `timeout`, `sema_v`
  or `cv_signal`.

## 4. Proofs

`tlapm` checks every proof down to the last leaf. The theorems hold for any
number of threads or CPUs and all values of the constants that satisfy the
modules' `ASSUME`s.

In each component the argument has the same shape: an inductive invariant
(`Inv`, or `IInv`), stated as a conjunction of named parts, of which TLC found
the strengthening first; `InvInit`; one lemma per part and kind of step; and the
properties of the runs as consequences. What the parts are for:

**`SleepQProofs`**: the insertion loop stops at the position `InsertPos` names;
insertion adds one thread, keeps all others and keeps the order; removal takes
out exactly the thread named; the walk of `sleepq_wakeone_chan` and
`_wakeall_chan` (`SleepqTakeOff`, a recursive function) takes off exactly the
threads named and leaves the rest in order. The library's induction theorems
take an operator and cannot be used here; induction is by a least
counterexample (`LeastNatural`, from the well-foundedness of `<` on `Nat`).

**`SemaProofs`**
* `SemaSound`: `Spec => [](TypeOK /\ QueueSound)`, with signals, priority changes
  and panics. Inductive as it stands, because `QueueSound` ties the queue to the
  program counters: who is about to block cannot be on the queue.
* `SemaAccounts` (`CountAccounts`) and `SemaSignals` (`NoLostSignal`), for any mix of
  `sema_p` and `sema_p_sig`: the count is what the threads' places say, by counting
  claimants before and after the step.
* `SemaCount`, `SemaStateSound` and `SemaRefinement` if no thread calls
  `sema_p_sig` (the finding of section 5 is what happens otherwise): count and
  queue agree and `sema_v` does not panic; units are conserved; every step is one
  of `AbstractSema` or a stutter. `SemaOrder`, and the order in `SemaStateSound`,
  assume that no class changes `t_pri` of a sleeper (`PriocntlThreads = {}`; the
  code does not requeue, see section 5).

**`CondVarProofs`**, from `CondVarInv`
* `CondVarSound` (`CvSound`): `QueueOK` and `CountOK`. That several variables share
  one queue is why the count is of the threads whose `t_wchan` it is.
* `CondVarTimed`, `CondVarNoStaleSetrun`, `CondVarTimeoutHonest`: `CalloutOK` ties the
  callout to the place of the thread that armed it. It is needed because
  `TimedSound` speaks of a thread asleep and the callout may fire before it gets
  there: the time it was armed for, not the time left, is what stays true.
* `CondVarNoSleepOnSignal` (`NoSleepOnSignal`).
* `CondVarNoMissedWakeup`, if no waiter is interruptible. With interruptible ones a
  waiter that a signal breaks off may have used up a `cv_signal`, by design.
* `CondVarWakesHighest`: the action property `SignalWakesHighest`, from the order of
  the queue.

**`CalloutProofs`**, about `Callout`, from `IInv` and, for times, `TInv`
* `GoneAfterUntimeoutHolds` (`GoneAfterUntimeout`) and `RunsExactlyOnceHolds`
  (`RunsExactlyOnce`). Neither is inductive: each speaks of a client or a function,
  and what is true of them depends on a struct that three parties point at. The
  parts of `IInv` say so from each side: `StructsConserved` (a struct is in one
  place), `FreeOK` (one that is not in the table is cleared), `OwnOK` (a callout in
  the table belongs to a client that holds its id, which has no other), `ExecOK` (an
  executor and the callout in its hands point at each other), `RunsOK` (how often
  its function has been called), `WaitOK` (who sleeps in `callout_delete` does so for
  its own callout, and that is executing). `IdsOK` is why the test after the wakeup
  is enough: ids in clients' hands differ, so a struct that was freed and handed out
  again has an id that is not the waiter's. The scans are proved over lists:
  `UnlinkProperties` (taking one struct out loses no other and keeps their order) and
  `BehindProperties` (where the scan goes on).
* `TableKept`: the part of `TableSound` that is not about times, for any delays.
* `TimeoutRefinement` (`ImplementsTimeout`): `Spec => AT!Spec`. `timeout()` is `Arm`,
  the deletion in `callout_delete` is `Cancel`, the returns that find nothing to
  delete are `Drop`, a step of a scan, which may finish one callout and take the
  next in one region under `cs_lock`, is one `Run`; ticks, wakeups, waits, suspends
  and the drivers' use of `unsafe_driver` are stutters. A suspend stutters because
  `callout_save` moves nothing (section 5).
* `NotEarlyHolds` (`NotEarly`) and `TableSoundHolds` (`TableSound`), with the
  hypothesis `ShortDelays`: every delay and `MaxLag` together are less than half
  the range of a long. It cannot be dropped. The sign of the difference of two longs tells
  which is later only within half their range, and without it TLC finds a callout
  that runs early (section 5). On a 32-bit kernel the condition is a delay of less
  than 2^31 ticks, some 248 days at 100 ticks a second, less the lag. The instances of the runs meet it:
  `MCCallout` has it as an assumption. `TimeInv` adds to `IInv` where the clocks are
  (`ClockOK`; `LagOK`: the table's time, that which a resume will put back, and the
  times in executors' hands are within the lag of `lbolt` and at most one ahead),
  that a callout still to run is not behind a scan and not further ahead than a
  delay allows (`PendOK`), that it runs at the time asked for or one tick later
  (`DueOK`), and that what an executor has passed in its bucket is not ready at its
  time (`AheadOK`). The last is what makes it right to advance `cs_runtime` at the end of
  a scan although others inserted and deleted while the lock was dropped:
  `callout_insert` puts new callouts at the head, behind the scan, but for a later
  tick than the one being scanned.

The same module, about `Softcall`
* `SoftcallNoneStranded`, `SoftcallPendingPosted`, `SoftcallPoolSuffices` and
  `SoftcallOwedIsQueued` from one invariant `SoftcallInv`: types, `NoneStranded`,
  `PendingIsPosted`, the conservation of structures and the absence of duplicates
  on the queue. `NoneStranded` alone is not inductive. `siron()` may find
  `siron_pending` set and do nothing, and that this is safe is `PendingIsPosted`:
  somebody's interrupt is still to come, and it will clear the flag *before* it
  looks at the queue. `SoftcallPoolSuffices` is a pigeonhole argument: the queue
  has no duplicates, so if it is as long as the pool and the new function is not
  on it, there are more functions than structures.

**`MutexProofs`**, from `MutexInv`
* `MutexSoundHolds` (`MutexSound`): a turnstile serves one mutex, and who inherits
  through it owns that mutex or will waive. Neither is inductive: both rest on
  the discipline of `ts_wlock`, which `LockOK` states (it is held from step to step
  by who is past the test of `ts_sobj`, in `pi_willto` with the waiter's turnstile,
  or about to free one) and from which it follows that a turnstile's queue, mutex
  and record change under it only. `Serves` is what a thread in `mutex_exit` still
  owes; `DestroyOK` is why `mutex_destroy` finds nobody asleep. The walk of
  `pi_willto` moves the lock from one turnstile to the next, and `OthersNext` is the
  one frame lemma for all actions.
* `MutexNoLostWakeup` (`NoLostWakeup`): who sleeps has compared the owner word after
  `m_waiters` was set (`owner_lock` is not zero then), so the mutex was owned; the
  owner that clears the word loads `m_waiters` after; and the thread that
  `mutex_adaptive_release` takes off the queue is the next to care.
* `MutexInheritedKept` (`InheritedKept`): what a turnstile's record grants to the
  owner of its mutex, the owner has. `pi_willto` raises the record it finds even if
  that names a previous owner, and gives the priority to the present one; so the
  proof adds `PilockOK`: while a thread has the turnstile locked between finding the
  owner and raising it, a record that names another names one that does not own the
  mutex, and cannot come to own it before it has been through
  `mutex_adaptive_release`, which waits for that lock. `WaiveLeaves`: what
  `pirec_calcpri` computes is no less than any record that is left.
* That an owner outranks every sleeper is more than this, and false: the attempt to
  prove it led to the finding `OwnerOutranks` of section 5. Three threads, or one
  mutex, do not show it.

**`RWLockProofs`**, from `RWLockInv`
* `RWLockSound` (`LockSound`): `PlaceOK` says where `mp` and `rw_wlock` are held and is
  what makes a retest under one of them conclusive; `CountOK`, `OwnerOK`, `QueueOK`,
  `AttachedOK`, `BenefOK` are the fields against the threads' places.
* `RWLockNoLostWakeup` (`NoLostWakeup`): split by who sleeps. A sleeping reader has a
  writer that holds or wants the lock, a sleeping writer has a holder; or a thread
  awake in `rw_exit`, `rw_downgrade` or `rw_enter` is about to look.
* `RWLockRefinement`: every step is one of `AbstractRWLock` or a stutter.

**`PageProofs`**, from `PageInv`
* `PageLocksSound`, `PageNamesSound`, `PageWaitersNotLost`, `PageWaitsForItsName`,
  `PageNoWaitCycle`. None is inductive: a page that is being renamed or freed has
  fields that do not agree, and they are out of reach only because its holder has
  it exclusively. `Shape`, `SpareOK` and `HeldOK` say at each place which pages the
  thread has and how far their fields have come; `LockSound` that the lock word
  counts the holders; `PhmOK` whose hash mutex is held and what it protects. One
  frame lemma (`OthersStep`, `FieldsKeep`: a step changes only pages that are
  unlocked or its own) serves all actions.

**`FreeMemProofs`**, from `FreeMemInv`
* `FreeMemPagesCovered` (`PagesCovered`) and `FreeMemCountsSound` (`CountsSound`). First
  the lemmas on sums over finite sets, by induction on a smallest set
  (`SumAdd`, `SumChange`, `SumNat`); with them a step of one thread changes each sum
  by its own part. `CoalesceTakes`: `page_create_wait` takes exactly the request,
  however it is spread over the buckets. `PutbackEnds`: lumps of the rounded-up
  size use up the claim by the last bucket. `PagesOK` adds that locked pages are on
  the lists and that what threads hold fits, without which `page_reclaim` could
  drive the number of listed pages below zero; `WaitOK` that who is on `freemem_cv`
  has not come back yet, without which `freemem_wait` could be zero with somebody
  asleep; `PcgsOK` that `pcgs_lock` is held just inside
  `page_create_get_something`; `Shape` what of the claim is left at each place.

Only model-checked, being out of the prover's reach: all liveness properties
(`TimedWaitReturns`, `RequestIsServed`, `WaiterIsWoken`, `DueIsRun`,
`UntimeoutReturns`), which need fairness. Every other property of a passing run is
the statement of a theorem. `StateSound`, `NoMissedWakeup` and
`ImplementsAbstractSema` are checked by TLC on instances that satisfy the
hypotheses of their theorems.

## 5. Findings

**`sema_p_sig` against `sema_v`** (`semaphore.c:334`, run `sema_sig_panic`). A
signal takes a sleeper off `s_slpq` at once, but its claim stays in `s_count`
until the thread runs. A `sema_v` in between sees a negative count and an empty
queue and panics.

TLC shows further disagreements between code and comments, on other instances of
the same modules. They have no run of their own; the properties are in the
modules named, and the instance is what a `.cfg` has to say:

| property | instance | what it shows |
|---|---|---|
| `CprMovesPending` (`MCCallout`) | `MCCallout_live.cfg` with `Clients = {x1, x2}`, `UnsafeClients = {}`, `Executors = {e1, e2}`, `Structs = {s1, s2}` | the test `c_xid \| CALLOUT_EXECUTING` is always true, so `callout_save` moves no callout to the saved table (`callout.c:559`, the comment at 554); they survive the suspend in the live one |
| `NoLeak` (`MCMutex`) | four threads (`Pri <- FourThreads`), `Mutexes = {1}`, two turnstiles, `Panics = FALSE` | a turnstile's record can still name a previous owner that is inside `mutex_exit`; `pi_willto` raises that record but the priority of the present owner, who has no record and keeps the priority after it released every mutex (`prioinherit.c:160`; the comments at 273 and at `turnstile.c:352`) |
| `OwnerOutranks` (`MCMutex`) | four threads (`Pri <- FourThreads`), `Mutexes = {1, 2}`, two turnstiles, `Panics = FALSE`, `CONSTRAINT Handover` | a thread that is woken for a mutex does not inherit from those still asleep for it. It is woken first for what it inherits through another mutex; when it releases that one, `pi_waive` takes it down to its own priority, below a thread asleep for the mutex it keeps, and nothing is on record for that (`sparc/os/mutex.c:475`; `pi_inheritfrom` is there for this case, as the comment at `prioinherit.c:214` says, and only writer locks call it; the comment at `common/sys/thread.h:394` counts on inheritance for mutexes) |
| `WriterOutranks` (`MCRWLock`) | `MCRWLock.cfg` with `SPECIFICATION Spec`, `PiThreads = {}`, `Panics = FALSE` | `rw_tryenter` and `rw_tryupgrade` make a writer of a thread and call no `pi_amend`: it does not inherit from the readers asleep (`rwlock.c:437`, `513`; the comment at `common/sys/thread.h:394`) |
| `BlockedCountsNothing` (`MCFreeMem`) | `MCFreeMem.cfg` | `page_create_putback` looks at `pcf_block` before it takes `pcf_lock`; what it then counts in a blocked bucket is overwritten by `pcgs_unblock`, and those pages are promised to nobody any more (`vm_page.c:914`, the `ASSERT` at 971) |
| `NoSleeperWithUnits` (`MCSema`) | `MCSema_sigpanic.cfg` with this invariant | a `sema_p_sig` waiter that `sema_v` woke finds a signal after another thread has queued; it puts the unit back with `s_count++` and wakes nobody, the next `sema_v` finds the count at zero and wakes nobody either, and a thread sleeps with the count at one (`semaphore.c:298`; the comment at 227: the semaphore "is granted when the semaphore's count is greater than zero"). `CountAccounts` holds all the while: it says that each claim is given back once, not that the unit reaches the next thread |
| `QueueInPrioOrder` (`Sema`) | `PriocntlThreads = {t1, t2}`, `Pris = {1, 2}` | `rt_parmsset` changes `t_pri` of a sleeper and leaves its place in the queue (`common/disp/rt.c:696`; `sleepq.c:57` says that the first is the highest) |
| `NotEarly` (`Callout`) | the instance of `CprMovesPending` with `Deltas = {2}` (half of `TimeMod` less one: the largest long) and without the assumption `DelaysAreShort` of `MCCallout` | `lbolt + delta` overflows when `lbolt` is ahead of `cs_curtime`, and the callout runs at the next tick (`callout.c:157`, the comment at 153) |
| `TimedSigReturns` (`MCCondVar`) | as `MCCondVar_timed.cfg` | `cv_timedwait_sig` returns the ticks left, not 1, when it is signalled (`condvar.c:329`, the comment at 248) |
| `UnsafeHonoured` (`MCSoftcall`) | three functions, three structures | a request made with `unsafe_driver` held is merged into one made without and runs without the mutex (`softint.c:62`, the comment at 71) |
| `PoolNotEmpty` (`MCMutex`) | two threads, mutexes `1..5`, four turnstiles, one priority | one thread comes to hold four mutexes, each with an empty turnstile attached, and `tstile_alloc` finds none (`turnstile.c:266`; `tstile_more`, 201-211, keeps the pool two larger than the number of threads) |

Reading the page layer for the models also showed, without a property of their own:

* A creator with `PG_WAIT` that finds its page on the cache list holds that page and
  the spare one for a while, against the comment at `vm_page.c:1647`, which counts
  one page per claim.
* `page_free` wakes one sleeper per page, and a sleeper that needs two pages may use
  up the wakeup of one that needs one (each waits for its entire request,
  `vm_page.c:784`); the throttle sleeps without looking at `freemem` again under the lock.
* An exclusive page lock asks for kernel priority when it is taken and gives it back
  when it is released, but `page_tryupgrade` (`page_lock.c:452`) makes one without
  asking and `page_downgrade` (475) unmakes one without giving back.
* "XXX Could deadlock" before `page_rename` (`vm_page.c:1886`) cannot happen: the page
  that is renamed loses its name before the other page is waited for
  (`NoWaitCycle`).

## 6. Plan

Done: sleep queues, semaphores, callouts, condition variables, soft calls,
adaptive mutexes with turnstiles and inheritance, readers-writer locks, page
locks and identity, free page accounting; proofs about all of them.

Next, in this order:

1. `Callout` with executors as clients: two callout functions that call
   `untimeout` on each other's id; `CondVar` composed with a real `Callout`.
2. `tstile_more` as an action of `Mutex`, and a chain of inheritance through mutexes
   and readers-writer locks.

Not modelled of the parts that are: `page_numtopp` (a page by its frame number,
`page_lock` once more), `page_exists` and `page_find`, which lock nothing; the
statistics and driver types of mutexes and readers-writer locks;
`reader_unsleep` and `writer_unsleep`, which no caller reaches.

Left out for good: the dispatcher's run queues, signal delivery, the memory
allocator, record locks, doors, STREAMS, file systems, the network, user land.
They are clients of this core or projects of their own; `PROJECT.json` gives the
reason for each.
