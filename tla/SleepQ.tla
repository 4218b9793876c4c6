---------------------------- MODULE SleepQ ----------------------------
(***************************************************************************)
(* The sleep queue operations of uts/common/os/sleepq.c.  A sleepq_t is a  *)
(* list of threads linked through t_link, kept in dispatch priority order; *)
(* here it is a sequence without duplicates.  The semaphore's own list     *)
(* s_slpq (uts/common/os/semaphore.c) is kept by textually the same loops. *)
(***************************************************************************)
EXTENDS Naturals, Sequences

(* The position the insertion loop stops at: the first thread whose        *)
(* dispatch priority is below that of c, or the end of the list.  Threads  *)
(* of equal priority are passed, so equals queue first come first served.  *)
InsertPos(q, c, prio) ==
  CHOOSE i \in 1..(Len(q) + 1) :
    /\ i <= Len(q) => prio[c] > prio[q[i]]
    /\ \A j \in 1..(i - 1) : prio[c] <= prio[q[j]]

(* sleepq_insert: put c into q in dispatch priority order. *)
SleepqInsert(q, c, prio) ==
  LET i == InsertPos(q, c, prio)
  IN  [k \in 1..(Len(q) + 1) |->
         IF k < i THEN q[k] ELSE IF k = i THEN c ELSE q[k - 1]]

OnQueue(q, t) == \E i \in 1..Len(q) : q[i] = t

(* sleepq_dequeue and sleepq_unsleep: unlink t from q wherever it stands;  *)
(* a t that is not found leaves q alone.                                   *)
SleepqDequeue(q, t) ==
  IF OnQueue(q, t)
  THEN LET i == CHOOSE i \in 1..Len(q) : q[i] = t /\ \A j \in 1..(i - 1) : q[j] # t
       IN  [k \in 1..(Len(q) - 1) |-> IF k < i THEN q[k] ELSE q[k + 1]]
  ELSE q

(* The loop of sleepq_wakeone_chan and sleepq_wakeall_chan: q is walked     *)
(* from its head, and the threads of S are unlinked from it.               *)
SleepqTakeOff(q, S) ==
  LET left[n \in 0..Len(q)] ==
        IF n = 0 THEN << >>
        ELSE IF q[n] \in S THEN left[n - 1] ELSE Append(left[n - 1], q[n])
  IN  left[Len(q)]

(* The threads on q, as a set. *)
Sleepers(q) == {q[i] : i \in 1..Len(q)}

(* DISP_PRIO: the inherited priority when there is one, else the assigned. *)
DispPrio(t_pri, t_epri) ==
  [t \in DOMAIN t_pri |-> IF t_epri[t] # 0 THEN t_epri[t] ELSE t_pri[t]]

(* No thread is on the queue twice. *)
Distinct(q) == \A i, j \in 1..Len(q) : q[i] = q[j] => i = j

(* The queue is in dispatch priority order. *)
InOrder(q, prio) == \A i, j \in 1..Len(q) : i < j => prio[q[i]] >= prio[q[j]]

=======================================================================
