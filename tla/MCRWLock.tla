--------------------------- MODULE MCRWLock ---------------------------
(* Small instances of RWLock for TLC. *)
EXTENDS RWLock
CONSTANTS t1, t2, t3
ThreePris == [t \in Threads |-> IF t = t1 THEN 1 ELSE IF t = t2 THEN 2 ELSE 3]

-----------------------------------------------------------------------
(* Not so in the code: see the README. *)

(* A thread that holds the lock as a writer runs at no less than the       *)
(* priority of those asleep for it, once nobody is on the way in or out:   *)
(* "not necessary if the resource is a mutex or a writer lock because of   *)
(* priority inheritance" (THREAD_KPRI_REQUEST, sys/thread.h).              *)
WriterOutranks ==
  ~panicstr /\ Holders("W") # {} /\ (\A u \in Threads : pc[u] = "run" \/ (pc[u] = "swtch" /\ Asleep(u))) =>
    \A t \in Threads : Asleep(t) => Prio[owner] >= Prio[t]
=======================================================================
