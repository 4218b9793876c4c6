---------------------------- MODULE MCSema ----------------------------
(* Small instances of Sema for TLC. *)
EXTENDS Sema
CONSTANTS t1, t2, t3

AllOne    == [t \in Threads |-> 1]
Ascending == [t \in Threads |-> IF t = t1 THEN 1 ELSE 2]

-----------------------------------------------------------------------
(* What the comment at sema_p promises: a thread is blocked only while the *)
(* count is not greater than zero.  It is not so with sema_p_sig: see the  *)
(* README.                                                                 *)
NoSleeperWithUnits == ~Panicking /\ s_slpq # << >> => s_count <= 0
=======================================================================
