--------------------------- MODULE MCCondVar ---------------------------
(* Small instances of CondVar for TLC. *)
EXTENDS CondVar
CONSTANTS w1, w2, w3, cv1, cv2
SameCv   == [t \in Waiters |-> cv1]
TwoCvs   == [t \in Waiters |-> IF t = w3 THEN cv2 ELSE cv1]
OnePri   == [t \in Waiters |-> 1]
TwoPris  == [t \in Waiters |-> IF t = w2 THEN 2 ELSE 1]

-----------------------------------------------------------------------
(* Not so in the code: see the README. *)

(* What the comment above cv_timedwait_sig says it returns. *)
TimedSigReturns ==
  \A t \in TimedWaiters \cap SigWaiters : pc[t] = "ret" => rv[t] \in {0, -1, 1}
=======================================================================
