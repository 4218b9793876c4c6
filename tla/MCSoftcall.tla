--------------------------- MODULE MCSoftcall ---------------------------
(* Small instances of Softcall for TLC. *)
EXTENDS Softcall

-----------------------------------------------------------------------
(* Not so in the code: see the README. *)

(* What the comment in softcall() promises a caller that holds the         *)
(* unsafe_driver mutex: the function is called with it.                    *)
UnsafeHonoured ==
  [][\A o \in owed \ owed' : o[2] => unsafe_driver' \in CPUs]_softcall_vars
=======================================================================
