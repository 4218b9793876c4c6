-------------------------- MODULE UnsafeDriver --------------------------
(***************************************************************************)
(* The unsafe_driver mutex.  Drivers that are not safe for threads run     *)
(* with it held, and a callout or a soft call that such a driver asks for  *)
(* is called with it held (callout_execute, softint).  Callout and         *)
(* Softcall each say how they take and drop it.                            *)
(***************************************************************************)
CONSTANT None           \* no owner

VARIABLE unsafe_driver  \* owner of the mutex
=======================================================================
