--------------------------- MODULE MCCallout ---------------------------
(* Small instances of Callout for TLC.  Executors, structs and clients of  *)
(* one kind are interchangeable.                                           *)
EXTENDS Callout, TLC
SafeClients == Clients \ UnsafeClients
Symmetry == Permutations(Executors) \cup Permutations(Structs) \cup Permutations(SafeClients)

(* The instances are within the hypothesis of the theorems about times. *)
ASSUME DelaysAreShort == ShortDelays

-----------------------------------------------------------------------
(* Not so in the code: see the README. *)

(* What the comments in callout_save say it does: it moves every callout   *)
(* that is not executing out of the table.                                 *)
CprMovesPending ==
  [][saved = << >> /\ saved' # << >> =>
       \A b \in 0..(Buckets - 1) : \A s \in ToSet(cs_bucket'[b]) : c'[s].executing]_vars
=======================================================================
