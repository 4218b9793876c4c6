--------------------------- MODULE MCFreeMem ---------------------------
(* Small instances of FreeMem for TLC; threads are interchangeable. *)
EXTENDS FreeMem, TLC
Symmetry == Permutations(Threads)

-----------------------------------------------------------------------
(* Not so in the code: see the README. *)

(* ASSERT(p->pcf_count == 0) in pcgs_unblock(): nothing was counted in a   *)
(* blocked bucket, and so nothing is lost when the reserve replaces it.    *)
BlockedCountsNothing == \A b \in Buckets : pcf_block[b] => pcf_count[b] = 0
=======================================================================
