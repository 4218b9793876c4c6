----------------------------- MODULE MCPage -----------------------------
(* Small instances of Page for TLC; threads, pages and names are           *)
(* interchangeable.                                                        *)
EXTENDS Page, TLC
Symmetry == Permutations(Threads) \cup Permutations(Pages) \cup Permutations(Names)
=======================================================================
