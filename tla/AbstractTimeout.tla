------------------------- MODULE AbstractTimeout -------------------------
(***************************************************************************)
(* What timeout() and untimeout() promise, without tables and threads:     *)
(* each client has at most one callout, which is armed, then either taken  *)
(* back or run once, and is gone when untimeout() returns.                 *)
(***************************************************************************)
CONSTANT Clients
VARIABLE tmo      \* client -> "none", "armed", "running" or "done"

Init == tmo = [x \in Clients |-> "none"]

Arm(x)    == tmo[x] = "none"  /\ tmo' = [tmo EXCEPT ![x] = "armed"]
Cancel(x) == tmo[x] = "armed" /\ tmo' = [tmo EXCEPT ![x] = "none"]

(* untimeout() finds that the callout has run, or its client drops the id. *)
Drop(x)   == tmo[x] = "done"  /\ tmo' = [tmo EXCEPT ![x] = "none"]

(* Executors complete the callouts in E and start those in S. *)
Run(E, S) ==
  /\ \A x \in E : tmo[x] = "running"
  /\ \A x \in S : tmo[x] = "armed"
  /\ tmo' = [x \in Clients |-> IF x \in E THEN "done" ELSE
                               IF x \in S THEN "running" ELSE tmo[x]]

Next ==
  \/ \E x \in Clients : Arm(x) \/ Cancel(x) \/ Drop(x)
  \/ \E E, S \in SUBSET Clients : Run(E, S)

Spec == Init /\ [][Next]_tmo
=======================================================================
