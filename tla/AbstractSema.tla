------------------------- MODULE AbstractSema -------------------------
(***************************************************************************)
(* What a counting semaphore promises its users, without queues, counts    *)
(* below zero or sleeping: units that are free, threads that wait, threads *)
(* that have been granted a unit.  Nobody waits while a unit is free.      *)
(***************************************************************************)
EXTENDS Naturals

CONSTANTS Threads, InitCount

VARIABLES avail, waiting, granted, crashed

avars == <<avail, waiting, granted, crashed>>

Init == avail = InitCount /\ waiting = {} /\ granted = {} /\ crashed = FALSE

(* A P that finds a unit, and one that does not. *)
Acquire(t) ==
  /\ t \notin waiting \cup granted /\ avail > 0
  /\ avail' = avail - 1 /\ granted' = granted \cup {t}
  /\ UNCHANGED <<waiting, crashed>>
Wait(t) ==
  /\ t \notin waiting \cup granted /\ avail = 0
  /\ waiting' = waiting \cup {t}
  /\ UNCHANGED <<avail, granted, crashed>>

(* A unit is supplied, by the holders in from giving one back or by anyone *)
(* else (from = {}): to a waiting thread if there is one.                  *)
Supply(from) ==
  /\ \/ waiting = {} /\ avail' = avail + 1 /\ waiting' = waiting
        /\ granted' = granted \ from
     \/ \E t \in waiting :
          /\ waiting' = waiting \ {t} /\ granted' = (granted \ from) \cup {t}
          /\ avail' = avail
  /\ UNCHANGED crashed

Consume(t) ==
  /\ t \in granted /\ granted' = granted \ {t}
  /\ UNCHANGED <<avail, waiting, crashed>>

(* A panic ends all promises. *)
Crash == crashed' = TRUE

Next ==
  \/ \E t \in Threads : Acquire(t) \/ Wait(t) \/ Consume(t)
  \/ \E from \in {{}} \cup {{t} : t \in granted} : Supply(from)
  \/ Crash

Spec == Init /\ [][Next]_avars

=======================================================================
