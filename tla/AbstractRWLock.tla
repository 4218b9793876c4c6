------------------------ MODULE AbstractRWLock ------------------------
(***************************************************************************)
(* What a readers-writer lock promises: many readers or one writer, and no *)
(* reader is let in over a writer that has asked.                          *)
(***************************************************************************)
CONSTANT Threads

VARIABLES readers, writers, wanting, crashed

avars == <<readers, writers, wanting, crashed>>

Init == readers = {} /\ writers = {} /\ wanting = {} /\ crashed = FALSE

Read(t) ==
  /\ t \notin readers /\ writers = {} /\ wanting = {}
  /\ readers' = readers \cup {t} /\ UNCHANGED <<writers, wanting, crashed>>

(* A writer that cannot have the lock asks for it. *)
Want(t) ==
  /\ readers \cup writers # {} /\ t \notin readers \cup writers
  /\ wanting' = wanting \cup {t} /\ UNCHANGED <<readers, writers, crashed>>

(* The lock goes to any writer, not only to one that has asked. *)
Write(t) ==
  /\ readers = {} /\ writers = {}
  /\ writers' = {t} /\ wanting' = wanting \ {t} /\ UNCHANGED <<readers, crashed>>

Release(t) ==
  /\ t \in readers \cup writers
  /\ readers' = readers \ {t} /\ writers' = writers \ {t} /\ UNCHANGED <<wanting, crashed>>
Downgrade(t) ==
  /\ t \in writers
  /\ writers' = {} /\ readers' = {t} /\ UNCHANGED <<wanting, crashed>>
Upgrade(t) ==
  /\ readers = {t} /\ wanting = {}
  /\ readers' = {} /\ writers' = {t} /\ UNCHANGED <<wanting, crashed>>

(* A panic ends all promises. *)
Crash == crashed' = TRUE

Next ==
  \/ \E t \in Threads : Read(t) \/ Want(t) \/ Write(t) \/ Release(t) \/ Downgrade(t) \/ Upgrade(t)
  \/ Crash

Spec == Init /\ [][Next]_avars

=======================================================================
