------------------------------ MODULE Reclaim ------------------------------
(***************************************************************************)
(* What the runtime promises of a captured frame (runtime/src/value.c):    *)
(* while the program can still reach it, it is not freed; once it cannot,  *)
(* it never will again, and the frame is freed, once.                      *)
(***************************************************************************)
VARIABLES
  reached,  \* the program has a way to the frame
  freed

vars == <<reached, freed>>

Init == reached = TRUE /\ freed = FALSE

Lose == reached = TRUE /\ reached' = FALSE /\ UNCHANGED freed

\* Freed as its last way is lost, or later.
Free == freed = FALSE /\ freed' = TRUE /\ reached' = FALSE

Next == Lose \/ Free

Spec == Init /\ [][Next]_vars
=============================================================================
