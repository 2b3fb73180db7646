---------------------------- MODULE MCFrameCycle ----------------------------
(* Two threads, two closures, two registers: each thread may hold, call, store
   and drop either closure, and both may judge the frame at once. *)
EXTENDS FrameCycle

CONSTANTS a, b, f, g
=============================================================================
