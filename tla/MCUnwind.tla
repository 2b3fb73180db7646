------------------------------ MODULE MCUnwind ------------------------------
(* Four calls and try blocks suffice for a defer that catches what it throws
   inside an unwinding that a recovery point or a second handler ends. *)
EXTENDS Unwind
=============================================================================
