-------------------------- MODULE MCCircularBuffer --------------------------
(* CircularBuffer on a block of a few bytes. *)
EXTENDS CircularBuffer
=============================================================================
