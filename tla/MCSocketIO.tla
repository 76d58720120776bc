----------------------------- MODULE MCSocketIO -----------------------------
(* SocketIO with two senders and a few bytes. *)
EXTENDS SocketIO

MCByte == 0 .. MaxBytes
=============================================================================
