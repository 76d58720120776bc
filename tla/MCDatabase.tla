----------------------------- MODULE MCDatabase -----------------------------
(* Database with a few clients and statements. *)
EXTENDS Database, TLC
=============================================================================
