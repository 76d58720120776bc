---------------------------- MODULE MCRealmLink ----------------------------
(* RealmLink with a few connections and failures. *)
EXTENDS RealmLink, TLC
=============================================================================
