------------------------ MODULE MCSessionHandover ------------------------
(* SessionHandover with two sessions and a map. *)
EXTENDS SessionHandover, TLC

CONSTANTS s1, s2

(* The first may come back to the map after it has left it. *)
MCMaxPackets == s1 :> 2 @@ s2 :> 1
=============================================================================
