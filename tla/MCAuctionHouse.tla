--------------------------- MODULE MCAuctionHouse ---------------------------
(* AuctionHouse with one auction of the first of three players, followed   *)
(* until it is spoilt.                                                     *)
EXTENDS AuctionHouse, TLC

CONSTANTS s, p, q, item

MCSeller == item :> s
Unspoilt == spoilt = {}
=============================================================================
