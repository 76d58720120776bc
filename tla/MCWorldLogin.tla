---------------------------- MODULE MCWorldLogin ----------------------------
(* WorldLogin with three connections: two of a GM's account, three of      *)
(* three accounts, and two of one account beside another; the first        *)
(* connection may ask twice.                                               *)
EXTENDS WorldLogin, TLC

CONSTANTS c1, c2, c3, gm, a, b, c

MCLogins == {(c1 :> gm @@ c2 :> gm @@ c3 :> a),
             (c1 :> a @@ c2 :> b @@ c3 :> c),
             (c1 :> a @@ c2 :> a @@ c3 :> b)}

MCMaxAsks == (c1 :> 2 @@ c2 :> 1 @@ c3 :> 1)
=============================================================================
