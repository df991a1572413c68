-------------------------- MODULE MCNativePairing --------------------------
(* A sender, a receiver and a second sender, who may be the first one        *)
(* started again; or two peers of `pair` that a sender joins.                *)
EXTENDS NativePairing, TLC
CONSTANTS p1, p2, p3
ThreeRoles == {p1 :> "send" @@ p2 :> "receive" @@ p3 :> "send",
               p1 :> "pair" @@ p2 :> "pair" @@ p3 :> "send"}
TwoRoles == {p1 :> "send" @@ p2 :> "receive"}
=============================================================================
