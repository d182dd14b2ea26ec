------------------------- MODULE MCNetworkCallback -------------------------
(***************************************************************************)
(* The network of MCNetworkEvaluation with one optional inport and a       *)
(* callback.                                                               *)
(***************************************************************************)
EXTENDS NetworkEvaluation, TLC

CONSTANTS a, b, c, b1, c1, c2

Ports == b1 :> b @@ c1 :> c @@ c2 :> c
=============================================================================
