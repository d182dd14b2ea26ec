-------------------------- MODULE MCPropertyLinks --------------------------
(***************************************************************************)
(* Two lists C and D with two elements each, of which y of D may be linked *)
(* to the property a.                                                      *)
(***************************************************************************)
EXTENDS PropertyLinks

MCElements == [C |-> <<"x", "x2">>, D |-> <<"y", "y2">>]
MCBound == [p \in Leaf |-> IF p = "a" THEN 0 ELSE 1]
=============================================================================
