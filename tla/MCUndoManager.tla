--------------------------- MODULE MCUndoManager ---------------------------
(***************************************************************************)
(* A workspace with a text that is longer than that of the empty one.      *)
(***************************************************************************)
EXTENDS UndoManager

MCLength == [blank |-> 1, a |-> 2, broken |-> 1]
=============================================================================
