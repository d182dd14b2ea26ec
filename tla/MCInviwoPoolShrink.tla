------------------------- MODULE MCInviwoPoolShrink -------------------------
(***************************************************************************)
(* A pool that is resized between one worker and two.                      *)
(***************************************************************************)
EXTENDS InviwoPool

\* Front functions that enqueue nothing.
NoFollow == [t \in Task |-> NoTask]
=============================================================================
