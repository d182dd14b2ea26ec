---------------------------- MODULE MCThreadPool ----------------------------
(***************************************************************************)
(* Small instances of the pool on its own: every legal sequence of calls.  *)
(***************************************************************************)
EXTENDS ThreadPool

\* Worker identities are interchangeable (sound: no liveness in this run).
WorkerSymmetry == Permutations(Worker)
=============================================================================
