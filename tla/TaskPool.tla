------------------------------ MODULE TaskPool ------------------------------
(***************************************************************************)
(* What the pool of workers promises to those who use it, whatever its     *)
(* size is and however it is resized: a task that was submitted is started *)
(* once, in the order of submission, and run to its end.  Without workers  *)
(* it is run before submit returns.                                        *)
(*                                                                         *)
(* ThreadPool implements this specification.                               *)
(***************************************************************************)
EXTENDS Sequences

CONSTANT Task \* the tasks, each submitted at most once

VARIABLES
  pending, \* the tasks submitted and not started, oldest first
  started, \* those that are being run
  done     \* those that have been run

poolVars == <<pending, started, done>>

Init == pending = <<>> /\ started = {} /\ done = {}

\* The tasks that have never been submitted.
New == Task \ (started \cup done \cup {pending[i] : i \in DOMAIN pending})

Submit(t) ==
  /\ t \in New
  /\ pending' = Append(pending, t)
  /\ UNCHANGED <<started, done>>

RunAtOnce(t) ==
  /\ t \in New
  /\ done' = done \cup {t}
  /\ UNCHANGED <<pending, started>>

Start ==
  /\ pending # <<>>
  /\ started' = started \cup {Head(pending)}
  /\ pending' = Tail(pending)
  /\ UNCHANGED done

Finish(t) ==
  /\ t \in started
  /\ started' = started \ {t}
  /\ done' = done \cup {t}
  /\ UNCHANGED pending

Next == Start \/ \E t \in Task : Submit(t) \/ RunAtOnce(t) \/ Finish(t)

Spec == Init /\ [][Next]_poolVars
=============================================================================
