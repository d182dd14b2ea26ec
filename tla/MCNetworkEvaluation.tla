------------------------ MODULE MCNetworkEvaluation ------------------------
(***************************************************************************)
(* A source a, a filter b and a sink c: chains and a diamond a -> b -> c,  *)
(* a -> c.  Two networks side by side, one of which a behaviour is about   *)
(* while the other one stays empty.  In the first every inport is needed,  *)
(* processors throw and callbacks change properties.  In the second, of    *)
(* the variables c_..., the filter's inport and one of the sink's are      *)
(* optional and both producers compute in the background.                  *)
(***************************************************************************)
EXTENDS NetworkEvaluation, TLC

VARIABLES
  c_present, c_source, c_level, c_outValid, c_hasData, c_changed, c_locked,
  c_queued, c_todo, c_current, c_phase, c_callbacks, c_stale, c_outdated,
  c_failed

Ports == "b1" :> "b" @@ "c1" :> "c" @@ "c2" :> "c"

Choice == INSTANCE NetworkEvaluation WITH
  Optional <- {"b1", "c2"}, Background <- {"a", "b"}, Throwing <- {},
  CallbackLevels <- {}, MaxCallbacks <- 0,
  present <- c_present, source <- c_source, level <- c_level,
  outValid <- c_outValid, hasData <- c_hasData, changed <- c_changed,
  locked <- c_locked, queued <- c_queued, todo <- c_todo, current <- c_current,
  phase <- c_phase, callbacks <- c_callbacks, stale <- c_stale,
  outdated <- c_outdated, failed <- c_failed

choiceVars ==
  <<c_present, c_source, c_level, c_outValid, c_hasData, c_changed, c_locked,
    c_queued, c_todo, c_current, c_phase, c_callbacks, c_stale, c_outdated,
    c_failed>>

allVars == <<vars, choiceVars>>

MCInit == Init /\ Choice!Init

MCNext ==
  \/ UNCHANGED choiceVars /\ Choice!Init /\ Next
  \/ UNCHANGED vars /\ Init /\ Choice!Next

MCSpec ==
  /\ MCInit /\ [][MCNext]_allVars
  /\ WF_allVars(Choice!Init /\ UNCHANGED choiceVars /\ Evaluator)

\* What holds of the first network holds of the one with a choice, as long as nothing
\* throws and callbacks change nothing.
OptionalInputs ==
  Choice!ValidIsReady /\ Choice!UpToDate /\ Choice!ResourcesRemembered /\ Choice!NothingForgotten
=============================================================================
