---------------------------- MODULE MCInviwoPool ----------------------------
(***************************************************************************)
(* Two instances of the application and its pool side by side, one of      *)
(* which a behaviour is about while the other one stays as it began: a     *)
(* pool that is only ever emptied or filled and whose front functions      *)
(* enqueue nothing; and, of the variables f_..., a pool of any size with a *)
(* front function that enqueues a task.                                    *)
(***************************************************************************)
EXTENDS InviwoPool

VARIABLES
  scenario, f_workers, f_state, f_pc, f_hand, f_tasks, f_mutex, f_call, f_issued, f_finished,
  f_front, f_asked, f_answered, f_app

NoFollow == [t \in Task |-> NoTask]

Fronted == INSTANCE InviwoPool WITH
  Sizes <- 0 .. MaxSize, Blocking <- Task, Follow <- [t1 |-> "t2", t2 |-> NoTask],
  workers <- f_workers, state <- f_state, pc <- f_pc, hand <- f_hand, tasks <- f_tasks,
  mutex <- f_mutex, call <- f_call, issued <- f_issued, finished <- f_finished,
  front <- f_front, asked <- f_asked, answered <- f_answered, app <- f_app

frontedVars ==
  <<f_workers, f_state, f_pc, f_hand, f_tasks, f_mutex, f_call, f_issued, f_finished,
    f_front, f_asked, f_answered, f_app>>

mcVars == <<scenario, appVars, frontedVars>>

MCInit == scenario \in {"filled", "fronted"} /\ AppInit /\ Fronted!AppInit

\* The step is one of the instance that was chosen.
Filled == scenario = "filled" /\ UNCHANGED <<scenario, frontedVars>>
Fronts == scenario = "fronted" /\ UNCHANGED <<scenario, appVars>>

MCNext == (Filled /\ AppNext) \/ (Fronts /\ Fronted!AppNext)

\* AppFairness, for the instance that was chosen.
Fairness ==
  /\ \A w \in Worker :
       /\ WF_mcVars(\/ Filled /\ WorkerStep(w) /\ UNCHANGED <<frontVars, app>>
                    \/ Fronts /\ Fronted!WorkerStep(w) /\ UNCHANGED <<f_front, f_asked, f_answered, f_app>>)
       /\ SF_mcVars(\/ Filled /\ Lock(w) /\ UNCHANGED <<frontVars, app>>
                    \/ Fronts /\ Fronted!Lock(w) /\ UNCHANGED <<f_front, f_asked, f_answered, f_app>>)
       /\ WF_mcVars(\/ Filled /\ (AskFront(w) \/ FinishAndDispatch(w))
                    \/ Fronts /\ (Fronted!AskFront(w) \/ Fronted!FinishAndDispatch(w)))
  /\ WF_mcVars((Filled /\ MainStep) \/ (Fronts /\ Fronted!MainStep))
  /\ SF_mcVars((Filled /\ FrontFunction) \/ (Fronts /\ Fronted!FrontFunction))

MCSpec == MCInit /\ [][MCNext]_mcVars /\ Fairness

\* What the main thread does ends, though tasks wait for the front meanwhile and a front
\* function enqueues.
FrontedReturns == Fronted!MainThreadReturns
=============================================================================
