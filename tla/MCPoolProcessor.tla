-------------------------- MODULE MCPoolProcessor --------------------------
(***************************************************************************)
(* Small instances of PoolProcessor.  A behaviour is in one scenario from  *)
(* the beginning: "plain", the combinations of options without             *)
(* QueuedDispatch; "queued", those with it; "moving", all of them in a     *)
(* processor that moves between two networks, with fewer dispatches.       *)
(***************************************************************************)
EXTENDS PoolProcessor

VARIABLE scenario

MCConfigurations == SUBSET Option

MCInit ==
  /\ Init
  /\ scenario \in {"plain", "queued", "moving"}
  /\ scenario = "plain" => ~queuedDispatch
  /\ scenario = "queued" => queuedDispatch
  /\ scenario # "moving" => network = "n1"

\* What a step may do in a scenario.
Within ==
  /\ UNCHANGED scenario
  /\ scenario = "moving" => latest' <= 2
  /\ scenario # "moving" => network' = network /\ (latest' # latest => nJobs'[latest'] = 2)

MCNext == Next /\ Within

mcVars == <<vars, scenario>>

\* The fairness of PoolProcessor.
Fairness ==
  /\ \A s \in Submission :
       /\ WF_mcVars((SkipJob(s) \/ StartJob(s)) /\ Within)
       /\ WF_mcVars(EndJob(s) /\ Within)
  /\ WF_mcVars(DelayExpires /\ Within)
  /\ WF_mcVars(FrontThread /\ Within)

MCSpec == MCInit /\ [][MCNext]_mcVars /\ Fairness
=============================================================================
