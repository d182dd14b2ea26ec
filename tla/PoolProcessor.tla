--------------------------- MODULE PoolProcessor ---------------------------
(***************************************************************************)
(* A processor that computes in the background (processors/poolprocessor). *)
(* Each dispatch makes a submission: a list of jobs, a shared State, and a *)
(* functor done.  The jobs run on the worker threads; the last one to end  *)
(* dispatches a callback to the front thread, which removes the state and  *)
(* calls done, hands the jobs queued meanwhile to the pool, or neither.    *)
(*                                                                         *)
(* The pool runs the tasks in any order and interleaving, a superset of    *)
(* what ThreadPool allows.  Front functions run one at a time, in order.   *)
(***************************************************************************)
EXTENDS Integers, Sequences, FiniteSets, SequencesExt, FiniteSetsExt

CONSTANTS
  Networks,       \* the networks the processor may live in
  Configurations, \* the sets of pool::Option it may be constructed with
  JobCounts,      \* how many jobs a dispatch may have
  MaxDispatch     \* bound on the number of dispatches

Option == {"KeepOldResults", "QueuedDispatch", "DelayDispatch"}

ASSUME ConstantsAssumption ==
  Configurations \subseteq SUBSET Option /\ JobCounts \subseteq Nat /\ MaxDispatch \in Nat

Submission == 1 .. MaxDispatch
None == 0

VARIABLES
  options,    \* the options, fixed when the processor is constructed
  network,    \* the network that observes the processor
  background, \* the count of background jobs of each network
  latest,     \* the number of dispatches so far: the newest submission
  nJobs,      \* the jobs of each submission
  states,     \* states_: the submissions handed to the pool, oldest first
  queue,      \* queue_: the submission that waits, or None
  stop,       \* the stop flag of each submission
  waiting,    \* tasks of each submission that wait in the pool ...
  running,    \* ... and that were started without seeing stop
  count,      \* State::count: tasks of each submission that have not ended
  skipped,    \* the submissions one of whose jobs was skipped
  failed,     \* the submissions one of whose jobs threw
  front,      \* the functions dispatched to the front thread
  timer,      \* the submission whose delay_.start() is current, and if it is armed
  reset,      \* whether delayBackgoundJobReset_ holds an action
  output,     \* the submission whose done set the outports, or None
  delivered,  \* history: the submissions whose done or handleError was called
  alive,
  moved       \* history: whether the processor was moved while it had jobs

taskVars == <<waiting, running, count, skipped, failed>>
mainVars == <<options, network, background, latest, nJobs, states, queue, stop,
              reset, output, delivered, alive, moved>>
vars == <<taskVars, mainVars, front, timer>>

keepOldJobs    == "KeepOldResults" \in options
queuedDispatch == "QueuedDispatch" \in options
delayDispatch  == "DelayDispatch" \in options

FrontCall == [for : {"done", "delay"}, s : Submission]

TypeOK ==
  /\ options \in Configurations /\ network \in Networks
  /\ background \in [Networks -> Int]
  /\ latest \in 0 .. MaxDispatch
  /\ nJobs \in [Submission -> Nat]
  /\ states \in Seq(Submission)
  /\ queue \in Submission \cup {None}
  /\ stop \in [Submission -> BOOLEAN]
  /\ waiting \in [Submission -> Nat] /\ running \in [Submission -> Nat]
  /\ count \in [Submission -> Nat]
  /\ skipped \subseteq Submission /\ failed \subseteq Submission
  /\ front \in Seq(FrontCall)
  /\ timer \in [s : Submission \cup {None}, armed : BOOLEAN]
  /\ reset \in BOOLEAN /\ alive \in BOOLEAN /\ moved \in BOOLEAN
  /\ output \in Submission \cup {None}
  /\ delivered \subseteq Submission

Zero == [s \in Submission |-> 0]

Init ==
  /\ options \in Configurations /\ network \in Networks
  /\ background = [n \in Networks |-> 0]
  /\ latest = 0 /\ nJobs = Zero
  /\ states = <<>> /\ queue = None
  /\ stop = [s \in Submission |-> FALSE]
  /\ waiting = Zero /\ running = Zero /\ count = Zero
  /\ skipped = {} /\ failed = {}
  /\ front = <<>> /\ timer = [s |-> None, armed |-> FALSE]
  /\ reset = FALSE
  /\ output = None /\ delivered = {}
  /\ alive = TRUE /\ moved = FALSE

hasJobs == states # <<>>

\* onProcessorStartBackgroundWork (n > 0) and onProcessorFinishBackgroundWork of
\* the network that observes the processor.
Notify(n) == background' = [background EXCEPT ![network] = @ + n]

-----------------------------------------------------------------------------
(* The worker threads.                                                     *)

\* mutant: the callback is dispatched by the task before the last as well.
CallDoneEarly(s) ==
  /\ count' = [count EXCEPT ![s] = @ - 1]
  /\ front' = IF count[s] <= 2 THEN Append(front, [for |-> "done", s |-> s]) ELSE front

\* callDone: the last task to end dispatches the callback to the front.
CallDone(s) ==
  /\ count' = [count EXCEPT ![s] = @ - 1]
  /\ front' = IF count[s] = 1 THEN Append(front, [for |-> "done", s |-> s]) ELSE front

\* A task of s is taken from the pool and reads the stop flag: the job is skipped
\* or run.
SkipJob(s) ==
  /\ waiting[s] > 0 /\ stop[s]
  /\ waiting' = [waiting EXCEPT ![s] = @ - 1]
  /\ skipped' = skipped \cup {s}
  /\ CallDone(s)
  /\ UNCHANGED <<running, failed, mainVars, timer>>

\* mutant: a task that is started stays in the pool.
StartJobKeeping(s) ==
  /\ waiting[s] > 0 /\ ~stop[s]
  /\ running' = [running EXCEPT ![s] = @ + 1]
  /\ UNCHANGED <<waiting, count, skipped, failed, mainVars, front, timer>>

StartJob(s) ==
  /\ waiting[s] > 0 /\ ~stop[s]
  /\ waiting' = [waiting EXCEPT ![s] = @ - 1]
  /\ running' = [running EXCEPT ![s] = @ + 1]
  /\ UNCHANGED <<count, skipped, failed, mainVars, front, timer>>

\* The job returns or throws; either way its future is ready.
EndJob(s) ==
  /\ running[s] > 0
  /\ running' = [running EXCEPT ![s] = @ - 1]
  /\ failed' \in {failed, failed \cup {s}}
  /\ CallDone(s)
  /\ UNCHANGED <<waiting, skipped, mainVars, timer>>

\* The timer thread: 500 ms have passed since the last delay_.start().
DelayExpires ==
  /\ timer.armed
  /\ timer' = [timer EXCEPT !.armed = FALSE]
  /\ front' = Append(front, [for |-> "delay", s |-> timer.s])
  /\ UNCHANGED <<taskVars, mainVars>>

-----------------------------------------------------------------------------
(* The front thread.                                                       *)

\* mutant: only the oldest state is stopped.
stopJobsNewest(keep) ==
  stop' = [s \in Submission |-> stop[s] \/ (~keep /\ states # <<>> /\ s = states[1])]

stopJobs(keep) == stop' = [s \in Submission |-> stop[s] \/ (~keep /\ s \in ToSet(states))]

\* submit, with `before' the states that are there: all the tasks of s are enqueued.
Submit(s, before, jobs) ==
  /\ states' = Append(before, s)
  /\ waiting' = [waiting EXCEPT ![s] = jobs]
  /\ count' = [count EXCEPT ![s] = jobs]
  /\ UNCHANGED <<running, skipped, failed>>

\* mutant: a job is announced for every delayed dispatch.
DelayedRecount(s) ==
  /\ queue' = s
  /\ Notify(1)
  /\ reset' = TRUE
  /\ timer' = [s |-> s, armed |-> TRUE]
  /\ UNCHANGED <<taskVars, states>>

\* mutant: the delay that runs is cancelled and not started again.
DelayedUnstarted(s) ==
  /\ queue' = s
  /\ Notify(IF reset THEN 0 ELSE 1)
  /\ reset' = TRUE
  /\ timer' = [s |-> s, armed |-> ~reset]
  /\ UNCHANGED <<taskVars, states>>

\* The submission replaces the one that waits, and the 500 ms start again.
Delayed(s) ==
  /\ queue' = s
  /\ Notify(IF reset THEN 0 ELSE 1)
  /\ reset' = TRUE
  /\ timer' = [s |-> s, armed |-> TRUE]
  /\ UNCHANGED <<taskVars, states>>

Queued(s) ==
  /\ queue' = s
  /\ UNCHANGED <<taskVars, states, background, reset, timer>>

\* dispatchOne (one job) and dispatchMany, for a processor in a network.
Dispatch(jobs) ==
  /\ alive /\ latest < MaxDispatch
  /\ latest' = latest + 1
  /\ nJobs' = [nJobs EXCEPT ![latest + 1] = jobs]
  /\ stopJobs(keepOldJobs)
  /\ \/ delayDispatch /\ Delayed(latest + 1)
     \/ ~delayDispatch /\ queuedDispatch /\ hasJobs /\ Queued(latest + 1)
     \/ /\ ~delayDispatch /\ ~(queuedDispatch /\ hasJobs)
        /\ Submit(latest + 1, states, jobs)
        /\ Notify(jobs)
        /\ UNCHANGED <<queue, reset, timer>>
  /\ UNCHANGED <<options, network, front, output, delivered, alive, moved>>

\* The processor cancels its jobs.
StopJobs ==
  /\ alive
  /\ stopJobs(FALSE)
  /\ UNCHANGED <<taskVars, front, timer, options, network, background, latest, nJobs,
                 states, queue, reset, output, delivered, alive, moved>>

\* mutants: stop is not looked at; neither is whether the state is the last.
DueStopped(s, isLast) == isLast \/ keepOldJobs
DueLast(s, isLast) == ~stop[s] /\ isLast

\* Whether the done of s is due, for a state s that is the last one or not.
Due(s, isLast) == ~stop[s] /\ (isLast \/ keepOldJobs)

\* done sets the outports; if a job threw, handleError clears them.
Deliver(s) ==
  /\ output' = IF s \in failed THEN None ELSE s
  /\ delivered' = delivered \cup {s}

\* The callback of callDone: the jobs of s have ended, and removeState takes s out.
Done(s) ==
  LET others == RemoveAt(states, CHOOSE k \in DOMAIN states : states[k] = s)
  IN IF queuedDispatch /\ queue # None
     THEN /\ Submit(queue, others, nJobs[queue])
          /\ Notify(nJobs[queue])
          /\ queue' = None
          /\ UNCHANGED <<output, delivered>>
     ELSE /\ states' = others
          /\ Notify(-nJobs[s])
          /\ IF Due(s, Last(states) = s) THEN Deliver(s) ELSE UNCHANGED <<output, delivered>>
          /\ UNCHANGED <<queue, taskVars>>

DoneCallback ==
  /\ front # <<>> /\ Head(front).for = "done"
  /\ front' = Tail(front)
  /\ \/ alive /\ Done(Head(front).s)
     \/ ~alive /\ UNCHANGED <<taskVars, background, states, queue, output, delivered>>
  /\ UNCHANGED <<options, network, latest, nJobs, stop, reset, timer, alive, moved>>

\* mutant: the submission is dropped when other jobs run.
DelayPassedDropping ==
  LET pending == IF reset THEN 1 ELSE 0
  IN /\ reset' = FALSE
     /\ queue' = None
     /\ IF queue # None /\ ~hasJobs
        THEN Submit(queue, states, nJobs[queue]) /\ Notify(nJobs[queue] - pending)
        ELSE Notify(-pending) /\ UNCHANGED <<states, taskVars>>

\* The callback of delay_: the submission that waits is handed to the pool, unless
\* it has to wait for the jobs that run.
DelayPassed ==
  LET pending == IF reset THEN 1 ELSE 0
  IN /\ reset' = FALSE
     /\ IF queue # None /\ ~(queuedDispatch /\ hasJobs)
        THEN /\ Submit(queue, states, nJobs[queue])
             /\ Notify(nJobs[queue] - pending)
             /\ queue' = None
        ELSE Notify(-pending) /\ UNCHANGED <<queue, states, taskVars>>

\* The callback lives in the control block that delay_.start() replaces: that of an
\* earlier start is void.
DelayCallback ==
  /\ front # <<>> /\ Head(front).for = "delay"
  /\ front' = Tail(front)
  /\ \/ alive /\ Head(front).s = timer.s /\ DelayPassed
     \/ /\ ~(alive /\ Head(front).s = timer.s)
        /\ UNCHANGED <<taskVars, background, states, queue, reset>>
  /\ UNCHANGED <<options, network, latest, nJobs, stop, timer, output, delivered, alive, moved>>

\* The jobs of a set of submissions, told apart by their numbers.
JobsOf(S) == UNION {{s} \X (1 .. nJobs[s]) : s \in S}

\* What notifyRemainingJobsFinish_ sums.
Outstanding == Cardinality(JobsOf(ToSet(states)))

\* The processor is moved to another network while it has jobs: removeProcessor and
\* addProcessor, as when a selection is made a composite processor.
MoveTo(n) ==
  /\ alive /\ n # network
  /\ network' = n
  /\ moved' = (moved \/ hasJobs \/ reset)
  /\ UNCHANGED <<taskVars, front, timer, options, background, latest, nJobs, states, queue,
                 stop, reset, output, delivered, alive>>

\* removeAndDeleteProcessor: the jobs are stopped; the members give back their counts.
Destroy ==
  /\ alive
  /\ alive' = FALSE
  /\ stopJobs(FALSE)
  /\ Notify(-(Outstanding + (IF reset THEN 1 ELSE 0)))
  /\ reset' = FALSE /\ queue' = None
  /\ states' = <<>>
  /\ timer' = [timer EXCEPT !.armed = FALSE]
  /\ UNCHANGED <<taskVars, front, options, network, latest, nJobs, output, delivered, moved>>

-----------------------------------------------------------------------------
Worker == \E s \in Submission : SkipJob(s) \/ StartJob(s) \/ EndJob(s)

FrontThread == DoneCallback \/ DelayCallback

User ==
  \/ \E jobs \in JobCounts : Dispatch(jobs)
  \/ StopJobs
  \/ \E n \in Networks : MoveTo(n)
  \/ Destroy

Next == Worker \/ DelayExpires \/ FrontThread \/ User

Spec == Init /\ [][Next]_vars

\* The operating system runs the workers and the timer thread, jobs return, and the
\* event loop calls processFront.
FairSpec ==
  /\ Spec
  /\ \A s \in Submission : WF_vars(SkipJob(s) \/ StartJob(s)) /\ WF_vars(EndJob(s))
  /\ WF_vars(DelayExpires)
  /\ WF_vars(FrontThread)

-----------------------------------------------------------------------------
(* Properties.                                                             *)

\* The count of background jobs of a network is that of the jobs the processors in
\* it wait for: the jobs handed to the pool whose callback has not run, and one for a
\* delayed dispatch.  Saving and closing loop until it is zero.
JobsAreCounted ==
  \A n \in Networks :
    background[n] = IF alive /\ n = network
                    THEN Outstanding + (IF reset THEN 1 ELSE 0)
                    ELSE 0

\* The count is right as long as nothing is queued and the processor stays in its network.
PlainJobsAreCounted == ~queuedDispatch /\ ~moved => JobsAreCounted

\* The same when all is quiet: nothing is left to count, so the loops end.
SettledCount == ~hasJobs /\ ~reset => \A n \in Networks : background[n] = 0

\* The assertion of removeState: the state of a callback is always among states_.
\* Each submission is counted down to zero once, and nothing else removes it.
StateFound ==
  \A i \in DOMAIN front :
    alive /\ front[i].for = "done" => front[i].s \in ToSet(states)

\* Without KeepOldResults, done is called only for the newest dispatch: a result that
\* was overtaken, even by a dispatch that is still delayed or queued, is discarded.
DeliversNewest == \A s \in delivered' \ delivered : keepOldJobs \/ s = latest
DoneIsNewest == [][DeliversNewest]_vars

\* done reads the results of all the jobs: none of them was skipped, in which case
\* its future would never be ready and the front thread would wait for ever.
DoneHasResults == delivered \cap skipped = {}

\* When a processor without KeepOldResults has no background work left, its outports
\* hold the result of the newest dispatch, unless that was stopped or threw.
SettledOutput ==
  alive /\ ~keepOldJobs /\ ~hasJobs /\ ~reset /\ latest # 0 =>
    stop[latest] \/ latest \in failed \/ output = latest

\* The newest dispatch gets its done, unless the jobs are stopped or the processor
\* destroyed: no combination of options leaves a submission waiting for ever.
LatestResultArrives ==
  \A s \in Submission :
    latest = s ~> (s \in delivered \/ latest # s \/ stop[s] \/ ~alive)

\* With KeepOldResults done is called for old jobs too, unless they were stopped: no state
\* is removed without it, as long as nothing is queued.
DeliversKept ==
  alive /\ alive' /\ keepOldJobs =>
    \A s \in ToSet(states) \ ToSet(states') : stop[s] \/ s \in delivered'
PlainResultsReachDone == [][~queuedDispatch => DeliversKept]_vars
=============================================================================
