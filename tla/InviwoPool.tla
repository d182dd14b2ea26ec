----------------------------- MODULE InviwoPool -----------------------------
(***************************************************************************)
(* The application's use of its worker pool: resizePool, waitForPool, the  *)
(* queue of functions dispatched to the front (main) thread and            *)
(* processFront, which runs them.  All of it happens on the main thread,   *)
(* the owner of the ThreadPool; workers dispatch to the front when a task  *)
(* ends.                                                                   *)
(*                                                                         *)
(* What a front function does is abstracted to what the pool can tell:     *)
(* some hand the pool a further task (PoolProcessor submits the jobs it    *)
(* had queued when the callback of the previous ones runs), and some a     *)
(* worker waits for (the first use of OpenGL by a worker has the front     *)
(* create a canvas for it).                                                *)
(***************************************************************************)
EXTENDS ThreadPool

CONSTANTS
  Follow,   \* the task that the front function of a task enqueues, or NoTask
  Blocking, \* the tasks that wait for a front function before they end
  Sizes     \* the sizes the user may give the pool

ASSUME AppAssumption ==
  /\ Follow \in [Task -> Task \cup {NoTask}] /\ Blocking \subseteq Task
  /\ Sizes \subseteq 0 .. MaxSize

VARIABLES
  front,    \* queue_ of the application: functions still to be run in front
  asked,    \* the blocking tasks that have dispatched their front function ...
  answered, \* ... and those whose front function has run
  app       \* where the main thread is

frontVars == <<front, asked, answered>>
appVars   == <<vars, frontVars, app>>

\* "events": in the event loop.  "first", "again": in the first and in a later
\* call of trySetSize of resizePool.  "front": in processFront.  "flush": in the
\* processFront loop of waitForPool.  "closing", "closed": the end.
AppPlaces == {"events", "first", "again", "front", "flush", "closing", "closed"}

\* Who called resizePool: nobody, the pool size setting, waitForPool before and
\* after the flush, the destructor.
Purposes == {"none", "setting", "drain", "restore", "close"}

\* What a front function is for, and the task that dispatched it.
FrontFunctions == [for : {"enqueue", "answer"}, task : Task]

AppTypeOK ==
  /\ TypeOK
  /\ front \in Seq(FrontFunctions)
  /\ answered \subseteq asked /\ asked \subseteq Blocking
  /\ app \in [at : AppPlaces, for : Purposes, size : 0 .. MaxSize, saved : 0 .. MaxSize]

Events == [at |-> "events", for |-> "none", size |-> 0, saved |-> 0]

AppInit == Init /\ front = <<>> /\ asked = {} /\ answered = {} /\ app = Events

-----------------------------------------------------------------------------

DispatchFront(for, t) == front' = Append(front, [for |-> for, task |-> t])

\* The last thing task t does, if it has a front function of its own.
DispatchFollow(t) ==
  IF Follow[t] = NoTask THEN UNCHANGED front ELSE DispatchFront("enqueue", t)

\* A worker inside a blocking task dispatches to the front, then waits.
AskFront(w) ==
  /\ pc[w] = "run" /\ hand[w] \in Blocking \ asked
  /\ DispatchFront("answer", hand[w])
  /\ asked' = asked \cup {hand[w]}
  /\ UNCHANGED <<vars, answered, app>>

FinishAndDispatch(w) ==
  /\ hand[w] \in Blocking => hand[w] \in answered
  /\ FinishTask(w)
  /\ DispatchFollow(hand[w])
  /\ UNCHANGED <<asked, answered, app>>

\* Where resizePool returns to.
Return(for) ==
  app' = CASE for \in {"setting", "restore"} -> Events
           [] for = "drain" -> [app EXCEPT !.at = "flush"]
           [] for = "close" -> [app EXCEPT !.at = "closing"]

ResizePool(n, for, saved) ==
  /\ app' = [at |-> "first", for |-> for, size |-> n, saved |-> saved]
  /\ IF n = Len(workers) THEN UNCHANGED vars ELSE TrySetSize(n)
  /\ UNCHANGED frontVars

\* Mutant: trySetSize is called once and its result is ignored.
ResizeOnce ==
  /\ call.op = "none" /\ app.at = "first"
  /\ Return(app.for)
  /\ UNCHANGED <<vars, frontVars>>

\* The condition of the loop of resizePool, and its body up to processFront.
ResizeLoop ==
  /\ call.op = "none"
  /\ \/ app.at = "first"
     \/ app.at = "front" /\ app.for # "none" /\ front = <<>>
  /\ IF Len(workers) = app.size
     THEN Return(app.for) /\ UNCHANGED vars
     ELSE TrySetSize(app.size) /\ app' = [app EXCEPT !.at = "again"]
  /\ UNCHANGED frontVars

\* Mutant: the loop of resizePool does not run the functions of the front.
ResizeNoFront ==
  /\ app.at = "again" /\ call.op = "none"
  /\ app' = [app EXCEPT !.at = "first"]
  /\ UNCHANGED <<vars, frontVars>>

ResizeFront ==
  /\ app.at = "again" /\ call.op = "none"
  /\ app' = [app EXCEPT !.at = "front"]
  /\ UNCHANGED <<vars, frontVars>>

\* One iteration of processFront: take a function from the queue and run it.
\* A task handed to a pool without workers is run, front dispatch and all.
FrontFunction ==
  /\ app.at \in {"front", "flush"} /\ call.op = "none" /\ front # <<>>
  /\ LET f    == Head(front)
         next == Follow[f.task]
     IN \/ /\ f.for = "answer"
           /\ answered' = answered \cup {f.task}
           /\ front' = Tail(front)
           /\ UNCHANGED vars
        \/ /\ f.for = "enqueue"
           /\ Enqueue(next) /\ front' = Tail(front)
           /\ UNCHANGED answered
        \/ /\ f.for = "enqueue"
           /\ RunInline(next)
           /\ front' = IF Follow[next] = NoTask THEN Tail(front)
                       ELSE Append(Tail(front), [for |-> "enqueue", task |-> next])
           /\ UNCHANGED answered
  /\ UNCHANGED <<asked, app>>

\* The event loop runs processFront, which returns when its queue is empty.
ProcessFront ==
  /\ app.at = "events" /\ call.op = "none" /\ front # <<>>
  /\ app' = [app EXCEPT !.at = "front"]
  /\ UNCHANGED <<vars, frontVars>>

ProcessFrontReturns ==
  /\ app.at = "front" /\ app.for = "none" /\ call.op = "none" /\ front = <<>>
  /\ app' = Events
  /\ UNCHANGED <<vars, frontVars>>

\* waitForPool: shrink to nothing, run the front functions, restore the size.
WaitForPool ==
  /\ app.at = "events" /\ call.op = "none"
  /\ ResizePool(0, "drain", Len(workers))

FlushReturns ==
  /\ app.at = "flush" /\ call.op = "none" /\ front = <<>>
  /\ ResizePool(app.saved, "restore", 0)

\* The destructor of the application, and then that of its pool.
Close ==
  /\ app.at = "events" /\ call.op = "none"
  /\ ResizePool(0, "close", 0)

DestroyPool ==
  /\ app.at = "closing"
  /\ Destroy
  /\ app' = [app EXCEPT !.at = "closed"]
  /\ UNCHANGED frontVars

\* The pool size setting changes.
SettingChanges ==
  /\ app.at = "events" /\ call.op = "none"
  /\ \E n \in Sizes : ResizePool(n, "setting", 0)

UserTask ==
  /\ app.at = "events"
  /\ \E t \in Task :
       /\ \A s \in Task : Follow[s] # t
       /\ \/ Enqueue(t) /\ UNCHANGED front
          \/ RunInline(t) /\ DispatchFollow(t)
  /\ UNCHANGED <<asked, answered, app>>

MainStep ==
  \/ CallStep /\ UNCHANGED <<frontVars, app>>
  \/ ResizeLoop \/ ResizeFront \/ FrontFunction \/ ProcessFront
  \/ ProcessFrontReturns \/ FlushReturns \/ DestroyPool

UserStep == WaitForPool \/ Close \/ SettingChanges \/ UserTask

AppNext ==
  \/ \E w \in Worker : \/ (WorkerStep(w) \/ SpuriousWakeup(w)) /\ UNCHANGED <<frontVars, app>>
                       \/ AskFront(w)
                       \/ FinishAndDispatch(w)
  \/ MainStep
  \/ UserStep

AppSpec == AppInit /\ [][AppNext]_appVars

\* As in ThreadPool: a thread that can run does, one that waits for the mutex
\* gets it, a task ends once it is answered, and the main thread carries on what
\* it began.
AppFairness ==
  /\ \A w \in Worker :
       /\ WF_appVars(WorkerStep(w) /\ UNCHANGED <<frontVars, app>>)
       /\ SF_appVars(Lock(w) /\ UNCHANGED <<frontVars, app>>)
       /\ WF_appVars(AskFront(w) \/ FinishAndDispatch(w))
  /\ WF_appVars(MainStep)
  /\ SF_appVars(FrontFunction)

AppFairSpec == AppSpec /\ AppFairness

-----------------------------------------------------------------------------
(* Properties.                                                             *)

\* The comment in waitForPool: "This will wait until all tasks are done".  Once
\* resizePool(0) has returned, nothing handed to the pool is still to be run.
WaitForPoolWaits == app.at = "flush" /\ call.op = "none" => issued = finished

\* A task in the queue of a pool that has workers has one that will take it.
QueuedTaskHasWorker ==
  app.at = "events" /\ call.op = "none" /\ workers # <<>> /\ tasks # <<>> =>
    \E i \in 1 .. Len(workers) : pc[workers[i]] \notin {"exit", "exited"}

\* Notifications are sent without the mutex and Stop is overwritten by a busy
\* worker, and tasks wait for the main thread while it waits for them; yet each
\* resizePool, waitForPool, processFront and destructor comes to an end.
MainThreadReturns == []<>((app.at = "events" /\ call.op = "none") \/ call.op = "destroyed")

\* Each task handed to the pool is run in the end: no wakeup that matters is lost.
EveryTaskRuns == []<>(issued \subseteq finished)
=============================================================================
