----------------------------- MODULE ThreadPool -----------------------------
(***************************************************************************)
(* The worker pool of the core (util/threadpool): a vector of workers, a   *)
(* queue of tasks guarded by queue_mutex, and one condition variable.      *)
(*                                                                         *)
(* One thread, the caller, owns the pool and calls its operations; the     *)
(* worker threads run concurrently with every step of those calls.  The    *)
(* state of a worker is an atomic variable that both sides write without   *)
(* holding the mutex, so each read and each write of it is a step.         *)
(***************************************************************************)
EXTENDS Integers, Sequences, SequencesExt

CONSTANTS
  Worker,   \* identities of the worker objects, reused after a join
  Task,     \* identities of the tasks; each is enqueued at most once
  MaxSize,  \* bound on the size asked of trySetSize
  NoTask,   \* stands for "no task in hand"
  Nobody    \* stands for "queue_mutex is free"

ASSUME SizeAssumption   == MaxSize \in Nat
ASSUME NoTaskAssumption == NoTask \notin Task
ASSUME NobodyAssumption == Nobody \notin Worker

VARIABLES
  workers,  \* the vector of workers, in order
  state,    \* the atomic state of each worker
  pc,       \* where the thread of each worker is in its loop
  hand,     \* the task a worker has popped and not finished
  tasks,    \* the task queue
  mutex,    \* the worker that holds queue_mutex
  call,     \* where the caller is inside an operation of the pool
  issued,   \* history: the tasks handed to the pool so far
  finished  \* history: the tasks that have been run

vars == <<workers, state, pc, hand, tasks, mutex, call, issued, finished>>

States == {"Free", "Working", "Stop", "Abort", "Done"}

\* "none": no such thread; "exited": joining the thread does not block;
\* "undefined": the thread took the front of an empty queue.
Places == {"none", "head", "lock", "predicate", "block", "waiting", "ifAbort",
           "ifStop", "popped", "run", "exit", "exited", "undefined"}

Operations == {"none", "grow", "compare", "notifyAll", "erase", "notifyOne",
               "abort", "abortNotify", "join", "destroyed"}
Idle == [op |-> "none", size |-> 0, i |-> 1, active |-> 0]
Calls == [op : Operations, size : 0 .. MaxSize, i : Nat \ {0}, active : Int]

TypeOK ==
  /\ workers \in Seq(Worker)
  /\ state \in [Worker -> States]
  /\ pc \in [Worker -> Places]
  /\ hand \in [Worker -> Task \cup {NoTask}]
  /\ \A w \in Worker : hand[w] \in Task <=> pc[w] \in {"popped", "run"}
  /\ tasks \in Seq(Task)
  /\ mutex \in Worker \cup {Nobody}
  /\ call \in Calls
  /\ call.i <= Len(workers) + (IF call.op = "compare" THEN 0 ELSE 1)
  /\ call.op = "join" => call.i = 1
  /\ issued \subseteq Task
  /\ finished \subseteq Task

Init ==
  /\ workers = <<>>
  /\ state = [w \in Worker |-> "Done"]
  /\ pc = [w \in Worker |-> "none"]
  /\ hand = [w \in Worker |-> NoTask]
  /\ tasks = <<>>
  /\ mutex = Nobody
  /\ call = Idle
  /\ issued = {}
  /\ finished = {}

-----------------------------------------------------------------------------
(* The thread of a worker.                                                 *)

callerVars == <<workers, call, issued>>

Goto(w, from, to) == pc[w] = from /\ pc' = [pc EXCEPT ![w] = to]

\* Head of the loop: the state is overwritten, whatever the caller put there.
BecomeFree(w) ==
  /\ Goto(w, "head", "lock")
  /\ state' = [state EXCEPT ![w] = "Free"]
  /\ UNCHANGED <<callerVars, hand, tasks, mutex, finished>>

Lock(w) ==
  /\ mutex = Nobody
  /\ Goto(w, "lock", "predicate")
  /\ mutex' = w
  /\ UNCHANGED <<callerVars, state, hand, tasks, finished>>

\* condition.wait tests its predicate under the lock ...
Predicate(w) ==
  /\ Goto(w, "predicate", IF state[w] \in {"Abort", "Stop"} \/ tasks # <<>>
                          THEN "ifAbort" ELSE "block")
  /\ UNCHANGED <<callerVars, state, hand, tasks, mutex, finished>>

\* ... and blocks in a later step: a notification sent in between is lost.
Block(w) ==
  /\ Goto(w, "block", "waiting")
  /\ mutex' = Nobody
  /\ UNCHANGED <<callerVars, state, hand, tasks, finished>>

SpuriousWakeup(w) ==
  /\ Goto(w, "waiting", "lock")
  /\ UNCHANGED <<callerVars, state, hand, tasks, mutex, finished>>

IfAbort(w) ==
  /\ Goto(w, "ifAbort", IF state[w] = "Abort" THEN "exit" ELSE "ifStop")
  /\ mutex' = IF state[w] = "Abort" THEN Nobody ELSE w
  /\ UNCHANGED <<callerVars, state, hand, tasks, finished>>

\* Mutant: the worker calls itself Done while it still holds the mutex.
LeaveOnStopDone(w) ==
  /\ state[w] = "Stop" /\ tasks = <<>>
  /\ Goto(w, "ifStop", "exit")
  /\ state' = [state EXCEPT ![w] = "Done"]
  /\ mutex' = Nobody
  /\ UNCHANGED <<callerVars, hand, tasks, finished>>

\* Mutant: Stop is obeyed without looking at the queue.
LeaveOnStopAtOnce(w) ==
  /\ state[w] = "Stop"
  /\ Goto(w, "ifStop", "exit")
  /\ mutex' = Nobody
  /\ UNCHANGED <<callerVars, state, hand, tasks, finished>>

\* Stop is obeyed once the queue is empty.
LeaveOnStop(w) ==
  /\ state[w] = "Stop" /\ tasks = <<>>
  /\ Goto(w, "ifStop", "exit")
  /\ mutex' = Nobody
  /\ UNCHANGED <<callerVars, state, hand, tasks, finished>>

\* Mutant: the task is read from the queue and not removed.
PopKeeping(w) ==
  /\ tasks # <<>>
  /\ Goto(w, "ifStop", "popped")
  /\ hand' = [hand EXCEPT ![w] = Head(tasks)]
  /\ mutex' = Nobody
  /\ UNCHANGED <<callerVars, state, tasks, finished>>

\* Mutant: the newest task is taken first.
PopNewest(w) ==
  /\ tasks # <<>>
  /\ Goto(w, "ifStop", "popped")
  /\ hand' = [hand EXCEPT ![w] = Last(tasks)]
  /\ tasks' = Front(tasks)
  /\ mutex' = Nobody
  /\ UNCHANGED <<callerVars, state, finished>>

\* The worker takes the oldest task and releases the mutex.
Pop(w) ==
  /\ tasks # <<>>
  /\ Goto(w, "ifStop", "popped")
  /\ hand' = [hand EXCEPT ![w] = Head(tasks)]
  /\ tasks' = Tail(tasks)
  /\ mutex' = Nobody
  /\ UNCHANGED <<callerVars, state, finished>>

\* Stop was seen by the predicate and turned into Abort between the two reads
\* of the condition: front() of an empty queue, after which anything goes.
PopEmpty(w) ==
  /\ tasks = <<>> /\ state[w] # "Stop"
  /\ Goto(w, "ifStop", "undefined")
  /\ mutex' = Nobody
  /\ UNCHANGED <<callerVars, state, hand, tasks, finished>>

BecomeWorking(w) ==
  /\ Goto(w, "popped", "run")
  /\ state' = [state EXCEPT ![w] = "Working"]
  /\ UNCHANGED <<callerVars, hand, tasks, mutex, finished>>

\* Mutant: the worker keeps hold of the task it has run.
FinishTaskKeeping(w) ==
  /\ Goto(w, "run", "head")
  /\ finished' = finished \cup {hand[w]}
  /\ UNCHANGED <<callerVars, state, hand, tasks, mutex>>

\* The task returns or throws; an exception is swallowed.
FinishTask(w) ==
  /\ Goto(w, "run", "head")
  /\ finished' = finished \cup {hand[w]}
  /\ hand' = [hand EXCEPT ![w] = NoTask]
  /\ UNCHANGED <<callerVars, state, tasks, mutex>>

BecomeDone(w) ==
  /\ Goto(w, "exit", "exited")
  /\ state' = [state EXCEPT ![w] = "Done"]
  /\ UNCHANGED <<callerVars, hand, tasks, mutex, finished>>

\* Steps a worker takes on its own account, the task apart.
WorkerStep(w) ==
  \/ BecomeFree(w) \/ Lock(w) \/ Predicate(w) \/ Block(w) \/ IfAbort(w)
  \/ LeaveOnStop(w) \/ Pop(w) \/ PopEmpty(w) \/ BecomeWorking(w) \/ BecomeDone(w)

-----------------------------------------------------------------------------
(* The operations of the pool, called by the thread that owns it.          *)

threadVars == <<state, hand, mutex, finished>>

\* enqueue and enqueueRaw: without workers the caller runs the task itself.
RunInline(t) ==
  /\ call.op = "none" /\ workers = <<>> /\ t \notin issued
  /\ issued' = issued \cup {t}
  /\ finished' = finished \cup {t}
  /\ UNCHANGED <<workers, state, pc, hand, tasks, mutex, call>>

Enqueue(t) ==
  /\ call.op = "none" /\ workers # <<>> /\ t \notin issued
  /\ mutex = Nobody
  /\ tasks' = Append(tasks, t)
  /\ issued' = issued \cup {t}
  /\ call' = [call EXCEPT !.op = "notifyOne"]
  /\ UNCHANGED <<workers, pc, threadVars>>

\* Mutant: enqueue does not notify.
NotifyNobody ==
  /\ call.op = "notifyOne"
  /\ call' = Idle
  /\ UNCHANGED <<workers, pc, tasks, issued, threadVars>>

\* condition.notify_one: one waiting thread, if there is one, wakes up.
NotifyOne ==
  /\ call.op = "notifyOne"
  /\ call' = Idle
  /\ \/ \E w \in Worker : Goto(w, "waiting", "lock")
     \/ (\A w \in Worker : pc[w] # "waiting") /\ UNCHANGED pc
  /\ UNCHANGED <<workers, tasks, issued, threadVars>>

\* Entry of trySetSize (and of the constructor, on an empty vector).
TrySetSize(n) ==
  /\ call.op = "none"
  /\ call' = [op     |-> IF Len(workers) < n THEN "grow"
                         ELSE IF Len(workers) > n THEN "compare" ELSE "none",
              size   |-> n, i |-> 1, active |-> Len(workers)]
  /\ UNCHANGED <<workers, pc, tasks, issued, threadVars>>

Grow(w) ==
  /\ call.op = "grow" /\ pc[w] = "none"
  /\ workers' = Append(workers, w)
  /\ state' = [state EXCEPT ![w] = "Free"]
  /\ pc' = [pc EXCEPT ![w] = "head"]
  /\ call' = IF Len(workers) + 1 < call.size THEN call ELSE Idle
  /\ UNCHANGED <<hand, tasks, mutex, issued, finished>>

\* Mutant: the loop ends only when enough workers were stopped.
CompareExchangeUnbounded ==
  /\ call.op = "compare"
  /\ LET w     == workers[call.i]
         fewer == IF state[w] \in {"Free", "Stop", "Done"} THEN call.active - 1
                                                           ELSE call.active
     IN /\ state' = IF state[w] = "Free" THEN [state EXCEPT ![w] = "Stop"] ELSE state
        /\ call' = IF fewer <= call.size
                   THEN [call EXCEPT !.op = "notifyAll", !.i = 1, !.active = fewer]
                   ELSE [call EXCEPT !.i = @ + 1, !.active = fewer]
  /\ UNCHANGED <<workers, pc, hand, tasks, mutex, issued, finished>>

\* One compare-and-exchange Free -> Stop of the shrinking loop.
CompareExchange ==
  /\ call.op = "compare"
  /\ LET w      == workers[call.i]
         fewer  == IF state[w] \in {"Free", "Stop", "Done"} THEN call.active - 1
                                                            ELSE call.active
         last   == fewer <= call.size \/ call.i = Len(workers)
     IN /\ state' = IF state[w] = "Free" THEN [state EXCEPT ![w] = "Stop"] ELSE state
        /\ call' = IF last
                   THEN [call EXCEPT !.op = "notifyAll", !.i = 1, !.active = fewer]
                   ELSE [call EXCEPT !.i = @ + 1, !.active = fewer]
  /\ UNCHANGED <<workers, pc, hand, tasks, mutex, issued, finished>>

WakeAll == pc' = [w \in Worker |-> IF pc[w] = "waiting" THEN "lock" ELSE pc[w]]

NotifyAll ==
  /\ call.op = "notifyAll"
  /\ WakeAll
  /\ call' = [call EXCEPT !.op = "erase"]
  /\ UNCHANGED <<workers, tasks, issued, threadVars>>

\* The vector without its i-th worker, whose thread is joined.
Join(i) ==
  /\ pc[workers[i]] = "exited"
  /\ workers' = RemoveAt(workers, i)
  /\ pc' = [pc EXCEPT ![workers[i]] = "none"]

\* erase_remove_if visits the workers one by one; an erased one is joined.
Erase ==
  /\ call.op = "erase"
  /\ IF call.i > Len(workers)
     THEN call' = Idle /\ UNCHANGED <<workers, pc>>
     ELSE IF state[workers[call.i]] = "Done"
     THEN Join(call.i) /\ UNCHANGED call
     ELSE call' = [call EXCEPT !.i = @ + 1] /\ UNCHANGED <<workers, pc>>
  /\ UNCHANGED <<tasks, issued, threadVars>>

\* The destructor: Abort for every worker, one notification, join them all.
Destroy ==
  /\ call.op = "none"
  /\ call' = [Idle EXCEPT !.op = "abort"]
  /\ UNCHANGED <<workers, pc, tasks, issued, threadVars>>

Abort ==
  /\ call.op = "abort"
  /\ IF call.i <= Len(workers)
     THEN /\ state' = [state EXCEPT ![workers[call.i]] = "Abort"]
          /\ call' = [call EXCEPT !.i = @ + 1]
     ELSE call' = [call EXCEPT !.op = "abortNotify"] /\ UNCHANGED state
  /\ UNCHANGED <<workers, pc, hand, tasks, mutex, issued, finished>>

AbortNotify ==
  /\ call.op = "abortNotify"
  /\ WakeAll
  /\ call' = [call EXCEPT !.op = "join", !.i = 1]
  /\ UNCHANGED <<workers, tasks, issued, threadVars>>

JoinAll ==
  /\ call.op = "join"
  /\ IF workers = <<>>
     THEN call' = [call EXCEPT !.op = "destroyed"] /\ UNCHANGED <<workers, pc>>
     ELSE Join(1) /\ UNCHANGED call
  /\ UNCHANGED <<tasks, issued, threadVars>>

\* Steps that continue a call already made.
CallStep ==
  \/ NotifyOne \/ CompareExchange \/ NotifyAll \/ Erase
  \/ Abort \/ AbortNotify \/ JoinAll
  \/ \E w \in Worker : Grow(w)

NewCall ==
  \/ \E t \in Task : RunInline(t) \/ Enqueue(t)
  \/ \E n \in 0 .. MaxSize : TrySetSize(n)
  \/ Destroy

Next ==
  \/ \E w \in Worker : WorkerStep(w) \/ SpuriousWakeup(w) \/ FinishTask(w)
  \/ CallStep
  \/ NewCall

Spec == Init /\ [][Next]_vars

\* Every thread that can run keeps running, a thread that waits for the mutex
\* gets it in the end, and a task terminates.
WorkerFairness(w) ==
  WF_vars(WorkerStep(w)) /\ SF_vars(Lock(w)) /\ WF_vars(FinishTask(w))

\* A call that was made is carried on; nothing forces the owner to make another.
FairSpec == Spec /\ (\A w \in Worker : WorkerFairness(w)) /\ WF_vars(CallStep)

-----------------------------------------------------------------------------
(* Properties.                                                             *)

Queued == ToSet(tasks)
Held   == {hand[w] : w \in Worker} \ {NoTask}

\* A task given to the pool is, at any time, in exactly one place: once in the
\* queue, in the hands of one worker, or run.  So no task is lost by the
\* resizing of the pool and none is run twice.
EachTaskInOnePlace ==
  /\ issued = Queued \cup Held \cup finished
  /\ Queued \cap Held = {} /\ Queued \cap finished = {} /\ Held \cap finished = {}
  /\ \A i, j \in 1 .. Len(tasks) : tasks[i] = tasks[j] => i = j
  /\ \A v, w \in Worker : hand[v] = hand[w] /\ hand[v] # NoTask => v = w

\* The pool implements TaskPool: the tasks of its queue are pending, those in
\* the hands of a worker are started.
Promise == INSTANCE TaskPool WITH pending <- tasks, started <- Held, done <- finished

\* Whatever the interleaving, resizing included, tasks are started once each and
\* in the order in which they were handed to the pool.
ImplementsTaskPool == Promise!Spec

\* trySetSize joins only threads that have already left their loop, so it never
\* waits for a running task: a worker that reads Done holds neither.
ShrinkNeverBlocks ==
  call.op = "erase" =>
    \A i \in 1 .. Len(workers) : state[workers[i]] = "Done" => pc[workers[i]] = "exited"

\* The comment on Abort: "Stop as soon as possible, no matter if there are more
\* tasks"; the destructor's workers.clear() "will join all threads".
DestructorReturns == call.op = "abort" ~> call.op = "destroyed"

\* A thread takes a task only from a queue that holds one.
NeverPopsEmptyQueue == \A w \in Worker : pc[w] # "undefined"
=============================================================================
