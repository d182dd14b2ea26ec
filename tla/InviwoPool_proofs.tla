-------------------------- MODULE InviwoPool_proofs --------------------------
(***************************************************************************)
(* The application uses its pool as ThreadPool expects, so all that is     *)
(* proved of the pool holds in the application; and what resizePool,       *)
(* waitForPool and the destructor promise of the tasks.                    *)
(***************************************************************************)
EXTENDS InviwoPool, ThreadPool_proofs

-----------------------------------------------------------------------------
(* The functions in the queue of the front.                                *)

\* A function that enqueues has a task to enqueue, and one that answers was
\* dispatched by a task that asked, the tasks of S.
DispatchedBy(S) ==
  {f \in FrontFunctions : /\ f.for = "enqueue" => Follow[f.task] # NoTask
                          /\ f.for = "answer" => f.task \in S}

AppTyped ==
  /\ front \in Seq(DispatchedBy(asked))
  /\ answered \subseteq asked /\ asked \subseteq Blocking
  /\ app \in [at : AppPlaces, for : Purposes, size : 0 .. MaxSize, saved : 0 .. MaxSize]
  /\ app.for = "none" => app.at \in {"events", "front"}

LEMMA SeqOfMore ==
  ASSUME NEW S, NEW T, S \subseteq T, NEW s \in Seq(S)
  PROVE  s \in Seq(T)
<1>1. Len(s) \in Nat /\ s \in [1 .. Len(s) -> S]
  BY LenProperties
<1>2. s \in [1 .. Len(s) -> T]
  BY <1>1
<1> QED BY <1>1, <1>2, SeqDef

LEMMA DispatchFrontTyped ==
  ASSUME AppTyped, NEW S, asked \subseteq S, NEW for \in {"enqueue", "answer"}, NEW t \in Task,
         for = "enqueue" => Follow[t] # NoTask, for = "answer" => t \in S, DispatchFront(for, t)
  PROVE  front' \in Seq(DispatchedBy(S))
<1>1. DispatchedBy(asked) \subseteq DispatchedBy(S)
  BY DEF DispatchedBy
<1>2. front \in Seq(DispatchedBy(S))
  BY <1>1, SeqOfMore DEF AppTyped
<1>3. [for |-> for, task |-> t] \in DispatchedBy(S)
  BY DEF DispatchedBy, FrontFunctions
<1> QED BY <1>2, <1>3, AppendProperties DEF DispatchFront

LEMMA DispatchFollowTyped ==
  ASSUME AppTyped, NEW t \in Task, DispatchFollow(t)
  PROVE  front' \in Seq(DispatchedBy(asked))
<1>1. CASE Follow[t] = NoTask
  BY <1>1 DEF DispatchFollow, AppTyped
<1>2. CASE Follow[t] # NoTask
  BY <1>2, DispatchFrontTyped DEF DispatchFollow
<1> QED BY <1>1, <1>2

\* The function that is run next, and those that are left.
LEMMA NextFront ==
  ASSUME AppTyped, front # <<>>
  PROVE  /\ Head(front) \in DispatchedBy(asked)
         /\ Tail(front) \in Seq(DispatchedBy(asked))
BY HeadTailProperties DEF AppTyped

LEMMA EventsTyped ==
  /\ Events \in [at : AppPlaces, for : Purposes, size : 0 .. MaxSize, saved : 0 .. MaxSize]
  /\ Events.at = "events" /\ Events.for = "none" /\ Events.saved = 0 /\ Events.size = 0
BY SizeAssumption DEF Events, AppPlaces, Purposes

-----------------------------------------------------------------------------
(* Every step of the application is one of the pool, or leaves it alone.   *)

\* The pool is well typed and within its size, and so is the application.
AppInv == TypeOK /\ SizeInv /\ AppTyped

\* Sizes asked of the pool are within its bound.
LEMMA ResizePoolTyped ==
  ASSUME AppInv, NEW n \in 0 .. MaxSize, NEW for \in Purposes, NEW saved \in 0 .. MaxSize,
         call.op = "none", for # "none", ResizePool(n, for, saved)
  PROVE  [Next]_vars /\ AppTyped'
<1>1. [Next]_vars
  BY DEF ResizePool, Next, NewCall
<1>2. /\ app' \in [at : AppPlaces, for : Purposes, size : 0 .. MaxSize, saved : 0 .. MaxSize]
      /\ app'.for = for
  BY DEF ResizePool, AppPlaces
<1>3. UNCHANGED <<front, asked, answered>>
  BY DEF ResizePool, frontVars
<1> QED BY <1>1, <1>2, <1>3 DEF AppTyped, AppInv

LEMMA AppStep ==
  ASSUME AppInv, [AppNext]_appVars
  PROVE  [Next]_vars /\ AppTyped'
<1> USE AppAssumption
<1>1. app \in [at : AppPlaces, for : Purposes, size : 0 .. MaxSize, saved : 0 .. MaxSize]
  BY DEF AppInv, AppTyped
<1>p. app.for = "none" => app.at \in {"events", "front"}
  BY DEF AppInv, AppTyped
<1>s. Len(workers) \in 0 .. MaxSize
  BY LenProperties DEF AppInv, TypeOK, SizeInv
<1>2. app.at \in AppPlaces /\ app.for \in Purposes /\ app.size \in 0 .. MaxSize /\ app.saved \in 0 .. MaxSize
  BY <1>1
<1>3. ASSUME NEW w \in Worker, WorkerStep(w) \/ SpuriousWakeup(w), UNCHANGED <<frontVars, app>>
      PROVE  [Next]_vars /\ AppTyped'
  BY <1>3 DEF Next, frontVars, AppInv, AppTyped
<1>4. ASSUME NEW w \in Worker, AskFront(w) PROVE [Next]_vars /\ AppTyped'
  <2>1. hand[w] \in Blocking /\ hand[w] \in Task /\ UNCHANGED <<vars, answered, app>>
        /\ asked' = asked \cup {hand[w]} /\ DispatchFront("answer", hand[w])
    BY <1>4 DEF AskFront
  <2>2. front' \in Seq(DispatchedBy(asked'))
    BY <2>1, DispatchFrontTyped DEF AppInv
  <2> QED BY <2>1, <2>2 DEF AppInv, AppTyped
<1>5. ASSUME NEW w \in Worker, FinishAndDispatch(w) PROVE [Next]_vars /\ AppTyped'
  <2>1. hand[w] \in Task /\ FinishTask(w) /\ DispatchFollow(hand[w]) /\ UNCHANGED <<asked, answered, app>>
    BY <1>5 DEF FinishAndDispatch, FinishTask, Goto, AppInv, TypeOK
  <2>2. front' \in Seq(DispatchedBy(asked'))
    BY <2>1, DispatchFollowTyped DEF AppInv
  <2> QED BY <2>1, <2>2 DEF AppInv, AppTyped, Next
<1>6. ASSUME CallStep, UNCHANGED <<frontVars, app>> PROVE [Next]_vars /\ AppTyped'
  BY <1>6 DEF Next, frontVars, AppInv, AppTyped
<1>7. CASE ResizeLoop
  <2>1. UNCHANGED <<front, asked, answered>>
    BY <1>7 DEF ResizeLoop, frontVars
  <2>2. [Next]_vars
    BY <1>2, <1>7 DEF ResizeLoop, Next, NewCall
  <2>p. app.for # "none"
    BY <1>p, <1>7 DEF ResizeLoop
  <2>3. CASE Return(app.for)
    BY <1>1, <1>2, <1>p, <2>p, <2>1, <2>2, <2>3, EventsTyped DEF Return, AppInv, AppTyped, AppPlaces, Purposes
  <2>4. CASE app' = [app EXCEPT !.at = "again"]
    BY <1>1, <2>p, <2>1, <2>2, <2>4 DEF AppInv, AppTyped, AppPlaces
  <2> QED BY <1>7, <2>3, <2>4 DEF ResizeLoop
<1>8. CASE ResizeFront \/ ProcessFront
  BY <1>1, <1>8 DEF ResizeFront, ProcessFront, frontVars, AppInv, AppTyped, AppPlaces
<1>9. CASE FrontFunction
  <2> DEFINE f    == Head(front)
             next == Follow[f.task]
  <2>1. f \in DispatchedBy(asked) /\ Tail(front) \in Seq(DispatchedBy(asked))
    BY <1>9, NextFront DEF FrontFunction, AppInv
  <2>2. UNCHANGED <<asked, app>>
    BY <1>9 DEF FrontFunction
  <2>3. CASE f.for = "answer" /\ answered' = answered \cup {f.task} /\ front' = Tail(front) /\ UNCHANGED vars
    BY <2>1, <2>2, <2>3 DEF DispatchedBy, AppInv, AppTyped
  <2>4. f.for = "enqueue" => next \in Task
    BY <2>1 DEF DispatchedBy, FrontFunctions
  <2>5. CASE f.for = "enqueue" /\ Enqueue(next) /\ front' = Tail(front) /\ UNCHANGED answered
    BY <2>1, <2>2, <2>4, <2>5 DEF Next, NewCall, AppInv, AppTyped
  <2>6. CASE /\ f.for = "enqueue" /\ RunInline(next) /\ UNCHANGED answered
             /\ front' = IF Follow[next] = NoTask THEN Tail(front)
                         ELSE Append(Tail(front), [for |-> "enqueue", task |-> next])
    <3>1. CASE Follow[next] = NoTask
      BY <2>1, <2>2, <2>4, <2>6, <3>1 DEF Next, NewCall, AppInv, AppTyped
    <3>2. CASE Follow[next] # NoTask
      <4>1. [for |-> "enqueue", task |-> next] \in DispatchedBy(asked)
        BY <2>4, <2>6, <3>2 DEF DispatchedBy, FrontFunctions
      <4>2. front' \in Seq(DispatchedBy(asked))
        BY <2>1, <2>6, <3>2, <4>1, AppendProperties
      <4> QED BY <2>2, <2>4, <2>6, <4>2 DEF Next, NewCall, AppInv, AppTyped
    <3> QED BY <3>1, <3>2
  <2> QED BY <1>9, <2>3, <2>5, <2>6 DEF FrontFunction
<1>10. CASE ProcessFrontReturns
  BY <1>10, EventsTyped DEF ProcessFrontReturns, frontVars, AppInv, AppTyped
<1>11. CASE WaitForPool
  <2>1. 0 \in 0 .. MaxSize /\ Len(workers) \in 0 .. MaxSize /\ "drain" \in Purposes
    BY <1>s, SizeAssumption DEF Purposes
  <2> QED BY <1>11, <2>1, ResizePoolTyped DEF WaitForPool
<1>12. CASE FlushReturns
  <2>1. 0 \in 0 .. MaxSize /\ "restore" \in Purposes
    BY SizeAssumption DEF Purposes
  <2> QED BY <1>2, <1>12, <2>1, ResizePoolTyped DEF FlushReturns
<1>13. CASE Close
  <2>1. 0 \in 0 .. MaxSize /\ "close" \in Purposes
    BY SizeAssumption DEF Purposes
  <2> QED BY <1>13, <2>1, ResizePoolTyped DEF Close
<1>14. CASE SettingChanges
  <2>1. 0 \in 0 .. MaxSize /\ "setting" \in Purposes
    BY SizeAssumption DEF Purposes
  <2> QED BY <1>14, <2>1, ResizePoolTyped DEF SettingChanges
<1>15. CASE DestroyPool
  BY <1>1, <1>15 DEF DestroyPool, frontVars, AppInv, AppTyped, AppPlaces, Next, NewCall
<1>16. CASE UserTask
  <2>1. PICK t \in Task : \/ Enqueue(t) /\ UNCHANGED front
                          \/ RunInline(t) /\ DispatchFollow(t)
    BY <1>16 DEF UserTask
  <2>2. UNCHANGED <<asked, answered, app>>
    BY <1>16 DEF UserTask
  <2>3. front' \in Seq(DispatchedBy(asked))
    BY <2>1, DispatchFollowTyped DEF AppInv, AppTyped
  <2> QED BY <2>1, <2>2, <2>3 DEF Next, NewCall, AppInv, AppTyped
<1>17. CASE UNCHANGED appVars
  BY <1>17 DEF appVars, frontVars, AppInv, AppTyped
<1> QED
  BY <1>3, <1>4, <1>5, <1>6, <1>7, <1>8, <1>9, <1>10, <1>11, <1>12, <1>13, <1>14, <1>15, <1>16, <1>17
  DEF AppNext, MainStep, UserStep

LEMMA AppInvariance == AppSpec => []AppInv
<1>1. AppInit => AppInv
  BY IdleCall, EmptySeq, NoTaskAssumption, SizeAssumption, EventsTyped
  DEF AppInit, Init, AppInv, TypeOK, States, Places, SizeInv, AppTyped
<1>2. AppInv /\ [AppNext]_appVars => AppInv'
  BY AppStep, TypeStep, SizeStep DEF AppInv
<1> QED BY <1>1, <1>2, PTL DEF AppSpec

\* Every state of the application is well typed: front functions stand for tasks,
\* answers for tasks that asked, and the sizes it asks of the pool are in bounds.
THEOREM AppTypeCorrect == AppSpec => []AppTypeOK
<1>1. AppInv => AppTypeOK
  <2> SUFFICES ASSUME AppInv PROVE AppTypeOK
    OBVIOUS
  <2>1. DispatchedBy(asked) \subseteq FrontFunctions
    BY DEF DispatchedBy
  <2>2. front \in Seq(FrontFunctions)
    BY <2>1, SeqOfMore DEF AppInv, AppTyped
  <2> QED BY <2>2 DEF AppInv, AppTyped, AppTypeOK
<1> QED BY <1>1, AppInvariance, PTL

\* The application uses its pool as ThreadPool allows, one call at a time and each
\* of them legal: what holds of every run of the pool (no task is lost, run twice or
\* out of order, no join waits) holds of it in the application.
THEOREM UsesPoolLegally == AppSpec => Spec
<1>1. AppInit => Init
  BY DEF AppInit
<1>2. AppInv /\ [AppNext]_appVars => [Next]_vars
  BY AppStep
<1> QED BY <1>1, <1>2, AppInvariance, PTL DEF AppSpec, Spec

-----------------------------------------------------------------------------
(* Where the application is in relation to its pool.                       *)

Ending == {"abort", "abortNotify", "join", "destroyed"}

\* The flush of waitForPool and the destruction find the pool empty, and only the
\* destructor calls that of the pool.
Control ==
  /\ app.at = "events" => app.for = "none"
  /\ app.for \in {"drain", "close"} => app.size = 0
  /\ app.at = "flush" => app.for = "drain" /\ workers = <<>> /\ call.op = "none"
  /\ app.at = "closing" => app.for = "close" /\ workers = <<>> /\ call.op = "none"
  /\ app.at = "closed" => app.for = "close" /\ workers = <<>>
  /\ app.at = "closed" <=> call.op \in Ending

LEMMA ControlKept ==
  ASSUME Control, UNCHANGED <<app, workers>>, call.op = "none" => call' = call,
         call'.op \in Ending <=> call.op \in Ending
  PROVE  Control'
BY DEF Control

\* A step of an operation of the pool never begins or leaves its destruction.
LEMMA CallStepControl ==
  ASSUME TypeOK, Control, CallStep, UNCHANGED app
  PROVE  Control'
<1>1. workers \in Seq(Worker) /\ call \in Calls /\ call.op # "none"
  BY DEF TypeOK, CallStep, NotifyOne, CompareExchange, NotifyAll, Erase, Abort, AbortNotify, JoinAll, Grow
<1>2. CASE call.op \notin Ending
  <2>1. app.at \notin {"flush", "closing", "closed"}
    BY <1>1, <1>2 DEF Control
  <2>2. call'.op \notin Ending
    <3>1. CASE NotifyOne \/ NotifyAll \/ Erase \/ \E w \in Worker : Grow(w)
      BY <1>1, <1>2, <3>1, IdleCall DEF NotifyOne, NotifyAll, Erase, Grow, Join, Calls, Ending
    <3>2. CASE CompareExchange
      BY <1>1, <1>2, <3>2 DEF CompareExchange, Calls, Ending
    <3> QED BY <1>2, <3>1, <3>2 DEF CallStep, Abort, AbortNotify, JoinAll, Ending
  <2> QED BY <1>2, <2>1, <2>2 DEF Control
<1>3. CASE call.op \in Ending
  <2>1. workers = <<>>
    BY <1>3 DEF Control
  <2>2. CASE Abort \/ AbortNotify
    BY <1>1, <1>3, <2>2, ControlKept DEF Abort, AbortNotify, Calls, Ending
  <2>3. CASE JoinAll
    BY <1>1, <1>3, <2>1, <2>3, ControlKept DEF JoinAll, Calls, Ending
  <2> QED
    BY <1>3, <2>2, <2>3 DEF CallStep, NotifyOne, CompareExchange, NotifyAll, Erase, Grow, Ending
<1> QED BY <1>2, <1>3

LEMMA ResizePoolControl ==
  ASSUME AppInv, Control, NEW n \in Nat, NEW for, NEW saved, call.op = "none",
         for # "none", for \in {"drain", "close"} => n = 0, ResizePool(n, for, saved)
  PROVE  Control'
<1>1. app'.at = "first" /\ app'.for = for /\ app'.size = n
  BY DEF ResizePool
<1>2. call'.op \in {"none", "grow", "compare"}
  BY DEF ResizePool, TrySetSize, vars
<1> QED BY <1>1, <1>2 DEF Control, Ending

LEMMA ControlStep ==
  ASSUME AppInv, Control, [AppNext]_appVars
  PROVE  Control'
<1>1. app \in [at : AppPlaces, for : Purposes, size : 0 .. MaxSize, saved : 0 .. MaxSize]
  BY DEF AppInv, AppTyped
<1>2. app.for = "none" => app.at \in {"events", "front"}
  BY DEF AppInv, AppTyped
<1>3. call \in Calls /\ workers \in Seq(Worker) /\ app.at \in AppPlaces /\ app.for \in Purposes
      /\ app.size \in Nat /\ app.saved \in Nat
  BY <1>1, SizeAssumption DEF AppInv, TypeOK
<1>4. ASSUME NEW w \in Worker,
             \/ (WorkerStep(w) \/ SpuriousWakeup(w)) /\ UNCHANGED <<frontVars, app>>
             \/ AskFront(w) \/ FinishAndDispatch(w)
      PROVE  Control'
  <2>1. UNCHANGED <<workers, call, app>>
    BY <1>4 DEF AskFront, FinishAndDispatch, vars, WorkerStep, callerVars, BecomeFree, Lock, Predicate,
      Block, IfAbort, LeaveOnStop, Pop, PopEmpty, BecomeWorking, BecomeDone, SpuriousWakeup, FinishTask
  <2> QED BY <2>1, ControlKept
<1>5. ASSUME CallStep, UNCHANGED <<frontVars, app>> PROVE Control'
  BY <1>5, CallStepControl DEF AppInv
<1>6. CASE ResizeLoop
  <2>1. app.for # "none" /\ call.op = "none" /\ app.at \in {"first", "front"}
    BY <1>2, <1>6 DEF ResizeLoop
  <2>2. CASE Len(workers) = app.size /\ Return(app.for) /\ UNCHANGED vars
    <3>1. CASE app.for \in {"setting", "restore"}
      BY <2>1, <2>2, <3>1, EventsTyped DEF Return, Control, Ending, vars
    <3>2. CASE app.for \in {"drain", "close"}
      <4>1. workers = <<>>
        BY <1>3, <2>2, <3>2, EmptySeq DEF Control
      <4> QED BY <1>1, <2>1, <2>2, <3>2, <4>1 DEF Return, Control, Ending, vars
    <3> QED BY <1>3, <2>1, <3>1, <3>2 DEF Purposes
  <2>3. CASE TrySetSize(app.size) /\ app' = [app EXCEPT !.at = "again"]
    <3>1. app'.at = "again" /\ app'.for = app.for /\ app'.size = app.size
      BY <1>1, <2>3
    <3>2. call'.op \notin Ending
      BY <2>3 DEF TrySetSize, Ending
    <3> QED BY <3>1, <3>2 DEF Control
  <2> QED BY <1>6, <2>2, <2>3 DEF ResizeLoop
<1>7. CASE ResizeFront \/ ProcessFront
  <2>1. app'.at = "front" /\ app'.for = app.for /\ app'.size = app.size /\ UNCHANGED vars
        /\ call.op = "none"
    BY <1>1, <1>7 DEF ResizeFront, ProcessFront
  <2> QED BY <2>1 DEF Control, vars, Ending
<1>8. CASE FrontFunction
  <2>1. UNCHANGED <<app, workers>> /\ app.at \in {"front", "flush"} /\ call.op = "none"
    BY <1>8 DEF FrontFunction, Enqueue, RunInline, vars
  <2>2. CASE UNCHANGED call
    BY <2>1, <2>2, ControlKept
  <2>3. CASE workers # <<>> /\ call' = [call EXCEPT !.op = "notifyOne"]
    BY <1>3, <2>1, <2>3 DEF Control, Calls, Ending
  <2> QED BY <1>8, <2>2, <2>3 DEF FrontFunction, Enqueue, RunInline, vars
<1>9. CASE ProcessFrontReturns
  BY <1>9, EventsTyped DEF ProcessFrontReturns, Control, vars, Ending
<1>10. CASE WaitForPool
  BY <1>10, ResizePoolControl DEF WaitForPool
<1>11. CASE FlushReturns
  BY <1>3, <1>11, ResizePoolControl DEF FlushReturns
<1>12. CASE Close
  BY <1>12, ResizePoolControl DEF Close
<1>13. CASE SettingChanges
  <2>1. \A n \in Sizes : n \in Nat
    BY AppAssumption
  <2> QED BY <1>13, <2>1, ResizePoolControl DEF SettingChanges
<1>14. CASE DestroyPool
  <2>1. app'.at = "closed" /\ app'.for = app.for /\ app'.size = app.size
    BY <1>1, <1>14 DEF DestroyPool
  <2>2. call'.op = "abort" /\ workers' = workers /\ app.at = "closing"
    BY <1>14, CallOp, IdleCall DEF DestroyPool, Destroy, Operations
  <2> QED BY <2>1, <2>2 DEF Control, Ending
<1>15. CASE UserTask
  <2>1. UNCHANGED <<app, workers>> /\ app.at = "events" /\ call.op = "none" /\ call'.op \in {"none", "notifyOne"}
    BY <1>3, <1>15 DEF UserTask, Enqueue, RunInline, Calls
  <2> QED BY <2>1 DEF Control, Ending
<1>16. CASE UNCHANGED appVars
  BY <1>16, ControlKept DEF appVars, vars
<1> QED
  BY <1>4, <1>5, <1>6, <1>7, <1>8, <1>9, <1>10, <1>11, <1>12, <1>13, <1>14, <1>15, <1>16
  DEF AppNext, MainStep, UserStep

LEMMA ControlInvariance == AppSpec => []Control
<1>1. AppInit => Control
  BY EventsTyped DEF AppInit, Control, Init, Idle, Ending
<1>2. AppInv /\ Control /\ [AppNext]_appVars => Control'
  BY ControlStep
<1> QED BY <1>1, <1>2, AppInvariance, PTL DEF AppSpec

-----------------------------------------------------------------------------
(* A thread takes a task only from a queue that holds one.                 *)

\* No worker is told to abort, since the pool is empty when it is destroyed; so what
\* the predicate of a worker saw under the mutex, a task or Stop, is still there when
\* it comes to the queue: nobody else pops, and Stop is only overwritten by its thread.
NoAbort    == \A w \in Worker : state[w] # "Abort"
HoldsMutex == \A w \in Worker : pc[w] \in {"predicate", "block", "ifAbort", "ifStop"} => mutex = w
SeenStays  == \A w \in Worker : pc[w] \in {"ifAbort", "ifStop"} => state[w] = "Stop" \/ tasks # <<>>

PopInv == NoAbort /\ HoldsMutex /\ SeenStays /\ NeverPopsEmptyQueue

\* The caller wakes and starts threads, and tells them to stop.
LEMMA CallKeepsPop ==
  ASSUME PopInv, UNCHANGED mutex,
         \A w \in Worker : state'[w] = state[w] \/ state'[w] = "Stop" \/ (state'[w] = "Free" /\ pc'[w] = "head"),
         \A w \in Worker : pc'[w] = pc[w] \/ pc'[w] \in {"head", "lock", "none"},
         tasks # <<>> => tasks' # <<>>
  PROVE  PopInv'
BY DEF PopInv, NoAbort, HoldsMutex, SeenStays, NeverPopsEmptyQueue

LEMMA PopStep ==
  ASSUME TypeOK, PopInv, call.op = "abort" => workers = <<>>, [Next]_vars
  PROVE  PopInv'
<1>1. /\ workers \in Seq(Worker) /\ state \in [Worker -> States] /\ pc \in [Worker -> Places]
      /\ tasks \in Seq(Task)
  BY DEF TypeOK
<1>2. ASSUME NEW w \in Worker, WorkerStep(w) \/ SpuriousWakeup(w) \/ FinishTask(w) PROVE PopInv'
  <2> USE DEF PopInv, NoAbort, HoldsMutex, SeenStays, NeverPopsEmptyQueue, Goto, callerVars
  <2>1. CASE BecomeFree(w) \/ BecomeWorking(w) \/ BecomeDone(w)
    BY <1>1, <2>1 DEF BecomeFree, BecomeWorking, BecomeDone
  <2>2. CASE Lock(w)
    BY <1>1, <2>2, NobodyAssumption DEF Lock
  <2>3. CASE Predicate(w)
    BY <1>1, <2>3 DEF Predicate
  <2>4. CASE Block(w) \/ LeaveOnStop(w) \/ PopEmpty(w)
    BY <1>1, <2>4 DEF Block, LeaveOnStop, PopEmpty
  <2>5. CASE IfAbort(w)
    BY <1>1, <2>5 DEF IfAbort
  <2>6. CASE Pop(w)
    BY <1>1, <2>6 DEF Pop
  <2>7. CASE SpuriousWakeup(w) \/ FinishTask(w)
    BY <1>1, <2>7 DEF SpuriousWakeup, FinishTask
  <2> QED BY <1>2, <2>1, <2>2, <2>3, <2>4, <2>5, <2>6, <2>7 DEF WorkerStep
<1>3. CASE NotifyOne \/ NotifyAll \/ AbortNotify
  <2>1. UNCHANGED <<mutex, state, tasks>>
    BY <1>3 DEF NotifyOne, NotifyAll, AbortNotify, threadVars
  <2>2. \A w \in Worker : pc'[w] = pc[w] \/ pc'[w] = "lock"
    BY <1>1, <1>3 DEF NotifyOne, NotifyAll, AbortNotify, Goto, WakeAll
  <2> QED BY <2>1, <2>2, CallKeepsPop
<1>4. CASE CompareExchange
  <2>1. UNCHANGED <<mutex, pc, tasks>>
    BY <1>4 DEF CompareExchange
  <2>2. \A w \in Worker : state'[w] = state[w] \/ state'[w] = "Stop"
    BY <1>1, <1>4 DEF CompareExchange
  <2> QED BY <2>1, <2>2, CallKeepsPop
<1>5. CASE Erase \/ JoinAll
  <2>1. UNCHANGED <<mutex, state, tasks>>
    BY <1>5 DEF Erase, JoinAll, threadVars
  <2>2. \A w \in Worker : pc'[w] = pc[w] \/ pc'[w] = "none"
    BY <1>1, <1>5 DEF Erase, JoinAll, Join
  <2> QED BY <2>1, <2>2, CallKeepsPop
<1>6. CASE Abort
  <2>1. ~(call.i <= Len(workers))
    <3>1. call.i \in Nat \ {0} /\ workers = <<>>
      BY <1>6, CallFields DEF TypeOK, Abort
    <3> QED BY <3>1
  <2>2. UNCHANGED <<mutex, state, pc, tasks>>
    BY <1>6, <2>1 DEF Abort
  <2> QED BY <2>2, CallKeepsPop
<1>7. ASSUME NEW v \in Worker, Grow(v) PROVE PopInv'
  <2>1. UNCHANGED <<mutex, tasks>>
    BY <1>7 DEF Grow
  <2>2. \A w \in Worker : w # v => state'[w] = state[w] /\ pc'[w] = pc[w]
    BY <1>1, <1>7 DEF Grow
  <2>3. state'[v] = "Free" /\ pc'[v] = "head"
    BY <1>1, <1>7 DEF Grow
  <2> QED BY <2>1, <2>2, <2>3, CallKeepsPop
<1>8. CASE NewCall
  <2>1. UNCHANGED <<mutex, state, pc>>
    BY <1>8 DEF NewCall, RunInline, Enqueue, TrySetSize, Destroy, threadVars
  <2>2. ASSUME NEW t \in Task, Enqueue(t) PROVE tasks' # <<>>
    BY <1>1, <2>2, AppendProperties, EmptySeq DEF Enqueue
  <2>3. tasks # <<>> => tasks' # <<>>
    BY <1>8, <2>2 DEF NewCall, RunInline, TrySetSize, Destroy
  <2> QED BY <2>1, <2>3, CallKeepsPop
<1>9. CASE UNCHANGED vars
  BY <1>9, CallKeepsPop DEF vars
<1> QED BY <1>2, <1>3, <1>4, <1>5, <1>6, <1>7, <1>8, <1>9 DEF Next, CallStep

LEMMA PopInvariance == AppSpec => []PopInv
<1>1. AppInit => PopInv
  BY DEF AppInit, Init, PopInv, NoAbort, HoldsMutex, SeenStays, NeverPopsEmptyQueue
<1>2. AppInv /\ Control /\ PopInv /\ [AppNext]_appVars => PopInv'
  <2>1. Control => (call.op = "abort" => workers = <<>>)
    BY DEF Control, Ending
  <2> QED BY <2>1, AppStep, PopStep DEF AppInv
<1> QED BY <1>1, <1>2, AppInvariance, ControlInvariance, PTL DEF AppSpec

\* The application empties its pool before it destroys it: whatever sizes the user
\* asks for and whenever, no worker takes the front of an empty queue.
THEOREM NoEmptyPop == AppSpec => []NeverPopsEmptyQueue
BY PopInvariance, PTL DEF PopInv

-----------------------------------------------------------------------------
(* A pool that is only ever emptied or filled.                             *)

\* The sizes a user who never shrinks the pool halfway asks for.
EmptiedOrFilled == Sizes \subseteq {0, MaxSize}

Shrinking == app.for # "none" /\ app.size = 0

\* The pool is empty or full outside resizePool, and resizePool does not shrink it
\* unless it empties it.
TwoSizes ==
  /\ app.saved \in {0, MaxSize} /\ app.size \in {0, MaxSize}
  /\ app.for = "none" => Len(workers) \in {0, MaxSize} /\ call.op \in {"none", "notifyOne"}
  /\ app.for # "none" /\ app.size # 0 =>
       /\ app.at \in {"first", "again", "front"}
       /\ call.op \in {"none", "grow", "notifyOne"}
       /\ IF call.op = "grow" THEN call.size = MaxSize ELSE Len(workers) = MaxSize
  /\ Shrinking => call.op # "grow"

\* Unless the pool is being emptied no thread has been told to stop.
Calm ==
  ~Shrinking => \A w \in Worker :
    pc[w] # "none" => state[w] \in {"Free", "Working"} /\ pc[w] \notin {"exit", "exited"}

\* resizePool begins: with what the pool holds when nobody resizes it.
LEMMA ResizePoolTwoSizes ==
  ASSUME AppInv, NEW n \in {0, MaxSize}, NEW for, NEW saved \in {0, MaxSize}, for # "none",
         call.op = "none", Len(workers) \in {0, MaxSize}, ResizePool(n, for, saved)
  PROVE  TwoSizes'
<1>1. app'.at = "first" /\ app'.for = for /\ app'.size = n /\ app'.saved = saved
  BY DEF ResizePool
<1>2. workers' = workers
  BY DEF ResizePool, vars, TrySetSize
<1>3. CASE n = Len(workers)
  <2>1. call' = call
    BY <1>3 DEF ResizePool, vars
  <2> QED BY <1>1, <1>2, <1>3, <2>1 DEF TwoSizes, Shrinking
<1>4. CASE n # Len(workers)
  <2>1. call'.op = (IF Len(workers) < n THEN "grow" ELSE IF Len(workers) > n THEN "compare" ELSE "none")
        /\ call'.size = n
    BY <1>4 DEF ResizePool, TrySetSize
  <2>2. n = 0 => call'.op = "compare"
    BY <1>4, <2>1, SizeAssumption
  <2>3. n # 0 => n = MaxSize /\ call'.op = "grow"
    BY <1>4, <2>1, SizeAssumption
  <2> QED BY <1>1, <1>2, <2>1, <2>2, <2>3 DEF TwoSizes, Shrinking
<1> QED BY <1>3, <1>4

LEMMA TwoSizesStep ==
  ASSUME EmptiedOrFilled, AppInv, Control, TwoSizes, [AppNext]_appVars
  PROVE  TwoSizes'
<1>1. app \in [at : AppPlaces, for : Purposes, size : 0 .. MaxSize, saved : 0 .. MaxSize]
  BY DEF AppInv, AppTyped
<1>2. app.for = "none" => app.at \in {"events", "front"}
  BY DEF AppInv, AppTyped
<1>3. /\ call \in Calls /\ workers \in Seq(Worker) /\ Len(workers) \in 0 .. MaxSize
      /\ app.for \in Purposes /\ MaxSize \in Nat
  BY <1>1, LenProperties, SizeAssumption DEF AppInv, TypeOK, SizeInv
<1>4. ASSUME NEW w \in Worker,
             \/ (WorkerStep(w) \/ SpuriousWakeup(w)) /\ UNCHANGED <<frontVars, app>>
             \/ AskFront(w) \/ FinishAndDispatch(w)
      PROVE  TwoSizes'
  <2>1. UNCHANGED <<workers, call, app>>
    BY <1>4 DEF AskFront, FinishAndDispatch, vars, WorkerStep, callerVars, BecomeFree, Lock, Predicate,
      Block, IfAbort, LeaveOnStop, Pop, PopEmpty, BecomeWorking, BecomeDone, SpuriousWakeup, FinishTask
  <2> QED BY <2>1 DEF TwoSizes, Shrinking
<1>5. ASSUME CallStep, UNCHANGED <<frontVars, app>> PROVE TwoSizes'
  <2>1. CASE NotifyOne
    BY <1>5, <2>1, IdleCall DEF NotifyOne, TwoSizes, Shrinking
  <2>2. ASSUME NEW w \in Worker, Grow(w) PROVE TwoSizes'
    <3>1. call.op = "grow" /\ Len(workers) < call.size /\ Len(workers') = Len(workers) + 1
      BY <1>3, <2>2, AppendProperties DEF Grow, AppInv, SizeInv
    <3>2. app.for # "none" /\ app.size # 0 /\ call.size = MaxSize
      BY <3>1 DEF TwoSizes, Shrinking
    <3>3. CASE Len(workers) + 1 < call.size
      <4>1. call' = call
        BY <2>2, <3>3 DEF Grow
      <4> QED BY <1>5, <3>1, <3>2, <4>1 DEF TwoSizes, Shrinking
    <3>4. CASE ~(Len(workers) + 1 < call.size)
      <4>1. call'.op = "none"
        BY <2>2, <3>4, IdleCall DEF Grow
      <4>2. Len(workers') = MaxSize
        BY <1>3, <3>1, <3>2, <3>4
      <4> QED BY <1>5, <3>2, <4>1, <4>2 DEF TwoSizes, Shrinking
    <3> QED BY <3>3, <3>4
  <2>3. CASE CompareExchange \/ NotifyAll \/ Erase \/ Abort \/ AbortNotify \/ JoinAll
    <3>1. call.op \notin {"none", "grow", "notifyOne"}
      BY <2>3 DEF CompareExchange, NotifyAll, Erase, Abort, AbortNotify, JoinAll
    <3>2. Shrinking
      BY <3>1 DEF TwoSizes, Shrinking
    <3>3. call'.op # "grow"
      BY <1>3, <2>3, <3>1, IdleCall DEF CompareExchange, NotifyAll, Erase, Abort, AbortNotify, JoinAll, Calls
    <3> QED BY <1>5, <3>2, <3>3 DEF TwoSizes, Shrinking
  <2> QED BY <1>5, <2>1, <2>2, <2>3 DEF CallStep
<1>6. CASE ResizeLoop
  <2>1. app.for # "none" /\ call.op = "none" /\ app.at \in {"first", "front"}
    BY <1>2, <1>6 DEF ResizeLoop
  <2>2. CASE Len(workers) = app.size /\ Return(app.for) /\ UNCHANGED vars
    <3>1. CASE app.for \in {"setting", "restore"}
      BY <2>1, <2>2, <3>1, EventsTyped DEF Return, TwoSizes, Shrinking, vars
    <3>2. CASE app.for \in {"drain", "close"}
      <4>1. app.size = 0
        BY <3>2 DEF Control
      <4>2. app'.for = app.for /\ app'.size = app.size /\ app'.saved = app.saved
        BY <1>1, <2>2, <3>2 DEF Return
      <4> QED BY <2>1, <2>2, <4>1, <4>2 DEF TwoSizes, Shrinking, vars
    <3> QED BY <1>3, <2>1, <3>1, <3>2 DEF Purposes
  <2>3. CASE Len(workers) # app.size /\ TrySetSize(app.size) /\ app' = [app EXCEPT !.at = "again"]
    <3>1. app.size = 0
      BY <2>1, <2>3 DEF TwoSizes
    <3>2. app'.for = app.for /\ app'.size = app.size /\ app'.saved = app.saved
      BY <1>1, <2>3
    <3>3. call'.op # "grow"
      BY <1>3, <2>3, <3>1 DEF TrySetSize
    <3> QED BY <2>1, <3>1, <3>2, <3>3 DEF TwoSizes, Shrinking
  <2> QED BY <1>6, <2>2, <2>3 DEF ResizeLoop
<1>7. CASE ResizeFront \/ ProcessFront
  <2>1. app'.at = "front" /\ app'.for = app.for /\ app'.size = app.size /\ app'.saved = app.saved
        /\ UNCHANGED vars
    BY <1>1, <1>7 DEF ResizeFront, ProcessFront
  <2> QED BY <2>1 DEF TwoSizes, Shrinking, vars
<1>8. CASE FrontFunction
  <2>1. UNCHANGED <<app, workers>> /\ call.op = "none"
    BY <1>8 DEF FrontFunction, Enqueue, RunInline, vars
  <2>2. call'.op \in {"none", "notifyOne"}
    BY <1>3, <1>8, <2>1 DEF FrontFunction, Enqueue, RunInline, vars, Calls
  <2> QED BY <2>1, <2>2 DEF TwoSizes, Shrinking
<1>9. CASE ProcessFrontReturns
  BY <1>9, EventsTyped DEF ProcessFrontReturns, TwoSizes, Shrinking, vars
<1>10. CASE WaitForPool
  <2>1. app.for = "none" /\ Len(workers) \in {0, MaxSize}
    BY <1>10 DEF WaitForPool, Control, TwoSizes
  <2> QED BY <1>10, <2>1, ResizePoolTwoSizes DEF WaitForPool
<1>11. CASE FlushReturns
  <2>1. Len(workers) = 0 /\ app.saved \in {0, MaxSize}
    BY <1>3, <1>11, EmptySeq DEF FlushReturns, Control, TwoSizes
  <2> QED BY <1>11, <2>1, ResizePoolTwoSizes DEF FlushReturns
<1>12. CASE Close
  <2>1. Len(workers) \in {0, MaxSize}
    BY <1>12 DEF Close, Control, TwoSizes
  <2> QED BY <1>12, <2>1, ResizePoolTwoSizes DEF Close
<1>13. CASE SettingChanges
  <2>1. Len(workers) \in {0, MaxSize}
    BY <1>13 DEF SettingChanges, Control, TwoSizes
  <2> QED BY <1>13, <2>1, ResizePoolTwoSizes DEF SettingChanges, EmptiedOrFilled
<1>14. CASE DestroyPool
  <2>1. app'.for = app.for /\ app'.size = app.size /\ app'.saved = app.saved
    BY <1>1, <1>14 DEF DestroyPool
  <2>2. app.for = "close" /\ app.size = 0 /\ call'.op = "abort"
    BY <1>14, CallOp, IdleCall DEF DestroyPool, Destroy, Operations, Control
  <2> QED BY <2>1, <2>2 DEF TwoSizes, Shrinking
<1>15. CASE UserTask
  <2>1. UNCHANGED <<app, workers>> /\ app.for = "none" /\ call'.op \in {"none", "notifyOne"}
    BY <1>3, <1>15 DEF UserTask, Enqueue, RunInline, Calls, Control
  <2> QED BY <2>1 DEF TwoSizes, Shrinking
<1>16. CASE UNCHANGED appVars
  BY <1>16 DEF appVars, vars, TwoSizes, Shrinking
<1> QED
  BY <1>4, <1>5, <1>6, <1>7, <1>8, <1>9, <1>10, <1>11, <1>12, <1>13, <1>14, <1>15, <1>16
  DEF AppNext, MainStep, UserStep

LEMMA NoThreads ==
  ASSUME ThreadsAreWorkers, workers = <<>>
  PROVE  \A w \in Worker : pc[w] = "none"
BY DEF ThreadsAreWorkers, ToSet

LEMMA CalmKept ==
  ASSUME Calm, UNCHANGED <<pc, state>>, ~Shrinking' => ~Shrinking
  PROVE  Calm'
BY DEF Calm

\* A pool without workers has no thread to tell.
LEMMA CalmWithoutWorkers ==
  ASSUME ThreadsAreWorkers, workers = <<>>, UNCHANGED pc
  PROVE  Calm'
BY NoThreads DEF Calm

LEMMA ResizePoolCalm ==
  ASSUME Calm, ThreadsAreWorkers, NEW n, NEW for, NEW saved, for # "none",
         workers = <<>> \/ ~Shrinking, ResizePool(n, for, saved)
  PROVE  Calm'
<1>1. UNCHANGED <<pc, state>>
  BY DEF ResizePool, TrySetSize, threadVars, vars
<1> QED BY <1>1, CalmKept, CalmWithoutWorkers

LEMMA CalmStep ==
  ASSUME AppInv, Control, TwoSizes, ThreadsAreWorkers, PopInv, Calm, [AppNext]_appVars
  PROVE  Calm'
<1>1. app \in [at : AppPlaces, for : Purposes, size : 0 .. MaxSize, saved : 0 .. MaxSize]
  BY DEF AppInv, AppTyped
<1>2. app.for = "none" => app.at \in {"events", "front"}
  BY DEF AppInv, AppTyped
<1>3. /\ workers \in Seq(Worker) /\ state \in [Worker -> States] /\ pc \in [Worker -> Places]
      /\ app.for \in Purposes
  BY <1>1 DEF AppInv, TypeOK
<1>4. ASSUME NEW w \in Worker,
             \/ (WorkerStep(w) \/ SpuriousWakeup(w)) /\ UNCHANGED <<frontVars, app>>
             \/ AskFront(w) \/ FinishAndDispatch(w)
      PROVE  Calm'
  <2>1. UNCHANGED app
    BY <1>4 DEF AskFront, FinishAndDispatch
  <2>2. CASE Shrinking
    BY <2>1, <2>2 DEF Calm, Shrinking
  <2>3. CASE ~Shrinking
    <3>1. \A v \in Worker : pc[v] # "none" => state[v] \in {"Free", "Working"} /\ pc[v] \notin {"exit", "exited"}
      BY <2>3 DEF Calm
    <3>2. CASE WorkerStep(w)
      <4>1. \A v \in Worker : v # w => pc'[v] = pc[v] /\ state'[v] = state[v]
        BY <1>3, <3>2 DEF WorkerStep, Goto, BecomeFree, Lock, Predicate, Block, IfAbort, LeaveOnStop,
          Pop, PopEmpty, BecomeWorking, BecomeDone
      <4>2. state'[w] \in {"Free", "Working"} /\ pc'[w] \notin {"exit", "exited"}
        BY <1>3, <3>1, <3>2 DEF WorkerStep, Goto, BecomeFree, Lock, Predicate, Block, IfAbort, LeaveOnStop,
          Pop, PopEmpty, BecomeWorking, BecomeDone
      <4> QED BY <3>1, <4>1, <4>2 DEF Calm
    <3>3. CASE SpuriousWakeup(w) \/ FinishTask(w)
      <4>1. state' = state /\ \A v \in Worker : pc'[v] = pc[v] \/ (pc[v] # "none" /\ pc'[v] \in {"lock", "head"})
        BY <1>3, <3>3 DEF SpuriousWakeup, FinishTask, Goto
      <4> QED BY <3>1, <4>1 DEF Calm
    <3>4. CASE AskFront(w)
      BY <2>3, <3>4, CalmKept DEF AskFront, vars
    <3> QED BY <1>4, <3>2, <3>3, <3>4 DEF FinishAndDispatch
  <2> QED BY <2>2, <2>3
<1>5. ASSUME CallStep, UNCHANGED <<frontVars, app>> PROVE Calm'
  <2>1. CASE Shrinking
    BY <1>5, <2>1 DEF Calm, Shrinking
  <2>2. CASE ~Shrinking
    <3>1. \A v \in Worker : pc[v] # "none" => state[v] \in {"Free", "Working"} /\ pc[v] \notin {"exit", "exited"}
      BY <2>2 DEF Calm
    <3>2. call.op \in {"grow", "notifyOne"}
      BY <1>5, <2>2 DEF TwoSizes, Shrinking, CallStep, NotifyOne, CompareExchange, NotifyAll, Erase,
        Abort, AbortNotify, JoinAll, Grow
    <3>3. CASE NotifyOne
      <4>1. state' = state /\ \A v \in Worker : pc'[v] = pc[v] \/ (pc[v] # "none" /\ pc'[v] = "lock")
        BY <1>3, <3>3 DEF NotifyOne, Goto, threadVars
      <4> QED BY <3>1, <4>1 DEF Calm
    <3>4. ASSUME NEW w \in Worker, Grow(w) PROVE Calm'
      BY <1>3, <3>1, <3>4 DEF Calm, Grow
    <3> QED BY <1>5, <3>2, <3>3, <3>4 DEF CallStep, CompareExchange, NotifyAll, Erase, Abort, AbortNotify, JoinAll
  <2> QED BY <2>1, <2>2
<1>6. CASE ResizeLoop
  <2>1. app.for # "none" /\ UNCHANGED <<pc, state>>
    BY <1>2, <1>6 DEF ResizeLoop, vars, TrySetSize, threadVars
  <2>2. CASE Len(workers) = app.size /\ app.size = 0
    <3>1. workers = <<>>
      BY <1>3, <2>2, EmptySeq
    <3> QED BY <2>1, <3>1, CalmWithoutWorkers
  <2>3. CASE app.size # 0
    BY <2>1, <2>3, CalmKept DEF Shrinking
  <2>4. CASE Len(workers) # app.size
    <3>1. app'.for = app.for /\ app'.size = app.size
      BY <1>1, <1>6, <2>4 DEF ResizeLoop
    <3> QED BY <2>1, <3>1, CalmKept DEF Shrinking
  <2> QED BY <2>2, <2>3, <2>4
<1>7. CASE ResizeFront \/ ProcessFront
  <2>1. app'.for = app.for /\ app'.size = app.size /\ UNCHANGED vars
    BY <1>1, <1>7 DEF ResizeFront, ProcessFront
  <2> QED BY <2>1, CalmKept DEF Shrinking, vars
<1>8. CASE FrontFunction \/ UserTask
  <2>1. UNCHANGED <<app, pc, state>>
    BY <1>8 DEF FrontFunction, UserTask, Enqueue, RunInline, vars, threadVars
  <2> QED BY <2>1, CalmKept DEF Shrinking
<1>9. CASE ProcessFrontReturns
  BY <1>9, CalmKept DEF ProcessFrontReturns, Shrinking, vars
<1>10. CASE WaitForPool \/ Close \/ SettingChanges
  <2>1. ~Shrinking
    BY <1>10 DEF WaitForPool, Close, SettingChanges, Control, Shrinking
  <2> QED BY <1>10, <2>1, ResizePoolCalm DEF WaitForPool, Close, SettingChanges
<1>11. CASE FlushReturns
  BY <1>11, ResizePoolCalm DEF FlushReturns, Control
<1>12. CASE DestroyPool
  <2>1. workers = <<>> /\ UNCHANGED pc
    BY <1>12 DEF DestroyPool, Destroy, Control
  <2> QED BY <2>1, CalmWithoutWorkers
<1>13. CASE UNCHANGED appVars
  BY <1>13, CalmKept DEF appVars, vars, Shrinking
<1> QED
  BY <1>4, <1>5, <1>6, <1>7, <1>8, <1>9, <1>10, <1>11, <1>12, <1>13 DEF AppNext, MainStep, UserStep

LEMMA CalmInvariance ==
  ASSUME EmptiedOrFilled
  PROVE  AppSpec => [](TwoSizes /\ Calm)
<1>1. AppInit => TwoSizes /\ Calm
  BY EventsTyped, EmptySeq DEF AppInit, Init, Idle, TwoSizes, Calm, Shrinking
<1>2. /\ AppInv /\ Control /\ PopInv /\ ThreadsAreWorkers /\ TwoSizes /\ Calm /\ [AppNext]_appVars
      => (TwoSizes /\ Calm)'
  BY TwoSizesStep, CalmStep
<1> QED
  BY <1>1, <1>2, AppInvariance, ControlInvariance, PopInvariance, UsesPoolLegally, NoThreadLeftBehind, PTL
  DEF AppSpec

\* A worker told to stop leaves though it may have to be replaced; but if the pool is
\* only emptied and filled, then in the event loop each worker of it is there to take
\* the tasks of the queue, whatever the front functions enqueue meanwhile.
THEOREM QueueIsServed ==
  ASSUME EmptiedOrFilled
  PROVE  AppSpec => []QueuedTaskHasWorker
<1>1. TypeOK /\ ThreadInv /\ Control /\ Calm => QueuedTaskHasWorker
  <2> SUFFICES ASSUME TypeOK, ThreadInv, Control, Calm, app.at = "events", workers # <<>>
               PROVE  \E i \in 1 .. Len(workers) : pc[workers[i]] \notin {"exit", "exited"}
    BY DEF QueuedTaskHasWorker
  <2>1. 1 \in 1 .. Len(workers) /\ workers[1] \in Worker
    BY EmptySeq, ElementOfSeq DEF TypeOK
  <2>2. pc[workers[1]] # "none"
    BY <2>1 DEF ThreadInv, WorkersHaveThreads
  <2>3. ~Shrinking
    BY DEF Control, Shrinking
  <2> QED BY <2>1, <2>2, <2>3 DEF Calm
<1> QED
  BY <1>1, UsesPoolLegally, TypeCorrect, ThreadInvariance, ControlInvariance, CalmInvariance, PTL

-----------------------------------------------------------------------------
(* waitForPool waits for every task.                                       *)

\* A thread leaves only when the queue is empty, and nothing is enqueued after that
\* until the pool is filled again.
LastOutEmptiesQueue ==
  ((\E w \in Worker : pc[w] \in {"exit", "exited"}) \/ workers = <<>>) => tasks = <<>>

\* No function of the front enqueues.
NothingFollows == \A t \in Task : Follow[t] = NoTask

\* A step that takes no task into the queue, and after which no thread leaves that did
\* not leave before.
LEMMA LastOutKept ==
  ASSUME LastOutEmptiesQueue, tasks = <<>> => tasks' = <<>>,
         (\E w \in Worker : pc'[w] \in {"exit", "exited"}) \/ workers' = <<>> =>
           (\E w \in Worker : pc[w] \in {"exit", "exited"}) \/ workers = <<>>
  PROVE  LastOutEmptiesQueue'
BY DEF LastOutEmptiesQueue

LEMMA LastOutStep ==
  ASSUME NothingFollows, AppInv, Control, ThreadInv, PopInv, Calm, LastOutEmptiesQueue, [AppNext]_appVars
  PROVE  LastOutEmptiesQueue'
<1>1. /\ workers \in Seq(Worker) /\ state \in [Worker -> States] /\ pc \in [Worker -> Places]
      /\ tasks \in Seq(Task)
  BY DEF AppInv, TypeOK
<1>2. ASSUME UNCHANGED <<workers, pc, tasks>> PROVE LastOutEmptiesQueue'
  BY <1>2, LastOutKept
<1>3. ASSUME NEW w \in Worker, WorkerStep(w) \/ SpuriousWakeup(w) \/ FinishTask(w)
      PROVE  LastOutEmptiesQueue'
  <2> USE DEF Goto, callerVars
  <2>1. CASE BecomeFree(w) \/ Lock(w) \/ Predicate(w) \/ Block(w) \/ PopEmpty(w) \/ BecomeWorking(w)
             \/ SpuriousWakeup(w) \/ FinishTask(w)
    <3>1. UNCHANGED <<workers, tasks>>
      BY <2>1 DEF BecomeFree, Lock, Predicate, Block, PopEmpty, BecomeWorking, SpuriousWakeup, FinishTask
    <3>2. \A v \in Worker : pc'[v] = pc[v] \/ pc'[v] \notin {"exit", "exited"}
      BY <1>1, <2>1 DEF BecomeFree, Lock, Predicate, Block, PopEmpty, BecomeWorking, SpuriousWakeup, FinishTask
    <3> QED BY <3>1, <3>2, LastOutKept
  <2>2. CASE IfAbort(w)
    BY <1>1, <2>2, LastOutKept DEF IfAbort, PopInv, NoAbort
  <2>3. CASE LeaveOnStop(w)
    BY <2>3 DEF LeaveOnStop, LastOutEmptiesQueue
  <2>4. CASE Pop(w)
    <3>1. ~((\E v \in Worker : pc[v] \in {"exit", "exited"}) \/ workers = <<>>)
      BY <2>4 DEF Pop, LastOutEmptiesQueue
    <3>2. workers' = workers /\ \A v \in Worker : pc'[v] \notin {"exit", "exited"}
      BY <1>1, <2>4, <3>1 DEF Pop
    <3> QED BY <3>1, <3>2 DEF LastOutEmptiesQueue
  <2>5. CASE BecomeDone(w)
    BY <1>1, <2>5, LastOutKept DEF BecomeDone
  <2> QED BY <1>3, <2>1, <2>2, <2>3, <2>4, <2>5 DEF WorkerStep
<1>4. ASSUME NEW i \in 1 .. Len(workers), Join(i), UNCHANGED tasks PROVE LastOutEmptiesQueue'
  <2>1. pc[workers[i]] = "exited" /\ workers[i] \in Worker
    BY <1>1, <1>4, ElementOfSeq DEF Join
  <2> QED BY <1>4, <2>1, LastOutKept
<1>5. CASE CallStep
  <2>1. CASE NotifyOne \/ NotifyAll \/ AbortNotify
    <3>1. UNCHANGED <<workers, tasks>>
      BY <2>1 DEF NotifyOne, NotifyAll, AbortNotify
    <3>2. \A v \in Worker : pc'[v] = pc[v] \/ pc'[v] = "lock"
      BY <1>1, <2>1 DEF NotifyOne, NotifyAll, AbortNotify, Goto, WakeAll
    <3> QED BY <3>1, <3>2, LastOutKept
  <2>2. CASE CompareExchange \/ Abort
    BY <1>2, <2>2 DEF CompareExchange, Abort
  <2>3. CASE Erase
    <3>1. CASE UNCHANGED <<workers, pc>>
      BY <1>2, <2>3, <3>1 DEF Erase
    <3>2. CASE ~(call.i > Len(workers)) /\ Join(call.i)
      <4>1. call.i \in 1 .. Len(workers)
        BY <3>2, CallFields, LenProperties DEF AppInv, TypeOK
      <4> QED BY <1>4, <2>3, <3>2, <4>1 DEF Erase
    <3> QED BY <2>3, <3>1, <3>2 DEF Erase
  <2>4. CASE JoinAll
    <3>1. CASE UNCHANGED <<workers, pc>>
      BY <1>2, <2>4, <3>1 DEF JoinAll
    <3>2. CASE workers # <<>> /\ Join(1)
      <4>1. 1 \in 1 .. Len(workers)
        BY <1>1, <3>2, EmptySeq
      <4> QED BY <1>4, <2>4, <3>2, <4>1 DEF JoinAll
    <3> QED BY <2>4, <3>1, <3>2 DEF JoinAll
  <2>5. ASSUME NEW w \in Worker, Grow(w) PROVE LastOutEmptiesQueue'
    <3>1. workers' # <<>> /\ tasks' = tasks
      BY <1>1, <2>5, AppendProperties, EmptySeq DEF Grow
    <3>2. \A v \in Worker : pc'[v] = pc[v] \/ pc'[v] = "head"
      BY <1>1, <2>5 DEF Grow
    <3> QED BY <3>1, <3>2, LastOutKept
  <2> QED BY <1>5, <2>1, <2>2, <2>3, <2>4, <2>5 DEF CallStep
<1>6. CASE FrontFunction
  <2>1. Head(front) \in DispatchedBy(asked)
    BY <1>6, NextFront DEF FrontFunction, AppInv
  <2>2. Head(front).for # "enqueue"
    BY <2>1 DEF DispatchedBy, FrontFunctions, NothingFollows
  <2> QED BY <1>2, <1>6, <2>2 DEF FrontFunction, vars
<1>7. CASE UserTask
  <2>1. CASE \E t \in Task : Enqueue(t)
    <3>1. workers # <<>> /\ UNCHANGED <<workers, pc, state>>
      BY <2>1 DEF Enqueue, threadVars
    <3>2. \A w \in Worker : pc[w] \notin {"exit", "exited"}
      BY <1>7 DEF UserTask, Control, Shrinking, Calm
    <3> QED BY <3>1, <3>2 DEF LastOutEmptiesQueue
  <2>2. CASE \E t \in Task : RunInline(t)
    BY <1>2, <2>2 DEF RunInline
  <2> QED BY <1>7, <2>1, <2>2 DEF UserTask
<1>8. CASE ResizeLoop \/ ResizeFront \/ ProcessFront \/ ProcessFrontReturns \/ FlushReturns \/ DestroyPool
           \/ WaitForPool \/ Close \/ SettingChanges
  BY <1>2, <1>8 DEF ResizeLoop, ResizeFront, ProcessFront, ProcessFrontReturns, FlushReturns, DestroyPool,
    WaitForPool, Close, SettingChanges, ResizePool, TrySetSize, Destroy, vars
<1>9. CASE UNCHANGED appVars \/ \E w \in Worker : AskFront(w)
  BY <1>2, <1>9 DEF appVars, vars, AskFront
<1> QED
  BY <1>3, <1>5, <1>6, <1>7, <1>8, <1>9 DEF AppNext, MainStep, UserStep, FinishAndDispatch

LEMMA LastOutInvariance ==
  ASSUME EmptiedOrFilled, NothingFollows
  PROVE  AppSpec => []LastOutEmptiesQueue
<1>1. AppInit => LastOutEmptiesQueue
  BY DEF AppInit, Init, LastOutEmptiesQueue
<1>2. /\ AppInv /\ Control /\ ThreadInv /\ PopInv /\ Calm /\ LastOutEmptiesQueue /\ [AppNext]_appVars
      => LastOutEmptiesQueue'
  BY LastOutStep
<1> QED
  BY <1>1, <1>2, AppInvariance, ControlInvariance, PopInvariance, CalmInvariance, UsesPoolLegally,
    ThreadInvariance, PTL DEF AppSpec

\* "This will wait until all tasks are done": once the pool has been emptied nothing
\* handed to it is still to be run, tasks that front functions answered included; as long
\* as the pool is only emptied and filled, and no front function enqueues.
THEOREM WaitIsLongEnough ==
  ASSUME EmptiedOrFilled, NothingFollows
  PROVE  AppSpec => []WaitForPoolWaits
<1>1. TypeOK /\ Control /\ ThreadsAreWorkers /\ EachTaskInOnePlace /\ LastOutEmptiesQueue => WaitForPoolWaits
  <2> SUFFICES ASSUME TypeOK, Control, ThreadsAreWorkers, EachTaskInOnePlace, LastOutEmptiesQueue,
                      app.at = "flush"
               PROVE  issued = finished
    BY DEF WaitForPoolWaits
  <2>1. workers = <<>> /\ tasks = <<>>
    BY DEF Control, LastOutEmptiesQueue
  <2>2. \A w \in Worker : hand[w] = NoTask
    BY <2>1, NoThreads DEF TypeOK
  <2>3. Queued = {} /\ Held = {}
    BY <2>1, <2>2 DEF Queued, Held, ToSet
  <2> QED BY <2>3 DEF EachTaskInOnePlace
<1> QED
  BY <1>1, UsesPoolLegally, TypeCorrect, TaskSafety, NoThreadLeftBehind, ControlInvariance,
    LastOutInvariance, PTL
=============================================================================
