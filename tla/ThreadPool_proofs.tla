-------------------------- MODULE ThreadPool_proofs --------------------------
(***************************************************************************)
(* What the pool guarantees for any number of workers and tasks.           *)
(***************************************************************************)
EXTENDS ThreadPool, SequenceFacts

-----------------------------------------------------------------------------
(* The position of the caller.                                             *)

\* The fields of a call, and what an update of one of them leaves.
LEMMA CallFields ==
  ASSUME NEW c \in Calls
  PROVE  /\ c.op \in Operations /\ c.size \in 0 .. MaxSize
         /\ c.i \in Nat \ {0} /\ c.active \in Int
BY DEF Calls

LEMMA CallOp ==
  ASSUME NEW c \in Calls, NEW o \in Operations
  PROVE  /\ [c EXCEPT !.op = o] \in Calls
         /\ [c EXCEPT !.op = o].op = o /\ [c EXCEPT !.op = o].i = c.i
BY DEF Calls

LEMMA CallIndex ==
  ASSUME NEW c \in Calls, NEW k \in Nat \ {0}
  PROVE  /\ [c EXCEPT !.i = k] \in Calls
         /\ [c EXCEPT !.i = k].op = c.op /\ [c EXCEPT !.i = k].i = k
BY DEF Calls

LEMMA IdleCall == Idle \in Calls /\ Idle.op = "none" /\ Idle.i = 1
BY SizeAssumption DEF Idle, Calls, Operations

-----------------------------------------------------------------------------
(* Type correctness.                                                       *)

\* No step of a thread or of the caller leaves the types.
LEMMA TypeStep ==
  ASSUME TypeOK, [Next]_vars
  PROVE  TypeOK'
<1> USE DEF TypeOK
<1>1. ASSUME NEW w \in Worker, WorkerStep(w) PROVE TypeOK'
  <2> USE DEF callerVars, Goto, Places, States
  <2>1. CASE BecomeFree(w)    BY <2>1 DEF BecomeFree
  <2>2. CASE Lock(w)          BY <2>2 DEF Lock
  <2>3. CASE Predicate(w)     BY <2>3 DEF Predicate
  <2>4. CASE Block(w)         BY <2>4 DEF Block
  <2>5. CASE IfAbort(w)       BY <2>5 DEF IfAbort
  <2>6. CASE LeaveOnStop(w)   BY <2>6 DEF LeaveOnStop
  <2>7. CASE Pop(w)
    <3>1. Head(tasks) \in Task /\ Tail(tasks) \in Seq(Task)
      BY <2>7, HeadTailProperties DEF Pop
    <3> QED BY <2>7, <3>1 DEF Pop
  <2>8. CASE PopEmpty(w)      BY <2>8 DEF PopEmpty
  <2>9. CASE BecomeWorking(w) BY <2>9 DEF BecomeWorking
  <2>10. CASE BecomeDone(w)   BY <2>10 DEF BecomeDone
  <2> QED
    BY <1>1, <2>1, <2>2, <2>3, <2>4, <2>5, <2>6, <2>7, <2>8, <2>9, <2>10 DEF WorkerStep
<1>2. ASSUME NEW w \in Worker, SpuriousWakeup(w) PROVE TypeOK'
  BY <1>2 DEF SpuriousWakeup, callerVars, Goto, Places
<1>3. ASSUME NEW w \in Worker, FinishTask(w) PROVE TypeOK'
  <2>1. hand[w] \in Task
    BY <1>3 DEF FinishTask, Goto
  <2> QED BY <1>3, <2>1, NoTaskAssumption DEF FinishTask, callerVars, Goto, Places
<1>4. CASE CallStep
  <2> USE DEF threadVars
  <2>1. CASE NotifyOne
    <3>1. call' \in Calls /\ call'.op = "none" /\ call'.i = 1
      BY <2>1, IdleCall DEF NotifyOne
    <3>2. /\ pc' \in [Worker -> Places]
          /\ \A w \in Worker : pc'[w] \in {"popped", "run"} <=> pc[w] \in {"popped", "run"}
      BY <2>1 DEF NotifyOne, Goto, Places
    <3> QED BY <2>1, <3>1, <3>2, LenProperties DEF NotifyOne
  <2>2. CASE CompareExchange
    <3>1. call.op = "compare" /\ call.i \in 1 .. Len(workers) /\ workers[call.i] \in Worker
      BY <2>2, CallFields, LenProperties, ElementOfSeq DEF CompareExchange
    <3>2. state' \in [Worker -> States]
      BY <2>2, <3>1 DEF CompareExchange, States
    <3>3. /\ call' \in Calls
          /\ call'.op = "compare" => call'.i <= Len(workers)
          /\ call'.op # "compare" => call'.op = "notifyAll" /\ call'.i = 1
      <4> DEFINE w     == workers[call.i]
                 fewer == IF state[w] \in {"Free", "Stop", "Done"}
                          THEN call.active - 1 ELSE call.active
      <4>1. fewer \in Int /\ "notifyAll" \in Operations
        BY CallFields DEF Operations
      <4> HIDE DEF fewer
      <4>2. CASE fewer <= call.size \/ call.i = Len(workers)
        <5>1. call' = [call EXCEPT !.op = "notifyAll", !.i = 1, !.active = fewer]
          BY <2>2, <4>2 DEF CompareExchange, fewer
        <5>2. 1 \in Nat \ {0}
          OBVIOUS
        <5> HIDE DEF TypeOK
        <5>3. call \in Calls
          BY DEF TypeOK
        <5>4. /\ [call EXCEPT !.op = "notifyAll", !.i = 1, !.active = fewer] \in Calls
              /\ [call EXCEPT !.op = "notifyAll", !.i = 1, !.active = fewer].op = "notifyAll"
              /\ [call EXCEPT !.op = "notifyAll", !.i = 1, !.active = fewer].i = 1
          BY <4>1, <5>2, <5>3 DEF Calls
        <5> QED BY <5>1, <5>4
      <4>3. CASE ~(fewer <= call.size \/ call.i = Len(workers))
        <5>1. call' = [call EXCEPT !.i = call.i + 1, !.active = fewer]
          BY <2>2, <4>3 DEF CompareExchange, fewer
        <5>2. call.i + 1 \in Nat \ {0} /\ call.i + 1 <= Len(workers)
          BY <3>1, <4>3, LenProperties
        <5>3. call' \in Calls /\ call'.op = call.op /\ call'.i = call.i + 1
          <6> HIDE DEF TypeOK
          <6>1. call \in Calls
            BY DEF TypeOK
          <6>2. /\ [call EXCEPT !.i = call.i + 1, !.active = fewer] \in Calls
                /\ [call EXCEPT !.i = call.i + 1, !.active = fewer].op = call.op
                /\ [call EXCEPT !.i = call.i + 1, !.active = fewer].i = call.i + 1
            BY <4>1, <5>2, <6>1 DEF Calls
          <6> QED BY <5>1, <6>2
        <5> QED BY <3>1, <5>2, <5>3
      <4> QED BY <4>2, <4>3
    <3> QED BY <2>2, <3>2, <3>3, LenProperties DEF CompareExchange
  <2>3. CASE NotifyAll
    <3>1. call' \in Calls /\ call'.op = "erase" /\ call'.i = call.i
      BY <2>3, CallOp DEF NotifyAll, Operations
    <3>2. /\ pc' \in [Worker -> Places]
          /\ \A w \in Worker : pc'[w] \in {"popped", "run"} <=> pc[w] \in {"popped", "run"}
      BY <2>3 DEF NotifyAll, WakeAll, Places
    <3> QED BY <2>3, <3>1, <3>2, CallFields, LenProperties DEF NotifyAll
  <2>4. CASE Erase
    <3>1. CASE call.i > Len(workers)
      <4>1. call' \in Calls /\ call'.op = "none" /\ call'.i = 1
        BY <2>4, <3>1, IdleCall DEF Erase
      <4> QED BY <2>4, <3>1, <4>1, LenProperties DEF Erase
    <3>2. CASE ~(call.i > Len(workers)) /\ state[workers[call.i]] = "Done"
      <4>1. Join(call.i) /\ UNCHANGED call /\ call.op = "erase"
        BY <2>4, <3>2 DEF Erase
      <4>2. call.i \in 1 .. Len(workers)
        BY <3>2, CallFields, LenProperties
      <4>3. workers' \in Seq(Worker) /\ Len(workers') = Len(workers) - 1
        BY <4>1, <4>2, RemoveAtProperties DEF Join
      <4>4. /\ pc' \in [Worker -> Places]
            /\ \A w \in Worker : pc'[w] \in {"popped", "run"} <=> pc[w] \in {"popped", "run"}
        BY <4>1, <4>2, ElementOfSeq DEF Join, Places
      <4> QED BY <2>4, <4>1, <4>2, <4>3, <4>4, LenProperties DEF Erase
    <3>3. CASE ~(call.i > Len(workers)) /\ state[workers[call.i]] # "Done"
      <4>1. call.op = "erase" /\ call' = [call EXCEPT !.i = call.i + 1] /\ UNCHANGED <<workers, pc>>
        BY <2>4, <3>3 DEF Erase
      <4>2. call.i + 1 \in Nat \ {0} /\ call.i + 1 <= Len(workers) + 1
        BY <3>3, CallFields, LenProperties
      <4>3. call' \in Calls /\ call'.op = "erase" /\ call'.i = call.i + 1
        BY <4>1, <4>2, CallIndex
      <4> QED BY <2>4, <4>1, <4>2, <4>3 DEF Erase
    <3> QED BY <3>1, <3>2, <3>3
  <2>5. CASE Abort
    <3>1. CASE call.i <= Len(workers)
      <4>1. /\ call.op = "abort" /\ call' = [call EXCEPT !.i = call.i + 1]
            /\ state' = [state EXCEPT ![workers[call.i]] = "Abort"]
        BY <2>5, <3>1 DEF Abort
      <4>2. call.i + 1 \in Nat \ {0} /\ call.i + 1 <= Len(workers) + 1
        BY <3>1, CallFields, LenProperties
      <4>3. call' \in Calls /\ call'.op = "abort" /\ call'.i = call.i + 1
        BY <4>1, <4>2, CallIndex
      <4>4. state' \in [Worker -> States]
        BY <4>1 DEF States
      <4> QED BY <2>5, <4>2, <4>3, <4>4 DEF Abort
    <3>2. CASE ~(call.i <= Len(workers))
      <4>1. call' \in Calls /\ call'.op = "abortNotify" /\ call'.i = call.i
        <5>1. call' = [call EXCEPT !.op = "abortNotify"] /\ "abortNotify" \in Operations
          BY <2>5, <3>2 DEF Abort, Operations
        <5> QED BY <5>1, CallOp
      <4> QED BY <2>5, <3>2, <4>1 DEF Abort
    <3> QED BY <3>1, <3>2
  <2>6. CASE AbortNotify
    <3>1. call' \in Calls /\ call'.op = "join" /\ call'.i = 1
      <4>1. call' = [call EXCEPT !.op = "join", !.i = 1] /\ "join" \in Operations
        BY <2>6 DEF AbortNotify, Operations
      <4>2. 1 \in Nat \ {0}
        OBVIOUS
      <4> QED BY <4>1, <4>2 DEF Calls
    <3>2. /\ pc' \in [Worker -> Places]
          /\ \A w \in Worker : pc'[w] \in {"popped", "run"} <=> pc[w] \in {"popped", "run"}
      BY <2>6 DEF AbortNotify, WakeAll, Places
    <3> QED BY <2>6, <3>1, <3>2, LenProperties DEF AbortNotify
  <2>7. CASE JoinAll
    <3>1. CASE workers = <<>>
      <4>1. call' \in Calls /\ call'.op = "destroyed" /\ call'.i = call.i
        <5>1. call' = [call EXCEPT !.op = "destroyed"] /\ "destroyed" \in Operations
          BY <2>7, <3>1 DEF JoinAll, Operations
        <5> QED BY <5>1, CallOp
      <4> QED BY <2>7, <3>1, <4>1 DEF JoinAll
    <3>2. CASE workers # <<>>
      <4>1. Join(1) /\ UNCHANGED call /\ call.op = "join" /\ call.i = 1
        BY <2>7, <3>2 DEF JoinAll
      <4>2. 1 \in 1 .. Len(workers)
        BY <3>2, EmptySeq
      <4>3. workers' \in Seq(Worker) /\ Len(workers') = Len(workers) - 1
        BY <4>1, <4>2, RemoveAtProperties DEF Join
      <4>4. /\ pc' \in [Worker -> Places]
            /\ \A w \in Worker : pc'[w] \in {"popped", "run"} <=> pc[w] \in {"popped", "run"}
        BY <4>1, <4>2, ElementOfSeq DEF Join, Places
      <4> QED BY <2>7, <4>1, <4>2, <4>3, <4>4, LenProperties DEF JoinAll
    <3> QED BY <3>1, <3>2
  <2>8. ASSUME NEW w \in Worker, Grow(w) PROVE TypeOK'
    <3>1. workers' \in Seq(Worker) /\ Len(workers') = Len(workers) + 1
      BY <2>8, AppendProperties DEF Grow
    <3>2. call' \in Calls /\ (call'.op = "grow" \/ call'.op = "none")
          /\ (call'.i = call.i \/ call'.i = 1)
      BY <2>8, IdleCall DEF Grow
    <3>3. /\ pc' \in [Worker -> Places] /\ state' \in [Worker -> States]
          /\ \A v \in Worker : pc'[v] \in {"popped", "run"} <=> pc[v] \in {"popped", "run"}
      BY <2>8 DEF Grow, Places, States
    <3>4. call.i \in Nat /\ call.i <= Len(workers) + 1 /\ Len(workers) \in Nat
      BY <2>8, CallFields, LenProperties DEF Grow
    <3> QED BY <2>8, <3>1, <3>2, <3>3, <3>4 DEF Grow
  <2> QED BY <1>4, <2>1, <2>2, <2>3, <2>4, <2>5, <2>6, <2>7, <2>8 DEF CallStep
<1>5. CASE NewCall
  <2> USE DEF threadVars
  <2>1. ASSUME NEW t \in Task, RunInline(t) PROVE TypeOK'
    BY <2>1 DEF RunInline
  <2>2. ASSUME NEW t \in Task, Enqueue(t) PROVE TypeOK'
    <3>1. call' \in Calls /\ call'.op = "notifyOne" /\ call'.i = call.i
      BY <2>2, CallOp DEF Enqueue, Operations
    <3>2. tasks' \in Seq(Task)
      BY <2>2, AppendProperties DEF Enqueue
    <3> QED BY <2>2, <3>1, <3>2 DEF Enqueue
  <2>3. ASSUME NEW n \in 0 .. MaxSize, TrySetSize(n) PROVE TypeOK'
    <3>1. Len(workers) \in Nat
      BY LenProperties
    <3>2. call' \in Calls /\ call'.i = 1 /\ call'.op # "join"
          /\ (call'.op = "compare" => Len(workers) > n)
      BY <2>3, <3>1 DEF TrySetSize, Calls, Operations
    <3> QED BY <2>3, <3>1, <3>2 DEF TrySetSize
  <2>4. CASE Destroy
    <3>1. call' \in Calls /\ call'.op = "abort" /\ call'.i = 1
      BY <2>4, CallOp, IdleCall DEF Destroy, Operations
    <3> QED BY <2>4, <3>1, LenProperties DEF Destroy
  <2> QED BY <1>5, <2>1, <2>2, <2>3, <2>4 DEF NewCall
<1>6. CASE UNCHANGED vars
  BY <1>6 DEF vars
<1> QED BY <1>1, <1>2, <1>3, <1>4, <1>5, <1>6 DEF Next

\* Every state of every run of the pool is well typed; in particular the loop of
\* trySetSize never runs past the vector of workers.
THEOREM TypeCorrect == Spec => []TypeOK
<1>1. Init => TypeOK
  BY IdleCall, EmptySeq, NoTaskAssumption DEF Init, TypeOK, States, Places
<1>2. TypeOK /\ [Next]_vars => TypeOK'
  BY TypeStep
<1> QED BY <1>1, <1>2, PTL DEF Spec

-----------------------------------------------------------------------------
(* No task is lost, duplicated or run twice.                               *)

\* Only four actions move a task; every other step leaves the places alone.
LEMMA PlacesUnchanged ==
  ASSUME EachTaskInOnePlace, UNCHANGED <<tasks, hand, finished, issued>>
  PROVE  EachTaskInOnePlace'
BY DEF EachTaskInOnePlace, Queued, Held

\* Enqueue puts a new task in the queue, Pop moves the first one into the hand of
\* a worker that has none, FinishTask and RunInline end with it run: at any time,
\* whatever resizing goes on, a task is in exactly one of these places.
THEOREM TaskSafety == Spec => []EachTaskInOnePlace
<1>1. Init => EachTaskInOnePlace
  BY DEF Init, EachTaskInOnePlace, Queued, Held, ToSet
<1>2. TypeOK /\ EachTaskInOnePlace /\ [Next]_vars => EachTaskInOnePlace'
  <2> SUFFICES ASSUME TypeOK, EachTaskInOnePlace, [Next]_vars PROVE EachTaskInOnePlace'
    OBVIOUS
  <2>1. ASSUME NEW w \in Worker, WorkerStep(w) PROVE EachTaskInOnePlace'
    <3>1. CASE Pop(w)
      <4>1. /\ tasks # <<>> /\ tasks \in Seq(Task) /\ tasks' = Tail(tasks)
            /\ hand' = [hand EXCEPT ![w] = Head(tasks)] /\ hand \in [Worker -> Task \cup {NoTask}]
            /\ hand[w] = NoTask /\ UNCHANGED <<issued, finished>>
        BY <3>1 DEF Pop, Goto, callerVars, TypeOK
      <4>2. /\ Len(tasks) \in Nat \ {0} /\ Head(tasks) = tasks[1] /\ Head(tasks) \in Task
            /\ Len(tasks') = Len(tasks) - 1
            /\ \A i \in 1 .. Len(tasks) - 1 : tasks'[i] = tasks[i + 1]
        BY <4>1, EmptySeq, HeadTailProperties
      <4>3. Queued = Queued' \cup {Head(tasks)}
        BY <4>1, ToSetTail DEF Queued
      <4>4. Head(tasks) \notin Queued'
        <5> SUFFICES ASSUME NEW i \in 1 .. Len(tasks) - 1, tasks[i + 1] = tasks[1] PROVE FALSE
          BY <4>1, <4>2, HeadTailProperties, LenProperties DEF Queued, ToSet
        <5>1. i + 1 \in 1 .. Len(tasks) /\ 1 \in 1 .. Len(tasks) /\ i + 1 # 1
          BY <4>2
        <5> QED BY <5>1 DEF EachTaskInOnePlace
      <4>5. Held' = Held \cup {Head(tasks)}
        BY <4>1, <4>2, NoTaskAssumption DEF Held
      <4>6. \A i, j \in 1 .. Len(tasks') : tasks'[i] = tasks'[j] => i = j
        <5> SUFFICES ASSUME NEW i \in 1 .. Len(tasks) - 1, NEW j \in 1 .. Len(tasks) - 1,
                            tasks[i + 1] = tasks[j + 1]
                     PROVE  i = j
          BY <4>2
        <5>1. i + 1 \in 1 .. Len(tasks) /\ j + 1 \in 1 .. Len(tasks)
          BY <4>2
        <5>2. i + 1 = j + 1
          BY <5>1 DEF EachTaskInOnePlace
        <5> QED BY <5>2
      <4>7. ASSUME NEW u \in Worker, NEW v \in Worker, hand'[u] = hand'[v], hand'[u] # NoTask
            PROVE  u = v
        <5>1. Head(tasks) \notin Held
          BY <4>3 DEF EachTaskInOnePlace
        <5>2. \A x \in Worker : hand[x] # Head(tasks)
          BY <5>1, <4>2, NoTaskAssumption DEF Held
        <5> QED BY <4>1, <4>7, <5>2 DEF EachTaskInOnePlace
      <4> QED
        BY <4>1, <4>3, <4>4, <4>5, <4>6, <4>7 DEF EachTaskInOnePlace
    <3>2. CASE ~Pop(w)
      <4>1. UNCHANGED <<tasks, hand, finished, issued>>
        BY <2>1, <3>2 DEF WorkerStep, callerVars, BecomeFree, Lock, Predicate, Block, IfAbort,
          LeaveOnStop, PopEmpty, BecomeWorking, BecomeDone
      <4> QED BY <4>1, PlacesUnchanged
    <3> QED BY <3>1, <3>2
  <2>2. ASSUME NEW w \in Worker, SpuriousWakeup(w) PROVE EachTaskInOnePlace'
    BY <2>2, PlacesUnchanged DEF SpuriousWakeup, callerVars
  <2>3. ASSUME NEW w \in Worker, FinishTask(w) PROVE EachTaskInOnePlace'
    <3>1. /\ hand' = [hand EXCEPT ![w] = NoTask] /\ hand \in [Worker -> Task \cup {NoTask}]
          /\ hand[w] \in Task /\ finished' = finished \cup {hand[w]} /\ UNCHANGED <<issued, tasks>>
      BY <2>3 DEF FinishTask, Goto, callerVars, TypeOK
    <3>2. Held = Held' \cup {hand[w]} /\ hand[w] \notin Held'
      <4>1. \A v \in Worker : v # w => hand[v] # hand[w]
        BY <3>1, NoTaskAssumption DEF EachTaskInOnePlace
      <4> QED BY <3>1, <4>1, NoTaskAssumption DEF Held
    <3>3. \A u, v \in Worker : hand'[u] = hand'[v] /\ hand'[u] # NoTask => u = v
      BY <3>1 DEF EachTaskInOnePlace
    <3> QED BY <3>1, <3>2, <3>3 DEF EachTaskInOnePlace, Queued
  <2>4. CASE CallStep
    BY <2>4, PlacesUnchanged DEF CallStep, threadVars, NotifyOne, CompareExchange, NotifyAll,
      Erase, Abort, AbortNotify, JoinAll, Grow
  <2>5. CASE NewCall
    <3>1. ASSUME NEW t \in Task, RunInline(t) PROVE EachTaskInOnePlace'
      BY <3>1 DEF RunInline, EachTaskInOnePlace, Queued, Held
    <3>2. ASSUME NEW t \in Task, Enqueue(t) PROVE EachTaskInOnePlace'
      <4>1. /\ tasks' = Append(tasks, t) /\ issued' = issued \cup {t} /\ t \notin issued
            /\ UNCHANGED <<hand, finished>> /\ tasks \in Seq(Task)
        BY <3>2 DEF Enqueue, threadVars, TypeOK
      <4>2. Queued' = Queued \cup {t} /\ Held' = Held
        BY <4>1, ToSetAppend DEF Queued, Held
      <4>3. /\ Len(tasks') = Len(tasks) + 1 /\ tasks'[Len(tasks) + 1] = t /\ Len(tasks) \in Nat
            /\ \A i \in 1 .. Len(tasks) : tasks'[i] = tasks[i] /\ tasks[i] # t
        BY <4>1, AppendProperties, LenProperties DEF EachTaskInOnePlace, Queued, ToSet
      <4>4. \A i, j \in 1 .. Len(tasks') : tasks'[i] = tasks'[j] => i = j
        BY <4>3 DEF EachTaskInOnePlace
      <4> QED BY <4>1, <4>2, <4>4 DEF EachTaskInOnePlace
    <3>3. ASSUME NEW n \in 0 .. MaxSize, TrySetSize(n) PROVE EachTaskInOnePlace'
      BY <3>3, PlacesUnchanged DEF TrySetSize, threadVars
    <3>4. CASE Destroy
      BY <3>4, PlacesUnchanged DEF Destroy, threadVars
    <3> QED BY <2>5, <3>1, <3>2, <3>3, <3>4 DEF NewCall
  <2>6. CASE UNCHANGED vars
    BY <2>6, PlacesUnchanged DEF vars
  <2> QED BY <2>1, <2>2, <2>3, <2>4, <2>5, <2>6 DEF Next
<1> QED BY <1>1, <1>2, TypeCorrect, PTL DEF Spec

-----------------------------------------------------------------------------
(* The pool implements its abstract specification.                         *)

\* What the refinement mapping makes of a step that moves no task.
LEMMA PromiseStutters ==
  ASSUME UNCHANGED <<tasks, hand, finished>>
  PROVE  UNCHANGED Promise!poolVars
BY DEF Promise!poolVars, Held

\* A task that was not handed to the pool is new.
LEMMA PromiseNew ==
  ASSUME EachTaskInOnePlace, NEW t \in Task, t \notin issued
  PROVE  t \in Promise!New
BY DEF EachTaskInOnePlace, Queued, ToSet, Promise!New

\* Every step of workers and caller is a step of TaskPool or changes none of its
\* variables: Pop starts the oldest pending task, FinishTask finishes a started one,
\* Enqueue submits and RunInline runs at once.  All the rest of the pool, resizing,
\* notifying and joining included, is invisible to those who use it.
THEOREM Refinement == Spec => ImplementsTaskPool
<1>1. Init => Promise!Init
  BY DEF Init, Promise!Init, Held
<1>2. TypeOK /\ EachTaskInOnePlace /\ [Next]_vars => [Promise!Next]_(Promise!poolVars)
  <2> SUFFICES ASSUME TypeOK, EachTaskInOnePlace, [Next]_vars
               PROVE  [Promise!Next]_(Promise!poolVars)
    OBVIOUS
  <2>1. ASSUME NEW w \in Worker, WorkerStep(w) PROVE [Promise!Next]_(Promise!poolVars)
    <3>1. CASE Pop(w)
      <4>1. /\ tasks # <<>> /\ tasks \in Seq(Task) /\ tasks' = Tail(tasks)
            /\ hand' = [hand EXCEPT ![w] = Head(tasks)] /\ hand \in [Worker -> Task \cup {NoTask}]
            /\ hand[w] = NoTask /\ UNCHANGED finished
        BY <3>1 DEF Pop, Goto, callerVars, TypeOK
      <4>2. Head(tasks) \in Task
        BY <4>1, EmptySeq, HeadTailProperties
      <4>3. Held' = Held \cup {Head(tasks)}
        BY <4>1, <4>2, NoTaskAssumption DEF Held
      <4> QED BY <4>1, <4>3 DEF Promise!Next, Promise!Start
    <3>2. CASE ~Pop(w)
      <4>1. UNCHANGED <<tasks, hand, finished>>
        BY <2>1, <3>2 DEF WorkerStep, callerVars, BecomeFree, Lock, Predicate, Block, IfAbort,
          LeaveOnStop, PopEmpty, BecomeWorking, BecomeDone
      <4> QED BY <4>1, PromiseStutters
    <3> QED BY <3>1, <3>2
  <2>2. ASSUME NEW w \in Worker, SpuriousWakeup(w) PROVE [Promise!Next]_(Promise!poolVars)
    BY <2>2, PromiseStutters DEF SpuriousWakeup, callerVars
  <2>3. ASSUME NEW w \in Worker, FinishTask(w) PROVE [Promise!Next]_(Promise!poolVars)
    <3>1. /\ hand' = [hand EXCEPT ![w] = NoTask] /\ hand \in [Worker -> Task \cup {NoTask}]
          /\ hand[w] \in Task /\ finished' = finished \cup {hand[w]} /\ UNCHANGED tasks
      BY <2>3 DEF FinishTask, Goto, callerVars, TypeOK
    <3>2. Held' = Held \ {hand[w]} /\ hand[w] \in Held
      <4>1. \A v \in Worker : v # w => hand[v] # hand[w]
        BY <3>1, NoTaskAssumption DEF EachTaskInOnePlace
      <4> QED BY <3>1, <4>1, NoTaskAssumption DEF Held
    <3>3. Promise!Finish(hand[w])
      BY <3>1, <3>2 DEF Promise!Finish
    <3> QED BY <3>1, <3>3 DEF Promise!Next
  <2>4. CASE CallStep
    BY <2>4, PromiseStutters DEF CallStep, threadVars, NotifyOne, CompareExchange, NotifyAll,
      Erase, Abort, AbortNotify, JoinAll, Grow
  <2>5. CASE NewCall
    <3>1. ASSUME NEW t \in Task, RunInline(t) PROVE [Promise!Next]_(Promise!poolVars)
      <4>1. t \in Promise!New
        BY <3>1, PromiseNew DEF RunInline
      <4>2. Promise!RunAtOnce(t)
        BY <3>1, <4>1 DEF RunInline, Promise!RunAtOnce, Held
      <4> QED BY <4>2 DEF Promise!Next
    <3>2. ASSUME NEW t \in Task, Enqueue(t) PROVE [Promise!Next]_(Promise!poolVars)
      <4>1. t \in Promise!New
        BY <3>2, PromiseNew DEF Enqueue
      <4>2. Promise!Submit(t)
        BY <3>2, <4>1 DEF Enqueue, threadVars, Promise!Submit, Held
      <4> QED BY <4>2 DEF Promise!Next
    <3>3. ASSUME NEW n \in 0 .. MaxSize, TrySetSize(n) PROVE [Promise!Next]_(Promise!poolVars)
      BY <3>3, PromiseStutters DEF TrySetSize, threadVars
    <3>4. CASE Destroy
      BY <3>4, PromiseStutters DEF Destroy, threadVars
    <3> QED BY <2>5, <3>1, <3>2, <3>3, <3>4 DEF NewCall
  <2>6. CASE UNCHANGED vars
    BY <2>6, PromiseStutters DEF vars
  <2> QED BY <2>1, <2>2, <2>3, <2>4, <2>5, <2>6 DEF Next
<1> QED BY <1>1, <1>2, TypeCorrect, TaskSafety, PTL DEF Spec, ImplementsTaskPool, Promise!Spec

-----------------------------------------------------------------------------
(* trySetSize never waits for a running thread.                            *)

\* Done is written by the thread itself, after its loop, and every worker of the
\* vector is there once and has a thread: what makes ShrinkNeverBlocks inductive.
DoneHasLeft == \A w \in Worker : state[w] = "Done" => pc[w] \in {"exited", "none"}

WorkersHaveThreads ==
  /\ \A i \in 1 .. Len(workers) : pc[workers[i]] # "none"
  /\ \A i, j \in 1 .. Len(workers) : workers[i] = workers[j] => i = j

ThreadInv == DoneHasLeft /\ WorkersHaveThreads

\* Only Grow and Join change the vector or make a thread appear or vanish.
LEMMA ThreadsUnchanged ==
  ASSUME TypeOK, ThreadInv, UNCHANGED workers,
         \A w \in Worker : pc[w] # "none" => pc'[w] # "none",
         \A w \in Worker : state'[w] = "Done" => pc'[w] \in {"exited", "none"}
  PROVE  ThreadInv'
BY ElementOfSeq DEF TypeOK, ThreadInv, DoneHasLeft, WorkersHaveThreads

\* Erasing the i-th worker keeps the others, each with its thread.
LEMMA JoinKeepsThreads ==
  ASSUME TypeOK, ThreadInv, NEW i \in 1 .. Len(workers), Join(i), UNCHANGED state
  PROVE  ThreadInv'
<1> DEFINE k(j) == IF j < i THEN j ELSE j + 1
<1>1. workers \in Seq(Worker) /\ Len(workers) \in Nat
  BY LenProperties DEF TypeOK
<1>2. /\ Len(workers') = Len(workers) - 1
      /\ \A j \in 1 .. Len(workers') : workers'[j] = workers[k(j)]
  BY <1>1, RemoveAtProperties DEF Join
<1>3. \A j \in 1 .. Len(workers') : k(j) \in 1 .. Len(workers) /\ k(j) # i
  BY <1>1, <1>2
<1>4. \A j, m \in 1 .. Len(workers') : k(j) = k(m) => j = m
  BY <1>1, <1>2
<1> HIDE DEF k
<1>5. ASSUME NEW j \in 1 .. Len(workers') PROVE pc'[workers'[j]] # "none"
  <2>1. workers'[j] = workers[k(j)] /\ workers[k(j)] # workers[i] /\ workers[k(j)] \in Worker
    BY <1>1, <1>2, <1>3, ElementOfSeq DEF ThreadInv, WorkersHaveThreads
  <2>2. pc'[workers[k(j)]] = pc[workers[k(j)]]
    BY <2>1 DEF Join, TypeOK
  <2> QED BY <1>3, <2>1, <2>2 DEF ThreadInv, WorkersHaveThreads
<1>6. ASSUME NEW j \in 1 .. Len(workers'), NEW m \in 1 .. Len(workers'), workers'[j] = workers'[m]
      PROVE  j = m
  BY <1>2, <1>3, <1>4, <1>6 DEF ThreadInv, WorkersHaveThreads
<1>7. DoneHasLeft'
  BY <1>1, ElementOfSeq DEF Join, ThreadInv, DoneHasLeft, TypeOK
<1> QED BY <1>5, <1>6, <1>7 DEF ThreadInv, WorkersHaveThreads

LEMMA ThreadInvariance == Spec => []ThreadInv
<1>1. Init => ThreadInv
  BY EmptySeq DEF Init, ThreadInv, DoneHasLeft, WorkersHaveThreads
<1>2. TypeOK /\ ThreadInv /\ [Next]_vars => ThreadInv'
  <2> SUFFICES ASSUME TypeOK, ThreadInv, [Next]_vars PROVE ThreadInv'
    OBVIOUS
  <2>1. ASSUME NEW w \in Worker, WorkerStep(w) \/ SpuriousWakeup(w) \/ FinishTask(w)
        PROVE  ThreadInv'
    <3>1. UNCHANGED workers
      BY <2>1 DEF WorkerStep, callerVars, BecomeFree, Lock, Predicate, Block, IfAbort, LeaveOnStop,
        Pop, PopEmpty, BecomeWorking, BecomeDone, SpuriousWakeup, FinishTask
    <3>2. \A v \in Worker : pc[v] # "none" => pc'[v] # "none"
      BY <2>1 DEF WorkerStep, Goto, TypeOK, BecomeFree, Lock, Predicate, Block, IfAbort, LeaveOnStop,
        Pop, PopEmpty, BecomeWorking, BecomeDone, SpuriousWakeup, FinishTask
    <3>3. \A v \in Worker : state'[v] = "Done" => pc'[v] \in {"exited", "none"}
      <4>1. CASE BecomeFree(w) \/ BecomeWorking(w) \/ BecomeDone(w)
        BY <4>1 DEF BecomeFree, BecomeWorking, BecomeDone, Goto, TypeOK, ThreadInv, DoneHasLeft
      <4>2. CASE ~(BecomeFree(w) \/ BecomeWorking(w) \/ BecomeDone(w))
        <5>1. state' = state /\ pc[w] \notin {"exited", "none"}
              /\ \A v \in Worker : v # w => pc'[v] = pc[v]
          BY <2>1, <4>2 DEF WorkerStep, Goto, TypeOK, Lock, Predicate, Block, IfAbort, LeaveOnStop,
            Pop, PopEmpty, SpuriousWakeup, FinishTask
        <5> QED BY <5>1 DEF ThreadInv, DoneHasLeft
      <4> QED BY <4>1, <4>2
    <3> QED BY <3>1, <3>2, <3>3, ThreadsUnchanged
  <2>2. CASE NotifyOne \/ NotifyAll \/ AbortNotify
    <3>1. UNCHANGED <<workers, state>>
      BY <2>2 DEF NotifyOne, NotifyAll, AbortNotify, threadVars
    <3>2. \A v \in Worker : pc[v] # "waiting" => pc'[v] = pc[v]
      BY <2>2 DEF NotifyOne, NotifyAll, AbortNotify, WakeAll, Goto, TypeOK
    <3>3. \A v \in Worker : pc[v] = "waiting" => pc'[v] \in {"waiting", "lock"}
      BY <2>2 DEF NotifyOne, NotifyAll, AbortNotify, WakeAll, Goto, TypeOK
    <3>4. \A v \in Worker : pc[v] # "none" => pc'[v] # "none"
      BY <3>2, <3>3
    <3>5. \A v \in Worker : state'[v] = "Done" => pc'[v] \in {"exited", "none"}
      BY <3>1, <3>2 DEF ThreadInv, DoneHasLeft
    <3> QED BY <3>1, <3>4, <3>5, ThreadsUnchanged
  <2>3. CASE CompareExchange \/ Abort
    <3>1. UNCHANGED <<workers, pc>>
      BY <2>3 DEF CompareExchange, Abort
    <3>2. \A v \in Worker : state'[v] = "Done" => state[v] = "Done"
      BY <2>3 DEF CompareExchange, Abort, TypeOK
    <3> QED BY <3>1, <3>2, ThreadsUnchanged DEF ThreadInv, DoneHasLeft
  <2>4. CASE Erase
    <3>1. CASE UNCHANGED <<workers, pc>>
      BY <2>4, <3>1, ThreadsUnchanged DEF Erase, threadVars, ThreadInv, DoneHasLeft
    <3>2. CASE ~(call.i > Len(workers)) /\ Join(call.i)
      <4>1. call.i \in 1 .. Len(workers)
        BY <3>2, CallFields, LenProperties DEF TypeOK
      <4> QED BY <2>4, <3>2, <4>1, JoinKeepsThreads DEF Erase, threadVars
    <3> QED BY <2>4, <3>1, <3>2 DEF Erase
  <2>5. CASE JoinAll
    <3>1. CASE UNCHANGED <<workers, pc>>
      BY <2>5, <3>1, ThreadsUnchanged DEF JoinAll, threadVars, ThreadInv, DoneHasLeft
    <3>2. CASE workers # <<>> /\ Join(1)
      <4>1. 1 \in 1 .. Len(workers)
        BY <3>2, EmptySeq DEF TypeOK
      <4> QED BY <2>5, <3>2, <4>1, JoinKeepsThreads DEF JoinAll, threadVars
    <3> QED BY <2>5, <3>1, <3>2 DEF JoinAll
  <2>6. ASSUME NEW w \in Worker, Grow(w) PROVE ThreadInv'
    <3>1. /\ workers \in Seq(Worker) /\ Len(workers) \in Nat
          /\ pc \in [Worker -> Places] /\ state \in [Worker -> States]
          /\ pc[w] = "none" /\ workers' = Append(workers, w)
          /\ pc' = [pc EXCEPT ![w] = "head"] /\ state' = [state EXCEPT ![w] = "Free"]
      BY <2>6, LenProperties DEF Grow, TypeOK
    <3>2. /\ Len(workers') = Len(workers) + 1 /\ workers'[Len(workers) + 1] = w
          /\ \A i \in 1 .. Len(workers) : workers'[i] = workers[i] /\ workers[i] # w
      BY <3>1, AppendProperties DEF ThreadInv, WorkersHaveThreads
    <3>3. DoneHasLeft'
      BY <3>1 DEF ThreadInv, DoneHasLeft
    <3>4. ASSUME NEW i \in 1 .. Len(workers') PROVE pc'[workers'[i]] # "none"
      <4>1. CASE i = Len(workers) + 1
        BY <3>1, <3>2, <4>1
      <4>2. CASE i # Len(workers) + 1
        <5>1. i \in 1 .. Len(workers) /\ workers[i] \in Worker
          BY <3>1, <3>2, <4>2, ElementOfSeq
        <5> QED BY <3>1, <3>2, <5>1 DEF ThreadInv, WorkersHaveThreads
      <4> QED BY <4>1, <4>2
    <3>5. \A i, j \in 1 .. Len(workers') : workers'[i] = workers'[j] => i = j
      BY <3>1, <3>2 DEF ThreadInv, WorkersHaveThreads
    <3> QED BY <3>3, <3>4, <3>5 DEF ThreadInv, WorkersHaveThreads
  <2>7. CASE NewCall
    <3>1. UNCHANGED <<workers, pc, state>>
      BY <2>7 DEF NewCall, RunInline, Enqueue, TrySetSize, Destroy, threadVars
    <3> QED BY <3>1, ThreadsUnchanged DEF ThreadInv, DoneHasLeft
  <2>8. CASE UNCHANGED vars
    BY <2>8, ThreadsUnchanged DEF vars, ThreadInv, DoneHasLeft
  <2> QED BY <2>1, <2>2, <2>3, <2>4, <2>5, <2>6, <2>7, <2>8 DEF Next, CallStep
<1> QED BY <1>1, <1>2, TypeCorrect, PTL DEF Spec

\* A worker erased by trySetSize has left its loop: erasing it does not wait for
\* a task, whatever the workers do while the caller goes through the vector.
THEOREM ShrinkSafety == Spec => []ShrinkNeverBlocks
<1>1. TypeOK /\ ThreadInv => ShrinkNeverBlocks
  BY ElementOfSeq DEF TypeOK, ThreadInv, DoneHasLeft, WorkersHaveThreads, ShrinkNeverBlocks
<1> QED BY <1>1, TypeCorrect, ThreadInvariance, PTL

-----------------------------------------------------------------------------
(* What a user of the pool may rely on.                                    *)

\* A worker that has a thread is in the vector: none is left behind by a join.
ThreadsAreWorkers == \A w \in Worker : pc[w] # "none" => w \in ToSet(workers)

LEMMA ThreadsKept ==
  ASSUME ThreadsAreWorkers, UNCHANGED workers,
         \A w \in Worker : pc'[w] # "none" => pc[w] # "none"
  PROVE  ThreadsAreWorkers'
BY DEF ThreadsAreWorkers

LEMMA JoinKeepsWorkers ==
  ASSUME TypeOK, ThreadsAreWorkers, NEW i \in 1 .. Len(workers), Join(i)
  PROVE  ThreadsAreWorkers'
<1> SUFFICES ASSUME NEW w \in Worker, pc'[w] # "none" PROVE w \in ToSet(workers')
  BY DEF ThreadsAreWorkers
<1>1. workers \in Seq(Worker) /\ workers' = RemoveAt(workers, i)
  BY DEF TypeOK, Join
<1>2. DOMAIN workers = 1 .. Len(workers)
  BY <1>1, LenProperties
<1>3. pc[w] # "none" /\ w # workers[i]
  BY DEF Join, TypeOK
<1>4. PICK j \in DOMAIN workers : workers[j] = w
  BY <1>3 DEF ThreadsAreWorkers, ToSet
<1>5. PICK k \in DOMAIN workers' : workers[j] = workers'[k]
  BY <1>1, <1>3, <1>4, RemoveAtElements
<1> QED BY <1>4, <1>5 DEF ToSet

THEOREM NoThreadLeftBehind == Spec => []ThreadsAreWorkers
<1>1. Init => ThreadsAreWorkers
  BY DEF Init, ThreadsAreWorkers
<1>2. TypeOK /\ ThreadsAreWorkers /\ [Next]_vars => ThreadsAreWorkers'
  <2> SUFFICES ASSUME TypeOK, ThreadsAreWorkers, [Next]_vars PROVE ThreadsAreWorkers'
    OBVIOUS
  <2>1. ASSUME NEW w \in Worker, WorkerStep(w) \/ SpuriousWakeup(w) \/ FinishTask(w)
        PROVE  ThreadsAreWorkers'
    <3>1. UNCHANGED workers
      BY <2>1 DEF WorkerStep, callerVars, BecomeFree, Lock, Predicate, Block, IfAbort, LeaveOnStop,
        Pop, PopEmpty, BecomeWorking, BecomeDone, SpuriousWakeup, FinishTask
    <3>2. \A v \in Worker : pc'[v] # "none" => pc[v] # "none"
      BY <2>1 DEF WorkerStep, Goto, TypeOK, BecomeFree, Lock, Predicate, Block, IfAbort, LeaveOnStop,
        Pop, PopEmpty, BecomeWorking, BecomeDone, SpuriousWakeup, FinishTask
    <3> QED BY <3>1, <3>2, ThreadsKept
  <2>2. CASE NotifyOne \/ NotifyAll \/ AbortNotify
    <3>1. UNCHANGED workers
      BY <2>2 DEF NotifyOne, NotifyAll, AbortNotify
    <3>2. \A v \in Worker : pc'[v] # "none" => pc[v] # "none"
      BY <2>2 DEF NotifyOne, NotifyAll, AbortNotify, WakeAll, Goto, TypeOK
    <3> QED BY <3>1, <3>2, ThreadsKept
  <2>3. CASE CompareExchange \/ Abort \/ NewCall
    <3>1. UNCHANGED <<workers, pc>>
      BY <2>3 DEF CompareExchange, Abort, NewCall, RunInline, Enqueue, TrySetSize, Destroy
    <3> QED BY <3>1, ThreadsKept
  <2>4. CASE Erase
    <3>1. CASE UNCHANGED <<workers, pc>>
      BY <3>1, ThreadsKept
    <3>2. CASE ~(call.i > Len(workers)) /\ Join(call.i)
      <4>1. call.i \in 1 .. Len(workers)
        BY <3>2, CallFields, LenProperties DEF TypeOK
      <4> QED BY <3>2, <4>1, JoinKeepsWorkers
    <3> QED BY <2>4, <3>1, <3>2 DEF Erase
  <2>5. CASE JoinAll
    <3>1. CASE UNCHANGED <<workers, pc>>
      BY <3>1, ThreadsKept
    <3>2. CASE workers # <<>> /\ Join(1)
      <4>1. 1 \in 1 .. Len(workers)
        BY <3>2, EmptySeq DEF TypeOK
      <4> QED BY <3>2, <4>1, JoinKeepsWorkers
    <3> QED BY <2>5, <3>1, <3>2 DEF JoinAll
  <2>6. ASSUME NEW w \in Worker, Grow(w) PROVE ThreadsAreWorkers'
    <3>1. ToSet(workers') = ToSet(workers) \cup {w}
      BY <2>6, ToSetAppend DEF Grow, TypeOK
    <3>2. \A v \in Worker : v # w => pc'[v] = pc[v]
      BY <2>6 DEF Grow, TypeOK
    <3> QED BY <3>1, <3>2 DEF ThreadsAreWorkers
  <2>7. CASE UNCHANGED vars
    BY <2>7, ThreadsKept DEF vars
  <2> QED BY <2>1, <2>2, <2>3, <2>4, <2>5, <2>6, <2>7 DEF Next, CallStep
<1> QED BY <1>1, <1>2, TypeCorrect, PTL DEF Spec

\* The pool is never larger than the bound, and grows only up to the size asked for.
SizeInv ==
  /\ Len(workers) <= MaxSize
  /\ call.op = "grow" => Len(workers) < call.size

LEMMA SizeStep ==
  ASSUME TypeOK, SizeInv, [Next]_vars
  PROVE  SizeInv'
<1> USE SizeAssumption
<1>1. workers \in Seq(Worker) /\ Len(workers) \in Nat /\ call \in Calls
  BY LenProperties DEF TypeOK
<1>2. call.size \in 0 .. MaxSize /\ call.i \in Nat \ {0}
  BY <1>1, CallFields
<1>3. CASE UNCHANGED <<workers, call>>
  BY <1>3 DEF SizeInv
<1>4. ASSUME UNCHANGED workers, call'.op # "grow" PROVE SizeInv'
  BY <1>4 DEF SizeInv
<1>5. ASSUME NEW w \in Worker, WorkerStep(w) \/ SpuriousWakeup(w) \/ FinishTask(w) PROVE SizeInv'
  BY <1>3, <1>5 DEF WorkerStep, callerVars, BecomeFree, Lock, Predicate, Block, IfAbort, LeaveOnStop,
    Pop, PopEmpty, BecomeWorking, BecomeDone, SpuriousWakeup, FinishTask
<1>6. CASE NotifyOne
  BY <1>4, <1>6, IdleCall DEF NotifyOne
<1>7. CASE NotifyAll \/ AbortNotify
  BY <1>1, <1>4, <1>7 DEF NotifyAll, AbortNotify, Calls
<1>8. CASE CompareExchange
  BY <1>1, <1>4, <1>8 DEF CompareExchange, Calls
<1>9. CASE Abort
  BY <1>1, <1>4, <1>9 DEF Abort, Calls
<1>10. ASSUME NEW i \in 1 .. Len(workers), Join(i), UNCHANGED call, call.op # "grow" PROVE SizeInv'
  <2>1. Len(workers') = Len(workers) - 1
    BY <1>1, <1>10, RemoveAtProperties DEF Join
  <2> QED BY <1>1, <1>10, <2>1 DEF SizeInv
<1>11. CASE Erase
  <2>1. CASE ~(call.i > Len(workers)) /\ Join(call.i) /\ UNCHANGED call
    <3>1. call.i \in 1 .. Len(workers)
      BY <1>1, <1>2, <2>1
    <3> QED BY <1>10, <1>11, <2>1, <3>1 DEF Erase
  <2>2. CASE UNCHANGED workers /\ call' = [call EXCEPT !.i = call.i + 1]
    BY <1>1, <1>4, <1>11, <2>2 DEF Erase, Calls
  <2>3. CASE UNCHANGED workers /\ call' = Idle
    BY <1>4, <2>3, IdleCall
  <2> QED BY <1>11, <2>1, <2>2, <2>3 DEF Erase
<1>12. CASE JoinAll
  <2>1. CASE workers = <<>>
    BY <1>1, <1>4, <1>12, <2>1 DEF JoinAll, Calls
  <2>2. CASE workers # <<>>
    <3>1. 1 \in 1 .. Len(workers)
      BY <1>1, <2>2, EmptySeq
    <3> QED BY <1>10, <1>12, <2>2, <3>1 DEF JoinAll
  <2> QED BY <2>1, <2>2
<1>13. ASSUME NEW w \in Worker, Grow(w) PROVE SizeInv'
  <2>1. Len(workers') = Len(workers) + 1 /\ call.op = "grow"
    BY <1>1, <1>13, AppendProperties DEF Grow
  <2>2. Len(workers) < call.size /\ (call' = call \/ call'.op = "none")
    BY <1>13, <2>1, IdleCall DEF SizeInv, Grow
  <2>3. call' = call => Len(workers) + 1 < call.size \/ call.op = "none"
    BY <1>13, IdleCall DEF Grow
  <2> QED BY <1>1, <1>2, <2>1, <2>2, <2>3 DEF SizeInv
<1>14. CASE NewCall
  <2>1. ASSUME NEW n \in 0 .. MaxSize, TrySetSize(n) PROVE SizeInv'
    BY <1>1, <2>1 DEF TrySetSize, SizeInv
  <2>2. ASSUME NEW t \in Task, RunInline(t) PROVE SizeInv'
    BY <1>3, <2>2 DEF RunInline
  <2>3. ASSUME NEW t \in Task, Enqueue(t) PROVE SizeInv'
    BY <1>1, <1>4, <2>3 DEF Enqueue, Calls
  <2>4. CASE Destroy
    BY <1>4, <2>4, IdleCall DEF Destroy, Idle
  <2> QED BY <1>14, <2>1, <2>2, <2>3, <2>4 DEF NewCall
<1>15. CASE UNCHANGED vars
  BY <1>3, <1>15 DEF vars
<1> QED
  BY <1>5, <1>6, <1>7, <1>8, <1>9, <1>11, <1>12, <1>13, <1>14, <1>15 DEF Next, CallStep
=============================================================================
