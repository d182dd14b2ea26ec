------------------------- MODULE NetworkEvaluation -------------------------
(***************************************************************************)
(* The evaluation of a processor network (network/processornetwork,        *)
(* network/processornetworkevaluator, processors/processor, ports/inport   *)
(* and ports/outport).                                                     *)
(*                                                                         *)
(* Changes invalidate processors and everything downstream of them, then   *)
(* ask for an evaluation.  A locked network keeps the request for the      *)
(* unlock.  An evaluation locks the network and visits the processors that *)
(* a sink depends on in topological order: it processes those that are     *)
(* invalid and ready.  Callbacks of a processor that is being processed    *)
(* may change properties, of its own or of any other processor.            *)
(*                                                                         *)
(* All of this runs on one thread.  A call that only propagates through    *)
(* the network (invalidate, setValid) is a single step; an evaluation is   *)
(* one step per call into a processor, with callbacks in between.          *)
(***************************************************************************)
EXTENDS Naturals, FiniteSets

CONSTANTS
  Processor,      \* the processors that can be in the network
  Inport,         \* their inports, each for one connection
  Owner,          \* the processor of each inport
  Optional,       \* the inports that are optional
  Producer,       \* the processors with an outport; the others are sinks
  Background,     \* the producers whose results arrive by newResults
  Throwing,       \* the processors whose functions may throw
  CallbackLevels, \* invalidation levels of the properties callbacks change
  MaxCallbacks,   \* bound on the property changes made by callbacks
  MaxLocks,       \* bound on the nested locks the application holds
  None            \* no processor

ASSUME OwnerAssumption == Owner \in [Inport -> Processor]
ASSUME KindsAssumption ==
  /\ Optional \subseteq Inport
  /\ Background \subseteq Producer /\ Producer \subseteq Processor
  /\ Throwing \subseteq Processor
ASSUME NoneAssumption == None \notin Processor

\* InvalidationLevel, in the order of the enumeration.
Valid == 0
InvalidOutput == 1
InvalidResources == 2
InvalidationLevel == {Valid, InvalidOutput, InvalidResources}

ASSUME CallbackAssumption == CallbackLevels \subseteq InvalidationLevel
ASSUME BoundAssumption == MaxCallbacks \in Nat /\ MaxLocks \in Nat

VARIABLES
  present,   \* processors_ of the network
  source,    \* the producer each inport is connected to, or None
  level,     \* invalidationLevel_ of each processor
  outValid,  \* the producers whose outport is valid
  hasData,   \* the producers whose outport holds data
  changed,   \* the inports whose changed_ is set
  locked,    \* locked_ of the network
  queued,    \* evaulationQueued_ of the evaluator
  todo,      \* the processors the evaluation has still to visit
  current,   \* the processor being visited, or None
  phase,     \* where the evaluation is
  callbacks, \* the number of property changes made by callbacks
  stale,     \* history: properties or inputs changed since process last read them
  outdated,  \* history: resources to be initialized since the last time they were
  failed     \* history: the last visit of the processor threw

netVars  == <<present, source>>
procVars == <<level, outValid, hasData, changed>>
evalVars == <<todo, current, phase>>
histVars == <<stale, outdated, failed>>
vars == <<netVars, procVars, locked, queued, evalVars, callbacks, histVars>>

Phase == {"idle", "visit", "onChange", "process", "processed"}

\* The type of the state; the evaluation holds one lock of the network.
TypeOK ==
  /\ present \subseteq Processor
  /\ source \in [Inport -> Producer \cup {None}]
  /\ level \in [Processor -> InvalidationLevel]
  /\ outValid \subseteq Producer /\ hasData \subseteq Producer
  /\ changed \subseteq Inport
  /\ locked \in 0 .. MaxLocks + 1
  /\ queued \in BOOLEAN
  /\ todo \subseteq present
  /\ current \in present \cup {None}
  /\ phase \in Phase
  /\ callbacks \in 0 .. MaxCallbacks
  /\ stale \subseteq Processor /\ outdated \subseteq Processor /\ failed \subseteq Processor

evaluating == phase # "idle"

Init ==
  /\ present = {} /\ source = [i \in Inport |-> None]
  /\ level = [p \in Processor |-> Valid]
  /\ outValid = {} /\ hasData = {} /\ changed = {}
  /\ locked = 0 /\ queued = FALSE
  /\ todo = {} /\ current = None /\ phase = "idle"
  /\ callbacks = 0
  /\ stale = {} /\ outdated = {} /\ failed = {}

-----------------------------------------------------------------------------
(* The graph, for a given map src from inports to producers.               *)

Inports(p) == {i \in Inport : Owner[i] = p}

\* The inports connected to a producer in ps.
Connected(ps, src) == {i \in Inport : src[i] \in ps}

\* The processors in ps and all downstream of them: the smallest closed set.
Downstream(ps, src) ==
  {q \in Processor :
     \A S \in SUBSET Processor :
       ps \subseteq S /\ (\A i \in Connected(S, src) : Owner[i] \in S) => q \in S}

\* topologicalSortFiltered: the processors a sink of the network depends on.
Sorted(src, ps) == {p \in ps : Downstream({p}, src) \cap (ps \ Producer) # {}}

-----------------------------------------------------------------------------
(* Readiness.  The cached flags are updated whenever their inputs change.  *)

OutportReady(p) == p \in outValid /\ p \in hasData
InportReady(i)  == source[i] # None /\ OutportReady(source[i])
isReady(p)      == \A i \in Inports(p) : i \in Optional \/ InportReady(i)
isValid(p)      == level[p] = Valid

-----------------------------------------------------------------------------
(* Propagation through the network.                                        *)

Max2(a, b) == IF a < b THEN b ELSE a

\* mutant: the new level replaces the old one.
InvalidateTo(ps, l, src) ==
  LET down == Downstream(ps, src) \ ps
  IN /\ level' = [p \in Processor |->
                    IF p \in ps THEN IF l = Valid THEN level[p] ELSE l
                    ELSE IF p \in down THEN Max2(level[p], InvalidOutput) ELSE level[p]]
     /\ outValid' = outValid \ (ps \cup down)

\* Processor::invalidate(l) of each processor in ps, through the connections of src:
\* their outports and everything downstream become invalid.
Invalidate(ps, l, src) ==
  LET reached == {p \in ps : Max2(level[p], l) # Valid}
      down    == Downstream({Owner[i] : i \in Connected(reached, src)}, src)
  IN /\ level' = [p \in Processor |->
                    Max2(Max2(level[p], IF p \in ps THEN l ELSE Valid),
                         IF p \in down THEN InvalidOutput ELSE Valid)]
     /\ outValid' = outValid \ (reached \cup down)

\* Processor::setValid: its outport becomes valid, and the inports connected to it
\* are marked as changed.
SetValid(p) ==
  /\ level' = [level EXCEPT ![p] = Valid]
  /\ outValid' = outValid \cup ({p} \cap Producer)
  /\ changed' = (changed \ Inports(p)) \cup Connected({p} \cap Producer, source)

\* A property of p with invalidation level l is changed.
Change(p, l) ==
  /\ Invalidate({p}, l, source)
  /\ stale' = IF l = Valid THEN stale ELSE stale \cup {p}
  /\ outdated' = IF l = InvalidResources THEN outdated \cup {p} ELSE outdated

-----------------------------------------------------------------------------
(* Evaluation requests.                                                    *)

\* The network is locked by the evaluation, which starts over its processors.
Evaluate(locks) ==
  /\ locked' = locks + 1
  /\ queued' = FALSE
  /\ todo' = Sorted(source', present')
  /\ phase' = "visit"
  /\ current' = None

\* requestEvaluate: evaluate now, or when the network is unlocked.
RequestEvaluate ==
  IF locked = 0
  THEN Evaluate(0)
  ELSE queued' = TRUE /\ UNCHANGED <<locked, evalVars>>

-----------------------------------------------------------------------------
(* What the application does, between evaluations.  An operation that takes *)
(* a NetworkLock itself makes its request when it gives the lock back.      *)

\* Property::propertyModified, or a direct call of invalidate.
ModifyProperty(p, l) ==
  /\ ~evaluating /\ p \in present
  /\ Change(p, l)
  /\ UNCHANGED <<netVars, hasData, changed, callbacks, failed>>
  /\ RequestEvaluate

\* An inport takes one connection, and none that would close a cycle.
CanConnectTo(i, p) == source[i] = None /\ p \notin Downstream({Owner[i]}, source)

\* Inport::connectTo and disconnectFrom: the inport is marked as changed, its
\* processor and everything downstream of it become invalid.
Reconnect(i, p) ==
  /\ source' = [source EXCEPT ![i] = p]
  /\ changed' = changed \cup {i}
  /\ Invalidate({Owner[i]}, InvalidOutput, source')
  /\ stale' = stale \cup {Owner[i]}

AddConnection(p, i) ==
  /\ ~evaluating /\ p \in present \cap Producer /\ Owner[i] \in present
  /\ CanConnectTo(i, p)
  /\ Reconnect(i, p)
  /\ UNCHANGED <<present, hasData, callbacks, outdated, failed>>
  /\ RequestEvaluate

RemoveConnection(i) ==
  /\ ~evaluating /\ source[i] # None
  /\ Reconnect(i, None)
  /\ UNCHANGED <<present, hasData, callbacks, outdated, failed>>
  /\ RequestEvaluate

AddProcessor(p) ==
  /\ ~evaluating /\ p \notin present
  /\ present' = present \cup {p}
  /\ Change(p, InvalidResources)
  /\ UNCHANGED <<source, hasData, changed, callbacks, failed>>
  /\ RequestEvaluate

\* removeAndDeleteProcessor: its connections are removed first, which invalidates
\* those downstream.
RemoveProcessor(p) ==
  LET cut == Inports(p) \cup Connected({p}, source)
      hit == {i \in cut : source[i] # None}
  IN /\ ~evaluating /\ p \in present
     /\ present' = present \ {p}
     /\ source' = [i \in Inport |-> IF i \in cut THEN None ELSE source[i]]
     /\ LET owners == {Owner[i] : i \in hit} \ {p}
            down   == Downstream(owners, source')
        IN /\ level' = [q \in Processor |->
                          IF q = p THEN Valid
                          ELSE IF q \in down THEN Max2(level[q], InvalidOutput) ELSE level[q]]
           /\ outValid' = outValid \ (down \cup {p})
           /\ stale' = (stale \cup owners) \ {p}
     /\ changed' = (changed \cup hit) \ Inports(p)
     /\ hasData' = hasData \ {p}
     /\ outdated' = outdated \ {p} /\ failed' = failed \ {p}
     /\ IF hit = {} THEN UNCHANGED <<locked, queued, evalVars>> ELSE RequestEvaluate
     /\ UNCHANGED callbacks

\* mutant: the outport is made valid without being made invalid first.
NewResultsQuietly(p) ==
  /\ ~evaluating /\ p \in present \cap Background
  /\ hasData' = hasData \cup {p}
  /\ outValid' = outValid \cup {p}
  /\ stale' = stale \cup {Owner[i] : i \in Connected({p}, source)}
  /\ changed' = changed \cup Connected({p}, source)
  /\ UNCHANGED <<netVars, level, callbacks, outdated, failed>>
  /\ RequestEvaluate

\* PoolProcessor's done: new data on the outport, then newResults.
NewResults(p) ==
  /\ ~evaluating /\ p \in present \cap Background
  /\ hasData' = hasData \cup {p}
  /\ LET owners == {Owner[i] : i \in Connected({p}, source)}
         down   == Downstream(owners, source)
     IN /\ level' = [q \in Processor |->
                       IF q \in down THEN Max2(level[q], InvalidOutput) ELSE level[q]]
        /\ outValid' = (outValid \ down) \cup {p}
        /\ stale' = stale \cup owners
  /\ changed' = changed \cup Connected({p}, source)
  /\ UNCHANGED <<netVars, callbacks, outdated, failed>>
  /\ RequestEvaluate

\* A NetworkLock of the application: loading, undo, dragging, ...
Lock ==
  /\ ~evaluating /\ locked < MaxLocks
  /\ locked' = locked + 1
  /\ UNCHANGED <<netVars, procVars, queued, evalVars, callbacks, histVars>>

\* unlock: the last lock given back starts the evaluation that was asked for.
Unlock ==
  /\ ~evaluating /\ locked > 0
  /\ UNCHANGED <<netVars, procVars, callbacks, histVars>>
  /\ IF locked = 1 /\ queued
     THEN Evaluate(0)
     ELSE locked' = locked - 1 /\ UNCHANGED <<queued, evalVars>>

-----------------------------------------------------------------------------
(* The evaluation.                                                         *)

\* The loop goes on with the next processor.
NextProcessor(p) ==
  /\ todo' = todo \ {p}
  /\ current' = None
  /\ phase' = "visit"

\* p comes before the other processors that are left in a topological order.
First(p) ==
  /\ phase = "visit" /\ p \in todo
  /\ \A i \in Inports(p) : source[i] \notin todo

\* A valid processor is left alone; for one that is not ready doIfNotReady is called.
Skip(p) ==
  /\ First(p)
  /\ isValid(p) \/ ~isReady(p)
  /\ NextProcessor(p)
  /\ UNCHANGED <<netVars, procVars, locked, queued, callbacks, histVars>>

\* initializeResources, if the level asks for it.
Prepare(p) ==
  /\ First(p) /\ ~isValid(p) /\ isReady(p)
  /\ current' = p /\ phase' = "onChange"
  /\ outdated' = IF level[p] = InvalidResources THEN outdated \ {p} ELSE outdated
  /\ failed' = failed \ {p}
  /\ UNCHANGED <<netVars, procVars, locked, queued, todo, callbacks, stale>>

\* mutant: a processor that throws stays in the list.
ThrowAgain ==
  /\ \/ /\ phase = "onChange" /\ changed \cap Inports(current) # {}
     \/ phase = "process"
  /\ current \in Throwing
  /\ failed' = failed \cup {current}
  /\ current' = None /\ phase' = "visit"
  /\ UNCHANGED <<netVars, procVars, locked, queued, todo, callbacks, stale, outdated>>

\* An onChange callback or process throws: the visit ends.
Throw ==
  /\ \/ /\ phase = "onChange" /\ changed \cap Inports(current) # {}
     \/ phase = "process"
  /\ current \in Throwing
  /\ failed' = failed \cup {current}
  /\ NextProcessor(current)
  /\ UNCHANGED <<netVars, procVars, locked, queued, callbacks, stale, outdated>>

\* initializeResources throws: the level stays, so the next evaluation tries again.
ThrowPreparing(p) ==
  /\ First(p) /\ ~isValid(p) /\ isReady(p) /\ level[p] = InvalidResources
  /\ p \in Throwing
  /\ failed' = failed \cup {p}
  /\ NextProcessor(p)
  /\ UNCHANGED <<netVars, procVars, locked, queued, callbacks, stale, outdated>>

\* The onChange callbacks of the changed inports have returned.
CallOnChange ==
  /\ phase = "onChange" /\ phase' = "process"
  /\ UNCHANGED <<netVars, procVars, locked, queued, todo, current, callbacks, histVars>>

\* process reads its inputs; it sets new data on its outport, clears it or leaves it.
Process ==
  LET written == IF current \in Producer \ Background THEN {current} ELSE {}
  IN /\ phase = "process" /\ phase' = "processed"
     /\ \/ /\ hasData' \in {hasData \cup written, hasData \ written}
           /\ stale' = (stale \ {current}) \cup {Owner[i] : i \in Connected(written, source)}
        \/ hasData' = hasData /\ stale' = stale \ {current}
     /\ UNCHANGED <<netVars, level, outValid, changed, locked, queued, todo, current,
                    callbacks, outdated, failed>>

\* mutant: the inports are not looked at again.
FinishAnyway ==
  /\ phase = "processed"
  /\ SetValid(current)
  /\ NextProcessor(current)
  /\ UNCHANGED <<netVars, hasData, locked, queued, callbacks, histVars>>

\* After process: the processor is valid, unless its inports became invalid.
Finish ==
  /\ phase = "processed"
  /\ IF isReady(current) THEN SetValid(current) ELSE UNCHANGED <<level, outValid, changed>>
  /\ NextProcessor(current)
  /\ UNCHANGED <<netVars, hasData, locked, queued, callbacks, histVars>>

\* A callback changes a property of p.  What a processor changes of its own while it
\* is processing is not a reason to process it again.
Callback(p, l) ==
  /\ \/ phase = "onChange" /\ changed \cap Inports(current) # {}
     \/ phase \in {"process", "processed"}
  /\ callbacks < MaxCallbacks /\ callbacks' = callbacks + 1
  /\ p \in present
  /\ Invalidate({p}, l, source)
  /\ stale' = IF l = Valid \/ p = current THEN stale ELSE stale \cup {p}
  /\ outdated' = IF l = InvalidResources THEN outdated \cup {p} ELSE outdated
  /\ queued' = TRUE
  /\ UNCHANGED <<netVars, hasData, changed, locked, evalVars, failed>>

\* mutants: what was asked for meanwhile is forgotten; the lock is kept.
EndForgetting ==
  /\ phase = "visit" /\ todo = {}
  /\ locked' = locked - 1 /\ queued' = FALSE /\ phase' = "idle"
  /\ UNCHANGED <<netVars, procVars, todo, current, callbacks, histVars>>

EndKeepingLock ==
  /\ phase = "visit" /\ todo = {}
  /\ UNCHANGED <<netVars, procVars, callbacks, histVars>>
  /\ IF queued
     THEN Evaluate(locked)
     ELSE locked' = locked - 1 /\ phase' = "idle" /\ UNCHANGED <<queued, todo, current>>

\* The evaluation gives its lock back, and starts again if that was asked for.
EndEvaluation ==
  /\ phase = "visit" /\ todo = {}
  /\ UNCHANGED <<netVars, procVars, callbacks, histVars>>
  /\ IF queued
     THEN Evaluate(locked - 1)
     ELSE /\ locked' = locked - 1
          /\ phase' = "idle"
          /\ UNCHANGED <<queued, todo, current>>

-----------------------------------------------------------------------------
Application ==
  \/ \E p \in Processor :
       \/ \E l \in InvalidationLevel : ModifyProperty(p, l)
       \/ \E i \in Inport : AddConnection(p, i)
       \/ AddProcessor(p) \/ RemoveProcessor(p) \/ NewResults(p)
  \/ \E i \in Inport : RemoveConnection(i)
  \/ Lock \/ Unlock

Evaluator ==
  \/ \E p \in Processor : Skip(p) \/ Prepare(p) \/ ThrowPreparing(p)
  \/ Throw \/ CallOnChange \/ Process \/ Finish \/ EndEvaluation

Callbacks == \E p \in Processor, l \in CallbackLevels : Callback(p, l)

Next == Application \/ Evaluator \/ Callbacks

Spec == Init /\ [][Next]_vars

\* An evaluation is a loop of calls that return; nothing is assumed of the application.
FairSpec == Spec /\ WF_vars(Evaluator)

-----------------------------------------------------------------------------
(* Properties.                                                             *)

\* A valid processor has what it needs: invalidation reaches everything downstream,
\* whatever is connected, removed, thrown or changed by callbacks, so no processor
\* stays valid on inputs that are not.
ValidIsReady == \A p \in present : isValid(p) => isReady(p)

\* A processor whose properties or inputs changed after it last read them is invalid:
\* what a valid processor shows is computed from the current data.
UpToDate == \A p \in present \cap stale : ~isValid(p)

\* Resources that have to be initialized are not forgotten before they were.
ResourcesRemembered == \A p \in present \cap outdated : level[p] = InvalidResources

\* When the application holds no lock and no evaluation runs, no request is left, and
\* every processor a sink depends on is valid unless it is not ready or threw.
NothingForgotten ==
  ~evaluating /\ locked = 0 =>
    /\ ~queued
    /\ \A p \in Sorted(source, present) : isReady(p) => isValid(p) \/ p \in failed

\* An evaluation ends, once callbacks no longer ask for another one.
EvaluationEnds == []<>(~ evaluating)
=============================================================================
