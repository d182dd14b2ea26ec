---------------------- MODULE NetworkEvaluation_proofs ----------------------
(***************************************************************************)
(* Proofs about NetworkEvaluation, for any set of processors and inports,  *)
(* any graph over them and any bounds on locks and callbacks.              *)
(***************************************************************************)
EXTENDS NetworkEvaluation, TLAPS

Sources == [Inport -> Producer \cup {None}]

-----------------------------------------------------------------------------
(* What is downstream of a set of processors.                              *)

\* A set of processors is part of what is downstream of it.
LEMMA DownstreamContains ==
  ASSUME NEW ps \in SUBSET Processor, NEW src \in Sources
  PROVE  ps \subseteq Downstream(ps, src) /\ Downstream(ps, src) \subseteq Processor
BY DEF Downstream

\* The owner of an inport is downstream of whatever its producer is downstream of.
LEMMA DownstreamClosed ==
  ASSUME NEW ps \in SUBSET Processor, NEW src \in Sources, NEW i \in Inport,
         src[i] \in Downstream(ps, src)
  PROVE  Owner[i] \in Downstream(ps, src)
<1>1. Owner[i] \in Processor
  BY OwnerAssumption
<1>2. SUFFICES ASSUME NEW S \in SUBSET Processor, ps \subseteq S,
                      \A j \in Connected(S, src) : Owner[j] \in S
               PROVE  Owner[i] \in S
  BY <1>1 DEF Downstream
<1>3. src[i] \in S
  BY <1>2 DEF Downstream
<1> QED BY <1>2, <1>3 DEF Connected

\* The level of a processor: the type of the enumeration and the larger of two.
LEMMA Max2Properties ==
  ASSUME NEW x \in InvalidationLevel, NEW y \in InvalidationLevel
  PROVE  /\ Max2(x, y) \in InvalidationLevel
         /\ Max2(x, y) = Valid <=> x = Valid /\ y = Valid
         /\ x = InvalidResources \/ y = InvalidResources => Max2(x, y) = InvalidResources
         /\ y = Valid => Max2(x, y) = x
BY DEF Max2, InvalidationLevel, Valid, InvalidOutput, InvalidResources

\* What invalidate does to levels and outports: levels only rise, outports only become
\* invalid, and an outport that stays valid belongs to a processor that is untouched;
\* a processor that stays valid loses no valid input.
LEMMA InvalidateProperties ==
  ASSUME level \in [Processor -> InvalidationLevel], outValid \subseteq Producer,
         NEW ps \in SUBSET Processor, NEW l \in InvalidationLevel, NEW src \in Sources,
         Invalidate(ps, l, src)
  PROVE  /\ level' \in [Processor -> InvalidationLevel]
         /\ outValid' \subseteq outValid
         /\ \A q \in Processor : level'[q] = Valid => level[q] = Valid
         /\ \A q \in ps : l # Valid => level'[q] # Valid
         /\ \A q \in ps : l # Valid => q \notin outValid'
         /\ \A q \in Processor : level[q] = InvalidResources => level'[q] = InvalidResources
         /\ \A q \in ps : l = InvalidResources => level'[q] = InvalidResources
         /\ \A q \in outValid' : level[q] = Valid => level'[q] = Valid
         /\ \A i \in Inport : level'[Owner[i]] = Valid /\ src[i] \in outValid
                                => src[i] \in outValid'
<1> DEFINE reached == {p \in ps : Max2(level[p], l) # Valid}
           owners  == {Owner[i] : i \in Connected(reached, src)}
           down    == Downstream(owners, src)
           mine(p) == IF p \in ps THEN l ELSE Valid
           hit(p)  == IF p \in down THEN InvalidOutput ELSE Valid
<1>1. owners \in SUBSET Processor
  BY OwnerAssumption DEF Connected
<1>2. /\ level' = [p \in Processor |-> Max2(Max2(level[p], mine(p)), hit(p))]
      /\ outValid' = outValid \ (reached \cup down)
  BY DEF Invalidate
<1>3. \A p \in Processor :
         mine(p) \in InvalidationLevel /\ hit(p) \in InvalidationLevel
  BY DEF InvalidationLevel, Valid, InvalidOutput, InvalidResources
<1> HIDE DEF mine, hit
<1>4. ASSUME NEW q \in Processor
      PROVE  /\ level'[q] \in InvalidationLevel
             /\ level'[q] = Valid <=> level[q] = Valid /\ mine(q) = Valid /\ hit(q) = Valid
             /\ level[q] = InvalidResources \/ mine(q) = InvalidResources
                  => level'[q] = InvalidResources
  <2> DEFINE x == Max2(level[q], mine(q))
  <2>1. x \in InvalidationLevel /\ level'[q] = Max2(x, hit(q))
    BY <1>2, <1>3, <1>4, Max2Properties
  <2>2. /\ x = Valid <=> level[q] = Valid /\ mine(q) = Valid
        /\ level[q] = InvalidResources \/ mine(q) = InvalidResources => x = InvalidResources
    BY <1>3, <1>4, Max2Properties
  <2> HIDE DEF x
  <2> QED BY <1>3, <2>1, <2>2, Max2Properties
<1>5. level' \in [Processor -> InvalidationLevel]
  BY <1>2, <1>4
<1>6. \A q \in ps : mine(q) = l
  BY DEF mine
<1>7. ASSUME NEW q \in outValid', level[q] = Valid
      PROVE  level'[q] = Valid
  <2>1. q \in Processor /\ q \notin reached /\ q \notin down
    BY <1>2, KindsAssumption
  <2>2. hit(q) = Valid
    BY <2>1 DEF hit
  <2>3. mine(q) = Valid
    BY <1>7, <2>1, Max2Properties DEF mine, InvalidationLevel
  <2> QED BY <1>4, <1>7, <2>1, <2>2, <2>3
<1>8. ASSUME NEW i \in Inport, level'[Owner[i]] = Valid, src[i] \in outValid
      PROVE  src[i] \in outValid'
  <2>1. Owner[i] \in Processor /\ hit(Owner[i]) = Valid
    BY <1>4, <1>8, OwnerAssumption
  <2>2. Owner[i] \notin down
    BY <2>1 DEF hit, Valid, InvalidOutput
  <2>3. src[i] \notin down
    BY <1>1, <2>2, DownstreamClosed
  <2>4. src[i] \notin reached
    BY <1>1, <2>2, DownstreamContains DEF Connected
  <2> QED BY <1>2, <1>8, <2>3, <2>4
<1>9. ASSUME NEW q \in ps, l # Valid
      PROVE  q \notin outValid'
  BY <1>2, <1>9, Max2Properties
<1>10. /\ \A q \in ps : l # Valid => level'[q] # Valid
       /\ \A q \in ps : l # Valid => q \notin outValid'
  BY <1>4, <1>6, <1>9
<1>11. /\ \A q \in Processor : level'[q] = Valid => level[q] = Valid
       /\ \A q \in Processor : level[q] = InvalidResources => level'[q] = InvalidResources
       /\ \A q \in ps : l = InvalidResources => level'[q] = InvalidResources
  BY <1>4, <1>6
<1>12. outValid' \subseteq outValid
  BY <1>2
<1> QED BY <1>5, <1>7, <1>8, <1>10, <1>11, <1>12

\* No processor becomes valid, and those that are invalidated become invalid.
LEMMA InvalidateRaises ==
  ASSUME level \in [Processor -> InvalidationLevel], outValid \subseteq Producer,
         NEW ps \in SUBSET Processor, NEW l \in InvalidationLevel, NEW src \in Sources,
         Invalidate(ps, l, src)
  PROVE  /\ \A q \in Processor : level'[q] = Valid => level[q] = Valid
         /\ \A q \in ps : l # Valid => level'[q] # Valid
BY InvalidateProperties

-----------------------------------------------------------------------------
(* The inductive invariants.                                               *)

\* Where the evaluation is agrees with its variables and with its lock.
Shape ==
  /\ phase = "idle" => todo = {}
  /\ phase \in {"idle", "visit"} <=> current = None
  /\ current # None => current \in todo
  /\ phase # "idle" => locked = 1

\* Only processors of the network are connected, and none to itself.
Wiring ==
  \A i \in Inport : source[i] # None =>
    source[i] \in present /\ Owner[i] \in present /\ source[i] # Owner[i]

\* The processor being visited is invalid, and so is the outport of every invalid
\* processor whose results do not come from the background.
OutportFollows ==
  /\ current # None => ~isValid(current)
  /\ \A p \in (present \cap outValid) \ Background : isValid(p)

TypeInv == TypeOK /\ Shape
ReadyInv == TypeInv /\ Wiring /\ OutportFollows /\ ValidIsReady

USE OwnerAssumption, KindsAssumption, NoneAssumption, CallbackAssumption, BoundAssumption

\* An evaluation starts with one lock and a list that is part of the network.
LEMMA EvaluateType ==
  ASSUME NEW locks, Evaluate(locks)
  PROVE  /\ locked' = locks + 1 /\ queued' \in BOOLEAN
         /\ phase' = "visit" /\ current' = None
         /\ todo' \subseteq present'
BY DEF Evaluate, Sorted

\* The level and outports of a state after a change of a property are typed.
LEMMA ChangeType ==
  ASSUME TypeOK, NEW p \in Processor, NEW l \in InvalidationLevel, NEW src \in Sources,
         Invalidate({p}, l, src)
  PROVE  level' \in [Processor -> InvalidationLevel] /\ outValid' \subseteq Producer
BY InvalidateProperties DEF TypeOK

\* The levels removeProcessor and newResults compute.
LEMMA RaiseType ==
  ASSUME TypeOK, NEW q \in Processor
  PROVE  Max2(level[q], InvalidOutput) \in InvalidationLevel
BY Max2Properties DEF TypeOK, InvalidationLevel

\* Asking for an evaluation keeps the evaluator's variables consistent.
LEMMA RequestType ==
  ASSUME TypeInv, ~evaluating, RequestEvaluate
  PROVE  /\ locked' \in 0 .. MaxLocks + 1 /\ queued' \in BOOLEAN
         /\ phase' \in Phase
         /\ todo' \subseteq present' \/ todo' = {}
         /\ current' = None
         /\ phase' \in {"idle", "visit"}
         /\ phase' = "idle" => todo' = {}
         /\ phase' # "idle" => locked' = 1
<1>1. CASE locked = 0
  BY <1>1, EvaluateType DEF RequestEvaluate, TypeInv, TypeOK, Phase
<1>2. CASE locked # 0
  BY <1>2 DEF RequestEvaluate, TypeInv, TypeOK, Shape, evaluating, evalVars, Phase
<1> QED BY <1>1, <1>2

\* Every step keeps the types and the shape of the evaluation.
LEMMA TypeStep ==
  ASSUME TypeInv, [Next]_vars
  PROVE  TypeInv'
<1> USE DEF TypeInv
<1>1. ASSUME NEW p \in Processor, NEW l \in InvalidationLevel, ModifyProperty(p, l)
      PROVE  TypeInv'
  <2>1. level' \in [Processor -> InvalidationLevel] /\ outValid' \subseteq Producer
    BY <1>1, ChangeType DEF ModifyProperty, Change, TypeOK, Sources
  <2> QED BY <1>1, <2>1, RequestType
       DEF ModifyProperty, Change, TypeOK, Shape, netVars
<1>2. ASSUME NEW p \in Processor, NEW i \in Inport, AddConnection(p, i)
      PROVE  TypeInv'
  <2>1. source' \in Sources
    BY <1>2 DEF AddConnection, CanConnectTo, Reconnect, TypeOK, Sources
  <2>2. level' \in [Processor -> InvalidationLevel] /\ outValid' \subseteq Producer
    BY <1>2, <2>1, ChangeType DEF AddConnection, CanConnectTo, Reconnect, InvalidationLevel
  <2> QED BY <1>2, <2>1, <2>2, RequestType DEF AddConnection, CanConnectTo, Reconnect, TypeOK, Shape, Sources
<1>3. ASSUME NEW i \in Inport, RemoveConnection(i)
      PROVE  TypeInv'
  <2>1. source' \in Sources
    BY <1>3 DEF RemoveConnection, Reconnect, TypeOK, Sources
  <2>2. level' \in [Processor -> InvalidationLevel] /\ outValid' \subseteq Producer
    BY <1>3, <2>1, ChangeType DEF RemoveConnection, Reconnect, InvalidationLevel
  <2> QED BY <1>3, <2>1, <2>2, RequestType DEF RemoveConnection, Reconnect, TypeOK, Shape, Sources
<1>4. ASSUME NEW p \in Processor, AddProcessor(p)
      PROVE  TypeInv'
  <2>1. level' \in [Processor -> InvalidationLevel] /\ outValid' \subseteq Producer
    BY <1>4, ChangeType DEF AddProcessor, Change, TypeOK, Sources, InvalidationLevel
  <2> QED BY <1>4, <2>1, RequestType DEF AddProcessor, Change, TypeOK, Shape
<1>5. ASSUME NEW p \in Processor, RemoveProcessor(p)
      PROVE  TypeInv'
  <2>1. /\ source' \in [Inport -> Producer \cup {None}] /\ present' \subseteq Processor
        /\ changed' \subseteq Inport /\ stale' \subseteq Processor
        /\ outdated' \subseteq Processor /\ failed' \subseteq Processor
        /\ outValid' \subseteq Producer /\ hasData' \subseteq Producer /\ callbacks' = callbacks
    BY <1>5 DEF RemoveProcessor, TypeOK, Inports, Connected
  <2>2. level' \in [Processor -> InvalidationLevel]
    BY <1>5, RaiseType DEF RemoveProcessor, TypeOK, InvalidationLevel
  <2>3. CASE RequestEvaluate
    BY <1>5, <2>1, <2>2, <2>3, RequestType DEF RemoveProcessor, TypeOK, Shape
  <2>4. CASE UNCHANGED <<locked, queued, evalVars>>
    BY <1>5, <2>1, <2>2, <2>4 DEF RemoveProcessor, TypeOK, Shape, evaluating, evalVars
  <2> QED BY <1>5, <2>3, <2>4 DEF RemoveProcessor
<1>6. ASSUME NEW p \in Processor, NewResults(p)
      PROVE  TypeInv'
  <2>1. level' \in [Processor -> InvalidationLevel]
    BY <1>6, RaiseType DEF NewResults, TypeOK
  <2> QED BY <1>6, <2>1, RequestType
       DEF NewResults, TypeOK, Shape, netVars, Connected
<1>7. ASSUME Lock PROVE TypeInv'
  BY <1>7 DEF Lock, TypeOK, Shape, evaluating, netVars, procVars, evalVars, histVars
<1>8. ASSUME Unlock PROVE TypeInv'
  <2>1. CASE Evaluate(0)
    BY <1>8, <2>1, EvaluateType
    DEF Unlock, TypeOK, Shape, Phase, netVars, procVars, histVars
  <2>2. CASE locked' = locked - 1 /\ UNCHANGED <<queued, evalVars>>
    BY <1>8, <2>2
    DEF Unlock, TypeOK, Shape, evaluating, netVars, procVars, histVars, evalVars
  <2> QED BY <1>8, <2>1, <2>2 DEF Unlock
<1>9. ASSUME NEW p \in Processor, Skip(p) \/ Prepare(p) \/ ThrowPreparing(p)
      PROVE  TypeInv'
  BY <1>9 DEF Skip, Prepare, ThrowPreparing, First, NextProcessor, TypeOK, Shape, Phase,
              netVars, procVars, histVars
<1>10. ASSUME Throw \/ CallOnChange PROVE TypeInv'
  BY <1>10 DEF Throw, CallOnChange, NextProcessor, TypeOK, Shape, Phase, netVars, procVars,
               histVars
<1>11. ASSUME Process PROVE TypeInv'
  BY <1>11 DEF Process, TypeOK, Shape, Phase, netVars, Connected
<1>12. ASSUME Finish PROVE TypeInv'
  <2>1. current \in Processor
    BY <1>12 DEF Finish, TypeOK, Shape
  <2>2. /\ level' \in [Processor -> InvalidationLevel] /\ outValid' \subseteq Producer
        /\ changed' \subseteq Inport
    BY <1>12, <2>1 DEF Finish, SetValid, TypeOK, InvalidationLevel, Connected
  <2> QED BY <1>12, <2>2 DEF Finish, NextProcessor, TypeOK, Shape, Phase, netVars, histVars
<1>13. ASSUME NEW p \in Processor, NEW l \in CallbackLevels, Callback(p, l)
       PROVE  TypeInv'
  <2>1. level' \in [Processor -> InvalidationLevel] /\ outValid' \subseteq Producer
    BY <1>13, ChangeType DEF Callback, TypeOK, Sources
  <2> QED BY <1>13, <2>1 DEF Callback, TypeOK, Shape, netVars, evalVars
<1>14. ASSUME EndEvaluation PROVE TypeInv'
  <2>1. CASE Evaluate(locked - 1)
    BY <1>14, <2>1, EvaluateType
    DEF EndEvaluation, TypeOK, Shape, Phase, netVars, procVars, histVars
  <2>2. CASE locked' = locked - 1 /\ phase' = "idle" /\ UNCHANGED <<queued, todo, current>>
    BY <1>14, <2>2
    DEF EndEvaluation, TypeOK, Shape, Phase, netVars, procVars, histVars
  <2> QED BY <1>14, <2>1, <2>2 DEF EndEvaluation
<1>15. CASE UNCHANGED vars
  BY <1>15 DEF vars, TypeOK, Shape, netVars, procVars, evalVars, histVars
<1> QED BY <1>1, <1>2, <1>3, <1>4, <1>5, <1>6, <1>7, <1>8, <1>9, <1>10, <1>11, <1>12, <1>13,
           <1>14, <1>15 DEF Next, Application, Evaluator, Callbacks

\* Every reachable state is well typed, an evaluation holds exactly one lock, and its
\* list and its current processor belong to the network.
THEOREM TypeCorrect == Spec => []TypeOK
<1>1. Init => TypeInv
  <2>1. Init => queued \in BOOLEAN
    BY DEF Init
  <2> QED BY <2>1 DEF Init, TypeInv, TypeOK, Shape, Phase, InvalidationLevel, Valid
<1>2. TypeInv /\ [Next]_vars => TypeInv'
  BY TypeStep
<1>3. TypeInv => TypeOK
  BY DEF TypeInv
<1> QED BY <1>1, <1>2, <1>3, PTL DEF Spec

-----------------------------------------------------------------------------
(* Valid processors have valid inputs.                                     *)

\* A step that only invalidates keeps valid processors ready, if it invalidates the
\* processors it adds and the owners of the inports it connects or disconnects.
LEMMA InvalidateReady ==
  ASSUME TypeOK, OutportFollows, ValidIsReady,
         NEW ps \in SUBSET Processor, NEW l \in InvalidationLevel,
         source' \in Sources, Invalidate(ps, l, source'), hasData' = hasData,
         \A i \in Inport : source'[i] # source[i] => l # Valid /\ Owner[i] \in ps,
         \A p \in present' \ present : l # Valid /\ p \in ps,
         present' \subseteq Processor,
         current' = None \/ (current' = current /\ current \in present)
  PROVE  OutportFollows' /\ ValidIsReady'
<1>1. /\ outValid' \subseteq outValid
      /\ \A q \in Processor : level'[q] = Valid => level[q] = Valid
      /\ \A q \in ps : l # Valid => level'[q] # Valid
      /\ \A q \in ps : l # Valid => q \notin outValid'
      /\ \A q \in outValid' : level[q] = Valid => level'[q] = Valid
      /\ \A i \in Inport : level'[Owner[i]] = Valid /\ source'[i] \in outValid
                             => source'[i] \in outValid'
  BY InvalidateProperties DEF TypeOK
<1>2. current' # None => level'[current'] # Valid
  BY <1>1 DEF OutportFollows, isValid, TypeOK
<1>3. ASSUME NEW p \in (present' \cap outValid') \ Background
      PROVE  level'[p] = Valid
  BY <1>1, <1>3 DEF OutportFollows, isValid
<1>4. ASSUME NEW p \in present', level'[p] = Valid, NEW i \in Inports(p), i \notin Optional
      PROVE  InportReady(i)'
  <2>1. p \in present /\ level[p] = Valid /\ i \in Inport /\ Owner[i] = p
    BY <1>1, <1>4 DEF Inports
  <2>2. InportReady(i) /\ source'[i] = source[i]
    BY <1>1, <1>4, <2>1 DEF ValidIsReady, isValid, isReady
  <2> QED BY <1>1, <1>4, <2>1, <2>2 DEF InportReady, OutportReady
<1>5. OutportFollows'
  BY <1>2, <1>3 DEF OutportFollows, isValid
<1>6. ValidIsReady'
  BY <1>4 DEF ValidIsReady, isValid, isReady, Inports
<1> QED BY <1>5, <1>6

\* A step that leaves the data, the connections and the processors alone and makes no
\* processor valid keeps valid processors ready.
LEMMA QuietReady ==
  ASSUME TypeOK, OutportFollows, ValidIsReady,
         UNCHANGED <<present, source, level, outValid, hasData>>,
         current' = None \/ current' = current \/ (current' \in present /\ ~isValid(current'))
  PROVE  OutportFollows' /\ ValidIsReady'
BY DEF OutportFollows, ValidIsReady, isValid, isReady, InportReady, OutportReady, Inports

\* A request changes nothing but the evaluator's own variables.
LEMMA RequestCurrent ==
  ASSUME TypeInv, ~evaluating, RequestEvaluate
  PROVE  current' = None
BY RequestType

\* Every step keeps valid processors ready, and the facts this rests on.
LEMMA ReadyStep ==
  ASSUME ReadyInv, [Next]_vars
  PROVE  ReadyInv'
<1> USE DEF ReadyInv
<1>0. TypeInv' /\ TypeOK /\ TypeOK' /\ Shape
  BY TypeStep DEF TypeInv
<1>s. source \in Sources /\ source' \in Sources /\ present' \subseteq Processor
  BY <1>0 DEF TypeOK, Sources
<1>1. ASSUME NEW p \in Processor, NEW l \in InvalidationLevel, ModifyProperty(p, l)
      PROVE  ReadyInv'
  <2>1. /\ UNCHANGED <<present, source, hasData>> /\ current' = None
        /\ Invalidate({p}, l, source') /\ {p} \in SUBSET Processor
    BY <1>1, RequestCurrent DEF ModifyProperty, Change, netVars, Invalidate
  <2>2. Wiring'
    BY <2>1 DEF Wiring
  <2>3. OutportFollows' /\ ValidIsReady'
    BY <1>0, <1>s, <2>1, InvalidateReady
  <2> QED BY <1>0, <2>2, <2>3
<1>2. ASSUME NEW p \in Processor, NEW i \in Inport, AddConnection(p, i)
      PROVE  ReadyInv'
  <2>1. /\ UNCHANGED <<present, hasData>> /\ current' = None
        /\ Invalidate({Owner[i]}, InvalidOutput, source')
        /\ {Owner[i]} \in SUBSET Processor
        /\ source' = [source EXCEPT ![i] = p]
    BY <1>2, RequestCurrent DEF AddConnection, CanConnectTo, Reconnect
  <2>2. p # Owner[i] /\ p \in present /\ Owner[i] \in present
    BY <1>2, <1>s, DownstreamContains DEF AddConnection, CanConnectTo, Reconnect
  <2>3. Wiring'
    BY <1>s, <2>1, <2>2 DEF Wiring, Sources
  <2>4. /\ \A j \in Inport : source'[j] # source[j] => Owner[j] \in {Owner[i]}
        /\ InvalidOutput # Valid /\ InvalidOutput \in InvalidationLevel
    BY <1>s, <2>1 DEF Sources, InvalidOutput, Valid, InvalidationLevel
  <2>5. OutportFollows' /\ ValidIsReady'
    BY <1>0, <1>s, <2>1, <2>4, InvalidateReady
  <2> QED BY <1>0, <2>3, <2>5
<1>3. ASSUME NEW i \in Inport, RemoveConnection(i)
      PROVE  ReadyInv'
  <2>1. /\ UNCHANGED <<present, hasData>> /\ current' = None
        /\ Invalidate({Owner[i]}, InvalidOutput, source')
        /\ {Owner[i]} \in SUBSET Processor
        /\ source' = [source EXCEPT ![i] = None]
    BY <1>3, RequestCurrent DEF RemoveConnection, Reconnect
  <2>2. Wiring'
    BY <1>s, <2>1 DEF Wiring, Sources
  <2>3. /\ \A j \in Inport : source'[j] # source[j] => Owner[j] \in {Owner[i]}
        /\ InvalidOutput # Valid /\ InvalidOutput \in InvalidationLevel
    BY <1>s, <2>1 DEF Sources, InvalidOutput, Valid, InvalidationLevel
  <2>4. OutportFollows' /\ ValidIsReady'
    BY <1>0, <1>s, <2>1, <2>3, InvalidateReady
  <2> QED BY <1>0, <2>2, <2>4
<1>4. ASSUME NEW p \in Processor, AddProcessor(p)
      PROVE  ReadyInv'
  <2>1. /\ UNCHANGED <<source, hasData>> /\ current' = None
        /\ Invalidate({p}, InvalidResources, source') /\ {p} \in SUBSET Processor
        /\ present' = present \cup {p}
        /\ InvalidResources # Valid /\ InvalidResources \in InvalidationLevel
    BY <1>4, RequestCurrent
    DEF AddProcessor, Change, Invalidate, InvalidResources, Valid, InvalidationLevel
  <2>2. Wiring'
    BY <2>1 DEF Wiring
  <2>3. OutportFollows' /\ ValidIsReady'
    BY <1>0, <1>s, <2>1, InvalidateReady
  <2> QED BY <1>0, <2>2, <2>3
<1>5. ASSUME NEW p \in Processor, RemoveProcessor(p)
      PROVE  ReadyInv'
  <2> DEFINE cut    == Inports(p) \cup Connected({p}, source)
             hit    == {i \in cut : source[i] # None}
             owners == {Owner[i] : i \in hit} \ {p}
             down   == Downstream(owners, source')
  <2>1. /\ present' = present \ {p}
        /\ source' = [i \in Inport |-> IF i \in cut THEN None ELSE source[i]]
        /\ level' = [q \in Processor |->
                       IF q = p THEN Valid
                       ELSE IF q \in down THEN Max2(level[q], InvalidOutput) ELSE level[q]]
        /\ outValid' = outValid \ (down \cup {p})
        /\ hasData' = hasData \ {p}
    BY <1>5 DEF RemoveProcessor
  <2>2. current' = None
    BY <1>0, <1>5, RequestCurrent DEF RemoveProcessor, evalVars, Shape, evaluating
  <2>3. owners \in SUBSET Processor
    BY DEF Inports, Connected
  <2>4. \A q \in Processor : q \in down /\ q # p => level'[q] # Valid
    <3>1. InvalidOutput \in InvalidationLevel /\ InvalidOutput # Valid
      BY DEF InvalidationLevel, InvalidOutput, Valid
    <3> QED BY <1>0, <2>1, <3>1, Max2Properties DEF TypeOK
  <2>5. Wiring'
    BY <1>s, <2>1 DEF Wiring, Inports, Connected
  <2>6. \A q \in present' \cap outValid' : level'[q] = level[q]
    BY <1>0, <2>1 DEF TypeOK
  <2>7. OutportFollows'
    BY <2>1, <2>2, <2>6 DEF OutportFollows, isValid
  <2>8. ASSUME NEW q \in present', level'[q] = Valid, NEW i \in Inports(q), i \notin Optional
        PROVE  InportReady(i)'
    <3>1. q \in present /\ q \in Processor /\ q # p /\ i \in Inport /\ Owner[i] = q
      BY <1>s, <2>1, <2>8 DEF Inports
    <3>2. q \notin down
      BY <2>4, <2>8, <3>1
    <3>3. level[q] = Valid
      BY <2>1, <2>8, <3>1, <3>2
    <3>4. InportReady(i)
      BY <2>8, <3>1, <3>3 DEF ValidIsReady, isValid, isReady
    <3>5. i \notin cut
      BY <1>s, <2>3, <3>1, <3>2, <3>4, DownstreamContains DEF InportReady
    <3>6. source'[i] = source[i] /\ source[i] # p
      BY <2>1, <3>1, <3>5 DEF Connected
    <3>7. source'[i] \notin down
      BY <1>s, <2>3, <3>1, <3>2, DownstreamClosed
    <3> QED BY <2>1, <3>4, <3>6, <3>7 DEF InportReady, OutportReady
  <2>9. ValidIsReady'
    BY <2>8 DEF ValidIsReady, isValid, isReady, Inports
  <2> QED BY <1>0, <2>5, <2>7, <2>9
<1>6. ASSUME NEW p \in Processor, NewResults(p)
      PROVE  ReadyInv'
  <2> DEFINE owners == {Owner[i] : i \in Connected({p}, source)}
             down   == Downstream(owners, source)
  <2>1. /\ UNCHANGED <<present, source>> /\ current' = None
        /\ hasData' = hasData \cup {p} /\ p \in Background
        /\ level' = [q \in Processor |->
                       IF q \in down THEN Max2(level[q], InvalidOutput) ELSE level[q]]
        /\ outValid' = (outValid \ down) \cup {p}
    BY <1>6, RequestCurrent DEF NewResults, netVars
  <2>2. owners \in SUBSET Processor
    BY DEF Connected
  <2>3. \A q \in Processor : q \in down => level'[q] # Valid
    <3>1. InvalidOutput \in InvalidationLevel /\ InvalidOutput # Valid
      BY DEF InvalidationLevel, InvalidOutput, Valid
    <3> QED BY <1>0, <2>1, <3>1, Max2Properties DEF TypeOK
  <2>4. Wiring'
    BY <2>1 DEF Wiring
  <2>5. OutportFollows'
    BY <1>0, <2>1 DEF OutportFollows, isValid, TypeOK
  <2>6. ASSUME NEW q \in present', level'[q] = Valid, NEW i \in Inports(q), i \notin Optional
        PROVE  InportReady(i)'
    <3>1. q \in present /\ q \in Processor /\ i \in Inport /\ Owner[i] = q
      BY <1>s, <2>1, <2>6 DEF Inports
    <3>2. q \notin down /\ level[q] = Valid
      BY <2>1, <2>3, <2>6, <3>1
    <3>3. InportReady(i)
      BY <2>6, <3>1, <3>2 DEF ValidIsReady, isValid, isReady
    <3>4. source[i] \notin down
      BY <1>s, <2>2, <3>1, <3>2, DownstreamClosed
    <3> QED BY <2>1, <3>3, <3>4 DEF InportReady, OutportReady
  <2>7. ValidIsReady'
    BY <2>6 DEF ValidIsReady, isValid, isReady, Inports
  <2> QED BY <1>0, <2>4, <2>5, <2>7
<1>7. ASSUME Lock PROVE ReadyInv'
  <2>1. UNCHANGED <<present, source, level, outValid, hasData, current>>
    BY <1>7 DEF Lock, netVars, procVars, evalVars
  <2>2. Wiring'
    BY <2>1 DEF Wiring
  <2> QED BY <1>0, <2>1, <2>2, QuietReady
<1>8. ASSUME Unlock \/ EndEvaluation PROVE ReadyInv'
  <2>1. /\ UNCHANGED <<present, source, level, outValid, hasData>>
        /\ current' \in {current, None}
    BY <1>8 DEF Unlock, EndEvaluation, Evaluate, netVars, procVars, evalVars
  <2>2. Wiring'
    BY <2>1 DEF Wiring
  <2> QED BY <1>0, <2>1, <2>2, QuietReady
<1>9. ASSUME NEW p \in Processor, Skip(p) \/ Prepare(p) \/ ThrowPreparing(p)
      PROVE  ReadyInv'
  <2>1. /\ UNCHANGED <<present, source, level, outValid, hasData>>
        /\ current' = None \/ (current' \in present /\ ~isValid(current'))
    BY <1>0, <1>9
    DEF Skip, Prepare, ThrowPreparing, First, NextProcessor, TypeOK, netVars, procVars
  <2>2. Wiring'
    BY <2>1 DEF Wiring
  <2> QED BY <1>0, <2>1, <2>2, QuietReady
<1>10. ASSUME Throw \/ CallOnChange PROVE ReadyInv'
  <2>1. /\ UNCHANGED <<present, source, level, outValid, hasData>>
        /\ current' \in {current, None}
    BY <1>10 DEF Throw, CallOnChange, NextProcessor, netVars, procVars
  <2>2. Wiring'
    BY <2>1 DEF Wiring
  <2> QED BY <1>0, <2>1, <2>2, QuietReady
<1>11. ASSUME Process PROVE ReadyInv'
  <2>1. /\ UNCHANGED <<present, source, level, outValid, current>>
        /\ hasData \ hasData' \subseteq {current} \ Background
    BY <1>11 DEF Process, netVars
  <2>2. current \in present /\ level[current] # Valid
    BY <1>0, <1>11 DEF Process, Shape, TypeOK, OutportFollows, isValid
  <2>3. OutportFollows'
    BY <2>1 DEF OutportFollows, isValid
  <2>4. outValid \cap hasData \subseteq hasData'
    BY <2>1, <2>2 DEF OutportFollows, isValid
  <2>5. ValidIsReady'
    BY <2>1, <2>4 DEF ValidIsReady, isValid, isReady, InportReady, OutportReady, Inports
  <2>6. Wiring'
    BY <2>1 DEF Wiring
  <2> QED BY <1>0, <2>3, <2>5, <2>6
<1>12. ASSUME Finish PROVE ReadyInv'
  <2>1. UNCHANGED <<present, source, hasData>> /\ current' = None
    BY <1>12 DEF Finish, NextProcessor, netVars
  <2>2. Wiring'
    BY <2>1 DEF Wiring
  <2>3. CASE UNCHANGED <<level, outValid, changed>>
    BY <1>0, <2>1, <2>2, <2>3, QuietReady
  <2>4. CASE isReady(current) /\ SetValid(current)
    <3>1. /\ level' = [level EXCEPT ![current] = Valid]
          /\ outValid' = outValid \cup ({current} \cap Producer)
          /\ current \in Processor
      BY <1>0, <1>12, <2>4 DEF SetValid, Finish, TypeOK, Shape
    <3>2. OutportFollows'
      BY <1>0, <2>1, <3>1 DEF OutportFollows, isValid, TypeOK
    <3>3. ASSUME NEW q \in present', level'[q] = Valid, NEW i \in Inports(q), i \notin Optional
          PROVE  InportReady(i)'
      <4>1. isReady(q)
        BY <1>0, <2>1, <2>4, <3>1, <3>3 DEF ValidIsReady, isValid, TypeOK
      <4> QED BY <2>1, <3>1, <3>3, <4>1 DEF isReady, InportReady, OutportReady
    <3>4. ValidIsReady'
      BY <3>3 DEF ValidIsReady, isValid, isReady, Inports
    <3> QED BY <1>0, <2>2, <3>2, <3>4
  <2> QED BY <1>12, <2>3, <2>4 DEF Finish
<1>13. ASSUME NEW p \in Processor, NEW l \in CallbackLevels, Callback(p, l)
       PROVE  ReadyInv'
  <2>1. /\ UNCHANGED <<present, source, hasData, current>> /\ l \in InvalidationLevel
        /\ Invalidate({p}, l, source')
    BY <1>13 DEF Callback, netVars, evalVars, Invalidate
  <2>2. Wiring'
    BY <2>1 DEF Wiring
  <2>3. current' = None \/ (current' = current /\ current \in present)
    BY <1>0, <2>1 DEF TypeOK
  <2>4. OutportFollows' /\ ValidIsReady'
    BY <1>0, <1>s, <2>1, <2>3, InvalidateReady
  <2> QED BY <1>0, <2>2, <2>4
<1>14. CASE UNCHANGED vars
  <2>1. UNCHANGED <<present, source, level, outValid, hasData, current>>
    BY <1>14 DEF vars, netVars, procVars, evalVars
  <2>2. Wiring'
    BY <2>1 DEF Wiring
  <2> QED BY <1>0, <2>1, <2>2, QuietReady
<1> QED BY <1>1, <1>2, <1>3, <1>4, <1>5, <1>6, <1>7, <1>8, <1>9, <1>10, <1>11, <1>12, <1>13,
           <1>14 DEF Next, Application, Evaluator, Callbacks

\* The empty network satisfies the invariant.
LEMMA ReadyInit ==
  ASSUME Init
  PROVE  ReadyInv
<1>1. queued \in BOOLEAN
  BY DEF Init
<1>2. TypeInv
  BY <1>1 DEF Init, TypeInv, TypeOK, Shape, Phase, InvalidationLevel, Valid
<1>3. Wiring /\ OutportFollows /\ ValidIsReady
  BY DEF Init, Wiring, OutportFollows, ValidIsReady
<1> QED BY <1>2, <1>3 DEF ReadyInv

\* Invalidation reaches everything downstream: whatever is connected, removed, thrown or
\* changed by callbacks, no processor stays valid on inputs that are not.
THEOREM ValidInputs == Spec => []ValidIsReady
<1>1. Init => ReadyInv
  BY ReadyInit
<1>2. ReadyInv /\ [Next]_vars => ReadyInv'
  BY ReadyStep
<1>3. ReadyInv => ValidIsReady
  BY DEF ReadyInv
<1> QED BY <1>1, <1>2, <1>3, PTL DEF Spec

-----------------------------------------------------------------------------
(* Valid processors show current data.                                     *)

\* The processor that has just been processed has read all its data.
ReadAll == phase = "processed" => current \notin stale

\* Who reads what a processor is about to write is invalid.
ReadersWait ==
  phase = "process" /\ current \in Producer \ Background =>
    \A i \in Inport : source[i] = current => ~isValid(Owner[i])

DataInv == ReadyInv /\ UpToDate /\ ReadAll

\* A step that only invalidates keeps what is valid up to date, if it invalidates the
\* processors that become stale and those it adds.
LEMMA InvalidateData ==
  ASSUME TypeOK, UpToDate,
         NEW ps \in SUBSET Processor, NEW l \in InvalidationLevel,
         source' \in Sources, Invalidate(ps, l, source'),
         \A p \in present' \ present : l # Valid /\ p \in ps,
         \A p \in stale' \ stale : l # Valid /\ p \in ps,
         present' \subseteq Processor
  PROVE  UpToDate'
<1>1. /\ \A q \in Processor : level'[q] = Valid => level[q] = Valid
      /\ \A q \in ps : l # Valid => level'[q] # Valid
  BY InvalidateRaises DEF TypeOK
<1> QED BY <1>1 DEF UpToDate, isValid

\* Every step keeps what is valid up to date.
LEMMA DataStep ==
  ASSUME ReadersWait, DataInv, [Next]_vars
  PROVE  DataInv'
<1> USE DEF DataInv
<1>0. ReadyInv' /\ TypeInv /\ TypeOK /\ Shape /\ TypeOK' /\ Shape'
  BY ReadyStep DEF ReadyInv, TypeInv
<1>s. source' \in Sources /\ present' \subseteq Processor
  BY <1>0 DEF TypeOK, Sources
<1>l. /\ InvalidOutput \in InvalidationLevel /\ InvalidResources \in InvalidationLevel
      /\ InvalidOutput # Valid /\ InvalidResources # Valid
  BY DEF InvalidationLevel, InvalidOutput, InvalidResources, Valid
<1>r. ASSUME ~evaluating, RequestEvaluate PROVE ReadAll'
  BY <1>0, <1>r, RequestType DEF ReadAll
<1>m. \A q \in Processor : Max2(level[q], InvalidOutput) # Valid
  BY <1>0, <1>l, Max2Properties DEF TypeOK
<1>1. ASSUME NEW p \in Processor, NEW l \in InvalidationLevel, ModifyProperty(p, l)
      PROVE  DataInv'
  <2>1. /\ present' = present /\ {p} \in SUBSET Processor
        /\ \A q \in stale' \ stale : l # Valid /\ q \in {p}
        /\ Invalidate({p}, l, source')
    BY <1>1 DEF ModifyProperty, Change, netVars, Invalidate
  <2>2. UpToDate'
    BY <1>0, <1>s, <2>1, InvalidateData
  <2> QED BY <1>0, <1>1, <1>r, <2>2 DEF ModifyProperty
<1>2. ASSUME NEW p \in Processor, NEW i \in Inport, AddConnection(p, i)
      PROVE  DataInv'
  <2>1. /\ present' = present /\ {Owner[i]} \in SUBSET Processor
        /\ \A q \in stale' \ stale : q \in {Owner[i]}
        /\ Invalidate({Owner[i]}, InvalidOutput, source')
    BY <1>2 DEF AddConnection, CanConnectTo, Reconnect
  <2>2. UpToDate'
    BY <1>0, <1>s, <1>l, <2>1, InvalidateData
  <2> QED BY <1>0, <1>2, <1>r, <2>2 DEF AddConnection, CanConnectTo, Reconnect
<1>3. ASSUME NEW i \in Inport, RemoveConnection(i)
      PROVE  DataInv'
  <2>1. /\ present' = present /\ {Owner[i]} \in SUBSET Processor
        /\ \A q \in stale' \ stale : q \in {Owner[i]}
        /\ Invalidate({Owner[i]}, InvalidOutput, source')
    BY <1>3 DEF RemoveConnection, Reconnect
  <2>2. UpToDate'
    BY <1>0, <1>s, <1>l, <2>1, InvalidateData
  <2> QED BY <1>0, <1>3, <1>r, <2>2 DEF RemoveConnection, Reconnect
<1>4. ASSUME NEW p \in Processor, AddProcessor(p)
      PROVE  DataInv'
  <2>1. /\ present' = present \cup {p} /\ {p} \in SUBSET Processor
        /\ stale' \subseteq stale \cup {p}
        /\ Invalidate({p}, InvalidResources, source')
    BY <1>4 DEF AddProcessor, Change, Invalidate
  <2>2. UpToDate'
    BY <1>0, <1>s, <1>l, <2>1, InvalidateData
  <2> QED BY <1>0, <1>4, <1>r, <2>2 DEF AddProcessor
<1>5. ASSUME NEW p \in Processor, RemoveProcessor(p)
      PROVE  DataInv'
  <2> DEFINE cut    == Inports(p) \cup Connected({p}, source)
             hit    == {i \in cut : source[i] # None}
             owners == {Owner[i] : i \in hit} \ {p}
             down   == Downstream(owners, source')
  <2>1. /\ present' = present \ {p} /\ stale' = (stale \cup owners) \ {p}
        /\ level' = [q \in Processor |->
                       IF q = p THEN Valid
                       ELSE IF q \in down THEN Max2(level[q], InvalidOutput) ELSE level[q]]
    BY <1>5 DEF RemoveProcessor
  <2>2. owners \in SUBSET Processor
    BY DEF Inports, Connected
  <2>3. owners \subseteq down
    BY <1>s, <2>2, DownstreamContains
  <2>4. ASSUME NEW q \in present' \cap stale' PROVE level'[q] # Valid
    <3>1. q \in Processor /\ q # p /\ q \in present
      BY <1>s, <2>1, <2>4
    <3>2. CASE q \in down
      BY <1>m, <2>1, <3>1, <3>2
    <3>3. CASE q \notin down
      BY <2>1, <2>3, <2>4, <3>1, <3>3 DEF UpToDate, isValid
    <3> QED BY <3>2, <3>3
  <2>5. UpToDate'
    BY <2>4 DEF UpToDate, isValid
  <2>6. ReadAll'
    <3>1. phase = "idle" /\ ~evaluating
      BY <1>5 DEF RemoveProcessor, evaluating
    <3>2. CASE UNCHANGED <<locked, queued, evalVars>>
      BY <3>1, <3>2 DEF ReadAll, evalVars
    <3> QED BY <1>5, <1>r, <3>1, <3>2 DEF RemoveProcessor
  <2> QED BY <1>0, <2>5, <2>6
<1>6. ASSUME NEW p \in Processor, NewResults(p)
      PROVE  DataInv'
  <2> DEFINE owners == {Owner[i] : i \in Connected({p}, source)}
             down   == Downstream(owners, source)
  <2>1. /\ UNCHANGED <<present, source>> /\ stale' = stale \cup owners
        /\ level' = [q \in Processor |->
                       IF q \in down THEN Max2(level[q], InvalidOutput) ELSE level[q]]
    BY <1>6 DEF NewResults, netVars
  <2>2. owners \in SUBSET Processor
    BY DEF Connected
  <2>3. owners \subseteq down
    BY <1>s, <2>1, <2>2, DownstreamContains
  <2>4. ASSUME NEW q \in present' \cap stale' PROVE level'[q] # Valid
    <3>1. q \in Processor /\ q \in present
      BY <1>s, <2>1, <2>4
    <3>2. CASE q \in down
      BY <1>m, <2>1, <3>1, <3>2
    <3>3. CASE q \notin down
      BY <2>1, <2>3, <2>4, <3>1, <3>3 DEF UpToDate, isValid
    <3> QED BY <3>2, <3>3
  <2>5. UpToDate'
    BY <2>4 DEF UpToDate, isValid
  <2> QED BY <1>0, <1>6, <1>r, <2>5 DEF NewResults
<1>7. ASSUME Lock \/ Unlock \/ EndEvaluation PROVE DataInv'
  <2>1. UNCHANGED <<present, level, stale>> /\ phase' \in {"idle", "visit"}
    BY <1>7 DEF Lock, Unlock, EndEvaluation, Evaluate, evaluating, netVars, procVars,
                evalVars, histVars
  <2>2. UpToDate' /\ ReadAll'
    BY <2>1 DEF UpToDate, ReadAll, isValid
  <2> QED BY <1>0, <2>2
<1>8. ASSUME NEW p \in Processor, Skip(p) \/ Prepare(p) \/ ThrowPreparing(p)
      PROVE  DataInv'
  <2>1. UNCHANGED <<present, level, stale>> /\ phase' \in {"visit", "onChange"}
    BY <1>8 DEF Skip, Prepare, ThrowPreparing, NextProcessor, netVars, procVars, histVars
  <2>2. UpToDate' /\ ReadAll'
    BY <2>1 DEF UpToDate, ReadAll, isValid
  <2> QED BY <1>0, <2>2
<1>9. ASSUME Throw \/ CallOnChange PROVE DataInv'
  <2>1. UNCHANGED <<present, level, stale>> /\ phase' \in {"visit", "process"}
    BY <1>9 DEF Throw, CallOnChange, NextProcessor, netVars, procVars, histVars
  <2>2. UpToDate' /\ ReadAll'
    BY <2>1 DEF UpToDate, ReadAll, isValid
  <2> QED BY <1>0, <2>2
<1>10. ASSUME Process PROVE DataInv'
  <2> DEFINE written == IF current \in Producer \ Background THEN {current} ELSE {}
             readers == {Owner[i] : i \in Connected(written, source)}
  <2>1. /\ UNCHANGED <<present, source, level, current>> /\ current \in present
        /\ stale' \subseteq (stale \ {current}) \cup readers
    BY <1>0, <1>10 DEF Process, netVars, TypeOK, Shape
  <2>2. level[current] # Valid
    BY <2>1, NoneAssumption, <1>0 DEF ReadyInv, OutportFollows, isValid, TypeOK
  <2>3. ASSUME NEW i \in Connected(written, source)
        PROVE  Owner[i] # current /\ level[Owner[i]] # Valid
    <3>1. /\ i \in Inport /\ source[i] = current /\ current \in Producer \ Background
          /\ source[i] # None
      BY <1>0, <2>1, <2>3 DEF Connected, TypeOK
    <3>2. Owner[i] # current /\ Owner[i] \in present
      BY <3>1 DEF ReadyInv, Wiring
    <3> QED BY <1>10, <3>1, <3>2 DEF Process, ReadersWait, isValid
  <2>4. UpToDate'
    BY <2>1, <2>3 DEF UpToDate, isValid
  <2>5. ReadAll'
    BY <2>1, <2>3 DEF ReadAll
  <2> QED BY <1>0, <2>4, <2>5
<1>11. ASSUME Finish PROVE DataInv'
  <2>1. /\ UNCHANGED <<present, stale>> /\ current \notin stale /\ phase' = "visit"
        /\ level' = level \/ level' = [level EXCEPT ![current] = Valid]
    BY <1>11 DEF Finish, SetValid, NextProcessor, ReadAll, netVars, histVars
  <2>2. UpToDate' /\ ReadAll'
    BY <1>0, <2>1 DEF UpToDate, ReadAll, isValid, TypeOK
  <2> QED BY <1>0, <2>2
<1>12. ASSUME NEW p \in Processor, NEW l \in CallbackLevels, Callback(p, l)
       PROVE  DataInv'
  <2>1. /\ UNCHANGED <<present, current, phase>>
        /\ l \in InvalidationLevel /\ {p} \in SUBSET Processor
        /\ \A q \in stale' \ stale : l # Valid /\ q \in {p} /\ q # current
        /\ Invalidate({p}, l, source')
    BY <1>12 DEF Callback, netVars, evalVars, Invalidate
  <2>2. UpToDate'
    BY <1>0, <1>s, <2>1, InvalidateData
  <2>3. ReadAll'
    BY <2>1 DEF ReadAll
  <2> QED BY <1>0, <2>2, <2>3
<1>13. CASE UNCHANGED vars
  <2>1. UpToDate' /\ ReadAll'
    BY <1>13 DEF UpToDate, ReadAll, isValid, vars, netVars, procVars, evalVars, histVars
  <2> QED BY <1>0, <2>1
<1> QED BY <1>1, <1>2, <1>3, <1>4, <1>5, <1>6, <1>7, <1>8, <1>9, <1>10, <1>11, <1>12, <1>13
        DEF Next, Application, Evaluator, Callbacks

\* When every inport needs its connection an invalid processor has no valid reader.
LEMMA NeededReadersWait ==
  ASSUME Optional = {}, ReadyInv
  PROVE  ReadersWait
<1> SUFFICES ASSUME phase = "process", current \in Producer \ Background,
                    NEW i \in Inport, source[i] = current
             PROVE  ~isValid(Owner[i])
  BY DEF ReadersWait
<1>1. current # None /\ current \in present /\ Owner[i] \in present
  BY DEF ReadyInv, TypeInv, TypeOK, Shape, Wiring
<1>2. current \notin outValid
  BY <1>1 DEF ReadyInv, OutportFollows
<1>3. ~isReady(Owner[i])
  BY <1>2 DEF isReady, InportReady, OutportReady, Inports
<1> QED BY <1>1, <1>3 DEF ReadyInv, ValidIsReady

-----------------------------------------------------------------------------
(* Resources are initialized when that was asked for, if no callback asks. *)

\* The resources of the processor being visited have been initialized.
Prepared == current # None => current \notin outdated

ResourceInv == TypeInv /\ ResourcesRemembered /\ Prepared

\* A step that only invalidates forgets no resources, if what becomes outdated is
\* invalidated for its resources.
LEMMA InvalidateResources ==
  ASSUME TypeOK, ResourcesRemembered,
         NEW ps \in SUBSET Processor, NEW l \in InvalidationLevel,
         source' \in Sources, Invalidate(ps, l, source'),
         \A p \in (present' \ present) \cup (outdated' \ outdated) :
            l = InvalidResources /\ p \in ps,
         present' \subseteq Processor
  PROVE  ResourcesRemembered'
<1>1. /\ \A q \in Processor : level[q] = InvalidResources => level'[q] = InvalidResources
      /\ \A q \in ps : l = InvalidResources => level'[q] = InvalidResources
  BY InvalidateProperties DEF TypeOK
<1> QED BY <1>1 DEF ResourcesRemembered

\* Every step remembers the resources that have to be initialized.
LEMMA ResourceStep ==
  ASSUME InvalidResources \notin CallbackLevels, ResourceInv, [Next]_vars
  PROVE  ResourceInv'
<1> USE DEF ResourceInv
<1>0. TypeInv' /\ TypeOK /\ Shape /\ TypeOK' /\ Shape'
  BY TypeStep DEF TypeInv
<1>s. source' \in Sources /\ present' \subseteq Processor
  BY <1>0 DEF TypeOK, Sources
<1>l. InvalidOutput \in InvalidationLevel /\ InvalidResources \in InvalidationLevel
  BY DEF InvalidationLevel, InvalidOutput, InvalidResources
<1>r. ASSUME ~evaluating, RequestEvaluate PROVE Prepared'
  BY <1>0, <1>r, RequestType DEF Prepared
<1>m. \A q \in Processor : level[q] = InvalidResources
         => Max2(level[q], InvalidOutput) = InvalidResources
  BY <1>0, <1>l, Max2Properties DEF TypeOK
<1>1. ASSUME NEW p \in Processor, NEW l \in InvalidationLevel, ModifyProperty(p, l)
      PROVE  ResourceInv'
  <2>1. /\ present' = present /\ {p} \in SUBSET Processor
        /\ \A q \in outdated' \ outdated : l = InvalidResources /\ q \in {p}
        /\ Invalidate({p}, l, source')
    BY <1>1 DEF ModifyProperty, Change, netVars, Invalidate
  <2>2. ResourcesRemembered'
    BY <1>0, <1>s, <2>1, InvalidateResources
  <2> QED BY <1>0, <1>1, <1>r, <2>2 DEF ModifyProperty
<1>2. ASSUME NEW p \in Processor, NEW i \in Inport,
             AddConnection(p, i) \/ RemoveConnection(i)
      PROVE  ResourceInv'
  <2>1. /\ present' = present /\ {Owner[i]} \in SUBSET Processor
        /\ outdated' = outdated
        /\ Invalidate({Owner[i]}, InvalidOutput, source')
        /\ ~evaluating /\ RequestEvaluate
    BY <1>2 DEF AddConnection, CanConnectTo, RemoveConnection, Reconnect
  <2>2. ResourcesRemembered'
    BY <1>0, <1>s, <1>l, <2>1, InvalidateResources
  <2> QED BY <1>0, <1>r, <2>1, <2>2
<1>3. ASSUME NEW p \in Processor, AddProcessor(p)
      PROVE  ResourceInv'
  <2>1. /\ present' = present \cup {p} /\ {p} \in SUBSET Processor
        /\ outdated' \subseteq outdated \cup {p}
        /\ Invalidate({p}, InvalidResources, source')
    BY <1>3 DEF AddProcessor, Change, Invalidate
  <2>2. ResourcesRemembered'
    BY <1>0, <1>s, <1>l, <2>1, InvalidateResources
  <2> QED BY <1>0, <1>3, <1>r, <2>2 DEF AddProcessor
<1>4. ASSUME NEW p \in Processor, RemoveProcessor(p) \/ NewResults(p)
      PROVE  ResourceInv'
  <2>1. /\ ~evaluating
        /\ RequestEvaluate \/ UNCHANGED <<locked, queued, evalVars>>
        /\ outdated' \subseteq outdated /\ present' \subseteq present
        /\ \A q \in present' \cap outdated' :
              level'[q] = level[q] \/ level'[q] = Max2(level[q], InvalidOutput)
    BY <1>0, <1>4 DEF RemoveProcessor, NewResults, netVars, TypeOK
  <2>2. Prepared'
    <3>1. CASE UNCHANGED <<locked, queued, evalVars>>
      BY <1>0, <2>1, <3>1 DEF Prepared, evalVars, Shape, evaluating
    <3> QED BY <1>r, <2>1, <3>1
  <2>3. ResourcesRemembered'
    BY <1>0, <1>m, <2>1 DEF ResourcesRemembered, TypeOK
  <2> QED BY <1>0, <2>2, <2>3
<1>5. ASSUME Lock \/ Unlock \/ EndEvaluation PROVE ResourceInv'
  <2>1. UNCHANGED <<present, level, outdated>> /\ current' \in {current, None}
    BY <1>5 DEF Lock, Unlock, EndEvaluation, Evaluate, netVars, procVars,
                evalVars, histVars
  <2>2. ResourcesRemembered' /\ Prepared'
    BY <2>1 DEF ResourcesRemembered, Prepared
  <2> QED BY <1>0, <2>2
<1>6. ASSUME NEW p \in Processor, Skip(p) \/ ThrowPreparing(p)
      PROVE  ResourceInv'
  <2>1. UNCHANGED <<present, level, outdated>> /\ current' = None
    BY <1>6 DEF Skip, ThrowPreparing, NextProcessor, netVars, procVars, histVars
  <2>2. ResourcesRemembered' /\ Prepared'
    BY <2>1 DEF ResourcesRemembered, Prepared
  <2> QED BY <1>0, <2>2
<1>7. ASSUME NEW p \in Processor, Prepare(p) PROVE ResourceInv'
  <2>1. /\ UNCHANGED <<present, level>> /\ current' = p /\ p \in present
        /\ outdated' = IF level[p] = InvalidResources THEN outdated \ {p} ELSE outdated
    BY <1>0, <1>7 DEF Prepare, First, netVars, procVars, TypeOK
  <2>2. ResourcesRemembered' /\ Prepared'
    BY <2>1 DEF ResourcesRemembered, Prepared
  <2> QED BY <1>0, <2>2
<1>8. ASSUME Throw \/ CallOnChange \/ Process PROVE ResourceInv'
  <2>1. UNCHANGED <<present, level, outdated>> /\ current' \in {current, None}
    BY <1>8 DEF Throw, CallOnChange, Process, NextProcessor, netVars, procVars, histVars
  <2>2. ResourcesRemembered' /\ Prepared'
    BY <2>1 DEF ResourcesRemembered, Prepared
  <2> QED BY <1>0, <2>2
<1>9. ASSUME Finish PROVE ResourceInv'
  <2>1. /\ UNCHANGED <<present, outdated>> /\ current' = None /\ current # None
        /\ level' = level \/ level' = [level EXCEPT ![current] = Valid]
    BY <1>0, <1>9 DEF Finish, SetValid, NextProcessor, Shape, netVars, histVars
  <2>2. ResourcesRemembered' /\ Prepared'
    BY <1>0, <2>1 DEF ResourcesRemembered, Prepared, TypeOK
  <2> QED BY <1>0, <2>2
<1>10. ASSUME NEW p \in Processor, NEW l \in CallbackLevels, Callback(p, l)
       PROVE  ResourceInv'
  <2>1. /\ UNCHANGED <<present, current, outdated>>
        /\ l \in InvalidationLevel /\ {p} \in SUBSET Processor
        /\ Invalidate({p}, l, source')
    BY <1>10 DEF Callback, netVars, evalVars, Invalidate
  <2>2. ResourcesRemembered'
    BY <1>0, <1>s, <2>1, InvalidateResources
  <2>3. Prepared'
    BY <2>1 DEF Prepared
  <2> QED BY <1>0, <2>2, <2>3
<1>11. CASE UNCHANGED vars
  <2>1. ResourcesRemembered' /\ Prepared'
    BY <1>11 DEF ResourcesRemembered, Prepared, vars, netVars, procVars, evalVars, histVars
  <2> QED BY <1>0, <2>1
<1> QED BY <1>1, <1>2, <1>3, <1>4, <1>5, <1>6, <1>7, <1>8, <1>9, <1>10, <1>11
        DEF Next, Application, Evaluator, Callbacks

\* Resources that have to be initialized are initialized before the processor becomes
\* valid, as long as no callback asks for it while the processor is processing.
THEOREM ResourcesKept ==
  ASSUME InvalidResources \notin CallbackLevels
  PROVE  Spec => []ResourcesRemembered
<1>1. Init => ResourceInv
  <2>1. Init => ResourcesRemembered /\ Prepared
    BY DEF Init, ResourcesRemembered, Prepared
  <2> QED BY <2>1, ReadyInit DEF ResourceInv, ReadyInv
<1>2. ResourceInv /\ [Next]_vars => ResourceInv'
  BY ResourceStep
<1>3. ResourceInv => ResourcesRemembered
  BY DEF ResourceInv
<1> QED BY <1>1, <1>2, <1>3, PTL DEF Spec

-----------------------------------------------------------------------------
(* No request is forgotten.                                                *)

\* What the evaluation has visited, and has left as it should.
Visited == Sorted(source, present) \ todo
Handled(p) == isReady(p) => isValid(p) \/ p \in failed

\* Nothing a visited processor reads is still to be visited, so that its inputs stay as
\* they were; unless a request was made since, it is valid, not ready or threw.
Progress ==
  /\ ~evaluating /\ locked = 0 => ~queued
  /\ ~queued => \A p \in Visited : Handled(p)
  /\ evaluating => \A p \in Visited : \A i \in Inports(p) : source[i] \notin todo
  /\ current # None => \A i \in Inports(current) : source[i] \notin todo

ProgressInv == TypeInv /\ Progress

\* An evaluation starts with nothing visited.
LEMMA EvaluateStarts ==
  ASSUME NEW locks, Evaluate(locks)
  PROVE  Progress'
<1>1. Visited' = {}
  BY DEF Evaluate, Visited
<1>2. phase' = "visit" /\ current' = None
  BY DEF Evaluate
<1> QED BY <1>1, <1>2 DEF Progress, evaluating

\* A request of the application starts an evaluation or is remembered.
LEMMA RequestRemembered ==
  ASSUME TypeInv, ~evaluating, RequestEvaluate
  PROVE  Progress'
<1>1. CASE locked = 0
  BY <1>1, EvaluateStarts DEF RequestEvaluate
<1>2. CASE locked # 0
  BY <1>2 DEF RequestEvaluate, Progress, evaluating, evalVars, TypeInv, TypeOK, Shape
<1> QED BY <1>1, <1>2

\* A step of the evaluation that leaves the graph and the flags of outports alone, but for
\* those of processors that are still to be visited.
LEMMA StaysReady ==
  ASSUME TypeInv, Progress, evaluating, NEW p \in Visited,
         UNCHANGED source,
         \A q : q \notin todo => (OutportReady(q)' <=> OutportReady(q))
  PROVE  isReady(p)' <=> isReady(p)
<1>1. \A i \in Inports(p) : source[i] \notin todo
  BY DEF Progress
<1>2. \A i \in Inports(p) : InportReady(i)' <=> InportReady(i)
  BY <1>1 DEF InportReady
<1> QED BY <1>2 DEF isReady

\* The loop goes on when a processor was handled.
LEMMA NextHandled ==
  ASSUME TypeInv, Progress, evaluating, UNCHANGED <<netVars, locked, queued>>,
         NEW p \in todo, NextProcessor(p),
         \A i \in Inports(p) : source[i] \notin todo,
         \A q : q # p => (OutportReady(q)' <=> OutportReady(q)),
         \A q \in Processor : q # p => level'[q] = level[q] /\ (q \in failed' <=> q \in failed),
         ~queued => Handled(p)'
  PROVE  Progress'
<1>1. /\ todo' = todo \ {p} /\ current' = None /\ evaluating'
      /\ UNCHANGED <<source, present, queued>>
  BY DEF NextProcessor, netVars, evaluating
<1>2. Visited' \subseteq Visited \cup {p} /\ Visited \subseteq Processor
  BY <1>1 DEF Visited, Sorted, TypeInv, TypeOK
<1>3. ASSUME ~queued, NEW q \in Visited PROVE Handled(q)'
  <2>1. q # p /\ q \in Processor
    BY <1>2 DEF Visited
  <2>2. isReady(q)' <=> isReady(q)
    BY <1>1, StaysReady
  <2>3. Handled(q)
    BY <1>3 DEF Progress
  <2> QED BY <2>1, <2>2, <2>3 DEF Handled, isValid
<1>4. \A q \in Visited' : \A i \in Inports(q) : source'[i] \notin todo'
  BY <1>1, <1>2 DEF Progress
<1> QED BY <1>1, <1>2, <1>3, <1>4 DEF Progress

LEMMA ProgressStep ==
  ASSUME ProgressInv, [Next]_vars
  PROVE  ProgressInv'
<1>0. TypeInv /\ Progress /\ TypeInv'
  BY TypeStep DEF ProgressInv
<1>1. ASSUME NEW p \in Processor, NEW l \in InvalidationLevel, ModifyProperty(p, l)
      PROVE  Progress'
  BY <1>0, <1>1, RequestRemembered DEF ModifyProperty
<1>2. ASSUME NEW p \in Processor, NEW i \in Inport, AddConnection(p, i) PROVE Progress'
  BY <1>0, <1>2, RequestRemembered DEF AddConnection
<1>3. ASSUME NEW i \in Inport, RemoveConnection(i) PROVE Progress'
  BY <1>0, <1>3, RequestRemembered DEF RemoveConnection
<1>4. ASSUME NEW p \in Processor, AddProcessor(p) PROVE Progress'
  BY <1>0, <1>4, RequestRemembered DEF AddProcessor
<1>5. ASSUME NEW p \in Processor, NewResults(p) PROVE Progress'
  BY <1>0, <1>5, RequestRemembered DEF NewResults
<1>6. ASSUME NEW p \in Processor, RemoveProcessor(p) PROVE Progress'
  <2> DEFINE cut    == Inports(p) \cup Connected({p}, source)
             hit    == {i \in cut : source[i] # None}
             owners == {Owner[i] : i \in hit} \ {p}
             down   == Downstream(owners, source')
  <2>1. /\ ~evaluating /\ present' = present \ {p}
        /\ source' = [i \in Inport |-> IF i \in cut THEN None ELSE source[i]]
        /\ level' = [q \in Processor |->
                       IF q = p THEN Valid
                       ELSE IF q \in down THEN Max2(level[q], InvalidOutput) ELSE level[q]]
        /\ outValid' = outValid \ (down \cup {p}) /\ hasData' = hasData \ {p}
        /\ failed' = failed \ {p}
        /\ IF hit = {} THEN UNCHANGED <<locked, queued, evalVars>> ELSE RequestEvaluate
    BY <1>6 DEF RemoveProcessor
  <2>2. CASE hit # {}
    BY <1>0, <2>1, <2>2, RequestRemembered
  <2>3. CASE hit = {}
    <3>1. source' = source /\ source \in Sources
      BY <1>0, <2>1, <2>3 DEF TypeInv, TypeOK, Sources
    <3>2. down = {}
      BY <2>3 DEF Downstream, Connected
    <3> HIDE DEF down
    <3>3. \A i \in Inport : source[i] # p
      BY <2>3, NoneAssumption DEF Connected
    <3>4. /\ UNCHANGED <<locked, queued, evalVars>> /\ outValid' = outValid \ {p}
          /\ \A q \in Processor : q # p => level'[q] = level[q]
      BY <2>1, <2>3, <3>2
    <3>5. Visited' \subseteq Visited /\ Visited' \subseteq Processor \ {p}
      BY <1>0, <2>1, <3>1, <3>4 DEF Visited, Sorted, evalVars, TypeInv, TypeOK
    <3>6. \A i \in Inport : InportReady(i)' <=> InportReady(i)
      BY <2>1, <3>1, <3>3, <3>4 DEF InportReady, OutportReady
    <3>7. \A q \in Visited' : Handled(q) => Handled(q)'
      BY <2>1, <3>4, <3>5, <3>6 DEF Handled, isReady, isValid, Inports
    <3> QED BY <1>0, <2>1, <3>4, <3>5, <3>7 DEF Progress, evaluating, evalVars, Shape, TypeInv
  <2> QED BY <2>2, <2>3
<1>7. ASSUME Lock \/ Unlock PROVE Progress'
  <2>1. CASE Unlock /\ Evaluate(0)
    BY <2>1, EvaluateStarts
  <2>2. CASE ~(Unlock /\ Evaluate(0))
    <3>1. /\ UNCHANGED <<netVars, procVars, queued, evalVars, failed>>
          /\ locked' = 0 => ~ queued
      BY <1>0, <1>7, <2>2 DEF Lock, Unlock, histVars, TypeInv, TypeOK
    <3> QED BY <1>0, <3>1
        DEF Progress, Visited, Handled, isReady, isValid, InportReady, OutportReady, evaluating,
            netVars, procVars, evalVars
  <2> QED BY <2>1, <2>2
<1>8. ASSUME NEW p \in Processor, Skip(p) PROVE Progress'
  <2>1. /\ UNCHANGED <<netVars, procVars, locked, queued, failed>> /\ evaluating
        /\ p \in todo /\ \A i \in Inports(p) : source[i] \notin todo
        /\ NextProcessor(p) /\ (isValid(p) \/ ~isReady(p))
    BY <1>8 DEF Skip, First, evaluating, histVars
  <2>2. Handled(p)'
    BY <2>1 DEF Handled, isValid, isReady, InportReady, OutportReady, netVars, procVars
  <2>3. \A q : OutportReady(q)' <=> OutportReady(q)
    BY <2>1 DEF OutportReady, procVars
  <2> QED BY <1>0, <2>1, <2>2, <2>3, NextHandled DEF procVars
<1>9. ASSUME NEW p \in Processor, ThrowPreparing(p) PROVE Progress'
  <2>1. /\ UNCHANGED <<netVars, procVars, locked, queued>> /\ evaluating
        /\ p \in todo /\ \A i \in Inports(p) : source[i] \notin todo
        /\ NextProcessor(p) /\ failed' = failed \cup {p}
    BY <1>9 DEF ThrowPreparing, First, evaluating
  <2>2. Handled(p)'
    BY <2>1 DEF Handled
  <2>3. \A q : OutportReady(q)' <=> OutportReady(q)
    BY <2>1 DEF OutportReady, procVars
  <2> QED BY <1>0, <2>1, <2>2, <2>3, NextHandled DEF procVars
<1>10. ASSUME Throw PROVE Progress'
  <2>1. PICK p \in Processor : p = current
    BY <1>0, <1>10 DEF Throw, TypeInv, TypeOK, Shape
  <2>2. /\ UNCHANGED <<netVars, procVars, locked, queued>> /\ evaluating /\ p \in todo
        /\ \A i \in Inports(p) : source[i] \notin todo
        /\ NextProcessor(p) /\ failed' = failed \cup {p}
    BY <1>0, <1>10, <2>1 DEF Throw, evaluating, Progress, TypeInv, Shape
  <2>3. Handled(p)'
    BY <2>2 DEF Handled
  <2>4. \A q : OutportReady(q)' <=> OutportReady(q)
    BY <2>2 DEF OutportReady, procVars
  <2> QED BY <1>0, <2>2, <2>3, <2>4, NextHandled DEF procVars
<1>11. ASSUME NEW p \in Processor, Prepare(p) PROVE Progress'
  <2>1. /\ UNCHANGED <<netVars, procVars, locked, queued, todo>> /\ evaluating /\ evaluating'
        /\ p \in todo /\ \A i \in Inports(p) : source[i] \notin todo
        /\ current' = p /\ failed' = failed \ {p}
    BY <1>11 DEF Prepare, First, evaluating
  <2>2. Visited' = Visited /\ p \notin Visited
    BY <2>1 DEF Visited, netVars
  <2>3. \A q : q # p => (Handled(q) => Handled(q)')
    BY <2>1 DEF Handled, isValid, isReady, InportReady, OutportReady, netVars, procVars
  <2> QED BY <1>0, <2>1, <2>2, <2>3 DEF Progress, netVars
<1>12. ASSUME CallOnChange PROVE Progress'
  <2>1. /\ UNCHANGED <<netVars, procVars, locked, queued, todo, current, failed>>
        /\ evaluating /\ evaluating'
    BY <1>12 DEF CallOnChange, evaluating, histVars
  <2> QED BY <1>0, <2>1
      DEF Progress, Visited, Handled, isValid, isReady, InportReady, OutportReady, netVars, procVars
<1>13. ASSUME Process PROVE Progress'
  <2>1. /\ UNCHANGED <<netVars, level, outValid, locked, queued, todo, current, failed>>
        /\ evaluating /\ evaluating' /\ current \in todo
        /\ \A q : q # current => (q \in hasData' <=> q \in hasData)
    BY <1>0, <1>13 DEF Process, evaluating, TypeInv, Shape
  <2>2. \A q : q \notin todo => (OutportReady(q)' <=> OutportReady(q))
    BY <2>1 DEF OutportReady
  <2>3. Visited' = Visited
    BY <2>1 DEF Visited, netVars
  <2>4. \A q \in Visited : Handled(q) => Handled(q)'
    BY <1>0, <2>1, <2>2, StaysReady DEF Handled, isValid, netVars
  <2> QED BY <1>0, <2>1, <2>3, <2>4 DEF Progress, netVars
<1>14. ASSUME Finish PROVE Progress'
  <2>1. PICK p \in Processor : p = current
    BY <1>0, <1>14 DEF Finish, TypeInv, TypeOK, Shape
  <2>2. /\ UNCHANGED <<netVars, hasData, locked, queued, failed>> /\ evaluating /\ p \in todo
        /\ \A i \in Inports(p) : source[i] \notin todo
        /\ NextProcessor(p)
        /\ IF isReady(p) THEN SetValid(p) ELSE UNCHANGED <<level, outValid, changed>>
    BY <1>0, <1>14, <2>1 DEF Finish, evaluating, Progress, TypeInv, Shape, histVars
  <2>3. \A q : q # p => (OutportReady(q)' <=> OutportReady(q))
    BY <2>2 DEF OutportReady, SetValid
  <2>4. /\ \A q \in Processor : q # p => level'[q] = level[q]
        /\ isReady(p) => level'[p] = Valid
    BY <1>0, <2>2 DEF SetValid, TypeInv, TypeOK
  <2>5. \A i \in Inports(p) : InportReady(i)' <=> InportReady(i)
    <3>1. \A i \in Inports(p) : source'[i] = source[i] /\ source[i] # p
      BY <2>2 DEF netVars
    <3> QED BY <2>3, <3>1 DEF InportReady
  <2>6. Handled(p)'
    BY <2>4, <2>5 DEF Handled, isReady, isValid
  <2> QED BY <1>0, <2>2, <2>3, <2>4, <2>6, NextHandled
<1>15. ASSUME NEW p \in Processor, NEW l \in CallbackLevels, Callback(p, l) PROVE Progress'
  <2>1. /\ UNCHANGED <<netVars, locked, evalVars>> /\ queued' = TRUE /\ evaluating
    BY <1>15 DEF Callback, evaluating
  <2> QED BY <1>0, <2>1 DEF Progress, Visited, evaluating, netVars, evalVars
<1>16. ASSUME EndEvaluation PROVE Progress'
  <2>1. CASE queued
    BY <1>16, <2>1, EvaluateStarts DEF EndEvaluation
  <2>2. CASE ~queued
    <3>1. /\ UNCHANGED <<netVars, procVars, failed, queued, todo, current>> /\ phase' = "idle"
          /\ current = None
      BY <1>0, <1>16, <2>2 DEF EndEvaluation, histVars, TypeInv, Shape
    <3> QED BY <1>0, <2>2, <3>1
        DEF Progress, Visited, Handled, isValid, isReady, InportReady, OutportReady, evaluating,
            netVars, procVars
  <2> QED BY <2>1, <2>2
<1>17. CASE UNCHANGED vars
  <2>1. UNCHANGED <<present, source, level, outValid, hasData, locked, queued, todo, current,
                    phase, failed>>
    BY <1>17 DEF vars, netVars, procVars, evalVars, histVars
  <2>2. \A p : Handled(p)' <=> Handled(p)
    BY <2>1 DEF Handled, isValid, isReady, InportReady, OutportReady
  <2>3. Visited' = Visited /\ (evaluating' <=> evaluating)
    BY <2>1 DEF Visited, evaluating
  <2> QED BY <1>0, <2>1, <2>2, <2>3 DEF Progress, ProgressInv
<1> QED BY <1>0, <1>1, <1>2, <1>3, <1>4, <1>5, <1>6, <1>7, <1>8, <1>9, <1>10, <1>11, <1>12,
           <1>13, <1>14, <1>15, <1>16, <1>17
        DEF ProgressInv, Next, Application, Evaluator, Callbacks

\* When nothing is locked or evaluated no request is left, and what a sink depends on is valid,
\* not ready or threw: for any graph, any optional inports and whatever callbacks change.
THEOREM AllEvaluated == Spec => []NothingForgotten
<1>1. Init => ProgressInv
  <2>1. Init => Progress
    BY DEF Init, Progress, Visited, Sorted, Inports
  <2>2. Init => TypeInv
    <3>1. Init => queued \in BOOLEAN
      BY DEF Init
    <3> QED BY <3>1 DEF Init, TypeInv, TypeOK, Shape, Phase, InvalidationLevel, Valid
  <2> QED BY <2>1, <2>2 DEF ProgressInv
<1>2. ProgressInv /\ [Next]_vars => ProgressInv'
  BY ProgressStep
<1>3. ProgressInv => NothingForgotten
  <2> SUFFICES ASSUME ProgressInv, ~evaluating, locked = 0
      PROVE  /\ ~queued
             /\ \A p \in Sorted(source, present) : isReady(p) => isValid(p) \/ p \in failed
    BY DEF NothingForgotten
  <2>1. todo = {}
    BY DEF ProgressInv, TypeInv, Shape, evaluating
  <2> QED BY <2>1 DEF ProgressInv, Progress, Visited, Handled
<1> QED BY <1>1, <1>2, <1>3, PTL DEF Spec

-----------------------------------------------------------------------------
(* With optional inports a valid processor may depend on an invalid one.   *)

\* What is downstream of something downstream is downstream.
LEMMA DownstreamTransitive ==
  ASSUME NEW src \in Sources, NEW ps \in SUBSET Processor, NEW p \in Downstream(ps, src),
         NEW q \in Downstream({p}, src)
  PROVE  q \in Downstream(ps, src)
BY DEF Downstream

\* Changes of the graph inside of a set that is closed downstream do not bring anything
\* outside of it closer together.
LEMMA DownstreamOutside ==
  ASSUME NEW old \in Sources, NEW new \in Sources, NEW D \in SUBSET Processor,
         \A i \in Connected(D, new) : Owner[i] \in D,
         \A i \in Inport : Owner[i] \notin D => new[i] = old[i],
         NEW p \in Processor, NEW q \in Downstream({p}, new), q \notin D
  PROVE  q \in Downstream({p}, old)
<1> SUFFICES ASSUME NEW S \in SUBSET Processor, {p} \subseteq S,
                    \A i \in Connected(S, old) : Owner[i] \in S
             PROVE  q \in S
  BY DEF Downstream
<1> DEFINE T == S \cup D
<1>1. T \in SUBSET Processor /\ {p} \subseteq T
  OBVIOUS
<1>2. ASSUME NEW i \in Connected(T, new) PROVE Owner[i] \in T
  BY <1>2 DEF Connected
<1>3. q \in T
  BY <1>1, <1>2 DEF Downstream
<1> QED BY <1>3

\* A valid processor that depends on an invalid one has read what there is to read: the
\* invalid one is not ready, so that it will write nothing.
LeftOut ==
  \A c, u \in present :
    isValid(c) /\ c \in Downstream({u}, source) /\ ~isValid(u) => ~isReady(u)

\* An evaluation without throws and callbacks goes on as it began.
Calm ==
  /\ current # None => isReady(current)
  /\ failed = {} /\ (evaluating => ~queued) /\ todo \subseteq Sorted(source, present)

CalmInv == DataInv /\ Progress /\ LeftOut /\ Calm

\* What changes is in a set that is closed downstream, and all of it becomes invalid.
LEMMA ChangeLeavesOut ==
  ASSUME TypeOK, LeftOut, source' \in Sources, present' \subseteq Processor,
         NEW D \in SUBSET Processor, \A i \in Connected(D, source') : Owner[i] \in D,
         \A i \in Inport : Owner[i] \notin D =>
           source'[i] = source[i] /\ (InportReady(i)' => InportReady(i)),
         \A q \in present' \ D : q \in present /\ level'[q] = level[q],
         \A q \in present' \cap D : level'[q] # Valid
  PROVE  LeftOut'
<1> SUFFICES ASSUME NEW c \in present', NEW u \in present', level'[c] = Valid, level'[u] # Valid,
                    c \in Downstream({u}, source'), isReady(u)'
             PROVE  FALSE
  BY DEF LeftOut, isValid
<1>1. c \notin D /\ c \in present /\ isValid(c)
  BY DEF isValid
<1>2. u \notin D
  <2>1. ASSUME u \in D PROVE c \in D
    BY <2>1 DEF Downstream
  <2> QED BY <1>1, <2>1
<1>3. u \in present /\ ~isValid(u)
  BY <1>2 DEF isValid
<1>4. c \in Downstream({u}, source)
  BY <1>1, DownstreamOutside DEF TypeOK, Sources
<1>5. \A i \in Inports(u) : i \notin Optional => InportReady(i)
  BY <1>2 DEF isReady, Inports
<1>6. isReady(u)
  BY <1>5 DEF isReady
<1> QED BY <1>1, <1>3, <1>4, <1>6 DEF LeftOut

\* An invalidation changes only what it makes invalid, which is closed downstream.
LEMMA InvalidateLeavesOut ==
  ASSUME TypeOK, LeftOut, source' \in Sources, present' \subseteq Processor,
         NEW ps \in SUBSET Processor, NEW l \in InvalidationLevel,
         Invalidate(ps, l, source'), hasData' = hasData,
         \A i \in Inport : source'[i] # source[i] => l # Valid /\ Owner[i] \in ps,
         \A p \in present' \ present : l # Valid /\ p \in ps
  PROVE  LeftOut'
<1> DEFINE reached == {p \in ps : Max2(level[p], l) # Valid}
           owners  == {Owner[i] : i \in Connected(reached, source')}
           down    == Downstream(owners, source')
           D       == reached \cup down
           mine(p) == IF p \in ps THEN l ELSE Valid
           hit(p)  == IF p \in down THEN InvalidOutput ELSE Valid
<1>1. owners \in SUBSET Processor
  BY DEF Connected
<1>2. /\ level' = [p \in Processor |-> Max2(Max2(level[p], mine(p)), hit(p))]
      /\ outValid' = outValid \ D
  BY DEF Invalidate
<1>3. D \in SUBSET Processor /\ owners \subseteq down
  BY <1>1, DownstreamContains
<1>4. ASSUME NEW i \in Connected(D, source') PROVE Owner[i] \in D
  <2>1. CASE source'[i] \in reached
    BY <1>3, <1>4, <2>1 DEF Connected
  <2>2. CASE source'[i] \in down
    BY <1>1, <1>4, <2>2, DownstreamClosed DEF Connected
  <2> QED BY <1>4, <2>1, <2>2 DEF Connected
<1>5. \A p \in ps : l # Valid => p \in reached
  BY Max2Properties DEF TypeOK
<1> HIDE DEF down
<1>6. ASSUME NEW q \in Processor
      PROVE  /\ q \in D => level'[q] # Valid
             /\ q \notin D => level'[q] = level[q]
  <2>1. mine(q) \in InvalidationLevel /\ hit(q) \in InvalidationLevel /\ level[q] \in InvalidationLevel
    BY DEF TypeOK, InvalidationLevel, Valid, InvalidOutput
  <2>2. Max2(level[q], mine(q)) \in InvalidationLevel
    BY <2>1, Max2Properties
  <2>3. level'[q] = Valid <=> Max2(level[q], mine(q)) = Valid /\ hit(q) = Valid
    BY <1>2, <2>1, <2>2, Max2Properties
  <2>4. q \in down => level'[q] # Valid
    BY <2>3 DEF Valid, InvalidOutput
  <2>5. q \in reached => level'[q] # Valid
    BY <2>3
  <2>6. q \notin D => level'[q] = level[q]
    <3>1. ASSUME q \notin D PROVE level'[q] = Max2(level[q], mine(q))
      BY <1>2, <2>1, <2>2, <3>1, Max2Properties
    <3>2. ASSUME q \notin D, q \notin ps PROVE Max2(level[q], mine(q)) = level[q]
      BY <2>1, <3>2, Max2Properties
    <3>3. ASSUME q \notin D, q \in ps PROVE Max2(level[q], mine(q)) = level[q]
      BY <2>1, <3>3, Max2Properties
    <3> QED BY <3>1, <3>2, <3>3
  <2> QED BY <2>4, <2>5, <2>6
<1>7. \A i \in Inport : Owner[i] \notin D =>
        source'[i] = source[i] /\ (InportReady(i)' => InportReady(i))
  BY <1>2, <1>5 DEF InportReady, OutportReady
<1>8. /\ \A q \in present' \ D : q \in present /\ level'[q] = level[q]
      /\ \A q \in present' \cap D : level'[q] # Valid
  BY <1>3, <1>5, <1>6
<1> HIDE DEF D
<1> QED BY <1>3, <1>4, <1>7, <1>8, ChangeLeavesOut

\* A step that leaves the graph, the levels and what outports offer alone.
LEMMA QuietLeavesOut ==
  ASSUME LeftOut, UNCHANGED <<present, source, level>>,
         \A q : OutportReady(q)' => OutportReady(q)
  PROVE  LeftOut'
BY DEF LeftOut, isValid, isReady, InportReady, Inports

\* Everything upstream of the processor being visited has been visited.
LEMMA UpstreamVisited ==
  ASSUME TypeInv, Wiring, Progress, Calm, evaluating, current # None,
         NEW u \in present, current \in Downstream({u}, source), u # current
  PROVE  u \in Visited
<1> DEFINE U == Visited \cup {current}
<1>1. /\ source \in Sources /\ current \in Sorted(source, present) /\ current \in todo
      /\ present \subseteq Processor /\ Visited \subseteq Sorted(source, present)
  BY DEF TypeInv, TypeOK, Shape, Sources, Calm, Visited
<1>2. ASSUME NEW i \in Inport, Owner[i] \in U, source[i] # None
      PROVE  source[i] \in U
  <2>1. source[i] \in present /\ source[i] \in Processor /\ Owner[i] \in Processor
    BY <1>1, <1>2 DEF Wiring
  <2>2. Owner[i] \in Downstream({source[i]}, source)
    BY <1>1, <2>1, DownstreamContains, DownstreamClosed
  <2>3. Downstream({Owner[i]}, source) \cap (present \ Producer) # {}
    BY <1>1, <1>2 DEF Sorted
  <2>4. Downstream({source[i]}, source) \cap (present \ Producer) # {}
    BY <1>1, <2>1, <2>2, <2>3, DownstreamTransitive
  <2>5. source[i] \in Sorted(source, present)
    BY <2>1, <2>4 DEF Sorted
  <2>6. source[i] \notin todo
    BY <1>2 DEF Progress, Inports
  <2> QED BY <2>5, <2>6 DEF Visited
<1>3. ASSUME u \notin U PROVE FALSE
  <2> DEFINE S == Processor \ U
  <2>1. S \in SUBSET Processor /\ {u} \subseteq S
    BY <1>1, <1>3
  <2>2. ASSUME NEW i \in Connected(S, source) PROVE Owner[i] \in S
    BY <1>2, <2>2 DEF Connected
  <2>3. current \in S
    BY <2>1, <2>2 DEF Downstream
  <2> QED BY <2>3
<1> QED BY <1>3

\* A processor that becomes valid leaves none out that could still write, and nothing that
\* reads from it had been left out.
LEMMA FinishLeavesOut ==
  ASSUME CalmInv, Finish
  PROVE  LeftOut'
<1> DEFINE v == current
<1>1. /\ TypeInv /\ Wiring /\ OutportFollows /\ Progress /\ LeftOut /\ Calm /\ evaluating
      /\ source \in Sources /\ present \subseteq Processor
      /\ v # None /\ v \in present /\ v \in todo /\ ~isValid(v) /\ isReady(v)
  BY DEF CalmInv, DataInv, ReadyInv, TypeInv, TypeOK, Shape, Finish, OutportFollows, Calm,
         evaluating, Sources
<1>2. /\ UNCHANGED <<present, source, hasData>>
      /\ level' = [level EXCEPT ![v] = Valid]
      /\ outValid' = outValid \cup ({v} \cap Producer)
  BY <1>1 DEF Finish, SetValid, netVars
<1>3. /\ level'[v] = Valid
      /\ \A q \in Processor : q # v => level'[q] = level[q]
      /\ \A q : q # v => (OutportReady(q)' <=> OutportReady(q))
  BY <1>1, <1>2 DEF TypeInv, TypeOK, OutportReady
<1> SUFFICES ASSUME NEW c \in present, NEW u \in present, level'[c] = Valid, level'[u] # Valid,
                    c \in Downstream({u}, source), isReady(u)'
             PROVE  FALSE
  BY <1>2 DEF LeftOut, isValid
<1> HIDE DEF v
<1>4. u # v /\ u \in Processor /\ c \in Processor /\ ~isValid(u)
  BY <1>1, <1>3 DEF isValid
<1>5. CASE c = v
  <2>1. u \in Visited
    BY <1>1, <1>4, <1>5, UpstreamVisited DEF v
  <2>2. isReady(u)
    BY <1>1, <1>2, <1>3, <2>1, StaysReady
  <2> QED BY <1>1, <1>4, <2>1, <2>2 DEF Progress, Calm, Handled
<1>6. CASE c # v
  <2>1. isValid(c)
    BY <1>3, <1>4, <1>6 DEF isValid
  <2>2. ~isReady(u)
    BY <1>1, <1>4, <2>1 DEF LeftOut
  <2>3. PICK i \in Inports(u) : InportReady(i)' /\ ~InportReady(i)
    BY <2>2 DEF isReady
  <2>4. source[i] = v /\ i \in Inport /\ Owner[i] = u
    BY <1>2, <1>3, <2>3 DEF InportReady, Inports
  <2>5. u \in Downstream({v}, source)
    BY <1>1, <2>4, DownstreamContains, DownstreamClosed
  <2>6. c \in Downstream({v}, source)
    BY <1>1, <2>5, DownstreamTransitive
  <2> QED BY <1>1, <2>1, <2>6 DEF LeftOut
<1> QED BY <1>5, <1>6

\* A processor that is about to write has no valid reader: it was not left out.
LEMMA CalmReadersWait ==
  ASSUME CalmInv
  PROVE  ReadersWait
<1> SUFFICES ASSUME phase = "process", NEW i \in Inport, source[i] = current,
                    isValid(Owner[i])
             PROVE  FALSE
  BY DEF ReadersWait
<1>1. /\ source \in Sources /\ present \subseteq Processor
      /\ current # None /\ current \in present /\ Owner[i] \in present
      /\ ~isValid(current) /\ isReady(current)
  BY DEF CalmInv, DataInv, ReadyInv, TypeInv, TypeOK, Shape, Wiring, OutportFollows, Calm, Sources
<1>2. Owner[i] \in Downstream({current}, source)
  BY <1>1, DownstreamContains, DownstreamClosed
<1> QED BY <1>1, <1>2 DEF CalmInv, LeftOut

\* Without throws and callbacks every step leaves out only what has nothing to write.
LEMMA LeftOutStep ==
  ASSUME Throwing = {}, CallbackLevels = {}, CalmInv, [Next]_vars
  PROVE  LeftOut'
<1>0. /\ TypeInv /\ TypeOK /\ Shape /\ Wiring /\ OutportFollows /\ LeftOut
      /\ source \in Sources /\ source' \in Sources /\ present' \subseteq Processor
  BY TypeStep DEF CalmInv, DataInv, ReadyInv, TypeInv, TypeOK, Sources
<1>l. /\ InvalidOutput \in InvalidationLevel /\ InvalidResources \in InvalidationLevel
      /\ InvalidOutput # Valid /\ InvalidResources # Valid
  BY DEF InvalidationLevel, InvalidOutput, InvalidResources, Valid
<1>m. \A q \in Processor : Max2(level[q], InvalidOutput) # Valid
  BY <1>0, <1>l, Max2Properties DEF TypeOK
<1>1. ASSUME NEW p \in Processor, NEW l \in InvalidationLevel, ModifyProperty(p, l)
      PROVE  LeftOut'
  <2>1. /\ UNCHANGED <<present, source, hasData>> /\ {p} \in SUBSET Processor
        /\ Invalidate({p}, l, source')
    BY <1>1 DEF ModifyProperty, Change, netVars, Invalidate
  <2> QED BY <1>0, <2>1, InvalidateLeavesOut
<1>2. ASSUME NEW p \in Processor \cup {None}, NEW i \in Inport, Reconnect(i, p),
             UNCHANGED <<present, hasData>>
      PROVE  LeftOut'
  <2>1. /\ {Owner[i]} \in SUBSET Processor /\ Invalidate({Owner[i]}, InvalidOutput, source')
        /\ \A j \in Inport : source'[j] # source[j] => j = i
    BY <1>0, <1>2 DEF Reconnect, Sources
  <2> QED BY <1>0, <1>2, <1>l, <2>1, InvalidateLeavesOut
<1>3. ASSUME NEW p \in Processor, AddProcessor(p) PROVE LeftOut'
  <2>1. /\ UNCHANGED <<source, hasData>> /\ {p} \in SUBSET Processor
        /\ present' = present \cup {p}
        /\ Invalidate({p}, InvalidResources, source')
    BY <1>3 DEF AddProcessor, Change, Invalidate
  <2> QED BY <1>0, <1>l, <2>1, InvalidateLeavesOut
<1>4. ASSUME NEW p \in Processor, RemoveProcessor(p) PROVE LeftOut'
  <2> DEFINE cut    == Inports(p) \cup Connected({p}, source)
             hit    == {i \in cut : source[i] # None}
             owners == {Owner[i] : i \in hit} \ {p}
             down   == Downstream(owners, source')
             D      == down \cup {p}
  <2>1. /\ present' = present \ {p}
        /\ source' = [i \in Inport |-> IF i \in cut THEN None ELSE source[i]]
        /\ level' = [q \in Processor |->
                       IF q = p THEN Valid
                       ELSE IF q \in down THEN Max2(level[q], InvalidOutput) ELSE level[q]]
        /\ outValid' = outValid \ D /\ hasData' = hasData \ {p}
    BY <1>4 DEF RemoveProcessor
  <2>2. owners \in SUBSET Processor
    BY DEF Inports, Connected
  <2>3. owners \subseteq down /\ D \in SUBSET Processor
    BY <1>0, <2>2, DownstreamContains
  <2>4. ASSUME NEW i \in Connected(D, source') PROVE Owner[i] \in D
    <3>1. i \in Inport /\ source'[i] # p /\ source'[i] \in D
      BY <2>1, <2>4, NoneAssumption DEF Connected
    <3> QED BY <1>0, <2>2, <3>1, DownstreamClosed
  <2>5. ASSUME NEW i \in Inport, Owner[i] \notin D PROVE i \notin cut
    BY <2>3, <2>5, NoneAssumption DEF Inports, Connected
  <2> HIDE DEF down
  <2>6. \A i \in Inport : Owner[i] \notin D =>
          source'[i] = source[i] /\ (InportReady(i)' => InportReady(i))
    <3> HIDE DEF cut
    <3> QED BY <2>1, <2>5 DEF InportReady, OutportReady
  <2>7. /\ \A q \in present' \ D : q \in present /\ level'[q] = level[q]
        /\ \A q \in present' \cap D : level'[q] # Valid
    BY <1>0, <1>m, <2>1
  <2> HIDE DEF D
  <2> QED BY <1>0, <2>3, <2>4, <2>6, <2>7, ChangeLeavesOut
<1>5. ASSUME NEW p \in Processor, NewResults(p) PROVE LeftOut'
  <2> DEFINE owners == {Owner[i] : i \in Connected({p}, source)}
             down   == Downstream(owners, source)
  <2>1. /\ UNCHANGED <<present, source>> /\ hasData' = hasData \cup {p}
        /\ level' = [q \in Processor |->
                       IF q \in down THEN Max2(level[q], InvalidOutput) ELSE level[q]]
        /\ outValid' = (outValid \ down) \cup {p}
    BY <1>5 DEF NewResults, netVars
  <2>2. owners \in SUBSET Processor
    BY DEF Connected
  <2>3. owners \subseteq down /\ down \in SUBSET Processor
    BY <1>0, <2>2, DownstreamContains
  <2>4. \A i \in Connected(down, source') : Owner[i] \in down
    BY <1>0, <2>1, <2>2, DownstreamClosed DEF Connected
  <2>5. \A i \in Inport : Owner[i] \notin down => source[i] # p
    BY <2>3 DEF Connected
  <2> HIDE DEF down
  <2>6. \A i \in Inport : Owner[i] \notin down =>
          source'[i] = source[i] /\ (InportReady(i)' => InportReady(i))
    BY <2>1, <2>5 DEF InportReady, OutportReady
  <2>7. /\ \A q \in present' \ down : q \in present /\ level'[q] = level[q]
        /\ \A q \in present' \cap down : level'[q] # Valid
    BY <1>0, <1>m, <2>1
  <2> QED BY <1>0, <2>3, <2>4, <2>6, <2>7, ChangeLeavesOut
<1>6. ASSUME UNCHANGED <<present, source, level, outValid, hasData>> PROVE LeftOut'
  <2>1. \A q : OutportReady(q)' <=> OutportReady(q)
    BY <1>6 DEF OutportReady
  <2> QED BY <1>0, <1>6, <2>1, QuietLeavesOut
<1>7. ASSUME Lock \/ Unlock \/ CallOnChange \/ EndEvaluation \/ UNCHANGED vars PROVE LeftOut'
  <2>1. UNCHANGED <<present, source, level, outValid, hasData>>
    BY <1>7 DEF Lock, Unlock, CallOnChange, EndEvaluation, vars, netVars, procVars
  <2> QED BY <1>6, <2>1
<1>8. ASSUME NEW p \in Processor, Skip(p) \/ Prepare(p) PROVE LeftOut'
  <2>1. UNCHANGED <<present, source, level, outValid, hasData>>
    BY <1>8 DEF Skip, Prepare, netVars, procVars
  <2> QED BY <1>6, <2>1
<1>9. ASSUME Process PROVE LeftOut'
  <2>1. /\ UNCHANGED <<present, source, level, outValid>>
        /\ \A q : q # current \/ q \in Background => (q \in hasData' <=> q \in hasData)
    BY <1>9 DEF Process, netVars
  <2>2. current \notin Background => current \notin outValid
    BY <1>0, <1>9 DEF Process, OutportFollows, Shape, TypeOK
  <2>3. \A q : OutportReady(q)' => OutportReady(q)
    BY <2>1, <2>2 DEF OutportReady
  <2> QED BY <1>0, <2>1, <2>3, QuietLeavesOut
<1>10. ASSUME Finish PROVE LeftOut'
  BY <1>10, FinishLeavesOut
<1>11. ASSUME NEW p \in Processor, NEW i \in Inport, AddConnection(p, i) PROVE LeftOut'
  BY <1>2, <1>11 DEF AddConnection
<1>12. ASSUME NEW i \in Inport, RemoveConnection(i) PROVE LeftOut'
  BY <1>2, <1>12 DEF RemoveConnection
<1>13. ~Throw /\ \A p \in Processor : ~ThrowPreparing(p)
  BY DEF Throw, ThrowPreparing
<1> QED BY <1>1, <1>3, <1>4, <1>5, <1>7, <1>8, <1>9, <1>10, <1>11, <1>12, <1>13
        DEF Next, Application, Evaluator, Callbacks

\* An evaluation starts calmly, and so does a request that waits for the unlock.
LEMMA RequestIsCalm ==
  ASSUME TypeInv, failed' = {},
         (\E locks : Evaluate(locks)) \/ (~evaluating /\ RequestEvaluate)
  PROVE  Calm'
<1>1. ASSUME NEW locks, Evaluate(locks) PROVE Calm'
  BY <1>1 DEF Evaluate, Calm
<1>2. ASSUME ~evaluating, locked # 0, RequestEvaluate PROVE Calm'
  BY <1>2 DEF RequestEvaluate, Calm, evaluating, evalVars, TypeInv, Shape
<1> QED BY <1>1, <1>2 DEF RequestEvaluate

\* Without throws and callbacks an evaluation goes on as it began.
LEMMA CalmStep ==
  ASSUME Throwing = {}, CallbackLevels = {}, CalmInv, [Next]_vars
  PROVE  Calm'
<1>0. TypeInv /\ TypeOK /\ Shape /\ Wiring /\ OutportFollows /\ Calm
  BY DEF CalmInv, DataInv, ReadyInv, TypeInv
<1>1. ASSUME NEW p \in Processor, RemoveProcessor(p), UNCHANGED <<locked, queued, evalVars>>
      PROVE  Calm'
  <2>1. failed' = {} /\ ~evaluating /\ ~evaluating' /\ todo' = {} /\ current' = None
    BY <1>0, <1>1 DEF RemoveProcessor, Calm, evaluating, evalVars, Shape
  <2> QED BY <2>1 DEF Calm
<1>2. ASSUME NEW p \in Processor,
             \/ \E l \in InvalidationLevel : ModifyProperty(p, l)
             \/ \E i \in Inport : AddConnection(p, i)
             \/ AddProcessor(p) \/ RemoveProcessor(p) \/ NewResults(p)
      PROVE  Calm'
  <2>1. CASE RemoveProcessor(p)
    <3>1. failed' = {} /\ ~evaluating
      BY <1>0, <2>1 DEF RemoveProcessor, Calm
    <3> QED BY <1>0, <1>1, <2>1, <3>1, RequestIsCalm DEF RemoveProcessor
  <2>2. CASE ~RemoveProcessor(p)
    <3>1. failed' = {} /\ ~evaluating /\ RequestEvaluate
      BY <1>0, <1>2, <2>2
      DEF ModifyProperty, AddConnection, AddProcessor, NewResults, Calm
    <3> QED BY <1>0, <3>1, RequestIsCalm
  <2> QED BY <2>1, <2>2
<1>3. ASSUME NEW i \in Inport, RemoveConnection(i) PROVE Calm'
  BY <1>0, <1>3, RequestIsCalm DEF RemoveConnection, Calm
<1>4. ASSUME Unlock, Evaluate(0) PROVE Calm'
  BY <1>0, <1>4, RequestIsCalm DEF Unlock, histVars, Calm
<1>5. ASSUME UNCHANGED <<netVars, outValid, hasData, evalVars, queued, failed>> PROVE Calm'
  <2>1. UNCHANGED <<source, present, outValid, hasData, todo, current, phase, queued, failed>>
    BY <1>5 DEF netVars, evalVars
  <2>2. isReady(current)' <=> isReady(current)
    BY <2>1 DEF isReady, InportReady, OutportReady
  <2> QED BY <1>0, <2>1, <2>2 DEF Calm, evaluating
<1>6. ASSUME Lock \/ (Unlock /\ ~Evaluate(0)) \/ UNCHANGED vars PROVE Calm'
  <2>1. UNCHANGED <<netVars, outValid, hasData, evalVars, queued, failed>>
    BY <1>6 DEF Lock, Unlock, procVars, histVars, evalVars, vars
  <2> QED BY <1>5, <2>1
<1>7. ASSUME NEW p \in Processor, Prepare(p) PROVE Calm'
  <2>1. /\ UNCHANGED <<source, present, outValid, hasData, todo, queued>> /\ evaluating
        /\ current' = p /\ isReady(p) /\ failed' = {}
    BY <1>0, <1>7 DEF Prepare, First, evaluating, netVars, procVars, Calm
  <2>2. isReady(p)'
    BY <2>1 DEF isReady, InportReady, OutportReady
  <2> QED BY <1>0, <2>1, <2>2 DEF Calm
<1>8. ASSUME evaluating, UNCHANGED <<netVars, queued, failed>>, todo' \subseteq todo,
             current' = None
      PROVE  Calm'
  BY <1>0, <1>8 DEF Calm, netVars
<1>9. ASSUME NEW p \in Processor, Skip(p) PROVE Calm'
  BY <1>8, <1>9 DEF Skip, First, NextProcessor, evaluating, histVars
<1>10. ASSUME Finish PROVE Calm'
  BY <1>8, <1>10 DEF Finish, NextProcessor, evaluating, histVars
<1>11. ASSUME EndEvaluation PROVE Calm'
  <2>1. /\ UNCHANGED <<netVars, queued, failed, todo, current>> /\ evaluating /\ current = None
    BY <1>0, <1>11 DEF EndEvaluation, Calm, evaluating, histVars, Shape
  <2> QED BY <1>8, <2>1
<1>12. ASSUME CallOnChange PROVE Calm'
  <2>1. UNCHANGED <<source, present, outValid, hasData, todo, current, queued, failed>>
    BY <1>12 DEF CallOnChange, netVars, procVars, histVars
  <2>2. isReady(current)' <=> isReady(current)
    BY <2>1 DEF isReady, InportReady, OutportReady
  <2> QED BY <1>0, <1>12, <2>1, <2>2 DEF Calm, CallOnChange, evaluating
<1>13. ASSUME Process PROVE Calm'
  <2>1. /\ UNCHANGED <<source, present, outValid, todo, current, queued, failed>> /\ evaluating
        /\ \A q : q # current => (q \in hasData' <=> q \in hasData)
        /\ current # None /\ current \in Processor
    BY <1>0, <1>13 DEF Process, netVars, evaluating, Shape, TypeOK
  <2>2. \A i \in Inports(current) : InportReady(i) => InportReady(i)'
    BY <1>0, <2>1 DEF InportReady, OutportReady, Wiring, Inports
  <2>3. isReady(current)'
    BY <1>0, <2>1, <2>2 DEF Calm, isReady
  <2> QED BY <1>0, <2>1, <2>3 DEF Calm
<1>14. ~Throw /\ \A p \in Processor : ~ThrowPreparing(p)
  BY DEF Throw, ThrowPreparing
<1> QED BY <1>2, <1>3, <1>4, <1>6, <1>7, <1>9, <1>10, <1>11, <1>12, <1>13, <1>14
        DEF Next, Application, Evaluator, Callbacks

\* What a valid processor shows is computed from current data.  It holds when every inport
\* needs its connection, whatever throws and callbacks change; with optional inports it
\* holds as long as nothing throws and callbacks change nothing.
THEOREM CurrentData ==
  ASSUME Optional = {} \/ (Throwing = {} /\ CallbackLevels = {})
  PROVE  Spec => []UpToDate
<1>1. Init => DataInv
  BY ReadyInit DEF Init, DataInv, UpToDate, ReadAll
<1>2. DataInv => UpToDate
  BY DEF DataInv
<1>3. CASE Optional = {}
  <2>1. DataInv /\ [Next]_vars => DataInv'
    BY <1>3, DataStep, NeededReadersWait DEF DataInv
  <2> QED BY <1>1, <1>2, <2>1, PTL DEF Spec
<1>4. CASE Throwing = {} /\ CallbackLevels = {}
  <2>1. Init => CalmInv
    <3>1. Init => Progress /\ LeftOut /\ Calm
      BY DEF Init, Progress, Visited, Sorted, Inports, LeftOut, Calm, evaluating
    <3> QED BY <1>1, <3>1 DEF CalmInv
  <2>2. CalmInv /\ [Next]_vars => CalmInv'
    <3> SUFFICES ASSUME CalmInv, [Next]_vars PROVE CalmInv'
      OBVIOUS
    <3>1. DataInv'
      BY CalmReadersWait, DataStep DEF CalmInv
    <3>2. Progress'
      BY ProgressStep DEF CalmInv, DataInv, ReadyInv, ProgressInv
    <3> QED BY <1>4, <3>1, <3>2, LeftOutStep, CalmStep DEF CalmInv
  <2>3. CalmInv => UpToDate
    BY DEF CalmInv, DataInv
  <2> QED BY <2>1, <2>2, <2>3, PTL DEF Spec
<1> QED BY <1>3, <1>4
=============================================================================
