------------------------------ MODULE Picking ------------------------------
(***************************************************************************)
(* The ranges of picking ids (interaction/pickingmanager, pickingaction)   *)
(* and the mappers that own them (interaction/pickingmapper).              *)
(*                                                                         *)
(* The manager hands out ranges of consecutive ids, one after the other.   *)
(* A range that is given back is kept for reuse, unless it is the last     *)
(* one: then it is removed, and so are the unused ones before it, one in   *)
(* each step of a loop.  Everything runs in the main thread: while a call  *)
(* is in progress the only steps are those of the call.                    *)
(***************************************************************************)
EXTENDS Naturals, FiniteSets, SequencesExt

CONSTANTS
  Mapper,   \* the objects of class PickingMapper
  Size,     \* the sizes that are asked for
  Colours,  \* the number of colours a pixel can have: 2^24
  MaxIndex, \* bound on lastIndex_
  NoMapper  \* no mapper

ASSUME MapperAssumption == NoMapper \notin Mapper
ASSUME SizeAssumption == Size \subseteq Nat /\ Colours \in Nat \ {0} /\ MaxIndex \in Nat \ {0}

VARIABLES
  actions,   \* pickingActions_
  unused,    \* unusedObjects_, by their start
  lastIndex, \* lastIndex_
  held,      \* the start of pickingAction_ of each mapper, 0 when it is null
  alive,     \* the mappers that exist
  trimming,  \* whether the clean-up loop of unregisterPickingAction runs
  after      \* the rest of the call that is in progress

vars == <<actions, unused, lastIndex, held, alive, trimming, after>>

\* An action with a callback and a processor, or with neither: armed or not.
Action == [start : Nat, size : Nat, capacity : Nat, armed : BOOLEAN, enabled : BOOLEAN]

Nothing == [op |-> "nothing", mapper |-> NoMapper, size |-> 0, enabled |-> TRUE]

Returned == ~ trimming /\ after = Nothing

At(start) == {k \in DOMAIN actions : actions[k].start = start}
Starts == {actions[k].start : k \in DOMAIN actions}
Capacity(start) == actions[CHOOSE k \in At(start) : TRUE].capacity

\* The global ids that a mapper draws with.
Ids(m) == {id \in 1 .. lastIndex :
             \E k \in At(held[m]) : id >= actions[k].start /\ id < actions[k].start + actions[k].size}

\* getPickingActionFromIndex: the last action that starts at the id or before, if
\* it has the id.
Lookup(id) ==
  {k \in DOMAIN actions :
     /\ id # 0 /\ actions[k].start <= id /\ id < actions[k].start + actions[k].size
     /\ \A j \in DOMAIN actions : j > k => actions[j].start > id}

\* indexToColor and colorToIndex: a pixel has 24 bits of the id.
Pixel(id) == id % Colours

Init ==
  /\ actions = <<>> /\ unused = <<>> /\ lastIndex = 1
  /\ held = [m \in Mapper |-> 0] /\ alive = {}
  /\ trimming = FALSE /\ after = Nothing

-----------------------------------------------------------------------------

\* registerPickingAction: the smallest unused action that is large enough, or a
\* new one.  An action that is used again stays enabled or disabled as it was.
Reuse(m, size, k) ==
  /\ unused' = RemoveAt(unused, k)
  /\ actions' = [j \in DOMAIN actions |->
                   IF actions[j].start = unused[k]
                   THEN [actions[j] EXCEPT !.size = size, !.armed = TRUE] ELSE actions[j]]
  /\ held' = [held EXCEPT ![m] = unused[k]]
  /\ UNCHANGED lastIndex

Extend(m, size) ==
  /\ actions' = Append(actions, [start |-> lastIndex, size |-> size, capacity |-> size,
                                 armed |-> TRUE, enabled |-> TRUE])
  /\ held' = [held EXCEPT ![m] = lastIndex]
  /\ lastIndex' = lastIndex + size
  /\ UNCHANGED unused

\* Mutant: an action that is one id too small is taken.
FitsAlmost(size) == {k \in DOMAIN unused : Capacity(unused[k]) + 1 >= size}

Fits(size) == {k \in DOMAIN unused : Capacity(unused[k]) >= size}

Register(m, size) ==
  IF Fits(size) = {} THEN Extend(m, size)
  ELSE \E k \in Fits(size) : (\A j \in Fits(size) : k <= j) /\ Reuse(m, size, k)

\* unregisterPickingAction: no action, one that is unused and one that is gone are
\* left; the last one is removed; any other is kept in the order of the capacities.
PopBack ==
  /\ actions' = Front(actions)
  /\ lastIndex' = lastIndex - Last(actions).capacity

Keep(start) ==
  /\ \E k \in 1 .. Len(unused) + 1 :
       /\ \A j \in DOMAIN unused : j < k <=> Capacity(unused[j]) <= Capacity(start)
       /\ unused' = InsertAt(unused, k, start)
  /\ actions' = [j \in DOMAIN actions |->
                   IF actions[j].start = start
                   THEN [actions[j] EXCEPT !.armed = FALSE] ELSE actions[j]]

\* Mutant: the clean-up loop is left out.
UnregisterLast(start) ==
  IF start \notin Starts \/ Contains(unused, start)
  THEN UNCHANGED <<actions, unused, lastIndex, trimming>>
  ELSE IF Last(actions).start = start
  THEN PopBack /\ UNCHANGED <<unused, trimming>>
  ELSE Keep(start) /\ UNCHANGED <<lastIndex, trimming>>

\* Mutant: whether the action is unused already is not looked up.
UnregisterTwice(start) ==
  IF start \notin Starts
  THEN UNCHANGED <<actions, unused, lastIndex, trimming>>
  ELSE IF Last(actions).start = start
  THEN PopBack /\ trimming' = TRUE /\ UNCHANGED unused
  ELSE Keep(start) /\ UNCHANGED <<lastIndex, trimming>>

Unregister(start) ==
  IF start \notin Starts \/ Contains(unused, start)
  THEN UNCHANGED <<actions, unused, lastIndex, trimming>>
  ELSE IF Last(actions).start = start
  THEN PopBack /\ trimming' = TRUE /\ UNCHANGED unused
  ELSE Keep(start) /\ UNCHANGED <<lastIndex, trimming>>

\* The clean-up loop.
Trim ==
  /\ trimming
  /\ IF actions # <<>> /\ Contains(unused, Last(actions).start)
     THEN /\ PopBack
          /\ \E k \in DOMAIN unused :
               unused[k] = Last(actions).start /\ unused' = RemoveAt(unused, k)
          /\ UNCHANGED trimming
     ELSE trimming' = FALSE /\ UNCHANGED <<actions, unused, lastIndex>>
  /\ UNCHANGED <<held, alive, after>>

-----------------------------------------------------------------------------

\* The constructor.
Create(m, size) ==
  /\ Returned /\ m \notin alive /\ lastIndex + size <= MaxIndex
  /\ alive' = alive \cup {m}
  /\ IF size = 0 THEN UNCHANGED <<actions, unused, lastIndex, held>> ELSE Register(m, size)
  /\ UNCHANGED <<trimming, after>>

\* The destructor.
Destroy(m) ==
  /\ m \in alive
  /\ alive' = alive \ {m}
  /\ held' = [held EXCEPT ![m] = 0]
  /\ Unregister(held[m])

DestroyMapper(m) == Returned /\ Destroy(m) /\ UNCHANGED after

\* resize: the old action is unregistered, then a new one is registered, which is
\* enabled as the old one was.
Resize(m, size) ==
  /\ Returned /\ m \in alive /\ lastIndex + size <= MaxIndex
  /\ \A k \in At(held[m]) : size # actions[k].size
  /\ held[m] = 0 => size > 0
  /\ held' = [held EXCEPT ![m] = 0]
  /\ Unregister(held[m])
  /\ after' = IF size = 0 THEN Nothing
              ELSE [op |-> "register", mapper |-> m, size |-> size,
                    enabled |-> \A k \in At(held[m]) : actions[k].enabled]
  /\ UNCHANGED alive

Resized ==
  /\ ~ trimming /\ after.op = "register"
  /\ Register(after.mapper, after.size)
  /\ after' = [Nothing EXCEPT !.op = "enable", !.mapper = after.mapper, !.enabled = after.enabled]
  /\ UNCHANGED <<alive, trimming>>

\* setEnabled.
Enable(m, enabled) ==
  actions' = [k \in DOMAIN actions |->
                IF actions[k].start = held[m]
                THEN [actions[k] EXCEPT !.enabled = enabled] ELSE actions[k]]

EnableResized ==
  /\ after.op = "enable"
  /\ Enable(after.mapper, after.enabled)
  /\ after' = Nothing
  /\ UNCHANGED <<unused, lastIndex, held, alive, trimming>>

SetEnabled(m, enabled) ==
  /\ Returned /\ m \in alive /\ held[m] # 0
  /\ Enable(m, enabled)
  /\ UNCHANGED <<unused, lastIndex, held, alive, trimming, after>>

\* m = std::move(t) for a temporary t: they swap their actions and the one that was
\* of m is unregistered; then the destructor of t unregisters it once more.
MoveAssign(m, t) ==
  /\ Returned /\ {m, t} \subseteq alive /\ m # t
  /\ held' = [held EXCEPT ![m] = held[t], ![t] = held[m]]
  /\ Unregister(held[m])
  /\ after' = [Nothing EXCEPT !.op = "destroy", !.mapper = t]
  /\ UNCHANGED alive

DestroyTemporary ==
  /\ ~ trimming /\ after.op = "destroy"
  /\ Destroy(after.mapper)
  /\ after' = Nothing

Next ==
  \/ \E m \in Mapper, size \in Size : Create(m, size) \/ Resize(m, size)
  \/ \E m \in Mapper, enabled \in BOOLEAN : SetEnabled(m, enabled)
  \/ \E m \in Mapper : DestroyMapper(m) \/ \E t \in Mapper : MoveAssign(m, t)
  \/ Trim \/ Resized \/ EnableResized \/ DestroyTemporary

Spec == Init /\ [][Next]_vars

-----------------------------------------------------------------------------

TypeOK ==
  /\ actions \in Seq(Action) /\ unused \in Seq(Nat) /\ lastIndex \in 1 .. MaxIndex
  /\ held \in [Mapper -> Nat] /\ alive \subseteq Mapper /\ trimming \in BOOLEAN

\* The ranges follow one another up to lastIndex_, and the last one is in use.
RangesFollow ==
  /\ \A k \in DOMAIN actions :
       /\ actions[k].size <= actions[k].capacity
       /\ actions[k].start = IF k = 1 THEN 1 ELSE actions[k - 1].start + actions[k - 1].capacity
  /\ lastIndex = IF actions = <<>> THEN 1 ELSE Last(actions).start + Last(actions).capacity
  /\ Returned /\ actions # <<>> => ~ Contains(unused, Last(actions).start)

\* Every range is either held by one mapper and armed, or unused and not; and the
\* unused ones are in the order of their capacities, each of them once.
RangesOwned ==
  Returned =>
    /\ \A k \in DOMAIN actions :
         LET unheld == \A m \in alive : held[m] # actions[k].start
         IN (Contains(unused, actions[k].start) <=> unheld) /\ (unheld <=> ~ actions[k].armed)
    /\ \A m \in alive : held[m] = 0 \/ held[m] \in Starts
    /\ \A m \in Mapper \ alive : held[m] = 0
    /\ \A m, n \in Mapper : held[m] = held[n] => held[m] = 0 \/ m = n
    /\ \A j, k \in DOMAIN unused :
         j < k => unused[j] # unused[k] /\ Capacity(unused[j]) <= Capacity(unused[k])

\* The colour of an id a mapper draws with leads back to its callback, if the id is one of
\* those that have a colour of their own: also when others were handed out beyond them.
PixelFindsMapper ==
  Returned =>
    \A m \in alive : \A id \in Ids(m) : id < Colours => Lookup(Pixel(id)) = At(held[m])
=============================================================================
