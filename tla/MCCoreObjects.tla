--------------------------- MODULE MCCoreObjects ---------------------------
(***************************************************************************)
(* Small instances of the components that stand by themselves, side by     *)
(* side: a behaviour is of one of them, and the others keep their initial  *)
(* states.  "ranges": the picking ranges of Picking.  "mouse": two mappers *)
(* with ranges of one id, under a mouse.  "observers": observers that are  *)
(* left alone when they are added during a notification.  "undo": the undo *)
(* history, with files that can be opened and written.  "files": the same  *)
(* where any call on a file may fail, with a history of one state.         *)
(* "leaves", "plain", "lists": links between properties with a value,      *)
(* between those and composites, and between lists whose elements are      *)
(* linked as well.  "timers": timers.                                      *)
(***************************************************************************)
EXTENDS PickingMouse, Observers, UndoManager, PropertyLinks

VARIABLES
  component,
  t_held, timer, timers, sort, finished, at, front, running, calls, stop, main

\* The texts of the states, one of them longer than the others.
MCLength == [blank |-> 1, a |-> 2, broken |-> 1]

\* A plain composite C and D with an element each, and two lists K and L.
MCElements == [C |-> <<"x">>, D |-> <<"y">>, K |-> <<"u">>, L |-> <<"v">>]
MCBound == [a |-> 0, x |-> 2, y |-> 1, u |-> 1, v |-> 1]

Timed == INSTANCE Timers WITH
  Timer <- {"timer", "delay"}, Repeating <- {"timer"}, Interval <- [timer |-> 1, delay |-> 2],
  Block <- 1 .. 3, NoBlock <- 0, MaxCalls <- 2, MaxLate <- 0, held <- t_held

ASSUME Timed!ConstantsAssumption

timerVars == <<t_held, timer, timers, sort, finished, at, front, running, calls, stop, main>>
coreVars == <<component, linksVars, observersVars, vars, mouseVars, undoVars, timerVars>>

Components == {"ranges", "mouse", "leaves", "plain", "lists", "observers", "undo", "files", "timers"}

AllInit ==
  /\ component \in Components
  /\ MouseInit /\ LinksInit /\ ObserversInit /\ UndoInit /\ Timed!Init

\* Steps of one component while the others stay.
OfRanges == UNCHANGED <<component, mouseVars, linksVars, observersVars, undoVars, timerVars>>
OfMouse == UNCHANGED <<component, linksVars, observersVars, undoVars, timerVars>>
OfLinks == UNCHANGED <<component, vars, mouseVars, observersVars, undoVars, timerVars>>
OfObservers == UNCHANGED <<component, vars, mouseVars, linksVars, undoVars, timerVars>>
OfUndo == UNCHANGED <<component, vars, mouseVars, linksVars, observersVars, timerVars>>
OfTimers == UNCHANGED <<component, vars, mouseVars, linksVars, observersVars, undoVars>>

\* Bounds for the mappers under the mouse, and for its buttons: the right one is down
\* only while the left one is.
UnderMouse ==
  /\ alive' \subseteq {"m1", "m2"} /\ after'.size <= 1 /\ lastIndex' <= 3
  /\ \A k \in DOMAIN actions' : actions'[k].capacity = 1
  /\ buttons' # {"right"}

\* Bounds for the three kinds of networks: the properties that are linked and set, the
\* number of links, the values and the callbacks.
Networks ==
  [leaves |-> [linked |-> {"a", "x", "y"}, set |-> {"a", "x", "y"}, links |-> 3, values |-> 0 .. 1, callbacks |-> 0],
   plain |-> [linked |-> {"x", "C", "D"}, set |-> {"a", "x", "y"}, links |-> 2, values |-> 0 .. 1, callbacks |-> 1],
   lists |-> [linked |-> {"K", "L", "u", "v"}, set |-> {"u", "v"}, links |-> 2, values |-> 0 .. 1, callbacks |-> 0]]

Within(bound) ==
  /\ links' \subseteq bound.linked \X bound.linked /\ Cardinality(links') <= bound.links
  /\ {p \in Leaf : value'[p] # value[p]} \subseteq {p \in bound.set : value'[p] \in bound.values}
  /\ {c \in Composite : children'[c] # children[c]} \subseteq bound.linked
  /\ callbacks' <= bound.callbacks

\* Bounds for the saver, where calls on files fail and where none does.
Saving ==
  IF component = "undo" THEN ~ failed' ELSE network' # Broken /\ Len(buffer') <= 1 /\ Len(toSave') <= 1

AllNext ==
  \/ component = "ranges" /\ Next /\ OfRanges
  \/ component = "mouse" /\ MouseNext /\ UnderMouse /\ OfMouse
  \/ component \in DOMAIN Networks /\ LinksNext /\ Within(Networks[component]) /\ OfLinks
  \/ component = "observers" /\ ObserversNext /\ OfObservers
  \/ component \in {"undo", "files"} /\ UndoNext /\ Saving /\ OfUndo
  \/ component = "timers" /\ Timed!Next /\ OfTimers

\* The fairness of each of them.
AllFairness ==
  /\ WF_coreVars(\/ component \in DOMAIN Networks /\ LinksStep /\ Within(Networks[component]) /\ OfLinks
                 \/ component \in {"undo", "files"} /\ SaverStep /\ Saving /\ OfUndo
                 \/ component = "timers" /\ Timed!ThreadStep /\ OfTimers)
  /\ WF_coreVars(component = "timers" /\ Timed!Tick /\ OfTimers)
  /\ WF_coreVars(component = "timers" /\ Timed!FrontFunction /\ OfTimers)
  /\ WF_coreVars(component = "timers" /\ Timed!CallbackReturns /\ OfTimers)

AllSpec == AllInit /\ [][AllNext]_coreVars /\ AllFairness

-----------------------------------------------------------------------------

\* The types of the states.
TypesOK == TypeOK /\ UndoTypeOK /\ Timed!TypeOK /\ LinksTypeOK

\* A timer that runs is called.
TimerFires == Timed!TimerFires
=============================================================================
