----------------------------- MODULE Observers -----------------------------
(***************************************************************************)
(* One Observable and its observers (util/observer).  While it notifies    *)
(* them, which may nest, the vector of observers keeps its length: those   *)
(* that are removed leave a null entry and those that are added wait in    *)
(* toAdd_ until the outermost notification ends.                           *)
(*                                                                         *)
(* The callback of an observer may add, remove and destroy observers,      *)
(* itself included, and notify again.                                      *)
(***************************************************************************)
EXTENDS Integers, FiniteSets, SequencesExt

CONSTANTS
  Observer, \* the observers
  Null,     \* a null entry of the vector
  MaxDepth, \* bound on the nesting of notifications
  MaxAdds,  \* bound on how often an observer is added
  Careful   \* whether an observer added during a notification is left alone
            \* until the notification has ended

ASSUME ObserversAssumption ==
  Null \notin Observer /\ Careful \in BOOLEAN /\ MaxDepth \in Nat /\ MaxAdds \in Nat

VARIABLES
  observers, \* observers_
  toAdd,     \* toAdd_
  observing, \* the observers whose observables_ holds the observable
  loops,     \* the calls of forEachObserver in progress, innermost first
  blocked,   \* notificationsBlocked_
  destroyed, \* the observers that are destroyed
  adds       \* the number of times an observer was added

observersVars == <<observers, toAdd, observing, loops, blocked, destroyed, adds>>

\* One call: the entry it is at, whether its callback is running, toRemove, and
\* what each observer has got: how many calls, and if it was registered throughout.
Loop == [i : Nat \ {0}, calling : BOOLEAN, toRemove : BOOLEAN,
         calls : [Observer -> Nat], throughout : SUBSET Observer]

Registered == ToSet(observers) \ {Null}

AliveObservers == Observer \ destroyed

\* Where a call can be made from: outside of all notifications or in a callback.
CanCall == IF loops = <<>> THEN TRUE ELSE loops[1].calling

\* The observers a careful program lets be.
Left == IF Careful THEN ToSet(toAdd) ELSE {}

ObserversInit ==
  /\ observers = <<>> /\ toAdd = <<>> /\ observing = {}
  /\ loops = <<>> /\ blocked = 0 /\ destroyed = {} /\ adds = 0

addObserverInternal(o) ==
  IF o \in Registered THEN UNCHANGED <<observers, toAdd>>
  ELSE IF loops = <<>> THEN observers' = Append(observers, o) /\ UNCHANGED toAdd
                       ELSE toAdd' = Append(toAdd, o) /\ UNCHANGED observers

\* Where std::find finds an observer, or 0.
Entry(o) == SelectInSeq(observers, LAMBDA p : p = o)

\* Mutant: the entry is erased in the middle of a notification.
removeObserverErasing(o) ==
  /\ observers' = LET k == Entry(o)
                  IN IF k = 0 THEN observers ELSE RemoveAt(observers, k)
  /\ loops' = [k \in DOMAIN loops |-> [loops[k] EXCEPT !.throughout = @ \ {o}]]

\* Nobody is called throughout a notification any more who was removed in it.
removeObserverInternal(o) ==
  /\ observers' = LET k == Entry(o)
                  IN IF k = 0 THEN observers
                     ELSE IF loops = <<>> THEN RemoveAt(observers, k)
                                          ELSE [observers EXCEPT ![k] = Null]
  /\ loops' = [k \in DOMAIN loops |-> [loops[k] EXCEPT !.throughout = @ \ {o}]]

\* addObserver of the observable.
AddObserver(o) ==
  /\ CanCall /\ o \in AliveObservers \ Left /\ adds < MaxAdds
  /\ adds' = adds + 1
  /\ addObserverInternal(o)
  /\ observing' = IF o \in Registered THEN observing ELSE observing \cup {o}
  /\ UNCHANGED <<loops, blocked, destroyed>>

\* removeObserver of the observable: an observer in toAdd_ is not found.
RemoveObserver(o) ==
  /\ CanCall /\ o \in Registered \ Left
  /\ removeObserverInternal(o)
  /\ observing' = observing \ {o}
  /\ UNCHANGED <<toAdd, blocked, destroyed, adds>>

\* removeObservation of the observer, and its destructor.
StopObserving(o) ==
  /\ CanCall /\ o \in AliveObservers \ Left
  /\ IF o \in observing THEN removeObserverInternal(o) ELSE UNCHANGED <<observers, loops>>
  /\ observing' = observing \ {o}
  /\ UNCHANGED <<toAdd, blocked, adds>>

RemoveObservation(o) == o \in observing /\ StopObserving(o) /\ UNCHANGED destroyed

DestroyObserver(o) == StopObserving(o) /\ destroyed' = destroyed \cup {o}

\* NotificationBlocker.
StartBlocking ==
  /\ CanCall /\ blocked = 0 /\ blocked' = 1
  /\ UNCHANGED <<observers, toAdd, observing, loops, destroyed, adds>>

StopBlocking ==
  /\ CanCall /\ blocked = 1 /\ blocked' = 0
  /\ UNCHANGED <<observers, toAdd, observing, loops, destroyed, adds>>

\* forEachObserver; while notifications are blocked it returns at once.
NotifyObservers ==
  /\ CanCall /\ blocked = 0 /\ Len(loops) < MaxDepth
  /\ loops' = <<[i |-> 1, calling |-> FALSE, toRemove |-> FALSE,
                 calls |-> [o \in Observer |-> 0], throughout |-> Registered]>> \o loops
  /\ UNCHANGED <<observers, toAdd, observing, blocked, destroyed, adds>>

\* The loop is between two callbacks.
InLoop == loops # <<>> /\ ~ loops[1].calling

CallObserver ==
  /\ InLoop /\ loops[1].i <= Len(observers)
  /\ LET o == observers[loops[1].i]
     IN loops' = IF o = Null
                 THEN [loops EXCEPT ![1].toRemove = TRUE, ![1].i = @ + 1]
                 ELSE [loops EXCEPT ![1].calling = TRUE, ![1].calls[o] = @ + 1]
  /\ UNCHANGED <<observers, toAdd, observing, blocked, destroyed, adds>>

CallbackReturns ==
  /\ loops # <<>> /\ loops[1].calling
  /\ loops' = [loops EXCEPT ![1].calling = FALSE, ![1].i = @ + 1]
  /\ UNCHANGED <<observers, toAdd, observing, blocked, destroyed, adds>>

\* The entries of the vector that are not null, in their order.
WithoutNull(s) ==
  LET f[k \in 0 .. Len(s)] ==
        IF k = 0 THEN <<>> ELSE IF s[k] = Null THEN f[k - 1] ELSE Append(f[k - 1], s[k])
  IN f[Len(s)]

AtEnd == InLoop /\ loops[1].i > Len(observers)

\* Mutant: toAdd_ is cleared and not added.
EndLoopDropping ==
  /\ AtEnd
  /\ loops' = Tail(loops)
  /\ IF Len(loops) > 1 THEN UNCHANGED <<observers, toAdd>>
     ELSE observers' = WithoutNull(observers) /\ toAdd' = <<>>
  /\ UNCHANGED <<observing, blocked, destroyed, adds>>

EndLoop ==
  /\ AtEnd
  /\ loops' = Tail(loops)
  /\ IF Len(loops) > 1 THEN UNCHANGED <<observers, toAdd>>
     ELSE /\ observers' = (IF loops[1].toRemove
                           THEN WithoutNull(observers)
                           ELSE observers) \o toAdd
          /\ toAdd' = <<>>
  /\ UNCHANGED <<observing, blocked, destroyed, adds>>

ObserversNext ==
  \/ \E o \in Observer :
       AddObserver(o) \/ RemoveObserver(o) \/ RemoveObservation(o) \/ DestroyObserver(o)
  \/ StartBlocking \/ StopBlocking
  \/ NotifyObservers \/ CallObserver \/ CallbackReturns \/ EndLoop

ObserversSpec == ObserversInit /\ [][ObserversNext]_observersVars

-----------------------------------------------------------------------------

\* Both sides of a registration agree, and each observer is registered once.
RegistrationsAgree ==
  /\ observing = Registered \cup ToSet(toAdd)
  /\ observing \cap destroyed = {}
  /\ \A o \in Observer : Cardinality({k \in DOMAIN observers : observers[k] = o})
                         + Cardinality({k \in DOMAIN toAdd : toAdd[k] = o}) <= 1

\* A notification calls those that are registered throughout it exactly once, and
\* nobody twice.
EachCalledOnce ==
  AtEnd => \A o \in Observer : /\ loops[1].calls[o] <= 1
                               /\ o \in loops[1].throughout => loops[1].calls[o] = 1

\* After a notification the observers that were added and removed during it are.
NothingPending ==
  loops = <<>> => toAdd = <<>> /\ ~ Contains(observers, Null)
=============================================================================
