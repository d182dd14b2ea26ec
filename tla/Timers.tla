------------------------------- MODULE Timers -------------------------------
(***************************************************************************)
(* Timers, delays and the thread they share (util/timer).  A timer that is *)
(* started has a new control block, of which the thread has a weak         *)
(* pointer; one that is stopped or started again drops the old block.  The *)
(* thread dispatches a callback to the front when the time of a block has  *)
(* come.  It holds the mutex except while it waits.                        *)
(***************************************************************************)
EXTENDS Integers, SequencesExt, FiniteSetsExt

CONSTANTS
  Timer,     \* the objects of class Timer and Delay
  Repeating, \* those of class Timer
  Interval,  \* the interval of each
  Block,     \* the control blocks, as many as there can be starts
  NoBlock,   \* no control block
  MaxCalls,  \* bound on the number of calls that are counted
  MaxLate    \* bound on how late the thread is

ConstantsAssumption ==
  /\ Repeating \subseteq Timer /\ Interval \in [Timer -> Nat]
  /\ NoBlock \notin Block /\ {MaxCalls, MaxLate} \subseteq Nat

VARIABLES
  held,     \* controlblock_ of each timer
  timer,    \* the timer of each block that was made, a partial function
  timers,   \* timers_: the blocks, and the time that is left for each
  sort,     \* sort_
  finished, \* finished_ of each block: invalid, or pending, or ready
  at,       \* where the thread is
  front,    \* the blocks whose callbacks are dispatched
  running,  \* the block whose callback runs in the front
  calls,    \* how often the callback of each delay was called
  stop,     \* stop_
  main      \* whether the application runs, stops the thread or joins it

blocks == <<held, timer, finished>>
frontVars == <<front, running, calls>>
vars == <<blocks, timers, sort, at, frontVars, stop, main>>

Init ==
  /\ held = [t \in Timer |-> NoBlock] /\ timer = <<>>
  /\ timers = <<>> /\ sort = FALSE
  /\ finished = [b \in Block |-> "invalid"]
  /\ at = "loop"
  /\ front = <<>> /\ running = NoBlock /\ calls = [b \in Block |-> 0]
  /\ stop = FALSE /\ main = "runs"

\* The weak pointer to a block can be locked: its timer or its callback holds it.
Alive(b) == running = b \/ \E t \in Timer : held[t] = b

\* The thread has the mutex while it is about to wait for the first timer.
MutexFree == at # "idle"

\* Mutant: the condition variable is not notified.
NotifiedNot == at

Notified == CASE at = "sleeping" -> "loop" [] at = "napping" -> "woken" [] OTHER -> at

-----------------------------------------------------------------------------
(***************************************************************************)
(* The front thread.                                                       *)
(***************************************************************************)

\* start, and add.
Start(t) ==
  /\ main = "runs" /\ MutexFree
  /\ \E b \in Block \ DOMAIN timer :
       /\ \A c \in Block \ DOMAIN timer : b <= c
       /\ held' = [held EXCEPT ![t] = b]
       /\ timer' = [c \in DOMAIN timer \cup {b} |-> IF c = b THEN t ELSE timer[c]]
       /\ timers' = Append(timers, [left |-> Interval[t], block |-> b])
  /\ sort' = TRUE
  /\ at' = Notified
  /\ UNCHANGED <<finished, frontVars, stop, main>>

\* stop and cancel.
Stop(t) ==
  /\ main = "runs" /\ held[t] # NoBlock
  /\ held' = [held EXCEPT ![t] = NoBlock]
  /\ UNCHANGED <<timer, finished, timers, sort, at, frontVars, stop, main>>

Count(b) ==
  calls' = IF timer[b] \in Repeating \/ calls[b] = MaxCalls THEN calls
           ELSE [calls EXCEPT ![b] = @ + 1]

\* The function that was dispatched.
FrontFunction ==
  /\ main = "runs" /\ running = NoBlock /\ front # <<>>
  /\ LET b == Head(front)
     IN IF Alive(b)
        THEN running' = b /\ Count(b) /\ UNCHANGED finished
        ELSE finished' = [finished EXCEPT ![b] = "ready"] /\ UNCHANGED <<running, calls>>
  /\ front' = Tail(front)
  /\ UNCHANGED <<held, timer, timers, sort, at, stop, main>>

CallbackReturns ==
  /\ running # NoBlock
  /\ finished' = [finished EXCEPT ![running] = "ready"]
  /\ running' = NoBlock
  /\ UNCHANGED <<held, timer, timers, sort, at, front, calls, stop, main>>

\* The destructor of the thread.
Destroy ==
  /\ main = "runs" /\ running = NoBlock /\ \A t \in Timer : held[t] = NoBlock
  /\ stop' = TRUE /\ main' = "stops"
  /\ UNCHANGED <<blocks, timers, sort, at, frontVars>>

NotifyAll ==
  /\ main = "stops" /\ main' = "joins"
  /\ at' = Notified
  /\ UNCHANGED <<blocks, timers, sort, frontVars, stop>>

-----------------------------------------------------------------------------
(***************************************************************************)
(* The timer thread.                                                       *)
(***************************************************************************)

Expired(entry) == entry.left < 0

\* Sorted, the block that is due first is the last.
Sorted(entries) == SortSeq(entries, LAMBDA e, f : e.left > f.left)

\* The callback is dispatched unless the one before has not run yet.
Dispatch(b) ==
  IF finished[b] = "pending" THEN UNCHANGED <<finished, front>>
  ELSE finished' = [finished EXCEPT ![b] = "pending"] /\ front' = Append(front, b)

\* The end of the loop for the last of the entries; unsorted says if they have to be
\* sorted again.
Expire(entries, unsorted) ==
  /\ at' = "loop"
  /\ LET entry == Last(entries)
         b == entry.block
         t == timer[b]
     IN IF ~ Alive(b)
        THEN timers' = Front(entries) /\ sort' = unsorted /\ UNCHANGED <<finished, front>>
        ELSE /\ IF t \in Repeating
                THEN /\ timers' = Append(Front(entries), [entry EXCEPT !.left = @ + Interval[t]])
                     /\ sort' = TRUE
                ELSE timers' = Front(entries) /\ sort' = unsorted
             /\ Dispatch(b)

\* The loop up to the first wait, or to its end.
TimerLoop ==
  /\ at = "loop"
  /\ IF stop THEN at' = "ended" /\ UNCHANGED <<timers, sort, finished, front>>
     ELSE IF timers = <<>> THEN at' = "idle" /\ UNCHANGED <<timers, sort, finished, front>>
     ELSE LET entries == IF sort THEN Sorted(timers) ELSE timers
          IN IF Expired(Last(entries)) THEN Expire(entries, FALSE)
             ELSE /\ at' = "napping" /\ timers' = entries /\ sort' = FALSE
                  /\ UNCHANGED <<finished, front>>
  /\ UNCHANGED <<held, timer, running, calls, stop, main>>

Sleep ==
  /\ at = "idle" /\ at' = "sleeping"
  /\ UNCHANGED <<blocks, timers, sort, frontVars, stop, main>>

\* A nap ends when the last of the entries is due, or with a notification; what is
\* the last then is looked at again.
WakeUp ==
  /\ IF at = "napping" THEN Expired(Last(timers)) ELSE at = "woken"
  /\ IF Expired(Last(timers)) THEN Expire(timers, sort)
     ELSE at' = "loop" /\ UNCHANGED <<timers, sort, finished, front>>
  /\ UNCHANGED <<held, timer, running, calls, stop, main>>

\* Time passes.
Tick ==
  /\ timers # <<>> /\ \A k \in DOMAIN timers : timers[k].left >= - MaxLate
  /\ timers' = [k \in DOMAIN timers |-> [timers[k] EXCEPT !.left = @ - 1]]
  /\ UNCHANGED <<blocks, sort, at, frontVars, stop, main>>

ThreadStep == TimerLoop \/ Sleep \/ WakeUp

Next ==
  \/ \E t \in Timer : Start(t) \/ Stop(t)
  \/ FrontFunction \/ CallbackReturns \/ Destroy \/ NotifyAll
  \/ ThreadStep \/ Tick

Spec == Init /\ [][Next]_vars

\* The thread, the time and the event loop of the front go on, and callbacks return.
FairSpec ==
  Spec /\ WF_vars(ThreadStep) /\ WF_vars(Tick) /\ WF_vars(FrontFunction) /\ WF_vars(CallbackReturns)

-----------------------------------------------------------------------------

TypeOK ==
  /\ held \in [Timer -> Block \cup {NoBlock}]
  /\ \A k \in DOMAIN timers : timers[k].block \in DOMAIN timer
  /\ DOMAIN timer \subseteq Block
  /\ at \in {"loop", "idle", "sleeping", "napping", "woken", "ended"}

\* A timer that is started and neither stopped nor started again is called over and
\* over, a delay is called.
TimerFires ==
  \A t \in Timer :
    []<>(\/ held[t] = NoBlock
         \/ IF t \in Repeating THEN running = held[t] ELSE calls[held[t]] > 0)
=============================================================================
