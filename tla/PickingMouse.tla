---------------------------- MODULE PickingMouse ----------------------------
(***************************************************************************)
(* How mouse events become picking events                                  *)
(* (interaction/pickingcontroller, pickingcontrollermousestate).  A state  *)
(* machine remembers the id under the pointer and whether a button is      *)
(* down.  A transition sends picking events to the mapper that holds the   *)
(* id at that moment.  The callbacks they run, and whatever else happens   *)
(* between two mouse events, may change the mappers of Picking; and the    *)
(* ids come from an image that was drawn before, so any id can turn up.    *)
(***************************************************************************)
EXTENDS Picking, Integers

CONSTANTS
  Button, \* the mouse buttons
  PixelId \* the ids that the image can have where the pointer comes to

ASSUME PixelAssumption == PixelId \subseteq Nat

VARIABLES
  fsm,     \* the state of the machine
  active,  \* active_globalId
  sends,   \* the actions of a transition that are still to be run
  item,    \* the button of the event they are for
  buttons, \* the buttons that are down
  entered, \* how often each mapper was entered more than it was left
  down,    \* the buttons each mapper was told are pressed and not yet released
  stale    \* the mappers that changed since the machine was idle

mouseVars == <<fsm, active, sends, item, buttons, entered, down, stale>>
allVars == <<vars, mouseVars>>

Send(press, hover) == [op |-> "send", press |-> press, hover |-> hover]
Uid(id) == [op |-> "uid", id |-> id]

\* Mutants: a transition that forgets to say that the pointer has left, and one that
\* forgets the release.
LeaveEntered(press) == <<Send(press, "None")>>
LeavePressed(press) == <<Send("None", "Exit")>>

\* What a transition sends when the pointer comes to an id, leaves it and stays.
Enter(press, id) == <<Uid(id), Send(press, "Enter")>>
Leave(press) == <<Send(press, "Exit")>>
Stay(press, hover) == <<Send(press, hover)>>

\* The transition table: for an event with this id, after which these buttons are down.
Table(id, up) ==
  LET same == id = active
      diff == id # active /\ id # 0
      zero == id = 0
      row(from, event, guard, do, to) ==
        [from |-> from, event |-> event, guard |-> guard, do |-> do, to |-> to]
  IN {row("idle", "Move", ~ zero /\ up, Enter("None", id), "hasId"),
      row("idle", "Press", ~ zero, Enter("Press", id), "pressing"),
      row("idle", "Release", ~ zero, Enter("None", id), "hasId"),
      row("hasId", "Move", same, Stay("None", "Move"), "hasId"),
      row("hasId", "Move", zero, Leave("None") \o <<Uid(id)>>, "idle"),
      row("hasId", "Move", diff, Leave("None") \o Enter("None", id), "hasId"),
      row("hasId", "Press", same, Stay("Press", "None"), "pressing"),
      row("hasId", "Press", diff, Leave("None") \o Enter("Press", id), "pressing"),
      row("pressing", "Move", TRUE, Stay("Move", "Move"), "pressing"),
      row("pressing", "Release", same /\ up, Stay("Release", "None"), "hasId"),
      row("pressing", "Release", zero /\ up, Leave("Release") \o <<Uid(id)>>, "idle"),
      row("pressing", "Release", diff /\ up, Leave("Release") \o Enter("None", id), "hasId"),
      row("pressing", "Release", ~ up, Stay("Release", "None"), "pressing"),
      row("pressing", "Press", TRUE, Stay("Press", "None"), "pressing"),
      row("hasId", "DblClk", same, Stay("DoubleClick", "None"), "hasId"),
      row("pressing", "DblClk", TRUE, Stay("DoubleClick", "None"), "pressing"),
      row("hasId", "Wheel", same, Stay("None", "None"), "hasId"),
      row("pressing", "Wheel", TRUE, Stay("None", "None"), "pressing")}

\* What the window system reports, and the buttons that are down then.
Input(event, b) ==
  /\ IF event \in {"Press", "DblClk"} THEN b \notin buttons ELSE b \in buttons \/ event # "Release"
  /\ buttons' = IF event \in {"Press", "DblClk"} THEN buttons \cup {b}
                ELSE IF event = "Release" THEN buttons \ {b} ELSE buttons

Quiet == Returned /\ sends = <<>>

MachineInit ==
  /\ fsm = "idle" /\ active = 0 /\ sends = <<>> /\ buttons = {}
  /\ item = CHOOSE b \in Button : TRUE
  /\ entered = [m \in Mapper |-> 0] /\ down = [m \in Mapper |-> {}] /\ stale = {}

MouseInit == Init /\ MachineInit

\* What a mapper is known to have got, once the machine is idle again.
Forget ==
  /\ stale' = IF fsm = "idle" THEN {} ELSE stale
  /\ entered' = [m \in Mapper |-> IF fsm = "idle" /\ m \in stale THEN 0 ELSE entered[m]]
  /\ down' = [m \in Mapper |-> IF fsm = "idle" /\ m \in stale THEN {} ELSE down[m]]

\* propagateEvent, process_event: an event without a transition is ignored.
MouseEvent(event, b, id) ==
  /\ Quiet /\ Input(event, b)
  /\ LET rows == {r \in Table(id, buttons' = {}) :
                    r.from = fsm /\ r.event = event /\ r.guard}
     IN IF rows = {} THEN UNCHANGED <<fsm, sends>>
        ELSE \E r \in rows : fsm' = r.to /\ sends' = r.do
  /\ item' = b
  /\ Forget
  /\ UNCHANGED <<vars, active>>

\* While picking is switched off the machine sees nothing.
MouseEventDropped(event, b) ==
  /\ Quiet /\ Input(event, b)
  /\ stale' = Mapper
  /\ UNCHANGED <<vars, fsm, active, sends, item, entered, down>>

UpdateId ==
  /\ Returned /\ sends # <<>> /\ sends[1].op = "uid"
  /\ active' = sends[1].id /\ sends' = Tail(sends)
  /\ UNCHANGED <<vars, fsm, item, buttons, entered, down, stale>>

\* Who gets an event: the mapper that holds the id, if it is enabled.
Receiver(id) ==
  {m \in alive : \E k \in Lookup(id) : actions[k].start = held[m] /\ actions[k].enabled}

SendEvent ==
  /\ Returned /\ sends # <<>> /\ sends[1].op = "send"
  /\ LET to == Receiver(active)
         hover == sends[1].hover
         press == sends[1].press
     IN /\ entered' = [m \in Mapper |->
                         IF m \notin to THEN entered[m]
                         ELSE IF hover = "Enter" THEN entered[m] + 1
                         ELSE IF hover = "Exit" THEN entered[m] - 1 ELSE entered[m]]
        /\ down' = [m \in Mapper |->
                      IF m \notin to THEN down[m]
                      ELSE IF press = "Press" THEN down[m] \cup {item}
                      ELSE IF press = "Release" THEN down[m] \ {item} ELSE down[m]]
  /\ sends' = Tail(sends)
  /\ UNCHANGED <<vars, fsm, active, item, buttons, stale>>

\* A mapper is made, changed or destroyed, by a callback too.
Disturbs(ms) ==
  /\ stale' = stale \cup ms
  /\ entered' = [m \in Mapper |-> IF m \in ms THEN 0 ELSE entered[m]]
  /\ down' = [m \in Mapper |-> IF m \in ms THEN {} ELSE down[m]]
  /\ UNCHANGED <<fsm, active, sends, item, buttons>>

MapperStep(m) ==
  /\ Disturbs({m})
  /\ \/ \E size \in Size : Create(m, size) \/ Resize(m, size)
     \/ \E enabled \in BOOLEAN : SetEnabled(m, enabled)
     \/ DestroyMapper(m)

MappersMove(m, t) == Disturbs({m, t}) /\ MoveAssign(m, t)

CallGoesOn == (Trim \/ Resized \/ EnableResized \/ DestroyTemporary) /\ UNCHANGED mouseVars

MouseNext ==
  \/ \E b \in Button : \E event \in {"Move", "Press", "Release", "DblClk", "Wheel"} :
       \/ \E id \in PixelId : MouseEvent(event, b, id)
       \/ MouseEventDropped(event, b)
  \/ UpdateId \/ SendEvent
  \/ \E m \in Mapper : MapperStep(m) \/ \E t \in Mapper : MappersMove(m, t)
  \/ CallGoesOn

MouseSpec == MouseInit /\ [][MouseNext]_allVars

-----------------------------------------------------------------------------

\* The mapper under the pointer, as far as the machine knows.
Under == IF fsm = "idle" THEN {} ELSE Receiver(active)

\* Between two events a mapper was entered once and not left if it is under the
\* pointer, and else was left as often as it was entered.
HoverFollowsPointer ==
  Quiet => \A m \in Mapper \ stale : entered[m] = IF m \in Under THEN 1 ELSE 0

\* A mapper that was told a button is pressed is told when it is released.
NoButtonSticks ==
  Quiet => \A m \in Mapper \ stale :
             down[m] \subseteq IF fsm = "pressing" /\ m \in Under THEN buttons ELSE {}
=============================================================================
