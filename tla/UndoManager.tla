---------------------------- MODULE UndoManager ----------------------------
(***************************************************************************)
(* The undo history of the editor and the thread that saves its newest     *)
(* state (qt/editor/undomanager), from one start of the program to the     *)
(* next: a crash loses everything but the files.                           *)
(*                                                                         *)
(* The saver writes a state into one file and copies that file over the    *)
(* one which the next start offers to restore.  A file is a sequence of    *)
(* blocks; the text of a state has a length of its own.  The copy          *)
(* (filesystem::copyFile) opens the file as it is, writes the blocks it    *)
(* has in place, one after the other, and leaves the rest; the stream that *)
(* was written is closed after the copy.  Each call on a file may fail,    *)
(* which the saver does not look at.                                       *)
(***************************************************************************)
EXTENDS Integers, SequencesExt

CONSTANTS
  State,     \* the states of the network
  Blank,     \* the empty network
  Broken,    \* what a load that fails leaves
  Length,    \* the length of the text of each state
  Buffered,  \* the states whose text stays in the buffer of a stream until it is closed
  MaxBuffer, \* bound on the length of the history
  MaxToSave, \* bound on the length of toSave_
  NoState    \* no state

ASSUME UndoAssumption ==
  /\ {Blank, Broken} \subseteq State /\ NoState \notin State
  /\ Length \in [State -> Nat \ {0}] /\ Buffered \subseteq State
  /\ {MaxBuffer, MaxToSave} \subseteq Nat \ {0}

VARIABLES
  network,  \* the state of the network
  dirty,    \* dirty_
  buffer,   \* undoBuffer_
  head,     \* head_, counted from 1 and 0 when it is -1
  toSave,   \* toSave_
  saver,    \* where the thread is, and the state it saves
  quit,     \* quit_
  tmp,      \* the file autosave.inv.tmp
  file,     \* the file autosave.inv
  saved,    \* the state that was copied to the end last, unless something was written since
  failed,   \* whether a call on a file has failed since the program was started
  program   \* whether the program runs, stops or is off

history == <<network, dirty, buffer, head>>
files == <<tmp, file, saved>>
undoVars == <<history, toSave, saver, quit, files, failed, program>>

Text(s) == [i \in 1 .. Length[s] |-> s]

\* The thread keeps the state it took last, the number of blocks it has copied, and
\* whether the stream it writes to is good.
Saver ==
  [at : {"check", "checked", "waiting", "write", "copy", "copying", "close", "end"},
   state : State \cup {NoState}, done : Nat, good : BOOLEAN]
Thread(at) == [at |-> at, state |-> NoState, done |-> 0, good |-> TRUE]

\* The thread holds the mutex from the check until it waits.
MutexFree == saver.at # "checked"

Awake == IF saver.at = "waiting" THEN [saver EXCEPT !.at = "check"] ELSE saver

-----------------------------------------------------------------------------
(***************************************************************************)
(* The history.                                                            *)
(***************************************************************************)

\* save of AutoSaver.
Save(s) ==
  /\ MutexFree /\ Len(toSave) < MaxToSave
  /\ toSave' = Append(toSave, s)
  /\ saver' = Awake

\* pushState when the history is this one: a state like the current one is not
\* pushed, another one replaces all that come after the head.
Push(s, states, at) ==
  /\ dirty' = FALSE
  /\ IF at > 0 /\ states[IF at > 0 THEN at ELSE 1] = s
     THEN buffer' = states /\ head' = at /\ UNCHANGED <<toSave, saver>>
     ELSE /\ at < MaxBuffer
          /\ buffer' = Append(SubSeq(states, 1, at), s)
          /\ head' = at + 1
          /\ Save(s)

\* An observer of the network.
Change ==
  /\ program = "runs"
  /\ network' \in State \ {network}
  /\ dirty' = TRUE
  /\ UNCHANGED <<buffer, head, toSave, saver, quit, files, failed, program>>

\* pushStateIfDirty; when the network cannot be serialized nothing happens.
PushStateIfDirty ==
  /\ program = "runs" /\ dirty
  /\ Push(network, buffer, head)
  /\ UNCHANGED <<network, quit, files, failed, program>>

\* load of the workspace manager, whose errors are handled by logging them.
Load(s) == network' \in {s, Broken}

\* Mutant: the state before is loaded and the head stays.
undoStateStaying ==
  /\ program = "runs" /\ head > 1
  /\ Load(buffer[head - 1])
  /\ dirty' = FALSE
  /\ UNCHANGED <<buffer, head, toSave, saver, quit, files, failed, program>>

undoState ==
  /\ program = "runs" /\ head > 1
  /\ head' = head - 1
  /\ Load(buffer[head'])
  /\ dirty' = FALSE
  /\ UNCHANGED <<buffer, toSave, saver, quit, files, failed, program>>

redoState ==
  /\ program = "runs" /\ head < Len(buffer)
  /\ head' = head + 1
  /\ Load(buffer[head'])
  /\ dirty' = FALSE
  /\ UNCHANGED <<buffer, toSave, saver, quit, files, failed, program>>

\* The callbacks of the workspace manager: the history starts anew, with no state
\* when the network that was loaded cannot be serialized.
Clear ==
  /\ program = "runs"
  /\ network' = Blank
  /\ Push(Blank, <<>>, 0)
  /\ UNCHANGED <<quit, files, failed, program>>

\* Mutant: the history is cleared and the head stays.
LoadWorkspaceKeeping ==
  /\ program = "runs"
  /\ \E s \in State : Load(s)
  /\ \/ Push(network', <<>>, 0)
     \/ buffer' = <<>> /\ dirty' = TRUE /\ UNCHANGED <<head, toSave, saver>>
  /\ UNCHANGED <<quit, files, failed, program>>

LoadWorkspace ==
  /\ program = "runs"
  /\ \E s \in State : Load(s)
  /\ \/ Push(network', <<>>, 0)
     \/ buffer' = <<>> /\ head' = 0 /\ dirty' = TRUE /\ UNCHANGED <<toSave, saver>>
  /\ UNCHANGED <<quit, files, failed, program>>

-----------------------------------------------------------------------------
(***************************************************************************)
(* The saver.                                                              *)
(***************************************************************************)

\* It takes a state; the others are dropped.
Take(s) ==
  /\ saver' = [Thread("write") EXCEPT !.state = s]
  /\ toSave' = <<>>

\* Mutant: the first of the states is taken.
CheckOldest ==
  /\ saver.at = "check"
  /\ IF quit THEN saver' = [saver EXCEPT !.at = "end"] /\ UNCHANGED toSave
     ELSE IF toSave = <<>> THEN saver' = [saver EXCEPT !.at = "checked"] /\ UNCHANGED toSave
     ELSE Take(Head(toSave))
  /\ UNCHANGED <<history, quit, files, failed, program>>

Check ==
  /\ saver.at = "check"
  /\ IF quit THEN saver' = [saver EXCEPT !.at = "end"] /\ UNCHANGED toSave
     ELSE IF toSave = <<>> THEN saver' = [saver EXCEPT !.at = "checked"] /\ UNCHANGED toSave
     ELSE Take(Last(toSave))
  /\ UNCHANGED <<history, quit, files, failed, program>>

Wait ==
  /\ saver.at = "checked"
  /\ saver' = [saver EXCEPT !.at = "waiting"]
  /\ UNCHANGED <<history, toSave, quit, files, failed, program>>

\* The stream is opened, which empties the file, and written; the file may not be opened,
\* and not everything may be written.
Write ==
  /\ saver.at = "write"
  /\ \/ /\ tmp' = IF saver.state \in Buffered THEN <<>> ELSE Text(saver.state)
        /\ saver' = [saver EXCEPT !.at = "copy"]
        /\ UNCHANGED failed
     \/ /\ tmp' \in {tmp} \cup {SubSeq(Text(saver.state), 1, n) : n \in 0 .. Length[saver.state] - 1}
        /\ saver' = [saver EXCEPT !.at = "copy", !.good = FALSE]
        /\ failed' = TRUE
  /\ UNCHANGED <<history, toSave, quit, file, saved, program>>

\* copyFile: one of the two files may not be opened.
OpenFiles ==
  /\ saver.at = "copy"
  /\ \/ saver' = [saver EXCEPT !.at = "copying"] /\ UNCHANGED failed
     \/ saver' = [saver EXCEPT !.at = "close"] /\ failed' = TRUE
  /\ UNCHANGED <<history, toSave, quit, files, program>>

\* Mutant: the blocks are written behind what is in the file.
AppendBlock ==
  /\ saver.at = "copying" /\ saver.done < Len(tmp)
  /\ file' = Append(file, tmp[saver.done + 1])
  /\ saver' = [saver EXCEPT !.done = @ + 1]
  /\ saved' = NoState
  /\ UNCHANGED <<history, toSave, quit, tmp, failed, program>>

CopyBlock ==
  /\ saver.at = "copying" /\ saver.done < Len(tmp)
  /\ LET n == saver.done + 1
     IN file' = IF n \in DOMAIN file THEN [file EXCEPT ![n] = tmp[n]] ELSE Append(file, tmp[n])
  /\ saver' = [saver EXCEPT !.done = @ + 1]
  /\ saved' = NoState
  /\ UNCHANGED <<history, toSave, quit, tmp, failed, program>>

\* Everything was sent, or sendfile returns before.
Copied ==
  /\ saver.at = "copying"
  /\ saver' = [saver EXCEPT !.at = "close"]
  /\ \/ /\ saver.done = Len(tmp)
        /\ saved' = IF tmp = Text(saver.state) THEN saver.state ELSE saved
        /\ UNCHANGED failed
     \/ saver.done < Len(tmp) /\ failed' = TRUE /\ UNCHANGED saved
  /\ UNCHANGED <<history, toSave, quit, tmp, file, program>>

\* The end of the stream.
Close ==
  /\ saver.at = "close"
  /\ tmp' = IF saver.good THEN Text(saver.state) ELSE tmp
  /\ saver' = [Thread("check") EXCEPT !.state = saver.state]
  /\ UNCHANGED <<history, toSave, quit, file, saved, failed, program>>

-----------------------------------------------------------------------------
(***************************************************************************)
(* The program.                                                            *)
(***************************************************************************)

UndoInit ==
  /\ program = "off"
  /\ network = Blank /\ dirty = TRUE /\ buffer = <<>> /\ head = 0
  /\ toSave = <<>> /\ saver = Thread("end") /\ quit = FALSE
  /\ tmp = <<>> /\ file = <<>> /\ saved = NoState /\ failed = FALSE

Off ==
  /\ program' = "off"
  /\ network' = Blank /\ dirty' = TRUE /\ buffer' = <<>> /\ head' = 0
  /\ toSave' = <<>> /\ saver' = Thread("end") /\ quit' = FALSE /\ failed' = FALSE

\* The constructors, which push the first state.
Start ==
  /\ program = "off" /\ program' = "runs"
  /\ network' = Blank /\ dirty' = FALSE
  /\ buffer' = <<Blank>> /\ head' = 1
  /\ toSave' = <<Blank>> /\ saver' = Thread("check")
  /\ quit' = FALSE /\ failed' = FALSE
  /\ UNCHANGED files

\* The destructor of AutoSaver stores quit_, then notifies and joins; before it the
\* window has cleared the workspace.
Quit ==
  /\ program = "runs" /\ network = Blank
  /\ program' = "stops" /\ quit' = TRUE
  /\ UNCHANGED <<history, toSave, saver, files, failed>>

NotifySaver ==
  /\ program = "stops"
  /\ program' = "joins"
  /\ saver' = Awake
  /\ UNCHANGED <<history, toSave, quit, files, failed>>

Join ==
  /\ program = "joins" /\ saver.at = "end"
  /\ Off
  /\ UNCHANGED files

\* The process ends, wherever its threads are, and nothing but the files is left.
Crash ==
  /\ program # "off"
  /\ Off
  /\ UNCHANGED files

SaverStep == Check \/ Wait \/ Write \/ OpenFiles \/ CopyBlock \/ Copied \/ Close

UndoNext ==
  \/ Change \/ PushStateIfDirty \/ undoState \/ redoState \/ Clear \/ LoadWorkspace
  \/ SaverStep
  \/ Start \/ Quit \/ NotifySaver \/ Join \/ Crash

UndoSpec == UndoInit /\ [][UndoNext]_undoVars

\* The thread goes on.
FairUndoSpec == UndoSpec /\ WF_undoVars(SaverStep)

-----------------------------------------------------------------------------

UndoRunning == program = "runs"

UndoTypeOK ==
  /\ network \in State /\ dirty \in BOOLEAN
  /\ buffer \in Seq(State) /\ head \in 0 .. Len(buffer)
  /\ toSave \in Seq(State) /\ saver \in Saver /\ quit \in BOOLEAN
  /\ failed \in BOOLEAN /\ program \in {"runs", "stops", "joins", "off"}

\* As long as nothing has changed since, the state the history is at is the state
\* of the network, unless a load has failed.
HeadIsCurrent ==
  UndoRunning /\ ~ dirty /\ network # Broken => buffer[head] = network

\* The state the thread takes next, or the one it took last.
Newest == IF toSave # <<>> THEN Last(toSave) ELSE saver.state

\* While the program runs the last state of the history is what the saver works on, has
\* saved or takes next, however often it was busy when a state was pushed.
PushedIsSaved == UndoRunning /\ buffer # <<>> => Newest = Last(buffer)

\* A saver with nothing to do has copied the last state of the history to the end.
IdleIsSaved ==
  UndoRunning /\ buffer # <<>> /\ Last(buffer) \notin Buffered /\ ~ failed
    /\ toSave = <<>> /\ saver.at \in {"check", "checked", "waiting"}
    => saved = Last(buffer)

\* A state that was copied to the end stays at the head of the file until another one is
\* written over it: over restarts, crashes in any other place, and calls that fail.
SavedIsKept == saved # NoState => IsPrefix(Text(saved), file)

\* The network, the history, the saver and the file agree on the newest state.
HistoryIsSaved == HeadIsCurrent /\ PushedIsSaved /\ IdleIsSaved /\ SavedIsKept

\* The file is the state that was copied last.
FileIsState == saved # NoState => file = Text(saved)

\* The newest state gets into the file, unless another one follows, a call on a file fails
\* or the program ends.
NewestIsSaved ==
  \A s \in State \ Buffered :
    toSave # <<>> /\ Last(toSave) = s ~>
      IsPrefix(Text(s), file) \/ failed \/ ~ UndoRunning \/ (toSave # <<>> /\ Last(toSave) # s)
=============================================================================
