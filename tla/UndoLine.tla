------------------------------ MODULE UndoLine ------------------------------
(***************************************************************************)
(* What the undo and redo buttons of the image editor promise              *)
(* (static/js/galleryEditor.js, static/js/editor/history-panel.js).        *)
(*                                                                         *)
(* The canvas the user sees is one entry of a line of canvases.  Undo,     *)
(* redo and a click in the history panel move along the line and touch no  *)
(* entry.  A change appends an entry and drops what lay ahead; beyond      *)
(* MaxHistory steps the oldest entry goes.  Only the entry on screen can   *)
(* be changed in place, and only the last one taken back.                  *)
(***************************************************************************)
EXTENDS Integers, Sequences

CONSTANTS Canvas, MaxHistory

VARIABLES line, at
lineVars == <<line, at>>

LineInit == \E v \in Canvas : line = <<v>> /\ at = 1

Window(s) == IF Len(s) > MaxHistory + 1 THEN Tail(s) ELSE s

\* A change, with what it replaces kept one step back.
Do(v) ==
  /\ line' = Window(Append(SubSeq(line, 1, at), v))
  /\ at' = Len(line')

\* A change without a step of its own: more of a stroke, another preview.
Amend(v) == line' = [line EXCEPT ![at] = v] /\ UNCHANGED at

\* Undo, redo, a click in the history panel.
Move(i) == i \in 1 .. Len(line) /\ at' = i /\ UNCHANGED line

\* The last change is taken back as if it had not been made.
Retract ==
  /\ at = Len(line) /\ at > 1
  /\ line' = SubSeq(line, 1, at - 1)
  /\ at' = at - 1

\* Another picture.
Fresh(v) == line' = <<v>> /\ at' = 1

LineNext ==
  \/ \E v \in Canvas : Do(v) \/ Amend(v) \/ Fresh(v)
  \/ \E i \in 1 .. Len(line) : Move(i)
  \/ Retract

LineSpec == LineInit /\ [][LineNext]_lineVars
=============================================================================
