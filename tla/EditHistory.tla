---------------------------- MODULE EditHistory ----------------------------
(***************************************************************************)
(* Undo and redo of the image editor, static/js/galleryEditor.js, with the *)
(* history panel (editor/history-panel.js) and the transform session       *)
(* (editor/tools/transform-session.js).                                    *)
(*                                                                         *)
(* A canvas stands for all layers with their pixels.  A step is one event  *)
(* handler.  A brush stroke, a filter with its live preview and a          *)
(* transform are sessions of several handlers: each saves the state once   *)
(* and then changes the canvas again and again.                            *)
(***************************************************************************)
EXTENDS Integers, Sequences

CONSTANTS
  Canvas,
  MaxHistory,   \* MAX_HISTORY
  HistOps       \* "keys": undo, redo and another picture during a prompt;
                \* "oom": the snapshot fails when a prompt opens

ASSUME HistAssumption == MaxHistory \in Nat \ {0}

VARIABLES
  canvas,      \* what the layers hold
  undoStack, redoStack,
  session,     \* idle, stroke, filter (_filterSliderPrompt) or transform
  before       \* the pixels a filter restores (snap), or a transform began with

histVars == <<canvas, undoStack, redoStack, session, before>>

Prompts == {"filter", "transform"}

HistInit ==
  /\ canvas \in Canvas
  /\ undoStack = <<>> /\ redoStack = <<>>
  /\ session = "idle" /\ before = canvas

\* Mutant of Capped: the cap is looked at one entry late.
CappedLate(s) == IF Len(s) > MaxHistory + 1 THEN Tail(s) ELSE s

Capped(s) == IF Len(s) > MaxHistory THEN Tail(s) ELSE s

\* Mutant of SaveState: what lay ahead stays ahead.
SaveStateKeepsRedo(next) ==
  /\ undoStack' = Capped(Append(undoStack, canvas))
  /\ UNCHANGED redoStack

\* _saveState on the way into session next.  A snapshot that throws costs the
\* step and nothing else.
SaveState(next) ==
  \/ undoStack' = Capped(Append(undoStack, canvas)) /\ redoStack' = <<>>
  \/ /\ next \notin Prompts \/ "oom" \in HistOps
     /\ UNCHANGED <<undoStack, redoStack>>

\* An import, a paste, a merge, a mask, a crop: saved, then done.
Edit(v) ==
  /\ session = "idle"
  /\ SaveState("idle")
  /\ canvas' = v
  /\ UNCHANGED <<session, before>>

StrokeStart ==
  /\ session = "idle"
  /\ SaveState("stroke")
  /\ session' = "stroke"
  /\ UNCHANGED <<canvas, before>>

StrokeEnd ==
  /\ session = "stroke"
  /\ session' = "idle"
  /\ UNCHANGED <<canvas, undoStack, redoStack, before>>

\* _applyLiveBlur up to its prompt, which previews at once; startTransform.
PromptOpen(kind, v) ==
  /\ session = "idle"
  /\ SaveState(kind)
  /\ session' = kind
  /\ before' = canvas
  /\ canvas' = v

\* The next pixels of a stroke, another preview of a filter or a transform.
Draw(v) ==
  /\ session # "idle"
  /\ canvas' = v
  /\ UNCHANGED <<undoStack, redoStack, session, before>>

\* Apply renders once more; confirmTransform keeps what is there.
Apply(v) ==
  /\ session \in Prompts
  /\ session = "transform" => v = canvas
  /\ canvas' = v
  /\ session' = "idle"
  /\ UNCHANGED <<undoStack, redoStack, before>>

\* Cancel or Escape in a filter: the pixels come back and the saved step goes.
FilterCancel ==
  /\ session = "filter"
  /\ canvas' = before
  /\ undoStack' = SubSeq(undoStack, 1, Len(undoStack) - 1)
  /\ session' = "idle"
  /\ UNCHANGED <<redoStack, before>>

\* What k steps from one stack push onto the other: the canvas c, then all but
\* the last entry taken.
Passed(from, c, to, k) ==
  to \o [i \in 1 .. k |-> IF i = 1 THEN c ELSE from[Len(from) - i + 2]]

\* k times undo, all in one handler.
Back(k) ==
  LET n == Len(undoStack) IN
  /\ canvas' = undoStack[n - k + 1]
  /\ undoStack' = SubSeq(undoStack, 1, n - k)
  /\ redoStack' = Passed(undoStack, canvas, redoStack, k)

\* k times redo.
Forth(k) ==
  LET n == Len(redoStack) IN
  /\ canvas' = redoStack[n - k + 1]
  /\ redoStack' = SubSeq(redoStack, 1, n - k)
  /\ undoStack' = Passed(redoStack, canvas, undoStack, k)

\* cancelTransform undoes, as Ctrl+Z would.
TransformCancel ==
  /\ session = "transform"
  /\ IF undoStack = <<>> THEN UNCHANGED <<canvas, undoStack, redoStack>> ELSE Back(1)
  /\ session' = "idle"
  /\ UNCHANGED before

KeysReach == session \notin Prompts \/ "keys" \in HistOps

\* Undo, redo, jumpToHistory: a prompt does not stop the keyboard.
Jump ==
  /\ KeysReach
  /\ \/ \E k \in 1 .. Len(undoStack) : Back(k)
     \/ \E k \in 1 .. Len(redoStack) : Forth(k)
  /\ UNCHANGED <<session, before>>

\* openEditor, with or without closeEditor before: the stacks are emptied.
\* Neither ends a prompt that is open.
OpenPicture(v) ==
  /\ KeysReach
  /\ undoStack' = <<>> /\ redoStack' = <<>>
  /\ canvas' = v
  /\ session' = IF session = "stroke" THEN "idle" ELSE session
  /\ UNCHANGED before

HistNext ==
  \/ \E v \in Canvas : \/ Edit(v) \/ Draw(v) \/ Apply(v) \/ OpenPicture(v)
                       \/ \E kind \in Prompts : PromptOpen(kind, v)
  \/ StrokeStart \/ StrokeEnd \/ FilterCancel \/ TransformCancel \/ Jump

HistSpec == HistInit /\ [][HistNext]_histVars

-----------------------------------------------------------------------------
HistTypeOK ==
  /\ canvas \in Canvas /\ before \in Canvas
  /\ undoStack \in Seq(Canvas) /\ redoStack \in Seq(Canvas)
  /\ session \in {"idle", "stroke"} \union Prompts

\* The two stacks together never keep more than MAX_HISTORY canvases, although
\* only _saveState looks at the cap and redo pushes onto the undo stack freely.
HistoryBounded == Len(undoStack) + Len(redoStack) <= MaxHistory

\* The line the buttons move along: the undo stack, the canvas, the redo stack
\* from its top down.
LineOf(u, c, r) ==
  [i \in 1 .. Len(u) + 1 + Len(r) |->
     IF i <= Len(u) THEN u[i]
     ELSE IF i = Len(u) + 1 THEN c
     ELSE r[Len(r) + Len(u) + 2 - i]]

Line == INSTANCE UndoLine WITH line <- LineOf(undoStack, canvas, redoStack),
                         at <- Len(undoStack) + 1

\* The stacks implement the line: undo, redo and the history panel lose,
\* reorder and alter nothing, a change drops only what lay ahead, and a
\* cancelled filter takes back its own step and no other.
KeepsTheLine == Line!LineSpec
=============================================================================
