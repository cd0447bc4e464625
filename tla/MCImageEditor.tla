--------------------------- MODULE MCImageEditor ---------------------------
(***************************************************************************)
(* The undo history and the drafts of the image editor, checked side by    *)
(* side.  They share no state, so interleaving them would only multiply    *)
(* the states: the first state settles which of them runs.                 *)
(***************************************************************************)
EXTENDS EditHistory, GalleryDrafts

VARIABLE focus
editorVars == <<focus, histVars, draftVars>>

EditorInit ==
  /\ focus \in {"history", "drafts"}
  /\ HistInit /\ GalInit
  /\ focus = "drafts" => canvas = "v"

EditorNext ==
  /\ UNCHANGED focus
  /\ \/ focus = "history" /\ HistNext /\ UNCHANGED draftVars
     \/ focus = "drafts" /\ GalNext /\ UNCHANGED histVars

EditorSpec == EditorInit /\ [][EditorNext]_editorVars

\* Every variable of the two machines keeps its type.
EditorTypeOK == HistTypeOK /\ DraftTypeOK
=============================================================================
