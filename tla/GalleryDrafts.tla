--------------------------- MODULE GalleryDrafts ---------------------------
(***************************************************************************)
(* The server-side drafts of the image editor: static/js/galleryEditor.js  *)
(* against routes/editor_draft_routes.py.                                  *)
(*                                                                         *)
(* A picture is a gallery photo or a blank canvas.  What the layers hold   *)
(* is the set of pictures that were drawn into them and the revision the   *)
(* last edit gave them.  A step is one event handler, one callback of a    *)
(* request or a step of the server.  The user works in one tab; another    *)
(* device may delete a draft.                                              *)
(***************************************************************************)
EXTENDS Integers, FiniteSets, FiniteSetsExt

CONSTANTS
  Pics, Photos, NoPic,
  Drafts, NoDraft,   \* the ids of the rows, a bound on how many are created
  MaxEdits,          \* bounds the edits of a picture
  DraftOps           \* what the user does not wait for: "close", "switch",
                     \* "export"; "strokes": a stroke outlasts the debounce

ASSUME DraftAssumption ==
  /\ Photos \subseteq Pics /\ NoPic \notin Pics /\ NoDraft \notin Drafts
  /\ MaxEdits \in Nat

VARIABLES
  galOpen,    \* state.editorOpen
  pic,        \* state.imageId; for a blank canvas, which one it is
  layers,     \* state.layers
  draftId,    \* state.draftId
  timer,      \* state.persistTimer is set
  save,       \* state.persistInFlight, with the request under way
  dirty,      \* state.persistDirty
  lookups,    \* the chains openEditor started
  upload,     \* the copy exportToGallery is saving
  clears,     \* DELETEs of _clearDraftServer on their way
  rows,       \* the editor_drafts table
  lastRev,    \* history: the last revision of each picture
  safe,       \* history: the last one saved as a copy or thrown away
  failed      \* history: pictures whose last save failed

clientVars == <<galOpen, pic, layers, draftId, timer, save, dirty, lookups, upload>>
userRevs   == <<lastRev, safe, failed>>
draftVars  == <<clientVars, clears, rows, userRevs>>

Bare == [parts |-> {}, rev |-> 0]
Contents == [parts : SUBSET Pics, rev : 0 .. MaxEdits]
NoSave == [id |-> NoDraft, for |-> NoPic, has |-> Bare, answer |-> "none", made |-> NoDraft]
NoUpload == [of |-> NoPic, rev |-> 0]
NoRow == [for |-> NoPic, has |-> Bare, live |-> FALSE]

GalInit ==
  /\ galOpen = FALSE /\ pic = NoPic /\ layers = Bare
  /\ draftId = NoDraft /\ timer = FALSE /\ save = NoSave /\ dirty = FALSE
  /\ lookups = {} /\ upload = NoUpload /\ clears = {}
  /\ rows = [d \in Drafts |-> NoRow]
  /\ lastRev = [p \in Pics |-> 0] /\ safe = lastRev /\ failed = {}

\* _schedulePersist, on the state it runs in.
Scheduled == timer \/ (galOpen /\ layers.parts # {})

\* _persistDraft.
Persist ==
  CASE ~galOpen \/ layers.parts = {} -> UNCHANGED <<save, dirty>>
    [] galOpen /\ layers.parts # {} /\ save # NoSave -> dirty' = TRUE /\ UNCHANGED save
    [] OTHER -> /\ save' = [NoSave EXCEPT !.id = draftId, !.for = pic, !.has = layers]
                /\ UNCHANGED dirty

Patient(op) == op \notin DraftOps
Settled ==
  ~timer /\ save = NoSave /\ lookups = {} /\ upload = NoUpload /\ clears = {}

-----------------------------------------------------------------------------
\* The user.

NextEdit ==
  /\ galOpen /\ layers.parts # {} /\ pic # NoPic
  /\ lastRev[pic] < MaxEdits
  /\ Patient("export") => upload = NoUpload
  /\ lastRev' = [lastRev EXCEPT ![pic] = @ + 1]
  /\ layers' = [layers EXCEPT !.rev = lastRev[pic] + 1]
  /\ UNCHANGED <<galOpen, pic, draftId, save, dirty, lookups, upload, clears, rows,
                 safe, failed>>

\* _saveState and the change it announces.
EditPicture == NextEdit /\ timer' = TRUE

\* The rest of a stroke; undo and redo: nothing is scheduled.
Redraw ==
  /\ timer \/ ~Patient("strokes")
  /\ NextEdit
  /\ UNCHANGED timer

\* Mutant of Opening: the draft of the picture before stays.
OpeningKeepsDraft(p, d, chain) ==
  /\ Patient("switch") => Settled
  /\ galOpen' = TRUE /\ pic' = p /\ layers' = Bare
  /\ timer' = FALSE /\ dirty' = FALSE
  /\ lookups' = lookups \union {chain}
  /\ UNCHANGED <<draftId, save, upload, clears, rows, userRevs>>

\* openEditor, over whatever was open.
Opening(p, d, chain) ==
  /\ Patient("switch") => Settled
  /\ galOpen' = TRUE /\ pic' = p /\ layers' = Bare /\ draftId' = d
  /\ timer' = FALSE /\ dirty' = FALSE
  /\ lookups' = lookups \union {chain}
  /\ UNCHANGED <<save, upload, clears, rows, userRevs>>

Chain(stage, p, d) == [stage |-> stage, of |-> p, draft |-> d]

OpenPhoto(p) == Opening(p, NoDraft, Chain("list", p, NoDraft))

\* A blank canvas; a preset is a size prompt answered at once.
NewCanvas(p) ==
  /\ lastRev[p] = 0 /\ pic # p /\ \A d \in Drafts : rows[d].for # p
  /\ Opening(p, NoDraft, Chain("size", p, NoDraft))

\* A card of the landing, which shows while no editor is open.
ResumeDraft(d) ==
  /\ ~galOpen /\ rows[d] # NoRow
  /\ Opening(NoPic, d, Chain("resume", NoPic, d))

\* closeEditor behind the user's confirmation: the draft id stays.
CloseEditor ==
  /\ galOpen
  /\ Patient("close") => save = NoSave
  /\ Persist
  /\ timer' = FALSE /\ galOpen' = FALSE /\ layers' = Bare /\ pic' = NoPic
  /\ UNCHANGED <<draftId, lookups, upload, clears, rows, userRevs>>

\* exportToGallery up to its upload.
ExportToGallery ==
  /\ galOpen /\ layers.parts # {} /\ pic # NoPic /\ upload = NoUpload
  /\ upload' = [of |-> pic, rev |-> layers.rev]
  /\ UNCHANGED <<galOpen, pic, layers, draftId, timer, save, dirty, lookups, clears,
                 rows, userRevs>>

\* Mutant of Exported: a draft is deleted also when there is none.
ExportedUnguarded ==
  /\ upload # NoUpload
  /\ upload' = NoUpload
  /\ safe' = [safe EXCEPT ![upload.of] = Max({@, upload.rev})]
  /\ clears' = clears \union {draftId}
  /\ draftId' = NoDraft
  /\ UNCHANGED <<galOpen, pic, layers, timer, save, dirty, lookups, rows, lastRev, failed>>

\* The upload is answered: whatever draft is open then goes.
Exported ==
  /\ upload # NoUpload
  /\ upload' = NoUpload
  /\ safe' = [safe EXCEPT ![upload.of] = Max({@, upload.rev})]
  /\ clears' = clears \union ({draftId} \ {NoDraft})
  /\ draftId' = NoDraft
  /\ UNCHANGED <<galOpen, pic, layers, timer, save, dirty, lookups, rows, lastRev, failed>>

ExportFails ==
  /\ upload # NoUpload
  /\ upload' = NoUpload
  /\ UNCHANGED <<galOpen, pic, layers, draftId, timer, save, dirty, lookups, clears,
                 rows, userRevs>>

-----------------------------------------------------------------------------
\* Saving.

TimerFires ==
  /\ timer /\ timer' = FALSE
  /\ Persist
  /\ UNCHANGED <<galOpen, pic, layers, draftId, lookups, upload, clears, rows, userRevs>>

\* POST creates a row; PUT overwrites a live one and leaves its picture.
SaveArrives ==
  /\ save # NoSave /\ save.answer = "none"
  /\ \/ /\ save.id = NoDraft
        /\ \E d \in Drafts : rows[d] = NoRow
        /\ LET d == CHOOSE d \in Drafts : rows[d] = NoRow IN
             /\ rows' = [rows EXCEPT ![d] =
                           [for |-> save.for, has |-> save.has, live |-> TRUE]]
             /\ save' = [save EXCEPT !.answer = "ok", !.made = d]
     \/ /\ save.id # NoDraft /\ rows[save.id].live
        /\ rows' = [rows EXCEPT ![save.id].has = save.has]
        /\ save' = [save EXCEPT !.answer = "ok"]
     \/ /\ save.id # NoDraft /\ ~rows[save.id].live
        /\ save' = [save EXCEPT !.answer = "gone"]
        /\ UNCHANGED rows
  /\ UNCHANGED <<galOpen, pic, layers, draftId, timer, dirty, lookups, upload, clears,
                 userRevs>>

\* Mutant of SaveEnds: the mark of a save that came meanwhile is dropped.
SaveEndsForgets == save' = NoSave /\ dirty' = FALSE /\ UNCHANGED timer

\* The end of persistInFlight.
SaveEnds ==
  /\ save' = NoSave /\ dirty' = FALSE
  /\ timer' = IF dirty THEN Scheduled ELSE timer

\* Mutant of SaveAnswered: the id of a new row is not kept.
SaveAnsweredNoId ==
  /\ save.answer = "ok"
  /\ failed' = IF save.has.rev = lastRev[save.for] THEN failed \ {save.for} ELSE failed
  /\ SaveEnds
  /\ UNCHANGED <<galOpen, pic, layers, draftId, lookups, upload, clears, rows, lastRev, safe>>

SaveAnswered ==
  /\ save.answer = "ok"
  /\ draftId' = IF save.made # NoDraft THEN save.made ELSE draftId
  /\ failed' = IF save.has.rev = lastRev[save.for] THEN failed \ {save.for} ELSE failed
  /\ SaveEnds
  /\ UNCHANGED <<galOpen, pic, layers, lookups, upload, clears, rows, lastRev, safe>>

\* 404: the row was deleted meanwhile, the same body creates another.
SaveGone ==
  /\ save.answer = "gone"
  /\ draftId' = NoDraft
  /\ save' = [save EXCEPT !.id = NoDraft, !.answer = "none"]
  /\ UNCHANGED <<galOpen, pic, layers, timer, dirty, lookups, upload, clears, rows,
                 userRevs>>

\* The request does not get through; nothing retries it.
SaveFails ==
  /\ save # NoSave /\ save.answer = "none"
  /\ failed' = failed \union {save.for}
  /\ SaveEnds
  /\ UNCHANGED <<galOpen, pic, layers, draftId, lookups, upload, clears, rows, lastRev, safe>>

ClearArrives(d) ==
  /\ d \in clears
  /\ clears' = clears \ {d}
  /\ rows' = [rows EXCEPT ![d].live = FALSE]
  /\ UNCHANGED <<clientVars, userRevs>>

\* Another device deletes the draft.
DeleteElsewhere(d) ==
  /\ rows[d].live
  /\ rows' = [rows EXCEPT ![d].live = FALSE]
  /\ safe' = [safe EXCEPT ![rows[d].for] = Max({@, rows[d].has.rev})]
  /\ UNCHANGED <<clientVars, clears, lastRev, failed>>

-----------------------------------------------------------------------------
\* What openEditor started.  The callbacks ask only whether an editor is open.

\* The canvas size: closeEditor refuses without a confirmation of its own, so a
\* cancelled prompt leaves an editor without layers.
SizeAnswered(l, given) ==
  /\ l \in lookups /\ l.stage = "size"
  /\ lookups' = lookups \ {l}
  /\ IF given
     THEN /\ layers' = [layers EXCEPT !.parts = @ \union {l.of}]
          /\ timer' = TRUE
     ELSE UNCHANGED <<layers, timer>>
  /\ UNCHANGED <<galOpen, pic, draftId, save, dirty, upload, clears, rows, userRevs>>

\* The chain goes on to the source image.
SourceNext(l) ==
  lookups' = (lookups \ {l}) \union
             (IF galOpen THEN {Chain("image", l.of, NoDraft)} ELSE {})

\* The list of drafts: any draft of this picture, the order is not modelled.
Listed(l) ==
  /\ l \in lookups /\ l.stage = "list"
  /\ \/ \E d \in Drafts :
          /\ rows[d].live /\ rows[d].for = l.of
          /\ lookups' = (lookups \ {l}) \union {Chain("load", l.of, d)}
     \/ /\ \A d \in Drafts : ~(rows[d].live /\ rows[d].for = l.of)
        /\ SourceNext(l)
  /\ UNCHANGED <<galOpen, pic, layers, draftId, timer, save, dirty, upload, clears, rows,
                 userRevs>>

\* _loadDraftById and _restoreDraft.
Loaded(l) ==
  /\ l \in lookups /\ l.stage \in {"load", "resume"}
  /\ IF galOpen /\ rows[l.draft].live
     THEN /\ draftId' = l.draft
          /\ layers' = rows[l.draft].has
          /\ pic' = IF l.stage = "resume" THEN rows[l.draft].for ELSE pic
     ELSE UNCHANGED <<draftId, layers, pic>>
  /\ IF l.stage = "load" /\ ~rows[l.draft].live
     THEN SourceNext(l) ELSE lookups' = lookups \ {l}
  /\ UNCHANGED <<galOpen, timer, save, dirty, upload, clears, rows, userRevs>>

\* The image joins whatever layers there are; on an error closeEditor refuses.
SourceLoaded(l, decoded) ==
  /\ l \in lookups /\ l.stage = "image"
  /\ lookups' = lookups \ {l}
  /\ IF galOpen /\ decoded
     THEN /\ layers' = [layers EXCEPT !.parts = @ \union {l.of}]
          /\ timer' = TRUE
     ELSE UNCHANGED <<layers, timer>>
  /\ UNCHANGED <<galOpen, pic, draftId, save, dirty, upload, clears, rows, userRevs>>

-----------------------------------------------------------------------------
GalNext ==
  \/ EditPicture \/ Redraw \/ CloseEditor \/ ExportToGallery \/ Exported \/ ExportFails
  \/ TimerFires \/ SaveArrives \/ SaveAnswered \/ SaveGone \/ SaveFails
  \/ \E p \in Photos : OpenPhoto(p)
  \/ \E p \in Pics \ Photos : NewCanvas(p)
  \/ \E d \in Drafts : ResumeDraft(d) \/ ClearArrives(d) \/ DeleteElsewhere(d)
  \/ \E l \in lookups : \/ Listed(l) \/ Loaded(l)
                        \/ \E yes \in BOOLEAN : SizeAnswered(l, yes) \/ SourceLoaded(l, yes)

GalSpec == GalInit /\ [][GalNext]_draftVars

-----------------------------------------------------------------------------
DraftTypeOK ==
  /\ galOpen \in BOOLEAN /\ timer \in BOOLEAN /\ dirty \in BOOLEAN
  /\ pic \in Pics \union {NoPic}
  /\ layers \in Contents
  /\ draftId \in Drafts \union {NoDraft}
  /\ save \in [id : Drafts \union {NoDraft}, for : Pics \union {NoPic}, has : Contents,
               answer : {"none", "ok", "gone"}, made : Drafts \union {NoDraft}]
  /\ lookups \subseteq [stage : {"size", "list", "load", "resume", "image"},
                        of : Pics \union {NoPic}, draft : Drafts \union {NoDraft}]
  /\ upload \in [of : Pics \union {NoPic}, rev : 0 .. MaxEdits]
  /\ clears \subseteq Drafts
  /\ rows \in [Drafts -> [for : Pics \union {NoPic}, has : Contents, live : BOOLEAN]]
  /\ lastRev \in [Pics -> 0 .. MaxEdits] /\ safe \in [Pics -> 0 .. MaxEdits]
  /\ failed \subseteq Pics

\* A draft never holds layers of another picture than the one it was made for:
\* state.draftId, the layers and the image change hands in one openEditor.
OwnDraft == \A d \in Drafts : rows[d].has.parts \subseteq {rows[d].for}

\* Once no save is due or under way, the last edit of every picture is in a
\* draft, unless it was saved as a copy, thrown away or its save failed.
WorkIsKept ==
  ~timer /\ save = NoSave /\ upload = NoUpload =>
    \A p \in Pics \ failed :
      \/ safe[p] = lastRev[p]
      \/ \E d \in Drafts : rows[d].live /\ rows[d].for = p /\ rows[d].has.rev = lastRev[p]

\* One draft per picture, not counting one about to be deleted: the lookup by
\* source_image_id finds the draft the editor writes to.
OneDraft ==
  \A p \in Pics :
    Cardinality({d \in Drafts \ clears : rows[d].live /\ rows[d].for = p}) <= 1
=============================================================================
