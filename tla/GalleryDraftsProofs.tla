------------------------ MODULE GalleryDraftsProofs ------------------------
(***************************************************************************)
(* What is proved of the drafts of the image editor, for any number of     *)
(* pictures, drafts and edits.  Which draft belongs to which picture needs *)
(* only that no other picture is opened while answers are out ("switch"),  *)
(* invariant DraftInv; that every edit is saved needs that the user waits  *)
(* for what is under way (DraftOps = {}), invariant WorkInv.  There is one *)
(* part per thing that can be under way: the chain openEditor started, the *)
(* picture being edited, the save and the copy.                            *)
(***************************************************************************)
EXTENDS MCImageEditor, EditHistoryProofs, FiniteSetTheorems

-----------------------------------------------------------------------------
(* The invariant. *)

Editing == galOpen /\ layers.parts # {}

\* The draft the editor will write to next, and the one the save writes to.
Owner   == IF save.made # NoDraft THEN save.made ELSE draftId
Written == IF save.made # NoDraft THEN save.made ELSE save.id

\* d is a draft of p that nobody is deleting.
LiveFor(d, p) == rows[d].live /\ rows[d].for = p /\ d \notin clears

Table ==
  /\ OwnDraft
  /\ \A d \in Drafts : \/ rows[d] = NoRow
                       \/ rows[d].for \in Pics /\ rows[d].has.rev <= lastRev[rows[d].for]
  /\ \A d \in clears : rows[d] # NoRow
  /\ draftId \notin clears
  /\ \A p \in Pics : safe[p] <= lastRev[p]
  /\ \A p \in Pics, d, e \in Drafts : LiveFor(d, p) /\ LiveFor(e, p) => d = e

\* What a chain knows of its picture, by its stage.
ChainKnows(l) ==
  /\ l.stage = "size" => l.of \in Pics /\ \A d \in Drafts : rows[d].for # l.of
  /\ l.stage \in {"list", "load", "image"} => l.of \in Pics
  /\ l.stage = "load" => /\ l.draft \in Drafts /\ rows[l.draft].for = l.of
                         /\ \A d \in Drafts : LiveFor(d, l.of) => d = l.draft
  /\ l.stage = "image" => \A d \in Drafts : ~LiveFor(d, l.of)
  /\ l.stage = "resume" => l.draft \in Drafts /\ rows[l.draft] # NoRow

\* One chain at a time, and nothing else beside it.
Chained ==
  \A l \in lookups :
    /\ lookups = {l} /\ layers = Bare
    /\ ~timer /\ ~dirty /\ save = NoSave /\ upload = NoUpload /\ clears = {}
    /\ ChainKnows(l)
    /\ galOpen => IF l.stage = "resume" THEN pic = NoPic /\ draftId = l.draft
                                        ELSE pic = l.of /\ draftId = NoDraft

Edited ==
  Editing =>
    /\ pic \in Pics /\ layers.parts \subseteq {pic} /\ layers.rev <= lastRev[pic]
    /\ draftId # NoDraft => rows[draftId].for = pic
    /\ \A d \in Drafts : LiveFor(d, pic) => d = Owner /\ rows[d].has.rev <= layers.rev

Saving ==
  save # NoSave =>
    /\ save.for \in Pics /\ save.has.parts \subseteq {save.for}
    /\ save.has.rev <= lastRev[save.for]
    /\ galOpen => pic = save.for /\ save.has.rev <= layers.rev
    /\ save.id # NoDraft => rows[save.id].for = save.for
    /\ save.id = NoDraft => draftId = NoDraft
    /\ save.made # NoDraft => /\ save.id = NoDraft /\ save.answer = "ok"
                              /\ save.made \notin clears /\ rows[save.made].for = save.for
    /\ save.answer = "gone" => save.id # NoDraft /\ ~rows[save.id].live
    /\ save.answer = "ok" => Written # NoDraft
    /\ \A d \in Drafts : LiveFor(d, save.for) =>
                           d = Written /\ rows[d].has.rev <= save.has.rev

Uploaded ==
  upload # NoUpload =>
    /\ upload.of \in Pics /\ upload.rev <= lastRev[upload.of]
    /\ galOpen => pic = upload.of
    /\ draftId # NoDraft => rows[draftId].for = upload.of
    /\ save # NoSave => save.for = upload.of

DraftInv == DraftTypeOK /\ Table /\ Chained /\ Edited /\ Saving /\ Uploaded

\* The copy on its way is of the last edit.
Latest ==
  upload # NoUpload =>
    /\ galOpen => layers.rev <= upload.rev
    /\ save # NoSave => save.has.rev <= upload.rev
    /\ \A d \in Drafts : LiveFor(d, upload.of) => rows[d].has.rev <= upload.rev

\* The save on its way goes to a draft that lives, unless a copy made it vain.
Counts ==
  save # NoSave =>
    \/ save.has.rev <= safe[save.for]
    \/ /\ save.id \notin clears
       /\ save.answer = "ok" => /\ LiveFor(Written, save.for)
                                /\ rows[Written].has.rev = save.has.rev

\* The last edit of p is due to be saved, is being saved, or is kept.
Kept(p) ==
  \/ safe[p] = lastRev[p]
  \/ \E d \in Drafts : LiveFor(d, p) /\ rows[d].has.rev = lastRev[p]
  \/ Editing /\ pic = p /\ layers.rev = lastRev[p] /\ (timer \/ dirty)
  \/ /\ save # NoSave /\ save.for = p /\ save.has.rev = lastRev[p]
     /\ save.answer \in {"none", "gone"}

WorkInv ==
  /\ Latest /\ Counts
  /\ dirty => save # NoSave
  /\ \A p \in Pics \ failed : Kept(p)

\* What a step keeps: always the one, and the other when the user waits.
Preserved == DraftInv' /\ (DraftOps = {} /\ WorkInv => WorkInv')

-----------------------------------------------------------------------------
(* What the steps are made of. *)

LEMMA MaxOfTwo ==
  ASSUME NEW a \in Nat, NEW b \in Nat
  PROVE  Max({a, b}) \in {a, b} /\ Max({a, b}) >= a /\ Max({a, b}) >= b
<1>1. \E x \in {a, b} : \A y \in {a, b} : x >= y
  <2>1. CASE a >= b
    BY <2>1
  <2>2. CASE b >= a
    BY <2>2
  <2> QED
    BY <2>1, <2>2
<1> QED
  BY <1>1 DEF Max

\* Types, without the sets of records.
LEMMA DraftTypes ==
  ASSUME DraftTypeOK
  PROVE  /\ layers.parts \subseteq Pics /\ layers.rev \in Nat /\ layers.rev <= MaxEdits
         /\ draftId \in Drafts \union {NoDraft} /\ pic \in Pics \union {NoPic}
         /\ save.id \in Drafts \union {NoDraft} /\ save.made \in Drafts \union {NoDraft}
         /\ save.for \in Pics \union {NoPic} /\ save.has \in Contents
         /\ save.has.rev \in Nat /\ save.answer \in {"none", "ok", "gone"}
         /\ upload.of \in Pics \union {NoPic} /\ upload.rev \in Nat
         /\ \A d \in Drafts : /\ rows[d] \in [for : Pics \union {NoPic}, has : Contents, live : BOOLEAN]
                              /\ rows[d].for \in Pics \union {NoPic} /\ rows[d].has \in Contents
                              /\ rows[d].has.rev \in Nat /\ rows[d].live \in BOOLEAN
         /\ \A p \in Pics : lastRev[p] \in Nat /\ safe[p] \in Nat
  BY DraftAssumption DEF DraftTypeOK, Contents

-----------------------------------------------------------------------------
(* The user. *)

LEMMA EditStep ==
  ASSUME DraftInv, EditPicture \/ Redraw
  PROVE  Preserved
<1> USE DraftAssumption
<1>0. NextEdit /\ timer' \in BOOLEAN
  BY DEF EditPicture, Redraw, DraftInv, DraftTypeOK
<1>1. /\ DraftTypeOK /\ Table /\ Chained /\ Edited /\ Saving /\ Uploaded
      /\ Editing /\ pic \in Pics /\ lookups = {}
  BY <1>0 DEF DraftInv, Chained, Bare, NextEdit, Editing, DraftTypeOK
<1>2. /\ lastRev[pic] \in Nat /\ lastRev[pic] + 1 \in 0 .. MaxEdits
      /\ lastRev' = [lastRev EXCEPT ![pic] = lastRev[pic] + 1]
      /\ layers' = [parts |-> layers.parts, rev |-> lastRev[pic] + 1]
      /\ UNCHANGED <<galOpen, pic, draftId, save, dirty, lookups, upload, clears, rows,
                     safe, failed>>
  BY <1>0, <1>1 DEF NextEdit, DraftTypeOK, Contents
<1>3. DraftTypeOK'
  BY <1>0, <1>1, <1>2 DEF DraftTypeOK, Contents
<1>4. \A p \in Pics : lastRev'[p] \in Nat /\ lastRev[p] \in Nat /\ lastRev'[p] >= lastRev[p]
  BY <1>1, <1>2, DraftTypes DEF DraftTypeOK
<1>5. Table'
  BY <1>1, <1>2, <1>4, DraftTypes DEF Table, OwnDraft, LiveFor
<1>6. Chained'
  BY <1>1, <1>2 DEF Chained
<1>7. Edited'
  BY <1>1, <1>2, <1>4, DraftTypes DEF Edited, Editing, LiveFor, Owner, DraftTypeOK
<1>8. Saving'
  BY <1>1, <1>2, <1>4, DraftTypes DEF Saving, LiveFor, Written, DraftTypeOK
<1>9. Uploaded'
  BY <1>1, <1>2, <1>4, DraftTypes DEF Uploaded, DraftTypeOK
<1>10. ASSUME DraftOps = {}, WorkInv PROVE WorkInv'
  <2>1. timer' = TRUE /\ upload = NoUpload
    BY <1>0, <1>10 DEF EditPicture, Redraw, NextEdit, Patient
  <2>2. Latest' /\ Counts'
    BY <1>2, <1>10, <2>1 DEF WorkInv, Latest, Counts, LiveFor, Written
  <2>3. Kept(pic)'
    BY <1>1, <1>2, <2>1 DEF Kept, Editing, DraftTypeOK
  <2>4. ASSUME NEW p \in Pics \ failed, p # pic PROVE Kept(p)'
    <3>1. lastRev'[p] = lastRev[p] /\ Kept(p)
      BY <1>1, <1>2, <1>10, <2>4 DEF WorkInv, DraftTypeOK
    <3> QED
      BY <1>2, <2>4, <3>1 DEF Kept, LiveFor
  <2> QED
    BY <1>2, <1>10, <2>2, <2>3, <2>4 DEF WorkInv
<1> QED
  BY <1>3, <1>5, <1>6, <1>7, <1>8, <1>9, <1>10 DEF DraftInv, Preserved

\* openEditor waits for nothing to be under way, and drops what was open.
LEMMA OpeningStep ==
  ASSUME DraftInv, "switch" \notin DraftOps, NEW p \in Pics \union {NoPic}, NEW d \in Drafts \union {NoDraft},
         NEW l \in [stage : {"size", "list", "resume"}, of : Pics \union {NoPic},
                    draft : Drafts \union {NoDraft}],
         Opening(p, d, l), ChainKnows(l),
         IF l.stage = "resume" THEN p = NoPic /\ d = l.draft ELSE p = l.of /\ d = NoDraft
  PROVE  Preserved
<1> USE DraftAssumption
<1>1. /\ DraftTypeOK /\ Table /\ Chained /\ Edited /\ Saving /\ Uploaded
      /\ Settled /\ lookups' = {l} /\ galOpen' = TRUE /\ pic' = p /\ layers' = Bare /\ draftId' = d
      /\ timer' = FALSE /\ dirty' = FALSE /\ clears = {} /\ save = NoSave /\ upload = NoUpload
      /\ UNCHANGED <<save, upload, clears, rows, lastRev, safe, failed>>
  BY DEF DraftInv, Opening, Settled, Patient, userRevs
<1>2. DraftTypeOK'
  <2>1. lookups' \subseteq [stage : {"size", "list", "load", "resume", "image"},
                            of : Pics \union {NoPic}, draft : Drafts \union {NoDraft}]
    BY <1>1
  <2>2. layers' \in Contents
    BY <1>1 DEF Bare, Contents
  <2> QED
    BY <1>1, <2>1, <2>2 DEF DraftTypeOK
<1>3. Table'
  BY <1>1 DEF Table, OwnDraft, LiveFor
<1>4. ChainKnows(l)'
  BY <1>1 DEF ChainKnows, LiveFor
<1>5. Chained'
  BY <1>1, <1>4 DEF Chained
<1>6. Edited' /\ Saving' /\ Uploaded'
  BY <1>1 DEF Edited, Saving, Uploaded, Editing, Bare
<1>7. ASSUME DraftOps = {}, WorkInv PROVE WorkInv'
  <2>1. Latest' /\ Counts'
    BY <1>1 DEF Latest, Counts
  <2>2. ASSUME NEW q \in Pics \ failed PROVE Kept(q)'
    <3>1. Kept(q) /\ ~timer /\ ~dirty
      BY <1>1, <1>7 DEF WorkInv, Settled
    <3> QED
      BY <1>1, <3>1 DEF Kept, LiveFor
  <2> QED
    BY <1>1, <2>1, <2>2 DEF WorkInv
<1> QED
  BY <1>2, <1>3, <1>5, <1>6, <1>7 DEF DraftInv, Preserved

LEMMA OpenSteps ==
  ASSUME DraftInv, "switch" \notin DraftOps,
         \/ \E p \in Photos : OpenPhoto(p)
         \/ \E p \in Pics \ Photos : NewCanvas(p)
         \/ \E d \in Drafts : ResumeDraft(d)
  PROVE  Preserved
<1> USE DraftAssumption
<1>1. ASSUME NEW p \in Photos, OpenPhoto(p) PROVE Preserved
  <2>1. ChainKnows(Chain("list", p, NoDraft))
    BY DEF ChainKnows, Chain
  <2> QED
    BY <1>1, <2>1, OpeningStep DEF OpenPhoto, Chain
<1>2. ASSUME NEW p \in Pics \ Photos, NewCanvas(p) PROVE Preserved
  <2>1. ChainKnows(Chain("size", p, NoDraft))
    BY <1>2 DEF ChainKnows, Chain, NewCanvas
  <2> QED
    BY <1>2, <2>1, OpeningStep DEF NewCanvas, Chain
<1>3. ASSUME NEW d \in Drafts, ResumeDraft(d) PROVE Preserved
  <2>1. ChainKnows(Chain("resume", NoPic, d))
    BY <1>3 DEF ChainKnows, Chain, ResumeDraft
  <2> QED
    BY <1>3, <2>1, OpeningStep DEF ResumeDraft, Chain
<1> QED
  BY <1>1, <1>2, <1>3

\* What _persistDraft does when no save is under way.
LEMMA PersistStarts ==
  ASSUME DraftInv, Persist, save = NoSave, Editing
  PROVE  /\ save' = [id |-> draftId, for |-> pic, has |-> layers, answer |-> "none",
                     made |-> NoDraft]
         /\ save' # NoSave /\ UNCHANGED dirty /\ pic \in Pics
<1>1. pic \in Pics
  BY DEF DraftInv, Edited
<1>2. save' = [id |-> draftId, for |-> pic, has |-> layers, answer |-> "none",
               made |-> NoDraft] /\ UNCHANGED dirty
  BY DEF Persist, Editing, NoSave
<1> QED
  BY <1>1, <1>2, DraftAssumption DEF NoSave

\* A save that starts with what the editor holds, which may close with it.
LEMMA PersistStep ==
  ASSUME DraftInv, Persist, save = NoSave, Editing, timer' = FALSE,
         \/ UNCHANGED <<galOpen, pic, layers>>
         \/ galOpen' = FALSE /\ layers' = Bare /\ pic' = NoPic,
         UNCHANGED <<draftId, lookups, upload, clears, rows, userRevs>>
  PROVE  Preserved
<1> USE DraftAssumption DEF userRevs
<1>1. /\ DraftTypeOK /\ Table /\ Chained /\ Edited /\ Saving /\ Uploaded
      /\ pic \in Pics /\ lookups = {}
  BY PersistStarts DEF DraftInv, Chained, Bare, Editing, DraftTypeOK
<1>2. /\ save' = [id |-> draftId, for |-> pic, has |-> layers, answer |-> "none",
                  made |-> NoDraft]
      /\ save' # NoSave /\ UNCHANGED dirty
  BY PersistStarts
<1>3. DraftTypeOK'
  <2>1. layers \in Contents /\ Bare \in Contents /\ draftId \in Drafts \union {NoDraft}
    BY <1>1 DEF Bare, Contents, DraftTypeOK
  <2>2. save' \in [id : Drafts \union {NoDraft}, for : Pics \union {NoPic}, has : Contents,
                   answer : {"none", "ok", "gone"}, made : Drafts \union {NoDraft}]
    BY <1>1, <1>2, <2>1
  <2> QED
    BY <1>1, <1>2, <2>1, <2>2 DEF DraftTypeOK
<1>4. Table'
  BY <1>1 DEF Table, OwnDraft, LiveFor
<1>5. Chained'
  BY <1>1 DEF Chained
<1>6. \A d \in Drafts : LiveFor(d, pic) => d = draftId /\ rows[d].has.rev <= layers.rev
  BY <1>1 DEF Edited, Owner, NoSave
<1>7. Edited'
  BY <1>1, <1>2, <1>6 DEF Edited, Editing, Owner, LiveFor, Bare
<1>8. Saving'
  <2>1. /\ save'.for = pic /\ save'.has = layers /\ save'.id = draftId
        /\ save'.answer = "none" /\ save'.made = NoDraft
    BY <1>2
  <2>2. /\ pic \in Pics /\ layers.parts \subseteq {pic} /\ layers.rev <= lastRev[pic]
        /\ draftId # NoDraft => rows[draftId].for = pic
        /\ draftId \notin clears /\ layers.rev \in Nat
    BY <1>1, DraftTypes DEF Edited, Table
  <2>3. galOpen' => pic' = pic /\ layers' = layers
    OBVIOUS
  <2>4. \A d \in Drafts : LiveFor(d, save.for)' => d = Written' /\ rows[d].has.rev <= layers.rev
    BY <1>6, <2>1 DEF LiveFor, Written
  <2> QED
    BY <2>1, <2>2, <2>3, <2>4 DEF Saving
<1>9. Uploaded'
  <2>1. save'.for = pic
    BY <1>2
  <2> QED
    BY <1>1, <2>1 DEF Uploaded, Editing
<1>10. ASSUME DraftOps = {}, WorkInv PROVE WorkInv'
  <2>1. save'.for = pic /\ save'.has = layers /\ save'.id = draftId /\ save'.answer = "none"
    BY <1>2
  <2>2. Latest'
    BY <1>10, <2>1 DEF WorkInv, Latest, Editing, LiveFor
  <2>3. Counts'
    BY <1>1, <2>1 DEF Counts, Table
  <2>4. ASSUME NEW p \in Pics \ failed PROVE Kept(p)'
    <3>1. Kept(p)
      BY <1>10 DEF WorkInv
    <3>2. CASE Editing /\ pic = p /\ layers.rev = lastRev[p]
      BY <1>2, <2>1, <3>2 DEF Kept
    <3> QED
      BY <1>2, <3>1, <3>2 DEF Kept, LiveFor
  <2> QED
    BY <1>2, <2>2, <2>3, <2>4 DEF WorkInv
<1> QED
  BY <1>3, <1>4, <1>5, <1>7, <1>8, <1>9, <1>10 DEF DraftInv, Preserved

LEMMA CloseStep ==
  ASSUME DraftInv, CloseEditor PROVE Preserved
<1> USE DraftAssumption DEF userRevs
<1>1. /\ DraftTypeOK /\ Table /\ Chained /\ Edited /\ Saving /\ Uploaded
      /\ Persist /\ timer' = FALSE /\ galOpen' = FALSE /\ layers' = Bare /\ pic' = NoPic
      /\ UNCHANGED <<draftId, lookups, upload, clears, rows, userRevs>>
  BY DEF CloseEditor, DraftInv
<1>2. CASE Editing /\ save = NoSave
  BY <1>1, <1>2, PersistStep
<1>3. CASE ~(Editing /\ save = NoSave)
  <2>1. UNCHANGED save /\ dirty' \in BOOLEAN /\ (~Editing => UNCHANGED dirty)
    BY <1>1, <1>3 DEF Persist, Editing, DraftTypeOK
  <2>2. DraftTypeOK'
    <3>1. Bare \in Contents
      BY DEF Bare, Contents
    <3> QED
      BY <1>1, <2>1, <3>1 DEF DraftTypeOK
  <2>3. Table'
    BY <1>1, <2>1 DEF Table, OwnDraft, LiveFor
  <2>4. Chained'
    <3>1. Editing => lookups = {}
      BY <1>1 DEF Chained, Editing, Bare, DraftTypeOK
    <3> QED
      BY <1>1, <2>1, <3>1 DEF Chained, ChainKnows, LiveFor
  <2>5. Edited' /\ Saving' /\ Uploaded'
    BY <1>1, <2>1 DEF Edited, Editing, Saving, Uploaded, LiveFor, Written
  <2>6. ASSUME DraftOps = {}, WorkInv PROVE WorkInv'
    <3>1. save = NoSave /\ ~Editing
      BY <1>3, <2>6 DEF CloseEditor, Patient
    <3>2. Latest' /\ Counts'
      BY <1>1, <2>1, <2>6, <3>1 DEF WorkInv, Latest, Counts, LiveFor
    <3> QED
      BY <1>1, <2>1, <2>6, <3>1, <3>2 DEF WorkInv, Kept, LiveFor
  <2> QED
    BY <2>2, <2>3, <2>4, <2>5, <2>6 DEF DraftInv, Preserved
<1> QED
  BY <1>2, <1>3

LEMMA TimerStep ==
  ASSUME DraftInv, TimerFires PROVE Preserved
<1> USE DraftAssumption DEF userRevs
<1>1. /\ DraftTypeOK /\ Table /\ Chained /\ Edited /\ Saving /\ Uploaded
      /\ timer /\ Persist /\ timer' = FALSE
      /\ UNCHANGED <<galOpen, pic, layers, draftId, lookups, upload, clears, rows, userRevs>>
  BY DEF TimerFires, DraftInv
<1>2. CASE Editing /\ save = NoSave
  BY <1>1, <1>2, PersistStep
<1>3. CASE ~(Editing /\ save = NoSave)
  <2>1. UNCHANGED save /\ dirty' \in BOOLEAN
        /\ (Editing => dirty' /\ save # NoSave) /\ (~Editing => UNCHANGED dirty)
    BY <1>1, <1>3 DEF Persist, Editing, DraftTypeOK
  <2>2. DraftTypeOK'
    BY <1>1, <2>1 DEF DraftTypeOK
  <2>3. Table'
    BY <1>1, <2>1 DEF Table, OwnDraft, LiveFor
  <2>4. lookups = {}
    BY <1>1 DEF Chained, DraftTypeOK
  <2>5. Chained'
    BY <1>1, <2>4 DEF Chained
  <2>6. Edited' /\ Saving' /\ Uploaded'
    BY <1>1, <2>1 DEF Edited, Editing, Saving, Uploaded, LiveFor, Owner, Written
  <2>7. ASSUME DraftOps = {}, WorkInv PROVE WorkInv'
    <3>1. Latest' /\ Counts'
      BY <1>1, <2>1, <2>7 DEF WorkInv, Latest, Counts, LiveFor, Written
    <3>2. ASSUME NEW p \in Pics \ failed PROVE Kept(p)'
      <4>1. Kept(p)
        BY <2>7 DEF WorkInv
      <4> QED
        BY <1>1, <2>1, <4>1 DEF Kept, LiveFor, Editing
    <3> QED
      BY <1>1, <2>1, <2>7, <3>1, <3>2 DEF WorkInv
  <2> QED
    BY <2>2, <2>3, <2>5, <2>6, <2>7 DEF DraftInv, Preserved
<1> QED
  BY <1>2, <1>3

\* exportToGallery: it may end badly, or drop the draft of what it saved.
LEMMA ExportSteps ==
  ASSUME DraftInv, ExportToGallery \/ ExportFails PROVE Preserved
<1> USE DraftAssumption DEF userRevs
<1>1. /\ DraftTypeOK /\ Table /\ Chained /\ Edited /\ Saving /\ Uploaded
  BY DEF DraftInv
<1>2. UNCHANGED <<galOpen, pic, layers, draftId, timer, save, dirty, lookups, clears, rows,
                  userRevs>>
  BY DEF ExportToGallery, ExportFails
<1>3. Table' /\ Edited' /\ Saving'
  <2>1. Table'
    BY <1>1, <1>2 DEF Table, OwnDraft, LiveFor
  <2>2. Edited' /\ Saving'
    BY <1>1, <1>2 DEF Edited, Saving, Editing, LiveFor, Owner, Written
  <2> QED
    BY <2>1, <2>2
<1>0. ASSUME WorkInv, Latest' PROVE WorkInv'
  <2>1. Counts'
    BY <1>2, <1>0 DEF WorkInv, Counts, LiveFor, Written
  <2> QED
    BY <1>2, <1>0, <2>1 DEF WorkInv, Kept, LiveFor, Editing
<1>4. CASE ExportFails
  <2>1. upload' = NoUpload
    BY <1>4 DEF ExportFails
  <2>2. DraftTypeOK'
    BY <1>1, <1>2, <2>1 DEF DraftTypeOK, NoUpload
  <2>3. Chained' /\ Uploaded'
    BY <1>1, <1>2, <2>1 DEF Chained, ChainKnows, LiveFor, Uploaded
  <2> QED
    BY <1>0, <1>3, <2>1, <2>2, <2>3 DEF DraftInv, Preserved, Latest
<1>5. CASE ExportToGallery
  <2>1. Editing /\ upload' = [of |-> pic, rev |-> layers.rev] /\ lookups = {}
    BY <1>1, <1>5 DEF ExportToGallery, Editing, Chained, Bare, DraftTypeOK
  <2>2. DraftTypeOK'
    BY <1>1, <1>2, <2>1 DEF DraftTypeOK, Contents
  <2>3. Chained'
    BY <1>2, <2>1 DEF Chained
  <2>4. Uploaded'
    BY <1>1, <1>2, <2>1, DraftTypes DEF Uploaded, Edited, Editing, Saving
  <2>5. Latest'
    BY <1>1, <1>2, <2>1, DraftTypes DEF Latest, Edited, Editing, Saving, LiveFor
  <2> QED
    BY <1>0, <1>3, <2>2, <2>3, <2>4, <2>5 DEF DraftInv, Preserved
<1> QED
  BY <1>4, <1>5

LEMMA ExportedStep ==
  ASSUME DraftInv, Exported PROVE Preserved
<1> USE DraftAssumption
<1>1. /\ DraftTypeOK /\ Table /\ Chained /\ Edited /\ Saving /\ Uploaded
      /\ upload # NoUpload /\ upload' = NoUpload /\ lookups = {} /\ upload.of \in Pics
      /\ safe' = [safe EXCEPT ![upload.of] = Max({safe[upload.of], upload.rev})]
      /\ clears' = clears \union ({draftId} \ {NoDraft}) /\ draftId' = NoDraft
      /\ UNCHANGED <<galOpen, pic, layers, timer, save, dirty, lookups, rows, lastRev, failed>>
  BY DEF Exported, DraftInv, Chained, Uploaded, DraftTypeOK
<1>2. /\ safe'[upload.of] \in Nat
      /\ safe'[upload.of] <= lastRev[upload.of] /\ safe'[upload.of] <= MaxEdits
      /\ safe'[upload.of] >= upload.rev /\ safe'[upload.of] >= safe[upload.of]
      /\ \A p \in Pics \ {upload.of} : safe'[p] = safe[p]
  BY <1>1, MaxOfTwo, DraftTypes DEF Uploaded, Table, DraftTypeOK
<1>3. DraftTypeOK'
  BY <1>1, <1>2 DEF DraftTypeOK, NoUpload
<1>4. ASSUME NEW d \in Drafts, NEW p, LiveFor(d, p)' PROVE LiveFor(d, p) /\ d # draftId
  BY <1>1, <1>4 DEF LiveFor
<1>5. Table'
  <2>1. \A d \in clears' : rows[d] # NoRow
    <3>1. draftId # NoDraft => rows[draftId].for \in Pics
      BY <1>1 DEF Uploaded
    <3>2. NoRow.for \notin Pics
      BY DEF NoRow
    <3> QED
      BY <1>1, <3>1, <3>2 DEF Table
  <2>2. \A p \in Pics : safe'[p] <= lastRev[p]
    BY <1>1, <1>2 DEF Table
  <2> QED
    BY <1>1, <1>4, <2>1, <2>2 DEF Table, OwnDraft, DraftTypeOK
<1>6. Chained'
  BY <1>1 DEF Chained
<1>7. Edited'
  BY <1>1, <1>4 DEF Edited, Editing, Owner
<1>8. Saving'
  BY <1>1, <1>4 DEF Saving, Written, Uploaded
<1>9. Uploaded'
  BY <1>1 DEF Uploaded
<1>10. ASSUME DraftOps = {}, WorkInv PROVE WorkInv'
  <2>1. Latest' /\ Counts'
    <3>1. save # NoSave => save.has.rev <= safe'[save.for]
      <4>1. save.has.rev \in Nat /\ upload.rev \in Nat
        BY <1>1, DraftTypes
      <4>2. save # NoSave => save.for = upload.of /\ save.has.rev <= upload.rev
        BY <1>1, <1>10 DEF WorkInv, Latest, Uploaded
      <4> QED
        BY <1>2, <4>1, <4>2
    <3> QED
      BY <1>1, <3>1 DEF Latest, Counts
  <2>2. ASSUME NEW p \in Pics \ failed PROVE Kept(p)'
    <3>1. Kept(p)
      BY <1>10 DEF WorkInv
    <3>2. lastRev[p] \in Nat /\ safe[p] \in Nat /\ safe[p] <= lastRev[p]
      BY <1>1, DraftTypes DEF Table
    <3>3. CASE safe[p] = lastRev[p]
      <4>1. safe'[p] = lastRev[p]
        BY <1>2, <3>2, <3>3
      <4> QED
        BY <1>1, <4>1 DEF Kept
    <3>4. ASSUME NEW d \in Drafts, LiveFor(d, p), rows[d].has.rev = lastRev[p] PROVE Kept(p)'
      <4>1. CASE d # draftId
        BY <1>1, <3>4, <4>1 DEF Kept, LiveFor
      <4>2. CASE d = draftId
        <5>1. p = upload.of
          BY <1>1, <3>4, <4>2 DEF Uploaded, LiveFor
        <5>2. lastRev[p] <= upload.rev /\ upload.rev \in Nat
          BY <1>1, <1>10, <3>4, <5>1, DraftTypes DEF WorkInv, Latest
        <5> QED
          BY <1>1, <1>2, <3>2, <5>1, <5>2 DEF Kept
      <4> QED
        BY <4>1, <4>2
    <3> QED
      BY <1>1, <3>1, <3>3, <3>4 DEF Kept, Editing
  <2> QED
    BY <1>1, <1>10, <2>1, <2>2 DEF WorkInv
<1> QED
  BY <1>3, <1>5, <1>6, <1>7, <1>8, <1>9, <1>10 DEF DraftInv, Preserved

-----------------------------------------------------------------------------
(* Saving. *)

\* The first save of a picture makes a row, which is then its only one.
LEMMA SaveMakes ==
  ASSUME DraftInv, save # NoSave, save.answer = "none", save.id = NoDraft,
         NEW d \in Drafts, rows[d] = NoRow,
         rows' = [rows EXCEPT ![d] = [for |-> save.for, has |-> save.has, live |-> TRUE]],
         save' = [save EXCEPT !.answer = "ok", !.made = d],
         UNCHANGED <<galOpen, pic, layers, draftId, timer, dirty, lookups, upload, clears,
                     userRevs>>
  PROVE  Preserved
<1> USE DraftAssumption DEF userRevs
<1>1. /\ DraftTypeOK /\ Table /\ Chained /\ Edited /\ Saving /\ Uploaded
      /\ save.for \in Pics /\ save.made = NoDraft /\ draftId = NoDraft /\ lookups = {}
  BY DEF DraftInv, Saving, Chained
<1>2. /\ save'.id = NoDraft /\ save'.for = save.for /\ save'.has = save.has
      /\ save'.answer = "ok" /\ save'.made = d /\ save' # NoSave
  BY <1>1 DEF DraftTypeOK, NoSave
<1>3. /\ rows'[d].for = save.for /\ rows'[d].has = save.has /\ rows'[d].live
      /\ \A e \in Drafts \ {d} : rows'[e] = rows[e]
      /\ d \notin clears /\ d # NoDraft
  BY <1>1 DEF DraftTypeOK, Table
<1>4. DraftTypeOK'
  <2>1. rows' \in [Drafts -> [for : Pics \union {NoPic}, has : Contents, live : BOOLEAN]]
    BY <1>1 DEF DraftTypeOK
  <2>2. save' \in [id : Drafts \union {NoDraft}, for : Pics \union {NoPic}, has : Contents,
                   answer : {"none", "ok", "gone"}, made : Drafts \union {NoDraft}]
    BY <1>1 DEF DraftTypeOK
  <2> QED
    BY <1>1, <2>1, <2>2 DEF DraftTypeOK
<1>5. \A e \in Drafts : ~LiveFor(e, save.for)
  BY <1>1 DEF Saving, Written
<1>6. ASSUME NEW e \in Drafts, NEW p, LiveFor(e, p)'
      PROVE  (e = d /\ p = save.for) \/ (e # d /\ p # save.for /\ LiveFor(e, p))
  BY <1>3, <1>5, <1>6 DEF LiveFor
<1>7. Table'
  <2>1. OwnDraft'
    BY <1>1, <1>3 DEF Table, OwnDraft, Saving
  <2>2. \A e \in Drafts : \/ rows'[e] = NoRow
                          \/ rows'[e].for \in Pics /\ rows'[e].has.rev <= lastRev[rows'[e].for]
    BY <1>1, <1>3 DEF Table, Saving
  <2>3. \A e \in clears : rows'[e] # NoRow
    BY <1>1, <1>3 DEF Table, DraftTypeOK
  <2>4. \A p \in Pics, e, f \in Drafts : LiveFor(e, p)' /\ LiveFor(f, p)' => e = f
    BY <1>1, <1>6 DEF Table
  <2> QED
    BY <1>1, <2>1, <2>2, <2>3, <2>4 DEF Table
<1>8. Chained'
  BY <1>1 DEF Chained
<1>9. Edited'
  <2> SUFFICES ASSUME Editing PROVE Edited'
    BY DEF Edited, Editing
  <2>1. pic = save.for /\ save.has.rev <= layers.rev
    BY <1>1 DEF Saving, Editing
  <2>2. \A e \in Drafts : LiveFor(e, pic)' => e = Owner' /\ rows'[e].has.rev <= layers.rev
    BY <1>2, <1>3, <1>6, <2>1 DEF Owner
  <2> QED
    BY <1>1, <2>2 DEF Edited
<1>10. Saving'
  <2>1. Written' = d
    BY <1>2, <1>3 DEF Written
  <2>2. \A e \in Drafts : LiveFor(e, save.for)' => e = Written' /\ rows'[e].has.rev <= save.has.rev
    BY <1>1, <1>2, <1>3, <1>6, <2>1, DraftTypes
  <2> QED
    BY <1>1, <1>2, <1>3, <2>1, <2>2 DEF Saving
<1>11. Uploaded'
  BY <1>1, <1>2 DEF Uploaded
<1>12. ASSUME DraftOps = {}, WorkInv PROVE WorkInv'
  <2>1. Latest'
    <3>1. upload # NoUpload => \A e \in Drafts : LiveFor(e, upload.of)' => rows'[e].has.rev <= upload.rev
      BY <1>3, <1>6, <1>12 DEF WorkInv, Latest
    <3> QED
      BY <1>1, <1>2, <1>12, <3>1 DEF WorkInv, Latest
  <2>2. Counts'
    <3>1. Written' = d /\ LiveFor(d, save.for)' /\ rows'[d].has.rev = save.has.rev
      BY <1>2, <1>3 DEF Written, LiveFor
    <3> QED
      BY <1>1, <1>2, <1>12, <3>1 DEF WorkInv, Counts, Table, DraftTypeOK
  <2>3. ASSUME NEW p \in Pics \ failed PROVE Kept(p)'
    <3>1. Kept(p)
      BY <1>12 DEF WorkInv
    <3>2. ASSUME NEW e \in Drafts, LiveFor(e, p), rows[e].has.rev = lastRev[p]
          PROVE  LiveFor(e, p)' /\ rows'[e].has.rev = lastRev[p]
      BY <1>1, <1>3, <3>2 DEF LiveFor, NoRow
    <3>3. save.for = p /\ save.has.rev = lastRev[p] => LiveFor(d, p)' /\ rows'[d].has.rev = lastRev[p]
      BY <1>3 DEF LiveFor
    <3> QED
      BY <1>1, <3>1, <3>2, <3>3 DEF Kept, Editing
  <2> QED
    BY <1>2, <1>12, <2>1, <2>2, <2>3 DEF WorkInv
<1> QED
  BY <1>4, <1>7, <1>8, <1>9, <1>10, <1>11, <1>12 DEF DraftInv, Preserved

\* A later save overwrites the row of its draft.
LEMMA SaveOverwrites ==
  ASSUME DraftInv, save # NoSave, save.answer = "none", save.id # NoDraft, rows[save.id].live,
         rows' = [rows EXCEPT ![save.id].has = save.has],
         save' = [save EXCEPT !.answer = "ok"],
         UNCHANGED <<galOpen, pic, layers, draftId, timer, dirty, lookups, upload, clears,
                     userRevs>>
  PROVE  Preserved
<1> USE DraftAssumption DEF userRevs
<1>1. /\ DraftTypeOK /\ Table /\ Chained /\ Edited /\ Saving /\ Uploaded
      /\ save.for \in Pics /\ save.made = NoDraft /\ lookups = {}
      /\ save.id \in Drafts /\ rows[save.id].for = save.for
  BY DEF DraftInv, Saving, Chained, DraftTypeOK
<1>2. /\ save'.id = save.id /\ save'.for = save.for /\ save'.has = save.has
      /\ save'.answer = "ok" /\ save'.made = NoDraft /\ save' # NoSave
  BY <1>1 DEF DraftTypeOK, NoSave
<1>3. /\ rows'[save.id].for = save.for /\ rows'[save.id].has = save.has /\ rows'[save.id].live
      /\ \A e \in Drafts \ {save.id} : rows'[e] = rows[e]
  BY <1>1 DEF DraftTypeOK
<1>4. DraftTypeOK'
  <2>1. rows' \in [Drafts -> [for : Pics \union {NoPic}, has : Contents, live : BOOLEAN]]
    BY <1>1 DEF DraftTypeOK
  <2>2. save' \in [id : Drafts \union {NoDraft}, for : Pics \union {NoPic}, has : Contents,
                   answer : {"none", "ok", "gone"}, made : Drafts \union {NoDraft}]
    BY <1>1 DEF DraftTypeOK
  <2> QED
    BY <1>1, <2>1, <2>2 DEF DraftTypeOK
<1>5. \A e \in Drafts : \A p : LiveFor(e, p)' <=> LiveFor(e, p)
  BY <1>1, <1>3 DEF LiveFor
<1>6. \A e \in Drafts : LiveFor(e, save.for) => e = save.id
  BY <1>1 DEF Saving, Written
<1>7. Table'
  <2>1. OwnDraft'
    BY <1>1, <1>3 DEF Table, OwnDraft, Saving
  <2>2. \A e \in Drafts : \/ rows'[e] = NoRow
                          \/ rows'[e].for \in Pics /\ rows'[e].has.rev <= lastRev[rows'[e].for]
    BY <1>1, <1>3 DEF Table, Saving
  <2>3. \A e \in clears : rows'[e] # NoRow
    BY <1>1, <1>3 DEF Table, DraftTypeOK, NoRow
  <2>4. \A p \in Pics, e, f \in Drafts : LiveFor(e, p)' /\ LiveFor(f, p)' => e = f
    BY <1>1, <1>5 DEF Table
  <2> QED
    BY <1>1, <2>1, <2>2, <2>3, <2>4 DEF Table
<1>8. Chained'
  BY <1>1 DEF Chained
<1>9. Edited'
  <2> SUFFICES ASSUME Editing PROVE Edited'
    BY DEF Edited, Editing
  <2>1. pic = save.for /\ save.has.rev <= layers.rev
    BY <1>1 DEF Saving, Editing
  <2>2. Owner' = Owner
    BY <1>1, <1>2 DEF Owner
  <2>3. \A e \in Drafts : LiveFor(e, pic)' => e = Owner' /\ rows'[e].has.rev <= layers.rev
    BY <1>1, <1>3, <1>5, <2>1, <2>2 DEF Edited
  <2>4. draftId # NoDraft => rows'[draftId].for = pic
    BY <1>1, <1>3, <2>1 DEF Edited, DraftTypeOK
  <2> QED
    BY <1>1, <2>3, <2>4 DEF Edited
<1>10. Saving'
  <2>1. Written' = save.id
    BY <1>2 DEF Written
  <2>2. \A e \in Drafts : LiveFor(e, save.for)' => e = Written' /\ rows'[e].has.rev <= save.has.rev
    BY <1>1, <1>2, <1>3, <1>5, <1>6, <2>1, DraftTypes
  <2> QED
    BY <1>1, <1>2, <1>3, <2>1, <2>2 DEF Saving
<1>11. Uploaded'
  <2>1. draftId # NoDraft => rows'[draftId].for = rows[draftId].for
    BY <1>1, <1>3 DEF DraftTypeOK
  <2> QED
    BY <1>1, <1>2, <2>1 DEF Uploaded
<1>12. ASSUME DraftOps = {}, WorkInv PROVE WorkInv'
  <2>1. Latest'
    <3>1. upload # NoUpload => \A e \in Drafts : LiveFor(e, upload.of)' => rows'[e].has.rev <= upload.rev
      BY <1>3, <1>5, <1>12 DEF WorkInv, Latest
    <3> QED
      BY <1>1, <1>2, <1>12, <3>1 DEF WorkInv, Latest
  <2>2. Counts'
    <3>1. Written' = save.id /\ (save.id \notin clears => LiveFor(save.id, save.for)')
      BY <1>2, <1>3 DEF Written, LiveFor
    <3> QED
      BY <1>1, <1>2, <1>3, <1>12, <3>1 DEF WorkInv, Counts
  <2>3. ASSUME NEW p \in Pics \ failed PROVE Kept(p)'
    <3>1. Kept(p)
      BY <1>12 DEF WorkInv
    <3>2. ASSUME NEW e \in Drafts, LiveFor(e, p), rows[e].has.rev = lastRev[p]
          PROVE  LiveFor(e, p)' /\ rows'[e].has.rev = lastRev[p]
      <4>1. CASE e # save.id
        BY <1>3, <1>5, <3>2, <4>1
      <4>2. CASE e = save.id
        <5>1. p = save.for /\ rows[e].has.rev <= save.has.rev /\ save.has.rev <= lastRev[p]
          BY <1>1, <3>2, <4>2 DEF Saving, LiveFor
        <5> QED
          BY <1>1, <1>3, <1>5, <3>2, <4>2, <5>1, DraftTypes
      <4> QED
        BY <4>1, <4>2
    <3>3. CASE save.for = p /\ save.has.rev = lastRev[p]
      <4>1. CASE save.has.rev <= safe[p]
        <5>1. safe[p] <= lastRev[p] /\ safe[p] \in Nat /\ lastRev[p] \in Nat
          BY <1>1, DraftTypes DEF Table
        <5> QED
          BY <3>3, <4>1, <5>1 DEF Kept
      <4>2. CASE ~(save.has.rev <= safe[p])
        <5>1. save.id \notin clears
          BY <1>12, <3>3, <4>2 DEF WorkInv, Counts
        <5>2. LiveFor(save.id, p)' /\ rows'[save.id].has.rev = lastRev[p]
          BY <1>3, <3>3, <5>1 DEF LiveFor
        <5> QED
          BY <1>1, <5>2 DEF Kept
      <4> QED
        BY <4>1, <4>2
    <3> QED
      BY <1>1, <3>1, <3>2, <3>3 DEF Kept, Editing
  <2> QED
    BY <1>2, <1>12, <2>1, <2>2, <2>3 DEF WorkInv
<1> QED
  BY <1>4, <1>7, <1>8, <1>9, <1>10, <1>11, <1>12 DEF DraftInv, Preserved

\* The row was deleted meanwhile.
LEMMA SaveMisses ==
  ASSUME DraftInv, save # NoSave, save.answer = "none", save.id # NoDraft, ~rows[save.id].live,
         save' = [save EXCEPT !.answer = "gone"],
         UNCHANGED <<galOpen, pic, layers, draftId, timer, dirty, lookups, upload, clears,
                     rows, userRevs>>
  PROVE  Preserved
<1> USE DraftAssumption DEF userRevs
<1>1. /\ DraftTypeOK /\ Table /\ Chained /\ Edited /\ Saving /\ Uploaded
      /\ save.for \in Pics /\ save.made = NoDraft /\ lookups = {}
  BY DEF DraftInv, Saving, Chained
<1>2. /\ save'.id = save.id /\ save'.for = save.for /\ save'.has = save.has
      /\ save'.answer = "gone" /\ save'.made = NoDraft /\ save' # NoSave
  BY <1>1 DEF DraftTypeOK, NoSave
<1>3. DraftTypeOK'
  <2>1. save' \in [id : Drafts \union {NoDraft}, for : Pics \union {NoPic}, has : Contents,
                   answer : {"none", "ok", "gone"}, made : Drafts \union {NoDraft}]
    BY <1>1 DEF DraftTypeOK
  <2> QED
    BY <1>1, <2>1 DEF DraftTypeOK
<1>4. Table' /\ Chained'
  BY <1>1 DEF Table, OwnDraft, LiveFor, Chained
<1>5. Edited'
  BY <1>1, <1>2 DEF Edited, Editing, Owner, LiveFor
<1>6. Saving'
  BY <1>1, <1>2 DEF Saving, Written, LiveFor
<1>7. Uploaded'
  BY <1>1, <1>2 DEF Uploaded, LiveFor
<1>8. ASSUME DraftOps = {}, WorkInv PROVE WorkInv'
  <2>1. Latest' /\ Counts'
    BY <1>1, <1>2, <1>8 DEF WorkInv, Latest, Counts, Written, LiveFor
  <2> QED
    BY <1>1, <1>2, <1>8, <2>1 DEF WorkInv, Kept, Editing, LiveFor
<1> QED
  BY <1>3, <1>4, <1>5, <1>6, <1>7, <1>8 DEF DraftInv, Preserved

LEMMA SaveArrivesStep ==
  ASSUME DraftInv, SaveArrives PROVE Preserved
<1> USE DraftAssumption
<1>1. UNCHANGED <<galOpen, pic, layers, draftId, timer, dirty, lookups, upload, clears,
                  userRevs>> /\ save # NoSave /\ save.answer = "none"
  BY DEF SaveArrives
<1>2. CASE save.id = NoDraft
  <2>1. PICK d \in Drafts :
          /\ rows[d] = NoRow
          /\ rows' = [rows EXCEPT ![d] = [for |-> save.for, has |-> save.has, live |-> TRUE]]
          /\ save' = [save EXCEPT !.answer = "ok", !.made = d]
    BY <1>2 DEF SaveArrives
  <2> QED
    BY <1>1, <1>2, <2>1, SaveMakes
<1>3. CASE save.id # NoDraft /\ rows[save.id].live
  <2>1. /\ rows' = [rows EXCEPT ![save.id].has = save.has]
        /\ save' = [save EXCEPT !.answer = "ok"]
    BY <1>3 DEF SaveArrives
  <2> QED
    BY <1>1, <1>3, <2>1, SaveOverwrites
<1>4. CASE save.id # NoDraft /\ ~rows[save.id].live
  <2>1. save' = [save EXCEPT !.answer = "gone"] /\ UNCHANGED rows
    BY <1>4 DEF SaveArrives
  <2> QED
    BY <1>1, <1>4, <2>1, SaveMisses
<1> QED
  BY <1>2, <1>3, <1>4

\* The answer to a save: its row is the editor's draft from now on.
LEMMA SaveAnsweredStep ==
  ASSUME DraftInv, SaveAnswered PROVE Preserved
<1> USE DraftAssumption
<1>1. /\ DraftTypeOK /\ Table /\ Chained /\ Edited /\ Saving /\ Uploaded
      /\ save.answer = "ok" /\ save # NoSave /\ lookups = {} /\ save.for \in Pics
      /\ save' = NoSave /\ dirty' = FALSE /\ draftId' = Owner
      /\ failed' = IF save.has.rev = lastRev[save.for] THEN failed \ {save.for} ELSE failed
      /\ UNCHANGED <<galOpen, pic, layers, lookups, upload, clears, rows, lastRev, safe>>
  BY DEF SaveAnswered, SaveEnds, DraftInv, Saving, Chained, NoSave, Owner
<1>2. timer' \in BOOLEAN /\ (timer => timer') /\ (Editing /\ dirty => timer')
  BY <1>1 DEF SaveAnswered, SaveEnds, Scheduled, Editing, DraftTypeOK
<1>3. DraftTypeOK'
  <2>1. /\ draftId' \in Drafts \union {NoDraft} /\ failed' \subseteq Pics
    BY <1>1 DEF DraftTypeOK, Owner
  <2>2. save' \in [id : Drafts \union {NoDraft}, for : Pics \union {NoPic}, has : Contents,
                   answer : {"none", "ok", "gone"}, made : Drafts \union {NoDraft}]
    BY <1>1 DEF NoSave, Bare, Contents
  <2> QED
    BY <1>1, <1>2, <2>1, <2>2 DEF DraftTypeOK
<1>4. Owner # draftId => Owner = save.made /\ rows[Owner].for = save.for /\ Owner \notin clears
  BY <1>1 DEF Owner, Saving
<1>5. Table'
  <2>1. Owner \notin clears
    BY <1>1, <1>4 DEF Table
  <2> QED
    BY <1>1, <2>1 DEF Table, OwnDraft, LiveFor
<1>6. Chained'
  BY <1>1 DEF Chained
<1>7. Edited'
  <2>1. Editing => pic = save.for
    BY <1>1 DEF Saving, Editing
  <2>2. Owner' = Owner
    BY <1>1 DEF Owner, NoSave
  <2> QED
    BY <1>1, <1>4, <2>1, <2>2 DEF Edited, Editing, LiveFor
<1>8. Saving'
  BY <1>1 DEF Saving
<1>9. Uploaded'
  BY <1>1, <1>4 DEF Uploaded, LiveFor
<1>10. ASSUME DraftOps = {}, WorkInv PROVE WorkInv'
  <2>1. Latest' /\ Counts'
    BY <1>1, <1>10 DEF WorkInv, Latest, Counts, LiveFor
  <2>2. ASSUME NEW p \in Pics \ failed' PROVE Kept(p)'
    <3>1. CASE p \notin failed
      <4>1. Kept(p)
        BY <1>10, <3>1 DEF WorkInv
      <4> QED
        BY <1>1, <1>2, <4>1 DEF Kept, Editing, LiveFor
    <3>2. CASE p \in failed
      <4>1. p = save.for /\ save.has.rev = lastRev[p]
        BY <1>1, <3>2
      <4>2. CASE save.has.rev <= safe[p]
        <5>1. safe[p] = lastRev[p]
          BY <1>1, <4>1, <4>2, DraftTypes DEF Table
        <5> QED
          BY <1>1, <5>1 DEF Kept
      <4>3. CASE ~(save.has.rev <= safe[p])
        <5>1. /\ LiveFor(Written, p) /\ rows[Written].has.rev = lastRev[p]
              /\ Written \in Drafts
          BY <1>1, <1>10, <4>1, <4>3 DEF WorkInv, Counts, Saving, Written, DraftTypeOK
        <5>2. PICK d \in Drafts : LiveFor(d, p) /\ rows[d].has.rev = lastRev[p]
          BY <5>1
        <5> QED
          BY <1>1, <5>2 DEF Kept, LiveFor
      <4> QED
        BY <4>2, <4>3
    <3> QED
      BY <3>1, <3>2
  <2> QED
    BY <1>1, <2>1, <2>2 DEF WorkInv
<1> QED
  BY <1>3, <1>5, <1>6, <1>7, <1>8, <1>9, <1>10 DEF DraftInv, Preserved

\* The save starts again without an id; nobody else has a row for the picture.
LEMMA SaveGoneStep ==
  ASSUME DraftInv, SaveGone PROVE Preserved
<1> USE DraftAssumption DEF userRevs
<1>1. /\ DraftTypeOK /\ Table /\ Chained /\ Edited /\ Saving /\ Uploaded
      /\ save.answer = "gone" /\ save # NoSave /\ lookups = {} /\ save.for \in Pics
      /\ save.made = NoDraft /\ ~rows[save.id].live /\ clears \subseteq Drafts
      /\ draftId' = NoDraft /\ save' = [save EXCEPT !.id = NoDraft, !.answer = "none"]
      /\ UNCHANGED <<galOpen, pic, layers, timer, dirty, lookups, upload, clears, rows, userRevs>>
  BY DEF SaveGone, DraftInv, Saving, Chained, NoSave, DraftTypeOK
<1>2. /\ save'.id = NoDraft /\ save'.for = save.for /\ save'.has = save.has
      /\ save'.answer = "none" /\ save'.made = NoDraft /\ save' # NoSave
  BY <1>1 DEF DraftTypeOK, NoSave
<1>3. \A d \in Drafts : ~LiveFor(d, save.for)
  BY <1>1 DEF Saving, Written, LiveFor
<1>4. DraftTypeOK'
  <2>1. save' \in [id : Drafts \union {NoDraft}, for : Pics \union {NoPic}, has : Contents,
                   answer : {"none", "ok", "gone"}, made : Drafts \union {NoDraft}]
    BY <1>1 DEF DraftTypeOK
  <2> QED
    BY <1>1, <2>1 DEF DraftTypeOK
<1>5. Table' /\ Chained'
  BY <1>1 DEF Table, OwnDraft, LiveFor, Chained
<1>6. Edited'
  BY <1>1, <1>3 DEF Edited, Editing, Saving, LiveFor
<1>7. Saving'
  BY <1>1, <1>2, <1>3 DEF Saving, LiveFor
<1>8. Uploaded'
  BY <1>1, <1>2 DEF Uploaded, LiveFor
<1>9. ASSUME DraftOps = {}, WorkInv PROVE WorkInv'
  <2>1. Latest' /\ Counts'
    BY <1>1, <1>2, <1>9 DEF WorkInv, Latest, Counts, Written, LiveFor
  <2> QED
    BY <1>1, <1>2, <1>9, <2>1 DEF WorkInv, Kept, Editing, LiveFor
<1> QED
  BY <1>4, <1>5, <1>6, <1>7, <1>8, <1>9 DEF DraftInv, Preserved

LEMMA SaveFailsStep ==
  ASSUME DraftInv, SaveFails PROVE Preserved
<1> USE DraftAssumption
<1>1. /\ DraftTypeOK /\ Table /\ Chained /\ Edited /\ Saving /\ Uploaded
      /\ save.answer = "none" /\ save # NoSave /\ lookups = {} /\ save.for \in Pics
      /\ save.made = NoDraft
      /\ save' = NoSave /\ dirty' = FALSE /\ failed' = failed \union {save.for}
      /\ UNCHANGED <<galOpen, pic, layers, draftId, lookups, upload, clears, rows, lastRev, safe>>
  BY DEF SaveFails, SaveEnds, DraftInv, Saving, Chained, NoSave
<1>2. timer' \in BOOLEAN /\ (timer => timer') /\ (Editing /\ dirty => timer')
  BY <1>1 DEF SaveFails, SaveEnds, Scheduled, Editing, DraftTypeOK
<1>3. DraftTypeOK'
  <2>1. save' \in [id : Drafts \union {NoDraft}, for : Pics \union {NoPic}, has : Contents,
                   answer : {"none", "ok", "gone"}, made : Drafts \union {NoDraft}]
    BY <1>1 DEF NoSave, Bare, Contents
  <2>2. failed' \subseteq Pics
    BY <1>1 DEF DraftTypeOK
  <2> QED
    BY <1>1, <1>2, <2>1, <2>2 DEF DraftTypeOK
<1>4. Table' /\ Chained'
  BY <1>1 DEF Table, OwnDraft, LiveFor, Chained
<1>5. Edited'
  BY <1>1 DEF Edited, Editing, Owner, LiveFor, NoSave
<1>6. Saving' /\ Uploaded'
  BY <1>1 DEF Saving, Uploaded, LiveFor
<1>7. ASSUME DraftOps = {}, WorkInv PROVE WorkInv'
  <2>1. Latest' /\ Counts'
    BY <1>1, <1>7 DEF WorkInv, Latest, Counts, LiveFor
  <2>2. ASSUME NEW p \in Pics \ failed' PROVE Kept(p)'
    <3>1. Kept(p) /\ p # save.for
      BY <1>1, <1>7, <2>2 DEF WorkInv
    <3> QED
      BY <1>1, <1>2, <3>1 DEF Kept, Editing, LiveFor
  <2> QED
    BY <1>1, <2>1, <2>2 DEF WorkInv
<1> QED
  BY <1>3, <1>4, <1>5, <1>6, <1>7 DEF DraftInv, Preserved

-----------------------------------------------------------------------------
(* The server. *)

LEMMA RowDies ==
  ASSUME NEW R, NEW d \in Drafts,
         NEW r \in [Drafts -> [for : Pics \union {NoPic}, has : R, live : BOOLEAN]]
  PROVE  [r EXCEPT ![d].live = FALSE]
           \in [Drafts -> [for : Pics \union {NoPic}, has : R, live : BOOLEAN]]
<1>1. [r[d] EXCEPT !.live = FALSE] \in [for : Pics \union {NoPic}, has : R, live : BOOLEAN]
  OBVIOUS
<1>2. [r EXCEPT ![d].live = FALSE] = [r EXCEPT ![d] = [r[d] EXCEPT !.live = FALSE]]
  OBVIOUS
<1> QED
  BY <1>1, <1>2

LEMMA ClearStep ==
  ASSUME DraftInv, NEW d \in Drafts, ClearArrives(d) PROVE Preserved
<1> USE DraftAssumption DEF userRevs, clientVars
<1>1. /\ DraftTypeOK /\ Table /\ Chained /\ Edited /\ Saving /\ Uploaded
      /\ d \in clears /\ clears' = clears \ {d} /\ lookups = {}
      /\ rows' = [rows EXCEPT ![d].live = FALSE] /\ rows[d].for \in Pics
      /\ UNCHANGED <<galOpen, pic, layers, draftId, timer, save, dirty, lookups, upload,
                     lastRev, safe, failed>>
  BY DEF ClearArrives, DraftInv, Chained, Table
<1>2. /\ ~rows'[d].live /\ rows'[d].for = rows[d].for /\ rows'[d].has = rows[d].has
      /\ \A e \in Drafts \ {d} : rows'[e] = rows[e]
  BY <1>1 DEF DraftTypeOK
<1>3. \A e \in Drafts : \A p : LiveFor(e, p)' <=> LiveFor(e, p)
  BY <1>1, <1>2 DEF LiveFor
<1>4. \A e \in Drafts : rows'[e].for = rows[e].for /\ rows'[e].has = rows[e].has
  BY <1>2
<1>5. DraftTypeOK'
  <2>1. rows' \in [Drafts -> [for : Pics \union {NoPic}, has : Contents, live : BOOLEAN]]
    BY <1>1, RowDies DEF DraftTypeOK
  <2> QED
    BY <1>1, <2>1 DEF DraftTypeOK
<1>6. Table'
  <2>1. \A e \in Drafts : \/ rows'[e] = NoRow
                          \/ rows'[e].for \in Pics /\ rows'[e].has.rev <= lastRev[rows'[e].for]
    BY <1>1, <1>2 DEF Table
  <2>2. \A e \in clears' : rows'[e] # NoRow
    BY <1>1, <1>2 DEF Table, DraftTypeOK
  <2>3. OwnDraft'
    BY <1>1, <1>4 DEF Table, OwnDraft
  <2> QED
    BY <1>1, <1>3, <2>1, <2>2, <2>3 DEF Table
<1>7. Chained'
  BY <1>1 DEF Chained
<1>8. Edited'
  BY <1>1, <1>3, <1>4 DEF Edited, Editing, Owner, DraftTypeOK
<1>9. Saving'
  <2> SUFFICES ASSUME save # NoSave PROVE Saving'
    BY <1>1 DEF Saving
  <2>1. save.id \in Drafts \union {NoDraft} /\ save.made \in Drafts \union {NoDraft}
    BY <1>1 DEF DraftTypeOK
  <2>2. Written' = Written
    BY <1>1 DEF Written
  <2>3. save.answer = "gone" => ~rows'[save.id].live
    BY <1>1, <1>2, <2>1 DEF Saving
  <2> QED
    BY <1>1, <1>3, <1>4, <2>1, <2>2, <2>3 DEF Saving
<1>10. Uploaded'
  BY <1>1, <1>3, <1>4 DEF Uploaded, DraftTypeOK
<1>11. ASSUME DraftOps = {}, WorkInv PROVE WorkInv'
  <2>1. Latest' /\ Counts'
    <3>1. save # NoSave /\ save.answer = "ok" => Written \in Drafts
      BY <1>1 DEF Saving, Written, DraftTypeOK
    <3>2. Written' = Written
      BY <1>1 DEF Written
    <3> QED
      BY <1>1, <1>3, <1>4, <1>11, <3>1, <3>2 DEF WorkInv, Latest, Counts
  <2> QED
    BY <1>1, <1>3, <1>4, <1>11, <2>1 DEF WorkInv, Kept, Editing
<1> QED
  BY <1>5, <1>6, <1>7, <1>8, <1>9, <1>10, <1>11 DEF DraftInv, Preserved

\* What another device throws away was given up on purpose.
LEMMA DeleteStep ==
  ASSUME DraftInv, NEW d \in Drafts, DeleteElsewhere(d) PROVE Preserved
<1> USE DraftAssumption DEF clientVars
<1>0. DraftTypeOK /\ Table /\ Chained /\ Edited /\ Saving /\ Uploaded
  BY DEF DraftInv
<1> PICK q : q = rows[d].for
  OBVIOUS
<1>1. /\ DraftTypeOK /\ Table /\ Chained /\ Edited /\ Saving /\ Uploaded
      /\ q = rows[d].for /\ q \in Pics /\ rows[d].has.rev <= lastRev[q]
      /\ rows' = [rows EXCEPT ![d].live = FALSE]
      /\ safe' = [safe EXCEPT ![q] = Max({safe[q], rows[d].has.rev})]
      /\ UNCHANGED <<galOpen, pic, layers, draftId, timer, save, dirty, lookups, upload,
                     clears, lastRev, failed>>
  <2>1. rows[d] # NoRow
    BY <1>0 DEF DeleteElsewhere, NoRow
  <2>2. q = rows[d].for /\ q \in Pics /\ rows[d].has.rev <= lastRev[q]
    BY <1>0, <2>1 DEF Table
  <2> QED
    BY <1>0, <2>2 DEF DeleteElsewhere
<1>2. /\ ~rows'[d].live /\ rows'[d].for = q /\ rows'[d].has = rows[d].has
      /\ \A e \in Drafts \ {d} : rows'[e] = rows[e]
  BY <1>1 DEF DraftTypeOK
<1>3. \A e \in Drafts : \A p : LiveFor(e, p)' <=> LiveFor(e, p) /\ e # d
  BY <1>1, <1>2 DEF LiveFor
<1>4. \A e \in Drafts : rows'[e].for = rows[e].for /\ rows'[e].has = rows[e].has
  BY <1>2
<1>5. /\ safe'[q] \in Nat /\ safe'[q] <= lastRev[q] /\ safe'[q] <= MaxEdits
      /\ safe'[q] >= rows[d].has.rev /\ safe'[q] >= safe[q]
      /\ \A p \in Pics \ {q} : safe'[p] = safe[p]
  <2>1. /\ safe[q] \in Nat /\ rows[d].has.rev \in Nat /\ lastRev[q] \in 0 .. MaxEdits
        /\ safe[q] <= lastRev[q]
    BY <1>1, DraftTypes DEF Table, DraftTypeOK
  <2>2. /\ safe'[q] = Max({safe[q], rows[d].has.rev})
        /\ \A p \in Pics \ {q} : safe'[p] = safe[p]
    BY <1>1 DEF DraftTypeOK
  <2>3. /\ safe'[q] \in {safe[q], rows[d].has.rev}
        /\ safe'[q] >= safe[q] /\ safe'[q] >= rows[d].has.rev
    BY <2>1, <2>2, MaxOfTwo
  <2> QED
    BY <1>1, <2>1, <2>2, <2>3
<1>6. DraftTypeOK'
  <2>1. rows' \in [Drafts -> [for : Pics \union {NoPic}, has : Contents, live : BOOLEAN]]
    BY <1>1, RowDies DEF DraftTypeOK
  <2>2. safe' \in [Pics -> 0 .. MaxEdits]
    <3>1. safe'[q] \in 0 .. MaxEdits
      BY <1>5
    <3>2. \A p \in Pics : safe'[p] \in 0 .. MaxEdits
      BY <1>1, <1>5, <3>1 DEF DraftTypeOK
    <3>3. safe' = [p \in Pics |-> safe'[p]]
      BY <1>1 DEF DraftTypeOK
    <3> QED
      BY <3>2, <3>3
  <2> QED
    BY <1>1, <2>1, <2>2 DEF DraftTypeOK
<1>7. Table'
  <2>1. \A e \in Drafts : \/ rows'[e] = NoRow
                          \/ rows'[e].for \in Pics /\ rows'[e].has.rev <= lastRev[rows'[e].for]
    BY <1>1, <1>2 DEF Table
  <2>2. \A e \in clears' : rows'[e] # NoRow
    <3>1. \A e \in Drafts : rows'[e] = NoRow => rows[e].for = NoPic
      BY <1>1, <1>2 DEF NoRow
    <3>2. \A e \in clears : e \in Drafts /\ rows[e].for \in Pics
      BY <1>1 DEF Table, DraftTypeOK
    <3> QED
      BY <1>1, <3>1, <3>2
  <2>3. OwnDraft'
    BY <1>1, <1>4 DEF Table, OwnDraft
  <2>4. \A p \in Pics : safe'[p] <= lastRev[p]
    BY <1>1, <1>5 DEF Table
  <2> QED
    BY <1>1, <1>3, <2>1, <2>2, <2>3, <2>4 DEF Table
<1>8. Chained'
  <2> SUFFICES ASSUME NEW l \in lookups PROVE ChainKnows(l)'
    BY <1>1 DEF Chained
  <2>1. ChainKnows(l)
    BY <1>1 DEF Chained
  <2>2. \A e \in Drafts : rows'[e] = NoRow => rows[e] = NoRow
    BY <1>1, <1>2 DEF NoRow
  <2> QED
    BY <1>1, <1>3, <1>4, <2>1, <2>2 DEF ChainKnows
<1>9. Edited'
  BY <1>1, <1>3, <1>4 DEF Edited, Editing, Owner, DraftTypeOK
<1>10. Saving'
  <2> SUFFICES ASSUME save # NoSave PROVE Saving'
    BY <1>1 DEF Saving
  <2>1. /\ save.id \in Drafts \union {NoDraft} /\ save.made \in Drafts \union {NoDraft}
        /\ save.for \in Pics
    BY <1>1 DEF DraftTypeOK, Saving
  <2>2. Written' = Written
    BY <1>1 DEF Written
  <2>3. save.answer = "gone" => save.id # NoDraft /\ ~rows'[save.id].live
    BY <1>1, <1>2, <2>1 DEF Saving
  <2>4. /\ save.id # NoDraft => rows'[save.id].for = save.for
        /\ save.made # NoDraft => rows'[save.made].for = save.for
    BY <1>1, <1>4, <2>1 DEF Saving
  <2>5. \A e \in Drafts : LiveFor(e, save.for)' =>
                            e = Written' /\ rows'[e].has.rev <= save.has.rev
    BY <1>1, <1>3, <1>4, <2>2 DEF Saving
  <2> QED
    BY <1>1, <2>2, <2>3, <2>4, <2>5 DEF Saving
<1>11. Uploaded'
  BY <1>1, <1>3, <1>4 DEF Uploaded, DraftTypeOK
<1>12. ASSUME DraftOps = {}, WorkInv PROVE WorkInv'
  <2>1. Latest'
    BY <1>1, <1>3, <1>4, <1>12 DEF WorkInv, Latest
  <2>2. ASSUME save # NoSave PROVE Counts'
    <3>0. /\ save.id \in Drafts \union {NoDraft} /\ save.made \in Drafts \union {NoDraft}
          /\ save.for \in Pics /\ Written' = Written /\ save # NoSave
      BY <1>1, <2>2 DEF DraftTypeOK, Saving, Written
    <3>1. CASE save.has.rev <= safe[save.for]
      <4>1. safe[save.for] <= safe'[save.for] /\ safe'[save.for] \in Nat
        <5>1. safe[save.for] \in Nat
          BY <1>1, <3>0, DraftTypes
        <5> QED
          BY <1>5, <3>0, <5>1
      <4> QED
        BY <1>1, <3>0, <3>1, <4>1, DraftTypes DEF Counts
    <3>2. CASE /\ save.id \notin clears /\ save.answer # "ok"
      BY <1>1, <3>2 DEF Counts
    <3>3. CASE /\ save.id \notin clears /\ save.answer = "ok"
               /\ LiveFor(Written, save.for) /\ rows[Written].has.rev = save.has.rev
      <4>1. Written \in Drafts
        BY <1>1, <3>0, <3>3 DEF Saving, Written
      <4>2. CASE Written = d
        BY <1>1, <1>5, <3>0, <3>3, <4>2 DEF Counts, LiveFor
      <4>3. CASE Written # d
        <5>1. LiveFor(Written, save.for)' /\ rows'[Written] = rows[Written]
          BY <1>1, <1>2, <1>3, <3>0, <3>3, <4>1, <4>3
        <5> QED
          BY <1>1, <3>0, <3>3, <5>1 DEF Counts
      <4> QED
        BY <4>2, <4>3
    <3> QED
      BY <1>12, <3>0, <3>1, <3>2, <3>3 DEF WorkInv, Counts
  <2>3. ASSUME NEW p \in Pics \ failed PROVE Kept(p)'
    <3>1. Kept(p)
      BY <1>12 DEF WorkInv
    <3>2. lastRev[p] \in Nat /\ safe[p] \in Nat /\ safe[p] <= lastRev[p]
      BY <1>1, DraftTypes DEF Table
    <3>3. CASE safe[p] = lastRev[p]
      <4>1. safe'[p] = lastRev[p]
        BY <1>5, <3>2, <3>3
      <4> QED
        BY <1>1, <4>1 DEF Kept
    <3>4. ASSUME NEW e \in Drafts, LiveFor(e, p), rows[e].has.rev = lastRev[p] PROVE Kept(p)'
      <4>1. CASE e # d
        <5>1. LiveFor(e, p)' /\ rows'[e].has.rev = lastRev[p]
          BY <1>3, <1>4, <3>4, <4>1
        <5> QED
          BY <1>1, <5>1 DEF Kept
      <4>2. CASE e = d
        <5>1. safe'[p] = lastRev[p]
          BY <1>5, <3>2, <3>4, <4>2 DEF LiveFor
        <5> QED
          BY <1>1, <5>1 DEF Kept
      <4> QED
        BY <4>1, <4>2
    <3> QED
      BY <1>1, <3>1, <3>3, <3>4 DEF Kept, Editing
  <2> QED
    BY <1>1, <1>12, <2>1, <2>2, <2>3 DEF WorkInv, Counts
<1> QED
  BY <1>6, <1>7, <1>8, <1>9, <1>10, <1>11, <1>12 DEF DraftInv, Preserved

-----------------------------------------------------------------------------
(* What openEditor started: alone, with nothing drawn yet. *)

\* A chain that ends, or goes on, without a change to the picture.
LEMMA ChainMoves ==
  ASSUME DraftInv, NEW l \in lookups, NEW S, lookups' = S,
         \A m \in S : /\ S = {m} /\ ChainKnows(m) /\ m.stage # "resume"
                      /\ l.stage # "resume" /\ m.of = l.of
                      /\ m \in [stage : {"size", "list", "load", "resume", "image"},
                                of : Pics \union {NoPic}, draft : Drafts \union {NoDraft}],
         UNCHANGED <<galOpen, pic, layers, draftId, timer, save, dirty, upload, clears, rows,
                     userRevs>>
  PROVE  Preserved
<1> USE DraftAssumption DEF userRevs
<1>1. /\ DraftTypeOK /\ Table /\ Chained /\ Edited /\ Saving /\ Uploaded
      /\ layers = Bare /\ ~timer /\ ~dirty /\ save = NoSave /\ upload = NoUpload /\ clears = {}
      /\ galOpen => IF l.stage = "resume" THEN pic = NoPic /\ draftId = l.draft
                                          ELSE pic = l.of /\ draftId = NoDraft
  BY DEF DraftInv, Chained
<1>2. DraftTypeOK'
  BY <1>1 DEF DraftTypeOK
<1>3. Table' /\ Edited' /\ Saving' /\ Uploaded'
  <2>1. Table'
    BY <1>1 DEF Table, OwnDraft, LiveFor
  <2>2. Edited' /\ Saving' /\ Uploaded'
    BY <1>1 DEF Edited, Editing, Saving, Uploaded, Bare
  <2> QED
    BY <2>1, <2>2
<1>4. Chained'
  <2> SUFFICES ASSUME NEW m \in S
               PROVE  /\ S = {m} /\ ChainKnows(m)'
                      /\ galOpen => pic = m.of /\ draftId = NoDraft
                      /\ m.stage # "resume"
    BY <1>1 DEF Chained
  <2>1. ChainKnows(m)'
    BY <1>1 DEF ChainKnows, LiveFor
  <2> QED
    BY <1>1, <2>1
<1>5. ASSUME WorkInv PROVE WorkInv'
  <2>1. Latest' /\ Counts'
    BY <1>1 DEF Latest, Counts
  <2> QED
    BY <1>1, <1>5, <2>1 DEF WorkInv, Kept, Editing, LiveFor
<1> QED
  BY <1>2, <1>3, <1>4, <1>5 DEF DraftInv, Preserved

LEMMA ContentsMade ==
  ASSUME NEW s \in SUBSET Pics PROVE [parts |-> s, rev |-> 0] \in Contents
BY DraftAssumption DEF Contents

\* A chain that ends with the picture in the layers, and its first save due.
LEMMA ChainDraws ==
  ASSUME DraftInv, NEW l \in lookups, l.stage \in {"size", "image"}, lookups' = {},
         layers' = [parts |-> {l.of}, rev |-> 0], timer' = TRUE,
         UNCHANGED <<galOpen, pic, draftId, save, dirty, upload, clears, rows, userRevs>>
  PROVE  Preserved
<1> USE DraftAssumption DEF userRevs
<1>1. /\ DraftTypeOK /\ Table /\ Chained /\ Edited /\ Saving /\ Uploaded
      /\ ~timer /\ ~dirty /\ save = NoSave /\ upload = NoUpload /\ clears = {}
      /\ l.of \in Pics /\ ChainKnows(l) /\ \A d \in Drafts : ~LiveFor(d, l.of)
      /\ galOpen => pic = l.of /\ draftId = NoDraft
      /\ layers' = [parts |-> {l.of}, rev |-> 0]
  <2>1. DraftInv /\ Chained /\ layers = Bare /\ ChainKnows(l) /\ l.stage # "resume"
    BY DEF DraftInv, Chained
  <2>2. l.of \in Pics /\ \A d \in Drafts : ~LiveFor(d, l.of)
    BY <2>1 DEF ChainKnows, LiveFor
  <2> QED
    BY <2>1, <2>2 DEF DraftInv, Chained
<1>2. DraftTypeOK'
  <2>1. layers' \in Contents
    BY <1>1, ContentsMade
  <2> QED
    BY <1>1, <2>1 DEF DraftTypeOK
<1>3. Table' /\ Chained' /\ Saving' /\ Uploaded'
  <2>1. Table'
    BY <1>1 DEF Table, OwnDraft, LiveFor
  <2> QED
    BY <1>1, <2>1 DEF Chained, Saving, Uploaded
<1>4. Edited'
  BY <1>1, DraftTypes DEF Edited, Editing, LiveFor
<1>5. ASSUME WorkInv PROVE WorkInv'
  <2>1. Latest' /\ Counts'
    BY <1>1 DEF Latest, Counts
  <2>2. ASSUME NEW p \in Pics \ failed PROVE Kept(p)'
    <3>1. Kept(p)
      BY <1>5 DEF WorkInv
    <3> QED
      BY <1>1, <3>1 DEF Kept, LiveFor
  <2> QED
    BY <1>1, <2>1, <2>2 DEF WorkInv
<1> QED
  BY <1>2, <1>3, <1>4, <1>5 DEF DraftInv, Preserved

\* The canvas size, the list of drafts and the source image are answered.
LEMMA LookupSteps ==
  ASSUME DraftInv, NEW l \in lookups,
         \/ Listed(l)
         \/ \E yes \in BOOLEAN : SizeAnswered(l, yes) \/ SourceLoaded(l, yes)
  PROVE  Preserved
<1> USE DraftAssumption
<1>1. /\ DraftTypeOK /\ Table /\ lookups = {l} /\ layers = Bare /\ ChainKnows(l)
  BY DEF DraftInv, Chained
<1>2. CASE Listed(l)
  <2>1. /\ l.stage = "list" /\ l.of \in Pics
        /\ UNCHANGED <<galOpen, pic, layers, draftId, timer, save, dirty, upload, clears,
                       rows, userRevs>>
    BY <1>1, <1>2 DEF Listed, ChainKnows
  <2>2. ASSUME NEW d \in Drafts, rows[d].live, rows[d].for = l.of,
               lookups' = {Chain("load", l.of, d)}
        PROVE  Preserved
    <3>1. LiveFor(d, l.of)
      BY <2>2 DEF LiveFor, DraftInv, Chained
    <3>2. ChainKnows(Chain("load", l.of, d))
      BY <1>1, <2>1, <2>2, <3>1 DEF ChainKnows, Chain, Table
    <3> QED
      BY <2>1, <2>2, <3>2, ChainMoves DEF Chain
  <2>3. ASSUME \A d \in Drafts : ~(rows[d].live /\ rows[d].for = l.of), SourceNext(l)
        PROVE  Preserved
    <3>1. ChainKnows(Chain("image", l.of, NoDraft))
      BY <2>1, <2>3 DEF ChainKnows, Chain, LiveFor
    <3>2. lookups' = {Chain("image", l.of, NoDraft)} \/ lookups' = {}
      BY <1>1, <2>3 DEF SourceNext
    <3>3. CASE lookups' = {}
      BY <2>1, <3>3, ChainMoves
    <3>4. CASE lookups' = {Chain("image", l.of, NoDraft)}
      BY <2>1, <3>1, <3>4, ChainMoves DEF Chain
    <3> QED
      BY <3>2, <3>3, <3>4
  <2>4. CASE \E d \in Drafts : /\ rows[d].live /\ rows[d].for = l.of
                               /\ lookups' = {Chain("load", l.of, d)}
    BY <2>2, <2>4
  <2> QED
    BY <1>1, <1>2, <2>3, <2>4 DEF Listed
<1>3. ASSUME NEW yes \in BOOLEAN, SizeAnswered(l, yes) \/ SourceLoaded(l, yes) PROVE Preserved
  <2>1. /\ l.stage \in {"size", "image"} /\ lookups' = {}
        /\ UNCHANGED <<galOpen, pic, draftId, save, dirty, upload, clears, rows, userRevs>>
    BY <1>1, <1>3 DEF SizeAnswered, SourceLoaded
  <2>2. CASE UNCHANGED <<layers, timer>>
    BY <2>1, <2>2, ChainMoves
  <2>3. CASE layers' = [layers EXCEPT !.parts = @ \union {l.of}] /\ timer' = TRUE
    <3>1. layers' = [parts |-> {l.of}, rev |-> 0]
      BY <1>1, <2>3 DEF Bare
    <3> QED
      BY <2>1, <2>3, <3>1, ChainDraws
  <2> QED
    BY <1>3, <2>2, <2>3 DEF SizeAnswered, SourceLoaded
<1> QED
  BY <1>2, <1>3

\* A draft is shown: its layers, its picture and its id change hands together.
LEMMA LoadedStep ==
  ASSUME DraftInv, NEW l \in lookups, Loaded(l) PROVE Preserved
<1> USE DraftAssumption DEF userRevs
<1>1. /\ DraftTypeOK /\ Table /\ Chained /\ Edited /\ Saving /\ Uploaded
      /\ lookups = {l} /\ layers = Bare /\ ChainKnows(l)
      /\ ~timer /\ ~dirty /\ save = NoSave /\ upload = NoUpload /\ clears = {}
      /\ galOpen => IF l.stage = "resume" THEN pic = NoPic /\ draftId = l.draft
                                          ELSE pic = l.of /\ draftId = NoDraft
  BY DEF DraftInv, Chained
<1>2. /\ l.stage \in {"load", "resume"} /\ l.draft \in Drafts /\ rows[l.draft] # NoRow
      /\ UNCHANGED <<galOpen, timer, save, dirty, upload, clears, rows, lastRev, safe, failed>>
  <2>1. l.stage \in {"load", "resume"}
    BY DEF Loaded
  <2>2. l.stage = "load" => rows[l.draft].for \in Pics
    BY <1>1 DEF ChainKnows
  <2> QED
    BY <1>1, <2>1, <2>2 DEF Loaded, ChainKnows, NoRow
<1>3. CASE galOpen /\ rows[l.draft].live
  <2>1. /\ draftId' = l.draft /\ layers' = rows[l.draft].has /\ pic' = rows[l.draft].for
        /\ lookups' = {}
    BY <1>1, <1>2, <1>3 DEF Loaded, ChainKnows
  <2>2. /\ pic' \in Pics /\ layers'.parts \subseteq {pic'} /\ layers'.rev <= lastRev[pic']
    BY <1>1, <1>2, <2>1 DEF Table, OwnDraft
  <2>3. DraftTypeOK'
    BY <1>1, <1>2, <2>1, <2>2 DEF DraftTypeOK
  <2>4. Table' /\ Chained' /\ Saving' /\ Uploaded'
    <3>1. Table'
      BY <1>1, <1>2, <2>1 DEF Table, OwnDraft, LiveFor
    <3> QED
      BY <1>1, <1>2, <2>1, <3>1 DEF Chained, Saving, Uploaded
  <2>5. Edited'
    <3>1. LiveFor(l.draft, pic')
      BY <1>1, <1>3, <2>1 DEF LiveFor
    <3>2. \A d \in Drafts : LiveFor(d, pic') => d = l.draft /\ rows[d].has.rev <= layers'.rev
      BY <1>1, <1>2, <2>1, <2>2, <3>1, DraftTypes DEF Table
    <3>3. Owner' = l.draft
      BY <1>1, <1>2, <2>1 DEF Owner, NoSave
    <3>4. \A d \in Drafts : LiveFor(d, pic)' => LiveFor(d, pic')
      BY <1>2 DEF LiveFor
    <3> QED
      BY <1>2, <2>1, <2>2, <3>2, <3>3, <3>4 DEF Edited
  <2>6. ASSUME WorkInv PROVE WorkInv'
    <3>1. Latest' /\ Counts'
      BY <1>1, <1>2 DEF Latest, Counts
    <3>2. ASSUME NEW p \in Pics \ failed PROVE Kept(p)'
      <4>1. Kept(p)
        BY <2>6 DEF WorkInv
      <4> QED
        BY <1>1, <1>2, <4>1 DEF Kept, LiveFor
    <3> QED
      BY <1>1, <1>2, <3>1, <3>2 DEF WorkInv
  <2> QED
    BY <2>3, <2>4, <2>5, <2>6 DEF DraftInv, Preserved
<1>4. CASE ~(galOpen /\ rows[l.draft].live)
  <2>1. UNCHANGED <<draftId, layers, pic>>
    BY <1>4 DEF Loaded
  <2>2. CASE lookups' = {}
    BY <1>2, <2>1, <2>2, ChainMoves
  <2>3. CASE lookups' # {}
    <3>1. /\ l.stage = "load" /\ ~rows[l.draft].live
          /\ lookups' = {Chain("image", l.of, NoDraft)}
      BY <1>1, <2>3 DEF Loaded, SourceNext
    <3>2. l.of \in Pics /\ ChainKnows(Chain("image", l.of, NoDraft))
      BY <1>1, <3>1 DEF ChainKnows, Chain, LiveFor
    <3> QED
      BY <1>2, <2>1, <3>1, <3>2, ChainMoves DEF Chain
  <2> QED
    BY <2>2, <2>3
<1> QED
  BY <1>3, <1>4

-----------------------------------------------------------------------------
(* The invariant holds, and what it promises. *)

LEMMA DraftInvInit ==
  ASSUME GalInit PROVE DraftInv /\ WorkInv
<1> USE DraftAssumption
<1>1. Bare \in Contents
  BY ContentsMade DEF Bare
<1>2. DraftTypeOK
  <2>1. /\ save \in [id : Drafts \union {NoDraft}, for : Pics \union {NoPic}, has : Contents,
                     answer : {"none", "ok", "gone"}, made : Drafts \union {NoDraft}]
        /\ upload \in [of : Pics \union {NoPic}, rev : 0 .. MaxEdits]
    BY <1>1 DEF GalInit, NoSave, NoUpload
  <2>2. rows \in [Drafts -> [for : Pics \union {NoPic}, has : Contents, live : BOOLEAN]]
    BY <1>1 DEF GalInit, NoRow
  <2>3. lastRev \in [Pics -> 0 .. MaxEdits] /\ safe \in [Pics -> 0 .. MaxEdits]
    BY DEF GalInit
  <2> QED
    BY <1>1, <2>1, <2>2, <2>3 DEF GalInit, DraftTypeOK
<1>3. Table
  BY DEF GalInit, Table, OwnDraft, LiveFor, NoRow, Bare
<1>4. Chained /\ Edited /\ Saving /\ Uploaded
  BY DEF GalInit, Chained, Edited, Editing, Saving, Uploaded
<1>5. WorkInv
  BY DEF GalInit, WorkInv, Latest, Counts, Kept
<1> QED
  BY <1>2, <1>3, <1>4, <1>5 DEF DraftInv

LEMMA DraftInvStep ==
  ASSUME DraftInv, "switch" \notin DraftOps, [GalNext]_draftVars PROVE Preserved
<1>1. CASE EditPicture \/ Redraw
  BY <1>1, EditStep
<1>2. CASE CloseEditor \/ TimerFires
  BY <1>2, CloseStep, TimerStep
<1>3. CASE ExportToGallery \/ Exported \/ ExportFails
  BY <1>3, ExportSteps, ExportedStep
<1>4. CASE SaveArrives \/ SaveAnswered \/ SaveGone \/ SaveFails
  BY <1>4, SaveArrivesStep, SaveAnsweredStep, SaveGoneStep, SaveFailsStep
<1>5. CASE \/ \E p \in Photos : OpenPhoto(p)
           \/ \E p \in Pics \ Photos : NewCanvas(p)
           \/ \E d \in Drafts : ResumeDraft(d)
  BY <1>5, OpenSteps
<1>6. ASSUME NEW d \in Drafts, ClearArrives(d) \/ DeleteElsewhere(d) PROVE Preserved
  BY <1>6, ClearStep, DeleteStep
<1>7. ASSUME NEW l \in lookups,
             \/ Listed(l) \/ Loaded(l)
             \/ \E yes \in BOOLEAN : SizeAnswered(l, yes) \/ SourceLoaded(l, yes)
      PROVE  Preserved
  BY <1>7, LookupSteps, LoadedStep
<1>8. CASE UNCHANGED draftVars
  <2>1. DraftInv'
    BY <1>8 DEF draftVars, clientVars, userRevs, DraftInv, DraftTypeOK, Table, OwnDraft, LiveFor,
                Chained, ChainKnows, Edited, Editing, Owner, Saving, Written, Uploaded
  <2>2. ASSUME WorkInv PROVE WorkInv'
    BY <1>8, <2>2 DEF draftVars, clientVars, userRevs, WorkInv, Latest, Counts, Kept, LiveFor,
                      Editing, Written
  <2> QED
    BY <2>1, <2>2 DEF Preserved
<1> QED
  BY <1>1, <1>2, <1>3, <1>4, <1>5, <1>6, <1>7, <1>8 DEF GalNext

\* A draft never holds layers of another picture than the one it was made for,
\* for any number of pictures and drafts: state.draftId, the layers and the
\* image change hands in one openEditor, and a save that is still under way
\* when the editor is closed carries its own copy of all three.
THEOREM DraftsKeepToTheirPicture ==
  ASSUME "switch" \notin DraftOps
  PROVE  GalSpec => []OwnDraft
<1>1. GalInit => DraftInv
  BY DraftInvInit
<1>2. DraftInv /\ [GalNext]_draftVars => DraftInv'
  BY DraftInvStep DEF Preserved
<1>3. DraftInv => OwnDraft
  BY DEF DraftInv, Table
<1> QED
  BY <1>1, <1>2, <1>3, PTL DEF GalSpec

\* One draft per picture, not counting one that is about to be deleted: a POST
\* goes out only when the picture has none, and the id it returns is the
\* editor's from the answer on.
THEOREM OneDraftEach ==
  ASSUME "switch" \notin DraftOps
  PROVE  GalSpec => []OneDraft
<1>1. GalInit => DraftInv
  BY DraftInvInit
<1>2. DraftInv /\ [GalNext]_draftVars => DraftInv'
  BY DraftInvStep DEF Preserved
<1>3. DraftInv => OneDraft
  <2> SUFFICES ASSUME DraftInv, NEW p \in Pics
               PROVE  Cardinality({d \in Drafts \ clears : rows[d].live /\ rows[d].for = p}) <= 1
    BY DEF OneDraft
  <2>1. PICK S : S = {d \in Drafts \ clears : rows[d].live /\ rows[d].for = p}
    OBVIOUS
  <2>2. \A d, e \in S : d = e
    BY <2>1 DEF DraftInv, Table, LiveFor
  <2>3. S = {} \/ \E d : S = {d}
    BY <2>2
  <2>4. Cardinality(S) <= 1
    <3>1. Cardinality(S) = 0 \/ Cardinality(S) = 1
      BY <2>3, FS_EmptySet, FS_Singleton, Zenon
    <3> QED
      BY <3>1
  <2> QED
    BY <2>1, <2>4, Zenon
<1> QED
  BY <1>1, <1>2, <1>3, PTL DEF GalSpec

\* Once no save is due or under way, the last edit of every picture is in a
\* draft, unless it was saved as a copy, thrown away or its save failed: the
\* mark a second save leaves on the first, the id of a new row and the retry
\* after a 404 lose nothing, for any number of edits.
THEOREM NothingIsLost ==
  ASSUME DraftOps = {}
  PROVE  GalSpec => []WorkIsKept
<1>1. GalInit => DraftInv /\ WorkInv
  BY DraftInvInit
<1>2. DraftInv /\ WorkInv /\ [GalNext]_draftVars => DraftInv' /\ WorkInv'
  BY DraftInvStep DEF Preserved
<1>3. DraftInv /\ WorkInv => WorkIsKept
  <2> SUFFICES ASSUME WorkInv, ~timer, save = NoSave, NEW p \in Pics \ failed
               PROVE  \/ safe[p] = lastRev[p]
                      \/ \E d \in Drafts : /\ rows[d].live /\ rows[d].for = p
                                           /\ rows[d].has.rev = lastRev[p]
    BY DEF WorkIsKept
  <2>1. Kept(p) /\ ~dirty
    BY DEF WorkInv
  <2> QED
    BY <2>1 DEF Kept, LiveFor
<1> QED
  BY <1>1, <1>2, <1>3, PTL DEF GalSpec

\* Every variable of the undo history and of the drafts keeps its type when
\* the two machines are put side by side, whatever a key does to a prompt.
THEOREM EditorTypesHold ==
  ASSUME "switch" \notin DraftOps
  PROVE  EditorSpec => []EditorTypeOK
<1> DEFINE Inv == HistTypeOK /\ HistoryBounded /\ DraftInv
<1>1. EditorInit => Inv
  BY HistStart, DraftInvInit DEF EditorInit, HInv
<1>2. Inv /\ [EditorNext]_editorVars => Inv'
  <2>1. [EditorNext]_editorVars => [HistNext]_histVars /\ [GalNext]_draftVars
    BY DEF EditorNext, editorVars
  <2> QED
    BY <2>1, StacksStep, DraftInvStep DEF Preserved
<1>3. Inv => EditorTypeOK
  BY DEF DraftInv, EditorTypeOK
<1> QED
  BY <1>1, <1>2, <1>3, PTL DEF EditorSpec

=============================================================================
