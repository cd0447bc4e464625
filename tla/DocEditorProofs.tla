--------------------------- MODULE DocEditorProofs ---------------------------
(***************************************************************************)
(* In an instance without the three hazards of DocEditor ("race", "stale"  *)
(* and "mixed"), no document ever receives the text of another one, for    *)
(* every set of documents and chats.                                       *)
(*                                                                         *)
(* NoCrossWrite is not inductive: a foreign text reaches the server from   *)
(* the textarea, a tab, a PUT, a diff, an event or an animation.  Whole is *)
(* the strengthening: all of them hold texts of the document they belong   *)
(* to, and a diff exists only in the open pane it locks.  The types come   *)
(* last: they hold in every instance.                                      *)
(***************************************************************************)
EXTENDS DocEditor, TLAPS

Guarded == DocOps \intersect {"race", "stale", "mixed"} = {}

Writes == [doc : Docs, text : Texts, stage : {"sent", "saved", "missing"}]
Diffs  == [old : Texts, new : Texts, verdict : {"none", "open", "accepted", "rejected"}]
Panes  == [tabs : [Docs -> Texts \union {Absent}], active : Docs \union {NoDoc},
           editor : Texts \union {Absent}, open : BOOLEAN, diff : Diffs,
           locked : BOOLEAN, chip : Docs \union {NoDoc}, out : SUBSET Writes]

\* A pane, also one in the middle of a step, that mixes no documents up.
OwnTabs(v)   == \A d \in Docs : v.tabs[d] # Absent => Own(v.tabs[d], d)
OwnEditor(v) == v.active # NoDoc /\ v.editor # Absent => Own(v.editor, v.active)
OwnDiff(v)   == v.diff # NoDiff =>
                  /\ v.open /\ v.locked
                  /\ v.active # NoDoc => /\ Own(v.diff.old, v.active)
                                         /\ Own(v.diff.new, v.active)
OwnOut(v)    == \A p \in v.out : Own(p.text, p.doc)
Shows(v)     == v.editor # Absent <=> v.open
Clean(v)     == OwnTabs(v) /\ OwnEditor(v) /\ OwnDiff(v) /\ OwnOut(v) /\ Shows(v)

-----------------------------------------------------------------------------
(* What the calls on a pane keep. *)

LEMMA BlankText == Blank \in Texts /\ Blank # Absent /\ \A d : Own(Blank, d)
BY AbsentAssumption DEF Blank, Texts, Own

LEMMA NoDiffType == NoDiff \in Diffs
BY BlankText DEF NoDiff, Diffs

LEMMA KeptClean ==
  ASSUME NEW v \in Panes, Clean(v)
  PROVE  /\ Kept(v) \in Panes /\ Clean(Kept(v))
         /\ Kept(v) = [v EXCEPT !.tabs = Kept(v).tabs]
         /\ \A d \in Docs : Kept(v).tabs[d] = Absent <=> v.tabs[d] = Absent
<1>1. CASE v.active # NoDoc /\ v.editor # Absent /\ v.tabs[v.active] # Absent
  <2>1. Kept(v) = [v EXCEPT !.tabs[v.active] = v.editor]
    BY <1>1 DEF Kept
  <2>2. v.active \in Docs /\ v.editor \in Texts
    BY <1>1 DEF Panes
  <2>3. Kept(v) \in Panes
    BY <2>1, <2>2 DEF Panes
  <2>4. \A d \in Docs : Kept(v).tabs[d] = IF d = v.active THEN v.editor ELSE v.tabs[d]
    BY <2>1, <2>2 DEF Panes
  <2>5. Kept(v) = [v EXCEPT !.tabs = Kept(v).tabs]
    BY <2>1 DEF Panes
  <2>6. Clean(Kept(v))
    BY <1>1, <2>2, <2>4, <2>5 DEF Clean, OwnTabs, OwnEditor, OwnDiff, OwnOut, Shows, Panes
  <2> QED BY <1>1, <2>2, <2>3, <2>4, <2>5, <2>6, AbsentAssumption
<1>2. CASE ~(v.active # NoDoc /\ v.editor # Absent /\ v.tabs[v.active] # Absent)
  <2>1. Kept(v) = v
    BY <1>2 DEF Kept
  <2> QED BY <2>1 DEF Panes
<1> QED BY <1>1, <1>2

LEMMA SavingClean ==
  ASSUME NEW v \in Panes, Clean(v)
  PROVE  /\ Saving(v) \in Panes /\ Clean(Saving(v))
         /\ Saving(v).diff = v.diff /\ Saving(v).active = v.active
         /\ Saving(v).editor = v.editor /\ Saving(v).open = v.open
         /\ \A d \in Docs : Saving(v).tabs[d] = Absent <=> v.tabs[d] = Absent
<1> DEFINE w == Kept(v)
           p == Put(v.active, v.editor)
<1>0. /\ w \in Panes /\ Clean(w)
      /\ w = [v EXCEPT !.tabs = w.tabs]
      /\ \A d \in Docs : w.tabs[d] = Absent <=> v.tabs[d] = Absent
  BY KeptClean
<1>1. CASE v.active = NoDoc \/ v.editor = Absent
  BY <1>1 DEF Saving
<1>2. CASE ~(v.active = NoDoc \/ v.editor = Absent)
  <2>1. Saving(v) = [w EXCEPT !.out = w.out \union {p}]
    BY <1>2, <1>0 DEF Saving, Panes
  <2>2. p \in Writes /\ Own(p.text, p.doc)
    BY <1>2 DEF Put, Writes, Panes, Clean, OwnEditor
  <2> HIDE DEF w, p
  <2>3. Saving(v) \in Panes
    BY <1>0, <2>1, <2>2 DEF Panes
  <2>4. Clean(Saving(v))
    BY <1>0, <2>1, <2>2 DEF Clean, OwnTabs, OwnEditor, OwnDiff, OwnOut, Shows, Panes
  <2>5. /\ w.diff = v.diff /\ w.active = v.active /\ w.editor = v.editor /\ w.open = v.open
    BY <1>0 DEF Panes
  <2>6. /\ Saving(v).diff = w.diff /\ Saving(v).active = w.active
        /\ Saving(v).editor = w.editor /\ Saving(v).open = w.open
        /\ Saving(v).tabs = w.tabs
    BY <1>0, <2>1 DEF Panes
  <2> QED BY <1>0, <2>3, <2>4, <2>5, <2>6
<1> QED BY <1>1, <1>2

LEMMA ExitedClean ==
  ASSUME NEW v \in Panes, Clean(v), NEW discard \in BOOLEAN
  PROVE  LET w == Exited(v, discard)
         IN /\ w \in Panes /\ Clean(w) /\ w.diff = NoDiff
            /\ w.active = v.active /\ w.open = v.open
            /\ \A d \in Docs : w.tabs[d] = Absent <=> v.tabs[d] = Absent
<1> DEFINE final == IF ~discard /\ v.diff.verdict = "accepted" THEN v.diff.new
                    ELSE v.diff.old
           u == [v EXCEPT !.editor = IF v.editor = Absent THEN Absent ELSE final,
                          !.diff = NoDiff, !.locked = FALSE]
<1>1. CASE v.diff = NoDiff
  BY <1>1 DEF Exited
<1>2. CASE v.diff # NoDiff
  <2>1. Exited(v, discard) = Saving(u)
    BY <1>2 DEF Exited, Panes
  <2>2. final \in Texts /\ final # Absent
    BY AbsentAssumption DEF Panes, Diffs
  <2>3. v.active # NoDoc => Own(final, v.active)
    BY <1>2 DEF Clean, OwnDiff
  <2> HIDE DEF final
  <2>4. u \in Panes /\ u.diff = NoDiff /\ u.active = v.active /\ u.open = v.open
        /\ u.tabs = v.tabs
    BY <2>2, NoDiffType DEF Panes
  <2>5. Clean(u)
    BY <2>2, <2>3 DEF Clean, OwnTabs, OwnEditor, OwnDiff, OwnOut, Shows, Panes
  <2> HIDE DEF u
  <2> QED BY <2>1, <2>4, <2>5, SavingClean
<1> QED BY <1>1, <1>2

LEMMA ShownClean ==
  ASSUME NEW v \in Panes, Clean(v), NEW d \in Docs
  PROVE  Shown(v, d) \in Panes /\ Clean(Shown(v, d))
<1> DEFINE x == Exited(v, TRUE)
           w == Kept(x)
<1>1. x \in Panes /\ Clean(x) /\ x.diff = NoDiff
  BY ExitedClean
<1> HIDE DEF x
<1>2. w \in Panes /\ Clean(w) /\ w = [x EXCEPT !.tabs = w.tabs]
  BY <1>1, KeptClean
<1>3. w.diff = NoDiff
  BY <1>1, <1>2 DEF Panes
<1>4. CASE w.tabs[d] = Absent
  BY <1>4 DEF Shown, x
<1>5. CASE w.tabs[d] # Absent
  <2>1. Shown(v, d) = [w EXCEPT !.active = d,
                         !.editor = IF w.editor = Absent THEN Absent ELSE w.tabs[d]]
    BY <1>5, <1>2 DEF Shown, x, Panes
  <2> HIDE DEF w
  <2>2. w.tabs[d] \in Texts /\ Own(w.tabs[d], d)
    BY <1>2, <1>5 DEF Panes, Clean, OwnTabs
  <2>3. Shown(v, d) \in Panes
    BY <1>2, <2>1, <2>2 DEF Panes
  <2>4. Clean(Shown(v, d))
    BY <1>2, <1>3, <1>5, <2>1, <2>2
       DEF Clean, OwnTabs, OwnEditor, OwnDiff, OwnOut, Shows, Panes
  <2> QED BY <2>3, <2>4
<1> QED BY <1>4, <1>5

LEMMA OpenedClean ==
  ASSUME NEW v \in Panes, Clean(v)
  PROVE  /\ Opened(v) \in Panes /\ Clean(Opened(v)) /\ Opened(v).open
         /\ Opened(v).editor # Absent /\ Opened(v).diff = v.diff
         /\ Opened(v).tabs = v.tabs /\ Opened(v).out = v.out
         /\ Opened(v).active = v.active
         /\ v.open => Opened(v) = v
<1>1. CASE v.open
  BY <1>1 DEF Opened, Clean, Shows
<1>2. CASE ~v.open
  <2>1. Opened(v) = [v EXCEPT !.open = TRUE, !.editor = Blank, !.chip = NoDoc,
                              !.locked = FALSE]
    BY <1>2 DEF Opened
  <2>2. Opened(v) \in Panes /\ Opened(v).open /\ Opened(v).editor # Absent
        /\ Opened(v).diff = v.diff
        /\ Opened(v).tabs = v.tabs /\ Opened(v).out = v.out
        /\ Opened(v).active = v.active
    BY <2>1, BlankText DEF Panes
  <2>3. Clean(Opened(v))
    BY <1>2, <2>1, BlankText
       DEF Clean, OwnTabs, OwnEditor, OwnDiff, OwnOut, Shows, Panes
  <2> QED BY <1>2, <2>2, <2>3
<1> QED BY <1>1, <1>2

LEMMA ClosedClean ==
  ASSUME NEW v \in Panes, Clean(v), v.diff = NoDiff, NEW down \in BOOLEAN
  PROVE  Closed(v, down) \in Panes /\ Clean(Closed(v, down))
<1> DEFINE w == Kept(v)
<1>0. w \in Panes /\ Clean(w) /\ w = [v EXCEPT !.tabs = w.tabs]
  BY KeptClean
<1>1. w.diff = NoDiff
  BY <1>0 DEF Panes
<1>2. CASE ~v.open
  BY <1>2 DEF Closed, Clean, OwnTabs, OwnEditor, OwnDiff, OwnOut, Shows, Panes
<1>3. CASE v.open
  <2>1. Closed(v, down) = [w EXCEPT !.open = FALSE, !.editor = Absent, !.active = NoDoc,
                             !.chip = IF down THEN v.active ELSE NoDoc]
    BY <1>3 DEF Closed
  <2> HIDE DEF w
  <2>2. Closed(v, down) \in Panes
    BY <1>0, <2>1 DEF Panes
  <2>3. Clean(Closed(v, down))
    BY <1>0, <1>1, <2>1 DEF Clean, OwnTabs, OwnEditor, OwnDiff, OwnOut, Shows, Panes
  <2> QED BY <2>2, <2>3
<1> QED BY <1>2, <1>3

\* A document leaves the map.
LEMMA ForgetClean ==
  ASSUME NEW v \in Panes, Clean(v), NEW d \in Docs
  PROVE  /\ [v EXCEPT !.tabs[d] = Absent] \in Panes
         /\ Clean([v EXCEPT !.tabs[d] = Absent])
BY DEF Clean, OwnTabs, OwnEditor, OwnDiff, OwnOut, Shows, Panes

\* A document enters it.
LEMMA LearnClean ==
  ASSUME NEW v \in Panes, Clean(v), NEW d \in Docs, NEW t \in Texts, Own(t, d)
  PROVE  /\ [v EXCEPT !.tabs[d] = t] \in Panes
         /\ Clean([v EXCEPT !.tabs[d] = t])
BY AbsentAssumption DEF Clean, OwnTabs, OwnEditor, OwnDiff, OwnOut, Shows, Panes

\* No document is active any more.
LEMMA LeaveClean ==
  ASSUME NEW v \in Panes, Clean(v)
  PROVE  /\ [v EXCEPT !.active = NoDoc] \in Panes
         /\ Clean([v EXCEPT !.active = NoDoc])
         /\ [v EXCEPT !.active = NoDoc].diff = v.diff
BY DEF Clean, OwnTabs, OwnEditor, OwnDiff, OwnOut, Shows, Panes

-----------------------------------------------------------------------------
(* The inductive invariant. *)

Whole ==
  /\ pane \in Panes /\ Clean(pane)
  /\ puts \subseteq Writes /\ \A p \in puts : Own(p.text, p.doc)
  /\ stored \in [Docs -> Texts \union {Absent}] /\ NoCrossWrite
  /\ newest \in [Docs -> 0..MaxRev]
  /\ \A f \in fetches : f.kind = "doc" => f.doc \in Docs
  /\ \A m \in mail : m.doc \in Docs /\ m.text \in Texts /\ Own(m.text, m.doc)
  /\ streaming \in Docs \union {NoDoc}
  /\ anim \in Texts \union {Absent}
  /\ anim # Absent /\ pane.active # NoDoc => Own(anim, pane.active)
  /\ creating \in Docs \union {NoDoc}
  /\ creating # NoDoc => /\ anim = Absent /\ newest[creating] = 1
                         /\ pane.active = NoDoc /\ pane.diff = NoDiff
                         /\ pane.editor # Absent => Own(pane.editor, creating)

\* The pane and the PUTs after a step that commits a clean pane.
LEMMA CommitWhole ==
  ASSUME puts \subseteq Writes, \A p \in puts : Own(p.text, p.doc),
         NEW v \in Panes, Clean(v), Commit(v)
  PROVE  /\ pane' \in Panes /\ Clean(pane') /\ pane' = [v EXCEPT !.out = {}]
         /\ puts' \subseteq Writes /\ \A p \in puts' : Own(p.text, p.doc)
<1>1. pane' = [v EXCEPT !.out = {}] /\ puts' = puts \union v.out
  BY DEF Commit
<1>2. pane' \in Panes
  BY <1>1 DEF Panes
<1>3. Clean(pane')
  BY <1>1 DEF Clean, OwnTabs, OwnEditor, OwnDiff, OwnOut, Shows, Panes
<1>4. puts' \subseteq Writes /\ \A p \in puts' : Own(p.text, p.doc)
  BY <1>1 DEF Panes, Clean, OwnOut
<1> QED BY <1>1, <1>2, <1>3, <1>4

\* A step of the user, a timer or an answer that only commits a clean pane,
\* with nothing typed by an animation and no document being created.
LEMMA PaneStep ==
  ASSUME Whole, anim = Absent, creating = NoDoc, NEW v \in Panes, Clean(v), Commit(v),
         UNCHANGED <<stored, newest, mail, streaming, anim, creating>>,
         \A f \in fetches' : f.kind = "doc" => f.doc \in Docs
  PROVE  Whole'
<1>1. /\ pane' \in Panes /\ Clean(pane')
      /\ puts' \subseteq Writes /\ \A p \in puts' : Own(p.text, p.doc)
  BY CommitWhole DEF Whole
<1> QED BY <1>1 DEF Whole, NoCrossWrite, Clean, OwnTabs, OwnEditor, OwnDiff, OwnOut, Shows

\* The same for a step that may also delete a document on the server.
LEMMA DeletingStep ==
  ASSUME Whole, anim = Absent, creating = NoDoc, NEW v \in Panes, Clean(v), Commit(v),
         NEW u, NEW d \in Docs, DeleteIfEmpty(u, d),
         UNCHANGED <<newest, fetches, mail, streaming, anim, creating>>
  PROVE  Whole'
<1>1. /\ pane' \in Panes /\ Clean(pane')
      /\ puts' \subseteq Writes /\ \A p \in puts' : Own(p.text, p.doc)
  BY CommitWhole DEF Whole
<1>2. stored' \in [Docs -> Texts \union {Absent}] /\ NoCrossWrite'
  BY DEF DeleteIfEmpty, Whole, NoCrossWrite
<1> QED BY <1>1, <1>2 DEF Whole, Clean, OwnTabs, OwnEditor, OwnDiff, OwnOut, Shows

\* A document that leaves the map, saved or not.
LEMMA DetachedClean ==
  ASSUME NEW v \in Panes, Clean(v), NEW d \in Docs
  PROVE  /\ Detached(v, d) \in Panes /\ Clean(Detached(v, d))
         /\ v.diff = NoDiff => Detached(v, d).diff = NoDiff
<1> DEFINE w == IF NoContent(v, d) THEN v ELSE Saving(v)
<1>1. w \in Panes /\ Clean(w) /\ (v.diff = NoDiff => w.diff = NoDiff)
  BY SavingClean
<1>2. Detached(v, d) = [w EXCEPT !.tabs[d] = Absent]
  BY DEF Detached
<1> HIDE DEF w
<1> QED BY <1>1, <1>2, ForgetClean DEF Panes

LEMMA NextRevText ==
  ASSUME NEW d \in Docs, newest \in [Docs -> 0..MaxRev], newest[d] < MaxRev
  PROVE  /\ NextRev(d) \in Texts /\ Own(NextRev(d), d)
         /\ [newest EXCEPT ![d] = @ + 1] \in [Docs -> 0..MaxRev]
BY DocAssumption DEF NextRev, Texts, Own

LEMMA InitWhole == DocInit => Whole
<1> SUFFICES ASSUME DocInit PROVE Whole
  OBVIOUS
<1>1. pane \in Panes
  BY NoDiffType DEF DocInit, Panes
<1>2. Clean(pane)
  BY DEF DocInit, Clean, OwnTabs, OwnEditor, OwnDiff, OwnOut, Shows
<1>3. stored \in [Docs -> Texts \union {Absent}] /\ NoCrossWrite
  <2>1. \A d \in Docs : stored[d] \in {Absent, [of |-> d, rev |-> 0]}
    BY DEF DocInit
  <2>2. \A d \in Docs : stored[d] \in Texts \union {Absent} /\
                        (stored[d] # Absent => Own(stored[d], d))
    BY <2>1, DocAssumption DEF Texts, Own
  <2>3. stored \in [Docs -> Texts \union {Absent}]
    BY DEF DocInit
  <2> QED BY <2>2, <2>3 DEF NoCrossWrite
<1>4. newest \in [Docs -> 0..MaxRev]
  BY DocAssumption DEF DocInit
<1> QED BY <1>1, <1>2, <1>3, <1>4 DEF DocInit, Whole

-----------------------------------------------------------------------------
(* The user's steps. *)

LEMMA TypeWhole ==
  ASSUME Whole, anim = Absent, creating = NoDoc, Type PROVE Whole'
<1> DEFINE whose == IF pane.editor = Blank THEN pane.active ELSE pane.editor.of
<1>1. /\ pane.open /\ pane.active # NoDoc /\ newest[whose] < MaxRev
      /\ pane' = [pane EXCEPT !.editor = NextRev(whose)]
      /\ newest' = [newest EXCEPT ![whose] = @ + 1]
      /\ UNCHANGED <<puts, stored, fetches, mail, streaming, anim, creating>>
  BY DEF Type, aiVars, callVars
<1>2. pane \in Panes /\ Clean(pane) /\ newest \in [Docs -> 0..MaxRev]
  BY DEF Whole
<1>3. pane.editor \in Texts /\ pane.active \in Docs
  BY <1>1, <1>2 DEF Clean, Shows, Panes
<1>4. whose = pane.active
  <2>1. CASE pane.editor = Blank
    BY <2>1
  <2>2. CASE pane.editor # Blank
    <3>1. pane.editor.of \in Docs
      BY <1>3, <2>2 DEF Texts
    <3>2. Own(pane.editor, pane.active)
      BY <1>1, <1>2, <1>3, AbsentAssumption DEF Clean, OwnEditor
    <3> QED BY <2>2, <3>1, <3>2, DocAssumption DEF Own
  <2> QED BY <2>1, <2>2
<1> HIDE DEF whose
<1>5. /\ NextRev(whose) \in Texts /\ Own(NextRev(whose), pane.active)
      /\ newest' \in [Docs -> 0..MaxRev]
  BY <1>1, <1>2, <1>3, <1>4, NextRevText
<1>6. pane' \in Panes /\ Clean(pane')
  BY <1>1, <1>2, <1>5, AbsentAssumption
     DEF Clean, OwnTabs, OwnEditor, OwnDiff, OwnOut, Shows, Panes
<1> QED BY <1>1, <1>5, <1>6 DEF Whole, NoCrossWrite

LEMMA ClickTabWhole ==
  ASSUME Whole, anim = Absent, creating = NoDoc, NEW d \in Docs, ClickTab(d)
  PROVE  Whole'
<1>1. Shown(pane, d) \in Panes /\ Clean(Shown(pane, d))
  BY ShownClean DEF Whole
<1> QED BY <1>1, PaneStep DEF ClickTab, dbVars, aiVars, callVars, Whole

LEMMA CloseTabWhole ==
  ASSUME Guarded, Whole, anim = Absent, creating = NoDoc, NEW d \in Docs, CloseTab(d)
  PROVE  Whole'
<1> DEFINE u == Kept(pane)
           v == Detached(u, d)
<1>1. u \in Panes /\ Clean(u) /\ u.diff = NoDiff
  <2>1. pane.diff = NoDiff
    BY DEF CloseTab, Reviewed, Guarded
  <2> QED BY <2>1, KeptClean DEF Whole, Panes
<1> HIDE DEF u
<1>2. v \in Panes /\ Clean(v) /\ v.diff = NoDiff
  BY <1>1, DetachedClean
<1>3. /\ \/ Commit(Closed([v EXCEPT !.active = NoDoc], FALSE))
         \/ \E e \in Docs : Commit(IF v.active = d THEN Shown(v, e) ELSE v)
      /\ DeleteIfEmpty(u, d)
      /\ UNCHANGED <<newest, fetches, mail, streaming, anim, creating>>
  BY DEF CloseTab, Here, Tabs, aiVars, callVars, u
<1> HIDE DEF v
<1>4. CASE Commit(Closed([v EXCEPT !.active = NoDoc], FALSE))
  <2>1. /\ Closed([v EXCEPT !.active = NoDoc], FALSE) \in Panes
        /\ Clean(Closed([v EXCEPT !.active = NoDoc], FALSE))
    BY <1>2, LeaveClean, ClosedClean
  <2> QED BY <1>3, <1>4, <2>1, DeletingStep
<1>5. ASSUME NEW e \in Docs, Commit(IF v.active = d THEN Shown(v, e) ELSE v)
      PROVE  Whole'
  <2> DEFINE w == IF v.active = d THEN Shown(v, e) ELSE v
  <2>1. w \in Panes /\ Clean(w)
    BY <1>2, ShownClean
  <2>2. Commit(w)
    BY <1>5
  <2> HIDE DEF w
  <2> QED BY <1>3, <2>1, <2>2, DeletingStep
<1> QED BY <1>3, <1>4, <1>5

LEMMA ClosePanelWhole ==
  ASSUME Guarded, Whole, anim = Absent, creating = NoDoc, NEW down \in BOOLEAN,
         ClosePanel(down)
  PROVE  Whole'
<1>1. pane.diff = NoDiff
  BY DEF ClosePanel, Reviewed, Guarded
<1>2. Closed(pane, down) \in Panes /\ Clean(Closed(pane, down))
  BY <1>1, ClosedClean DEF Whole
<1> QED BY <1>2, PaneStep DEF ClosePanel, dbVars, aiVars, callVars, Whole

\* A chip that goes, and a document detached from it.
LEMMA ChipClean ==
  ASSUME NEW v \in Panes, Clean(v)
  PROVE  [v EXCEPT !.chip = NoDoc] \in Panes /\ Clean([v EXCEPT !.chip = NoDoc])
BY DEF Clean, OwnTabs, OwnEditor, OwnDiff, OwnOut, Shows, Panes

LEMMA CloseChipWhole ==
  ASSUME Whole, anim = Absent, creating = NoDoc, CloseChip PROVE Whole'
<1> DEFINE c == [pane EXCEPT !.chip = NoDoc]
<1>1. /\ Commit(Detached(c, pane.chip)) /\ pane.chip \in Docs
      /\ DeleteIfEmpty(pane, pane.chip)
      /\ UNCHANGED <<newest, fetches, mail, streaming, anim, creating>>
  BY DEF CloseChip, aiVars, callVars, Whole, Panes
<1>2. c \in Panes /\ Clean(c)
  BY ChipClean DEF Whole
<1> HIDE DEF c
<1>3. Detached(c, pane.chip) \in Panes /\ Clean(Detached(c, pane.chip))
  BY <1>1, <1>2, DetachedClean
<1> QED BY <1>1, <1>3, DeletingStep

LEMMA RestoreChipWhole ==
  ASSUME Whole, anim = Absent, creating = NoDoc, RestoreChip PROVE Whole'
<1> DEFINE w == Shown(Opened(pane), pane.chip)
<1>1. /\ Commit(w) /\ pane.chip \in Docs
      /\ UNCHANGED <<stored, newest, fetches, mail, streaming, anim, creating>>
  BY DEF RestoreChip, dbVars, aiVars, callVars, Whole, Panes
<1>2. w \in Panes /\ Clean(w)
  BY <1>1, OpenedClean, ShownClean DEF Whole
<1> HIDE DEF w
<1> QED BY <1>1, <1>2, PaneStep DEF Whole

LEMMA OpenDocWhole ==
  ASSUME Whole, anim = Absent, creating = NoDoc, NEW d \in Docs, OpenDoc(d)
  PROVE  Whole'
<1> DEFINE w == Shown(Opened(pane), d)
<1>1. UNCHANGED <<stored, newest, mail, streaming, anim, creating>>
  BY DEF OpenDoc, dbVars, aiVars, callVars
<1>2. CASE pane.tabs[d] # Absent
  <2>1. Commit(w) /\ UNCHANGED fetches
    BY <1>2 DEF OpenDoc
  <2>2. w \in Panes /\ Clean(w)
    BY OpenedClean, ShownClean DEF Whole
  <2> HIDE DEF w
  <2> QED BY <1>1, <2>1, <2>2, PaneStep DEF Whole
<1>3. CASE pane.tabs[d] = Absent
  <2>1. /\ fetches' = fetches \union {[kind |-> "doc", doc |-> d]}
        /\ UNCHANGED <<pane, puts>>
    BY <1>3 DEF OpenDoc
  <2> QED BY <1>1, <2>1 DEF Whole, NoCrossWrite
<1> QED BY <1>2, <1>3

LEMMA GoToChatWhole ==
  ASSUME Guarded, Whole, anim = Absent, creating = NoDoc, NEW s \in Chats, GoToChat(s)
  PROVE  Whole'
<1>1. /\ pane' = [pane EXCEPT !.active = NoDoc,
                    !.tabs = [d \in Docs |-> IF ChatOf[d] = s THEN pane.tabs[d] ELSE Absent]]
      /\ fetches' = fetches \union {[kind |-> "chat", chat |-> s]}
      /\ UNCHANGED <<puts, stored, newest, mail, streaming, anim, creating>>
  BY DEF GoToChat, dbVars, aiVars, callVars
<1>2. pane \in Panes /\ Clean(pane)
  BY DEF Whole
<1>3. pane' \in Panes
  BY <1>1, <1>2 DEF Panes
<1>4. Clean(pane')
  BY <1>1, <1>2 DEF Clean, OwnTabs, OwnEditor, OwnDiff, OwnOut, Shows, Panes
<1> QED BY <1>1, <1>3, <1>4 DEF Whole, NoCrossWrite

LEMMA ResolveWhole ==
  ASSUME Whole, anim = Absent, creating = NoDoc,
         NEW verdict \in {"accepted", "rejected"}, Resolve(verdict)
  PROVE  Whole'
<1> DEFINE text == IF verdict = "accepted" THEN pane.diff.new ELSE pane.diff.old
           u == [pane EXCEPT !.diff.verdict = verdict, !.editor = text]
<1>1. /\ pane.open /\ pane.locked /\ pane.diff.verdict = "open"
      /\ Commit(Saving(u))
      /\ UNCHANGED <<stored, newest, fetches, mail, streaming, anim, creating>>
  BY DEF Resolve, dbVars, aiVars, callVars
<1>2. pane \in Panes /\ Clean(pane) /\ pane.diff # NoDiff
  BY <1>1 DEF Whole, NoDiff
<1>3. text \in Texts /\ text # Absent /\ (pane.active # NoDoc => Own(text, pane.active))
  BY <1>2, AbsentAssumption DEF Panes, Diffs, Clean, OwnDiff
<1> HIDE DEF text
<1>4. /\ u \in Panes
      /\ u.diff.old = pane.diff.old /\ u.diff.new = pane.diff.new
      /\ u.active = pane.active /\ u.editor = text /\ u.open = pane.open
      /\ u.locked = pane.locked /\ u.tabs = pane.tabs /\ u.out = pane.out
  BY <1>2, <1>3 DEF Panes, Diffs
<1> HIDE DEF u
<1>5. Clean(u)
  BY <1>1, <1>2, <1>3, <1>4 DEF Clean, OwnTabs, OwnEditor, OwnDiff, OwnOut, Shows
<1>6. Saving(u) \in Panes /\ Clean(Saving(u))
  BY <1>4, <1>5, SavingClean
<1> QED BY <1>1, <1>6, PaneStep DEF Whole

LEMMA CreateWhole ==
  ASSUME Whole, anim = Absent, creating = NoDoc, NEW d \in Docs, Create(d)
  PROVE  Whole'
<1>1. /\ pane.open /\ pane.active = NoDoc /\ ~pane.locked /\ newest[d] < MaxRev
      /\ newest[d] = 0 /\ creating' = d
      /\ newest' = [newest EXCEPT ![d] = 1]
      /\ pane' = [pane EXCEPT !.editor = [of |-> d, rev |-> 1]]
      /\ UNCHANGED <<puts, stored, fetches, mail, streaming, anim>>
  BY DEF Create, aiVars
<1>2. pane \in Panes /\ Clean(pane) /\ newest \in [Docs -> 0..MaxRev]
  BY DEF Whole
<1>3. /\ [of |-> d, rev |-> 1] \in Texts /\ Own([of |-> d, rev |-> 1], d)
      /\ [of |-> d, rev |-> 1] # Absent /\ newest' \in [Docs -> 0..MaxRev]
  BY <1>1, <1>2, DocAssumption, AbsentAssumption DEF Texts, Own
<1>4. pane.diff = NoDiff
  BY <1>1, <1>2 DEF Clean, OwnDiff
<1>5. /\ pane' \in Panes /\ pane'.active = NoDoc /\ pane'.diff = NoDiff
      /\ pane'.editor = [of |-> d, rev |-> 1]
  BY <1>1, <1>2, <1>3, <1>4 DEF Panes
<1>6. Clean(pane')
  BY <1>1, <1>2, <1>3, <1>4 DEF Clean, OwnTabs, OwnEditor, OwnDiff, OwnOut, Shows, Panes
<1> QED BY <1>1, <1>3, <1>5, <1>6 DEF Whole, NoCrossWrite

LEMMA CreatedWhole ==
  ASSUME Whole, Created PROVE Whole'
<1> DEFINE t == [of |-> creating, rev |-> 1]
<1>1. /\ creating # NoDoc /\ creating' = NoDoc
      /\ stored' = [stored EXCEPT ![creating] = t]
      /\ pane' = [pane EXCEPT !.tabs[creating] = t, !.active = creating]
      /\ UNCHANGED <<puts, newest, fetches, mail, streaming, anim>>
  BY DEF Created, aiVars
<1>2. /\ pane \in Panes /\ Clean(pane) /\ creating \in Docs /\ anim = Absent
      /\ pane.active = NoDoc /\ pane.diff = NoDiff
      /\ pane.editor # Absent => Own(pane.editor, creating)
  BY <1>1 DEF Whole
<1>3. t \in Texts /\ Own(t, creating) /\ t # Absent
  <2>1. newest[creating] \in 0..MaxRev /\ newest[creating] = 1
    BY <1>1, <1>2 DEF Whole
  <2>2. t \in Texts
    BY <1>2, <2>1 DEF Texts
  <2> QED BY <2>2, AbsentAssumption DEF Own
<1> HIDE DEF t
<1>4. /\ pane' \in Panes /\ pane'.active = creating /\ pane'.diff = NoDiff
      /\ pane'.editor = pane.editor /\ pane'.open = pane.open /\ pane'.out = pane.out
      /\ \A d \in Docs : pane'.tabs[d] = IF d = creating THEN t ELSE pane.tabs[d]
  BY <1>1, <1>2, <1>3 DEF Panes
<1>5. Clean(pane')
  BY <1>1, <1>2, <1>3, <1>4 DEF Clean, OwnTabs, OwnEditor, OwnDiff, OwnOut, Shows
<1>6. stored' \in [Docs -> Texts \union {Absent}] /\ NoCrossWrite'
  BY <1>1, <1>2, <1>3 DEF Whole, NoCrossWrite
<1> QED BY <1>1, <1>2, <1>4, <1>5, <1>6 DEF Whole

LEMMA AskDeleteWhole ==
  ASSUME Whole, AskDelete PROVE Whole'
BY DEF AskDelete, Whole, NoCrossWrite, dbVars, aiVars

LEMMA ConfirmDeleteWhole ==
  ASSUME Whole, ConfirmDelete PROVE Whole'
<1>1. /\ UNCHANGED <<pane, puts, newest, fetches, mail, streaming, anim, creating>>
      /\ \/ UNCHANGED stored
         \/ \E d \in Docs : stored' = [stored EXCEPT ![d] = Absent]
  BY DEF ConfirmDelete, aiVars, Whole, Panes
<1>2. stored' \in [Docs -> Texts \union {Absent}] /\ NoCrossWrite'
  BY <1>1 DEF Whole, NoCrossWrite
<1> QED BY <1>1, <1>2 DEF Whole

LEMMA DeletedWhole ==
  ASSUME Guarded, Whole, anim = Absent, creating = NoDoc, Deleted PROVE Whole'
<1> DEFINE v == IF pane.active = NoDoc THEN pane
                ELSE [pane EXCEPT !.tabs[pane.active] = Absent]
<1>1. /\ \/ Commit(Closed([v EXCEPT !.active = NoDoc], FALSE))
         \/ \E d \in Docs : Commit(Shown(v, d))
      /\ UNCHANGED <<stored, newest, fetches, mail, streaming, anim, creating>>
  BY DEF Deleted, Tabs, dbVars, aiVars
<1>2. v \in Panes /\ Clean(v) /\ v.diff = NoDiff
  <2>1. pane.diff = NoDiff
    BY DEF Deleted, Reviewed, Guarded
  <2> QED BY <2>1, ForgetClean DEF Whole, Panes
<1> HIDE DEF v
<1>3. CASE Commit(Closed([v EXCEPT !.active = NoDoc], FALSE))
  <2>1. /\ Closed([v EXCEPT !.active = NoDoc], FALSE) \in Panes
        /\ Clean(Closed([v EXCEPT !.active = NoDoc], FALSE))
    BY <1>2, LeaveClean, ClosedClean
  <2> QED BY <1>1, <1>3, <2>1, PaneStep DEF Whole
<1>4. ASSUME NEW d \in Docs, Commit(Shown(v, d)) PROVE Whole'
  <2>1. Shown(v, d) \in Panes /\ Clean(Shown(v, d))
    BY <1>2, ShownClean
  <2> QED BY <1>1, <1>4, <2>1, PaneStep DEF Whole
<1> QED BY <1>1, <1>3, <1>4

-----------------------------------------------------------------------------
(* Timers and answers. *)

LEMMA AutosaveWhole ==
  ASSUME Whole, anim = Absent, creating = NoDoc, Autosave PROVE Whole'
<1>1. Saving(pane) \in Panes /\ Clean(Saving(pane))
  BY SavingClean DEF Whole
<1> QED BY <1>1, PaneStep DEF Autosave, dbVars, aiVars, callVars, Whole

\* The end of a diff and of an animation, which nothing else precedes.
LEMMA DiffEndsWhole ==
  ASSUME Whole, DiffEnds PROVE Whole'
<1> DEFINE w == Exited(pane, FALSE)
<1>1. /\ w \in Panes /\ Clean(w) /\ w.active = pane.active
  BY ExitedClean DEF Whole
<1>2. /\ Commit(w)
      /\ UNCHANGED <<stored, newest, fetches, mail, streaming, anim, creating>>
  BY DEF DiffEnds, dbVars, aiVars, callVars
<1>5. pane.diff # NoDiff
  BY DEF DiffEnds, NoDiff
<1> HIDE DEF w
<1>3. /\ pane' \in Panes /\ Clean(pane') /\ pane' = [w EXCEPT !.out = {}]
      /\ puts' \subseteq Writes /\ \A p \in puts' : Own(p.text, p.doc)
  BY <1>1, <1>2, CommitWhole DEF Whole
<1>4. pane'.active = pane.active
  BY <1>1, <1>3 DEF Panes
<1> QED BY <1>1, <1>2, <1>3, <1>4, <1>5 DEF Whole, NoCrossWrite

LEMMA AnimEndsWhole ==
  ASSUME Whole, AnimEnds PROVE Whole'
<1>1. /\ anim # Absent /\ anim' = Absent
      /\ pane' = [pane EXCEPT !.editor = IF pane.editor = Absent THEN Absent ELSE anim]
      /\ UNCHANGED <<puts, stored, newest, fetches, mail, streaming, creating>>
  BY DEF AnimEnds, dbVars, callVars
<1>2. /\ pane \in Panes /\ Clean(pane) /\ anim \in Texts /\ creating = NoDoc
      /\ pane.active # NoDoc => Own(anim, pane.active)
  BY <1>1 DEF Whole
<1>3. pane' \in Panes
  BY <1>1, <1>2 DEF Panes
<1>4. Clean(pane')
  BY <1>1, <1>2 DEF Clean, OwnTabs, OwnEditor, OwnDiff, OwnOut, Shows, Panes
<1> QED BY <1>1, <1>2, <1>3, <1>4 DEF Whole, NoCrossWrite

LEMMA PutArrivesWhole ==
  ASSUME Whole, NEW p \in puts, PutArrives(p) PROVE Whole'
<1>1. p \in Writes /\ Own(p.text, p.doc)
  BY DEF Whole
<1>2. UNCHANGED <<pane, newest, fetches, mail, streaming, anim, creating>>
  BY DEF PutArrives, aiVars, callVars
<1>3. ASSUME NEW st \in {"missing", "saved"},
             puts' = (puts \ {p}) \union {[p EXCEPT !.stage = st]}
      PROVE  puts' \subseteq Writes /\ \A q \in puts' : Own(q.text, q.doc)
  <2>1. [p EXCEPT !.stage = st] \in Writes
        /\ Own([p EXCEPT !.stage = st].text, [p EXCEPT !.stage = st].doc)
    BY <1>1 DEF Writes
  <2> QED BY <1>3, <2>1 DEF Whole
<1>4. CASE stored[p.doc] = Absent
  <2>1. puts' = (puts \ {p}) \union {[p EXCEPT !.stage = "missing"]} /\ UNCHANGED stored
    BY <1>4 DEF PutArrives
  <2> QED BY <1>2, <1>3, <2>1 DEF Whole, NoCrossWrite
<1>5. CASE stored[p.doc] # Absent
  <2>1. /\ puts' = (puts \ {p}) \union {[p EXCEPT !.stage = "saved"]}
        /\ stored' = [stored EXCEPT ![p.doc] = p.text]
    BY <1>5 DEF PutArrives
  <2>2. stored' \in [Docs -> Texts \union {Absent}] /\ NoCrossWrite'
    BY <1>1, <2>1 DEF Whole, NoCrossWrite, Writes
  <2> QED BY <1>2, <1>3, <2>1, <2>2 DEF Whole
<1> QED BY <1>4, <1>5

LEMMA PutAnsweredWhole ==
  ASSUME Whole, creating = NoDoc, anim = Absent, NEW p \in puts, PutAnswered(p)
  PROVE  Whole'
<1>1. /\ p \in Writes /\ Own(p.text, p.doc)
      /\ pane \in Panes /\ Clean(pane)
  BY DEF Whole
<1>2. /\ puts' = puts \ {p}
      /\ UNCHANGED <<stored, newest, fetches, mail, streaming, anim, creating>>
  BY DEF PutAnswered, dbVars, aiVars, callVars
<1>3. CASE p.stage = "saved"
  <2>1. pane' = IF pane.tabs[p.doc] = Absent THEN pane
                ELSE [pane EXCEPT !.tabs[p.doc] = p.text]
    BY <1>3 DEF PutAnswered
  <2>2. p.doc \in Docs /\ p.text \in Texts
    BY <1>1 DEF Writes
  <2>3. pane' \in Panes /\ Clean(pane')
    BY <1>1, <2>1, <2>2, LearnClean
  <2> QED BY <1>2, <2>3 DEF Whole, NoCrossWrite
<1>4. CASE p.stage # "saved"
  <2> DEFINE f == [pane EXCEPT !.tabs[p.doc] = Absent]
  <2>1. pane' = [f EXCEPT !.active = IF f.active = p.doc THEN NoDoc ELSE f.active]
    BY <1>1, <1>4 DEF PutAnswered, Panes
  <2>2. p.doc \in Docs
    BY <1>1 DEF Writes
  <2>3. f \in Panes /\ Clean(f)
    BY <1>1, <2>2, ForgetClean
  <2> HIDE DEF f
  <2>4. pane' \in Panes
    BY <2>1, <2>3 DEF Panes
  <2>5. Clean(pane')
    BY <2>1, <2>3 DEF Clean, OwnTabs, OwnEditor, OwnDiff, OwnOut, Shows, Panes
  <2> QED BY <1>2, <2>4, <2>5 DEF Whole, NoCrossWrite
<1> QED BY <1>3, <1>4

LEMMA DocFetchedWhole ==
  ASSUME Whole, anim = Absent, creating = NoDoc, NEW f \in fetches, DocFetched(f)
  PROVE  Whole'
<1>1. /\ f.doc \in Docs /\ fetches' = fetches \ {f}
      /\ UNCHANGED <<stored, newest, mail, streaming, anim, creating>>
  BY DEF DocFetched, dbVars, aiVars, callVars, Whole
<1>2. CASE stored[f.doc] = Absent
  BY <1>1, <1>2 DEF DocFetched, Whole, NoCrossWrite
<1>3. CASE stored[f.doc] # Absent
  <2> DEFINE k == [pane EXCEPT !.tabs[f.doc] = stored[f.doc]]
             w == Shown(Opened(k), f.doc)
  <2>1. Commit(w)
    BY <1>3 DEF DocFetched
  <2>2. k \in Panes /\ Clean(k)
    BY <1>1, <1>3, LearnClean DEF Whole, NoCrossWrite
  <2> HIDE DEF k
  <2>3. w \in Panes /\ Clean(w)
    BY <1>1, <2>2, OpenedClean, ShownClean
  <2> HIDE DEF w
  <2> QED BY <1>1, <2>1, <2>3, PaneStep DEF Whole
<1> QED BY <1>2, <1>3

LEMMA ChatFetchedWhole ==
  ASSUME Guarded, Whole, anim = Absent, creating = NoDoc, NEW f \in fetches, ChatFetched(f)
  PROVE  Whole'
<1> DEFINE found == {d \in Docs : stored[d] # Absent /\ ChatOf[d] = f.chat}
           v == [pane EXCEPT !.tabs = [d \in Docs |->
                   IF d \in found /\ pane.tabs[d] = Absent THEN stored[d]
                   ELSE pane.tabs[d]]]
<1>1. /\ fetches' = fetches \ {f}
      /\ UNCHANGED <<stored, newest, mail, streaming, anim, creating>>
      /\ \A g \in fetches' : g.kind = "doc" => g.doc \in Docs
  BY DEF ChatFetched, dbVars, aiVars, callVars, Whole
<1>2. /\ pane \in Panes /\ Clean(pane)
      /\ stored \in [Docs -> Texts \union {Absent}] /\ NoCrossWrite
  BY DEF Whole
<1>3. v \in Panes /\ v.open = pane.open
  BY <1>2 DEF Panes
<1>4. Clean(v)
  BY <1>2, <1>3 DEF Clean, OwnTabs, OwnEditor, OwnDiff, OwnOut, Shows, Panes, NoCrossWrite
<1>5. \/ UNCHANGED <<pane, puts>>
      \/ Commit([Opened(pane) EXCEPT !.active = NoDoc, !.editor = Blank])
      \/ \E d \in Docs : Commit(Shown(Opened(v), d))
      \/ \E d \in Docs : ~v.open /\ Commit([v EXCEPT !.active = d, !.chip = d])
  <2>1. ASSUME NEW d \in found, pane.open => "mixed" \in DocOps,
               LET w == [v EXCEPT !.active = d, !.chip = d]
               IN Commit(IF w.open THEN Closed(Shown(w, d), TRUE) ELSE w)
        PROVE  ~v.open /\ Commit([v EXCEPT !.active = d, !.chip = d])
    <3> DEFINE w == [v EXCEPT !.active = d, !.chip = d]
    <3>1. ~v.open
      BY <1>3, <2>1 DEF Guarded
    <3>2. w.open = v.open
      BY <1>3 DEF Panes
    <3> QED BY <2>1, <3>1, <3>2
  <2> QED BY <2>1 DEF ChatFetched
<1> HIDE DEF v, found
<1>6. CASE UNCHANGED <<pane, puts>>
  BY <1>1, <1>6 DEF Whole, NoCrossWrite
<1>7. CASE Commit([Opened(pane) EXCEPT !.active = NoDoc, !.editor = Blank])
  <2> DEFINE o == Opened(pane)
             w == [o EXCEPT !.active = NoDoc, !.editor = Blank]
  <2>1. o \in Panes /\ Clean(o) /\ o.open
    BY <1>2, OpenedClean
  <2> HIDE DEF o
  <2>2. w \in Panes
    BY <2>1, BlankText DEF Panes
  <2>3. Clean(w)
    BY <2>1, BlankText DEF Clean, OwnTabs, OwnEditor, OwnDiff, OwnOut, Shows, Panes
  <2>4. Commit(w)
    BY <1>7 DEF o
  <2> HIDE DEF w
  <2> QED BY <1>1, <2>2, <2>3, <2>4, PaneStep
<1>8. ASSUME NEW d \in Docs, Commit(Shown(Opened(v), d)) PROVE Whole'
  <2> DEFINE w == Shown(Opened(v), d)
  <2>1. w \in Panes /\ Clean(w)
    BY <1>3, <1>4, OpenedClean, ShownClean
  <2>2. Commit(w)
    BY <1>8
  <2> HIDE DEF w
  <2> QED BY <1>1, <2>1, <2>2, PaneStep
<1>9. ASSUME NEW d \in Docs, ~v.open, Commit([v EXCEPT !.active = d, !.chip = d])
      PROVE  Whole'
  <2> DEFINE w == [v EXCEPT !.active = d, !.chip = d]
  <2>1. w \in Panes
    BY <1>3 DEF Panes
  <2>2. Clean(w)
    BY <1>3, <1>4, <1>9 DEF Clean, OwnTabs, OwnEditor, OwnDiff, OwnOut, Shows, Panes
  <2>3. Commit(w)
    BY <1>9
  <2> HIDE DEF w
  <2> QED BY <1>1, <2>1, <2>2, <2>3, PaneStep
<1> QED BY <1>5, <1>6, <1>7, <1>8, <1>9

-----------------------------------------------------------------------------
(* The AI. *)

LEMMA AiWritesWhole ==
  ASSUME Whole, NEW d \in Docs, creating = NoDoc, AiWrites(d) PROVE Whole'
<1>1. /\ newest[d] < MaxRev /\ stored' = [stored EXCEPT ![d] = NextRev(d)]
      /\ newest' = [newest EXCEPT ![d] = @ + 1]
      /\ mail' = {[doc |-> d, text |-> NextRev(d), event |-> e] :
                    e \in {"result", "update"}}
      /\ UNCHANGED <<pane, puts, fetches, streaming, anim, creating>>
  BY DEF AiWrites, callVars
<1>2. NextRev(d) \in Texts /\ Own(NextRev(d), d) /\ newest' \in [Docs -> 0..MaxRev]
  BY <1>1, NextRevText DEF Whole
<1>3. \A m \in mail' : m.doc \in Docs /\ m.text \in Texts /\ Own(m.text, m.doc)
  BY <1>1, <1>2
<1>4. stored' \in [Docs -> Texts \union {Absent}] /\ NoCrossWrite'
  BY <1>1, <1>2 DEF Whole, NoCrossWrite
<1> QED BY <1>1, <1>2, <1>3, <1>4 DEF Whole

LEMMA AiMissedWhole ==
  ASSUME Whole, AiMissed PROVE Whole'
BY DEF AiMissed, Whole, NoCrossWrite, dbVars, callVars

LEMMA StreamOpenWhole ==
  ASSUME Whole, anim = Absent, creating = NoDoc, NEW d \in Docs, StreamOpen(d)
  PROVE  Whole'
<1> DEFINE v == Exited(pane, TRUE)
           k == [v EXCEPT !.tabs[d] = IF v.tabs[d] = Absent THEN Blank ELSE v.tabs[d]]
           o == Opened(k)
           w == [o EXCEPT !.active = d, !.editor = Blank]
<1>1. v \in Panes /\ Clean(v) /\ v.diff = NoDiff
  BY ExitedClean DEF Whole
<1>2. /\ Commit(w) /\ streaming' = d
      /\ UNCHANGED <<stored, newest, fetches, mail, anim, creating>>
  <2>1. k = [v EXCEPT !.tabs[d] = IF @ = Absent THEN Blank ELSE @]
    BY <1>1 DEF Panes
  <2> QED BY <2>1 DEF StreamOpen, dbVars, callVars
<1> HIDE DEF v
<1>3. k \in Panes /\ Clean(k) /\ k.diff = NoDiff
  <2>1. CASE v.tabs[d] = Absent
    <3>1. k = [v EXCEPT !.tabs[d] = Blank]
      BY <2>1
    <3> QED BY <1>1, <3>1, BlankText, LearnClean DEF Panes
  <2>2. CASE v.tabs[d] # Absent
    <3>1. k = v
      BY <1>1, <2>2 DEF Panes
    <3> QED BY <1>1, <3>1
  <2> QED BY <2>1, <2>2
<1> HIDE DEF k
<1>4. o \in Panes /\ Clean(o) /\ o.open /\ o.diff = NoDiff
  BY <1>3, OpenedClean
<1> HIDE DEF o
<1>5. w \in Panes
  BY <1>4, BlankText DEF Panes
<1>6. Clean(w)
  BY <1>4, BlankText DEF Clean, OwnTabs, OwnEditor, OwnDiff, OwnOut, Shows, Panes
<1> HIDE DEF w
<1>7. /\ pane' \in Panes /\ Clean(pane')
      /\ puts' \subseteq Writes /\ \A p \in puts' : Own(p.text, p.doc)
  BY <1>2, <1>5, <1>6, CommitWhole DEF Whole
<1> QED BY <1>2, <1>7 DEF Whole, NoCrossWrite

LEMMA StreamDeltaWhole ==
  ASSUME Whole, anim = Absent, creating = NoDoc, StreamDelta PROVE Whole'
<1> DEFINE d == streaming
           t == NextRev(d)
<1>1. /\ d # NoDoc /\ newest[d] < MaxRev
      /\ newest' = [newest EXCEPT ![d] = @ + 1]
      /\ UNCHANGED <<puts, stored, fetches, mail, streaming, anim, creating>>
  BY DEF StreamDelta, aiVars, callVars
<1>2. /\ pane \in Panes /\ Clean(pane) /\ d \in Docs
      /\ newest \in [Docs -> 0..MaxRev]
  BY <1>1 DEF Whole
<1>3. pane' = [pane EXCEPT
        !.tabs[d] = IF pane.tabs[d] = Absent THEN Absent ELSE t,
        !.editor = IF d = pane.active /\ pane.editor # Absent THEN t ELSE pane.editor]
  BY <1>2 DEF StreamDelta, Panes
<1>4. t \in Texts /\ Own(t, d) /\ t # Absent /\ newest' \in [Docs -> 0..MaxRev]
  BY <1>1, <1>2, NextRevText, AbsentAssumption
<1> HIDE DEF t
<1>5. /\ pane' \in Panes /\ pane'.active = pane.active /\ pane'.diff = pane.diff
      /\ pane'.open = pane.open /\ pane'.locked = pane.locked /\ pane'.out = pane.out
      /\ pane'.editor = IF d = pane.active /\ pane.editor # Absent THEN t
                        ELSE pane.editor
      /\ \A e \in Docs : pane'.tabs[e] = IF e = d /\ pane.tabs[d] # Absent THEN t
                                         ELSE pane.tabs[e]
  BY <1>2, <1>3, <1>4 DEF Panes
<1>6. Clean(pane')
  BY <1>2, <1>4, <1>5 DEF Clean, OwnTabs, OwnEditor, OwnDiff, OwnOut, Shows
<1> QED BY <1>1, <1>4, <1>5, <1>6 DEF Whole, NoCrossWrite

LEMMA AiUpdateWhole ==
  ASSUME Whole, anim = Absent, creating = NoDoc, NEW m \in mail, AiUpdate(m)
  PROVE  Whole'
<1> DEFINE v0 == Exited(pane, TRUE)
           temp == streaming = Temp /\ v0.tabs[Temp] # Absent
           v1 == IF temp
                   THEN [v0 EXCEPT !.tabs[Temp] = Absent,
                                   !.active = IF v0.active = Temp THEN m.doc ELSE v0.active]
                   ELSE v0
           o == Opened(v1)
           v2 == [o EXCEPT !.tabs[m.doc] = m.text, !.active = m.doc]
           edit == /\ m.doc = v1.active /\ v1.tabs[m.doc] # Absent /\ streaming = NoDoc
                   /\ v1.editor \notin {Absent, Blank, m.text}
           review == [v2 EXCEPT !.diff = [old |-> v1.editor, new |-> m.text,
                                          verdict |-> "open"], !.locked = TRUE]
           show == [v2 EXCEPT !.editor = IF v1.editor = Absent THEN Blank ELSE m.text]
<1>1. /\ m.doc \in Docs /\ m.text \in Texts /\ Own(m.text, m.doc) /\ m.text # Absent
      /\ mail' = mail \ {m} /\ streaming' = NoDoc
      /\ UNCHANGED <<stored, newest, fetches, creating>>
  BY AbsentAssumption DEF AiUpdate, Whole, dbVars, callVars
<1>2. v0 \in Panes /\ Clean(v0) /\ v0.diff = NoDiff
  BY ExitedClean DEF Whole
<1>3. \/ edit /\ Commit(review) /\ UNCHANGED anim
      \/ edit /\ Commit(v2) /\ anim' = m.text
      \/ ~edit /\ Commit(show) /\ UNCHANGED anim
  <2>1. v1 = IF temp
               THEN [v0 EXCEPT !.tabs[Temp] = Absent,
                               !.active = IF @ = Temp THEN m.doc ELSE @]
               ELSE v0
    BY <1>2 DEF Panes
  <2> QED BY <2>1 DEF AiUpdate
<1> HIDE DEF v0
<1>4. v1 \in Panes /\ v1.diff = NoDiff /\ OwnTabs(v1) /\ OwnOut(v1) /\ Shows(v1)
      /\ (edit => Clean(v1))
  <2>1. CASE temp
    <3>1. ~edit
      BY <2>1, DocAssumption
    <3> HIDE DEF edit
    <3> QED BY <1>1, <1>2, <2>1, <3>1, DocAssumption
            DEF Clean, OwnTabs, OwnOut, Shows, Panes
  <2>2. CASE ~temp
    BY <1>2, <2>2 DEF Clean
  <2> QED BY <2>1, <2>2
<1>5. edit => /\ m.doc = v1.active /\ v1.editor \notin {Absent, Blank}
  OBVIOUS
<1> HIDE DEF v1, edit
<1>6. /\ o \in Panes /\ o.open /\ o.editor # Absent /\ o.diff = NoDiff
      /\ OwnTabs(o) /\ OwnOut(o) /\ (v1.open => o = v1)
  <2>1. CASE v1.open
    BY <1>4, <2>1 DEF Opened, Shows
  <2>2. CASE ~v1.open
    <3>1. o = [v1 EXCEPT !.open = TRUE, !.editor = Blank, !.chip = NoDoc,
                         !.locked = FALSE]
      BY <2>2 DEF Opened
    <3> QED BY <1>4, <2>2, <3>1, BlankText DEF OwnTabs, OwnOut, Panes
  <2> QED BY <2>1, <2>2
<1>7. edit => o = v1 /\ Clean(v1)
  BY <1>4, <1>5, <1>6 DEF Shows
<1> HIDE DEF o
<1>8. /\ v2 \in Panes /\ v2.open /\ v2.diff = NoDiff /\ v2.active = m.doc
      /\ v2.editor = o.editor /\ v2.out = o.out
      /\ \A d \in Docs : v2.tabs[d] = IF d = m.doc THEN m.text ELSE o.tabs[d]
  BY <1>1, <1>6 DEF Panes
<1> HIDE DEF v2
<1>9. OwnTabs(v2) /\ OwnOut(v2) /\ Shows(v2)
  BY <1>1, <1>6, <1>8 DEF OwnTabs, OwnOut, Shows
<1>10. edit => v2.editor = v1.editor /\ v1.editor \in Texts /\ Own(v1.editor, m.doc)
  BY <1>1, <1>4, <1>5, <1>7, <1>8, DocAssumption DEF Clean, OwnEditor, Panes
<1>11. CASE edit /\ Commit(review) /\ UNCHANGED anim
  <2>1. /\ review \in Panes /\ review.active = m.doc /\ review.editor = v2.editor
        /\ review.open /\ review.locked /\ review.out = v2.out /\ review.tabs = v2.tabs
        /\ review.diff = [old |-> v1.editor, new |-> m.text, verdict |-> "open"]
    BY <1>1, <1>8, <1>10, <1>11 DEF Panes, Diffs
  <2>2. Clean(review)
    BY <1>1, <1>8, <1>9, <1>10, <1>11, <2>1
       DEF Clean, OwnTabs, OwnEditor, OwnDiff, OwnOut, Shows
  <2>3. Commit(review) /\ UNCHANGED anim
    BY <1>11
  <2> HIDE DEF review
  <2>4. /\ pane' \in Panes /\ Clean(pane')
        /\ puts' \subseteq Writes /\ \A p \in puts' : Own(p.text, p.doc)
    BY <2>1, <2>2, <2>3, CommitWhole DEF Whole
  <2> QED BY <1>1, <2>3, <2>4 DEF Whole, NoCrossWrite
<1>12. CASE edit /\ Commit(v2) /\ anim' = m.text
  <2>1. Clean(v2)
    BY <1>8, <1>9, <1>10, <1>12 DEF Clean, OwnEditor, OwnDiff
  <2>2. /\ pane' \in Panes /\ Clean(pane') /\ pane' = [v2 EXCEPT !.out = {}]
        /\ puts' \subseteq Writes /\ \A p \in puts' : Own(p.text, p.doc)
    BY <1>8, <1>12, <2>1, CommitWhole DEF Whole
  <2>3. pane'.active = m.doc
    BY <1>8, <2>2 DEF Panes
  <2> QED BY <1>1, <1>12, <2>2, <2>3 DEF Whole, NoCrossWrite
<1>13. CASE ~edit /\ Commit(show) /\ UNCHANGED anim
  <2>1. /\ show \in Panes /\ show.active = m.doc /\ show.open /\ show.diff = NoDiff
        /\ show.editor \in {Blank, m.text} /\ show.out = v2.out /\ show.tabs = v2.tabs
    BY <1>1, <1>8, BlankText DEF Panes
  <2>2. Clean(show)
    BY <1>1, <1>9, <2>1, BlankText DEF Clean, OwnTabs, OwnEditor, OwnDiff, OwnOut, Shows
  <2>3. Commit(show) /\ UNCHANGED anim
    BY <1>13
  <2> HIDE DEF show
  <2>4. /\ pane' \in Panes /\ Clean(pane')
        /\ puts' \subseteq Writes /\ \A p \in puts' : Own(p.text, p.doc)
    BY <2>1, <2>2, <2>3, CommitWhole DEF Whole
  <2> QED BY <1>1, <2>3, <2>4 DEF Whole, NoCrossWrite
<1> QED BY <1>3, <1>11, <1>12, <1>13

-----------------------------------------------------------------------------
LEMMA RestWhole ==
  ASSUME Guarded, Whole, anim = Absent, creating = NoDoc, Rest PROVE Whole'
<1>1. ASSUME NEW d \in Docs,
             ClickTab(d) \/ CloseTab(d) \/ OpenDoc(d) \/ Create(d) \/ AiWrites(d)
               \/ StreamOpen(d)
      PROVE  Whole'
  BY <1>1, ClickTabWhole, CloseTabWhole, OpenDocWhole, CreateWhole, AiWritesWhole,
     StreamOpenWhole
<1>2. ASSUME NEW s \in Chats, GoToChat(s) PROVE Whole'
  BY <1>2, GoToChatWhole
<1>3. ASSUME NEW down \in BOOLEAN, ClosePanel(down) PROVE Whole'
  BY <1>3, ClosePanelWhole
<1>4. ASSUME NEW verdict \in {"accepted", "rejected"}, Resolve(verdict) PROVE Whole'
  BY <1>4, ResolveWhole
<1>5. ASSUME NEW p \in puts, PutArrives(p) \/ PutAnswered(p) PROVE Whole'
  BY <1>5, PutArrivesWhole, PutAnsweredWhole
<1>6. ASSUME NEW f \in fetches, DocFetched(f) \/ ChatFetched(f) PROVE Whole'
  BY <1>6, DocFetchedWhole, ChatFetchedWhole
<1>7. ASSUME NEW m \in mail, AiUpdate(m) PROVE Whole'
  BY <1>7, AiUpdateWhole
<1>8. CASE Type \/ CloseChip \/ RestoreChip \/ Autosave
  BY <1>8, TypeWhole, CloseChipWhole, RestoreChipWhole, AutosaveWhole
<1>9. CASE AskDelete \/ ConfirmDelete \/ Deleted \/ AiMissed \/ StreamDelta
  BY <1>9, AskDeleteWhole, ConfirmDeleteWhole, DeletedWhole, AiMissedWhole, StreamDeltaWhole
<1> QED BY <1>1, <1>2, <1>3, <1>4, <1>5, <1>6, <1>7, <1>8, <1>9 DEF Rest

LEMMA NextWhole ==
  ASSUME Guarded, Whole, [DocNext]_docVars PROVE Whole'
<1>1. CASE AnimEnds \/ Created \/ DiffEnds
  BY <1>1, AnimEndsWhole, CreatedWhole, DiffEndsWhole
<1>2. CASE Undisturbed /\ Rest
  <2>1. anim = Absent /\ creating = NoDoc
    BY <1>2 DEF Undisturbed, Guarded
  <2> QED BY <1>2, <2>1, RestWhole
<1>3. CASE UNCHANGED docVars
  BY <1>3 DEF docVars, dbVars, aiVars, callVars, Whole, NoCrossWrite
<1> QED BY <1>1, <1>2, <1>3 DEF DocNext

\* Without the overtaken steps Guarded excludes, no document ever receives
\* another one's text, whatever tabs, panels, chats, loads, autosaves, streams,
\* AI edits and deletions interleave (saveCurrentToMap, saveDocument).
THEOREM CrossWriteFree == ASSUME Guarded PROVE DocSpec => []NoCrossWrite
<1>1. DocInit => Whole
  BY InitWhole
<1>2. Whole /\ [DocNext]_docVars => Whole'
  BY NextWhole
<1>3. Whole => NoCrossWrite
  BY DEF Whole
<1> QED BY <1>1, <1>2, <1>3, PTL DEF DocSpec

\* Under the same condition neither the textarea nor a tab ever shows it
\* (switchToDoc, openPanel).
THEOREM EditorTrue == ASSUME Guarded PROVE DocSpec => []EditorShowsActive
<1>1. DocInit => Whole
  BY InitWhole
<1>2. Whole /\ [DocNext]_docVars => Whole'
  BY NextWhole
<1>3. Whole => EditorShowsActive
  BY DEF Whole, Clean, OwnTabs, OwnEditor, EditorShowsActive
<1> QED BY <1>1, <1>2, <1>3, PTL DEF DocSpec
-----------------------------------------------------------------------------
(* Types, whatever an instance lets happen: they need neither the owners   *)
(* of the texts nor the guards of Whole, only that the textarea is there   *)
(* exactly while the panel is open.                                        *)

Calls == [kind : {"doc"}, doc : Docs] \union [kind : {"chat"}, chat : Chats]
Mails == [doc : Docs, text : Texts, event : {"result", "update"}]
Deletions == [stage : {"none", "asked", "sent"}, named : Docs \union {NoDoc},
              target : Docs \union {NoDoc}]

Sound(v) == v \in Panes /\ Shows(v)

\* What the actions on documents change; what is being created has a revision.
Stocked ==
  /\ Sound(pane) /\ puts \subseteq Writes
  /\ stored \in [Docs -> Texts \union {Absent}] /\ newest \in [Docs -> 0..MaxRev]
  /\ streaming \in Docs \union {NoDoc} /\ anim \in Texts \union {Absent}
  /\ creating \in Docs \union {NoDoc} /\ (creating # NoDoc => newest[creating] >= 1)

\* The rest: no PUT is left in the pane between two steps, and what is on its
\* way has the form its handler expects.
Plain ==
  /\ pane.out = {} /\ saveTimer \in BOOLEAN /\ docChat \in Chats
  /\ fetches \subseteq Calls /\ mail \subseteq Mails /\ deleting \in Deletions

LEMMA KeptSound ==
  ASSUME NEW v, Sound(v)
  PROVE  Sound(Kept(v)) /\ Kept(v) = [v EXCEPT !.tabs = Kept(v).tabs]
BY DEF Kept, Sound, Shows, Panes

LEMMA SavingSound ==
  ASSUME NEW v, Sound(v) PROVE Sound(Saving(v))
<1> DEFINE w == Kept(v)
           p == Put(v.active, v.editor)
<1>1. Sound(w)
  BY KeptSound
<1>2. CASE v.active = NoDoc \/ v.editor = Absent
  BY <1>2 DEF Saving
<1>3. CASE ~(v.active = NoDoc \/ v.editor = Absent)
  <2>1. Saving(v) = [w EXCEPT !.out = w.out \union {p}]
    BY <1>1, <1>3 DEF Saving, Sound, Panes
  <2>2. p \in Writes
    BY <1>3 DEF Put, Writes, Sound, Panes
  <2> HIDE DEF w, p
  <2> QED BY <1>1, <2>1, <2>2 DEF Sound, Shows, Panes
<1> QED BY <1>2, <1>3

LEMMA ExitedSound ==
  ASSUME NEW v, Sound(v), NEW discard \in BOOLEAN PROVE Sound(Exited(v, discard))
<1> DEFINE final == IF ~discard /\ v.diff.verdict = "accepted" THEN v.diff.new
                    ELSE v.diff.old
           u == [v EXCEPT !.editor = IF v.editor = Absent THEN Absent ELSE final,
                          !.diff = NoDiff, !.locked = FALSE]
<1>1. Exited(v, discard) = v \/ Exited(v, discard) = Saving(u)
  BY DEF Exited, Sound, Panes
<1>2. final \in Texts /\ final # Absent
  BY AbsentAssumption DEF Sound, Panes, Diffs
<1> HIDE DEF final
<1>3. Sound(u)
  BY <1>2, NoDiffType DEF Sound, Shows, Panes
<1> QED BY <1>1, <1>3, SavingSound

LEMMA ShownSound ==
  ASSUME NEW v, Sound(v), NEW d \in Docs PROVE Sound(Shown(v, d))
<1> DEFINE w == Kept(Exited(v, TRUE))
<1>1. Sound(w)
  BY ExitedSound, KeptSound
<1>2. CASE w.tabs[d] = Absent
  BY <1>1, <1>2 DEF Shown
<1>3. CASE w.tabs[d] # Absent
  <2>1. Shown(v, d) = [w EXCEPT !.active = d,
                         !.editor = IF w.editor = Absent THEN Absent ELSE w.tabs[d]]
    BY <1>1, <1>3 DEF Shown, Sound, Panes
  <2> HIDE DEF w
  <2>2. w.tabs[d] \in Texts
    BY <1>1, <1>3 DEF Sound, Panes
  <2>3. Shown(v, d) \in Panes
    BY <1>1, <2>1, <2>2 DEF Sound, Panes
  <2>4. Shows(Shown(v, d))
    BY <1>1, <1>3, <2>1 DEF Sound, Shows, Panes
  <2> QED BY <2>3, <2>4 DEF Sound
<1> QED BY <1>2, <1>3

LEMMA OpenedSound ==
  ASSUME NEW v, Sound(v)
  PROVE  Sound(Opened(v)) /\ Opened(v).open
BY BlankText DEF Opened, Sound, Shows, Panes

LEMMA ClosedSound ==
  ASSUME NEW v, Sound(v), NEW down \in BOOLEAN PROVE Sound(Closed(v, down))
<1> DEFINE w == Kept(v)
<1>1. Sound(w)
  BY KeptSound
<1> HIDE DEF w
<1> QED BY <1>1 DEF Closed, Sound, Shows, Panes, w

LEMMA DetachedSound ==
  ASSUME NEW v, Sound(v), NEW d \in Docs PROVE Sound(Detached(v, d))
<1> DEFINE w == IF NoContent(v, d) THEN v ELSE Saving(v)
<1>1. Sound(w)
  BY SavingSound
<1>2. Detached(v, d) = [w EXCEPT !.tabs[d] = Absent]
  BY DEF Detached
<1> HIDE DEF w
<1> QED BY <1>1, <1>2 DEF Sound, Shows, Panes

\* A step that commits a sound pane keeps the pane and the PUTs well-typed.
LEMMA CommitSound ==
  ASSUME puts \subseteq Writes, NEW v, Sound(v), Commit(v)
  PROVE  Sound(pane') /\ puts' \subseteq Writes
BY DEF Commit, Sound, Shows, Panes

\* Fields written one at a time.
LEMMA FieldsSound ==
  ASSUME NEW v, Sound(v), NEW d \in Docs
  PROVE  /\ \A e \in Docs \union {NoDoc} : Sound([v EXCEPT !.active = e])
         /\ \A t \in Texts \union {Absent} : Sound([v EXCEPT !.tabs[d] = t])
         /\ \A e \in Docs \union {NoDoc} : Sound([v EXCEPT !.chip = e])
         /\ \A t \in Texts : v.open => Sound([v EXCEPT !.editor = t])
BY AbsentAssumption DEF Sound, Shows, Panes

\* A step that only commits a sound pane.
LEMMA CommitStocked ==
  ASSUME Stocked, NEW v, Sound(v), Commit(v),
         UNCHANGED <<newest, streaming, creating>>,
         anim' \in Texts \union {Absent}, stored' \in [Docs -> Texts \union {Absent}]
  PROVE  Stocked'
<1>1. Sound(pane') /\ puts' \subseteq Writes
  BY CommitSound DEF Stocked
<1>2. Sound(pane)'
  BY <1>1 DEF Sound, Shows
<1> QED BY <1>1, <1>2 DEF Stocked

\* What the user does to the pane.
LEMMA UserStocked ==
  ASSUME Stocked, Plain
  PROVE  /\ Type => Stocked'
         /\ \A d \in Docs : ClickTab(d) \/ CloseTab(d) \/ OpenDoc(d) \/ Create(d) => Stocked'
         /\ \A down \in BOOLEAN : ClosePanel(down) => Stocked'
         /\ CloseChip \/ RestoreChip => Stocked'
         /\ \A s \in Chats : GoToChat(s) => Stocked'
         /\ \A verdict \in {"accepted", "rejected"} : Resolve(verdict) => Stocked'
<1> USE DEF dbVars, aiVars, callVars
<1>0. /\ Sound(pane) /\ pane \in Panes /\ puts \subseteq Writes
      /\ stored \in [Docs -> Texts \union {Absent}] /\ newest \in [Docs -> 0..MaxRev]
      /\ anim \in Texts \union {Absent} /\ NoDoc \notin Docs
  BY DocAssumption DEF Stocked, Sound
<1>1. ASSUME NEW d \in Docs, NEW u, DeleteIfEmpty(u, d)
      PROVE  stored' \in [Docs -> Texts \union {Absent}]
  BY <1>0, <1>1 DEF DeleteIfEmpty
<1>2. ASSUME Type PROVE Stocked'
  <2> DEFINE whose == IF pane.editor = Blank THEN pane.active ELSE pane.editor.of
  <2>1. /\ pane.open /\ pane.active \in Docs /\ newest[whose] < MaxRev
        /\ pane' = [pane EXCEPT !.editor = NextRev(whose)]
        /\ newest' = [newest EXCEPT ![whose] = @ + 1]
        /\ UNCHANGED <<puts, stored, streaming, anim, creating>>
    BY <1>0, <1>2 DEF Type, Panes
  <2>2. whose \in Docs
    BY <1>0, <2>1, AbsentAssumption DEF Sound, Shows, Panes, Texts
  <2> HIDE DEF whose
  <2>3. NextRev(whose) \in Texts /\ newest' \in [Docs -> 0..MaxRev]
    BY <1>0, <2>1, <2>2, NextRevText
  <2>4. Sound(pane')
    BY <1>0, <2>1, <2>2, <2>3, FieldsSound
  <2>5. Sound(pane)'
    BY <2>4 DEF Sound, Shows
  <2>6. creating # NoDoc => newest'[creating] >= 1
    BY <1>0, <2>1, <2>2 DEF Stocked
  <2> QED BY <1>0, <2>1, <2>3, <2>5, <2>6 DEF Stocked
<1>3. ASSUME NEW d \in Docs, ClickTab(d) PROVE Stocked'
  BY <1>0, <1>3, ShownSound, CommitStocked DEF ClickTab
<1>4. ASSUME NEW d \in Docs, CloseTab(d) PROVE Stocked'
  <2> DEFINE v == Detached(Kept(pane), d)
  <2>1. Sound(v)
    BY <1>0, KeptSound, DetachedSound
  <2>2. /\ \/ Commit(Closed([v EXCEPT !.active = NoDoc], FALSE))
           \/ \E e \in Docs : Commit(IF v.active = d THEN Shown(v, e) ELSE v)
        /\ stored' \in [Docs -> Texts \union {Absent}]
        /\ UNCHANGED <<newest, streaming, creating, anim>>
    BY <1>1, <1>4 DEF CloseTab, Here, Tabs
  <2> HIDE DEF v
  <2>3. Sound(Closed([v EXCEPT !.active = NoDoc], FALSE))
    BY <2>1, FieldsSound, ClosedSound
  <2>4. \A e \in Docs : Sound(IF v.active = d THEN Shown(v, e) ELSE v)
    BY <2>1, ShownSound
  <2> QED BY <1>0, <2>2, <2>3, <2>4, CommitStocked
<1>5. ASSUME NEW d \in Docs, OpenDoc(d) PROVE Stocked'
  <2>1. CASE Commit(Shown(Opened(pane), d))
    BY <1>0, <1>5, <2>1, OpenedSound, ShownSound, CommitStocked DEF OpenDoc
  <2>2. CASE UNCHANGED <<pane, puts>>
    BY <1>5, <2>2 DEF OpenDoc, Stocked, Sound, Shows
  <2> QED BY <1>5, <2>1, <2>2 DEF OpenDoc
<1>6. ASSUME NEW d \in Docs, Create(d) PROVE Stocked'
  <2>1. /\ pane.open /\ newest[d] = 0 /\ newest[d] < MaxRev /\ creating' = d
        /\ newest' = [newest EXCEPT ![d] = 1]
        /\ pane' = [pane EXCEPT !.editor = [of |-> d, rev |-> 1]]
        /\ UNCHANGED <<puts, stored, streaming, anim>>
    BY <1>6 DEF Create
  <2>2. [of |-> d, rev |-> 1] \in Texts /\ newest' \in [Docs -> 0..MaxRev]
    BY <1>0, <2>1, DocAssumption DEF Texts
  <2>3. Sound(pane')
    BY <1>0, <2>1, <2>2, FieldsSound
  <2>4. Sound(pane)' /\ newest'[d] = 1
    BY <1>0, <2>1, <2>3 DEF Sound, Shows
  <2> QED BY <1>0, <2>1, <2>2, <2>4 DEF Stocked
<1>7. ASSUME NEW down \in BOOLEAN, ClosePanel(down) PROVE Stocked'
  BY <1>0, <1>7, ClosedSound, CommitStocked DEF ClosePanel
<1>8. ASSUME CloseChip PROVE Stocked'
  <2> DEFINE v == [pane EXCEPT !.chip = NoDoc]
  <2>1. /\ pane.chip \in Docs /\ Commit(Detached(v, pane.chip))
        /\ UNCHANGED <<newest, streaming, creating, anim>>
        /\ stored' \in [Docs -> Texts \union {Absent}]
    BY <1>0, <1>1, <1>8 DEF CloseChip, Panes
  <2>2. Sound(v)
    BY <1>0, <2>1, FieldsSound
  <2> QED BY <1>0, <2>1, <2>2, DetachedSound, CommitStocked
<1>9. ASSUME RestoreChip PROVE Stocked'
  <2>1. pane.chip \in Docs
    BY <1>0, <1>9 DEF RestoreChip, Panes
  <2> QED BY <1>0, <1>9, <2>1, OpenedSound, ShownSound, CommitStocked DEF RestoreChip
<1>10. ASSUME NEW s \in Chats, GoToChat(s) PROVE Stocked'
  <2>1. Sound(pane')
    BY <1>0, <1>10 DEF GoToChat, Sound, Shows, Panes
  <2>2. Sound(pane)'
    BY <2>1 DEF Sound, Shows
  <2> QED BY <1>0, <1>10, <2>2 DEF GoToChat, Stocked
<1>11. ASSUME NEW verdict \in {"accepted", "rejected"}, Resolve(verdict) PROVE Stocked'
  <2> DEFINE t == IF verdict = "accepted" THEN pane.diff.new ELSE pane.diff.old
             v == [pane EXCEPT !.diff.verdict = verdict, !.editor = t]
  <2>1. /\ pane.open /\ Commit(Saving(v))
        /\ UNCHANGED <<stored, newest, streaming, creating, anim>>
    BY <1>11 DEF Resolve
  <2>2. t \in Texts /\ t # Absent
    BY <1>0, AbsentAssumption DEF Panes, Diffs
  <2> HIDE DEF t
  <2>3. v \in Panes
    BY <1>0, <2>2 DEF Panes, Diffs
  <2>4. Shows(v)
    BY <1>0, <2>1, <2>2 DEF Shows, Panes
  <2>5. Sound(v)
    BY <2>3, <2>4 DEF Sound
  <2> HIDE DEF v
  <2> QED BY <1>0, <2>1, <2>5, SavingSound, CommitStocked
<1> QED
  BY <1>2, <1>3, <1>4, <1>5, <1>6, <1>7, <1>8, <1>9, <1>10, <1>11

\* What timers and answers do.
LEMMA AnswerStocked ==
  ASSUME Stocked, Plain
  PROVE  /\ Created \/ AskDelete \/ ConfirmDelete \/ Deleted => Stocked'
         /\ Autosave \/ DiffEnds \/ AnimEnds => Stocked'
         /\ \A q \in puts : PutArrives(q) \/ PutAnswered(q) => Stocked'
         /\ \A f \in fetches : DocFetched(f) \/ ChatFetched(f) => Stocked'
<1> USE DEF dbVars, aiVars, callVars
<1>0. /\ Sound(pane) /\ pane \in Panes /\ Shows(pane) /\ puts \subseteq Writes
      /\ stored \in [Docs -> Texts \union {Absent}] /\ newest \in [Docs -> 0..MaxRev]
      /\ anim \in Texts \union {Absent} /\ NoDoc \notin Docs
  BY DocAssumption DEF Stocked, Sound
<1>1. ASSUME Created PROVE Stocked'
  <2> DEFINE t == [of |-> creating, rev |-> 1]
             v == [pane EXCEPT !.tabs[creating] = t]
  <2>1. /\ creating \in Docs /\ creating' = NoDoc
        /\ stored' = [stored EXCEPT ![creating] = t]
        /\ pane' = [v EXCEPT !.active = creating]
        /\ UNCHANGED <<puts, newest, streaming, anim>>
    BY <1>1 DEF Created, Stocked
  <2>2. newest[creating] \in 0..MaxRev /\ newest[creating] >= 1
    BY <1>0, <2>1 DEF Stocked
  <2>3. t \in Texts
    BY <2>1, <2>2, DocAssumption DEF Texts
  <2> HIDE DEF t
  <2>4. Sound(v)
    BY <1>0, <2>1, <2>3, FieldsSound
  <2> HIDE DEF v
  <2>5. Sound(pane')
    BY <2>1, <2>4, FieldsSound
  <2>6. Sound(pane)' /\ stored' \in [Docs -> Texts \union {Absent}]
    BY <1>0, <2>1, <2>3, <2>5 DEF Sound, Shows
  <2> QED BY <1>0, <2>1, <2>6 DEF Stocked
<1>2. ASSUME AskDelete \/ ConfirmDelete PROVE Stocked'
  <2>1. /\ UNCHANGED <<pane, puts, newest, streaming, anim, creating>>
        /\ stored' \in [Docs -> Texts \union {Absent}]
    BY <1>0, <1>2 DEF AskDelete, ConfirmDelete
  <2> QED BY <2>1 DEF Stocked, Sound, Shows
<1>3. ASSUME Deleted PROVE Stocked'
  <2> DEFINE v == IF pane.active = NoDoc THEN pane
                  ELSE [pane EXCEPT !.tabs[pane.active] = Absent]
  <2>1. Sound(v)
    BY <1>0, FieldsSound DEF Panes
  <2>2. /\ \/ Commit(Closed([v EXCEPT !.active = NoDoc], FALSE))
           \/ \E d \in Docs : Commit(Shown(v, d))
        /\ UNCHANGED <<stored, newest, streaming, creating, anim>>
    BY <1>3 DEF Deleted, Tabs
  <2> HIDE DEF v
  <2>3. Sound(Closed([v EXCEPT !.active = NoDoc], FALSE))
    <3>1. Sound([v EXCEPT !.active = NoDoc])
      BY <2>1, FieldsSound, DocAssumption
    <3> QED BY <3>1, ClosedSound
  <2>4. \A d \in Docs : Sound(Shown(v, d))
    BY <2>1, ShownSound
  <2> QED BY <1>0, <2>2, <2>3, <2>4, CommitStocked
<1>4. ASSUME Autosave PROVE Stocked'
  BY <1>0, <1>4, SavingSound, CommitStocked DEF Autosave
<1>5. ASSUME DiffEnds PROVE Stocked'
  BY <1>0, <1>5, ExitedSound, CommitStocked DEF DiffEnds
<1>6. ASSUME AnimEnds PROVE Stocked'
  <2>1. /\ anim \in Texts /\ anim # Absent /\ anim' = Absent
        /\ pane' = [pane EXCEPT !.editor = IF pane.editor = Absent THEN Absent ELSE anim]
        /\ UNCHANGED <<puts, stored, newest, streaming, creating>>
    BY <1>0, <1>6 DEF AnimEnds, Panes
  <2>2. pane' \in Panes
    BY <1>0, <2>1 DEF Panes
  <2>3. Shows(pane')
    BY <1>0, <2>1 DEF Shows, Panes
  <2>4. Sound(pane)'
    BY <2>2, <2>3 DEF Sound, Shows
  <2> QED BY <2>1, <2>4 DEF Stocked
<1>7. ASSUME NEW q \in puts, PutArrives(q) PROVE Stocked'
  <2>1. q \in Writes /\ q.text \in Texts /\ q.doc \in Docs
    BY <1>0 DEF Writes
  <2>2. [q EXCEPT !.stage = "missing"] \in Writes /\ [q EXCEPT !.stage = "saved"] \in Writes
    BY <2>1 DEF Writes
  <2>3. /\ puts' \subseteq Writes /\ stored' \in [Docs -> Texts \union {Absent}]
        /\ UNCHANGED <<pane, newest, streaming, anim, creating>>
    BY <1>0, <1>7, <2>1, <2>2 DEF PutArrives
  <2> QED BY <2>3 DEF Stocked, Sound, Shows
<1>8. ASSUME NEW q \in puts, PutAnswered(q) PROVE Stocked'
  <2>1. q.text \in Texts /\ q.doc \in Docs
    BY <1>0 DEF Writes
  <2>2. /\ \/ pane' = pane
           \/ pane' = [pane EXCEPT !.tabs[q.doc] = q.text]
           \/ pane' = [pane EXCEPT !.tabs[q.doc] = Absent, !.active = NoDoc]
           \/ pane' = [pane EXCEPT !.tabs[q.doc] = Absent, !.active = pane.active]
        /\ puts' \subseteq Writes
        /\ UNCHANGED <<stored, newest, streaming, anim, creating>>
    BY <1>0, <1>8 DEF PutAnswered, Panes
  <2>3. Sound(pane')
    <3> DEFINE v == [pane EXCEPT !.tabs[q.doc] = Absent]
    <3>1. Sound(v) /\ Sound([pane EXCEPT !.tabs[q.doc] = q.text])
      BY <1>0, <2>1, FieldsSound
    <3>2. /\ Sound([v EXCEPT !.active = NoDoc]) /\ Sound([v EXCEPT !.active = pane.active])
      <4>1. pane.active \in Docs \union {NoDoc}
        BY <1>0 DEF Panes
      <4> HIDE DEF v
      <4> QED BY <2>1, <3>1, <4>1, FieldsSound
    <3> QED BY <1>0, <2>2, <3>1, <3>2
  <2>4. Sound(pane)'
    BY <2>3 DEF Sound, Shows
  <2> QED BY <1>0, <2>2, <2>4 DEF Stocked
<1>9. ASSUME NEW f \in fetches, DocFetched(f) PROVE Stocked'
  <2>1. f.doc \in Docs
    BY <1>9 DEF DocFetched, Plain, Calls
  <2>2. CASE stored[f.doc] = Absent
    BY <1>0, <1>9, <2>2 DEF DocFetched, Stocked, Sound, Shows
  <2>3. CASE stored[f.doc] # Absent
    <3> DEFINE v == [pane EXCEPT !.tabs[f.doc] = stored[f.doc]]
    <3>1. Sound(v)
      BY <1>0, <2>1, FieldsSound
    <3>2. /\ Commit(Shown(Opened(v), f.doc))
          /\ UNCHANGED <<stored, newest, streaming, creating, anim>>
      BY <1>9, <2>3 DEF DocFetched
    <3> HIDE DEF v
    <3> QED BY <1>0, <2>1, <3>1, <3>2, OpenedSound, ShownSound, CommitStocked
  <2> QED BY <2>2, <2>3
<1>10. ASSUME NEW f \in fetches, ChatFetched(f) PROVE Stocked'
  <2> DEFINE found == {d \in Docs : stored[d] # Absent /\ ChatOf[d] = f.chat}
             v == [pane EXCEPT !.tabs = [d \in Docs |->
                     IF d \in found /\ pane.tabs[d] = Absent THEN stored[d]
                     ELSE pane.tabs[d]]]
             w(d) == [v EXCEPT !.active = d, !.chip = d]
  <2>1. /\ \/ UNCHANGED <<pane, puts>>
           \/ Commit([Opened(pane) EXCEPT !.active = NoDoc, !.editor = Blank])
           \/ \E d \in Docs : \/ Commit(Shown(Opened(v), d))
                              \/ Commit(Closed(Shown(w(d), d), TRUE))
                              \/ Commit(w(d))
        /\ UNCHANGED <<stored, newest, streaming, creating, anim>>
    <3>1. v = [pane EXCEPT !.tabs = [d \in Docs |->
                 IF d \in found /\ @[d] = Absent THEN stored[d] ELSE @[d]]]
      BY <1>0 DEF Panes
    <3> HIDE DEF v
    <3> QED BY <1>10, <3>1 DEF ChatFetched
  <2>2. Sound(v)
    BY <1>0 DEF Sound, Shows, Panes
  <2> HIDE DEF v
  <2>3. ASSUME NEW d \in Docs
        PROVE  Sound(w(d)) /\ Sound(Closed(Shown(w(d), d), TRUE)) /\ Sound(Shown(Opened(v), d))
    <3>1. Sound(w(d))
      BY <2>2 DEF Sound, Shows, Panes
    <3> HIDE DEF w
    <3> QED BY <2>2, <3>1, ShownSound, ClosedSound, OpenedSound
  <2>4. Sound([Opened(pane) EXCEPT !.active = NoDoc, !.editor = Blank])
    <3>1. Sound(Opened(pane)) /\ Opened(pane).open
      BY <1>0, OpenedSound
    <3> QED BY <3>1, BlankText DEF Sound, Shows, Panes
  <2> HIDE DEF w
  <2>5. CASE UNCHANGED <<pane, puts>>
    BY <2>1, <2>5 DEF Stocked, Sound, Shows
  <2> QED BY <1>0, <2>1, <2>3, <2>4, <2>5, CommitStocked
<1> QED
  BY <1>1, <1>2, <1>3, <1>4, <1>5, <1>6, <1>7, <1>8, <1>9, <1>10

\* What the AI does, with the tab's handlers of its events.
LEMMA AiStocked ==
  ASSUME Stocked, Plain
  PROVE  /\ \A d \in Docs : AiWrites(d) \/ StreamOpen(d) => Stocked'
         /\ \A m \in mail : AiUpdate(m) => Stocked'
         /\ AiMissed \/ StreamDelta => Stocked'
<1> USE DEF dbVars, aiVars, callVars
<1>0. /\ Sound(pane) /\ pane \in Panes /\ Shows(pane) /\ puts \subseteq Writes
      /\ stored \in [Docs -> Texts \union {Absent}] /\ newest \in [Docs -> 0..MaxRev]
      /\ anim \in Texts \union {Absent} /\ NoDoc \notin Docs
  BY DocAssumption DEF Stocked, Sound
<1>1. ASSUME NEW d \in Docs, newest[d] < MaxRev, newest' = [newest EXCEPT ![d] = @ + 1],
             creating' = creating
      PROVE  /\ NextRev(d) \in Texts /\ newest' \in [Docs -> 0..MaxRev]
             /\ creating # NoDoc => newest'[creating] >= 1
  BY <1>0, <1>1, NextRevText DEF Stocked
<1>2. ASSUME NEW d \in Docs, AiWrites(d) PROVE Stocked'
  <2>1. /\ newest[d] < MaxRev /\ newest' = [newest EXCEPT ![d] = @ + 1]
        /\ stored' = [stored EXCEPT ![d] = NextRev(d)]
        /\ UNCHANGED <<pane, puts, streaming, anim, creating>>
    BY <1>2 DEF AiWrites
  <2>2. stored' \in [Docs -> Texts \union {Absent}]
    BY <1>0, <1>1, <2>1
  <2> QED BY <1>0, <1>1, <2>1, <2>2 DEF Stocked, Sound, Shows
<1>3. ASSUME NEW d \in Docs, StreamOpen(d) PROVE Stocked'
  <2> DEFINE v == Exited(pane, TRUE)
             u == [v EXCEPT !.tabs[d] = IF v.tabs[d] = Absent THEN Blank ELSE v.tabs[d]]
             w == [Opened(u) EXCEPT !.active = d]
  <2>1. Sound(v)
    BY <1>0, ExitedSound
  <2>2. /\ Commit([w EXCEPT !.editor = Blank])
        /\ UNCHANGED <<stored, newest, creating, anim>> /\ streaming' = d
    <3>1. [v EXCEPT !.tabs[d] = IF @ = Absent THEN Blank ELSE @] = u
      BY <2>1 DEF Sound, Panes
    <3> HIDE DEF u
    <3> QED BY <1>3, <3>1 DEF StreamOpen
  <2> HIDE DEF v
  <2>3. Sound(u)
    BY <2>1, FieldsSound, BlankText DEF Sound, Panes
  <2> HIDE DEF u
  <2>4. Sound(w) /\ w.open
    BY <2>3, OpenedSound DEF Sound, Shows, Panes
  <2> HIDE DEF w
  <2>5. Sound([w EXCEPT !.editor = Blank])
    BY <2>4, FieldsSound, BlankText
  <2>6. Sound(pane') /\ puts' \subseteq Writes
    BY <1>0, <2>2, <2>5, CommitSound
  <2>7. Sound(pane)'
    BY <2>6 DEF Sound, Shows
  <2> QED BY <2>2, <2>6, <2>7 DEF Stocked
<1>4. ASSUME NEW m \in mail, AiUpdate(m) PROVE Stocked'
  <2> DEFINE v0 == Exited(pane, TRUE)
             v1 == IF streaming = Temp /\ v0.tabs[Temp] # Absent
                     THEN [v0 EXCEPT !.tabs[Temp] = Absent,
                             !.active = IF v0.active = Temp THEN m.doc ELSE v0.active]
                     ELSE v0
             v2 == [Opened(v1) EXCEPT !.tabs[m.doc] = m.text, !.active = m.doc]
             shown == IF v1.editor = Absent THEN Blank ELSE m.text
             diff  == [old |-> v1.editor, new |-> m.text, verdict |-> "open"]
  <2>0. m.doc \in Docs /\ m.text \in Texts
    BY DEF Plain, Mails
  <2>1. Sound(v0)
    BY <1>0, ExitedSound
  <2>2. /\ \/ /\ v1.editor # Absent
              /\ Commit([v2 EXCEPT !.diff = diff, !.locked = TRUE]) /\ anim' = anim
           \/ Commit(v2) /\ anim' = m.text
           \/ Commit([v2 EXCEPT !.editor = shown]) /\ anim' = anim
        /\ streaming' = NoDoc /\ UNCHANGED <<stored, newest, creating>>
    <3>1. v1 = IF streaming = Temp /\ v0.tabs[Temp] # Absent
                 THEN [v0 EXCEPT !.tabs[Temp] = Absent,
                                 !.active = IF @ = Temp THEN m.doc ELSE @]
                 ELSE v0
      BY <2>1 DEF Sound, Panes
    <3> HIDE DEF v1
    <3> QED BY <1>4, <3>1 DEF AiUpdate
  <2> HIDE DEF v0
  <2>3. Sound(v1)
    <3> DEFINE u == [v0 EXCEPT !.tabs[Temp] = Absent]
               e == IF v0.active = Temp THEN m.doc ELSE v0.active
    <3>1. Sound(u) /\ e \in Docs \union {NoDoc}
      BY <2>0, <2>1, FieldsSound, DocAssumption DEF Sound, Panes
    <3>2. v1 = v0 \/ v1 = [u EXCEPT !.active = e]
      OBVIOUS
    <3> HIDE DEF u, e, v1
    <3> QED BY <2>1, <3>1, <3>2, FieldsSound, DocAssumption
  <2> HIDE DEF v1
  <2>4. Sound(v2) /\ v2.open
    <3> DEFINE u == [Opened(v1) EXCEPT !.tabs[m.doc] = m.text]
    <3>1. Sound(Opened(v1)) /\ Opened(v1).open
      BY <2>3, OpenedSound
    <3>2. Sound(u)
      BY <2>0, <3>1, FieldsSound
    <3>3. u.open
      BY <3>1 DEF Sound, Panes
    <3>4. v2 = [u EXCEPT !.active = m.doc]
      OBVIOUS
    <3> HIDE DEF u, v2
    <3>5. Sound(v2)
      BY <2>0, <3>2, <3>4, FieldsSound
    <3>6. v2.open
      BY <3>2, <3>3, <3>4 DEF Sound, Panes
    <3> QED BY <3>5, <3>6
  <2> HIDE DEF v2
  <2>5. shown \in Texts
    BY <2>0, BlankText
  <2>6. v1.editor # Absent => diff \in Diffs
    BY <2>0, <2>3 DEF Sound, Panes, Diffs
  <2> HIDE DEF shown, diff
  <2>7. v1.editor # Absent => Sound([v2 EXCEPT !.diff = diff, !.locked = TRUE])
    BY <2>4, <2>6 DEF Sound, Shows, Panes
  <2>8. Sound([v2 EXCEPT !.editor = shown])
    BY <2>4, <2>5, FieldsSound, DocAssumption
  <2>9. Sound(pane') /\ puts' \subseteq Writes /\ anim' \in Texts \union {Absent}
    BY <1>0, <2>0, <2>2, <2>4, <2>7, <2>8, CommitSound
  <2>10. Sound(pane)'
    BY <2>9 DEF Sound, Shows
  <2> QED BY <2>2, <2>9, <2>10 DEF Stocked
<1>5. ASSUME AiMissed PROVE Stocked'
  BY <1>5 DEF AiMissed, Stocked, Sound, Shows
<1>6. ASSUME StreamDelta PROVE Stocked'
  <2> DEFINE d == streaming
             t == IF pane.tabs[d] = Absent THEN Absent ELSE NextRev(d)
             c == IF d = pane.active /\ pane.editor # Absent THEN NextRev(d) ELSE pane.editor
  <2>1. /\ d \in Docs /\ newest[d] < MaxRev /\ newest' = [newest EXCEPT ![d] = @ + 1]
        /\ UNCHANGED <<puts, stored, streaming, anim, creating>>
        /\ pane' = [pane EXCEPT !.tabs[d] = t, !.editor = c]
    BY <1>0, <1>6 DEF StreamDelta, Stocked, Panes
  <2>2. /\ NextRev(d) \in Texts /\ newest' \in [Docs -> 0..MaxRev]
        /\ creating # NoDoc => newest'[creating] >= 1
    BY <1>1, <2>1
  <2>3. t \in Texts \union {Absent} /\ c \in Texts \union {Absent}
        /\ (c = Absent <=> pane.editor = Absent)
    BY <1>0, <2>2, AbsentAssumption DEF Panes
  <2> HIDE DEF t, c
  <2>4. pane' \in Panes
    BY <1>0, <2>1, <2>3 DEF Panes
  <2>5. Shows(pane')
    BY <1>0, <2>1, <2>3 DEF Shows, Panes
  <2>6. Sound(pane)'
    BY <2>4, <2>5 DEF Sound, Shows
  <2> QED BY <1>0, <2>1, <2>2, <2>6 DEF Stocked
<1> QED
  BY <1>2, <1>3, <1>4, <1>5, <1>6

LEMMA StockedStep ==
  ASSUME Stocked, Plain, [DocNext]_docVars PROVE Stocked'
<1>1. CASE UNCHANGED docVars
  BY <1>1 DEF docVars, dbVars, aiVars, callVars, Stocked, Sound, Shows
<1> QED
  BY <1>1, UserStocked, AnswerStocked, AiStocked DEF DocNext, Rest

LEMMA CommitEmpties ==
  ASSUME NEW v, Commit(v), pane' \in Panes PROVE pane'.out = {}
<1>1. pane' = [v EXCEPT !.out = {}]
  BY DEF Commit
<1>2. "out" \in DOMAIN pane'
  BY DEF Panes
<1> QED BY <1>1, <1>2

\* No PUT stays in the pane.
LEMMA PaneEmpties ==
  ASSUME Stocked, Plain, pane' \in Panes, DocNext PROVE pane'.out = {}
<1>1. pane \in Panes /\ pane.out = {}
  BY DEF Stocked, Sound, Plain
<1>2. ASSUME NEW d \in Docs, ClickTab(d) \/ CloseTab(d) \/ OpenDoc(d) \/ StreamOpen(d)
      PROVE  pane'.out = {}
  BY <1>1, <1>2, CommitEmpties DEF ClickTab, CloseTab, OpenDoc, StreamOpen
<1>3. ASSUME NEW d \in Docs, Create(d) \/ AiWrites(d) PROVE pane'.out = {}
  BY <1>1, <1>3 DEF Create, AiWrites, Panes
<1>4. ASSUME NEW s \in Chats, GoToChat(s) PROVE pane'.out = {}
  BY <1>1, <1>4 DEF GoToChat, Panes
<1>5. ASSUME NEW down \in BOOLEAN, ClosePanel(down) PROVE pane'.out = {}
  BY <1>5, CommitEmpties DEF ClosePanel
<1>6. ASSUME NEW verdict \in {"accepted", "rejected"}, Resolve(verdict) PROVE pane'.out = {}
  BY <1>6, CommitEmpties DEF Resolve
<1>7. ASSUME NEW p \in puts, PutArrives(p) \/ PutAnswered(p) PROVE pane'.out = {}
  BY <1>1, <1>7 DEF PutArrives, PutAnswered, Panes
<1>8. ASSUME NEW f \in fetches, DocFetched(f) \/ ChatFetched(f) PROVE pane'.out = {}
  BY <1>1, <1>8, CommitEmpties DEF DocFetched, ChatFetched
<1>9. ASSUME NEW m \in mail, AiUpdate(m) PROVE pane'.out = {}
  BY <1>9, CommitEmpties DEF AiUpdate
<1>10. CASE CloseChip \/ RestoreChip \/ Autosave \/ Deleted \/ DiffEnds
  BY <1>10, CommitEmpties DEF CloseChip, RestoreChip, Autosave, Deleted, DiffEnds
<1>11. CASE Type \/ AskDelete \/ ConfirmDelete \/ AiMissed \/ StreamDelta \/ AnimEnds \/ Created
  BY <1>1, <1>11 DEF Type, AskDelete, ConfirmDelete, AiMissed, StreamDelta, AnimEnds, Created,
                     Panes
<1> QED
  BY <1>2, <1>3, <1>4, <1>5, <1>6, <1>7, <1>8, <1>9, <1>10, <1>11 DEF DocNext, Rest

\* The rest of Plain, action by action.
LEMMA PlainStep ==
  ASSUME Stocked, Plain, pane' \in Panes, [DocNext]_docVars PROVE Plain'
<1> USE DEF dbVars, aiVars, callVars
<1> DEFINE Same == UNCHANGED <<saveTimer, docChat, fetches, mail, deleting>>
           Typed == /\ saveTimer' \in BOOLEAN /\ docChat' \in Chats
                    /\ fetches' \subseteq Calls /\ mail' \subseteq Mails
                    /\ deleting' \in Deletions
<1>1. CASE UNCHANGED docVars
  BY <1>1 DEF docVars, Plain
<1>2. CASE DocNext
  <2>0. Same => Typed
    BY DEF Plain
  <2>1. ASSUME NEW d \in Docs, ClickTab(d) \/ CloseTab(d) \/ Create(d) \/ StreamOpen(d)
        PROVE  Typed
    BY <2>0, <2>1 DEF ClickTab, CloseTab, Create, StreamOpen
  <2>2. ASSUME NEW d \in Docs, OpenDoc(d) PROVE Typed
    BY <2>2 DEF OpenDoc, Plain, Calls
  <2>3. ASSUME NEW d \in Docs, AiWrites(d) PROVE Typed
    <3>1. NextRev(d) \in Texts
      BY <2>3, NextRevText DEF AiWrites, Stocked
    <3> QED
      BY <2>3, <3>1 DEF AiWrites, Plain, Mails
  <2>4. ASSUME NEW s \in Chats, GoToChat(s) PROVE Typed
    BY <2>4 DEF GoToChat, Plain, Calls
  <2>5. ASSUME NEW down \in BOOLEAN, ClosePanel(down) PROVE Typed
    BY <2>0, <2>5 DEF ClosePanel
  <2>6. ASSUME NEW verdict \in {"accepted", "rejected"}, Resolve(verdict) PROVE Typed
    BY <2>0, <2>6 DEF Resolve
  <2>7. ASSUME NEW p \in puts, PutArrives(p) \/ PutAnswered(p) PROVE Typed
    BY <2>0, <2>7 DEF PutArrives, PutAnswered
  <2>8. ASSUME NEW f \in fetches, DocFetched(f) \/ ChatFetched(f) PROVE Typed
    BY <2>8 DEF DocFetched, ChatFetched, Plain
  <2>9. ASSUME NEW m \in mail, AiUpdate(m) PROVE Typed
    BY <2>9 DEF AiUpdate, Plain
  <2>10. ASSUME CloseChip \/ RestoreChip \/ DiffEnds \/ StreamDelta \/ AnimEnds PROVE Typed
    BY <2>0, <2>10 DEF CloseChip, RestoreChip, DiffEnds, StreamDelta, AnimEnds
  <2>11. ASSUME Type \/ Autosave \/ Created \/ AiMissed PROVE Typed
    BY <2>11 DEF Type, Autosave, Created, AiMissed, Plain
  <2>12. ASSUME AskDelete \/ ConfirmDelete \/ Deleted PROVE Typed
    <3>1. pane.active \in Docs \union {NoDoc} /\ NoDelete \in Deletions
      BY DEF Stocked, Sound, Panes, NoDelete, Deletions
    <3>2. deleting' \in Deletions
      BY <2>12, <3>1 DEF AskDelete, ConfirmDelete, Deleted, Plain, Deletions
    <3> QED
      BY <2>12, <3>2 DEF AskDelete, ConfirmDelete, Deleted, Plain
  <2>13. Typed
    BY <1>2, <2>1, <2>2, <2>3, <2>4, <2>5, <2>6, <2>7, <2>8, <2>9, <2>10, <2>11, <2>12
       DEF DocNext, Rest
  <2> QED BY <1>2, <2>13, PaneEmpties DEF Plain
<1> QED BY <1>1, <1>2

\* Every variable of the editor keeps its type; in particular the textarea, the
\* tabs, the PUTs and the animation hold texts and nothing else.
THEOREM DocTypesHold == DocSpec => []DocTypeOK
<1>1. DocInit => Stocked /\ Plain
  <2>1. NoDelete \in Deletions
    BY DEF NoDelete, Deletions
  <2>2. ASSUME DocInit PROVE Plain
    <3>1. pane.out = {} /\ fetches = {} /\ mail = {}
      BY <2>2 DEF DocInit
    <3>2. saveTimer \in BOOLEAN /\ docChat \in Chats /\ deleting = NoDelete
      BY <2>2, Zenon DEF DocInit
    <3> QED
      BY <2>1, <3>1, <3>2 DEF Plain
  <2>3. Whole => Stocked
    BY DEF Whole, Clean, Stocked, Sound
  <2> QED BY <2>2, <2>3, InitWhole
<1>2. Stocked /\ Plain /\ [DocNext]_docVars => Stocked' /\ Plain'
  BY StockedStep, PlainStep DEF Stocked, Sound
<1>3. Stocked /\ Plain => DocTypeOK
  BY DEF Stocked, Sound, Plain, DocTypeOK, Panes, Writes, Diffs, Calls, Mails, Deletions
<1> QED BY <1>1, <1>2, <1>3, PTL DEF DocSpec

=============================================================================
