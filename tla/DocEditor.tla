------------------------------ MODULE DocEditor ------------------------------
(***************************************************************************)
(* The document editor of one browser tab, static/js/document.js: one       *)
(* textarea shared by all open documents, a map of the documents' contents, *)
(* one autosave timer, an AI that streams and edits documents, and the diff *)
(* in which the user reviews its edits.  The server is a store of documents *)
(* (routes/document_routes.py).                                             *)
(*                                                                          *)
(* A text is the document it was written for and a revision; what matters   *)
(* is whose text ends up where.  The textarea is Absent while the panel is  *)
(* closed (the pane leaves the page), the 200 ms of the closing animation   *)
(* are one step with it.  Every document has a title of its own, so none is *)
(* deleted on leaving its tab and no AI edit is taken for another document  *)
(* of that title; email and PDF documents, which keep their text elsewhere, *)
(* are left out.                                                            *)
(***************************************************************************)
EXTENDS Integers, FiniteSets

CONSTANTS
  Docs, Chats, NoDoc,
  Temp,       \* the id of a document that is being streamed in
  ChatOf,     \* the chat session of each document
  Absent,     \* not there: no tab, no textarea, no row
  MaxRev,     \* bounds the revisions of a document
  MaxPuts,    \* bounds the PUTs, and the loads, on their way
  DocOps      \* what an instance lets happen

ASSUME DocAssumption ==
  /\ Temp \in Docs /\ NoDoc \notin Docs
  /\ ChatOf \in [Docs -> Chats]
  /\ MaxRev \in Nat /\ MaxPuts \in Nat

Blank == [of |-> NoDoc, rev |-> 0]
Texts == [of : Docs, rev : 0..MaxRev] \union {Blank}
ASSUME AbsentAssumption == Absent \notin Texts

NoDiff == [old |-> Blank, new |-> Blank, verdict |-> "none"]
NoDelete == [stage |-> "none", named |-> NoDoc, target |-> NoDoc]

VARIABLES
  pane,       \* docs, activeDocId, the textarea and its readOnly, isOpen, the diff
  saveTimer,  \* _autoSaveDebounce
  puts,       \* PUT /api/document requests and replies on their way
  stored,     \* server: current_content of each document
  newest,     \* the latest revision of each document, by whomever
  docChat,    \* _lastSessionId
  fetches,    \* loadSessionDocs and loadDocument that await their answer
  mail,       \* events about an AI edit the tab has not handled yet
  streaming,  \* _streamDocId
  anim,       \* the text _animateDocEdit types, Absent when idle
  creating,   \* the document whose POST is on its way
  deleting    \* deleteActiveDocument: the document it named and its state

dbVars   == <<stored, newest>>
aiVars   == <<mail, streaming, anim>>
callVars == <<creating, deleting>>
docVars  == <<pane, saveTimer, puts, docChat, fetches, dbVars, aiVars, callVars>>

DocInit ==
  /\ docChat \in Chats
  /\ pane = [tabs |-> [d \in Docs |-> Absent], active |-> NoDoc, editor |-> Absent,
             open |-> FALSE, diff |-> NoDiff, locked |-> FALSE, chip |-> NoDoc,
             out |-> {}]
  /\ saveTimer = FALSE /\ puts = {}
  /\ stored \in {f \in [Docs -> Texts \union {Absent}] :
                   /\ f[Temp] = Absent
                   /\ \A d \in Docs : f[d] \in {Absent, [of |-> d, rev |-> 0]}}
  /\ newest = [d \in Docs |-> 0]
  /\ fetches = {} /\ mail = {}
  /\ streaming = NoDoc /\ anim = Absent /\ creating = NoDoc
  /\ deleting = NoDelete

-----------------------------------------------------------------------------
(* What one call does to the pane.  out collects the PUTs it sends. *)

Put(d, t) == [doc |-> d, text |-> t, stage |-> "sent"]

\* saveCurrentToMap.
Kept(v) ==
  IF v.active # NoDoc /\ v.editor # Absent /\ v.tabs[v.active] # Absent
    THEN [v EXCEPT !.tabs[v.active] = v.editor] ELSE v

\* Mutant of Saving: a textarea that is not on the page is not noticed.
SavingUnseen(v) ==
  IF v.active = NoDoc THEN v
  ELSE [Kept(v) EXCEPT !.out = @ \union {Put(v.active, v.editor)}]

\* saveDocument up to its await.  It saves the active document, whichever the
\* caller had in mind, with what the textarea shows.
Saving(v) ==
  IF v.active = NoDoc \/ v.editor = Absent THEN v
  ELSE [Kept(v) EXCEPT !.out = @ \union {Put(v.active, v.editor)}]

\* exitDiffMode(discard): discard restores the old text whatever was accepted.
Exited(v, discard) ==
  LET final == IF ~discard /\ v.diff.verdict = "accepted" THEN v.diff.new
               ELSE v.diff.old
  IN IF v.diff = NoDiff THEN v
     ELSE Saving([v EXCEPT !.editor = IF @ = Absent THEN Absent ELSE final,
                           !.diff = NoDiff, !.locked = FALSE])

\* Mutant of Shown: d is made active before the current text is kept.
ShownKeepsLate(v, d) ==
  LET w == Kept([Exited(v, TRUE) EXCEPT !.active = d])
  IN IF v.tabs[d] = Absent THEN v
     ELSE [w EXCEPT !.editor = IF @ = Absent THEN Absent ELSE w.tabs[d]]

\* switchToDoc(d).
Shown(v, d) ==
  LET w == Kept(Exited(v, TRUE))
  IN IF w.tabs[d] = Absent THEN v
     ELSE [w EXCEPT !.active = d,
                    !.editor = IF @ = Absent THEN Absent ELSE w.tabs[d]]

\* openPanel: a new pane, empty whatever document is active.
Opened(v) ==
  IF v.open THEN v ELSE [v EXCEPT !.open = TRUE, !.editor = Blank, !.chip = NoDoc,
                                  !.locked = FALSE]

\* closePanel; "down" leaves a chip.  A diff under review stays.
Closed(v, down) ==
  IF ~v.open THEN IF down THEN v ELSE [v EXCEPT !.chip = NoDoc]
  ELSE [Kept(v) EXCEPT !.open = FALSE, !.editor = Absent, !.active = NoDoc,
                       !.chip = IF down THEN v.active ELSE NoDoc]

\* _detachDocFromSession(d) forgets d.  With a content in the map it saves first,
\* the active document; without one, or with d not there, it deletes d.
NoContent(v, d) == v.tabs[d] \in {Absent, Blank}
Detached(v, d) ==
  [IF NoContent(v, d) THEN v ELSE Saving(v) EXCEPT !.tabs[d] = Absent]
DeleteIfEmpty(v, d) ==
  stored' = IF NoContent(v, d) THEN [stored EXCEPT ![d] = Absent] ELSE stored

\* The step's pane, and its PUTs on their way.
Commit(v) == /\ pane' = [v EXCEPT !.out = {}]
             /\ puts' = puts \union v.out
             /\ Cardinality(puts') <= MaxPuts

Tabs(v) == {d \in Docs : v.tabs[d] # Absent}
Here(v) == {d \in Tabs(v) : ChatOf[d] = docChat}
\* The overlay of loadSessionDocs covers the editor.
Loading == \E f \in fetches : f.kind = "chat"
NextRev(d) == [of |-> d, rev |-> newest[d] + 1]
\* No diff is under review.  An instance without "stale" closes, deletes or leaves
\* a document only then, because a diff outlives what it was opened for.
Reviewed == pane.diff = NoDiff \/ "stale" \in DocOps

-----------------------------------------------------------------------------
(* The user. *)

\* Typing: the textarea is read-only under a diff.  Text typed into the empty
\* editor makes a new document (_autoCreateFromInput).
Type ==
  /\ pane.open /\ ~Loading /\ pane.active # NoDoc /\ ~pane.locked
  /\ LET whose == IF pane.editor = Blank THEN pane.active ELSE pane.editor.of IN
     /\ newest[whose] < MaxRev
     /\ pane' = [pane EXCEPT !.editor = NextRev(whose)]
     /\ newest' = [newest EXCEPT ![whose] = @ + 1]
  /\ saveTimer' = TRUE
  /\ UNCHANGED <<puts, stored, docChat, fetches, aiVars, callVars>>

\* A click on a tab.
ClickTab(d) ==
  /\ pane.open /\ d \in Here(pane) /\ d # pane.active
  /\ Commit(Shown(pane, d))
  /\ UNCHANGED <<saveTimer, dbVars, docChat, fetches, aiVars, callVars>>

\* closeTab(d): the next document of the chat, or the panel closes.
CloseTab(d) ==
  /\ pane.open /\ Reviewed /\ d \in Here(pane)
  /\ LET v == Detached(Kept(pane), d) IN
     \/ Here(v) = {} /\ Commit(Closed([v EXCEPT !.active = NoDoc], FALSE))
     \/ \E e \in Here(v) : Commit(IF v.active = d THEN Shown(v, e) ELSE v)
  /\ DeleteIfEmpty(Kept(pane), d)
  /\ UNCHANGED <<saveTimer, newest, docChat, fetches, aiVars, callVars>>

\* The panel is closed or minimized, and its chip is closed or restored.
ClosePanel(down) ==
  /\ pane.open /\ Reviewed
  /\ Commit(Closed(pane, down))
  /\ UNCHANGED <<saveTimer, dbVars, docChat, fetches, aiVars, callVars>>

CloseChip ==
  /\ ~pane.open /\ pane.chip # NoDoc
  /\ Commit(Detached([pane EXCEPT !.chip = NoDoc], pane.chip))
  /\ DeleteIfEmpty(pane, pane.chip)
  /\ UNCHANGED <<saveTimer, newest, docChat, fetches, aiVars, callVars>>

RestoreChip ==
  /\ ~pane.open /\ pane.chip # NoDoc
  /\ Commit(Shown(Opened(pane), pane.chip))
  /\ UNCHANGED <<saveTimer, dbVars, docChat, fetches, aiVars, callVars>>

\* loadDocument(d): from its tab, or from the server.
OpenDoc(d) ==
  /\ "open" \in DocOps /\ d # Temp /\ Cardinality(fetches) < MaxPuts
  /\ IF pane.tabs[d] # Absent
       THEN Commit(Shown(Opened(pane), d)) /\ UNCHANGED fetches
       ELSE /\ stored[d] # Absent
            /\ fetches' = fetches \union {[kind |-> "doc", doc |-> d]}
            /\ UNCHANGED <<pane, puts>>
  /\ UNCHANGED <<saveTimer, dbVars, docChat, aiVars, callVars>>

\* The user goes to chat s; its documents are asked for 300 ms later, and the
\* panel stays open with the textarea as it is.
GoToChat(s) ==
  /\ "chats" \in DocOps \/ s = docChat
  /\ Reviewed /\ Cardinality(fetches) < MaxPuts
  /\ docChat' = s
  /\ pane' = [pane EXCEPT !.active = NoDoc,
                !.tabs = [d \in Docs |-> IF ChatOf[d] = s THEN @[d] ELSE Absent]]
  /\ fetches' = fetches \union {[kind |-> "chat", chat |-> s]}
  /\ UNCHANGED <<saveTimer, puts, dbVars, aiVars, callVars>>

\* A verdict on the diff; the last one ends it 300 ms later (DiffEnds).  Its
\* buttons are in the pane the diff was opened in, as is the read-only mark.
Resolve(verdict) ==
  /\ pane.open /\ pane.locked /\ pane.diff.verdict = "open"
  /\ Commit(Saving([pane EXCEPT
              !.diff.verdict = verdict,
              !.editor = IF verdict = "accepted" THEN pane.diff.new
                         ELSE pane.diff.old]))
  /\ UNCHANGED <<saveTimer, dbVars, docChat, fetches, aiVars, callVars>>

\* createDocument, or text typed into the empty editor: the POST, ...
Create(d) ==
  /\ "create" \in DocOps /\ creating = NoDoc
  /\ pane.open /\ ~Loading /\ pane.active = NoDoc /\ pane.editor = Blank
  /\ ~pane.locked
  /\ d # Temp /\ stored[d] = Absent /\ newest[d] = 0 /\ newest[d] < MaxRev
  /\ ChatOf[d] = docChat
  /\ creating' = d
  /\ newest' = [newest EXCEPT ![d] = 1]
  /\ pane' = [pane EXCEPT !.editor = [of |-> d, rev |-> 1]]
  /\ UNCHANGED <<saveTimer, puts, stored, docChat, fetches, aiVars, deleting>>

\* ... and its answer: the document is active, the textarea is left alone.
Created ==
  /\ creating # NoDoc
  /\ creating' = NoDoc
  /\ stored' = [stored EXCEPT ![creating] = [of |-> creating, rev |-> 1]]
  /\ pane' = [pane EXCEPT !.tabs[creating] = [of |-> creating, rev |-> 1],
                          !.active = creating]
  /\ saveTimer' = TRUE
  /\ UNCHANGED <<puts, newest, docChat, fetches, aiVars, deleting>>

\* deleteActiveDocument asks about the active document, ...
AskDelete ==
  /\ "delete" \in DocOps /\ deleting = NoDelete
  /\ pane.open /\ pane.active \notin {NoDoc, Temp}
  /\ deleting' = [NoDelete EXCEPT !.stage = "asked", !.named = pane.active]
  /\ UNCHANGED <<pane, saveTimer, puts, dbVars, docChat, fetches, aiVars, creating>>

\* ... deletes the document active by the time of the answer, ...
ConfirmDelete ==
  /\ deleting.stage = "asked" /\ Reviewed
  /\ IF pane.active = NoDoc THEN deleting' = NoDelete /\ UNCHANGED stored
     ELSE /\ deleting' = [deleting EXCEPT !.stage = "sent", !.target = pane.active]
          /\ stored' = [stored EXCEPT ![pane.active] = Absent]
  /\ UNCHANGED <<pane, saveTimer, puts, newest, docChat, fetches, aiVars, creating>>

\* ... and forgets the one active by then.
Deleted ==
  /\ deleting.stage = "sent" /\ Reviewed
  /\ deleting' = NoDelete
  /\ LET v == IF pane.active = NoDoc THEN pane
              ELSE [pane EXCEPT !.tabs[pane.active] = Absent]
     IN \/ Tabs(v) = {} /\ Commit(Closed([v EXCEPT !.active = NoDoc], FALSE))
        \/ \E d \in Tabs(v) : Commit(Shown(v, d))
  /\ UNCHANGED <<saveTimer, dbVars, docChat, fetches, aiVars, creating>>

-----------------------------------------------------------------------------
(* Timers and answers. *)

\* The autosave timer, which is not bound to the document it was set for; the
\* save button and a message sent to the chat save without it.
Autosave ==
  /\ saveTimer /\ saveTimer' = FALSE
  /\ Commit(Saving(pane))
  /\ UNCHANGED <<dbVars, docChat, fetches, aiVars, callVars>>

DiffEnds ==
  /\ pane.diff.verdict \in {"accepted", "rejected"}
  /\ Commit(Exited(pane, FALSE))
  /\ UNCHANGED <<saveTimer, dbVars, docChat, fetches, aiVars, callVars>>

\* The last frame of _animateDocEdit writes to the textarea on the page.
AnimEnds ==
  /\ anim # Absent /\ anim' = Absent
  /\ pane' = [pane EXCEPT !.editor = IF @ = Absent THEN Absent ELSE anim]
  /\ UNCHANGED <<saveTimer, puts, dbVars, docChat, fetches, mail, streaming, callVars>>

\* A PUT reaches the server, in any order: a document it does not know is a 404.
PutArrives(p) ==
  /\ p \in puts /\ p.stage = "sent"
  /\ IF stored[p.doc] = Absent
       THEN /\ puts' = (puts \ {p}) \union {[p EXCEPT !.stage = "missing"]}
            /\ UNCHANGED stored
       ELSE /\ puts' = (puts \ {p}) \union {[p EXCEPT !.stage = "saved"]}
            /\ stored' = [stored EXCEPT ![p.doc] = p.text]
  /\ UNCHANGED <<pane, saveTimer, newest, docChat, fetches, aiVars, callVars>>

\* saveDocument after its await: the map takes what was saved, or loses the
\* document the server does not know.
PutAnswered(p) ==
  /\ p \in puts /\ p.stage # "sent"
  /\ puts' = puts \ {p}
  /\ pane' = IF p.stage = "saved"
               THEN IF pane.tabs[p.doc] = Absent THEN pane
                    ELSE [pane EXCEPT !.tabs[p.doc] = p.text]
               ELSE [pane EXCEPT !.tabs[p.doc] = Absent,
                       !.active = IF @ = p.doc THEN NoDoc ELSE @]
  /\ UNCHANGED <<saveTimer, dbVars, docChat, fetches, aiVars, callVars>>

\* loadDocument after its await.
DocFetched(f) ==
  /\ f \in fetches /\ f.kind = "doc"
  /\ fetches' = fetches \ {f}
  /\ IF stored[f.doc] = Absent THEN UNCHANGED <<pane, puts>>
     ELSE Commit(Shown(Opened([pane EXCEPT !.tabs[f.doc] = stored[f.doc]]), f.doc))
  /\ UNCHANGED <<saveTimer, dbVars, docChat, aiVars, callVars>>

\* loadSessionDocs in restore mode, after its await.  A chat whose panel was
\* minimized makes its first document active before the textarea shows it; an
\* instance without "mixed" does that only with the panel closed.
ChatFetched(f) ==
  /\ f \in fetches /\ f.kind = "chat"
  /\ fetches' = fetches \ {f}
  /\ LET found == {d \in Docs : stored[d] # Absent /\ ChatOf[d] = f.chat}
         v == [pane EXCEPT !.tabs = [d \in Docs |->
                 IF d \in found /\ @[d] = Absent THEN stored[d] ELSE @[d]]]
     IN \/ found = {} /\ UNCHANGED <<pane, puts>>
        \/ /\ found = {}
           /\ Commit([Opened(pane) EXCEPT !.active = NoDoc, !.editor = Blank])
        \/ \E d \in found : Commit(Shown(Opened(v), d))
        \/ /\ "minimized" \in DocOps /\ (pane.open => "mixed" \in DocOps)
           /\ \E d \in found :
                LET w == [v EXCEPT !.active = d, !.chip = d]
                IN Commit(IF w.open THEN Closed(Shown(w, d), TRUE) ELSE w)
  /\ UNCHANGED <<saveTimer, dbVars, docChat, aiVars, callVars>>

-----------------------------------------------------------------------------
(* The AI. *)

\* A tool writes document d on the server; the events follow on the stream:
\* the tool's result and doc_update, both handled by handleDocUpdate.
AiWrites(d) ==
  /\ mail = {} /\ newest[d] < MaxRev /\ d # Temp
  /\ stored[d] # Absent \/ newest[d] = 0
  /\ ChatOf[d] = docChat /\ creating # d
  /\ stored' = [stored EXCEPT ![d] = NextRev(d)]
  /\ newest' = [newest EXCEPT ![d] = @ + 1]
  /\ mail' = {[doc |-> d, text |-> NextRev(d), event |-> e] :
                e \in {"result", "update"}}
  /\ UNCHANGED <<pane, saveTimer, puts, docChat, fetches, streaming, anim, callVars>>

\* handleDocUpdate: ends the stream and any diff, then shows the document, in
\* a diff or an animation when its text was in the editor.  With the panel
\* closed the textarea was looked up before openPanel made it.
AiUpdate(m) ==
  /\ m \in mail /\ (m.event = "update" => ~\E e \in mail : e.event = "result")
  /\ ChatOf[m.doc] = docChat
  /\ mail' = mail \ {m}
  /\ streaming' = NoDoc
  /\ LET v0 == Exited(pane, TRUE)
         v1 == IF streaming = Temp /\ v0.tabs[Temp] # Absent
                 THEN [v0 EXCEPT !.tabs[Temp] = Absent,
                                 !.active = IF @ = Temp THEN m.doc ELSE @]
                 ELSE v0
         edit == /\ m.doc = v1.active /\ v1.tabs[m.doc] # Absent /\ streaming = NoDoc
                 /\ v1.editor \notin {Absent, Blank, m.text}
         v2 == [Opened(v1) EXCEPT !.tabs[m.doc] = m.text, !.active = m.doc]
     IN \/ /\ edit
           /\ Commit([v2 EXCEPT !.diff = [old |-> v1.editor, new |-> m.text,
                                          verdict |-> "open"], !.locked = TRUE])
           /\ UNCHANGED anim
        \/ /\ edit /\ "animate" \in DocOps
           /\ Commit(v2) /\ anim' = m.text
        \/ /\ ~edit
           /\ Commit([v2 EXCEPT !.editor = IF v1.editor = Absent THEN Blank ELSE m.text])
           /\ UNCHANGED anim
  /\ UNCHANGED <<saveTimer, dbVars, docChat, fetches, callVars>>

\* The tab misses the events: the user is in another chat.
AiMissed ==
  /\ mail # {} /\ mail' = {}
  /\ UNCHANGED <<pane, saveTimer, puts, dbVars, docChat, fetches, streaming, anim,
                 callVars>>

\* Mutant of StreamOpen: the textarea keeps what it shows.
StreamOpenOverText(d) ==
  /\ "stream" \in DocOps /\ streaming = NoDoc
  /\ d = Temp \/ d \in Here(pane)
  /\ streaming' = d
  /\ LET v == Exited(pane, TRUE) IN
     Commit([Opened([v EXCEPT !.tabs[d] = IF @ = Absent THEN Blank ELSE @])
              EXCEPT !.active = d])
  /\ UNCHANGED <<saveTimer, dbVars, docChat, fetches, mail, anim, callVars>>

\* streamDocOpen: a document of that title, or the temporary one.
StreamOpen(d) ==
  /\ "stream" \in DocOps /\ streaming = NoDoc
  /\ d = Temp \/ d \in Here(pane)
  /\ streaming' = d
  /\ LET v == Exited(pane, TRUE) IN
     Commit([Opened([v EXCEPT !.tabs[d] = IF @ = Absent THEN Blank ELSE @])
              EXCEPT !.active = d, !.editor = Blank])
  /\ UNCHANGED <<saveTimer, dbVars, docChat, fetches, mail, anim, callVars>>

\* streamDocDelta.
StreamDelta ==
  /\ streaming # NoDoc /\ newest[streaming] < MaxRev
  /\ newest' = [newest EXCEPT ![streaming] = @ + 1]
  /\ pane' = [pane EXCEPT
       !.tabs[streaming] = IF @ = Absent THEN Absent ELSE NextRev(streaming),
       !.editor = IF streaming = pane.active /\ @ # Absent THEN NextRev(streaming)
                  ELSE @]
  /\ UNCHANGED <<saveTimer, puts, stored, docChat, fetches, aiVars, callVars>>

\* An instance without "race" lets an animation, about a second, the 300 ms after
\* the last verdict on a diff, and the POST of a document typed into the empty
\* editor end before anything else happens.
Undisturbed ==
  "race" \in DocOps \/ /\ anim = Absent /\ creating = NoDoc
                       /\ pane.diff.verdict \notin {"accepted", "rejected"}

Rest ==
  \/ \E d \in Docs : ClickTab(d) \/ CloseTab(d) \/ OpenDoc(d) \/ Create(d)
                     \/ AiWrites(d) \/ StreamOpen(d)
  \/ \E s \in Chats : GoToChat(s)
  \/ \E down \in BOOLEAN : ClosePanel(down)
  \/ \E verdict \in {"accepted", "rejected"} : Resolve(verdict)
  \/ \E p \in puts : PutArrives(p) \/ PutAnswered(p)
  \/ \E f \in fetches : DocFetched(f) \/ ChatFetched(f)
  \/ \E m \in mail : AiUpdate(m)
  \/ Type \/ CloseChip \/ RestoreChip \/ Autosave \/ AskDelete
  \/ ConfirmDelete \/ Deleted
  \/ AiMissed \/ StreamDelta

DocNext ==
  \/ AnimEnds \/ Created \/ DiffEnds
  \/ Undisturbed /\ Rest

DocSpec == DocInit /\ [][DocNext]_docVars

-----------------------------------------------------------------------------
DocTypeOK ==
  /\ pane \in [tabs : [Docs -> Texts \union {Absent}], active : Docs \union {NoDoc},
              editor : Texts \union {Absent}, open : BOOLEAN,
              diff : [old : Texts, new : Texts,
                      verdict : {"none", "open", "accepted", "rejected"}],
              locked : BOOLEAN, chip : Docs \union {NoDoc}, out : {{}}]
  /\ saveTimer \in BOOLEAN
  /\ puts \subseteq [doc : Docs, text : Texts, stage : {"sent", "saved", "missing"}]
  /\ stored \in [Docs -> Texts \union {Absent}] /\ newest \in [Docs -> 0..MaxRev]
  /\ docChat \in Chats
  /\ fetches \subseteq [kind : {"doc"}, doc : Docs] \union
                       [kind : {"chat"}, chat : Chats]
  /\ mail \subseteq [doc : Docs, text : Texts, event : {"result", "update"}]
  /\ streaming \in Docs \union {NoDoc} /\ creating \in Docs \union {NoDoc}
  /\ anim \in Texts \union {Absent}
  /\ deleting \in [stage : {"none", "asked", "sent"}, named : Docs \union {NoDoc},
                  target : Docs \union {NoDoc}]

Own(t, d) == t.of \in {d, NoDoc}

\* No document on the server ever holds a text written for another one, whatever
\* tabs, loads, autosaves, streams and AI edits interleave: the promise of the
\* guards on a pending diff (document.js:10302-10310, 10574-10583, issue #2467).
NoCrossWrite == \A d \in Docs : stored[d] # Absent => Own(stored[d], d)

\* A document leaves the server only when the user deletes it; closing a tab or
\* a chip keeps it: "Close a doc tab without breaking its chat association"
\* (document.js:4608).
DeletedOnlyWhenAsked ==
  [][\A d \in Docs : stored[d] \notin {Absent, Blank} /\ stored'[d] = Absent
                     => deleting'.stage = "sent"]_docVars

\* What the textarea and the tabs show is the text of the document they are for.
EditorShowsActive ==
  /\ pane.active # NoDoc /\ pane.editor # Absent => Own(pane.editor, pane.active)
  /\ \A d \in Docs : pane.tabs[d] # Absent => Own(pane.tabs[d], d)
=============================================================================
