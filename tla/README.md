# Odysseus: a TLA+ verification project

This directory holds TLA+ models of the concurrent core of Odysseus, on the
server (`src/`, `routes/`, `core/`, `app.py`) and in the browser (`static/js/`),
the TLC configurations that check them on small instances, and TLAPS proofs for
every instance. Paths below are relative to the repository root.

## 1. The system

Odysseus is one Python process running one asyncio event loop, with SQLite
behind SQLAlchemy, and a single-page client in plain JavaScript, whose event loop
is just as cooperative. What can go wrong on either side is what happens between
two suspension points: a coroutine is resumed after somebody else changed the row,
the registry, the open chat or the active document it looked at before. In the
client the shared state is a set of module-level variables (`isStreaming`,
`activeDocId`, `state.draftId`) that always mean what is on screen *now*.

| component | state it keeps | operations | interacts with |
|---|---|---|---|
| Task scheduler (`src/task_scheduler.py`) | `_executing`, `_task_handles`, `_run_semaphore` in memory; `scheduled_tasks`, `task_runs` on disk | start, loop, dispatch, execute, chain, stop, foreground stop, recover | routes, event bus, gate |
| Task routes (`routes/task_routes.py`) | none of their own | create, edit, delete, pause, resume, revert, run, stop, webhook | writes the tables, calls the scheduler |
| Event bus (`src/event_bus.py`) | `trigger_counter`, `next_run` of event tasks | handle an event | writes the tables, calls `run_task_now` |
| Foreground gate (`src/interactive_gate.py`, middleware in `app.py`) | active requests, last activity, heartbeat | track, mark, wait until quiet | blocks and cancels scheduler runs |
| Detached chat runs (`src/agent_runs.py`) | `_RUNS`: buffer, subscribers, status, drain task, eviction timer | start, stop, drain, subscribe, evict | chat routes, gate |
| Chat pane (`static/js/chat.js`, `sessions.js`, `app.js`) | `isStreaming`, `_activeStreams`, `_backgroundStreams`, `_resumingStreams`, the queue and its timers | send, queue, promote, stop, detach, poll, resume, recover, watch | detached runs, over a connection that may drop |
| Document editor (`static/js/document.js`) | `docs`, `activeDocId`, one textarea, one diff, one autosave timer | type, switch, load, create, close, minimize, delete, AI edit | document rows, the chat stream |
| Image editor, undo (`static/js/galleryEditor.js`, `editor/`) | `undoStack`, `redoStack`, an open stroke or prompt | save state, undo, redo, jump, apply, cancel | the keyboard |
| Image editor, drafts (`static/js/galleryEditor.js`, `gallery.js`) | `draftId`, `persistTimer`, `persistInFlight`, `persistDirty` | schedule, save, open, resume, close, save as copy | draft rows (`routes/editor_draft_routes.py`) |
| Background jobs and monitor (`src/bg_jobs.py`, `src/bg_monitor.py`) | `bg_jobs.json`, log and exit files | launch, refresh, kill, prune, follow up | session store, chat runs |
| Scheduled email (`routes/email_pollers.py`) | `scheduled_emails` | claim, send, mark | SMTP, IMAP, a second poller |
| Uploads (`src/upload_handler.py`) | files, index, backup of the index | save, reserve, clean up, rename owner | chat, documents |
| Session store (`core/session_manager.py`) | sessions in memory, rows on disk | add, save, delete | chat, monitor |
| Small stores (`src/rate_limiter.py`, `routes/device_flow.py`, `_cached`) | dictionaries with expiry | check, claim, fetch once | routes |

`PROJECT.json` lists the rest (LLM client, search, CalDAV, email client and so on)
with the reason each is left out. Its `hazards` list what in this code is hard to
test, line by line, with the property that covers each, or why none does yet.

What makes the modelled components correct:

- Scheduler: a task is dispatched once; model users run one at a time; the slot
  is never lost; registries never keep a dead run; a run row shown as open has a
  coroutine behind it; a trigger survives cancellation and restart until served; a
  recurring task never loses its next run; settling a run never leaves a hot loop.
- Chat runs: a subscriber gets every event once, in order, up to the end of the
  run it reads; a replaced run stops, and its successor writes only after it; a
  finished run is kept while read and evicted when not.
- Chat pane: a message reaches the conversation it was composed in; every live
  reader is known under its session; the composer is unlocked however a stream
  ends; a queued message is sent.
- Document editor: no document receives another's text; the textarea shows the
  active document; only the user's deletion deletes.
- Image editor: the two stacks behave as one line of canvases, within the cap; a
  draft belongs to one picture, a picture has one draft, and the last edit of every
  picture ends up in it.

## 2. Modules

| module | models |
|---|---|
| `TaskScheduler.tla` | scheduler, task routes, event bus, gate edges, crash and recovery |
| `MCTaskScheduler.tla` | three instances for TLC: Pair, Solo, Trio |
| `TaskSchedulerProofs.tla` | theorems about `TaskScheduler`: types and the model slot |
| `DispatchProofs.tla` | the registries `_executing` and `_task_handles`, the rows of `task_runs` |
| `ScheduleProofs.tla` | `next_run` of recurring and event tasks, the polling loop |
| `AgentRuns.tla` | detached chat runs of one session |
| `AgentRunsProofs.tla` | theorems about `AgentRuns` |
| `ChatClient.tla` | the chat pane of one tab, with the server's runs and the network |
| `ChatClientProofs.tla` | theorems about `ChatClient` |
| `DocEditor.tla` | the document editor of one tab, with the server's documents |
| `MCDocEditor.tla` | the chats of the documents in two instances |
| `DocEditorProofs.tla` | theorems about `DocEditor` |
| `UndoLine.tla` | abstract: what undo and redo promise, a line of canvases |
| `EditHistory.tla` | the undo and redo stacks, strokes, filters, transforms |
| `EditHistoryProofs.tla` | theorems about `EditHistory`, the refinement of `UndoLine` among them |
| `GalleryDrafts.tla` | the image editor's drafts, with the server's rows |
| `MCImageEditor.tla` | `EditHistory` and `GalleryDrafts` in one run |
| `GalleryDraftsProofs.tla` | theorems about `GalleryDrafts` and `MCImageEditor` |

### TaskScheduler and the code

One action is one segment of a coroutine, from one suspension to the next.
Blocks under `_executing_lock` contain no `await`, so the lock is never
contended and is not a variable. A cancelled coroutine learns of it at its next
resumption: `handle.cancel()` sets `cancel[r]`, and every other step of a waiting
or executing run is guarded by `~cancel[r]`.

| state | code |
|---|---|
| `task[t]` | the row of `scheduled_tasks`; `kind` merges `trigger_type` and `schedule`; `nextRun` is NULL, in the future or due; `ahead` says that a once-date is in the future; `counter` is `trigger_counter` |
| `row`, `newest` | `task_runs.status`, and which run of the task has the latest `started_at` |
| `pc`, `mode`, `cancel`, `hit`, `outcome`, `seen` | one `_execute_task` coroutine: where it is suspended, how it was started, a pending cancellation, `foreground_cancel`, the uncommitted result, its ORM session's snapshot of the task |
| `handle`, `executing`, `slot`, `waiters` | `_task_handles`, `_executing`, `_run_semaphore` and its FIFO of waiters |
| `up`, `fg`, `stopPending` | process alive, `has_foreground_activity()`, a scheduled `stop_background_tasks_for_foreground` |
| `unserved` | history: an event trigger fired while the task was `idle` or `busy` and no run has started since |

A run goes `spawned` or `chained` → (`queued`) → (`gated`) → `running` →
(`finishing` or `unwinding`) → gone:

- `Begin`: handle, queued row, then directly, through the free semaphore, or into
  its queue. `Acquire`: the semaphore hands over. `Refuse` and `Admit`: the checks
  of `_execute_task_locked` up to the gate. `OpenGate`: the user is quiet.
- `Noop`, `Defer`, `Cancelled`, `Produce`: the executor's four ends. All but forced
  runs then await their cancelled monitor, a suspension in which cancellations are
  swallowed: `finishing` before the final commit, `unwinding` after one.
- `Finish` and `FinishForced` commit and spawn the chained task. `FinishFails` is a
  commit that fails in flush, after which the first unguarded query of the error
  path raises too.
- `CancelledWaiting`: cancelled in the queue or at the gate.

ORM writes go through `Flushed`: SQLAlchemy does not write an attribute equal to
the value the session loaded, so a run may leave a `next_run` it meant to clear.

Abstractions. The executor's own work is one wait. One owner. Notifications,
the assistant log, `last_run` and `run_count` are left out. A recurring schedule
is valid and has a future occurrence. A deferred-by-n-minutes time is just
"later". `Reload` may happen at any time an executor could commit its session.
The gate runs with its default configuration (enabled, unbounded wait). The
`Runs` pool bounds how many coroutines of one task coexist; a dispatch without a
free run is blocked, a chain without one is dropped.

### AgentRuns and the code

`cur` is `_RUNS[session_id]`. A run's drain task is `created`, `waiting` (for the
task it replaced), `streaming`, `saving` (its generator handles the cancellation)
or `ended`. An event is its index, a buffer its length, and a subscriber's
`asyncio.Queue` the interval of indices published since it registered plus the
end sentinel (`ended`). `timer` holds the runs with a pending `evict_task`.
Sessions share nothing, so one is enough. Events per run are bounded by
`MaxEvents`, runs are reused once nothing refers to them.

### ChatClient and the code

A send is one message on its way, from `handleChatSubmit` to its `finally` block,
or waiting in `_queuedAgentRequests`, or the handshake the tab types by itself
when a stream drops.

| state | code |
|---|---|
| `cur`, `isStreaming` | the open session; the flag of the composer |
| `pc`, `home`, `sess` | where the send is, the session open when it was composed, `streamSessionId` |
| `activeStreams`, `bgStreams`, `resumed` | `_activeStreams`, the status in `_backgroundStreams`, `_resumingStreams` |
| `wire`, `run`, `stopMail` | what the reader will find, the session's run on the server, stop requests under way |
| `queued`, `drainTimer`, `promoted`, `recovering` | the queue and the three timers that press send |
| `loading`, `polls`, `rejoin` | `selectSession` awaiting the history, the interval of `checkBackgroundStream`, the requests of `_checkServerStream` |
| `probe` | the watchdog's status request |

`Settle` is the `finally` block, which every end of a send runs. An abort is a
microtask: while one is pending (`NoAbortPending`) nothing else runs. The server is
`AgentRuns` reduced to which run is in flight: a new one replaces it, a stop
cancels whatever is there. Left out: rendering, research, slash commands,
regeneration, and the spinner fallback of `_checkServerStream`.

### DocEditor and the code

A text is the document it was written for and a revision, so a text in the wrong
place is visible. `pane` is what one call reads and writes together: the map
`docs`, `activeDocId`, the textarea (`Absent` while the panel is closed), the diff,
the chip; `out` collects the PUTs of the step. The operators `Kept`, `Saving`,
`Exited`, `Shown`, `Opened`, `Closed`, `Detached` are `saveCurrentToMap`,
`saveDocument`, `exitDiffMode`, `switchToDoc`, `openPanel`, `closePanel` and
`_detachDocFromSession`; an action composes them in the order of its handler.
PUTs, loads and AI events are answered in any order. Titles are unique, and email
and PDF documents are left out.

### EditHistory, UndoLine and the code

`UndoLine` knows a line of canvases and a position. `EditHistory` has the code's two
stacks; `Line` maps the undo stack, the canvas and the reversed redo stack onto the
line. `session` is an open stroke, filter prompt or transform. A snapshot that
fails costs the step. A layer's pixels are one abstract canvas.

### GalleryDrafts and the code

`layers` is the set of pictures drawn into the layers, with the revision of the last
edit, so that mixed drafts and lost edits show. `save` is the request behind
`persistInFlight`, with its answer; `lookups` are the promise chains `openEditor`
starts, which ask only whether *an* editor is open. `rows` is the server's table.
`lastRev`, `safe` and `failed` are history variables.

`MCImageEditor` puts the two machines of the image editor in one run. They share no
state, so the first state chooses (`focus`) which of them moves; each is explored
in full.

## 3. Runs

| run | instance | checks |
|---|---|---|
| `dispatch` | Pair: a recurring LLM task chained to an event-triggered model-backed action, one run each; run, event, stop, foreground, crash | `TypeOK`, `SlotDiscipline`, `OneModelRun`, `NoPhantomRow`, `TriggerDurable` |
| `edits` | Solo: one recurring model-backed action with two runs; run, force, stop, foreground, pause, edit, revert, delete, create, crash | `HandlesAreLive`, `NoStaleMembership`, `RecurringArmed`, `NoHotLoop` |
| `single_dispatch` | Trio: a webhook action chained to a recurring LLM task with two runs, and a webhook action its owner may not run; run, webhook, crash, failing commit | `NoDoubleDispatch` |
| `served` | Pair under `FairSpec`; run, event, foreground | `TriggersServed`, `QueueDrains` |
| `agent_runs` | two runs, two subscribers, two events | `TypeOK`, `InOrder`, `OnlyCurrentStreams`, `EvictionArmed`, `WritesSequential`, `CompleteAtClose`, `NotEvictedWhileRead` |
| `chat` | two conversations, two sends; stop, refusal, dropped connections | `ChatTypeOK`, `RightConversation`, `ReaderKnown` |
| `chat_live` | one conversation, two sends, under `ChatFairSpec`; queue, promote, stop, time-out, silent and dropped connections, refusal, reload, model switch | `ComposerUnlocks`, `QueueServed` |
| `documents` | a saved document of one chat and a streamed one of another; open, create, delete, minimize, stream, animate | `DocTypeOK`, `NoCrossWrite`, `EditorShowsActive` |
| `image_editor` | three canvases and a cap of three; a photo and a blank canvas, three draft rows, one edit each | `EditorTypeOK`, `HistoryBounded`, `KeepsTheLine`, `OwnDraft`, `WorkIsKept`, `OneDraft` |

Why these bounds. The slot is contended by two runs; with one more in the queue
the order of hand-over matters, and the proofs cover any number. Two runs of one
task are what a double dispatch, an overwritten handle or a forced run beside a
scheduled one need. A threshold of 1 makes every event fire, which is the case
with a trigger to lose; the counter itself is covered by the proof of `TypeOK`.
Two subscribers distinguish the last to leave from another; two events suffice to
lose, repeat or reorder one. In the client two sends are a stream and the one that
takes its place, is queued behind it or recovers it; two conversations are the one
left and the one opened; a queue of one and a promotion need no second conversation.
Two documents are the one written for and the one that could receive it by mistake,
with one revision each (a wrong owner shows at the first) and one PUT and one load
on their way; the proofs cover any number. A cap of three with three canvases fills
the stacks and drops a step; three rows allow a duplicate and a re-creation after a
404, and an edit of each picture is one to lose. A once-date, an edit to another kind and a commit
fault are left out of the passing runs where they break the property checked; each
such case is a finding or a hazard.

An instance also names what may happen in it (`Ops`, `Faults`, `ChatOps`, `DocOps`,
`HistOps`, `DraftOps`). What the passing runs leave out because the code does not
keep the property then:

| left out | what it breaks |
|---|---|
| `ChatOps` "stall" in `chat` | `ReaderKnown`: the watchdog's second look does not ask whose stream it is (chat.js:4173) |
| `ChatOps` "switchModel" with two conversations | `RightConversation`: `streamSessionId` is read after the model switch (chat.js:1349) |
| `ChatOps` "resend": a second message while a reply is on its way | `ReaderKnown`: the first reader's `finally` deletes the second's entry |
| a third send in `chat` | `ReaderKnown`: a stop pressed before the first send has its entry aborts nothing and unlocks the composer (chat.js:3940); `RightConversation`: the queue drains into whichever chat is open |
| a third run in `agent_runs` | `WritesSequential`: a replacement cancelled early is done before the run it replaced (agent_runs.py:147) |
| `DocOps` "stale": a document is left with its diff open | `NoCrossWrite`: run `cross_write` |
| `DocOps` "race", "mixed": an animation, the 300 ms after the last verdict or a create overtaken; a minimized chat restored into an open panel | `NoCrossWrite`, `EditorShowsActive` |
| `HistOps` "keys", "oom": undo during a prompt; a snapshot that fails as one opens | `KeepsTheLine`: Cancel pops an entry that is not its own (galleryEditor.js:2701) |
| `DraftOps` "close": the editor is closed while a save is in flight | `WorkIsKept` (galleryEditor.js:4303, 1142) |
| `DraftOps` "switch": another picture before the answers are in | `OwnDraft` (galleryEditor.js:1134, 4131) |
| `DraftOps` "export", "strokes": edits during an upload; a stroke longer than the debounce | `WorkIsKept` |

Runs that must fail, each against a sentence of the repository:

| run | what happens | what the repository says |
|---|---|---|
| `event_while_running` | the commit of the run in flight clears the trigger that came meanwhile | `src/event_bus.py:99`: the trigger is persisted so as not to lose the event |
| `cross_write` | a chat is left with a diff open; when the AI streams into the next chat's document, `exitDiffMode(true)` saves the old text into it | `static/js/document.js:10302`: the guard of issue #2467, "restores and saves THAT doc" |
| `chip_deletes` | a document is minimized, the user goes to another chat and closes the chip: the map has forgotten the document, so it counts as empty and is deleted | `static/js/document.js:4608`: "Close a doc tab without breaking its chat association" |

`CHECK_DEADLOCK` is left on everywhere.

Fairness. The event loop resumes every coroutine that can run, and the scheduler
loop polls for ever: weak fairness of each run's steps, of its monitor, of the
loop, of the pending foreground stop and of start-up. Weak fairness of `Produce`
and of its siblings assumes that executors return. `ForegroundEnd` is weakly fair:
an active user pauses at some point. Time passes (`Tick`). No request, event or
crash is fair. `served` leaves `stop` out: a user who stops every run can starve a
trigger for ever. For chat runs, generators end (their events are bounded) and
timers fire. In the chat pane every continuation, answer and timer of the tab is
weakly fair, runs on the server end and a cut connection is noticed; the user is
not fair, no message has to be sent, and a silent connection ends only through the
watchdog. `ChatFairSpec` takes weak fairness of `ProbeAsk` for the interval that
calls the watchdog.

## 4. Proofs

Every invariant and action property of the passing runs is also a theorem, for all
values of the constants. Where the code keeps a property only under a condition,
the theorem names it, as an assumption on what happens in the instance
(`Ops`, `Faults`, `ChatOps`, ...) or as a temporal hypothesis `[][A]_vars` that
excludes one kind of step. Each condition is one the property fails without, as TLC
shows or the step the proof could not make.

| theorem | property | holds when |
|---|---|---|
| `TypeCorrect`, `SlotSafe`, `ModelExclusive` | `TypeOK`, `SlotDiscipline`, `OneModelRun` | always |
| `HandlesStayLive`, `MembershipIsLive` | `HandlesAreLive`, `NoStaleMembership` | always |
| `SingleDispatch` | `NoDoubleDispatch` | nobody stops a task |
| `RowsHaveRuns` | `NoPhantomRow` | final commits do not fail in flush |
| `RecurringStaysArmed` | `RecurringArmed` | no edit changes the trigger of an executing task (`KindsSettled`) or makes an active task without next run recurring and sends no schedule (`SchedulesSent`) |
| `TriggerSurvives` | `TriggerDurable` | no edit changes the trigger of a task that waits for its run (`TriggersKept`) |
| `LoopStaysCool` | `NoHotLoop` | tasks are on schedules, final commits do not fail in flush |
| `TypesHold`, `DeliveredInOrder`, `DeliveredWhole`, `ReplacedStops`, `BuffersExpire`, `ReadersKeepTheirRun` | `TypeOK`, `InOrder`, `CompleteAtClose`, `OnlyCurrentStreams`, `EvictionArmed`, `NotEvictedWhileRead` | always |
| `SavesInOrder` | `WritesSequential` | no drain task is cancelled before the run it replaced is over (`LineKept`) |
| `PaneTypesHold` | `ChatTypeOK` | always |
| `ReadersStayKnown` | `ReaderKnown` | no watchdog; messages go to a conversation one at a time (`OneAtATime`) |
| `MessagesGoHome` | `RightConversation` | no model switch; what waited in the queue goes out while its conversation is open (`QueueGoesHome`) |
| `DocTypesHold` | `DocTypeOK` | always |
| `CrossWriteFree`, `EditorTrue` | `NoCrossWrite`, `EditorShowsActive` | neither "race" nor "stale" nor "mixed" |
| `HistoryStaysBounded` | `HistoryBounded` | always |
| `LineImplemented` | `KeepsTheLine` | no key reaches a prompt, no snapshot fails in one (`HistOps` empty) |
| `DraftsKeepToTheirPicture`, `OneDraftEach` | `OwnDraft`, `OneDraft` | no picture is opened while answers for another are out ("switch") |
| `NothingIsLost` | `WorkIsKept` | the user waits for what is under way (`DraftOps` empty) |
| `EditorTypesHold` | `EditorTypeOK` | no "switch" |

`TaskSchedulerProofs.tla` proves, from `SchedulerAssumption` alone, for every set
of tasks, runs and events:

- `TypeCorrect`: `Spec => []TypeOK`. Besides the types it says that every event
  counter stays below its threshold. `TypeOK` is inductive. The lemmas follow the
  operators the actions are built from (`RefuseTypes`, `CommitTypes`, ...), then
  one lemma per group of actions.
- `SlotSafe`: `Spec => []SlotDiscipline`. Its six conjuncts are inductive together
  with `TypeOK`: a release hands the permit to the head of the queue, which must be
  a queued run, distinct from every other waiter. Four lemmas cover what a step can
  do to the slot: leave it alone (`SlotKept`), end a run that is not waiting
  (`SlotLeft`), arrive (`SlotQueued`), leave the middle of the queue
  (`SlotUnqueued`). Each action is reduced to one of them.
- `ModelExclusive`: `Spec => []OneModelRun`. `SlotDiscipline` does not imply it: a
  run may be past the queue without having queued. `ModelThroughSlot` says no run
  of a task that uses the model is there in mode "direct"; it is inductive, and
  together with `SlotDiscipline` gives two such runs the same permit.

`DispatchProofs.tla` first shows (lemma `DispatchMoves`) that a step does one of
nine things to `_executing`, `_task_handles` and the coroutines: a run is
dispatched, takes its handle, moves on, leaves, leaves and starts a chained one, and
so on. The rest is proved over the moves.

- `HandlesStayLive`, `MembershipIsLive`: the invariant `Registered` is the two
  properties and that a run nobody dispatched is as the pool made it. `Spec` is
  enough: stop, faults and overwritten handles included.
- `SingleDispatch`: `Members` says that a dispatched run is in `_executing` until it
  is over. That is what `stop_task` gives up, so the theorem excludes stop.
- `RowsHaveRuns`: `RowsLive` says which rows may be open in which phase of a
  coroutine. The commit that fails in flush is excluded because it does leave one.

`ScheduleProofs.tla` is about what a run writes back from the snapshot its session
loaded.

- `RecurringStaysArmed`: inductive with `Snapped`, the trigger of an executed task is
  the one its run saw. `KindsSettled` keeps it true. `SchedulesSent` was found by the
  proof: `update_task` computes `next_run` only when a field of the schedule is sent,
  so the trigger alone can be set through the API; the form always sends both.
- `TriggerSurvives`: `Pending` says that an unserved trigger of an idle task is in the
  database and that no run which could clear it has begun. No crash, stop,
  cancellation or failed commit is excluded.
- `LoopStaysCool`: for schedules only, as an event task whose run raises keeps the due
  `next_run` it was taken up with and is taken up again at once (see the hazards).

`AgentRunsProofs.tla` proves delivery for any number of runs, readers and events.
`Delivery` says that a subscriber is inside the buffer of its run, that it was given
the first `next` events and no others, that its queue starts no later than that once
it is live, and that the sentinel is in the queues of finished runs only. `InOrder`
and `CompleteAtClose` follow. `OnlyCurrentStreams` is inductive with what a cancelled
run has been told (`Told`). For `WritesSequential` the runs of a session form a line:
each waits for the one before it. `Lined` states it by a rank that exists and need not
be a variable; the proof gives the rank of the state after each step.

`ChatClientProofs.tla` reduces the pane's steps to seven things that can happen to the
sends on their way (lemma `SendMoves`): nothing, a reload, an answer to the watchdog,
or one send begins, moves on, ends or has its model switched.

- `ReadersStayKnown`: a send on its way that is not aborted owns its session's entry
  (`Entered`), as two sends are never on their way to one session (`Alone`). The second
  is what `OneAtATime` asks: with two sends, as in `chat`, the composer sees to it; with
  three it does not (see the table in section 3).
- `MessagesGoHome`: a send that began is headed for its home (`HeadedHome`) and only
  those that began are on the wire (`Unsent`). Recovery handshakes are covered
  without a hypothesis: their timer looks at the open chat first.

`DocEditorProofs.tla` proves `CrossWriteFree` (`NoCrossWrite`) and `EditorTrue`
(`EditorShowsActive`) for every set of documents and chats and every bound, from
the assumptions of `DocEditor` and `Guarded`: the instance has neither "race" nor
"stale" nor "mixed". `NoCrossWrite` is not inductive, since a foreign text comes
from the textarea, a tab, a PUT, a load, an event, a diff or an animation. `Whole`
says that none of them holds one, that a diff exists only in the open pane it locks,
and that an animation and a creation under way belong to what is active. The lemmas
first show what each call on the pane (`Saving`, `Exited`, `Shown`, ...) keeps, then
that each action composes them into a step that keeps `Whole`. `DocTypesHold`
needs none of this: `Stocked` and `Plain` are types only, with the textarea there
exactly while the panel is open, and hold in every instance.

`EditHistoryProofs.tla` proves, for every set of canvases and every cap:

- `HistoryStaysBounded`: `HistSpec => []HistoryBounded`, also with keys that reach a
  prompt and snapshots that fail. With the types it is inductive: a save drops what
  lies ahead before it pushes, undo and redo pass on as many entries as they take.
- `LineImplemented`: with `HistOps` empty, `HistSpec => KeepsTheLine`, the refinement of
  `UndoLine`. The invariant adds that an open prompt has its own entry on top of the undo
  stack (`PromptOnTop`), which a key that reaches it breaks. Each
  step maps to a step of the line or a stutter: a save and change to `Do`, a preview
  to `Amend`, any number of undos or redos and a cancelled transform to one `Move`, a
  cancelled filter to `Retract`. The lemmas on `LineOf` say what the line looks like
  after a push, a pop and a transfer of k entries.

`GalleryDraftsProofs.tla` proves the drafts for any number of pictures and drafts,
from one invariant with a part for each thing that can be under way: the rows
(`Table`), the promise chain of `openEditor` (`Chained`), the picture being edited
(`Edited`), the save and its answer (`Saving`), the copy (`Uploaded`).

- `DraftsKeepToTheirPicture`, `OneDraftEach`: each part says which picture its draft id,
  layers or answer belongs to, and that no two of them are about to make a draft of the
  same picture. They need only that "switch" is out, so they hold also with closes,
  uploads and long strokes, which the run leaves out for `WorkIsKept`.
- `NothingIsLost`: in addition the newest revision of each picture is in the layers or
  in its draft (`Latest`, `Kept`), and layers with unsaved edits have a timer, or a save
  marked dirty.
- `EditorTypesHold` joins this invariant with the types and the bound of
  `EditHistoryProofs`.

Only model-checked: the liveness properties `TriggersServed`, `QueueDrains`,
`ComposerUnlocks` and `QueueServed`, since fairness and ENABLED are beyond the prover;
and the three runs that must fail. What `Walk`, the cycle check of chains, computes for
an arbitrary depth would be an induction over data, which is beyond it too.

## 5. Not modelled, and the plan

Not modelled: see `PROJECT.json`. The pieces left out of the modelled components
are `ensure_defaults`, notifications, the arithmetic of `compute_next_run`, and
the inside of the gate.

Of the client, the email client, notes, settings, slash commands, the cookbook and
all layout and rendering are not modelled: they are requests and forms over routes,
or lists polled from the server. They are most of the JavaScript, so the models
cover a small share of its lines: the parts with a protocol are few and dense.

Plan, most important first:

1. `CookbookTasks`: the task list of the cookbook in `localStorage`, polled and
   reconciled with the server; a removed task must stay removed
   (`cookbookRunning.js:723`).
2. `BgJobs`: launch, refresh, kill, prune and the monitor's follow-up, composed
   with the status of a chat run; restart at every point.
3. `InteractiveGate`: request counter, quiet window, heartbeat and chat streams;
   shown to implement the two-edge `fg` of `TaskScheduler`.
4. `ScheduledEmail`: two pollers, the claim, crash between claim and mark; at most
   one delivery per row. Then `SharedFetch` (`_cached`) and `UploadStore`.
5. `ChatClient` shown to use the server as `AgentRuns` offers it, by a refinement of
   `run` and `wire`; an abstract scheduler and `TaskScheduler` shown to implement it.
6. Proofs: an abstract log (a run as a sequence of events, a reader as a position in
   it) and `AgentRuns` shown to implement it; an abstract lock with a queue and the
   slot of `TaskScheduler` shown to implement it; when a document is deleted only
   because the user asked.
