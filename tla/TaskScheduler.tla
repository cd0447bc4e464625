--------------------------- MODULE TaskScheduler ---------------------------
(***************************************************************************)
(* The background task scheduler of src/task_scheduler.py together with    *)
(* everything that acts on its rows: the task routes, the event bus, the   *)
(* foreground gate of the HTTP middleware, crash and start-up recovery.    *)
(*                                                                         *)
(* The scheduler is one asyncio event loop.  A coroutine runs alone from   *)
(* one suspension point to the next, so one action below is one such       *)
(* segment.  Blocks under _executing_lock contain no await, hence the lock *)
(* is never contended, never suspends, and needs no variable.  A           *)
(* cancelled coroutine (handle.cancel()) receives CancelledError at its    *)
(* next resumption: every other step of a run is guarded by ~cancel.       *)
(*                                                                         *)
(* A run is one _execute_task coroutine with the TaskRun row it inserts.   *)
(* Runs is a pool: a run whose coroutine ended and whose row is terminal   *)
(* is reused, and its old row is then history nobody looks at again.       *)
(***************************************************************************)
EXTENDS Integers, Sequences, SequencesExt

CONSTANTS
  Tasks,        \* rows of scheduled_tasks
  Runs,         \* pool of run coroutines and of their task_runs rows
  TaskOf,       \* the task a run executes
  Events,       \* event names of the event bus
  KindOf,       \* trigger each task is created with
  Listens,      \* event name an event task subscribes to
  Threshold,    \* trigger_count: fire every that many events
  Then,         \* then_task_id
  Actions,      \* tasks with task_type = "action"
  ModelBacked,  \* those whose action is in _MODEL_BACKED_ACTIONS
  Unprivileged, \* admin-only actions owned by someone who is not an admin
  EditKinds,    \* triggers an edit or a creation may choose
  Ops,          \* requests the environment issues
  Faults,       \* faults the environment injects: "crash", "commit"
  NoRun, NoTask

Kinds    == {"recurring", "once", "event", "webhook"}
Schedule == {"recurring", "once"}

ASSUME SchedulerAssumption ==
  /\ TaskOf \in [Runs -> Tasks]
  /\ KindOf \in [Tasks -> Kinds]
  /\ Listens \in [Tasks -> Events]
  /\ Threshold \in [Tasks -> Nat \ {0}]
  /\ Then \in [Tasks -> Tasks \union {NoTask}]
  /\ \A t \in Tasks : Then[t] # t
  /\ ModelBacked \subseteq Actions /\ Actions \subseteq Tasks
  /\ Unprivileged \subseteq Actions
  /\ EditKinds \subseteq Kinds
  /\ NoRun \notin Runs /\ NoTask \notin Tasks

VARIABLES
  up,          \* the server process is running
  fg,          \* has_foreground_activity()
  stopPending, \* a stop_background_tasks_for_foreground coroutine is scheduled
  task,        \* scheduled_tasks: status, kind, nextRun, ahead, counter
  unserved,    \* history: an event trigger fired and no run has served it yet
  row,         \* task_runs.status of each run
  newest,      \* the run of a task with the latest started_at
  pc,          \* where the run's coroutine is suspended
  mode,        \* "slot": holds or waits for the semaphore; "direct"; "forced"
  cancel,      \* a cancellation waits for the coroutine's next resumption
  hit,         \* foreground_cancel["hit"]
  outcome,     \* result the coroutine has in hand but has not committed
  seen,        \* the task's attributes as the run's ORM session loaded them
  handle,      \* _task_handles
  executing,   \* _executing
  slot,        \* run that owns the permit of _run_semaphore
  waiters      \* runs queued on _run_semaphore, in arrival order

dbVars   == <<task, unserved, row, newest>>
fgVars   == <<fg, stopPending>>
runVars  == <<mode, cancel, hit, outcome, seen>>
memVars  == <<handle, executing, slot, waiters>>
vars     == <<up, fg, stopPending, task, unserved, row, newest, pc, mode,
              cancel, hit, outcome, seen, handle, executing, slot, waiters>>

-----------------------------------------------------------------------------
(* Data *)

Statuses  == {"active", "paused", "completed", "deleted"}
NextRuns  == {"none", "later", "due"}   \* NULL, in the future, <= now
OpenRows  == {"queued", "running"}
RowStates == OpenRows \union {"none", "success", "error", "skipped", "aborted"}
Started   == {"running", "finishing", "unwinding"}
PcStates  == Started \union {"none", "spawned", "chained", "queued", "gated"}
Nothing   == [kind |-> "webhook", nextRun |-> "none", ahead |-> FALSE]

TaskRows == [status : Statuses, kind : Kinds, nextRun : NextRuns,
             ahead : BOOLEAN, counter : Nat]
SeenRows == [kind : Kinds, nextRun : NextRuns, ahead : BOOLEAN]

\* compute_next_run: a valid recurring schedule always has a future
\* occurrence, "once" only while its date is ahead, the others none.
NextRunOf(k, ahead) ==
  IF k = "recurring" \/ (k = "once" /\ ahead) THEN "later" ELSE "none"

\* Values the column may hold after the ORM flushes an assignment of new:
\* an attribute equal to what the session loaded is not written at all.
Flushed(db, loaded, new) ==
  IF new # loaded THEN {new} ELSE IF new = "later" THEN {db, new} ELSE {db}

\* _has_chain_cycle follows then_task_id for MaxDepth tasks.  A deleted task
\* or one without a successor ends the walk.
MaxDepth == 10
Walk(start) ==
  LET w[n \in 0 .. MaxDepth] ==
        IF n = 0 THEN start
        ELSE IF w[n-1] = NoTask \/ task[w[n-1]].status = "deleted" THEN NoTask
        ELSE Then[w[n-1]]
  IN  w
HasChainCycle(start) == Walk(start)[MaxDepth] # NoTask

Live(r)    == pc[r] # "none"
Free(t)    == {r \in Runs : TaskOf[r] = t /\ ~Live(r) /\ row[r] \notin OpenRows}
NewRun(t)  == CHOOSE r \in Free(t) : TRUE
RowsOf(t)  == {r \in Runs : TaskOf[r] = t /\ row[r] \in OpenRows}

\* The row _mark_run_aborted(task_id) finds: the latest started open one.
LatestOpen(t) == IF newest[t] \in RowsOf(t) THEN {newest[t]} ELSE RowsOf(t)

\* _task_needs_model_slot.  Mutant: the list of model-backed actions is ignored.
NeedsSlotLlmOnly(t) == task[t].status = "deleted" \/ t \notin Actions
NeedsSlot(t) == task[t].status = "deleted" \/ t \notin Actions \/ t \in ModelBacked

Aborted(rows, rs) == [r \in Runs |-> IF r \in rs THEN "aborted" ELSE rows[r]]

Init ==
  /\ up = TRUE /\ fg = FALSE /\ stopPending = FALSE
  /\ task = [t \in Tasks |->
               [status |-> "active", kind |-> KindOf[t],
                nextRun |-> NextRunOf(KindOf[t], TRUE),
                ahead |-> KindOf[t] = "once", counter |-> 0]]
  /\ unserved = [t \in Tasks |-> "no"]
  /\ row = [r \in Runs |-> "none"]
  /\ newest = [t \in Tasks |-> NoRun]
  /\ pc = [r \in Runs |-> "none"]
  /\ mode = [r \in Runs |-> "direct"]
  /\ cancel = [r \in Runs |-> FALSE]
  /\ hit = [r \in Runs |-> FALSE]
  /\ outcome = [r \in Runs |-> "none"]
  /\ seen = [r \in Runs |-> Nothing]
  /\ handle = [t \in Tasks |-> NoRun]
  /\ executing = {}
  /\ slot = NoRun
  /\ waiters = <<>>

-----------------------------------------------------------------------------
(* The end of a coroutine: the finally blocks of _execute_task_locked and  *)
(* _execute_task and the exit from the semaphore, which suspend nowhere.   *)

\* Semaphore.release hands the permit to the first waiter.  Mutant: the permit
\* is given back and nobody is woken.
ReleaseWakesNobody(r, s) ==
  IF s = r THEN slot' = NoRun /\ UNCHANGED waiters
           ELSE slot' = s /\ UNCHANGED waiters
Release(r, s) ==
  IF s = r
    THEN /\ slot' = IF waiters = <<>> THEN NoRun ELSE Head(waiters)
         /\ waiters' = IF waiters = <<>> THEN <<>> ELSE Tail(waiters)
    ELSE slot' = s /\ UNCHANGED waiters

\* The run leaves _task_handles (if it is still the one registered) and
\* _executing; h and ex are the two as its last segment finds them.
\* Mutants: one of the two entries is left behind.
UnregisterKeepsHandle(r, h, ex) ==
  /\ handle' = h
  /\ executing' = IF mode[r] = "forced" THEN ex ELSE ex \ {TaskOf[r]}
UnregisterKeepsMembership(r, h, ex) ==
  /\ handle' = [h EXCEPT ![TaskOf[r]] = IF @ = r THEN NoRun ELSE @]
  /\ executing' = ex
Unregister(r, h, ex) ==
  /\ handle' = [h EXCEPT ![TaskOf[r]] = IF @ = r THEN NoRun ELSE @]
  /\ executing' = IF mode[r] = "forced" THEN ex ELSE ex \ {TaskOf[r]}

\* What the coroutine knew goes with it.
Forget(r, h, ex) ==
  /\ Unregister(r, h, ex)
  /\ mode' = [mode EXCEPT ![r] = "direct"]
  /\ cancel' = [cancel EXCEPT ![r] = FALSE]
  /\ hit' = [hit EXCEPT ![r] = FALSE]
  /\ outcome' = [outcome EXCEPT ![r] = "none"]
  /\ seen' = [seen EXCEPT ![r] = Nothing]

Exit(r, h, ex, s) == Forget(r, h, ex) /\ Release(r, s)

Ends(r) == pc' = [pc EXCEPT ![r] = "none"] /\ Exit(r, handle, executing, slot)

-----------------------------------------------------------------------------
(* Starting a run: _execute_task up to its first suspension, and           *)
(* _execute_task_locked from its first line to the call of the executor.   *)

\* The flip from queued to running.  The executor reads the task's
\* attributes, so the session's snapshot dates from here.
Flip(r, rows) ==
  LET t == TaskOf[r] IN
  /\ pc' = [pc EXCEPT ![r] = "running"]
  /\ row' = [rows EXCEPT ![r] = "running"]
  /\ seen' = [seen EXCEPT ![r] = [kind |-> task[t].kind,
                                  nextRun |-> task[t].nextRun,
                                  ahead |-> task[t].ahead]]
  /\ unserved' = [unserved EXCEPT ![t] = "no"]
  /\ UNCHANGED <<task, cancel, hit, outcome>>

\* The checks _execute_task_locked makes before the foreground gate: a task
\* that is gone or not active, an action its owner may not run.
Refuse(r, h, ex, rows, s) ==
  LET t == TaskOf[r] IN
  /\ \/ /\ task[t].status # "active"
        /\ row' = [rows EXCEPT ![r] = IF @ = "queued" THEN "skipped" ELSE @]
        /\ UNCHANGED <<task, unserved>>
     \/ /\ task[t].status = "active" /\ t \in Unprivileged
        /\ row' = [rows EXCEPT ![r] = "error"]
        /\ task' = [task EXCEPT ![t].status = "paused", ![t].nextRun = "none"]
        /\ unserved' = [unserved EXCEPT ![t] = "no"]
  /\ pc' = [pc EXCEPT ![r] = "none"]
  /\ Exit(r, h, ex, s)

\* Past the checks: a run that is not forced waits while the user is active.
Admit(r, h, ex, rows, s, m) ==
  LET t == TaskOf[r] IN
  /\ task[t].status = "active" /\ t \notin Unprivileged
  /\ IF fg /\ m # "forced"
       THEN /\ pc' = [pc EXCEPT ![r] = "gated"]
            /\ row' = rows
            /\ UNCHANGED <<task, unserved, cancel, hit, outcome, seen>>
       ELSE Flip(r, rows)
  /\ mode' = [mode EXCEPT ![r] = m]
  /\ handle' = h /\ executing' = ex /\ slot' = s
  /\ UNCHANGED waiters

\* First step of _execute_task: register the handle, insert the queued row
\* (the foreign key refuses it when the task is gone), then go on without
\* the semaphore, take it, or queue on it.
Begin(r) ==
  LET t    == TaskOf[r]
      h    == [handle EXCEPT ![t] = r]
      ex   == IF pc[r] = "chained" THEN executing \union {t} ELSE executing
      rows == IF task[t].status = "deleted" THEN row
              ELSE [row EXCEPT ![r] = "queued"]
      m    == IF mode[r] = "direct" /\ NeedsSlot(t) THEN "slot" ELSE mode[r]
      s    == IF m = "slot" THEN r ELSE slot
  IN
  /\ up
  /\ pc[r] = "spawned" \/ (pc[r] = "chained" /\ t \notin executing)
  /\ newest' = [newest EXCEPT ![t] = r]
  /\ \/ /\ m = "slot" /\ slot # NoRun
        /\ pc' = [pc EXCEPT ![r] = "queued"]
        /\ row' = rows
        /\ mode' = [mode EXCEPT ![r] = m]
        /\ waiters' = Append(waiters, r)
        /\ handle' = h /\ executing' = ex
        /\ UNCHANGED <<task, unserved, cancel, hit, outcome, seen, slot>>
     \/ /\ m # "slot" \/ slot = NoRun
        /\ Refuse(r, h, ex, rows, s) \/ Admit(r, h, ex, rows, s, m)
  /\ UNCHANGED <<up, fg, stopPending>>

\* _run_chained finds its task already in flight and returns.
DropChained(r) ==
  /\ up /\ pc[r] = "chained" /\ TaskOf[r] \in executing
  /\ pc' = [pc EXCEPT ![r] = "none"]
  /\ UNCHANGED <<up, fgVars, dbVars, runVars, memVars>>

\* The semaphore's acquire returns to the run it was handed to.
Acquire(r) ==
  /\ up /\ pc[r] = "queued" /\ slot = r /\ ~cancel[r]
  /\ Refuse(r, handle, executing, row, slot)
     \/ Admit(r, handle, executing, row, slot, "slot")
  /\ newest' = IF pc'[r] = "running" THEN [newest EXCEPT ![TaskOf[r]] = r] ELSE newest
  /\ UNCHANGED <<up, fg, stopPending>>

\* wait_for_interactive_quiet returns.  The task is not looked at again: only
\* a deleted one fails, when the row is recreated against its foreign key.
OpenGate(r) ==
  /\ up /\ pc[r] = "gated" /\ ~fg /\ ~cancel[r]
  /\ IF task[TaskOf[r]].status = "deleted"
       THEN Ends(r) /\ UNCHANGED dbVars
       ELSE /\ Flip(r, row)
            /\ newest' = [newest EXCEPT ![TaskOf[r]] = r]
            /\ UNCHANGED <<mode, memVars>>
  /\ UNCHANGED <<up, fgVars>>

-----------------------------------------------------------------------------
(* Executing: the executor and the delivery of its result, one long wait   *)
(* that ends in one of the outcomes _execute_task_locked tells apart.      *)

\* An executor that commits through the shared session (it creates the output
\* session) expires the snapshot; the next attribute access reloads it.
Reload(r) ==
  LET t == TaskOf[r] IN
  /\ up /\ pc[r] = "running" /\ ~cancel[r] /\ task[t].status # "deleted"
  /\ seen' = [seen EXCEPT ![r] = [kind |-> task[t].kind,
                                  nextRun |-> task[t].nextRun,
                                  ahead |-> task[t].ahead]]
  /\ UNCHANGED <<up, fgVars, dbVars, pc, mode, cancel, hit, outcome, memVars>>

\* _cancel_if_foreground_active, polling beside a run that was gated.
Monitor(r) ==
  /\ up /\ pc[r] = "running" /\ mode[r] # "forced" /\ fg /\ ~hit[r]
  /\ hit' = [hit EXCEPT ![r] = TRUE]
  /\ cancel' = [cancel EXCEPT ![r] = TRUE]
  /\ UNCHANGED <<up, fgVars, dbVars, pc, mode, outcome, seen, memVars>>

\* The finally block cancels the monitor and awaits it, swallowing any
\* CancelledError: one more suspension for every run that has a monitor still
\* pending.  The others end in the same segment.
Unwind(r) ==
  IF mode[r] = "forced" \/ hit[r]
    THEN Ends(r)
    ELSE /\ pc' = [pc EXCEPT ![r] = "unwinding"]
         /\ cancel' = [cancel EXCEPT ![r] = FALSE]
         /\ UNCHANGED <<mode, hit, outcome, seen, memVars>>

\* next_run := new through the run's session.
Reschedule(r, new) ==
  \E v \in Flushed(task[TaskOf[r]].nextRun, seen[r].nextRun, new) :
     task' = [task EXCEPT ![TaskOf[r]].nextRun = v]

Gone(r) == task[TaskOf[r]].status = "deleted"

\* TaskNoop: the run is recorded as skipped, the task rescheduled.
Noop(r) ==
  /\ up /\ pc[r] = "running" /\ ~cancel[r] /\ TaskOf[r] \in Actions
  /\ IF Gone(r) THEN UNCHANGED <<task, row>>
     ELSE /\ row' = [row EXCEPT ![r] = "skipped"]
          /\ Reschedule(r, NextRunOf(seen[r].kind, seen[r].ahead))
  /\ Unwind(r)
  /\ UNCHANGED <<up, fgVars, unserved, newest>>

\* TaskDeferred: the run leaves no trace, the task comes back later.
Defer(r) ==
  /\ up /\ pc[r] = "running" /\ ~cancel[r] /\ TaskOf[r] \in Actions
  /\ IF Gone(r) THEN UNCHANGED <<task, row>>
     ELSE row' = [row EXCEPT ![r] = "none"] /\ Reschedule(r, "later")
  /\ Unwind(r)
  /\ UNCHANGED <<up, fgVars, unserved, newest>>

\* CancelledError while executing: foreground_cancel["hit"] tells an
\* interruption by the user's activity from "Stopped by user".
Cancelled(r) ==
  /\ up /\ pc[r] = "running" /\ cancel[r]
  /\ IF Gone(r) THEN UNCHANGED <<task, row>>
     ELSE /\ row' = [row EXCEPT ![r] = "aborted"]
          /\ Reschedule(r, IF hit[r] THEN "later"
                           ELSE NextRunOf(seen[r].kind, seen[r].ahead))
  /\ Unwind(r)
  /\ UNCHANGED <<up, fgVars, unserved, newest>>

\* A result (run.status in memory only) or an exception: both first await the
\* monitor, and reach the database in Finish.
Produce(r) ==
  /\ up /\ pc[r] = "running" /\ ~cancel[r] /\ mode[r] # "forced"
  /\ pc' = [pc EXCEPT ![r] = "finishing"]
  /\ \E o \in {"success", "error", "raised"} : outcome' = [outcome EXCEPT ![r] = o]
  /\ UNCHANGED <<up, fgVars, dbVars, mode, cancel, hit, seen, memVars>>

\* The statements after the executor's try block, or the except block of the
\* whole function, with the successor's coroutine when the task has one.
Commit(r, o) ==
  LET t    == TaskOf[r]
      next == NextRunOf(seen[r].kind, seen[r].ahead)
      done == o # "raised" /\ seen[r].kind = "once" /\ next = "none"
      c    == Then[t]
      runs == IF o = "success" /\ c # NoTask /\ task[c].status # "deleted"
                 /\ ~HasChainCycle(c) /\ Free(c) # {}
              THEN {NewRun(c)} ELSE {}
  IN
  IF Gone(r) THEN Ends(r) /\ UNCHANGED <<task, row>>
  ELSE
  /\ row' = [row EXCEPT ![r] = IF o = "raised" THEN "error" ELSE o]
  /\ IF o = "raised" /\ seen[r].kind \notin Schedule THEN UNCHANGED task
     ELSE \E v \in Flushed(task[t].nextRun, seen[r].nextRun, next) :
            task' = [task EXCEPT ![t].nextRun = v,
                                 ![t].status = IF done THEN "completed" ELSE @]
  /\ pc' = [x \in Runs |-> IF x = r THEN "none"
                           ELSE IF x \in runs THEN "chained" ELSE pc[x]]
  /\ Exit(r, handle, executing, slot)

Finish(r) ==
  /\ up /\ pc[r] = "finishing"
  /\ Commit(r, outcome[r])
  /\ UNCHANGED <<up, fgVars, unserved, newest>>

\* A forced run has no monitor to await: result and commit are one segment.
FinishForced(r) ==
  /\ up /\ pc[r] = "running" /\ ~cancel[r] /\ mode[r] = "forced"
  /\ \E o \in {"success", "error", "raised"} : Commit(r, o)
  /\ UNCHANGED <<up, fgVars, unserved, newest>>

\* The final commit fails while flushing.  The session then refuses every
\* query until it is rolled back, so the first query of the error path that
\* is not guarded raises as well and neither of its commits is reached.
FinishFails(r) ==
  /\ up /\ "commit" \in Faults /\ pc[r] = "finishing" /\ outcome[r] # "raised"
  /\ Ends(r)
  /\ UNCHANGED <<up, fgVars, dbVars>>

\* The monitor has been awaited after a handler that committed already.
FinishUnwinding(r) ==
  /\ up /\ pc[r] = "unwinding"
  /\ Ends(r)
  /\ UNCHANGED <<up, fgVars, dbVars>>

\* _defer_immediately_due_task: 15 minutes.  Mutant: the task is left as it is.
DeferNothing(t) == UNCHANGED task
DeferIfDue(t) ==
  task' = IF task[t].status = "active" /\ task[t].nextRun = "due"
          THEN [task EXCEPT ![t].nextRun = "later"] ELSE task

\* CancelledError while queued on the semaphore or waiting at the gate.
CancelledWaiting(r) ==
  /\ up /\ pc[r] \in {"queued", "gated"} /\ cancel[r]
  /\ row' = IF row[r] \in OpenRows THEN [row EXCEPT ![r] = "aborted"] ELSE row
  /\ DeferIfDue(TaskOf[r])
  /\ IF pc[r] = "queued" /\ slot # r
       THEN /\ pc' = [pc EXCEPT ![r] = "none"]
            /\ Forget(r, handle, executing)
            /\ \E i \in 1 .. Len(waiters) :
                 waiters[i] = r /\ waiters' = RemoveAt(waiters, i)
            /\ UNCHANGED slot
       ELSE Ends(r)
  /\ UNCHANGED <<up, fgVars, unserved, newest>>

-----------------------------------------------------------------------------
(* The clock, the loop and the event bus *)

\* Time passes a task's next_run; a "once" date passes with it.
Tick(t) ==
  /\ task[t].nextRun = "later"
  /\ task' = [task EXCEPT ![t].nextRun = "due", ![t].ahead = FALSE]
  /\ seen' = [r \in Runs |->
       IF TaskOf[r] = t /\ seen[r].nextRun = "later"
       THEN [seen[r] EXCEPT !.nextRun = "due", !.ahead = FALSE] ELSE seen[r]]
  /\ UNCHANGED <<up, fgVars, unserved, row, newest, pc, mode, cancel, hit,
                 outcome, memVars>>

\* create_task(_execute_task(t)) for every t in ts, with _executing updated
\* first.  The pool of runs bounds how many coroutines of a task coexist.
Spawn(ts) ==
  LET new == {NewRun(t) : t \in ts} IN
  /\ \A t \in ts : Free(t) # {}
  /\ executing' = executing \union ts
  /\ pc' = [r \in Runs |-> IF r \in new THEN "spawned" ELSE pc[r]]
  /\ UNCHANGED <<handle, slot, waiters>>

\* _check_due_tasks: dispatch what is due, or postpone it if the user is active.
CheckDue ==
  LET due == {t \in Tasks : /\ task[t].status = "active"
                            /\ task[t].nextRun = "due"
                            /\ t \notin executing} IN
  /\ up /\ due # {}
  /\ IF fg
       THEN /\ task' = [t \in Tasks |-> IF t \in due
                          THEN [task[t] EXCEPT !.nextRun = "later"] ELSE task[t]]
            /\ UNCHANGED <<pc, memVars>>
       ELSE Spawn(due) /\ UNCHANGED task
  /\ UNCHANGED <<up, fgVars, unserved, row, newest, runVars>>

\* One event counted for a subscriber: at the threshold the counter restarts
\* and the trigger is persisted as a next_run that is due.  Mutants: the
\* trigger stays in memory only; the counter is not reset.
CountedInMemory(t) ==
  IF task[t].counter + 1 >= Threshold[t] THEN [task[t] EXCEPT !.counter = 0]
  ELSE [task[t] EXCEPT !.counter = @ + 1]
CountedNoReset(t) ==
  IF task[t].counter + 1 >= Threshold[t]
  THEN [task[t] EXCEPT !.counter = @ + 1, !.nextRun = "due"]
  ELSE [task[t] EXCEPT !.counter = @ + 1]
Counted(t) ==
  IF task[t].counter + 1 >= Threshold[t]
  THEN [task[t] EXCEPT !.counter = 0, !.nextRun = "due"]
  ELSE [task[t] EXCEPT !.counter = @ + 1]

\* _handle_event, one event delivered to every active subscriber; one that
\* fires is handed to run_task_now, which ignores a task in flight.
HandleEvent(e) ==
  LET subs  == {t \in Tasks : /\ task[t].kind = "event" /\ Listens[t] = e
                              /\ task[t].status = "active"}
      fired == {t \in subs : task[t].counter + 1 >= Threshold[t]}
      busy(t) == \E r \in Runs : TaskOf[r] = t /\ pc[r] \in Started
  IN
  /\ up /\ "event" \in Ops /\ subs # {}
  /\ task' = [t \in Tasks |-> IF t \in subs THEN Counted(t) ELSE task[t]]
  /\ unserved' = [t \in Tasks |->
       IF t \notin fired THEN unserved[t]
       ELSE IF busy(t) /\ unserved[t] # "idle" THEN "busy" ELSE "idle"]
  /\ Spawn(fired \ executing)
  /\ UNCHANGED <<up, fgVars, row, newest, runVars>>

-----------------------------------------------------------------------------
(* The task routes *)

Exists(t) == up /\ task[t].status # "deleted"

\* POST /run and run_task_now(force=False); 409 when the task is in flight.
\* Mutant: membership is not checked.
RunNowUnchecked(t) ==
  /\ Exists(t) /\ "run" \in Ops
  /\ Spawn({t})
  /\ UNCHANGED <<up, fgVars, dbVars, runVars>>
RunNow(t) ==
  /\ Exists(t) /\ "run" \in Ops /\ t \notin executing
  /\ Spawn({t})
  /\ UNCHANGED <<up, fgVars, dbVars, runVars>>

\* POST /run?force=true: beside whatever runs, outside _executing.
ForceRun(t) ==
  /\ Exists(t) /\ "force" \in Ops /\ Free(t) # {}
  /\ pc' = [pc EXCEPT ![NewRun(t)] = "spawned"]
  /\ mode' = [mode EXCEPT ![NewRun(t)] = "forced"]
  /\ UNCHANGED <<up, fgVars, dbVars, cancel, hit, outcome, seen, memVars>>

\* POST /webhook/{token}
Webhook(t) ==
  /\ up /\ "webhook" \in Ops
  /\ task[t].kind = "webhook" /\ task[t].status = "active"
  /\ IF t \in Unprivileged
       THEN /\ task' = [task EXCEPT ![t].status = "paused", ![t].nextRun = "none"]
            /\ UNCHANGED <<pc, memVars>>
       ELSE t \notin executing /\ Spawn({t}) /\ UNCHANGED task
  /\ UNCHANGED <<up, fgVars, unserved, row, newest, runVars>>

Pause(t) ==
  /\ Exists(t) /\ "pause" \in Ops
  /\ task' = [task EXCEPT ![t].status = "paused"]
  /\ UNCHANGED <<up, fgVars, unserved, row, newest, pc, runVars, memVars>>

\* Only a schedule is given a new next_run; an admin may resume any task.
Resume(t) ==
  /\ Exists(t) /\ "pause" \in Ops
  /\ task' = [task EXCEPT ![t].status = "active",
       ![t].nextRun = IF task[t].kind \in Schedule
                      THEN NextRunOf(task[t].kind, task[t].ahead) ELSE @]
  /\ UNCHANGED <<up, fgVars, unserved, row, newest, pc, runVars, memVars>>

\* PUT: k is the trigger after the edit, resched whether a schedule field was
\* sent.  Changing the schedule column itself always sends one.
Update(t, k, resched) ==
  /\ Exists(t) /\ "edit" \in Ops
  /\ {task[t].kind, k} \subseteq Schedule /\ k # task[t].kind => resched
  /\ \E a \in IF resched /\ k = "once" THEN BOOLEAN ELSE {task[t].ahead} :
       task' = [task EXCEPT ![t].kind = k, ![t].ahead = a,
         ![t].nextRun = IF resched /\ task[t].status = "active" /\ k \in Schedule
                        THEN NextRunOf(k, a) ELSE @]
  /\ UNCHANGED <<up, fgVars, unserved, row, newest, pc, runVars, memVars>>

\* POST /revert of a built-in task: its defaults, shipped active or paused.
\* Mutant: next_run is cleared and not computed again.
DefaultRowUnscheduled(t, s) ==
  [status |-> s, kind |-> KindOf[t], nextRun |-> "none", ahead |-> FALSE, counter |-> 0]
DefaultRow(t, s) ==
  [status |-> s, kind |-> KindOf[t], nextRun |-> NextRunOf(KindOf[t], FALSE),
   ahead |-> FALSE, counter |-> 0]
Revert(t) ==
  /\ Exists(t) /\ "edit" \in Ops /\ t \in Actions /\ KindOf[t] # "once"
  /\ \E s \in {"active", "paused"} :
       task' = [task EXCEPT ![t] = DefaultRow(t, s)]
  /\ unserved' = [unserved EXCEPT ![t] = "no"]
  /\ UNCHANGED <<up, fgVars, row, newest, pc, runVars, memVars>>

\* DELETE: the rows of the task's runs go with it.
Delete(t) ==
  /\ Exists(t) /\ "delete" \in Ops
  /\ task' = [task EXCEPT ![t] =
       [status |-> "deleted", kind |-> KindOf[t], nextRun |-> "none",
        ahead |-> FALSE, counter |-> 0]]
  /\ row' = [r \in Runs |-> IF TaskOf[r] = t THEN "none" ELSE row[r]]
  /\ unserved' = [unserved EXCEPT ![t] = "no"]
  /\ UNCHANGED <<up, fgVars, newest, pc, runVars, memVars>>

\* POST: a new task takes the place of a deleted one nothing refers to.
Create(t, k) ==
  /\ up /\ "delete" \in Ops /\ task[t].status = "deleted"
  /\ \A r \in Runs : TaskOf[r] = t => ~Live(r)
  /\ \E a \in IF k = "once" THEN BOOLEAN ELSE {FALSE} :
       task' = [task EXCEPT ![t] =
         [status |-> IF k \in Schedule /\ NextRunOf(k, a) = "none"
                     THEN "completed" ELSE "active",
          kind |-> k, nextRun |-> NextRunOf(k, a), ahead |-> a, counter |-> 0]]
  /\ UNCHANGED <<up, fgVars, unserved, row, newest, pc, runVars, memVars>>

-----------------------------------------------------------------------------
(* Cancellation from outside, foreground activity, crash and restart *)

\* POST /stop and stop_task: cancel the registered coroutine, forget the
\* membership at once, abort the latest open row of the task.
Stop(t) ==
  /\ Exists(t) /\ "stop" \in Ops
  /\ handle[t] # NoRun \/ t \in executing \/ RowsOf(t) # {}
  /\ cancel' = [r \in Runs |-> cancel[r] \/ r = handle[t]]
  /\ executing' = executing \ {t}
  /\ IF RowsOf(t) = {} THEN UNCHANGED row
     ELSE \E r \in LatestOpen(t) : row' = [row EXCEPT ![r] = "aborted"]
  /\ UNCHANGED <<up, fgVars, task, unserved, newest, pc, mode, hit, outcome,
                 seen, handle, slot, waiters>>

\* A tracked request or a browser heartbeat: the foreground is active from now
\* on, and a coroutine that stops the background tasks is scheduled.
ForegroundBegin ==
  /\ up /\ "foreground" \in Ops
  /\ fg' = TRUE /\ stopPending' = TRUE
  /\ UNCHANGED <<up, dbVars, pc, runVars, memVars>>

\* The last request, stream and heartbeat are older than the quiet window,
\* which is far longer than the next turn of the event loop.
ForegroundEnd ==
  /\ up /\ fg /\ ~stopPending
  /\ fg' = FALSE
  /\ UNCHANGED <<up, stopPending, dbVars, pc, runVars, memVars>>

\* stop_background_tasks_for_foreground: the tasks in _executing only.
StopBackground ==
  /\ up /\ stopPending
  /\ stopPending' = FALSE
  /\ cancel' = [r \in Runs |-> cancel[r] \/ \E t \in executing : r = handle[t]]
  /\ \E pick \in [executing -> Runs \union {NoRun}] :
       /\ \A t \in executing :
            pick[t] \in IF RowsOf(t) = {} THEN {NoRun} ELSE LatestOpen(t)
       /\ row' = Aborted(row, {pick[t] : t \in executing})
  /\ UNCHANGED <<up, fg, task, unserved, newest, pc, mode, hit, outcome, seen,
                 memVars>>

\* The process dies: only the database survives.
Crash ==
  /\ up /\ "crash" \in Faults
  /\ up' = FALSE /\ fg' = FALSE /\ stopPending' = FALSE
  /\ pc' = [r \in Runs |-> "none"]
  /\ mode' = [r \in Runs |-> "direct"]
  /\ cancel' = [r \in Runs |-> FALSE]
  /\ hit' = [r \in Runs |-> FALSE]
  /\ outcome' = [r \in Runs |-> "none"]
  /\ seen' = [r \in Runs |-> Nothing]
  /\ handle' = [t \in Tasks |-> NoRun]
  /\ executing' = {} /\ slot' = NoRun /\ waiters' = <<>>
  /\ UNCHANGED dbVars

\* start(): push overdue tasks away, abort the rows of the previous process.
\* Mutant: those rows are not looked at.
PushOverdue ==
  task' = [t \in Tasks |->
    IF task[t].status = "active" /\ task[t].nextRun = "due"
    THEN [task[t] EXCEPT !.nextRun = "later"] ELSE task[t]]
StartKeepsRows ==
  /\ ~up /\ up' = TRUE /\ PushOverdue
  /\ UNCHANGED <<fgVars, unserved, row, newest, pc, runVars, memVars>>
Start ==
  /\ ~up /\ up' = TRUE /\ PushOverdue
  /\ row' = Aborted(row, {r \in Runs : row[r] \in OpenRows})
  /\ UNCHANGED <<fgVars, unserved, newest, pc, runVars, memVars>>

-----------------------------------------------------------------------------
RunStep(r) ==
  \/ Begin(r) \/ DropChained(r) \/ Acquire(r) \/ OpenGate(r)
  \/ Noop(r) \/ Defer(r) \/ Cancelled(r) \/ Produce(r)
  \/ Finish(r) \/ FinishForced(r) \/ FinishUnwinding(r) \/ CancelledWaiting(r)

Request(t) ==
  \/ RunNow(t) \/ ForceRun(t) \/ Webhook(t) \/ Stop(t)
  \/ Pause(t) \/ Resume(t) \/ Revert(t) \/ Delete(t)
  \/ \E k \in EditKinds : Create(t, k)
  \/ \E k \in EditKinds, resched \in BOOLEAN : Update(t, k, resched)

Next ==
  \/ \E r \in Runs : RunStep(r) \/ Reload(r) \/ Monitor(r) \/ FinishFails(r)
  \/ \E t \in Tasks : Tick(t) \/ Request(t)
  \/ \E e \in Events : HandleEvent(e)
  \/ CheckDue \/ ForegroundBegin \/ ForegroundEnd \/ StopBackground
  \/ Crash \/ Start

Spec == Init /\ [][Next]_vars

\* The event loop resumes every coroutine that can run and the scheduler loop
\* polls for ever; executors are assumed to return, and a user who is active
\* to pause at some point.
Fairness ==
  /\ \A r \in Runs : WF_vars(RunStep(r)) /\ WF_vars(Monitor(r))
  /\ \A t \in Tasks : WF_vars(Tick(t))
  /\ WF_vars(CheckDue) /\ WF_vars(StopBackground) /\ WF_vars(ForegroundEnd)
  /\ WF_vars(Start)

FairSpec == Spec /\ Fairness

-----------------------------------------------------------------------------
(* Properties *)

TypeOK ==
  /\ up \in BOOLEAN /\ fg \in BOOLEAN /\ stopPending \in BOOLEAN
  /\ task \in [Tasks -> TaskRows]
  /\ \A t \in Tasks : task[t].counter < Threshold[t]
  /\ unserved \in [Tasks -> {"no", "idle", "busy"}]
  /\ row \in [Runs -> RowStates]
  /\ newest \in [Tasks -> Runs \union {NoRun}]
  /\ pc \in [Runs -> PcStates]
  /\ mode \in [Runs -> {"slot", "direct", "forced"}]
  /\ cancel \in [Runs -> BOOLEAN]
  /\ hit \in [Runs -> BOOLEAN]
  /\ outcome \in [Runs -> {"none", "success", "error", "raised"}]
  /\ seen \in [Runs -> SeenRows]
  /\ handle \in [Tasks -> Runs \union {NoRun}]
  /\ executing \subseteq Tasks
  /\ slot \in Runs \union {NoRun}
  /\ waiters \in Seq(Runs)

InSlot(r) == mode[r] = "slot" /\ pc[r] \in Started \union {"gated"}

\* The permit of _run_semaphore is never lost and never shared: whoever is
\* past the acquire owns it, its owner is a live run that will release it,
\* nobody waits for a free permit, and every queued run is either the owner or
\* in the queue exactly once.  Cancelling a queued run, a run just handed the
\* permit or a run at the gate must keep this.
SlotDiscipline ==
  /\ \A r \in Runs : InSlot(r) => slot = r
  /\ slot # NoRun => mode[slot] = "slot" /\ (InSlot(slot) \/ pc[slot] = "queued")
  /\ slot = NoRun => waiters = <<>>
  /\ \A r \in Runs : pc[r] = "queued" =>
       slot = r \/ \E i \in 1 .. Len(waiters) : waiters[i] = r
  /\ \A i \in 1 .. Len(waiters) :
       /\ pc[waiters[i]] = "queued" /\ mode[waiters[i]] = "slot"
       /\ waiters[i] # slot
  /\ \A i, j \in 1 .. Len(waiters) : waiters[i] = waiters[j] => i = j

\* At most one unforced run of a task that uses the model is past its queue:
\* LLM and research tasks and model-backed actions never share the model with
\* each other, whatever is cancelled, stopped or restarted around them.
UsesModel(r) == /\ mode[r] # "forced" /\ pc[r] \in Started \union {"gated"}
                /\ TaskOf[r] \notin Actions \/ TaskOf[r] \in ModelBacked
OneModelRun == \A r, q \in Runs : UsesModel(r) /\ UsesModel(q) => r = q

\* Nothing stays in _executing without a coroutine that will take it out: a
\* task that ran, was cancelled, skipped or raced a chain is never blocked
\* from being dispatched again.
NoStaleMembership ==
  \A t \in executing : \E r \in Runs :
    TaskOf[r] = t /\ mode[r] # "forced" /\ pc[r] \notin {"none", "chained"}

\* _task_handles only names coroutines that have begun and not ended, so stop
\* can cancel what it finds there.
HandlesAreLive ==
  \A t \in Tasks : handle[t] # NoRun =>
    TaskOf[handle[t]] = t /\ pc[handle[t]] \notin {"none", "spawned", "chained"}

\* While the server is up, a row shown as queued or running in the Activity
\* view belongs to a coroutine that is still there to close it.
NoPhantomRow == up => \A r \in Runs : row[r] \in OpenRows => Live(r)

\* Scheduler tick, manual run, event, webhook and chain never put two
\* dispatched runs of one task in flight (the purpose of _executing).
NoDoubleDispatch ==
  \A r, q \in Runs :
    /\ TaskOf[r] = TaskOf[q] /\ mode[r] # "forced" /\ mode[q] # "forced"
    /\ pc[r] \notin {"none", "chained"} /\ pc[q] \notin {"none", "chained"}
    => r = q

\* An event trigger that fires while its task is not executing survives
\* queueing, cancellation in the queue, foreground postponement, pause, crash
\* and restart until a run serves it.
WillRun(t) ==
  \/ task[t].nextRun # "none"
  \/ \E r \in Runs : TaskOf[r] = t /\ pc[r] \in {"spawned", "chained", "queued", "gated"}
TriggerDurable ==
  \A t \in Tasks : unserved[t] = "idle" /\ task[t].kind = "event" => WillRun(t)

\* The same for a trigger that fires while a run of the task is executing.
NoTriggerLost ==
  \A t \in Tasks : unserved[t] # "no" /\ task[t].kind = "event" => WillRun(t)

\* An active recurring task always has a next run: no interruption, error,
\* crash or edit leaves it silently dead.
RecurringArmed ==
  \A t \in Tasks :
    task[t].status = "active" /\ task[t].kind = "recurring" => task[t].nextRun # "none"

\* The segment that settles a run (its outcome, its cancellation) does not
\* leave due an active task that was due when the run took it up, or the loop
\* would dispatch it again at once and for ever.  A trigger that came meanwhile
\* is a reason to.
Settles(r) == /\ up' /\ pc[r] \in {"queued", "gated", "running", "finishing"}
              /\ pc'[r] \in {"none", "unwinding"}
TookUpDue(r) == pc[r] \in {"queued", "gated"} \/ seen[r].nextRun = "due"
LeftDue(t) == task'[t].status = "active" /\ task'[t].nextRun = "due" /\ unserved[t] = "no"
NoHotLoop ==
  [][\A r \in Runs : Settles(r) /\ TookUpDue(r) => ~LeftDue(TaskOf[r])]_vars

\* Every queued run gets the permit or is cancelled: no lost wake-up, no run
\* behind a holder that never leaves.
QueueDrains == \A r \in Runs : pc[r] = "queued" ~> pc[r] # "queued"

\* Once the user is away for good and the process stays up, an event trigger
\* leads to an execution of its task.
TriggersServed ==
  <>[](up /\ ~fg) => \A t \in Tasks : (unserved[t] = "idle" ~> unserved[t] = "no")

=============
