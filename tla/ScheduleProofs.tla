--------------------------- MODULE ScheduleProofs ---------------------------
(***************************************************************************)
(* Proofs about the schedule of TaskScheduler: next_run of the recurring   *)
(* and of the event-triggered tasks, and the loop that polls it.           *)
(*                                                                         *)
(* A run commits with the task's attributes as its session loaded them, so *)
(* each theorem says which edit it excludes.                               *)
(***************************************************************************)
EXTENDS TaskSchedulerProofs

Executing(r) == pc[r] \in {"running", "finishing"}
Exist(t) == task[t].status # "deleted"
ArmedTask(t) ==
  task[t].status = "active" /\ task[t].kind = "recurring" => task[t].nextRun # "none"

\* The trigger of the task a run executes is the one the run saw.
Snapped == \A r \in Runs : Executing(r) /\ Exist(TaskOf[r]) => seen[r].kind = task[TaskOf[r]].kind

\* A step that edits the trigger of no task under its run.
SameKind ==
  \A r \in Runs : Executing(r) /\ Exist(TaskOf[r])' => task'[TaskOf[r]].kind = task[TaskOf[r]].kind
KindsSettled == [][SameKind]_vars

\* A step that makes no active task without a next run a recurring one: an
\* edit of the trigger alone does, update_task computes next_run only when a
\* field of the schedule is sent.
Scheduled ==
  \A t \in Tasks : task[t].status = "active" /\ task[t].nextRun = "none"
                  => ~Update(t, "recurring", FALSE)
SchedulesSent == [][Scheduled]_vars

-----------------------------------------------------------------------------
LEMMA TaskRow ==
  ASSUME TypeOK
  PROVE  /\ task \in [Tasks -> TaskRows] /\ \A t \in Tasks : task[t] \in TaskRows
         /\ \A r \in Runs : TaskOf[r] \in Tasks
BY SchedulerAssumption DEF TypeOK

LEMMA RescheduleRow ==
  ASSUME TypeOK, NEW r \in Runs, NEW new, Reschedule(r, new)
  PROVE  /\ \A t \in Tasks : task'[t].status = task[t].status /\ task'[t].kind = task[t].kind
         /\ \A t \in Tasks \ {TaskOf[r]} : task'[t] = task[t]
         /\ task'[TaskOf[r]].nextRun \in {task[TaskOf[r]].nextRun, new}
         /\ seen[r].nextRun = "due" /\ new # "due" => task'[TaskOf[r]].nextRun = new
<1>1. PICK v \in Flushed(task[TaskOf[r]].nextRun, seen[r].nextRun, new) :
        task' = [task EXCEPT ![TaskOf[r]].nextRun = v]
  BY DEF Reschedule
<1>2. v \in {task[TaskOf[r]].nextRun, new} /\ (seen[r].nextRun = "due" /\ new # "due" => v = new)
  BY DEF Flushed
<1>3. task'[TaskOf[r]].nextRun = v
  BY <1>1, TaskRow DEF TaskRows
<1> QED
  BY <1>1, <1>2, <1>3, TaskRow DEF TaskRows

\* What a commit writes, when the task is still there.
LEMMA CommitRow ==
  ASSUME TypeOK, NEW r \in Runs, NEW o, Commit(r, o), ~Gone(r)
  PROVE  LET next == NextRunOf(seen[r].kind, seen[r].ahead) IN
         /\ \A t \in Tasks : task'[t].kind = task[t].kind
         /\ \A t \in Tasks \ {TaskOf[r]} : task'[t] = task[t]
         /\ task'[TaskOf[r]].status \in {task[TaskOf[r]].status, "completed"}
         /\ task'[TaskOf[r]].nextRun \in {task[TaskOf[r]].nextRun, next}
         /\ seen[r].nextRun = "due" /\ (o = "raised" => seen[r].kind \in Schedule)
              => task'[TaskOf[r]].nextRun = next
<1> DEFINE next == NextRunOf(seen[r].kind, seen[r].ahead)
           done == o # "raised" /\ seen[r].kind = "once" /\ next = "none"
<1>1. next # "due"
  BY NextRunType
<1>2. \/ task' = task /\ ~(o = "raised" => seen[r].kind \in Schedule)
      \/ \E v \in Flushed(task[TaskOf[r]].nextRun, seen[r].nextRun, next) :
           task' = [task EXCEPT ![TaskOf[r]].nextRun = v,
                                ![TaskOf[r]].status = IF done THEN "completed" ELSE @]
  BY DEF Commit
<1> HIDE DEF next, done
<1>3. CASE task' = task /\ ~(o = "raised" => seen[r].kind \in Schedule)
  BY <1>3 DEF next
<1>4. ASSUME NEW v \in Flushed(task[TaskOf[r]].nextRun, seen[r].nextRun, next),
             task' = [task EXCEPT ![TaskOf[r]].nextRun = v,
                                  ![TaskOf[r]].status = IF done THEN "completed" ELSE @]
      PROVE  /\ \A t \in Tasks : task'[t].kind = task[t].kind
             /\ \A t \in Tasks \ {TaskOf[r]} : task'[t] = task[t]
             /\ task'[TaskOf[r]].status \in {task[TaskOf[r]].status, "completed"}
             /\ task'[TaskOf[r]].nextRun \in {task[TaskOf[r]].nextRun, next}
             /\ seen[r].nextRun = "due" => task'[TaskOf[r]].nextRun = next
  <2>1. v \in {task[TaskOf[r]].nextRun, next} /\ (seen[r].nextRun = "due" => v = next)
    BY <1>1, <1>4 DEF Flushed, next
  <2>2. task'[TaskOf[r]].nextRun = v
    BY <1>4, TaskRow DEF TaskRows
  <2>3. task'[TaskOf[r]].status \in {task[TaskOf[r]].status, "completed"}
    BY <1>4, TaskRow DEF TaskRows
  <2>4. \A t \in Tasks : task'[t].kind = task[t].kind
    BY <1>4, TaskRow DEF TaskRows
  <2> QED
    BY <1>4, <2>1, <2>2, <2>3, <2>4, TaskRow
<1> QED
  BY <1>2, <1>3, <1>4 DEF next

\* The other columns of a task, and the snapshots of the runs.
LEMMA RefuseRow ==
  ASSUME TypeOK, NEW r \in Runs, NEW h, NEW ex, NEW rows, NEW s, Refuse(r, h, ex, rows, s)
  PROVE  /\ \A t \in Tasks : task'[t].kind = task[t].kind
         /\ \A t \in Tasks \ {TaskOf[r]} : task'[t] = task[t]
         /\ Exist(TaskOf[r]) => Exist(TaskOf[r])'
         /\ task'[TaskOf[r]].status # "active"
         /\ pc'[r] = "none"
         /\ \A q \in Runs \ {r} : pc'[q] = pc[q] /\ seen'[q] = seen[q]
<1>1. CASE UNCHANGED task /\ task[TaskOf[r]].status # "active"
  BY <1>1 DEF Refuse, Exit, Forget, Exist, TypeOK
<1>2. CASE task' = [task EXCEPT ![TaskOf[r]].status = "paused", ![TaskOf[r]].nextRun = "none"]
  <2>1. /\ \A t \in Tasks : task'[t].kind = task[t].kind
        /\ \A t \in Tasks \ {TaskOf[r]} : task'[t] = task[t]
        /\ task'[TaskOf[r]].status = "paused"
    BY <1>2, TaskRow DEF TaskRows
  <2> QED
    BY <2>1 DEF Refuse, Exit, Forget, Exist, TypeOK
<1> QED
  BY <1>1, <1>2 DEF Refuse

LEMMA AdmitSees ==
  ASSUME TypeOK, NEW r \in Runs, NEW h, NEW ex, NEW rows, NEW s, NEW m,
         Admit(r, h, ex, rows, s, m)
  PROVE  /\ task' = task /\ pc'[r] \in {"gated", "running"}
         /\ pc'[r] = "running" => seen'[r].kind = task[TaskOf[r]].kind
         /\ \A q \in Runs \ {r} : pc'[q] = pc[q] /\ seen'[q] = seen[q]
BY DEF Admit, Flip, TypeOK

LEMMA EndsSees ==
  ASSUME TypeOK, NEW r \in Runs, Ends(r)
  PROVE  /\ pc'[r] = "none"
         /\ \A q \in Runs \ {r} : pc'[q] = pc[q] /\ seen'[q] = seen[q]
BY DEF Ends, Exit, Forget, TypeOK

LEMMA UnwindSees ==
  ASSUME TypeOK, NEW r \in Runs, Unwind(r)
  PROVE  /\ pc'[r] \in {"none", "unwinding"}
         /\ \A q \in Runs \ {r} : pc'[q] = pc[q] /\ seen'[q] = seen[q]
BY EndsSees DEF Unwind, TypeOK

LEMMA CommitSees ==
  ASSUME TypeOK, NEW r \in Runs, NEW o, Commit(r, o)
  PROVE  /\ pc'[r] = "none"
         /\ \A q \in Runs \ {r} : pc'[q] \in {pc[q], "chained"} /\ seen'[q] = seen[q]
         /\ Gone(r) => task' = task
BY EndsSees DEF Commit, Exit, Forget, TypeOK

LEMMA SpawnSees ==
  ASSUME NEW ts, Spawn(ts) PROVE \A q \in Runs : pc'[q] \in {pc[q], "spawned"}
BY DEF Spawn

-----------------------------------------------------------------------------
(* A recurring task *)

\* The snapshots stay true when no trigger is edited under a run, no deleted
\* task comes back, and a run that begins to execute reads its task.
LEMMA SnappedKept ==
  ASSUME Snapped, SameKind,
         \A q \in Runs : Executing(q)' => 
           \/ /\ Executing(q) /\ seen'[q].kind = seen[q].kind
              /\ Exist(TaskOf[q])' => Exist(TaskOf[q])
           \/ seen'[q].kind = task'[TaskOf[q]].kind
  PROVE  Snapped'
BY DEF Snapped, SameKind

\* A step of one run that leaves the triggers alone.
LEMMA SnappedRun ==
  ASSUME Snapped, SameKind, TypeOK, NEW r \in Runs,
         \A t \in Tasks : Exist(t)' => Exist(t),
         \A q \in Runs \ {r} : pc'[q] \in {pc[q], "chained"} /\ seen'[q] = seen[q],
         Executing(r)' => Executing(r) /\ seen'[r].kind = seen[r].kind
  PROVE  Snapped'
<1>1. \A q \in Runs : Executing(q)' => /\ Executing(q) /\ seen'[q].kind = seen[q].kind
                                        /\ Exist(TaskOf[q])' => Exist(TaskOf[q])
  <2> TAKE q \in Runs
  <2>1. TaskOf[q] \in Tasks
    BY TaskRow
  <2>2. CASE q = r
    BY <2>1, <2>2
  <2>3. CASE q # r
    BY <2>1, <2>3 DEF Executing
  <2> QED
    BY <2>2, <2>3
<1> QED
  BY <1>1 DEF Snapped, SameKind, Executing, Exist

LEMMA ArmedRunStep ==
  ASSUME TypeOK, Snapped, SameKind, \A t \in Tasks : ArmedTask(t), NEW r \in Runs, RunStep(r)
  PROVE  Snapped' /\ \A t \in Tasks : ArmedTask(t)'
<1> USE DEF dbVars, runVars, memVars
<1> DEFINE T == TaskOf[r]
<1>0. T \in Tasks
  BY TaskRow
<1>1. ASSUME NEW h, NEW ex, NEW rows, NEW s, Refuse(r, h, ex, rows, s)
      PROVE  Snapped' /\ \A t \in Tasks : ArmedTask(t)'
  <2>1. Snapped'
    <3>1. \A t \in Tasks : Exist(t)' => Exist(t)
      BY <1>1, TaskRow DEF Refuse, Exist
    <3> QED
      BY <1>1, <3>1, RefuseRow, SnappedRun DEF Executing
  <2>2. \A t \in Tasks : ArmedTask(t)'
    BY <1>1, RefuseRow DEF ArmedTask
  <2> QED
    BY <2>1, <2>2
<1>2. ASSUME NEW h, NEW ex, NEW rows, NEW s, NEW m, Admit(r, h, ex, rows, s, m)
      PROVE  Snapped' /\ \A t \in Tasks : ArmedTask(t)'
  BY <1>2, AdmitSees, SnappedKept DEF Executing, ArmedTask, Exist
<1>3. ASSUME NEW new, new = "later" \/ new = NextRunOf(seen[r].kind, seen[r].ahead),
             Executing(r), Unwind(r),
             IF Gone(r) THEN UNCHANGED <<task, row>> ELSE Reschedule(r, new)
      PROVE  Snapped' /\ \A t \in Tasks : ArmedTask(t)'
  <2>1. CASE Gone(r)
    BY <1>3, <2>1, UnwindSees, SnappedRun DEF Executing, ArmedTask, Exist
  <2>2. CASE ~Gone(r)
    <3>1. Snapped'
      BY <1>3, <2>2, UnwindSees, RescheduleRow, SnappedRun DEF Executing, Exist
    <3>2. task[T].kind = "recurring" => new # "none"
      BY <1>3, <2>2 DEF Snapped, Gone, Exist, NextRunOf
    <3> QED
      BY <1>0, <1>3, <2>2, <3>1, <3>2, RescheduleRow DEF ArmedTask
  <2> QED
    BY <2>1, <2>2
<1>4. ASSUME NEW o, Executing(r), Commit(r, o)
      PROVE  Snapped' /\ \A t \in Tasks : ArmedTask(t)'
  <2>1. CASE Gone(r)
    BY <1>4, <2>1, CommitSees, SnappedRun DEF Executing, ArmedTask, Exist
  <2>2. CASE ~Gone(r)
    <3>1. Snapped'
      <4>1. \A t \in Tasks : Exist(t)' => Exist(t)
        BY <1>4, <2>2, CommitRow DEF Exist, Gone
      <4> QED
        BY <1>4, <4>1, CommitSees, SnappedRun DEF Executing
    <3>2. task[T].kind = "recurring" => NextRunOf(seen[r].kind, seen[r].ahead) # "none"
      BY <1>4, <2>2 DEF Snapped, Gone, Exist, NextRunOf
    <3>3. /\ \A t \in Tasks : task'[t].kind = task[t].kind
          /\ \A t \in Tasks \ {T} : task'[t] = task[t]
          /\ task'[T].status \in {task[T].status, "completed"}
          /\ task'[T].nextRun \in {task[T].nextRun, NextRunOf(seen[r].kind, seen[r].ahead)}
      BY <1>4, <2>2, CommitRow
    <3> QED
      BY <1>0, <3>1, <3>2, <3>3 DEF ArmedTask
  <2> QED
    BY <2>1, <2>2
<1>5. CASE Begin(r)
  <2>1. CASE \/ \E h, ex, rows, s : Refuse(r, h, ex, rows, s)
             \/ \E h, ex, rows, s, m : Admit(r, h, ex, rows, s, m)
    BY <1>1, <1>2, <2>1
  <2>2. CASE pc' = [pc EXCEPT ![r] = "queued"] /\ task' = task /\ seen' = seen
    BY <2>2, SnappedRun DEF Executing, ArmedTask, Exist, TypeOK
  <2> QED
    BY <1>5, <2>1, <2>2 DEF Begin
<1>6. CASE DropChained(r) \/ Produce(r)
  BY <1>6, SnappedRun DEF DropChained, Produce, Executing, ArmedTask, Exist, TypeOK
<1>7. CASE Acquire(r)
  BY <1>1, <1>2, <1>7 DEF Acquire
<1>8. CASE OpenGate(r)
  <2>1. CASE task[T].status = "deleted"
    BY <1>8, <2>1, EndsSees, SnappedRun DEF OpenGate, Executing, ArmedTask, Exist
  <2>2. CASE task[T].status # "deleted"
    BY <1>8, <2>2, SnappedKept DEF OpenGate, Flip, Executing, ArmedTask, Exist, TypeOK
  <2> QED
    BY <2>1, <2>2
<1>9. CASE Noop(r)
  BY <1>3, <1>9 DEF Noop, Executing
<1>10. CASE Defer(r)
  BY <1>3, <1>10 DEF Defer, Executing
<1>11. CASE Cancelled(r)
  BY <1>3, <1>11 DEF Cancelled, Executing
<1>12. CASE Finish(r)
  BY <1>4, <1>12 DEF Finish, Executing
<1>13. CASE FinishForced(r)
  BY <1>4, <1>13 DEF FinishForced, Executing
<1>14. CASE FinishUnwinding(r)
  BY <1>14, EndsSees, SnappedRun DEF FinishUnwinding, Executing, ArmedTask, Exist
<1>15. CASE CancelledWaiting(r)
  <2>1. \A t \in Tasks : task'[t].status = task[t].status /\ task'[t].kind = task[t].kind
                         /\ task'[t].nextRun \in {task[t].nextRun, "later"}
    BY <1>15, TaskRow DEF CancelledWaiting, DeferIfDue, TaskRows
  <2>2. pc'[r] = "none" /\ \A q \in Runs \ {r} : pc'[q] = pc[q] /\ seen'[q] = seen[q]
    BY <1>15, EndsSees DEF CancelledWaiting, Forget, TypeOK
  <2> QED
    BY <2>1, <2>2, SnappedRun DEF Executing, ArmedTask, Exist
<1> QED
  BY <1>5, <1>6, <1>7, <1>8, <1>9, <1>10, <1>11, <1>12, <1>13, <1>14, <1>15 DEF RunStep

LEMMA ArmedRequest ==
  ASSUME TypeOK, Snapped, SameKind, Scheduled, \A t \in Tasks : ArmedTask(t),
         NEW x \in Tasks, Request(x)
  PROVE  Snapped' /\ \A t \in Tasks : ArmedTask(t)'
<1> USE DEF dbVars, runVars, memVars
<1>0. /\ task \in [Tasks -> TaskRows] /\ task[x] \in TaskRows
      /\ \A r \in Runs : TaskOf[r] \in Tasks
  BY TaskRow
<1>1. ASSUME \A q \in Runs : pc'[q] \in {pc[q], "spawned"} /\ seen'[q] = seen[q],
             \A t \in Tasks : Exist(t)' => Exist(t)
      PROVE  Snapped'
  BY <1>0, <1>1, SnappedKept DEF Executing
<1>2. CASE RunNow(x)
  BY <1>1, <1>2, SpawnSees DEF RunNow, ArmedTask, Exist
<1>3. CASE ForceRun(x)
  BY <1>1, <1>3 DEF ForceRun, ArmedTask, Exist, TypeOK
<1>4. CASE Webhook(x)
  <2>1. \A t \in Tasks : ArmedTask(t)' /\ (Exist(t)' => Exist(t))
    BY <1>0, <1>4 DEF Webhook, ArmedTask, Exist, TaskRows
  <2>2. \A q \in Runs : pc'[q] \in {pc[q], "spawned"} /\ seen'[q] = seen[q]
    BY <1>4, SpawnSees DEF Webhook
  <2> QED
    BY <1>1, <2>1, <2>2
<1>5. CASE Stop(x)
  BY <1>1, <1>5 DEF Stop, ArmedTask, Exist
<1>6. CASE Pause(x)
  <2>1. \A t \in Tasks : ArmedTask(t)' /\ (Exist(t)' => Exist(t))
    BY <1>0, <1>6 DEF Pause, Exists, ArmedTask, Exist, TaskRows
  <2> QED
    BY <1>1, <1>6, <2>1 DEF Pause
<1>7. CASE Resume(x)
  <2>1. task'[x].kind = "recurring" => task'[x].nextRun = "later"
    BY <1>0, <1>7 DEF Resume, NextRunOf, Schedule, TaskRows
  <2>2. \A t \in Tasks \ {x} : task'[t] = task[t]
    BY <1>0, <1>7 DEF Resume
  <2>3. \A t \in Tasks : ArmedTask(t)' /\ (Exist(t)' => Exist(t))
    BY <1>7, <2>1, <2>2 DEF Resume, Exists, ArmedTask, Exist
  <2> QED
    BY <1>1, <1>7, <2>3 DEF Resume
<1>8. CASE Revert(x)
  <2>1. task'[x].kind = "recurring" => task'[x].nextRun = "later"
    BY <1>0, <1>8 DEF Revert, DefaultRow, NextRunOf
  <2>2. \A t \in Tasks \ {x} : task'[t] = task[t]
    BY <1>0, <1>8 DEF Revert
  <2>3. \A t \in Tasks : ArmedTask(t)' /\ (Exist(t)' => Exist(t))
    BY <1>8, <2>1, <2>2 DEF Revert, Exists, ArmedTask, Exist
  <2> QED
    BY <1>1, <1>8, <2>3 DEF Revert
<1>9. CASE Delete(x)
  <2>1. \A t \in Tasks : ArmedTask(t)' /\ (Exist(t)' => Exist(t))
    BY <1>0, <1>9 DEF Delete, Exists, ArmedTask, Exist
  <2> QED
    BY <1>1, <1>9, <2>1 DEF Delete
<1>10. ASSUME NEW k \in EditKinds, Create(x, k)
       PROVE  Snapped' /\ \A t \in Tasks : ArmedTask(t)'
  <2>1. task'[x].kind = "recurring" => task'[x].nextRun = "later"
    BY <1>0, <1>10 DEF Create, NextRunOf
  <2>2. \A t \in Tasks \ {x} : task'[t] = task[t]
    BY <1>0, <1>10 DEF Create
  <2>3. \A q \in Runs : Executing(q)' => Executing(q) /\ seen'[q].kind = seen[q].kind
                                         /\ TaskOf[q] # x
    BY <1>10 DEF Create, Executing, Live
  <2>4. Snapped'
    BY <1>0, <2>2, <2>3, SnappedKept DEF Exist
  <2> QED
    BY <2>1, <2>2, <2>4 DEF ArmedTask
<1>11. ASSUME NEW k \in EditKinds, NEW resched \in BOOLEAN, Update(x, k, resched)
       PROVE  Snapped' /\ \A t \in Tasks : ArmedTask(t)'
  <2>1. PICK a \in BOOLEAN :
          task' = [task EXCEPT ![x].kind = k, ![x].ahead = a,
            ![x].nextRun = IF resched /\ task[x].status = "active" /\ k \in Schedule
                           THEN NextRunOf(k, a) ELSE @]
    BY <1>0, <1>11 DEF Update, TaskRows
  <2>2. /\ task'[x].kind = k /\ task'[x].status = task[x].status
        /\ task'[x].nextRun = IF resched /\ task[x].status = "active" /\ k \in Schedule
                              THEN NextRunOf(k, a) ELSE task[x].nextRun
    BY <1>0, <2>1 DEF TaskRows
  <2>3. \A t \in Tasks \ {x} : task'[t] = task[t]
    BY <1>0, <2>1
  <2>4. ASSUME resched PROVE ArmedTask(x)'
    BY <2>2, <2>4 DEF ArmedTask, NextRunOf, Schedule
  <2>5. ASSUME ~resched PROVE ArmedTask(x)'
    <3>1. k = "recurring" /\ task[x].status = "active" => task[x].nextRun # "none"
      BY <1>11, <2>5 DEF Scheduled
    <3> QED
      BY <2>2, <2>5, <3>1 DEF ArmedTask
  <2>6. \A t \in Tasks : ArmedTask(t)' /\ (Exist(t)' => Exist(t))
    BY <2>2, <2>3, <2>4, <2>5 DEF ArmedTask, Exist
  <2> QED
    BY <1>1, <1>11, <2>6 DEF Update
<1> QED
  BY <1>2, <1>3, <1>4, <1>5, <1>6, <1>7, <1>8, <1>9, <1>10, <1>11 DEF Request

LEMMA ArmedStep ==
  ASSUME TypeOK, Snapped, RecurringArmed, [Next]_vars, [SameKind]_vars, [Scheduled]_vars
  PROVE  Snapped' /\ RecurringArmed'
<1> USE DEF dbVars, runVars, memVars
<1>0. /\ task \in [Tasks -> TaskRows] /\ \A t \in Tasks : task[t] \in TaskRows
      /\ \A r \in Runs : TaskOf[r] \in Tasks
  BY TaskRow
<1>1. CASE UNCHANGED vars
  BY <1>1 DEF vars, Snapped, Executing, Exist, RecurringArmed
<1>2. CASE Next /\ ~UNCHANGED vars
  <2>1. SameKind /\ Scheduled /\ \A t \in Tasks : ArmedTask(t)
    BY <1>2 DEF RecurringArmed, ArmedTask
  <2>2. SUFFICES Snapped' /\ \A t \in Tasks : ArmedTask(t)'
    BY DEF RecurringArmed, ArmedTask
  <2>3. CASE \E r \in Runs : RunStep(r)
    BY <2>1, <2>3, ArmedRunStep
  <2>4. CASE \E t \in Tasks : Request(t)
    BY <2>1, <2>4, ArmedRequest
  <2>6. ASSUME NEW r \in Runs, Reload(r) PROVE Snapped' /\ \A t \in Tasks : ArmedTask(t)'
    <3>1. seen'[r].kind = task[TaskOf[r]].kind /\ \A q \in Runs \ {r} : seen'[q] = seen[q]
      BY <2>6 DEF Reload, TypeOK
    <3>2. task' = task /\ pc' = pc
      BY <2>6 DEF Reload
    <3> QED
      BY <2>1, <3>1, <3>2 DEF Snapped, Executing, Exist, ArmedTask
  <2>7. ASSUME NEW r \in Runs, FinishFails(r) PROVE Snapped' /\ \A t \in Tasks : ArmedTask(t)'
    BY <2>1, <2>7, EndsSees, SnappedRun DEF FinishFails, Executing, Exist, ArmedTask
  <2>8. CASE \/ \E r \in Runs : Monitor(r)
             \/ ForegroundBegin \/ ForegroundEnd \/ StopBackground
    <3>1. UNCHANGED <<task, pc, seen>>
      BY <2>8 DEF Monitor, ForegroundBegin, ForegroundEnd, StopBackground
    <3> QED
      BY <2>1, <3>1 DEF Snapped, Executing, Exist, ArmedTask
  <2>9. ASSUME NEW t \in Tasks, Tick(t) PROVE Snapped' /\ \A x \in Tasks : ArmedTask(x)'
    <3>1. \A x \in Tasks : /\ task'[x].status = task[x].status
                           /\ task'[x].kind = task[x].kind
                           /\ task'[x].nextRun \in {task[x].nextRun, "due"}
      BY <1>0, <2>9 DEF Tick, TaskRows
    <3>2. \A q \in Runs : seen'[q].kind = seen[q].kind
      BY <2>9 DEF Tick, TypeOK, SeenRows
    <3>3. pc' = pc
      BY <2>9 DEF Tick
    <3>4. Snapped'
      BY <1>0, <3>1, <3>2, <3>3 DEF Snapped, Executing, Exist
    <3> QED
      BY <2>1, <3>1, <3>4 DEF ArmedTask
  <2>10. ASSUME NEW e \in Events, HandleEvent(e)
         PROVE  Snapped' /\ \A t \in Tasks : ArmedTask(t)'
    <3>1. \A t \in Tasks : /\ task'[t].status = task[t].status
                           /\ task'[t].kind = task[t].kind
                           /\ task'[t].nextRun \in {task[t].nextRun, "due"}
      BY <1>0, <2>10 DEF HandleEvent, Counted, TaskRows
    <3>2. seen' = seen /\ \A q \in Runs : pc'[q] \in {pc[q], "spawned"}
      BY <2>10, SpawnSees DEF HandleEvent
    <3> QED
      BY <1>0, <2>1, <3>1, <3>2 DEF Snapped, Executing, Exist, ArmedTask
  <2>11. CASE CheckDue
    <3>1. \A t \in Tasks : /\ task'[t].status = task[t].status
                           /\ task'[t].kind = task[t].kind
                           /\ task'[t].nextRun \in {task[t].nextRun, "later"}
      BY <1>0, <2>11 DEF CheckDue, TaskRows
    <3>2. seen' = seen /\ \A q \in Runs : pc'[q] \in {pc[q], "spawned"}
      BY <2>11, SpawnSees DEF CheckDue
    <3> QED
      BY <1>0, <2>1, <3>1, <3>2 DEF Snapped, Executing, Exist, ArmedTask
  <2>12. CASE Crash
    BY <2>1, <2>12 DEF Crash, Snapped, Executing, Exist, ArmedTask
  <2>13. CASE Start
    <3>1. \A t \in Tasks : /\ task'[t].status = task[t].status
                           /\ task'[t].kind = task[t].kind
                           /\ task'[t].nextRun \in {task[t].nextRun, "later"}
      BY <1>0, <2>13 DEF Start, PushOverdue, TaskRows
    <3> QED
      BY <1>0, <2>1, <2>13, <3>1 DEF Start, Snapped, Executing, Exist, ArmedTask
  <2> QED
    BY <1>2, <2>3, <2>4, <2>6, <2>7, <2>8, <2>9, <2>10, <2>11, <2>12, <2>13 DEF Next
<1> QED
  BY <1>1, <1>2

\* No interruption, error, stop, crash or edit leaves an active recurring task
\* without a next run, provided its trigger is not edited while it executes
\* and an edit that makes it recurring sends its schedule (compute_next_run,
\* _execute_task_locked, update_task).
THEOREM RecurringStaysArmed ==
  Spec /\ KindsSettled /\ SchedulesSent => []RecurringArmed
<1>1. Init => Snapped /\ RecurringArmed
  BY DEF Init, Snapped, Executing, RecurringArmed, NextRunOf
<1>2. TypeOK /\ Snapped /\ RecurringArmed /\ [Next]_vars /\ [SameKind]_vars /\ [Scheduled]_vars
        => Snapped' /\ RecurringArmed'
  BY ArmedStep
<1> QED
  BY <1>1, <1>2, TypeCorrect, PTL DEF Spec, KindsSettled, SchedulesSent

-----------------------------------------------------------------------------
(* A trigger *)

\* A trigger nobody executes yet is in the database, of a task that exists and
\* that no run executes: the run that will serve it is still to read it.
Pending(t) ==
  unserved[t] = "idle" =>
    /\ task[t].kind = "event" /\ task[t].nextRun # "none" /\ Exist(t)
    /\ \A r \in Runs : TaskOf[r] = t => pc[r] \notin Started

\* A step that edits the trigger of no task that waits for its run.
KeepsTriggers ==
  \A t \in Tasks : unserved[t] = "idle" /\ unserved'[t] = "idle" => task'[t].kind = task[t].kind
TriggersKept == [][KeepsTriggers]_vars

LEMMA PendingKept ==
  ASSUME \A t \in Tasks : Pending(t),
         \A t \in Tasks : unserved'[t] = "idle" =>
           /\ unserved[t] = "idle" /\ task'[t].kind = task[t].kind
           /\ task'[t].nextRun \in {task[t].nextRun, "later", "due"}
           /\ Exist(t) => Exist(t)'
           /\ \A r \in Runs : TaskOf[r] = t /\ pc'[r] \in Started => pc[r] \in Started
  PROVE  \A t \in Tasks : Pending(t)'
BY DEF Pending

\* The segments of a run that executes: the trigger of its task is served.
LEMMA PendingSettled ==
  ASSUME TypeOK, \A t \in Tasks : Pending(t), NEW r \in Runs, pc[r] \in Started,
         \A t \in Tasks \ {TaskOf[r]} : task'[t] = task[t],
         unserved' = unserved,
         \A q \in Runs \ {r} : pc'[q] \in {pc[q], "chained"}
  PROVE  \A t \in Tasks : Pending(t)'
<1>1. TaskOf[r] \in Tasks /\ unserved[TaskOf[r]] # "idle"
  BY TaskRow DEF Pending
<1>2. \A t \in Tasks : unserved'[t] = "idle" =>
        /\ unserved[t] = "idle" /\ task'[t] = task[t]
        /\ \A q \in Runs : TaskOf[q] = t /\ pc'[q] \in Started => pc[q] \in Started
  BY <1>1 DEF Started
<1> QED
  BY <1>2, PendingKept DEF Exist

LEMMA PendingRunStep ==
  ASSUME TypeOK, \A t \in Tasks : Pending(t), NEW r \in Runs, RunStep(r)
  PROVE  \A t \in Tasks : Pending(t)'
<1> USE DEF dbVars, runVars, memVars
<1> DEFINE T == TaskOf[r]
<1>0. T \in Tasks /\ task \in [Tasks -> TaskRows] /\ unserved \in [Tasks -> {"no", "idle", "busy"}]
  BY TaskRow DEF TypeOK
<1>1. ASSUME NEW h, NEW ex, NEW rows, NEW s, Refuse(r, h, ex, rows, s)
      PROVE  \A t \in Tasks : Pending(t)'
  <2>1. \A t \in Tasks : unserved'[t] = "idle" => unserved[t] = "idle" /\ task'[t] = task[t]
    BY <1>0, <1>1 DEF Refuse
  <2>2. \A q \in Runs : pc'[q] \in Started => pc[q] \in Started
    BY <1>1, RefuseRow DEF Started
  <2> QED
    BY <2>1, <2>2, PendingKept DEF Exist
<1>2. ASSUME NEW h, NEW ex, NEW rows, NEW s, NEW m, Admit(r, h, ex, rows, s, m)
      PROVE  \A t \in Tasks : Pending(t)'
  <2>1. \A t \in Tasks : unserved'[t] = "idle" => unserved[t] = "idle" /\ task'[t] = task[t]
    BY <1>0, <1>2 DEF Admit, Flip
  <2>2. pc'[r] \in Started => unserved'[T] # "idle"
    BY <1>0, <1>2 DEF Admit, Flip, Started, TypeOK
  <2>3. \A q \in Runs \ {r} : pc'[q] = pc[q]
    BY <1>2, AdmitSees
  <2> QED
    BY <2>1, <2>2, <2>3, PendingKept DEF Exist
<1>3. ASSUME pc[r] = "running", unserved' = unserved, NEW new, Unwind(r),
             IF Gone(r) THEN UNCHANGED <<task, row>> ELSE Reschedule(r, new)
      PROVE  \A t \in Tasks : Pending(t)'
  <2>1. \A t \in Tasks \ {T} : task'[t] = task[t]
    BY <1>3, RescheduleRow
  <2> QED
    BY <1>3, <2>1, UnwindSees, PendingSettled DEF Started
<1>4. ASSUME Executing(r), unserved' = unserved, NEW o, Commit(r, o)
      PROVE  \A t \in Tasks : Pending(t)'
  <2>1. \A t \in Tasks \ {T} : task'[t] = task[t]
    BY <1>4, CommitRow, CommitSees
  <2> QED
    BY <1>4, <2>1, CommitSees, PendingSettled DEF Started, Executing
<1>5. CASE Begin(r)
  <2>1. CASE pc' = [pc EXCEPT ![r] = "queued"] /\ task' = task /\ unserved' = unserved
    <3>1. \A q \in Runs : pc'[q] \in Started => pc[q] \in Started
      BY <2>1 DEF Started, TypeOK
    <3> QED
      BY <2>1, <3>1, PendingKept DEF Exist
  <2> QED
    BY <1>1, <1>2, <1>5, <2>1 DEF Begin
<1>6. CASE DropChained(r) \/ Produce(r) \/ FinishUnwinding(r)
  <2>1. /\ task' = task /\ unserved' = unserved
        /\ \A q \in Runs : pc'[q] \in Started => pc[q] \in Started
    BY <1>6, EndsSees DEF DropChained, Produce, FinishUnwinding, Started, TypeOK
  <2> QED
    BY <2>1, PendingKept DEF Exist
<1>7. CASE Acquire(r)
  BY <1>1, <1>2, <1>7 DEF Acquire
<1>8. CASE OpenGate(r)
  <2>1. CASE task[T].status = "deleted"
    <3>1. /\ task' = task /\ unserved' = unserved
          /\ \A q \in Runs : pc'[q] \in Started => pc[q] \in Started
      BY <1>8, <2>1, EndsSees DEF OpenGate, Started
    <3> QED
      BY <3>1, PendingKept DEF Exist
  <2>2. CASE task[T].status # "deleted"
    <3>1. /\ unserved'[T] = "no" /\ task' = task
          /\ \A t \in Tasks \ {T} : unserved'[t] = unserved[t]
          /\ \A q \in Runs \ {r} : pc'[q] = pc[q]
      BY <1>0, <1>8, <2>2 DEF OpenGate, Flip, TypeOK
    <3> QED
      BY <3>1, PendingKept DEF Exist
  <2> QED
    BY <2>1, <2>2
<1>9. CASE Noop(r)
  BY <1>3, <1>9 DEF Noop
<1>10. CASE Defer(r)
  BY <1>3, <1>10 DEF Defer
<1>11. CASE Cancelled(r)
  BY <1>3, <1>11 DEF Cancelled
<1>12. CASE Finish(r)
  BY <1>4, <1>12 DEF Finish, Executing
<1>13. CASE FinishForced(r)
  BY <1>4, <1>13 DEF FinishForced, Executing
<1>14. CASE CancelledWaiting(r)
  <2>1. \A t \in Tasks : task'[t].status = task[t].status /\ task'[t].kind = task[t].kind
                         /\ task'[t].nextRun \in {task[t].nextRun, "later"}
    BY <1>0, <1>14, TaskRow DEF CancelledWaiting, DeferIfDue, TaskRows
  <2>2. \A q \in Runs : pc'[q] \in Started => pc[q] \in Started
    BY <1>14, EndsSees DEF CancelledWaiting, Started, TypeOK
  <2>3. unserved' = unserved
    BY <1>14 DEF CancelledWaiting
  <2> QED
    BY <2>1, <2>2, <2>3, PendingKept DEF Exist
<1> QED
  BY <1>5, <1>6, <1>7, <1>8, <1>9, <1>10, <1>11, <1>12, <1>13, <1>14 DEF RunStep

LEMMA PendingRequest ==
  ASSUME TypeOK, \A t \in Tasks : Pending(t), KeepsTriggers, NEW x \in Tasks, Request(x)
  PROVE  \A t \in Tasks : Pending(t)'
<1> USE DEF dbVars, runVars, memVars
<1>0. /\ task \in [Tasks -> TaskRows] /\ task[x] \in TaskRows
      /\ unserved \in [Tasks -> {"no", "idle", "busy"}]
  BY TaskRow DEF TypeOK
<1>1. \A q \in Runs : pc'[q] \in Started => pc[q] \in Started
  <2>1. \A q \in Runs : pc'[q] \in {pc[q], "spawned"}
    BY SpawnSees DEF Request, RunNow, ForceRun, Webhook, Stop, Pause, Resume, Revert, Delete,
       Create, Update, TypeOK
  <2> QED
    BY <2>1 DEF Started
<1>2. SUFFICES \A t \in Tasks : unserved'[t] = "idle" =>
        /\ unserved[t] = "idle" /\ task'[t].kind = task[t].kind
        /\ task'[t].nextRun \in {task[t].nextRun, "later", "due"}
        /\ Exist(t) => Exist(t)'
  BY <1>1, PendingKept
<1>3. CASE RunNow(x) \/ ForceRun(x) \/ Stop(x)
  BY <1>3 DEF RunNow, ForceRun, Stop, Exist
<1>4. CASE Webhook(x)
  <2>1. unserved' = unserved /\ \A t \in Tasks \ {x} : task'[t] = task[t]
    BY <1>0, <1>4 DEF Webhook
  <2>2. unserved[x] # "idle"
    BY <1>4 DEF Webhook, Pending
  <2> QED
    BY <2>1, <2>2 DEF Exist
<1>5. CASE Pause(x)
  BY <1>0, <1>5 DEF Pause, Exist, TaskRows
<1>6. CASE Resume(x)
  <2>1. unserved' = unserved /\ \A t \in Tasks \ {x} : task'[t] = task[t]
    BY <1>0, <1>6 DEF Resume
  <2>2. unserved[x] = "idle" => task[x].kind \notin Schedule
    BY DEF Pending, Schedule
  <2>3. task'[x].kind = task[x].kind /\ task'[x].status = "active"
        /\ (task[x].kind \notin Schedule => task'[x].nextRun = task[x].nextRun)
    BY <1>0, <1>6 DEF Resume, TaskRows
  <2> QED
    BY <2>1, <2>2, <2>3 DEF Exist
<1>7. CASE Revert(x) \/ Delete(x)
  <2>1. unserved'[x] = "no" /\ \A t \in Tasks \ {x} : unserved'[t] = unserved[t] /\ task'[t] = task[t]
    BY <1>0, <1>7 DEF Revert, Delete
  <2> QED
    BY <2>1 DEF Exist
<1>8. ASSUME NEW k \in EditKinds, Create(x, k)
      PROVE  \A t \in Tasks : unserved'[t] = "idle" =>
               /\ unserved[t] = "idle" /\ task'[t].kind = task[t].kind
               /\ task'[t].nextRun \in {task[t].nextRun, "later", "due"}
               /\ Exist(t) => Exist(t)'
  <2>1. unserved' = unserved /\ \A t \in Tasks \ {x} : task'[t] = task[t]
    BY <1>0, <1>8 DEF Create
  <2>2. unserved[x] # "idle"
    BY <1>8 DEF Create, Pending, Exist
  <2> QED
    BY <2>1, <2>2 DEF Exist
<1>9. ASSUME NEW k \in EditKinds, NEW resched \in BOOLEAN, Update(x, k, resched)
      PROVE  \A t \in Tasks : unserved'[t] = "idle" =>
               /\ unserved[t] = "idle" /\ task'[t].kind = task[t].kind
               /\ task'[t].nextRun \in {task[t].nextRun, "later", "due"}
               /\ Exist(t) => Exist(t)'
  <2>1. PICK a \in BOOLEAN :
          task' = [task EXCEPT ![x].kind = k, ![x].ahead = a,
            ![x].nextRun = IF resched /\ task[x].status = "active" /\ k \in Schedule
                           THEN NextRunOf(k, a) ELSE @]
    BY <1>0, <1>9 DEF Update, TaskRows
  <2>2. /\ task'[x].kind = k /\ task'[x].status = task[x].status
        /\ k \notin Schedule => task'[x].nextRun = task[x].nextRun
    BY <1>0, <2>1 DEF TaskRows
  <2>3. unserved' = unserved /\ \A t \in Tasks \ {x} : task'[t] = task[t]
    BY <1>0, <1>9, <2>1 DEF Update
  <2>4. unserved[x] = "idle" => k = "event" /\ task[x].kind = "event"
    BY <2>2, <2>3 DEF KeepsTriggers, Pending
  <2> QED
    BY <2>2, <2>3, <2>4 DEF Exist, Schedule
<1> QED
  BY <1>3, <1>4, <1>5, <1>6, <1>7, <1>8, <1>9 DEF Request

LEMMA PendingStep ==
  ASSUME TypeOK, \A t \in Tasks : Pending(t), [Next]_vars, [KeepsTriggers]_vars
  PROVE  \A t \in Tasks : Pending(t)'
<1> USE DEF dbVars, runVars, memVars
<1>0. /\ task \in [Tasks -> TaskRows] /\ \A t \in Tasks : task[t] \in TaskRows
      /\ unserved \in [Tasks -> {"no", "idle", "busy"}]
  BY TaskRow DEF TypeOK
<1>1. CASE UNCHANGED vars
  BY <1>1 DEF vars, Pending, Exist
<1>2. CASE Next /\ ~UNCHANGED vars
  <2>1. KeepsTriggers
    BY <1>2
  <2>2. CASE \E r \in Runs : RunStep(r)
    BY <2>2, PendingRunStep
  <2>3. CASE \E t \in Tasks : Request(t)
    BY <2>1, <2>3, PendingRequest
  <2>4. ASSUME unserved' = unserved,
               \A t \in Tasks : /\ task'[t].status = task[t].status
                                /\ task'[t].kind = task[t].kind
                                /\ task'[t].nextRun \in {task[t].nextRun, "later", "due"},
               \A q \in Runs : pc'[q] \in {pc[q], "spawned", "none"}
        PROVE  \A t \in Tasks : Pending(t)'
    BY <2>4, PendingKept DEF Exist, Started
  <2>5. ASSUME NEW r \in Runs, Reload(r) \/ Monitor(r) \/ FinishFails(r)
        PROVE  \A t \in Tasks : Pending(t)'
    <3>1. task' = task /\ unserved' = unserved /\ \A q \in Runs : pc'[q] \in {pc[q], "none"}
      BY <2>5, EndsSees DEF Reload, Monitor, FinishFails
    <3> QED
      BY <2>4, <3>1
  <2>6. CASE ForegroundBegin \/ ForegroundEnd \/ StopBackground \/ Crash
    <3>1. task' = task /\ unserved' = unserved /\ \A q \in Runs : pc'[q] \in {pc[q], "none"}
      BY <2>6 DEF ForegroundBegin, ForegroundEnd, StopBackground, Crash
    <3> QED
      BY <2>4, <3>1
  <2>7. ASSUME NEW t \in Tasks, Tick(t) PROVE \A x \in Tasks : Pending(x)'
    <3>1. \A x \in Tasks : /\ task'[x].status = task[x].status
                           /\ task'[x].kind = task[x].kind
                           /\ task'[x].nextRun \in {task[x].nextRun, "due"}
      BY <1>0, <2>7 DEF Tick, TaskRows
    <3>2. unserved' = unserved /\ pc' = pc
      BY <2>7 DEF Tick
    <3> QED
      BY <2>4, <3>1, <3>2
  <2>8. CASE CheckDue
    <3>1. \A t \in Tasks : /\ task'[t].status = task[t].status
                           /\ task'[t].kind = task[t].kind
                           /\ task'[t].nextRun \in {task[t].nextRun, "later"}
      BY <1>0, <2>8 DEF CheckDue, TaskRows
    <3>2. unserved' = unserved /\ \A q \in Runs : pc'[q] \in {pc[q], "spawned"}
      BY <2>8, SpawnSees DEF CheckDue
    <3> QED
      BY <2>4, <3>1, <3>2
  <2>9. CASE Start
    <3>1. \A t \in Tasks : /\ task'[t].status = task[t].status
                           /\ task'[t].kind = task[t].kind
                           /\ task'[t].nextRun \in {task[t].nextRun, "later"}
      BY <1>0, <2>9 DEF Start, PushOverdue, TaskRows
    <3>2. unserved' = unserved /\ pc' = pc
      BY <2>9 DEF Start
    <3> QED
      BY <2>4, <3>1, <3>2
  <2>10. ASSUME NEW e \in Events, HandleEvent(e) PROVE \A t \in Tasks : Pending(t)'
    <3> DEFINE subs  == {t \in Tasks : /\ task[t].kind = "event" /\ Listens[t] = e
                                       /\ task[t].status = "active"}
               fired == {t \in subs : task[t].counter + 1 >= Threshold[t]}
               busy(t) == \E r \in Runs : TaskOf[r] = t /\ pc[r] \in Started
    <3>1. \A q \in Runs : pc'[q] \in Started => pc[q] \in Started
      <4>1. \A q \in Runs : pc'[q] \in {pc[q], "spawned"}
        BY <2>10, SpawnSees DEF HandleEvent
      <4> QED
        BY <4>1 DEF Started
    <3>2. /\ task' = [t \in Tasks |-> IF t \in subs THEN Counted(t) ELSE task[t]]
          /\ unserved' = [t \in Tasks |-> IF t \notin fired THEN unserved[t]
               ELSE IF busy(t) /\ unserved[t] # "idle" THEN "busy" ELSE "idle"]
      BY <2>10 DEF HandleEvent
    <3>3. \A t \in Tasks : /\ task'[t].status = task[t].status
                           /\ task'[t].kind = task[t].kind
                           /\ task'[t].nextRun \in {task[t].nextRun, "due"}
                           /\ t \in fired => task'[t].nextRun = "due"
      BY <1>0, <3>2 DEF Counted, TaskRows
    <3>4. ASSUME NEW t \in Tasks, unserved'[t] = "idle" PROVE Pending(t)'
      <4>1. CASE unserved[t] = "idle"
        BY <3>1, <3>3, <4>1 DEF Pending, Exist
      <4>2. CASE unserved[t] # "idle"
        <5>1. t \in fired /\ ~busy(t)
          BY <3>2, <3>4, <4>2
        <5>2. task[t].kind = "event" /\ task[t].status = "active"
          BY <5>1
        <5> QED
          BY <3>1, <3>3, <5>1, <5>2 DEF Pending, Exist
      <4> QED
        BY <4>1, <4>2
    <3> QED
      BY <3>4 DEF Pending
  <2> QED
    BY <1>2, <2>2, <2>3, <2>5, <2>6, <2>7, <2>8, <2>9, <2>10 DEF Next
<1> QED
  BY <1>1, <1>2

\* A trigger that fires while its task is idle is never lost: it stays in the
\* database through queueing, cancellation, postponement, pause, crash and
\* restart until a run serves it, unless an edit changes the trigger itself.
THEOREM TriggerSurvives == Spec /\ TriggersKept => []TriggerDurable
<1>1. Init => \A t \in Tasks : Pending(t)
  BY DEF Init, Pending
<1>2. (\A t \in Tasks : Pending(t)) => TriggerDurable
  BY DEF Pending, TriggerDurable, WillRun
<1>3. TypeOK /\ (\A t \in Tasks : Pending(t)) /\ [Next]_vars /\ [KeepsTriggers]_vars
        => (\A t \in Tasks : Pending(t))'
  BY PendingStep
<1> QED
  BY <1>1, <1>2, <1>3, TypeCorrect, PTL DEF Spec, TriggersKept

-----------------------------------------------------------------------------
(* The polling loop *)

\* Tasks on a schedule only: what a run saw of its task is a schedule too.
Timed ==
  /\ \A t \in Tasks : Exist(t) => task[t].kind \in Schedule
  /\ \A r \in Runs : Executing(r) => seen[r].kind \in Schedule
OnlySchedules ==
  /\ \A t \in Tasks : KindOf[t] \in Schedule
  /\ EditKinds \subseteq Schedule

\* The runs that begin to execute read an existing task.
LEMMA TimedKept ==
  ASSUME Timed, 
         \A t \in Tasks : Exist(t)' => \/ Exist(t) /\ task'[t].kind = task[t].kind
                                       \/ task'[t].kind \in Schedule,
         \A q \in Runs : Executing(q)' => \/ Executing(q) /\ seen'[q].kind = seen[q].kind
                                          \/ seen'[q].kind \in Schedule
  PROVE  Timed'
BY DEF Timed

\* A settled run did not leave its task as it found it.
CoolRun(r) == Settles(r) /\ TookUpDue(r) => ~LeftDue(TaskOf[r])

LEMMA TimedRunStep ==
  ASSUME TypeOK, Timed, NEW r \in Runs, RunStep(r)
  PROVE  Timed' /\ \A q \in Runs : CoolRun(q)
<1> USE DEF dbVars, runVars, memVars
<1> DEFINE T == TaskOf[r]
<1>0. T \in Tasks
  BY TaskRow
<1>1. ASSUME \A t \in Tasks : task'[t].kind = task[t].kind /\ (Exist(t)' => Exist(t)),
             \A q \in Runs \ {r} : pc'[q] \in {pc[q], "chained"} /\ seen'[q] = seen[q],
             Executing(r)' => \/ Executing(r) /\ seen'[r].kind = seen[r].kind
                              \/ seen'[r].kind \in Schedule,
             CoolRun(r)
      PROVE  Timed' /\ \A q \in Runs : CoolRun(q)
  <2>1. \A q \in Runs : Executing(q)' => \/ Executing(q) /\ seen'[q].kind = seen[q].kind
                                         \/ seen'[q].kind \in Schedule
    BY <1>1 DEF Executing
  <2>2. \A q \in Runs \ {r} : ~Settles(q)
    BY <1>1 DEF Settles
  <2> QED
    BY <1>1, <2>1, <2>2, TimedKept DEF CoolRun
<1>2. ASSUME NEW h, NEW ex, NEW rows, NEW s, Refuse(r, h, ex, rows, s)
      PROVE  Timed' /\ \A q \in Runs : CoolRun(q)
  <2>1. task'[T].status # "active" /\ pc'[r] = "none"
        /\ \A q \in Runs \ {r} : pc'[q] = pc[q] /\ seen'[q] = seen[q]
    BY <1>2, RefuseRow
  <2>2. \A t \in Tasks : task'[t].kind = task[t].kind /\ (Exist(t)' => Exist(t))
    BY <1>2, RefuseRow, TaskRow DEF Refuse, Exist
  <2> QED
    BY <1>1, <2>1, <2>2 DEF CoolRun, LeftDue, Executing
<1>3. ASSUME NEW h, NEW ex, NEW rows, NEW s, NEW m, Admit(r, h, ex, rows, s, m)
      PROVE  Timed' /\ \A q \in Runs : CoolRun(q)
  <2>1. task[T].kind \in Schedule
    BY <1>0, <1>3 DEF Admit, Timed, Exist
  <2> QED
    BY <1>1, <1>3, <2>1, AdmitSees DEF CoolRun, Settles, Executing, Exist
<1>4. ASSUME pc[r] = "running", NEW new, new # "due", Unwind(r),
             IF Gone(r) THEN UNCHANGED <<task, row>> ELSE Reschedule(r, new)
      PROVE  Timed' /\ \A q \in Runs : CoolRun(q)
  <2>1. \A t \in Tasks : task'[t].kind = task[t].kind /\ task'[t].status = task[t].status
    BY <1>4, RescheduleRow
  <2>2. CoolRun(r)
    BY <1>0, <1>4, <2>1, RescheduleRow DEF CoolRun, TookUpDue, LeftDue, Gone
  <2> QED
    BY <1>1, <1>4, <2>1, <2>2, UnwindSees DEF Executing, Exist
<1>5. ASSUME Executing(r), NEW o, Commit(r, o)
      PROVE  Timed' /\ \A q \in Runs : CoolRun(q)
  <2>1. CASE Gone(r)
    BY <1>0, <1>1, <1>5, <2>1, CommitSees DEF CoolRun, LeftDue, Gone, Executing, Exist
  <2>2. CASE ~Gone(r)
    <3>1. \A t \in Tasks : task'[t].kind = task[t].kind /\ (Exist(t)' => Exist(t))
      BY <1>5, <2>2, CommitRow DEF Exist, Gone
    <3>2. seen[r].kind \in Schedule
      BY <1>5 DEF Timed
    <3>3. NextRunOf(seen[r].kind, seen[r].ahead) # "due"
      BY NextRunType
    <3>4. seen[r].nextRun = "due" => task'[T].nextRun = NextRunOf(seen[r].kind, seen[r].ahead)
      BY <1>5, <2>2, <3>2, CommitRow
    <3>5. CoolRun(r)
      BY <1>5, <3>3, <3>4 DEF CoolRun, TookUpDue, LeftDue, Executing
    <3> QED
      BY <1>1, <1>5, <3>1, <3>5, CommitSees DEF Executing
  <2> QED
    BY <2>1, <2>2
<1>6. CASE Begin(r)
  <2>1. CASE pc' = [pc EXCEPT ![r] = "queued"] /\ task' = task /\ seen' = seen
    BY <1>1, <2>1 DEF CoolRun, Settles, Executing, Exist, TypeOK
  <2> QED
    BY <1>2, <1>3, <1>6, <2>1 DEF Begin
<1>7. CASE DropChained(r)
  <2>1. pc' = [pc EXCEPT ![r] = "none"] /\ pc[r] = "chained" /\ task' = task /\ seen' = seen
    BY <1>7 DEF DropChained
  <2> QED
    BY <1>1, <2>1 DEF CoolRun, Settles, Executing, Exist, TypeOK
<1>8. CASE Produce(r)
  <2>1. pc' = [pc EXCEPT ![r] = "finishing"] /\ pc[r] = "running" /\ task' = task /\ seen' = seen
    BY <1>8 DEF Produce
  <2> QED
    BY <1>1, <2>1 DEF CoolRun, Settles, Executing, Exist, TypeOK
<1>9. CASE Acquire(r)
  BY <1>2, <1>3, <1>9 DEF Acquire
<1>10. CASE OpenGate(r)
  <2>1. CASE task[T].status = "deleted"
    <3>1. Ends(r) /\ task' = task
      BY <1>10, <2>1 DEF OpenGate
    <3> QED
      BY <1>1, <2>1, <3>1, EndsSees DEF Executing, CoolRun, LeftDue, Exist
  <2>2. CASE task[T].status # "deleted"
    <3>1. /\ task' = task /\ pc' = [pc EXCEPT ![r] = "running"]
          /\ seen'[r].kind = task[T].kind
          /\ \A q \in Runs \ {r} : seen'[q] = seen[q]
      BY <1>10, <2>2 DEF OpenGate, Flip, TypeOK
    <3>2. task[T].kind \in Schedule
      BY <1>0, <2>2 DEF Timed, Exist
    <3> QED
      BY <1>1, <3>1, <3>2 DEF Executing, CoolRun, Settles, Exist, TypeOK
  <2> QED
    BY <2>1, <2>2
<1>11. CASE Noop(r)
  BY <1>4, <1>11, NextRunType DEF Noop
<1>12. CASE Defer(r)
  BY <1>4, <1>12 DEF Defer
<1>13. CASE Cancelled(r)
  BY <1>4, <1>13, NextRunType DEF Cancelled
<1>14. CASE Finish(r)
  BY <1>5, <1>14 DEF Finish, Executing
<1>15. CASE FinishForced(r)
  BY <1>5, <1>15 DEF FinishForced, Executing
<1>16. CASE FinishUnwinding(r)
  <2>1. Ends(r) /\ task' = task /\ pc[r] = "unwinding"
    BY <1>16 DEF FinishUnwinding
  <2> QED
    BY <1>1, <2>1, EndsSees DEF Executing, CoolRun, Settles, Exist
<1>17. CASE CancelledWaiting(r)
  <2>1. \A t \in Tasks : task'[t].status = task[t].status /\ task'[t].kind = task[t].kind
    BY <1>17, TaskRow DEF CancelledWaiting, DeferIfDue, TaskRows
  <2>2. pc'[r] = "none" /\ \A q \in Runs \ {r} : pc'[q] = pc[q] /\ seen'[q] = seen[q]
    BY <1>17, EndsSees DEF CancelledWaiting, Forget, TypeOK
  <2>3. ~LeftDue(T)
    BY <1>0, <1>17, TaskRow DEF CancelledWaiting, DeferIfDue, LeftDue, TaskRows
  <2> QED
    BY <1>1, <2>1, <2>2, <2>3 DEF Executing, CoolRun, Exist
<1> QED
  BY <1>6, <1>7, <1>8, <1>9, <1>10, <1>11, <1>12, <1>13, <1>14, <1>15, <1>16, <1>17 DEF RunStep

LEMMA TimedRequest ==
  ASSUME TypeOK, Timed, OnlySchedules, NEW x \in Tasks, Request(x)
  PROVE  Timed' /\ \A q \in Runs : CoolRun(q)
<1> USE DEF dbVars, runVars, memVars
<1>0. task \in [Tasks -> TaskRows] /\ task[x] \in TaskRows
  BY TaskRow
<1>1. \A q \in Runs : pc'[q] \in {pc[q], "spawned"} /\ seen'[q] = seen[q]
  BY SpawnSees DEF Request, RunNow, ForceRun, Webhook, Stop, Pause, Resume, Revert, Delete,
     Create, Update, TypeOK
<1>2. \A q \in Runs : CoolRun(q)
  BY <1>1 DEF CoolRun, Settles
<1>3. \A t \in Tasks : Exist(t)' => \/ Exist(t) /\ task'[t].kind = task[t].kind
                                    \/ task'[t].kind \in Schedule
  <2>1. CASE RunNow(x) \/ ForceRun(x) \/ Stop(x)
    BY <2>1 DEF RunNow, ForceRun, Stop, Exist
  <2>2. CASE Webhook(x)
    BY <1>0, <2>2 DEF Webhook, Exist, TaskRows
  <2>3. CASE Pause(x) \/ Resume(x)
    BY <1>0, <2>3 DEF Pause, Resume, Exists, Exist, TaskRows
  <2>4. CASE Revert(x)
    BY <1>0, <2>4 DEF Revert, DefaultRow, Exist, OnlySchedules
  <2>5. CASE Delete(x)
    BY <1>0, <2>5 DEF Delete, Exist
  <2>6. ASSUME NEW k \in EditKinds, Create(x, k)
        PROVE  task'[x].kind \in Schedule /\ \A t \in Tasks \ {x} : task'[t] = task[t]
    BY <1>0, <2>6 DEF Create, OnlySchedules
  <2>7. ASSUME NEW k \in EditKinds, NEW resched \in BOOLEAN, Update(x, k, resched)
        PROVE  task'[x].kind \in Schedule /\ \A t \in Tasks \ {x} : task'[t] = task[t]
    <3>1. k \in Schedule
      BY DEF OnlySchedules
    <3>2. PICK a \in BOOLEAN :
            task' = [task EXCEPT ![x].kind = k, ![x].ahead = a,
              ![x].nextRun = IF resched /\ task[x].status = "active" /\ k \in Schedule
                             THEN NextRunOf(k, a) ELSE @]
      BY <1>0, <2>7 DEF Update, TaskRows
    <3> QED
      BY <1>0, <3>1, <3>2 DEF TaskRows
  <2>8. ASSUME \/ \E k \in EditKinds : Create(x, k)
               \/ \E k \in EditKinds, resched \in BOOLEAN : Update(x, k, resched)
        PROVE  task'[x].kind \in Schedule /\ \A t \in Tasks \ {x} : task'[t] = task[t]
    <3>1. CASE \E k \in EditKinds : Create(x, k)
      BY <2>6, <3>1
    <3>2. CASE \E k \in EditKinds, resched \in BOOLEAN : Update(x, k, resched)
      BY <2>7, <3>2
    <3> QED
      BY <2>8, <3>1, <3>2
  <2>9. CASE \/ \E k \in EditKinds : Create(x, k)
             \/ \E k \in EditKinds, resched \in BOOLEAN : Update(x, k, resched)
    BY <2>8, <2>9 DEF Exist
  <2> QED
    BY <2>1, <2>2, <2>3, <2>4, <2>5, <2>9 DEF Request
<1> QED
  BY <1>1, <1>2, <1>3, TimedKept DEF Executing

LEMMA TimedStep ==
  ASSUME TypeOK, Timed, OnlySchedules, "commit" \notin Faults, Next
  PROVE  Timed' /\ \A q \in Runs : CoolRun(q)
<1> USE DEF dbVars, runVars, memVars
<1>0. /\ task \in [Tasks -> TaskRows] /\ \A t \in Tasks : task[t] \in TaskRows
      /\ \A r \in Runs : TaskOf[r] \in Tasks
  BY TaskRow
<1>1. CASE \E r \in Runs : RunStep(r)
  BY <1>1, TimedRunStep
<1>2. CASE \E t \in Tasks : Request(t)
  BY <1>2, TimedRequest
<1>3. ASSUME \A t \in Tasks : task'[t].kind = task[t].kind /\ task'[t].status = task[t].status,
             \A q \in Runs : pc'[q] \in {pc[q], "spawned"},
             \A q \in Runs : \/ seen'[q].kind = seen[q].kind
                             \/ Reload(q) /\ seen'[q].kind = task[TaskOf[q]].kind
      PROVE  Timed' /\ \A q \in Runs : CoolRun(q)
  <2>1. \A q \in Runs : ~Settles(q)
    BY <1>3 DEF Settles
  <2>2. \A q \in Runs : Reload(q) => task[TaskOf[q]].kind \in Schedule
    BY <1>0 DEF Reload, Timed, Exist
  <2>3. Timed'
    BY <1>3, <2>2 DEF Timed, Executing, Exist
  <2> QED
    BY <2>1, <2>3 DEF CoolRun
<1>4. ASSUME NEW r \in Runs, Reload(r) PROVE Timed' /\ \A q \in Runs : CoolRun(q)
  <2>1. seen'[r].kind = task[TaskOf[r]].kind /\ \A q \in Runs \ {r} : seen'[q] = seen[q]
    BY <1>4 DEF Reload, TypeOK
  <2>2. task' = task /\ pc' = pc
    BY <1>4 DEF Reload
  <2> QED
    BY <1>3, <1>4, <2>1, <2>2
<1>5. CASE \/ \E r \in Runs : Monitor(r)
           \/ ForegroundBegin \/ ForegroundEnd \/ StopBackground
  <2>1. UNCHANGED <<task, pc, seen>>
    BY <1>5 DEF Monitor, ForegroundBegin, ForegroundEnd, StopBackground
  <2> QED
    BY <1>3, <2>1
<1>6. ASSUME NEW t \in Tasks, Tick(t) PROVE Timed' /\ \A q \in Runs : CoolRun(q)
  <2>1. \A x \in Tasks : task'[x].kind = task[x].kind /\ task'[x].status = task[x].status
    BY <1>0, <1>6 DEF Tick, TaskRows
  <2>2. \A q \in Runs : seen'[q].kind = seen[q].kind
    BY <1>6 DEF Tick, TypeOK, SeenRows
  <2>3. pc' = pc
    BY <1>6 DEF Tick
  <2> QED
    BY <1>3, <2>1, <2>2, <2>3
<1>7. ASSUME NEW e \in Events, HandleEvent(e) PROVE Timed' /\ \A q \in Runs : CoolRun(q)
  <2>1. \A x \in Tasks : task'[x].kind = task[x].kind /\ task'[x].status = task[x].status
    BY <1>0, <1>7 DEF HandleEvent, Counted, TaskRows
  <2>2. seen' = seen /\ \A q \in Runs : pc'[q] \in {pc[q], "spawned"}
    BY <1>7, SpawnSees DEF HandleEvent
  <2> QED
    BY <1>3, <2>1, <2>2
<1>8. CASE CheckDue
  <2>1. \A x \in Tasks : task'[x].kind = task[x].kind /\ task'[x].status = task[x].status
    BY <1>0, <1>8 DEF CheckDue, TaskRows
  <2>2. seen' = seen /\ \A q \in Runs : pc'[q] \in {pc[q], "spawned"}
    BY <1>8, SpawnSees DEF CheckDue
  <2> QED
    BY <1>3, <2>1, <2>2
<1>9. CASE Crash
  BY <1>9 DEF Crash, CoolRun, Settles, Timed, Executing, Exist
<1>10. CASE Start
  <2>1. \A x \in Tasks : task'[x].kind = task[x].kind /\ task'[x].status = task[x].status
    BY <1>0, <1>10 DEF Start, PushOverdue, TaskRows
  <2>2. seen' = seen /\ pc' = pc
    BY <1>10 DEF Start
  <2> QED
    BY <1>3, <2>1, <2>2
<1>11. \A r \in Runs : ~FinishFails(r)
  BY DEF FinishFails
<1> QED
  BY <1>1, <1>2, <1>4, <1>5, <1>6, <1>7, <1>8, <1>9, <1>10, <1>11 DEF Next

\* The loop never takes up at once a task its run has just settled, when tasks
\* run on schedules: an event task whose run raises keeps the due next_run it
\* was taken up with (the error path recomputes it for schedules only), and a
\* commit that fails in flush writes nothing.
THEOREM LoopStaysCool ==
  ASSUME OnlySchedules, "commit" \notin Faults PROVE Spec => NoHotLoop
<1>1. Init => Timed
  <2> SUFFICES ASSUME Init PROVE Timed
    OBVIOUS
  <2>1. \A t \in Tasks : task[t].kind = KindOf[t]
    BY DEF Init
  <2>2. \A r \in Runs : ~Executing(r)
    BY DEF Init, Executing
  <2> QED
    BY <2>1, <2>2 DEF Timed, OnlySchedules
<1>2. TypeOK /\ Timed /\ [Next]_vars
        => Timed' /\ [\A r \in Runs : Settles(r) /\ TookUpDue(r) => ~LeftDue(TaskOf[r])]_vars
  <2> SUFFICES ASSUME TypeOK, Timed, [Next]_vars
               PROVE  Timed' /\ [\A r \in Runs : CoolRun(r)]_vars
    BY DEF CoolRun
  <2>1. CASE UNCHANGED vars
    BY <2>1 DEF vars, Timed, Executing, Exist
  <2>2. CASE Next
    BY <2>2, TimedStep
  <2> QED
    BY <2>1, <2>2
<1> QED
  BY <1>1, <1>2, TypeCorrect, PTL DEF Spec, NoHotLoop

=============================================================================
