------------------------ MODULE TaskSchedulerProofs ------------------------
(***************************************************************************)
(* Proofs about TaskScheduler for every set of tasks and runs: the types,  *)
(* the discipline of the model slot, and the exclusive use of the model.   *)
(***************************************************************************)
EXTENDS TaskScheduler, SequenceTheorems, TLAPS

\* The parts of TypeOK the end of a coroutine touches.
MemTypes ==
  /\ handle \in [Tasks -> Runs \union {NoRun}]
  /\ executing \subseteq Tasks
  /\ slot \in Runs \union {NoRun}
  /\ waiters \in Seq(Runs)
CoTypes ==
  /\ mode \in [Runs -> {"slot", "direct", "forced"}]
  /\ cancel \in [Runs -> BOOLEAN]
  /\ hit \in [Runs -> BOOLEAN]
  /\ outcome \in [Runs -> {"none", "success", "error", "raised"}]
  /\ seen \in [Runs -> SeenRows]
TaskTypes ==
  /\ task \in [Tasks -> TaskRows]
  /\ \A t \in Tasks : task[t].counter < Threshold[t]
  /\ unserved \in [Tasks -> {"no", "idle", "busy"}]
RowTypes ==
  /\ row \in [Runs -> RowStates]
  /\ newest \in [Tasks -> Runs \union {NoRun}]
  /\ pc \in [Runs -> PcStates]
FlagTypes == up \in BOOLEAN /\ fg \in BOOLEAN /\ stopPending \in BOOLEAN

LEMMA TypeParts == TypeOK <=> MemTypes /\ CoTypes /\ TaskTypes /\ RowTypes /\ FlagTypes
BY DEF TypeOK, MemTypes, CoTypes, TaskTypes, RowTypes, FlagTypes

LEMMA TypePartsNext ==
  ASSUME MemTypes', CoTypes', TaskTypes', RowTypes', FlagTypes' PROVE TypeOK'
BY DEF TypeOK, MemTypes, CoTypes, TaskTypes, RowTypes, FlagTypes

-----------------------------------------------------------------------------
(* Helpers *)

\* A run taken from the pool for a task is one of its free runs.
LEMMA NewRunFree ==
  ASSUME NEW t \in Tasks, Free(t) # {}
  PROVE  /\ NewRun(t) \in Runs /\ TaskOf[NewRun(t)] = t /\ ~Live(NewRun(t))
         /\ row[NewRun(t)] \notin OpenRows
BY DEF NewRun, Free

\* Leaving the middle of the queue of waiters keeps the others in order.
LEMMA RemoveAtProperties ==
  ASSUME NEW S, NEW s \in Seq(S), NEW i \in 1 .. Len(s)
  PROVE  /\ RemoveAt(s, i) \in Seq(S)
         /\ Len(RemoveAt(s, i)) = Len(s) - 1
         /\ \A j \in 1 .. Len(s) - 1 :
              RemoveAt(s, i)[j] = IF j < i THEN s[j] ELSE s[j + 1]
<1> DEFINE front == SubSeq(s, 1, i - 1)
           back  == SubSeq(s, i + 1, Len(s))
<1>1. Len(s) \in Nat
  BY LenProperties
<1>2. /\ front \in Seq(S) /\ Len(front) = i - 1
      /\ \A j \in 1 .. i - 1 : front[j] = s[j]
  <2>1. \A j \in 1 .. i - 1 : s[j] \in S
    BY <1>1, ElementOfSeq
  <2> QED
    BY <1>1, <2>1, SubSeqProperties
<1>3. /\ back \in Seq(S) /\ Len(back) = Len(s) - i
      /\ \A j \in 1 .. Len(s) - i : back[j] = s[i + j]
  <2>1. \A j \in i + 1 .. Len(s) : s[j] \in S
    BY <1>1, ElementOfSeq
  <2> QED
    BY <1>1, <2>1, SubSeqProperties
<1>4. /\ front \o back \in Seq(S) /\ Len(front \o back) = Len(s) - 1
      /\ \A j \in 1 .. Len(s) - 1 :
           (front \o back)[j] = IF j <= i - 1 THEN front[j] ELSE back[j - (i - 1)]
  <2> HIDE DEF front, back
  <2>1. /\ front \o back \in Seq(S) /\ Len(front \o back) = Len(front) + Len(back)
        /\ \A j \in 1 .. Len(front) + Len(back) :
             (front \o back)[j] = IF j <= Len(front) THEN front[j] ELSE back[j - Len(front)]
    BY <1>2, <1>3, ConcatProperties
  <2> QED
    BY <1>1, <1>2, <1>3, <2>1
<1>5. \A j \in 1 .. Len(s) - 1 :
        (front \o back)[j] = IF j < i THEN s[j] ELSE s[j + 1]
  <2> HIDE DEF front, back
  <2> TAKE j \in 1 .. Len(s) - 1
  <2>1. CASE j < i
    <3>1. j \in 1 .. i - 1 /\ j <= i - 1
      BY <1>1, <2>1
    <3> QED
      BY <1>2, <1>4, <2>1, <3>1
  <2>2. CASE ~(j < i)
    <3>1. /\ j - (i - 1) \in 1 .. Len(s) - i /\ ~(j <= i - 1)
          /\ i + (j - (i - 1)) = j + 1
      BY <1>1, <2>2
    <3> QED
      BY <1>3, <1>4, <2>2, <3>1
  <2> QED
    BY <2>1, <2>2
<1> QED
  BY <1>4, <1>5 DEF RemoveAt

-----------------------------------------------------------------------------
(* Types *)

LEMMA SeenOfTask ==
  ASSUME TaskTypes, NEW t \in Tasks
  PROVE  [kind |-> task[t].kind, nextRun |-> task[t].nextRun,
          ahead |-> task[t].ahead] \in SeenRows
BY DEF TaskTypes, TaskRows, SeenRows

LEMMA NothingSeen == Nothing \in SeenRows
BY DEF Nothing, SeenRows, Kinds, NextRuns

LEMMA NextRunType ==
  ASSUME NEW k, NEW a PROVE NextRunOf(k, a) \in {"later", "none"}
BY DEF NextRunOf

LEMMA FlushedType ==
  ASSUME NEW db \in NextRuns, NEW loaded, NEW new \in NextRuns,
         NEW v \in Flushed(db, loaded, new)
  PROVE  v \in NextRuns
BY DEF Flushed

\* Writing columns other than the counter keeps a row of scheduled_tasks typed.
LEMMA RowUpdate ==
  ASSUME TaskTypes, NEW t \in Tasks, NEW st \in Statuses, NEW nr \in NextRuns
  PROVE  LET new == [task EXCEPT ![t].status = st, ![t].nextRun = nr]
         IN  new \in [Tasks -> TaskRows] /\ \A x \in Tasks : new[x].counter < Threshold[x]
<1> DEFINE rec == [[task[t] EXCEPT !.status = st] EXCEPT !.nextRun = nr]
           new == [task EXCEPT ![t].status = st, ![t].nextRun = nr]
<1>1. task[t] \in TaskRows /\ task \in [Tasks -> TaskRows]
  BY DEF TaskTypes
<1>2. rec \in TaskRows /\ rec.counter = task[t].counter
  BY <1>1 DEF TaskRows
<1>3. new = [task EXCEPT ![t] = rec]
  BY <1>1
<1> HIDE DEF rec, new
<1>4. new \in [Tasks -> TaskRows]
  BY <1>1, <1>2, <1>3
<1>5. ASSUME NEW x \in Tasks PROVE new[x].counter < Threshold[x]
  BY <1>1, <1>2, <1>3 DEF TaskTypes
<1> QED
  BY <1>4, <1>5 DEF new

LEMMA NextRunUpdate ==
  ASSUME TaskTypes, NEW t \in Tasks, NEW nr \in NextRuns
  PROVE  LET new == [task EXCEPT ![t].nextRun = nr]
         IN  new \in [Tasks -> TaskRows] /\ \A x \in Tasks : new[x].counter < Threshold[x]
<1> DEFINE rec == [task[t] EXCEPT !.nextRun = nr]
           new == [task EXCEPT ![t].nextRun = nr]
<1>1. task[t] \in TaskRows /\ task \in [Tasks -> TaskRows]
  BY DEF TaskTypes
<1>2. rec \in TaskRows /\ rec.counter = task[t].counter
  BY <1>1 DEF TaskRows
<1>3. new = [task EXCEPT ![t] = rec]
  BY <1>1
<1> HIDE DEF rec, new
<1>4. new \in [Tasks -> TaskRows]
  BY <1>1, <1>2, <1>3
<1>5. ASSUME NEW x \in Tasks PROVE new[x].counter < Threshold[x]
  BY <1>1, <1>2, <1>3 DEF TaskTypes
<1> QED
  BY <1>4, <1>5 DEF new

LEMMA ReleaseTypes ==
  ASSUME waiters \in Seq(Runs), NEW r, NEW s \in Runs \union {NoRun}, Release(r, s)
  PROVE  slot' \in Runs \union {NoRun} /\ waiters' \in Seq(Runs)
<1>1. CASE waiters = <<>>
  BY <1>1 DEF Release
<1>2. CASE waiters # <<>>
  BY <1>2, HeadTailProperties DEF Release
<1> QED BY <1>1, <1>2

LEMMA ForgetTypes ==
  ASSUME CoTypes, NEW r \in Runs, NEW h \in [Tasks -> Runs \union {NoRun}],
         NEW ex \in SUBSET Tasks, Forget(r, h, ex)
  PROVE  /\ handle' \in [Tasks -> Runs \union {NoRun}]
         /\ executing' \subseteq Tasks
         /\ CoTypes'
BY NothingSeen DEF Forget, Unregister, CoTypes

LEMMA ExitTypes ==
  ASSUME CoTypes, waiters \in Seq(Runs), NEW r \in Runs,
         NEW h \in [Tasks -> Runs \union {NoRun}], NEW ex \in SUBSET Tasks,
         NEW s \in Runs \union {NoRun}, Exit(r, h, ex, s)
  PROVE  MemTypes' /\ CoTypes'
<1>1. slot' \in Runs \union {NoRun} /\ waiters' \in Seq(Runs)
  BY ReleaseTypes DEF Exit
<1> QED
  BY <1>1, ForgetTypes DEF Exit, MemTypes

LEMMA FlipTypes ==
  ASSUME TypeOK, NEW r \in Runs, NEW rows \in [Runs -> RowStates], Flip(r, rows)
  PROVE  /\ TaskTypes' /\ row' \in [Runs -> RowStates]
         /\ pc' \in [Runs -> PcStates]
         /\ cancel' = cancel /\ hit' = hit /\ outcome' = outcome
         /\ seen' \in [Runs -> SeenRows]
<1>1. TaskOf[r] \in Tasks
  BY SchedulerAssumption
<1>2. [kind |-> task[TaskOf[r]].kind, nextRun |-> task[TaskOf[r]].nextRun,
       ahead |-> task[TaskOf[r]].ahead] \in SeenRows
  BY <1>1, SeenOfTask, TypeParts
<1> QED
  BY <1>1, <1>2 DEF Flip, TypeOK, TaskTypes, RowStates, OpenRows, PcStates, Started

LEMMA RefuseTypes ==
  ASSUME TypeOK, NEW r \in Runs, NEW h \in [Tasks -> Runs \union {NoRun}],
         NEW ex \in SUBSET Tasks, NEW rows \in [Runs -> RowStates],
         NEW s \in Runs \union {NoRun}, Refuse(r, h, ex, rows, s)
  PROVE  /\ MemTypes' /\ CoTypes' /\ TaskTypes'
         /\ row' \in [Runs -> RowStates] /\ pc' \in [Runs -> PcStates]
<1>1. TaskOf[r] \in Tasks
  BY SchedulerAssumption
<1>2. MemTypes' /\ CoTypes'
  BY ExitTypes, TypeParts DEF Refuse, MemTypes
<1>3. TaskTypes'
  <2>1. CASE UNCHANGED <<task, unserved>>
    BY <2>1 DEF TypeOK, TaskTypes
  <2>2. CASE /\ task' = [task EXCEPT ![TaskOf[r]].status = "paused",
                                    ![TaskOf[r]].nextRun = "none"]
             /\ unserved' = [unserved EXCEPT ![TaskOf[r]] = "no"]
    <3>1. "paused" \in Statuses /\ "none" \in NextRuns
      BY DEF Statuses, NextRuns
    <3>2. /\ task' \in [Tasks -> TaskRows]
          /\ \A x \in Tasks : task'[x].counter < Threshold[x]
      BY <1>1, <2>2, <3>1, RowUpdate, TypeParts
    <3> QED
      BY <2>2, <3>2 DEF TypeOK, TaskTypes
  <2> QED
    BY <2>1, <2>2 DEF Refuse
<1>4. row' \in [Runs -> RowStates] /\ pc' \in [Runs -> PcStates]
  BY DEF Refuse, TypeOK, RowStates, PcStates
<1> QED
  BY <1>2, <1>3, <1>4

LEMMA AdmitTypes ==
  ASSUME TypeOK, NEW r \in Runs, NEW h \in [Tasks -> Runs \union {NoRun}],
         NEW ex \in SUBSET Tasks, NEW rows \in [Runs -> RowStates],
         NEW s \in Runs \union {NoRun}, NEW m \in {"slot", "direct", "forced"},
         Admit(r, h, ex, rows, s, m)
  PROVE  /\ MemTypes' /\ CoTypes' /\ TaskTypes'
         /\ row' \in [Runs -> RowStates] /\ pc' \in [Runs -> PcStates]
<1>1. MemTypes'
  BY DEF Admit, TypeOK, MemTypes
<1>2. mode' \in [Runs -> {"slot", "direct", "forced"}]
  BY DEF Admit, TypeOK
<1>3. CASE fg /\ m # "forced"
  BY <1>1, <1>2, <1>3 DEF Admit, TypeOK, CoTypes, TaskTypes, PcStates
<1>4. CASE ~(fg /\ m # "forced")
  <2>1. Flip(r, rows)
    BY <1>4 DEF Admit
  <2> QED
    BY <1>1, <1>2, <2>1, FlipTypes DEF TypeOK, CoTypes
<1> QED
  BY <1>3, <1>4

LEMMA EndsTypes ==
  ASSUME TypeOK, NEW r \in Runs, Ends(r)
  PROVE  MemTypes' /\ CoTypes' /\ pc' \in [Runs -> PcStates]
<1>1. MemTypes' /\ CoTypes'
  BY ExitTypes, TypeParts DEF Ends, MemTypes
<1> QED
  BY <1>1 DEF Ends, TypeOK, PcStates

LEMMA UnwindTypes ==
  ASSUME TypeOK, NEW r \in Runs, Unwind(r)
  PROVE  MemTypes' /\ CoTypes' /\ pc' \in [Runs -> PcStates]
<1>1. CASE mode[r] = "forced" \/ hit[r]
  BY <1>1, EndsTypes DEF Unwind
<1>2. CASE ~(mode[r] = "forced" \/ hit[r])
  <2>1. MemTypes' /\ pc' \in [Runs -> PcStates]
    BY <1>2 DEF Unwind, TypeOK, memVars, MemTypes, PcStates, Started
  <2>2. CoTypes'
    BY <1>2 DEF Unwind, TypeOK, CoTypes
  <2> QED
    BY <2>1, <2>2
<1> QED
  BY <1>1, <1>2

LEMMA RescheduleTypes ==
  ASSUME TypeOK, NEW r \in Runs, NEW new \in NextRuns, Reschedule(r, new)
  PROVE  /\ task' \in [Tasks -> TaskRows]
         /\ \A x \in Tasks : task'[x].counter < Threshold[x]
<1>1. TaskOf[r] \in Tasks
  BY SchedulerAssumption
<1>2. task[TaskOf[r]].nextRun \in NextRuns
  BY <1>1 DEF TypeOK, TaskRows
<1>3. PICK v \in NextRuns : task' = [task EXCEPT ![TaskOf[r]].nextRun = v]
  BY <1>2, FlushedType DEF Reschedule
<1> QED
  BY <1>1, <1>3, NextRunUpdate, TypeParts

\* A run that a handler of _execute_task_locked settles.
LEMMA SettleTypes ==
  ASSUME TypeOK, NEW r \in Runs, Unwind(r), NEW new \in NextRuns, NEW o \in RowStates,
         \/ UNCHANGED <<task, row>>
         \/ row' = [row EXCEPT ![r] = o] /\ Reschedule(r, new),
         UNCHANGED <<up, fgVars, unserved, newest>>
  PROVE  TypeOK'
<1>1. MemTypes' /\ CoTypes' /\ pc' \in [Runs -> PcStates]
  BY UnwindTypes
<1>2. TaskTypes'
  <2>1. CASE UNCHANGED <<task, row>>
    BY <2>1 DEF TypeOK, TaskTypes
  <2>2. CASE Reschedule(r, new)
    BY <2>2, RescheduleTypes DEF TypeOK, TaskTypes
  <2> QED
    BY <2>1, <2>2
<1>3. row' \in [Runs -> RowStates]
  BY DEF TypeOK
<1> QED
  BY <1>1, <1>2, <1>3 DEF TypeOK, MemTypes, CoTypes, TaskTypes, fgVars

LEMMA CommitTypes ==
  ASSUME TypeOK, NEW r \in Runs, NEW o \in {"none", "success", "error", "raised"}, Commit(r, o),
         UNCHANGED <<up, fgVars, unserved, newest>>
  PROVE  TypeOK'
<1> DEFINE t    == TaskOf[r]
           next == NextRunOf(seen[r].kind, seen[r].ahead)
           done == o # "raised" /\ seen[r].kind = "once" /\ next = "none"
           c    == Then[t]
           runs == IF o = "success" /\ c # NoTask /\ task[c].status # "deleted"
                      /\ ~HasChainCycle(c) /\ Free(c) # {}
                   THEN {NewRun(c)} ELSE {}
<1>1. t \in Tasks
  BY SchedulerAssumption
<1>2. CASE Gone(r)
  <2>1. Ends(r) /\ UNCHANGED <<task, row>>
    BY <1>2 DEF Commit
  <2> QED
    BY <2>1, EndsTypes DEF TypeOK, MemTypes, CoTypes, fgVars
<1>3. CASE ~Gone(r)
  <2>1. MemTypes' /\ CoTypes'
    <3>1. Exit(r, handle, executing, slot)
      BY <1>3 DEF Commit
    <3> QED
      BY <3>1, ExitTypes, TypeParts DEF MemTypes
  <2>2. row' \in [Runs -> RowStates]
    <3>1. row' = [row EXCEPT ![r] = IF o = "raised" THEN "error" ELSE o]
      BY <1>3 DEF Commit
    <3>2. (IF o = "raised" THEN "error" ELSE o) \in RowStates
      BY DEF RowStates
    <3> QED
      BY <3>1, <3>2 DEF TypeOK
  <2>3. pc' \in [Runs -> PcStates]
    <3>1. pc' = [x \in Runs |-> IF x = r THEN "none"
                                 ELSE IF x \in runs THEN "chained" ELSE pc[x]]
      BY <1>3 DEF Commit
    <3> QED
      BY <3>1 DEF TypeOK, PcStates
  <2>4. TaskTypes'
    <3>1. CASE UNCHANGED task
      BY <3>1 DEF TypeOK, TaskTypes
    <3>2. CASE \E v \in Flushed(task[t].nextRun, seen[r].nextRun, next) :
                 task' = [task EXCEPT ![t].nextRun = v,
                                      ![t].status = IF done THEN "completed" ELSE @]
      <4>1. task[t].nextRun \in NextRuns /\ task[t].status \in Statuses
        BY <1>1 DEF TypeOK, TaskRows
      <4>2. next \in NextRuns
        BY NextRunType DEF NextRuns
      <4>3. PICK v \in NextRuns, st \in Statuses :
              task' = [task EXCEPT ![t].nextRun = v, ![t].status = st]
        BY <3>2, <4>1, <4>2, FlushedType DEF Statuses
      <4>4. task' = [task EXCEPT ![t].status = st, ![t].nextRun = v]
        <5>1. task \in [Tasks -> TaskRows] /\ task[t] \in TaskRows
          BY <1>1 DEF TypeOK
        <5>2. [[task[t] EXCEPT !.nextRun = v] EXCEPT !.status = st]
              = [[task[t] EXCEPT !.status = st] EXCEPT !.nextRun = v]
          BY <5>1 DEF TaskRows
        <5> QED
          BY <1>1, <4>3, <5>1, <5>2
      <4> QED
        BY <1>1, <4>4, RowUpdate, TypeParts DEF TaskTypes
    <3> QED
      BY <1>3, <3>1, <3>2 DEF Commit
  <2> QED
    BY <2>1, <2>2, <2>3, <2>4 DEF TypeOK, MemTypes, CoTypes, TaskTypes, fgVars
<1> QED
  BY <1>2, <1>3

LEMMA SpawnTypes ==
  ASSUME TypeOK, NEW ts \in SUBSET Tasks, Spawn(ts)
  PROVE  MemTypes' /\ pc' \in [Runs -> PcStates]
BY DEF Spawn, TypeOK, MemTypes, PcStates

-----------------------------------------------------------------------------
(* Every step keeps the types. *)

LEMMA RunStepTypes ==
  ASSUME TypeOK, NEW r \in Runs, RunStep(r) PROVE TypeOK'
<1> USE DEF fgVars, dbVars, runVars, memVars
<1>0. TaskOf[r] \in Tasks
  BY SchedulerAssumption
<1>1. CASE Begin(r)
  <2> DEFINE t    == TaskOf[r]
             h    == [handle EXCEPT ![t] = r]
             ex   == IF pc[r] = "chained" THEN executing \union {t} ELSE executing
             rows == IF task[t].status = "deleted" THEN row
                     ELSE [row EXCEPT ![r] = "queued"]
             m    == IF mode[r] = "direct" /\ NeedsSlot(t) THEN "slot" ELSE mode[r]
             s    == IF m = "slot" THEN r ELSE slot
  <2>1. /\ h \in [Tasks -> Runs \union {NoRun}] /\ ex \in SUBSET Tasks
        /\ rows \in [Runs -> RowStates] /\ m \in {"slot", "direct", "forced"}
        /\ s \in Runs \union {NoRun}
    BY <1>0 DEF TypeOK, RowStates, OpenRows
  <2>2. newest' \in [Tasks -> Runs \union {NoRun}] /\ FlagTypes'
    BY <1>0, <1>1 DEF Begin, TypeOK, FlagTypes
  <2>3. CASE Refuse(r, h, ex, rows, s)
    BY <2>1, <2>2, <2>3, RefuseTypes, TypePartsNext DEF RowTypes
  <2>4. CASE Admit(r, h, ex, rows, s, m)
    <3> HIDE DEF h, ex, rows, m, s
    <3>1. /\ MemTypes' /\ CoTypes' /\ TaskTypes'
          /\ row' \in [Runs -> RowStates] /\ pc' \in [Runs -> PcStates]
      <4>1. CASE m = "slot"
        BY <2>1, <2>4, <4>1, AdmitTypes
      <4>2. CASE m = "direct"
        BY <2>1, <2>4, <4>2, AdmitTypes
      <4>3. CASE m = "forced"
        BY <2>1, <2>4, <4>3, AdmitTypes
      <4> QED
        BY <2>1, <4>1, <4>2, <4>3
    <3> QED
      BY <2>2, <3>1, TypePartsNext DEF RowTypes
  <2>5. CASE /\ pc' = [pc EXCEPT ![r] = "queued"]
             /\ row' = rows
             /\ mode' = [mode EXCEPT ![r] = m]
             /\ waiters' = Append(waiters, r)
             /\ handle' = h /\ executing' = ex
             /\ UNCHANGED <<task, unserved, cancel, hit, outcome, seen, slot>>
    <3>1. waiters' \in Seq(Runs)
      BY <2>5, AppendProperties DEF TypeOK
    <3> HIDE DEF h, ex, rows, m, s
    <3>2. MemTypes'
      BY <2>1, <2>5, <3>1 DEF TypeOK, MemTypes
    <3>3. CoTypes'
      BY <2>1, <2>5 DEF TypeOK, CoTypes
    <3>4. TaskTypes' /\ RowTypes'
      BY <2>1, <2>2, <2>5 DEF TypeOK, TaskTypes, RowTypes, PcStates
    <3> QED
      BY <2>2, <3>2, <3>3, <3>4, TypePartsNext
  <2> QED
    BY <1>1, <2>3, <2>4, <2>5 DEF Begin
<1>2. CASE DropChained(r)
  BY <1>2 DEF DropChained, TypeOK, PcStates
<1>3. CASE Acquire(r)
  <2>1. newest' \in [Tasks -> Runs \union {NoRun}] /\ FlagTypes'
    BY <1>0, <1>3 DEF Acquire, TypeOK, FlagTypes
  <2>2. /\ handle \in [Tasks -> Runs \union {NoRun}] /\ executing \in SUBSET Tasks
        /\ row \in [Runs -> RowStates] /\ slot \in Runs \union {NoRun}
    BY DEF TypeOK
  <2>3. CASE Refuse(r, handle, executing, row, slot)
    BY <2>1, <2>2, <2>3, RefuseTypes, TypePartsNext DEF RowTypes
  <2>4. CASE Admit(r, handle, executing, row, slot, "slot")
    BY <2>1, <2>2, <2>4, AdmitTypes, TypePartsNext DEF RowTypes
  <2> QED
    BY <1>3, <2>3, <2>4 DEF Acquire
<1>4. CASE OpenGate(r)
  <2>1. CASE Ends(r) /\ UNCHANGED dbVars
    BY <1>4, <2>1, EndsTypes DEF OpenGate, TypeOK, MemTypes, CoTypes
  <2>2. CASE /\ Flip(r, row)
             /\ newest' = [newest EXCEPT ![TaskOf[r]] = r]
             /\ UNCHANGED <<mode, memVars>>
    <3>1. row \in [Runs -> RowStates]
      BY DEF TypeOK
    <3>2. /\ TaskTypes' /\ row' \in [Runs -> RowStates]
          /\ pc' \in [Runs -> PcStates]
          /\ cancel' = cancel /\ hit' = hit /\ outcome' = outcome
          /\ seen' \in [Runs -> SeenRows]
      BY <2>2, <3>1, FlipTypes
    <3>3. CoTypes'
      BY <2>2, <3>2 DEF TypeOK, CoTypes
    <3>4. RowTypes'
      BY <1>0, <2>2, <3>2 DEF TypeOK, RowTypes
    <3>5. MemTypes' /\ FlagTypes'
      BY <1>4, <2>2 DEF OpenGate, TypeOK, MemTypes, FlagTypes
    <3> QED
      BY <3>2, <3>3, <3>4, <3>5, TypePartsNext
  <2> QED
    BY <1>4, <2>1, <2>2 DEF OpenGate
<1> DEFINE next == NextRunOf(seen[r].kind, seen[r].ahead)
<1>5. next \in NextRuns /\ "later" \in NextRuns
  BY NextRunType DEF NextRuns
<1>6. "skipped" \in RowStates /\ "none" \in RowStates /\ "aborted" \in RowStates
  BY DEF RowStates
<1>7. CASE Noop(r)
  BY <1>5, <1>6, <1>7, SettleTypes DEF Noop
<1>8. CASE Defer(r)
  BY <1>5, <1>6, <1>8, SettleTypes DEF Defer
<1>9. CASE Cancelled(r)
  <2>1. (IF hit[r] THEN "later" ELSE next) \in NextRuns
    BY <1>5
  <2> QED
    BY <1>6, <1>9, <2>1, SettleTypes DEF Cancelled
<1>10. CASE Produce(r)
  BY <1>10 DEF Produce, TypeOK, PcStates, Started
<1>11. CASE Finish(r)
  <2>1. outcome[r] \in {"none", "success", "error", "raised"}
    BY DEF TypeOK
  <2> QED
    BY <1>11, <2>1, CommitTypes DEF Finish
<1>12. CASE FinishForced(r)
  BY <1>12, CommitTypes DEF FinishForced
<1>13. CASE FinishUnwinding(r)
  BY <1>13, EndsTypes DEF FinishUnwinding, TypeOK, MemTypes, CoTypes
<1>14. CASE CancelledWaiting(r)
  <2>1. row' \in [Runs -> RowStates] /\ newest' = newest /\ FlagTypes'
    BY <1>6, <1>14 DEF CancelledWaiting, TypeOK, FlagTypes
  <2>2. TaskTypes'
    <3>1. CASE UNCHANGED task
      BY <1>14, <3>1 DEF CancelledWaiting, TypeOK, TaskTypes
    <3>2. CASE task' = [task EXCEPT ![TaskOf[r]].nextRun = "later"]
      <4>1. /\ task' \in [Tasks -> TaskRows]
            /\ \A x \in Tasks : task'[x].counter < Threshold[x]
        BY <1>0, <1>5, <3>2, NextRunUpdate, TypeParts
      <4> QED
        BY <1>14, <4>1 DEF CancelledWaiting, TypeOK, TaskTypes
    <3> QED
      BY <1>14, <3>1, <3>2 DEF CancelledWaiting, DeferIfDue
  <2>3. CASE Ends(r)
    BY <2>1, <2>2, <2>3, EndsTypes, TypePartsNext DEF RowTypes, TypeOK
  <2>4. CASE /\ pc' = [pc EXCEPT ![r] = "none"]
             /\ Forget(r, handle, executing)
             /\ \E i \in 1 .. Len(waiters) :
                  waiters[i] = r /\ waiters' = RemoveAt(waiters, i)
             /\ UNCHANGED slot
    <3>1. waiters' \in Seq(Runs)
      BY <2>4, RemoveAtProperties DEF TypeOK
    <3>2. MemTypes' /\ CoTypes'
      BY <2>4, <3>1, ForgetTypes, TypeParts DEF MemTypes
    <3>3. RowTypes'
      BY <2>1, <2>4 DEF TypeOK, RowTypes, PcStates
    <3> QED
      BY <2>1, <2>2, <3>2, <3>3, TypePartsNext
  <2> QED
    BY <1>14, <2>3, <2>4 DEF CancelledWaiting
<1> QED
  BY <1>1, <1>2, <1>3, <1>4, <1>7, <1>8, <1>9, <1>10, <1>11, <1>12, <1>13, <1>14
     DEF RunStep

\* Steps that write one row of scheduled_tasks as a whole.
LEMMA RowReplaced ==
  ASSUME TaskTypes, NEW t \in Tasks, NEW rec \in TaskRows, rec.counter < Threshold[t],
         task' = [task EXCEPT ![t] = rec], unserved' \in [Tasks -> {"no", "idle", "busy"}]
  PROVE  TaskTypes'
BY DEF TaskTypes

LEMMA RowRecord ==
  ASSUME NEW s \in Statuses, NEW k \in Kinds, NEW n \in NextRuns,
         NEW a \in BOOLEAN, NEW c \in Nat
  PROVE  [status |-> s, kind |-> k, nextRun |-> n, ahead |-> a, counter |-> c]
           \in TaskRows
BY DEF TaskRows

\* A row postponed to a later time.
LEMMA RowPostponed ==
  ASSUME TaskTypes, NEW t \in Tasks
  PROVE  /\ [task[t] EXCEPT !.nextRun = "later"] \in TaskRows
         /\ [task[t] EXCEPT !.nextRun = "later"].counter < Threshold[t]
<1>1. task[t] \in TaskRows /\ task[t].counter < Threshold[t]
  BY DEF TaskTypes
<1> QED
  BY <1>1 DEF TaskRows, NextRuns

LEMMA RequestTypes ==
  ASSUME TypeOK, NEW t \in Tasks, Request(t) PROVE TypeOK'
<1> USE DEF fgVars, dbVars, runVars, memVars
<1>0. /\ Threshold[t] \in Nat /\ 0 < Threshold[t] /\ KindOf[t] \in Kinds
      /\ task[t] \in TaskRows /\ task[t].counter < Threshold[t]
      /\ TaskTypes
  BY SchedulerAssumption, TypeParts DEF TypeOK
<1> DEFINE rest == /\ UNCHANGED <<up, fgVars, newest, pc, runVars, memVars>>
                   /\ row' \in [Runs -> RowStates]
                   /\ unserved' \in [Tasks -> {"no", "idle", "busy"}]
<1>1. ASSUME NEW rec \in TaskRows, rec.counter < Threshold[t],
             task' = [task EXCEPT ![t] = rec], rest
      PROVE  TypeOK'
  <2>1. TaskTypes'
    BY <1>0, <1>1, RowReplaced
  <2> QED
    BY <1>1, <2>1 DEF TypeOK, TaskTypes
<1>2. ASSUME NEW rec \in TaskRows, rec.counter < Threshold[t],
             task' = [task EXCEPT ![t] = rec],
             UNCHANGED <<up, fgVars, newest, pc, runVars, memVars, row, unserved>>
      PROVE  TypeOK'
  BY <1>1, <1>2 DEF TypeOK
<1> HIDE DEF rest
<1>3. CASE Pause(t)
  <2>1. [task[t] EXCEPT !.status = "paused"] \in TaskRows
    BY <1>0 DEF TaskRows, Statuses
  <2> QED
    BY <1>0, <1>2, <1>3, <2>1 DEF Pause, TaskRows
<1>4. CASE Resume(t)
  <2> DEFINE nr == IF task[t].kind \in Schedule
                   THEN NextRunOf(task[t].kind, task[t].ahead) ELSE task[t].nextRun
             rec == [[task[t] EXCEPT !.status = "active"] EXCEPT !.nextRun = nr]
  <2>1. nr \in NextRuns
    BY <1>0, NextRunType DEF TaskRows, NextRuns
  <2>2. task' = [task EXCEPT ![t] = rec]
    BY <1>0, <1>4 DEF Resume, TaskTypes, TaskRows
  <2>3. rec \in TaskRows /\ rec.counter = task[t].counter
    BY <1>0, <2>1 DEF TaskRows, Statuses
  <2>4. UNCHANGED <<up, fgVars, newest, pc, runVars, memVars, row, unserved>>
    BY <1>4 DEF Resume
  <2> QED
    BY <1>0, <1>2, <2>2, <2>3, <2>4
<1>5. ASSUME NEW k \in EditKinds, Create(t, k) PROVE TypeOK'
  <2>1. k \in Kinds
    BY SchedulerAssumption
  <2>2. PICK a \in BOOLEAN, st \in Statuses :
          task' = [task EXCEPT ![t] =
            [status |-> st, kind |-> k, nextRun |-> NextRunOf(k, a), ahead |-> a,
             counter |-> 0]]
    BY <1>5 DEF Create, Statuses
  <2> DEFINE rec == [status |-> st, kind |-> k, nextRun |-> NextRunOf(k, a),
                     ahead |-> a, counter |-> 0]
  <2>3. rec \in TaskRows /\ rec.counter = 0
    BY <2>1, NextRunType DEF TaskRows, NextRuns
  <2>4. UNCHANGED <<up, fgVars, newest, pc, runVars, memVars, row, unserved>>
    BY <1>5 DEF Create
  <2> QED
    BY <1>0, <1>2, <2>2, <2>3, <2>4
<1>6. ASSUME NEW k \in EditKinds, NEW resched \in BOOLEAN, Update(t, k, resched)
      PROVE  TypeOK'
  <2>1. k \in Kinds
    BY SchedulerAssumption
  <2>2. PICK a \in BOOLEAN :
          task' = [task EXCEPT ![t].kind = k, ![t].ahead = a,
            ![t].nextRun = IF resched /\ task[t].status = "active" /\ k \in Schedule
                           THEN NextRunOf(k, a) ELSE @]
    BY <1>0, <1>6 DEF Update, TaskRows
  <2> DEFINE nr == IF resched /\ task[t].status = "active" /\ k \in Schedule
                   THEN NextRunOf(k, a) ELSE task[t].nextRun
             rec == [[[task[t] EXCEPT !.kind = k] EXCEPT !.ahead = a]
                     EXCEPT !.nextRun = nr]
  <2>3. nr \in NextRuns
    BY <1>0, NextRunType DEF TaskRows, NextRuns
  <2>4. task' = [task EXCEPT ![t] = rec]
    BY <1>0, <2>2 DEF TaskTypes, TaskRows
  <2>5. rec \in TaskRows /\ rec.counter = task[t].counter
    BY <1>0, <2>1, <2>3 DEF TaskRows
  <2>6. UNCHANGED <<up, fgVars, newest, pc, runVars, memVars, row, unserved>>
    BY <1>6 DEF Update
  <2> QED
    BY <1>0, <1>2, <2>4, <2>5, <2>6
<1>7. CASE Revert(t)
  <2>1. PICK st \in {"active", "paused"} : task' = [task EXCEPT ![t] = DefaultRow(t, st)]
    BY <1>7 DEF Revert
  <2>2. DefaultRow(t, st) \in TaskRows /\ DefaultRow(t, st).counter = 0
    BY <1>0, NextRunType DEF DefaultRow, TaskRows, Statuses, NextRuns
  <2>3. rest
    BY <1>7 DEF Revert, TypeOK, rest
  <2> QED
    BY <1>0, <1>1, <2>1, <2>2, <2>3
<1>8. CASE Delete(t)
  <2> DEFINE rec == [status |-> "deleted", kind |-> KindOf[t], nextRun |-> "none",
                     ahead |-> FALSE, counter |-> 0]
  <2>1. rec \in TaskRows /\ rec.counter = 0
    BY <1>0 DEF TaskRows, Statuses, NextRuns
  <2>2. task' = [task EXCEPT ![t] = rec]
    BY <1>8 DEF Delete
  <2>3. rest
    BY <1>8 DEF Delete, TypeOK, RowStates, rest
  <2> QED
    BY <1>0, <1>1, <2>1, <2>2, <2>3
<1>9. CASE RunNow(t)
  BY <1>9, SpawnTypes DEF RunNow, TypeOK, MemTypes
<1>10. CASE ForceRun(t)
  BY <1>10 DEF ForceRun, TypeOK, PcStates
<1>11. CASE Webhook(t)
  <2>1. CASE /\ task' = [task EXCEPT ![t].status = "paused", ![t].nextRun = "none"]
             /\ UNCHANGED <<pc, memVars>>
    <3>1. "paused" \in Statuses /\ "none" \in NextRuns
      BY DEF Statuses, NextRuns
    <3>2. /\ task' \in [Tasks -> TaskRows]
          /\ \A x \in Tasks : task'[x].counter < Threshold[x]
      BY <1>0, <2>1, <3>1, RowUpdate
    <3> QED
      BY <1>11, <2>1, <3>2 DEF Webhook, TypeOK
  <2>2. CASE Spawn({t}) /\ UNCHANGED task
    BY <1>11, <2>2, SpawnTypes DEF Webhook, TypeOK, MemTypes
  <2> QED
    BY <1>11, <2>1, <2>2 DEF Webhook
<1>12. CASE Stop(t)
  <2>1. cancel' \in [Runs -> BOOLEAN] /\ executing' \subseteq Tasks
    BY <1>12 DEF Stop, TypeOK
  <2>2. row' \in [Runs -> RowStates]
    BY <1>12 DEF Stop, TypeOK, RowStates
  <2> QED
    BY <1>12, <2>1, <2>2 DEF Stop, TypeOK
<1> QED
  BY <1>3, <1>4, <1>5, <1>6, <1>7, <1>8, <1>9, <1>10, <1>11, <1>12 DEF Request

\* Steps of nobody's request, and of no run.
LEMMA WorldTypes ==
  ASSUME TypeOK,
         \/ \E t \in Tasks : Tick(t)
         \/ \E e \in Events : HandleEvent(e)
         \/ \E r \in Runs : Reload(r) \/ Monitor(r) \/ FinishFails(r)
         \/ CheckDue \/ ForegroundBegin \/ ForegroundEnd \/ StopBackground
         \/ Crash \/ Start
  PROVE  TypeOK'
<1> USE DEF fgVars, dbVars, runVars, memVars
<1>0. TaskTypes
  BY TypeParts
<1>1. ASSUME NEW t \in Tasks, Tick(t) PROVE TypeOK'
  <2> DEFINE rec == [[task[t] EXCEPT !.nextRun = "due"] EXCEPT !.ahead = FALSE]
  <2>1. task[t] \in TaskRows /\ task[t].counter < Threshold[t]
    BY DEF TypeOK
  <2>2. rec \in TaskRows /\ rec.counter = task[t].counter
    BY <2>1 DEF TaskRows, NextRuns
  <2>3. task' = [task EXCEPT ![t] = rec]
    BY <1>1 DEF Tick, TypeOK, TaskRows
  <2>4. TaskTypes'
    BY <1>0, <1>1, <2>1, <2>2, <2>3, RowReplaced DEF Tick, TypeOK
  <2>5. seen' \in [Runs -> SeenRows]
    BY <1>1 DEF Tick, TypeOK, SeenRows, NextRuns
  <2> QED
    BY <1>1, <2>4, <2>5 DEF Tick, TypeOK, TaskTypes
<1>2. ASSUME NEW e \in Events, HandleEvent(e) PROVE TypeOK'
  <2>1. PICK subs \in SUBSET Tasks, fired \in SUBSET Tasks :
          /\ task' = [t \in Tasks |-> IF t \in subs THEN Counted(t) ELSE task[t]]
          /\ Spawn(fired \ executing)
    BY <1>2 DEF HandleEvent
  <2>2. unserved' \in [Tasks -> {"no", "idle", "busy"}]
    BY <1>2 DEF HandleEvent, TypeOK
  <2>3. ASSUME NEW t \in Tasks
        PROVE  Counted(t) \in TaskRows /\ Counted(t).counter < Threshold[t]
    <3>1. task[t] \in TaskRows /\ Threshold[t] \in Nat \ {0}
      BY SchedulerAssumption DEF TypeOK
    <3>2. CASE task[t].counter + 1 >= Threshold[t]
      <4> DEFINE rec == [[task[t] EXCEPT !.counter = 0] EXCEPT !.nextRun = "due"]
      <4>1. rec \in TaskRows /\ rec.counter = 0
        BY <3>1 DEF TaskRows, NextRuns
      <4>2. Counted(t) = rec
        BY <3>1, <3>2 DEF Counted, TaskRows
      <4> QED
        BY <3>1, <4>1, <4>2
    <3>3. CASE ~(task[t].counter + 1 >= Threshold[t])
      BY <3>1, <3>3 DEF Counted, TaskRows
    <3> QED
      BY <3>2, <3>3
  <2>4. TaskTypes'
    BY <1>0, <2>1, <2>2, <2>3 DEF TaskTypes
  <2>5. MemTypes' /\ pc' \in [Runs -> PcStates]
    <3>1. fired \ executing \in SUBSET Tasks
      OBVIOUS
    <3> QED
      BY <2>1, <3>1, SpawnTypes
  <2> QED
    BY <1>2, <2>4, <2>5 DEF HandleEvent, TypeOK, TaskTypes, MemTypes
<1>3. ASSUME NEW r \in Runs, Reload(r) PROVE TypeOK'
  <2>1. [kind |-> task[TaskOf[r]].kind, nextRun |-> task[TaskOf[r]].nextRun,
         ahead |-> task[TaskOf[r]].ahead] \in SeenRows
    BY <1>0, SchedulerAssumption, SeenOfTask
  <2> QED
    BY <1>3, <2>1 DEF Reload, TypeOK
<1>4. ASSUME NEW r \in Runs, Monitor(r) PROVE TypeOK'
  BY <1>4 DEF Monitor, TypeOK
<1>5. ASSUME NEW r \in Runs, FinishFails(r) PROVE TypeOK'
  BY <1>5, EndsTypes DEF FinishFails, TypeOK, MemTypes, CoTypes
<1>6. CASE CheckDue
  <2>1. CASE fg
    <3>1. PICK due : task' = [t \in Tasks |->
            IF t \in due THEN [task[t] EXCEPT !.nextRun = "later"] ELSE task[t]]
      BY <1>6, <2>1 DEF CheckDue
    <3>2. ASSUME NEW t \in Tasks
          PROVE  /\ [task[t] EXCEPT !.nextRun = "later"] \in TaskRows
                 /\ [task[t] EXCEPT !.nextRun = "later"].counter < Threshold[t]
      BY <1>0, RowPostponed
    <3>3. TaskTypes'
      BY <1>0, <1>6, <3>1, <3>2 DEF TaskTypes, CheckDue
    <3> QED
      BY <1>6, <2>1, <3>3 DEF CheckDue, TypeOK, TaskTypes
  <2>2. CASE ~fg
    <3>1. PICK due \in SUBSET Tasks : Spawn(due)
      BY <1>6, <2>2 DEF CheckDue
    <3>2. MemTypes' /\ pc' \in [Runs -> PcStates]
      BY <3>1, SpawnTypes
    <3> QED
      BY <1>6, <2>2, <3>2 DEF CheckDue, TypeOK, MemTypes
  <2> QED
    BY <2>1, <2>2
<1>7. CASE ForegroundBegin
  BY <1>7 DEF ForegroundBegin, TypeOK
<1>8. CASE ForegroundEnd
  BY <1>8 DEF ForegroundEnd, TypeOK
<1>9. CASE StopBackground
  <2>1. row' \in [Runs -> RowStates]
    BY <1>9 DEF StopBackground, Aborted, TypeOK, RowStates
  <2> QED
    BY <1>9, <2>1 DEF StopBackground, TypeOK
<1>10. CASE Crash
  BY <1>10, NothingSeen, EmptySeq DEF Crash, TypeOK, PcStates
<1>11. CASE Start
  <2>1. row' \in [Runs -> RowStates]
    BY <1>11 DEF Start, Aborted, TypeOK, RowStates
  <2>2. ASSUME NEW t \in Tasks
        PROVE  /\ [task[t] EXCEPT !.nextRun = "later"] \in TaskRows
               /\ [task[t] EXCEPT !.nextRun = "later"].counter < Threshold[t]
    BY <1>0, RowPostponed
  <2>3. TaskTypes'
    BY <1>0, <1>11, <2>2 DEF Start, PushOverdue, TaskTypes
  <2> QED
    BY <1>11, <2>1, <2>3 DEF Start, TypeOK, TaskTypes
<1> QED
  BY <1>1, <1>2, <1>3, <1>4, <1>5, <1>6, <1>7, <1>8, <1>9, <1>10, <1>11

LEMMA InitTypes == Init => TypeOK
<1> SUFFICES ASSUME Init PROVE TypeOK
  OBVIOUS
<1>1. ASSUME NEW t \in Tasks
      PROVE  /\ task[t] \in TaskRows /\ task[t].counter < Threshold[t]
  <2>1. KindOf[t] \in Kinds /\ Threshold[t] \in Nat \ {0}
    BY SchedulerAssumption
  <2>4. NextRunOf(KindOf[t], TRUE) \in NextRuns
    BY NextRunType DEF NextRuns
  <2>2. task[t] = [status |-> "active", kind |-> KindOf[t],
                   nextRun |-> NextRunOf(KindOf[t], TRUE),
                   ahead |-> KindOf[t] = "once", counter |-> 0]
    BY DEF Init
  <2>3. "active" \in Statuses /\ 0 \in Nat
    BY DEF Statuses
  <2>5. task[t] \in TaskRows
    <3>1. PICK a \in BOOLEAN : a = (KindOf[t] = "once")
      OBVIOUS
    <3>2. PICK n \in NextRuns : n = NextRunOf(KindOf[t], TRUE)
      BY <2>4
    <3>3. [status |-> "active", kind |-> KindOf[t], nextRun |-> n,
           ahead |-> a, counter |-> 0] \in TaskRows
      BY <2>1, <2>3, RowRecord
    <3>4. task[t] = [status |-> "active", kind |-> KindOf[t], nextRun |-> n,
                     ahead |-> a, counter |-> 0]
      BY <2>2, <3>1, <3>2, Zenon
    <3> QED
      BY <3>3, <3>4
  <2> QED
    BY <2>1, <2>2, <2>5
<1>2. task \in [Tasks -> TaskRows]
  BY <1>1 DEF Init
<1> QED
  BY <1>1, <1>2, NothingSeen, EmptySeq DEF Init, TypeOK, RowStates, PcStates

LEMMA StepTypes == TypeOK /\ [Next]_vars => TypeOK'
<1> SUFFICES ASSUME TypeOK, [Next]_vars PROVE TypeOK'
  OBVIOUS
<1>1. CASE UNCHANGED vars
  BY <1>1 DEF vars, TypeOK
<1>2. CASE Next
  BY <1>2, RunStepTypes, RequestTypes, WorldTypes DEF Next
<1> QED
  BY <1>1, <1>2

\* The types, and each event counter below its threshold: no interleaving of
\* events, edits and runs carries one past it.
THEOREM TypeCorrect == Spec => []TypeOK
BY InitTypes, StepTypes, PTL DEF Spec

-----------------------------------------------------------------------------
(* The slot.  Four lemmas say what the steps of the protocol around the    *)
(* semaphore do to it: a step that leaves it alone, the end of a run that  *)
(* is not waiting, the arrival in the queue, the departure from it.        *)

LEMMA WaitersAreRuns ==
  ASSUME TypeOK PROVE \A i \in 1 .. Len(waiters) : waiters[i] \in Runs
<1>1. waiters \in Seq(Runs)
  BY DEF TypeOK
<1> QED
  BY <1>1, ElementOfSeq

LEMMA SlotKept ==
  ASSUME TypeOK, SlotDiscipline, slot' = slot, waiters' = waiters,
         \A x \in Runs :
           /\ InSlot(x)' <=> InSlot(x)
           /\ pc'[x] = "queued" <=> pc[x] = "queued"
           /\ pc[x] = "queued" /\ mode[x] = "slot" => mode'[x] = "slot"
  PROVE  SlotDiscipline'
<1>1. slot \in Runs \union {NoRun}
  BY DEF TypeOK
<1>2. \A x \in Runs : InSlot(x)' => slot' = x
  BY DEF SlotDiscipline
<1>3. ASSUME slot' # NoRun
      PROVE  mode'[slot'] = "slot" /\ (InSlot(slot)' \/ pc'[slot'] = "queued")
  <2>1. slot \in Runs /\ mode[slot] = "slot" /\ (InSlot(slot) \/ pc[slot] = "queued")
    BY <1>1, <1>3 DEF SlotDiscipline
  <2> QED
    BY <2>1 DEF InSlot
<1>4. \A x \in Runs : pc'[x] = "queued" =>
        slot' = x \/ \E i \in 1 .. Len(waiters') : waiters'[i] = x
  BY DEF SlotDiscipline
<1>5. \A i \in 1 .. Len(waiters') :
        /\ pc'[waiters'[i]] = "queued" /\ mode'[waiters'[i]] = "slot"
        /\ waiters'[i] # slot'
  BY WaitersAreRuns DEF SlotDiscipline
<1>6. /\ slot' = NoRun => waiters' = <<>>
      /\ \A i, j \in 1 .. Len(waiters') : waiters'[i] = waiters'[j] => i = j
  BY DEF SlotDiscipline
<1> QED
  BY <1>2, <1>3, <1>4, <1>5, <1>6 DEF SlotDiscipline

LEMMA SlotLeft ==
  ASSUME TypeOK, SlotDiscipline, NEW r \in Runs,
         \A i \in 1 .. Len(waiters) : waiters[i] # r,
         pc'[r] = "none", mode'[r] = "direct", Release(r, slot),
         \A x \in Runs \ {r} :
           /\ mode'[x] = mode[x]
           /\ pc'[x] = pc[x] \/ (pc[x] = "none" /\ pc'[x] = "chained")
  PROVE  SlotDiscipline'
<1> USE DEF Started
<1>0. /\ slot \in Runs \union {NoRun} /\ waiters \in Seq(Runs)
      /\ NoRun \notin Runs
  BY SchedulerAssumption DEF TypeOK
<1>1. CASE slot # r
  <2>1. slot' = slot /\ waiters' = waiters
    BY <1>1 DEF Release
  <2>2. ~InSlot(r)
    BY <1>1 DEF SlotDiscipline
  <2>3. pc[r] # "queued"
    BY <1>1 DEF SlotDiscipline
  <2>4. ASSUME NEW x \in Runs
        PROVE  /\ InSlot(x)' <=> InSlot(x)
               /\ pc'[x] = "queued" <=> pc[x] = "queued"
               /\ pc[x] = "queued" /\ mode[x] = "slot" => mode'[x] = "slot"
    BY <2>2, <2>3 DEF InSlot
  <2> QED
    BY <2>1, <2>4, SlotKept
<1>2. CASE slot = r /\ waiters = <<>>
  <2>1. slot' = NoRun /\ waiters' = <<>>
    BY <1>2 DEF Release
  <2>2. ASSUME NEW x \in Runs PROVE ~InSlot(x)' /\ pc'[x] # "queued"
    BY <1>2 DEF InSlot, SlotDiscipline
  <2> QED
    BY <2>1, <2>2 DEF SlotDiscipline
<1>3. CASE slot = r /\ waiters # <<>>
  <2> DEFINE w == waiters[1]
  <2>1. /\ Len(waiters) \in Nat /\ Len(waiters) > 0
        /\ slot' = w /\ waiters' = Tail(waiters)
    BY <1>0, <1>3, EmptySeq DEF Release
  <2>2. /\ Len(waiters') = Len(waiters) - 1
        /\ \A i \in 1 .. Len(waiters') : waiters'[i] = waiters[i + 1]
    BY <1>0, <1>3, <2>1, HeadTailProperties
  <2>3. /\ w \in Runs /\ w # r /\ pc'[w] = "queued" /\ mode'[w] = "slot"
    BY <2>1, WaitersAreRuns DEF SlotDiscipline
  <2>4. ASSUME NEW x \in Runs PROVE InSlot(x)' => slot' = x
    BY <1>3 DEF InSlot, SlotDiscipline
  <2>5. ASSUME NEW x \in Runs, pc'[x] = "queued"
        PROVE  slot' = x \/ \E i \in 1 .. Len(waiters') : waiters'[i] = x
    <3>1. x # r /\ pc[x] = "queued"
      BY <2>5
    <3>2. PICK i \in 1 .. Len(waiters) : waiters[i] = x
      BY <1>3, <3>1 DEF SlotDiscipline
    <3>3. CASE i = 1
      BY <2>1, <3>2, <3>3
    <3>4. CASE i # 1
      <4>1. i - 1 \in 1 .. Len(waiters') /\ waiters'[i - 1] = x
        BY <2>1, <2>2, <3>2, <3>4
      <4> QED
        BY <4>1
    <3> QED
      BY <3>3, <3>4
  <2>6. ASSUME NEW i \in 1 .. Len(waiters')
        PROVE  /\ pc'[waiters'[i]] = "queued" /\ mode'[waiters'[i]] = "slot"
               /\ waiters'[i] # slot'
    <3>1. i + 1 \in 1 .. Len(waiters) /\ 1 \in 1 .. Len(waiters) /\ i + 1 # 1
      BY <2>1, <2>2
    <3>2. /\ waiters[i + 1] \in Runs /\ waiters[i + 1] # r
          /\ pc[waiters[i + 1]] = "queued" /\ mode[waiters[i + 1]] = "slot"
          /\ waiters[i + 1] # w
      BY <3>1, WaitersAreRuns DEF SlotDiscipline
    <3> QED
      BY <2>1, <2>2, <3>2
  <2>7. ASSUME NEW i \in 1 .. Len(waiters'), NEW j \in 1 .. Len(waiters'),
               waiters'[i] = waiters'[j]
        PROVE  i = j
    <3>1. /\ i + 1 \in 1 .. Len(waiters) /\ j + 1 \in 1 .. Len(waiters)
          /\ waiters[i + 1] = waiters[j + 1]
      BY <2>1, <2>2, <2>7
    <3>2. i + 1 = j + 1
      BY <3>1 DEF SlotDiscipline
    <3> QED
      BY <3>2
  <2>8. slot' # NoRun
    BY <1>0, <2>1, <2>3
  <2> QED
    BY <2>1, <2>3, <2>4, <2>5, <2>6, <2>7, <2>8 DEF SlotDiscipline
<1> QED
  BY <1>1, <1>2, <1>3

LEMMA SlotQueued ==
  ASSUME TypeOK, SlotDiscipline, NEW r \in Runs, pc[r] \in {"spawned", "chained"},
         slot # NoRun, slot' = slot, waiters' = Append(waiters, r),
         pc' = [pc EXCEPT ![r] = "queued"], mode' = [mode EXCEPT ![r] = "slot"]
  PROVE  SlotDiscipline'
<1>0. /\ slot \in Runs /\ waiters \in Seq(Runs)
      /\ pc \in [Runs -> PcStates] /\ mode \in [Runs -> {"slot", "direct", "forced"}]
  BY DEF TypeOK
<1>1. /\ Len(waiters) \in Nat /\ Len(waiters') = Len(waiters) + 1
      /\ \A i \in 1 .. Len(waiters) : waiters'[i] = waiters[i]
      /\ waiters'[Len(waiters')] = r
  BY <1>0, AppendProperties, LenProperties
<1>2. slot # r
  BY <1>0 DEF SlotDiscipline, InSlot, Started
<1>3. \A i \in 1 .. Len(waiters) : waiters[i] \in Runs /\ waiters[i] # r
  BY WaitersAreRuns DEF SlotDiscipline
<1>4. ASSUME NEW x \in Runs PROVE InSlot(x)' => slot' = x
  BY <1>0 DEF InSlot, SlotDiscipline, Started
<1>5. mode'[slot'] = "slot" /\ (InSlot(slot)' \/ pc'[slot'] = "queued")
  BY <1>0, <1>2 DEF InSlot, SlotDiscipline
<1>6. ASSUME NEW x \in Runs, pc'[x] = "queued"
      PROVE  slot' = x \/ \E i \in 1 .. Len(waiters') : waiters'[i] = x
  <2>1. CASE x = r
    <3>1. Len(waiters') \in 1 .. Len(waiters')
      BY <1>1
    <3> QED
      BY <1>1, <2>1, <3>1
  <2>2. CASE x # r
    <3>1. slot = x \/ \E i \in 1 .. Len(waiters) : waiters[i] = x
      BY <1>0, <1>6, <2>2 DEF SlotDiscipline
    <3>2. \A i \in 1 .. Len(waiters) : i \in 1 .. Len(waiters')
      BY <1>1
    <3> QED
      BY <1>1, <3>1, <3>2
  <2> QED
    BY <2>1, <2>2
<1>7. ASSUME NEW i \in 1 .. Len(waiters')
      PROVE  \/ i \in 1 .. Len(waiters) /\ waiters'[i] = waiters[i] /\ waiters'[i] # r
             \/ i = Len(waiters') /\ waiters'[i] = r
  BY <1>1, <1>3
<1>8. ASSUME NEW i \in 1 .. Len(waiters')
      PROVE  /\ pc'[waiters'[i]] = "queued" /\ mode'[waiters'[i]] = "slot"
             /\ waiters'[i] # slot'
  <2>1. CASE i \in 1 .. Len(waiters) /\ waiters'[i] = waiters[i] /\ waiters'[i] # r
    BY <1>0, <1>3, <2>1 DEF SlotDiscipline
  <2>2. CASE waiters'[i] = r
    BY <1>0, <1>2, <2>2
  <2> QED
    BY <1>7, <2>1, <2>2
<1>9. ASSUME NEW i \in 1 .. Len(waiters'), NEW j \in 1 .. Len(waiters'),
             waiters'[i] = waiters'[j]
      PROVE  i = j
  BY <1>7, <1>9 DEF SlotDiscipline
<1> HIDE DEF InSlot
<1> QED
  BY <1>0, <1>4, <1>5, <1>6, <1>8, <1>9, SchedulerAssumption DEF SlotDiscipline

LEMMA SlotUnqueued ==
  ASSUME TypeOK, SlotDiscipline, NEW r \in Runs, pc[r] = "queued",
         NEW k \in 1 .. Len(waiters), waiters[k] = r,
         slot' = slot, waiters' = RemoveAt(waiters, k),
         pc' = [pc EXCEPT ![r] = "none"], mode' = [mode EXCEPT ![r] = "direct"]
  PROVE  SlotDiscipline'
<1> DEFINE old(i) == IF i < k THEN i ELSE i + 1
<1>0. /\ slot \in Runs \union {NoRun} /\ waiters \in Seq(Runs) /\ NoRun \notin Runs
      /\ pc \in [Runs -> PcStates] /\ mode \in [Runs -> {"slot", "direct", "forced"}]
  BY SchedulerAssumption DEF TypeOK
<1>1. /\ Len(waiters) \in Nat /\ Len(waiters') = Len(waiters) - 1
      /\ \A i \in 1 .. Len(waiters') :
           waiters'[i] = IF i < k THEN waiters[i] ELSE waiters[i + 1]
  BY <1>0, RemoveAtProperties, LenProperties
<1>2. \A i \in 1 .. Len(waiters') :
        /\ old(i) \in 1 .. Len(waiters) /\ old(i) # k
        /\ waiters'[i] = waiters[old(i)]
  BY <1>1
<1>3. \A i, j \in 1 .. Len(waiters') : old(i) = old(j) => i = j
  BY <1>1
<1>4. \A j \in 1 .. Len(waiters) \ {k} : \E i \in 1 .. Len(waiters') : old(i) = j
  <2> TAKE j \in 1 .. Len(waiters) \ {k}
  <2>1. CASE j < k
    <3>1. j \in 1 .. Len(waiters') /\ old(j) = j
      BY <1>1, <2>1
    <3> QED
      BY <3>1
  <2>2. CASE ~(j < k)
    <3>1. j - 1 \in 1 .. Len(waiters') /\ old(j - 1) = j
      BY <1>1, <2>2
    <3> QED
      BY <3>1
  <2> QED
    BY <2>1, <2>2
<1> HIDE DEF old
<1>5. slot # r /\ slot # NoRun
  <2>1. waiters # <<>>
    BY <1>1
  <2> QED
    BY <2>1 DEF SlotDiscipline
<1>6. ASSUME NEW x \in Runs PROVE InSlot(x)' => slot' = x
  BY <1>0 DEF InSlot, SlotDiscipline, Started
<1>7. mode'[slot'] = "slot" /\ (InSlot(slot)' \/ pc'[slot'] = "queued")
  BY <1>0, <1>5 DEF InSlot, SlotDiscipline
<1>8. ASSUME NEW x \in Runs, pc'[x] = "queued"
      PROVE  slot' = x \/ \E i \in 1 .. Len(waiters') : waiters'[i] = x
  <2>1. x # r /\ pc[x] = "queued"
    BY <1>0, <1>8
  <2>2. slot = x \/ \E j \in 1 .. Len(waiters) \ {k} : waiters[j] = x
    BY <2>1 DEF SlotDiscipline
  <2> QED
    BY <1>2, <1>4, <2>2
<1>9. ASSUME NEW i \in 1 .. Len(waiters')
      PROVE  /\ pc'[waiters'[i]] = "queued" /\ mode'[waiters'[i]] = "slot"
             /\ waiters'[i] # slot'
  <2>1. old(i) \in 1 .. Len(waiters) /\ old(i) # k /\ waiters'[i] = waiters[old(i)]
    BY <1>2
  <2>2. waiters[old(i)] \in Runs /\ waiters[old(i)] # r
    BY <2>1, WaitersAreRuns DEF SlotDiscipline
  <2> QED
    BY <1>0, <2>1, <2>2 DEF SlotDiscipline
<1>10. ASSUME NEW i \in 1 .. Len(waiters'), NEW j \in 1 .. Len(waiters'),
              waiters'[i] = waiters'[j]
       PROVE  i = j
  BY <1>2, <1>3, <1>10 DEF SlotDiscipline
<1> QED
  BY <1>5, <1>6, <1>7, <1>8, <1>9, <1>10 DEF SlotDiscipline

LEMMA SlotEnds ==
  ASSUME TypeOK, SlotDiscipline, NEW r \in Runs, Ends(r),
         pc[r] # "queued" \/ slot = r
  PROVE  SlotDiscipline'
<1>1. \A i \in 1 .. Len(waiters) : waiters[i] # r
  BY DEF SlotDiscipline
<1>2. /\ pc' = [pc EXCEPT ![r] = "none"] /\ mode' = [mode EXCEPT ![r] = "direct"]
      /\ Release(r, slot)
  BY DEF Ends, Exit, Forget
<1>3. /\ pc'[r] = "none" /\ mode'[r] = "direct"
      /\ \A x \in Runs \ {r} : mode'[x] = mode[x] /\ pc'[x] = pc[x]
  BY <1>2 DEF TypeOK
<1> QED
  BY <1>1, <1>2, <1>3, SlotLeft

LEMMA SlotSpawn ==
  ASSUME TypeOK, SlotDiscipline, NEW ts \in SUBSET Tasks, Spawn(ts), mode' = mode
  PROVE  SlotDiscipline'
<1>1. \A t \in ts : NewRun(t) \in Runs /\ pc[NewRun(t)] = "none"
  BY NewRunFree DEF Spawn, Live
<1>2. slot' = slot /\ waiters' = waiters
  BY DEF Spawn
<1>3. ASSUME NEW x \in Runs
      PROVE  pc'[x] = pc[x] \/ (pc[x] = "none" /\ pc'[x] = "spawned")
  BY <1>1 DEF Spawn
<1>4. ASSUME NEW x \in Runs
      PROVE  /\ InSlot(x)' <=> InSlot(x)
             /\ pc'[x] = "queued" <=> pc[x] = "queued"
             /\ pc[x] = "queued" /\ mode[x] = "slot" => mode'[x] = "slot"
  BY <1>3 DEF InSlot, Started
<1> QED
  BY <1>2, <1>4, SlotKept

LEMMA SlotBegin ==
  ASSUME TypeOK, SlotDiscipline, NEW r \in Runs, Begin(r) PROVE SlotDiscipline'
<1> DEFINE t == TaskOf[r]
           h == [handle EXCEPT ![t] = r]
           ex == IF pc[r] = "chained" THEN executing \union {t} ELSE executing
           rows == IF task[t].status = "deleted" THEN row ELSE [row EXCEPT ![r] = "queued"]
           m == IF mode[r] = "direct" /\ NeedsSlot(t) THEN "slot" ELSE mode[r]
           s == IF m = "slot" THEN r ELSE slot
<1>0. /\ slot \in Runs \union {NoRun} /\ NoRun \notin Runs
      /\ pc \in [Runs -> PcStates] /\ mode \in [Runs -> {"slot", "direct", "forced"}]
  BY SchedulerAssumption DEF TypeOK
<1>1. pc[r] \in {"spawned", "chained"}
  BY DEF Begin
<1>2. slot # r /\ ~InSlot(r)
  BY <1>0, <1>1 DEF SlotDiscipline, InSlot, Started
<1>3. CASE m = "slot" /\ slot # NoRun
  <2>1. /\ pc' = [pc EXCEPT ![r] = "queued"] /\ mode' = [mode EXCEPT ![r] = "slot"]
        /\ waiters' = Append(waiters, r) /\ slot' = slot
    BY <1>3 DEF Begin
  <2> QED
    BY <1>1, <1>3, <2>1, SlotQueued
<1>4. CASE m # "slot" \/ slot = NoRun
  <2>0. Refuse(r, h, ex, rows, s) \/ Admit(r, h, ex, rows, s, m)
    BY <1>4 DEF Begin
  <2>1. CASE Refuse(r, h, ex, rows, s)
    <3>1. /\ pc' = [pc EXCEPT ![r] = "none"] /\ mode' = [mode EXCEPT ![r] = "direct"]
          /\ Release(r, s)
      BY <2>1 DEF Refuse, Exit, Forget
    <3>2. slot' = slot /\ waiters' = waiters
      <4>1. CASE m = "slot"
        <5>1. slot = NoRun /\ waiters = <<>> /\ s = r
          BY <1>4, <4>1 DEF SlotDiscipline
        <5> QED
          BY <3>1, <5>1 DEF Release
      <4>2. CASE m # "slot"
        <5>1. s = slot
          BY <4>2
        <5> HIDE DEF s
        <5> QED
          BY <1>2, <3>1, <5>1 DEF Release
      <4> QED
        BY <4>1, <4>2
    <3>3. ASSUME NEW x \in Runs
          PROVE  /\ InSlot(x)' <=> InSlot(x)
                 /\ pc'[x] = "queued" <=> pc[x] = "queued"
                 /\ pc[x] = "queued" /\ mode[x] = "slot" => mode'[x] = "slot"
      BY <1>0, <1>1, <1>2, <3>1 DEF InSlot, Started
    <3> QED
      BY <3>2, <3>3, SlotKept
  <2>2. CASE Admit(r, h, ex, rows, s, m)
    <3>1. pc' = [pc EXCEPT ![r] = "gated"] \/ pc' = [pc EXCEPT ![r] = "running"]
      BY <2>2 DEF Admit, Flip
    <3>2. mode' = [mode EXCEPT ![r] = m] /\ slot' = s /\ waiters' = waiters
      BY <2>2 DEF Admit
    <3> HIDE DEF m
    <3>3. CASE m = "slot"
      <4>1. slot = NoRun /\ waiters = <<>> /\ slot' = r
        BY <1>4, <3>2, <3>3 DEF SlotDiscipline
      <4>2. \A x \in Runs : ~InSlot(x) /\ pc[x] # "queued"
        BY <1>0, <4>1, EmptySeq DEF SlotDiscipline
      <4>3. /\ InSlot(r)' /\ pc'[r] # "queued" /\ mode'[r] = "slot"
            /\ \A x \in Runs : x # r => ~InSlot(x)' /\ pc'[x] # "queued"
        BY <1>0, <3>1, <3>2, <3>3, <4>2 DEF InSlot, Started
      <4>4. InSlot(slot)'
        BY <4>1, <4>3 DEF InSlot
      <4> QED
        BY <1>0, <3>2, <4>1, <4>3, <4>4 DEF SlotDiscipline
    <3>4. CASE m # "slot"
      <4>1. slot' = slot
        BY <3>2, <3>4
      <4>2. ASSUME NEW x \in Runs
            PROVE  /\ InSlot(x)' <=> InSlot(x)
                   /\ pc'[x] = "queued" <=> pc[x] = "queued"
                   /\ pc[x] = "queued" /\ mode[x] = "slot" => mode'[x] = "slot"
        BY <1>0, <1>1, <1>2, <3>1, <3>2, <3>4 DEF InSlot, Started
      <4> QED
        BY <3>2, <4>1, <4>2, SlotKept
    <3> QED
      BY <3>3, <3>4
  <2> QED
    BY <2>0, <2>1, <2>2
<1> QED
  BY <1>3, <1>4

LEMMA SlotAcquire ==
  ASSUME TypeOK, SlotDiscipline, NEW r \in Runs, Acquire(r) PROVE SlotDiscipline'
<1>0. /\ pc[r] = "queued" /\ slot = r
      /\ pc \in [Runs -> PcStates] /\ mode \in [Runs -> {"slot", "direct", "forced"}]
  BY DEF Acquire, TypeOK
<1>1. CASE Refuse(r, handle, executing, row, slot)
  <2>1. Ends(r)
    BY <1>1 DEF Refuse, Ends
  <2> QED
    BY <1>0, <2>1, SlotEnds
<1>2. CASE Admit(r, handle, executing, row, slot, "slot")
  <2>1. pc' = [pc EXCEPT ![r] = "gated"] \/ pc' = [pc EXCEPT ![r] = "running"]
    BY <1>2 DEF Admit, Flip
  <2>2. mode' = [mode EXCEPT ![r] = "slot"] /\ slot' = slot /\ waiters' = waiters
    BY <1>2 DEF Admit
  <2>3. InSlot(r)' /\ pc'[r] # "queued" /\ mode'[r] = "slot"
    BY <1>0, <2>1, <2>2 DEF InSlot, Started
  <2>4. \A x \in Runs : x # r => ~InSlot(x)' /\ pc'[x] = pc[x] /\ mode'[x] = mode[x]
    BY <1>0, <2>1, <2>2 DEF InSlot, SlotDiscipline
  <2>5. InSlot(slot)'
    BY <1>0, <2>2, <2>3 DEF InSlot
  <2> HIDE DEF InSlot
  <2>6. \A i \in 1 .. Len(waiters) : waiters[i] \in Runs /\ waiters[i] # r
    BY <1>0, WaitersAreRuns DEF SlotDiscipline
  <2> QED
    BY <1>0, <2>2, <2>3, <2>4, <2>5, <2>6, SchedulerAssumption DEF SlotDiscipline
<1> QED
  BY <1>1, <1>2 DEF Acquire

LEMMA SlotUnwind ==
  ASSUME TypeOK, SlotDiscipline, NEW r \in Runs, pc[r] = "running", Unwind(r)
  PROVE  SlotDiscipline'
<1>1. CASE Ends(r)
  BY <1>1, SlotEnds
<1>2. CASE /\ pc' = [pc EXCEPT ![r] = "unwinding"]
           /\ UNCHANGED <<mode, slot, waiters>>
  <2>1. ASSUME NEW x \in Runs
        PROVE  /\ InSlot(x)' <=> InSlot(x)
               /\ pc'[x] = "queued" <=> pc[x] = "queued"
               /\ pc[x] = "queued" /\ mode[x] = "slot" => mode'[x] = "slot"
    BY <1>2 DEF InSlot, Started, TypeOK
  <2> QED
    BY <1>2, <2>1, SlotKept
<1> QED
  BY <1>1, <1>2 DEF Unwind, memVars

LEMMA SlotCommit ==
  ASSUME TypeOK, SlotDiscipline, NEW r \in Runs, pc[r] \in {"running", "finishing"},
         NEW o, Commit(r, o)
  PROVE  SlotDiscipline'
<1>1. CASE Ends(r)
  BY <1>1, SlotEnds
<1>2. CASE ~Gone(r)
  <2> DEFINE c == Then[TaskOf[r]]
             runs == IF o = "success" /\ c # NoTask /\ task[c].status # "deleted"
                        /\ ~HasChainCycle(c) /\ Free(c) # {}
                     THEN {NewRun(c)} ELSE {}
  <2>0. c \in Tasks \union {NoTask}
    BY SchedulerAssumption
  <2>1. \A x \in runs : pc[x] = "none"
    BY <2>0, NewRunFree DEF Live
  <2>2. /\ pc' = [x \in Runs |-> IF x = r THEN "none"
                                 ELSE IF x \in runs THEN "chained" ELSE pc[x]]
        /\ mode' = [mode EXCEPT ![r] = "direct"]
        /\ Release(r, slot)
    BY <1>2, Zenon DEF Commit, Exit, Forget
  <2>3. /\ pc'[r] = "none" /\ mode'[r] = "direct"
        /\ \A x \in Runs \ {r} :
             /\ mode'[x] = mode[x]
             /\ pc'[x] = pc[x] \/ (pc[x] = "none" /\ pc'[x] = "chained")
    BY <2>1, <2>2 DEF TypeOK
  <2>4. \A i \in 1 .. Len(waiters) : waiters[i] # r
    BY DEF SlotDiscipline
  <2> QED
    BY <2>2, <2>3, <2>4, SlotLeft
<1> QED
  BY <1>1, <1>2 DEF Commit

LEMMA SlotCancelledWaiting ==
  ASSUME TypeOK, SlotDiscipline, NEW r \in Runs, CancelledWaiting(r)
  PROVE  SlotDiscipline'
<1>1. CASE Ends(r) /\ ~(pc[r] = "queued" /\ slot # r)
  BY <1>1, SlotEnds
<1>2. CASE pc[r] = "queued" /\ slot # r
  <2>1. /\ pc' = [pc EXCEPT ![r] = "none"] /\ mode' = [mode EXCEPT ![r] = "direct"]
        /\ slot' = slot
    BY <1>2 DEF CancelledWaiting, Forget
  <2>2. PICK i \in 1 .. Len(waiters) : waiters[i] = r /\ waiters' = RemoveAt(waiters, i)
    BY <1>2 DEF CancelledWaiting
  <2> QED
    BY <1>2, <2>1, <2>2, SlotUnqueued
<1> QED
  BY <1>1, <1>2 DEF CancelledWaiting

LEMMA SlotRunStep ==
  ASSUME TypeOK, SlotDiscipline, NEW r \in Runs, RunStep(r) PROVE SlotDiscipline'
<1>1. CASE Begin(r)
  BY <1>1, SlotBegin
<1>2. CASE Acquire(r)
  BY <1>2, SlotAcquire
<1>3. CASE CancelledWaiting(r)
  BY <1>3, SlotCancelledWaiting
<1>4. CASE DropChained(r)
  <2>1. ASSUME NEW x \in Runs
        PROVE  /\ InSlot(x)' <=> InSlot(x)
               /\ pc'[x] = "queued" <=> pc[x] = "queued"
               /\ pc[x] = "queued" /\ mode[x] = "slot" => mode'[x] = "slot"
    BY <1>4 DEF DropChained, InSlot, Started, TypeOK, runVars
  <2> QED
    BY <1>4, <2>1, SlotKept DEF DropChained, memVars
<1>5. CASE OpenGate(r)
  <2>1. CASE Ends(r)
    BY <1>5, <2>1, SlotEnds DEF OpenGate
  <2>2. CASE Flip(r, row) /\ UNCHANGED <<mode, memVars>>
    <3>1. ASSUME NEW x \in Runs
          PROVE  /\ InSlot(x)' <=> InSlot(x)
                 /\ pc'[x] = "queued" <=> pc[x] = "queued"
                 /\ pc[x] = "queued" /\ mode[x] = "slot" => mode'[x] = "slot"
      BY <1>5, <2>2 DEF OpenGate, Flip, InSlot, Started, TypeOK
    <3> QED
      BY <2>2, <3>1, SlotKept DEF memVars
  <2> QED
    BY <1>5, <2>1, <2>2 DEF OpenGate
<1>6. CASE Produce(r)
  <2>1. ASSUME NEW x \in Runs
        PROVE  /\ InSlot(x)' <=> InSlot(x)
               /\ pc'[x] = "queued" <=> pc[x] = "queued"
               /\ pc[x] = "queued" /\ mode[x] = "slot" => mode'[x] = "slot"
    BY <1>6 DEF Produce, InSlot, Started, TypeOK
  <2> QED
    BY <1>6, <2>1, SlotKept DEF Produce, memVars
<1>7. CASE Noop(r) \/ Defer(r) \/ Cancelled(r)
  BY <1>7, SlotUnwind DEF Noop, Defer, Cancelled
<1>8. CASE Finish(r)
  <2>1. pc[r] = "finishing" /\ Commit(r, outcome[r])
    BY <1>8 DEF Finish
  <2> QED
    BY <2>1, SlotCommit
<1>9. CASE FinishForced(r)
  <2>1. PICK o : pc[r] = "running" /\ Commit(r, o)
    BY <1>9 DEF FinishForced
  <2> QED
    BY <2>1, SlotCommit
<1>10. CASE FinishUnwinding(r)
  BY <1>10, SlotEnds DEF FinishUnwinding
<1> QED
  BY <1>1, <1>2, <1>3, <1>4, <1>5, <1>6, <1>7, <1>8, <1>9, <1>10 DEF RunStep

\* Steps in which no run moves: the semaphore is not touched.
LEMMA SlotUntouched ==
  ASSUME TypeOK, SlotDiscipline, UNCHANGED <<pc, mode, slot, waiters>>
  PROVE  SlotDiscipline'
BY SlotKept DEF InSlot

LEMMA SlotRequest ==
  ASSUME TypeOK, SlotDiscipline, NEW t \in Tasks, Request(t) PROVE SlotDiscipline'
<1> USE DEF runVars, memVars
<1>1. CASE RunNow(t)
  <2>1. Spawn({t}) /\ mode' = mode
    BY <1>1 DEF RunNow
  <2> QED
    BY <2>1, SlotSpawn
<1>2. CASE Webhook(t)
  <2>1. CASE Spawn({t}) /\ mode' = mode
    BY <2>1, SlotSpawn
  <2>2. CASE UNCHANGED <<pc, mode, slot, waiters>>
    BY <2>2, SlotUntouched
  <2> QED
    BY <1>2, <2>1, <2>2 DEF Webhook
<1>3. CASE ForceRun(t)
  <2> DEFINE n == NewRun(t)
  <2>1. n \in Runs /\ pc[n] = "none"
    BY <1>3, NewRunFree DEF ForceRun, Live
  <2>2. /\ pc' = [pc EXCEPT ![n] = "spawned"] /\ mode' = [mode EXCEPT ![n] = "forced"]
        /\ slot' = slot /\ waiters' = waiters
    BY <1>3 DEF ForceRun
  <2> HIDE DEF n
  <2>3. ASSUME NEW x \in Runs
        PROVE  /\ InSlot(x)' <=> InSlot(x)
               /\ pc'[x] = "queued" <=> pc[x] = "queued"
               /\ pc[x] = "queued" /\ mode[x] = "slot" => mode'[x] = "slot"
    BY <2>1, <2>2 DEF InSlot, Started, TypeOK
  <2> QED
    BY <2>2, <2>3, SlotKept
<1>4. CASE Stop(t)
  BY <1>4, SlotUntouched DEF Stop
<1>5. CASE Pause(t) \/ Resume(t) \/ Revert(t) \/ Delete(t)
  BY <1>5, SlotUntouched DEF Pause, Resume, Revert, Delete
<1>6. CASE \E k \in EditKinds : Create(t, k)
  BY <1>6, SlotUntouched DEF Create
<1>7. CASE \E k \in EditKinds, resched \in BOOLEAN : Update(t, k, resched)
  BY <1>7, SlotUntouched DEF Update
<1> QED
  BY <1>1, <1>2, <1>3, <1>4, <1>5, <1>6, <1>7 DEF Request

LEMMA SlotInit == Init => SlotDiscipline
<1> SUFFICES ASSUME Init PROVE SlotDiscipline
  OBVIOUS
<1>1. Len(waiters) = 0
  BY EmptySeq DEF Init
<1> QED
  BY <1>1 DEF Init, SlotDiscipline, InSlot

LEMMA SlotStep == TypeOK /\ SlotDiscipline /\ [Next]_vars => SlotDiscipline'
<1> SUFFICES ASSUME TypeOK, SlotDiscipline, [Next]_vars PROVE SlotDiscipline'
  OBVIOUS
<1> USE DEF runVars, memVars
<1>1. CASE UNCHANGED vars
  BY <1>1, SlotUntouched DEF vars
<1>2. CASE \E r \in Runs : RunStep(r)
  BY <1>2, SlotRunStep
<1>3. CASE \E r \in Runs : Reload(r) \/ Monitor(r)
  BY <1>3, SlotUntouched DEF Reload, Monitor
<1>4. CASE \E r \in Runs : FinishFails(r)
  BY <1>4, SlotEnds DEF FinishFails
<1>5. CASE \E t \in Tasks : Tick(t)
  BY <1>5, SlotUntouched DEF Tick
<1>6. CASE \E t \in Tasks : Request(t)
  BY <1>6, SlotRequest
<1>7. ASSUME NEW e \in Events, HandleEvent(e) PROVE SlotDiscipline'
  <2>1. PICK ts \in SUBSET Tasks : Spawn(ts)
    BY <1>7 DEF HandleEvent
  <2> QED
    BY <1>7, <2>1, SlotSpawn DEF HandleEvent
<1>8. CASE CheckDue
  <2>1. CASE fg
    BY <1>8, <2>1, SlotUntouched DEF CheckDue
  <2>2. CASE ~fg
    <3>1. PICK ts \in SUBSET Tasks : Spawn(ts)
      BY <1>8, <2>2 DEF CheckDue
    <3> QED
      BY <1>8, <3>1, SlotSpawn DEF CheckDue
  <2> QED
    BY <2>1, <2>2
<1>9. CASE ForegroundBegin \/ ForegroundEnd \/ StopBackground \/ Start
  BY <1>9, SlotUntouched DEF ForegroundBegin, ForegroundEnd, StopBackground, Start
<1>10. CASE Crash
  <2>1. Len(waiters') = 0
    BY <1>10, EmptySeq DEF Crash
  <2> QED
    BY <1>10, <2>1 DEF Crash, SlotDiscipline, InSlot
<1> QED
  BY <1>1, <1>2, <1>3, <1>4, <1>5, <1>6, <1>7, <1>8, <1>9, <1>10 DEF Next

\* The permit of the model slot is never lost, never shared and never left
\* free beside a waiter, through every interleaving of acquires, releases,
\* cancellations and crashes.
THEOREM SlotSafe == Spec => []SlotDiscipline
<1>1. Init => TypeOK /\ SlotDiscipline
  BY InitTypes, SlotInit
<1>2. TypeOK /\ SlotDiscipline /\ [Next]_vars => (TypeOK /\ SlotDiscipline)'
  BY StepTypes, SlotStep
<1> QED
  BY <1>1, <1>2, PTL DEF Spec

-----------------------------------------------------------------------------
(* The exclusive use of the model.  SlotDiscipline does not imply it: a    *)
(* run may be past the queue without having queued.  What is missing is    *)
(* that no run of a task that uses the model is in mode "direct" there.    *)

Past == Started \union {"gated"}
ModelThroughSlot ==
  \A r \in Runs : /\ pc[r] \in Past
                  /\ TaskOf[r] \notin Actions \/ TaskOf[r] \in ModelBacked
                  => mode[r] # "direct"

LEMMA ThroughSlotKept ==
  ASSUME ModelThroughSlot,
         \A x \in Runs : pc'[x] \in Past => pc[x] \in Past /\ mode'[x] = mode[x]
  PROVE  ModelThroughSlot'
BY DEF ModelThroughSlot

LEMMA ThroughSlotEnds ==
  ASSUME TypeOK, ModelThroughSlot, NEW r \in Runs, Ends(r)
  PROVE  ModelThroughSlot'
<1>1. pc' = [pc EXCEPT ![r] = "none"] /\ mode' = [mode EXCEPT ![r] = "direct"]
  BY DEF Ends, Exit, Forget
<1>2. \A x \in Runs : pc'[x] \in Past => pc[x] \in Past /\ mode'[x] = mode[x]
  BY <1>1 DEF TypeOK, Past, Started
<1> QED
  BY <1>2, ThroughSlotKept

\* Steps that move no run and steps that put new runs in front of the queue.
LEMMA ThroughSlotSpawn ==
  ASSUME ModelThroughSlot, mode' = mode,
         UNCHANGED pc \/ \E ts : Spawn(ts)
  PROVE  ModelThroughSlot'
<1>1. ASSUME NEW x \in Runs, pc'[x] \in Past
      PROVE  pc[x] \in Past /\ mode'[x] = mode[x]
  BY <1>1 DEF Spawn, Past, Started
<1> QED
  BY <1>1, ThroughSlotKept

LEMMA ThroughSlotAdmit ==
  ASSUME TypeOK, ModelThroughSlot, NEW r \in Runs, NEW h, NEW ex, NEW rows, NEW s,
         NEW m \in {"slot", "direct", "forced"}, Admit(r, h, ex, rows, s, m),
         m = "direct" => TaskOf[r] \in Actions \ ModelBacked
  PROVE  ModelThroughSlot'
<1>1. mode' = [mode EXCEPT ![r] = m]
  BY DEF Admit
<1>2. pc' = [pc EXCEPT ![r] = "gated"] \/ pc' = [pc EXCEPT ![r] = "running"]
  BY DEF Admit, Flip
<1> QED
  BY <1>1, <1>2 DEF TypeOK, ModelThroughSlot

LEMMA ThroughSlotRefuse ==
  ASSUME TypeOK, ModelThroughSlot, NEW r \in Runs, NEW h, NEW ex, NEW rows, NEW s,
         Refuse(r, h, ex, rows, s)
  PROVE  ModelThroughSlot'
<1>1. pc' = [pc EXCEPT ![r] = "none"] /\ mode' = [mode EXCEPT ![r] = "direct"]
  BY DEF Refuse, Exit, Forget
<1>2. \A x \in Runs : pc'[x] \in Past => pc[x] \in Past /\ mode'[x] = mode[x]
  BY <1>1 DEF TypeOK, Past, Started
<1> QED
  BY <1>2, ThroughSlotKept

LEMMA ThroughSlotBegin ==
  ASSUME TypeOK, ModelThroughSlot, NEW r \in Runs, Begin(r)
  PROVE  ModelThroughSlot'
<1> DEFINE t == TaskOf[r]
           h == [handle EXCEPT ![t] = r]
           ex == IF pc[r] = "chained" THEN executing \union {t} ELSE executing
           rows == IF task[t].status = "deleted" THEN row ELSE [row EXCEPT ![r] = "queued"]
           m == IF mode[r] = "direct" /\ NeedsSlot(t) THEN "slot" ELSE mode[r]
           s == IF m = "slot" THEN r ELSE slot
<1>1. m \in {"slot", "direct", "forced"} /\ (m = "direct" => t \in Actions \ ModelBacked)
  BY DEF TypeOK, NeedsSlot
<1>2. CASE pc' = [pc EXCEPT ![r] = "queued"] /\ mode' = [mode EXCEPT ![r] = m]
  <2>1. \A x \in Runs : pc'[x] \in Past => pc[x] \in Past /\ mode'[x] = mode[x]
    BY <1>2 DEF TypeOK, Past, Started
  <2> QED
    BY <2>1, ThroughSlotKept
<1>3. CASE Refuse(r, h, ex, rows, s)
  BY <1>3, ThroughSlotRefuse
<1>4. CASE Admit(r, h, ex, rows, s, m)
  BY <1>1, <1>4, ThroughSlotAdmit
<1> QED
  BY <1>2, <1>3, <1>4 DEF Begin

LEMMA ThroughSlotUnwind ==
  ASSUME TypeOK, ModelThroughSlot, NEW r \in Runs, pc[r] = "running", Unwind(r)
  PROVE  ModelThroughSlot'
<1>1. CASE Ends(r)
  BY <1>1, ThroughSlotEnds
<1>2. CASE pc' = [pc EXCEPT ![r] = "unwinding"] /\ mode' = mode
  <2>1. \A x \in Runs : pc'[x] \in Past => pc[x] \in Past /\ mode'[x] = mode[x]
    BY <1>2 DEF TypeOK, Past, Started
  <2> QED
    BY <2>1, ThroughSlotKept
<1> QED
  BY <1>1, <1>2 DEF Unwind

LEMMA ThroughSlotCommit ==
  ASSUME TypeOK, ModelThroughSlot, NEW r \in Runs, NEW o, Commit(r, o)
  PROVE  ModelThroughSlot'
<1>1. CASE Ends(r)
  BY <1>1, ThroughSlotEnds
<1>2. CASE ~Gone(r)
  <2> DEFINE c == Then[TaskOf[r]]
             runs == IF o = "success" /\ c # NoTask /\ task[c].status # "deleted"
                        /\ ~HasChainCycle(c) /\ Free(c) # {}
                     THEN {NewRun(c)} ELSE {}
  <2>1. pc' = [x \in Runs |-> IF x = r THEN "none"
                              ELSE IF x \in runs THEN "chained" ELSE pc[x]]
    BY <1>2, Zenon DEF Commit
  <2>2. mode' = [mode EXCEPT ![r] = "direct"]
    BY <1>2, Zenon DEF Commit, Exit, Forget
  <2> HIDE DEF runs
  <2>3. \A x \in Runs : pc'[x] \in Past => pc[x] \in Past /\ mode'[x] = mode[x]
    BY <2>1, <2>2 DEF TypeOK, Past, Started
  <2> QED
    BY <2>3, ThroughSlotKept
<1> QED
  BY <1>1, <1>2 DEF Commit

LEMMA ThroughSlotRunStep ==
  ASSUME TypeOK, ModelThroughSlot, NEW r \in Runs, RunStep(r)
  PROVE  ModelThroughSlot'
<1> USE DEF runVars, memVars
<1>1. CASE Begin(r)
  BY <1>1, ThroughSlotBegin
<1>2. CASE DropChained(r)
  <2>1. \A x \in Runs : pc'[x] \in Past => pc[x] \in Past /\ mode'[x] = mode[x]
    BY <1>2 DEF DropChained, TypeOK, Past, Started
  <2> QED
    BY <2>1, ThroughSlotKept
<1>3. CASE Acquire(r)
  BY <1>3, ThroughSlotAdmit, ThroughSlotRefuse DEF Acquire
<1>4. CASE OpenGate(r)
  <2>1. CASE Ends(r)
    BY <2>1, ThroughSlotEnds
  <2>2. CASE Flip(r, row) /\ mode' = mode
    <3>1. \A x \in Runs : pc'[x] \in Past => pc[x] \in Past /\ mode'[x] = mode[x]
      BY <1>4, <2>2 DEF OpenGate, Flip, TypeOK, Past
    <3> QED
      BY <3>1, ThroughSlotKept
  <2> QED
    BY <1>4, <2>1, <2>2 DEF OpenGate
<1>5. CASE Noop(r) \/ Defer(r) \/ Cancelled(r)
  BY <1>5, ThroughSlotUnwind DEF Noop, Defer, Cancelled
<1>6. CASE Produce(r)
  <2>1. \A x \in Runs : pc'[x] \in Past => pc[x] \in Past /\ mode'[x] = mode[x]
    BY <1>6 DEF Produce, TypeOK, Past, Started
  <2> QED
    BY <2>1, ThroughSlotKept
<1>7. CASE Finish(r) \/ FinishForced(r)
  BY <1>7, ThroughSlotCommit DEF Finish, FinishForced
<1>8. CASE FinishUnwinding(r)
  BY <1>8, ThroughSlotEnds DEF FinishUnwinding
<1>9. CASE CancelledWaiting(r)
  <2>1. CASE Ends(r)
    BY <2>1, ThroughSlotEnds
  <2>2. CASE pc' = [pc EXCEPT ![r] = "none"] /\ Forget(r, handle, executing)
    <3>1. \A x \in Runs : pc'[x] \in Past => pc[x] \in Past /\ mode'[x] = mode[x]
      BY <2>2 DEF Forget, TypeOK, Past, Started
    <3> QED
      BY <3>1, ThroughSlotKept
  <2> QED
    BY <1>9, <2>1, <2>2 DEF CancelledWaiting
<1> QED
  BY <1>1, <1>2, <1>3, <1>4, <1>5, <1>6, <1>7, <1>8, <1>9 DEF RunStep

LEMMA ThroughSlotStep == TypeOK /\ ModelThroughSlot /\ [Next]_vars => ModelThroughSlot'
<1> SUFFICES ASSUME TypeOK, ModelThroughSlot, [Next]_vars PROVE ModelThroughSlot'
  OBVIOUS
<1> USE DEF runVars, memVars
<1>1. CASE UNCHANGED vars
  BY <1>1, ThroughSlotSpawn DEF vars
<1>2. CASE \E r \in Runs : RunStep(r)
  BY <1>2, ThroughSlotRunStep
<1>3. CASE \E r \in Runs : Reload(r) \/ Monitor(r)
  BY <1>3, ThroughSlotSpawn DEF Reload, Monitor
<1>4. CASE \E r \in Runs : FinishFails(r)
  BY <1>4, ThroughSlotEnds DEF FinishFails
<1>5. ASSUME NEW t \in Tasks, Tick(t) \/ Request(t) PROVE ModelThroughSlot'
  <2>1. CASE ForceRun(t)
    <3> DEFINE n == NewRun(t)
    <3>1. pc' = [pc EXCEPT ![n] = "spawned"] /\ mode' = [mode EXCEPT ![n] = "forced"]
      BY <2>1 DEF ForceRun
    <3> HIDE DEF n
    <3>2. \A x \in Runs : pc'[x] \in Past => pc[x] \in Past /\ mode'[x] = mode[x]
      BY <3>1 DEF TypeOK, Past, Started
    <3> QED
      BY <3>2, ThroughSlotKept
  <2>2. CASE mode' = mode /\ (UNCHANGED pc \/ \E ts : Spawn(ts))
    BY <2>2, ThroughSlotSpawn
  <2>3. CASE Tick(t) \/ RunNow(t) \/ Webhook(t) \/ Stop(t) \/ Pause(t) \/ Resume(t)
    BY <2>2, <2>3 DEF Tick, RunNow, Webhook, Stop, Pause, Resume
  <2>4. CASE \/ Revert(t) \/ Delete(t) \/ \E k \in EditKinds : Create(t, k)
             \/ \E k \in EditKinds, resched \in BOOLEAN : Update(t, k, resched)
    BY <2>2, <2>4 DEF Revert, Delete, Create, Update
  <2> QED
    BY <1>5, <2>1, <2>3, <2>4 DEF Request
<1>6. CASE \/ \E e \in Events : HandleEvent(e)
           \/ CheckDue \/ ForegroundBegin \/ ForegroundEnd \/ StopBackground \/ Start
  BY <1>6, ThroughSlotSpawn
  DEF HandleEvent, CheckDue, ForegroundBegin, ForegroundEnd, StopBackground, Start
<1>7. CASE Crash
  BY <1>7 DEF Crash, ModelThroughSlot, Past, Started
<1> QED
  BY <1>1, <1>2, <1>3, <1>4, <1>5, <1>6, <1>7 DEF Next

\* Runs of tasks that use the model never share it: every one that is past the
\* queue owns the permit, and the permit has one owner.
THEOREM ModelExclusive == Spec => []OneModelRun
<1>1. Init => ModelThroughSlot
  BY DEF Init, ModelThroughSlot, Past, Started
<1>2. TypeOK /\ SlotDiscipline /\ ModelThroughSlot => OneModelRun
  BY DEF TypeOK, SlotDiscipline, ModelThroughSlot, OneModelRun, UsesModel, InSlot, Past
<1> QED
  BY <1>1, <1>2, TypeCorrect, SlotSafe, ThroughSlotStep, PTL DEF Spec

=============================================================================
