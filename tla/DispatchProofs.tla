--------------------------- MODULE DispatchProofs ---------------------------
(***************************************************************************)
(* Proofs about the dispatch of TaskScheduler: the registries _executing   *)
(* and _task_handles, the rows of task_runs.                               *)
(*                                                                         *)
(* What the steps do to the registries comes down to nine moves; each      *)
(* invariant of the registries is proved over the moves.                   *)
(***************************************************************************)
EXTENDS TaskSchedulerProofs

\* The coroutine of r has made its first step and is not over.
Begun(r) == pc[r] \notin {"none", "spawned", "chained"}

\* A run nobody dispatched, or left to a chain, is as the pool made it.
IdleModes == \A r \in Runs : pc[r] \in {"none", "chained"} => mode[r] = "direct"

Others(r) == \A q \in Runs \ {r} : pc'[q] = pc[q] /\ mode'[q] = mode[q]
Forced(r) == mode[r] = "forced"

\* A coroutine goes on (MovesOn), makes its first step (Takes) or its last
\* (Leaves), perhaps starting a successor's.
MovesOn(r) ==
  /\ Begun(r) /\ Begun(r)' /\ Others(r) /\ Forced(r)' = Forced(r)
  /\ UNCHANGED <<handle, executing>>
Takes(r) ==
  /\ pc[r] \in {"spawned", "chained"}
  /\ pc[r] = "chained" => TaskOf[r] \notin executing
  /\ Begun(r)' /\ Others(r) /\ Forced(r)' = Forced(r)
  /\ handle' = [handle EXCEPT ![TaskOf[r]] = r]
  /\ executing' = IF pc[r] = "chained" THEN executing \union {TaskOf[r]} ELSE executing
Leaves(r) ==
  /\ pc[r] # "none"
  /\ pc[r] = "chained" => TaskOf[r] \notin executing
  /\ pc'[r] = "none"
  /\ \A q \in Runs \ {r} : pc'[q] = pc[q] \/ (pc[q] = "none" /\ pc'[q] = "chained")
  /\ mode' = [mode EXCEPT ![r] = "direct"]
  /\ \E h \in {NoRun, handle[TaskOf[r]]} :
       handle' = [handle EXCEPT ![TaskOf[r]] = h] /\ h # r
  /\ executing' = IF Forced(r) THEN executing ELSE executing \ {TaskOf[r]}

\* A chained coroutine finds its task in flight; runs are dispatched; one is
\* forced; a task is stopped; the process dies.
Drops(r) ==
  /\ pc[r] = "chained" /\ pc' = [pc EXCEPT ![r] = "none"]
  /\ UNCHANGED <<mode, handle, executing>>
Spawns(ts, by) ==
  /\ \A t \in ts : by[t] \in Runs /\ TaskOf[by[t]] = t /\ pc[by[t]] = "none"
  /\ ts \intersect executing = {} /\ executing' = executing \union ts
  /\ pc' = [q \in Runs |-> IF \E t \in ts : q = by[t] THEN "spawned" ELSE pc[q]]
  /\ UNCHANGED <<mode, handle>>
Forces(r) ==
  /\ pc[r] = "none" /\ pc' = [pc EXCEPT ![r] = "spawned"]
  /\ mode' = [mode EXCEPT ![r] = "forced"]
  /\ UNCHANGED <<handle, executing>>
Dismisses(t) ==
  /\ "stop" \in Ops /\ executing' = executing \ {t} /\ UNCHANGED <<pc, mode, handle>>
Dies ==
  /\ pc' = [r \in Runs |-> "none"] /\ mode' = [r \in Runs |-> "direct"]
  /\ handle' = [t \in Tasks |-> NoRun] /\ executing' = {}
Still == UNCHANGED <<pc, mode, handle, executing>>

Move ==
  \/ \E r \in Runs : MovesOn(r) \/ Takes(r) \/ Leaves(r) \/ Drops(r) \/ Forces(r)
  \/ \E ts \in SUBSET Tasks, by \in [Tasks -> Runs \union {NoRun}] : Spawns(ts, by)
  \/ \E t \in Tasks : Dismisses(t)
  \/ Dies \/ Still

-----------------------------------------------------------------------------
(* Every step is a move. *)

\* The end of a coroutine, with the registries as its last segment finds them.
LEMMA ExitLeaves ==
  ASSUME TypeOK, NEW r \in Runs, pc[r] # "none",
         pc[r] = "chained" => TaskOf[r] \notin executing,
         pc'[r] = "none",
         \A q \in Runs \ {r} : pc'[q] = pc[q] \/ (pc[q] = "none" /\ pc'[q] = "chained"),
         NEW h, h = handle \/ h = [handle EXCEPT ![TaskOf[r]] = r],
         NEW ex, \/ ex = executing
                 \/ pc[r] = "chained" /\ ~Forced(r) /\ ex = executing \union {TaskOf[r]},
         Forget(r, h, ex)
  PROVE  Leaves(r)
<1>1. TaskOf[r] \in Tasks /\ handle \in [Tasks -> Runs \union {NoRun}]
  BY SchedulerAssumption DEF TypeOK
<1>2. mode' = [mode EXCEPT ![r] = "direct"]
  BY DEF Forget
<1>3. executing' = IF Forced(r) THEN executing ELSE executing \ {TaskOf[r]}
  BY DEF Forget, Unregister, Forced
<1>4. \E k \in {NoRun, handle[TaskOf[r]]} :
        handle' = [handle EXCEPT ![TaskOf[r]] = k] /\ k # r
  <2>1. NoRun # r
    BY SchedulerAssumption
  <2>2. CASE h[TaskOf[r]] = r
    <3>1. handle' = [handle EXCEPT ![TaskOf[r]] = NoRun]
      BY <1>1, <2>2 DEF Forget, Unregister
    <3> QED
      BY <2>1, <3>1
  <2>3. CASE h[TaskOf[r]] # r
    <3>1. h = handle /\ handle' = [handle EXCEPT ![TaskOf[r]] = handle[TaskOf[r]]]
      BY <1>1, <2>3 DEF Forget, Unregister
    <3> QED
      BY <2>3, <3>1
  <2> QED
    BY <2>2, <2>3
<1> QED
  BY <1>2, <1>3, <1>4 DEF Leaves

LEMMA EndsLeaves ==
  ASSUME TypeOK, NEW r \in Runs, pc[r] \notin {"none", "chained"}, Ends(r)
  PROVE  Leaves(r)
<1>1. /\ pc'[r] = "none" /\ \A q \in Runs \ {r} : pc'[q] = pc[q]
      /\ Forget(r, handle, executing)
  BY DEF Ends, Exit, TypeOK
<1> QED
  BY <1>1, ExitLeaves

\* A run whose task is dispatched goes on, waits at the gate or is refused.
LEMMA AdmitMoves ==
  ASSUME TypeOK, NEW r \in Runs, NEW h, NEW ex, NEW rows, NEW s, NEW m,
         Admit(r, h, ex, rows, s, m)
  PROVE  /\ Begun(r)' /\ \A q \in Runs \ {r} : pc'[q] = pc[q]
         /\ mode' = [mode EXCEPT ![r] = m] /\ handle' = h /\ executing' = ex
BY DEF Admit, Flip, Begun, TypeOK

LEMMA BeginMoves ==
  ASSUME TypeOK, IdleModes, NEW r \in Runs, Begin(r) PROVE Takes(r) \/ Leaves(r)
<1> DEFINE t    == TaskOf[r]
           h    == [handle EXCEPT ![t] = r]
           ex   == IF pc[r] = "chained" THEN executing \union {t} ELSE executing
           rows == IF task[t].status = "deleted" THEN row
                   ELSE [row EXCEPT ![r] = "queued"]
           m    == IF mode[r] = "direct" /\ NeedsSlot(t) THEN "slot" ELSE mode[r]
           s    == IF m = "slot" THEN r ELSE slot
<1>1. pc[r] \in {"spawned", "chained"} /\ (pc[r] = "chained" => t \notin executing)
  BY DEF Begin
<1>2. (m = "forced") = Forced(r) /\ mode \in [Runs -> {"slot", "direct", "forced"}]
  BY DEF Forced, TypeOK
<1>3. pc[r] = "chained" => ~Forced(r)
  BY DEF IdleModes, Forced
<1>4. CASE /\ pc' = [pc EXCEPT ![r] = "queued"] /\ mode' = [mode EXCEPT ![r] = m]
           /\ handle' = h /\ executing' = ex
  <2>1. Begun(r)' /\ Others(r) /\ Forced(r)' = Forced(r)
    BY <1>2, <1>4 DEF Begun, Others, Forced, TypeOK
  <2> QED
    BY <1>1, <1>4, <2>1 DEF Takes
<1>5. CASE Refuse(r, h, ex, rows, s)
  <2>1. /\ pc'[r] = "none" /\ \A q \in Runs \ {r} : pc'[q] = pc[q]
        /\ Forget(r, h, ex)
    BY <1>5 DEF Refuse, Exit, TypeOK
  <2> QED
    BY <1>1, <1>3, <2>1, ExitLeaves
<1>6. CASE Admit(r, h, ex, rows, s, m)
  <2>1. /\ Begun(r)' /\ \A q \in Runs \ {r} : pc'[q] = pc[q]
        /\ mode' = [mode EXCEPT ![r] = m] /\ handle' = h /\ executing' = ex
    <3> HIDE DEF h, ex, rows, m, s
    <3> QED
      BY <1>6, AdmitMoves
  <2>2. Others(r) /\ Forced(r)' = Forced(r)
    BY <1>2, <2>1 DEF Others, Forced
  <2> QED
    BY <1>1, <2>1, <2>2 DEF Takes
<1> QED
  BY <1>4, <1>5, <1>6 DEF Begin

LEMMA UnwindMoves ==
  ASSUME TypeOK, NEW r \in Runs, pc[r] = "running", Unwind(r)
  PROVE  MovesOn(r) \/ Leaves(r)
<1>1. CASE Forced(r) \/ hit[r]
  BY <1>1, EndsLeaves DEF Unwind, Forced
<1>2. CASE ~(Forced(r) \/ hit[r])
  BY <1>2 DEF Unwind, Forced, MovesOn, Begun, Others, memVars, TypeOK
<1> QED
  BY <1>1, <1>2

LEMMA CommitMoves ==
  ASSUME TypeOK, NEW r \in Runs, pc[r] \in {"running", "finishing"}, NEW o, Commit(r, o)
  PROVE  Leaves(r)
<1> DEFINE c    == Then[TaskOf[r]]
           runs == IF o = "success" /\ c # NoTask /\ task[c].status # "deleted"
                      /\ ~HasChainCycle(c) /\ Free(c) # {}
                   THEN {NewRun(c)} ELSE {}
<1>1. CASE Gone(r)
  BY <1>1, EndsLeaves DEF Commit
<1>2. CASE ~Gone(r)
  <2>1. pc' = [x \in Runs |-> IF x = r THEN "none"
                              ELSE IF x \in runs THEN "chained" ELSE pc[x]]
    BY <1>2 DEF Commit
  <2>2. \A x \in runs : pc[x] = "none"
    BY SchedulerAssumption, NewRunFree DEF Live
  <2> HIDE DEF runs
  <2>3. \A q \in Runs \ {r} : pc'[q] = pc[q] \/ (pc[q] = "none" /\ pc'[q] = "chained")
    BY <2>1, <2>2
  <2>4. Forget(r, handle, executing)
    BY <1>2 DEF Commit, Exit
  <2> QED
    BY <2>1, <2>3, <2>4, ExitLeaves
<1> QED
  BY <1>1, <1>2

LEMMA RunStepMoves ==
  ASSUME TypeOK, SlotDiscipline, IdleModes, NEW r \in Runs, RunStep(r) PROVE Move
<1>1. CASE Begin(r)
  BY <1>1, BeginMoves DEF Move
<1>2. CASE DropChained(r)
  BY <1>2 DEF DropChained, Drops, Move, runVars, memVars
<1>3. CASE Acquire(r)
  <2>1. pc[r] = "queued" /\ mode[r] = "slot" /\ Begun(r)
    BY <1>3, SchedulerAssumption DEF Acquire, SlotDiscipline, Begun
  <2>2. CASE Refuse(r, handle, executing, row, slot)
    <3>1. /\ pc'[r] = "none" /\ \A q \in Runs \ {r} : pc'[q] = pc[q]
          /\ Forget(r, handle, executing)
      BY <2>2 DEF Refuse, Exit, TypeOK
    <3> QED
      BY <2>1, <3>1, ExitLeaves DEF Move
  <2>3. CASE Admit(r, handle, executing, row, slot, "slot")
    <3>1. /\ Begun(r)' /\ \A q \in Runs \ {r} : pc'[q] = pc[q]
          /\ mode' = [mode EXCEPT ![r] = "slot"] /\ handle' = handle /\ executing' = executing
      BY <2>3, AdmitMoves
    <3>2. Others(r) /\ Forced(r)' = Forced(r)
      BY <2>1, <3>1 DEF Others, Forced, TypeOK
    <3> QED
      BY <2>1, <3>1, <3>2 DEF MovesOn, Move
  <2> QED
    BY <1>3, <2>2, <2>3 DEF Acquire
<1>4. CASE OpenGate(r)
  <2>1. CASE task[TaskOf[r]].status = "deleted"
    BY <1>4, <2>1, EndsLeaves DEF OpenGate, Move
  <2>2. CASE task[TaskOf[r]].status # "deleted"
    <3>1. MovesOn(r)
      BY <1>4, <2>2 DEF OpenGate, Flip, MovesOn, Begun, Others, Forced, memVars, TypeOK
    <3> QED
      BY <3>1 DEF Move
  <2> QED
    BY <2>1, <2>2
<1>5. CASE Noop(r) \/ Defer(r) \/ Cancelled(r)
  BY <1>5, UnwindMoves DEF Noop, Defer, Cancelled, Move
<1>6. CASE Produce(r)
  <2>1. MovesOn(r)
    BY <1>6 DEF Produce, MovesOn, Begun, Others, Forced, memVars, TypeOK
  <2> QED
    BY <2>1 DEF Move
<1>7. CASE Finish(r)
  BY <1>7, CommitMoves DEF Finish, Move
<1>8. CASE FinishForced(r)
  <2>1. PICK o \in {"success", "error", "raised"} : Commit(r, o)
    BY <1>8 DEF FinishForced
  <2> QED
    BY <1>8, <2>1, CommitMoves DEF FinishForced, Move
<1>9. CASE FinishUnwinding(r)
  BY <1>9, EndsLeaves DEF FinishUnwinding, Move
<1>10. CASE CancelledWaiting(r)
  <2>1. pc[r] \in {"queued", "gated"}
    BY <1>10 DEF CancelledWaiting
  <2>2. CASE Ends(r)
    BY <2>1, <2>2, EndsLeaves DEF Move
  <2>3. CASE pc' = [pc EXCEPT ![r] = "none"] /\ Forget(r, handle, executing)
    <3>1. pc'[r] = "none" /\ \A q \in Runs \ {r} : pc'[q] = pc[q]
      BY <2>3 DEF TypeOK
    <3> QED
      BY <2>1, <2>3, <3>1, ExitLeaves DEF Move
  <2> QED
    BY <1>10, <2>2, <2>3 DEF CancelledWaiting
<1> QED
  BY <1>1, <1>2, <1>3, <1>4, <1>5, <1>6, <1>7, <1>8, <1>9, <1>10 DEF RunStep

LEMMA SpawnMoves ==
  ASSUME TypeOK, NEW ts \in SUBSET Tasks, ts \intersect executing = {}, Spawn(ts),
         mode' = mode
  PROVE  Move
<1> DEFINE by == [t \in Tasks |-> IF t \in ts THEN NewRun(t) ELSE NoRun]
<1>1. \A t \in ts : NewRun(t) \in Runs /\ TaskOf[NewRun(t)] = t /\ pc[NewRun(t)] = "none"
  BY NewRunFree DEF Spawn, Live
<1>2. /\ by \in [Tasks -> Runs \union {NoRun}]
      /\ \A t \in ts : by[t] = NewRun(t)
  BY <1>1
<1>3. pc' = [q \in Runs |-> IF \E t \in ts : q = NewRun(t) THEN "spawned" ELSE pc[q]]
  BY DEF Spawn
<1> HIDE DEF by
<1>4. pc' = [q \in Runs |-> IF \E t \in ts : q = by[t] THEN "spawned" ELSE pc[q]]
  BY <1>2, <1>3
<1>5. Spawns(ts, by)
  BY <1>1, <1>2, <1>4 DEF Spawn, Spawns
<1> QED
  BY <1>2, <1>5 DEF Move

LEMMA RequestMoves ==
  ASSUME TypeOK, IdleModes, NEW t \in Tasks, Request(t) PROVE Move
<1> USE DEF runVars, memVars
<1>1. CASE RunNow(t)
  <2>1. Spawn({t}) /\ {t} \intersect executing = {} /\ mode' = mode
    BY <1>1 DEF RunNow
  <2> QED
    BY <2>1, SpawnMoves
<1>2. CASE ForceRun(t)
  <2>1. NewRun(t) \in Runs /\ pc[NewRun(t)] = "none"
    BY <1>2, NewRunFree DEF ForceRun, Live
  <2>2. Forces(NewRun(t))
    BY <1>2, <2>1 DEF ForceRun, Forces
  <2> QED
    BY <2>1, <2>2 DEF Move
<1>3. CASE Webhook(t)
  <2>1. CASE t \in Unprivileged
    BY <1>3, <2>1 DEF Webhook, Still, Move
  <2>2. CASE t \notin Unprivileged
    <3>1. Spawn({t}) /\ {t} \intersect executing = {} /\ mode' = mode
      BY <1>3, <2>2 DEF Webhook
    <3> QED
      BY <3>1, SpawnMoves
  <2> QED
    BY <2>1, <2>2
<1>4. CASE Stop(t)
  BY <1>4 DEF Stop, Dismisses, Move
<1>5. CASE Pause(t) \/ Resume(t) \/ Revert(t) \/ Delete(t)
  BY <1>5 DEF Pause, Resume, Revert, Delete, Still, Move
<1>6. CASE \E k \in EditKinds : Create(t, k)
  BY <1>6 DEF Create, Still, Move
<1>7. CASE \E k \in EditKinds, resched \in BOOLEAN : Update(t, k, resched)
  BY <1>7 DEF Update, Still, Move
<1> QED
  BY <1>1, <1>2, <1>3, <1>4, <1>5, <1>6, <1>7 DEF Request

LEMMA DispatchMoves ==
  ASSUME TypeOK, SlotDiscipline, IdleModes, [Next]_vars PROVE Move
<1> USE DEF runVars, memVars
<1>1. CASE \E r \in Runs : RunStep(r)
  BY <1>1, RunStepMoves
<1>2. CASE \/ \E r \in Runs : Reload(r) \/ Monitor(r)
           \/ \E t \in Tasks : Tick(t)
           \/ ForegroundBegin \/ ForegroundEnd \/ StopBackground \/ Start
           \/ UNCHANGED vars
  BY <1>2 DEF Reload, Monitor, Tick, ForegroundBegin, ForegroundEnd, StopBackground, Start,
     vars, Still, Move
<1>3. ASSUME NEW r \in Runs, FinishFails(r) PROVE Move
  BY <1>3, EndsLeaves DEF FinishFails, Move
<1>4. CASE \E t \in Tasks : Request(t)
  BY <1>4, RequestMoves
<1>5. ASSUME NEW e \in Events, HandleEvent(e) PROVE Move
  <2>1. \E ts \in SUBSET Tasks : ts \intersect executing = {} /\ Spawn(ts)
    BY <1>5 DEF HandleEvent
  <2> QED
    BY <1>5, <2>1, SpawnMoves DEF HandleEvent
<1>6. CASE CheckDue
  <2>1. CASE fg
    BY <1>6, <2>1 DEF CheckDue, Still, Move
  <2>2. CASE ~fg
    <3>1. \E ts \in SUBSET Tasks : ts \intersect executing = {} /\ Spawn(ts)
      BY <1>6, <2>2 DEF CheckDue
    <3> QED
      BY <1>6, <3>1, SpawnMoves DEF CheckDue
  <2> QED
    BY <2>1, <2>2
<1>7. CASE Crash
  BY <1>7 DEF Crash, Dies, Move
<1> QED
  BY <1>1, <1>2, <1>3, <1>4, <1>5, <1>6, <1>7 DEF Next

-----------------------------------------------------------------------------
(* The invariants of the registries *)

\* Who is dispatched without force is a member, or will put itself in.
Registered == IdleModes /\ HandlesAreLive /\ NoStaleMembership

LEMMA RegisteredStep ==
  ASSUME TypeOK, Registered, Move PROVE Registered'
<1>1. /\ IdleModes /\ HandlesAreLive /\ NoStaleMembership
      /\ pc \in [Runs -> PcStates] /\ mode \in [Runs -> {"slot", "direct", "forced"}]
      /\ handle \in [Tasks -> Runs \union {NoRun}] /\ executing \subseteq Tasks
      /\ TaskOf \in [Runs -> Tasks] /\ NoRun \notin Runs
  BY SchedulerAssumption DEF Registered, TypeOK
<1> USE DEF Begun, Forced, Others
<1>2. ASSUME NEW r \in Runs, MovesOn(r) PROVE Registered'
  <2>1. IdleModes'
    BY <1>1, <1>2 DEF IdleModes, MovesOn
  <2>2. HandlesAreLive'
    BY <1>1, <1>2 DEF HandlesAreLive, MovesOn
  <2>3. NoStaleMembership'
    BY <1>1, <1>2 DEF NoStaleMembership, MovesOn
  <2> QED
    BY <2>1, <2>2, <2>3 DEF Registered
<1>3. ASSUME NEW r \in Runs, Takes(r) PROVE Registered'
  <2>1. IdleModes'
    BY <1>1, <1>3 DEF IdleModes, Takes
  <2>2. HandlesAreLive'
    BY <1>1, <1>3 DEF HandlesAreLive, Takes
  <2>3. NoStaleMembership'
    <3>1. pc[r] = "chained" => ~Forced(r)' /\ Begun(r)'
      BY <1>1, <1>3 DEF IdleModes, Takes
    <3>2. ASSUME NEW t \in executing
          PROVE  \E q \in Runs : TaskOf[q] = t /\ mode'[q] # "forced"
                                 /\ pc'[q] \notin {"none", "chained"}
      <4>1. PICK q \in Runs : TaskOf[q] = t /\ mode[q] # "forced" /\ pc[q] \notin {"none", "chained"}
        BY <1>1, <3>2 DEF NoStaleMembership
      <4>2. CASE q = r
        BY <1>3, <4>1, <4>2 DEF Takes
      <4>3. CASE q # r
        BY <1>3, <4>1, <4>3 DEF Takes
      <4> QED
        BY <4>2, <4>3
    <3>3. TaskOf[r] \in executing' \ executing => ~Forced(r)' /\ Begun(r)'
      BY <1>3, <3>1 DEF Takes
    <3>4. \A t \in executing' : t \in executing \/ t = TaskOf[r]
      BY <1>3 DEF Takes
    <3> QED
      BY <3>2, <3>3, <3>4 DEF NoStaleMembership
  <2> QED
    BY <2>1, <2>2, <2>3 DEF Registered
<1>4. ASSUME NEW r \in Runs, Leaves(r) PROVE Registered'
  <2>1. IdleModes'
    BY <1>1, <1>4 DEF IdleModes, Leaves
  <2>2. HandlesAreLive'
    <3>1. PICK h \in {NoRun, handle[TaskOf[r]]} :
            handle' = [handle EXCEPT ![TaskOf[r]] = h] /\ h # r
      BY <1>4 DEF Leaves
    <3>2. ASSUME NEW t \in Tasks, handle'[t] # NoRun
          PROVE  /\ TaskOf[handle'[t]] = t
                 /\ pc'[handle'[t]] \notin {"none", "spawned", "chained"}
      <4>1. handle'[t] = handle[t]
        BY <1>1, <3>1, <3>2
      <4>2. handle[t] \in Runs /\ TaskOf[handle[t]] = t /\ Begun(handle[t])
        BY <1>1, <3>2, <4>1 DEF HandlesAreLive
      <4>3. handle[t] # r
        BY <1>1, <3>1, <4>1, <4>2
      <4> QED
        BY <1>4, <4>1, <4>2, <4>3 DEF Leaves
    <3> QED
      BY <3>2 DEF HandlesAreLive
  <2>3. NoStaleMembership'
    <3> SUFFICES ASSUME NEW t \in executing'
                 PROVE  \E q \in Runs : TaskOf[q] = t /\ mode'[q] # "forced"
                                        /\ pc'[q] \notin {"none", "chained"}
      BY DEF NoStaleMembership
    <3>1. t \in executing /\ (~Forced(r) => t # TaskOf[r])
      BY <1>4 DEF Leaves
    <3>2. PICK q \in Runs : TaskOf[q] = t /\ mode[q] # "forced" /\ pc[q] \notin {"none", "chained"}
      BY <1>1, <3>1 DEF NoStaleMembership
    <3> QED
      BY <1>1, <1>4, <3>1, <3>2 DEF Leaves
  <2> QED
    BY <2>1, <2>2, <2>3 DEF Registered
<1>5. ASSUME NEW r \in Runs, Drops(r) PROVE Registered'
  BY <1>1, <1>5 DEF Drops, Registered, IdleModes, HandlesAreLive, NoStaleMembership
<1>6. ASSUME NEW r \in Runs, Forces(r) PROVE Registered'
  BY <1>1, <1>6 DEF Forces, Registered, IdleModes, HandlesAreLive, NoStaleMembership
<1>7. ASSUME NEW ts \in SUBSET Tasks, NEW by \in [Tasks -> Runs \union {NoRun}], Spawns(ts, by)
      PROVE  Registered'
  <2>1. IdleModes' /\ HandlesAreLive'
    BY <1>1, <1>7 DEF Spawns, IdleModes, HandlesAreLive
  <2>2. ASSUME NEW t \in executing
        PROVE  \E q \in Runs : TaskOf[q] = t /\ mode'[q] # "forced"
                               /\ pc'[q] \notin {"none", "chained"}
    BY <1>1, <1>7, <2>2 DEF Spawns, NoStaleMembership
  <2>3. ASSUME NEW t \in ts
        PROVE  /\ TaskOf[by[t]] = t /\ mode'[by[t]] # "forced" /\ by[t] \in Runs
               /\ pc'[by[t]] \notin {"none", "chained"}
    BY <1>1, <1>7, <2>3 DEF Spawns, IdleModes
  <2> QED
    BY <1>7, <2>1, <2>2, <2>3 DEF Registered, NoStaleMembership, Spawns
<1>8. CASE (\E t \in Tasks : Dismisses(t)) \/ Dies \/ Still
  BY <1>1, <1>8 DEF Dismisses, Dies, Still, Registered, IdleModes, HandlesAreLive,
     NoStaleMembership
<1> QED
  BY <1>2, <1>3, <1>4, <1>5, <1>6, <1>7, <1>8 DEF Move

LEMMA RegisteredHolds == Spec => []Registered
<1>1. Init => Registered
  BY SchedulerAssumption DEF Init, Registered, IdleModes, HandlesAreLive, NoStaleMembership
<1>2. TypeOK /\ SlotDiscipline /\ Registered /\ [Next]_vars => Registered'
  BY DispatchMoves, RegisteredStep DEF Registered
<1> QED
  BY <1>1, <1>2, TypeCorrect, SlotSafe, PTL DEF Spec

\* _task_handles only names coroutines that have begun and are not over, so
\* stop_task cancels a run of its task or nothing.
THEOREM HandlesStayLive == Spec => []HandlesAreLive
<1>1. Registered => HandlesAreLive
  BY DEF Registered
<1> QED
  BY <1>1, RegisteredHolds, PTL

\* A task in _executing has a run that was dispatched and will take it out: no
\* task is kept from being dispatched for ever.
THEOREM MembershipIsLive == Spec => []NoStaleMembership
<1>1. Registered => NoStaleMembership
  BY DEF Registered
<1> QED
  BY <1>1, RegisteredHolds, PTL

-----------------------------------------------------------------------------
\* As long as nobody stops a task, its dispatched run is in _executing until
\* it is over (stop_task takes it out while the coroutine unwinds).
Members ==
  \A r \in Runs : ~Forced(r) /\ pc[r] \notin {"none", "chained"} => TaskOf[r] \in executing

LEMMA MembersStep ==
  ASSUME TypeOK, Registered, Members, NoDoubleDispatch, "stop" \notin Ops, Move
  PROVE  Members' /\ NoDoubleDispatch'
<1>1. /\ pc \in [Runs -> PcStates] /\ mode \in [Runs -> {"slot", "direct", "forced"}]
      /\ TaskOf \in [Runs -> Tasks] /\ executing \subseteq Tasks /\ IdleModes
  BY SchedulerAssumption DEF Registered, TypeOK
<1> DEFINE In(r) == ~Forced(r) /\ pc[r] \notin {"none", "chained"}
<1> USE DEF Begun, Others
<1>2. \A r, q \in Runs : In(r) /\ In(q) /\ TaskOf[r] = TaskOf[q] => r = q
  BY DEF NoDoubleDispatch, Forced
<1>3. \A r \in Runs : In(r) => TaskOf[r] \in executing
  BY DEF Members
<1>4. SUFFICES /\ \A r \in Runs : In(r)' => TaskOf[r] \in executing'
               /\ \A r, q \in Runs : In(r)' /\ In(q)' /\ TaskOf[r] = TaskOf[q] => r = q
  BY DEF Members, NoDoubleDispatch, Forced
<1>5. CASE \E r \in Runs : MovesOn(r) \/ Drops(r)
  BY <1>1, <1>2, <1>3, <1>5 DEF MovesOn, Drops, Forced
<1>6. ASSUME NEW r \in Runs, Takes(r)
      PROVE  /\ \A p \in Runs : In(p)' => TaskOf[p] \in executing'
             /\ \A p, q \in Runs : In(p)' /\ In(q)' /\ TaskOf[p] = TaskOf[q] => p = q
  <2>1. \A p \in Runs \ {r} : In(p)' = In(p)
    BY <1>6 DEF Takes, Forced
  <2>2. CASE pc[r] = "chained"
    BY <1>1, <1>2, <1>3, <1>6, <2>1, <2>2 DEF Takes
  <2>3. CASE pc[r] = "spawned"
    <3>1. In(r)' = In(r) /\ executing' = executing
      BY <1>6, <2>3 DEF Takes
    <3> QED
      BY <1>2, <1>3, <2>1, <3>1
  <2> QED
    BY <1>6, <2>2, <2>3 DEF Takes
<1>7. ASSUME NEW r \in Runs, Leaves(r)
      PROVE  /\ \A p \in Runs : In(p)' => TaskOf[p] \in executing'
             /\ \A p, q \in Runs : In(p)' /\ In(q)' /\ TaskOf[p] = TaskOf[q] => p = q
  <2>1. \A p \in Runs : In(p)' => In(p) /\ p # r
    BY <1>1, <1>7 DEF Leaves, Forced
  <2>2. \A p \in Runs : In(p)' /\ ~Forced(r) => TaskOf[p] # TaskOf[r]
    <3> SUFFICES ASSUME NEW p \in Runs, In(p)', ~Forced(r) PROVE TaskOf[p] # TaskOf[r]
      OBVIOUS
    <3>1. CASE pc[r] = "chained"
      BY <1>3, <1>7, <2>1, <3>1 DEF Leaves
    <3>2. CASE pc[r] # "chained"
      BY <1>2, <1>7, <2>1, <3>2 DEF Leaves
    <3> QED
      BY <3>1, <3>2
  <2>3. \A p \in Runs : In(p)' => TaskOf[p] \in executing'
    BY <1>3, <1>7, <2>1, <2>2 DEF Leaves
  <2> QED
    BY <1>2, <2>1, <2>3
<1>8. ASSUME NEW r \in Runs, Forces(r)
      PROVE  /\ \A p \in Runs : In(p)' => TaskOf[p] \in executing'
             /\ \A p, q \in Runs : In(p)' /\ In(q)' /\ TaskOf[p] = TaskOf[q] => p = q
  BY <1>1, <1>2, <1>3, <1>8 DEF Forces, Forced
<1>9. ASSUME NEW ts \in SUBSET Tasks, NEW by \in [Tasks -> Runs \union {NoRun}], Spawns(ts, by)
      PROVE  /\ \A p \in Runs : In(p)' => TaskOf[p] \in executing'
             /\ \A p, q \in Runs : In(p)' /\ In(q)' /\ TaskOf[p] = TaskOf[q] => p = q
  <2>1. \A p \in Runs : In(p)' => In(p) \/ (TaskOf[p] \in ts /\ p = by[TaskOf[p]])
    BY <1>1, <1>9 DEF Spawns, Forced
  <2>2. \A p \in Runs : In(p) => TaskOf[p] \notin ts
    BY <1>3, <1>9 DEF Spawns
  <2>3. \A p \in Runs : In(p)' => TaskOf[p] \in executing'
    BY <1>3, <1>9, <2>1 DEF Spawns
  <2> QED
    BY <1>2, <2>1, <2>2, <2>3
<1>10. CASE \E t \in Tasks : Dismisses(t)
  BY <1>10 DEF Dismisses
<1>11. CASE Dies
  BY <1>11 DEF Dies
<1>12. CASE Still
  BY <1>2, <1>3, <1>12 DEF Still, Forced
<1> QED
  BY <1>5, <1>6, <1>7, <1>8, <1>9, <1>10, <1>11, <1>12 DEF Move

\* Loop, manual run, event, webhook and chain never put two dispatched runs of
\* a task in flight, while nobody stops one: stop_task forgets the membership
\* before the coroutine is over.
THEOREM SingleDispatch ==
  ASSUME "stop" \notin Ops PROVE Spec => []NoDoubleDispatch
<1>1. Init => Members /\ NoDoubleDispatch
  BY DEF Init, Members, NoDoubleDispatch
<1>2. TypeOK /\ SlotDiscipline /\ Registered /\ Members /\ NoDoubleDispatch /\ [Next]_vars
        => Members' /\ NoDoubleDispatch'
  BY DispatchMoves, MembersStep DEF Registered
<1> QED
  BY <1>1, <1>2, TypeCorrect, SlotSafe, RegisteredHolds, PTL DEF Spec

-----------------------------------------------------------------------------
(* The rows of task_runs *)

\* An open row is that of a coroutine that will still write it, is "running"
\* only past the flip, and is of a task that exists.
RowsLive ==
  up => \A r \in Runs : row[r] \in OpenRows =>
          /\ pc[r] \in {"queued", "gated", "running", "finishing"}
          /\ pc[r] \in {"queued", "gated"} => row[r] = "queued"
          /\ task[TaskOf[r]].status # "deleted"

\* No task is deleted by the step; every row open after it was open before and
\* stays with its coroutine, unless it is that of a run just taken up.
LEMMA RowsKept ==
  ASSUME RowsLive, up,
         \A t \in Tasks : task[t].status # "deleted" => task'[t].status # "deleted",
         \A q \in Runs : row'[q] \in OpenRows =>
           \/ row'[q] = row[q] /\ pc'[q] = pc[q]
           \/ /\ row'[q] = "queued" /\ pc'[q] \in {"queued", "gated"}
              /\ task'[TaskOf[q]].status # "deleted"
           \/ /\ row'[q] = "running" /\ pc'[q] = "running"
              /\ task'[TaskOf[q]].status # "deleted"
  PROVE  RowsLive'
<1>1. \A q \in Runs : TaskOf[q] \in Tasks
  BY SchedulerAssumption
<1> QED
  BY <1>1 DEF RowsLive, OpenRows

LEMMA RescheduleKeepsStatus ==
  ASSUME TypeOK, NEW r \in Runs, NEW new, Reschedule(r, new)
  PROVE  \A t \in Tasks : task'[t].status = task[t].status
BY SchedulerAssumption DEF Reschedule, TypeOK, TaskRows

LEMMA RefuseRows ==
  ASSUME TypeOK, RowsLive, up, NEW r \in Runs, NEW h, NEW ex, NEW s,
         NEW rows \in [Runs -> RowStates], \A q \in Runs \ {r} : rows[q] = row[q],
         rows[r] \in OpenRows => rows[r] = "queued",
         Refuse(r, h, ex, rows, s)
  PROVE  RowsLive'
<1>1. TaskOf[r] \in Tasks /\ task \in [Tasks -> TaskRows]
  BY SchedulerAssumption DEF TypeOK
<1>2. /\ \A q \in Runs \ {r} : pc'[q] = pc[q] /\ row'[q] = row[q]
      /\ row'[r] \notin OpenRows
  BY DEF Refuse, OpenRows, TypeOK
<1>3. \A t \in Tasks : task[t].status # "deleted" => task'[t].status # "deleted"
  BY <1>1 DEF Refuse, TaskRows
<1> QED
  BY <1>2, <1>3, RowsKept

LEMMA AdmitRows ==
  ASSUME TypeOK, RowsLive, up, NEW r \in Runs, NEW h, NEW ex, NEW s, NEW m,
         NEW rows \in [Runs -> RowStates], \A q \in Runs \ {r} : rows[q] = row[q],
         rows[r] \in OpenRows => rows[r] = "queued",
         Admit(r, h, ex, rows, s, m)
  PROVE  RowsLive'
<1>1. task' = task /\ task[TaskOf[r]].status # "deleted"
  BY DEF Admit, Flip
<1>2. /\ \A q \in Runs \ {r} : pc'[q] = pc[q] /\ row'[q] = row[q]
      /\ row'[r] \in OpenRows => \/ row'[r] = "queued" /\ pc'[r] = "gated"
                                 \/ row'[r] = "running" /\ pc'[r] = "running"
  BY DEF Admit, Flip, TypeOK
<1> QED
  BY <1>1, <1>2, RowsKept

LEMMA UnwindRows ==
  ASSUME TypeOK, RowsLive, up, NEW r \in Runs, Unwind(r), NEW o, o \notin OpenRows,
         IF Gone(r) THEN UNCHANGED <<task, row>>
         ELSE /\ row' = [row EXCEPT ![r] = o]
              /\ \E new \in NextRuns : Reschedule(r, new)
  PROVE  RowsLive'
<1>1. \A q \in Runs \ {r} : pc'[q] = pc[q]
  BY DEF Unwind, Ends, TypeOK
<1>2. \A t \in Tasks : task'[t].status = task[t].status
  BY RescheduleKeepsStatus
<1>3. row'[r] \notin OpenRows /\ \A q \in Runs \ {r} : row'[q] = row[q]
  BY DEF RowsLive, Gone, TypeOK
<1> QED
  BY <1>1, <1>2, <1>3, RowsKept

LEMMA CommitRows ==
  ASSUME TypeOK, RowsLive, up, NEW r \in Runs, pc[r] \in {"running", "finishing"},
         NEW o \in {"none", "success", "error", "raised"}, Commit(r, o)
  PROVE  RowsLive'
<1> DEFINE c    == Then[TaskOf[r]]
           runs == IF o = "success" /\ c # NoTask /\ task[c].status # "deleted"
                      /\ ~HasChainCycle(c) /\ Free(c) # {}
                   THEN {NewRun(c)} ELSE {}
<1>1. CASE Gone(r)
  <2>1. /\ \A q \in Runs \ {r} : pc'[q] = pc[q]
        /\ UNCHANGED <<task, row>> /\ row[r] \notin OpenRows
    BY <1>1 DEF Commit, Ends, RowsLive, Gone, TypeOK
  <2> QED
    BY <2>1, RowsKept
<1>2. CASE ~Gone(r)
  <2>1. /\ pc' = [x \in Runs |-> IF x = r THEN "none"
                                 ELSE IF x \in runs THEN "chained" ELSE pc[x]]
        /\ row' = [row EXCEPT ![r] = IF o = "raised" THEN "error" ELSE o]
    BY <1>2 DEF Commit
  <2>2. \A x \in runs : row[x] \notin OpenRows
    BY SchedulerAssumption, NewRunFree
  <2>3. \A t \in Tasks : task[t].status # "deleted" => task'[t].status # "deleted"
    <3>1. TaskOf[r] \in Tasks /\ task \in [Tasks -> TaskRows]
      BY SchedulerAssumption DEF TypeOK
    <3>2. \/ task' = task
          \/ \E v, st : task' = [task EXCEPT ![TaskOf[r]].nextRun = v,
                                           ![TaskOf[r]].status = st]
                       /\ st \in {"completed", task[TaskOf[r]].status}
      <4> DEFINE done == o # "raised" /\ seen[r].kind = "once"
                         /\ NextRunOf(seen[r].kind, seen[r].ahead) = "none"
      <4>1. \/ task' = task
            \/ \E v : task' = [task EXCEPT ![TaskOf[r]].nextRun = v,
                                ![TaskOf[r]].status = IF done THEN "completed" ELSE @]
        BY <1>2 DEF Commit
      <4> HIDE DEF done
      <4>2. CASE \E v : task' = [task EXCEPT ![TaskOf[r]].nextRun = v,
                                ![TaskOf[r]].status = IF done THEN "completed" ELSE @]
        <5>1. PICK v : task' = [task EXCEPT ![TaskOf[r]].nextRun = v,
                                ![TaskOf[r]].status = IF done THEN "completed" ELSE @]
          BY <4>2
        <5>2. CASE done
          BY <5>1, <5>2
        <5>3. CASE ~done
          <6>1. task' = [task EXCEPT ![TaskOf[r]].nextRun = v,
                                     ![TaskOf[r]].status = task[TaskOf[r]].status]
            BY <3>1, <5>1, <5>3 DEF TaskRows
          <6> QED
            BY <6>1
        <5> QED
          BY <5>2, <5>3
      <4> QED
        BY <4>1, <4>2
    <3>3. task[TaskOf[r]].status # "deleted"
      BY <1>2 DEF Gone
    <3>4. ASSUME NEW v, NEW st, st # "deleted",
                 task' = [task EXCEPT ![TaskOf[r]].nextRun = v, ![TaskOf[r]].status = st]
          PROVE  \A t \in Tasks : task[t].status # "deleted" => task'[t].status # "deleted"
      BY <3>1, <3>4 DEF TaskRows
    <3> QED
      BY <3>2, <3>3, <3>4
  <2> HIDE DEF runs
  <2>4. \A q \in Runs : row'[q] \in OpenRows => row'[q] = row[q] /\ pc'[q] = pc[q]
    BY <2>1, <2>2 DEF TypeOK, OpenRows
  <2> QED
    BY <2>3, <2>4, RowsKept
<1> QED
  BY <1>1, <1>2

LEMMA SpawnRows ==
  ASSUME TypeOK, RowsLive, up, NEW ts \in SUBSET Tasks, Spawn(ts), row' = row,
         \A t \in Tasks : task'[t].status = task[t].status
  PROVE  RowsLive'
<1>1. \A t \in ts : row[NewRun(t)] \notin OpenRows
  BY NewRunFree DEF Spawn
<1>2. \A q \in Runs : row[q] \in OpenRows => pc'[q] = pc[q]
  BY <1>1 DEF Spawn
<1> QED
  BY <1>2, RowsKept

LEMMA RunStepRows ==
  ASSUME TypeOK, RowsLive, NEW r \in Runs, RunStep(r) PROVE RowsLive'
<1> USE DEF fgVars, dbVars, runVars, memVars
<1>0. up /\ TaskOf[r] \in Tasks
  BY SchedulerAssumption DEF RunStep, Begin, DropChained, Acquire, OpenGate, Noop, Defer,
     Cancelled, Produce, Finish, FinishForced, FinishUnwinding, CancelledWaiting
<1>1. CASE Begin(r)
  <2> DEFINE t    == TaskOf[r]
             h    == [handle EXCEPT ![t] = r]
             ex   == IF pc[r] = "chained" THEN executing \union {t} ELSE executing
             rows == IF task[t].status = "deleted" THEN row
                     ELSE [row EXCEPT ![r] = "queued"]
             m    == IF mode[r] = "direct" /\ NeedsSlot(t) THEN "slot" ELSE mode[r]
             s    == IF m = "slot" THEN r ELSE slot
  <2>1. /\ rows \in [Runs -> RowStates] /\ \A q \in Runs \ {r} : rows[q] = row[q]
        /\ rows[r] \in OpenRows => rows[r] = "queued" /\ task[t].status # "deleted"
    BY <1>0, <1>1 DEF Begin, RowsLive, TypeOK, RowStates, OpenRows
  <2> HIDE DEF h, ex, rows, m, s
  <2>2. CASE Refuse(r, h, ex, rows, s)
    BY <1>0, <2>1, <2>2, RefuseRows
  <2>3. CASE Admit(r, h, ex, rows, s, m)
    BY <1>0, <2>1, <2>3, AdmitRows
  <2>4. CASE /\ pc' = [pc EXCEPT ![r] = "queued"] /\ row' = rows /\ task' = task
    <3>1. \A q \in Runs \ {r} : pc'[q] = pc[q] /\ row'[q] = row[q]
      BY <2>1, <2>4 DEF TypeOK
    <3>2. row'[r] \in OpenRows => row'[r] = "queued" /\ pc'[r] = "queued"
                                  /\ task'[TaskOf[r]].status # "deleted"
      BY <2>1, <2>4 DEF TypeOK
    <3> QED
      BY <1>0, <2>4, <3>1, <3>2, RowsKept
  <2> QED
    BY <1>1, <2>2, <2>3, <2>4 DEF Begin, h, ex, rows, m, s
<1>2. CASE DropChained(r)
  <2>1. row[r] \notin OpenRows
    BY <1>0, <1>2 DEF DropChained, RowsLive
  <2> QED
    BY <1>0, <1>2, <2>1, RowsKept DEF DropChained, TypeOK
<1>3. CASE Acquire(r)
  <2>1. row \in [Runs -> RowStates] /\ (row[r] \in OpenRows => row[r] = "queued")
    BY <1>0, <1>3 DEF Acquire, RowsLive, TypeOK
  <2> QED
    BY <1>0, <1>3, <2>1, RefuseRows, AdmitRows DEF Acquire
<1>4. CASE OpenGate(r)
  <2>1. CASE task[TaskOf[r]].status = "deleted"
    <3>1. UNCHANGED <<task, row>> /\ row[r] \notin OpenRows
          /\ \A q \in Runs \ {r} : pc'[q] = pc[q]
      BY <1>0, <1>4, <2>1 DEF OpenGate, Ends, RowsLive, TypeOK
    <3> QED
      BY <1>0, <3>1, RowsKept
  <2>2. CASE task[TaskOf[r]].status # "deleted"
    <3>1. /\ \A q \in Runs \ {r} : pc'[q] = pc[q] /\ row'[q] = row[q]
          /\ row'[r] = "running" /\ pc'[r] = "running" /\ task' = task
      BY <1>4, <2>2 DEF OpenGate, Flip, TypeOK
    <3> QED
      BY <1>0, <2>2, <3>1, RowsKept
  <2> QED
    BY <2>1, <2>2
<1>5. CASE Noop(r)
  <2>1. NextRunOf(seen[r].kind, seen[r].ahead) \in NextRuns /\ "skipped" \notin OpenRows
    BY NextRunType DEF NextRuns, OpenRows
  <2> QED
    BY <1>0, <1>5, <2>1, UnwindRows DEF Noop
<1>6. CASE Defer(r)
  <2>1. "later" \in NextRuns /\ "none" \notin OpenRows
    BY DEF NextRuns, OpenRows
  <2> QED
    BY <1>0, <1>6, <2>1, UnwindRows DEF Defer
<1>7. CASE Cancelled(r)
  <2>1. /\ (IF hit[r] THEN "later" ELSE NextRunOf(seen[r].kind, seen[r].ahead)) \in NextRuns
        /\ "aborted" \notin OpenRows
    BY NextRunType DEF NextRuns, OpenRows
  <2> QED
    BY <1>0, <1>7, <2>1, UnwindRows DEF Cancelled
<1>8. CASE Produce(r)
  <2>1. pc[r] = "running" /\ pc'[r] = "finishing" /\ UNCHANGED <<up, task, row>>
        /\ \A q \in Runs \ {r} : pc'[q] = pc[q]
    BY <1>8 DEF Produce, TypeOK
  <2> QED
    BY <1>0, <2>1 DEF RowsLive
<1>9. CASE Finish(r)
  <2>1. outcome[r] \in {"none", "success", "error", "raised"}
    BY DEF TypeOK
  <2> QED
    BY <1>9, <2>1, CommitRows DEF Finish
<1>10. CASE FinishForced(r)
  <2>1. PICK o \in {"success", "error", "raised"} : Commit(r, o)
    BY <1>10 DEF FinishForced
  <2> QED
    BY <1>10, <2>1, CommitRows DEF FinishForced
<1>11. CASE FinishUnwinding(r)
  <2>1. UNCHANGED <<task, row>> /\ row[r] \notin OpenRows
        /\ \A q \in Runs \ {r} : pc'[q] = pc[q]
    BY <1>0, <1>11 DEF FinishUnwinding, Ends, RowsLive, TypeOK
  <2> QED
    BY <1>0, <2>1, RowsKept
<1>12. CASE CancelledWaiting(r)
  <2>1. \A q \in Runs \ {r} : pc'[q] = pc[q] /\ row'[q] = row[q]
    BY <1>12 DEF CancelledWaiting, Ends, TypeOK
  <2>2. row'[r] \notin OpenRows
    BY <1>12 DEF CancelledWaiting, TypeOK, OpenRows
  <2>3. \A t \in Tasks : task'[t].status = task[t].status
    BY <1>0, <1>12 DEF CancelledWaiting, DeferIfDue, TypeOK, TaskRows
  <2> QED
    BY <1>0, <2>1, <2>2, <2>3, RowsKept
<1> QED
  BY <1>1, <1>2, <1>3, <1>4, <1>5, <1>6, <1>7, <1>8, <1>9, <1>10, <1>11, <1>12 DEF RunStep

LEMMA RequestRows ==
  ASSUME TypeOK, RowsLive, NEW t \in Tasks, Request(t) PROVE RowsLive'
<1> USE DEF fgVars, dbVars, runVars, memVars
<1>0. up /\ task \in [Tasks -> TaskRows]
  BY DEF Request, RunNow, ForceRun, Webhook, Stop, Pause, Resume, Revert, Delete, Create,
     Update, Exists, TypeOK
<1>1. CASE RunNow(t)
  BY <1>0, <1>1, SpawnRows DEF RunNow
<1>2. CASE ForceRun(t)
  <2>1. row[NewRun(t)] \notin OpenRows /\ UNCHANGED <<task, row>>
        /\ \A q \in Runs \ {NewRun(t)} : pc'[q] = pc[q]
    BY <1>2, NewRunFree DEF ForceRun, TypeOK
  <2> QED
    BY <1>0, <2>1, RowsKept
<1>3. CASE Webhook(t)
  <2>1. CASE t \in Unprivileged
    <3>1. \A x \in Tasks : task[x].status # "deleted" => task'[x].status # "deleted"
      BY <1>0, <1>3, <2>1 DEF Webhook, TaskRows
    <3> QED
      BY <1>0, <1>3, <2>1, <3>1, RowsKept DEF Webhook
  <2>2. CASE t \notin Unprivileged
    BY <1>0, <1>3, <2>2, SpawnRows DEF Webhook
  <2> QED
    BY <2>1, <2>2
<1>4. CASE Stop(t)
  <2>1. \A q \in Runs : row'[q] \in OpenRows => row'[q] = row[q]
    BY <1>4 DEF Stop, TypeOK, OpenRows
  <2> QED
    BY <1>0, <1>4, <2>1, RowsKept DEF Stop
<1>5. CASE Pause(t) \/ Resume(t) \/ Revert(t)
  <2>1. \A x \in Tasks : task[x].status # "deleted" => task'[x].status # "deleted"
    <3>1. CASE Pause(t)
      BY <1>0, <3>1 DEF Pause, TaskRows
    <3>2. CASE Resume(t)
      BY <1>0, <3>2 DEF Resume, TaskRows
    <3>3. CASE Revert(t)
      BY <1>0, <3>3 DEF Revert, DefaultRow
    <3> QED
      BY <1>5, <3>1, <3>2, <3>3
  <2>2. UNCHANGED <<row, pc>>
    BY <1>5 DEF Pause, Resume, Revert
  <2> QED
    BY <1>0, <2>1, <2>2, RowsKept
<1>6. CASE Delete(t)
  <2>1. \A q \in Runs : TaskOf[q] = t => row'[q] \notin OpenRows
    BY <1>6 DEF Delete, OpenRows
  <2>2. \A q \in Runs : TaskOf[q] # t => row'[q] = row[q] /\ task'[TaskOf[q]] = task[TaskOf[q]]
    BY <1>0, <1>6, SchedulerAssumption DEF Delete
  <2> QED
    BY <1>0, <1>6, <2>1, <2>2 DEF Delete, RowsLive
<1>7. ASSUME NEW k \in EditKinds, Create(t, k) PROVE RowsLive'
  <2>1. \A x \in Tasks : task[x].status # "deleted" => task'[x].status # "deleted"
    BY <1>0, <1>7 DEF Create, TaskRows
  <2> QED
    BY <1>0, <1>7, <2>1, RowsKept DEF Create
<1>8. ASSUME NEW k \in EditKinds, NEW resched \in BOOLEAN, Update(t, k, resched)
      PROVE  RowsLive'
  <2>1. \A x \in Tasks : task'[x].status = task[x].status
    BY <1>0, <1>8 DEF Update, TaskRows
  <2> QED
    BY <1>0, <1>8, <2>1, RowsKept DEF Update
<1> QED
  BY <1>1, <1>2, <1>3, <1>4, <1>5, <1>6, <1>7, <1>8 DEF Request

LEMMA RowsStep ==
  ASSUME TypeOK, RowsLive, "commit" \notin Faults, [Next]_vars PROVE RowsLive'
<1> USE DEF fgVars, dbVars, runVars, memVars
<1>0. task \in [Tasks -> TaskRows]
  BY DEF TypeOK
<1>1. CASE \E r \in Runs : RunStep(r)
  BY <1>1, RunStepRows
<1>2. CASE \/ \E r \in Runs : Reload(r) \/ Monitor(r)
           \/ ForegroundBegin \/ ForegroundEnd \/ UNCHANGED vars
  BY <1>2 DEF Reload, Monitor, ForegroundBegin, ForegroundEnd, vars, RowsLive
<1>3. CASE \E t \in Tasks : Request(t)
  BY <1>3, RequestRows
<1>4. ASSUME NEW t \in Tasks, Tick(t) PROVE RowsLive'
  <2>1. \A x \in Tasks : task'[x].status = task[x].status
    BY <1>0, <1>4 DEF Tick, TaskRows
  <2>2. \A q \in Runs : TaskOf[q] \in Tasks
    BY SchedulerAssumption
  <2> QED
    BY <1>4, <2>1, <2>2 DEF Tick, RowsLive
<1>5. ASSUME NEW e \in Events, HandleEvent(e) PROVE RowsLive'
  <2>1. \A x \in Tasks : task'[x].status = task[x].status
    BY <1>0, <1>5 DEF HandleEvent, Counted, TaskRows
  <2>2. up /\ row' = row /\ \E ts \in SUBSET Tasks : Spawn(ts)
    BY <1>5 DEF HandleEvent
  <2> QED
    BY <2>1, <2>2, SpawnRows
<1>6. CASE CheckDue
  <2>1. \A x \in Tasks : task'[x].status = task[x].status
    BY <1>0, <1>6 DEF CheckDue, TaskRows
  <2>2. up /\ row' = row /\ (pc' = pc \/ \E ts \in SUBSET Tasks : Spawn(ts))
    BY <1>6 DEF CheckDue
  <2> QED
    BY <2>1, <2>2, SpawnRows, RowsKept
<1>7. CASE StopBackground
  <2>1. \A q \in Runs : row'[q] \in OpenRows => row'[q] = row[q]
    BY <1>7 DEF StopBackground, Aborted, OpenRows
  <2> QED
    BY <1>7, <2>1, RowsKept DEF StopBackground
<1>8. CASE Crash
  BY <1>8 DEF Crash, RowsLive
<1>9. CASE Start
  BY <1>9 DEF Start, RowsLive, Aborted, OpenRows
<1>10. \A r \in Runs : ~FinishFails(r)
  BY DEF FinishFails
<1> QED
  BY <1>1, <1>2, <1>3, <1>4, <1>5, <1>6, <1>7, <1>8, <1>9, <1>10 DEF Next

\* While the server is up a row shown as queued or running has a coroutine that
\* will close it, provided the final commit does not fail in flush: then the
\* error path reaches neither of its commits.
THEOREM RowsHaveRuns ==
  ASSUME "commit" \notin Faults PROVE Spec => []NoPhantomRow
<1>1. Init => RowsLive
  BY DEF Init, RowsLive, OpenRows
<1>2. RowsLive => NoPhantomRow
  BY DEF RowsLive, NoPhantomRow, Live
<1>3. TypeOK /\ RowsLive /\ [Next]_vars => RowsLive'
  BY RowsStep
<1> QED
  BY <1>1, <1>2, <1>3, TypeCorrect, PTL DEF Spec

=============================================================================
