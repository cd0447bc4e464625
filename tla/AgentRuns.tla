----------------------------- MODULE AgentRuns -----------------------------
(***************************************************************************)
(* Detached chat runs, src/agent_runs.py, for one session (sessions share  *)
(* nothing).  A run drains the wrapped generator into a replay buffer and  *)
(* fans events out to its subscribers; a rapid second send replaces it.    *)
(*                                                                         *)
(* An event is its index in the buffer, so a buffer is its length.  A      *)
(* subscriber's queue holds the indices published since it registered,     *)
(* then perhaps the end sentinel: it is the interval head .. len-1 and a   *)
(* flag.  A cancelled drain task receives CancelledError at its next       *)
(* resumption.  The generator itself (routes/chat_routes.py) saves the     *)
(* response when it completes and when it is cancelled.                    *)
(***************************************************************************)
EXTENDS Integers, Sequences

CONSTANTS Runs, Clients, MaxEvents, NoRun

ASSUME AgentRunsAssumption == NoRun \notin Runs /\ MaxEvents \in Nat

VARIABLES
  cur,     \* _RUNS[session_id]
  pc,      \* the run's drain task
  status,  \* run.status
  prev,    \* prev_task handed to _drain
  cancel,  \* a cancellation waits for the drain task
  len,     \* len(run.buffer)
  timer,   \* runs whose evict_task is pending
  client   \* each subscribe() generator

vars == <<cur, pc, status, prev, cancel, len, timer, client>>

Idle == [phase |-> "off", run |-> NoRun, next |-> 0, head |-> 0, ended |-> FALSE,
         got |-> <<>>]

Done(r)  == pc[r] \in {"free", "ended"}
Subs(r)  == {c \in Clients : client[c].phase # "off" /\ client[c].run = r}
Reusable(r) == Done(r) /\ cur # r /\ Subs(r) = {} /\ r \notin timer
               /\ \A q \in Runs : prev[q] # r

Init ==
  /\ cur = NoRun
  /\ pc = [r \in Runs |-> "free"]
  /\ status = [r \in Runs |-> "done"]
  /\ prev = [r \in Runs |-> NoRun]
  /\ cancel = [r \in Runs |-> FALSE]
  /\ len = [r \in Runs |-> 0]
  /\ timer = {}
  /\ client = [c \in Clients |-> Idle]

\* _schedule_evict(session_id): (re)arm the timer of the session's current run.
ArmEvict == timer' = IF cur = NoRun THEN timer ELSE timer \union {cur}

\* start(): cancel the run in flight and hand its task to the new one.
\* Mutant: the run in flight is left running.
StartBeside(r) ==
  /\ Reusable(r)
  /\ prev' = [prev EXCEPT ![r] = NoRun]
  /\ timer' = timer \ {cur}
  /\ cur' = r
  /\ pc' = [pc EXCEPT ![r] = "created"]
  /\ status' = [status EXCEPT ![r] = "running"]
  /\ len' = [len EXCEPT ![r] = 0]
  /\ UNCHANGED <<cancel, client>>
Start(r) ==
  /\ Reusable(r)
  /\ IF cur # NoRun /\ ~Done(cur)
       THEN /\ cancel' = [cancel EXCEPT ![cur] = TRUE]
            /\ prev' = [prev EXCEPT ![r] = cur]
       ELSE UNCHANGED <<cancel, prev>>
  /\ timer' = timer \ {cur}
  /\ cur' = r
  /\ pc' = [pc EXCEPT ![r] = "created"]
  /\ status' = [status EXCEPT ![r] = "running"]
  /\ len' = [len EXCEPT ![r] = 0]
  /\ UNCHANGED client

\* stop(): cancel the current drain task unless it is done.
Stop ==
  /\ cur # NoRun /\ ~Done(cur)
  /\ cancel' = [cancel EXCEPT ![cur] = TRUE]
  /\ UNCHANGED <<cur, pc, status, prev, len, timer, client>>

\* A drain task cancelled before its first step, or in asyncio.wait, ends
\* outside the try block: no status, no sentinel, no timer.
DrainAborted(r) ==
  /\ pc[r] \in {"created", "waiting"} /\ cancel[r]
  /\ pc' = [pc EXCEPT ![r] = "ended"]
  /\ cancel' = [cancel EXCEPT ![r] = FALSE]
  /\ prev' = [prev EXCEPT ![r] = NoRun]
  /\ UNCHANGED <<cur, status, len, timer, client>>

\* First step, and the return of asyncio.wait: stream once the replaced task
\* is done.  Mutant: it is not awaited.
DrainBeginsAtOnce(r) ==
  /\ pc[r] \in {"created", "waiting"} /\ ~cancel[r]
  /\ pc' = [pc EXCEPT ![r] = "streaming"]
  /\ prev' = [prev EXCEPT ![r] = NoRun]
  /\ UNCHANGED <<cur, status, cancel, len, timer, client>>
DrainBegins(r) ==
  /\ pc[r] \in {"created", "waiting"} /\ ~cancel[r]
  /\ IF prev[r] # NoRun /\ ~Done(prev[r])
       THEN /\ pc[r] = "created"
            /\ pc' = [pc EXCEPT ![r] = "waiting"] /\ UNCHANGED prev
       ELSE /\ pc' = [pc EXCEPT ![r] = "streaming"]
            /\ prev' = [prev EXCEPT ![r] = NoRun]
  /\ UNCHANGED <<cur, status, cancel, len, timer, client>>

\* The end sentinel goes to every subscriber's queue.
Sentinel(r) ==
  client' = [c \in Clients |-> IF c \in Subs(r)
                               THEN [client[c] EXCEPT !.ended = TRUE] ELSE client[c]]

\* The finally block, without a suspension.  Mutant: no timer is armed.
FinallyUntimed(r) ==
  /\ pc' = [pc EXCEPT ![r] = "ended"]
  /\ cancel' = [cancel EXCEPT ![r] = FALSE]
  /\ Sentinel(r)
  /\ UNCHANGED <<cur, prev, timer>>
Finally(r) ==
  /\ pc' = [pc EXCEPT ![r] = "ended"]
  /\ cancel' = [cancel EXCEPT ![r] = FALSE]
  /\ Sentinel(r)
  /\ ArmEvict
  /\ UNCHANGED <<cur, prev>>

\* _publish: the queues are the interval head .. len-1, so they grow too.
Publish(r) ==
  /\ pc[r] = "streaming" /\ ~cancel[r] /\ len[r] < MaxEvents
  /\ len' = [len EXCEPT ![r] = @ + 1]
  /\ UNCHANGED <<cur, pc, status, prev, cancel, timer, client>>

Complete(r) ==
  /\ pc[r] = "streaming" /\ ~cancel[r]
  /\ status' = [status EXCEPT ![r] = "done"]
  /\ UNCHANGED len
  /\ Finally(r)

\* The generator raises: two closing events are published in the same step.
Fail(r) ==
  /\ pc[r] = "streaming" /\ ~cancel[r]
  /\ status' = [status EXCEPT ![r] = "error"]
  /\ len' = [len EXCEPT ![r] = @ + 2]
  /\ Finally(r)

\* CancelledError reaches the generator, which saves its partial response
\* before the exception comes back to _drain.
BeginSave(r) ==
  /\ pc[r] = "streaming" /\ cancel[r]
  /\ pc' = [pc EXCEPT ![r] = "saving"]
  /\ UNCHANGED <<cur, status, prev, cancel, len, timer, client>>
EndSave(r) ==
  /\ pc[r] = "saving"
  /\ status' = [status EXCEPT ![r] = "stopped"]
  /\ UNCHANGED len
  /\ Finally(r)

\* _evict wakes after the grace period.  Mutant: subscribers are not looked at.
EvictAnyway(r) ==
  /\ r \in timer /\ timer' = timer \ {r}
  /\ cur' = IF cur = r /\ status[r] # "running" THEN NoRun ELSE cur
  /\ UNCHANGED <<pc, status, prev, cancel, len, client>>
Evict(r) ==
  /\ r \in timer /\ timer' = timer \ {r}
  /\ cur' = IF cur = r /\ status[r] # "running" /\ Subs(r) = {} THEN NoRun ELSE cur
  /\ UNCHANGED <<pc, status, prev, cancel, len, client>>

-----------------------------------------------------------------------------
(* subscribe() *)

\* Register before replaying and cancel a pending eviction.
Subscribe(c) ==
  /\ client[c].phase = "off" /\ cur # NoRun
  /\ client' = [client EXCEPT ![c] =
       [Idle EXCEPT !.phase = "replay", !.run = cur, !.head = len[cur]]]
  /\ timer' = timer \ {cur}
  /\ UNCHANGED <<cur, pc, status, prev, cancel, len>>

\* The finally block of subscribe: the last one out of a finished run re-arms.
Leave(c) ==
  /\ client' = [client EXCEPT ![c] = Idle]
  /\ IF Subs(client[c].run) = {c} /\ status[client[c].run] # "running"
       THEN ArmEvict ELSE UNCHANGED timer

Got(c, seqs) == [client[c] EXCEPT !.got = @ \o seqs, !.next = @ + Len(seqs)]

\* One event of the buffer; when the buffer is exhausted, return from a
\* finished run or go live.
Replay(c) ==
  LET k == client[c] IN
  /\ k.phase = "replay"
  /\ \/ /\ k.next < len[k.run]
        /\ client' = [client EXCEPT ![c] = Got(c, <<k.next>>)]
        /\ UNCHANGED timer
     \/ /\ k.next = len[k.run] /\ status[k.run] = "running"
        /\ client' = [client EXCEPT ![c].phase = "live"]
        /\ UNCHANGED timer
     \/ /\ k.next = len[k.run] /\ status[k.run] # "running"
        /\ Leave(c)
  /\ UNCHANGED <<cur, pc, status, prev, cancel, len>>

\* One event from the queue; those already replayed are skipped.  Mutant:
\* they are delivered again.
ReceiveAll(c) ==
  LET k == client[c] IN
  /\ k.phase = "live" /\ k.head < len[k.run]
  /\ client' = [client EXCEPT ![c] = [Got(c, <<k.head>>) EXCEPT !.head = @ + 1]]
  /\ UNCHANGED <<cur, pc, status, prev, cancel, len, timer>>
Receive(c) ==
  LET k == client[c] IN
  /\ k.phase = "live" /\ k.head < len[k.run]
  /\ client' = [client EXCEPT ![c] =
       [(IF k.head >= k.next THEN Got(c, <<k.head>>) ELSE k) EXCEPT !.head = @ + 1]]
  /\ UNCHANGED <<cur, pc, status, prev, cancel, len, timer>>

\* Mutant of Close: a stream ends with its run, whatever its queue still holds.
CloseUnflushed(c) ==
  LET k == client[c] IN
  /\ k.phase = "live" /\ (k.ended \/ status[k.run] # "running")
  /\ Leave(c)
  /\ UNCHANGED <<cur, pc, status, prev, cancel, len>>

\* The queue is empty but for the sentinel, or the heartbeat timeout finds the
\* run finished: flush what is left of the buffer and return.
Close(c) ==
  LET k == client[c] IN
  /\ k.phase = "live" /\ k.head = len[k.run]
  /\ k.ended \/ status[k.run] # "running"
  /\ Leave(c)
  /\ UNCHANGED <<cur, pc, status, prev, cancel, len>>

\* The browser goes away at any suspension.
Disconnect(c) ==
  /\ client[c].phase # "off"
  /\ Leave(c)
  /\ UNCHANGED <<cur, pc, status, prev, cancel, len>>

-----------------------------------------------------------------------------
Drain(r) ==
  \/ DrainAborted(r) \/ DrainBegins(r) \/ Publish(r) \/ Complete(r) \/ Fail(r)
  \/ BeginSave(r) \/ EndSave(r)

Stream(c) == Replay(c) \/ Receive(c) \/ Close(c)

Next ==
  \/ \E r \in Runs : Start(r) \/ Drain(r) \/ Evict(r)
  \/ Stop
  \/ \E c \in Clients : Subscribe(c) \/ Stream(c) \/ Disconnect(c)

Spec == Init /\ [][Next]_vars

\* The event loop runs every drain task, timer and subscriber that can move;
\* a generator ends (its events are bounded here).
Fairness ==
  /\ \A r \in Runs : WF_vars(Drain(r)) /\ WF_vars(Evict(r))
  /\ \A c \in Clients : WF_vars(Stream(c))

FairSpec == Spec /\ Fairness

-----------------------------------------------------------------------------
TypeOK ==
  /\ cur \in Runs \union {NoRun}
  /\ pc \in [Runs -> {"free", "created", "waiting", "streaming", "saving", "ended"}]
  /\ status \in [Runs -> {"running", "done", "error", "stopped"}]
  /\ prev \in [Runs -> Runs \union {NoRun}]
  /\ cancel \in [Runs -> BOOLEAN]
  /\ len \in [Runs -> 0 .. MaxEvents + 2]
  /\ timer \subseteq Runs
  /\ \A c \in Clients :
       /\ client[c].phase \in {"off", "replay", "live"}
       /\ client[c].run \in Runs \union {NoRun}
       /\ client[c].next \in 0 .. MaxEvents + 2
       /\ client[c].head \in 0 .. MaxEvents + 2
       /\ client[c].ended \in BOOLEAN

\* A subscriber gets the events of its run once each and in order, however its
\* registration, its replay and the publications interleave.
InOrder ==
  \A c \in Clients : client[c].got = [i \in 1 .. client[c].next |-> i - 1]

\* A stream that closes by itself has delivered the whole buffer of a run that
\* is over: no event is lost between replay and queue, or behind the sentinel.
CompleteAtClose ==
  [][\A c \in Clients :
       (Replay(c) \/ Close(c)) /\ client'[c].phase = "off"
       => /\ client[c].next = len[client[c].run]
          /\ status[client[c].run] # "running"]_vars

\* Only the session's current run pulls events without having been told to stop.
OnlyCurrentStreams ==
  \A r \in Runs : pc[r] = "streaming" /\ ~cancel[r] => r = cur

\* A finished run without subscribers has a timer that will evict it, so no
\* buffer stays in memory for ever.
EvictionArmed ==
  cur # NoRun /\ status[cur] # "running" /\ Subs(cur) = {} => cur \in timer

\* A run somebody reads is not evicted under him: a reconnect finds it again.
NotEvictedWhileRead ==
  [][\A r \in Runs : cur = r /\ cur' = NoRun => Subs(r) = {}]_vars

\* At most one run of the session writes to it (streams or saves).
WritesSequential ==
  \A r, q \in Runs :
    pc[r] \in {"streaming", "saving"} /\ pc[q] \in {"streaming", "saving"} => r = q
=============================================================================
