-------------------------- MODULE AgentRunsProofs --------------------------
(***************************************************************************)
(* Proofs about AgentRuns for every set of runs and subscribers and every  *)
(* number of events: delivery, replacement and retention.                  *)
(***************************************************************************)
EXTENDS AgentRuns, SequenceTheorems, TLAPS

\* What the subscribers' queues rest on, besides their types: who left holds
\* nothing; a reader is inside the buffer of its run, and once it is live its
\* queue starts no later than what it was given; the sentinel is in the queue
\* of a finished run only; a run in progress has room for its closing events.
Phases == {"off", "replay", "live"}
Readers == [phase : Phases, run : Runs \union {NoRun}, next : Nat, head : Nat,
            ended : BOOLEAN, got : Seq(Nat)]
Working(r) == pc[r] \in {"created", "waiting", "streaming", "saving"}

RunTypes ==
  /\ cur \in Runs \union {NoRun}
  /\ pc \in [Runs -> {"free", "created", "waiting", "streaming", "saving", "ended"}]
  /\ status \in [Runs -> {"running", "done", "error", "stopped"}]
  /\ prev \in [Runs -> Runs \union {NoRun}]
  /\ cancel \in [Runs -> BOOLEAN]
  /\ len \in [Runs -> 0 .. MaxEvents + 2]
  /\ timer \subseteq Runs

Room == \A r \in Runs : Working(r) => len[r] <= MaxEvents /\ status[r] = "running"

\* The events a subscriber should have been given, in order.
Events(n) == [i \in 1 .. n |-> i - 1]
Given(k) == k.got = Events(k.next)

Placed(k) ==
  IF k.phase = "off" THEN k = Idle
  ELSE /\ k.run \in Runs
       /\ k.next <= len[k.run] /\ k.head <= len[k.run]
       /\ k.phase = "live" => k.head <= k.next
       /\ k.ended => status[k.run] # "running"

Delivery ==
  /\ RunTypes /\ Room
  /\ client \in [Clients -> Readers]
  /\ \A c \in Clients : Given(client[c]) /\ Placed(client[c])

-----------------------------------------------------------------------------
\* One more event makes the delivered events the next longer count.
LEMMA AppendOne ==
  ASSUME NEW n \in Nat, NEW s \in Seq(Nat), Len(s) = n, \A i \in 1 .. n : s[i] = i - 1
  PROVE  s \o <<n>> \in Seq(Nat) /\ s \o <<n>> = Events(n + 1)
<1>1. <<n>> \in Seq(Nat) /\ Len(<<n>>) = 1 /\ <<n>>[1] = n
  OBVIOUS
<1>2. /\ s \o <<n>> \in Seq(Nat) /\ Len(s \o <<n>>) = n + 1
      /\ \A i \in 1 .. n + 1 :
           (s \o <<n>>)[i] = IF i <= n THEN s[i] ELSE <<n>>[i - n]
  BY <1>1, ConcatProperties
<1>3. s \o <<n>> = [i \in 1 .. n + 1 |-> (s \o <<n>>)[i]]
  BY <1>2, LenProperties
<1>4. \A i \in 1 .. n + 1 : (s \o <<n>>)[i] = i - 1
  <2> TAKE i \in 1 .. n + 1
  <2>1. CASE i <= n
    BY <1>2, <2>1
  <2>2. CASE i = n + 1
    BY <1>1, <1>2, <2>2
  <2> QED
    BY <2>1, <2>2
<1> QED
  BY <1>2, <1>3, <1>4 DEF Events

LEMMA EventsSeq ==
  ASSUME NEW n \in Nat
  PROVE  Events(n) \in Seq(Nat) /\ Len(Events(n)) = n /\ \A i \in 1 .. n : Events(n)[i] = i - 1
<1>1. \A i \in 1 .. n : i - 1 \in Nat
  OBVIOUS
<1> QED
  BY <1>1, IsASeq, LenProperties DEF Events

\* The record of a reader that was given its next event.
LEMMA GivenNext ==
  ASSUME NEW k \in Readers, Given(k), NEW h \in Nat
  PROVE  \E l \in Readers :
           /\ l = [k EXCEPT !.got = k.got \o <<k.next>>, !.next = k.next + 1, !.head = h]
           /\ Given(l) /\ l.next = k.next + 1 /\ l.head = h
           /\ l.phase = k.phase /\ l.run = k.run /\ l.ended = k.ended
<1>1. k.next \in Nat /\ k.next + 1 \in Nat /\ k.got = Events(k.next)
  BY DEF Readers, Given
<1>2. k.got \o <<k.next>> \in Seq(Nat) /\ k.got \o <<k.next>> = Events(k.next + 1)
  BY <1>1, EventsSeq, AppendOne
<1>3. \A g \in Seq(Nat), n \in Nat :
        LET l == [k EXCEPT !.got = g, !.next = n, !.head = h] IN
        /\ l \in Readers /\ l.got = g /\ l.next = n /\ l.head = h
        /\ l.phase = k.phase /\ l.run = k.run /\ l.ended = k.ended
  BY DEF Readers
<1> DEFINE l == [k EXCEPT !.got = k.got \o <<k.next>>, !.next = k.next + 1, !.head = h]
<1>4. /\ l \in Readers /\ l.got = k.got \o <<k.next>> /\ l.next = k.next + 1 /\ l.head = h
      /\ l.phase = k.phase /\ l.run = k.run /\ l.ended = k.ended
  BY <1>1, <1>2, <1>3
<1>5. Given(l)
  BY <1>2, <1>4 DEF Given
<1> QED
  BY <1>4, <1>5

LEMMA DeliveryInit == Init => Delivery
<1> SUFFICES ASSUME Init PROVE Delivery
  OBVIOUS
<1>1. RunTypes /\ Room
  BY AgentRunsAssumption DEF Init, RunTypes, Room, Working
<1>2. <<>> \in Seq(Nat) /\ <<>> = Events(0)
  BY DEF Events
<1>3. Idle \in Readers /\ Given(Idle) /\ Placed(Idle)
  BY <1>2 DEF Idle, Readers, Phases, Given, Placed
<1> QED
  BY <1>1, <1>3 DEF Init, Delivery

\* The subscribers stay as they are: it is enough that no buffer shrinks and
\* that no finished run somebody reads starts again.
LEMMA DeliveryRunsMove ==
  ASSUME Delivery, RunTypes', Room', UNCHANGED client,
         \A r \in Runs : Subs(r) # {} =>
           /\ len[r] <= len'[r]
           /\ status[r] # "running" => status'[r] # "running"
  PROVE  Delivery'
<1> SUFFICES ASSUME NEW c \in Clients PROVE Given(client[c])' /\ Placed(client[c])'
  BY DEF Delivery
<1>1. Given(client[c])'
  BY DEF Delivery, Given
<1>2. Placed(client[c])'
  <2>1. CASE client[c].phase = "off"
    BY <2>1 DEF Delivery, Placed
  <2>2. CASE client[c].phase # "off"
    <3> DEFINE r == client[c].run
    <3>1. r \in Runs /\ c \in Subs(r)
      BY <2>2 DEF Delivery, Placed, Subs
    <3>2. /\ client[c].next \in Nat /\ client[c].head \in Nat
          /\ len[r] \in Nat /\ len'[r] \in Nat
      BY <3>1, AgentRunsAssumption DEF Delivery, Readers, RunTypes
    <3> QED
      BY <2>2, <3>1, <3>2 DEF Delivery, Placed
  <2> QED
    BY <2>1, <2>2
<1> QED
  BY <1>1, <1>2

\* One subscriber moves and the runs stay as they are.
LEMMA DeliveryOneMoves ==
  ASSUME Delivery, NEW c \in Clients, NEW k \in Readers, Given(k), Placed(k),
         client' = [client EXCEPT ![c] = k], timer' \subseteq Runs,
         UNCHANGED <<cur, pc, status, prev, cancel, len>>
  PROVE  Delivery'
<1>1. RunTypes' /\ Room'
  BY DEF Delivery, RunTypes, Room, Working
<1>2. client' \in [Clients -> Readers]
  BY DEF Delivery
<1>3. \A d \in Clients : Given(client[d])' /\ Placed(client[d])'
  BY DEF Delivery, Given, Placed
<1> QED
  BY <1>1, <1>2, <1>3 DEF Delivery

\* A run ends and puts the sentinel into its subscribers' queues.
LEMMA DeliverySentinel ==
  ASSUME Delivery, RunTypes', Room', NEW r \in Runs, Sentinel(r),
         status'[r] # "running", UNCHANGED cur,
         \A q \in Runs : len[q] <= len'[q] /\ (q # r => status'[q] = status[q])
  PROVE  Delivery'
<1>1. \A c \in Clients :
        client'[c] = IF c \in Subs(r) THEN [client[c] EXCEPT !.ended = TRUE] ELSE client[c]
  BY DEF Sentinel
<1>2. client' \in [Clients -> Readers]
  BY <1>1 DEF Sentinel, Delivery, Readers
<1> SUFFICES ASSUME NEW c \in Clients PROVE Given(client[c])' /\ Placed(client[c])'
  BY <1>2 DEF Delivery
<1>3. /\ client[c] \in Readers /\ client'[c].got = client[c].got
      /\ client'[c].next = client[c].next /\ client'[c].head = client[c].head
      /\ client'[c].run = client[c].run /\ client'[c].phase = client[c].phase
  BY <1>1 DEF Delivery, Readers
<1>4. Given(client[c])'
  BY <1>3 DEF Delivery, Given
<1>5. Placed(client[c])'
  <2>1. CASE client[c].phase = "off"
    BY <1>1, <2>1 DEF Delivery, Placed, Subs
  <2>2. CASE client[c].phase # "off"
    <3> DEFINE q == client[c].run
    <3>1. q \in Runs /\ (c \in Subs(r) <=> q = r)
      BY <2>2 DEF Delivery, Placed, Subs
    <3>2. /\ client[c].next \in Nat /\ client[c].head \in Nat
          /\ len[q] \in Nat /\ len'[q] \in Nat /\ len[q] <= len'[q]
      BY <1>3, <3>1, AgentRunsAssumption DEF Delivery, Readers, RunTypes
    <3>3. client'[c].next <= len'[q] /\ client'[c].head <= len'[q]
      BY <1>3, <2>2, <3>2 DEF Delivery, Placed
    <3>4. client'[c].ended => status'[q] # "running"
      BY <1>1, <2>2, <3>1 DEF Delivery, Placed
    <3>5. client'[c].phase = "live" => client'[c].head <= client'[c].next
      BY <1>3, <2>2 DEF Delivery, Placed
    <3> QED
      BY <1>3, <2>2, <3>1, <3>3, <3>4, <3>5 DEF Placed
  <2> QED
    BY <2>1, <2>2
<1> QED
  BY <1>4, <1>5

LEMMA ArmEvictTypes ==
  ASSUME RunTypes, ArmEvict PROVE timer' \subseteq Runs
BY DEF RunTypes, ArmEvict

LEMMA DeliveryStart ==
  ASSUME Delivery, NEW r \in Runs, Start(r) PROVE Delivery'
<1>1. RunTypes'
  <2>1. /\ cancel' \in [Runs -> BOOLEAN] /\ prev' \in [Runs -> Runs \union {NoRun}]
    BY DEF Start, Delivery, RunTypes
  <2>2. /\ cur' \in Runs \union {NoRun} /\ timer' \subseteq Runs
        /\ pc' \in [Runs -> {"free", "created", "waiting", "streaming", "saving", "ended"}]
        /\ status' \in [Runs -> {"running", "done", "error", "stopped"}]
    BY DEF Start, Delivery, RunTypes
  <2>3. len' \in [Runs -> 0 .. MaxEvents + 2]
    BY AgentRunsAssumption DEF Start, Delivery, RunTypes
  <2> QED
    BY <2>1, <2>2, <2>3 DEF RunTypes
<1>2. Room'
  BY AgentRunsAssumption DEF Start, Delivery, RunTypes, Room, Working, Reusable
<1>3. \A q \in Runs : Subs(q) # {} => len'[q] = len[q] /\ status'[q] = status[q]
  BY DEF Start, Reusable, Delivery, RunTypes
<1>4. \A q \in Runs : len[q] \in Nat
  BY AgentRunsAssumption DEF Delivery, RunTypes
<1>5. \A q \in Runs : Subs(q) # {} =>
        /\ len[q] <= len'[q]
        /\ status[q] # "running" => status'[q] # "running"
  BY <1>3, <1>4
<1>6. UNCHANGED client
  BY DEF Start
<1> QED
  BY <1>1, <1>2, <1>5, <1>6, DeliveryRunsMove

\* Steps of a drain task, of stop and of a timer that leave the readers alone.
LEMMA DeliveryQuiet ==
  ASSUME Delivery, NEW r \in Runs,
         Stop \/ DrainAborted(r) \/ DrainBegins(r) \/ Publish(r) \/ BeginSave(r) \/ Evict(r)
  PROVE  Delivery'
<1>1. RunTypes' /\ Room' /\ UNCHANGED <<status, client>>
  <2>1. CASE Stop
    BY <2>1, AgentRunsAssumption DEF Stop, Delivery, RunTypes, Room, Working
  <2>2. CASE DrainAborted(r)
    BY <2>2, AgentRunsAssumption DEF DrainAborted, Delivery, RunTypes, Room, Working
  <2>3. CASE DrainBegins(r)
    BY <2>3, AgentRunsAssumption DEF DrainBegins, Delivery, RunTypes, Room, Working
  <2>4. CASE Publish(r)
    BY <2>4, AgentRunsAssumption DEF Publish, Delivery, RunTypes, Room, Working
  <2>5. CASE BeginSave(r)
    BY <2>5, AgentRunsAssumption DEF BeginSave, Delivery, RunTypes, Room, Working
  <2>6. CASE Evict(r)
    BY <2>6, AgentRunsAssumption DEF Evict, Delivery, RunTypes, Room, Working
  <2> QED
    BY <2>1, <2>2, <2>3, <2>4, <2>5, <2>6
<1>2. \A q \in Runs : len[q] <= len'[q]
  BY AgentRunsAssumption
  DEF Delivery, RunTypes, Stop, DrainAborted, DrainBegins, Publish, BeginSave, Evict
<1> QED
  BY <1>1, <1>2, DeliveryRunsMove

LEMMA DeliveryEnds ==
  ASSUME Delivery, NEW r \in Runs, Complete(r) \/ Fail(r) \/ EndSave(r)
  PROVE  Delivery'
<1>1. /\ Working(r) /\ status' \in [Runs -> {"running", "done", "error", "stopped"}]
      /\ status'[r] # "running" /\ \A q \in Runs : q # r => status'[q] = status[q]
  BY DEF Delivery, RunTypes, Working, Complete, Fail, EndSave
<1>2. /\ len' \in [Runs -> 0 .. MaxEvents + 2]
      /\ \A q \in Runs : len[q] <= len'[q] /\ (q # r => len'[q] = len[q])
  BY <1>1, AgentRunsAssumption DEF Delivery, RunTypes, Room, Complete, Fail, EndSave
<1>3. Finally(r)
  BY DEF Complete, Fail, EndSave
<1>4. RunTypes'
  BY <1>1, <1>2, <1>3, ArmEvictTypes DEF Delivery, RunTypes, Finally
<1>5. Room'
  BY <1>1, <1>2, <1>3 DEF Delivery, RunTypes, Room, Working, Finally
<1> QED
  BY <1>1, <1>2, <1>3, <1>4, <1>5, DeliverySentinel DEF Finally

-----------------------------------------------------------------------------
\* A subscriber that leaves holds nothing.
LEMMA DeliveryLeave ==
  ASSUME Delivery, NEW c \in Clients, Leave(c),
         UNCHANGED <<cur, pc, status, prev, cancel, len>>
  PROVE  Delivery'
<1>1. <<>> \in Seq(Nat) /\ <<>> = Events(0)
  BY DEF Events
<1>2. Idle \in Readers /\ Given(Idle) /\ Placed(Idle)
  BY <1>1 DEF Idle, Readers, Phases, Given, Placed
<1>3. timer' \subseteq Runs
  BY ArmEvictTypes DEF Leave, Delivery, RunTypes
<1> QED
  BY <1>2, <1>3, DeliveryOneMoves DEF Leave

LEMMA DeliverySubscribe ==
  ASSUME Delivery, NEW c \in Clients, Subscribe(c) PROVE Delivery'
<1> DEFINE k == [Idle EXCEPT !.phase = "replay", !.run = cur, !.head = len[cur]]
<1>1. cur \in Runs /\ len[cur] \in Nat
  BY AgentRunsAssumption DEF Subscribe, Delivery, RunTypes
<1>2. <<>> \in Seq(Nat) /\ <<>> = Events(0)
  BY DEF Events
<1>3. /\ Idle \in Readers /\ Idle.next = 0 /\ Idle.ended = FALSE /\ Idle.got = <<>>
  BY <1>2 DEF Idle, Readers, Phases
<1>4. k \in Readers /\ Given(k) /\ Placed(k)
  <2>1. /\ k \in Readers /\ k.phase = "replay" /\ k.run = cur /\ k.next = 0
        /\ k.head = len[cur] /\ k.ended = FALSE /\ k.got = <<>>
    BY <1>1, <1>3 DEF Readers, Phases
  <2> HIDE DEF k
  <2> QED
    BY <1>1, <1>2, <2>1 DEF Given, Placed
<1> QED
  BY <1>4, DeliveryOneMoves DEF Subscribe, Delivery, RunTypes

LEMMA DeliveryReplay ==
  ASSUME Delivery, NEW c \in Clients, Replay(c) PROVE Delivery'
<1> DEFINE k == client[c]
<1>1. /\ k \in Readers /\ Given(k) /\ Placed(k) /\ k.phase = "replay"
      /\ UNCHANGED <<cur, pc, status, prev, cancel, len>> /\ timer \subseteq Runs
  BY DEF Replay, Delivery, RunTypes
<1>2. k.run \in Runs /\ k.next \in Nat /\ k.head \in Nat /\ len[k.run] \in Nat
  BY <1>1, AgentRunsAssumption DEF Readers, Placed, Delivery, RunTypes
<1>3. CASE /\ k.next < len[k.run] /\ UNCHANGED timer
           /\ client' = [client EXCEPT ![c] = Got(c, <<k.next>>)]
  <2>1. Len(<<k.next>>) = 1
    OBVIOUS
  <2>2. PICK l \in Readers :
          /\ l = [k EXCEPT !.got = k.got \o <<k.next>>, !.next = k.next + 1, !.head = k.head]
          /\ Given(l) /\ l.next = k.next + 1 /\ l.head = k.head
          /\ l.phase = k.phase /\ l.run = k.run /\ l.ended = k.ended
    BY <1>1, <1>2, GivenNext
  <2>3. Got(c, <<k.next>>) = l
    BY <1>1, <2>1, <2>2 DEF Got, Readers
  <2>4. Placed(l)
    BY <1>1, <1>2, <1>3, <2>2 DEF Placed
  <2> QED
    BY <1>1, <1>3, <2>2, <2>3, <2>4, DeliveryOneMoves
<1>4. CASE /\ k.next = len[k.run] /\ UNCHANGED timer
           /\ client' = [client EXCEPT ![c].phase = "live"]
  <2> DEFINE l == [k EXCEPT !.phase = "live"]
  <2>1. l \in Readers /\ Given(l)
    BY <1>1 DEF Readers, Phases, Given
  <2>2. Placed(l)
    BY <1>1, <1>2, <1>4 DEF Placed, Readers
  <2>3. client' = [client EXCEPT ![c] = l]
    BY <1>4
  <2> QED
    BY <1>1, <1>4, <2>1, <2>2, <2>3, DeliveryOneMoves
<1>5. CASE Leave(c)
  BY <1>1, <1>5, DeliveryLeave
<1> QED
  BY <1>3, <1>4, <1>5 DEF Replay

\* A live reader's queue never starts beyond what it was given, so what it
\* takes from the queue is either known or the next event.
LEMMA DeliveryReceive ==
  ASSUME Delivery, NEW c \in Clients, Receive(c) PROVE Delivery'
<1> DEFINE k == client[c]
<1>1. /\ k \in Readers /\ Given(k) /\ Placed(k) /\ k.phase = "live"
      /\ k.head < len[k.run]
      /\ UNCHANGED <<cur, pc, status, prev, cancel, len, timer>> /\ timer \subseteq Runs
  BY DEF Receive, Delivery, RunTypes
<1>2. /\ k.run \in Runs /\ k.next \in Nat /\ k.head \in Nat /\ len[k.run] \in Nat
      /\ k.head <= k.next
  BY <1>1, AgentRunsAssumption DEF Readers, Placed, Delivery, RunTypes
<1>3. CASE k.head >= k.next
  <2>1. k.head = k.next /\ k.head + 1 \in Nat /\ Len(<<k.head>>) = 1
    BY <1>2, <1>3
  <2>2. PICK l \in Readers :
          /\ l = [k EXCEPT !.got = k.got \o <<k.next>>, !.next = k.next + 1,
                           !.head = k.head + 1]
          /\ Given(l) /\ l.next = k.next + 1 /\ l.head = k.head + 1
          /\ l.phase = k.phase /\ l.run = k.run /\ l.ended = k.ended
    BY <1>1, <2>1, GivenNext
  <2>3. [Got(c, <<k.head>>) EXCEPT !.head = @ + 1] = l
    BY <1>1, <2>1, <2>2 DEF Got, Readers
  <2>4. Placed(l)
    BY <1>1, <1>2, <2>1, <2>2 DEF Placed
  <2>5. client' = [client EXCEPT ![c] = l]
    BY <1>3, <2>3 DEF Receive
  <2> QED
    BY <1>1, <2>2, <2>4, <2>5, DeliveryOneMoves
<1>4. CASE ~(k.head >= k.next)
  <2> DEFINE l == [k EXCEPT !.head = k.head + 1]
  <2>1. l \in Readers /\ Given(l)
    BY <1>1, <1>2 DEF Given, Readers
  <2>2. Placed(l)
    BY <1>1, <1>2, <1>4 DEF Placed, Readers
  <2>3. client' = [client EXCEPT ![c] = l]
    BY <1>4 DEF Receive
  <2> QED
    BY <1>1, <2>1, <2>2, <2>3, DeliveryOneMoves
<1> QED
  BY <1>3, <1>4

LEMMA DeliveryStep == Delivery /\ [Next]_vars => Delivery'
<1> SUFFICES ASSUME Delivery, [Next]_vars PROVE Delivery'
  OBVIOUS
<1>1. ASSUME NEW r \in Runs, Start(r) \/ Drain(r) \/ Evict(r) PROVE Delivery'
  BY <1>1, DeliveryStart, DeliveryQuiet, DeliveryEnds DEF Drain
<1>2. CASE Stop
  <2>1. cur \in Runs
    BY <1>2 DEF Stop, Delivery, RunTypes
  <2> QED
    BY <1>2, <2>1, DeliveryQuiet
<1>3. ASSUME NEW c \in Clients, Subscribe(c) \/ Stream(c) \/ Disconnect(c)
      PROVE  Delivery'
  BY <1>3, DeliverySubscribe, DeliveryReplay, DeliveryReceive, DeliveryLeave
  DEF Stream, Close, Disconnect
<1>4. CASE UNCHANGED vars
  <2>1. RunTypes' /\ Room' /\ UNCHANGED <<len, status, client>>
    BY <1>4 DEF vars, Delivery, RunTypes, Room, Working
  <2>2. \A q \in Runs : len[q] \in Nat
    BY AgentRunsAssumption DEF Delivery, RunTypes
  <2> QED
    BY <2>1, <2>2, DeliveryRunsMove
<1> QED
  BY <1>1, <1>2, <1>3, <1>4 DEF Next

LEMMA DeliveryHolds == Spec => []Delivery
BY DeliveryInit, DeliveryStep, PTL DEF Spec

-----------------------------------------------------------------------------
\* Every variable keeps its type, and no buffer outgrows its bound by more than
\* the two closing events of _drain's error path.
THEOREM TypesHold == Spec => []TypeOK
<1>1. Delivery => TypeOK
  <2> SUFFICES ASSUME Delivery, NEW c \in Clients
               PROVE  /\ client[c].phase \in {"off", "replay", "live"}
                      /\ client[c].run \in Runs \union {NoRun}
                      /\ client[c].next \in 0 .. MaxEvents + 2
                      /\ client[c].head \in 0 .. MaxEvents + 2
                      /\ client[c].ended \in BOOLEAN
    BY DEF Delivery, RunTypes, TypeOK
  <2>1. client[c] \in Readers /\ Placed(client[c])
    BY DEF Delivery
  <2>2. CASE client[c].phase = "off"
    BY <2>1, <2>2, AgentRunsAssumption DEF Placed, Idle, Readers
  <2>3. CASE client[c].phase # "off"
    <3>1. client[c].run \in Runs /\ len[client[c].run] \in 0 .. MaxEvents + 2
      BY <2>1, <2>3 DEF Placed, Delivery, RunTypes
    <3> QED
      BY <2>1, <2>3, <3>1, AgentRunsAssumption DEF Placed, Readers, Phases
  <2> QED
    BY <2>2, <2>3
<1> QED
  BY <1>1, DeliveryHolds, PTL

\* A subscriber gets the events of its run once each and in order, however its
\* registration, its replay and the publications interleave (subscribe, _publish).
THEOREM DeliveredInOrder == Spec => []InOrder
<1>1. Delivery => InOrder
  BY DEF Delivery, InOrder, Given, Events
<1> QED
  BY <1>1, DeliveryHolds, PTL

\* A stream that closes by itself has delivered the whole buffer of a run that
\* is over: nothing is lost between the replay and the queue or behind the
\* sentinel (subscribe).
THEOREM DeliveredWhole == Spec => CompleteAtClose
<1>1. Delivery /\ [Next]_vars =>
        [\A c \in Clients :
           (Replay(c) \/ Close(c)) /\ client'[c].phase = "off"
           => /\ client[c].next = len[client[c].run]
              /\ status[client[c].run] # "running"]_vars
  <2> SUFFICES ASSUME Delivery, NEW c \in Clients, client'[c].phase = "off",
                      Replay(c) \/ Close(c)
               PROVE  /\ client[c].next = len[client[c].run]
                      /\ status[client[c].run] # "running"
    OBVIOUS
  <2> DEFINE k == client[c]
  <2>1. k \in Readers /\ Placed(k) /\ client \in [Clients -> Readers]
    BY DEF Delivery
  <2>2. CASE Replay(c)
    <3>1. k.phase = "replay"
      BY <2>2 DEF Replay
    <3>2. ~(client' = [client EXCEPT ![c] = Got(c, <<k.next>>)])
      BY <2>1, <3>1 DEF Got, Readers
    <3>3. ~(client' = [client EXCEPT ![c].phase = "live"])
      BY <2>1 DEF Readers
    <3> QED
      BY <2>2, <3>2, <3>3 DEF Replay
  <2>3. CASE Close(c)
    <3>1. /\ k.phase = "live" /\ k.head = len[k.run]
          /\ k.ended \/ status[k.run] # "running"
      BY <2>3 DEF Close
    <3>2. /\ k.run \in Runs /\ k.next <= len[k.run] /\ k.head <= k.next
          /\ k.ended => status[k.run] # "running"
      BY <2>1, <3>1 DEF Placed
    <3>3. k.next \in Nat /\ len[k.run] \in Nat
      BY <2>1, <3>2, AgentRunsAssumption DEF Readers, Delivery, RunTypes
    <3> QED
      BY <3>1, <3>2, <3>3
  <2> QED
    BY <2>2, <2>3
<1> QED
  BY <1>1, DeliveryHolds, PTL DEF Spec, CompleteAtClose

-----------------------------------------------------------------------------
\* Whatever may still pull events, or would once its wait is over, is the
\* current run or was told to stop.
Told == \A r \in Runs :
          pc[r] \in {"created", "waiting", "streaming"} /\ ~cancel[r] => r = cur

LEMMA ToldStep == Delivery /\ Told /\ [Next]_vars => Told'
<1> SUFFICES ASSUME Delivery, Told, [Next]_vars PROVE Told'
  OBVIOUS
<1> USE DEF Delivery, RunTypes, Told
<1>1. ASSUME NEW r \in Runs, Start(r) PROVE Told'
  BY <1>1, AgentRunsAssumption DEF Start, Done
<1>2. ASSUME NEW r \in Runs, Drain(r) PROVE Told'
  <2>1. UNCHANGED cur
    BY <1>2 DEF Drain, DrainAborted, DrainBegins, Publish, Complete, Fail, BeginSave,
                EndSave, Finally
  <2>2. CASE DrainAborted(r) \/ BeginSave(r) \/ Complete(r) \/ Fail(r) \/ EndSave(r)
    BY <2>1, <2>2 DEF DrainAborted, BeginSave, Complete, Fail, EndSave, Finally
  <2>3. CASE DrainBegins(r) \/ Publish(r)
    BY <2>1, <2>3 DEF DrainBegins, Publish
  <2> QED
    BY <1>2, <2>2, <2>3 DEF Drain
<1>3. ASSUME NEW r \in Runs, Evict(r) PROVE Told'
  BY <1>3 DEF Evict, Room, Working
<1>4. CASE Stop
  BY <1>4 DEF Stop
<1>5. ASSUME NEW c \in Clients, Subscribe(c) \/ Stream(c) \/ Disconnect(c)
      PROVE  Told'
  BY <1>5 DEF Subscribe, Stream, Replay, Receive, Close, Disconnect
<1>6. CASE UNCHANGED vars
  BY <1>6 DEF vars
<1> QED
  BY <1>1, <1>2, <1>3, <1>4, <1>5, <1>6 DEF Next

\* Only the session's current run pulls events without having been told to stop
\* (start, stop, _evict).
THEOREM ReplacedStops == Spec => []OnlyCurrentStreams
<1>1. Init => Told
  BY DEF Init, Told
<1>2. Told => OnlyCurrentStreams
  BY DEF Told, OnlyCurrentStreams
<1> QED
  BY <1>1, <1>2, ToldStep, DeliveryHolds, PTL DEF Spec

-----------------------------------------------------------------------------
\* The last reader of the current run that leaves arms its timer.
LEMMA ArmedLeave ==
  ASSUME Delivery, EvictionArmed, NEW c \in Clients, Leave(c),
         UNCHANGED <<cur, status>>
  PROVE  EvictionArmed'
<1> SUFFICES ASSUME cur # NoRun, status[cur] # "running", Subs(cur)' = {}
             PROVE  cur \in timer'
  BY DEF EvictionArmed
<1>1. \A d \in Clients : d # c => client'[d] = client[d]
  BY DEF Leave, Delivery
<1>2. Subs(cur) \subseteq {c}
  BY <1>1 DEF Subs
<1>3. CASE Subs(cur) = {}
  BY <1>3 DEF EvictionArmed, Leave, ArmEvict
<1>4. CASE Subs(cur) # {}
  <2>1. Subs(cur) = {c} /\ client[c].run = cur
    BY <1>2, <1>4 DEF Subs
  <2> QED
    BY <2>1 DEF Leave, ArmEvict
<1> QED
  BY <1>3, <1>4

LEMMA ArmedStep == Delivery /\ EvictionArmed /\ [Next]_vars => EvictionArmed'
<1> SUFFICES ASSUME Delivery, EvictionArmed, [Next]_vars PROVE EvictionArmed'
  OBVIOUS
<1>1. ASSUME NEW r \in Runs, Start(r) PROVE EvictionArmed'
  BY <1>1 DEF Start, EvictionArmed, Delivery, RunTypes
<1>2. ASSUME NEW r \in Runs, Complete(r) \/ Fail(r) \/ EndSave(r) PROVE EvictionArmed'
  BY <1>2 DEF Complete, Fail, EndSave, Finally, ArmEvict, EvictionArmed
<1>3. ASSUME NEW r \in Runs,
             DrainAborted(r) \/ DrainBegins(r) \/ Publish(r) \/ BeginSave(r) \/ Stop
      PROVE  EvictionArmed'
  <2>1. UNCHANGED <<cur, status, timer, client>>
    BY <1>3 DEF DrainAborted, DrainBegins, Publish, BeginSave, Stop
  <2> QED
    BY <2>1 DEF EvictionArmed, Subs
<1>4. ASSUME NEW r \in Runs, Evict(r) PROVE EvictionArmed'
  BY <1>4 DEF Evict, EvictionArmed, Subs
<1>5. ASSUME NEW c \in Clients, Subscribe(c) PROVE EvictionArmed'
  <2>1. client'[c].phase = "replay" /\ client'[c].run = cur
    BY <1>5 DEF Subscribe, Delivery, Idle
  <2> QED
    BY <1>5, <2>1 DEF Subscribe, EvictionArmed, Subs
<1>6. ASSUME NEW c \in Clients, Stream(c) \/ Disconnect(c) PROVE EvictionArmed'
  <2>1. UNCHANGED <<cur, status>>
    BY <1>6 DEF Stream, Replay, Receive, Close, Disconnect
  <2>2. CASE Leave(c)
    BY <2>1, <2>2, ArmedLeave
  <2>3. CASE ~Leave(c)
    <3>1. /\ UNCHANGED timer /\ client[c].phase # "off"
          /\ client[c] \in Readers /\ client \in [Clients -> Readers]
      BY <1>6, <2>3 DEF Stream, Replay, Receive, Close, Disconnect, Delivery
    <3>2. CASE Replay(c)
      <4>1. client' = [client EXCEPT ![c] = Got(c, <<client[c].next>>)]
            \/ client' = [client EXCEPT ![c].phase = "live"]
        BY <2>3, <3>2 DEF Replay
      <4>2. /\ Got(c, <<client[c].next>>).phase = client[c].phase
            /\ Got(c, <<client[c].next>>).run = client[c].run
        BY <3>1 DEF Got, Readers
      <4>3. /\ \A d \in Clients : d # c => client'[d] = client[d]
            /\ client'[c].phase # "off" /\ client'[c].run = client[c].run
        BY <3>1, <4>1, <4>2 DEF Readers
      <4> QED
        BY <2>1, <3>1, <4>3 DEF EvictionArmed, Subs
    <3>3. CASE Receive(c)
      <4>1. \E k \in {client[c], Got(c, <<client[c].head>>)} :
              client' = [client EXCEPT ![c] = [k EXCEPT !.head = @ + 1]]
        BY <3>3 DEF Receive
      <4>2. /\ Got(c, <<client[c].head>>).phase = client[c].phase
            /\ Got(c, <<client[c].head>>).run = client[c].run
        BY <3>1 DEF Got, Readers
      <4>3. /\ \A d \in Clients : d # c => client'[d] = client[d]
            /\ client'[c].phase # "off" /\ client'[c].run = client[c].run
        <5>1. PICK k \in {client[c], Got(c, <<client[c].head>>)} :
                client' = [client EXCEPT ![c] = [k EXCEPT !.head = @ + 1]]
          BY <4>1
        <5>2. \A d \in Clients : d # c => client'[d] = client[d]
          BY <3>1, <5>1
        <5>3. client'[c] = [k EXCEPT !.head = @ + 1]
          BY <3>1, <5>1
        <5>4. /\ k.phase = client[c].phase /\ k.run = client[c].run
          BY <4>2, <5>1
        <5>5. client'[c].phase = k.phase /\ client'[c].run = k.run
          BY <3>1, <5>1, <5>3 DEF Readers, Got
        <5> QED
          BY <3>1, <5>2, <5>4, <5>5
      <4> QED
        BY <2>1, <3>1, <4>3 DEF EvictionArmed, Subs
    <3> QED
      BY <1>6, <2>3, <3>2, <3>3 DEF Stream, Close, Disconnect
  <2> QED
    BY <2>2, <2>3
<1>7. CASE UNCHANGED vars
  BY <1>7 DEF vars, EvictionArmed, Subs
<1>8. CASE Stop
  <2>1. cur \in Runs
    BY <1>8 DEF Stop, Delivery, RunTypes
  <2> QED
    BY <1>3, <1>8, <2>1
<1> QED
  BY <1>1, <1>2, <1>3, <1>4, <1>5, <1>6, <1>7, <1>8 DEF Next, Drain

\* A finished run without subscribers has a timer that will evict it, so no
\* buffer stays in memory for ever (_schedule_evict, _drain, subscribe).
THEOREM BuffersExpire == Spec => []EvictionArmed
<1>1. Init => EvictionArmed
  BY DEF Init, EvictionArmed
<1> QED
  BY <1>1, ArmedStep, DeliveryHolds, PTL DEF Spec

\* A run somebody reads is not evicted under him (_evict): no other step takes
\* the current run away either.
THEOREM ReadersKeepTheirRun == Spec => NotEvictedWhileRead
<1>1. Delivery /\ [Next]_vars =>
        [\A r \in Runs : cur = r /\ cur' = NoRun => Subs(r) = {}]_vars
  <2> SUFFICES ASSUME [Next]_vars, NEW r \in Runs, cur = r, cur' = NoRun
               PROVE  Subs(r) = {}
    OBVIOUS
  <2>1. \A q \in Runs : ~Start(q) /\ (Evict(q) => q = r /\ Subs(r) = {})
    BY AgentRunsAssumption DEF Start, Evict
  <2>2. cur' # cur
    BY AgentRunsAssumption
  <2> QED
    BY <2>1, <2>2 DEF Next, Drain, DrainAborted, DrainBegins, Publish, Complete, Fail,
       BeginSave, EndSave, Finally, Stop, Subscribe, Stream, Replay, Receive, Close,
       Disconnect, vars
<1> QED
  BY <1>1, DeliveryHolds, PTL DEF Spec, NotEvictedWhileRead

-----------------------------------------------------------------------------
\* The runs that are not over stand in a line: each waits for the one before
\* it, only the first may write, the session's current run is the last.  A rank
\* orders them; it is no part of the state.
Waits(r) == pc[r] \in {"created", "waiting"}
Writes(r) == pc[r] \in {"streaming", "saving"}
InLine(rank) ==
  /\ \A r, q \in Runs : ~Done(r) /\ ~Done(q) /\ rank[r] = rank[q] => r = q
  /\ \A r, q \in Runs : Waits(q) /\ ~Done(r) /\ rank[r] < rank[q]
       => /\ prev[q] \in Runs /\ ~Done(prev[q])
          /\ rank[r] <= rank[prev[q]]
  /\ \A q \in Runs : Waits(q) /\ prev[q] \in Runs /\ ~Done(prev[q])
       => rank[prev[q]] < rank[q]
  /\ \A r, q \in Runs : Writes(q) /\ ~Done(r) => rank[q] <= rank[r]
  /\ \A r \in Runs : ~Done(r) => cur \in Runs /\ ~Done(cur) /\ rank[r] <= rank[cur]
Lined == \E rank \in [Runs -> Nat] : InLine(rank)

\* A new run goes to the end of the line.
LEMMA LinedStart ==
  ASSUME Delivery, Lined, NEW r \in Runs, Start(r) PROVE Lined'
<1>1. PICK rank \in [Runs -> Nat] : InLine(rank)
  BY DEF Lined
<1>2. /\ Done(r) /\ cur # r /\ \A q \in Runs : prev[q] # r
      /\ pc' = [pc EXCEPT ![r] = "created"] /\ cur' = r
      /\ pc \in [Runs -> {"free", "created", "waiting", "streaming", "saving", "ended"}]
      /\ prev \in [Runs -> Runs \union {NoRun}]
  BY DEF Start, Reusable, Delivery, RunTypes
<1>3. /\ \A q \in Runs : q # r => (Done(q)' <=> Done(q)) /\ (Waits(q)' <=> Waits(q))
                                  /\ (Writes(q)' <=> Writes(q)) /\ prev'[q] = prev[q]
      /\ ~Done(r)' /\ Waits(r)' /\ ~Writes(r)'
  BY <1>2 DEF Done, Waits, Writes, Start
<1>4. CASE cur \in Runs /\ ~Done(cur)
  <2>1. PICK f \in [Runs -> Nat] :
          f[r] = rank[cur] + 1 /\ \A q \in Runs : q # r => f[q] = rank[q]
    <3>1. [rank EXCEPT ![r] = rank[cur] + 1] \in [Runs -> Nat]
      BY <1>4
    <3> QED
      BY <3>1
  <2>2. prev'[r] = cur
    BY <1>2, <1>4, AgentRunsAssumption DEF Start
  <2>3. \A q \in Runs : ~Done(q) => rank[q] <= rank[cur] /\ rank[q] \in Nat
    BY <1>1 DEF InLine
  <2>4. \A q \in Runs : q # r /\ ~Done(q) => f[q] < f[r] /\ f[q] # f[r]
    BY <1>4, <2>1, <2>3
  <2>5. \A p, q \in Runs : ~Done(p)' /\ ~Done(q)' /\ f[p] = f[q] => p = q
    BY <1>1, <1>3, <2>1, <2>4 DEF InLine
  <2>6. ASSUME NEW p \in Runs, NEW q \in Runs, Waits(q)', ~Done(p)', f[p] < f[q]
        PROVE  prev'[q] \in Runs /\ ~Done(prev[q])' /\ f[p] <= f[prev'[q]]
    <3>1. CASE q = r
      <4>1. p # r /\ ~Done(p) /\ rank[p] <= rank[cur] /\ f[p] = rank[p] /\ f[cur] = rank[cur]
        BY <1>2, <1>3, <1>4, <2>1, <2>3, <2>6, <3>1
      <4> QED
        BY <1>2, <1>3, <1>4, <2>2, <3>1, <4>1
    <3>2. CASE q # r
      <4>1. /\ p # r /\ Waits(q) /\ ~Done(q)
        BY <1>3, <2>1, <2>4, <2>6, <3>2 DEF Waits, Done
      <4>2. /\ ~Done(p) /\ rank[p] < rank[q]
        BY <1>3, <2>1, <2>6, <3>2, <4>1
      <4>3. /\ prev[q] \in Runs /\ ~Done(prev[q]) /\ rank[p] <= rank[prev[q]] /\ prev[q] # r
        BY <1>1, <1>2, <4>1, <4>2 DEF InLine
      <4> QED
        BY <1>3, <2>1, <3>2, <4>1, <4>3
    <3> QED
      BY <3>1, <3>2
  <2>7. ASSUME NEW q \in Runs, Waits(q)', prev'[q] \in Runs, ~Done(prev[q])'
        PROVE  f[prev'[q]] < f[q]
    <3>1. CASE q = r
      BY <1>2, <1>4, <2>2, <2>4, <3>1
    <3>2. CASE q # r
      BY <1>1, <1>2, <1>3, <2>1, <2>7, <3>2 DEF InLine
    <3> QED
      BY <3>1, <3>2
  <2>8. ASSUME NEW p \in Runs, NEW q \in Runs, Writes(q)', ~Done(p)' PROVE f[q] <= f[p]
    <3>1. q # r /\ Writes(q) /\ ~Done(q)
      BY <1>3, <2>8 DEF Writes, Done
    <3>2. CASE p = r
      BY <2>1, <2>4, <3>1, <3>2
    <3>3. CASE p # r
      BY <1>1, <1>3, <2>1, <2>8, <3>1, <3>3 DEF InLine
    <3> QED
      BY <3>2, <3>3
  <2>9. \A p \in Runs : ~Done(p)' => cur' \in Runs /\ ~Done(cur)' /\ f[p] <= f[cur']
    <3> TAKE p \in Runs
    <3>1. cur' = r /\ ~Done(cur)'
      BY <1>2, <1>3
    <3>2. CASE p = r
      BY <2>1, <3>1, <3>2
    <3>3. CASE p # r
      BY <1>3, <2>1, <2>4, <3>1, <3>3
    <3> QED
      BY <3>2, <3>3
  <2>10. InLine(f)'
    BY <2>5, <2>6, <2>7, <2>8, <2>9 DEF InLine
  <2> QED
    BY <2>10 DEF Lined
<1>5. CASE ~(cur \in Runs /\ ~Done(cur))
  <2>1. \A q \in Runs : Done(q)
    BY <1>1, <1>5 DEF InLine
  <2>2. prev' = prev
    BY <1>5, AgentRunsAssumption DEF Start, Delivery, RunTypes
  <2>3. \A q \in Runs : ~Done(q)' => q = r
    BY <1>3, <2>1
  <2>4. \A q \in Runs : (Waits(q)' \/ Writes(q)') => q = r
    BY <2>3 DEF Waits, Writes, Done
  <2>5. prev'[r] # r
    BY <1>2, <2>2
  <2>6. \A p \in Runs : ~Done(p)' => cur' \in Runs /\ ~Done(cur)' /\ rank[p] <= rank[cur']
    BY <1>2, <1>3, <2>3
  <2>7. \A p, q \in Runs : Waits(q)' /\ ~Done(p)' => ~(rank[p] < rank[q])
    BY <2>3, <2>4
  <2>8. \A p, q \in Runs : Writes(q)' => ~Writes(q)
    BY <2>1 DEF Writes, Done
  <2>9. \A p, q \in Runs : Writes(q)' /\ ~Done(p)' => rank[q] <= rank[p]
    BY <2>3, <2>4
  <2>10. \A q \in Runs : Waits(q)' /\ prev'[q] \in Runs => Done(prev[q])'
    BY <2>3, <2>4, <2>5
  <2>11. InLine(rank)'
    BY <2>3, <2>6, <2>7, <2>9, <2>10 DEF InLine
  <2> QED
    BY <2>11 DEF Lined
<1> QED
  BY <1>4, <1>5

\* The first of the line ends: nobody waited for another than it.
LEMMA LinedEnds ==
  ASSUME NEW rank \in [Runs -> Nat], InLine(rank), NEW r \in Runs,
         pc \in [Runs -> {"free", "created", "waiting", "streaming", "saving", "ended"}],
         ~Done(r), \A p \in Runs : ~Done(p) => rank[r] <= rank[p],
         pc' = [pc EXCEPT ![r] = "ended"], cur' = cur,
         \A q \in Runs : q # r => prev'[q] = prev[q]
  PROVE  Lined'
<1>1. /\ \A q \in Runs : q # r => (Done(q)' <=> Done(q)) /\ (Waits(q)' <=> Waits(q))
                                  /\ (Writes(q)' <=> Writes(q)) /\ prev'[q] = prev[q]
      /\ Done(r)' /\ ~Waits(r)' /\ ~Writes(r)'
  BY DEF Done, Waits, Writes
<1>2. \A p \in Runs : ~Done(p)' => p # r /\ ~Done(p) /\ rank[r] < rank[p]
  <2> SUFFICES ASSUME NEW p \in Runs, ~Done(p)' PROVE p # r /\ ~Done(p) /\ rank[r] < rank[p]
    OBVIOUS
  <2>1. p # r /\ ~Done(p) /\ rank[r] <= rank[p] /\ rank[r] # rank[p]
    BY <1>1 DEF InLine
  <2> QED
    BY <2>1
<1>3. \A p, q \in Runs : ~Done(p)' /\ ~Done(q)' /\ rank[p] = rank[q] => p = q
  BY <1>2 DEF InLine
<1>4. ASSUME NEW p \in Runs, NEW q \in Runs, Waits(q)', ~Done(p)', rank[p] < rank[q]
      PROVE  prev'[q] \in Runs /\ ~Done(prev[q])' /\ rank[p] <= rank[prev'[q]]
  <2>1. q # r /\ Waits(q) /\ p # r /\ ~Done(p) /\ rank[r] < rank[p] /\ prev'[q] = prev[q]
    BY <1>1, <1>2, <1>4
  <2>2. prev[q] \in Runs /\ ~Done(prev[q]) /\ rank[p] <= rank[prev[q]]
    BY <1>4, <2>1 DEF InLine
  <2>3. prev[q] # r
    BY <2>1, <2>2
  <2> QED
    BY <1>1, <2>1, <2>2, <2>3
<1>5. ASSUME NEW q \in Runs, Waits(q)', prev'[q] \in Runs, ~Done(prev[q])'
      PROVE  rank[prev'[q]] < rank[q]
  BY <1>1, <1>5 DEF InLine
<1>6. ASSUME NEW p \in Runs, NEW q \in Runs, Writes(q)', ~Done(p)' PROVE rank[q] <= rank[p]
  BY <1>1, <1>2, <1>6 DEF InLine
<1>7. ASSUME NEW p \in Runs, ~Done(p)'
      PROVE  cur' \in Runs /\ ~Done(cur)' /\ rank[p] <= rank[cur']
  <2>1. cur \in Runs /\ ~Done(cur) /\ rank[p] <= rank[cur] /\ rank[r] < rank[p]
    BY <1>2, <1>7 DEF InLine
  <2>2. cur # r
    BY <2>1
  <2> QED
    BY <1>1, <2>1, <2>2
<1>8. InLine(rank)'
  BY <1>3, <1>4, <1>5, <1>6, <1>7 DEF InLine
<1> QED
  BY <1>8 DEF Lined

\* A run begins to stream once the run it waits for is over: it is the first.
LEMMA LinedBegins ==
  ASSUME Delivery, Lined, NEW r \in Runs, DrainBegins(r) PROVE Lined'
<1>1. PICK rank \in [Runs -> Nat] : InLine(rank)
  BY DEF Lined
<1>2. /\ Waits(r) /\ cur' = cur
      /\ pc \in [Runs -> {"free", "created", "waiting", "streaming", "saving", "ended"}]
      /\ prev \in [Runs -> Runs \union {NoRun}]
  BY DEF DrainBegins, Delivery, RunTypes, Waits
<1>3. CASE prev[r] # NoRun /\ ~Done(prev[r])
  <2>1. pc' = [pc EXCEPT ![r] = "waiting"] /\ prev' = prev
    BY <1>3 DEF DrainBegins
  <2>2. \A q \in Runs : (Done(q)' <=> Done(q)) /\ (Waits(q)' <=> Waits(q))
                        /\ (Writes(q)' <=> Writes(q))
    BY <1>2, <2>1 DEF Done, Waits, Writes
  <2>3. InLine(rank)'
    BY <1>1, <1>2, <2>1, <2>2 DEF InLine
  <2> QED
    BY <2>3 DEF Lined
<1>4. CASE ~(prev[r] # NoRun /\ ~Done(prev[r]))
  <2>1. pc' = [pc EXCEPT ![r] = "streaming"] /\ prev' = [prev EXCEPT ![r] = NoRun]
    BY <1>4 DEF DrainBegins
  <2>2. /\ \A q \in Runs : q # r => (Done(q)' <=> Done(q)) /\ (Waits(q)' <=> Waits(q))
                                    /\ (Writes(q)' <=> Writes(q)) /\ prev'[q] = prev[q]
        /\ ~Done(r) /\ ~Done(r)' /\ ~Waits(r)' /\ Writes(r)'
    BY <1>2, <2>1 DEF Done, Waits, Writes
  <2>3. \A q \in Runs : Done(q)' <=> Done(q)
    BY <2>2
  <2>4. \A p \in Runs : ~Done(p) => ~(rank[p] < rank[r])
    BY <1>1, <1>2, <1>4, AgentRunsAssumption DEF InLine
  <2>5. \A p \in Runs : ~Done(p) => rank[r] <= rank[p]
    BY <2>4
  <2>6. \A p, q \in Runs : Writes(q)' /\ ~Done(p)' => rank[q] <= rank[p]
    BY <1>1, <2>2, <2>3, <2>5 DEF InLine
  <2>7. \A p, q \in Runs : Waits(q)' /\ ~Done(p)' /\ rank[p] < rank[q]
          => prev'[q] \in Runs /\ ~Done(prev[q])' /\ rank[p] <= rank[prev'[q]]
    BY <1>1, <2>2, <2>3 DEF InLine
  <2>8. \A q \in Runs : Waits(q)' /\ prev'[q] \in Runs /\ ~Done(prev[q])'
          => rank[prev'[q]] < rank[q]
    BY <1>1, <2>2, <2>3 DEF InLine
  <2>9. \A p \in Runs : ~Done(p)' => cur' \in Runs /\ ~Done(cur)' /\ rank[p] <= rank[cur']
    BY <1>1, <1>2, <2>3 DEF InLine
  <2>10. InLine(rank)'
    BY <1>1, <2>3, <2>6, <2>7, <2>8, <2>9 DEF InLine
  <2> QED
    BY <2>10 DEF Lined
<1> QED
  BY <1>3, <1>4

\* No drain task is cancelled away while the run it replaced is still there:
\* DrainAborted outside that case breaks the line (the replacement after it
\* would wait for a task that is over), which start() does not prevent.
HandedOver(r) == prev[r] = NoRun \/ Done(prev[r])
LineKept == [][\A r \in Runs : DrainAborted(r) => HandedOver(r)]_vars

LEMMA LinedStep ==
  ASSUME Delivery, Lined, [Next]_vars, [\A r \in Runs : DrainAborted(r) => HandedOver(r)]_vars
  PROVE  Lined'
<1>1. PICK rank \in [Runs -> Nat] : InLine(rank)
  BY DEF Lined
<1>2. pc \in [Runs -> {"free", "created", "waiting", "streaming", "saving", "ended"}]
      /\ prev \in [Runs -> Runs \union {NoRun}]
  BY DEF Delivery, RunTypes
<1>3. CASE UNCHANGED <<cur, pc, prev>>
  BY <1>1, <1>3 DEF Lined, InLine, Done, Waits, Writes
<1>4. ASSUME NEW r \in Runs, Start(r) PROVE Lined'
  BY <1>4, LinedStart
<1>5. ASSUME NEW r \in Runs, DrainAborted(r), ~UNCHANGED vars PROVE Lined'
  <2>1. HandedOver(r)
    BY <1>5
  <2>2. Waits(r) /\ ~Done(r) /\ pc' = [pc EXCEPT ![r] = "ended"] /\ cur' = cur
        /\ \A q \in Runs : q # r => prev'[q] = prev[q]
    BY <1>2, <1>5 DEF DrainAborted, Waits, Done
  <2>3. \A p \in Runs : ~Done(p) => ~(rank[p] < rank[r])
    BY <1>1, <2>1, <2>2, AgentRunsAssumption DEF InLine, HandedOver
  <2>4. \A p \in Runs : ~Done(p) => rank[r] <= rank[p]
    BY <2>3
  <2> QED
    BY <1>1, <1>2, <2>2, <2>4, LinedEnds
<1>6. ASSUME NEW r \in Runs, DrainBegins(r) PROVE Lined'
  BY <1>6, LinedBegins
<1>7. ASSUME NEW r \in Runs, Complete(r) \/ Fail(r) \/ EndSave(r) PROVE Lined'
  <2>1. Writes(r) /\ ~Done(r) /\ pc' = [pc EXCEPT ![r] = "ended"] /\ cur' = cur /\ prev' = prev
    BY <1>7 DEF Complete, Fail, EndSave, Finally, Writes, Done
  <2>2. \A p \in Runs : ~Done(p) => rank[r] <= rank[p]
    BY <1>1, <2>1 DEF InLine
  <2> QED
    BY <1>1, <1>2, <2>1, <2>2, LinedEnds
<1>8. ASSUME NEW r \in Runs, BeginSave(r) PROVE Lined'
  <2>1. \A q \in Runs : (Done(q)' <=> Done(q)) /\ (Waits(q)' <=> Waits(q))
                        /\ (Writes(q)' <=> Writes(q))
    BY <1>2, <1>8 DEF BeginSave, Done, Waits, Writes
  <2>2. InLine(rank)'
    BY <1>1, <2>1, <1>8 DEF InLine, BeginSave
  <2> QED
    BY <2>2 DEF Lined
<1>9. ASSUME NEW r \in Runs, Evict(r) PROVE Lined'
  <2>1. pc' = pc /\ prev' = prev
    BY <1>9 DEF Evict
  <2>2. CASE cur' = cur
    BY <1>3, <2>1, <2>2
  <2>3. CASE cur' # cur
    <3>1. cur = r /\ Done(r)
      BY <1>2, <1>9, <2>3 DEF Evict, Delivery, Room, Working, Done
    <3>2. \A q \in Runs : Done(q)
      BY <1>1, <3>1 DEF InLine
    <3>3. \A q \in Runs : Done(q)' /\ ~Waits(q)' /\ ~Writes(q)'
      BY <2>1, <3>2 DEF Done, Waits, Writes
    <3>4. InLine(rank)'
      BY <3>3 DEF InLine
    <3> QED
      BY <3>4 DEF Lined
  <2> QED
    BY <2>2, <2>3
<1>10. CASE \/ \E r \in Runs : Publish(r)
            \/ Stop
            \/ \E c \in Clients : Subscribe(c) \/ Stream(c) \/ Disconnect(c)
            \/ UNCHANGED vars
  BY <1>3, <1>10 DEF Publish, Stop, Subscribe, Stream, Replay, Receive, Close, Disconnect, vars
<1> QED
  BY <1>4, <1>5, <1>6, <1>7, <1>8, <1>9, <1>10 DEF Next, Drain

\* At most one run of the session writes to it, however many sends replace each
\* other (start, _drain: await asyncio.wait({prev_task})), as long as no
\* replacement is itself cancelled before the run it replaced is over.
THEOREM SavesInOrder == Spec /\ LineKept => []WritesSequential
<1>1. Init => Lined
  <2> SUFFICES ASSUME Init PROVE Lined
    OBVIOUS
  <2>1. \A r \in Runs : Done(r) /\ ~Waits(r) /\ ~Writes(r)
    BY DEF Init, Done, Waits, Writes
  <2>2. InLine([r \in Runs |-> 0])
    BY <2>1 DEF InLine
  <2>3. [r \in Runs |-> 0] \in [Runs -> Nat]
    OBVIOUS
  <2> QED
    BY <2>2, <2>3 DEF Lined
<1>2. Lined => WritesSequential
  <2> SUFFICES ASSUME NEW rank \in [Runs -> Nat], InLine(rank), NEW r \in Runs, NEW q \in Runs,
                      Writes(r), Writes(q)
               PROVE  r = q
    BY DEF Lined, WritesSequential, Writes
  <2>1. ~Done(r) /\ ~Done(q)
    BY DEF Writes, Done
  <2>2. rank[r] <= rank[q] /\ rank[q] <= rank[r]
    BY <2>1 DEF InLine
  <2>3. rank[r] = rank[q]
    BY <2>2
  <2> QED
    BY <2>1, <2>3 DEF InLine
<1> QED
  BY <1>1, <1>2, LinedStep, DeliveryHolds, PTL DEF Spec, LineKept

=============================================================================
