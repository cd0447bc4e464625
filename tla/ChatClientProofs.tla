-------------------------- MODULE ChatClientProofs --------------------------
(***************************************************************************)
(* What is proved of the chat pane for any number of sessions and sends.   *)
(* The types come first.  Then every step of the pane is shown to do one   *)
(* of seven things to the sends on their way (lemma SendMoves), and the    *)
(* two safety properties follow move by move.                              *)
(***************************************************************************)
EXTENDS ChatClient, SequenceTheorems, TLAPS

-----------------------------------------------------------------------------
(* Types. *)

Places == {"free", "queued", "promoted", "dropped", "switching", "preparing", "over"}
            \union Reading
BgStatus == {"none", "running", "completed", "error"}

\* The parts of ChatTypeOK that do not speak of the queue.
PaneTypes ==
  /\ cur \in Sessions /\ isStreaming \in BOOLEAN
  /\ drainTimer \in BOOLEAN /\ hideNext \in BOOLEAN /\ loading \in BOOLEAN
  /\ activeStreams \in [Sessions -> Sends \union {NoSend}]
  /\ bgStreams \in [Sessions -> BgStatus]

SendTypes ==
  /\ pc \in [Sends -> Places]
  /\ home \in [Sends -> Sessions] /\ sess \in [Sends -> Sessions]
  /\ wire \in [Sends -> {"none", "open", "done", "cut", "dead", "refused"}]
  /\ aborted \subseteq Sends /\ hidden \subseteq Sends /\ handshakes \subseteq Sends
  /\ promoted \in Sends \union {NoSend} /\ recovering \in Sends \union {NoSend}
  /\ probe \in Sends \union {NoSend}
  /\ nudges \in 0 .. NudgeCap

ViewTypes ==
  /\ run \in [Sessions -> Sends \union {NoSend}]
  /\ resumed \in [Sessions -> Sends \union {NoSend}]
  /\ rejoin \in [Sessions -> {"no", "asking", "joining"}]
  /\ stopMail \subseteq Sessions /\ polls \subseteq Sessions

\* What waits is where the queue and the promote timer say it is.
QueueKept ==
  /\ queued \in Seq(Sends)
  /\ \A i \in DOMAIN queued : pc[queued[i]] = "queued"
  /\ IsInjective(queued)
  /\ promoted # NoSend => pc[promoted] = "promoted"

ChatTypes == PaneTypes /\ SendTypes /\ ViewTypes /\ QueueKept

LEMMA ChatTypesGive == ChatTypes => ChatTypeOK
  BY DEF ChatTypes, PaneTypes, SendTypes, ViewTypes, QueueKept, ChatTypeOK, Places, BgStatus

\* Where a send starts.
WaysIn == {"preparing"} \union (IF "switchModel" \in ChatOps THEN {"switching"} ELSE {})

\* StartSend only puts x on its way and takes the flag of a hidden bubble.
LEMMA Started ==
  ASSUME PaneTypes, SendTypes, NEW x \in Sends, NEW s \in Sessions, StartSend(x, s)
  PROVE  /\ \E p \in WaysIn : pc' = [pc EXCEPT ![x] = p]
         /\ pc' \in [Sends -> Places] /\ isStreaming' \in BOOLEAN /\ hideNext' \in BOOLEAN
         /\ home' = [home EXCEPT ![x] = s] /\ home' \in [Sends -> Sessions]
         /\ sess' = [sess EXCEPT ![x] = cur] /\ sess' \in [Sends -> Sessions]
         /\ hidden' \subseteq Sends /\ nudges' \in 0 .. NudgeCap
         /\ UNCHANGED <<aborted, wire>>
<1>1. \E p \in WaysIn : pc' = [pc EXCEPT ![x] = p]
  BY DEF StartSend, WaysIn
<1>2. pc' \in [Sends -> Places]
  BY <1>1 DEF SendTypes, Places, WaysIn
<1>3. hidden' \subseteq Sends
  BY DEF StartSend, SendTypes
<1>4. nudges' \in 0 .. NudgeCap
  BY ChatAssumption DEF StartSend, SendTypes
<1> QED
  BY <1>1, <1>2, <1>3, <1>4 DEF StartSend, SendTypes, PaneTypes

\* Settle ends x and takes the entry of its session.
LEMMA Settled ==
  ASSUME PaneTypes, SendTypes, NEW x \in Sends, NEW bg \in [Sessions -> BgStatus],
         Settle(x, bg)
  PROVE  /\ pc' = [pc EXCEPT ![x] = "over"] /\ pc' \in [Sends -> Places]
         /\ activeStreams' = [activeStreams EXCEPT ![sess[x]] = NoSend]
         /\ activeStreams' \in [Sessions -> Sends \union {NoSend}]
         /\ bgStreams' \in [Sessions -> BgStatus]
         /\ isStreaming' \in BOOLEAN /\ drainTimer' \in BOOLEAN
<1>1. sess[x] \in Sessions
  BY DEF SendTypes
<1>2. pc' = [pc EXCEPT ![x] = "over"] /\ pc' \in [Sends -> Places]
  BY DEF Settle, SendTypes, Places
<1>3. /\ activeStreams' = [activeStreams EXCEPT ![sess[x]] = NoSend]
      /\ activeStreams' \in [Sessions -> Sends \union {NoSend}]
  BY <1>1 DEF Settle, PaneTypes
<1>4. isStreaming' \in BOOLEAN /\ drainTimer' \in BOOLEAN
  BY DEF Settle, DrainQueued, PaneTypes
<1>5. bgStreams' = bg
  BY DEF Settle
<1> QED
  BY <1>2, <1>3, <1>4, <1>5

LEMMA FailureMarked ==
  ASSUME PaneTypes, NEW s \in Sessions PROVE MarkFailed(s) \in [Sessions -> BgStatus]
  BY DEF PaneTypes, MarkFailed, BgStatus

-----------------------------------------------------------------------------
(* The queue. *)

\* Nothing of the queue changes, and what waits goes on waiting.
LEMMA QueueStays ==
  ASSUME QueueKept, queued' = queued,
         \A y \in Sends : pc[y] = "queued" => pc'[y] = "queued",
         promoted' # NoSend => promoted' = promoted /\ pc'[promoted] = pc[promoted]
  PROVE  QueueKept'
<1>1. \A i \in DOMAIN queued : queued[i] \in Sends /\ pc[queued[i]] = "queued"
  BY DEF QueueKept
<1>2. promoted' # NoSend => pc'[promoted'] = "promoted"
  BY DEF QueueKept
<1> QED
  BY <1>1, <1>2 DEF QueueKept

\* One more at the end.
LEMMA QueueGrows ==
  ASSUME QueueKept, SendTypes, NEW x \in Sends, pc[x] = "free", promoted' = promoted,
         queued' = Append(queued, x), pc' = [pc EXCEPT ![x] = "queued"]
  PROVE  QueueKept'
<1>1. queued \in Seq(Sends) /\ promoted \in Sends \union {NoSend} /\ pc \in [Sends -> Places]
  BY DEF QueueKept, SendTypes
<1>2. queued' \in Seq(Sends) /\ DOMAIN queued' = 1 .. Len(queued) + 1
  BY <1>1
<1>3. /\ \A i \in 1 .. Len(queued) : queued'[i] = queued[i]
      /\ queued'[Len(queued) + 1] = x
  BY <1>1
<1>4. \A i \in 1 .. Len(queued) : queued[i] \in Sends /\ queued[i] # x /\ pc[queued[i]] = "queued"
  BY <1>1 DEF QueueKept
<1>5. \A i \in DOMAIN queued' : pc'[queued'[i]] = "queued"
  BY <1>1, <1>2, <1>3, <1>4
<1>6. IsInjective(queued')
  <2>1. \A i, j \in 1 .. Len(queued) : queued[i] = queued[j] => i = j
    BY <1>1 DEF QueueKept, IsInjective
  <2> QED
    BY <1>1, <1>2, <1>3, <1>4, <2>1 DEF IsInjective
<1>7. promoted' # NoSend => pc'[promoted'] = "promoted"
  BY <1>1 DEF QueueKept
<1> QED
  BY <1>2, <1>5, <1>6, <1>7 DEF QueueKept

\* Taking an element out keeps the order of the others.
LEMMA RemoveAtProperties ==
  ASSUME NEW S, NEW s \in Seq(S), NEW i \in 1 .. Len(s)
  PROVE  /\ RemoveAt(s, i) \in Seq(S)
         /\ Len(RemoveAt(s, i)) = Len(s) - 1
         /\ \A j \in 1 .. Len(s) - 1 :
              RemoveAt(s, i)[j] = IF j < i THEN s[j] ELSE s[j + 1]
<1> DEFINE front == SubSeq(s, 1, i - 1)
           back  == SubSeq(s, i + 1, Len(s))
<1>1. Len(s) \in Nat
  BY LenProperties
<1>2. /\ front \in Seq(S) /\ Len(front) = i - 1
      /\ \A j \in 1 .. i - 1 : front[j] = s[j]
  <2>1. \A j \in 1 .. i - 1 : s[j] \in S
    BY <1>1, ElementOfSeq
  <2> QED
    BY <1>1, <2>1, SubSeqProperties
<1>3. /\ back \in Seq(S) /\ Len(back) = Len(s) - i
      /\ \A j \in 1 .. Len(s) - i : back[j] = s[i + j]
  <2>1. \A j \in i + 1 .. Len(s) : s[j] \in S
    BY <1>1, ElementOfSeq
  <2> QED
    BY <1>1, <2>1, SubSeqProperties
<1>4. /\ front \o back \in Seq(S) /\ Len(front \o back) = Len(s) - 1
      /\ \A j \in 1 .. Len(s) - 1 :
           (front \o back)[j] = IF j <= i - 1 THEN front[j] ELSE back[j - (i - 1)]
  <2> HIDE DEF front, back
  <2>1. /\ front \o back \in Seq(S) /\ Len(front \o back) = Len(front) + Len(back)
        /\ \A j \in 1 .. Len(front) + Len(back) :
             (front \o back)[j] = IF j <= Len(front) THEN front[j] ELSE back[j - Len(front)]
    BY <1>2, <1>3, ConcatProperties
  <2> QED
    BY <1>1, <1>2, <1>3, <2>1
<1>5. \A j \in 1 .. Len(s) - 1 :
        (front \o back)[j] = IF j < i THEN s[j] ELSE s[j + 1]
  <2> HIDE DEF front, back
  <2> TAKE j \in 1 .. Len(s) - 1
  <2>1. CASE j < i
    <3>1. j \in 1 .. i - 1 /\ j <= i - 1
      BY <1>1, <2>1
    <3> QED
      BY <1>2, <1>4, <2>1, <3>1
  <2>2. CASE ~(j < i)
    <3>1. /\ j - (i - 1) \in 1 .. Len(s) - i /\ ~(j <= i - 1)
          /\ i + (j - (i - 1)) = j + 1
      BY <1>1, <2>2
    <3> QED
      BY <1>3, <1>4, <2>2, <3>1
  <2> QED
    BY <2>1, <2>2
<1> QED
  BY <1>4, <1>5 DEF RemoveAt

\* One is taken out, wherever it stands.
LEMMA QueueWithout ==
  ASSUME QueueKept, NEW i \in DOMAIN queued
  PROVE  /\ RemoveAt(queued, i) \in Seq(Sends)
         /\ IsInjective(RemoveAt(queued, i))
         /\ \A j \in DOMAIN RemoveAt(queued, i) :
              \E k \in DOMAIN queued : k # i /\ RemoveAt(queued, i)[j] = queued[k]
<1>0. PICK n \in Nat : n = Len(queued)
  BY LenProperties DEF QueueKept
<1>1. queued \in Seq(Sends) /\ DOMAIN queued = 1 .. n /\ i \in 1 .. n
  BY <1>0 DEF QueueKept
<1>4. PICK q \in Seq(Sends) : q = RemoveAt(queued, i)
  BY <1>0, <1>1, RemoveAtProperties
<1>5. Len(q) = n - 1 /\ DOMAIN q = 1 .. n - 1
  BY <1>0, <1>1, <1>4, RemoveAtProperties
<1>6. \A j \in 1 .. n - 1 : q[j] = IF j < i THEN queued[j] ELSE queued[j + 1]
  BY <1>0, <1>1, <1>4, RemoveAtProperties
<1>7. \A j, k \in 1 .. n : queued[j] = queued[k] => j = k
  BY <1>1 DEF QueueKept, IsInjective
<1>8. IsInjective(q)
  <2> SUFFICES ASSUME NEW j \in 1 .. n - 1, NEW k \in 1 .. n - 1, q[j] = q[k] PROVE j = k
    BY <1>5 DEF IsInjective
  <2>1. /\ j \in 1 .. n /\ j + 1 \in 1 .. n /\ k \in 1 .. n /\ k + 1 \in 1 .. n
    BY <1>0
  <2> QED
    BY <1>0, <1>1, <1>6, <1>7, <2>1
<1>9. \A j \in DOMAIN q : \E k \in DOMAIN queued : k # i /\ q[j] = queued[k]
  <2> SUFFICES ASSUME NEW j \in 1 .. n - 1
               PROVE  \E k \in 1 .. n : k # i /\ q[j] = queued[k]
    BY <1>1, <1>5
  <2>0. j \in 1 .. n /\ j + 1 \in 1 .. n
    BY <1>0
  <2>1. CASE j < i
    BY <1>1, <1>6, <2>0, <2>1
  <2>2. CASE ~(j < i)
    BY <1>1, <1>6, <2>0, <2>2
  <2> QED
    BY <2>1, <2>2
<1> QED
  BY <1>4, <1>8, <1>9

\* The one taken out is sent, or waits for the promote timer.
LEMMA QueueShrinks ==
  ASSUME QueueKept, SendTypes, NEW i \in DOMAIN queued, queued' = RemoveAt(queued, i),
         promoted' \in {promoted, queued[i]},
         \A y \in Sends : pc[y] = "queued" /\ y # queued[i] => pc'[y] = "queued",
         promoted' # NoSend => pc'[promoted'] = "promoted"
  PROVE  QueueKept'
<1>1. \A k \in DOMAIN queued : /\ queued[k] \in Sends /\ pc[queued[k]] = "queued"
                               /\ k # i => queued[k] # queued[i]
  BY DEF QueueKept, IsInjective
<1>2. \A j \in DOMAIN queued' : pc'[queued'[j]] = "queued"
  BY <1>1, QueueWithout
<1> QED
  BY <1>2, QueueWithout DEF QueueKept

\* Tail is what is left without the head.
LEMMA QueueTail ==
  ASSUME QueueKept, queued # <<>>
  PROVE  /\ 1 \in DOMAIN queued /\ Head(queued) = queued[1]
         /\ Tail(queued) = RemoveAt(queued, 1)
<1>1. queued \in Seq(Sends) /\ Len(queued) \in Nat \ {0} /\ DOMAIN queued = 1 .. Len(queued)
  BY EmptySeq DEF QueueKept
<1>2. SubSeq(queued, 1, 0) = <<>>
  BY <1>1
<1>3. Tail(queued) = SubSeq(queued, 2, Len(queued))
  BY <1>1
<1>4. SubSeq(queued, 2, Len(queued)) \in Seq(Sends)
  BY <1>1
<1>5. RemoveAt(queued, 1) = <<>> \o SubSeq(queued, 2, Len(queued))
  BY <1>1, <1>2 DEF RemoveAt
<1> QED
  BY <1>1, <1>3, <1>4, <1>5

-----------------------------------------------------------------------------
(* Every step keeps the types. *)

\* A send that went out of the queue, or was never in it.
LEMMA StartKeepsQueue ==
  ASSUME ChatTypes, NEW x \in Sends, NEW s \in Sessions, StartSend(x, s),
         \/ pc[x] = "free" /\ UNCHANGED <<queued, promoted>>
         \/ x = promoted /\ promoted' = NoSend /\ UNCHANGED queued
         \/ /\ \E i \in DOMAIN queued : queued[i] = x /\ queued' = RemoveAt(queued, i)
            /\ UNCHANGED promoted
  PROVE  QueueKept'
<1>1. PICK p \in WaysIn : pc' = [pc EXCEPT ![x] = p]
  BY Started DEF ChatTypes
<1>2. /\ pc \in [Sends -> Places] /\ promoted \in Sends \union {NoSend}
      /\ \A i \in DOMAIN queued : queued[i] \in Sends /\ pc[queued[i]] = "queued"
      /\ promoted # NoSend => pc[promoted] = "promoted"
      /\ QueueKept /\ SendTypes
  BY DEF ChatTypes, SendTypes, QueueKept
<1>3. CASE pc[x] = "free" /\ UNCHANGED <<queued, promoted>>
  <2>1. \A y \in Sends : pc[y] \in {"queued", "promoted"} => pc'[y] = pc[y]
    BY <1>1, <1>2, <1>3
  <2>2. \A y \in Sends : pc[y] = "queued" => pc'[y] = "queued"
    BY <2>1
  <2>3. promoted' # NoSend => promoted' = promoted /\ pc'[promoted] = pc[promoted]
    BY <1>2, <1>3, <2>1
  <2> QED
    BY <1>2, <1>3, <2>2, <2>3, QueueStays
<1>4. CASE x = promoted /\ promoted' = NoSend /\ UNCHANGED queued
  <2>1. \A y \in Sends : y # x => pc'[y] = pc[y]
    BY <1>1, <1>2
  <2>2. \A y \in Sends : pc[y] = "queued" => pc'[y] = "queued"
    BY <1>2, <1>4, <2>1, ChatAssumption
  <2> QED
    BY <1>2, <1>4, <2>2, QueueStays
<1>5. CASE /\ \E i \in DOMAIN queued : queued[i] = x /\ queued' = RemoveAt(queued, i)
           /\ UNCHANGED promoted
  <2>1. PICK i \in DOMAIN queued : queued[i] = x /\ queued' = RemoveAt(queued, i)
    BY <1>5
  <2>2. \A y \in Sends : y # x => pc'[y] = pc[y]
    BY <1>1, <1>2
  <2>3. promoted # NoSend => promoted # x
    BY <1>2, <2>1
  <2>4. promoted' # NoSend => pc'[promoted'] = "promoted"
    BY <1>2, <1>5, <2>2, <2>3
  <2>5. \A y \in Sends : pc[y] = "queued" /\ y # queued[i] => pc'[y] = "queued"
    BY <2>1, <2>2
  <2> QED
    BY <1>2, <1>5, <2>1, <2>4, <2>5, QueueShrinks
<1> QED
  BY <1>3, <1>4, <1>5

LEMMA UserTypes ==
  ASSUME ChatTypes, NEW x \in Sends, Submit(x) \/ Queue(x) \/ Promote(x)
  PROVE  ChatTypes'
<1> USE DEF viewVars, serverVars
<1>0. PaneTypes /\ SendTypes /\ ViewTypes /\ QueueKept /\ cur \in Sessions /\ home[x] \in Sessions
  BY DEF ChatTypes, PaneTypes, SendTypes
<1>1. CASE Submit(x)
  <2>1. StartSend(x, cur)
    BY <1>1 DEF Submit
  <2>2. QueueKept'
    BY <1>0, <1>1, <2>1, StartKeepsQueue DEF Submit
  <2>3. PaneTypes'
    BY <1>0, <1>1, <2>1, Started DEF Submit, PaneTypes
  <2>4. SendTypes'
    BY <1>0, <1>1, <2>1, Started DEF Submit, SendTypes
  <2>5. ViewTypes'
    BY <1>0, <1>1 DEF Submit, ViewTypes
  <2> QED
    BY <2>2, <2>3, <2>4, <2>5 DEF ChatTypes
<1>2. CASE Queue(x)
  <2>1. QueueKept'
    BY <1>0, <1>2, QueueGrows DEF Queue
  <2>2. PaneTypes'
    BY <1>0, <1>2 DEF Queue, PaneTypes
  <2>3. SendTypes'
    BY <1>0, <1>2 DEF Queue, SendTypes, Places
  <2>4. ViewTypes'
    BY <1>0, <1>2 DEF Queue, ViewTypes
  <2> QED
    BY <2>1, <2>2, <2>3, <2>4 DEF ChatTypes
<1>3. CASE Promote(x)
  <2>1. PICK i \in DOMAIN queued : queued[i] = x /\ queued' = RemoveAt(queued, i)
    BY <1>3 DEF Promote
  <2>2. CASE ~isStreaming
    <3>1. StartSend(x, home[x]) /\ UNCHANGED <<promoted, drainTimer, stopMail>>
      BY <1>3, <2>2 DEF Promote
    <3>2. QueueKept'
      BY <1>0, <2>1, <3>1, StartKeepsQueue
    <3>3. PaneTypes'
      BY <1>0, <1>3, <3>1, Started DEF Promote, PaneTypes
    <3>4. SendTypes'
      BY <1>0, <1>3, <3>1, Started DEF Promote, SendTypes
    <3>5. ViewTypes'
      BY <1>0, <1>3, <3>1 DEF Promote, ViewTypes
    <3> QED
      BY <3>2, <3>3, <3>4, <3>5 DEF ChatTypes
  <2>3. CASE isStreaming
    <3>1. /\ pc' = [y \in Sends |-> CASE y = x -> "promoted"
                                      [] y = promoted -> "dropped"
                                      [] OTHER -> pc[y]]
          /\ promoted' = x
      BY <1>3, <2>3 DEF Promote
    <3>2. promoted # NoSend => promoted \in Sends /\ pc[promoted] = "promoted"
      BY <1>0 DEF QueueKept, SendTypes
    <3>0. x # promoted
      BY <2>1, <3>2, ChatAssumption, <1>0 DEF QueueKept
    <3>3. \A y \in Sends : pc[y] = "queued" /\ y # queued[i] => pc'[y] = "queued"
      <4> SUFFICES ASSUME NEW y \in Sends, pc[y] = "queued", y # x PROVE pc'[y] = pc[y]
        BY <2>1
      <4>1. y # promoted
        BY <3>2, ChatAssumption
      <4> QED
        BY <3>1, <4>1
    <3>4. pc'[promoted'] = "promoted"
      BY <3>0, <3>1
    <3>5. QueueKept'
      BY <1>0, <2>1, <3>1, <3>3, <3>4, QueueShrinks
    <3>6. PaneTypes'
      BY <1>0, <1>3, <2>3 DEF Promote, StopForeground, DrainQueued, PaneTypes
    <3>7. pc' \in [Sends -> Places]
      BY <1>0, <3>1 DEF SendTypes, Places
    <3>8. aborted' \subseteq Sends
      BY <1>0, <1>3, <2>3 DEF Promote, StopForeground, PaneTypes, SendTypes
    <3>9. SendTypes'
      BY <1>0, <1>3, <2>3, <3>1, <3>7, <3>8 DEF Promote, SendTypes
    <3>10. ViewTypes'
      BY <1>0, <1>3, <2>3 DEF Promote, StopForeground, ViewTypes
    <3> QED
      BY <3>5, <3>6, <3>9, <3>10 DEF ChatTypes
  <2> QED
    BY <2>2, <2>3
<1> QED
  BY <1>1, <1>2, <1>3

\* Steps that leave the queue, the places and what was promoted alone.
LEMMA QueueUntouched ==
  ASSUME ChatTypes, UNCHANGED <<queued, promoted, pc>> PROVE QueueKept'
  BY DEF ChatTypes, QueueKept

LEMMA TabTypes ==
  ASSUME ChatTypes,
         \/ Stop \/ Reload
         \/ \E s \in Sessions : SelectSession(s)
  PROVE  ChatTypes'
<1> USE DEF userVars, viewVars, serverVars
<1>0. PaneTypes /\ SendTypes /\ ViewTypes /\ QueueKept
  BY DEF ChatTypes
<1>1. CASE Stop
  <2>1. PaneTypes'
    BY <1>0, <1>1 DEF Stop, StopForeground, DrainQueued, PaneTypes
  <2>2. aborted' \subseteq Sends
    BY <1>0, <1>1 DEF Stop, StopForeground, PaneTypes, SendTypes
  <2>3. SendTypes'
    BY <1>0, <1>1, <2>2 DEF Stop, SendTypes
  <2>4. ViewTypes'
    BY <1>0, <1>1 DEF Stop, StopForeground, ViewTypes, PaneTypes
  <2> QED
    BY <1>1, <2>1, <2>3, <2>4, QueueUntouched DEF Stop, ChatTypes
<1>2. CASE Reload
  <2>1. PaneTypes'
    BY <1>0, <1>2 DEF Reload, PaneTypes, BgStatus
  <2>2. SendTypes'
    BY <1>0, <1>2, ChatAssumption DEF Reload, SendTypes, Places
  <2>3. ViewTypes'
    BY <1>0, <1>2 DEF Reload, ViewTypes
  <2>4. QueueKept'
    BY <1>2 DEF Reload, QueueKept, IsInjective
  <2> QED
    BY <2>1, <2>2, <2>3, <2>4 DEF ChatTypes
<1>3. ASSUME NEW s \in Sessions, SelectSession(s) PROVE ChatTypes'
  <2>1. PaneTypes'
    BY <1>0, <1>3 DEF SelectSession, Detach, PaneTypes, BgStatus
  <2>2. aborted' \subseteq Sends
    BY <1>0, <1>3 DEF SelectSession, Detach, PaneTypes, SendTypes
  <2>3. SendTypes'
    BY <1>0, <1>3, <2>2 DEF SelectSession, SendTypes
  <2>4. ViewTypes'
    BY <1>0, <1>3 DEF SelectSession, ViewTypes
  <2> QED
    BY <1>3, <2>1, <2>3, <2>4, QueueUntouched DEF SelectSession, ChatTypes
<1> QED
  BY <1>1, <1>2, <1>3

\* A send that is on its way moves on or ends; what waits is not touched.
LEMMA MoveKeepsQueue ==
  ASSUME ChatTypes, NEW x \in Sends, pc[x] \notin {"queued", "promoted"},
         NEW p, pc' = [pc EXCEPT ![x] = p], UNCHANGED <<queued, promoted>>
  PROVE  QueueKept'
<1>1. QueueKept /\ pc \in [Sends -> Places] /\ promoted \in Sends \union {NoSend}
  BY DEF ChatTypes, SendTypes
<1>2. promoted # NoSend => pc[promoted] = "promoted"
  BY <1>1 DEF QueueKept
<1>3. \A y \in Sends : pc[y] = "queued" => pc'[y] = "queued"
  BY <1>1
<1>4. promoted' # NoSend => promoted' = promoted /\ pc'[promoted] = pc[promoted]
  BY <1>1, <1>2
<1> QED
  BY <1>1, <1>3, <1>4, QueueStays

\* A step that only settles a send.
LEMMA SettleTypes ==
  ASSUME ChatTypes, NEW x \in Sends, Open(x) \/ Preparing(x),
         NEW bg \in [Sessions -> BgStatus], Settle(x, bg),
         UNCHANGED <<cur, probe, queued, promoted, hidden, handshakes,
                     loading, polls, rejoin, resumed, run, stopMail, home, sess, aborted, wire>>,
         recovering' \in Sends \union {NoSend}, hideNext' \in BOOLEAN,
         nudges' \in 0 .. NudgeCap
  PROVE  ChatTypes'
<1>0. PaneTypes /\ SendTypes /\ ViewTypes
  BY DEF ChatTypes
<1>1. pc[x] \notin {"queued", "promoted"}
  BY DEF Open, Preparing, Reading
<1>2. pc' = [pc EXCEPT ![x] = "over"]
  BY <1>0, Settled
<1>3. QueueKept'
  BY <1>1, <1>2, MoveKeepsQueue
<1>4. PaneTypes'
  BY <1>0, Settled DEF PaneTypes
<1>5. SendTypes'
  BY <1>0, Settled DEF SendTypes
<1>6. ViewTypes'
  BY <1>0 DEF ViewTypes
<1> QED
  BY <1>3, <1>4, <1>5, <1>6 DEF ChatTypes

LEMMA SendTypesKept ==
  ASSUME ChatTypes, NEW x \in Sends, SendSteps(x) \/ Aborted(x)
  PROVE  ChatTypes'
<1> USE DEF userVars, viewVars, serverVars, sendVars
<1>0. /\ PaneTypes /\ SendTypes /\ ViewTypes /\ QueueKept
      /\ sess[x] \in Sessions /\ cur \in Sessions /\ bgStreams \in [Sessions -> BgStatus]
      /\ pc \in [Sends -> Places]
      /\ recovering \in Sends \union {NoSend} /\ hideNext \in BOOLEAN
      /\ nudges \in 0 .. NudgeCap
  BY DEF ChatTypes, PaneTypes, SendTypes
<1>1. MarkFailed(sess[x]) \in [Sessions -> BgStatus]
  BY <1>0, FailureMarked
<1>2. CASE ModelSwitched(x)
  <2>1. QueueKept'
    BY <1>2, MoveKeepsQueue DEF ModelSwitched
  <2>2. PaneTypes' /\ SendTypes' /\ ViewTypes'
    BY <1>0, <1>2 DEF ModelSwitched, PaneTypes, SendTypes, ViewTypes, Places
  <2> QED
    BY <2>1, <2>2 DEF ChatTypes
<1>3. CASE Post(x)
  <2>1. QueueKept'
    BY <1>3, MoveKeepsQueue DEF Post
  <2>2. activeStreams' \in [Sessions -> Sends \union {NoSend}]
    BY <1>0, <1>3 DEF Post, PaneTypes
  <2>3. isStreaming' \in BOOLEAN
    BY <1>3 DEF Post, Synced
  <2>4. PaneTypes' /\ ViewTypes'
    BY <1>0, <1>3, <2>2, <2>3 DEF Post, PaneTypes, ViewTypes
  <2>5. SendTypes'
    BY <1>0, <1>3 DEF Post, SendTypes, Places, Reading
  <2> QED
    BY <2>1, <2>4, <2>5 DEF ChatTypes
<1>4. CASE UploadFailed(x)
  BY <1>0, <1>4, SettleTypes DEF UploadFailed, Preparing
<1>5. CASE Headers(x)
  <2>1. CASE wire[x] = "refused"
    BY <1>0, <1>5, <2>1, SettleTypes DEF Headers, Open, Reading
  <2>2. CASE wire[x] # "refused"
    <3>1. QueueKept'
      BY <1>5, <2>2, MoveKeepsQueue DEF Headers
    <3>2. PaneTypes' /\ SendTypes' /\ ViewTypes'
      BY <1>0, <1>5, <2>2 DEF Headers, PaneTypes, SendTypes, ViewTypes, Places, Reading
    <3> QED
      BY <3>1, <3>2 DEF ChatTypes
  <2> QED
    BY <2>1, <2>2
<1>6. CASE ReadEvent(x)
  <2>1. PaneTypes' /\ SendTypes' /\ ViewTypes'
    BY <1>0, <1>6 DEF ReadEvent, PaneTypes, SendTypes, ViewTypes, BgStatus
  <2> QED
    BY <1>6, <2>1, QueueUntouched DEF ReadEvent, ChatTypes
<1>7. CASE ReadDone(x)
  <2>1. QueueKept'
    BY <1>7, MoveKeepsQueue DEF ReadDone
  <2>2. bgStreams' \in [Sessions -> BgStatus]
    BY <1>0, <1>7 DEF ReadDone, BgStatus
  <2>3. PaneTypes' /\ SendTypes' /\ ViewTypes'
    BY <1>0, <1>7, <2>2 DEF ReadDone, PaneTypes, SendTypes, ViewTypes, Places, Reading
  <2> QED
    BY <2>1, <2>3 DEF ChatTypes
<1>8. CASE ReadEnd(x)
  BY <1>0, <1>8, SettleTypes DEF ReadEnd, Open, Reading
<1>9. CASE ReadBroken(x)
  <2>1. /\ recovering' \in Sends \union {NoSend} /\ hideNext' \in BOOLEAN
        /\ nudges' \in 0 .. NudgeCap
    <3>1. \/ recovering' = x /\ hideNext' = TRUE /\ nudges < NudgeCap /\ nudges' = nudges + 1
          \/ UNCHANGED <<recovering, hideNext, nudges>>
      BY <1>9 DEF ReadBroken
    <3>2. nudges' \in 0 .. NudgeCap
      BY <1>0, <3>1, ChatAssumption
    <3>3. recovering' \in Sends \union {NoSend}
      BY <1>0, <3>1
    <3>4. hideNext' \in BOOLEAN
      BY <1>0, <3>1
    <3> QED
      BY <3>2, <3>3, <3>4
  <2>2. Settle(x, MarkFailed(sess[x])) /\ Open(x)
    BY <1>9 DEF ReadBroken, Open, Reading
  <2>3. UNCHANGED <<cur, probe, queued, promoted, hidden, handshakes,
                    loading, polls, rejoin, resumed, run, stopMail, home, sess, aborted, wire>>
    BY <1>9 DEF ReadBroken
  <2> QED
    BY <1>1, <2>1, <2>2, <2>3, SettleTypes
<1>10. CASE Aborted(x)
  <2>1. Settle(x, MarkFailed(sess[x])) /\ Open(x)
    BY <1>10 DEF Aborted
  <2>2. UNCHANGED <<cur, probe, queued, promoted, hidden, handshakes, recovering, hideNext, nudges,
                    loading, polls, rejoin, resumed, run, stopMail, home, sess, aborted, wire>>
    BY <1>10 DEF Aborted
  <2> QED
    BY <1>0, <1>1, <2>1, <2>2, SettleTypes
<1> QED
  BY <1>2, <1>3, <1>4, <1>5, <1>6, <1>7, <1>8, <1>9, <1>10 DEF SendSteps

LEMMA TimerTypes ==
  ASSUME ChatTypes, DrainFires \/ PromoteFires \/ RecoverFires \/ ProbeAsk \/ ProbeAnswer
  PROVE  ChatTypes'
<1> USE DEF userVars, viewVars, serverVars, sendVars
<1>0. /\ PaneTypes /\ SendTypes /\ ViewTypes /\ QueueKept
      /\ cur \in Sessions /\ home \in [Sends -> Sessions] /\ sess \in [Sends -> Sessions]
      /\ pc \in [Sends -> Places]
  BY DEF ChatTypes, PaneTypes, SendTypes
<1>1. CASE DrainFires
  <2>1. CASE isStreaming \/ queued = <<>>
    <3>1. PaneTypes' /\ SendTypes' /\ ViewTypes'
      BY <1>0, <1>1, <2>1 DEF DrainFires, PaneTypes, SendTypes, ViewTypes
    <3> QED
      BY <1>1, <2>1, <3>1, QueueUntouched DEF DrainFires, ChatTypes
  <2>2. CASE ~(isStreaming \/ queued = <<>>)
    <3>1. PICK x \in Sends : x = queued[1] /\ x = Head(queued)
      BY <1>0, <2>2, QueueTail DEF QueueKept
    <3>2. StartSend(x, home[x]) /\ home[x] \in Sessions
      BY <1>0, <1>1, <2>2, <3>1 DEF DrainFires
    <3>3. \E i \in DOMAIN queued : queued[i] = x /\ queued' = RemoveAt(queued, i)
      BY <1>0, <1>1, <2>2, <3>1, QueueTail DEF DrainFires
    <3>4. QueueKept'
      BY <1>1, <3>2, <3>3, StartKeepsQueue DEF DrainFires
    <3>5. PaneTypes' /\ SendTypes' /\ ViewTypes'
      BY <1>0, <1>1, <3>2, Started DEF DrainFires, PaneTypes, SendTypes, ViewTypes
    <3> QED
      BY <3>4, <3>5 DEF ChatTypes
  <2> QED
    BY <2>1, <2>2
<1>2. CASE PromoteFires
  <2>1. promoted \in Sends /\ home[promoted] \in Sessions /\ StartSend(promoted, home[promoted])
    BY <1>0, <1>2 DEF PromoteFires, SendTypes
  <2>2. QueueKept'
    BY <1>2, <2>1, StartKeepsQueue DEF PromoteFires
  <2>3. PaneTypes' /\ SendTypes' /\ ViewTypes'
    BY <1>0, <1>2, <2>1, Started DEF PromoteFires, PaneTypes, SendTypes, ViewTypes
  <2> QED
    BY <2>2, <2>3 DEF ChatTypes
<1>3. CASE RecoverFires
  <2>1. recovering \in Sends /\ sess[recovering] \in Sessions
    BY <1>0, <1>3 DEF RecoverFires, SendTypes
  <2>2. CASE cur # sess[recovering]
    <3>1. PaneTypes' /\ SendTypes' /\ ViewTypes'
      BY <1>0, <1>3, <2>2 DEF RecoverFires, PaneTypes, SendTypes, ViewTypes
    <3> QED
      BY <1>3, <2>2, <3>1, QueueUntouched DEF RecoverFires, ChatTypes
  <2>3. CASE cur = sess[recovering]
    <3>1. PICK y \in Sends :
            /\ pc[y] = "free"
            /\ handshakes' = handshakes \union {y}
            /\ IF isStreaming
                 THEN /\ pc' = [pc EXCEPT ![y] = "queued"]
                      /\ home' = [home EXCEPT ![y] = sess[recovering]]
                      /\ queued' = Append(queued, y)
                      /\ UNCHANGED <<isStreaming, sess, aborted, wire, hidden, nudges, hideNext>>
                 ELSE StartSend(y, sess[recovering]) /\ UNCHANGED queued
      BY <1>3, <2>3 DEF RecoverFires
    <3>2. /\ recovering' = NoSend
          /\ UNCHANGED <<cur, activeStreams, bgStreams, probe, drainTimer, promoted,
                         viewVars, serverVars>>
      BY <1>3 DEF RecoverFires
    <3>3. CASE isStreaming
      <4>1. QueueKept'
        BY <1>0, <3>1, <3>2, <3>3, QueueGrows
      <4>2. PaneTypes' /\ SendTypes' /\ ViewTypes'
        BY <1>0, <2>1, <3>1, <3>2, <3>3 DEF PaneTypes, SendTypes, ViewTypes, Places
      <4> QED
        BY <4>1, <4>2 DEF ChatTypes
    <3>4. CASE ~isStreaming
      <4>1. StartSend(y, sess[recovering]) /\ UNCHANGED queued
        BY <3>1, <3>4
      <4>2. QueueKept'
        BY <2>1, <3>1, <3>2, <4>1, StartKeepsQueue
      <4>3. PaneTypes' /\ SendTypes' /\ ViewTypes'
        BY <1>0, <2>1, <3>1, <3>2, <4>1, Started DEF PaneTypes, SendTypes, ViewTypes
      <4> QED
        BY <4>2, <4>3 DEF ChatTypes
    <3> QED
      BY <3>3, <3>4
  <2> QED
    BY <2>2, <2>3
<1>4. CASE ProbeAsk
  <2>1. PaneTypes' /\ SendTypes' /\ ViewTypes'
    BY <1>0, <1>4 DEF ProbeAsk, PaneTypes, SendTypes, ViewTypes
  <2> QED
    BY <1>4, <2>1, QueueUntouched DEF ProbeAsk, ChatTypes
<1>5. CASE ProbeAnswer
  <2>1. probe \in Sends /\ sess[probe] \in Sessions
    BY <1>0, <1>5 DEF ProbeAnswer, SendTypes
  <2>2. PaneTypes'
    BY <1>0, <1>5, <2>1 DEF ProbeAnswer, DrainQueued, PaneTypes
  <2>3. aborted' \subseteq Sends
    BY <1>0, <1>5, <2>1 DEF ProbeAnswer, SendTypes
  <2>4. SendTypes' /\ ViewTypes'
    BY <1>0, <1>5, <2>3 DEF ProbeAnswer, SendTypes, ViewTypes
  <2> QED
    BY <1>5, <2>2, <2>4, QueueUntouched DEF ProbeAnswer, ChatTypes
<1> QED
  BY <1>1, <1>2, <1>3, <1>4, <1>5

LEMMA ViewStepTypes ==
  ASSUME ChatTypes,
         \/ HistoryLoaded
         \/ \E s \in Sessions : PollTick(s) \/ StatusAnswer(s) \/ Resume(s) \/ ResumeEnds(s)
  PROVE  ChatTypes'
<1> USE DEF userVars, viewVars, serverVars, sendVars
<1>0. /\ PaneTypes /\ SendTypes /\ ViewTypes /\ cur \in Sessions
      /\ bgStreams \in [Sessions -> BgStatus]
  BY DEF ChatTypes, PaneTypes
<1>1. CASE HistoryLoaded
  <2>1. PaneTypes'
    BY <1>0, <1>1 DEF HistoryLoaded, PaneTypes, BgStatus
  <2>2. SendTypes' /\ ViewTypes'
    BY <1>0, <1>1 DEF HistoryLoaded, SendTypes, ViewTypes
  <2> QED
    BY <1>1, <2>1, <2>2, QueueUntouched DEF HistoryLoaded, ChatTypes
<1>2. ASSUME NEW s \in Sessions, NEW bg \in [Sessions -> BgStatus], ReloadSession(bg)
      PROVE  loading' \in BOOLEAN /\ bgStreams' \in [Sessions -> BgStatus] /\ isStreaming' \in BOOLEAN
  BY <1>0, <1>2 DEF ReloadSession, BgStatus, PaneTypes
<1>3. ASSUME NEW s \in Sessions, PollTick(s) PROVE ChatTypes'
  <2>1. [bgStreams EXCEPT ![s] = "none"] \in [Sessions -> BgStatus]
    BY <1>0 DEF BgStatus
  <2>2. loading' \in BOOLEAN /\ bgStreams' \in [Sessions -> BgStatus] /\ isStreaming' \in BOOLEAN
    BY <1>0, <1>2, <1>3, <2>1 DEF PollTick, PaneTypes
  <2>3. PaneTypes' /\ SendTypes' /\ ViewTypes'
    BY <1>0, <1>3, <2>2 DEF PollTick, PaneTypes, SendTypes, ViewTypes
  <2> QED
    BY <1>3, <2>3, QueueUntouched DEF PollTick, ChatTypes
<1>4. ASSUME NEW s \in Sessions, StatusAnswer(s) PROVE ChatTypes'
  <2>1. PaneTypes' /\ SendTypes' /\ ViewTypes'
    BY <1>0, <1>4 DEF StatusAnswer, PaneTypes, SendTypes, ViewTypes
  <2> QED
    BY <1>4, <2>1, QueueUntouched DEF StatusAnswer, ChatTypes
<1>5. ASSUME NEW s \in Sessions, Resume(s) PROVE ChatTypes'
  <2>1. PaneTypes' /\ SendTypes' /\ ViewTypes'
    BY <1>0, <1>5 DEF Resume, PaneTypes, SendTypes, ViewTypes
  <2> QED
    BY <1>5, <2>1, QueueUntouched DEF Resume, ChatTypes
<1>6. ASSUME NEW s \in Sessions, ResumeEnds(s) PROVE ChatTypes'
  <2>1. loading' \in BOOLEAN /\ bgStreams' \in [Sessions -> BgStatus] /\ isStreaming' \in BOOLEAN
    BY <1>0, <1>2, <1>6 DEF ResumeEnds, PaneTypes
  <2>2. PaneTypes' /\ SendTypes' /\ ViewTypes'
    BY <1>0, <1>6, <2>1 DEF ResumeEnds, PaneTypes, SendTypes, ViewTypes
  <2> QED
    BY <1>6, <2>2, QueueUntouched DEF ResumeEnds, ChatTypes
<1> QED
  BY <1>1, <1>3, <1>4, <1>5, <1>6

LEMMA WireTypes ==
  ASSUME ChatTypes,
         \/ \E x \in Sends : TimeOut(x) \/ Arrive(x) \/ Disconnect(x)
         \/ \E s \in Sessions : RunEnds(s) \/ StopArrives(s)
  PROVE  ChatTypes'
<1> USE DEF userVars, viewVars, serverVars, sendVars
<1>0. PaneTypes /\ SendTypes /\ ViewTypes
  BY DEF ChatTypes
<1>1. ASSUME NEW x \in Sends, TimeOut(x) PROVE ChatTypes'
  <2>1. PaneTypes' /\ SendTypes' /\ ViewTypes'
    BY <1>0, <1>1 DEF TimeOut, PaneTypes, SendTypes, ViewTypes
  <2> QED
    BY <1>1, <2>1, QueueUntouched DEF TimeOut, ChatTypes
<1>2. ASSUME NEW x \in Sends, Arrive(x) PROVE ChatTypes'
  <2>1. sess[x] \in Sessions /\ run[sess[x]] \in Sends \union {NoSend}
    BY <1>0 DEF SendTypes, ViewTypes
  <2>2. wire' \in [Sends -> {"none", "open", "done", "cut", "dead", "refused"}]
    BY <1>0, <1>2 DEF Arrive, SendTypes
  <2>3. PaneTypes' /\ SendTypes' /\ ViewTypes'
    BY <1>0, <1>2, <2>1, <2>2 DEF Arrive, PaneTypes, SendTypes, ViewTypes
  <2> QED
    BY <1>2, <2>3, QueueUntouched DEF Arrive, ChatTypes
<1>3. ASSUME NEW x \in Sends, Disconnect(x) PROVE ChatTypes'
  <2>1. PaneTypes' /\ SendTypes' /\ ViewTypes'
    BY <1>0, <1>3 DEF Disconnect, PaneTypes, SendTypes, ViewTypes
  <2> QED
    BY <1>3, <2>1, QueueUntouched DEF Disconnect, ChatTypes
<1>4. ASSUME NEW s \in Sessions, RunEnds(s) PROVE ChatTypes'
  <2>1. wire' \in [Sends -> {"none", "open", "done", "cut", "dead", "refused"}]
    BY <1>0, <1>4 DEF RunEnds, SendTypes, ViewTypes
  <2>2. PaneTypes' /\ SendTypes' /\ ViewTypes'
    BY <1>0, <1>4, <2>1 DEF RunEnds, PaneTypes, SendTypes, ViewTypes
  <2> QED
    BY <1>4, <2>2, QueueUntouched DEF RunEnds, ChatTypes
<1>5. ASSUME NEW s \in Sessions, StopArrives(s) PROVE ChatTypes'
  <2>1. wire' \in [Sends -> {"none", "open", "done", "cut", "dead", "refused"}]
    BY <1>0, <1>5 DEF StopArrives, SendTypes
  <2>2. PaneTypes' /\ SendTypes' /\ ViewTypes'
    BY <1>0, <1>5, <2>1 DEF StopArrives, PaneTypes, SendTypes, ViewTypes
  <2> QED
    BY <1>5, <2>2, QueueUntouched DEF StopArrives, ChatTypes
<1> QED
  BY <1>1, <1>2, <1>3, <1>4, <1>5

LEMMA ChatTypesStep == ASSUME ChatTypes, ChatNext PROVE ChatTypes'
<1>1. CASE \E x \in Sends : Aborted(x)
  BY <1>1, SendTypesKept
<1>2. CASE \E x \in Sends : Submit(x) \/ Queue(x) \/ Promote(x)
  BY <1>2, UserTypes
<1>3. CASE \E x \in Sends : SendSteps(x)
  BY <1>3, SendTypesKept
<1>4. CASE \/ \E x \in Sends : TimeOut(x) \/ Arrive(x) \/ Disconnect(x)
           \/ \E s \in Sessions : RunEnds(s) \/ StopArrives(s)
  BY <1>4, WireTypes
<1>5. CASE Stop \/ Reload \/ \E s \in Sessions : SelectSession(s)
  BY <1>5, TabTypes
<1>6. CASE \/ HistoryLoaded
           \/ \E s \in Sessions : PollTick(s) \/ StatusAnswer(s) \/ Resume(s) \/ ResumeEnds(s)
  BY <1>6, ViewStepTypes
<1>7. CASE DrainFires \/ PromoteFires \/ RecoverFires \/ ProbeAsk \/ ProbeAnswer
  BY <1>7, TimerTypes
<1> QED
  BY <1>1, <1>2, <1>3, <1>4, <1>5, <1>6, <1>7 DEF ChatNext

LEMMA ChatTypesInit == ChatInit => ChatTypes
<1> SUFFICES ASSUME ChatInit PROVE ChatTypes
  OBVIOUS
<1>1. PaneTypes
  BY DEF ChatInit, PaneTypes, BgStatus
<1>2. SendTypes
  BY ChatAssumption DEF ChatInit, SendTypes, Places
<1>3. ViewTypes
  BY DEF ChatInit, ViewTypes
<1>4. QueueKept
  BY DEF ChatInit, QueueKept, IsInjective
<1> QED
  BY <1>1, <1>2, <1>3, <1>4 DEF ChatTypes

LEMMA ChatTypesNext == ChatTypes /\ [ChatNext]_chatVars => ChatTypes'
<1> SUFFICES ASSUME ChatTypes, UNCHANGED chatVars PROVE ChatTypes'
  BY ChatTypesStep
<1> QED
  BY DEF chatVars, userVars, viewVars, serverVars, sendVars, ChatTypes, PaneTypes,
         SendTypes, ViewTypes, QueueKept, IsInjective

\* Every variable of the pane and of its server keeps its type; the queue holds
\* every waiting message once, and a turn never recovers more than NudgeCap times.
THEOREM PaneTypesHold == ChatSpec => []ChatTypeOK
  BY ChatTypesInit, ChatTypesNext, ChatTypesGive, PTL DEF ChatSpec

-----------------------------------------------------------------------------
(* What a step does to the sends on their way. *)

OnItsWay(x) == Preparing(x) \/ Open(x)
Unbegun == {"free", "queued", "promoted"}

\* Nothing begins, moves or ends; a request may arrive, a send may be queued.
Rests ==
  /\ UNCHANGED <<sess, activeStreams>> /\ aborted \subseteq aborted'
  /\ \A y \in Sends :
       /\ \/ pc'[y] = pc[y]
          \/ pc[y] \in Unbegun /\ pc'[y] \in {"queued", "promoted", "dropped"}
       /\ home'[y] = home[y] \/ pc[y] = "free"
       /\ (wire'[y] = "none" <=> wire[y] = "none") \/ pc[y] = "posted"

Begins(x) ==
  /\ pc[x] \in Unbegun
  /\ \E p \in WaysIn : pc' = [pc EXCEPT ![x] = p]
  /\ sess' = [sess EXCEPT ![x] = cur]
  /\ \E s \in Sessions :
       /\ home' = [home EXCEPT ![x] = s]
       /\ s = cur \/ (pc[x] # "free" /\ s = home[x])
  /\ UNCHANGED <<aborted, activeStreams, wire>>

\* Posts, or reads on.
Moves(x) ==
  /\ \/ /\ pc[x] = "preparing" /\ pc' = [pc EXCEPT ![x] = "posted"]
        /\ activeStreams' = [activeStreams EXCEPT ![sess[x]] = x]
     \/ /\ Open(x) /\ \E p \in Reading : pc' = [pc EXCEPT ![x] = p]
        /\ UNCHANGED activeStreams
  /\ UNCHANGED <<sess, home, aborted, wire>>

Ends(x) ==
  /\ OnItsWay(x) /\ pc' = [pc EXCEPT ![x] = "over"]
  /\ activeStreams' = [activeStreams EXCEPT ![sess[x]] = NoSend]
  /\ UNCHANGED <<sess, home, aborted, wire>>

LEMMA SettleEnds ==
  ASSUME ChatTypes, NEW x \in Sends, OnItsWay(x), NEW bg, Settle(x, bg), UNCHANGED sendVars
  PROVE  Ends(x)
  BY DEF Settle, sendVars, Ends

LEMMA StartBegins ==
  ASSUME ChatTypes, NEW x \in Sends, NEW s \in Sessions, StartSend(x, s), pc[x] \in Unbegun,
         s = cur \/ (pc[x] # "free" /\ s = home[x]), UNCHANGED activeStreams
  PROVE  Begins(x)
<1>1. PaneTypes /\ SendTypes
  BY DEF ChatTypes
<1> QED
  BY <1>1, Started DEF Begins

LEMMA SendMoves ==
  ASSUME ChatTypes, ChatNext
  PROVE  \/ Rests \/ Reload \/ ProbeAnswer
         \/ \E x \in Sends : Begins(x) \/ Moves(x) \/ Ends(x) \/ ModelSwitched(x)
<1> USE DEF userVars, viewVars, serverVars, sendVars
<1>0. /\ pc \in [Sends -> Places] /\ home \in [Sends -> Sessions] /\ cur \in Sessions
      /\ sess \in [Sends -> Sessions] /\ promoted \in Sends \union {NoSend}
      /\ recovering \in Sends \union {NoSend}
      /\ QueueKept
  BY DEF ChatTypes, PaneTypes, SendTypes
<1>1. ASSUME NEW x \in Sends, Aborted(x) PROVE Ends(x)
  <2>1. OnItsWay(x) /\ Settle(x, MarkFailed(sess[x])) /\ UNCHANGED sendVars
    BY <1>1 DEF Aborted, OnItsWay
  <2> QED
    BY <2>1, SettleEnds
<1>2. ASSUME NEW x \in Sends, Submit(x) PROVE Begins(x)
  <2>1. StartSend(x, cur) /\ pc[x] \in Unbegun /\ UNCHANGED activeStreams
    BY <1>2 DEF Submit, Unbegun
  <2> QED
    BY <1>0, <2>1, StartBegins
<1>3. ASSUME NEW x \in Sends, Queue(x) PROVE Rests
  BY <1>0, <1>3 DEF Queue, Rests, Unbegun
<1>4. ASSUME NEW x \in Sends, Promote(x) PROVE Rests \/ Begins(x)
  <2>1. pc[x] = "queued"
    BY <1>4 DEF Promote, ChatTypes, QueueKept
  <2>2. CASE ~isStreaming
    <3>1. StartSend(x, home[x]) /\ home[x] \in Sessions /\ UNCHANGED activeStreams
      BY <1>0, <1>4, <2>2 DEF Promote
    <3> QED
      BY <2>1, <3>1, StartBegins DEF Unbegun
  <2>3. CASE isStreaming
    <3>1. /\ pc' = [y \in Sends |-> CASE y = x -> "promoted"
                                      [] y = promoted -> "dropped"
                                      [] OTHER -> pc[y]]
          /\ UNCHANGED <<home, sess, wire, activeStreams>> /\ aborted \subseteq aborted'
      BY <1>4, <2>3 DEF Promote, StopForeground
    <3>2. promoted # NoSend => pc[promoted] = "promoted"
      BY <1>0 DEF QueueKept
    <3>3. \A y \in Sends : \/ pc'[y] = pc[y]
                           \/ pc[y] \in Unbegun /\ pc'[y] \in {"promoted", "dropped"}
      <4> SUFFICES ASSUME NEW y \in Sends
                   PROVE  \/ pc'[y] = pc[y]
                          \/ pc[y] \in Unbegun /\ pc'[y] \in {"promoted", "dropped"}
        OBVIOUS
      <4>0. x # promoted
        BY <2>1, <3>2, ChatAssumption
      <4>1. CASE y = x
        BY <2>1, <3>1, <4>0, <4>1 DEF Unbegun
      <4>2. CASE y # x /\ y = promoted
        BY <3>1, <3>2, <4>2, ChatAssumption DEF Unbegun
      <4>3. CASE y # x /\ y # promoted
        BY <3>1, <4>3
      <4> QED
        BY <4>1, <4>2, <4>3
    <3> QED
      BY <3>1, <3>3 DEF Rests
  <2> QED
    BY <2>2, <2>3
<1>5. ASSUME NEW x \in Sends, SendSteps(x)
      PROVE  Rests \/ Moves(x) \/ Ends(x) \/ ModelSwitched(x)
  <2>1. CASE Post(x)
    BY <2>1 DEF Post, Moves
  <2>2. CASE UploadFailed(x)
    <3>1. OnItsWay(x) /\ Settle(x, bgStreams) /\ UNCHANGED sendVars
      BY <2>2 DEF UploadFailed, OnItsWay, Preparing
    <3> QED
      BY <3>1, SettleEnds
  <2>3. CASE Headers(x) /\ wire[x] = "refused"
    <3>1. OnItsWay(x) /\ Settle(x, bgStreams) /\ UNCHANGED sendVars
      BY <2>3 DEF Headers, OnItsWay, Open, Reading
    <3> QED
      BY <3>1, SettleEnds
  <2>4. CASE Headers(x) /\ wire[x] # "refused"
    BY <2>4 DEF Headers, Moves, Open, Reading
  <2>5. CASE ReadEvent(x)
    BY <2>5 DEF ReadEvent, Rests
  <2>6. CASE ReadDone(x)
    BY <2>6 DEF ReadDone, Moves, Open, Reading
  <2>7. CASE ReadEnd(x)
    <3>1. OnItsWay(x) /\ Settle(x, bgStreams) /\ UNCHANGED sendVars
      BY <2>7 DEF ReadEnd, OnItsWay, Open, Reading
    <3> QED
      BY <3>1, SettleEnds
  <2>8. CASE ReadBroken(x)
    <3>1. OnItsWay(x) /\ Settle(x, MarkFailed(sess[x])) /\ UNCHANGED sendVars
      BY <2>8 DEF ReadBroken, OnItsWay, Open, Reading
    <3> QED
      BY <3>1, SettleEnds
  <2> QED
    BY <1>5, <2>1, <2>2, <2>3, <2>4, <2>5, <2>6, <2>7, <2>8 DEF SendSteps
<1>6. CASE \E x \in Sends : TimeOut(x) \/ Arrive(x) \/ Disconnect(x)
  <2>1. CASE \E x \in Sends : TimeOut(x)
    BY <2>1 DEF TimeOut, Rests
  <2>2. ASSUME NEW x \in Sends, Arrive(x) PROVE Rests
    <3>1. \A y \in Sends \ {x} : wire'[y] = "none" <=> wire[y] = "none"
      BY <2>2 DEF Arrive, ChatTypes, SendTypes
    <3> QED
      BY <2>2, <3>1 DEF Arrive, Rests
  <2>3. ASSUME NEW x \in Sends, Disconnect(x) PROVE Rests
    BY <2>3 DEF Disconnect, Rests, ChatTypes, SendTypes
  <2> QED
    BY <1>6, <2>1, <2>2, <2>3
<1>7. ASSUME NEW s \in Sessions,
             \/ SelectSession(s) \/ PollTick(s) \/ StatusAnswer(s) \/ Resume(s) \/ ResumeEnds(s)
      PROVE  Rests
  <2>1. UNCHANGED <<pc, home, sess, wire, activeStreams>> /\ aborted \subseteq aborted'
    BY <1>7 DEF SelectSession, Detach, PollTick, StatusAnswer, Resume, ResumeEnds
  <2> QED
    BY <2>1 DEF Rests
<1>8. ASSUME NEW s \in Sessions, RunEnds(s) \/ StopArrives(s) PROVE Rests
  <2>1. UNCHANGED <<pc, home, sess, aborted, activeStreams>>
    BY <1>8 DEF RunEnds, StopArrives
  <2>2. \A y \in Sends : wire'[y] = "none" <=> wire[y] = "none"
    BY <1>8 DEF RunEnds, StopArrives, ChatTypes, SendTypes, ViewTypes
  <2> QED
    BY <2>1, <2>2 DEF Rests
<1>9. CASE Stop
  BY <1>9 DEF Stop, StopForeground, Rests
<1>10. CASE DrainFires
  <2>1. CASE isStreaming \/ queued = <<>>
    BY <1>10, <2>1 DEF DrainFires, Rests
  <2>2. CASE ~(isStreaming \/ queued = <<>>)
    <3>1. PICK x \in Sends : x = Head(queued) /\ pc[x] = "queued"
      BY <1>0, <2>2, QueueTail DEF QueueKept
    <3>2. StartSend(x, home[x]) /\ home[x] \in Sessions /\ UNCHANGED activeStreams
      BY <1>0, <1>10, <2>2, <3>1 DEF DrainFires
    <3>3. Begins(x)
      BY <3>1, <3>2, StartBegins DEF Unbegun
    <3> QED
      BY <3>3
  <2> QED
    BY <2>1, <2>2
<1>11. CASE PromoteFires
  <2>1. /\ promoted \in Sends /\ pc[promoted] = "promoted" /\ home[promoted] \in Sessions
        /\ StartSend(promoted, home[promoted]) /\ UNCHANGED activeStreams
    BY <1>0, <1>11 DEF PromoteFires, QueueKept
  <2>2. Begins(promoted)
    BY <2>1, StartBegins DEF Unbegun
  <2> QED
    BY <2>1, <2>2
<1>12. CASE RecoverFires
  <2>1. CASE cur # sess[recovering]
    BY <1>12, <2>1 DEF RecoverFires, Rests
  <2>2. CASE cur = sess[recovering]
    <3>1. PICK y \in Sends :
            /\ pc[y] = "free"
            /\ IF isStreaming
                 THEN /\ pc' = [pc EXCEPT ![y] = "queued"]
                      /\ home' = [home EXCEPT ![y] = sess[recovering]]
                      /\ UNCHANGED <<sess, aborted, wire>>
                 ELSE StartSend(y, cur)
      BY <1>12, <2>2 DEF RecoverFires
    <3>2. UNCHANGED activeStreams
      BY <1>12 DEF RecoverFires
    <3>3. CASE isStreaming
      BY <1>0, <3>1, <3>2, <3>3 DEF Rests, Unbegun
    <3>4. CASE ~isStreaming
      <4>1. StartSend(y, cur) /\ pc[y] \in Unbegun
        BY <3>1, <3>4 DEF Unbegun
      <4>2. Begins(y)
        BY <1>0, <3>2, <4>1, StartBegins
      <4> QED
        BY <4>2
    <3> QED
      BY <3>3, <3>4
  <2> QED
    BY <2>1, <2>2
<1>13. CASE ProbeAsk \/ HistoryLoaded
  <2>1. UNCHANGED <<pc, home, sess, wire, activeStreams, aborted>>
    BY <1>13 DEF ProbeAsk, HistoryLoaded
  <2> QED
    BY <2>1 DEF Rests
<1> QED
  BY <1>1, <1>2, <1>3, <1>4, <1>5, <1>6, <1>7, <1>8, <1>9, <1>10, <1>11, <1>12, <1>13
     DEF ChatNext

-----------------------------------------------------------------------------
(* A reader that goes on reading is known. *)

Joins(x) == OnItsWay(x)' /\ ~(OnItsWay(x) /\ sess'[x] = sess[x])

\* No message goes out to a conversation while another is on its way to it.
\* The code does not see to that: a stop before the upload of a message is done
\* aborts nothing (abortCurrentRequest finds no entry) and unlocks the composer,
\* and neither the user nor the timers of the queue and the recovery wait then.
JoinsAlone ==
  \A x \in Sends : Joins(x) =>
    \A y \in Sends \ {x} : ~(OnItsWay(y) /\ sess[y] = sess'[x])
OneAtATime == [][JoinsAlone]_chatVars

Alone == \A x, y \in Sends : OnItsWay(x) /\ OnItsWay(y) /\ sess[x] = sess[y] => x = y
Entered == \A x \in Sends : Open(x) /\ x \notin aborted => activeStreams[sess[x]] = x

LEMMA AloneStep ==
  ASSUME ChatTypes, Alone, JoinsAlone, ChatNext PROVE Alone'
<1>1. ASSUME NEW x \in Sends, NEW y \in Sends, x # y,
             OnItsWay(x)', OnItsWay(y)', sess'[x] = sess'[y]
      PROVE  FALSE
  <2>1. CASE Joins(x) /\ ~Joins(y)
    BY <1>1, <2>1 DEF JoinsAlone, Joins
  <2>2. CASE ~Joins(x) /\ Joins(y)
    BY <1>1, <2>2 DEF JoinsAlone, Joins
  <2>3. CASE ~Joins(x) /\ ~Joins(y)
    BY <1>1, <2>3 DEF Joins, Alone
  <2>4. CASE Joins(x) /\ Joins(y)
    <3>1. \A z, w \in Sends : Joins(z) /\ Joins(w) => z = w
      <4>0. /\ pc \in [Sends -> Places] /\ sess \in [Sends -> Sessions]
        BY DEF ChatTypes, SendTypes
      <4>1. CASE Rests
        BY <4>0, <4>1 DEF Rests, Joins, OnItsWay, Preparing, Open, Reading, Unbegun
      <4>2. CASE Reload
        BY <4>2 DEF Reload, Joins, OnItsWay, Preparing, Open, Reading
      <4>3. CASE ProbeAnswer
        BY <4>3 DEF ProbeAnswer, Joins, OnItsWay, Preparing, Open
      <4>4. ASSUME NEW z \in Sends, Begins(z) \/ Moves(z) \/ Ends(z) \/ ModelSwitched(z)
            PROVE  \A w \in Sends \ {z} : ~Joins(w)
        <5>1. \A w \in Sends \ {z} : pc'[w] = pc[w] /\ sess'[w] = sess[w]
          BY <4>0, <4>4 DEF Begins, Moves, Ends, ModelSwitched
        <5> QED
          BY <5>1 DEF Joins, OnItsWay, Preparing, Open
      <4> QED
        BY <4>1, <4>2, <4>3, <4>4, SendMoves
    <3> QED
      BY <1>1, <2>4, <3>1
  <2> QED
    BY <2>1, <2>2, <2>3, <2>4
<1> QED
  BY <1>1 DEF Alone

LEMMA EnteredStep ==
  ASSUME ChatTypes, Alone, Alone', Entered, ChatNext, ~ProbeAnswer PROVE Entered'
<1>0. /\ pc \in [Sends -> Places] /\ sess \in [Sends -> Sessions]
      /\ activeStreams \in [Sessions -> Sends \union {NoSend}]
  BY DEF ChatTypes, SendTypes, PaneTypes
<1>1. CASE Rests
  BY <1>0, <1>1 DEF Rests, Entered, Open, Reading, Unbegun
<1>2. CASE Reload
  BY <1>2 DEF Reload, Entered, Open, Reading
<1>3. ASSUME NEW x \in Sends, Begins(x) \/ ModelSwitched(x) PROVE Entered'
  <2>1. /\ ~Open(x)' /\ \A y \in Sends \ {x} : pc'[y] = pc[y] /\ sess'[y] = sess[y]
        /\ UNCHANGED <<aborted, activeStreams>>
    BY <1>0, <1>3 DEF Begins, ModelSwitched, Open, Reading, WaysIn
  <2> QED
    BY <2>1 DEF Entered, Open
<1>4. ASSUME NEW x \in Sends, Moves(x) PROVE Entered'
  <2>1. \A y \in Sends \ {x} : pc'[y] = pc[y]
    BY <1>0, <1>4 DEF Moves
  <2>2. CASE pc[x] = "preparing" /\ activeStreams' = [activeStreams EXCEPT ![sess[x]] = x]
    <3>1. \A y \in Sends \ {x} : Open(y) => sess[y] # sess[x]
      BY <2>2 DEF Alone, OnItsWay, Preparing
    <3> QED
      BY <1>0, <1>4, <2>1, <2>2, <3>1 DEF Moves, Entered, Open
  <2>3. CASE Open(x) /\ UNCHANGED activeStreams
    BY <1>0, <1>4, <2>1, <2>3 DEF Moves, Entered, Open
  <2> QED
    BY <1>4, <2>2, <2>3 DEF Moves
<1>5. ASSUME NEW x \in Sends, Ends(x) PROVE Entered'
  <2>1. /\ ~Open(x)' /\ \A y \in Sends \ {x} : pc'[y] = pc[y]
        /\ UNCHANGED <<sess, aborted>>
    BY <1>0, <1>5 DEF Ends, Open, Reading
  <2>2. \A y \in Sends \ {x} : Open(y) => sess[y] # sess[x]
    BY <1>5 DEF Ends, Alone, OnItsWay
  <2> QED
    BY <1>0, <1>5, <2>1, <2>2 DEF Ends, Entered, Open
<1> QED
  BY <1>1, <1>2, <1>3, <1>4, <1>5, SendMoves

\* Whatever the user opens, stops or queues and however streams end, a reader
\* that goes on reading has the entry of its session in _activeStreams, as long
\* as messages go to a conversation one at a time and the watchdog of silent
\* streams does not act (it forgets the entry of whatever streams by then).
THEOREM ReadersStayKnown ==
  ASSUME "stall" \notin ChatOps
  PROVE  ChatSpec /\ OneAtATime => []ReaderKnown
<1> DEFINE Inv == ChatTypes /\ Alone /\ Entered /\ probe = NoSend
<1>1. ChatSpec => []ChatTypes
  BY ChatTypesInit, ChatTypesNext, PTL DEF ChatSpec
<1>2. ChatInit => Alone /\ Entered /\ probe = NoSend
  BY DEF ChatInit, Alone, Entered, OnItsWay, Preparing, Open, Reading
<1>3. Inv /\ [ChatNext]_chatVars /\ [JoinsAlone]_chatVars => Alone' /\ Entered' /\ (probe = NoSend)'
  <2> SUFFICES ASSUME ChatTypes, Alone, Entered, probe = NoSend,
                      [ChatNext]_chatVars, [JoinsAlone]_chatVars
               PROVE  Alone' /\ Entered' /\ probe' = NoSend
    OBVIOUS
  <2>1. CASE UNCHANGED chatVars
    BY <2>1 DEF chatVars, sendVars, Alone, Entered, OnItsWay, Preparing, Open
  <2>2. CASE ChatNext /\ JoinsAlone
    <3>1. ~ProbeAnswer
      BY DEF ProbeAnswer
    <3>2. probe' = NoSend
      BY <2>2 DEF ChatNext, SendSteps, Aborted, Submit, Queue, Promote, ModelSwitched, Post,
         UploadFailed, Headers, ReadEvent, ReadDone, ReadEnd, ReadBroken, TimeOut, Arrive,
         Disconnect, SelectSession, PollTick, StatusAnswer, Resume, ResumeEnds, RunEnds,
         StopArrives, Stop, Reload, DrainFires, PromoteFires, RecoverFires, ProbeAsk,
         ProbeAnswer, HistoryLoaded
    <3> QED
      BY <2>2, <3>1, <3>2, AloneStep, EnteredStep
  <2> QED
    BY <2>1, <2>2
<1>4. Entered => ReaderKnown
  BY DEF Entered, ReaderKnown, Open, Reading
<1> QED
  BY <1>1, <1>2, <1>3, <1>4, PTL DEF ChatSpec, OneAtATime

-----------------------------------------------------------------------------
(* A message reaches the conversation it was composed in. *)

\* What waited in the queue, or for the promote timer, goes out while its own
\* conversation is open.  The code sends it to whichever is open by then.
SentFromHome ==
  \A x \in Sends : pc[x] \in {"queued", "promoted"} /\ OnItsWay(x)' => cur = home[x]
QueueGoesHome == [][SentFromHome]_chatVars

\* A request is on the wire only for a send that began, and one that began is
\* headed for its home.
Unsent == \A x \in Sends : pc[x] \in Unbegun => wire[x] = "none"
HeadedHome == \A x \in Sends : OnItsWay(x) \/ wire[x] # "none" => sess[x] = home[x]

LEMMA HeadedHomeStep ==
  ASSUME ChatTypes, Unsent, HeadedHome, SentFromHome, ChatNext, "switchModel" \notin ChatOps,
         \A x \in Sends : pc[x] # "switching"
  PROVE  Unsent' /\ HeadedHome' /\ \A x \in Sends : pc'[x] # "switching"
<1>0. /\ pc \in [Sends -> Places] /\ sess \in [Sends -> Sessions]
      /\ home \in [Sends -> Sessions] /\ WaysIn = {"preparing"}
  BY DEF ChatTypes, SendTypes, WaysIn
<1>1. CASE Rests
  <2>1. \A x \in Sends : OnItsWay(x)' => OnItsWay(x) /\ pc'[x] = pc[x]
    BY <1>1 DEF Rests, OnItsWay, Preparing, Open, Reading
  <2>2. \A x \in Sends : pc'[x] \in Unbegun => pc[x] \in Unbegun
    BY <1>1 DEF Rests
  <2>3. \A x \in Sends : wire'[x] # "none" => wire[x] # "none" \/ OnItsWay(x)
    BY <1>1 DEF Rests, OnItsWay, Open, Reading
  <2>4. \A x \in Sends : pc[x] \in Unbegun => wire'[x] = "none"
    BY <1>1 DEF Rests, Unsent, Unbegun
  <2>5. \A x \in Sends : OnItsWay(x) \/ wire[x] # "none" => home'[x] = home[x]
    BY <1>1 DEF Rests, Unsent, Unbegun, OnItsWay, Preparing, Open, Reading
  <2>6. Unsent'
    BY <2>2, <2>4 DEF Unsent
  <2>7. HeadedHome'
    <3> SUFFICES ASSUME NEW x \in Sends, OnItsWay(x)' \/ wire'[x] # "none"
                 PROVE  sess'[x] = home'[x]
      BY DEF HeadedHome
    <3>1. OnItsWay(x) \/ wire[x] # "none"
      BY <2>1, <2>3
    <3> QED
      BY <1>1, <2>5, <3>1 DEF Rests, HeadedHome
  <2> QED
    BY <1>1, <2>6, <2>7 DEF Rests
<1>2. CASE Reload
  <2>1. \A x \in Sends : ~OnItsWay(x)' /\ pc'[x] # "switching"
    BY <1>2 DEF Reload, OnItsWay, Preparing, Open, Reading
  <2>2. UNCHANGED <<wire, home, sess>> /\ \A x \in Sends : pc'[x] \in Unbegun => pc[x] = "free"
    BY <1>2 DEF Reload, Unbegun
  <2> QED
    BY <2>1, <2>2 DEF HeadedHome, Unsent, Unbegun
<1>3. CASE ProbeAnswer
  BY <1>3 DEF ProbeAnswer, HeadedHome, Unsent, OnItsWay, Preparing, Open
<1>4. ASSUME NEW x \in Sends, Begins(x)
      PROVE  Unsent' /\ HeadedHome' /\ \A y \in Sends : pc'[y] # "switching"
  <2>1. /\ pc'[x] = "preparing" /\ \A y \in Sends \ {x} : pc'[y] = pc[y]
        /\ sess'[x] = cur /\ \A y \in Sends \ {x} : sess'[y] = sess[y] /\ home'[y] = home[y]
        /\ UNCHANGED wire
    BY <1>0, <1>4 DEF Begins
  <2>2. PICK s \in Sessions : /\ home' = [home EXCEPT ![x] = s]
                              /\ s = cur \/ (pc[x] # "free" /\ s = home[x])
    BY <1>4 DEF Begins
  <2>3. pc[x] # "free" => cur = home[x]
    BY <1>4, <2>1 DEF Begins, Unbegun, SentFromHome, OnItsWay, Preparing
  <2>4. s = cur
    BY <2>2, <2>3
  <2>5. home'[x] = s
    BY <1>0, <2>2
  <2> QED
    BY <2>1, <2>4, <2>5 DEF HeadedHome, Unsent, Unbegun, OnItsWay, Preparing, Open
<1>5. ASSUME NEW x \in Sends, Moves(x) \/ Ends(x)
      PROVE  Unsent' /\ HeadedHome' /\ \A y \in Sends : pc'[y] # "switching"
  <2>1. /\ OnItsWay(x) /\ pc'[x] \in {"over"} \union Reading
        /\ \A y \in Sends \ {x} : pc'[y] = pc[y]
        /\ UNCHANGED <<sess, home, wire>>
    BY <1>0, <1>5 DEF Moves, Ends, OnItsWay, Preparing, Reading
  <2> QED
    BY <2>1 DEF HeadedHome, Unsent, Unbegun, OnItsWay, Preparing, Open, Reading
<1>6. \A x \in Sends : ~ModelSwitched(x)
  BY DEF ModelSwitched
<1> QED
  BY <1>1, <1>2, <1>3, <1>4, <1>5, <1>6, SendMoves

\* A message reaches the conversation it was composed in, the handshakes of the
\* recovery timer included, whatever the user opens meanwhile, as long as no
\* model switch is awaited (streamSessionId is read after it) and what waited in
\* the queue goes out while its own conversation is open.
THEOREM MessagesGoHome ==
  ASSUME "switchModel" \notin ChatOps
  PROVE  ChatSpec /\ QueueGoesHome => []RightConversation
<1> DEFINE Home == Unsent /\ HeadedHome /\ \A x \in Sends : pc[x] # "switching"
<1>1. ChatSpec => []ChatTypes
  BY ChatTypesInit, ChatTypesNext, PTL DEF ChatSpec
<1>2. ChatInit => Home
  BY DEF ChatInit, Unsent, HeadedHome, OnItsWay, Preparing, Open, Reading
<1>3. ChatTypes /\ Home /\ [ChatNext]_chatVars /\ [SentFromHome]_chatVars => Home'
  <2> SUFFICES ASSUME ChatTypes, Home, [ChatNext]_chatVars, [SentFromHome]_chatVars
               PROVE  Home'
    OBVIOUS
  <2>1. CASE UNCHANGED chatVars
    BY <2>1 DEF chatVars, sendVars, Unsent, HeadedHome, OnItsWay, Preparing, Open
  <2>2. CASE ChatNext /\ SentFromHome
    BY <2>2, HeadedHomeStep
  <2> QED
    BY <2>1, <2>2
<1>4. Home => RightConversation
  BY DEF HeadedHome, RightConversation
<1> HIDE DEF Home
<1> QED
  BY <1>1, <1>2, <1>3, <1>4, PTL DEF ChatSpec, QueueGoesHome

=============================================================================
