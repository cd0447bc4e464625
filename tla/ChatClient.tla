----------------------------- MODULE ChatClient -----------------------------
(***************************************************************************)
(* The chat pane of one browser tab, static/js/chat.js, with the session   *)
(* switch of static/js/sessions.js, against the detached runs of the       *)
(* server (src/agent_runs.py, routes/chat_routes.py).                      *)
(*                                                                         *)
(* A send is one message on its way: typed, queued while another streams,  *)
(* or the handshake the tab sends by itself when a stream drops.  A step   *)
(* is what runs between two awaits of handleChatSubmit, a timer, a user    *)
(* event, or a step of the server or the network.  The session exists, is  *)
(* not incognito and the message is no slash command, so everything up to  *)
(* updateSubmitButton('streaming') is one step and _sendInFlight is false  *)
(* between steps; the zero timer of _setComposerAndSend is folded into the *)
(* step that sets it.  Tokens, rendering and research are left out: an     *)
(* event on the wire matters only for what it tells about the session.     *)
(***************************************************************************)
EXTENDS Integers, Sequences, SequencesExt

CONSTANTS
  Sessions, Sends, NoSend,
  NudgeCap,   \* _AUTO_NUDGE_CAP
  ChatOps     \* what the user, the network and the server do in an instance

ASSUME ChatAssumption ==
  NoSend \notin Sends /\ NudgeCap \in Nat

VARIABLES
  cur,            \* currentSessionId
  isStreaming,    \* isStreaming
  pc,             \* where each send is
  home,           \* the session a send was composed in
  sess,           \* streamSessionId
  aborted,        \* sends whose abortCtrl is aborted
  wire,           \* what the reader of a send will find
  activeStreams,  \* _activeStreams
  bgStreams,      \* status in _backgroundStreams, "none" without an entry
  queued,         \* _queuedAgentRequests
  drainTimer,     \* _queuedDrainTimer is set
  promoted,       \* the send _queuedPromoteTimer waits to send
  recovering,     \* the send whose 200 ms recovery timer is set
  hideNext,       \* _hideUserBubble
  hidden,         \* sends that went out without a user bubble
  handshakes,     \* sends composed by the recovery
  nudges,         \* _autoNudges
  run,            \* server: the run in flight of each session
  stopMail,       \* POST /api/chat/stop on their way
  loading,        \* selectSession awaits the history of cur
  polls,          \* sessions with a checkBackgroundStream interval
  rejoin,         \* requests of _checkServerStream: no, asking, joining
  resumed,        \* _resumingStreams: the run a resumed reader follows
  probe           \* the watchdog's status request: the send it asks about

userVars   == <<queued, drainTimer, promoted, recovering, hideNext, hidden,
                handshakes, nudges>>
viewVars   == <<loading, polls, rejoin, resumed>>
serverVars == <<run, stopMail>>
sendVars   == <<home, sess, aborted, wire>>
chatVars   == <<cur, isStreaming, pc, activeStreams, bgStreams, probe,
                userVars, viewVars, serverVars, sendVars>>

Reading == {"posted", "reading", "finished"}
Open(x) == pc[x] \in Reading
Preparing(x) == pc[x] \in {"switching", "preparing"}

ChatInit ==
  /\ cur \in Sessions
  /\ isStreaming = FALSE
  /\ pc = [x \in Sends |-> "free"]
  /\ home = [x \in Sends |-> cur] /\ sess = [x \in Sends |-> cur]
  /\ aborted = {}
  /\ wire = [x \in Sends |-> "none"]
  /\ activeStreams = [s \in Sessions |-> NoSend]
  /\ bgStreams = [s \in Sessions |-> "none"]
  /\ queued = <<>> /\ drainTimer = FALSE
  /\ promoted = NoSend /\ recovering = NoSend
  /\ hideNext = FALSE /\ hidden = {} /\ handshakes = {} /\ nudges = 0
  /\ run = [s \in Sessions |-> NoSend] /\ stopMail = {}
  /\ loading = FALSE /\ polls = {}
  /\ rejoin = [s \in Sessions |-> "no"]
  /\ resumed = [s \in Sessions |-> NoSend]
  /\ probe = NoSend

-----------------------------------------------------------------------------
(* Shared pieces. *)

\* hasActiveStream: a reader is connected for the session, or its entry says so.
\* _streamSessionId is set and cleared with the entry of the foreground send.
HasActiveStream(s) ==
  activeStreams[s] # NoSend \/ bgStreams[s] # "none" \/ resumed[s] # NoSend

\* _syncForegroundStreamGlobals, after the entries became act.
Synced(act) == act[cur] # NoSend

\* _drainQueuedAgentRequests, with the flag and queue as they will be.
DrainQueued(streaming, q) ==
  drainTimer' = (drainTimer \/ (~streaming /\ q # <<>>))

\* handleChatSubmit from its entry to the first await that can be long: a
\* model switch in progress, else the uploads and saves of what is attached.
\* Only after the model switch is streamSessionId read.
StartSend(x, from) ==
  /\ isStreaming' = TRUE
  /\ \/ pc' = [pc EXCEPT ![x] = "preparing"]
     \/ "switchModel" \in ChatOps /\ pc' = [pc EXCEPT ![x] = "switching"]
  /\ home' = [home EXCEPT ![x] = from]
  /\ sess' = [sess EXCEPT ![x] = cur]
  /\ hidden' = IF hideNext THEN hidden \union {x} ELSE hidden
  /\ nudges' = IF hideNext THEN nudges ELSE 0
  /\ hideNext' = FALSE
  /\ UNCHANGED <<aborted, wire>>

\* Mutants of Settle: the entry of the open session is deleted; the button is
\* left alone; the queue is forgotten.
SettleDeletesCurrent(x, bg) ==
  LET act == [activeStreams EXCEPT ![cur] = NoSend]
      background == cur # sess[x] \/ bg[sess[x]] # "none"
  IN /\ pc' = [pc EXCEPT ![x] = "over"]
     /\ activeStreams' = act /\ bgStreams' = bg
     /\ isStreaming' = (background /\ Synced(act))
     /\ DrainQueued(background /\ Synced(act), queued)

SettleKeepsButton(x, bg) ==
  /\ pc' = [pc EXCEPT ![x] = "over"]
  /\ activeStreams' = [activeStreams EXCEPT ![sess[x]] = NoSend]
  /\ bgStreams' = bg
  /\ UNCHANGED <<isStreaming, drainTimer>>

SettleForgetsQueue(x, bg) ==
  LET act == [activeStreams EXCEPT ![sess[x]] = NoSend]
  IN /\ pc' = [pc EXCEPT ![x] = "over"]
     /\ activeStreams' = act /\ bgStreams' = bg
     /\ isStreaming' = ((cur # sess[x] \/ bg[sess[x]] # "none") /\ Synced(act))
     /\ UNCHANGED drainTimer

\* The finally block: it deletes the session's entry, whoever owns it, and
\* leaves the button alone when the stream is or was in the background.
Settle(x, bg) ==
  LET s   == sess[x]
      act == [activeStreams EXCEPT ![s] = NoSend]
      background == cur # s \/ bg[s] # "none"
  IN /\ pc' = [pc EXCEPT ![x] = "over"]
     /\ activeStreams' = act
     /\ bgStreams' = bg
     /\ isStreaming' = (background /\ Synced(act))
     /\ DrainQueued(background /\ Synced(act), queued)

\* The catch block's entry: an error of a backgrounded stream only marks its
\* entry, and not even that once [DONE] was seen.
MarkFailed(s) ==
  IF bgStreams[s] = "running" THEN [bgStreams EXCEPT ![s] = "error"] ELSE bgStreams

\* detachCurrentStream(prev), called when currentSessionId is already s.  With
\* nothing streaming in prev it falls through to abortCurrentRequest, which
\* aborts the foreground stream: by now that of s.
Detach(prev, s) ==
  IF activeStreams[prev] # NoSend
    THEN /\ bgStreams' = [bgStreams EXCEPT ![prev] = "running"]
         /\ isStreaming' = FALSE
         /\ UNCHANGED aborted
    ELSE /\ aborted' = aborted \union ({activeStreams[s]} \ {NoSend})
         /\ UNCHANGED <<bgStreams, isStreaming>>

\* A reload of the session that is open, by selectSession.
ReloadSession(bg) ==
  /\ loading' = TRUE
  /\ bgStreams' = IF activeStreams[cur] # NoSend THEN [bg EXCEPT ![cur] = "running"] ELSE bg
  /\ isStreaming' = (isStreaming /\ activeStreams[cur] = NoSend)

\* The stop path of handleChatSubmit: abort the foreground stream, ask the
\* server to stop, unlock.  It drains the queue itself only when nothing had
\* streamed yet.
StopForeground ==
  /\ isStreaming' = FALSE
  /\ aborted' = aborted \union ({activeStreams[cur]} \ {NoSend})
  /\ stopMail' = stopMail \union {cur}

-----------------------------------------------------------------------------
(* The user. *)

\* A message to s is on its way or being answered.
Busy(s) ==
  run[s] # NoSend \/ \E y \in Sends : sess[y] = s /\ (Preparing(y) \/ Open(y))

\* Send while nothing streams here.  An instance without "resend" leaves out a
\* second message to a session whose reply is still on its way.
Submit(x) ==
  /\ pc[x] = "free" /\ ~isStreaming
  /\ "resend" \in ChatOps \/ ~Busy(cur)
  /\ StartSend(x, cur)
  /\ UNCHANGED <<cur, activeStreams, bgStreams, probe, queued, drainTimer,
                 promoted, recovering, handshakes, viewVars, serverVars>>

\* Enter while streaming: queueStreamingComposerRequest.
Queue(x) ==
  /\ "queue" \in ChatOps /\ pc[x] = "free" /\ isStreaming
  /\ pc' = [pc EXCEPT ![x] = "queued"]
  /\ home' = [home EXCEPT ![x] = cur]
  /\ queued' = Append(queued, x)
  /\ UNCHANGED <<cur, isStreaming, sess, aborted, wire, activeStreams, bgStreams,
                 probe, drainTimer, promoted, recovering, hideNext, hidden,
                 handshakes, nudges, viewVars, serverVars>>

\* The stop button.
Stop ==
  /\ "stop" \in ChatOps /\ isStreaming
  /\ StopForeground
  /\ \/ activeStreams[cur] # NoSend /\ DrainQueued(FALSE, queued)
     \/ UNCHANGED drainTimer
  /\ UNCHANGED <<cur, pc, home, sess, wire, activeStreams, bgStreams, probe, queued,
                 promoted, recovering, hideNext, hidden, handshakes, nudges,
                 viewVars, run>>

\* A click on a queued bubble: stop the response and send it as soon as the
\* pane is idle.  A new timer replaces the one that was waiting.
Promote(x) ==
  /\ "promote" \in ChatOps
  /\ \E i \in DOMAIN queued : queued[i] = x /\ queued' = RemoveAt(queued, i)
  /\ IF isStreaming
       THEN /\ pc' = [y \in Sends |-> CASE y = x -> "promoted"
                                        [] y = promoted -> "dropped"
                                        [] OTHER -> pc[y]]
            /\ promoted' = x
            /\ StopForeground
            /\ \/ activeStreams[cur] # NoSend /\ DrainQueued(FALSE, queued')
               \/ UNCHANGED drainTimer
            /\ UNCHANGED <<home, sess, wire, hidden, nudges, hideNext>>
       ELSE /\ StartSend(x, home[x])
            /\ UNCHANGED <<promoted, drainTimer, stopMail>>
  /\ UNCHANGED <<cur, activeStreams, bgStreams, probe, recovering, handshakes,
                 viewVars, run>>

\* selectSession(s) up to the fetch of its history.
SelectSession(s) ==
  /\ s # cur
  /\ cur' = s
  /\ Detach(cur, s)
  /\ loading' = TRUE
  /\ UNCHANGED <<pc, home, sess, wire, activeStreams, probe, userVars, polls,
                 rejoin, resumed, serverVars>>

\* The page is reloaded: the tab forgets everything, the server runs on.
Reload ==
  /\ "reload" \in ChatOps
  /\ isStreaming' = FALSE /\ aborted' = {}
  /\ pc' = [x \in Sends |-> IF pc[x] = "free" THEN "free" ELSE "over"]
  /\ activeStreams' = [s \in Sessions |-> NoSend]
  /\ bgStreams' = [s \in Sessions |-> "none"]
  /\ queued' = <<>> /\ drainTimer' = FALSE
  /\ promoted' = NoSend /\ recovering' = NoSend
  /\ hideNext' = FALSE /\ nudges' = 0
  /\ loading' = TRUE /\ polls' = {}
  /\ rejoin' = [s \in Sessions |-> "no"]
  /\ resumed' = [s \in Sessions |-> NoSend]
  /\ probe' = NoSend
  /\ UNCHANGED <<cur, home, sess, wire, hidden, handshakes, serverVars>>

-----------------------------------------------------------------------------
(* A send on its way. *)

\* The model switch is over: streamSessionId is the session open now.
ModelSwitched(x) ==
  /\ pc[x] = "switching"
  /\ pc' = [pc EXCEPT ![x] = "preparing"]
  /\ sess' = [sess EXCEPT ![x] = cur]
  /\ UNCHANGED <<cur, isStreaming, home, aborted, wire, activeStreams, bgStreams,
                 probe, userVars, viewVars, serverVars>>

\* Uploads and saves are done: the entry is made and the request sent.
Post(x) ==
  /\ pc[x] = "preparing"
  /\ pc' = [pc EXCEPT ![x] = "posted"]
  /\ activeStreams' = [activeStreams EXCEPT ![sess[x]] = x]
  /\ isStreaming' = Synced(activeStreams')
  /\ UNCHANGED <<cur, bgStreams, probe, userVars, viewVars, serverVars, sendVars>>

\* An upload failed: handleChatSubmit returns before it has an entry.
UploadFailed(x) ==
  /\ "refuse" \in ChatOps /\ pc[x] = "preparing"
  /\ Settle(x, bgStreams)
  /\ UNCHANGED <<cur, probe, queued, promoted, recovering, hideNext, hidden,
                 handshakes, nudges, viewVars, serverVars, sendVars>>

\* The response headers: read on, or show the error and return.
Headers(x) ==
  /\ pc[x] = "posted" /\ x \notin aborted /\ wire[x] # "none"
  /\ IF wire[x] = "refused"
       THEN Settle(x, bgStreams)
       ELSE /\ pc' = [pc EXCEPT ![x] = "reading"]
            /\ UNCHANGED <<isStreaming, activeStreams, bgStreams, drainTimer>>
  /\ UNCHANGED <<cur, probe, queued, promoted, recovering, hideNext, hidden,
                 handshakes, nudges, viewVars, serverVars, sendVars>>

\* Any event: the first one read from another session makes the entry.
ReadEvent(x) ==
  /\ pc[x] = "reading" /\ x \notin aborted /\ wire[x] = "open"
  /\ cur # sess[x] /\ bgStreams[sess[x]] = "none"
  /\ bgStreams' = [bgStreams EXCEPT ![sess[x]] = "running"]
  /\ UNCHANGED <<cur, isStreaming, pc, activeStreams, probe, userVars, viewVars,
                 serverVars, sendVars>>

\* [DONE]: the entry is completed in the background, deleted in the foreground.
\* The reader goes on until the connection closes.
ReadDone(x) ==
  /\ pc[x] = "reading" /\ x \notin aborted /\ wire[x] = "done"
  /\ pc' = [pc EXCEPT ![x] = "finished"]
  /\ bgStreams' = [bgStreams EXCEPT ![sess[x]] =
                     IF cur = sess[x] THEN "none" ELSE "completed"]
  /\ UNCHANGED <<cur, isStreaming, activeStreams, probe, userVars, viewVars,
                 serverVars, sendVars>>

\* End of the connection after [DONE]: the final render and the finally block.
ReadEnd(x) ==
  /\ pc[x] = "finished" /\ x \notin aborted
  /\ Settle(x, bgStreams)
  /\ UNCHANGED <<cur, probe, queued, promoted, recovering, hideNext, hidden,
                 handshakes, nudges, viewVars, serverVars, sendVars>>

\* Mutant of ReadBroken: the budget of the turn is not looked at.
ReadBrokenUncapped(x) ==
  /\ pc[x] = "reading" /\ x \notin aborted /\ wire[x] = "cut"
  /\ Settle(x, MarkFailed(sess[x]))
  /\ IF cur = sess[x] /\ bgStreams[cur] = "none"
       THEN /\ recovering' = x /\ hideNext' = TRUE
            /\ nudges' = nudges + 1
       ELSE UNCHANGED <<recovering, hideNext, nudges>>
  /\ UNCHANGED <<cur, probe, queued, promoted, hidden, handshakes, viewVars,
                 serverVars, sendVars>>

\* End of the connection, or its failure, before [DONE].  In the foreground
\* the tab prepares a handshake unless the turn's budget is spent.
ReadBroken(x) ==
  /\ pc[x] = "reading" /\ x \notin aborted /\ wire[x] = "cut"
  /\ Settle(x, MarkFailed(sess[x]))
  /\ IF cur = sess[x] /\ bgStreams[cur] = "none" /\ nudges < NudgeCap
       THEN /\ recovering' = x /\ hideNext' = TRUE
            /\ nudges' = nudges + 1
       ELSE UNCHANGED <<recovering, hideNext, nudges>>
  /\ UNCHANGED <<cur, probe, queued, promoted, hidden, handshakes, viewVars,
                 serverVars, sendVars>>

\* No first token within the limit: ask the server to stop, and abort.
TimeOut(x) ==
  /\ "timeout" \in ChatOps /\ pc[x] \in {"posted", "reading"} /\ x \notin aborted
  /\ aborted' = aborted \union {x}
  /\ stopMail' = stopMail \union {sess[x]}
  /\ UNCHANGED <<cur, isStreaming, pc, home, sess, wire, activeStreams, bgStreams,
                 probe, userVars, viewVars, run>>

\* AbortError reaches the coroutine of an aborted send.
Aborted(x) ==
  /\ x \in aborted /\ Open(x)
  /\ Settle(x, MarkFailed(sess[x]))
  /\ UNCHANGED <<cur, probe, queued, promoted, recovering, hideNext, hidden,
                 handshakes, nudges, viewVars, serverVars, sendVars>>

-----------------------------------------------------------------------------
(* Timers. *)

\* The drain timer: the head of the queue goes out in the session open now.
DrainFires ==
  /\ drainTimer
  /\ drainTimer' = FALSE
  /\ IF isStreaming \/ queued = <<>>
       THEN UNCHANGED <<isStreaming, pc, home, sess, aborted, wire, hidden, nudges,
                        hideNext, queued>>
       ELSE /\ StartSend(Head(queued), home[Head(queued)])
            /\ queued' = Tail(queued)
  /\ UNCHANGED <<cur, activeStreams, bgStreams, probe, promoted, recovering,
                 handshakes, viewVars, serverVars>>

\* The promote timer re-arms itself while something streams.
PromoteFires ==
  /\ promoted # NoSend /\ ~isStreaming
  /\ promoted' = NoSend
  /\ StartSend(promoted, home[promoted])
  /\ UNCHANGED <<cur, activeStreams, bgStreams, probe, queued, drainTimer,
                 recovering, handshakes, viewVars, serverVars>>

\* Mutant of RecoverFires: it does not look at the session open now.
RecoverAnywhere ==
  /\ recovering # NoSend /\ ~drainTimer
  /\ recovering' = NoSend
  /\ \E y \in Sends :
       /\ pc[y] = "free" /\ ~isStreaming
       /\ handshakes' = handshakes \union {y}
       /\ StartSend(y, sess[recovering])
  /\ UNCHANGED <<cur, activeStreams, bgStreams, probe, queued, drainTimer, promoted,
                 viewVars, serverVars>>

\* The recovery timer, 20 ms after the drain timer set with it: give up in
\* another conversation, else type the handshake and press send, which queues
\* it while something streams.
RecoverFires ==
  /\ recovering # NoSend /\ ~drainTimer
  /\ recovering' = NoSend
  /\ IF cur # sess[recovering]
       THEN /\ hideNext' = FALSE
            /\ UNCHANGED <<isStreaming, pc, home, sess, aborted, wire, hidden,
                           nudges, queued, handshakes>>
       ELSE \E y \in Sends :
              /\ pc[y] = "free"
              /\ handshakes' = handshakes \union {y}
              /\ IF isStreaming
                   THEN /\ pc' = [pc EXCEPT ![y] = "queued"]
                        /\ home' = [home EXCEPT ![y] = sess[recovering]]
                        /\ queued' = Append(queued, y)
                        /\ UNCHANGED <<isStreaming, sess, aborted, wire, hidden,
                                       nudges, hideNext>>
                   ELSE StartSend(y, sess[recovering]) /\ UNCHANGED queued
  /\ UNCHANGED <<cur, activeStreams, bgStreams, probe, drainTimer, promoted,
                 viewVars, serverVars>>

\* The watchdog of a silent stream asks the server about its session ...
ProbeAsk ==
  /\ "stall" \in ChatOps /\ probe = NoSend /\ isStreaming
  /\ activeStreams[cur] # NoSend /\ bgStreams[cur] = "none"
  /\ wire[activeStreams[cur]] \in {"none", "open", "dead"}
  /\ run[cur] = NoSend
  /\ probe' = activeStreams[cur]
  /\ UNCHANGED <<cur, isStreaming, pc, activeStreams, bgStreams, userVars, viewVars,
                 serverVars, sendVars>>

\* ... and on a 404 aborts it, forgets it and unlocks the composer.
ProbeAnswer ==
  /\ probe # NoSend
  /\ probe' = NoSend
  /\ LET s == sess[probe] IN
     IF activeStreams[cur] = NoSend \/ bgStreams[s] # "none"
       THEN UNCHANGED <<aborted, activeStreams, isStreaming, drainTimer>>
       ELSE /\ aborted' = aborted \union {probe}
            /\ activeStreams' = [activeStreams EXCEPT ![s] = NoSend]
            /\ isStreaming' = FALSE
            /\ DrainQueued(FALSE, queued)
  /\ UNCHANGED <<cur, pc, home, sess, wire, bgStreams, queued, promoted, recovering,
                 hideNext, hidden, handshakes, nudges, viewVars, serverVars>>

-----------------------------------------------------------------------------
(* Coming back to a session. *)

\* The history is painted: checkBackgroundStream, then _checkServerStream.
HistoryLoaded ==
  /\ loading /\ loading' = FALSE
  /\ IF bgStreams[cur] = "running"
       THEN polls' = polls \union {cur} /\ UNCHANGED <<bgStreams, rejoin>>
       ELSE /\ bgStreams' = [bgStreams EXCEPT ![cur] = "none"]
            /\ rejoin' = IF activeStreams[cur] = NoSend /\ resumed[cur] = NoSend
                             /\ rejoin[cur] = "no"
                           THEN [rejoin EXCEPT ![cur] = "asking"] ELSE rejoin
            /\ UNCHANGED polls
  /\ UNCHANGED <<cur, isStreaming, pc, activeStreams, probe, userVars, resumed,
                 serverVars, sendVars>>

\* The interval of checkBackgroundStream: gone when the user left, and when
\* the entry settled it deletes it and reloads the session.
PollTick(s) ==
  /\ s \in polls
  /\ cur # s \/ bgStreams[s] # "running"
  /\ polls' = polls \ {s}
  /\ IF cur # s
       THEN UNCHANGED <<bgStreams, isStreaming, loading>>
       ELSE ReloadSession([bgStreams EXCEPT ![s] = "none"])
  /\ UNCHANGED <<cur, pc, activeStreams, probe, userVars, rejoin, resumed, serverVars,
                 sendVars>>

\* The answer to the status request: resumeStream looks for a reader, once.
StatusAnswer(s) ==
  /\ rejoin[s] = "asking"
  /\ rejoin' = [rejoin EXCEPT ![s] =
                  IF run[s] # NoSend /\ ~HasActiveStream(s) THEN "joining" ELSE "no"]
  /\ UNCHANGED <<cur, isStreaming, pc, activeStreams, bgStreams, probe, userVars,
                 loading, polls, resumed, serverVars, sendVars>>

\* The answer to the resume request: a reader of whatever runs by now.
Resume(s) ==
  /\ rejoin[s] = "joining"
  /\ rejoin' = [rejoin EXCEPT ![s] = "no"]
  /\ resumed' = [resumed EXCEPT ![s] = run[s]]
  /\ UNCHANGED <<cur, isStreaming, pc, activeStreams, bgStreams, probe, userVars,
                 loading, polls, serverVars, sendVars>>

\* The resumed reader ends with its run, or when the user left the session;
\* a rich reply is then reloaded.
ResumeEnds(s) ==
  /\ resumed[s] # NoSend /\ (run[s] # resumed[s] \/ cur # s)
  /\ resumed' = [resumed EXCEPT ![s] = NoSend]
  /\ \/ UNCHANGED <<loading, bgStreams, isStreaming>>
     \/ cur = s /\ ReloadSession(bgStreams)
  /\ UNCHANGED <<cur, pc, activeStreams, probe, userVars, polls, rejoin, serverVars,
                 sendVars>>

-----------------------------------------------------------------------------
(* The server and the network. *)

\* The request arrives: its run replaces the one in flight, whose reader is cut.
Arrive(x) ==
  /\ pc[x] = "posted" /\ wire[x] = "none"
  /\ LET old == run[sess[x]] IN
     \/ /\ run' = [run EXCEPT ![sess[x]] = x]
        /\ wire' = [y \in Sends |-> CASE y = x -> "open"
                                      [] y = old /\ wire[y] = "open" -> "cut"
                                      [] OTHER -> wire[y]]
     \/ /\ "refuse" \in ChatOps
        /\ wire' = [wire EXCEPT ![x] = "refused"]
        /\ UNCHANGED run
  /\ UNCHANGED <<cur, isStreaming, pc, home, sess, aborted, activeStreams, bgStreams,
                 probe, userVars, viewVars, stopMail>>

\* The run in flight ends with [DONE].
RunEnds(s) ==
  /\ run[s] # NoSend
  /\ run' = [run EXCEPT ![s] = NoSend]
  /\ wire' = [wire EXCEPT ![run[s]] = IF @ = "open" THEN "done" ELSE @]
  /\ UNCHANGED <<cur, isStreaming, pc, home, sess, aborted, activeStreams, bgStreams,
                 probe, userVars, viewVars, stopMail>>

\* A stop arrives: whatever run the session has by now is cancelled.
StopArrives(s) ==
  /\ s \in stopMail
  /\ stopMail' = stopMail \ {s}
  /\ run' = [run EXCEPT ![s] = NoSend]
  /\ wire' = [x \in Sends |-> IF x = run[s] /\ wire[x] = "open" THEN "cut" ELSE wire[x]]
  /\ UNCHANGED <<cur, isStreaming, pc, home, sess, aborted, activeStreams, bgStreams,
                 probe, userVars, viewVars>>

\* The connection fails, visibly or without a word; the run goes on.
Disconnect(x) ==
  /\ pc[x] \in {"posted", "reading"} /\ wire[x] = "open"
  /\ \/ "drop" \in ChatOps /\ wire' = [wire EXCEPT ![x] = "cut"]
     \/ "stall" \in ChatOps /\ wire' = [wire EXCEPT ![x] = "dead"]
  /\ UNCHANGED <<cur, isStreaming, pc, home, sess, aborted, activeStreams, bgStreams,
                 probe, userVars, viewVars, serverVars>>

-----------------------------------------------------------------------------
SendSteps(x) ==
  \/ ModelSwitched(x) \/ Post(x) \/ UploadFailed(x) \/ Headers(x) \/ ReadEvent(x)
  \/ ReadDone(x) \/ ReadEnd(x) \/ ReadBroken(x)

\* An abort is a microtask: it reaches its coroutine before anything else runs.
NoAbortPending == \A x \in aborted : ~Open(x)

ChatNext ==
  \/ \E x \in Sends : Aborted(x)
  \/ /\ NoAbortPending
     /\ \/ \E x \in Sends : Submit(x) \/ Queue(x) \/ Promote(x) \/ SendSteps(x)
                            \/ TimeOut(x) \/ Arrive(x) \/ Disconnect(x)
        \/ \E s \in Sessions : SelectSession(s) \/ PollTick(s) \/ StatusAnswer(s)
                               \/ Resume(s) \/ ResumeEnds(s) \/ RunEnds(s)
                               \/ StopArrives(s)
        \/ Stop \/ Reload \/ DrainFires \/ PromoteFires \/ RecoverFires
        \/ ProbeAsk \/ ProbeAnswer \/ HistoryLoaded

ChatSpec == ChatInit /\ [][ChatNext]_chatVars

-----------------------------------------------------------------------------
\* The tab's loop runs what is ready and its timers fire; requests arrive, runs
\* end, connections that are cut are noticed.
ChatFairness ==
  /\ \A x \in Sends : /\ WF_chatVars(ModelSwitched(x)) /\ WF_chatVars(Post(x))
                      /\ WF_chatVars(Arrive(x)) /\ WF_chatVars(Headers(x))
                      /\ WF_chatVars(ReadDone(x)) /\ WF_chatVars(ReadEnd(x))
                      /\ WF_chatVars(ReadBroken(x)) /\ WF_chatVars(Aborted(x))
  /\ \A s \in Sessions : WF_chatVars(RunEnds(s)) /\ WF_chatVars(StopArrives(s))
                         /\ WF_chatVars(PollTick(s))
  /\ WF_chatVars(DrainFires) /\ WF_chatVars(PromoteFires) /\ WF_chatVars(RecoverFires)
  /\ WF_chatVars(ProbeAsk) /\ WF_chatVars(ProbeAnswer) /\ WF_chatVars(HistoryLoaded)

ChatFairSpec == ChatSpec /\ ChatFairness

-----------------------------------------------------------------------------
ChatTypeOK ==
  /\ cur \in Sessions /\ isStreaming \in BOOLEAN
  /\ pc \in [Sends -> {"free", "queued", "promoted", "dropped", "switching",
                       "preparing", "over"} \union Reading]
  /\ home \in [Sends -> Sessions] /\ sess \in [Sends -> Sessions]
  /\ wire \in [Sends -> {"none", "open", "done", "cut", "dead", "refused"}]
  /\ aborted \subseteq Sends /\ hidden \subseteq Sends /\ handshakes \subseteq Sends
  /\ activeStreams \in [Sessions -> Sends \union {NoSend}]
  /\ bgStreams \in [Sessions -> {"none", "running", "completed", "error"}]
  /\ {promoted, recovering, probe} \subseteq Sends \union {NoSend}
  /\ \A i \in DOMAIN queued : pc[queued[i]] = "queued"
  /\ IsInjective(queued)
  /\ {drainTimer, hideNext, loading} \subseteq BOOLEAN
  /\ nudges \in 0 .. NudgeCap
  /\ run \in [Sessions -> Sends \union {NoSend}]
  /\ resumed \in [Sessions -> Sends \union {NoSend}]
  /\ rejoin \in [Sessions -> {"no", "asking", "joining"}]
  /\ stopMail \subseteq Sessions /\ polls \subseteq Sessions

\* A message reaches the conversation it was composed in, whatever the user
\* opened between composing it and its request: the handshake of the recovery
\* timer (_tryAutoRecover) and the send whose uploads and saves are awaited
\* included.
RightConversation == \A x \in Sends : wire[x] # "none" => sess[x] = home[x]

\* A reader that goes on reading is the one _activeStreams has for its session:
\* Stop, the queue, the watchdog and detachCurrentStream find the stream through
\* that entry, and the finally block of another send deletes it unseen.
ReaderKnown ==
  \A x \in Sends : pc[x] = "reading" /\ x \notin aborted => activeStreams[sess[x]] = x

\* However a stream ends (reply, cut, silence, refusal, time-out, stop), the
\* composer is not left in its streaming state.
ComposerUnlocks == isStreaming ~> ~isStreaming

\* A message queued while a reply streams is sent in the end; no path that ends
\* the reply forgets the queue.
QueueServed == \A x \in Sends : pc[x] = "queued" ~> pc[x] # "queued"
=============================================================================
