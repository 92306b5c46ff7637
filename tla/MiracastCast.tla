----------------------------- MODULE MiracastCast -----------------------------
(***************************************************************************)
(* One Miracast cast: the casting task of the sender                       *)
(* (run_miracast_pipeline and run_miracast_p2p_pipeline in                 *)
(* crates/openplay-sender/src/casting.rs), the session task it starts      *)
(* (crates/openplay-miracast/src/session.rs), the RTSP control connection  *)
(* (rtsp_server.rs) and the Wi-Fi Direct group (wifi_direct.rs).           *)
(*                                                                         *)
(* The sink is arbitrary: it says what it likes, when it likes, breaks the *)
(* connection or vanishes.  wpa_supplicant forms, fails and drops groups   *)
(* at any moment.                                                          *)
(***************************************************************************)
EXTENDS Naturals, Sequences

CONSTANTS
    MaxUnanswered,  \* keep-alives that may go unanswered (3 in the code)
    BufferCap       \* bound: messages of the sink waiting to be read

ASSUME MaxAssumption == MaxUnanswered \in Nat \ {0}
ASSUME BufferAssumption == BufferCap \in Nat \ {0}

VARIABLES
    task,           \* the casting task
    stop,           \* the stop flag, set by the Stop button
    events,         \* session events the casting task has not read
    shutdown,       \* the casting task has let go of the session
    sess,           \* how far the session task is
    guard,          \* the P2PGroupGuard of the session
    unanswered,     \* silent keep-alive periods, as the session counts them
    group,          \* the P2P group, as wpa_supplicant has it
    wfd,            \* Wi-Fi Direct events the session has not read
    oldGroup,       \* the group of an earlier cast is still coming down
    inbox,          \* messages of the sink that have arrived
    said,           \* history: which of Telling the sink has said
    quiet,          \* history: keep-alive periods since the sink spoke
    closed,         \* the sink has closed the connection
    gone            \* the sink has vanished without closing it

runner == <<task, stop, shutdown>>
radio == <<group, wfd, oldGroup>>
sink == <<said, closed, gone>>
vars == <<runner, events, sess, guard, unanswered, radio, inbox, quiet, sink>>

(* What negotiate waits for at M1 ... M7: the sink's answer to a request   *)
(* of the source, or a request of the sink.                                *)
Stages == <<"M1", "M2", "M3", "M4", "M5", "M6", "M7">>
Expected == <<"200", "OPTIONS", "200", "200", "200", "SETUP", "PLAY">>
Negotiating == {Stages[i] : i \in 1..7}

(* A SETUP is one with a usable client_port; a rejection is a status other *)
(* than 200; what grows past MAX_MESSAGE_BYTES without being a message is  *)
(* "oversized".                                                            *)
Messages == {"200", "rejection", "OPTIONS", "SETUP", "SETUP without port",
             "PLAY", "TEARDOWN", "GET_PARAMETER", "oversized"}
Telling == {"SETUP", "PLAY", "TEARDOWN", "oversized"}

Joining == {"finding", "connecting", "forming"}
Connected == Negotiating \cup {"streaming"}
SessionStates == {"dialing", "resolving", "accepting", "over"} \cup Joining \cup Connected

MiracastTypeOK ==
    /\ task \in {"waiting", "starting", "streaming", "done"}
    /\ stop \in BOOLEAN
    /\ events \in Seq({"Ready", "Ended"})
    /\ shutdown \in BOOLEAN
    /\ sess \in SessionStates
    /\ guard \in {"none", "held", "dropped", "released", "failed"}
    /\ unanswered \in 0..MaxUnanswered
    /\ group \in {"none", "forming", "up"}
    /\ wfd \in Seq({"GroupFormed", "GroupRemoved", "Error"})
    /\ oldGroup \in BOOLEAN
    /\ inbox \in Seq(Messages)
    /\ said \in SUBSET Telling
    /\ quiet \in 0..(MaxUnanswered + 1)
    /\ closed \in BOOLEAN
    /\ gone \in BOOLEAN

(* start dials the sink; start_wifi_direct looks for the peer. *)
Init ==
    /\ task = "waiting" /\ stop = FALSE /\ shutdown = FALSE /\ events = <<>>
    /\ sess \in {"dialing", "finding"}
    /\ guard = "none" /\ unanswered = 0
    /\ group = "none" /\ wfd = <<>> /\ oldGroup \in {FALSE, sess = "finding"}
    /\ inbox = <<>> /\ said = {} /\ quiet = 0
    /\ closed = FALSE /\ gone = FALSE

-----------------------------------------------------------------------------
(* The session task *)

(* The session's future ends: its Ended is sent and the guard, if there is *)
(* one, dropped, which spawns the teardown of the group.                   *)
EndSession ==
    /\ sess' = "over"
    /\ events' = Append(events, "Ended")
    /\ guard' = IF guard = "held" THEN "dropped" ELSE guard

Step(next) == sess' = next /\ UNCHANGED <<events, guard>>

(* TcpStream::connect answers, fails or times out. *)
Dial ==
    /\ sess = "dialing"
    /\ Step("M1") \/ EndSession
    /\ UNCHANGED <<runner, unanswered, radio, inbox, quiet, sink>>

(* The peer is found, or fifteen seconds pass; either way the session goes *)
(* on to connect.  start_for_connect itself may fail.                      *)
Find ==
    /\ sess = "finding"
    /\ Step("connecting") \/ EndSession
    /\ UNCHANGED <<runner, unanswered, radio, inbox, quiet, sink>>

(* Events that arrive while the session looks for its peer are read and    *)
(* dropped.                                                                *)
FindEvent ==
    /\ sess = "finding" /\ wfd # <<>>
    /\ wfd' = Tail(wfd)
    /\ UNCHANGED <<runner, events, sess, guard, unanswered, group, oldGroup, inbox, quiet, sink>>

(* WifiDirectManager::connect *)
ConnectPeer ==
    /\ sess = "connecting"
    /\ \/ Step("forming") /\ group' = "forming"
       \/ EndSession /\ UNCHANGED group
    /\ UNCHANGED <<runner, unanswered, wfd, oldGroup, inbox, quiet, sink>>

(* WifiDirectManager::disconnect: wpa_supplicant takes the group down, or  *)
(* the call fails.                                                         *)
Disconnect == group' \in {group, IF group = "up" THEN "none" ELSE group}

(* The loop that waits for the group.  GroupFormed makes the guard; its    *)
(* peer address is known or has to be resolved.                            *)
FormGroup ==
    /\ sess = "forming" /\ wfd # <<>>
    /\ wfd' = Tail(wfd)
    /\ CASE Head(wfd) = "GroupFormed" ->
              /\ sess' \in {"resolving", "accepting"}
              /\ guard' = "held"
              /\ UNCHANGED <<events, group>>
         [] Head(wfd) = "Error" -> Disconnect /\ EndSession
         [] Head(wfd) = "GroupRemoved" -> EndSession /\ UNCHANGED group
    /\ UNCHANGED <<runner, unanswered, oldGroup, inbox, quiet, sink>>

(* Sixty seconds pass; what is in the queue then is not looked at. *)
FormTimeout ==
    /\ sess = "forming"
    /\ EndSession
    /\ UNCHANGED <<runner, unanswered, radio, inbox, quiet, sink>>

ResolvePeer ==
    /\ sess = "resolving"
    /\ Step("accepting") \/ EndSession
    /\ UNCHANGED <<runner, unanswered, radio, inbox, quiet, sink>>

(* The sink connects, or the source dials it after thirty seconds; the     *)
(* bind, the accept and the dialling may fail.                             *)
AcceptSink ==
    /\ sess = "accepting"
    /\ Step("M1") \/ EndSession
    /\ UNCHANGED <<runner, unanswered, radio, inbox, quiet, sink>>

AcceptsAnySetup(i, m) == m = Expected[i] \/ (i = 6 /\ m = "SETUP without port")

Accepts(i, m) == m = Expected[i]

(* negotiate reads the message of stage i.  PLAY is the last: Ready is     *)
(* sent and serve_control_channel entered.                                 *)
Negotiate(i) ==
    /\ sess = Stages[i] /\ inbox # <<>>
    /\ inbox' = Tail(inbox)
    /\ \/ /\ Accepts(i, Head(inbox)) /\ i < 7
          /\ Step(Stages[i + 1])
       \/ /\ Accepts(i, Head(inbox)) /\ i = 7
          /\ sess' = "streaming"
          /\ events' = Append(events, "Ready")
          /\ UNCHANGED guard
       \/ ~Accepts(i, Head(inbox)) /\ EndSession
    /\ UNCHANGED <<runner, unanswered, radio, quiet, sink>>

ReadForever == FALSE /\ UNCHANGED vars

(* RTSP_READ_TIMEOUT passes without a message. *)
ReadTimeout ==
    /\ sess \in Negotiating /\ inbox = <<>> /\ ~closed
    /\ EndSession
    /\ UNCHANGED <<runner, unanswered, radio, inbox, quiet, sink>>

(* A read or a write on the closed connection fails; what has arrived may  *)
(* be read before, or lost.                                                *)
ConnectionFails ==
    /\ sess \in Connected /\ closed
    /\ EndSession
    /\ UNCHANGED <<runner, unanswered, radio, inbox, quiet, sink>>

ControlMessageUncounted ==
    /\ sess = "streaming" /\ inbox # <<>>
    /\ inbox' = Tail(inbox)
    /\ IF Head(inbox) \in {"TEARDOWN", "oversized"} THEN EndSession
                                                   ELSE UNCHANGED <<sess, events, guard>>
    /\ UNCHANGED <<runner, unanswered, radio, quiet, sink>>

(* A message while streaming: it proves the sink alive, and a TEARDOWN     *)
(* ends the session.  So does the error of read_message when the buffer    *)
(* has grown too large.                                                    *)
ControlMessage ==
    /\ sess = "streaming" /\ inbox # <<>>
    /\ inbox' = Tail(inbox)
    /\ unanswered' = IF Head(inbox) = "oversized" THEN unanswered ELSE 0
    /\ IF Head(inbox) \in {"TEARDOWN", "oversized"} THEN EndSession
                                                   ELSE UNCHANGED <<sess, events, guard>>
    /\ UNCHANGED <<runner, radio, quiet, sink>>

TickOneMore ==
    /\ sess = "streaming" /\ inbox = <<>> /\ ~closed
    /\ quiet' = quiet + 1
    /\ \/ /\ unanswered > MaxUnanswered
          /\ EndSession
          /\ UNCHANGED unanswered
       \/ /\ unanswered <= MaxUnanswered
          /\ unanswered' = unanswered + 1
          /\ UNCHANGED <<sess, events, guard>>
    /\ UNCHANGED <<runner, radio, inbox, sink>>

PingForever ==
    /\ sess = "streaming" /\ inbox = <<>> /\ ~closed
    /\ UNCHANGED vars

(* A keep-alive period without a message: the sink is pinged once more or  *)
(* given up.                                                               *)
KeepAliveTick ==
    /\ sess = "streaming" /\ inbox = <<>> /\ ~closed
    /\ quiet' = quiet + 1
    /\ \/ /\ unanswered + 1 > MaxUnanswered
          /\ EndSession
          /\ UNCHANGED unanswered
       \/ /\ unanswered + 1 <= MaxUnanswered
          /\ unanswered' = unanswered + 1
          /\ UNCHANGED <<sess, events, guard>>
    /\ UNCHANGED <<runner, radio, inbox, sink>>

CancelKeepsGroup ==
    /\ sess # "over" /\ shutdown
    /\ sess' = "over"
    /\ events' = Append(events, "Ended")
    /\ UNCHANGED <<runner, guard, unanswered, radio, inbox, quiet, sink>>

(* The shutdown branch of the select drops the session's future wherever   *)
(* it is.                                                                  *)
Cancel ==
    /\ sess # "over" /\ shutdown
    /\ EndSession
    /\ UNCHANGED <<runner, unanswered, radio, inbox, quiet, sink>>

(* The teardown P2PGroupGuard::drop spawned runs. *)
TearDownGroup ==
    /\ guard = "dropped"
    /\ \/ guard' = "released" /\ group' = "none"
       \/ guard' = "failed" /\ UNCHANGED group
    /\ UNCHANGED <<runner, events, sess, unanswered, wfd, oldGroup, inbox, quiet, sink>>

Session ==
    \/ Dial \/ Find \/ FindEvent \/ ConnectPeer \/ FormGroup \/ FormTimeout
    \/ ResolvePeer \/ AcceptSink \/ ReadTimeout \/ ConnectionFails
    \/ ControlMessage \/ KeepAliveTick \/ Cancel
    \/ \E i \in 1..7 : Negotiate(i)

-----------------------------------------------------------------------------
(* The casting task *)

FinishKeepsSession == task' = "done" /\ UNCHANGED shutdown

(* The task ends and drops its MiracastSession. *)
Finish == task' = "done" /\ shutdown' = TRUE

(* The first event is waited for without a look at the stop flag. *)
AwaitReady ==
    /\ task = "waiting" /\ events # <<>>
    /\ events' = Tail(events)
    /\ IF Head(events) = "Ready"
       THEN task' = "starting" /\ UNCHANGED shutdown
       ELSE Finish
    /\ UNCHANGED <<stop, sess, guard, unanswered, radio, inbox, quiet, sink>>

(* The pipeline is built and started, or fails to. *)
StartPipeline ==
    /\ task = "starting"
    /\ \/ task' = "streaming" /\ UNCHANGED shutdown
       \/ Finish
    /\ UNCHANGED <<stop, events, sess, guard, unanswered, radio, inbox, quiet, sink>>

(* The casting loop: the stop flag is looked at between the session's      *)
(* events.  The channel closes only after an Ended.                        *)
ObserveStop ==
    /\ task = "streaming" /\ stop
    /\ Finish
    /\ UNCHANGED <<stop, events, sess, guard, unanswered, radio, inbox, quiet, sink>>

ObserveEnd ==
    /\ task = "streaming" /\ events # <<>>
    /\ Head(events) = "Ended"
    /\ events' = Tail(events)
    /\ Finish
    /\ UNCHANGED <<stop, sess, guard, unanswered, radio, inbox, quiet, sink>>

Runner == AwaitReady \/ StartPipeline \/ ObserveStop \/ ObserveEnd

(* The Stop button. *)
PressStop ==
    /\ task # "done" /\ ~stop
    /\ stop' = TRUE
    /\ UNCHANGED <<task, shutdown, events, sess, guard, unanswered, radio, inbox, quiet, sink>>

-----------------------------------------------------------------------------
(* The sink and wpa_supplicant *)

Speak(m) ==
    /\ sess \in Connected /\ ~closed /\ ~gone
    /\ Len(inbox) < BufferCap
    /\ inbox' = Append(inbox, m)
    /\ said' = said \cup ({m} \cap Telling)
    /\ quiet' = 0
    /\ UNCHANGED <<runner, events, sess, guard, unanswered, radio, closed, gone>>

CloseConnection ==
    /\ sess \in Connected /\ ~closed /\ ~gone
    /\ closed' = TRUE
    /\ UNCHANGED <<runner, events, sess, guard, unanswered, radio, inbox, quiet, said, gone>>

Vanish ==
    /\ sess # "over" /\ ~gone
    /\ gone' = TRUE
    /\ UNCHANGED <<runner, events, sess, guard, unanswered, radio, inbox, quiet, said, closed>>

(* GroupStarted, GroupFormationFailure and GroupFinished, as               *)
(* listen_for_signals hands them to the session.                           *)
GroupStarts ==
    /\ group = "forming"
    /\ group' = "up"
    /\ wfd' = Append(wfd, "GroupFormed")
    /\ UNCHANGED <<runner, events, sess, guard, unanswered, oldGroup, inbox, quiet, sink>>

GroupFails ==
    /\ group = "forming"
    /\ group' = "none"
    /\ wfd' = Append(wfd, "Error")
    /\ UNCHANGED <<runner, events, sess, guard, unanswered, oldGroup, inbox, quiet, sink>>

GroupLost ==
    /\ group = "up"
    /\ group' = "none"
    /\ wfd' = Append(wfd, "GroupRemoved")
    /\ gone' = TRUE
    /\ UNCHANGED <<runner, events, sess, guard, unanswered, oldGroup, inbox, quiet, said, closed>>

(* The group of the cast before comes down only now. *)
OldGroupRemoved ==
    /\ oldGroup
    /\ oldGroup' = FALSE
    /\ wfd' = Append(wfd, "GroupRemoved")
    /\ UNCHANGED <<runner, events, sess, guard, unanswered, group, inbox, quiet, sink>>

World ==
    \/ PressStop \/ CloseConnection \/ Vanish
    \/ GroupStarts \/ GroupFails \/ GroupLost \/ OldGroupRemoved
    \/ \E m \in Messages : Speak(m)

Next == Runner \/ Session \/ TearDownGroup \/ World

(* The runtime polls both tasks and the spawned teardown.  What the        *)
(* session waits for from the sink has a deadline: the dialling, accepting *)
(* and every read.  Its RTSP writes (RtspConnection::send) and its D-Bus   *)
(* calls have none; that these return is assumed.                          *)
Fairness ==
    /\ WF_vars(Runner)
    /\ WF_vars(Session)
    /\ WF_vars(Cancel)
    /\ WF_vars(TearDownGroup)

Spec == Init /\ [][Next]_vars
FairSpec == Spec /\ Fairness

-----------------------------------------------------------------------------
(* Properties *)

(* The casting task builds its pipeline only for a sink that has named the *)
(* port it listens on, in a SETUP, and has asked to PLAY: casting.rs sends *)
(* RTP to that port and nothing would report a wrong one.                  *)
AgreedBeforeReady ==
    task \in {"starting", "streaming"} => {"SETUP", "PLAY"} \subseteq said

(* What may end a cast: the user, a TEARDOWN, a broken connection, a       *)
(* message that does not fit, or more keep-alive periods in a row without  *)
(* a message than are allowed.                                             *)
Cause ==
    \/ stop \/ closed \/ quiet > MaxUnanswered
    \/ said \cap {"TEARDOWN", "oversized"} # {}

(* A cast that streams ends only for a cause.  Whatever ends the session   *)
(* task, or closes its channel, would end the cast (session.rs run_session *)
(* after its Ready), and a sink that answers is never given up             *)
(* (serve_control_channel_every).                                          *)
EndsForCause == [][task = "streaming" /\ task' = "done" => Cause]_vars

(* The Stop button ends the cast, though the casting task does not look at *)
(* its flag before the negotiation is over: whatever the session waits for *)
(* from sink or peer has a deadline (RTSP_READ_TIMEOUT and the ones of     *)
(* run_wifi_direct_session).                                               *)
StopEndsMiracast == stop ~> task = "done"

(* A sink that disappears without a word ends the cast in the end, though  *)
(* nobody reads GroupRemoved once the group is formed: the keep-alives     *)
(* notice (serve_control_channel_every).                                   *)
VanishedSinkEndsCast == gone ~> task = "done"

(* A casting task that is done leaves no session task behind on the        *)
(* connection (Drop for MiracastSession).                                  *)
SessionEndsWithTask == task = "done" ~> sess = "over"

(* A session that had a group gives it up, whichever way it ended, unless  *)
(* wpa_supplicant refuses (P2PGroupGuard).                                 *)
GroupReleased ==
    sess = "over" /\ guard # "none" ~> group # "up" \/ guard = "failed"

(* P2PGroupGuard: "Tears the P2P group down when the Wi-Fi Direct session  *)
(* ends, however it ends."                                                 *)
GroupGoesWithSession ==
    sess = "over" /\ group = "up" ~> group # "up" \/ guard = "failed"

===============================================================================
