----------------------------- MODULE AirPlayCast -----------------------------
(***************************************************************************)
(* AirPlay casts, one after the other: the casting task of the sender      *)
(* (run_airplay_pipeline in crates/openplay-sender/src/casting.rs), the    *)
(* session task each of them starts (crates/openplay-airplay/src/          *)
(* session.rs), the heartbeat task that shares the mirror stream with it   *)
(* (mirror_stream.rs), and the NTP server (ntp.rs), whose UDP port is the  *)
(* same for every cast.                                                    *)
(*                                                                         *)
(* A cast is over for the window when its casting task returns; its        *)
(* session, heartbeat and NTP server end later, each in its own time, and  *)
(* the next cast may meet them.  The receiver answers as it likes or not   *)
(* at all, stops reading, and breaks the connection.                       *)
(***************************************************************************)
EXTENDS Naturals, Sequences

CONSTANTS
    MaxCasts,       \* bound on the casts that are started
    FrameCap,       \* frames waiting for the casting task (32 in the code)
    CmdCap,         \* commands waiting for the session (64 in the code)
    Encoded         \* Encoded[n]: the frames the encoder may deliver in cast n

ASSUME CastsAssumption == MaxCasts \in Nat
ASSUME CapAssumption == FrameCap \in Nat \ {0} /\ CmdCap \in Nat \ {0}

VARIABLES
    cast,           \* the cast the casting task is at; 0 before the first
    task,           \* how far that task is
    stop,           \* its stop flag, set by the Stop button
    frames,         \* encoded frames it has not read
    sentCodec,      \* sent_codec_data
    sess,           \* sess[n]: how far the session task of cast n is
    events,         \* events[n]: session events not read yet
    cmds,           \* cmds[n]: commands not read yet
    job,            \* job[n]: the command the session is carrying out
    lock,           \* lock[n]: who holds the mutex around the mirror stream
    heart,          \* heart[n]: the heartbeat task
    heard,          \* history: what the mirror stream has carried
    peer,           \* peer[n]: what the receiver does with the connection
    port,           \* the cast whose NTP server has the port; 0 if none
    quit            \* casts whose NTP server was told to stop

runner == <<cast, task, stop, frames, sentCodec>>
stream == <<lock, heart, heard>>
ntp == <<port, quit>>
vars == <<runner, sess, events, cmds, job, stream, peer, ntp>>

Casts == 1..MaxCasts

(* An encoded frame has a sequence parameter set ("sps"), has none         *)
(* ("delta"), or has no data.  extract_sps_pps finds codec data in the     *)
(* first kind alone, whether or not a picture parameter set is with it.    *)
Video == {"sps", "delta"}
Frame == Video \cup {"empty"}
Command == Video \cup {"codec", "stop"}

ASSUME EncodedAssumption == Encoded \in [Casts -> SUBSET Frame]

(* The casting task is at recv, or about to send: the codec data of a      *)
(* frame, or the frame.                                                    *)
Streaming == Video \cup {"recv", "codec"}
OnStream == {"loop", "locking", "writing"}
SessionStates ==
    {"none", "binding", "negotiating", "authenticating", "over"} \cup OnStream

RunnerOK ==
    /\ cast \in 0..MaxCasts
    /\ task \in {"idle", "waiting", "closing", "stopping", "done"} \cup Streaming
    /\ stop \in BOOLEAN
    /\ frames \in Seq(Frame) /\ Len(frames) <= FrameCap
    /\ sentCodec \in BOOLEAN

ChannelsOK ==
    /\ events \in [Casts -> Seq({"Ready", "Ended"})]
    /\ cmds \in [Casts -> Seq(Command)]
    /\ \A n \in Casts : Len(cmds[n]) <= CmdCap

SessionsOK ==
    /\ sess \in [Casts -> SessionStates]
    /\ job \in [Casts -> Video \cup {"none", "codec"}]
    /\ lock \in [Casts -> {"free", "session", "heart"}]
    /\ heart \in [Casts -> {"none", "alive", "gone"}]
    /\ heard \in [Casts -> {"nothing", "codec", "early", "torn"}]
    /\ peer \in [Casts -> {"reading", "stalled", "broken", "closed"}]
    /\ port \in 0..MaxCasts
    /\ quit \in SUBSET Casts

AirPlayTypeOK == RunnerOK /\ ChannelsOK /\ SessionsOK

Init ==
    /\ cast = 0 /\ task = "idle" /\ stop = FALSE
    /\ frames = <<>> /\ sentCodec = FALSE
    /\ sess = [n \in Casts |-> "none"]
    /\ events = [n \in Casts |-> <<>>]
    /\ cmds = [n \in Casts |-> <<>>]
    /\ job = [n \in Casts |-> "none"]
    /\ lock = [n \in Casts |-> "free"]
    /\ heart = [n \in Casts |-> "none"]
    /\ heard = [n \in Casts |-> "nothing"]
    /\ peer = [n \in Casts |-> "reading"]
    /\ port = 0 /\ quit = {}

-----------------------------------------------------------------------------
(* The casting task *)

(* With the task go its variables, its stop flag and the frame channel.    *)
Return ==
    /\ task' = "done"
    /\ stop' = FALSE /\ frames' = <<>> /\ sentCodec' = FALSE

(* The window starts a cast when the one before has returned.  A pipeline  *)
(* that cannot be built ends it before it has a session.                   *)
StartCast ==
    /\ task \in {"idle", "done"} /\ cast < MaxCasts
    /\ cast' = cast + 1
    /\ \/ /\ task' = "waiting"
          /\ sess' = [sess EXCEPT ![cast + 1] = "binding"]
       \/ /\ task' = "done"
          /\ UNCHANGED sess
    /\ UNCHANGED <<stop, frames, sentCodec, events, cmds, job, stream, peer, ntp>>

(* The first event decides; the stop flag is not looked at.  The pipeline  *)
(* is started at once, or cannot be.                                       *)
AwaitReady ==
    /\ task = "waiting" /\ events[cast] # <<>>
    /\ events' = [events EXCEPT ![cast] = Tail(@)]
    /\ \/ /\ Head(events[cast]) = "Ready" /\ task' = "recv"
          /\ UNCHANGED <<stop, frames, sentCodec>>
       \/ Return
    /\ UNCHANGED <<cast, sess, cmds, job, stream, peer, ntp>>

AfterFrameInverted(f) ==
    CASE stop -> "closing"
      [] ~stop /\ f = "empty" -> "recv"
      [] ~stop /\ f = "sps" /\ sentCodec -> "codec"
      [] OTHER -> f

(* A frame without codec data is sent all the same. *)
AfterFrame(f) ==
    CASE stop -> "closing"
      [] ~stop /\ f = "empty" -> "recv"
      [] ~stop /\ f = "sps" /\ ~sentCodec -> "codec"
      [] OTHER -> f

TakeFrameIgnoringStop ==
    /\ task = "recv" /\ frames # <<>>
    /\ frames' = Tail(frames)
    /\ task' = CASE Head(frames) = "empty" -> "recv"
                  [] Head(frames) = "sps" /\ ~sentCodec -> "codec"
                  [] OTHER -> Head(frames)
    /\ UNCHANGED <<cast, stop, sentCodec, sess, events, cmds, job, stream, peer, ntp>>

TakeFrameEndsOnEmpty ==
    /\ task = "recv" /\ frames # <<>>
    /\ frames' = Tail(frames)
    /\ task' = IF Head(frames) = "empty" THEN "closing" ELSE AfterFrame(Head(frames))
    /\ UNCHANGED <<cast, stop, sentCodec, sess, events, cmds, job, stream, peer, ntp>>

TakeFrame ==
    /\ task = "recv" /\ frames # <<>>
    /\ frames' = Tail(frames)
    /\ task' = AfterFrame(Head(frames))
    /\ UNCHANGED <<cast, stop, sentCodec, sess, events, cmds, job, stream, peer, ntp>>

(* AirPlaySession::send waits for room in the channel; it fails when the   *)
(* session has dropped its end.                                            *)
Room(n) == sess[n] # "over" /\ Len(cmds[n]) < CmdCap
Enqueue(n, c) == cmds' = [cmds EXCEPT ![n] = Append(@, c)]

SendCodec ==
    /\ task = "codec"
    /\ \/ Room(cast) /\ Enqueue(cast, "codec") /\ sentCodec' = TRUE /\ task' = "sps"
       \/ sess[cast] = "over" /\ task' = "closing" /\ UNCHANGED <<cmds, sentCodec>>
    /\ UNCHANGED <<cast, stop, frames, sess, events, job, stream, peer, ntp>>

SendVideo ==
    /\ task \in Video
    /\ \/ Room(cast) /\ Enqueue(cast, task) /\ task' = "recv"
       \/ sess[cast] = "over" /\ task' = "closing" /\ UNCHANGED cmds
    /\ UNCHANGED <<cast, stop, frames, sentCodec, sess, events, job, stream, peer, ntp>>

(* The pipeline is stopped; when that fails the session is not told.       *)
StopPipeline ==
    /\ task = "closing"
    /\ \/ task' = "stopping" /\ UNCHANGED <<stop, frames, sentCodec>>
       \/ Return
    /\ UNCHANGED <<cast, sess, events, cmds, job, stream, peer, ntp>>

(* AirPlaySession::stop waits for room as well.  With the task goes its    *)
(* end of the command channel.                                             *)
StopSession ==
    /\ task = "stopping"
    /\ Return
    /\ \/ Room(cast) /\ Enqueue(cast, "stop")
       \/ sess[cast] = "over" /\ UNCHANGED cmds
    /\ UNCHANGED <<cast, sess, events, job, stream, peer, ntp>>

Runner == AwaitReady \/ TakeFrame \/ SendCodec \/ SendVideo \/ StopPipeline \/ StopSession

-----------------------------------------------------------------------------
(* The session task of cast n *)

(* The task returns an error: its end of the command channel and its NTP   *)
(* server are dropped, the heartbeat is not touched.                       *)
EndWithError(n) ==
    /\ sess' = [sess EXCEPT ![n] = "over"]
    /\ cmds' = [cmds EXCEPT ![n] = <<>>]
    /\ events' = [events EXCEPT ![n] = Append(@, "Ended")]
    /\ quit' = quit \cup {n}

(* The task leaves its loop: the heartbeat is aborted too, wherever it is, *)
(* and with the last owner of the stream goes the connection.              *)
EndSessionKeepsHeart(n) ==
    /\ EndWithError(n)
    /\ UNCHANGED <<heart, lock, peer>>

EndSession(n) ==
    /\ EndWithError(n)
    /\ heart' = [heart EXCEPT ![n] = "gone"]
    /\ lock' = [lock EXCEPT ![n] = "free"]
    /\ peer' = [peer EXCEPT ![n] = "closed"]

Go(n, next) == sess' = [sess EXCEPT ![n] = next] /\ UNCHANGED events

(* NtpServer::start on the fixed port *)
Bind(n) ==
    /\ sess[n] = "binding"
    /\ \/ port = 0 /\ port' = n /\ Go(n, "negotiating") /\ UNCHANGED <<cmds, quit>>
       \/ EndWithError(n) /\ UNCHANGED port
    /\ UNCHANGED <<runner, job, stream, peer>>

(* The status of the answer to POST /stream, as far as it matters; 0 is no *)
(* answer, or none with a status line.                                     *)
Status == {0, 200, 401, 403, 404, 470, 500, 501}
StatusIsSuccess(code) == code \in 200..299
WantsAuthentication(code) == code \in {401, 403, 404, 470, 501}

(* http_session::negotiate, which waits without a deadline *)
Negotiate(n) ==
    /\ sess[n] = "negotiating"
    /\ \E code \in Status :
          \/ /\ StatusIsSuccess(code)
             /\ sess' = [sess EXCEPT ![n] = "loop"]
             /\ events' = [events EXCEPT ![n] = Append(@, "Ready")]
             /\ heart' = [heart EXCEPT ![n] = "alive"]
             /\ UNCHANGED <<cmds, quit>>
          \/ /\ WantsAuthentication(code)
             /\ Go(n, "authenticating")
             /\ UNCHANGED <<cmds, heart, quit>>
          \/ /\ ~StatusIsSuccess(code) /\ ~WantsAuthentication(code)
             /\ EndWithError(n)
             /\ UNCHANGED heart
    /\ UNCHANGED <<runner, job, lock, heard, peer, port>>

(* negotiate_with_auth: GET /info, transient pairing, POST /stream over    *)
(* the encrypted channel.  It fails at one of these, and after the last    *)
(* one in any case: the mirror stream cannot be encrypted.                 *)
Authenticate(n) ==
    /\ sess[n] = "authenticating"
    /\ EndWithError(n)
    /\ UNCHANGED <<runner, job, stream, peer, port>>

TakeCommand(n) ==
    /\ sess[n] = "loop" /\ cmds[n] # <<>>
    /\ \/ /\ Head(cmds[n]) = "stop"
          /\ EndSession(n)
          /\ UNCHANGED job
       \/ /\ Head(cmds[n]) # "stop"
          /\ job' = [job EXCEPT ![n] = Head(cmds[n])]
          /\ cmds' = [cmds EXCEPT ![n] = Tail(@)]
          /\ Go(n, "locking")
          /\ UNCHANGED <<lock, heart, peer, quit>>
    /\ UNCHANGED <<runner, heard, port>>

(* The casting task holds the other end of the command channel. *)
Held(n) == n = cast /\ task # "done"

CommandsClosed(n) ==
    /\ sess[n] = "loop" /\ cmds[n] = <<>> /\ ~Held(n)
    /\ EndSession(n)
    /\ UNCHANGED <<runner, job, heard, port>>

(* write_packet under the lock: the header, then the payload. *)
WriteHeader(n) ==
    /\ sess[n] = "locking" /\ lock[n] = "free" /\ peer[n] = "reading"
    /\ lock' = [lock EXCEPT ![n] = "session"]
    /\ Go(n, "writing")
    /\ UNCHANGED <<runner, cmds, job, heart, heard, peer, ntp>>

Hear(before, packet) ==
    CASE before = "nothing" /\ packet = "codec" -> "codec"
      [] before = "nothing" /\ packet = "sps" -> "early"
      [] OTHER -> before

WritePayload(n) ==
    /\ sess[n] = "writing" /\ peer[n] = "reading"
    /\ heard' = [heard EXCEPT ![n] = Hear(@, job[n])]
    /\ job' = [job EXCEPT ![n] = "none"]
    /\ lock' = [lock EXCEPT ![n] = "free"]
    /\ Go(n, "loop")
    /\ UNCHANGED <<runner, cmds, heart, peer, ntp>>

WriteFails(n) ==
    /\ peer[n] = "broken"
    /\ \/ sess[n] = "locking" /\ lock[n] = "free"
       \/ sess[n] = "writing"
    /\ lock' = [lock EXCEPT ![n] = "free"]
    /\ EndWithError(n)
    /\ job' = [job EXCEPT ![n] = "none"]
    /\ UNCHANGED <<runner, heart, heard, peer, port>>

-----------------------------------------------------------------------------
(* The heartbeat task of cast n, and the NTP server *)

BeatTickUnlocked(n) ==
    /\ heart[n] = "alive" /\ lock[n] # "heart"
    /\ lock' = [lock EXCEPT ![n] = "heart"]
    /\ UNCHANGED <<runner, sess, events, cmds, job, heart, heard, peer, ntp>>

BeatTick(n) ==
    /\ heart[n] = "alive" /\ lock[n] = "free"
    /\ lock' = [lock EXCEPT ![n] = "heart"]
    /\ UNCHANGED <<runner, sess, events, cmds, job, heart, heard, peer, ntp>>

(* A heartbeat between a header and its payload would be read as payload.  *)
BeatWrite(n) ==
    /\ lock[n] = "heart" /\ peer[n] = "reading"
    /\ lock' = [lock EXCEPT ![n] = "free"]
    /\ heard' = [heard EXCEPT ![n] = IF sess[n] = "writing" THEN "torn" ELSE @]
    /\ UNCHANGED <<runner, sess, events, cmds, job, heart, peer, ntp>>

BeatFails(n) ==
    /\ lock[n] = "heart" /\ peer[n] = "broken"
    /\ lock' = [lock EXCEPT ![n] = "free"]
    /\ heart' = [heart EXCEPT ![n] = "gone"]
    /\ UNCHANGED <<runner, sess, events, cmds, job, heard, peer, ntp>>

(* The server's task closes its socket when it reads the shutdown. *)
NtpCloses ==
    /\ port \in quit
    /\ port' = 0
    /\ UNCHANGED <<runner, sess, events, cmds, job, stream, peer, quit>>

(* An error of recv_from ends the server's task, whatever its session does. *)
NtpBreaks ==
    /\ port # 0
    /\ port' = 0
    /\ UNCHANGED <<runner, sess, events, cmds, job, stream, peer, quit>>

-----------------------------------------------------------------------------
(* The user, the encoder and the receiver *)

PressStop ==
    /\ task \notin {"idle", "done"} /\ ~stop
    /\ stop' = TRUE
    /\ UNCHANGED <<cast, task, frames, sentCodec, sess, events, cmds, job, stream, peer, ntp>>

(* The encoder delivers what it likes; try_send drops what finds the       *)
(* channel full.                                                           *)
Emit(f) ==
    /\ task \in Streaming /\ f \in Encoded[cast]
    /\ frames' = IF Len(frames) < FrameCap THEN Append(frames, f) ELSE frames
    /\ UNCHANGED <<cast, task, stop, sentCodec, sess, events, cmds, job, stream, peer, ntp>>

Receiver(n) ==
    /\ sess[n] \in OnStream \/ heart[n] = "alive"
    /\ peer[n] # "broken"
    /\ \E p \in {"reading", "stalled", "broken"} \ {peer[n]} : peer' = [peer EXCEPT ![n] = p]
    /\ UNCHANGED <<runner, sess, events, cmds, job, stream, ntp>>

-----------------------------------------------------------------------------

Loop(n) == TakeCommand(n) \/ CommandsClosed(n)
Write(n) == WriteHeader(n) \/ WritePayload(n) \/ WriteFails(n)
Heart(n) == BeatTick(n) \/ BeatWrite(n) \/ BeatFails(n)

Next ==
    \/ StartCast \/ Runner \/ NtpCloses \/ NtpBreaks \/ PressStop
    \/ \E f \in Frame : Emit(f)
    \/ \E n \in Casts : \/ Bind(n) \/ Negotiate(n) \/ Authenticate(n)
                        \/ Loop(n) \/ Write(n) \/ Heart(n) \/ Receiver(n)

(* The runtime polls every task.  The mutex is fair, and a socket that     *)
(* takes bytes again and again lets a write through.  Nothing is asked of  *)
(* the receiver, which negotiate and negotiate_with_auth wait for, of the  *)
(* encoder or of the user.                                                 *)
Fairness ==
    /\ WF_vars(Runner)
    /\ WF_vars(NtpCloses)
    /\ \A n \in Casts : /\ WF_vars(Bind(n)) /\ WF_vars(Loop(n))
                        /\ SF_vars(Write(n)) /\ SF_vars(Heart(n))

Spec == Init /\ [][Next]_vars
FairSpec == Spec /\ Fairness

-----------------------------------------------------------------------------
(* Properties *)

(* send_codec_data in mirror_stream.rs asks that the codec data be sent    *)
(* before any video frame.  run_airplay_pipeline cannot see to that: an    *)
(* encoder that begins without a sequence parameter set has its frames     *)
(* sent all the same.  What the code does see to, for any encoder: no      *)
(* frame that has one reaches the receiver before the codec data, whatever *)
(* is dropped, queued, left empty or cut short.                            *)
CodecFirst == \A n \in Casts : heard[n] # "early"

(* A heartbeat never comes between the header and the payload of a packet, *)
(* though two tasks write to the stream, also when one of them fails or is *)
(* aborted (the mutex of run_session).                                     *)
PacketsWhole == \A n \in Casts : heard[n] # "torn"

(* A cast that streams ends only when the user stops it or the receiver    *)
(* breaks the connection: an empty frame, a full channel, a slow receiver  *)
(* or the end of the NTP server do not end it (run_airplay_pipeline and    *)
(* the loop of run_session).                                               *)
CastEndsForCause ==
    [][(task \in Streaming /\ task' \notin Streaming)
          => (stop \/ peer[cast] = "broken")]_vars

(* What Stop needs, since run_airplay_pipeline looks at the flag only when *)
(* a frame arrives, and no wait for the receiver has a deadline: the       *)
(* receiver answers, reads or breaks off, and the encoder delivers.        *)
Attended ==
    /\ []<>(task # "waiting" \/ events[cast] # <<>>)
    /\ []<>(task = "recv" => frames # <<>>)
    /\ \A n \in Casts : []<>(peer[n] # "stalled")

(* Then Stop ends the cast, though the command channel may be full and the *)
(* session waiting for the stream.                                         *)
StopEndsAirPlay == Attended => (stop ~> task = "done")

(* A cast that is done leaves nothing behind, whichever way it ended: its  *)
(* session ends, its heartbeat stops writing, and the NTP port is free     *)
(* again, unless the receiver neither reads nor breaks off for ever        *)
(* (cleanup of run_session, Drop for NtpServer, and the heartbeat that a   *)
(* failing send leaves running).                                           *)
ReleasedAtEnd ==
    \A n \in Casts :
        []<>(peer[n] # "stalled") =>
            ((n < cast \/ (n = cast /\ task = "done")) ~>
                sess[n] \in {"none", "over"} /\ heart[n] # "alive" /\ port # n)

==============================================================================
