-------------------------- MODULE AirPlayCastProofs --------------------------
(***************************************************************************)
(* The safety properties of AirPlayCast, for any number of casts and any   *)
(* size of the two channels.                                               *)
(***************************************************************************)
EXTENDS AirPlayCast, SequenceTheorems, TLAPS

(* The session holds the mutex exactly while it is inside a packet.        *)
Locks == \A n \in Casts : sess[n] = "writing" <=> lock[n] = "session"

(* It has a command in hand exactly while it is about to send one.         *)
Jobs == \A n \in Casts : job[n] # "none" <=> sess[n] \in {"locking", "writing"}

(* Nothing has happened to the casts to come.                              *)
Beyond == \A n \in Casts : n > cast => sess[n] = "none" /\ cmds[n] = <<>> /\ events[n] = <<>>

(* A cast begins without codec data sent, and a frame with a parameter set *)
(* is sent only after it.                                                  *)
SentFirst ==
    /\ task \in {"idle", "waiting", "done"} => ~sentCodec
    /\ task = "sps" => sentCodec

(* In a channel the codec data is ahead of every frame with a parameter    *)
(* set.                                                                    *)
Has(q) == \E i \in 1..Len(q) : q[i] = "codec"
Ahead(q) == \A i \in 1..Len(q) : q[i] = "sps" => \E j \in 1..(i - 1) : q[j] = "codec"

(* Until the stream has carried the codec data, it is ahead in the command *)
(* channel; once sent it is on its way.                                    *)
NoSpsNext ==
    \A n \in Casts : heard[n] = "nothing" /\ job[n] # "codec" => job[n] # "sps" /\ Ahead(cmds[n])
CodecOnWay ==
    (cast \in Casts /\ sentCodec) =>
        sess[cast] = "over" \/ heard[cast] # "nothing" \/ job[cast] = "codec" \/ Has(cmds[cast])
CodecAhead == NoSpsNext /\ CodecOnWay

(* The session is told to stop by a task that returns.                     *)
NoStopYet ==
    task # "done" /\ cast \in Casts => \A i \in 1..Len(cmds[cast]) : cmds[cast][i] # "stop"

(* A cast that streams, or is about to, has a session on the stream, or    *)
(* one that a broken connection ended.                                     *)
Began ==
    \/ task \in Streaming
    \/ task = "waiting" /\ \E i \in 1..Len(events[cast]) : events[cast][i] = "Ready"
OverForCause ==
    Began => sess[cast] \in OnStream \/ (sess[cast] = "over" /\ peer[cast] = "broken")

Running == task = "idle" \/ cast \in Casts

-----------------------------------------------------------------------------
(* A casting task that returns leaves well-typed variables. *)
LEMMA ReturnOK ==
    ASSUME RunnerOK, Return, cast' = cast
    PROVE  RunnerOK'
<1>1. stop' \in BOOLEAN /\ sentCodec' \in BOOLEAN
  BY Zenon DEF Return
<1>2. frames' \in Seq(Frame) /\ Len(frames') <= FrameCap
  BY CapAssumption DEF Return
<1>3. cast' \in 0..MaxCasts /\ task' = "done"
  BY DEF RunnerOK, Return
<1> QED  BY <1>1, <1>2, <1>3 DEF RunnerOK

(* A command is queued only while there is room. *)
LEMMA EnqueueOK ==
    ASSUME ChannelsOK, NEW n \in Casts, Room(n), NEW c \in Command, Enqueue(n, c),
           UNCHANGED events
    PROVE  ChannelsOK'
<1>1. cmds[n] \in Seq(Command) /\ Len(cmds[n]) < CmdCap
  BY DEF ChannelsOK, Room
<1>2. Append(cmds[n], c) \in Seq(Command) /\ Len(Append(cmds[n], c)) = Len(cmds[n]) + 1
  BY <1>1
<1>3. Len(Append(cmds[n], c)) <= CmdCap
  BY <1>1, <1>2, CapAssumption
<1>4. cmds' = [cmds EXCEPT ![n] = Append(cmds[n], c)]
  BY DEF Enqueue
<1> QED  BY <1>2, <1>3, <1>4 DEF ChannelsOK

(* A session that ends drops its commands and says so. *)
LEMMA EndOK ==
    ASSUME ChannelsOK, NEW n \in Casts, EndWithError(n)
    PROVE  ChannelsOK'
<1>1. cmds' = [cmds EXCEPT ![n] = <<>>] /\ <<>> \in Seq(Command) /\ Len(<<>>) <= CmdCap
  BY CapAssumption DEF EndWithError
<1>2. events[n] \in Seq({"Ready", "Ended"})
  BY DEF ChannelsOK
<1>3. Append(events[n], "Ended") \in Seq({"Ready", "Ended"})
  BY <1>2
<1>4. events' = [events EXCEPT ![n] = Append(events[n], "Ended")]
  BY DEF EndWithError
<1> QED  BY <1>1, <1>3, <1>4 DEF ChannelsOK

(* The casting task keeps its types. *)
LEMMA RunnerType ==
    ASSUME AirPlayTypeOK, Running, [Next]_vars
    PROVE  RunnerOK'
<1> USE CastsAssumption, CapAssumption DEF AirPlayTypeOK, RunnerOK, Running, Frame,
   Video, Streaming
<1>1. CASE StartCast
  BY <1>1 DEF StartCast, stream, ntp
<1>2. CASE AwaitReady
  <2>1. CASE Return
    BY <1>2, <2>1, ReturnOK DEF AwaitReady
  <2>2. CASE task' = "recv" /\ UNCHANGED <<stop, frames, sentCodec>>
    BY <1>2, <2>2 DEF AwaitReady
  <2> QED  BY <1>2, <2>1, <2>2 DEF AwaitReady
<1>3. CASE TakeFrame
  BY <1>3 DEF TakeFrame, AfterFrame, stream, ntp
<1>4. CASE SendCodec
  BY <1>4 DEF SendCodec, Room, Enqueue, stream, ntp
<1>5. CASE SendVideo
  BY <1>5 DEF SendVideo, Room, Enqueue, stream, ntp
<1>6. CASE StopPipeline
  <2>1. CASE Return
    BY <1>6, <2>1, ReturnOK DEF StopPipeline
  <2>2. CASE task' = "stopping" /\ UNCHANGED <<stop, frames, sentCodec>>
    BY <1>6, <2>2 DEF StopPipeline
  <2> QED  BY <1>6, <2>1, <2>2 DEF StopPipeline
<1>7. CASE StopSession
  BY <1>7, ReturnOK DEF StopSession
<1>8. CASE NtpCloses
  BY <1>8 DEF NtpCloses, runner, stream
<1>9. CASE NtpBreaks
  BY <1>9 DEF NtpBreaks, runner, stream
<1>10. CASE PressStop
  BY <1>10 DEF PressStop, stream, ntp
<1>11. ASSUME NEW f \in Frame, Emit(f) PROVE RunnerOK'
  BY <1>11 DEF Emit, stream, ntp
<1>12. ASSUME NEW n \in Casts, Bind(n) PROVE RunnerOK'
  BY <1>12 DEF Bind, EndWithError, Go, runner, stream
<1>13. ASSUME NEW n \in Casts, Negotiate(n) PROVE RunnerOK'
  BY <1>13 DEF Negotiate, EndWithError, Go, runner
<1>14. ASSUME NEW n \in Casts, Authenticate(n) PROVE RunnerOK'
  BY <1>14 DEF Authenticate, EndWithError, runner, stream
<1>15. ASSUME NEW n \in Casts, TakeCommand(n) PROVE RunnerOK'
  BY <1>15 DEF TakeCommand, EndSession, EndWithError, Go, runner
<1>16. ASSUME NEW n \in Casts, CommandsClosed(n) PROVE RunnerOK'
  BY <1>16 DEF CommandsClosed, EndSession, EndWithError, Held, runner
<1>17. ASSUME NEW n \in Casts, WriteHeader(n) PROVE RunnerOK'
  BY <1>17 DEF WriteHeader, Go, runner, ntp
<1>18. ASSUME NEW n \in Casts, WritePayload(n) PROVE RunnerOK'
  BY <1>18 DEF WritePayload, Go, Hear, runner, ntp
<1>19. ASSUME NEW n \in Casts, WriteFails(n) PROVE RunnerOK'
  BY <1>19 DEF WriteFails, EndWithError, runner
<1>20. ASSUME NEW n \in Casts, BeatTick(n) PROVE RunnerOK'
  BY <1>20 DEF BeatTick, runner, ntp
<1>21. ASSUME NEW n \in Casts, BeatWrite(n) PROVE RunnerOK'
  BY <1>21 DEF BeatWrite, runner, ntp
<1>22. ASSUME NEW n \in Casts, BeatFails(n) PROVE RunnerOK'
  BY <1>22 DEF BeatFails, runner, ntp
<1>23. ASSUME NEW n \in Casts, Receiver(n) PROVE RunnerOK'
  BY <1>23 DEF Receiver, runner, stream, ntp
<1>24. CASE UNCHANGED vars
  BY <1>24 DEF vars, runner, stream, ntp
<1> QED
  BY <1>1, <1>2, <1>3, <1>4, <1>5, <1>6, <1>7, <1>8, <1>9, <1>10, <1>11, <1>12, <1>13,
     <1>14, <1>15, <1>16, <1>17, <1>18, <1>19, <1>20, <1>21, <1>22, <1>23, <1>24
  DEF Next, Runner, Loop, Write, Heart

(* The sessions, heartbeats and NTP servers keep theirs. *)
LEMMA SessionsType ==
    ASSUME AirPlayTypeOK, Running, [Next]_vars
    PROVE  SessionsOK'
<1> USE CastsAssumption, CapAssumption DEF AirPlayTypeOK, SessionsOK, Casts,
   SessionStates, OnStream
<1>1. CASE StartCast
  BY <1>1 DEF StartCast, stream, ntp
<1>2. CASE AwaitReady
  BY <1>2 DEF AwaitReady, Return, stream, ntp
<1>3. CASE TakeFrame
  BY <1>3 DEF TakeFrame, AfterFrame, stream, ntp
<1>4. CASE SendCodec
  BY <1>4 DEF SendCodec, Room, Enqueue, stream, ntp
<1>5. CASE SendVideo
  BY <1>5 DEF SendVideo, Room, Enqueue, stream, ntp
<1>6. CASE StopPipeline
  BY <1>6 DEF StopPipeline, Return, stream, ntp
<1>7. CASE StopSession
  BY <1>7 DEF StopSession, Return, Room, Enqueue, stream, ntp
<1>8. CASE NtpCloses
  BY <1>8 DEF NtpCloses, runner, stream
<1>9. CASE NtpBreaks
  BY <1>9 DEF NtpBreaks, runner, stream
<1>10. CASE PressStop
  BY <1>10 DEF PressStop, stream, ntp
<1>11. ASSUME NEW f \in Frame, Emit(f) PROVE SessionsOK'
  BY <1>11 DEF Emit, stream, ntp
<1>12. ASSUME NEW n \in Casts, Bind(n) PROVE SessionsOK'
  <2>1. CASE EndWithError(n) /\ UNCHANGED port
    BY <1>12, <2>1 DEF Bind, EndWithError, stream
  <2>2. CASE port' = n /\ Go(n, "negotiating") /\ UNCHANGED quit
    BY <1>12, <2>2 DEF Bind, Go, stream
  <2> QED  BY <1>12, <2>1, <2>2 DEF Bind
<1>13. ASSUME NEW n \in Casts, Negotiate(n) PROVE SessionsOK'
  BY <1>13 DEF Negotiate, EndWithError, Go, runner
<1>14. ASSUME NEW n \in Casts, Authenticate(n) PROVE SessionsOK'
  BY <1>14 DEF Authenticate, EndWithError, runner, stream
<1>15. ASSUME NEW n \in Casts, TakeCommand(n) PROVE SessionsOK'
  <2>1. CASE EndSession(n) /\ UNCHANGED job
    BY <1>15, <2>1 DEF TakeCommand, EndSession, EndWithError
  <2>2. CASE Head(cmds[n]) # "stop"
    <3>1. Head(cmds[n]) \in Command /\ Head(cmds[n]) # "stop"
      BY <1>15, <2>2 DEF TakeCommand, ChannelsOK
    <3>2. Head(cmds[n]) \in Video \cup {"none", "codec"}
      BY <3>1 DEF Command
    <3>3. /\ job' = [job EXCEPT ![n] = Head(cmds[n])]
          /\ sess' = [sess EXCEPT ![n] = "locking"]
          /\ UNCHANGED <<lock, heart, heard, peer, port, quit>>
      BY <1>15, <2>2 DEF TakeCommand, Go
    <3> QED  BY <3>2, <3>3
  <2> QED  BY <1>15, <2>1, <2>2 DEF TakeCommand
<1>16. ASSUME NEW n \in Casts, CommandsClosed(n) PROVE SessionsOK'
  BY <1>16 DEF CommandsClosed, EndSession, EndWithError, Held, runner
<1>17. ASSUME NEW n \in Casts, WriteHeader(n) PROVE SessionsOK'
  BY <1>17 DEF WriteHeader, Go, runner, ntp
<1>18. ASSUME NEW n \in Casts, WritePayload(n) PROVE SessionsOK'
  BY <1>18 DEF WritePayload, Go, Hear, runner, ntp
<1>19. ASSUME NEW n \in Casts, WriteFails(n) PROVE SessionsOK'
  BY <1>19 DEF WriteFails, EndWithError, runner
<1>20. ASSUME NEW n \in Casts, BeatTick(n) PROVE SessionsOK'
  BY <1>20 DEF BeatTick, runner, ntp
<1>21. ASSUME NEW n \in Casts, BeatWrite(n) PROVE SessionsOK'
  BY <1>21 DEF BeatWrite, runner, ntp
<1>22. ASSUME NEW n \in Casts, BeatFails(n) PROVE SessionsOK'
  BY <1>22 DEF BeatFails, runner, ntp
<1>23. ASSUME NEW n \in Casts, Receiver(n) PROVE SessionsOK'
  BY <1>23 DEF Receiver, runner, stream, ntp
<1>24. CASE UNCHANGED vars
  BY <1>24 DEF vars, runner, stream, ntp
<1> QED
  BY <1>1, <1>2, <1>3, <1>4, <1>5, <1>6, <1>7, <1>8, <1>9, <1>10, <1>11, <1>12, <1>13,
     <1>14, <1>15, <1>16, <1>17, <1>18, <1>19, <1>20, <1>21, <1>22, <1>23, <1>24
  DEF Next, Runner, Loop, Write, Heart

(* So do the channels. *)
LEMMA ChannelsType ==
    ASSUME AirPlayTypeOK, Running, [Next]_vars
    PROVE  ChannelsOK'
<1> USE CastsAssumption, CapAssumption DEF AirPlayTypeOK, ChannelsOK, Running
<1>1. CASE StartCast
  BY <1>1 DEF StartCast, stream, ntp
<1>2. CASE AwaitReady
  BY <1>2 DEF AwaitReady, Return, stream, ntp
<1>3. CASE TakeFrame
  BY <1>3 DEF TakeFrame, AfterFrame, stream, ntp
<1>4. CASE SendCodec
  <2>1. cast \in Casts /\ "codec" \in Command
    BY <1>4 DEF SendCodec, Command
  <2>2. CASE Room(cast) /\ Enqueue(cast, "codec")
    BY <1>4, <2>1, <2>2, EnqueueOK DEF SendCodec
  <2>3. CASE UNCHANGED cmds
    BY <1>4, <2>3 DEF SendCodec
  <2> QED  BY <1>4, <2>2, <2>3 DEF SendCodec
<1>5. CASE SendVideo
  <2>1. cast \in Casts /\ task \in Command
    BY <1>5 DEF SendVideo, Command, Video
  <2>2. CASE Room(cast) /\ Enqueue(cast, task)
    BY <1>5, <2>1, <2>2, EnqueueOK DEF SendVideo
  <2>3. CASE UNCHANGED cmds
    BY <1>5, <2>3 DEF SendVideo
  <2> QED  BY <1>5, <2>2, <2>3 DEF SendVideo
<1>6. CASE StopPipeline
  BY <1>6 DEF StopPipeline, Return, stream, ntp
<1>7. CASE StopSession
  <2>1. cast \in Casts /\ "stop" \in Command
    BY <1>7 DEF StopSession, Command
  <2>2. CASE Room(cast) /\ Enqueue(cast, "stop")
    BY <1>7, <2>1, <2>2, EnqueueOK DEF StopSession
  <2>3. CASE UNCHANGED cmds
    BY <1>7, <2>3 DEF StopSession
  <2> QED  BY <1>7, <2>2, <2>3 DEF StopSession
<1>8. CASE NtpCloses
  BY <1>8 DEF NtpCloses, runner, stream
<1>9. CASE NtpBreaks
  BY <1>9 DEF NtpBreaks, runner, stream
<1>10. CASE PressStop
  BY <1>10 DEF PressStop, stream, ntp
<1>11. ASSUME NEW f \in Frame, Emit(f) PROVE ChannelsOK'
  BY <1>11 DEF Emit, stream, ntp
<1>12. ASSUME NEW n \in Casts, Bind(n) PROVE ChannelsOK'
  BY <1>12, EndOK DEF Bind, Go
<1>13. ASSUME NEW n \in Casts, Negotiate(n) PROVE ChannelsOK'
  <2>1. CASE EndWithError(n)
    BY <2>1, EndOK
  <2>2. CASE UNCHANGED <<events, cmds>>
    BY <2>2
  <2>3. CASE events' = [events EXCEPT ![n] = Append(@, "Ready")] /\ UNCHANGED cmds
    <3>1. Append(events[n], "Ready") \in Seq({"Ready", "Ended"})
      OBVIOUS
    <3> QED  BY <2>3, <3>1
  <2> QED  BY <1>13, <2>1, <2>2, <2>3 DEF Negotiate, Go
<1>14. ASSUME NEW n \in Casts, Authenticate(n) PROVE ChannelsOK'
  BY <1>14, EndOK DEF Authenticate
<1>15. ASSUME NEW n \in Casts, TakeCommand(n) PROVE ChannelsOK'
  <2>1. CASE EndSession(n)
    BY <2>1, EndOK DEF EndSession
  <2>2. CASE cmds' = [cmds EXCEPT ![n] = Tail(@)] /\ UNCHANGED events
    <3>1. cmds[n] \in Seq(Command) /\ cmds[n] # <<>>
      BY <1>15 DEF TakeCommand
    <3>2. Tail(cmds[n]) \in Seq(Command) /\ Len(Tail(cmds[n])) = Len(cmds[n]) - 1
      BY <3>1
    <3>3. Len(Tail(cmds[n])) <= CmdCap
      BY <3>1, <3>2
    <3> QED  BY <2>2, <3>2, <3>3
  <2> QED  BY <1>15, <2>1, <2>2 DEF TakeCommand, Go
<1>16. ASSUME NEW n \in Casts, CommandsClosed(n) PROVE ChannelsOK'
  BY <1>16, EndOK DEF CommandsClosed, EndSession
<1>17. ASSUME NEW n \in Casts, WriteHeader(n) PROVE ChannelsOK'
  BY <1>17 DEF WriteHeader, Go, runner, ntp
<1>18. ASSUME NEW n \in Casts, WritePayload(n) PROVE ChannelsOK'
  BY <1>18 DEF WritePayload, Go, Hear, runner, ntp
<1>19. ASSUME NEW n \in Casts, WriteFails(n) PROVE ChannelsOK'
  BY <1>19, EndOK DEF WriteFails
<1>20. ASSUME NEW n \in Casts, BeatTick(n) PROVE ChannelsOK'
  BY <1>20 DEF BeatTick, runner, ntp
<1>21. ASSUME NEW n \in Casts, BeatWrite(n) PROVE ChannelsOK'
  BY <1>21 DEF BeatWrite, runner, ntp
<1>22. ASSUME NEW n \in Casts, BeatFails(n) PROVE ChannelsOK'
  BY <1>22 DEF BeatFails, runner, ntp
<1>23. ASSUME NEW n \in Casts, Receiver(n) PROVE ChannelsOK'
  BY <1>23 DEF Receiver, runner, stream, ntp
<1>24. CASE UNCHANGED vars
  BY <1>24 DEF vars, runner, stream, ntp
<1> QED
  BY <1>1, <1>2, <1>3, <1>4, <1>5, <1>6, <1>7, <1>8, <1>9, <1>10, <1>11, <1>12, <1>13,
     <1>14, <1>15, <1>16, <1>17, <1>18, <1>19, <1>20, <1>21, <1>22, <1>23, <1>24
  DEF Next, Runner, Loop, Write, Heart

(* What a send and a receive do to the order of a channel. *)
LEMMA AheadEmpty == Ahead(<<>>)
BY DEF Ahead

LEMMA HasAppend ==
    ASSUME NEW q \in Seq(Command), NEW c \in Command
    PROVE  /\ Has(q) => Has(Append(q, c))
           /\ c = "codec" => Has(Append(q, c))
<1>1. /\ Len(Append(q, c)) = Len(q) + 1 /\ Append(q, c)[Len(q) + 1] = c
      /\ \A i \in 1..Len(q) : Append(q, c)[i] = q[i]
  OBVIOUS
<1>2. Len(q) \in Nat /\ Len(q) + 1 \in 1..(Len(q) + 1) /\ \A i \in 1..Len(q) : i \in 1..(Len(q) + 1)
  OBVIOUS
<1> QED  BY <1>1, <1>2 DEF Has

LEMMA AheadAppend ==
    ASSUME NEW q \in Seq(Command), NEW c \in Command, Ahead(q), c = "sps" => Has(q)
    PROVE  Ahead(Append(q, c))
<1>1. /\ Len(Append(q, c)) = Len(q) + 1 /\ Append(q, c)[Len(q) + 1] = c
      /\ \A i \in 1..Len(q) : Append(q, c)[i] = q[i]
  OBVIOUS
<1>2. Len(q) \in Nat
  OBVIOUS
<1>3. ASSUME NEW i \in 1..(Len(q) + 1), Append(q, c)[i] = "sps"
      PROVE  \E j \in 1..(i - 1) : Append(q, c)[j] = "codec"
  <2>1. CASE i \in 1..Len(q)
    <3>1. PICK j \in 1..(i - 1) : q[j] = "codec"
      BY <1>1, <1>3, <2>1 DEF Ahead
    <3> QED  BY <1>1, <1>2, <2>1, <3>1
  <2>2. CASE i = Len(q) + 1
    <3>1. PICK j \in 1..Len(q) : q[j] = "codec"
      BY <1>1, <1>3, <2>2 DEF Has
    <3> QED  BY <1>1, <1>2, <2>2, <3>1
  <2> QED  BY <1>2, <2>1, <2>2
<1> QED  BY <1>1, <1>3 DEF Ahead

LEMMA AheadTail ==
    ASSUME NEW q \in Seq(Command), q # <<>>, Head(q) # "codec"
    PROVE  /\ Ahead(q) => Head(q) # "sps" /\ Ahead(Tail(q))
           /\ Has(q) => Has(Tail(q))
<1>1. /\ Len(q) \in Nat \ {0} /\ Len(Tail(q)) = Len(q) - 1 /\ q[1] = Head(q)
      /\ \A i \in 1..(Len(q) - 1) : Tail(q)[i] = q[i + 1]
  OBVIOUS
<1>2. ASSUME Ahead(q) PROVE Head(q) # "sps"
  BY <1>1, <1>2 DEF Ahead
<1>3. ASSUME Ahead(q), NEW i \in 1..Len(Tail(q)), Tail(q)[i] = "sps"
      PROVE  \E j \in 1..(i - 1) : Tail(q)[j] = "codec"
  <2>1. i + 1 \in 1..Len(q) /\ q[i + 1] = "sps"
    BY <1>1, <1>3
  <2>2. PICK j \in 1..((i + 1) - 1) : q[j] = "codec"
    BY <1>3, <2>1 DEF Ahead
  <2>3. j # 1 /\ j - 1 \in 1..(i - 1) /\ j - 1 \in 1..(Len(q) - 1)
    BY <1>1, <1>3, <2>1, <2>2
  <2>4. Tail(q)[j - 1] = q[(j - 1) + 1] /\ (j - 1) + 1 = j
    BY <1>1, <2>2, <2>3
  <2> QED  BY <2>2, <2>3, <2>4
<1>4. ASSUME Has(q) PROVE Has(Tail(q))
  <2>1. PICK j \in 1..Len(q) : q[j] = "codec"
    BY <1>4 DEF Has
  <2>2. j # 1 /\ j - 1 \in 1..(Len(q) - 1) /\ (j - 1) + 1 = j
    BY <1>1, <2>1
  <2> QED  BY <1>1, <2>1, <2>2 DEF Has
<1>5. Ahead(q) => Ahead(Tail(q))
  BY <1>3 DEF Ahead
<1> QED  BY <1>2, <1>4, <1>5

(* The cast that StartCast turns to, of which nothing is known yet. *)
LEMMA NextCast ==
    ASSUME RunnerOK, Beyond, StartCast
    PROVE  /\ cast + 1 \in Casts /\ cast' = cast + 1 /\ cast' > cast
           /\ sess[cast + 1] = "none" /\ cmds[cast + 1] = <<>> /\ events[cast + 1] = <<>>
<1>1. cast \in Nat /\ cast < MaxCasts /\ cast' = cast + 1
  BY CastsAssumption DEF RunnerOK, StartCast
<1>2. cast + 1 \in Casts /\ cast + 1 > cast
  BY <1>1, CastsAssumption DEF Casts
<1> QED  BY <1>1, <1>2 DEF Beyond

(* A task that runs is at one of the casts. *)
LEMMA RunningStep ==
    ASSUME RunnerOK, Running, [Next]_vars
    PROVE  Running'
<1> USE CastsAssumption, CapAssumption DEF RunnerOK, Running, Video, Casts
<1>1. CASE StartCast
  BY <1>1 DEF StartCast, stream, ntp
<1>2. CASE AwaitReady
  BY <1>2 DEF AwaitReady, Return, stream, ntp
<1>3. CASE TakeFrame
  BY <1>3 DEF TakeFrame, AfterFrame, stream, ntp
<1>4. CASE SendCodec
  BY <1>4 DEF SendCodec, Room, Enqueue, stream, ntp
<1>5. CASE SendVideo
  BY <1>5 DEF SendVideo, Room, Enqueue, stream, ntp
<1>6. CASE StopPipeline
  BY <1>6 DEF StopPipeline, Return, stream, ntp
<1>7. CASE StopSession
  BY <1>7 DEF StopSession, Return, Room, Enqueue, stream, ntp
<1>8. CASE NtpCloses
  BY <1>8 DEF NtpCloses, runner, stream
<1>9. CASE NtpBreaks
  BY <1>9 DEF NtpBreaks, runner, stream
<1>10. CASE PressStop
  BY <1>10 DEF PressStop, stream, ntp
<1>11. ASSUME NEW f \in Frame, Emit(f) PROVE Running'
  BY <1>11 DEF Emit, stream, ntp
<1>12. ASSUME NEW n \in Casts, Bind(n) PROVE Running'
  BY <1>12 DEF Bind, EndWithError, Go, runner, stream
<1>13. ASSUME NEW n \in Casts, Negotiate(n) PROVE Running'
  BY <1>13 DEF Negotiate, EndWithError, Go, runner
<1>14. ASSUME NEW n \in Casts, Authenticate(n) PROVE Running'
  BY <1>14 DEF Authenticate, EndWithError, runner, stream
<1>15. ASSUME NEW n \in Casts, TakeCommand(n) PROVE Running'
  BY <1>15 DEF TakeCommand, EndSession, EndWithError, Go, runner
<1>16. ASSUME NEW n \in Casts, CommandsClosed(n) PROVE Running'
  BY <1>16 DEF CommandsClosed, EndSession, EndWithError, Held, runner
<1>17. ASSUME NEW n \in Casts, WriteHeader(n) PROVE Running'
  BY <1>17 DEF WriteHeader, Go, runner, ntp
<1>18. ASSUME NEW n \in Casts, WritePayload(n) PROVE Running'
  BY <1>18 DEF WritePayload, Go, Hear, runner, ntp
<1>19. ASSUME NEW n \in Casts, WriteFails(n) PROVE Running'
  BY <1>19 DEF WriteFails, EndWithError, runner
<1>20. ASSUME NEW n \in Casts, BeatTick(n) PROVE Running'
  BY <1>20 DEF BeatTick, runner, ntp
<1>21. ASSUME NEW n \in Casts, BeatWrite(n) PROVE Running'
  BY <1>21 DEF BeatWrite, runner, ntp
<1>22. ASSUME NEW n \in Casts, BeatFails(n) PROVE Running'
  BY <1>22 DEF BeatFails, runner, ntp
<1>23. ASSUME NEW n \in Casts, Receiver(n) PROVE Running'
  BY <1>23 DEF Receiver, runner, stream, ntp
<1>24. CASE UNCHANGED vars
  BY <1>24 DEF vars, runner, stream, ntp
<1> QED
  BY <1>1, <1>2, <1>3, <1>4, <1>5, <1>6, <1>7, <1>8, <1>9, <1>10, <1>11, <1>12, <1>13,
     <1>14, <1>15, <1>16, <1>17, <1>18, <1>19, <1>20, <1>21, <1>22, <1>23, <1>24
  DEF Next, Runner, Loop, Write, Heart

(* The mutex keeps packets whole. *)
LEMMA LocksStep ==
    ASSUME RunnerOK, SessionsOK, Beyond, Locks, PacketsWhole, [Next]_vars
    PROVE  Locks' /\ PacketsWhole'
<1> USE CastsAssumption, CapAssumption DEF SessionsOK, Locks, PacketsWhole
<1>1. CASE StartCast
  <2>1. /\ cast' = cast + 1 /\ cast + 1 \in Casts /\ cast + 1 > cast
        /\ sess[cast + 1] = "none" /\ cmds[cast + 1] = <<>> /\ events[cast + 1] = <<>>
    BY <1>1, NextCast
  <2>2. /\ \A n \in Casts : n # cast + 1 => sess'[n] = sess[n]
        /\ sess'[cast + 1] \in {"none", "binding"} /\ task' \in {"waiting", "done"}
    BY <1>1, <2>1 DEF StartCast, SessionsOK
  <2> QED  BY <1>1, <2>1, <2>2 DEF StartCast, stream
<1>2. CASE AwaitReady
  BY <1>2 DEF AwaitReady, Return, stream, ntp
<1>3. CASE TakeFrame
  BY <1>3 DEF TakeFrame, AfterFrame, stream, ntp
<1>4. CASE SendCodec
  BY <1>4 DEF SendCodec, Room, Enqueue, stream, ntp
<1>5. CASE SendVideo
  BY <1>5 DEF SendVideo, Room, Enqueue, stream, ntp
<1>6. CASE StopPipeline
  BY <1>6 DEF StopPipeline, Return, stream, ntp
<1>7. CASE StopSession
  BY <1>7 DEF StopSession, Return, Room, Enqueue, stream, ntp
<1>8. CASE NtpCloses
  BY <1>8 DEF NtpCloses, runner, stream
<1>9. CASE NtpBreaks
  BY <1>9 DEF NtpBreaks, runner, stream
<1>10. CASE PressStop
  BY <1>10 DEF PressStop, stream, ntp
<1>11. ASSUME NEW f \in Frame, Emit(f) PROVE Locks' /\ PacketsWhole'
  BY <1>11 DEF Emit, stream, ntp
<1>12. ASSUME NEW n \in Casts, Bind(n) PROVE Locks' /\ PacketsWhole'
  BY <1>12 DEF Bind, EndWithError, Go, runner, stream
<1>13. ASSUME NEW n \in Casts, Negotiate(n) PROVE Locks' /\ PacketsWhole'
  BY <1>13 DEF Negotiate, EndWithError, Go, runner
<1>14. ASSUME NEW n \in Casts, Authenticate(n) PROVE Locks' /\ PacketsWhole'
  BY <1>14 DEF Authenticate, EndWithError, runner, stream
<1>15. ASSUME NEW n \in Casts, TakeCommand(n) PROVE Locks' /\ PacketsWhole'
  BY <1>15 DEF TakeCommand, EndSession, EndWithError, Go, runner
<1>16. ASSUME NEW n \in Casts, CommandsClosed(n) PROVE Locks' /\ PacketsWhole'
  BY <1>16 DEF CommandsClosed, EndSession, EndWithError, Held, runner
<1>17. ASSUME NEW n \in Casts, WriteHeader(n) PROVE Locks' /\ PacketsWhole'
  BY <1>17 DEF WriteHeader, Go, runner, ntp
<1>18. ASSUME NEW n \in Casts, WritePayload(n) PROVE Locks' /\ PacketsWhole'
  BY <1>18 DEF WritePayload, Go, Hear, runner, ntp
<1>19. ASSUME NEW n \in Casts, WriteFails(n) PROVE Locks' /\ PacketsWhole'
  BY <1>19 DEF WriteFails, EndWithError, runner
<1>20. ASSUME NEW n \in Casts, BeatTick(n) PROVE Locks' /\ PacketsWhole'
  BY <1>20 DEF BeatTick, runner, ntp
<1>21. ASSUME NEW n \in Casts, BeatWrite(n) PROVE Locks' /\ PacketsWhole'
  BY <1>21 DEF BeatWrite, runner, ntp
<1>22. ASSUME NEW n \in Casts, BeatFails(n) PROVE Locks' /\ PacketsWhole'
  BY <1>22 DEF BeatFails, runner, ntp
<1>23. ASSUME NEW n \in Casts, Receiver(n) PROVE Locks' /\ PacketsWhole'
  BY <1>23 DEF Receiver, runner, stream, ntp
<1>24. CASE UNCHANGED vars
  BY <1>24 DEF vars, runner, stream, ntp
<1> QED
  BY <1>1, <1>2, <1>3, <1>4, <1>5, <1>6, <1>7, <1>8, <1>9, <1>10, <1>11, <1>12, <1>13,
     <1>14, <1>15, <1>16, <1>17, <1>18, <1>19, <1>20, <1>21, <1>22, <1>23, <1>24
  DEF Next, Runner, Loop, Write, Heart

(* A session has a command in hand exactly while it sends. *)
LEMMA JobsStep ==
    ASSUME RunnerOK, SessionsOK, ChannelsOK, Beyond, Jobs, [Next]_vars
    PROVE  Jobs'
<1> USE CastsAssumption, CapAssumption DEF SessionsOK, ChannelsOK, Jobs
<1>1. CASE StartCast
  <2>1. /\ cast' = cast + 1 /\ cast + 1 \in Casts /\ cast + 1 > cast
        /\ sess[cast + 1] = "none" /\ cmds[cast + 1] = <<>> /\ events[cast + 1] = <<>>
    BY <1>1, NextCast
  <2>2. /\ \A n \in Casts : n # cast + 1 => sess'[n] = sess[n]
        /\ sess'[cast + 1] \in {"none", "binding"} /\ task' \in {"waiting", "done"}
    BY <1>1, <2>1 DEF StartCast, SessionsOK
  <2> QED  BY <1>1, <2>1, <2>2 DEF StartCast, stream
<1>2. CASE AwaitReady
  BY <1>2 DEF AwaitReady, Return, stream, ntp
<1>3. CASE TakeFrame
  BY <1>3 DEF TakeFrame, AfterFrame, stream, ntp
<1>4. CASE SendCodec
  BY <1>4 DEF SendCodec, Room, Enqueue, stream, ntp
<1>5. CASE SendVideo
  BY <1>5 DEF SendVideo, Room, Enqueue, stream, ntp
<1>6. CASE StopPipeline
  BY <1>6 DEF StopPipeline, Return, stream, ntp
<1>7. CASE StopSession
  BY <1>7 DEF StopSession, Return, Room, Enqueue, stream, ntp
<1>8. CASE NtpCloses
  BY <1>8 DEF NtpCloses, runner, stream
<1>9. CASE NtpBreaks
  BY <1>9 DEF NtpBreaks, runner, stream
<1>10. CASE PressStop
  BY <1>10 DEF PressStop, stream, ntp
<1>11. ASSUME NEW f \in Frame, Emit(f) PROVE Jobs'
  BY <1>11 DEF Emit, stream, ntp
<1>12. ASSUME NEW n \in Casts, Bind(n) PROVE Jobs'
  <2>1. job[n] = "none" /\ sess[n] \notin {"locking", "writing"} /\ UNCHANGED job
    BY <1>12 DEF Bind
  <2>2. \E x \in SessionStates \ {"locking", "writing"} : sess' = [sess EXCEPT ![n] = x]
    BY <1>12 DEF Bind, EndWithError, Go, SessionStates, OnStream
  <2> QED  BY <2>1, <2>2
<1>13. ASSUME NEW n \in Casts, Negotiate(n) PROVE Jobs'
  <2>1. job[n] = "none" /\ sess[n] \notin {"locking", "writing"} /\ UNCHANGED job
    BY <1>13 DEF Negotiate
  <2>2. \E x \in SessionStates \ {"locking", "writing"} : sess' = [sess EXCEPT ![n] = x]
    BY <1>13 DEF Negotiate, EndWithError, Go, SessionStates, OnStream
  <2> QED  BY <2>1, <2>2
<1>14. ASSUME NEW n \in Casts, Authenticate(n) PROVE Jobs'
  BY <1>14 DEF Authenticate, EndWithError, runner, stream
<1>15. ASSUME NEW n \in Casts, TakeCommand(n) PROVE Jobs'
  <2>1. job[n] = "none" /\ Head(cmds[n]) \in Command
    <3>1. job[n] = "none" /\ cmds[n] \in Seq(Command) /\ cmds[n] # <<>>
      BY <1>15 DEF TakeCommand
    <3> QED  BY <3>1
  <2>2. CASE EndSession(n) /\ UNCHANGED job
    BY <2>1, <2>2 DEF EndSession, EndWithError
  <2>3. CASE job' = [job EXCEPT ![n] = Head(cmds[n])] /\ Go(n, "locking")
    BY <2>1, <2>3 DEF Go, Command, Video
  <2> QED  BY <1>15, <2>2, <2>3 DEF TakeCommand
<1>16. ASSUME NEW n \in Casts, CommandsClosed(n) PROVE Jobs'
  BY <1>16 DEF CommandsClosed, EndSession, EndWithError, Held, runner
<1>17. ASSUME NEW n \in Casts, WriteHeader(n) PROVE Jobs'
  BY <1>17 DEF WriteHeader, Go, runner, ntp
<1>18. ASSUME NEW n \in Casts, WritePayload(n) PROVE Jobs'
  BY <1>18 DEF WritePayload, Go, Hear, runner, ntp
<1>19. ASSUME NEW n \in Casts, WriteFails(n) PROVE Jobs'
  BY <1>19 DEF WriteFails, EndWithError, runner
<1>20. ASSUME NEW n \in Casts, BeatTick(n) PROVE Jobs'
  BY <1>20 DEF BeatTick, runner, ntp
<1>21. ASSUME NEW n \in Casts, BeatWrite(n) PROVE Jobs'
  BY <1>21 DEF BeatWrite, runner, ntp
<1>22. ASSUME NEW n \in Casts, BeatFails(n) PROVE Jobs'
  BY <1>22 DEF BeatFails, runner, ntp
<1>23. ASSUME NEW n \in Casts, Receiver(n) PROVE Jobs'
  BY <1>23 DEF Receiver, runner, stream, ntp
<1>24. CASE UNCHANGED vars
  BY <1>24 DEF vars, runner, stream, ntp
<1> QED
  BY <1>1, <1>2, <1>3, <1>4, <1>5, <1>6, <1>7, <1>8, <1>9, <1>10, <1>11, <1>12, <1>13,
     <1>14, <1>15, <1>16, <1>17, <1>18, <1>19, <1>20, <1>21, <1>22, <1>23, <1>24
  DEF Next, Runner, Loop, Write, Heart

(* Nothing reaches the casts to come. *)
LEMMA BeyondStep ==
    ASSUME RunnerOK, Running, SessionsOK, ChannelsOK, Beyond, [Next]_vars
    PROVE  Beyond'
<1> USE CastsAssumption, CapAssumption DEF RunnerOK, Running, SessionsOK, ChannelsOK, Beyond
<1>1. CASE StartCast
  <2>1. cast' = cast + 1 /\ cast + 1 \in Casts
    BY <1>1, NextCast
  <2>2. \A n \in Casts : n > cast + 1 => n > cast /\ n # cast + 1
    BY <2>1 DEF Casts, RunnerOK
  <2>3. \A n \in Casts : n # cast + 1 => sess'[n] = sess[n]
    BY <1>1, <2>1 DEF StartCast
  <2> QED  BY <1>1, <2>1, <2>2, <2>3 DEF StartCast
<1>2. CASE AwaitReady
  BY <1>2 DEF AwaitReady, Return, stream, ntp
<1>3. CASE TakeFrame
  BY <1>3 DEF TakeFrame, AfterFrame, stream, ntp
<1>4. CASE SendCodec
  <2>1. cast \in Casts
    BY <1>4 DEF SendCodec
  <2>2. CASE Room(cast) /\ Enqueue(cast, "codec")
    <3>1. cmds[cast] \in Seq(Command) /\ cmds' = [cmds EXCEPT ![cast] = Append(cmds[cast], "codec")]
      BY <2>1, <2>2 DEF Enqueue
    <3>2. /\ \A n \in Casts : n # cast => cmds'[n] = cmds[n]
          /\ cmds'[cast] = Append(cmds[cast], "codec")
      BY <2>1, <3>1
    <3>3. \A n \in Casts : n > cast => n # cast
      BY <2>1 DEF Casts
    <3>4. UNCHANGED <<cast, sess, events>>
      BY <1>4 DEF SendCodec
    <3> QED  BY <3>2, <3>3, <3>4
  <2>3. CASE sess[cast] = "over" /\ UNCHANGED cmds
    BY <1>4, <2>3 DEF SendCodec, Return, Room, stream
  <2> QED  BY <1>4, <2>2, <2>3 DEF SendCodec
<1>5. CASE SendVideo
  <2>1. cast \in Casts
    BY <1>5 DEF SendVideo, Video
  <2>2. CASE Room(cast) /\ Enqueue(cast, task)
    <3>1. cmds[cast] \in Seq(Command) /\ cmds' = [cmds EXCEPT ![cast] = Append(cmds[cast], task)]
      BY <2>1, <2>2 DEF Enqueue
    <3>2. /\ \A n \in Casts : n # cast => cmds'[n] = cmds[n]
          /\ cmds'[cast] = Append(cmds[cast], task)
      BY <2>1, <3>1
    <3>3. \A n \in Casts : n > cast => n # cast
      BY <2>1 DEF Casts
    <3>4. UNCHANGED <<cast, sess, events>>
      BY <1>5 DEF SendVideo
    <3> QED  BY <3>2, <3>3, <3>4
  <2>3. CASE sess[cast] = "over" /\ UNCHANGED cmds
    BY <1>5, <2>3 DEF SendVideo, Return, Room, stream
  <2> QED  BY <1>5, <2>2, <2>3 DEF SendVideo
<1>6. CASE StopPipeline
  BY <1>6 DEF StopPipeline, Return, stream, ntp
<1>7. CASE StopSession
  <2>1. cast \in Casts
    BY <1>7 DEF StopSession
  <2>2. CASE Room(cast) /\ Enqueue(cast, "stop")
    <3>1. cmds[cast] \in Seq(Command) /\ cmds' = [cmds EXCEPT ![cast] = Append(cmds[cast], "stop")]
      BY <2>1, <2>2 DEF Enqueue
    <3>2. /\ \A n \in Casts : n # cast => cmds'[n] = cmds[n]
          /\ cmds'[cast] = Append(cmds[cast], "stop")
      BY <2>1, <3>1
    <3>3. \A n \in Casts : n > cast => n # cast
      BY <2>1 DEF Casts
    <3>4. UNCHANGED <<cast, sess, events>>
      BY <1>7 DEF StopSession
    <3> QED  BY <3>2, <3>3, <3>4
  <2>3. CASE sess[cast] = "over" /\ UNCHANGED cmds
    BY <1>7, <2>3 DEF StopSession, Return, Room, stream
  <2> QED  BY <1>7, <2>2, <2>3 DEF StopSession
<1>8. CASE NtpCloses
  BY <1>8 DEF NtpCloses, runner, stream
<1>9. CASE NtpBreaks
  BY <1>9 DEF NtpBreaks, runner, stream
<1>10. CASE PressStop
  BY <1>10 DEF PressStop, stream, ntp
<1>11. ASSUME NEW f \in Frame, Emit(f) PROVE Beyond'
  BY <1>11 DEF Emit, stream, ntp
<1>12. ASSUME NEW n \in Casts, Bind(n) PROVE Beyond'
  BY <1>12 DEF Bind, EndWithError, Go, runner, stream
<1>13. ASSUME NEW n \in Casts, Negotiate(n) PROVE Beyond'
  BY <1>13 DEF Negotiate, EndWithError, Go, runner
<1>14. ASSUME NEW n \in Casts, Authenticate(n) PROVE Beyond'
  BY <1>14 DEF Authenticate, EndWithError, runner, stream
<1>15. ASSUME NEW n \in Casts, TakeCommand(n) PROVE Beyond'
  BY <1>15 DEF TakeCommand, EndSession, EndWithError, Go, runner
<1>16. ASSUME NEW n \in Casts, CommandsClosed(n) PROVE Beyond'
  BY <1>16 DEF CommandsClosed, EndSession, EndWithError, Held, runner
<1>17. ASSUME NEW n \in Casts, WriteHeader(n) PROVE Beyond'
  BY <1>17 DEF WriteHeader, Go, runner, ntp
<1>18. ASSUME NEW n \in Casts, WritePayload(n) PROVE Beyond'
  BY <1>18 DEF WritePayload, Go, Hear, runner, ntp
<1>19. ASSUME NEW n \in Casts, WriteFails(n) PROVE Beyond'
  BY <1>19 DEF WriteFails, EndWithError, runner
<1>20. ASSUME NEW n \in Casts, BeatTick(n) PROVE Beyond'
  BY <1>20 DEF BeatTick, runner, ntp
<1>21. ASSUME NEW n \in Casts, BeatWrite(n) PROVE Beyond'
  BY <1>21 DEF BeatWrite, runner, ntp
<1>22. ASSUME NEW n \in Casts, BeatFails(n) PROVE Beyond'
  BY <1>22 DEF BeatFails, runner, ntp
<1>23. ASSUME NEW n \in Casts, Receiver(n) PROVE Beyond'
  BY <1>23 DEF Receiver, runner, stream, ntp
<1>24. CASE UNCHANGED vars
  BY <1>24 DEF vars, runner, stream, ntp
<1> QED
  BY <1>1, <1>2, <1>3, <1>4, <1>5, <1>6, <1>7, <1>8, <1>9, <1>10, <1>11, <1>12, <1>13,
     <1>14, <1>15, <1>16, <1>17, <1>18, <1>19, <1>20, <1>21, <1>22, <1>23, <1>24
  DEF Next, Runner, Loop, Write, Heart

(* The casting task sends the codec data before the frame it is from. *)
LEMMA SentFirstStep ==
    ASSUME RunnerOK, SentFirst, [Next]_vars
    PROVE  SentFirst'
<1> USE CastsAssumption, CapAssumption DEF RunnerOK, SentFirst, Video, Streaming
<1>1. CASE StartCast
  BY <1>1 DEF StartCast, stream, ntp
<1>2. CASE AwaitReady
  BY <1>2 DEF AwaitReady, Return, stream, ntp
<1>3. CASE TakeFrame
  BY <1>3 DEF TakeFrame, AfterFrame, Frame, stream, ntp
<1>4. CASE SendCodec
  BY <1>4 DEF SendCodec, Room, Enqueue, stream, ntp
<1>5. CASE SendVideo
  BY <1>5 DEF SendVideo, Room, Enqueue, stream, ntp
<1>6. CASE StopPipeline
  BY <1>6 DEF StopPipeline, Return, stream, ntp
<1>7. CASE StopSession
  BY <1>7 DEF StopSession, Return, Room, Enqueue, stream, ntp
<1>8. CASE NtpCloses
  BY <1>8 DEF NtpCloses, runner, stream
<1>9. CASE NtpBreaks
  BY <1>9 DEF NtpBreaks, runner, stream
<1>10. CASE PressStop
  BY <1>10 DEF PressStop, stream, ntp
<1>11. ASSUME NEW f \in Frame, Emit(f) PROVE SentFirst'
  BY <1>11 DEF Emit, stream, ntp
<1>12. ASSUME NEW n \in Casts, Bind(n) PROVE SentFirst'
  BY <1>12 DEF Bind, EndWithError, Go, runner, stream
<1>13. ASSUME NEW n \in Casts, Negotiate(n) PROVE SentFirst'
  BY <1>13 DEF Negotiate, EndWithError, Go, runner
<1>14. ASSUME NEW n \in Casts, Authenticate(n) PROVE SentFirst'
  BY <1>14 DEF Authenticate, EndWithError, runner, stream
<1>15. ASSUME NEW n \in Casts, TakeCommand(n) PROVE SentFirst'
  BY <1>15 DEF TakeCommand, EndSession, EndWithError, Go, runner
<1>16. ASSUME NEW n \in Casts, CommandsClosed(n) PROVE SentFirst'
  BY <1>16 DEF CommandsClosed, EndSession, EndWithError, Held, runner
<1>17. ASSUME NEW n \in Casts, WriteHeader(n) PROVE SentFirst'
  BY <1>17 DEF WriteHeader, Go, runner, ntp
<1>18. ASSUME NEW n \in Casts, WritePayload(n) PROVE SentFirst'
  BY <1>18 DEF WritePayload, Go, Hear, runner, ntp
<1>19. ASSUME NEW n \in Casts, WriteFails(n) PROVE SentFirst'
  BY <1>19 DEF WriteFails, EndWithError, runner
<1>20. ASSUME NEW n \in Casts, BeatTick(n) PROVE SentFirst'
  BY <1>20 DEF BeatTick, runner, ntp
<1>21. ASSUME NEW n \in Casts, BeatWrite(n) PROVE SentFirst'
  BY <1>21 DEF BeatWrite, runner, ntp
<1>22. ASSUME NEW n \in Casts, BeatFails(n) PROVE SentFirst'
  BY <1>22 DEF BeatFails, runner, ntp
<1>23. ASSUME NEW n \in Casts, Receiver(n) PROVE SentFirst'
  BY <1>23 DEF Receiver, runner, stream, ntp
<1>24. CASE UNCHANGED vars
  BY <1>24 DEF vars, runner, stream, ntp
<1> QED
  BY <1>1, <1>2, <1>3, <1>4, <1>5, <1>6, <1>7, <1>8, <1>9, <1>10, <1>11, <1>12, <1>13,
     <1>14, <1>15, <1>16, <1>17, <1>18, <1>19, <1>20, <1>21, <1>22, <1>23, <1>24
  DEF Next, Runner, Loop, Write, Heart

(* It stays ahead in the command channel and on the stream. *)
LEMMA CodecAheadStep ==
    ASSUME AirPlayTypeOK, Running, Jobs, Beyond, SentFirst, CodecAhead, CodecFirst, [Next]_vars
    PROVE  CodecAhead' /\ CodecFirst'
<1> USE CastsAssumption, CapAssumption DEF AirPlayTypeOK, RunnerOK, SessionsOK,
   ChannelsOK, Running, Jobs, Beyond, SentFirst, CodecAhead, NoSpsNext, CodecOnWay, CodecFirst
<1>1. CASE StartCast
  <2>1. /\ cast' = cast + 1 /\ cast + 1 \in Casts /\ cast + 1 > cast
        /\ sess[cast + 1] = "none" /\ cmds[cast + 1] = <<>> /\ events[cast + 1] = <<>>
    BY <1>1, NextCast
  <2>2. /\ \A n \in Casts : n # cast + 1 => sess'[n] = sess[n]
        /\ sess'[cast + 1] \in {"none", "binding"} /\ task' \in {"waiting", "done"}
    BY <1>1, <2>1 DEF StartCast, SessionsOK
  <2> QED  BY <1>1, <2>1, <2>2 DEF StartCast, stream
<1>2. CASE AwaitReady
  BY <1>2 DEF AwaitReady, Return, stream, ntp
<1>3. CASE TakeFrame
  BY <1>3 DEF TakeFrame, AfterFrame, stream, ntp
<1>4. CASE SendCodec
  <2>1. cast \in Casts /\ cmds[cast] \in Seq(Command) /\ "codec" \in Command /\ UNCHANGED <<job, heard, cast, sess>>
    BY <1>4 DEF SendCodec, Command, Video, stream
  <2>2. CASE Room(cast) /\ Enqueue(cast, "codec")
    <3>1. /\ \A n \in Casts : n # cast => cmds'[n] = cmds[n]
          /\ cmds'[cast] = Append(cmds[cast], "codec")
      BY <2>1, <2>2 DEF Enqueue
    <3>2. Has(cmds[cast]) => Has(cmds'[cast])
      <4>1. Has(cmds[cast]) => Has(Append(cmds[cast], "codec"))
        BY <2>1, HasAppend
      <4> QED  BY <3>1, <4>1
    <3>3. ASSUME NEW n \in Casts, heard[n] = "nothing", job[n] # "codec"
          PROVE  job[n] # "sps" /\ Ahead(cmds'[n])
      <4>1. job[n] # "sps" /\ Ahead(cmds[n])
        BY <3>3
      <4>2. CASE n # cast
        BY <3>1, <4>1, <4>2
      <4>3. CASE n = cast
        <5>1. "codec" = "sps" => Has(cmds[cast])
          OBVIOUS
        <5>2. Ahead(Append(cmds[cast], "codec"))
          BY <2>1, <4>1, <4>3, <5>1, AheadAppend, Zenon
        <5> QED  BY <3>1, <4>1, <4>3, <5>2
      <4> QED  BY <4>2, <4>3
    <3>4. NoSpsNext' /\ CodecFirst'
      BY <2>1, <3>3
    <3>5. CodecOnWay'
      BY <2>1, <3>1, HasAppend
    <3> QED  BY <3>4, <3>5
  <2>3. CASE sess[cast] = "over" /\ UNCHANGED cmds
    BY <1>4, <2>1, <2>3 DEF SendCodec, Return
  <2> QED  BY <1>4, <2>2, <2>3 DEF SendCodec
<1>5. CASE SendVideo
  <2>1. cast \in Casts /\ cmds[cast] \in Seq(Command) /\ task \in Command /\ UNCHANGED <<job, heard, cast, sess>>
    BY <1>5 DEF SendVideo, Command, Video, stream
  <2>2. CASE Room(cast) /\ Enqueue(cast, task)
    <3>1. /\ \A n \in Casts : n # cast => cmds'[n] = cmds[n]
          /\ cmds'[cast] = Append(cmds[cast], task)
      BY <2>1, <2>2 DEF Enqueue
    <3>2. Has(cmds[cast]) => Has(cmds'[cast])
      <4>1. Has(cmds[cast]) => Has(Append(cmds[cast], task))
        BY <2>1, HasAppend
      <4> QED  BY <3>1, <4>1
    <3>3. ASSUME NEW n \in Casts, heard[n] = "nothing", job[n] # "codec"
          PROVE  job[n] # "sps" /\ Ahead(cmds'[n])
      <4>1. job[n] # "sps" /\ Ahead(cmds[n])
        BY <3>3
      <4>2. CASE n # cast
        BY <3>1, <4>1, <4>2
      <4>3. CASE n = cast
        <5>1. task = "sps" => Has(cmds[cast])
          BY <1>5, <2>2, <3>3, <4>3 DEF Room
        <5>2. Ahead(Append(cmds[cast], task))
          BY <2>1, <4>1, <4>3, <5>1, AheadAppend, Zenon
        <5> QED  BY <3>1, <4>1, <4>3, <5>2
      <4> QED  BY <4>2, <4>3
    <3>4. NoSpsNext' /\ CodecFirst'
      BY <2>1, <3>3
    <3>5. CodecOnWay'
      BY <1>5, <2>1, <3>2 DEF SendVideo
    <3> QED  BY <3>4, <3>5
  <2>3. CASE sess[cast] = "over" /\ UNCHANGED cmds
    BY <1>5, <2>1, <2>3 DEF SendVideo, Return
  <2> QED  BY <1>5, <2>2, <2>3 DEF SendVideo
<1>6. CASE StopPipeline
  BY <1>6 DEF StopPipeline, Return, stream, ntp
<1>7. CASE StopSession
  <2>1. cast \in Casts /\ cmds[cast] \in Seq(Command) /\ "stop" \in Command /\ UNCHANGED <<job, heard, cast, sess>>
    BY <1>7 DEF StopSession, Command, Video, stream
  <2>2. CASE Room(cast) /\ Enqueue(cast, "stop")
    <3>1. /\ \A n \in Casts : n # cast => cmds'[n] = cmds[n]
          /\ cmds'[cast] = Append(cmds[cast], "stop")
      BY <2>1, <2>2 DEF Enqueue
    <3>2. Has(cmds[cast]) => Has(cmds'[cast])
      <4>1. Has(cmds[cast]) => Has(Append(cmds[cast], "stop"))
        BY <2>1, HasAppend
      <4> QED  BY <3>1, <4>1
    <3>3. ASSUME NEW n \in Casts, heard[n] = "nothing", job[n] # "codec"
          PROVE  job[n] # "sps" /\ Ahead(cmds'[n])
      <4>1. job[n] # "sps" /\ Ahead(cmds[n])
        BY <3>3
      <4>2. CASE n # cast
        BY <3>1, <4>1, <4>2
      <4>3. CASE n = cast
        <5>1. "stop" = "sps" => Has(cmds[cast])
          OBVIOUS
        <5>2. Ahead(Append(cmds[cast], "stop"))
          BY <2>1, <4>1, <4>3, <5>1, AheadAppend, Zenon
        <5> QED  BY <3>1, <4>1, <4>3, <5>2
      <4> QED  BY <4>2, <4>3
    <3>4. NoSpsNext' /\ CodecFirst'
      BY <2>1, <3>3
    <3>5. CodecOnWay'
      BY <1>7 DEF StopSession, Return
    <3> QED  BY <3>4, <3>5
  <2>3. CASE sess[cast] = "over" /\ UNCHANGED cmds
    BY <1>7, <2>1, <2>3 DEF StopSession, Return
  <2> QED  BY <1>7, <2>2, <2>3 DEF StopSession
<1>8. CASE NtpCloses
  BY <1>8 DEF NtpCloses, runner, stream
<1>9. CASE NtpBreaks
  BY <1>9 DEF NtpBreaks, runner, stream
<1>10. CASE PressStop
  BY <1>10 DEF PressStop, stream, ntp
<1>11. ASSUME NEW f \in Frame, Emit(f) PROVE CodecAhead' /\ CodecFirst'
  BY <1>11 DEF Emit, stream, ntp
<1>12. ASSUME NEW n \in Casts, Bind(n) PROVE CodecAhead' /\ CodecFirst'
  <2>1. UNCHANGED <<runner, job, heard>>
    BY <1>12 DEF Bind, stream
  <2>2. CASE EndWithError(n)
    <3>1. /\ \A k \in Casts : k # n => sess'[k] = sess[k] /\ cmds'[k] = cmds[k]
          /\ sess'[n] = "over" /\ cmds'[n] = <<>>
      BY <2>2 DEF EndWithError
    <3>2. NoSpsNext' /\ CodecFirst'
      <4>1. UNCHANGED <<job, heard>> /\ Ahead(cmds'[n])
        BY <2>1, <3>1, AheadEmpty
      <4>2. ASSUME NEW k \in Casts, heard[k] = "nothing", job[k] # "codec"
            PROVE  job[k] # "sps" /\ Ahead(cmds'[k])
        BY <3>1, <4>1, <4>2
      <4> QED  BY <4>1, <4>2
    <3>3. CodecOnWay'
      BY <2>1, <3>1 DEF runner
    <3> QED  BY <3>2, <3>3
  <2>3. CASE cmds' = cmds /\ \A k \in Casts : sess[k] = "over" => sess'[k] = "over"
    BY <2>1, <2>3 DEF runner
  <2> QED  BY <1>12, <2>2, <2>3 DEF Bind, Go
<1>13. ASSUME NEW n \in Casts, Negotiate(n) PROVE CodecAhead' /\ CodecFirst'
  <2>1. UNCHANGED <<runner, job, heard>>
    BY <1>13 DEF Negotiate, stream
  <2>2. CASE EndWithError(n)
    <3>1. /\ \A k \in Casts : k # n => sess'[k] = sess[k] /\ cmds'[k] = cmds[k]
          /\ sess'[n] = "over" /\ cmds'[n] = <<>>
      BY <2>2 DEF EndWithError
    <3>2. NoSpsNext' /\ CodecFirst'
      <4>1. UNCHANGED <<job, heard>> /\ Ahead(cmds'[n])
        BY <2>1, <3>1, AheadEmpty
      <4>2. ASSUME NEW k \in Casts, heard[k] = "nothing", job[k] # "codec"
            PROVE  job[k] # "sps" /\ Ahead(cmds'[k])
        BY <3>1, <4>1, <4>2
      <4> QED  BY <4>1, <4>2
    <3>3. CodecOnWay'
      BY <2>1, <3>1 DEF runner
    <3> QED  BY <3>2, <3>3
  <2>3. CASE cmds' = cmds /\ \A k \in Casts : sess[k] = "over" => sess'[k] = "over"
    BY <2>1, <2>3 DEF runner
  <2> QED  BY <1>13, <2>2, <2>3 DEF Negotiate, Go
<1>14. ASSUME NEW n \in Casts, Authenticate(n) PROVE CodecAhead' /\ CodecFirst'
  BY <1>14, AheadEmpty DEF Authenticate, EndWithError, runner, stream
<1>15. ASSUME NEW n \in Casts, TakeCommand(n) PROVE CodecAhead' /\ CodecFirst'
  <2>1. UNCHANGED <<runner, heard>> /\ job[n] = "none" /\ cmds[n] # <<>> /\ Head(cmds[n]) \in Command
    <3>1. cmds[n] \in Seq(Command) /\ cmds[n] # <<>>
      BY <1>15 DEF TakeCommand
    <3>2. UNCHANGED <<runner, heard>> /\ job[n] = "none"
      BY <1>15 DEF TakeCommand
    <3> QED  BY <3>1, <3>2
  <2>2. CASE EndSession(n) /\ UNCHANGED job
    <3>1. /\ \A k \in Casts : k # n => sess'[k] = sess[k] /\ cmds'[k] = cmds[k]
          /\ sess'[n] = "over" /\ cmds'[n] = <<>>
      BY <2>2 DEF EndSession, EndWithError
    <3>2. NoSpsNext' /\ CodecFirst'
      <4>1. UNCHANGED <<job, heard>> /\ Ahead(cmds'[n]) /\ job[n] # "sps"
        BY <2>1, <2>2, <3>1, AheadEmpty
      <4>2. ASSUME NEW k \in Casts, heard[k] = "nothing", job[k] # "codec"
            PROVE  job[k] # "sps" /\ Ahead(cmds'[k])
        BY <3>1, <4>1, <4>2
      <4> QED  BY <4>1, <4>2
    <3>3. CodecOnWay'
      BY <2>1, <2>2, <3>1 DEF runner
    <3> QED  BY <3>2, <3>3
  <2>3. CASE /\ job' = [job EXCEPT ![n] = Head(cmds[n])]
             /\ cmds' = [cmds EXCEPT ![n] = Tail(@)]
             /\ Go(n, "locking")
    <3>1. /\ \A k \in Casts : k # n => sess'[k] = sess[k] /\ cmds'[k] = cmds[k] /\ job'[k] = job[k]
          /\ job'[n] = Head(cmds[n]) /\ cmds'[n] = Tail(cmds[n]) /\ sess[n] # "over"
      BY <1>15, <2>3 DEF TakeCommand, Go
    <3>2. /\ job'[n] # "codec" /\ Ahead(cmds[n]) => job'[n] # "sps" /\ Ahead(cmds'[n])
          /\ job'[n] # "codec" /\ Has(cmds[n]) => Has(cmds'[n])
      <4>1. cmds[n] \in Seq(Command) /\ cmds[n] # <<>>
        BY <2>1
      <4>2. Head(cmds[n]) # "codec" =>
              /\ Ahead(cmds[n]) => Head(cmds[n]) # "sps" /\ Ahead(Tail(cmds[n]))
              /\ Has(cmds[n]) => Has(Tail(cmds[n]))
        BY <4>1, AheadTail
      <4> QED  BY <3>1, <4>2
    <3>3. NoSpsNext' /\ CodecFirst'
      BY <2>1, <3>1, <3>2
    <3>4. CodecOnWay'
      BY <2>1, <3>1, <3>2 DEF runner
    <3> QED  BY <3>3, <3>4
  <2> QED  BY <1>15, <2>2, <2>3 DEF TakeCommand
<1>16. ASSUME NEW n \in Casts, CommandsClosed(n) PROVE CodecAhead' /\ CodecFirst'
  BY <1>16, AheadEmpty DEF CommandsClosed, EndSession, EndWithError, Held, runner
<1>17. ASSUME NEW n \in Casts, WriteHeader(n) PROVE CodecAhead' /\ CodecFirst'
  BY <1>17 DEF WriteHeader, Go, runner, ntp
<1>18. ASSUME NEW n \in Casts, WritePayload(n) PROVE CodecAhead' /\ CodecFirst'
  BY <1>18 DEF WritePayload, Go, Hear, runner, ntp
<1>19. ASSUME NEW n \in Casts, WriteFails(n) PROVE CodecAhead' /\ CodecFirst'
  BY <1>19, AheadEmpty DEF WriteFails, EndWithError, runner
<1>20. ASSUME NEW n \in Casts, BeatTick(n) PROVE CodecAhead' /\ CodecFirst'
  BY <1>20 DEF BeatTick, runner, ntp
<1>21. ASSUME NEW n \in Casts, BeatWrite(n) PROVE CodecAhead' /\ CodecFirst'
  BY <1>21 DEF BeatWrite, runner, ntp
<1>22. ASSUME NEW n \in Casts, BeatFails(n) PROVE CodecAhead' /\ CodecFirst'
  BY <1>22 DEF BeatFails, runner, ntp
<1>23. ASSUME NEW n \in Casts, Receiver(n) PROVE CodecAhead' /\ CodecFirst'
  BY <1>23 DEF Receiver, runner, stream, ntp
<1>24. CASE UNCHANGED vars
  BY <1>24 DEF vars, runner, stream, ntp
<1> QED
  BY <1>1, <1>2, <1>3, <1>4, <1>5, <1>6, <1>7, <1>8, <1>9, <1>10, <1>11, <1>12, <1>13,
     <1>14, <1>15, <1>16, <1>17, <1>18, <1>19, <1>20, <1>21, <1>22, <1>23, <1>24
  DEF Next, Runner, Loop, Write, Heart

(* No session is told to stop while its casting task runs. *)
LEMMA NoStopStep ==
    ASSUME AirPlayTypeOK, Running, Beyond, NoStopYet, [Next]_vars
    PROVE  NoStopYet'
<1> USE CastsAssumption, CapAssumption DEF AirPlayTypeOK, RunnerOK, ChannelsOK, Running,
   Beyond, NoStopYet, Video
<1>1. CASE StartCast
  BY <1>1 DEF StartCast, stream, ntp
<1>2. CASE AwaitReady
  BY <1>2 DEF AwaitReady, Return, stream, ntp
<1>3. CASE TakeFrame
  BY <1>3 DEF TakeFrame, AfterFrame, stream, ntp
<1>4. CASE SendCodec
  <2>1. cast \in Casts
    BY <1>4 DEF SendCodec
  <2>2. CASE Room(cast) /\ Enqueue(cast, "codec")
    <3>1. cmds[cast] \in Seq(Command) /\ cmds' = [cmds EXCEPT ![cast] = Append(cmds[cast], "codec")]
      BY <2>1, <2>2 DEF Enqueue
    <3>2. /\ \A n \in Casts : n # cast => cmds'[n] = cmds[n]
          /\ cmds'[cast] = Append(cmds[cast], "codec")
      BY <2>1, <3>1
    <3>3. \A i \in 1..Len(cmds'[cast]) : cmds'[cast][i] # "stop"
      BY <2>1, <3>1, <3>2, <1>4 DEF SendCodec
    <3> QED  BY <1>4, <3>3 DEF SendCodec
  <2>3. CASE sess[cast] = "over" /\ UNCHANGED cmds
    BY <1>4, <2>3 DEF SendCodec, Return, Room, stream
  <2> QED  BY <1>4, <2>2, <2>3 DEF SendCodec
<1>5. CASE SendVideo
  <2>1. cast \in Casts /\ task \in Command /\ task # "stop"
    BY <1>5 DEF SendVideo, Command
  <2>2. CASE Room(cast) /\ Enqueue(cast, task)
    <3>1. cmds[cast] \in Seq(Command) /\ cmds' = [cmds EXCEPT ![cast] = Append(cmds[cast], task)]
      BY <2>1, <2>2 DEF Enqueue
    <3>2. cmds'[cast] = Append(cmds[cast], task)
      BY <2>1, <3>1
    <3>3. \A i \in 1..Len(cmds'[cast]) : cmds'[cast][i] # "stop"
      BY <1>5, <2>1, <3>1, <3>2 DEF SendVideo
    <3> QED  BY <1>5, <3>3 DEF SendVideo
  <2>3. CASE sess[cast] = "over" /\ UNCHANGED cmds
    BY <1>5, <2>3 DEF SendVideo
  <2> QED  BY <1>5, <2>2, <2>3 DEF SendVideo
<1>6. CASE StopPipeline
  BY <1>6 DEF StopPipeline, Return, stream, ntp
<1>7. CASE StopSession
  BY <1>7 DEF StopSession, Return, Room, Enqueue, stream, ntp
<1>8. CASE NtpCloses
  BY <1>8 DEF NtpCloses, runner, stream
<1>9. CASE NtpBreaks
  BY <1>9 DEF NtpBreaks, runner, stream
<1>10. CASE PressStop
  BY <1>10 DEF PressStop, stream, ntp
<1>11. ASSUME NEW f \in Frame, Emit(f) PROVE NoStopYet'
  BY <1>11 DEF Emit, stream, ntp
<1>12. ASSUME NEW n \in Casts, Bind(n) PROVE NoStopYet'
  BY <1>12 DEF Bind, EndWithError, Go, runner, stream
<1>13. ASSUME NEW n \in Casts, Negotiate(n) PROVE NoStopYet'
  BY <1>13 DEF Negotiate, EndWithError, Go, runner
<1>14. ASSUME NEW n \in Casts, Authenticate(n) PROVE NoStopYet'
  BY <1>14 DEF Authenticate, EndWithError, runner, stream
<1>15. ASSUME NEW n \in Casts, TakeCommand(n) PROVE NoStopYet'
  <2>1. UNCHANGED runner /\ cmds[n] \in Seq(Command) /\ cmds[n] # <<>>
    BY <1>15 DEF TakeCommand
  <2>2. CASE cmds' = [cmds EXCEPT ![n] = <<>>]
    BY <2>1, <2>2 DEF runner
  <2>3. CASE cmds' = [cmds EXCEPT ![n] = Tail(cmds[n])]
    <3>1. \A i \in 1..Len(Tail(cmds[n])) : i + 1 \in 1..Len(cmds[n]) /\ Tail(cmds[n])[i] = cmds[n][i + 1]
      BY <2>1
    <3> QED  BY <2>1, <2>3, <3>1 DEF runner
  <2> QED  BY <1>15, <2>2, <2>3 DEF TakeCommand, EndSession, EndWithError
<1>16. ASSUME NEW n \in Casts, CommandsClosed(n) PROVE NoStopYet'
  BY <1>16 DEF CommandsClosed, EndSession, EndWithError, Held, runner
<1>17. ASSUME NEW n \in Casts, WriteHeader(n) PROVE NoStopYet'
  BY <1>17 DEF WriteHeader, Go, runner, ntp
<1>18. ASSUME NEW n \in Casts, WritePayload(n) PROVE NoStopYet'
  BY <1>18 DEF WritePayload, Go, Hear, runner, ntp
<1>19. ASSUME NEW n \in Casts, WriteFails(n) PROVE NoStopYet'
  BY <1>19 DEF WriteFails, EndWithError, runner
<1>20. ASSUME NEW n \in Casts, BeatTick(n) PROVE NoStopYet'
  BY <1>20 DEF BeatTick, runner, ntp
<1>21. ASSUME NEW n \in Casts, BeatWrite(n) PROVE NoStopYet'
  BY <1>21 DEF BeatWrite, runner, ntp
<1>22. ASSUME NEW n \in Casts, BeatFails(n) PROVE NoStopYet'
  BY <1>22 DEF BeatFails, runner, ntp
<1>23. ASSUME NEW n \in Casts, Receiver(n) PROVE NoStopYet'
  BY <1>23 DEF Receiver, runner, stream, ntp
<1>24. CASE UNCHANGED vars
  BY <1>24 DEF vars, runner, stream, ntp
<1> QED
  BY <1>1, <1>2, <1>3, <1>4, <1>5, <1>6, <1>7, <1>8, <1>9, <1>10, <1>11, <1>12, <1>13,
     <1>14, <1>15, <1>16, <1>17, <1>18, <1>19, <1>20, <1>21, <1>22, <1>23, <1>24
  DEF Next, Runner, Loop, Write, Heart

(* A session on the stream ends under its casting task only by a broken connection. *)
LEMMA OverStep ==
    ASSUME AirPlayTypeOK, Running, Beyond, NoStopYet, OverForCause, [Next]_vars
    PROVE  OverForCause'
<1> USE CastsAssumption, CapAssumption DEF AirPlayTypeOK, RunnerOK, SessionsOK,
   ChannelsOK, Running, Beyond, NoStopYet, OverForCause, Began, Video,
   Streaming, OnStream
<1>1. CASE StartCast
  <2>1. /\ cast' = cast + 1 /\ cast + 1 \in Casts /\ cast + 1 > cast
        /\ sess[cast + 1] = "none" /\ cmds[cast + 1] = <<>> /\ events[cast + 1] = <<>>
    BY <1>1, NextCast
  <2>2. /\ \A n \in Casts : n # cast + 1 => sess'[n] = sess[n]
        /\ sess'[cast + 1] \in {"none", "binding"} /\ task' \in {"waiting", "done"}
    BY <1>1, <2>1 DEF StartCast, SessionsOK
  <2> QED  BY <1>1, <2>1, <2>2 DEF StartCast, stream
<1>2. CASE AwaitReady
  BY <1>2 DEF AwaitReady, Return, stream, ntp
<1>3. CASE TakeFrame
  BY <1>3 DEF TakeFrame, AfterFrame, stream, ntp
<1>4. CASE SendCodec
  BY <1>4 DEF SendCodec, Room, Enqueue, stream, ntp
<1>5. CASE SendVideo
  BY <1>5 DEF SendVideo, Room, Enqueue, stream, ntp
<1>6. CASE StopPipeline
  BY <1>6 DEF StopPipeline, Return, stream, ntp
<1>7. CASE StopSession
  BY <1>7 DEF StopSession, Return, Room, Enqueue, stream, ntp
<1>8. CASE NtpCloses
  BY <1>8 DEF NtpCloses, runner, stream
<1>9. CASE NtpBreaks
  BY <1>9 DEF NtpBreaks, runner, stream
<1>10. CASE PressStop
  BY <1>10 DEF PressStop, stream, ntp
<1>11. ASSUME NEW f \in Frame, Emit(f) PROVE OverForCause'
  BY <1>11 DEF Emit, stream, ntp
<1>12. ASSUME NEW n \in Casts, Bind(n) PROVE OverForCause'
  <2>1. UNCHANGED runner /\ UNCHANGED peer /\ sess[n] \notin OnStream \cup {"over"}
    BY <1>12 DEF Bind
  <2>2. CASE n # cast
    <3>1. cast \in Casts => sess'[cast] = sess[cast] /\ events'[cast] = events[cast]
      BY <1>12, <2>2 DEF Bind, EndWithError, Go
    <3> QED  BY <2>1, <3>1 DEF runner
  <2>3. CASE n = cast
    <3>1. ~Began
      BY <2>1, <2>3
    <3>2. CASE EndWithError(n)
      <4>1. events[n] \in Seq({"Ready", "Ended"}) /\ events'[n] = Append(events[n], "Ended")
        BY <3>2 DEF EndWithError
      <4> QED  BY <2>1, <2>3, <3>1, <4>1 DEF runner
    <3>3. CASE UNCHANGED events
      BY <2>1, <2>3, <3>1, <3>3 DEF runner
    <3> QED  BY <1>12, <3>2, <3>3 DEF Bind, Go
  <2> QED  BY <2>2, <2>3
<1>13. ASSUME NEW n \in Casts, Negotiate(n) PROVE OverForCause'
  <2>1. UNCHANGED runner /\ UNCHANGED peer /\ sess[n] \notin OnStream \cup {"over"}
    BY <1>13 DEF Negotiate
  <2>2. CASE n # cast
    <3>1. cast \in Casts => sess'[cast] = sess[cast] /\ events'[cast] = events[cast]
      BY <1>13, <2>2 DEF Negotiate, EndWithError, Go
    <3> QED  BY <2>1, <3>1 DEF runner
  <2>3. CASE n = cast
    <3>1. ~Began
      BY <2>1, <2>3
    <3>2. CASE EndWithError(n)
      <4>1. events[n] \in Seq({"Ready", "Ended"}) /\ events'[n] = Append(events[n], "Ended")
        BY <3>2 DEF EndWithError
      <4> QED  BY <2>1, <2>3, <3>1, <4>1 DEF runner
    <3>3. CASE UNCHANGED events
      BY <2>1, <2>3, <3>1, <3>3 DEF runner
    <3>4. CASE sess' = [sess EXCEPT ![n] = "loop"]
      BY <2>1, <2>3, <3>4 DEF runner
    <3> QED  BY <1>13, <3>2, <3>3, <3>4 DEF Negotiate, Go
  <2> QED  BY <2>2, <2>3
<1>14. ASSUME NEW n \in Casts, Authenticate(n) PROVE OverForCause'
  BY <1>14 DEF Authenticate, EndWithError, runner, stream
<1>15. ASSUME NEW n \in Casts, TakeCommand(n) PROVE OverForCause'
  BY <1>15 DEF TakeCommand, EndSession, EndWithError, Go, runner
<1>16. ASSUME NEW n \in Casts, CommandsClosed(n) PROVE OverForCause'
  BY <1>16 DEF CommandsClosed, EndSession, EndWithError, Held, runner
<1>17. ASSUME NEW n \in Casts, WriteHeader(n) PROVE OverForCause'
  BY <1>17 DEF WriteHeader, Go, runner, ntp
<1>18. ASSUME NEW n \in Casts, WritePayload(n) PROVE OverForCause'
  BY <1>18 DEF WritePayload, Go, Hear, runner, ntp
<1>19. ASSUME NEW n \in Casts, WriteFails(n) PROVE OverForCause'
  BY <1>19 DEF WriteFails, EndWithError, runner
<1>20. ASSUME NEW n \in Casts, BeatTick(n) PROVE OverForCause'
  BY <1>20 DEF BeatTick, runner, ntp
<1>21. ASSUME NEW n \in Casts, BeatWrite(n) PROVE OverForCause'
  BY <1>21 DEF BeatWrite, runner, ntp
<1>22. ASSUME NEW n \in Casts, BeatFails(n) PROVE OverForCause'
  BY <1>22 DEF BeatFails, runner, ntp
<1>23. ASSUME NEW n \in Casts, Receiver(n) PROVE OverForCause'
  BY <1>23 DEF Receiver, runner, stream, ntp
<1>24. CASE UNCHANGED vars
  BY <1>24 DEF vars, runner, stream, ntp
<1> QED
  BY <1>1, <1>2, <1>3, <1>4, <1>5, <1>6, <1>7, <1>8, <1>9, <1>10, <1>11, <1>12, <1>13,
     <1>14, <1>15, <1>16, <1>17, <1>18, <1>19, <1>20, <1>21, <1>22, <1>23, <1>24
  DEF Next, Runner, Loop, Write, Heart

-----------------------------------------------------------------------------
(* What a session leaves behind *)

(* An NTP server is told to stop exactly when its session is over.  Nobody *)
(* but a session that got so far has the port.  A heartbeat beats for a    *)
(* session that streams; one that outlives its session, as the failing     *)
(* send leaves it, has only a broken connection to write to.               *)
LeftoversHarmless ==
    \A n \in Casts :
        /\ n \in quit <=> sess[n] = "over"
        /\ port = n => sess[n] \notin {"none", "binding"}
        /\ heart[n] = "alive" =>
             sess[n] \in OnStream \/ (sess[n] = "over" /\ peer[n] = "broken")

LEMMA LeftoversStep ==
    ASSUME RunnerOK, SessionsOK, Beyond, LeftoversHarmless, [Next]_vars
    PROVE  LeftoversHarmless'
<1> USE CastsAssumption, CapAssumption DEF SessionsOK, LeftoversHarmless, OnStream
<1>1. CASE StartCast
  <2>1. /\ cast' = cast + 1 /\ cast + 1 \in Casts /\ cast + 1 > cast
        /\ sess[cast + 1] = "none" /\ cmds[cast + 1] = <<>> /\ events[cast + 1] = <<>>
    BY <1>1, NextCast
  <2>2. /\ \A n \in Casts : n # cast + 1 => sess'[n] = sess[n]
        /\ sess'[cast + 1] \in {"none", "binding"} /\ task' \in {"waiting", "done"}
    BY <1>1, <2>1 DEF StartCast, SessionsOK
  <2> QED  BY <1>1, <2>1, <2>2 DEF StartCast, stream, ntp
<1>2. CASE AwaitReady
  BY <1>2 DEF AwaitReady, Return, stream, ntp
<1>3. CASE TakeFrame
  BY <1>3 DEF TakeFrame, AfterFrame, stream, ntp
<1>4. CASE SendCodec
  BY <1>4 DEF SendCodec, Room, Enqueue, stream, ntp
<1>5. CASE SendVideo
  BY <1>5 DEF SendVideo, Room, Enqueue, stream, ntp
<1>6. CASE StopPipeline
  BY <1>6 DEF StopPipeline, Return, stream, ntp
<1>7. CASE StopSession
  BY <1>7 DEF StopSession, Return, Room, Enqueue, stream, ntp
<1>8. CASE NtpCloses
  BY <1>8 DEF NtpCloses, Casts, runner, stream
<1>9. CASE NtpBreaks
  BY <1>9 DEF NtpBreaks, Casts, runner, stream
<1>10. CASE PressStop
  BY <1>10 DEF PressStop, stream, ntp
<1>11. ASSUME NEW f \in Frame, Emit(f) PROVE LeftoversHarmless'
  BY <1>11 DEF Emit, stream, ntp
<1>12. ASSUME NEW n \in Casts, Bind(n) PROVE LeftoversHarmless'
  BY <1>12 DEF Bind, EndWithError, Go, runner, stream
<1>13. ASSUME NEW n \in Casts, Negotiate(n) PROVE LeftoversHarmless'
  BY <1>13 DEF Negotiate, EndWithError, Go, runner
<1>14. ASSUME NEW n \in Casts, Authenticate(n) PROVE LeftoversHarmless'
  BY <1>14 DEF Authenticate, EndWithError, runner, stream
<1>15. ASSUME NEW n \in Casts, TakeCommand(n) PROVE LeftoversHarmless'
  BY <1>15 DEF TakeCommand, EndSession, EndWithError, Go, runner
<1>16. ASSUME NEW n \in Casts, CommandsClosed(n) PROVE LeftoversHarmless'
  BY <1>16 DEF CommandsClosed, EndSession, EndWithError, Held, runner
<1>17. ASSUME NEW n \in Casts, WriteHeader(n) PROVE LeftoversHarmless'
  BY <1>17 DEF WriteHeader, Go, runner, ntp
<1>18. ASSUME NEW n \in Casts, WritePayload(n) PROVE LeftoversHarmless'
  BY <1>18 DEF WritePayload, Go, Hear, runner, ntp
<1>19. ASSUME NEW n \in Casts, WriteFails(n) PROVE LeftoversHarmless'
  BY <1>19 DEF WriteFails, EndWithError, runner
<1>20. ASSUME NEW n \in Casts, BeatTick(n) PROVE LeftoversHarmless'
  BY <1>20 DEF BeatTick, runner, ntp
<1>21. ASSUME NEW n \in Casts, BeatWrite(n) PROVE LeftoversHarmless'
  BY <1>21 DEF BeatWrite, runner, ntp
<1>22. ASSUME NEW n \in Casts, BeatFails(n) PROVE LeftoversHarmless'
  BY <1>22 DEF BeatFails, runner, ntp
<1>23. ASSUME NEW n \in Casts, Receiver(n) PROVE LeftoversHarmless'
  BY <1>23 DEF Receiver, runner, stream, ntp
<1>24. CASE UNCHANGED vars
  BY <1>24 DEF vars, runner, stream, ntp
<1> QED
  BY <1>1, <1>2, <1>3, <1>4, <1>5, <1>6, <1>7, <1>8, <1>9, <1>10, <1>11, <1>12, <1>13,
     <1>14, <1>15, <1>16, <1>17, <1>18, <1>19, <1>20, <1>21, <1>22, <1>23, <1>24
  DEF Next, Runner, Loop, Write, Heart

-----------------------------------------------------------------------------
(* The inductive invariant, and the theorems *)

AirPlayInv ==
    /\ AirPlayTypeOK /\ Running /\ Beyond
    /\ Locks /\ PacketsWhole
    /\ Jobs /\ SentFirst /\ CodecAhead /\ CodecFirst
    /\ NoStopYet /\ OverForCause

LEMMA InitInv == Init => AirPlayInv
<1> SUFFICES ASSUME Init PROVE AirPlayInv
  OBVIOUS
<1>1. RunnerOK
  <2>1. stop \in BOOLEAN /\ sentCodec \in BOOLEAN
    BY Zenon DEF Init
  <2> QED  BY <2>1, CastsAssumption, CapAssumption DEF Init, RunnerOK
<1>2. ChannelsOK
  BY CapAssumption DEF Init, ChannelsOK
<1>3. SessionsOK
  BY CastsAssumption DEF Init, SessionsOK, SessionStates
<1>4. Running /\ Beyond /\ Locks /\ PacketsWhole /\ Jobs
  BY DEF Init, Running, Beyond, Locks, PacketsWhole, Jobs
<1>5. SentFirst /\ CodecAhead /\ CodecFirst
  BY DEF Init, SentFirst, CodecAhead, NoSpsNext, CodecOnWay, Ahead, CodecFirst
<1>6. NoStopYet /\ OverForCause
  <2>1. cast \notin Casts
    BY CastsAssumption DEF Init, Casts
  <2> QED  BY <2>1 DEF Init, NoStopYet, OverForCause, Began, Video, Streaming
<1> QED  BY <1>1, <1>2, <1>3, <1>4, <1>5, <1>6 DEF AirPlayInv, AirPlayTypeOK

LEMMA NextInv == AirPlayInv /\ [Next]_vars => AirPlayInv'
<1> SUFFICES ASSUME AirPlayInv, [Next]_vars PROVE AirPlayInv'
  OBVIOUS
<1> USE DEF AirPlayInv
<1>1. AirPlayTypeOK /\ RunnerOK /\ ChannelsOK /\ SessionsOK
  BY DEF AirPlayTypeOK
<1>2. AirPlayTypeOK'
  BY <1>1, RunnerType, SessionsType, ChannelsType DEF AirPlayTypeOK
<1>3. Running' /\ Beyond'
  BY <1>1, RunningStep, BeyondStep
<1>4. Locks' /\ PacketsWhole' /\ Jobs'
  BY <1>1, LocksStep, JobsStep
<1>5. SentFirst' /\ CodecAhead' /\ CodecFirst'
  BY <1>1, SentFirstStep, CodecAheadStep
<1>6. NoStopYet' /\ OverForCause'
  BY <1>1, NoStopStep, OverStep
<1> QED  BY <1>2, <1>3, <1>4, <1>5, <1>6

LEMMA Invariance == Spec => []AirPlayInv
BY InitInv, NextInv, PTL DEF Spec

(* Every variable keeps its type; in particular neither channel holds more *)
(* than its capacity (the bounded mpsc channels of run_airplay_pipeline    *)
(* and AirPlaySession).                                                    *)
THEOREM AirPlayTypeCorrect == Spec => []AirPlayTypeOK
<1>1. AirPlayInv => AirPlayTypeOK
  BY DEF AirPlayInv
<1> QED  BY <1>1, Invariance, PTL

(* Whatever the encoder delivers, no frame that has a parameter set        *)
(* reaches the receiver before the codec data (sent_codec_data in          *)
(* run_airplay_pipeline, the order of the command channel, and the loop of *)
(* run_session).                                                           *)
THEOREM CodecBeforeVideo == Spec => []CodecFirst
<1>1. AirPlayInv => CodecFirst
  BY DEF AirPlayInv
<1> QED  BY <1>1, Invariance, PTL

(* No heartbeat comes between the header and the payload of a packet       *)
(* (the mutex around MirrorStream).                                        *)
THEOREM WholePackets == Spec => []PacketsWhole
<1>1. AirPlayInv => PacketsWhole
  BY DEF AirPlayInv
<1> QED  BY <1>1, Invariance, PTL

(* A cast that streams ends only when the user stops it or the receiver    *)
(* breaks the connection (run_airplay_pipeline and run_session).           *)
THEOREM AirPlayEndsForCause == Spec => CastEndsForCause
<1> DEFINE ForCause == (task \in Streaming /\ task' \notin Streaming)
                          => (stop \/ peer[cast] = "broken")
<1>1. ASSUME AirPlayInv, [Next]_vars PROVE [ForCause]_vars
  <2> SUFFICES ASSUME task \in Streaming, task' \notin Streaming
               PROVE  stop \/ peer[cast] = "broken"
    OBVIOUS
  <2>1. sess[cast] = "over" => peer[cast] = "broken"
    BY <1>1 DEF AirPlayInv, OverForCause, Began, OnStream
  <2>2. CASE TakeFrame
    <3>1. Head(frames) \in Frame
      BY <1>1, <2>2 DEF AirPlayInv, AirPlayTypeOK, RunnerOK, TakeFrame
    <3> QED  BY <2>2, <3>1 DEF TakeFrame, AfterFrame, Frame, Video, Streaming
  <2>3. CASE SendCodec \/ SendVideo
    BY <2>1, <2>3 DEF SendCodec, SendVideo, Video, Streaming
  <2>4. CASE StartCast \/ AwaitReady \/ StopPipeline \/ StopSession
    BY <2>4 DEF StartCast, AwaitReady, StopPipeline, StopSession, Video, Streaming
  <2>5. CASE UNCHANGED task
    BY <2>5
  <2>6. CASE \E n \in Casts : \/ Bind(n) \/ Negotiate(n) \/ Authenticate(n)
                              \/ Loop(n) \/ Write(n) \/ Heart(n) \/ Receiver(n)
    BY <2>6 DEF Bind, Negotiate, Authenticate, Loop, TakeCommand, CommandsClosed, Write,
       WriteHeader, WritePayload, WriteFails, Heart, BeatTick, BeatWrite, BeatFails,
       Receiver, runner
  <2>7. CASE NtpCloses \/ NtpBreaks \/ PressStop \/ \E f \in Frame : Emit(f)
    BY <2>7 DEF NtpCloses, NtpBreaks, PressStop, Emit, runner
  <2> QED
    BY <1>1, <2>2, <2>3, <2>4, <2>5, <2>6, <2>7 DEF Next, Runner, vars, runner
<1>2. AirPlayInv /\ [Next]_vars => [ForCause]_vars
  BY <1>1
<1> QED  BY <1>2, Invariance, PTL DEF Spec, CastEndsForCause

(* The safety half of the cleanup (Drop for NtpServer and the end of       *)
(* run_session): whichever way a session ends, the server that has the     *)
(* port was told to stop, and a heartbeat that goes on has only a broken   *)
(* connection to write to.  ReleasedAtEnd says that both go.               *)
THEOREM HarmlessLeftovers == Spec => []LeftoversHarmless
<1>1. Init => LeftoversHarmless
  BY DEF Init, LeftoversHarmless, Casts
<1>2. AirPlayInv /\ LeftoversHarmless /\ [Next]_vars => LeftoversHarmless'
  BY LeftoversStep DEF AirPlayInv, AirPlayTypeOK
<1> QED  BY <1>1, <1>2, Invariance, PTL DEF Spec

==============================================================================
