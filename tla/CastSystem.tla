------------------------------ MODULE CastSystem ------------------------------
(***************************************************************************)
(* A whole OpenPlay cast: the casting task of the sender                   *)
(* (crates/openplay-sender/src/casting.rs), the signaling connection       *)
(* (crates/openplay-signaling/src/client.rs and server.rs) and the         *)
(* receiver of ReceiverSession, whose arbitrary senders are here the ones  *)
(* of this repository.                                                     *)
(*                                                                         *)
(* A connection belongs to one cast, so casts are named by connections; a  *)
(* user who tries again uses another connection.                           *)
(***************************************************************************)
EXTENDS ReceiverSession

CONSTANTS
    ReplyCap,       \* capacity of a connection's reply queue (32 in the code)
    UpCap,          \* capacity of a client's outgoing channel (32 in the code)
    Lossy           \* the network may break connections

ASSUME CapsAssumption == {ReplyCap, UpCap} \subseteq Nat
ASSUME LossyAssumption == Lossy \in BOOLEAN

VARIABLES
    phase,          \* phase[c]: how far the casting task of c is
    stop,           \* stop[c]: the stop flag, set by the Stop button
    up,             \* up[c]: messages of c on their way to the server
    down,           \* down[c]: replies on their way to the casting task
    hungUp,         \* connections whose client dropped the socket
    missed          \* connections a reply to which was dropped

castVars == <<vars, phase, stop, up, down, hungUp, missed>>
wires == <<up, down, hungUp, missed>>

(* "starting" builds the pipeline, "offering" has no offer yet,            *)
(* "gathering" still finds ICE candidates, "streaming" has nothing left to *)
(* say and "ending" has to send its SessionEnd.                            *)
InSession == {"offering", "gathering", "streaming"}
Phases == {"idle", "asking", "starting", "ending", "done"} \cup InSession

(* What the casting task sends; the receiver of ReceiverSession has to be  *)
(* ready for it.                                                           *)
SenderTypes == {"SessionRequest", "SdpOffer", "IceCandidate", "Other", "SessionEnd"}
SenderMessage == {m \in Message : m.type \in SenderTypes}
ASSUME SendableAssumption == SenderTypes \subseteq Sendable

CastTypeOK ==
    /\ TypeOK
    /\ phase \in [Connections -> Phases]
    /\ stop \in [Connections -> BOOLEAN]
    /\ up \in [Connections -> Seq(SenderMessage)]
    /\ down \in [Connections -> Seq(Replies)]
    /\ hungUp \in SUBSET Connections
    /\ missed \in SUBSET Connections

Up(c) == link[c] \in {"open", "deaf"}
Rejections == {"VersionMismatch", "NoCompatibleCodecs", "Busy", "Denied"}
Says(c, type) == [type |-> type, conn |-> c, name |-> NoName]

(* The senders found the receiver over mDNS, so it advertises itself. *)
CastInit ==
    /\ Init
    /\ ~undiscoverable
    /\ phase = [c \in Connections |-> "idle"]
    /\ stop = [c \in Connections |-> FALSE]
    /\ up = [c \in Connections |-> <<>>]
    /\ down = [c \in Connections |-> <<>>]
    /\ hungUp = {}
    /\ missed = {}

-----------------------------------------------------------------------------
(* The casting task *)

Goto(c, next) == phase' = [phase EXCEPT ![c] = next]

(* connect_to_receiver succeeds and the request is queued, or no address   *)
(* answers.                                                                *)
StartCast(c) ==
    /\ phase[c] = "idle"
    /\ \/ /\ Connect(c)
          /\ Goto(c, "asking")
          /\ \E n \in Names :
                up' = [up EXCEPT ![c] = <<[type |-> "SessionRequest", conn |-> c, name |-> n]>>]
          /\ UNCHANGED <<stop, down, hungUp, missed>>
       \/ /\ Goto(c, "done")
          /\ UNCHANGED <<vars, stop, wires>>

PressStop(c) ==
    /\ phase[c] \notin {"idle", "done"}
    /\ ~stop[c]
    /\ stop' = [stop EXCEPT ![c] = TRUE]
    /\ UNCHANGED <<vars, phase, wires>>

TakeReply(c) ==
    /\ down[c] # <<>>
    /\ down' = [down EXCEPT ![c] = Tail(@)]

(* What recv() tells the task once its connection is gone and the replies  *)
(* that arrived are read.                                                  *)
ReplyChannelClosed(c) == link[c] = "closed" /\ down[c] = <<>>

(* Both loops of the task look at the stop flag before each wait.  Nobody  *)
(* else sees the flag, so an event that a wait returns after the flag was  *)
(* set counts as before it.                                                *)
Waits(c, phases) == phase[c] \in phases /\ ~stop[c]

(* wait_for_session_accept: the stop flag ...                              *)
StopAskingOnReply(c) ==
    /\ phase[c] = "asking"
    /\ stop[c] /\ down[c] # <<>>
    /\ Goto(c, "done")
    /\ UNCHANGED <<vars, stop, wires>>

StopAsking(c) ==
    /\ phase[c] = "asking"
    /\ stop[c]
    /\ Goto(c, "done")
    /\ UNCHANGED <<vars, stop, wires>>

(* ... an answer, or the end of the connection.                            *)
AwaitAcceptOrBusy(c) ==
    /\ Waits(c, {"asking"})
    /\ UNCHANGED <<vars, stop, up, hungUp, missed>>
    /\ \/ /\ TakeReply(c)
          /\ Goto(c, IF Head(down[c]) = "Denied" THEN "done" ELSE "starting")
       \/ /\ ReplyChannelClosed(c)
          /\ Goto(c, "done")
          /\ UNCHANGED down

AwaitAccept(c) ==
    /\ Waits(c, {"asking"})
    /\ UNCHANGED <<vars, stop, up, hungUp, missed>>
    /\ \/ /\ TakeReply(c)
          /\ LET r == Head(down[c]) IN
             \/ r = "SessionAccept" /\ Goto(c, "starting")
             \/ r \in Rejections /\ Goto(c, "done")
             \/ r \notin {"SessionAccept"} \cup Rejections /\ UNCHANGED phase
       \/ /\ ReplyChannelClosed(c)
          /\ Goto(c, "done")
          /\ UNCHANGED down

(* The pipeline is built and played; an error returns at once.             *)
StartPipeline(c) ==
    /\ phase[c] = "starting"
    /\ Goto(c, "offering") \/ Goto(c, "done")
    /\ UNCHANGED <<vars, stop, wires>>

(* A send waits for room in the channel.  Once the connection is gone the  *)
(* message is lost, or the send fails, which ends the session the way      *)
(* LoseMedia does.                                                         *)
Queue(c, type) ==
    \/ Up(c) /\ Len(up[c]) < UpCap /\ up' = [up EXCEPT ![c] = Append(@, Says(c, type))]
    \/ ~Up(c) /\ UNCHANGED up

(* An event of the sender's peer becomes a message.  Candidates may come   *)
(* before the offer: gathering starts before the offer is published.       *)
SendOffer(c) ==
    /\ Waits(c, {"offering"})
    /\ Queue(c, "SdpOffer")
    /\ Goto(c, "gathering")
    /\ UNCHANGED <<vars, stop, down, hungUp, missed>>

SendIceCandidate(c) ==
    /\ Waits(c, {"offering", "gathering"})
    /\ Queue(c, "IceCandidate")
    /\ UNCHANGED <<vars, phase, stop, down, hungUp, missed>>

(* The sender's peer has gathered its candidates: IceComplete is sent.     *)
SendIceComplete(c) ==
    /\ Waits(c, {"gathering"})
    /\ Queue(c, "Other")
    /\ Goto(c, "streaming")
    /\ UNCHANGED <<vars, stop, down, hungUp, missed>>

(* drive_session returns when the user stops the cast ...                  *)
StopCast(c) ==
    /\ phase[c] \in InSession
    /\ stop[c]
    /\ Goto(c, "ending")
    /\ UNCHANGED <<vars, stop, wires>>

(* ... when the sender's peer is disconnected or failed ...                *)
LoseMedia(c) ==
    /\ Waits(c, InSession)
    /\ Goto(c, "ending")
    /\ UNCHANGED <<vars, stop, wires>>

(* ... with an unusable answer, a SessionEnd or the end of the connection. *)
DriveSessionIgnoresEnd(c) ==
    /\ Waits(c, InSession)
    /\ UNCHANGED <<vars, stop, up, hungUp, missed>>
    /\ \/ TakeReply(c) /\ Head(down[c]) = "Signal" /\ Goto(c, "ending")
       \/ TakeReply(c) /\ UNCHANGED phase
       \/ ReplyChannelClosed(c) /\ Goto(c, "ending") /\ UNCHANGED down

DriveSessionIgnoresClose(c) ==
    /\ Waits(c, InSession)
    /\ UNCHANGED <<vars, stop, up, hungUp, missed>>
    /\ TakeReply(c)
    /\ \/ Head(down[c]) \in {"Signal", "SessionEnd"} /\ Goto(c, "ending")
       \/ Head(down[c]) # "SessionEnd" /\ UNCHANGED phase

DriveSession(c) ==
    /\ Waits(c, InSession)
    /\ UNCHANGED <<vars, stop, up, hungUp, missed>>
    /\ \/ /\ TakeReply(c)
          /\ \/ Head(down[c]) \in {"Signal", "SessionEnd"} /\ Goto(c, "ending")
             \/ Head(down[c]) # "SessionEnd" /\ UNCHANGED phase
       \/ /\ ReplyChannelClosed(c)
          /\ Goto(c, "ending")
          /\ UNCHANGED down

(* run_openplay_pipeline sends a SessionEnd, however drive_session ended. *)
EndCast(c) ==
    /\ phase[c] = "ending"
    /\ Queue(c, "SessionEnd")
    /\ Goto(c, "done")
    /\ UNCHANGED <<vars, stop, down, hungUp, missed>>

-----------------------------------------------------------------------------
(* The connection.  When the casting task is over its channels are dropped *)
(* and the writing task of the client with them, but the reading task      *)
(* keeps the socket until a reply comes that it cannot pass on.            *)

HangUp(c) ==
    /\ phase[c] = "done"
    /\ Up(c) /\ c \notin hungUp
    /\ TakeReply(c)
    /\ hungUp' = hungUp \cup {c}
    /\ UNCHANGED <<vars, phase, stop, up, missed>>

(* The server reads a message and passes it to the loop. *)
Transmit(c) ==
    /\ up[c] # <<>>
    /\ Deliver(Head(up[c]))
    /\ up' = [up EXCEPT ![c] = Tail(@)]
    /\ UNCHANGED <<phase, stop, down, hungUp, missed>>

(* Replies that are not written yet are lost; nobody reads the others when *)
(* the casting task is over.                                               *)
LoseUnwritten(c) ==
    \E k \in 0..Len(down[c]) :
        /\ phase[c] = "done" => k = 0
        /\ down' = [down EXCEPT ![c] = SubSeq(@, 1, k)]

(* serve_connection returns and aborts its writing task; messages it has   *)
(* not read are lost.                                                      *)
Close(c) ==
    /\ Disconnect(c)
    /\ LoseUnwritten(c)
    /\ up' = [up EXCEPT ![c] = <<>>]
    /\ UNCHANGED <<phase, stop, hungUp, missed>>

CloseHungUp(c) == c \in hungUp /\ Close(c)

(* Nothing came for IDLE_TIMEOUT: senders never send a Ping. *)
CloseIdleUnlessDone(c) == phase[c] # "done" /\ up[c] = <<>> /\ Close(c)

CloseIdle(c) == up[c] = <<>> /\ Close(c)

BreakConnection(c) == Lossy /\ Close(c)

(* The server's writing task fails and the queued replies with it. *)
BreakReplies(c) ==
    /\ Lossy
    /\ LoseReplies(c)
    /\ LoseUnwritten(c)
    /\ UNCHANGED <<phase, stop, up, hungUp, missed>>

-----------------------------------------------------------------------------
(* The receiver: what the loop sends goes into the reply queue of the      *)
(* connection, or is dropped when the queue is full.                       *)

Replied == sent'.to # NoConn /\ IsConnected(sent'.to)

Route ==
    \/ /\ Replied /\ Len(down[sent'.to]) < ReplyCap
       /\ down' = [down EXCEPT ![sent'.to] = Append(@, sent'.type)]
       /\ UNCHANGED missed
    \/ /\ Replied /\ Len(down[sent'.to]) >= ReplyCap
       /\ missed' = missed \cup {sent'.to}
       /\ UNCHANGED down
    \/ ~Replied /\ UNCHANGED <<down, missed>>

AtReceiver(Step) ==
    /\ Step
    /\ Route
    /\ UNCHANGED <<phase, stop, up, hungUp>>

Receiver == AtReceiver(Loop) \/ AtReceiver(Window) \/ AtReceiver(Media)

-----------------------------------------------------------------------------

CastTask(c) ==
    \/ AwaitAccept(c) \/ StopAsking(c) \/ StartPipeline(c)
    \/ StopCast(c) \/ DriveSession(c) \/ EndCast(c)

CastNext ==
    \/ \E c \in Connections :
          \/ StartCast(c) \/ PressStop(c) \/ CastTask(c)
          \/ SendOffer(c) \/ SendIceCandidate(c) \/ SendIceComplete(c) \/ LoseMedia(c)
          \/ HangUp(c) \/ Transmit(c)
          \/ CloseHungUp(c) \/ CloseIdle(c) \/ BreakConnection(c) \/ BreakReplies(c)
    \/ Receiver

CastSpec == CastInit /\ [][CastNext]_castVars

(* The tasks of both programs run, the peer of a sender makes an offer and *)
(* comes to the end of its candidates (however often they fill the         *)
(* channel), and the idle timer of the server fires.  Nothing is assumed   *)
(* of the users or of the media.                                           *)
CastFairness ==
    /\ \A c \in Connections :
          /\ WF_castVars(CastTask(c))
          /\ SF_castVars(SendIceComplete(c))
          /\ SF_castVars(SendOffer(c))
          /\ WF_castVars(HangUp(c))
          /\ WF_castVars(Transmit(c))
          /\ WF_castVars(CloseHungUp(c))
          /\ WF_castVars(CloseIdle(c))
    /\ WF_castVars(AtReceiver(HandleMessage))
    /\ WF_castVars(AtReceiver(HandleDecision))
    /\ WF_castVars(AtReceiver(HandleWebRtcEvent))
    /\ WF_castVars(AtReceiver(DropDeadConnections))

FairCastSpec == CastSpec /\ CastFairness

-----------------------------------------------------------------------------
(* Properties *)

Casting(c) == phase[c] \in {"starting"} \cup InSession
Told(c, type) == \E i \in 1..Len(down[c]) : down[c][i] = type

(* Consent holds end to end: a sender builds its pipeline and sends its    *)
(* offer only after the user at the receiver pressed Allow on the prompt   *)
(* of that very cast, whatever was stopped, retried or lost before         *)
(* (run_openplay_pipeline after wait_for_session_accept, handle_decision). *)
CastNeedsAllow == \A c \in Connections : Casting(c) => c \in allowed

(* Both ends agree: a sender that is casting over a working connection has *)
(* the receiver's session, or the SessionEnd that took it away is on its   *)
(* way to it.  The exception is a reply that found its queue full.         *)
CasterOwnsSession ==
    \A c \in Connections :
        Casting(c) /\ IsConnected(c) /\ c \notin missed
            => OwnsSession(c) \/ Told(c, "SessionEnd")

(* The Stop button always works: whatever the casting task is waiting for, *)
(* it comes to its end (the stop flag polled in wait_for_session_accept    *)
(* and drive_session).                                                     *)
StopEndsCast == \A c \in Connections : stop[c] ~> phase[c] = "done"

(* A cast that is over leaves the receiver's screen for good, also when it *)
(* ended without a SessionEnd: stopped before its answer, or failing to    *)
(* build its pipeline after it.  Only the idle timeout sees to the latter. *)
EndedCastForgotten ==
    \A c \in Connections : phase[c] = "done" /\ link[c] # "new" ~> []Forgotten(c)

(* A sender does not go on casting to a receiver that dropped its session, *)
(* also when the SessionEnd was lost with its connection or its queue.     *)
LostSessionNoticed ==
    \A c \in Connections :
        phase[c] \in InSession /\ ~OwnsSession(c) ~> phase[c] = "done"

(* What makes CastNeedsAllow and CasterOwnsSession inductive: an answer    *)
(* that is on its way was allowed, and it is still true or followed by the *)
(* SessionEnd that undoes it; nothing is on its way to a connection before *)
(* there is one.                                                           *)
AcceptsWereAllowed ==
    \A c \in Connections : Told(c, "SessionAccept") => c \in allowed
AcceptsAreCurrent ==
    \A c \in Connections : \A i \in 1..Len(down[c]) :
        IsConnected(c) /\ c \notin missed /\ down[c][i] = "SessionAccept"
            => OwnsSession(c) \/ \E j \in i + 1..Len(down[c]) : down[c][j] = "SessionEnd"
NewIsQuiet ==
    \A c \in Connections : link[c] = "new" => phase[c] \in {"idle", "done"} /\ down[c] = <<>>

=============================================================================
