--------------------------- MODULE ReceiverSession ---------------------------
(***************************************************************************)
(* The receiver's session loop: `SessionLoop` of                           *)
(* crates/openplay-receiver/src/net.rs.                                    *)
(*                                                                         *)
(* One task owns the session state and handles one event at a time, taken  *)
(* by a `select!` from four sources: messages of the connected senders,    *)
(* the user's answers to consent prompts, events of the WebRTC peer, and a *)
(* liveness tick.  Around it run the senders and their connections, the    *)
(* window (which reads a snapshot of the status and sends answers about    *)
(* what it shows) and the GStreamer threads (which store frames and post   *)
(* WebRTC events).                                                         *)
(*                                                                         *)
(* Each branch of the `select!` is an action, and so is each step of the   *)
(* other actors.                                                           *)
(***************************************************************************)
EXTENDS Naturals, Sequences

CONSTANTS
    Connections,    \* connection ids the accept loop can hand out
    Names,          \* display names senders ask with
    NoConn,         \* no connection
    NoName,         \* no display name
    Sendable,       \* the types of messages senders send in this instance
    InboxCap,       \* capacity of the incoming channel (32 in the code)
    MaxEvents,      \* bound on the WebRTC events waiting to be handled
    MaxClicks       \* bound on the answers the user gives

ASSUME NoConnAssumption == NoConn \notin Connections
ASSUME NoNameAssumption == NoName \notin Names
ASSUME BoundsAssumption == {InboxCap, MaxEvents, MaxClicks} \subseteq Nat

VARIABLES
    link,           \* link[c]: how far connection c is gone
    inbox,          \* messages of the senders, not handled yet
    pending,        \* pending[c]: the name c asks to cast under
    active,         \* the approved session
    status,         \* what the window is told to show
    undiscoverable, \* mDNS registration failed at startup
    frame,          \* the connection whose frame is in the frame slot
    shown,          \* the status the window is drawing
    decisions,      \* the user's answers, not handled yet
    events,         \* WebRTC events, not handled yet
    sent,           \* the reply the last step handed to a connection
    clicks,         \* number of answers the user gave so far
    allowed         \* connections on whose prompt the user pressed Allow

vars == <<link, inbox, pending, active, status, undiscoverable, frame, shown,
          decisions, events, sent, clicks, allowed>>

-----------------------------------------------------------------------------
(* Values *)

(* A message as the loop sees it.  A SessionRequest of another protocol    *)
(* version or without H.264 is a type of its own; Other stands for the     *)
(* messages the loop only logs.                                            *)
Asking == {"SessionRequest"}
Unsuitable == {"OtherVersion", "NoH264"}
Plain == {"SdpOffer", "IceCandidate", "Ping", "SessionEnd", "Other"}
Message ==
    [type : Asking, conn : Connections, name : Names]
        \cup [type : Unsuitable \cup Plain, conn : Connections, name : {NoName}]

(* The status cell.  Undiscoverable and Failed are both Status::Failed,    *)
(* with the reason known at startup or with another one.                   *)
Waiting == [page |-> "Waiting", conn |-> NoConn, name |-> NoName]
Undiscoverable == [page |-> "Undiscoverable", conn |-> NoConn, name |-> NoName]
Failed == [page |-> "Failed", conn |-> NoConn, name |-> NoName]
PendingConsent(c, n) == [page |-> "PendingConsent", conn |-> c, name |-> n]
Negotiating(n) == [page |-> "Negotiating", conn |-> NoConn, name |-> n]
Streaming(n) == [page |-> "Streaming", conn |-> NoConn, name |-> n]
Status ==
    {Waiting, Undiscoverable, Failed}
        \cup [page : {"PendingConsent"}, conn : Connections, name : Names]
        \cup [page : {"Negotiating", "Streaming"}, conn : {NoConn}, name : Names]

(* An approved sender.  `media` says that its pipeline is built and `fed`  *)
(* whose descriptions and candidates reached its peer.                     *)
NoSession == [conn |-> NoConn, name |-> NoName, media |-> FALSE, fed |-> {}]
Session ==
    {NoSession}
        \cup [conn : Connections, name : Names, media : BOOLEAN,
              fed : SUBSET Connections]

Decision == [conn : Connections, accept : BOOLEAN]

(* Signal stands for a local description, an ICE candidate or the end of   *)
(* the candidates: what is passed on to the sender.  `conn` is the         *)
(* connection whose peer posted the event: the code has no such field.     *)
EventKinds == {"Signal", "Connected", "Disconnected", "Failed"}
Event == [kind : EventKinds, conn : Connections]

Replies == {"VersionMismatch", "NoCompatibleCodecs", "Busy", "Denied",
            "SessionAccept", "SessionEnd", "Pong", "Signal", "None"}
Reply == [to : Connections \cup {NoConn}, type : Replies]
Silent == [to |-> NoConn, type |-> "None"]
Send(c, type) == sent' = [to |-> c, type |-> type]
SendNothing == sent' = Silent

TypeOK ==
    /\ link \in [Connections -> {"new", "open", "deaf", "closed"}]
    /\ inbox \in Seq(Message)
    /\ pending \in [Connections -> Names \cup {NoName}]
    /\ active \in Session
    /\ status \in Status
    /\ undiscoverable \in BOOLEAN
    /\ frame \in Connections \cup {NoConn}
    /\ shown \in Status
    /\ decisions \in Seq(Decision)
    /\ events \in Seq(Event)
    /\ sent \in Reply
    /\ clicks \in Nat
    /\ allowed \in SUBSET Connections

-----------------------------------------------------------------------------
(* State read by the handlers *)

IsActive == active.conn # NoConn
OwnsSession(c) == active.conn = c
MediaFor(c) == OwnsSession(c) /\ active.media
IsPending(c) == pending[c] # NoName
IsConnected(c) == link[c] = "open"

IdleStatus == IF undiscoverable THEN Undiscoverable ELSE Waiting

-----------------------------------------------------------------------------
(* Initial state: `start` shows Waiting, or why the receiver cannot be     *)
(* found, before any task runs.                                            *)

Init ==
    /\ link = [c \in Connections |-> "new"]
    /\ inbox = <<>>
    /\ pending = [c \in Connections |-> NoName]
    /\ active = NoSession
    /\ undiscoverable \in BOOLEAN
    /\ status = IdleStatus
    /\ frame = NoConn
    /\ shown = IdleStatus
    /\ decisions = <<>>
    /\ events = <<>>
    /\ sent = Silent
    /\ clicks = 0
    /\ allowed = {}

-----------------------------------------------------------------------------
(* The senders and their connections, as the signaling server hands them   *)
(* to the loop.  A connection whose writing task ended is "deaf": its      *)
(* handle reports it gone, and its reading task still delivers messages.   *)

environment == <<link, clicks, allowed, shown>>
session == <<pending, active, status, frame>>
queues == <<inbox, decisions, events>>

Connect(c) ==
    /\ link[c] = "new"
    /\ link' = [link EXCEPT ![c] = "open"]
    /\ SendNothing
    /\ UNCHANGED <<session, queues, undiscoverable, shown, clicks, allowed>>

Deliver(m) ==
    /\ link[m.conn] \in {"open", "deaf"}
    /\ Len(inbox) < InboxCap
    /\ inbox' = Append(inbox, m)
    /\ SendNothing
    /\ UNCHANGED <<session, environment, undiscoverable, decisions, events>>

LoseReplies(c) ==
    /\ link[c] = "open"
    /\ link' = [link EXCEPT ![c] = "deaf"]
    /\ SendNothing
    /\ UNCHANGED <<session, queues, undiscoverable, shown, clicks, allowed>>

Disconnect(c) ==
    /\ link[c] \in {"open", "deaf"}
    /\ link' = [link EXCEPT ![c] = "closed"]
    /\ SendNothing
    /\ UNCHANGED <<session, queues, undiscoverable, shown, clicks, allowed>>

-----------------------------------------------------------------------------
(* Ending the session *)

(* `tear_down` and `fail` stop the pipeline, tell the owner, clear the     *)
(* frame slot and show `next`.                                             *)
EndSessionKeepsFrame(next) ==
    /\ active' = NoSession
    /\ IF IsActive THEN Send(active.conn, "SessionEnd") ELSE SendNothing
    /\ status' = next
    /\ UNCHANGED frame

EndSessionKeepsPage(next) ==
    /\ active' = NoSession
    /\ IF IsActive THEN Send(active.conn, "SessionEnd") ELSE SendNothing
    /\ frame' = NoConn
    /\ UNCHANGED status

EndSession(next) ==
    /\ active' = NoSession
    /\ IF IsActive THEN Send(active.conn, "SessionEnd") ELSE SendNothing
    /\ frame' = NoConn
    /\ status' = next

TearDown == EndSession(IdleStatus)
Fail == EndSession(Failed)

-----------------------------------------------------------------------------
(* handle_message *)

Receive(types) ==
    /\ inbox # <<>>
    /\ Head(inbox).type \in types
    /\ inbox' = Tail(inbox)
    /\ UNCHANGED <<environment, undiscoverable, decisions, events>>

RejectUnsuitable ==
    LET m == Head(inbox) IN
    /\ Receive(Unsuitable)
    /\ Send(m.conn, IF m.type = "OtherVersion" THEN "VersionMismatch"
                                               ELSE "NoCompatibleCodecs")
    /\ UNCHANGED session

(* Somebody else is casting, or is asking already. *)
BusyIgnoresPrompt(c) == IsActive /\ ~OwnsSession(c)

Busy(c) ==
    \/ IsActive /\ ~OwnsSession(c)
    \/ \E d \in Connections \ {c} : IsPending(d)

HandleSessionRequest ==
    LET m == Head(inbox) IN
    /\ Receive(Asking)
    /\ \/ /\ Busy(m.conn)
          /\ Send(m.conn, "Busy")
          /\ UNCHANGED session
       \/ /\ ~Busy(m.conn)
          /\ status' = PendingConsent(m.conn, m.name)
          /\ pending' = [pending EXCEPT ![m.conn] = m.name]
          /\ SendNothing
          /\ UNCHANGED <<active, frame>>

(* The pipeline is built and started and the offer applied, or any of the  *)
(* three fails.                                                            *)
HandleOffer ==
    LET c == Head(inbox).conn IN
    /\ Receive({"SdpOffer"})
    /\ UNCHANGED pending
    /\ \/ /\ OwnsSession(c) /\ ~active.media
          /\ active' = [active EXCEPT !.media = TRUE, !.fed = @ \cup {c}]
          /\ SendNothing
          /\ UNCHANGED <<status, frame>>
       \/ /\ OwnsSession(c) /\ ~active.media
          /\ Fail
       \/ /\ ~OwnsSession(c) \/ active.media
          /\ SendNothing
          /\ UNCHANGED <<active, status, frame>>

HandleIceCandidate ==
    LET c == Head(inbox).conn IN
    /\ Receive({"IceCandidate"})
    /\ active' = IF MediaFor(c) THEN [active EXCEPT !.fed = @ \cup {c}] ELSE active
    /\ SendNothing
    /\ UNCHANGED <<pending, status, frame>>

HandlePing ==
    /\ Receive({"Ping"})
    /\ Send(Head(inbox).conn, "Pong")
    /\ UNCHANGED session

HandleSessionEnd ==
    LET c == Head(inbox).conn IN
    /\ Receive({"SessionEnd"})
    /\ pending' = [pending EXCEPT ![c] = NoName]
    /\ \/ OwnsSession(c) /\ TearDown
       \/ ~OwnsSession(c) /\ SendNothing /\ UNCHANGED <<active, status, frame>>

HandleOther ==
    /\ Receive({"Other"})
    /\ SendNothing
    /\ UNCHANGED session

HandleMessage ==
    \/ RejectUnsuitable
    \/ HandleSessionRequest
    \/ HandleOffer
    \/ HandleIceCandidate
    \/ HandlePing
    \/ HandleSessionEnd
    \/ HandleOther

-----------------------------------------------------------------------------
(* handle_decision *)

HandleDecisionUnchecked ==
    LET d == Head(decisions) IN
    /\ decisions # <<>>
    /\ decisions' = Tail(decisions)
    /\ UNCHANGED <<environment, undiscoverable, inbox, events, frame>>
    /\ pending' = [pending EXCEPT ![d.conn] = NoName]
    /\ Send(d.conn, "SessionAccept")
    /\ status' = Negotiating(pending[d.conn])
    /\ active' = [conn |-> d.conn, name |-> pending[d.conn],
                  media |-> FALSE, fed |-> {}]

HandleDecisionForAnyone ==
    LET d == Head(decisions) IN
    /\ decisions # <<>>
    /\ decisions' = Tail(decisions)
    /\ UNCHANGED <<environment, undiscoverable, inbox, events, frame>>
    /\ \E c \in Connections :
          /\ IsPending(c)
          /\ pending' = [pending EXCEPT ![c] = NoName]
          /\ Send(c, "SessionAccept")
          /\ status' = Negotiating(pending[c])
          /\ active' = [conn |-> c, name |-> pending[c],
                        media |-> FALSE, fed |-> {}]

HandleDecision ==
    LET d == Head(decisions) IN
    /\ decisions # <<>>
    /\ decisions' = Tail(decisions)
    /\ UNCHANGED <<environment, undiscoverable, inbox, events>>
    /\ \/ /\ ~IsPending(d.conn)
          /\ SendNothing
          /\ UNCHANGED session
       \/ /\ IsPending(d.conn) /\ ~d.accept
          /\ pending' = [pending EXCEPT ![d.conn] = NoName]
          /\ Send(d.conn, "Denied")
          /\ status' = IdleStatus
          /\ UNCHANGED <<active, frame>>
       \/ /\ IsPending(d.conn) /\ d.accept
          /\ pending' = [pending EXCEPT ![d.conn] = NoName]
          /\ Send(d.conn, "SessionAccept")
          /\ status' = Negotiating(pending[d.conn])
          /\ active' = [conn |-> d.conn, name |-> pending[d.conn],
                        media |-> FALSE, fed |-> {}]
          /\ UNCHANGED frame

-----------------------------------------------------------------------------
(* handle_webrtc_event: whatever session posted it, an event is applied to *)
(* the session that is active now.                                         *)

HandleWebRtcEvent ==
    LET e == Head(events) IN
    /\ events # <<>>
    /\ events' = Tail(events)
    /\ UNCHANGED <<environment, undiscoverable, inbox, decisions, pending>>
    /\ \/ /\ ~IsActive
          /\ SendNothing
          /\ UNCHANGED <<active, status, frame>>
       \/ /\ IsActive /\ e.kind = "Signal"
          /\ Send(active.conn, "Signal")
          /\ UNCHANGED <<active, status, frame>>
       \/ /\ IsActive /\ e.kind = "Connected"
          /\ status' = Streaming(active.name)
          /\ SendNothing
          /\ UNCHANGED <<active, frame>>
       \/ /\ IsActive /\ e.kind = "Disconnected"
          /\ TearDown
       \/ /\ IsActive /\ e.kind = "Failed"
          /\ Fail

-----------------------------------------------------------------------------
(* drop_dead_connections, on the liveness tick *)

OwnerIsGone == IsActive /\ ~IsConnected(active.conn)

DropDeadSessionOnly ==
    /\ UNCHANGED <<environment, undiscoverable, queues, pending>>
    /\ \/ OwnerIsGone /\ TearDown
       \/ ~OwnerIsGone /\ SendNothing /\ UNCHANGED <<active, status, frame>>

DropDeadKeepsPrompt ==
    /\ pending' = [c \in Connections |-> IF IsConnected(c) THEN pending[c] ELSE NoName]
    /\ UNCHANGED <<environment, undiscoverable, queues>>
    /\ \/ OwnerIsGone /\ TearDown
       \/ ~OwnerIsGone /\ SendNothing /\ UNCHANGED <<active, status, frame>>

DropDeadConnections ==
    /\ pending' = [c \in Connections |-> IF IsConnected(c) THEN pending[c] ELSE NoName]
    /\ UNCHANGED <<environment, undiscoverable, queues>>
    /\ \/ /\ OwnerIsGone
          /\ TearDown
       \/ /\ ~OwnerIsGone
          /\ status' = IF status.page = "PendingConsent" /\ pending'[status.conn] = NoName
                       THEN IdleStatus ELSE status
          /\ SendNothing
          /\ UNCHANGED <<active, frame>>

-----------------------------------------------------------------------------
(* The window: `update` draws a copy of the status, and a click answers    *)
(* the prompt that is drawn.                                               *)

Redraw ==
    /\ shown' = status
    /\ SendNothing
    /\ UNCHANGED <<session, queues, undiscoverable, link, clicks, allowed>>

Decide(accept) ==
    /\ shown.page = "PendingConsent"
    /\ clicks < MaxClicks
    /\ clicks' = clicks + 1
    /\ decisions' = Append(decisions, [conn |-> shown.conn, accept |-> accept])
    /\ allowed' = IF accept THEN allowed \cup {shown.conn} ELSE allowed
    /\ SendNothing
    /\ UNCHANGED <<session, undiscoverable, link, inbox, events, shown>>

-----------------------------------------------------------------------------
(* GStreamer threads of the pipeline of the active session *)

StoreFrame ==
    /\ active.media
    /\ frame' = active.conn
    /\ SendNothing
    /\ UNCHANGED <<pending, active, status, environment, undiscoverable, queues>>

PostEvent(kind) ==
    /\ active.media
    /\ Len(events) < MaxEvents
    /\ events' = Append(events, [kind |-> kind, conn |-> active.conn])
    /\ SendNothing
    /\ UNCHANGED <<session, environment, undiscoverable, inbox, decisions>>

-----------------------------------------------------------------------------

Senders ==
    \/ \E c \in Connections : Connect(c) \/ LoseReplies(c) \/ Disconnect(c)
    \/ \E m \in Message : m.type \in Sendable /\ Deliver(m)

Window == Redraw \/ \E accept \in BOOLEAN : Decide(accept)

Media == StoreFrame \/ \E kind \in EventKinds : PostEvent(kind)

Loop == HandleMessage \/ HandleDecision \/ HandleWebRtcEvent \/ DropDeadConnections

Next == Senders \/ Window \/ Media \/ Loop

Spec == Init /\ [][Next]_vars

(* The `select!` of `run` picks among the ready branches at random, so     *)
(* none that stays ready is passed over for ever, and the tick recurs.     *)
(* Nothing is assumed of the senders, the user or the GStreamer threads.   *)
Fairness ==
    /\ WF_vars(HandleMessage)
    /\ WF_vars(HandleDecision)
    /\ WF_vars(HandleWebRtcEvent)
    /\ WF_vars(DropDeadConnections)

FairSpec == Spec /\ Fairness

-----------------------------------------------------------------------------
(* Properties *)

(* One screen, one sender: at most one request waits for an answer, and    *)
(* while a session runs only its own sender can have one.  The Busy        *)
(* rejections of handle_session_request keep it so whatever the order of   *)
(* requests, answers, endings and ticks.                                   *)
OneAtATime ==
    /\ \A c, d \in Connections : IsPending(c) /\ IsPending(d) => c = d
    /\ \A c \in Connections : IsActive /\ IsPending(c) => c = active.conn

(* The consent gate of the module comment ("refuses to display anything    *)
(* until a human ... approves the specific sender that asked"): a session  *)
(* belongs to a connection on whose own prompt the user pressed Allow,     *)
(* although the window answers from a copy of the status that may be old,  *)
(* and answers wait in a queue while prompts come and go.                  *)
ConsentBeforeSession == IsActive => active.conn \in allowed

(* What is on the screen is the owner's: a frame is in the slot only while *)
(* a session runs and comes from its connection, and no other connection's *)
(* offer or ICE candidate has reached its peer.  tear_down, fail,          *)
(* handle_offer and media_for together keep it so.                         *)
OnlyOwnerOnScreen ==
    /\ frame # NoConn => frame = active.conn
    /\ active.fed \subseteq {active.conn}

(* The receiver does not claim a connection it lost: the pages Negotiating *)
(* and Streaming are shown only during a session, and name its sender.     *)
ConnectedPagesAreTrue ==
    status.page \in {"Negotiating", "Streaming"}
        => IsActive /\ status.name = active.name

(* A receiver that could not advertise itself never shows Waiting, which   *)
(* reads as discoverable, however its sessions end (`undiscoverable` of    *)
(* SessionLoop, reset_status).                                             *)
NeverClaimsDiscoverable ==
    undiscoverable => "Waiting" \notin {status.page, shown.page}

(* The prompt of a request that still waits for its answer is not replaced *)
(* by the prompt of another connection (the comment on exclusive prompts   *)
(* in handle_session_request).                                             *)
PromptNotReplaced ==
    [][status.page = "PendingConsent" /\ IsPending(status.conn)
            /\ status'.page = "PendingConsent"
        => status'.conn = status.conn]_vars

(* The session loop implements the promise of ConsentScreen. *)
Screen == INSTANCE ConsentScreen WITH
    owner <- active.conn,
    asking <- {c \in Connections : IsPending(c)},
    granted <- allowed
ImplementsConsentScreen == Screen!Spec

Forgotten(c) ==
    active.conn # c /\ ~IsPending(c) /\ status.conn # c

(* A sender whose connection closed is forgotten for good: its session     *)
(* ends, its request is dropped and its prompt leaves the screen, even if  *)
(* messages of it were still waiting (the comments on the liveness tick in *)
(* run and on prompts whose sender vanished in drop_dead_connections).     *)
DeadSenderForgotten ==
    \A c \in Connections : link[c] = "closed" ~> []Forgotten(c)

StalePrompt == status.page = "PendingConsent" /\ ~IsPending(status.conn)

(* A prompt whose request is gone does not stay on the screen, also when   *)
(* its sender withdrew it and stays connected: SessionEnd leaves the       *)
(* prompt to the next tick.                                                *)
StalePromptLeaves == StalePrompt ~> ~StalePrompt

(* handle_message says "Only the connection that owns the session may end  *)
(* it": a WebRTC event that ends a session was posted by the peer of the   *)
(* connection that owns it.                                                *)
EventEndsOwnSession ==
    [][HandleWebRtcEvent /\ IsActive /\ active'.conn = NoConn
        => Head(events).conn = active.conn]_vars

(* The answers that wait in the queue are about prompts the window showed: *)
(* what makes ConsentBeforeSession inductive.                              *)
AnswersAreAllowed ==
    \A i \in 1..Len(decisions) :
        decisions[i].accept => decisions[i].conn \in allowed
=============================================================================
