------------------------ MODULE ReceiverSessionProofs ------------------------
(***************************************************************************)
(* Theorems about the receiver's session loop, for any number of           *)
(* connections, names, queued messages, events and clicks.                 *)
(***************************************************************************)
EXTENDS ReceiverSession, SequenceTheorems, TLAPS

(* The head of a nonempty queue is an element, and the rest is a queue. *)
LEMMA QueueHead ==
    ASSUME NEW S, NEW q \in Seq(S), q # <<>>
    PROVE  /\ Head(q) \in S
           /\ Tail(q) \in Seq(S)
  BY HeadTailProperties

(* What a message that was received can be. *)
LEMMA ReceivedMessage ==
    ASSUME TypeOK, NEW types, Receive(types)
    PROVE  /\ Head(inbox) \in Message
           /\ Head(inbox).conn \in Connections
           /\ Head(inbox).type \in types
           /\ inbox' \in Seq(Message)
  BY QueueHead DEF TypeOK, Receive, Message

(* A session is absent, or has a connection and a name. *)
LEMMA ActiveSession ==
    ASSUME TypeOK
    PROVE  /\ IsActive => active.conn \in Connections /\ active.name \in Names
           /\ ~IsActive => active = NoSession
           /\ active.media \in BOOLEAN
           /\ active.media => IsActive
  <1>1. CASE active = NoSession
    BY <1>1 DEF NoSession, IsActive
  <1>2. CASE active \in [conn : Connections, name : Names, media : BOOLEAN,
                         fed : SUBSET Connections]
    BY <1>2, NoConnAssumption DEF IsActive
  <1>3. QED
    BY <1>1, <1>2 DEF TypeOK, Session

-----------------------------------------------------------------------------
(* Type correctness *)

LEMMA InitType == Init => TypeOK
  BY NoConnAssumption
  DEF Init, TypeOK, IdleStatus, Status, Waiting, Undiscoverable, Session,
      NoSession, Reply, Replies, Silent

LEMMA IdleIsStatus == IdleStatus \in Status /\ Failed \in Status
  BY DEF IdleStatus, Status, Waiting, Undiscoverable, Failed

(* Ending a session keeps the variables it writes well typed. *)
LEMMA EndSessionType ==
    ASSUME TypeOK, NEW next \in Status, EndSession(next)
    PROVE  /\ active' \in Session
           /\ status' \in Status
           /\ frame' \in Connections \cup {NoConn}
           /\ sent' \in Reply
  BY ActiveSession
  DEF EndSession, Session, NoSession, Send, SendNothing, Silent, Reply, Replies

LEMMA SendersType == TypeOK /\ Senders => TypeOK'
  <1> SUFFICES ASSUME TypeOK, Senders PROVE TypeOK'
    OBVIOUS
  <1> USE DEF TypeOK, SendNothing, Silent, Reply, Replies, session, queues, environment
  <1>1. ASSUME NEW c \in Connections, Connect(c) \/ LoseReplies(c) \/ Disconnect(c)
        PROVE  TypeOK'
    BY <1>1 DEF Connect, LoseReplies, Disconnect
  <1>2. ASSUME NEW m \in Message, Deliver(m)
        PROVE  TypeOK'
    BY <1>2 DEF Deliver
  <1>3. QED
    BY <1>1, <1>2 DEF Senders

LEMMA WindowType == TypeOK /\ Window => TypeOK'
  <1> SUFFICES ASSUME TypeOK, Window PROVE TypeOK'
    OBVIOUS
  <1> USE DEF TypeOK, SendNothing, Silent, Reply, Replies, session, queues, environment
  <1>1. CASE Redraw
    BY <1>1 DEF Redraw
  <1>2. ASSUME NEW accept \in BOOLEAN, Decide(accept)
        PROVE  TypeOK'
    <2>1. shown.conn \in Connections
      BY <1>2 DEF Decide, Status, Waiting, Undiscoverable, Failed
    <2>2. [conn |-> shown.conn, accept |-> accept] \in Decision
      BY <2>1 DEF Decision
    <2>3. decisions' \in Seq(Decision)
      BY <1>2, <2>2 DEF Decide
    <2>4. allowed' \in SUBSET Connections
      BY <1>2, <2>1 DEF Decide
    <2>5. QED
      BY <1>2, <2>3, <2>4 DEF Decide
  <1>3. QED
    BY <1>1, <1>2 DEF Window

LEMMA MediaType == TypeOK /\ Media => TypeOK'
  <1> SUFFICES ASSUME TypeOK, Media PROVE TypeOK'
    OBVIOUS
  <1> USE DEF TypeOK, SendNothing, Silent, Reply, Replies, session, queues, environment
  <1>1. CASE StoreFrame
    BY <1>1, ActiveSession DEF StoreFrame
  <1>2. ASSUME NEW kind \in EventKinds, PostEvent(kind)
        PROVE  TypeOK'
    <2>1. [kind |-> kind, conn |-> active.conn] \in Event
      BY <1>2, ActiveSession DEF PostEvent, Event
    <2>2. events' \in Seq(Event)
      BY <1>2, <2>1 DEF PostEvent
    <2>3. QED
      BY <1>2, <2>2 DEF PostEvent
  <1>3. QED
    BY <1>1, <1>2 DEF Media

(* The session variables are well typed after a message was handled. *)
LEMMA HandleMessageType == TypeOK /\ HandleMessage => TypeOK'
  <1> SUFFICES ASSUME TypeOK, HandleMessage PROVE TypeOK'
    OBVIOUS
  <1> DEFINE m == Head(inbox)
  <1> USE DEF Send, SendNothing, Silent, Reply, Replies, session, environment
  <1>1. CASE RejectUnsuitable
    <2>1. m.conn \in Connections /\ inbox' \in Seq(Message)
      BY <1>1, ReceivedMessage DEF RejectUnsuitable
    <2>2. sent' \in Reply
      BY <1>1, <2>1 DEF RejectUnsuitable
    <2>3. QED
      BY <1>1, <2>1, <2>2 DEF RejectUnsuitable, Receive, TypeOK
  <1>2. CASE HandleSessionRequest
    <2>1. m.conn \in Connections /\ inbox' \in Seq(Message) /\ m \in Message
            /\ m.type \in Asking
      BY <1>2, ReceivedMessage DEF HandleSessionRequest
    <2>2. m.name \in Names
      BY <2>1 DEF Message, Asking, Unsuitable, Plain
    <2>3. status' \in Status /\ pending' \in [Connections -> Names \cup {NoName}]
            /\ sent' \in Reply
      BY <1>2, <2>1, <2>2 DEF HandleSessionRequest, PendingConsent, Status, TypeOK
    <2>4. QED
      BY <1>2, <2>1, <2>3 DEF HandleSessionRequest, Receive, TypeOK
  <1>3. CASE HandleOffer
    <2>1. m.conn \in Connections /\ inbox' \in Seq(Message)
      BY <1>3, ReceivedMessage DEF HandleOffer
    <2>2. ASSUME OwnsSession(m.conn),
                 active' = [active EXCEPT !.media = TRUE, !.fed = @ \cup {m.conn}]
          PROVE  active' \in Session
      <3>1. active \in [conn : Connections, name : Names, media : BOOLEAN,
                        fed : SUBSET Connections]
        BY <2>1, <2>2, NoConnAssumption DEF TypeOK, Session, NoSession, OwnsSession
      <3>2. QED
        BY <2>1, <2>2, <3>1 DEF Session
    <2>3. /\ active' \in Session /\ status' \in Status
          /\ frame' \in Connections \cup {NoConn} /\ sent' \in Reply
      BY <1>3, <2>2, EndSessionType, IdleIsStatus DEF HandleOffer, Fail, TypeOK
    <2>4. QED
      BY <1>3, <2>1, <2>3 DEF HandleOffer, Receive, TypeOK
  <1>4. CASE HandleIceCandidate
    <2>1. m.conn \in Connections /\ inbox' \in Seq(Message)
      BY <1>4, ReceivedMessage DEF HandleIceCandidate
    <2>2. ASSUME MediaFor(m.conn),
                 active' = [active EXCEPT !.fed = @ \cup {m.conn}]
          PROVE  active' \in Session
      <3>1. active \in [conn : Connections, name : Names, media : BOOLEAN,
                        fed : SUBSET Connections]
        BY <2>1, <2>2, NoConnAssumption
        DEF TypeOK, Session, NoSession, OwnsSession, MediaFor
      <3>2. QED
        BY <2>1, <2>2, <3>1 DEF Session
    <2>3. active' \in Session
      BY <1>4, <2>2 DEF HandleIceCandidate, TypeOK
    <2>4. QED
      BY <1>4, <2>1, <2>3 DEF HandleIceCandidate, Receive, TypeOK
  <1>5. CASE HandlePing
    <2>1. m.conn \in Connections /\ inbox' \in Seq(Message)
      BY <1>5, ReceivedMessage DEF HandlePing
    <2>2. QED
      BY <1>5, <2>1 DEF HandlePing, Receive, TypeOK
  <1>6. CASE HandleSessionEnd
    <2>1. m.conn \in Connections /\ inbox' \in Seq(Message)
      BY <1>6, ReceivedMessage DEF HandleSessionEnd
    <2>2. /\ active' \in Session /\ status' \in Status
          /\ frame' \in Connections \cup {NoConn} /\ sent' \in Reply
      BY <1>6, EndSessionType, IdleIsStatus DEF HandleSessionEnd, TearDown, TypeOK
    <2>3. QED
      BY <1>6, <2>1, <2>2 DEF HandleSessionEnd, Receive, TypeOK
  <1>7. CASE HandleOther
    <2>1. inbox' \in Seq(Message)
      BY <1>7, ReceivedMessage DEF HandleOther
    <2>2. QED
      BY <1>7, <2>1 DEF HandleOther, Receive, TypeOK
  <1>8. QED
    BY <1>1, <1>2, <1>3, <1>4, <1>5, <1>6, <1>7 DEF HandleMessage

LEMMA HandleDecisionType == TypeOK /\ HandleDecision => TypeOK'
  <1> SUFFICES ASSUME TypeOK, HandleDecision PROVE TypeOK'
    OBVIOUS
  <1> DEFINE d == Head(decisions)
  <1> USE DEF Send, SendNothing, Silent, Reply, Replies, session, environment
  <1>1. decisions # <<>> /\ decisions' = Tail(decisions)
    BY DEF HandleDecision
  <1>2. d \in Decision /\ decisions' \in Seq(Decision)
    BY <1>1, QueueHead DEF TypeOK
  <1>3. d.conn \in Connections
    BY <1>2 DEF Decision
  <1>4. IsPending(d.conn) => pending[d.conn] \in Names
    BY <1>3 DEF IsPending, TypeOK
  <1>5. CASE ~IsPending(d.conn)
    <2>1. SendNothing /\ UNCHANGED session
      BY <1>5 DEF HandleDecision
    <2>2. QED
      BY <1>2, <2>1 DEF HandleDecision, TypeOK
  <1>6. CASE IsPending(d.conn) /\ ~d.accept
    <2>1. /\ pending' = [pending EXCEPT ![d.conn] = NoName]
          /\ Send(d.conn, "Denied")
          /\ status' = IdleStatus
          /\ UNCHANGED <<active, frame>>
      BY <1>6 DEF HandleDecision
    <2>2. QED
      BY <1>2, <1>3, <2>1, IdleIsStatus DEF HandleDecision, TypeOK
  <1>7. CASE IsPending(d.conn) /\ d.accept
    <2>1. /\ pending' = [pending EXCEPT ![d.conn] = NoName]
          /\ Send(d.conn, "SessionAccept")
          /\ status' = Negotiating(pending[d.conn])
          /\ active' = [conn |-> d.conn, name |-> pending[d.conn],
                        media |-> FALSE, fed |-> {}]
          /\ UNCHANGED frame
      BY <1>7 DEF HandleDecision
    <2>2. status' \in Status /\ active' \in Session
      BY <1>3, <1>4, <1>7, <2>1 DEF Negotiating, Status, Session
    <2>3. QED
      BY <1>2, <1>3, <2>1, <2>2 DEF HandleDecision, TypeOK
  <1>8. QED
    BY <1>5, <1>6, <1>7

LEMMA HandleWebRtcEventType == TypeOK /\ HandleWebRtcEvent => TypeOK'
  <1> SUFFICES ASSUME TypeOK, HandleWebRtcEvent PROVE TypeOK'
    OBVIOUS
  <1> USE DEF Send, SendNothing, Silent, Reply, Replies, session, environment
  <1>1. events' \in Seq(Event)
    BY QueueHead DEF HandleWebRtcEvent, TypeOK
  <1>2. IsActive => Streaming(active.name) \in Status
    BY ActiveSession DEF Streaming, Status
  <1>3. /\ active' \in Session /\ status' \in Status
        /\ frame' \in Connections \cup {NoConn} /\ sent' \in Reply
    BY <1>2, ActiveSession, EndSessionType, IdleIsStatus
    DEF HandleWebRtcEvent, TearDown, Fail, TypeOK
  <1>4. QED
    BY <1>1, <1>3 DEF HandleWebRtcEvent, TypeOK

LEMMA DropDeadConnectionsType == TypeOK /\ DropDeadConnections => TypeOK'
  <1> SUFFICES ASSUME TypeOK, DropDeadConnections PROVE TypeOK'
    OBVIOUS
  <1> USE DEF SendNothing, Silent, Reply, Replies, session, environment, queues
  <1>1. pending' \in [Connections -> Names \cup {NoName}]
    BY DEF DropDeadConnections, TypeOK
  <1>2. /\ active' \in Session /\ status' \in Status
        /\ frame' \in Connections \cup {NoConn} /\ sent' \in Reply
    BY EndSessionType, IdleIsStatus DEF DropDeadConnections, TearDown, TypeOK
  <1>3. QED
    BY <1>1, <1>2 DEF DropDeadConnections, TypeOK

LEMMA NextType == TypeOK /\ [Next]_vars => TypeOK'
  <1>1. TypeOK /\ UNCHANGED vars => TypeOK'
    BY DEF TypeOK, vars
  <1>2. TypeOK /\ Loop => TypeOK'
    BY HandleMessageType, HandleDecisionType, HandleWebRtcEventType,
       DropDeadConnectionsType DEF Loop
  <1>3. QED
    BY <1>1, <1>2, SendersType, WindowType, MediaType DEF Next

(* Every variable of the session loop keeps its type: in particular a      *)
(* prompt always carries a connection and a name, and a session that       *)
(* exists always has both (Status, Pending and Active of net.rs).          *)
THEOREM TypeCorrect == Spec => []TypeOK
  BY InitType, NextType, PTL DEF Spec

-----------------------------------------------------------------------------
(* What a step can do to the session.  Every action is one of these        *)
(* effects, and the invariants are proved for the effects.                 *)

OnlyDropsRequests == \A c \in Connections : pending'[c] \in {pending[c], NoName}

Asked(c, n) ==
    /\ ~Busy(c)
    /\ pending' = [pending EXCEPT ![c] = n]
    /\ status' = PendingConsent(c, n)
    /\ UNCHANGED <<active, frame>>

Fed(c) ==
    /\ active.conn = c
    /\ active'.conn = active.conn /\ active'.name = active.name
    /\ active'.fed = active.fed \cup {c}
    /\ UNCHANGED <<pending, status, frame>>

Admitted(c) ==
    /\ IsPending(c)
    /\ c \in allowed
    /\ pending' = [pending EXCEPT ![c] = NoName]
    /\ active'.conn = c /\ active'.name = pending[c] /\ active'.fed = {}
    /\ status' = Negotiating(pending[c])
    /\ UNCHANGED frame

Ended ==
    /\ IsActive
    /\ active' = NoSession
    /\ frame' = NoConn
    /\ status' \in {IdleStatus, Failed}
    /\ OnlyDropsRequests

Dropped ==
    /\ OnlyDropsRequests
    /\ status' \in {status, IdleStatus}
    /\ UNCHANGED <<active, frame>>

Framed ==
    /\ IsActive
    /\ frame' = active.conn
    /\ UNCHANGED <<pending, active, status>>

Streams ==
    /\ IsActive
    /\ status' = Streaming(active.name)
    /\ UNCHANGED <<pending, active, frame>>

Effect ==
    \/ UNCHANGED session
    \/ \E c \in Connections, n \in Names : Asked(c, n)
    \/ \E c \in Connections : Fed(c) \/ Admitted(c)
    \/ Ended \/ Dropped \/ Framed \/ Streams

(* The message handlers have no other effect. *)
LEMMA HandleMessageEffect ==
    ASSUME TypeOK, HandleMessage
    PROVE  Effect
  <1> DEFINE m == Head(inbox)
  <1> USE DEF session
  <1>1. CASE RejectUnsuitable
    BY <1>1 DEF RejectUnsuitable, Effect
  <1>2. CASE HandleSessionRequest
    <2>1. m.conn \in Connections /\ m \in Message /\ m.type \in Asking
      BY <1>2, ReceivedMessage DEF HandleSessionRequest
    <2>2. m.name \in Names
      BY <2>1 DEF Message, Asking, Unsuitable, Plain
    <2>3. UNCHANGED session \/ Asked(m.conn, m.name)
      BY <1>2 DEF HandleSessionRequest, Asked
    <2>4. QED
      BY <2>1, <2>2, <2>3 DEF Effect
  <1>3. CASE HandleOffer
    <2>1. m.conn \in Connections
      BY <1>3, ReceivedMessage DEF HandleOffer
    <2>2. CASE /\ OwnsSession(m.conn)
               /\ active' = [active EXCEPT !.media = TRUE, !.fed = @ \cup {m.conn}]
               /\ UNCHANGED <<pending, status, frame>>
      <3>1. active \in [conn : Connections, name : Names, media : BOOLEAN,
                        fed : SUBSET Connections]
        BY <2>1, <2>2, NoConnAssumption DEF TypeOK, Session, NoSession, OwnsSession
      <3>2. Fed(m.conn)
        BY <2>2, <3>1 DEF Fed, OwnsSession
      <3>3. QED
        BY <2>1, <3>2 DEF Effect
    <2>3. CASE OwnsSession(m.conn) /\ Fail /\ UNCHANGED pending
      <3>1. Ended
        BY <2>1, <2>3, NoConnAssumption
        DEF Ended, Fail, EndSession, OnlyDropsRequests, OwnsSession, IsActive
      <3>2. QED
        BY <3>1 DEF Effect
    <2>4. CASE UNCHANGED <<pending, active, status, frame>>
      BY <2>4 DEF Effect
    <2>5. QED
      BY <1>3, <2>2, <2>3, <2>4 DEF HandleOffer
  <1>4. CASE HandleIceCandidate
    <2>1. m.conn \in Connections
      BY <1>4, ReceivedMessage DEF HandleIceCandidate
    <2>2. CASE MediaFor(m.conn)
      <3>1. active \in [conn : Connections, name : Names, media : BOOLEAN,
                        fed : SUBSET Connections]
        BY <2>1, <2>2, NoConnAssumption
        DEF TypeOK, Session, NoSession, OwnsSession, MediaFor
      <3>2. Fed(m.conn)
        BY <1>4, <2>2, <3>1 DEF HandleIceCandidate, Fed, MediaFor, OwnsSession
      <3>3. QED
        BY <2>1, <3>2 DEF Effect
    <2>3. CASE ~MediaFor(m.conn)
      BY <1>4, <2>3 DEF HandleIceCandidate, Effect
    <2>4. QED
      BY <2>2, <2>3
  <1>5. CASE HandlePing
    BY <1>5 DEF HandlePing, Effect
  <1>6. CASE HandleSessionEnd
    <2>1. m.conn \in Connections
      BY <1>6, ReceivedMessage DEF HandleSessionEnd
    <2>2. OnlyDropsRequests
      BY <1>6, <2>1 DEF HandleSessionEnd, OnlyDropsRequests, TypeOK
    <2>3. CASE OwnsSession(m.conn)
      <3>1. Ended
        BY <1>6, <2>1, <2>2, <2>3, NoConnAssumption
        DEF HandleSessionEnd, Ended, TearDown, EndSession, OwnsSession, IsActive
      <3>2. QED
        BY <3>1 DEF Effect
    <2>4. CASE ~OwnsSession(m.conn)
      <3>1. Dropped
        BY <1>6, <2>2, <2>4 DEF HandleSessionEnd, Dropped
      <3>2. QED
        BY <3>1 DEF Effect
    <2>5. QED
      BY <2>3, <2>4
  <1>7. CASE HandleOther
    BY <1>7 DEF HandleOther, Effect
  <1>8. QED
    BY <1>1, <1>2, <1>3, <1>4, <1>5, <1>6, <1>7 DEF HandleMessage

(* An answer withdraws the request it is about, or admits a connection on  *)
(* whose prompt the user pressed Allow.                                    *)
LEMMA HandleDecisionEffect ==
    ASSUME TypeOK, AnswersAreAllowed, HandleDecision
    PROVE  Effect
  <1> DEFINE d == Head(decisions)
  <1> USE DEF session
  <1>1. decisions # <<>>
    BY DEF HandleDecision
  <1>2. d \in Decision /\ d = decisions[1] /\ 1 \in 1..Len(decisions)
    BY <1>1, QueueHead, HeadTailProperties, EmptySeq DEF TypeOK
  <1>3. d.conn \in Connections /\ (d.accept => d.conn \in allowed)
    BY <1>2 DEF Decision, AnswersAreAllowed
  <1>4. CASE ~IsPending(d.conn)
    BY <1>4 DEF HandleDecision, Effect
  <1>5. CASE IsPending(d.conn) /\ ~d.accept
    <2>1. /\ pending' = [pending EXCEPT ![d.conn] = NoName]
          /\ status' = IdleStatus
          /\ UNCHANGED <<active, frame>>
      BY <1>5 DEF HandleDecision
    <2>2. Dropped
      BY <1>3, <2>1 DEF Dropped, OnlyDropsRequests, TypeOK
    <2>3. QED
      BY <2>2 DEF Effect
  <1>6. CASE IsPending(d.conn) /\ d.accept
    <2>1. /\ pending' = [pending EXCEPT ![d.conn] = NoName]
          /\ status' = Negotiating(pending[d.conn])
          /\ active' = [conn |-> d.conn, name |-> pending[d.conn],
                        media |-> FALSE, fed |-> {}]
          /\ UNCHANGED frame
      BY <1>6 DEF HandleDecision
    <2>2. Admitted(d.conn)
      BY <1>3, <1>6, <2>1 DEF Admitted
    <2>3. QED
      BY <1>3, <2>2 DEF Effect
  <1>7. QED
    BY <1>4, <1>5, <1>6

(* No step has any other effect. *)
LEMMA StepEffect ==
    ASSUME TypeOK, AnswersAreAllowed, [Next]_vars
    PROVE  Effect /\ undiscoverable' = undiscoverable
  <1> USE DEF session
  <1>1. CASE Senders
    BY <1>1 DEF Senders, Connect, LoseReplies, Disconnect, Deliver, Effect
  <1>2. CASE Window
    BY <1>2 DEF Window, Redraw, Decide, Effect
  <1>3. CASE Media
    <2>1. CASE StoreFrame
      <3>1. Framed
        BY <2>1, ActiveSession DEF StoreFrame, Framed
      <3>2. QED
        BY <2>1, <3>1 DEF StoreFrame, Effect
    <2>2. CASE \E kind \in EventKinds : PostEvent(kind)
      BY <2>2 DEF PostEvent, Effect
    <2>3. QED
      BY <1>3, <2>1, <2>2 DEF Media
  <1>4. CASE HandleMessage
    <2>1. undiscoverable' = undiscoverable
      BY <1>4 DEF HandleMessage, RejectUnsuitable, HandleSessionRequest, HandleOffer,
         HandleIceCandidate, HandlePing, HandleSessionEnd, HandleOther, Receive
    <2>2. QED
      BY <1>4, <2>1, HandleMessageEffect
  <1>5. CASE HandleDecision
    BY <1>5, HandleDecisionEffect DEF HandleDecision
  <1>6. CASE HandleWebRtcEvent
    <2>1. CASE UNCHANGED <<pending, active, status, frame>>
      BY <1>6, <2>1 DEF HandleWebRtcEvent, Effect
    <2>2. CASE IsActive /\ status' = Streaming(active.name)
               /\ UNCHANGED <<pending, active, frame>>
      BY <1>6, <2>2 DEF HandleWebRtcEvent, Effect, Streams
    <2>3. CASE IsActive /\ (TearDown \/ Fail) /\ UNCHANGED pending
      <3>1. Ended
        BY <2>3 DEF Ended, TearDown, Fail, EndSession, OnlyDropsRequests
      <3>2. QED
        BY <1>6, <3>1 DEF HandleWebRtcEvent, Effect
    <2>4. QED
      BY <1>6, <2>1, <2>2, <2>3 DEF HandleWebRtcEvent
  <1>7. CASE DropDeadConnections
    <2>1. OnlyDropsRequests
      BY <1>7 DEF DropDeadConnections, OnlyDropsRequests
    <2>2. CASE OwnerIsGone /\ TearDown
      <3>1. Ended
        BY <2>1, <2>2 DEF Ended, OwnerIsGone, TearDown, EndSession
      <3>2. QED
        BY <1>7, <3>1 DEF DropDeadConnections, Effect
    <2>3. CASE status' \in {status, IdleStatus} /\ UNCHANGED <<active, frame>>
      BY <1>7, <2>1, <2>3 DEF DropDeadConnections, Effect, Dropped
    <2>4. QED
      BY <1>7, <2>2, <2>3 DEF DropDeadConnections
  <1>8. CASE UNCHANGED vars
    BY <1>8 DEF vars, Effect
  <1>9. QED
    BY <1>1, <1>2, <1>3, <1>4, <1>5, <1>6, <1>7, <1>8 DEF Next, Loop

(* Requests, once dropped, are not pending; the others are unchanged. *)
LEMMA DroppedRequests ==
    ASSUME OnlyDropsRequests, NEW c \in Connections, IsPending(c)'
    PROVE  IsPending(c)
  BY DEF OnlyDropsRequests, IsPending

-----------------------------------------------------------------------------
(* One sender at a time *)

LEMMA NextOneAtATime ==
    ASSUME TypeOK, TypeOK', OneAtATime, Effect
    PROVE  OneAtATime'
  <1>1. SUFFICES ASSUME NEW c \in Connections, NEW d \in Connections, IsPending(c)'
                 PROVE  /\ IsPending(d)' => c = d
                        /\ IsActive' => c = active'.conn
    BY DEF OneAtATime
  <1>2. CASE UNCHANGED session
    BY <1>1, <1>2 DEF session, OneAtATime, IsPending, IsActive
  <1>3. ASSUME NEW e \in Connections, NEW n \in Names, Asked(e, n)
        PROVE  /\ IsPending(d)' => c = d
               /\ IsActive' => c = active'.conn
    <2>1. \A f \in Connections : IsPending(f)' => f = e
      BY <1>3 DEF Asked, Busy, IsPending, TypeOK
    <2>2. IsActive' => active'.conn = e
      BY <1>3 DEF Asked, Busy, IsActive, OwnsSession
    <2>3. QED
      BY <1>1, <2>1, <2>2
  <1>4. ASSUME NEW e \in Connections, Fed(e)
        PROVE  /\ IsPending(d)' => c = d
               /\ IsActive' => c = active'.conn
    BY <1>1, <1>4 DEF Fed, OneAtATime, IsPending, IsActive
  <1>5. ASSUME NEW e \in Connections, Admitted(e)
        PROVE  /\ IsPending(d)' => c = d
               /\ IsActive' => c = active'.conn
    <2>1. ~IsPending(c)'
      BY <1>5 DEF Admitted, OneAtATime, IsPending, TypeOK
    <2>2. QED
      BY <1>1, <2>1
  <1>6. CASE Ended
    <2>1. ~IsActive'
      BY <1>6 DEF Ended, IsActive, NoSession
    <2>2. QED
      BY <1>1, <1>6, <2>1, DroppedRequests DEF Ended, OneAtATime
  <1>7. CASE Dropped
    <2>1. active' = active
      BY <1>7 DEF Dropped
    <2>2. QED
      BY <1>1, <1>7, <2>1, DroppedRequests DEF Dropped, OneAtATime, IsActive
  <1>8. CASE Framed \/ Streams
    BY <1>1, <1>8 DEF Framed, Streams, OneAtATime, IsPending, IsActive
  <1>9. QED
    BY <1>2, <1>3, <1>4, <1>5, <1>6, <1>7, <1>8 DEF Effect

-----------------------------------------------------------------------------
(* Consent *)

(* The user's answers are about the connection of the prompt on the window. *)
LEMMA NextAnswersAreAllowed ==
    ASSUME TypeOK, AnswersAreAllowed, [Next]_vars
    PROVE  AnswersAreAllowed' /\ allowed \subseteq allowed'
  <1>1. CASE \E accept \in BOOLEAN : Decide(accept)
    <2>1. PICK accept \in BOOLEAN : Decide(accept)
      BY <1>1
    <2>2. DEFINE d == [conn |-> shown.conn, accept |-> accept]
    <2>3. decisions' = Append(decisions, d) /\ decisions \in Seq(Decision)
      BY <2>1 DEF Decide, TypeOK
    <2>4. allowed \subseteq allowed' /\ (accept => shown.conn \in allowed')
      BY <2>1 DEF Decide
    <2>5. SUFFICES ASSUME NEW i \in 1..Len(decisions'), decisions'[i].accept
                   PROVE  decisions'[i].conn \in allowed'
      BY <2>4 DEF AnswersAreAllowed
    <2>6. Len(decisions') = Len(decisions) + 1 /\ Len(decisions) \in Nat
      BY <2>3
    <2>7. CASE i = Len(decisions) + 1
      <3>1. decisions'[i] = d
        BY <2>3, <2>7
      <3>2. QED
        BY <2>4, <2>5, <3>1
    <2>8. CASE i \in 1..Len(decisions)
      <3>1. decisions'[i] = decisions[i]
        BY <2>3, <2>8
      <3>2. QED
        BY <2>4, <2>5, <2>8, <3>1 DEF AnswersAreAllowed
    <2>9. QED
      BY <2>5, <2>6, <2>7, <2>8
  <1>2. CASE HandleDecision
    <2>1. /\ decisions # <<>> /\ decisions' = Tail(decisions)
          /\ allowed' = allowed /\ decisions \in Seq(Decision)
      BY <1>2 DEF HandleDecision, environment, TypeOK
    <2>2. /\ Len(decisions') = Len(decisions) - 1 /\ Len(decisions) \in Nat
          /\ \A i \in 1..Len(decisions') : decisions'[i] = decisions[i + 1]
      BY <2>1
    <2>3. QED
      BY <2>1, <2>2 DEF AnswersAreAllowed
  <1>3. CASE UNCHANGED <<decisions, allowed>>
    BY <1>3 DEF AnswersAreAllowed
  <1>4. Redraw \/ Senders \/ Media \/ HandleMessage \/ HandleWebRtcEvent
            \/ DropDeadConnections \/ UNCHANGED vars
          => UNCHANGED <<decisions, allowed>>
    BY DEF Redraw, Senders, Connect, Deliver, LoseReplies, Disconnect, Media, StoreFrame,
       PostEvent, HandleMessage, RejectUnsuitable, HandleSessionRequest, HandleOffer,
       HandleIceCandidate, HandlePing, HandleSessionEnd, HandleOther, Receive,
       HandleWebRtcEvent, DropDeadConnections, environment, queues, vars
  <1>5. QED
    BY <1>1, <1>2, <1>3, <1>4 DEF Next, Loop, Window

LEMMA NextConsent ==
    ASSUME TypeOK, ConsentBeforeSession, Effect, allowed \subseteq allowed'
    PROVE  ConsentBeforeSession'
  BY DEF ConsentBeforeSession, IsActive, Effect, session, Asked, Fed, Admitted, Ended,
     Dropped, Framed, Streams, NoSession

-----------------------------------------------------------------------------
(* Frames, descriptions and candidates *)

LEMMA NextOnlyOwner ==
    ASSUME TypeOK, OneAtATime, OnlyOwnerOnScreen, Effect
    PROVE  OnlyOwnerOnScreen'
  <1>1. CASE UNCHANGED session \/ Dropped \/ Framed \/ Streams
              \/ \E c \in Connections, n \in Names : Asked(c, n)
    BY <1>1 DEF OnlyOwnerOnScreen, session, Dropped, Framed, Streams, Asked
  <1>2. ASSUME NEW c \in Connections, Fed(c)
        PROVE  OnlyOwnerOnScreen'
    BY <1>2 DEF OnlyOwnerOnScreen, Fed
  <1>3. ASSUME NEW c \in Connections, Admitted(c)
        PROVE  OnlyOwnerOnScreen'
    <2>1. frame # NoConn => frame = c
      BY <1>3 DEF Admitted, OnlyOwnerOnScreen, OneAtATime, IsActive
    <2>2. QED
      BY <1>3, <2>1 DEF Admitted, OnlyOwnerOnScreen
  <1>4. CASE Ended
    BY <1>4 DEF Ended, OnlyOwnerOnScreen, NoSession
  <1>5. QED
    BY <1>1, <1>2, <1>3, <1>4 DEF Effect

-----------------------------------------------------------------------------
(* What the status cell claims *)

LEMMA NextConnectedPages ==
    ASSUME ConnectedPagesAreTrue, Effect
    PROVE  ConnectedPagesAreTrue'
  <1> USE DEF ConnectedPagesAreTrue, IsActive
  <1>1. IdleStatus.page \notin {"Negotiating", "Streaming"}
    BY DEF IdleStatus, Waiting, Undiscoverable
  <1>2. CASE UNCHANGED session \/ Framed \/ Streams
    BY <1>2 DEF session, Framed, Streams, Streaming
  <1>3. ASSUME NEW c \in Connections, NEW n \in Names, Asked(c, n)
        PROVE  ConnectedPagesAreTrue'
    BY <1>3 DEF Asked, PendingConsent
  <1>4. ASSUME NEW c \in Connections, Fed(c)
        PROVE  ConnectedPagesAreTrue'
    BY <1>4 DEF Fed
  <1>5. ASSUME NEW c \in Connections, Admitted(c)
        PROVE  ConnectedPagesAreTrue'
    BY <1>5, NoConnAssumption DEF Admitted, Negotiating
  <1>6. CASE Ended
    BY <1>1, <1>6 DEF Ended, Failed
  <1>7. CASE Dropped
    BY <1>1, <1>7 DEF Dropped
  <1>8. QED
    BY <1>2, <1>3, <1>4, <1>5, <1>6, <1>7 DEF Effect

LEMMA NextNeverClaims ==
    ASSUME NeverClaimsDiscoverable, Effect, undiscoverable' = undiscoverable,
           shown' \in {shown, status}
    PROVE  NeverClaimsDiscoverable'
  BY DEF NeverClaimsDiscoverable, Effect, session, Asked, Fed, Admitted, Ended, Dropped,
     Framed, Streams, IdleStatus, Undiscoverable, Failed, PendingConsent, Negotiating,
     Streaming

LEMMA NextShown ==
    ASSUME [Next]_vars
    PROVE  shown' \in {shown, status}
  BY DEF Next, vars, Window, Redraw, Decide, Senders, Connect, Deliver, LoseReplies,
     Disconnect, Media, StoreFrame, PostEvent, Loop, HandleMessage, RejectUnsuitable,
     HandleSessionRequest, HandleOffer, HandleIceCandidate, HandlePing, HandleSessionEnd,
     HandleOther, Receive, HandleDecision, HandleWebRtcEvent, DropDeadConnections,
     environment

-----------------------------------------------------------------------------
(* The inductive invariant *)

IInv ==
    /\ TypeOK
    /\ OneAtATime
    /\ AnswersAreAllowed
    /\ ConsentBeforeSession
    /\ OnlyOwnerOnScreen
    /\ ConnectedPagesAreTrue
    /\ NeverClaimsDiscoverable

LEMMA InitIInv == Init => IInv
  <1> SUFFICES ASSUME Init PROVE IInv
    OBVIOUS
  <1>1. TypeOK
    BY InitType
  <1>2. QED
    BY <1>1
    DEF Init, IInv, OneAtATime, AnswersAreAllowed, ConsentBeforeSession,
        OnlyOwnerOnScreen, ConnectedPagesAreTrue, NeverClaimsDiscoverable, IsPending,
        IsActive, IdleStatus, Waiting, Undiscoverable, NoSession

LEMMA NextIInv == IInv /\ [Next]_vars => IInv'
  <1> SUFFICES ASSUME IInv, [Next]_vars PROVE IInv'
    OBVIOUS
  <1>1. TypeOK'
    BY NextType DEF IInv
  <1>2. Effect /\ undiscoverable' = undiscoverable
    BY StepEffect DEF IInv
  <1>3. AnswersAreAllowed' /\ allowed \subseteq allowed'
    BY NextAnswersAreAllowed DEF IInv
  <1>4. OneAtATime'
    BY <1>1, <1>2, NextOneAtATime DEF IInv
  <1>5. ConsentBeforeSession'
    BY <1>2, <1>3, NextConsent DEF IInv
  <1>6. OnlyOwnerOnScreen'
    BY <1>2, NextOnlyOwner DEF IInv
  <1>7. ConnectedPagesAreTrue'
    BY <1>2, NextConnectedPages DEF IInv
  <1>8. NeverClaimsDiscoverable'
    BY <1>2, NextShown, NextNeverClaims DEF IInv
  <1>9. QED
    BY <1>1, <1>3, <1>4, <1>5, <1>6, <1>7, <1>8 DEF IInv

(* The inductive invariant holds throughout. *)
THEOREM Invariance == Spec => []IInv
  BY InitIInv, NextIInv, PTL DEF Spec

(* At most one request waits for the user, and none but the owner's while  *)
(* a session runs: handle_session_request refuses the others as Busy.      *)
THEOREM Exclusivity == Spec => []OneAtATime
  <1>1. IInv => OneAtATime
    BY DEF IInv
  <1>2. QED
    BY <1>1, Invariance, PTL

(* No session without the user having pressed Allow on a prompt of the     *)
(* very connection that owns it (handle_decision).                         *)
THEOREM Consent == Spec => []ConsentBeforeSession
  <1>1. IInv => ConsentBeforeSession
    BY DEF IInv
  <1>2. QED
    BY <1>1, Invariance, PTL

(* Frames in the slot, and descriptions and candidates in the peer, are of *)
(* the owner of the session (handle_offer, media_for, tear_down, fail).    *)
THEOREM OwnerOnly == Spec => []OnlyOwnerOnScreen
  <1>1. IInv => OnlyOwnerOnScreen
    BY DEF IInv
  <1>2. QED
    BY <1>1, Invariance, PTL

(* Negotiating and Streaming are shown only during a session, with the     *)
(* name of its sender.                                                     *)
THEOREM TruePages == Spec => []ConnectedPagesAreTrue
  <1>1. IInv => ConnectedPagesAreTrue
    BY DEF IInv
  <1>2. QED
    BY <1>1, Invariance, PTL

(* A receiver that could not advertise itself never shows Waiting, however *)
(* many sessions begin and end.                                            *)
THEOREM NeverMisleading == Spec => []NeverClaimsDiscoverable
  <1>1. IInv => NeverClaimsDiscoverable
    BY DEF IInv
  <1>2. QED
    BY <1>1, Invariance, PTL

-----------------------------------------------------------------------------
(* Steps *)

(* While a request waits for its answer, its prompt does not become the    *)
(* prompt of another connection.                                           *)
THEOREM PromptStays == Spec => PromptNotReplaced
  <1>1. IInv /\ [Next]_vars
          => [status.page = "PendingConsent" /\ IsPending(status.conn)
                  /\ status'.page = "PendingConsent"
              => status'.conn = status.conn]_vars
    <2> SUFFICES ASSUME IInv, [Next]_vars, status.page = "PendingConsent",
                        IsPending(status.conn), status'.page = "PendingConsent"
                 PROVE  status'.conn = status.conn
      OBVIOUS
    <2>1. status.conn \in Connections
      BY DEF IInv, TypeOK, Status, Waiting, Undiscoverable, Failed
    <2>2. Effect
      BY StepEffect DEF IInv
    <2>3. ASSUME NEW c \in Connections, NEW n \in Names, Asked(c, n)
          PROVE  status'.conn = status.conn
      BY <2>1, <2>3 DEF Asked, Busy, PendingConsent
    <2>4. CASE ~ \E c \in Connections, n \in Names : Asked(c, n)
      BY <2>2, <2>4
      DEF Effect, session, Fed, Admitted, Ended, Dropped, Framed, Streams, IdleStatus,
          Waiting, Undiscoverable, Failed, Negotiating, Streaming
    <2>5. QED
      BY <2>3, <2>4
  <1>2. QED
    BY <1>1, Invariance, PTL DEF Spec, PromptNotReplaced

-----------------------------------------------------------------------------
(* Refinement *)

AskingNow == {c \in Connections : IsPending(c)}

(* What the effects do to the abstract screen. *)
LEMMA EffectOnScreen ==
    ASSUME IInv, Effect, allowed' = allowed
    PROVE  [Screen!Next]_(Screen!vars)
  <1> USE DEF Screen!Next, Screen!vars
  <1>1. CASE UNCHANGED <<pending, active>>
    BY <1>1 DEF IsPending
  <1>2. ASSUME NEW c \in Connections, NEW n \in Names, Asked(c, n)
        PROVE  [Screen!Next]_(Screen!vars)
    <2>1. AskingNow \subseteq {c} /\ active.conn \in {NoConn, c}
      BY <1>2 DEF Asked, Busy, AskingNow, IsActive, OwnsSession
    <2>2. AskingNow' = {c}
      BY <1>2, <2>1, NoNameAssumption DEF Asked, AskingNow, IsPending, IInv, TypeOK
    <2>3. Screen!Ask(c)
      BY <1>2, <2>1, <2>2 DEF Screen!Ask, Asked, AskingNow
    <2>4. QED
      BY <2>3
  <1>3. ASSUME NEW c \in Connections, Fed(c)
        PROVE  [Screen!Next]_(Screen!vars)
    BY <1>3 DEF Fed, IsPending
  <1>4. ASSUME NEW c \in Connections, Admitted(c)
        PROVE  [Screen!Next]_(Screen!vars)
    <2>1. AskingNow' = AskingNow \ {c}
      BY <1>4 DEF Admitted, AskingNow, IsPending, IInv, TypeOK
    <2>2. Screen!Admit(c)
      BY <1>4, <2>1 DEF Screen!Admit, Admitted, AskingNow
    <2>3. QED
      BY <2>2
  <1>5. CASE Ended
    <2>1. AskingNow' \subseteq AskingNow
      BY <1>5 DEF Ended, OnlyDropsRequests, AskingNow, IsPending
    <2>2. Screen!Finish
      BY <1>5, <2>1 DEF Screen!Finish, Ended, AskingNow, IsActive, NoSession
    <2>3. QED
      BY <2>2
  <1>6. CASE Dropped
    <2>1. AskingNow' \subseteq AskingNow
      BY <1>6 DEF Dropped, OnlyDropsRequests, AskingNow, IsPending
    <2>2. Screen!Withdraw
      BY <1>6, <2>1 DEF Screen!Withdraw, Dropped, AskingNow
    <2>3. QED
      BY <2>2
  <1>7. QED
    BY <1>1, <1>2, <1>3, <1>4, <1>5, <1>6 DEF Effect, session, Framed, Streams

(* A step that is not a click leaves the granted connections alone, and a  *)
(* click changes nothing else of the abstract screen.                      *)
LEMMA ClickOnScreen ==
    ASSUME IInv, NEW accept \in BOOLEAN, Decide(accept)
    PROVE  [Screen!Next]_(Screen!vars)
  <1>1. shown.conn \in Connections
    BY DEF IInv, TypeOK, Decide, Status, Waiting, Undiscoverable, Failed
  <1>2. UNCHANGED <<pending, active>>
          /\ (allowed' = allowed \/ allowed' = allowed \cup {shown.conn})
    BY DEF Decide, session
  <1>3. CASE allowed' = allowed
    BY <1>2, <1>3 DEF Screen!vars, IsPending
  <1>4. CASE allowed' = allowed \cup {shown.conn}
    <2>1. Screen!Grant(shown.conn)
      BY <1>2, <1>4 DEF Screen!Grant, IsPending
    <2>2. QED
      BY <1>1, <2>1 DEF Screen!Next
  <1>5. QED
    BY <1>2, <1>3, <1>4

LEMMA AllowedOnlyByClick ==
    ASSUME [Next]_vars, ~ \E accept \in BOOLEAN : Decide(accept)
    PROVE  allowed' = allowed
  BY DEF Next, vars, Window, Redraw, Senders, Connect, Deliver, LoseReplies,
     Disconnect, Media, StoreFrame, PostEvent, Loop, HandleMessage, RejectUnsuitable,
     HandleSessionRequest, HandleOffer, HandleIceCandidate, HandlePing, HandleSessionEnd,
     HandleOther, Receive, HandleDecision, HandleWebRtcEvent, DropDeadConnections,
     environment

(* The session loop implements ConsentScreen: one owner of the screen at a *)
(* time, admitted from the one request that waits and that the user        *)
(* allowed.                                                                *)
THEOREM Refinement == Spec => ImplementsConsentScreen
  <1>1. Init => Screen!Init
    BY DEF Init, Screen!Init, NoSession, IsPending
  <1>2. IInv /\ [Next]_vars => [Screen!Next]_(Screen!vars)
    <2> SUFFICES ASSUME IInv, [Next]_vars
                 PROVE  [Screen!Next]_(Screen!vars)
      OBVIOUS
    <2>1. CASE \E accept \in BOOLEAN : Decide(accept)
      BY <2>1, ClickOnScreen
    <2>2. CASE ~ \E accept \in BOOLEAN : Decide(accept)
      <3>1. Effect /\ allowed' = allowed
        BY <2>2, StepEffect, AllowedOnlyByClick DEF IInv
      <3>2. QED
        BY <3>1, EffectOnScreen
    <2>3. QED
      BY <2>1, <2>2
  <1>3. QED
    BY <1>1, <1>2, Invariance, PTL DEF Spec, ImplementsConsentScreen, Screen!Spec
=============================================================================
