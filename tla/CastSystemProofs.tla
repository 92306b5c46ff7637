--------------------------- MODULE CastSystemProofs ---------------------------
(***************************************************************************)
(* Theorems about CastSystem: the receiver of a whole cast behaves as      *)
(* ReceiverSession says, and the promises that hold end to end.            *)
(***************************************************************************)
EXTENDS CastSystem, ReceiverSessionProofs

-----------------------------------------------------------------------------
(* Facts about the queues *)

LEMMA TailEntries ==
    ASSUME NEW S, NEW s \in Seq(S), s # <<>>
    PROVE  /\ Tail(s) \in Seq(S) /\ Head(s) \in S /\ Head(s) = s[1]
           /\ Len(Tail(s)) = Len(s) - 1 /\ Len(s) \in Nat \ {0}
           /\ \A i \in 1..Len(Tail(s)) : Tail(s)[i] = s[i + 1]
  BY HeadTailProperties

LEMMA PrefixEntries ==
    ASSUME NEW S, NEW s \in Seq(S), NEW k \in 0..Len(s)
    PROVE  /\ SubSeq(s, 1, k) \in Seq(S) /\ Len(SubSeq(s, 1, k)) = k
           /\ \A i \in 1..k : SubSeq(s, 1, k)[i] = s[i]
  <1>1. Len(s) \in Nat /\ k \in Nat
    BY LenProperties
  <1>2. \A i \in 1..k : s[i] \in S
    BY <1>1, ElementOfSeq
  <1>3. QED
    BY <1>1, <1>2, SubSeqProperties

LEMMA AppendEntries ==
    ASSUME NEW S, NEW s \in Seq(S), NEW e \in S
    PROVE  /\ Append(s, e) \in Seq(S) /\ Len(Append(s, e)) = Len(s) + 1
           /\ Len(s) \in Nat
           /\ Append(s, e)[Len(s) + 1] = e
           /\ \A i \in 1..Len(s) : Append(s, e)[i] = s[i]
  BY AppendProperties

-----------------------------------------------------------------------------
(* Every step of a cast is a step of ReceiverSession or leaves its         *)
(* variables alone.                                                        *)

LEMMA CloseIsDisconnect ==
    ASSUME NEW c \in Connections, Close(c)
    PROVE  Next
  BY DEF Close, Next, Senders

LEMMA TransmitIsDeliver ==
    ASSUME CastTypeOK, NEW c \in Connections, Transmit(c)
    PROVE  Next
  <1>1. Head(up[c]) \in SenderMessage
    BY TailEntries DEF CastTypeOK, Transmit
  <1>2. Deliver(Head(up[c])) /\ Head(up[c]) \in Message /\ Head(up[c]).type \in Sendable
    BY <1>1, SendableAssumption DEF Transmit, SenderMessage
  <1>3. QED
    BY <1>2 DEF Next, Senders

LEMMA StepOfReceiver ==
    ASSUME CastTypeOK, [CastNext]_castVars
    PROVE  [Next]_vars
  <1>1. CASE Receiver
    BY <1>1 DEF Receiver, AtReceiver, Next
  <1>2. CASE UNCHANGED castVars
    BY <1>2 DEF castVars
  <1>3. ASSUME NEW c \in Connections,
               \/ StartCast(c) \/ PressStop(c) \/ CastTask(c)
               \/ SendOffer(c) \/ SendIceCandidate(c) \/ SendIceComplete(c)
               \/ LoseMedia(c) \/ HangUp(c)
        PROVE  [Next]_vars
    <2>1. CASE StartCast(c)
      BY <2>1 DEF StartCast, Next, Senders
    <2>2. CASE ~StartCast(c)
      BY <1>3, <2>2 DEF PressStop, CastTask, AwaitAccept, StopAsking, StartPipeline, StopCast,
         DriveSession, EndCast, SendOffer, SendIceCandidate, SendIceComplete, LoseMedia, HangUp
    <2>3. QED
      BY <2>1, <2>2
  <1>4. ASSUME NEW c \in Connections, Transmit(c)
        PROVE  [Next]_vars
    BY <1>4, TransmitIsDeliver
  <1>5. ASSUME NEW c \in Connections, CloseHungUp(c) \/ CloseIdle(c) \/ BreakConnection(c)
        PROVE  [Next]_vars
    BY <1>5, CloseIsDisconnect DEF CloseHungUp, CloseIdle, BreakConnection
  <1>6. ASSUME NEW c \in Connections, BreakReplies(c)
        PROVE  [Next]_vars
    BY <1>6 DEF BreakReplies, Next, Senders
  <1>7. QED
    BY <1>1, <1>2, <1>3, <1>4, <1>5, <1>6 DEF CastNext

-----------------------------------------------------------------------------
(* Type correctness *)

LEMMA CastInitType == CastInit => CastTypeOK
  BY InitType, EmptySeq DEF CastInit, CastTypeOK, Phases

LEMMA SaysType ==
    ASSUME NEW c \in Connections, NEW type \in {"SdpOffer", "IceCandidate", "Other", "SessionEnd"}
    PROVE  Says(c, type) \in SenderMessage
  BY DEF Says, SenderMessage, SenderTypes, Message, Asking, Unsuitable, Plain

LEMMA RequestType ==
    ASSUME NEW c \in Connections, NEW n \in Names
    PROVE  <<[type |-> "SessionRequest", conn |-> c, name |-> n]>> \in Seq(SenderMessage)
  <1>1. [type |-> "SessionRequest", conn |-> c, name |-> n] \in SenderMessage
    BY DEF SenderMessage, SenderTypes, Message, Asking
  <1>2. QED
    BY <1>1

LEMMA QueueType ==
    ASSUME CastTypeOK, NEW c \in Connections,
           NEW type \in {"SdpOffer", "IceCandidate", "Other", "SessionEnd"}, Queue(c, type)
    PROVE  up' \in [Connections -> Seq(SenderMessage)]
  <1>1. CASE UNCHANGED up
    BY <1>1 DEF CastTypeOK
  <1>2. CASE up' = [up EXCEPT ![c] = Append(@, Says(c, type))]
    <2>1. Append(up[c], Says(c, type)) \in Seq(SenderMessage)
      BY SaysType, AppendEntries DEF CastTypeOK
    <2>2. QED
      BY <1>2, <2>1 DEF CastTypeOK
  <1>3. QED
    BY <1>1, <1>2 DEF Queue

LEMMA TakeReplyType ==
    ASSUME CastTypeOK, NEW c \in Connections, TakeReply(c)
    PROVE  down' \in [Connections -> Seq(Replies)]
  BY TailEntries DEF CastTypeOK, TakeReply

LEMMA LoseUnwrittenType ==
    ASSUME CastTypeOK, NEW c \in Connections, LoseUnwritten(c)
    PROVE  down' \in [Connections -> Seq(Replies)]
  BY PrefixEntries DEF CastTypeOK, LoseUnwritten

LEMMA RouteType ==
    ASSUME CastTypeOK, TypeOK', Route
    PROVE  down' \in [Connections -> Seq(Replies)] /\ missed' \in SUBSET Connections
  <1>1. sent'.to \in Connections \cup {NoConn} /\ sent'.type \in Replies
    BY DEF TypeOK, Reply
  <1>2. CASE Replied
    <2>1. sent'.to \in Connections
      BY <1>1, <1>2 DEF Replied
    <2>2. Append(down[sent'.to], sent'.type) \in Seq(Replies)
      BY <1>1, <2>1, AppendEntries DEF CastTypeOK
    <2>3. QED
      BY <1>2, <2>1, <2>2 DEF Route, CastTypeOK
  <1>3. QED
    BY <1>2 DEF Route, CastTypeOK

LEMMA CastTaskType ==
    ASSUME CastTypeOK, NEW c \in Connections,
           \/ StartCast(c) \/ PressStop(c) \/ CastTask(c)
           \/ SendOffer(c) \/ SendIceCandidate(c) \/ SendIceComplete(c)
           \/ LoseMedia(c) \/ HangUp(c)
    PROVE  /\ phase' \in [Connections -> Phases] /\ stop' \in [Connections -> BOOLEAN]
           /\ up' \in [Connections -> Seq(SenderMessage)]
           /\ down' \in [Connections -> Seq(Replies)]
           /\ hungUp' \in SUBSET Connections /\ missed' \in SUBSET Connections
  <1> USE DEF CastTypeOK, Goto, Phases, InSession
  <1>1. CASE StartCast(c)
    <2>1. ASSUME NEW n \in Names
          PROVE  <<[type |-> "SessionRequest", conn |-> c, name |-> n]>> \in Seq(SenderMessage)
      BY RequestType
    <2>2. up' \in [Connections -> Seq(SenderMessage)]
      BY <1>1, <2>1 DEF StartCast, wires
    <2>3. QED
      BY <1>1, <2>2 DEF StartCast, wires
  <1>2. CASE PressStop(c) \/ StopAsking(c) \/ StartPipeline(c) \/ StopCast(c) \/ LoseMedia(c)
    BY <1>2 DEF PressStop, StopAsking, StartPipeline, StopCast, LoseMedia, wires
  <1>3. CASE AwaitAccept(c) \/ DriveSession(c)
    <2>1. down' \in [Connections -> Seq(Replies)]
      BY <1>3, TakeReplyType DEF AwaitAccept, DriveSession
    <2>2. QED
      BY <1>3, <2>1 DEF AwaitAccept, DriveSession
  <1>4. CASE SendOffer(c) \/ SendIceCandidate(c) \/ SendIceComplete(c) \/ EndCast(c)
    <2>1. up' \in [Connections -> Seq(SenderMessage)]
      BY <1>4, QueueType DEF SendOffer, SendIceCandidate, SendIceComplete, EndCast
    <2>2. QED
      BY <1>4, <2>1 DEF SendOffer, SendIceCandidate, SendIceComplete, EndCast
  <1>5. CASE HangUp(c)
    BY <1>5, TakeReplyType DEF HangUp
  <1>6. QED
    BY <1>1, <1>2, <1>3, <1>4, <1>5 DEF CastTask

LEMMA CastNextType == CastTypeOK /\ [CastNext]_castVars => CastTypeOK'
  <1> SUFFICES ASSUME CastTypeOK, [CastNext]_castVars
               PROVE  CastTypeOK'
    OBVIOUS
  <1>1. TypeOK'
    BY StepOfReceiver, NextType DEF CastTypeOK
  <1>2. CASE Receiver
    BY <1>1, <1>2, RouteType DEF Receiver, AtReceiver, CastTypeOK
  <1>3. CASE UNCHANGED castVars
    BY <1>1, <1>3 DEF castVars, CastTypeOK
  <1>4. ASSUME NEW c \in Connections,
               \/ StartCast(c) \/ PressStop(c) \/ CastTask(c)
               \/ SendOffer(c) \/ SendIceCandidate(c) \/ SendIceComplete(c)
               \/ LoseMedia(c) \/ HangUp(c)
        PROVE  CastTypeOK'
    BY <1>1, <1>4, CastTaskType DEF CastTypeOK
  <1>5. ASSUME NEW c \in Connections, Transmit(c)
        PROVE  CastTypeOK'
    BY <1>1, <1>5, TailEntries DEF CastTypeOK, Transmit
  <1>6. ASSUME NEW c \in Connections, Close(c)
        PROVE  CastTypeOK'
    <2>1. up' \in [Connections -> Seq(SenderMessage)]
      BY <1>6, EmptySeq DEF Close, CastTypeOK
    <2>2. QED
      BY <1>1, <1>6, <2>1, LoseUnwrittenType DEF CastTypeOK, Close
  <1>7. ASSUME NEW c \in Connections, BreakReplies(c)
        PROVE  CastTypeOK'
    BY <1>1, <1>7, LoseUnwrittenType DEF CastTypeOK, BreakReplies
  <1>8. QED
    BY <1>2, <1>3, <1>4, <1>5, <1>6, <1>7
       DEF CastNext, CloseHungUp, CloseIdle, BreakConnection

(* Every reachable state of a cast is well typed: the casting task sends   *)
(* only the messages the receiver knows, and replies stay replies.         *)
THEOREM CastTypeCorrect == CastSpec => []CastTypeOK
  BY CastInitType, CastNextType, PTL DEF CastSpec

(* The senders of this repository are senders of ReceiverSession: all that *)
(* is proved of the receiver against arbitrary senders holds of a cast.    *)
THEOREM ReceiverOfCast == CastSpec => Spec
  <1>1. CastInit => Init
    BY DEF CastInit
  <1>2. CastTypeOK /\ [CastNext]_castVars => [Next]_vars
    BY StepOfReceiver
  <1>3. QED
    BY <1>1, <1>2, CastTypeCorrect, PTL DEF CastSpec, Spec

-----------------------------------------------------------------------------
(* The promises that hold end to end *)

(* What the loop sends: SessionAccept to a connection that was allowed and *)
(* now owns the session, SessionEnd to the owner that loses it.            *)
LEMMA AcceptSent ==
    ASSUME IInv, Loop, sent'.type = "SessionAccept"
    PROVE  sent'.to \in allowed /\ active'.conn = sent'.to
  <1> USE DEF Send, SendNothing, Silent
  <1>1. ~HandleMessage
    BY DEF HandleMessage, RejectUnsuitable, HandleSessionRequest, HandleOffer,
       HandleIceCandidate, HandlePing, HandleSessionEnd, HandleOther, TearDown, Fail, EndSession
  <1>2. ~HandleWebRtcEvent /\ ~DropDeadConnections
    BY DEF HandleWebRtcEvent, DropDeadConnections, TearDown, Fail, EndSession
  <1>3. HandleDecision
    BY <1>1, <1>2 DEF Loop
  <1>4. /\ decisions # <<>> /\ decisions \in Seq(Decision)
        /\ Head(decisions).accept /\ sent'.to = Head(decisions).conn
        /\ active'.conn = sent'.to
    BY <1>3 DEF HandleDecision, IInv, TypeOK
  <1>5. Head(decisions) = decisions[1] /\ 1 \in 1..Len(decisions)
    BY <1>4, TailEntries
  <1>6. QED
    BY <1>4, <1>5 DEF IInv, AnswersAreAllowed

LEMMA LossSent ==
    ASSUME IInv, Loop, NEW c \in Connections, active.conn = c, active'.conn # c
    PROVE  sent'.to = c /\ sent'.type = "SessionEnd"
  <1>1. IsActive /\ TypeOK
    BY NoConnAssumption DEF IsActive, IInv
  <1>2. ASSUME NEW next, EndSession(next)
        PROVE  sent'.to = c /\ sent'.type = "SessionEnd"
    BY <1>1, <1>2 DEF EndSession, Send
  <1>3. CASE HandleMessage
    <2>1. CASE HandleOffer \/ HandleIceCandidate
      <3>1. active \in [conn : Connections, name : Names, media : BOOLEAN,
                        fed : SUBSET Connections]
        BY <1>1 DEF TypeOK, Session, NoSession, IsActive
      <3>2. QED
        BY <1>2, <2>1, <3>1 DEF HandleOffer, HandleIceCandidate, Fail
    <2>2. CASE HandleSessionEnd
      BY <1>2, <2>2 DEF HandleSessionEnd, TearDown
    <2>3. QED
      BY <1>3, <2>1, <2>2 DEF HandleMessage, RejectUnsuitable, HandleSessionRequest,
         HandlePing, HandleOther, session
  <1>4. CASE HandleDecision
    <2>1. Head(decisions) \in Decision
      BY <1>1, <1>4, QueueHead DEF HandleDecision, TypeOK
    <2>2. Head(decisions).conn \in Connections
      BY <2>1 DEF Decision
    <2>3. IsPending(Head(decisions).conn) /\ active'.conn = Head(decisions).conn
      BY <1>4 DEF HandleDecision, session
    <2>4. QED
      BY <1>1, <2>2, <2>3 DEF IInv, OneAtATime
  <1>5. CASE HandleWebRtcEvent \/ DropDeadConnections
    BY <1>2, <1>5 DEF HandleWebRtcEvent, DropDeadConnections, TearDown, Fail
  <1>6. QED
    BY <1>3, <1>4, <1>5 DEF Loop

LEMMA LoopEnvironment ==
    ASSUME Loop
    PROVE  UNCHANGED <<link, allowed>>
  BY DEF Loop, HandleMessage, RejectUnsuitable, HandleSessionRequest, HandleOffer,
     HandleIceCandidate, HandlePing, HandleSessionEnd, HandleOther, Receive,
     HandleDecision, HandleWebRtcEvent, DropDeadConnections, environment

LEMMA WindowAndMedia ==
    ASSUME Window \/ Media
    PROVE  /\ UNCHANGED <<link, active>>
           /\ allowed \subseteq allowed'
           /\ sent' = Silent
  BY DEF Window, Redraw, Decide, Media, StoreFrame, PostEvent, SendNothing, session,
     environment

(* A step of the receiver, as the casting tasks see it. *)
LEMMA ReceiverStep ==
    ASSUME IInv, Receiver
    PROVE  /\ UNCHANGED <<link, phase>>
           /\ allowed \subseteq allowed'
           /\ sent'.type = "SessionAccept" => sent'.to \in allowed' /\ active'.conn = sent'.to
           /\ \A c \in Connections :
                 active.conn = c /\ active'.conn # c => sent'.to = c /\ sent'.type = "SessionEnd"
           /\ Route
  <1>1. CASE AtReceiver(Loop)
    BY <1>1, AcceptSent, LossSent, LoopEnvironment DEF AtReceiver
  <1>2. CASE AtReceiver(Window) \/ AtReceiver(Media)
    BY <1>2, WindowAndMedia DEF AtReceiver, Silent
  <1>3. QED
    BY <1>1, <1>2 DEF Receiver

-----------------------------------------------------------------------------
(* What a step outside the receiver can do to the replies of the casts and *)
(* to what they speak of.                                                  *)

Unheard ==
    /\ UNCHANGED <<link, active, allowed, down, missed>>
    /\ \A c \in Connections :
          \/ phase'[c] = phase[c]
          \/ phase'[c] = "done"
          \/ Casting(c)

Opened(c) ==
    /\ link[c] = "new"
    /\ link' = [link EXCEPT ![c] = "open"]
    /\ phase' = [phase EXCEPT ![c] = "asking"]
    /\ UNCHANGED <<active, allowed, down, missed>>

Took(c) ==
    /\ TakeReply(c)
    /\ UNCHANGED <<link, active, allowed, missed>>
    /\ \/ UNCHANGED phase /\ (Casting(c) => Head(down[c]) # "SessionEnd")
       \/ phase' = [phase EXCEPT ![c] = "starting"] /\ Head(down[c]) = "SessionAccept"
       \/ phase' = [phase EXCEPT ![c] = "ending"]
       \/ phase' = [phase EXCEPT ![c] = "done"]

Shut(c) ==
    /\ link[c] # "new"
    /\ \E l \in {"deaf", "closed"} : link' = [link EXCEPT ![c] = l]
    /\ LoseUnwritten(c)
    /\ UNCHANGED <<active, allowed, missed, phase>>

LEMMA TaskStep ==
    ASSUME CastTypeOK, NewIsQuiet, NEW c \in Connections,
           \/ StartCast(c) \/ PressStop(c) \/ CastTask(c)
           \/ SendOffer(c) \/ SendIceCandidate(c) \/ SendIceComplete(c)
           \/ LoseMedia(c) \/ HangUp(c)
    PROVE  Unheard \/ Opened(c) \/ Took(c)
  <1> USE DEF Goto, wires, vars, Casting, InSession
  <1>1. phase \in [Connections -> Phases]
    BY DEF CastTypeOK
  <1>2. CASE StartCast(c)
    BY <1>1, <1>2 DEF StartCast, Connect, Unheard, Opened, session
  <1>3. CASE PressStop(c) \/ StopAsking(c) \/ StartPipeline(c) \/ StopCast(c) \/ LoseMedia(c)
    BY <1>1, <1>3
       DEF PressStop, StopAsking, StartPipeline, StopCast, LoseMedia, Waits, Unheard
  <1>4. CASE SendOffer(c) \/ SendIceCandidate(c) \/ SendIceComplete(c) \/ EndCast(c)
    BY <1>1, <1>4
       DEF SendOffer, SendIceCandidate, SendIceComplete, EndCast, Waits, Unheard
  <1>5. CASE AwaitAccept(c)
    BY <1>1, <1>5 DEF AwaitAccept, Waits, Unheard, Took
  <1>6. CASE DriveSession(c)
    BY <1>1, <1>6 DEF DriveSession, Waits, Unheard, Took
  <1>7. CASE HangUp(c)
    BY <1>1, <1>7 DEF HangUp, Took
  <1>8. QED
    BY <1>2, <1>3, <1>4, <1>5, <1>6, <1>7 DEF CastTask

LEMMA CastStep ==
    ASSUME CastTypeOK, NewIsQuiet, [CastNext]_castVars
    PROVE  Receiver \/ Unheard \/ \E c \in Connections : Opened(c) \/ Took(c) \/ Shut(c)
  <1>1. ASSUME NEW c \in Connections, Transmit(c)
        PROVE  Unheard
    BY <1>1 DEF Transmit, Deliver, Unheard, session, environment
  <1>2. ASSUME NEW c \in Connections, Close(c) \/ BreakReplies(c)
        PROVE  Shut(c)
    BY <1>2 DEF Close, BreakReplies, Disconnect, LoseReplies, Shut, session
  <1>3. CASE UNCHANGED castVars
    BY <1>3 DEF castVars, vars, Unheard
  <1>4. ASSUME NEW c \in Connections,
               CloseHungUp(c) \/ CloseIdle(c) \/ BreakConnection(c) \/ BreakReplies(c)
        PROVE  Shut(c)
    BY <1>2, <1>4 DEF CloseHungUp, CloseIdle, BreakConnection
  <1>5. QED
    BY <1>1, <1>3, <1>4, TaskStep DEF CastNext

-----------------------------------------------------------------------------
(* Consent, end to end *)

(* Taking a reply or losing some tells a cast nothing new. *)
LEMMA NothingNewTold ==
    ASSUME CastTypeOK, NEW c \in Connections, TakeReply(c) \/ LoseUnwritten(c),
           NEW d \in Connections, NEW type, Told(d, type)'
    PROVE  Told(d, type)
  <1>1. PICK i \in 1..Len(down'[d]) : down'[d][i] = type
    BY DEF Told
  <1>2. down \in [Connections -> Seq(Replies)] /\ Len(down[d]) \in Nat
    BY LenProperties DEF CastTypeOK
  <1>3. CASE d # c
    BY <1>1, <1>2, <1>3 DEF Told, TakeReply, LoseUnwritten
  <1>4. CASE d = c /\ TakeReply(c)
    <2>1. down'[d] = Tail(down[d]) /\ down[d] # <<>>
      BY <1>2, <1>4 DEF TakeReply
    <2>2. down[d][i + 1] = type /\ i + 1 \in 1..Len(down[d])
      BY <1>1, <1>2, <2>1, TailEntries
    <2>3. QED
      BY <2>2 DEF Told
  <1>5. CASE d = c /\ LoseUnwritten(c)
    <2>1. PICK k \in 0..Len(down[d]) : down'[d] = SubSeq(down[d], 1, k)
      BY <1>2, <1>5 DEF LoseUnwritten
    <2>2. down[d][i] = type /\ i \in 1..Len(down[d])
      BY <1>1, <1>2, <2>1, PrefixEntries
    <2>3. QED
      BY <2>2 DEF Told
  <1>6. QED
    BY <1>3, <1>4, <1>5

(* What a cast is told anew is what the receiver just sent it. *)
LEMMA NewlyTold ==
    ASSUME CastTypeOK, TypeOK', Route, NEW d \in Connections, NEW type, Told(d, type)'
    PROVE  Told(d, type) \/ (sent'.to = d /\ sent'.type = type)
  <1>1. PICK i \in 1..Len(down'[d]) : down'[d][i] = type
    BY DEF Told
  <1>2. down \in [Connections -> Seq(Replies)] /\ Len(down[d]) \in Nat /\ sent'.type \in Replies
    BY LenProperties DEF CastTypeOK, TypeOK, Reply
  <1>3. CASE down'[d] = down[d]
    BY <1>1, <1>3 DEF Told
  <1>4. CASE down'[d] = Append(down[d], sent'.type) /\ sent'.to = d
    BY <1>1, <1>2, <1>4, AppendEntries DEF Told
  <1>5. QED
    BY <1>2, <1>3, <1>4 DEF Route

ConsentInv == CastTypeOK /\ IInv /\ NewIsQuiet /\ AcceptsWereAllowed /\ CastNeedsAllow

LEMMA CastInitConsent == CastInit => ConsentInv
  <1> SUFFICES ASSUME CastInit
               PROVE  ConsentInv
    OBVIOUS
  <1>1. CastTypeOK /\ IInv
    BY CastInitType, InitIInv DEF CastInit
  <1>2. NewIsQuiet /\ AcceptsWereAllowed /\ CastNeedsAllow
    BY DEF CastInit, NewIsQuiet, AcceptsWereAllowed, CastNeedsAllow, Told, Casting, InSession
  <1>3. QED
    BY <1>1, <1>2 DEF ConsentInv

LEMMA NextNewIsQuiet ==
    ASSUME ConsentInv, [CastNext]_castVars
    PROVE  NewIsQuiet'
  <1> USE DEF ConsentInv, NewIsQuiet
  <1>1. link \in [Connections -> {"new", "open", "deaf", "closed"}]
        /\ phase \in [Connections -> Phases] /\ down \in [Connections -> Seq(Replies)]
    BY DEF CastTypeOK, TypeOK
  <1>2. CASE Receiver
    <2>1. UNCHANGED <<link, phase>> /\ Route
      BY <1>2, ReceiverStep
    <2>2. \A c \in Connections : link[c] = "new" => down'[c] = down[c]
      BY <1>1, <2>1 DEF Route, Replied, IsConnected
    <2>3. QED
      BY <2>1, <2>2
  <1>3. CASE Unheard
    BY <1>1, <1>3 DEF Unheard, Casting, InSession
  <1>4. ASSUME NEW c \in Connections, Opened(c)
        PROVE  NewIsQuiet'
    BY <1>1, <1>4 DEF Opened
  <1>5. ASSUME NEW c \in Connections, Took(c)
        PROVE  NewIsQuiet'
    BY <1>1, <1>5 DEF Took, TakeReply
  <1>6. ASSUME NEW c \in Connections, Shut(c)
        PROVE  NewIsQuiet'
    BY <1>1, <1>6 DEF Shut, LoseUnwritten
  <1>7. QED
    BY <1>2, <1>3, <1>4, <1>5, <1>6, CastStep

LEMMA NextConsentInv == ConsentInv /\ [CastNext]_castVars => ConsentInv'
  <1> SUFFICES ASSUME ConsentInv, [CastNext]_castVars
               PROVE  ConsentInv'
    OBVIOUS
  <1>1. CastTypeOK' /\ IInv' /\ NewIsQuiet' /\ TypeOK'
    BY CastNextType, StepOfReceiver, NextIInv, NextNewIsQuiet DEF ConsentInv, CastTypeOK
  <1>2. phase \in [Connections -> Phases] /\ down \in [Connections -> Seq(Replies)]
    BY DEF ConsentInv, CastTypeOK
  <1>3. CASE Receiver
    <2>1. AcceptsWereAllowed'
      BY <1>1, <1>3, ReceiverStep, NewlyTold DEF ConsentInv, AcceptsWereAllowed
    <2>2. CastNeedsAllow'
      BY <1>3, ReceiverStep DEF ConsentInv, CastNeedsAllow, Casting
    <2>3. QED
      BY <1>1, <2>1, <2>2 DEF ConsentInv
  <1>4. CASE Unheard
    BY <1>1, <1>4
       DEF Unheard, ConsentInv, AcceptsWereAllowed, Told, CastNeedsAllow, Casting, InSession
  <1>5. ASSUME NEW c \in Connections, Opened(c)
        PROVE  ConsentInv'
    BY <1>1, <1>2, <1>5
       DEF Opened, ConsentInv, AcceptsWereAllowed, Told, CastNeedsAllow, Casting, InSession
  <1>6. ASSUME NEW c \in Connections, Took(c)
        PROVE  ConsentInv'
    <2>1. AcceptsWereAllowed'
      BY <1>6, NothingNewTold DEF Took, ConsentInv, AcceptsWereAllowed
    <2>2. Head(down[c]) = "SessionAccept" => Told(c, "SessionAccept")
      BY <1>2, <1>6, TailEntries DEF Took, TakeReply, Told
    <2>3. CastNeedsAllow'
      BY <1>2, <1>6, <2>2
         DEF Took, ConsentInv, AcceptsWereAllowed, CastNeedsAllow, Casting, InSession
    <2>4. QED
      BY <1>1, <2>1, <2>3 DEF ConsentInv
  <1>7. ASSUME NEW c \in Connections, Shut(c)
        PROVE  ConsentInv'
    <2>1. AcceptsWereAllowed'
      BY <1>7, NothingNewTold DEF Shut, ConsentInv, AcceptsWereAllowed
    <2>2. CastNeedsAllow'
      BY <1>7 DEF Shut, ConsentInv, CastNeedsAllow, Casting
    <2>3. QED
      BY <1>1, <2>1, <2>2 DEF ConsentInv
  <1>8. QED
    BY <1>3, <1>4, <1>5, <1>6, <1>7, CastStep DEF ConsentInv

(* No sender builds its pipeline or sends an offer before the user of the  *)
(* receiver allowed its cast, over connections that lose, drop and delay.  *)
THEOREM EndToEndConsent == CastSpec => []CastNeedsAllow
  <1>1. ConsentInv => CastNeedsAllow
    BY DEF ConsentInv
  <1>2. QED
    BY <1>1, CastInitConsent, NextConsentInv, PTL DEF CastSpec

-----------------------------------------------------------------------------
(* Agreement of the two ends *)

AgreementInv == ConsentInv /\ AcceptsAreCurrent /\ CasterOwnsSession

(* Step of the receiver: a connection that is told nothing keeps what it   *)
(* has, and one that loses the session is told so.                         *)
LEMMA ReceiverAgreement ==
    ASSUME AgreementInv, Receiver, TypeOK'
    PROVE  AcceptsAreCurrent' /\ CasterOwnsSession'
  <1>1. /\ UNCHANGED <<link, phase>> /\ Route
        /\ sent'.type = "SessionAccept" => active'.conn = sent'.to
        /\ \A c \in Connections :
              active.conn = c /\ active'.conn # c => sent'.to = c /\ sent'.type = "SessionEnd"
    BY ReceiverStep DEF AgreementInv, ConsentInv
  <1>2. down \in [Connections -> Seq(Replies)] /\ sent'.type \in Replies
    BY DEF AgreementInv, ConsentInv, CastTypeOK, TypeOK, Reply
  <1>3. SUFFICES ASSUME NEW c \in Connections, IsConnected(c), c \notin missed'
                 PROVE  /\ \A i \in 1..Len(down'[c]) : down'[c][i] = "SessionAccept"
                              => \/ active'.conn = c
                                 \/ \E j \in i + 1..Len(down'[c]) : down'[c][j] = "SessionEnd"
                        /\ Casting(c) => \/ active'.conn = c
                                         \/ \E j \in 1..Len(down'[c]) : down'[c][j] = "SessionEnd"
    BY <1>1 DEF AcceptsAreCurrent, CasterOwnsSession, Casting, Told, IsConnected, OwnsSession
  <1>4. /\ \A i \in 1..Len(down[c]) : down[c][i] = "SessionAccept"
              => \/ active.conn = c
                 \/ \E j \in i + 1..Len(down[c]) : down[c][j] = "SessionEnd"
        /\ Casting(c) => \/ active.conn = c
                         \/ \E j \in 1..Len(down[c]) : down[c][j] = "SessionEnd"
    BY <1>1, <1>3 DEF Route, AgreementInv, AcceptsAreCurrent, CasterOwnsSession, Told, OwnsSession
  <1>5. CASE sent'.to # c
    <2>1. down'[c] = down[c] /\ (active.conn = c => active'.conn = c)
      BY <1>1, <1>2, <1>5 DEF Route
    <2>2. QED
      BY <1>4, <2>1
  <1>6. CASE sent'.to = c
    <2>1. down'[c] = Append(down[c], sent'.type)
      BY <1>1, <1>2, <1>3, <1>6, NoConnAssumption DEF Route, Replied
    <2>2. /\ Len(down'[c]) = Len(down[c]) + 1 /\ Len(down[c]) \in Nat
          /\ down'[c][Len(down[c]) + 1] = sent'.type
          /\ \A i \in 1..Len(down[c]) : down'[c][i] = down[c][i]
      BY <1>2, <2>1, AppendEntries
    <2>3. active.conn = c => active'.conn = c \/ sent'.type = "SessionEnd"
      BY <1>1
    <2>4. ASSUME NEW i \in 1..Len(down'[c]), down'[c][i] = "SessionAccept", active'.conn # c
          PROVE  \E j \in i + 1..Len(down'[c]) : down'[c][j] = "SessionEnd"
      <3>1. i \in 1..Len(down[c]) /\ down[c][i] = "SessionAccept"
        BY <1>1, <1>6, <2>2, <2>4
      <3>2. CASE sent'.type = "SessionEnd"
        <4>1. Len(down[c]) + 1 \in i + 1..Len(down'[c])
          BY <2>2, <3>1
        <4>2. QED
          BY <2>2, <3>2, <4>1
      <3>3. CASE sent'.type # "SessionEnd"
        <4>1. PICK j \in i + 1..Len(down[c]) : down[c][j] = "SessionEnd"
          BY <1>4, <2>3, <2>4, <3>1, <3>3
        <4>2. j \in i + 1..Len(down'[c]) /\ down'[c][j] = "SessionEnd"
          BY <2>2, <3>1, <4>1
        <4>3. QED
          BY <4>2
      <3>4. QED
        BY <3>2, <3>3
    <2>5. ASSUME Casting(c), active'.conn # c
          PROVE  \E j \in 1..Len(down'[c]) : down'[c][j] = "SessionEnd"
      <3>1. CASE sent'.type = "SessionEnd"
        <4>1. Len(down[c]) + 1 \in 1..Len(down'[c])
          BY <2>2
        <4>2. QED
          BY <2>2, <3>1, <4>1
      <3>2. CASE sent'.type # "SessionEnd"
        <4>1. PICK j \in 1..Len(down[c]) : down[c][j] = "SessionEnd"
          BY <1>4, <2>3, <2>5, <3>2
        <4>2. j \in 1..Len(down'[c]) /\ down'[c][j] = "SessionEnd"
          BY <2>2, <4>1
        <4>3. QED
          BY <4>2
      <3>3. QED
        BY <3>1, <3>2
    <2>6. QED
      BY <2>4, <2>5
  <1>7. QED
    BY <1>5, <1>6

(* A cast that takes a reply: a SessionAccept is current, and a SessionEnd *)
(* is not passed over.                                                     *)
LEMMA TookAgreement ==
    ASSUME AgreementInv, NEW c \in Connections, Took(c)
    PROVE  AcceptsAreCurrent' /\ CasterOwnsSession'
  <1> DEFINE s == down[c]
             t == Tail(down[c])
  <1>1. /\ down \in [Connections -> Seq(Replies)] /\ phase \in [Connections -> Phases]
        /\ s # <<>> /\ down' = [down EXCEPT ![c] = t]
    BY DEF AgreementInv, ConsentInv, CastTypeOK, Took, TakeReply
  <1>2. /\ Len(s) \in Nat \ {0} /\ Len(t) = Len(s) - 1 /\ Head(s) = s[1]
        /\ \A i \in 1..Len(t) : t[i] = s[i + 1]
    BY <1>1, TailEntries
  <1>3. \A j \in 2..Len(s) : j - 1 \in 1..Len(t) /\ t[j - 1] = s[j]
    BY <1>2
  <1> HIDE DEF s, t
  <1>4. UNCHANGED <<link, active, missed>>
    BY DEF Took
  <1>5. ASSUME NEW d \in Connections, d # c
        PROVE  down'[d] = down[d] /\ phase'[d] = phase[d]
    BY <1>1, <1>5 DEF Took
  <1>6. down'[c] = t
    BY <1>1
  <1>7. ASSUME IsConnected(c), c \notin missed
        PROVE  /\ \A i \in 1..Len(t) : t[i] = "SessionAccept"
                     => OwnsSession(c) \/ \E j \in i + 1..Len(t) : t[j] = "SessionEnd"
               /\ Casting(c)' => OwnsSession(c) \/ \E j \in 1..Len(t) : t[j] = "SessionEnd"
    <2>1. \A i \in 1..Len(s) : s[i] = "SessionAccept"
             => OwnsSession(c) \/ \E j \in i + 1..Len(s) : s[j] = "SessionEnd"
      BY <1>7 DEF s, AgreementInv, AcceptsAreCurrent
    <2>2. Casting(c) => OwnsSession(c) \/ \E j \in 1..Len(s) : s[j] = "SessionEnd"
      BY <1>7 DEF s, AgreementInv, CasterOwnsSession, Told
    <2>3. ASSUME NEW i \in 1..Len(t), t[i] = "SessionAccept", ~OwnsSession(c)
          PROVE  \E j \in i + 1..Len(t) : t[j] = "SessionEnd"
      <3>1. PICK j \in i + 2..Len(s) : s[j] = "SessionEnd"
        BY <1>2, <2>1, <2>3
      <3>2. j - 1 \in i + 1..Len(t) /\ t[j - 1] = "SessionEnd"
        BY <1>2, <1>3, <3>1
      <3>3. QED
        BY <3>2
    <2>4. ASSUME Casting(c)', ~OwnsSession(c)
          PROVE  \E j \in 1..Len(t) : t[j] = "SessionEnd"
      <3>1. s[1] = "SessionAccept" \/ (Casting(c) /\ s[1] # "SessionEnd")
        BY <1>1, <1>2, <2>4 DEF Took, Casting, InSession, s
      <3>2. PICK j \in 2..Len(s) : s[j] = "SessionEnd"
        BY <1>2, <2>1, <2>2, <2>4, <3>1
      <3>3. QED
        BY <1>3, <3>2
    <2>5. QED
      BY <2>3, <2>4
  <1>8. AcceptsAreCurrent'
    BY <1>4, <1>5, <1>6, <1>7 DEF AgreementInv, AcceptsAreCurrent, IsConnected, OwnsSession
  <1>9. CasterOwnsSession'
    BY <1>4, <1>5, <1>6, <1>7
       DEF AgreementInv, CasterOwnsSession, IsConnected, OwnsSession, Casting, Told
  <1>10. QED
    BY <1>8, <1>9

LEMMA NextAgreementInv == AgreementInv /\ [CastNext]_castVars => AgreementInv'
  <1> SUFFICES ASSUME AgreementInv, [CastNext]_castVars
               PROVE  AgreementInv'
    OBVIOUS
  <1>1. ConsentInv'
    BY NextConsentInv DEF AgreementInv
  <1>2. /\ link \in [Connections -> {"new", "open", "deaf", "closed"}]
        /\ phase \in [Connections -> Phases] /\ down \in [Connections -> Seq(Replies)]
    BY DEF AgreementInv, ConsentInv, CastTypeOK, TypeOK
  <1> USE DEF AcceptsAreCurrent, CasterOwnsSession, Casting, Told, IsConnected, OwnsSession
  <1>3. CASE Receiver
    BY <1>1, <1>3, ReceiverAgreement DEF AgreementInv, ConsentInv, CastTypeOK
  <1>4. CASE Unheard
    BY <1>1, <1>4 DEF AgreementInv, Unheard, InSession
  <1>5. ASSUME NEW c \in Connections, Opened(c)
        PROVE  AgreementInv'
    <2>1. down[c] = <<>> /\ Len(down[c]) = 0
      BY <1>5 DEF Opened, AgreementInv, ConsentInv, NewIsQuiet
    <2>2. QED
      BY <1>1, <1>2, <1>5, <2>1 DEF AgreementInv, Opened, InSession
  <1>6. ASSUME NEW c \in Connections, Took(c)
        PROVE  AgreementInv'
    BY <1>1, <1>6, TookAgreement DEF AgreementInv
  <1>7. ASSUME NEW c \in Connections, Shut(c)
        PROVE  AgreementInv'
    BY <1>1, <1>2, <1>7 DEF AgreementInv, Shut, LoseUnwritten
  <1>8. QED
    BY <1>3, <1>4, <1>5, <1>6, <1>7, CastStep DEF AgreementInv, ConsentInv

LEMMA CastInitAgreement == CastInit => AgreementInv
  BY CastInitConsent
     DEF CastInit, AgreementInv, AcceptsAreCurrent, CasterOwnsSession, Casting, InSession

(* A sender that casts over a working connection on which no reply was     *)
(* dropped owns the receiver's session, or its SessionEnd is on its way.   *)
THEOREM Agreement == CastSpec => []CasterOwnsSession
  <1>1. AgreementInv => CasterOwnsSession
    BY DEF AgreementInv
  <1>2. QED
    BY <1>1, CastInitAgreement, NextAgreementInv, PTL DEF CastSpec

=============================================================================
