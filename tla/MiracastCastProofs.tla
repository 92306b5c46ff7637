-------------------------- MODULE MiracastCastProofs --------------------------
(***************************************************************************)
(* The safety properties of MiracastCast, for every limit of unanswered    *)
(* keep-alives and every buffer.                                           *)
(***************************************************************************)
EXTENDS MiracastCast, SequenceTheorems, TLAPS

(* Which events the session can have sent, read or unread, at each point   *)
(* of the two tasks.                                                       *)
EventsMatch ==
    /\ shutdown <=> task = "done"
    /\ task = "waiting" =>
         /\ sess \notin {"streaming", "over"} => events = <<>>
         /\ sess = "streaming" => events = <<"Ready">>
         /\ sess = "over" => events \in {<<"Ended">>, <<"Ready", "Ended">>}
    /\ task \in {"starting", "streaming"} =>
         /\ sess \in {"streaming", "over"}
         /\ sess = "streaming" => events = <<>>
         /\ sess = "over" => events = <<"Ended">>

(* The session has sent its Ready to a task that is still there. *)
ReadySent ==
    \/ task \in {"starting", "streaming"}
    \/ task = "waiting" /\ events \in {<<"Ready">>, <<"Ready", "Ended">>}

(* What the session acts on, the sink has said. *)
HeardIsSaid ==
    /\ \A k \in 1..Len(inbox) : inbox[k] \in Telling => inbox[k] \in said
    /\ sess = "M7" => "SETUP" \in said
    /\ sess = "streaming" \/ ReadySent => {"SETUP", "PLAY"} \subseteq said

(* The session's count is the number of silent periods, whenever it is     *)
(* about to act on it.                                                     *)
CountIsSilence ==
    /\ sess # "over" /\ inbox # <<>> => quiet = 0
    /\ sess \notin {"streaming", "over"} => unanswered = 0 /\ quiet = 0
    /\ sess = "streaming" /\ inbox = <<>> => quiet = unanswered

(* A session that is over after its Ready ended for a cause, or because    *)
(* the casting task was done with it.                                      *)
OverForCause == sess = "over" /\ ReadySent => Cause

MiracastInv ==
    /\ MiracastTypeOK
    /\ EventsMatch
    /\ HeardIsSaid
    /\ CountIsSilence
    /\ OverForCause

-----------------------------------------------------------------------------
(* The stages of the negotiation, one by one. *)
LEMMA StageFacts ==
    /\ \A i \in 1..7 : Stages[i] \in Negotiating
    /\ Negotiating = {"M1", "M2", "M3", "M4", "M5", "M6", "M7"}
    /\ \A i \in 1..7 : Stages[i] = "M7" => i = 7
    /\ \A i \in 1..7 : i < 7 /\ Stages[i + 1] = "M7" => i = 6
    /\ Expected[6] = "SETUP" /\ Expected[7] = "PLAY"
<1>1. \A i \in 1..7 : Stages[i] \in Negotiating
  BY DEF Negotiating
<1>2. /\ Stages[1] = "M1" /\ Stages[2] = "M2" /\ Stages[3] = "M3" /\ Stages[4] = "M4"
      /\ Stages[5] = "M5" /\ Stages[6] = "M6" /\ Stages[7] = "M7"
  BY DEF Stages
<1>3. Negotiating = {"M1", "M2", "M3", "M4", "M5", "M6", "M7"}
  <2>1. \A i \in 1..7 : i = 1 \/ i = 2 \/ i = 3 \/ i = 4 \/ i = 5 \/ i = 6 \/ i = 7
    OBVIOUS
  <2>. QED  BY <1>2, <2>1 DEF Negotiating
<1>4. \A i \in 1..7 : Stages[i] = "M7" => i = 7
  BY <1>2
<1>5. \A i \in 1..7 : i < 7 /\ Stages[i + 1] = "M7" => i = 6
  BY <1>2
<1>. QED  BY <1>1, <1>3, <1>4, <1>5 DEF Expected

(* What Append, Head and Tail make of the queues of session events. *)
LEMMA EventFacts ==
    /\ Append(<<>>, "Ended") = <<"Ended">>
    /\ Append(<<>>, "Ready") = <<"Ready">>
    /\ Append(<<"Ready">>, "Ended") = <<"Ready", "Ended">>
    /\ Head(<<"Ready">>) = "Ready" /\ Tail(<<"Ready">>) = <<>>
    /\ Head(<<"Ended">>) = "Ended" /\ Tail(<<"Ended">>) = <<>>
    /\ Head(<<"Ready", "Ended">>) = "Ready" /\ Tail(<<"Ready", "Ended">>) = <<"Ended">>
    /\ <<"Ready">> # <<"Ended">> /\ <<"Ready", "Ended">> # <<"Ended">>
    /\ <<"Ready">> # <<>> /\ <<"Ended">> # <<>> /\ <<"Ready", "Ended">> # <<>>
    /\ <<"Ready", "Ended">> # <<"Ready">>
<1>1. Append(<<>>, "Ended") = <<"Ended">> /\ Append(<<>>, "Ready") = <<"Ready">>
  OBVIOUS
<1>2. Append(<<"Ready">>, "Ended") = <<"Ready", "Ended">>
  <2>. DEFINE E == {"Ready", "Ended"}
              s == Append(<<"Ready">>, "Ended")
              t == <<"Ready", "Ended">>
  <2>1. <<"Ready">> \in Seq(E) /\ <<"Ready", "Ended">> \in Seq(E) /\ "Ended" \in E
    OBVIOUS
  <2>2. /\ Append(<<"Ready">>, "Ended") \in Seq(E)
        /\ Len(Append(<<"Ready">>, "Ended")) = 2
        /\ Append(<<"Ready">>, "Ended")[1] = "Ready"
        /\ Append(<<"Ready">>, "Ended")[2] = "Ended"
    BY <2>1
  <2>3. s \in Seq(E) /\ t \in Seq(E) /\ Len(s) = Len(t) /\ \A i \in 1..Len(s) : s[i] = t[i]
    BY <2>1, <2>2
  <2>. HIDE DEF E, s, t
  <2>4. s = t
    BY <2>3, SeqEqual
  <2>. QED  BY <2>4 DEF s, t
<1>3. /\ Head(<<"Ready">>) = "Ready" /\ Head(<<"Ended">>) = "Ended"
      /\ Head(<<"Ready", "Ended">>) = "Ready"
  OBVIOUS
<1>4. Tail(<<"Ready">>) = <<>> /\ Tail(<<"Ended">>) = <<>>
  OBVIOUS
<1>5. Tail(<<"Ready", "Ended">>) = <<"Ended">>
  OBVIOUS
<1>6. <<"Ready">> # <<"Ended">> /\ <<"Ready", "Ended">> # <<"Ended">>
  OBVIOUS
<1>7. <<"Ready">> # <<>> /\ <<"Ended">> # <<>> /\ <<"Ready", "Ended">> # <<>>
  OBVIOUS
<1>8. <<"Ready", "Ended">> # <<"Ready">>
  OBVIOUS
<1>. QED  BY <1>1, <1>2, <1>3, <1>4, <1>5, <1>6, <1>7, <1>8

(* The end of a session keeps the tasks and the events in step, and is an  *)
(* end after a Ready only for a session that streamed.                     *)
LEMMA EndKeepsEvents ==
    ASSUME EventsMatch, sess # "over", EndSession, UNCHANGED runner
    PROVE  EventsMatch' /\ (ReadySent' => sess = "streaming" /\ ReadySent)
BY EventFacts DEF EventsMatch, EndSession, runner, ReadySent

(* The first message that waits has been said, and so have the others. *)
LEMMA HeadIsSaid ==
    ASSUME HeardIsSaid, MiracastTypeOK, inbox # <<>>
    PROVE  /\ Head(inbox) \in Telling => Head(inbox) \in said
           /\ \A k \in 1..Len(Tail(inbox)) :
                Tail(inbox)[k] \in Telling => Tail(inbox)[k] \in said
           /\ Tail(inbox) \in Seq(Messages)
<1>1. inbox \in Seq(Messages)
  BY DEF MiracastTypeOK
<1>2. Head(inbox) = inbox[1] /\ 1 \in 1..Len(inbox)
  BY <1>1
<1>3. /\ Len(Tail(inbox)) = Len(inbox) - 1 /\ Tail(inbox) \in Seq(Messages)
      /\ \A k \in 1..Len(Tail(inbox)) : Tail(inbox)[k] = inbox[k + 1]
  BY <1>1
<1>. QED  BY <1>1, <1>2, <1>3 DEF HeardIsSaid

(* The invariant holds at the start of a cast. *)
LEMMA MiracastStart == Init => MiracastInv
<1>. SUFFICES ASSUME Init
              PROVE  MiracastInv
  OBVIOUS
<1>1. oldGroup \in BOOLEAN
  BY DEF Init
<1>2. MiracastTypeOK
  <2>1. stop \in BOOLEAN /\ shutdown \in BOOLEAN /\ closed \in BOOLEAN /\ gone \in BOOLEAN
    BY DEF Init
  <2>2. /\ unanswered \in 0..MaxUnanswered /\ quiet \in 0..(MaxUnanswered + 1)
        /\ events \in Seq({"Ready", "Ended"}) /\ inbox \in Seq(Messages)
        /\ wfd \in Seq({"GroupFormed", "GroupRemoved", "Error"})
    BY MaxAssumption DEF Init
  <2>. QED  BY <1>1, <2>1, <2>2 DEF Init, MiracastTypeOK, SessionStates, Joining
<1>3. EventsMatch /\ ~ReadySent
  BY EventFacts DEF Init, EventsMatch, ReadySent
<1>4. HeardIsSaid /\ CountIsSilence /\ OverForCause
  BY <1>3 DEF Init, HeardIsSaid, CountIsSilence, OverForCause
<1>. QED  BY <1>2, <1>3, <1>4 DEF MiracastInv

Heard == \A k \in 1..Len(inbox) : inbox[k] \in Telling => inbox[k] \in said

(* A session that ends keeps the invariant, if a session that streamed has *)
(* a cause to end.                                                         *)
LEMMA EndKeepsInv ==
    ASSUME MiracastInv, sess # "over", EndSession, UNCHANGED runner,
           UNCHANGED <<oldGroup, said, closed, gone>>,
           inbox' \in Seq(Messages), Heard',
           quiet' \in 0..(MaxUnanswered + 1), unanswered' \in 0..MaxUnanswered,
           group' \in {"none", "forming", "up"},
           wfd' \in Seq({"GroupFormed", "GroupRemoved", "Error"}),
           sess = "streaming" /\ ReadySent' => Cause'
    PROVE  MiracastInv'
<1>1. EventsMatch' /\ (ReadySent' => sess = "streaming" /\ ReadySent)
  BY EndKeepsEvents DEF MiracastInv
<1>2. MiracastTypeOK'
  <2>1. events' \in Seq({"Ready", "Ended"})
    BY DEF MiracastInv, MiracastTypeOK, EndSession
  <2>2. sess' \in SessionStates /\ guard' \in {"none", "held", "dropped", "released", "failed"}
    BY DEF MiracastInv, MiracastTypeOK, EndSession, SessionStates
  <2>3. /\ task' = task /\ stop' = stop /\ shutdown' = shutdown
        /\ oldGroup' = oldGroup /\ said' = said /\ closed' = closed /\ gone' = gone
    BY DEF runner
  <2>. QED  BY <2>1, <2>2, <2>3 DEF MiracastInv, MiracastTypeOK
<1>3. HeardIsSaid'
  BY <1>1 DEF MiracastInv, HeardIsSaid, EndSession, Heard
<1>4. CountIsSilence'
  BY DEF CountIsSilence, EndSession
<1>5. OverForCause'
  BY <1>1 DEF OverForCause
<1>. QED  BY <1>1, <1>2, <1>3, <1>4, <1>5 DEF MiracastInv

(* A session that goes on to its next state, short of streaming, keeps it. *)
LEMMA StepKeepsInv ==
    ASSUME MiracastInv, sess \notin {"streaming", "over"}, UNCHANGED runner,
           UNCHANGED <<events, unanswered, oldGroup, quiet, said, closed, gone>>,
           sess' \in SessionStates \ {"streaming", "over"},
           sess' = "M7" => "SETUP" \in said,
           guard' \in {guard, "held"},
           inbox' \in Seq(Messages), Heard',
           group' \in {"none", "forming", "up"},
           wfd' \in Seq({"GroupFormed", "GroupRemoved", "Error"})
    PROVE  MiracastInv'
<1>1. /\ task' = task /\ stop' = stop /\ shutdown' = shutdown /\ events' = events
      /\ unanswered' = unanswered /\ quiet' = quiet /\ oldGroup' = oldGroup
      /\ said' = said /\ closed' = closed /\ gone' = gone
  BY DEF runner
<1>2. MiracastTypeOK'
  BY <1>1 DEF MiracastInv, MiracastTypeOK
<1>3. EventsMatch' /\ ~ReadySent'
  BY <1>1, EventFacts DEF MiracastInv, EventsMatch, ReadySent
<1>4. HeardIsSaid'
  BY <1>1, <1>3 DEF MiracastInv, HeardIsSaid, Heard
<1>5. CountIsSilence' /\ OverForCause'
  BY <1>1, <1>3 DEF MiracastInv, CountIsSilence, OverForCause
<1>. QED  BY <1>2, <1>3, <1>4, <1>5 DEF MiracastInv

(* The session task keeps the invariant. *)
LEMMA SessionKeepsInv ==
    ASSUME MiracastInv, Session
    PROVE  MiracastInv'
<1>. USE DEF MiracastInv
<1>. DEFINE Groups == {"none", "forming", "up"}
            WfdEvents == {"GroupFormed", "GroupRemoved", "Error"}
<1>1. /\ inbox \in Seq(Messages) /\ Heard /\ wfd \in Seq(WfdEvents) /\ group \in Groups
      /\ quiet \in 0..(MaxUnanswered + 1) /\ unanswered \in 0..MaxUnanswered
  BY DEF MiracastTypeOK, HeardIsSaid, Heard
<1>2. ASSUME UNCHANGED <<inbox, quiet, unanswered, group, wfd>>, UNCHANGED sink
      PROVE  /\ inbox' \in Seq(Messages) /\ Heard' /\ wfd' \in Seq(WfdEvents) /\ group' \in Groups
             /\ quiet' \in 0..(MaxUnanswered + 1) /\ unanswered' \in 0..MaxUnanswered
  BY <1>1, <1>2 DEF Heard, sink
<1>3. {"connecting", "forming", "resolving", "accepting", "M1"} \subseteq SessionStates
  BY StageFacts DEF SessionStates, Joining, Connected
<1>4. CASE Dial
  <2>1. CASE Step("M1")
    BY <1>2, <1>3, <1>4, <2>1, StepKeepsInv DEF Dial, Step, radio, sink
  <2>2. CASE EndSession
    BY <1>2, <1>4, <2>2, EndKeepsInv DEF Dial, radio, sink
  <2>. QED  BY <1>4, <2>1, <2>2 DEF Dial
<1>5. CASE Find
  <2>1. CASE Step("connecting")
    BY <1>2, <1>3, <1>5, <2>1, StepKeepsInv DEF Find, Step, radio, sink
  <2>2. CASE EndSession
    BY <1>2, <1>5, <2>2, EndKeepsInv DEF Find, radio, sink
  <2>. QED  BY <1>5, <2>1, <2>2 DEF Find
<1>6. CASE FindEvent
  <2>1. wfd' \in Seq(WfdEvents)
    BY <1>1, <1>6 DEF FindEvent
  <2>2. sess' \in SessionStates \ {"streaming", "over"} /\ sess' # "M7"
    BY <1>6 DEF FindEvent, MiracastTypeOK
  <2>3. inbox' \in Seq(Messages) /\ Heard' /\ group' \in Groups
    BY <1>1, <1>6 DEF FindEvent, Heard, sink
  <2>. QED  BY <1>6, <2>1, <2>2, <2>3, StepKeepsInv DEF FindEvent, sink
<1>7. CASE ConnectPeer
  <2>1. CASE Step("forming") /\ group' = "forming"
    <3>1. inbox' \in Seq(Messages) /\ Heard' /\ group' \in Groups /\ wfd' \in Seq(WfdEvents)
      BY <1>1, <1>7, <2>1 DEF ConnectPeer, Heard, sink
    <3>. QED  BY <1>3, <1>7, <2>1, <3>1, StepKeepsInv DEF ConnectPeer, Step, sink
  <2>2. CASE EndSession /\ UNCHANGED group
    BY <1>2, <1>7, <2>2, EndKeepsInv DEF ConnectPeer, sink
  <2>. QED  BY <1>7, <2>1, <2>2 DEF ConnectPeer
<1>8. CASE FormGroup
  <2>1. /\ inbox' \in Seq(Messages) /\ Heard' /\ wfd' \in Seq(WfdEvents)
        /\ quiet' \in 0..(MaxUnanswered + 1) /\ unanswered' \in 0..MaxUnanswered
        /\ Head(wfd) \in WfdEvents
    BY <1>1, <1>8 DEF FormGroup, Heard, sink
  <2>2. CASE Head(wfd) = "GroupFormed"
    <3>1. sess' \in {"resolving", "accepting"} /\ guard' = "held" /\ UNCHANGED <<events, group>>
      BY <1>8, <2>2 DEF FormGroup
    <3>. QED  BY <1>1, <1>3, <1>8, <2>1, <3>1, StepKeepsInv DEF FormGroup, sink
  <2>3. CASE Head(wfd) = "Error"
    <3>1. Disconnect /\ EndSession
      BY <1>8, <2>3 DEF FormGroup
    <3>2. group' \in Groups
      BY <1>1, <3>1 DEF Disconnect
    <3>. QED  BY <1>8, <2>1, <3>1, <3>2, EndKeepsInv DEF FormGroup, sink
  <2>4. CASE Head(wfd) = "GroupRemoved"
    <3>1. EndSession /\ UNCHANGED group
      BY <1>8, <2>4 DEF FormGroup
    <3>. QED  BY <1>1, <1>8, <2>1, <3>1, EndKeepsInv DEF FormGroup, sink
  <2>. QED  BY <2>1, <2>2, <2>3, <2>4
<1>9. CASE FormTimeout
  BY <1>2, <1>9, EndKeepsInv DEF FormTimeout, radio, sink
<1>10. CASE ResolvePeer
  <2>1. CASE Step("accepting")
    BY <1>2, <1>3, <1>10, <2>1, StepKeepsInv DEF ResolvePeer, Step, radio, sink
  <2>2. CASE EndSession
    BY <1>2, <1>10, <2>2, EndKeepsInv DEF ResolvePeer, radio, sink
  <2>. QED  BY <1>10, <2>1, <2>2 DEF ResolvePeer
<1>11. CASE AcceptSink
  <2>1. CASE Step("M1")
    BY <1>2, <1>3, <1>11, <2>1, StepKeepsInv DEF AcceptSink, Step, radio, sink
  <2>2. CASE EndSession
    BY <1>2, <1>11, <2>2, EndKeepsInv DEF AcceptSink, radio, sink
  <2>. QED  BY <1>11, <2>1, <2>2 DEF AcceptSink
<1>12. CASE ReadTimeout
  BY <1>2, <1>12, StageFacts, EndKeepsInv DEF ReadTimeout, radio, sink
<1>13. CASE ConnectionFails
  <2>1. Cause' /\ sess # "over"
    BY <1>13, StageFacts DEF ConnectionFails, Cause, sink, Connected
  <2>. QED  BY <1>2, <1>13, <2>1, EndKeepsInv DEF ConnectionFails, radio, sink
<1>14. CASE ControlMessage
  <2>1. /\ inbox' \in Seq(Messages) /\ Heard'
        /\ Head(inbox) \in Telling => Head(inbox) \in said
        /\ wfd' \in Seq(WfdEvents) /\ group' \in Groups
        /\ quiet' = quiet /\ unanswered' \in {0, unanswered}
    BY <1>1, <1>14, HeadIsSaid DEF ControlMessage, Heard, radio, sink
  <2>2. unanswered' \in 0..MaxUnanswered /\ quiet' \in 0..(MaxUnanswered + 1)
    BY <1>1, <2>1, MaxAssumption DEF MiracastTypeOK
  <2>3. CASE Head(inbox) \in {"TEARDOWN", "oversized"}
    <3>1. EndSession /\ Cause'
      BY <1>14, <2>1, <2>3 DEF ControlMessage, Cause, Telling, sink
    <3>. QED  BY <1>14, <2>1, <2>2, <3>1, EndKeepsInv DEF ControlMessage, radio, sink
  <2>4. CASE Head(inbox) \notin {"TEARDOWN", "oversized"}
    <3>1. /\ UNCHANGED <<sess, events, guard>> /\ UNCHANGED radio /\ UNCHANGED sink
          /\ UNCHANGED runner /\ sess = "streaming" /\ unanswered' = 0
      BY <1>14, <2>4 DEF ControlMessage
    <3>2. MiracastTypeOK'
      BY <2>1, <2>2, <3>1 DEF MiracastTypeOK, radio, sink, runner
    <3>3. EventsMatch' /\ (ReadySent' <=> ReadySent)
      BY <3>1 DEF EventsMatch, ReadySent, runner
    <3>4. HeardIsSaid'
      BY <2>1, <3>1, <3>3 DEF HeardIsSaid, Heard, sink
    <3>5. CountIsSilence' /\ OverForCause'
      BY <1>14, <2>1, <3>1 DEF CountIsSilence, OverForCause, ControlMessage
    <3>. QED  BY <3>2, <3>3, <3>4, <3>5
  <2>. QED  BY <2>3, <2>4
<1>15. CASE KeepAliveTick
  <2>1. /\ inbox' \in Seq(Messages) /\ Heard' /\ inbox' = <<>>
        /\ wfd' \in Seq(WfdEvents) /\ group' \in Groups
        /\ quiet = unanswered /\ quiet' = quiet + 1
    BY <1>1, <1>15 DEF KeepAliveTick, Heard, radio, sink, CountIsSilence
  <2>2. quiet' \in 0..(MaxUnanswered + 1)
    BY <1>1, <2>1, MaxAssumption
  <2>3. CASE unanswered + 1 > MaxUnanswered
    <3>1. EndSession /\ unanswered' = unanswered
      BY <1>1, <1>15, <2>3, MaxAssumption DEF KeepAliveTick
    <3>2. Cause'
      BY <2>1, <2>3 DEF Cause
    <3>. QED  BY <1>1, <1>15, <2>1, <2>2, <3>1, <3>2, EndKeepsInv DEF KeepAliveTick, radio, sink
  <2>4. CASE unanswered + 1 <= MaxUnanswered
    <3>1. /\ UNCHANGED <<sess, events, guard>> /\ UNCHANGED radio /\ UNCHANGED sink
          /\ UNCHANGED runner /\ sess = "streaming" /\ unanswered' = unanswered + 1
      BY <1>1, <1>15, <2>4, MaxAssumption DEF KeepAliveTick
    <3>2. unanswered' \in 0..MaxUnanswered
      BY <1>1, <2>4, <3>1, MaxAssumption
    <3>3. MiracastTypeOK'
      BY <2>1, <2>2, <3>1, <3>2 DEF MiracastTypeOK, radio, sink, runner
    <3>4. EventsMatch' /\ (ReadySent' <=> ReadySent)
      BY <3>1 DEF EventsMatch, ReadySent, runner
    <3>5. HeardIsSaid'
      BY <2>1, <3>1, <3>4 DEF HeardIsSaid, Heard, sink
    <3>6. CountIsSilence' /\ OverForCause'
      BY <2>1, <3>1 DEF CountIsSilence, OverForCause
    <3>. QED  BY <3>3, <3>4, <3>5, <3>6
  <2>. QED  BY <1>1, <2>3, <2>4, MaxAssumption
<1>16. CASE Cancel
  <2>1. ~ReadySent'
    BY <1>16 DEF Cancel, EventsMatch, ReadySent, runner
  <2>. QED  BY <1>2, <1>16, <2>1, EndKeepsInv DEF Cancel, radio, sink
<1>17. ASSUME NEW i \in 1..7, Negotiate(i)
       PROVE  MiracastInv'
  <2>1. sess = Stages[i] /\ sess \in Negotiating /\ inbox # <<>> /\ inbox' = Tail(inbox)
    BY <1>17, StageFacts DEF Negotiate
  <2>2. sess \notin {"streaming", "over"}
    BY <2>1, StageFacts
  <2>3. /\ UNCHANGED runner /\ UNCHANGED radio /\ UNCHANGED sink
        /\ unanswered' = unanswered /\ quiet' = quiet
    BY <1>17 DEF Negotiate
  <2>4. /\ inbox' \in Seq(Messages) /\ Heard' /\ wfd' \in Seq(WfdEvents) /\ group' \in Groups
        /\ quiet' \in 0..(MaxUnanswered + 1) /\ unanswered' \in 0..MaxUnanswered
    BY <1>1, <2>1, <2>3, HeadIsSaid DEF Heard, radio, sink
  <2>5. Head(inbox) \in Telling => Head(inbox) \in said
    BY <2>1, HeadIsSaid
  <2>6. CASE Accepts(i, Head(inbox)) /\ i < 7 /\ Step(Stages[i + 1])
    <3>1. sess' \in SessionStates \ {"streaming", "over"}
      BY <2>6, StageFacts DEF Step, SessionStates, Connected
    <3>2. sess' = "M7" => "SETUP" \in said
      BY <2>5, <2>6, StageFacts DEF Step, Accepts, Telling
    <3>. QED  BY <2>2, <2>3, <2>4, <2>6, <3>1, <3>2, StepKeepsInv DEF Step, radio, sink
  <2>7. CASE /\ Accepts(i, Head(inbox)) /\ i = 7
             /\ sess' = "streaming" /\ events' = Append(events, "Ready") /\ UNCHANGED guard
    <3>1. task \in {"waiting", "done"} /\ events \in Seq({"Ready", "Ended"})
          /\ (task = "waiting" => events = <<>>)
      BY <2>2 DEF EventsMatch, MiracastTypeOK
    <3>2. MiracastTypeOK'
      <4>1. events' \in Seq({"Ready", "Ended"}) /\ sess' \in SessionStates
        BY <2>7, <3>1 DEF SessionStates, Connected
      <4>. QED  BY <2>3, <2>4, <2>7, <4>1 DEF MiracastTypeOK, runner, radio, sink
    <3>3. EventsMatch'
      BY <2>3, <2>7, <3>1, EventFacts DEF EventsMatch, runner
    <3>4. {"SETUP", "PLAY"} \subseteq said
      <4>1. sess = "M7"
        BY <2>1, <2>7 DEF Stages
      <4>. QED  BY <2>5, <2>7, <4>1, StageFacts DEF HeardIsSaid, Accepts, Telling
    <3>5. HeardIsSaid'
      BY <2>3, <2>4, <2>7, <3>4 DEF HeardIsSaid, Heard, sink
    <3>6. CountIsSilence' /\ OverForCause'
      BY <2>2, <2>3, <2>7 DEF CountIsSilence, OverForCause
    <3>. QED  BY <3>2, <3>3, <3>5, <3>6
  <2>8. CASE ~Accepts(i, Head(inbox)) /\ EndSession
    BY <2>2, <2>3, <2>4, <2>8, EndKeepsInv DEF radio, sink
  <2>. QED  BY <1>17, <2>6, <2>7, <2>8 DEF Negotiate
<1>. QED  BY <1>4, <1>5, <1>6, <1>7, <1>8, <1>9, <1>10, <1>11, <1>12, <1>13, <1>14, <1>15,
             <1>16, <1>17 DEF Session


(* The casting task, the spawned teardown and the world keep it too. *)
LEMMA OthersKeepInv ==
    ASSUME MiracastInv, Runner \/ TearDownGroup \/ World
    PROVE  MiracastInv'
<1>. USE DEF MiracastInv
<1>. DEFINE WfdEvents == {"GroupFormed", "GroupRemoved", "Error"}
<1>1. CASE AwaitReady
  <2>1. /\ task = "waiting" /\ events # <<>> /\ events' = Tail(events)
        /\ sess' = sess /\ stop' = stop /\ unanswered' = unanswered /\ quiet' = quiet
        /\ inbox' = inbox /\ guard' = guard
        /\ UNCHANGED radio /\ UNCHANGED sink
    BY <1>1 DEF AwaitReady
  <2>2. /\ Head(events) = "Ready" => task' = "starting" /\ shutdown' = shutdown
        /\ Head(events) # "Ready" => task' = "done" /\ shutdown' = TRUE
    BY <1>1 DEF AwaitReady, Finish
  <2>3. MiracastTypeOK'
    <3>1. events' \in Seq({"Ready", "Ended"})
      BY <2>1 DEF MiracastTypeOK
    <3>. QED  BY <2>1, <2>2, <3>1 DEF MiracastTypeOK, radio, sink
  <2>4. sess \in {"streaming", "over"} /\ events \in {<<"Ready">>, <<"Ended">>, <<"Ready", "Ended">>}
    BY <2>1 DEF EventsMatch
  <2>5. EventsMatch'
    <3>1. CASE sess = "streaming"
      <4>1. events = <<"Ready">>
        BY <2>1, <3>1 DEF EventsMatch
      <4>2. events' = <<>> /\ task' = "starting" /\ shutdown' = shutdown
        BY <2>1, <2>2, <4>1, EventFacts
      <4>. QED  BY <2>1, <3>1, <4>2 DEF EventsMatch
    <3>2. CASE sess = "over" /\ events = <<"Ended">>
      <4>1. task' = "done" /\ shutdown' = TRUE
        BY <2>2, <3>2, EventFacts
      <4>. QED  BY <4>1 DEF EventsMatch
    <3>3. CASE sess = "over" /\ events = <<"Ready", "Ended">>
      <4>1. events' = <<"Ended">> /\ task' = "starting" /\ shutdown' = shutdown
        BY <2>1, <2>2, <3>3, EventFacts
      <4>. QED  BY <2>1, <3>3, <4>1 DEF EventsMatch
    <3>. QED  BY <2>1, <2>4, <3>1, <3>2, <3>3 DEF EventsMatch
  <2>6. ReadySent' => ReadySent
    BY <2>1, <2>2, <2>4, EventFacts DEF ReadySent
  <2>7. HeardIsSaid' /\ CountIsSilence' /\ OverForCause'
    BY <2>1, <2>6 DEF HeardIsSaid, CountIsSilence, OverForCause, Cause, sink
  <2>. QED  BY <2>3, <2>5, <2>7
<1>2. CASE StartPipeline \/ ObserveStop \/ ObserveEnd
  <2>1. /\ task \in {"starting", "streaming"} /\ UNCHANGED radio /\ UNCHANGED sink
        /\ sess' = sess /\ stop' = stop /\ unanswered' = unanswered /\ quiet' = quiet
        /\ inbox' = inbox /\ guard' = guard
        /\ \/ task' = "streaming" /\ shutdown' = shutdown /\ events' = events
           \/ task' = "done" /\ shutdown' = TRUE /\ events' \in Seq({"Ready", "Ended"})
    <3>1. CASE StartPipeline
      BY <3>1 DEF StartPipeline, Finish, MiracastTypeOK
    <3>2. CASE ObserveStop
      BY <3>2 DEF ObserveStop, Finish, MiracastTypeOK
    <3>3. CASE ObserveEnd
      BY <3>3 DEF ObserveEnd, Finish, MiracastTypeOK
    <3>. QED  BY <1>2, <3>1, <3>2, <3>3
  <2>2. MiracastTypeOK'
    BY <2>1 DEF MiracastTypeOK, radio, sink
  <2>3. EventsMatch' /\ (ReadySent' => ReadySent)
    BY <2>1 DEF EventsMatch, ReadySent
  <2>4. HeardIsSaid' /\ CountIsSilence' /\ OverForCause'
    BY <2>1, <2>3 DEF HeardIsSaid, CountIsSilence, OverForCause, Cause, sink
  <2>. QED  BY <2>2, <2>3, <2>4
<1>3. CASE \E m \in Messages : Speak(m)
  <2>. PICK m \in Messages : Speak(m)
    BY <1>3
  <2>1. /\ sess \in Connected /\ inbox' = Append(inbox, m) /\ said' = said \cup ({m} \cap Telling)
        /\ quiet' = 0 /\ UNCHANGED runner /\ UNCHANGED radio
        /\ UNCHANGED <<events, sess, guard, unanswered, closed, gone>>
    BY DEF Speak
  <2>2. sess # "over"
    BY <2>1, StageFacts DEF Connected
  <2>3. inbox \in Seq(Messages)
    BY DEF MiracastTypeOK
  <2>4. MiracastTypeOK'
    BY <2>1, <2>3, MaxAssumption DEF MiracastTypeOK, runner, radio
  <2>5. EventsMatch' /\ (ReadySent' <=> ReadySent)
    BY <2>1 DEF EventsMatch, ReadySent, runner
  <2>6. /\ Len(inbox') = Len(inbox) + 1 /\ inbox'[Len(inbox) + 1] = m /\ inbox' # <<>>
        /\ \A k \in 1..Len(inbox) : inbox'[k] = inbox[k]
    BY <2>1, <2>3
  <2>7. Heard'
    <3>. SUFFICES ASSUME NEW k \in 1..(Len(inbox) + 1), inbox'[k] \in Telling
                  PROVE  inbox'[k] \in said'
      BY <2>6 DEF Heard
    <3>1. k \in 1..Len(inbox) \/ k = Len(inbox) + 1
      BY <2>3
    <3>. QED  BY <2>1, <2>6, <3>1 DEF HeardIsSaid
  <2>8. HeardIsSaid'
    BY <2>1, <2>5, <2>7 DEF HeardIsSaid, Heard
  <2>9. CountIsSilence' /\ OverForCause'
    BY <2>1, <2>2, <2>6 DEF CountIsSilence, OverForCause
  <2>. QED  BY <2>4, <2>5, <2>8, <2>9
<1>4. CASE \/ TearDownGroup \/ PressStop \/ CloseConnection \/ Vanish
           \/ GroupStarts \/ GroupFails \/ GroupLost \/ OldGroupRemoved
  <2>1. /\ task' = task /\ shutdown' = shutdown /\ events' = events /\ sess' = sess
        /\ unanswered' = unanswered /\ quiet' = quiet /\ inbox' = inbox /\ said' = said
    BY <1>4 DEF TearDownGroup, PressStop, CloseConnection, Vanish, GroupStarts, GroupFails,
       GroupLost, OldGroupRemoved, runner, sink
  <2>2. /\ stop' \in {stop, TRUE} /\ closed' \in {closed, TRUE} /\ gone' \in {gone, TRUE}
        /\ oldGroup' \in {oldGroup, FALSE}
    BY <1>4 DEF TearDownGroup, PressStop, CloseConnection, Vanish, GroupStarts, GroupFails,
       GroupLost, OldGroupRemoved, runner, radio, sink
  <2>3. wfd' \in Seq(WfdEvents)
    <3>1. wfd \in Seq(WfdEvents)
      BY DEF MiracastTypeOK
    <3>2. \/ wfd' = wfd \/ wfd' = Append(wfd, "GroupFormed")
          \/ wfd' = Append(wfd, "Error") \/ wfd' = Append(wfd, "GroupRemoved")
      BY <1>4 DEF TearDownGroup, PressStop, CloseConnection, Vanish, GroupStarts, GroupFails,
         GroupLost, OldGroupRemoved, radio
    <3>. QED  BY <3>1, <3>2
  <2>4. /\ group' \in {group, "none", "up"} /\ guard' \in {guard, "released", "failed"}
    BY <1>4 DEF TearDownGroup, PressStop, CloseConnection, Vanish, GroupStarts, GroupFails,
       GroupLost, OldGroupRemoved, radio
  <2>5. MiracastTypeOK'
    <3>1. stop' \in BOOLEAN /\ closed' \in BOOLEAN /\ gone' \in BOOLEAN /\ oldGroup' \in BOOLEAN
      BY <2>2 DEF MiracastTypeOK
    <3>2. /\ group' \in {"none", "forming", "up"}
          /\ guard' \in {"none", "held", "dropped", "released", "failed"}
      BY <2>4 DEF MiracastTypeOK
    <3>. QED  BY <2>1, <2>3, <3>1, <3>2 DEF MiracastTypeOK
  <2>6. EventsMatch' /\ (ReadySent' <=> ReadySent)
    BY <2>1 DEF EventsMatch, ReadySent
  <2>7. Cause => Cause'
    BY <2>1, <2>2 DEF Cause
  <2>8. HeardIsSaid' /\ CountIsSilence' /\ OverForCause'
    BY <2>1, <2>6, <2>7 DEF HeardIsSaid, CountIsSilence, OverForCause
  <2>. QED  BY <2>5, <2>6, <2>8
<1>. QED  BY <1>1, <1>2, <1>3, <1>4 DEF Runner, World

(* The invariant is inductive: every step of every task, of the sink, of   *)
(* the user and of wpa_supplicant keeps it.                                *)
LEMMA MiracastStep == MiracastInv /\ [Next]_vars => MiracastInv'
<1>. SUFFICES ASSUME MiracastInv, [Next]_vars
              PROVE  MiracastInv'
  OBVIOUS
<1>1. CASE Session
  BY <1>1, SessionKeepsInv
<1>2. CASE Runner \/ TearDownGroup \/ World
  BY <1>2, OthersKeepInv
<1>3. CASE UNCHANGED vars
  <2>1. MiracastTypeOK' /\ EventsMatch' /\ (ReadySent' <=> ReadySent)
    BY <1>3 DEF vars, runner, radio, sink, MiracastInv, MiracastTypeOK, EventsMatch, ReadySent
  <2>2. HeardIsSaid' /\ CountIsSilence' /\ OverForCause'
    BY <1>3, <2>1 DEF vars, runner, radio, sink, MiracastInv, HeardIsSaid, CountIsSilence,
       OverForCause, Cause
  <2>. QED  BY <2>1, <2>2 DEF MiracastInv
<1>. QED  BY <1>1, <1>2, <1>3 DEF Next

-----------------------------------------------------------------------------
(* The group and its guard *)

(* Past the loop that waits for it, a group that is up is held by a guard, *)
(* a session that is over holds none, and a group that was given back is   *)
(* not up again.                                                           *)
GroupOwned ==
    /\ group = "up" /\ sess \notin {"forming", "over"} => guard = "held"
    /\ sess = "over" => guard # "held"
    /\ guard = "released" => group = "none"

(* A session has no group before it asks for one, no guard before there is *)
(* a group, and a session over the LAN never has either.                   *)
GuardFollows ==
    /\ sess \in {"dialing"} \cup Joining => guard = "none"
    /\ sess \in {"dialing", "finding", "connecting"} => group = "none"
    /\ sess \in {"resolving", "accepting"} => guard = "held"
    /\ sess \in Connected => guard = "held" \/ (guard = "none" /\ group = "none")
    /\ sess = "over" => guard # "held"
    /\ guard = "released" => group = "none"

GuardInv == MiracastTypeOK /\ GuardFollows

(* The actions that change neither the group, nor the guard, nor how far   *)
(* the session is.                                                         *)
LEMMA GuardSame ==
    ASSUME GuardFollows, UNCHANGED <<sess, guard, group>>
    PROVE  GuardFollows'
  BY DEF GuardFollows

(* However a session ends, a guard that was held is dropped. *)
LEMMA GuardEnds ==
    ASSUME GuardInv, sess # "over", EndSession, UNCHANGED group
    PROVE  GuardFollows'
<1>1. guard \in {"none", "held"}
  BY StageFacts DEF GuardInv, GuardFollows, MiracastTypeOK, SessionStates, Connected, Joining
<1> QED
  BY <1>1, StageFacts DEF GuardInv, GuardFollows, EndSession, Connected, Joining

LEMMA GuardSession ==
    ASSUME GuardInv, Session
    PROVE  GuardFollows'
<1> USE StageFacts DEF GuardInv, Connected, Joining
<1>1. CASE Dial
  <2>1. CASE Step("M1")
    BY <1>1, <2>1 DEF Dial, Step, GuardFollows, radio
  <2>2. CASE EndSession
    BY <1>1, <2>2, GuardEnds DEF Dial, radio
  <2> QED  BY <1>1, <2>1, <2>2 DEF Dial
<1>2. CASE Find
  <2>1. CASE Step("connecting")
    BY <1>2, <2>1 DEF Find, Step, GuardFollows, radio
  <2>2. CASE EndSession
    BY <1>2, <2>2, GuardEnds DEF Find, radio
  <2> QED  BY <1>2, <2>1, <2>2 DEF Find
<1>3. CASE FindEvent
  BY <1>3, GuardSame DEF FindEvent
<1>4. CASE ConnectPeer
  <2>1. CASE Step("forming") /\ group' = "forming"
    BY <1>4, <2>1 DEF ConnectPeer, Step, GuardFollows
  <2>2. CASE EndSession /\ UNCHANGED group
    BY <1>4, <2>2, GuardEnds DEF ConnectPeer
  <2> QED  BY <1>4, <2>1, <2>2 DEF ConnectPeer
<1>5. CASE FormGroup
  <2>0. guard = "none" /\ Head(wfd) \in {"GroupFormed", "GroupRemoved", "Error"}
    BY <1>5 DEF FormGroup, GuardFollows, MiracastTypeOK
  <2>1. CASE Head(wfd) = "GroupFormed"
    BY <1>5, <2>1 DEF FormGroup, GuardFollows
  <2>2. CASE Head(wfd) = "Error"
    <3>1. sess' = "over" /\ guard' = "none"
      BY <1>5, <2>0, <2>2 DEF FormGroup, EndSession
    <3> QED  BY <3>1 DEF GuardFollows
  <2>3. CASE Head(wfd) = "GroupRemoved"
    BY <1>5, <2>3, GuardEnds DEF FormGroup
  <2> QED  BY <2>0, <2>1, <2>2, <2>3
<1>6. CASE FormTimeout
  BY <1>6, GuardEnds DEF FormTimeout, radio
<1>7. CASE ResolvePeer
  <2>1. CASE Step("accepting")
    BY <1>7, <2>1 DEF ResolvePeer, Step, GuardFollows, radio
  <2>2. CASE EndSession
    BY <1>7, <2>2, GuardEnds DEF ResolvePeer, radio
  <2> QED  BY <1>7, <2>1, <2>2 DEF ResolvePeer
<1>8. CASE AcceptSink
  <2>1. CASE Step("M1")
    BY <1>8, <2>1 DEF AcceptSink, Step, GuardFollows, radio
  <2>2. CASE EndSession
    BY <1>8, <2>2, GuardEnds DEF AcceptSink, radio
  <2> QED  BY <1>8, <2>1, <2>2 DEF AcceptSink
<1>9. CASE ReadTimeout
  BY <1>9, GuardEnds DEF ReadTimeout, radio
<1>10. CASE ConnectionFails
  BY <1>10, GuardEnds DEF ConnectionFails, radio
<1>11. CASE ControlMessage
  BY <1>11, GuardEnds, GuardSame DEF ControlMessage, radio
<1>12. CASE KeepAliveTick
  BY <1>12, GuardEnds, GuardSame DEF KeepAliveTick, radio
<1>13. CASE Cancel
  BY <1>13, GuardEnds DEF Cancel, radio
<1>14. CASE \E i \in 1..7 : Negotiate(i)
  <2>1. PICK i \in 1..7 : Negotiate(i)
    BY <1>14
  <2>2. sess \in Negotiating /\ sess # "over" /\ UNCHANGED group
    BY <2>1 DEF Negotiate, radio
  <2>3. CASE EndSession
    BY <2>2, <2>3, GuardEnds
  <2>4. CASE sess' \in Negotiating \cup {"streaming"} /\ UNCHANGED guard
    BY <2>2, <2>4 DEF GuardFollows
  <2>5. i < 7 => i + 1 \in 1..7
    OBVIOUS
  <2> QED  BY <2>1, <2>3, <2>4, <2>5 DEF Negotiate, Step
<1> QED
  BY <1>1, <1>2, <1>3, <1>4, <1>5, <1>6, <1>7, <1>8, <1>9, <1>10, <1>11, <1>12, <1>13, <1>14
  DEF Session

LEMMA GuardOthers ==
    ASSUME GuardInv, Runner \/ TearDownGroup \/ World
    PROVE  GuardFollows'
<1> USE StageFacts DEF GuardInv, Connected, Joining
<1>1. CASE Runner
  BY <1>1, GuardSame
  DEF Runner, AwaitReady, StartPipeline, ObserveStop, ObserveEnd, radio
<1>2. CASE TearDownGroup
  <2>1. sess = "over"
    BY <1>2 DEF TearDownGroup, GuardFollows, MiracastTypeOK, SessionStates
  <2> QED  BY <1>2, <2>1 DEF TearDownGroup, GuardFollows
<1>3. CASE PressStop \/ CloseConnection \/ Vanish \/ OldGroupRemoved \/ \E m \in Messages : Speak(m)
  BY <1>3, GuardSame
  DEF PressStop, CloseConnection, Vanish, OldGroupRemoved, Speak, radio
<1>4. CASE GroupStarts \/ GroupFails \/ GroupLost
  BY <1>4 DEF GroupStarts, GroupFails, GroupLost, GuardFollows
<1> QED  BY <1>1, <1>2, <1>3, <1>4 DEF World

LEMMA GuardStep == MiracastInv /\ GuardFollows /\ [Next]_vars => GuardFollows'
<1> SUFFICES ASSUME MiracastInv, GuardFollows, [Next]_vars PROVE GuardFollows'
  OBVIOUS
<1>1. GuardInv
  BY DEF GuardInv, MiracastInv
<1>2. CASE UNCHANGED vars
  BY <1>2, GuardSame DEF vars, radio
<1> QED  BY <1>1, <1>2, GuardSession, GuardOthers DEF Next

-----------------------------------------------------------------------------
(* The invariant holds in every state of every Miracast cast. *)
THEOREM MiracastInvariance == Spec => []MiracastInv
BY MiracastStart, MiracastStep, PTL DEF Spec

(* Every variable keeps its type; in particular the count of unanswered    *)
(* keep-alives never passes MAX_UNANSWERED_KEEPALIVES.                     *)
THEOREM MiracastTypeCorrect == Spec => []MiracastTypeOK
<1>1. MiracastInv => MiracastTypeOK
  BY DEF MiracastInv
<1>. QED  BY <1>1, MiracastInvariance, PTL

(* The pipeline is built only for a sink that has said SETUP, with a port, *)
(* and PLAY.                                                               *)
THEOREM MiracastAgreement == Spec => []AgreedBeforeReady
<1>1. MiracastInv => AgreedBeforeReady
  BY DEF MiracastInv, HeardIsSaid, ReadySent, AgreedBeforeReady
<1>. QED  BY <1>1, MiracastInvariance, PTL

(* A streaming cast ends only for a cause: the user, a TEARDOWN, a broken  *)
(* connection, a message past MAX_MESSAGE_BYTES or more periods without a  *)
(* message than MAX_UNANSWERED_KEEPALIVES.                                 *)
THEOREM EndForCause == Spec => EndsForCause
<1>1. MiracastInv /\ [Next]_vars => [task = "streaming" /\ task' = "done" => Cause]_vars
  <2>. SUFFICES ASSUME MiracastInv, Next, task = "streaming", task' = "done"
                PROVE  Cause
    OBVIOUS
  <2>1. ObserveStop \/ ObserveEnd
    <3>1. ~(Session \/ TearDownGroup \/ World)
      BY DEF Session, TearDownGroup, World, Dial, Find, FindEvent, ConnectPeer, FormGroup,
         FormTimeout, ResolvePeer, AcceptSink, ReadTimeout, ConnectionFails, ControlMessage,
         KeepAliveTick, Cancel, Negotiate, PressStop, CloseConnection, Vanish, GroupStarts,
         GroupFails, GroupLost, OldGroupRemoved, Speak, runner
    <3>. QED  BY <3>1 DEF Next, Runner, AwaitReady, StartPipeline
  <2>2. CASE ObserveStop
    BY <2>2 DEF ObserveStop, Cause
  <2>3. CASE ObserveEnd
    <3>1. sess = "over"
      BY <2>3 DEF ObserveEnd, MiracastInv, EventsMatch
    <3>. QED  BY <3>1 DEF MiracastInv, OverForCause, ReadySent
  <2>. QED  BY <2>1, <2>2, <2>3
<1>. QED  BY <1>1, MiracastInvariance, PTL DEF Spec, EndsForCause

(* The safety half of what P2PGroupGuard promises, whatever the sink, the  *)
(* user and wpa_supplicant do: no session goes on with a group nobody will *)
(* take down, no session is over with a guard still held, and a group that *)
(* was given back stays down.  GroupReleased says that it is given back.   *)
THEOREM GuardedGroup == Spec => []GroupOwned
<1>1. Init => GuardFollows
  BY StageFacts DEF Init, GuardFollows, Connected, Joining
<1>2. MiracastInv /\ GuardFollows => GroupOwned
  BY StageFacts
  DEF MiracastInv, MiracastTypeOK, SessionStates, GuardFollows, GroupOwned, Connected, Joining
<1> QED  BY <1>1, <1>2, GuardStep, MiracastInvariance, PTL DEF Spec

===============================================================================
