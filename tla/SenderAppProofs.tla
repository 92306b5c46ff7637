--------------------------- MODULE SenderAppProofs ---------------------------
(***************************************************************************)
(* Theorems about the sender's window, for any number of receivers and     *)
(* casts and any capacity of the status channel.                           *)
(***************************************************************************)
EXTENDS SenderApp, SequenceTheorems, TLAPS

LEMMA AppInitType == AppInit => AppTypeOK
  <1> SUFFICES ASSUME AppInit PROVE AppTypeOK
    OBVIOUS
  <1>1. calls \in Seq(Seq(Call)) /\ statusQ \in Seq(StatusMessage)
    BY EmptySeq DEF AppInit
  <1>2. started \in 0..MaxCasts
    BY BoundAssumption DEF AppInit
  <1>3. QED
    BY <1>1, <1>2 DEF AppInit, AppTypeOK

LEMMA TaskCalls ==
    /\ PauseDiscovery \in Seq(Call)
    /\ ResumeDiscovery \in Seq(Call)
    /\ <<PauseDiscovery, ResumeDiscovery>> \in Seq(Seq(Call))
  <1>1. Probe \in Seq(Call)
    BY DEF Probe, Call
  <1>2. PauseDiscovery \in Seq(Call) /\ ResumeDiscovery \in Seq(Call)
    BY <1>1, AppendProperties DEF PauseDiscovery, ResumeDiscovery, Call
  <1>3. QED
    BY <1>2

(* A step of the list, a click, a message of a cast's thread or a call to  *)
(* wpa_supplicant keeps the types.                                         *)
LEMMA ReportType ==
    ASSUME AppTypeOK, NEW t \in Casts, NEW next \in {"capturing", "running", "over"},
           NEW over \in BOOLEAN, Report(t, next, over)
    PROVE  AppTypeOK'
  <1>1. [cast |-> t, over |-> over] \in StatusMessage
    BY DEF StatusMessage
  <1>2. statusQ' \in Seq(StatusMessage)
    BY <1>1, AppendProperties DEF Report, AppTypeOK
  <1>3. QED
    BY <1>2 DEF Report, AppTypeOK, discovery, radio

LEMMA CallType ==
    ASSUME AppTypeOK, NEW i \in 1..Len(calls), CallWpa(i) \/ CallFails(i)
    PROVE  AppTypeOK'
  <1>1. calls \in Seq(Seq(Call)) /\ calls[i] \in Seq(Call) /\ calls[i] # <<>>
    BY ElementOfSeq DEF AppTypeOK, CallWpa, CallFails
  <1>2. \A s \in Seq(Call) : [calls EXCEPT ![i] = s] \in Seq(Seq(Call))
    BY <1>1, ExceptSeq
  <1>3. CASE CallWpa(i)
    <2>1. Tail(calls[i]) \in Seq(Call)
      BY <1>1, HeadTailProperties
    <2>2. calls' \in Seq(Seq(Call)) /\ scan' \in BOOLEAN
      BY <1>2, <1>3, <2>1 DEF CallWpa
    <2>3. QED
      BY <1>3, <2>2 DEF CallWpa, AppTypeOK, discovery, cast
  <1>4. CASE CallFails(i)
    <2>1. PICK left \in 0..1 :
             calls' = [calls EXCEPT ![i] = SubSeq(@, Len(@) - left + 1, Len(@))]
      BY <1>4 DEF CallFails
    <2>2. Len(calls[i]) \in Nat /\ Len(calls[i]) >= 1
      BY <1>1, EmptySeq, LenProperties
    <2>3. SubSeq(calls[i], Len(calls[i]) - left + 1, Len(calls[i])) \in Seq(Call)
      <3>1. \A j \in Len(calls[i]) - left + 1..Len(calls[i]) : calls[i][j] \in Call
        BY <1>1, <2>2, ElementOfSeq
      <3>2. QED
        BY <1>1, <2>2, <3>1, SubSeqProperties
    <2>4. calls' \in Seq(Seq(Call))
      BY <1>2, <2>1, <2>3
    <2>5. QED
      BY <1>4, <2>4 DEF CallFails, AppTypeOK, discovery, cast
  <1>5. QED
    BY <1>3, <1>4

LEMMA ClickType ==
    ASSUME AppTypeOK, StartCast \/ FailCast \/ StopCast \/ PollStatus
    PROVE  AppTypeOK'
  <1>1. \A s \in Seq(Call) : Append(calls, s) \in Seq(Seq(Call))
    BY AppendProperties DEF AppTypeOK
  <1>2. calls \o <<PauseDiscovery, ResumeDiscovery>> \in Seq(Seq(Call))
    BY TaskCalls, ConcatProperties DEF AppTypeOK
  <1>n. ASSUME started < MaxCasts PROVE started + 1 \in Casts /\ started + 1 \in 0..MaxCasts
    BY <1>n, BoundAssumption DEF AppTypeOK, Casts
  <1>3. CASE StartCast
    <2>1. calls' \in Seq(Seq(Call)) /\ paused' \in BOOLEAN
      BY <1>1, <1>3, TaskCalls DEF StartCast, AppTypeOK
    <2>2. started' \in 0..MaxCasts /\ stopHandle' \in Casts \cup {0}
      BY <1>n, <1>3 DEF StartCast
    <2>3. task' \in [Casts -> {"none", "spawned", "capturing", "running", "over"}]
      BY <1>n, <1>3 DEF StartCast, AppTypeOK
    <2>4. QED
      BY <1>3, <2>1, <2>2, <2>3 DEF StartCast, AppTypeOK, discovery
  <1>4. CASE FailCast
    <2>1. calls' \in Seq(Seq(Call))
      BY <1>1, <1>2, <1>4, TaskCalls DEF FailCast
    <2>2. started' \in 0..MaxCasts
      BY <1>n, <1>4 DEF FailCast
    <2>3. QED
      BY <1>4, <2>1, <2>2 DEF FailCast, AppTypeOK, discovery
  <1>5. CASE StopCast
    BY <1>5 DEF StopCast, AppTypeOK, discovery, radio
  <1>6. CASE PollStatus
    <2>1. calls' \in Seq(Seq(Call))
      BY <1>1, <1>6, TaskCalls DEF PollStatus, AppTypeOK
    <2>2. statusQ' \in Seq(StatusMessage)
      BY <1>6, EmptySeq DEF PollStatus
    <2>3. QED
      BY <1>6, <2>1, <2>2 DEF PollStatus, AppTypeOK, discovery
  <1>7. QED
    BY <1>3, <1>4, <1>5, <1>6

LEMMA AppNextType == AppTypeOK /\ [AppNext]_appVars => AppTypeOK'
  <1> SUFFICES ASSUME AppTypeOK, [AppNext]_appVars
               PROVE  AppTypeOK'
    OBVIOUS
  <1>1. CASE UNCHANGED appVars
    BY <1>1 DEF appVars, discovery, cast, radio, AppTypeOK
  <1>2. ASSUME NEW s \in Sinks, AddReceiver(s) \/ RemoveReceiver(s) \/ Select(s)
        PROVE  AppTypeOK'
    BY <1>2 DEF AddReceiver, RemoveReceiver, Select, cast, radio, AppTypeOK
  <1>3. ASSUME NEW t \in Casts, Thread(t)
        PROVE  AppTypeOK'
    BY <1>3, ReportType DEF Thread, Capture, CaptureSucceeds, CaptureFails, End
  <1>4. QED
    BY <1>1, <1>2, <1>3, ClickType, CallType DEF AppNext

(* Every reachable state of the window is well typed. *)
THEOREM AppTypeCorrect == AppSpec => []AppTypeOK
  BY AppInitType, AppNextType, PTL DEF AppSpec

-----------------------------------------------------------------------------
(* The inductive invariant.  CastUnderControl alone is not inductive: that *)
(* poll_status drops the Stop button only of a cast that is over needs     *)
(* OverIsLast, what a message in the channel says of the threads.          *)

AppInv ==
    /\ AppTypeOK
    /\ CastUnderControl
    /\ OverIsLast
    /\ PauseEndsWithCast
    /\ SelectionIsListed

LEMMA AppInitInv == AppInit => AppInv
  <1> SUFFICES ASSUME AppInit PROVE AppInv
    OBVIOUS
  <1>1. Len(statusQ) = 0
    BY EmptySeq DEF AppInit
  <1>2. OverIsLast
    BY <1>1 DEF OverIsLast
  <1>3. CastUnderControl
    BY DEF AppInit, CastUnderControl, Live
  <1>4. QED
    BY <1>2, <1>3, AppInitType DEF AppInit, AppInv, PauseEndsWithCast, SelectionIsListed

(* A message of a cast's thread.  Only the last says that the cast is over.*)
LEMMA ReportInv ==
    ASSUME AppInv, NEW t \in Casts, Live(t), NEW next \in {"capturing", "running", "over"},
           NEW over \in BOOLEAN, over <=> next = "over", Report(t, next, over)
    PROVE  CastUnderControl' /\ OverIsLast' /\ PauseEndsWithCast' /\ SelectionIsListed'
  <1> USE DEF AppInv
  <1>1. \A u \in Casts : u # t => ~Live(u) /\ task'[u] = task[u]
    BY DEF CastUnderControl, Report, AppTypeOK
  <1>2. task'[t] = next
    BY DEF Report, AppTypeOK
  <1>3. isCasting /\ stopHandle = t /\ UNCHANGED <<isCasting, stopHandle, listed, selected, paused>>
    BY DEF CastUnderControl, Report, discovery, radio
  <1>4. CastUnderControl'
    BY <1>1, <1>3 DEF CastUnderControl, Live
  <1>5. OverIsLast'
    <2>1. \A i \in 1..Len(statusQ) : ~statusQ[i].over
      BY DEF OverIsLast
    <2>2. statusQ \in Seq(StatusMessage) /\ [cast |-> t, over |-> over] \in StatusMessage
      BY DEF AppTypeOK, StatusMessage
    <2>3. /\ Len(statusQ') = Len(statusQ) + 1
          /\ \A i \in 1..Len(statusQ) : statusQ'[i] = statusQ[i]
          /\ statusQ'[Len(statusQ) + 1] = [cast |-> t, over |-> over]
      BY <2>2, AppendProperties DEF Report
    <2>4. (\E i \in 1..Len(statusQ') : statusQ'[i].over) => over
      <3> SUFFICES ASSUME NEW i \in 1..Len(statusQ'), statusQ'[i].over PROVE over
        OBVIOUS
      <3>1. Len(statusQ) \in Nat
        BY <2>2, LenProperties
      <3>2. i = Len(statusQ) + 1
        BY <2>1, <2>3, <3>1
      <3>3. QED
        BY <2>3, <3>2
    <2>5. over => \A u \in Casts : ~Live(u)'
      BY <1>1, <1>2 DEF Live
    <2>6. QED
      BY <1>3, <2>4, <2>5 DEF OverIsLast
  <1>6. QED
    BY <1>3, <1>4, <1>5 DEF PauseEndsWithCast, SelectionIsListed

(* A click, or the window reading its messages. *)
LEMMA ClickInv ==
    ASSUME AppInv, StartCast \/ FailCast \/ StopCast \/ PollStatus
    PROVE  CastUnderControl' /\ OverIsLast' /\ PauseEndsWithCast' /\ SelectionIsListed'
  <1> USE DEF AppInv
  <1>1. UNCHANGED <<listed, selected>>
    BY DEF StartCast, FailCast, StopCast, PollStatus, discovery
  <1>2. SelectionIsListed'
    BY <1>1 DEF SelectionIsListed
  <1>3. CASE StartCast
    <2>1. /\ \A t \in Casts : ~Live(t)
          /\ \A i \in 1..Len(statusQ) : ~statusQ[i].over
      BY <1>3 DEF StartCast, CastUnderControl, OverIsLast
    <2>2. \A t \in Casts : Live(t)' => t = started + 1
      BY <1>3, <2>1 DEF StartCast, AppTypeOK, Live
    <2>3. isCasting' /\ stopHandle' = started + 1 /\ statusQ' = statusQ
      BY <1>3 DEF StartCast
    <2>4. QED
      BY <1>2, <2>1, <2>2, <2>3 DEF CastUnderControl, OverIsLast, PauseEndsWithCast
  <1>4. CASE FailCast
    <2>1. /\ \A t \in Casts : ~Live(t)'
          /\ statusQ' = statusQ
      BY <1>4 DEF FailCast, CastUnderControl, Live
    <2>2. \A i \in 1..Len(statusQ) : ~statusQ[i].over
      BY <1>4 DEF FailCast, OverIsLast
    <2>3. ~paused'
      BY <1>4 DEF FailCast
    <2>4. QED
      BY <1>2, <2>1, <2>2, <2>3 DEF CastUnderControl, OverIsLast, PauseEndsWithCast
  <1>5. CASE StopCast
    <2>1. UNCHANGED <<isCasting, stopHandle, task, statusQ, paused>>
      BY <1>5 DEF StopCast, radio
    <2>2. QED
      BY <1>2, <2>1 DEF CastUnderControl, OverIsLast, PauseEndsWithCast, Live
  <1>6. CASE PollStatus
    <2>1. Len(statusQ') = 0 /\ UNCHANGED task
      BY <1>6, EmptySeq DEF PollStatus
    <2>2. OverIsLast'
      BY <2>1 DEF OverIsLast
    <2>3. CASE \E i \in 1..Len(statusQ) : statusQ[i].over
      <3>1. ~paused' /\ \A t \in Casts : ~Live(t)'
        BY <1>6, <2>1, <2>3 DEF PollStatus, OverIsLast, Live
      <3>2. QED
        BY <1>2, <2>2, <3>1 DEF CastUnderControl, PauseEndsWithCast
    <2>4. CASE ~ \E i \in 1..Len(statusQ) : statusQ[i].over
      <3>1. UNCHANGED <<isCasting, stopHandle, paused>>
        BY <1>6, <2>4 DEF PollStatus
      <3>2. QED
        BY <1>2, <2>1, <2>2, <3>1 DEF CastUnderControl, PauseEndsWithCast, Live
    <2>5. QED
      BY <2>3, <2>4
  <1>7. QED
    BY <1>3, <1>4, <1>5, <1>6

LEMMA AppNextInv == AppInv /\ [AppNext]_appVars => AppInv'
  <1> SUFFICES ASSUME AppInv, [AppNext]_appVars
               PROVE  AppInv'
    OBVIOUS
  <1>t. AppTypeOK'
    BY AppNextType DEF AppInv
  <1> SUFFICES CastUnderControl' /\ OverIsLast' /\ PauseEndsWithCast' /\ SelectionIsListed'
    BY <1>t DEF AppInv
  <1>1. CASE UNCHANGED <<listed, selected, cast, paused>>
    BY <1>1 DEF AppInv, cast, CastUnderControl, OverIsLast, PauseEndsWithCast,
                SelectionIsListed, Live
  <1>2. ASSUME NEW s \in Sinks, AddReceiver(s) \/ RemoveReceiver(s) \/ Select(s)
        PROVE  CastUnderControl' /\ OverIsLast' /\ PauseEndsWithCast' /\ SelectionIsListed'
    <2>1. UNCHANGED <<isCasting, stopHandle, task, statusQ, paused>>
      BY <1>2 DEF AddReceiver, RemoveReceiver, Select, cast, radio
    <2>2. CastUnderControl' /\ OverIsLast' /\ PauseEndsWithCast'
      BY <2>1 DEF AppInv, CastUnderControl, OverIsLast, PauseEndsWithCast, Live
    <2>3. SelectionIsListed'
      BY <1>2 DEF AppInv, AddReceiver, RemoveReceiver, Select, SelectionIsListed
    <2>4. QED
      BY <2>2, <2>3
  <1>3. ASSUME NEW t \in Casts, Thread(t)
        PROVE  CastUnderControl' /\ OverIsLast' /\ PauseEndsWithCast' /\ SelectionIsListed'
    <2>1. CASE Capture(t)
      BY <2>1, ReportInv DEF Capture, Live
    <2>2. CASE CaptureSucceeds(t)
      BY <2>2, ReportInv DEF CaptureSucceeds, Live
    <2>3. CASE CaptureFails(t)
      BY <2>3, ReportInv DEF CaptureFails, Live
    <2>4. CASE End(t)
      BY <2>4, ReportInv DEF End, Live
    <2>5. QED
      BY <1>3, <2>1, <2>2, <2>3, <2>4 DEF Thread
  <1>4. CASE UNCHANGED appVars
    BY <1>1, <1>4 DEF appVars, discovery, radio
  <1>5. ASSUME NEW i \in 1..Len(calls), CallWpa(i) \/ CallFails(i)
        PROVE  UNCHANGED <<listed, selected, cast, paused>>
    BY <1>5 DEF CallWpa, CallFails, discovery
  <1>6. QED
    BY <1>1, <1>2, <1>3, <1>4, <1>5, ClickInv DEF AppNext

(* The inductive invariant holds throughout. *)
THEOREM AppInvariance == AppSpec => []AppInv
  BY AppInitInv, AppNextInv, PTL DEF AppSpec

(* Start, Stop, the thread's messages and the window that reads them are   *)
(* never at odds: a cast that runs is the one shown and the one that the   *)
(* Stop button stops.                                                      *)
THEOREM Control == AppSpec => []CastUnderControl
  <1>1. AppInv => CastUnderControl
    BY DEF AppInv
  <1>2. QED
    BY <1>1, AppInvariance, PTL

(* p2p_discovery_paused is set only while a cast is shown. *)
THEOREM PauseEnds == AppSpec => []PauseEndsWithCast
  <1>1. AppInv => PauseEndsWithCast
    BY DEF AppInv
  <1>2. QED
    BY <1>1, AppInvariance, PTL

(* Start Casting never goes to a receiver that has left the list. *)
THEOREM Selection == AppSpec => []SelectionIsListed
  <1>1. AppInv => SelectionIsListed
    BY DEF AppInv
  <1>2. QED
    BY <1>1, AppInvariance, PTL

=============================================================================
