------------------------------ MODULE SenderApp ------------------------------
(***************************************************************************)
(* The sender's window: `SenderApp` of crates/openplay-sender/src/app.rs.  *)
(*                                                                         *)
(* The window runs on one thread.  In each frame it takes what discovery   *)
(* found, reads the messages of the casting thread, and then handles       *)
(* clicks.  A cast runs on a thread of its own and reports through the     *)
(* status channel; its last message, told from the others by its wording,  *)
(* is how the window learns that it is over.  The Wi-Fi Direct scan is     *)
(* stopped during casts over the LAN by tasks that nobody waits for, each  *)
(* a sequence of D-Bus calls to wpa_supplicant.                            *)
(***************************************************************************)
EXTENDS Naturals, Sequences

CONSTANTS
    Sinks,          \* receivers that can be found
    Direct,         \* those of them reached by Wi-Fi Direct
    Nameless,       \* those whose loss is reported under another key
    NoSink,
    StatusCap,      \* capacity of the status channel (32 in the code)
    MaxCasts,       \* bound on the casts that are started
    DBusFails       \* calls to wpa_supplicant may fail

ASSUME SinksAssumption == Direct \subseteq Sinks /\ Nameless \subseteq Sinks
ASSUME NoSinkAssumption == NoSink \notin Sinks
ASSUME BoundAssumption == StatusCap \in Nat /\ MaxCasts \in Nat
ASSUME DBusAssumption == DBusFails \in BOOLEAN

VARIABLES
    listed,         \* receivers in the list
    selected,       \* the receiver that is selected
    isCasting,      \* a cast is shown, with its Stop button
    stopHandle,     \* the cast the Stop button stops; 0 if there is none
    task,           \* task[t]: how far the thread of cast t is
    stopFlag,       \* casts whose stop flag is set
    statusQ,        \* the status channel
    started,        \* number of casts so far, which names them
    paused,         \* p2p_discovery_paused
    scan,           \* wpa_supplicant is scanning
    calls           \* calls[i]: what the i-th spawned task has yet to call

discovery == <<listed, selected>>
cast == <<isCasting, stopHandle, task, stopFlag, statusQ, started>>
radio == <<paused, scan, calls>>
appVars == <<discovery, cast, radio>>

Casts == 1..MaxCasts
Live(t) == task[t] \in {"spawned", "capturing", "running"}

(* A status message: who sent it, and whether its wording says that the    *)
(* cast is over ("ended", "failed", "stopped" or "error").                 *)
StatusMessage == [cast : Casts, over : BOOLEAN]

Call == {"Find", "StopFind"}

AppTypeOK ==
    /\ listed \in SUBSET Sinks
    /\ selected \in Sinks \cup {NoSink}
    /\ isCasting \in BOOLEAN
    /\ stopHandle \in Casts \cup {0}
    /\ task \in [Casts -> {"none", "spawned", "capturing", "running", "over"}]
    /\ stopFlag \in SUBSET Casts
    /\ statusQ \in Seq(StatusMessage)
    /\ started \in 0..MaxCasts
    /\ paused \in BOOLEAN
    /\ scan \in BOOLEAN
    /\ calls \in Seq(Seq(Call))

(* The window opens with nothing found, and the scan that                  *)
(* WifiDirectManager::start began is running.                              *)
AppInit ==
    /\ listed = {}
    /\ selected = NoSink
    /\ isCasting = FALSE
    /\ stopHandle = 0
    /\ task = [t \in Casts |-> "none"]
    /\ stopFlag = {}
    /\ statusQ = <<>>
    /\ started = 0
    /\ paused = FALSE
    /\ scan = TRUE
    /\ calls = <<>>

-----------------------------------------------------------------------------
(* The receiver list *)

AddReceiver(s) ==
    /\ s \notin listed
    /\ listed' = listed \cup {s}
    /\ UNCHANGED <<selected, cast, radio>>

(* An infrastructure Miracast receiver is listed by address, and its loss  *)
(* is reported by service name: nothing is removed.                        *)
RemoveReceiverKeepsSelection(s) ==
    /\ s \in listed \ Nameless
    /\ listed' = listed \ {s}
    /\ UNCHANGED <<selected, cast, radio>>

RemoveReceiver(s) ==
    /\ s \in listed \ Nameless
    /\ listed' = listed \ {s}
    /\ selected' = IF selected = s THEN NoSink ELSE selected
    /\ UNCHANGED <<cast, radio>>

Select(s) ==
    /\ s \in listed
    /\ selected' = s
    /\ UNCHANGED <<listed, cast, radio>>

-----------------------------------------------------------------------------
(* The Wi-Fi Direct scan.  Both tasks look for the interface first, which  *)
(* tries Find and StopFind on it.                                          *)

Probe == <<"Find", "StopFind">>
PauseDiscovery == Append(Probe, "StopFind")
ResumeDiscovery == Append(Probe, "Find")

CallWpa(i) ==
    /\ calls[i] # <<>>
    /\ scan' = (Head(calls[i]) = "Find")
    /\ calls' = [calls EXCEPT ![i] = Tail(@)]
    /\ UNCHANGED <<discovery, cast, paused>>

(* A task that meets an error logs it and is over.  Not so in the probe:   *)
(* an interface that refuses Find is passed over, and the first one taken  *)
(* if all do; whether StopFind worked is not looked at.                    *)
CallFails(i) ==
    /\ DBusFails
    /\ calls[i] # <<>>
    /\ \E left \in 0..1 :
          /\ Len(calls[i]) = 2 => left = 1
          /\ Len(calls[i]) = 1 => left = 0
          /\ calls' = [calls EXCEPT ![i] = SubSeq(@, Len(@) - left + 1, Len(@))]
    /\ UNCHANGED <<discovery, cast, paused, scan>>

-----------------------------------------------------------------------------
(* Casts *)

(* start_cast for a receiver that has what its protocol needs.             *)
StartCast ==
    /\ ~isCasting
    /\ selected # NoSink
    /\ started < MaxCasts
    /\ started' = started + 1
    /\ task' = [task EXCEPT ![started + 1] = "spawned"]
    /\ stopHandle' = started + 1
    /\ isCasting' = TRUE
    /\ \/ /\ selected \notin Direct /\ ~paused
          /\ paused' = TRUE
          /\ calls' = Append(calls, PauseDiscovery)
       \/ /\ selected \in Direct \/ paused
          /\ UNCHANGED <<paused, calls>>
    /\ UNCHANGED <<discovery, stopFlag, statusQ, scan>>

(* start_cast for one that has no address, or no fingerprint: fail_cast.   *)
FailCastKeepsPause ==
    /\ ~isCasting
    /\ selected \in Sinks \ Direct
    /\ started < MaxCasts
    /\ started' = started + 1
    /\ stopHandle' = 0
    /\ paused' = TRUE
    /\ calls' = Append(calls, PauseDiscovery)
    /\ UNCHANGED <<discovery, isCasting, task, stopFlag, statusQ, scan>>

FailCast ==
    /\ ~isCasting
    /\ selected \in Sinks \ Direct
    /\ started < MaxCasts
    /\ started' = started + 1
    /\ stopHandle' = 0
    /\ paused' = FALSE
    /\ calls' = IF paused THEN Append(calls, ResumeDiscovery)
                          ELSE calls \o <<PauseDiscovery, ResumeDiscovery>>
    /\ UNCHANGED <<discovery, isCasting, task, stopFlag, statusQ, scan>>

StopCastUnchecked ==
    /\ stopFlag' = stopFlag \cup {stopHandle}
    /\ UNCHANGED <<discovery, isCasting, stopHandle, task, statusQ, started, radio>>

StopCast ==
    /\ isCasting
    /\ stopFlag' = stopFlag \cup ({stopHandle} \ {0})
    /\ UNCHANGED <<discovery, isCasting, stopHandle, task, statusQ, started, radio>>

(* poll_status reads all messages that are there. *)
PollStatusAnyMessage ==
    /\ statusQ # <<>>
    /\ statusQ' = <<>>
    /\ isCasting' = FALSE
    /\ stopHandle' = 0
    /\ paused' = FALSE
    /\ calls' = IF paused THEN Append(calls, ResumeDiscovery) ELSE calls
    /\ UNCHANGED <<discovery, task, stopFlag, started, scan>>

PollStatus ==
    /\ statusQ # <<>>
    /\ statusQ' = <<>>
    /\ \/ /\ \E i \in 1..Len(statusQ) : statusQ[i].over
          /\ isCasting' = FALSE
          /\ stopHandle' = 0
          /\ paused' = FALSE
          /\ calls' = IF paused THEN Append(calls, ResumeDiscovery) ELSE calls
       \/ /\ ~ \E i \in 1..Len(statusQ) : statusQ[i].over
          /\ UNCHANGED <<isCasting, stopHandle, paused, calls>>
    /\ UNCHANGED <<discovery, task, stopFlag, started, scan>>

-----------------------------------------------------------------------------
(* The thread of a cast: start_airplay_cast, start_miracast_cast,          *)
(* start_miracast_p2p_cast and start_openplay_cast report in the same way. *)

Report(t, next, over) ==
    /\ Len(statusQ) < StatusCap
    /\ statusQ' = Append(statusQ, [cast |-> t, over |-> over])
    /\ task' = [task EXCEPT ![t] = next]
    /\ UNCHANGED <<discovery, isCasting, stopHandle, stopFlag, started, radio>>

Capture(t) == task[t] = "spawned" /\ Report(t, "capturing", FALSE)

CaptureSucceeds(t) == task[t] = "capturing" /\ Report(t, "running", FALSE)

CaptureFails(t) == task[t] = "capturing" /\ Report(t, "over", TRUE)

(* The pipeline runner returned, failed, was cancelled or panicked. *)
EndUnreported(t) == task[t] = "running" /\ Report(t, "over", FALSE)

End(t) == task[t] = "running" /\ Report(t, "over", TRUE)

Thread(t) == Capture(t) \/ CaptureSucceeds(t) \/ CaptureFails(t) \/ End(t)

-----------------------------------------------------------------------------

AppNext ==
    \/ \E s \in Sinks : AddReceiver(s) \/ RemoveReceiver(s) \/ Select(s)
    \/ StartCast \/ FailCast \/ StopCast \/ PollStatus
    \/ \E t \in Casts : Thread(t)
    \/ \E i \in 1..Len(calls) : CallWpa(i) \/ CallFails(i)

AppSpec == AppInit /\ [][AppNext]_appVars

(* The window repaints while a cast is shown, so it reads its messages.    *)
(* That casts end is not assumed.                                          *)
FairAppSpec == AppSpec /\ WF_appVars(PollStatus)

-----------------------------------------------------------------------------
(* Properties *)

(* A cast is under control for as long as it runs: it is shown, and the    *)
(* Stop button stops it and not another.  So there is never more than one, *)
(* and none goes on unseen (is_casting and stop_handle, set by start_cast, *)
(* poll_status and fail_cast, against the wording of the messages).        *)
CastUnderControl ==
    \A t \in Casts : Live(t) => isCasting /\ stopHandle = t

(* The scan is asked to pause for a LAN cast and only for it: the flag     *)
(* p2p_discovery_paused is never left set by a cast that is not shown any  *)
(* more, whichever way it ended.                                           *)
PauseEndsWithCast == paused => isCasting

(* The receiver that Start Casting would cast to is one in the list.       *)
SelectionIsListed == selected # NoSink => selected \in listed

(* A cast whose thread is over leaves the window: the Stop button does not *)
(* stay (the comment on the last message in start_openplay_cast).          *)
EndIsNoticed == \A t \in Casts : task[t] = "over" ~> stopHandle # t

(* What makes CastUnderControl inductive: the message that says a cast is  *)
(* over comes after the cast, and before the next one.                     *)
OverIsLast ==
    (\E i \in 1..Len(statusQ) : statusQ[i].over)
        => isCasting /\ \A t \in Casts : ~Live(t)
=============================================================================
