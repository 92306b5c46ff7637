--------------------------- MODULE MessageFraming ---------------------------
(***************************************************************************)
(* Reading messages with a header and a body off a TCP connection.  Three  *)
(* readers do it: RtspConnection::read_message (crates/openplay-miracast/  *)
(* src/rtsp_server.rs), read_http_response (crates/openplay-airplay/src/   *)
(* http_session.rs) and recv_response (hap_pairing.rs).  The bytes arrive  *)
(* in any pieces.  A Miracast sink may send its next message before the    *)
(* one before is read, and the keep-alive timer cancels a read midway; an  *)
(* AirPlay receiver answers one request at a time.                         *)
(*                                                                         *)
(* A byte of a message is a token: its first line, a Content-Length line,  *)
(* half of the blank line that ends a header, or data.  Bodies may look    *)
(* like the end of a header.                                               *)
(***************************************************************************)
EXTENDS Naturals, Sequences

CONSTANTS
    MaxMessages,    \* bound on the messages the peer sends
    MaxBody,        \* bound on the length of their bodies
    MaxBuffer       \* MAX_MESSAGE_BYTES, 64 KiB in the code

ASSUME FramingAssumption == {MaxMessages, MaxBody, MaxBuffer} \subseteq Nat

VARIABLES
    reader,         \* which of the three reads
    sent,           \* the messages the peer has sent
    net,            \* bytes on their way
    closed,         \* the peer has closed its end
    reading,        \* a read is going on
    buf,            \* bytes received and not consumed
    got,            \* history: the bytes of the messages returned
    failed          \* the reader has returned an error

vars == <<reader, sent, net, closed, reading, buf, got, failed>>

(* How a peer may write the name of the header: both ways the AirPlay      *)
(* readers look for, without the space that recv_response wants, and in    *)
(* another case, which only the RTSP reader takes.                         *)
Spelling == {"Content-Length: ", "content-length: ", "Content-Length:", "CONTENT-LENGTH: "}
Understands(r, s) ==
    CASE r = "rtsp" -> TRUE
      [] r = "http" -> s # "CONTENT-LENGTH: "
      [] r = "hap" -> s \in {"none", "Content-Length: ", "content-length: "}

End == <<"end">>
Data == <<"data">>
Bodies == UNION {[1..k -> {End, Data}] : k \in 0..MaxBody}
Messages ==
    [spelling : Spelling, body : Bodies \ {<<>>}] \cup [spelling : {"none"}, body : {<<>>}]

Bytes(i, m) ==
    << <<"first", i>> >>
    \o (IF m.body = <<>> THEN <<>> ELSE << <<"length", Len(m.body), m.spelling>> >>)
    \o <<End, End>> \o m.body

Token == ({"first"} \X Nat) \cup ({"length"} \X Nat \X Spelling) \cup {End, Data}

FramingTypeOK ==
    /\ reader \in {"rtsp", "http", "hap"}
    /\ sent \in Seq(Messages) /\ got \in Seq(Seq(Token))
    /\ net \in Seq(Token) /\ buf \in Seq(Token)
    /\ closed \in BOOLEAN /\ reading \in BOOLEAN /\ failed \in BOOLEAN

-----------------------------------------------------------------------------
(* Where a message ends *)

(* The first blank line; 0 while there is none.                            *)
HeaderEnd(b) ==
    IF \E i \in 1..Len(b) - 1 : b[i] = End /\ b[i + 1] = End
    THEN CHOOSE i \in 1..Len(b) - 1 :
            /\ b[i] = End /\ b[i + 1] = End
            /\ \A j \in 1..i - 1 : ~(b[j] = End /\ b[j + 1] = End)
    ELSE 0

(* The first length line of the header that the reader understands.        *)
ContentLength(r, b) ==
    LET lines == {i \in 1..HeaderEnd(b) : b[i][1] = "length" /\ Understands(r, b[i][3])} IN
    IF lines = {} THEN 0
    ELSE b[CHOOSE i \in lines : \A j \in lines : i <= j][2]

FramedLen(r, b) == HeaderEnd(b) + 1 + ContentLength(r, b)
Framed(r, b) == HeaderEnd(b) # 0 /\ Len(b) >= FramedLen(r, b)

-----------------------------------------------------------------------------

Init ==
    /\ reader \in {"rtsp", "http", "hap"}
    /\ sent = <<>> /\ net = <<>> /\ closed = FALSE
    /\ reading = FALSE /\ buf = <<>> /\ got = <<>> /\ failed = FALSE

(* read_message, or a request and the read of its response.                *)
StartRead ==
    /\ ~reading /\ ~failed
    /\ reading' = TRUE
    /\ UNCHANGED <<reader, sent, net, closed, buf, got, failed>>

(* The peer: a sink speaks when it likes, a receiver when it is asked.     *)
PeerSends(m) ==
    /\ ~closed /\ Len(sent) < MaxMessages
    /\ reader = "rtsp" \/ (reading /\ Len(sent) = Len(got))
    /\ sent' = Append(sent, m)
    /\ net' = net \o Bytes(Len(sent) + 1, m)
    /\ UNCHANGED <<reader, closed, reading, buf, got, failed>>

PeerCloses ==
    /\ ~closed
    /\ closed' = TRUE
    /\ UNCHANGED <<reader, sent, net, reading, buf, got, failed>>

(* A message is in the buffer whole.  Of what follows it only the RTSP     *)
(* reader keeps anything; read_http_response returns it with the body.     *)
TakeMessageOnly ==
    /\ reading /\ Framed(reader, buf)
    /\ got' = Append(got, SubSeq(buf, 1, FramedLen(reader, buf)))
    /\ buf' = <<>>
    /\ reading' = FALSE
    /\ UNCHANGED <<reader, sent, net, closed, failed>>

TakeMessage ==
    /\ reading /\ Framed(reader, buf)
    /\ LET len == FramedLen(reader, buf) IN
       /\ got' = Append(got, IF reader = "http" THEN buf ELSE SubSeq(buf, 1, len))
       /\ buf' = IF reader = "rtsp" THEN SubSeq(buf, len + 1, Len(buf)) ELSE <<>>
    /\ reading' = FALSE
    /\ UNCHANGED <<reader, sent, net, closed, failed>>

(* Two readers give up on what grows too long without an end in sight.     *)
TooLarge ==
    /\ ~Framed(reader, buf) /\ Len(buf) > MaxBuffer
    /\ reader = "rtsp" \/ (reader = "http" /\ HeaderEnd(buf) = 0)

(* One read of the socket brings any number of the bytes that wait there.  *)
(* With the header complete, read_http_response asks for no more than the  *)
(* body lacks.                                                             *)
Receive(k) ==
    /\ reading /\ ~Framed(reader, buf) /\ ~TooLarge
    /\ (reader = "http" /\ HeaderEnd(buf) # 0) => k <= FramedLen(reader, buf) - Len(buf)
    /\ buf' = buf \o SubSeq(net, 1, k)
    /\ net' = SubSeq(net, k + 1, Len(net))
    /\ UNCHANGED <<reader, sent, closed, reading, got, failed>>

ReceiveSome == \E k \in 1..Len(net) : Receive(k)

GiveUp ==
    /\ reading
    /\ TooLarge \/ (~Framed(reader, buf) /\ net = <<>> /\ closed)
    /\ failed' = TRUE /\ reading' = FALSE
    /\ UNCHANGED <<reader, sent, net, closed, buf, got>>

CancelDropsBuffer ==
    /\ reader = "rtsp" /\ reading /\ ~Framed(reader, buf)
    /\ reading' = FALSE /\ buf' = <<>>
    /\ UNCHANGED <<reader, sent, net, closed, got, failed>>

(* The timer of serve_control_channel_every drops the read where it waits  *)
(* for the socket; what it had received stays in the connection.           *)
Cancel ==
    /\ reader = "rtsp" /\ reading /\ ~Framed(reader, buf)
    /\ reading' = FALSE
    /\ UNCHANGED <<reader, sent, net, closed, buf, got, failed>>

-----------------------------------------------------------------------------

Next ==
    \/ StartRead \/ TakeMessage \/ ReceiveSome \/ GiveUp \/ Cancel \/ PeerCloses
    \/ \E m \in Messages : PeerSends(m)

(* The session reads on, and a read that finds bytes time and again is not *)
(* cancelled each time: the timer runs for ten seconds.                    *)
Fairness ==
    /\ WF_vars(StartRead) /\ WF_vars(TakeMessage)
    /\ SF_vars(ReceiveSome) /\ SF_vars(GiveUp)

Spec == Init /\ [][Next]_vars
FairSpec == Spec /\ Fairness

-----------------------------------------------------------------------------
(* Properties *)

Understood(k) == \A i \in 1..Len(sent) : i <= k => Understands(reader, sent[i].spelling)

(* rtsp_server.rs, RtspConnection: a sink may "put M6 SETUP and M7 PLAY in *)
(* one TCP segment", and a timeout cancels the read; neither may lose or   *)
(* move a byte.  The messages read are those sent, in order and whole, in  *)
(* whatever pieces they arrive, as long as the reader understands how      *)
(* their length is written.                                                *)
ReadsAsSent ==
    \A i \in 1..Len(got) :
        Understood(i) => i <= Len(sent) /\ got[i] = Bytes(i, sent[i])

(* A message that was sent is read, or the reader says why not.            *)
EveryMessageRead ==
    \A i \in 1..MaxMessages : Len(sent) >= i ~> (Len(got) >= i \/ failed)

=============================================================================
