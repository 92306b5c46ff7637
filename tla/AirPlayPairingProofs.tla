------------------------ MODULE AirPlayPairingProofs ------------------------
(***************************************************************************)
(* The properties of AirPlayPairing, for any accessories, careless or not, *)
(* and any number of calls, resets, requests and frames.                   *)
(***************************************************************************)
EXTENDS AirPlayPairing, SequenceTheorems, TLAPS

(* No message is on its way between two calls. *)
Quiet == call = "none" => req = {} /\ rep = {}

(* A transient pair-setup uses the PIN that the accessory uses. *)
TransientPin == call = "transient" => pin = "shown"

(* A pair-verify is with one device, which was paired. *)
UsingMutual == /\ \A d \in using : Mutual(d)
               /\ \A d, e \in using : d = e

(* The client and the accessory are in this pair-setup together. *)
Filed == [id |-> n, ltpk |-> n] \in registered[at] \cup removed[at]

(* What the client seals in a pair-setup is its own. *)
RequestsOwn == call # "verify" => \A m \in req : \A s \in m.sealed : s.id = n /\ s.ltpk = n

(* What the replies show of the accessory, whatever became of them. *)
RepliesKeys == \A m \in rep : m.pk \in SUBSET AccessoryPK
RepliesProve ==
    call # "verify" => \A m \in rep, k \in Key :
        m.proof = {<<"server", k>>} /\ k.pin = "shown" => accKey = {k}
RepliesFiled ==
    call # "verify" => \A m \in rep : \A s \in m.sealed :
        s.id = at /\ s.ltpk \in AccessoryLTPK /\ s.ltpk.of = at /\ Filed
RepliesVerify ==
    call = "verify" => \A m \in rep :
        /\ \A s \in m.sealed : s.key = SharedKey(n, AccPK(at)) /\ s.by.of = at
        /\ m.state = 4 => accKey = {SharedKey(n, AccPK(at))}
Replies == RepliesKeys /\ RepliesProve /\ RepliesFiled /\ RepliesVerify

(* After M2 of a pair-verify the accessory is known. *)
VerifyKnows ==
    call = "verify" /\ awaits = 4 =>
        theirKey = {AccPK(at)} /\ \A d \in using : d.device_id = at

(* A channel is there between the calls only. *)
ChannelAlone == chan.open => call = "none"

(* The counters are ahead of the frames that were sealed. *)
NoncesUsed ==
    \A f \in chan.log :
        /\ f.info = WriteInfo => f.counter < chan.write
        /\ f.info = ReadInfo => f.counter < chan.accWrite

(* A response that is on its way, read up to what is in the buffer.        *)
Response(q, i) == [j \in 1..i |-> Text(q, j, i)]
Coming(q) ==
    \E i \in Nat \ {0} :
        /\ Len(chan.buf) + Len(chan.toClient) = i /\ chan.toClient # <<>>
        /\ \A j \in 1..Len(chan.buf) : chan.buf[j] = Text(q, j, i)
        /\ \A j \in 1..Len(chan.toClient) : chan.toClient[j].text = Text(q, Len(chan.buf) + j, i)

(* One request at a time: it is waiting, being answered, or there is none. *)
Turn ==
    LET q == Len(chan.answered) + 1 IN
    \/ /\ chan.asked = Len(chan.answered)
       /\ chan.toAcc = <<>> /\ chan.toClient = <<>> /\ chan.buf = <<>>
    \/ /\ chan.asked = q /\ Len(chan.toAcc) = 1 /\ chan.toAcc[1].text.request = q
       /\ chan.toClient = <<>> /\ chan.buf = <<>>
    \/ /\ chan.asked = q /\ chan.toAcc = <<>> /\ Coming(q)

Answers ==
    \A i \in 1..Len(chan.answered) : \E j \in Nat \ {0} : chan.answered[i] = Response(i, j)

ChannelInv == chan \in ChannelType /\ NoncesUsed /\ NonceOnce /\ Turn /\ Answers

-----------------------------------------------------------------------------
(* The control channel *)

LEMMA EmptyIff ==
    ASSUME NEW S, NEW s \in Seq(S)
    PROVE  s = <<>> <=> Len(s) = 0
BY EmptySeq

LEMMA FreshChannel ==
    ASSUME NEW key \in SUBSET Key,
           chan' = NoChannel \/ chan' = [NoChannel EXCEPT !.open = TRUE, !.key = key]
    PROVE  ChannelInv'
<1>1. /\ chan' \in ChannelType
      /\ chan'.log = {} /\ chan'.asked = 0 /\ chan'.answered = <<>>
      /\ chan'.toAcc = <<>> /\ chan'.toClient = <<>> /\ chan'.buf = <<>>
  <2>1. CASE chan' = NoChannel
    <3>1. NoChannel \in ChannelType
      BY EmptySeq DEF NoChannel, ChannelType
    <3> QED  BY <2>1, <3>1 DEF NoChannel
  <2>2. CASE chan' = [NoChannel EXCEPT !.open = TRUE, !.key = key]
    <3>1. [NoChannel EXCEPT !.open = TRUE, !.key = key] \in ChannelType
      BY EmptySeq DEF NoChannel, ChannelType
    <3> QED  BY <2>2, <3>1 DEF NoChannel
  <2> QED  BY <2>1, <2>2
<1>2. NoncesUsed' /\ NonceOnce'
  BY <1>1 DEF NoncesUsed, NonceOnce
<1>3. Turn' /\ Answers'
  BY <1>1 DEF Turn, Answers
<1> QED  BY <1>1, <1>2, <1>3 DEF ChannelInv

LEMMA RequestKeeps ==
    ASSUME ChannelInv, Request
    PROVE  ChannelInv' /\ chan'.open = chan.open /\ chan'.key = chan.key
<1> USE DEF ChannelInv
<1>1. PICK key \in chan.key :
        LET f == Frame(key, WriteInfo, chan.write, Text(chan.asked + 1, 1, 1)) IN
        chan' = [chan EXCEPT !.asked = @ + 1, !.write = @ + 1,
                             !.toAcc = Append(@, f), !.log = @ \cup {f}]
  BY DEF Request
<1> DEFINE f == Frame(key, WriteInfo, chan.write, Text(chan.asked + 1, 1, 1))
<1>2. /\ chan.asked \in Nat /\ chan.write \in Nat /\ chan.accWrite \in Nat /\ key \in Key
      /\ chan.log \in SUBSET FrameType /\ chan.toAcc \in Seq(FrameType)
  BY DEF ChannelType
<1>3. /\ f \in FrameType /\ f.info = WriteInfo /\ f.counter = chan.write
      /\ f.text.request = chan.asked + 1
  BY <1>2 DEF FrameType, Frame, WriteInfo, TextType, Text
<1>4. chan' = [chan EXCEPT !.asked = @ + 1, !.write = @ + 1,
                            !.toAcc = Append(@, f), !.log = @ \cup {f}]
  BY <1>1
<1> HIDE DEF f
<1>5. /\ chan'.asked = chan.asked + 1 /\ chan'.write = chan.write + 1
      /\ chan'.toAcc = Append(chan.toAcc, f) /\ chan'.log = chan.log \cup {f}
      /\ chan'.answered = chan.answered /\ chan'.toClient = chan.toClient
      /\ chan'.buf = chan.buf /\ chan'.accWrite = chan.accWrite
      /\ chan'.open = chan.open /\ chan'.key = chan.key
  BY <1>4 DEF ChannelType
<1>6. chan' \in ChannelType
  <2>1. Append(chan.toAcc, f) \in Seq(FrameType) /\ chan.log \cup {f} \in SUBSET FrameType
    BY <1>2, <1>3
  <2>2. chan.asked + 1 \in Nat /\ chan.write + 1 \in Nat
    BY <1>2
  <2> QED  BY <1>4, <2>1, <2>2 DEF ChannelType
<1>7. WriteInfo # ReadInfo
  BY DEF WriteInfo, ReadInfo
<1>8. NoncesUsed'
  BY <1>2, <1>3, <1>5, <1>7 DEF NoncesUsed, FrameType
<1>9. NonceOnce'
  <2>1. \A g \in chan.log : ~(f.info = g.info /\ f.counter = g.counter)
    BY <1>2, <1>3 DEF NoncesUsed, FrameType
  <2> QED  BY <1>5, <2>1 DEF NonceOnce
<1>10. Turn' /\ Answers'
  <2>1. chan.asked = Len(chan.answered) /\ chan.answered \in Seq(Seq(TextType))
    BY DEF Request, ChannelType
  <2>2. chan.toAcc = <<>> /\ chan.toClient = <<>> /\ chan.buf = <<>>
    BY <2>1 DEF Turn
  <2>3. Len(chan'.toAcc) = 1 /\ chan'.toAcc[1] = f
    BY <1>2, <1>3, <1>5, <2>2
  <2> QED  BY <1>3, <1>5, <2>1, <2>2, <2>3 DEF Turn, Answers
<1> QED  BY <1>5, <1>6, <1>8, <1>9, <1>10

LEMMA ServeKeeps ==
    ASSUME ChannelInv, accKey \in SUBSET Key, NEW parts \in 1..MaxParts, Serve(parts)
    PROVE  ChannelInv' /\ chan'.open = chan.open /\ chan'.key = chan.key
<1> USE DEF ChannelInv
<1> DEFINE f == Head(chan.toAcc)
           Out(key) == [i \in 1..parts |->
              Frame(key, ReadInfo, chan.accWrite + i - 1, Text(f.text.request, i, parts))]
<1>1. PICK key \in accKey :
        chan' = [chan EXCEPT !.toAcc = Tail(@), !.accRead = @ + 1, !.accWrite = @ + parts,
                             !.toClient = @ \o Out(key),
                             !.log = @ \cup {Out(key)[i] : i \in 1..parts}]
  BY DEF Serve
<1> DEFINE out == Out(key)
           q == Len(chan.answered) + 1
<1>2. /\ chan.accWrite \in Nat /\ chan.accRead \in Nat /\ chan.write \in Nat /\ key \in Key
      /\ chan.log \in SUBSET FrameType /\ chan.toAcc \in Seq(FrameType)
      /\ chan.toClient \in Seq(FrameType) /\ chan.toAcc # <<>>
      /\ chan.answered \in Seq(Seq(TextType)) /\ chan.buf \in Seq(TextType)
      /\ parts \in Nat \ {0} /\ parts \in Nat
  BY BoundsAssumption DEF ChannelType, Serve
<1>3. f \in FrameType
  BY <1>2
<1>4. /\ chan.asked = q /\ Len(chan.toAcc) = 1 /\ f.text.request = q
      /\ chan.toClient = <<>> /\ chan.buf = <<>>
  BY <1>2 DEF Turn
<1>5. /\ out \in Seq(FrameType) /\ Len(out) = parts
      /\ \A i \in 1..parts : /\ out[i] \in FrameType /\ out[i].info = ReadInfo
                             /\ out[i].counter = chan.accWrite + i - 1
                             /\ out[i].text = Text(q, i, parts)
  <2>1. f.text.request \in Nat
    BY <1>3 DEF FrameType, TextType
  <2>2. \A i \in 1..parts : out[i] \in FrameType
    <3>1. \A i \in 1..parts : chan.accWrite + i - 1 \in Nat
      BY <1>2
    <3>2. \A i \in 1..parts : Text(f.text.request, i, parts) \in TextType
      BY <1>2, <2>1 DEF Text, TextType
    <3>3. \A i \in 1..parts :
             Frame(key, ReadInfo, chan.accWrite + i - 1, Text(f.text.request, i, parts)) \in FrameType
      BY <1>2, <3>1, <3>2 DEF Frame, FrameType, ReadInfo
    <3> QED  BY <3>3
  <2>3. \A i \in 1..parts : /\ out[i].info = ReadInfo
                             /\ out[i].counter = chan.accWrite + i - 1
                             /\ out[i].text = Text(q, i, parts)
    BY <1>4 DEF Frame
  <2>4. out \in [1..parts -> FrameType]
    BY <2>2
  <2> QED  BY <1>2, <2>2, <2>3, <2>4
<1> HIDE DEF Out, f, q
<1>6. /\ chan'.toAcc = Tail(chan.toAcc) /\ chan'.accWrite = chan.accWrite + parts
      /\ chan'.toClient = chan.toClient \o out /\ chan'.write = chan.write
      /\ chan'.log = chan.log \cup {out[i] : i \in 1..parts}
      /\ chan'.answered = chan.answered /\ chan'.asked = chan.asked /\ chan'.buf = chan.buf
      /\ chan'.open = chan.open /\ chan'.key = chan.key
  BY <1>1 DEF ChannelType
<1>7. chan' \in ChannelType
  <2>1. Tail(chan.toAcc) \in Seq(FrameType) /\ chan.toClient \o out \in Seq(FrameType)
    BY <1>2, <1>5
  <2>2. chan.log \cup {out[i] : i \in 1..parts} \in SUBSET FrameType
    BY <1>2, <1>5
  <2>3. chan.accRead + 1 \in Nat /\ chan.accWrite + parts \in Nat
    BY <1>2
  <2> QED  BY <1>1, <2>1, <2>2, <2>3 DEF ChannelType
<1>8. WriteInfo # ReadInfo
  BY DEF WriteInfo, ReadInfo
<1>9. NoncesUsed'
  <2>1. \A i \in 1..parts : out[i].counter < chan'.accWrite
    <3>1. chan.accWrite \in Nat /\ parts \in Nat
      BY <1>2
    <3>2. \A i \in 1..parts : chan.accWrite + i - 1 < chan.accWrite + parts
      BY <3>1
    <3> QED  BY <1>5, <1>6, <3>2
  <2>2. \A g \in chan.log : g.counter \in Nat
    BY <1>2 DEF FrameType
  <2>3. \A g \in chan.log : g.info = ReadInfo => g.counter < chan'.accWrite
    BY <1>2, <1>6, <2>2 DEF NoncesUsed
  <2> QED  BY <1>5, <1>6, <1>8, <2>1, <2>3 DEF NoncesUsed
<1>10. NonceOnce'
  <2>1. \A g \in chan.log, i \in 1..parts :
            ~(out[i].info = g.info /\ out[i].counter = g.counter)
    <3>1. chan.accWrite \in Nat /\ parts \in Nat
      BY <1>2
    <3>2. \A i \in 1..parts : chan.accWrite + i - 1 >= chan.accWrite
      BY <3>1
    <3>3. \A g \in chan.log : g.info = ReadInfo => g.counter \in Nat /\ g.counter < chan.accWrite
      BY <1>2 DEF NoncesUsed, FrameType
    <3>4. \A g \in chan.log, i \in 1..parts :
             g.info = ReadInfo => g.counter # chan.accWrite + i - 1
      BY <3>1, <3>2, <3>3
    <3> QED  BY <1>5, <3>4
  <2>2. \A i, j \in 1..parts : out[i].counter = out[j].counter => i = j
    <3>1. chan.accWrite \in Nat /\ parts \in Nat
      BY <1>2
    <3>2. \A i, j \in 1..parts : chan.accWrite + i - 1 = chan.accWrite + j - 1 => i = j
      BY <3>1
    <3>3. \A i \in 1..parts : out[i].counter = chan.accWrite + i - 1
      BY <1>5
    <3> QED  BY <3>2, <3>3
  <2> QED  BY <1>6, <2>1, <2>2 DEF NonceOnce
<1>11. Turn' /\ Answers'
  <2>1. chan'.toAcc = <<>> /\ chan'.buf = <<>> /\ chan'.asked = q /\ Len(chan'.buf) = 0
    <3>1. Tail(chan.toAcc) \in Seq(FrameType) /\ Len(Tail(chan.toAcc)) = 0
      BY <1>2, <1>4
    <3>2. Tail(chan.toAcc) = <<>>
      BY <3>1, EmptyIff
    <3> QED  BY <1>4, <1>6, <3>2
  <2>2. chan'.toClient = out
    BY <1>4, <1>5, <1>6
  <2>3. out # <<>>
    BY <1>2, <1>5
  <2>4. Coming(q)'
    <3>1. \A j \in 1..Len(chan'.toClient) :
             chan'.toClient[j].text = Text(q, Len(chan'.buf) + j, parts)
      BY <1>2, <1>5, <2>1, <2>2
    <3>2. Len(chan'.buf) + Len(chan'.toClient) = parts
      BY <1>2, <1>5, <2>1, <2>2
    <3>3. q' = q
      BY <1>6 DEF q
    <3>4. chan'.toClient # <<>> /\ \A j \in 1..Len(chan'.buf) : chan'.buf[j] = Text(q, j, parts)
      BY <2>1, <2>2, <2>3
    <3> HIDE DEF out
    <3> QED  BY <1>2, <3>1, <3>2, <3>3, <3>4 DEF Coming
  <2> QED  BY <1>6, <2>1, <2>4 DEF Turn, Answers, q
<1> QED  BY <1>6, <1>7, <1>9, <1>10, <1>11

LEMMA RecvKeeps ==
    ASSUME ChannelInv, Recv
    PROVE  ChannelInv' /\ chan'.open = chan.open /\ chan'.key = chan.key
<1> USE DEF ChannelInv
<1> DEFINE f == Head(chan.toClient)
           whole == Append(chan.buf, f.text)
           q == Len(chan.answered) + 1
           Done == Len(whole) >= f.text.parts
<1>1. /\ chan.toClient # <<>>
      /\ chan' = [chan EXCEPT !.toClient = Tail(@), !.read = @ + 1,
                      !.buf = IF Done THEN <<>> ELSE whole,
                      !.answered = IF Done THEN Append(@, whole) ELSE @]
  BY DEF Recv
<1>2. /\ chan.toClient \in Seq(FrameType) /\ chan.buf \in Seq(TextType) /\ chan.read \in Nat
      /\ chan.answered \in Seq(Seq(TextType)) /\ chan.asked \in Nat
  BY DEF ChannelType
<1>3. f \in FrameType /\ f.text \in TextType /\ f = chan.toClient[1]
  <2>1. f \in FrameType /\ f = chan.toClient[1]
    BY <1>1, <1>2
  <2> QED  BY <2>1 DEF FrameType
<1>4. /\ whole \in Seq(TextType) /\ Len(whole) = Len(chan.buf) + 1
      /\ \A j \in 1..Len(chan.buf) : whole[j] = chan.buf[j]
      /\ whole[Len(chan.buf) + 1] = f.text
  BY <1>2, <1>3
<1>5. chan.asked = q /\ chan.toAcc = <<>> /\ Coming(q)
  BY <1>1 DEF Turn
<1>6. PICK i \in Nat \ {0} :
        /\ Len(chan.buf) + Len(chan.toClient) = i
        /\ \A j \in 1..Len(chan.buf) : chan.buf[j] = Text(q, j, i)
        /\ \A j \in 1..Len(chan.toClient) : chan.toClient[j].text = Text(q, Len(chan.buf) + j, i)
  BY <1>5 DEF Coming
<1>7. f.text = Text(q, Len(chan.buf) + 1, i) /\ f.text.parts = i
  <2>1. 1 \in 1..Len(chan.toClient)
    BY <1>1, <1>2
  <2> QED  BY <1>3, <1>6, <2>1 DEF Text
<1>8. \A j \in 1..Len(whole) : whole[j] = Text(q, j, i)
  BY <1>2, <1>4, <1>6, <1>7
<1> HIDE DEF f, whole, q
<1>9. /\ chan'.toClient = Tail(chan.toClient) /\ chan'.toAcc = chan.toAcc
      /\ chan'.buf = (IF Done THEN <<>> ELSE whole)
      /\ chan'.answered = (IF Done THEN Append(chan.answered, whole) ELSE chan.answered)
      /\ chan'.log = chan.log /\ chan'.write = chan.write /\ chan'.accWrite = chan.accWrite
      /\ chan'.asked = chan.asked /\ chan'.open = chan.open /\ chan'.key = chan.key
  BY <1>1 DEF ChannelType
<1>10. chan' \in ChannelType
  <2>1. Tail(chan.toClient) \in Seq(FrameType) /\ chan.read + 1 \in Nat
    BY <1>1, <1>2
  <2>2. (IF Done THEN <<>> ELSE whole) \in Seq(TextType)
    BY <1>4
  <2>3. (IF Done THEN Append(chan.answered, whole) ELSE chan.answered) \in Seq(Seq(TextType))
    BY <1>2, <1>4
  <2> HIDE DEF Done
  <2> QED  BY <1>1, <2>1, <2>2, <2>3 DEF ChannelType
<1>11. NoncesUsed' /\ NonceOnce'
  BY <1>9 DEF NoncesUsed, NonceOnce
<1>12. /\ Len(Tail(chan.toClient)) = Len(chan.toClient) - 1
       /\ \A j \in 1..Len(Tail(chan.toClient)) : Tail(chan.toClient)[j] = chan.toClient[j + 1]
       /\ Len(chan.toClient) \in Nat \ {0} /\ Len(chan.buf) \in Nat
  BY <1>1, <1>2
<1>13. CASE Done
  <2>1. Len(whole) = i /\ Len(chan.toClient) = 1
    <3>1. Len(whole) >= i /\ Len(whole) = Len(chan.buf) + 1
      BY <1>4, <1>7, <1>13
    <3>2. Len(chan.buf) \in Nat /\ Len(chan.toClient) \in Nat \ {0}
      BY <1>12
    <3>3. Len(chan.buf) + Len(chan.toClient) = i
      BY <1>6
    <3>4. \A b, t \in Nat : b + 1 >= b + t /\ t # 0 => t = 1 /\ b + 1 = b + t
      OBVIOUS
    <3>5. Len(chan.buf) + 1 >= Len(chan.buf) + Len(chan.toClient)
      BY <3>1, <3>3, Zenon
    <3>6. Len(chan.toClient) \in Nat /\ Len(chan.toClient) # 0
      BY <3>2
    <3>7. Len(chan.toClient) = 1 /\ Len(chan.buf) + 1 = Len(chan.buf) + Len(chan.toClient)
      BY <3>2, <3>4, <3>5, <3>6, Zenon
    <3> QED  BY <3>1, <3>3, <3>7, Zenon
  <2>2. chan'.toClient = <<>> /\ chan'.buf = <<>>
    <3>1. Tail(chan.toClient) \in Seq(FrameType) /\ Len(Tail(chan.toClient)) = 0
      BY <1>1, <1>2, <1>12, <2>1
    <3>2. Tail(chan.toClient) = <<>>
      BY <3>1, EmptyIff
    <3> QED  BY <1>9, <1>13, <3>2
  <2>3. chan'.answered = Append(chan.answered, whole) /\ Len(chan'.answered) = q
    BY <1>2, <1>4, <1>9, <1>13 DEF q
  <2>4. Turn'
    BY <1>5, <1>9, <2>2, <2>3 DEF Turn
  <2>5. whole = Response(q, i)
    BY <1>4, <1>8, <2>1 DEF Response
  <2>6. Answers'
    <3>1. \A j \in 1..Len(chan.answered) : chan'.answered[j] = chan.answered[j]
      BY <1>2, <1>4, <2>3
    <3>2. chan'.answered[q] = Response(q, i)
      BY <1>2, <1>4, <2>3, <2>5 DEF q
    <3>3. \A j \in 1..Len(chan'.answered) : j \in 1..Len(chan.answered) \/ j = q
      BY <1>2, <2>3 DEF q
    <3> QED  BY <3>1, <3>2, <3>3 DEF Answers
  <2> QED  BY <1>9, <1>10, <1>11, <2>4, <2>6
<1>14. CASE ~Done
  <2>1. /\ chan'.answered = chan.answered /\ chan'.buf = whole
        /\ chan'.toClient = Tail(chan.toClient)
    BY <1>9, <1>14
  <2>2. Len(whole) < i /\ Len(whole) \in Nat
    BY <1>4, <1>7, <1>12, <1>14
  <2>3. Len(chan'.buf) + Len(chan'.toClient) = i /\ chan'.toClient # <<>>
    <3>1. Len(chan'.buf) + Len(chan'.toClient) = i /\ Len(chan'.toClient) # 0
      <4>1. /\ Len(chan'.buf) = Len(chan.buf) + 1
            /\ Len(chan'.toClient) = Len(chan.toClient) - 1
        BY <1>4, <1>12, <2>1
      <4>2. Len(chan.buf) + Len(chan.toClient) = i /\ Len(chan.buf) + 1 < i
        BY <1>4, <1>6, <2>2
      <4>3. Len(chan.buf) \in Nat /\ Len(chan.toClient) \in Nat
        BY <1>12
      <4>4. \A b, t, k \in Nat : b + t = k /\ b + 1 < k => b + 1 + (t - 1) = k /\ t - 1 # 0
        OBVIOUS
      <4>5. Len(chan.buf) + 1 + (Len(chan.toClient) - 1) = i /\ Len(chan.toClient) - 1 # 0
        BY <4>2, <4>3, <4>4, Zenon
      <4> QED  BY <4>1, <4>5, Zenon
    <3>2. Len(<<>>) = 0
      BY EmptySeq
    <3> QED  BY <3>1, <3>2, Zenon
  <2>4. \A j \in 1..Len(chan'.toClient) : chan'.toClient[j].text = Text(q, Len(chan'.buf) + j, i)
    <3>1. \A j \in 1..Len(Tail(chan.toClient)) :
             j + 1 \in 1..Len(chan.toClient) /\ Len(chan.buf) + (j + 1) = Len(whole) + j
      <4>1. Len(chan.buf) \in Nat /\ Len(chan.toClient) \in Nat
        BY <1>12
      <4>2. Len(Tail(chan.toClient)) = Len(chan.toClient) - 1 /\ Len(whole) = Len(chan.buf) + 1
        BY <1>4, <1>12
      <4>3. \A b, t \in Nat : \A j \in 1..(t - 1) : j + 1 \in 1..t /\ b + (j + 1) = b + 1 + j
        OBVIOUS
      <4>4. \A j \in 1..(Len(chan.toClient) - 1) :
               /\ j + 1 \in 1..Len(chan.toClient)
               /\ Len(chan.buf) + (j + 1) = Len(chan.buf) + 1 + j
        BY <4>1, <4>3, Zenon
      <4> QED  BY <4>2, <4>4, Zenon
    <3>2. \A j \in 1..Len(Tail(chan.toClient)) :
             Tail(chan.toClient)[j].text = Text(q, Len(whole) + j, i)
      <4> TAKE j \in 1..Len(Tail(chan.toClient))
      <4>1. chan.toClient[j + 1].text = Text(q, Len(chan.buf) + (j + 1), i)
        BY <1>6, <3>1, Zenon
      <4> QED  BY <1>12, <3>1, <4>1, Zenon
    <3> QED  BY <2>1, <3>2
  <2>5. Coming(q)'
    BY <1>8, <2>1, <2>3, <2>4 DEF Coming, q
  <2> QED  BY <1>5, <1>9, <1>10, <1>11, <2>1, <2>5 DEF Turn, Answers, q
<1> QED  BY <1>13, <1>14

-----------------------------------------------------------------------------
(* Pairing *)

Agreed ==
    /\ Quiet /\ TransientPin /\ ChannelAlone /\ KeysAgree
    /\ UsingMutual /\ PairingIsMutual
    /\ RequestsOwn /\ VerifyFindsPairing /\ Replies /\ VerifyKnows

PairInv == CallOK /\ FilesOK /\ Agreed

Msg(e, k, pk, proof, sealed) ==
    [status |-> 200, error |-> e, state |-> k, pk |-> pk, proof |-> proof, sealed |-> sealed]

(* An accessory forgets no controller without remembering that it did. *)
LEMMA MutualStays ==
    ASSUME NEW d, Mutual(d),
           registered[d.device_id] \cup removed[d.device_id]
              \subseteq registered'[d.device_id] \cup removed'[d.device_id]
    PROVE  Mutual(d)'
BY DEF Mutual

(* Whatever becomes of a reply, this much of it is as it was sent. *)
LEMMA ReplyFacts ==
    ASSUME NEW e, NEW k, NEW pk, NEW proof, NEW sealed,
           \A s \in sealed : \E a1, a2, a3, a4, a5, a6 : s = Sealed(a1, a2, a3, a4, a5, a6),
           Reply(Msg(e, k, pk, proof, sealed))
    PROVE  /\ req' = {}
           /\ \A x \in rep' :
                /\ x.pk \in {pk, {}, {[of |-> at, in |-> 0]}}
                /\ x.proof \in {proof, {}, {<<"server", SrpKey(n, [of |-> at, in |-> 0], "other")>>}}
                /\ x.state \in {k, 7}
                /\ \A s \in x.sealed : \E t \in sealed :
                      s.key = t.key /\ s.id = t.id /\ s.ltpk = t.ltpk /\ s.by = t.by
<1> DEFINE m == Msg(e, k, pk, proof, sealed)
           spoilt == {[s EXCEPT !.label = "other"] : s \in sealed}
<1>1. \A s \in sealed : LET t == [s EXCEPT !.label = "other"] IN
         t.key = s.key /\ t.id = s.id /\ t.ltpk = s.ltpk /\ t.by = s.by
  BY DEF Sealed
<1>2. \A s \in spoilt : \E t \in sealed :
         s.key = t.key /\ s.id = t.id /\ s.ltpk = t.ltpk /\ s.by = t.by
  BY <1>1
<1>3. PICK x \in Harmless(m) \cup Spoilt(m) : rep' = {x}
  BY DEF Reply
<1>4. /\ x.pk \in {pk, {}, {[of |-> at, in |-> 0]}}
      /\ x.proof \in {proof, {}, {<<"server", SrpKey(n, [of |-> at, in |-> 0], "other")>>}}
      /\ x.state \in {k, 7}
  BY <1>3 DEF Harmless, Spoilt, Msg
<1>5. x.sealed \in {sealed, {}, spoilt}
  BY <1>3 DEF Harmless, Spoilt, Msg
<1>6. req' = {}
  BY DEF Reply
<1> HIDE DEF spoilt
<1> QED  BY <1>2, <1>3, <1>4, <1>5, <1>6

(* A call that fails leaves nothing behind. *)
LEMMA FailKeeps ==
    ASSUME PairInv, call # "none", Fail
    PROVE  PairInv' /\ UNCHANGED chan
<1> USE DEF PairInv
<1>1. /\ call' = "none" /\ awaits' = 0 /\ req' = {} /\ rep' = {}
      /\ using' = {} /\ theirKey' = {} /\ accKey' = {}
      /\ UNCHANGED <<n, at, pin, life, registered, removed, result, db, verified, chan>>
  BY DEF Fail, Return, store
<1>2. CallOK' /\ FilesOK'
  BY <1>1 DEF CallOK, FilesOK
<1>3. ~chan.open
  BY DEF Agreed, ChannelAlone
<1>4. KeysAgree' /\ ChannelAlone' /\ Quiet' /\ TransientPin'
  BY <1>1, <1>3 DEF Agreed, KeysAgree, ChannelAlone, Quiet, TransientPin
<1>5. UsingMutual' /\ PairingIsMutual'
  BY <1>1 DEF Agreed, UsingMutual, PairingIsMutual, Mutual
<1>6. RequestsOwn' /\ VerifyFindsPairing' /\ Replies' /\ VerifyKnows'
  BY <1>1 DEF RequestsOwn, VerifyFindsPairing, Replies, RepliesKeys, RepliesProve,
     RepliesFiled, RepliesVerify, VerifyKnows
<1> QED  BY <1>1, <1>2, <1>4, <1>5, <1>6 DEF Agreed

(* A call begins. *)
LEMMA ConnectKeeps ==
    ASSUME PairInv, NEW kind \in {"transient", "pin", "verify"}, NEW a \in Accessory,
           NEW p \in {"shown", "other"}, kind = "transient" => p = "shown",
           NEW device \in SUBSET PairedDevice, \A d \in device : Mutual(d),
           \A d, e \in device : d = e,
           Connect(kind, a, p, device),
           NEW pk, Send(Msg("absent", 1, pk, {}, {})),
           UNCHANGED <<life, registered, removed, store, chan>>
    PROVE  PairInv' /\ UNCHANGED chan
<1> USE DEF PairInv
<1>1. /\ call = "none" /\ ~chan.open /\ n' = n + 1 /\ n < MaxCalls
      /\ call' = kind /\ awaits' = 2 /\ at' = a /\ pin' = p
      /\ using' = device /\ theirKey' = {} /\ accKey' = {}
  BY DEF Connect
<1>2. rep' = {} /\ req' = {Msg("absent", 1, pk, {}, {})}
  BY DEF Send
<1>3. \A m \in req' : m.state = 1 /\ m.sealed = {}
  BY <1>2 DEF Msg
<1>4. UNCHANGED <<life, registered, removed, result, db, verified, chan>>
  BY DEF store
<1>5. n' \in Calls /\ n' \in 0..MaxCalls
  BY <1>1, BoundsAssumption DEF CallOK, Calls
<1>6. CallOK' /\ FilesOK'
  BY <1>1, <1>4, <1>5 DEF CallOK, FilesOK
<1>7. KeysAgree' /\ ChannelAlone' /\ Quiet' /\ TransientPin'
  BY <1>1, <1>4 DEF Agreed, KeysAgree, ChannelAlone, Quiet, TransientPin
<1>8. UsingMutual' /\ PairingIsMutual'
  BY <1>1, <1>4 DEF Agreed, UsingMutual, PairingIsMutual, Mutual
<1>9. RequestsOwn' /\ VerifyFindsPairing' /\ Replies' /\ VerifyKnows'
  BY <1>1, <1>2, <1>3 DEF RequestsOwn, VerifyFindsPairing, Replies, RepliesKeys, RepliesProve,
     RepliesFiled, RepliesVerify, VerifyKnows
<1> QED  BY <1>4, <1>6, <1>7, <1>8, <1>9 DEF Agreed

(* A call goes on with its next message. *)
LEMMA ProceedKeeps ==
    ASSUME PairInv, call # "none", NEW k \in {4, 6}, NEW m, Proceed(k, m),
           theirKey' \in SUBSET AccessoryPK,
           call # "verify" => \A s \in m.sealed : s.id = n /\ s.ltpk = n,
           call = "verify" =>
              /\ theirKey' = {AccPK(at)} /\ \A d \in using : d.device_id = at
              /\ \E s \in m.sealed : \E c \in registered[at] \cup removed[at] :
                    c.id = s.id /\ c.ltpk = s.by
    PROVE  PairInv' /\ UNCHANGED chan
<1> USE DEF PairInv
<1>1. /\ awaits' = k /\ req' = {m} /\ rep' = {}
      /\ UNCHANGED <<n, call, at, pin, using, accKey, life, registered, removed,
                     result, db, verified, chan>>
  BY DEF Proceed, Send, accessories, store
<1>2. CallOK' /\ FilesOK'
  BY <1>1 DEF CallOK, FilesOK
<1>3. KeysAgree' /\ ChannelAlone' /\ Quiet' /\ TransientPin'
  BY <1>1 DEF Agreed, KeysAgree, ChannelAlone, Quiet, TransientPin
<1>4. UsingMutual' /\ PairingIsMutual'
  BY <1>1 DEF Agreed, UsingMutual, PairingIsMutual, Mutual
<1>5. RequestsOwn' /\ VerifyFindsPairing'
  BY <1>1 DEF RequestsOwn, VerifyFindsPairing
<1>6. Replies'
  BY <1>1 DEF Replies, RepliesKeys, RepliesProve, RepliesFiled, RepliesVerify
<1>7. VerifyKnows'
  BY <1>1 DEF VerifyKnows, AccPK
<1> QED  BY <1>1, <1>2, <1>3, <1>4, <1>5, <1>6, <1>7 DEF Agreed

LEMMA SetupM2Keeps ==
    ASSUME PairInv, SetupM2
    PROVE  PairInv' /\ UNCHANGED chan
<1>1. PICK m \in rep :
         IF m.pk = {} THEN Fail
         ELSE \E b \in m.pk :
            /\ theirKey' = {b}
            /\ Proceed(4, [Blank EXCEPT !.state = 3, !.pk = {n},
                                        !.proof = {<<"client", MyKey(b)>>}])
  BY DEF SetupM2
<1>2. call # "none" /\ call # "verify"
  BY DEF SetupM2
<1>3. CASE Fail
  BY <1>2, <1>3, FailKeeps
<1>4. ASSUME NEW b \in m.pk, theirKey' = {b},
             Proceed(4, [Blank EXCEPT !.state = 3, !.pk = {n},
                                      !.proof = {<<"client", MyKey(b)>>}])
      PROVE  PairInv' /\ UNCHANGED chan
  <2> DEFINE x == [Blank EXCEPT !.state = 3, !.pk = {n}, !.proof = {<<"client", MyKey(b)>>}]
  <2>1. x.sealed = {}
    BY DEF Blank
  <2>2. theirKey' \in SUBSET AccessoryPK
    BY <1>4 DEF PairInv, Agreed, Replies, RepliesKeys
  <2>3. Proceed(4, x)
    BY <1>4
  <2> HIDE DEF x
  <2> QED  BY <1>2, <2>1, <2>2, <2>3, ProceedKeeps
<1> QED  BY <1>1, <1>3, <1>4

LEMMA SetupM4Keeps ==
    ASSUME PairInv, SetupM4
    PROVE  /\ PairInv'
           /\ \/ UNCHANGED chan
              \/ \E key \in SUBSET Key : chan' = [NoChannel EXCEPT !.open = TRUE, !.key = key]
<1>1. PICK m \in rep, b \in theirKey :
          \/ Fail
          \/ /\ ProofFits(m, b) /\ call = "transient"
             /\ Return
             /\ chan' = [NoChannel EXCEPT !.open = TRUE, !.key = {MyKey(b)}]
             /\ UNCHANGED <<using, theirKey, accessories, store>>
          \/ /\ call = "pin"
             /\ UNCHANGED theirKey
             /\ Proceed(6, [Blank EXCEPT !.state = 5, !.sealed =
                   {Sealed(MyKey(b), "PS-Msg05", n, n, n, <<MyKey(b), n, n>>)}])
  BY DEF SetupM4
<1>2. call # "none" /\ call # "verify"
  BY DEF SetupM4
<1>3. CASE Fail
  BY <1>2, <1>3, FailKeeps
<1>4. CASE /\ ProofFits(m, b) /\ call = "transient" /\ Return
           /\ chan' = [NoChannel EXCEPT !.open = TRUE, !.key = {MyKey(b)}]
           /\ UNCHANGED <<using, theirKey, accessories, store>>
  <2>1. /\ call' = "none" /\ awaits' = 0 /\ req' = {} /\ rep' = {}
        /\ UNCHANGED <<n, at, pin, using, theirKey, accKey, life, registered, removed,
                       result, db, verified>>
    BY <1>4 DEF Return, accessories, store
  <2>2. MyKey(b) \in Key /\ MyKey(b).pin = "shown"
    <3>1. pin = "shown" /\ n \in Calls /\ b \in AccessoryPK
      BY <1>2, <1>4 DEF PairInv, Agreed, TransientPin, CallOK
    <3> QED  BY <1>4, <3>1 DEF MyKey, SrpKey, Key
  <2>3. accKey = {MyKey(b)}
    <3>1. m.proof = {<<"server", MyKey(b)>>}
      BY <1>4 DEF ProofFits
    <3>2. \A k \in Key : m.proof = {<<"server", k>>} /\ k.pin = "shown" => accKey = {k}
      BY <1>2 DEF PairInv, Agreed, Replies, RepliesProve
    <3> QED  BY <2>2, <3>1, <3>2, Zenon
  <2>4. chan'.key = {MyKey(b)} /\ {MyKey(b)} \in SUBSET Key
    BY <1>4, <2>2 DEF NoChannel
  <2>5. CallOK' /\ FilesOK'
    BY <2>1 DEF PairInv, CallOK, FilesOK
  <2>6. KeysAgree' /\ ChannelAlone' /\ Quiet' /\ TransientPin'
    BY <2>1, <2>3, <2>4 DEF PairInv, Agreed, KeysAgree, ChannelAlone, Quiet, TransientPin
  <2>7. UsingMutual' /\ PairingIsMutual'
    BY <2>1 DEF PairInv, Agreed, UsingMutual, PairingIsMutual, Mutual
  <2>8. RequestsOwn' /\ VerifyFindsPairing' /\ Replies' /\ VerifyKnows'
    BY <2>1 DEF RequestsOwn, VerifyFindsPairing, Replies, RepliesKeys, RepliesProve,
       RepliesFiled, RepliesVerify, VerifyKnows
  <2> QED  BY <1>4, <2>4, <2>5, <2>6, <2>7, <2>8 DEF PairInv, Agreed
<1>5. CASE /\ call = "pin" /\ UNCHANGED theirKey
           /\ Proceed(6, [Blank EXCEPT !.state = 5, !.sealed =
                 {Sealed(MyKey(b), "PS-Msg05", n, n, n, <<MyKey(b), n, n>>)}])
  <2> DEFINE x == [Blank EXCEPT !.state = 5, !.sealed =
                     {Sealed(MyKey(b), "PS-Msg05", n, n, n, <<MyKey(b), n, n>>)}]
  <2>1. \A s \in x.sealed : s.id = n /\ s.ltpk = n
    BY DEF Blank, Sealed
  <2>2. theirKey' \in SUBSET AccessoryPK
    BY <1>5 DEF PairInv, CallOK
  <2>3. Proceed(6, x)
    BY <1>5
  <2> HIDE DEF x
  <2> QED  BY <1>2, <2>1, <2>2, <2>3, ProceedKeeps
<1> QED  BY <1>1, <1>3, <1>4, <1>5

LEMMA SetupM6Keeps ==
    ASSUME PairInv, SetupM6
    PROVE  PairInv' /\ UNCHANGED chan
<1>1. PICK m \in rep : Fail \/ \E s \in m.sealed :
         /\ result' = {PairedDeviceFrom(s)}
         /\ Return /\ using' = {} /\ theirKey' = {}
         /\ UNCHANGED <<accessories, db, verified, chan>>
  BY DEF SetupM6
<1>2. call = "pin"
  BY DEF SetupM6
<1>3. CASE Fail
  BY <1>2, <1>3, FailKeeps
<1>4. ASSUME NEW s \in m.sealed, result' = {PairedDeviceFrom(s)},
             Return, using' = {}, theirKey' = {},
             UNCHANGED <<accessories, db, verified, chan>>
      PROVE  PairInv' /\ UNCHANGED chan
  <2>1. /\ call' = "none" /\ awaits' = 0 /\ req' = {} /\ rep' = {} /\ using' = {} /\ theirKey' = {}
        /\ UNCHANGED <<n, at, pin, accKey, life, registered, removed, db, verified, chan>>
    BY <1>4 DEF Return, accessories
  <2>2. s.id = at /\ s.ltpk \in AccessoryLTPK /\ s.ltpk.of = at /\ Filed
    BY <1>2 DEF PairInv, Agreed, Replies, RepliesFiled
  <2> DEFINE r == PairedDeviceFrom(s)
  <2>3. /\ r \in PairedDevice /\ r.device_id = at /\ r.accessory_ltpk.of = at
        /\ r.client_pairing_id = n /\ r.client_ltsk = n
    BY <1>2, <2>2 DEF PairedDeviceFrom, PairedDevice, PairInv, CallOK
  <2>4. Mutual(r)
    BY <2>2, <2>3 DEF Mutual, Filed
  <2> HIDE DEF r
  <2>5. result' = {r}
    BY <1>4 DEF r
  <2>6. CallOK' /\ FilesOK'
    BY <2>1, <2>3, <2>5 DEF PairInv, CallOK, FilesOK
  <2>7. KeysAgree' /\ ChannelAlone' /\ Quiet' /\ TransientPin'
    BY <2>1 DEF PairInv, Agreed, KeysAgree, ChannelAlone, Quiet, TransientPin
  <2>8. UsingMutual' /\ PairingIsMutual'
    BY <2>1, <2>4, <2>5 DEF PairInv, Agreed, UsingMutual, PairingIsMutual, Mutual
  <2>9. RequestsOwn' /\ VerifyFindsPairing' /\ Replies' /\ VerifyKnows'
    BY <2>1 DEF RequestsOwn, VerifyFindsPairing, Replies, RepliesKeys, RepliesProve,
       RepliesFiled, RepliesVerify, VerifyKnows
  <2> QED  BY <2>1, <2>6, <2>7, <2>8, <2>9 DEF PairInv, Agreed
<1> QED  BY <1>1, <1>3, <1>4

LEMMA VerifyM2Keeps ==
    ASSUME PairInv, VerifyM2
    PROVE  PairInv' /\ UNCHANGED chan
<1>1. PICK m \in rep, d \in using : Fail \/ \E b \in m.pk, s \in m.sealed :
         /\ OpensVerifyM2(s, SharedKey(n, b), b, d)
         /\ theirKey' = {b}
         /\ Proceed(4, [Blank EXCEPT !.state = 3, !.sealed = {VerifyM3(d, b)}])
  BY DEF VerifyM2
<1>2. call = "verify"
  BY DEF VerifyM2
<1>3. CASE Fail
  BY <1>2, <1>3, FailKeeps
<1>4. ASSUME NEW b \in m.pk, NEW s \in m.sealed,
             OpensVerifyM2(s, SharedKey(n, b), b, d), theirKey' = {b},
             Proceed(4, [Blank EXCEPT !.state = 3, !.sealed = {VerifyM3(d, b)}])
      PROVE  PairInv' /\ UNCHANGED chan
  <2> DEFINE x == [Blank EXCEPT !.state = 3, !.sealed = {VerifyM3(d, b)}]
  <2>1. s.key = SharedKey(n, b) /\ s.by = d.accessory_ltpk
    BY <1>4 DEF OpensVerifyM2
  <2>2. s.key = SharedKey(n, AccPK(at)) /\ s.by.of = at
    BY <1>2 DEF PairInv, Agreed, Replies, RepliesVerify
  <2>3. b = AccPK(at)
    BY <2>1, <2>2 DEF SharedKey
  <2>4. Mutual(d) /\ \A e \in using : e = d
    BY DEF PairInv, Agreed, UsingMutual
  <2>5. d.device_id = at
    BY <2>1, <2>2, <2>4 DEF Mutual
  <2>6. b \in AccessoryPK
    BY DEF PairInv, Agreed, Replies, RepliesKeys
  <2>7. \E t \in x.sealed : \E c \in registered[at] \cup removed[at] : c.id = t.id /\ c.ltpk = t.by
    <3>1. /\ x.sealed = {VerifyM3(d, b)}
          /\ VerifyM3(d, b).id = d.client_pairing_id /\ VerifyM3(d, b).by = d.client_ltsk
      BY DEF Blank, VerifyM3, Sealed
    <3>2. [id |-> d.client_pairing_id, ltpk |-> d.client_ltsk] \in registered[at] \cup removed[at]
      BY <2>4, <2>5 DEF Mutual
    <3> HIDE DEF x
    <3> QED  BY <3>1, <3>2
  <2>8. Proceed(4, x)
    BY <1>4
  <2> HIDE DEF x
  <2>9. theirKey' \in SUBSET AccessoryPK /\ theirKey' = {AccPK(at)}
    BY <1>4, <2>3, <2>6
  <2>10. \A e \in using : e.device_id = at
    BY <2>4, <2>5
  <2> QED  BY <1>2, <2>7, <2>8, <2>9, <2>10, ProceedKeeps
<1> QED  BY <1>1, <1>3, <1>4

LEMMA VerifyM4Keeps ==
    ASSUME PairInv, VerifyM4
    PROVE  PairInv' /\ UNCHANGED chan
<1>1. PICK m \in rep, d \in using, b \in theirKey :
         /\ m.state = 4
         /\ verified' = {[device |-> d, accessory |-> at, mine |-> SharedKey(n, b),
                          theirs |-> accKey]}
         /\ Return /\ using' = {} /\ theirKey' = {}
         /\ UNCHANGED <<accessories, result, db, chan>>
  BY DEF VerifyM4, Accepted, CheckState
<1>2. call = "verify" /\ awaits = 4
  BY DEF VerifyM4
<1>3. /\ call' = "none" /\ awaits' = 0 /\ req' = {} /\ rep' = {} /\ using' = {} /\ theirKey' = {}
      /\ UNCHANGED <<n, at, pin, accKey, life, registered, removed, result, db, chan>>
  BY <1>1 DEF Return, accessories
<1>4. b = AccPK(at) /\ d.device_id = at
  BY <1>2 DEF PairInv, Agreed, VerifyKnows
<1>5. accKey = {SharedKey(n, AccPK(at))}
  BY <1>1, <1>2 DEF PairInv, Agreed, Replies, RepliesVerify
<1>6. \A v \in verified' : v.theirs = {v.mine} /\ v.accessory = v.device.device_id
  BY <1>1, <1>4, <1>5
<1>7. CallOK' /\ FilesOK'
  BY <1>3 DEF PairInv, CallOK, FilesOK
<1>8. KeysAgree' /\ ChannelAlone' /\ Quiet' /\ TransientPin'
  BY <1>3, <1>6 DEF PairInv, Agreed, KeysAgree, ChannelAlone, Quiet, TransientPin
<1>9. UsingMutual' /\ PairingIsMutual'
  BY <1>3 DEF PairInv, Agreed, UsingMutual, PairingIsMutual, Mutual
<1>10. RequestsOwn' /\ VerifyFindsPairing' /\ Replies' /\ VerifyKnows'
  BY <1>3 DEF RequestsOwn, VerifyFindsPairing, Replies, RepliesKeys, RepliesProve,
     RepliesFiled, RepliesVerify, VerifyKnows
<1> QED  BY <1>3, <1>7, <1>8, <1>9, <1>10 DEF PairInv, Agreed

(* An accessory answers: what Agreed needs of the reply. *)
LEMMA AnswerKeeps ==
    ASSUME PairInv, call # "none", accKey' \in SUBSET Key, req' = {},
           UNCHANGED <<client, life, removed, store, chan>>,
           registered' \in [Accessory -> SUBSET Controller],
           \A a \in Accessory : registered[a] \subseteq registered'[a],
           Replies'
    PROVE  PairInv' /\ UNCHANGED chan
<1>1. UNCHANGED <<n, call, awaits, at, pin, using, theirKey, life, removed, result, db, verified, chan>>
  BY DEF client, store
<1>2. CallOK' /\ FilesOK'
  BY <1>1 DEF PairInv, CallOK, FilesOK
<1>3. ~chan.open
  BY DEF PairInv, Agreed, ChannelAlone
<1>4. KeysAgree' /\ ChannelAlone' /\ TransientPin'
  BY <1>1, <1>3 DEF PairInv, Agreed, KeysAgree, ChannelAlone, TransientPin
<1>5. Quiet' /\ RequestsOwn' /\ VerifyFindsPairing'
  BY <1>1 DEF Quiet, RequestsOwn, VerifyFindsPairing
<1>6. UsingMutual' /\ PairingIsMutual'
  <2>1. ASSUME NEW d \in using \cup db \cup result, Mutual(d)
        PROVE  Mutual(d)'
    <3>1. d.device_id \in Accessory
      BY DEF PairInv, CallOK, FilesOK, PairedDevice
    <3>2. registered[d.device_id] \cup removed[d.device_id]
             \subseteq registered'[d.device_id] \cup removed'[d.device_id]
      BY <1>1, <3>1
    <3> QED  BY <2>1, <3>2, MutualStays
  <2> QED  BY <1>1, <2>1 DEF PairInv, Agreed, UsingMutual, PairingIsMutual
<1>7. VerifyKnows'
  BY <1>1 DEF PairInv, Agreed, VerifyKnows, AccPK
<1> QED  BY <1>1, <1>2, <1>4, <1>5, <1>6, <1>7 DEF PairInv, Agreed

(* The keys of this connection, and the made-up one, are of the right kind. *)
LEMMA KeysOK ==
    ASSUME CallOK, call # "none"
    PROVE  /\ AccPK(at) \in AccessoryPK /\ [of |-> at, in |-> 0] \in AccessoryPK
           /\ SrpKey(n, AccPK(at), "shown") \in Key /\ SharedKey(n, AccPK(at)) \in Key
<1>1. n \in Calls /\ n \in 0..MaxCalls /\ 0 \in 0..MaxCalls /\ at \in Accessory
  BY BoundsAssumption DEF CallOK, Calls
<1>2. AccPK(at) \in AccessoryPK /\ [of |-> at, in |-> 0] \in AccessoryPK
  BY <1>1 DEF AccPK, AccessoryPK
<1> QED  BY <1>1, <1>2 DEF SrpKey, SharedKey, Key

LEMMA Blanks ==
    ASSUME NEW k \in Nat, NEW x
    PROVE  /\ [Blank EXCEPT !.state = k, !.pk = x] = Msg("absent", k, x, {}, {})
           /\ [Blank EXCEPT !.state = k, !.proof = x] = Msg("absent", k, {}, x, {})
           /\ [Blank EXCEPT !.state = k, !.sealed = x] = Msg("absent", k, {}, {}, x)
<1>1. [Blank EXCEPT !.state = k] = Msg("absent", k, {}, {}, {})
  BY DEF Blank, Msg
<1>2. [Msg("absent", k, {}, {}, {}) EXCEPT !.pk = x] = Msg("absent", k, x, {}, {})
  BY DEF Msg
<1>3. [Msg("absent", k, {}, {}, {}) EXCEPT !.proof = x] = Msg("absent", k, {}, x, {})
  BY DEF Msg
<1>4. [Msg("absent", k, {}, {}, {}) EXCEPT !.sealed = x] = Msg("absent", k, {}, {}, x)
  BY DEF Msg
<1> QED  BY <1>1, <1>2, <1>3, <1>4, Zenon

(* The proof of another run is no proof under the PIN that is shown. *)
LEMMA OtherProof ==
    ASSUME NEW k, k.pin = "shown"
    PROVE  {<<"server", k>>} \notin {{}, {<<"server", SrpKey(n, [of |-> at, in |-> 0], "other")>>}}
<1> DEFINE y == SrpKey(n, [of |-> at, in |-> 0], "other")
<1>1. y.pin = "other"
  BY DEF SrpKey
<1> HIDE DEF y
<1>2. {<<"server", k>>} = {<<"server", y>>} => <<"server", k>> = <<"server", y>>
  BY Zenon
<1>3. <<"server", k>> = <<"server", y>> => k = y
  OBVIOUS
<1>4. {<<"server", k>>} # {<<"server", y>>}
  BY <1>1, <1>2, <1>3
<1>5. {<<"server", k>>} # {}
  BY Zenon
<1> QED  BY <1>4, <1>5 DEF y

LEMMA RefuseKeeps ==
    ASSUME PairInv, call # "none", Refuse
    PROVE  PairInv' /\ UNCHANGED chan
<1>1. [Blank EXCEPT !.error = "authentication"] = Msg("authentication", 0, {}, {}, {})
  BY DEF Blank, Msg
<1>2. /\ Reply(Msg("authentication", 0, {}, {}, {}))
      /\ UNCHANGED <<accKey, registered, client, life, removed, store, chan>>
  BY <1>1 DEF Refuse, Reply
<1>3. /\ req' = {}
      /\ \A x \in rep' :
            /\ x.pk \in {{}, {[of |-> at, in |-> 0]}}
            /\ x.proof \in {{}, {<<"server", SrpKey(n, [of |-> at, in |-> 0], "other")>>}}
            /\ x.state \in {0, 7} /\ x.sealed = {}
  BY <1>2, ReplyFacts
<1>4. UNCHANGED <<n, call, at>>
  BY <1>2 DEF client
<1>5. [of |-> at, in |-> 0] \in AccessoryPK
  BY KeysOK DEF PairInv
<1>6. Replies'
  <2>1. RepliesProve'
    BY <1>3, <1>4, OtherProof, Zenon DEF RepliesProve
  <2> QED  BY <1>3, <1>4, <1>5, <2>1 DEF Replies, RepliesKeys, RepliesFiled, RepliesVerify
<1>7. accKey' \in SUBSET Key /\ registered' \in [Accessory -> SUBSET Controller]
  BY <1>2 DEF PairInv, FilesOK
<1> QED  BY <1>2, <1>3, <1>6, <1>7, AnswerKeeps

LEMMA AnswerSetupKeeps ==
    ASSUME PairInv, call \notin {"none", "verify"}, NEW m \in req, AnswerSetup(m)
    PROVE  PairInv' /\ UNCHANGED chan
<1> DEFINE key == SrpKey(n, AccPK(at), "shown")
           Opens(s) == s.key = key /\ s.label = "PS-Msg05" /\ s.by = s.ltpk
<1>1. /\ AccPK(at) \in AccessoryPK /\ [of |-> at, in |-> 0] \in AccessoryPK /\ key \in Key
      /\ key.pin = "shown" /\ at \in Accessory /\ n \in Calls
      /\ accKey \in SUBSET Key /\ registered \in [Accessory -> SUBSET Controller]
  BY KeysOK DEF PairInv, CallOK, FilesOK, SrpKey
<1>2. CASE m.state = 1
  <2>1. /\ Reply([Blank EXCEPT !.state = 2, !.pk = {AccPK(at)}])
        /\ UNCHANGED <<accKey, registered>>
    BY <1>2 DEF AnswerSetup
  <2>2. [Blank EXCEPT !.state = 2, !.pk = {AccPK(at)}] = Msg("absent", 2, {AccPK(at)}, {}, {})
    BY Blanks
  <2>3. /\ Reply(Msg("absent", 2, {AccPK(at)}, {}, {}))
        /\ UNCHANGED <<accKey, registered, client, life, removed, store, chan>>
    BY <2>1, <2>2 DEF Reply
  <2>4. /\ req' = {}
        /\ \A x \in rep' :
              /\ x.pk \in {{AccPK(at)}, {}, {[of |-> at, in |-> 0]}}
              /\ x.proof \in {{}, {<<"server", SrpKey(n, [of |-> at, in |-> 0], "other")>>}}
              /\ x.sealed = {}
    BY <2>3, ReplyFacts
  <2>5. UNCHANGED <<n, call, at>>
    BY <2>3 DEF client
  <2>6. Replies'
    <3>1. RepliesProve'
      BY <2>4, <2>5, OtherProof, Zenon DEF RepliesProve
    <3> QED  BY <1>1, <2>4, <2>5, <3>1 DEF Replies, RepliesKeys, RepliesFiled, RepliesVerify
  <2> QED  BY <1>1, <2>3, <2>4, <2>6, AnswerKeeps
<1>3. CASE m.state = 3 /\ (m.proof = {<<"client", key>>} \/ at \in Careless)
  <2>1. /\ accKey' = {key} /\ UNCHANGED registered
        /\ Reply([Blank EXCEPT !.state = 4, !.proof = {<<"server", key>>}])
    BY <1>3 DEF AnswerSetup
  <2>2. [Blank EXCEPT !.state = 4, !.proof = {<<"server", key>>}]
           = Msg("absent", 4, {}, {<<"server", key>>}, {})
    BY Blanks
  <2>3. /\ Reply(Msg("absent", 4, {}, {<<"server", key>>}, {}))
        /\ UNCHANGED <<registered, client, life, removed, store, chan>>
    BY <2>1, <2>2 DEF Reply
  <2> HIDE DEF key
  <2>4. /\ req' = {}
        /\ \A x \in rep' :
              /\ x.pk \in {{}, {[of |-> at, in |-> 0]}}
              /\ x.proof \in {{<<"server", key>>}, {},
                              {<<"server", SrpKey(n, [of |-> at, in |-> 0], "other")>>}}
              /\ x.sealed = {}
    BY <2>3, ReplyFacts
  <2>5. UNCHANGED <<n, call, at>>
    BY <2>3 DEF client
  <2>6. RepliesKeys' /\ RepliesFiled' /\ RepliesVerify'
    BY <1>1, <2>4, <2>5 DEF RepliesKeys, RepliesFiled, RepliesVerify
  <2>7. RepliesProve'
    <3> SUFFICES ASSUME NEW x \in rep', NEW k \in Key, x.proof = {<<"server", k>>}, k.pin = "shown"
                 PROVE  accKey' = {k}
      BY DEF RepliesProve
    <3>1. x.proof = {<<"server", key>>}
      BY <2>4, OtherProof, Zenon
    <3>2. <<"server", k>> = <<"server", key>>
      BY <3>1, Zenon
    <3>3. k = key
      BY <3>2
    <3> QED  BY <2>1, <3>3
  <2> QED  BY <1>1, <2>1, <2>3, <2>4, <2>6, <2>7, AnswerKeeps DEF Replies
<1>4. CASE m.state = 5 /\ \E s \in m.sealed : Opens(s)
  <2> DEFINE out == Sealed(key, "PS-Msg06", at, AccLTPK(at), AccLTPK(at), <<key, at, AccLTPK(at)>>)
  <2>1. PICK s \in m.sealed :
          /\ registered' = [registered EXCEPT ![at] = @ \cup {[id |-> s.id, ltpk |-> s.ltpk]}]
          /\ Reply([Blank EXCEPT !.state = 6, !.sealed = {out}])
          /\ UNCHANGED accKey
    BY <1>4 DEF AnswerSetup
  <2> HIDE DEF out
  <2>2. [Blank EXCEPT !.state = 6, !.sealed = {out}] = Msg("absent", 6, {}, {}, {out})
    BY Blanks
  <2>3. s.id = n /\ s.ltpk = n
    BY DEF PairInv, Agreed, RequestsOwn
  <2>4. AccLTPK(at) \in AccessoryLTPK /\ AccLTPK(at).of = at
    BY <1>1 DEF AccLTPK, AccessoryLTPK, PairInv, FilesOK
  <2>5. /\ out.id = at /\ out.ltpk = AccLTPK(at)
        /\ \A t \in {out} : \E a1, a2, a3, a4, a5, a6 : t = Sealed(a1, a2, a3, a4, a5, a6)
    BY DEF out, Sealed
  <2>6. /\ Reply(Msg("absent", 6, {}, {}, {out}))
        /\ UNCHANGED <<accKey, client, life, removed, store, chan>>
    BY <2>1, <2>2 DEF Reply
  <2>7. /\ req' = {}
        /\ \A x \in rep' :
              /\ x.pk \in {{}, {[of |-> at, in |-> 0]}}
              /\ x.proof \in {{}, {<<"server", SrpKey(n, [of |-> at, in |-> 0], "other")>>}}
              /\ \A t \in x.sealed : t.id = out.id /\ t.ltpk = out.ltpk
    <3>1. /\ req' = {}
          /\ \A x \in rep' :
                /\ x.pk \in {{}, {}, {[of |-> at, in |-> 0]}}
                /\ x.proof \in {{}, {}, {<<"server", SrpKey(n, [of |-> at, in |-> 0], "other")>>}}
                /\ \A t \in x.sealed : \E u \in {out} :
                      t.key = u.key /\ t.id = u.id /\ t.ltpk = u.ltpk /\ t.by = u.by
      BY <2>5, <2>6, ReplyFacts
    <3> QED  BY <3>1
  <2>8. UNCHANGED <<n, call, at, removed>>
    BY <2>6 DEF client
  <2>9. /\ registered' \in [Accessory -> SUBSET Controller]
        /\ \A a \in Accessory : registered[a] \subseteq registered'[a]
        /\ [id |-> n, ltpk |-> n] \in registered'[at]
    <3>1. [id |-> n, ltpk |-> n] \in Controller
      BY <1>1 DEF Controller
    <3> QED  BY <1>1, <2>1, <2>3, <3>1
  <2>10. Filed'
    BY <2>8, <2>9 DEF Filed
  <2>11. RepliesKeys' /\ RepliesProve' /\ RepliesVerify'
    <3>1. RepliesProve'
      BY <2>7, OtherProof, Zenon DEF RepliesProve
    <3> QED  BY <1>1, <2>7, <2>8, <3>1 DEF RepliesKeys, RepliesVerify
  <2>12. RepliesFiled'
    BY <2>4, <2>5, <2>7, <2>8, <2>10 DEF RepliesFiled
  <2> QED  BY <1>1, <2>6, <2>7, <2>9, <2>11, <2>12, AnswerKeeps DEF Replies
<1>5. CASE /\ m.state # 1
           /\ ~(m.state = 3 /\ (m.proof = {<<"client", key>>} \/ at \in Careless))
           /\ ~(m.state = 5 /\ \E s \in m.sealed : Opens(s))
  <2>1. Refuse
    BY <1>5 DEF AnswerSetup
  <2> QED  BY <2>1, RefuseKeeps
<1> QED  BY <1>2, <1>3, <1>4, <1>5

LEMMA AnswerVerifyKeeps ==
    ASSUME PairInv, call = "verify", NEW m \in req, AnswerVerify(m)
    PROVE  PairInv' /\ UNCHANGED chan
<1> DEFINE key == SharedKey(n, AccPK(at))
<1>1. /\ AccPK(at) \in AccessoryPK /\ [of |-> at, in |-> 0] \in AccessoryPK /\ key \in Key
      /\ at \in Accessory /\ accKey \in SUBSET Key
      /\ registered \in [Accessory -> SUBSET Controller]
  BY KeysOK DEF PairInv, CallOK, FilesOK
<1>2. CASE m.state = 1
  <2> DEFINE out == Sealed(key, "PV-Msg02", at, {}, AccLTPK(at), <<AccPK(at), at, n>>)
  <2>1. /\ Reply([Blank EXCEPT !.state = 2, !.pk = {AccPK(at)}, !.sealed = {out}])
        /\ UNCHANGED <<accKey, registered>>
    BY <1>2 DEF AnswerVerify
  <2> HIDE DEF out
  <2>2. [Blank EXCEPT !.state = 2, !.pk = {AccPK(at)}, !.sealed = {out}]
           = Msg("absent", 2, {AccPK(at)}, {}, {out})
    <3>1. [Blank EXCEPT !.state = 2] = Msg("absent", 2, {}, {}, {})
      BY DEF Blank, Msg
    <3>2. /\ [Msg("absent", 2, {}, {}, {}) EXCEPT !.pk = {AccPK(at)}]
                = Msg("absent", 2, {AccPK(at)}, {}, {})
          /\ [Msg("absent", 2, {AccPK(at)}, {}, {}) EXCEPT !.sealed = {out}]
                = Msg("absent", 2, {AccPK(at)}, {}, {out})
      BY DEF Msg
    <3> QED  BY <3>1, <3>2, Zenon
  <2>3. /\ out.key = key /\ out.by.of = at
        /\ \A t \in {out} : \E a1, a2, a3, a4, a5, a6 : t = Sealed(a1, a2, a3, a4, a5, a6)
    BY DEF out, Sealed, AccLTPK
  <2>4. /\ Reply(Msg("absent", 2, {AccPK(at)}, {}, {out}))
        /\ UNCHANGED <<accKey, registered, client, life, removed, store, chan>>
    BY <2>1, <2>2 DEF Reply
  <2>5. /\ req' = {}
        /\ \A x \in rep' :
              /\ x.pk \in {{AccPK(at)}, {}, {[of |-> at, in |-> 0]}}
              /\ x.state \in {2, 7}
              /\ \A t \in x.sealed : t.key = out.key /\ t.by = out.by
    <3>1. /\ req' = {}
          /\ \A x \in rep' :
                /\ x.pk \in {{AccPK(at)}, {}, {[of |-> at, in |-> 0]}}
                /\ x.state \in {2, 7}
                /\ \A t \in x.sealed : \E u \in {out} :
                      t.key = u.key /\ t.id = u.id /\ t.ltpk = u.ltpk /\ t.by = u.by
      BY <2>3, <2>4, ReplyFacts
    <3> QED  BY <3>1
  <2>6. UNCHANGED <<n, call, at>>
    BY <2>4 DEF client
  <2>7. RepliesKeys' /\ RepliesProve' /\ RepliesFiled'
    BY <1>1, <2>5, <2>6 DEF RepliesKeys, RepliesProve, RepliesFiled
  <2>8. RepliesVerify'
    BY <2>3, <2>5, <2>6 DEF RepliesVerify, AccPK
  <2> QED  BY <1>1, <2>4, <2>5, <2>7, <2>8, AnswerKeeps DEF Replies
<1>3. CASE m.state = 3 /\ \E s \in m.sealed : Knows(at, s, key)
  <2>1. accKey' = {key} /\ Reply([Blank EXCEPT !.state = 4]) /\ UNCHANGED registered
    BY <1>3 DEF AnswerVerify
  <2>2. [Blank EXCEPT !.state = 4] = Msg("absent", 4, {}, {}, {})
    BY DEF Blank, Msg
  <2>3. /\ Reply(Msg("absent", 4, {}, {}, {}))
        /\ UNCHANGED <<registered, client, life, removed, store, chan>>
    BY <2>1, <2>2 DEF Reply
  <2>4. /\ req' = {}
        /\ \A x \in rep' : x.pk \in {{}, {[of |-> at, in |-> 0]}} /\ x.sealed = {}
    BY <2>3, ReplyFacts
  <2>5. UNCHANGED <<n, call, at>>
    BY <2>3 DEF client
  <2>6. Replies'
    BY <1>1, <2>1, <2>4, <2>5
    DEF Replies, RepliesKeys, RepliesProve, RepliesFiled, RepliesVerify, AccPK
  <2> QED  BY <1>1, <2>1, <2>3, <2>4, <2>6, AnswerKeeps
<1>4. CASE m.state # 1 /\ ~(m.state = 3 /\ \E s \in m.sealed : Knows(at, s, key))
  <2>1. Refuse
    BY <1>4 DEF AnswerVerify
  <2> QED  BY <2>1, RefuseKeeps
<1> QED  BY <1>2, <1>3, <1>4

(* A pairing is removed at an accessory, or all of them. *)
LEMMA ForgetKeeps ==
    ASSUME PairInv, NEW a \in Accessory, NEW cs \in SUBSET registered[a], Forget(a, cs),
           life' \in [Accessory -> 0..MaxResets]
    PROVE  PairInv' /\ UNCHANGED chan
<1>1. /\ UNCHANGED <<n, call, awaits, at, pin, using, theirKey, req, rep, accKey,
                     result, db, verified, chan>>
      /\ registered' = [registered EXCEPT ![a] = @ \ cs]
      /\ removed' = [removed EXCEPT ![a] = @ \cup cs]
  BY DEF Forget, client, wire, store
<1>2. CallOK' /\ FilesOK'
  BY <1>1 DEF PairInv, CallOK, FilesOK
<1>3. \A x \in Accessory : registered[x] \cup removed[x] = registered'[x] \cup removed'[x]
  BY <1>1 DEF PairInv, FilesOK
<1>4. KeysAgree' /\ ChannelAlone' /\ Quiet' /\ TransientPin' /\ RequestsOwn'
  BY <1>1 DEF PairInv, Agreed, KeysAgree, ChannelAlone, Quiet, TransientPin, RequestsOwn
<1>5. UsingMutual' /\ PairingIsMutual'
  <2>1. ASSUME NEW d \in using \cup db \cup result, Mutual(d)
        PROVE  Mutual(d)'
    <3>1. d.device_id \in Accessory
      BY DEF PairInv, CallOK, FilesOK, PairedDevice
    <3> QED  BY <1>3, <2>1, <3>1, MutualStays
  <2> QED  BY <1>1, <2>1 DEF PairInv, Agreed, UsingMutual, PairingIsMutual
<1>6. at \in Accessory
  BY DEF PairInv, CallOK
<1>7. VerifyFindsPairing'
  BY <1>1, <1>3, <1>6 DEF PairInv, Agreed, VerifyFindsPairing
<1>8. Filed => Filed'
  BY <1>1, <1>3, <1>6 DEF Filed
<1>9. Replies'
  BY <1>1, <1>8 DEF PairInv, Agreed, Replies, RepliesKeys, RepliesProve, RepliesFiled,
     RepliesVerify, AccPK
<1>10. VerifyKnows'
  BY <1>1 DEF PairInv, Agreed, VerifyKnows, AccPK
<1> QED  BY <1>1, <1>2, <1>4, <1>5, <1>7, <1>9, <1>10 DEF PairInv, Agreed

(* The program files or forgets a result. *)
LEMMA StoreKeeps ==
    ASSUME PairInv, StorePairedDevice \/ ResultLost
    PROVE  PairInv' /\ UNCHANGED chan
<1>1. UNCHANGED <<n, call, awaits, at, pin, using, theirKey, req, rep, accKey, life,
                  registered, removed, verified, chan>>
  BY DEF StorePairedDevice, ResultLost, client, wire, accessories
<1>2. db' \cup result' \subseteq db \cup result
  BY DEF StorePairedDevice, ResultLost
<1>3. CallOK' /\ FilesOK'
  BY <1>1, <1>2 DEF PairInv, CallOK, FilesOK
<1>4. UsingMutual' /\ PairingIsMutual'
  BY <1>1, <1>2 DEF PairInv, Agreed, UsingMutual, PairingIsMutual, Mutual
<1>5. KeysAgree' /\ ChannelAlone' /\ Quiet' /\ TransientPin' /\ RequestsOwn' /\ VerifyFindsPairing'
  BY <1>1 DEF PairInv, Agreed, KeysAgree, ChannelAlone, Quiet, TransientPin, RequestsOwn,
     VerifyFindsPairing
<1>6. Replies' /\ VerifyKnows'
  BY <1>1 DEF PairInv, Agreed, Replies, RepliesKeys, RepliesProve, RepliesFiled, RepliesVerify,
     VerifyKnows, AccPK, Filed
<1> QED  BY <1>1, <1>3, <1>4, <1>5, <1>6 DEF PairInv, Agreed

(* What happens on the control channel does not concern the pairings. *)
LEMMA ChannelStepKeeps ==
    ASSUME PairInv, UNCHANGED <<client, wire, accessories, store>>,
           chan'.open = chan.open, chan'.key = chan.key
    PROVE  PairInv'
<1>1. UNCHANGED <<n, call, awaits, at, pin, using, theirKey, req, rep, accKey, life,
                  registered, removed, result, db, verified>>
  BY DEF client, wire, accessories, store
<1>2. CallOK' /\ FilesOK'
  BY <1>1 DEF PairInv, CallOK, FilesOK
<1>3. KeysAgree' /\ ChannelAlone'
  BY <1>1 DEF PairInv, Agreed, KeysAgree, ChannelAlone
<1>4. Quiet' /\ TransientPin' /\ RequestsOwn' /\ VerifyFindsPairing' /\ UsingMutual' /\ PairingIsMutual'
  BY <1>1 DEF PairInv, Agreed, Quiet, TransientPin, RequestsOwn, VerifyFindsPairing,
     UsingMutual, PairingIsMutual, Mutual
<1>5. Replies' /\ VerifyKnows'
  BY <1>1 DEF PairInv, Agreed, Replies, RepliesKeys, RepliesProve, RepliesFiled, RepliesVerify,
     VerifyKnows, AccPK, Filed
<1> QED  BY <1>2, <1>3, <1>4, <1>5 DEF PairInv, Agreed

LEMMA DropKeeps ==
    ASSUME PairInv, DropChannel
    PROVE  PairInv'
<1>1. /\ UNCHANGED <<n, call, awaits, at, pin, using, req, rep, life,
                     registered, removed, result, db, verified>>
      /\ accKey' = {} /\ theirKey' = {} /\ ~chan'.open /\ chan.open
  BY DEF DropChannel, wire, store, NoChannel
<1>2. call = "none" /\ req = {} /\ rep = {}
  BY <1>1 DEF PairInv, Agreed, ChannelAlone, Quiet
<1>3. CallOK' /\ FilesOK'
  BY <1>1 DEF PairInv, CallOK, FilesOK
<1>4. KeysAgree' /\ ChannelAlone' /\ Quiet' /\ TransientPin'
  BY <1>1, <1>2 DEF PairInv, Agreed, KeysAgree, ChannelAlone, Quiet, TransientPin
<1>5. UsingMutual' /\ PairingIsMutual'
  BY <1>1 DEF PairInv, Agreed, UsingMutual, PairingIsMutual, Mutual
<1>6. RequestsOwn' /\ VerifyFindsPairing' /\ Replies' /\ VerifyKnows'
  BY <1>1, <1>2 DEF RequestsOwn, VerifyFindsPairing, Replies, RepliesKeys, RepliesProve,
     RepliesFiled, RepliesVerify, VerifyKnows
<1> QED  BY <1>3, <1>4, <1>5, <1>6 DEF PairInv, Agreed

-----------------------------------------------------------------------------
(* The inductive invariant *)

Inv == PairInv /\ ChannelInv

LEMMA InitInv == Init => Inv
<1> SUFFICES ASSUME Init PROVE Inv
  OBVIOUS
<1>1. CallOK /\ FilesOK
  BY BoundsAssumption DEF Init, CallOK, FilesOK, Calls
<1>2. ~chan.open /\ chan.log = {} /\ chan.asked = 0 /\ chan.answered = <<>>
      /\ chan.toAcc = <<>> /\ chan.toClient = <<>> /\ chan.buf = <<>>
  BY DEF Init, NoChannel
<1>3. Agreed
  BY <1>2 DEF Init, Agreed, Quiet, TransientPin, ChannelAlone, KeysAgree, UsingMutual,
     PairingIsMutual, RequestsOwn, VerifyFindsPairing, Replies, RepliesKeys, RepliesProve,
     RepliesFiled, RepliesVerify, VerifyKnows
<1>4. chan \in ChannelType
  BY EmptySeq DEF Init, NoChannel, ChannelType
<1>5. NoncesUsed /\ NonceOnce /\ Turn /\ Answers
  BY <1>2 DEF NoncesUsed, NonceOnce, Turn, Answers
<1> QED  BY <1>1, <1>3, <1>4, <1>5 DEF Inv, PairInv, ChannelInv

LEMMA StepInv ==
    ASSUME Inv, Next
    PROVE  Inv'
<1>1. PairInv /\ ChannelInv /\ accKey \in SUBSET Key /\ at \in Accessory
  BY DEF Inv, PairInv, FilesOK, CallOK
<1>2. UNCHANGED chan => ChannelInv'
  BY <1>1 DEF ChannelInv, NoncesUsed, NonceOnce, Turn, Coming, Answers
<1>3. ASSUME NEW a \in Accessory, PairSetupTransient(a) PROVE Inv'
  <2>1. [Blank EXCEPT !.state = 1] = Msg("absent", 1, {}, {}, {})
    BY DEF Blank, Msg
  <2>2. PairInv' /\ UNCHANGED chan
    BY <1>1, <1>3, <2>1, ConnectKeeps DEF PairSetupTransient
  <2> QED  BY <1>2, <2>2 DEF Inv
<1>4. ASSUME NEW a \in Accessory, NEW p \in {"shown", "other"}, PairSetup(a, p) PROVE Inv'
  <2>1. [Blank EXCEPT !.state = 1] = Msg("absent", 1, {}, {}, {})
    BY DEF Blank, Msg
  <2>2. PairInv' /\ UNCHANGED chan
    BY <1>1, <1>4, <2>1, ConnectKeeps DEF PairSetup
  <2> QED  BY <1>2, <2>2 DEF Inv
<1>5. ASSUME NEW a \in Accessory, NEW d \in db, PairVerify(a, d) PROVE Inv'
  <2>1. [Blank EXCEPT !.state = 1, !.pk = {n + 1}] = Msg("absent", 1, {n + 1}, {}, {})
    BY Blanks
  <2>2. {d} \in SUBSET PairedDevice /\ Mutual(d)
    BY <1>1 DEF PairInv, FilesOK, Agreed, PairingIsMutual
  <2>3. PairInv' /\ UNCHANGED chan
    BY <1>1, <1>5, <2>1, <2>2, ConnectKeeps DEF PairVerify
  <2> QED  BY <1>2, <2>3 DEF Inv
<1>6. CASE Rejected \/ ConnectionLost
  BY <1>1, <1>2, <1>6, FailKeeps DEF Rejected, ConnectionLost, Inv
<1>7. CASE SetupM2
  BY <1>1, <1>2, <1>7, SetupM2Keeps DEF Inv
<1>8. CASE SetupM4
  BY <1>1, <1>2, <1>8, SetupM4Keeps, FreshChannel DEF Inv
<1>9. CASE SetupM6
  BY <1>1, <1>2, <1>9, SetupM6Keeps DEF Inv
<1>10. CASE VerifyM2
  BY <1>1, <1>2, <1>10, VerifyM2Keeps DEF Inv
<1>11. CASE VerifyM4
  BY <1>1, <1>2, <1>11, VerifyM4Keeps DEF Inv
<1>12. CASE StorePairedDevice \/ ResultLost
  BY <1>1, <1>2, <1>12, StoreKeeps DEF Inv
<1>13. CASE Answer
  <2>1. PICK m \in req : IF call = "verify" THEN AnswerVerify(m) ELSE AnswerSetup(m)
    BY <1>13 DEF Answer
  <2>2. call # "none"
    BY <1>1 DEF PairInv, Agreed, Quiet
  <2> QED  BY <1>1, <1>2, <2>1, <2>2, AnswerVerifyKeeps, AnswerSetupKeeps DEF Inv
<1>14. CASE Request
  BY <1>1, <1>14, RequestKeeps, ChannelStepKeeps DEF Request, Inv
<1>15. ASSUME NEW parts \in 1..MaxParts, Serve(parts) PROVE Inv'
  BY <1>1, <1>15, ServeKeeps, ChannelStepKeeps DEF Serve, Inv
<1>16. CASE Recv
  BY <1>1, <1>16, RecvKeeps, ChannelStepKeeps DEF Recv, Inv
<1>17. CASE DropChannel
  <2>1. chan' = NoChannel
    BY <1>17 DEF DropChannel
  <2>2. ChannelInv'
    BY <2>1, FreshChannel
  <2> QED  BY <1>1, <1>17, <2>2, DropKeeps DEF Inv
<1>18. ASSUME NEW a \in Accessory, Reset(a) PROVE Inv'
  <2>1. life' \in [Accessory -> 0..MaxResets]
    BY <1>1, <1>18, BoundsAssumption DEF Reset, PairInv, FilesOK
  <2>2. PairInv' /\ UNCHANGED chan
    BY <1>1, <1>18, <2>1, ForgetKeeps DEF Reset
  <2> QED  BY <1>2, <2>2 DEF Inv
<1>19. ASSUME NEW a \in Accessory, NEW c \in registered[a], RemovePairing(a, c) PROVE Inv'
  <2>1. life' \in [Accessory -> 0..MaxResets] /\ {c} \in SUBSET registered[a]
    BY <1>1, <1>19 DEF RemovePairing, PairInv, FilesOK
  <2>2. PairInv' /\ UNCHANGED chan
    BY <1>1, <1>19, <2>1, ForgetKeeps DEF RemovePairing
  <2> QED  BY <1>2, <2>2 DEF Inv
<1> QED
  BY <1>3, <1>4, <1>5, <1>6, <1>7, <1>8, <1>9, <1>10, <1>11, <1>12, <1>13, <1>14, <1>15,
     <1>16, <1>17, <1>18, <1>19
  DEF Next, Client, Channel

LEMMA StutterInv ==
    ASSUME Inv, UNCHANGED vars
    PROVE  Inv'
<1>1. UNCHANGED <<client, wire, accessories, store, chan>>
  BY DEF vars
<1>2. PairInv'
  BY <1>1, ChannelStepKeeps DEF Inv
<1>3. ChannelInv'
  BY <1>1 DEF Inv, ChannelInv, NoncesUsed, NonceOnce, Turn, Coming, Answers
<1> QED  BY <1>2, <1>3 DEF Inv

LEMMA Invariance == Spec => []Inv
<1>1. Inv /\ [Next]_vars => Inv'
  BY StepInv, StutterInv
<1> QED  BY InitInv, <1>1, PTL DEF Spec

(* Every variable keeps its type: what pair_setup returns is a device that *)
(* can be stored, and the counters of the channel stay natural numbers.    *)
THEOREM PairingTypeCorrect == Spec => []PairingTypeOK
<1>1. Inv => PairingTypeOK
  BY DEF Inv, PairInv, ChannelInv, PairingTypeOK
<1> QED  BY <1>1, Invariance, PTL

(* A record of a pairing is matched by one at the accessory, unless that   *)
(* was told to forget it (pair_setup_identity_exchange).                   *)
THEOREM MutualPairing == Spec => []PairingIsMutual
<1>1. Inv => PairingIsMutual
  BY DEF Inv, PairInv, Agreed
<1> QED  BY <1>1, Invariance, PTL

(* M3 of pair-verify goes only to an accessory that has, or has removed,   *)
(* the pairing it names (verify_m3_sub_tlv).                               *)
THEOREM VerifyIsFound == Spec => []VerifyFindsPairing
<1>1. Inv => VerifyFindsPairing
  BY DEF Inv, PairInv, Agreed
<1> QED  BY <1>1, Invariance, PTL

(* Both ends hold the same key when a control channel opens and when       *)
(* pair_verify returns, and the accessory is the one of the record         *)
(* (pair_setup_transient, pair_verify).                                    *)
THEOREM KeyAgreement == Spec => []KeysAgree
<1>1. Inv => KeysAgree
  BY DEF Inv, PairInv, Agreed
<1> QED  BY <1>1, Invariance, PTL

(* No key and nonce seal two different frames (the counters of             *)
(* ControlChannel).                                                        *)
THEOREM NoncesOnce == Spec => []NonceOnce
<1>1. Inv => NonceOnce
  BY DEF Inv, ChannelInv
<1> QED  BY <1>1, Invariance, PTL

(* request returns the response to its own request, whole and in order     *)
(* (ControlChannel::request).                                              *)
THEOREM MatchingResponses == Spec => []ResponseMatches
<1>1. ASSUME Inv PROVE ResponseMatches
  <2> SUFFICES ASSUME NEW i \in 1..Len(chan.answered)
               PROVE  LET parts == chan.answered[i][1].parts IN
                      chan.answered[i] = [j \in 1..parts |-> Text(i, j, parts)]
    BY DEF ResponseMatches
  <2>1. PICK k \in Nat \ {0} : chan.answered[i] = Response(i, k)
    BY <1>1 DEF Inv, ChannelInv, Answers
  <2>2. chan.answered[i][1] = Text(i, 1, k)
    BY <2>1 DEF Response
  <2>3. chan.answered[i][1].parts = k
    BY <2>2 DEF Text
  <2> QED  BY <2>1, <2>3 DEF Response
<1>2. Inv => ResponseMatches
  BY <1>1
<1> QED  BY <1>2, Invariance, PTL

=============================================================================
