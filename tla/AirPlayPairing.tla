--------------------------- MODULE AirPlayPairing ---------------------------
(***************************************************************************)
(* HomeKit pairing with AirPlay accessories: pair-setup, transient or with *)
(* a PIN, and pair-verify (crates/openplay-airplay/src/hap_pairing.rs),    *)
(* the table of paired devices, and the encrypted control channel that     *)
(* follows a transient pair-setup (control_channel.rs).                    *)
(*                                                                         *)
(* Cryptography is symbolic: a key is what went into it, a signature names *)
(* its key and what it covers, a sealed message names its key and nonce.   *)
(* Every call of the client draws fresh secrets, an ephemeral key, a       *)
(* pairing identifier and a long-term key; all of them are written as the  *)
(* number of the call.  A TLV that may be missing is a set of at most one  *)
(* value, as tlv8::lookup returns it.                                      *)
(*                                                                         *)
(* The accessories are modelled from what the client expects of them.      *)
(* They may be reset or lose single pairings, any reply may be refused,    *)
(* lost or damaged, and another accessory may answer at the address.       *)
(***************************************************************************)
EXTENDS Naturals, Sequences

CONSTANTS
    Accessory,      \* accessories, named by their identifier
    Careless,       \* those that go on when the proof of a client is wrong
    MaxCalls,       \* bound on the calls of the client
    MaxResets,      \* bound on the resets of an accessory
    MaxRequests,    \* bound on the requests over one control channel
    MaxParts        \* bound on the frames of one response

ASSUME CarelessAssumption == Careless \subseteq Accessory
ASSUME BoundsAssumption ==
    {MaxCalls, MaxResets, MaxRequests, MaxParts} \subseteq Nat

VARIABLES
    n,              \* the call in progress or the last one, by number
    call,           \* what it is
    awaits,         \* the message it waits for: 2, 4 or 6
    at,             \* the accessory that answers
    pin,            \* whether the user typed the PIN the accessory shows
    using,          \* the paired device of a pair-verify, as a set
    theirKey,       \* the public key of the accessory, as received
    req,            \* the request on its way, as a set
    rep,            \* the reply on its way, as a set
    accKey,         \* the keys the accessory holds for this connection
    life,           \* life[a]: how often a was reset
    registered,     \* registered[a]: the controllers a knows
    removed,        \* history: the controllers a has forgotten
    result,         \* a completed pair-setup not stored yet, as a set
    db,             \* the table paired_devices
    verified,       \* history: completed pair-verify calls
    chan            \* the control channel

client == <<n, call, awaits, at, pin, using, theirKey>>
wire == <<req, rep>>
accessories == <<accKey, life, registered, removed>>
store == <<result, db, verified>>
vars == <<client, wire, accessories, store, chan>>

Calls == 1..MaxCalls
AccessoryPK == [of : Accessory, in : 0..MaxCalls]      \* in = 0: made up
AccessoryLTPK == [of : Accessory, life : 0..MaxResets]
PairedDevice ==
    [device_id : Accessory, client_pairing_id : Calls,
     accessory_ltpk : AccessoryLTPK, client_ltsk : Calls]
Controller == [id : Calls, ltpk : Calls]

(* The SRP session key: it agrees when the exponents and the PIN do.       *)
SrpKey(a, b, p) == [a |-> a, b |-> b, pin |-> p]
(* The key both sides derive from an X25519 exchange.                      *)
SharedKey(a, b) == [a |-> a, b |-> b, pin |-> "none"]
Key == [a : Calls, b : AccessoryPK, pin : {"shown", "other", "none"}]

MyKey(b) == IF call = "verify" THEN SharedKey(n, b) ELSE SrpKey(n, b, pin)
AccPK(a) == [of |-> a, in |-> n]
AccLTPK(a) == [of |-> a, life |-> life[a]]

Blank == [status |-> 200, error |-> "absent", state |-> 0, pk |-> {}, proof |-> {}, sealed |-> {}]

(* A sub-TLV with a signature, sealed under a key and a nonce label.       *)
Sealed(key, label, id, ltpk, by, over) ==
    [key |-> key, label |-> label, id |-> id, ltpk |-> ltpk, by |-> by, over |-> over]

NoChannel ==
    [open |-> FALSE, key |-> {}, asked |-> 0, answered |-> <<>>, buf |-> <<>>,
     write |-> 0, read |-> 0, accWrite |-> 0, accRead |-> 0,
     toAcc |-> <<>>, toClient |-> <<>>, log |-> {}]

TextType == [request : Nat, part : Nat, parts : Nat]
FrameType ==
    [key : Key, counter : Nat, text : TextType,
     info : {"Control-Write-Encryption-Key", "Control-Read-Encryption-Key"}]
ChannelType ==
    [open : BOOLEAN, key : SUBSET Key, asked : Nat, answered : Seq(Seq(TextType)),
     buf : Seq(TextType), write : Nat, read : Nat, accWrite : Nat, accRead : Nat,
     toAcc : Seq(FrameType), toClient : Seq(FrameType), log : SUBSET FrameType]

CallOK ==
    /\ n \in 0..MaxCalls /\ (call # "none" => n \in Calls)
    /\ call \in {"none", "transient", "pin", "verify"} /\ awaits \in {0, 2, 4, 6}
    /\ at \in Accessory /\ pin \in {"shown", "other"}
    /\ using \in SUBSET PairedDevice /\ theirKey \in SUBSET AccessoryPK

FilesOK ==
    /\ accKey \in SUBSET Key
    /\ life \in [Accessory -> 0..MaxResets]
    /\ registered \in [Accessory -> SUBSET Controller]
    /\ removed \in [Accessory -> SUBSET Controller]
    /\ result \in SUBSET PairedDevice /\ db \in SUBSET PairedDevice

PairingTypeOK == CallOK /\ FilesOK /\ chan \in ChannelType

Init ==
    /\ n = 0 /\ call = "none" /\ awaits = 0 /\ pin = "shown"
    /\ at \in Accessory
    /\ using = {} /\ theirKey = {} /\ req = {} /\ rep = {}
    /\ accKey = {}
    /\ life = [a \in Accessory |-> 0]
    /\ registered = [a \in Accessory |-> {}]
    /\ removed = [a \in Accessory |-> {}]
    /\ result = {} /\ db = {} /\ verified = {}
    /\ chan = NoChannel

-----------------------------------------------------------------------------
(* The client's calls *)

Send(m) == req' = {m} /\ rep' = {}

Connect(kind, a, p, device) ==
    /\ call = "none" /\ ~chan.open /\ result = {} /\ n < MaxCalls
    /\ n' = n + 1
    /\ call' = kind /\ awaits' = 2 /\ at' = a /\ pin' = p
    /\ using' = device /\ theirKey' = {} /\ accKey' = {}

(* pair_setup_transient always uses the PIN 3939, which needs no typing.   *)
PairSetupTransient(a) ==
    /\ Connect("transient", a, "shown", {})
    /\ Send([Blank EXCEPT !.state = 1])
    /\ UNCHANGED <<life, registered, removed, store, chan>>

PairSetup(a, p) ==
    /\ Connect("pin", a, p, {})
    /\ Send([Blank EXCEPT !.state = 1])
    /\ UNCHANGED <<life, registered, removed, store, chan>>

(* pair_verify with a device from the table, at the address that the       *)
(* device had: whichever accessory is there now answers.                   *)
PairVerify(a, d) ==
    /\ Connect("verify", a, "shown", {d})
    /\ Send([Blank EXCEPT !.state = 1, !.pk = {n + 1}])
    /\ UNCHANGED <<life, registered, removed, store, chan>>

(* The call returns; with it goes the connection, unless it is handed to   *)
(* the control channel.                                                    *)
Return ==
    /\ call' = "none" /\ awaits' = 0
    /\ req' = {} /\ rep' = {}
    /\ UNCHANGED <<n, at, pin>>

Fail ==
    /\ Return
    /\ using' = {} /\ theirKey' = {} /\ accKey' = {}
    /\ UNCHANGED <<life, registered, removed, store, chan>>

(* A status line that is none lets the body decide.  An error TLV that is  *)
(* empty or kTLVError_None is no error; back-off is one of its own kind.   *)
CheckHttpStatus(m) == m.status \in {0} \cup 200..299
CheckError(m) == m.error \in {"absent", "none"}
CheckState(m, k) == m.state = k
Accepted(m, k) == CheckHttpStatus(m) /\ CheckError(m) /\ CheckState(m, k)

(* Every refusal, every check that fails and every lost connection ends    *)
(* the call with an error.                                                 *)
Rejected ==
    /\ call # "none" /\ rep # {}
    /\ \E m \in rep : ~Accepted(m, awaits)
    /\ Fail

ConnectionLost ==
    /\ call # "none"
    /\ Fail

Proceed(k, m) ==
    /\ awaits' = k /\ Send(m)
    /\ UNCHANGED <<n, call, at, pin, using, accessories, store, chan>>

(* M2 of pair-setup: client_compute aborts on a B that is 0 modulo N,      *)
(* written as an empty pk; any other is taken.                             *)
SetupM2 ==
    /\ call \in {"transient", "pin"} /\ awaits = 2
    /\ \E m \in rep :
          /\ Accepted(m, 2)
          /\ IF m.pk = {} THEN Fail
             ELSE \E b \in m.pk :
                /\ theirKey' = {b}
                /\ Proceed(4, [Blank EXCEPT !.state = 3, !.pk = {n},
                                            !.proof = {<<"client", MyKey(b)>>}])

ProofFitsAny(m, b) == m.proof # {}
ProofFits(m, b) == m.proof = {<<"server", MyKey(b)>>}

(* M4 of pair-setup.  A transient pairing ends here, and keys the control  *)
(* channel; the other goes on with M5.                                     *)
SetupM4 ==
    /\ call \in {"transient", "pin"} /\ awaits = 4
    /\ \E m \in rep, b \in theirKey :
          /\ Accepted(m, 4)
          /\ \/ ~ProofFits(m, b) /\ Fail
             \/ /\ ProofFits(m, b) /\ call = "transient"
                /\ Return
                /\ chan' = [NoChannel EXCEPT !.open = TRUE, !.key = {MyKey(b)}]
                /\ UNCHANGED <<using, theirKey, accessories, store>>
             \/ /\ ProofFits(m, b) /\ call = "pin"
                /\ UNCHANGED theirKey
                /\ Proceed(6, [Blank EXCEPT !.state = 5, !.sealed =
                      {Sealed(MyKey(b), "PS-Msg05", n, n, n, <<MyKey(b), n, n>>)}])

(* The seal opens under the key and nonce the client expects, and the      *)
(* signature is that of the key the sub-TLV itself names.                  *)
OpensM6(s, key) ==
    /\ s.key = key /\ s.label = "PS-Msg06"
    /\ s.by = s.ltpk /\ s.over = <<key, s.id, s.ltpk>>

PairedDeviceCrossed(s) ==
    [device_id |-> s.id, client_pairing_id |-> s.id, accessory_ltpk |-> s.ltpk, client_ltsk |-> n]

(* PairSetupResult, and the record made from it.                           *)
PairedDeviceFrom(s) ==
    [device_id |-> s.id, client_pairing_id |-> n, accessory_ltpk |-> s.ltpk, client_ltsk |-> n]

SetupM6 ==
    /\ call = "pin" /\ awaits = 6
    /\ \E m \in rep, b \in theirKey :
          /\ Accepted(m, 6)
          /\ \/ ~(\E s \in m.sealed : OpensM6(s, MyKey(b))) /\ Fail
             \/ \E s \in m.sealed :
                /\ OpensM6(s, MyKey(b))
                /\ result' = {PairedDeviceFrom(s)}
                /\ Return
                /\ using' = {} /\ theirKey' = {}
                /\ UNCHANGED <<accessories, db, verified, chan>>

(* store_paired_device replaces the row of the same accessory.             *)
StorePairedDevice ==
    \E r \in result :
        /\ db' = {d \in db : d.device_id # r.device_id} \cup {r}
        /\ result' = {}
        /\ UNCHANGED <<client, wire, accessories, verified, chan>>

(* The program ends, or stops asking, before it stores the result.         *)
ResultLost ==
    /\ result # {}
    /\ result' = {}
    /\ UNCHANGED <<client, wire, accessories, db, verified, chan>>

OpensVerifyM2(s, key, b, d) ==
    /\ s.key = key /\ s.label = "PV-Msg02"
    /\ s.by = d.accessory_ltpk /\ s.over = <<b, s.id, n>>

VerifyM3ByDeviceId(d, b) ==
    Sealed(SharedKey(n, b), "PV-Msg03", d.device_id, {}, d.client_ltsk, <<n, d.device_id, b>>)

VerifyM3(d, b) ==
    Sealed(SharedKey(n, b), "PV-Msg03", d.client_pairing_id, {}, d.client_ltsk,
           <<n, d.client_pairing_id, b>>)

VerifyM2 ==
    /\ call = "verify" /\ awaits = 2
    /\ \E m \in rep, d \in using :
          /\ Accepted(m, 2)
          /\ \/ /\ ~(\E b \in m.pk, s \in m.sealed : OpensVerifyM2(s, SharedKey(n, b), b, d))
                /\ Fail
             \/ \E b \in m.pk, s \in m.sealed :
                /\ OpensVerifyM2(s, SharedKey(n, b), b, d)
                /\ theirKey' = {b}
                /\ Proceed(4, [Blank EXCEPT !.state = 3, !.sealed = {VerifyM3(d, b)}])

(* M4 of pair-verify has nothing but its state to check.                   *)
VerifyM4 ==
    /\ call = "verify" /\ awaits = 4
    /\ \E m \in rep, d \in using, b \in theirKey :
          /\ Accepted(m, 4)
          /\ verified' = {[device |-> d, accessory |-> at, mine |-> SharedKey(n, b),
                           theirs |-> accKey]}
          /\ Return
          /\ using' = {} /\ theirKey' = {}
          /\ UNCHANGED <<accessories, result, db, chan>>

-----------------------------------------------------------------------------
(* The accessory at the other end *)

(* A reply arrives as it was sent, or spoilt: refused, with an error, with *)
(* another state, with a TLV missing, or with contents of another run.     *)
Spoilt(m) ==
    {[m EXCEPT !.status = 403], [m EXCEPT !.error = "backoff"], [m EXCEPT !.state = 7],
     [m EXCEPT !.pk = {}], [m EXCEPT !.proof = {}], [m EXCEPT !.sealed = {}],
     [m EXCEPT !.pk = {[of |-> at, in |-> 0]}],
     [m EXCEPT !.proof = {<<"server", SrpKey(n, [of |-> at, in |-> 0], "other")>>}],
     [m EXCEPT !.sealed = {[s EXCEPT !.label = "other"] : s \in @}]}

Harmless(m) == {m, [m EXCEPT !.status = 0], [m EXCEPT !.error = "none"]}

Reply(m) ==
    /\ req' = {}
    /\ \E x \in Harmless(m) \cup Spoilt(m) : rep' = {x}
    /\ UNCHANGED <<client, life, removed, store, chan>>

Refuse == Reply([Blank EXCEPT !.error = "authentication"]) /\ UNCHANGED <<accKey, registered>>

AnswerSetup(m) ==
    LET key == SrpKey(n, AccPK(at), "shown") IN
    CASE m.state = 1 ->
            Reply([Blank EXCEPT !.state = 2, !.pk = {AccPK(at)}]) /\ UNCHANGED <<accKey, registered>>
      [] m.state = 3 /\ (m.proof = {<<"client", key>>} \/ at \in Careless) ->
            /\ accKey' = {key}
            /\ Reply([Blank EXCEPT !.state = 4, !.proof = {<<"server", key>>}])
            /\ UNCHANGED registered
      [] m.state = 5 /\ (\E s \in m.sealed : s.key = key /\ s.label = "PS-Msg05" /\ s.by = s.ltpk) ->
            \E s \in m.sealed :
                /\ registered' = [registered EXCEPT ![at] = @ \cup {[id |-> s.id, ltpk |-> s.ltpk]}]
                /\ Reply([Blank EXCEPT !.state = 6, !.sealed =
                      {Sealed(key, "PS-Msg06", at, AccLTPK(at), AccLTPK(at),
                              <<key, at, AccLTPK(at)>>)}])
                /\ UNCHANGED accKey
      [] OTHER -> Refuse

Knows(a, s, key) ==
    /\ s.key = key /\ s.label = "PV-Msg03"
    /\ \E c \in registered[a] : c.id = s.id /\ c.ltpk = s.by

AnswerVerify(m) ==
    LET key == SharedKey(n, AccPK(at)) IN
    CASE m.state = 1 ->
            /\ Reply([Blank EXCEPT !.state = 2, !.pk = {AccPK(at)}, !.sealed =
                  {Sealed(key, "PV-Msg02", at, {}, AccLTPK(at), <<AccPK(at), at, n>>)}])
            /\ UNCHANGED <<accKey, registered>>
      [] m.state = 3 /\ (\E s \in m.sealed : Knows(at, s, key)) ->
            accKey' = {key} /\ Reply([Blank EXCEPT !.state = 4]) /\ UNCHANGED registered
      [] OTHER -> Refuse

Answer ==
    \E m \in req : IF call = "verify" THEN AnswerVerify(m) ELSE AnswerSetup(m)

(* Somebody removes a pairing at the accessory, or resets it, which also   *)
(* gives it another long-term key.                                         *)
Forget(a, cs) ==
    /\ registered' = [registered EXCEPT ![a] = @ \ cs]
    /\ removed' = [removed EXCEPT ![a] = @ \cup cs]
    /\ UNCHANGED <<client, wire, accKey, store, chan>>

RemovePairing(a, c) == c \in registered[a] /\ Forget(a, {c}) /\ UNCHANGED life

Reset(a) ==
    /\ life[a] < MaxResets
    /\ (call = "none" /\ ~chan.open) \/ a # at
    /\ life' = [life EXCEPT ![a] = @ + 1]
    /\ Forget(a, registered[a])

-----------------------------------------------------------------------------
(* The control channel *)

WriteInfo == "Control-Write-Encryption-Key"
ReadInfo == "Control-Read-Encryption-Key"

(* cipher_from and nonce_for: what a frame is sealed under.                *)
Frame(key, info, counter, text) == [key |-> key, info |-> info, counter |-> counter, text |-> text]

Text(q, part, parts) == [request |-> q, part |-> part, parts |-> parts]

RequestSameCounter ==
    /\ chan.open /\ chan.asked = Len(chan.answered) /\ chan.asked < MaxRequests
    /\ \E key \in chan.key :
       LET f == Frame(key, WriteInfo, 0, Text(chan.asked + 1, 1, 1)) IN
       chan' = [chan EXCEPT !.asked = @ + 1, !.write = @ + 1,
                            !.toAcc = Append(@, f), !.log = @ \cup {f}]
    /\ UNCHANGED <<client, wire, accessories, store>>

(* request: send seals one frame with the next nonce.                      *)
Request ==
    /\ chan.open /\ chan.asked = Len(chan.answered) /\ chan.asked < MaxRequests
    /\ \E key \in chan.key :
       LET f == Frame(key, WriteInfo, chan.write, Text(chan.asked + 1, 1, 1)) IN
       chan' = [chan EXCEPT !.asked = @ + 1, !.write = @ + 1,
                            !.toAcc = Append(@, f), !.log = @ \cup {f}]
    /\ UNCHANGED <<client, wire, accessories, store>>

(* The accessory opens the request with the nonce it is at, and answers in *)
(* as many frames as it likes.  Its answer says how long it is: it has a   *)
(* Content-Length, or no body.                                             *)
Serve(parts) ==
    /\ chan.open /\ chan.toAcc # <<>>
    /\ \E key \in accKey :
       LET f == Head(chan.toAcc)
           out == [i \in 1..parts |->
                     Frame(key, ReadInfo, chan.accWrite + i - 1, Text(f.text.request, i, parts))] IN
       /\ f.key = key /\ f.info = WriteInfo /\ f.counter = chan.accRead
       /\ chan' = [chan EXCEPT !.toAcc = Tail(@), !.accRead = @ + 1, !.accWrite = @ + parts,
                               !.toClient = @ \o out, !.log = @ \cup {out[i] : i \in 1..parts}]
    /\ UNCHANGED <<client, wire, accessories, store>>

OpensFrame(f) == {f.key} = chan.key /\ f.info = ReadInfo /\ f.counter = chan.read

RecvReturnsFirst ==
    /\ chan.open /\ chan.toClient # <<>>
    /\ LET f == Head(chan.toClient) IN
       /\ OpensFrame(f)
       /\ chan' = [chan EXCEPT !.toClient = Tail(@), !.read = @ + 1, !.buf = <<>>,
                               !.answered = Append(@, <<f.text>>)]
    /\ UNCHANGED <<client, wire, accessories, store>>

(* recv opens the next frame; request returns once it has the headers and  *)
(* as much as Content-Length says, which is all parts of the response.  A  *)
(* body without that header, which request would leave to the next         *)
(* response, is not sent by Serve.                                         *)
Recv ==
    /\ chan.open /\ chan.toClient # <<>>
    /\ LET f == Head(chan.toClient)
           whole == Append(chan.buf, f.text) IN
       /\ OpensFrame(f)
       /\ chan' = [chan EXCEPT !.toClient = Tail(@), !.read = @ + 1,
                      !.buf = IF Len(whole) >= f.text.parts THEN <<>> ELSE whole,
                      !.answered = IF Len(whole) >= f.text.parts THEN Append(@, whole) ELSE @]
    /\ UNCHANGED <<client, wire, accessories, store>>

(* A frame that does not open, or a connection that ends, is an error of   *)
(* request; the channel is dropped.                                        *)
DropChannel ==
    /\ chan.open
    /\ chan' = NoChannel /\ accKey' = {}
    /\ theirKey' = {}
    /\ UNCHANGED <<n, call, awaits, at, pin, using, wire, life, registered, removed, store>>

-----------------------------------------------------------------------------

Client ==
    \/ \E a \in Accessory : PairSetupTransient(a)
    \/ \E a \in Accessory, p \in {"shown", "other"} : PairSetup(a, p)
    \/ \E a \in Accessory, d \in db : PairVerify(a, d)
    \/ Rejected \/ ConnectionLost
    \/ SetupM2 \/ SetupM4 \/ SetupM6 \/ VerifyM2 \/ VerifyM4
    \/ StorePairedDevice \/ ResultLost

Channel == Request \/ (\E parts \in 1..MaxParts : Serve(parts)) \/ Recv \/ DropChannel

Next ==
    \/ Client \/ Answer \/ Channel
    \/ \E a \in Accessory : Reset(a) \/ \E c \in registered[a] : RemovePairing(a, c)

Spec == Init /\ [][Next]_vars

-----------------------------------------------------------------------------
(* Properties *)

Mutual(d) ==
    /\ d.device_id = d.accessory_ltpk.of
    /\ [id |-> d.client_pairing_id, ltpk |-> d.client_ltsk]
          \in registered[d.device_id] \cup removed[d.device_id]

(* What pair_setup returns and the table keeps is known to the accessory   *)
(* too: the accessory whose key the record has filed this client under the *)
(* record's identifier and key, unless it has been told to forget it.      *)
(* Replies that are lost or spoilt after the accessory has filed a client  *)
(* leave an entry there, never a record here                               *)
(* (pair_setup_identity_exchange, From<PairSetupResult>).                  *)
PairingIsMutual == \A d \in db \cup result : Mutual(d)

(* hap_pairing.rs, PairedDevice: "Sending the accessory's identifier in M3 *)
(* is a pairing that cannot be found, not a credential that is refused."   *)
(* M3 goes only to an accessory that has, or has removed, the pairing it   *)
(* names, whichever accessory answers at the address and however often the *)
(* client has paired with it again (verify_m3_sub_tlv).                    *)
VerifyFindsPairing ==
    \A m \in req : (call = "verify" /\ m.state = 3) =>
        \E s \in m.sealed : \E c \in registered[at] \cup removed[at] :
            c.id = s.id /\ c.ltpk = s.by

(* Both ends hold the same key when a control channel opens and when       *)
(* pair_verify returns, and then the accessory is the one of the record,   *)
(* also with a wrong PIN, an accessory that does not check the client's    *)
(* proof, and another accessory at the address.                            *)
KeysAgree ==
    /\ chan.open => chan.key = accKey
    /\ \A v \in verified : v.theirs = {v.mine} /\ v.accessory = v.device.device_id

(* control_channel.rs: the nonce is "counted independently in each         *)
(* direction and never reset for the life of the connection".  No key and  *)
(* nonce ever seal two different frames, of whichever end.                 *)
NonceOnce ==
    \A f, g \in chan.log :
        f.key = g.key /\ f.info = g.info /\ f.counter = g.counter => f = g

(* request returns the response to its own request, whole and in order, in *)
(* however many frames it comes.                                           *)
ResponseMatches ==
    \A i \in 1..Len(chan.answered) :
        LET parts == chan.answered[i][1].parts IN
        chan.answered[i] = [j \in 1..parts |-> Text(i, j, parts)]

=============================================================================
