# OpenPlay in TLA+

This directory models [OpenPlay](../src/README.md), a screen casting system in
Rust: a **sender** that captures a screen and casts it to an AirPlay, Miracast
or OpenPlay receiver, and a **receiver** that shows the casts of OpenPlay
senders after asking the person in front of it. The modules are checked with
TLC on small instances, and the most important properties are proved with
TLAPS for instances of any size. `PROJECT.json` lists components, runs,
hazards, theorems and, for every definition, the lines of code it models.

Paths below are relative to `src/crates/`.

## 1. Inventory

### Components, their state and operations

| Component | State | Operations | What makes it correct |
|---|---|---|---|
| Receiver session loop, `openplay-receiver/src/net.rs` | pending requests, the active session with its pipeline and peer, the status shown, the frame slot | one `select!` over incoming messages, the user's answers, WebRTC events and a 2 s liveness tick | nothing is shown without consent to that sender; one sender at a time; nothing of a sender survives its session; no dead sender blocks the screen |
| Receiver window, `openplay-receiver/src/window.rs` | a copy of the status, a texture of the last frame | draw, answer the prompt that is drawn | an answer counts for the prompt that was read |
| Signaling server, `openplay-signaling/src/server.rs` | per connection a reading and a writing task and a reply queue of 32; at most 16 connections | accept, deliver messages, write replies, close on idle (120 s) | a connection that is gone is seen to be gone; a slow peer blocks nobody |
| Signaling client, `openplay-signaling/src/client.rs` | two tasks and two channels of 32 | connect, send, receive | the connection ends when its user is done |
| OpenPlay casting task, `openplay-sender/src/casting.rs` | how far the cast is; a stop flag | connect, ask, wait, build the pipeline, exchange SDP and ICE, end | casts only after the accept; Stop always works; notices that the receiver dropped it |
| Sender window, `openplay-sender/src/app.rs` | receiver list, selection, `is_casting`, `stop_handle`, `p2p_discovery_paused` | add and remove receivers, select, start, stop, read status messages | a running cast is visible and stoppable; an ended one leaves the window; the scan is restored |
| WebRTC peer, `openplay-pipeline/src/webrtc.rs` | none of its own; signals of `webrtcbin` | offer, answer, candidates, connection state | events in a usable order, for the right session |
| Receiver and sender pipelines, `openplay-pipeline/src` | GStreamer elements | start, stop, deliver frames | stop means no more frames |
| Miracast, `openplay-miracast/src` | RTSP exchange M1 to M7, keepalive; P2P group and its guard | handshake, keepalive, teardown; form and leave a group; pause and resume the scan | the handshake is in order; no group is left behind |
| AirPlay session, `openplay-airplay/src/session.rs`, `http_session.rs`, `mirror_stream.rs`, `ntp.rs` | command and event channels, the stream behind a mutex, heartbeat task, NTP server on a fixed port | negotiate, send codec data and frames, heartbeat, stop | codec data first; packets are not torn; a cast ends for a cause and leaves nothing behind |
| HomeKit pairing and control channel, `hap_pairing.rs`, `srp.rs`, `control_channel.rs` | stage of a call, table of paired devices, keys, nonce counters | pair-setup, pair-verify, store, request | both ends agree on pairing and key; nonces are used once; a response belongs to its request |
| Message readers, `rtsp_server.rs`, `http_session.rs`, `hap_pairing.rs` | bytes received and not consumed | read a message, cancel a read | messages are read as sent however they are cut |
| Discovery, `openplay-discovery/src`, `openplay-miracast/src/wifi_direct.rs` | what mDNS and wpa_supplicant announced, queues to the window | found, lost, forward, poll | list and network agree |
| Protocol, `openplay-protocol/src` | message types with bounds, two state machines without callers | `validate`, `transition` | only bounded messages reach the loops |
| Capture, crypto, configuration | portal session, certificate, files | I/O | not modelled, see section 7 |

### How they interact

Sender window -> casting thread: a spawned thread per cast, a stop flag back,
and status messages told apart by their wording. Casting task <-> signaling
client <-> server <-> session loop: bounded channels; a full reply queue drops
the reply, a full inbox holds the connection back. Session loop -> window: a
shared status the window copies each frame; window -> loop: a queue of
answers. GStreamer threads -> loop: one channel of WebRTC events shared by all
sessions; GStreamer threads -> window: the frame slot. AirPlay casting task
-> session task: a command channel of 64, which frames of the encoder reach
through one of 32 that drops; session and heartbeat share the stream. Browser
threads and the signal listener -> forwarding tasks -> window: queues into one
channel of 128.

### What is hard

* answers, events and messages that are still queued when the session or
  prompt they belong to is gone;
* two senders between request, prompt, answer and session;
* connections that are half gone (a writing task that ended, a reading task
  that outlives its user) and timeouts that meet silence;
* replies dropped from a full queue;
* tasks that are spawned and never waited for, and hold a socket or a port
  that the next cast needs;
* an accessory that has filed a pairing the client does not know of, or the
  other way round;
* reads that are cancelled midway and messages that arrive in pieces.

`PROJECT.json` has the full list under "hazards", at their lines.

## 2. Plan

| | Module | Models | State |
|---|---|---|---|
| 1 | `ReceiverSession`, `ConsentScreen` | session loop, window, connections; what it promises | modelled, checked, proved |
| 2 | `CastSystem` | casting task + signaling + `ReceiverSession` | modelled, checked, proved |
| 3 | `SenderApp` | sender window, casting threads, Wi-Fi Direct scan | modelled, checked, proved |
| 4 | `MiracastCast` | casting task, session, M1 to M7, keep-alives, Wi-Fi Direct group and its guard | modelled, checked, proved |
| 5 | `AirPlayCast` | casting task, session, heartbeat, NTP server of casts in sequence | modelled, checked, proved |
| 6 | `AirPlayPairing` | pair-setup, pair-verify, paired devices, control channel | modelled, checked, proved |
| 7 | `MessageFraming` | the three readers of framed messages | modelled, checked, proved |
| 8 | `Discovery` | browsers, signal listener, forwarding tasks, the window's list | modelled, checked, proved |

What could follow: `MiracastCast` and `AirPlayCast` composed with `SenderApp`,
which already has the radio and the status messages, so that two casts share
one group; the limit of 16 signaling connections; and `find_nalu_starts`, TLV8
and the choice of a resolution against reference definitions.

## 3. Modules

### ReceiverSession

`SessionLoop` handles one event at a time and every handler runs without
awaiting, so each branch of its `select!` is one atomic action:
`HandleMessage` (with one disjunct per message type), `HandleDecision`,
`HandleWebRtcEvent`, `DropDeadConnections`. The other actors interleave with
it: `Connect`, `Deliver`, `LoseReplies`, `Disconnect` (connections), `Redraw`,
`Decide` (window), `StoreFrame`, `PostEvent` (GStreamer threads).

| Variable | In the code |
|---|---|
| `link` | the state of a connection; `is_connected` is `link = "open"`. "deaf" is a connection whose writing task ended and whose reading task still delivers |
| `inbox`, `decisions`, `events` | the channels the `select!` reads; an event records the connection whose peer posted it, which the code does not |
| `pending`, `active`, `status`, `undiscoverable` | the fields of `SessionLoop`; `active.media` is `Some(Media)`, `active.fed` whose SDP and ICE reached the peer |
| `frame` | whose frame is in `FrameSlot` |
| `shown` | the copy of the status the window draws |
| `sent` | the reply the last step handed to a connection |
| `allowed` | history: on whose prompt Allow was pressed |

SDP, candidates, codecs and resolutions are left out: a message is its type,
its connection and, for a request, a name. A handler of the loop that sets the
status and clears the frame takes two locks one after the other; nobody reads
both, so one step is enough. Stopping the pipeline (`set_state(Null)`) waits
for its streaming threads, so no frame of it is stored afterwards.

`ConsentScreen` is what the loop promises with all of that taken away: an
owner, the connections asking and those granted.

### CastSystem

`CastSystem` EXTENDS `ReceiverSession` and replaces its arbitrary senders by
the casting task of this repository and the connection in between. Actions of
the receiver are reused with `AtReceiver(Step)`, which puts the reply in the
queue of its connection or drops it; `Transmit` is `Deliver` of the next
message of a sender. `phase` is how far `run_openplay_pipeline` is. The two
tasks of the client and the two of the server with the socket between them are
one queue in each direction; `LoseUnwritten` says what is lost with a
connection. `HangUp` is the reading task of the client that notices only with
the next reply that nobody wants it. A reply that found its queue full is
remembered in `missed`.

### SenderApp

The window's fields, the threads of its casts and the tasks that pause and
resume the Wi-Fi Direct scan. A status message is who sent it and whether its
wording says that the cast is over. A spawned task is the sequence of D-Bus
calls it has yet to make (the probe of `find_p2p_interface` is a `Find` and a
`StopFind`); tasks interleave call by call. `Nameless` receivers are those
whose loss is reported under a key that the list does not use
(infrastructure Miracast).

### MiracastCast

One cast, by `run_miracast_pipeline` (the session starts "dialing") or
`run_miracast_p2p_pipeline` (it starts "finding"). `task` is the casting task,
`sess` the session task: where its future is parked, M1 to M7 included. A read,
an accept or a dial either gets what it waits for or ends the session, with a
timeout or an error, so each stage is one action with those outcomes;
`EndSession` is what all ends have in common. `Expected` is the message
`negotiate` accepts at each stage; anything else ends the session. The sink is
arbitrary, and so is wpa_supplicant, whose signals reach the session through
`wfd`; `oldGroup` is the group of an earlier cast whose end is signalled late.
`inbox` holds what has arrived, so a read times out only when it is empty.
What a message says besides its kind is left out; a SETUP with and one without
a usable port are two kinds, and so is a message that outgrows the limit of
`read_message` ("oversized"), which ends the session at any stage, the
streaming one included. `said` and `quiet` are history.

### AirPlayCast

Casts in sequence. `task` is `run_airplay_pipeline`, of which there is one at a
time; `sess`, `cmds`, `events`, `job`, `lock`, `heart` and `peer` are per cast,
because the session and heartbeat of a cast go on after its casting task has
returned. `port` is the cast whose NTP server has the UDP port, and `quit` the
servers that were told to stop: the port is free a step later. A packet is two
writes, so `WriteHeader` and `WritePayload` are two actions, and a heartbeat
may be aborted between taking the lock and writing. A session that fails keeps
its heartbeat (`EndWithError`); one that leaves its loop aborts it
(`EndSession`). A frame has a sequence parameter set, has none, or is empty:
`extract_sps_pps` makes codec data of the first kind, also when no picture
parameter set is with it. The encoder delivers frames of any kind in any order
(`Encoded` bounds the kinds per cast), and a frame is dropped when the channel
is full. Answers of the receiver are reduced to the status that decides;
`negotiate_with_auth` always fails in the end, as in the code. `heard` is
history.

`send_codec_data` in `mirror_stream.rs` says that the codec data "must be sent
before any video frames". Nothing in the code ensures this: a frame without a
sequence parameter set that comes first is sent as it is, and an SPS without a
PPS counts as codec data for the rest of the cast. It is for the encoder and
`h264parse` to begin with both. `CodecFirst` claims what the code does by
itself, for every encoder: a frame with an SPS is never ahead of the codec data.
Since both channels are queues, an encoder whose first frame has an SPS has
none of its frames ahead.

### AirPlayPairing

The client's calls (`PairSetupTransient`, `PairSetup`, `PairVerify`) are
numbered, and the number stands for every secret the call draws. `awaits` says
which reply `pair_setup_srp`, `pair_setup_identity_exchange` or `pair_verify`
waits for; each reply is one action of the client with all its checks, and any
failing check ends the call. Cryptography is symbolic: a key is the record of
what went into it, a sealed message names key, nonce label, signer and what
the signature covers. Accessories are external: they follow the protocol that
the client expects, may be `Careless` about proofs, may be reset or forget a
pairing, and their replies may be refused, damaged or lost. `chan` is
`ControlChannel` at both ends: keys, four counters, frames on their way, and
the frames of a response collected by `request`. A response is whole when all
its frames are there: it is taken to have a Content-Length or no body. A body
without that header would be left to the next response by `request`, and
`ResponseMatches` says nothing of it.

### MessageFraming

One connection, read by one of `read_message`, `read_http_response` and
`recv_response`, which differ in what they keep after a message, which
spellings of Content-Length they understand, how much they ask for and when
they give up. A byte is a token; the blank line is two of them, so it may be
cut, and a body may contain it. `Receive(k)` is one read of the socket;
`Cancel` is the timer of `serve_control_channel_every`.

### Discovery

Services of three kinds, told apart by how they reach the list: mDNS services
keyed by name, Miracast services of the network keyed by address, and Wi-Fi
Direct peers, whose comings and goings are two streams of signals. Miracast
services whose device info has the form of a MAC (`MacLike`) are listed under
that info (`Info`), as `poll_discovery` decides; no such label is assumed to be
the MAC of a peer or another service's address. A peer whose DeviceFound is
followed by a failing `get_peer_info` is not reported (`ListenInVain`);
`missed` records the lives this happened in. `pipe[s]`
joins the queues between the daemon and the forwarding task, which are
unbounded or wait, so none of them loses anything. Every coming of a service
is another `life`, which the list does not have in the code; it is recorded to
tell a stale entry.

### MC modules

`MCReceiverSession`, `MCCastSystem` add the symmetry of connections and names
for the safety runs; `MCAirPlayPairing` and `MCDiscovery` name the accessories,
services and addresses; `MCDiscovery` starts all services at the same address,
since addresses are interchangeable and only one service has its own in its
key; `MCAirPlayCast` says which frames the encoder of each cast delivers; the
others add nothing.

## 4. Runs

| Run | Instance | Shows |
|---|---|---|
| `receiver_session` | 2 connections, 2 names, every message type, inbox 1, 1 queued event, 2 answers | `OneAtATime`, `ConsentBeforeSession`, `OnlyOwnerOnScreen`, `ConnectedPagesAreTrue`, `PromptNotReplaced`, refinement of `ConsentScreen` |
| `receiver_liveness` | 2 connections, 1 answer, fair loop | `DeadSenderForgotten`, `StalePromptLeaves` |
| `cast_system` | 2 casts, 2 names, all queues of length 1, lossy network | `CastNeedsAllow`, `CasterOwnsSession` |
| `cast_liveness` | 1 cast, lossy network, fair tasks | `StopEndsCast`, `EndedCastForgotten`, `LostSessionNoticed` |
| `sender_app` | a LAN, a Wi-Fi Direct and an infrastructure Miracast receiver, 2 casts, status channel 2, failing D-Bus | `CastUnderControl`, `PauseEndsWithCast`, `SelectionIsListed`, `EndIsNoticed` |
| `miracast_cast` | 3 unanswered keep-alives as in the code, 2 messages in the buffer, fair tasks | `AgreedBeforeReady`, `EndsForCause`, `StopEndsMiracast`, `VanishedSinkEndsCast`, `SessionEndsWithTask`, `GroupReleased` |
| `airplay_cast` | 2 casts, every kind of frame in the first and none with a parameter set in the second, frame and command channel of length 1, fair tasks | `CodecFirst`, `PacketsWhole`, `CastEndsForCause`, `StopEndsAirPlay`, `ReleasedAtEnd` |
| `airplay_pairing` | 2 accessories, one careless, 3 calls, 1 reset, 2 requests with responses of up to 2 frames | `PairingIsMutual`, `VerifyFindsPairing`, `KeysAgree`, `NonceOnce`, `ResponseMatches` |
| `message_framing` | 2 messages, bodies of up to 2 bytes, limit of 4 bytes, fair reader | `ReadsAsSent`, `EveryMessageRead` |
| `discovery` | one service of each kind and a `MacLike` one, 2 addresses, 3 changes each (2 and 1 for the Miracast services), channel of length 1, fair tasks, a window that is drawn only while its list is empty | `ListTrueWhenSettled`, `ListFollows` |
| `receiver_event_ends_own_session` | as `receiver_session` | violated: see findings |
| `miracast_group_goes` | 1 unanswered keep-alive, 1 message | violated: see findings |

**Bounds.** Two connections are what exclusivity, replaced prompts and late
events of another session need; a third would only repeat the second, and the
theorems hold for any number. A queue of length 1 reaches the empty, the full
and the dropping case of each channel; the order of messages of one sender is
kept by `up`, which feeds the inbox. Two names let a connection ask again under
another one; the liveness runs, which have no use for symmetry, have one name.
Two answers let an old answer meet a new
prompt. Two casts let the messages of one meet the other. `MaxEvents`,
`MaxClicks` and `MaxCasts` bound what would otherwise grow without end and are
guards of the actions that add to it. Two messages in the buffer let a SETUP and
a PLAY arrive together. Two AirPlay casts let the second meet the session,
heartbeat and port of the first; frames of every kind in the second cast too
would multiply the states by eight and add nothing, since the frame channel and
`sent_codec_data` are the cast's own. Three calls are enough to pair with both
accessories and verify, or to pair twice and verify with the older record; two
requests and two frames are the least for which counters and parts can be
confused. Two messages of up to six bytes can be pipelined, cut anywhere and
outgrow a limit of four. Three changes let a service come, go and come back.
Deadlock is checked in every run but those of `MiracastCast`, `AirPlayCast`,
`AirPlayPairing`, `MessageFraming` and `Discovery`, where casts, calls,
messages and changes are bounded and end, and nothing is left to happen.

**Fairness.** `tokio::select!` picks among ready branches at random, so a
branch that stays ready is taken, and the tick recurs: weak fairness of the
four handlers. Both waits of the casting task wake every 250 ms: weak
fairness of `CastTask`. The tasks of client and server run on a multi-threaded
runtime, and the idle timer fires: weak fairness of `HangUp`, `Transmit`, `CloseHungUp`,
`CloseIdle`. `webrtcbin` produces its offer and ends its gathering: strong
fairness of `SendOffer` and `SendIceComplete`, because candidates compete for
room in the same channel. The window repaints while a cast is shown: weak
fairness of `PollStatus`. Every read and accept of a Miracast session has a
deadline of its own, and the dialling of a sink that did not call has the
kernel's. Its writes (`RtspConnection::send`) and D-Bus calls have none: they
are assumed to return, the ones being a few hundred bytes into a socket buffer,
the others calls of a local service. The runtime polls the session, its casting
task, a dropped session's shutdown and a spawned teardown: weak fairness of
`Session`, `Runner`, `Cancel` and `TearDownGroup`. In `AirPlayCast`
the runtime polls the casting task, the session and the NTP server (weak
fairness of `Runner`, `Bind`, `Loop`, `NtpCloses`); the mutex of tokio is fair,
so whoever wants the stream gets it although it is taken again and again
(strong fairness of `Write` and `Heart`). No wait for an AirPlay receiver has a
deadline, so `StopEndsAirPlay` and `ReleasedAtEnd` carry as a hypothesis that
the receiver does not stall for ever, and the first also that it answers and
that the encoder delivers frames. In `MessageFraming` a read that finds bytes
time and again is not cancelled each time, since the timer runs for ten
seconds: strong fairness of `ReceiveSome` and `GiveUp`. In `Discovery` threads
and tasks run. The window asks to be drawn again only while a cast is shown
(`update`) or, through the spinner, while its list is empty, and the forwarding
tasks do not wake it: weak fairness of `PollDiscovery` is assumed with an empty
list alone, and the second half of `ListFollows` has as its hypothesis (`Drawn`)
that the window is drawn again and again. The forwarding tasks block in `send`
of a std `sync_channel`, which wakes a blocked sender for each place that gets
free; that each of the few senders gets one in the end is assumed: strong
fairness of `Forward`. Nothing is assumed of users,
senders in `ReceiverSession`, Miracast sinks, accessories, wpa_supplicant,
media, the network, or of a cast ever ending.

**Findings.** Two documented claims do not hold of the code.

1. `EventEndsOwnSession`: a `Disconnected` or `Failed` of an earlier session,
   still queued, ends the session of the next sender.
2. `GroupGoesWithSession`: the guard of the P2P group is made when the session
   reads GroupFormed; a session that gives up before that leaves the group that
   forms, or has just formed, up for good.

**Observations.** Behaviour of the code that the models have and a reader may
not expect. Properties that it touches say so in their statement.

* A sender that is casting asks again and is denied: the receiver shows
  Waiting and the session goes on.
* The server's idle timeout of 120 s ends the wait for an answer of the user,
  and a cast without signaling traffic, although the sender puts no limit on
  either.
* A cast stopped while it asks leaves its socket open, so its prompt stays and
  a retry is answered Busy until the server's timeout.
* The tasks that pause and resume the Wi-Fi Direct scan overlap, and the last
  of their calls may be a `StopFind`.
* The AirPlay casting task reads its stop flag only when a frame arrives, and
  not at all before Ready; a receiver that stalls keeps the session, and with
  it the NTP port that the next cast needs.
* Miracast receivers of the network are listed under their address, or under a
  device info that looks like a MAC, and removed under their name, so they stay
  listed when they have gone.
* With a receiver listed and no cast shown, what discovery finds or loses waits
  in the channel until the user touches the window; when the channel is full,
  the forwarding tasks block.
* A Wi-Fi Direct peer whose properties cannot be read when it is found is not
  listed until it is found again.
* A message of a Miracast sink that outgrows the limit of the reader ends a cast
  that streams.
* DeviceFound and DeviceLost of a Wi-Fi Direct peer may be read in the other
  order, so that a peer which came back at once is taken off the list.
* `recv_response` and `read_http_response` take a response whose
  Content-Length is spelt in a way they do not know for one without a body.

## 5. Proofs

Proved with TLAPS for any finite or infinite set of connections, names and
receivers and any bounds, from the assumptions on the constants alone (`NoConn`
is no connection, `NoName` no name, `NoSink` no receiver, bounds are naturals,
channels have room for at least one item, careless accessories are
accessories, senders of `CastSystem` send only what the receiver handles, and
the keys that `DiscoveredReceiver::key` makes of an address, a name and a label
differ, the kinds of services do not overlap, and an encoder delivers frames).

* `ReceiverSessionProofs`. The inductive invariant `IInv` adds
  `AnswersAreAllowed` to the properties: an Allow waiting in the queue is of a
  prompt on which Allow was pressed; without it `ConsentBeforeSession` says
  nothing of a state in which an answer is about to be handled. Every action
  is first summed up by its effect on requests, session and screen, and the
  conjuncts are then proved per effect. From `IInv` follow the invariants, the
  action property `PromptNotReplaced` and the refinement of `ConsentScreen`,
  where each effect maps to a step of the abstract specification or to none.
* `CastSystemProofs`. `ReceiverOfCast` shows that the composed system
  implements `ReceiverSession!Spec`, so the theorems above hold of it.
  `EndToEndConsent` needs `AcceptsWereAllowed` (an accept on its way was
  allowed). `Agreement` needs `AcceptsAreCurrent`: an accept on its way is
  still true or has the SessionEnd that undoes it behind it in the queue; that
  is why a queue that may drop a reply has to be an exception.
* `SenderAppProofs`. `AppInv` adds `OverIsLast`: when a message in the channel
  says that a cast is over, no thread is live and the cast is still shown;
  this is what makes it safe to drop the Stop button on a message that does
  not say which cast it is of.
* `MiracastCastProofs`. `MiracastInv` ties the two tasks together:
  `EventsMatch` says which events are unread at each point, `HeardIsSaid` that
  the session acts on what the sink said, `CountIsSilence` that its count is
  the number of silent periods whenever it is about to be compared (it is not
  while a message waits), and `OverForCause` that a session over after its
  Ready had a cause. `EndsForCause` follows because a streaming task can only
  read an Ended of a session that is over. The two lemmas `EndKeepsInv` and
  `StepKeepsInv` do the work for the twenty ways a session goes on or ends.
  `GuardedGroup` is the safety half of `GroupReleased`: past its formation a
  group that is up has a guard, no guard outlives its session, and a group
  that was given back stays down. Its invariant `GuardFollows` says what guard
  and group can be at each point of a session. It says nothing of a group that
  forms when the session has given up waiting: that one has no guard, which is
  what `miracast_group_goes` shows.
* `AirPlayCastProofs`. `AirPlayInv` follows the codec data from the casting
  task to the stream: `SentFirst` says that a frame with a parameter set is
  about to be sent only when the codec data was, `CodecOnWay` that codec data
  sent and not yet heard is in the session's hand or in its queue, and
  `NoSpsNext` that until it is heard it is ahead of every such frame there
  (`Ahead`, a property of sequences with lemmas for Append and Tail). No
  assumption on the encoder is used. `Locks` and `Jobs` say who writes;
  `PacketsWhole` follows from `Locks` because the heartbeat that holds the
  lock excludes a session that writes. `NoStopYet` and `OverForCause` say that
  a session of a streaming cast is over only when the receiver broke off,
  since no stop has been queued; that gives the action property.
  `HarmlessLeftovers` is the safety half of `ReleasedAtEnd`: an NTP server is
  told to stop exactly when its session is over, and a heartbeat that outlives
  its session, as a failing send leaves it, has only a broken connection to
  write to.
* `AirPlayPairingProofs`. `PairInv` is about the calls. A genuine reply says
  what the accessory has done (`Replies`): a proof means that it has the key,
  M6 that it has filed the client (`Filed`), a signature in M2 of pair-verify
  which accessory it is (`VerifyKnows`). With these the client's checks give
  `KeysAgree` and `PairingIsMutual`; `UsingMutual` carries the latter from the
  table into a pair-verify and gives `VerifyFindsPairing`. `ChannelInv` is
  about the control channel: `NoncesUsed` bounds the counters of all frames
  ever sealed by the counter of their direction, from which `NonceOnce`
  follows, and `Turn` says whose turn it is: at each point of a request the
  four counters, the frames on their way and the parts collected fit
  together, which is what `ResponseMatches` needs.
* `MessageFramingProofs`. `ReadsAsSent` says what any number of bytes amounts
  to, and induction over them is out of reach. `Conserved` asks instead for
  what follows each message: a function `rest` with `rest[j]` the next message
  and then `rest[j + 1]`, from buffer and connection down to nothing. Sending
  appends to every `rest[j]`, receiving changes none, and taking a message off
  leaves the same function, looked at from the next number on. `FramedLenIs`
  is the lemma about the readers: a buffer that begins with a message, however
  much of it and of later ones it has, has its length computed right as soon
  as the blank line is there, also when the body looks like one. The AirPlay
  readers need `OneAtATime` besides, since they keep nothing of what follows.
  From the same invariant follows `NoByteLost`.
* `DiscoveryProofs`. What a queue of events amounts to is not computed either.
  `DiscoveryInv` speaks of pairs of events, in whichever of the four queues
  they are (`InOrder`: a service's events come in the order of its lives, and
  a lost event is the last of its life), and of single events and entries:
  an entry, or a found event, of a life that is over has its lost event still
  to come (`Entries`, `Promised`), and a service that is there is listed in
  its present life or will be (`Present`). With no event on its way, nothing
  is still to come and `ListTrueWhenSettled` is what remains. Entries by
  address or label have `Located` instead. Signals that raced, and lives found
  in vain, are excepted at the moment they do.

**Model-checked only.** The liveness properties (`DeadSenderForgotten`,
`StalePromptLeaves`, `StopEndsCast`, `EndedCastForgotten`,
`LostSessionNoticed`, `EndIsNoticed`, `StopEndsMiracast`,
`VanishedSinkEndsCast`, `SessionEndsWithTask`, `GroupReleased`,
`StopEndsAirPlay`, `ReleasedAtEnd`, `EveryMessageRead`, `ListFollows`):
fairness and ENABLED are beyond the prover. Every invariant and every action
property of the passing runs is proved.

## 6. Mutants

Next to a definition stand variants with a plausible bug (`BusyIgnoresPrompt`,
`DropDeadKeepsPrompt`, `EndUnreported`, ...), used by nothing else. Each
property fails when the definition is replaced by its variant; the pairs are
under "mutants" in `PROJECT.json`.

## 7. Not modelled

* Cryptography: the arithmetic of SRP on 3072-bit numbers, the ciphers and
  hashes, certificates and TLS. It is symbolic in `AirPlayPairing` and left
  out elsewhere. FairPlay is not used by the session.
* The two state machines of `openplay-protocol`: nothing calls them. The
  bounds that `validate` puts on the contents of messages.
* Byte layouts (TLV8, mirror headers, feature bits, NTP packets), the tables
  of WFD resolutions, text records and addresses of discovery: pure functions
  without state, which the repository's unit tests enumerate. A
  Content-Length near the largest integer.
* The listener task that each Wi-Fi Direct cast leaves behind.
* GStreamer's elements and `webrtcbin`, drawing, configuration and logging,
  file and D-Bus I/O beyond the calls named above: libraries or pure I/O.

Time is not modelled: a timer may fire whenever its condition holds. The
limit of 16 connections is not modelled; neither are the TLS and WebSocket
handshakes, which come before a connection exists for the loop.
