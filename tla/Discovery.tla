------------------------------ MODULE Discovery ------------------------------
(***************************************************************************)
(* How receivers get into the window's list and out of it again.  mDNS     *)
(* browsers for OpenPlay and AirPlay receivers (crates/openplay-discovery/ *)
(* src/browser.rs, airplay_browser.rs) and for Miracast receivers on the   *)
(* network (miracast_browser.rs), and the Wi-Fi Direct signal listener     *)
(* (crates/openplay-miracast/src/wifi_direct.rs), each with a queue and a  *)
(* forwarding task, feed one channel that the window polls (SenderApp::new *)
(* and poll_discovery in crates/openplay-sender/src/app.rs).               *)
(*                                                                         *)
(* A service comes, changes its address and goes.  Every coming is another *)
(* life of it.                                                             *)
(***************************************************************************)
EXTENDS Naturals, Sequences

CONSTANTS
    Mdns,           \* OpenPlay and AirPlay services, by their full name
    Infra,          \* Miracast services on the network, by their full name
    P2p,            \* Wi-Fi Direct peers, by their MAC address
    Addr,           \* addresses
    MacLike, Info,  \* the Infra whose device info has the form of a MAC; that info
    EventCap,       \* room in the window's channel (128 in the code)
    MaxChanges      \* MaxChanges[s]: bound on what s does

Service == Mdns \cup Infra \cup P2p
Label == {Info[s] : s \in MacLike}

ASSUME DiscoveryAssumption == EventCap \in Nat \ {0} /\ MaxChanges \in [Service -> Nat]

(* Keys have a prefix, or a suffix, that tells an address from a name.  No *)
(* display of the network carries the MAC of a peer as its device info.    *)
ASSUME KeysAssumption ==
    /\ MacLike \subseteq Infra /\ P2p \cap (Mdns \cup Infra) = {}
    /\ Service \cap Addr = {} /\ Label \cap (Service \cup Addr) = {}

VARIABLES
    up,             \* up[s]: the service is there
    life,           \* life[s]: how often it has come
    addr,           \* addr[s]: its address
    changes,        \* changes[s]: how much it has done
    found, lost,    \* signals of a peer that the listener has not read
    raced,          \* history: signals of both kinds waited at once
    missed,         \* history: missed[s]: the lives in which s was found in vain
    pipe,           \* pipe[s]: events of s on the way to the window's channel
    events,         \* the window's channel
    list            \* the receivers in the window

world == <<up, life, addr, changes>>
signals == <<found, lost, raced, missed>>
vars == <<world, signals, pipe, events, list>>

Event == [kind : {"found", "lost"}, service : Service, addr : Addr, life : Nat]
Receiver == [key : Service \cup Addr \cup Label, addr : Addr, life : Nat]

DiscoveryTypeOK ==
    /\ up \in [Service -> BOOLEAN] /\ raced \in [Service -> BOOLEAN]
    /\ {life, changes} \subseteq [Service -> Nat] /\ missed \in [Service -> SUBSET Nat]
    /\ addr \in [Service -> Addr]
    /\ {found, lost, pipe} \subseteq [Service -> Seq(Event)]
    /\ events \in Seq(Event) /\ Len(events) <= EventCap
    /\ list \in SUBSET Receiver

Found(s) == [kind |-> "found", service |-> s, addr |-> addr[s], life |-> life[s]]
Lost(s) == [kind |-> "lost", service |-> s, addr |-> addr[s], life |-> life[s]]

Init ==
    /\ up = [s \in Service |-> FALSE]
    /\ life = [s \in Service |-> 0]
    /\ addr \in [Service -> Addr]
    /\ changes = [s \in Service |-> 0]
    /\ found = [s \in Service |-> <<>>] /\ lost = [s \in Service |-> <<>>]
    /\ raced = [s \in Service |-> FALSE] /\ missed = [s \in Service |-> {}]
    /\ pipe = [s \in Service |-> <<>>]
    /\ events = <<>> /\ list = {}

-----------------------------------------------------------------------------
(* The network.  The mDNS daemon reports to the browser's thread in order; *)
(* wpa_supplicant signals DeviceFound and DeviceLost, which the listener   *)
(* receives as two streams.                                                *)

Announce(s, e) ==
    IF s \in P2p
    THEN /\ found' = IF e.kind = "found" THEN [found EXCEPT ![s] = Append(@, e)] ELSE found
         /\ lost' = IF e.kind = "lost" THEN [lost EXCEPT ![s] = Append(@, e)] ELSE lost
         /\ raced' = [raced EXCEPT ![s] = @ \/ (found'[s] # <<>> /\ lost'[s] # <<>>)]
         /\ UNCHANGED <<pipe, missed>>
    ELSE /\ pipe' = [pipe EXCEPT ![s] = Append(@, e)]
         /\ UNCHANGED signals

Change(s) ==
    /\ changes[s] < MaxChanges[s]
    /\ changes' = [changes EXCEPT ![s] = @ + 1]
    /\ UNCHANGED <<events, list>>

Comes(s) ==
    /\ ~up[s]
    /\ Change(s)
    /\ up' = [up EXCEPT ![s] = TRUE]
    /\ life' = [life EXCEPT ![s] = @ + 1]
    /\ Announce(s, [Found(s) EXCEPT !.life = @ + 1])
    /\ UNCHANGED addr

(* A record that refreshes with another address is resolved again.         *)
Moves(s, a) ==
    /\ up[s] /\ s \notin P2p /\ a # addr[s]
    /\ Change(s)
    /\ addr' = [addr EXCEPT ![s] = a]
    /\ Announce(s, [Found(s) EXCEPT !.addr = a])
    /\ UNCHANGED <<up, life>>

Goes(s) ==
    /\ up[s]
    /\ Change(s)
    /\ up' = [up EXCEPT ![s] = FALSE]
    /\ Announce(s, Lost(s))
    /\ UNCHANGED <<life, addr>>

-----------------------------------------------------------------------------
(* listen_for_signals: the select takes either stream.  A peer that is     *)
(* found has its properties read, which have defaults; it may be gone.     *)
(* When there is no proxy for it (get_peer_info), the signal is dropped.   *)

ListenFound(s) ==
    /\ found[s] # <<>>
    /\ pipe' = [pipe EXCEPT ![s] = Append(@, Head(found[s]))]
    /\ found' = [found EXCEPT ![s] = Tail(@)]
    /\ UNCHANGED <<world, lost, raced, missed, events, list>>

ListenInVain(s) ==
    /\ found[s] # <<>>
    /\ found' = [found EXCEPT ![s] = Tail(@)]
    /\ missed' = [missed EXCEPT ![s] = @ \cup {Head(found[s]).life}]
    /\ UNCHANGED <<world, lost, raced, pipe, events, list>>

ListenLost(s) ==
    /\ lost[s] # <<>>
    /\ pipe' = [pipe EXCEPT ![s] = Append(@, Head(lost[s]))]
    /\ lost' = [lost EXCEPT ![s] = Tail(@)]
    /\ UNCHANGED <<world, found, raced, missed, events, list>>

(* The forwarding task waits while the window's channel is full.  Between  *)
(* it and the daemon there are further queues, which lose nothing either.  *)
ForwardOrDrop(s) ==
    /\ pipe[s] # <<>>
    /\ pipe' = [pipe EXCEPT ![s] = Tail(@)]
    /\ events' = IF Len(events) < EventCap THEN Append(events, Head(pipe[s])) ELSE events
    /\ UNCHANGED <<world, signals, list>>

Forward(s) ==
    /\ pipe[s] # <<>> /\ Len(events) < EventCap
    /\ events' = Append(events, Head(pipe[s]))
    /\ pipe' = [pipe EXCEPT ![s] = Tail(@)]
    /\ UNCHANGED <<world, signals, list>>

-----------------------------------------------------------------------------
(* The window *)

KeyByAddress(s, a) == a

(* DiscoveredReceiver::key: the full name, or miracast-p2p- and the MAC,   *)
(* or miracast- and the address.  poll_discovery takes what has the form   *)
(* of a MAC for one, whichever browser the event came from.                *)
Key(s, a) == CASE s \in MacLike -> Info[s]
               [] s \in Infra \ MacLike -> a
               [] OTHER -> s

AddReceiver(e) ==
    LET key == Key(e.service, e.addr) IN
    IF \E r \in list : r.key = key THEN list
    ELSE list \cup {[key |-> key, addr |-> e.addr, life |-> e.life]}

(* A receiver is removed by its name, which is no key for Infra.           *)
RemoveReceiver(e) == {r \in list : r.key # e.service}

(* poll_discovery empties the channel, event by event.                     *)
PollDiscovery ==
    /\ events # <<>>
    /\ events' = Tail(events)
    /\ list' = IF Head(events).kind = "found" THEN AddReceiver(Head(events))
                                              ELSE RemoveReceiver(Head(events))
    /\ UNCHANGED <<world, signals, pipe>>

-----------------------------------------------------------------------------

Next ==
    \/ \E s \in Service : Comes(s) \/ Goes(s) \/ (\E a \in Addr : Moves(s, a))
    \/ \E s \in Service : ListenFound(s) \/ ListenInVain(s) \/ ListenLost(s)
                         \/ Forward(s)
    \/ PollDiscovery

(* Threads and tasks run, and of the senders that wait for room in the     *)
(* window's channel none waits for ever.  The window is drawn again of     *)
(* itself only while it has nothing to list, for its spinner; a cast and   *)
(* the user redraw it too, but need not.                                   *)
Fairness ==
    /\ \A s \in Service : /\ WF_vars(ListenFound(s) \/ ListenInVain(s))
                          /\ WF_vars(ListenLost(s))
                          /\ SF_vars(Forward(s))
    /\ WF_vars(PollDiscovery /\ list = {})

Spec == Init /\ [][Next]_vars
FairSpec == Spec /\ Fairness

-----------------------------------------------------------------------------
(* Properties *)

Listed(s) == \E r \in list : r.key = Key(s, addr[s])

Settled(s) ==
    /\ found[s] = <<>> /\ lost[s] = <<>> /\ pipe[s] = <<>>
    /\ \A i \in 1..Len(events) : events[i].service # s

(* Once every event of a service has been handled, the list is right about *)
(* it: a service that is there is listed, one that has gone is not, and    *)
(* the entry stems from its present life, not from one before.  For a      *)
(* Wi-Fi Direct peer this takes that its signals never waited in both      *)
(* streams at once, and that it was not found in vain in this life; a      *)
(* Miracast receiver of the network stays listed when it has gone (the     *)
(* browsers, the forwarding tasks and poll_discovery).                     *)
ListTrueWhenSettled ==
    \A s \in Service : (Settled(s) /\ ~raced[s]) =>
        /\ (up[s] /\ life[s] \notin missed[s]) => Listed(s)
        /\ (Listed(s) /\ s \notin Infra) =>
              up[s] /\ \A r \in list : r.key = s => r.life = life[s]

(* poll_discovery empties the channel: the window is drawn again and again *)
(* (a cast is shown, or the user is at it).                                *)
Drawn == []<>(events = <<>>)

(* An idle window does not search on while a receiver is there: it leaves  *)
(* the empty list, through full queues and with other services coming and  *)
(* going.  In a window that is drawn, a receiver that stays is listed in   *)
(* the end and one that stays away is not.                                 *)
ListFollows ==
    /\ \A s \in Service \ P2p : <>[]up[s] => []<>(list # {})
    /\ Drawn => \A s \in Mdns : /\ <>[]up[s] => <>[]Listed(s)
                               /\ <>[](~up[s]) => <>[](~Listed(s))

=============================================================================
