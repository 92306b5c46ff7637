--------------------------- MODULE DiscoveryProofs ---------------------------
(***************************************************************************)
(* What the list says once the events are through, for any services and    *)
(* addresses, any size of the channel and any number of changes.           *)
(*                                                                         *)
(* What a queue of events amounts to is never computed.  The invariant     *)
(* speaks of pairs of events (which comes first) and of single ones (which *)
(* other event is still to come), so it needs no induction over a queue.   *)
(***************************************************************************)
EXTENDS Discovery, SequenceTheorems, TLAPS

(* The events of s in a queue, and those on their way to the list in any   *)
(* of its four queues.                                                     *)
InQueue(s, q) == {e \in Event : e.service = s /\ \E i \in 1..Len(q) : q[i] = e}
OnWay(s, a, b, c, d) == InQueue(s, a) \cup InQueue(s, b) \cup InQueue(s, c) \cup InQueue(s, d)
Pending(s) == OnWay(s, events, pipe[s], found[s], lost[s])

(* Events of one service in the order of their lives; a lost event is the  *)
(* last of its life.                                                       *)
Precedes(e, f) == e.life < f.life \/ (e.life = f.life /\ e.kind = "found")

Sorted(s, q) ==
    \A i, j \in 1..Len(q) :
        i < j /\ q[i].service = s /\ q[j].service = s => Precedes(q[i], q[j])
Before(s, q, r) == \A e \in InQueue(s, q), f \in InQueue(s, r) : Precedes(e, f)

(* The window's channel a, then what is to be forwarded b, then signals c  *)
(* and d, of which only one kind waits.                                    *)
Chain(s, a, b, c, d) ==
    /\ Sorted(s, a) /\ Sorted(s, b) /\ Sorted(s, c) /\ Sorted(s, d)
    /\ Before(s, a, b) /\ Before(s, a, c) /\ Before(s, a, d)
    /\ Before(s, b, c) /\ Before(s, b, d)
    /\ c = <<>> \/ d = <<>>
InOrder(s) == Chain(s, events, pipe[s], found[s], lost[s])

(* An event waits in the queues of its own service, a signal in those of a *)
(* peer.                                                                   *)
Own(s, q) == \A i \in 1..Len(q) : q[i].service = s
AllFound(q) == \A i \in 1..Len(q) : q[i].kind = "found"
Routed ==
    \A s \in Service :
        /\ Own(s, pipe[s]) /\ Own(s, found[s]) /\ Own(s, lost[s])
        /\ AllFound(found[s])
        /\ s \notin P2p => found[s] = <<>> /\ lost[s] = <<>>

(* The life L of s is over. *)
Past(s, L) == L < life[s] \/ ~up[s]

(* Its end is on the way. *)
EndComing(s, L) == \E e \in Pending(s) : e.kind = "lost" /\ e.life = L

(* No event is of a life to come, and none says that a life is over that   *)
(* is not.                                                                 *)
Lives(s) ==
    \A e \in Pending(s) : e.life <= life[s] /\ (e.kind = "lost" => Past(s, e.life))

(* An entry in the list, or one that an event will make, of a life that is *)
(* over will be removed.  No event on its way is older than the entry.     *)
Entries(s) ==
    \A r \in list : r.key = s =>
        /\ r.life <= life[s]
        /\ Past(s, r.life) => EndComing(s, r.life)
        /\ \A e \in Pending(s) : r.life <= e.life
Promised(s) ==
    \A e \in Pending(s) : e.kind = "found" /\ Past(s, e.life) => EndComing(s, e.life)

(* A service that is there is listed in its present life, or will be,      *)
(* unless it was found in vain in that life.                               *)
Present(s) ==
    (up[s] /\ life[s] \notin missed[s]) =>
             \/ \E r \in list : r.key = s /\ r.life = life[s]
             \/ \E e \in Pending(s) : e.kind = "found" /\ e.life = life[s]

(* A display of the network is listed, by its present address when it goes *)
(* by that, or will be.                                                    *)
Located(s) ==
    up[s] => \/ \E r \in list : r.key = Key(s, addr[s])
             \/ \E e \in Pending(s) : e.kind = "found" /\ Key(s, e.addr) = Key(s, addr[s])

ServiceInv(s) ==
    ~raced[s] => IF s \in Infra THEN Located(s)
                 ELSE InOrder(s) /\ Lives(s) /\ Entries(s) /\ Promised(s) /\ Present(s)

ServicesOK == \A s \in Service : ServiceInv(s)
DiscoveryInv == DiscoveryTypeOK /\ Routed /\ ServicesOK

-----------------------------------------------------------------------------
(* Queues *)

(* An event that joins a queue is in it, and nothing else is new. *)
LEMMA InQueueAppend ==
    ASSUME NEW s, NEW q \in Seq(Event), NEW e \in Event
    PROVE  InQueue(s, Append(q, e)) = InQueue(s, q) \cup {f \in {e} : f.service = s}
<1>1. /\ Len(Append(q, e)) = Len(q) + 1 /\ Len(q) \in Nat
      /\ \A i \in 1..Len(q) : Append(q, e)[i] = q[i]
      /\ Append(q, e)[Len(q) + 1] = e
  BY AppendProperties, LenProperties
<1>2. \A i \in 1..Len(q) + 1 : i \in 1..Len(q) \/ i = Len(q) + 1
  BY <1>1
<1>3. Len(q) + 1 \in 1..Len(q) + 1 /\ \A i \in 1..Len(q) : i \in 1..Len(q) + 1
  BY <1>1
<1>4. ASSUME NEW f \in Event
      PROVE  (\E i \in 1..Len(Append(q, e)) : Append(q, e)[i] = f)
                <=> ((\E i \in 1..Len(q) : q[i] = f) \/ f = e)
  BY <1>1, <1>2, <1>3
<1> QED  BY <1>4 DEF InQueue

LEMMA AppendOwn ==
    ASSUME NEW s, NEW e \in Event, e.service = s
    PROVE  \A q \in Seq(Event) : InQueue(s, Append(q, e)) = InQueue(s, q) \cup {e}
<1> SUFFICES ASSUME NEW q \in Seq(Event) PROVE InQueue(s, Append(q, e)) = InQueue(s, q) \cup {e}
  OBVIOUS
<1>1. InQueue(s, Append(q, e)) = InQueue(s, q) \cup {f \in {e} : f.service = s}
  BY InQueueAppend
<1> QED  BY <1>1

(* A queue is its head and its tail. *)
LEMMA InQueueTail ==
    ASSUME NEW s, NEW q \in Seq(Event), q # <<>>
    PROVE  InQueue(s, q) = InQueue(s, Tail(q)) \cup {f \in {Head(q)} : f.service = s}
<1>1. /\ Head(q) \in Event /\ Tail(q) \in Seq(Event) /\ Len(Tail(q)) = Len(q) - 1
      /\ \A i \in 1..Len(Tail(q)) : Tail(q)[i] = q[i + 1]
  BY HeadTailProperties
<1>2. Len(q) \in Nat \ {0} /\ Head(q) = q[1]
  BY EmptySeq
<1>3. \A i \in 1..Len(q) : i = 1 \/ (i - 1 \in 1..Len(Tail(q)) /\ Tail(q)[i - 1] = q[i])
  BY <1>1, <1>2
<1>4. 1 \in 1..Len(q) /\ \A i \in 1..Len(Tail(q)) : i + 1 \in 1..Len(q)
  BY <1>1, <1>2
<1>5. ASSUME NEW f \in Event
      PROVE  (\E i \in 1..Len(q) : q[i] = f)
                <=> ((\E i \in 1..Len(Tail(q)) : Tail(q)[i] = f) \/ f = Head(q))
  BY <1>1, <1>2, <1>3, <1>4
<1> QED  BY <1>1, <1>5 DEF InQueue

(* A queue stays sorted when an event joins it that all others precede. *)
LEMMA SortedAppend ==
    ASSUME NEW s, NEW q \in Seq(Event), NEW e \in Event, Sorted(s, q),
           e.service = s => \A f \in InQueue(s, q) : Precedes(f, e)
    PROVE  Sorted(s, Append(q, e))
<1>1. /\ Len(Append(q, e)) = Len(q) + 1 /\ Len(q) \in Nat
      /\ \A i \in 1..Len(q) : Append(q, e)[i] = q[i]
      /\ Append(q, e)[Len(q) + 1] = e
  BY AppendProperties, LenProperties
<1> SUFFICES ASSUME NEW i \in 1..Len(q) + 1, NEW j \in 1..Len(q) + 1, i < j,
                    Append(q, e)[i].service = s, Append(q, e)[j].service = s
             PROVE  Precedes(Append(q, e)[i], Append(q, e)[j])
  BY <1>1 DEF Sorted
<1>2. i \in 1..Len(q) /\ (j \in 1..Len(q) \/ j = Len(q) + 1)
  BY <1>1
<1>3. CASE j \in 1..Len(q)
  BY <1>1, <1>2, <1>3 DEF Sorted
<1>4. CASE j = Len(q) + 1
  <2>1. q[i] \in Event
    BY <1>2, ElementOfSeq
  <2>2. q[i] \in InQueue(s, q)
    BY <2>1, <1>1, <1>2 DEF InQueue
  <2> QED  BY <2>2, <1>1, <1>2, <1>4
<1> QED  BY <1>2, <1>3, <1>4

(* The rest of a sorted queue is sorted, and its head precedes the rest. *)
LEMMA SortedTail ==
    ASSUME NEW s, NEW q \in Seq(Event), q # <<>>, Sorted(s, q)
    PROVE  /\ Sorted(s, Tail(q))
           /\ Head(q).service = s => \A f \in InQueue(s, Tail(q)) : Precedes(Head(q), f)
<1>1. /\ Head(q) \in Event /\ Tail(q) \in Seq(Event) /\ Len(Tail(q)) = Len(q) - 1
      /\ \A i \in 1..Len(Tail(q)) : Tail(q)[i] = q[i + 1]
  BY HeadTailProperties
<1>2. Len(q) \in Nat \ {0} /\ Head(q) = q[1]
  BY EmptySeq
<1>3. \A i \in 1..Len(Tail(q)) : i + 1 \in 1..Len(q)
  BY <1>1, <1>2
<1>4. Sorted(s, Tail(q))
  <2> SUFFICES ASSUME NEW i \in 1..Len(Tail(q)), NEW j \in 1..Len(Tail(q)), i < j,
                      Tail(q)[i].service = s, Tail(q)[j].service = s
               PROVE  Precedes(Tail(q)[i], Tail(q)[j])
    BY DEF Sorted
  <2>1. i + 1 < j + 1 /\ Tail(q)[i] = q[i + 1] /\ Tail(q)[j] = q[j + 1]
    BY <1>1, <1>2
  <2> QED  BY <2>1, <1>3 DEF Sorted
<1>5. ASSUME Head(q).service = s, NEW f \in InQueue(s, Tail(q))
      PROVE  Precedes(Head(q), f)
  <2>1. PICK i \in 1..Len(Tail(q)) : Tail(q)[i] = f
    BY <1>5 DEF InQueue
  <2>2. f.service = s /\ f = q[i + 1] /\ i + 1 \in 1..Len(q) /\ 1 \in 1..Len(q) /\ 1 < i + 1
    BY <1>5, <2>1, <1>1, <1>2, <1>3 DEF InQueue
  <2> QED  BY <2>2, <1>2, <1>5 DEF Sorted
<1> QED  BY <1>4, <1>5

(* The head of a queue goes to the end of the queue ahead of it. *)
LEMMA SortedMove ==
    ASSUME NEW s, NEW q \in Seq(Event), NEW r \in Seq(Event), r # <<>>,
           Sorted(s, q), Sorted(s, r), Before(s, q, r)
    PROVE  /\ Sorted(s, Append(q, Head(r))) /\ Sorted(s, Tail(r))
           /\ Before(s, Append(q, Head(r)), Tail(r))
           /\ InQueue(s, Append(q, Head(r))) \cup InQueue(s, Tail(r))
                 = InQueue(s, q) \cup InQueue(s, r)
<1>1. Head(r) \in Event
  BY HeadTailProperties
<1>2. InQueue(s, r) = InQueue(s, Tail(r)) \cup {f \in {Head(r)} : f.service = s}
  BY InQueueTail
<1>3. InQueue(s, Append(q, Head(r))) = InQueue(s, q) \cup {f \in {Head(r)} : f.service = s}
  BY <1>1, InQueueAppend
<1>4. Sorted(s, Append(q, Head(r)))
  <2>1. Head(r).service = s => \A f \in InQueue(s, q) : Precedes(f, Head(r))
    BY <1>2 DEF Before
  <2> QED  BY <1>1, <2>1, SortedAppend
<1>5. /\ Sorted(s, Tail(r))
      /\ Head(r).service = s => \A f \in InQueue(s, Tail(r)) : Precedes(Head(r), f)
  BY SortedTail
<1>6. Before(s, Append(q, Head(r)), Tail(r))
  BY <1>2, <1>3, <1>5 DEF Before
<1> QED  BY <1>2, <1>3, <1>4, <1>5, <1>6

LEMMA EmptyQueue ==
    ASSUME NEW s
    PROVE  /\ InQueue(s, <<>>) = {} /\ Sorted(s, <<>>)
           /\ \A q : Before(s, q, <<>>) /\ Before(s, <<>>, q)
<1>1. InQueue(s, <<>>) = {}
  BY DEF InQueue
<1> QED  BY <1>1 DEF Sorted, Before

(* A new event that all others precede joins the last queue of the chain. *)
LEMMA ChainLast ==
    ASSUME NEW s, NEW a \in Seq(Event), NEW b \in Seq(Event),
           NEW c \in Seq(Event), NEW d \in Seq(Event),
           NEW e \in Event, e.service = s,
           Chain(s, a, b, c, d), \A f \in OnWay(s, a, b, c, d) : Precedes(f, e)
    PROVE  /\ c = <<>> /\ d = <<>> => Chain(s, a, Append(b, e), c, d)
           /\ d = <<>> => Chain(s, a, b, Append(c, e), d)
           /\ c = <<>> => Chain(s, a, b, c, Append(d, e))
<1>1. \A q \in Seq(Event) : InQueue(s, Append(q, e)) = InQueue(s, q) \cup {e}
  BY AppendOwn
<1>2. \A q \in Seq(Event) :
         Sorted(s, q) /\ (\A f \in InQueue(s, q) : Precedes(f, e)) => Sorted(s, Append(q, e))
  BY SortedAppend
<1>3. \A q \in {a, b, c, d} : \A f \in InQueue(s, q) : Precedes(f, e)
  BY DEF OnWay
<1>4. \A q \in {b, c, d} : Sorted(s, Append(q, e))
  BY <1>2, <1>3 DEF Chain
<1>5. \A p \in {a, b}, q \in {b, c, d} : Before(s, p, q) => Before(s, p, Append(q, e))
  BY <1>1, <1>3 DEF Before
<1>6. CASE c = <<>> /\ d = <<>>
  BY <1>4, <1>5, <1>6, EmptyQueue DEF Chain
<1>7. CASE d = <<>>
  BY <1>4, <1>5, <1>7, EmptyQueue DEF Chain
<1>8. CASE c = <<>>
  BY <1>4, <1>5, <1>8, EmptyQueue DEF Chain
<1> QED  BY <1>6, <1>7, <1>8

(* An event goes from one queue to the end of the one ahead of it. *)
LEMMA ChainMove ==
    ASSUME NEW s, NEW a \in Seq(Event), NEW b \in Seq(Event),
           NEW c \in Seq(Event), NEW d \in Seq(Event)
    PROVE  /\ b # <<>> =>
                /\ OnWay(s, Append(a, Head(b)), Tail(b), c, d) = OnWay(s, a, b, c, d)
                /\ Chain(s, a, b, c, d) => Chain(s, Append(a, Head(b)), Tail(b), c, d)
           /\ c # <<>> =>
                /\ OnWay(s, a, Append(b, Head(c)), Tail(c), d) = OnWay(s, a, b, c, d)
                /\ Chain(s, a, b, c, d) => Chain(s, a, Append(b, Head(c)), Tail(c), d)
           /\ d # <<>> =>
                /\ OnWay(s, a, Append(b, Head(d)), c, Tail(d)) = OnWay(s, a, b, c, d)
                /\ Chain(s, a, b, c, d) => Chain(s, a, Append(b, Head(d)), c, Tail(d))
<1>1. \A q, r \in Seq(Event) : r # <<>> =>
         /\ InQueue(s, Append(q, Head(r))) \cup InQueue(s, Tail(r))
               = InQueue(s, q) \cup InQueue(s, r)
         /\ InQueue(s, Append(q, Head(r))) \subseteq InQueue(s, q) \cup InQueue(s, r)
         /\ InQueue(s, Tail(r)) \subseteq InQueue(s, r)
         /\ Sorted(s, q) /\ Sorted(s, r) /\ Before(s, q, r) =>
               /\ Sorted(s, Append(q, Head(r))) /\ Sorted(s, Tail(r))
               /\ Before(s, Append(q, Head(r)), Tail(r))
  <2> SUFFICES ASSUME NEW q \in Seq(Event), NEW r \in Seq(Event), r # <<>>
               PROVE  /\ InQueue(s, Append(q, Head(r))) \cup InQueue(s, Tail(r))
                            = InQueue(s, q) \cup InQueue(s, r)
                      /\ InQueue(s, Append(q, Head(r))) \subseteq InQueue(s, q) \cup InQueue(s, r)
                      /\ InQueue(s, Tail(r)) \subseteq InQueue(s, r)
                      /\ Sorted(s, q) /\ Sorted(s, r) /\ Before(s, q, r) =>
                            /\ Sorted(s, Append(q, Head(r))) /\ Sorted(s, Tail(r))
                            /\ Before(s, Append(q, Head(r)), Tail(r))
    OBVIOUS
  <2>1. Head(r) \in Event
    BY HeadTailProperties
  <2>2. InQueue(s, r) = InQueue(s, Tail(r)) \cup {f \in {Head(r)} : f.service = s}
    BY InQueueTail
  <2>3. InQueue(s, Append(q, Head(r))) = InQueue(s, q) \cup {f \in {Head(r)} : f.service = s}
    BY <2>1, InQueueAppend
  <2>4. Sorted(s, q) /\ Sorted(s, r) /\ Before(s, q, r) =>
           /\ Sorted(s, Append(q, Head(r))) /\ Sorted(s, Tail(r))
           /\ Before(s, Append(q, Head(r)), Tail(r))
    BY SortedMove
  <2> QED  BY <2>2, <2>3, <2>4
<1>2. \A p, q, r \in Seq(Event) : r # <<>> =>
         /\ Before(s, p, q) /\ Before(s, p, r) =>
               Before(s, p, Append(q, Head(r))) /\ Before(s, p, Tail(r))
         /\ Before(s, q, p) /\ Before(s, r, p) =>
               Before(s, Append(q, Head(r)), p) /\ Before(s, Tail(r), p)
  <2> SUFFICES ASSUME NEW p \in Seq(Event), NEW q \in Seq(Event), NEW r \in Seq(Event), r # <<>>
               PROVE  /\ Before(s, p, q) /\ Before(s, p, r) =>
                            Before(s, p, Append(q, Head(r))) /\ Before(s, p, Tail(r))
                      /\ Before(s, q, p) /\ Before(s, r, p) =>
                            Before(s, Append(q, Head(r)), p) /\ Before(s, Tail(r), p)
    OBVIOUS
  <2>1. /\ InQueue(s, Append(q, Head(r))) \subseteq InQueue(s, q) \cup InQueue(s, r)
        /\ InQueue(s, Tail(r)) \subseteq InQueue(s, r)
    BY <1>1
  <2> QED  BY <2>1 DEF Before
<1>3. ASSUME b # <<>>
      PROVE  /\ OnWay(s, Append(a, Head(b)), Tail(b), c, d) = OnWay(s, a, b, c, d)
             /\ Chain(s, a, b, c, d) => Chain(s, Append(a, Head(b)), Tail(b), c, d)
  BY <1>1, <1>2, <1>3 DEF OnWay, Chain
<1>4. ASSUME c # <<>>
      PROVE  /\ OnWay(s, a, Append(b, Head(c)), Tail(c), d) = OnWay(s, a, b, c, d)
             /\ Chain(s, a, b, c, d) => Chain(s, a, Append(b, Head(c)), Tail(c), d)
  BY <1>1, <1>2, <1>4, EmptyQueue DEF OnWay, Chain
<1>5. ASSUME d # <<>>
      PROVE  /\ OnWay(s, a, Append(b, Head(d)), c, Tail(d)) = OnWay(s, a, b, c, d)
             /\ Chain(s, a, b, c, d) => Chain(s, a, Append(b, Head(d)), c, Tail(d))
  BY <1>1, <1>2, <1>5, EmptyQueue DEF OnWay, Chain
<1> QED  BY <1>3, <1>4, <1>5

(* The first event of the channel is taken; it precedes all that is left. *)
LEMMA ChainFirst ==
    ASSUME NEW s, NEW a \in Seq(Event), NEW b, NEW c, NEW d, a # <<>>
    PROVE  /\ OnWay(s, a, b, c, d)
                 = OnWay(s, Tail(a), b, c, d) \cup {f \in {Head(a)} : f.service = s}
           /\ Chain(s, a, b, c, d) =>
                 /\ Chain(s, Tail(a), b, c, d)
                 /\ Head(a).service = s =>
                       \A f \in OnWay(s, Tail(a), b, c, d) : Precedes(Head(a), f)
<1>1. InQueue(s, a) = InQueue(s, Tail(a)) \cup {f \in {Head(a)} : f.service = s}
  BY InQueueTail
<1>2. Sorted(s, a) =>
         /\ Sorted(s, Tail(a))
         /\ Head(a).service = s => \A f \in InQueue(s, Tail(a)) : Precedes(Head(a), f)
  BY SortedTail
<1> QED  BY <1>1, <1>2 DEF OnWay, Chain, Before

(* The first found signal is dropped. *)
LEMMA ChainDrop ==
    ASSUME NEW s, NEW a, NEW b, NEW c \in Seq(Event), NEW d, c # <<>>
    PROVE  /\ OnWay(s, a, b, c, d)
                 = OnWay(s, a, b, Tail(c), d) \cup {f \in {Head(c)} : f.service = s}
           /\ Chain(s, a, b, c, d) => Chain(s, a, b, Tail(c), d)
<1>1. InQueue(s, c) = InQueue(s, Tail(c)) \cup {f \in {Head(c)} : f.service = s}
  BY InQueueTail
<1>2. Sorted(s, c) => Sorted(s, Tail(c))
  BY SortedTail
<1> QED  BY <1>1, <1>2 DEF OnWay, Chain, Before

(* An event of another service joins the channel. *)
LEMMA ChainOther ==
    ASSUME NEW s, NEW a \in Seq(Event), NEW b, NEW c, NEW d, NEW e \in Event, e.service # s
    PROVE  /\ OnWay(s, Append(a, e), b, c, d) = OnWay(s, a, b, c, d)
           /\ Chain(s, a, b, c, d) => Chain(s, Append(a, e), b, c, d)
<1>1. InQueue(s, Append(a, e)) = InQueue(s, a)
  <2>1. InQueue(s, Append(a, e)) = InQueue(s, a) \cup {f \in {e} : f.service = s}
    BY InQueueAppend
  <2> QED  BY <2>1
<1>2. Sorted(s, a) => Sorted(s, Append(a, e))
  BY SortedAppend
<1> QED  BY <1>1, <1>2 DEF OnWay, Chain, Before

-----------------------------------------------------------------------------
(* What the steps do to the queues *)

LEMMA QueueTail ==
    ASSUME NEW q \in Seq(Event), q # <<>>
    PROVE  /\ Head(q) \in Event /\ Tail(q) \in Seq(Event) /\ Len(Tail(q)) = Len(q) - 1
           /\ Len(q) \in Nat \ {0}
           /\ \A t : Own(t, q) => Head(q).service = t /\ Own(t, Tail(q))
           /\ AllFound(q) => Head(q).kind = "found" /\ AllFound(Tail(q))
<1>1. /\ Head(q) \in Event /\ Tail(q) \in Seq(Event) /\ Len(Tail(q)) = Len(q) - 1
      /\ \A i \in 1..Len(Tail(q)) : Tail(q)[i] = q[i + 1]
  BY HeadTailProperties
<1>2. Len(q) \in Nat \ {0} /\ Head(q) = q[1]
  BY EmptySeq
<1>3. \A i \in 1..Len(Tail(q)) : i + 1 \in 1..Len(q)
  BY <1>1, <1>2
<1> QED  BY <1>1, <1>2, <1>3 DEF Own, AllFound

LEMMA QueueAppend ==
    ASSUME NEW q \in Seq(Event), NEW e \in Event
    PROVE  /\ Append(q, e) \in Seq(Event) /\ Append(q, e) # <<>> /\ Len(Append(q, e)) = Len(q) + 1 /\ Len(q) \in Nat
           /\ \A t : Own(t, q) /\ e.service = t => Own(t, Append(q, e))
           /\ AllFound(q) /\ e.kind = "found" => AllFound(Append(q, e))
<1>1. /\ Append(q, e) \in Seq(Event) /\ Append(q, e) # <<>>
      /\ Len(Append(q, e)) = Len(q) + 1 /\ Len(q) \in Nat
      /\ \A i \in 1..Len(q) : Append(q, e)[i] = q[i]
      /\ Append(q, e)[Len(q) + 1] = e
  BY AppendProperties, LenProperties
<1>2. \A i \in 1..Len(q) + 1 : i \in 1..Len(q) \/ i = Len(q) + 1
  BY <1>1
<1> QED  BY <1>1, <1>2 DEF Own, AllFound

(* An event that is announced is pending, after all others. *)
LEMMA AnnounceEffect ==
    ASSUME DiscoveryTypeOK, Routed, NEW s \in Service, NEW e \in Event, e.service = s,
           Announce(s, e), events' = events
    PROVE  /\ {found', lost', pipe'} \subseteq [Service -> Seq(Event)]
           /\ raced' \in [Service -> BOOLEAN] /\ missed' = missed
           /\ Routed'
           /\ Pending(s)' = Pending(s) \cup {e}
           /\ \A t \in Service : ~raced'[t] => ~raced[t]
           /\ \A t \in Service \ {s} : Pending(t)' = Pending(t) /\ (InOrder(t) => InOrder(t)')
           /\ InOrder(s) /\ ~raced'[s] /\ (\A f \in Pending(s) : Precedes(f, e)) => InOrder(s)'
<1>0. /\ pipe[s] \in Seq(Event) /\ found[s] \in Seq(Event) /\ lost[s] \in Seq(Event)
      /\ events \in Seq(Event)
      /\ {found, lost, pipe} \subseteq [Service -> Seq(Event)] /\ raced \in [Service -> BOOLEAN]
  BY DEF DiscoveryTypeOK
<1>1. \A q \in Seq(Event) :
         /\ Append(q, e) \in Seq(Event) /\ Append(q, e) # <<>>
         /\ Own(s, q) => Own(s, Append(q, e))
         /\ AllFound(q) /\ e.kind = "found" => AllFound(Append(q, e))
  BY QueueAppend
<1>2. /\ OnWay(s, events, Append(pipe[s], e), found[s], lost[s]) = Pending(s) \cup {e}
      /\ OnWay(s, events, pipe[s], Append(found[s], e), lost[s]) = Pending(s) \cup {e}
      /\ OnWay(s, events, pipe[s], found[s], Append(lost[s], e)) = Pending(s) \cup {e}
      /\ InOrder(s) /\ (\A f \in Pending(s) : Precedes(f, e)) =>
           /\ found[s] = <<>> /\ lost[s] = <<>>
                 => Chain(s, events, Append(pipe[s], e), found[s], lost[s])
           /\ lost[s] = <<>> => Chain(s, events, pipe[s], Append(found[s], e), lost[s])
           /\ found[s] = <<>> => Chain(s, events, pipe[s], found[s], Append(lost[s], e))
  <2>1. /\ OnWay(s, events, Append(pipe[s], e), found[s], lost[s])
              = OnWay(s, events, pipe[s], found[s], lost[s]) \cup {e}
        /\ OnWay(s, events, pipe[s], Append(found[s], e), lost[s])
              = OnWay(s, events, pipe[s], found[s], lost[s]) \cup {e}
        /\ OnWay(s, events, pipe[s], found[s], Append(lost[s], e))
              = OnWay(s, events, pipe[s], found[s], lost[s]) \cup {e}
    <3>1. \A q \in Seq(Event) : InQueue(s, Append(q, e)) = InQueue(s, q) \cup {e}
      BY AppendOwn
    <3> QED  BY <1>0, <3>1 DEF OnWay
  <2>2. ASSUME Chain(s, events, pipe[s], found[s], lost[s]),
               \A f \in OnWay(s, events, pipe[s], found[s], lost[s]) : Precedes(f, e)
        PROVE  /\ found[s] = <<>> /\ lost[s] = <<>>
                     => Chain(s, events, Append(pipe[s], e), found[s], lost[s])
               /\ lost[s] = <<>> => Chain(s, events, pipe[s], Append(found[s], e), lost[s])
               /\ found[s] = <<>> => Chain(s, events, pipe[s], found[s], Append(lost[s], e))
    BY <1>0, <2>2, ChainLast
  <2> QED  BY <2>1, <2>2 DEF Pending, InOrder
<1>3. \A t \in Service \ {s} : Pending(t)' = Pending(t) /\ (InOrder(t) => InOrder(t)')
  <2> SUFFICES ASSUME NEW t \in Service \ {s}
               PROVE  Pending(t)' = Pending(t) /\ (InOrder(t) => InOrder(t)')
    OBVIOUS
  <2>1. pipe'[t] = pipe[t] /\ found'[t] = found[t] /\ lost'[t] = lost[t]
    BY <1>0 DEF Announce, signals
  <2> QED  BY <2>1 DEF Pending, InOrder
<1>4. CASE s \notin P2p
  <2>1. /\ pipe' = [pipe EXCEPT ![s] = Append(@, e)]
        /\ found' = found /\ lost' = lost /\ raced' = raced /\ missed' = missed
    BY <1>4 DEF Announce, signals
  <2>2. pipe'[s] = Append(pipe[s], e) /\ found[s] = <<>> /\ lost[s] = <<>>
    BY <2>1, <1>0, <1>4 DEF Routed
  <2>3. Routed'
    BY <2>1, <2>2, <1>0, <1>1 DEF Routed
  <2>4. Pending(s)' = Pending(s) \cup {e}
    BY <2>1, <2>2, <1>2 DEF Pending
  <2>5. InOrder(s) /\ (\A f \in Pending(s) : Precedes(f, e)) => InOrder(s)'
    BY <2>1, <2>2, <1>2 DEF InOrder
  <2> QED  BY <2>1, <2>3, <2>4, <2>5, <1>0, <1>1, <1>3
<1>5. CASE s \in P2p /\ e.kind = "found"
  <2>1. /\ found' = [found EXCEPT ![s] = Append(@, e)] /\ lost' = lost /\ pipe' = pipe
        /\ missed' = missed
        /\ raced' = [raced EXCEPT ![s] = @ \/ (found'[s] # <<>> /\ lost'[s] # <<>>)]
    BY <1>5 DEF Announce
  <2>2. found'[s] = Append(found[s], e) /\ found'[s] # <<>>
    BY <2>1, <1>0, <1>1
  <2>3. Routed'
    BY <2>1, <2>2, <1>0, <1>1, <1>5 DEF Routed
  <2>4. Pending(s)' = Pending(s) \cup {e}
    BY <2>1, <2>2, <1>2 DEF Pending
  <2>5. /\ raced' \in [Service -> BOOLEAN]
        /\ \A t \in Service : ~raced'[t] => ~raced[t]
        /\ ~raced'[s] => lost[s] = <<>>
    BY <2>1, <2>2, <1>0
  <2>6. InOrder(s) /\ ~raced'[s] /\ (\A f \in Pending(s) : Precedes(f, e)) => InOrder(s)'
    BY <2>1, <2>2, <2>5, <1>2 DEF InOrder
  <2> QED  BY <2>1, <2>3, <2>4, <2>5, <2>6, <1>0, <1>1, <1>3
<1>6. CASE s \in P2p /\ e.kind = "lost"
  <2>1. /\ lost' = [lost EXCEPT ![s] = Append(@, e)] /\ found' = found /\ pipe' = pipe
        /\ missed' = missed
        /\ raced' = [raced EXCEPT ![s] = @ \/ (found'[s] # <<>> /\ lost'[s] # <<>>)]
    BY <1>6 DEF Announce
  <2>2. lost'[s] = Append(lost[s], e) /\ lost'[s] # <<>>
    BY <2>1, <1>0, <1>1
  <2>3. Routed'
    BY <2>1, <2>2, <1>0, <1>1, <1>6 DEF Routed
  <2>4. Pending(s)' = Pending(s) \cup {e}
    BY <2>1, <2>2, <1>2 DEF Pending
  <2>5. /\ raced' \in [Service -> BOOLEAN]
        /\ \A t \in Service : ~raced'[t] => ~raced[t]
        /\ ~raced'[s] => found[s] = <<>>
    BY <2>1, <2>2, <1>0
  <2>6. InOrder(s) /\ ~raced'[s] /\ (\A f \in Pending(s) : Precedes(f, e)) => InOrder(s)'
    BY <2>1, <2>2, <2>5, <1>2 DEF InOrder
  <2> QED  BY <2>1, <2>3, <2>4, <2>5, <2>6, <1>0, <1>1, <1>3
<1> QED  BY <1>4, <1>5, <1>6 DEF Event

(* Events on their way move on; none is lost, and none overtakes. *)
Conveyed ==
    /\ {found', lost', pipe'} \subseteq [Service -> Seq(Event)]
    /\ events' \in Seq(Event) /\ Len(events') <= EventCap
    /\ Routed'
    /\ \A t \in Service : Pending(t)' = Pending(t) /\ (InOrder(t) => InOrder(t)')

LEMMA ForwardEffect ==
    ASSUME DiscoveryTypeOK, Routed, NEW s \in Service, Forward(s)
    PROVE  Conveyed
<1>1. /\ pipe[s] \in Seq(Event) /\ pipe[s] # <<>> /\ events \in Seq(Event)
      /\ events' = Append(events, Head(pipe[s]))
      /\ pipe' = [pipe EXCEPT ![s] = Tail(@)] /\ found' = found /\ lost' = lost
      /\ Len(events) < EventCap
      /\ {found, lost, pipe} \subseteq [Service -> Seq(Event)]
  BY DEF Forward, signals, DiscoveryTypeOK
<1>2. /\ Head(pipe[s]) \in Event /\ Tail(pipe[s]) \in Seq(Event)
      /\ Head(pipe[s]).service = s
      /\ Own(s, Tail(pipe[s]))
  BY <1>1, QueueTail DEF Routed
<1>3. events' \in Seq(Event) /\ Len(events') <= EventCap
  BY <1>1, <1>2, QueueAppend, DiscoveryAssumption
<1>4. pipe' \in [Service -> Seq(Event)] /\ Routed'
  BY <1>1, <1>2 DEF Routed
<1>5. ASSUME NEW t \in Service
      PROVE  Pending(t)' = Pending(t) /\ (InOrder(t) => InOrder(t)')
  <2>1. CASE t = s
    <3>1. pipe'[t] = Tail(pipe[t])
      BY <1>1, <2>1
    <3>2. /\ OnWay(t, Append(events, Head(pipe[t])), Tail(pipe[t]), found[t], lost[t])
                = OnWay(t, events, pipe[t], found[t], lost[t])
          /\ Chain(t, events, pipe[t], found[t], lost[t])
                => Chain(t, Append(events, Head(pipe[t])), Tail(pipe[t]), found[t], lost[t])
      BY <1>1, <2>1, ChainMove
    <3> QED  BY <1>1, <2>1, <3>1, <3>2 DEF Pending, InOrder
  <2>2. CASE t # s
    <3>1. pipe'[t] = pipe[t]
      BY <1>1, <2>2
    <3>2. /\ OnWay(t, Append(events, Head(pipe[s])), pipe[t], found[t], lost[t])
                = OnWay(t, events, pipe[t], found[t], lost[t])
          /\ Chain(t, events, pipe[t], found[t], lost[t])
                => Chain(t, Append(events, Head(pipe[s])), pipe[t], found[t], lost[t])
      BY <1>1, <1>2, <2>2, ChainOther
    <3> QED  BY <1>1, <3>1, <3>2 DEF Pending, InOrder
  <2> QED  BY <2>1, <2>2
<1> QED  BY <1>1, <1>3, <1>4, <1>5 DEF Conveyed

LEMMA ListenFoundEffect ==
    ASSUME DiscoveryTypeOK, Routed, NEW s \in Service, ListenFound(s)
    PROVE  Conveyed
<1>1. /\ pipe[s] \in Seq(Event) /\ found[s] \in Seq(Event) /\ found[s] # <<>>
      /\ pipe' = [pipe EXCEPT ![s] = Append(@, Head(found[s]))]
      /\ found' = [found EXCEPT ![s] = Tail(@)] /\ lost' = lost /\ events' = events
      /\ {found, lost, pipe} \subseteq [Service -> Seq(Event)]
      /\ Len(events) <= EventCap /\ events \in Seq(Event)
  BY DEF ListenFound, DiscoveryTypeOK
<1>2. /\ Head(found[s]) \in Event /\ Tail(found[s]) \in Seq(Event)
      /\ Head(found[s]).service = s
      /\ Own(s, Tail(found[s])) /\ AllFound(Tail(found[s]))
  BY <1>1, QueueTail DEF Routed
<1>3. /\ Append(pipe[s], Head(found[s])) \in Seq(Event)
      /\ Own(s, Append(pipe[s], Head(found[s])))
  BY <1>1, <1>2, QueueAppend DEF Routed
<1>4. {pipe', found', lost'} \subseteq [Service -> Seq(Event)] /\ Routed'
  BY <1>1, <1>2, <1>3 DEF Routed
<1>5. ASSUME NEW t \in Service
      PROVE  Pending(t)' = Pending(t) /\ (InOrder(t) => InOrder(t)')
  <2>1. CASE t = s
    <3>1. pipe'[t] = Append(pipe[t], Head(found[t])) /\ found'[t] = Tail(found[t])
      BY <1>1, <2>1
    <3>2. /\ OnWay(t, events, Append(pipe[t], Head(found[t])), Tail(found[t]), lost[t])
                = OnWay(t, events, pipe[t], found[t], lost[t])
          /\ Chain(t, events, pipe[t], found[t], lost[t])
                => Chain(t, events, Append(pipe[t], Head(found[t])), Tail(found[t]), lost[t])
      BY <1>1, <2>1, ChainMove
    <3> QED  BY <1>1, <3>1, <3>2 DEF Pending, InOrder
  <2>2. CASE t # s
    <3>1. pipe'[t] = pipe[t] /\ found'[t] = found[t]
      BY <1>1, <2>2
    <3> QED  BY <1>1, <3>1 DEF Pending, InOrder
  <2> QED  BY <2>1, <2>2
<1> QED  BY <1>1, <1>4, <1>5 DEF Conveyed

LEMMA ListenLostEffect ==
    ASSUME DiscoveryTypeOK, Routed, NEW s \in Service, ListenLost(s)
    PROVE  Conveyed
<1>1. /\ pipe[s] \in Seq(Event) /\ lost[s] \in Seq(Event) /\ lost[s] # <<>>
      /\ pipe' = [pipe EXCEPT ![s] = Append(@, Head(lost[s]))]
      /\ lost' = [lost EXCEPT ![s] = Tail(@)] /\ found' = found /\ events' = events
      /\ {found, lost, pipe} \subseteq [Service -> Seq(Event)]
      /\ Len(events) <= EventCap /\ events \in Seq(Event)
  BY DEF ListenLost, DiscoveryTypeOK
<1>2. /\ Head(lost[s]) \in Event /\ Tail(lost[s]) \in Seq(Event)
      /\ Head(lost[s]).service = s
      /\ Own(s, Tail(lost[s]))
  BY <1>1, QueueTail DEF Routed
<1>3. /\ Append(pipe[s], Head(lost[s])) \in Seq(Event)
      /\ Own(s, Append(pipe[s], Head(lost[s])))
  BY <1>1, <1>2, QueueAppend DEF Routed
<1>4. {pipe', found', lost'} \subseteq [Service -> Seq(Event)] /\ Routed'
  BY <1>1, <1>2, <1>3 DEF Routed
<1>5. ASSUME NEW t \in Service
      PROVE  Pending(t)' = Pending(t) /\ (InOrder(t) => InOrder(t)')
  <2>1. CASE t = s
    <3>1. pipe'[t] = Append(pipe[t], Head(lost[t])) /\ lost'[t] = Tail(lost[t])
      BY <1>1, <2>1
    <3>2. /\ OnWay(t, events, Append(pipe[t], Head(lost[t])), found[t], Tail(lost[t]))
                = OnWay(t, events, pipe[t], found[t], lost[t])
          /\ Chain(t, events, pipe[t], found[t], lost[t])
                => Chain(t, events, Append(pipe[t], Head(lost[t])), found[t], Tail(lost[t]))
      BY <1>1, <2>1, ChainMove
    <3> QED  BY <1>1, <3>1, <3>2 DEF Pending, InOrder
  <2>2. CASE t # s
    <3>1. pipe'[t] = pipe[t] /\ lost'[t] = lost[t]
      BY <1>1, <2>2
    <3> QED  BY <1>1, <3>1 DEF Pending, InOrder
  <2> QED  BY <2>1, <2>2
<1> QED  BY <1>1, <1>4, <1>5 DEF Conveyed

(* The window takes an event; it precedes all that is left of its service. *)
LEMMA PollEffect ==
    ASSUME DiscoveryTypeOK, Routed, PollDiscovery
    PROVE  /\ Head(events) \in Event
           /\ events' \in Seq(Event) /\ Len(events') <= EventCap
           /\ Routed'
           /\ \A t \in Service :
                 /\ Pending(t) = Pending(t)' \cup {f \in {Head(events)} : f.service = t}
                 /\ InOrder(t) =>
                       /\ InOrder(t)'
                       /\ Head(events).service = t =>
                             \A f \in Pending(t)' : Precedes(Head(events), f)
<1>1. /\ events \in Seq(Event) /\ events # <<>> /\ events' = Tail(events)
      /\ pipe' = pipe /\ found' = found /\ lost' = lost
      /\ Len(events) <= EventCap
  BY DEF PollDiscovery, signals, DiscoveryTypeOK
<1>2. /\ Head(events) \in Event /\ Tail(events) \in Seq(Event)
      /\ Len(Tail(events)) = Len(events) - 1 /\ Len(events) \in Nat \ {0}
  BY <1>1, QueueTail
<1>3. Routed'
  BY <1>1 DEF Routed
<1>4. ASSUME NEW t \in Service
      PROVE  /\ Pending(t) = Pending(t)' \cup {f \in {Head(events)} : f.service = t}
             /\ InOrder(t) =>
                   /\ InOrder(t)'
                   /\ Head(events).service = t =>
                         \A f \in Pending(t)' : Precedes(Head(events), f)
  <2>1. /\ OnWay(t, events, pipe[t], found[t], lost[t])
              = OnWay(t, Tail(events), pipe[t], found[t], lost[t])
                   \cup {f \in {Head(events)} : f.service = t}
        /\ Chain(t, events, pipe[t], found[t], lost[t]) =>
              /\ Chain(t, Tail(events), pipe[t], found[t], lost[t])
              /\ Head(events).service = t =>
                    \A f \in OnWay(t, Tail(events), pipe[t], found[t], lost[t]) :
                        Precedes(Head(events), f)
    BY <1>1, ChainFirst
  <2> QED  BY <1>1, <2>1 DEF Pending, InOrder
<1> QED  BY <1>1, <1>2, <1>3, <1>4, DiscoveryAssumption

-----------------------------------------------------------------------------
(* The invariant *)

LEMMA PendingType ==
    ASSUME NEW s
    PROVE  \A e \in Pending(s) :
              /\ e \in Event /\ e.service = s /\ e.life \in Nat /\ e.addr \in Addr
              /\ e.kind \in {"found", "lost"}
BY DEF Pending, OnWay, InQueue, Event

(* Nothing changes for a service that keeps its state, its events and its  *)
(* entry.                                                                  *)
LEMMA KeepsService ==
    ASSUME NEW t \in Service, ServiceInv(t),
           up'[t] = up[t], life'[t] = life[t], addr'[t] = addr[t], list' = list,
           missed'[t] = missed[t],
           ~raced'[t] => ~raced[t],
           Pending(t)' = Pending(t), InOrder(t) => InOrder(t)'
    PROVE  ServiceInv(t)'
<1>1. (Lives(t) => Lives(t)') /\ (Promised(t) => Promised(t)')
  BY DEF Lives, Promised, Past, EndComing
<1>2. Entries(t) => Entries(t)'
  BY DEF Entries, Past, EndComing
<1>3. (Present(t) => Present(t)') /\ (Located(t) => Located(t)')
  BY DEF Present, Located
<1> QED  BY <1>1, <1>2, <1>3 DEF ServiceInv

(* A service comes, with an event of a new life. *)
LEMMA ComesInv ==
    ASSUME DiscoveryInv, NEW s \in Service, Comes(s)
    PROVE  DiscoveryInv'
<1> DEFINE e == [Found(s) EXCEPT !.life = @ + 1]
<1>1. /\ up \in [Service -> BOOLEAN] /\ life \in [Service -> Nat] /\ addr \in [Service -> Addr]
      /\ changes \in [Service -> Nat] /\ missed \in [Service -> SUBSET Nat]
      /\ raced \in [Service -> BOOLEAN]
      /\ events \in Seq(Event) /\ Len(events) <= EventCap /\ list \in SUBSET Receiver
      /\ DiscoveryTypeOK /\ Routed /\ ServicesOK
  BY DEF DiscoveryInv, DiscoveryTypeOK
<1>2. /\ ~up[s] /\ changes[s] < MaxChanges[s] /\ changes' = [changes EXCEPT ![s] = @ + 1]
      /\ events' = events /\ list' = list /\ addr' = addr
      /\ up' = [up EXCEPT ![s] = TRUE] /\ life' = [life EXCEPT ![s] = @ + 1]
      /\ Announce(s, e)
  BY DEF Comes, Change
<1>3. e \in Event /\ e.service = s /\ e.kind = "found" /\ e.life = life[s] + 1 /\ e.addr = addr[s]
  <2>1. e = [kind |-> "found", service |-> s, addr |-> addr[s], life |-> life[s] + 1]
    BY DEF Found
  <2>2. addr[s] \in Addr /\ life[s] + 1 \in Nat
    BY <1>1
  <2> QED  BY <2>1, <2>2 DEF Event
<1>4. /\ {found', lost', pipe'} \subseteq [Service -> Seq(Event)]
      /\ raced' \in [Service -> BOOLEAN] /\ missed' = missed
      /\ Routed'
      /\ Pending(s)' = Pending(s) \cup {e}
      /\ \A t \in Service : ~raced'[t] => ~raced[t]
      /\ \A t \in Service \ {s} : Pending(t)' = Pending(t) /\ (InOrder(t) => InOrder(t)')
      /\ InOrder(s) /\ ~raced'[s] /\ (\A f \in Pending(s) : Precedes(f, e)) => InOrder(s)'
  <2> HIDE DEF e
  <2> QED  BY <1>1, <1>2, <1>3, AnnounceEffect
<1> HIDE DEF e
<1>5. DiscoveryTypeOK'
  <2>2. changes' \in [Service -> Nat] /\ life' \in [Service -> Nat]
    BY <1>1, <1>2
  <2> QED  BY <1>1, <1>2, <1>4, <2>2 DEF DiscoveryTypeOK
<1>6. ASSUME NEW t \in Service \ {s} PROVE ServiceInv(t)'
  <2>1. up'[t] = up[t] /\ life'[t] = life[t]
    BY <1>1, <1>2
  <2> QED  BY <2>1, <1>1, <1>2, <1>4, KeepsService DEF ServicesOK
<1>7. ASSUME ~raced'[s] PROVE ServiceInv(s)'
  <2>1. up'[s] /\ life'[s] = life[s] + 1 /\ life[s] \in Nat
    BY <1>1, <1>2
  <2>2. CASE s \in Infra
    BY <2>1, <2>2, <1>2, <1>3, <1>4 DEF ServiceInv, Located
  <2>3. CASE s \notin Infra
    <3>1. InOrder(s) /\ Lives(s) /\ Entries(s) /\ Promised(s) /\ Present(s)
      BY <2>3, <1>1, <1>4, <1>7 DEF ServicesOK, ServiceInv
    <3>2. \A f \in Pending(s) : f.life \in Nat /\ f.life <= life[s]
      BY <3>1, PendingType DEF Lives
    <3>3. InOrder(s)'
      <4>1. \A f \in Pending(s) : Precedes(f, e)
        BY <3>2, <2>1, <1>3 DEF Precedes
      <4> QED  BY <4>1, <3>1, <1>4, <1>7
    <3>4. Lives(s)'
      BY <3>2, <2>1, <1>3, <1>4 DEF Lives, Past
    <3>5. \A L : EndComing(s, L) => EndComing(s, L)'
      BY <1>4 DEF EndComing
    <3>6. Entries(s)'
      <4> SUFFICES ASSUME NEW r \in list, r.key = s
                   PROVE  /\ r.life <= life'[s]
                          /\ EndComing(s, r.life)'
                          /\ \A f \in Pending(s)' : r.life <= f.life
        BY <1>2 DEF Entries
      <4>1. r.life \in Nat /\ r.life <= life[s] /\ EndComing(s, r.life)
            /\ \A f \in Pending(s) : r.life <= f.life
        BY <3>1, <1>1, <1>2 DEF Entries, Past, Receiver
      <4> QED  BY <4>1, <3>5, <2>1, <1>3, <1>4
    <3>7. Promised(s)'
      <4> SUFFICES ASSUME NEW f \in Pending(s)', f.kind = "found", Past(s, f.life)'
                   PROVE  EndComing(s, f.life)'
        BY DEF Promised
      <4>1. f # e
        BY <2>1, <1>3 DEF Past
      <4>2. f \in Pending(s) /\ Past(s, f.life)
        BY <4>1, <1>2, <1>4 DEF Past
      <4> QED  BY <4>2, <3>1, <3>5 DEF Promised
    <3>8. Present(s)'
      BY <2>1, <1>3, <1>4 DEF Present
    <3> QED  BY <2>3, <3>3, <3>4, <3>6, <3>7, <3>8 DEF ServiceInv
  <2> QED  BY <2>2, <2>3
<1>8. ServicesOK'
  BY <1>6, <1>7 DEF ServicesOK, ServiceInv
<1> QED  BY <1>4, <1>5, <1>8 DEF DiscoveryInv

(* A service moves, with another event of the same life. *)
LEMMA MovesInv ==
    ASSUME DiscoveryInv, NEW s \in Service, NEW a \in Addr, Moves(s, a)
    PROVE  DiscoveryInv'
<1> DEFINE e == [Found(s) EXCEPT !.addr = a]
<1>1. /\ up \in [Service -> BOOLEAN] /\ life \in [Service -> Nat] /\ addr \in [Service -> Addr]
      /\ changes \in [Service -> Nat] /\ missed \in [Service -> SUBSET Nat]
      /\ raced \in [Service -> BOOLEAN]
      /\ events \in Seq(Event) /\ Len(events) <= EventCap /\ list \in SUBSET Receiver
      /\ DiscoveryTypeOK /\ Routed /\ ServicesOK
  BY DEF DiscoveryInv, DiscoveryTypeOK
<1>2. /\ up[s] /\ changes[s] < MaxChanges[s] /\ changes' = [changes EXCEPT ![s] = @ + 1]
      /\ events' = events /\ list' = list /\ addr' = [addr EXCEPT ![s] = a]
      /\ up' = up /\ life' = life
      /\ Announce(s, e)
  BY DEF Moves, Change
<1>3. e \in Event /\ e.service = s /\ e.kind = "found" /\ e.life = life[s] /\ e.addr = a
  BY <1>1 DEF Found, Event
<1>4. /\ {found', lost', pipe'} \subseteq [Service -> Seq(Event)]
      /\ raced' \in [Service -> BOOLEAN] /\ missed' = missed
      /\ Routed'
      /\ Pending(s)' = Pending(s) \cup {e}
      /\ \A t \in Service : ~raced'[t] => ~raced[t]
      /\ \A t \in Service \ {s} : Pending(t)' = Pending(t) /\ (InOrder(t) => InOrder(t)')
      /\ InOrder(s) /\ ~raced'[s] /\ (\A f \in Pending(s) : Precedes(f, e)) => InOrder(s)'
  <2> HIDE DEF e
  <2> QED  BY <1>1, <1>2, <1>3, AnnounceEffect
<1> HIDE DEF e
<1>5. DiscoveryTypeOK'
  <2>2. changes' \in [Service -> Nat] /\ life' \in [Service -> Nat]
    BY <1>1, <1>2
  <2> QED  BY <1>1, <1>2, <1>4, <2>2 DEF DiscoveryTypeOK
<1>6. ASSUME NEW t \in Service \ {s} PROVE ServiceInv(t)'
  <2>1. addr'[t] = addr[t]
    BY <1>1, <1>2
  <2> QED  BY <2>1, <1>1, <1>2, <1>4, KeepsService DEF ServicesOK
<1>7. ASSUME ~raced'[s] PROVE ServiceInv(s)'
  <2>1. addr'[s] = a /\ life[s] \in Nat
    BY <1>1, <1>2
  <2>2. CASE s \in Infra
    BY <2>1, <2>2, <1>3, <1>4 DEF ServiceInv, Located
  <2>3. CASE s \notin Infra
    <3>1. InOrder(s) /\ Lives(s) /\ Entries(s) /\ Promised(s) /\ Present(s)
      BY <2>3, <1>1, <1>4, <1>7 DEF ServicesOK, ServiceInv
    <3>2. \A f \in Pending(s) : /\ f.life \in Nat /\ f.life <= life[s]
                                /\ f.kind = "lost" => f.life < life[s]
                                /\ f.kind \in {"found", "lost"}
      BY <3>1, <1>2, PendingType DEF Lives, Past
    <3>3. InOrder(s)'
      <4>1. \A f \in Pending(s) : Precedes(f, e)
        BY <3>2, <2>1, <1>3 DEF Precedes
      <4> QED  BY <4>1, <3>1, <1>4, <1>7
    <3>4. Lives(s)'
      BY <3>1, <2>1, <1>2, <1>3, <1>4 DEF Lives, Past
    <3>5. \A L : EndComing(s, L) => EndComing(s, L)'
      BY <1>4 DEF EndComing
    <3>6. Entries(s)'
      <4> SUFFICES ASSUME NEW r \in list, r.key = s
                   PROVE  /\ r.life <= life'[s]
                          /\ Past(s, r.life)' => EndComing(s, r.life)'
                          /\ \A f \in Pending(s)' : r.life <= f.life
        BY <1>2 DEF Entries
      <4>1. r.life <= life[s] /\ (Past(s, r.life) => EndComing(s, r.life))
            /\ \A f \in Pending(s) : r.life <= f.life
        BY <3>1 DEF Entries
      <4>2. Past(s, r.life)' => Past(s, r.life)
        BY <1>2 DEF Past
      <4> QED  BY <4>1, <4>2, <3>5, <1>2, <1>3, <1>4
    <3>7. Promised(s)'
      <4>1. \A L : L = e.life => ~Past(s, L)'
        BY <2>1, <1>2, <1>3 DEF Past
      <4>2. \A L : Past(s, L)' => Past(s, L)
        BY <1>2 DEF Past
      <4> QED  BY <4>1, <4>2, <3>1, <3>5, <1>4 DEF Promised
    <3>8. Present(s)'
      BY <2>1, <1>2, <1>3, <1>4 DEF Present
    <3> QED  BY <2>3, <3>3, <3>4, <3>6, <3>7, <3>8 DEF ServiceInv
  <2> QED  BY <2>2, <2>3
<1>8. ServicesOK'
  BY <1>6, <1>7 DEF ServicesOK, ServiceInv
<1> QED  BY <1>4, <1>5, <1>8 DEF DiscoveryInv

(* A service goes, with the last event of its life. *)
LEMMA GoesInv ==
    ASSUME DiscoveryInv, NEW s \in Service, Goes(s)
    PROVE  DiscoveryInv'
<1> DEFINE e == Lost(s)
<1>1. /\ up \in [Service -> BOOLEAN] /\ life \in [Service -> Nat] /\ addr \in [Service -> Addr]
      /\ changes \in [Service -> Nat] /\ missed \in [Service -> SUBSET Nat]
      /\ raced \in [Service -> BOOLEAN]
      /\ events \in Seq(Event) /\ Len(events) <= EventCap /\ list \in SUBSET Receiver
      /\ DiscoveryTypeOK /\ Routed /\ ServicesOK
  BY DEF DiscoveryInv, DiscoveryTypeOK
<1>2. /\ up[s] /\ changes[s] < MaxChanges[s] /\ changes' = [changes EXCEPT ![s] = @ + 1]
      /\ events' = events /\ list' = list /\ addr' = addr
      /\ up' = [up EXCEPT ![s] = FALSE] /\ life' = life
      /\ Announce(s, e)
  BY DEF Goes, Change
<1>3. e \in Event /\ e.service = s /\ e.kind = "lost" /\ e.life = life[s]
  BY <1>1 DEF Lost, Event
<1>4. /\ {found', lost', pipe'} \subseteq [Service -> Seq(Event)]
      /\ raced' \in [Service -> BOOLEAN] /\ missed' = missed
      /\ Routed'
      /\ Pending(s)' = Pending(s) \cup {e}
      /\ \A t \in Service : ~raced'[t] => ~raced[t]
      /\ \A t \in Service \ {s} : Pending(t)' = Pending(t) /\ (InOrder(t) => InOrder(t)')
      /\ InOrder(s) /\ ~raced'[s] /\ (\A f \in Pending(s) : Precedes(f, e)) => InOrder(s)'
  <2> HIDE DEF e
  <2> QED  BY <1>1, <1>2, <1>3, AnnounceEffect
<1> HIDE DEF e
<1>5. DiscoveryTypeOK'
  <2>2. changes' \in [Service -> Nat] /\ life' \in [Service -> Nat]
    BY <1>1, <1>2
  <2> QED  BY <1>1, <1>2, <1>4, <2>2 DEF DiscoveryTypeOK
<1>6. ASSUME NEW t \in Service \ {s} PROVE ServiceInv(t)'
  <2>1. up'[t] = up[t]
    BY <1>1, <1>2
  <2> QED  BY <2>1, <1>1, <1>2, <1>4, KeepsService DEF ServicesOK
<1>7. ASSUME ~raced'[s] PROVE ServiceInv(s)'
  <2>1. ~up'[s] /\ life[s] \in Nat
    BY <1>1, <1>2
  <2>2. CASE s \in Infra
    BY <2>1, <2>2 DEF ServiceInv, Located
  <2>3. CASE s \notin Infra
    <3>1. InOrder(s) /\ Lives(s) /\ Entries(s) /\ Promised(s) /\ Present(s)
      BY <2>3, <1>1, <1>4, <1>7 DEF ServicesOK, ServiceInv
    <3>2. \A f \in Pending(s) : /\ f.life \in Nat /\ f.life <= life[s]
                                /\ f.kind = "lost" => f.life < life[s]
                                /\ f.kind \in {"found", "lost"}
      BY <3>1, <1>2, PendingType DEF Lives, Past
    <3>3. InOrder(s)'
      <4>1. \A f \in Pending(s) : Precedes(f, e)
        BY <3>2, <2>1, <1>3 DEF Precedes
      <4> QED  BY <4>1, <3>1, <1>4, <1>7
    <3>4. Lives(s)'
      BY <3>2, <2>1, <1>2, <1>3, <1>4 DEF Lives, Past
    <3>5. /\ \A L : EndComing(s, L) => EndComing(s, L)'
          /\ \A L : L = life[s] => EndComing(s, L)'
      BY <1>3, <1>4 DEF EndComing
    <3>6. Entries(s)'
      <4> SUFFICES ASSUME NEW r \in list, r.key = s
                   PROVE  /\ r.life <= life'[s]
                          /\ EndComing(s, r.life)'
                          /\ \A f \in Pending(s)' : r.life <= f.life
        BY <1>2 DEF Entries
      <4>1. r.life \in Nat /\ r.life <= life[s]
            /\ (r.life < life[s] => EndComing(s, r.life))
            /\ \A f \in Pending(s) : r.life <= f.life
        BY <3>1, <1>1, <1>2 DEF Entries, Past, Receiver
      <4>2. r.life < life[s] \/ r.life = life[s]
        BY <4>1, <2>1
      <4> QED  BY <4>1, <4>2, <3>5, <1>2, <1>3, <1>4
    <3>7. Promised(s)'
      <4> SUFFICES ASSUME NEW f \in Pending(s)', f.kind = "found"
                   PROVE  EndComing(s, f.life)'
        BY DEF Promised
      <4>1. f \in Pending(s)
        BY <1>3, <1>4
      <4>2. f.life < life[s] \/ f.life = life[s]
        BY <4>1, <3>2, <2>1
      <4>3. f.life < life[s] => EndComing(s, f.life)
        BY <4>1, <3>1 DEF Promised, Past
      <4> QED  BY <4>2, <4>3, <3>5
    <3>8. Present(s)'
      BY <2>1 DEF Present
    <3> QED  BY <2>3, <3>3, <3>4, <3>6, <3>7, <3>8 DEF ServiceInv
  <2> QED  BY <2>2, <2>3
<1>8. ServicesOK'
  BY <1>6, <1>7 DEF ServicesOK, ServiceInv
<1> QED  BY <1>4, <1>5, <1>8 DEF DiscoveryInv

(* Events that move on change nothing else. *)
LEMMA ConveyedInv ==
    ASSUME DiscoveryInv, Conveyed, UNCHANGED world, raced' = raced, missed' = missed, list' = list
    PROVE  DiscoveryInv'
<1>1. DiscoveryTypeOK'
  BY DEF DiscoveryInv, DiscoveryTypeOK, Conveyed, world
<1>2. \A t \in Service : ServiceInv(t)'
  <2> SUFFICES ASSUME NEW t \in Service PROVE ServiceInv(t)'
    OBVIOUS
  <2>1. /\ up'[t] = up[t] /\ life'[t] = life[t] /\ addr'[t] = addr[t]
        /\ ServiceInv(t)
    BY DEF world, DiscoveryInv, ServicesOK
  <2> QED  BY <2>1, KeepsService DEF Conveyed
<1> QED  BY <1>1, <1>2 DEF DiscoveryInv, ServicesOK, Conveyed

(* A peer is found in vain: its event is gone, and its life is marked. *)
LEMMA InVainInv ==
    ASSUME DiscoveryInv, NEW s \in Service, ListenInVain(s)
    PROVE  DiscoveryInv'
<1>1. /\ found[s] \in Seq(Event) /\ found[s] # <<>> /\ {found, lost, pipe} \subseteq [Service -> Seq(Event)]
      /\ missed \in [Service -> SUBSET Nat] /\ DiscoveryTypeOK /\ Routed /\ ServicesOK
  BY DEF DiscoveryInv, DiscoveryTypeOK, ListenInVain
<1>2. /\ found' = [found EXCEPT ![s] = Tail(@)] /\ missed' = [missed EXCEPT ![s] = @ \cup {Head(found[s]).life}]
      /\ up' = up /\ life' = life /\ addr' = addr /\ changes' = changes /\ lost' = lost
      /\ raced' = raced /\ pipe' = pipe /\ events' = events /\ list' = list
  BY DEF ListenInVain, world
<1>3. /\ Head(found[s]) \in Event /\ Tail(found[s]) \in Seq(Event)
      /\ Head(found[s]).service = s /\ Head(found[s]).kind = "found"
      /\ Own(s, Tail(found[s])) /\ AllFound(Tail(found[s]))
  BY <1>1, QueueTail DEF Routed
<1>4. PICK e \in Event : e = Head(found[s])
  BY <1>3
<1>5. e.service = s /\ e.kind = "found" /\ e.life \in Nat
  BY <1>3, <1>4 DEF Event
<1>6. DiscoveryTypeOK'
  <2>1. missed' \in [Service -> SUBSET Nat] /\ found' \in [Service -> Seq(Event)]
    BY <1>1, <1>2, <1>3, <1>4, <1>5
  <2> QED  BY <2>1, <1>1, <1>2 DEF DiscoveryTypeOK
<1>7. Routed'
  BY <1>1, <1>2, <1>3 DEF Routed
<1>8. s \notin Infra
  BY <1>1, KeysAssumption DEF Routed
<1>9. ASSUME NEW t \in Service \ {s} PROVE ServiceInv(t)'
  <2>1. found'[t] = found[t] /\ missed'[t] = missed[t]
    BY <1>1, <1>2
  <2>2. Pending(t)' = Pending(t) /\ (InOrder(t) => InOrder(t)')
    BY <2>1, <1>2 DEF Pending, InOrder
  <2> QED  BY <2>1, <2>2, <1>1, <1>2, KeepsService DEF ServicesOK
<1>10. ASSUME ~raced[s] PROVE ServiceInv(s)'
  <2>1. InOrder(s) /\ Lives(s) /\ Entries(s) /\ Promised(s) /\ Present(s)
    BY <1>1, <1>8, <1>10 DEF ServicesOK, ServiceInv
  <2>2. /\ OnWay(s, events, pipe[s], found[s], lost[s])
              = OnWay(s, events, pipe[s], Tail(found[s]), lost[s]) \cup {e}
        /\ Chain(s, events, pipe[s], found[s], lost[s])
              => Chain(s, events, pipe[s], Tail(found[s]), lost[s])
    <3>1. /\ OnWay(s, events, pipe[s], found[s], lost[s])
                = OnWay(s, events, pipe[s], Tail(found[s]), lost[s])
                     \cup {f \in {Head(found[s])} : f.service = s}
          /\ Chain(s, events, pipe[s], found[s], lost[s])
                => Chain(s, events, pipe[s], Tail(found[s]), lost[s])
      BY <1>1, ChainDrop
    <3>2. {f \in {Head(found[s])} : f.service = s} = {e}
      BY <1>4, <1>5
    <3> QED  BY <3>1, <3>2
  <2>3. found'[s] = Tail(found[s]) /\ missed'[s] = missed[s] \cup {e.life}
    BY <1>1, <1>2, <1>4
  <2>4. Pending(s) = Pending(s)' \cup {e} /\ InOrder(s)'
    BY <2>1, <2>2, <2>3, <1>2 DEF Pending, InOrder
  <2>5. \A L : EndComing(s, L) => EndComing(s, L)'
    BY <2>4, <1>5 DEF EndComing
  <2>6. \A L : Past(s, L)' <=> Past(s, L)
    BY <1>2 DEF Past
  <2>7. Lives(s)' /\ Promised(s)'
    BY <2>1, <2>4, <2>5, <2>6, <1>2 DEF Lives, Promised
  <2>8. Entries(s)'
    BY <2>1, <2>4, <2>5, <2>6, <1>2 DEF Entries
  <2>9. Present(s)'
    <3> SUFFICES ASSUME up[s], e.life # life[s], life[s] \notin missed[s]
                 PROVE  \/ \E r \in list : r.key = s /\ r.life = life[s]
                        \/ \E f \in Pending(s)' : f.kind = "found" /\ f.life = life[s]
      BY <2>3, <1>2 DEF Present
    <3> QED  BY <2>1, <2>4 DEF Present
  <2> QED  BY <2>4, <2>7, <2>8, <2>9, <1>8 DEF ServiceInv
<1>11. ServicesOK'
  BY <1>2, <1>9, <1>10 DEF ServicesOK, ServiceInv
<1> QED  BY <1>6, <1>7, <1>11 DEF DiscoveryInv

(* What the window does with an event, to each kind of entry. *)
LEMMA PolledList ==
    ASSUME DiscoveryInv, PollDiscovery, NEW e \in Event, e = Head(events)
    PROVE  /\ list' \in SUBSET Receiver
           /\ \A t \in Service \ {e.service} : \A r : r.key = t => (r \in list' <=> r \in list)
           /\ \A a \in Addr \cup Label : (\E r \in list : r.key = a) => \E r \in list' : r.key = a
           /\ e.kind = "lost" /\ e.service \notin Infra => \A r \in list' : r.key # e.service
           /\ e.kind = "found" =>
                 LET key == Key(e.service, e.addr) IN
                 IF \E r \in list : r.key = key THEN list' = list
                 ELSE list' = list \cup {[key |-> key, addr |-> e.addr, life |-> e.life]}
<1>1. /\ list \in SUBSET Receiver /\ e.service \in Service /\ e.addr \in Addr /\ e.life \in Nat
      /\ e.kind \in {"found", "lost"}
  BY DEF DiscoveryInv, DiscoveryTypeOK, Event
<1>2. /\ \A a \in Addr \cup Label : a \notin Service
      /\ Key(e.service, e.addr) \in {e.service} \cup Addr \cup Label
  BY <1>1, KeysAssumption DEF Key, Label
<1> DEFINE key == Key(e.service, e.addr)
           new == [key |-> key, addr |-> e.addr, life |-> e.life]
<1>3. /\ key \in Service \cup Addr \cup Label /\ \A t \in Service \ {e.service} : key # t
  BY <1>1, <1>2
<1>4. CASE e.kind = "found"
  <2>1. list' = IF \E r \in list : r.key = key THEN list ELSE list \cup {new}
    BY <1>4 DEF PollDiscovery, AddReceiver
  <2>2. new \in Receiver /\ new.key = key
    BY <1>1, <1>3 DEF Receiver
  <2> HIDE DEF key, new
  <2>3. /\ list' \in SUBSET Receiver
        /\ \A t \in Service \ {e.service} : \A r : r.key = t => (r \in list' <=> r \in list)
        /\ \A a \in Addr \cup Label : (\E r \in list : r.key = a) => \E r \in list' : r.key = a
    BY <1>1, <1>3, <2>1, <2>2
  <2> QED  BY <1>4, <2>1, <2>3 DEF key, new
<1>5. CASE e.kind = "lost"
  <2>1. list' = {r \in list : r.key # e.service}
    BY <1>5 DEF PollDiscovery, RemoveReceiver
  <2> QED  BY <1>1, <1>2, <1>5, <2>1
<1> QED  BY <1>1, <1>4, <1>5

LEMMA PollInv ==
    ASSUME DiscoveryInv, PollDiscovery
    PROVE  DiscoveryInv'
<1>1. PICK e \in Event : e = Head(events)
  BY PollEffect DEF DiscoveryInv
<1>2. /\ events' \in Seq(Event) /\ Len(events') <= EventCap
      /\ Routed'
      /\ \A t \in Service :
            /\ Pending(t) = Pending(t)' \cup {f \in {e} : f.service = t}
            /\ InOrder(t) =>
                  /\ InOrder(t)'
                  /\ e.service = t => \A f \in Pending(t)' : Precedes(e, f)
  BY <1>1, PollEffect DEF DiscoveryInv
<1>3. /\ list' \in SUBSET Receiver
      /\ \A t \in Service \ {e.service} : \A r : r.key = t => (r \in list' <=> r \in list)
      /\ \A a \in Addr \cup Label : (\E r \in list : r.key = a) => \E r \in list' : r.key = a
      /\ e.kind = "lost" /\ e.service \notin Infra => \A r \in list' : r.key # e.service
      /\ e.kind = "found" =>
            IF \E r \in list : r.key = Key(e.service, e.addr) THEN list' = list
            ELSE list' = list \cup {[key |-> Key(e.service, e.addr), addr |-> e.addr, life |-> e.life]}
  BY <1>1, PolledList
<1>4. /\ up' = up /\ life' = life /\ addr' = addr /\ changes' = changes
      /\ found' = found /\ lost' = lost /\ pipe' = pipe /\ raced' = raced
      /\ missed' = missed
  BY DEF PollDiscovery, world, signals
<1>5. DiscoveryTypeOK'
  BY <1>2, <1>3, <1>4 DEF DiscoveryInv, DiscoveryTypeOK
<1>6. /\ e.service \in Service /\ e.life \in Nat /\ e.kind \in {"found", "lost"} /\ e.addr \in Addr
      /\ list \in SUBSET Receiver /\ ServicesOK /\ addr \in [Service -> Addr]
      /\ life \in [Service -> Nat]
  BY DEF Event, DiscoveryInv, DiscoveryTypeOK
<1>7. ASSUME NEW t \in Infra, ~raced[t] PROVE Located(t)'
  <2>1. Located(t) /\ t \in Service /\ addr[t] \in Addr
    BY <1>6, <1>7 DEF ServicesOK, ServiceInv, Service
  <2> DEFINE k == Key(t, addr[t])
  <2>0. k \in Addr \cup Label
    BY <1>7, <2>1, KeysAssumption DEF Key, Label
  <2>5. (up[t] => \/ \E r \in list' : r.key = k
                  \/ \E f \in Pending(t)' : f.kind = "found" /\ Key(t, f.addr) = k)
           => Located(t)'
    BY <1>4 DEF Located, Key
  <2>6. up[t] => \/ \E r \in list : r.key = k
                 \/ \E f \in Pending(t) : f.kind = "found" /\ Key(t, f.addr) = k
    BY <2>1 DEF Located
  <2> HIDE DEF k
  <2>2. CASE \E r \in list : r.key = k
    BY <2>0, <2>2, <2>5, <1>3
  <2>3. CASE up[t] /\ \E f \in Pending(t) : f.kind = "found" /\ Key(t, f.addr) = k
    <3>1. PICK f \in Pending(t) : f.kind = "found" /\ Key(t, f.addr) = k
      BY <2>3
    <3>2. f \in Pending(t)' \/ (f = e /\ e.service = t)
      BY <1>2, <2>1
    <3>3. CASE f \in Pending(t)'
      BY <3>1, <3>3, <2>5
    <3>4. CASE f = e /\ e.service = t
      <4>1. Key(e.service, e.addr) = k
        BY <3>1, <3>4
      <4>2. \E r \in list' : r.key = k
        BY <4>1, <3>1, <3>4, <1>3
      <4> QED  BY <4>2, <2>5
    <3> QED  BY <3>2, <3>3, <3>4
  <2>4. CASE ~up[t]
    BY <2>4, <2>5
  <2> QED  BY <2>2, <2>3, <2>4, <2>6
<1>8. ASSUME NEW t \in Service \ {e.service}, t \notin Infra PROVE ServiceInv(t)'
  <2>1. Pending(t)' = Pending(t) /\ (InOrder(t) => InOrder(t)')
    BY <1>2, <1>8
  <2>2. \A r : r.key = t => (r \in list' <=> r \in list)
    BY <1>3, <1>8
  <2>3. (Lives(t) => Lives(t)') /\ (Promised(t) => Promised(t)')
    BY <2>1, <1>4 DEF Lives, Promised, Past, EndComing
  <2>4. Entries(t) => Entries(t)'
    BY <2>1, <2>2, <1>4 DEF Entries, Past, EndComing
  <2>5. Present(t) => Present(t)'
    BY <2>1, <2>2, <1>4 DEF Present
  <2>6. ServiceInv(t)
    BY <1>6 DEF ServicesOK
  <2> QED  BY <2>1, <2>3, <2>4, <2>5, <2>6, <1>4, <1>8 DEF ServiceInv
<1>9. ASSUME NEW s \in Service, s = e.service, s \notin Infra, ~raced[s]
      PROVE  InOrder(s)' /\ Lives(s)' /\ Entries(s)' /\ Promised(s)' /\ Present(s)'
  <2>1. InOrder(s) /\ Lives(s) /\ Entries(s) /\ Promised(s) /\ Present(s)
    BY <1>6, <1>9 DEF ServicesOK, ServiceInv
  <2>2. /\ Pending(s) = Pending(s)' \cup {e} /\ InOrder(s)'
        /\ \A f \in Pending(s)' : Precedes(e, f)
    BY <2>1, <1>2, <1>9
  <2>3. \A f \in Pending(s) : f.life \in Nat
    BY PendingType
  <2>4. Lives(s)'
    BY <2>1, <2>2, <1>4 DEF Lives, Past
  <2>5. \A L : EndComing(s, L) => EndComing(s, L)' \/ (e.kind = "lost" /\ L = e.life)
    BY <2>2 DEF EndComing
  <2>6. \A L : Past(s, L)' <=> Past(s, L)
    BY <1>4 DEF Past
  <2>7. Promised(s)'
    <3> SUFFICES ASSUME NEW f \in Pending(s)', f.kind = "found", Past(s, f.life)'
                 PROVE  EndComing(s, f.life)'
      BY DEF Promised
    <3>1. EndComing(s, f.life)
      BY <2>1, <2>2, <2>6 DEF Promised
    <3>2. ~(e.kind = "lost" /\ f.life = e.life)
      BY <2>2, <2>3, <1>6 DEF Precedes
    <3> QED  BY <3>1, <3>2, <2>5
  <2>8. CASE e.kind = "lost"
    <3>1. \A r \in list' : r.key # s
      BY <2>8, <1>3, <1>9
    <3>2. Present(s)'
      <4> SUFFICES ASSUME up[s], life[s] \notin missed[s]
                   PROVE  \E f \in Pending(s)' : f.kind = "found" /\ f.life = life[s]
        BY <1>4 DEF Present
      <4>1. e.life < life[s]
        BY <2>1, <2>2, <2>8 DEF Lives, Past
      <4>2. \A r \in list : r.key = s => r.life # life[s]
        BY <4>1, <2>1, <2>2, <1>6 DEF Entries, Receiver
      <4>3. PICK f \in Pending(s) : f.kind = "found" /\ f.life = life[s]
        BY <4>2, <2>1 DEF Present
      <4> QED  BY <4>3, <2>2, <2>8
    <3> QED  BY <2>2, <2>4, <2>7, <3>1, <3>2 DEF Entries
  <2>9. CASE e.kind = "found"
    <3>1. \A L : EndComing(s, L) => EndComing(s, L)'
      BY <2>5, <2>9
    <3>2. \A r \in list : r.key = s => r.life = e.life
      <4> SUFFICES ASSUME NEW r \in list, r.key = s, r.life # e.life PROVE FALSE
        OBVIOUS
      <4>1. r.life \in Nat /\ r.life <= e.life /\ r.life < e.life
        BY <2>1, <2>2, <1>6 DEF Entries, Receiver
      <4>2. Past(s, r.life)
        BY <4>1, <2>1, <2>2, <2>3, <1>6 DEF Lives, Past
      <4>3. EndComing(s, r.life)
        BY <4>2, <2>1 DEF Entries
      <4>4. PICK f \in Pending(s) : f.kind = "lost" /\ f.life = r.life
        BY <4>3 DEF EndComing
      <4>5. f \in Pending(s)'
        BY <4>4, <2>2, <2>9
      <4> QED  BY <4>1, <4>4, <4>5, <2>2, <1>6 DEF Precedes
    <3>3. IF \E r \in list : r.key = s THEN list' = list
          ELSE list' = list \cup {[key |-> s, addr |-> e.addr, life |-> e.life]}
      <4>1. Key(e.service, e.addr) = s
        BY <1>9, KeysAssumption DEF Key
      <4> QED  BY <4>1, <2>9, <1>3
    <3>4. \A r \in list' : r.key = s => r.life = e.life
      BY <3>2, <3>3
    <3>5. \E r \in list' : r.key = s
      <4>1. CASE \E r \in list : r.key = s
        BY <4>1, <3>3
      <4>2. CASE ~\E r \in list : r.key = s
        <5> DEFINE new == [key |-> s, addr |-> e.addr, life |-> e.life]
        <5>1. new.key = s
          OBVIOUS
        <5>2. new \in list'
          BY <4>2, <3>3
        <5> QED  BY <5>1, <5>2
      <4> QED  BY <4>1, <4>2
    <3>6. Entries(s)'
      <4> SUFFICES ASSUME NEW r \in list', r.key = s
                   PROVE  /\ r.life <= life'[s]
                          /\ Past(s, r.life)' => EndComing(s, r.life)'
                          /\ \A f \in Pending(s)' : r.life <= f.life
        BY DEF Entries
      <4>1. r.life = e.life /\ e \in Pending(s)
        BY <3>4, <2>2
      <4>2. e.life <= life[s] /\ (Past(s, e.life) => EndComing(s, e.life))
        BY <4>1, <2>1, <2>9 DEF Lives, Promised
      <4>3. \A f \in Pending(s)' : e.life <= f.life
        BY <2>2, <2>3, <1>6 DEF Precedes
      <4> QED  BY <4>1, <4>2, <4>3, <3>1, <2>6, <1>4
    <3>7. Present(s)'
      <4> SUFFICES ASSUME up[s], life[s] \notin missed[s]
                   PROVE  \/ \E r \in list' : r.key = s /\ r.life = life[s]
                          \/ \E f \in Pending(s)' : f.kind = "found" /\ f.life = life[s]
        BY <1>4 DEF Present
      <4>1. CASE \E r \in list : r.key = s /\ r.life = life[s]
        BY <4>1, <3>3
      <4>2. CASE \E f \in Pending(s) : f.kind = "found" /\ f.life = life[s]
        BY <4>2, <2>2, <3>4, <3>5
      <4> QED  BY <4>1, <4>2, <2>1 DEF Present
    <3> QED  BY <2>2, <2>4, <2>7, <3>6, <3>7
  <2> QED  BY <2>8, <2>9, <1>6
<1>10. ServicesOK'
  <2> SUFFICES ASSUME NEW t \in Service PROVE ServiceInv(t)'
    BY DEF ServicesOK
  <2>1. CASE t \in Infra
    BY <2>1, <1>4, <1>7 DEF ServiceInv
  <2>2. CASE t \notin Infra /\ t = e.service
    BY <2>2, <1>4, <1>9 DEF ServiceInv
  <2>3. CASE t \notin Infra /\ t # e.service
    BY <2>3, <1>8
  <2> QED  BY <2>1, <2>2, <2>3
<1> QED  BY <1>2, <1>5, <1>10 DEF DiscoveryInv

LEMMA InitInv == Init => DiscoveryInv
<1> SUFFICES ASSUME Init PROVE DiscoveryInv
  OBVIOUS
<1>1. DiscoveryTypeOK
  <2>1. <<>> \in Seq(Event) /\ Len(<<>>) = 0
    BY EmptySeq
  <2> QED  BY <2>1, DiscoveryAssumption DEF Init, DiscoveryTypeOK
<1>2. /\ events = <<>> /\ list = {}
      /\ \A s \in Service : /\ pipe[s] = <<>> /\ found[s] = <<>> /\ lost[s] = <<>> /\ ~up[s]
  BY DEF Init
<1>3. Routed
  <2>1. \A s : Own(s, <<>>)
    BY EmptySeq DEF Own
  <2>2. AllFound(<<>>)
    BY EmptySeq DEF AllFound
  <2> QED  BY <2>1, <2>2, <1>2 DEF Routed
<1>4. ASSUME NEW s \in Service PROVE ServiceInv(s)
  <2>1. Pending(s) = {}
    BY <1>2, EmptyQueue DEF Pending, OnWay
  <2>2. InOrder(s)
    BY <1>2, EmptyQueue DEF InOrder, Chain
  <2> QED  BY <2>1, <2>2, <1>2 DEF ServiceInv, Lives, Entries, Promised, Present, Located
<1> QED  BY <1>1, <1>3, <1>4 DEF DiscoveryInv, ServicesOK

LEMMA NextInv == DiscoveryInv /\ [Next]_vars => DiscoveryInv'
<1> SUFFICES ASSUME DiscoveryInv, [Next]_vars PROVE DiscoveryInv'
  OBVIOUS
<1>0. DiscoveryTypeOK /\ Routed
  BY DEF DiscoveryInv
<1>1. ASSUME NEW s \in Service, Comes(s) PROVE DiscoveryInv'
  BY <1>1, ComesInv
<1>2. ASSUME NEW s \in Service, Goes(s) PROVE DiscoveryInv'
  BY <1>2, GoesInv
<1>3. ASSUME NEW s \in Service, NEW a \in Addr, Moves(s, a) PROVE DiscoveryInv'
  BY <1>3, MovesInv
<1>4. ASSUME NEW s \in Service, ListenFound(s) PROVE DiscoveryInv'
  <2>1. UNCHANGED world /\ raced' = raced /\ missed' = missed /\ list' = list
    BY <1>4 DEF ListenFound
  <2> QED  BY <2>1, <1>0, <1>4, ListenFoundEffect, ConveyedInv
<1>5. ASSUME NEW s \in Service, ListenLost(s) PROVE DiscoveryInv'
  <2>1. UNCHANGED world /\ raced' = raced /\ missed' = missed /\ list' = list
    BY <1>5 DEF ListenLost
  <2> QED  BY <2>1, <1>0, <1>5, ListenLostEffect, ConveyedInv
<1>6. ASSUME NEW s \in Service, Forward(s) PROVE DiscoveryInv'
  <2>1. UNCHANGED world /\ raced' = raced /\ missed' = missed /\ list' = list
    BY <1>6 DEF Forward, signals
  <2> QED  BY <2>1, <1>0, <1>6, ForwardEffect, ConveyedInv
<1>9. ASSUME NEW s \in Service, ListenInVain(s) PROVE DiscoveryInv'
  BY <1>9, InVainInv
<1>7. CASE PollDiscovery
  BY <1>7, PollInv
<1>8. CASE UNCHANGED vars
  <2>1. UNCHANGED <<up, life, addr, changes, found, lost, raced, missed, pipe, events, list>>
    BY <1>8 DEF vars, world, signals
  <2>2. Conveyed
    BY <2>1, <1>0 DEF Conveyed, DiscoveryTypeOK, Routed, Own, AllFound, Pending, InOrder
  <2> QED  BY <2>1, <2>2, ConveyedInv DEF world
<1> QED  BY <1>1, <1>2, <1>3, <1>4, <1>5, <1>6, <1>7, <1>8, <1>9 DEF Next

LEMMA Invariance == Spec => []DiscoveryInv
BY InitInv, NextInv, PTL DEF Spec

-----------------------------------------------------------------------------
(* Every variable keeps its type; the window's channel holds no more than  *)
(* its capacity (the bounded channel of SenderApp::new).                   *)
THEOREM DiscoveryTypeCorrect == Spec => []DiscoveryTypeOK
<1>1. DiscoveryInv => DiscoveryTypeOK
  BY DEF DiscoveryInv
<1> QED  BY <1>1, Invariance, PTL

(* Once its events are through, the list is right about a service, in its  *)
(* present life (the browsers, the forwarding tasks and poll_discovery),   *)
(* with the exceptions of ListTrueWhenSettled: the signals of a peer that  *)
(* raced, one that was found in vain, and a receiver of the network that   *)
(* has gone.                                                               *)
THEOREM TrueList == Spec => []ListTrueWhenSettled
<1>1. ASSUME DiscoveryInv PROVE ListTrueWhenSettled
  <2> SUFFICES ASSUME NEW s \in Service, Settled(s), ~raced[s]
               PROVE  /\ (up[s] /\ life[s] \notin missed[s]) => Listed(s)
                      /\ (Listed(s) /\ s \notin Infra) =>
                            up[s] /\ \A r \in list : r.key = s => r.life = life[s]
    BY DEF ListTrueWhenSettled
  <2>1. ServiceInv(s) /\ events \in Seq(Event) /\ list \in SUBSET Receiver /\ life[s] \in Nat
    BY <1>1 DEF DiscoveryInv, ServicesOK, DiscoveryTypeOK
  <2>2. Pending(s) = {}
    <3>1. InQueue(s, events) = {}
      BY DEF Settled, InQueue
    <3> QED  BY <3>1, EmptyQueue DEF Settled, Pending, OnWay
  <2>3. CASE s \in Infra
    BY <2>1, <2>2, <2>3 DEF ServiceInv, Located, Listed
  <2>4. CASE s \notin Infra
    <3>1. Entries(s) /\ Present(s)
      BY <2>1, <2>4 DEF ServiceInv
    <3>2. \A r \in list : r.key = s => r.life <= life[s] /\ ~Past(s, r.life) /\ r.life \in Nat
      BY <3>1, <2>1, <2>2 DEF Entries, EndComing, Receiver
    <3>3. \A r \in list : r.key = s => up[s] /\ r.life = life[s]
      BY <3>2, <2>1 DEF Past
    <3>4. Key(s, addr[s]) = s
      BY <2>4, KeysAssumption DEF Key
    <3> QED  BY <3>1, <3>3, <3>4, <2>2, <2>4 DEF Present, Listed
  <2> QED  BY <2>3, <2>4
<1> QED  BY <1>1, Invariance, PTL
=============================================================================
