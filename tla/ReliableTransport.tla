-------------------------- MODULE ReliableTransport --------------------------
(***************************************************************************)
(* The reliable message channel of net_reliabletransport.c, as the server  *)
(* drives it for one client (SV_SendClientMessages, SV_PacketEvent), and   *)
(* the same code on the other end.  Each endpoint has a transmit window    *)
(* over a ring it grows and shrinks, a receive window over a fixed ring,   *)
(* cumulative and selective acknowledges, and a network under it that      *)
(* loses, repeats and reorders packets.                                    *)
(*                                                                         *)
(* Fragments are opaque: the endpoint e submits the members of Stream[e]   *)
(* in order.  Byte lengths appear only where they decide something (the    *)
(* fragment count of a message, and the spare one the buffer check wants). *)
(* Time appears only as the choice whether a frame sends or not.           *)
(***************************************************************************)
EXTENDS ReliableEnds, FiniteSets

CONSTANTS
  TxWindow,       \* txwindow.windowsize, 20 in the code
  RxWindow,       \* rxwindow.windowsize, 4 in the code
  DefaultBuffer,  \* DEFAULT_BUFFER_SIZE, 32 in the code
  MaxMessage,     \* bound: fragments of the longest message of one send
  WireCap,        \* bound: packets in flight to one endpoint
  Garbage         \* contents of memory nobody has written

\* A receive window above 5 would let the selective acknowledge list break off
\* in the middle of a range (see SelectiveAck).
ASSUME WindowAssumption ==
  /\ RxWindow \in 1 .. 5
  /\ TxWindow \in Nat /\ DefaultBuffer \in Nat
  /\ RxWindow <= TxWindow /\ TxWindow <= DefaultBuffer

ASSUME BoundAssumption == MaxMessage \in Nat \ {0} /\ WireCap \in Nat \ {0}

VARIABLES
  txSequence,     \* txwindow.sequence: number of the next fragment to enqueue
  txAcknowledge,  \* txwindow.acknowledge: lowest fragment not acknowledged
  txFrame,        \* txwindow.frame: the fragment to (re)send next
  txBuffer,       \* txwindow.fragments, a ring: index -> [data, ack]
  txBufferlen,    \* txwindow.bufferlen
  rxSequence,     \* rxwindow.sequence: number of the next fragment to deliver
  rxBuffer,       \* rxwindow.fragments, a ring: index -> [data, ack]
  selackoffset,   \* rxwindow.selackoffset
  wire,           \* wire[e]: the packets in flight to e
  delivered       \* history: what ReliableMessageReceive has handed out at e

txVars == <<txSequence, txAcknowledge, txFrame, txBuffer, txBufferlen>>
rxVars == <<rxSequence, rxBuffer, selackoffset, delivered>>
vars == <<txVars, rxVars, wire>>

-----------------------------------------------------------------------------
(* Rings.  ack is the number of the fragment that is known to have         *)
(* arrived in the slot (-1: none); len and data are one opaque value.      *)

Fresh == [data |-> Garbage, ack |-> Garbage]      \* malloc
Blank == [data |-> Garbage, ack |-> -1]           \* memset to -1

\* The ring of size n that holds slot[i] for every i of lo .. hi - 1 and is
\* like ring everywhere else.
Placed(ring, n, lo, hi, slot) ==
  [s \in 0 .. n - 1 |->
     IF \E i \in lo .. hi - 1 : i % n = s
       THEN slot[CHOOSE i \in lo .. hi - 1 : i % n = s]
       ELSE ring[s]]

TxSlot(e, i) == txBuffer[e][i % txBufferlen[e]]
RxSlot(e, i) == rxBuffer[e][i % DefaultBuffer]

\* A slip of Holds: whatever is in the slot counts, be it of the last round.
HoldsAnything(e, i) == RxSlot(e, i).ack # -1

\* Fragment i of the peer lies in the receive ring of e.
Holds(e, i) == RxSlot(e, i).ack = i

\* Slips of Resized: the old place looked up with the new size, the acknowledges
\* not carried over.
ResizedByNewIndex(e, ring, n, lowest) ==
  Placed([s \in 0 .. n - 1 |-> Fresh], n, lowest, txSequence[e],
         [i \in lowest .. txSequence[e] - 1 |-> ring[(i % n) % txBufferlen[e]]])

ResizedForgetting(e, ring, n, lowest) ==
  Placed([s \in 0 .. n - 1 |-> Fresh], n, lowest, txSequence[e],
         [i \in lowest .. txSequence[e] - 1 |-> [ring[i % txBufferlen[e]] EXCEPT !.ack = -1]])

\* ReliableMessageChangeSendBufferSize, its loop: a ring of n slots with the
\* fragments from lowest (acknowledge) up at their new places.
Resized(e, ring, n, lowest) ==
  Placed([s \in 0 .. n - 1 |-> IF lowest = 0 THEN Blank ELSE Fresh], n, lowest, txSequence[e],
         [i \in lowest .. txSequence[e] - 1 |-> ring[i % txBufferlen[e]]])

-----------------------------------------------------------------------------
(* Packets.  seq -1 is a packet that only acknowledges.  sack holds the    *)
(* selectively acknowledged fragments as offsets from ack.                 *)

\* A slip of SelectiveAcklist: the list starts at the lowest fragment.
SelectiveAcklistFromZero(e) == {o \in 0 .. RxWindow - 1 : Holds(e, rxSequence[e] + o)}

SelectiveAcklist(e) ==
  {o \in selackoffset[e] .. RxWindow - 1 : Holds(e, rxSequence[e] + o)}

\* A slip of Packet: it acknowledges what has arrived, delivered or not.
PacketAheadOfDelivery(e, seq, data) ==
  [seq |-> seq, sack |-> {}, data |-> data,
   ack |-> rxSequence[e] + (IF Holds(e, rxSequence[e]) THEN 1 ELSE 0)]

Packet(e, seq, data) ==
  [seq |-> seq, ack |-> rxSequence[e], sack |-> SelectiveAcklist(e), data |-> data]

\* The datagram goes out.  A packet that is never received, or gives way to this
\* one because too many are in flight, is lost.
Put(e, packet) ==
  IF Cardinality(wire[e]) < WireCap
    THEN wire' = [wire EXCEPT ![e] = @ \cup {packet}]
    ELSE \E lost \in wire[e] : wire' = [wire EXCEPT ![e] = (@ \ {lost}) \cup {packet}]

-----------------------------------------------------------------------------
Init ==
  /\ txSequence = [e \in End |-> 0]
  /\ txAcknowledge = [e \in End |-> 0]
  /\ txFrame = [e \in End |-> 0]
  /\ txBuffer = [e \in End |-> [s \in 0 .. DefaultBuffer - 1 |-> Fresh]]
  /\ txBufferlen = [e \in End |-> DefaultBuffer]
  /\ rxSequence = [e \in End |-> 0]
  /\ rxBuffer = [e \in End |-> [s \in 0 .. DefaultBuffer - 1 |-> Blank]]
  /\ selackoffset = [e \in End |-> 0]
  /\ wire = [e \in End |-> {}]
  /\ delivered = [e \in End |-> << >>]

\* The size of the ring in which a message of k fragments is enqueued.  The
\* code wants len / MAX_FRAGMENT_SIZE + 1 free slots, one more than k when the
\* last fragment is full (spare = 1); it keeps the old ring if malloc fails.
RoomFor(e, k, spare, malloced) ==
  LET needed == k + spare + txSequence[e] - txAcknowledge[e]
      wanted == needed + needed \div 2
  IN  IF needed <= txBufferlen[e] \/ ~malloced
        THEN txBufferlen[e]
        ELSE IF wanted <= DefaultBuffer THEN DefaultBuffer ELSE wanted

\* ReliableMessageSend of a message of k fragments.  What does not fit is not
\* enqueued: a number is returned that the callers ignore.
Send(e, k, spare, malloced) ==
  LET len  == RoomFor(e, k, spare, malloced)
      free == len - (txSequence[e] - txAcknowledge[e])
      accepted == IF k <= free THEN k ELSE free
      top  == txSequence[e] + accepted
      ring == IF len = txBufferlen[e] THEN txBuffer[e]
                                      ELSE Resized(e, txBuffer[e], len, txAcknowledge[e])
  IN  /\ accepted > 0
      /\ top <= Len(Stream[e])
      /\ txBuffer' = [txBuffer EXCEPT ![e] =
           Placed(ring, len, txSequence[e], top,
                  [i \in txSequence[e] .. top - 1 |-> [data |-> Stream[e][i + 1], ack |-> -1]])]
      /\ txBufferlen' = [txBufferlen EXCEPT ![e] = len]
      /\ txSequence' = [txSequence EXCEPT ![e] = top]
      /\ UNCHANGED <<txAcknowledge, txFrame, rxVars, wire>>

\* The fragment whose turn it is.
Turn(e) == IF txFrame[e] < txAcknowledge[e] THEN txAcknowledge[e] ELSE txFrame[e]

\* Slips of TurnAfter: no way back to the lowest fragment, one fragment too many.
TurnNeverBack(e, i) == IF i + 1 >= txAcknowledge[e] + TxWindow THEN i ELSE i + 1

TurnBackLate(e, i) == IF i + 1 > txAcknowledge[e] + TxWindow THEN txAcknowledge[e] ELSE i + 1

\* The round over the window: the next turn, back to the lowest fragment after
\* the last one of the window, whether or not there is anything up there.
TurnAfter(e, i) ==
  IF i + 1 >= txAcknowledge[e] + TxWindow THEN txAcknowledge[e] ELSE i + 1

Unsent(e, i) == i < txSequence[e] /\ TxSlot(e, i).ack # i

\* ReliableMessagesTransmitNextFragment with fragments outstanding.
TransmitFragment(e) ==
  /\ txAcknowledge[e] # txSequence[e]
  /\ Unsent(e, Turn(e))
  /\ Put(Peer(e), Packet(e, Turn(e), TxSlot(e, Turn(e)).data))
  /\ selackoffset' = [selackoffset EXCEPT ![e] = 1]
  /\ txFrame' = [txFrame EXCEPT ![e] = TurnAfter(e, Turn(e))]
  /\ UNCHANGED <<txSequence, txAcknowledge, txBuffer, txBufferlen, rxSequence, rxBuffer, delivered>>

\* The same, when the peer is known to have the fragment or there is none.
SkipFragment(e) ==
  /\ txAcknowledge[e] # txSequence[e]
  /\ ~Unsent(e, Turn(e))
  /\ txFrame' = [txFrame EXCEPT ![e] = TurnAfter(e, Turn(e))]
  /\ UNCHANGED <<txSequence, txAcknowledge, txBuffer, txBufferlen, rxVars, wire>>

\* The same with nothing outstanding: at times, a packet that only acknowledges
\* (nextacktime).
TransmitAcknowledge(e) ==
  /\ txAcknowledge[e] = txSequence[e]
  /\ Put(Peer(e), Packet(e, -1, Garbage))
  /\ selackoffset' = [selackoffset EXCEPT ![e] = 1]
  /\ UNCHANGED <<txVars, rxSequence, rxBuffer, delivered>>

-----------------------------------------------------------------------------
\* The checks that make ReliableMessagesReceiveNextFragment ignore a packet,
\* its acknowledges included.
Accepts(e, p) ==
  /\ p.seq < rxSequence[e] + RxWindow
  /\ p.ack <= txAcknowledge[e] + TxWindow
  /\ p.ack >= txAcknowledge[e]
  /\ p.ack <= txSequence[e]
  /\ \A o \in p.sack : o < TxWindow

\* A slip of Marked: the index is not wrapped.
MarkedUnwrapped(e, p) ==
  [s \in (0 .. txBufferlen[e] - 1) \cup {p.ack + o : o \in p.sack} |->
     IF s - p.ack \in p.sack THEN [data |-> Garbage, ack |-> s] ELSE txBuffer[e][s]]

\* The transmit ring with the selective acknowledges of p entered.
Marked(e, p) ==
  [s \in 0 .. txBufferlen[e] - 1 |->
     IF \E o \in p.sack : (p.ack + o) % txBufferlen[e] = s
       THEN [txBuffer[e][s] EXCEPT !.ack =
               p.ack + (CHOOSE o \in p.sack : (p.ack + o) % txBufferlen[e] = s)]
       ELSE txBuffer[e][s]]

\* A slip of TakeAcknowledge: selectively acknowledged fragments are let go too.
TakeEveryAcknowledge(e, p, malloced) ==
  /\ txAcknowledge' = [txAcknowledge EXCEPT ![e] = p.ack + Cardinality(p.sack)]
  /\ txBuffer' = [txBuffer EXCEPT ![e] = Marked(e, p)]
  /\ UNCHANGED <<txSequence, txFrame, txBufferlen>>

\* Selective and cumulative acknowledge; a large ring that is used only partly
\* goes back to the default size, unless malloc fails.
TakeAcknowledge(e, p, malloced) ==
  LET shrinks == /\ txAcknowledge[e] < p.ack
                 /\ txSequence[e] - p.ack < DefaultBuffer
                 /\ txBufferlen[e] > DefaultBuffer
                 /\ malloced
      marked  == Marked(e, p)
  IN  /\ txAcknowledge' = [txAcknowledge EXCEPT ![e] = p.ack]
      /\ txBufferlen' = [txBufferlen EXCEPT ![e] = IF shrinks THEN DefaultBuffer ELSE @]
      /\ txBuffer' = [txBuffer EXCEPT ![e] =
           IF shrinks
             THEN Resized(e, marked, DefaultBuffer, p.ack)
             ELSE marked]
      /\ UNCHANGED <<txSequence, txFrame>>

StoreFragment(e, p) ==
  rxBuffer' = IF p.seq >= rxSequence[e]
                THEN [rxBuffer EXCEPT ![e][p.seq % DefaultBuffer] = [data |-> p.data, ack |-> p.seq]]
                ELSE rxBuffer

\* ReliableMessagesReceiveNextFragment.  The packet stays in flight: the
\* network may repeat it.
Receive(e, p, malloced) ==
  /\ p \in wire[e]
  /\ Accepts(e, p)
  /\ TakeAcknowledge(e, p, malloced)
  /\ StoreFragment(e, p)
  /\ UNCHANGED <<rxSequence, selackoffset, delivered, wire>>

\* SV_ReceiveReliableMessages: calls of ReliableMessageReceive until no fragment
\* is left that follows the delivered ones (top is what
\* ReliableMessagesGetAcknowledge finds).  A call that takes several resets
\* selackoffset; which calls do depends on the message boundaries.
Deliver(e) ==
  \E top \in rxSequence[e] + 1 .. rxSequence[e] + RxWindow :
    /\ \A i \in rxSequence[e] .. top - 1 : Holds(e, i)
    /\ top = rxSequence[e] + RxWindow \/ ~Holds(e, top)
    /\ rxSequence' = [rxSequence EXCEPT ![e] = top]
    /\ delivered' = [delivered EXCEPT ![e] =
         @ \o [k \in 1 .. top - rxSequence[e] |-> RxSlot(e, rxSequence[e] + k - 1).data]]
    /\ \/ UNCHANGED selackoffset
       \/ top > rxSequence[e] + 1 /\ selackoffset' = [selackoffset EXCEPT ![e] = 1]
    /\ UNCHANGED <<txVars, rxBuffer, wire>>

-----------------------------------------------------------------------------
Submitting(e) ==
  \E k \in 1 .. MaxMessage, spare \in {0, 1}, malloced \in BOOLEAN : Send(e, k, spare, malloced)

Receiving(e) == \E p \in wire[e], malloced \in BOOLEAN : Receive(e, p, malloced)

\* The part of ReliableMessagesFrame that works off one packet of the rate.
Transmitting(e) == TransmitFragment(e) \/ SkipFragment(e) \/ TransmitAcknowledge(e)

Next ==
  \E e \in End : Submitting(e) \/ Transmitting(e) \/ Receiving(e) \/ Deliver(e)

Spec == Init /\ [][Next]_vars

\* Both endpoints keep running their frames (Transmitting, Deliver).  The
\* network is fair: while packets that change something at e are on their way
\* again and again, one of them arrives.
Fairness ==
  \A e \in End : /\ WF_vars(Transmitting(e))
                 /\ WF_vars(Deliver(e))
                 /\ SF_vars(Receiving(e))

FairSpec == Spec /\ Fairness

-----------------------------------------------------------------------------
(* What must hold.                                                         *)

Data == Payload \cup {Garbage}

Slot == [data : Data, ack : Nat \cup {-1, Garbage}]

PacketType == [seq : Nat \cup {-1}, ack : Nat, sack : SUBSET Nat, data : Data]

\* The types of the variables; the rings have the size the channel records.
TypeOK ==
  /\ txSequence \in [End -> Nat]
  /\ txAcknowledge \in [End -> Nat]
  /\ txFrame \in [End -> Nat]
  /\ txBufferlen \in [End -> Nat]
  /\ DOMAIN txBuffer = End
  /\ \A e \in End : txBuffer[e] \in [0 .. txBufferlen[e] - 1 -> Slot]
  /\ rxSequence \in [End -> Nat]
  /\ rxBuffer \in [End -> [0 .. DefaultBuffer - 1 -> Slot]]
  /\ selackoffset \in [End -> {0, 1}]
  /\ wire \in [End -> SUBSET PacketType]
  /\ delivered \in [End -> Seq(Payload)]

\* Fragment i has reached e: handed out already, or waiting in its ring.
Arrived(e, i) == i < rxSequence[e] \/ Holds(e, i)

\* The transmit window, the ring and the other side agree: nothing is forgotten
\* before it was delivered, the outstanding fragments fit the ring, and the peer
\* is never so far ahead that its acknowledges are refused as illegible.
Counters ==
  \A e \in End :
    /\ txAcknowledge[e] <= rxSequence[Peer(e)]
    /\ rxSequence[Peer(e)] <= txSequence[e]
    /\ rxSequence[Peer(e)] <= txAcknowledge[e] + TxWindow
    /\ txSequence[e] <= Len(Stream[e])
    /\ txSequence[e] - txAcknowledge[e] <= txBufferlen[e]
    /\ txFrame[e] < txAcknowledge[e] + TxWindow
    /\ txBufferlen[e] >= DefaultBuffer

\* Every outstanding fragment lies at its place of the transmit ring, through
\* every growth and shrinking of it, and one marked as selectively
\* acknowledged has arrived.
TransmitRing ==
  \A e \in End : \A i \in txAcknowledge[e] .. txSequence[e] - 1 :
    /\ TxSlot(e, i).data = Stream[e][i + 1]
    /\ TxSlot(e, i).ack \in {-1, i}
    /\ TxSlot(e, i).ack = i => Arrived(Peer(e), i)

\* A slot of the receive ring that is not blank has a fragment of the peer that
\* was in the window, with its contents.
ReceiveRing ==
  \A e \in End : \A s \in 0 .. DefaultBuffer - 1 :
    LET n == rxBuffer[e][s].ack IN
    n # -1 => /\ n \in Nat /\ n % DefaultBuffer = s
              /\ n < txSequence[Peer(e)]
              /\ n < rxSequence[e] + RxWindow
              /\ n < txAcknowledge[Peer(e)] + TxWindow
              /\ rxBuffer[e][s].data = Stream[Peer(e)][n + 1]

\* A packet, however late, says nothing false: its fragment is one of the
\* stream, and what it acknowledges has arrived for good.
WirePackets ==
  \A e \in End : \A p \in wire[e] :
    /\ p.ack <= rxSequence[Peer(e)]
    /\ p.seq # -1 => /\ p.seq < txSequence[Peer(e)]
                     /\ p.seq < txAcknowledge[Peer(e)] + TxWindow
                     /\ p.data = Stream[Peer(e)][p.seq + 1]
    /\ \A o \in p.sack : o < RxWindow /\ Arrived(Peer(e), p.ack + o)

\* The application gets the fragments its peer submitted, in order, without gap
\* or repetition (the check ReliableMessageGetTestData makes with test data).
StreamIntegrity ==
  \A e \in End : delivered[e] = SubSeq(Stream[Peer(e)], 1, rxSequence[e])

IInv == TypeOK /\ Counters /\ TransmitRing /\ ReceiveRing /\ WirePackets /\ StreamIntegrity

\* e has fragments outstanding and nothing to put on the wire: its peer is
\* known to have all of them.  It sends no acknowledges then either.
Silent(e) ==
  /\ txAcknowledge[e] < txSequence[e]
  /\ \A i \in txAcknowledge[e] .. txAcknowledge[e] + TxWindow - 1 : ~Unsent(e, i)

\* The ends are never both silent, each waiting for the acknowledge of the
\* other: the offset at which selective acknowledges start leaves the lowest
\* fragment out.
NoStandoff == ~(Silent("server") /\ Silent("client"))

\* What a sender knows of an outstanding fragment it never forgets, in
\* particular not when the ring is resized.
KnowledgeKept ==
  [][\A e \in End : \A i \in txAcknowledge'[e] .. txSequence[e] - 1 :
       TxSlot(e, i).ack = i => TxSlot(e, i)'.ack = i]_vars

\* The channel implements the ordered stream it is meant to be.
Promise == INSTANCE ReliableStream WITH submitted <- txSequence, confirmed <- txAcknowledge

ImplementsStream == Promise!StreamSpec

\* Whatever is enqueued is delivered, and the sender learns of it.  (What is confirmed
\* stays so: this says the same as txSequence[e] >= n ~> txAcknowledge[e] >= n.)
EventuallyConfirmed ==
  \A e \in End : \A n \in 1 .. Len(Stream[e]) :
    []<>(txSequence[e] >= n => txAcknowledge[e] >= n)
=============================================================================
