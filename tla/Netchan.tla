------------------------------- MODULE Netchan -------------------------------
(***************************************************************************)
(* The sequenced channel of netchan.c from the server to one client, with  *)
(* the functions of the server that transmit on it (sv_net_chan.c,         *)
(* sv_snapshot.c, sv_client.c, sv_main.c).  A message that fits a packet   *)
(* goes out under a sequence number of its own; a longer one goes out in   *)
(* fragments under one sequence number, one per frame, and the receiver    *)
(* joins them.  Nothing is resent.                                         *)
(*                                                                         *)
(* A byte of a message is the pair of the message's number and its         *)
(* position; FragmentSize bytes stand for the code's 1300.  What the bytes *)
(* are encoded with is known from the message's number (sent[m].key).      *)
(***************************************************************************)
EXTENDS Integers, Sequences, FiniteSets

CONSTANTS
  FragmentSize,        \* FRAGMENT_SIZE
  FragmentBufferSize,  \* fragmentBufferSize of the receiver
  Lengths,             \* the lengths a message may have
  MaxMessages,         \* bound: messages sent
  WireCap              \* bound: packets in flight

\* A message that fits a packet fits the receiver.
ASSUME SizeAssumption ==
  /\ FragmentSize \in Nat \ {0}
  /\ FragmentBufferSize \in Nat /\ FragmentSize <= FragmentBufferSize
  /\ Lengths \subseteq Nat \ {0}
  /\ MaxMessages \in Nat /\ WireCap \in Nat

VARIABLES
  outgoingSequence,     \* chan->outgoingSequence of the sender
  unsentFragments,      \* chan->unsentFragments: a message is under way
  unsentFragmentStart,  \* chan->unsentFragmentStart
  unsentBuffer,         \* chan->unsentBuffer, its first unsentLength bytes
  incomingSequence,     \* chan->incomingSequence of the receiver
  fragmentSequence,     \* chan->fragmentSequence
  fragmentBuffer,       \* chan->fragmentBuffer, its first fragmentLength bytes
  wire,                 \* the packets in flight
  faulty,               \* the network loses, repeats and reorders packets
  sent,                 \* history: length and key of every message transmitted
  received              \* history: what Netchan_Process gave for processing

senderVars == <<outgoingSequence, unsentFragments, unsentFragmentStart, unsentBuffer, sent>>
receiverVars == <<incomingSequence, fragmentSequence, fragmentBuffer, received>>
vars == <<senderVars, receiverVars, wire, faulty>>

Body(m, length) == [at \in 1 .. length |-> <<m, at>>]

-----------------------------------------------------------------------------
(* The network.                                                            *)

\* Packets go out.  A faulty network may let any packet go when too many are in
\* flight; the other one is waited for (bound).
Put(packets) ==
  /\ UNCHANGED faulty
  /\ IF Cardinality(wire \cup packets) <= WireCap
       THEN wire' = wire \cup packets
       ELSE /\ faulty
            /\ \E kept \in SUBSET (wire \cup packets) :
                 Cardinality(kept) = WireCap /\ wire' = kept

\* p was sent before every other packet in flight.
Oldest(p) ==
  \A q \in wire : \/ p.sequence < q.sequence
                  \/ p.sequence = q.sequence /\ p.start <= q.start

\* p arrives: on a faulty network any packet, any number of times.
Arrives(p) ==
  /\ UNCHANGED faulty
  /\ \/ faulty /\ UNCHANGED wire
     \/ ~faulty /\ Oldest(p) /\ wire' = wire \ {p}

-----------------------------------------------------------------------------
(* Sending.                                                                *)

\* The fragment of buffer from start on: a full one, or the rest, which may be
\* nothing.
FragmentAt(buffer, start) ==
  SubSeq(buffer, start + 1,
         IF start + FragmentSize > Len(buffer) THEN Len(buffer) ELSE start + FragmentSize)

FragmentPacket(sequence, buffer, start) ==
  [sequence |-> sequence, fragmented |-> TRUE, start |-> start, data |-> FragmentAt(buffer, start)]

\* A slip of IsLast: the empty fragment after a full last one is forgotten.
IsLastWithoutEmpty(buffer, start) == start + FragmentSize >= Len(buffer)

\* The fragment from start on is shorter than FRAGMENT_SIZE (var_01).
IsLast(buffer, start) == start + FragmentSize > Len(buffer)

\* Netchan_TransmitNextFragment, under SV_Netchan_TransmitNextFragment.
TransmitNextFragment ==
  /\ Put({FragmentPacket(outgoingSequence, unsentBuffer, unsentFragmentStart)})
  /\ unsentFragmentStart' =
       unsentFragmentStart + Len(FragmentAt(unsentBuffer, unsentFragmentStart))
  /\ IF IsLast(unsentBuffer, unsentFragmentStart)
       THEN outgoingSequence' = outgoingSequence + 1 /\ unsentFragments' = FALSE
       ELSE UNCHANGED <<outgoingSequence, unsentFragments>>
  /\ UNCHANGED <<unsentBuffer, sent, receiverVars>>

\* Netchan_Transmit of the next message under the sequence number, after the
\* packets that went out earlier in the same call of its caller.  The message is
\* encoded with that number (SV_Netchan_Encode in SV_Netchan_Transmit).
TransmitAs(sequence, length, earlier) ==
  LET m == Len(sent) + 1
      body == Body(m, length)
  IN  /\ m <= MaxMessages
      /\ sent' = Append(sent, [length |-> length, key |-> sequence])
      /\ IF length >= FragmentSize
           THEN /\ Put(earlier \cup {FragmentPacket(sequence, body, 0)})
                /\ unsentFragments' = TRUE
                /\ unsentBuffer' = body
                /\ unsentFragmentStart' = FragmentSize
                /\ outgoingSequence' = sequence
           ELSE /\ Put(earlier \cup
                       {[sequence |-> sequence, fragmented |-> FALSE, start |-> 0, data |-> body]})
                /\ unsentFragmentStart' = 0
                /\ outgoingSequence' = sequence + 1
                /\ UNCHANGED unsentBuffer
      /\ UNCHANGED receiverVars

Transmit(length) ==
  /\ TransmitAs(outgoingSequence, length, {})
  /\ length < FragmentSize => UNCHANGED unsentFragments

-----------------------------------------------------------------------------
(* The callers.                                                            *)

\* A slip of SendClientMessages: the snapshot does not wait for the fragments.
SendRegardless(length) == Transmit(length)

\* SV_SendClientMessages, its part for the client: the next fragment of the last
\* message, or else a new one.
SendClientMessages(length) ==
  IF unsentFragments THEN TransmitNextFragment ELSE Transmit(length)

\* The fragments that are left, as the loop of SV_SendClientGameState sends them.
Remaining ==
  {FragmentPacket(outgoingSequence, unsentBuffer, unsentFragmentStart + k * FragmentSize) :
     k \in 0 .. (Len(unsentBuffer) - unsentFragmentStart) \div FragmentSize}

\* SV_SendClientGameState: what is left of the last message and then the new one.
SendClientGameState(length) ==
  IF unsentFragments
    THEN /\ TransmitAs(outgoingSequence + 1, length, Remaining)
         /\ length < FragmentSize => unsentFragments' = FALSE
    ELSE Transmit(length)

\* SV_SendClientSnapshot as SV_SpawnServer and SV_FinalMessage call it: without
\* a look at unsentFragments.
SendClientSnapshot(length) == Transmit(length)

\* SV_DropClientInternal: the rest of the last message is given up.
DropClient ==
  /\ unsentFragments
  /\ unsentFragments' = FALSE
  /\ UNCHANGED <<outgoingSequence, unsentFragmentStart, unsentBuffer, sent, receiverVars, wire, faulty>>

-----------------------------------------------------------------------------
(* Receiving: Netchan_Process.  An out of order packet changes nothing.    *)

ProcessPlain(p) ==
  /\ p.sequence > incomingSequence
  /\ ~p.fragmented
  /\ incomingSequence' = p.sequence
  /\ received' = Append(received, [sequence |-> p.sequence, data |-> p.data])
  /\ UNCHANGED <<fragmentSequence, fragmentBuffer>>

\* A slip of Joined: the parts of the last message are kept.
JoinedToAny(p) == fragmentBuffer

\* The fragments the receiver has of the message p belongs to.
Joined(p) == IF p.sequence = fragmentSequence THEN fragmentBuffer ELSE << >>

\* A slip of Follows: nobody looks for room.
FollowsWithoutRoom(p) == p.start = Len(Joined(p))

\* p continues what the receiver has, and there is room for it.
Follows(p) ==
  p.start = Len(Joined(p)) /\ Len(Joined(p)) + Len(p.data) <= FragmentBufferSize

ProcessFragment(p) ==
  /\ p.sequence > incomingSequence
  /\ p.fragmented
  /\ fragmentSequence' = p.sequence
  /\ \/ /\ ~Follows(p)
        /\ fragmentBuffer' = Joined(p)
        /\ UNCHANGED <<incomingSequence, received>>
     \/ /\ Follows(p)
        /\ Len(p.data) = FragmentSize
        /\ fragmentBuffer' = Joined(p) \o p.data
        /\ UNCHANGED <<incomingSequence, received>>
     \/ /\ Follows(p)
        /\ Len(p.data) # FragmentSize
        /\ fragmentBuffer' = << >>
        /\ incomingSequence' = p.sequence
        /\ received' = Append(received, [sequence |-> p.sequence, data |-> Joined(p) \o p.data])

Discard(p) == p.sequence <= incomingSequence /\ UNCHANGED receiverVars

Process(p) ==
  /\ Arrives(p)
  /\ ProcessPlain(p) \/ ProcessFragment(p) \/ Discard(p)
  /\ UNCHANGED senderVars

-----------------------------------------------------------------------------
Init ==
  /\ outgoingSequence = 1
  /\ unsentFragments = FALSE
  /\ unsentFragmentStart = 0
  /\ unsentBuffer = << >>
  /\ incomingSequence = 0
  /\ fragmentSequence = 0
  /\ fragmentBuffer = << >>
  /\ wire = {}
  /\ faulty \in BOOLEAN
  /\ sent = << >>
  /\ received = << >>

\* The callers that send a message whole before they send the next one.
Next ==
  \/ \E length \in Lengths : SendClientMessages(length) \/ SendClientGameState(length)
  \/ \E p \in wire : Process(p)

Spec == Init /\ [][Next]_vars

\* All the callers.
CollidingNext ==
  \/ Next
  \/ \E length \in Lengths : SendClientSnapshot(length)
  \/ DropClient

CollidingSpec == Init /\ [][CollidingNext]_vars

-----------------------------------------------------------------------------
(* What must hold.                                                         *)

Bytes == (1 .. MaxMessages) \X (Nat \ {0})

PacketType == [sequence : Nat, fragmented : BOOLEAN, start : Nat, data : Seq(Bytes)]

\* The types of the variables.  Neither end leaves its buffer.
TypeOK ==
  /\ outgoingSequence \in Nat /\ incomingSequence \in Nat /\ fragmentSequence \in Nat
  /\ unsentFragments \in BOOLEAN /\ faulty \in BOOLEAN
  /\ unsentBuffer \in Seq(Bytes) /\ fragmentBuffer \in Seq(Bytes)
  /\ unsentFragmentStart \in 0 .. Len(unsentBuffer)
  /\ Len(fragmentBuffer) <= FragmentBufferSize
  /\ wire \in SUBSET PacketType
  /\ sent \in Seq([length : Lengths, key : Nat])
  /\ received \in Seq([sequence : Nat, data : Seq(Bytes)])

\* The number of the message that a sequence of bytes begins with.
Number(data) == data[1][1]

\* Whatever is received is one message that was sent, from its first byte to its
\* last, under the sequence number it was encoded with.
WholeMessages ==
  \A i \in 1 .. Len(received) :
    LET data == received[i].data IN
    /\ data # << >>
    /\ Number(data) \in 1 .. Len(sent)
    /\ data = Body(Number(data), sent[Number(data)].length)
    /\ received[i].sequence = sent[Number(data)].key

\* If the network is not faulty, nothing that fits the receiver is lost: when all
\* has been sent and has arrived, it has been received.  A message whose last
\* fragment is full needs the empty fragment for that.
NothingSwallowed ==
  ~faulty /\ wire = {} /\ ~unsentFragments =>
    Len(received) = Cardinality({m \in 1 .. Len(sent) : sent[m].length <= FragmentBufferSize})

\* The channel implements the stream of messages it is meant to be.
Promise ==
  INSTANCE MessageStream WITH
    count <- Len(sent),
    arrived <- [i \in 1 .. Len(received) |-> Number(received[i].data)]

ImplementsMessageStream == Promise!StreamSpec
=============================================================================
