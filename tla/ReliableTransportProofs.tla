----------------------- MODULE ReliableTransportProofs -----------------------
(* Proofs about the reliable message channel, for every stream, window and *)
(* buffer size the assumptions of ReliableTransport admit.                 *)
EXTENDS ReliableTransport, NumberFacts, SequenceTheorems

-----------------------------------------------------------------------------
(* The rings.                                                              *)

\* What Placed puts where: slot[i] at the place of i.
LEMMA PlacedAt ==
  ASSUME NEW ring, NEW n \in Nat \ {0}, NEW lo \in Nat, NEW hi \in Nat, NEW slot,
         hi - lo <= n, NEW i \in lo .. hi - 1
  PROVE  Placed(ring, n, lo, hi, slot)[i % n] = slot[i]
<1> DEFINE c == CHOOSE x \in lo .. hi - 1 : x % n = i % n
<1>1. i % n \in 0 .. n - 1 BY DivMod
<1>2. c \in lo .. hi - 1 /\ c % n = i % n OBVIOUS
<1>3. c = i
  <2>1. c \in Nat /\ i \in Nat /\ lo <= c /\ lo <= i /\ c < lo + n /\ i < lo + n BY <1>2
  <2> HIDE DEF c
  <2> QED BY <2>1, <1>2, SamePlace
<1>4. Placed(ring, n, lo, hi, slot)[i % n] = slot[c] BY <1>1 DEF Placed
<1> QED BY <1>3, <1>4

\* What is in the ring already stays where it is if it is less than a round behind.
LEMMA PlacedKeeps ==
  ASSUME NEW ring, NEW n \in Nat \ {0}, NEW lo \in Nat, NEW hi \in Nat, NEW slot,
         NEW i \in Nat, i < lo, hi <= i + n
  PROVE  Placed(ring, n, lo, hi, slot)[i % n] = ring[i % n]
<1> DEFINE s == i % n
<1>1. s \in 0 .. n - 1 BY DivMod
<1>2. ASSUME NEW j \in lo .. hi - 1 PROVE j % n # s
  <2>1. i < j /\ j < i + n /\ j \in Nat OBVIOUS
  <2> QED BY <2>1, PlacesDiffer
<1> HIDE DEF s
<1>3. Placed(ring, n, lo, hi, slot)[s] = ring[s] BY <1>1, <1>2 DEF Placed
<1> QED BY <1>3 DEF s

\* Placed makes a ring of slots out of slots.
LEMMA PlacedType ==
  ASSUME NEW S, NEW ring, NEW n \in Nat \ {0}, NEW lo \in Nat, NEW hi \in Nat, NEW slot,
         \A s \in 0 .. n - 1 : (\A i \in lo .. hi - 1 : i % n # s) => ring[s] \in S,
         \A i \in lo .. hi - 1 : slot[i] \in S
  PROVE  Placed(ring, n, lo, hi, slot) \in [0 .. n - 1 -> S]
<1> SUFFICES ASSUME NEW s \in 0 .. n - 1
             PROVE  (IF \E i \in lo .. hi - 1 : i % n = s
                       THEN slot[CHOOSE i \in lo .. hi - 1 : i % n = s]
                       ELSE ring[s]) \in S
  BY DEF Placed
<1>1. CASE \E i \in lo .. hi - 1 : i % n = s
  <2>1. (CHOOSE i \in lo .. hi - 1 : i % n = s) \in lo .. hi - 1 BY <1>1
  <2> QED BY <1>1, <2>1
<1> QED BY <1>1

\* The two ends.
LEMMA Ends ==
  ASSUME NEW e \in End
  PROVE  /\ Peer(e) \in End /\ Peer(Peer(e)) = e /\ Peer(e) # e
         /\ End = {e, Peer(e)}
         /\ \A f \in End : f = e \/ f = Peer(e)
BY DEF End, Peer

\* The sizes the rest relies on.
LEMMA Sizes ==
  /\ RxWindow \in Nat \ {0} /\ TxWindow \in Nat \ {0} /\ DefaultBuffer \in Nat \ {0}
  /\ RxWindow <= TxWindow /\ TxWindow <= DefaultBuffer
  /\ \A e \in End : Stream[e] \in Seq(Payload) /\ Len(Stream[e]) \in Nat
BY WindowAssumption, StreamAssumption

-----------------------------------------------------------------------------
(* The initial state.                                                      *)

\* The invariant holds at the start.
LEMMA InitIInv == Init => IInv
<1> SUFFICES ASSUME Init PROVE IInv OBVIOUS
<1> USE Sizes DEF Init
<1>1. TypeOK
  <2>1. Fresh \in Slot /\ Blank \in Slot BY DEF Fresh, Blank, Slot, Data
  <2> QED BY <2>1 DEF TypeOK
<1>2. Counters BY Ends DEF Counters
<1>3. TransmitRing BY DEF TransmitRing
<1>4. ReceiveRing BY DEF ReceiveRing, Blank
<1>5. WirePackets BY DEF WirePackets
<1>6. StreamIntegrity BY Ends DEF StreamIntegrity
<1> QED BY <1>1, <1>2, <1>3, <1>4, <1>5, <1>6 DEF IInv

-----------------------------------------------------------------------------
(* Consequences of the invariant that several steps use.                   *)

\* A fragment that has arrived is one the peer has enqueued, within the windows.
LEMMA ArrivedBounds ==
  ASSUME IInv, NEW e \in End, NEW i \in Nat, Arrived(e, i)
  PROVE  /\ i < txSequence[Peer(e)]
         /\ i < rxSequence[e] + RxWindow
         /\ i < txAcknowledge[Peer(e)] + TxWindow
<1>1. Peer(e) \in End /\ Peer(Peer(e)) = e BY Ends
<1>2. /\ rxSequence[e] \in Nat /\ txSequence[Peer(e)] \in Nat /\ txAcknowledge[Peer(e)] \in Nat
      /\ rxSequence[e] <= txSequence[Peer(e)]
      /\ rxSequence[e] <= txAcknowledge[Peer(e)] + TxWindow
  BY <1>1 DEF IInv, TypeOK, Counters
<1>3. CASE i < rxSequence[e] BY <1>2, <1>3, Sizes
<1>4. CASE Holds(e, i)
  <2>1. i % DefaultBuffer \in 0 .. DefaultBuffer - 1 BY Sizes, DivMod
  <2>2. rxBuffer[e][i % DefaultBuffer].ack = i BY <1>4 DEF Holds, RxSlot
  <2> QED BY <2>1, <2>2 DEF IInv, ReceiveRing
<1> QED BY <1>3, <1>4 DEF Arrived

\* A fragment held in the receive ring has the contents the peer enqueued.
LEMMA HeldContents ==
  ASSUME IInv, NEW e \in End, NEW i \in Nat, Holds(e, i)
  PROVE  RxSlot(e, i).data = Stream[Peer(e)][i + 1]
<1>1. i % DefaultBuffer \in 0 .. DefaultBuffer - 1 BY Sizes, DivMod
<1>2. rxBuffer[e][i % DefaultBuffer].ack = i BY DEF Holds, RxSlot
<1> QED BY <1>1, <1>2 DEF IInv, ReceiveRing, RxSlot

\* A member of a stream is a payload.
LEMMA StreamMember ==
  ASSUME NEW e \in End, NEW i \in 1 .. Len(Stream[e])
  PROVE  Stream[e][i] \in Payload
BY Sizes

\* The outstanding fragment i lies in the ring, as a slot.
LEMMA OutstandingSlot ==
  ASSUME IInv, NEW e \in End, NEW i \in txAcknowledge[e] .. txSequence[e] - 1
  PROVE  /\ txBufferlen[e] \in Nat \ {0}
         /\ i \in Nat /\ i % txBufferlen[e] \in 0 .. txBufferlen[e] - 1
         /\ TxSlot(e, i) \in Slot
<1>1. /\ txBufferlen[e] \in Nat /\ txBufferlen[e] >= DefaultBuffer
      /\ txAcknowledge[e] \in Nat /\ txSequence[e] \in Nat
      /\ txBuffer[e] \in [0 .. txBufferlen[e] - 1 -> Slot]
  BY DEF IInv, TypeOK, Counters
<1>2. txBufferlen[e] \in Nat \ {0} /\ i \in Nat BY <1>1, Sizes
<1>3. i % txBufferlen[e] \in 0 .. txBufferlen[e] - 1 BY <1>2, DivMod
<1> QED BY <1>1, <1>2, <1>3 DEF TxSlot

\* The counters of one end, as numbers.
LEMMA OwnCounters ==
  ASSUME IInv, NEW e \in End
  PROVE  /\ txSequence[e] \in Nat /\ txAcknowledge[e] \in Nat /\ txFrame[e] \in Nat
         /\ txBufferlen[e] \in Nat \ {0} /\ txBufferlen[e] >= DefaultBuffer
         /\ txAcknowledge[e] <= txSequence[e] /\ txSequence[e] <= Len(Stream[e])
         /\ txSequence[e] - txAcknowledge[e] <= txBufferlen[e]
         /\ txBuffer[e] \in [0 .. txBufferlen[e] - 1 -> Slot]
         /\ rxSequence[e] \in Nat /\ rxSequence[e] <= txSequence[Peer(e)]
         /\ txAcknowledge[e] <= rxSequence[Peer(e)]
<1>1. Peer(e) \in End /\ Peer(Peer(e)) = e BY Ends
<1>2. /\ txSequence[e] \in Nat /\ txAcknowledge[e] \in Nat /\ txFrame[e] \in Nat
      /\ txBufferlen[e] \in Nat /\ txBuffer[e] \in [0 .. txBufferlen[e] - 1 -> Slot]
      /\ rxSequence[e] \in Nat /\ rxSequence[Peer(e)] \in Nat
  BY <1>1 DEF IInv, TypeOK
<1>3. /\ txAcknowledge[e] <= rxSequence[Peer(e)] /\ rxSequence[Peer(e)] <= txSequence[e]
      /\ txSequence[e] <= Len(Stream[e])
      /\ txSequence[e] - txAcknowledge[e] <= txBufferlen[e] /\ txBufferlen[e] >= DefaultBuffer
      /\ rxSequence[e] <= txSequence[Peer(e)]
  BY <1>1 DEF IInv, Counters
<1>4. txAcknowledge[e] <= txSequence[e] BY <1>2, <1>3
<1>5. txBufferlen[e] # 0 BY <1>2, <1>3, Sizes
<1> QED BY <1>2, <1>3, <1>4, <1>5

-----------------------------------------------------------------------------
(* Resizing the ring.                                                      *)

\* Ring new of n slots holds what ring old of m slots holds for every sequence
\* number from lowest up to (not including) high.
CarriedOver(new, n, old, m, lowest, high) ==
  \A i \in lowest .. high - 1 : new[i % n] = old[i % m]

\* The loop of ReliableMessageChangeSendBufferSize keeps every fragment from
\* lowest up, whatever the ring it copies from and to, if they fit.
LEMMA ResizedKeeps ==
  ASSUME NEW e \in End, NEW ring, NEW n \in Nat \ {0}, NEW lowest \in Nat,
         txSequence[e] \in Nat, txSequence[e] - lowest <= n,
         txBufferlen[e] \in Nat \ {0}, ring \in [0 .. txBufferlen[e] - 1 -> Slot]
  PROVE  /\ Resized(e, ring, n, lowest) \in [0 .. n - 1 -> Slot]
         /\ CarriedOver(Resized(e, ring, n, lowest), n, ring, txBufferlen[e],
                        lowest, txSequence[e])
<1> DEFINE base == [s \in 0 .. n - 1 |-> IF lowest = 0 THEN Blank ELSE Fresh]
<1> DEFINE slot == [i \in lowest .. txSequence[e] - 1 |-> ring[i % txBufferlen[e]]]
<1>1. Resized(e, ring, n, lowest) = Placed(base, n, lowest, txSequence[e], slot) BY DEF Resized
<1>2. \A i \in lowest .. txSequence[e] - 1 : slot[i] = ring[i % txBufferlen[e]] OBVIOUS
<1>3. \A i \in lowest .. txSequence[e] - 1 : slot[i] \in Slot
  <2> SUFFICES ASSUME NEW i \in lowest .. txSequence[e] - 1 PROVE ring[i % txBufferlen[e]] \in Slot
    BY <1>2
  <2>1. i \in Nat OBVIOUS
  <2>2. i % txBufferlen[e] \in 0 .. txBufferlen[e] - 1 BY <2>1, DivMod
  <2> QED BY <2>2
<1>4. \A s \in 0 .. n - 1 : base[s] \in Slot BY DEF Blank, Fresh, Slot, Data
<1> HIDE DEF base, slot
<1>5. Placed(base, n, lowest, txSequence[e], slot) \in [0 .. n - 1 -> Slot]
  BY <1>3, <1>4, PlacedType
<1>6. \A i \in lowest .. txSequence[e] - 1 :
        Placed(base, n, lowest, txSequence[e], slot)[i % n] = slot[i]
  BY PlacedAt
<1> QED BY <1>1, <1>2, <1>5, <1>6 DEF CarriedOver

\* The ring of a send has room for what is outstanding and is never smaller
\* than the default.
LEMMA RoomForFits ==
  ASSUME IInv, NEW e \in End, NEW k \in Nat, NEW spare \in {0, 1}, NEW malloced \in BOOLEAN
  PROVE  /\ RoomFor(e, k, spare, malloced) \in Nat \ {0}
         /\ RoomFor(e, k, spare, malloced) >= DefaultBuffer
         /\ txSequence[e] - txAcknowledge[e] <= RoomFor(e, k, spare, malloced)
<1> DEFINE needed == k + spare + txSequence[e] - txAcknowledge[e]
<1> DEFINE wanted == needed + needed \div 2
<1>1. /\ txBufferlen[e] \in Nat /\ txBufferlen[e] >= DefaultBuffer
      /\ txAcknowledge[e] \in Nat /\ txSequence[e] \in Nat
      /\ txAcknowledge[e] <= txSequence[e]
      /\ txSequence[e] - txAcknowledge[e] <= txBufferlen[e]
  BY Ends DEF IInv, TypeOK, Counters
<1>2. needed \in Nat /\ txSequence[e] - txAcknowledge[e] <= needed BY <1>1
<1>3. needed \div 2 \in Nat
  <2> HIDE DEF needed
  <2> QED BY <1>2
<1>4. RoomFor(e, k, spare, malloced) =
        IF needed <= txBufferlen[e] \/ ~malloced
          THEN txBufferlen[e]
          ELSE IF wanted <= DefaultBuffer THEN DefaultBuffer ELSE wanted
  BY DEF RoomFor
<1> HIDE DEF needed
<1> QED BY <1>1, <1>2, <1>3, <1>4, Sizes

-----------------------------------------------------------------------------
(* One lemma per action: it keeps the invariant.                           *)

\* Enqueueing at e up to number top gives a ring new of len slots: every outstanding
\* fragment keeps its slot, and the new ones have one each.
Enqueued(e, top, len, new) ==
  /\ top \in Nat /\ len \in Nat \ {0} /\ new \in [0 .. len - 1 -> Slot]
  /\ txSequence[e] < top /\ top <= Len(Stream[e])
  /\ len >= DefaultBuffer /\ top - txAcknowledge[e] <= len
  /\ \A i \in txAcknowledge[e] .. txSequence[e] - 1 : new[i % len] = TxSlot(e, i)
  /\ \A i \in txSequence[e] .. top - 1 :
       new[i % len].data = Stream[e][i + 1] /\ new[i % len].ack = -1
  /\ txBuffer' = [txBuffer EXCEPT ![e] = new]
  /\ txBufferlen' = [txBufferlen EXCEPT ![e] = len]
  /\ txSequence' = [txSequence EXCEPT ![e] = top]
  /\ UNCHANGED <<txAcknowledge, txFrame, rxSequence, rxBuffer, selackoffset, delivered, wire>>

\* ReliableMessageSend enqueues, whatever size the ring gets.
LEMMA SendEffect ==
  ASSUME IInv, NEW e \in End, NEW k \in 1 .. MaxMessage, NEW spare \in {0, 1},
         NEW malloced \in BOOLEAN, Send(e, k, spare, malloced)
  PROVE  \E top, len, new : Enqueued(e, top, len, new)
<1> DEFINE len == RoomFor(e, k, spare, malloced)
<1> DEFINE free == len - (txSequence[e] - txAcknowledge[e])
<1> DEFINE accepted == IF k <= free THEN k ELSE free
<1> DEFINE top == txSequence[e] + accepted
<1> DEFINE ring == IF len = txBufferlen[e] THEN txBuffer[e]
                                           ELSE Resized(e, txBuffer[e], len, txAcknowledge[e])
<1> DEFINE slot == [i \in txSequence[e] .. top - 1 |-> [data |-> Stream[e][i + 1], ack |-> -1]]
<1> DEFINE new == Placed(ring, len, txSequence[e], top, slot)
<1>1. /\ accepted > 0 /\ top <= Len(Stream[e])
      /\ txBuffer' = [txBuffer EXCEPT ![e] = new]
      /\ txBufferlen' = [txBufferlen EXCEPT ![e] = len]
      /\ txSequence' = [txSequence EXCEPT ![e] = top]
      /\ UNCHANGED <<txAcknowledge, txFrame, rxSequence, rxBuffer, selackoffset, delivered, wire>>
  BY DEF Send, rxVars
<1>2. /\ txSequence[e] \in Nat /\ txAcknowledge[e] \in Nat /\ txBufferlen[e] \in Nat \ {0}
      /\ txAcknowledge[e] <= txSequence[e]
      /\ txSequence[e] - txAcknowledge[e] <= txBufferlen[e]
      /\ txBuffer[e] \in [0 .. txBufferlen[e] - 1 -> Slot]
  BY OwnCounters
<1>3. len \in Nat \ {0} /\ len >= DefaultBuffer /\ txSequence[e] - txAcknowledge[e] <= len
  <2>1. k \in Nat BY BoundAssumption
  <2> QED BY <2>1, RoomForFits
<1>4. /\ top \in Nat /\ txSequence[e] < top /\ top - txAcknowledge[e] <= len
  <2>1. k \in Nat BY BoundAssumption
  <2>2. accepted > 0 BY <1>1
  <2> HIDE DEF len
  <2>3. free \in Nat /\ accepted \in Nat /\ accepted <= free BY <2>1, <2>2, <1>2, <1>3
  <2> HIDE DEF free, accepted
  <2>4. free = len - (txSequence[e] - txAcknowledge[e]) BY DEF free
  <2> QED BY <2>2, <2>3, <2>4, <1>2, <1>3
<1> HIDE DEF len, free, accepted, top
<1>5. /\ ring \in [0 .. len - 1 -> Slot]
      /\ \A i \in txAcknowledge[e] .. txSequence[e] - 1 : ring[i % len] = TxSlot(e, i)
  <2>1. CASE len = txBufferlen[e] BY <2>1, <1>2 DEF TxSlot
  <2>2. CASE len # txBufferlen[e]
    <3>1. ring = Resized(e, txBuffer[e], len, txAcknowledge[e]) BY <2>2
    <3> HIDE DEF ring
    <3>2. /\ Resized(e, txBuffer[e], len, txAcknowledge[e]) \in [0 .. len - 1 -> Slot]
          /\ \A i \in txAcknowledge[e] .. txSequence[e] - 1 :
               Resized(e, txBuffer[e], len, txAcknowledge[e])[i % len] = txBuffer[e][i % txBufferlen[e]]
      <4> HIDE DEF slot
      <4> DEFINE old == txBuffer[e]
      <4> DEFINE lo == txAcknowledge[e]
      <4>1. /\ lo \in Nat /\ txSequence[e] \in Nat /\ txSequence[e] - lo <= len
            /\ txBufferlen[e] \in Nat \ {0} /\ old \in [0 .. txBufferlen[e] - 1 -> Slot]
            /\ len \in Nat \ {0}
        BY <1>2, <1>3
      <4> HIDE DEF old, lo
      <4>2. /\ Resized(e, old, len, lo) \in [0 .. len - 1 -> Slot]
            /\ CarriedOver(Resized(e, old, len, lo), len, old, txBufferlen[e], lo, txSequence[e])
        BY <4>1, ResizedKeeps
      <4> QED BY <4>2 DEF old, lo, CarriedOver
    <3> QED BY <3>1, <3>2 DEF TxSlot
  <2> QED BY <2>1, <2>2
<1>6. \A i \in txSequence[e] .. top - 1 :
        slot[i].data = Stream[e][i + 1] /\ slot[i].ack = -1 /\ slot[i] \in Slot
  <2> SUFFICES ASSUME NEW i \in txSequence[e] .. top - 1
               PROVE  [data |-> Stream[e][i + 1], ack |-> -1] \in Slot
    OBVIOUS
  <2>1. i + 1 \in 1 .. Len(Stream[e]) BY <1>1, <1>2, <1>4, Sizes
  <2>2. Stream[e][i + 1] \in Payload BY <2>1, StreamMember
  <2> QED BY <2>2 DEF Slot, Data
<1> HIDE DEF ring, slot
<1>7. new \in [0 .. len - 1 -> Slot]
  BY <1>2, <1>3, <1>4, <1>5, <1>6, PlacedType
<1>8. \A i \in txSequence[e] .. top - 1 : new[i % len] = slot[i]
  <2> SUFFICES ASSUME NEW i \in txSequence[e] .. top - 1 PROVE new[i % len] = slot[i]
    OBVIOUS
  <2>1. top - txSequence[e] <= len BY <1>2, <1>3, <1>4
  <2> QED BY <2>1, <1>2, <1>3, <1>4, PlacedAt
<1>9. \A i \in txAcknowledge[e] .. txSequence[e] - 1 : new[i % len] = TxSlot(e, i)
  <2> SUFFICES ASSUME NEW i \in txAcknowledge[e] .. txSequence[e] - 1
               PROVE  new[i % len] = ring[i % len]
    BY <1>5
  <2>1. i \in Nat /\ i < txSequence[e] /\ top <= i + len BY <1>2, <1>3, <1>4
  <2> DEFINE lo == txSequence[e]
  <2>2. lo \in Nat /\ top \in Nat /\ len \in Nat \ {0} /\ i < lo /\ top <= i + len
    BY <2>1, <1>2, <1>3, <1>4
  <2> HIDE DEF lo
  <2>3. Placed(ring, len, lo, top, slot)[i % len] = ring[i % len] BY <2>1, <2>2, PlacedKeeps
  <2> QED BY <2>3 DEF lo
<1> HIDE DEF new
<1>10. \A i \in txSequence[e] .. top - 1 :
         new[i % len].data = Stream[e][i + 1] /\ new[i % len].ack = -1
  BY <1>6, <1>8
<1> QED BY <1>1, <1>3, <1>4, <1>7, <1>9, <1>10 DEF Enqueued

\* Enqueueing disturbs the transmit ring only.
LEMMA SendKeeps ==
  ASSUME IInv, NEW e \in End, NEW k \in 1 .. MaxMessage, NEW spare \in {0, 1},
         NEW malloced \in BOOLEAN, Send(e, k, spare, malloced)
  PROVE  IInv'
<1>1. PICK top, len, new : Enqueued(e, top, len, new) BY SendEffect
<1>2. /\ txSequence[e] \in Nat /\ txAcknowledge[e] \in Nat /\ txBufferlen[e] \in Nat \ {0}
      /\ txAcknowledge[e] <= txSequence[e]
  BY OwnCounters
<1>3. /\ txBuffer' = [txBuffer EXCEPT ![e] = new]
      /\ txBufferlen' = [txBufferlen EXCEPT ![e] = len]
      /\ txSequence' = [txSequence EXCEPT ![e] = top]
      /\ UNCHANGED <<txAcknowledge, txFrame, rxSequence, rxBuffer, selackoffset, delivered, wire>>
  BY <1>1 DEF Enqueued
<1>4. /\ len \in Nat \ {0} /\ len >= DefaultBuffer
      /\ top \in Nat /\ txSequence[e] < top /\ top - txAcknowledge[e] <= len
      /\ top <= Len(Stream[e])
  BY <1>1 DEF Enqueued
<1>7. new \in [0 .. len - 1 -> Slot] BY <1>1 DEF Enqueued
<1>8. \A i \in txSequence[e] .. top - 1 :
        new[i % len].data = Stream[e][i + 1] /\ new[i % len].ack = -1
  BY <1>1 DEF Enqueued
<1>9. \A i \in txAcknowledge[e] .. txSequence[e] - 1 : new[i % len] = TxSlot(e, i)
  BY <1>1 DEF Enqueued
<1>10. \A f \in End : f # e =>
         /\ txSequence'[f] = txSequence[f] /\ txBufferlen'[f] = txBufferlen[f]
         /\ txBuffer'[f] = txBuffer[f]
  BY <1>3 DEF IInv, TypeOK
<1>11. txSequence'[e] = top /\ txBufferlen'[e] = len /\ txBuffer'[e] = new
  BY <1>3 DEF IInv, TypeOK
<1>12. \A f \in End : txSequence[f] <= txSequence'[f] /\ txSequence'[f] \in Nat
  <2> SUFFICES ASSUME NEW f \in End PROVE txSequence[f] <= txSequence'[f] /\ txSequence'[f] \in Nat
    OBVIOUS
  <2>1. CASE f = e BY <2>1, <1>2, <1>4, <1>11
  <2>2. CASE f # e BY <2>2, <1>10, OwnCounters
  <2> QED BY <2>1, <2>2
<1>13. TypeOK' BY <1>3, <1>4, <1>7, <1>10, <1>11 DEF IInv, TypeOK
<1>14. Counters'
  <2> SUFFICES ASSUME NEW f \in End
               PROVE  /\ txAcknowledge[f] <= rxSequence[Peer(f)]
                      /\ rxSequence[Peer(f)] <= txSequence'[f]
                      /\ rxSequence[Peer(f)] <= txAcknowledge[f] + TxWindow
                      /\ txSequence'[f] <= Len(Stream[f])
                      /\ txSequence'[f] - txAcknowledge[f] <= txBufferlen'[f]
                      /\ txFrame[f] < txAcknowledge[f] + TxWindow
                      /\ txBufferlen'[f] >= DefaultBuffer
    BY <1>3 DEF Counters
  <2>1. rxSequence[Peer(f)] \in Nat /\ txSequence[f] \in Nat BY Ends DEF IInv, TypeOK
  <2>2. CASE f = e BY <2>1, <2>2, <1>3, <1>4, <1>11, <1>12 DEF IInv, Counters
  <2>3. CASE f # e BY <2>3, <1>10 DEF IInv, Counters
  <2> QED BY <2>2, <2>3
<1>15. \A f \in End, i \in Nat : Arrived(f, i)' <=> Arrived(f, i)
  BY <1>3 DEF Arrived, Holds, RxSlot
<1>16. TransmitRing'
  <2> SUFFICES ASSUME NEW f \in End, NEW i \in txAcknowledge[f] .. txSequence'[f] - 1
               PROVE  /\ TxSlot(f, i)'.data = Stream[f][i + 1]
                      /\ TxSlot(f, i)'.ack \in {-1, i}
                      /\ TxSlot(f, i)'.ack = i => Arrived(Peer(f), i)'
    BY <1>3 DEF TransmitRing
  <2>0. txAcknowledge[f] \in Nat /\ txSequence'[f] \in Nat BY <1>12, OwnCounters
  <2>1. i \in Nat /\ Peer(f) \in End BY <2>0, Ends
  <2>2. CASE f # e
    <3>1. TxSlot(f, i)' = TxSlot(f, i) BY <2>2, <1>10 DEF TxSlot
    <3> QED BY <3>1, <2>1, <2>2, <1>10, <1>15 DEF IInv, TransmitRing
  <2>3. CASE f = e /\ i < txSequence[e]
    <3>1. TxSlot(e, i)' = TxSlot(e, i) BY <2>3, <1>3, <1>2, <1>9, <1>11 DEF TxSlot
    <3> QED BY <3>1, <2>1, <2>3, <1>2, <1>15 DEF IInv, TransmitRing
  <2>4. CASE f = e /\ i >= txSequence[e]
    <3>1. i \in txSequence[e] .. top - 1 BY <2>4, <2>1, <1>2, <1>4, <1>11
    <3>2. TxSlot(e, i)' = new[i % len] BY <2>4, <1>11 DEF TxSlot
    <3> QED BY <3>1, <3>2, <2>1, <2>4, <1>8
  <2> QED BY <2>1, <2>2, <2>3, <2>4, <1>2
<1>17. ReceiveRing'
  <2> SUFFICES ASSUME NEW f \in End, NEW s \in 0 .. DefaultBuffer - 1, rxBuffer[f][s].ack # -1
               PROVE  rxBuffer[f][s].ack < txSequence'[Peer(f)]
    BY <1>3 DEF IInv, ReceiveRing
  <2>1. rxBuffer[f][s].ack \in Nat /\ rxBuffer[f][s].ack < txSequence[Peer(f)]
    BY DEF IInv, ReceiveRing
  <2>2. Peer(f) \in End /\ txSequence[Peer(f)] \in Nat
    <3>1. txSequence \in [End -> Nat] BY DEF IInv, TypeOK
    <3> QED BY ONLY <3>1, Ends
  <2> QED BY <2>1, <2>2, <1>12
<1>18. WirePackets'
  <2> SUFFICES ASSUME NEW f \in End, NEW p \in wire[f]
               PROVE  /\ p.seq # -1 => p.seq < txSequence'[Peer(f)]
                      /\ \A o \in p.sack : Arrived(Peer(f), p.ack + o)'
    BY <1>3 DEF IInv, WirePackets
  <2>1. Peer(f) \in End /\ txSequence[Peer(f)] \in Nat BY Ends DEF IInv, TypeOK
  <2>2. p \in PacketType BY DEF IInv, TypeOK
  <2>3. p.seq # -1 => p.seq < txSequence'[Peer(f)]
    BY <2>1, <2>2, <1>12 DEF IInv, WirePackets, PacketType
  <2>4. ASSUME NEW o \in p.sack PROVE Arrived(Peer(f), p.ack + o)'
    <3>1. p.ack + o \in Nat BY <2>2 DEF PacketType
    <3>2. Arrived(Peer(f), p.ack + o) BY DEF IInv, WirePackets
    <3> QED BY <3>1, <3>2, <2>1, <1>15
  <2> QED BY <2>3, <2>4
<1>19. StreamIntegrity' BY <1>3 DEF IInv, StreamIntegrity
<1> QED BY <1>13, <1>14, <1>16, <1>17, <1>18, <1>19 DEF IInv

\* The turn of a round is inside the window, before and after it is taken.
LEMMA TurnInWindow ==
  ASSUME IInv, NEW e \in End
  PROVE  /\ Turn(e) \in Nat /\ txAcknowledge[e] <= Turn(e)
         /\ Turn(e) < txAcknowledge[e] + TxWindow
         /\ TurnAfter(e, Turn(e)) \in Nat
         /\ TurnAfter(e, Turn(e)) < txAcknowledge[e] + TxWindow
<1>1. txFrame[e] < txAcknowledge[e] + TxWindow BY DEF IInv, Counters
<1>2. /\ Turn(e) \in Nat /\ txAcknowledge[e] <= Turn(e) /\ Turn(e) < txAcknowledge[e] + TxWindow
  BY <1>1, OwnCounters, Sizes DEF Turn
<1> QED BY <1>2, OwnCounters, Sizes DEF TurnAfter

\* A step that changes at most the turn, the selackoffset and the wire keeps the
\* invariant if what is new on the wire is a truthful packet.
LEMMA WireStepKeeps ==
  ASSUME IInv, NEW e \in End,
         UNCHANGED <<txSequence, txAcknowledge, txBuffer, txBufferlen, rxSequence, rxBuffer, delivered>>,
         txFrame' \in [End -> Nat],
         \A f \in End : txFrame'[f] < txAcknowledge[f] + TxWindow,
         selackoffset' \in [End -> {0, 1}],
         wire' \in [End -> SUBSET PacketType],
         \A f \in End : \A p \in wire'[f] :
            \/ p \in wire[f]
            \/ /\ p.ack <= rxSequence[Peer(f)]
               /\ p.seq # -1 => /\ p.seq < txSequence[Peer(f)]
                                /\ p.seq < txAcknowledge[Peer(f)] + TxWindow
                                /\ p.data = Stream[Peer(f)][p.seq + 1]
               /\ \A o \in p.sack : o < RxWindow /\ Arrived(Peer(f), p.ack + o)
  PROVE  IInv'
<1>1. TypeOK' BY DEF IInv, TypeOK
<1>2. Counters' BY DEF IInv, Counters
<1>3. \A f \in End : \A i : Arrived(f, i)' <=> Arrived(f, i) BY DEF Arrived, Holds, RxSlot
<1>4. TransmitRing' 
  <2>1. \A f \in End : \A i : TxSlot(f, i)' = TxSlot(f, i) BY DEF TxSlot
  <2> QED BY <2>1, <1>3, Ends DEF IInv, TransmitRing
<1>5. ReceiveRing' BY DEF IInv, ReceiveRing
<1>6. WirePackets'
  <2> SUFFICES ASSUME NEW f \in End, NEW p \in wire'[f]
               PROVE  /\ p.ack <= rxSequence[Peer(f)]
                      /\ p.seq # -1 => /\ p.seq < txSequence[Peer(f)]
                                       /\ p.seq < txAcknowledge[Peer(f)] + TxWindow
                                       /\ p.data = Stream[Peer(f)][p.seq + 1]
                      /\ \A o \in p.sack : o < RxWindow /\ Arrived(Peer(f), p.ack + o)
    BY <1>3, Ends DEF WirePackets
  <2>1. CASE p \in wire[f] BY <2>1 DEF IInv, WirePackets
  <2>2. CASE p \notin wire[f] BY <2>2
  <2> QED BY <2>1, <2>2
<1>7. StreamIntegrity' BY DEF IInv, StreamIntegrity
<1> QED BY <1>1, <1>2, <1>4, <1>5, <1>6, <1>7 DEF IInv

\* What Put leaves in flight: some of what was, and the new packet.
LEMMA PutWire ==
  ASSUME NEW f \in End, NEW packet \in PacketType, wire \in [End -> SUBSET PacketType],
         Put(f, packet)
  PROVE  /\ wire' \in [End -> SUBSET PacketType]
         /\ \A g \in End : \A p \in wire'[g] : p \in wire[g] \/ (g = f /\ p = packet)
<1>1. PICK kept \in SUBSET wire[f] : wire' = [wire EXCEPT ![f] = kept \cup {packet}]
  <2>1. CASE Cardinality(wire[f]) < WireCap
    <3>1. wire' = [wire EXCEPT ![f] = wire[f] \cup {packet}] BY <2>1 DEF Put
    <3> QED BY <3>1
  <2>2. CASE ~(Cardinality(wire[f]) < WireCap)
    <3>1. PICK lost \in wire[f] : wire' = [wire EXCEPT ![f] = (wire[f] \ {lost}) \cup {packet}]
      BY <2>2 DEF Put
    <3>2. wire[f] \ {lost} \in SUBSET wire[f] OBVIOUS
    <3> QED BY <3>1, <3>2
  <2> QED BY <2>1, <2>2
<1> QED BY <1>1

\* What a packet of e says is true as it is sent, whatever fragment it carries.
LEMMA PacketTruthful ==
  ASSUME IInv, NEW e \in End, NEW seq \in Nat \cup {-1}, NEW data \in Data
  PROVE  LET p == Packet(e, seq, data) IN
         /\ p \in PacketType
         /\ p.seq = seq /\ p.data = data /\ p.ack <= rxSequence[e]
         /\ \A o \in p.sack : o < RxWindow /\ Arrived(e, p.ack + o)
<1>1. rxSequence[e] \in Nat /\ selackoffset[e] \in {0, 1} BY DEF IInv, TypeOK
<1>2. \A o \in SelectiveAcklist(e) : o \in Nat /\ o < RxWindow /\ Holds(e, rxSequence[e] + o)
  BY <1>1, Sizes DEF SelectiveAcklist
<1>3. SelectiveAcklist(e) \in SUBSET Nat BY <1>2
<1> QED BY <1>1, <1>2, <1>3 DEF Packet, PacketType, Arrived

\* Transmitting a fragment keeps it: the packet is one of the stream.
LEMMA TransmitFragmentKeeps ==
  ASSUME IInv, NEW e \in End, TransmitFragment(e)
  PROVE  IInv'
<1> DEFINE i == Turn(e)
<1> DEFINE packet == Packet(e, i, TxSlot(e, i).data)
<1>1. Peer(e) \in End /\ Peer(Peer(e)) = e BY Ends
<1>2. /\ i < txSequence[e]
      /\ Put(Peer(e), packet)
      /\ selackoffset' = [selackoffset EXCEPT ![e] = 1]
      /\ txFrame' = [txFrame EXCEPT ![e] = TurnAfter(e, i)]
      /\ UNCHANGED <<txSequence, txAcknowledge, txBuffer, txBufferlen, rxSequence, rxBuffer, delivered>>
  BY DEF TransmitFragment, Unsent
<1>3. /\ i \in Nat /\ txAcknowledge[e] <= i /\ i < txAcknowledge[e] + TxWindow
      /\ TurnAfter(e, i) \in Nat /\ TurnAfter(e, i) < txAcknowledge[e] + TxWindow
  BY TurnInWindow
<1> HIDE DEF i
<1>4. i \in txAcknowledge[e] .. txSequence[e] - 1 BY <1>2, <1>3, OwnCounters
<1>5. TxSlot(e, i).data = Stream[e][i + 1] /\ TxSlot(e, i).data \in Data
  <2>1. TxSlot(e, i).data = Stream[e][i + 1] BY <1>4 DEF IInv, TransmitRing
  <2>2. TxSlot(e, i) \in Slot BY <1>4, OutstandingSlot
  <2> QED BY <2>1, <2>2 DEF Slot
<1>6. /\ packet \in PacketType
      /\ packet.seq = i /\ packet.data = Stream[e][i + 1] /\ packet.ack <= rxSequence[e]
      /\ \A o \in packet.sack : o < RxWindow /\ Arrived(e, packet.ack + o)
  BY <1>3, <1>5, PacketTruthful
<1> HIDE DEF packet
<1>7. /\ wire' \in [End -> SUBSET PacketType]
      /\ \A g \in End : \A p \in wire'[g] : p \in wire[g] \/ (g = Peer(e) /\ p = packet)
  BY <1>1, <1>2, <1>6, PutWire DEF IInv, TypeOK
<1>8. txFrame' \in [End -> Nat] /\ \A f \in End : txFrame'[f] < txAcknowledge[f] + TxWindow
  BY <1>2, <1>3 DEF IInv, TypeOK, Counters
<1>9. selackoffset' \in [End -> {0, 1}] BY <1>2 DEF IInv, TypeOK
<1>10. \A f \in End : \A p \in wire'[f] :
         \/ p \in wire[f]
         \/ /\ p.ack <= rxSequence[Peer(f)]
            /\ p.seq # -1 => /\ p.seq < txSequence[Peer(f)]
                             /\ p.seq < txAcknowledge[Peer(f)] + TxWindow
                             /\ p.data = Stream[Peer(f)][p.seq + 1]
            /\ \A o \in p.sack : o < RxWindow /\ Arrived(Peer(f), p.ack + o)
  BY <1>1, <1>2, <1>3, <1>6, <1>7
<1> QED BY <1>2, <1>7, <1>8, <1>9, <1>10, WireStepKeeps

\* So does going past a fragment that has arrived.
LEMMA SkipFragmentKeeps ==
  ASSUME IInv, NEW e \in End, SkipFragment(e)
  PROVE  IInv'
<1>1. /\ txFrame' = [txFrame EXCEPT ![e] = TurnAfter(e, Turn(e))]
      /\ UNCHANGED <<txSequence, txAcknowledge, txBuffer, txBufferlen,
                     rxSequence, rxBuffer, selackoffset, delivered, wire>>
  BY DEF SkipFragment, rxVars
<1>2. TurnAfter(e, Turn(e)) \in Nat /\ TurnAfter(e, Turn(e)) < txAcknowledge[e] + TxWindow
  BY TurnInWindow
<1>3. txFrame' \in [End -> Nat] /\ \A f \in End : txFrame'[f] < txAcknowledge[f] + TxWindow
  BY <1>1, <1>2 DEF IInv, TypeOK, Counters
<1>4. selackoffset' \in [End -> {0, 1}] /\ wire' \in [End -> SUBSET PacketType]
  BY <1>1 DEF IInv, TypeOK
<1>5. \A f \in End : \A p \in wire'[f] : p \in wire[f] BY <1>1
<1> QED BY <1>1, <1>3, <1>4, <1>5, WireStepKeeps

\* So does a packet without a fragment.
LEMMA TransmitAcknowledgeKeeps ==
  ASSUME IInv, NEW e \in End, TransmitAcknowledge(e)
  PROVE  IInv'
<1> DEFINE packet == Packet(e, -1, Garbage)
<1>1. Peer(e) \in End /\ Peer(Peer(e)) = e BY Ends
<1>2. /\ Put(Peer(e), packet)
      /\ selackoffset' = [selackoffset EXCEPT ![e] = 1]
      /\ UNCHANGED <<txSequence, txAcknowledge, txFrame, txBuffer, txBufferlen,
                     rxSequence, rxBuffer, delivered>>
  BY DEF TransmitAcknowledge, txVars
<1>3. /\ packet \in PacketType
      /\ packet.seq = -1 /\ packet.ack <= rxSequence[e]
      /\ \A o \in packet.sack : o < RxWindow /\ Arrived(e, packet.ack + o)
  <2>1. Garbage \in Data BY DEF Data
  <2> QED BY <2>1, PacketTruthful
<1> HIDE DEF packet
<1>4. /\ wire' \in [End -> SUBSET PacketType]
      /\ \A g \in End : \A p \in wire'[g] : p \in wire[g] \/ (g = Peer(e) /\ p = packet)
  BY <1>1, <1>2, <1>3, PutWire DEF IInv, TypeOK
<1>5. txFrame' \in [End -> Nat] /\ \A f \in End : txFrame'[f] < txAcknowledge[f] + TxWindow
  BY <1>2 DEF IInv, TypeOK, Counters
<1>6. selackoffset' \in [End -> {0, 1}] BY <1>2 DEF IInv, TypeOK
<1>7. \A f \in End : \A p \in wire'[f] :
         \/ p \in wire[f]
         \/ /\ p.ack <= rxSequence[Peer(f)]
            /\ p.seq # -1 => /\ p.seq < txSequence[Peer(f)]
                             /\ p.seq < txAcknowledge[Peer(f)] + TxWindow
                             /\ p.data = Stream[Peer(f)][p.seq + 1]
            /\ \A o \in p.sack : o < RxWindow /\ Arrived(Peer(f), p.ack + o)
  BY <1>1, <1>3, <1>4
<1> QED BY <1>2, <1>4, <1>5, <1>6, <1>7, WireStepKeeps

\* Handing out what follows moves the end of the delivered stream to top.
LEMMA DeliverKeeps ==
  ASSUME IInv, NEW e \in End, Deliver(e)
  PROVE  IInv'
<1>1. PICK top \in rxSequence[e] + 1 .. rxSequence[e] + RxWindow :
        /\ \A i \in rxSequence[e] .. top - 1 : Holds(e, i)
        /\ rxSequence' = [rxSequence EXCEPT ![e] = top]
        /\ delivered' = [delivered EXCEPT ![e] = delivered[e] \o
             [k \in 1 .. top - rxSequence[e] |-> RxSlot(e, rxSequence[e] + k - 1).data]]
        /\ UNCHANGED selackoffset \/ selackoffset' = [selackoffset EXCEPT ![e] = 1]
        /\ UNCHANGED <<txSequence, txAcknowledge, txFrame, txBuffer, txBufferlen, rxBuffer, wire>>
  BY DEF Deliver, txVars
<1> DEFINE q == Peer(e)
<1> DEFINE rx == rxSequence[e]
<1>2. q \in End /\ Peer(q) = e /\ q # e BY Ends
<1>3. /\ rx \in Nat /\ top \in Nat /\ rx < top
      /\ txSequence[q] \in Nat /\ txAcknowledge[q] \in Nat /\ txSequence[q] <= Len(Stream[q])
  BY <1>1, <1>2, OwnCounters, Sizes
<1>4. top <= txSequence[q] /\ top <= txAcknowledge[q] + TxWindow
  <2>1. top - 1 \in Nat /\ Holds(e, top - 1) BY <1>1, <1>3
  <2>2. Arrived(e, top - 1) BY <2>1 DEF Arrived
  <2>3. top - 1 < txSequence[q] /\ top - 1 < txAcknowledge[q] + TxWindow
    BY <2>1, <2>2, ArrivedBounds
  <2> QED BY <2>3, <1>3, Sizes
<1>5. delivered[e] = SubSeq(Stream[q], 1, rx) BY DEF IInv, StreamIntegrity
<1>6. delivered'[e] = SubSeq(Stream[q], 1, top)
  <2> DEFINE more == [k \in 1 .. top - rx |-> RxSlot(e, rx + k - 1).data]
  <2>1. more = SubSeq(Stream[q], rx + 1, top)
    <3>1. \A k \in 1 .. top - rx : more[k] = Stream[q][rx + k]
      <4> SUFFICES ASSUME NEW k \in 1 .. top - rx PROVE RxSlot(e, rx + k - 1).data = Stream[q][rx + k]
        OBVIOUS
      <4>1. rx + k - 1 \in rx .. top - 1 /\ rx + k - 1 \in Nat /\ rx + k - 1 + 1 = rx + k BY <1>3
      <4>2. Holds(e, rx + k - 1) BY <4>1, <1>1
      <4>3. RxSlot(e, rx + k - 1).data = Stream[q][rx + k - 1 + 1] BY <4>1, <4>2, HeldContents
      <4> QED BY <4>1, <4>3
    <3>2. \A k \in 1 .. top - rx : Stream[q][rx + k] \in Payload
      <4> SUFFICES ASSUME NEW k \in 1 .. top - rx PROVE Stream[q][rx + k] \in Payload
        OBVIOUS
      <4>1. Len(Stream[q]) \in Nat BY <1>2, Sizes
      <4>2. rx + k \in Nat /\ 1 <= rx + k /\ rx + k <= top BY <1>3
      <4>3. rx + k \in 1 .. Len(Stream[q]) BY <4>1, <4>2, <1>3, <1>4
      <4> QED BY <4>3, <1>2, StreamMember
    <3>3. top - rx \in Nat BY <1>3
    <3> HIDE DEF rx
    <3>4. more \in Seq(Payload) /\ Len(more) = top - rx
      <4>1. more \in [1 .. top - rx -> Payload] BY <3>1, <3>2
      <4>2. DOMAIN more = 1 .. top - rx BY DEF more
      <4> HIDE DEF more
      <4>3. more \in Seq(Payload) BY <4>1, <3>3
      <4>4. Len(more) \in Nat /\ DOMAIN more = 1 .. Len(more) BY <4>3, LenProperties
      <4> QED BY <4>3, <4>4, <4>2, <3>3
    <3> HIDE DEF more
    <3>5. Stream[q] \in Seq(Payload) /\ rx + 1 \in 1 .. Len(Stream[q]) + 1 /\ top \in 0 .. Len(Stream[q])
      BY <1>2, <1>3, <1>4, Sizes
    <3>6. /\ SubSeq(Stream[q], rx + 1, top) \in Seq(Payload)
          /\ Len(SubSeq(Stream[q], rx + 1, top)) = top - rx
          /\ \A k \in 1 .. top - rx : SubSeq(Stream[q], rx + 1, top)[k] = Stream[q][rx + k]
      BY <3>5, <1>3
    <3>7. \A k \in 1 .. Len(more) : more[k] = SubSeq(Stream[q], rx + 1, top)[k]
      BY <3>1, <3>4, <3>6
    <3> QED BY <3>4, <3>6, <3>7, SeqEqual
  <2> HIDE DEF more
  <2>2. delivered'[e] = delivered[e] \o more BY <1>1 DEF IInv, TypeOK, more
  <2>3. Stream[q] \in Seq(Payload) /\ Len(Stream[q]) \in Nat BY <1>2, Sizes
  <2>4. SubSeq(Stream[q], 1, rx) \o SubSeq(Stream[q], rx + 1, top) = SubSeq(Stream[q], 1, top)
    <3>1. 1 \in 1 .. Len(Stream[q]) + 1 /\ rx \in 1 - 1 .. Len(Stream[q]) /\ top \in rx .. Len(Stream[q])
      BY <1>3, <1>4, <2>3
    <3> HIDE DEF rx, q
    <3> QED BY <3>1, <2>3, ConcatAdjacentSubSeq
  <2> QED BY <1>5, <2>1, <2>2, <2>4
<1>7. SubSeq(Stream[q], 1, top) \in Seq(Payload)
  <2>1. Stream[q] \in Seq(Payload) /\ top \in 0 .. Len(Stream[q]) BY <1>2, <1>3, <1>4, Sizes
  <2> QED BY <2>1
<1> HIDE DEF q
<1>8. TypeOK'
  <2>1. delivered' \in [End -> Seq(Payload)] BY <1>1, <1>6, <1>7 DEF IInv, TypeOK
  <2>2. selackoffset' \in [End -> {0, 1}] BY <1>1 DEF IInv, TypeOK
  <2>3. rxSequence' \in [End -> Nat] BY <1>1, <1>3 DEF IInv, TypeOK
  <2> QED BY <1>1, <2>1, <2>2, <2>3 DEF IInv, TypeOK
<1>9. rxSequence'[e] = top /\ \A f \in End : f # e => rxSequence'[f] = rxSequence[f]
  BY <1>1 DEF IInv, TypeOK
<1>20. \A f \in End : /\ rxSequence[f] \in Nat /\ rxSequence'[f] \in Nat
                     /\ rxSequence[f] <= rxSequence'[f]
  <2> SUFFICES ASSUME NEW f \in End
               PROVE  /\ rxSequence[f] \in Nat /\ rxSequence'[f] \in Nat
                      /\ rxSequence[f] <= rxSequence'[f]
    OBVIOUS
  <2>1. CASE f = e BY <2>1, <1>3, <1>9
  <2>2. CASE f # e BY <2>2, <1>9, OwnCounters
  <2> QED BY <2>1, <2>2
<1>10. Counters'
  <2> SUFFICES ASSUME NEW f \in End
               PROVE  /\ txAcknowledge[f] <= rxSequence'[Peer(f)]
                      /\ rxSequence'[Peer(f)] <= txSequence[f]
                      /\ rxSequence'[Peer(f)] <= txAcknowledge[f] + TxWindow
    BY <1>1 DEF IInv, Counters
  <2>1. CASE f = q
    <3>1. txAcknowledge[q] <= rx BY <1>2 DEF IInv, Counters
    <3> QED BY <3>1, <2>1, <1>2, <1>3, <1>4, <1>9
  <2>2. CASE f # q
    <3>1. f = e BY <2>2, Ends DEF q
    <3>2. Peer(f) \in End /\ Peer(f) # e BY <3>1, Ends
    <3> QED BY <3>2, <1>9 DEF IInv, Counters
  <2> QED BY <2>1, <2>2
<1>11. \A f \in End : \A i \in Nat : Arrived(f, i) => Arrived(f, i)'
  <2> SUFFICES ASSUME NEW f \in End, NEW i \in Nat, Arrived(f, i) PROVE Arrived(f, i)'
    OBVIOUS
  <2>1. Holds(f, i)' <=> Holds(f, i) BY <1>1 DEF Holds, RxSlot
  <2>2. rxSequence[f] <= rxSequence'[f] /\ rxSequence[f] \in Nat /\ rxSequence'[f] \in Nat
    BY <1>20
  <2> QED BY <2>1, <2>2 DEF Arrived
<1>12. TransmitRing'
  <2> SUFFICES ASSUME NEW f \in End, NEW i \in txAcknowledge[f] .. txSequence[f] - 1
               PROVE  /\ TxSlot(f, i).data = Stream[f][i + 1]
                      /\ TxSlot(f, i).ack \in {-1, i}
                      /\ TxSlot(f, i).ack = i => Arrived(Peer(f), i)'
    BY <1>1 DEF TransmitRing, TxSlot
  <2>1. i \in Nat /\ Peer(f) \in End BY OwnCounters, Ends
  <2> QED BY <2>1, <1>11 DEF IInv, TransmitRing
<1>13. ReceiveRing'
  <2> SUFFICES ASSUME NEW f \in End, NEW s \in 0 .. DefaultBuffer - 1, rxBuffer[f][s].ack # -1
               PROVE  rxBuffer[f][s].ack < rxSequence'[f] + RxWindow
    BY <1>1 DEF IInv, ReceiveRing
  <2>1. rxBuffer[f][s].ack \in Nat /\ rxBuffer[f][s].ack < rxSequence[f] + RxWindow
    BY DEF IInv, ReceiveRing
  <2>2. rxSequence[f] <= rxSequence'[f] /\ rxSequence[f] \in Nat /\ rxSequence'[f] \in Nat
    BY <1>20
  <2>3. RxWindow \in Nat BY Sizes
  <2> DEFINE n == rxBuffer[f][s].ack
  <2> HIDE DEF n
  <2>4. n < rxSequence'[f] + RxWindow
    <3>1. n \in Nat /\ n < rxSequence[f] + RxWindow BY <2>1 DEF n
    <3> QED BY <3>1, <2>2, <2>3
  <2> QED BY <2>4 DEF n
<1>14. WirePackets'
  <2> SUFFICES ASSUME NEW f \in End, NEW p \in wire[f]
               PROVE  /\ p.ack <= rxSequence'[Peer(f)]
                      /\ \A o \in p.sack : Arrived(Peer(f), p.ack + o)'
    BY <1>1 DEF IInv, WirePackets
  <2>1. p \in PacketType /\ Peer(f) \in End BY Ends DEF IInv, TypeOK
  <2>2. p.ack <= rxSequence'[Peer(f)]
    <3>1. p.ack \in Nat /\ p.ack <= rxSequence[Peer(f)] BY <2>1 DEF IInv, WirePackets, PacketType
    <3>2. rxSequence[Peer(f)] <= rxSequence'[Peer(f)]
          /\ rxSequence[Peer(f)] \in Nat /\ rxSequence'[Peer(f)] \in Nat
      BY <2>1, <1>20
    <3> QED BY <3>1, <3>2
  <2>3. ASSUME NEW o \in p.sack PROVE Arrived(Peer(f), p.ack + o)'
    <3>1. p.ack + o \in Nat BY <2>1 DEF PacketType
    <3>2. Arrived(Peer(f), p.ack + o) BY DEF IInv, WirePackets
    <3> QED BY <3>1, <3>2, <2>1, <1>11
  <2> QED BY <2>2, <2>3
<1>15. StreamIntegrity'
  <2> SUFFICES ASSUME NEW f \in End PROVE delivered'[f] = SubSeq(Stream[Peer(f)], 1, rxSequence'[f])
    BY DEF StreamIntegrity
  <2>1. CASE f = e BY <2>1, <1>6, <1>9 DEF q
  <2>2. CASE f # e
    <3>1. delivered'[f] = delivered[f] BY <2>2, <1>1 DEF IInv, TypeOK
    <3> QED BY <3>1, <2>2, <1>9 DEF IInv, StreamIntegrity
  <2> QED BY <2>1, <2>2
<1> QED BY <1>8, <1>10, <1>12, <1>13, <1>14, <1>15 DEF IInv

\* Entering the selective acknowledges of a packet changes no contents, and
\* marks among the outstanding fragments those it names, which have arrived.
LEMMA MarkedKeeps ==
  ASSUME IInv, NEW e \in End, NEW p \in wire[e], Accepts(e, p)
  PROVE  /\ Marked(e, p) \in [0 .. txBufferlen[e] - 1 -> Slot]
         /\ \A i \in p.ack .. txSequence[e] - 1 :
              LET m == Marked(e, p)[i % txBufferlen[e]] IN
              /\ m.data = Stream[e][i + 1]
              /\ m.ack \in {-1, i}
              /\ m.ack = i => Arrived(Peer(e), i)
              /\ m.ack = i <=> TxSlot(e, i).ack = i \/ \E o \in p.sack : p.ack + o = i
<1> DEFINE len == txBufferlen[e]
<1> DEFINE q == Peer(e)
<1>1. q \in End /\ Peer(q) = e BY Ends
<1>2. p \in PacketType /\ p.ack \in Nat /\ p.sack \in SUBSET Nat BY DEF IInv, TypeOK, PacketType
<1>3. /\ len \in Nat \ {0} /\ txSequence[e] \in Nat /\ txAcknowledge[e] \in Nat
      /\ txSequence[e] - txAcknowledge[e] <= len
      /\ txBuffer[e] \in [0 .. len - 1 -> Slot]
      /\ txAcknowledge[e] <= p.ack
  BY OwnCounters DEF Accepts
<1>4. \A o \in p.sack : /\ p.ack + o \in Nat /\ Arrived(q, p.ack + o)
                        /\ p.ack + o < txSequence[e]
  <2> SUFFICES ASSUME NEW o \in p.sack
               PROVE  p.ack + o \in Nat /\ Arrived(q, p.ack + o) /\ p.ack + o < txSequence[e]
    OBVIOUS
  <2>1. p.ack + o \in Nat BY <1>2
  <2>2. Arrived(q, p.ack + o) BY DEF IInv, WirePackets
  <2> QED BY <2>1, <2>2, <1>1, ArrivedBounds
<1> HIDE DEF len, q
<1>5. Marked(e, p) \in [0 .. len - 1 -> Slot]
  <2> SUFFICES ASSUME NEW s \in 0 .. len - 1
               PROVE  (IF \E o \in p.sack : (p.ack + o) % len = s
                         THEN [txBuffer[e][s] EXCEPT !.ack =
                                 p.ack + (CHOOSE o \in p.sack : (p.ack + o) % len = s)]
                         ELSE txBuffer[e][s]) \in Slot
    BY DEF Marked, len
  <2>1. txBuffer[e][s] \in Slot BY <1>3
  <2>2. CASE \E o \in p.sack : (p.ack + o) % len = s
    <3> DEFINE c == CHOOSE o \in p.sack : (p.ack + o) % len = s
    <3>1. c \in p.sack BY <2>2
    <3> HIDE DEF c
    <3>2. p.ack + c \in Nat BY <3>1, <1>2
    <3>3. [txBuffer[e][s] EXCEPT !.ack = p.ack + c] \in Slot BY <3>2, <2>1 DEF Slot
    <3> QED BY <3>3, <2>2 DEF c
  <2> QED BY <2>1, <2>2
<1>6. ASSUME NEW i \in p.ack .. txSequence[e] - 1
      PROVE  /\ Marked(e, p)[i % len].data = Stream[e][i + 1]
             /\ Marked(e, p)[i % len].ack \in {-1, i}
             /\ Marked(e, p)[i % len].ack = i => Arrived(q, i)
             /\ Marked(e, p)[i % len].ack = i
                  <=> TxSlot(e, i).ack = i \/ \E o \in p.sack : p.ack + o = i
  <2> DEFINE s == i % len
  <2>1. i \in Nat /\ i \in txAcknowledge[e] .. txSequence[e] - 1 BY <1>2, <1>3
  <2>2. s \in 0 .. len - 1 BY <2>1, <1>3, DivMod
  <2>3. /\ txBuffer[e][s].data = Stream[e][i + 1]
        /\ txBuffer[e][s].ack \in {-1, i}
        /\ txBuffer[e][s].ack = i => Arrived(q, i)
    BY <2>1 DEF IInv, TransmitRing, TxSlot, len, q
  <2>4. txBuffer[e][s] \in Slot BY <2>2, <1>3
  <2>5. CASE \E o \in p.sack : (p.ack + o) % len = s
    <3> DEFINE c == CHOOSE o \in p.sack : (p.ack + o) % len = s
    <3>1. c \in p.sack /\ (p.ack + c) % len = s BY <2>5
    <3>2. Marked(e, p)[s] = [txBuffer[e][s] EXCEPT !.ack = p.ack + c]
      BY <2>2, <2>5 DEF Marked, len
    <3> HIDE DEF c
    <3>3. /\ p.ack + c \in Nat /\ Arrived(q, p.ack + c)
          /\ p.ack + c < txSequence[e] /\ p.ack <= p.ack + c
      BY <3>1, <1>2, <1>4
    <3>4. p.ack + c = i
      <4> DEFINE n == p.ack + c
      <4>1. n % len = i % len BY <3>1
      <4> HIDE DEF n
      <4>2. n \in Nat /\ p.ack <= n /\ n < txSequence[e] BY <3>3 DEF n
      <4>3. n < p.ack + len /\ p.ack <= i /\ i < p.ack + len BY <4>2, <2>1, <1>2, <1>3
      <4>4. n = i BY <4>1, <4>2, <4>3, <2>1, <1>2, <1>3, SamePlace
      <4> QED BY <4>4 DEF n
    <3>5. Marked(e, p)[s].data = txBuffer[e][s].data /\ Marked(e, p)[s].ack = i
      BY <3>2, <3>4, <2>4 DEF Slot
    <3> QED BY <3>1, <3>3, <3>4, <3>5, <2>3
  <2>6. CASE ~(\E o \in p.sack : (p.ack + o) % len = s)
    <3>1. Marked(e, p)[s] = txBuffer[e][s] BY <2>2, <2>6 DEF Marked, len
    <3>2. ~\E o \in p.sack : p.ack + o = i BY <2>6
    <3>3. TxSlot(e, i) = txBuffer[e][s] BY DEF TxSlot, len
    <3> QED BY <3>1, <3>2, <3>3, <2>3
  <2> QED BY <2>5, <2>6
<1> QED BY <1>5, <1>6 DEF len, q

\* Storing the fragment of an accepted packet makes nothing disappear that has
\* arrived: its place is free or already its own.
LEMMA StoreKeepsArrived ==
  ASSUME IInv, NEW e \in End, NEW p \in wire[e], Accepts(e, p), StoreFragment(e, p),
         rxSequence' = rxSequence, NEW f \in End, NEW i \in Nat, Arrived(f, i)
  PROVE  Arrived(f, i)'
<1>1. CASE i < rxSequence[f] BY <1>1 DEF Arrived
<1>2. CASE ~(i < rxSequence[f])
  <2>1. Holds(f, i) BY <1>2 DEF Arrived
  <2>2. i % DefaultBuffer \in 0 .. DefaultBuffer - 1 BY Sizes, DivMod
  <2>3. rxBuffer \in [End -> [0 .. DefaultBuffer - 1 -> Slot]] BY DEF IInv, TypeOK
  <2>4. CASE f = e /\ p.seq >= rxSequence[e] /\ p.seq % DefaultBuffer = i % DefaultBuffer
    <3>1. p.seq \in Nat /\ rxSequence[e] \in Nat
      BY <2>4, OwnCounters DEF IInv, TypeOK, PacketType
    <3>2. p.seq < rxSequence[e] + RxWindow BY DEF Accepts
    <3>3. i < rxSequence[e] + RxWindow BY <2>4, ArrivedBounds
    <3>4. /\ rxSequence[e] <= p.seq /\ p.seq < rxSequence[e] + DefaultBuffer
          /\ rxSequence[e] <= i /\ i < rxSequence[e] + DefaultBuffer
      BY <3>1, <3>2, <3>3, <2>4, <1>2, Sizes
    <3>5. p.seq = i BY <3>1, <3>4, <2>4, Sizes, SamePlace
    <3>6. rxBuffer'[e][i % DefaultBuffer].ack = i
      BY <3>5, <2>2, <2>3, <2>4 DEF StoreFragment
    <3> QED BY <3>6, <2>4 DEF Arrived, Holds, RxSlot
  <2>5. CASE ~(f = e /\ p.seq >= rxSequence[e] /\ p.seq % DefaultBuffer = i % DefaultBuffer)
    <3>1. rxBuffer'[f][i % DefaultBuffer] = rxBuffer[f][i % DefaultBuffer]
      BY <2>2, <2>3, <2>5 DEF StoreFragment
    <3> QED BY <3>1, <2>1 DEF Arrived, Holds, RxSlot
  <2> QED BY <2>4, <2>5
<1> QED BY <1>1, <1>2

\* Taking the acknowledges of p at e gives a ring new of len slots: what is still
\* outstanding keeps its contents and its mark, and what p names is marked.
Acknowledged(e, p, len, new) ==
  /\ len \in Nat \ {0} /\ len >= DefaultBuffer /\ new \in [0 .. len - 1 -> Slot]
  /\ txAcknowledge[e] <= p.ack /\ p.ack <= txSequence[e] /\ p.ack <= rxSequence[Peer(e)]
  /\ txSequence[e] - p.ack <= len
  /\ \A i \in p.ack .. txSequence[e] - 1 :
       /\ new[i % len].data = Stream[e][i + 1]
       /\ new[i % len].ack \in {-1, i}
       /\ new[i % len].ack = i => Arrived(Peer(e), i)
       /\ new[i % len].ack = i <=> TxSlot(e, i).ack = i \/ \E o \in p.sack : p.ack + o = i
  /\ txAcknowledge' = [txAcknowledge EXCEPT ![e] = p.ack]
  /\ txBufferlen' = [txBufferlen EXCEPT ![e] = len]
  /\ txBuffer' = [txBuffer EXCEPT ![e] = new]

\* ReliableMessagesReceiveNextFragment takes the acknowledges, whether it shrinks the
\* ring or not.
LEMMA ReceiveEffect ==
  ASSUME IInv, NEW e \in End, NEW p \in wire[e], NEW malloced \in BOOLEAN,
         Receive(e, p, malloced)
  PROVE  \E len, new : Acknowledged(e, p, len, new)
<1> DEFINE q == Peer(e)
<1> DEFINE marked == Marked(e, p)
<1> DEFINE shrinks == /\ txAcknowledge[e] < p.ack
                      /\ txSequence[e] - p.ack < DefaultBuffer
                      /\ txBufferlen[e] > DefaultBuffer
                      /\ malloced
<1> DEFINE len == IF shrinks THEN DefaultBuffer ELSE txBufferlen[e]
<1> DEFINE new == IF shrinks THEN Resized(e, marked, DefaultBuffer, p.ack) ELSE marked
<1>1. /\ Accepts(e, p) /\ StoreFragment(e, p)
      /\ txAcknowledge' = [txAcknowledge EXCEPT ![e] = p.ack]
      /\ txBufferlen' = [txBufferlen EXCEPT ![e] = len]
      /\ txBuffer' = [txBuffer EXCEPT ![e] = new]
      /\ UNCHANGED <<txSequence, txFrame, rxSequence, selackoffset, delivered, wire>>
  BY DEF Receive, TakeAcknowledge
<1>2. q \in End /\ Peer(q) = e /\ q # e BY Ends
<1>3. /\ txSequence[e] \in Nat /\ txAcknowledge[e] \in Nat /\ rxSequence[e] \in Nat
      /\ rxSequence[q] \in Nat /\ rxSequence[q] <= txAcknowledge[e] + TxWindow
      /\ txBufferlen[e] \in Nat \ {0} /\ txBufferlen[e] >= DefaultBuffer
      /\ txSequence[e] - txAcknowledge[e] <= txBufferlen[e]
  BY <1>2, OwnCounters DEF IInv, Counters
<1>4. /\ p \in PacketType /\ p.ack \in Nat /\ p.seq \in Nat \cup {-1}
      /\ txAcknowledge[e] <= p.ack /\ p.ack <= txSequence[e] /\ p.ack <= rxSequence[q]
  BY <1>1 DEF IInv, TypeOK, PacketType, Accepts, WirePackets
<1>5. /\ marked \in [0 .. txBufferlen[e] - 1 -> Slot]
      /\ \A i \in p.ack .. txSequence[e] - 1 :
           /\ marked[i % txBufferlen[e]].data = Stream[e][i + 1]
           /\ marked[i % txBufferlen[e]].ack \in {-1, i}
           /\ marked[i % txBufferlen[e]].ack = i => Arrived(q, i)
           /\ marked[i % txBufferlen[e]].ack = i
                <=> TxSlot(e, i).ack = i \/ \E o \in p.sack : p.ack + o = i
  BY <1>1, MarkedKeeps
<1> HIDE DEF marked
<1>6. /\ len \in Nat \ {0} /\ len >= DefaultBuffer
      /\ txSequence[e] - p.ack <= len
      /\ new \in [0 .. len - 1 -> Slot]
      /\ \A i \in p.ack .. txSequence[e] - 1 : new[i % len] = marked[i % txBufferlen[e]]
  <2>1. CASE shrinks
    <3>1. len = DefaultBuffer /\ new = Resized(e, marked, DefaultBuffer, p.ack) BY <2>1
    <3>2. txSequence[e] - p.ack <= DefaultBuffer BY <2>1, <1>3, <1>4, Sizes
    <3> HIDE DEF len, new, shrinks, q
    <3> DEFINE low == p.ack
    <3>3. /\ low \in Nat /\ txSequence[e] \in Nat /\ txSequence[e] - low <= DefaultBuffer
          /\ DefaultBuffer \in Nat \ {0} /\ txBufferlen[e] \in Nat \ {0}
          /\ marked \in [0 .. txBufferlen[e] - 1 -> Slot]
      BY <3>2, <1>3, <1>4, <1>5, Sizes
    <3> HIDE DEF low
    <3>4. /\ Resized(e, marked, DefaultBuffer, low) \in [0 .. DefaultBuffer - 1 -> Slot]
          /\ CarriedOver(Resized(e, marked, DefaultBuffer, low), DefaultBuffer,
                         marked, txBufferlen[e], low, txSequence[e])
      BY <3>3, ResizedKeeps
    <3> QED BY <3>1, <3>2, <3>3, <3>4 DEF low, CarriedOver
  <2>2. CASE ~shrinks
    <3>1. len = txBufferlen[e] /\ new = marked BY <2>2
    <3> HIDE DEF len, new, shrinks
    <3> QED BY <3>1, <1>3, <1>4, <1>5
  <2> QED BY <2>1, <2>2
<1> HIDE DEF len, new, shrinks, q
<1> QED BY <1>1, <1>4, <1>5, <1>6 DEF Acknowledged, q

\* Receiving a packet: acknowledges into the transmit ring, contents into the
\* receive ring.
LEMMA ReceiveKeeps ==
  ASSUME IInv, NEW e \in End, NEW p \in wire[e], NEW malloced \in BOOLEAN,
         Receive(e, p, malloced)
  PROVE  IInv'
<1> DEFINE q == Peer(e)
<1>1. /\ Accepts(e, p) /\ StoreFragment(e, p)
      /\ UNCHANGED <<txSequence, txFrame, rxSequence, selackoffset, delivered, wire>>
  BY DEF Receive, TakeAcknowledge
<1>2. q \in End /\ Peer(q) = e /\ q # e BY Ends
<1>3. /\ txSequence[e] \in Nat /\ txAcknowledge[e] \in Nat /\ rxSequence[e] \in Nat
      /\ rxSequence[q] \in Nat /\ rxSequence[q] <= txAcknowledge[e] + TxWindow
      /\ txBufferlen[e] \in Nat \ {0} /\ txBufferlen[e] >= DefaultBuffer
      /\ txSequence[e] - txAcknowledge[e] <= txBufferlen[e]
  BY <1>2, OwnCounters DEF IInv, Counters
<1>4. /\ p \in PacketType /\ p.ack \in Nat /\ p.seq \in Nat \cup {-1}
      /\ txAcknowledge[e] <= p.ack /\ p.ack <= txSequence[e] /\ p.ack <= rxSequence[q]
  BY <1>1 DEF IInv, TypeOK, PacketType, Accepts, WirePackets
<1>5. PICK len, new : Acknowledged(e, p, len, new) BY ReceiveEffect
<1>6. /\ len \in Nat \ {0} /\ len >= DefaultBuffer
      /\ txSequence[e] - p.ack <= len
      /\ new \in [0 .. len - 1 -> Slot]
      /\ \A i \in p.ack .. txSequence[e] - 1 :
           /\ new[i % len].data = Stream[e][i + 1]
           /\ new[i % len].ack \in {-1, i}
           /\ new[i % len].ack = i => Arrived(q, i)
      /\ txAcknowledge' = [txAcknowledge EXCEPT ![e] = p.ack]
      /\ txBufferlen' = [txBufferlen EXCEPT ![e] = len]
      /\ txBuffer' = [txBuffer EXCEPT ![e] = new]
  BY <1>5 DEF Acknowledged
<1> HIDE DEF q
<1>7. /\ txAcknowledge'[e] = p.ack /\ txBufferlen'[e] = len /\ txBuffer'[e] = new
      /\ \A f \in End : f # e => /\ txAcknowledge'[f] = txAcknowledge[f]
                                 /\ txBufferlen'[f] = txBufferlen[f]
                                 /\ txBuffer'[f] = txBuffer[f]
  BY <1>6 DEF IInv, TypeOK
<1>8. \A f \in End : /\ txAcknowledge[f] \in Nat /\ txAcknowledge'[f] \in Nat
                     /\ txAcknowledge[f] <= txAcknowledge'[f]
  <2> SUFFICES ASSUME NEW f \in End
               PROVE  /\ txAcknowledge[f] \in Nat /\ txAcknowledge'[f] \in Nat
                      /\ txAcknowledge[f] <= txAcknowledge'[f]
    OBVIOUS
  <2>1. CASE f = e BY <2>1, <1>3, <1>4, <1>7
  <2>2. CASE f # e BY <2>2, <1>7, OwnCounters
  <2> QED BY <2>1, <2>2
<1>9. \A f \in End : \A i \in Nat : Arrived(f, i) => Arrived(f, i)'
  BY <1>1, StoreKeepsArrived
<1>10. p.seq >= rxSequence[e] =>
         /\ p.seq \in Nat /\ p.seq % DefaultBuffer \in 0 .. DefaultBuffer - 1
         /\ p.seq < txSequence[q] /\ p.seq < txAcknowledge[q] + TxWindow
         /\ p.seq < rxSequence[e] + RxWindow
         /\ p.data = Stream[q][p.seq + 1]
  <2> SUFFICES ASSUME p.seq >= rxSequence[e]
               PROVE  /\ p.seq \in Nat /\ p.seq % DefaultBuffer \in 0 .. DefaultBuffer - 1
                      /\ p.seq < txSequence[q] /\ p.seq < txAcknowledge[q] + TxWindow
                      /\ p.seq < rxSequence[e] + RxWindow
                      /\ p.data = Stream[q][p.seq + 1]
    OBVIOUS
  <2>1. p.seq \in Nat /\ p.seq # -1 BY <1>3, <1>4
  <2>2. p.seq % DefaultBuffer \in 0 .. DefaultBuffer - 1 BY <2>1, Sizes, DivMod
  <2> QED BY <2>1, <2>2, <1>1 DEF IInv, WirePackets, Accepts, q
<1>11. rxBuffer' \in [End -> [0 .. DefaultBuffer - 1 -> Slot]]
  <2>1. rxBuffer \in [End -> [0 .. DefaultBuffer - 1 -> Slot]] BY DEF IInv, TypeOK
  <2>2. CASE p.seq >= rxSequence[e]
    <3>1. [data |-> p.data, ack |-> p.seq] \in Slot BY <2>2, <1>4, <1>10 DEF Slot, PacketType
    <3>2. rxBuffer' = [rxBuffer EXCEPT ![e][p.seq % DefaultBuffer] = [data |-> p.data, ack |-> p.seq]]
      BY <2>2, <1>1 DEF StoreFragment
    <3> QED BY <3>1, <3>2, <2>1
  <2>3. CASE ~(p.seq >= rxSequence[e])
    <3>1. rxBuffer' = rxBuffer BY <2>3, <1>1 DEF StoreFragment
    <3> QED BY <3>1, <2>1
  <2> QED BY <2>2, <2>3
<1>12. TypeOK'
  <2>1. \A f \in End : txBuffer'[f] \in [0 .. txBufferlen'[f] - 1 -> Slot]
    <3> SUFFICES ASSUME NEW f \in End PROVE txBuffer'[f] \in [0 .. txBufferlen'[f] - 1 -> Slot]
      OBVIOUS
    <3>1. CASE f = e BY <3>1, <1>6, <1>7
    <3>2. CASE f # e BY <3>2, <1>7, OwnCounters
    <3> QED BY <3>1, <3>2
  <2>2. txAcknowledge' \in [End -> Nat] /\ txBufferlen' \in [End -> Nat] /\ DOMAIN txBuffer' = End
    BY <1>4, <1>6 DEF IInv, TypeOK
  <2> QED BY <2>1, <2>2, <1>1, <1>11 DEF IInv, TypeOK
<1>13. Counters'
  <2> SUFFICES ASSUME NEW f \in End
               PROVE  /\ txAcknowledge'[f] <= rxSequence[Peer(f)]
                      /\ rxSequence[Peer(f)] <= txSequence[f]
                      /\ rxSequence[Peer(f)] <= txAcknowledge'[f] + TxWindow
                      /\ txSequence[f] <= Len(Stream[f])
                      /\ txSequence[f] - txAcknowledge'[f] <= txBufferlen'[f]
                      /\ txFrame[f] < txAcknowledge'[f] + TxWindow
                      /\ txBufferlen'[f] >= DefaultBuffer
    BY <1>1 DEF Counters
  <2>1. /\ rxSequence[Peer(f)] <= txSequence[f]
        /\ txSequence[f] <= Len(Stream[f])
        /\ txFrame[f] < txAcknowledge[f] + TxWindow
        /\ rxSequence[Peer(f)] <= txAcknowledge[f] + TxWindow
    BY DEF IInv, Counters
  <2>2. txFrame[f] \in Nat /\ rxSequence[Peer(f)] \in Nat BY Ends, OwnCounters
  <2>3. /\ rxSequence[Peer(f)] <= txAcknowledge'[f] + TxWindow
        /\ txFrame[f] < txAcknowledge'[f] + TxWindow
    BY <2>1, <2>2, <1>8, Sizes
  <2>4. CASE f = e BY <2>1, <2>3, <2>4, <1>4, <1>6, <1>7 DEF q
  <2>5. CASE f # e BY <2>1, <2>3, <2>5, <1>7 DEF IInv, Counters
  <2> QED BY <2>4, <2>5
<1>14. TransmitRing'
  <2> SUFFICES ASSUME NEW f \in End, NEW i \in txAcknowledge'[f] .. txSequence[f] - 1
               PROVE  /\ TxSlot(f, i)'.data = Stream[f][i + 1]
                      /\ TxSlot(f, i)'.ack \in {-1, i}
                      /\ TxSlot(f, i)'.ack = i => Arrived(Peer(f), i)'
    BY <1>1 DEF TransmitRing
  <2>1. i \in Nat /\ Peer(f) \in End BY <1>8, OwnCounters, Ends
  <2>2. CASE f = e
    <3>1. i \in p.ack .. txSequence[e] - 1 BY <2>2, <1>7
    <3>2. TxSlot(f, i)' = new[i % len] BY <2>2, <1>7 DEF TxSlot
    <3> QED BY <3>1, <3>2, <2>1, <2>2, <1>2, <1>6, <1>9 DEF q
  <2>3. CASE f # e
    <3>1. TxSlot(f, i)' = TxSlot(f, i) BY <2>3, <1>7 DEF TxSlot
    <3>2. i \in txAcknowledge[f] .. txSequence[f] - 1 BY <2>3, <1>7
    <3> QED BY <3>1, <3>2, <2>1, <1>9 DEF IInv, TransmitRing
  <2> QED BY <2>2, <2>3
<1>15. ReceiveRing'
  <2> SUFFICES ASSUME NEW f \in End, NEW s \in 0 .. DefaultBuffer - 1, rxBuffer'[f][s].ack # -1
               PROVE  LET n == rxBuffer'[f][s].ack IN
                      /\ n \in Nat /\ n % DefaultBuffer = s
                      /\ n < txSequence[Peer(f)]
                      /\ n < rxSequence[f] + RxWindow
                      /\ n < txAcknowledge'[Peer(f)] + TxWindow
                      /\ rxBuffer'[f][s].data = Stream[Peer(f)][n + 1]
    BY <1>1 DEF ReceiveRing
  <2> DEFINE n == rxBuffer'[f][s].ack
  <2>0. rxBuffer \in [End -> [0 .. DefaultBuffer - 1 -> Slot]] BY DEF IInv, TypeOK
  <2>1. /\ n \in Nat /\ n % DefaultBuffer = s
        /\ n < txSequence[Peer(f)]
        /\ n < rxSequence[f] + RxWindow
        /\ n < txAcknowledge[Peer(f)] + TxWindow
        /\ rxBuffer'[f][s].data = Stream[Peer(f)][n + 1]
    <3>1. CASE f = e /\ p.seq >= rxSequence[e] /\ s = p.seq % DefaultBuffer
      <4>1. rxBuffer' = [rxBuffer EXCEPT ![e][s] = [data |-> p.data, ack |-> p.seq]]
        BY <3>1, <1>1 DEF StoreFragment
      <4>2. rxBuffer'[e][s] = [data |-> p.data, ack |-> p.seq] BY <4>1, <2>0
      <4> QED BY <4>2, <3>1, <1>10 DEF q
    <3>2. CASE ~(f = e /\ p.seq >= rxSequence[e] /\ s = p.seq % DefaultBuffer)
      <4>1. rxBuffer'[f][s] = rxBuffer[f][s]
        <5>1. CASE p.seq >= rxSequence[e]
          <6>1. rxBuffer' = [rxBuffer EXCEPT ![e][p.seq % DefaultBuffer]
                                               = [data |-> p.data, ack |-> p.seq]]
            BY <5>1, <1>1 DEF StoreFragment
          <6> QED BY <6>1, <5>1, <3>2, <2>0
        <5>2. CASE ~(p.seq >= rxSequence[e])
          <6>1. rxBuffer' = rxBuffer BY <5>2, <1>1 DEF StoreFragment
          <6> QED BY <6>1
        <5> QED BY <5>1, <5>2
      <4> QED BY <4>1 DEF IInv, ReceiveRing
    <3> QED BY <3>1, <3>2
  <2>2. Peer(f) \in End BY Ends
  <2> HIDE DEF n
  <2>3. n < txAcknowledge'[Peer(f)] + TxWindow BY <2>1, <2>2, <1>8, Sizes
  <2> QED BY <2>1, <2>3 DEF n
<1>16. WirePackets'
  <2> SUFFICES ASSUME NEW f \in End, NEW r \in wire[f]
               PROVE  /\ r.seq # -1 => r.seq < txAcknowledge'[Peer(f)] + TxWindow
                      /\ \A o \in r.sack : Arrived(Peer(f), r.ack + o)'
    BY <1>1 DEF IInv, WirePackets
  <2>1. /\ r \in PacketType /\ r.seq \in Nat \cup {-1}
        /\ Peer(f) \in End
    <3>1. wire \in [End -> SUBSET PacketType] BY DEF IInv, TypeOK
    <3>2. r \in PacketType BY <3>1
    <3> QED BY <3>2, Ends DEF PacketType
  <2>2. r.seq # -1 => r.seq < txAcknowledge[Peer(f)] + TxWindow BY DEF IInv, WirePackets
  <2>3. r.seq # -1 => r.seq < txAcknowledge'[Peer(f)] + TxWindow
    BY <2>1, <2>2, <1>8, Sizes
  <2>4. ASSUME NEW o \in r.sack PROVE Arrived(Peer(f), r.ack + o)'
    <3>1. r.ack + o \in Nat BY <2>1 DEF PacketType
    <3>2. Arrived(Peer(f), r.ack + o) BY DEF IInv, WirePackets
    <3> QED BY <3>1, <3>2, <2>1, <1>9
  <2> QED BY <2>3, <2>4
<1>17. StreamIntegrity' BY <1>1 DEF IInv, StreamIntegrity
<1> QED BY <1>12, <1>13, <1>14, <1>15, <1>16, <1>17 DEF IInv

-----------------------------------------------------------------------------
(* The theorems.                                                           *)

\* Every step keeps the invariant.
LEMMA NextKeeps == IInv /\ [Next]_vars => IInv'
<1> SUFFICES ASSUME IInv, [Next]_vars PROVE IInv' OBVIOUS
<1>1. ASSUME NEW e \in End, Submitting(e) PROVE IInv'
  BY <1>1, SendKeeps DEF Submitting
<1>2. ASSUME NEW e \in End, Transmitting(e) PROVE IInv'
  BY <1>2, TransmitFragmentKeeps, SkipFragmentKeeps, TransmitAcknowledgeKeeps DEF Transmitting
<1>3. ASSUME NEW e \in End, Receiving(e) PROVE IInv'
  BY <1>3, ReceiveKeeps DEF Receiving
<1>4. ASSUME NEW e \in End, Deliver(e) PROVE IInv'
  BY <1>4, DeliverKeeps
<1>5. CASE UNCHANGED vars
  BY <1>5, Ends DEF vars, txVars, rxVars, IInv, TypeOK, Counters, TransmitRing, TxSlot, ReceiveRing,
     WirePackets, StreamIntegrity, Arrived, Holds, RxSlot
<1> QED BY <1>1, <1>2, <1>3, <1>4, <1>5 DEF Next

\* The inductive invariant holds: whatever the network loses, repeats and
\* reorders, counters, rings and packets in flight agree.
THEOREM Correct == Spec => []IInv
<1>1. Init => IInv BY InitIInv
<1>2. IInv /\ [Next]_vars => IInv' BY NextKeeps
<1> QED BY <1>1, <1>2, PTL DEF Spec

\* The state is well typed; the transmit ring always has the recorded length.
THEOREM TypeCorrect == Spec => []TypeOK
<1>1. IInv => TypeOK BY DEF IInv
<1> QED BY <1>1, Correct, PTL

\* Nothing is released before it was delivered, the outstanding fragments fit
\* the ring, and no honest acknowledge is ever refused as illegible.
THEOREM CountersCorrect == Spec => []Counters
<1>1. IInv => Counters BY DEF IInv
<1> QED BY <1>1, Correct, PTL

\* Outstanding fragments survive every resizing, marked ones have arrived.
THEOREM TransmitRingCorrect == Spec => []TransmitRing
<1>1. IInv => TransmitRing BY DEF IInv
<1> QED BY <1>1, Correct, PTL

\* The application reads a prefix of what its peer submitted.
THEOREM StreamCorrect == Spec => []StreamIntegrity
<1>1. IInv => StreamIntegrity BY DEF IInv
<1> QED BY <1>1, Correct, PTL

\* How much of the stream the application has read.
LEMMA DeliveredLength ==
  ASSUME IInv, NEW e \in End
  PROVE  Len(delivered[e]) = rxSequence[e]
<1>1. Peer(e) \in End BY Ends
<1>2. delivered[e] = SubSeq(Stream[Peer(e)], 1, rxSequence[e]) BY DEF IInv, StreamIntegrity
<1>3. /\ rxSequence[e] \in Nat /\ Stream[Peer(e)] \in Seq(Payload)
      /\ rxSequence[e] <= Len(Stream[Peer(e)])
  <2>1. /\ rxSequence[e] \in Nat /\ rxSequence[e] <= txSequence[Peer(e)]
        /\ txSequence[Peer(e)] \in Nat /\ txSequence[Peer(e)] <= Len(Stream[Peer(e)])
    BY <1>1, OwnCounters
  <2> QED BY <2>1, <1>1, Sizes
<1> QED BY <1>2, <1>3

\* Every step of the channel is a step of the ordered stream, or none.
LEMMA StepImplements == IInv /\ IInv' /\ [Next]_vars => [Promise!StreamNext]_(Promise!streamVars)
<1> SUFFICES ASSUME IInv, IInv', [Next]_vars
             PROVE  Promise!StreamNext \/ UNCHANGED Promise!streamVars
  OBVIOUS
<1> USE DEF Promise!StreamNext, Promise!streamVars
<1>0. \A e \in Promise!End : Promise!Peer(e) = Peer(e)
  BY DEF Promise!End, Promise!Peer, End, Peer
<1>00. Promise!End = End BY DEF Promise!End, End
<1>1. ASSUME NEW e \in End, Submitting(e)
      PROVE  Promise!Submit(e)
  <2>1. PICK k \in 1 .. MaxMessage, spare \in {0, 1}, malloced \in BOOLEAN : Send(e, k, spare, malloced)
    BY <1>1 DEF Submitting
  <2>2. PICK top : /\ txSequence' = [txSequence EXCEPT ![e] = top]
                   /\ UNCHANGED <<txAcknowledge, delivered>>
                   /\ top <= Len(Stream[e])
                   /\ \E n \in Int : n > 0 /\ top = txSequence[e] + n
    <3> DEFINE len == RoomFor(e, k, spare, malloced)
    <3> DEFINE free == len - (txSequence[e] - txAcknowledge[e])
    <3> DEFINE accepted == IF k <= free THEN k ELSE free
    <3>1. /\ accepted > 0 /\ txSequence[e] + accepted <= Len(Stream[e])
          /\ txSequence' = [txSequence EXCEPT ![e] = txSequence[e] + accepted]
          /\ UNCHANGED <<txAcknowledge, delivered>>
      BY <2>1 DEF Send, rxVars
    <3>2. len \in Nat /\ k \in Nat
      <4>1. k \in Nat BY BoundAssumption
      <4> QED BY <4>1, RoomForFits
    <3>3. accepted \in Int
      <4> HIDE DEF len
      <4> QED BY <3>2, OwnCounters
    <3> HIDE DEF accepted
    <3> QED BY <3>1, <3>3
  <2>3. top \in txSequence[e] + 1 .. Len(Stream[e]) BY <2>2, OwnCounters, Sizes
  <2> QED BY <2>2, <2>3 DEF Promise!Submit
<1>2. ASSUME NEW e \in End, Transmitting(e)
      PROVE  UNCHANGED Promise!streamVars
  BY <1>2 DEF Transmitting, TransmitFragment, SkipFragment, TransmitAcknowledge, txVars, rxVars
<1>3. ASSUME NEW e \in End, Receiving(e)
      PROVE  Promise!Confirm(e) \/ UNCHANGED Promise!streamVars
  <2>1. PICK p \in wire[e], malloced \in BOOLEAN : Receive(e, p, malloced) BY <1>3 DEF Receiving
  <2>2. /\ txAcknowledge' = [txAcknowledge EXCEPT ![e] = p.ack]
        /\ UNCHANGED <<txSequence, delivered>>
        /\ p.ack >= txAcknowledge[e]
    BY <2>1 DEF Receive, TakeAcknowledge, Accepts
  <2>3. p.ack \in Nat /\ p.ack <= rxSequence[Peer(e)]
    BY <2>1 DEF IInv, TypeOK, PacketType, WirePackets
  <2>4. Len(delivered[Peer(e)]) = rxSequence[Peer(e)] /\ rxSequence[Peer(e)] \in Nat
    BY Ends, DeliveredLength, OwnCounters
  <2>5. CASE p.ack = txAcknowledge[e] BY <2>5, <2>2 DEF IInv, TypeOK
  <2>6. CASE p.ack # txAcknowledge[e]
    <3>1. p.ack \in txAcknowledge[e] + 1 .. Len(delivered[Peer(e)])
      BY <2>2, <2>3, <2>4, <2>6, OwnCounters
    <3> QED BY <3>1, <2>2, <1>0, <1>00 DEF Promise!Confirm
  <2> QED BY <2>5, <2>6
<1>4. ASSUME NEW e \in End, Deliver(e)
      PROVE  Promise!Read(e)
  <2>1. PICK top \in rxSequence[e] + 1 .. rxSequence[e] + RxWindow :
          /\ rxSequence' = [rxSequence EXCEPT ![e] = top]
          /\ \E more : delivered' = [delivered EXCEPT ![e] = more]
          /\ UNCHANGED <<txSequence, txAcknowledge>>
    BY <1>4 DEF Deliver, txVars
  <2>2. rxSequence'[e] = top BY <2>1 DEF IInv, TypeOK
  <2>3. delivered'[e] = SubSeq(Stream[Peer(e)], 1, top)
    <3>1. StreamIntegrity' BY DEF IInv
    <3>2. delivered'[e] = SubSeq(Stream[Peer(e)], 1, rxSequence'[e]) BY <3>1, Ends DEF StreamIntegrity
    <3> QED BY <3>2, <2>2
  <2>4. delivered' = [delivered EXCEPT ![e] = SubSeq(Stream[Peer(e)], 1, top)]
    BY <2>1, <2>3 DEF IInv, TypeOK
  <2>5. top <= txSequence[Peer(e)]
    <3>1. Counters' BY DEF IInv
    <3>2. rxSequence'[Peer(Peer(e))] <= txSequence'[Peer(e)] BY <3>1, Ends DEF Counters
    <3> QED BY <3>2, <2>1, <2>2, Ends
  <2>6. top \in Len(delivered[e]) + 1 .. txSequence[Peer(e)]
    BY <2>1, <2>5, DeliveredLength, OwnCounters, Ends
  <2> QED BY <2>1, <2>4, <2>6, <1>0, <1>00 DEF Promise!Read
<1>5. CASE UNCHANGED vars BY <1>5 DEF vars, txVars, rxVars
<1> QED BY <1>00, <1>1, <1>2, <1>3, <1>4, <1>5 DEF Next

\* The channel implements the ordered stream: no loss, repetition, reordering or
\* damage shows through, and nothing is forgotten that was not delivered.
THEOREM Implements == Spec => ImplementsStream
<1>1. Init => Promise!StreamInit
  BY DEF Init, Promise!StreamInit, Promise!End, End
<1>2. IInv /\ IInv' /\ [Next]_vars => [Promise!StreamNext]_(Promise!streamVars)
  BY StepImplements
<1> QED BY <1>1, <1>2, Correct, PTL DEF Spec, ImplementsStream, Promise!StreamSpec

-----------------------------------------------------------------------------
(* What the ends know of each other: a sender never forgets that a fragment *)
(* has arrived, and the ends are never both silent.                        *)
(*                                                                         *)
(* The second one rests on this.  An end delivers all it can: the fragment *)
(* it then waits for is one it has not.  So what it names in a packet, and *)
(* its peer marks, is never a fragment it ever waits for later, unless the *)
(* packet names the very fragment it waits for now.  Only the first packet *)
(* of an end can do that (selackoffset is 0 until then), and only if the   *)
(* peer has sent one before.                                               *)

\* The fragments of e the peer was known or is said to wait for.
Stops(e) == {txAcknowledge[e], rxSequence[Peer(e)]} \cup {p.ack : p \in wire[e]}

\* The fragments of e that are marked as arrived, or that a packet names so.
Named(e) ==
  {i \in txAcknowledge[e] .. txSequence[e] - 1 : TxSlot(e, i).ack = i}
    \cup UNION {{p.ack + o : o \in p.sack} : p \in wire[e]}

\* No fragment of e is named that the peer waits for.
Ahead(e) == Stops(e) \cap Named(e) = {}

\* As long as e has not sent a packet, its peer has none of its fragments, and has
\* named none.
Silence(e) ==
  selackoffset[e] = 0 =>
    /\ wire[Peer(e)] = {}
    /\ \A s \in 0 .. DefaultBuffer - 1 : rxBuffer[Peer(e)][s].ack = -1
    /\ Named(e) = {}

\* One end at least is told of no fragment its peer waits for.
KInv ==
  \A e \in End : /\ Silence(e)
                 /\ Ahead(e) \/ (Ahead(Peer(e)) /\ selackoffset[e] = 1)

-----------------------------------------------------------------------------
(* Steps, by what they do to the transmit window of an end.                *)

\* It stays as it is, gets new fragments, or takes the acknowledges of a packet.
LEMMA TransmitStep ==
  ASSUME IInv, [Next]_vars, NEW e \in End
  PROVE  \/ /\ txAcknowledge'[e] = txAcknowledge[e] /\ txSequence'[e] = txSequence[e]
            /\ txBuffer'[e] = txBuffer[e] /\ txBufferlen'[e] = txBufferlen[e]
         \/ \E top, len, new : Enqueued(e, top, len, new)
         \/ \E p \in wire[e] : \E len, new :
              Acknowledged(e, p, len, new) /\ txSequence' = txSequence
<1> DEFINE Same(d) == /\ txAcknowledge'[d] = txAcknowledge[d] /\ txSequence'[d] = txSequence[d]
                      /\ txBuffer'[d] = txBuffer[d] /\ txBufferlen'[d] = txBufferlen[d]
<1>1. CASE UNCHANGED vars
  BY <1>1 DEF vars, txVars
<1>2. ASSUME NEW d \in End, Transmitting(d) \/ Deliver(d) PROVE Same(e)
  BY <1>2 DEF Transmitting, TransmitFragment, SkipFragment, TransmitAcknowledge, Deliver, txVars
<1>3. ASSUME NEW d \in End, Submitting(d)
      PROVE  Same(e) \/ \E top, len, new : Enqueued(e, top, len, new)
  <2>1. PICK top, len, new : Enqueued(d, top, len, new) BY <1>3, SendEffect DEF Submitting
  <2>2. CASE d = e BY <2>1, <2>2
  <2>3. CASE d # e BY <2>1, <2>3 DEF Enqueued, IInv, TypeOK
  <2> QED BY <2>2, <2>3
<1>4. ASSUME NEW d \in End, Receiving(d)
      PROVE  \/ Same(e)
             \/ \E p \in wire[e] : \E len, new :
                  Acknowledged(e, p, len, new) /\ txSequence' = txSequence
  <2>1. PICK p \in wire[d] : \E malloced \in BOOLEAN : Receive(d, p, malloced)
    BY <1>4 DEF Receiving
  <2>2. PICK len, new : Acknowledged(d, p, len, new) BY <2>1, ReceiveEffect
  <2>3. txSequence' = txSequence BY <2>1 DEF Receive, TakeAcknowledge
  <2>4. CASE d = e BY <2>2, <2>3, <2>4
  <2>5. CASE d # e BY <2>2, <2>3, <2>5 DEF Acknowledged, IInv, TypeOK
  <2> QED BY <2>4, <2>5
<1> QED BY <1>1, <1>2, <1>3, <1>4 DEF Next

\* A fragment that is marked and still outstanding stays marked.
LEMMA MarksKept ==
  ASSUME IInv, [Next]_vars, NEW e \in End,
         NEW i \in txAcknowledge'[e] .. txSequence[e] - 1, TxSlot(e, i).ack = i
  PROVE  TxSlot(e, i)'.ack = i
<1>1. /\ txAcknowledge[e] \in Nat /\ txSequence[e] \in Nat
      /\ txAcknowledge \in [End -> Nat] /\ txSequence \in [End -> Nat]
      /\ DOMAIN txBuffer = End /\ txBufferlen \in [End -> Nat]
  BY DEF IInv, TypeOK
<1>2. CASE txAcknowledge'[e] = txAcknowledge[e] /\ txSequence'[e] = txSequence[e]
           /\ txBuffer'[e] = txBuffer[e] /\ txBufferlen'[e] = txBufferlen[e]
  BY <1>2 DEF TxSlot
<1>3. ASSUME NEW top, NEW len, NEW new, Enqueued(e, top, len, new)
      PROVE  TxSlot(e, i)'.ack = i
  <2>1. txBuffer'[e] = new /\ txBufferlen'[e] = len /\ txAcknowledge'[e] = txAcknowledge[e]
    BY <1>1, <1>3 DEF Enqueued
  <2>2. new[i % len] = TxSlot(e, i) BY <1>3, <2>1 DEF Enqueued
  <2> QED BY <2>1, <2>2 DEF TxSlot
<1>4. ASSUME NEW p \in wire[e], NEW len, NEW new, Acknowledged(e, p, len, new)
      PROVE  TxSlot(e, i)'.ack = i
  <2>1. txBuffer'[e] = new /\ txBufferlen'[e] = len /\ txAcknowledge'[e] = p.ack
    BY <1>1, <1>4 DEF Acknowledged
  <2>2. new[i % len].ack = i BY <1>4, <2>1 DEF Acknowledged
  <2> QED BY <2>1, <2>2 DEF TxSlot
<1> QED BY <1>2, <1>3, <1>4, TransmitStep

\* A fragment that is marked was marked or named before, and what is acknowledged
\* is one of the stops.
LEMMA MarksNamed ==
  ASSUME IInv, [Next]_vars, NEW e \in End
  PROVE  /\ txAcknowledge'[e] \in Stops(e)
         /\ \A i \in txAcknowledge'[e] .. txSequence'[e] - 1 :
              TxSlot(e, i)'.ack = i => i \in Named(e)
<1>1. /\ txAcknowledge[e] \in Nat /\ txSequence[e] \in Nat
      /\ txAcknowledge \in [End -> Nat] /\ txSequence \in [End -> Nat]
      /\ DOMAIN txBuffer = End /\ txBufferlen \in [End -> Nat]
  BY DEF IInv, TypeOK
<1>2. CASE txAcknowledge'[e] = txAcknowledge[e] /\ txSequence'[e] = txSequence[e]
           /\ txBuffer'[e] = txBuffer[e] /\ txBufferlen'[e] = txBufferlen[e]
  BY <1>2 DEF TxSlot, Stops, Named
<1>3. ASSUME NEW top, NEW len, NEW new, Enqueued(e, top, len, new)
      PROVE  /\ txAcknowledge'[e] = txAcknowledge[e]
             /\ \A i \in txAcknowledge'[e] .. txSequence'[e] - 1 :
                  TxSlot(e, i)'.ack = i => i \in Named(e)
  <2>1. /\ txBuffer'[e] = new /\ txBufferlen'[e] = len /\ txAcknowledge'[e] = txAcknowledge[e]
        /\ txSequence'[e] = top /\ top \in Nat
    BY <1>1, <1>3 DEF Enqueued
  <2>2. ASSUME NEW i \in txAcknowledge[e] .. top - 1, new[i % len].ack = i
        PROVE  i < txSequence[e] /\ TxSlot(e, i).ack = i
    <3>1. i \in Nat BY <1>1, <2>1
    <3>2. i < txSequence[e]
      <4>1. i >= txSequence[e] => new[i % len].ack = -1 BY <1>1, <1>3, <2>1, <3>1 DEF Enqueued
      <4> QED BY <4>1, <2>2, <3>1, <1>1
    <3>3. new[i % len] = TxSlot(e, i) BY <1>1, <1>3, <3>1, <3>2 DEF Enqueued
    <3> QED BY <2>2, <3>2, <3>3
  <2> QED BY <2>1, <2>2, <1>1 DEF TxSlot, Named
<1>4. ASSUME NEW p \in wire[e], NEW len, NEW new, Acknowledged(e, p, len, new),
             txSequence' = txSequence
      PROVE  /\ txAcknowledge'[e] = p.ack
             /\ \A i \in txAcknowledge'[e] .. txSequence'[e] - 1 :
                  TxSlot(e, i)'.ack = i => i \in Named(e)
  <2>1. /\ txBuffer'[e] = new /\ txBufferlen'[e] = len /\ txAcknowledge'[e] = p.ack
        /\ txAcknowledge[e] <= p.ack /\ p.ack \in Nat
    BY <1>1, <1>4 DEF Acknowledged, IInv, TypeOK, PacketType
  <2>2. ASSUME NEW i \in p.ack .. txSequence[e] - 1, new[i % len].ack = i
        PROVE  i \in Named(e)
    <3>1. TxSlot(e, i).ack = i \/ \E o \in p.sack : p.ack + o = i
      BY <1>4, <2>2 DEF Acknowledged
    <3>2. i \in txAcknowledge[e] .. txSequence[e] - 1 BY <1>1, <2>1
    <3> QED BY <3>1, <3>2 DEF Named
  <2> QED BY <2>1, <2>2, <1>4 DEF TxSlot
<1> QED BY <1>2, <1>3, <1>4, TransmitStep DEF Stops

\* The packets in flight to e and what its peer waits for change in two ways only: the
\* peer sends a packet, or it delivers.
LEMMA WireStep ==
  ASSUME IInv, [Next]_vars, NEW e \in End
  PROVE  \/ /\ rxSequence'[Peer(e)] = rxSequence[Peer(e)]
            /\ \E seq, data : wire'[e] \subseteq wire[e] \cup {Packet(Peer(e), seq, data)}
         \/ wire' = wire /\ Deliver(Peer(e))
<1> DEFINE Sends(d) == \E seq, data : wire'[d] \subseteq wire[d] \cup {Packet(Peer(d), seq, data)}
<1>1. Peer(e) \in End /\ rxSequence \in [End -> Nat] /\ wire \in [End -> SUBSET PacketType]
  BY Ends DEF IInv, TypeOK
<1>2. ASSUME wire' = wire PROVE Sends(e) BY <1>2
<1>3. CASE UNCHANGED vars BY <1>2, <1>3 DEF vars, rxVars
<1>4. ASSUME NEW d \in End, Submitting(d) \/ Receiving(d) \/ SkipFragment(d)
      PROVE  wire' = wire /\ rxSequence' = rxSequence
  <2>1. CASE Submitting(d) BY ONLY <2>1 DEF Submitting, Send, rxVars
  <2>2. CASE Receiving(d) BY ONLY <2>2 DEF Receiving, Receive
  <2>3. CASE SkipFragment(d) BY ONLY <2>3 DEF SkipFragment, rxVars
  <2> QED BY ONLY <2>1, <2>2, <2>3, <1>4
<1>5. ASSUME NEW d \in End, NEW packet, Put(Peer(d), packet)
      PROVE  IF e = Peer(d) THEN wire'[e] \subseteq wire[e] \cup {packet} ELSE wire'[e] = wire[e]
  <2>1. Peer(d) \in End BY Ends
  <2> QED BY <1>1, <1>5, <2>1 DEF Put
<1>6. ASSUME NEW d \in End, TransmitFragment(d) \/ TransmitAcknowledge(d)
      PROVE  rxSequence' = rxSequence /\ Sends(e)
  <2>1. rxSequence' = rxSequence BY <1>6 DEF TransmitFragment, TransmitAcknowledge
  <2>2. PICK seq, data : Put(Peer(d), Packet(d, seq, data))
    BY <1>6 DEF TransmitFragment, TransmitAcknowledge
  <2>3. e = Peer(d) => d = Peer(e) BY Ends
  <2>4. CASE e = Peer(d) BY <2>1, <2>2, <2>3, <2>4, <1>5
  <2>5. CASE e # Peer(d) BY <2>1, <2>2, <2>5, <1>5
  <2> QED BY <2>1, <2>4, <2>5
<1>7. ASSUME NEW d \in End, Deliver(d)
      PROVE  wire' = wire /\ (d # Peer(e) => rxSequence'[Peer(e)] = rxSequence[Peer(e)])
  BY <1>1, <1>7 DEF Deliver
<1> HIDE DEF Sends
<1>8. (rxSequence'[Peer(e)] = rxSequence[Peer(e)] /\ Sends(e)) \/ (wire' = wire /\ Deliver(Peer(e)))
  BY <1>2, <1>3, <1>4, <1>6, <1>7 DEF Next, Transmitting, vars, rxVars
<1> QED BY <1>8 DEF Sends

\* Whether an end has sent a packet.
LEMMA SelackStep ==
  ASSUME IInv, [Next]_vars, NEW e \in End
  PROVE  /\ selackoffset[e] \in {0, 1}
         /\ selackoffset'[e] = selackoffset[e] \/ selackoffset'[e] = 1
         /\ wire'[Peer(e)] \subseteq wire[Peer(e)] \/ selackoffset'[e] = 1
<1>1. /\ Peer(e) \in End /\ selackoffset \in [End -> {0, 1}] /\ wire \in [End -> SUBSET PacketType]
  BY Ends DEF IInv, TypeOK
<1>2. CASE UNCHANGED vars BY <1>1, <1>2 DEF vars, rxVars
<1>3. ASSUME NEW d \in End, Submitting(d) \/ Receiving(d) \/ SkipFragment(d)
      PROVE  wire' = wire /\ selackoffset' = selackoffset
  <2>1. CASE Submitting(d) BY ONLY <2>1 DEF Submitting, Send, rxVars
  <2>2. CASE Receiving(d) BY ONLY <2>2 DEF Receiving, Receive
  <2>3. CASE SkipFragment(d) BY ONLY <2>3 DEF SkipFragment, rxVars
  <2> QED BY ONLY <2>1, <2>2, <2>3, <1>3
<1>4. ASSUME NEW d \in End, TransmitFragment(d) \/ TransmitAcknowledge(d)
      PROVE  /\ selackoffset' = [selackoffset EXCEPT ![d] = 1]
             /\ d # e => wire'[Peer(e)] = wire[Peer(e)]
  <2>1. PICK packet : Put(Peer(d), packet) BY <1>4 DEF TransmitFragment, TransmitAcknowledge
  <2>2. d # e => Peer(d) # Peer(e) BY Ends
  <2>3. Peer(d) \in End BY Ends
  <2> QED BY <1>1, <1>4, <2>1, <2>2, <2>3 DEF Put, TransmitFragment, TransmitAcknowledge
<1>5. ASSUME NEW d \in End, Deliver(d)
      PROVE  /\ wire' = wire
             /\ selackoffset' = selackoffset \/ selackoffset' = [selackoffset EXCEPT ![d] = 1]
  BY <1>5 DEF Deliver
<1> QED BY <1>1, <1>2, <1>3, <1>4, <1>5 DEF Next, Transmitting

-----------------------------------------------------------------------------
(* What is named has arrived, and the peer waits for what it has not.      *)

\* What the packets in flight to an end name has arrived at its peer.
LEMMA NamedArrived ==
  ASSUME IInv, NEW e \in End
  PROVE  /\ \A n \in Named(e) : n \in Nat /\ Arrived(Peer(e), n)
         /\ \A n \in Stops(e) : n \in Nat /\ n <= rxSequence[Peer(e)]
         /\ rxSequence[Peer(e)] \in Nat
<1>1. /\ Peer(e) \in End /\ txAcknowledge[e] \in Nat /\ txSequence[e] \in Nat
      /\ rxSequence[Peer(e)] \in Nat /\ wire[e] \subseteq PacketType
  BY Ends DEF IInv, TypeOK
<1>2. ASSUME NEW p \in wire[e], NEW o \in p.sack
      PROVE  p.ack + o \in Nat /\ Arrived(Peer(e), p.ack + o)
  BY <1>1 DEF IInv, WirePackets, PacketType
<1>3. ASSUME NEW i \in txAcknowledge[e] .. txSequence[e] - 1, TxSlot(e, i).ack = i
      PROVE  i \in Nat /\ Arrived(Peer(e), i)
  BY <1>1, <1>3 DEF IInv, TransmitRing
<1>4. ASSUME NEW p \in wire[e] PROVE p.ack \in Nat /\ p.ack <= rxSequence[Peer(e)]
  BY <1>1 DEF IInv, WirePackets, PacketType
<1>5. txAcknowledge[e] <= rxSequence[Peer(e)] BY DEF IInv, Counters
<1>6. \A n \in Named(e) : n \in Nat /\ Arrived(Peer(e), n) BY <1>2, <1>3 DEF Named
<1>7. \A n \in Stops(e) : n \in Nat /\ n <= rxSequence[Peer(e)] BY <1>1, <1>4, <1>5 DEF Stops
<1> QED BY <1>1, <1>6, <1>7

\* Deliver goes as far as there are fragments: the one that comes next is not there.
LEMMA DeliversAll ==
  ASSUME IInv, NEW e \in End, Deliver(e)
  PROVE  /\ rxSequence'[e] \in Nat /\ rxSequence[e] < rxSequence'[e]
         /\ ~Holds(e, rxSequence'[e])
<1>1. PICK top \in rxSequence[e] + 1 .. rxSequence[e] + RxWindow :
        /\ top = rxSequence[e] + RxWindow \/ ~Holds(e, top)
        /\ rxSequence' = [rxSequence EXCEPT ![e] = top]
  BY DEF Deliver
<1>2. rxSequence \in [End -> Nat] /\ rxSequence[e] \in Nat BY DEF IInv, TypeOK
<1>3. rxSequence'[e] = top /\ top \in Nat /\ rxSequence[e] < top BY <1>1, <1>2
<1>4. CASE top = rxSequence[e] + RxWindow
  <2>1. Holds(e, top) => top < rxSequence[e] + RxWindow
    BY <1>3, ArrivedBounds DEF Arrived
  <2> QED BY <2>1, <1>2, <1>3, <1>4, Sizes
<1> QED BY <1>1, <1>3, <1>4

-----------------------------------------------------------------------------
(* The invariant is kept.                                                  *)

\* Marks and packets in flight that say nothing new keep an end silent.
LEMMA SilenceKeeps ==
  ASSUME IInv, [Next]_vars, NEW e \in End, Silence(e)
  PROVE  Silence(e)'
<1> DEFINE f == Peer(e)
<1> SUFFICES ASSUME selackoffset'[e] = 0
             PROVE  /\ wire'[f] = {}
                    /\ \A s \in 0 .. DefaultBuffer - 1 : rxBuffer'[f][s].ack = -1
                    /\ Named(e)' = {}
  BY DEF Silence
<1>1. /\ wire[f] = {} /\ Named(e) = {} /\ selackoffset[e] = 0
      /\ \A s \in 0 .. DefaultBuffer - 1 : rxBuffer[f][s].ack = -1
  BY SelackStep DEF Silence
<1>2. wire'[f] = {} BY <1>1, SelackStep
<1>3. rxBuffer'[f] = rxBuffer[f]
  <2>1. CASE UNCHANGED vars BY <2>1 DEF vars, rxVars
  <2>2. ASSUME NEW d \in End, Submitting(d) \/ Transmitting(d) \/ Deliver(d)
        PROVE  rxBuffer' = rxBuffer
    <3>1. CASE Submitting(d) BY ONLY <3>1 DEF Submitting, Send, rxVars
    <3>2. CASE Transmitting(d)
      BY ONLY <3>2 DEF Transmitting, TransmitFragment, SkipFragment, TransmitAcknowledge, rxVars
    <3>3. CASE Deliver(d) BY ONLY <3>3 DEF Deliver
    <3> QED BY ONLY <2>2, <3>1, <3>2, <3>3
  <2>3. ASSUME NEW d \in End, Receiving(d) PROVE rxBuffer'[f] = rxBuffer[f]
    <3>1. d # f BY <2>3, <1>1 DEF Receiving
    <3>2. f \in End /\ rxBuffer \in [End -> [0 .. DefaultBuffer - 1 -> Slot]] BY Ends DEF IInv, TypeOK
    <3> QED BY <2>3, <3>1, <3>2 DEF Receiving, Receive, StoreFragment
  <2> QED BY <2>1, <2>2, <2>3 DEF Next
<1>4. ASSUME NEW p \in wire'[e] PROVE p.sack = {}
  <2>1. f \in End /\ rxSequence[f] \in Nat /\ selackoffset[f] \in {0, 1}
    BY Ends DEF IInv, TypeOK
  <2>2. SelectiveAcklist(f) = {}
    <3> SUFFICES ASSUME NEW o \in selackoffset[f] .. RxWindow - 1 PROVE ~Holds(f, rxSequence[f] + o)
      BY DEF SelectiveAcklist
    <3>1. rxSequence[f] + o \in Nat BY <2>1
    <3>2. (rxSequence[f] + o) % DefaultBuffer \in 0 .. DefaultBuffer - 1 BY <3>1, Sizes, DivMod
    <3> QED BY <3>1, <3>2, <1>1 DEF Holds, RxSlot
  <2>3. p \in wire[e] => p.sack = {} 
    <3>1. ASSUME p \in wire[e], NEW o \in p.sack PROVE FALSE
      <4>1. p.ack + o \in Named(e) BY <3>1 DEF Named
      <4> QED BY <4>1, <1>1
    <3> QED BY <3>1
  <2>4. \A seq, data : Packet(f, seq, data).sack = {} BY <2>2 DEF Packet
  <2> QED BY <2>3, <2>4, WireStep
<1>5. Named(e)' = {}
  <2>1. \A i \in txAcknowledge'[e] .. txSequence'[e] - 1 : TxSlot(e, i)'.ack # i
    BY <1>1, MarksNamed
  <2> QED BY <1>4, <2>1 DEF Named
<1> QED BY <1>1, <1>2, <1>3, <1>5

\* What is named stays apart from what the peer waits for, but for the first packet of a
\* peer that has the very fragment it waits for.
LEMMA AheadKeeps ==
  ASSUME IInv, [Next]_vars, NEW e \in End, Ahead(e),
         selackoffset[Peer(e)] = 1 \/ ~Holds(Peer(e), rxSequence[Peer(e)])
  PROVE  Ahead(e)'
<1> DEFINE f == Peer(e)
<1> DEFINE rx == rxSequence[f]
<1>1. /\ txAcknowledge'[e] \in Stops(e)
      /\ \A i \in txAcknowledge'[e] .. txSequence'[e] - 1 :
           TxSlot(e, i)'.ack = i => i \in Named(e)
  BY MarksNamed
<1>2. /\ \A n \in Named(e) : n \in Nat /\ Arrived(f, n)
      /\ \A n \in Stops(e) : n \in Nat /\ n <= rx
      /\ rx \in Nat /\ rx \in Stops(e)
  BY NamedArrived DEF Stops
<1>3. CASE wire' = wire /\ Deliver(f)
  <2>1. f \in End /\ Peer(f) = e BY Ends
  <2>2. rxSequence'[f] \in Nat /\ rx < rxSequence'[f] /\ ~Holds(f, rxSequence'[f])
    BY <1>3, <2>1, DeliversAll
  <2>3. rxSequence'[f] \notin Named(e) BY <1>2, <2>2 DEF Arrived
  <2>4. Named(e)' \subseteq Named(e) BY <1>1, <1>3 DEF Named
  <2>5. Stops(e)' \subseteq Stops(e) \cup {rxSequence'[f]} BY <1>1, <1>3 DEF Stops
  <2> QED BY <2>3, <2>4, <2>5 DEF Ahead
<1>4. ASSUME NEW seq, NEW data, rxSequence'[f] = rx,
             wire'[e] \subseteq wire[e] \cup {Packet(f, seq, data)}
      PROVE  Ahead(e)'
  <2> DEFINE packet == Packet(f, seq, data)
  <2>1. packet.ack = rx /\ packet.sack = SelectiveAcklist(f) BY DEF Packet
  <2>2. \A o \in packet.sack : rx + o \in Nat /\ rx < rx + o
    <3>1. selackoffset[f] \in {0, 1} BY Ends DEF IInv, TypeOK
    <3>2. \A o \in SelectiveAcklist(f) : o \in Nat /\ o # 0 BY <1>2, <3>1 DEF SelectiveAcklist
    <3> QED BY <1>2, <2>1, <3>2
  <2> HIDE DEF packet
  <2>3. Stops(e)' \subseteq Stops(e) BY <1>1, <1>2, <1>4, <2>1 DEF Stops, packet
  <2>4. Named(e)' \subseteq Named(e) \cup {packet.ack + o : o \in packet.sack}
    BY <1>1, <1>4 DEF Named, packet
  <2>5. \A n \in Stops(e) : n \notin {packet.ack + o : o \in packet.sack}
    BY <1>2, <2>1, <2>2
  <2> QED BY <2>3, <2>4, <2>5 DEF Ahead
<1> QED BY <1>3, <1>4, WireStep

\* Every step keeps the invariant of the selective acknowledges.
LEMMA KnowledgeNextKeeps == IInv /\ KInv /\ [Next]_vars => KInv'
<1> SUFFICES ASSUME IInv, KInv, [Next]_vars, NEW e \in End
             PROVE  /\ Silence(e)'
                    /\ Ahead(e)' \/ (Ahead(Peer(e))' /\ selackoffset'[e] = 1)
  BY DEF KInv
<1> DEFINE f == Peer(e)
<1>1. f \in End /\ Peer(f) = e BY Ends
<1>2. Silence(e) /\ Silence(f) BY <1>1 DEF KInv
<1>3. Silence(e)' BY <1>2, SilenceKeeps
<1>4. selackoffset[e] \in {0, 1} /\ (selackoffset[e] = 1 => selackoffset'[e] = 1)
      /\ selackoffset[f] \in {0, 1}
  BY <1>1, SelackStep
<1>5. CASE Ahead(f) /\ selackoffset[e] = 1
  BY <1>1, <1>3, <1>4, <1>5, AheadKeeps
<1>6. CASE Ahead(e) /\ (selackoffset[f] = 1 \/ ~Holds(f, rxSequence[f]))
  BY <1>3, <1>6, AheadKeeps
<1>7. CASE selackoffset[f] = 0 /\ Holds(f, rxSequence[f])
  <2>1. Ahead(f) BY <1>2, <1>7 DEF Silence, Ahead
  <2>2. rxSequence[f] \in Nat BY <1>1 DEF IInv, TypeOK
  <2>3. rxSequence[f] % DefaultBuffer \in 0 .. DefaultBuffer - 1 BY <2>2, Sizes, DivMod
  <2>4. selackoffset[e] = 1 BY <1>2, <1>4, <1>7, <2>2, <2>3 DEF Silence, Holds, RxSlot
  <2> QED BY <1>1, <1>3, <1>4, <2>1, <2>4, AheadKeeps
<1>8. Ahead(e)' \/ (Ahead(f)' /\ selackoffset'[e] = 1) BY <1>4, <1>5, <1>6, <1>7 DEF KInv
<1> QED BY <1>3, <1>8

-----------------------------------------------------------------------------
(* The theorems.                                                           *)

\* At any time one end at least is told of no fragment its peer waits for.
THEOREM KnowledgeCorrect == Spec => []KInv
<1>1. Init => KInv
  <2> SUFFICES ASSUME Init, NEW e \in End PROVE Silence(e) /\ Ahead(e)
    BY DEF KInv
  <2>1. Peer(e) \in End BY Ends
  <2>2. Named(e) = {} BY DEF Init, Named
  <2>3. \A s \in 0 .. DefaultBuffer - 1 : rxBuffer[Peer(e)][s].ack = -1
    BY <2>1 DEF Init, Blank
  <2>4. wire[Peer(e)] = {} BY <2>1 DEF Init
  <2> QED BY <2>2, <2>3, <2>4 DEF Silence, Ahead
<1>2. IInv /\ KInv /\ [Next]_vars => KInv' BY KnowledgeNextKeeps
<1> QED BY <1>1, <1>2, Correct, PTL DEF Spec

\* The ends are never both silent, each waiting for the acknowledge of the other
\* (selackoffset, ReliableMessagesTransmitNextFragment).
THEOREM NoStandoffCorrect == Spec => []NoStandoff
<1>1. IInv /\ KInv => NoStandoff
  <2>1. ASSUME IInv, NEW e \in End, Silent(e) PROVE ~Ahead(e)
    <3> DEFINE low == txAcknowledge[e]
    <3>1. low \in Nat /\ txSequence[e] \in Nat /\ low < txSequence[e]
      BY <2>1 DEF IInv, TypeOK, Silent
    <3>2. low \in low .. low + TxWindow - 1 BY <3>1, Sizes
    <3>3. TxSlot(e, low).ack = low BY <2>1, <3>1, <3>2 DEF Silent, Unsent
    <3>4. low \in Stops(e) /\ low \in Named(e) BY <3>1, <3>3 DEF Stops, Named
    <3> QED BY <3>4 DEF Ahead
  <2> QED BY <2>1 DEF KInv, NoStandoff, End, Peer
<1> QED BY <1>1, Correct, KnowledgeCorrect, PTL

\* What a sender knows of an outstanding fragment it never forgets, in particular not
\* when the ring is resized (ReliableMessageChangeSendBufferSize).
THEOREM KnowledgeKeptCorrect == Spec => KnowledgeKept
<1>1. IInv /\ [Next]_vars =>
        [\A e \in End : \A i \in txAcknowledge'[e] .. txSequence[e] - 1 :
           TxSlot(e, i).ack = i => TxSlot(e, i)'.ack = i]_vars
  BY MarksKept
<1> QED BY <1>1, Correct, PTL DEF Spec, KnowledgeKept
==============================================================================
