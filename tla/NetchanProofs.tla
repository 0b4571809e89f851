---------------------------- MODULE NetchanProofs ----------------------------
(***************************************************************************)
(* Proofs about the sequenced channel, for every fragment size, receive    *)
(* buffer and set of lengths, as long as a message is sent whole before    *)
(* the next one (Spec).  The packets of a message are known by their       *)
(* offsets; the invariant says which of them have gone out, what the       *)
(* receiver has joined, and, if the network is not faulty, that exactly    *)
(* the packets from some point on are still in flight.                     *)
(***************************************************************************)
EXTENDS Netchan, NumberFacts, SequenceTheorems, FiniteSetTheorems

Message == [length : Lengths, key : Nat]

\* The offsets of the packets of a message: the multiples of the fragment size.
Offsets(length) == {s \in 0 .. length : \E k \in Nat : s = FragmentSize * k}

\* The packet of message m, which r tells of, with the offset s.
PacketOf(m, r, s) ==
  IF r.length < FragmentSize
    THEN [sequence |-> r.key, fragmented |-> FALSE, start |-> 0, data |-> Body(m, r.length)]
    ELSE FragmentPacket(r.key, Body(m, r.length), s)

Packet(m, s) == PacketOf(m, sent[m], s)

\* The packets of m that have gone out.
Gone(m) ==
  {s \in Offsets(sent[m].length) : m = Len(sent) /\ unsentFragments => s < unsentFragmentStart}

\* Messages are numbered upwards; while one is under way, the number is its own.
Numbered ==
  /\ outgoingSequence \in Nat \ {0}
  /\ sent \in Seq(Message) /\ Len(sent) <= MaxMessages
  /\ \A m \in 1 .. Len(sent) :
       /\ 1 <= sent[m].key /\ sent[m].key <= outgoingSequence
       /\ ~unsentFragments => sent[m].key < outgoingSequence
  /\ \A m, n \in 1 .. Len(sent) : m < n => sent[m].key < sent[n].key

\* What is under way is the last message.
UnderWay ==
  unsentFragments =>
    /\ 1 <= Len(sent)
    /\ unsentBuffer = Body(Len(sent), sent[Len(sent)].length)
    /\ sent[Len(sent)].key = outgoingSequence
    /\ FragmentSize <= sent[Len(sent)].length
    /\ unsentFragmentStart \in Offsets(sent[Len(sent)].length)

\* The packets in flight have gone out.
OnWire == \A p \in wire : \E m \in 1 .. Len(sent) : \E s \in Gone(m) : p = Packet(m, s)

Known(sequence) == sequence = 0 \/ \E m \in 1 .. Len(sent) : sequence = sent[m].key

\* The receiver has the beginning of one message.
Assembly ==
  /\ Known(incomingSequence) /\ Known(fragmentSequence)
  /\ fragmentBuffer # << >> =>
       \E m \in 1 .. Len(sent) : /\ fragmentSequence = sent[m].key
                                 /\ Len(fragmentBuffer) <= sent[m].length
                                 /\ fragmentBuffer = Body(m, Len(fragmentBuffer))

\* Nothing that was received is newer than the receiver's number.
Past == \A i \in 1 .. Len(received) : received[i].sequence <= incomingSequence

\* All before the packet of message c with the offset s has arrived, nothing after it.
Cursor(c, s) ==
  /\ c = Len(sent) + 1 => s = 0 /\ ~unsentFragments
  /\ c <= Len(sent) => s \in Offsets(sent[c].length)
  /\ c = Len(sent) /\ unsentFragments => s <= unsentFragmentStart
  /\ \A m \in 1 .. Len(sent) : \A t \in Gone(m) :
       Packet(m, t) \in wire <=> m > c \/ (m = c /\ t >= s)
  /\ \A m \in c .. Len(sent) : incomingSequence < sent[m].key
  /\ s = 0 => \A m \in c .. Len(sent) : fragmentSequence < sent[m].key
  /\ s > 0 => /\ fragmentSequence = sent[c].key
              /\ \/ Len(fragmentBuffer) = s
                 \/ Len(fragmentBuffer) < s /\ FragmentBufferSize < s
  /\ Len(received) = Cardinality({m \in 1 .. c - 1 : sent[m].length <= FragmentBufferSize})

InOrder == ~faulty => \E c \in 1 .. Len(sent) + 1 : \E s \in Nat : Cursor(c, s)

IInv ==
  /\ TypeOK
  /\ Numbered
  /\ UnderWay
  /\ OnWire
  /\ Assembly
  /\ WholeMessages
  /\ Past
  /\ InOrder

-----------------------------------------------------------------------------
(* Messages and fragments.                                                 *)

\* Offsets begin with 0 and are a fragment apart.
LEMMA OffsetFacts ==
  ASSUME NEW length \in Nat
  PROVE  /\ 0 \in Offsets(length)
         /\ Offsets(length) \subseteq Nat
         /\ \A s \in Offsets(length) : s <= length
         /\ \A s \in Offsets(length) : s + FragmentSize <= length => s + FragmentSize \in Offsets(length)
         /\ \A s, t \in Offsets(length) : s < t => s + FragmentSize <= t
         /\ length < FragmentSize => Offsets(length) = {0}
<1> USE SizeAssumption
<1>1. 0 \in Offsets(length) /\ Offsets(length) \subseteq Nat /\ \A s \in Offsets(length) : s <= length
  <2>1. 0 = FragmentSize * 0 OBVIOUS
  <2> QED BY <2>1 DEF Offsets
<1>2. ASSUME NEW s \in Offsets(length), s + FragmentSize <= length
      PROVE  s + FragmentSize \in Offsets(length)
  <2>1. PICK k \in Nat : s = FragmentSize * k BY <1>2 DEF Offsets
  <2>2. s + FragmentSize = FragmentSize * (k + 1) /\ k + 1 \in Nat BY <2>1
  <2>3. s \in Nat /\ s + FragmentSize \in 0 .. length BY <1>1, <1>2
  <2> QED BY <2>2, <2>3 DEF Offsets
<1>3. ASSUME NEW s \in Offsets(length), NEW t \in Offsets(length), s < t
      PROVE  s + FragmentSize <= t
  <2>1. PICK k \in Nat : s = FragmentSize * k BY <1>3 DEF Offsets
  <2>2. PICK l \in Nat : t = FragmentSize * l BY <1>3 DEF Offsets
  <2>3. s \in Nat /\ t \in Nat BY <1>1, <1>3
  <2>4. CASE k < l BY <2>1, <2>2, <2>4, Multiples
  <2>5. CASE l < k
    <3>1. s >= t + FragmentSize BY <2>1, <2>2, <2>5, Multiples
    <3> QED BY <3>1, <2>3, <1>3
  <2>6. CASE k = l BY <2>6, <2>1, <2>2, <2>3, <1>3
  <2> QED BY <2>4, <2>5, <2>6
<1>4. ASSUME length < FragmentSize, NEW s \in Offsets(length), s # 0 PROVE FALSE
  <2>1. s \in Nat /\ s <= length BY <1>1, <1>4
  <2>2. FragmentSize <= s BY <1>1, <1>3, <1>4, <2>1
  <2> QED BY <2>1, <2>2, <1>4
<1> QED BY <1>1, <1>2, <1>3, <1>4

\* What a fragment holds.
LEMMA Fragment ==
  ASSUME NEW m \in Nat, NEW length \in Nat, NEW s \in 0 .. length
  PROVE  /\ Body(m, length) \in Seq({m} \X (Nat \ {0}))
         /\ Len(Body(m, length)) = length
         /\ FragmentAt(Body(m, length), s) \in Seq({m} \X (Nat \ {0}))
         /\ Len(FragmentAt(Body(m, length), s)) =
              IF s + FragmentSize > length THEN length - s ELSE FragmentSize
         /\ Body(m, s) \o FragmentAt(Body(m, length), s) =
              Body(m, s + Len(FragmentAt(Body(m, length), s)))
<1> USE SizeAssumption
<1> DEFINE S == {m} \X (Nat \ {0})
<1> DEFINE top == IF s + FragmentSize > length THEN length ELSE s + FragmentSize
<1> DEFINE data == SubSeq(Body(m, length), s + 1, top)
<1>1. \A n \in Nat : Body(m, n) \in Seq(S) /\ Len(Body(m, n)) = n /\ \A i \in 1 .. n : Body(m, n)[i] = <<m, i>>
  BY DEF Body
<1>2. FragmentAt(Body(m, length), s) = data BY <1>1 DEF FragmentAt
<1>3. top \in s .. length /\ top \in Nat OBVIOUS
<1>4. /\ data \in Seq(S) /\ Len(data) = top - s
      /\ \A i \in 1 .. top - s : data[i] = <<m, s + i>>
  <2>1. ASSUME NEW i \in s + 1 .. top PROVE Body(m, length)[i] \in S
    <3>1. i \in 1 .. length /\ i \in Nat \ {0}
      <4> HIDE DEF top
      <4> QED BY <1>3
    <3>2. Body(m, length)[i] = <<m, i>> BY <1>1, <3>1
    <3> QED BY <3>1, <3>2
  <2>2. /\ data \in Seq(S) /\ Len(data) = IF s + 1 <= top THEN top - (s + 1) + 1 ELSE 0
        /\ \A i \in 1 .. top - (s + 1) + 1 : data[i] = Body(m, length)[s + 1 + i - 1]
    <3> HIDE DEF S, top
    <3> QED BY <2>1, <1>3, SubSeqProperties
  <2> HIDE DEF data
  <2>3. ASSUME NEW i \in 1 .. top - s PROVE data[i] = <<m, s + i>>
    <3> HIDE DEF top
    <3>1. s + 1 + i - 1 = s + i /\ i \in 1 .. top - (s + 1) + 1 /\ s + i \in 1 .. length BY <1>3
    <3>2. data[i] = Body(m, length)[s + i] BY <2>2, <3>1
    <3> QED BY <3>1, <3>2, <1>1
  <2> QED BY <2>2, <2>3, <1>3
<1>5. Body(m, s) \o data = Body(m, top)
  <2> HIDE DEF data, top
  <2>1. /\ Body(m, s) \o data \in Seq(S) /\ Len(Body(m, s) \o data) = top
        /\ \A i \in 1 .. top : (Body(m, s) \o data)[i] = IF i <= s THEN <<m, i>> ELSE data[i - s]
    <3>1. Body(m, s) \in Seq(S) /\ Len(Body(m, s)) = s /\ \A i \in 1 .. s : Body(m, s)[i] = <<m, i>>
      <4>1. s \in Nat OBVIOUS
      <4> HIDE DEF S
      <4> QED BY ONLY <4>1, <1>1
    <3>2. data \in Seq(S) /\ Len(data) = top - s BY <1>4 DEF data, top
    <3> HIDE DEF S
    <3>3. /\ Body(m, s) \o data \in Seq(S) /\ Len(Body(m, s) \o data) = s + (top - s)
          /\ \A i \in 1 .. s + (top - s) :
               (Body(m, s) \o data)[i] = IF i <= s THEN Body(m, s)[i] ELSE data[i - s]
      <4> DEFINE b == Body(m, s)
      <4>1. b \in Seq(S) /\ data \in Seq(S) BY <3>1, <3>2
      <4> HIDE DEF b
      <4>2. /\ b \o data \in Seq(S) /\ Len(b \o data) = Len(b) + Len(data)
            /\ \A i \in 1 .. Len(b) + Len(data) :
                 (b \o data)[i] = IF i <= Len(b) THEN b[i] ELSE data[i - Len(b)]
        BY <4>1, ConcatProperties
      <4> QED BY <4>2, <3>1, <3>2 DEF b
    <3>4. s + (top - s) = top BY <1>3 DEF top
    <3>5. ASSUME NEW i \in 1 .. top, i <= s PROVE Body(m, s)[i] = <<m, i>> BY <3>1, <1>3, <3>5
    <3> QED BY <3>3, <3>4, <3>5
  <2>2. ASSUME NEW i \in 1 .. top PROVE (Body(m, s) \o data)[i] = <<m, i>>
    <3>1. CASE i <= s BY <3>1, <2>1
    <3>2. CASE ~(i <= s)
      <4>1. top \in Nat BY <1>3 DEF top
      <4>2. i - s \in 1 .. top - s /\ s + (i - s) = i BY <3>2, <4>1
      <4>3. data[i - s] = <<m, i>> BY <4>2, <1>4 DEF data, top
      <4> QED BY <4>3, <3>2, <2>1
    <3> QED BY <3>1, <3>2
  <2>3. Body(m, top) \in Seq(S) /\ Len(Body(m, top)) = top /\ \A i \in 1 .. top : Body(m, top)[i] = <<m, i>>
    BY <1>1, <1>3
  <2> HIDE DEF S
  <2> QED BY <2>1, <2>2, <2>3, SeqEqual
<1> HIDE DEF data
<1>6. s + Len(data) = top /\ Len(data) = IF s + FragmentSize > length THEN length - s ELSE FragmentSize
  BY <1>3, <1>4
<1> QED BY <1>1, <1>2, <1>4, <1>5, <1>6

\* What a packet carries.
LEMMA PacketFacts ==
  ASSUME NEW m \in 1 .. MaxMessages, NEW r \in Message, NEW s \in Offsets(r.length)
  PROVE  LET p == PacketOf(m, r, s) IN
         /\ p \in PacketType
         /\ p.sequence = r.key /\ p.start = s
         /\ p.fragmented <=> FragmentSize <= r.length
         /\ p.data = IF FragmentSize <= r.length THEN FragmentAt(Body(m, r.length), s)
                                                 ELSE Body(m, r.length)
<1> USE SizeAssumption
<1>1. r.length \in Nat \ {0} /\ r.key \in Nat /\ m \in Nat
  <2>1. r.length \in Lengths /\ r.key \in Nat BY DEF Message
  <2>2. r.length \in Nat \ {0} BY <2>1
  <2>3. m \in Nat OBVIOUS
  <2> QED BY <2>1, <2>2, <2>3
<1>2. s \in 0 .. r.length /\ s \in Nat /\ (r.length < FragmentSize => s = 0)
  BY <1>1, OffsetFacts
<1>3. /\ Body(m, r.length) \in Seq({m} \X (Nat \ {0}))
      /\ FragmentAt(Body(m, r.length), s) \in Seq({m} \X (Nat \ {0}))
  BY <1>1, <1>2, Fragment
<1>4. {m} \X (Nat \ {0}) \subseteq Bytes BY DEF Bytes
<1>5. Body(m, r.length) \in Seq(Bytes) /\ FragmentAt(Body(m, r.length), s) \in Seq(Bytes)
  BY <1>3, <1>4, SeqMonotonic
<1>6. CASE r.length < FragmentSize
  BY <1>1, <1>2, <1>5, <1>6 DEF PacketOf, PacketType
<1>7. CASE ~(r.length < FragmentSize)
  BY <1>1, <1>2, <1>5, <1>7 DEF PacketOf, FragmentPacket, PacketType
<1> QED BY <1>6, <1>7

\* The messages that were sent, and that their numbers tell them apart.
LEMMA SentFacts ==
  ASSUME Numbered, NEW m \in 1 .. Len(sent)
  PROVE  /\ m \in 1 .. MaxMessages /\ m \in Nat
         /\ sent[m] \in Message /\ sent[m].length \in Nat \ {0} /\ sent[m].key \in Nat
         /\ Gone(m) \subseteq Offsets(sent[m].length)
         /\ \A n \in 1 .. Len(sent) : sent[n].key = sent[m].key => n = m
         /\ \A n \in 1 .. Len(sent) : sent[n].key < sent[m].key => n < m
<1>1. /\ Len(sent) \in Nat /\ MaxMessages \in Nat /\ Len(sent) <= MaxMessages
      /\ \A n \in 1 .. Len(sent) : sent[n] \in Message
  BY SizeAssumption DEF Numbered
<1>2. /\ sent[m].length \in Nat \ {0} /\ \A n \in 1 .. Len(sent) : sent[n].key \in Nat
  BY <1>1, SizeAssumption DEF Message
<1>3. \A n \in 1 .. Len(sent) : n < m \/ n = m \/ m < n BY <1>1
<1>4. \A n \in 1 .. Len(sent) : /\ n < m => sent[n].key < sent[m].key
                                /\ m < n => sent[m].key < sent[n].key
  BY DEF Numbered
<1> QED BY <1>1, <1>2, <1>3, <1>4 DEF Gone

\* The same for the packets that have gone out.
LEMMA GoneFacts ==
  ASSUME Numbered, NEW m \in 1 .. Len(sent), NEW s \in Gone(m)
  PROVE  /\ Packet(m, s) \in PacketType
         /\ Packet(m, s).sequence = sent[m].key /\ Packet(m, s).start = s
         /\ s \in Nat /\ s <= sent[m].length
         /\ \A n \in 1 .. Len(sent) : \A t \in Gone(n) : Packet(n, t) = Packet(m, s) => n = m /\ t = s
<1>1. ASSUME NEW n \in 1 .. Len(sent), NEW t \in Gone(n)
      PROVE  /\ Packet(n, t) \in PacketType
             /\ Packet(n, t).sequence = sent[n].key /\ Packet(n, t).start = t
             /\ t \in Offsets(sent[n].length)
  <2>1. n \in 1 .. MaxMessages /\ sent[n] \in Message /\ t \in Offsets(sent[n].length) BY SentFacts
  <2> QED BY <2>1, PacketFacts DEF Packet
<1>2. s \in Nat /\ s <= sent[m].length BY <1>1, SentFacts, OffsetFacts
<1> QED BY <1>1, <1>2, SentFacts

\* Both at once, and for the state after a step.
Sound ==
  \A m \in 1 .. Len(sent) :
    /\ m \in 1 .. MaxMessages /\ sent[m] \in Message
    /\ sent[m].length \in Nat \ {0} /\ sent[m].key \in Nat /\ 1 <= sent[m].key
    /\ \A n \in 1 .. Len(sent) : sent[n].key = sent[m].key => n = m
    /\ \A n \in 1 .. Len(sent) : sent[n].key < sent[m].key => n < m
    /\ \A s \in Gone(m) :
         /\ s \in Offsets(sent[m].length)
         /\ Packet(m, s) \in PacketType
         /\ Packet(m, s).sequence = sent[m].key /\ Packet(m, s).start = s
         /\ \A n \in 1 .. Len(sent) : \A t \in Gone(n) : Packet(n, t) = Packet(m, s) => n = m /\ t = s

\* Messages that are numbered upwards are apart: a number tells the message.
LEMMA SoundNow == Numbered => Sound
<1> SUFFICES ASSUME Numbered, NEW m \in 1 .. Len(sent)
             PROVE  /\ m \in 1 .. MaxMessages /\ sent[m] \in Message
                    /\ sent[m].length \in Nat \ {0} /\ sent[m].key \in Nat /\ 1 <= sent[m].key
                    /\ \A n \in 1 .. Len(sent) : sent[n].key = sent[m].key => n = m
                    /\ \A n \in 1 .. Len(sent) : sent[n].key < sent[m].key => n < m
                    /\ \A s \in Gone(m) :
                         /\ s \in Offsets(sent[m].length)
                         /\ Packet(m, s) \in PacketType
                         /\ Packet(m, s).sequence = sent[m].key /\ Packet(m, s).start = s
                         /\ \A n \in 1 .. Len(sent) : \A t \in Gone(n) :
                              Packet(n, t) = Packet(m, s) => n = m /\ t = s
  BY DEF Sound
<1>1. 1 <= sent[m].key BY DEF Numbered
<1>2. /\ m \in 1 .. MaxMessages /\ sent[m] \in Message
      /\ sent[m].length \in Nat \ {0} /\ sent[m].key \in Nat
      /\ \A n \in 1 .. Len(sent) : sent[n].key = sent[m].key => n = m
      /\ \A n \in 1 .. Len(sent) : sent[n].key < sent[m].key => n < m
      /\ Gone(m) \subseteq Offsets(sent[m].length)
  BY SentFacts
<1>3. \A s \in Gone(m) :
        /\ Packet(m, s) \in PacketType
        /\ Packet(m, s).sequence = sent[m].key /\ Packet(m, s).start = s
        /\ \A n \in 1 .. Len(sent) : \A t \in Gone(n) : Packet(n, t) = Packet(m, s) => n = m /\ t = s
  BY GoneFacts
<1> QED BY <1>1, <1>2, <1>3

\* The same of the state after a step.
LEMMA SoundNext == Numbered' => Sound'
BY SoundNow, PTL

-----------------------------------------------------------------------------
(* The initial state.                                                      *)

\* The invariant holds at the start.
LEMMA InitIInv == Init => IInv
<1> SUFFICES ASSUME Init PROVE IInv OBVIOUS
<1> USE SizeAssumption DEF Init
<1>1. TypeOK
  <2>1. << >> \in Seq(Bytes) /\ Len(<< >>) = 0 /\ sent \in Seq([length : Lengths, key : Nat])
        /\ received \in Seq([sequence : Nat, data : Seq(Bytes)])
    BY EmptySeq
  <2>2. unsentFragmentStart \in 0 .. Len(unsentBuffer) /\ Len(fragmentBuffer) <= FragmentBufferSize BY <2>1
  <2>3. wire \in SUBSET PacketType OBVIOUS
  <2> QED BY <2>1, <2>2, <2>3 DEF TypeOK
<1>2. Numbered /\ UnderWay /\ OnWire BY DEF Numbered, UnderWay, OnWire
<1>3. Assembly /\ WholeMessages /\ Past BY DEF Assembly, Known, WholeMessages, Past
<1>4. Cursor(1, 0)
  <2>1. {m \in 1 .. 1 - 1 : sent[m].length <= FragmentBufferSize} = {} OBVIOUS
  <2>2. Cardinality({m \in 1 .. 1 - 1 : sent[m].length <= FragmentBufferSize}) = 0
    BY <2>1, FS_EmptySet
  <2> QED BY <2>2 DEF Cursor
<1>5. InOrder BY <1>4 DEF InOrder
<1> QED BY <1>1, <1>2, <1>3, <1>5 DEF IInv

-----------------------------------------------------------------------------
(* Sending.                                                                *)

\* What a call that sends does: the packets that are new go out, the others stay.
New(m, s) == ~(m <= Len(sent) /\ s \in Gone(m))

Transmits ==
  /\ UNCHANGED <<receiverVars, faulty>>
  /\ Numbered' /\ UnderWay'
  /\ Len(sent') \in {Len(sent), Len(sent) + 1}
  /\ Len(sent') = Len(sent) =>
       unsentFragments /\ (unsentFragments' => unsentFragmentStart <= unsentFragmentStart')
  /\ \A m \in 1 .. Len(sent) : sent'[m] = sent[m] /\ Gone(m) \subseteq Gone(m)'
  /\ \A m \in 1 .. Len(sent') : m < Len(sent) => Gone(m)' = Gone(m)
  /\ unsentFragments' \in BOOLEAN /\ unsentBuffer' \in Seq(Bytes)
  /\ unsentFragmentStart' \in 0 .. Len(unsentBuffer')
  /\ \A p \in wire' : p \in wire \/ \E m \in 1 .. Len(sent') : \E s \in Gone(m)' : p = Packet(m, s)'
  /\ ~faulty => /\ wire \subseteq wire'
                /\ \A m \in 1 .. Len(sent') : \A s \in Gone(m)' : New(m, s) => Packet(m, s)' \in wire'
                /\ \A p \in wire' : p \in wire \/
                     \E m \in 1 .. Len(sent') : \E s \in Gone(m)' : New(m, s) /\ p = Packet(m, s)'

\* Put in the form the proofs use.
LEMMA PutEffect ==
  ASSUME NEW packets, Put(packets)
  PROVE  /\ faulty' = faulty
         /\ wire' \subseteq wire \cup packets
         /\ ~faulty => wire' = wire \cup packets
BY DEF Put

\* The next fragment goes out.
LEMMA NextFragmentTransmits ==
  ASSUME IInv, unsentFragments, TransmitNextFragment
  PROVE  Transmits
<1> USE SizeAssumption
<1>0. PICK M, length, start :
        M = Len(sent) /\ length = sent[M].length /\ start = unsentFragmentStart
  OBVIOUS
<1>1. /\ Numbered /\ M \in 1 .. Len(sent) /\ M \in Nat
      /\ length \in Nat \ {0} /\ FragmentSize <= length
      /\ unsentBuffer = Body(M, length) /\ sent[M].key = outgoingSequence
      /\ start \in Offsets(length) /\ outgoingSequence \in Nat \ {0}
      /\ unsentBuffer \in Seq(Bytes) /\ unsentFragments = TRUE
  <2>1. Numbered /\ UnderWay /\ unsentBuffer \in Seq(Bytes) /\ unsentFragments = TRUE
    BY DEF IInv, TypeOK
  <2>2. 1 <= M /\ M \in Nat BY <1>0, <2>1 DEF Numbered, UnderWay
  <2>3. M \in 1 .. Len(sent) BY <1>0, <2>2
  <2> QED BY <1>0, <2>1, <2>2, <2>3, SentFacts DEF UnderWay, Numbered
<1>2. start \in Nat /\ start <= length BY <1>1, OffsetFacts
<1>3. /\ Len(unsentBuffer) = length
      /\ Len(FragmentAt(unsentBuffer, start)) = IF start + FragmentSize > length THEN length - start ELSE FragmentSize
  <2>1. start \in 0 .. length /\ length \in Nat BY <1>1, <1>2
  <2>2. /\ Len(Body(M, length)) = length
        /\ Len(FragmentAt(Body(M, length), start)) =
             IF start + FragmentSize > length THEN length - start ELSE FragmentSize
    <3>1. M \in Nat BY <1>1
    <3> HIDE SizeAssumption
    <3> QED BY ONLY <3>1, <2>1, Fragment, Zenon
  <2> QED BY <2>2, <1>1
<1>4. /\ sent' = sent /\ unsentBuffer' = unsentBuffer /\ UNCHANGED receiverVars
      /\ unsentFragmentStart' = IF start + FragmentSize > length THEN length ELSE start + FragmentSize
      /\ IF start + FragmentSize > length
           THEN outgoingSequence' = outgoingSequence + 1 /\ unsentFragments' = FALSE
           ELSE outgoingSequence' = outgoingSequence /\ unsentFragments' = TRUE
  <2>1. unsentFragmentStart' = start + Len(FragmentAt(unsentBuffer, start)) BY <1>0 DEF TransmitNextFragment
  <2>2. unsentFragmentStart' = IF start + FragmentSize > length THEN length ELSE start + FragmentSize
    BY <2>1, <1>1, <1>2, <1>3
  <2>3. IF start + FragmentSize > length
          THEN outgoingSequence' = outgoingSequence + 1 /\ unsentFragments' = FALSE
          ELSE outgoingSequence' = outgoingSequence /\ unsentFragments' = unsentFragments
    BY <1>0, <1>3 DEF TransmitNextFragment, IsLast
  <2> QED BY <2>2, <2>3, <1>1 DEF TransmitNextFragment
<1>5. Put({Packet(M, start)})
  <2>1. Packet(M, start) = FragmentPacket(outgoingSequence, unsentBuffer, start)
    BY <1>0, <1>1 DEF Packet, PacketOf
  <2> QED BY <2>1, <1>0 DEF TransmitNextFragment
<1>6. \A m, s : Packet(m, s)' = Packet(m, s) BY <1>4 DEF Packet
<1>7. Numbered'
  <2>1. \A m \in 1 .. Len(sent) : /\ 1 <= sent[m].key /\ sent[m].key <= outgoingSequence
                                  /\ sent[m].key \in Nat
    BY <1>1, SentFacts DEF Numbered
  <2>2. \A m \in 1 .. Len(sent) : sent[m].key <= outgoingSequence' /\ (~unsentFragments' => sent[m].key < outgoingSequence')
    BY <2>1, <1>1, <1>4
  <2>3. outgoingSequence' \in Nat \ {0} BY <1>1, <1>4
  <2> QED BY <2>1, <2>2, <2>3, <1>1, <1>4 DEF Numbered
<1>8. UnderWay'
  <2> SUFFICES ASSUME unsentFragments'
               PROVE  /\ outgoingSequence' = outgoingSequence
                      /\ unsentFragmentStart' \in Offsets(length)
    BY <1>0, <1>1, <1>4 DEF UnderWay
  <2>1. start + FragmentSize <= length BY <1>4, <1>2, <1>1
  <2> QED BY <2>1, <1>1, <1>4, <1>2, OffsetFacts
<1>9. Gone(M)' = Gone(M) \cup {start}
  <2>1. Gone(M) = {s \in Offsets(length) : s < start} BY <1>0, <1>1 DEF Gone
  <2>2. CASE start + FragmentSize > length
    <3>1. Gone(M)' = Offsets(length) BY <1>0, <2>2, <1>4 DEF Gone
    <3>2. ASSUME NEW s \in Offsets(length) PROVE s < start \/ s = start
      <4>1. s \in Nat /\ s <= length /\ (start < s => start + FragmentSize <= s) BY <1>1, OffsetFacts
      <4> QED BY <4>1, <2>2, <1>1, <1>2
    <3> QED BY <3>1, <3>2, <2>1, <1>1
  <2>3. CASE ~(start + FragmentSize > length)
    <3>1. Gone(M)' = {s \in Offsets(length) : s < start + FragmentSize} BY <1>0, <2>3, <1>4 DEF Gone
    <3>2. ASSUME NEW s \in Offsets(length) PROVE s < start + FragmentSize <=> s < start \/ s = start
      <4>1. s \in Nat /\ s <= length /\ (start < s => start + FragmentSize <= s) BY <1>1, OffsetFacts
      <4> QED BY <4>1, <1>2
    <3> QED BY <3>1, <3>2, <2>1, <1>1
  <2> QED BY <2>2, <2>3
<1>10. \A m \in 1 .. Len(sent) : m # M => Gone(m)' = Gone(m) BY <1>0, <1>4 DEF Gone
<1>11. New(M, start) BY <1>0, <1>1, <1>2 DEF Gone, New
<1>12. \A m \in 1 .. Len(sent) : \A s \in Gone(m)' : New(m, s) => m = M /\ s = start
  <2> SUFFICES ASSUME NEW m \in 1 .. Len(sent), NEW s \in Gone(m)', New(m, s), ~(m = M /\ s = start)
               PROVE  FALSE
    OBVIOUS
  <2>1. m <= Len(sent) BY <1>0, <1>1
  <2>2. s \in Gone(m) BY <1>9, <1>10
  <2> QED BY <2>1, <2>2 DEF New
<1>13. unsentFragmentStart' \in 0 .. Len(unsentBuffer') BY <1>1, <1>2, <1>3, <1>4
<1>14. /\ faulty' = faulty /\ wire' \subseteq wire \cup {Packet(M, start)}
       /\ ~faulty => wire' = wire \cup {Packet(M, start)}
  BY <1>5, PutEffect
<1>15. /\ \A m \in 1 .. Len(sent) : sent'[m] = sent[m] /\ Gone(m) \subseteq Gone(m)'
       /\ \A m \in 1 .. Len(sent') : m < Len(sent) => Gone(m)' = Gone(m)
  <2>1. ASSUME NEW m \in 1 .. Len(sent) PROVE Gone(m) \subseteq Gone(m)'
    <3>1. CASE m = M BY <3>1, <1>9
    <3>2. CASE m # M BY <3>2, <1>10
    <3> QED BY <3>1, <3>2
  <2>2. ASSUME NEW m \in 1 .. Len(sent), m < Len(sent) PROVE Gone(m)' = Gone(m)
    <3>1. m # M BY <2>2, <1>0, <1>1
    <3> QED BY <3>1, <1>10
  <2> QED BY <2>1, <2>2, <1>4
<1>16. /\ \A p \in wire' : p \in wire \/ p = Packet(M, start)'
       /\ ~faulty => wire \subseteq wire' /\ Packet(M, start)' \in wire'
  BY <1>6, <1>14
<1>17. start \in Gone(M)' /\ M \in 1 .. Len(sent') BY <1>9, <1>1, <1>4
<1>18. \A p \in wire' : p \in wire \/
         \E m \in 1 .. Len(sent') : \E s \in Gone(m)' : New(m, s) /\ p = Packet(m, s)'
  BY <1>11, <1>16, <1>17
<1>19. \A m \in 1 .. Len(sent') : \A s \in Gone(m)' : New(m, s) => m = M /\ s = start
  BY <1>12, <1>4
<1>20. /\ faulty' = faulty /\ UNCHANGED receiverVars
       /\ Len(sent') = Len(sent) /\ unsentFragments' \in BOOLEAN /\ unsentBuffer' \in Seq(Bytes)
       /\ unsentFragmentStart <= unsentFragmentStart'
  <2>1. Len(sent) = Len(sent') /\ unsentFragmentStart <= unsentFragmentStart'
    BY <1>0, <1>1, <1>2, <1>4
  <2>2. unsentFragments' \in BOOLEAN /\ unsentBuffer' \in Seq(Bytes) BY <1>1, <1>4
  <2> QED BY <2>1, <2>2, <1>4, <1>14
<1> QED BY <1>7, <1>8, <1>13, <1>15, <1>16, <1>18, <1>19, <1>20 DEF Transmits

\* A new message is transmitted, after all that is left of the one before it.
LEMMA NewMessageTransmits ==
  ASSUME IInv, NEW sequence \in Nat \ {0}, NEW length \in Lengths, NEW earlier,
         \A m \in 1 .. Len(sent) : sent[m].key < sequence,
         earlier = {Packet(x[1], x[2]) :
                      x \in {x \in (1 .. Len(sent)) \X Nat :
                               x[2] \in Offsets(sent[x[1]].length) /\ x[2] \notin Gone(x[1])}},
         TransmitAs(sequence, length, earlier), length < FragmentSize => unsentFragments' = FALSE
  PROVE  Transmits
<1> USE SizeAssumption
<1>0. PICK M, r : M = Len(sent) + 1 /\ r = [length |-> length, key |-> sequence] OBVIOUS
<1>1. /\ Numbered /\ unsentBuffer \in Seq(Bytes) /\ unsentFragments \in BOOLEAN
      /\ Len(sent) \in Nat /\ M \in Nat /\ M <= MaxMessages /\ length \in Nat \ {0}
      /\ r \in Message
  BY <1>0 DEF IInv, TypeOK, Numbered, TransmitAs, Message
<1>2. /\ sent' = Append(sent, r) /\ sent' \in Seq(Message) /\ Len(sent') = M
      /\ \A m \in 1 .. Len(sent) : sent'[m] = sent[m]
      /\ sent'[M] = r
  BY <1>0, <1>1 DEF TransmitAs, Numbered
<1>3. 0 \in Offsets(length) /\ \A s \in Offsets(length) : s \in Nat BY <1>1, OffsetFacts
<1>4. \/ /\ length >= FragmentSize
         /\ unsentFragments' = TRUE /\ unsentBuffer' = Body(M, length)
         /\ unsentFragmentStart' = FragmentSize /\ outgoingSequence' = sequence
      \/ /\ length < FragmentSize
         /\ unsentFragments' = FALSE /\ unsentBuffer' = unsentBuffer
         /\ unsentFragmentStart' = 0 /\ outgoingSequence' = sequence + 1
  BY <1>0, <1>1 DEF TransmitAs
<1>5. Put(earlier \cup {PacketOf(M, r, 0)}) /\ UNCHANGED receiverVars
  <2>1. PacketOf(M, r, 0) =
          IF length >= FragmentSize THEN FragmentPacket(sequence, Body(M, length), 0)
          ELSE [sequence |-> sequence, fragmented |-> FALSE, start |-> 0, data |-> Body(M, length)]
    BY <1>0, <1>1 DEF PacketOf
  <2>2. CASE length >= FragmentSize BY <2>1, <2>2, <1>0 DEF TransmitAs
  <2>3. CASE ~(length >= FragmentSize) BY <2>1, <2>3, <1>0 DEF TransmitAs
  <2> QED BY <2>2, <2>3
<1>6. \A m \in 1 .. Len(sent) : m \in 1 .. Len(sent') /\ m # Len(sent') BY <1>0, <1>1, <1>2
<1>7. \A m \in 1 .. Len(sent) : \A s : Packet(m, s)' = Packet(m, s) BY <1>2 DEF Packet
<1>8. \A m \in 1 .. Len(sent) : Gone(m)' = Offsets(sent[m].length) BY <1>2, <1>6 DEF Gone
<1>9. Gone(M)' = {0}
  <2>1. Gone(M)' = {s \in Offsets(length) : unsentFragments' => s < unsentFragmentStart'}
    BY <1>0, <1>2 DEF Gone
  <2>2. CASE length < FragmentSize BY <2>1, <2>2, <1>1, <1>4, OffsetFacts
  <2>3. CASE length >= FragmentSize
    <3>1. ASSUME NEW s \in Offsets(length) PROVE s < FragmentSize <=> s = 0
      <4>1. s \in Nat /\ (0 < s => 0 + FragmentSize <= s) BY <1>1, <1>3, OffsetFacts
      <4> QED BY <4>1
    <3> QED BY <3>1, <2>1, <2>3, <1>1, <1>3, <1>4
  <2> QED BY <2>2, <2>3, <1>1
<1>10. Numbered'
  <2>1. \A m \in 1 .. Len(sent) : sent[m].key \in Nat BY <1>1, SentFacts
  <2>2. /\ \A m \in 1 .. Len(sent) : 1 <= sent[m].key
        /\ \A m, n \in 1 .. Len(sent) : m < n => sent[m].key < sent[n].key
    BY <1>1 DEF Numbered
  <2>3. r.key = sequence BY <1>0
  <2>4. \A m \in 1 .. Len(sent') : m = M \/ (m \in 1 .. Len(sent) /\ m < M) BY <1>0, <1>1, <1>2
  <2>5. \A m \in 1 .. Len(sent') : 1 <= sent'[m].key /\ sent'[m].key <= sequence /\ sent'[m].key \in Nat
    BY <2>1, <2>2, <2>3, <2>4, <1>2
  <2>6. ASSUME NEW m \in 1 .. Len(sent'), NEW n \in 1 .. Len(sent'), m < n
        PROVE  sent'[m].key < sent'[n].key
    <3>1. m \in 1 .. Len(sent) BY <2>4, <2>6, <1>0, <1>1, <1>2
    <3>2. CASE n = M BY <3>1, <3>2, <2>3, <1>2
    <3>3. CASE n \in 1 .. Len(sent) BY <3>1, <3>3, <2>2, <2>6, <1>2
    <3> QED BY <3>2, <3>3, <2>4
  <2>7. outgoingSequence' \in Nat \ {0} /\ sequence <= outgoingSequence'
        /\ (~unsentFragments' => sequence < outgoingSequence')
    BY <1>4
  <2>8. \A m \in 1 .. Len(sent') : /\ sent'[m].key <= outgoingSequence'
                                   /\ ~unsentFragments' => sent'[m].key < outgoingSequence'
    BY <2>5, <2>7
  <2> QED BY <2>5, <2>6, <2>7, <2>8, <1>1, <1>2 DEF Numbered
<1>11. UnderWay'
  <2> SUFFICES ASSUME unsentFragments'
               PROVE  FragmentSize \in Offsets(length) /\ FragmentSize <= length
    BY <1>0, <1>1, <1>2, <1>4 DEF UnderWay
  <2>1. FragmentSize <= length BY <1>4, <1>1
  <2>2. 0 + FragmentSize \in Offsets(length) BY <2>1, <1>1, <1>3, OffsetFacts
  <2> QED BY <2>1, <2>2
<1>12. /\ unsentFragments' \in BOOLEAN /\ unsentBuffer' \in Seq(Bytes)
       /\ unsentFragmentStart' \in 0 .. Len(unsentBuffer')
  <2>1. CASE length >= FragmentSize
    <3>1. M \in 1 .. MaxMessages BY <1>0, <1>1
    <3>2. Body(M, length) \in Seq(Bytes) /\ Len(Body(M, length)) = length
      <4>1. length \in Nat BY <1>1
      <4>2. \A at \in 1 .. length : <<M, at>> \in Bytes BY <3>1, <4>1 DEF Bytes
      <4> QED BY ONLY <4>1, <4>2 DEF Body
    <3>3. /\ unsentBuffer' = Body(M, length) /\ unsentFragmentStart' = FragmentSize
          /\ unsentFragments' = TRUE
      BY <2>1, <1>1, <1>4
    <3>4. Len(unsentBuffer') = length /\ unsentBuffer' \in Seq(Bytes) BY <3>2, <3>3
    <3> QED BY <3>3, <3>4, <2>1, <1>1
  <2>2. CASE length < FragmentSize
    <3>1. Len(unsentBuffer) \in Nat BY <1>1
    <3>2. unsentBuffer' = unsentBuffer /\ unsentFragmentStart' = 0 /\ unsentFragments' = FALSE
      BY <2>2, <1>1, <1>4
    <3>3. Len(unsentBuffer') \in Nat /\ unsentBuffer' \in Seq(Bytes) BY <3>1, <3>2, <1>1
    <3>4. unsentFragmentStart' \in 0 .. Len(unsentBuffer') BY <3>2, <3>3
    <3> QED BY <3>2, <3>3, <3>4
  <2> QED BY <2>1, <2>2, <1>1
<1>13. /\ faulty' = faulty /\ wire' \subseteq wire \cup (earlier \cup {PacketOf(M, r, 0)})
       /\ ~faulty => wire' = wire \cup (earlier \cup {PacketOf(M, r, 0)})
  BY <1>5, PutEffect
<1>14. Packet(M, 0)' = PacketOf(M, r, 0) BY <1>2 DEF Packet
<1>15. \A p \in earlier \cup {PacketOf(M, r, 0)} :
         \E m \in 1 .. Len(sent') : \E s \in Gone(m)' : New(m, s) /\ p = Packet(m, s)'
  <2>1. M \in 1 .. Len(sent') /\ 0 \in Gone(M)' /\ New(M, 0) BY <1>0, <1>1, <1>2, <1>9 DEF New
  <2>2. ASSUME NEW p \in earlier
        PROVE  \E m \in 1 .. Len(sent') : \E s \in Gone(m)' : New(m, s) /\ p = Packet(m, s)'
    <3>1. PICK m \in 1 .. Len(sent), s \in Nat :
            s \in Offsets(sent[m].length) /\ s \notin Gone(m) /\ p = Packet(m, s)
      BY <2>2
    <3> QED BY <3>1, <1>6, <1>7, <1>8 DEF New
  <2> QED BY <2>1, <2>2, <1>14
<1>16. ASSUME NEW m \in 1 .. Len(sent'), NEW s \in Gone(m)', New(m, s)
       PROVE  Packet(m, s)' \in earlier \cup {PacketOf(M, r, 0)}
  <2>1. CASE m = M BY <2>1, <1>9, <1>14, <1>16
  <2>2. CASE m \in 1 .. Len(sent)
    <3>1. s \in Offsets(sent[m].length) /\ s \notin Gone(m) BY <2>2, <1>1, <1>8, <1>16 DEF New
    <3>2. sent[m].length \in Nat BY <2>2, <1>1, SentFacts
    <3>3. s \in Nat BY <3>1, <3>2, OffsetFacts
    <3>4. Packet(m, s)' = Packet(m, s) BY <2>2, <1>7
    <3>5. PICK x \in (1 .. Len(sent)) \X Nat : x[1] = m /\ x[2] = s
      <4>1. <<m, s>> \in (1 .. Len(sent)) \X Nat BY <2>2, <3>3
      <4> QED BY <4>1
    <3>6. Packet(m, s) \in earlier BY <2>2, <3>1, <3>3, <3>5
    <3> QED BY <3>4, <3>6
  <2> QED BY <2>1, <2>2, <1>0, <1>1, <1>2
<1>17. \A m \in 1 .. Len(sent) : sent'[m] = sent[m] /\ Gone(m) \subseteq Gone(m)'
  BY ONLY <1>1, <1>2, <1>8, SentFacts
<1>18. \A m \in 1 .. Len(sent') : m < Len(sent) => Gone(m)' = Gone(m)
  <2> SUFFICES ASSUME NEW m \in 1 .. Len(sent'), m < Len(sent) PROVE Gone(m)' = Gone(m) OBVIOUS
  <2>1. m \in 1 .. Len(sent) /\ m # Len(sent) BY <1>0, <1>1, <1>2
  <2>2. Gone(m) = Offsets(sent[m].length) BY <2>1 DEF Gone
  <2> QED BY <2>1, <2>2, <1>8
<1>19. Len(sent') = Len(sent) + 1 /\ Len(sent') # Len(sent) BY <1>0, <1>1, <1>2
<1>20. \A p \in wire' : p \in wire \/
         \E m \in 1 .. Len(sent') : \E s \in Gone(m)' : New(m, s) /\ p = Packet(m, s)'
  BY <1>13, <1>15
<1>21. ~faulty => /\ wire \subseteq wire'
                  /\ \A m \in 1 .. Len(sent') : \A s \in Gone(m)' : New(m, s) => Packet(m, s)' \in wire'
  BY <1>13, <1>16
<1>22. UNCHANGED <<receiverVars, faulty>> BY <1>5, <1>13
<1> QED BY <1>10, <1>11, <1>12, <1>17, <1>18, <1>19, <1>20, <1>21, <1>22 DEF Transmits

\* What SV_SendClientGameState still has to send of the last message.
LEMMA RemainingPackets ==
  ASSUME IInv, unsentFragments
  PROVE  Remaining = {Packet(x[1], x[2]) :
                        x \in {x \in (1 .. Len(sent)) \X Nat :
                                 x[2] \in Offsets(sent[x[1]].length) /\ x[2] \notin Gone(x[1])}}
<1> USE SizeAssumption
<1> DEFINE M == Len(sent)
<1> DEFINE length == sent[M].length
<1> DEFINE start == unsentFragmentStart
<1> DEFINE high == (length - start) \div FragmentSize
<1> DEFINE all == {x \in (1 .. Len(sent)) \X Nat : x[2] \in Offsets(sent[x[1]].length) /\ x[2] \notin Gone(x[1])}
<1>1. /\ Numbered /\ M \in 1 .. Len(sent) /\ length \in Nat \ {0} /\ FragmentSize <= length
      /\ unsentBuffer = Body(M, length) /\ sent[M].key = outgoingSequence
      /\ start \in Offsets(length) /\ M \in Nat
  <2>1. Numbered /\ UnderWay BY DEF IInv
  <2>2. M \in 1 .. Len(sent) BY <2>1 DEF UnderWay, Numbered
  <2> QED BY <2>1, <2>2, SentFacts DEF UnderWay
<1>2. start \in Nat /\ start <= length BY <1>1, OffsetFacts
<1>3. Len(unsentBuffer) = length BY <1>1 DEF Body
<1>4. \A s : Packet(M, s) = FragmentPacket(outgoingSequence, unsentBuffer, s)
  BY <1>1 DEF Packet, PacketOf
<1>5. Remaining = {FragmentPacket(outgoingSequence, unsentBuffer, start + k * FragmentSize) : k \in 0 .. high}
  BY <1>3 DEF Remaining
<1>6. high \in Nat /\ length - start = FragmentSize * high + ((length - start) % FragmentSize)
      /\ (length - start) % FragmentSize \in 0 .. FragmentSize - 1
  <2>1. length - start \in Nat BY <1>1, <1>2
  <2> HIDE DEF length, start
  <2> QED BY <2>1, DivMod
<1>7. PICK k0 \in Nat : start = FragmentSize * k0 BY <1>1 DEF Offsets
<1>8. ASSUME NEW k \in 0 .. high
      PROVE  \E x \in all : Packet(x[1], x[2]) = Packet(M, start + k * FragmentSize)
  <2>1. FragmentSize * k <= FragmentSize * high
    <3>1. k \in Int /\ high \in Int BY <1>6
    <3> HIDE DEF high
    <3>2. CASE k = high BY <3>2, <3>1
    <3>3. CASE k < high
      <4>1. FragmentSize * high >= FragmentSize * k + FragmentSize BY <3>1, <3>3, Multiples
      <4> QED BY <4>1, <3>1
    <3> QED BY <3>1, <3>2, <3>3
  <2>2. PICK s : s = start + k * FragmentSize OBVIOUS
  <2>3. s = FragmentSize * (k0 + k) /\ k0 + k \in Nat /\ s \in Nat /\ start <= s
    <3>1. k \in Nat BY <1>6
    <3> HIDE DEF start, high
    <3>2. FragmentSize * k \in Nat /\ k * FragmentSize = FragmentSize * k BY <3>1
    <3> QED BY <3>1, <3>2, <2>2, <1>2, <1>7
  <2>4. s <= length
    <3>1. k * FragmentSize = FragmentSize * k /\ FragmentSize * k \in Nat /\ FragmentSize * high \in Nat
      <4>1. k \in Nat BY <1>6
      <4> HIDE DEF high
      <4> QED BY <4>1, <1>6
    <3> HIDE DEF high, start, length
    <3> QED BY <2>1, <2>2, <3>1, <1>1, <1>2, <1>6
  <2>5. s \in Offsets(length) BY <2>3, <2>4, <1>1 DEF Offsets
  <2>6. s \notin Gone(M) BY <2>3, <1>2 DEF Gone
  <2>7. PICK x \in (1 .. Len(sent)) \X Nat : x[1] = M /\ x[2] = s
    <3>1. <<M, s>> \in (1 .. Len(sent)) \X Nat BY <1>1, <2>3
    <3> QED BY <3>1
  <2>8. x \in all BY <2>5, <2>6, <2>7
  <2> QED BY <2>2, <2>7, <2>8
<1>9. ASSUME NEW x \in all
      PROVE  \E k \in 0 .. high : Packet(x[1], x[2]) = Packet(M, start + k * FragmentSize)
  <2>1. x[1] = M BY DEF Gone
  <2>2. PICK s \in Nat : s = x[2] /\ s \in Offsets(length) /\ start <= s
    <3>1. x[2] \in Nat /\ x[2] \in Offsets(length) /\ ~(x[2] < start) BY <2>1 DEF Gone
    <3> QED BY <3>1, <1>2
  <2>3. PICK l \in Nat : s = FragmentSize * l BY <2>2 DEF Offsets
  <2>4. s <= length BY <2>2, <1>1, OffsetFacts
  <2>5. k0 <= l
    <3> SUFFICES ASSUME l < k0 PROVE FALSE BY <1>7, <2>3
    <3>1. FragmentSize * k0 >= FragmentSize * l + FragmentSize BY Multiples
    <3> HIDE DEF start
    <3> QED BY <3>1, <1>7, <2>2, <2>3
  <2>6. PICK k \in Nat : k = l - k0 BY <2>5
  <2>7. k <= high
    <3> SUFFICES ASSUME high < k PROVE FALSE
      <4> HIDE DEF high
      <4> QED BY <1>6
    <3>1. FragmentSize * k >= FragmentSize * high + FragmentSize
      <4> HIDE DEF high
      <4> QED BY <1>6, Multiples
    <3>2. FragmentSize * k = s - start
      <4>1. FragmentSize * (l - k0) = FragmentSize * l - FragmentSize * k0 OBVIOUS
      <4> QED BY <4>1, <2>3, <2>6, <1>7
    <3>3. FragmentSize * high \in Nat
      <4> HIDE DEF high
      <4> QED BY <1>6
    <3> HIDE DEF high, start, length
    <3>4. PICK a, b : a = FragmentSize * high /\ b = (length - start) % FragmentSize OBVIOUS
    <3>5. a \in Nat /\ s - start >= a + FragmentSize /\ length - start = a + b /\ b \in 0 .. FragmentSize - 1
      BY <3>1, <3>2, <3>3, <3>4, <1>6
    <3> QED BY <3>5, <2>4, <1>1, <1>2
  <2>8. start + k * FragmentSize = s
    <3> HIDE DEF start
    <3>1. FragmentSize * (l - k0) = FragmentSize * l - FragmentSize * k0 /\ k * FragmentSize = FragmentSize * k
      OBVIOUS
    <3> QED BY <3>1, <2>3, <2>6, <1>7
  <2>9. k \in 0 .. high
    <3> HIDE DEF high
    <3> QED BY <2>7, <1>6
  <2> HIDE DEF high, start
  <2> QED BY <2>1, <2>2, <2>8, <2>9
<1> HIDE DEF all, high, start, M, length
<1>10. Remaining = {Packet(M, start + k * FragmentSize) : k \in 0 .. high} BY <1>4, <1>5
<1>11. Remaining = {Packet(x[1], x[2]) : x \in all} BY <1>8, <1>9, <1>10
<1> QED BY <1>11 DEF all

\* Every call that sends.
LEMMA SendingTransmits ==
  ASSUME IInv, NEW length \in Lengths, SendClientMessages(length) \/ SendClientGameState(length)
  PROVE  Transmits
<1> DEFINE left == {Packet(x[1], x[2]) :
                      x \in {x \in (1 .. Len(sent)) \X Nat :
                               x[2] \in Offsets(sent[x[1]].length) /\ x[2] \notin Gone(x[1])}}
<1>1. /\ outgoingSequence \in Nat \ {0} /\ unsentFragments \in BOOLEAN
      /\ \A m \in 1 .. Len(sent) : /\ sent[m].key \in Nat /\ sent[m].key <= outgoingSequence
                                   /\ ~unsentFragments => sent[m].key < outgoingSequence
  <2>1. Numbered BY DEF IInv
  <2> QED BY <2>1, SentFacts DEF Numbered, IInv, TypeOK
<1>2. CASE ~unsentFragments /\ Transmit(length)
  <2>1. left = {} BY <1>2 DEF Gone
  <2>2. \A m \in 1 .. Len(sent) : sent[m].key < outgoingSequence BY <1>1, <1>2
  <2>3. TransmitAs(outgoingSequence, length, left) BY <1>2, <2>1 DEF Transmit
  <2>4. length < FragmentSize => unsentFragments' = FALSE BY <1>2, <1>1 DEF Transmit
  <2> QED BY <1>1, <2>2, <2>3, <2>4, NewMessageTransmits
<1>3. CASE unsentFragments /\ TransmitNextFragment BY <1>3, NextFragmentTransmits
<1>4. CASE unsentFragments /\ TransmitAs(outgoingSequence + 1, length, Remaining)
           /\ (length < FragmentSize => unsentFragments' = FALSE)
  <2>1. Remaining = left BY <1>4, RemainingPackets
  <2>2. /\ outgoingSequence + 1 \in Nat \ {0}
        /\ \A m \in 1 .. Len(sent) : sent[m].key < outgoingSequence + 1
    BY <1>1
  <2>3. TransmitAs(outgoingSequence + 1, length, left) BY <1>4, <2>1
  <2> QED BY <1>4, <2>2, <2>3, NewMessageTransmits
<1> QED BY <1>2, <1>3, <1>4 DEF SendClientMessages, SendClientGameState

\* A packet that went out before is the same after a step that sends.
LEMMA TransmitsKeepsPackets ==
  ASSUME IInv, Transmits, NEW m \in 1 .. Len(sent)
  PROVE  /\ m \in 1 .. Len(sent') /\ sent'[m] = sent[m]
         /\ \A s : Packet(m, s)' = Packet(m, s)
         /\ \A s \in Gone(m) : s \in Gone(m)'
<1>1. Len(sent) \in Nat BY DEF IInv, Numbered
<1>2. m \in 1 .. Len(sent') BY <1>1 DEF Transmits
<1>3. sent'[m] = sent[m] /\ Gone(m) \subseteq Gone(m)' BY DEF Transmits
<1> QED BY <1>2, <1>3 DEF Packet

\* Where a new packet stands: after all that went out before.
LEMMA NewIsLast ==
  ASSUME IInv, Transmits, NEW m \in 1 .. Len(sent'), NEW s \in Gone(m)', New(m, s)
  PROVE  \/ m = Len(sent) + 1
         \/ /\ m = Len(sent) /\ unsentFragments
            /\ s \in Offsets(sent[m].length) /\ unsentFragmentStart <= s
<1>1. /\ Numbered /\ Len(sent) \in Nat /\ Len(sent') \in {Len(sent), Len(sent) + 1}
      /\ unsentFragments \in BOOLEAN
  <2>1. TypeOK /\ Numbered BY DEF IInv
  <2>2. sent \in Seq(Message) BY ONLY <2>1 DEF Numbered
  <2>3. Len(sent) \in Nat BY ONLY <2>2, LenProperties
  <2>4. unsentFragments \in BOOLEAN BY ONLY <2>1 DEF TypeOK
  <2>5. Len(sent') \in {Len(sent), Len(sent) + 1} BY DEF Transmits
  <2> QED BY ONLY <2>1, <2>3, <2>4, <2>5
<1> SUFFICES ASSUME m \in 1 .. Len(sent)
             PROVE  /\ m = Len(sent) /\ unsentFragments
                    /\ s \in Offsets(sent[m].length) /\ unsentFragmentStart <= s
  BY <1>1
<1>2. s \notin Gone(m) BY <1>1 DEF New
<1>3. m = Len(sent) BY <1>1, <1>2 DEF Transmits
<1>4. s \in Offsets(sent[m].length) BY TransmitsKeepsPackets DEF Gone
<1>5. unsentFragments /\ ~(s < unsentFragmentStart) BY <1>2, <1>3, <1>4 DEF Gone
<1>6. s \in Nat /\ unsentFragmentStart \in Nat
  <2>1. sent[m].length \in Nat BY <1>1, SentFacts
  <2>2. unsentFragmentStart \in Offsets(sent[m].length) BY <1>3, <1>5 DEF IInv, UnderWay
  <2> QED BY <2>1, <2>2, <1>4, OffsetFacts
<1> QED BY <1>3, <1>4, <1>5, <1>6

\* On a network that is not faulty, the new packets are in flight after the others.
LEMMA SendKeepsOrder ==
  ASSUME IInv, Transmits
  PROVE  InOrder'
<1> SUFFICES ASSUME ~faulty PROVE \E c \in 1 .. Len(sent') + 1 : \E s \in Nat : Cursor(c, s)'
  BY DEF Transmits, InOrder
<1>1. PICK c \in 1 .. Len(sent) + 1, s \in Nat : Cursor(c, s) BY DEF IInv, InOrder
<1>2. /\ Numbered /\ Len(sent) \in Nat /\ Len(sent') \in {Len(sent), Len(sent) + 1}
      /\ Numbered' /\ Len(sent') \in Nat
  BY DEF IInv, Numbered, Transmits
<1>3. Sound /\ Sound' BY <1>2, SoundNow, SoundNext
<1>4. c \in 1 .. Len(sent') + 1 /\ c \in Nat BY <1>2
<1>5. Len(sent') = Len(sent) =>
        unsentFragments /\ (unsentFragments' => unsentFragmentStart <= unsentFragmentStart')
  BY DEF Transmits
<1>6. c = Len(sent) + 1 => s = 0 /\ ~unsentFragments BY <1>1 DEF Cursor
<1>7. c = Len(sent') + 1 => s = 0 /\ ~unsentFragments' BY <1>2, <1>4, <1>5, <1>6
<1>8. c <= Len(sent') => s \in Offsets(sent'[c].length)
  <2>1. CASE c <= Len(sent)
    <3>1. c \in 1 .. Len(sent) BY <2>1
    <3>2. sent'[c] = sent[c] BY <3>1, TransmitsKeepsPackets
    <3> QED BY <3>2, <2>1, <1>1 DEF Cursor
  <2>2. CASE c = Len(sent) + 1
    <3> SUFFICES ASSUME c <= Len(sent') PROVE 0 \in Offsets(sent'[c].length) BY <2>2, <1>6
    <3>1. c \in 1 .. Len(sent') BY <1>2
    <3>2. sent'[c].length \in Nat BY <3>1, <1>3 DEF Sound
    <3> QED BY <3>2, OffsetFacts
  <2> QED BY <2>1, <2>2, <1>2
<1>9. c = Len(sent') /\ unsentFragments' => s <= unsentFragmentStart'
  <2> SUFFICES ASSUME c = Len(sent'), unsentFragments' PROVE s <= unsentFragmentStart' OBVIOUS
  <2>0. unsentFragmentStart' \in Nat
    <3>1. unsentFragmentStart' \in 0 .. Len(unsentBuffer') BY DEF Transmits
    <3> QED BY <3>1
  <2>1. CASE Len(sent') = Len(sent)
    <3>1. s <= unsentFragmentStart BY <2>1, <1>1, <1>5 DEF Cursor
    <3>2. unsentFragmentStart \in Nat
      <4>1. unsentFragmentStart \in 0 .. Len(unsentBuffer) BY DEF IInv, TypeOK
      <4> QED BY <4>1
    <3> QED BY <3>1, <3>2, <2>0, <2>1, <1>5
  <2>2. CASE Len(sent') = Len(sent) + 1 BY <2>2, <2>0, <1>6
  <2> QED BY <2>1, <2>2, <1>2
<1>10. ASSUME NEW m \in 1 .. Len(sent'), NEW t \in Gone(m)'
       PROVE  Packet(m, t)' \in wire' <=> m > c \/ (m = c /\ t >= s)
  <2>1. CASE New(m, t)
    <3>1. Packet(m, t)' \in wire' BY <2>1 DEF Transmits
    <3>2. CASE m = Len(sent) + 1
      <4>1. t \in Nat
        <5>1. t \in Offsets(sent'[m].length) /\ sent'[m].length \in Nat BY <1>3 DEF Sound
        <5> QED BY <5>1, OffsetFacts
      <4> QED BY <3>1, <3>2, <4>1, <1>2, <1>6
    <3>3. CASE /\ m = Len(sent) /\ unsentFragments
               /\ t \in Offsets(sent[m].length) /\ unsentFragmentStart <= t
      <4>1. c <= Len(sent) BY <3>3, <1>2, <1>6
      <4>2. t \in Nat /\ unsentFragmentStart \in Nat
        <5>1. sent[m].length \in Nat BY <3>3, <1>2, SentFacts
        <5>2. unsentFragmentStart \in Offsets(sent[m].length) BY <3>3 DEF IInv, UnderWay
        <5> QED BY <5>1, <5>2, <3>3, OffsetFacts
      <4>3. c = Len(sent) => s <= t BY <4>2, <3>3, <1>1 DEF Cursor
      <4> QED BY <4>1, <4>2, <4>3, <3>1, <3>3, <1>2
    <3> QED BY <2>1, <3>2, <3>3, NewIsLast
  <2>2. CASE ~New(m, t)
    <3>1. m \in 1 .. Len(sent) /\ t \in Gone(m) BY <2>2, <1>2 DEF New
    <3>2. Packet(m, t)' = Packet(m, t) BY <3>1, TransmitsKeepsPackets
    <3>3. Packet(m, t) \in wire => Packet(m, t)' \in wire' BY <3>2 DEF Transmits
    <3>4. ASSUME Packet(m, t)' \in wire', Packet(m, t) \notin wire PROVE FALSE
      <4>1. PICK n \in 1 .. Len(sent') :
              \E u \in Gone(n)' : New(n, u) /\ Packet(m, t)' = Packet(n, u)'
        BY <3>2, <3>4 DEF Transmits
      <4>2. PICK u \in Gone(n)' : New(n, u) /\ Packet(m, t)' = Packet(n, u)' BY <4>1
      <4>3. n = m /\ u = t BY <4>2, <1>3 DEF Sound
      <4> QED BY <4>2, <4>3, <2>2
    <3>5. Packet(m, t) \in wire <=> m > c \/ (m = c /\ t >= s) BY <3>1, <1>1 DEF Cursor
    <3> QED BY <3>2, <3>3, <3>4, <3>5
  <2> QED BY <2>1, <2>2
<1>11. ASSUME NEW x, Known(x), NEW m \in c .. Len(sent'), \A n \in c .. Len(sent) : x < sent[n].key
       PROVE  x < sent'[m].key
  <2>1. m \in 1 .. Len(sent') BY <1>4
  <2>2. CASE m \in 1 .. Len(sent)
    <3>1. m \in c .. Len(sent) BY <2>2, <1>4
    <3> QED BY <3>1, <2>2, <1>11, TransmitsKeepsPackets
  <2>3. CASE m = Len(sent) + 1
    <3>1. sent'[m].key \in Nat /\ 1 <= sent'[m].key BY <2>1, <1>3 DEF Sound
    <3>2. CASE x = 0 BY <3>1, <3>2
    <3>3. ASSUME NEW k \in 1 .. Len(sent), x = sent[k].key PROVE x < sent'[m].key
      <4>1. k \in 1 .. Len(sent') /\ sent'[k] = sent[k] BY <3>3, TransmitsKeepsPackets
      <4>2. k < m BY <2>3, <1>2
      <4> QED BY <4>1, <4>2, <2>1, <3>3, <1>2 DEF Numbered
    <3> QED BY <3>2, <3>3, <1>11 DEF Known
  <2> QED BY <2>1, <2>2, <2>3, <1>2
<1>12. /\ incomingSequence' = incomingSequence /\ fragmentSequence' = fragmentSequence
       /\ fragmentBuffer' = fragmentBuffer /\ received' = received
  BY DEF Transmits, receiverVars
<1>13. Known(incomingSequence) /\ Known(fragmentSequence) BY DEF IInv, Assembly
<1>14. \A m \in c .. Len(sent') : incomingSequence' < sent'[m].key
  <2>1. \A n \in c .. Len(sent) : incomingSequence < sent[n].key BY <1>1 DEF Cursor
  <2> QED BY <2>1, <1>11, <1>12, <1>13
<1>15. s = 0 => \A m \in c .. Len(sent') : fragmentSequence' < sent'[m].key
  <2> SUFFICES ASSUME s = 0 PROVE \A m \in c .. Len(sent') : fragmentSequence' < sent'[m].key OBVIOUS
  <2>1. \A n \in c .. Len(sent) : fragmentSequence < sent[n].key BY <1>1 DEF Cursor
  <2> QED BY <2>1, <1>11, <1>12, <1>13
<1>16. s > 0 => /\ fragmentSequence' = sent'[c].key
                /\ \/ Len(fragmentBuffer') = s
                   \/ Len(fragmentBuffer') < s /\ FragmentBufferSize < s
  <2> SUFFICES ASSUME s > 0
               PROVE  /\ fragmentSequence' = sent'[c].key
                      /\ \/ Len(fragmentBuffer') = s
                         \/ Len(fragmentBuffer') < s /\ FragmentBufferSize < s
    OBVIOUS
  <2>1. c \in 1 .. Len(sent) BY <1>2, <1>6
  <2>2. sent'[c] = sent[c] BY <2>1, TransmitsKeepsPackets
  <2> QED BY <2>2, <1>1, <1>12 DEF Cursor
<1>17. Len(received') = Cardinality({m \in 1 .. c - 1 : sent'[m].length <= FragmentBufferSize})
  <2>1. \A m \in 1 .. c - 1 : m \in 1 .. Len(sent) BY <1>2
  <2>2. \A m \in 1 .. c - 1 : sent'[m] = sent[m] BY <2>1, TransmitsKeepsPackets
  <2>3. {m \in 1 .. c - 1 : sent'[m].length <= FragmentBufferSize}
          = {m \in 1 .. c - 1 : sent[m].length <= FragmentBufferSize}
    BY <2>2
  <2> QED BY <2>3, <1>1, <1>12 DEF Cursor
<1>18. Cursor(c, s)'
  BY <1>7, <1>8, <1>9, <1>10, <1>14, <1>15, <1>16, <1>17 DEF Cursor
<1> QED BY <1>4, <1>18

\* A call that sends keeps the invariant.
LEMMA SendKeeps ==
  ASSUME IInv, Transmits
  PROVE  IInv'
<1>1. /\ Numbered /\ Len(sent) \in Nat /\ Len(sent') \in {Len(sent), Len(sent) + 1}
      /\ Numbered' /\ Len(sent') \in Nat /\ UnderWay'
  BY DEF IInv, Numbered, Transmits
<1>2. Sound' BY <1>1, SoundNext
<1>3. /\ UNCHANGED <<incomingSequence, fragmentSequence, fragmentBuffer, received, faulty>>
  BY DEF Transmits, receiverVars
<1>4. OnWire'
  <2> SUFFICES ASSUME NEW p \in wire'
               PROVE  \E m \in 1 .. Len(sent') : \E s \in Gone(m)' : p = Packet(m, s)'
    BY DEF OnWire
  <2>1. CASE p \in wire
    <3>1. PICK m \in 1 .. Len(sent) : \E s \in Gone(m) : p = Packet(m, s) BY <2>1 DEF IInv, OnWire
    <3> QED BY <3>1, TransmitsKeepsPackets
  <2> QED BY <2>1 DEF Transmits
<1>5. TypeOK'
  <2>1. wire' \in SUBSET PacketType
    <3>1. ASSUME NEW p \in wire' PROVE p \in PacketType
      <4>1. PICK m \in 1 .. Len(sent') : \E s \in Gone(m)' : p = Packet(m, s)' BY <1>4 DEF OnWire
      <4> QED BY <4>1, <1>2 DEF Sound
    <3> QED BY <3>1
  <2>2. outgoingSequence' \in Nat /\ sent' \in Seq([length : Lengths, key : Nat])
    BY <1>1 DEF Numbered, Message
  <2>3. /\ unsentFragments' \in BOOLEAN /\ unsentBuffer' \in Seq(Bytes)
        /\ unsentFragmentStart' \in 0 .. Len(unsentBuffer')
    BY DEF Transmits
  <2>4. /\ incomingSequence' \in Nat /\ fragmentSequence' \in Nat /\ fragmentBuffer' \in Seq(Bytes)
        /\ Len(fragmentBuffer') <= FragmentBufferSize
        /\ received' \in Seq([sequence : Nat, data : Seq(Bytes)]) /\ faulty' \in BOOLEAN
    BY <1>3 DEF IInv, TypeOK
  <2> QED BY <2>1, <2>2, <2>3, <2>4 DEF TypeOK
<1>6. Assembly'
  <2>1. \A x : Known(x) => Known(x)' BY TransmitsKeepsPackets DEF Known
  <2>2. Known(incomingSequence)' /\ Known(fragmentSequence)'
    <3>1. Known(incomingSequence) /\ Known(fragmentSequence) BY DEF IInv, Assembly
    <3> QED BY <3>1, <1>3, TransmitsKeepsPackets DEF Known
  <2>3. ASSUME fragmentBuffer' # << >>
        PROVE  \E m \in 1 .. Len(sent') : /\ fragmentSequence' = sent'[m].key
                                          /\ Len(fragmentBuffer') <= sent'[m].length
                                          /\ fragmentBuffer' = Body(m, Len(fragmentBuffer'))
    <3>1. PICK m \in 1 .. Len(sent) : /\ fragmentSequence = sent[m].key
                                      /\ Len(fragmentBuffer) <= sent[m].length
                                      /\ fragmentBuffer = Body(m, Len(fragmentBuffer))
      BY <2>3, <1>3 DEF IInv, Assembly
    <3>2. m \in 1 .. Len(sent') /\ sent'[m] = sent[m] BY TransmitsKeepsPackets
    <3> QED BY <3>1, <3>2, <1>3
  <2> QED BY <2>2, <2>3 DEF Assembly
<1>7. WholeMessages'
  <2> SUFFICES ASSUME NEW i \in 1 .. Len(received')
               PROVE  /\ received'[i].data # << >>
                      /\ Number(received'[i].data) \in 1 .. Len(sent')
                      /\ received'[i].data =
                           Body(Number(received'[i].data), sent'[Number(received'[i].data)].length)
                      /\ received'[i].sequence = sent'[Number(received'[i].data)].key
    BY DEF WholeMessages, Number
  <2>1. received' = received BY <1>3
  <2>2. /\ received[i].data # << >>
        /\ Number(received[i].data) \in 1 .. Len(sent)
        /\ received[i].data = Body(Number(received[i].data), sent[Number(received[i].data)].length)
        /\ received[i].sequence = sent[Number(received[i].data)].key
    BY <2>1 DEF IInv, WholeMessages
  <2>3. /\ Number(received[i].data) \in 1 .. Len(sent')
        /\ sent'[Number(received[i].data)] = sent[Number(received[i].data)]
    BY <2>2, TransmitsKeepsPackets
  <2> QED BY <2>1, <2>2, <2>3
<1>8. Past' BY <1>3 DEF IInv, Past
<1> QED BY <1>1, <1>4, <1>5, <1>6, <1>7, <1>8, SendKeepsOrder DEF IInv

-----------------------------------------------------------------------------
(* Receiving.                                                              *)

\* How far message m is known with its fragment at s.
Top(m, s) ==
  IF s + FragmentSize > sent[m].length THEN sent[m].length ELSE s + FragmentSize

Delivers(m) ==
  /\ incomingSequence' = sent[m].key
  /\ received' = Append(received, [sequence |-> sent[m].key, data |-> Body(m, sent[m].length)])

\* What the fragment at s of m does to a receiver that has the first j bytes of m.
JoinsAt(m, s, j) ==
  \/ /\ s # j \/ Top(m, s) > FragmentBufferSize
     /\ fragmentBuffer' = Body(m, j)
     /\ UNCHANGED <<incomingSequence, received>>
  \/ /\ s = j /\ s + FragmentSize <= sent[m].length /\ s + FragmentSize <= FragmentBufferSize
     /\ fragmentBuffer' = Body(m, s + FragmentSize)
     /\ UNCHANGED <<incomingSequence, received>>
  \/ /\ s = j /\ s + FragmentSize > sent[m].length /\ sent[m].length <= FragmentBufferSize
     /\ fragmentBuffer' = << >>
     /\ Delivers(m)

\* What the packet of m with the offset s does to the receiver, ...
Outcome(m, s) ==
  \/ sent[m].key <= incomingSequence /\ UNCHANGED receiverVars
  \/ /\ sent[m].key > incomingSequence /\ sent[m].length < FragmentSize
     /\ Delivers(m)
     /\ UNCHANGED <<fragmentSequence, fragmentBuffer>>
  \/ /\ sent[m].key > incomingSequence /\ FragmentSize <= sent[m].length
     /\ fragmentSequence' = sent[m].key
     /\ \E j \in Nat :
          /\ j <= sent[m].length /\ j <= FragmentBufferSize
          /\ j = IF fragmentSequence = sent[m].key THEN Len(fragmentBuffer) ELSE 0
          /\ JoinsAt(m, s, j)

\* ... and what happens when it arrives.
Arrival(m, s) ==
  /\ UNCHANGED <<senderVars, faulty>>
  /\ \/ faulty /\ wire' = wire
     \/ ~faulty /\ Oldest(Packet(m, s)) /\ wire' = wire \ {Packet(m, s)}
  /\ Outcome(m, s)

\* What the receiver has of a message.
LEMMA JoinedPart ==
  ASSUME IInv, NEW m \in 1 .. Len(sent), NEW p, p.sequence = sent[m].key
  PROVE  \E j \in Nat :
           /\ j <= sent[m].length /\ j <= FragmentBufferSize
           /\ j = IF fragmentSequence = sent[m].key THEN Len(fragmentBuffer) ELSE 0
           /\ Joined(p) = Body(m, j) /\ Len(Joined(p)) = j
<1>1. /\ Numbered /\ fragmentBuffer \in Seq(Bytes) /\ Len(fragmentBuffer) <= FragmentBufferSize
      /\ FragmentBufferSize \in Nat
  BY SizeAssumption DEF IInv, TypeOK
<1>2. sent[m].length \in Nat BY <1>1, SentFacts
<1>3. Body(m, 0) = << >> BY DEF Body
<1>4. CASE fragmentSequence # sent[m].key \/ fragmentBuffer = << >>
  <2>1. Joined(p) = << >> BY <1>4 DEF Joined
  <2> QED BY <2>1, <1>1, <1>2, <1>3, <1>4
<1>5. CASE fragmentSequence = sent[m].key /\ fragmentBuffer # << >>
  <2>1. PICK n \in 1 .. Len(sent) : /\ fragmentSequence = sent[n].key
                                    /\ Len(fragmentBuffer) <= sent[n].length
                                    /\ fragmentBuffer = Body(n, Len(fragmentBuffer))
    BY <1>5 DEF IInv, Assembly
  <2>2. n = m BY <2>1, <1>1, <1>5, SentFacts
  <2>3. Joined(p) = fragmentBuffer BY <1>5 DEF Joined
  <2>4. Len(fragmentBuffer) \in Nat BY <1>1
  <2> QED BY <2>1, <2>2, <2>3, <2>4, <1>1, <1>5
<1> QED BY <1>4, <1>5

\* A packet that arrives is one of those that have gone out, and is handled as such.
LEMMA ProcessEffect ==
  ASSUME IInv, NEW p \in wire, Process(p)
  PROVE  \E m \in 1 .. Len(sent) : \E s \in Gone(m) : Packet(m, s) = p /\ Arrival(m, s)
<1> USE SizeAssumption
<1>1. PICK m \in 1 .. Len(sent) : \E s \in Gone(m) : p = Packet(m, s) BY DEF IInv, OnWire
<1>2. PICK s \in Gone(m) : p = Packet(m, s) BY <1>1
<1>3. /\ Numbered /\ m \in 1 .. MaxMessages /\ m \in Nat /\ sent[m] \in Message
      /\ sent[m].length \in Nat \ {0} /\ sent[m].key \in Nat /\ s \in Offsets(sent[m].length)
  <2>1. Numbered BY DEF IInv
  <2> QED BY <2>1, SentFacts
<1>4. /\ p.sequence = sent[m].key /\ p.start = s
      /\ p.fragmented <=> FragmentSize <= sent[m].length
      /\ p.data = IF FragmentSize <= sent[m].length THEN FragmentAt(Body(m, sent[m].length), s)
                                                    ELSE Body(m, sent[m].length)
  BY <1>2, <1>3, PacketFacts DEF Packet
<1>5. s \in Nat /\ s <= sent[m].length BY <1>3, OffsetFacts
<1>6. PICK j \in Nat :
        /\ j <= sent[m].length /\ j <= FragmentBufferSize
        /\ j = IF fragmentSequence = sent[m].key THEN Len(fragmentBuffer) ELSE 0
        /\ Joined(p) = Body(m, j) /\ Len(Joined(p)) = j
  BY <1>4, JoinedPart
<1>7. /\ UNCHANGED <<senderVars, faulty>>
      /\ \/ faulty /\ wire' = wire
         \/ ~faulty /\ Oldest(Packet(m, s)) /\ wire' = wire \ {Packet(m, s)}
  BY <1>2 DEF Process, Arrives
<1>8. incomingSequence \in Nat BY DEF IInv, TypeOK
<1>9. ASSUME Discard(p) PROVE Outcome(m, s) BY <1>4, <1>9 DEF Discard, Outcome
<1>10. ASSUME ProcessPlain(p) PROVE Outcome(m, s)
  <2>1. p.data = Body(m, sent[m].length) /\ sent[m].length < FragmentSize
    BY <1>3, <1>4, <1>10 DEF ProcessPlain
  <2> QED BY <2>1, <1>4, <1>10 DEF ProcessPlain, Delivers, Outcome
<1>11. ASSUME ProcessFragment(p) PROVE Outcome(m, s)
  <2>1. /\ FragmentSize <= sent[m].length /\ p.sequence > incomingSequence
        /\ fragmentSequence' = sent[m].key
        /\ p.data = FragmentAt(Body(m, sent[m].length), s)
    BY <1>4, <1>11 DEF ProcessFragment
  <2>2. /\ Len(p.data) = IF s + FragmentSize > sent[m].length THEN sent[m].length - s ELSE FragmentSize
        /\ Body(m, s) \o p.data = Body(m, s + Len(p.data))
    <3>1. m \in Nat /\ sent[m].length \in Nat /\ s \in 0 .. sent[m].length BY <1>3, <1>5
    <3>2. PICK length \in Nat : length = sent[m].length BY <3>1
    <3>3. s \in 0 .. length BY <3>1, <3>2
    <3> HIDE SizeAssumption
    <3>4. /\ Len(FragmentAt(Body(m, length), s)) = IF s + FragmentSize > length THEN length - s ELSE FragmentSize
          /\ Body(m, s) \o FragmentAt(Body(m, length), s) =
               Body(m, s + Len(FragmentAt(Body(m, length), s)))
      BY ONLY <3>1, <3>3, Fragment, Zenon
    <3> QED BY <2>1, <3>2, <3>4
  <2>3. /\ Top(m, s) = s + Len(p.data) /\ Top(m, s) \in Nat
        /\ Len(p.data) # FragmentSize <=> s + FragmentSize > sent[m].length
    BY <2>2, <1>3, <1>5 DEF Top
  <2>4. Follows(p) <=> s = j /\ Top(m, s) <= FragmentBufferSize
    <3>1. Len(p.data) \in Nat BY <2>2, <1>3, <1>5
    <3> QED BY <3>1, <2>3, <1>4, <1>5, <1>6 DEF Follows
  <2>5. ASSUME ~Follows(p) PROVE JoinsAt(m, s, j)
    <3>1. /\ fragmentBuffer' = Body(m, j) /\ UNCHANGED <<incomingSequence, received>>
      BY <2>5, <1>6, <1>11 DEF ProcessFragment
    <3>2. s # j \/ Top(m, s) > FragmentBufferSize BY <2>3, <2>4, <2>5
    <3> QED BY <3>1, <3>2 DEF JoinsAt
  <2>6. ASSUME Follows(p), Len(p.data) = FragmentSize PROVE JoinsAt(m, s, j)
    <3>1. Joined(p) \o p.data = Body(m, s + FragmentSize) BY <2>2, <2>4, <2>6, <1>6
    <3>2. /\ fragmentBuffer' = Body(m, s + FragmentSize) /\ UNCHANGED <<incomingSequence, received>>
      BY <3>1, <2>6, <1>11 DEF ProcessFragment
    <3>3. s + FragmentSize <= sent[m].length /\ s + FragmentSize <= FragmentBufferSize /\ s = j
      BY <2>3, <2>4, <2>6, <1>3, <1>5
    <3> QED BY <3>2, <3>3 DEF JoinsAt
  <2>7. ASSUME Follows(p), Len(p.data) # FragmentSize PROVE JoinsAt(m, s, j)
    <3>1. s + FragmentSize > sent[m].length /\ s + Len(p.data) = sent[m].length
      BY <2>2, <2>3, <2>7, <1>3, <1>5
    <3>2. Joined(p) \o p.data = Body(m, sent[m].length) BY <3>1, <2>2, <2>4, <2>7, <1>6
    <3>3. fragmentBuffer' = << >> /\ Delivers(m)
      BY <3>2, <2>7, <1>4, <1>11 DEF ProcessFragment, Delivers
    <3>4. sent[m].length <= FragmentBufferSize /\ s = j BY <3>1, <2>3, <2>4, <2>7
    <3> QED BY <3>1, <3>3, <3>4 DEF JoinsAt
  <2>8. JoinsAt(m, s, j) BY <2>5, <2>6, <2>7
  <2> QED BY <2>1, <2>8, <1>4, <1>6 DEF Outcome
<1>12. Outcome(m, s)
  <2>1. Discard(p) \/ ProcessPlain(p) \/ ProcessFragment(p) BY DEF Process
  <2> QED BY <2>1, <1>9, <1>10, <1>11
<1>13. Arrival(m, s) BY <1>7, <1>12 DEF Arrival
<1> QED BY <1>2, <1>13

\* What the receiver holds and gives afterwards, whatever the packet did.
LEMMA OutcomeFacts ==
  ASSUME IInv, NEW m \in 1 .. Len(sent), NEW s \in Gone(m), Arrival(m, s)
  PROVE  /\ incomingSequence' \in {incomingSequence, sent[m].key}
         /\ incomingSequence <= incomingSequence'
         /\ fragmentSequence' \in {fragmentSequence, sent[m].key}
         /\ \/ fragmentSequence' = fragmentSequence /\ fragmentBuffer' = fragmentBuffer
            \/ \E j \in Nat : /\ j <= sent[m].length /\ j <= FragmentBufferSize
                              /\ fragmentSequence' = sent[m].key /\ fragmentBuffer' = Body(m, j)
         /\ \/ received' = received
            \/ Delivers(m) /\ sent[m].key > incomingSequence
<1> USE SizeAssumption
<1>1. /\ Numbered /\ incomingSequence \in Nat /\ sent[m].key \in Nat /\ sent[m].length \in Nat
      /\ s \in Nat
  <2>1. Numbered /\ incomingSequence \in Nat BY DEF IInv, TypeOK
  <2> QED BY <2>1, SentFacts, GoneFacts
<1>2. CASE sent[m].key <= incomingSequence /\ UNCHANGED receiverVars
  BY <1>1, <1>2 DEF receiverVars
<1>3. CASE /\ sent[m].key > incomingSequence /\ sent[m].length < FragmentSize
           /\ Delivers(m)
           /\ UNCHANGED <<fragmentSequence, fragmentBuffer>>
  BY <1>1, <1>3 DEF Delivers
<1>4. CASE /\ sent[m].key > incomingSequence /\ FragmentSize <= sent[m].length
           /\ fragmentSequence' = sent[m].key
           /\ \E j \in Nat :
                /\ j <= sent[m].length /\ j <= FragmentBufferSize
                /\ j = IF fragmentSequence = sent[m].key THEN Len(fragmentBuffer) ELSE 0
                /\ JoinsAt(m, s, j)
  <2>1. PICK j \in Nat : /\ j <= sent[m].length /\ j <= FragmentBufferSize /\ JoinsAt(m, s, j)
    BY <1>4
  <2>2. Body(m, 0) = << >> BY DEF Body
  <2>3. CASE /\ s # j \/ Top(m, s) > FragmentBufferSize
             /\ fragmentBuffer' = Body(m, j)
             /\ UNCHANGED <<incomingSequence, received>>
    BY <2>1, <2>3, <1>1, <1>4
  <2>4. CASE /\ s = j /\ s + FragmentSize <= sent[m].length /\ s + FragmentSize <= FragmentBufferSize
             /\ fragmentBuffer' = Body(m, s + FragmentSize)
             /\ UNCHANGED <<incomingSequence, received>>
    <3>1. s + FragmentSize \in Nat BY <1>1
    <3> QED BY <3>1, <2>4, <1>1, <1>4
  <2>5. CASE /\ fragmentBuffer' = << >>
             /\ Delivers(m)
    <3>1. incomingSequence' = sent[m].key BY <2>5 DEF Delivers
    <3> QED BY <3>1, <2>2, <2>5, <1>1, <1>4
  <2> QED BY <2>1, <2>3, <2>4, <2>5 DEF JoinsAt
<1>5. Outcome(m, s) BY DEF Arrival
<1> QED BY <1>2, <1>3, <1>4, <1>5 DEF Outcome

\* The sender does not notice.
LEMMA ArrivalKeepsSender ==
  ASSUME IInv, NEW m \in 1 .. Len(sent), NEW s \in Gone(m), Arrival(m, s)
  PROVE  /\ UNCHANGED <<outgoingSequence, unsentFragments, unsentFragmentStart, unsentBuffer, sent, faulty>>
         /\ \A n : Gone(n)' = Gone(n)
         /\ \A n, t : Packet(n, t)' = Packet(n, t)
         /\ wire' \subseteq wire
<1>1. /\ UNCHANGED <<outgoingSequence, unsentFragments, unsentFragmentStart, unsentBuffer, sent, faulty>>
      /\ wire' \subseteq wire
  BY DEF Arrival, senderVars
<1> QED BY <1>1 DEF Gone, Packet

\* The packet that arrives is the next one, and the next one after it moves up.
LEMMA ArrivalKeepsOrder ==
  ASSUME IInv, NEW m \in 1 .. Len(sent), NEW s \in Gone(m), Packet(m, s) \in wire, Arrival(m, s)
  PROVE  InOrder'
<1> USE SizeAssumption
<1>0. /\ UNCHANGED <<outgoingSequence, unsentFragments, unsentFragmentStart, unsentBuffer, sent, faulty>>
      /\ \A n : Gone(n)' = Gone(n)
      /\ \A n, t : Packet(n, t)' = Packet(n, t)
  BY ArrivalKeepsSender
<1> SUFFICES ASSUME ~faulty PROVE \E c \in 1 .. Len(sent) + 1 : \E u \in Nat : Cursor(c, u)'
  BY <1>0 DEF InOrder
<1>1. PICK c \in 1 .. Len(sent) + 1, u \in Nat : Cursor(c, u) BY DEF IInv, InOrder
<1>2. /\ Numbered /\ Len(sent) \in Nat /\ c \in Nat /\ m \in Nat /\ incomingSequence \in Nat
      /\ fragmentBuffer \in Seq(Bytes) /\ received \in Seq([sequence : Nat, data : Seq(Bytes)])
      /\ unsentFragments \in BOOLEAN
  BY DEF IInv, Numbered, TypeOK
<1>3. Sound BY <1>2, SoundNow
<1>4. s \in Nat /\ s \in Offsets(sent[m].length) /\ s <= sent[m].length BY <1>2, <1>3, GoneFacts DEF Sound
<1>5. m > c \/ (m = c /\ s >= u) BY <1>1 DEF Cursor
<1>6. c \in 1 .. Len(sent) /\ u \in Offsets(sent[c].length) BY <1>1, <1>2, <1>5 DEF Cursor
<1>7. u \in Gone(c)
  <2>1. CASE m > c BY <2>1, <1>2, <1>6 DEF Gone
  <2>2. CASE m = c /\ s >= u
    <3>1. unsentFragments /\ m = Len(sent) => s < unsentFragmentStart /\ unsentFragmentStart \in Nat
      <4>1. unsentFragmentStart \in Nat
        <5>1. unsentFragmentStart \in 0 .. Len(unsentBuffer) BY DEF IInv, TypeOK
        <5> QED BY <5>1
      <4> QED BY <4>1 DEF Gone
    <3> QED BY <3>1, <2>2, <1>4, <1>6 DEF Gone
  <2> QED BY <2>1, <2>2, <1>5
<1>8. m = c /\ s = u
  <2>1. Packet(c, u) \in wire BY <1>1, <1>2, <1>6, <1>7 DEF Cursor
  <2>2. Oldest(Packet(m, s)) BY DEF Arrival
  <2>3. \/ sent[m].key < sent[c].key
        \/ sent[m].key = sent[c].key /\ s <= u
    BY <2>1, <2>2, <1>3, <1>6, <1>7 DEF Oldest, Sound
  <2>4. sent[m].key \in Nat /\ sent[c].key \in Nat BY <1>3, <1>6 DEF Sound
  <2>5. CASE m > c
    <3>1. sent[c].key < sent[m].key BY <2>5, <1>2, <1>6 DEF Numbered
    <3> QED BY <3>1, <2>3, <2>4
  <2>6. CASE m = c /\ s >= u BY <2>3, <2>4, <2>6, <1>4
  <2> QED BY <2>5, <2>6, <1>5
<1>9. wire' = wire \ {Packet(m, s)} BY DEF Arrival
<1>10. /\ \A n \in m .. Len(sent) : incomingSequence < sent[n].key
       /\ s = 0 => \A n \in m .. Len(sent) : fragmentSequence < sent[n].key
       /\ s > 0 => /\ fragmentSequence = sent[m].key
                   /\ \/ Len(fragmentBuffer) = s
                      \/ Len(fragmentBuffer) < s /\ FragmentBufferSize < s
       /\ Len(received) = Cardinality({n \in 1 .. m - 1 : sent[n].length <= FragmentBufferSize})
       /\ \A n \in 1 .. Len(sent) : \A t \in Gone(n) :
            Packet(n, t) \in wire <=> n > m \/ (n = m /\ t >= s)
  BY <1>1, <1>8 DEF Cursor
<1>11. sent[m].key > incomingSequence /\ sent[m].key \in Nat /\ sent[m].length \in Nat \ {0}
  BY <1>2, <1>3, <1>10 DEF Sound
<1>12. \A n \in 1 .. Len(sent) : \A t \in Gone(n) :
         Packet(n, t) \in wire' <=> n > m \/ (n = m /\ t > s)
  <2> SUFFICES ASSUME NEW n \in 1 .. Len(sent), NEW t \in Gone(n)
               PROVE  Packet(n, t) \in wire' <=> n > m \/ (n = m /\ t > s)
    OBVIOUS
  <2>1. t \in Nat BY <1>2, GoneFacts
  <2>2. Packet(n, t) = Packet(m, s) <=> n = m /\ t = s BY <1>3 DEF Sound
  <2>3. Packet(n, t) \in wire' <=> (n > m \/ (n = m /\ t >= s)) /\ ~(n = m /\ t = s)
    BY <2>2, <1>9, <1>10
  <2> QED BY <2>1, <2>3, <1>2, <1>4
<1>13. Known(fragmentSequence) BY DEF IInv, Assembly
\* The last packet of the message.
<1>14. CASE s + FragmentSize > sent[m].length
  <2>1. \A t \in Gone(m) : t <= s
    <3> SUFFICES ASSUME NEW t \in Gone(m), ~(t <= s) PROVE FALSE OBVIOUS
    <3>1. t \in Offsets(sent[m].length) /\ t \in Nat /\ t <= sent[m].length BY <1>2, <1>3, GoneFacts DEF Sound
    <3>2. s + FragmentSize <= t BY <3>1, <1>4, <1>11, OffsetFacts
    <3> QED BY <3>1, <3>2, <1>4, <1>11, <1>14
  <2>2. m = Len(sent) => ~unsentFragments
    <3> SUFFICES ASSUME m = Len(sent), unsentFragments PROVE FALSE OBVIOUS
    <3>1. s < unsentFragmentStart BY DEF Gone
    <3>2. unsentFragmentStart \in Offsets(sent[m].length) BY DEF IInv, UnderWay
    <3>3. unsentFragmentStart \in Nat /\ unsentFragmentStart <= sent[m].length
      BY <3>2, <1>11, OffsetFacts
    <3>4. s + FragmentSize <= unsentFragmentStart BY <3>1, <3>2, <1>4, <1>11, OffsetFacts
    <3> QED BY <3>3, <3>4, <1>4, <1>11, <1>14
  <2>3. \A n \in 1 .. Len(sent) : \A t \in Gone(n) :
          Packet(n, t) \in wire' <=> n > m + 1 \/ (n = m + 1 /\ t >= 0)
    <3> SUFFICES ASSUME NEW n \in 1 .. Len(sent), NEW t \in Gone(n)
                 PROVE  n > m \/ (n = m /\ t > s) <=> n > m + 1 \/ (n = m + 1 /\ t >= 0)
      BY <1>12
    <3>1. t \in Nat /\ (n = m => t <= s) BY <2>1, <1>2, GoneFacts
    <3> QED BY <3>1, <1>2, <1>4
  <2>4. \A n \in m + 1 .. Len(sent) : n \in 1 .. Len(sent) /\ n \in m .. Len(sent) /\ sent[m].key < sent[n].key
    BY <1>2 DEF Numbered
  <2>5. /\ incomingSequence' \in {incomingSequence, sent[m].key}
        /\ fragmentSequence' \in {fragmentSequence, sent[m].key}
    BY OutcomeFacts
  <2>6. \A n \in m + 1 .. Len(sent) : incomingSequence' < sent[n].key
    BY <2>4, <2>5, <1>10
  <2>7. \A n \in m + 1 .. Len(sent) : fragmentSequence' < sent[n].key
    <3>1. CASE s = 0 BY <3>1, <2>4, <2>5, <1>10
    <3>2. CASE s > 0 BY <3>2, <2>4, <2>5, <1>10
    <3> QED BY <3>1, <3>2, <1>4
  <2>8. Len(received') = Cardinality({n \in 1 .. m : sent[n].length <= FragmentBufferSize})
    <3> DEFINE Fits == {n \in 1 .. m - 1 : sent[n].length <= FragmentBufferSize}
    <3>1. IsFiniteSet(Fits)
      <4>1. IsFiniteSet(1 .. m - 1) BY <1>2, FS_Interval
      <4>2. Fits \in SUBSET (1 .. m - 1) OBVIOUS
      <4> QED BY <4>1, <4>2, FS_Subset
    <3>2. m \notin Fits BY <1>2
    <3>3. CASE sent[m].length <= FragmentBufferSize
      <4>1. {n \in 1 .. m : sent[n].length <= FragmentBufferSize} = Fits \cup {m} BY <3>3, <1>2
      <4>2. Cardinality(Fits \cup {m}) = Cardinality(Fits) + 1
        <5> HIDE DEF Fits
        <5> QED BY <3>1, <3>2, FS_AddElement
      <4>3. Delivers(m)
        <5>1. CASE sent[m].length < FragmentSize BY <5>1, <1>11, <1>2 DEF Arrival, Outcome
        <5>2. CASE FragmentSize <= sent[m].length
          <6>1. PICK j \in Nat :
                  /\ j = IF fragmentSequence = sent[m].key THEN Len(fragmentBuffer) ELSE 0
                  /\ JoinsAt(m, s, j)
            BY <5>2, <1>2, <1>11 DEF Arrival, Outcome
          <6>2. j = s
            <7>1. CASE s = 0
              <8>1. m \in m .. Len(sent) BY <1>2
              <8>2. fragmentSequence < sent[m].key BY <7>1, <8>1, <1>10
              <8>3. fragmentSequence \in Nat BY DEF IInv, TypeOK
              <8> QED BY <8>2, <8>3, <7>1, <6>1, <1>11
            <7>2. CASE s > 0
              <8>1. j = Len(fragmentBuffer) BY <7>2, <6>1, <1>10
              <8>2. ~(FragmentBufferSize < s) BY <3>3, <1>4, <1>11
              <8> QED BY <8>1, <8>2, <7>2, <1>10
            <7> QED BY <7>1, <7>2, <1>4
          <6>3. Top(m, s) = sent[m].length BY <1>14 DEF Top
          <6>4. ~(s # j \/ Top(m, s) > FragmentBufferSize) BY <6>2, <6>3, <3>3, <1>11
          <6>5. ~(s + FragmentSize <= sent[m].length) BY <1>14, <1>4, <1>11
          <6> QED BY <6>1, <6>4, <6>5 DEF JoinsAt
        <5> QED BY <5>1, <5>2, <1>11
      <4>4. Len(received') = Len(received) + 1 BY <4>3, <1>2 DEF Delivers
      <4> QED BY <4>1, <4>2, <4>4, <1>10
    <3>4. CASE ~(sent[m].length <= FragmentBufferSize)
      <4>1. {n \in 1 .. m : sent[n].length <= FragmentBufferSize} = Fits BY <3>4, <1>2
      <4>2. received' = received
        <5>1. ~(sent[m].length < FragmentSize) /\ FragmentSize <= sent[m].length BY <3>4, <1>11
        <5>2. ~(sent[m].key <= incomingSequence) BY <1>2, <1>11
        <5>3. PICK j \in Nat : JoinsAt(m, s, j) BY <5>1, <5>2 DEF Arrival, Outcome
        <5> QED BY <5>3, <3>4 DEF JoinsAt
      <4> QED BY <4>1, <4>2, <1>10
    <3> QED BY <3>3, <3>4
  <2>9. m + 1 \in 1 .. Len(sent) + 1 /\ m + 1 - 1 = m BY <1>2
  <2>10. Cursor(m + 1, 0)'
    <3>1. m + 1 = Len(sent) + 1 => ~unsentFragments BY <2>2, <1>2
    <3>2. m + 1 <= Len(sent) => 0 \in Offsets(sent[m + 1].length)
      <4> SUFFICES ASSUME m + 1 <= Len(sent) PROVE 0 \in Offsets(sent[m + 1].length) OBVIOUS
      <4>1. m + 1 \in 1 .. Len(sent) BY <1>2
      <4>2. sent[m + 1].length \in Nat BY <4>1, <1>3 DEF Sound
      <4> QED BY <4>2, OffsetFacts
    <3>3. 0 <= unsentFragmentStart
      <4>1. unsentFragmentStart \in 0 .. Len(unsentBuffer) BY DEF IInv, TypeOK
      <4> QED BY <4>1
    <3>4. ~(0 > 0) OBVIOUS
    <3> QED BY <3>1, <3>2, <3>3, <3>4, <2>3, <2>6, <2>7, <2>8, <2>9, <1>0 DEF Cursor
  <2> QED BY <2>9, <2>10
\* A full fragment: the message goes on.
<1>15. CASE s + FragmentSize <= sent[m].length
  <2>1. s + FragmentSize \in Offsets(sent[m].length) /\ s + FragmentSize \in Nat
    BY <1>4, <1>11, <1>15, OffsetFacts
  <2>2. m = Len(sent) /\ unsentFragments => s + FragmentSize <= unsentFragmentStart
    <3> SUFFICES ASSUME m = Len(sent), unsentFragments PROVE s + FragmentSize <= unsentFragmentStart OBVIOUS
    <3>1. s < unsentFragmentStart BY DEF Gone
    <3>2. unsentFragmentStart \in Offsets(sent[m].length) BY DEF IInv, UnderWay
    <3> QED BY <3>1, <3>2, <1>4, <1>11, OffsetFacts
  <2>3. \A n \in 1 .. Len(sent) : \A t \in Gone(n) :
          Packet(n, t) \in wire' <=> n > m \/ (n = m /\ t >= s + FragmentSize)
    <3> SUFFICES ASSUME NEW n \in 1 .. Len(sent), NEW t \in Gone(n)
                 PROVE  n > m \/ (n = m /\ t > s) <=> n > m \/ (n = m /\ t >= s + FragmentSize)
      BY <1>12
    <3>1. t \in Nat /\ t \in Offsets(sent[n].length) BY <1>2, <1>3, GoneFacts DEF Sound
    <3>2. n = m /\ t > s => t >= s + FragmentSize BY <3>1, <1>4, <1>11, OffsetFacts
    <3> QED BY <3>1, <3>2, <1>4
  <2>4. PICK j \in Nat :
          /\ j = IF fragmentSequence = sent[m].key THEN Len(fragmentBuffer) ELSE 0
          /\ j <= FragmentBufferSize
          /\ JoinsAt(m, s, j)
    <3>1. ~(sent[m].length < FragmentSize) /\ FragmentSize <= sent[m].length BY <1>15, <1>4, <1>11
    <3>2. ~(sent[m].key <= incomingSequence) BY <1>2, <1>11
    <3> QED BY <3>1, <3>2 DEF Arrival, Outcome
  <2>5. fragmentSequence' = sent[m].key
    <3>1. ~(sent[m].length < FragmentSize) BY <1>15, <1>4, <1>11
    <3>2. ~(sent[m].key <= incomingSequence) BY <1>2, <1>11
    <3> QED BY <3>1, <3>2 DEF Arrival, Outcome
  <2>6. j = s \/ (j < s /\ FragmentBufferSize < s)
    <3>1. CASE s = 0
      <4>1. m \in m .. Len(sent) BY <1>2
      <4>2. fragmentSequence < sent[m].key BY <3>1, <4>1, <1>10
      <4>3. fragmentSequence \in Nat BY DEF IInv, TypeOK
      <4> QED BY <4>2, <4>3, <3>1, <2>4, <1>11
    <3>2. CASE s > 0 BY <3>2, <2>4, <1>10
    <3> QED BY <3>1, <3>2, <1>4
  <2>7. /\ UNCHANGED <<incomingSequence, received>>
        /\ \/ Len(fragmentBuffer') = s + FragmentSize
           \/ Len(fragmentBuffer') < s + FragmentSize /\ FragmentBufferSize < s + FragmentSize
    <3>1. \A i \in Nat : Len(Body(m, i)) = i BY DEF Body
    <3>2. CASE /\ s # j \/ Top(m, s) > FragmentBufferSize
               /\ fragmentBuffer' = Body(m, j)
               /\ UNCHANGED <<incomingSequence, received>>
      <4>1. Len(fragmentBuffer') = j BY <3>1, <3>2
      <4>2. Top(m, s) = s + FragmentSize BY <1>4, <1>11, <1>15 DEF Top
      <4>3. FragmentBufferSize < s + FragmentSize BY <4>2, <3>2, <2>1, <2>6, <1>4
      <4> QED BY <4>1, <4>3, <3>2, <2>6, <1>4
    <3>3. CASE /\ s = j /\ s + FragmentSize <= sent[m].length /\ s + FragmentSize <= FragmentBufferSize
               /\ fragmentBuffer' = Body(m, s + FragmentSize)
               /\ UNCHANGED <<incomingSequence, received>>
      BY <3>1, <3>3, <2>1
    <3>4. ~(s + FragmentSize > sent[m].length) BY <1>4, <1>11, <1>15
    <3> QED BY <3>2, <3>3, <3>4, <2>4 DEF JoinsAt
  <2>8. Cursor(m, s + FragmentSize)'
    <3>1. m # Len(sent) + 1 /\ s + FragmentSize # 0 /\ s + FragmentSize > 0 BY <1>2, <1>4
    <3> QED BY <3>1, <2>1, <2>2, <2>3, <2>5, <2>7, <1>0, <1>10 DEF Cursor
  <2> QED BY <2>1, <2>8, <1>6, <1>8
<1> QED BY <1>14, <1>15, <1>4, <1>11

\* A packet that arrives keeps the invariant.
LEMMA ArrivalKeeps ==
  ASSUME IInv, NEW m \in 1 .. Len(sent), NEW s \in Gone(m), Packet(m, s) \in wire, Arrival(m, s)
  PROVE  IInv'
<1>0. /\ UNCHANGED <<outgoingSequence, unsentFragments, unsentFragmentStart, unsentBuffer, sent, faulty>>
      /\ \A n : Gone(n)' = Gone(n)
      /\ \A n, t : Packet(n, t)' = Packet(n, t)
      /\ wire' \subseteq wire
  BY ArrivalKeepsSender
<1>1. /\ incomingSequence' \in {incomingSequence, sent[m].key}
      /\ incomingSequence <= incomingSequence'
      /\ fragmentSequence' \in {fragmentSequence, sent[m].key}
      /\ \/ fragmentSequence' = fragmentSequence /\ fragmentBuffer' = fragmentBuffer
         \/ \E j \in Nat : /\ j <= sent[m].length /\ j <= FragmentBufferSize
                           /\ fragmentSequence' = sent[m].key /\ fragmentBuffer' = Body(m, j)
      /\ \/ received' = received
         \/ Delivers(m) /\ sent[m].key > incomingSequence
  BY OutcomeFacts
<1>2. /\ Numbered /\ incomingSequence \in Nat /\ fragmentSequence \in Nat
      /\ received \in Seq([sequence : Nat, data : Seq(Bytes)])
  BY DEF IInv, TypeOK
<1>3. /\ m \in 1 .. MaxMessages /\ sent[m].key \in Nat /\ sent[m].length \in Nat \ {0}
  BY <1>2, SentFacts
<1>4. \A j \in Nat : Body(m, j) \in Seq(Bytes) /\ Len(Body(m, j)) = j BY <1>3 DEF Body, Bytes
<1>5. Numbered' /\ UnderWay' BY <1>0 DEF IInv, Numbered, UnderWay
<1>6. OnWire' BY <1>0 DEF IInv, OnWire
<1>7. TypeOK'
  <2>1. incomingSequence' \in Nat /\ fragmentSequence' \in Nat BY <1>1, <1>2, <1>3
  <2>2. fragmentBuffer' \in Seq(Bytes) /\ Len(fragmentBuffer') <= FragmentBufferSize
    BY <1>1, <1>4 DEF IInv, TypeOK
  <2>3. received' \in Seq([sequence : Nat, data : Seq(Bytes)])
    <3>1. [sequence |-> sent[m].key, data |-> Body(m, sent[m].length)] \in [sequence : Nat, data : Seq(Bytes)]
      BY <1>3, <1>4
    <3> DEFINE Out == [sequence : Nat, data : Seq(Bytes)]
    <3>2. PICK r \in Out : r = [sequence |-> sent[m].key, data |-> Body(m, sent[m].length)] BY <3>1
    <3>3. received' = received \/ received' = Append(received, r) BY <3>2, <1>1 DEF Delivers
    <3>4. received \in Seq(Out) BY <1>2
    <3> HIDE DEF Out
    <3>5. received' \in Seq(Out) BY <3>2, <3>3, <3>4
    <3> QED BY <3>5 DEF Out
  <2>4. /\ outgoingSequence' \in Nat /\ unsentFragments' \in BOOLEAN /\ faulty' \in BOOLEAN
        /\ unsentBuffer' \in Seq(Bytes) /\ unsentFragmentStart' \in 0 .. Len(unsentBuffer')
        /\ sent' \in Seq([length : Lengths, key : Nat])
    BY <1>0 DEF IInv, TypeOK
  <2>5. wire' \in SUBSET PacketType BY <1>0 DEF IInv, TypeOK
  <2> QED BY <2>1, <2>2, <2>3, <2>4, <2>5 DEF TypeOK
<1>8. Assembly'
  <2>1. Known(incomingSequence) /\ Known(fragmentSequence) /\ Known(sent[m].key)
    BY DEF IInv, Assembly, Known
  <2>2. Known(incomingSequence)' /\ Known(fragmentSequence)'
    <3>1. Known(incomingSequence') /\ Known(fragmentSequence') BY <2>1, <1>1
    <3> QED BY <3>1, <1>0 DEF Known
  <2>3. ASSUME fragmentBuffer' # << >>
        PROVE  \E n \in 1 .. Len(sent) : /\ fragmentSequence' = sent[n].key
                                         /\ Len(fragmentBuffer') <= sent[n].length
                                         /\ fragmentBuffer' = Body(n, Len(fragmentBuffer'))
    <3>1. CASE fragmentSequence' = fragmentSequence /\ fragmentBuffer' = fragmentBuffer
      BY <2>3, <3>1 DEF IInv, Assembly
    <3>2. ASSUME NEW j \in Nat, j <= sent[m].length,
                 fragmentSequence' = sent[m].key, fragmentBuffer' = Body(m, j)
          PROVE  /\ fragmentSequence' = sent[m].key
                 /\ Len(fragmentBuffer') <= sent[m].length
                 /\ fragmentBuffer' = Body(m, Len(fragmentBuffer'))
      <4>1. Len(fragmentBuffer') = j BY <3>2, <1>4
      <4> QED BY <4>1, <3>2
    <3> QED BY <3>1, <3>2, <1>1
  <2> QED BY <2>2, <2>3, <1>0 DEF Assembly
<1>9. WholeMessages' /\ Past'
  <2>1. Body(m, sent[m].length) # << >> /\ Number(Body(m, sent[m].length)) = m
    <3>1. /\ Body(m, sent[m].length)[1] = <<m, 1>>
          /\ Len(Body(m, sent[m].length)) = sent[m].length
      BY <1>3 DEF Body
    <3> QED BY <3>1, <1>3 DEF Number
  <2>2. \A i \in 1 .. Len(received) :
          /\ received[i].data # << >>
          /\ Number(received[i].data) \in 1 .. Len(sent)
          /\ received[i].data = Body(Number(received[i].data), sent[Number(received[i].data)].length)
          /\ received[i].sequence = sent[Number(received[i].data)].key
          /\ received[i].sequence <= incomingSequence
    BY DEF IInv, WholeMessages, Past
  <2>3. \A i \in 1 .. Len(received) : received[i].sequence \in Nat
    <3>1. \A i \in 1 .. Len(received) : received[i] \in [sequence : Nat, data : Seq(Bytes)]
      BY <1>2, ElementOfSeq
    <3> QED BY <3>1
  <2>4. ASSUME NEW i \in 1 .. Len(received')
        PROVE  /\ received'[i].data # << >>
               /\ Number(received'[i].data) \in 1 .. Len(sent)
               /\ received'[i].data = Body(Number(received'[i].data), sent[Number(received'[i].data)].length)
               /\ received'[i].sequence = sent[Number(received'[i].data)].key
               /\ received'[i].sequence <= incomingSequence'
    <3>1. ASSUME i \in 1 .. Len(received), received'[i] = received[i]
          PROVE  /\ received'[i].data # << >>
                 /\ Number(received'[i].data) \in 1 .. Len(sent)
                 /\ received'[i].data = Body(Number(received'[i].data), sent[Number(received'[i].data)].length)
                 /\ received'[i].sequence = sent[Number(received'[i].data)].key
                 /\ received'[i].sequence <= incomingSequence'
      <4>1. incomingSequence' \in Nat BY <1>1, <1>2, <1>3
      <4>2. incomingSequence \in Nat /\ incomingSequence <= incomingSequence' BY <1>1, <1>2
      <4>3. received[i].sequence <= incomingSequence /\ received[i].sequence \in Nat
        BY <3>1, <2>2, <2>3
      <4>4. received[i].sequence <= incomingSequence' BY ONLY <4>1, <4>2, <4>3
      <4> QED BY <4>4, <3>1, <2>2
    <3>2. CASE received' = received BY <3>1, <3>2
    <3>3. CASE Delivers(m)
      <4>1. /\ Len(received') = Len(received) + 1 /\ Len(received) \in Nat
            /\ \A k \in 1 .. Len(received) : received'[k] = received[k]
            /\ received'[Len(received) + 1] = [sequence |-> sent[m].key, data |-> Body(m, sent[m].length)]
        BY <3>3, <1>2 DEF Delivers
      <4>2. CASE i \in 1 .. Len(received) BY <4>1, <4>2, <3>1
      <4>3. CASE i = Len(received) + 1
        <5>1. received'[i].data = Body(m, sent[m].length) /\ received'[i].sequence = sent[m].key
          BY <4>1, <4>3
        <5>2. sent[m].key <= incomingSequence' BY <3>3, <1>3 DEF Delivers
        <5> QED BY <5>1, <5>2, <2>1
      <4> QED BY <4>1, <4>2, <4>3
    <3> QED BY <3>2, <3>3, <1>1
  <2>5. WholeMessages' BY <2>4, <1>0 DEF WholeMessages, Number
  <2> QED BY <2>4, <2>5 DEF Past
<1> QED BY <1>5, <1>6, <1>7, <1>8, <1>9, ArrivalKeepsOrder DEF IInv

-----------------------------------------------------------------------------
(* The theorems.                                                           *)

\* Every step keeps the invariant.
LEMMA NextKeeps == IInv /\ [Next]_vars => IInv'
<1> SUFFICES ASSUME IInv, [Next]_vars PROVE IInv' OBVIOUS
<1>1. ASSUME NEW length \in Lengths, SendClientMessages(length) \/ SendClientGameState(length)
      PROVE  IInv'
  BY <1>1, SendingTransmits, SendKeeps
<1>2. ASSUME NEW p \in wire, Process(p) PROVE IInv'
  <2>1. PICK m \in 1 .. Len(sent) : \E s \in Gone(m) : Packet(m, s) = p /\ Arrival(m, s)
    BY <1>2, ProcessEffect
  <2> QED BY <2>1, ArrivalKeeps
<1>3. CASE UNCHANGED vars
  <2> USE <1>3 DEF vars, senderVars, receiverVars
  <2>1. \A m : Gone(m)' = Gone(m) BY DEF Gone
  <2>2. \A m, s : Packet(m, s)' = Packet(m, s) BY DEF Packet
  <2>3. InOrder'
    <3>1. \A c, s : Cursor(c, s) => Cursor(c, s)' BY <2>1, <2>2 DEF Cursor
    <3> QED BY <3>1 DEF IInv, InOrder
  <2>4. OnWire' BY <2>1, <2>2 DEF IInv, OnWire
  <2>5. TypeOK' /\ Numbered' /\ UnderWay' BY DEF IInv, TypeOK, Numbered, UnderWay
  <2>6. Assembly' /\ Past' BY DEF IInv, Assembly, Known, Past
  <2>7. WholeMessages' BY DEF IInv, WholeMessages, Number
  <2> QED BY <2>3, <2>4, <2>5, <2>6, <2>7 DEF IInv
<1> QED BY <1>1, <1>2, <1>3 DEF Next

\* The inductive invariant holds, on a faulty network and on another.
THEOREM Correct == Spec => []IInv
<1>1. Init => IInv BY InitIInv
<1>2. IInv /\ [Next]_vars => IInv' BY NextKeeps
<1> QED BY <1>1, <1>2, PTL DEF Spec

\* The state is well typed, and neither end writes beyond its buffer.
THEOREM TypeCorrect == Spec => []TypeOK
<1>1. IInv => TypeOK BY DEF IInv
<1> QED BY <1>1, Correct, PTL

\* What Netchan_Process hands on is one message, whole, under its own number.
THEOREM WholeMessagesCorrect == Spec => []WholeMessages
<1>1. IInv => WholeMessages BY DEF IInv
<1> QED BY <1>1, Correct, PTL

\* Without faults, all that has been sent and fits has been received.
THEOREM NothingSwallowedCorrect == Spec => []NothingSwallowed
<1>1. ASSUME IInv PROVE NothingSwallowed
  <2> SUFFICES ASSUME ~faulty, wire = {}, ~unsentFragments
               PROVE  Len(received) =
                        Cardinality({m \in 1 .. Len(sent) : sent[m].length <= FragmentBufferSize})
    BY DEF NothingSwallowed
  <2>1. PICK c \in 1 .. Len(sent) + 1, s \in Nat : Cursor(c, s) BY <1>1 DEF IInv, InOrder
  <2>2. Len(sent) \in Nat BY <1>1 DEF IInv, Numbered
  <2>3. c = Len(sent) + 1
    <3> SUFFICES ASSUME c \in 1 .. Len(sent) PROVE FALSE BY <2>2
    <3>1. s \in Gone(c) BY <2>1 DEF Cursor, Gone
    <3> QED BY <3>1, <2>1 DEF Cursor
  <2>4. c - 1 = Len(sent) BY <2>2, <2>3
  <2> QED BY <2>1, <2>4 DEF Cursor
<1> QED BY <1>1, Correct, PTL

\* Every step of the channel is one of the stream of messages, or none.
LEMMA StepImplements ==
  IInv /\ IInv' /\ [Next]_vars => [Promise!StreamNext]_(Promise!streamVars)
<1> SUFFICES ASSUME IInv, IInv', [Next]_vars
             PROVE  Promise!StreamNext \/ UNCHANGED Promise!streamVars
  OBVIOUS
<1> USE DEF Promise!StreamNext, Promise!streamVars
<1>1. ASSUME Transmits PROVE Promise!SendNext \/ UNCHANGED Promise!streamVars
  <2>1. received' = received /\ Len(sent') \in {Len(sent), Len(sent) + 1}
    BY <1>1 DEF Transmits, receiverVars
  <2> QED BY <2>1 DEF Promise!SendNext, Number
<1>2. ASSUME NEW m \in 1 .. Len(sent), NEW s \in Gone(m), Arrival(m, s)
      PROVE  Promise!Arrive \/ UNCHANGED Promise!streamVars
  <2>1. sent' = sent BY <1>2, ArrivalKeepsSender
  <2>2. received' = received \/ (Delivers(m) /\ sent[m].key > incomingSequence)
    BY <1>2, OutcomeFacts
  <2>3. CASE received' = received BY <2>1, <2>3 DEF Number
  <2>4. CASE Delivers(m) /\ sent[m].key > incomingSequence
    <3> DEFINE numbers == [i \in 1 .. Len(received) |-> Number(received[i].data)]
    <3>1. /\ Numbered /\ received \in Seq([sequence : Nat, data : Seq(Bytes)])
          /\ Len(received) \in Nat /\ incomingSequence \in Nat /\ Len(sent) \in Nat
      <4>1. TypeOK /\ Numbered BY DEF IInv
      <4>2. received \in Seq([sequence : Nat, data : Seq(Bytes)]) /\ incomingSequence \in Nat
        BY ONLY <4>1 DEF TypeOK
      <4>3. sent \in Seq(Message) BY ONLY <4>1 DEF Numbered
      <4>4. Len(received) \in Nat BY ONLY <4>2, LenProperties
      <4>5. Len(sent) \in Nat BY ONLY <4>3, LenProperties
      <4> QED BY ONLY <4>1, <4>2, <4>4, <4>5
    <3>2. sent[m].length \in Nat \ {0} /\ sent[m].key \in Nat BY <3>1, SentFacts
    <3>3. Number(Body(m, sent[m].length)) = m BY <3>2 DEF Body, Number
    <3>4. numbers \in Seq(Nat) /\ Len(numbers) = Len(received)
      <4>1. \A i \in 1 .. Len(received) : Number(received[i].data) \in Nat
        BY DEF IInv, WholeMessages
      <4> QED BY <4>1, <3>1
    <3>5. /\ Len(received') = Len(received) + 1
          /\ \A i \in 1 .. Len(received) : received'[i] = received[i]
          /\ received'[Len(received) + 1].data = Body(m, sent[m].length)
      BY <2>4, <3>1 DEF Delivers
    <3>6. [i \in 1 .. Len(received') |-> Number(received'[i].data)] = Append(numbers, m)
      <4> DEFINE later == [i \in 1 .. Len(received') |-> Number(received'[i].data)]
      <4>1. later \in Seq(Nat) /\ Len(later) = Len(received) + 1
        <5>1. \A i \in 1 .. Len(received') : Number(received'[i].data) \in Nat
          BY DEF IInv, WholeMessages, Number
        <5> QED BY <5>1, <3>1, <3>5
      <4>2. Append(numbers, m) \in Seq(Nat) /\ Len(Append(numbers, m)) = Len(received) + 1
        <5> HIDE DEF numbers
        <5>1. m \in Nat BY <3>1
        <5> QED BY <5>1, <3>4
      <4>3. ASSUME NEW i \in 1 .. Len(received) + 1 PROVE later[i] = Append(numbers, m)[i]
        <5>1. CASE i \in 1 .. Len(received)
          <6>1. later[i] = numbers[i] BY <5>1, <3>5
          <6>2. Append(numbers, m)[i] = numbers[i]
            <7> HIDE DEF numbers
            <7> QED BY <5>1, <3>4
          <6> QED BY <6>1, <6>2
        <5>2. CASE i = Len(received) + 1
          <6>1. later[i] = m BY <5>2, <3>3, <3>5
          <6>2. Append(numbers, m)[i] = m
            <7> HIDE DEF numbers
            <7> QED BY <5>2, <3>4
          <6> QED BY <6>1, <6>2
        <5> QED BY <5>1, <5>2, <3>1
      <4> HIDE DEF later, numbers
      <4>4. later = Append(numbers, m) BY <4>1, <4>2, <4>3, SeqEqual
      <4> QED BY <4>4 DEF later
    <3>7. m \in (IF numbers = << >> THEN 0 ELSE numbers[Len(numbers)]) + 1 .. Len(sent)
      <4>1. CASE numbers = << >> BY <4>1, <3>1
      <4>2. CASE numbers # << >>
        <5>1. PICK i \in 1 .. Len(received) : i = Len(numbers)
          <6>1. Len(numbers) # 0
            <7> HIDE DEF numbers
            <7> QED BY <3>4, <4>2
          <6> HIDE DEF numbers
          <6> QED BY <6>1, <3>1, <3>4
        <5>2. PICK n \in 1 .. Len(sent) : n = Number(received[i].data) /\ received[i].sequence = sent[n].key
          BY DEF IInv, WholeMessages
        <5>3. numbers[Len(numbers)] = n BY <5>1, <5>2
        <5>4. sent[n].key <= incomingSequence BY <5>2 DEF IInv, Past
        <5>5. sent[n].key < sent[m].key
          <6>1. sent[n].key \in Nat BY <3>1, SentFacts
          <6>2. sent[m].key > incomingSequence BY <2>4
          <6>3. incomingSequence \in Nat /\ sent[m].key \in Nat BY <3>1, <3>2
          <6> QED BY ONLY <6>1, <6>2, <6>3, <5>4
        <5>6. n < m BY <5>5, <3>1, SentFacts
        <5> HIDE DEF numbers
        <5> QED BY <5>3, <5>6, <4>2, <3>1
      <4> QED BY <4>1, <4>2
    <3> QED BY <2>1, <3>6, <3>7 DEF Promise!Arrive, Promise!Latest
  <2> QED BY <2>2, <2>3, <2>4
<1>3. ASSUME NEW length \in Lengths, SendClientMessages(length) \/ SendClientGameState(length)
      PROVE  Promise!SendNext \/ UNCHANGED Promise!streamVars
  BY <1>1, <1>3, SendingTransmits
<1>4. ASSUME NEW p \in wire, Process(p)
      PROVE  Promise!Arrive \/ UNCHANGED Promise!streamVars
  <2>1. PICK m \in 1 .. Len(sent) : \E s \in Gone(m) : Packet(m, s) = p /\ Arrival(m, s)
    BY <1>4, ProcessEffect
  <2> QED BY <2>1, <1>2
<1>5. CASE UNCHANGED vars BY <1>5 DEF vars, senderVars, receiverVars, Number
<1> QED BY <1>3, <1>4, <1>5 DEF Next

\* The channel implements the stream: messages are lost, never damaged, swapped or
\* repeated.
THEOREM Implements == Spec => ImplementsMessageStream
<1>1. Init => Promise!StreamInit
  BY DEF Init, Promise!StreamInit
<1>2. IInv /\ IInv' /\ [Next]_vars => [Promise!StreamNext]_(Promise!streamVars)
  BY StepImplements
<1> QED BY <1>1, <1>2, Correct, PTL DEF Spec, ImplementsMessageStream, Promise!StreamSpec
=============================================================================
