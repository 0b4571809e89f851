------------------------ MODULE ReliableFramingProofs ------------------------
(***************************************************************************)
(* Proofs about messages over the reliable channel, for all lengths of     *)
(* messages and fragments and every window.                                *)
(***************************************************************************)
EXTENDS ReliableFraming, NumberFacts, SequenceTheorems

\* The bytes that message m takes.
Size(m) == HeadSize + sent[m]

\* The messages below this one are sent whole.
Whole == IF cut = 0 THEN Len(sent) + 1 ELSE cut

Byte == (1 .. Len(sent)) \X (Nat \ {0})

\* Bytes of message m from place p on.
Piece(bytes, m, p) == \A k \in 1 .. Len(bytes) : bytes[k] = <<m, p + k - 1>>

\* A fragment of some message, which says itself of which and from where on.
Fragment(bytes) ==
  /\ bytes \in Seq(Byte) /\ Len(bytes) >= 1
  /\ Piece(bytes, bytes[1][1], bytes[1][2])
  /\ bytes[1][2] <= Size(bytes[1][1])
  /\ Len(bytes) = IF bytes[1][2] + FragmentSize - 1 <= Size(bytes[1][1]) THEN FragmentSize
                  ELSE Size(bytes[1][1]) - bytes[1][2] + 1

\* From fragment f on the stream goes on with place p of message m.
Continues(f, m, p) ==
  IF m < Whole THEN f <= Len(stream) /\ stream[f][1] = <<m, p>>
  ELSE f <= Len(stream) => stream[f][1][1] >= Whole

\* It goes on there, or with the next message if that one has ended.
Goes(f, m, p) == IF p <= Size(m) THEN Continues(f, m, p) ELSE Continues(f, m + 1, 1)

\* The stream goes on after fragment f as this one ends.
Joint(f) == stream[f][1][1] < Whole => Goes(f + 1, stream[f][1][1], stream[f][1][2] + Len(stream[f]))

\* After n messages the receiver has the beginning of the next, and the stream from
\* fragment f on the rest.
InStep(data, rest, n, f) ==
  n + 1 < Whole \/ cut = 0 =>
    /\ rest = << >> /\ Piece(data, n + 1, 1)
    /\ IF n + 1 < Whole THEN Len(data) < Size(n + 1) ELSE data = << >>
    /\ Continues(f, n + 1, Len(data) + 1)

\* The messages are the ones sent.
Right(messages) ==
  /\ messages \in Seq(Seq(Byte))
  /\ \A i \in 1 .. Len(messages) : i < Whole => messages[i] = Message(i, sent[i])
  /\ cut = 0 => Len(messages) <= Len(sent)

Receiver == [connected : BOOLEAN, data : Seq(Byte), maxsize : Nat, rest : Seq(Byte)]

\* What holds of the client_t always.
Fits(c) == c \in Receiver /\ Len(c.data) <= c.maxsize /\ Len(c.rest) < FragmentSize

IInv ==
  /\ Fits(cl)
  /\ sent \in Seq(Lengths) /\ cut \in 0 .. Len(sent)
  /\ stream \in Seq(Seq(Byte)) /\ \A f \in 1 .. Len(stream) : Fragment(stream[f])
  /\ Right(executed)
  /\ IF cl.connected
       THEN /\ \A f \in 1 .. Len(stream) : Joint(f)
            /\ InStep(cl.data, cl.rest, Len(executed), 1)
       ELSE stream = << >> /\ cl.data = << >> /\ cl.rest = << >>

-----------------------------------------------------------------------------
(* Numbers and sequences.                                                  *)

\* The constants.
LEMMA SizesAre ==
  ASSUME SizesAssumption
  PROVE  /\ HeadSize \in Nat \ {0} /\ FragmentSize \in Nat \ {0} /\ DefaultSize \in Nat
         /\ FragmentSize >= HeadSize /\ DefaultSize >= FragmentSize
         /\ Lengths \subseteq Nat /\ Misread \in Int /\ RxWindow \in Nat \ {0}
BY DEF SizesAssumption

\* The lesser and the greater of two numbers.
LEMMA MinOfTwo ==
  ASSUME NEW a \in Int, NEW b \in Int
  PROVE  Min({a, b}) = IF a <= b THEN a ELSE b
<1>1. \E x \in {a, b} : \A y \in {a, b} : x <= y
  OBVIOUS
<1>2. Min({a, b}) \in {a, b} /\ \A y \in {a, b} : Min({a, b}) <= y
  BY <1>1, Zenon DEF Min
<1> QED BY <1>2

LEMMA MaxOfTwo ==
  ASSUME NEW a \in Int, NEW b \in Int
  PROVE  Max({a, b}) = IF a >= b THEN a ELSE b
<1>1. \E x \in {a, b} : \A y \in {a, b} : x >= y
  OBVIOUS
<1>2. Max({a, b}) \in {a, b} /\ \A y \in {a, b} : Max({a, b}) >= y
  BY <1>1, Zenon DEF Max
<1> QED BY <1>2

\* The least of a set of numbers.
LEMMA LeastIs ==
  ASSUME NEW S, S \subseteq Nat, S # {}
  PROVE  Min(S) \in S /\ \A i \in S : Min(S) <= i
<1>1. \E n \in S : \A k \in S : n <= k
  BY LeastNumber
<1> QED BY <1>1, Zenon DEF Min

-----------------------------------------------------------------------------
(* What there is to read.                                                  *)

\* g joins the rest and one fragment after the other.
Joins(rest, arrived, n, g) ==
  g = [k \in 0 .. n |-> IF k = 0 THEN rest ELSE g[k - 1] \o arrived[k]]

\* The recursive function of Available exists: the least place at which it might not.
LEMMA JoinedExists ==
  ASSUME NEW N \in Nat, NEW rest, NEW arrived
  PROVE  \E g : Joins(rest, arrived, N, g)
<1> DEFINE S == {n \in 0 .. N : \E g : Joins(rest, arrived, n, g)}
<1>1. 0 \in S
  <2> DEFINE g == [k \in 0 .. 0 |-> rest]
  <2>1. Joins(rest, arrived, 0, g)
    BY DEF Joins
  <2> QED BY <2>1
<1>2. ASSUME NEW n \in 1 .. N, n - 1 \in S PROVE n \in S
  <2>1. PICK g : Joins(rest, arrived, n - 1, g)
    BY <1>2
  <2> DEFINE h == [k \in 0 .. n |-> IF k < n THEN g[k] ELSE g[n - 1] \o arrived[n]]
  <2>2. \A k \in 0 .. n - 1 : g[k] = IF k = 0 THEN rest ELSE g[k - 1] \o arrived[k]
    BY <2>1 DEF Joins
  <2>3. ASSUME NEW k \in 0 .. n PROVE h[k] = IF k = 0 THEN rest ELSE h[k - 1] \o arrived[k]
    <3>1. CASE k = 0
      <4>1. h[0] = g[0] /\ g[0] = rest
        BY <2>2
      <4> QED BY <3>1, <4>1
    <3>2. CASE k # 0 /\ k < n
      <4>1. h[k] = g[k] /\ h[k - 1] = g[k - 1] /\ k \in 0 .. n - 1
        BY <3>2
      <4>2. g[k] = g[k - 1] \o arrived[k]
        BY <2>2, <3>2, <4>1
      <4> QED BY <3>2, <4>1, <4>2
    <3>3. CASE k # 0 /\ k = n
      <4>1. h[k] = g[n - 1] \o arrived[n] /\ h[k - 1] = g[n - 1]
        BY <3>3
      <4> QED BY <3>3, <4>1
    <3> QED BY <3>1, <3>2, <3>3
  <2>4. h = [k \in 0 .. n |-> h[k]]
    OBVIOUS
  <2>5. Joins(rest, arrived, n, h)
    <3> HIDE DEF h
    <3> QED BY <2>3, <2>4 DEF Joins
  <2> QED BY <2>5
<1> HIDE DEF S
<1>3. 0 .. N \subseteq S
  BY <1>1, <1>2, UpTo
<1>4. N \in S
  BY <1>3
<1> QED BY <1>4 DEF S

\* Available, one fragment after the other.
LEMMA AvailableIs ==
  ASSUME NEW s, Len(s.arrived) \in Nat
  PROVE  /\ Available(s, 0) = s.cl.rest
         /\ \A k \in 1 .. Len(s.arrived) : Available(s, k) = Available(s, k - 1) \o s.arrived[k]
<1> DEFINE N == Len(s.arrived)
           joined == CHOOSE g : Joins(s.cl.rest, s.arrived, N, g)
<1>1. \E g : Joins(s.cl.rest, s.arrived, N, g)
  BY JoinedExists
<1>2. Joins(s.cl.rest, s.arrived, N, joined)
  BY <1>1
<1>3. \A i : Available(s, i) = joined[i]
  BY DEF Available, Joins
<1> HIDE DEF joined
<1>7. N \in Nat
  OBVIOUS
<1> HIDE DEF N
<1>4. \A k \in 0 .. N : joined[k] = IF k = 0 THEN s.cl.rest ELSE joined[k - 1] \o s.arrived[k]
  BY <1>2 DEF Joins
<1>5. joined[0] = s.cl.rest
  <2>1. 0 \in 0 .. N
    BY <1>7
  <2> QED BY <1>4, <2>1
<1>6. ASSUME NEW k \in 1 .. N PROVE joined[k] = joined[k - 1] \o s.arrived[k]
  <2>1. k \in 0 .. N /\ k # 0
    BY <1>7
  <2> QED BY <1>4, <2>1
<1> QED BY <1>3, <1>5, <1>6 DEF N

Call == [cl : Receiver, arrived : Seq(Seq(Byte)), executed : Seq(Seq(Byte)), again : BOOLEAN]

\* It is bytes, and grows with every fragment.
LEMMA AvailableTyped ==
  ASSUME NEW s \in Call
  PROVE  /\ \A k \in 0 .. Len(s.arrived) : Available(s, k) \in Seq(Byte)
         /\ \A k \in 1 .. Len(s.arrived) :
              Len(Available(s, k)) = Len(Available(s, k - 1)) + Len(s.arrived[k])
<1> DEFINE N == Len(s.arrived)
           S == {k \in 0 .. N : Available(s, k) \in Seq(Byte)}
<1>1. s.arrived \in Seq(Seq(Byte)) /\ s.cl.rest \in Seq(Byte)
  BY DEF Call, Receiver
<1>2. N \in Nat
  BY <1>1, LenProperties
<1>3. 0 \in S
  <2>1. Available(s, 0) = s.cl.rest
    BY <1>2, AvailableIs, Zenon
  <2> QED BY <1>1, <1>2, <2>1
<1>4. ASSUME NEW k \in 1 .. N PROVE s.arrived[k] \in Seq(Byte)
  BY <1>1, ElementOfSeq
<1> HIDE DEF N
<1>5. ASSUME NEW k \in 1 .. N, Available(s, k - 1) \in Seq(Byte)
      PROVE  /\ Available(s, k) \in Seq(Byte)
             /\ Len(Available(s, k)) = Len(Available(s, k - 1)) + Len(s.arrived[k])
  <2>1. Available(s, k) = Available(s, k - 1) \o s.arrived[k]
    BY <1>2, AvailableIs DEF N
  <2> QED BY <1>4, <1>5, <2>1, ConcatProperties
<1>6. ASSUME NEW k \in 1 .. N, k - 1 \in S PROVE k \in S
  <2>1. Available(s, k - 1) \in Seq(Byte) /\ k \in 0 .. N
    BY <1>2, <1>6
  <2>2. Available(s, k) \in Seq(Byte)
    BY <1>5, <2>1
  <2> QED BY <2>1, <2>2
<1>7. 0 .. N \subseteq S
  <2> HIDE DEF S
  <2> QED BY <1>2, <1>3, <1>6, UpTo
<1>8. ASSUME NEW k \in 1 .. N PROVE Available(s, k - 1) \in Seq(Byte)
  <2>1. k - 1 \in 0 .. N
    BY <1>2
  <2> QED BY <1>7, <2>1
<1> QED BY <1>5, <1>7, <1>8 DEF N

-----------------------------------------------------------------------------
(* ReliableMessageReceive.                                                 *)

\* What is taken: as many fragments as it needs, or all.
Takes(s, length, used) ==
  /\ used \in 0 .. Len(s.arrived)
  /\ \A i \in 0 .. used - 1 : Len(Available(s, i)) < length
  /\ used < Len(s.arrived) => Len(Available(s, used)) >= length

\* The state of a call after it.
Taken(s, length, used) ==
  LET bytes == Available(s, used)
      n == IF length <= Len(bytes) THEN length ELSE Len(bytes)
  IN  [s EXCEPT !.cl.data = @ \o SubSeq(bytes, 1, n), !.cl.rest = SubSeq(bytes, n + 1, Len(bytes)),
                !.arrived = SubSeq(@, used + 1, Len(@))]

LEMMA ReceiveIs ==
  ASSUME NEW s \in Call, NEW length \in Nat
  PROVE  \E used : Takes(s, length, used) /\ ReliableMessageReceive(s, length) = Taken(s, length, used)
<1> DEFINE N == Len(s.arrived)
           enough == {i \in 0 .. N : Len(Available(s, i)) >= length}
           used == IF enough = {} THEN N ELSE Min(enough)
           bytes == Available(s, used)
<1>1. N \in Nat
  <2>1. s.arrived \in Seq(Seq(Byte))
    BY DEF Call
  <2> QED BY <2>1, LenProperties
<1>2. \A i \in 0 .. N : Len(Available(s, i)) \in Nat
  BY AvailableTyped, LenProperties
<1>3. used \in 0 .. N /\ (\A i \in 0 .. N : i < used => Len(Available(s, i)) < length)
      /\ (used < N => Len(Available(s, used)) >= length)
  <2>1. CASE enough = {}
    <3>1. used = N
      BY <2>1
    <3>2. \A i \in 0 .. N : Len(Available(s, i)) < length
      BY <1>2, <2>1
    <3> HIDE DEF used, N
    <3> QED BY <1>1, <3>1, <3>2
  <2>2. CASE enough # {}
    <3>1. enough \subseteq Nat
      BY <1>1
    <3>2. Min(enough) \in enough /\ \A i \in enough : Min(enough) <= i
      <4> HIDE DEF enough
      <4> QED BY <2>2, <3>1, LeastIs
    <3>3. used \in enough /\ \A i \in enough : used <= i
      BY <2>2, <3>2
    <3> HIDE DEF used
    <3>4. ASSUME NEW i \in 0 .. N, i < used PROVE Len(Available(s, i)) < length
      <4>1. i \notin enough
        BY <1>1, <3>1, <3>3, <3>4
      <4> QED BY <1>2, <4>1
    <3> QED BY <3>3, <3>4
  <2> QED BY <2>1, <2>2
<1> HIDE DEF used, N
<1>4. Takes(s, length, used)
  BY <1>1, <1>3 DEF Takes, N
<1>5. Min({length, Len(bytes)}) = IF length <= Len(bytes) THEN length ELSE Len(bytes)
  <2>1. Len(bytes) \in Int
    BY <1>2, <1>3
  <2> HIDE DEF bytes
  <2> QED BY <2>1, MinOfTwo
<1>6. ReliableMessageReceive(s, length) =
        [s EXCEPT !.cl.data = @ \o SubSeq(bytes, 1, Min({length, Len(bytes)})),
                  !.cl.rest = SubSeq(bytes, Min({length, Len(bytes)}) + 1, Len(bytes)),
                  !.arrived = SubSeq(@, used + 1, Len(@))]
  BY DEF ReliableMessageReceive, used, N
<1>7. ReliableMessageReceive(s, length) = Taken(s, length, used)
  <2> HIDE DEF enough
  <2> QED BY <1>5, <1>6 DEF Taken
<1> QED BY <1>4, <1>7

\* The fields of that state.
LEMMA TakenIs ==
  ASSUME NEW s \in Call, NEW length \in Nat, NEW used, Takes(s, length, used)
  PROVE  LET bytes == Available(s, used)
             n == IF length <= Len(bytes) THEN length ELSE Len(bytes)
             t == Taken(s, length, used)
         IN  /\ t.cl.connected = s.cl.connected /\ t.cl.maxsize = s.cl.maxsize
             /\ t.executed = s.executed /\ t.again = s.again
             /\ t.cl.data = s.cl.data \o SubSeq(bytes, 1, n)
             /\ t.cl.rest = SubSeq(bytes, n + 1, Len(bytes))
             /\ t.arrived = SubSeq(s.arrived, used + 1, Len(s.arrived))
             /\ bytes \in Seq(Byte) /\ n \in 0 .. Len(bytes) /\ Len(bytes) \in Nat
             /\ t \in Call
<1> DEFINE bytes == Available(s, used)
           n == IF length <= Len(bytes) THEN length ELSE Len(bytes)
           t == Taken(s, length, used)
<1>1. s.cl \in Receiver /\ s.arrived \in Seq(Seq(Byte)) /\ s.executed \in Seq(Seq(Byte))
      /\ s.again \in BOOLEAN
      /\ s = [cl |-> s.cl, arrived |-> s.arrived, executed |-> s.executed, again |-> s.again]
  BY DEF Call
<1>2. bytes \in Seq(Byte) /\ Len(bytes) \in Nat /\ used \in Nat /\ used <= Len(s.arrived)
      /\ Len(s.arrived) \in Nat
  <2>1. Len(s.arrived) \in Nat
    BY <1>1, LenProperties
  <2>2. used \in 0 .. Len(s.arrived)
    BY DEF Takes
  <2>3. bytes \in Seq(Byte)
    BY <2>2, AvailableTyped
  <2>4. Len(bytes) \in Nat
    <3> HIDE DEF bytes
    <3> QED BY <2>3, LenProperties
  <2> HIDE DEF bytes
  <2> QED BY <2>1, <2>2, <2>3, <2>4
<1>3. n \in 0 .. Len(bytes)
  BY <1>2
<1> HIDE DEF bytes
<1>4. \A i \in 1 .. Len(bytes) : bytes[i] \in Byte
  BY <1>2, ElementOfSeq
<1>5. SubSeq(bytes, 1, n) \in Seq(Byte) /\ SubSeq(bytes, n + 1, Len(bytes)) \in Seq(Byte)
  <2> HIDE DEF n
  <2>1. \A i \in 1 .. n : bytes[i] \in Byte
    BY <1>2, <1>3, <1>4
  <2>2. \A i \in n + 1 .. Len(bytes) : bytes[i] \in Byte
    BY <1>2, <1>3, <1>4
  <2>3. n \in Int /\ n + 1 \in Int /\ 1 \in Int /\ Len(bytes) \in Int
    BY <1>2, <1>3
  <2> QED BY <2>1, <2>2, <2>3, SubSeqProperties
<1>6. s.cl.data \in Seq(Byte) /\ s.cl.rest \in Seq(Byte) /\ s.cl.connected \in BOOLEAN
      /\ s.cl.maxsize \in Nat
  BY <1>1 DEF Receiver
<1>7. s.cl.data \o SubSeq(bytes, 1, n) \in Seq(Byte)
  <2> HIDE DEF n
  <2> QED BY <1>5, <1>6, ConcatProperties
<1>8. SubSeq(s.arrived, used + 1, Len(s.arrived)) \in Seq(Seq(Byte))
  <2>1. \A i \in used + 1 .. Len(s.arrived) : s.arrived[i] \in Seq(Byte)
    BY <1>1, <1>2, ElementOfSeq
  <2>2. used + 1 \in Int /\ Len(s.arrived) \in Int
    BY <1>2
  <2> QED BY <2>1, <2>2, SubSeqProperties
<1>9. /\ t.cl.connected = s.cl.connected /\ t.cl.maxsize = s.cl.maxsize
      /\ t.executed = s.executed /\ t.again = s.again
      /\ t.cl.data = s.cl.data \o SubSeq(bytes, 1, n)
      /\ t.cl.rest = SubSeq(bytes, n + 1, Len(bytes))
      /\ t.arrived = SubSeq(s.arrived, used + 1, Len(s.arrived))
      /\ t.cl = [s.cl EXCEPT !.data = s.cl.data \o SubSeq(bytes, 1, n),
                             !.rest = SubSeq(bytes, n + 1, Len(bytes))]
      /\ t = [cl |-> t.cl, arrived |-> t.arrived, executed |-> t.executed, again |-> t.again]
  <2>1. t = [s EXCEPT !.cl.data = @ \o SubSeq(bytes, 1, n), !.cl.rest = SubSeq(bytes, n + 1, Len(bytes)),
                      !.arrived = SubSeq(@, used + 1, Len(@))]
    BY DEF Taken, bytes
  <2> HIDE DEF t, n
  <2> QED BY <1>1, <2>1 DEF Receiver
<1> HIDE DEF t, n
<1>10. t.cl \in Receiver
  BY <1>1, <1>5, <1>7, <1>9 DEF Receiver
<1>11. t \in Call
  BY <1>1, <1>8, <1>9, <1>10 DEF Call
<1> QED BY <1>2, <1>3, <1>9, <1>11 DEF bytes, t, n

\* Whatever it reads, what it leaves of a fragment is less than one.
LEMMA TakenFits ==
  ASSUME SizesAssumption, NEW s \in Call, NEW length \in Nat \ {0}, NEW used, Takes(s, length, used),
         Len(s.cl.rest) < FragmentSize, \A i \in 1 .. Len(s.arrived) : Len(s.arrived[i]) <= FragmentSize
  PROVE  LET t == Taken(s, length, used) IN
         /\ Len(t.cl.rest) < FragmentSize
         /\ Len(t.cl.data) <= Len(s.cl.data) + length
<1> DEFINE bytes == Available(s, used)
           n == IF length <= Len(bytes) THEN length ELSE Len(bytes)
           t == Taken(s, length, used)
<1>1. /\ t.cl.data = s.cl.data \o SubSeq(bytes, 1, n)
      /\ t.cl.rest = SubSeq(bytes, n + 1, Len(bytes))
      /\ bytes \in Seq(Byte) /\ n \in 0 .. Len(bytes) /\ Len(bytes) \in Nat
  BY TakenIs
<1>2. s.cl.data \in Seq(Byte) /\ s.cl.rest \in Seq(Byte) /\ s.arrived \in Seq(Seq(Byte))
  BY DEF Call, Receiver
<1>3. Len(s.cl.data) \in Nat /\ Len(s.cl.rest) \in Nat /\ Len(s.arrived) \in Nat
  BY <1>2, LenProperties
<1>4. used \in 0 .. Len(s.arrived)
  BY DEF Takes
<1>5. Len(bytes) - n < FragmentSize
  <2>1. CASE length > Len(bytes)
    <3>1. n = Len(bytes)
      BY <1>1, <2>1
    <3> HIDE DEF n, bytes
    <3> QED BY <1>1, <3>1, SizesAre
  <2>2. CASE length <= Len(bytes) /\ used = 0
    <3>1. bytes = s.cl.rest
      BY <1>3, <2>2, AvailableIs
    <3> HIDE DEF bytes
    <3> QED BY <1>1, <1>3, <2>2, <3>1, SizesAre
  <2>3. CASE length <= Len(bytes) /\ used # 0
    <3>1. used \in 1 .. Len(s.arrived) /\ used - 1 \in 0 .. used - 1 /\ used - 1 \in 0 .. Len(s.arrived)
      BY <1>3, <1>4, <2>3
    <3>2. Len(bytes) = Len(Available(s, used - 1)) + Len(s.arrived[used])
      BY <3>1, AvailableTyped
    <3>3. Len(Available(s, used - 1)) < length
      BY <3>1 DEF Takes
    <3>4. Len(s.arrived[used]) <= FragmentSize
      BY <3>1
    <3>5. Len(Available(s, used - 1)) \in Nat /\ Len(s.arrived[used]) \in Nat
      BY <1>2, <3>1, AvailableTyped, LenProperties, ElementOfSeq
    <3>6. n = length
      BY <2>3
    <3>7. FragmentSize \in Nat
      BY SizesAre
    <3> HIDE DEF bytes, n
    <3>8. Len(bytes) < length + FragmentSize
      <4>1. length \in Nat
        OBVIOUS
      <4>2. ASSUME NEW a \in Nat, NEW b \in Nat, NEW c \in Nat, a < length, b <= c
            PROVE  a + b < length + c
        BY <4>1, <4>2
      <4> QED BY <3>2, <3>3, <3>4, <3>5, <3>7, <4>2, Zenon
    <3> QED BY <1>1, <3>6, <3>7, <3>8
  <2> QED BY <1>1, <2>1, <2>2, <2>3
<1>6. \A i \in 1 .. Len(bytes) : bytes[i] \in Byte
  BY <1>1, ElementOfSeq
<1>7. Len(SubSeq(bytes, 1, n)) = n /\ Len(SubSeq(bytes, n + 1, Len(bytes))) = Len(bytes) - n
      /\ SubSeq(bytes, 1, n) \in Seq(Byte)
  <2> HIDE DEF n, bytes
  <2>1. n \in Int /\ n + 1 \in Int /\ 1 \in Int /\ Len(bytes) \in Int
    BY <1>1
  <2>2. \A i \in 1 .. n : bytes[i] \in Byte
    BY <1>1, <1>6
  <2>3. \A i \in n + 1 .. Len(bytes) : bytes[i] \in Byte
    BY <1>1, <1>6
  <2>4. SubSeq(bytes, 1, n) \in Seq(Byte) /\ Len(SubSeq(bytes, 1, n)) = IF 1 <= n THEN n - 1 + 1 ELSE 0
    BY <2>1, <2>2, SubSeqProperties
  <2>5. Len(SubSeq(bytes, n + 1, Len(bytes))) = IF n + 1 <= Len(bytes) THEN Len(bytes) - (n + 1) + 1 ELSE 0
    BY <2>1, <2>3, SubSeqProperties
  <2> QED BY <1>1, <2>4, <2>5
<1>8. n <= length
  BY <1>1
<1>9. Len(t.cl.data) = Len(s.cl.data) + n
  <2> HIDE DEF n, bytes, t
  <2> QED BY <1>1, <1>2, <1>7, ConcatProperties
<1>10. Len(t.cl.rest) < FragmentSize
  <2> HIDE DEF n, bytes, t
  <2> QED BY <1>1, <1>5, <1>7
<1>11. Len(t.cl.data) <= Len(s.cl.data) + length
  <2> HIDE DEF n, bytes, t
  <2>1. n \in Int /\ length \in Int
    BY <1>1
  <2> QED BY ONLY <2>1, <1>3, <1>8, <1>9
<1> QED BY <1>10, <1>11 DEF t

-----------------------------------------------------------------------------
(* Reading in step.                                                        *)

\* What holds of the sender and the stream.
Sound ==
  /\ sent \in Seq(Lengths) /\ cut \in 0 .. Len(sent)
  /\ stream \in Seq(Seq(Byte))
  /\ \A f \in 1 .. Len(stream) : Fragment(stream[f]) /\ Joint(f)

\* The numbers in it.
LEMMA SoundNumbers ==
  ASSUME SizesAssumption, sent \in Seq(Lengths), cut \in 0 .. Len(sent)
  PROVE  /\ Len(sent) \in Nat /\ Whole \in Nat /\ Whole >= 1 /\ Whole <= Len(sent) + 1
         /\ \A m \in 1 .. Len(sent) : sent[m] \in Nat /\ Size(m) \in Nat /\ Size(m) >= HeadSize
                                      /\ Size(m) >= 1 /\ Size(m) = HeadSize + sent[m]
<1>1. Len(sent) \in Nat
  BY LenProperties
<1>2. Whole \in Nat /\ Whole >= 1 /\ Whole <= Len(sent) + 1
  BY <1>1 DEF Whole
<1>3. ASSUME NEW m \in 1 .. Len(sent)
      PROVE  sent[m] \in Nat /\ Size(m) \in Nat /\ Size(m) >= HeadSize /\ Size(m) >= 1
             /\ Size(m) = HeadSize + sent[m]
  <2>1. sent[m] \in Lengths
    BY ElementOfSeq
  <2>2. sent[m] \in Nat /\ HeadSize \in Nat \ {0}
    BY <2>1, SizesAre
  <2> QED BY <2>2 DEF Size
<1> QED BY <1>1, <1>2, <1>3

\* The fragment with which a message goes on.
LEMMA NextPiece ==
  ASSUME SizesAssumption, Sound, NEW m \in Nat \ {0}, m < Whole, NEW f \in Nat \ {0},
         NEW q \in Nat \ {0}, q <= Size(m), Goes(f, m, q)
  PROVE  /\ f \in 1 .. Len(stream) /\ stream[f] \in Seq(Byte)
         /\ Piece(stream[f], m, q) /\ Len(stream[f]) \in 1 .. FragmentSize
         /\ q + Len(stream[f]) <= Size(m) + 1
         /\ Goes(f + 1, m, q + Len(stream[f]))
<1>1. f <= Len(stream) /\ stream[f][1] = <<m, q>>
  BY DEF Goes, Continues
<1>2. Len(stream) \in Nat
  BY LenProperties DEF Sound
<1>3. f \in 1 .. Len(stream)
  BY <1>1, <1>2
<1>4. Fragment(stream[f]) /\ Joint(f)
  BY <1>3 DEF Sound
<1>5. stream[f][1][1] = m /\ stream[f][1][2] = q
  BY <1>1
<1>6. Piece(stream[f], m, q) /\ stream[f] \in Seq(Byte) /\ Len(stream[f]) >= 1
      /\ Len(stream[f]) = IF q + FragmentSize - 1 <= Size(m) THEN FragmentSize
                          ELSE Size(m) - q + 1
  BY <1>4, <1>5 DEF Fragment
<1>7. Goes(f + 1, m, q + Len(stream[f]))
  BY <1>4, <1>5 DEF Joint
<1>8. Size(m) \in Nat /\ FragmentSize \in Nat
  <2>1. m \in 1 .. Len(sent)
    BY SoundNumbers DEF Sound
  <2> QED BY <2>1, SoundNumbers, SizesAre DEF Sound
<1>9. Len(stream[f]) \in 1 .. FragmentSize /\ q + Len(stream[f]) <= Size(m) + 1
  BY <1>6, <1>8
<1> QED BY <1>3, <1>6, <1>7, <1>9

\* Pieces that follow each other are a piece.
LEMMA PiecesJoin ==
  ASSUME NEW a \in Seq(Byte), NEW b \in Seq(Byte), NEW m, NEW p \in Int,
         Piece(a, m, p), Piece(b, m, p + Len(a))
  PROVE  /\ a \o b \in Seq(Byte) /\ Len(a \o b) = Len(a) + Len(b) /\ Piece(a \o b, m, p)
         /\ Len(a) \in Nat /\ Len(b) \in Nat
<1>1. Len(a) \in Nat /\ Len(b) \in Nat
  BY LenProperties
<1>2. /\ a \o b \in Seq(Byte) /\ Len(a \o b) = Len(a) + Len(b)
      /\ \A k \in 1 .. Len(a) + Len(b) : (a \o b)[k] = IF k <= Len(a) THEN a[k] ELSE b[k - Len(a)]
  BY ConcatProperties
<1>3. ASSUME NEW k \in 1 .. Len(a) + Len(b) PROVE (a \o b)[k] = <<m, p + k - 1>>
  <2>1. CASE k <= Len(a)
    <3>1. k \in 1 .. Len(a)
      BY <1>1, <2>1
    <3> QED BY <1>2, <2>1, <3>1 DEF Piece
  <2>2. CASE ~ (k <= Len(a))
    <3>1. k - Len(a) \in 1 .. Len(b)
      BY <1>1, <2>2
    <3>2. b[k - Len(a)] = <<m, (p + Len(a)) + (k - Len(a)) - 1>>
      BY <3>1 DEF Piece
    <3>3. (p + Len(a)) + (k - Len(a)) - 1 = p + k - 1
      BY <1>1
    <3> QED BY <1>2, <2>2, <3>2, <3>3
  <2> QED BY <2>1, <2>2
<1> QED BY <1>1, <1>2, <1>3 DEF Piece

\* A piece is cut in two.
LEMMA PieceCuts ==
  ASSUME NEW a \in Seq(Byte), NEW m, NEW p \in Int, Piece(a, m, p), NEW n \in 0 .. Len(a)
  PROVE  /\ SubSeq(a, 1, n) \in Seq(Byte) /\ Len(SubSeq(a, 1, n)) = n
         /\ SubSeq(a, n + 1, Len(a)) \in Seq(Byte) /\ Len(SubSeq(a, n + 1, Len(a))) = Len(a) - n
         /\ Piece(SubSeq(a, 1, n), m, p) /\ Piece(SubSeq(a, n + 1, Len(a)), m, p + n)
         /\ Len(a) \in Nat
<1>1. Len(a) \in Nat /\ n \in Nat /\ n <= Len(a)
  BY LenProperties
<1>2. \A i \in 1 .. Len(a) : a[i] \in Byte
  BY ElementOfSeq
<1>3. /\ SubSeq(a, 1, n) \in Seq(Byte) /\ Len(SubSeq(a, 1, n)) = n
      /\ \A i \in 1 .. n : SubSeq(a, 1, n)[i] = a[i]
  <2>1. \A i \in 1 .. n : a[i] \in Byte
    BY <1>1, <1>2
  <2>2. /\ SubSeq(a, 1, n) \in Seq(Byte)
        /\ Len(SubSeq(a, 1, n)) = IF 1 <= n THEN n - 1 + 1 ELSE 0
        /\ \A i \in 1 .. n - 1 + 1 : SubSeq(a, 1, n)[i] = a[1 + i - 1]
    BY <1>1, <2>1, SubSeqProperties
  <2> QED BY <1>1, <2>2
<1>4. /\ SubSeq(a, n + 1, Len(a)) \in Seq(Byte) /\ Len(SubSeq(a, n + 1, Len(a))) = Len(a) - n
      /\ \A i \in 1 .. Len(a) - n : SubSeq(a, n + 1, Len(a))[i] = a[n + i]
  <2>1. \A i \in n + 1 .. Len(a) : a[i] \in Byte
    BY <1>1, <1>2
  <2>2. /\ SubSeq(a, n + 1, Len(a)) \in Seq(Byte)
        /\ Len(SubSeq(a, n + 1, Len(a))) = IF n + 1 <= Len(a) THEN Len(a) - (n + 1) + 1 ELSE 0
        /\ \A i \in 1 .. Len(a) - (n + 1) + 1 : SubSeq(a, n + 1, Len(a))[i] = a[n + 1 + i - 1]
    <3>1. n + 1 \in Int /\ Len(a) \in Int
      BY <1>1
    <3> QED BY <2>1, <3>1, SubSeqProperties
  <2>3. Len(a) - (n + 1) + 1 = Len(a) - n
    BY <1>1
  <2>4. Len(SubSeq(a, n + 1, Len(a))) = Len(a) - n
    BY <1>1, <2>2
  <2>5. ASSUME NEW i \in 1 .. Len(a) - n PROVE SubSeq(a, n + 1, Len(a))[i] = a[n + i]
    <3>1. n + 1 + i - 1 = n + i
      BY <1>1
    <3>2. SubSeq(a, n + 1, Len(a))[i] = a[n + 1 + i - 1]
      BY <2>2, <2>3
    <3> QED BY <3>1, <3>2
  <2> QED BY <2>2, <2>4, <2>5
<1>5. Piece(SubSeq(a, 1, n), m, p)
  <2>1. \A i \in 1 .. n : i \in 1 .. Len(a)
    BY <1>1
  <2> QED BY <1>3, <2>1 DEF Piece
<1>6. Piece(SubSeq(a, n + 1, Len(a)), m, p + n)
  <2>1. ASSUME NEW i \in 1 .. Len(a) - n PROVE SubSeq(a, n + 1, Len(a))[i] = <<m, p + n + i - 1>>
    <3>1. n + i \in 1 .. Len(a)
      BY <1>1
    <3>2. a[n + i] = <<m, p + (n + i) - 1>>
      BY <3>1 DEF Piece
    <3>3. p + (n + i) - 1 = p + n + i - 1
      BY <1>1
    <3> QED BY <1>4, <3>2, <3>3
  <2> QED BY <1>4, <2>1 DEF Piece
<1> QED BY <1>1, <1>3, <1>4, <1>5, <1>6

\* The fragments of the call are those of the stream after fragment b.
FromStream(s, b) ==
  /\ b \in Nat /\ b + Len(s.arrived) <= Len(stream)
  /\ \A i \in 1 .. Len(s.arrived) : s.arrived[i] = stream[b + i]

\* The receiver has the beginning of message m, and the stream after fragment b the rest.
Amid(s, m, b) ==
  /\ Piece(s.cl.data, m, 1) /\ Piece(s.cl.rest, m, Len(s.cl.data) + 1)
  /\ Len(s.cl.data) + Len(s.cl.rest) <= Size(m)
  /\ Goes(b + 1, m, Len(s.cl.data) + Len(s.cl.rest) + 1)

\* What there is to read is a piece of the message, as long as it is needed.
LEMMA AvailableAmid ==
  ASSUME SizesAssumption, Sound, NEW m \in Nat \ {0}, m < Whole, NEW b, NEW s \in Call,
         FromStream(s, b), Amid(s, m, b), NEW length \in Nat, Len(s.cl.data) + length <= Size(m),
         NEW used, Takes(s, length, used)
  PROVE  LET bytes == Available(s, used) IN
         /\ Piece(bytes, m, Len(s.cl.data) + 1) /\ Len(s.cl.data) + Len(bytes) <= Size(m)
         /\ Goes(b + used + 1, m, Len(s.cl.data) + Len(bytes) + 1)
<1> DEFINE N == Len(s.arrived)
           p == Len(s.cl.data) + 1
           Good(k) == /\ Piece(Available(s, k), m, p) /\ p + Len(Available(s, k)) <= Size(m) + 1
                      /\ Goes(b + k + 1, m, p + Len(Available(s, k)))
           S == {k \in 0 .. used : Good(k)}
<1>1. s.cl.data \in Seq(Byte) /\ s.cl.rest \in Seq(Byte) /\ s.arrived \in Seq(Seq(Byte))
  BY DEF Call, Receiver
<1>2. Len(s.cl.data) \in Nat /\ N \in Nat /\ p \in Nat \ {0} /\ Len(s.cl.rest) \in Nat
  BY <1>1, LenProperties
<1>3. used \in 0 .. N /\ \A i \in 0 .. used - 1 : Len(Available(s, i)) < length
  BY DEF Takes
<1>4. \A k \in 0 .. N : Available(s, k) \in Seq(Byte) /\ Len(Available(s, k)) \in Nat
  BY AvailableTyped, LenProperties
<1>5. Size(m) \in Nat
  <2>1. m \in 1 .. Len(sent)
    BY SoundNumbers DEF Sound
  <2> QED BY <2>1, SoundNumbers DEF Sound
<1>6. b \in Nat
  BY DEF FromStream
<1>7. Good(0)
  <2>1. Available(s, 0) = s.cl.rest
    BY <1>2, AvailableIs
  <2>2. b + 0 + 1 = b + 1 /\ p + Len(s.cl.rest) = Len(s.cl.data) + Len(s.cl.rest) + 1
    <3>1. b + 0 + 1 = b + 1
      BY <1>6
    <3>2. \A i, j \in Nat : (i + 1) + j = i + j + 1
      OBVIOUS
    <3> QED BY <1>2, <3>1, <3>2, Zenon
  <2>3. Piece(s.cl.rest, m, p) /\ Goes(b + 1, m, p + Len(s.cl.rest))
    <3>1. Goes(b + 1, m, Len(s.cl.data) + Len(s.cl.rest) + 1)
      BY DEF Amid
    <3> QED BY <2>2, <3>1 DEF Amid
  <2>4. p + Len(s.cl.rest) <= Size(m) + 1
    <3>1. Len(s.cl.data) + Len(s.cl.rest) <= Size(m)
      BY DEF Amid
    <3>2. \A i, j, k \in Nat : i + j <= k => (i + 1) + j <= k + 1
      OBVIOUS
    <3> QED BY <1>2, <1>5, <3>1, <3>2, Zenon
  <2> QED BY <2>1, <2>2, <2>3, <2>4
<1>8. ASSUME NEW k \in 1 .. used, Good(k - 1) PROVE Good(k)
  <2> DEFINE a == Available(s, k - 1)
             g == s.arrived[k]
             q == p + Len(a)
             f == b + k
  <2>1. k \in 1 .. N /\ k - 1 \in 0 .. N /\ k - 1 \in 0 .. used - 1 /\ k \in Nat
    BY <1>2, <1>3
  <2>2. a \in Seq(Byte) /\ Len(a) \in Nat /\ Len(a) < length
    BY <1>3, <1>4, <2>1
  <2>3. g = stream[f]
    BY <2>1 DEF FromStream
  <2>4. Piece(a, m, p) /\ Goes(f, m, q)
    <3>1. b + (k - 1) + 1 = f
      BY <1>6, <2>1
    <3> QED BY <1>8, <3>1
  <2>5. Available(s, k) = a \o g
    BY <1>2, <2>1, AvailableIs
  <2> HIDE DEF a, g
  <2>6. q \in Nat \ {0} /\ q <= Size(m) /\ f \in Nat \ {0}
    BY <1>2, <1>5, <1>6, <2>1, <2>2
  <2> HIDE DEF q, f, p
  <2>7. /\ g \in Seq(Byte) /\ Piece(g, m, q)
        /\ q + Len(g) <= Size(m) + 1 /\ Goes(f + 1, m, q + Len(g))
    BY <2>3, <2>4, <2>6, NextPiece
  <2>8. a \o g \in Seq(Byte) /\ Len(a \o g) = Len(a) + Len(g) /\ Piece(a \o g, m, p)
        /\ Len(g) \in Nat
    BY <1>2, <2>2, <2>4, <2>7, PiecesJoin DEF q
  <2>9. p + Len(a \o g) = q + Len(g)
    BY <1>2, <2>2, <2>8 DEF q
  <2>10. b + k + 1 = f + 1
    BY DEF f
  <2> QED BY <2>5, <2>7, <2>8, <2>9, <2>10
<1> HIDE DEF Good
<1>9. 0 .. used \subseteq S
  <2>1. used \in Nat
    BY <1>2, <1>3
  <2>2. 0 \in S
    BY <1>7, <2>1
  <2>3. \A k \in 1 .. used : k - 1 \in S => k \in S
    BY <1>8, <2>1
  <2> HIDE DEF S
  <2> QED BY <2>1, <2>2, <2>3, UpTo
<1>10. Good(used)
  <2>1. used \in 0 .. used
    BY <1>2, <1>3
  <2> QED BY <1>9, <2>1
<1>11. Len(Available(s, used)) \in Nat
  BY <1>3, <1>4
<1>12. p + Len(Available(s, used)) = Len(s.cl.data) + Len(Available(s, used)) + 1
  BY <1>2, <1>11
<1>13. Len(s.cl.data) + Len(Available(s, used)) <= Size(m)
  <2>1. p + Len(Available(s, used)) <= Size(m) + 1
    BY <1>10 DEF Good
  <2> HIDE DEF p
  <2> QED BY <1>2, <1>5, <1>11, <1>12, <2>1
<1> QED BY <1>10, <1>12, <1>13 DEF Good

\* A read leaves in the call what follows in the stream.
LEMMA TakenFrom ==
  ASSUME NEW b, NEW s \in Call, FromStream(s, b), NEW length \in Nat, NEW used, Takes(s, length, used)
  PROVE  /\ FromStream(Taken(s, length, used), b + used)
         /\ Len(Taken(s, length, used).arrived) = Len(s.arrived) - used
<1> DEFINE t == Taken(s, length, used)
<1>1. t.arrived = SubSeq(s.arrived, used + 1, Len(s.arrived))
  BY TakenIs
<1>2. s.arrived \in Seq(Seq(Byte))
  BY DEF Call
<1>3. Len(s.arrived) \in Nat
  BY <1>2, LenProperties
<1>4. used \in 0 .. Len(s.arrived) /\ used \in Nat
  BY <1>3 DEF Takes
<1>6. b \in Nat
  BY DEF FromStream
<1> HIDE DEF t
<1>11. /\ Len(t.arrived) = Len(s.arrived) - used
       /\ \A i \in 1 .. Len(s.arrived) - used : t.arrived[i] = s.arrived[used + i]
  <2>1. \A i \in used + 1 .. Len(s.arrived) : s.arrived[i] \in Seq(Byte)
    BY <1>2, <1>3, <1>4, ElementOfSeq
  <2>2. used + 1 \in Int /\ Len(s.arrived) \in Int
    BY <1>3, <1>4
  <2>3. /\ Len(t.arrived) = IF used + 1 <= Len(s.arrived) THEN Len(s.arrived) - (used + 1) + 1 ELSE 0
        /\ \A i \in 1 .. Len(s.arrived) - (used + 1) + 1 : t.arrived[i] = s.arrived[used + 1 + i - 1]
    BY <1>1, <2>1, <2>2, SubSeqProperties
  <2>4. Len(t.arrived) = Len(s.arrived) - used
    BY <1>3, <1>4, <2>3
  <2>5. ASSUME NEW i \in 1 .. Len(s.arrived) - used PROVE t.arrived[i] = s.arrived[used + i]
    <3>1. used + 1 + i - 1 = used + i /\ i \in 1 .. Len(s.arrived) - (used + 1) + 1
      BY <1>3, <1>4
    <3>2. t.arrived[i] = s.arrived[used + 1 + i - 1]
      BY <2>3, <3>1
    <3> QED BY <3>1, <3>2
  <2> QED BY <2>4, <2>5
<1>111. Len(t.arrived) = Len(s.arrived) - used
  BY <1>11
<1>12. b + used + Len(t.arrived) = b + Len(s.arrived)
  <2>1. \A x, y, z \in Nat : x + y + (z - y) = x + z
    OBVIOUS
  <2>2. b + used + (Len(s.arrived) - used) = b + Len(s.arrived)
    BY <1>3, <1>4, <1>6, <2>1, Zenon
  <2> QED BY ONLY <1>111, <2>2, Zenon
<1>13. FromStream(t, b + used)
  <2>1. ASSUME NEW i \in 1 .. Len(t.arrived) PROVE t.arrived[i] = stream[b + used + i]
    <3>1. used + i \in 1 .. Len(s.arrived) /\ i \in 1 .. Len(s.arrived) - used
      BY <1>3, <1>4, <1>11
    <3>2. s.arrived[used + i] = stream[b + (used + i)]
      BY <3>1 DEF FromStream
    <3>3. b + (used + i) = b + used + i
      BY <1>4, <1>6
    <3> QED BY <1>11, <3>1, <3>2, <3>3
  <2>2. b + used \in Nat
    BY <1>4, <1>6
  <2>3. b + used + Len(t.arrived) <= Len(stream)
    BY <1>12 DEF FromStream
  <2> QED BY <2>1, <2>2, <2>3 DEF FromStream
<1> QED BY <1>11, <1>13 DEF t

\* So a read that does not go beyond the message leaves the receiver in the middle of it, and
\* one that gets less than it asks for leaves nothing to read.
LEMMA ReadKeeps ==
  ASSUME SizesAssumption, Sound, NEW m \in Nat \ {0}, m < Whole, NEW b, NEW s \in Call,
         FromStream(s, b), Amid(s, m, b), NEW length \in Nat, Len(s.cl.data) + length <= Size(m),
         NEW used, Takes(s, length, used)
  PROVE  LET t == Taken(s, length, used) IN
         /\ Amid(t, m, b + used)
         /\ Len(t.cl.data) <= Len(s.cl.data) + length
         /\ Len(t.cl.data) < Len(s.cl.data) + length => t.cl.rest = << >> /\ t.arrived = << >>
<1> DEFINE bytes == Available(s, used)
           n == IF length <= Len(bytes) THEN length ELSE Len(bytes)
           t == Taken(s, length, used)
           l == Len(s.cl.data)
<1>1. /\ t.cl.data = s.cl.data \o SubSeq(bytes, 1, n)
      /\ t.cl.rest = SubSeq(bytes, n + 1, Len(bytes))
      /\ t.arrived = SubSeq(s.arrived, used + 1, Len(s.arrived))
      /\ bytes \in Seq(Byte) /\ n \in 0 .. Len(bytes) /\ Len(bytes) \in Nat
  BY TakenIs
<1>2. s.cl.data \in Seq(Byte) /\ s.arrived \in Seq(Seq(Byte))
  BY DEF Call, Receiver
<1>3. l \in Nat /\ Len(s.arrived) \in Nat
  BY <1>2, LenProperties
<1>4. used \in 0 .. Len(s.arrived) /\ used \in Nat
      /\ (used < Len(s.arrived) => Len(bytes) >= length)
  <2>1. used \in 0 .. Len(s.arrived) /\ (used < Len(s.arrived) => Len(bytes) >= length)
    BY DEF Takes
  <2> QED BY <1>3, <2>1
<1>5. Piece(bytes, m, l + 1) /\ l + Len(bytes) <= Size(m) /\ Goes(b + used + 1, m, l + Len(bytes) + 1)
  BY AvailableAmid
<1>6. Piece(s.cl.data, m, 1) /\ b \in Nat
  BY DEF Amid, FromStream
<1>61. n <= length /\ (n < length => n = Len(bytes) /\ ~ (used < Len(s.arrived)))
  <2> HIDE DEF bytes
  <2> QED BY <1>1, <1>4
<1> HIDE DEF bytes, n, t
<1>7. /\ SubSeq(bytes, 1, n) \in Seq(Byte) /\ Len(SubSeq(bytes, 1, n)) = n
      /\ Len(SubSeq(bytes, n + 1, Len(bytes))) = Len(bytes) - n
      /\ Piece(SubSeq(bytes, 1, n), m, l + 1)
      /\ Piece(SubSeq(bytes, n + 1, Len(bytes)), m, l + 1 + n)
  <2>1. l + 1 \in Int
    BY <1>3
  <2> HIDE DEF l
  <2> QED BY <1>1, <1>5, <2>1, PieceCuts
<1>8. Piece(t.cl.data, m, 1) /\ Len(t.cl.data) = l + n
  <2>1. 1 + l = l + 1
    BY <1>3
  <2>2. Piece(SubSeq(bytes, 1, n), m, 1 + Len(s.cl.data))
    BY <1>7, <2>1
  <2>3. /\ Len(s.cl.data \o SubSeq(bytes, 1, n)) = Len(s.cl.data) + Len(SubSeq(bytes, 1, n))
        /\ Piece(s.cl.data \o SubSeq(bytes, 1, n), m, 1)
    <3>1. 1 \in Int
      OBVIOUS
    <3> QED BY <1>2, <1>6, <1>7, <2>2, <3>1, PiecesJoin
  <2> QED BY <1>1, <1>7, <2>3
<1>9. Piece(t.cl.rest, m, Len(t.cl.data) + 1) /\ Len(t.cl.data) + Len(t.cl.rest) = l + Len(bytes)
  <2>1. l + 1 + n = Len(t.cl.data) + 1
    <3>1. n \in Nat
      BY <1>1
    <3>2. \A i, j \in Nat : i + 1 + j = i + j + 1
      OBVIOUS
    <3>3. l + 1 + n = (l + n) + 1
      BY <1>3, <3>1, <3>2, Zenon
    <3>4. Len(t.cl.data) = l + n
      BY <1>8
    <3> QED BY ONLY <3>3, <3>4, Zenon
  <2>2. Len(t.cl.data) + Len(t.cl.rest) = l + Len(bytes)
    <3>1. n \in Nat /\ Len(bytes) \in Nat
      BY <1>1
    <3>2. \A i, j, k \in Nat : (i + j) + (k - j) = i + k
      OBVIOUS
    <3>3. Len(t.cl.rest) = Len(bytes) - n
      BY <1>1, <1>7
    <3>4. (l + n) + (Len(bytes) - n) = l + Len(bytes)
      BY <1>3, <3>1, <3>2, Zenon
    <3>5. Len(t.cl.data) = l + n
      BY <1>8
    <3> QED BY ONLY <3>3, <3>4, <3>5, Zenon
  <2> QED BY <1>1, <1>7, <2>1, <2>2
<1>10. Amid(t, m, b + used)
  BY <1>5, <1>8, <1>9 DEF Amid
<1>14. Len(t.cl.data) <= l + length
  <2>1. n \in Nat
    BY <1>1
  <2>2. \A i, j, k \in Nat : j <= k => i + j <= i + k
    OBVIOUS
  <2> QED BY <1>3, <1>61, <1>8, <2>1, <2>2, Zenon
<1>15. ASSUME Len(t.cl.data) < l + length PROVE t.cl.rest = << >> /\ t.arrived = << >>
  <2>1. n < length
    <3>1. n \in Nat
      BY <1>1
    <3>2. \A i, j, k \in Nat : i + j < i + k => j < k
      OBVIOUS
    <3> QED BY <1>3, <1>8, <1>15, <3>1, <3>2, Zenon
  <2>2. n = Len(bytes) /\ used = Len(s.arrived)
    BY <1>3, <1>4, <1>61, <2>1
  <2>3. t.cl.rest = << >>
    BY <1>1, <2>2, SubSeqEmpty
  <2>4. t.arrived = << >>
    BY <1>1, <1>3, <2>2, SubSeqEmpty
  <2> QED BY <2>3, <2>4
<1> QED BY <1>10, <1>14, <1>15 DEF t

-----------------------------------------------------------------------------
(* One round of SV_ReceiveReliableMessages.                                *)

Nothing(s) == s.cl.data = << >> /\ s.cl.rest = << >> /\ s.arrived = << >>

\* In a call with n fragments, Len(s.executed) messages are executed, and of the next the
\* receiver has the beginning; if there is none, nothing more has come.
Mid(s, n) ==
  LET m == Len(s.executed) + 1 IN
  /\ s \in Call /\ Fits(s.cl) /\ Right(s.executed)
  /\ FromStream(s, n - Len(s.arrived))
  /\ ~ s.cl.connected => Nothing(s)
  /\ s.cl.connected /\ m < Whole => Amid(s, m, n - Len(s.arrived))
  /\ s.cl.connected /\ m >= Whole /\ cut = 0 => Nothing(s) /\ n >= Len(stream)

\* Before each round.
Loop(s, n) ==
  LET m == Len(s.executed) + 1 IN
  /\ Mid(s, n)
  /\ s.cl.connected /\ m < Whole => s.cl.rest = << >> /\ Len(s.cl.data) < Size(m)
  /\ s.again => s.cl.maxsize >= FragmentSize

\* Fragments are not longer than MAX_FRAGMENT_SIZE.
LEMMA ArrivedFits ==
  ASSUME SizesAssumption, Sound, NEW s \in Call, NEW b, FromStream(s, b), NEW i \in 1 .. Len(s.arrived)
  PROVE  Len(s.arrived[i]) <= FragmentSize
<1>1. Len(stream) \in Nat /\ Len(s.arrived) \in Nat
  BY LenProperties DEF Sound, Call
<1>2. b + i \in 1 .. Len(stream) /\ s.arrived[i] = stream[b + i]
  BY <1>1 DEF FromStream
<1>3. Fragment(stream[b + i])
  BY <1>2 DEF Sound
<1> DEFINE f == stream[b + i]
           p == f[1][2]
           g == f[1][1]
<1>4. Len(f) = (IF p + FragmentSize - 1 <= Size(g) THEN FragmentSize ELSE Size(g) - p + 1)
      /\ p <= Size(g) /\ f \in Seq(Byte) /\ Len(f) >= 1
  BY <1>3 DEF Fragment
<1>5. f[1] \in Byte
  <2>1. Len(f) \in Nat
    BY <1>4, LenProperties
  <2>2. 1 \in 1 .. Len(f)
    BY <1>4, <2>1
  <2> HIDE DEF f
  <2> QED BY <1>4, <2>2, ElementOfSeq
<1>6. p \in Nat /\ g \in 1 .. Len(sent)
  BY <1>5 DEF Byte
<1>7. Size(g) \in Nat /\ FragmentSize \in Nat
  BY <1>6, SoundNumbers, SizesAre DEF Sound
<1> HIDE DEF f, p, g
<1>8. Len(f) <= FragmentSize
  BY <1>4, <1>6, <1>7
<1> QED BY <1>2, <1>8 DEF f

\* What a read changes.
Read(s, t, length) ==
  /\ t.cl.connected = s.cl.connected /\ t.cl.maxsize = s.cl.maxsize
  /\ t.executed = s.executed /\ t.again = s.again
  /\ Len(t.cl.data) <= Len(s.cl.data) + length
  /\ Nothing(s) => Nothing(t)
  /\ s.cl.connected /\ Len(s.executed) + 1 < Whole /\ Len(t.cl.data) < Len(s.cl.data) + length
       => t.cl.rest = << >> /\ t.arrived = << >>

\* It keeps the call in the middle of a message.
LEMMA ReadMid ==
  ASSUME SizesAssumption, Sound, NEW n \in Nat, NEW s, Mid(s, n), NEW length \in Nat \ {0},
         Len(s.cl.data) + length <= s.cl.maxsize,
         s.cl.connected /\ Len(s.executed) + 1 < Whole
           => Len(s.cl.data) + length <= Size(Len(s.executed) + 1)
  PROVE  /\ Mid(ReliableMessageReceive(s, length), n)
         /\ Read(s, ReliableMessageReceive(s, length), length)
<1> DEFINE m == Len(s.executed) + 1
           b == n - Len(s.arrived)
           t == ReliableMessageReceive(s, length)
<1>1. s \in Call /\ Fits(s.cl) /\ Right(s.executed) /\ FromStream(s, b)
  BY DEF Mid
<1>2. PICK used : Takes(s, length, used) /\ t = Taken(s, length, used)
  <2>1. length \in Nat
    OBVIOUS
  <2>2. \E used : Takes(s, length, used) /\ ReliableMessageReceive(s, length) = Taken(s, length, used)
    BY <1>1, <2>1, ReceiveIs
  <2> QED BY <2>2
<1> HIDE DEF t
<1> DEFINE bytes == Available(s, used)
           k == IF length <= Len(bytes) THEN length ELSE Len(bytes)
<1>3. /\ t.cl.connected = s.cl.connected /\ t.cl.maxsize = s.cl.maxsize
      /\ t.executed = s.executed /\ t.again = s.again
      /\ t.cl.data = s.cl.data \o SubSeq(bytes, 1, k)
      /\ t.cl.rest = SubSeq(bytes, k + 1, Len(bytes))
      /\ t.arrived = SubSeq(s.arrived, used + 1, Len(s.arrived))
      /\ k \in 0 .. Len(bytes) /\ Len(bytes) \in Nat
      /\ t \in Call
  <2>1. length \in Nat
    OBVIOUS
  <2> HIDE DEF bytes, k
  <2> QED BY <1>1, <1>2, <2>1, TakenIs DEF bytes, k
<1>4. used \in 0 .. Len(s.arrived)
  BY <1>2 DEF Takes
<1> HIDE DEF k, bytes
<1>5. s.cl.data \in Seq(Byte) /\ s.cl.rest \in Seq(Byte) /\ s.arrived \in Seq(Seq(Byte))
      /\ s.executed \in Seq(Seq(Byte)) /\ s.cl.maxsize \in Nat
      /\ Len(s.cl.data) \in Nat /\ Len(s.cl.rest) \in Nat /\ Len(s.arrived) \in Nat
      /\ Len(s.executed) \in Nat
  <2>1. s.cl.data \in Seq(Byte) /\ s.cl.rest \in Seq(Byte) /\ s.arrived \in Seq(Seq(Byte))
        /\ s.executed \in Seq(Seq(Byte)) /\ s.cl.maxsize \in Nat
    BY <1>1 DEF Call, Receiver
  <2> QED BY <2>1, LenProperties
<1>6. t.cl \in Receiver /\ t.cl.data \in Seq(Byte) /\ t.arrived \in Seq(Seq(Byte))
      /\ Len(t.cl.data) \in Nat /\ Len(t.arrived) \in Nat
  <2>1. t.cl \in Receiver /\ t.cl.data \in Seq(Byte) /\ t.arrived \in Seq(Seq(Byte))
    BY <1>3 DEF Call, Receiver
  <2> QED BY <2>1, LenProperties
<1>7. Len(t.cl.rest) < FragmentSize /\ Len(t.cl.data) <= Len(s.cl.data) + length
  <2>1. \A i \in 1 .. Len(s.arrived) : Len(s.arrived[i]) <= FragmentSize
    BY <1>1, ArrivedFits
  <2>2. Len(s.cl.rest) < FragmentSize
    BY <1>1 DEF Fits
  <2> QED BY <1>1, <1>2, <2>1, <2>2, TakenFits
<1>8. Fits(t.cl)
  <2>1. Len(t.cl.data) <= t.cl.maxsize
    <3>1. Len(t.cl.data) <= Len(s.cl.data) + length /\ Len(s.cl.data) + length <= s.cl.maxsize
          /\ t.cl.maxsize = s.cl.maxsize
      BY <1>3, <1>7
    <3>2. \A x, y, z \in Nat : x <= y /\ y <= z => x <= z
      OBVIOUS
    <3>3. Len(s.cl.data) + length \in Nat
      BY <1>5
    <3> QED BY <1>5, <1>6, <3>1, <3>2, <3>3, Zenon
  <2> QED BY <1>6, <1>7, <2>1 DEF Fits
<1>9. ASSUME Nothing(s) PROVE Nothing(t)
  <2>1. used = 0 /\ Len(s.arrived) = 0
    BY <1>4, <1>9 DEF Nothing
  <2>2. bytes = << >>
    <3>1. Available(s, 0) = s.cl.rest
      BY <1>5, AvailableIs
    <3> QED BY <1>9, <2>1, <3>1 DEF Nothing, bytes
  <2>3. k = 0 /\ Len(bytes) = 0
    BY <1>3, <2>2
  <2>4. t.cl.rest = << >> /\ t.arrived = << >>
    <3>1. SubSeq(bytes, 0 + 1, 0) = << >>
      BY SubSeqEmpty
    <3>2. SubSeq(s.arrived, 0 + 1, 0) = << >>
      BY SubSeqEmpty
    <3> QED BY <1>3, <2>1, <2>3, <3>1, <3>2
  <2>5. t.cl.data = << >>
    <3>1. SubSeq(bytes, 1, 0) = << >>
      BY SubSeqEmpty
    <3>2. << >> \o << >> = << >>
      BY ConcatEmptySeq
    <3> QED BY <1>3, <1>9, <2>3, <3>1, <3>2 DEF Nothing
  <2> QED BY <2>4, <2>5 DEF Nothing
<1>10. ASSUME s.cl.connected, m < Whole
       PROVE  /\ Amid(t, m, b + used)
              /\ Len(t.cl.data) < Len(s.cl.data) + length => t.cl.rest = << >> /\ t.arrived = << >>
  <2>1. m \in Nat \ {0} /\ length \in Nat
    BY <1>5
  <2>2. Amid(s, m, b)
    BY <1>10 DEF Mid
  <2>3. Len(s.cl.data) + length <= Size(m)
    BY <1>10
  <2> HIDE DEF m, b
  <2> QED BY <1>1, <1>2, <1>10, <2>1, <2>2, <2>3, ReadKeeps
<1>11. FromStream(t, b + used) /\ Len(t.arrived) = Len(s.arrived) - used
  <2>1. length \in Nat
    OBVIOUS
  <2> HIDE DEF b
  <2>2. FromStream(Taken(s, length, used), b + used)
        /\ Len(Taken(s, length, used).arrived) = Len(s.arrived) - used
    <3>1. s \in Call /\ FromStream(s, b) /\ Takes(s, length, used)
      BY <1>1, <1>2
    <3> QED BY <2>1, <3>1, TakenFrom, Zenon
  <2> QED BY ONLY <1>2, <2>2
<1>12. b + used = n - Len(t.arrived)
  BY <1>4, <1>5, <1>11
<1>13. FromStream(t, n - Len(t.arrived))
  BY <1>11, <1>12
<1>14. Mid(t, n)
  <2>1. ~ t.cl.connected => Nothing(t)
    BY <1>3, <1>9 DEF Mid
  <2>2. t.cl.connected /\ Len(t.executed) + 1 < Whole
          => Amid(t, Len(t.executed) + 1, n - Len(t.arrived))
    BY <1>3, <1>10, <1>12
  <2>3. t.cl.connected /\ Len(t.executed) + 1 >= Whole /\ cut = 0 => Nothing(t) /\ n >= Len(stream)
    BY <1>3, <1>9 DEF Mid
  <2> QED BY <1>1, <1>3, <1>8, <1>13, <2>1, <2>2, <2>3 DEF Mid
<1>15. Read(s, t, length)
  <2> HIDE DEF m, b
  <2> QED BY <1>3, <1>7, <1>9, <1>10 DEF Read, m
<1> QED BY <1>14, <1>15 DEF t

\* The number at the beginning of the buffer.
LEMMA MessageSizeIs ==
  ASSUME SizesAssumption, sent \in Seq(Lengths), cut \in 0 .. Len(sent), NEW data \in Seq(Byte)
  PROVE  /\ MessageSize(data) \in Int
         /\ data = << >> => MessageSize(data) < 0
         /\ \A m \in 1 .. Len(sent) : Piece(data, m, 1) =>
              /\ Len(data) < HeadSize => MessageSize(data) < 0
              /\ Len(data) >= HeadSize => MessageSize(data) + HeadSize = Size(m) /\ MessageSize(data) >= 0
<1>1. Len(data) \in Nat /\ HeadSize \in Nat \ {0} /\ Misread \in Int
  BY LenProperties, SizesAre
<1> DEFINE Legible == \A k \in 1 .. HeadSize : data[k] = <<data[1][1], k>>
<1>2. Len(data) < HeadSize => MessageSize(data) = -1
  BY <1>1 DEF MessageSize
<1>3. Len(data) >= HeadSize /\ Legible => MessageSize(data) = sent[data[1][1]]
  <2> HIDE DEF Legible
  <2> QED BY <1>1 DEF MessageSize, Legible
<1>4. Len(data) >= HeadSize /\ ~ Legible => MessageSize(data) = Misread
  <2> HIDE DEF Legible
  <2> QED BY <1>1 DEF MessageSize, Legible
<1>5. ASSUME Len(data) >= HeadSize PROVE data[1][1] \in 1 .. Len(sent)
  <2>1. 1 \in 1 .. Len(data)
    BY <1>1, <1>5
  <2>2. data[1] \in Byte
    BY <2>1, ElementOfSeq
  <2> QED BY <2>2 DEF Byte
<1>6. \A m \in 1 .. Len(sent) : sent[m] \in Nat /\ Size(m) = HeadSize + sent[m]
  BY SoundNumbers
<1>7. MessageSize(data) \in Int
  <2>1. CASE Len(data) < HeadSize
    BY <1>2, <2>1
  <2>2. CASE Len(data) >= HeadSize /\ Legible
    <3> HIDE DEF Legible
    <3>1. sent[data[1][1]] \in Nat
      BY <1>5, <1>6, <2>2
    <3> QED BY <1>3, <2>2, <3>1
  <2>3. CASE Len(data) >= HeadSize /\ ~ Legible
    <3> HIDE DEF Legible
    <3> QED BY <1>1, <1>4, <2>3
  <2> HIDE DEF Legible
  <2> QED BY <1>1, <2>1, <2>2, <2>3
<1>8. ASSUME data = << >> PROVE MessageSize(data) < 0
  <2>1. Len(data) = 0
    BY <1>8
  <2> QED BY <1>1, <1>2, <2>1
<1>9. ASSUME NEW m \in 1 .. Len(sent), Piece(data, m, 1), Len(data) >= HeadSize
      PROVE  MessageSize(data) + HeadSize = Size(m) /\ MessageSize(data) >= 0
  <2>1. \A k \in 1 .. HeadSize : data[k] = <<m, k>>
    <3>1. ASSUME NEW k \in 1 .. HeadSize PROVE data[k] = <<m, k>>
      <4>1. k \in 1 .. Len(data) /\ 1 + k - 1 = k
        BY <1>1, <1>9
      <4> QED BY <1>9, <4>1 DEF Piece
    <3> QED BY <3>1
  <2>2. data[1] = <<m, 1>>
    BY <1>1, <2>1
  <2>3. data[1][1] = m
    BY <2>2
  <2>4. Legible
    BY <2>1, <2>3
  <2>5. MessageSize(data) = sent[m]
    <3> HIDE DEF Legible
    <3> QED BY <1>3, <1>9, <2>3, <2>4
  <2> HIDE DEF Legible
  <2> QED BY <1>1, <1>6, <2>5
<1> HIDE DEF Legible
<1>10. Len(data) < HeadSize => MessageSize(data) < 0
  BY <1>2
<1> QED BY <1>7, <1>8, <1>9, <1>10

\* A piece as long as the message is the message.
LEMMA WholePiece ==
  ASSUME SizesAssumption, sent \in Seq(Lengths), cut \in 0 .. Len(sent), NEW data \in Seq(Byte),
         NEW m \in 1 .. Len(sent), Piece(data, m, 1), Len(data) = Size(m)
  PROVE  data = Message(m, sent[m])
<1>1. Size(m) \in Nat /\ Size(m) = HeadSize + sent[m]
  BY SoundNumbers
<1>2. ASSUME NEW k \in 1 .. Len(data) PROVE data[k] = <<m, k>>
  <2>1. 1 + k - 1 = k
    BY <1>1
  <2> QED BY <2>1 DEF Piece
<1>3. DOMAIN data = 1 .. Len(data) /\ data = [k \in 1 .. Len(data) |-> data[k]]
  BY LenProperties
<1>4. data = [k \in 1 .. HeadSize + sent[m] |-> <<m, k>>]
  BY <1>1, <1>2, <1>3, Zenon
<1> QED BY <1>4 DEF Message

\* No fragment is of a message that was not sent.
LEMMA StreamEnds ==
  ASSUME SizesAssumption, Sound, NEW f \in Nat \ {0}, Continues(f, Len(sent) + 1, 1), cut = 0
  PROVE  f > Len(stream)
<1>1. Len(sent) \in Nat /\ Len(stream) \in Nat
  BY LenProperties DEF Sound
<1>2. Whole = Len(sent) + 1
  BY DEF Whole
<1>3. f <= Len(stream) => stream[f][1][1] >= Len(sent) + 1
  BY <1>1, <1>2 DEF Continues
<1>4. ASSUME f <= Len(stream) PROVE stream[f][1][1] \in 1 .. Len(sent)
  <2>1. f \in 1 .. Len(stream)
    BY <1>1, <1>4
  <2>2. Fragment(stream[f])
    BY <2>1 DEF Sound
  <2>3. stream[f] \in Seq(Byte) /\ Len(stream[f]) >= 1
    BY <2>2 DEF Fragment
  <2>4. 1 \in 1 .. Len(stream[f])
    <3>1. Len(stream[f]) \in Nat
      BY <2>3, LenProperties
    <3> QED BY <2>3, <3>1
  <2>5. stream[f][1] \in Byte
    BY <2>3, <2>4, ElementOfSeq
  <2> QED BY <2>5 DEF Byte
<1> QED BY <1>1, <1>3, <1>4

\* Whoever is dropped has nothing left to read.
LEMMA DroppedKeeps ==
  ASSUME SizesAssumption, Sound, NEW n \in Nat, NEW s \in Call, Right(s.executed), Len(s.arrived) <= n,
         n <= Len(stream)
  PROVE  Loop(Dropped(s), n)
<1> DEFINE t == Dropped(s)
<1> SUFFICES Loop(t, n)
  OBVIOUS
<1>1. /\ t.cl = Disconnected(s.cl) /\ t.arrived = << >> /\ t.executed = s.executed /\ t.again = FALSE
      /\ t = [cl |-> t.cl, arrived |-> t.arrived, executed |-> t.executed, again |-> t.again]
  <2>1. t = [s EXCEPT !.cl = Disconnected(@), !.arrived = << >>, !.again = FALSE]
    BY DEF Dropped
  <2> HIDE DEF t
  <2> QED BY <2>1 DEF Call
<1>2. /\ t.cl.connected = FALSE /\ t.cl.data = << >> /\ t.cl.maxsize = 0 /\ t.cl.rest = << >>
      /\ t.cl = [connected |-> FALSE, data |-> << >>, maxsize |-> 0, rest |-> << >>]
  BY <1>1 DEF Disconnected, Receiver, Call
<1>3. << >> \in Seq(Byte) /\ << >> \in Seq(Seq(Byte)) /\ Len(<< >>) = 0
  BY EmptySeq
<1> HIDE DEF t
<1>4. t.cl \in Receiver
  BY <1>2, <1>3 DEF Receiver
<1>5. t \in Call
  BY <1>1, <1>3, <1>4 DEF Call
<1>6. Fits(t.cl)
  <2>1. FragmentSize \in Nat \ {0}
    BY SizesAre
  <2> QED BY <1>2, <1>3, <1>4, <2>1 DEF Fits
<1>7. FromStream(t, n - Len(t.arrived))
  <2>1. n - Len(t.arrived) = n
    BY <1>1
  <2>2. n + Len(t.arrived) <= Len(stream) /\ 1 .. Len(t.arrived) = {}
    BY <1>1
  <2> QED BY <2>1, <2>2 DEF FromStream
<1>8. Mid(t, n)
  <2>1. Nothing(t) /\ ~ t.cl.connected /\ Right(t.executed)
    BY <1>1, <1>2 DEF Nothing
  <2> QED BY <1>5, <1>6, <1>7, <2>1 DEF Mid
<1>9. ~ t.cl.connected /\ ~ t.again
  BY <1>1, <1>2
<1> QED BY <1>8, <1>9 DEF Loop

\* How many fragments there are.
LEMMA FromStreamEnds ==
  ASSUME Sound, NEW n \in Nat, NEW s, Mid(s, n)
  PROVE  s \in Call /\ Right(s.executed) /\ Len(s.arrived) <= n /\ n <= Len(stream)
<1>1. s \in Call /\ Right(s.executed) /\ FromStream(s, n - Len(s.arrived))
  BY DEF Mid
<1>2. Len(s.arrived) \in Nat /\ Len(stream) \in Nat
  BY <1>1, LenProperties DEF Call, Sound
<1>3. n - Len(s.arrived) \in Nat /\ (n - Len(s.arrived)) + Len(s.arrived) <= Len(stream)
  BY <1>1 DEF FromStream
<1>4. \A x, y, z \in Nat : x - y \in Nat /\ (x - y) + y <= z => y <= x /\ x <= z
  OBVIOUS
<1> QED BY <1>1, <1>2, <1>3, <1>4, Zenon

\* A message that is read to its end is executed.
LEMMA ExecuteKeeps ==
  ASSUME SizesAssumption, Sound, NEW n \in Nat, NEW s, Mid(s, n), NEW fatal,
         s.cl.data # << >>, s.cl.maxsize >= FragmentSize,
         s.cl.connected /\ Len(s.executed) + 1 < Whole => Len(s.cl.data) = Size(Len(s.executed) + 1)
  PROVE  Loop(Execute(s, fatal), n)
<1> DEFINE m == Len(s.executed) + 1
           b == n - Len(s.arrived)
           messages == Append(s.executed, s.cl.data)
           t == Execute(s, fatal)
<1>1. s \in Call /\ Fits(s.cl) /\ Right(s.executed) /\ FromStream(s, b) /\ s.cl.connected
  BY DEF Mid, Nothing
<1>2. s.cl \in Receiver /\ s.cl.data \in Seq(Byte) /\ s.cl.rest \in Seq(Byte) /\ s.cl.maxsize \in Nat
      /\ s.arrived \in Seq(Seq(Byte)) /\ s.executed \in Seq(Seq(Byte)) /\ s.again \in BOOLEAN
  BY <1>1 DEF Call, Receiver
<1>3. Len(s.executed) \in Nat /\ Len(s.arrived) \in Nat /\ Len(s.cl.data) \in Nat /\ Len(s.cl.rest) \in Nat
      /\ Len(sent) \in Nat /\ Len(stream) \in Nat
  BY <1>2, LenProperties DEF Sound
<1>4. /\ messages \in Seq(Seq(Byte)) /\ Len(messages) = Len(s.executed) + 1
      /\ \A i \in 1 .. Len(s.executed) : messages[i] = s.executed[i]
      /\ messages[Len(s.executed) + 1] = s.cl.data
  BY <1>2, AppendProperties
<1>5. Whole \in Nat /\ Whole <= Len(sent) + 1 /\ (cut = 0 => Whole = Len(sent) + 1)
  BY SoundNumbers DEF Sound, Whole
<1>6. m < Whole => Amid(s, m, b) /\ Len(s.cl.data) = Size(m) /\ m \in 1 .. Len(sent)
  <2>1. m < Whole => m \in 1 .. Len(sent)
    BY <1>3, <1>5
  <2> QED BY <1>1, <2>1 DEF Mid
<1>7. cut = 0 => m < Whole
  <2>1. ~ (m >= Whole /\ cut = 0)
    BY <1>1 DEF Mid, Nothing
  <2> QED BY <1>3, <1>5, <2>1
<1>8. Right(messages)
  <2>1. ASSUME NEW i \in 1 .. Len(messages), i < Whole PROVE messages[i] = Message(i, sent[i])
    <3>1. CASE i = m
      <4>1. m < Whole
        BY <2>1, <3>1
      <4>2. Piece(s.cl.data, m, 1) /\ Len(s.cl.data) = Size(m) /\ m \in 1 .. Len(sent)
        BY <1>6, <4>1 DEF Amid
      <4>3. s.cl.data = Message(m, sent[m])
        <5> HIDE DEF m
        <5> QED BY <1>2, <4>2, WholePiece DEF Sound
      <4> QED BY <1>4, <3>1, <4>3
    <3>2. CASE i # m
      <4>1. i \in 1 .. Len(s.executed)
        BY <1>3, <1>4, <3>2
      <4> QED BY <1>1, <1>4, <2>1, <4>1 DEF Right
    <3> QED BY <3>1, <3>2
  <2>2. cut = 0 => Len(messages) <= Len(sent)
    <3>1. cut = 0 => m \in 1 .. Len(sent)
      BY <1>6, <1>7
    <3> QED BY <1>3, <1>4, <3>1
  <2> HIDE DEF messages
  <2> QED BY <1>4, <2>1, <2>2 DEF Right
<1> HIDE DEF messages
<1>9. CASE Len(messages) = fatal
  <2> DEFINE d == [s EXCEPT !.executed = messages]
  <2>1. t = Dropped(d)
    BY <1>9 DEF Execute, messages
  <2>2. d \in Call /\ d.executed = messages /\ d.arrived = s.arrived
    BY <1>1, <1>4 DEF Call
  <2>3. Len(s.arrived) <= n /\ n <= Len(stream)
    BY FromStreamEnds
  <2> HIDE DEF d, t
  <2>4. Loop(t, n)
    BY <1>8, <2>1, <2>2, <2>3, DroppedKeeps
  <2> QED BY <2>4 DEF t
<1>10. CASE Len(messages) # fatal
  <2> SUFFICES Loop(t, n)
    OBVIOUS
  <2>1. t = [s EXCEPT !.executed = messages, !.cl.data = << >>]
    BY <1>10 DEF Execute, messages
  <2>2. /\ t.cl = [s.cl EXCEPT !.data = << >>] /\ t.arrived = s.arrived /\ t.executed = messages
        /\ t.again = s.again
        /\ t = [cl |-> t.cl, arrived |-> t.arrived, executed |-> t.executed, again |-> t.again]
    BY <1>1, <2>1 DEF Call
  <2>3. /\ t.cl.connected = s.cl.connected /\ t.cl.data = << >> /\ t.cl.maxsize = s.cl.maxsize
        /\ t.cl.rest = s.cl.rest
    BY <1>2, <2>2 DEF Receiver
  <2>4. << >> \in Seq(Byte) /\ Len(<< >>) = 0
    BY EmptySeq
  <2> HIDE DEF t
  <2>5. t.cl \in Receiver
    BY <1>2, <2>2, <2>4 DEF Receiver
  <2>6. t \in Call
    BY <1>2, <1>4, <2>2, <2>5 DEF Call
  <2>7. Fits(t.cl)
    <3>1. Len(s.cl.rest) < FragmentSize
      BY <1>1 DEF Fits
    <3> QED BY <1>2, <2>3, <2>4, <2>5, <3>1 DEF Fits
  <2>8. FromStream(t, n - Len(t.arrived)) /\ n - Len(t.arrived) = b
    BY <1>1, <2>2 DEF FromStream
  <2>9. m < Whole => s.cl.rest = << >> /\ Continues(b + 1, m + 1, 1)
    <3> SUFFICES ASSUME m < Whole PROVE s.cl.rest = << >> /\ Continues(b + 1, m + 1, 1)
      OBVIOUS
    <3>1. Amid(s, m, b) /\ Len(s.cl.data) = Size(m) /\ m \in 1 .. Len(sent)
      BY <1>6
    <3>2. Size(m) \in Nat
      <4> HIDE DEF m
      <4> QED BY <3>1, SoundNumbers DEF Sound
    <3>3. Len(s.cl.rest) = 0
      <4>1. Len(s.cl.data) + Len(s.cl.rest) <= Size(m)
        BY <3>1 DEF Amid
      <4> HIDE DEF m
      <4> QED BY <1>3, <3>1, <3>2, <4>1
    <3>4. s.cl.rest = << >>
      BY <1>2, <3>3, EmptySeq
    <3>5. Goes(b + 1, m, Len(s.cl.data) + Len(s.cl.rest) + 1)
      BY <3>1 DEF Amid
    <3>6. Len(s.cl.data) + Len(s.cl.rest) + 1 = Size(m) + 1 /\ ~ (Size(m) + 1 <= Size(m))
      <4> HIDE DEF m
      <4> QED BY <1>3, <3>1, <3>2, <3>3
    <3>7. Goes(b + 1, m, Size(m) + 1)
      BY <3>5, <3>6
    <3> HIDE DEF m, b
    <3> QED BY <3>4, <3>6, <3>7 DEF Goes
  <2>10. Len(t.executed) + 1 = m + 1
    BY <1>4, <2>2
  <2>11. ASSUME m + 1 < Whole
         PROVE  Amid(t, m + 1, b) /\ t.cl.rest = << >> /\ Len(t.cl.data) < Size(m + 1)
    <3>1. m < Whole /\ m + 1 \in 1 .. Len(sent)
      BY <1>3, <1>5, <2>11
    <3>2. s.cl.rest = << >> /\ Continues(b + 1, m + 1, 1)
      BY <2>9, <3>1
    <3>3. Size(m + 1) \in Nat /\ Size(m + 1) >= 1
      <4> HIDE DEF m
      <4> QED BY <3>1, SoundNumbers DEF Sound
    <3>4. Piece(<< >>, m + 1, 1) /\ Piece(<< >>, m + 1, Len(<< >>) + 1)
      BY <2>4 DEF Piece
    <3>5. Len(<< >>) + Len(<< >>) + 1 = 1
      BY <2>4
    <3>6. Goes(b + 1, m + 1, 1)
      BY <3>2, <3>3 DEF Goes
    <3> HIDE DEF m, b
    <3> QED BY <2>3, <2>4, <3>2, <3>3, <3>4, <3>5, <3>6 DEF Amid
  <2>12. ASSUME m + 1 >= Whole, cut = 0 PROVE Nothing(t) /\ n >= Len(stream)
    <3>1. m < Whole /\ m + 1 = Len(sent) + 1
      BY <1>3, <1>5, <1>7, <2>12
    <3>2. s.cl.rest = << >> /\ Continues(b + 1, Len(sent) + 1, 1)
      BY <2>9, <3>1
    <3>3. b \in Nat /\ b + Len(s.arrived) <= Len(stream)
      BY <1>1 DEF FromStream
    <3>4. b + 1 > Len(stream)
      <4>1. b + 1 \in Nat \ {0}
        BY <3>3
      <4> HIDE DEF b
      <4> QED BY <2>12, <3>2, <4>1, StreamEnds
    <3>5. Len(s.arrived) = 0 /\ n >= Len(stream)
      <4>1. \A x, y, z \in Nat : x - y \in Nat /\ (x - y) + y <= z /\ (x - y) + 1 > z => y = 0 /\ x >= z
        OBVIOUS
      <4> QED BY <1>3, <3>3, <3>4, <4>1, Zenon
    <3>6. s.arrived = << >>
      BY <1>2, <3>5, EmptySeq
    <3> QED BY <2>2, <2>3, <3>2, <3>5, <3>6 DEF Nothing
  <2>13. Mid(t, n)
    <3>1. t.cl.connected
      BY <1>1, <2>3
    <3>2. Right(t.executed)
      BY <1>8, <2>2
    <3> HIDE DEF m, b
    <3> QED BY <2>6, <2>7, <2>8, <2>10, <2>11, <2>12, <3>1, <3>2 DEF Mid
  <2>14. m + 1 < Whole => t.cl.rest = << >> /\ Len(t.cl.data) < Size(m + 1)
    BY <2>11
  <2>15. t.cl.maxsize >= FragmentSize
    BY <2>3
  <2> HIDE DEF m, b
  <2> QED BY <2>10, <2>13, <2>14, <2>15 DEF Loop
<1> QED BY <1>9, <1>10 DEF t

\* What a larger buffer changes, or one that could not be had.
Enlarged(s, t, size, malloced) ==
  /\ t.cl.maxsize \in Nat
  /\ t.cl.maxsize >= size \/ (malloced # TRUE /\ t.cl.maxsize = s.cl.maxsize)
  /\ t.cl.data = s.cl.data /\ t.cl.rest = s.cl.rest /\ t.cl.connected = s.cl.connected
  /\ t.arrived = s.arrived /\ t.executed = s.executed /\ t.again = s.again

\* It changes nothing else.
LEMMA RelocatedKeeps ==
  ASSUME SizesAssumption, NEW n \in Nat, NEW s, Mid(s, n), NEW size \in Nat, NEW malloced
  PROVE  Mid(Relocated(s, size, malloced), n) /\ Enlarged(s, Relocated(s, size, malloced), size, malloced)
<1> DEFINE t == Relocated(s, size, malloced)
<1> DEFINE larger == IF malloced THEN Max({size, Len(s.cl.data)}) ELSE s.cl.maxsize
<1>1. s \in Call /\ Fits(s.cl)
  BY DEF Mid
<1>2. s.cl \in Receiver /\ s.cl.data \in Seq(Byte) /\ s.cl.maxsize \in Nat
  BY <1>1 DEF Call, Receiver
<1>3. Len(s.cl.data) \in Nat
  BY <1>2, LenProperties
<1>4. Max({size, Len(s.cl.data)}) = IF size >= Len(s.cl.data) THEN size ELSE Len(s.cl.data)
  <2>1. size \in Int /\ Len(s.cl.data) \in Int
    BY <1>3
  <2> QED BY <2>1, MaxOfTwo
<1>5. Max({size, Len(s.cl.data)}) \in Nat /\ Max({size, Len(s.cl.data)}) >= size
      /\ Max({size, Len(s.cl.data)}) >= Len(s.cl.data)
  BY <1>3, <1>4
<1>6. larger \in Nat /\ larger >= Len(s.cl.data)
  <2>1. Len(s.cl.data) <= s.cl.maxsize
    BY <1>1 DEF Fits
  <2> QED BY <1>2, <1>3, <1>5, <2>1
<1>7. t = [s EXCEPT !.cl.maxsize = larger]
  BY <1>2 DEF Relocated
<1> HIDE DEF larger
<1>8. /\ t.cl = [s.cl EXCEPT !.maxsize = larger] /\ t.arrived = s.arrived /\ t.executed = s.executed
      /\ t.again = s.again
      /\ t = [cl |-> t.cl, arrived |-> t.arrived, executed |-> t.executed, again |-> t.again]
  BY <1>1, <1>7 DEF Call
<1> HIDE DEF t
<1>9. /\ t.cl.data = s.cl.data /\ t.cl.rest = s.cl.rest /\ t.cl.connected = s.cl.connected
      /\ t.cl.maxsize = larger /\ t.cl \in Receiver
  BY <1>2, <1>6, <1>8 DEF Receiver
<1>10. t \in Call
  BY <1>1, <1>8, <1>9 DEF Call
<1>11. Fits(t.cl)
  <2>1. Len(s.cl.rest) < FragmentSize
    BY <1>1 DEF Fits
  <2> QED BY <1>3, <1>6, <1>9, <2>1 DEF Fits
<1>12. Mid(t, n)
  BY <1>8, <1>9, <1>10, <1>11 DEF Mid, FromStream, Nothing, Amid
<1>13. t.cl.maxsize >= size \/ (malloced # TRUE /\ t.cl.maxsize = s.cl.maxsize)
  <2>1. CASE malloced = TRUE
    BY <1>5, <1>9, <2>1 DEF larger
  <2>2. CASE malloced # TRUE
    BY <1>5, <1>9, <2>2 DEF larger
  <2> QED BY <2>1, <2>2
<1>14. Enlarged(s, t, size, malloced)
  BY <1>6, <1>8, <1>9, <1>13 DEF Enlarged
<1> QED BY <1>12, <1>14 DEF t

\* Whether the loop goes on does not matter in the middle of a round.
LEMMA StopKeeps ==
  ASSUME NEW n \in Nat, NEW s, Mid(s, n)
  PROVE  LET t == [s EXCEPT !.again = FALSE] IN
         /\ Mid(t, n) /\ t.cl = s.cl /\ t.arrived = s.arrived /\ t.executed = s.executed /\ t.again = FALSE
<1> DEFINE t == [s EXCEPT !.again = FALSE]
<1>1. s \in Call
  BY DEF Mid
<1>2. /\ t.cl = s.cl /\ t.arrived = s.arrived /\ t.executed = s.executed /\ t.again = FALSE
      /\ t \in Call
  BY <1>1 DEF Call
<1> HIDE DEF t
<1>3. Mid(t, n)
  BY <1>2 DEF Mid, FromStream, Nothing, Amid
<1> QED BY <1>2, <1>3 DEF t

\* A round keeps the receiver in step.
LEMMA RoundKeeps ==
  ASSUME SizesAssumption, Sound, NEW n \in Nat, NEW s, Loop(s, n), s.again, NEW fatal, NEW malloced
  PROVE  Loop(Round(s, fatal, malloced), n)
<1> DEFINE m == Len(s.executed) + 1
           headed == IF s.cl.data = << >> THEN ReliableMessageReceive(s, HeadSize) ELSE s
           size == MessageSize(headed.cl.data)
           whole == size + HeadSize
           grown == IF whole > headed.cl.maxsize THEN Relocated(headed, whole, malloced) ELSE headed
           filled == ReliableMessageReceive(grown, whole - Len(grown.cl.data))
<1>1. Mid(s, n) /\ s.cl.maxsize >= FragmentSize
      /\ (s.cl.connected /\ m < Whole => s.cl.rest = << >> /\ Len(s.cl.data) < Size(m))
  BY DEF Loop
<1>2. HeadSize \in Nat \ {0} /\ FragmentSize \in Nat /\ FragmentSize >= HeadSize /\ DefaultSize \in Nat
  BY SizesAre
<1>3. s.executed \in Seq(Seq(Byte)) /\ s.cl.maxsize \in Nat /\ s.cl.data \in Seq(Byte)
      /\ s.cl.connected \in BOOLEAN
  BY <1>1 DEF Mid, Call, Receiver
<1>4. Len(s.executed) \in Nat /\ Len(sent) \in Nat /\ Whole \in Nat /\ Whole <= Len(sent) + 1
      /\ Len(s.cl.data) \in Nat
  BY <1>3, LenProperties, SoundNumbers DEF Sound
<1>5. m < Whole => m \in 1 .. Len(sent) /\ Size(m) \in Nat /\ Size(m) >= HeadSize
  <2>1. m < Whole => m \in 1 .. Len(sent)
    BY <1>4
  <2> HIDE DEF m
  <2> QED BY <2>1, SoundNumbers DEF Sound
<1>6. /\ Mid(headed, n) /\ headed.cl.maxsize = s.cl.maxsize /\ headed.executed = s.executed
      /\ headed.cl.connected = s.cl.connected /\ headed.again = s.again
      /\ s.cl.connected /\ m < Whole
           => /\ headed.cl.data = << >> \/ Len(headed.cl.data) < HeadSize => headed.cl.rest = << >>
              /\ headed.cl.data = << >> => Len(headed.cl.data) < Size(m)
              /\ Len(headed.cl.data) < HeadSize => Len(headed.cl.data) < Size(m)
  <2>1. CASE s.cl.data # << >>
    <3>1. headed = s
      BY <2>1
    <3> HIDE DEF headed, m
    <3> QED BY <1>1, <3>1
  <2>2. CASE s.cl.data = << >>
    <3>1. headed = ReliableMessageReceive(s, HeadSize)
      BY <2>2
    <3>2. Len(s.cl.data) = 0
      BY <2>2
    <3>3. Len(s.cl.data) + HeadSize <= s.cl.maxsize
      BY <1>1, <1>2, <1>3, <3>2
    <3>4. s.cl.connected /\ m < Whole => Len(s.cl.data) + HeadSize <= Size(m)
      BY <1>2, <1>5, <3>2
    <3>5. /\ Mid(headed, n) /\ headed.cl.maxsize = s.cl.maxsize /\ headed.executed = s.executed
          /\ headed.cl.connected = s.cl.connected /\ headed.again = s.again
          /\ s.cl.connected /\ m < Whole /\ Len(headed.cl.data) < Len(s.cl.data) + HeadSize
               => headed.cl.rest = << >> /\ headed.arrived = << >>
      <4>1. Mid(headed, n) /\ Read(s, headed, HeadSize)
        <5> HIDE DEF headed
        <5> QED BY <1>1, <1>2, <3>1, <3>3, <3>4, ReadMid
      <4> HIDE DEF headed
      <4> QED BY <4>1 DEF Read
    <3> HIDE DEF headed, m
    <3>6. Len(s.cl.data) + HeadSize = HeadSize
      BY <1>2, <3>2
    <3>7. headed.cl.data = << >> => Len(headed.cl.data) < HeadSize
      BY <1>2
    <3>8. Len(headed.cl.data) \in Nat
      <4>1. headed.cl.data \in Seq(Byte)
        BY <3>5 DEF Mid, Call, Receiver
      <4> QED BY <4>1, LenProperties
    <3>9. m < Whole /\ Len(headed.cl.data) < HeadSize => Len(headed.cl.data) < Size(m)
      BY <1>2, <1>5, <3>8
    <3> QED BY <3>5, <3>6, <3>7, <3>9
  <2> QED BY <2>1, <2>2
<1>7. headed.cl.data \in Seq(Byte) /\ Len(headed.cl.data) \in Nat
  <2>1. headed.cl.data \in Seq(Byte)
    BY <1>6 DEF Mid, Call, Receiver
  <2> HIDE DEF headed
  <2> QED BY <2>1, LenProperties
<1>8. /\ size \in Int /\ (headed.cl.data = << >> => size < 0)
      /\ s.cl.connected /\ m < Whole =>
           /\ Len(headed.cl.data) < HeadSize => size < 0
           /\ Len(headed.cl.data) >= HeadSize => whole = Size(m) /\ size >= 0
  <2>1. s.cl.connected /\ m < Whole => m \in 1 .. Len(sent) /\ Piece(headed.cl.data, m, 1)
    <3>1. s.cl.connected /\ m < Whole => Amid(headed, m, n - Len(headed.arrived))
      BY <1>6 DEF Mid
    <3> QED BY <1>5, <3>1 DEF Amid
  <2> HIDE DEF headed, m
  <2> QED BY <1>7, <2>1, MessageSizeIs DEF Sound
<1> DEFINE t == Round(s, fatal, malloced)
           stopped == [headed EXCEPT !.again = FALSE]
           emptied == [Relocated(headed, DefaultSize, malloced) EXCEPT !.again = FALSE]
<1>9. t = CASE headed.cl.data = << >> -> emptied
            [] headed.cl.data # << >> /\ size < 0 -> stopped
            [] size >= 0 /\ Len(headed.cl.data) >= whole -> Execute(headed, fatal)
            [] size >= 0 /\ Len(headed.cl.data) < whole /\ whole > grown.cl.maxsize -> Dropped(headed)
            [] OTHER -> IF Len(filled.cl.data) < whole THEN [filled EXCEPT !.again = FALSE]
                        ELSE Execute(filled, fatal)
  BY DEF Round
<1> SUFFICES Loop(t, n)
  OBVIOUS
<1> HIDE DEF t, headed, m
<1>10. CASE headed.cl.data = << >>
  <2>1. t = emptied
    <3>1. ~ (size >= 0)
      BY <1>8, <1>10
    <3> HIDE DEF emptied, stopped, size, whole, grown, filled
    <3> QED BY <1>9, <1>10, <3>1
  <2> DEFINE r == Relocated(headed, DefaultSize, malloced)
  <2>2. Mid(r, n) /\ r.cl.data = headed.cl.data /\ r.cl.rest = headed.cl.rest
        /\ r.cl.connected = headed.cl.connected /\ r.executed = headed.executed
    <3>1. Mid(r, n) /\ Enlarged(headed, r, DefaultSize, malloced)
      BY <1>2, <1>6, RelocatedKeeps
    <3> HIDE DEF r
    <3> QED BY <3>1 DEF Enlarged
  <2> HIDE DEF r
  <2>3. Mid(t, n) /\ t.cl = r.cl /\ t.executed = r.executed /\ t.again = FALSE
    BY <2>1, <2>2, StopKeeps DEF r
  <2>4. t.cl.connected /\ m < Whole => t.cl.rest = << >> /\ Len(t.cl.data) < Size(m)
    BY <1>6, <1>10, <2>2, <2>3
  <2> QED BY <1>6, <2>2, <2>3, <2>4 DEF Loop, m
<1>11. CASE headed.cl.data # << >> /\ size < 0
  <2>1. t = stopped
    <3>1. ~ (size >= 0)
      BY <1>8, <1>11
    <3> HIDE DEF emptied, stopped, size, whole, grown, filled
    <3> QED BY <1>9, <1>11, <3>1
  <2>2. Mid(t, n) /\ t.cl = headed.cl /\ t.executed = headed.executed /\ t.again = FALSE
    BY <1>6, <2>1, StopKeeps
  <2>3. t.cl.connected /\ m < Whole => t.cl.rest = << >> /\ Len(t.cl.data) < Size(m)
    <3>1. s.cl.connected /\ m < Whole => ~ (Len(headed.cl.data) >= HeadSize)
      <4> HIDE DEF whole
      <4> QED BY <1>8, <1>11
    <3>2. s.cl.connected /\ m < Whole => Len(headed.cl.data) < HeadSize
      BY <1>2, <1>7, <3>1
    <3> QED BY <1>6, <2>2, <3>2
  <2> QED BY <1>6, <2>2, <2>3 DEF Loop, m
<1>12. ASSUME headed.cl.data # << >>, ~ (size < 0)
       PROVE  s.cl.connected /\ m < Whole => whole = Size(m) /\ Len(headed.cl.data) >= HeadSize
  <2>1. s.cl.connected /\ m < Whole => ~ (Len(headed.cl.data) < HeadSize)
    <3> HIDE DEF whole
    <3> QED BY <1>8, <1>12
  <2>2. s.cl.connected /\ m < Whole => Len(headed.cl.data) >= HeadSize
    BY <1>2, <1>7, <2>1
  <2> HIDE DEF size, whole
  <2> QED BY <1>8, <2>2
<1>13. CASE headed.cl.data # << >> /\ ~ (size < 0) /\ Len(headed.cl.data) >= whole
  <2>1. t = Execute(headed, fatal)
    <3>1. size >= 0 /\ ~ (Len(headed.cl.data) < whole)
      BY <1>2, <1>7, <1>8, <1>13
    <3> HIDE DEF emptied, stopped, size, whole, grown, filled
    <3> QED BY <1>9, <1>13, <3>1
  <2>2. headed.cl.connected /\ Len(headed.executed) + 1 < Whole
          => Len(headed.cl.data) = Size(Len(headed.executed) + 1)
    <3> SUFFICES ASSUME headed.cl.connected, Len(headed.executed) + 1 < Whole
                 PROVE  Len(headed.cl.data) = Size(Len(headed.executed) + 1)
      OBVIOUS
    <3>1. m = Len(headed.executed) + 1 /\ s.cl.connected /\ m < Whole
      BY <1>6 DEF m
    <3>2. whole = Size(m)
      <4> HIDE DEF whole, size
      <4> QED BY <1>12, <1>13, <3>1
    <3>3. Amid(headed, m, n - Len(headed.arrived))
      BY <1>6, <3>1 DEF Mid
    <3>4. Len(headed.cl.rest) \in Nat
      <4>1. headed.cl.rest \in Seq(Byte)
        BY <1>6 DEF Mid, Call, Receiver
      <4> QED BY <4>1, LenProperties
    <3>5. Len(headed.cl.data) + Len(headed.cl.rest) <= Size(m) /\ Len(headed.cl.data) >= Size(m)
      <4> HIDE DEF whole, size
      <4> QED BY <1>13, <3>2, <3>3 DEF Amid
    <3>6. Size(m) \in Nat
      BY <1>5, <3>1
    <3> HIDE DEF whole, size
    <3>7. \A x, y, z \in Nat : x + y <= z /\ x >= z => x = z
      OBVIOUS
    <3>8. Len(headed.cl.data) = Size(m)
      BY <1>7, <3>4, <3>5, <3>6, <3>7, Zenon
    <3> QED BY <3>1, <3>8
  <2>3. headed.cl.maxsize >= FragmentSize
    BY <1>1, <1>6
  <2> QED BY <1>6, <1>13, <2>1, <2>2, <2>3, ExecuteKeeps
<1>14. CASE headed.cl.data # << >> /\ ~ (size < 0) /\ ~ (Len(headed.cl.data) >= whole)
  <2>1. size >= 0 /\ Len(headed.cl.data) < whole /\ whole \in Nat /\ size \in Int
    BY <1>2, <1>7, <1>8, <1>14
  <2> HIDE DEF size, whole
  <2>2. /\ Mid(grown, n) /\ grown.cl.data = headed.cl.data /\ grown.cl.connected = headed.cl.connected
        /\ grown.executed = headed.executed /\ grown.cl.maxsize >= FragmentSize
        /\ grown.cl.maxsize \in Nat
    <3>1. CASE whole > headed.cl.maxsize
      <4> DEFINE r == Relocated(headed, whole, malloced)
      <4>1. /\ Mid(r, n) /\ r.cl.data = headed.cl.data /\ r.cl.connected = headed.cl.connected
            /\ r.executed = headed.executed
            /\ r.cl.maxsize \in Nat /\ (r.cl.maxsize >= whole \/ r.cl.maxsize = headed.cl.maxsize)
        <5>1. Mid(r, n) /\ Enlarged(headed, r, whole, malloced)
          BY <1>6, <2>1, RelocatedKeeps
        <5> HIDE DEF r
        <5> QED BY <5>1 DEF Enlarged
      <4>2. grown = r
        BY <3>1
      <4> HIDE DEF r, grown
      <4>3. r.cl.maxsize \in Nat /\ r.cl.maxsize >= FragmentSize
        <5>1. headed.cl.maxsize \in Nat /\ headed.cl.maxsize >= FragmentSize
          BY <1>1, <1>3, <1>6
        <5> QED BY <1>2, <2>1, <3>1, <4>1, <5>1
      <4> QED BY <4>1, <4>2, <4>3
    <3>2. CASE ~ (whole > headed.cl.maxsize)
      <4>1. grown = headed
        BY <3>2
      <4> HIDE DEF grown
      <4> QED BY <1>1, <1>3, <1>6, <4>1
    <3> QED BY <3>1, <3>2
  <2>3. CASE whole > grown.cl.maxsize
    <3>1. t = Dropped(headed)
      <4> HIDE DEF emptied, stopped, grown, filled
      <4> QED BY <1>9, <1>14, <2>1, <2>3
    <3>2. headed \in Call /\ Right(headed.executed) /\ Len(headed.arrived) <= n /\ n <= Len(stream)
      BY <1>6, FromStreamEnds
    <3> QED BY <3>1, <3>2, DroppedKeeps
  <2>4. CASE ~ (whole > grown.cl.maxsize)
    <3> DEFINE length == whole - Len(grown.cl.data)
    <3>1. t = IF Len(filled.cl.data) < whole THEN [filled EXCEPT !.again = FALSE] ELSE Execute(filled, fatal)
      <4> HIDE DEF emptied, stopped, grown, filled
      <4> QED BY <1>9, <1>14, <2>1, <2>4
    <3>2. length \in Nat \ {0} /\ Len(grown.cl.data) + length = whole /\ Len(grown.cl.data) \in Nat
      <4> HIDE DEF grown
      <4>1. \A x, y \in Nat : x < y => y - x \in Nat \ {0} /\ x + (y - x) = y
        OBVIOUS
      <4> QED BY <1>7, <2>1, <2>2, <4>1, Zenon
    <3>3. whole <= grown.cl.maxsize
      <4> HIDE DEF grown
      <4> QED BY <2>1, <2>2, <2>4
    <3>4. grown.cl.connected /\ Len(grown.executed) + 1 < Whole
            => whole = Size(Len(grown.executed) + 1) /\ Len(grown.executed) + 1 = m
      <4> HIDE DEF grown
      <4>1. Len(grown.executed) + 1 = m
        BY <1>6, <2>2 DEF m
      <4> QED BY <1>6, <1>12, <1>14, <2>2, <4>1
    <3>5. filled = ReliableMessageReceive(grown, length)
      OBVIOUS
    <3> HIDE DEF grown, filled, length
    <3>6. /\ Mid(filled, n) /\ filled.cl.connected = grown.cl.connected
          /\ filled.cl.maxsize = grown.cl.maxsize /\ filled.executed = grown.executed
          /\ Len(filled.cl.data) <= whole
          /\ grown.cl.connected /\ Len(grown.executed) + 1 < Whole /\ Len(filled.cl.data) < whole
               => filled.cl.rest = << >>
      <4>1. Mid(filled, n) /\ Read(grown, filled, length)
        <5>1. Len(grown.cl.data) + length <= grown.cl.maxsize
          BY <3>2, <3>3
        <5>2. grown.cl.connected /\ Len(grown.executed) + 1 < Whole
                => Len(grown.cl.data) + length <= Size(Len(grown.executed) + 1)
          BY <2>1, <3>2, <3>4
        <5> QED BY <2>2, <3>2, <3>5, <5>1, <5>2, ReadMid
      <4> QED BY <3>2, <4>1 DEF Read
    <3>7. Len(filled.cl.data) \in Nat
      <4>1. filled.cl.data \in Seq(Byte)
        BY <3>6 DEF Mid, Call, Receiver
      <4> QED BY <4>1, LenProperties
    <3>8. CASE Len(filled.cl.data) < whole
      <4>1. Mid(t, n) /\ t.cl = filled.cl /\ t.executed = filled.executed /\ t.again = FALSE
        BY <3>1, <3>6, <3>8, StopKeeps
      <4>2. t.cl.connected /\ Len(t.executed) + 1 < Whole
              => t.cl.rest = << >> /\ Len(t.cl.data) < Size(Len(t.executed) + 1)
        BY <3>4, <3>6, <3>8, <4>1
      <4> QED BY <4>1, <4>2 DEF Loop
    <3>9. CASE ~ (Len(filled.cl.data) < whole)
      <4>1. t = Execute(filled, fatal)
        BY <3>1, <3>9
      <4>2. Len(filled.cl.data) = whole
        BY <2>1, <3>6, <3>7, <3>9
      <4>3. filled.cl.data # << >>
        <5>1. whole # 0
          BY <1>7, <2>1
        <5> QED BY <4>2, <5>1
      <4>4. filled.cl.connected /\ Len(filled.executed) + 1 < Whole
              => Len(filled.cl.data) = Size(Len(filled.executed) + 1)
        BY <3>4, <3>6, <4>2
      <4>5. filled.cl.maxsize >= FragmentSize
        BY <2>2, <3>6
      <4> QED BY <3>6, <4>1, <4>3, <4>4, <4>5, ExecuteKeeps
    <3> QED BY <3>8, <3>9
  <2> QED BY <2>3, <2>4
<1> QED
  <2> HIDE DEF size, whole
  <2> QED BY <1>10, <1>11, <1>13, <1>14

-----------------------------------------------------------------------------
(* The call as a whole.                                                    *)

\* g is one round after the other, as long as the loop goes on.
Runs(begun, fatal, malloced, n, g) ==
  g = [k \in 0 .. n |-> IF k = 0 THEN begun
                        ELSE IF g[k - 1].again THEN Round(g[k - 1], fatal, malloced) ELSE g[k - 1]]

\* The recursive function of ReceiveReliableMessages exists.
LEMMA RunsExist ==
  ASSUME NEW N \in Nat, NEW begun, NEW fatal, NEW malloced
  PROVE  \E g : Runs(begun, fatal, malloced, N, g)
<1> DEFINE Step(r) == IF r.again THEN Round(r, fatal, malloced) ELSE r
           S == {n \in 0 .. N : \E g : Runs(begun, fatal, malloced, n, g)}
<1>0. ASSUME NEW n, NEW g
      PROVE  Runs(begun, fatal, malloced, n, g)
               <=> g = [k \in 0 .. n |-> IF k = 0 THEN begun ELSE Step(g[k - 1])]
  BY DEF Runs
<1> HIDE DEF Step
<1>1. 0 \in S
  <2> DEFINE g == [k \in 0 .. 0 |-> begun]
  <2>1. g = [k \in 0 .. 0 |-> IF k = 0 THEN begun ELSE Step(g[k - 1])]
    OBVIOUS
  <2> HIDE DEF g
  <2>2. Runs(begun, fatal, malloced, 0, g)
    BY <1>0, <2>1
  <2> QED BY <2>2
<1>2. ASSUME NEW n \in 1 .. N, n - 1 \in S PROVE n \in S
  <2>1. PICK g : Runs(begun, fatal, malloced, n - 1, g)
    BY <1>2
  <2> DEFINE h == [k \in 0 .. n |-> IF k < n THEN g[k] ELSE Step(g[n - 1])]
  <2>2. \A k \in 0 .. n - 1 : g[k] = IF k = 0 THEN begun ELSE Step(g[k - 1])
    <3>1. g = [k \in 0 .. n - 1 |-> IF k = 0 THEN begun ELSE Step(g[k - 1])]
      BY <1>0, <2>1
    <3> QED BY <3>1
  <2>3. ASSUME NEW k \in 0 .. n PROVE h[k] = IF k = 0 THEN begun ELSE Step(h[k - 1])
    <3>1. CASE k = 0
      <4>1. h[0] = g[0] /\ g[0] = begun
        BY <2>2
      <4> QED BY <3>1, <4>1
    <3>2. CASE k # 0 /\ k < n
      <4>1. h[k] = g[k] /\ h[k - 1] = g[k - 1] /\ k \in 0 .. n - 1
        BY <3>2
      <4>2. g[k] = Step(g[k - 1])
        BY <2>2, <3>2, <4>1
      <4> QED BY <3>2, <4>1, <4>2
    <3>3. CASE k # 0 /\ k = n
      <4>1. h[k] = Step(g[n - 1]) /\ h[k - 1] = g[n - 1]
        BY <3>3
      <4> QED BY <3>3, <4>1
    <3> QED BY <3>1, <3>2, <3>3
  <2>4. h = [k \in 0 .. n |-> h[k]]
    OBVIOUS
  <2>5. Runs(begun, fatal, malloced, n, h)
    <3> HIDE DEF h
    <3>1. h = [k \in 0 .. n |-> IF k = 0 THEN begun ELSE Step(h[k - 1])]
      BY <2>3, <2>4
    <3> QED BY <1>0, <3>1
  <2> QED BY <2>5
<1> HIDE DEF S
<1>3. 0 .. N \subseteq S
  BY <1>1, <1>2, UpTo
<1>4. N \in S
  BY <1>3
<1> QED BY <1>4 DEF S

\* However many rounds there are, the receiver stays in step.
LEMMA RoundsKeep ==
  ASSUME SizesAssumption, Sound, NEW n \in Nat, NEW begun, Loop(begun, n), NEW fatal, NEW malloced,
         NEW most \in Nat, NEW g, Runs(begun, fatal, malloced, most, g)
  PROVE  Loop(g[most], n)
<1> DEFINE S == {k \in 0 .. most : Loop(g[k], n)}
<1>1. \A k \in 0 .. most : g[k] = IF k = 0 THEN begun
                                  ELSE IF g[k - 1].again THEN Round(g[k - 1], fatal, malloced) ELSE g[k - 1]
  <2>1. g = [k \in 0 .. most |-> IF k = 0 THEN begun
                                 ELSE IF g[k - 1].again THEN Round(g[k - 1], fatal, malloced) ELSE g[k - 1]]
    BY DEF Runs
  <2> QED BY <2>1
<1>2. 0 \in S
  <2>1. 0 \in 0 .. most
    OBVIOUS
  <2>2. g[0] = begun
    BY <1>1, <2>1
  <2> QED BY <2>1, <2>2
<1>3. ASSUME NEW k \in 1 .. most, k - 1 \in S PROVE k \in S
  <2>1. k \in 0 .. most /\ k # 0 /\ Loop(g[k - 1], n)
    BY <1>3
  <2>2. g[k] = IF g[k - 1].again THEN Round(g[k - 1], fatal, malloced) ELSE g[k - 1]
    BY <1>1, <2>1
  <2>3. Loop(g[k], n)
    <3>1. CASE g[k - 1].again
      <4>1. Loop(Round(g[k - 1], fatal, malloced), n)
        BY <2>1, <3>1, RoundKeeps
      <4> QED BY <2>2, <3>1, <4>1
    <3>2. CASE ~ g[k - 1].again
      BY <2>1, <2>2, <3>2
    <3> QED BY <3>1, <3>2
  <2> QED BY <2>1, <2>3
<1> HIDE DEF S
<1>4. 0 .. most \subseteq S
  BY <1>2, <1>3, UpTo
<1>5. most \in S
  BY <1>4
<1> QED BY <1>5 DEF S

\* The inductive invariant says that the stream is sound.
LEMMA IInvSound == IInv => Sound
<1> SUFFICES ASSUME IInv PROVE Sound
  OBVIOUS
<1>1. CASE cl.connected
  BY <1>1 DEF IInv, Sound
<1>2. CASE ~ cl.connected
  <2>1. stream = << >> /\ Len(<< >>) = 0
    BY <1>2 DEF IInv
  <2>2. 1 .. Len(stream) = {}
    BY <2>1
  <2> QED BY <2>2 DEF IInv, Sound
<1> QED BY <1>1, <1>2

\* A call begins in step.
LEMMA BeginsInStep ==
  ASSUME SizesAssumption, IInv, NEW n \in 0 .. Len(stream)
  PROVE  Mid([cl |-> cl, arrived |-> SubSeq(stream, 1, n), executed |-> executed, again |-> TRUE], n)
         /\ (cl.connected /\ Len(executed) + 1 < Whole
               => cl.rest = << >> /\ Len(cl.data) < Size(Len(executed) + 1))
<1> DEFINE s == [cl |-> cl, arrived |-> SubSeq(stream, 1, n), executed |-> executed, again |-> TRUE]
           m == Len(executed) + 1
<1>1. Sound /\ Fits(cl) /\ Right(executed) /\ stream \in Seq(Seq(Byte))
  BY IInvSound DEF IInv
<1>2. Len(stream) \in Nat /\ n \in Nat /\ n <= Len(stream)
  <2>1. Len(stream) \in Nat
    BY <1>1, LenProperties
  <2> QED BY <2>1
<1>3. SubSeq(stream, 1, n) \in Seq(Seq(Byte)) /\ Len(SubSeq(stream, 1, n)) = n
      /\ \A i \in 1 .. n : SubSeq(stream, 1, n)[i] = stream[i]
  <2>1. \A i \in 1 .. n : stream[i] \in Seq(Byte)
    BY <1>1, <1>2, ElementOfSeq
  <2>2. /\ SubSeq(stream, 1, n) \in Seq(Seq(Byte))
        /\ Len(SubSeq(stream, 1, n)) = IF 1 <= n THEN n - 1 + 1 ELSE 0
        /\ \A i \in 1 .. n - 1 + 1 : SubSeq(stream, 1, n)[i] = stream[1 + i - 1]
    BY <1>2, <2>1, SubSeqProperties
  <2> QED BY <1>2, <2>2
<1>4. /\ s.cl = cl /\ s.arrived = SubSeq(stream, 1, n) /\ s.executed = executed /\ s.again = TRUE
  OBVIOUS
<1>5. s \in Call
  BY <1>1, <1>3 DEF Call, Fits, Right
<1> HIDE DEF s
<1>6. FromStream(s, n - Len(s.arrived)) /\ n - Len(s.arrived) = 0
  <2>1. n - Len(s.arrived) = 0
    BY <1>2, <1>3, <1>4
  <2>2. 0 + Len(s.arrived) <= Len(stream)
    BY <1>2, <1>3, <1>4
  <2>3. \A i \in 1 .. Len(s.arrived) : s.arrived[i] = stream[0 + i]
    BY <1>2, <1>3, <1>4
  <2>4. FromStream(s, 0)
    <3>1. 0 \in Nat
      OBVIOUS
    <3> QED BY <2>2, <2>3, <3>1 DEF FromStream
  <2> QED BY <2>1, <2>4
<1>7. Len(executed) \in Nat /\ Len(cl.data) \in Nat /\ Len(sent) \in Nat
      /\ Whole \in Nat /\ Whole <= Len(sent) + 1 /\ (cut = 0 => Whole = Len(sent) + 1)
  <2>1. executed \in Seq(Seq(Byte)) /\ cl.data \in Seq(Byte)
    BY <1>1 DEF Right, Fits, Receiver
  <2> QED BY <1>1, <2>1, LenProperties, SoundNumbers DEF Sound, Whole
<1>8. ~ cl.connected => Nothing(s)
  <2>1. SubSeq(<< >>, 1, 0) = << >>
    BY SubSeqEmpty
  <2>2. ~ cl.connected => stream = << >> /\ n = 0 /\ cl.data = << >> /\ cl.rest = << >>
    BY <1>2 DEF IInv
  <2> QED BY <1>4, <2>1, <2>2 DEF Nothing
<1>9. ASSUME cl.connected, m < Whole
      PROVE  Amid(s, m, 0) /\ cl.rest = << >> /\ Len(cl.data) < Size(m)
  <2>1. InStep(cl.data, cl.rest, Len(executed), 1)
    BY <1>9 DEF IInv
  <2>2. /\ cl.rest = << >> /\ Piece(cl.data, m, 1) /\ Len(cl.data) < Size(m)
        /\ Continues(1, m, Len(cl.data) + 1)
    BY <1>9, <2>1 DEF InStep
  <2>3. Size(m) \in Nat
    <3>1. m \in 1 .. Len(sent)
      BY <1>7, <1>9
    <3> HIDE DEF m
    <3> QED BY <1>1, <3>1, SoundNumbers DEF Sound
  <2> HIDE DEF m
  <2>4. Piece(<< >>, m, Len(cl.data) + 1) /\ Len(<< >>) = 0
    BY DEF Piece
  <2>5. Len(cl.data) + Len(<< >>) = Len(cl.data) /\ Len(cl.data) <= Size(m)
        /\ Len(cl.data) + Len(<< >>) + 1 = Len(cl.data) + 1 /\ 0 + 1 = 1 /\ Len(cl.data) + 1 <= Size(m)
    BY <1>7, <2>2, <2>3, <2>4
  <2>6. Goes(1, m, Len(cl.data) + 1)
    BY <2>2, <2>5 DEF Goes
  <2>7. s.cl.data = cl.data /\ s.cl.rest = << >>
    BY <1>4, <2>2
  <2>8. Amid(s, m, 0)
    BY <2>2, <2>4, <2>5, <2>6, <2>7 DEF Amid
  <2> QED BY <2>2, <2>8
<1>10. ASSUME cl.connected, m >= Whole, cut = 0 PROVE Nothing(s) /\ n >= Len(stream)
  <2>1. InStep(cl.data, cl.rest, Len(executed), 1)
    BY <1>10 DEF IInv
  <2>2. m = Len(sent) + 1 /\ ~ (m < Whole)
    <3>1. Len(executed) <= Len(sent)
      BY <1>1, <1>10 DEF Right
    <3> QED BY <1>7, <1>10, <3>1
  <2>3. cl.rest = << >> /\ cl.data = << >> /\ Continues(1, m, 0 + 1)
    BY <1>10, <2>1, <2>2 DEF InStep
  <2>4. 1 > Len(stream)
    <3>1. Continues(1, Len(sent) + 1, 1)
      BY <2>2, <2>3
    <3> QED BY <1>1, <1>10, <3>1, StreamEnds
  <2>5. Len(stream) = 0 /\ n = 0
    BY <1>2, <2>4
  <2>6. SubSeq(stream, 1, 0) = << >>
    BY SubSeqEmpty
  <2> QED BY <1>4, <2>3, <2>5, <2>6 DEF Nothing
<1>11. Mid(s, n)
  <2> HIDE DEF m
  <2>1. m = Len(s.executed) + 1
    BY <1>4 DEF m
  <2> QED BY <1>1, <1>4, <1>5, <1>6, <1>8, <1>9, <1>10, <2>1 DEF Mid
<1> QED BY <1>9, <1>11 DEF s

\* What the call leaves, it leaves in step.
LEMMA CallKeeps ==
  ASSUME SizesAssumption, IInv, NEW n \in 0 .. Len(stream), NEW fatal, NEW malloced
  PROVE  Loop(ReceiveReliableMessages(
                [cl |-> cl, arrived |-> SubSeq(stream, 1, n), executed |-> executed, again |-> TRUE],
                fatal, malloced), n)
<1> DEFINE s == [cl |-> cl, arrived |-> SubSeq(stream, 1, n), executed |-> executed, again |-> TRUE]
           begun == IF s.cl.maxsize < FragmentSize THEN Relocated(s, FragmentSize, TRUE) ELSE s
           most == Len(Available(s, Len(s.arrived))) + 2
           rounds == CHOOSE g : Runs(begun, fatal, malloced, most, g)
<1>1. Mid(s, n) /\ Sound
      /\ (cl.connected /\ Len(executed) + 1 < Whole
            => cl.rest = << >> /\ Len(cl.data) < Size(Len(executed) + 1))
  BY BeginsInStep, IInvSound
<1>2. s.cl = cl /\ s.executed = executed /\ s.again = TRUE
  OBVIOUS
<1>3. n \in Nat /\ FragmentSize \in Nat
  <2>1. Len(stream) \in Nat
    BY LenProperties DEF IInv
  <2> QED BY <2>1, SizesAre
<1>4. most \in Nat
  <2>1. s \in Call
    BY <1>1 DEF Mid
  <2> HIDE DEF s
  <2>2. Len(s.arrived) \in Nat
    BY <2>1, LenProperties DEF Call
  <2>3. Len(s.arrived) \in 0 .. Len(s.arrived)
    BY <2>2
  <2>4. Available(s, Len(s.arrived)) \in Seq(Byte)
    BY <2>1, <2>3, AvailableTyped
  <2>5. Len(Available(s, Len(s.arrived))) \in Nat
    BY <2>4, LenProperties
  <2> QED BY <2>5
<1>5. cl.maxsize \in Nat
  BY DEF IInv, Fits, Receiver
<1>6. Loop(begun, n)
  <2>1. CASE s.cl.maxsize < FragmentSize
    <3>1. begun = Relocated(s, FragmentSize, TRUE)
      BY <2>1
    <3> HIDE DEF s, begun
    <3>2. Mid(begun, n) /\ Enlarged(s, begun, FragmentSize, TRUE)
      BY <1>1, <1>3, <3>1, RelocatedKeeps
    <3>3. begun.cl.maxsize >= FragmentSize
      BY <3>2 DEF Enlarged
    <3> QED BY <1>1, <1>2, <3>2, <3>3 DEF Loop, Enlarged
  <2>2. CASE ~ (s.cl.maxsize < FragmentSize)
    <3>1. begun = s
      BY <2>2
    <3>2. s.cl.maxsize >= FragmentSize
      BY <1>2, <1>3, <1>5, <2>2
    <3> HIDE DEF s, begun
    <3> QED BY <1>1, <1>2, <3>1, <3>2 DEF Loop
  <2> QED BY <2>1, <2>2
<1> HIDE DEF s, begun, most
<1>7. Runs(begun, fatal, malloced, most, rounds)
  <2>1. \E g : Runs(begun, fatal, malloced, most, g)
    BY <1>4, RunsExist
  <2> QED BY <2>1
<1>8. ReceiveReliableMessages(s, fatal, malloced) = rounds[most]
  BY DEF ReceiveReliableMessages, Runs, begun, most
<1> HIDE DEF rounds
<1>9. Loop(rounds[most], n)
  BY <1>1, <1>3, <1>4, <1>6, <1>7, RoundsKeep
<1> QED BY <1>8, <1>9 DEF s

\* What is left of the stream goes on as before.
LEMMA RestContinues ==
  ASSUME stream \in Seq(Seq(Byte)), NEW d \in 0 .. Len(stream), sent' = sent, cut' = cut,
         stream' = SubSeq(stream, d + 1, Len(stream))
  PROVE  /\ Byte' = Byte /\ Whole' = Whole /\ \A m : Size(m)' = Size(m)
         /\ stream' \in Seq(Seq(Byte)) /\ Len(stream') = Len(stream) - d
         /\ \A f \in 1 .. Len(stream') : stream'[f] = stream[d + f] /\ d + f \in 1 .. Len(stream)
         /\ \A f \in Nat \ {0} : \A m, p : Continues(d + f, m, p) <=> Continues(f, m, p)'
<1>1. Byte' = Byte /\ Whole' = Whole /\ \A m : Size(m)' = Size(m)
  BY DEF Byte, Whole, Size
<1>2. Len(stream) \in Nat /\ d \in Nat /\ d <= Len(stream)
  <2>1. Len(stream) \in Nat
    BY LenProperties
  <2> QED BY <2>1
<1>3. /\ stream' \in Seq(Seq(Byte)) /\ Len(stream') = Len(stream) - d
      /\ \A f \in 1 .. Len(stream) - d : stream'[f] = stream[d + f]
  <2>1. \A i \in d + 1 .. Len(stream) : stream[i] \in Seq(Byte)
    BY <1>2, ElementOfSeq
  <2>2. d + 1 \in Int /\ Len(stream) \in Int
    BY <1>2
  <2>3. /\ stream' \in Seq(Seq(Byte))
        /\ Len(stream') = IF d + 1 <= Len(stream) THEN Len(stream) - (d + 1) + 1 ELSE 0
        /\ \A i \in 1 .. Len(stream) - (d + 1) + 1 :
             SubSeq(stream, d + 1, Len(stream))[i] = stream[d + 1 + i - 1]
    BY <2>1, <2>2, SubSeqProperties
  <2>4. Len(stream') = Len(stream) - d
    BY <1>2, <2>3
  <2>5. ASSUME NEW f \in 1 .. Len(stream) - d PROVE stream'[f] = stream[d + f]
    <3>1. d + 1 + f - 1 = d + f /\ f \in 1 .. Len(stream) - (d + 1) + 1
      BY <1>2
    <3>2. SubSeq(stream, d + 1, Len(stream))[f] = stream[d + 1 + f - 1]
      BY <2>3, <3>1
    <3> QED BY <3>1, <3>2
  <2> QED BY <2>3, <2>4, <2>5
<1>4. \A f \in 1 .. Len(stream') : stream'[f] = stream[d + f] /\ d + f \in 1 .. Len(stream)
  <2>1. \A f \in 1 .. Len(stream) - d : d + f \in 1 .. Len(stream)
    BY <1>2
  <2> QED BY <1>3, <2>1
<1>5. ASSUME NEW f \in Nat \ {0}, NEW m, NEW p PROVE Continues(d + f, m, p) <=> Continues(f, m, p)'
  <2>1. d + f <= Len(stream) <=> f <= Len(stream')
    <3>1. \A x \in Nat : d + x <= Len(stream) <=> x <= Len(stream) - d
      BY <1>2
    <3> QED BY <1>3, <3>1
  <2>2. f <= Len(stream') => stream'[f] = stream[d + f]
    <3>1. f <= Len(stream') => f \in 1 .. Len(stream')
      BY <1>2, <1>3
    <3> QED BY <1>4, <3>1
  <2> QED BY <1>1, <2>1, <2>2 DEF Continues
<1> QED BY <1>1, <1>3, <1>4, <1>5

\* Receiving keeps the invariant.
LEMMA ReceivesKeeps ==
  ASSUME SizesAssumption, IInv, NEW n \in 0 .. Len(stream), NEW fatal, NEW malloced,
         Receives(n, fatal, malloced)
  PROVE  IInv'
<1> DEFINE call == ReceiveReliableMessages(
                     [cl |-> cl, arrived |-> SubSeq(stream, 1, n), executed |-> executed, again |-> TRUE],
                     fatal, malloced)
<1>0. PICK s : s = call
  OBVIOUS
<1>1. Loop(s, n) /\ Sound
  BY <1>0, CallKeeps, IInvSound
<1>2. /\ cl' = s.cl /\ executed' = s.executed /\ sent' = sent /\ cut' = cut
      /\ stream' = IF s.cl.connected THEN SubSeq(stream, n - Len(s.arrived) + 1, Len(stream)) ELSE << >>
  BY <1>0 DEF Receives
<1> HIDE DEF call
<1>d. PICK d : d = n - Len(s.arrived)
  OBVIOUS
<1>m. PICK m : m = Len(s.executed) + 1
  OBVIOUS
<1>3. Mid(s, n) /\ (s.cl.connected /\ m < Whole => s.cl.rest = << >> /\ Len(s.cl.data) < Size(m))
  BY <1>1, <1>m DEF Loop
<1>4. s \in Call /\ Fits(s.cl) /\ Right(s.executed) /\ FromStream(s, d) /\ n \in Nat
      /\ stream \in Seq(Seq(Byte)) /\ Len(stream) \in Nat /\ Len(s.arrived) <= n /\ n <= Len(stream)
      /\ Len(s.arrived) \in Nat /\ sent \in Seq(Lengths) /\ cut \in 0 .. Len(sent)
  <2>1. stream \in Seq(Seq(Byte))
    BY <1>1 DEF Sound
  <2>2. Len(stream) \in Nat
    BY <2>1, LenProperties
  <2>3. n \in Nat
    BY <2>2
  <2>4. s \in Call /\ Len(s.arrived) <= n /\ n <= Len(stream)
    BY <1>1, <1>3, <1>d, <2>3, FromStreamEnds
  <2>5. Len(s.arrived) \in Nat
    BY <2>4, LenProperties DEF Call
  <2> QED BY <1>1, <1>3, <1>d, <2>1, <2>2, <2>3, <2>4, <2>5 DEF Mid, Sound
<1>5. d \in 0 .. Len(stream) /\ d \in Nat
  BY <1>4, <1>d
<1>6. CASE ~ s.cl.connected
  <2>1. cl'.connected = s.cl.connected /\ cl'.data = << >> /\ cl'.rest = << >> /\ stream' = << >>
    BY <1>2, <1>3, <1>6 DEF Mid, Nothing
  <2>2. Byte' = Byte /\ Whole' = Whole
    BY <1>2 DEF Byte, Whole
  <2>3. Fits(cl)' /\ Right(executed)'
    BY <1>2, <1>4, <2>2 DEF Fits, Right, Receiver
  <2>4. stream' \in Seq(Seq(Byte))' /\ 1 .. Len(stream)' = {}
    BY <2>1
  <2> QED BY <1>2, <1>4, <1>6, <2>1, <2>3, <2>4 DEF IInv
<1>7. CASE s.cl.connected
  <2>1. stream' = SubSeq(stream, d + 1, Len(stream))
    BY <1>2, <1>7, <1>d
  <2>2. /\ Byte' = Byte /\ Whole' = Whole /\ \A i : Size(i)' = Size(i)
        /\ stream' \in Seq(Seq(Byte)) /\ Len(stream') = Len(stream) - d
        /\ \A f \in 1 .. Len(stream') : stream'[f] = stream[d + f] /\ d + f \in 1 .. Len(stream)
        /\ \A f \in Nat \ {0} : \A i, p : Continues(d + f, i, p) <=> Continues(f, i, p)'
    BY <1>2, <1>4, <1>5, <2>1, RestContinues
  <2>3. Fits(cl)' /\ Right(executed)'
    BY <1>2, <1>4, <2>2 DEF Fits, Right, Receiver
  <2>4. Len(stream') \in Nat
    BY <1>4, <1>5, <2>2
  <2>5. ASSUME NEW f \in 1 .. Len(stream') PROVE Fragment(stream[f])' /\ Joint(f)'
    <3>1. stream'[f] = stream[d + f] /\ d + f \in 1 .. Len(stream)
      BY <2>2
    <3>2. Fragment(stream[d + f]) /\ Joint(d + f)
      BY <1>1, <3>1 DEF Sound
    <3>3. Fragment(stream[f])'
      BY <2>2, <3>1, <3>2 DEF Fragment, Piece
    <3>i. PICK i : i = stream[d + f][1][1]
      OBVIOUS
    <3>p. PICK p : p = stream[d + f][1][2] + Len(stream[d + f])
      OBVIOUS
    <3>4. i < Whole => Goes(d + f + 1, i, p)
      BY <3>2, <3>i, <3>p DEF Joint
    <3>5. d + (f + 1) = d + f + 1 /\ f + 1 \in Nat \ {0}
      BY <1>5, <2>4
    <3>6. Goes(d + f + 1, i, p) <=> Goes(f + 1, i, p)'
      <4>1. \A j, q : Continues(d + f + 1, j, q) <=> Continues(f + 1, j, q)'
        BY <2>2, <3>5
      <4> QED BY <2>2, <4>1 DEF Goes
    <3>7. Joint(f)' <=> (i < Whole => Goes(f + 1, i, p)')
      BY <2>2, <3>1, <3>i, <3>p DEF Joint
    <3> QED BY <3>3, <3>4, <3>6, <3>7
  <2>6. InStep(s.cl.data, s.cl.rest, Len(s.executed), 1)'
    <3>1. CASE m < Whole
      <4>1. Amid(s, m, d) /\ s.cl.rest = << >> /\ Len(s.cl.data) < Size(m)
        BY <1>3, <1>7, <1>d, <1>m, <3>1 DEF Mid
      <4>2. Len(s.cl.data) \in Nat /\ Size(m) \in Nat
        <5>1. s.cl.data \in Seq(Byte) /\ s.executed \in Seq(Seq(Byte))
          BY <1>4 DEF Fits, Receiver, Right
        <5>2. Len(s.cl.data) \in Nat /\ Len(s.executed) \in Nat
          BY <5>1, LenProperties
        <5>3. m \in 1 .. Len(sent)
          BY <1>4, <1>m, <3>1, <5>2, SoundNumbers
        <5> QED BY <1>4, <5>2, <5>3, SoundNumbers
      <4>3. Piece(s.cl.data, m, 1) /\ Goes(d + 1, m, Len(s.cl.data) + 1)
        <5>1. Len(s.cl.data) + Len(<< >>) + 1 = Len(s.cl.data) + 1
          BY <4>2
        <5> QED BY <4>1, <5>1 DEF Amid
      <4>4. Continues(d + 1, m, Len(s.cl.data) + 1)
        <5>1. Len(s.cl.data) + 1 <= Size(m)
          BY <4>1, <4>2
        <5> QED BY <4>3, <5>1 DEF Goes
      <4>5. Continues(1, m, Len(s.cl.data) + 1)'
        <5>1. 1 \in Nat \ {0}
          OBVIOUS
        <5> QED BY <2>2, <4>4, <5>1
      <4>6. Len(s.executed) + 1 = m
        BY <1>m
      <4>7. Size(m)' = Size(m) /\ Whole' = Whole
        BY <2>2
      <4> QED BY <1>2, <3>1, <4>1, <4>3, <4>5, <4>6, <4>7 DEF InStep, Piece
    <3>2. CASE ~ (m < Whole)
      <4>1. CASE cut = 0
        <5>1. Len(s.executed) \in Nat /\ Whole \in Nat
          <6>1. s.executed \in Seq(Seq(Byte))
            BY <1>4 DEF Right
          <6> QED BY <1>4, <6>1, LenProperties, SoundNumbers
        <5>2. Nothing(s) /\ n >= Len(stream)
          BY <1>3, <1>7, <1>m, <3>2, <4>1, <5>1 DEF Mid
        <5>3. Len(s.arrived) = 0
          BY <5>2 DEF Nothing
        <5>4. d = Len(stream)
          BY <1>4, <1>d, <5>2, <5>3
        <5>5. Len(stream') = 0
          BY <1>4, <2>2, <5>4
        <5>6. m = Len(s.executed) + 1
          BY <1>m
        <5>7. Continues(1, m, Len(s.cl.data) + 1)'
          BY <2>2, <3>2, <5>5 DEF Continues
        <5>8. s.cl.rest = << >> /\ s.cl.data = << >> /\ Piece(<< >>, m, 1)
          BY <5>2 DEF Nothing, Piece
        <5> QED BY <2>2, <3>2, <5>6, <5>7, <5>8 DEF InStep, Piece
      <4>2. CASE cut # 0
        BY <1>2, <1>m, <2>2, <3>2, <4>2 DEF InStep
      <4> QED BY <4>1, <4>2
    <3> QED BY <3>1, <3>2
  <2>7. InStep(cl.data, cl.rest, Len(executed), 1)'
    BY <1>2, <2>6
  <2>8. stream' \in Seq(Seq(Byte'))
    BY <2>2
  <2>9. cl'.connected
    BY <1>2, <1>7
  <2> QED BY <1>2, <1>4, <2>3, <2>5, <2>7, <2>8, <2>9 DEF IInv
<1> QED BY <1>6, <1>7

-----------------------------------------------------------------------------
(* The sender.                                                             *)

\* Where fragment f of a message begins.
From(f) == (f - 1) * FragmentSize + 1

\* One fragment of message i.
IsPart(bytes, i, size, p) ==
  /\ bytes \in Seq({i} \X (Nat \ {0})) /\ Len(bytes) >= 1 /\ Piece(bytes, i, p)
  /\ Len(bytes) = IF p + FragmentSize - 1 <= size THEN FragmentSize ELSE size - p + 1

\* A message takes so many fragments that the last one begins in it and ends with it.
LEMMA FragmentPlaces ==
  ASSUME SizesAssumption, NEW length \in Nat
  PROVE  /\ FragmentCount(length) \in Nat /\ From(1) = 1
         /\ \A f \in 1 .. FragmentCount(length) : From(f) \in Nat \ {0} /\ From(f) <= HeadSize + length
         /\ \A f \in Nat \ {0} : f * FragmentSize \in Nat /\ From(f) + FragmentSize - 1 = f * FragmentSize
                                 /\ From(f + 1) = f * FragmentSize + 1
         /\ \A f \in 1 .. FragmentCount(length) :
              f < FragmentCount(length) <=> f * FragmentSize < HeadSize + length
         /\ FragmentCount(length) >= 1
<1> DEFINE size == HeadSize + length
           F == FragmentSize
           C == FragmentCount(length)
<1>1. size \in Nat \ {0} /\ F \in Nat \ {0}
  BY SizesAre
<1>2. C = (size + F - 1) \div F
  BY DEF FragmentCount
<1> HIDE DEF C
<1>3. size + F - 1 \in Nat
  BY <1>1
<1> HIDE DEF size, F
<1>4. C \in Nat /\ size + F - 1 = F * C + ((size + F - 1) % F) /\ (size + F - 1) % F \in 0 .. F - 1
  BY <1>1, <1>2, <1>3, DivMod
<1>5. F * C \in Nat
  BY <1>1, <1>4
<1>6. F * C >= size /\ F * C <= size + F - 1
  BY <1>1, <1>4, <1>5
<1>7. ASSUME NEW f \in Nat \ {0}
      PROVE  /\ f * F \in Nat /\ From(f) + F - 1 = f * F /\ From(f + 1) = f * F + 1
             /\ From(f) \in Nat \ {0} /\ f * F = F * f
  <2>1. (f - 1) * F = f * F - F /\ f * F \in Nat /\ (f - 1) * F \in Nat /\ f + 1 - 1 = f /\ f * F = F * f
    BY <1>1
  <2>2. From(f) = (f - 1) * F + 1 /\ From(f + 1) = (f + 1 - 1) * F + 1
    BY DEF From, F
  <2> QED BY <1>1, <2>1, <2>2
<1>8. From(1) = 1
  <2>1. (1 - 1) * F = 0
    BY <1>1
  <2> QED BY <2>1 DEF From, F
<1>9. C >= 1
  <2>1. C # 0
    BY <1>1, <1>6
  <2> QED BY <1>4, <2>1
<1>10. ASSUME NEW f \in 1 .. C PROVE From(f) <= size /\ (f < C <=> f * F < size)
  <2>1. f \in Nat \ {0} /\ f <= C /\ f \in Int /\ C \in Int
    BY <1>4
  <2>2. f * F \in Nat /\ From(f) + F - 1 = f * F /\ From(f) \in Nat /\ f * F = F * f
    BY <1>7, <2>1
  <2>3. CASE f < C
    <3>1. F * C >= F * f + F
      BY <1>1, <2>1, <2>3, Multiples
    <3> QED BY <1>1, <1>5, <1>6, <2>2, <2>3, <3>1
  <2>4. CASE f = C
    BY <1>1, <1>5, <1>6, <2>2, <2>4
  <2> QED BY <2>1, <2>3, <2>4
<1> QED BY <1>4, <1>7, <1>8, <1>9, <1>10 DEF size, F, C

\* The first fragments of message i.
Parts(frags, i, length, n) ==
  /\ frags \in Seq(Seq({i} \X (Nat \ {0}))) /\ Len(frags) = n
  /\ \A f \in 1 .. n :
       /\ IsPart(frags[f], i, HeadSize + length, From(f))
       /\ From(f) + Len(frags[f]) = IF f < FragmentCount(length) THEN From(f + 1) ELSE HeadSize + length + 1

\* They are what the sender makes.
LEMMA FragmentsAre ==
  ASSUME SizesAssumption, NEW i \in Nat \ {0}, NEW length \in Nat, NEW a \in 0 .. FragmentCount(length)
  PROVE  Parts(Fragments(Message(i, length), a), i, length, a)
<1> DEFINE size == HeadSize + length
           F == FragmentSize
           B == {i} \X (Nat \ {0})
           msg == Message(i, length)
           frags == Fragments(msg, a)
<1>1. size \in Nat \ {0} /\ F \in Nat \ {0}
  BY SizesAre
<1>2. /\ FragmentCount(length) \in Nat
      /\ \A f \in 1 .. FragmentCount(length) : From(f) \in Nat \ {0} /\ From(f) <= size
      /\ \A f \in Nat \ {0} : f * F \in Nat /\ From(f) + F - 1 = f * F /\ From(f + 1) = f * F + 1
      /\ \A f \in 1 .. FragmentCount(length) : f < FragmentCount(length) <=> f * F < size
  BY FragmentPlaces
<1>3. Len(msg) = size /\ \A k \in 1 .. size : msg[k] = <<i, k>> /\ msg[k] \in B
  <2>1. msg = [k \in 1 .. size |-> <<i, k>>]
    BY DEF Message
  <2>2. \A k \in 1 .. size : k \in Nat \ {0}
    BY <1>1
  <2>3. msg \in Seq(B) /\ DOMAIN msg = 1 .. size
    <3>1. msg \in [1 .. size -> B]
      BY <2>1, <2>2
    <3>2. size \in Nat
      BY <1>1
    <3> HIDE DEF msg, B, size
    <3> QED BY <3>1, <3>2, SeqDef
  <2>4. Len(msg) = size
    <3>1. Len(msg) \in Nat /\ DOMAIN msg = 1 .. Len(msg) /\ size \in Nat
      <4> HIDE DEF msg, B
      <4> QED BY <1>1, <2>3, LenProperties
    <3> HIDE DEF msg, size
    <3> QED BY <2>3, <3>1
  <2>5. \A k \in 1 .. size : msg[k] = <<i, k>>
    <3> HIDE DEF size
    <3> QED BY <2>1
  <2>6. \A k \in 1 .. size : <<i, k>> \in B
    BY <2>2
  <2> HIDE DEF msg, B, size
  <2> QED BY <2>4, <2>5, <2>6
<1>4. ASSUME NEW f \in 1 .. a
      PROVE  /\ frags[f] = SubSeq(msg, From(f), IF f * F <= size THEN f * F ELSE size)
             /\ f \in 1 .. FragmentCount(length) /\ f \in Nat \ {0} /\ f * F \in Nat
  <2>1. f \in 1 .. FragmentCount(length) /\ f \in Nat \ {0}
    BY <1>2
  <2>2. f * F \in Nat
    BY <1>2, <2>1
  <2>3. frags[f] = SubSeq(msg, (f - 1) * F + 1, Min({f * F, Len(msg)}))
    BY DEF Fragments
  <2>4. Min({f * F, size}) = IF f * F <= size THEN f * F ELSE size
    <3>1. f * F \in Int /\ size \in Int
      BY <1>1, <2>2
    <3> HIDE DEF size, F
    <3> QED BY <3>1, MinOfTwo, Zenon
  <2>5. From(f) = (f - 1) * F + 1
    BY DEF From
  <2> HIDE DEF frags, msg, size, F
  <2> QED BY <1>3, <2>1, <2>2, <2>3, <2>4, <2>5
<1>5. DOMAIN frags = 1 .. a
  BY DEF Fragments
<1>6. frags = [f \in 1 .. a |-> frags[f]]
  BY DEF Fragments
<1> HIDE DEF frags, msg, size, F, B
<1>7. ASSUME NEW f \in 1 .. a
      PROVE  /\ frags[f] \in Seq(B) /\ IsPart(frags[f], i, size, From(f))
             /\ From(f) + Len(frags[f]) = IF f < FragmentCount(length) THEN From(f + 1) ELSE size + 1
  <2>0. PICK p : p = From(f)
    OBVIOUS
  <2>1. PICK e : e = IF f * F <= size THEN f * F ELSE size
    OBVIOUS
  <2>2. /\ p \in Nat \ {0} /\ p <= size /\ e \in Nat /\ e <= size /\ f * F \in Nat
        /\ p + F - 1 = f * F /\ From(f + 1) = f * F + 1
        /\ (f < FragmentCount(length) <=> f * F < size)
    BY <1>1, <1>2, <1>4, <2>0, <2>1
  <2>3. p <= e /\ e = (IF p + F - 1 <= size THEN p + F - 1 ELSE size)
    BY <1>1, <2>1, <2>2
  <2>4. \A k \in p .. e : msg[k] \in B /\ msg[k] = <<i, k>>
    <3>1. \A k \in p .. e : k \in 1 .. size
      BY <1>1, <2>2
    <3> QED BY <1>3, <3>1
  <2>5. /\ frags[f] \in Seq(B) /\ Len(frags[f]) = e - p + 1
        /\ \A k \in 1 .. e - p + 1 : frags[f][k] = msg[p + k - 1]
    <3>1. frags[f] = SubSeq(msg, p, e)
      BY <1>4, <2>0, <2>1
    <3>2. p \in Int /\ e \in Int
      BY <2>2
    <3>3. /\ SubSeq(msg, p, e) \in Seq(B)
          /\ Len(SubSeq(msg, p, e)) = IF p <= e THEN e - p + 1 ELSE 0
          /\ \A k \in 1 .. e - p + 1 : SubSeq(msg, p, e)[k] = msg[p + k - 1]
      BY <2>4, <3>2, SubSeqProperties
    <3> QED BY <2>3, <3>1, <3>3
  <2>6. \A k \in 1 .. e - p + 1 : p + k - 1 \in p .. e
    BY <2>2
  <2>7. Piece(frags[f], i, p)
    BY <2>4, <2>5, <2>6 DEF Piece
  <2>8. e - p + 1 >= 1 /\ e - p + 1 = (IF p + F - 1 <= size THEN F ELSE size - p + 1)
    BY <1>1, <2>2, <2>3
  <2>9. IsPart(frags[f], i, size, p)
    BY <2>5, <2>7, <2>8 DEF IsPart, B, F
  <2>10. p + Len(frags[f]) = IF f < FragmentCount(length) THEN From(f + 1) ELSE size + 1
    <3>1. p + (e - p + 1) = e + 1
      BY <2>2
    <3>2. IF f < FragmentCount(length) THEN e + 1 = From(f + 1) ELSE e + 1 = size + 1
      BY <1>1, <2>1, <2>2
    <3> QED BY <2>5, <3>1, <3>2
  <2> QED BY <2>0, <2>5, <2>9, <2>10
<1>8. frags \in Seq(Seq(B)) /\ Len(frags) = a
  <2>1. frags \in [1 .. a -> Seq(B)] /\ a \in Nat
    BY <1>2, <1>6, <1>7
  <2>2. frags \in Seq(Seq(B))
    BY <2>1, SeqDef
  <2>3. Len(frags) \in Nat /\ DOMAIN frags = 1 .. Len(frags)
    BY <2>2, LenProperties
  <2> QED BY <1>5, <2>1, <2>3
<1> QED BY <1>7, <1>8 DEF Parts, frags, msg, size, B

\* Sending keeps the invariant.
LEMMA SendKeeps ==
  ASSUME SizesAssumption, IInv, cl.connected, NEW length \in Lengths,
         NEW a \in 0 .. FragmentCount(length), SendReliableServerCommand(length, a)
  PROVE  IInv'
<1>C. PICK C : C = FragmentCount(length)
  OBVIOUS
<1>M. PICK M : M = Len(sent) + 1
  OBVIOUS
<1>L. PICK L : L = Len(stream)
  OBVIOUS
<1>g. PICK frags : frags = Fragments(Message(M, length), a)
  OBVIOUS
<1>W. PICK W : W = Whole
  OBVIOUS
<1>n. PICK n : n = Len(executed)
  OBVIOUS
<1>1. /\ sent \in Seq(Lengths) /\ cut \in 0 .. Len(sent) /\ stream \in Seq(Seq(Byte)) /\ Fits(cl)
      /\ Right(executed) /\ \A f \in 1 .. Len(stream) : Fragment(stream[f]) /\ Joint(f)
      /\ InStep(cl.data, cl.rest, n, 1)
  BY <1>n DEF IInv
<1>2. /\ M \in Nat \ {0} /\ Len(sent) = M - 1 /\ L \in Nat /\ length \in Nat /\ a \in Nat /\ a <= C /\ C \in Nat
      /\ C >= 1 /\ HeadSize + length \in Nat /\ HeadSize + length >= 1 /\ n \in Nat
  <2>1. Len(sent) \in Nat /\ Len(stream) \in Nat
    BY <1>1, LenProperties
  <2>2. length \in Nat /\ HeadSize \in Nat \ {0}
    BY SizesAre
  <2>3. FragmentCount(length) \in Nat /\ FragmentCount(length) >= 1
    BY <2>2, FragmentPlaces
  <2>4. Len(executed) \in Nat
    BY <1>1, LenProperties DEF Right
  <2> QED BY <1>C, <1>M, <1>L, <1>n, <2>1, <2>2, <2>3, <2>4
<1>3. /\ From(1) = 1 /\ \A f \in 1 .. C : From(f) \in Nat \ {0} /\ From(f) <= HeadSize + length
  BY <1>2, <1>C, FragmentPlaces
<1>4. /\ frags \in Seq(Seq({M} \X (Nat \ {0}))) /\ Len(frags) = a
      /\ \A f \in 1 .. a : /\ IsPart(frags[f], M, HeadSize + length, From(f))
                           /\ From(f) + Len(frags[f]) = IF f < C THEN From(f + 1) ELSE HeadSize + length + 1
  <2>1. M \in Nat \ {0} /\ length \in Nat /\ a \in 0 .. FragmentCount(length)
    BY <1>2
  <2>2. Parts(Fragments(Message(M, length), a), M, length, a)
    BY <2>1, FragmentsAre, Zenon
  <2>3. Parts(frags, M, length, a)
    BY <1>g, <2>2
  <2> QED BY <1>C, <2>3 DEF Parts
<1>5. /\ sent' = Append(sent, length) /\ cl' = cl /\ executed' = executed
      /\ stream' = stream \o frags
      /\ cut' = IF cut = 0 /\ a < C THEN M ELSE cut
  <2>1. sent' = Append(sent, length)
    BY DEF SendReliableServerCommand
  <2>2. Len(sent') = M
    BY <1>1, <1>M, <2>1, AppendProperties
  <2> QED BY <1>C, <1>g, <2>1, <2>2 DEF SendReliableServerCommand
<1>6. /\ sent' \in Seq(Lengths) /\ Len(sent') = M /\ sent'[M] = length
      /\ \A i \in 1 .. M - 1 : sent'[i] = sent[i]
  BY <1>1, <1>2, <1>5, AppendProperties
<1>7. /\ \A i \in 1 .. M - 1 : Size(i)' = Size(i)
      /\ Size(M)' = HeadSize + length
      /\ \A i \in 1 .. M - 1 : Size(i) \in Nat /\ Size(i) >= 1
  <2>1. \A i \in 1 .. M - 1 : Size(i)' = Size(i)
    BY <1>6 DEF Size
  <2>2. Size(M)' = HeadSize + length
    BY <1>6 DEF Size
  <2>3. \A i \in 1 .. Len(sent) : Size(i) \in Nat /\ Size(i) >= 1
    BY <1>1, SoundNumbers
  <2> QED BY <1>2, <2>1, <2>2, <2>3
<1>8. Byte \subseteq Byte' /\ {M} \X (Nat \ {0}) \subseteq Byte' /\ Byte = (1 .. M - 1) \X (Nat \ {0})
  <2>1. 1 .. M - 1 \subseteq 1 .. M /\ M \in 1 .. M
    BY <1>2
  <2> QED BY <1>2, <1>6, <2>1 DEF Byte
<1>9. /\ W \in Nat /\ W >= 1 /\ W <= M /\ Whole' \in Nat
      /\ (cut = 0 => W = M)
      /\ (Whole' = W \/ (Whole' = M + 1 /\ W = M /\ a = C /\ cut = 0))
      /\ cut' \in 0 .. M /\ (cut' = 0 => cut = 0)
  <2>1. CASE cut = 0 /\ a < C
    BY <1>1, <1>2, <1>5, <1>6, <1>W, <2>1 DEF Whole
  <2>2. CASE cut = 0 /\ a = C
    BY <1>1, <1>2, <1>5, <1>6, <1>W, <2>2 DEF Whole
  <2>3. CASE cut # 0
    BY <1>1, <1>2, <1>5, <1>6, <1>W, <2>3 DEF Whole
  <2> QED BY <1>2, <2>1, <2>2, <2>3
<1>10. /\ stream' \in Seq(Seq(Byte'))
       /\ Len(stream') = L + a /\ \A f \in 1 .. L : stream'[f] = stream[f]
       /\ \A f \in 1 .. a : stream'[L + f] = frags[f]
  <2> DEFINE B == Byte'
  <2>1. stream \in Seq(Seq(B)) /\ frags \in Seq(Seq(B))
    <3>1. Seq(Byte) \subseteq Seq(B) /\ Seq({M} \X (Nat \ {0})) \subseteq Seq(B)
      BY <1>8, SeqMonotonic
    <3> QED BY <1>1, <1>4, <3>1, SeqMonotonic
  <2>2. /\ stream \o frags \in Seq(Seq(B)) /\ Len(stream \o frags) = L + a
        /\ \A i \in 1 .. L + a : (stream \o frags)[i] = IF i <= L THEN stream[i] ELSE frags[i - L]
    <3> HIDE DEF B
    <3> QED BY <1>4, <1>L, <2>1, ConcatProperties
  <2>3. \A f \in 1 .. L : f \in 1 .. L + a /\ f <= L
    BY <1>2
  <2>4. \A f \in 1 .. a : L + f \in 1 .. L + a /\ ~(L + f <= L) /\ (L + f) - L = f
    BY <1>2
  <2> HIDE DEF B
  <2>5. \A f \in 1 .. L : stream'[f] = stream[f]
    BY <1>5, <2>2, <2>3
  <2>6. ASSUME NEW f \in 1 .. a PROVE stream'[L + f] = frags[f]
    <3>1. (stream \o frags)[L + f] = frags[(L + f) - L]
      BY <2>2, <2>4
    <3>2. (L + f) - L = f
      BY <2>4
    <3> QED BY <1>5, <3>1, <3>2
  <2> QED BY <1>5, <2>2, <2>5, <2>6 DEF B
<1>11. ASSUME NEW f \in 1 .. a
       PROVE  /\ stream'[L + f][1] = <<M, From(f)>> /\ From(f) \in Nat \ {0}
              /\ From(f) <= HeadSize + length /\ f \in 1 .. C
  <2>1. f \in 1 .. C
    BY <1>2
  <2>2. From(f) \in Nat \ {0} /\ From(f) <= HeadSize + length
    BY <1>3, <2>1
  <2>3. frags[f][1] = <<M, From(f) + 1 - 1>>
    <3>1. IsPart(frags[f], M, HeadSize + length, From(f))
      BY <1>4
    <3>2. Len(frags[f]) >= 1 /\ Len(frags[f]) \in Nat
      BY <3>1, LenProperties DEF IsPart
    <3>3. 1 \in 1 .. Len(frags[f])
      BY <3>2
    <3> QED BY <3>1, <3>3 DEF IsPart, Piece
  <2>4. From(f) + 1 - 1 = From(f)
    BY <2>2
  <2> QED BY <1>10, <2>1, <2>2, <2>3, <2>4
<1>12. ASSUME NEW f \in 1 .. L
       PROVE  /\ stream[f][1] \in Byte /\ stream[f][1][1] \in 1 .. M - 1 /\ stream[f] \in Seq(Byte)
              /\ Fragment(stream[f]) /\ Joint(f) /\ stream[f][1][2] \in Nat \ {0} /\ Len(stream[f]) \in Nat
  <2>1. Fragment(stream[f]) /\ Joint(f)
    BY <1>1, <1>L
  <2>2. stream[f] \in Seq(Byte) /\ Len(stream[f]) >= 1
    BY <2>1 DEF Fragment
  <2>3. Len(stream[f]) \in Nat
    BY <2>2, LenProperties
  <2>4. 1 \in 1 .. Len(stream[f])
    BY <2>2, <2>3
  <2>5. stream[f][1] \in Byte
    BY <2>2, <2>4, ElementOfSeq
  <2> QED BY <1>8, <2>1, <2>2, <2>3, <2>5
<1>13. ASSUME NEW f \in 1 .. Len(stream') PROVE Fragment(stream[f])'
  <2>1. CASE f <= L
    <3>1. f \in 1 .. L
      BY <1>2, <1>10, <2>1
    <3>2. PICK b : b = stream[f]
      OBVIOUS
    <3>3. b \in Seq(Byte) /\ b[1][1] \in 1 .. M - 1 /\ Fragment(b)
      BY <1>12, <3>1, <3>2
    <3>4. b \in Seq(Byte')
      BY <1>8, <3>3, SeqMonotonic
    <3>5. Size(b[1][1])' = Size(b[1][1])
      BY <1>7, <3>3
    <3>6. Fragment(b)'
      BY <3>3, <3>4, <3>5 DEF Fragment, Piece
    <3>7. stream'[f] = b
      BY <1>10, <3>1, <3>2
    <3> QED BY <3>6, <3>7
  <2>2. CASE ~(f <= L)
    <3>1. PICK g \in 1 .. a : f = L + g
      <4>1. f - L \in 1 .. a /\ f = L + (f - L)
        BY <1>2, <1>10, <2>2
      <4> QED BY <4>1
    <3>2. PICK b : b = frags[g]
      OBVIOUS
    <3>3. stream'[f] = b /\ b[1] = <<M, From(g)>> /\ From(g) <= HeadSize + length
      BY <1>10, <1>11, <3>1, <3>2
    <3>4. /\ b \in Seq({M} \X (Nat \ {0})) /\ Len(b) >= 1 /\ Piece(b, M, From(g))
          /\ Len(b) = IF From(g) + FragmentSize - 1 <= HeadSize + length THEN FragmentSize
                      ELSE (HeadSize + length) - From(g) + 1
      <4>1. IsPart(b, M, HeadSize + length, From(g))
        BY <1>4, <3>1, <3>2
      <4> QED BY <4>1, Zenon DEF IsPart
    <3>5. b \in Seq(Byte')
      BY <1>8, <3>4, SeqMonotonic
    <3>6. b[1][1] = M /\ b[1][2] = From(g)
      BY <3>3
    <3>7. Piece(b, M, From(g))' /\ Size(M)' = HeadSize + length
      BY <1>7, <3>4 DEF Piece
    <3>8. Fragment(b)'
      <4>1. Piece(b, b[1][1], b[1][2])'
        BY <3>6, <3>7, Zenon
      <4>2. Size(b[1][1])' = HeadSize + length
        BY <3>6, <3>7, Zenon
      <4>3. b[1][2] <= Size(b[1][1])'
        BY <3>3, <3>6, <4>2, Zenon
      <4>4. Len(b) = IF b[1][2] + FragmentSize - 1 <= Size(b[1][1])' THEN FragmentSize
                     ELSE Size(b[1][1])' - b[1][2] + 1
        BY <3>4, <3>6, <4>2
      <4> QED BY <3>4, <3>5, <4>1, <4>3, <4>4, Zenon DEF Fragment
    <3> QED BY <3>3, <3>8
  <2> QED BY <2>1, <2>2
<1>14. ASSUME NEW f \in 1 .. L + 1, NEW m \in Nat, NEW p, Continues(f, m, p), m <= W,
              m = W /\ Whole' # W => p = 1
       PROVE  Continues(f, m, p)'
  <2>1. CASE m < W
    <3>1. f <= L /\ stream[f][1] = <<m, p>>
      BY <1>W, <1>L, <1>14, <2>1 DEF Continues
    <3>2. f \in 1 .. L /\ f <= L + a /\ m < Whole'
      BY <1>2, <1>9, <2>1, <3>1
    <3>3. stream'[f][1] = <<m, p>> /\ f <= Len(stream')
      BY <1>10, <3>1, <3>2
    <3> QED BY <3>2, <3>3 DEF Continues
  <2>2. CASE m = W
    <3>1. f <= L => stream[f][1][1] >= W
      BY <1>W, <1>L, <1>9, <1>14, <2>2 DEF Continues
    <3>2. CASE Whole' = W
      <4>1. ASSUME f <= L + a PROVE stream'[f][1][1] >= W
        <5>1. CASE f <= L
          BY <1>2, <1>10, <3>1, <5>1
        <5>2. CASE f = L + 1
          <6>1. 1 \in 1 .. a
            BY <1>2, <4>1, <5>2
          <6>2. stream'[L + 1][1] = <<M, From(1)>>
            BY <1>11, <6>1
          <6> QED BY <1>9, <5>2, <6>2
        <5> QED BY <1>2, <5>1, <5>2
      <4>2. ~(m < Whole')
        BY <1>9, <2>2, <3>2
      <4> QED BY <1>10, <3>2, <4>1, <4>2 DEF Continues
    <3>3. CASE Whole' # W
      <4>1. Whole' = M + 1 /\ W = M /\ a = C /\ p = 1
        BY <1>9, <1>14, <2>2, <3>3
      <4>2. ~(f <= L)
        <5>1. SUFFICES ASSUME f <= L PROVE FALSE
          OBVIOUS
        <5>2. f \in 1 .. L
          BY <1>2, <5>1
        <5>3. stream[f][1][1] \in 1 .. M - 1 /\ stream[f][1][1] >= M
          BY <1>12, <3>1, <4>1, <5>2
        <5> QED BY <1>2, <5>3
      <4>3. f = L + 1 /\ 1 \in 1 .. a /\ f <= L + a /\ m < Whole'
        BY <1>2, <1>9, <2>2, <4>1, <4>2
      <4>4. stream'[f][1] = <<M, 1>>
        BY <1>3, <1>11, <4>3
      <4> QED BY <1>10, <2>2, <4>1, <4>3, <4>4 DEF Continues
    <3> QED BY <3>2, <3>3
  <2> QED BY <1>9, <1>14, <2>1, <2>2
<1>15. ASSUME NEW f \in 1 .. Len(stream') PROVE Joint(f)'
  <2>1. CASE f <= L
    <3>1. f \in 1 .. L /\ f + 1 \in 1 .. L + 1
      BY <1>2, <1>10, <2>1
    <3>2. PICK i : i = stream[f][1][1]
      OBVIOUS
    <3>3. PICK p : p = stream[f][1][2] + Len(stream[f])
      OBVIOUS
    <3>4. i \in 1 .. M - 1 /\ (i < W => Goes(f + 1, i, p)) /\ p \in Nat
      <4>1. i \in 1 .. M - 1 /\ p \in Nat
        BY <1>12, <3>1, <3>2, <3>3
      <4>2. Joint(f)
        BY <1>12, <3>1
      <4>3. i < W => Goes(f + 1, i, p)
        BY <1>W, <3>2, <3>3, <4>2, Zenon DEF Joint
      <4> QED BY <4>1, <4>3
    <3>5. ASSUME i < Whole' PROVE Goes(f + 1, i, p)'
      <4>1. i < W /\ i + 1 <= W /\ i \in Nat /\ i + 1 \in Nat
        BY <1>2, <1>9, <3>4, <3>5
      <4>2. Goes(f + 1, i, p) /\ Size(i)' = Size(i)
        BY <1>7, <3>4, <4>1
      <4>3. CASE p <= Size(i)
        <5>1. Continues(f + 1, i, p)
          BY <4>2, <4>3 DEF Goes
        <5>2. i <= W /\ i # W
          BY <1>9, <4>1
        <5>3. Continues(f + 1, i, p)'
          BY <1>14, <3>1, <4>1, <5>1, <5>2
        <5> QED BY <4>2, <4>3, <5>3 DEF Goes
      <4>4. CASE ~(p <= Size(i))
        <5>1. Continues(f + 1, i + 1, 1)
          BY <4>2, <4>4 DEF Goes
        <5>2. Continues(f + 1, i + 1, 1)'
          BY <1>14, <3>1, <4>1, <5>1
        <5> QED BY <4>2, <4>4, <5>2 DEF Goes
      <4> QED BY <4>3, <4>4
    <3>6. stream'[f] = stream[f]
      BY <1>10, <3>1
    <3> QED BY <3>2, <3>3, <3>5, <3>6 DEF Joint
  <2>2. CASE ~(f <= L)
    <3>1. PICK g \in 1 .. a : f = L + g
      <4>1. f - L \in 1 .. a /\ f = L + (f - L)
        BY <1>2, <1>10, <2>2
      <4> QED BY <4>1
    <3>2. PICK p : p = From(g) + Len(frags[g])
      OBVIOUS
    <3>3. /\ stream'[f] = frags[g] /\ stream'[f][1] = <<M, From(g)>> /\ g \in 1 .. C
          /\ p = IF g < C THEN From(g + 1) ELSE HeadSize + length + 1
      BY <1>4, <1>10, <1>11, <3>1, <3>2
    <3>4. ASSUME M < Whole' PROVE Goes(f + 1, M, p)'
      <4>1. Whole' = M + 1 /\ a = C
        BY <1>2, <1>9, <3>4
      <4>2. CASE g < C
        <5>1. g + 1 \in 1 .. a /\ L + (g + 1) = f + 1 /\ f + 1 <= L + a
          BY <1>2, <3>1, <3>3, <4>1, <4>2
        <5>2. stream'[f + 1][1] = <<M, From(g + 1)>> /\ From(g + 1) <= HeadSize + length
          BY <1>11, <5>1
        <5>3. Continues(f + 1, M, p)'
          BY <1>10, <3>3, <3>4, <4>2, <5>1, <5>2 DEF Continues
        <5>4. p <= Size(M)'
          BY <1>7, <3>3, <4>2, <5>2
        <5> QED BY <5>3, <5>4 DEF Goes
      <4>3. CASE ~(g < C)
        <5>1. p = HeadSize + length + 1 /\ g = C /\ ~(f + 1 <= L + a) /\ ~(M + 1 < M + 1)
          BY <1>2, <3>1, <3>3, <4>1, <4>3
        <5>2. ~(p <= Size(M)')
          BY <1>2, <1>7, <5>1
        <5>3. Continues(f + 1, M + 1, 1)'
          BY <1>10, <4>1, <5>1 DEF Continues
        <5> QED BY <5>2, <5>3 DEF Goes
      <4> QED BY <4>2, <4>3
    <3>5. stream'[f][1][1] = M /\ stream'[f][1][2] = From(g) /\ Len(stream'[f]) = Len(frags[g])
      BY <3>3
    <3> QED BY <3>2, <3>4, <3>5 DEF Joint
  <2> QED BY <2>1, <2>2
<1>16. InStep(cl.data, cl.rest, Len(executed), 1)'
  <2>1. PICK data : data = cl.data
    OBVIOUS
  <2>2. PICK rest : rest = cl.rest
    OBVIOUS
  <2>3. InStep(data, rest, n, 1)
    BY <1>1, <2>1, <2>2
  <2>4. data \in Seq(Byte) /\ Len(data) \in Nat
    BY <1>1, <2>1, LenProperties DEF Fits, Receiver
  <2>5. ASSUME n + 1 < Whole' \/ cut' = 0
        PROVE  /\ rest = << >> /\ Piece(data, n + 1, 1)
               /\ IF n + 1 < Whole' THEN Len(data) < Size(n + 1)' ELSE data = << >>
               /\ Continues(1, n + 1, Len(data) + 1)'
    <3>1. n + 1 < W \/ cut = 0
      BY <1>9, <2>5
    <3>2. /\ rest = << >> /\ Piece(data, n + 1, 1)
          /\ IF n + 1 < W THEN Len(data) < Size(n + 1) ELSE data = << >>
          /\ Continues(1, n + 1, Len(data) + 1)
      BY <1>W, <2>3, <3>1 DEF InStep
    <3>3. n + 1 <= W /\ n + 1 \in Nat
      <4>1. cut = 0 => n <= M - 1
        BY <1>1, <1>2, <1>n DEF Right
      <4> QED BY <1>2, <1>9, <3>1, <4>1
    <3>4. ~(n + 1 < W) => n + 1 = W /\ Len(data) = 0 /\ Len(data) + 1 = 1
      BY <1>9, <3>2, <3>3
    <3>5. Continues(1, n + 1, Len(data) + 1)'
      <4>1. 1 \in 1 .. L + 1
        BY <1>2
      <4>2. n + 1 = W => Len(data) + 1 = 1
        BY <1>9, <3>4
      <4> QED BY <1>14, <3>2, <3>3, <4>1, <4>2
    <3>6. IF n + 1 < Whole' THEN Len(data) < Size(n + 1)' ELSE data = << >>
      <4>1. CASE n + 1 < W
        <5>1. n + 1 < Whole' /\ n + 1 \in 1 .. M - 1
          BY <1>2, <1>9, <4>1
        <5>2. Size(n + 1)' = Size(n + 1)
          BY <1>7, <5>1
        <5> QED BY <3>2, <4>1, <5>1, <5>2
      <4>2. CASE ~(n + 1 < W)
        <5>1. data = << >> /\ Len(data) = 0 /\ n + 1 = W
          BY <3>2, <3>4, <4>2
        <5>2. ASSUME n + 1 < Whole' PROVE Len(data) < Size(n + 1)'
          <6>1. n + 1 = M
            BY <1>9, <5>1, <5>2
          <6>2. Size(n + 1)' = HeadSize + length
            BY <1>7, <6>1
          <6> QED BY <1>2, <5>1, <6>2
        <5> QED BY <5>1, <5>2
      <4> QED BY <4>1, <4>2
    <3> QED BY <3>2, <3>5, <3>6
  <2>6. InStep(data, rest, n, 1)'
    BY <2>5 DEF InStep, Piece
  <2>7. cl'.data = data /\ cl'.rest = rest /\ Len(executed') = n
    BY <1>5, <1>n, <2>1, <2>2
  <2> QED BY <2>6, <2>7
<1>17. Right(executed)'
  <2>1. executed \in Seq(Seq(Byte'))
    <3>1. Seq(Byte) \subseteq Seq(Byte')
      BY <1>8, SeqMonotonic
    <3> QED BY <1>1, <3>1, SeqMonotonic DEF Right
  <2>2. /\ \A i \in 1 .. n : i < W => executed[i] = Message(i, sent[i])
        /\ cut = 0 => n <= M - 1
    BY <1>1, <1>2, <1>n, <1>W DEF Right
  <2>3. ASSUME NEW i \in 1 .. n, i < Whole' PROVE executed[i] = Message(i, sent'[i])
    <3>1. i < W /\ i \in 1 .. M - 1
      BY <1>2, <1>9, <2>2, <2>3
    <3> QED BY <1>6, <2>2, <3>1
  <2>4. cut' = 0 => n <= M
    BY <1>2, <1>9, <2>2
  <2> QED BY <1>5, <1>6, <1>n, <2>1, <2>3, <2>4 DEF Right, Message
<1>18. Fits(cl)'
  <2>1. Seq(Byte) \subseteq Seq(Byte')
    BY <1>8, SeqMonotonic
  <2>2. cl \in Receiver'
    BY <1>1, <2>1 DEF Fits, Receiver
  <2> QED BY <1>1, <1>5, <2>2 DEF Fits
<1>19. cut' \in 0 .. Len(sent') /\ cl'.connected
  BY <1>5, <1>6, <1>9
<1> QED BY <1>6, <1>10, <1>13, <1>15, <1>16, <1>17, <1>18, <1>19 DEF IInv

-----------------------------------------------------------------------------
(* The specification.                                                      *)

\* The invariant holds at the beginning.
LEMMA InitHolds == SizesAssumption /\ Init => IInv
<1> SUFFICES ASSUME SizesAssumption, Init PROVE IInv
  OBVIOUS
<1>1. /\ cl.connected = TRUE /\ cl.data = << >> /\ cl.rest = << >> /\ cl.maxsize \in Nat
      /\ cl = [connected |-> cl.connected, data |-> cl.data, maxsize |-> cl.maxsize, rest |-> cl.rest]
  <2>1. cl \in [connected : {TRUE}, data : {<< >>}, maxsize : {0, DefaultSize}, rest : {<< >>}]
    BY DEF Init
  <2>2. cl = [connected |-> cl.connected, data |-> cl.data, maxsize |-> cl.maxsize, rest |-> cl.rest]
    BY <2>1
  <2>3. cl.connected = TRUE /\ cl.data = << >> /\ cl.rest = << >> /\ cl.maxsize \in {0, DefaultSize}
    BY <2>1
  <2> QED BY <2>2, <2>3, SizesAre
<1>2. cl \in Receiver
  <2>1. << >> \in Seq(Byte)
    OBVIOUS
  <2> QED BY <1>1, <2>1 DEF Receiver
<1>3. Fits(cl)
  BY <1>1, <1>2, SizesAre DEF Fits
<1>4. /\ sent \in Seq(Lengths) /\ cut \in 0 .. Len(sent) /\ stream \in Seq(Seq(Byte))
      /\ Len(sent) = 0 /\ Len(stream) = 0 /\ Len(executed) = 0 /\ cut = 0
  BY DEF Init
<1>5. Right(executed)
  BY <1>4 DEF Right, Init
<1>6. Whole = 1
  BY <1>4 DEF Whole
<1>7. Continues(1, 1, 1)
  BY <1>4, <1>6 DEF Continues
<1>8. InStep(<< >>, << >>, 0, 1)
  BY <1>6, <1>7 DEF InStep, Piece
<1> QED BY <1>1, <1>3, <1>4, <1>5, <1>8 DEF IInv

\* Every step keeps it.
LEMMA NextKeeps == SizesAssumption /\ IInv /\ Next => IInv'
<1> SUFFICES ASSUME SizesAssumption, IInv, Next PROVE IInv'
  OBVIOUS
<1>1. CASE Sends
  <2>3. PICK length \in Lengths : \E a \in 0 .. FragmentCount(length) : SendReliableServerCommand(length, a)
    BY <1>1 DEF Sends
  <2>1. PICK a \in 0 .. FragmentCount(length) : SendReliableServerCommand(length, a)
    BY <2>3
  <2>2. cl.connected
    BY <1>1 DEF Sends
  <2> QED BY <2>1, <2>2, SendKeeps
<1>2. CASE ReceivesSome
  <2>1. PICK n \in 0 .. Min({RxWindow, Len(stream)}),
             fatal \in {0} \cup Len(executed) + 1 .. Len(sent), malloced \in BOOLEAN :
          Receives(n, fatal, malloced)
    BY <1>2 DEF ReceivesSome
  <2>2. RxWindow \in Nat /\ Len(stream) \in Nat
    BY SizesAre, LenProperties DEF IInv
  <2>3. Min({RxWindow, Len(stream)}) <= Len(stream) /\ Min({RxWindow, Len(stream)}) \in Nat
    BY <2>2, MinOfTwo
  <2>4. n \in 0 .. Len(stream)
    BY <2>2, <2>3
  <2> QED BY <2>1, <2>4, ReceivesKeeps
<1> QED BY <1>1, <1>2 DEF Next

\* And so does one that changes nothing.
LEMMA StutterKeeps == IInv /\ UNCHANGED vars => IInv'
BY DEF vars, IInv, Fits, Receiver, Byte, Fragment, Piece, Size, Right, Joint, Goes, Continues, InStep, Whole

\* It says that the types are right.
LEMMA IInvTyped == SizesAssumption /\ IInv => TypeOK
<1> SUFFICES ASSUME SizesAssumption, IInv PROVE TypeOK
  OBVIOUS
<1>1. /\ cl.connected \in BOOLEAN /\ cl.maxsize \in Nat /\ Len(cl.data) <= cl.maxsize
      /\ Len(cl.rest) < FragmentSize /\ sent \in Seq(Lengths) /\ cut \in 0 .. Len(sent)
      /\ ~cl.connected => stream = << >> /\ cl.data = << >>
  BY DEF IInv, Fits, Receiver
<1>2. ASSUME NEW f \in 1 .. Len(stream) PROVE Len(stream[f]) \in 1 .. FragmentSize
  <2>1. PICK b : b = stream[f]
    OBVIOUS
  <2>2. Fragment(b)
    BY <2>1 DEF IInv
  <2>3. b[1] \in Byte
    <3>1. b \in Seq(Byte) /\ Len(b) >= 1
      BY <2>2 DEF Fragment
    <3>2. 1 \in 1 .. Len(b)
      BY <3>1, LenProperties
    <3> QED BY <3>1, <3>2, ElementOfSeq
  <2>4. b[1][1] \in 1 .. Len(sent) /\ b[1][2] \in Nat \ {0}
    BY <2>3 DEF Byte
  <2>5. Size(b[1][1]) \in Nat /\ FragmentSize \in Nat \ {0}
    BY <1>1, <2>4, SoundNumbers, SizesAre
  <2>6. Len(b) \in 1 .. FragmentSize
    <3>1. /\ b[1][2] <= Size(b[1][1])
          /\ Len(b) = IF b[1][2] + FragmentSize - 1 <= Size(b[1][1]) THEN FragmentSize
                      ELSE Size(b[1][1]) - b[1][2] + 1
      BY <2>2 DEF Fragment
    <3>2. \A x, z \in Nat : x <= z /\ x # 0 =>
            (IF x + FragmentSize - 1 <= z THEN FragmentSize ELSE z - x + 1) \in 1 .. FragmentSize
      BY <2>5
    <3> QED BY <2>4, <2>5, <3>1, <3>2
  <2> QED BY <2>1, <2>6
<1> QED BY <1>1, <1>2 DEF TypeOK

\* And that messages are executed as they were sent.
LEMMA IInvWhole == SizesAssumption /\ IInv => MessagesWhole
<1> SUFFICES ASSUME SizesAssumption, IInv PROVE MessagesWhole
  OBVIOUS
<1>1. /\ Right(executed) /\ executed \in Seq(Seq(Byte)) /\ Len(executed) \in Nat
      /\ Len(sent) \in Nat /\ cut \in 0 .. Len(sent)
  <2>1. Right(executed) /\ executed \in Seq(Seq(Byte)) /\ sent \in Seq(Lengths) /\ cut \in 0 .. Len(sent)
    BY DEF IInv, Right
  <2> QED BY <2>1, LenProperties
<1>2. ASSUME NEW i \in 1 .. Len(executed), cut = 0 \/ i < cut PROVE executed[i] = Message(i, sent[i])
  <2>1. i < Whole
    BY <1>1, <1>2 DEF Whole, Right
  <2> QED BY <1>1, <2>1 DEF Right
<1>3. ASSUME cl.connected, cut = 0, stream = << >> PROVE Len(executed) = Len(sent)
  <2>1. InStep(cl.data, cl.rest, Len(executed), 1)
    BY <1>3 DEF IInv
  <2>2. Whole = Len(sent) + 1
    BY <1>3 DEF Whole
  <2>3. Continues(1, Len(executed) + 1, Len(cl.data) + 1)
    BY <1>3, <2>1 DEF InStep
  <2>4. ~(1 <= Len(stream))
    BY <1>3
  <2>5. ~(Len(executed) + 1 < Whole)
    BY <2>3, <2>4 DEF Continues
  <2> QED BY <1>1, <1>3, <2>2, <2>5 DEF Right
<1> QED BY <1>2, <1>3 DEF MessagesWhole

\* The receiver is always in step with what was sent, between two messages or within one.
THEOREM StaysInStep == ASSUME SizesAssumption PROVE Spec => []IInv
<1>1. IInv /\ [Next]_vars => IInv'
  BY NextKeeps, StutterKeeps
<1> QED BY InitHolds, <1>1, PTL DEF Spec

\* Every variable keeps its type, and the buffer always holds what is in it, whatever memory
\* there is (SV_ReceiveReliableMessages, SV_RelocateReliableMessageProtocolBuffer).
THEOREM TypesKept == ASSUME SizesAssumption PROVE Spec => []TypeOK
BY StaysInStep, IInvTyped, PTL

\* Messages are executed as they were sent, each once and in order, up to one that the
\* channel took only in part, and none waits once its last fragment has arrived
\* (SV_SendReliableServerCommand, SV_ReceiveReliableMessages).
THEOREM MessagesStayWhole == ASSUME SizesAssumption PROVE Spec => []MessagesWhole
BY StaysInStep, IInvWhole, PTL
=============================================================================
