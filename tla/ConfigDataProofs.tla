--------------------------- MODULE ConfigDataProofs ---------------------------
(***************************************************************************)
(* Theorems about ConfigData, for any clients, ring, network and bounds.   *)
(*                                                                         *)
(* NamesCurrent is about what the client has been told, so the invariant   *)
(* has to say the same of everything that is on its way to the client: a   *)
(* gamestate (GameStatesTrue) and a message with changes (MessagesTrue).   *)
(* A message only tells the changes after the one the server believes the  *)
(* client to have, so that belief must never be too high                   *)
(* (AcknowledgeBacked) and, because the messages may overtake a gamestate, *)
(* must not rest on one when a message is written: no changes are written  *)
(* while a gamestate is under way.  This is GameStateReceived, which       *)
(* follows from the order of the levels (LevelsInOrder): one gamestate per *)
(* level, taken in their order.  It fails when downloads add another one.  *)
(***************************************************************************)
EXTENDS ConfigData, NumberFacts, SequenceTheorems

-----------------------------------------------------------------------------
(* The invariant.                                                          *)

\* The other client x has announced its name.
Announced(x) == other[x].state = "announced"

\* Whom the last change of x was about is in the ring until the ring has gone round.
RingKept ==
  \A x \in Others : Announced(x) =>
    /\ other[x].at \in 1 .. sequence
    /\ sequence < other[x].at + CacheSize => changed[other[x].at % CacheSize] = x

\* There is a gamestate for each level at most, the client takes them in order, and only
\* a client that has none under way is "one of this level".
LevelsInOrder ==
  /\ \A i, j \in 1 .. Len(gamestates) : i < j =>
       gamestates[i].level < gamestates[j].level /\ gamestates[i].sequence <= gamestates[j].sequence
  /\ \A i \in 1 .. Len(gamestates) :
       client.level < gamestates[i].level /\ client.sequence <= gamestates[i].sequence
  /\ cl.state # "zombie" /\ cl.gamestate = 0 =>
       client.level < level /\ \A i \in 1 .. Len(gamestates) : gamestates[i].level < level
  /\ \A i \in 1 .. Len(toServer) :
       toServer[i].level <= client.level /\ toServer[i].ack <= client.sequence

\* A gamestate says the names as they are, but for those that have changed since.
GameStatesTrue ==
  \A i \in 1 .. Len(gamestates), x \in Others :
    Announced(x) /\ other[x].at <= gamestates[i].sequence =>
      gamestates[i].configs[x] = other[x].config

\* The changes us are all those after lo, up to hi, and what they say of a client that has
\* not changed since is its name.
Tells(us, lo, hi) ==
  /\ {u.number : u \in us} = lo + 1 .. hi
  /\ \A x \in Others : Announced(x) /\ other[x].at <= hi =>
       /\ \A u \in us : u.about = x => u.config = other[x].config
       /\ lo < other[x].at => \E u \in us : u.number = other[x].at /\ u.about = x

\* The client has all the changes before those in a message, and no gamestate is under way
\* that is older than they are.
MessageTrue(us) ==
  \E lo, hi \in 0 .. sequence :
    /\ lo <= hi /\ Tells(us, lo, hi)
    /\ lo <= client.sequence
    /\ \A j \in 1 .. Len(gamestates) : hi <= gamestates[j].sequence

MessagesTrue == \A i \in 1 .. Len(toClient) : MessageTrue(toClient[i].updates)

\* There is room for the first gamestate, which takes a number.
RoomLeft == IF cl.number = 0 THEN sequence < MaxSequence ELSE sequence > 0

\* The inductive invariant.
IInv ==
  /\ TypeOK /\ RoomLeft
  /\ RingKept /\ LevelsInOrder /\ GameStateReceived
  /\ AcknowledgeBacked /\ GameStatesTrue /\ MessagesTrue
  /\ NamesCurrent

-----------------------------------------------------------------------------
(* The operators.                                                          *)

\* The greatest of a set of numbers is the one that no other exceeds.
LEMMA GreatestIsMax ==
  ASSUME NEW S, S \subseteq Int, NEW m \in S, \A k \in S : k <= m
  PROVE  Max(S) = m
<1>1. \E x \in S : \A y \in S : x >= y
  OBVIOUS
<1>2. Max(S) \in S /\ \A y \in S : Max(S) >= y
  BY <1>1 DEF Max
<1>3. Max(S) \in Int /\ m \in Int /\ Max(S) >= m /\ Max(S) <= m
  BY <1>2
<1> QED BY ONLY <1>3

\* The larger of two numbers, as SV_PacketEvent takes an acknowledge.
LEMMA LargerOfTwo ==
  ASSUME NEW a \in Int, NEW b \in Int
  PROVE  Max({a, b}) \in {a, b} /\ a <= Max({a, b}) /\ b <= Max({a, b})
<1>1. CASE a <= b
  BY <1>1, GreatestIsMax
<1>2. CASE b <= a
  BY <1>2, GreatestIsMax
<1> QED BY <1>1, <1>2

\* What is on the wire after one more message is that message, or was there before.
LEMMA PutAdds ==
  ASSUME ConfigAssumption, NEW S, NEW wire \in Seq(S), NEW m \in S
  PROVE  /\ Put(wire, m) \in Seq(S)
         /\ \A i \in 1 .. Len(Put(wire, m)) :
              Put(wire, m)[i] = m \/ \E j \in 1 .. Len(wire) : Put(wire, m)[i] = wire[j]
<1>1. CASE Len(wire) < WireCap
  BY <1>1 DEF Put
<1>2. CASE ~(Len(wire) < WireCap)
  <2>1. wire # << >>
    BY <1>2 DEF ConfigAssumption
  <2>2. /\ Tail(wire) \in Seq(S) /\ Len(Tail(wire)) = Len(wire) - 1
        /\ \A i \in 1 .. Len(Tail(wire)) : Tail(wire)[i] = wire[i + 1]
    BY <2>1, HeadTailProperties
  <2>3. Put(wire, m) = Append(Tail(wire), m)
    BY <1>2 DEF Put
  <2>4. Len(wire) \in Nat /\ Len(Tail(wire)) \in Nat
    BY <2>2, LenProperties
  <2>5. /\ Append(Tail(wire), m) \in Seq(S) /\ Len(Append(Tail(wire), m)) = Len(Tail(wire)) + 1
        /\ \A i \in 1 .. Len(Tail(wire)) + 1 :
             Append(Tail(wire), m)[i] = IF i <= Len(Tail(wire)) THEN Tail(wire)[i] ELSE m
    <3> DEFINE rest == Tail(wire)
    <3>1. rest \in Seq(S)
      BY <2>2
    <3> HIDE DEF rest
    <3>2. /\ Append(rest, m) \in Seq(S) /\ Len(Append(rest, m)) = Len(rest) + 1
          /\ \A i \in 1 .. Len(rest) + 1 :
               Append(rest, m)[i] = IF i <= Len(rest) THEN rest[i] ELSE m
      BY <3>1
    <3> QED BY <3>2 DEF rest
  <2>6. ASSUME NEW i \in 1 .. Len(Tail(wire)) + 1
        PROVE  \/ Append(Tail(wire), m)[i] = m
               \/ \E j \in 1 .. Len(wire) : Append(Tail(wire), m)[i] = wire[j]
    <3>1. CASE i <= Len(Tail(wire))
      <4>1. i \in 1 .. Len(Tail(wire)) /\ i + 1 \in 1 .. Len(wire)
        BY <3>1, <2>2, <2>4
      <4>2. Append(Tail(wire), m)[i] = wire[i + 1]
        BY <4>1, <3>1, <2>2, <2>5
      <4> QED BY <4>1, <4>2
    <3>2. CASE ~(i <= Len(Tail(wire)))
      BY <3>2, <2>5
    <3> QED BY <3>1, <3>2
  <2> QED BY <2>3, <2>5, <2>6
<1> QED BY <1>1, <1>2

\* What is left on a wire after message i was there before.
LEMMA RestWas ==
  ASSUME NEW S, NEW wire \in Seq(S), NEW i \in 1 .. Len(wire)
  PROVE  /\ SubSeq(wire, i + 1, Len(wire)) \in Seq(S)
         /\ \A k \in 1 .. Len(SubSeq(wire, i + 1, Len(wire))) :
              \E j \in 1 .. Len(wire) : SubSeq(wire, i + 1, Len(wire))[k] = wire[j]
<1>1. Len(wire) \in Nat
  BY LenProperties
<1>2. \A j \in i + 1 .. Len(wire) : wire[j] \in S
  BY <1>1, ElementOfSeq
<1>3. /\ SubSeq(wire, i + 1, Len(wire)) \in Seq(S)
      /\ Len(SubSeq(wire, i + 1, Len(wire))) = Len(wire) - i
      /\ \A k \in 1 .. Len(wire) - i : SubSeq(wire, i + 1, Len(wire))[k] = wire[i + k]
  <2>1. i + 1 \in Int /\ Len(wire) \in Int
    BY <1>1
  <2>2. /\ SubSeq(wire, i + 1, Len(wire)) \in Seq(S)
        /\ Len(SubSeq(wire, i + 1, Len(wire))) = IF i + 1 <= Len(wire) THEN Len(wire) - (i + 1) + 1 ELSE 0
        /\ \A k \in 1 .. Len(wire) - (i + 1) + 1 : SubSeq(wire, i + 1, Len(wire))[k] = wire[(i + 1) + k - 1]
    BY <2>1, <1>2, SubSeqProperties
  <2> QED BY <2>2, <1>1
<1>4. \A k \in 1 .. Len(wire) - i : i + k \in 1 .. Len(wire)
  BY <1>1
<1> QED BY <1>3, <1>4

\* The wires hold messages.
LEMMA Wires ==
  ASSUME TypeOK
  PROVE  /\ toClient \in Seq([updates : SUBSET Update, number : Nat])
         /\ toServer \in Seq([ack : Nat, level : Nat, number : Nat])
         /\ gamestates \in Seq([sequence : Nat, configs : [Others -> 0 .. MaxSequence + 1], level : Nat])
         /\ Len(toClient) \in Nat /\ Len(toServer) \in Nat /\ Len(gamestates) \in Nat
         /\ \A i \in 1 .. Len(toClient) :
              toClient[i] \in [updates : SUBSET Update, number : 0 .. cl.number]
         /\ \A i \in 1 .. Len(toServer) :
              toServer[i] \in [ack : 0 .. sequence, level : 0 .. level, number : 0 .. cl.number]
         /\ \A i \in 1 .. Len(gamestates) :
              gamestates[i] \in [sequence : 1 .. sequence, configs : [Others -> 0 .. MaxSequence + 1],
                                 level : 1 .. level]
<1> DEFINE
      MessageType == [updates : SUBSET Update, number : 0 .. cl.number]
      MessageRecord == [updates : SUBSET Update, number : Nat]
      PacketType == [ack : 0 .. sequence, level : 0 .. level, number : 0 .. cl.number]
      PacketRecord == [ack : Nat, level : Nat, number : Nat]
      GameState == [sequence : 1 .. sequence, configs : [Others -> 0 .. MaxSequence + 1], level : 1 .. level]
      GameStateRecord == [sequence : Nat, configs : [Others -> 0 .. MaxSequence + 1], level : Nat]
<1>1. MessageType \subseteq MessageRecord /\ PacketType \subseteq PacketRecord /\ GameState \subseteq GameStateRecord
  OBVIOUS
<1>2. toClient \in Seq(MessageType) /\ toServer \in Seq(PacketType) /\ gamestates \in Seq(GameState)
  BY DEF TypeOK
<1>3. toClient \in Seq(MessageRecord) /\ toServer \in Seq(PacketRecord) /\ gamestates \in Seq(GameStateRecord)
  <2> HIDE DEF MessageType, MessageRecord, PacketType, PacketRecord, GameState, GameStateRecord
  <2>1. toClient \in Seq(MessageRecord)
    BY <1>1, <1>2, SeqMonotonic
  <2>2. toServer \in Seq(PacketRecord)
    BY <1>1, <1>2, SeqMonotonic
  <2>3. gamestates \in Seq(GameStateRecord)
    BY <1>1, <1>2, SeqMonotonic
  <2> QED BY <2>1, <2>2, <2>3
<1> QED BY <1>2, <1>3, ElementOfSeq, LenProperties

-----------------------------------------------------------------------------
(* Messages to the client.                                                 *)

\* A message without changes tells nothing, and so nothing wrong.
LEMMA NoChangesTrue ==
  ASSUME IInv PROVE MessageTrue({})
<1>1. sequence \in Nat /\ client.sequence \in Nat
  BY DEF IInv, TypeOK
<1>2. \A j \in 1 .. Len(gamestates) : 0 <= gamestates[j].sequence
  BY Wires DEF IInv
<1>3. Tells({}, 0, 0)
  <2>1. ASSUME NEW x \in Others, Announced(x) PROVE ~(other[x].at <= 0)
    BY <2>1, <1>1 DEF IInv, RingKept
  <2>2. {u.number : u \in {}} = 0 + 1 .. 0
    OBVIOUS
  <2> QED BY <2>1, <2>2 DEF Tells
<1>4. 0 \in 0 .. sequence
  BY <1>1
<1> QED BY <1>1, <1>2, <1>3, <1>4 DEF MessageTrue

\* The changes SV_UpdateConfigData writes: all after the last acknowledged one, with the
\* names of today, and the client has what came before them.
LEMMA UpdatesTrue ==
  ASSUME ConfigAssumption, IInv, Due, ~Dropped
  PROVE  Updates \subseteq Update /\ MessageTrue(Updates)
<1>1. /\ sequence \in Nat /\ sequence <= MaxSequence /\ cl.ack \in Nat /\ cl.ack <= sequence
      /\ CacheSize \in Nat \ {0} /\ MaxSequence \in Nat
      /\ changed \in [0 .. CacheSize - 1 -> Others \cup {Self}]
      /\ \A x \in Others : other[x].config \in 0 .. MaxSequence + 1 /\ other[x].at \in 0 .. sequence
  BY DEF IInv, TypeOK, ConfigAssumption
<1>2. sequence < cl.ack + CacheSize
  BY <1>1 DEF Due, Dropped, Overtaken
<1>3. gamestates = << >>
  BY DEF IInv, GameStateReceived, Due
<1>4. cl.ack <= client.sequence
  BY <1>3 DEF IInv, AcknowledgeBacked
<1>5. ASSUME NEW i \in cl.ack + 1 .. sequence
      PROVE  i \in Nat /\ i % CacheSize \in 0 .. CacheSize - 1 /\ changed[i % CacheSize] \in Others \cup {Self}
  <2>1. i \in Nat
    BY <1>1
  <2>2. i % CacheSize \in 0 .. CacheSize - 1
    BY <2>1, <1>1, DivMod
  <2> QED BY <2>1, <2>2, <1>1
<1>6. Updates \subseteq Update
  <2>1. ASSUME NEW i \in cl.ack + 1 .. sequence
        PROVE  [number |-> i, about |-> changed[i % CacheSize],
                config |-> NameOf(changed[i % CacheSize])] \in Update
    <3>1. i \in 1 .. MaxSequence
      BY <1>1
    <3>2. NameOf(changed[i % CacheSize]) \in 0 .. MaxSequence + 1
      BY <1>1, <1>5 DEF NameOf
    <3> QED BY <3>1, <3>2, <1>5 DEF Update
  <2> QED BY <2>1 DEF Updates
<1>7. Tells(Updates, cl.ack, sequence)
  <2>1. {u.number : u \in Updates} = cl.ack + 1 .. sequence
    <3>1. \A u \in Updates : u.number \in cl.ack + 1 .. sequence
      BY DEF Updates
    <3>2. ASSUME NEW i \in cl.ack + 1 .. sequence PROVE \E u \in Updates : u.number = i
      <4> DEFINE u == [number |-> i, about |-> changed[i % CacheSize],
                       config |-> NameOf(changed[i % CacheSize])]
      <4>1. u \in Updates /\ u.number = i
        BY DEF Updates
      <4> QED BY <4>1
    <3> QED BY <3>1, <3>2
  <2>2. ASSUME NEW x \in Others, NEW u \in Updates, u.about = x
        PROVE  u.config = other[x].config
    <3>1. x # Self
      BY DEF ConfigAssumption
    <3> QED BY <3>1, <2>2 DEF Updates, NameOf
  <2>3. ASSUME NEW x \in Others, Announced(x), cl.ack < other[x].at
        PROVE  \E u \in Updates : u.number = other[x].at /\ u.about = x
    <3>1. other[x].at \in cl.ack + 1 .. sequence
      BY <2>3, <1>1
    <3>2. sequence < other[x].at + CacheSize
      BY <3>1, <1>1, <1>2
    <3>3. changed[other[x].at % CacheSize] = x
      BY <2>3, <3>2 DEF IInv, RingKept
    <3> DEFINE u == [number |-> other[x].at, about |-> changed[other[x].at % CacheSize],
                     config |-> NameOf(changed[other[x].at % CacheSize])]
    <3>4. u \in Updates
      BY <3>1 DEF Updates
    <3>5. u.number = other[x].at /\ u.about = x
      BY <3>3
    <3> QED BY <3>4, <3>5
  <2> QED BY <2>1, <2>2, <2>3 DEF Tells
<1>8. cl.ack \in 0 .. sequence /\ sequence \in 0 .. sequence
  BY <1>1
<1>9. \A j \in 1 .. Len(gamestates) : sequence <= gamestates[j].sequence
  BY <1>3
<1> QED BY <1>1, <1>4, <1>6, <1>7, <1>8, <1>9 DEF MessageTrue

\* Every message to the receiver is true.
LEMMA MessageIsTrue ==
  ASSUME ConfigAssumption, IInv, NEW m \in Messages
  PROVE  m \in [updates : SUBSET Update, number : 0 .. cl.number] /\ MessageTrue(m.updates)
<1>1. cl.number \in 0 .. cl.number
  BY DEF IInv, TypeOK
<1>2. CASE m.updates = {}
  <2>1. m = [updates |-> m.updates, number |-> cl.number]
    BY DEF Messages, Message
  <2> QED BY <1>1, <1>2, <2>1, NoChangesTrue
<1>3. CASE m.updates # {}
  <2>1. m = [updates |-> Updates, number |-> cl.number] /\ Due /\ ~Dropped
    BY <1>3 DEF Messages, Message
  <2> QED BY <1>1, <2>1, UpdatesTrue
<1> QED BY <1>2, <1>3

\* So everything on the wire stays true when one is added.
LEMMA WireStaysTrue ==
  ASSUME ConfigAssumption, IInv, NEW m \in Messages
  PROVE  /\ Put(toClient, m) \in Seq([updates : SUBSET Update, number : 0 .. cl.number])
         /\ \A i \in 1 .. Len(Put(toClient, m)) : MessageTrue(Put(toClient, m)[i].updates)
<1>1. toClient \in Seq([updates : SUBSET Update, number : 0 .. cl.number])
  BY DEF IInv, TypeOK
<1>2. m \in [updates : SUBSET Update, number : 0 .. cl.number] /\ MessageTrue(m.updates)
  BY MessageIsTrue
<1> DEFINE S == [updates : SUBSET Update, number : 0 .. cl.number]
<1>3. /\ Put(toClient, m) \in Seq(S)
      /\ \A i \in 1 .. Len(Put(toClient, m)) :
           Put(toClient, m)[i] = m \/ \E j \in 1 .. Len(toClient) : Put(toClient, m)[i] = toClient[j]
  <2>1. toClient \in Seq(S) /\ m \in S
    BY <1>1, <1>2
  <2> HIDE DEF S
  <2> QED BY <2>1, PutAdds
<1> QED BY <1>2, <1>3 DEF IInv, MessagesTrue

\* The types of the wires only grow with the counters.
LEMMA WiresWiden ==
  ASSUME TypeOK, NEW s \in Nat, NEW l \in Nat, NEW n \in Nat,
         sequence <= s, level <= l, cl.number <= n
  PROVE  /\ toClient \in Seq([updates : SUBSET Update, number : 0 .. n])
         /\ toServer \in Seq([ack : 0 .. s, level : 0 .. l, number : 0 .. n])
         /\ gamestates \in Seq([sequence : 1 .. s, configs : [Others -> 0 .. MaxSequence + 1],
                                level : 1 .. l])
<1> DEFINE
      MessageType == [updates : SUBSET Update, number : 0 .. cl.number]
      MessageWide == [updates : SUBSET Update, number : 0 .. n]
      PacketType == [ack : 0 .. sequence, level : 0 .. level, number : 0 .. cl.number]
      PacketWide == [ack : 0 .. s, level : 0 .. l, number : 0 .. n]
      GameState == [sequence : 1 .. sequence, configs : [Others -> 0 .. MaxSequence + 1], level : 1 .. level]
      GameStateWide == [sequence : 1 .. s, configs : [Others -> 0 .. MaxSequence + 1], level : 1 .. l]
<1>1. sequence \in Nat /\ level \in Nat /\ cl.number \in Nat
  BY DEF TypeOK
<1>2. 0 .. sequence \subseteq 0 .. s /\ 1 .. sequence \subseteq 1 .. s /\ 0 .. level \subseteq 0 .. l
      /\ 1 .. level \subseteq 1 .. l /\ 0 .. cl.number \subseteq 0 .. n
  BY <1>1
<1>3. MessageType \subseteq MessageWide /\ PacketType \subseteq PacketWide /\ GameState \subseteq GameStateWide
  BY <1>2
<1>4. toClient \in Seq(MessageType) /\ toServer \in Seq(PacketType) /\ gamestates \in Seq(GameState)
  BY DEF TypeOK
<1>5. toClient \in Seq(MessageWide) /\ toServer \in Seq(PacketWide) /\ gamestates \in Seq(GameStateWide)
  <2> HIDE DEF MessageType, MessageWide, PacketType, PacketWide, GameState, GameStateWide
  <2>1. toClient \in Seq(MessageWide)
    BY <1>3, <1>4, SeqMonotonic
  <2>2. toServer \in Seq(PacketWide)
    BY <1>3, <1>4, SeqMonotonic
  <2>3. gamestates \in Seq(GameStateWide)
    BY <1>3, <1>4, SeqMonotonic
  <2> QED BY <2>1, <2>2, <2>3
<1> QED BY <1>5

-----------------------------------------------------------------------------
(* The other clients.                                                      *)

\* A change takes a place in the ring that belongs to none of the others' last changes
\* which are still in it.
LEMMA ChangeKeepsRing ==
  ASSUME ConfigAssumption, TypeOK, RingKept, NEW x \in Others \cup {Self}, Change(x)
  PROVE  /\ sequence' = sequence + 1
         /\ changed' \in [0 .. CacheSize - 1 -> Others \cup {Self}]
         /\ changed'[sequence' % CacheSize] = x
         /\ \A y \in Others : Announced(y) /\ sequence' < other[y].at + CacheSize =>
              changed'[other[y].at % CacheSize] = y
<1>1. /\ sequence \in Nat /\ CacheSize \in Nat \ {0} /\ sequence' = sequence + 1
      /\ changed \in [0 .. CacheSize - 1 -> Others \cup {Self}]
      /\ changed' = [changed EXCEPT ![sequence' % CacheSize] = x]
  BY DEF TypeOK, ConfigAssumption, Change
<1>2. sequence' % CacheSize \in 0 .. CacheSize - 1
  BY <1>1, DivMod
<1>3. ASSUME NEW y \in Others, Announced(y), sequence' < other[y].at + CacheSize
      PROVE  changed'[other[y].at % CacheSize] = y
  <2>1. other[y].at \in Nat /\ other[y].at < sequence' /\ sequence < other[y].at + CacheSize
    <3>1. other[y].at \in 1 .. sequence
      BY <1>3 DEF RingKept
    <3> QED BY ONLY <3>1, <1>1, <1>3
  <2>2. changed[other[y].at % CacheSize] = y
    BY <1>3, <2>1 DEF RingKept
  <2>3. other[y].at % CacheSize # sequence' % CacheSize
    BY <1>1, <1>3, <2>1, PlacesDiffer
  <2>4. other[y].at % CacheSize \in 0 .. CacheSize - 1
    BY <1>1, <2>1, DivMod
  <2> QED BY <1>1, <2>2, <2>3, <2>4
<1> QED BY <1>1, <1>2, <1>3

\* What another client does keeps the invariant, if its name stays what it was or its
\* change has a number that nobody has been told yet.
LEMMA OthersStepKeeps ==
  ASSUME ConfigAssumption, IInv,
         UNCHANGED <<cl, level, client, toClient, toServer, gamestates>>,
         sequence' \in {sequence, sequence + 1}, RoomLeft', sequence' <= MaxSequence,
         changed' \in [0 .. CacheSize - 1 -> Others \cup {Self}],
         other' \in [Others -> [state : {"free", "connected", "announced"},
                                config : 0 .. MaxSequence + 1, at : 0 .. sequence']],
         RingKept',
         \A x \in Others : Announced(x)' =>
           \/ Announced(x) /\ other'[x].config = other[x].config /\ other'[x].at = other[x].at
           \/ other'[x].at > sequence
  PROVE  IInv'
<1>1. sequence \in Nat /\ sequence' \in Nat /\ sequence <= sequence' /\ level \in Nat /\ cl.number \in Nat
  BY DEF IInv, TypeOK
<1>2. TypeOK'
  <2>1. sequence' \in 0 .. MaxSequence
    BY <1>1 DEF IInv, TypeOK
  <2>2. 0 .. sequence \subseteq 0 .. sequence'
    BY <1>1
  <2>3. /\ cl \in [state : {"connected", "primed", "active", "zombie"}, gamestate : 0 .. 2,
                   number : Nat, ack : 0 .. sequence']
        /\ client \in [sequence : 0 .. sequence', configs : [Others -> 0 .. MaxSequence + 1],
                       level : 0 .. level, number : 0 .. cl.number]
    BY <2>2 DEF IInv, TypeOK
  <2>4. /\ toClient \in Seq([updates : SUBSET Update, number : 0 .. cl.number])
        /\ toServer \in Seq([ack : 0 .. sequence', level : 0 .. level, number : 0 .. cl.number])
        /\ gamestates \in Seq([sequence : 1 .. sequence', configs : [Others -> 0 .. MaxSequence + 1],
                               level : 1 .. level])
    <3>1. TypeOK /\ level <= level /\ cl.number <= cl.number
      BY <1>1 DEF IInv
    <3> QED BY ONLY <1>1, <3>1, WiresWiden
  <2>5. level \in 1 .. MaxLevel
    BY DEF IInv, TypeOK
  <2> QED BY <2>1, <2>3, <2>4, <2>5 DEF TypeOK
<1>3. LevelsInOrder' /\ GameStateReceived' /\ AcknowledgeBacked'
  BY DEF IInv, LevelsInOrder, GameStateReceived, AcknowledgeBacked
<1>4. \A x \in Others, n \in 0 .. sequence : Announced(x)' /\ other'[x].at <= n =>
        Announced(x) /\ other'[x].config = other[x].config /\ other'[x].at = other[x].at
  BY <1>1, <1>2 DEF TypeOK
<1>5. GameStatesTrue'
  <2>1. \A i \in 1 .. Len(gamestates) : gamestates[i].sequence \in 0 .. sequence
    BY <1>1, Wires DEF IInv
  <2> QED BY <2>1, <1>4 DEF IInv, GameStatesTrue
<1>6. NamesCurrent'
  <2>1. client.sequence \in 0 .. sequence
    BY DEF IInv, TypeOK
  <2>2. \A x \in Others : other[x].state = "announced" <=> Announced(x)
    BY DEF Announced
  <2>3. \A x \in Others : (other[x].state = "announced")' <=> Announced(x)'
    BY DEF Announced
  <2> QED BY <2>1, <2>2, <2>3, <1>4 DEF IInv, NamesCurrent
<1>7. MessagesTrue'
  <2>1. ASSUME NEW us, MessageTrue(us) PROVE MessageTrue(us)'
    <3>1. PICK lo \in 0 .. sequence, hi \in 0 .. sequence :
            /\ lo <= hi /\ Tells(us, lo, hi) /\ lo <= client.sequence
            /\ \A j \in 1 .. Len(gamestates) : hi <= gamestates[j].sequence
      BY <2>1 DEF MessageTrue
    <3>2. Tells(us, lo, hi)'
      BY <3>1, <1>4 DEF Tells
    <3>3. lo \in 0 .. sequence' /\ hi \in 0 .. sequence'
      BY <1>1
    <3> QED BY <3>1, <3>2, <3>3 DEF MessageTrue
  <2> QED BY <2>1 DEF IInv, MessagesTrue
<1> QED BY <1>2, <1>3, <1>5, <1>6, <1>7 DEF IInv

\* SV_DirectConnect of another client.
LEMMA ConnectKeeps ==
  ASSUME ConfigAssumption, IInv, NEW x \in Others, Connect(x) PROVE IInv'
<1>1. /\ sequence \in 0 .. MaxSequence /\ MaxSequence \in Nat /\ sequence' = sequence
      /\ other' = [other EXCEPT ![x] = [state |-> "connected", config |-> sequence + 1, at |-> 0]]
      /\ UNCHANGED <<changed, cl, level, client, toClient, toServer, gamestates>>
      /\ other \in [Others -> [state : {"free", "connected", "announced"},
                               config : 0 .. MaxSequence + 1, at : 0 .. sequence]]
  BY DEF Connect, IInv, TypeOK, ConfigAssumption
<1>2. other' \in [Others -> [state : {"free", "connected", "announced"},
                             config : 0 .. MaxSequence + 1, at : 0 .. sequence']]
  <2>1. sequence + 1 \in 0 .. MaxSequence + 1 /\ 0 \in 0 .. sequence'
    BY <1>1
  <2> QED BY <1>1, <2>1
<1>3. \A y \in Others : Announced(y)' => Announced(y) /\ other'[y] = other[y]
  BY <1>1 DEF Announced
<1>4. RingKept' /\ RoomLeft'
  BY <1>1, <1>3 DEF RingKept, RoomLeft, Announced, IInv
<1>5. changed' \in [0 .. CacheSize - 1 -> Others \cup {Self}] /\ sequence' \in {sequence, sequence + 1}
      /\ sequence' <= MaxSequence
  BY <1>1 DEF IInv, TypeOK
<1>6. \A y \in Others : Announced(y)' =>
        \/ Announced(y) /\ other'[y].config = other[y].config /\ other'[y].at = other[y].at
        \/ other'[y].at > sequence
  BY <1>3
<1> QED BY ONLY ConfigAssumption, IInv, <1>1, <1>2, <1>4, <1>5, <1>6, OthersStepKeeps

\* SV_DropClient of another client.
LEMMA LeaveKeeps ==
  ASSUME ConfigAssumption, IInv, NEW x \in Others, Leave(x) PROVE IInv'
<1>1. /\ sequence \in 0 .. MaxSequence /\ MaxSequence \in Nat /\ sequence' = sequence
      /\ other' = [other EXCEPT ![x].state = "free"]
      /\ UNCHANGED <<changed, cl, level, client, toClient, toServer, gamestates>>
      /\ other \in [Others -> [state : {"free", "connected", "announced"},
                               config : 0 .. MaxSequence + 1, at : 0 .. sequence]]
  BY DEF Leave, IInv, TypeOK, ConfigAssumption
<1>2. other' \in [Others -> [state : {"free", "connected", "announced"},
                             config : 0 .. MaxSequence + 1, at : 0 .. sequence']]
  BY <1>1
<1>3. \A y \in Others : Announced(y)' => Announced(y) /\ other'[y] = other[y]
  BY <1>1 DEF Announced
<1>4. RingKept' /\ RoomLeft'
  BY <1>1, <1>3 DEF RingKept, RoomLeft, Announced, IInv
<1>5. changed' \in [0 .. CacheSize - 1 -> Others \cup {Self}] /\ sequence' \in {sequence, sequence + 1}
      /\ sequence' <= MaxSequence
  BY <1>1 DEF IInv, TypeOK
<1>6. \A y \in Others : Announced(y)' =>
        \/ Announced(y) /\ other'[y].config = other[y].config /\ other'[y].at = other[y].at
        \/ other'[y].at > sequence
  BY <1>3
<1> QED BY ONLY ConfigAssumption, IInv, <1>1, <1>2, <1>4, <1>5, <1>6, OthersStepKeeps

\* A change that gives x a number and the state "announced", and leaves the others alone.
LEMMA AnnouncedChangeKeeps ==
  ASSUME ConfigAssumption, IInv, NEW x \in Others, MayChange, Change(x),
         other' \in [Others -> [state : {"free", "connected", "announced"},
                                config : 0 .. MaxSequence + 1, at : 0 .. sequence']],
         other'[x].at = sequence', \A y \in Others \ {x} : other'[y] = other[y],
         UNCHANGED <<cl, level, client, toClient, toServer, gamestates>>
  PROVE  IInv'
<1>1. /\ sequence' = sequence + 1 /\ changed' \in [0 .. CacheSize - 1 -> Others \cup {Self}]
      /\ changed'[sequence' % CacheSize] = x
      /\ \A y \in Others : Announced(y) /\ sequence' < other[y].at + CacheSize =>
           changed'[other[y].at % CacheSize] = y
  <2>1. TypeOK /\ RingKept /\ x \in Others \cup {Self}
    BY DEF IInv
  <2> QED BY ONLY ConfigAssumption, <2>1, Change(x), ChangeKeepsRing
<1>2. sequence \in Nat /\ MaxSequence \in Nat
  BY DEF IInv, TypeOK, ConfigAssumption
<1>3. RoomLeft' /\ sequence' <= MaxSequence
  BY <1>1, <1>2 DEF MayChange, RoomLeft
<1>4. RingKept'
  <2>1. ASSUME NEW y \in Others, Announced(y)'
        PROVE  /\ other'[y].at \in 1 .. sequence'
               /\ sequence' < other'[y].at + CacheSize => changed'[other'[y].at % CacheSize] = y
    <3>1. CASE y = x
      BY <3>1, <1>1, <1>2
    <3>2. CASE y # x
      <4>1. other'[y] = other[y] /\ Announced(y)
        BY <3>2, <2>1 DEF Announced
      <4>2. other[y].at \in 1 .. sequence
        BY <4>1 DEF IInv, RingKept
      <4>3. other[y].at \in 1 .. sequence'
        BY <4>2, <1>1, <1>2
      <4> QED BY <4>1, <4>3, <1>1
    <3> QED BY <3>1, <3>2
  <2> QED BY <2>1 DEF RingKept
<1>5. \A y \in Others : Announced(y)' =>
        \/ Announced(y) /\ other'[y].config = other[y].config /\ other'[y].at = other[y].at
        \/ other'[y].at > sequence
  BY <1>1, <1>2 DEF Announced
<1>6. sequence' \in {sequence, sequence + 1}
  BY <1>1
<1> QED BY ONLY ConfigAssumption, IInv, <1>1, <1>3, <1>4, <1>5, <1>6, OthersStepKeeps,
              UNCHANGED <<cl, level, client, toClient, toServer, gamestates>>,
              other' \in [Others -> [state : {"free", "connected", "announced"},
                                config : 0 .. MaxSequence + 1, at : 0 .. sequence']]

\* SV_SendClientGameState for another client, the first time.
LEMMA AnnounceKeeps ==
  ASSUME ConfigAssumption, IInv, NEW x \in Others, Announce(x) PROVE IInv'
<1>1. /\ sequence \in Nat /\ sequence' = sequence + 1
      /\ other' = [other EXCEPT ![x].state = "announced", ![x].at = sequence']
      /\ other \in [Others -> [state : {"free", "connected", "announced"},
                               config : 0 .. MaxSequence + 1, at : 0 .. sequence]]
  BY DEF Announce, Change, IInv, TypeOK
<1>2. 0 .. sequence \subseteq 0 .. sequence' /\ sequence' \in 0 .. sequence'
  BY <1>1
<1>3. /\ other' \in [Others -> [state : {"free", "connected", "announced"},
                                config : 0 .. MaxSequence + 1, at : 0 .. sequence']]
      /\ other'[x].at = sequence' /\ \A y \in Others \ {x} : other'[y] = other[y]
  BY <1>1, <1>2
<1> QED BY <1>3, AnnouncedChangeKeeps DEF Announce

\* SV_UpdatePlayername and SV_AddBotClient.
LEMMA RenameKeeps ==
  ASSUME ConfigAssumption, IInv, NEW x \in Others, Rename(x) PROVE IInv'
<1>1. /\ sequence \in Nat /\ MaxSequence \in Nat /\ sequence' = sequence + 1 /\ sequence < MaxSequence
      /\ other' = [other EXCEPT ![x] = [state |-> "announced", config |-> sequence', at |-> sequence']]
      /\ other \in [Others -> [state : {"free", "connected", "announced"},
                               config : 0 .. MaxSequence + 1, at : 0 .. sequence]]
  <2>1. /\ sequence \in 0 .. MaxSequence /\ MaxSequence \in Nat
        /\ other \in [Others -> [state : {"free", "connected", "announced"},
                                 config : 0 .. MaxSequence + 1, at : 0 .. sequence]]
    BY DEF IInv, TypeOK, ConfigAssumption
  <2>2. /\ sequence + (IF cl.number = 0 THEN 1 ELSE 0) < MaxSequence /\ sequence' = sequence + 1
        /\ other' = [other EXCEPT ![x] = [state |-> "announced", config |-> sequence', at |-> sequence']]
    BY DEF Rename, Change, MayChange
  <2> QED BY ONLY <2>1, <2>2
<1>2. 0 .. sequence \subseteq 0 .. sequence' /\ sequence' \in 0 .. sequence'
      /\ sequence' \in 0 .. MaxSequence + 1
  BY <1>1
<1>3. /\ other' \in [Others -> [state : {"free", "connected", "announced"},
                                config : 0 .. MaxSequence + 1, at : 0 .. sequence']]
      /\ other'[x].at = sequence' /\ \A y \in Others \ {x} : other'[y] = other[y]
  BY <1>1, <1>2
<1> QED BY <1>3, AnnouncedChangeKeeps DEF Rename

\* SV_UpdatePlayername for the receiver, which takes a number as well.
LEMMA RenameSelfKeeps ==
  ASSUME ConfigAssumption, IInv, RenameSelf PROVE IInv'
<1>1. /\ sequence' = sequence + 1 /\ changed' \in [0 .. CacheSize - 1 -> Others \cup {Self}]
      /\ \A y \in Others : Announced(y) /\ sequence' < other[y].at + CacheSize =>
           changed'[other[y].at % CacheSize] = y
  <2>1. TypeOK /\ RingKept /\ Self \in Others \cup {Self} /\ Change(Self)
    BY DEF IInv, RenameSelf
  <2> QED BY ONLY ConfigAssumption, <2>1, ChangeKeepsRing
<1>2. /\ sequence \in Nat /\ MaxSequence \in Nat /\ MayChange
      /\ UNCHANGED <<other, cl, level, client, toClient, toServer, gamestates>>
  BY DEF IInv, TypeOK, ConfigAssumption, RenameSelf
<1>3. RoomLeft' /\ sequence' <= MaxSequence
  BY <1>1, <1>2 DEF MayChange, RoomLeft
<1>4. 0 .. sequence \subseteq 0 .. sequence' /\ 1 .. sequence \subseteq 1 .. sequence'
  BY <1>1, <1>2
<1>5. other' \in [Others -> [state : {"free", "connected", "announced"},
                             config : 0 .. MaxSequence + 1, at : 0 .. sequence']]
  BY <1>2, <1>4 DEF IInv, TypeOK
<1>6. RingKept'
  BY <1>1, <1>2, <1>4 DEF IInv, RingKept, Announced
<1>7. \A y \in Others : Announced(y)' =>
        \/ Announced(y) /\ other'[y].config = other[y].config /\ other'[y].at = other[y].at
        \/ other'[y].at > sequence
  BY <1>2 DEF Announced
<1>8. sequence' \in {sequence, sequence + 1}
  BY <1>1
<1> QED BY ONLY ConfigAssumption, IInv, <1>1, <1>2, <1>3, <1>5, <1>6, <1>7, <1>8, OthersStepKeeps

\* A message stays true while nobody changes and the client takes nothing.
LEMMA MessageStaysTrue ==
  ASSUME NEW us, MessageTrue(us), UNCHANGED <<sequence, other, client, gamestates>>
  PROVE  MessageTrue(us)'
<1>1. PICK lo \in 0 .. sequence, hi \in 0 .. sequence :
        /\ lo <= hi /\ Tells(us, lo, hi) /\ lo <= client.sequence
        /\ \A j \in 1 .. Len(gamestates) : hi <= gamestates[j].sequence
  BY DEF MessageTrue
<1>2. Tells(us, lo, hi)'
  BY <1>1 DEF Tells, Announced
<1> QED BY <1>1, <1>2 DEF MessageTrue

-----------------------------------------------------------------------------
(* The receiver at the server.                                             *)

\* A step of the server that at most sends a message, begins a level or drops the receiver
\* keeps the invariant.
LEMMA ServerStepKeeps ==
  ASSUME ConfigAssumption, IInv,
         UNCHANGED <<sequence, changed, other, client, toServer, gamestates>>,
         toClient' = toClient \/ \E m \in Messages : toClient' = Put(toClient, m),
         level' \in {level, level + 1}, level' <= MaxLevel,
         cl' \in [state : {"connected", "primed", "active", "zombie"}, gamestate : 0 .. 2,
                  number : Nat, ack : 0 .. sequence],
         cl'.number = cl.number, cl'.ack = cl.ack, cl'.gamestate \in {0, cl.gamestate},
         \/ cl'.state = "zombie"
         \/ cl'.state = cl.state /\ cl'.gamestate = cl.gamestate /\ level' = level
         \/ cl'.gamestate = 0 /\ level' = level + 1
  PROVE  IInv'
<1>1. /\ sequence \in Nat /\ level \in Nat /\ level' \in Nat /\ level <= level' /\ cl.number \in Nat
      /\ client.level \in 0 .. level /\ MaxLevel \in Nat /\ level \in 1 .. MaxLevel
  BY DEF IInv, TypeOK, ConfigAssumption
<1>2. /\ toClient' \in Seq([updates : SUBSET Update, number : 0 .. cl.number])
      /\ \A i \in 1 .. Len(toClient') : MessageTrue(toClient'[i].updates)
  <2>1. CASE toClient' = toClient
    BY <2>1 DEF IInv, TypeOK, MessagesTrue
  <2>2. CASE \E m \in Messages : toClient' = Put(toClient, m)
    BY <2>2, WireStaysTrue
  <2> QED BY <2>1, <2>2
<1>3. TypeOK'
  <2>1. /\ toServer \in Seq([ack : 0 .. sequence, level : 0 .. level', number : 0 .. cl.number])
        /\ gamestates \in Seq([sequence : 1 .. sequence, configs : [Others -> 0 .. MaxSequence + 1],
                               level : 1 .. level'])
    <3>1. TypeOK /\ sequence <= sequence /\ cl.number <= cl.number
      BY <1>1 DEF IInv
    <3> QED BY ONLY <1>1, <3>1, WiresWiden
  <2>2. level' \in 1 .. MaxLevel
    BY <1>1
  <2>3. client \in [sequence : 0 .. sequence, configs : [Others -> 0 .. MaxSequence + 1],
                    level : 0 .. level', number : 0 .. cl.number]
    <3>1. 0 .. level \subseteq 0 .. level'
      BY <1>1
    <3> QED BY <3>1 DEF IInv, TypeOK
  <2>4. Update' = Update
    BY DEF Update
  <2> QED BY <1>2, <2>1, <2>2, <2>3, <2>4 DEF IInv, TypeOK
<1>4. LevelsInOrder'
  <2>1. cl'.state # "zombie" /\ cl'.gamestate = 0 =>
          client.level < level' /\ \A i \in 1 .. Len(gamestates) : gamestates[i].level < level'
    <3>1. CASE cl'.state = cl.state /\ cl'.gamestate = cl.gamestate /\ level' = level
      BY <3>1 DEF IInv, LevelsInOrder
    <3>2. CASE cl'.gamestate = 0 /\ level' = level + 1
      <4>1. \A i \in 1 .. Len(gamestates) : gamestates[i].level \in 1 .. level
        BY Wires DEF IInv
      <4> QED BY <3>2, <4>1, <1>1
    <3> QED BY <3>1, <3>2
  <2> QED BY <2>1 DEF IInv, LevelsInOrder
<1>5. GameStateReceived' /\ AcknowledgeBacked' /\ RoomLeft'
  BY DEF IInv, GameStateReceived, AcknowledgeBacked, RoomLeft
<1>6. RingKept' /\ GameStatesTrue' /\ NamesCurrent'
  BY DEF IInv, RingKept, GameStatesTrue, NamesCurrent, Announced
<1>7. MessagesTrue'
  <2>1. ASSUME NEW us, MessageTrue(us) PROVE MessageTrue(us)'
    BY <2>1, MessageStaysTrue
  <2> QED BY <2>1, <1>2 DEF MessagesTrue
<1> QED BY <1>3, <1>4, <1>5, <1>6, <1>7 DEF IInv

\* A message of SV_SendMessageToClient, with the delayed drop.
LEMMA SendClientSnapshotKeeps ==
  ASSUME ConfigAssumption, IInv, SendClientSnapshot PROVE IInv'
<1>1. PICK m \in Messages : SendMessage(m)
  BY DEF SendClientSnapshot
<1>2. /\ cl \in [state : {"connected", "primed", "active", "zombie"}, gamestate : 0 .. 2,
                 number : Nat, ack : 0 .. sequence]
      /\ level \in 1 .. MaxLevel /\ MaxLevel \in Nat
  BY DEF IInv, TypeOK, ConfigAssumption
<1>3. /\ cl' \in [state : {"connected", "primed", "active", "zombie"}, gamestate : 0 .. 2,
                  number : Nat, ack : 0 .. sequence]
      /\ cl'.number = cl.number /\ cl'.ack = cl.ack /\ cl'.gamestate = cl.gamestate
      /\ cl'.state = "zombie" \/ cl'.state = cl.state
  BY <1>1, <1>2 DEF SendMessage
<1> QED BY <1>1, <1>2, <1>3, ServerStepKeeps DEF SendMessage

\* SV_DropClient: a kick, a time-out.
LEMMA DropClientKeeps ==
  ASSUME ConfigAssumption, IInv, DropClient PROVE IInv'
<1>1. /\ cl \in [state : {"connected", "primed", "active", "zombie"}, gamestate : 0 .. 2,
                 number : Nat, ack : 0 .. sequence]
      /\ level \in 1 .. MaxLevel /\ MaxLevel \in Nat
  BY DEF IInv, TypeOK, ConfigAssumption
<1>2. /\ cl' \in [state : {"connected", "primed", "active", "zombie"}, gamestate : 0 .. 2,
                  number : Nat, ack : 0 .. sequence]
      /\ cl'.number = cl.number /\ cl'.ack = cl.ack /\ cl'.gamestate = cl.gamestate
      /\ cl'.state = "zombie"
  BY <1>1 DEF DropClient
<1> QED BY <1>1, <1>2, ServerStepKeeps DEF DropClient

\* SV_SpawnServer.
LEMMA SpawnServerKeeps ==
  ASSUME ConfigAssumption, IInv, SpawnServer PROVE IInv'
<1>1. /\ cl \in [state : {"connected", "primed", "active", "zombie"}, gamestate : 0 .. 2,
                 number : Nat, ack : 0 .. sequence]
      /\ level \in 1 .. MaxLevel /\ MaxLevel \in Nat
  BY DEF IInv, TypeOK, ConfigAssumption
<1>2. /\ cl' \in [state : {"connected", "primed", "active", "zombie"}, gamestate : 0 .. 2,
                  number : Nat, ack : 0 .. sequence]
      /\ cl'.number = cl.number /\ cl'.ack = cl.ack /\ cl'.gamestate \in {0, cl.gamestate}
      /\ cl'.state = "zombie" \/ cl'.gamestate = 0
  <2>1. \/ cl' = [cl EXCEPT !.state = "zombie"]
        \/ cl' = [cl EXCEPT !.state = "connected", !.gamestate = 0]
    BY DEF SpawnServer
  <2>2. CASE cl' = [cl EXCEPT !.state = "zombie"]
    BY <1>1, <2>2
  <2>3. CASE cl' = [cl EXCEPT !.state = "connected", !.gamestate = 0]
    <3>1. cl' = [state |-> "connected", gamestate |-> 0, number |-> cl.number, ack |-> cl.ack]
      BY <1>1, <2>3
    <3>2. cl.number \in Nat /\ cl.ack \in 0 .. sequence /\ 0 \in 0 .. 2
      BY <1>1
    <3> QED BY ONLY <3>1, <3>2
  <2> QED BY <2>1, <2>2, <2>3
<1>3. level' = level + 1 /\ level' <= MaxLevel
  BY <1>1 DEF SpawnServer
<1>4. toClient' = toClient \/ \E m \in Messages : toClient' = Put(toClient, m)
  BY DEF SpawnServer
<1>5. UNCHANGED <<sequence, changed, other, client, toServer, gamestates>>
  BY DEF SpawnServer
<1> QED BY <1>2, <1>3, <1>4, <1>5, ServerStepKeeps

\* What an acknowledge makes of the client_t: no more than the client has.
LEMMA AcknowledgedBacked ==
  ASSUME ConfigAssumption, IInv, NEW i \in 1 .. Len(toServer)
  PROVE  LET c == Acknowledged(toServer[i]) IN
         /\ c \in [state : {"connected", "primed", "active", "zombie"}, gamestate : 0 .. 2,
                   number : Nat, ack : 0 .. sequence]
         /\ c.state = cl.state /\ c.gamestate = cl.gamestate /\ c.number = cl.number
         /\ c.ack = cl.ack \/ c.ack <= client.sequence
<1>1. /\ cl \in [state : {"connected", "primed", "active", "zombie"}, gamestate : 0 .. 2,
                 number : Nat, ack : 0 .. sequence]
      /\ sequence \in Nat
  BY DEF IInv, TypeOK
<1>2. toServer[i].ack \in 0 .. sequence /\ toServer[i].ack <= client.sequence
  BY Wires DEF IInv, LevelsInOrder
<1>3. Max({cl.ack, toServer[i].ack}) \in {cl.ack, toServer[i].ack}
  <2>1. cl.ack \in Int /\ toServer[i].ack \in Int
    BY <1>1, <1>2
  <2> QED BY ONLY <2>1, LargerOfTwo
<1> QED BY <1>1, <1>2, <1>3 DEF Acknowledged

\* What is left of the messages to the server.
LEMMA ServerWireRest ==
  ASSUME TypeOK, NEW i \in 1 .. Len(toServer), toServer' = SubSeq(toServer, i + 1, Len(toServer))
  PROVE  /\ toServer' \in Seq([ack : 0 .. sequence, level : 0 .. level, number : 0 .. cl.number])
         /\ \A k \in 1 .. Len(toServer') : \E j \in 1 .. Len(toServer) : toServer'[k] = toServer[j]
<1> DEFINE Packet == [ack : 0 .. sequence, level : 0 .. level, number : 0 .. cl.number]
<1>1. toServer \in Seq(Packet)
  BY DEF TypeOK
<1> HIDE DEF Packet
<1>2. /\ SubSeq(toServer, i + 1, Len(toServer)) \in Seq(Packet)
      /\ \A k \in 1 .. Len(SubSeq(toServer, i + 1, Len(toServer))) :
           \E j \in 1 .. Len(toServer) : SubSeq(toServer, i + 1, Len(toServer))[k] = toServer[j]
  BY <1>1, RestWas
<1> QED BY <1>2 DEF Packet

\* SV_PacketEvent, when no gamestate is sent.
LEMMA AcknowledgeStepKeeps ==
  ASSUME ConfigAssumption, IInv, NEW i \in 1 .. Len(toServer),
         toServer' = SubSeq(toServer, i + 1, Len(toServer)),
         UNCHANGED <<sequence, changed, other, level, client, toClient, gamestates>>,
         cl' \in [state : {"connected", "primed", "active", "zombie"}, gamestate : 0 .. 2,
                  number : Nat, ack : 0 .. sequence],
         cl'.number = cl.number, cl'.ack = cl.ack \/ cl'.ack <= client.sequence,
         cl'.gamestate = 2 => gamestates = << >>,
         cl'.state # "zombie" /\ cl'.gamestate = 0 => cl.state # "zombie" /\ cl.gamestate = 0
  PROVE  IInv'
<1>1. /\ toServer' \in Seq([ack : 0 .. sequence, level : 0 .. level, number : 0 .. cl.number])
      /\ \A k \in 1 .. Len(toServer') : \E j \in 1 .. Len(toServer) : toServer'[k] = toServer[j]
  BY ServerWireRest DEF IInv
<1>2. TypeOK'
  <2>1. Update' = Update
    BY DEF Update
  <2> QED BY <1>1, <2>1 DEF IInv, TypeOK
<1>3. LevelsInOrder'
  <2>1. \A k \in 1 .. Len(toServer') :
          toServer'[k].level <= client.level /\ toServer'[k].ack <= client.sequence
    BY <1>1 DEF IInv, LevelsInOrder
  <2> QED BY <2>1 DEF IInv, LevelsInOrder
<1>4. GameStateReceived' /\ AcknowledgeBacked' /\ RoomLeft'
  BY DEF IInv, GameStateReceived, AcknowledgeBacked, RoomLeft
<1>5. RingKept' /\ GameStatesTrue' /\ NamesCurrent'
  BY DEF IInv, RingKept, GameStatesTrue, NamesCurrent, Announced
<1>6. MessagesTrue'
  <2>1. ASSUME NEW us, MessageTrue(us) PROVE MessageTrue(us)'
    BY <2>1, MessageStaysTrue
  <2> QED BY <2>1 DEF IInv, MessagesTrue
<1> QED BY <1>2, <1>3, <1>4, <1>5, <1>6 DEF IInv

\* A gamestate is added behind those under way.
LEMMA GameStateAdded ==
  ASSUME TypeOK, NEW g
  PROVE  /\ Len(Append(gamestates, g)) = Len(gamestates) + 1 /\ Len(gamestates) \in Nat
         /\ Append(gamestates, g)[Len(gamestates) + 1] = g
         /\ \A j \in 1 .. Len(gamestates) : Append(gamestates, g)[j] = gamestates[j]
         /\ \A j \in 1 .. Len(gamestates) + 1 :
              j = Len(gamestates) + 1 \/ j \in 1 .. Len(gamestates)
<1> DEFINE S == {gamestates[j] : j \in 1 .. Len(gamestates)} \cup {g}
<1>1. Len(gamestates) \in Nat /\ gamestates \in [1 .. Len(gamestates) -> S]
  BY Wires, LenProperties
<1>2. gamestates \in Seq(S) /\ g \in S
  BY <1>1, SeqDef
<1> HIDE DEF S
<1> QED BY <1>1, <1>2

\* SV_SendClientGameState: a gamestate with all names as they are.
LEMMA GameStateStepKeeps ==
  ASSUME ConfigAssumption, IInv, NEW i \in 1 .. Len(toServer),
         toServer' = SubSeq(toServer, i + 1, Len(toServer)),
         UNCHANGED <<other, level, client, toClient>>,
         NEW c, c \in [state : {"connected", "primed", "active", "zombie"}, gamestate : 0 .. 2,
                       number : Nat, ack : 0 .. sequence],
         c.number = cl.number, cl.state # "zombie", cl.gamestate = 0,
         SendClientGameState(c)
  PROVE  IInv'
<1> DEFINE g == [sequence |-> sequence', configs |-> Known, level |-> level]
<1>1. /\ sequence \in 0 .. MaxSequence /\ MaxSequence \in Nat /\ level \in 1 .. MaxLevel /\ MaxLevel \in Nat
      /\ cl.number \in Nat /\ client.level \in 0 .. level /\ client.sequence \in 0 .. sequence
      /\ other \in [Others -> [state : {"free", "connected", "announced"},
                               config : 0 .. MaxSequence + 1, at : 0 .. sequence]]
  BY DEF IInv, TypeOK, ConfigAssumption
<1>2. /\ sequence' \in {sequence, sequence + 1} /\ sequence' \in 1 .. MaxSequence
      /\ changed' \in [0 .. CacheSize - 1 -> Others \cup {Self}]
      /\ RingKept'
  <2>1. CASE c.number = 0
    <3>1. /\ sequence' = sequence + 1 /\ changed' \in [0 .. CacheSize - 1 -> Others \cup {Self}]
          /\ \A y \in Others : Announced(y) /\ sequence' < other[y].at + CacheSize =>
               changed'[other[y].at % CacheSize] = y
      <4>1. TypeOK /\ RingKept /\ Self \in Others \cup {Self} /\ Change(Self)
        BY <2>1 DEF IInv, SendClientGameState
      <4> QED BY ONLY ConfigAssumption, <4>1, ChangeKeepsRing
    <3>2. sequence < MaxSequence
      BY <2>1 DEF IInv, RoomLeft
    <3>3. 1 .. sequence \subseteq 1 .. sequence'
      BY <3>1, <1>1
    <3>4. RingKept'
      BY <3>1, <3>3 DEF IInv, RingKept, Announced
    <3> QED BY <3>1, <3>2, <3>4, <1>1
  <2>2. CASE c.number # 0
    <3>1. sequence' = sequence /\ changed' = changed
      BY <2>2 DEF SendClientGameState
    <3>2. sequence > 0
      BY <2>2, <1>1 DEF IInv, RoomLeft
    <3>3. RingKept'
      BY <3>1 DEF IInv, RingKept, Announced
    <3> QED BY <3>1, <3>2, <3>3, <1>1 DEF IInv, TypeOK
  <2> QED BY <2>1, <2>2
<1>3. /\ cl'.state = "primed" /\ cl'.gamestate = 1 /\ cl'.number = cl.number + 1 /\ cl'.ack = sequence'
      /\ cl' \in [state : {"connected", "primed", "active", "zombie"}, gamestate : 0 .. 2,
                  number : Nat, ack : 0 .. sequence']
      /\ gamestates' = Append(gamestates, g)
  <2>1. cl' = [c EXCEPT !.state = "primed", !.gamestate = 1, !.number = @ + 1, !.ack = sequence']
    BY DEF SendClientGameState
  <2>2. sequence' \in 0 .. sequence' /\ cl.number + 1 \in Nat /\ 1 \in 0 .. 2
    BY <1>1, <1>2
  <2>3. cl' = [state |-> "primed", gamestate |-> 1, number |-> cl.number + 1, ack |-> sequence']
    BY <2>1
  <2>4. gamestates' = Append(gamestates, g)
    BY DEF SendClientGameState
  <2> HIDE DEF g
  <2> QED BY ONLY <2>2, <2>3, <2>4
<1>4. sequence <= sequence' /\ sequence' \in Nat
  BY <1>1, <1>2
<1>5. /\ Len(gamestates') = Len(gamestates) + 1 /\ Len(gamestates) \in Nat
      /\ gamestates'[Len(gamestates) + 1] = g
      /\ \A j \in 1 .. Len(gamestates) : gamestates'[j] = gamestates[j]
      /\ \A j \in 1 .. Len(gamestates') : j = Len(gamestates) + 1 \/ j \in 1 .. Len(gamestates)
  BY <1>3, GameStateAdded DEF IInv
<1>6. \A j \in 1 .. Len(gamestates) :
        gamestates[j].sequence \in 1 .. sequence /\ gamestates[j].level < level
  BY Wires DEF IInv, LevelsInOrder
<1>7. /\ toServer' \in Seq([ack : 0 .. sequence, level : 0 .. level, number : 0 .. cl.number])
      /\ \A k \in 1 .. Len(toServer') : \E j \in 1 .. Len(toServer) : toServer'[k] = toServer[j]
  BY ServerWireRest DEF IInv
<1>8. TypeOK'
  <2>1. /\ toClient \in Seq([updates : SUBSET Update, number : 0 .. cl'.number])
        /\ gamestates \in Seq([sequence : 1 .. sequence', configs : [Others -> 0 .. MaxSequence + 1],
                               level : 1 .. level])
    <3>1. TypeOK /\ level \in Nat /\ level <= level /\ cl'.number \in Nat /\ cl.number <= cl'.number
      BY <1>1, <1>3 DEF IInv
    <3> QED BY ONLY <3>1, <1>4, WiresWiden
  <2>2. toServer' \in Seq([ack : 0 .. sequence', level : 0 .. level, number : 0 .. cl'.number])
    <3> DEFINE
          Packet == [ack : 0 .. sequence, level : 0 .. level, number : 0 .. cl.number]
          Wide == [ack : 0 .. sequence', level : 0 .. level, number : 0 .. cl'.number]
    <3>1. 0 .. sequence \subseteq 0 .. sequence' /\ 0 .. cl.number \subseteq 0 .. cl'.number
      BY <1>1, <1>3, <1>4
    <3>2. Packet \subseteq Wide /\ toServer' \in Seq(Packet)
      BY <3>1, <1>7
    <3>3. toServer' \in Seq(Wide)
      <4> HIDE DEF Packet, Wide
      <4> QED BY <3>2, SeqMonotonic
    <3> QED BY <3>3
  <2>3. g \in [sequence : 1 .. sequence', configs : [Others -> 0 .. MaxSequence + 1], level : 1 .. level]
    <3>1. Known \in [Others -> 0 .. MaxSequence + 1]
      BY <1>1 DEF Known
    <3>2. sequence' \in 1 .. sequence' /\ level \in 1 .. level
      BY <1>1, <1>2
    <3> QED BY <3>1, <3>2
  <2>4. gamestates' \in Seq([sequence : 1 .. sequence', configs : [Others -> 0 .. MaxSequence + 1],
                             level : 1 .. level])
    <3> DEFINE S == [sequence : 1 .. sequence', configs : [Others -> 0 .. MaxSequence + 1], level : 1 .. level]
    <3>1. gamestates \in Seq(S) /\ g \in S
      BY <2>1, <2>3
    <3>2. Append(gamestates, g) \in Seq(S)
      <4> HIDE DEF S, g
      <4> QED BY <3>1
    <3> QED BY <3>2, <1>3
  <2>5. /\ client \in [sequence : 0 .. sequence', configs : [Others -> 0 .. MaxSequence + 1],
                       level : 0 .. level, number : 0 .. cl'.number]
        /\ other \in [Others -> [state : {"free", "connected", "announced"},
                                 config : 0 .. MaxSequence + 1, at : 0 .. sequence']]
    <3>1. 0 .. sequence \subseteq 0 .. sequence' /\ 0 .. cl.number \subseteq 0 .. cl'.number
      BY <1>1, <1>3, <1>4
    <3>2. /\ client \in [sequence : 0 .. sequence, configs : [Others -> 0 .. MaxSequence + 1],
                         level : 0 .. level, number : 0 .. cl.number]
          /\ other \in [Others -> [state : {"free", "connected", "announced"},
                                   config : 0 .. MaxSequence + 1, at : 0 .. sequence]]
      BY DEF IInv, TypeOK
    <3> QED BY ONLY <3>1, <3>2
  <2>6. sequence' \in 0 .. MaxSequence /\ level \in 1 .. MaxLevel /\ Update' = Update
    BY <1>1, <1>2 DEF Update
  <2> QED BY <1>2, <1>3, <2>1, <2>2, <2>4, <2>5, <2>6 DEF TypeOK
<1>9. LevelsInOrder'
  <2>1. \A k \in 1 .. Len(toServer') :
          toServer'[k].level <= client.level /\ toServer'[k].ack <= client.sequence
    <3>1. \A k \in 1 .. Len(toServer) :
            toServer[k].level <= client.level /\ toServer[k].ack <= client.sequence
      BY DEF IInv, LevelsInOrder
    <3> QED BY ONLY <3>1, <1>7
  <2>2. \A j, k \in 1 .. Len(gamestates') : j < k =>
          gamestates'[j].level < gamestates'[k].level /\ gamestates'[j].sequence <= gamestates'[k].sequence
    <3>1. ASSUME NEW j \in 1 .. Len(gamestates'), NEW k \in 1 .. Len(gamestates'), j < k
          PROVE  gamestates'[j].level < gamestates'[k].level /\ gamestates'[j].sequence <= gamestates'[k].sequence
      <4>1. j \in 1 .. Len(gamestates)
        BY <1>5, <3>1
      <4>2. CASE k = Len(gamestates) + 1
        <5>1. /\ gamestates'[j] = gamestates[j] /\ gamestates'[k] = g
              /\ gamestates[j].sequence \in 1 .. sequence /\ gamestates[j].level < level
          BY <4>1, <4>2, <1>5, <1>6
        <5>2. g.level = level /\ g.sequence = sequence' /\ sequence \in Nat
          BY <1>1
        <5> QED BY ONLY <5>1, <5>2, <1>4
      <4>3. CASE k \in 1 .. Len(gamestates)
        BY <4>1, <4>3, <1>5, <3>1 DEF IInv, LevelsInOrder
      <4> QED BY <4>2, <4>3, <1>5
    <3> QED BY <3>1
  <2>3. \A j \in 1 .. Len(gamestates') :
          client.level < gamestates'[j].level /\ client.sequence <= gamestates'[j].sequence
    <3>1. client.level < level /\ client.sequence <= sequence'
      BY <1>1, <1>4 DEF IInv, LevelsInOrder
    <3>2. \A j \in 1 .. Len(gamestates) :
            client.level < gamestates[j].level /\ client.sequence <= gamestates[j].sequence
      BY DEF IInv, LevelsInOrder
    <3> QED BY ONLY <3>1, <3>2, <1>5
  <2>4. cl'.gamestate # 0 /\ client' = client
    BY <1>3
  <2> QED BY ONLY <2>1, <2>2, <2>3, <2>4 DEF LevelsInOrder
<1>10. GameStateReceived' /\ AcknowledgeBacked' /\ RoomLeft'
  <2>1. Len(gamestates) + 1 \in 1 .. Len(gamestates') /\ gamestates'[Len(gamestates) + 1].sequence = sequence'
    BY <1>5
  <2>2. cl'.number # 0 /\ sequence' > 0
    BY <1>1, <1>2, <1>3
  <2> QED BY <2>1, <2>2, <1>3, <1>4 DEF GameStateReceived, AcknowledgeBacked, RoomLeft
<1>11. GameStatesTrue'
  <2>1. ASSUME NEW j \in 1 .. Len(gamestates'), NEW x \in Others, Announced(x),
               other[x].at <= gamestates'[j].sequence
        PROVE  gamestates'[j].configs[x] = other[x].config
    <3>1. CASE j = Len(gamestates) + 1
      BY <3>1, <2>1, <1>5 DEF Known, Announced
    <3>2. CASE j \in 1 .. Len(gamestates)
      BY <3>2, <2>1, <1>5 DEF IInv, GameStatesTrue
    <3> QED BY <3>1, <3>2, <1>5
  <2> QED BY <2>1 DEF GameStatesTrue, Announced
<1>12. MessagesTrue'
  <2>1. ASSUME NEW us, MessageTrue(us) PROVE MessageTrue(us)'
    <3>1. PICK lo \in 0 .. sequence, hi \in 0 .. sequence :
            /\ lo <= hi /\ Tells(us, lo, hi) /\ lo <= client.sequence
            /\ \A j \in 1 .. Len(gamestates) : hi <= gamestates[j].sequence
      BY <2>1 DEF MessageTrue
    <3>2. \A j \in 1 .. Len(gamestates') : hi <= gamestates'[j].sequence
      <4>1. g.sequence = sequence' /\ sequence \in Nat
        BY <1>1
      <4>2. hi <= sequence'
        BY <4>1, <1>4
      <4>3. \A j \in 1 .. Len(gamestates) : hi <= gamestates[j].sequence
        BY <3>1
      <4> QED BY ONLY <4>1, <4>2, <4>3, <1>5
    <3>3. Tells(us, lo, hi)'
      BY <3>1 DEF Tells, Announced
    <3>4. lo \in 0 .. sequence' /\ hi \in 0 .. sequence'
      BY <1>1, <1>4
    <3> QED BY <3>1, <3>2, <3>3, <3>4 DEF MessageTrue
  <2> QED BY <2>1 DEF IInv, MessagesTrue
<1>13. NamesCurrent'
  BY DEF IInv, NamesCurrent
<1> QED BY <1>2, <1>8, <1>9, <1>10, <1>11, <1>12, <1>13 DEF IInv

\* SV_PacketEvent and SV_ExecuteClientMessage.
LEMMA PacketsArriveKeeps ==
  ASSUME ConfigAssumption, IInv, PacketsArrive PROVE IInv'
<1>1. PICK i \in 1 .. Len(toServer) : PacketEvent(i)
  BY DEF PacketsArrive
<1> DEFINE c == Acknowledged(toServer[i])
<1>2. /\ c \in [state : {"connected", "primed", "active", "zombie"}, gamestate : 0 .. 2,
                number : Nat, ack : 0 .. sequence]
      /\ c.state = cl.state /\ c.gamestate = cl.gamestate /\ c.number = cl.number
      /\ c.ack = cl.ack \/ c.ack <= client.sequence
  BY AcknowledgedBacked
<1>3. /\ toServer' = SubSeq(toServer, i + 1, Len(toServer))
      /\ UNCHANGED <<other, level, client, toClient>>
      /\ IF c.state = "zombie" THEN cl' = c /\ UNCHANGED <<sequence, changed, gamestates>>
         ELSE ExecuteClientMessage(c, toServer[i])
  BY <1>1 DEF PacketEvent
<1> HIDE DEF c
<1>4. CASE cl' = c /\ UNCHANGED <<sequence, changed, gamestates>>
  <2>1. cl'.gamestate = 2 => gamestates = << >>
    BY <1>2, <1>4 DEF IInv, GameStateReceived
  <2> QED BY <1>2, <1>3, <1>4, <2>1, AcknowledgeStepKeeps
<1>5. CASE c.gamestate = 0 /\ c.state # "zombie" /\ SendClientGameState(c)
  BY <1>2, <1>3, <1>5, GameStateStepKeeps
<1>6. CASE /\ c.state # "zombie" /\ toServer[i].level = level
           /\ \E state \in {c.state} \cup (IF c.state = "primed" THEN {"active"} ELSE {}) :
                cl' = [c EXCEPT !.gamestate = 2, !.state = state]
           /\ UNCHANGED <<sequence, changed, gamestates>>
  <2>1. /\ cl' \in [state : {"connected", "primed", "active", "zombie"}, gamestate : 0 .. 2,
                    number : Nat, ack : 0 .. sequence]
        /\ cl'.number = c.number /\ cl'.ack = c.ack /\ cl'.gamestate = 2
    <3>1. PICK state \in {"connected", "primed", "active", "zombie"} :
            cl' = [c EXCEPT !.gamestate = 2, !.state = state]
      BY <1>2, <1>6
    <3>2. cl' = [state |-> state, gamestate |-> 2, number |-> c.number, ack |-> c.ack]
      BY <1>2, <3>1
    <3>3. c.number \in Nat /\ c.ack \in 0 .. sequence /\ 2 \in 0 .. 2
      BY <1>2
    <3> QED BY ONLY <3>2, <3>3
  <2>2. gamestates = << >>
    <3>1. client.level \in 0 .. level /\ level \in Nat /\ toServer[i].level <= client.level
      <4>1. client.level \in 0 .. level /\ level \in Nat
        BY DEF IInv, TypeOK
      <4>2. toServer[i].level <= client.level
        BY DEF IInv, LevelsInOrder
      <4> QED BY ONLY <4>1, <4>2
    <3>2. client.level = level
      BY <3>1, <1>6
    <3>3. \A j \in 1 .. Len(gamestates) : client.level < gamestates[j].level /\ gamestates[j].level \in 1 .. level
      BY Wires DEF IInv, LevelsInOrder
    <3>4. \A j \in 1 .. Len(gamestates) : FALSE
      BY <3>1, <3>2, <3>3
    <3>5. Len(gamestates) = 0
      BY <3>4, Wires DEF IInv
    <3> QED BY <3>5, Wires, EmptySeq DEF IInv
  <2>3. /\ cl'.number = cl.number /\ (cl'.ack = cl.ack \/ cl'.ack <= client.sequence)
        /\ ~(cl'.state # "zombie" /\ cl'.gamestate = 0)
    BY <1>2, <2>1
  <2>4. /\ toServer' = SubSeq(toServer, i + 1, Len(toServer))
        /\ UNCHANGED <<sequence, changed, other, level, client, toClient, gamestates>>
    BY <1>3, <1>6
  <2> QED BY ONLY ConfigAssumption, IInv, i \in 1 .. Len(toServer), <2>1, <2>2, <2>3, <2>4,
                  AcknowledgeStepKeeps
<1> QED BY <1>3, <1>4, <1>5, <1>6 DEF ExecuteClientMessage

-----------------------------------------------------------------------------
(* The client.                                                             *)

\* A step in which the client moves on and is told nothing wrong keeps the invariant.
LEMMA ClientStepKeeps ==
  ASSUME IInv, UNCHANGED <<sequence, changed, other, cl, level, toServer>>,
         client' \in [sequence : 0 .. sequence, configs : [Others -> 0 .. MaxSequence + 1],
                      level : 0 .. level, number : 0 .. cl.number],
         client.sequence <= client'.sequence, client.level <= client'.level,
         toClient' \in Seq([updates : SUBSET Update, number : 0 .. cl.number]),
         \A i \in 1 .. Len(toClient') : \E j \in 1 .. Len(toClient) : toClient'[i] = toClient[j],
         gamestates' = gamestates \/ (gamestates # << >> /\ gamestates' = Tail(gamestates)),
         \A i \in 1 .. Len(gamestates') :
           client'.level < gamestates'[i].level /\ client'.sequence <= gamestates'[i].sequence,
         cl.state # "zombie" /\ cl.gamestate = 0 => client'.level < level,
         AcknowledgeBacked', NamesCurrent'
  PROVE  IInv'
<1>1. /\ client.sequence \in Nat /\ client'.sequence \in Nat /\ client.level \in Nat /\ client'.level \in Nat
      /\ level \in Nat /\ sequence \in Nat
  BY DEF IInv, TypeOK
<1> DEFINE S == [sequence : 1 .. sequence, configs : [Others -> 0 .. MaxSequence + 1], level : 1 .. level]
<1>2. /\ gamestates' \in Seq(S)
      /\ \A i, j \in 1 .. Len(gamestates') : i < j =>
           \E k, l \in 1 .. Len(gamestates) :
             k < l /\ gamestates'[i] = gamestates[k] /\ gamestates'[j] = gamestates[l]
      /\ \A i \in 1 .. Len(gamestates') : \E k \in 1 .. Len(gamestates) : gamestates'[i] = gamestates[k]
  <2>1. gamestates \in Seq(S)
    BY DEF IInv, TypeOK
  <2> HIDE DEF S
  <2>2. CASE gamestates' = gamestates
    BY <2>1, <2>2
  <2>3. CASE gamestates # << >> /\ gamestates' = Tail(gamestates)
    <3>1. /\ Tail(gamestates) \in Seq(S) /\ Len(Tail(gamestates)) = Len(gamestates) - 1
          /\ \A i \in 1 .. Len(Tail(gamestates)) : Tail(gamestates)[i] = gamestates[i + 1]
      BY <2>1, <2>3, HeadTailProperties
    <3>2. Len(gamestates) \in Nat
      BY <2>1, LenProperties
    <3>3. \A i \in 1 .. Len(Tail(gamestates)) : i + 1 \in 1 .. Len(gamestates)
      BY <3>1, <3>2
    <3>4. ASSUME NEW i \in 1 .. Len(gamestates'), NEW j \in 1 .. Len(gamestates'), i < j
          PROVE  \E k, l \in 1 .. Len(gamestates) :
                   k < l /\ gamestates'[i] = gamestates[k] /\ gamestates'[j] = gamestates[l]
      <4>1. i + 1 < j + 1
        BY <3>4
      <4> QED BY <4>1, <3>1, <3>3, <2>3
    <3> QED BY <3>1, <3>3, <3>4, <2>3
  <2> QED BY <2>2, <2>3
<1>3. TypeOK'
  <2>1. Update' = Update
    BY DEF Update
  <2> QED BY <1>2, <2>1 DEF IInv, TypeOK
<1>4. LevelsInOrder'
  <2>1. \A i, j \in 1 .. Len(gamestates') : i < j =>
          gamestates'[i].level < gamestates'[j].level /\ gamestates'[i].sequence <= gamestates'[j].sequence
    <3>1. \A i, j \in 1 .. Len(gamestates) : i < j =>
            gamestates[i].level < gamestates[j].level /\ gamestates[i].sequence <= gamestates[j].sequence
      BY DEF IInv, LevelsInOrder
    <3> QED BY ONLY <3>1, <1>2
  <2>2. cl.state # "zombie" /\ cl.gamestate = 0 =>
          client'.level < level /\ \A i \in 1 .. Len(gamestates') : gamestates'[i].level < level
    <3>1. cl.state # "zombie" /\ cl.gamestate = 0 =>
            \A i \in 1 .. Len(gamestates) : gamestates[i].level < level
      BY DEF IInv, LevelsInOrder
    <3>2. cl.state # "zombie" /\ cl.gamestate = 0 => client'.level < level
      OBVIOUS
    <3> QED BY ONLY <3>1, <3>2, <1>2
  <2>3. ASSUME NEW i \in 1 .. Len(toServer)
        PROVE  toServer[i].level <= client'.level /\ toServer[i].ack <= client'.sequence
    <3>1. toServer[i].level \in Nat /\ toServer[i].ack \in Nat
      <4>1. TypeOK
        BY DEF IInv
      <4>2. toServer[i] \in [ack : 0 .. sequence, level : 0 .. level, number : 0 .. cl.number]
        BY ONLY <4>1, i \in 1 .. Len(toServer), Wires
      <4> QED BY <4>2, <1>1
    <3>2. toServer[i].level <= client.level /\ toServer[i].ack <= client.sequence
      BY DEF IInv, LevelsInOrder
    <3> QED BY <3>1, <3>2, <1>1
  <2> QED BY <2>1, <2>2, <2>3 DEF LevelsInOrder
<1>5. GameStateReceived' /\ RoomLeft'
  <2>1. cl.gamestate = 2 => gamestates' = << >>
    BY DEF IInv, GameStateReceived
  <2> QED BY <2>1 DEF IInv, GameStateReceived, RoomLeft
<1>6. RingKept' /\ GameStatesTrue'
  <2>1. RingKept'
    BY DEF IInv, RingKept, Announced
  <2>2. ASSUME NEW i \in 1 .. Len(gamestates'), NEW x \in Others, other[x].state = "announced",
               other[x].at <= gamestates'[i].sequence
        PROVE  gamestates'[i].configs[x] = other[x].config
    <3>1. PICK k \in 1 .. Len(gamestates) : gamestates'[i] = gamestates[k]
      BY <1>2
    <3> QED BY <2>2, <3>1 DEF IInv, GameStatesTrue, Announced
  <2>3. GameStatesTrue'
    BY <2>2 DEF GameStatesTrue, Announced
  <2> QED BY <2>1, <2>3
<1>7. MessagesTrue'
  <2>1. ASSUME NEW us, MessageTrue(us) PROVE MessageTrue(us)'
    <3>1. PICK lo \in 0 .. sequence, hi \in 0 .. sequence :
            /\ lo <= hi /\ Tells(us, lo, hi) /\ lo <= client.sequence
            /\ \A j \in 1 .. Len(gamestates) : hi <= gamestates[j].sequence
      BY <2>1 DEF MessageTrue
    <3>2. \A j \in 1 .. Len(gamestates') : hi <= gamestates'[j].sequence
      BY <3>1, <1>2
    <3>3. Tells(us, lo, hi)'
      BY <3>1 DEF Tells, Announced
    <3>4. lo <= client'.sequence
      BY <3>1, <1>1
    <3> QED BY <3>1, <3>2, <3>3, <3>4 DEF MessageTrue
  <2> QED BY <2>1 DEF IInv, MessagesTrue
<1> QED BY <1>3, <1>4, <1>5, <1>6, <1>7 DEF IInv

\* What the client makes of a message that is true.
LEMMA UpdatedRight ==
  ASSUME IInv, NEW us \in SUBSET Update, MessageTrue(us)
  PROVE  /\ Updated(us) \in [sequence : 0 .. sequence, configs : [Others -> 0 .. MaxSequence + 1],
                             level : 0 .. level, number : 0 .. cl.number]
         /\ client.sequence <= Updated(us).sequence /\ Updated(us).level = client.level
         /\ \A j \in 1 .. Len(gamestates) : Updated(us).sequence <= gamestates[j].sequence
         /\ \A x \in Others : Announced(x) /\ other[x].at <= Updated(us).sequence =>
              Updated(us).configs[x] = other[x].config
<1>1. PICK lo \in 0 .. sequence, hi \in 0 .. sequence :
        /\ lo <= hi /\ Tells(us, lo, hi) /\ lo <= client.sequence
        /\ \A j \in 1 .. Len(gamestates) : hi <= gamestates[j].sequence
  BY DEF MessageTrue
<1>2. /\ sequence \in Nat /\ client.sequence \in 0 .. sequence /\ client.configs \in [Others -> 0 .. MaxSequence + 1]
      /\ client \in [sequence : 0 .. sequence, configs : [Others -> 0 .. MaxSequence + 1],
                     level : 0 .. level, number : 0 .. cl.number]
  BY DEF IInv, TypeOK
<1> DEFINE
      new == {u \in us : u.number > client.sequence}
      numbers == {client.sequence} \cup {u.number : u \in new}
      top == IF hi > client.sequence THEN hi ELSE client.sequence
      configs == [x \in Others |->
        IF \E u \in new : u.about = x THEN (CHOOSE u \in new : u.about = x).config
        ELSE client.configs[x]]
<1>3. \A u \in us : u.number \in lo + 1 .. hi /\ u.config \in 0 .. MaxSequence + 1
  BY <1>1 DEF Tells, Update
<1>4. top \in 0 .. sequence /\ client.sequence <= top
  BY <1>1, <1>2
<1>5. Max(numbers) = top
  <2>1. numbers \subseteq Int
    BY <1>2, <1>3
  <2>2. \A k \in numbers : k <= top
    BY <1>2, <1>3
  <2>3. top \in numbers
    <3>1. CASE hi > client.sequence
      <4>1. hi \in lo + 1 .. hi
        BY <3>1, <1>1, <1>2
      <4>2. PICK u \in us : u.number = hi
        BY <4>1, <1>1 DEF Tells
      <4>3. u \in new
        BY <4>2, <3>1
      <4> QED BY <4>2, <4>3, <3>1
    <3>2. CASE ~(hi > client.sequence)
      BY <3>2
    <3> QED BY <3>1, <3>2
  <2> HIDE DEF numbers, top
  <2> QED BY <2>1, <2>2, <2>3, GreatestIsMax
<1>6. Updated(us) = [client EXCEPT !.sequence = top, !.configs = configs]
  <2>1. Updated(us) = [client EXCEPT !.sequence = Max(numbers), !.configs = configs]
    BY <1>2 DEF Updated
  <2> HIDE DEF numbers, top, configs
  <2> QED BY <2>1, <1>5
<1>7. configs \in [Others -> 0 .. MaxSequence + 1]
  <2>1. ASSUME NEW x \in Others, \E u \in new : u.about = x
        PROVE  (CHOOSE u \in new : u.about = x).config \in 0 .. MaxSequence + 1
    <3>1. (CHOOSE u \in new : u.about = x) \in us
      BY <2>1
    <3> QED BY <3>1, <1>3
  <2> QED BY <2>1, <1>2
<1>8. /\ Updated(us) = [sequence |-> top, configs |-> configs, level |-> client.level, number |-> client.number]
      /\ client.level \in 0 .. level /\ client.number \in 0 .. cl.number
  <2> HIDE DEF top, configs
  <2> QED BY <1>6, <1>2
<1>9. ASSUME NEW x \in Others, Announced(x), other[x].at <= top
      PROVE  configs[x] = other[x].config
  <2>1. other[x].at \in Nat
    BY <1>2 DEF IInv, TypeOK
  <2>2. CASE \E u \in new : u.about = x
    <3>1. (CHOOSE u \in new : u.about = x) \in us /\ (CHOOSE u \in new : u.about = x).about = x
      BY <2>2
    <3>2. other[x].at <= hi
      <4>1. hi > client.sequence
        BY <2>2, <1>3, <1>2
      <4> QED BY <4>1, <1>9
    <3>3. (CHOOSE u \in new : u.about = x).config = other[x].config
      BY <3>1, <3>2, <1>9, <1>1 DEF Tells
    <3> QED BY <2>2, <3>3
  <2>3. CASE ~\E u \in new : u.about = x
    <3>1. configs[x] = client.configs[x]
      BY <2>3
    <3>2. other[x].at <= client.sequence
      <4>1. SUFFICES ASSUME other[x].at > client.sequence PROVE FALSE
        BY <2>1, <1>2
      <4>2. lo < other[x].at /\ other[x].at <= hi
        BY <4>1, <1>1, <1>2, <1>9, <2>1
      <4>3. PICK u \in us : u.number = other[x].at /\ u.about = x
        BY <4>2, <1>9, <1>1 DEF Tells
      <4> QED BY <4>1, <4>3, <2>3
    <3> QED BY <3>1, <3>2, <1>9 DEF IInv, NamesCurrent, Announced
  <2> QED BY <2>2, <2>3
<1>10. \A j \in 1 .. Len(gamestates) : top <= gamestates[j].sequence
  <2>1. \A j \in 1 .. Len(gamestates) : client.sequence <= gamestates[j].sequence
    BY DEF IInv, LevelsInOrder
  <2> QED BY <2>1, <1>1
<1> HIDE DEF top, configs
<1> QED BY <1>4, <1>7, <1>8, <1>9, <1>10

\* The client reads a message.
LEMMA MessagesArriveKeeps ==
  ASSUME IInv, MessagesArrive PROVE IInv'
<1>1. PICK i \in 1 .. Len(toClient) : ClientReads(i)
  BY DEF MessagesArrive
<1> DEFINE c == Updated(toClient[i].updates)
<1>2. toClient[i].updates \in SUBSET Update /\ toClient[i].number \in 0 .. cl.number
      /\ MessageTrue(toClient[i].updates)
  BY Wires DEF IInv, MessagesTrue
<1>3. /\ c \in [sequence : 0 .. sequence, configs : [Others -> 0 .. MaxSequence + 1],
                level : 0 .. level, number : 0 .. cl.number]
      /\ client.sequence <= c.sequence /\ c.level = client.level
      /\ \A j \in 1 .. Len(gamestates) : c.sequence <= gamestates[j].sequence
      /\ \A x \in Others : Announced(x) /\ other[x].at <= c.sequence => c.configs[x] = other[x].config
  BY <1>2, UpdatedRight
<1>4. /\ client' = [c EXCEPT !.number = toClient[i].number]
      /\ toClient' = SubSeq(toClient, i + 1, Len(toClient))
      /\ UNCHANGED <<sequence, changed, other, cl, level, toServer, gamestates>>
  BY <1>1 DEF ClientReads, serverVars
<1> HIDE DEF c
<1>5. /\ client' \in [sequence : 0 .. sequence, configs : [Others -> 0 .. MaxSequence + 1],
                      level : 0 .. level, number : 0 .. cl.number]
      /\ client'.sequence = c.sequence /\ client'.configs = c.configs /\ client'.level = client.level
  BY <1>2, <1>3, <1>4
<1>6. /\ toClient' \in Seq([updates : SUBSET Update, number : 0 .. cl.number])
      /\ \A k \in 1 .. Len(toClient') : \E j \in 1 .. Len(toClient) : toClient'[k] = toClient[j]
  <2> DEFINE S == [updates : SUBSET Update, number : 0 .. cl.number]
  <2>1. toClient \in Seq(S)
    BY DEF IInv, TypeOK
  <2> HIDE DEF S
  <2>2. /\ toClient' \in Seq(S)
        /\ \A k \in 1 .. Len(toClient') : \E j \in 1 .. Len(toClient) : toClient'[k] = toClient[j]
    BY <2>1, <1>4, RestWas
  <2> QED BY <2>2 DEF S
<1>7. /\ client.sequence \in Nat /\ client'.sequence \in Nat /\ cl.ack \in Nat /\ client.level \in Nat
      /\ client.sequence <= client'.sequence /\ client.level <= client'.level
  BY <1>3, <1>5 DEF IInv, TypeOK
<1>8. AcknowledgeBacked'
  BY <1>4, <1>7 DEF IInv, AcknowledgeBacked
<1>9. NamesCurrent'
  BY <1>3, <1>4, <1>5 DEF NamesCurrent, Announced
<1>10. \A j \in 1 .. Len(gamestates') :
         client'.level < gamestates'[j].level /\ client'.sequence <= gamestates'[j].sequence
  BY <1>3, <1>4, <1>5 DEF IInv, LevelsInOrder
<1>11. cl.state # "zombie" /\ cl.gamestate = 0 => client'.level < level
  BY <1>5 DEF IInv, LevelsInOrder
<1>12. gamestates' = gamestates /\ UNCHANGED <<sequence, changed, other, cl, level, toServer>>
  BY <1>4
<1> QED BY ONLY IInv, <1>5, <1>6, <1>7, <1>8, <1>9, <1>10, <1>11, <1>12, ClientStepKeeps

\* The client takes a gamestate.
LEMMA ClientTakesGameStateKeeps ==
  ASSUME IInv, ClientTakesGameState PROVE IInv'
<1> DEFINE
      g == Head(gamestates)
      S == [sequence : 1 .. sequence, configs : [Others -> 0 .. MaxSequence + 1], level : 1 .. level]
<1>1. gamestates # << >> /\ gamestates \in Seq(S)
  BY DEF ClientTakesGameState, IInv, TypeOK
<1>2. /\ Len(gamestates) \in Nat \ {0} /\ g = gamestates[1] /\ g \in S
      /\ Len(Tail(gamestates)) = Len(gamestates) - 1
      /\ \A i \in 1 .. Len(Tail(gamestates)) : Tail(gamestates)[i] = gamestates[i + 1]
  <2> HIDE DEF S
  <2>1. Head(gamestates) = gamestates[1] /\ Head(gamestates) \in S
    BY <1>1, HeadTailProperties
  <2>2. /\ Len(Tail(gamestates)) = Len(gamestates) - 1
        /\ \A i \in 1 .. Len(Tail(gamestates)) : Tail(gamestates)[i] = gamestates[i + 1]
    BY <1>1, HeadTailProperties
  <2>3. Len(gamestates) \in Nat \ {0}
    BY <1>1, EmptySeq
  <2> QED BY <2>1, <2>2, <2>3
<1>3. /\ client' = [client EXCEPT !.sequence = g.sequence, !.configs = g.configs, !.level = g.level]
      /\ gamestates' = Tail(gamestates)
      /\ UNCHANGED <<sequence, changed, other, cl, level, toClient, toServer>>
  BY DEF ClientTakesGameState, serverVars
<1>4. /\ g.sequence \in 1 .. sequence /\ g.configs \in [Others -> 0 .. MaxSequence + 1]
      /\ g.level \in 1 .. level /\ sequence \in Nat /\ level \in Nat /\ 1 \in 1 .. Len(gamestates)
      /\ client \in [sequence : 0 .. sequence, configs : [Others -> 0 .. MaxSequence + 1],
                     level : 0 .. level, number : 0 .. cl.number]
      /\ cl.ack \in Nat
  <2>1. /\ sequence \in Nat /\ level \in Nat /\ cl.ack \in Nat
        /\ client \in [sequence : 0 .. sequence, configs : [Others -> 0 .. MaxSequence + 1],
                       level : 0 .. level, number : 0 .. cl.number]
    BY DEF IInv, TypeOK
  <2>2. /\ g.sequence \in 1 .. sequence /\ g.configs \in [Others -> 0 .. MaxSequence + 1]
        /\ g.level \in 1 .. level
    <3> HIDE DEF g
    <3> QED BY <1>2
  <2>3. 1 \in 1 .. Len(gamestates)
    BY <1>2
  <2> QED BY ONLY <2>1, <2>2, <2>3
<1>5. client.level < g.level /\ client.sequence <= g.sequence
  BY <1>2, <1>4 DEF IInv, LevelsInOrder
<1> HIDE DEF g, S
<1>6. /\ client' \in [sequence : 0 .. sequence, configs : [Others -> 0 .. MaxSequence + 1],
                      level : 0 .. level, number : 0 .. cl.number]
      /\ client'.sequence = g.sequence /\ client'.configs = g.configs /\ client'.level = g.level
      /\ client.sequence <= client'.sequence /\ client.level <= client'.level
  <2>1. g.sequence \in 0 .. sequence /\ g.level \in 0 .. level /\ client.level <= g.level
    BY <1>4, <1>5
  <2> QED BY <2>1, <1>3, <1>4, <1>5
<1>7. ASSUME NEW i \in 1 .. Len(gamestates')
      PROVE  client'.level < gamestates'[i].level /\ client'.sequence <= gamestates'[i].sequence
  <2>1. i + 1 \in 1 .. Len(gamestates) /\ gamestates'[i] = gamestates[i + 1] /\ 1 < i + 1
    BY <1>2, <1>3
  <2> QED BY <2>1, <1>2, <1>4, <1>6 DEF IInv, LevelsInOrder
<1>8. cl.state # "zombie" /\ cl.gamestate = 0 => client'.level < level
  BY <1>2, <1>4, <1>6 DEF IInv, LevelsInOrder
<1>9. AcknowledgeBacked'
  <2>1. CASE cl.ack <= client.sequence
    BY <2>1, <1>3, <1>4, <1>5, <1>6 DEF AcknowledgeBacked
  <2>2. CASE \E i \in 1 .. Len(gamestates) : gamestates[i].sequence >= cl.ack
    <3>1. PICK i \in 1 .. Len(gamestates) : gamestates[i].sequence >= cl.ack
      BY <2>2
    <3>2. CASE i = 1
      BY <3>1, <3>2, <1>2, <1>3, <1>4, <1>6 DEF AcknowledgeBacked
    <3>3. CASE i # 1
      <4>1. i - 1 \in 1 .. Len(gamestates') /\ gamestates'[i - 1] = gamestates[i]
        BY <3>3, <1>2, <1>3
      <4> QED BY <4>1, <3>1, <1>3 DEF AcknowledgeBacked
    <3> QED BY <3>2, <3>3
  <2> QED BY <2>1, <2>2 DEF IInv, AcknowledgeBacked
<1>10. NamesCurrent'
  BY <1>2, <1>3, <1>4, <1>6 DEF IInv, GameStatesTrue, NamesCurrent, Announced
<1>11. /\ toClient' \in Seq([updates : SUBSET Update, number : 0 .. cl.number])
       /\ \A i \in 1 .. Len(toClient') : \E j \in 1 .. Len(toClient) : toClient'[i] = toClient[j]
  BY <1>3 DEF IInv, TypeOK
<1>12. /\ gamestates # << >> /\ gamestates' = Tail(gamestates)
       /\ UNCHANGED <<sequence, changed, other, cl, level, toServer>>
  BY <1>1, <1>3
<1> QED BY ONLY IInv, <1>6, <1>7, <1>8, <1>9, <1>10, <1>11, <1>12, ClientStepKeeps

\* The client sends a message.
LEMMA ClientSendsKeeps ==
  ASSUME ConfigAssumption, IInv, ClientSends PROVE IInv'
<1> DEFINE
      m == [ack |-> client.sequence, level |-> client.level, number |-> client.number]
      S == [ack : 0 .. sequence, level : 0 .. level, number : 0 .. cl.number]
<1>1. toServer \in Seq(S) /\ m \in S
  BY DEF IInv, TypeOK
<1>2. /\ toServer' = Put(toServer, m)
      /\ UNCHANGED <<sequence, changed, other, cl, level, client, toClient, gamestates>>
  BY DEF ClientSends, serverVars
<1>3. /\ toServer' \in Seq(S)
      /\ \A k \in 1 .. Len(toServer') :
           toServer'[k] = m \/ \E j \in 1 .. Len(toServer) : toServer'[k] = toServer[j]
  <2> HIDE DEF m, S
  <2>1. /\ Put(toServer, m) \in Seq(S)
        /\ \A k \in 1 .. Len(Put(toServer, m)) :
             Put(toServer, m)[k] = m \/ \E j \in 1 .. Len(toServer) : Put(toServer, m)[k] = toServer[j]
    BY ONLY ConfigAssumption, <1>1, PutAdds
  <2>2. toServer' = Put(toServer, m)
    BY <1>2
  <2> QED BY ONLY <2>1, <2>2
<1>4. TypeOK'
  <2>1. Update' = Update
    BY DEF Update
  <2> QED BY <1>2, <1>3, <2>1 DEF IInv, TypeOK
<1>5. LevelsInOrder'
  <2>1. \A k \in 1 .. Len(toServer') :
          toServer'[k].level <= client.level /\ toServer'[k].ack <= client.sequence
    <3>1. m.level <= client.level /\ m.ack <= client.sequence
      BY DEF IInv, TypeOK
    <3> QED BY <3>1, <1>3 DEF IInv, LevelsInOrder
  <2> QED BY <1>2, <2>1 DEF IInv, LevelsInOrder
<1>6. GameStateReceived' /\ AcknowledgeBacked' /\ RoomLeft'
  BY <1>2 DEF IInv, GameStateReceived, AcknowledgeBacked, RoomLeft
<1>7. RingKept' /\ GameStatesTrue' /\ NamesCurrent'
  BY <1>2 DEF IInv, RingKept, GameStatesTrue, NamesCurrent, Announced
<1>8. MessagesTrue'
  <2>1. ASSUME NEW us, MessageTrue(us) PROVE MessageTrue(us)'
    BY <2>1, <1>2, MessageStaysTrue
  <2> QED BY <2>1, <1>2 DEF IInv, MessagesTrue
<1> QED BY <1>4, <1>5, <1>6, <1>7, <1>8 DEF IInv

-----------------------------------------------------------------------------
(* The theorems.                                                           *)

\* At the start nothing is announced, and nothing is under way.
LEMMA InitHolds ==
  ASSUME ConfigAssumption, Init PROVE IInv
<1>1. /\ CacheSize \in Nat \ {0} /\ MaxSequence \in Nat \ {0} /\ MaxLevel \in Nat \ {0}
  BY DEF ConfigAssumption
<1>2. TypeOK
  <2>1. /\ 0 \in 0 .. MaxSequence /\ 0 \in 0 .. MaxSequence + 1 /\ 1 \in 1 .. MaxLevel
        /\ 0 \in 0 .. 0 /\ 0 \in 0 .. 1
    BY <1>1
  <2>2. sequence = 0 /\ level = 1 /\ toClient = << >> /\ toServer = << >> /\ gamestates = << >>
    BY DEF Init
  <2> QED BY <2>1, <2>2 DEF Init, TypeOK
<1>3. RoomLeft /\ GameStateReceived /\ AcknowledgeBacked
  BY <1>1 DEF Init, RoomLeft, GameStateReceived, AcknowledgeBacked
<1>4. RingKept /\ GameStatesTrue /\ MessagesTrue /\ NamesCurrent
  BY DEF Init, RingKept, GameStatesTrue, MessagesTrue, NamesCurrent, Announced
<1>5. LevelsInOrder
  BY DEF Init, LevelsInOrder
<1> QED BY <1>2, <1>3, <1>4, <1>5 DEF IInv

\* Every step keeps the invariant.
LEMMA NextKeeps ==
  ASSUME ConfigAssumption, IInv, [Next]_vars PROVE IInv'
<1>1. CASE Next
  BY <1>1, ConnectKeeps, AnnounceKeeps, RenameKeeps, LeaveKeeps, RenameSelfKeeps, SendClientSnapshotKeeps,
     DropClientKeeps, SpawnServerKeeps, PacketsArriveKeeps, MessagesArriveKeeps,
     ClientTakesGameStateKeeps, ClientSendsKeeps DEF Next
<1>2. CASE UNCHANGED vars
  <2>1. UNCHANGED <<sequence, changed, other, cl, level, client, toClient, toServer, gamestates>>
    BY <1>2 DEF vars, serverVars
  <2>2. TypeOK'
    <3>1. Update' = Update
      BY DEF Update
    <3> QED BY <2>1, <3>1 DEF IInv, TypeOK
  <2>3. LevelsInOrder' /\ GameStateReceived' /\ AcknowledgeBacked' /\ RoomLeft'
    BY <2>1 DEF IInv, LevelsInOrder, GameStateReceived, AcknowledgeBacked, RoomLeft
  <2>4. RingKept' /\ GameStatesTrue' /\ NamesCurrent'
    BY <2>1 DEF IInv, RingKept, GameStatesTrue, NamesCurrent, Announced
  <2>5. MessagesTrue'
    <3>1. ASSUME NEW us, MessageTrue(us) PROVE MessageTrue(us)'
      BY <3>1, <2>1, MessageStaysTrue
    <3> QED BY <3>1, <2>1 DEF IInv, MessagesTrue
  <2> QED BY <2>2, <2>3, <2>4, <2>5 DEF IInv
<1> QED BY <1>1, <1>2

\* The invariant, and with it what is told of the whole behaviour: whatever is lost, late or
\* overtaken, and however small the ring.
THEOREM InvariantHolds ==
  ASSUME ConfigAssumption PROVE Spec => []IInv
<1> QED BY InitHolds, NextKeeps, PTL DEF Spec

\* TypeOK: the acknowledge of a client, its level and what is under way to and from it never
\* exceed what the server has given out.
THEOREM TypesKept ==
  ASSUME ConfigAssumption PROVE Spec => []TypeOK
<1>1. IInv => TypeOK
  BY DEF IInv
<1> QED BY <1>1, InvariantHolds, PTL

\* NamesCurrent: nobody keeps an old name of a client once it has the number of its last
\* change (SV_UpdateConfigData, SV_WriteGameState).
THEOREM NamesStayCurrent ==
  ASSUME ConfigAssumption PROVE Spec => []NamesCurrent
<1>1. IInv => NamesCurrent
  BY DEF IInv
<1> QED BY <1>1, InvariantHolds, PTL

\* AcknowledgeBacked: the changes that SV_UpdateConfigData leaves out are those that the client
\* has, or that a gamestate brings.
THEOREM AcknowledgesBacked ==
  ASSUME ConfigAssumption PROVE Spec => []AcknowledgeBacked
<1>1. IInv => AcknowledgeBacked
  BY DEF IInv
<1> QED BY <1>1, InvariantHolds, PTL

\* GameStateReceived: without downloads, gamestateSent is 2 only after the last gamestate has
\* arrived (SV_ExecuteClientMessage).
THEOREM GameStatesReceived ==
  ASSUME ConfigAssumption PROVE Spec => []GameStateReceived
<1>1. IInv => GameStateReceived
  BY DEF IInv
<1> QED BY <1>1, InvariantHolds, PTL
=============================================================================
