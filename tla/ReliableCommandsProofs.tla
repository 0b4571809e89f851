------------------------ MODULE ReliableCommandsProofs ------------------------
(***************************************************************************)
(* Proofs about the reliable server commands, for every size of the ring   *)
(* and every set of commands.                                              *)
(***************************************************************************)
EXTENDS ReliableCommands, NumberFacts, SequenceTheorems

ClientT == [state : {"connected", "primed", "active", "zombie"}, sequence : Nat, acknowledge : Nat,
            sent : Nat, commands : Ring, delayDrop : BOOLEAN, gamestate : 0 .. 2,
            pledged : SUBSET Nat]

Message == [first : Nat, commands : Seq(Entry), snapshot : BOOLEAN, pledged : SUBSET Nat]
Input == [acknowledge : Nat, key : Entry, level : Nat]
GameState == [sequence : Nat, level : Nat]

-----------------------------------------------------------------------------
(* The invariant.  It is about a client that is not dropped and was never  *)
(* forgiven an acknowledge.  Its parts are stated of any client_t c, of    *)
(* any list of messages from the client, and of any bound b of the ids,    *)
(* as some steps change these twice.                                       *)

Live == cl.state # "zombie" /\ ~forgiven

\* The last number of a message, and what it says: numbers with their commands.
LastOf(m) == m.first + Len(m.commands) - 1
Carried(m) == {<<m.first + k - 1, m.commands[k]>> : k \in 1 .. Len(m.commands)}

\* Number 0 means the empty entry both rings begin with.
Done == executed \cup {<<0, Blank>>}

\* All that was said: executed or in flight.
Said == Done \cup UNION {Carried(toClient[i]) : i \in 1 .. Len(toClient)}

\* The ring of the client_t c agrees with what was said (S) from the number f on, as
\* far as it reaches; beyond what was sent, only a client that plays has commands
\* that may be dropped, and then the ring is not full.  No command has an id over b.
Ringed(c, S, f, b) ==
  /\ c \in ClientT
  /\ f <= c.acknowledge /\ c.acknowledge <= c.sent /\ c.sent <= c.sequence
  /\ c.sequence <= c.acknowledge + MaxCommands + 1
  /\ c.delayDrop \/ c.sequence <= c.acknowledge + MaxCommands
  /\ S \subseteq Nat \X Entry
  /\ \A x \in S : x[1] <= c.sent
  /\ \A x \in S : f <= x[1] /\ c.sequence < x[1] + MaxCommands => x[2] = Slot(c, x[1])
  /\ \A n \in c.sent + 1 .. c.sequence :
       /\ Slot(c, n).id <= b
       /\ Slot(c, n).type = 0 => /\ c.state = "active" /\ c.sequence < c.acknowledge + MaxCommands
                                 /\ Slot(c, n).id \notin c.pledged
  /\ \A id \in c.pledged : id <= b

\* No acknowledge below f will come any more.
Low(in, f) ==
  /\ f <= client.sequence
  /\ \A i \in 1 .. Len(in) : f <= in[i].acknowledge
  /\ \A i \in 1 .. Len(gamestates) : f <= gamestates[i].sequence

RingAgrees(c, in, b) == \E f \in Nat : Low(in, f) /\ Ringed(c, Said, f, b)

\* One number, one command.
Unique(S) == \A x, y \in S : x[1] = y[1] => x = y

\* The client gets the gamestates in order, one for a level.
Levels(c) ==
  /\ client.level <= level
  /\ \A i \in 1 .. Len(gamestates) : client.level < gamestates[i].level /\ gamestates[i].level <= level
  /\ \A i, j \in 1 .. Len(gamestates) : i < j => gamestates[i].level < gamestates[j].level
  /\ c.gamestate = 0 => /\ client.level < level
                        /\ \A i \in 1 .. Len(gamestates) : gamestates[i].level < level

\* Within a level, what the client acknowledges does not fall.
Sorted(in) ==
  /\ \A i, j \in 1 .. Len(in) : i < j =>
       /\ in[i].level <= in[j].level
       /\ in[i].level = in[j].level => in[i].acknowledge <= in[j].acknowledge
  /\ \A i \in 1 .. Len(in) :
       /\ in[i].level <= client.level
       /\ in[i].level = client.level => in[i].acknowledge <= client.sequence

\* A client that plays is in the level of the server, and all it sends is.
Playing(c, in) ==
  c.state = "active" =>
    /\ client.level = level /\ c.acknowledge <= client.sequence
    /\ \A i \in 1 .. Len(in) : in[i].level = level /\ c.acknowledge <= in[i].acknowledge

\* Nobody knows a number that was not sent; 1 is the first.
Bounded(c, in) ==
  /\ client.sequence <= c.sent
  /\ \A i \in 1 .. Len(in) : in[i].acknowledge <= c.sent
  /\ \A i \in 1 .. Len(gamestates) : gamestates[i].sequence <= c.sent
  /\ \A i \in 1 .. Len(toClient) : 1 <= toClient[i].first /\ LastOf(toClient[i]) <= c.sent

\* A message begins no further back than the ring of those before it reaches.
Near ==
  /\ \A i \in 1 .. Len(toClient) : \A x \in Done : x[1] < toClient[i].first + MaxCommands
  /\ \A i, j \in 1 .. Len(toClient) : i < j => LastOf(toClient[i]) < toClient[j].first + MaxCommands

\* What the ring of the client says of a number, and the key of a message of its
\* acknowledge, is what was executed, unless it is too long ago.
Keys(c, in) ==
  /\ \A x \in Done : Slot(client, x[1]) = x[2] \/ x[1] + MaxCommands <= c.sent
  /\ ~overtaken =>
       /\ \E x \in Done : x[1] = client.sequence
       /\ \A i \in 1 .. Len(in) : \/ <<in[i].acknowledge, in[i].key>> \in Done
                                  \/ in[i].acknowledge + MaxCommands <= c.sent

\* All commands up to number n were executed.
Complete(n) == \A k \in 1 .. n : \E x \in executed : x[1] = k

Completed(c, in) ==
  ~overtaken =>
    /\ Complete(client.sequence) /\ Complete(c.acknowledge)
    /\ \A i \in 1 .. Len(in) : Complete(in[i].acknowledge)
    /\ \A i \in 1 .. Len(toClient) : Complete(toClient[i].first - 1)

\* The ids a message carries, and those that are still to be sent.
IdsOf(m) == {m.commands[k].id : k \in 1 .. Len(m.commands)}
PendingOf(c) == {Slot(c, n).id : n \in c.acknowledge + 1 .. c.sequence}

Pledges(c) ==
  ~overtaken /\ ~c.delayDrop =>
    /\ c.pledged \subseteq Ids \cup PendingOf(c)
    /\ snapshot \subseteq Ids
    /\ \A i \in 1 .. Len(toClient) :
         toClient[i].snapshot => toClient[i].pledged \subseteq Ids \cup IdsOf(toClient[i])

Sound(c, in, b) ==
  /\ RingAgrees(c, in, b) /\ Unique(Said)
  /\ Levels(c) /\ Sorted(in) /\ Playing(c, in)
  /\ Bounded(c, in) /\ Near
  /\ Keys(c, in) /\ Completed(c, in) /\ Pledges(c)

IInv ==
  /\ TypeOK /\ cl.sent <= cl.sequence
  /\ Live => Sound(cl, toServer, issued)

-----------------------------------------------------------------------------
(* Sequences and rings.                                                    *)

\* A ring has two places at least.
LEMMA RingSize == MaxCommands \in Nat \ {0} /\ MaxCommands >= 2
BY RingAssumption

\* The slot of a number.
LEMMA SlotEntry ==
  ASSUME NEW c, c.commands \in Ring, NEW n \in Nat
  PROVE  Slot(c, n) \in Entry
<1>1. n % MaxCommands \in 0 .. MaxCommands - 1 BY RingSize, DivMod
<1> QED BY <1>1 DEF Slot, Ring

\* A stretch of the ring as a sequence; an empty one if it ends before it begins.
Stretch(c, n, m) == [k \in 1 .. m |-> Slot(c, n + k)]

\* A stretch holds the entries of its numbers.
LEMMA StretchFacts ==
  ASSUME NEW c, c.commands \in Ring, NEW n \in Nat, NEW m \in Int
  PROVE  /\ Stretch(c, n, m) \in Seq(Entry)
         /\ Len(Stretch(c, n, m)) = IF m < 0 THEN 0 ELSE m
         /\ \A k \in 1 .. m : Stretch(c, n, m)[k] = Slot(c, n + k)
<1> DEFINE s == [k \in 1 .. m |-> Slot(c, n + k)]
<1>1. \A k \in 1 .. m : n + k \in Nat OBVIOUS
<1>2. \A k \in 1 .. m : Slot(c, n + k) \in Entry BY <1>1, SlotEntry
<1> DEFINE Right == /\ s \in Seq(Entry) /\ Len(s) = (IF m < 0 THEN 0 ELSE m)
                    /\ \A k \in 1 .. m : s[k] = Slot(c, n + k)
<1>3. ASSUME m \in Nat PROVE Right
  <2>1. s \in Seq(Entry) BY <1>2, <1>3
  <2>2. Len(s) = m BY <1>3
  <2> QED BY <2>1, <2>2, <1>3
<1>4. ASSUME m \notin Nat PROVE Right
  <2>1. m < 0 BY <1>4
  <2>2. 1 .. m = 1 .. 0 BY <2>1
  <2>3. s = [k \in 1 .. 0 |-> Slot(c, n + k)] BY <2>2
  <2>4. [k \in 1 .. 0 |-> Slot(c, n + k)] \in Seq(Entry) OBVIOUS
  <2>5. Len([k \in 1 .. 0 |-> Slot(c, n + k)]) = 0 OBVIOUS
  <2> QED BY <2>1, <2>3, <2>4, <2>5
<1>5. s = Stretch(c, n, m) BY DEF Stretch
<1> HIDE DEF s
<1>6. Right BY <1>3, <1>4
<1> QED BY <1>5, <1>6

\* What Firm yields: all of a list that is firm, and nothing else.  The recursive
\* function exists, and is right, as there is no least number at which it fails.
LEMMA FirmFacts ==
  ASSUME NEW list \in Seq(Entry)
  PROVE  /\ Firm(list) \in Seq(Entry) /\ Len(Firm(list)) <= Len(list)
         /\ \A k \in 1 .. Len(Firm(list)) :
              Firm(list)[k].type # 0 /\ \E i \in 1 .. Len(list) : list[i] = Firm(list)[k]
         /\ \A i \in 1 .. Len(list) :
              list[i].type # 0 => \E k \in 1 .. Len(Firm(list)) : Firm(list)[k] = list[i]
         /\ (\A i \in 1 .. Len(list) : list[i].type # 0) => Len(Firm(list)) = Len(list)
<1> DEFINE N == Len(list)
<1> DEFINE Step(g, n) == IF n = 0 THEN << >>
                         ELSE IF list[n].type = 0 THEN g[n - 1] ELSE Append(g[n - 1], list[n])
<1> DEFINE IsMoved(g, k) == g = [n \in 0 .. k |-> Step(g, n)]
<1> DEFINE moved == CHOOSE g : IsMoved(g, N)
<1>0. N \in Nat /\ \A i \in 1 .. N : list[i] \in Entry OBVIOUS
<1> HIDE DEF N, Step, IsMoved
<1>1. \E g : IsMoved(g, N)
  <2> DEFINE S == {k \in 0 .. N : ~\E g : IsMoved(g, k)}
  <2>0. N \in 0 .. N BY <1>0
  <2> SUFFICES ASSUME S # {} PROVE FALSE BY <2>0
  <2>1. PICK k \in S : \A l \in S : k <= l
    <3>1. S \subseteq Nat BY <1>0
    <3> HIDE DEF S
    <3> QED BY <3>1, LeastNumber
  <2>2. k \in 0 .. N /\ ~\E g : IsMoved(g, k) OBVIOUS
  <2>3. CASE k = 0
    <3> DEFINE g == [n \in 0 .. 0 |-> << >>]
    <3>1. IsMoved(g, 0) BY DEF IsMoved, Step
    <3> QED BY <3>1, <2>2, <2>3
  <2>4. CASE k # 0
    <3>1. k - 1 \in 0 .. N /\ k - 1 < k BY <2>2, <2>4, <1>0
    <3>2. k - 1 \notin S BY <3>1, <2>1, <2>2
    <3>3. PICK g : IsMoved(g, k - 1) BY <3>1, <3>2
    <3> DEFINE h == [n \in 0 .. k |-> IF n < k THEN g[n] ELSE Step(g, k)]
    <3>4. \A n \in 0 .. k - 1 : g[n] = Step(g, n) BY <3>3 DEF IsMoved
    <3>5. ASSUME NEW n \in 0 .. k PROVE h[n] = Step(h, n)
      <4>1. CASE n = 0
        <5>1. h[0] = g[0] /\ g[0] = << >> BY <3>4, <2>2, <2>4 DEF Step
        <5> QED BY <5>1, <4>1 DEF Step
      <4>2. CASE n # 0 /\ n < k
        <5>1. h[n] = g[n] /\ h[n - 1] = g[n - 1] /\ n \in 0 .. k - 1 BY <4>2, <2>2
        <5>2. g[n] = Step(g, n) BY <5>1, <3>4
        <5> HIDE DEF h
        <5> QED BY <5>1, <5>2, <4>2 DEF Step
      <4>3. CASE n # 0 /\ n = k
        <5>1. h[n] = Step(g, k) /\ h[n - 1] = g[n - 1] BY <4>3, <2>2
        <5> HIDE DEF h
        <5> QED BY <5>1, <4>3 DEF Step
      <4> QED BY <4>1, <4>2, <4>3, <2>2
    <3>6. h = [n \in 0 .. k |-> h[n]] OBVIOUS
    <3>7. IsMoved(h, k)
      <4> HIDE DEF h
      <4> QED BY <3>5, <3>6 DEF IsMoved
    <3> QED BY <3>7, <2>2
  <2> QED BY <2>3, <2>4
<1>2. IsMoved(moved, N) BY <1>1
<1> HIDE DEF moved
<1>3. \A n \in 0 .. N : moved[n] = Step(moved, n) BY <1>2 DEF IsMoved
<1> DEFINE Right(n) ==
      /\ moved[n] \in Seq(Entry) /\ Len(moved[n]) <= n
      /\ \A k \in 1 .. Len(moved[n]) :
           moved[n][k].type # 0 /\ \E i \in 1 .. n : list[i] = moved[n][k]
      /\ \A i \in 1 .. n :
           list[i].type # 0 => \E k \in 1 .. Len(moved[n]) : moved[n][k] = list[i]
      /\ (\A i \in 1 .. n : list[i].type # 0) => Len(moved[n]) = n
<1>4. \A n \in 0 .. N : Right(n)
  <2> DEFINE S == {n \in 0 .. N : ~Right(n)}
  <2> SUFFICES ASSUME S # {} PROVE FALSE OBVIOUS
  <2>1. PICK n \in S : \A l \in S : n <= l
    <3>1. S \subseteq Nat BY <1>0
    <3> HIDE DEF S
    <3> QED BY <3>1, LeastNumber
  <2>2. n \in 0 .. N /\ ~Right(n) OBVIOUS
  <2>3. CASE n = 0
    <3>1. moved[0] = << >> BY <2>2, <2>3, <1>3 DEF Step
    <3>2. Right(0) BY <3>1
    <3> QED BY <3>2, <2>2, <2>3
  <2>4. CASE n # 0
    <3>1. n - 1 \in 0 .. N /\ n - 1 < n /\ n \in 1 .. N /\ n \in Nat BY <2>2, <2>4, <1>0
    <3>2. Right(n - 1)
      <4>1. n - 1 \notin S
        <5> HIDE DEF S
        <5> QED BY <3>1, <2>1, <2>2
      <4> HIDE DEF Right
      <4> QED BY <4>1, <3>1
    <3>3. PICK old : old = moved[n - 1] OBVIOUS
    <3>4. /\ old \in Seq(Entry) /\ Len(old) \in Nat /\ Len(old) <= n - 1
          /\ \A k \in 1 .. Len(old) :
               old[k].type # 0 /\ \E i \in 1 .. n - 1 : list[i] = old[k]
          /\ \A i \in 1 .. n - 1 :
               list[i].type # 0 => \E k \in 1 .. Len(old) : old[k] = list[i]
          /\ (\A i \in 1 .. n - 1 : list[i].type # 0) => Len(old) = n - 1
      BY <3>2, <3>3
    <3>5. list[n] \in Entry BY <3>1, <1>0
    <3>6. PICK new : new = moved[n] OBVIOUS
    <3>7. new = IF list[n].type = 0 THEN old ELSE Append(old, list[n])
      BY <3>1, <3>3, <3>6, <1>3, <2>4 DEF Step
    <3> DEFINE Good == /\ new \in Seq(Entry) /\ Len(new) <= n
                       /\ \A k \in 1 .. Len(new) :
                            new[k].type # 0 /\ \E i \in 1 .. n : list[i] = new[k]
                       /\ \A i \in 1 .. n :
                            list[i].type # 0 => \E k \in 1 .. Len(new) : new[k] = list[i]
                       /\ (\A i \in 1 .. n : list[i].type # 0) => Len(new) = n
    <3>8. ASSUME list[n].type = 0 PROVE Good
      <4>1. new = old BY <3>7, <3>8
      <4>2. \A i \in 1 .. n : i = n \/ i \in 1 .. n - 1 BY <3>1
      <4>3. \A i \in 1 .. n - 1 : i \in 1 .. n BY <3>1
      <4>4. n \in 1 .. n BY <3>1
      <4>5. new \in Seq(Entry) /\ Len(new) <= n BY <4>1, <3>1, <3>4
      <4>6. \A k \in 1 .. Len(new) : new[k].type # 0 /\ \E i \in 1 .. n : list[i] = new[k]
        BY <4>1, <4>3, <3>4
      <4>7. \A i \in 1 .. n : list[i].type # 0 => \E k \in 1 .. Len(new) : new[k] = list[i]
        BY <4>1, <4>2, <3>4, <3>8
      <4>8. (\A i \in 1 .. n : list[i].type # 0) => Len(new) = n BY <4>4, <3>8
      <4> QED BY <4>5, <4>6, <4>7, <4>8
    <3>9. ASSUME list[n].type # 0 PROVE Good
      <4>1. new = Append(old, list[n]) BY <3>7, <3>9
      <4>2. /\ new \in Seq(Entry) /\ Len(new) = Len(old) + 1 /\ new[Len(old) + 1] = list[n]
            /\ \A k \in 1 .. Len(old) : new[k] = old[k]
        BY <4>1, <3>4, <3>5, AppendProperties
      <4>3. \A k \in 1 .. Len(new) : k = Len(old) + 1 \/ k \in 1 .. Len(old) BY <4>2, <3>4
      <4>4. \A i \in 1 .. n : i = n \/ i \in 1 .. n - 1 BY <3>1
      <4>5. \A i \in 1 .. n - 1 : i \in 1 .. n BY <3>1
      <4>6. n \in 1 .. n /\ Len(old) + 1 \in 1 .. Len(new) BY <3>1, <4>2, <3>4
      <4>7. \A k \in 1 .. Len(old) : k \in 1 .. Len(new)
        <5>1. Len(old) \in Nat /\ Len(new) = Len(old) + 1 BY <4>2, <3>4
        <5> QED BY ONLY <5>1
      <4>8. ASSUME NEW k \in 1 .. Len(new)
            PROVE  new[k].type # 0 /\ \E i \in 1 .. n : list[i] = new[k]
        <5>1. CASE k = Len(old) + 1 BY <5>1, <4>2, <4>6, <3>9
        <5>2. CASE k \in 1 .. Len(old)
          <6>1. new[k] = old[k] BY <5>2, <4>2
          <6> QED BY <6>1, <5>2, <4>5, <3>4
        <5> QED BY <5>1, <5>2, <4>3
      <4>9. \A i \in 1 .. n : list[i].type # 0 => \E k \in 1 .. Len(new) : new[k] = list[i]
        BY ONLY <4>2, <4>4, <4>6, <4>7, <3>4
      <4>10. (\A i \in 1 .. n : list[i].type # 0) => Len(new) = n
        BY <4>2, <4>5, <3>4, <3>1
      <4>11. Len(new) <= n BY <4>2, <3>4, <3>1
      <4>12. new \in Seq(Entry) BY <4>2
      <4> QED BY <4>12, <4>8, <4>9, <4>10, <4>11
    <3>10. Good BY <3>8, <3>9
    <3>11. Right(n) BY <3>10, <3>6
    <3> QED BY <3>11, <2>2
  <2> QED BY <2>3, <2>4
<1>5. Firm(list) = moved[N] BY DEF Firm, moved, N, IsMoved, Step
<1>6. Right(N) BY <1>4, <1>0
<1> QED BY <1>5, <1>6 DEF N

\* What sub_5310E0 leaves of the commands not sent yet.
LEMMA KeptFacts ==
  ASSUME NEW c \in ClientT, c.sent <= c.sequence
  PROVE  /\ Kept(c) \in Seq(Entry) /\ Len(Kept(c)) <= c.sequence - c.sent
         /\ \A k \in 1 .. Len(Kept(c)) :
              \E n \in c.sent + 1 .. c.sequence : Kept(c)[k] = Slot(c, n)
         /\ Tight(c) => \A k \in 1 .. Len(Kept(c)) : Kept(c)[k].type # 0
         /\ \A n \in c.sent + 1 .. c.sequence :
              Slot(c, n).type # 0 \/ ~Tight(c) => \E k \in 1 .. Len(Kept(c)) : Kept(c)[k] = Slot(c, n)
         /\ ~Tight(c) \/ (\A n \in c.sent + 1 .. c.sequence : Slot(c, n).type # 0)
              => Len(Kept(c)) = c.sequence - c.sent
<1> DEFINE u == Unsent(c)
<1> DEFINE d == c.sequence - c.sent
<1>1. c.commands \in Ring /\ c.sent \in Nat /\ c.sequence \in Nat /\ d \in Nat BY DEF ClientT
<1>2. u \in Seq(Entry) /\ Len(u) = d /\ \A k \in 1 .. d : u[k] = Slot(c, c.sent + k)
  <2>1. u = Stretch(c, c.sent, d) BY DEF Unsent, Stretch
  <2> HIDE DEF u, d
  <2>2. d \in Int /\ ~(d < 0) BY <1>1
  <2> QED BY <1>1, <2>1, <2>2, StretchFacts
<1>3. \A k \in 1 .. d : c.sent + k \in c.sent + 1 .. c.sequence BY <1>1
<1>4. \A n \in c.sent + 1 .. c.sequence : n - c.sent \in 1 .. d /\ c.sent + (n - c.sent) = n
  BY <1>1
<1>5. \A n \in c.sent + 1 .. c.sequence : u[n - c.sent] = Slot(c, n) BY <1>2, <1>4
<1>6. Kept(c) = IF Tight(c) THEN Firm(u) ELSE u BY DEF Kept
<1> HIDE DEF u, d
<1>7. CASE ~Tight(c)
  <2>1. Kept(c) = u BY <1>6, <1>7
  <2>2. \A k \in 1 .. Len(u) : \E n \in c.sent + 1 .. c.sequence : u[k] = Slot(c, n)
    BY <1>2, <1>3
  <2>3. \A n \in c.sent + 1 .. c.sequence : \E k \in 1 .. Len(u) : u[k] = Slot(c, n)
    BY <1>2, <1>4, <1>5
  <2>4. Len(u) <= d BY <1>1, <1>2
  <2> QED BY <1>2, <1>7, <2>1, <2>2, <2>3, <2>4 DEF d
<1>8. CASE Tight(c)
  <2>1. Kept(c) = Firm(u) BY <1>6, <1>8
  <2>2. /\ Firm(u) \in Seq(Entry) /\ Len(Firm(u)) <= d
        /\ \A k \in 1 .. Len(Firm(u)) :
             Firm(u)[k].type # 0 /\ \E i \in 1 .. d : u[i] = Firm(u)[k]
        /\ \A i \in 1 .. d : u[i].type # 0 => \E k \in 1 .. Len(Firm(u)) : Firm(u)[k] = u[i]
        /\ (\A i \in 1 .. d : u[i].type # 0) => Len(Firm(u)) = d
    BY <1>2, FirmFacts
  <2>3. \A k \in 1 .. Len(Firm(u)) : \E n \in c.sent + 1 .. c.sequence : Firm(u)[k] = Slot(c, n)
    <3>1. \A i \in 1 .. d : \E n \in c.sent + 1 .. c.sequence : u[i] = Slot(c, n)
      BY <1>2, <1>3
    <3>2. ASSUME NEW k \in 1 .. Len(Firm(u))
          PROVE  \E n \in c.sent + 1 .. c.sequence : Firm(u)[k] = Slot(c, n)
      <4>1. PICK i \in 1 .. d : u[i] = Firm(u)[k] BY <2>2
      <4> QED BY <4>1, <3>1
    <3> QED BY <3>2
  <2>4. \A n \in c.sent + 1 .. c.sequence :
          Slot(c, n).type # 0 => \E k \in 1 .. Len(Firm(u)) : Firm(u)[k] = Slot(c, n)
    BY ONLY <2>2, <1>4, <1>5
  <2>5. (\A n \in c.sent + 1 .. c.sequence : Slot(c, n).type # 0) => Len(Firm(u)) = d
    BY <2>2, <1>2, <1>3
  <2> QED BY <1>8, <2>1, <2>2, <2>3, <2>4, <2>5 DEF d
<1> QED BY <1>7, <1>8

\* Removing one place of a list.
LEMMA RemoveAtFacts ==
  ASSUME NEW S, NEW s \in Seq(S), NEW i \in 1 .. Len(s)
  PROVE  /\ RemoveAt(s, i) \in Seq(S) /\ Len(RemoveAt(s, i)) = Len(s) - 1
         /\ \A k \in 1 .. Len(RemoveAt(s, i)) : \E j \in 1 .. Len(s) : RemoveAt(s, i)[k] = s[j]
         /\ \A j \in 1 .. Len(s) :
              j # i => \E k \in 1 .. Len(RemoveAt(s, i)) : RemoveAt(s, i)[k] = s[j]
<1>0. Len(s) \in Nat OBVIOUS
<1> DEFINE a == SubSeq(s, 1, i - 1)
<1> DEFINE b == SubSeq(s, i + 1, Len(s))
<1>1. a \in Seq(S) /\ Len(a) = i - 1 /\ \A k \in 1 .. i - 1 : a[k] = s[k]
  OBVIOUS
<1>2. b \in Seq(S) /\ Len(b) = Len(s) - i /\ \A k \in 1 .. Len(s) - i : b[k] = s[i + k]
  OBVIOUS
<1>3. RemoveAt(s, i) = a \o b BY DEF RemoveAt
<1> HIDE DEF a, b
<1> DEFINE r == a \o b
<1>4. r \in Seq(S) /\ Len(r) = Len(s) - 1
  <2>1. r \in Seq(S) /\ Len(r) = Len(a) + Len(b) BY <1>1, <1>2, ConcatProperties
  <2>2. i \in Int BY <1>0
  <2> HIDE DEF r
  <2> QED BY <1>0, <1>1, <1>2, <2>1, <2>2
<1>5. \A k \in 1 .. Len(s) - 1 : r[k] = IF k <= i - 1 THEN a[k] ELSE b[k - (i - 1)]
  BY <1>0, <1>1, <1>2, ConcatProperties
<1> HIDE DEF r
<1>6. ASSUME NEW k \in 1 .. Len(s) - 1 PROVE r[k] = IF k < i THEN s[k] ELSE s[k + 1]
  <2>1. CASE k < i
    <3>1. k \in 1 .. i - 1 BY <2>1, <1>0
    <3> QED BY <3>1, <2>1, <1>1, <1>5
  <2>2. CASE ~(k < i)
    <3>1. k - (i - 1) \in 1 .. Len(s) - i /\ i + (k - (i - 1)) = k + 1 /\ ~(k <= i - 1)
      BY <2>2, <1>0
    <3> QED BY <3>1, <2>2, <1>2, <1>5
  <2> QED BY <2>1, <2>2
<1>7. \A k \in 1 .. Len(s) - 1 : k \in 1 .. Len(s) /\ k + 1 \in 1 .. Len(s) BY <1>0
<1>8. ASSUME NEW j \in 1 .. Len(s), j # i PROVE \E k \in 1 .. Len(s) - 1 : r[k] = s[j]
  <2>1. CASE j < i
    <3>1. j \in 1 .. Len(s) - 1 BY <2>1, <1>0
    <3> QED BY <3>1, <2>1, <1>6
  <2>2. CASE j > i
    <3>1. j - 1 \in 1 .. Len(s) - 1 /\ ~(j - 1 < i) /\ j - 1 + 1 = j BY <2>2, <1>0
    <3> QED BY <3>1, <1>6
  <2> QED BY <2>1, <2>2, <1>8, <1>0
<1> QED BY <1>3, <1>4, <1>6, <1>7, <1>8 DEF r

\* A ring w made of that of c and a list under the numbers after n: the last commands
\* of the list have their places, each place of the list has one of it, and the numbers
\* before keep theirs as far as the ring reaches.
OnRing(w, c, n, list) ==
  /\ \A k \in 1 .. Len(list) :
       /\ \E j \in 1 .. Len(list) : w[(n + k) % MaxCommands] = list[j]
       /\ Len(list) < k + MaxCommands => w[(n + k) % MaxCommands] = list[k]
  /\ \A p \in 0 .. n :
       n + Len(list) < p + MaxCommands => w[p % MaxCommands] = c.commands[p % MaxCommands]

\* Such is the ring Written makes.
LEMMA WrittenFacts ==
  ASSUME NEW c, c.commands \in Ring, NEW n \in Nat, NEW list \in Seq(Entry)
  PROVE  Written(c, n, list) \in Ring /\ OnRing(Written(c, n, list), c, n, list)
<1> DEFINE w == Written(c, n, list)
<1> DEFINE Here(s) == {k \in 1 .. Len(list) : (n + k) % MaxCommands = s}
<1> DEFINE Top(s) == CHOOSE k \in Here(s) : \A j \in Here(s) : j <= k
<1>0. Len(list) \in Nat /\ MaxCommands \in Nat \ {0} BY RingSize
<1>1. w = [s \in 0 .. MaxCommands - 1 |-> IF Here(s) = {} THEN c.commands[s] ELSE list[Top(s)]]
  BY DEF Written
<1>2. ASSUME NEW s, Here(s) # {} PROVE Top(s) \in Here(s) /\ \A j \in Here(s) : j <= Top(s)
  <2>1. Here(s) \subseteq Nat /\ \A k \in Here(s) : k <= Len(list) BY <1>0
  <2> HIDE DEF Here
  <2>2. \E t \in Here(s) : \A j \in Here(s) : j <= t BY <2>1, <1>0, <1>2, GreatestNumber
  <2> QED BY <2>2
<1>3. \A p \in Nat : p % MaxCommands \in 0 .. MaxCommands - 1 BY <1>0, DivMod
<1>4. w \in Ring
  <2>1. \A s \in 0 .. MaxCommands - 1 : Here(s) # {} => Top(s) \in 1 .. Len(list)
    <3>1. \A s : Here(s) \subseteq 1 .. Len(list) OBVIOUS
    <3> HIDE DEF Here, Top
    <3> QED BY <3>1, <1>2
  <2> HIDE DEF Here, Top
  <2>2. ASSUME NEW s \in 0 .. MaxCommands - 1
        PROVE  (IF Here(s) = {} THEN c.commands[s] ELSE list[Top(s)]) \in Entry
    <3>1. c.commands[s] \in Entry BY DEF Ring
    <3>2. Here(s) # {} => list[Top(s)] \in Entry BY <2>1, ElementOfSeq
    <3> QED BY <3>1, <3>2
  <2> HIDE DEF w
  <2> QED BY <2>2, <1>1 DEF Ring
<1>5. ASSUME NEW k \in 1 .. Len(list)
      PROVE  /\ \E j \in 1 .. Len(list) : w[(n + k) % MaxCommands] = list[j]
             /\ Len(list) < k + MaxCommands => w[(n + k) % MaxCommands] = list[k]
  <2>1. PICK s : s = (n + k) % MaxCommands OBVIOUS
  <2>2. s \in 0 .. MaxCommands - 1
    <3>1. n + k \in Nat BY <1>0
    <3> QED BY ONLY <3>1, <2>1, <1>3
  <2>3. k \in Here(s) BY <2>1
  <2>4. PICK t : t = Top(s) OBVIOUS
  <2>5. t \in Here(s) /\ k <= t
    <3> HIDE DEF Here, Top
    <3> QED BY <2>3, <2>4, <1>2
  <2>6. w[s] = list[t]
    <3> HIDE DEF Here, Top, w
    <3> QED BY <2>2, <2>3, <2>4, <1>1
  <2>7. t \in 1 .. Len(list) /\ (n + t) % MaxCommands = (n + k) % MaxCommands BY <2>1, <2>5
  <2>8. ASSUME Len(list) < k + MaxCommands PROVE t = k
    <3>1. /\ n + t \in Nat /\ n + k \in Nat /\ n + k <= n + t
          /\ n + t < n + k + MaxCommands /\ n + k < n + k + MaxCommands /\ n + k <= n + k
      BY <2>5, <2>7, <2>8, <1>0
    <3>2. n + t = n + k BY ONLY <3>1, <2>7, <1>0, SamePlace
    <3> QED BY <3>2, <2>7
  <2> HIDE DEF w
  <2> QED BY <2>1, <2>6, <2>7, <2>8
<1>6. ASSUME NEW p \in 0 .. n, n + Len(list) < p + MaxCommands
      PROVE  w[p % MaxCommands] = c.commands[p % MaxCommands]
  <2>1. PICK s : s = p % MaxCommands OBVIOUS
  <2>2. s \in 0 .. MaxCommands - 1 BY <2>1, <1>3
  <2>3. ASSUME NEW k \in Here(s) PROVE FALSE
    <3>1. k \in 1 .. Len(list) /\ (n + k) % MaxCommands = p % MaxCommands BY <2>1
    <3>2. /\ p \in Nat /\ n + k \in Nat /\ p < n + k /\ n + k < p + MaxCommands
      BY <3>1, <1>6, <1>0
    <3>3. p % MaxCommands # (n + k) % MaxCommands BY ONLY <3>2, <1>0, PlacesDiffer
    <3> QED BY <3>1, <3>3
  <2>4. Here(s) = {} BY <2>3
  <2> HIDE DEF w, Here
  <2> QED BY <2>1, <2>2, <2>4, <1>1
<1> HIDE DEF w
<1>7. w \in Ring /\ OnRing(w, c, n, list) BY <1>4, <1>5, <1>6 DEF OnRing
<1> QED BY <1>7 DEF w

\* The messages new are those of channel, without the oldest if d is 1, and m.
Pushed(new, channel, m, d) ==
  /\ Len(channel) - d \in Nat
  /\ Len(new) = Len(channel) - d + 1 /\ new[Len(new)] = m
  /\ \A i \in 1 .. Len(channel) - d : i + d \in 1 .. Len(channel) /\ new[i] = channel[i + d]

\* A message on a channel.
LEMMA SentFacts ==
  ASSUME NEW S, NEW channel \in Seq(S), NEW m \in S
  PROVE  /\ Sent(channel, m) \in Seq(S)
         /\ \E d \in {0, 1} : Pushed(Sent(channel, m), channel, m, d)
<1>1. Len(channel) \in Nat /\ WireCap \in Nat \ {0} BY BoundAssumption
<1>2. CASE Len(channel) < WireCap
  <2>1. Sent(channel, m) = Append(channel, m) BY <1>2 DEF Sent
  <2>2. /\ Append(channel, m) \in Seq(S) /\ Len(Append(channel, m)) = Len(channel) + 1
        /\ Append(channel, m)[Len(channel) + 1] = m
        /\ \A i \in 1 .. Len(channel) : Append(channel, m)[i] = channel[i]
    BY AppendProperties
  <2>3. \A i \in 1 .. Len(channel) : i + 0 = i BY <1>1
  <2>4. Len(channel) - 0 = Len(channel) BY <1>1
  <2>5. Pushed(Append(channel, m), channel, m, 0) BY <2>2, <2>3, <2>4, <1>1 DEF Pushed
  <2> QED BY <2>1, <2>2, <2>5
<1>3. CASE ~(Len(channel) < WireCap)
  <2> DEFINE t == Tail(channel)
  <2>1. channel # << >> /\ Len(channel) - 1 \in Nat BY <1>1, <1>3
  <2>2. Sent(channel, m) = Append(t, m) BY <1>3 DEF Sent
  <2>3. t \in Seq(S) /\ Len(t) = Len(channel) - 1 /\ \A i \in 1 .. Len(t) : t[i] = channel[i + 1]
    BY <2>1, HeadTailProperties
  <2> HIDE DEF t
  <2>4. /\ Append(t, m) \in Seq(S) /\ Len(Append(t, m)) = Len(t) + 1
        /\ Append(t, m)[Len(t) + 1] = m /\ \A i \in 1 .. Len(t) : Append(t, m)[i] = t[i]
    BY <2>3, AppendProperties
  <2>5. \A i \in 1 .. Len(t) : i + 1 \in 1 .. Len(channel) BY <1>1, <2>3
  <2>6. Pushed(Append(t, m), channel, m, 1) BY <2>1, <2>3, <2>4, <2>5 DEF Pushed
  <2> QED BY <2>2, <2>4, <2>6
<1> QED BY <1>2, <1>3

\* The messages after the one that arrives.
LEMMA RestFacts ==
  ASSUME NEW S, NEW channel \in Seq(S), NEW i \in 1 .. Len(channel)
  PROVE  LET r == SubSeq(channel, i + 1, Len(channel)) IN
           /\ r \in Seq(S) /\ Len(r) = Len(channel) - i
           /\ \A j \in 1 .. Len(r) : j + i \in 1 .. Len(channel) /\ r[j] = channel[j + i]
<1>1. Len(channel) \in Nat OBVIOUS
<1> DEFINE r == SubSeq(channel, i + 1, Len(channel))
<1>2. r \in Seq(S) /\ Len(r) = Len(channel) - i /\ \A j \in 1 .. Len(channel) - i : r[j] = channel[i + j]
  OBVIOUS
<1>3. \A j \in 1 .. Len(channel) - i : j + i \in 1 .. Len(channel) /\ j + i = i + j BY <1>1
<1> QED BY <1>2, <1>3

-----------------------------------------------------------------------------
(* SV_AddServerCommand.                                                    *)

\* What adding e makes of the client_t c: the commands list after those that were
\* sent, the pledges left, and whether the ring is over full.
Relisted(c, list, over, pledged) ==
  [c EXCEPT !.sequence = c.sent + Len(list), !.commands = Written(c, c.sent, list),
            !.delayDrop = c.delayDrop \/ over, !.pledged = pledged]

\* What the list is made of.
Listing(c, e, list, over, pledged) ==
  /\ list \in Seq(Entry) /\ Len(list) <= c.sequence - c.sent + 1
  /\ over \in BOOLEAN
  /\ over \/ c.sent + Len(list) # c.acknowledge + MaxCommands + 1 \/ Len(list) <= c.sequence - c.sent
  /\ ~Tight(c) \/ (\A n \in c.sent + 1 .. c.sequence : Slot(c, n).type # 0)
       => Len(list) >= c.sequence - c.sent
  /\ \A k \in 1 .. Len(list) :
       /\ \/ list[k] = e \/ list[k] = Disconnect
          \/ \E n \in c.sent + 1 .. c.sequence : list[k] = Slot(c, n)
       /\ list[k].type = 0 => ~Tight(c)
  /\ pledged \subseteq c.pledged \cup {id \in {e.id} : e.type = 1}
  /\ \A n \in c.sent + 1 .. c.sequence :
       Slot(c, n).type # 0 /\ Slot(c, n).id \in pledged /\ Slot(c, n).id # e.id
         => \E k \in 1 .. Len(list) : list[k] = Slot(c, n)
  /\ e.type # 0 /\ ~over => \E k \in 1 .. Len(list) : list[k] = e

\* Adding a command makes a list of what was not sent yet: some of it, and the command.
LEMMA AddedListing ==
  ASSUME NEW c \in ClientT, c.sent <= c.sequence, NEW e \in Entry
  PROVE  \E list \in Seq(Entry), over \in BOOLEAN, pledged \in SUBSET Nat :
           /\ Added(c, e) = Relisted(c, list, over, pledged)
           /\ Listing(c, e, list, over, pledged)
<1> DEFINE kept == Kept(c)
<1>2. /\ kept \in Seq(Entry) /\ Len(kept) <= c.sequence - c.sent
      /\ \A k \in 1 .. Len(kept) :
           \E n \in c.sent + 1 .. c.sequence : kept[k] = Slot(c, n)
      /\ Tight(c) => \A k \in 1 .. Len(kept) : kept[k].type # 0
      /\ \A n \in c.sent + 1 .. c.sequence :
           Slot(c, n).type # 0 \/ ~Tight(c) => \E k \in 1 .. Len(kept) : kept[k] = Slot(c, n)
      /\ ~Tight(c) \/ (\A n \in c.sent + 1 .. c.sequence : Slot(c, n).type # 0)
           => Len(kept) = c.sequence - c.sent
  BY KeptFacts
<1> HIDE DEF kept
<1>3. /\ c.sequence \in Nat /\ c.sent \in Nat /\ c.acknowledge \in Nat /\ c.pledged \subseteq Nat
      /\ c.delayDrop \in BOOLEAN /\ e.id \in Nat /\ e.type \in {0, 1} /\ Len(kept) \in Nat
  BY <1>2 DEF ClientT, Entry
<1>4. ASSUME Tight(c), e.type = 0
      PROVE  \E list \in Seq(Entry), over \in BOOLEAN, pledged \in SUBSET Nat :
               /\ Added(c, e) = Relisted(c, list, over, pledged)
               /\ Listing(c, e, list, over, pledged)
  <2>1. Added(c, e) = Relisted(c, kept, FALSE, c.pledged)
    BY <1>3, <1>4 DEF kept, Added, Refused, Relisted, ClientT
  <2>2. Listing(c, e, kept, FALSE, c.pledged)
    <3>1. Len(kept) <= c.sequence - c.sent + 1 BY <1>2, <1>3
    <3>2. \A k \in 1 .. Len(kept) : kept[k].type # 0 BY <1>2, <1>4
    <3>3. Len(kept) = c.sequence - c.sent => Len(kept) >= c.sequence - c.sent BY <1>3
    <3> QED BY <1>2, <1>3, <1>4, <3>1, <3>2, <3>3 DEF Listing
  <2> QED BY <2>1, <2>2, <1>2, <1>3
<1>5. ASSUME ~(Tight(c) /\ e.type = 0)
      PROVE  \E list \in Seq(Entry), over \in BOOLEAN, pledged \in SUBSET Nat :
               /\ Added(c, e) = Relisted(c, list, over, pledged)
               /\ Listing(c, e, list, over, pledged)
  <2> DEFINE found == Superseded(c, e.cmd)
             others == Others(c, e.cmd)
             over == (c.sent + Len(others) + 1) - c.acknowledge = MaxCommands + 1
             last == IF over THEN Disconnect ELSE e
             pledged == (c.pledged \ {kept[k].id : k \in found}) \cup {i \in {e.id} : e.type = 1}
             list == Append(others, last)
  <2>2. \A k \in found : k \in 1 .. Len(kept) BY DEF Superseded, Duplicates, kept
  <2>3. \A j, k \in found : j = k
    <3>1. \A j, k \in found : j \in Int /\ k \in Int /\ j <= k /\ k <= j BY <2>2 DEF Superseded
    <3> QED BY <3>1
  <2>4. others = IF found = {} THEN kept ELSE RemoveAt(kept, CHOOSE k \in found : TRUE)
    BY DEF kept, Others
  <2> HIDE DEF found, others
  <2>5. /\ others \in Seq(Entry) /\ Len(others) \in Nat
        /\ Len(others) <= Len(kept) /\ Len(kept) <= Len(others) + 1
        /\ \A k \in 1 .. Len(others) : \E j \in 1 .. Len(kept) : others[k] = kept[j]
        /\ \A j \in 1 .. Len(kept) :
             j \in found \/ \E k \in 1 .. Len(others) : others[k] = kept[j]
    <3>1. CASE found = {} BY <3>1, <2>4, <1>2, <1>3
    <3>2. CASE found # {}
      <4>1. PICK i \in found : i = CHOOSE k \in found : TRUE BY <3>2
      <4>2. others = RemoveAt(kept, i) /\ i \in 1 .. Len(kept) BY <4>1, <3>2, <2>2, <2>4
      <4>3. /\ others \in Seq(Entry) /\ Len(others) = Len(kept) - 1
            /\ \A k \in 1 .. Len(others) : \E j \in 1 .. Len(kept) : others[k] = kept[j]
            /\ \A j \in 1 .. Len(kept) :
                 j # i => \E k \in 1 .. Len(others) : others[k] = kept[j]
        <5>1. kept \in Seq(Entry) BY <1>2
        <5> QED BY ONLY <4>2, <5>1, RemoveAtFacts
      <4>4. /\ Len(others) \in Nat /\ Len(others) <= Len(kept) /\ Len(kept) <= Len(others) + 1
        BY <4>2, <4>3, <1>3
      <4> QED BY <4>1, <4>3, <4>4
    <3> QED BY <3>1, <3>2
  <2>6. over \in BOOLEAN /\ pledged \in SUBSET Nat BY <1>3
  <2>7. over <=> c.sent + Len(others) + 1 = c.acknowledge + MaxCommands + 1
    <3>1. Len(others) \in Nat BY <2>5
    <3>2. c.sent \in Nat /\ c.acknowledge \in Nat BY <1>3
    <3>3. (c.sent + Len(others) + 1) - c.acknowledge = MaxCommands + 1
            <=> c.sent + Len(others) + 1 = c.acknowledge + MaxCommands + 1
      BY ONLY <3>1, <3>2, RingSize
    <3> QED BY ONLY <3>3
  <2> HIDE DEF over
  <2>8. last \in Entry BY DEF Entry, Disconnect
  <2> HIDE DEF last
  <2>11. /\ list \in Seq(Entry) /\ Len(list) = Len(others) + 1 /\ list[Len(others) + 1] = last
         /\ \A k \in 1 .. Len(others) : list[k] = others[k]
    BY <2>5, <2>8, AppendProperties
  <2> HIDE DEF list, pledged
  <2>12. Added(c, e) = Relisted(c, list, over, pledged)
    <3>0. Len(others) \in Nat /\ Len(list) = Len(others) + 1 /\ c.sent \in Nat
      BY <2>5, <2>11, <1>3
    <3>1. c.sent + Len(list) = c.sent + Len(others) + 1 BY <3>0
    <3>2. Added(c, e) = Entered(c, e) BY <1>5 DEF Added
    <3>3. Entered(c, e) =
            [c EXCEPT !.sequence = c.sent + Len(others) + 1, !.commands = Written(c, c.sent, list),
                      !.delayDrop = c.delayDrop \/ over, !.pledged = pledged]
      BY DEF Entered, kept, found, others, over, last, pledged, list
    <3> QED BY <3>1, <3>2, <3>3 DEF Relisted
  <2>14. Listing(c, e, list, over, pledged)
    <3>1. \A k \in 1 .. Len(list) : k = Len(others) + 1 \/ k \in 1 .. Len(others)
      BY <2>5, <2>11
    <3>2. /\ Len(list) <= c.sequence - c.sent + 1
          /\ Len(kept) = c.sequence - c.sent => Len(list) >= c.sequence - c.sent
      BY <2>5, <2>11, <1>2, <1>3
    <3>3. over \/ c.sent + Len(list) # c.acknowledge + MaxCommands + 1
      <4>1. Len(list) = Len(others) + 1 /\ Len(others) \in Nat BY ONLY <2>5, <2>11
      <4>2. c.sent \in Nat /\ c.acknowledge \in Nat BY <1>3
      <4> QED BY ONLY <4>1, <4>2, <2>7, RingSize
    <3>4. \A k \in 1 .. Len(others) : \E j \in 1 .. Len(kept) : list[k] = kept[j]
      BY <2>5, <2>11
    <3>5. ASSUME NEW k \in 1 .. Len(list)
          PROVE  /\ \/ list[k] = e \/ list[k] = Disconnect
                    \/ \E n \in c.sent + 1 .. c.sequence : list[k] = Slot(c, n)
                 /\ list[k].type = 0 => ~Tight(c)
      <4>1. CASE k = Len(others) + 1
        <5>1. list[k] = last BY <4>1, <2>11
        <5> QED BY <5>1, <1>5 DEF Disconnect, last
      <4>2. CASE k \in 1 .. Len(others)
        <5>1. PICK j \in 1 .. Len(kept) : list[k] = kept[j] BY <4>2, <3>4
        <5> QED BY <5>1, <1>2
      <4> QED BY <4>1, <4>2, <3>1
    <3>6. ASSUME NEW n \in c.sent + 1 .. c.sequence, Slot(c, n).type # 0,
                 Slot(c, n).id \in pledged, Slot(c, n).id # e.id
          PROVE  \E k \in 1 .. Len(list) : list[k] = Slot(c, n)
      <4>1. PICK j \in 1 .. Len(kept) : kept[j] = Slot(c, n) BY <3>6, <1>2
      <4>2. j \notin found BY <4>1, <3>6 DEF pledged
      <4>3. PICK k \in 1 .. Len(others) : others[k] = kept[j] BY <4>2, <2>5
      <4>4. k \in 1 .. Len(list) BY <2>5, <2>11
      <4> QED BY <4>1, <4>3, <4>4, <2>11
    <3>7. e.type # 0 /\ ~over => \E k \in 1 .. Len(list) : list[k] = e
      <4>1. Len(others) + 1 \in 1 .. Len(list) BY <2>5, <2>11
      <4> QED BY <4>1, <2>11 DEF last
    <3>8. pledged \subseteq c.pledged \cup {id \in {e.id} : e.type = 1} BY DEF pledged
    <3> QED BY <2>6, <2>11, <3>2, <3>3, <3>5, <3>6, <3>7, <3>8, <1>2 DEF Listing
  <2> QED BY <2>6, <2>11, <2>12, <2>14
<1> QED BY <1>4, <1>5

\* The fields of what adding makes.
LEMMA RelistedFields ==
  ASSUME NEW c \in ClientT, NEW list \in Seq(Entry), NEW over \in BOOLEAN, NEW pledged \in SUBSET Nat
  PROVE  LET d == Relisted(c, list, over, pledged) IN
           /\ d \in ClientT
           /\ d.sequence = c.sent + Len(list) /\ d.commands = Written(c, c.sent, list)
           /\ d.delayDrop = (c.delayDrop \/ over) /\ d.pledged = pledged
           /\ d.state = c.state /\ d.acknowledge = c.acknowledge /\ d.sent = c.sent
           /\ d.gamestate = c.gamestate
<1>1. c.sent + Len(list) \in Nat BY DEF ClientT
<1>2. Written(c, c.sent, list) \in Ring BY WrittenFacts DEF ClientT
<1> HIDE DEF Ring
<1> QED BY <1>1, <1>2 DEF Relisted, ClientT

\* The fields of a client_t.
LEMMA ClientTFields ==
  ASSUME NEW c \in ClientT
  PROVE  /\ c.sequence \in Nat /\ c.acknowledge \in Nat /\ c.sent \in Nat /\ c.commands \in Ring
         /\ c.delayDrop \in BOOLEAN /\ c.pledged \subseteq Nat /\ c.gamestate \in 0 .. 2
         /\ c.state \in {"connected", "primed", "active", "zombie"}
BY DEF ClientT

\* Adding a command leaves the ring in agreement with what was said: from the same
\* number on or, if commands were dropped while the client plays, from the
\* acknowledge on.  No pledge is lost but to the command that replaces it.
LEMMA AddedRinged ==
  ASSUME NEW c, NEW S, NEW f \in Nat, NEW b \in Nat, Ringed(c, S, f, b),
         c.state # "zombie", ~c.delayDrop, NEW e \in Entry, e.id = b + 1
  PROVE  LET d == Added(c, e) IN
           /\ \E g \in {f, c.acknowledge} :
                /\ Ringed(d, S, g, b + 1)
                /\ g # f => c.state = "active"
           /\ d.state = c.state /\ d.acknowledge = c.acknowledge /\ d.sent = c.sent
           /\ d.gamestate = c.gamestate
           /\ ~d.delayDrop => \A id \in d.pledged : id \in PendingOf(d) \/ id \in c.pledged \ PendingOf(c)
<1>1. c \in ClientT /\ c.sent <= c.sequence BY DEF Ringed
<1>2. PICK list \in Seq(Entry), over \in BOOLEAN, pledged \in SUBSET Nat :
        /\ Added(c, e) = Relisted(c, list, over, pledged)
        /\ Listing(c, e, list, over, pledged)
  BY <1>1, AddedListing
<1>3. PICK d : d = Added(c, e) OBVIOUS
<1>4. /\ d \in ClientT
      /\ d.sequence = c.sent + Len(list) /\ d.commands = Written(c, c.sent, list)
      /\ d.delayDrop = over /\ d.pledged = pledged
      /\ d.state = c.state /\ d.acknowledge = c.acknowledge /\ d.sent = c.sent
      /\ d.gamestate = c.gamestate
  BY <1>1, <1>2, <1>3, RelistedFields
<1>5. /\ c.sequence \in Nat /\ c.sent \in Nat /\ c.acknowledge \in Nat /\ c.commands \in Ring
      /\ d.sequence \in Nat /\ Len(list) \in Nat /\ MaxCommands \in Nat /\ MaxCommands >= 2
  BY <1>1, <1>4, ClientTFields, RingSize
<1>6. /\ f <= c.acknowledge /\ c.acknowledge <= c.sent /\ c.sent <= c.sequence
      /\ c.sequence <= c.acknowledge + MaxCommands
      /\ S \subseteq Nat \X Entry /\ \A x \in S : x[1] <= c.sent
      /\ \A x \in S : f <= x[1] /\ c.sequence < x[1] + MaxCommands => x[2] = Slot(c, x[1])
      /\ \A id \in c.pledged : id <= b
  BY DEF Ringed
<1>7. \A n \in c.sent + 1 .. c.sequence :
        /\ Slot(c, n).id <= b
        /\ Slot(c, n).type = 0 => /\ c.state = "active" /\ c.sequence < c.acknowledge + MaxCommands
                                  /\ Slot(c, n).id \notin c.pledged
  BY DEF Ringed
<1>8. Len(list) <= c.sequence - c.sent + 1 BY <1>2 DEF Listing
<1>9. d.sequence <= c.acknowledge + MaxCommands + 1
      /\ (d.delayDrop \/ d.sequence <= c.acknowledge + MaxCommands)
  <2>1. d.sequence <= c.sequence + 1
    <3>1. /\ d.sequence = c.sent + Len(list) /\ Len(list) \in Nat
          /\ c.sent \in Nat /\ c.sequence \in Nat
      BY <1>4, <1>5
    <3> QED BY ONLY <3>1, <1>8
  <2>2. over \/ d.sequence # c.acknowledge + MaxCommands + 1 \/ d.sequence <= c.sequence
    BY <1>2, <1>4, <1>5 DEF Listing
  <2>3. /\ d.delayDrop = over /\ c.sequence <= c.acknowledge + MaxCommands
        /\ d.sequence \in Nat /\ c.sequence \in Nat /\ c.acknowledge \in Nat /\ MaxCommands \in Nat
    BY <1>4, <1>5, <1>6
  <2> QED BY ONLY <2>1, <2>2, <2>3
\* The ring of d.
<1>23. /\ \A k \in 1 .. Len(list) :
            /\ \E j \in 1 .. Len(list) : d.commands[(c.sent + k) % MaxCommands] = list[j]
            /\ Len(list) < k + MaxCommands => d.commands[(c.sent + k) % MaxCommands] = list[k]
       /\ \A p \in 0 .. c.sent :
            c.sent + Len(list) < p + MaxCommands
              => d.commands[p % MaxCommands] = c.commands[p % MaxCommands]
  <2>1. /\ d.commands = Written(c, c.sent, list) /\ c.commands \in Ring /\ c.sent \in Nat
        /\ list \in Seq(Entry)
    BY <1>4, <1>5
  <2>2. OnRing(Written(c, c.sent, list), c, c.sent, list) BY ONLY <2>1, WrittenFacts
  <2> QED BY ONLY <2>1, <2>2 DEF OnRing
\* The slots of what was sent.
<1>10. ASSUME NEW n \in 0 .. c.sent, d.sequence < n + MaxCommands
       PROVE  Slot(d, n) = Slot(c, n)
  BY <1>4, <1>10, <1>23 DEF Slot
\* The slots of the list.
<1>11. ASSUME NEW n \in d.sent + 1 .. d.sequence
       PROVE  /\ n - c.sent \in 1 .. Len(list)
              /\ \E j \in 1 .. Len(list) : Slot(d, n) = list[j]
  <2>1. n - c.sent \in 1 .. Len(list) /\ c.sent + (n - c.sent) = n BY <1>4, <1>5
  <2>2. \E j \in 1 .. Len(list) : d.commands[(c.sent + (n - c.sent)) % MaxCommands] = list[j]
    BY <2>1, <1>23
  <2> QED BY <2>1, <2>2 DEF Slot
<1>12. ASSUME NEW k \in 1 .. Len(list), Len(list) < k + MaxCommands
       PROVE  Slot(d, c.sent + k) = list[k]
  BY <1>12, <1>23 DEF Slot
\* No number falls, unless the client plays.
<1>13. \/ d.sequence >= c.sequence
       \/ c.state = "active" /\ c.sequence < c.acknowledge + MaxCommands
  <2>1. CASE \A n \in c.sent + 1 .. c.sequence : Slot(c, n).type # 0
    <3>1. Len(list) >= c.sequence - c.sent BY <2>1, <1>2 DEF Listing
    <3> QED BY <3>1, <1>4, <1>5
  <2>2. CASE ~\A n \in c.sent + 1 .. c.sequence : Slot(c, n).type # 0 BY <2>2, <1>7
  <2> QED BY <2>1, <2>2
<1>14. PICK g \in {f, c.acknowledge} :
         /\ d.sequence >= c.sequence => g = f
         /\ ~(d.sequence >= c.sequence) => g = c.acknowledge
  OBVIOUS
<1>15. g # f => c.state = "active" BY <1>13, <1>14
<1>16. g \in Nat /\ f <= g /\ g <= c.acknowledge BY <1>5, <1>6
<1>17. ASSUME NEW x \in S, g <= x[1], d.sequence < x[1] + MaxCommands
       PROVE  x[2] = Slot(d, x[1])
  <2>1. x[1] \in Nat /\ x[1] <= c.sent BY <1>6
  <2>2. x[1] \in 0 .. c.sent BY <2>1, <1>5
  <2>3. Slot(d, x[1]) = Slot(c, x[1]) BY <2>2, <1>10, <1>17
  <2>4. f <= x[1] BY <2>1, <1>16, <1>17
  <2>5. c.sequence < x[1] + MaxCommands
    <3>1. CASE d.sequence >= c.sequence BY <3>1, <2>1, <1>5, <1>17
    <3>2. CASE ~(d.sequence >= c.sequence)
      <4>1. c.sequence < c.acknowledge + MaxCommands /\ c.acknowledge <= x[1]
        BY <3>2, <1>13, <1>14, <1>17
      <4> QED BY <4>1, <2>1, <1>5
    <3> QED BY <3>1, <3>2
  <2> QED BY <2>3, <2>4, <2>5, <1>6
<1>18. ASSUME NEW n \in d.sent + 1 .. d.sequence
       PROVE  /\ Slot(d, n).id <= b + 1
              /\ Slot(d, n).type = 0 => /\ d.state = "active" /\ d.sequence < d.acknowledge + MaxCommands
                                        /\ Slot(d, n).id \notin d.pledged
  <2>1. PICK j \in 1 .. Len(list) : Slot(d, n) = list[j] BY <1>11
  <2>2. /\ \/ list[j] = e \/ list[j] = Disconnect
           \/ \E m \in c.sent + 1 .. c.sequence : list[j] = Slot(c, m)
        /\ list[j].type = 0 => ~Tight(c)
    BY <1>2 DEF Listing
  <2>3. ASSUME ~Tight(c) PROVE c.state = "active" /\ d.sequence < c.acknowledge + MaxCommands
    <3>1. c.state = "active" /\ ~(c.sequence - c.acknowledge >= MaxCommands \div 2) BY <2>3 DEF Tight
    <3>2. MaxCommands \div 2 <= MaxCommands - 1 /\ MaxCommands \div 2 \in Nat BY <1>5
    <3>3. d.sequence <= c.sequence + 1
      <4>1. /\ d.sequence = c.sent + Len(list) /\ Len(list) \in Nat
            /\ c.sent \in Nat /\ c.sequence \in Nat
        BY <1>4, <1>5
      <4> QED BY ONLY <4>1, <1>8
    <3>4. /\ d.sequence \in Nat /\ c.sequence \in Nat /\ c.acknowledge \in Nat
          /\ MaxCommands \in Nat
      BY <1>5
    <3> QED BY ONLY <3>1, <3>2, <3>3, <3>4
  <2>4. pledged \subseteq c.pledged \cup {id \in {e.id} : e.type = 1} BY <1>2 DEF Listing
  <2>5. CASE list[j] = e
    <3>1. e.type = 0 => e.id \notin pledged
      <4>1. b + 1 \notin c.pledged BY <1>6
      <4> QED BY <4>1, <2>4
    <3> QED BY <2>1, <2>2, <2>3, <2>5, <3>1, <1>4
  <2>6. CASE list[j] = Disconnect BY <2>1, <2>6 DEF Disconnect
  <2>7. CASE \E m \in c.sent + 1 .. c.sequence : list[j] = Slot(c, m)
    <3>1. PICK m \in c.sent + 1 .. c.sequence : list[j] = Slot(c, m) BY <2>7
    <3>2. m \in Nat BY <1>5
    <3>3. Slot(c, m).id \in Nat BY <3>2, <1>5, SlotEntry DEF Entry
    <3>4. Slot(c, m).id <= b BY <1>7
    <3>5. Slot(c, m).id <= b + 1 /\ Slot(c, m).id # e.id BY <3>3, <3>4
    <3> QED BY <2>1, <2>2, <2>3, <2>4, <3>1, <3>5, <1>4, <1>7
  <2> QED BY <2>2, <2>5, <2>6, <2>7
<1>19. \A id \in d.pledged : id <= b + 1
  <2>1. \A id \in c.pledged : id \in Nat BY <1>1, ClientTFields
  <2>2. pledged \subseteq c.pledged \cup {id \in {e.id} : e.type = 1} BY <1>2 DEF Listing
  <2>3. \A id \in c.pledged : id <= b + 1 BY <2>1, <1>6
  <2>4. \A id \in pledged : id \in c.pledged \/ id = e.id BY <2>2
  <2>5. e.id <= b + 1 OBVIOUS
  <2> QED BY <2>3, <2>4, <2>5, <1>4
<1>20. Ringed(d, S, g, b + 1)
  <2>1. g <= d.acknowledge /\ d.acknowledge <= d.sent /\ d.sent <= d.sequence
    BY <1>4, <1>5, <1>6, <1>16
  <2> QED BY <2>1, <1>4, <1>6, <1>9, <1>17, <1>18, <1>19 DEF Ringed
<1>21. ASSUME ~d.delayDrop, NEW id \in d.pledged, id \notin c.pledged \ PendingOf(c)
       PROVE  id \in PendingOf(d)
  <2>1. d.sequence <= c.acknowledge + MaxCommands /\ ~over BY <1>4, <1>9, <1>21
  <2>2. ASSUME NEW k \in 1 .. Len(list) PROVE list[k].id \in PendingOf(d)
    <3>1. Len(list) < k + MaxCommands BY <2>1, <1>4, <1>5, <1>6
    <3>2. Slot(d, c.sent + k) = list[k] BY <3>1, <1>12
    <3>3. c.sent + k \in d.acknowledge + 1 .. d.sequence
      <4>1. /\ c.sent \in Nat /\ d.acknowledge = c.acknowledge /\ c.acknowledge \in Nat
            /\ d.sequence = c.sent + Len(list) /\ Len(list) \in Nat
            /\ c.acknowledge <= c.sent /\ k \in 1 .. Len(list)
        BY <1>4, <1>5, <1>6
      <4> QED BY ONLY <4>1
    <3> QED BY <3>2, <3>3 DEF PendingOf
  <2>3. CASE id = e.id
    <3>1. id \notin c.pledged BY <2>3, <1>6
    <3>2. e.type = 1 BY <3>1, <1>2, <1>4 DEF Listing
    <3>3. \E k \in 1 .. Len(list) : list[k] = e BY <3>2, <2>1, <1>2 DEF Listing
    <3> QED BY <3>3, <2>2, <2>3
  <2>4. CASE id # e.id
    <3>1. id \in c.pledged BY <2>4, <1>2, <1>4 DEF Listing
    <3>2. PICK n \in c.acknowledge + 1 .. c.sequence : Slot(c, n).id = id
      BY <3>1, <1>21 DEF PendingOf
    <3>3. CASE n <= c.sent
      <4>1. n \in 0 .. c.sent /\ d.sequence < n + MaxCommands BY <3>3, <2>1, <1>5
      <4>2. Slot(d, n).id = id BY <4>1, <3>2, <1>10
      <4>3. n \in d.acknowledge + 1 .. d.sequence BY <3>3, <1>4, <1>5
      <4> QED BY <4>2, <4>3 DEF PendingOf
    <3>4. CASE ~(n <= c.sent)
      <4>1. n \in c.sent + 1 .. c.sequence BY <3>4, <1>5
      <4>2. Slot(c, n).type # 0 BY <4>1, <3>1, <3>2, <1>7
      <4>3. \E k \in 1 .. Len(list) : list[k] = Slot(c, n)
        BY <4>1, <4>2, <3>2, <2>4, <1>2, <1>4, <1>21 DEF Listing
      <4> QED BY <4>3, <3>2, <2>2
    <3> QED BY <3>3, <3>4
  <2> QED BY <2>3, <2>4
<1>22. ~d.delayDrop => \A id \in d.pledged : id \in PendingOf(d) \/ id \in c.pledged \ PendingOf(c)
  BY <1>21
<1> QED BY <1>3, <1>4, <1>15, <1>20, <1>22

-----------------------------------------------------------------------------
(* The acknowledge, the state and the messages, as they change the client_t *)
(* and what it must agree with.                                             *)

\* The types, as the proofs use them.
LEMMA Typed ==
  ASSUME TypeOK
  PROVE  /\ cl \in ClientT /\ level \in Nat /\ issued \in Nat /\ forgiven \in BOOLEAN
         /\ client.sequence \in Nat /\ client.level \in Nat /\ client.commands \in Ring
         /\ executed \subseteq Nat \X Entry /\ snapshot \subseteq Nat /\ overtaken \in BOOLEAN
         /\ toClient \in Seq(Message) /\ Len(toClient) \in Nat
         /\ \A i \in 1 .. Len(toClient) :
              /\ toClient[i] \in Message /\ toClient[i].first \in Nat
              /\ toClient[i].commands \in Seq(Entry) /\ Len(toClient[i].commands) \in Nat
         /\ toServer \in Seq(Input) /\ Len(toServer) \in Nat
         /\ gamestates \in Seq(GameState) /\ Len(gamestates) \in Nat
         /\ \A i \in 1 .. Len(gamestates) :
              gamestates[i].sequence \in Nat /\ gamestates[i].level \in Nat
<1> USE DEF TypeOK
<1>1. cl \in ClientT /\ level \in Nat /\ issued \in Nat /\ forgiven \in BOOLEAN BY DEF ClientT
<1>2. /\ client.sequence \in Nat /\ client.level \in Nat /\ client.commands \in Ring
      /\ executed \subseteq Nat \X Entry /\ snapshot \subseteq Nat /\ overtaken \in BOOLEAN
  OBVIOUS
<1>3. toClient \in Seq(Message) BY DEF Message
<1>4. toServer \in Seq(Input) BY DEF Input
<1>5. gamestates \in Seq(GameState) BY DEF GameState
<1> HIDE DEF TypeOK
<1>6. \A i \in 1 .. Len(toClient) : toClient[i] \in Message BY <1>3
<1>7. \A m \in Message : m.first \in Nat /\ m.commands \in Seq(Entry) /\ Len(m.commands) \in Nat
  BY DEF Message
<1>8. \A i \in 1 .. Len(gamestates) : gamestates[i] \in GameState BY <1>5
<1>9. \A g \in GameState : g.sequence \in Nat /\ g.level \in Nat BY DEF GameState
<1>10. Len(toClient) \in Nat /\ Len(toServer) \in Nat /\ Len(gamestates) \in Nat BY <1>3, <1>4, <1>5
<1> QED BY <1>1, <1>2, <1>3, <1>4, <1>5, <1>6, <1>7, <1>8, <1>9, <1>10

\* The fields of the messages of the client.
LEMMA InputFields ==
  ASSUME NEW in \in Seq(Input)
  PROVE  /\ Len(in) \in Nat
         /\ \A i \in 1 .. Len(in) :
              in[i].acknowledge \in Nat /\ in[i].key \in Entry /\ in[i].level \in Nat
<1>1. \A i \in 1 .. Len(in) : in[i] \in Input OBVIOUS
<1>2. \A m \in Input : m.acknowledge \in Nat /\ m.key \in Entry /\ m.level \in Nat BY DEF Input
<1> QED BY <1>1, <1>2

\* An acknowledge in range keeps the ring in agreement.
LEMMA AckRinged ==
  ASSUME NEW c, NEW S, NEW f \in Nat, NEW b \in Nat, Ringed(c, S, f, b),
         NEW q \in Nat, f <= q, q <= c.sent, c.sequence < q + MaxCommands
  PROVE  Ringed([c EXCEPT !.acknowledge = q], S, f, b)
<1>1. PICK d : d = [c EXCEPT !.acknowledge = q] OBVIOUS
<1>2. c \in ClientT BY DEF Ringed
<1>3. /\ d \in ClientT /\ d.state = c.state /\ d.sequence = c.sequence /\ d.acknowledge = q
      /\ d.sent = c.sent /\ d.commands = c.commands /\ d.delayDrop = c.delayDrop
      /\ d.pledged = c.pledged
  <2> HIDE DEF Ring
  <2> QED BY <1>1, <1>2 DEF ClientT
<1>4. \A n : Slot(d, n) = Slot(c, n) BY <1>3 DEF Slot
<1>5. c.sequence \in Nat /\ MaxCommands \in Nat BY <1>2, ClientTFields, RingSize
<1>6. Ringed(d, S, f, b) BY <1>3, <1>4, <1>5 DEF Ringed
<1> QED BY <1>1, <1>6

\* Nor does a change of state, if all commands that may be dropped are sent or
\* the client plays then.
LEMMA RestateRinged ==
  ASSUME NEW c, NEW S, NEW f \in Nat, NEW b \in Nat, Ringed(c, S, f, b),
         NEW s \in {"connected", "primed", "active", "zombie"}, NEW g \in 0 .. 2,
         c.state # "active" \/ c.sent = c.sequence \/ s = "active"
  PROVE  Ringed([c EXCEPT !.state = s, !.gamestate = g], S, f, b)
<1>1. PICK d : d = [c EXCEPT !.state = s, !.gamestate = g] OBVIOUS
<1>2. c \in ClientT BY DEF Ringed
<1>3. /\ d \in ClientT /\ d.state = s /\ d.sequence = c.sequence /\ d.acknowledge = c.acknowledge
      /\ d.sent = c.sent /\ d.commands = c.commands /\ d.delayDrop = c.delayDrop
      /\ d.pledged = c.pledged
  <2> HIDE DEF Ring
  <2> QED BY <1>1, <1>2 DEF ClientT
<1>4. \A n : Slot(d, n) = Slot(c, n) BY <1>3 DEF Slot
<1>5. c.sequence \in Nat /\ c.sent \in Nat BY <1>2, ClientTFields
<1>6. ASSUME NEW n \in c.sent + 1 .. c.sequence, Slot(c, n).type = 0 PROVE s = "active"
  <2>1. c.sent # c.sequence BY <1>5
  <2>2. c.state = "active" BY <1>6 DEF Ringed
  <2> QED BY <2>1, <2>2
<1>7. Ringed(d, S, f, b) BY <1>3, <1>4, <1>6 DEF Ringed
<1> QED BY <1>1, <1>7

\* Sending all that is in the ring, and saying no more than is in it.
LEMMA SentRinged ==
  ASSUME NEW c, NEW S, NEW T, NEW f \in Nat, NEW b \in Nat, Ringed(c, S, f, b), ~c.delayDrop,
         Unique(S),
         \A x \in T : x \in S \/ \E n \in c.acknowledge + 1 .. c.sequence : x = <<n, Slot(c, n)>>
  PROVE  Ringed([c EXCEPT !.sent = c.sequence], T, f, b) /\ Unique(T)
<1>1. PICK d : d = [c EXCEPT !.sent = c.sequence] OBVIOUS
<1>2. c \in ClientT BY DEF Ringed
<1>3. /\ d \in ClientT /\ d.state = c.state /\ d.sequence = c.sequence
      /\ d.acknowledge = c.acknowledge
      /\ d.sent = c.sequence /\ d.commands = c.commands /\ d.delayDrop = c.delayDrop
      /\ d.pledged = c.pledged
  <2> HIDE DEF Ring
  <2> QED BY <1>1, <1>2 DEF ClientT
<1>4. \A n : Slot(d, n) = Slot(c, n) BY <1>3 DEF Slot
<1>5. /\ c.sequence \in Nat /\ c.sent \in Nat /\ c.acknowledge \in Nat /\ c.commands \in Ring
      /\ MaxCommands \in Nat
  BY <1>2, ClientTFields, RingSize
<1>6. /\ f <= c.acknowledge /\ c.acknowledge <= c.sent /\ c.sent <= c.sequence
      /\ c.sequence <= c.acknowledge + MaxCommands
      /\ S \subseteq Nat \X Entry /\ \A x \in S : x[1] <= c.sent
      /\ \A x \in S : f <= x[1] /\ c.sequence < x[1] + MaxCommands => x[2] = Slot(c, x[1])
  BY DEF Ringed
<1>7. ASSUME NEW n \in c.acknowledge + 1 .. c.sequence
      PROVE  n \in Nat /\ Slot(c, n) \in Entry /\ f <= n /\ c.sequence < n + MaxCommands
  <2>1. n \in Nat /\ f <= n /\ c.sequence < n + MaxCommands BY <1>5, <1>6
  <2> QED BY <2>1, <1>5, SlotEntry
<1>8. ASSUME NEW x \in T
      PROVE  /\ x \in Nat \X Entry /\ x[1] <= c.sequence
             /\ f <= x[1] /\ c.sequence < x[1] + MaxCommands => x[2] = Slot(c, x[1])
  <2>1. CASE x \in S
    <3>1. x \in Nat \X Entry /\ x[1] \in Nat /\ x[1] <= c.sent BY <2>1, <1>6
    <3> QED BY <2>1, <3>1, <1>5, <1>6
  <2>2. CASE \E n \in c.acknowledge + 1 .. c.sequence : x = <<n, Slot(c, n)>>
    <3>1. PICK n \in c.acknowledge + 1 .. c.sequence : x = <<n, Slot(c, n)>> BY <2>2
    <3>2. x[1] = n /\ x[2] = Slot(c, n) /\ n <= c.sequence BY <3>1, <1>5
    <3> QED BY <3>1, <3>2, <1>7
  <2> QED BY <2>1, <2>2
<1>9. ASSUME NEW x \in T, NEW y \in T, x[1] = y[1] PROVE x = y
  <2>1. ASSUME NEW z \in S, NEW n \in c.acknowledge + 1 .. c.sequence, z[1] = n
        PROVE  z = <<n, Slot(c, n)>>
    <3>1. z \in Nat \X Entry BY <1>6
    <3>2. z[2] = Slot(c, n) BY <2>1, <1>6, <1>7
    <3> QED BY <3>1, <3>2, <2>1
  <2>2. CASE x \in S /\ y \in S BY <2>2, <1>9 DEF Unique
  <2>3. CASE x \in S /\ y \notin S
    <3>1. PICK n \in c.acknowledge + 1 .. c.sequence : y = <<n, Slot(c, n)>> BY <2>3
    <3>2. x[1] = n BY <3>1, <1>9
    <3> QED BY <2>3, <3>1, <3>2, <2>1
  <2>4. CASE x \notin S /\ y \in S
    <3>1. PICK n \in c.acknowledge + 1 .. c.sequence : x = <<n, Slot(c, n)>> BY <2>4
    <3>2. y[1] = n BY <3>1, <1>9
    <3> QED BY <2>4, <3>1, <3>2, <2>1
  <2>5. CASE x \notin S /\ y \notin S
    <3>1. PICK n \in c.acknowledge + 1 .. c.sequence : x = <<n, Slot(c, n)>> BY <2>5
    <3>2. PICK k \in c.acknowledge + 1 .. c.sequence : y = <<k, Slot(c, k)>> BY <2>5
    <3>3. n = k BY <3>1, <3>2, <1>9
    <3> QED BY <3>1, <3>2, <3>3
  <2> QED BY <2>2, <2>3, <2>4, <2>5
<1>10. Unique(T) BY <1>9 DEF Unique
<1>11. Ringed(d, T, f, b)
  <2>1. \A n \in d.sent + 1 .. d.sequence : FALSE BY <1>3, <1>5
  <2>2. f <= d.acknowledge /\ d.acknowledge <= d.sent /\ d.sent <= d.sequence BY <1>3, <1>5, <1>6
  <2>3. d.sequence <= d.acknowledge + MaxCommands + 1 /\ d.sequence <= d.acknowledge + MaxCommands
    BY <1>3, <1>5, <1>6
  <2>4. \A id \in d.pledged : id <= b BY <1>3 DEF Ringed
  <2>5. T \subseteq Nat \X Entry /\ \A x \in T : x[1] <= d.sent BY <1>3, <1>8
  <2>6. \A x \in T : f <= x[1] /\ d.sequence < x[1] + MaxCommands => x[2] = Slot(d, x[1])
    BY <1>3, <1>4, <1>8
  <2> QED BY <1>3, <2>1, <2>2, <2>3, <2>4, <2>5, <2>6 DEF Ringed
<1> QED BY <1>1, <1>10, <1>11

\* What a message holds.
LEMMA MessageFacts ==
  ASSUME NEW c \in ClientT, NEW m \in Snapshots(c)
  PROVE  /\ m \in Message
         /\ c.acknowledge <= c.sequence =>
              \E upto \in c.acknowledge .. c.sequence :
                /\ m.first = c.acknowledge + 1 /\ Len(m.commands) = upto - c.acknowledge
                /\ \A k \in 1 .. Len(m.commands) : m.commands[k] = Slot(c, c.acknowledge + k)
                /\ m.pledged = c.pledged
                /\ m.snapshot => upto = c.sequence
<1>1. /\ c.sequence \in Nat /\ c.acknowledge \in Nat /\ c.commands \in Ring /\ c.pledged \subseteq Nat
  BY ClientTFields
<1>2. PICK upto \in {c.sequence} \cup (c.acknowledge + 1 .. c.sequence - 1) : m = MessageUpto(c, upto)
  BY DEF Snapshots
<1>3. upto \in Int /\ upto <= c.sequence BY <1>1
<1>4. PICK n \in Int : n = upto - c.acknowledge BY <1>1, <1>3
<1>5. /\ m.first = c.acknowledge + 1 /\ m.commands = Stretch(c, c.acknowledge, n)
      /\ m.snapshot = (upto >= c.sequence /\ c.state \in {"active", "zombie"})
      /\ m.pledged = c.pledged
      /\ m = [first |-> c.acknowledge + 1, commands |-> Stretch(c, c.acknowledge, n),
              snapshot |-> (upto >= c.sequence /\ c.state \in {"active", "zombie"}),
              pledged |-> c.pledged]
  BY <1>2, <1>4 DEF MessageUpto, Stretch
<1>6. /\ Stretch(c, c.acknowledge, n) \in Seq(Entry)
      /\ Len(Stretch(c, c.acknowledge, n)) = IF n < 0 THEN 0 ELSE n
      /\ \A k \in 1 .. n : Stretch(c, c.acknowledge, n)[k] = Slot(c, c.acknowledge + k)
  BY <1>1, StretchFacts
<1>7. m \in Message
  <2>1. (upto >= c.sequence /\ c.state \in {"active", "zombie"}) \in BOOLEAN OBVIOUS
  <2>2. c.acknowledge + 1 \in Nat BY <1>1
  <2> QED BY <1>1, <1>5, <1>6, <2>1, <2>2 DEF Message
<1>8. ASSUME c.acknowledge <= c.sequence
      PROVE  /\ upto \in c.acknowledge .. c.sequence /\ Len(m.commands) = n
             /\ m.snapshot => upto = c.sequence
  <2>1. upto >= c.acknowledge BY <1>1, <1>8
  <2>2. n >= 0 BY <2>1, <1>1, <1>3, <1>4
  <2>3. Len(m.commands) = n BY <2>2, <1>5, <1>6
  <2>4. m.snapshot => upto >= c.sequence BY <1>5
  <2>5. upto >= c.sequence => upto = c.sequence BY <1>1, <1>3
  <2>6. upto \in c.acknowledge .. c.sequence BY <2>1, <1>1, <1>3
  <2> QED BY <2>3, <2>4, <2>5, <2>6
<1> QED BY <1>4, <1>5, <1>6, <1>7, <1>8

-----------------------------------------------------------------------------
(* Steps on the client_t alone, in front of what else a handler does.      *)

\* An acknowledge in range, from message i of the client: those before it are gone.
LEMMA AckSound ==
  ASSUME TypeOK, NEW c, NEW in \in Seq(Input), NEW b \in Nat, Sound(c, in, b),
         NEW i \in 1 .. Len(in), c.sequence - in[i].acknowledge \in 0 .. MaxCommands - 1
  PROVE  Sound([c EXCEPT !.acknowledge = in[i].acknowledge], SubSeq(in, i + 1, Len(in)), b)
<1>1. PICK q : q = in[i].acknowledge OBVIOUS
<1>2. PICK d : d = [c EXCEPT !.acknowledge = q] OBVIOUS
<1>3. PICK rest : rest = SubSeq(in, i + 1, Len(in)) OBVIOUS
<1>4. /\ Len(in) \in Nat /\ q \in Nat
      /\ \A j \in 1 .. Len(in) : in[j].acknowledge \in Nat /\ in[j].level \in Nat
  BY <1>1, InputFields
<1>5. rest \in Seq(Input) /\ Len(rest) = Len(in) - i
      /\ \A j \in 1 .. Len(rest) : j + i \in 1 .. Len(in) /\ rest[j] = in[j + i]
  BY <1>3, RestFacts
<1>6. c \in ClientT BY DEF Sound, RingAgrees, Ringed
<1>7. /\ d.state = c.state /\ d.sequence = c.sequence /\ d.acknowledge = q
      /\ d.sent = c.sent /\ d.commands = c.commands /\ d.delayDrop = c.delayDrop
      /\ d.gamestate = c.gamestate /\ d.pledged = c.pledged
  <2> HIDE DEF Ring
  <2> QED BY <1>2, <1>6 DEF ClientT
<1>8. \A n : Slot(d, n) = Slot(c, n) BY <1>7 DEF Slot
<1>9. /\ c.sequence \in Nat /\ c.acknowledge \in Nat /\ c.sent \in Nat /\ MaxCommands \in Nat
      /\ c.delayDrop \in BOOLEAN
  BY <1>6, ClientTFields, RingSize
<1>10. \A j, k \in 1 .. Len(rest) : j < k => j + i < k + i BY <1>4, <1>5
<1>11. \A j \in 1 .. Len(rest) : i < j + i BY <1>4, <1>5
<1>12. PICK f \in Nat : Low(in, f) /\ Ringed(c, Said, f, b) BY DEF Sound, RingAgrees
<1>13. RingAgrees(d, rest, b)
  <2>1. f <= q BY <1>1, <1>12 DEF Low
  <2>2. q <= c.sent BY <1>1 DEF Sound, Bounded
  <2>3. c.sequence < q + MaxCommands BY <1>1, <1>4, <1>9
  <2>4. Ringed(d, Said, f, b) BY <2>1, <2>2, <2>3, <1>2, <1>4, <1>12, AckRinged
  <2>5. Low(rest, f) BY <1>5, <1>12 DEF Low
  <2> QED BY <2>4, <2>5 DEF RingAgrees
<1>14. Unique(Said) /\ Near BY DEF Sound
<1>15. Levels(d) BY <1>7 DEF Sound, Levels
<1>16. Sorted(rest)
  <2>1. Sorted(in) BY DEF Sound
  <2> QED BY <2>1, <1>5, <1>10 DEF Sorted
<1>17. Playing(d, rest)
  <2> SUFFICES ASSUME c.state = "active"
               PROVE  /\ client.level = level /\ q <= client.sequence
                      /\ \A j \in 1 .. Len(rest) : rest[j].level = level /\ q <= rest[j].acknowledge
    BY <1>7 DEF Playing
  <2>1. client.level = level /\ \A j \in 1 .. Len(in) : in[j].level = level
    BY DEF Sound, Playing
  <2>2. Sorted(in) BY DEF Sound
  <2>3. q <= client.sequence BY <2>1, <2>2, <1>1 DEF Sorted
  <2>4. ASSUME NEW j \in 1 .. Len(rest) PROVE q <= rest[j].acknowledge
    <3>1. j + i \in 1 .. Len(in) /\ rest[j] = in[j + i] /\ i < j + i BY <1>5, <1>11
    <3>2. in[i].level = in[j + i].level BY <3>1, <2>1
    <3> QED BY <3>1, <3>2, <2>2, <1>1 DEF Sorted
  <2> QED BY <2>1, <2>3, <2>4, <1>5
<1>18. Bounded(d, rest) BY <1>5, <1>7 DEF Sound, Bounded
<1>19. Keys(d, rest)
  <2>1. Keys(c, in) BY DEF Sound
  <2> QED BY <2>1, <1>5, <1>7 DEF Keys
<1>20. Completed(d, rest)
  <2>1. Completed(c, in) BY DEF Sound
  <2> QED BY <2>1, <1>1, <1>5, <1>7 DEF Completed
<1>21. Pledges(d)
  <2> SUFFICES ASSUME ~overtaken, ~c.delayDrop, NEW id \in c.pledged, id \notin PendingOf(d)
               PROVE  id \in Ids
    <3>1. Pledges(c) BY DEF Sound
    <3> QED BY <3>1, <1>7 DEF Pledges
  <2>1. id \in Ids \cup PendingOf(c) BY DEF Sound, Pledges
  <2>2. SUFFICES ASSUME id \in PendingOf(c) PROVE id \in Ids BY <2>1
  <2>3. PICK n \in c.acknowledge + 1 .. c.sequence : id = Slot(c, n).id BY <2>2 DEF PendingOf
  <2>4. n \in 1 .. q
    <3>1. n \notin q + 1 .. c.sequence BY <2>3, <1>7, <1>8 DEF PendingOf
    <3>2. /\ n \in c.acknowledge + 1 .. c.sequence
          /\ q \in Nat /\ c.sequence \in Nat /\ c.acknowledge \in Nat
      BY <1>4, <1>9
    <3> QED BY ONLY <3>1, <3>2
  <2>5. Complete(q) BY <1>1 DEF Sound, Completed
  <2>6. PICK x \in executed : x[1] = n BY <2>4, <2>5 DEF Complete
  <2>7. x \in Said BY DEF Said, Done
  <2>8. f <= n /\ c.sequence < n + MaxCommands
    <3>1. f <= c.acknowledge /\ c.sequence <= c.acknowledge + MaxCommands BY <1>12 DEF Ringed
    <3>2. /\ n \in c.acknowledge + 1 .. c.sequence /\ f \in Nat /\ MaxCommands \in Nat
          /\ c.sequence \in Nat /\ c.acknowledge \in Nat
      BY <1>9
    <3> QED BY ONLY <3>1, <3>2
  <2>9. x[2] = Slot(c, n) BY <2>6, <2>7, <2>8, <1>12 DEF Ringed
  <2> QED BY <2>3, <2>6, <2>9 DEF Ids
<1> QED BY <1>1, <1>2, <1>3, <1>13, <1>14, <1>15, <1>16, <1>17, <1>18, <1>19, <1>20, <1>21 DEF Sound

\* No gamestate is on its way to a client that plays.
LEMMA PlayingAlone ==
  ASSUME TypeOK, NEW c, NEW in, NEW b, Sound(c, in, b), c.state = "active"
  PROVE  Len(gamestates) = 0 /\ c.gamestate # 0
<1>1. client.level = level BY DEF Sound, Playing
<1>2. Levels(c) BY DEF Sound
<1>3. /\ level \in Nat /\ client.level \in Nat /\ Len(gamestates) \in Nat
      /\ \A i \in 1 .. Len(gamestates) : gamestates[i].level \in Nat
  BY Typed
<1>4. \A i \in 1 .. Len(gamestates) : FALSE BY <1>1, <1>2, <1>3 DEF Levels
<1>5. Len(gamestates) = 0
  <2>1. Len(gamestates) # 0 => 1 \in 1 .. Len(gamestates) BY <1>3
  <2> QED BY <2>1, <1>4
<1> QED BY <1>1, <1>2, <1>3, <1>5 DEF Levels

\* A command is added.
LEMMA AddSound ==
  ASSUME TypeOK, NEW c, NEW in \in Seq(Input), NEW b \in Nat, Sound(c, in, b),
         c.state # "zombie", ~c.delayDrop, NEW e \in Entry, e.id = b + 1
  PROVE  Sound(Added(c, e), in, b + 1)
<1>1. PICK d : d = Added(c, e) OBVIOUS
<1>2. PICK f \in Nat : Low(in, f) /\ Ringed(c, Said, f, b) BY DEF Sound, RingAgrees
<1>3. /\ \E g \in {f, c.acknowledge} :
           /\ Ringed(d, Said, g, b + 1)
           /\ g # f => c.state = "active"
      /\ d.state = c.state /\ d.acknowledge = c.acknowledge /\ d.sent = c.sent
      /\ d.gamestate = c.gamestate
      /\ ~d.delayDrop => \A id \in d.pledged : id \in PendingOf(d) \/ id \in c.pledged \ PendingOf(c)
  BY <1>1, <1>2, AddedRinged
<1>4. RingAgrees(d, in, b + 1)
  <2>1. PICK g \in {f, c.acknowledge} :
           /\ Ringed(d, Said, g, b + 1)
           /\ g # f => c.state = "active"
    BY <1>3
  <2>2. Low(in, g)
    <3>1. CASE g = f BY <3>1, <1>2
    <3>2. CASE g # f
      <4>1. c.state = "active" /\ g = c.acknowledge BY <3>2, <2>1
      <4>2. Len(gamestates) = 0 BY <4>1, PlayingAlone
      <4>3. \A i \in 1 .. Len(gamestates) : FALSE BY <4>2
      <4> QED BY <4>1, <4>3 DEF Sound, Playing, Low
    <3> QED BY <3>1, <3>2
  <2>3. g \in Nat
    <3>1. c.acknowledge \in Nat BY <1>2, ClientTFields DEF Ringed
    <3> QED BY <3>1
  <2> QED BY <2>1, <2>2, <2>3 DEF RingAgrees
<1>5. Levels(d) BY <1>3 DEF Sound, Levels
<1>6. Playing(d, in) BY <1>3 DEF Sound, Playing
<1>7. Bounded(d, in) BY <1>3 DEF Sound, Bounded
<1>8. Keys(d, in) BY <1>3 DEF Sound, Keys
<1>9. Completed(d, in) BY <1>3 DEF Sound, Completed
<1>10. Pledges(d) BY <1>3 DEF Sound, Pledges
<1> QED BY <1>1, <1>4, <1>5, <1>6, <1>7, <1>8, <1>9, <1>10 DEF Sound

\* The state of the client_t changes: it ends to play, or begins to when the client
\* has the gamestate of the level.
LEMMA RestateSound ==
  ASSUME TypeOK, NEW c, NEW in \in Seq(Input), NEW b \in Nat, Sound(c, in, b),
         NEW s \in {"connected", "primed", "active"}, NEW g \in 0 .. 2,
         g = 0 => c.gamestate = 0,
         c.state # "active" \/ s = "active",
         s = "active" =>
           /\ client.level = level /\ c.acknowledge <= client.sequence
           /\ \A i \in 1 .. Len(in) : in[i].level = level /\ c.acknowledge <= in[i].acknowledge
  PROVE  Sound([c EXCEPT !.state = s, !.gamestate = g], in, b)
<1>1. PICK d : d = [c EXCEPT !.state = s, !.gamestate = g] OBVIOUS
<1>2. PICK f \in Nat : Low(in, f) /\ Ringed(c, Said, f, b) BY DEF Sound, RingAgrees
<1>3. c \in ClientT BY <1>2 DEF Ringed
<1>4. /\ d.state = s /\ d.sequence = c.sequence /\ d.acknowledge = c.acknowledge
      /\ d.sent = c.sent /\ d.commands = c.commands /\ d.delayDrop = c.delayDrop
      /\ d.gamestate = g /\ d.pledged = c.pledged
  <2> HIDE DEF Ring
  <2> QED BY <1>1, <1>3 DEF ClientT
<1>5. \A n : Slot(d, n) = Slot(c, n) BY <1>4 DEF Slot
<1>6. PendingOf(d) = PendingOf(c) BY <1>4, <1>5 DEF PendingOf
<1>7. RingAgrees(d, in, b)
  <2>1. Ringed(d, Said, f, b) BY <1>1, <1>2, RestateRinged
  <2> QED BY <2>1, <1>2 DEF RingAgrees
<1>8. Levels(d) BY <1>4 DEF Sound, Levels
<1>9. Playing(d, in) BY <1>4 DEF Playing
<1>10. Bounded(d, in) BY <1>4 DEF Sound, Bounded
<1>11. Keys(d, in) BY <1>4 DEF Sound, Keys
<1>12. Completed(d, in) BY <1>4 DEF Sound, Completed
<1>13. Pledges(d) BY <1>4, <1>6 DEF Sound, Pledges
<1> QED BY <1>1, <1>7, <1>8, <1>9, <1>10, <1>11, <1>12, <1>13 DEF Sound

-----------------------------------------------------------------------------
(* Messages to the client.                                                 *)

\* How the messages to the client are after m was sent: each is m or was there.
LEMMA ToClientSent ==
  ASSUME TypeOK, NEW m \in Message, toClient' = Sent(toClient, m)
  PROVE  /\ toClient' \in Seq(Message) /\ Len(toClient') \in Nat
         /\ \E d \in {0, 1} :
              \A i \in 1 .. Len(toClient') :
                \/ i = Len(toClient') /\ toClient'[i] = m
                \/ i < Len(toClient') /\ i + d \in 1 .. Len(toClient) /\ toClient'[i] = toClient[i + d]
<1>1. PICK t : t = toClient' OBVIOUS
<1>2. toClient \in Seq(Message) BY Typed
<1>3. t \in Seq(Message) BY <1>1, <1>2, SentFacts
<1>4. PICK d \in {0, 1} : Pushed(t, toClient, m, d) BY <1>1, <1>2, SentFacts
<1>5. PICK n \in Nat : n = Len(toClient) - d BY <1>4 DEF Pushed
<1>6. /\ Len(t) = n + 1 /\ t[Len(t)] = m
      /\ \A i \in 1 .. n : i + d \in 1 .. Len(toClient) /\ t[i] = toClient[i + d]
  BY <1>4, <1>5 DEF Pushed
<1>7. \A i \in 1 .. Len(t) : i = Len(t) \/ (i \in 1 .. n /\ i < Len(t))
  <2>1. Len(t) = n + 1 BY <1>6
  <2> QED BY <2>1, <1>5
<1>8. \A i \in 1 .. Len(t) :
        \/ i = Len(t) /\ t[i] = m
        \/ i < Len(t) /\ i + d \in 1 .. Len(toClient) /\ t[i] = toClient[i + d]
  BY <1>6, <1>7
<1>9. Len(t) \in Nat BY <1>5, <1>6
<1> QED BY <1>1, <1>3, <1>8, <1>9

\* The commands are sent, perhaps with a new level or a gamestate after them.
LEMMA SendSound ==
  ASSUME TypeOK, NEW c, NEW in \in Seq(Input), NEW b \in Nat, Sound(c, in, b), ~c.delayDrop,
         NEW m \in Snapshots(c), toClient' = Sent(toClient, m), UNCHANGED clientVars,
         NEW s, NEW g,
         \/ level' = level /\ gamestates' = gamestates /\ s = c.state /\ g = c.gamestate
         \/ level' = level + 1 /\ gamestates' = gamestates /\ s = "connected" /\ g = 0
         \/ /\ level' = level /\ gamestates' = Append(gamestates, [sequence |-> c.sequence, level |-> level])
            /\ c.gamestate = 0 /\ s = "primed" /\ g = 1,
         cl' = [c EXCEPT !.sent = c.sequence, !.state = s, !.gamestate = g],
         toServer' = in, issued' = b
  PROVE  Sound(cl, toServer, issued)'
<1>1. PICK f \in Nat : Low(in, f) /\ Ringed(c, Said, f, b) BY DEF Sound, RingAgrees
<1>2. c \in ClientT BY <1>1 DEF Ringed
<1>3. /\ c.sequence \in Nat /\ c.acknowledge \in Nat /\ c.sent \in Nat /\ MaxCommands \in Nat
      /\ c.commands \in Ring
      /\ f <= c.acknowledge /\ c.acknowledge <= c.sent /\ c.sent <= c.sequence
      /\ c.sequence <= c.acknowledge + MaxCommands /\ c.acknowledge <= c.sequence
  BY <1>1, <1>2, ClientTFields, RingSize DEF Ringed
<1>4. s \in {"connected", "primed", "active", "zombie"} /\ g \in 0 .. 2 BY <1>2, ClientTFields
<1>5. /\ client' = client /\ executed' = executed /\ overtaken' = overtaken /\ snapshot' = snapshot
  BY DEF clientVars
<1>6. /\ cl'.state = s /\ cl'.gamestate = g /\ cl'.sequence = c.sequence
      /\ cl'.acknowledge = c.acknowledge
      /\ cl'.sent = c.sequence /\ cl'.commands = c.commands /\ ~cl'.delayDrop
      /\ cl'.pledged = c.pledged
  <2> HIDE DEF Ring
  <2> QED BY <1>2 DEF ClientT
<1>7. m \in Message BY <1>2, MessageFacts
<1>8. PICK upto \in c.acknowledge .. c.sequence :
        /\ m.first = c.acknowledge + 1 /\ Len(m.commands) = upto - c.acknowledge
        /\ \A k \in 1 .. Len(m.commands) : m.commands[k] = Slot(c, c.acknowledge + k)
        /\ m.pledged = c.pledged
        /\ m.snapshot => upto = c.sequence
  BY <1>2, <1>3, MessageFacts
<1>9. upto \in Nat /\ upto <= c.sequence BY <1>3
<1>10. PICK d \in {0, 1} :
         \A i \in 1 .. Len(toClient') :
           \/ i = Len(toClient') /\ toClient'[i] = m
           \/ i < Len(toClient') /\ i + d \in 1 .. Len(toClient) /\ toClient'[i] = toClient[i + d]
  BY <1>7, ToClientSent
<1>11. Len(toClient') \in Nat BY <1>7, ToClientSent
<1>12. /\ level \in Nat /\ client.level \in Nat /\ gamestates \in Seq(GameState)
       /\ client.sequence \in Nat
       /\ Len(gamestates) \in Nat
       /\ \A i \in 1 .. Len(gamestates) :
            gamestates[i].sequence \in Nat /\ gamestates[i].level \in Nat
       /\ \A i \in 1 .. Len(toClient) :
            /\ toClient[i].first \in Nat /\ Len(toClient[i].commands) \in Nat
            /\ LastOf(toClient[i]) \in Int
       /\ executed \subseteq Nat \X Entry
  <2>1. \A i \in 1 .. Len(toClient) :
            /\ toClient[i].first \in Nat /\ Len(toClient[i].commands) \in Nat
            /\ LastOf(toClient[i]) \in Int
    <3>1. \A i \in 1 .. Len(toClient) : toClient[i].first \in Nat /\ Len(toClient[i].commands) \in Nat
      BY Typed
    <3> QED BY ONLY <3>1 DEF LastOf
  <2> QED BY <2>1, Typed
\* The gamestates: one more at most, of the level.
<1>13. /\ Len(gamestates') \in Nat
       /\ \A i \in 1 .. Len(gamestates') :
            \/ i \in 1 .. Len(gamestates) /\ gamestates'[i] = gamestates[i]
            \/ /\ i = Len(gamestates) + 1 /\ g = 1 /\ c.gamestate = 0 /\ level' = level
               /\ gamestates'[i].sequence = c.sequence /\ gamestates'[i].level = level
  <2>1. CASE gamestates' = gamestates BY <2>1, <1>12
  <2>2. CASE gamestates' # gamestates
    <3>1. /\ gamestates' = Append(gamestates, [sequence |-> c.sequence, level |-> level])
          /\ level' = level /\ c.gamestate = 0 /\ g = 1
      BY <2>2
    <3>2. PICK new : new = [sequence |-> c.sequence, level |-> level] OBVIOUS
    <3>3. new \in GameState /\ new.sequence = c.sequence /\ new.level = level
      BY <3>2, <1>3, <1>12 DEF GameState
    <3>4. /\ Len(gamestates') = Len(gamestates) + 1 /\ gamestates'[Len(gamestates) + 1] = new
          /\ \A i \in 1 .. Len(gamestates) : gamestates'[i] = gamestates[i]
      BY <3>1, <3>2, <3>3, <1>12, AppendProperties
    <3>5. \A i \in 1 .. Len(gamestates') : i \in 1 .. Len(gamestates) \/ i = Len(gamestates) + 1
      BY <3>4, <1>12
    <3>6. Len(gamestates') \in Nat BY <3>4, <1>12
    <3> QED BY <3>1, <3>3, <3>4, <3>5, <3>6
  <2> QED BY <2>1, <2>2
\* What was said.
<1>14. Done' = Done BY <1>5 DEF Done
<1>15. \A x \in Said' : x \in Said \/ \E n \in c.acknowledge + 1 .. c.sequence : x = <<n, Slot(c, n)>>
  <2> SUFFICES ASSUME NEW x \in Said', x \notin Said
               PROVE  \E n \in c.acknowledge + 1 .. c.sequence : x = <<n, Slot(c, n)>>
    OBVIOUS
  <2>1. x \notin Done' BY <1>14 DEF Said
  <2>2. PICK i \in 1 .. Len(toClient') : x \in Carried(toClient'[i]) BY <2>1 DEF Said
  <2>3. ~(i < Len(toClient') /\ i + d \in 1 .. Len(toClient) /\ toClient'[i] = toClient[i + d])
    BY <2>2 DEF Said
  <2>4. toClient'[i] = m BY <2>3, <1>10
  <2>5. PICK k \in 1 .. Len(m.commands) : x = <<m.first + k - 1, m.commands[k]>>
    BY <2>2, <2>4 DEF Carried
  <2>6. PICK n \in Nat : n = c.acknowledge + k
    <3>1. c.acknowledge \in Nat /\ k \in Nat BY <1>3
    <3> QED BY ONLY <3>1
  <2>7. n \in c.acknowledge + 1 .. c.sequence /\ m.first + k - 1 = n
    <3>1. m.first = c.acknowledge + 1 /\ Len(m.commands) = upto - c.acknowledge BY <1>8
    <3>2. k \in 1 .. Len(m.commands) /\ c.acknowledge \in Nat /\ c.sequence \in Nat BY <1>3
    <3> QED BY ONLY <3>1, <3>2, <2>6, <1>9
  <2> QED BY <2>5, <2>6, <2>7, <1>8
<1>16. Ringed(cl', Said', f, b) /\ Unique(Said')
  <2>1. Unique(Said) BY DEF Sound
  <2>2. Ringed([c EXCEPT !.sent = c.sequence], Said', f, b) /\ Unique(Said')
    BY <2>1, <1>1, <1>15, SentRinged
  <2>3. PICK e : e = [c EXCEPT !.sent = c.sequence] OBVIOUS
  <2>4. e.sent = c.sequence /\ e.sequence = c.sequence BY <2>3, <1>2 DEF ClientT
  <2>5. cl' = [e EXCEPT !.state = s, !.gamestate = g] BY <2>3
  <2>6. Ringed(e, Said', f, b) BY <2>2, <2>3
  <2>7. Ringed([e EXCEPT !.state = s, !.gamestate = g], Said', f, b)
    BY <2>4, <2>6, <1>4, RestateRinged
  <2> QED BY <2>2, <2>5, <2>7
<1>17. RingAgrees(cl, toServer, issued)'
  <2>1. Low(toServer, f)'
    <3>1. \A i \in 1 .. Len(gamestates') : f <= gamestates'[i].sequence
      <4>1. \A i \in 1 .. Len(gamestates) : f <= gamestates[i].sequence BY <1>1 DEF Low
      <4>2. f <= c.sequence
        <5>1. /\ f \in Nat /\ c.acknowledge \in Nat /\ c.sequence \in Nat
              /\ f <= c.acknowledge /\ c.acknowledge <= c.sequence
          BY <1>3
        <5> QED BY ONLY <5>1
      <4> QED BY ONLY <4>1, <4>2, <1>13
    <3> QED BY <3>1, <1>1, <1>5 DEF Low
  <2> QED BY <2>1, <1>16 DEF RingAgrees
<1>18. Levels(cl)'
  <2>1. Levels(c) BY DEF Sound
  <2>2. level' \in Nat /\ level <= level' BY <1>12
  <2>3. client'.level <= level' BY <2>1, <2>2, <1>5, <1>12 DEF Levels
  <2>4. c.gamestate = 0 => /\ client.level < level
                           /\ \A i \in 1 .. Len(gamestates) : gamestates[i].level < level
    BY <2>1 DEF Levels
  <2>5. ASSUME NEW i \in 1 .. Len(gamestates')
        PROVE  client'.level < gamestates'[i].level /\ gamestates'[i].level <= level'
    BY <2>1, <2>2, <2>4, <1>5, <1>12, <1>13 DEF Levels
  <2>6. ASSUME NEW i \in 1 .. Len(gamestates'), NEW j \in 1 .. Len(gamestates'), i < j
        PROVE  gamestates'[i].level < gamestates'[j].level
    <3>1. i \in 1 .. Len(gamestates) /\ gamestates'[i] = gamestates[i]
      BY <2>6, <1>12, <1>13
    <3>2. CASE j \in 1 .. Len(gamestates) /\ gamestates'[j] = gamestates[j]
      BY <3>1, <3>2, <2>1, <2>6 DEF Levels
    <3>3. CASE c.gamestate = 0 /\ gamestates'[j].level = level BY <3>1, <3>3, <2>4
    <3> QED BY <3>2, <3>3, <1>13
  <2>7. ASSUME g = 0 PROVE client'.level < level' /\ \A i \in 1 .. Len(gamestates') : gamestates'[i].level < level'
    <3>1. CASE level' = level /\ c.gamestate = 0
      BY <3>1, <2>4, <2>7, <1>5, <1>13
    <3>2. CASE level' = level + 1
      <4>1. \A i \in 1 .. Len(gamestates') : i \in 1 .. Len(gamestates) /\ gamestates'[i] = gamestates[i]
        BY <2>7, <1>13
      <4>2. client.level <= level /\ \A i \in 1 .. Len(gamestates) : gamestates[i].level <= level
        BY <2>1 DEF Levels
      <4> QED BY <4>1, <4>2, <3>2, <1>5, <1>12
    <3> QED BY <3>1, <3>2, <2>7
  <2> QED BY <2>3, <2>5, <2>6, <2>7, <1>6 DEF Levels
<1>19. Sorted(toServer)'
  <2>1. Sorted(in) BY DEF Sound
  <2> QED BY <2>1, <1>5 DEF Sorted
<1>20. Playing(cl, toServer)'
  <2>1. Playing(c, in) BY DEF Sound
  <2> QED BY <2>1, <1>5, <1>6 DEF Playing
<1>21. Bounded(cl, toServer)'
  <2>1. Bounded(c, in) BY DEF Sound
  <2>2. client'.sequence <= cl'.sent BY <2>1, <1>3, <1>5, <1>6, <1>12 DEF Bounded
  <2>3. \A i \in 1 .. Len(toServer') : toServer'[i].acknowledge <= cl'.sent
    <3>1. \A i \in 1 .. Len(in) : in[i].acknowledge \in Nat BY InputFields
    <3> QED BY <2>1, <3>1, <1>3, <1>6 DEF Bounded
  <2>4. ASSUME NEW i \in 1 .. Len(gamestates') PROVE gamestates'[i].sequence <= cl'.sent
    <3>1. CASE gamestates'[i].sequence = c.sequence BY <3>1, <1>3, <1>6
    <3>2. CASE i \in 1 .. Len(gamestates) /\ gamestates'[i] = gamestates[i]
      <4>1. gamestates[i].sequence <= c.sent /\ gamestates[i].sequence \in Nat
        BY <3>2, <2>1, <1>12 DEF Bounded
      <4> QED BY <4>1, <3>2, <1>3, <1>6
    <3> QED BY <3>1, <3>2, <1>13
  <2>5. LastOf(m) <= c.sequence
    <3>1. m.first + Len(m.commands) - 1 = upto BY <1>3, <1>8, <1>9
    <3> QED BY <3>1, <1>9 DEF LastOf
  <2>6. \A i \in 1 .. Len(toClient) : LastOf(toClient[i]) <= c.sequence
    BY <2>1, <1>3, <1>12 DEF Bounded
  <2>7. \A i \in 1 .. Len(toClient') : LastOf(toClient'[i]) <= cl'.sent
    BY <2>5, <2>6, <1>6, <1>10
  <2>8. \A i \in 1 .. Len(toClient') : 1 <= toClient'[i].first
    <3>1. 1 <= m.first BY <1>3, <1>8
    <3>2. \A i \in 1 .. Len(toClient) : 1 <= toClient[i].first BY <2>1 DEF Bounded
    <3> QED BY <3>1, <3>2, <1>10
  <2> QED BY <2>2, <2>3, <2>4, <2>7, <2>8 DEF Bounded
<1>22. Near'
  <2>1. Near /\ Bounded(c, in) BY DEF Sound
  <2>2. c.sequence < m.first + MaxCommands BY <1>3, <1>8
  <2>3. ASSUME NEW x \in Done PROVE x[1] < m.first + MaxCommands
    <3>1. x \in Said BY DEF Said
    <3>2. x[1] \in Nat /\ x[1] <= c.sent BY <3>1, <1>1 DEF Ringed
    <3> QED BY ONLY <3>2, <2>2, <1>3, <1>8
  <2>4. \A i \in 1 .. Len(toClient) : LastOf(toClient[i]) < m.first + MaxCommands
    <3>1. m.first \in Nat BY <1>3, <1>8
    <3>2. \A i \in 1 .. Len(toClient) : LastOf(toClient[i]) <= c.sent BY <2>1 DEF Bounded
    <3>3. \A i \in 1 .. Len(toClient) : LastOf(toClient[i]) \in Int BY <1>12
    <3>4. c.sent \in Nat /\ c.sequence \in Nat /\ c.sent <= c.sequence BY <1>3
    <3> QED BY ONLY <3>1, <3>2, <3>3, <3>4, <2>2, RingSize
  <2>5. ASSUME NEW i \in 1 .. Len(toClient'), NEW x \in Done
        PROVE  x[1] < toClient'[i].first + MaxCommands
    BY <2>1, <2>3, <1>10 DEF Near
  <2>6. ASSUME NEW i \in 1 .. Len(toClient'), NEW j \in 1 .. Len(toClient'), i < j
        PROVE  LastOf(toClient'[i]) < toClient'[j].first + MaxCommands
    <3>1. i + d \in 1 .. Len(toClient) /\ toClient'[i] = toClient[i + d]
      BY <2>6, <1>10, <1>11
    <3>2. CASE toClient'[j] = m BY <3>1, <3>2, <2>4
    <3>3. CASE j + d \in 1 .. Len(toClient) /\ toClient'[j] = toClient[j + d]
      <4>1. i + d < j + d BY <2>6, <1>11
      <4> QED BY <3>1, <3>3, <4>1, <2>1 DEF Near
    <3> QED BY <3>2, <3>3, <1>10
  <2> QED BY <2>5, <2>6, <1>14 DEF Near
<1>23. Keys(cl, toServer)'
  <2>1. Keys(c, in) BY DEF Sound
  <2>2. \A n \in Nat : n + MaxCommands <= c.sent => n + MaxCommands <= c.sequence BY <1>3
  <2>3. \A i \in 1 .. Len(in) : in[i].acknowledge \in Nat BY InputFields
  <2>4. \A x \in Done : x[1] \in Nat
    <3>1. \A x \in Said : x \in Nat \X Entry BY <1>1 DEF Ringed
    <3> QED BY <3>1 DEF Said
  <2>5. \A n : Slot(client', n) = Slot(client, n) BY <1>5
  <2> QED BY <2>1, <2>2, <2>3, <2>4, <2>5, <1>5, <1>6, <1>14 DEF Keys
<1>24. Completed(cl, toServer)'
  <2>1. Completed(c, in) BY DEF Sound
  <2>3. m.first - 1 = c.acknowledge BY <1>3, <1>8
  <2> SUFFICES ASSUME ~overtaken
               PROVE  /\ Complete(client.sequence) /\ Complete(c.acknowledge)
                      /\ \A i \in 1 .. Len(in) : Complete(in[i].acknowledge)
                      /\ \A i \in 1 .. Len(toClient') : Complete(toClient'[i].first - 1)
    BY <1>5, <1>6 DEF Completed, Complete
  <2>4. Complete(client.sequence) /\ Complete(c.acknowledge) BY <2>1 DEF Completed
  <2>5. \A i \in 1 .. Len(in) : Complete(in[i].acknowledge) BY <2>1 DEF Completed
  <2>6. \A i \in 1 .. Len(toClient) : Complete(toClient[i].first - 1) BY <2>1 DEF Completed
  <2>7. \A i \in 1 .. Len(toClient') : Complete(toClient'[i].first - 1) BY <2>3, <2>4, <2>6, <1>10
  <2> QED BY <2>4, <2>5, <2>7
<1>25. Pledges(cl)'
  <2>1. Pledges(c) BY DEF Sound
  <2>2. Ids' = Ids BY <1>5 DEF Ids
  <2>3. PendingOf(cl') = PendingOf(c)
    <3>1. \A n : Slot(cl', n) = Slot(c, n) BY <1>6 DEF Slot
    <3> QED BY <3>1, <1>6 DEF PendingOf
  <2>4. ASSUME m.snapshot PROVE PendingOf(c) \subseteq IdsOf(m)
    <3>1. upto = c.sequence BY <2>4, <1>8
    <3>2. ASSUME NEW n \in c.acknowledge + 1 .. c.sequence PROVE Slot(c, n).id \in IdsOf(m)
      <4>1. PICK k \in Nat : k = n - c.acknowledge BY <1>3
      <4>2. k \in 1 .. Len(m.commands) /\ c.acknowledge + k = n BY <4>1, <3>1, <1>3, <1>8
      <4> QED BY <4>2, <1>8 DEF IdsOf
    <3> QED BY <3>2 DEF PendingOf
  <2> SUFFICES ASSUME ~overtaken
               PROVE  /\ cl'.pledged \subseteq Ids' \cup PendingOf(cl')
                      /\ snapshot' \subseteq Ids'
                      /\ \A i \in 1 .. Len(toClient') :
                           toClient'[i].snapshot => toClient'[i].pledged \subseteq Ids' \cup IdsOf(toClient'[i])
    BY <1>5 DEF Pledges
  <2>5. /\ c.pledged \subseteq Ids \cup PendingOf(c)
        /\ snapshot \subseteq Ids
        /\ \A i \in 1 .. Len(toClient) :
             toClient[i].snapshot => toClient[i].pledged \subseteq Ids \cup IdsOf(toClient[i])
    BY <2>1 DEF Pledges
  <2>6. m.snapshot => m.pledged \subseteq Ids \cup IdsOf(m) BY <2>4, <2>5, <1>8
  <2>7. \A i \in 1 .. Len(toClient') :
          toClient'[i].snapshot => toClient'[i].pledged \subseteq Ids \cup IdsOf(toClient'[i])
    BY <2>5, <2>6, <1>10
  <2> QED BY <2>2, <2>3, <2>5, <2>7, <1>5, <1>6
<1> QED BY <1>16, <1>17, <1>18, <1>19, <1>20, <1>21, <1>22, <1>23, <1>24, <1>25 DEF Sound

\* A new level for a client that does not play: it is to get a gamestate.
LEMMA LevelSound ==
  ASSUME TypeOK, Sound(cl, toServer, issued), cl.state = "connected",
         level' = level + 1, cl' = [cl EXCEPT !.state = "connected", !.gamestate = 0],
         UNCHANGED <<issued, toClient, toServer, gamestates, clientVars>>
  PROVE  Sound(cl, toServer, issued)'
<1>1. PICK f \in Nat : Low(toServer, f) /\ Ringed(cl, Said, f, issued) BY DEF Sound, RingAgrees
<1>2. cl \in ClientT BY <1>1 DEF Ringed
<1>3. /\ cl'.state = "connected" /\ cl'.gamestate = 0 /\ cl'.sequence = cl.sequence
      /\ cl'.acknowledge = cl.acknowledge
      /\ cl'.sent = cl.sent /\ cl'.commands = cl.commands /\ cl'.delayDrop = cl.delayDrop
      /\ cl'.pledged = cl.pledged
  <2> HIDE DEF Ring
  <2> QED BY <1>2 DEF ClientT
<1>4. /\ issued' = issued /\ toClient' = toClient /\ toServer' = toServer
      /\ gamestates' = gamestates
      /\ client' = client /\ executed' = executed /\ overtaken' = overtaken /\ snapshot' = snapshot
  BY DEF clientVars
<1>5. Said' = Said BY <1>4 DEF Said, Done
<1>6. RingAgrees(cl, toServer, issued)'
  <2>1. Ringed(cl', Said, f, issued)
    <3>1. issued \in Nat /\ cl.state # "active" /\ 0 \in 0 .. 2 BY Typed
    <3> QED BY <3>1, <1>1, RestateRinged
  <2>2. Low(toServer, f)' BY <1>1, <1>4 DEF Low
  <2> QED BY <2>1, <2>2, <1>4, <1>5 DEF RingAgrees
<1>7. Unique(Said)' BY <1>5 DEF Sound
<1>8. Levels(cl)'
  <2>1. Levels(cl) BY DEF Sound
  <2>2. \A l \in Nat : l <= level => l < level + 1 BY Typed
  <2>3. client.level \in Nat /\ \A i \in 1 .. Len(gamestates) : gamestates[i].level \in Nat BY Typed
  <2>4. client.level < level + 1 /\ \A i \in 1 .. Len(gamestates) : gamestates[i].level < level + 1
    BY <2>1, <2>2, <2>3 DEF Levels
  <2>5. \A l \in Nat : l < level + 1 => l <= level + 1 BY Typed
  <2>6. client.level <= level + 1 /\ \A i \in 1 .. Len(gamestates) : gamestates[i].level <= level + 1
    BY <2>3, <2>4, <2>5
  <2> QED BY <2>1, <2>4, <2>6, <1>3, <1>4 DEF Levels
<1>9. Sorted(toServer)' BY <1>4 DEF Sound, Sorted
<1>10. Playing(cl, toServer)' BY <1>3 DEF Playing
<1>11. Bounded(cl, toServer)' BY <1>3, <1>4 DEF Sound, Bounded
<1>12. Near' BY <1>4 DEF Sound, Near, Done
<1>13. Keys(cl, toServer)' BY <1>3, <1>4 DEF Sound, Keys, Done
<1>14. Completed(cl, toServer)' BY <1>3, <1>4 DEF Sound, Completed, Complete
<1>15. Pledges(cl)'
  <2>1. \A n : Slot(cl', n) = Slot(cl, n) BY <1>3 DEF Slot
  <2>2. PendingOf(cl') = PendingOf(cl) BY <2>1, <1>3 DEF PendingOf
  <2> QED BY <2>2, <1>3, <1>4 DEF Sound, Pledges, Ids
<1> QED BY <1>6, <1>7, <1>8, <1>9, <1>10, <1>11, <1>12, <1>13, <1>14, <1>15 DEF Sound

-----------------------------------------------------------------------------
(* The client.                                                             *)

\* The ring agrees with less.
LEMMA RingedLess ==
  ASSUME NEW c, NEW S, NEW T, T \subseteq S, NEW f, NEW b, Ringed(c, S, f, b)
  PROVE  Ringed(c, T, f, b)
BY DEF Ringed

\* A message of the client acknowledges what the client has, under a key that was executed.
LEMMA ClientSendsKeeps ==
  ASSUME TypeOK, Sound(cl, toServer, issued), ClientSends
  PROVE  TypeOK' /\ Sound(cl, toServer, issued)'
<1>1. PICK m : m = [acknowledge |-> client.sequence, key |-> Slot(client, client.sequence),
                    level |-> client.level]
  OBVIOUS
<1>2. /\ client.sequence \in Nat /\ client.commands \in Ring /\ client.level \in Nat
      /\ toServer \in Seq(Input) /\ level \in Nat
  BY Typed
<1>3. m \in Input BY <1>1, <1>2, SlotEntry DEF Input
<1>4. m.acknowledge = client.sequence /\ m.key = Slot(client, client.sequence) /\ m.level = client.level
  BY <1>1
<1>5. PICK t : t = toServer' OBVIOUS
<1>6. t = Sent(toServer, m) BY <1>1, <1>5 DEF ClientSends
<1>7. t \in Seq(Input) BY <1>2, <1>3, <1>6, SentFacts
<1>8. PICK d \in {0, 1} : Pushed(t, toServer, m, d) BY <1>2, <1>3, <1>6, SentFacts
<1>9. PICK n \in Nat : n = Len(toServer) - d BY <1>8 DEF Pushed
<1>10. /\ Len(t) = n + 1 /\ t[Len(t)] = m
       /\ \A i \in 1 .. n : i + d \in 1 .. Len(toServer) /\ t[i] = toServer[i + d]
  BY <1>8, <1>9 DEF Pushed
<1>11. \A i \in 1 .. Len(t) : \/ i = Len(t) /\ t[i] = m
                              \/ i < Len(t) /\ i + d \in 1 .. Len(toServer) /\ t[i] = toServer[i + d]
  <2>1. Len(t) = n + 1 BY <1>10
  <2>2. \A i \in 1 .. Len(t) : i = Len(t) \/ (i \in 1 .. n /\ i < Len(t)) BY <2>1, <1>9
  <2> QED BY <2>2, <1>10
<1>12. Len(t) \in Nat BY <1>7
<1>13. /\ cl' = cl /\ level' = level /\ issued' = issued /\ toClient' = toClient
       /\ gamestates' = gamestates /\ forgiven' = forgiven
       /\ client' = client /\ executed' = executed /\ overtaken' = overtaken /\ snapshot' = snapshot
  BY DEF ClientSends, clientVars
<1>14. TypeOK'
  <2>1. toServer' \in Seq([acknowledge : Nat, key : Entry, level : Nat]) BY <1>5, <1>7 DEF Input
  <2> QED BY <2>1, <1>13 DEF TypeOK
<1>15. Said' = Said BY <1>13 DEF Said, Done
<1>16. RingAgrees(cl, toServer, issued)'
  <2>1. PICK f \in Nat : Low(toServer, f) /\ Ringed(cl, Said, f, issued) BY DEF Sound, RingAgrees
  <2>2. \A i \in 1 .. Len(t) : f <= t[i].acknowledge BY <2>1, <1>4, <1>11 DEF Low
  <2>3. Low(toServer, f)' BY <2>1, <2>2, <1>5, <1>13 DEF Low
  <2> QED BY <2>1, <2>3, <1>13, <1>15 DEF RingAgrees
<1>17. Sorted(toServer)'
  <2>1. Sorted(toServer) BY DEF Sound
  <2>2. ASSUME NEW i \in 1 .. Len(t)
        PROVE  t[i].level <= client.level /\ (t[i].level = client.level => t[i].acknowledge <= client.sequence)
    BY <2>1, <1>2, <1>4, <1>11 DEF Sorted
  <2>3. ASSUME NEW i \in 1 .. Len(t), NEW j \in 1 .. Len(t), i < j
        PROVE  t[i].level <= t[j].level /\ (t[i].level = t[j].level => t[i].acknowledge <= t[j].acknowledge)
    <3>1. i + d \in 1 .. Len(toServer) /\ t[i] = toServer[i + d] BY <2>3, <1>11, <1>12
    <3>2. CASE t[j] = m BY <3>2, <2>2, <1>4
    <3>3. CASE j + d \in 1 .. Len(toServer) /\ t[j] = toServer[j + d]
      <4>1. i + d < j + d BY <2>3, <1>12
      <4> QED BY <4>1, <3>1, <3>3, <2>1 DEF Sorted
    <3> QED BY <3>2, <3>3, <1>11
  <2> QED BY <2>2, <2>3, <1>5, <1>13 DEF Sorted
<1>18. Playing(cl, toServer)'
  <2>1. Playing(cl, toServer) BY DEF Sound
  <2> QED BY <2>1, <1>4, <1>5, <1>11, <1>13 DEF Playing
<1>19. Bounded(cl, toServer)'
  <2>1. Bounded(cl, toServer) BY DEF Sound
  <2> QED BY <2>1, <1>4, <1>5, <1>11, <1>13 DEF Bounded
<1>20. Keys(cl, toServer)'
  <2>1. Keys(cl, toServer) BY DEF Sound
  <2> SUFFICES ASSUME ~overtaken, NEW i \in 1 .. Len(t)
               PROVE  \/ <<t[i].acknowledge, t[i].key>> \in Done
                      \/ t[i].acknowledge + MaxCommands <= cl.sent
    BY <2>1, <1>5, <1>13 DEF Keys, Done
  <2>2. CASE t[i] = m
    <3>1. PICK x \in Done : x[1] = client.sequence BY <2>1 DEF Keys
    <3>2. Slot(client, x[1]) = x[2] \/ x[1] + MaxCommands <= cl.sent BY <2>1 DEF Keys
    <3>3. x = <<x[1], x[2]>>
      <4>1. executed \subseteq Nat \X Entry BY Typed
      <4> QED BY <4>1 DEF Done
    <3> QED BY <2>2, <3>1, <3>2, <3>3, <1>4
  <2>3. CASE i + d \in 1 .. Len(toServer) /\ t[i] = toServer[i + d] BY <2>1, <2>3 DEF Keys
  <2> QED BY <2>2, <2>3, <1>11
<1>21. Completed(cl, toServer)'
  <2>1. Completed(cl, toServer) BY DEF Sound
  <2>2. ~overtaken => \A i \in 1 .. Len(t) : Complete(t[i].acknowledge)
    BY <2>1, <1>4, <1>11 DEF Completed
  <2> QED BY <2>1, <2>2, <1>5, <1>13 DEF Completed, Complete
<1>22. Unique(Said)' /\ Levels(cl)' /\ Near' /\ Pledges(cl)'
  BY <1>13, <1>15 DEF Sound, Levels, Near, Done, Pledges, Ids
<1> QED BY <1>14, <1>16, <1>17, <1>18, <1>19, <1>20, <1>21, <1>22 DEF Sound

\* A gamestate is of a level the client was not in, and has no number that was not sent.
LEMMA ClientTakesGameStateKeeps ==
  ASSUME TypeOK, ClientTakesGameState
  PROVE  TypeOK' /\ (Sound(cl, toServer, issued) => Sound(cl, toServer, issued)')
<1>1. PICK g : g = Head(gamestates) OBVIOUS
<1>2. gamestates \in Seq(GameState) /\ Len(gamestates) \in Nat BY Typed
<1>3. gamestates # << >> BY DEF ClientTakesGameState
<1>4. PICK t : t = gamestates' OBVIOUS
<1>5. /\ t \in Seq(GameState) /\ Len(t) = Len(gamestates) - 1 /\ g = gamestates[1]
      /\ \A i \in 1 .. Len(t) : t[i] = gamestates[i + 1]
  BY <1>1, <1>2, <1>3, <1>4, HeadTailProperties DEF ClientTakesGameState
<1>6. Len(gamestates) >= 1 /\ 1 \in 1 .. Len(gamestates) BY <1>2, <1>3
<1>7. \A i \in 1 .. Len(t) : i + 1 \in 1 .. Len(gamestates) /\ 1 < i + 1 BY <1>2, <1>5
<1>8. g.sequence \in Nat /\ g.level \in Nat BY <1>5, <1>6, Typed
<1>9. /\ cl' = cl /\ level' = level /\ issued' = issued /\ toClient' = toClient
      /\ toServer' = toServer /\ forgiven' = forgiven
      /\ executed' = executed /\ snapshot' = snapshot
      /\ client' = [client EXCEPT !.sequence = g.sequence, !.level = g.level]
      /\ overtaken' = (overtaken \/ \E n \in 1 .. g.sequence : \A x \in executed : x[1] # n)
  BY <1>1 DEF ClientTakesGameState
<1>10. client \in [sequence : Nat, commands : Ring, level : Nat] BY DEF TypeOK
<1>11. /\ client' \in [sequence : Nat, commands : Ring, level : Nat]
       /\ client'.sequence = g.sequence /\ client'.level = g.level
       /\ client'.commands = client.commands
  <2> HIDE DEF Ring
  <2> QED BY <1>8, <1>9, <1>10
<1>12. TypeOK'
  <2>1. gamestates' \in Seq([sequence : Nat, level : Nat]) BY <1>4, <1>5 DEF GameState
  <2>2. overtaken' \in BOOLEAN BY <1>9
  <2> QED BY <2>1, <2>2, <1>9, <1>11 DEF TypeOK
<1> SUFFICES ASSUME Sound(cl, toServer, issued) PROVE Sound(cl, toServer, issued)'
  BY <1>12
<1>13. Said' = Said /\ Done' = Done BY <1>9 DEF Said, Done
<1>14. ~overtaken' => ~overtaken /\ Complete(g.sequence) BY <1>9 DEF Complete
<1>15. RingAgrees(cl, toServer, issued)'
  <2>1. PICK f \in Nat : Low(toServer, f) /\ Ringed(cl, Said, f, issued) BY DEF Sound, RingAgrees
  <2>2. \A i \in 1 .. Len(t) : f <= t[i].sequence BY <2>1, <1>5, <1>7 DEF Low
  <2>3. f <= g.sequence BY <2>1, <1>5, <1>6 DEF Low
  <2>4. Low(toServer, f)' BY <2>1, <2>2, <2>3, <1>4, <1>9, <1>11 DEF Low
  <2> QED BY <2>1, <2>4, <1>9, <1>13 DEF RingAgrees
<1>16. Levels(cl) /\ client.level \in Nat BY Typed DEF Sound
<1>17. Levels(cl)'
  <2>1. g.level <= level /\ \A i \in 1 .. Len(t) : g.level < t[i].level /\ t[i].level <= level
    BY <1>5, <1>6, <1>7, <1>16 DEF Levels
  <2>2. \A i, j \in 1 .. Len(t) : i < j => i + 1 < j + 1 BY <1>2, <1>5
  <2>3. \A i, j \in 1 .. Len(t) : i < j => t[i].level < t[j].level
    BY <2>2, <1>5, <1>7, <1>16 DEF Levels
  <2>4. cl.gamestate = 0 => g.level < level /\ \A i \in 1 .. Len(t) : t[i].level < level
    BY <1>5, <1>6, <1>7, <1>16 DEF Levels
  <2> QED BY <2>1, <2>3, <2>4, <1>4, <1>9, <1>11 DEF Levels
<1>18. Sorted(toServer)'
  <2>1. Sorted(toServer) BY DEF Sound
  <2>2. client.level < g.level BY <1>5, <1>6, <1>16 DEF Levels
  <2>3. \A i \in 1 .. Len(toServer) : toServer[i].level \in Nat BY InputFields, Typed
  <2>4. \A i \in 1 .. Len(toServer) : toServer[i].level < g.level
    BY <2>1, <2>2, <2>3, <1>8, <1>16 DEF Sorted
  <2>5. \A i \in 1 .. Len(toServer) : toServer[i].level <= g.level /\ toServer[i].level # g.level
    BY <2>3, <2>4, <1>8
  <2> QED BY <2>1, <2>5, <1>9, <1>11 DEF Sorted
<1>19. Playing(cl, toServer)'
  <2>1. cl.state # "active" BY <1>6, PlayingAlone
  <2> QED BY <2>1, <1>9 DEF Playing
<1>20. Bounded(cl, toServer)'
  <2>1. Bounded(cl, toServer) BY DEF Sound
  <2>2. g.sequence <= cl.sent /\ \A i \in 1 .. Len(t) : t[i].sequence <= cl.sent
    BY <2>1, <1>5, <1>6, <1>7 DEF Bounded
  <2> QED BY <2>1, <2>2, <1>4, <1>9, <1>11 DEF Bounded
<1>21. Keys(cl, toServer)'
  <2>1. Keys(cl, toServer) BY DEF Sound
  <2>2. \A n : Slot(client', n) = Slot(client, n) BY <1>11 DEF Slot
  <2>3. ASSUME Complete(g.sequence) PROVE \E x \in Done : x[1] = g.sequence
    <3>1. CASE g.sequence = 0
      <4>1. <<0, Blank>> \in Done /\ <<0, Blank>>[1] = 0 BY DEF Done
      <4> QED BY <4>1, <3>1
    <3>2. CASE g.sequence # 0
      <4>1. g.sequence \in 1 .. g.sequence BY <3>2, <1>8
      <4> QED BY <4>1, <2>3 DEF Complete, Done
    <3> QED BY <3>1, <3>2
  <2> QED BY <2>1, <2>2, <2>3, <1>9, <1>11, <1>13, <1>14 DEF Keys
<1>22. Completed(cl, toServer)'
  <2>1. Completed(cl, toServer) BY DEF Sound
  <2> QED BY <2>1, <1>9, <1>11, <1>14 DEF Completed, Complete
<1>23. Pledges(cl)' BY <1>9, <1>14 DEF Sound, Pledges, Ids
<1>24. Unique(Said)' /\ Near' BY <1>9, <1>13 DEF Sound, Near
<1> QED BY <1>15, <1>17, <1>18, <1>19, <1>20, <1>21, <1>22, <1>23, <1>24 DEF Sound

\* The numbers of message m that are new to the client, and what it says of one.
NewIn(m) == {n \in client.sequence + 1 .. LastOf(m) : n >= m.first}
Says(m, n) == m.commands[n - m.first + 1]

\* What a message says that is new to the client is in it.
LEMMA NewFacts ==
  ASSUME TypeOK, NEW m \in Message
  PROVE  /\ LastOf(m) \in Int
         /\ \A n \in NewIn(m) : /\ n \in Nat /\ m.first <= n /\ n <= LastOf(m) /\ client.sequence < n
                                /\ n - m.first + 1 \in 1 .. Len(m.commands)
                                /\ Says(m, n) \in Entry /\ <<n, Says(m, n)>> \in Carried(m)
         /\ NewIn(m) # {} => LastOf(m) \in NewIn(m)
         /\ \A k \in 1 .. Len(m.commands) :
              m.first + k - 1 \in NewIn(m) \/ m.first + k - 1 <= client.sequence
<1>1. /\ client.sequence \in Nat /\ m.first \in Nat /\ m.commands \in Seq(Entry)
      /\ Len(m.commands) \in Nat
  BY Typed DEF Message
<1>2. PICK last \in Int : last = LastOf(m) BY <1>1 DEF LastOf
<1>3. last = m.first + Len(m.commands) - 1 BY <1>2 DEF LastOf
<1>4. ASSUME NEW n \in NewIn(m)
      PROVE  /\ n \in Nat /\ m.first <= n /\ n <= last /\ client.sequence < n
             /\ n - m.first + 1 \in 1 .. Len(m.commands)
             /\ Says(m, n) \in Entry /\ <<n, Says(m, n)>> \in Carried(m)
  <2>1. n \in Nat /\ m.first <= n /\ n <= last /\ client.sequence < n BY <1>1, <1>2 DEF NewIn
  <2>2. PICK k \in Int : k = n - m.first + 1 BY <1>1, <2>1
  <2>3. k \in 1 .. Len(m.commands) /\ m.first + k - 1 = n BY <1>1, <1>3, <2>1, <2>2
  <2>4. m.commands[k] \in Entry BY <1>1, <2>3
  <2> QED BY <2>1, <2>2, <2>3, <2>4 DEF Says, Carried
<1>5. NewIn(m) # {} => last \in NewIn(m)
  <2> SUFFICES ASSUME NEW n \in NewIn(m) PROVE last \in NewIn(m) OBVIOUS
  <2>0. n \in Nat /\ m.first <= n /\ n <= last /\ client.sequence < n BY <1>4
  <2>1. last >= m.first /\ last \in client.sequence + 1 .. last BY <2>0, <1>1, <1>2
  <2> QED BY <2>1, <1>2 DEF NewIn
<1>6. \A k \in 1 .. Len(m.commands) :
        m.first + k - 1 \in NewIn(m) \/ m.first + k - 1 <= client.sequence
  <2> SUFFICES ASSUME NEW k \in 1 .. Len(m.commands), ~(m.first + k - 1 <= client.sequence)
               PROVE  m.first + k - 1 \in NewIn(m)
    OBVIOUS
  <2>1. PICK n \in Int : n = m.first + k - 1 BY <1>1
  <2>2. n \in client.sequence + 1 .. last /\ n >= m.first BY <2>1, <1>1, <1>3
  <2> QED BY <2>1, <2>2, <1>2 DEF NewIn
<1> QED BY <1>2, <1>4, <1>5, <1>6

\* The ring of the client after message i: a place has the last new command that goes
\* there, or what it had.
LEMMA ReadFacts ==
  ASSUME TypeOK, NEW i \in 1 .. Len(toClient), ClientReads(i)
  PROVE  LET m == toClient[i] IN
           /\ client' \in [sequence : Nat, commands : Ring, level : Nat]
           /\ client'.level = client.level
           /\ client'.sequence = IF NewIn(m) = {} THEN client.sequence ELSE LastOf(m)
           /\ \A p \in Nat :
                \/ client'.commands[p % MaxCommands] = client.commands[p % MaxCommands]
                   /\ \A n \in NewIn(m) : n % MaxCommands # p % MaxCommands
                \/ \E n \in NewIn(m) :
                     /\ n % MaxCommands = p % MaxCommands
                     /\ \A k \in NewIn(m) : k % MaxCommands = p % MaxCommands => k <= n
                     /\ client'.commands[p % MaxCommands] = Says(m, n)
           /\ executed' = executed \cup {<<n, Says(m, n)>> : n \in NewIn(m)}
<1> DEFINE m == toClient[i]
<1> DEFINE new == NewIn(m)
<1> DEFINE Here(s) == {n \in new : n % MaxCommands = s}
<1> DEFINE Top(s) == CHOOSE n \in Here(s) : \A k \in Here(s) : k <= n
<1> DEFINE w == [s \in 0 .. MaxCommands - 1 |->
                   IF Here(s) = {} THEN client.commands[s] ELSE Says(m, Top(s))]
<1>1. m \in Message BY Typed
<1>2. /\ LastOf(m) \in Int
      /\ \A n \in new : n \in Nat /\ n <= LastOf(m) /\ Says(m, n) \in Entry
      /\ new # {} => LastOf(m) \in new
  BY <1>1, NewFacts
<1>3. client \in [sequence : Nat, commands : Ring, level : Nat] BY DEF TypeOK
<1>4. executed' = executed \cup {<<n, Says(m, n)>> : n \in new}
  BY DEF ClientReads, NewIn, Says, LastOf
<1>5. client' = IF new = {} THEN client
                ELSE [client EXCEPT !.sequence = LastOf(m), !.commands = w]
  BY DEF ClientReads, NewIn, Says, LastOf
<1>6. client' = IF new = {} THEN client ELSE [client EXCEPT !.sequence = LastOf(m), !.commands = w]
  BY <1>5
<1> HIDE DEF m
<1>7. ASSUME NEW s, Here(s) # {} PROVE Top(s) \in Here(s) /\ \A k \in Here(s) : k <= Top(s)
  <2>1. Here(s) \subseteq Nat /\ (\A k \in Here(s) : k <= LastOf(m)) BY <1>2
  <2>2. LastOf(m) \in Nat BY <1>2, <1>7
  <2> HIDE DEF Here
  <2>3. \E t \in Here(s) : \A k \in Here(s) : k <= t BY <2>1, <2>2, <1>7, GreatestNumber
  <2> QED BY <2>3
<1>8. \A s : Here(s) \subseteq new /\ \A n \in new : n \in Here(s) <=> n % MaxCommands = s OBVIOUS
<1> HIDE DEF new, Here, Top
<1>9. w \in Ring
  <2>1. ASSUME NEW s \in 0 .. MaxCommands - 1
        PROVE  (IF Here(s) = {} THEN client.commands[s] ELSE Says(m, Top(s))) \in Entry
    <3>1. client.commands[s] \in Entry BY <1>3 DEF Ring
    <3> QED BY <3>1, <1>2, <1>7, <1>8
  <2> QED BY <2>1 DEF Ring
<1>10. \A s \in 0 .. MaxCommands - 1 :
         w[s] = IF Here(s) = {} THEN client.commands[s] ELSE Says(m, Top(s))
  OBVIOUS
<1> HIDE DEF w
<1>11. /\ client' \in [sequence : Nat, commands : Ring, level : Nat]
       /\ client'.level = client.level
       /\ client'.sequence = IF new = {} THEN client.sequence ELSE LastOf(m)
       /\ client'.commands = IF new = {} THEN client.commands ELSE w
  <2> HIDE DEF Ring
  <2>1. CASE new = {} BY <2>1, <1>3, <1>6
  <2>2. CASE new # {}
    <3>1. LastOf(m) \in Nat BY <2>2, <1>2
    <3>2. client' = [client EXCEPT !.sequence = LastOf(m), !.commands = w] BY <2>2, <1>6
    <3> QED BY <2>2, <3>1, <3>2, <1>3, <1>9
  <2> QED BY <2>1, <2>2
<1>12. ASSUME NEW p \in Nat
       PROVE  \/ client'.commands[p % MaxCommands] = client.commands[p % MaxCommands]
                 /\ \A n \in new : n % MaxCommands # p % MaxCommands
              \/ \E n \in new :
                   /\ n % MaxCommands = p % MaxCommands
                   /\ \A k \in new : k % MaxCommands = p % MaxCommands => k <= n
                   /\ client'.commands[p % MaxCommands] = Says(m, n)
  <2>1. PICK s : s = p % MaxCommands OBVIOUS
  <2>2. s \in 0 .. MaxCommands - 1 BY <2>1, RingSize, DivMod
  <2>3. CASE new = {} BY <2>3, <1>11
  <2>4. CASE new # {} /\ Here(s) = {} BY <2>1, <2>2, <2>4, <1>8, <1>10, <1>11
  <2>5. CASE new # {} /\ Here(s) # {}
    <3>1. PICK t : t = Top(s) OBVIOUS
    <3>2. t \in Here(s) /\ \A k \in Here(s) : k <= t BY <2>5, <3>1, <1>7
    <3>3. t \in new /\ t % MaxCommands = s /\ \A k \in new : k % MaxCommands = s => k <= t
      BY <3>2, <1>8
    <3>4. client'.commands[s] = Says(m, t) BY <2>2, <2>5, <3>1, <1>10, <1>11
    <3> QED BY <2>1, <3>3, <3>4
  <2> QED BY <2>3, <2>4, <2>5
<1> QED BY <1>4, <1>11, <1>12 DEF m, new

\* Reading a message executes what was said, and nothing of it twice.
LEMMA ClientReadsKeeps ==
  ASSUME TypeOK, Sound(cl, toServer, issued), NEW i \in 1 .. Len(toClient), ClientReads(i)
  PROVE  Sound(cl, toServer, issued)'
<1>1. PICK m : m = toClient[i] OBVIOUS
<1>2. PICK last : last = LastOf(m) OBVIOUS
<1>3. PICK new : new = NewIn(m) OBVIOUS
<1>4. PICK t : t = toClient' OBVIOUS
<1>5. /\ toClient \in Seq(Message) /\ Len(toClient) \in Nat /\ client.sequence \in Nat
      /\ executed \subseteq Nat \X Entry
      /\ m \in Message /\ m.first \in Nat /\ m.commands \in Seq(Entry) /\ Len(m.commands) \in Nat
  BY <1>1, Typed
<1>6. /\ cl' = cl /\ level' = level /\ issued' = issued /\ forgiven' = forgiven
      /\ overtaken' = overtaken /\ toServer' = toServer /\ gamestates' = gamestates
      /\ snapshot' = IF m.snapshot THEN m.pledged ELSE snapshot
      /\ t = SubSeq(toClient, i + 1, Len(toClient))
  BY <1>1, <1>4 DEF ClientReads
<1>7. /\ last \in Int
      /\ \A n \in new : /\ n \in Nat /\ m.first <= n /\ n <= last /\ client.sequence < n
                        /\ Says(m, n) \in Entry /\ <<n, Says(m, n)>> \in Carried(m)
      /\ new # {} => last \in new
      /\ \A k \in 1 .. Len(m.commands) :
           m.first + k - 1 \in new \/ m.first + k - 1 <= client.sequence
  BY <1>2, <1>3, <1>5, NewFacts
<1>8. /\ client'.level = client.level /\ client'.sequence \in Nat
      /\ client'.sequence = IF new = {} THEN client.sequence ELSE last
      /\ \A p \in Nat :
           \/ client'.commands[p % MaxCommands] = client.commands[p % MaxCommands]
              /\ \A n \in new : n % MaxCommands # p % MaxCommands
           \/ \E n \in new :
                /\ n % MaxCommands = p % MaxCommands
                /\ \A k \in new : k % MaxCommands = p % MaxCommands => k <= n
                /\ client'.commands[p % MaxCommands] = Says(m, n)
      /\ executed' = executed \cup {<<n, Says(m, n)>> : n \in new}
  BY <1>1, <1>2, <1>3, ReadFacts
<1>9. client.sequence <= client'.sequence
  <2>1. new # {} => client.sequence < last BY <1>7
  <2>2. new # {} => client.sequence <= last BY <2>1, <1>5, <1>7
  <2>3. client.sequence <= client.sequence BY <1>5
  <2> QED BY <2>2, <2>3, <1>8
<1>10. /\ Len(t) \in Nat
       /\ \A j \in 1 .. Len(t) : j + i \in 1 .. Len(toClient) /\ i < j + i /\ t[j] = toClient[j + i]
  <2>1. /\ Len(t) = Len(toClient) - i
        /\ \A j \in 1 .. Len(t) : j + i \in 1 .. Len(toClient) /\ t[j] = toClient[j + i]
        /\ t \in Seq(Message)
    BY <1>5, <1>6, RestFacts
  <2>2. Len(t) \in Nat BY <2>1
  <2>3. i \in Nat BY <1>5
  <2> QED BY <2>1, <2>2, <2>3
<1>11. PICK f \in Nat : Low(toServer, f) /\ Ringed(cl, Said, f, issued) BY DEF Sound, RingAgrees
<1>12. /\ cl \in ClientT /\ cl.sent \in Nat /\ MaxCommands \in Nat /\ MaxCommands >= 2
       /\ \A x \in Said : x \in Nat \X Entry /\ x[1] \in Nat
  <2>1. Said \subseteq Nat \X Entry BY <1>11 DEF Ringed
  <2> QED BY <2>1, <1>11, ClientTFields, RingSize DEF Ringed
<1>13. Bounded(cl, toServer) BY DEF Sound
<1>14. last <= cl.sent /\ 1 <= m.first BY <1>1, <1>2, <1>13 DEF Bounded
<1>15. Near BY DEF Sound
<1>16. Unique(Said) BY DEF Sound
\* All that is done was said.
<1>17. Carried(m) \subseteq Said BY <1>1 DEF Said
<1>18. \A n \in new : <<n, Says(m, n)>> \in Said BY <1>7, <1>17
<1>19. Done \subseteq Said BY DEF Said
<1>20. \A x \in Done' : x \in Done \/ \E n \in new : x = <<n, Says(m, n)>> BY <1>8 DEF Done
<1>21. Done \subseteq Done' /\ executed \subseteq executed' BY <1>8 DEF Done
<1>22. Said' \subseteq Said
  <2> SUFFICES ASSUME NEW x \in Said' PROVE x \in Said OBVIOUS
  <2>1. CASE x \in Done' BY <2>1, <1>18, <1>19, <1>20
  <2>2. CASE x \notin Done'
    <3>1. PICK j \in 1 .. Len(t) : x \in Carried(t[j]) BY <2>2, <1>4 DEF Said
    <3> QED BY <3>1, <1>10 DEF Said
  <2> QED BY <2>1, <2>2
<1>23. RingAgrees(cl, toServer, issued)'
  <2>1. Ringed(cl, Said', f, issued) BY <1>11, <1>22, RingedLess
  <2>2. f <= client'.sequence BY <1>5, <1>8, <1>9, <1>11 DEF Low
  <2>3. Low(toServer, f)' BY <2>2, <1>6, <1>11 DEF Low
  <2> QED BY <2>1, <2>3, <1>6 DEF RingAgrees
<1>24. Unique(Said)' BY <1>16, <1>22 DEF Unique
<1>25. Levels(cl)' BY <1>6, <1>8 DEF Sound, Levels
<1>26. Sorted(toServer)'
  <2>1. Sorted(toServer) BY DEF Sound
  <2>2. \A j \in 1 .. Len(toServer) : toServer[j].acknowledge \in Nat BY InputFields, Typed
  <2>3. \A j \in 1 .. Len(toServer) :
          toServer[j].acknowledge <= client.sequence => toServer[j].acknowledge <= client'.sequence
    BY <2>2, <1>5, <1>8, <1>9
  <2> QED BY <2>1, <2>3, <1>6, <1>8 DEF Sorted
<1>27. Playing(cl, toServer)'
  <2>1. Playing(cl, toServer) BY DEF Sound
  <2>2. cl.acknowledge <= client.sequence => cl.acknowledge <= client'.sequence
    BY <1>5, <1>8, <1>9, <1>12, ClientTFields
  <2> QED BY <2>1, <2>2, <1>6, <1>8 DEF Playing
<1>28. Bounded(cl, toServer)'
  <2>1. client'.sequence <= cl.sent BY <1>8, <1>13, <1>14 DEF Bounded
  <2>2. \A j \in 1 .. Len(t) : 1 <= t[j].first /\ LastOf(t[j]) <= cl.sent
    BY <1>10, <1>13 DEF Bounded
  <2> QED BY <2>1, <2>2, <1>4, <1>6, <1>13 DEF Bounded
<1>29. Near'
  <2>1. ASSUME NEW j \in 1 .. Len(t), NEW x \in Done' PROVE x[1] < t[j].first + MaxCommands
    <3>1. CASE x \in Done BY <3>1, <1>10, <1>15 DEF Near
    <3>2. CASE \E n \in new : x = <<n, Says(m, n)>>
      <4>1. x[1] \in Nat /\ x[1] <= last BY <3>2, <1>7
      <4>2. last < t[j].first + MaxCommands BY <1>1, <1>2, <1>10, <1>15 DEF Near
      <4>3. t[j].first \in Nat BY <1>10, Typed
      <4> QED BY <4>1, <4>2, <4>3, <1>7, <1>12
    <3> QED BY <3>1, <3>2, <1>20
  <2>2. \A j, k \in 1 .. Len(t) : j < k => j + i < k + i BY <1>5, <1>10
  <2>3. \A j, k \in 1 .. Len(t) : j < k => LastOf(t[j]) < t[k].first + MaxCommands
    BY <2>2, <1>10, <1>15 DEF Near
  <2> QED BY <2>1, <2>3, <1>4 DEF Near
<1>30. Keys(cl, toServer)'
  <2>1. Keys(cl, toServer) BY DEF Sound
  <2>2. ASSUME NEW x \in Done'
        PROVE  Slot(client', x[1]) = x[2] \/ x[1] + MaxCommands <= cl.sent
    <3>1. x \in Said BY <1>18, <1>19, <1>20
    <3>2. PICK p \in Nat : p = x[1] BY <3>1, <1>12
    <3>3. CASE /\ client'.commands[p % MaxCommands] = client.commands[p % MaxCommands]
               /\ \A n \in new : n % MaxCommands # p % MaxCommands
      <4>1. ~\E n \in new : x = <<n, Says(m, n)>> BY <3>2, <3>3
      <4>2. x \in Done BY <4>1, <1>20
      <4>3. Slot(client', p) = Slot(client, p) BY <3>3 DEF Slot
      <4> QED BY <4>2, <4>3, <3>2, <2>1 DEF Keys
    <3>4. CASE \E n \in new :
                 /\ n % MaxCommands = p % MaxCommands
                 /\ \A k \in new : k % MaxCommands = p % MaxCommands => k <= n
                 /\ client'.commands[p % MaxCommands] = Says(m, n)
      <4>1. PICK n \in new :
              /\ n % MaxCommands = p % MaxCommands
              /\ \A k \in new : k % MaxCommands = p % MaxCommands => k <= n
              /\ client'.commands[p % MaxCommands] = Says(m, n)
        BY <3>4
      <4>2. n \in Nat /\ n <= last /\ m.first <= n BY <1>7
      <4>3. CASE n = p
        <5>1. x = <<n, Says(m, n)>> BY <4>3, <3>1, <3>2, <1>16, <1>18 DEF Unique
        <5>2. x[2] = Says(m, n) BY <5>1
        <5> QED BY <5>2, <4>1, <3>2 DEF Slot
      <4>4. CASE p < n
        <5>1. ~(n < p + MaxCommands) BY <4>1, <4>2, <4>4, RingSize, PlacesDiffer
        <5> QED BY <5>1, <4>2, <3>2, <1>7, <1>12, <1>14
      <4>5. CASE n < p
        <5>1. ~(p < n + MaxCommands) BY <4>1, <4>2, <4>5, RingSize, PlacesDiffer
        <5>2. x \notin Done
          <6>1. ~(p < m.first + MaxCommands) BY <5>1, <4>2, <1>5, <1>12
          <6> QED BY <6>1, <3>2, <1>1, <1>15 DEF Near
        <5>3. p \in new BY <5>2, <3>2, <1>20
        <5>4. p <= n BY <5>3, <4>1
        <5> QED BY <5>4, <4>2, <4>5
      <4> QED BY <4>2, <4>3, <4>4, <4>5
    <3> QED BY <3>3, <3>4, <1>8
  <2>3. ASSUME ~overtaken PROVE \E x \in Done' : x[1] = client'.sequence
    <3>1. CASE new = {} BY <3>1, <2>1, <2>3, <1>8, <1>21 DEF Keys
    <3>2. CASE new # {}
      <4>1. <<last, Says(m, last)>> \in Done' BY <3>2, <1>7, <1>8 DEF Done
      <4> QED BY <4>1, <3>2, <1>8
    <3> QED BY <3>1, <3>2
  <2>4. ~overtaken => \A j \in 1 .. Len(toServer) :
          \/ <<toServer[j].acknowledge, toServer[j].key>> \in Done'
          \/ toServer[j].acknowledge + MaxCommands <= cl.sent
    BY <2>1, <1>21 DEF Keys
  <2> QED BY <2>2, <2>3, <2>4, <1>6 DEF Keys
\* Nothing is left out.
<1>31. ASSUME ~overtaken, NEW n \in 1 .. client'.sequence PROVE \E x \in executed' : x[1] = n
  <2>0. n \in Nat BY <1>8
  <2>1. Complete(client.sequence) /\ Complete(m.first - 1) BY <1>1, <1>31 DEF Sound, Completed
  <2>2. CASE n <= client.sequence
    <3>1. n \in 1 .. client.sequence BY <2>2, <1>5
    <3> QED BY <3>1, <2>1, <1>21 DEF Complete
  <2>3. CASE n < m.first
    <3>1. n \in 1 .. m.first - 1 BY <2>3, <2>0, <1>5
    <3> QED BY <3>1, <2>1, <1>21 DEF Complete
  <2>4. CASE ~(n <= client.sequence) /\ ~(n < m.first)
    <3>1. client'.sequence = last BY <2>4, <2>0, <1>8
    <3>2. n \in client.sequence + 1 .. last /\ n >= m.first BY <3>1, <2>0, <2>4, <1>5, <1>7
    <3>3. n \in new BY <3>2, <1>2, <1>3 DEF NewIn
    <3>4. <<n, Says(m, n)>> \in executed' BY <3>3, <1>8
    <3> QED BY <3>4
  <2> QED BY <2>2, <2>3, <2>4
<1>32. Completed(cl, toServer)'
  <2>1. Completed(cl, toServer) BY DEF Sound
  <2> SUFFICES ASSUME ~overtaken
               PROVE  /\ Complete(client.sequence)' /\ Complete(cl.acknowledge)'
                      /\ \A j \in 1 .. Len(toServer) : Complete(toServer[j].acknowledge)'
                      /\ \A j \in 1 .. Len(t) : Complete(toClient[j].first - 1)'
    BY <1>4, <1>6 DEF Completed
  <2>2. Complete(client.sequence)' BY <1>31 DEF Complete
  <2>3. Complete(cl.acknowledge)' BY <2>1, <1>6, <1>21 DEF Completed, Complete
  <2>4. \A j \in 1 .. Len(toServer) : Complete(toServer[j].acknowledge)'
    BY <2>1, <1>6, <1>21 DEF Completed, Complete
  <2>5. ASSUME NEW j \in 1 .. Len(t) PROVE Complete(toClient[j].first - 1)'
    <3>1. toClient'[j] = toClient[j + i] /\ j + i \in 1 .. Len(toClient) BY <1>4, <1>10
    <3>2. Complete(toClient[j + i].first - 1) BY <3>1, <2>1 DEF Completed
    <3> QED BY <3>1, <3>2, <1>21 DEF Complete
  <2> QED BY <2>2, <2>3, <2>4, <2>5
<1>33. Pledges(cl)'
  <2>1. Pledges(cl) BY DEF Sound
  <2>2. Ids \subseteq Ids' BY <1>21 DEF Ids
  <2>3. ASSUME ~overtaken PROVE IdsOf(m) \subseteq Ids'
    <3> SUFFICES ASSUME NEW k \in 1 .. Len(m.commands) PROVE m.commands[k].id \in Ids' BY DEF IdsOf
    <3>1. PICK n \in Nat : n = m.first + k - 1 BY <1>5, <1>14
    <3>2. <<n, m.commands[k]>> \in Carried(m) BY <3>1 DEF Carried
    <3>3. CASE n \in new
      <4>1. <<n, Says(m, n)>> \in executed' BY <3>3, <1>8
      <4>2. Says(m, n) = m.commands[k]
        <5>1. n - m.first + 1 = k BY <3>1, <1>5
        <5> QED BY <5>1 DEF Says
      <4> QED BY <4>1, <4>2 DEF Ids
    <3>4. CASE n <= client.sequence
      <4>1. n \in 1 .. client.sequence BY <3>1, <3>4, <1>5, <1>14
      <4>2. PICK x \in executed : x[1] = n
        BY <4>1, <2>3 DEF Sound, Completed, Complete
      <4>3. x \in Said BY DEF Said, Done
      <4>4. x = <<n, m.commands[k]>> BY <4>2, <4>3, <3>2, <1>16, <1>17 DEF Unique
      <4>5. x[2] = m.commands[k] BY <4>4
      <4> QED BY <4>2, <4>5, <1>21 DEF Ids
    <3> QED BY <3>1, <3>3, <3>4, <1>7
  <2>4. ASSUME ~overtaken, ~cl.delayDrop
        PROVE  /\ cl.pledged \subseteq Ids' \cup PendingOf(cl)
               /\ snapshot' \subseteq Ids'
               /\ \A j \in 1 .. Len(t) : t[j].snapshot => t[j].pledged \subseteq Ids' \cup IdsOf(t[j])
    <3>1. /\ cl.pledged \subseteq Ids \cup PendingOf(cl)
          /\ snapshot \subseteq Ids
          /\ \A j \in 1 .. Len(toClient) :
               toClient[j].snapshot => toClient[j].pledged \subseteq Ids \cup IdsOf(toClient[j])
      BY <2>1, <2>4 DEF Pledges
    <3>2. snapshot' \subseteq Ids' BY <3>1, <2>2, <2>3, <2>4, <1>1, <1>6
    <3> QED BY <3>1, <3>2, <2>2, <1>10
  <2> QED BY <2>4, <1>4, <1>6 DEF Pledges
<1> QED BY <1>23, <1>24, <1>25, <1>26, <1>27, <1>28, <1>29, <1>30, <1>32, <1>33 DEF Sound

\* A client that reads a message: the types.
LEMMA ClientReadsTyped ==
  ASSUME TypeOK, NEW i \in 1 .. Len(toClient), ClientReads(i)
  PROVE  TypeOK'
<1>1. PICK m : m = toClient[i] OBVIOUS
<1>2. /\ m \in Message /\ toClient \in Seq(Message) /\ executed \subseteq Nat \X Entry
      /\ snapshot \subseteq Nat
  BY <1>1, Typed
<1>3. m.pledged \subseteq Nat /\ m.snapshot \in BOOLEAN BY <1>2 DEF Message
<1>4. /\ client' \in [sequence : Nat, commands : Ring, level : Nat]
      /\ executed' = executed \cup {<<n, Says(m, n)>> : n \in NewIn(m)}
  BY <1>1, ReadFacts
<1>5. executed' \subseteq Nat \X Entry
  <2>1. \A n \in NewIn(m) : n \in Nat /\ Says(m, n) \in Entry BY <1>2, NewFacts
  <2> QED BY <2>1, <1>2, <1>4
<1>6. toClient' \in Seq(Message)
  <2>1. toClient' = SubSeq(toClient, i + 1, Len(toClient)) BY DEF ClientReads
  <2> QED BY <2>1, <1>2, RestFacts
<1>7. snapshot' \subseteq Nat BY <1>1, <1>2, <1>3 DEF ClientReads
<1>8. /\ cl' = cl /\ level' = level /\ issued' = issued /\ forgiven' = forgiven
      /\ overtaken' = overtaken /\ toServer' = toServer /\ gamestates' = gamestates
  BY DEF ClientReads
<1>9. toClient' \in Seq([first : Nat, commands : Seq(Entry), snapshot : BOOLEAN, pledged : SUBSET Nat])
  BY <1>6 DEF Message
<1> QED BY <1>4, <1>5, <1>7, <1>8, <1>9 DEF TypeOK

-----------------------------------------------------------------------------
(* The server.                                                             *)

\* A step of the server on the client_t: the types of the rest are as they were.
LEMMA ServerTyped ==
  ASSUME TypeOK, UNCHANGED clientVars,
         cl' \in ClientT, level' \in Nat, issued' \in Nat, forgiven' \in BOOLEAN,
         toClient' \in Seq(Message), toServer' \in Seq(Input), gamestates' \in Seq(GameState),
         forgiven' \/ cl'.sequence - cl'.acknowledge \in 0 .. MaxCommands + 1
  PROVE  TypeOK'
<1>1. client' = client /\ executed' = executed /\ overtaken' = overtaken /\ snapshot' = snapshot
  BY DEF clientVars
<1>2. /\ client' \in [sequence : Nat, commands : Ring, level : Nat]
      /\ executed' \subseteq Nat \X Entry /\ snapshot' \subseteq Nat /\ overtaken' \in BOOLEAN
  BY <1>1 DEF TypeOK
<1>3. /\ toClient' \in Seq([first : Nat, commands : Seq(Entry), snapshot : BOOLEAN, pledged : SUBSET Nat])
      /\ toServer' \in Seq([acknowledge : Nat, key : Entry, level : Nat])
      /\ gamestates' \in Seq([sequence : Nat, level : Nat])
  BY DEF Message, Input, GameState
<1>4. cl' \in [state : {"connected", "primed", "active", "zombie"}, sequence : Nat, acknowledge : Nat,
             sent : Nat, commands : Ring, delayDrop : BOOLEAN, gamestate : 0 .. 2, pledged : SUBSET Nat]
  BY DEF ClientT
<1> QED BY <1>2, <1>3, <1>4 DEF TypeOK

\* What is sound of the client_t and the messages after the step is sound after it, if
\* it changes nothing else.
LEMMA SoundAfter ==
  ASSUME UNCHANGED <<level, clientVars, toClient, gamestates>>, NEW c, NEW in, NEW b,
         Sound(c, in, b), cl' = c, toServer' = in, issued' = b
  PROVE  Sound(cl, toServer, issued)'
<1>1. /\ level' = level /\ toClient' = toClient /\ gamestates' = gamestates
      /\ client' = client /\ executed' = executed /\ overtaken' = overtaken /\ snapshot' = snapshot
  BY DEF clientVars
<1>2. Done' = Done /\ Said' = Said /\ Ids' = Ids BY <1>1 DEF Done, Said, Ids
<1>3. RingAgrees(cl, toServer, issued)' BY <1>1, <1>2 DEF Sound, RingAgrees, Low
<1>4. Levels(cl)' /\ Sorted(toServer)' /\ Playing(cl, toServer)'
  BY <1>1 DEF Sound, Levels, Sorted, Playing
<1>5. Bounded(cl, toServer)' /\ Near' BY <1>1, <1>2 DEF Sound, Bounded, Near
<1>6. Keys(cl, toServer)' BY <1>1, <1>2 DEF Sound, Keys
<1>7. Completed(cl, toServer)' BY <1>1 DEF Sound, Completed, Complete
<1>8. Pledges(cl)' BY <1>1, <1>2 DEF Sound, Pledges
<1> QED BY <1>2, <1>3, <1>4, <1>5, <1>6, <1>7, <1>8 DEF Sound

\* How far the ring reaches.
LEMMA RingSpan ==
  ASSUME NEW c, NEW in, NEW b, Sound(c, in, b)
  PROVE  c.sequence - c.acknowledge \in 0 .. MaxCommands + 1
<1>1. PICK f : Ringed(c, Said, f, b) BY DEF Sound, RingAgrees
<1>2. c \in ClientT BY <1>1 DEF Ringed
<1>3. /\ c.sequence \in Nat /\ c.acknowledge \in Nat /\ c.sent \in Nat /\ MaxCommands \in Nat
      /\ c.acknowledge <= c.sent /\ c.sent <= c.sequence
      /\ c.sequence <= c.acknowledge + MaxCommands + 1
  BY <1>1, <1>2, ClientTFields, RingSize DEF Ringed
<1> QED BY <1>3

\* The types of what SV_AddServerCommand makes.
LEMMA AddedTyped ==
  ASSUME NEW c \in ClientT, c.sent <= c.sequence, NEW e \in Entry
  PROVE  LET d == Added(c, e) IN
           /\ d \in ClientT /\ d.sent <= d.sequence
           /\ d.state = c.state /\ d.acknowledge = c.acknowledge /\ d.gamestate = c.gamestate
<1>1. PICK list \in Seq(Entry), over \in BOOLEAN, pledged \in SUBSET Nat :
        Added(c, e) = Relisted(c, list, over, pledged)
  BY AddedListing
<1>2. PICK d : d = Added(c, e) OBVIOUS
<1>3. /\ d \in ClientT /\ d.sequence = c.sent + Len(list) /\ d.sent = c.sent
      /\ d.state = c.state /\ d.acknowledge = c.acknowledge /\ d.gamestate = c.gamestate
  BY <1>1, <1>2, RelistedFields
<1>4. d.sent <= d.sequence
  <2>1. Len(list) \in Nat /\ c.sent \in Nat BY ClientTFields
  <2> QED BY <2>1, <1>3
<1> QED BY <1>2, <1>3, <1>4

\* What SV_DropClientInternal leaves.
LEMMA DroppedTyped ==
  ASSUME NEW c \in ClientT, c.sent <= c.sequence
  PROVE  LET d == Dropped(c) IN
           /\ d \in ClientT /\ d.sent <= d.sequence /\ d.state = "zombie"
           /\ d.acknowledge = c.acknowledge
           /\ d.sequence = c.sequence \/ d.sequence = c.acknowledge + 1
<1>1. CASE c.state = "zombie" BY <1>1 DEF Dropped
<1>2. CASE c.state # "zombie"
  <2>1. PICK d : d = Dropped(c) OBVIOUS
  <2>2. PICK k : k = (c.acknowledge + 1) % MaxCommands OBVIOUS
  <2>3. /\ c.acknowledge \in Nat /\ c.commands \in Ring /\ c.acknowledge + 1 \in Nat
        /\ Disconnect \in Entry
    BY ClientTFields DEF Disconnect, Entry
  <2>4. [c.commands EXCEPT ![k] = Disconnect] \in Ring BY <2>3 DEF Ring
  <2>5. d = [c EXCEPT !.state = "zombie", !.sent = c.acknowledge, !.sequence = c.acknowledge + 1,
                      !.commands = [c.commands EXCEPT ![k] = Disconnect]]
    BY <1>2, <2>1, <2>2 DEF Dropped
  <2>6. /\ d \in ClientT /\ d.state = "zombie" /\ d.sent = c.acknowledge
        /\ d.acknowledge = c.acknowledge /\ d.sequence = c.acknowledge + 1
    <3> HIDE DEF Ring
    <3> QED BY <2>3, <2>4, <2>5 DEF ClientT
  <2> QED BY <2>1, <2>3, <2>6
<1> QED BY <1>1, <1>2

\* What SV_SendMessageToClient leaves.
LEMMA TransmittedTyped ==
  ASSUME NEW c \in ClientT
  PROVE  LET d == Transmitted(c) IN
           /\ d \in ClientT /\ d.sent <= d.sequence /\ d.acknowledge = c.acknowledge
           /\ d.sequence = c.sequence \/ d.sequence = c.acknowledge + 1
           /\ c.delayDrop => d.state = "zombie"
           /\ ~c.delayDrop => d = [c EXCEPT !.sent = c.sequence] /\ d.state = c.state
<1>1. PICK e : e = [c EXCEPT !.sent = c.sequence] OBVIOUS
<1>2. /\ e \in ClientT /\ e.sent = c.sequence /\ e.sequence = c.sequence
      /\ e.acknowledge = c.acknowledge /\ e.state = c.state
  <2> HIDE DEF Ring
  <2> QED BY <1>1 DEF ClientT
<1>3. e.sent <= e.sequence BY <1>2, ClientTFields
<1>4. Transmitted(c) = IF c.delayDrop THEN Dropped(e) ELSE e BY <1>1 DEF Transmitted
<1>5. CASE c.delayDrop BY <1>2, <1>3, <1>4, <1>5, DroppedTyped
<1>6. CASE ~c.delayDrop BY <1>1, <1>2, <1>3, <1>4, <1>6
<1> QED BY <1>5, <1>6

\* Adding a command keeps the invariant: it touches no number that was sent.
LEMMA AddServerCommandKeeps ==
  ASSUME IInv, NEW issue \in Issues, AddServerCommand(issue)
  PROVE  IInv'
<1>1. TypeOK /\ cl.sent <= cl.sequence BY DEF IInv
<1>2. PICK e : e = [cmd |-> issue[1], type |-> issue[2], id |-> issued + 1] OBVIOUS
<1>3. cl \in ClientT /\ issued \in Nat BY <1>1, Typed
<1>4. e \in Entry /\ e.id = issued + 1 BY <1>2, <1>3, IssueAssumption DEF Entry
<1>5. /\ cl' = Added(cl, e) /\ issued' = issued + 1 /\ ~cl.delayDrop /\ cl.state # "zombie"
      /\ UNCHANGED <<level, forgiven, clientVars, toClient, toServer, gamestates>>
  BY <1>2 DEF AddServerCommand
<1>6. cl' \in ClientT /\ cl'.sent <= cl'.sequence BY <1>1, <1>3, <1>4, <1>5, AddedTyped
<1>7. ASSUME ~forgiven
      PROVE  /\ Sound(cl, toServer, issued)'
             /\ cl'.sequence - cl'.acknowledge \in 0 .. MaxCommands + 1
  <2>1. Sound(cl, toServer, issued) BY <1>5, <1>7 DEF IInv, Live
  <2>2. Sound(Added(cl, e), toServer, issued + 1) BY <2>1, <1>1, <1>3, <1>4, <1>5, AddSound, Typed
  <2>3. Sound(cl, toServer, issued)' BY <2>2, <1>5, SoundAfter
  <2>4. cl'.sequence - cl'.acknowledge \in 0 .. MaxCommands + 1 BY <2>2, <1>5, RingSpan
  <2> QED BY <2>3, <2>4
<1>8. TypeOK'
  <2>1. /\ level' \in Nat /\ issued' \in Nat /\ forgiven' \in BOOLEAN
        /\ toClient' \in Seq(Message) /\ toServer' \in Seq(Input) /\ gamestates' \in Seq(GameState)
    BY <1>1, <1>3, <1>5, Typed
  <2> QED BY <2>1, <1>1, <1>5, <1>6, <1>7, ServerTyped
<1> QED BY <1>5, <1>6, <1>7, <1>8 DEF IInv, Live

\* So does dropping the client, of which nothing is claimed after that.
LEMMA DropClientKeeps ==
  ASSUME IInv, DropClient
  PROVE  IInv'
<1>1. TypeOK /\ cl.sent <= cl.sequence BY DEF IInv
<1>2. cl \in ClientT BY <1>1, Typed
<1>3. /\ cl' = Dropped(cl)
      /\ UNCHANGED <<level, issued, forgiven, clientVars, toClient, toServer, gamestates>>
  BY DEF DropClient
<1>4. /\ cl' \in ClientT /\ cl'.sent <= cl'.sequence /\ cl'.state = "zombie"
      /\ cl'.acknowledge = cl.acknowledge
      /\ cl'.sequence = cl.sequence \/ cl'.sequence = cl.acknowledge + 1
  BY <1>1, <1>2, <1>3, DroppedTyped
<1>5. forgiven' \/ cl'.sequence - cl'.acknowledge \in 0 .. MaxCommands + 1
  <2>1. forgiven \/ cl.sequence - cl.acknowledge \in 0 .. MaxCommands + 1 BY <1>1 DEF TypeOK
  <2>2. (cl.acknowledge + 1) - cl.acknowledge \in 0 .. MaxCommands + 1
    BY <1>2, ClientTFields, RingSize
  <2> QED BY <2>1, <2>2, <1>3, <1>4
<1>6. TypeOK'
  <2>1. /\ level' \in Nat /\ issued' \in Nat /\ forgiven' \in BOOLEAN
        /\ toClient' \in Seq(Message) /\ toServer' \in Seq(Input) /\ gamestates' \in Seq(GameState)
    BY <1>1, <1>3, Typed
  <2> QED BY <2>1, <1>1, <1>3, <1>4, <1>5, ServerTyped
<1> QED BY <1>4, <1>6 DEF IInv, Live

\* Sending does not move the numbers out of the span of the ring.
LEMMA SentSpan ==
  ASSUME NEW c \in ClientT, NEW q \in Nat, q = c.sequence \/ q = c.acknowledge + 1,
         c.sequence - c.acknowledge \in 0 .. MaxCommands + 1
  PROVE  q - c.acknowledge \in 0 .. MaxCommands + 1
BY ClientTFields, RingSize

\* So does a message, which says nothing else under a number that was said before.
LEMMA SendClientSnapshotKeeps ==
  ASSUME IInv, SendClientSnapshot
  PROVE  IInv'
<1>1. TypeOK /\ cl.sent <= cl.sequence BY DEF IInv
<1>2. cl \in ClientT BY <1>1, Typed
<1>3. PICK m \in Snapshots(cl) : toClient' = Sent(toClient, m) BY DEF SendClientSnapshot
<1>4. /\ cl' = Transmitted(cl)
      /\ UNCHANGED <<level, issued, forgiven, clientVars, toServer, gamestates>>
  BY DEF SendClientSnapshot
<1>5. /\ cl' \in ClientT /\ cl'.sent <= cl'.sequence /\ cl'.acknowledge = cl.acknowledge
      /\ cl'.sequence = cl.sequence \/ cl'.sequence = cl.acknowledge + 1
      /\ cl.delayDrop => cl'.state = "zombie"
      /\ ~cl.delayDrop => cl' = [cl EXCEPT !.sent = cl.sequence] /\ cl'.state = cl.state
  BY <1>2, <1>4, TransmittedTyped
<1>6. TypeOK'
  <2>1. m \in Message BY <1>2, MessageFacts
  <2>2. toClient' \in Seq(Message) BY <2>1, <1>1, <1>3, ToClientSent
  <2>3. /\ level' \in Nat /\ issued' \in Nat /\ forgiven' \in BOOLEAN
        /\ toServer' \in Seq(Input) /\ gamestates' \in Seq(GameState)
    BY <1>1, <1>4, Typed
  <2>4. forgiven' \/ cl'.sequence - cl'.acknowledge \in 0 .. MaxCommands + 1
    <3>1. forgiven \/ cl.sequence - cl.acknowledge \in 0 .. MaxCommands + 1 BY <1>1 DEF TypeOK
    <3>2. cl'.sequence \in Nat BY <1>5, ClientTFields
    <3> QED BY <3>1, <3>2, <1>2, <1>4, <1>5, SentSpan
  <2> QED BY <2>2, <2>3, <2>4, <1>1, <1>4, <1>5, ServerTyped
<1>7. ASSUME Live' PROVE Sound(cl, toServer, issued)'
  <2>1. ~cl.delayDrop /\ cl.state # "zombie" /\ ~forgiven BY <1>4, <1>5, <1>7 DEF Live
  <2>2. Sound(cl, toServer, issued) BY <2>1 DEF IInv, Live
  <2>3. cl' = [cl EXCEPT !.sent = cl.sequence, !.state = cl.state, !.gamestate = cl.gamestate]
    BY <2>1, <1>2, <1>5 DEF ClientT
  <2>4. /\ toServer \in Seq(Input) /\ issued \in Nat /\ level' = level /\ gamestates' = gamestates
        /\ toServer' = toServer /\ issued' = issued /\ UNCHANGED clientVars
    BY <1>1, <1>4, Typed
  <2> QED BY <2>1, <2>2, <2>3, <2>4, <1>1, <1>3, SendSound
<1> QED BY <1>5, <1>6, <1>7 DEF IInv

\* SpawnServer for a client that plays.
LEMMA SpawnServerToldKeeps ==
  ASSUME IInv, SpawnServer, cl.state \in {"primed", "active"}
  PROVE  IInv'
<1>1. TypeOK /\ cl.sent <= cl.sequence BY DEF IInv
<1>2. cl \in ClientT /\ level \in Nat /\ issued \in Nat /\ forgiven \in BOOLEAN BY <1>1, Typed
<1>3. PICK e : e = [cmd |-> "load", type |-> 1, id |-> issued + 1] OBVIOUS
<1>4. e \in Entry /\ e.id = issued + 1 BY <1>2, <1>3 DEF Entry
<1>5. PICK told : told = Added(cl, e) OBVIOUS
<1>6. PICK after : after = Transmitted(told) OBVIOUS
<1>7. ~cl.delayDrop /\ cl.state # "zombie" BY DEF SpawnServer
<1>8. /\ level' = level + 1 /\ issued' = issued + 1
      /\ \E m \in Snapshots(told) : toClient' = Sent(toClient, m)
      /\ cl' = IF after.state = "zombie" THEN after
               ELSE [after EXCEPT !.state = "connected", !.gamestate = 0]
      /\ forgiven' = forgiven /\ toServer' = toServer /\ gamestates' = gamestates
      /\ UNCHANGED clientVars
  BY <1>3, <1>5, <1>6 DEF SpawnServer
<1>9. PICK m \in Snapshots(told) : toClient' = Sent(toClient, m) BY <1>8
<1>10. told \in ClientT /\ told.acknowledge = cl.acknowledge /\ told.state = cl.state
  BY <1>1, <1>2, <1>4, <1>5, AddedTyped
<1>11. /\ after \in ClientT /\ after.sent <= after.sequence /\ after.acknowledge = told.acknowledge
       /\ after.sequence = told.sequence \/ after.sequence = told.acknowledge + 1
       /\ told.delayDrop => after.state = "zombie"
       /\ ~told.delayDrop => after = [told EXCEPT !.sent = told.sequence] /\ after.state = told.state
  BY <1>6, <1>10, TransmittedTyped
<1>12. /\ cl' \in ClientT /\ cl'.sent = after.sent /\ cl'.sequence = after.sequence
       /\ cl'.acknowledge = after.acknowledge
  <2>1. CASE after.state = "zombie" BY <2>1, <1>8, <1>11
  <2>2. CASE after.state # "zombie"
    <3>1. cl' = [after EXCEPT !.state = "connected", !.gamestate = 0] BY <2>2, <1>8
    <3>2. "connected" \in {"connected", "primed", "active", "zombie"} /\ 0 \in 0 .. 2 OBVIOUS
    <3>3. after \in ClientT BY <1>11
    <3>4. cl' \in ClientT BY ONLY <3>1, <3>2, <3>3 DEF ClientT
    <3>5. cl'.sent = after.sent /\ cl'.sequence = after.sequence /\ cl'.acknowledge = after.acknowledge
      BY ONLY <3>1, <3>3 DEF ClientT
    <3> QED BY <3>4, <3>5
  <2> QED BY <2>1, <2>2
<1>13. ASSUME ~forgiven PROVE Sound(told, toServer, issued + 1)
  <2>1. Sound(cl, toServer, issued) BY <1>7, <1>13 DEF IInv, Live
  <2> QED BY <2>1, <1>1, <1>2, <1>4, <1>5, <1>7, AddSound, Typed
<1>14. TypeOK'
  <2>1. m \in Message BY <1>10, MessageFacts
  <2>2. toClient' \in Seq(Message) BY <2>1, <1>1, <1>9, ToClientSent
  <2>3. /\ level' \in Nat /\ issued' \in Nat /\ forgiven' \in BOOLEAN
        /\ toServer' \in Seq(Input) /\ gamestates' \in Seq(GameState)
    BY <1>1, <1>8, Typed
  <2>4. forgiven' \/ cl'.sequence - cl'.acknowledge \in 0 .. MaxCommands + 1
    <3>1. ~forgiven => told.sequence - told.acknowledge \in 0 .. MaxCommands + 1 BY <1>13, RingSpan
    <3>2. cl'.sequence \in Nat BY <1>12, ClientTFields
    <3> QED BY <3>1, <3>2, <1>8, <1>10, <1>11, <1>12, SentSpan
  <2> QED BY <2>2, <2>3, <2>4, <1>1, <1>8, <1>12, ServerTyped
<1>15. ASSUME Live' PROVE Sound(cl, toServer, issued)'
  <2>1. ~told.delayDrop /\ after.state # "zombie" /\ ~forgiven BY <1>8, <1>11, <1>15 DEF Live
  <2>2. Sound(told, toServer, issued + 1) BY <2>1, <1>13
  <2>3. cl' = [told EXCEPT !.sent = told.sequence, !.state = "connected", !.gamestate = 0]
    BY <2>1, <1>8, <1>11
  <2>4. toServer \in Seq(Input) /\ issued + 1 \in Nat BY <1>1, <1>2, Typed
  <2>5. level' = level + 1 /\ gamestates' = gamestates BY <1>8
  <2>6. toServer' = toServer /\ issued' = issued + 1 /\ UNCHANGED clientVars BY <1>8
  <2>7. ~told.delayDrop /\ TypeOK BY <2>1, <1>1
  <2> QED BY ONLY <2>2, <2>3, <2>4, <2>5, <2>6, <2>7, <1>9, SendSound, Zenon
<1> QED BY <1>11, <1>12, <1>14, <1>15 DEF IInv

\* So does a change of level, told to the client or not.
LEMMA SpawnServerKeeps ==
  ASSUME IInv, SpawnServer
  PROVE  IInv'
<1>1. CASE cl.state \in {"primed", "active"} BY <1>1, SpawnServerToldKeeps
<1>2. CASE cl.state \notin {"primed", "active"}
  <2>1. TypeOK /\ cl.sent <= cl.sequence BY DEF IInv
  <2>2. cl \in ClientT /\ level \in Nat BY <2>1, Typed
  <2>3. cl.state \in {"connected", "zombie"} BY <1>2, <2>2, ClientTFields
  <2>4. /\ level' = level + 1
        /\ cl' = IF cl.state = "zombie" THEN cl ELSE [cl EXCEPT !.state = "connected", !.gamestate = 0]
        /\ UNCHANGED <<issued, toClient, forgiven, clientVars, toServer, gamestates>>
    BY <1>2 DEF SpawnServer
  <2>5. /\ cl' \in ClientT /\ cl'.sent = cl.sent /\ cl'.sequence = cl.sequence
        /\ cl'.acknowledge = cl.acknowledge
        /\ cl'.state = "zombie" <=> cl.state = "zombie"
    <3>1. CASE cl.state = "zombie" BY <3>1, <2>2, <2>4
    <3>2. CASE cl.state # "zombie"
      <4>1. cl' = [cl EXCEPT !.state = "connected", !.gamestate = 0] BY <3>2, <2>4
      <4>2. /\ "connected" \in {"connected", "primed", "active", "zombie"} /\ 0 \in 0 .. 2
            /\ "connected" # "zombie"
        OBVIOUS
      <4>3. cl \in ClientT BY <2>2
      <4>4. cl' \in ClientT BY ONLY <4>1, <4>2, <4>3 DEF ClientT
      <4>5. /\ cl'.sent = cl.sent /\ cl'.sequence = cl.sequence
            /\ cl'.acknowledge = cl.acknowledge /\ cl'.state = "connected"
        BY ONLY <4>1, <4>3 DEF ClientT
      <4> QED BY <4>2, <4>4, <4>5, <3>2
    <3> QED BY <3>1, <3>2
  <2>6. TypeOK'
    <3>1. /\ level' \in Nat /\ issued' \in Nat /\ forgiven' \in BOOLEAN
          /\ toClient' \in Seq(Message) /\ toServer' \in Seq(Input) /\ gamestates' \in Seq(GameState)
      BY <2>1, <2>2, <2>4, Typed
    <3>2. forgiven' \/ cl'.sequence - cl'.acknowledge \in 0 .. MaxCommands + 1
      BY <2>1, <2>4, <2>5 DEF TypeOK
    <3> QED BY <3>1, <3>2, <2>1, <2>4, <2>5, ServerTyped
  <2>7. ASSUME Live' PROVE Sound(cl, toServer, issued)'
    <3>1. cl.state = "connected" /\ ~forgiven BY <2>3, <2>4, <2>5, <2>7 DEF Live
    <3>2. Sound(cl, toServer, issued) BY <3>1 DEF IInv, Live
    <3> QED BY <3>1, <3>2, <2>1, <2>4, LevelSound
  <2> QED BY <2>1, <2>5, <2>6, <2>7 DEF IInv
<1> QED BY <1>1, <1>2

\* What the handlers behind SV_PacketEvent do to the types.
LEMMA SendClientGameStateTyped ==
  ASSUME TypeOK, NEW c \in ClientT, SendClientGameState(c)
  PROVE  /\ cl' \in ClientT /\ cl'.sent <= cl'.sequence /\ cl'.acknowledge = c.acknowledge
         /\ cl'.sequence = c.sequence \/ cl'.sequence = c.acknowledge + 1
         /\ c.delayDrop => cl'.state = "zombie"
         /\ toClient' \in Seq(Message) /\ gamestates' \in Seq(GameState)
<1>1. PICK primed : primed = [c EXCEPT !.state = "primed"] OBVIOUS
<1>2. /\ primed \in ClientT /\ primed.sequence = c.sequence /\ primed.acknowledge = c.acknowledge
      /\ primed.delayDrop = c.delayDrop
  <2> HIDE DEF Ring
  <2> QED BY <1>1 DEF ClientT
<1>3. PICK m : m = MessageUpto(primed, c.sequence) OBVIOUS
<1>4. m \in Snapshots(primed) BY <1>2, <1>3 DEF Snapshots
<1>5. m \in Message BY <1>2, <1>4, MessageFacts
<1>6. toClient' = Sent(toClient, m) BY <1>1, <1>3 DEF SendClientGameState
<1>7. toClient' \in Seq(Message) BY <1>5, <1>6, ToClientSent
<1>8. PICK after : after = Transmitted(primed) OBVIOUS
<1>9. /\ after \in ClientT /\ after.sent <= after.sequence /\ after.acknowledge = c.acknowledge
      /\ after.sequence = c.sequence \/ after.sequence = c.acknowledge + 1
      /\ c.delayDrop => after.state = "zombie"
  BY <1>2, <1>8, TransmittedTyped
<1>10. cl' = [after EXCEPT !.gamestate = 1] BY <1>1, <1>8 DEF SendClientGameState
<1>11. /\ cl' \in ClientT /\ cl'.sent = after.sent /\ cl'.sequence = after.sequence
       /\ cl'.acknowledge = after.acknowledge /\ cl'.state = after.state
  <2> HIDE DEF Ring
  <2> QED BY <1>9, <1>10 DEF ClientT
<1>12. gamestates' \in Seq(GameState)
  <2>1. gamestates \in Seq(GameState) /\ level \in Nat /\ c.sequence \in Nat BY Typed, ClientTFields
  <2>2. [sequence |-> c.sequence, level |-> level] \in GameState BY <2>1 DEF GameState
  <2>3. Append(gamestates, [sequence |-> c.sequence, level |-> level]) \in Seq(GameState)
    BY <2>1, <2>2, AppendProperties
  <2> QED BY <2>1, <2>3 DEF SendClientGameState
<1> QED BY <1>7, <1>9, <1>11, <1>12

\* SV_ExecuteClientMessage for a message whose acknowledge was taken over.
LEMMA ExecuteClientMessageSound ==
  ASSUME TypeOK, NEW c, NEW in \in Seq(Input), Sound(c, in, issued), c.state # "zombie",
         NEW m \in Input, ExecuteClientMessage(c, m), UNCHANGED <<level, issued, clientVars>>,
         toServer' = in, cl'.state # "zombie",
         m.level = level =>
           /\ client.level = level /\ c.acknowledge <= client.sequence
           /\ \A i \in 1 .. Len(in) : in[i].level = level /\ c.acknowledge <= in[i].acknowledge
  PROVE  Sound(cl, toServer, issued)'
<1>1. c \in ClientT BY DEF Sound, RingAgrees, Ringed
<1>2. issued \in Nat /\ issued' = issued /\ level' = level BY Typed
<1>3. c.state \in {"connected", "primed", "active"} /\ c.gamestate \in 0 .. 2 BY <1>1, ClientTFields
<1>4. ASSUME cl' = c, UNCHANGED <<toClient, gamestates>> PROVE Sound(cl, toServer, issued)'
  BY <1>4, <1>2, SoundAfter
<1>5. ASSUME c.gamestate = 0, SendClientGameState(c) PROVE Sound(cl, toServer, issued)'
  <2>1. PICK primed : primed = [c EXCEPT !.state = "primed", !.gamestate = 0] OBVIOUS
  <2>2. primed = [c EXCEPT !.state = "primed"] BY <2>1, <1>1, <1>5 DEF ClientT
  <2>3. c.state # "active" BY <1>5, PlayingAlone
  <2>4. Sound(primed, in, issued)
    <3>1. "primed" \in {"connected", "primed", "active"} /\ 0 \in 0 .. 2 /\ "primed" # "active" OBVIOUS
    <3> QED BY <3>1, <2>1, <2>3, <1>2, <1>5, RestateSound
  <2>5. /\ primed \in ClientT /\ primed.sequence = c.sequence /\ primed.delayDrop = c.delayDrop
        /\ primed.gamestate = 0 /\ primed.state = "primed"
    <3>1. "primed" \in {"connected", "primed", "active", "zombie"} /\ 0 \in 0 .. 2 OBVIOUS
    <3>2. primed \in ClientT BY ONLY <3>1, <2>1, <1>1 DEF ClientT
    <3>3. /\ primed.sequence = c.sequence /\ primed.delayDrop = c.delayDrop
          /\ primed.gamestate = 0 /\ primed.state = "primed"
      BY ONLY <2>1, <1>1 DEF ClientT
    <3> QED BY <3>2, <3>3
  <2>6. ~c.delayDrop BY <1>1, <1>5, SendClientGameStateTyped
  <2>7. PICK n : n = MessageUpto(primed, c.sequence) OBVIOUS
  <2>8. n \in Snapshots(primed) BY <2>5, <2>7 DEF Snapshots
  <2>9. /\ toClient' = Sent(toClient, n)
        /\ cl' = [Transmitted(primed) EXCEPT !.gamestate = 1]
        /\ gamestates' = Append(gamestates, [sequence |-> primed.sequence, level |-> level])
    BY <1>5, <2>2, <2>5, <2>6, <2>7 DEF SendClientGameState
  <2>10. Transmitted(primed) = [primed EXCEPT !.sent = primed.sequence]
    BY <2>5, <2>6, TransmittedTyped
  <2>11. cl' = [primed EXCEPT !.sent = primed.sequence, !.state = "primed", !.gamestate = 1]
    BY <2>5, <2>9, <2>10 DEF ClientT
  <2>12. UNCHANGED clientVars OBVIOUS
  <2>13. /\ TypeOK /\ in \in Seq(Input) /\ toServer' = in /\ ~primed.delayDrop
         /\ issued \in Nat /\ issued' = issued /\ level' = level
    BY <2>5, <2>6, <1>2
  <2>14. /\ toClient' = Sent(toClient, n) /\ primed.gamestate = 0
         /\ gamestates' = Append(gamestates, [sequence |-> primed.sequence, level |-> level])
    BY <2>5, <2>9
  <2>15. \/ level' = level /\ gamestates' = gamestates /\ "primed" = primed.state /\ 1 = primed.gamestate
         \/ level' = level + 1 /\ gamestates' = gamestates /\ "primed" = "connected" /\ 1 = 0
         \/ /\ level' = level
            /\ gamestates' = Append(gamestates, [sequence |-> primed.sequence, level |-> level])
            /\ primed.gamestate = 0 /\ "primed" = "primed" /\ 1 = 1
    BY ONLY <2>13, <2>14
  <2> QED BY ONLY <2>4, <2>8, <2>11, <2>12, <2>13, <2>14, <2>15, SendSound, Zenon
<1>6. ASSUME NEW s \in {c.state, "active"}, c.state = "primed" \/ s = c.state, m.level = level,
             cl' = [c EXCEPT !.gamestate = 2, !.state = s], UNCHANGED <<toClient, gamestates>>
      PROVE  Sound(cl, toServer, issued)'
  <2>1. s \in {"connected", "primed", "active"} /\ 2 \in 0 .. 2 BY <1>3
  <2>2. c.state # "active" \/ s = "active" BY <1>6
  <2>5. /\ client.level = level /\ c.acknowledge <= client.sequence
        /\ \A i \in 1 .. Len(in) : in[i].level = level /\ c.acknowledge <= in[i].acknowledge
    BY <1>6
  <2>6. TypeOK /\ Sound(c, in, issued) /\ in \in Seq(Input) /\ ~(2 = 0) OBVIOUS
  <2>3. Sound([c EXCEPT !.state = s, !.gamestate = 2], in, issued)
    BY ONLY <2>1, <2>2, <2>5, <2>6, <1>2, RestateSound
  <2>4. cl' = [c EXCEPT !.state = s, !.gamestate = 2] BY <1>1, <1>6 DEF ClientT
  <2> QED BY <2>3, <2>4, <1>2, <1>6, SoundAfter
<1>7. cl' = [c EXCEPT !.gamestate = 2] => cl' = [c EXCEPT !.gamestate = 2, !.state = c.state]
  BY <1>1 DEF ClientT
<1> QED BY <1>4, <1>5, <1>6, <1>7 DEF ExecuteClientMessage

\* So does a packet of the client, unless it is forgiven its acknowledge.
LEMMA PacketEventKeeps ==
  ASSUME IInv, NEW i \in 1 .. Len(toServer), PacketEvent(i)
  PROVE  IInv'
<1>1. TypeOK /\ cl.sent <= cl.sequence BY DEF IInv
<1>2. /\ cl \in ClientT /\ level \in Nat /\ issued \in Nat /\ forgiven \in BOOLEAN
      /\ toServer \in Seq(Input) /\ toClient \in Seq(Message) /\ gamestates \in Seq(GameState)
  BY <1>1, Typed
<1>3. PICK m : m = toServer[i] OBVIOUS
<1>4. m \in Input /\ m.acknowledge \in Nat BY <1>2, <1>3, InputFields
<1>5. PICK q : q = IF InRange(m.acknowledge) THEN m.acknowledge ELSE cl.sequence OBVIOUS
<1>6. PICK c : c = [cl EXCEPT !.acknowledge = q] OBVIOUS
<1>7. PICK rest : rest = SubSeq(toServer, i + 1, Len(toServer)) OBVIOUS
<1>8. /\ toServer' = rest /\ forgiven' = (forgiven \/ ~InRange(m.acknowledge))
      /\ IF InRange(m.acknowledge) /\ cl.state # "zombie"
           THEN ExecuteClientMessage(c, m)
           ELSE cl' = c /\ UNCHANGED <<toClient, gamestates>>
      /\ UNCHANGED <<level, issued, clientVars>>
  BY <1>3, <1>5, <1>6, <1>7 DEF PacketEvent
<1>9. rest \in Seq(Input) BY <1>2, <1>7, RestFacts
<1>10. q \in Nat BY <1>2, <1>4, <1>5, ClientTFields
<1>11. /\ c \in ClientT /\ c.acknowledge = q /\ c.sequence = cl.sequence /\ c.sent = cl.sent
       /\ c.state = cl.state
  <2> HIDE DEF Ring
  <2> QED BY <1>2, <1>6, <1>10 DEF ClientT
<1>12. forgiven' \/ c.sequence - c.acknowledge \in 0 .. MaxCommands + 1
  <2>1. \A n \in 0 .. MaxCommands - 1 : n \in 0 .. MaxCommands + 1 BY RingSize
  <2> QED BY <2>1, <1>5, <1>8, <1>11 DEF InRange
\* What the handler leaves.
<1>13. /\ cl' \in ClientT /\ cl'.sent <= cl'.sequence /\ cl'.acknowledge = c.acknowledge
       /\ cl'.sequence = c.sequence \/ cl'.sequence = c.acknowledge + 1
       /\ toClient' \in Seq(Message) /\ gamestates' \in Seq(GameState)
  <2>1. CASE cl' = c /\ UNCHANGED <<toClient, gamestates>> BY <2>1, <1>1, <1>2, <1>11
  <2>2. CASE SendClientGameState(c) BY <2>2, <1>1, <1>11, SendClientGameStateTyped
  <2>3. ASSUME NEW s \in {c.state, "active"}, cl' = [c EXCEPT !.gamestate = 2, !.state = s],
               UNCHANGED <<toClient, gamestates>>
        PROVE  /\ cl' \in ClientT /\ cl'.sent <= cl'.sequence /\ cl'.acknowledge = c.acknowledge
               /\ cl'.sequence = c.sequence
               /\ toClient' \in Seq(Message) /\ gamestates' \in Seq(GameState)
    <3>1. s \in {"connected", "primed", "active", "zombie"} BY <1>11, ClientTFields
    <3>2. /\ cl' \in ClientT /\ cl'.sent = c.sent /\ cl'.sequence = c.sequence
          /\ cl'.acknowledge = c.acknowledge
      <4>1. cl' = [c EXCEPT !.state = s, !.gamestate = 2] BY <3>1, <2>3, <1>11 DEF ClientT
      <4>2. 2 \in 0 .. 2 OBVIOUS
      <4>3. c \in ClientT BY <1>11
      <4>4. cl' \in ClientT BY ONLY <4>1, <4>2, <4>3, <3>1 DEF ClientT
      <4>5. cl'.sent = c.sent /\ cl'.sequence = c.sequence /\ cl'.acknowledge = c.acknowledge
        BY ONLY <4>1, <4>3 DEF ClientT
      <4> QED BY <4>4, <4>5
    <3> QED BY <3>2, <2>3, <1>1, <1>2, <1>11
  <2>4. cl' = [c EXCEPT !.gamestate = 2] => cl' = [c EXCEPT !.gamestate = 2, !.state = c.state]
    BY <1>11 DEF ClientT
  <2> QED BY <2>1, <2>2, <2>3, <2>4, <1>8 DEF ExecuteClientMessage
<1>14. TypeOK'
  <2>1. forgiven' \/ cl'.sequence - cl'.acknowledge \in 0 .. MaxCommands + 1
    <3>1. cl'.sequence \in Nat BY <1>13, ClientTFields
    <3> QED BY <3>1, <1>11, <1>12, <1>13, SentSpan
  <2>2. level' \in Nat /\ issued' \in Nat /\ forgiven' \in BOOLEAN /\ toServer' \in Seq(Input)
    BY <1>2, <1>8, <1>9
  <2> QED BY <2>1, <2>2, <1>1, <1>8, <1>13, ServerTyped
<1>15. ASSUME Live' PROVE Sound(cl, toServer, issued)'
  <2>1. ~forgiven /\ InRange(m.acknowledge) /\ q = m.acknowledge BY <1>5, <1>8, <1>15 DEF Live
  <2>2. cl.state # "zombie" BY <1>8, <1>11, <1>15 DEF Live
  <2>3. Sound(cl, toServer, issued) BY <2>1, <2>2 DEF IInv, Live
  <2>4. cl.sequence - toServer[i].acknowledge \in 0 .. MaxCommands - 1 BY <2>1, <1>3 DEF InRange
  <2>5. Sound(c, rest, issued) BY <2>1, <2>3, <2>4, <1>1, <1>2, <1>3, <1>6, <1>7, AckSound
  <2>6. ASSUME m.level = level
        PROVE  /\ client.level = level /\ c.acknowledge <= client.sequence
               /\ \A j \in 1 .. Len(rest) : rest[j].level = level /\ c.acknowledge <= rest[j].acknowledge
    <3>1. Sorted(toServer) /\ Levels(cl) BY <2>3 DEF Sound
    <3>2. client.level \in Nat BY <1>1, Typed
    <3>3. client.level = level BY <3>1, <3>2, <2>6, <1>2, <1>3 DEF Sorted, Levels
    <3>4. c.acknowledge <= client.sequence BY <3>1, <3>3, <2>1, <2>6, <1>3, <1>11 DEF Sorted
    <3>5. ASSUME NEW j \in 1 .. Len(rest)
          PROVE  rest[j].level = level /\ c.acknowledge <= rest[j].acknowledge
      <4>1. j + i \in 1 .. Len(toServer) /\ rest[j] = toServer[j + i] BY <1>2, <1>7, RestFacts
      <4>2. i < j + i BY <1>2, <1>9
      <4>3. /\ toServer[i].level <= toServer[j + i].level
            /\ toServer[i].level = toServer[j + i].level
                 => toServer[i].acknowledge <= toServer[j + i].acknowledge
            /\ toServer[j + i].level <= client.level
        BY <3>1, <4>1, <4>2 DEF Sorted
      <4>4. toServer[j + i].level \in Nat BY <4>1, <1>2, InputFields
      <4>5. toServer[j + i].level = level BY <4>3, <4>4, <3>3, <2>6, <1>2, <1>3
      <4> QED BY <4>1, <4>3, <4>5, <2>1, <2>6, <1>3, <1>11
    <3> QED BY <3>3, <3>4, <3>5
  <2>7. ExecuteClientMessage(c, m) BY <2>1, <2>2, <1>8
  <2>8. cl'.state # "zombie" /\ c.state # "zombie" BY <2>2, <1>11, <1>15 DEF Live
  <2> QED BY <2>5, <2>6, <2>7, <2>8, <1>1, <1>4, <1>8, <1>9, ExecuteClientMessageSound
<1> QED BY <1>13, <1>14, <1>15 DEF IInv

-----------------------------------------------------------------------------
(* The theorems.                                                           *)

\* The inductive invariant holds at first: nothing was said but number 0.
LEMMA InitSound == Init => IInv
<1> SUFFICES ASSUME Init PROVE IInv OBVIOUS
<1>1. PICK ring : ring = [s \in 0 .. MaxCommands - 1 |-> Blank] OBVIOUS
<1>2. Blank \in Entry BY DEF Blank, Entry
<1>3. ring \in Ring /\ \A s \in 0 .. MaxCommands - 1 : ring[s] = Blank BY <1>1, <1>2 DEF Ring
<1>4. cl = [state |-> "connected", sequence |-> 0, acknowledge |-> 0, sent |-> 0,
            commands |-> ring, delayDrop |-> FALSE, gamestate |-> 0, pledged |-> {}]
  BY <1>1 DEF Init
<1>5. client = [sequence |-> 0, commands |-> ring, level |-> 0] BY <1>1 DEF Init
<1>6. /\ level = 1 /\ issued = 0 /\ forgiven = FALSE
      /\ executed = {} /\ snapshot = {} /\ overtaken = FALSE
      /\ toClient = << >> /\ toServer = << >> /\ gamestates = << >>
  BY DEF Init
<1>7. cl \in ClientT BY <1>3, <1>4 DEF ClientT
<1>8. /\ cl.state = "connected" /\ cl.sequence = 0 /\ cl.acknowledge = 0 /\ cl.sent = 0
      /\ cl.commands = ring /\ cl.delayDrop = FALSE /\ cl.gamestate = 0 /\ cl.pledged = {}
      /\ client.sequence = 0 /\ client.commands = ring /\ client.level = 0
  BY <1>4, <1>5
<1>9. Len(toClient) = 0 /\ Len(toServer) = 0 /\ Len(gamestates) = 0 BY <1>6
<1>10. MaxCommands \in Nat /\ MaxCommands >= 2 BY RingSize
<1>11. TypeOK
  <2>1. cl \in [state : {"connected", "primed", "active", "zombie"}, sequence : Nat, acknowledge : Nat,
             sent : Nat, commands : Ring, delayDrop : BOOLEAN, gamestate : 0 .. 2, pledged : SUBSET Nat]
    BY <1>7 DEF ClientT
  <2>2. client \in [sequence : Nat, commands : Ring, level : Nat] BY <1>3, <1>5
  <2>3. cl.sequence - cl.acknowledge \in 0 .. MaxCommands + 1 BY <1>8, <1>10
  <2>4. \A S : << >> \in Seq(S) OBVIOUS
  <2>5. level \in Nat /\ issued \in Nat /\ forgiven \in BOOLEAN /\ overtaken \in BOOLEAN
        /\ executed \subseteq Nat \X Entry /\ snapshot \subseteq Nat
    BY <1>6
  <2>6. /\ toClient \in Seq([first : Nat, commands : Seq(Entry), snapshot : BOOLEAN, pledged : SUBSET Nat])
        /\ toServer \in Seq([acknowledge : Nat, key : Entry, level : Nat])
        /\ gamestates \in Seq([sequence : Nat, level : Nat])
    BY <1>6, <2>4
  <2> QED BY <2>1, <2>2, <2>3, <2>5, <2>6 DEF TypeOK
<1>12. Said = {<<0, Blank>>} /\ Done = {<<0, Blank>>}
  <2>1. Done = {<<0, Blank>>} BY <1>6 DEF Done
  <2>2. {Carried(toClient[i]) : i \in 1 .. Len(toClient)} = {} BY <1>9
  <2> QED BY <2>1, <2>2 DEF Said
<1>13. 0 % MaxCommands \in 0 .. MaxCommands - 1 BY RingSize, DivMod
<1>14. Slot(cl, 0) = Blank /\ Slot(client, 0) = Blank BY <1>3, <1>8, <1>13 DEF Slot
<1>15. \A x \in Said : x = <<0, Blank>> /\ x[1] = 0 /\ x[2] = Blank BY <1>12
<1>16. RingAgrees(cl, toServer, issued)
  <2>1. Ringed(cl, Said, 0, issued)
    <3>1. Said \subseteq Nat \X Entry BY <1>2, <1>12
    <3>2. \A x \in Said : x[1] <= cl.sent /\ x[2] = Slot(cl, x[1]) BY <1>8, <1>14, <1>15
    <3>3. \A n \in cl.sent + 1 .. cl.sequence : FALSE BY <1>8
    <3>4. /\ 0 <= cl.acknowledge /\ cl.acknowledge <= cl.sent /\ cl.sent <= cl.sequence
          /\ cl.sequence <= cl.acknowledge + MaxCommands + 1
          /\ cl.sequence <= cl.acknowledge + MaxCommands
      BY <1>8, <1>10
    <3>5. \A id \in cl.pledged : FALSE BY <1>8
    <3> QED BY <3>1, <3>2, <3>3, <3>4, <3>5, <1>7 DEF Ringed
  <2>2. Low(toServer, 0) BY <1>8, <1>9 DEF Low
  <2> QED BY <2>1, <2>2 DEF RingAgrees
<1>17. Unique(Said) BY <1>15 DEF Unique
<1>18. Levels(cl) /\ Sorted(toServer) /\ Playing(cl, toServer) /\ Bounded(cl, toServer) /\ Near
  BY <1>6, <1>8, <1>9 DEF Levels, Sorted, Playing, Bounded, Near
<1>19. Keys(cl, toServer)
  <2>1. <<0, Blank>> \in Done /\ <<0, Blank>>[1] = 0 BY <1>12
  <2>2. \A x \in Done : Slot(client, x[1]) = x[2] BY <1>12, <1>14
  <2> QED BY <2>1, <2>2, <1>8, <1>9 DEF Keys
<1>20. Completed(cl, toServer)
  <2>1. Complete(0) BY DEF Complete
  <2> QED BY <2>1, <1>8, <1>9 DEF Completed
<1>21. Pledges(cl) BY <1>6, <1>8, <1>9 DEF Pledges
<1> QED BY <1>8, <1>11, <1>16, <1>17, <1>18, <1>19, <1>20, <1>21 DEF IInv, Sound

\* Every step keeps the inductive invariant.
LEMMA NextKeeps == IInv /\ [Next]_vars => IInv'
<1> SUFFICES ASSUME IInv, [Next]_vars PROVE IInv' OBVIOUS
<1>0. TypeOK BY DEF IInv
<1>1. ASSUME NEW issue \in Issues, AddServerCommand(issue) PROVE IInv' BY <1>1, AddServerCommandKeeps
<1>2. CASE SendClientSnapshot BY <1>2, SendClientSnapshotKeeps
<1>3. CASE DropClient BY <1>3, DropClientKeeps
<1>4. CASE SpawnServer BY <1>4, SpawnServerKeeps
<1>5. CASE ClientSends
  <2>1. cl' = cl /\ forgiven' = forgiven BY <1>5 DEF ClientSends
  <2>2. TypeOK'
    <3>1. toServer' \in Seq(Input)
      <4>1. /\ client.sequence \in Nat /\ client.commands \in Ring /\ client.level \in Nat
            /\ toServer \in Seq(Input)
        BY <1>0, Typed
      <4>2. [acknowledge |-> client.sequence, key |-> Slot(client, client.sequence),
             level |-> client.level] \in Input
        BY <4>1, SlotEntry DEF Input
      <4> QED BY <4>1, <4>2, <1>5, SentFacts DEF ClientSends
    <3>2. toServer' \in Seq([acknowledge : Nat, key : Entry, level : Nat]) BY <3>1 DEF Input
    <3>3. /\ cl' = cl /\ level' = level /\ issued' = issued /\ toClient' = toClient
          /\ gamestates' = gamestates /\ forgiven' = forgiven
          /\ client' = client /\ executed' = executed /\ overtaken' = overtaken /\ snapshot' = snapshot
      BY <1>5 DEF ClientSends, clientVars
    <3> QED BY <3>2, <3>3, <1>0 DEF TypeOK
  <2>3. Live' => Sound(cl, toServer, issued)'
    BY <2>1, <1>0, <1>5, ClientSendsKeeps DEF IInv, Live
  <2> QED BY <2>1, <2>2, <2>3 DEF IInv
<1>6. CASE ClientTakesGameState
  <2>1. cl' = cl /\ forgiven' = forgiven BY <1>6 DEF ClientTakesGameState
  <2> QED BY <2>1, <1>0, <1>6, ClientTakesGameStateKeeps DEF IInv, Live
<1>7. ASSUME NEW i \in 1 .. Len(toClient), ClientReads(i) PROVE IInv'
  <2>1. cl' = cl /\ forgiven' = forgiven BY <1>7 DEF ClientReads
  <2>2. TypeOK' BY <1>0, <1>7, ClientReadsTyped
  <2>3. Live' => Sound(cl, toServer, issued)'
    BY <2>1, <1>0, <1>7, ClientReadsKeeps DEF IInv, Live
  <2> QED BY <2>1, <2>2, <2>3 DEF IInv
<1>8. ASSUME NEW i \in 1 .. Len(toServer), PacketEvent(i) PROVE IInv' BY <1>8, PacketEventKeeps
<1>9. CASE UNCHANGED vars
  <2>1. /\ cl' = cl /\ level' = level /\ issued' = issued /\ toClient' = toClient
        /\ gamestates' = gamestates /\ forgiven' = forgiven /\ toServer' = toServer
        /\ client' = client /\ executed' = executed /\ overtaken' = overtaken /\ snapshot' = snapshot
        /\ UNCHANGED <<level, clientVars, toClient, gamestates>>
    BY <1>9 DEF vars, clientVars
  <2>2. TypeOK' BY <2>1, <1>0 DEF TypeOK
  <2>3. Live' => Sound(cl, toServer, issued)' BY <2>1, SoundAfter DEF IInv, Live
  <2> QED BY <2>1, <2>2, <2>3 DEF IInv
<1> QED BY <1>1, <1>2, <1>3, <1>4, <1>5, <1>6, <1>7, <1>8, <1>9 DEF Next, MessagesArrive, PacketsArrive

\* The ring of the server, all that was said and what the client knows stay in
\* agreement.
THEOREM Correct == Spec => []IInv
<1> QED BY InitSound, NextKeeps, PTL DEF Spec

\* The numbers of client_t, its ring and the messages keep their types, and the numbers
\* that are not acknowledged never outgrow the ring by more than the order to
\* disconnect.
THEOREM TypeCorrect == Spec => []TypeOK
<1>1. IInv => TypeOK BY DEF IInv
<1> QED BY <1>1, Correct, PTL

\* SV_AddServerCommand and sub_5310E0 renumber only commands that were not sent: a number
\* means the same to both sides.
THEOREM AgreementCorrect == Spec => []Agreement
<1>1. IInv => Agreement
  <2> SUFFICES ASSUME IInv, ~Over, ~forgiven
               PROVE  /\ client.sequence <= cl.sent /\ cl.sent <= cl.sequence
                      /\ \A x \in executed : x[1] > cl.acknowledge => x[2] = Slot(cl, x[1])
                      /\ \A x, y \in executed : x[1] = y[1] => x = y
                      /\ \A i \in 1 .. Len(toClient) : \A k \in 1 .. Len(toClient[i].commands) :
                           LET n == toClient[i].first + k - 1 IN
                           n > cl.acknowledge => toClient[i].commands[k] = Slot(cl, n)
    BY DEF Agreement
  <2>1. Sound(cl, toServer, issued) /\ TypeOK /\ ~cl.delayDrop BY DEF IInv, Live, Over
  <2>2. PICK f \in Nat : Ringed(cl, Said, f, issued) BY <2>1 DEF Sound, RingAgrees
  <2>3. /\ cl.sequence \in Nat /\ cl.acknowledge \in Nat /\ MaxCommands \in Nat
        /\ f <= cl.acknowledge /\ cl.sequence <= cl.acknowledge + MaxCommands
    BY <2>1, <2>2, Typed, ClientTFields, RingSize DEF Ringed
  <2>4. ASSUME NEW x \in Said, x[1] > cl.acknowledge PROVE x[2] = Slot(cl, x[1])
    <3>1. x[1] \in Nat BY <2>2 DEF Ringed
    <3>2. f <= x[1] /\ cl.sequence < x[1] + MaxCommands BY <3>1, <2>3, <2>4
    <3> QED BY <3>2, <2>2 DEF Ringed
  <2>5. executed \subseteq Said BY DEF Said, Done
  <2>6. \A x \in executed : x[1] > cl.acknowledge => x[2] = Slot(cl, x[1]) BY <2>4, <2>5
  <2>7. \A x, y \in executed : x[1] = y[1] => x = y BY <2>1, <2>5 DEF Sound, Unique
  <2>8. ASSUME NEW i \in 1 .. Len(toClient), NEW k \in 1 .. Len(toClient[i].commands),
               NEW n, n = toClient[i].first + k - 1, n > cl.acknowledge
        PROVE  toClient[i].commands[k] = Slot(cl, n)
    <3>1. <<n, toClient[i].commands[k]>> \in Said BY <2>8 DEF Said, Carried
    <3> QED BY <3>1, <2>4, <2>8
  <2>9. client.sequence <= cl.sent /\ cl.sent <= cl.sequence
    BY <2>1, <2>2 DEF Sound, Bounded, Ringed
  <2> QED BY <2>6, <2>7, <2>8, <2>9
<1> QED BY <1>1, Correct, PTL

\* SV_ExecuteClientMessage decodes with the command the client encoded with.
THEOREM KeyAgreesCorrect == Spec => []KeyAgrees
<1>1. IInv => KeyAgrees
  <2> SUFFICES ASSUME IInv, cl.state # "zombie", ~overtaken, ~forgiven,
                      NEW i \in 1 .. Len(toServer), InRange(toServer[i].acknowledge)
               PROVE  Slot(cl, toServer[i].acknowledge) = toServer[i].key
    BY DEF KeyAgrees
  <2>1. Sound(cl, toServer, issued) /\ TypeOK BY DEF IInv, Live
  <2>2. PICK f \in Nat : Low(toServer, f) /\ Ringed(cl, Said, f, issued)
    BY <2>1 DEF Sound, RingAgrees
  <2>3. PICK a \in Nat : a = toServer[i].acknowledge BY <2>1, Typed, InputFields
  <2>4. cl.sequence \in Nat /\ cl.sent \in Nat /\ MaxCommands \in Nat /\ cl.sent <= cl.sequence
    BY <2>1, <2>2, Typed, ClientTFields, RingSize DEF Ringed
  <2>5. cl.sequence < a + MaxCommands BY <2>3, <2>4 DEF InRange
  <2>6. <<a, toServer[i].key>> \in Done BY <2>1, <2>3, <2>4, <2>5 DEF Sound, Keys
  <2>7. <<a, toServer[i].key>> \in Said /\ f <= a BY <2>2, <2>3, <2>6 DEF Said, Low
  <2> QED BY <2>2, <2>3, <2>5, <2>7 DEF Ringed
<1> QED BY <1>1, Correct, PTL

\* SV_AddServerCommand loses no command but one that the new one makes superfluous.
THEOREM PledgesKeptCorrect == Spec => []PledgesKept
<1>1. PendingOf(cl) = Pending BY DEF PendingOf, Pending
<1>2. IInv => PledgesKept
  BY <1>1 DEF PledgesKept, Over, IInv, Live, Sound, Pledges
<1> QED BY <1>2, Correct, PTL

\* SV_UpdateServerCommandsToClientRecover holds the snapshot back until all commands are
\* in a message: a client executes them before the snapshot.
THEOREM CommandsBeforeSnapshotInRangeCorrect == Spec => []CommandsBeforeSnapshotInRange
<1>1. IInv => CommandsBeforeSnapshotInRange
  BY DEF CommandsBeforeSnapshotInRange, Over, IInv, Live, Sound, Pledges
<1> QED BY <1>1, Correct, PTL
=============================================================================
