-------------------------- MODULE ClientSlotsProofs --------------------------
(***************************************************************************)
(* Proofs about the client slots, for every number of slots, players and   *)
(* places in the queue.                                                    *)
(***************************************************************************)
EXTENDS ClientSlots, NumberFacts, FiniteSetTheorems

Waiting == [who : Cookies, age : 0 .. AgeCap]
Queue == {q \in [0 .. QueueSize -> Waiting] : q[QueueSize] = Vacant}

-----------------------------------------------------------------------------
(* The least number, and the queue.                                        *)

\* First finds a member, and none is less.
LEMMA FirstFacts ==
  ASSUME NEW S, S \subseteq Nat, S # {}
  PROVE  First(S) \in S /\ \A j \in S : First(S) <= j
<1>1. \E i \in S : \A j \in S : i <= j BY LeastNumber
<1> QED BY <1>1 DEF First

\* An empty place is one a queue may have.
LEMMA VacantWaits == Vacant \in Waiting
<1>1. 0 \in 0 .. AgeCap BY SizesAssumption
<1>2. NoCookie \in Cookies BY DEF Cookies
<1> QED BY <1>1, <1>2 DEF Vacant, Waiting

\* Closing a gap leaves a queue.
LEMMA ClosedQueue ==
  ASSUME NEW q \in Queue, NEW i \in 0 .. QueueSize - 1
  PROVE  Closed(q, i) \in Queue
<1>1. QueueSize \in Nat \ {0} BY SizesAssumption
<1>2. /\ q \in [0 .. QueueSize -> Waiting] /\ q[QueueSize] = Vacant
      /\ QueueSize \in 0 .. QueueSize
  BY <1>1 DEF Queue
<1>3. CASE q[i] = Vacant
  <2> DEFINE r == [j \in 0 .. QueueSize |-> IF i <= j /\ j < QueueSize - 1 THEN q[j + 1] ELSE q[j]]
  <2>1. \A j \in 0 .. QueueSize : j < QueueSize - 1 => j + 1 \in 0 .. QueueSize BY <1>1
  <2>2. r \in [0 .. QueueSize -> Waiting] BY <1>2, <2>1
  <2>3. r[QueueSize] = Vacant BY <1>1, <1>2
  <2> QED BY <2>2, <2>3, <1>3 DEF Closed, Queue
<1>4. CASE ~(q[i] = Vacant) /\ q[i + 1].who = q[i].who
  <2>1. [q EXCEPT ![i + 1] = Vacant] \in [0 .. QueueSize -> Waiting] BY <1>2, VacantWaits
  <2>2. [q EXCEPT ![i + 1] = Vacant][QueueSize] = Vacant BY <1>2
  <2> QED BY <2>1, <2>2, <1>4 DEF Closed, Queue
<1>5. CASE ~(q[i] = Vacant) /\ ~(q[i + 1].who = q[i].who)
  BY <1>5 DEF Closed
<1> QED BY <1>3, <1>4, <1>5

\* The rounds of the pass.  That the recursive function exists, and what it yields,
\* is shown for the least place at which it might not.
LEMMA MovedUpRounds ==
  ASSUME NEW q
  PROVE  \E pass : /\ MovedUp(q) = pass[QueueSize] /\ pass[0] = q
                   /\ \A n \in 1 .. QueueSize : pass[n] = Closed(pass[n - 1], n - 1)
<1> DEFINE Step(g, n) == IF n = 0 THEN q ELSE Closed(g[n - 1], n - 1)
<1> DEFINE IsPass(g, k) == g = [n \in 0 .. k |-> Step(g, n)]
<1> DEFINE pass == CHOOSE g : IsPass(g, QueueSize)
<1>0. QueueSize \in Nat \ {0} BY SizesAssumption
<1>1. \E g : IsPass(g, QueueSize)
  <2> DEFINE S == {k \in 0 .. QueueSize : ~\E g : IsPass(g, k)}
  <2> SUFFICES ASSUME S # {} PROVE FALSE BY <1>0
  <2>1. PICK k \in S : \A l \in S : k <= l
    <3>1. S \subseteq Nat BY <1>0
    <3> HIDE DEF S
    <3> QED BY <3>1, LeastNumber
  <2>2. k \in 0 .. QueueSize /\ ~\E g : IsPass(g, k) OBVIOUS
  <2>3. CASE k = 0
    <3> DEFINE g == [n \in 0 .. 0 |-> q]
    <3>1. IsPass(g, 0) OBVIOUS
    <3> QED BY <3>1, <2>2, <2>3
  <2>4. CASE k # 0
    <3>1. k - 1 \in 0 .. QueueSize /\ k - 1 < k BY <2>2, <2>4, <1>0
    <3>2. k - 1 \notin S BY <3>1, <2>1, <2>2
    <3>3. PICK g : IsPass(g, k - 1) BY <3>1, <3>2
    <3> DEFINE h == [n \in 0 .. k |-> IF n < k THEN g[n] ELSE Closed(g[k - 1], k - 1)]
    <3>4. \A n \in 0 .. k - 1 : g[n] = Step(g, n) BY <3>3
    <3>5. ASSUME NEW n \in 0 .. k PROVE h[n] = Step(h, n)
      <4>1. CASE n = 0
        <5>1. h[0] = g[0] /\ g[0] = q BY <3>4, <2>2, <2>4
        <5> QED BY <5>1, <4>1
      <4>2. CASE n # 0 /\ n < k
        <5>1. h[n] = g[n] /\ h[n - 1] = g[n - 1] /\ n \in 0 .. k - 1 BY <4>2, <2>2
        <5>2. g[n] = Closed(g[n - 1], n - 1) BY <5>1, <4>2, <3>4
        <5> QED BY <5>1, <5>2, <4>2
      <4>3. CASE n # 0 /\ n = k
        <5>1. h[n] = Closed(g[k - 1], k - 1) /\ h[n - 1] = g[n - 1] BY <4>3, <2>2
        <5> QED BY <5>1, <4>3
      <4> QED BY <4>1, <4>2, <4>3, <2>2
    <3>6. h = [n \in 0 .. k |-> h[n]] OBVIOUS
    <3>7. IsPass(h, k)
      <4> HIDE DEF h, Step
      <4> QED BY <3>5, <3>6
    <3> QED BY <3>7, <2>2
  <2> QED BY <2>3, <2>4
<1>2. IsPass(pass, QueueSize)
  <2> HIDE DEF IsPass
  <2> QED BY <1>1
<1> HIDE DEF pass
<1>3. \A n \in 0 .. QueueSize : pass[n] = Step(pass, n) BY <1>2
<1>4. MovedUp(q) = pass[QueueSize] BY DEF MovedUp, pass
<1>5. pass[0] = q /\ \A n \in 1 .. QueueSize : pass[n] = Closed(pass[n - 1], n - 1)
  BY <1>0, <1>3
<1> QED BY <1>4, <1>5

\* The whole pass leaves a queue as well.
LEMMA MovedUpQueue ==
  ASSUME NEW q \in Queue
  PROVE  MovedUp(q) \in Queue
<1>1. PICK pass : /\ MovedUp(q) = pass[QueueSize] /\ pass[0] = q
                  /\ \A n \in 1 .. QueueSize : pass[n] = Closed(pass[n - 1], n - 1)
  BY MovedUpRounds
<1>2. QueueSize \in Nat \ {0} BY SizesAssumption
<1> DEFINE S == {n \in 0 .. QueueSize : pass[n] \in Queue}
<1>3. 0 \in S BY <1>1, <1>2
<1>4. ASSUME NEW k \in 1 .. QueueSize, k - 1 \in S PROVE k \in S
  <2>1. k - 1 \in 0 .. QueueSize - 1 BY <1>2
  <2>2. pass[k] = Closed(pass[k - 1], k - 1) BY <1>1
  <2> QED BY <1>4, <2>1, <2>2, ClosedQueue
<1>5. QueueSize \in S
  <2> HIDE DEF S
  <2>1. 0 .. QueueSize \subseteq S BY <1>2, <1>3, <1>4, UpTo
  <2> QED BY <1>2, <2>1
<1> QED BY <1>1, <1>5

\* Only the first round changes the first place: a gap there is closed by one place.
LEMMA MovedUpFirst ==
  ASSUME NEW q \in Queue
  PROVE  MovedUp(q)[0] = IF q[0] = Vacant /\ QueueSize > 1 THEN q[1] ELSE q[0]
<1>1. PICK pass : /\ MovedUp(q) = pass[QueueSize] /\ pass[0] = q
                  /\ \A n \in 1 .. QueueSize : pass[n] = Closed(pass[n - 1], n - 1)
  BY MovedUpRounds
<1>2. QueueSize \in Nat \ {0} BY SizesAssumption
<1> DEFINE first == IF q[0] = Vacant /\ QueueSize > 1 THEN q[1] ELSE q[0]
           S == {0} \cup {n \in 1 .. QueueSize : pass[n] \in Queue /\ pass[n][0] = first}
<1>3. pass[1] \in Queue /\ pass[1][0] = first
  <2>1. 1 \in 1 .. QueueSize /\ 0 \in 0 .. QueueSize - 1 BY <1>2
  <2>2. pass[1] = Closed(q, 0) BY <1>1, <2>1
  <2>3. pass[1] \in Queue BY <2>1, <2>2, ClosedQueue
  <2>4. q \in [0 .. QueueSize -> Waiting] BY DEF Queue
  <2>5. CASE q[0] = Vacant
    <3>1. pass[1] = [j \in 0 .. QueueSize |-> IF 0 <= j /\ j < QueueSize - 1 THEN q[j + 1] ELSE q[j]]
      BY <2>2, <2>5 DEF Closed
    <3> QED BY <1>2, <2>3, <2>5, <3>1
  <2>6. CASE q[0] # Vacant
    <3>1. pass[1] = [q EXCEPT ![1] = Vacant] \/ pass[1] = q BY <2>2, <2>6 DEF Closed
    <3>2. first = q[0] BY <2>6
    <3>3. 0 \in DOMAIN q /\ 0 # 1 BY <1>2, <2>4
    <3>4. [q EXCEPT ![1] = Vacant][0] = q[0] BY <3>3
    <3>5. pass[1][0] = q[0] BY <3>1, <3>4
    <3> HIDE DEF first
    <3> QED BY <2>3, <3>2, <3>5
  <2> QED BY <2>5, <2>6
<1>4. ASSUME NEW k \in 1 .. QueueSize, k - 1 \in S PROVE k \in S
  <2>1. CASE k = 1 BY <1>3, <2>1
  <2>2. CASE k # 1
    <3> DEFINE r == pass[k - 1]
    <3>1. k - 1 \in 1 .. QueueSize - 1 /\ k - 1 \in 0 .. QueueSize - 1 /\ 0 \in 0 .. QueueSize
      BY <1>2, <2>2
    <3>2. r \in Queue /\ r[0] = first BY <1>4, <3>1
    <3>3. pass[k] = Closed(r, k - 1) BY <1>1
    <3> HIDE DEF r, first
    <3>4. pass[k] \in Queue BY <3>1, <3>2, <3>3, ClosedQueue
    <3>5. r \in [0 .. QueueSize -> Waiting] BY <3>2 DEF Queue
    <3>6. \/ pass[k] = [j \in 0 .. QueueSize |->
                          IF k - 1 <= j /\ j < QueueSize - 1 THEN r[j + 1] ELSE r[j]]
          \/ pass[k] = [r EXCEPT ![k - 1 + 1] = Vacant]
          \/ pass[k] = r
      BY <3>3 DEF Closed
    <3>7. ~(k - 1 <= 0) /\ k - 1 + 1 # 0 BY <3>1
    <3>8. pass[k][0] = r[0] BY <3>1, <3>5, <3>6, <3>7
    <3> QED BY <3>2, <3>4, <3>8
  <2> QED BY <2>1, <2>2
<1>5. QueueSize \in S
  <2> HIDE DEF S
  <2>1. 0 \in S BY DEF S
  <2>2. 0 .. QueueSize \subseteq S BY <1>2, <1>4, <2>1, UpTo
  <2> QED BY <1>2, <2>2
<1> QED BY <1>1, <1>2, <1>5

-----------------------------------------------------------------------------
(* The invariant.                                                          *)

\* What holds of a slot c at the place i.
Sound(c, i) ==
  /\ c \in Client
  /\ InGame(c) => c.script /\ c.owner # NobodyYet
  /\ c.net # 0 <=> InGame(c) /\ Human(c.owner)
  /\ c.needupdate => c.state = "zombie"
  /\ Human(c.owner) => c.port = FirstPort[c.owner]
  /\ i < PrivateClients => c.owner \in Privileged \cup {NobodyYet}

\* No player is known by two slots, be they free or not.
Unshared ==
  \A i, j \in Slots : Human(clients[i].owner) /\ clients[j].owner = clients[i].owner => i = j

IInv ==
  /\ DOMAIN clients = Slots /\ clients = [i \in Slots |-> clients[i]]
  /\ \A i \in Slots : Sound(clients[i], i)
  /\ Unshared
  /\ connectqueue \in Queue
  /\ port = FirstPort

-----------------------------------------------------------------------------
(* What the operators do to one slot.                                      *)

States == {"free", "zombie", "connected", "primed", "active"}

\* The fields of a slot, one by one.
LEMMA ClientFields ==
  /\ \A c \in Client :
       /\ c.state \in States /\ c.owner \in Players \cup {NobodyYet, Bot} /\ c.port \in PortOrNone
       /\ c.challenge \in Cookies /\ c.needupdate \in BOOLEAN /\ c.updateconnOK \in BOOLEAN
       /\ c.net \in PortOrNone /\ c.script \in BOOLEAN /\ c.idle \in 0 .. AgeCap
       /\ c.timeoutCount \in 0 .. TimeoutFrames
       /\ c = [state |-> c.state, owner |-> c.owner, port |-> c.port, challenge |-> c.challenge,
               needupdate |-> c.needupdate, updateconnOK |-> c.updateconnOK, net |-> c.net,
               script |-> c.script, idle |-> c.idle, timeoutCount |-> c.timeoutCount]
  /\ \A s \in States, o \in Players \cup {NobodyYet, Bot}, pt \in PortOrNone, ch \in Cookies,
        nu \in BOOLEAN, uc \in BOOLEAN, n \in PortOrNone, sc \in BOOLEAN, id \in 0 .. AgeCap,
        tc \in 0 .. TimeoutFrames :
       [state |-> s, owner |-> o, port |-> pt, challenge |-> ch, needupdate |-> nu,
        updateconnOK |-> uc, net |-> n, script |-> sc, idle |-> id, timeoutCount |-> tc] \in Client
BY DEF Client, States

\* What the assumptions say of the constants.
LEMMA Constants ==
  /\ MaxClients \in Nat \ {0} /\ PrivateClients \in 0 .. MaxClients
  /\ NobodyYet \notin Players /\ Bot \notin Players /\ Bot # NobodyYet
  /\ FirstPort \in [Players -> Ports] /\ Ports \subseteq Nat \ {0} /\ 0 \notin Ports
  /\ 0 \in PortOrNone /\ Ports \subseteq PortOrNone
  /\ AgeCap \in Nat /\ TimeoutFrames \in Nat /\ 0 \in 0 .. AgeCap /\ 0 \in 0 .. TimeoutFrames
  /\ Privileged \subseteq Players
  /\ NoCookie \in Cookies
BY PlayersAssumption, SizesAssumption DEF PortOrNone, Cookies

\* An empty slot is sound.
LEMMA BlankSound == ASSUME NEW i \in Slots PROVE Sound(Blank, i)
<1>1. Blank \in Client BY Constants DEF Blank, Client
<1> QED BY <1>1, Constants DEF Blank, Sound, InGame, Human

\* Freeing a slot that is no longer in the game.
LEMMA FreedSound ==
  ASSUME NEW i \in Slots, NEW c, Sound(c, i), ~InGame(c)
  PROVE  Sound(Freed(c), i) /\ Freed(c).owner = c.owner /\ Freed(c).state = "free"
<1>1. c \in Client BY DEF Sound
<1>2. Freed(c) \in Client BY <1>1, Constants DEF Freed, Client
<1>3. /\ Freed(c).state = "free" /\ Freed(c).owner = c.owner /\ Freed(c).net = c.net
      /\ Freed(c).port = c.port /\ Freed(c).needupdate = FALSE
  BY <1>1 DEF Freed, Client
<1>4. ~InGame(Freed(c)) BY <1>3 DEF InGame
<1> QED BY <1>2, <1>3, <1>4 DEF Sound

\* Dropping a client.
LEMMA DroppedSound ==
  ASSUME NEW i \in Slots, NEW c, Sound(c, i)
  PROVE  /\ Sound(Dropped(c), i) /\ ~InGame(Dropped(c))
         /\ Dropped(c).owner \in {c.owner, NobodyYet}
         /\ ~InGame(c) => Dropped(c) = c
<1>1. c \in Client BY DEF Sound
<1>2. CASE ~InGame(c) BY <1>2 DEF Dropped
<1>3. CASE InGame(c)
  <2>1. ~c.needupdate BY <1>3 DEF Sound, InGame
  <2>2. CASE c.owner = Bot
    <3> DEFINE d == [c EXCEPT !.owner = NobodyYet, !.net = 0, !.script = FALSE]
    <3>1. Dropped(c) = Freed(d) BY <1>3, <2>1, <2>2 DEF Dropped
    <3>2. /\ Freed(d) \in Client /\ Freed(d).state = "free" /\ Freed(d).owner = NobodyYet
          /\ Freed(d).net = 0 /\ Freed(d).needupdate = FALSE
      BY <1>1, Constants DEF Freed, Client
    <3>3. ~InGame(Freed(d)) BY <3>2 DEF InGame
    <3> HIDE DEF d
    <3> QED BY <3>1, <3>2, <3>3, <1>3, Constants DEF Sound, Human
  <2>3. CASE c.owner # Bot
    <3> DEFINE d == [c EXCEPT !.state = "zombie", !.net = 0, !.script = FALSE]
    <3>1. Dropped(c) = d BY <1>3, <2>1, <2>3 DEF Dropped
    <3>2. /\ d \in Client /\ d.state = "zombie" /\ d.owner = c.owner /\ d.port = c.port
          /\ d.net = 0 /\ d.needupdate = c.needupdate
      BY <1>1, Constants DEF Client
    <3>3. ~InGame(d) BY <3>2 DEF InGame
    <3> HIDE DEF d
    <3> QED BY <3>1, <3>2, <3>3, <1>3 DEF Sound
  <2> QED BY <2>2, <2>3
<1> QED BY <1>2, <1>3

\* Counters and the state within the game may change, nothing else.
LEMMA TouchedSound ==
  ASSUME NEW i \in Slots, NEW c, Sound(c, i), NEW d \in Client,
         d.owner = c.owner, d.port = c.port, d.net = c.net, d.script = c.script,
         d.needupdate = c.needupdate,
         d.state = c.state \/ (InGame(c) /\ InGame(d))
  PROVE  Sound(d, i)
BY DEF Sound, InGame

\* The effect of a step that gives no slot to anybody: every slot keeps its owner or
\* loses it.
Quiet ==
  /\ clients' = [i \in Slots |-> clients'[i]]
  /\ \A i \in Slots : /\ Sound(clients'[i], i)
                      /\ clients'[i].owner \in {clients[i].owner, NobodyYet}
  /\ connectqueue' \in Queue
  /\ port' = port

\* The effect of a step that may give slot s to w, to whom no other slot belongs.
Granted(s, w) ==
  /\ clients' = [i \in Slots |-> clients'[i]]
  /\ \A i \in Slots :
       /\ Sound(clients'[i], i)
       /\ \/ clients'[i].owner \in {clients[i].owner, NobodyYet}
          \/ i = s /\ clients'[i].owner = w
  /\ Human(w) => \A i \in Slots : clients[i].owner = w => i = s
  /\ ~InGame(clients[s]) \/ clients[s].owner = w
  /\ connectqueue' \in Queue
  /\ port' = port

\* Both keep the invariant and leave the players in the game alone.
LEMMA QuietKeeps ==
  ASSUME IInv, Quiet
  PROVE  /\ IInv'
         /\ \A i \in Slots : InGame(clients[i]) /\ Human(clients[i].owner)
                               => clients'[i].owner \in {clients[i].owner, NobodyYet}
<1>1. Unshared'
  <2> SUFFICES ASSUME NEW i \in Slots, NEW j \in Slots, Human(clients'[i].owner),
                      clients'[j].owner = clients'[i].owner
               PROVE  i = j
    BY DEF Unshared
  <2>1. clients'[i].owner # NobodyYet BY Constants DEF Human
  <2>2. clients'[i].owner = clients[i].owner /\ clients'[j].owner = clients[j].owner
    BY <2>1 DEF Quiet
  <2> QED BY <2>2 DEF IInv, Unshared
<1>2. DOMAIN clients' = Slots BY DEF Quiet
<1>3. \A i \in Slots : Sound(clients[i], i)' BY DEF Quiet, Sound, InGame, Human
<1> QED BY <1>1, <1>2, <1>3 DEF IInv, Quiet

\* Giving a slot to a player keeps the invariant, and no player in the game loses its slot to it.
LEMMA GrantedKeeps ==
  ASSUME IInv, NEW s \in Slots, NEW w \in Players \cup {Bot}, Granted(s, w)
  PROVE  /\ IInv'
         /\ \A i \in Slots : InGame(clients[i]) /\ Human(clients[i].owner)
                               => clients'[i].owner \in {clients[i].owner, NobodyYet}
<1>1. Unshared'
  <2> SUFFICES ASSUME NEW i \in Slots, NEW j \in Slots, Human(clients'[i].owner),
                      clients'[j].owner = clients'[i].owner
               PROVE  i = j
    BY DEF Unshared
  <2>1. clients'[i].owner # NobodyYet BY Constants DEF Human
  <2>2. /\ clients'[i].owner = clients[i].owner \/ (i = s /\ clients'[i].owner = w)
        /\ clients'[j].owner = clients[j].owner \/ (j = s /\ clients'[j].owner = w)
    BY <2>1 DEF Granted
  <2>3. CASE clients'[i].owner = w BY <2>2, <2>3 DEF Granted
  <2>4. CASE clients'[i].owner # w BY <2>2, <2>4 DEF IInv, Unshared
  <2> QED BY <2>3, <2>4
<1>2. DOMAIN clients' = Slots BY DEF Granted
<1>3. \A i \in Slots : Sound(clients[i], i)' BY DEF Granted, Sound, InGame, Human
<1>4. ASSUME NEW i \in Slots, InGame(clients[i])
      PROVE  clients'[i].owner \in {clients[i].owner, NobodyYet}
  BY <1>4 DEF Granted
<1> QED BY <1>1, <1>2, <1>3, <1>4 DEF IInv, Granted

\* The invariant holds at the start.
LEMMA InitIInv == Init => IInv
<1> SUFFICES ASSUME Init PROVE IInv OBVIOUS
<1>1. \A i \in Slots : clients[i] = Blank BY DEF Init
<1>2. \A i \in Slots : Sound(clients[i], i) BY <1>1, BlankSound
<1>3. Unshared BY <1>1, Constants DEF Unshared, Blank, Human
<1>4. connectqueue \in Queue
  <2>1. QueueSize \in 0 .. QueueSize BY SizesAssumption
  <2> QED BY <2>1, VacantWaits DEF Init, Queue
<1> QED BY <1>1, <1>2, <1>3, <1>4 DEF Init, IInv

-----------------------------------------------------------------------------
(* The actions that give no slot away.                                     *)

\* Changing one slot only.
LEMMA OneSlot ==
  ASSUME IInv, NEW i \in Slots, NEW d, clients' = [clients EXCEPT ![i] = d],
         Sound(d, i), d.owner \in {clients[i].owner, NobodyYet},
         UNCHANGED <<connectqueue, port>>
  PROVE  Quiet
<1>1. clients' = [j \in Slots |-> IF j = i THEN d ELSE clients[j]] BY DEF IInv
<1>2. \A j \in Slots : clients'[j] = IF j = i THEN d ELSE clients[j] BY <1>1
<1>3. clients' = [j \in Slots |-> clients'[j]] BY <1>1
<1> QED BY <1>2, <1>3 DEF IInv, Quiet

\* A dropped client keeps its slot sound, and nobody new is in it.
LEMMA DropClientQuiet == ASSUME IInv, NEW i \in Slots, DropClient(i) PROVE Quiet
<1>1. Sound(clients[i], i) /\ DOMAIN clients = Slots BY DEF IInv
<1>2. /\ Sound(Dropped(clients[i]), i)
      /\ Dropped(clients[i]).owner \in {clients[i].owner, NobodyYet}
  BY <1>1, DroppedSound
<1>3. clients' = [clients EXCEPT ![i] = Dropped(clients[i])] BY <1>1 DEF DropClient
<1>4. UNCHANGED <<connectqueue, port>> BY DEF DropClient
<1> QED BY <1>2, <1>3, <1>4, OneSlot

\* What a check for timeouts does with one slot.
LEMMA CheckedSound ==
  ASSUME NEW i \in Slots, NEW c, Sound(c, i)
  PROVE  Sound(Checked(c), i) /\ Checked(c).owner \in {c.owner, NobodyYet}
<1>1. c \in Client BY DEF Sound
<1>2. CASE c.state = "zombie" /\ c.idle > ZombieTime
  <2>1. ~InGame(c) BY <1>2 DEF InGame
  <2> QED BY <2>1, <1>2, FreedSound DEF Checked
<1> DEFINE Silent == InGame(c) /\ c.idle > SilentTime[c.state]
<1>3. CASE ~(c.state = "zombie" /\ c.idle > ZombieTime) /\ Silent /\ TimedOut(c)
  <2>1. Checked(c) = Freed(Dropped(c)) BY <1>3 DEF Checked
  <2>2. /\ Sound(Dropped(c), i) /\ ~InGame(Dropped(c))
        /\ Dropped(c).owner \in {c.owner, NobodyYet}
    BY DroppedSound
  <2> QED BY <2>1, <2>2, FreedSound
<1>4. CASE ~(c.state = "zombie" /\ c.idle > ZombieTime) /\ Silent /\ ~TimedOut(c)
  <2> DEFINE d == [c EXCEPT !.timeoutCount = c.timeoutCount + 1]
  <2>1. Checked(c) = d BY <1>1, <1>4 DEF Checked, Client
  <2>2. c.timeoutCount \in 0 .. TimeoutFrames BY <1>1, ClientFields
  <2>3. c.timeoutCount + 1 \in 0 .. TimeoutFrames BY <2>2, <1>4, Constants DEF TimedOut
  <2>4. d \in Client BY <1>1, <2>3 DEF Client
  <2>5. /\ d.owner = c.owner /\ d.port = c.port /\ d.net = c.net /\ d.script = c.script
        /\ d.needupdate = c.needupdate /\ d.state = c.state
    BY <1>1 DEF Client
  <2> QED BY <2>1, <2>4, <2>5, TouchedSound
<1>5. CASE ~(c.state = "zombie" /\ c.idle > ZombieTime) /\ ~Silent
  <2> DEFINE d == [c EXCEPT !.timeoutCount = 0]
  <2>1. Checked(c) = d BY <1>5 DEF Checked
  <2>2. d \in Client BY <1>1, Constants DEF Client
  <2>3. /\ d.owner = c.owner /\ d.port = c.port /\ d.net = c.net /\ d.script = c.script
        /\ d.needupdate = c.needupdate /\ d.state = c.state
    BY <1>1 DEF Client
  <2> QED BY <2>1, <2>2, <2>3, TouchedSound
<1> QED BY <1>2, <1>3, <1>4, <1>5

\* Time alone.
LEMMA IdleSound ==
  ASSUME NEW i \in Slots, NEW c, Sound(c, i), NEW t \in 0 .. AgeCap
  PROVE  /\ Sound([c EXCEPT !.idle = t], i)
         /\ [c EXCEPT !.idle = t].owner = c.owner
         /\ [c EXCEPT !.idle = t].state = c.state
<1> DEFINE d == [c EXCEPT !.idle = t]
<1>1. c \in Client BY DEF Sound
<1>2. d \in Client BY <1>1 DEF Client
<1>3. /\ d.owner = c.owner /\ d.port = c.port /\ d.net = c.net /\ d.script = c.script
      /\ d.needupdate = c.needupdate /\ d.state = c.state
  BY <1>1 DEF Client
<1> HIDE DEF d
<1>4. Sound(d, i) BY <1>2, <1>3, TouchedSound
<1> QED BY <1>3, <1>4 DEF d

\* Time stops counting at the cap.
LEMMA OlderAge == ASSUME NEW a \in 0 .. AgeCap PROVE Older(a) \in 0 .. AgeCap
BY Constants DEF Older

\* A frame, with its time-outs, gives no slot to anybody.
LEMMA FrameQuiet == ASSUME IInv, Frame PROVE Quiet
<1> DEFINE later == [i \in Slots |->
                       IF clients[i].state = "free" THEN clients[i]
                       ELSE IF clients[i].state = "active" /\ clients[i].owner = Bot
                            THEN [clients[i] EXCEPT !.idle = 0]
                            ELSE [clients[i] EXCEPT !.idle = Older(@)]]
<1>1. clients' = CheckTimeouts(later) BY DEF Frame
<1>2. ASSUME NEW i \in Slots
      PROVE  Sound(later[i], i) /\ later[i].owner = clients[i].owner
  <2>1. Sound(clients[i], i) /\ clients[i] \in Client BY DEF IInv, Sound
  <2>2. clients[i].idle \in 0 .. AgeCap BY <2>1, ClientFields
  <2>3. Older(clients[i].idle) \in 0 .. AgeCap BY <2>2, OlderAge
  <2>4. \/ later[i] = clients[i] \/ later[i] = [clients[i] EXCEPT !.idle = 0]
        \/ later[i] = [clients[i] EXCEPT !.idle = Older(clients[i].idle)]
    BY <2>1 DEF Client
  <2> HIDE DEF later
  <2>5. \A t \in 0 .. AgeCap : /\ Sound([clients[i] EXCEPT !.idle = t], i)
                              /\ [clients[i] EXCEPT !.idle = t].owner = clients[i].owner
    BY <2>1, IdleSound
  <2>6. CASE later[i] = clients[i] BY <2>6, <2>1
  <2>7. CASE later[i] = [clients[i] EXCEPT !.idle = 0] BY <2>7, <2>5, Constants
  <2>8. CASE later[i] = [clients[i] EXCEPT !.idle = Older(clients[i].idle)]
    BY <2>8, <2>5, <2>3
  <2> QED BY <2>4, <2>6, <2>7, <2>8
<1> HIDE DEF later
<1>3. ASSUME NEW i \in Slots
      PROVE  Sound(clients'[i], i) /\ clients'[i].owner \in {clients[i].owner, NobodyYet}
  <2>1. clients'[i] = later[i] \/ clients'[i] = Checked(later[i])
    BY <1>1 DEF CheckTimeouts
  <2>2. Sound(Checked(later[i]), i) /\ Checked(later[i]).owner \in {later[i].owner, NobodyYet}
    BY <1>2, CheckedSound
  <2> QED BY <2>1, <2>2, <1>2
<1>4. clients' = [i \in Slots |-> clients'[i]] BY <1>1 DEF CheckTimeouts
<1>5. connectqueue' \in Queue
  <2>1. /\ connectqueue \in [0 .. QueueSize -> Waiting] /\ connectqueue[QueueSize] = Vacant
        /\ QueueSize \in 0 .. QueueSize
    BY SizesAssumption DEF IInv, Queue
  <2>2. connectqueue' = [i \in 0 .. QueueSize |->
                            IF connectqueue[i] = Vacant THEN Vacant
                            ELSE [connectqueue[i] EXCEPT !.age = Older(@)]]
    BY DEF Frame
  <2>3. \A w \in Waiting : [w EXCEPT !.age = Older(@)] \in Waiting BY OlderAge DEF Waiting
  <2>4. \A i \in 0 .. QueueSize : connectqueue'[i] \in Waiting BY <2>1, <2>2, <2>3, VacantWaits
  <2>5. connectqueue'[QueueSize] = Vacant BY <2>1, <2>2
  <2>6. connectqueue' \in [0 .. QueueSize -> Waiting] BY <2>2, <2>4
  <2> QED BY <2>5, <2>6 DEF Queue
<1> QED BY <1>3, <1>4, <1>5 DEF Quiet, Frame

\* Neither does a change of level, whoever is refused by it.
LEMMA SpawnServerQuiet ==
  ASSUME IInv, NEW denied \in SUBSET Slots, SpawnServer(denied)
  PROVE  Quiet
<1> DEFINE alone == [i \in Slots |-> IF clients[i].owner = Bot THEN Dropped(clients[i])
                                     ELSE clients[i]]
<1>1. clients' = [i \in Slots |-> IF ~InGame(alone[i]) THEN alone[i]
                                  ELSE IF i \in denied THEN Dropped(alone[i])
                                  ELSE [alone[i] EXCEPT !.state = "connected"]]
  BY DEF SpawnServer
<1>2. ASSUME NEW i \in Slots
      PROVE  Sound(alone[i], i) /\ alone[i].owner \in {clients[i].owner, NobodyYet}
  <2>1. Sound(clients[i], i) BY DEF IInv
  <2> QED BY <2>1, DroppedSound
<1> HIDE DEF alone
<1>3. ASSUME NEW i \in Slots, NEW c, Sound(c, i), InGame(c)
      PROVE  LET d == [c EXCEPT !.state = "connected"] IN Sound(d, i) /\ d.owner = c.owner
  <2> DEFINE d == [c EXCEPT !.state = "connected"]
  <2>1. c \in Client BY <1>3 DEF Sound
  <2>2. d \in Client BY <2>1 DEF Client
  <2>3. /\ d.owner = c.owner /\ d.port = c.port /\ d.net = c.net /\ d.script = c.script
        /\ d.needupdate = c.needupdate /\ d.state = "connected"
    BY <2>1 DEF Client
  <2> HIDE DEF d
  <2>4. InGame(d) BY <2>3 DEF InGame
  <2>5. Sound(d, i) BY <2>2, <2>3, <2>4, <1>3, TouchedSound
  <2> QED BY <2>3, <2>5 DEF d
<1>4. ASSUME NEW i \in Slots
      PROVE  Sound(clients'[i], i) /\ clients'[i].owner \in {clients[i].owner, NobodyYet}
  <2>1. CASE ~InGame(alone[i])
    <3>1. clients'[i] = alone[i] BY <2>1, <1>1
    <3> QED BY <3>1, <1>2
  <2>2. CASE InGame(alone[i]) /\ i \in denied
    <3>1. clients'[i] = Dropped(alone[i]) BY <2>2, <1>1
    <3> QED BY <3>1, <1>2, DroppedSound
  <2>3. CASE InGame(alone[i]) /\ i \notin denied
    <3>1. clients'[i] = [alone[i] EXCEPT !.state = "connected"] BY <2>3, <1>1
    <3> QED BY <3>1, <2>3, <1>2, <1>3
  <2> QED BY <2>1, <2>2, <2>3
<1>5. clients' = [i \in Slots |-> clients'[i]] BY <1>1
<1> QED BY <1>4, <1>5 DEF Quiet, SpawnServer, IInv

\* The slots that hold packets of p belong to p.
LEMMA TheirsFirst ==
  ASSUME NEW p \in Players, Theirs(p) # {}
  PROVE  /\ First(Theirs(p)) \in Slots
         /\ clients[First(Theirs(p))].state # "free"
         /\ clients[First(Theirs(p))].owner = p
<1>1. Theirs(p) \subseteq Nat BY Constants DEF Theirs, Slots
<1>2. First(Theirs(p)) \in Theirs(p) BY <1>1, FirstFacts
<1> QED BY <1>2 DEF Theirs

\* The port of a packet is the one p has always had.
LEMMA AtPortSound ==
  ASSUME IInv, NEW p \in Players, NEW i \in Slots, NEW c, Sound(c, i), c.owner = p
  PROVE  AtPort(p, c) = c
<1>1. c.port = port[p] BY DEF IInv, Sound, Human
<1>2. c \in Client BY DEF Sound
<1> QED BY <1>1, <1>2 DEF AtPort, Client

\* What executing a message makes of a slot.
LEMMA ExecutedSound ==
  ASSUME NEW i \in Slots, NEW c, Sound(c, i), c.state # "zombie", c.state # "free",
         NEW d \in Executed(c)
  PROVE  Sound(d, i) /\ d.owner \in {c.owner, NobodyYet}
<1>1. c \in Client BY DEF Sound
<1>2. InGame(c) BY <1>1 DEF InGame, Client
<1>3. CASE d = c BY <1>3
<1>4. CASE d = Dropped(c) BY <1>4, DroppedSound
<1>5. ASSUME NEW st \in {"primed", "active"}, d = [c EXCEPT !.state = st]
      PROVE  Sound(d, i) /\ d.owner = c.owner
  <2>1. d \in Client BY <1>1, <1>5 DEF Client
  <2>2. /\ d.owner = c.owner /\ d.port = c.port /\ d.net = c.net /\ d.script = c.script
        /\ d.needupdate = c.needupdate /\ d.state = st
    BY <1>1, <1>5 DEF Client
  <2>3. InGame(d) BY <2>2 DEF InGame
  <2> QED BY <2>1, <2>2, <2>3, <1>2, TouchedSound
<1>6. \/ d = c \/ d = Dropped(c)
      \/ \E st \in {"primed", "active"} : d = [c EXCEPT !.state = st]
  BY DEF Executed
<1> QED BY <1>3, <1>4, <1>5, <1>6

\* Nor a packet of a player, which finds the slot of that player only.
LEMMA PacketEventQuiet ==
  ASSUME IInv, NEW p \in Players, NEW accepted \in BOOLEAN, PacketEvent(p, accepted)
  PROVE  Quiet
<1>1. PICK i \in Slots : /\ i = First(Theirs(p)) /\ clients[i].state # "free"
                         /\ clients[i].owner = p
  BY TheirsFirst DEF PacketEvent
<1>2. PICK c : c = clients[i] OBVIOUS
<1>3. Sound(c, i) BY <1>2 DEF IInv
<1>4. AtPort(p, c) = c BY <1>1, <1>2, <1>3, AtPortSound
<1>5. PICK e : e = [c EXCEPT !.idle = 0] OBVIOUS
<1>6. Sound(e, i) /\ e.owner = c.owner /\ e.state = c.state
  BY <1>3, <1>5, IdleSound, Constants
<1>7. PICK d : /\ d \in (IF c.needupdate /\ c.updateconnOK THEN {e}
                         ELSE IF accepted /\ c.state # "zombie" THEN Executed(e)
                         ELSE {c})
               /\ clients' = [clients EXCEPT ![i] = d]
  BY <1>1, <1>2, <1>4, <1>5 DEF PacketEvent
<1>8. Sound(d, i) /\ d.owner \in {c.owner, NobodyYet}
  <2>1. CASE d = e BY <2>1, <1>6
  <2>2. CASE d = c BY <2>2, <1>3
  <2>3. CASE c.state # "zombie" /\ d \in Executed(e)
    BY <2>3, <1>1, <1>2, <1>6, ExecutedSound
  <2> QED BY <2>1, <2>2, <2>3, <1>7
<1>9. UNCHANGED <<connectqueue, port>> BY DEF PacketEvent
<1> QED BY <1>2, <1>7, <1>8, <1>9, OneSlot

\* Nor a packet of statistics or voice.
LEMMA SidePacketQuiet ==
  ASSUME IInv, NEW p \in Players, NEW stats \in BOOLEAN, SidePacket(p, stats)
  PROVE  Quiet
<1>1. PICK i \in Slots : /\ i = First(Theirs(p)) /\ clients[i].state # "free"
                         /\ clients[i].owner = p
  BY TheirsFirst DEF SidePacket
<1>2. PICK c : c = clients[i] OBVIOUS
<1>3. Sound(c, i) BY <1>2 DEF IInv
<1>4. AtPort(p, c) = c BY <1>1, <1>2, <1>3, AtPortSound
<1>5. PICK e : e = [c EXCEPT !.idle = 0] OBVIOUS
<1>6. Sound(e, i) /\ e.owner = c.owner BY <1>3, <1>5, IdleSound, Constants
<1>7. PICK d : d \in {c, e} /\ clients' = [clients EXCEPT ![i] = d]
  BY <1>1, <1>2, <1>4, <1>5 DEF SidePacket
<1>8. Sound(d, i) /\ d.owner = c.owner BY <1>3, <1>6, <1>7
<1>9. UNCHANGED <<connectqueue, port>> BY DEF SidePacket
<1> QED BY <1>2, <1>7, <1>8, <1>9, OneSlot

\* Nor the answer of the update server.
LEMMA UpdateProxyConnectResponseQuiet ==
  ASSUME IInv, NEW p \in Players, NEW challenge, UpdateProxyConnectResponse(p, challenge)
  PROVE  Quiet
<1> DEFINE waiting == {i \in Slots : /\ clients[i].state = "zombie" /\ clients[i].owner = p
                                     /\ clients[i].challenge = challenge}
<1>1. First(waiting) \in waiting
  <2>1. waiting \subseteq Nat BY Constants DEF Slots
  <2>2. waiting # {} BY DEF UpdateProxyConnectResponse
  <2> HIDE DEF waiting
  <2> QED BY <2>1, <2>2, FirstFacts
<1>2. PICK i \in Slots : i = First(waiting) BY <1>1
<1>3. PICK c : c = clients[i] OBVIOUS
<1>4. Sound(c, i) /\ c \in Client BY <1>3 DEF IInv, Sound
<1>5. PICK d : d = [c EXCEPT !.updateconnOK = TRUE] OBVIOUS
<1>6. d \in Client BY <1>4, <1>5 DEF Client
<1>7. /\ d.owner = c.owner /\ d.port = c.port /\ d.net = c.net /\ d.script = c.script
      /\ d.needupdate = c.needupdate /\ d.state = c.state
  BY <1>4, <1>5 DEF Client
<1>8. Sound(d, i) BY <1>4, <1>6, <1>7, TouchedSound
<1>9. clients' = [clients EXCEPT ![i] = d]
  BY <1>2, <1>3, <1>5 DEF UpdateProxyConnectResponse, IInv
<1>10. UNCHANGED <<connectqueue, port>> BY DEF UpdateProxyConnectResponse
<1> QED BY <1>3, <1>7, <1>8, <1>9, <1>10, OneSlot

-----------------------------------------------------------------------------
(* The actions that give a slot away.                                      *)

\* Changing one slot for w.
LEMMA OneGranted ==
  ASSUME IInv, NEW s \in Slots, NEW w \in Players \cup {Bot}, NEW cs, NEW d,
         clients' = [cs EXCEPT ![s] = d],
         cs = [i \in Slots |-> cs[i]],
         \A i \in Slots : Sound(cs[i], i) /\ cs[i].owner \in {clients[i].owner, NobodyYet},
         Sound(d, s), d.owner \in {w, NobodyYet},
         Human(w) => \A i \in Slots : clients[i].owner = w => i = s,
         ~InGame(clients[s]) \/ clients[s].owner = w,
         connectqueue' \in Queue, port' = port
  PROVE  Granted(s, w)
<1>1. clients' = [i \in Slots |-> IF i = s THEN d ELSE cs[i]] BY Zenon
<1>2. \A i \in Slots : clients'[i] = IF i = s THEN d ELSE cs[i] BY <1>1
<1>3. clients' = [i \in Slots |-> clients'[i]] BY <1>1
<1> QED BY <1>2, <1>3 DEF Granted

\* A free slot of a stretch of places.
LEMMA FreeSlotsFirst ==
  ASSUME NEW cs, NEW low \in 0 .. MaxClients, NEW high \in 0 .. MaxClients,
         FreeSlots(cs, low, high) # {}
  PROVE  LET s == First(FreeSlots(cs, low, high)) IN
           /\ s \in Slots /\ low <= s /\ s < high /\ cs[s].state = "free"
<1> DEFINE F == FreeSlots(cs, low, high)
<1>1. F \subseteq Nat BY Constants DEF FreeSlots
<1>2. F # {} OBVIOUS
<1>3. First(F) \in F
  <2> HIDE DEF F
  <2> QED BY <1>1, <1>2, FirstFacts
<1> QED BY <1>3, Constants DEF FreeSlots, Slots

\* A bot gets a free slot.
LEMMA AddBotClientGranted ==
  ASSUME IInv, NEW denied \in BOOLEAN, AddBotClient(denied)
  PROVE  \E s \in Slots : Granted(s, Bot)
<1> DEFINE F == FreeSlots(clients, PrivateClients, MaxClients)
<1> DEFINE bot == [Blank EXCEPT !.state = "active", !.owner = Bot, !.script = TRUE]
<1>1. F # {} BY DEF AddBotClient
<1>2. PICK s \in Slots : s = First(F) /\ PrivateClients <= s /\ clients[s].state = "free"
  <2>1. PrivateClients \in 0 .. MaxClients /\ MaxClients \in 0 .. MaxClients BY Constants
  <2> QED BY <1>1, <2>1, FreeSlotsFirst
<1>3. PICK d : d = IF denied THEN Blank ELSE bot OBVIOUS
<1>4. clients' = [clients EXCEPT ![s] = d] BY <1>2, <1>3 DEF AddBotClient
<1>5. Sound(d, s) /\ d.owner \in {Bot, NobodyYet}
  <2>1. Sound(Blank, s) /\ Blank.owner = NobodyYet BY BlankSound DEF Blank
  <2>2. bot \in Client BY Constants DEF Blank, Client
  <2>3. /\ bot.state = "active" /\ bot.owner = Bot /\ bot.script = TRUE /\ bot.net = 0
        /\ bot.needupdate = FALSE
    BY DEF Blank
  <2>4. ~(s < PrivateClients) BY <1>2, Constants DEF Slots
  <2>5. ~Human(bot.owner) /\ bot.owner # NobodyYet BY <2>3, Constants DEF Human
  <2> HIDE DEF bot
  <2>6. Sound(bot, s) BY <2>2, <2>3, <2>4, <2>5 DEF Sound
  <2> QED BY <1>3, <2>1, <2>3, <2>6
<1>6. ~InGame(clients[s]) BY <1>2 DEF InGame
<1>7. ~Human(Bot) BY Constants DEF Human
<1>8. connectqueue' \in Queue /\ port' = port BY DEF AddBotClient, IInv
<1>9. clients = [i \in Slots |-> clients[i]] /\ \A i \in Slots : Sound(clients[i], i)
  BY DEF IInv
<1> QED BY <1>4, <1>5, <1>6, <1>7, <1>8, <1>9, OneGranted

\* As long as the ports do not change, nobody's slot is taken for that of p.
LEMMA HitsOwn ==
  ASSUME IInv, NEW p \in Players, NEW i \in Slots
  PROVE  /\ Matches(p, clients[i]) <=> clients[i].owner = p
         /\ i \in Hits(p) /\ ~Uncompleted(p, clients[i]) => clients[i].owner = p
         /\ clients[i].owner = p => i \in Hits(p)
<1>1. Human(clients[i].owner) => clients[i].port = FirstPort[clients[i].owner]
  BY DEF IInv, Sound
<1>2. port[p] = FirstPort[p] BY DEF IInv
<1>3. Matches(p, clients[i]) => clients[i].owner = p
  <2> SUFFICES ASSUME SameAddress(p, clients[i]), clients[i].port = port[p]
               PROVE  clients[i].owner = p
    BY DEF Matches
  <2>1. clients[i].owner \in Players /\ Address[clients[i].owner] = Address[p]
    BY DEF SameAddress, Human
  <2>2. FirstPort[clients[i].owner] = FirstPort[p] BY <1>1, <1>2, <2>1 DEF Human
  <2> QED BY <2>1, <2>2, PlayersAssumption
<1>4. clients[i].owner = p => Matches(p, clients[i]) BY DEF Matches, SameAddress, Human
<1> QED BY <1>3, <1>4 DEF Hits

\* The queue after the places of those who do not ask any more are cleared.
LEMMA PurgedQueue == ASSUME NEW q \in Queue PROVE Purged(q) \in Queue
<1>1. /\ q \in [0 .. QueueSize -> Waiting] /\ q[QueueSize] = Vacant
      /\ QueueSize \in 0 .. QueueSize /\ QueueSize \in Nat
  BY SizesAssumption DEF Queue
<1>2. Purged(q) \in [0 .. QueueSize -> Waiting] BY <1>1, VacantWaits DEF Purged
<1>3. Purged(q)[QueueSize] = Vacant BY <1>1 DEF Purged
<1> QED BY <1>2, <1>3 DEF Queue

\* The place of a player in the queue is one of its places or the one behind it.
LEMMA PlaceFacts ==
  ASSUME NEW q \in Queue, NEW p
  PROVE  Place(q, p) \in 0 .. QueueSize
<1> DEFINE S == {i \in 0 .. QueueSize - 1 : q[i] = Vacant \/ q[i].who = Cookie(p)} \cup {QueueSize}
<1>1. S \subseteq 0 .. QueueSize /\ S \subseteq Nat /\ S # {} BY SizesAssumption
<1> HIDE DEF S
<1>2. First(S) \in S BY <1>1, FirstFacts
<1>3. Place(q, p) = First(S) BY DEF Place, S
<1> QED BY <1>1, <1>2, <1>3

\* Clearing a place of the queue, or taking one that is not the last.
LEMMA QueueChange ==
  ASSUME NEW q \in Queue, NEW n \in 0 .. QueueSize
  PROVE  /\ [q EXCEPT ![n] = Vacant] \in Queue
         /\ \A w \in Waiting : n # QueueSize => [q EXCEPT ![n] = w] \in Queue
<1>1. /\ q \in [0 .. QueueSize -> Waiting] /\ q[QueueSize] = Vacant
      /\ QueueSize \in 0 .. QueueSize
  BY SizesAssumption DEF Queue
<1>2. [q EXCEPT ![n] = Vacant] \in Queue
  <2>1. [q EXCEPT ![n] = Vacant] \in [0 .. QueueSize -> Waiting] BY <1>1, VacantWaits
  <2>2. [q EXCEPT ![n] = Vacant][QueueSize] = Vacant BY <1>1
  <2> QED BY <2>1, <2>2 DEF Queue
<1>3. ASSUME NEW w \in Waiting, n # QueueSize PROVE [q EXCEPT ![n] = w] \in Queue
  <2>1. [q EXCEPT ![n] = w] \in [0 .. QueueSize -> Waiting] BY <1>1
  <2>2. [q EXCEPT ![n] = w][QueueSize] = Vacant BY <1>1, <1>3
  <2> QED BY <2>1, <2>2 DEF Queue
<1> QED BY <1>2, <1>3

\* What becomes of the slot a player gets.
LEMMA OccupiedSound ==
  ASSUME IInv, NEW p \in Players, NEW s \in Slots, NEW c, NEW verdict \in Verdicts,
         s < PrivateClients => p \in Privileged
  PROVE  Sound(Occupied(c, p, verdict), s) /\ Occupied(c, p, verdict).owner \in {p, NobodyYet}
<1>1. port = FirstPort /\ port[p] \in Ports BY Constants DEF IInv
<1>2. Cookie(p) \in Cookies BY <1>1 DEF Cookie, Cookies
<1>3. PICK fresh : fresh = [Blank EXCEPT !.challenge = Cookie(p)] OBVIOUS
<1>4. PICK known : known = [fresh EXCEPT !.owner = p, !.port = port[p]] OBVIOUS
<1>5. /\ fresh \in Client /\ fresh.owner = NobodyYet /\ fresh.state = "free" /\ fresh.net = 0
      /\ fresh.needupdate = FALSE
  BY <1>2, <1>3, Constants DEF Blank, Client
<1>6. /\ known \in Client /\ known.owner = p /\ known.state = "free" /\ known.net = 0
      /\ known.needupdate = FALSE /\ known.port = port[p]
  BY <1>1, <1>4, <1>5, Constants DEF Client
<1>7. ASSUME NEW b \in BOOLEAN
      PROVE  LET d == [known EXCEPT !.state = "zombie", !.needupdate = TRUE,
                                    !.updateconnOK = b, !.script = TRUE]
             IN  Sound(d, s) /\ d.owner = p
  <2> DEFINE d == [known EXCEPT !.state = "zombie", !.needupdate = TRUE,
                                !.updateconnOK = b, !.script = TRUE]
  <2>1. /\ d \in Client /\ d.state = "zombie" /\ d.owner = p /\ d.port = port[p] /\ d.net = 0
    BY <1>6 DEF Client
  <2> HIDE DEF d
  <2>2. ~InGame(d) BY <2>1 DEF InGame
  <2>3. Sound(d, s) BY <2>1, <2>2, <1>1 DEF Sound
  <2> QED BY <2>1, <2>3 DEF d
<1>8. LET d == [known EXCEPT !.state = "connected", !.net = port[p], !.script = TRUE]
      IN  Sound(d, s) /\ d.owner = p
  <2> DEFINE d == [known EXCEPT !.state = "connected", !.net = port[p], !.script = TRUE]
  <2>1. /\ d \in Client /\ d.state = "connected" /\ d.owner = p /\ d.port = port[p]
        /\ d.net = port[p] /\ d.script = TRUE /\ d.needupdate = FALSE
    BY <1>1, <1>6, Constants DEF Client
  <2> HIDE DEF d
  <2>2. InGame(d) /\ Human(d.owner) /\ d.net # 0 /\ d.owner # NobodyYet
    BY <2>1, <1>1, Constants DEF InGame, Human
  <2>3. Sound(d, s) BY <2>1, <2>2, <1>1 DEF Sound
  <2> QED BY <2>1, <2>3 DEF d
<1>9. Sound(fresh, s)
  <2>1. ~InGame(fresh) /\ ~Human(fresh.owner) BY <1>5, Constants DEF InGame, Human
  <2> QED BY <1>5, <2>1 DEF Sound
<1>10. Sound(known, s)
  <2>1. ~InGame(known) BY <1>6 DEF InGame
  <2> QED BY <1>1, <1>6, <2>1 DEF Sound
<1>11. Sound(Blank, s) /\ Blank.owner = NobodyYet BY BlankSound DEF Blank
<1> DEFINE answered == /\ p \in Old /\ c.challenge = Cookie(p)
                       /\ c.state # "free" /\ c.updateconnOK
<1>12. PICK b : b = answered OBVIOUS
<1> DEFINE o == Occupied(c, p, verdict)
<1>13. \/ o = fresh \/ o = known \/ o = Blank
       \/ o = [known EXCEPT !.state = "zombie", !.needupdate = TRUE, !.updateconnOK = b,
                            !.script = TRUE]
       \/ o = [known EXCEPT !.state = "connected", !.net = port[p], !.script = TRUE]
  BY <1>3, <1>4, <1>12 DEF Occupied
<1> HIDE DEF o
<1>14. Sound(o, s) /\ o.owner \in {p, NobodyYet}
  BY <1>5, <1>6, <1>7, <1>8, <1>9, <1>10, <1>11, <1>12, <1>13
<1> QED BY <1>14 DEF o

\* The choice of a slot, once the old session of p is dropped.
LEMMA TakeSlotEffect ==
  ASSUME IInv, NEW p \in Players, NEW verdict \in Verdicts, NEW own, NEW cs,
         own = {i \in Slots : clients[i].owner = p},
         cs = [i \in Slots |-> cs[i]],
         \A i \in Slots : /\ Sound(cs[i], i) /\ cs[i].owner \in {clients[i].owner, NobodyYet}
                          /\ cs[i].state = "free" /\ i \notin own => ~InGame(clients[i]),
         TakeSlot(cs, own, p, verdict), port' = port
  PROVE  Quiet \/ \E s \in Slots : Granted(s, p)
<1> DEFINE q        == MovedUp(Purged(connectqueue))
           n        == Place(q, p)
           reserved == Reserved(cs, p)
           public   == Public(cs, q, p)
           queued   == own = {} /\ reserved = {}
           choice   == IF own # {} THEN own ELSE IF reserved # {} THEN reserved ELSE public
<1>1. q \in Queue BY PurgedQueue, MovedUpQueue DEF IInv
<1>2. n \in 0 .. QueueSize BY <1>1, PlaceFacts
<1>3. TakeSlot(cs, own, p, verdict) <=>
        IF choice = {}
        THEN /\ clients' = cs
             /\ connectqueue' = IF n = QueueSize THEN q
                                ELSE [q EXCEPT ![n] = [who |-> Cookie(p), age |-> 0]]
        ELSE /\ clients' = [cs EXCEPT ![First(choice)] = Occupied(cs[First(choice)], p, verdict)]
             /\ connectqueue' = IF queued \/ verdict = "plugin" THEN [q EXCEPT ![n] = Vacant] ELSE q
  BY DEF TakeSlot
<1>4. [who |-> Cookie(p), age |-> 0] \in Waiting
  <2>1. Cookie(p) \in Cookies BY Constants DEF Cookie, Cookies, IInv
  <2> QED BY <2>1, Constants DEF Waiting
<1> HIDE DEF q, n, queued
<1>5. connectqueue' \in Queue
  <2>1. /\ [q EXCEPT ![n] = Vacant] \in Queue
        /\ n # QueueSize => [q EXCEPT ![n] = [who |-> Cookie(p), age |-> 0]] \in Queue
    BY <1>1, <1>2, <1>4, QueueChange
  <2> HIDE DEF choice
  <2>2. \/ connectqueue' = q \/ connectqueue' = [q EXCEPT ![n] = Vacant]
        \/ n # QueueSize /\ connectqueue' = [q EXCEPT ![n] = [who |-> Cookie(p), age |-> 0]]
    BY <1>3
  <2> QED BY <1>1, <2>1, <2>2
<1>6. CASE choice = {}
  <2>1. clients' = cs BY <1>3, <1>6
  <2> QED BY <2>1, <1>5 DEF Quiet
<1>7. CASE choice # {}
  <2>1. /\ First(choice) \in Slots
        /\ First(choice) \in own \/ (own = {} /\ cs[First(choice)].state = "free")
        /\ First(choice) < PrivateClients => p \in Privileged
    <3>1. CASE own # {}
      <4>1. own \subseteq Nat BY Constants DEF Slots
      <4>2. First(own) \in own BY <3>1, <4>1, FirstFacts
      <4>3. First(own) \in Slots /\ clients[First(own)].owner = p BY <4>2
      <4>4. First(own) < PrivateClients => p \in Privileged
        BY <4>3, Constants DEF IInv, Sound
      <4> QED BY <3>1, <4>2, <4>3, <4>4
    <3>2. CASE own = {} /\ reserved # {}
      <4>1. p \in Privileged /\ reserved = FreeSlots(cs, 0, PrivateClients)
        BY <3>2 DEF Reserved
      <4>2. 0 \in 0 .. MaxClients /\ PrivateClients \in 0 .. MaxClients BY Constants
      <4> HIDE DEF reserved, public
      <4>3. First(reserved) \in Slots /\ cs[First(reserved)].state = "free"
        BY <3>2, <4>1, <4>2, FreeSlotsFirst
      <4>4. choice = reserved BY <3>2
      <4> QED BY <3>2, <4>1, <4>3, <4>4
    <3>3. CASE own = {} /\ reserved = {}
      <4>1. choice = FreeSlots(cs, PrivateClients, MaxClients) BY <3>3, <1>7 DEF Public
      <4>2. MaxClients \in 0 .. MaxClients /\ PrivateClients \in 0 .. MaxClients BY Constants
      <4>5. choice # {} BY <1>7
      <4> HIDE DEF choice
      <4>3. /\ First(choice) \in Slots /\ cs[First(choice)].state = "free"
            /\ PrivateClients <= First(choice)
        BY <4>5, <4>1, <4>2, FreeSlotsFirst
      <4>4. ~(First(choice) < PrivateClients) BY <4>3, Constants DEF Slots
      <4> QED BY <3>3, <4>3, <4>4
    <3> QED BY <3>1, <3>2, <3>3
  <2>2. clients' = [cs EXCEPT ![First(choice)] = Occupied(cs[First(choice)], p, verdict)]
    BY <1>3, <1>7
  <2> HIDE DEF choice
  <2>3. PICK s \in Slots : s = First(choice) BY <2>1
  <2>4. PICK d : d = Occupied(cs[s], p, verdict) OBVIOUS
  <2>5. Sound(d, s) /\ d.owner \in {p, NobodyYet} BY <2>1, <2>3, <2>4, OccupiedSound
  <2>6. ASSUME NEW i \in Slots, clients[i].owner = p PROVE i = s
    <3>1. s \in own BY <2>1, <2>3, <2>6
    <3>2. clients[s].owner = p BY <3>1
    <3> QED BY <2>6, <3>2 DEF IInv, Unshared, Human
  <2>7. ~InGame(clients[s]) \/ clients[s].owner = p BY <2>1, <2>3
  <2>8. clients' = [cs EXCEPT ![s] = d] BY <2>2, <2>3, <2>4
  <2>9. Granted(s, p) BY <1>5, <2>5, <2>6, <2>7, <2>8, OneGranted
  <2> QED BY <2>9
<1> QED BY <1>6, <1>7

\* A request to connect gives a slot to nobody, or a free one to the player that asks.
LEMMA DirectConnectEffect ==
  ASSUME IInv, NEW p \in Players, NEW verdict \in Verdicts, DirectConnect(p, verdict)
  PROVE  Quiet \/ \E s \in Slots : Granted(s, p)
<1>1. PICK hit : hit = IF Hits(p) = {} THEN {} ELSE {First(Hits(p))} OBVIOUS
<1>2. PICK cs : cs = [i \in Slots |-> IF i \in hit THEN Dropped(clients[i]) ELSE clients[i]]
  OBVIOUS
<1>3. /\ \A i \in hit : ~Uncompleted(p, clients[i])
      /\ IF verdict = "rejected" THEN clients' = cs /\ UNCHANGED connectqueue
                                 ELSE TakeSlot(cs, hit, p, verdict)
      /\ port' = port
  BY <1>1, <1>2 DEF DirectConnect
<1>4. hit = {i \in Slots : clients[i].owner = p}
  <2>1. hit \subseteq Hits(p)
    <3>1. Hits(p) \subseteq Nat BY Constants DEF Hits, Slots
    <3> QED BY <1>1, <3>1, FirstFacts
  <2>2. \A i \in hit : i \in Slots /\ clients[i].owner = p
    BY <2>1, <1>3, HitsOwn DEF Hits
  <2>3. ASSUME NEW i \in Slots, clients[i].owner = p PROVE i \in hit
    <3>1. Hits(p) # {} BY <2>3, HitsOwn
    <3>2. PICK j \in Slots : hit = {j} /\ clients[j].owner = p BY <3>1, <1>1, <2>2
    <3>3. i = j BY <2>3, <3>2 DEF IInv, Unshared, Human
    <3> QED BY <3>2, <3>3
  <2> QED BY <2>2, <2>3
<1>5. cs = [i \in Slots |-> cs[i]] BY <1>2
<1>6. ASSUME NEW i \in Slots
      PROVE  /\ Sound(cs[i], i) /\ cs[i].owner \in {clients[i].owner, NobodyYet}
             /\ cs[i].state = "free" /\ i \notin hit => ~InGame(clients[i])
  <2>1. Sound(clients[i], i) BY DEF IInv
  <2>2. CASE i \in hit BY <2>1, <2>2, <1>2, DroppedSound
  <2>3. CASE i \notin hit BY <2>1, <2>3, <1>2 DEF InGame
  <2> QED BY <2>2, <2>3
<1>7. CASE verdict = "rejected"
  <2>1. clients' = cs /\ connectqueue' = connectqueue BY <1>3, <1>7
  <2> QED BY <1>3, <1>5, <1>6, <2>1 DEF Quiet, IInv
<1>8. CASE verdict # "rejected" BY <1>3, <1>4, <1>5, <1>6, <1>8, TakeSlotEffect
<1> QED BY <1>7, <1>8

-----------------------------------------------------------------------------
(* Who is first in the queue.                                              *)

\* With one gap at most, who is first after the pass was ahead of all others before it.
LEMMA OneGapFirst ==
  ASSUME NEW q \in Queue, Cardinality(Gaps(q)) <= 1, NEW w, MovedUp(q)[0].who = w \/ MovedUp(q)[0] = Vacant,
         NEW j \in 0 .. QueueSize, q[j] # Vacant, q[j].who # w
  PROVE  \E i \in 0 .. QueueSize : i < j /\ q[i].who = w
<1>1. QueueSize \in Nat \ {0} BY SizesAssumption
<1>2. q[QueueSize] = Vacant /\ DOMAIN q = 0 .. QueueSize BY DEF Queue
<1>3. j < QueueSize BY <1>1, <1>2
<1>4. CASE q[0] # Vacant
  <2>1. MovedUp(q)[0] = q[0] BY <1>4, MovedUpFirst
  <2>2. q[0].who = w BY <1>4, <2>1
  <2>3. 0 < j /\ 0 \in 0 .. QueueSize BY <1>1, <2>2
  <2> QED BY <2>2, <2>3
<1>5. CASE q[0] = Vacant
  <2>1. 0 < j /\ QueueSize > 1 /\ 0 \in 0 .. QueueSize /\ 1 \in 0 .. QueueSize BY <1>1, <1>3, <1>5
  <2>2. 0 \in Gaps(q) BY <1>2, <1>5, <2>1 DEF Gaps
  <2>3. q[1] # Vacant
    <3>1. SUFFICES ASSUME q[1] = Vacant PROVE FALSE OBVIOUS
    <3>2. 1 < j BY <2>1, <3>1
    <3>3. 0 .. 1 \subseteq Gaps(q) BY <1>2, <2>1, <2>2, <3>1, <3>2 DEF Gaps
    <3>4. IsFiniteSet(Gaps(q))
      <4>1. Gaps(q) \subseteq 0 .. QueueSize BY <1>2 DEF Gaps
      <4>2. IsFiniteSet(0 .. QueueSize) BY <1>1, FS_Interval
      <4> QED BY <4>1, <4>2, FS_Subset
    <3>5. Cardinality(0 .. 1) <= Cardinality(Gaps(q)) BY <3>3, <3>4, FS_Subset
    <3>6. Cardinality(0 .. 1) = 2
      <4>1. \A a, b \in Int : Cardinality(a .. b) = IF a > b THEN 0 ELSE b - a + 1
        BY ONLY FS_Interval
      <4>2. 0 \in Int /\ 1 \in Int OBVIOUS
      <4>3. Cardinality(0 .. 1) = IF 0 > 1 THEN 0 ELSE 1 - 0 + 1 BY ONLY <4>1, <4>2, Zenon
      <4> QED BY <4>3
    <3>7. Cardinality(Gaps(q)) \in Nat BY <3>4, FS_CardinalityType
    <3> QED BY <3>5, <3>6, <3>7
  <2>4. MovedUp(q)[0] = q[1] BY <1>5, <2>1, MovedUpFirst
  <2>5. q[1].who = w BY <2>3, <2>4
  <2>6. 1 < j BY <1>5, <2>1, <2>5
  <2> QED BY <2>1, <2>5, <2>6
<1> QED BY <1>4, <1>5

\* Who gets a public slot that is new to it has found its place to be the first.
LEMMA EntersFirst ==
  ASSUME IInv, NEW p \in Players, NEW verdict \in Verdicts, DirectConnect(p, verdict), Enters(p)
  PROVE  LET q == MovedUp(Purged(connectqueue)) IN q[0].who = Cookie(p) \/ q[0] = Vacant
<1> DEFINE q == MovedUp(Purged(connectqueue))
<1>1. PICK s \in Slots : /\ s >= PrivateClients /\ Hits(p) = {} /\ clients[s].state = "free"
                         /\ clients'[s].state # "free"
  BY DEF Enters
<1>2. PICK cs : cs = [i \in Slots |-> IF i \in {} THEN Dropped(clients[i]) ELSE clients[i]]
  OBVIOUS
<1>3. cs = clients BY <1>2 DEF IInv
<1>4. IF verdict = "rejected" THEN clients' = clients ELSE TakeSlot(clients, {}, p, verdict)
  BY <1>1, <1>2, <1>3 DEF DirectConnect
<1>5. TakeSlot(clients, {}, p, verdict) BY <1>1, <1>4
<1> DEFINE reserved == Reserved(clients, p)
           public == Public(clients, q, p)
           choice == IF reserved # {} THEN reserved ELSE public
<1>6. IF choice = {} THEN clients' = clients
      ELSE clients' = [clients EXCEPT ![First(choice)] = Occupied(clients[First(choice)], p, verdict)]
  BY <1>5 DEF TakeSlot
<1>7. choice # {} /\ s = First(choice)
  <2> HIDE DEF choice
  <2>1. choice # {} BY <1>1, <1>6
  <2>2. clients' = [clients EXCEPT ![First(choice)] = Occupied(clients[First(choice)], p, verdict)]
    BY <1>6, <2>1
  <2>3. s # First(choice) => clients'[s] = clients[s] BY <2>2 DEF IInv
  <2> QED BY <1>1, <2>1, <2>3
<1>8. reserved = {}
  <2>1. SUFFICES ASSUME reserved # {} PROVE FALSE OBVIOUS
  <2>2. reserved = FreeSlots(clients, 0, PrivateClients) BY <2>1 DEF Reserved
  <2>3. 0 \in 0 .. MaxClients /\ PrivateClients \in 0 .. MaxClients BY Constants
  <2>4. s = First(reserved) BY <1>7, <2>1
  <2> HIDE DEF reserved, choice
  <2>5. s < PrivateClients BY <2>1, <2>2, <2>3, <2>4, FreeSlotsFirst
  <2> QED BY <1>1, <2>5, Constants DEF Slots
<1>9. Place(q, p) = 0 BY <1>7, <1>8 DEF Public
<1>10. QueueSize \in Nat \ {0} BY SizesAssumption
<1> DEFINE S == {i \in 0 .. QueueSize - 1 : q[i] = Vacant \/ q[i].who = Cookie(p)} \cup {QueueSize}
<1>11. First(S) \in S
  <2>1. S \subseteq Nat /\ S # {} BY <1>10
  <2> HIDE DEF S
  <2> QED BY <2>1, FirstFacts
<1>12. First(S) = 0 BY <1>9 DEF Place
<1> HIDE DEF q
<1>13. 0 \in S
  <2> HIDE DEF S
  <2> QED BY <1>11, <1>12
<1>14. q[0].who = Cookie(p) \/ q[0] = Vacant BY <1>10, <1>13
<1> QED BY <1>14 DEF q

\* Nobody gets a slot otherwise.
LEMMA EntersAsking ==
  ASSUME IInv, Next, NEW p \in Players, Enters(p)
  PROVE  \E verdict \in Verdicts : DirectConnect(p, verdict)
<1>1. PICK i \in Slots : Hits(p) = {} /\ clients'[i].owner = p BY DEF Enters
<1>2. clients[i].owner # p BY <1>1, HitsOwn
<1>3. p # NobodyYet /\ p # Bot BY Constants
<1>4. ~Quiet BY <1>1, <1>2, <1>3 DEF Quiet
<1>5. ASSUME NEW s \in Slots, NEW w, Granted(s, w) PROVE w = p
  BY <1>1, <1>2, <1>3, <1>5 DEF Granted
<1>6. CASE Frame BY <1>4, <1>6, FrameQuiet
<1>7. CASE \E j \in Slots : DropClient(j) BY <1>4, <1>7, DropClientQuiet
<1>8. CASE \E denied \in BOOLEAN : AddBotClient(denied)
  <2>1. PICK s \in Slots : Granted(s, Bot) BY <1>8, AddBotClientGranted
  <2> QED BY <1>3, <1>5, <2>1
<1>9. CASE \E denied \in SUBSET Slots : SpawnServer(denied) BY <1>4, <1>9, SpawnServerQuiet
<1>10. ASSUME NEW r \in Players, NEW verdict \in Verdicts, DirectConnect(r, verdict)
       PROVE  r = p
  <2>1. PICK s \in Slots : Granted(s, r) BY <1>4, <1>10, DirectConnectEffect
  <2> QED BY <1>5, <2>1
<1>11. ASSUME NEW r \in Players, \E accepted \in BOOLEAN : PacketEvent(r, accepted) PROVE FALSE
  BY <1>4, <1>11, PacketEventQuiet
<1>12. ASSUME NEW r \in Players, \E stats \in BOOLEAN : SidePacket(r, stats) PROVE FALSE
  BY <1>4, <1>12, SidePacketQuiet
<1>13. ASSUME NEW r \in Players, \E j \in Slots : UpdateProxyConnectResponse(r, clients[j].challenge)
       PROVE  FALSE
  BY <1>4, <1>13, UpdateProxyConnectResponseQuiet
<1> QED BY <1>6, <1>7, <1>8, <1>9, <1>10, <1>11, <1>12, <1>13 DEF Next

-----------------------------------------------------------------------------
(* The theorems.                                                           *)

\* Every step keeps the invariant, and whoever plays keeps the slot or leaves it.
LEMMA NextKeeps ==
  ASSUME IInv, Next
  PROVE  /\ IInv'
         /\ \A i \in Slots : InGame(clients[i]) /\ Human(clients[i].owner)
                               => clients'[i].owner \in {clients[i].owner, NobodyYet}
<1> SUFFICES Quiet \/ \E s \in Slots, w \in Players \cup {Bot} : Granted(s, w)
  BY QuietKeeps, GrantedKeeps
<1>1. CASE Frame BY <1>1, FrameQuiet
<1>2. CASE \E i \in Slots : DropClient(i) BY <1>2, DropClientQuiet
<1>3. CASE \E denied \in BOOLEAN : AddBotClient(denied)
  <2>1. PICK s \in Slots : Granted(s, Bot) BY <1>3, AddBotClientGranted
  <2> QED BY <2>1
<1>4. CASE \E denied \in SUBSET Slots : SpawnServer(denied) BY <1>4, SpawnServerQuiet
<1>5. ASSUME NEW p \in Players, \E verdict \in Verdicts : DirectConnect(p, verdict)
      PROVE  Quiet \/ \E s \in Slots, w \in Players \cup {Bot} : Granted(s, w)
  BY <1>5, DirectConnectEffect
<1>6. ASSUME NEW p \in Players, \E accepted \in BOOLEAN : PacketEvent(p, accepted)
      PROVE  Quiet
  BY <1>6, PacketEventQuiet
<1>7. ASSUME NEW p \in Players, \E stats \in BOOLEAN : SidePacket(p, stats) PROVE Quiet
  BY <1>7, SidePacketQuiet
<1>8. ASSUME NEW p \in Players,
             \E i \in Slots : UpdateProxyConnectResponse(p, clients[i].challenge)
      PROVE  Quiet
  BY <1>8, UpdateProxyConnectResponseQuiet
<1> QED BY <1>1, <1>2, <1>3, <1>4, <1>5, <1>6, <1>7, <1>8 DEF Next

\* A step that changes nothing keeps the invariant.
LEMMA StutterKeeps == IInv /\ UNCHANGED vars => IInv'
BY DEF vars, IInv, Unshared, Sound, InGame, Human

\* The invariant of the client slots holds in every state (while no router changes
\* ports): no player is known by two slots, and each slot is sound.
THEOREM Correct == Spec => []IInv
<1>1. Init => IInv BY InitIInv
<1>2. IInv /\ [Next]_vars => IInv' BY NextKeeps, StutterKeeps
<1> QED BY <1>1, <1>2, PTL DEF Spec

\* The types hold, the queue's among them: its last place stays vacant whatever
\* moves up, so no loop of SV_DirectConnect writes behind the queue.
THEOREM TypeCorrect == Spec => []TypeOK
<1>1. IInv => TypeOK
  BY Constants DEF IInv, Sound, Queue, Waiting, TypeOK
<1> QED BY <1>1, Correct, PTL

\* The first slot SV_ReadPackets finds for a player in the game is the player's.
THEOREM PacketsReachOwnerCorrect == Spec => []PacketsReachOwner
<1>1. IInv => PacketsReachOwner
  <2> SUFFICES ASSUME IInv, NEW i \in Slots, InGame(clients[i]), Human(clients[i].owner)
               PROVE  First(Theirs(clients[i].owner)) = i
    BY DEF PacketsReachOwner
  <2>1. PICK p \in Players : p = clients[i].owner BY DEF Human
  <2>2. i \in Theirs(p) BY <2>1 DEF Theirs, SameAddress, InGame, Human
  <2>3. First(Theirs(p)) \in Slots /\ clients[First(Theirs(p))].owner = p
    BY <2>2, TheirsFirst
  <2> QED BY <2>1, <2>3 DEF IInv, Unshared, Human
<1> QED BY <1>1, Correct, PTL

\* Who plays has a script array, and exactly the players in the game have a reliable
\* channel, however their slot was taken and left.
THEOREM EquippedCorrect == Spec => []Equipped
<1>1. IInv => Equipped BY DEF IInv, Sound, Equipped
<1> QED BY <1>1, Correct, PTL

\* Nobody plays on a private slot without the password.
THEOREM ReservedKeptCorrect == Spec => []ReservedKept
<1>1. IInv => ReservedKept
  <2> SUFFICES ASSUME IInv, NEW i \in Slots, i < PrivateClients, InGame(clients[i])
               PROVE  clients[i].owner \in Privileged
    BY DEF ReservedKept
  <2>1. Sound(clients[i], i) BY DEF IInv
  <2> QED BY <2>1 DEF Sound
<1> QED BY <1>1, Correct, PTL

\* Nobody takes the slot of a player in the game.
THEOREM KeepsItsSlotCorrect == Spec => KeepsItsSlot
<1> DEFINE Kept == \A i \in Slots : InGame(clients[i]) /\ Human(clients[i].owner)
                                      => clients'[i].owner \in {clients[i].owner, NobodyYet}
<1>1. IInv /\ [Next]_vars => [Kept]_vars BY NextKeeps
<1>2. Spec => [][Kept]_vars BY <1>1, Correct, PTL DEF Spec
<1> QED BY <1>2 DEF KeepsItsSlot

\* Who gets a public slot was ahead of all that still wait, as long as the queue has one gap
\* at most (SV_DirectConnect, the pass over connectqueue).
THEOREM FairQueueCorrect == Spec => FairQueue
<1> DEFINE Fair ==
      LET q == Purged(connectqueue) IN
      \A p \in Players :
        Enters(p) /\ Cardinality(Gaps(q)) <= 1
          => \A j \in DOMAIN q : q[j] # Vacant /\ q[j].who # Cookie(p)
                                   => \E i \in DOMAIN q : i < j /\ q[i].who = Cookie(p)
<1>1. IInv /\ [Next]_vars => [Fair]_vars
  <2> SUFFICES ASSUME IInv, Next, NEW p \in Players, Enters(p),
                      Cardinality(Gaps(Purged(connectqueue))) <= 1,
                      NEW j \in DOMAIN Purged(connectqueue), Purged(connectqueue)[j] # Vacant,
                      Purged(connectqueue)[j].who # Cookie(p)
               PROVE  \E i \in DOMAIN Purged(connectqueue) :
                        i < j /\ Purged(connectqueue)[i].who = Cookie(p)
    OBVIOUS
  <2>1. PICK q : q = Purged(connectqueue) OBVIOUS
  <2>2. q \in Queue BY <2>1, PurgedQueue DEF IInv
  <2>3. DOMAIN q = 0 .. QueueSize BY <2>2 DEF Queue
  <2>4. PICK verdict \in Verdicts : DirectConnect(p, verdict) BY EntersAsking
  <2>5. MovedUp(q)[0].who = Cookie(p) \/ MovedUp(q)[0] = Vacant BY <2>1, <2>4, EntersFirst
  <2>6. Cardinality(Gaps(q)) <= 1 /\ j \in 0 .. QueueSize /\ q[j] # Vacant /\ q[j].who # Cookie(p)
    BY <2>1, <2>3
  <2>7. \E i \in 0 .. QueueSize : i < j /\ q[i].who = Cookie(p)
    BY <2>2, <2>5, <2>6, OneGapFirst
  <2> QED BY <2>1, <2>3, <2>7
<1>2. Spec => [][Fair]_vars BY <1>1, Correct, PTL DEF Spec
<1> QED BY <1>2 DEF FairQueue
=============================================================================
