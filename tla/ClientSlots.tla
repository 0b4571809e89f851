----------------------------- MODULE ClientSlots -----------------------------
(***************************************************************************)
(* The client slots of the server (svs.clients in server.h): who occupies  *)
(* which, how a player gets one (SV_DirectConnect with its queue), how     *)
(* packets find the slot of their sender (SV_ReadPackets), and how slots   *)
(* become free again (SV_DropClientInternal, SV_CheckTimeouts).            *)
(*                                                                         *)
(* A player is one run of the client program: an IP address and a qport,   *)
(* which the model takes for unique.  The UDP port its packets come from   *)
(* is chosen by a router and may change.  Time is counted in ticks, one    *)
(* per frame: what a slot holds is how long ago lastPacketTime was.        *)
(***************************************************************************)
EXTENDS Integers, FiniteSets

CONSTANTS
  Players,
  Address,         \* the IP address of each player
  Ports,           \* the UDP ports a router may assign
  FirstPort,       \* the port of each player at the beginning
  Privileged,      \* the players who know sv_privatePassword
  Old,             \* the players with a client that has to be updated
  MaxClients,      \* sv_maxclients
  PrivateClients,  \* sv_privateClients
  QueueSize,       \* the 10 of the connect queue
  ZombieTime, QueueTime, UpdateTime,   \* how many ticks a state may last
  SilentTime,      \* the same for "connected", "primed" and "active"
  TimeoutFrames,   \* the 5 frames of timeoutCount
  AgeCap,          \* how far ticks are counted: beyond every limit
  NobodyYet, Bot   \* who a slot may belong to beside the players

Human(w) == w \in Players

\* Ports are numbered from 1 and distinct for players that share an address.
ASSUME PlayersAssumption ==
  /\ NobodyYet \notin Players /\ Bot \notin Players /\ Bot # NobodyYet
  /\ Ports \subseteq Nat \ {0}
  /\ FirstPort \in [Players -> Ports]
  /\ \A p, r \in Players : Address[p] = Address[r] /\ FirstPort[p] = FirstPort[r] => p = r
  /\ Privileged \subseteq Players /\ Old \subseteq Players

ASSUME SizesAssumption ==
  /\ MaxClients \in Nat \ {0} /\ PrivateClients \in 0 .. MaxClients
  /\ QueueSize \in Nat \ {0}
  /\ ZombieTime \in Nat /\ QueueTime \in Nat /\ UpdateTime \in Nat /\ TimeoutFrames \in Nat
  /\ SilentTime \in [{"connected", "primed", "active"} -> Nat]
  /\ AgeCap \in Nat
  /\ \A t \in {ZombieTime, QueueTime, UpdateTime} : t < AgeCap
  /\ \A s \in {"connected", "primed", "active"} : SilentTime[s] < AgeCap

VARIABLES
  clients,       \* svs.clients
  connectqueue,  \* svs.connectqueue
  port           \* the UDP port each player's packets come from

vars == <<clients, connectqueue, port>>

Slots == 0 .. MaxClients - 1
First(S) == CHOOSE i \in S : \A j \in S : i <= j

Older(age) == IF age < AgeCap THEN age + 1 ELSE age

\* NET_CookieHash: the same for the same address and port.
Cookie(p) == <<Address[p], port[p]>>
NoCookie == <<>>

(* net is the port the reliable channel of the slot sends to, 0 if there is   *)
(* no channel; script says whether the slot has a script array.  What a slot  *)
(* held before it was freed stays until the next Com_Memset.                  *)
Blank == [state |-> "free", owner |-> NobodyYet, port |-> 0, challenge |-> NoCookie,
          needupdate |-> FALSE, updateconnOK |-> FALSE, net |-> 0, script |-> FALSE,
          idle |-> 0, timeoutCount |-> 0]

Vacant == [who |-> NoCookie, age |-> 0]

InGame(c) == c.state \in {"connected", "primed", "active"}

\* The time of a free slot is not looked at; it is left out of the state.
Freed(c) == [c EXCEPT !.state = "free", !.needupdate = FALSE, !.updateconnOK = FALSE,
                      !.idle = 0, !.timeoutCount = 0]

Init ==
  /\ clients = [i \in Slots |-> Blank]
  /\ connectqueue = [i \in 0 .. QueueSize |-> Vacant]
  /\ port = FirstPort

-----------------------------------------------------------------------------
(* Leaving.                                                                *)

\* A slip of Dropped: the buffers stay with the zombie.
DroppedWithBuffers(c) == IF InGame(c) THEN [c EXCEPT !.state = "zombie"] ELSE c

\* SV_DropClientInternal: the buffers go at once; the slot of a bot is free,
\* that of a player becomes so later.
Dropped(c) ==
  IF ~InGame(c) THEN c
  ELSE IF c.needupdate THEN [c EXCEPT !.state = "zombie"]
  ELSE IF c.owner = Bot
       THEN Freed([c EXCEPT !.owner = NobodyYet, !.net = 0, !.script = FALSE])
       ELSE [c EXCEPT !.state = "zombie", !.net = 0, !.script = FALSE]

\* A kick, a ban, the disconnect command, a decision of the game or a plugin.
DropClient(i) ==
  /\ InGame(clients[i])
  /\ clients' = [clients EXCEPT ![i] = Dropped(@)]
  /\ UNCHANGED <<connectqueue, port>>

\* A slip of TimedOut: the counter is compared before it is incremented.
TimedOutLate(c) == c.timeoutCount > TimeoutFrames

\* "Wait several frames so a debugger session doesn't cause a timeout."
TimedOut(c) == c.timeoutCount + 1 > TimeoutFrames

\* What SV_CheckTimeouts does with one slot.
Checked(c) ==
  IF c.state = "zombie" /\ c.idle > ZombieTime THEN Freed(c)
  ELSE IF InGame(c) /\ c.idle > SilentTime[c.state]
       THEN IF TimedOut(c)
              THEN Freed(Dropped(c))
              ELSE [c EXCEPT !.timeoutCount = @ + 1]
       ELSE [c EXCEPT !.timeoutCount = 0]

\* A slip of EndsRound: the update may take for ever.
EndsRoundAlways(c) == c.state = "zombie" /\ c.idle > ZombieTime /\ c.needupdate

\* A zombie that waits for its update ends the whole round.
EndsRound(c) == /\ c.state = "zombie" /\ c.idle > ZombieTime
                /\ c.needupdate /\ c.idle < UpdateTime

CheckTimeouts(cs) ==
  [i \in Slots |-> IF \E j \in 0 .. i : EndsRound(cs[j]) THEN cs[i] ELSE Checked(cs[i])]

\* SV_Frame: time passes, SV_CalcPings keeps active bots alive.
Frame ==
  LET later == [i \in Slots |->
                  IF clients[i].state = "free" THEN clients[i]
                  ELSE IF clients[i].state = "active" /\ clients[i].owner = Bot
                       THEN [clients[i] EXCEPT !.idle = 0]
                       ELSE [clients[i] EXCEPT !.idle = Older(@)]]
  IN  /\ clients' = CheckTimeouts(later)
      /\ connectqueue' = [i \in 0 .. QueueSize |->
                            IF connectqueue[i] = Vacant THEN Vacant
                            ELSE [connectqueue[i] EXCEPT !.age = Older(@)]]
      /\ UNCHANGED port

-----------------------------------------------------------------------------
(* Connecting.                                                             *)

SameAddress(p, c) == Human(c.owner) /\ Address[c.owner] = Address[p]

\* A slip of Matches: players behind one router are not told apart.
MatchesAddress(p, c) == SameAddress(p, c)

\* The quick reject of SV_DirectConnect: the slot is taken for p's own, ...
Matches(p, c) == SameAddress(p, c) /\ (c.owner = p \/ c.port = port[p])
\* ... or for the uncompleted connection of a fake player.
Uncompleted(p, c) ==
  IF Matches(p, c) THEN c.state = "connected"
  ELSE SameAddress(p, c) /\ c.state \in {"connected", "zombie"}

\* A slip of Hits: the slots of those who left are passed over.
HitsInGame(p) == {i \in Slots : InGame(clients[i]) /\ (Matches(p, clients[i]) \/ Uncompleted(p, clients[i]))}

\* The slot at which the loop ends.
Hits(p) == {i \in Slots : Matches(p, clients[i]) \/ Uncompleted(p, clients[i])}

\* Who has not asked for too long leaves the queue.
Purged(q) == [i \in 0 .. QueueSize |-> IF i < QueueSize /\ q[i].age > QueueTime THEN Vacant ELSE q[i]]

\* A slip of MovedUp: the gaps stay, and the next newcomer fills them.
MovedUpNever(q) == q

\* A gap at i is closed by one place, a repetition of place i removed.
Closed(r, i) ==
  IF r[i] = Vacant
    THEN [j \in 0 .. QueueSize |-> IF i <= j /\ j < QueueSize - 1 THEN r[j + 1] ELSE r[j]]
    ELSE IF r[i + 1].who = r[i].who THEN [r EXCEPT ![i + 1] = Vacant] ELSE r

\* One pass over the queue.
MovedUp(q) ==
  LET pass[n \in 0 .. QueueSize] == IF n = 0 THEN q ELSE Closed(pass[n - 1], n - 1)
  IN  pass[QueueSize]

\* The first empty place or p's own; QueueSize if there is none.
Place(q, p) ==
  First({i \in 0 .. QueueSize - 1 : q[i] = Vacant \/ q[i].who = Cookie(p)} \cup {QueueSize})

FreeSlots(cs, low, high) == {i \in low .. high - 1 : cs[i].state = "free"}

\* A slip of Public: the search begins with the private slots.
PublicFromZero(cs, q, p) == IF Place(q, p) = 0 THEN FreeSlots(cs, 0, MaxClients) ELSE {}

Reserved(cs, p) == IF p \in Privileged THEN FreeSlots(cs, 0, PrivateClients) ELSE {}
Public(cs, q, p) == IF Place(q, p) = 0 THEN FreeSlots(cs, PrivateClients, MaxClients) ELSE {}

(* A player may be rejected before it gets a slot (banned, version, join      *)
(* password), and after that by a plugin, by the game, for lack of memory,    *)
(* or, if its client is old, because the update server did not answer.        *)
Verdicts == {"accepted", "rejected", "plugin", "game", "memory", "backend"}

\* What becomes of slot c when p gets it.
Occupied(c, p, verdict) ==
  LET answered == /\ p \in Old /\ c.challenge = Cookie(p)
                  /\ c.state # "free" /\ c.updateconnOK
      fresh == [Blank EXCEPT !.challenge = Cookie(p)]
      known == [fresh EXCEPT !.owner = p, !.port = port[p]]
  IN  IF verdict = "plugin" THEN fresh
      ELSE IF p \in Old
           THEN IF verdict = "backend" /\ ~answered THEN Blank
                ELSE [known EXCEPT !.state = "zombie", !.needupdate = TRUE,
                                   !.updateconnOK = answered, !.script = TRUE]
      ELSE IF verdict = "game" THEN fresh
      ELSE IF verdict = "memory" THEN known
      ELSE [known EXCEPT !.state = "connected", !.net = port[p], !.script = TRUE]

\* SV_DirectConnect after the ban, version and password checks.  own is empty
\* or holds the slot p reconnects to.
TakeSlot(cs, own, p, verdict) ==
  LET q        == MovedUp(Purged(connectqueue))
      n        == Place(q, p)
      reserved == Reserved(cs, p)
      public   == Public(cs, q, p)
      queued   == own = {} /\ reserved = {}
      choice   == IF own # {} THEN own ELSE IF reserved # {} THEN reserved ELSE public
  IN  IF choice = {}
        THEN /\ clients' = cs
             /\ connectqueue' = IF n = QueueSize THEN q
                                ELSE [q EXCEPT ![n] = [who |-> Cookie(p), age |-> 0]]
        ELSE LET s == First(choice) IN
             /\ clients' = [cs EXCEPT ![s] = Occupied(@, p, verdict)]
             /\ connectqueue' = IF queued \/ verdict = "plugin" THEN [q EXCEPT ![n] = Vacant] ELSE q

\* SV_DirectConnect: the quick reject drops what it takes for p's old session
\* before anything else is checked.
DirectConnect(p, verdict) ==
  LET hit == IF Hits(p) = {} THEN {} ELSE {First(Hits(p))}
      cs  == [i \in Slots |-> IF i \in hit THEN Dropped(clients[i]) ELSE clients[i]]
  IN  /\ \A i \in hit : ~Uncompleted(p, clients[i])
      /\ IF verdict = "rejected" THEN clients' = cs /\ UNCHANGED connectqueue
                                 ELSE TakeSlot(cs, hit, p, verdict)
      /\ UNCHANGED port

\* SV_AddBotClient.
AddBotClient(denied) ==
  LET free == FreeSlots(clients, PrivateClients, MaxClients) IN
  /\ free # {}
  /\ clients' = [clients EXCEPT ![First(free)] =
                   IF denied THEN Blank
                   ELSE [Blank EXCEPT !.state = "active", !.owner = Bot, !.script = TRUE]]
  /\ UNCHANGED <<connectqueue, port>>

\* SV_LoadLevel: the bots leave; the game may refuse the others this time.
SpawnServer(denied) ==
  LET alone == [i \in Slots |-> IF clients[i].owner = Bot THEN Dropped(clients[i]) ELSE clients[i]]
  IN  /\ clients' = [i \in Slots |->
                       IF ~InGame(alone[i]) THEN alone[i]
                       ELSE IF i \in denied THEN Dropped(alone[i])
                       ELSE [alone[i] EXCEPT !.state = "connected"]]
      /\ UNCHANGED <<connectqueue, port>>

-----------------------------------------------------------------------------
(* Packets.                                                                *)

\* SV_ReadPackets: the slots a packet of p may be for; the first one gets it
\* and takes over the port the packet came from.
Theirs(p) == {i \in Slots : /\ clients[i].state # "free"
                            /\ SameAddress(p, clients[i]) /\ clients[i].owner = p}

AtPort(p, c) == [c EXCEPT !.port = port[p]]

\* What SV_ExecuteClientMessage may do: send the gamestate, enter the world,
\* drop the client, or none of these.
Executed(c) ==
  {c, Dropped(c), [c EXCEPT !.state = "primed"]}
    \cup (IF c.state = "primed" THEN {[c EXCEPT !.state = "active"]} ELSE {})

\* SV_PacketEvent; a packet that is not accepted is one of the reliable channel,
\* out of sequence or with an acknowledge out of range.
PacketEvent(p, accepted) ==
  /\ Theirs(p) # {}
  /\ LET i == First(Theirs(p))
         c == AtPort(p, clients[i])
     IN  \E d \in (IF c.needupdate /\ c.updateconnOK THEN {[c EXCEPT !.idle = 0]}
                   ELSE IF accepted /\ c.state # "zombie" THEN Executed([c EXCEPT !.idle = 0])
                   ELSE {c}) :
           clients' = [clients EXCEPT ![i] = d]
  /\ UNCHANGED <<connectqueue, port>>

\* SV_ReceiveStats, which does not look at the state, and SV_VoicePacket, which does.
SidePacket(p, stats) ==
  /\ Theirs(p) # {}
  /\ LET i == First(Theirs(p))
         c == AtPort(p, clients[i])
     IN  clients' = [clients EXCEPT ![i] = IF stats \/ InGame(c) THEN [c EXCEPT !.idle = 0] ELSE c]
  /\ UNCHANGED <<connectqueue, port>>

\* SV_UpdateProxyConnectResponse: the update server is ready for the client it
\* was told of with this challenge.
UpdateProxyConnectResponse(p, challenge) ==
  LET waiting == {i \in Slots : /\ clients[i].state = "zombie" /\ clients[i].owner = p
                                /\ clients[i].challenge = challenge}
  IN  /\ p \in Old /\ waiting # {}
      /\ clients' = [clients EXCEPT ![First(waiting)].updateconnOK = TRUE]
      /\ UNCHANGED <<connectqueue, port>>

\* The router assigns p another port, one that nobody behind it has.
Translate(p, n) ==
  /\ n # port[p]
  /\ \A r \in Players : Address[r] = Address[p] => port[r] # n
  /\ port' = [port EXCEPT ![p] = n]
  /\ UNCHANGED <<clients, connectqueue>>

-----------------------------------------------------------------------------
Next ==
  \/ Frame
  \/ \E i \in Slots : DropClient(i)
  \/ \E denied \in BOOLEAN : AddBotClient(denied)
  \/ \E denied \in SUBSET Slots : SpawnServer(denied)
  \/ \E p \in Players :
       \/ \E verdict \in Verdicts : DirectConnect(p, verdict)
       \/ \E accepted \in BOOLEAN : PacketEvent(p, accepted)
       \/ \E stats \in BOOLEAN : SidePacket(p, stats)
       \/ \E i \in Slots : UpdateProxyConnectResponse(p, clients[i].challenge)

Spec == Init /\ [][Next]_vars

\* With routers that change the ports.
MovingNext == Next \/ \E p \in Players, n \in Ports : Translate(p, n)
MovingSpec == Init /\ [][MovingNext]_vars

\* The main loop runs a frame again and again.
FairSpec == Spec /\ WF_vars(Frame)

-----------------------------------------------------------------------------
(* Properties.                                                             *)

PortOrNone == Ports \cup {0}
Cookies == {Address[p] : p \in Players} \X Ports \cup {NoCookie}

Client == [state : {"free", "zombie", "connected", "primed", "active"},
           owner : Players \cup {NobodyYet, Bot}, port : PortOrNone, challenge : Cookies,
           needupdate : BOOLEAN, updateconnOK : BOOLEAN, net : PortOrNone, script : BOOLEAN,
           idle : 0 .. AgeCap, timeoutCount : 0 .. TimeoutFrames]

\* The types; the place behind the queue, which the loops of SV_DirectConnect
\* look at, is never used.
TypeOK ==
  /\ clients \in [Slots -> Client]
  /\ connectqueue \in [0 .. QueueSize -> [who : Cookies, age : 0 .. AgeCap]]
  /\ connectqueue[QueueSize] = Vacant
  /\ port \in [Players -> Ports]

\* The packets of a player in the game reach its own slot, not an older one that
\* also bears its address and qport: SV_ReadPackets takes the first it finds.
PacketsReachOwner ==
  \A i \in Slots : InGame(clients[i]) /\ Human(clients[i].owner)
                     => First(Theirs(clients[i].owner)) = i

\* Who is in the game has a script array, which SV_FreeClientScriptId asserts,
\* and a player has a reliable channel; nobody else has one, whatever failed
\* while the slot was taken and however it was left.
Equipped ==
  \A i \in Slots : LET c == clients[i] IN
    /\ InGame(c) => c.script
    /\ c.net # 0 <=> InGame(c) /\ Human(c.owner)

\* The private slots (SV_DirectConnect, "find a client slot") are only used by
\* players who know the password.
ReservedKept ==
  \A i \in Slots : i < PrivateClients /\ InGame(clients[i]) => clients[i].owner \in Privileged

\* Nobody takes the slot of a player who is in the game.
KeepsItsSlot ==
  [][\A i \in Slots : InGame(clients[i]) /\ Human(clients[i].owner)
                        => clients'[i].owner \in {clients[i].owner, NobodyYet}]_vars

Gaps(q) == {i \in DOMAIN q : q[i] = Vacant /\ \E j \in DOMAIN q : i < j /\ q[j] # Vacant}

\* p gets a public slot that was free and is not its own from before.
Enters(p) ==
  \E i \in Slots : /\ i >= PrivateClients /\ Hits(p) = {} /\ clients[i].state = "free"
                   /\ clients'[i].state # "free" /\ clients'[i].owner = p

\* "Fair queuing" (connectqueue_t): who gets a public slot is ahead of all that
\* still wait.  The queue closes gaps by one place at a time, so this is
\* restricted to one gap.
FairQueue ==
  [][LET q == Purged(connectqueue) IN
     \A p \in Players :
       Enters(p) /\ Cardinality(Gaps(q)) <= 1
         => \A j \in DOMAIN q : q[j] # Vacant /\ q[j].who # Cookie(p)
                                  => \E i \in DOMAIN q : i < j /\ q[i].who = Cookie(p)]_vars

\* A player who falls silent loses the slot in the end (SV_CheckTimeouts),
\* although others that wait for an update cut the round short.
SilentFreed ==
  \A i \in Slots : []<>(\/ clients[i].state = "free" \/ clients[i].owner = Bot
                        \/ clients[i].idle = 0)

\* "Fix up stupid address translating routers" (SV_PacketEvent): what the server
\* sends to a player goes to the port its packets come from, on both channels.
OnePort ==
  \A i \in Slots : InGame(clients[i]) /\ Human(clients[i].owner) => clients[i].net = clients[i].port
=============================================================================
