------------------------------ MODULE ConfigData ------------------------------
(***************************************************************************)
(* Names and clan tags: how the clients learn about each other.            *)
(*                                                                         *)
(* The server numbers the changes of its clients' configuration            *)
(* (configDataSequence) and keeps in a ring whom each of the last changes  *)
(* was about.  What a client is told about a change is not what it was,    *)
(* but what the other's name is now.  A gamestate carries everything and   *)
(* the number of the last change; after it a client gets, in every message *)
(* to it, the changes it has not acknowledged.                             *)
(*                                                                         *)
(* One receiver is modelled; the others only connect, change and leave.    *)
(* Messages are lost and late, but in order (Netchan); the gamestates come *)
(* over the reliable channel (ReliableStream), in order with each other    *)
(* and with nothing else.  The client is not part of the repository: it    *)
(* takes the changes with a number above its own, and what it knows is     *)
(* what the last gamestate said, with these changes.                       *)
(*                                                                         *)
(* Names are abstracted to the number of the change that made them.  Not   *)
(* modelled: the wait for stats and authorization before a gamestate, and  *)
(* downloads but for the gamestate that follows them.                      *)
(***************************************************************************)
EXTENDS Integers, Sequences, FiniteSetsExt

CONSTANTS
  Others,       \* the other clients
  Self,         \* the receiver, as the others see it
  CacheSize,    \* MAX_CONFIGDATACACHE, 4096 in the code
  WireCap,      \* bound: messages in flight, each way
  MaxSequence,  \* bound: changes
  MaxLevel      \* bound: levels

ConfigAssumption ==
  /\ Self \notin Others
  /\ CacheSize \in Nat \ {0} /\ WireCap \in Nat \ {0}
  /\ MaxSequence \in Nat \ {0} /\ MaxLevel \in Nat \ {0}

VARIABLES
  sequence,   \* svs.configDataSequence
  changed,    \* svs.changedConfigData
  other,      \* for each other client: its state, its name (config), and the last
              \* change of the state "announced" (at)
  cl,         \* the client_t of the receiver:
              \*   state      "connected", "primed", "active" or "zombie"
              \*   gamestate  gamestateSent
              \*   number     how many gamestates it was sent; a message the client
              \*              got after the last, by this number, is one above
              \*              gamestateMessageNum
              \*   ack        configDataAcknowledge
  level,      \* the level, for sv.start_frameTime
  client,     \* the client: the last change it has (sequence), the names it knows
              \* (configs), its level, and how many gamestates had been sent when
              \* its last message was
  toClient,   \* messages in flight: the changes in it, and cl.number
  toServer,   \* messages in flight
  gamestates  \* on the reliable channel

serverVars == <<sequence, changed, other, cl, level>>
vars == <<serverVars, client, toClient, toServer, gamestates>>

-----------------------------------------------------------------------------
\* A message more on the wire; the oldest is lost when there are too many.
Put(wire, m) == IF Len(wire) < WireCap THEN Append(wire, m) ELSE Append(Tail(wire), m)

\* What the client x is called, for those that hear of it.
NameOf(x) == IF x = Self THEN 0 ELSE other[x].config

\* A change about x: SV_UpdateClientConfigInfo.
Change(x) ==
  /\ sequence' = sequence + 1
  /\ changed' = [changed EXCEPT ![sequence' % CacheSize] = x]

\* A slip of Overtaken: the ring is one longer than it is.
OvertakenLate == sequence - CacheSize > cl.ack + 1

\* The ring has gone past what the receiver acknowledged.
Overtaken == sequence - CacheSize >= cl.ack

\* A slip of Due: a gamestate under way is enough.
DueEarly == cl.state \in {"connected", "primed", "active"} /\ cl.gamestate > 0

\* SV_BeginClientSnapshot writes the changes: those of a client that has its gamestate.
Due == cl.state \in {"connected", "primed", "active"} /\ cl.gamestate = 2

\* A slip of Updates: off by one.
UpdatesAfterNext ==
  {[number |-> i, about |-> changed[i % CacheSize], config |-> NameOf(changed[i % CacheSize])] :
     i \in cl.ack + 2 .. sequence}

\* SV_UpdateConfigData: who the changes are about is in the ring, what they are
\* about is the name of today.
Updates ==
  {[number |-> i, about |-> changed[i % CacheSize], config |-> NameOf(changed[i % CacheSize])] :
     i \in cl.ack + 1 .. sequence}

\* SV_DropClient by the delayed drop.
Dropped == Due /\ (Overtaken \/ sequence < cl.ack)

\* The message to the receiver.
Message == [updates |-> IF Due /\ ~Dropped THEN Updates ELSE {}, number |-> cl.number]

\* If it does not fit, a client that plays gets it without the changes
\* (SV_EndClientSnapshot).
Messages == {Message} \cup {[Message EXCEPT !.updates = {}] : state \in {cl.state} \cap {"active"}}

-----------------------------------------------------------------------------
(* The other clients.                                                      *)

\* The bound on changes; the first gamestate to the receiver is one.
MayChange == sequence + (IF cl.number = 0 THEN 1 ELSE 0) < MaxSequence

\* SV_DirectConnect: a name nobody is told yet.
Connect(x) ==
  /\ other[x].state = "free"
  /\ other' = [other EXCEPT ![x] = [state |-> "connected", config |-> sequence + 1, at |-> 0]]
  /\ UNCHANGED <<sequence, changed, cl, level, client, toClient, toServer, gamestates>>

\* SV_SendClientGameState for another client, the first time: everyone is told.
Announce(x) ==
  /\ other[x].state = "connected" /\ MayChange /\ Change(x)
  /\ other' = [other EXCEPT ![x].state = "announced", ![x].at = sequence']
  /\ UNCHANGED <<cl, level, client, toClient, toServer, gamestates>>

\* SV_UpdatePlayername; SV_AddBotClient, which names a client that was not there.
Rename(x) ==
  /\ MayChange /\ Change(x)
  /\ other' = [other EXCEPT ![x] = [state |-> "announced", config |-> sequence', at |-> sequence']]
  /\ UNCHANGED <<cl, level, client, toClient, toServer, gamestates>>

\* SV_UpdatePlayername for the receiver.
RenameSelf ==
  /\ cl.state # "zombie" /\ MayChange /\ Change(Self)
  /\ UNCHANGED <<other, cl, level, client, toClient, toServer, gamestates>>

\* SV_DropClient, and the time-out of the zombie.
Leave(x) ==
  /\ other[x].state # "free"
  /\ other' = [other EXCEPT ![x].state = "free"]
  /\ UNCHANGED <<sequence, changed, cl, level, client, toClient, toServer, gamestates>>

-----------------------------------------------------------------------------
(* The receiver at the server.                                             *)

\* SV_BeginClientSnapshot to SV_SendMessageToClient, with the message m.
SendMessage(m) ==
  /\ cl.state # "zombie"
  /\ toClient' = Put(toClient, m)
  /\ cl' = IF Dropped THEN [cl EXCEPT !.state = "zombie"] ELSE cl
  /\ UNCHANGED <<sequence, changed, other, level, client, toServer, gamestates>>

SendClientSnapshot == \E m \in Messages : SendMessage(m)

\* SV_DropClient: a kick, a time-out.
DropClient ==
  /\ cl.state # "zombie"
  /\ cl' = [cl EXCEPT !.state = "zombie"]
  /\ UNCHANGED <<sequence, changed, other, level, client, toClient, toServer, gamestates>>

\* SV_SpawnServer: a client that plays is sent a last message, and all need a gamestate.
SpawnServer ==
  /\ level < MaxLevel /\ cl.state # "zombie"
  /\ level' = level + 1
  /\ IF cl.state \in {"primed", "active"}
       THEN \E m \in Messages : toClient' = Put(toClient, m)
       ELSE UNCHANGED toClient
  /\ cl' = IF cl.state \in {"primed", "active"} /\ Dropped
             THEN [cl EXCEPT !.state = "zombie"]
             ELSE [cl EXCEPT !.state = "connected", !.gamestate = 0]
  /\ UNCHANGED <<sequence, changed, other, client, toServer, gamestates>>

\* The names in a gamestate (SV_WriteGameState).
Known == [x \in Others |-> IF other[x].state # "free" THEN other[x].config ELSE 0]

\* SV_SendClientGameState for the client_t c.  The first gamestate of a client
\* announces it.  (The message with the waiting commands, which goes first, holds no
\* changes.)
SendClientGameState(c) ==
  /\ IF c.number = 0 THEN Change(Self) ELSE UNCHANGED <<sequence, changed>>
  /\ cl' = [c EXCEPT !.state = "primed", !.gamestate = 1, !.number = @ + 1, !.ack = sequence']
  /\ gamestates' = Append(gamestates, [sequence |-> sequence', configs |-> Known, level |-> level])

\* A slip of Acknowledged: off by one.
AcknowledgedNext(m) == [cl EXCEPT !.ack = Max({cl.ack, m.ack + 1})]

\* SV_PacketEvent takes an acknowledge that is newer than the gamestate.
Acknowledged(m) == [cl EXCEPT !.ack = Max({cl.ack, m.ack})]

\* SV_ExecuteClientMessage for the client_t c: a client of another level gets a
\* gamestate, if it has none under way and has heard from the server since the last;
\* one of this level has its gamestate, and enters the world when it moves.
ExecuteClientMessage(c, m) ==
  \/ /\ m.level # level /\ c.gamestate = 0 /\ m.number = c.number
     /\ SendClientGameState(c)
  \/ /\ m.level # level /\ ~(c.gamestate = 0 /\ m.number = c.number)
     /\ cl' = c /\ UNCHANGED <<sequence, changed, gamestates>>
  \/ /\ m.level = level
     /\ \E state \in {c.state} \cup (IF c.state = "primed" THEN {"active"} ELSE {}) :
          cl' = [c EXCEPT !.gamestate = 2, !.state = state]
     /\ UNCHANGED <<sequence, changed, gamestates>>

\* SV_PacketEvent: message i arrives, those before it never do.
PacketEvent(i) ==
  /\ toServer' = SubSeq(toServer, i + 1, Len(toServer))
  /\ LET c == Acknowledged(toServer[i]) IN
     IF c.state = "zombie"
       THEN cl' = c /\ UNCHANGED <<sequence, changed, gamestates>>
       ELSE ExecuteClientMessage(c, toServer[i])
  /\ UNCHANGED <<other, level, client, toClient>>

PacketsArrive == \E i \in 1 .. Len(toServer) : PacketEvent(i)

\* SV_DoneDownload_f, for a client that has its gamestate and does not play yet: it is
\* sent another one.
DoneDownload ==
  /\ cl.state \in {"connected", "primed"} /\ cl.gamestate = 2 /\ cl.number < 3
  /\ SendClientGameState(cl)
  /\ UNCHANGED <<other, level, client, toClient, toServer>>

-----------------------------------------------------------------------------
(* The client.                                                             *)

\* What the client knows with the changes us.
Updated(us) ==
  LET new == {u \in us : u.number > client.sequence}
  IN  [client EXCEPT
         !.sequence = Max({@} \cup {u.number : u \in new}),
         !.configs = [x \in Others |->
            IF \E u \in new : u.about = x THEN (CHOOSE u \in new : u.about = x).config ELSE @[x]]]

\* The client reads message i, those before it never arrive.
ClientReads(i) ==
  /\ client' = [Updated(toClient[i].updates) EXCEPT !.number = toClient[i].number]
  /\ toClient' = SubSeq(toClient, i + 1, Len(toClient))
  /\ UNCHANGED <<serverVars, toServer, gamestates>>

MessagesArrive == \E i \in 1 .. Len(toClient) : ClientReads(i)

UpdatesArrive == \E i \in 1 .. Len(toClient) : toClient[i].updates # {} /\ ClientReads(i)

ClientTakesGameState ==
  /\ gamestates # << >>
  /\ LET g == Head(gamestates) IN
     client' = [client EXCEPT !.sequence = g.sequence, !.configs = g.configs, !.level = g.level]
  /\ gamestates' = Tail(gamestates)
  /\ UNCHANGED <<serverVars, toClient, toServer>>

ClientSends ==
  /\ toServer' = Put(toServer, [ack |-> client.sequence, level |-> client.level,
                                number |-> client.number])
  /\ UNCHANGED <<serverVars, client, toClient, gamestates>>

-----------------------------------------------------------------------------
Init ==
  /\ sequence = 0
  /\ changed = [i \in 0 .. CacheSize - 1 |-> Self]
  /\ other = [x \in Others |-> [state |-> "free", config |-> 0, at |-> 0]]
  /\ cl = [state |-> "connected", gamestate |-> 0, number |-> 0, ack |-> 0]
  /\ level = 1
  /\ client = [sequence |-> 0, configs |-> [x \in Others |-> 0], level |-> 0, number |-> 0]
  /\ toClient = << >> /\ toServer = << >> /\ gamestates = << >>

Next ==
  \/ \E x \in Others : Connect(x) \/ Announce(x) \/ Rename(x) \/ Leave(x)
  \/ RenameSelf
  \/ SendClientSnapshot
  \/ DropClient
  \/ SpawnServer
  \/ PacketsArrive
  \/ MessagesArrive
  \/ ClientTakesGameState
  \/ ClientSends

Spec == Init /\ [][Next]_vars

\* The same with a download.
DownloadSpec == Init /\ [][Next \/ DoneDownload]_vars

-----------------------------------------------------------------------------
(* What must hold.                                                         *)

Update == [number : 1 .. MaxSequence, about : Others \cup {Self}, config : 0 .. MaxSequence + 1]

\* The types of the variables.
TypeOK ==
  /\ sequence \in 0 .. MaxSequence
  /\ changed \in [0 .. CacheSize - 1 -> Others \cup {Self}]
  /\ other \in [Others -> [state : {"free", "connected", "announced"},
                           config : 0 .. MaxSequence + 1, at : 0 .. sequence]]
  /\ cl \in [state : {"connected", "primed", "active", "zombie"}, gamestate : 0 .. 2,
             number : Nat, ack : 0 .. sequence]
  /\ level \in 1 .. MaxLevel
  /\ client \in [sequence : 0 .. sequence, configs : [Others -> 0 .. MaxSequence + 1],
                 level : 0 .. level, number : 0 .. cl.number]
  /\ toClient \in Seq([updates : SUBSET Update, number : 0 .. cl.number])
  /\ toServer \in Seq([ack : 0 .. sequence, level : 0 .. level, number : 0 .. cl.number])
  /\ gamestates \in Seq([sequence : 1 .. sequence, configs : [Others -> 0 .. MaxSequence + 1],
                         level : 1 .. level])

\* Nobody keeps an old name: a client that has the number of the last change of
\* another has its name.  The ring may have gone round, and gamestates and messages
\* overtake each other.
NamesCurrent ==
  \A x \in Others :
    other[x].state = "announced" /\ client.sequence >= other[x].at =>
      client.configs[x] = other[x].config

\* The server believes that the client has no more than it has or will get with a
\* gamestate that is under way.
AcknowledgeBacked ==
  cl.ack <= client.sequence \/ \E i \in 1 .. Len(gamestates) : gamestates[i].sequence >= cl.ack

\* gamestateSent is 2 when the client has received the gamestate that was sent last.
GameStateReceived == cl.gamestate = 2 => gamestates = << >>

\* The receiver has all changes, or has gone.
UpToDate == client.sequence = sequence \/ cl.state = "zombie"

\* The server tells a client that stays of every change: again and again it is up to
\* date, as long as it can be told before the ring has gone round.
EventuallyUpToDate == []<>UpToDate
=============================================================================
