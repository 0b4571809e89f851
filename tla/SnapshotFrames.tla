---------------------------- MODULE SnapshotFrames ----------------------------
(***************************************************************************)
(* Which snapshot a snapshot is coded against.                             *)
(*                                                                         *)
(* SV_SendClientMessages first builds the snapshots of all the clients it  *)
(* serves in this frame (SV_BuildClientSnapshot) and only then writes them *)
(* (SV_WriteSnapshotToClient).  A snapshot keeps its player state in       *)
(* client_t.frames, but its entities and client states in two rings that   *)
(* all clients share: what one client is shown overwrites what another was *)
(* shown earlier.  A client that says which snapshot it has (SV_UserMove)  *)
(* gets the differences to that one, if the server still has all of it,    *)
(* and a full snapshot otherwise.                                          *)
(*                                                                         *)
(* One client is modelled.  The others appear as what they put into the    *)
(* rings: before the client is built (since its last snapshot) and after,  *)
(* in the same frame.  The network is that of ReliableCommands.  The       *)
(* client is not part of the repository: it keeps as many snapshots as the *)
(* server, asks for differences when the last message it got held a        *)
(* snapshot it could decode, and forgets its snapshots when it takes a     *)
(* gamestate.                                                              *)
(*                                                                         *)
(* The contents of a snapshot are abstracted to a stamp, the number of the *)
(* message it was built for.  Not modelled: fragments (the number of a     *)
(* message does not change under way), zombies (they get full snapshots    *)
(* without entities) and the archive of snapshots for the killcam.         *)
(***************************************************************************)
EXTENDS Integers, Sequences

CONSTANTS
  PacketBackup,  \* PACKET_BACKUP, 32 in the code
  Margin,        \* the 3 of PACKET_BACKUP - 3
  RingSize,      \* numSnapshotEntities and numSnapshotClients
  Shown,         \* what the client may be shown: how many entries of each ring
  Others,        \* what the others may put into the rings
  Recorded,      \* the demo of the client is recorded
  MaxMessages,   \* bound: messages to the client
  MaxLevel       \* bound: levels

Rings == {"entities", "clients"}

FrameAssumption == PacketBackup \in Nat /\ Margin \in 1 .. PacketBackup

RingsAssumption ==
  /\ RingSize \in [Rings -> Nat \ {0}]
  /\ Shown \subseteq [Rings -> Nat] /\ Others \subseteq [Rings -> Nat]

\* What the server enters in one frame fits into the rings: 0x2A000 >= 64 * 1024,
\* and 32 * n * n >= n * n.
SizeAssumption ==
  \A s \in Shown, o \in Others, r \in Rings : s[r] + o[r] <= RingSize[r]

BoundAssumption == MaxMessages \in Nat \ {0} /\ MaxLevel \in Nat \ {0}

VARIABLES
  cl,         \* the client_t:
              \*   state      "connected", "primed" or "active"
              \*   outgoing   netchan.outgoingSequence
              \*   frames     what it was shown: player state, and for both rings
              \*              the first entry (first_entity) and how many
              \*   delta      deltaMessage, the snapshot it has; -1: none
              \*   gamestate  gamestateSent
  next,       \* nextSnapshotEntities, nextSnapshotClients
  ring,       \* snapshotEntities, snapshotClients
  level,      \* the level, for sv.start_frameTime
  loading,    \* SV_SpawnServer is waiting and loading
  client,     \* the client: the last message it got (last), the last snapshot it
              \* decoded (current), its snapshots (snaps) and its level
  toClient,   \* the server message in flight, if any
  toServer,   \* the client message in flight, if any
  gamestates  \* gamestates on the reliable channel

serverVars == <<cl, next, ring, level, loading>>
vars == <<serverVars, client, toClient, toServer, gamestates>>

-----------------------------------------------------------------------------
(* Snapshots.                                                              *)

\* Stamps: what the server cleared or never filled, and what another client is shown.
Nothing == 0
Another == -1

\* A frame after Com_Memset in SV_Netchan_Transmit.
ClearFrame(position) == [ps |-> Nothing, first |-> position, num |-> [r \in Rings |-> 0]]

\* What the frame f refers to in the rings.
Contents(rings, f) ==
  [ps |-> f.ps, num |-> f.num,
   seen |-> [r \in Rings |->
     {rings[r][(f.first[r] + k) % RingSize[r]] : k \in 0 .. f.num[r] - 1}]]

\* A slip of StillThere: one entry more may be gone.
StillThereOneMore(f, position) ==
  \A r \in Rings : f.first[r] + 1 >= position[r] - RingSize[r]

\* The entries of the frame f are not overwritten yet.
StillThere(f, position) == \A r \in Rings : f.first[r] >= position[r] - RingSize[r]

\* The frame is about to be used again, at the server or at the client.
TooOld(s) == s.outgoing - s.delta >= PacketBackup - Margin

\* The message to code against, 0 for none (oldframe in SV_WriteSnapshotToClient).
DeltaBase(s, position) ==
  IF s.delta > 0 /\ s.state = "active" /\ ~TooOld(s)
       /\ StillThere(s.frames[s.delta % PacketBackup], position)
    THEN s.delta ELSE 0

\* SV_BeginClientSnapshot to SV_EndClientSnapshot for the client_t s.  A "full"
\* snapshot is for the demo; a "plain" message is what is left of one that was too
\* long.  To a client that does not play every message is plain.
Message(s, kind, position, rings) ==
  LET snapshot == s.state = "active" /\ kind # "plain"
      base == IF snapshot /\ kind # "full" THEN DeltaBase(s, position) ELSE 0
      shown == IF snapshot THEN s.frames[s.outgoing % PacketBackup] ELSE ClearFrame(position)
      old == IF base = 0 THEN ClearFrame(position) ELSE s.frames[base % PacketBackup]
  IN  [number |-> s.outgoing, snapshot |-> snapshot, base |-> base,
       to |-> Contents(rings, shown), from |-> Contents(rings, old)]

\* A slip of Transmitted: the next frame is not cleared.
TransmittedUncleared(s, position) == [s EXCEPT !.outgoing = @ + 1]

\* The client_t s after its message: SV_SendMessageToClient, SV_Netchan_Transmit.
Transmitted(s, position) ==
  [s EXCEPT !.outgoing = @ + 1,
            !.frames[(s.outgoing + 1) % PacketBackup] = ClearFrame(position)]

-----------------------------------------------------------------------------
(* Building the snapshots of a frame.                                      *)

\* n entries with this stamp, from the position on.
Entered(rings, position, n, stamp) ==
  [r \in Rings |-> [i \in 0 .. RingSize[r] - 1 |->
     IF \E k \in 0 .. n[r] - 1 : (position[r] + k) % RingSize[r] = i THEN stamp ELSE rings[r][i]]]

Advanced(position, n) == [r \in Rings |-> position[r] + n[r]]

\* SV_BuildClientSnapshot for the client_t s.
WithFrame(s, position, n) ==
  [s EXCEPT !.frames[s.outgoing % PacketBackup] =
     [ps |-> s.outgoing, first |-> position, num |-> n]]

-----------------------------------------------------------------------------
(* The server.                                                             *)

\* The numbers of messages are bounded.
MayTransmit == cl.outgoing < MaxMessages

\* SV_SendClientMessages, when it is the turn of the client and it plays: others
\* are built, the client is built, others are built, and then it is written.
SendSnapshot ==
  /\ ~loading /\ cl.state = "active" /\ MayTransmit
  /\ \E before \in Others, n \in Shown, behind \in Others,
        kind \in {"differences", "plain"} \cup (IF Recorded THEN {"full"} ELSE {}) :
       LET own == Advanced(next, before)
           own2 == Advanced(own, n)
           built == WithFrame(cl, own, n)
       IN  /\ next' = Advanced(own2, behind)
           /\ ring' = Entered(Entered(Entered(ring, next, before, Another), own, n, cl.outgoing),
                              own2, behind, Another)
           /\ toClient' = <<Message(built, kind, next', ring')>>
           /\ cl' = Transmitted(built, next')
  /\ UNCHANGED <<level, loading, client, toServer, gamestates>>

\* SV_SendClientMessages, when the client does not play yet.
SendPlain ==
  /\ ~loading /\ cl.state # "active" /\ MayTransmit
  /\ toClient' = <<Message(cl, "plain", next, ring)>>
  /\ cl' = Transmitted(cl, next)
  /\ UNCHANGED <<next, ring, level, loading, client, toServer, gamestates>>

\* SV_SendClientGameState, for a client that has no gamestate of this level: the
\* commands that wait in a message, and then the gamestate.
SendClientGameState ==
  /\ ~loading /\ cl.state = "connected" /\ ~cl.gamestate /\ MayTransmit
  /\ toClient' = <<Message(cl, "plain", next, ring)>>
  /\ cl' = [Transmitted(cl, next) EXCEPT !.state = "primed", !.gamestate = TRUE]
  /\ gamestates' = Append(gamestates, level)
  /\ UNCHANGED <<next, ring, level, loading, client, toServer>>

\* SV_SpawnServer, its first part: a client that plays is told to load the level, in
\* a message with the snapshot of a frame that was not built (SV_SendClientSnapshot).
\* Then the server waits a quarter of a second and loads.
SpawnServer ==
  /\ ~loading /\ level < MaxLevel
  /\ loading' = TRUE
  /\ IF cl.state = "connected" THEN UNCHANGED <<cl, toClient>> ELSE
       /\ MayTransmit
       /\ toClient' = <<Message(cl, "differences", next, ring)>>
       /\ cl' = Transmitted(cl, next)
  /\ UNCHANGED <<next, ring, level, client, toServer, gamestates>>

\* Its second part: SV_InitSnapshot, SV_GenerateServerId, and who is connected needs
\* a gamestate.  What was in flight has arrived by now, or is lost.
LevelLoaded ==
  /\ loading
  /\ loading' = FALSE /\ level' = level + 1
  /\ next' = [r \in Rings |-> 0]
  /\ cl' = [cl EXCEPT !.state = "connected", !.gamestate = FALSE]
  /\ toClient' = << >>
  /\ UNCHANGED <<ring, client, toServer, gamestates>>

\* SV_ClientEnterWorld.
Entering(s) == [s EXCEPT !.state = "active", !.delta = -1]

\* SV_PacketEvent to SV_UserMove: a move says which message the client has, and with
\* clc_move that it can decode differences to it.
PacketEvent ==
  /\ ~loading /\ toServer # << >>
  /\ LET m == Head(toServer)
         moved == [cl EXCEPT !.delta = IF m.delta THEN m.acknowledge ELSE -1]
     IN  cl' = CASE m.level # level -> cl
                 [] m.level = level /\ cl.state = "primed" -> Entering(moved)
                 [] m.level = level /\ cl.state = "active" -> moved
                 [] OTHER -> [moved EXCEPT !.delta = -1]
  /\ toServer' = << >>
  /\ UNCHANGED <<next, ring, level, loading, client, toClient, gamestates>>

-----------------------------------------------------------------------------
(* The client.                                                             *)

\* No snapshot at all.
Empty == [n \in 0 .. PacketBackup - 1 |-> << >>]

\* The client still has the snapshot the message m is coded against, as it was.
Has(m) == m.base = 0 \/ client.snaps[m.base % PacketBackup] = <<m.base, m.from>>

ClientReads ==
  /\ toClient # << >>
  /\ LET m == Head(toClient) IN
     client' = IF m.snapshot /\ Has(m)
       THEN [client EXCEPT !.last = m.number, !.current = m.number,
                           !.snaps[m.number % PacketBackup] = <<m.number, m.to>>]
       ELSE [client EXCEPT !.last = m.number]
  /\ toClient' = << >>
  /\ UNCHANGED <<serverVars, toServer, gamestates>>

ClientTakesGameState ==
  /\ gamestates # << >>
  /\ client' = [client EXCEPT !.level = Head(gamestates), !.current = 0, !.snaps = Empty]
  /\ gamestates' = Tail(gamestates)
  /\ UNCHANGED <<serverVars, toClient, toServer>>

\* clc_move if the last message held the current snapshot, else clc_moveNoDelta.
ClientSends ==
  /\ toServer' = <<[acknowledge |-> client.last, delta |-> client.last = client.current,
                    level |-> client.level]>>
  /\ UNCHANGED <<serverVars, client, toClient, gamestates>>

-----------------------------------------------------------------------------
Init ==
  /\ next = [r \in Rings |-> 0]
  /\ ring = [r \in Rings |-> [i \in 0 .. RingSize[r] - 1 |-> Nothing]]
  /\ cl = [state |-> "connected", outgoing |-> 1, delta |-> 0, gamestate |-> FALSE,
           frames |-> [n \in 0 .. PacketBackup - 1 |-> ClearFrame(next)]]
  /\ level = 1 /\ loading = FALSE
  /\ client = [last |-> 0, current |-> 0, snaps |-> Empty, level |-> 0]
  /\ toClient = << >> /\ toServer = << >> /\ gamestates = << >>

Next ==
  \/ SendSnapshot
  \/ SendPlain
  \/ SendClientGameState
  \/ SpawnServer
  \/ LevelLoaded
  \/ PacketEvent
  \/ ClientReads
  \/ ClientTakesGameState
  \/ ClientSends

Spec == Init /\ [][Next]_vars

-----------------------------------------------------------------------------
(* What must hold.                                                         *)

Stamp == Another .. MaxMessages

Frame == [ps : Stamp, first : [Rings -> Nat], num : [Rings -> Nat]]

Content == [ps : Stamp, num : [Rings -> Nat], seen : [Rings -> SUBSET Stamp]]

\* The types of the variables, and that the client is never ahead of the server.
TypeOK ==
  /\ cl \in [state : {"connected", "primed", "active"}, outgoing : 1 .. MaxMessages,
             delta : -1 .. MaxMessages, gamestate : BOOLEAN,
             frames : [0 .. PacketBackup - 1 -> Frame]]
  /\ next \in [Rings -> Nat]
  /\ \A r \in Rings : ring[r] \in [0 .. RingSize[r] - 1 -> Stamp]
  /\ level \in 1 .. MaxLevel /\ loading \in BOOLEAN
  /\ client.last \in 0 .. cl.outgoing - 1 /\ client.current \in 0 .. client.last
  /\ client.level \in 0 .. level
  /\ \A n \in DOMAIN client.snaps :
       client.snaps[n] # << >> => client.snaps[n] \in (1 .. client.last) \X Content
  /\ toClient \in Seq([number : 1 .. cl.outgoing - 1, snapshot : BOOLEAN,
                       base : 0 .. MaxMessages, to : Content, from : Content])
  /\ toServer \in Seq([acknowledge : 0 .. client.last, delta : BOOLEAN, level : 0 .. level])
  /\ gamestates \in Seq(1 .. level)

\* A client is shown what was built for it: neither the clients that are built after
\* it in the same frame, nor what the frame held before, is in the snapshot.
ShownIsBuilt ==
  \A i \in 1 .. Len(toClient) : LET m == toClient[i] IN
    m.snapshot =>
      /\ m.to.ps \in {Nothing, m.number}
      /\ \A r \in Rings : m.to.seen[r] \subseteq {m.to.ps} /\ (m.to.ps = Nothing => m.to.num[r] = 0)

\* A snapshot that is coded against an earlier one reaches a client that still has
\* the earlier one, and as the server coded it against it.
BaseAgrees == \A i \in 1 .. Len(toClient) : Has(toClient[i])
=============================================================================
