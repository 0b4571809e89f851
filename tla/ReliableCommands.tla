--------------------------- MODULE ReliableCommands ---------------------------
(***************************************************************************)
(* The reliable server commands of one client: the ring of client_t that   *)
(* SV_AddServerCommand fills, the messages that carry every command the    *)
(* client has not acknowledged, the acknowledges SV_PacketEvent takes, the *)
(* gamestate of a new level, and the end in SV_DropClientInternal.         *)
(*                                                                         *)
(* Messages travel over the channel of module Netchan: they may be lost,   *)
(* but come in order and at most once (Netchan!ImplementsMessageStream).   *)
(* The gamestate travels over the channel of module ReliableTransport: it  *)
(* is not lost, but nothing orders it with the messages.                   *)
(*                                                                         *)
(* The client is not part of the repository.  It executes the commands in  *)
(* the order of their numbers, keeps them in a ring of the same size, and  *)
(* takes the number of the last one over from the gamestate, as the        *)
(* comment in SV_SendClientGameState says.                                 *)
(***************************************************************************)
EXTENDS Integers, Sequences, FiniteSets, SequencesExt

CONSTANTS
  MaxCommands,    \* MAX_RELIABLE_COMMANDS, 128 in the code
  Issues,         \* what is issued: <<command, type>>; type 0 may be dropped
  Replaced,       \* <<new, old>>: the command new makes old superfluous
  MaxIssued,      \* bound: commands issued
  MaxLevel,       \* bound: levels
  WireCap         \* bound: messages in flight in one direction

ASSUME RingAssumption == MaxCommands \in Nat \ {0, 1}
ASSUME IssueAssumption == \A c \in Issues : c[2] \in {0, 1}
ASSUME BoundAssumption == MaxIssued \in Nat /\ MaxLevel \in Nat /\ WireCap \in Nat \ {0}

VARIABLES
  cl,          \* the client_t:
               \*   state        "connected", "primed", "active" or "zombie"
               \*   sequence     reliableSequence, the last command in the ring
               \*   acknowledge  reliableAcknowledge, the last one the client has
               \*   sent         reliableSent, the last one sent
               \*   commands     reliableCommands, the ring
               \*   delayDrop    delayDropMsg is set
               \*   gamestate    gamestateSent: 0, 1 (sent) or 2 (and received)
               \*   pledged      history: type 1 commands added and not replaced
  level,       \* the level, for sv.start_frameTime
  issued,      \* history: how many commands were issued
  forgiven,    \* history: an acknowledge was out of range
  client,      \* the client: sequence, commands (its ring) and level
  executed,    \* history: the commands it executed, with their numbers
  snapshot,    \* history: pledged as of the last snapshot it executed
  overtaken,   \* history: it took a gamestate before the commands sent with it
  toClient,    \* server messages in flight, in order
  toServer,    \* client messages in flight, in order
  gamestates   \* gamestates on the reliable channel, in order

clientVars == <<client, executed, snapshot, overtaken>>
vars == <<cl, level, issued, forgiven, clientVars, toClient, toServer, gamestates>>

\* A ring entry: the command, its cmdType and which issue it is.
Blank == [cmd |-> "none", type |-> 0, id |-> 0]

Slot(c, n) == c.commands[n % MaxCommands]

\* "w": the client is to disconnect.
Disconnect == [cmd |-> "disconnect", type |-> 1, id |-> 0]

\* The messages of channel with m at the end; the oldest is lost if there are
\* too many.
Sent(channel, m) == IF Len(channel) < WireCap THEN Append(channel, m) ELSE Append(Tail(channel), m)

-----------------------------------------------------------------------------
(* SV_AddServerCommand, as a function of the client_t.                     *)

\* The ring with the commands list under the numbers after n.
Written(c, n, list) ==
  [s \in 0 .. MaxCommands - 1 |->
     LET Here == {k \in 1 .. Len(list) : (n + k) % MaxCommands = s}
     IN  IF Here = {} THEN c.commands[s]
                      ELSE list[CHOOSE k \in Here : \A j \in Here : j <= k]]

Tight(c) == c.sequence - c.acknowledge >= MaxCommands \div 2 \/ c.state # "active"

\* The commands that have not been sent yet.
Unsent(c) == [k \in 1 .. c.sequence - c.sent |-> Slot(c, c.sent + k)]

\* A slip of Kept: all go.
KeptNone(c) == IF Tight(c) THEN << >> ELSE Unsent(c)

\* Those of a list that must not be dropped, as sub_5310E0 moves them up one by one.
Firm(list) ==
  LET moved[n \in 0 .. Len(list)] ==
        IF n = 0 THEN << >>
        ELSE IF list[n].type = 0 THEN moved[n - 1] ELSE Append(moved[n - 1], list[n])
  IN  moved[Len(list)]

\* What stays in the ring of the commands not sent yet: when it gets tight, those.
Kept(c) == IF Tight(c) THEN Firm(Unsent(c)) ELSE Unsent(c)

\* sub_530FC0: the commands that need not be sent if cmd is, ...
Duplicates(c, cmd) ==
  {k \in 1 .. Len(Kept(c)) : Kept(c)[k].type # 0 /\ <<cmd, Kept(c)[k].cmd>> \in Replaced}

\* ... the first of them, ...
Superseded(c, cmd) == {k \in Duplicates(c, cmd) : \A j \in Duplicates(c, cmd) : k <= j}

\* ... and the commands without it.
Others(c, cmd) ==
  IF Superseded(c, cmd) = {} THEN Kept(c)
  ELSE RemoveAt(Kept(c), CHOOSE k \in Superseded(c, cmd) : TRUE)

\* The droppable commands are gone; the new one is droppable itself.
Refused(c) ==
  [c EXCEPT !.sequence = c.sent + Len(Kept(c)), !.commands = Written(c, c.sent, Kept(c))]

\* The command is entered at the end, in place of its duplicate if there is one.
\* One command more than the ring holds is replaced by the order to disconnect.
Entered(c, entry) ==
  LET others == Others(c, entry.cmd)
      sequence == c.sent + Len(others) + 1
      overflow == sequence - c.acknowledge = MaxCommands + 1
  IN  [c EXCEPT
         !.sequence = sequence,
         !.commands = Written(c, c.sent, Append(others, IF overflow THEN Disconnect ELSE entry)),
         !.delayDrop = @ \/ overflow,
         !.pledged = (@ \ {Kept(c)[k].id : k \in Superseded(c, entry.cmd)})
                       \cup {i \in {entry.id} : entry.type = 1}]

Added(c, entry) == IF Tight(c) /\ entry.type = 0 THEN Refused(c) ELSE Entered(c, entry)

-----------------------------------------------------------------------------
(* Messages and the end of a client, as functions of the client_t.         *)

\* The command ring after SV_DropClientInternal: nothing pending but the order to
\* disconnect.
Dropped(c) ==
  IF c.state = "zombie" THEN c ELSE
  [c EXCEPT
     !.state = "zombie",
     !.sent = c.acknowledge,
     !.sequence = c.acknowledge + 1,
     !.commands[(c.acknowledge + 1) % MaxCommands] = Disconnect]

\* Slips of MessageUpto: it holds only what was not sent before; the snapshot does
\* not wait for the commands.
MessageOfUnsent(c, upto) ==
  [first |-> c.sent + 1,
   commands |-> [k \in 1 .. upto - c.sent |-> Slot(c, c.sent + k)],
   snapshot |-> upto >= c.sequence /\ c.state \in {"active", "zombie"},
   pledged |-> c.pledged]

MessageUptoWithSnapshot(c, upto) ==
  [first |-> c.acknowledge + 1,
   commands |-> [k \in 1 .. upto - c.acknowledge |-> Slot(c, c.acknowledge + k)],
   snapshot |-> c.state \in {"active", "zombie"},
   pledged |-> c.pledged]

\* A message with the commands up to number upto, and a snapshot if it holds all.
MessageUpto(c, upto) ==
  [first |-> c.acknowledge + 1,
   commands |-> [k \in 1 .. upto - c.acknowledge |-> Slot(c, c.acknowledge + k)],
   snapshot |-> upto >= c.sequence /\ c.state \in {"active", "zombie"},
   pledged |-> c.pledged]

\* SV_UpdateServerCommandsToClient and SV_SendMessageToClient.
Transmitted(c) ==
  LET marked == [c EXCEPT !.sent = c.sequence]
  IN  IF c.delayDrop THEN Dropped(marked) ELSE marked

\* The messages a snapshot of c may go out in.  Commands that do not fit stay for
\* the next message, and the snapshot with them
\* (SV_UpdateServerCommandsToClientRecover).
Snapshots(c) ==
  {MessageUpto(c, c.sequence)} \cup
  {MessageUpto(c, upto) : upto \in {n \in c.acknowledge + 1 .. c.sequence - 1 :
                                      c.state \in {"active", "zombie"}}}

-----------------------------------------------------------------------------
(* The server.                                                             *)

\* Not modelled: commands issued between an overflow and the next message, which
\* drops the client; and those for a client that is dropped already.
AddServerCommand(issue) ==
  /\ issued < MaxIssued
  /\ ~cl.delayDrop /\ cl.state # "zombie"
  /\ issued' = issued + 1
  /\ cl' = Added(cl, [cmd |-> issue[1], type |-> issue[2], id |-> issued + 1])
  /\ UNCHANGED <<level, forgiven, clientVars, toClient, toServer, gamestates>>

\* SV_BeginClientSnapshot to SV_SendMessageToClient.
SendClientSnapshot ==
  /\ \E m \in Snapshots(cl) : toClient' = Sent(toClient, m)
  /\ cl' = Transmitted(cl)
  /\ UNCHANGED <<level, issued, forgiven, clientVars, toServer, gamestates>>

\* SV_DropClientInternal on its own: a kick, a timeout.
DropClient ==
  /\ cl.state # "zombie"
  /\ cl' = Dropped(cl)
  /\ UNCHANGED <<level, issued, forgiven, clientVars, toClient, toServer, gamestates>>

\* SV_SpawnServer, its part for the client: a client that plays is told to load
\* the level, at once; it has to get a gamestate then.
SpawnServer ==
  LET told == Added(cl, [cmd |-> "load", type |-> 1, id |-> issued + 1])
      plays == cl.state \in {"primed", "active"}
      after == IF plays THEN Transmitted(told) ELSE cl
  IN  /\ level < MaxLevel /\ issued < MaxIssued
      /\ ~cl.delayDrop
      /\ level' = level + 1
      /\ IF plays
           THEN /\ issued' = issued + 1
                /\ \E m \in Snapshots(told) : toClient' = Sent(toClient, m)
           ELSE UNCHANGED <<issued, toClient>>
      /\ cl' = IF after.state = "zombie"
                 THEN after
                 ELSE [after EXCEPT !.state = "connected", !.gamestate = 0]
      /\ UNCHANGED <<forgiven, clientVars, toServer, gamestates>>

\* A slip of SendClientGameState: the waiting commands are not sent first.
SendClientGameStateAlone(c) ==
  /\ cl' = [c EXCEPT !.state = "primed", !.gamestate = 1]
  /\ gamestates' = Append(gamestates, [sequence |-> c.sequence, level |-> level])
  /\ UNCHANGED toClient

\* SV_SendClientGameState for the client c: the waiting commands first, and then
\* the gamestate with their last number.
SendClientGameState(c) ==
  LET primed == [c EXCEPT !.state = "primed"]
  IN  /\ toClient' = Sent(toClient, MessageUpto(primed, c.sequence))
      /\ cl' = [Transmitted(primed) EXCEPT !.gamestate = 1]
      /\ gamestates' = IF c.delayDrop
                         THEN gamestates
                         ELSE Append(gamestates, [sequence |-> c.sequence, level |-> level])

\* Slips of InRange: one too many, none refused.
InRangeOneMore(a) == cl.sequence - a \in 0 .. MaxCommands

InRangeAlways(a) == TRUE

\* The acknowledges SV_PacketEvent goes on with.
InRange(a) == cl.sequence - a \in 0 .. MaxCommands - 1

\* SV_ExecuteClientMessage for the client c, as far as it concerns the level: the
\* message is of another level, and perhaps it is time for the gamestate; or the
\* client has the gamestate, and perhaps moves, which makes it enter the world.
ExecuteClientMessage(c, m) ==
  \/ /\ m.level # level
     /\ \/ cl' = c /\ UNCHANGED <<toClient, gamestates>>
        \/ c.gamestate = 0 /\ SendClientGameState(c)
  \/ /\ m.level = level
     /\ \/ cl' = [c EXCEPT !.gamestate = 2]
        \/ c.state = "primed" /\ cl' = [c EXCEPT !.gamestate = 2, !.state = "active"]
     /\ UNCHANGED <<toClient, gamestates>>

\* SV_PacketEvent: message i arrives, those before it never do.
PacketEvent(i) ==
  LET m == toServer[i]
      c == [cl EXCEPT !.acknowledge = IF InRange(m.acknowledge) THEN m.acknowledge ELSE cl.sequence]
  IN  /\ toServer' = SubSeq(toServer, i + 1, Len(toServer))
      /\ forgiven' = (forgiven \/ ~InRange(m.acknowledge))
      /\ IF InRange(m.acknowledge) /\ cl.state # "zombie"
           THEN ExecuteClientMessage(c, m)
           ELSE cl' = c /\ UNCHANGED <<toClient, gamestates>>
      /\ UNCHANGED <<level, issued, clientVars>>

-----------------------------------------------------------------------------
(* The client.                                                             *)

\* The client reads message i: the commands that are new to it, then the
\* snapshot.
ClientReads(i) ==
  LET m == toClient[i]
      new == {n \in client.sequence + 1 .. m.first + Len(m.commands) - 1 : n >= m.first}
  IN  /\ toClient' = SubSeq(toClient, i + 1, Len(toClient))
      /\ executed' = executed \cup {<<n, m.commands[n - m.first + 1]>> : n \in new}
      /\ client' = IF new = {} THEN client ELSE
           [client EXCEPT
              !.sequence = m.first + Len(m.commands) - 1,
              !.commands = [s \in 0 .. MaxCommands - 1 |->
                 LET Here == {n \in new : n % MaxCommands = s}
                 IN  IF Here = {} THEN @[s]
                     ELSE m.commands[(CHOOSE n \in Here : \A k \in Here : k <= n) - m.first + 1]]]
      /\ snapshot' = IF m.snapshot THEN m.pledged ELSE snapshot
      /\ UNCHANGED <<cl, level, issued, forgiven, overtaken, toServer, gamestates>>

\* The client takes the next gamestate.
ClientTakesGameState ==
  /\ gamestates # << >>
  /\ LET g == Head(gamestates) IN
     /\ client' = [client EXCEPT !.sequence = g.sequence, !.level = g.level]
     /\ overtaken' = (overtaken \/ \E n \in 1 .. g.sequence : \A x \in executed : x[1] # n)
  /\ gamestates' = Tail(gamestates)
  /\ UNCHANGED <<cl, level, issued, forgiven, executed, snapshot, toClient, toServer>>

\* The client sends its input; the last command it has encodes it.
ClientSends ==
  /\ toServer' = Sent(toServer, [acknowledge |-> client.sequence, key |-> Slot(client, client.sequence),
                                 level |-> client.level])
  /\ UNCHANGED <<cl, level, issued, forgiven, clientVars, toClient, gamestates>>

-----------------------------------------------------------------------------
Init ==
  /\ cl = [state |-> "connected", sequence |-> 0, acknowledge |-> 0, sent |-> 0,
           commands |-> [s \in 0 .. MaxCommands - 1 |-> Blank],
           delayDrop |-> FALSE, gamestate |-> 0, pledged |-> {}]
  /\ level = 1
  /\ issued = 0
  /\ forgiven = FALSE
  /\ client = [sequence |-> 0, commands |-> [s \in 0 .. MaxCommands - 1 |-> Blank], level |-> 0]
  /\ executed = {} /\ snapshot = {} /\ overtaken = FALSE
  /\ toClient = << >> /\ toServer = << >> /\ gamestates = << >>

MessagesArrive == \E i \in 1 .. Len(toClient) : ClientReads(i)

PacketsArrive == \E i \in 1 .. Len(toServer) : PacketEvent(i)

Next ==
  \/ \E issue \in Issues : AddServerCommand(issue)
  \/ SendClientSnapshot
  \/ DropClient
  \/ SpawnServer
  \/ ClientSends
  \/ ClientTakesGameState
  \/ MessagesArrive
  \/ PacketsArrive

Spec == Init /\ [][Next]_vars

\* The server runs its frames, the client sends its input, a message that is
\* sent again and again arrives, and the reliable channel delivers.
Fairness ==
  /\ WF_vars(SendClientSnapshot)
  /\ WF_vars(ClientSends)
  /\ WF_vars(ClientTakesGameState)
  /\ SF_vars(MessagesArrive)
  /\ SF_vars(PacketsArrive)

FairSpec == Spec /\ Fairness

-----------------------------------------------------------------------------
(* What must hold.                                                         *)

Entry == [cmd : {c[1] : c \in Issues} \cup {"none", "load", "disconnect"}, type : {0, 1}, id : Nat]

Ring == [0 .. MaxCommands - 1 -> Entry]

\* The types of the variables.  The client is dropped before the ring is used
\* beyond the entry that says so.  (After an acknowledge that was out of range the
\* commands that were not sent may outnumber the ring: dropping some of them then
\* takes the last number below the acknowledge.)
TypeOK ==
  /\ cl \in [state : {"connected", "primed", "active", "zombie"}, sequence : Nat, acknowledge : Nat,
             sent : Nat, commands : Ring, delayDrop : BOOLEAN, gamestate : 0 .. 2, pledged : SUBSET Nat]
  /\ forgiven \/ cl.sequence - cl.acknowledge \in 0 .. MaxCommands + 1
  /\ level \in Nat /\ issued \in Nat /\ forgiven \in BOOLEAN
  /\ client \in [sequence : Nat, commands : Ring, level : Nat]
  /\ executed \subseteq Nat \X Entry /\ snapshot \subseteq Nat /\ overtaken \in BOOLEAN
  /\ toClient \in Seq([first : Nat, commands : Seq(Entry), snapshot : BOOLEAN, pledged : SUBSET Nat])
  /\ toServer \in Seq([acknowledge : Nat, key : Entry, level : Nat])
  /\ gamestates \in Seq([sequence : Nat, level : Nat])

\* The client is told to disconnect.
Over == cl.delayDrop \/ cl.state = "zombie"

Ids == {x[2].id : x \in executed}

Pending == {Slot(cl, n).id : n \in cl.acknowledge + 1 .. cl.sequence}

\* As long as the client is not told to disconnect and has not been forgiven an
\* acknowledge, both sides mean the same by a number: what was executed or is in
\* flight under a number that is not acknowledged is what the ring says, and
\* nothing else is ever executed under it.
Agreement ==
  ~Over /\ ~forgiven =>
    /\ client.sequence <= cl.sent /\ cl.sent <= cl.sequence
    /\ \A x \in executed : x[1] > cl.acknowledge => x[2] = Slot(cl, x[1])
    /\ \A x, y \in executed : x[1] = y[1] => x = y
    /\ \A i \in 1 .. Len(toClient) : \A k \in 1 .. Len(toClient[i].commands) :
         LET n == toClient[i].first + k - 1 IN
         n > cl.acknowledge => toClient[i].commands[k] = Slot(cl, n)

\* The server decodes a message of the client with the command it was encoded
\* with: while a message is in range, the slot of its acknowledge is not reused
\* on either side.  (A client that took a gamestate before the commands does not
\* have that command; one that was forgiven an acknowledge may find it dropped.)
KeyAgrees ==
  cl.state # "zombie" /\ ~overtaken /\ ~forgiven =>
    \A i \in 1 .. Len(toServer) :
      InRange(toServer[i].acknowledge) => Slot(cl, toServer[i].acknowledge) = toServer[i].key

\* No command that must not be lost is: it was executed or is still to be sent.
PledgesKept == ~Over /\ ~forgiven /\ ~overtaken => cl.pledged \subseteq Ids \cup Pending

\* Every command of type 1 issued before a snapshot was executed before it, unless
\* the client is told to disconnect.
CommandsBeforeSnapshot == ~Over /\ ~overtaken => snapshot \subseteq Ids

\* The same, with the exception of a client whose acknowledge was out of range.
CommandsBeforeSnapshotInRange == ~Over /\ ~overtaken /\ ~forgiven => snapshot \subseteq Ids

\* The commands that were waiting when the gamestate was sent reach the client
\* before it.
CommandsBeforeGameState == ~Over /\ ~forgiven => ~overtaken

\* When nothing remains to be sent to a dropped client, it has executed the order
\* to disconnect.
FinalCommandKept ==
  cl.state = "zombie" /\ cl.acknowledge >= cl.sequence => \E x \in executed : x[2] = Disconnect

\* A command that was entered in the ring is acknowledged, unless the client is
\* told to disconnect.
EventuallyAcknowledged ==
  \A id \in 1 .. MaxIssued : []<>(id \notin cl.pledged \/ id \notin Pending \/ Over)
=============================================================================
