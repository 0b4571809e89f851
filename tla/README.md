# Verification of the CoD4X server's communication core

CoD4X is a game server: one process, a main loop that reads packets, runs the
game in frames and sends every client its messages, and a few worker threads.
What it promises its clients rests on protocols stacked over UDP, on the slots its
clients occupy and on what it remembers about each of them, and this directory
models them in TLA+:

- the **sequenced channel** (netchan): messages may be lost but come in order,
  whole and at most once;
- the **reliable server commands**: a ring of text commands per client, repeated
  in every message until the client acknowledges them;
- the **reliable message transport**: a sliding window that carries the gamestate,
  configuration updates and other large data;
- the **client slots**: who gets a slot, whose packets find it, when it is free again;
- what runs on top of these: **messages** over the reliable transport, **commands** of the
  clients, **snapshots** and what they are coded against, **configuration data** (names),
  **downloads**;
- the **rate limit** of connectionless queries.

The models are checked with TLC on small instances. Every safety property and every
property of steps that a passing run checks is also proved with TLAPS, for every value
of the constants, and so is that transport and channel implement their abstract
specifications. Liveness is checked with TLC alone. Section 5 says from which inductive
invariants the proofs go.

All paths below are relative to `src/src/`.

## 1. Inventory

### 1.1 Components, state, operations

| component | state | operations | model |
|---|---|---|---|
| reliable message transport (`net_reliabletransport.c`) | `netreliablemsg_t`: transmit window over a ring that grows and shrinks, receive window over a fixed ring, `selackoffset`, `nextacktime`, rate | `ReliableMessageSend`, `ReliableMessagesTransmitNextFragment`, `ReliableMessagesReceiveNextFragment`, `ReliableMessageReceive`, `ReliableMessageChangeSendBufferSize`, `ReliableMessagesFrame` | `ReliableTransport` |
| sequenced netchan (`netchan.c`, `sv_net_chan.c`) | `netchan_t`: outgoing and incoming sequence, unsent and received fragments | `Netchan_Transmit`, `Netchan_TransmitNextFragment`, `Netchan_Process`, and the server functions that call them | `Netchan` |
| reliable server commands (`sv_main.c`, `sv_snapshot.c`, `sv_client.c`) | `client_t.reliableCommands`, `reliableSequence`, `reliableAcknowledge`, `reliableSent`, `delayDropMsg`, `state`, `gamestateSent` | `SV_AddServerCommand`, `SV_UpdateServerCommandsToClient`, `SV_SendMessageToClient`, `SV_SendClientGameState`, `SV_PacketEvent`, `SV_ExecuteClientMessage`, `SV_SpawnServer`, `SV_DropClientInternal` | `ReliableCommands` |
| client slots (`sv_client.c`, `sv_main.c`) | `svs.clients[]`: state FREE, ZOMBIE, CONNECTED, PRIMED, ACTIVE; owner address and qport; `lastPacketTime`; challenges and the connect queue; the buffers of the slot | `SV_DirectConnect`, `SV_AddBotClient`, `SV_DropClientInternal`, `SV_CheckTimeouts`, `SV_ReadPackets`, `SV_PacketEvent`, `SV_LoadLevel` | `ClientSlots` |
| messages over the transport (`sv_client.c`) | `reliablemsg.recvbuffer`, the rest of a fragment (`fragmentbuffer`) | `SV_SendReliableServerCommand`, `SV_ReceiveReliableMessages`, `ReliableMessageSend`, `ReliableMessageReceive` | `ReliableFraming` |
| client commands (`sv_client.c`) | `lastClientCommand`, `floodprotect`, `nextReliableTime` | `SV_ClientCommand`, `SV_ExecuteClientMessage` | `ClientCommands` |
| downloads (`sv_client.c`) | `download`, `downloadName`, size, part and count, `wwwDownloadStarted`, `wwwDlAck`, `wwwDl_failed` | `SV_WriteDownloadToClient`, `SV_ExecuteDownloadCmd` and what it calls | `Downloads` |
| snapshots and delta encoding (`sv_snapshot.c`, `msg.c`) | per client `frames[]`, `deltaMessage`; the rings `snapshotEntities`, `snapshotClients` | `SV_BuildClientSnapshot`, `SV_WriteSnapshotToClient`, `SV_SendClientMessages`, `SV_UserMove`, `MSG_*Delta*` | `SnapshotFrames` (not the coding of fields) |
| configuration data (`sv_snapshot.c`, `sv_main.c`) | `configDataSequence`, ring `changedConfigData`, `configDataAcknowledge`, `gamestateSent` | `SV_UpdateClientConfigInfo`, `SV_UpdateConfigData`, `SV_WriteGameState`, `SV_PacketEvent` | `ConfigData` |
| query rate limiting (`sv_main.c`) | leaky buckets in hash chains | `SVC_RateLimitAddress`, `SVC_BucketForAddress`, `SVC_RateLimit` | `RateLimit` |
| thread callbacks (`sys_thread.c`) | `thread_callbacks[]`: `lock`, `isActive` | `Sys_SetupThreadCallback`, `Sys_RunThreadCallbacks` | not modelled, see section 7 |
| plugins (`plugin_handler.c` ...) | plugin slots, event subscriptions, TCP connections | `PHandler_Event`, load, unload | not modelled, see section 7 |
| command buffer, cvars (`cmd.c`, `cvar.c`) | text ring, latched variables | `Cbuf_*` | not modelled, see section 7 |
| memory tree, string list (`cscr_memorytree.cpp`, `cscr_stringlist.cpp`) | buddy allocator, reference-counted strings | `MT_Alloc`, `MT_Free`, `SL_*` | not modelled, see section 7 |
| script VM, asset loading, collision, game rules, bots, crypto, HTTP/RCON, file storage | — | — | not modelled, see section 7 |

`PROJECT.json` lists every component with its files and status.

### 1.2 How they interact

```
 game code ── SV_SendServerCommand ──> command ring ─┐
                                                     │ SV_SendClientSnapshot: all commands
 game state ── SV_BuildClientSnapshot ───────────────┤ the client has not acknowledged
                                                     v
                                    SV_Netchan_Transmit (encoded with the
                                    sequence number and a command) ──> netchan ──> UDP
 SV_SendClientGameState ──┬─ waiting commands ──────────────^
                          └─ gamestate with reliableSequence ─> reliable transport ──> UDP
 UDP ──> SV_PacketEvent ──> Netchan_Process ──> reliableAcknowledge ──> SV_ExecuteClientMessage
```

Within the main loop everything is sequential; the actors are the server, each
client and the network. A slot is shared by packet handling, the frame, the
console and the game code (all in one thread), so the hard behaviours are of the
*protocol* kind: what is still in flight when the state changes.

### 1.3 What is hard

- **Loss, repetition, reordering** on UDP, at every layer.
- **Ring buffers indexed by sequence numbers**: a slot belongs to one number of
  each round; any use of an old number finds something else there. The command
  ring is also the key store for decoding client messages (`sv_net_chan.c:49`).
- **Renumbering**: `sub_5310E0` and `sub_530FC0` (`sv_main.c:244-314`) remove
  commands that were not sent yet and close the gap.
- **Growing and shrinking of a ring** while packets that refer to it are in flight.
- **Two channels without a common order**: commands and gamestate.
- **Several callers of one channel** that do not know of each other's fragments.
- **Dropping a client** while it still has something to be told.
- **Allocation failure** in the middle of a handler.
- **What the client has**: a snapshot is coded against one the client named a while ago,
  in rings that other clients have written since; a name is announced by number and told
  as it is today; both are true only if the checks of the rings are exact.
- **Cuts in a stream**: fragments, windows and frames cut messages anywhere, and each
  read may end in the middle of a fragment.

`PROJECT.json` lists each hazard at its line, with the properties that cover it.

### 1.4 What makes each component correct

- Transport: what is delivered is a prefix of what was submitted; the sender
  forgets a fragment only after delivery; the ring always holds the outstanding
  fragments; the two ends never wait for each other; everything enqueued is
  delivered and the sender learns of it.
- Netchan: every message received was sent, whole, under the number it was
  encoded with; order; at most once; on a perfect network, all of them.
- Commands: both sides mean the same command by a number; a command that must
  not be lost is executed or still to be sent; snapshots and gamestates come
  after the commands issued before them; client messages are decoded with the
  right command; every command is acknowledged in the end.
- Client slots: the packets of a player in the game reach its slot; nobody takes the
  slot of another; private slots stay private; buffers are owned exactly by the
  slots of connected clients; the queue is fair; every silent client is dropped.
- Messages over the transport: executed as they were sent, once, in order, however they
  are cut; what one that was cut short spoils is only what comes after it.
- Client commands: each executed once and in order; ignored ones count as executed;
  no more than the limit pass in quick succession.
- Downloads: the open file is the one the client was told of, and none stays open; a part
  of a file that begins in it is sent complete and in order, any other in order.
- Snapshots: a client is shown what was built for it, and what it is sent as differences
  is against a snapshot it has, as it has it.
- Configuration data: who has the number of a change has the name; who stays hears of all.
- Rate limit: the hash chains stay sound; an address is answered no more often than the
  limit allows, and a patient one is answered.

## 2. Modules

| module | what it is |
|---|---|
| `ReliableEnds` | the two ends and the fragments they submit |
| `ReliableStream` | abstract specification of the transport: an ordered stream per direction |
| `ReliableTransport` | the transport as the code does it; refines `ReliableStream` |
| `ReliableTransportProofs` | theorems about `ReliableTransport`: the stream arrives, it refines `ReliableStream`, and the two ends are never both silent |
| `MCReliableTransport` | its instances for TLC |
| `MessageStream` | abstract specification of the netchan: messages lost, but whole, in order, once |
| `Netchan` | the netchan and the server functions that transmit on it; refines `MessageStream` |
| `NetchanProofs` | theorems about `Netchan` |
| `ReliableCommands` | the reliable commands of one client, over a channel that behaves as `MessageStream` and a gamestate channel that behaves as `ReliableStream` |
| `MCReliableCommands` | its instances for TLC |
| `ReliableCommandsProofs` | theorems about `ReliableCommands` |
| `ClientSlots` | the slots, the connect queue and the passage of time |
| `MCClientSlots` | its instances for TLC |
| `ClientSlotsProofs` | theorems about `ClientSlots` |
| `ReliableFraming` | messages with their length in front, over a channel that behaves as `ReliableStream` |
| `ReliableFramingProofs` | theorems about `ReliableFraming` |
| `ClientCommands` | the commands of one client, over a channel that behaves as `MessageStream` |
| `Downloads` | the download of one client |
| `NumberFacts` | lemmas about natural numbers that all proofs about rings need |
| `SnapshotFrames` | the snapshots of one client, in rings it shares with others |
| `ConfigData` | what one client learns of the others' names |
| `ConfigDataProofs` | theorems about `ConfigData` |
| `RateLimit` | the leaky buckets |
| `ServerParts` | `ReliableFraming`, `ClientCommands`, `Downloads`, `SnapshotFrames`, `ConfigData` and `RateLimit` together, one at work at a time |
| `ServerPartsProofs` | theorems about `ServerParts`, that is, about these six |
| `MCServerParts` | its instance for TLC |

The composition is by promises: `Netchan` and `ReliableTransport` are shown to
implement `MessageStream` and `ReliableStream`, and `ReliableCommands` uses
channels that do just what those two allow. `ConfigData`, `ClientCommands` and
`SnapshotFrames` do the same: their messages are lost or late but never out of order, which
is `MessageStream`, and their gamestates come in order with each other and with nothing else.

Operators marked *a slip of X* are not used by any specification. They are the
plausible mistakes in X that `PROJECT.json` lists as mutants; every property of a
passing run is violated when one of them takes X's place.

### 2.1 ReliableTransport

Both ends run the same code. The variables are the fields of `netreliablemsg_t`
by name (`txSequence` is `txwindow.sequence`), the packets in flight and, as
history, what was delivered. A fragment is opaque; `ack` in a slot is the number
of the fragment known to have arrived, `-1` for none, as in the code.

| action | code |
|---|---|
| `Send` | `ReliableMessageSend`, with the growth of the ring (`RoomFor`, `Resized`), malloc that may fail, and what does not fit left out |
| `TransmitFragment`, `SkipFragment`, `TransmitAcknowledge` | `ReliableMessagesTransmitNextFragment`: the round over the window, fragments known to have arrived skipped, an acknowledge of its own when nothing is outstanding |
| `Receive` | `ReliableMessagesReceiveNextFragment`: all checks first, then selective acknowledges, cumulative acknowledge, shrinking, storing |
| `Deliver` | `SV_ReceiveReliableMessages` calling `ReliableMessageReceive` |

Abstractions: `nextacktime`, the rate and the 250 ms limit of the frame are the
choice whether a frame sends; the run-length list of selective acknowledges is the
set of fragments it describes (`SelectiveAcklist`), limited to windows of at most
5, for which the code's list holds it whole (`WindowAssumption`); byte lengths are
fragment counts plus the choice `spare`, because the buffer check asks for one
slot more when the last fragment is full. The network keeps up to `WireCap`
packets, delivers any of them any number of times, and loses one to make room.

### 2.2 Netchan

A byte is the pair (number of its message, position), so that joining parts of two
messages is visible. `faulty` chooses between a network that loses, repeats and
reorders, and a perfect one. `SendClientMessages` and `SendClientGameState` are the
callers that finish a message before they start the next (`Next`);
`SendClientSnapshot` (as `SV_SpawnServer` and `SV_FinalMessage` call it) and
`DropClient` do not (`CollidingNext`). The receiver's buffer holds at least a fragment
(`SizeAssumption`): 0x800 bytes against 1300 in `netchan.h:42-45`.

### 2.3 ReliableCommands

`cl` is the `client_t`; the functions `Added`, `Dropped`, `Transmitted` and
`MessageUpto` are the C functions on it, and the actions are the entry points.

| action | code |
|---|---|
| `AddServerCommand` | `SV_AddServerCommand`: when it gets tight, unsent commands of type 0 go (`Kept`); a command made superfluous by the new one is replaced (`Duplicates`); one command more than the ring holds becomes the order to disconnect and sets `delayDropMsg` |
| `SendClientSnapshot` | `SV_BeginClientSnapshot` to `SV_SendMessageToClient`, with the recovery from an overflowing message (`Snapshots`) and the delayed drop |
| `PacketsArrive` | `SV_PacketEvent` and `SV_ExecuteClientMessage`: the range of the acknowledge, the test of the level, the gamestate, entering the world |
| `SpawnServer` | `SV_SpawnServer`, for one client: the command `l`, a message at once, back to `connected` |
| `DropClient` | `SV_DropClientInternal` |
| `MessagesArrive`, `ClientTakesGameState`, `ClientSends` | the client, external: it executes commands in the order of their numbers, keeps a ring of the same size to encode with, and takes over the number in the gamestate, as the comment at `sv_client.c:1787` says |

`forgiven` records that an acknowledge was out of range: `SV_PacketEvent` then takes
everything for acknowledged (`sv_main.c:2012`). `overtaken` records that a gamestate
came before the commands sent with it. Properties that do not hold in these two
cases say so; that the cases occur is shown by two of the violation runs.

Not modelled here: commands issued between an overflow and the next message; the
text of a command, so which commands replace which is the constant `Replaced`;
sending the gamestate again to an active client of a pure server
(`sv_client.c:1088`); a message that overflows before the client is active, which
drops it (`DropClient` covers the drop); reconnecting into the same slot; sequence
numbers near 2^31.

### 2.4 ClientSlots

`clients` and `connectqueue` are the arrays of `svs`. A player stands for its IP address and
qport: `owner` is the player whose address and qport a slot holds, also after it was
freed, because `SV_DirectConnect` looks at these fields of free slots too. `net` is the port
the reliable channel of the slot sends to, 0 if there is none; `script` says whether
the slot has a script array; `idle` is the number of frames since `lastPacketTime`.

| action | code |
|---|---|
| `DirectConnect` | `SV_DirectConnect`: quick reject (`Matches`, `Uncompleted`, `Hits`), which drops the old session of the player before anything else is checked; then bans, version and password (`"rejected"`); private slots; one pass over the queue (`Purged`, `MovedUp`, `Place`); public slots; and what becomes of the slot (`Occupied`) when all goes well or the plugin, the game, the allocation or the update server refuses |
| `AddBotClient` | `SV_AddBotClient` |
| `DropClient` | `SV_DropClientInternal` from a kick, the game or a plugin |
| `PacketEvent` | `SV_PacketEvent`: `SV_ReadPackets` finds the slot (`Theirs`) and takes over the port (`AtPort`), then what `SV_ExecuteClientMessage` may do to the state |
| `SidePacket` | `SV_ReceiveStats` and `SV_VoicePacket`, the other users of `SV_ReadPackets` |
| `UpdateProxyConnectResponse` | the same function: the update server is ready for an old client, which waits as a zombie |
| `SpawnServer` | `SV_LoadLevel`: `SV_RemoveAllBots`, then `ClientConnect` for everyone in the game, which may refuse |
| `Frame` | `SV_Frame`: time passes, `SV_CalcPings` (bots), `SV_CheckTimeouts` with its `return` at a zombie that waits for its update |
| `Translate` | external: a router changes the port of a player; only in `MovingSpec` |

Abstractions: a player never changes its qport and no two players behind one router
choose the same; requests come with a valid challenge, which the server computes
from the address and so need not remember; the 20 s of a queue entry and the
limits of `SV_CheckTimeouts` are counted in frames; `updateBeginTime` is the choice of the
verdict `"backend"`. The time of a free slot is not looked at and is normalised (`Freed`).
The entry behind the queue, which the loops read (`connectqueue[11]` for 10 places), is
modelled, and `TypeOK` says it is never used.

Not modelled: shutdown and fast restart, which drop everyone; what a plugin or Steam
decides about a joined player later (covered by `DropClient`); `attempts`, which only
chooses the message; the receive buffer that `SV_ReceiveReliableMessages` allocates for
zombies (a hazard in `PROJECT.json`).

### 2.5 ReliableFraming

A byte is the pair (number of its message, place in it), so that every mistake in cutting
and joining shows. `stream` is the fragments on their way, in order and without loss, which
is what the transport is proved to give. The state of a call of
`SV_ReceiveReliableMessages` is a record that goes through the rounds of its loop.

| action | code |
|---|---|
| `Sends` | `SV_SendReliableServerCommand`: the length in front, `ReliableMessageSend` cutting it into fragments, and accepting any number of them (`accepted`), as it does when the ring cannot grow; the sender does not look |
| `ReceivesSome` | `SV_ReceiveReliableMessages` as `SV_SendClientMessages` calls it, with what is in the window: `ReliableMessageReceive` with the rest of a fragment, `MSG_ReadLong` (`MessageSize`, which is `Misread` when it does not read a length), the buffer that grows and shrinks and may fail to (`Relocated`), and a message that drops the client under the loop (`Dropped`) |

What there is to read (`Available`) and the rounds of the loop (`ReceiveReliableMessages`) are
recursive functions, with as many rounds as there are bytes to read and two more. Not
modelled: what messages say; `ReliableMessageReceiveSingleFragment`, which nothing calls.

### 2.6 ClientCommands

`cl` has the fields `lastClientCommand`, `floodprotect` and `nextReliableTime`. The client, external,
repeats all commands that are not acknowledged in every message.

| action | code |
|---|---|
| `PacketEvent` | `SV_ExecuteClientMessage`: all commands of a message through `SV_ClientCommand` (`ClientCommand`: executed already, gap, flood limit), then the move that puts the client into the game |
| `SendMessage` | `SV_BeginClientSnapshot`, which writes `lastClientCommand` |
| `Frame` | `svs.time` goes on |

A command is "limited" or not, which stands for the test of its text and of the state of
the client (`sv_client.c:2630`). `Executed` is the loop over the commands of a message, a
recursive function. A command of a downloading client (`inDl`) is not modelled.

### 2.7 Downloads

`cl` has the download fields of `client_t`; a handle is the file it is open on and the position in
it, and `open` counts the files that are open, so that a forgotten handle shows. A file is
a number of units, a block a positive number of them (`DownloadAssumption`). What a client asks for
is any two values of an int (`Ints`), whose sums go round as the build's do (`AsInt`). A seek to a
place before the file fails and leaves the position as it was (`Seek`).

| action | code |
|---|---|
| `CannotOpen`, `Redirect`, `Announce`, `WriteBlock` | the four ways through `SV_WriteDownloadToClient`, by its conditions |
| `BeginDownload` | `SV_BeginDownloadX_f`, for a file of this level or of another |
| `SelectDownloadBlocks` | `SV_SelectDownloadBlocksX_f`, for any two ints (`FromWhere`, `Seek`) |
| `StopDownload` | `SV_StopDownload_f`, `SV_DoneDownload_f` |
| `WWWDownloadEnds`, `WWWDownloadDrops` | `SV_WWWDownload_Done_f`, `_Fail_f`, `_ChkFail_f`, `_BBL8R_f` |

The code cuts the part where the file ends and does not look where it begins, nor at what
`FS_Seek` returns. For a part that begins before the file it therefore sends blocks with negative
offsets that hold what follows the old position. `PartSent` says of these only that they
follow each other and that an empty one is the last; that a block holds the contents of its
place it says of the parts that begin at 0 or later.

Not modelled: the rate and the test of the send buffer (they only put `WriteBlock` off), and
the gamestate after a refused or failed download. The gamestate of `SV_DoneDownload_f` is in `ConfigData`.

### 2.8 SnapshotFrames

`cl` has `frames`, `deltaMessage` and `netchan.outgoingSequence`; `ring` and `next` are the two rings of
`svs` that all clients share. What is in a snapshot is a stamp, the number of the message
it was built for, or that it is another client's.

| action | code |
|---|---|
| `SendSnapshot` | `SV_SendClientMessages` for a client that plays: others built before it, `SV_BuildClientSnapshot` (`WithFrame`, `Entered`), others built after it, then `SV_WriteSnapshotToClient` (`DeltaBase`), the recovery from an overflow (`"plain"`), the full snapshot for a demo (`"full"`), and `SV_Netchan_Transmit`, which clears the next frame (`Transmitted`) |
| `SendPlain` | the same for a client that does not play |
| `SendClientGameState` | `SV_SendClientGameState`, with the message that goes first |
| `SpawnServer`, `LevelLoaded` | `SV_SpawnServer`: the message with the frame nobody built, and after the load `SV_InitSnapshot` |
| `PacketEvent` | `SV_UserMove` and `SV_ClientEnterWorld` |

The client, external, keeps as many snapshots as the server and says that it can take
differences when the last message it got held a snapshot it could decode. Whether it still
has the old one is then the question `BaseAgrees` asks. Between the two parts of `SV_SpawnServer`
the server sleeps and loads; what was under way to the client by then has arrived or is lost.

### 2.9 ConfigData

A name is the number of the change that made it. `other` has, for each of the other clients, its
name and its last change that was announced; `cl` is the receiver.

| action | code |
|---|---|
| `Connect`, `Announce`, `Rename`, `Leave` | what the others do: `SV_DirectConnect`, the first `SV_SendClientGameState`, `SV_UpdatePlayername` and `SV_AddBotClient`, `SV_DropClient` |
| `RenameSelf` | `SV_UpdatePlayername` of the receiver, which takes a number of the ring too |
| `SendClientSnapshot` | `SV_BeginClientSnapshot`: `SV_UpdateConfigData` with its checks (`Due`, `Dropped`, `Updates`), the message without it after an overflow, the delayed drop |
| `PacketsArrive` | `SV_PacketEvent` (`Acknowledged`) and `SV_ExecuteClientMessage` (the gamestate, `gamestateSent` = 2) |
| `SpawnServer`, `DropClient` | for the receiver |
| `DoneDownload` | `SV_DoneDownload_f`; only in `DownloadSpec` |

### 2.10 RateLimit

`buckets` and `heads` are the table and its hash chains, linked both ways by index. A query
(`QueryKnown`, `QueryNew`, `QueryFull`) is `SVC_RateLimitAddress` whole: the search of the chain, the
search of the table for a bucket that is free or may be reclaimed, and `SVC_RateLimit`. An
interval is converted to an int of `IntRange` values and a level to a char of `CharRange`.
`answered`, `asked` and `sure` are history. `RateAssumption` says that two periods are less than half
the range of an int and limits less than half that of a char, as they are (`sv_queryIgnoreTime` is
2 s by default and 100 s at most, against 35 minutes; the limits are 2 and 4, against 128), and that a
char has as many negative values as others. The single buckets for all addresses together
(`statusBucket`, `infoBucket`, `rconBucket`) go through `Limited` alone and are not modelled again.

### 2.11 ServerParts

These six share no state with each other in the code, apart from fields the modules treat
as inputs, so checking them side by side would only multiply their states. `component` says
which of them a behaviour is of; `Init` chooses, and each step is a step of that part. A
variable several modules declare (`cl`, `client`, `level`) is that of the part at work; those it does
not have are `Unused`. Every property is that of its module, for behaviours of its part.
`MCServerParts` gives what a configuration file cannot write; the other constants have
their values in `MCServerParts.cfg`.

## 3. Runs

| run | module, configuration | bounds | time |
|---|---|---|---|
| `even` | `MCReliableTransport`, `MCReliableEven.cfg` | both ends send 2 fragments, windows 3 and 2, one packet in flight each way | 0.5 min |
| `resize` | `MCReliableTransport`, `MCReliableResize.cfg` | 5 fragments one way, ring of 2, messages of up to 3, two packets in flight | 0.5 min |
| `netchan` | `Netchan`, `MCNetchan.cfg` | 3 messages of 1, 3, 4 or 6 bytes, fragments of 2, buffer of 5, three packets in flight | |
| `netchan_collide` | `Netchan`, `MCNetchanCollide.cfg` | the same, with all callers | |
| `commands` | `MCReliableCommands`, `MCReliableCommands.cfg` | ring of 2, 2 commands of three kinds and the one of the level change, two levels, one message in flight each way | 2.3 min |
| `commands_gamestate`, `commands_snapshot`, `commands_final` | `MCReliableCommands` | ring of 3, 4 commands that must not be lost | |
| `slots` | `MCClientSlots`, `MCClientSlots.cfg` | 3 players, a private and a public slot, queue of 2, limits of 1 to 3 frames | 1.2 min |
| `slots_ports` | `MCClientSlots`, `MCClientSlotsPorts.cfg` | one player, one slot, two ports | |
| `parts` | `MCServerParts`, `MCServerParts.cfg` | for each part, see below | 2.7 min |
| `config_download` | `ConfigData`, `MCConfigDownload.cfg` | one other client, ring of 2, 4 changes, 2 levels | |

What the bounds have to reach, and do:

- `even`: the round over the window comes back to the lowest fragment, fragments
  arrive out of order and are selectively acknowledged on both sides at once, and
  both ends have something outstanding, which is when they could wait for each
  other.
- `resize`: five fragments go round a ring of 2 twice; the ring grows above the
  default, with and without malloc failing, and shrinks inside the handler that
  enters selective acknowledges. Two packets in flight are enough for a stale one
  beside a current one.
- `netchan`: 3 is a message with a short last fragment, 4 one with a full last
  fragment and so an empty one after it, 6 one that the receiver has no room for,
  and 1 one that is not fragmented. Three packets in flight let fragments of two
  messages and a repeated one mix.
- `commands`: with a ring of 2, half of it is 1, so that dropping begins with the
  second outstanding command; the three commands fill the ring and exceed it. The three
  kinds are one that may be dropped, one that the next of its kind replaces, and
  one that is neither. The two sides may have one message in flight each, and any
  number may be lost: `Sent` drops the old one. A message, a client message and a gamestate
  of the first level are in flight when the second begins; liveness is checked here because
  a change of the level is where a command could be forgotten. The runs that end in a
  violation have a ring of 3.
- `slots`: `p1` and `p2` share an address and differ in their port, `p3` comes from elsewhere
  with an old client; `p2` and `p3` know the private password. So a private slot is
  contested, a public one is wanted by two players and by bots, an old client waits for
  its update as a zombie in front of others that time out, and the queue of 2 gets
  full: a player who got a private slot leaves its entry behind, and with the two
  others that makes three. Limits of one to three frames let every order of the
  different time-outs happen.
- `parts`, snapshots: 3 frames with a margin of 1 (so a snapshot is too old after 2
  messages), rings of 4 entities and 3 client states, of which a client is shown 2 and 1
  and others put in nothing, or 1 and 2, before and behind it; 6 messages, 2 levels, with a
  demo. Either ring may be the one that has gone past a frame first, one frame of the server
  reuses what the last one used, and 6 messages go round the frames twice.
- `parts`, configuration data: one other client, a ring of 2, 4 changes, 2 levels: the ring goes
  round twice, and a client that is one, two or three changes behind is told, told or
  dropped. A message in flight each way, of which any may be lost.
- `parts`, queries: 3 addresses with the same hash for 2 buckets, limits 2 and 4, a period of 2;
  steps of 6 and 9 up to a time of 16: an interval passes the time of a small bucket but not
  of a large one, of both, and the range of an int (30 values), after which it is negative.
- `parts`, commands: a limit of 2 in a quiet time of 2, 4 commands over a time of 4, a ring
  of 2 at the client, a message in flight each way: a burst is passed, cut, and forgotten.
- `parts`, downloads: files of 3, 2 and no blocks and one of another level, blocks of 1 or 2, ints
  from -5 to 4: parts that begin before the file, in it and behind it, end anywhere, and whose sums
  go round in either direction.
- `parts`, framing: 3 messages of 0, 2 and 6 bytes behind a length of 2, fragments of 3, a window of
  2, a default buffer of 4: a length alone is less than a fragment, 2 bytes take two
  fragments of which the second is not full, 6 take more than the window; a length that is
  misread is 3.

What the passing runs show is stated at each property. In short: the transport and
the netchan implement their abstract specifications; the transport's sender never
forgets what it knows; the ends never both fall silent; both sides of the command
channel agree about every number that is not acknowledged, through dropping,
replacement and level changes; a message that is in range is decoded with the
right command; and no command of type 1 is lost unless the client is told to
disconnect. Slots have one owner through reconnects, refusals, time-outs and level
changes, as long as the ports stay. `FairQueue` holds for a queue with at most one gap
(`Gaps`): `SV_DirectConnect` closes each gap by one place per call (`sv_client.c:333`), and
when two entries in a row have timed out a newcomer can be placed before those who
wait. `SilentFreed` holds although `SV_CheckTimeouts` returns at a zombie that waits for its
update (`sv_main.c:3812`): the wait is limited, the slots behind it are only late. The six parts
keep what section 1.4 promises of them, with two limits: `AnswersLimited` and `PatientAnswered`
leave out addresses that paused for half the range of an int or longer (35 minutes), for
which the interval in `SVC_RateLimit` is wrong; and an address may be answered once more than
the limit within a period, because its bucket leaks while it asks or goes to another
address in between.

### 3.1 Disagreements found

Six runs end in a counterexample. Each checks what a comment says.

1. `netchan_collide` — `sv_net_chan.c:109` says colliding messages are buffered and
   sent in order. They are not: a snapshot forced by a map change or by shutdown, and
   the drop, start a message under the number of the one under way.
2. `commands_snapshot` — `sv_main.c:239` guarantees that no later snapshot is executed
   before a command. The ring may hold 128 commands, an acknowledge is valid up to a
   distance of 127: with exactly 128 outstanding, an ordinary client message makes the
   server forget them all.
3. `commands_gamestate` — `sv_client.c:1787` sends the waiting commands first, because the
   gamestate sets the client's number. They go over the unreliable channel, the
   gamestate over the reliable one, so sending first is not arriving first.
4. `commands_final` — `sv_main.c:1996` and `3780` rely on the final command of a dropped
   client being resent. `SV_DropClientInternal` gives it a number the client may have
   used up already, and the client then ignores it and acknowledges it.
5. `slots_ports` — `sv_main.c:1955` and `sv_client.c:2716` follow a player whose router changes
   the port. Only the sequenced channel does; the reliable channel keeps the address
   of the connect packet (`net_reliabletransport.c:637`) and sends to it for ever.
6. `config_download` — `sv_client.c:1902` sets `gamestateSent` to 2 to "know when player
   received the gamestate". After a download another gamestate of the same level goes to a
   client that may have one already, and its next message, sent before it arrives, counts
   as the sign that it has. Changes that are sent then reach the client before the gamestate
   and let it miss the ones the gamestate holds, so `NamesCurrent` and the other properties of
   `ConfigData` are checked without downloads.

## 4. Fairness

- `ReliableTransport!FairSpec`: weak fairness of transmitting and delivering at each
  end, because `ReliableMessagesFrame` and `SV_ReceiveReliableMessages` run in every
  frame for every client; strong fairness of receiving, that is, a packet that is
  sent again and again is not lost for ever. No fairness of `Send`: nothing obliges
  the application.
- `ReliableCommands!FairSpec`: weak fairness of `SendClientSnapshot` (the server sends
  every client its messages), `ClientSends` (the client sends its input) and
  `ClientTakesGameState` (the reliable channel delivers, which `EventuallyConfirmed` of the
  transport justifies); strong fairness of arrival in both directions.
- `ClientSlots!FairSpec`: weak fairness of `Frame`, because the main loop runs frame after
  frame. Nothing obliges players, routers or the update server to do anything.
- `ServerParts!Spec`, for the configuration data only: weak fairness of the message with the changes
  (`SV_SendClientMessages` runs in every frame, and the changes mostly fit), of the client's
  messages and of the arrival of gamestates; strong fairness of arrival in both directions,
  and of the arrival of messages that hold changes, as such a message is sent again and
  again. `EventuallyUpToDate` says that the receiver is up to date again and again, or is dropped
  because the ring has gone round. Nothing obliges anyone to change a name or the level.
- `Netchan` states no liveness: it resends nothing. Nor do the other five parts: a player
  need not issue commands, ask or download.

## 5. Proofs

What TLC shows for a ring of 2, TLAPS shows for one of 128. Each component has a module of
proofs that ends in its theorems, or a section of `ServerPartsProofs`. First comes the
invariant that is inductive, then the lemma that each action keeps it, then what follows.

| module | about | theorems |
|---|---|---|
| `ReliableTransportProofs` | `ReliableTransport!Spec` | `Correct`, `TypeCorrect` (`TypeOK`), `CountersCorrect` (`Counters`), `TransmitRingCorrect` (`TransmitRing`), `StreamCorrect` (`StreamIntegrity`), `Implements` (`ImplementsStream`), `KnowledgeCorrect`, `NoStandoffCorrect` (`NoStandoff`), `KnowledgeKeptCorrect` (`KnowledgeKept`, an action property) |
| `NetchanProofs` | `Netchan!Spec` | `Correct`, `TypeCorrect` (`TypeOK`), `WholeMessagesCorrect` (`WholeMessages`), `NothingSwallowedCorrect` (`NothingSwallowed`), `Implements` (`ImplementsMessageStream`) |
| `ReliableCommandsProofs` | `ReliableCommands!Spec` | `Correct`, `TypeCorrect` (`TypeOK`), `AgreementCorrect` (`Agreement`), `KeyAgreesCorrect` (`KeyAgrees`), `PledgesKeptCorrect` (`PledgesKept`), `CommandsBeforeSnapshotInRangeCorrect` (`CommandsBeforeSnapshotInRange`) |
| `ClientSlotsProofs` | `ClientSlots!Spec` | `Correct`, `TypeCorrect` (`TypeOK`), `PacketsReachOwnerCorrect` (`PacketsReachOwner`), `EquippedCorrect` (`Equipped`), `ReservedKeptCorrect` (`ReservedKept`), `KeepsItsSlotCorrect` (`KeepsItsSlot`) and `FairQueueCorrect` (`FairQueue`), both action properties |
| `ConfigDataProofs` | `ConfigData!Spec` | `InvariantHolds`, `TypesKept` (`TypeOK`), `NamesStayCurrent` (`NamesCurrent`), `AcknowledgesBacked` (`AcknowledgeBacked`), `GameStatesReceived` (`GameStateReceived`) |
| `ReliableFramingProofs` | `ReliableFraming!Spec` | `StaysInStep`, `TypesKept` (`TypeOK`), `MessagesStayWhole` (`MessagesWhole`) |
| `ServerPartsProofs` | `ServerParts!Spec` | `TypesKept` (`TypeOK`), `ShownStaysBuilt` (`ShownIsBuilt`), `BasesAgree` (`BaseAgrees`), `NamesStayCurrent` (`NamesCurrent`), `AcknowledgesBacked` (`AcknowledgeBacked`), `ChainsStaySound` (`ChainsSound`), `AnswersStayLimited` (`AnswersLimited`), `PatienceIsAnswered` (`PatientAnswered`, an action property), `CommandsStayInOrder` (`CommandsInOrder`), `FloodStaysLimited` (`FloodLimited`), `HandleStaysRight` (`HandleKept`), `PartsSentWhole` (`PartSent`), `MessagesStayWhole` (`MessagesWhole`) |

`NumberFacts` holds what these share: equal places in a ring mean equal numbers within a
stretch no longer than the ring (`PlacesDiffer`, `SamePlace`), multiples lie apart, a set of
natural numbers has a least element, and a greatest one if it is bounded, and what goes
from each number to the next goes up to any (`UpTo`). Induction is used in the forms
`LeastNumber` (the least counterexample would have a smaller one) and `UpTo` (the set of
the numbers up to which something holds has no end). That is how the recursive functions are
proved about: `MovedUp` (one pass over the queue), `Firm` (`sub_5310E0`), `Executed` (the commands
of a message), the chains of buckets, the sums of block sizes, what is left of fragments and the
rounds of a call; no module declares a RECURSIVE operator.

Assumptions are those the modules state about their constants, and no more; TLC
evaluates them on every run. The bounds on what is submitted or issued and on the packets
in flight (`MaxMessage`, `MaxMessages`, `MaxIssued`, `MaxLevel`, `WireCap`, `MaxSequence`, the `MaxTime`s) are arbitrary
there, so nothing in a proof depends on a bound being small.

### 5.1 Reliable transport

Assumed: `StreamAssumption`, `BoundAssumption` and `WindowAssumption` (receive window of 1 to 5, not
above the transmit window, not above the default ring).

`StreamIntegrity` is what matters and is not inductive. That the fragment taken out of
the receive ring is the right one needs `ReceiveRing` (a slot that is not blank holds
the fragment of its number); that storing keeps `ReceiveRing` needs `WirePackets` (a
packet, however late, carries a fragment of the stream under its number and
acknowledges only what has arrived); that transmitting makes only such packets needs
`TransmitRing` (every outstanding fragment is at its place, at every size of the
ring); and that no number meets another one in the same slot needs `Counters` (the
distance between what one end has confirmed and the other has delivered never
exceeds the window, and what is outstanding never exceeds the ring). `IInv` is the
conjunction of these with `TypeOK`; the run `resize` checks it.

The lemmas `PlacedAt` and `PlacedKeeps` say what `Placed` puts where and leaves alone,
`ResizedKeeps` that growing and shrinking keep every outstanding fragment, `RoomForFits` that the
new ring is large enough. One lemma per action shows that it keeps `IInv`
(`SendKeeps`, `TransmitFragmentKeeps`, ..., `ReceiveKeeps`), `NextKeeps` joins them, and
`StepImplements` shows under `IInv` that `Send`, `Deliver` and `Receive` are `Submit`, `Read`
and `Confirm` of `ReliableStream` or stutter, and that transmitting stutters.

`NoStandoff` needs a second invariant, `KInv`. An end is silent when all fragments it could send are
marked as arrived, its lowest one among them, while that is the one its peer waits for. So the
question is whether a packet can name, as arrived, a fragment its sender waits for now or
later. An end delivers all it can, so the fragment it then waits for is one it has not; and what it has, it
never waits for again. A packet goes wrong only if it names the very fragment its sender waits for, which
only the first packet of an end can do (`selackoffset` is 0 until then), and only if the other end
has sent before. `Ahead(e)` says that no fragment of `e` is named that its peer waits for,
`Silence(e)` what holds before the first packet of `e`, and `KInv` that one end at least is `Ahead`:
not both first packets can come after the other's. `KnowledgeKept` follows from `IInv` and
`ResizedKeeps`.

### 5.2 Netchan

Assumed: `SizeAssumption`. The theorems are about `Spec`, whose callers finish a message before the
next; the callers that do not are the run `netchan_collide`.

The packets of a message are known by their offsets, the multiples of `FragmentSize` up to
its length (a full last fragment is followed by an empty one). `Gone(m)` are those that
have been sent. `IInv` says that messages are numbered upwards and one under way has the
current number (`Numbered`, `UnderWay`), that each packet in flight is one of `Gone` (`OnWire`), that
the receiver's buffer is the beginning of the message whose number is in
`fragmentSequence` (`Assembly`), that what was received was received whole (`WholeMessages`) and is not newer than the
receiver's number (`Past`). From these follow `WholeMessages` and the refinement: a packet
that completes a message completes one of a number above all received ones.

`NothingSwallowed` asks more, because it is about everything that was sent. On a network
without faults there is a cursor (`Cursor(c, s)`): exactly the packets from fragment `s` of message `c` on
that have been sent are in flight, everything before has arrived, and so the receiver has joined `s` bytes
of message `c`, or has given it up because it does not fit. The empty fragment is where
this would break: without it the receiver would not learn that a message is complete.

### 5.3 Reliable commands

Assumed: `RingAssumption` (a ring of 2 or more), `IssueAssumption` and `BoundAssumption`; `Replaced`
is any relation.

The invariant is about a client that is neither dropped nor `forgiven` an acknowledge,
because with either the server gives up what it knows (runs `commands_final`,
`commands_snapshot`). Its parts:

- `RingAgrees`: let `Said` be all the numbers with their commands that were executed or are
  in flight. The ring agrees with it from some number `f` on, as far as the ring reaches,
  and no acknowledge below `f` will come any more. The number is needed because slots are
  reused: `f` is a lower bound of everything the client can still acknowledge, and it only
  grows. That unsent commands are free to be renumbered is the clause that nothing is
  `Said` above `sent`.
- `Unique`: one number, one command. `Agreement` follows from these two.
- `Levels`, `Sorted`, `Playing`: gamestates come one for a level and in order, acknowledges do
  not fall within a level, and a client that plays is in the level of the server. So an
  acknowledge that arrives for a client that plays is not below the last one.
- `Bounded`, `Near`, `Keys`: nobody knows a number that was not sent; a message begins no further
  back than the ring reaches; and the ring of the client agrees with what it executed.
  `KeyAgrees` follows: within the range, the server's slot and the client's key are both
  what was `Said`.
- `Completed`, `Pledges`: a client that was not overtaken by a gamestate has executed all numbers up to its own, so a
  command that must not be lost is executed, or still in the ring, or was superseded.
  `PledgesKept` and `CommandsBeforeSnapshotInRange` follow.

`OnRing` is the ring lemma: what `Written` puts where and leaves alone. `Listing` says what
`SV_AddServerCommand` makes of the unsent commands, so that the action is proved once
for dropping, replacing and overflow.

### 5.4 Client slots

Assumed: `PlayersAssumption` (ports are distinct for players that share an address) and `SizesAssumption`. The
theorems are about `Spec`, in which no router changes ports; when one does, `OnePort` is violated
(run `slots_ports`).

`PacketsReachOwner` is not inductive: `SV_ReadPackets` takes the first slot that is not free
and has the address and qport of the packet, and a zombie with a lower number than the new slot of
the same player would take its packets. What excludes it is `Unshared`: no two slots
remember the same player, free ones included, because `SV_DirectConnect` takes the slot
that remembers a player, free or not, when there is one. With it goes `Sound`,
what holds of each slot alone. Every action is shown to be `Quiet` (it gives nobody a slot and
keeps each slot sound) or `Granted` (one slot, not in the game or the player's own, goes to a
player no other slot remembers, or to a bot), and these two keep the invariant.

`TypeOK` needs that the place behind the queue stays empty, through `MovedUp`, which reads it.

`FairQueue` is about one step. Who is admitted to a public slot is first in the queue after
the pass over it. Only the first round of `MovedUp` changes the first place: it leaves who
is there, or fills the gap from the second. With one gap at most, whoever is first after the
pass was therefore ahead of everyone else before it (`OneGapFirst`),
and nobody enters in another way (`EntersFirst`, `EntersAsking`). With two gaps in a row this fails, as section 3 says.

### 5.5 Downloads

Assumed: `DownloadAssumption`.

A handle differs from "no handle" only by the file it is for. `SV_SelectDownloadBlocksX_f`
and each block move its position, so that a handle stays one needs that an open
file has a name (`NamedWhenOpen`). That the count stays an int whatever a client asks for (`TypeOK`) needs
`ReadWithin`: a file is read within its size, and the count is never beyond the position, though it may
be before it when the part begins before the file. `DownloadsInv` is `HandleKept` with these and
the types. `AsIntIs` is the arithmetic.

`PartSent` is about sums of block sizes. `PartInv` says of the part the client asked for that the blocks it
has been sent follow each other from its beginning, and that the count and the position go on where
the last one ends (`SentAsAsked`, `Follow`). If the part does not begin before the file, the
position is the count, and what the server takes the length of the part to be and what the client asked
for mean the same amount (`Within`); where the sum of beginning and length goes round the server keeps
a length that is too great, and the end of the file ends the part (`SelectedSent`). `OneBlockMore`
is the step that sends a block, the last one, which may be cut, among them.

### 5.6 Configuration data

Assumed: `ConfigAssumption`.

`NamesCurrent` is about what a client has been told, so the same must be said of everything on its way.
`GameStatesTrue` says it of the gamestates, `MessagesTrue` of the messages with changes: such a
message tells all the changes between two numbers that the ring still has, and for who was
changed since it was sent, a later one is still to be told. `RingKept` says that the ring holds who was last
changed under a number until it has gone round; a client that is further behind is
dropped. A message tells only what comes after the acknowledge, so this must never be
too high (`AcknowledgeBacked`), and must not rest on a gamestate that a message may
overtake: that is `GameStateReceived`, which follows from the order of the levels and which a
download breaks (run `config_download`).

### 5.7 Client commands

Assumed: `CommandsAssumption`.

`FloodLimited` counts, in any stretch of the history in which limited commands follow each
other in less than the quiet time, those that were passed on. Inductive is `Sound`: the commands
are numbered in order (`Ordered`), the quiet time runs from the last limited one on
(`QuietFromLast`), and in every such stretch that is still going on what was passed and the
tokens left are not more than the limit (`TokensLeft`). A message holds several commands, so
`Sound` is shown to hold along `Executed`, by induction over its rounds (`ExecutedKeeps`).

### 5.8 Snapshots

Assumed: `FrameAssumption`, `RingsAssumption`, `SizeAssumption` and `BoundAssumption` (a bound on the messages).

`BaseAgrees` is a ring argument twice: the frame of the old snapshot must still be its own, and what
it refers to in the rings all clients share must still be there. `Relied` are the numbers a client
may yet name, or has named, as the one it can take differences from, in messages on their way and
in `deltaMessage`; `ReliedKept` says that for each the client has the snapshot and the server's
frame, if it is still that of this number and still there in the rings, says the same. `Preserved` is what the rings do to a
frame when they go on: it stays as it is, or is noticed to be gone. `EnteredPreserves` shows it for everything
that enters the rings, `LevelsAscend` excludes that an acknowledge of the old level counts for the new, and
`NextIsEmpty` that the frame of the next message has anything left in it, which is
`ShownIsBuilt` for the message that a level change sends without building a snapshot.

### 5.9 Rate limit

Assumed: `RateAssumption`.

`Chained(t, h)` is the shape of the table: links lead to buckets of the same hash and back, who has
no bucket before it is the first of its chain, no address has two, and a rank falls along
the links, so no chain has a cycle. Unlinking a bucket keeps the rank; pushing one puts it above all
(`UnlinkedChained`, `PushedChained`). That a walk of as many steps as there are buckets
finds the whole chain (`WalkCovers`) is the pigeonhole principle, as what is linked has a
rank and those on a walk differ. `ChainsSound` follows.

`AnswersLimited` rests on `Backed`: the bucket of an address has counted all answers since its
time, and within the last period there is at most one before. A bucket that is taken from an address has
been left for two periods, so there is nothing recent to count (`ExpiredIsOld`). `DrainedBacked` is the arithmetic: as long as the address
did not pause for half the range of an int, the interval is exact (`IntervalIs`), and
the level goes down by the periods that are over. `PatientAnswered` follows from the same: after as many
periods as the level can be, the bucket is empty.

The types (`QueryTypes`) are about every address, sure or not: an interval that has gone
round is negative, and then puts the time of a bucket ahead, but never by more than a period
(`Timely`, `QuotientIs`).

### 5.10 Messages over the reliable channel

Assumed: `SizesAssumption`.

A byte says which message it is of and which place it has there. `Fragment` says that a fragment holds
consecutive bytes of one message and is full unless it is the last, `Joint` that each fragment of the stream
goes on where the one before ends, and `InStep` that the stream goes on where the buffer of the receiver ends,
all of this up to the message that was taken only in part (`Whole`). In a call `Mid` says the same of the
record that goes through the rounds, with what of the stream it has taken; `Loop` adds what holds
before a round: the message that is begun is not complete and there is no rest of a
fragment, because a message begins with a fragment. So a read never goes beyond the
message it is for, whatever is there (`ReadKeeps`, `ReadMid`), and the length is read right, whether its bytes
are in one fragment or in two. `RoundKeeps` shows that a round keeps `Loop`, and that the loop ends only when nothing more
of the message is there; `RoundsKeep` goes from there to the call, for any number of
rounds. For the sender `SendKeeps` distinguishes a message that is
taken whole from one that is cut.

### 5.11 The parts together

`ServerPartsProofs` is about `ServerParts!Spec`. `OnePart` says that a step of one part is none of another.
The theorems about names and about messages over the reliable channel come from the modules that
prove them of `ConfigData` and `ReliableFraming`, through an instance of each, which is shown to say what the
instance in `ServerParts` says (`ConfigNextSame`, `FramingReceivesSame`). The other four parts are proved about in place.

### 5.12 Only model-checked

- Liveness, as it is beyond the proof system (with anything that needs ENABLED):
  `EventuallyConfirmed`, `EventuallyAcknowledged`, `SilentFreed`, `EventuallyUpToDate`.
- The violation runs, which are counterexamples.

## 6. Plan

Done: all components of section 2 are modelled and checked, and every safety property and action
property of the passing runs is proved.

What remains:

1. The three kinds of behaviour that are hazards without a property: the late frame of
   `ReliableMessagesFrame`, which needs time in `ReliableTransport`; the buffer that zombies
   allocate; and `wwwDlAck` after a download that was redirected.
2. Refinements of `ServerParts`: abstract specifications of the changes of names and of the
   framing (an ordered stream of messages), which the invariants would serve.
3. The ranking arguments behind the liveness properties: that each round of the transport
   confirms more, for instance, is an action property.

## 7. Not modelled

Nothing below has state whose interleavings, losses or order a model would reach; where
the code has an oddity of its own, the hazards in `PROJECT.json` name its line.

- Thread callbacks: `Sys_RunThreadCallbacks` looks at the first entry of its table for every
  entry (`sys_thread.c:195`), so it works for one thread at a time, where there is nothing
  to interleave.
- Plugins: loaded and called by the main loop alone, and what they do is not in the
  repository.
- Command buffer and cvars: text processing in one thread. (`Com_Frame` executes the buffer
  three times, so `wait` does not delay to the next frame as `cmd.c:475` says.)
- String list, memory tree, hunk and zone: data structures behind a lock and allocators over
  raw memory, whose states are the contents of large tables.
- The script virtual machine and compiler, game rules, bots' behaviour: large
  interpreters over floating-point state; no useful finite instance.
- Collision (`cm_*`), and with it which entities a client sees: floating-point geometry.
- Asset loading, demo files, screenshots, configuration storage, file system: input
  and output of files, sequential.
- Authentication, bans, admin powers: tables kept in files, changed by the main loop.
- Update, cryptography: wrappers of vendored libraries. Steam and anti-cheat
  interfaces: closed modules that are not part of the repository.
- Huffman coding, field encoding of `msg.c`: data transformation over constant tables.
- Source-RCON, web administration, FTP: parsers of text over TCP.
- Of the modelled components: the archive of snapshots for the killcam, the rate of
  downloads, shutdown and fast restart, and the points named under each module.
- Time: timeouts and rates appear as choices, except in `RateLimit`, `ClientCommands` and
  `ClientSlots`, which count it. The 250 ms rule of `ReliableMessagesFrame` (a late frame sends
  nothing) is listed as a hazard.
