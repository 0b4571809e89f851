----------------------------- MODULE ServerParts -----------------------------
(***************************************************************************)
(* The parts of the server that share no state with each other, together:  *)
(* a behaviour is one of one of the parts.  A variable that several of     *)
(* them declare is that of the part at work; those it does not have are    *)
(* Unused.                                                                 *)
(***************************************************************************)
EXTENDS Integers, Sequences

CONSTANTS
  PacketBackup, Margin, RingSize, Shown, OthersShown, Recorded,          \* of SnapshotFrames
  Others, Self, CacheSize, MaxSequence,                                 \* of ConfigData
  Address, Hash, MaxBuckets, Bursts, Period, IntRange, CharRange, Steps,  \* of RateLimit
  FloodLimit, Quiet, CommandRing, MaxIssued,                            \* of ClientCommands
  File, SizeOf, Active, BlockSizes, Redirects, MaxInt,                  \* of Downloads
  HeadSize, FragmentSize, DefaultSize, RxWindow, Lengths, Misread,      \* of ReliableFraming
  WireCap, MaxLevel,                                                    \* of several parts
  SnapshotMessages, FramingMessages, QueryTime, CommandTime             \* bounds of one part

VARIABLES
  component,                                             \* the part at work
  cl, level, client, toClient, toServer, gamestates,     \* of several parts
  next, ring, loading,                                   \* of SnapshotFrames
  sequence, changed, other,                              \* of ConfigData
  now, buckets, heads, answered, asked, sure,            \* of RateLimit
  time, done,                                            \* of ClientCommands
  open, part,                                            \* of Downloads
  sent, cut, stream, executed                            \* of ReliableFraming

ends == <<toClient, toServer, client>>
levels == <<level, gamestates>>
snapshotVars == <<next, ring, loading>>
configVars == <<sequence, changed, other>>
queryVars == <<now, buckets, heads, answered, asked, sure>>
commandVars == <<time, done>>
downloadVars == <<open, part>>
framingVars == <<sent, cut, stream, executed>>
vars == <<component, cl, ends, levels, snapshotVars, configVars, queryVars, commandVars,
          downloadVars, framingVars>>

Unused == << >>

-----------------------------------------------------------------------------
(* The instances.                                                          *)

Snapshots == INSTANCE SnapshotFrames WITH Others <- OthersShown, MaxMessages <- SnapshotMessages

Config == INSTANCE ConfigData

Queries == INSTANCE RateLimit WITH MaxTime <- QueryTime

Commands == INSTANCE ClientCommands WITH MaxTime <- CommandTime

Fetching == INSTANCE Downloads

Framing == INSTANCE ReliableFraming WITH MaxMessages <- FramingMessages

ASSUME SnapshotsAssumed ==
  /\ Snapshots!FrameAssumption /\ Snapshots!RingsAssumption /\ Snapshots!SizeAssumption
  /\ Snapshots!BoundAssumption

ASSUME ConfigAssumed == Config!ConfigAssumption

ASSUME QueriesAssumed == Queries!RateAssumption

ASSUME CommandsAssumed == Commands!CommandsAssumption

ASSUME DownloadsAssumed == Fetching!DownloadAssumption

ASSUME FramingAssumed == Framing!SizesAssumption

-----------------------------------------------------------------------------
(* The parts, one at a time.                                               *)

NoEnds == toClient = Unused /\ toServer = Unused /\ client = Unused
NoLevels == level = Unused /\ gamestates = Unused
NoSnapshots == next = Unused /\ ring = Unused /\ loading = Unused
NoConfig == sequence = Unused /\ changed = Unused /\ other = Unused
NoQueries ==
  /\ now = Unused /\ buckets = Unused /\ heads = Unused
  /\ answered = Unused /\ asked = Unused /\ sure = Unused
NoCommands == time = Unused /\ done = Unused
NoDownloads == open = Unused /\ part = Unused
NoFraming == sent = Unused /\ cut = Unused /\ stream = Unused /\ executed = Unused

Init ==
  \/ /\ component = "snapshots" /\ Snapshots!Init
     /\ NoConfig /\ NoQueries /\ NoCommands /\ NoDownloads /\ NoFraming
  \/ /\ component = "config" /\ Config!Init
     /\ NoSnapshots /\ NoQueries /\ NoCommands /\ NoDownloads /\ NoFraming
  \/ /\ component = "queries" /\ Queries!Init
     /\ cl = Unused /\ NoEnds /\ NoLevels /\ NoSnapshots /\ NoConfig /\ NoCommands /\ NoDownloads
     /\ NoFraming
  \/ /\ component = "commands" /\ Commands!Init
     /\ NoLevels /\ NoSnapshots /\ NoConfig /\ NoQueries /\ NoDownloads /\ NoFraming
  \/ /\ component = "downloads" /\ Fetching!Init
     /\ NoEnds /\ NoLevels /\ NoSnapshots /\ NoConfig /\ NoQueries /\ NoCommands /\ NoFraming
  \/ /\ component = "framing" /\ Framing!Init
     /\ NoEnds /\ NoLevels /\ NoSnapshots /\ NoConfig /\ NoQueries /\ NoCommands /\ NoDownloads

SnapshotStep ==
  /\ component = "snapshots" /\ Snapshots!Next
  /\ UNCHANGED <<component, configVars, queryVars, commandVars, downloadVars, framingVars>>

ConfigStep ==
  /\ component = "config" /\ Config!Next
  /\ UNCHANGED <<component, snapshotVars, queryVars, commandVars, downloadVars, framingVars>>

QueryStep ==
  /\ component = "queries" /\ Queries!Next
  /\ UNCHANGED <<component, cl, ends, levels, snapshotVars, configVars, commandVars, downloadVars,
                 framingVars>>

CommandStep ==
  /\ component = "commands" /\ Commands!Next
  /\ UNCHANGED <<component, levels, snapshotVars, configVars, queryVars, downloadVars, framingVars>>

DownloadStep ==
  /\ component = "downloads" /\ Fetching!Next
  /\ UNCHANGED <<component, ends, levels, snapshotVars, configVars, queryVars, commandVars, framingVars>>

FramingStep ==
  /\ component = "framing" /\ Framing!Next
  /\ UNCHANGED <<component, ends, levels, snapshotVars, configVars, queryVars, commandVars,
                 downloadVars>>

Next ==
  \/ SnapshotStep
  \/ ConfigStep
  \/ QueryStep
  \/ CommandStep
  \/ DownloadStep
  \/ FramingStep

configuring == <<cl, ends, levels, configVars>>

Configures(A) == component = "config" /\ A

\* For the configuration data: the server runs its frames and the changes mostly fit,
\* the client sends, what is sent again and again arrives, and so does a gamestate.
Fairness ==
  /\ WF_configuring(Configures(Config!SendMessage(Config!Message)))
  /\ WF_configuring(Configures(Config!ClientSends))
  /\ WF_configuring(Configures(Config!ClientTakesGameState))
  /\ SF_configuring(Configures(Config!MessagesArrive))
  /\ SF_configuring(Configures(Config!UpdatesArrive))
  /\ SF_configuring(Configures(Config!PacketsArrive))

Spec == Init /\ [][Next]_vars /\ Fairness

-----------------------------------------------------------------------------
(* The properties of the parts.                                            *)

\* The types of the variables of each part.
TypeOK ==
  CASE component = "snapshots" -> Snapshots!TypeOK
    [] component = "config" -> Config!TypeOK
    [] component = "queries" -> Queries!TypeOK
    [] component = "commands" -> Commands!TypeOK
    [] component = "downloads" -> Fetching!TypeOK
    [] component = "framing" -> Framing!TypeOK

\* A client is shown what was built for it: neither what was built after it in the same
\* frame, nor what the frame held before, is in its snapshot (SV_SendClientMessages).
ShownIsBuilt == component = "snapshots" => Snapshots!ShownIsBuilt

\* A snapshot that is coded against an earlier one reaches a client that still has that
\* one, as the server has it (SV_WriteSnapshotToClient).
BaseAgrees == component = "snapshots" => Snapshots!BaseAgrees

\* A client that has the number of the last change of another has its name
\* (SV_UpdateConfigData).
NamesCurrent == component = "config" => Config!NamesCurrent

\* The server believes that the client has no more of the changes than it has, or will get
\* with a gamestate that is under way (SV_PacketEvent).
AcknowledgeBacked == component = "config" => Config!AcknowledgeBacked

\* The hash chains hold exactly the buckets in use, each in its place, and no address has
\* two (SVC_BucketForAddress).
ChainsSound == component = "queries" => Queries!ChainsSound

\* Within less than a period nobody is answered more often than the limit and once more
\* (SVC_RateLimitAddress).
AnswersLimited == component = "queries" => Queries!AnswersLimited

\* Each command of a client is executed once and in order, and a client that keeps to the
\* protocol is not dropped (SV_ClientCommand).
CommandsInOrder == component = "commands" => Commands!CommandsInOrder

\* Of commands in quick succession no more than the limit are passed on (SV_ClientCommand).
FloodLimited == component = "commands" => Commands!FloodLimited

\* The one open file of a client is the one it names and was told of (SV_CloseDownload,
\* SV_WriteDownloadToClient).
HandleKept == component = "downloads" => Fetching!HandleKept

\* A client that asks for a part of a file is sent just that, in order and to the end, and if
\* the part begins before the file, blocks in order all the same (SV_SelectDownloadBlocksX_f,
\* SV_WriteDownloadToClient).
PartSent == component = "downloads" => Fetching!PartSent

\* Messages over the reliable channel are executed as they were sent, each once and in order,
\* up to one that was taken only in part, and none waits for another
\* (SV_SendReliableServerCommand, SV_ReceiveReliableMessages).
MessagesWhole == component = "framing" => Framing!MessagesWhole

\* Who has paused for as long as a full bucket takes to run empty, and gets a bucket, is
\* answered (SVC_RateLimit).
PatientAnswered == [][component = "queries" => Queries!PatientIsAnswered]_vars

\* Again and again a client that stays is up to date with the changes, as long as it can
\* be told before the ring has gone round (SV_UpdateConfigData).
EventuallyUpToDate == []<>(component = "config" => Config!UpToDate)
=============================================================================
