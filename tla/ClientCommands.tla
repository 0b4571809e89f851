---------------------------- MODULE ClientCommands ----------------------------
(***************************************************************************)
(* The reliable commands of a client (SV_ExecuteClientMessage,             *)
(* SV_ClientCommand).                                                      *)
(*                                                                         *)
(* A client repeats in every message the commands the server has not       *)
(* acknowledged; the server executes each once and in order, and drops a   *)
(* client whose commands have a gap.  Commands that come too fast are      *)
(* ignored: they count as executed, but are not passed to the game.        *)
(*                                                                         *)
(* Not modelled: the text of the commands, and those the server executes   *)
(* itself.  A message of a client on another level is not executed at all, *)
(* as if it were lost.                                                     *)
(***************************************************************************)
EXTENDS Integers, SequencesExt, FiniteSetsExt

CONSTANTS
  FloodLimit,   \* sv_floodProtect, 4 by default
  Quiet,        \* the 800 ms without a command after which all is forgotten
  CommandRing,  \* how many commands the client keeps
  WireCap,      \* bound: messages in flight, each way
  MaxIssued,    \* bound: commands
  MaxTime       \* bound: the time

\* With sv_floodProtect 0 nothing is limited.
CommandsAssumption ==
  /\ FloodLimit \in Nat \ {0} /\ Quiet \in Nat /\ CommandRing \in Nat
  /\ WireCap \in Nat \ {0} /\ MaxIssued \in Nat /\ MaxTime \in Nat \ {0}

VARIABLES
  time,      \* svs.time
  cl,        \* the client_t: its state, lastClientCommand (last), floodprotect (tokens)
             \* and nextReliableTime (nextTime)
  done,      \* history: the commands executed, with their time, whether they are
             \* limited, and whether they were passed on
  client,    \* the client: for each command it issued whether it is of the kind that is
             \* limited, and the last one acknowledged
  toServer,  \* messages in flight: the numbers of the first and the last command in them
  toClient   \* messages in flight: the last command the server executed

vars == <<time, cl, done, client, toServer, toClient>>

-----------------------------------------------------------------------------
\* A message more on the wire; the oldest is lost when there are too many.
Put(wire, m) == IF Len(wire) < WireCap THEN Append(wire, m) ELSE Append(Tail(wire), m)

\* The client_t c is held to the limit for command n: not before it plays, and not for
\* the commands "team", "mr" and "score".
Limited(c, n) == c.state = "active" /\ client.limited[n]

\* A slip of Counted: a command that is ignored does not count.
CountedIfPassed(c) ==
  IF c.tokens = 0 /\ time < c.nextTime THEN c
  ELSE [c EXCEPT !.tokens = IF time > c.nextTime THEN FloodLimit - 1 ELSE Max({0, @ - 1}),
                 !.nextTime = time + Quiet]

\* The client_t c after one more command of the kind that is limited.
Counted(c) ==
  [c EXCEPT !.tokens = IF time > c.nextTime THEN FloodLimit - 1 ELSE Max({0, @ - 1}),
            !.nextTime = time + Quiet]

\* A slip of Noted: a command that is ignored has to come again.
NotedIfPassed(c, n, ignored) == IF ignored THEN c ELSE [c EXCEPT !.last = n]

\* The client_t c after command n, ignored or not.
Noted(c, n, ignored) == [c EXCEPT !.last = n]

\* SV_ClientCommand: command n, for the client_t and the history in s.
ClientCommand(s, n) ==
  LET limited == Limited(s.cl, n)
      ignored == limited /\ s.cl.tokens = 0 /\ time < s.cl.nextTime
  IN  CASE s.cl.state = "zombie" \/ n <= s.cl.last -> s
        [] s.cl.state # "zombie" /\ n > s.cl.last + 1 -> [s EXCEPT !.cl.state = "zombie"]
        [] OTHER ->
             [cl |-> Noted(IF limited THEN Counted(s.cl) ELSE s.cl, n, ignored),
              done |-> Append(s.done, [number |-> n, time |-> time, limited |-> limited,
                                       passed |-> ~ignored])]

\* The client_t and the history in s after the commands first to last, one after the other.
Executed(s, first, last) ==
  LET after[k \in 0 .. last - first + 1] ==
        IF k = 0 THEN s ELSE ClientCommand(after[k - 1], first + k - 1)
  IN  after[last - first + 1]

-----------------------------------------------------------------------------
\* SV_ExecuteClientMessage: message i arrives, those before it never do.  The commands
\* are executed, and then the move at its end puts the client into the game.
ExecuteClientMessage(i) ==
  LET after == Executed([cl |-> cl, done |-> done], toServer[i].first, toServer[i].last)
  IN  /\ toServer' = SubSeq(toServer, i + 1, Len(toServer))
      /\ done' = after.done
      /\ cl' = IF after.cl.state = "primed" THEN [after.cl EXCEPT !.state = "active"]
               ELSE after.cl
      /\ UNCHANGED <<time, client, toClient>>

PacketEvent == \E i \in 1 .. Len(toServer) : ExecuteClientMessage(i)

\* Any message to the client says which command was executed last.
SendMessage ==
  /\ toClient' = Put(toClient, cl.last)
  /\ UNCHANGED <<time, cl, done, client, toServer>>

\* A later frame.
Frame ==
  /\ time < MaxTime /\ time' = time + 1
  /\ UNCHANGED <<cl, done, client, toServer, toClient>>

-----------------------------------------------------------------------------
(* The client.                                                             *)

Issued == Len(client.limited)

\* A command, if there is room for it.
ClientIssues ==
  /\ Issued < MaxIssued /\ Issued - client.acknowledged < CommandRing
  /\ \E limited \in BOOLEAN : client' = [client EXCEPT !.limited = Append(@, limited)]
  /\ UNCHANGED <<time, cl, done, toServer, toClient>>

\* A message with all commands that are not acknowledged.
ClientSends ==
  /\ toServer' = Put(toServer, [first |-> client.acknowledged + 1, last |-> Issued])
  /\ UNCHANGED <<time, cl, done, client, toClient>>

ClientReads ==
  /\ \E i \in 1 .. Len(toClient) :
       /\ client' = [client EXCEPT !.acknowledged = toClient[i]]
       /\ toClient' = SubSeq(toClient, i + 1, Len(toClient))
  /\ UNCHANGED <<time, cl, done, toServer>>

-----------------------------------------------------------------------------
Init ==
  /\ time = 1
  /\ cl = [state |-> "primed", last |-> 0, tokens |-> 0, nextTime |-> 0]
  /\ done = << >>
  /\ client = [limited |-> << >>, acknowledged |-> 0]
  /\ toServer = << >> /\ toClient = << >>

Next ==
  \/ PacketEvent
  \/ SendMessage
  \/ Frame
  \/ ClientIssues
  \/ ClientSends
  \/ ClientReads

Spec == Init /\ [][Next]_vars

-----------------------------------------------------------------------------
(* What must hold.                                                         *)

\* The types of the variables.
TypeOK ==
  /\ time \in 1 .. MaxTime
  /\ cl \in [state : {"primed", "active", "zombie"}, last : 0 .. Issued,
             tokens : 0 .. FloodLimit - 1, nextTime : 0 .. time + Quiet]
  /\ done \in Seq([number : 1 .. Issued, time : 1 .. time, limited : BOOLEAN, passed : BOOLEAN])
  /\ client \in [limited : Seq(BOOLEAN), acknowledged : 0 .. cl.last]
  /\ toServer \in Seq([first : 1 .. cl.last + 1, last : 0 .. Issued])
  /\ toClient \in Seq(0 .. cl.last)

\* However messages are lost and commands repeated, ignored ones included, each command
\* is executed once and in order, and a client that keeps to the protocol is never
\* dropped for a gap.
CommandsInOrder ==
  /\ cl.state # "zombie"
  /\ [i \in 1 .. Len(done) |-> done[i].number] = [i \in 1 .. cl.last |-> i]

\* The commands that are limited, by their places in the history.
AllLimited == {k \in 1 .. Len(done) : done[k].limited}

\* From i to j, those that follow each other do so in less than the quiet time.
Rushed(i, j) ==
  \A k, l \in AllLimited \cap i .. j :
    k < l /\ AllLimited \cap k + 1 .. l - 1 = {} => done[l].time - done[k].time < Quiet

\* Of commands that follow each other in less than the quiet time, however many of them
\* are ignored, no more than the limit are passed on.
FloodLimited ==
  \A i, j \in 1 .. Len(done) : Rushed(i, j) =>
    Cardinality({k \in AllLimited \cap i .. j : done[k].passed}) <= FloodLimit
=============================================================================
