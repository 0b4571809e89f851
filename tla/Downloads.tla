------------------------------ MODULE Downloads ------------------------------
(***************************************************************************)
(* A client downloads files from the server.                               *)
(*                                                                         *)
(* The commands of the client come over the reliable channel               *)
(* (SV_ExecuteDownloadCmd).  One names a file; with its next message to    *)
(* the client the server opens the file and announces it, and sends the    *)
(* client to a web server or waits to be asked for a part of the file,     *)
(* which it then sends block by block (SV_WriteDownloadToClient).          *)
(*                                                                         *)
(* A file is as many blocks long as a number says, and a block is the      *)
(* position it was read from.  The client is not part of the repository    *)
(* and may send any command at any time, for files that may be downloaded, *)
(* and ask for any part of one: the numbers are ints of either sign, which *)
(* the server does not look at, but for where the file ends.               *)
(* Not modelled: the rate, and the gamestates that follow a download       *)
(* (ConfigData).                                                           *)
(***************************************************************************)
EXTENDS Integers, SequencesExt, FiniteSetsExt

CONSTANTS
  File,        \* the files that may be downloaded
  SizeOf,      \* their sizes; 0: cannot be read
  Active,      \* the files of this level (SV_FileStillActive)
  BlockSizes,  \* the sizes a block may have
  Redirects,   \* sv_wwwDownload and the client's own wish
  MaxInt       \* 2^31 - 1 in the code

DownloadAssumption ==
  MaxInt \in Nat /\ SizeOf \in [File -> 0 .. MaxInt] /\ BlockSizes \subseteq Nat \ {0}

None == "none"

NoHandle == [file |-> None, at |-> 0]

VARIABLES
  cl,      \* the client_t:
           \*   name      downloadName
           \*   download  the handle of the file: its name and where the next read is;
           \*             NoHandle when it is 0
           \*   size, begin, num, count, eof
           \*             downloadSize, downloadBeginOffset, downloadNumBytes,
           \*             downloadCount, downloadEOF
           \*   started, ack, failed, asked
           \*             wwwDownloadStarted, wwwDlAck, wwwDl_failed, wwwDl_var01
           \*   dropped   the client is a zombie
  open,    \* how many files are open for the client
  part     \* what was announced last: the file, and since the client asked for a part
           \* of it, from where and how much, and the blocks sent

vars == <<cl, open, part>>

\* The values of an int.
Ints == -MaxInt - 1 .. MaxInt

\* What a sum of ints is that leaves their range: the build adds with wrap-around.
AsInt(x) == ((x + MaxInt + 1) % (2 * MaxInt + 2)) - MaxInt - 1

-----------------------------------------------------------------------------
\* A slip of OpenWithout: a handle is forgotten.
OpenWithoutForgetting(c) == open

\* What FS_FCloseFile leaves open, if the handle of the client_t c is closed.
OpenWithout(c) == IF c.download = NoHandle THEN open ELSE open - 1

\* SV_CloseDownload.
Closed(c) == [c EXCEPT !.download = NoHandle, !.name = None]

\* The part of a file that was announced, before the client asks for one.
Announced(f) == [file |-> f, begin |-> 0, num |-> 0, blocks |-> << >>]

Drop ==
  /\ cl' = [Closed(cl) EXCEPT !.dropped = TRUE]
  /\ open' = OpenWithout(cl)
  /\ UNCHANGED part

-----------------------------------------------------------------------------
(* SV_WriteDownloadToClient, called for every message to the client.       *)

\* The client waits for a file that is not open yet.
Waits == ~cl.dropped /\ cl.name # None /\ ~cl.ack /\ cl.download = NoHandle

\* The file cannot be read: the client is told.  An empty file was opened all the same.
CannotOpen ==
  /\ Waits /\ SizeOf[cl.name] = 0
  /\ cl' = [Closed(cl) EXCEPT !.asked = FALSE, !.size = 0]
  /\ UNCHANGED <<open, part>>

\* The file is announced, and the client is sent to the web server (SV_WWWRedirect).
Redirect ==
  /\ Waits /\ SizeOf[cl.name] > 0 /\ Redirects /\ ~cl.failed
  /\ cl' = [cl EXCEPT !.size = SizeOf[cl.name], !.started = TRUE, !.ack = TRUE, !.asked = FALSE]
  /\ part' = Announced(cl.name)
  /\ UNCHANGED open

\* The file is announced, and the server waits for what the client wants.
Announce ==
  /\ Waits /\ SizeOf[cl.name] > 0 /\ (~Redirects \/ cl.failed)
  /\ cl' = [cl EXCEPT !.download = [file |-> cl.name, at |-> 0], !.size = SizeOf[cl.name],
                      !.begin = 0, !.num = 0, !.count = 0, !.eof = TRUE,
                      !.started = FALSE, !.failed = FALSE]
  /\ open' = open + 1
  /\ part' = Announced(cl.name)

\* What is left of the part the client asked for.
Remaining == AsInt(cl.begin + cl.num - cl.count)

\* A block says where it belongs, and holds what is read.
Block(n) == [at |-> cl.count, read |-> cl.download.at, file |-> cl.download.file, size |-> n]

\* The next block, an empty one at the end.
WriteBlock ==
  /\ ~cl.dropped /\ cl.name # None /\ ~cl.ack /\ cl.download # NoHandle /\ ~cl.eof
  /\ \E most \in BlockSizes :
       LET n == IF cl.num <= 0 \/ Remaining <= 0 THEN 0
                ELSE Min({most, Remaining, Max({0, SizeOf[cl.download.file] - cl.download.at})})
       IN  /\ part' = [part EXCEPT !.blocks = Append(@, Block(n))]
           /\ cl' = [cl EXCEPT !.count = @ + n, !.download.at = @ + n, !.eof = n = 0]
  /\ UNCHANGED open

-----------------------------------------------------------------------------
(* SV_ExecuteDownloadCmd.                                                  *)

\* SV_BeginDownloadX_f.  A file of another level is not sent.
BeginDownload(f) ==
  /\ ~cl.dropped
  /\ cl' = IF f \in Active THEN [Closed(cl) EXCEPT !.name = f, !.asked = TRUE] ELSE Closed(cl)
  /\ open' = OpenWithout(cl)
  /\ UNCHANGED part

\* The part a client gets that asks for this one: it is cut where the file ends, and may
\* begin before the file.
FromWhere(begin, num) ==
  LET from == Min({begin, cl.size})
  IN  [begin |-> from,
       num |-> IF AsInt(from + num) > cl.size THEN AsInt(cl.size - from) ELSE num]

\* A slip of Seek: the file is read on.
SeekNowhere(handle, at) == handle

\* FS_Seek.  There is no place before the file: fseek fails, and the file stays where it is.
Seek(handle, at) == IF at < 0 THEN handle ELSE [handle EXCEPT !.at = at]

\* SV_SelectDownloadBlocksX_f, for an open file.
SelectDownloadBlocks(begin, num) ==
  /\ ~cl.dropped /\ cl.download # NoHandle
  /\ LET p == FromWhere(begin, num) IN
     /\ cl' = [cl EXCEPT !.begin = p.begin, !.num = p.num, !.count = p.begin, !.eof = FALSE,
                         !.download = Seek(@, p.begin)]
     /\ part' = [part EXCEPT !.begin = begin, !.num = num, !.blocks = << >>]
  /\ UNCHANGED open

\* SV_StopDownload_f, and SV_DoneDownload_f but for the gamestate.
StopDownload ==
  /\ ~cl.dropped
  /\ cl' = [Closed(cl) EXCEPT !.asked = FALSE]
  /\ open' = OpenWithout(cl)
  /\ UNCHANGED part

\* SV_WWWDownload_Done_f, _Fail_f and _ChkFail_f; the last two send a gamestate.
WWWDownloadEnds(failed) ==
  /\ ~cl.dropped /\ cl.started /\ cl.ack
  /\ cl' = [Closed(cl) EXCEPT !.asked = FALSE, !.started = FALSE, !.ack = FALSE,
                              !.failed = @ \/ failed]
  /\ open' = OpenWithout(cl)
  /\ UNCHANGED part

\* The same if it was not sent to the web server, and SV_WWWDownload_BBL8R_f: the client
\* is dropped.
WWWDownloadDrops == ~cl.dropped /\ Drop

-----------------------------------------------------------------------------
Init ==
  /\ cl = [name |-> None, download |-> NoHandle, size |-> 0, begin |-> 0, num |-> 0, count |-> 0,
           eof |-> FALSE, started |-> FALSE, ack |-> FALSE, failed |-> FALSE, asked |-> FALSE,
           dropped |-> FALSE]
  /\ open = 0
  /\ part = Announced(None)

Next ==
  \/ CannotOpen
  \/ Redirect
  \/ Announce
  \/ WriteBlock
  \/ \E f \in File : BeginDownload(f)
  \/ \E begin, num \in Ints : SelectDownloadBlocks(begin, num)
  \/ StopDownload
  \/ \E failed \in BOOLEAN : WWWDownloadEnds(failed)
  \/ WWWDownloadDrops

Spec == Init /\ [][Next]_vars

-----------------------------------------------------------------------------
(* What must hold.                                                         *)

Client ==
  [name : File \cup {None}, download : [file : File \cup {None}, at : Nat],
   size : 0 .. MaxInt, begin : Ints, num : Ints, count : Ints, eof : BOOLEAN, started : BOOLEAN,
   ack : BOOLEAN, failed : BOOLEAN, asked : BOOLEAN, dropped : BOOLEAN]

SentPart ==
  [file : File \cup {None}, begin : Ints, num : Ints,
   blocks : Seq([at : Ints, read : Nat, file : File, size : Nat])]

\* The types of the variables: whatever the client asks for, the count of what it was sent
\* (downloadCount) stays an int.
TypeOK == cl \in Client /\ open \in Nat /\ part \in SentPart

\* However downloads are begun, stopped, redirected and begun again: the file that is
\* open is the one the client names and was told of, there is no other, and none while
\* the client is at the web server, or when it has gone.
HandleKept ==
  /\ open = IF cl.download = NoHandle THEN 0 ELSE 1
  /\ cl.download # NoHandle => cl.download.file = cl.name /\ part.file = cl.name
  /\ cl.ack \/ cl.dropped => cl.download = NoHandle

\* The sizes of the first n blocks together.
Total(blocks, n) ==
  LET total[i \in 0 .. n] == IF i = 0 THEN 0 ELSE total[i - 1] + blocks[i].size
  IN  total[n]

\* A client that has asked for a part of a file gets blocks of that file that follow each
\* other without a gap, in what they say and in what they hold, and an empty one as the last.
\* If the part does not begin before the file, it gets just that part, as far as the file
\* goes: each block holds the contents of its place, and the empty one comes only when there
\* is no more.  (If it does, the blocks bear numbers less than 0, and hold what follows the
\* place the file was at.)
PartSent ==
  LET b == part.blocks
      first == Min({part.begin, SizeOf[part.file]})
      wanted == Max({0, Min({part.num, SizeOf[part.file] - first})})
  IN  \A i \in 1 .. Len(b) :
        /\ b[i].file = part.file /\ b[i].at = first + Total(b, i - 1)
        /\ b[i].read = b[1].read + Total(b, i - 1) /\ (b[i].size = 0 => i = Len(b))
        /\ part.begin >= 0 =>
             /\ b[i].read = b[i].at /\ Total(b, i) <= wanted
             /\ (b[i].size = 0) <=> (Total(b, i - 1) = wanted)
=============================================================================
