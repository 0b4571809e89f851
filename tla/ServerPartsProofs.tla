--------------------------- MODULE ServerPartsProofs ---------------------------
(***************************************************************************)
(* Theorems about the parts of the server, for all values of their         *)
(* constants.                                                              *)
(*                                                                         *)
(* Downloads, client commands, snapshots and the limits of queries are     *)
(* proved about here.  What ConfigDataProofs and ReliableFramingProofs     *)
(* prove of their parts carries over to the parts together: the instances  *)
(* of them say what those in ServerParts say.  A step of one part is none  *)
(* of another.                                                             *)
(***************************************************************************)
EXTENDS ServerParts, NumberFacts, SequenceTheorems, FiniteSetTheorems

-----------------------------------------------------------------------------
(* Steps of a part.                                                        *)

\* The part at work does not change, and only its own steps are taken.
LEMMA OnePart ==
  ASSUME [Next]_vars
  PROVE  /\ component' = component
         /\ component = "config" => [Config!Next]_(Config!vars)
         /\ component = "downloads" => [Fetching!Next]_(Fetching!vars)
         /\ component = "commands" => [Commands!Next]_(Commands!vars)
         /\ component = "queries" => [Queries!Next]_(Queries!vars)
         /\ component = "snapshots" => [Snapshots!Next]_(Snapshots!vars)
         /\ component = "framing" => [Framing!Next]_(Framing!vars)
<1>1. CASE UNCHANGED vars
  BY <1>1 DEF vars, ends, levels, snapshotVars, configVars, queryVars, commandVars, downloadVars,
     framingVars, Config!vars, Config!serverVars, Fetching!vars, Commands!vars,
     Queries!vars, Queries!table, Snapshots!vars, Snapshots!serverVars, Framing!vars
<1>2. CASE Next
  BY <1>2 DEF Next, SnapshotStep, ConfigStep, QueryStep, CommandStep, DownloadStep, FramingStep
<1> QED BY <1>1, <1>2

-----------------------------------------------------------------------------
(* Downloads.                                                              *)

\* A client whose file is open has a name for it.
NamedWhenOpen == cl.download # Fetching!NoHandle => cl.name # Fetching!None

\* An open file is read within its size, and what the client was told of it is no further: the
\* count cannot leave the range of an int.
ReadWithin ==
  cl.download # Fetching!NoHandle =>
    cl.size = SizeOf[cl.name] /\ cl.download.at <= cl.size /\ cl.count <= cl.download.at

\* The inductive invariant.
DownloadsInv == Fetching!TypeOK /\ Fetching!HandleKept /\ NamedWhenOpen /\ ReadWithin

-----------------------------------------------------------------------------
(* The operators.                                                          *)

\* The smaller of two numbers, as FS_Read and SV_SelectDownloadBlocksX_f take it.
LEMMA MinOfTwo ==
  ASSUME NEW a \in Int, NEW b \in Int
  PROVE  Fetching!Min({a, b}) = IF a <= b THEN a ELSE b
<1>1. \E x \in {a, b} : \A y \in {a, b} : x <= y
  <2>1. CASE a <= b
    BY <2>1
  <2>2. CASE b <= a
    BY <2>2
  <2> QED BY <2>1, <2>2
<1>2. /\ Fetching!Min({a, b}) \in {a, b}
      /\ Fetching!Min({a, b}) <= a /\ Fetching!Min({a, b}) <= b
  BY <1>1 DEF Fetching!Min
<1> HIDE DEF Fetching!Min
<1> QED BY <1>2

\* The smallest of three numbers.
LEMMA MinOfThree ==
  ASSUME NEW a \in Nat, NEW b \in Nat, NEW c \in Nat
  PROVE  /\ Fetching!Min({a, b, c}) \in Nat /\ Fetching!Min({a, b, c}) \in {a, b, c}
         /\ Fetching!Min({a, b, c}) <= b
<1>1. \E x \in {a, b, c} : \A y \in {a, b, c} : x <= y
  <2>1. CASE a <= b /\ a <= c
    BY <2>1
  <2>2. CASE b <= a /\ b <= c
    BY <2>2
  <2>3. CASE c <= a /\ c <= b
    BY <2>3
  <2> QED BY <2>1, <2>2, <2>3
<1> QED BY <1>1 DEF Fetching!Min

\* A number, if it is not negative.
LEMMA MaxWithZero ==
  ASSUME NEW a \in Int
  PROVE  Fetching!Max({0, a}) = IF a >= 0 THEN a ELSE 0
<1>1. \E x \in {0, a} : \A y \in {0, a} : x >= y
  <2>1. CASE a >= 0
    BY <2>1
  <2>2. CASE 0 >= a
    BY <2>2
  <2> QED BY <2>1, <2>2
<1>2. /\ Fetching!Max({0, a}) \in {0, a}
      /\ Fetching!Max({0, a}) >= a /\ Fetching!Max({0, a}) >= 0
  BY <1>1 DEF Fetching!Max
<1> QED BY <1>2

\* A sum of ints is an int, and the sum itself if that is one.
LEMMA AsIntIs ==
  ASSUME Fetching!DownloadAssumption, NEW x \in Int
  PROVE  Fetching!AsInt(x) \in Fetching!Ints /\ (x \in Fetching!Ints => Fetching!AsInt(x) = x)
<1> DEFINE h == MaxInt + 1
           range == 2 * MaxInt + 2
           m == (x + h) % range
<1>1. MaxInt \in Nat /\ h \in Nat /\ range \in Nat \ {0} /\ range = 2 * h
  BY DEF Fetching!DownloadAssumption
<1>2. Fetching!AsInt(x) = m - MaxInt - 1
  <2>1. x + MaxInt + 1 = x + h
    BY <1>1
  <2> QED BY <2>1 DEF Fetching!AsInt
<1> HIDE DEF range
<1>3. m \in 0 .. range - 1
  BY <1>1
<1>4. ASSUME x \in Fetching!Ints PROVE m = x + h
  <2>1. x + h \in 0 .. range - 1
    BY <1>1, <1>4 DEF Fetching!Ints
  <2> HIDE DEF h
  <2> QED BY <1>1, <2>1
<1> HIDE DEF m
<1> QED BY <1>1, <1>2, <1>3, <1>4 DEF Fetching!Ints

\* The part a client gets does not begin behind the end of the file.
LEMMA FromWhereFits ==
  ASSUME Fetching!DownloadAssumption, Fetching!TypeOK,
         NEW begin \in Fetching!Ints, NEW num \in Fetching!Ints
  PROVE  /\ Fetching!FromWhere(begin, num).begin \in Fetching!Ints
         /\ Fetching!FromWhere(begin, num).num \in Fetching!Ints
         /\ Fetching!FromWhere(begin, num).begin <= cl.size
<1>1. cl.size \in Nat /\ cl.size <= MaxInt /\ MaxInt \in Nat
  BY DEF Fetching!TypeOK, Fetching!Client, Fetching!DownloadAssumption
<1> DEFINE from == Fetching!Min({begin, cl.size})
<1>2. from \in Fetching!Ints /\ from <= cl.size
  BY <1>1, MinOfTwo DEF Fetching!Ints
<1> HIDE DEF from
<1>3. Fetching!AsInt(cl.size - from) \in Fetching!Ints
  <2>1. cl.size - from \in Int
    BY <1>1, <1>2 DEF Fetching!Ints
  <2> QED BY <2>1, AsIntIs
<1>4. /\ Fetching!FromWhere(begin, num).begin = from
      /\ Fetching!FromWhere(begin, num).num \in {num, Fetching!AsInt(cl.size - from)}
  BY DEF Fetching!FromWhere, from
<1> QED BY <1>2, <1>3, <1>4

-----------------------------------------------------------------------------
(* Every step keeps the invariant.                                         *)

\* The initial state: nothing is open, nothing is named.
LEMMA DownloadsInitHolds ==
  ASSUME Fetching!DownloadAssumption, Fetching!Init PROVE DownloadsInv
<1>1. 0 \in 0 .. MaxInt /\ 0 \in Fetching!Ints
  BY DEF Fetching!DownloadAssumption, Fetching!Ints
<1> HIDE DEF Fetching!Ints
<1> QED BY <1>1 DEF Fetching!Init, DownloadsInv, Fetching!TypeOK, Fetching!Client,
     Fetching!SentPart, Fetching!HandleKept, NamedWhenOpen, ReadWithin, Fetching!NoHandle,
     Fetching!Announced

\* SV_CloseDownload leaves a client without name and handle, and all else as it was.
LEMMA ClosedHasNone ==
  ASSUME NEW c \in Fetching!Client
  PROVE  /\ Fetching!Closed(c) \in Fetching!Client
         /\ Fetching!Closed(c).download = Fetching!NoHandle /\ Fetching!Closed(c).name = Fetching!None
         /\ Fetching!Closed(c).ack = c.ack /\ Fetching!Closed(c).dropped = c.dropped
BY DEF Fetching!Closed, Fetching!Client, Fetching!NoHandle

\* Closing a download gives back the file.
LEMMA OpenWithoutIsNone ==
  ASSUME DownloadsInv PROVE Fetching!OpenWithout(cl) = 0
BY DEF DownloadsInv, Fetching!HandleKept, Fetching!OpenWithout

\* The drop of a client (SV_CloseAllClientHandles).
LEMMA DropKeeps ==
  ASSUME DownloadsInv, Fetching!Drop PROVE DownloadsInv'
<1>1. /\ Fetching!Closed(cl) \in Fetching!Client
      /\ Fetching!Closed(cl).download = Fetching!NoHandle /\ Fetching!Closed(cl).name = Fetching!None
  BY ClosedHasNone DEF DownloadsInv, Fetching!TypeOK
<1>2. cl' = [Fetching!Closed(cl) EXCEPT !.dropped = TRUE] /\ open' = 0 /\ part' = part
  BY OpenWithoutIsNone DEF Fetching!Drop
<1>3. cl' \in Fetching!Client /\ cl'.download = Fetching!NoHandle
  BY <1>1, <1>2 DEF Fetching!Client
<1> QED BY <1>2, <1>3 DEF DownloadsInv, Fetching!TypeOK, Fetching!HandleKept, NamedWhenOpen, ReadWithin

\* SV_WriteDownloadToClient, the file cannot be read.
LEMMA CannotOpenKeeps ==
  ASSUME Fetching!DownloadAssumption, DownloadsInv, Fetching!CannotOpen PROVE DownloadsInv'
<1>1. /\ Fetching!Closed(cl) \in Fetching!Client
      /\ Fetching!Closed(cl).download = Fetching!NoHandle /\ Fetching!Closed(cl).name = Fetching!None
  BY ClosedHasNone DEF DownloadsInv, Fetching!TypeOK
<1>2. cl' = [Fetching!Closed(cl) EXCEPT !.asked = FALSE, !.size = 0] /\ open' = 0 /\ part' = part
  BY DEF Fetching!CannotOpen, Fetching!Waits, DownloadsInv, Fetching!HandleKept
<1>3. cl' \in Fetching!Client /\ cl'.download = Fetching!NoHandle
  <2>1. 0 \in 0 .. MaxInt
    BY DEF Fetching!DownloadAssumption
  <2> HIDE DEF Fetching!Ints
  <2> QED BY <1>1, <1>2, <2>1 DEF Fetching!Client
<1> QED BY <1>2, <1>3 DEF DownloadsInv, Fetching!TypeOK, Fetching!HandleKept, NamedWhenOpen, ReadWithin

\* SV_WriteDownloadToClient, the client is sent to the web server.
LEMMA RedirectKeeps ==
  ASSUME Fetching!DownloadAssumption, DownloadsInv, Fetching!Redirect PROVE DownloadsInv'
<1>1. cl \in Fetching!Client /\ cl.name \in File /\ SizeOf[cl.name] \in 0 .. MaxInt
  BY DEF DownloadsInv, Fetching!TypeOK, Fetching!Client, Fetching!Redirect, Fetching!Waits,
       Fetching!DownloadAssumption
<1>2. /\ cl' = [cl EXCEPT !.size = SizeOf[cl.name], !.started = TRUE, !.ack = TRUE, !.asked = FALSE]
      /\ part' = Fetching!Announced(cl.name) /\ open' = 0 /\ cl.download = Fetching!NoHandle
  BY DEF Fetching!Redirect, Fetching!Waits, DownloadsInv, Fetching!HandleKept
<1>3. cl' \in Fetching!Client /\ cl'.download = Fetching!NoHandle
  BY <1>1, <1>2 DEF Fetching!Client
<1>4. part' \in Fetching!SentPart
  BY <1>1, <1>2 DEF Fetching!Announced, Fetching!SentPart, Fetching!Ints,
       Fetching!DownloadAssumption
<1> QED BY <1>2, <1>3, <1>4 DEF DownloadsInv, Fetching!TypeOK, Fetching!HandleKept, NamedWhenOpen, ReadWithin

\* SV_WriteDownloadToClient, the file is opened and announced.
LEMMA AnnounceKeeps ==
  ASSUME Fetching!DownloadAssumption, DownloadsInv, Fetching!Announce PROVE DownloadsInv'
<1> DEFINE handle == [file |-> cl.name, at |-> 0]
<1>1. cl \in Fetching!Client /\ cl.name \in File /\ SizeOf[cl.name] \in 0 .. MaxInt /\ cl.name # Fetching!None
  BY DEF DownloadsInv, Fetching!TypeOK, Fetching!Client, Fetching!Announce, Fetching!Waits,
       Fetching!DownloadAssumption
<1>2. /\ cl' = [cl EXCEPT !.download = handle, !.size = SizeOf[cl.name],
                          !.begin = 0, !.num = 0, !.count = 0, !.eof = TRUE,
                          !.started = FALSE, !.failed = FALSE]
      /\ part' = Fetching!Announced(cl.name) /\ open' = open + 1
  BY DEF Fetching!Announce
<1>3. open = 0 /\ ~cl.ack /\ ~cl.dropped
  BY DEF DownloadsInv, Fetching!HandleKept, Fetching!Announce, Fetching!Waits
<1>4. /\ handle \in [file : File \cup {Fetching!None}, at : Nat]
      /\ handle # Fetching!NoHandle /\ handle.file = cl.name
  BY <1>1 DEF Fetching!NoHandle
<1>5. 0 \in Fetching!Ints /\ handle.at = 0
  BY DEF Fetching!Ints, Fetching!DownloadAssumption
<1> HIDE DEF handle
<1>6. /\ cl' \in Fetching!Client /\ cl'.download = handle /\ cl'.name = cl.name
      /\ cl'.ack = cl.ack /\ cl'.dropped = cl.dropped
      /\ cl'.size = SizeOf[cl.name] /\ cl'.count = 0
  <2> HIDE DEF Fetching!Ints
  <2> QED BY <1>1, <1>2, <1>4, <1>5 DEF Fetching!Client
<1>7. part' \in Fetching!SentPart /\ part'.file = cl.name
  BY <1>1, <1>2 DEF Fetching!Announced, Fetching!SentPart, Fetching!Ints,
       Fetching!DownloadAssumption
<1> QED BY <1>1, <1>2, <1>3, <1>4, <1>5, <1>6, <1>7 DEF DownloadsInv, Fetching!TypeOK,
     Fetching!HandleKept, NamedWhenOpen, ReadWithin

\* SV_WriteDownloadToClient, a block: the position moves, the file stays.
LEMMA WriteBlockKeeps ==
  ASSUME Fetching!DownloadAssumption, DownloadsInv, Fetching!WriteBlock PROVE DownloadsInv'
<1>1. /\ cl.download.file = cl.name /\ cl.name \in File /\ cl.name # Fetching!None
      /\ cl.download # Fetching!NoHandle /\ ~cl.ack /\ ~cl.dropped
  BY DEF DownloadsInv, Fetching!TypeOK, Fetching!Client, Fetching!HandleKept, Fetching!WriteBlock
<1>2. PICK most \in BlockSizes :
        LET n == IF cl.num <= 0 \/ Fetching!Remaining <= 0 THEN 0
                 ELSE Fetching!Min({most, Fetching!Remaining,
                                    Fetching!Max({0, SizeOf[cl.download.file] - cl.download.at})})
        IN  /\ part' = [part EXCEPT !.blocks = Append(@, Fetching!Block(n))]
            /\ cl' = [cl EXCEPT !.count = @ + n, !.download.at = @ + n, !.eof = n = 0]
  BY DEF Fetching!WriteBlock
<1> DEFINE left == Fetching!Max({0, SizeOf[cl.download.file] - cl.download.at})
<1> DEFINE n == IF cl.num <= 0 \/ Fetching!Remaining <= 0 THEN 0
                ELSE Fetching!Min({most, Fetching!Remaining, left})
<1>3. /\ cl \in Fetching!Client /\ part \in Fetching!SentPart /\ MaxInt \in Nat
      /\ cl.size = SizeOf[cl.name] /\ cl.size \in 0 .. MaxInt
      /\ cl.download.at \in Nat /\ cl.download.at <= cl.size
      /\ cl.count \in Fetching!Ints /\ cl.count <= cl.download.at
  BY <1>1 DEF DownloadsInv, Fetching!TypeOK, Fetching!Client, ReadWithin, Fetching!DownloadAssumption
<1>4. n \in Nat /\ n <= cl.size - cl.download.at
  <2>1. SizeOf[cl.download.file] = cl.size /\ most \in Nat /\ cl.size - cl.download.at \in Nat
    BY <1>1, <1>3 DEF Fetching!DownloadAssumption
  <2>2. left \in Nat /\ left = cl.size - cl.download.at
    BY <2>1, MaxWithZero
  <2>3. Fetching!Remaining \in Int
    <3>1. cl.begin + cl.num - cl.count \in Int
      BY <1>3 DEF Fetching!Client, Fetching!Ints
    <3> QED BY <3>1, AsIntIs DEF Fetching!Remaining, Fetching!Ints
  <2> HIDE DEF left
  <2>4. CASE cl.num <= 0 \/ Fetching!Remaining <= 0
    BY <2>1, <2>4
  <2>5. CASE ~(cl.num <= 0 \/ Fetching!Remaining <= 0)
    <3>1. Fetching!Remaining \in Nat
      BY <1>3, <2>3, <2>5
    <3>2. /\ Fetching!Min({most, Fetching!Remaining, left}) \in Nat
          /\ Fetching!Min({most, Fetching!Remaining, left}) <= left
      BY <2>1, <2>2, <3>1, MinOfThree
    <3> QED BY <2>2, <2>5, <3>2
  <2> QED BY <2>4, <2>5
<1>5. /\ part' = [part EXCEPT !.blocks = Append(@, Fetching!Block(n))]
      /\ cl' = [cl EXCEPT !.count = @ + n, !.download.at = @ + n, !.eof = n = 0]
      /\ open' = open
  BY <1>2 DEF Fetching!WriteBlock
<1> HIDE DEF n
<1>6. Fetching!Block(n) \in [at : Fetching!Ints, read : Nat, file : File, size : Nat]
  BY <1>1, <1>3, <1>4 DEF Fetching!Block
<1> DEFINE handle == [cl.download EXCEPT !.at = @ + n]
           count == cl.count + n
<1>7. /\ handle \in [file : File \cup {Fetching!None}, at : Nat]
      /\ handle # Fetching!NoHandle /\ handle.file = cl.name /\ handle.at = cl.download.at + n
  BY <1>1, <1>4 DEF DownloadsInv, Fetching!TypeOK, Fetching!Client, Fetching!NoHandle
<1>8. count \in Fetching!Ints /\ count <= handle.at /\ handle.at <= cl.size
  <2>1. handle.at = cl.download.at + n
    BY <1>7
  <2> HIDE DEF handle
  <2> QED BY <1>3, <1>4, <2>1 DEF Fetching!Ints
<1>9. /\ cl' \in Fetching!Client /\ cl'.download = handle /\ cl'.name = cl.name
      /\ cl'.ack = cl.ack /\ cl'.dropped = cl.dropped /\ cl'.size = cl.size /\ cl'.count = count
  <2> DEFINE eof == (n = 0)
  <2>1. cl' = [cl EXCEPT !.count = count, !.download = handle, !.eof = eof]
    BY <1>3, <1>5 DEF Fetching!Client
  <2>2. eof \in BOOLEAN
    OBVIOUS
  <2> HIDE DEF handle, eof, count, Fetching!Ints
  <2> QED BY <1>3, <1>7, <1>8, <2>1, <2>2 DEF Fetching!Client
<1>10. part' \in Fetching!SentPart /\ part'.file = part.file
  <2> DEFINE block == [at : Fetching!Ints, read : Nat, file : File, size : Nat]
             blocks == Append(part.blocks, Fetching!Block(n))
  <2>1. part.blocks \in Seq(block) /\ Fetching!Block(n) \in block
    BY <1>3, <1>6 DEF Fetching!SentPart
  <2> HIDE DEF block
  <2>2. blocks \in Seq(block)
    BY <2>1
  <2>3. part' = [part EXCEPT !.blocks = blocks]
    BY <1>3, <1>5 DEF Fetching!SentPart
  <2> HIDE DEF blocks
  <2> QED BY <1>3, <2>2, <2>3 DEF Fetching!SentPart, block
<1> HIDE DEF handle, count
<1>11. open = 1 /\ part.file = cl.name
  BY <1>1 DEF DownloadsInv, Fetching!HandleKept
<1> QED BY <1>1, <1>3, <1>5, <1>7, <1>8, <1>9, <1>10, <1>11 DEF DownloadsInv, Fetching!TypeOK,
     Fetching!HandleKept, NamedWhenOpen, ReadWithin

\* SV_BeginDownloadX_f.
LEMMA BeginDownloadKeeps ==
  ASSUME DownloadsInv, NEW f \in File, Fetching!BeginDownload(f) PROVE DownloadsInv'
<1>1. /\ Fetching!Closed(cl) \in Fetching!Client
      /\ Fetching!Closed(cl).download = Fetching!NoHandle /\ Fetching!Closed(cl).name = Fetching!None
  BY ClosedHasNone DEF DownloadsInv, Fetching!TypeOK
<1>2. /\ cl' = (IF f \in Active THEN [Fetching!Closed(cl) EXCEPT !.name = f, !.asked = TRUE]
               ELSE Fetching!Closed(cl))
      /\ open' = 0 /\ part' = part
  BY OpenWithoutIsNone DEF Fetching!BeginDownload
<1>3. cl' \in Fetching!Client /\ cl'.download = Fetching!NoHandle
  BY <1>1, <1>2 DEF Fetching!Client
<1> QED BY <1>2, <1>3 DEF DownloadsInv, Fetching!TypeOK, Fetching!HandleKept, NamedWhenOpen, ReadWithin

\* SV_SelectDownloadBlocksX_f: the position is set, the file stays.
LEMMA SelectDownloadBlocksKeeps ==
  ASSUME Fetching!DownloadAssumption, DownloadsInv,
         NEW begin \in Fetching!Ints, NEW num \in Fetching!Ints,
         Fetching!SelectDownloadBlocks(begin, num)
  PROVE  DownloadsInv'
<1> DEFINE p == Fetching!FromWhere(begin, num)
           handle == Fetching!Seek(cl.download, p.begin)
<1>1. /\ cl \in Fetching!Client /\ part \in Fetching!SentPart /\ cl.download # Fetching!NoHandle
      /\ cl.download.file = cl.name /\ cl.name # Fetching!None /\ part.file = cl.name
      /\ open = 1 /\ ~cl.ack /\ ~cl.dropped
      /\ cl.size = SizeOf[cl.name] /\ cl.download.at <= cl.size /\ cl.download.at \in Nat
  BY DEF Fetching!SelectDownloadBlocks, DownloadsInv, Fetching!TypeOK, Fetching!Client,
       Fetching!HandleKept, NamedWhenOpen, ReadWithin
<1>2. p.begin \in Fetching!Ints /\ p.num \in Fetching!Ints /\ p.begin <= cl.size
  BY FromWhereFits DEF DownloadsInv
<1>3. /\ cl' = [cl EXCEPT !.begin = p.begin, !.num = p.num, !.count = p.begin, !.eof = FALSE,
                          !.download = handle]
      /\ part' = [part EXCEPT !.begin = begin, !.num = num, !.blocks = << >>]
      /\ open' = open
  BY <1>1 DEF Fetching!SelectDownloadBlocks, Fetching!Client
<1> HIDE DEF p
<1>4. /\ handle \in [file : File \cup {Fetching!None}, at : Nat]
      /\ handle # Fetching!NoHandle /\ handle.file = cl.name
      /\ p.begin <= handle.at /\ handle.at <= cl.size
  <2>1. cl.download \in [file : File \cup {Fetching!None}, at : Nat] /\ p.begin \in Int
    BY <1>1, <1>2 DEF Fetching!Client, Fetching!Ints, Fetching!DownloadAssumption
  <2>2. CASE p.begin < 0
    BY <1>1, <2>1, <2>2 DEF Fetching!Seek
  <2>3. CASE p.begin >= 0
    <3>1. handle = [cl.download EXCEPT !.at = p.begin]
      BY <2>1, <2>3 DEF Fetching!Seek
    <3> HIDE DEF handle
    <3>2. handle.at = p.begin /\ handle.file = cl.name
      BY <1>1, <2>1, <3>1
    <3> QED BY <1>1, <1>2, <2>1, <2>3, <3>1, <3>2 DEF Fetching!NoHandle
  <2> QED BY <2>1, <2>2, <2>3
<1> HIDE DEF handle
<1>5. /\ cl' \in Fetching!Client /\ cl'.download = handle /\ cl'.name = cl.name
      /\ cl'.ack = cl.ack /\ cl'.dropped = cl.dropped /\ cl'.size = cl.size /\ cl'.count = p.begin
  <2> HIDE DEF Fetching!Ints
  <2> QED BY <1>1, <1>2, <1>3, <1>4 DEF Fetching!Client
<1>6. part' \in Fetching!SentPart /\ part'.file = part.file
  <2> DEFINE blocks == << >>
  <2>1. blocks \in Seq([at : Fetching!Ints, read : Nat, file : File, size : Nat])
    OBVIOUS
  <2>2. part' = [part EXCEPT !.begin = begin, !.num = num, !.blocks = blocks]
    BY <1>3
  <2> HIDE DEF blocks, Fetching!Ints
  <2> QED BY <1>1, <2>1, <2>2 DEF Fetching!SentPart
<1> QED BY <1>1, <1>3, <1>4, <1>5, <1>6 DEF DownloadsInv, Fetching!TypeOK, Fetching!HandleKept,
     NamedWhenOpen, ReadWithin

\* SV_StopDownload_f, SV_DoneDownload_f.
LEMMA StopDownloadKeeps ==
  ASSUME DownloadsInv, Fetching!StopDownload PROVE DownloadsInv'
<1>1. /\ Fetching!Closed(cl) \in Fetching!Client
      /\ Fetching!Closed(cl).download = Fetching!NoHandle /\ Fetching!Closed(cl).name = Fetching!None
  BY ClosedHasNone DEF DownloadsInv, Fetching!TypeOK
<1>2. cl' = [Fetching!Closed(cl) EXCEPT !.asked = FALSE] /\ open' = 0 /\ part' = part
  BY OpenWithoutIsNone DEF Fetching!StopDownload
<1>3. cl' \in Fetching!Client /\ cl'.download = Fetching!NoHandle
  BY <1>1, <1>2 DEF Fetching!Client
<1> QED BY <1>2, <1>3 DEF DownloadsInv, Fetching!TypeOK, Fetching!HandleKept, NamedWhenOpen, ReadWithin

\* SV_WWWDownload_Done_f, _Fail_f and _ChkFail_f.
LEMMA WWWDownloadEndsKeeps ==
  ASSUME DownloadsInv, NEW failed \in BOOLEAN, Fetching!WWWDownloadEnds(failed) PROVE DownloadsInv'
<1>1. /\ Fetching!Closed(cl) \in Fetching!Client
      /\ Fetching!Closed(cl).download = Fetching!NoHandle /\ Fetching!Closed(cl).name = Fetching!None
  BY ClosedHasNone DEF DownloadsInv, Fetching!TypeOK
<1>2. cl' = [Fetching!Closed(cl) EXCEPT !.asked = FALSE, !.started = FALSE, !.ack = FALSE,
                                 !.failed = @ \/ failed] /\ open' = 0 /\ part' = part
  BY OpenWithoutIsNone DEF Fetching!WWWDownloadEnds
<1>3. cl' \in Fetching!Client /\ cl'.download = Fetching!NoHandle
  BY <1>1, <1>2 DEF Fetching!Client
<1> QED BY <1>2, <1>3 DEF DownloadsInv, Fetching!TypeOK, Fetching!HandleKept, NamedWhenOpen, ReadWithin

\* Every step, and a stutter.
LEMMA DownloadsNextKeeps ==
  ASSUME Fetching!DownloadAssumption, DownloadsInv, [Fetching!Next]_(Fetching!vars) PROVE DownloadsInv'
<1>1. CASE Fetching!CannotOpen
  BY <1>1, CannotOpenKeeps
<1>2. CASE Fetching!Redirect
  BY <1>2, RedirectKeeps
<1>3. CASE Fetching!Announce
  BY <1>3, AnnounceKeeps
<1>4. CASE Fetching!WriteBlock
  BY <1>4, WriteBlockKeeps
<1>5. CASE \E f \in File : Fetching!BeginDownload(f)
  BY <1>5, BeginDownloadKeeps
<1>6. CASE \E begin, num \in Fetching!Ints : Fetching!SelectDownloadBlocks(begin, num)
  BY <1>6, SelectDownloadBlocksKeeps
<1>7. CASE Fetching!StopDownload
  BY <1>7, StopDownloadKeeps
<1>8. CASE \E failed \in BOOLEAN : Fetching!WWWDownloadEnds(failed)
  BY <1>8, WWWDownloadEndsKeeps
<1>9. CASE Fetching!WWWDownloadDrops
  BY <1>9, DropKeeps DEF Fetching!WWWDownloadDrops
<1>10. CASE UNCHANGED Fetching!vars
  BY <1>10 DEF Fetching!vars, DownloadsInv, Fetching!TypeOK, Fetching!HandleKept, NamedWhenOpen, ReadWithin
<1> QED BY <1>1, <1>2, <1>3, <1>4, <1>5, <1>6, <1>7, <1>8, <1>9, <1>10 DEF Fetching!Next

-----------------------------------------------------------------------------
(* The sizes of the blocks together.                                       *)

\* g holds the sums of the sizes of the first blocks of b, up to n.
SizeSums(b, n, g) == g = [i \in 0 .. n |-> IF i = 0 THEN 0 ELSE g[i - 1] + b[i].size]

\* There are such sums.
LEMMA SumsExist ==
  ASSUME NEW b, NEW n \in Nat
  PROVE  \E g : SizeSums(b, n, g)
<1> DEFINE Done == {m \in 0 .. n : \E g : SizeSums(b, m, g)}
<1>1. 0 \in Done
  <2>1. SizeSums(b, 0, [i \in 0 .. 0 |-> 0])
    BY DEF SizeSums
  <2>2. 0 \in 0 .. n
    OBVIOUS
  <2> QED BY <2>1, <2>2, Zenon
<1>2. ASSUME NEW m \in 1 .. n, m - 1 \in Done PROVE m \in Done
  <2>1. PICK g : SizeSums(b, m - 1, g)
    BY <1>2
  <2> DEFINE h == [i \in 0 .. m |-> IF i = m THEN g[i - 1] + b[i].size ELSE g[i]]
  <2>2. ASSUME NEW i \in 0 .. m
        PROVE  h[i] = IF i = 0 THEN 0 ELSE h[i - 1] + b[i].size
    <3>1. CASE i = 0
      BY <3>1, <2>1 DEF SizeSums
    <3>2. CASE i # 0
      <4>1. i - 1 \in 0 .. m - 1 /\ i - 1 # m /\ i - 1 \in 0 .. m
        BY <3>2
      <4>2. h[i - 1] = g[i - 1]
        BY <4>1
      <4>3. CASE i = m
        BY <4>2, <4>3, <3>2
      <4>4. CASE i # m
        <5>1. i \in 0 .. m - 1
          BY <4>4
        <5>2. g[i] = g[i - 1] + b[i].size
          BY <5>1, <2>1, <3>2 DEF SizeSums
        <5> QED BY <5>2, <4>2, <4>4, <3>2
      <4> QED BY <4>3, <4>4
    <3> QED BY <3>1, <3>2
  <2>3. h = [i \in 0 .. m |-> h[i]]
    OBVIOUS
  <2> HIDE DEF h
  <2>4. SizeSums(b, m, h)
    BY <2>2, <2>3 DEF SizeSums
  <2> QED BY <2>4
<1>3. n \in 0 .. n
  OBVIOUS
<1>4. 0 .. n \subseteq Done
  <2> HIDE DEF Done
  <2> QED BY <1>1, <1>2, UpTo
<1> QED BY <1>3, <1>4, Zenon

\* And they are the same for the same blocks.
LEMMA SumsAgree ==
  ASSUME NEW b, NEW n \in Nat, NEW g, SizeSums(b, n, g), NEW c, NEW m \in Nat, NEW h, SizeSums(c, m, h)
  PROVE  \A k \in Nat : k <= n /\ k <= m /\ (\A i \in 1 .. k : b[i] = c[i]) => g[k] = h[k]
<1> SUFFICES ASSUME NEW k \in Nat, k <= n, k <= m, \A i \in 1 .. k : b[i] = c[i]
             PROVE  g[k] = h[k]
  OBVIOUS
<1> DEFINE Same == {i \in 0 .. k : g[i] = h[i]}
<1>1. 0 \in Same
  <2>1. 0 \in 0 .. k /\ 0 \in 0 .. n /\ 0 \in 0 .. m
    OBVIOUS
  <2> QED BY <2>1 DEF SizeSums
<1>2. ASSUME NEW i \in 1 .. k, i - 1 \in Same PROVE i \in Same
  <2>1. i \in 0 .. k /\ i \in 0 .. n /\ i \in 0 .. m /\ i # 0
    OBVIOUS
  <2>2. g[i] = g[i - 1] + b[i].size /\ h[i] = h[i - 1] + c[i].size
    BY <2>1 DEF SizeSums
  <2> QED BY <1>2, <2>1, <2>2
<1>3. k \in 0 .. k
  OBVIOUS
<1>4. 0 .. k \subseteq Same
  <2> HIDE DEF Same
  <2> QED BY <1>1, <1>2, UpTo
<1> QED BY <1>3, <1>4

\* Total is the last of these sums.
LEMMA TotalIsSum ==
  ASSUME NEW b, NEW n \in Nat
  PROVE  \E g : SizeSums(b, n, g) /\ Fetching!Total(b, n) = g[n]
<1> DEFINE g == CHOOSE f : SizeSums(b, n, f)
<1>1. SizeSums(b, n, g)
  BY SumsExist
<1>2. Fetching!Total(b, n) = g[n]
  BY DEF Fetching!Total, SizeSums
<1> QED BY <1>1, <1>2

\* Nothing sent yet is nothing; the same blocks have the same total; a block more adds its size.
LEMMA TotalFacts ==
  ASSUME NEW b
  PROVE  /\ Fetching!Total(b, 0) = 0
         /\ \A n \in Nat : Fetching!Total(b, n + 1) = Fetching!Total(b, n) + b[n + 1].size
         /\ \A c : \A n \in Nat :
              (\A i \in 1 .. n : b[i] = c[i]) => Fetching!Total(b, n) = Fetching!Total(c, n)
<1>1. Fetching!Total(b, 0) = 0
  <2>1. PICK g : SizeSums(b, 0, g) /\ Fetching!Total(b, 0) = g[0]
    BY TotalIsSum
  <2> QED BY <2>1 DEF SizeSums
<1>2. ASSUME NEW n \in Nat PROVE Fetching!Total(b, n + 1) = Fetching!Total(b, n) + b[n + 1].size
  <2>1. PICK g : SizeSums(b, n + 1, g) /\ Fetching!Total(b, n + 1) = g[n + 1]
    BY TotalIsSum
  <2>2. PICK h : SizeSums(b, n, h) /\ Fetching!Total(b, n) = h[n]
    BY TotalIsSum
  <2>3. g[n] = h[n]
    BY <2>1, <2>2, SumsAgree
  <2>4. g[n + 1] = g[n] + b[n + 1].size
    <3>1. n + 1 \in 0 .. n + 1 /\ n + 1 # 0 /\ (n + 1) - 1 = n
      OBVIOUS
    <3> QED BY <2>1, <3>1 DEF SizeSums
  <2> QED BY <2>1, <2>2, <2>3, <2>4
<1>3. ASSUME NEW c, NEW n \in Nat, \A i \in 1 .. n : b[i] = c[i]
      PROVE  Fetching!Total(b, n) = Fetching!Total(c, n)
  <2>1. PICK g : SizeSums(b, n, g) /\ Fetching!Total(b, n) = g[n]
    BY TotalIsSum
  <2>2. PICK h : SizeSums(c, n, h) /\ Fetching!Total(c, n) = h[n]
    BY TotalIsSum
  <2>3. n <= n /\ \A i \in 1 .. n : b[i] = c[i]
    BY <1>3
  <2>4. \A k \in Nat : k <= n /\ k <= n /\ (\A i \in 1 .. k : b[i] = c[i]) => g[k] = h[k]
    BY <2>1, <2>2, SumsAgree
  <2>5. g[n] = h[n]
    BY ONLY n \in Nat, <2>3, <2>4
  <2> QED BY <2>1, <2>2, <2>5
<1> QED BY <1>1, <1>2, <1>3

-----------------------------------------------------------------------------
(* The part a client is sent.                                              *)

\* Where the part begins that was asked for in p; how much of it there is, if it is n long; and
\* how much of it is wanted.
First(p) == Fetching!Min({p.begin, SizeOf[p.file]})
Within(n, p) == Fetching!Max({0, Fetching!Min({n, SizeOf[p.file] - First(p)})})
Wanted(p) == Within(p.num, p)

\* PartSent, for any p.
SentAsAsked(p) ==
  \A i \in 1 .. Len(p.blocks) :
    /\ p.blocks[i].file = p.file /\ p.blocks[i].at = First(p) + Fetching!Total(p.blocks, i - 1)
    /\ p.blocks[i].read = p.blocks[1].read + Fetching!Total(p.blocks, i - 1)
    /\ p.blocks[i].size = 0 => i = Len(p.blocks)
    /\ p.begin >= 0 =>
         /\ p.blocks[i].read = p.blocks[i].at /\ Fetching!Total(p.blocks, i) <= Wanted(p)
         /\ (p.blocks[i].size = 0) <=> (Fetching!Total(p.blocks, i - 1) = Wanted(p))

\* The last block of p is not sent yet.
NoneEmpty(p) == \A i \in 1 .. Len(p.blocks) : p.blocks[i].size # 0

\* The blocks of p together.
Sent(p) == Fetching!Total(p.blocks, Len(p.blocks))

\* The client_t c has the place where the blocks of p end, and its file is read on behind the
\* last.
Follow(c, p) ==
  /\ c.begin = First(p) /\ c.count = First(p) + Sent(p) /\ Sent(p) \in Nat
  /\ Len(p.blocks) > 0 => c.download.at = p.blocks[1].read + Sent(p)
  /\ NoneEmpty(p)

\* As long as there are blocks to send they follow each other, and if the part does not begin
\* before the file, the file is read at the place the client is told, and there is as much left
\* of the part as is wanted.
Streams(c, p) ==
  c.download # Fetching!NoHandle =>
    /\ p.file \in File /\ c.size = SizeOf[p.file]
    /\ ~c.eof =>
         /\ Follow(c, p)
         /\ p.begin >= 0 =>
              c.download.at = c.count /\ Within(c.num, p) = Wanted(p) /\ Sent(p) <= Wanted(p)

\* What the steps keep besides DownloadsInv.
PartInv == SentAsAsked(part) /\ Streams(cl, part)

\* A step, seen from after it.
LEMMA PartAfter == ASSUME SentAsAsked(part'), Streams(cl', part') PROVE PartInv'
BY DEF PartInv, SentAsAsked, Streams, Follow, Sent, NoneEmpty

\* PartSent says it of the part announced last.
LEMMA PartIsSent == ASSUME PartInv PROVE Fetching!PartSent
BY DEF PartInv, SentAsAsked, First, Wanted, Within, Fetching!PartSent

\* A part within its file: how much there is of it, if it is n long and does not begin before the
\* file.
LEMMA PartFits ==
  ASSUME Fetching!DownloadAssumption, NEW p \in Fetching!SentPart, p.file \in File
  PROVE  /\ SizeOf[p.file] \in 0 .. MaxInt /\ MaxInt \in Nat
         /\ First(p) \in Fetching!Ints /\ First(p) <= SizeOf[p.file]
         /\ First(p) = IF p.begin <= SizeOf[p.file] THEN p.begin ELSE SizeOf[p.file]
         /\ \A n \in Fetching!Ints :
              LET rest == SizeOf[p.file] - First(p)
              IN  p.begin >= 0 =>
                    /\ rest \in 0 .. MaxInt /\ Within(n, p) \in Nat
                    /\ Within(n, p) = IF n <= 0 THEN 0 ELSE IF n <= rest THEN n ELSE rest
<1>1. SizeOf[p.file] \in 0 .. MaxInt /\ MaxInt \in Nat /\ p.begin \in Fetching!Ints
  BY DEF Fetching!DownloadAssumption, Fetching!SentPart
<1>2. First(p) = IF p.begin <= SizeOf[p.file] THEN p.begin ELSE SizeOf[p.file]
  <2>1. SizeOf[p.file] \in Int /\ p.begin \in Int
    BY <1>1 DEF Fetching!Ints
  <2> QED BY <2>1, MinOfTwo DEF First
<1>3. First(p) \in Fetching!Ints /\ First(p) <= SizeOf[p.file]
  BY <1>1, <1>2 DEF Fetching!Ints
<1>4. ASSUME NEW n \in Fetching!Ints, p.begin >= 0
      PROVE  LET rest == SizeOf[p.file] - First(p)
             IN  /\ rest \in 0 .. MaxInt /\ Within(n, p) \in Nat
                 /\ Within(n, p) = IF n <= 0 THEN 0 ELSE IF n <= rest THEN n ELSE rest
  <2> DEFINE rest == SizeOf[p.file] - First(p)
             least == Fetching!Min({n, rest})
  <2>1. rest \in 0 .. MaxInt
    BY <1>1, <1>2, <1>4 DEF Fetching!Ints
  <2>2. Within(n, p) = Fetching!Max({0, least})
    BY DEF Within
  <2> HIDE DEF rest
  <2>3. n \in Int /\ rest \in Int
    BY <1>1, <2>1 DEF Fetching!Ints
  <2>4. least = IF n <= rest THEN n ELSE rest
    BY <2>3, MinOfTwo
  <2> HIDE DEF least
  <2>5. least \in Int
    BY <2>3, <2>4
  <2>6. Within(n, p) = IF least >= 0 THEN least ELSE 0
    BY <2>2, <2>5, MaxWithZero
  <2>7. Within(n, p) \in Nat /\ Within(n, p) = IF n <= 0 THEN 0 ELSE IF n <= rest THEN n ELSE rest
    BY <1>1, <2>1, <2>3, <2>4, <2>6
  <2> QED BY <2>1, <2>7 DEF rest
<1> QED BY <1>1, <1>2, <1>3, <1>4

\* A step after which no file is open sends nothing.
LEMMA NothingSent ==
  ASSUME PartInv, part' = part, cl'.download = Fetching!NoHandle
  PROVE  PartInv'
<1>1. SentAsAsked(part') /\ Streams(cl', part')
  BY DEF PartInv, Streams
<1> QED BY <1>1, PartAfter

\* The file is announced: nothing is sent of it yet.
LEMMA AnnouncedSent ==
  ASSUME Fetching!DownloadAssumption, DownloadsInv, Fetching!Redirect \/ Fetching!Announce
  PROVE  PartInv'
<1>1. cl \in Fetching!Client /\ cl.name \in File
  BY DEF DownloadsInv, Fetching!TypeOK, Fetching!Client, Fetching!Announce, Fetching!Redirect,
       Fetching!Waits
<1>2. part'.blocks = << >> /\ part'.file = cl.name
  BY DEF Fetching!Announce, Fetching!Redirect, Fetching!Announced
<1>3. SentAsAsked(part')
  <2>1. Len(part'.blocks) = 0
    BY <1>2
  <2> QED BY <2>1 DEF SentAsAsked
<1>4. Streams(cl', part')
  <2>1. CASE Fetching!Redirect
    <3>1. cl'.download = cl.download /\ cl.download = Fetching!NoHandle
      BY <2>1, <1>1 DEF Fetching!Redirect, Fetching!Waits, Fetching!Client
    <3> QED BY <3>1 DEF Streams
  <2>2. CASE Fetching!Announce
    <3>1. cl'.size = SizeOf[cl.name] /\ cl'.eof = TRUE
      BY <2>2, <1>1 DEF Fetching!Announce, Fetching!Client
    <3> QED BY <3>1, <1>1, <1>2 DEF Streams
  <2> QED BY <2>1, <2>2
<1> QED BY <1>3, <1>4, PartAfter

\* The client asks for a part: it begins where PartSent says, and as much of it is wanted.
LEMMA SelectedSent ==
  ASSUME Fetching!DownloadAssumption, DownloadsInv, PartInv,
         NEW begin \in Fetching!Ints, NEW num \in Fetching!Ints,
         Fetching!SelectDownloadBlocks(begin, num)
  PROVE  PartInv'
<1> DEFINE q == [part EXCEPT !.begin = begin, !.num = num, !.blocks = << >>]
           p == Fetching!FromWhere(begin, num)
           handle == Fetching!Seek(cl.download, p.begin)
<1>1. part \in Fetching!SentPart /\ cl \in Fetching!Client /\ cl.download # Fetching!NoHandle
  BY DEF DownloadsInv, Fetching!TypeOK, Fetching!SelectDownloadBlocks
<1>2. /\ part' = q
      /\ cl' = [cl EXCEPT !.begin = p.begin, !.num = p.num, !.count = p.begin, !.eof = FALSE,
                          !.download = handle]
  BY <1>1 DEF Fetching!SelectDownloadBlocks, Fetching!Client
<1>3. q.file = part.file /\ q.begin = begin /\ q.num = num /\ q.blocks = << >>
  BY <1>1 DEF Fetching!SentPart
<1>4. part.file \in File /\ cl.size = SizeOf[part.file]
  BY <1>1 DEF PartInv, Streams
<1>5. q \in Fetching!SentPart
  <2> DEFINE blocks == << >>
  <2>1. blocks \in Seq([at : Fetching!Ints, read : Nat, file : File, size : Nat])
    OBVIOUS
  <2>2. q = [part EXCEPT !.begin = begin, !.num = num, !.blocks = blocks]
    BY DEF q
  <2> HIDE DEF blocks, q, Fetching!Ints
  <2> QED BY <1>1, <2>1, <2>2 DEF Fetching!SentPart
<1> HIDE DEF q
<1>6. p.begin = First(q)
  BY <1>3, <1>4 DEF Fetching!FromWhere, First
<1>7. /\ cl.size \in 0 .. MaxInt /\ MaxInt \in Nat
      /\ First(q) \in Fetching!Ints /\ First(q) <= cl.size
      /\ begin >= 0 => First(q) >= 0 /\ cl.size - First(q) \in 0 .. MaxInt
  <2>1. /\ cl.size \in 0 .. MaxInt /\ MaxInt \in Nat
        /\ First(q) \in Fetching!Ints /\ First(q) <= cl.size
        /\ First(q) = IF begin <= cl.size THEN begin ELSE cl.size
    BY <1>3, <1>4, <1>5, PartFits
  <2> QED BY <2>1 DEF Fetching!Ints
<1>8. ASSUME begin >= 0 PROVE Within(p.num, q) = Wanted(q)
  <2> DEFINE rest == cl.size - First(q)
  <2>1. rest \in 0 .. MaxInt /\ First(q) \in 0 .. MaxInt /\ rest + First(q) <= MaxInt
    BY <1>7, <1>8 DEF Fetching!Ints
  <2>2. \A n \in Fetching!Ints : Within(n, q) = IF n <= 0 THEN 0 ELSE IF n <= rest THEN n ELSE rest
    BY <1>3, <1>4, <1>5, <1>8, PartFits
  <2>3. p.num = IF Fetching!AsInt(First(q) + num) > cl.size THEN Fetching!AsInt(rest) ELSE num
    BY <1>6 DEF Fetching!FromWhere
  <2>4. cl.size = rest + First(q)
    BY <1>7 DEF Fetching!Ints
  <2> HIDE DEF rest, p
  <2>5. Fetching!AsInt(rest) = rest /\ rest \in Fetching!Ints
    BY <1>7, <2>1, AsIntIs DEF Fetching!Ints
  <2>6. CASE p.num = num
    BY <1>3, <2>6 DEF Wanted
  <2>7. CASE p.num # num
    <3>1. p.num = rest /\ Fetching!AsInt(First(q) + num) > cl.size
      BY <2>3, <2>5, <2>7
    <3>2. num > rest
      <4>1. CASE First(q) + num \in Fetching!Ints
        <5>1. First(q) + num > cl.size
          BY <3>1, <4>1, AsIntIs DEF Fetching!Ints
        <5> QED BY <2>1, <2>4, <5>1 DEF Fetching!Ints
      <4>2. CASE First(q) + num \notin Fetching!Ints
        BY <1>7, <2>1, <4>2 DEF Fetching!Ints
      <4> QED BY <4>1, <4>2
    <3>3. Within(rest, q) = rest /\ Within(num, q) = rest
      BY <1>7, <2>1, <2>2, <2>5, <3>2 DEF Fetching!Ints
    <3> QED BY <1>3, <3>1, <3>3 DEF Wanted
  <2> QED BY <2>6, <2>7
<1>9. begin >= 0 => handle.at = p.begin
  <2>1. cl.download \in [file : File \cup {Fetching!None}, at : Nat] /\ p.begin \in Int
    BY <1>1, <1>6, <1>7 DEF Fetching!Client, Fetching!Ints
  <2>2. ASSUME begin >= 0 PROVE ~(p.begin < 0)
    BY <1>6, <1>7, <2>2 DEF Fetching!Ints
  <2> HIDE DEF p
  <2> QED BY <2>1, <2>2 DEF Fetching!Seek
<1> HIDE DEF p, handle
<1>10. /\ cl'.size = cl.size /\ cl'.begin = p.begin /\ cl'.num = p.num /\ cl'.count = p.begin
       /\ cl'.download = handle
  BY <1>1, <1>2 DEF Fetching!Client
<1>11. Len(q.blocks) = 0 /\ Sent(q) = 0
  BY <1>3, TotalFacts DEF Sent
<1>12. SentAsAsked(q)
  BY <1>11 DEF SentAsAsked
<1>13. begin >= 0 => Wanted(q) \in Nat
  BY <1>3, <1>4, <1>5, PartFits DEF Wanted
<1>14. Follow(cl', q)
  BY <1>6, <1>7, <1>10, <1>11 DEF Follow, NoneEmpty, Fetching!Ints
<1>15. Streams(cl', q)
  <2>1. begin >= 0 => /\ cl'.download.at = cl'.count /\ Within(cl'.num, q) = Wanted(q)
                      /\ Sent(q) <= Wanted(q)
    BY <1>8, <1>9, <1>10, <1>11, <1>13
  <2> QED BY <1>3, <1>4, <1>10, <1>14, <2>1 DEF Streams
<1> QED BY <1>2, <1>12, <1>15, PartAfter

\* The next block, if there is a rest of the part: it is empty at the end of the file only.
LEMMA BlockFits ==
  ASSUME NEW most \in Nat \ {0}, NEW rest \in Nat \ {0}, NEW left \in Nat
  PROVE  LET n == Fetching!Min({most, rest, left})
         IN  n \in 0 .. left /\ n <= rest /\ (n = 0 <=> left = 0)
<1> DEFINE n == Fetching!Min({most, rest, left})
<1>1. n \in Nat /\ n \in {most, rest, left} /\ n <= rest /\ n <= left
  BY MinOfThree
<1> HIDE DEF n
<1>2. n \in 0 .. left /\ n <= rest /\ (n = 0 <=> left = 0)
  BY <1>1
<1> QED BY <1>2 DEF n

\* e is the next block of p, and q is p with it.
Follows(p, e, q) ==
  /\ e \in [at : Fetching!Ints, read : Nat, file : File, size : Nat]
  /\ e.at = First(p) + Sent(p) /\ e.file = p.file
  /\ Len(p.blocks) > 0 => e.read = p.blocks[1].read + Sent(p)
  /\ p.begin >= 0 =>
       e.read = e.at /\ (e.size = 0 <=> Sent(p) = Wanted(p)) /\ Sent(p) + e.size <= Wanted(p)
  /\ q.blocks = Append(p.blocks, e) /\ q.file = p.file /\ q.begin = p.begin /\ q.num = p.num

\* A block more of a part.
LEMMA OneBlockMore ==
  ASSUME NEW p \in Fetching!SentPart, SentAsAsked(p), NoneEmpty(p), NEW e, NEW q, Follows(p, e, q)
  PROVE  /\ SentAsAsked(q)
         /\ First(q) = First(p) /\ Wanted(q) = Wanted(p) /\ \A n : Within(n, q) = Within(n, p)
         /\ Sent(q) = Sent(p) + e.size /\ Len(q.blocks) > 0
         /\ q.blocks[1] = IF Len(p.blocks) > 0 THEN p.blocks[1] ELSE e
         /\ e.size # 0 => NoneEmpty(q)
<1> DEFINE b == p.blocks
           c == q.blocks
           L == Len(p.blocks)
           block == [at : Fetching!Ints, read : Nat, file : File, size : Nat]
<1>1. b \in Seq(block) /\ L \in Nat /\ e \in block
  BY LenProperties DEF Fetching!SentPart, Follows
<1>2. Len(c) = L + 1 /\ c[L + 1] = e /\ \A i \in 1 .. L : c[i] = b[i]
  <2>1. c = Append(b, e)
    BY DEF Follows
  <2> HIDE DEF block, c
  <2> QED BY <1>1, <2>1, AppendProperties
<1>3. /\ First(q) = First(p) /\ Wanted(q) = Wanted(p) /\ \A n : Within(n, q) = Within(n, p)
      /\ q.file = p.file /\ q.begin = p.begin
  BY DEF First, Wanted, Within, Follows
<1>4. \A i \in 0 .. L : Fetching!Total(c, i) = Fetching!Total(b, i)
  <2>1. ASSUME NEW i \in 0 .. L PROVE Fetching!Total(c, i) = Fetching!Total(b, i)
    <3>1. i \in Nat /\ \A k \in 1 .. i : c[k] = b[k]
      BY <1>1, <1>2
    <3> HIDE DEF b, c, L
    <3>2. \A d : \A k \in Nat : (\A j \in 1 .. k : c[j] = d[j]) => Fetching!Total(c, k) = Fetching!Total(d, k)
      BY TotalFacts
    <3>3. \A k \in Nat : (\A j \in 1 .. k : c[j] = b[j]) => Fetching!Total(c, k) = Fetching!Total(b, k)
      BY ONLY <3>2
    <3> QED BY ONLY <3>1, <3>3
  <2> QED BY <2>1
<1>5. Fetching!Total(c, L + 1) = Fetching!Total(b, L) + e.size
  <2>1. Fetching!Total(c, L + 1) = Fetching!Total(c, L) + c[L + 1].size
    <3> HIDE DEF c, L
    <3> QED BY <1>1, TotalFacts
  <2>2. L \in 0 .. L
    BY <1>1
  <2> QED BY <2>1, <2>2, <1>2, <1>4
<1>6. c[1] = (IF L > 0 THEN b[1] ELSE e) /\ (L = 0 => Fetching!Total(c, L) = 0)
  <2>1. L = 0 => Fetching!Total(c, L) = 0
    BY TotalFacts
  <2> QED BY <1>1, <1>2, <2>1
<1>7. ASSUME NEW i \in 1 .. L
      PROVE  /\ c[i].file = q.file /\ c[i].at = First(q) + Fetching!Total(c, i - 1)
             /\ c[i].read = c[1].read + Fetching!Total(c, i - 1) /\ c[i].size # 0
             /\ q.begin >= 0 =>
                  /\ c[i].read = c[i].at /\ Fetching!Total(c, i) <= Wanted(q)
                  /\ (c[i].size = 0) <=> (Fetching!Total(c, i - 1) = Wanted(q))
  <2>1. i - 1 \in 0 .. L /\ i \in 0 .. L /\ L > 0
    BY <1>1
  <2>2. /\ c[i] = b[i] /\ Fetching!Total(c, i - 1) = Fetching!Total(b, i - 1)
        /\ Fetching!Total(c, i) = Fetching!Total(b, i) /\ c[1] = b[1]
    BY <2>1, <1>2, <1>4, <1>6
  <2>3. /\ b[i].file = p.file /\ b[i].at = First(p) + Fetching!Total(b, i - 1)
        /\ b[i].read = b[1].read + Fetching!Total(b, i - 1) /\ b[i].size # 0
        /\ p.begin >= 0 =>
             /\ b[i].read = b[i].at /\ Fetching!Total(b, i) <= Wanted(p)
             /\ (b[i].size = 0) <=> (Fetching!Total(b, i - 1) = Wanted(p))
    BY DEF SentAsAsked, NoneEmpty
  <2> HIDE DEF b, c, L
  <2> QED BY <1>3, <2>2, <2>3
<1>8. /\ c[L + 1].file = q.file /\ c[L + 1].at = First(q) + Fetching!Total(c, L)
      /\ c[L + 1].read = c[1].read + Fetching!Total(c, L)
      /\ q.begin >= 0 =>
           /\ c[L + 1].read = c[L + 1].at /\ Fetching!Total(c, L + 1) <= Wanted(q)
           /\ (c[L + 1].size = 0) <=> (Fetching!Total(c, L) = Wanted(q))
  <2>1. Fetching!Total(c, L) = Sent(p)
    <3>1. L \in 0 .. L
      BY <1>1
    <3> QED BY <3>1, <1>4 DEF Sent
  <2>2. /\ e.file = p.file /\ e.at = First(p) + Sent(p)
        /\ L > 0 => e.read = b[1].read + Sent(p)
        /\ p.begin >= 0 =>
             e.read = e.at /\ (e.size = 0 <=> Sent(p) = Wanted(p)) /\ Sent(p) + e.size <= Wanted(p)
    BY DEF Follows
  <2>3. e.read = c[1].read + Fetching!Total(c, L)
    <3>1. CASE L > 0
      BY <3>1, <1>6, <2>1, <2>2
    <3>2. CASE ~(L > 0)
      <4>1. L = 0 /\ c[1] = e /\ e.read \in Nat
        BY <3>2, <1>1, <1>6
      <4>2. Fetching!Total(c, L) = 0
        BY <4>1, <1>6
      <4> QED BY <4>1, <4>2
    <3> QED BY <3>1, <3>2
  <2>4. Fetching!Total(c, L + 1) = Sent(p) + e.size
    BY <1>5 DEF Sent
  <2> HIDE DEF b, c, L
  <2> QED BY <1>2, <1>3, <2>1, <2>2, <2>3, <2>4
<1> HIDE DEF b, c, L
<1>9. SentAsAsked(q)
  <2>1. ASSUME NEW i \in 1 .. Len(c)
        PROVE  /\ c[i].file = q.file /\ c[i].at = First(q) + Fetching!Total(c, i - 1)
               /\ c[i].read = c[1].read + Fetching!Total(c, i - 1) /\ (c[i].size = 0 => i = Len(c))
               /\ q.begin >= 0 =>
                    /\ c[i].read = c[i].at /\ Fetching!Total(c, i) <= Wanted(q)
                    /\ (c[i].size = 0) <=> (Fetching!Total(c, i - 1) = Wanted(q))
    <3>1. CASE i = L + 1
      <4>1. i - 1 = L
        BY <3>1, <1>1
      <4> QED BY <3>1, <4>1, <1>2, <1>8
    <3>2. CASE i \in 1 .. L
      BY <3>2, <1>7
    <3>3. i = L + 1 \/ i \in 1 .. L
      BY ONLY i \in 1 .. Len(c), <1>1, <1>2
    <3> QED BY ONLY <3>1, <3>2, <3>3
  <2> QED BY <2>1 DEF SentAsAsked, c
<1>10. e.size # 0 => \A i \in 1 .. Len(c) : c[i].size # 0
  <2>1. ASSUME e.size # 0, NEW i \in 1 .. Len(c) PROVE c[i].size # 0
    <3>1. CASE i = L + 1
      BY <2>1, <3>1, <1>2
    <3>2. CASE i \in 1 .. L
      BY <3>2, <1>7
    <3>3. i = L + 1 \/ i \in 1 .. L
      BY ONLY i \in 1 .. Len(c), <1>1, <1>2
    <3> QED BY ONLY <3>1, <3>2, <3>3
  <2> QED BY <2>1
<1>11. Sent(q) = Sent(p) + e.size
  BY <1>2, <1>5 DEF Sent, b, c, L
<1>12. Len(c) > 0
  BY <1>1, <1>2
<1> QED BY <1>3, <1>6, <1>9, <1>10, <1>11, <1>12 DEF b, c, L, NoneEmpty

\* The client is sent a block.
LEMMA BlockSent ==
  ASSUME Fetching!DownloadAssumption, DownloadsInv, PartInv, Fetching!WriteBlock
  PROVE  PartInv'
<1>1. PICK most \in BlockSizes :
        LET n == IF cl.num <= 0 \/ Fetching!Remaining <= 0 THEN 0
                 ELSE Fetching!Min({most, Fetching!Remaining,
                                    Fetching!Max({0, SizeOf[cl.download.file] - cl.download.at})})
        IN  /\ part' = [part EXCEPT !.blocks = Append(@, Fetching!Block(n))]
            /\ cl' = [cl EXCEPT !.count = @ + n, !.download.at = @ + n, !.eof = n = 0]
  BY DEF Fetching!WriteBlock
<1> DEFINE left == Fetching!Max({0, SizeOf[cl.download.file] - cl.download.at})
           n == IF cl.num <= 0 \/ Fetching!Remaining <= 0 THEN 0
                ELSE Fetching!Min({most, Fetching!Remaining, left})
           t == Sent(part)
<1>2. /\ part' = [part EXCEPT !.blocks = Append(@, Fetching!Block(n))]
      /\ cl' = [cl EXCEPT !.count = @ + n, !.download.at = @ + n, !.eof = n = 0]
  BY <1>1
<1>3. /\ part \in Fetching!SentPart /\ cl \in Fetching!Client /\ SentAsAsked(part)
      /\ cl.download # Fetching!NoHandle /\ ~cl.eof /\ cl.download.file = part.file
      /\ most \in Nat \ {0} /\ cl.download.file = cl.name
  BY DEF DownloadsInv, Fetching!TypeOK, Fetching!HandleKept, Fetching!WriteBlock, PartInv,
       Fetching!DownloadAssumption
<1>4. /\ part.file \in File /\ cl.size = SizeOf[part.file] /\ Follow(cl, part)
      /\ part.begin >= 0 =>
           cl.download.at = cl.count /\ Within(cl.num, part) = Wanted(part) /\ t <= Wanted(part)
  BY <1>3 DEF PartInv, Streams
<1>5. /\ cl.begin = First(part) /\ cl.count = First(part) + t /\ t \in Nat /\ NoneEmpty(part)
      /\ Len(part.blocks) > 0 => cl.download.at = part.blocks[1].read + t
  BY <1>4 DEF Follow
<1>6. /\ MaxInt \in Nat /\ cl.size \in 0 .. MaxInt /\ First(part) \in Fetching!Ints
      /\ cl.download.at \in Nat /\ cl.download.at <= cl.size
      /\ cl.num \in Fetching!Ints /\ cl.count \in Fetching!Ints
  BY <1>3, <1>4, PartFits DEF Fetching!Client, DownloadsInv, ReadWithin
<1>7. left = cl.size - cl.download.at /\ left \in Nat
  <2> DEFINE rest == cl.size - cl.download.at
  <2>1. rest \in Nat /\ rest \in Int
    BY <1>6
  <2>2. left = Fetching!Max({0, rest})
    BY <1>3, <1>4
  <2> HIDE DEF left, rest
  <2>3. left = rest
    BY <2>1, <2>2, MaxWithZero
  <2> QED BY <2>1, <2>3 DEF rest
<1>8. Fetching!Remaining = Fetching!AsInt(cl.num - t) /\ Fetching!Remaining \in Int
  <2>1. cl.begin + cl.num - cl.count = cl.num - t /\ cl.num - t \in Int
    <3> HIDE DEF t
    <3> QED BY <1>5, <1>6 DEF Fetching!Ints
  <2> HIDE DEF t
  <2> QED BY <2>1, AsIntIs DEF Fetching!Remaining, Fetching!Ints
<1> HIDE DEF left, t
<1>9. ~(cl.num <= 0 \/ Fetching!Remaining <= 0) =>
        n \in 0 .. left /\ n <= Fetching!Remaining /\ (n = 0 <=> left = 0)
  <2>1. ASSUME ~(cl.num <= 0 \/ Fetching!Remaining <= 0)
        PROVE  n \in 0 .. left /\ n <= Fetching!Remaining /\ (n = 0 <=> left = 0)
    <3>1. Fetching!Remaining \in Nat \ {0}
      BY <1>6, <1>8, <2>1
    <3>2. n = Fetching!Min({most, Fetching!Remaining, left})
      BY <2>1
    <3> HIDE DEF n
    <3> QED BY <1>3, <1>7, <3>1, <3>2, BlockFits
  <2> QED BY <2>1
<1>10. (cl.num <= 0 \/ Fetching!Remaining <= 0) => n = 0
  OBVIOUS
<1> HIDE DEF n
<1>11. n \in Nat
  BY <1>7, <1>9, <1>10
<1>12. ASSUME part.begin >= 0
       PROVE  /\ cl.download.at = cl.count /\ (n = 0 <=> t = Wanted(part)) /\ t + n <= Wanted(part)
              /\ Within(cl.num, part) = Wanted(part)
  <2> DEFINE w == Wanted(part)
             rest == cl.size - First(part)
  <2>1. /\ rest \in 0 .. MaxInt /\ w \in Nat /\ t <= w /\ cl.download.at = cl.count
        /\ Within(cl.num, part) = w
        /\ w = IF cl.num <= 0 THEN 0 ELSE IF cl.num <= rest THEN cl.num ELSE rest
    BY <1>3, <1>4, <1>6, <1>12, PartFits
  <2>2. left = rest - t
    <3>1. cl.download.at = First(part) + t
      BY <1>5, <2>1
    <3> QED BY <1>5, <1>6, <1>7, <3>1 DEF Fetching!Ints
  <2>3. cl.num \in Int /\ cl.num <= MaxInt /\ cl.num >= -MaxInt - 1
    BY <1>6 DEF Fetching!Ints
  <2> HIDE DEF w, rest
  <2>4. Fetching!Remaining = cl.num - t
    <3>1. cl.num - t \in Fetching!Ints /\ cl.num - t \in Int
      BY <1>5, <1>6, <2>1, <2>3 DEF Fetching!Ints
    <3> QED BY <1>8, <3>1, AsIntIs
  <2>5. (n = 0 <=> t = w) /\ t + n <= w
    <3>1. CASE cl.num <= 0 \/ Fetching!Remaining <= 0
      <4>1. n = 0
        BY <1>10, <3>1
      <4>2. t = w
        BY <1>5, <1>6, <2>1, <2>3, <2>4, <3>1
      <4> QED BY <1>5, <2>1, <4>1, <4>2
    <3>2. CASE ~(cl.num <= 0 \/ Fetching!Remaining <= 0)
      <4>1. n <= left /\ n <= cl.num - t /\ (n = 0 <=> left = 0) /\ cl.num > 0 /\ cl.num - t > 0
        BY <1>8, <1>9, <2>3, <2>4, <3>2, <1>5
      <4>2. n = 0 <=> t = w
        BY <1>5, <1>7, <2>1, <2>2, <2>3, <4>1
      <4>3. t + n <= w
        BY <1>5, <1>7, <1>11, <2>1, <2>2, <2>3, <4>1
      <4> QED BY <4>2, <4>3
    <3> QED BY <3>1, <3>2
  <2> QED BY <2>1, <2>5 DEF w
<1> DEFINE e == Fetching!Block(n)
<1>13. /\ e \in [at : Fetching!Ints, read : Nat, file : File, size : Nat]
       /\ e.at = cl.count /\ e.read = cl.download.at /\ e.file = part.file /\ e.size = n
  BY <1>3, <1>4, <1>6, <1>11 DEF Fetching!Block
<1>14. /\ part'.blocks = Append(part.blocks, e) /\ part'.file = part.file
       /\ part'.begin = part.begin /\ part'.num = part.num
  BY <1>2, <1>3 DEF Fetching!SentPart
<1>15. /\ cl'.count = cl.count + n /\ cl'.download.at = cl.download.at + n
       /\ cl'.size = cl.size /\ cl'.begin = cl.begin /\ cl'.num = cl.num /\ (~cl'.eof => n # 0)
  BY <1>2, <1>3 DEF Fetching!Client
<1> HIDE DEF e
<1>16. Follows(part, e, part')
  BY <1>5, <1>12, <1>13, <1>14 DEF Follows, t
<1>17. /\ SentAsAsked(part')
       /\ First(part') = First(part) /\ Wanted(part') = Wanted(part)
       /\ \A k : Within(k, part') = Within(k, part)
       /\ Sent(part') = t + n /\ Len(part'.blocks) > 0
       /\ part'.blocks[1] = IF Len(part.blocks) > 0 THEN part.blocks[1] ELSE e
       /\ n # 0 => NoneEmpty(part')
  <2>1. part \in Fetching!SentPart /\ SentAsAsked(part) /\ NoneEmpty(part)
    BY <1>3, <1>5
  <2> QED BY <1>13, <1>16, <2>1, OneBlockMore DEF t
<1>18. ASSUME n # 0 PROVE Follow(cl', part')
  <2>1. cl.count + n = First(part) + (t + n) /\ t + n \in Nat
    BY <1>5, <1>6, <1>11 DEF Fetching!Ints
  <2>2. cl.download.at + n = part'.blocks[1].read + (t + n)
    <3>1. CASE Len(part.blocks) > 0
      <4>1. cl.download.at = part.blocks[1].read + t /\ part'.blocks[1] = part.blocks[1]
        BY <1>5, <1>17, <3>1
      <4>2. part.blocks[1].read \in Nat
        <5> DEFINE block == [at : Fetching!Ints, read : Nat, file : File, size : Nat]
        <5>1. part.blocks \in Seq(block)
          BY <1>3 DEF Fetching!SentPart
        <5> HIDE DEF block
        <5>2. part.blocks[1] \in block
          BY <3>1, <5>1
        <5> QED BY <5>2 DEF block
      <4> QED BY <1>5, <1>11, <4>1, <4>2
    <3>2. CASE ~(Len(part.blocks) > 0)
      <4>1. part'.blocks[1] = e
        BY <1>17, <3>2
      <4>2. t = 0
        <5>1. Len(part.blocks) = 0
          BY <1>3, <3>2, LenProperties DEF Fetching!SentPart
        <5> QED BY <5>1, TotalFacts DEF t, Sent
      <4> QED BY <1>6, <1>11, <1>13, <4>1, <4>2
    <3> QED BY <3>1, <3>2
  <2> QED BY <1>5, <1>15, <1>17, <1>18, <2>1, <2>2 DEF Follow
<1>19. Streams(cl', part')
  <2>1. ASSUME part.begin >= 0
        PROVE  /\ cl'.download.at = cl'.count /\ Within(cl'.num, part') = Wanted(part')
               /\ Sent(part') <= Wanted(part')
    BY <1>12, <1>15, <1>17, <2>1
  <2> QED BY <1>4, <1>14, <1>15, <1>18, <2>1 DEF Streams
<1> QED BY <1>17, <1>19, PartAfter

\* Every step, and a stutter.
LEMMA NextKeepsPart ==
  ASSUME Fetching!DownloadAssumption, DownloadsInv, PartInv, [Fetching!Next]_(Fetching!vars) PROVE PartInv'
<1>1. CASE part' = part /\ cl'.download = Fetching!NoHandle
  BY <1>1, NothingSent
<1>2. CASE Fetching!CannotOpen \/ Fetching!StopDownload \/ Fetching!WWWDownloadDrops
  <2>1. \A c \in Fetching!Client :
          Fetching!Closed(c).download = Fetching!NoHandle /\ Fetching!Closed(c) \in Fetching!Client
    BY ClosedHasNone
  <2> QED BY <1>1, <1>2, <2>1 DEF Fetching!CannotOpen, Fetching!StopDownload,
       Fetching!WWWDownloadDrops, Fetching!Drop, DownloadsInv, Fetching!TypeOK, Fetching!Client
<1>3. CASE \E f \in File : Fetching!BeginDownload(f)
  <2>1. Fetching!Closed(cl).download = Fetching!NoHandle /\ Fetching!Closed(cl) \in Fetching!Client
    BY ClosedHasNone DEF DownloadsInv, Fetching!TypeOK
  <2> QED BY <1>1, <1>3, <2>1 DEF Fetching!BeginDownload, Fetching!Client
<1>4. CASE \E failed \in BOOLEAN : Fetching!WWWDownloadEnds(failed)
  <2>1. Fetching!Closed(cl).download = Fetching!NoHandle /\ Fetching!Closed(cl) \in Fetching!Client
    BY ClosedHasNone DEF DownloadsInv, Fetching!TypeOK
  <2> QED BY <1>1, <1>4, <2>1 DEF Fetching!WWWDownloadEnds, Fetching!Client
<1>5. CASE Fetching!Redirect \/ Fetching!Announce
  BY <1>5, AnnouncedSent
<1>6. CASE Fetching!WriteBlock
  BY <1>6, BlockSent
<1>7. CASE \E begin, num \in Fetching!Ints : Fetching!SelectDownloadBlocks(begin, num)
  BY <1>7, SelectedSent
<1>8. CASE UNCHANGED Fetching!vars
  <2>1. cl' = cl /\ part' = part
    BY <1>8 DEF Fetching!vars
  <2>2. SentAsAsked(part') /\ Streams(cl', part')
    BY <2>1 DEF PartInv
  <2> QED BY <2>2, PartAfter
<1> QED BY <1>2, <1>3, <1>4, <1>5, <1>6, <1>7, <1>8 DEF Fetching!Next

\* Nothing is sent at first.
LEMMA PartInitHolds == Fetching!Init => PartInv
<1> SUFFICES ASSUME Fetching!Init PROVE PartInv
  OBVIOUS
<1>1. part.blocks = << >> /\ cl.download = Fetching!NoHandle
  BY DEF Fetching!Init, Fetching!Announced
<1>2. Len(part.blocks) = 0
  BY <1>1
<1> QED BY <1>1, <1>2 DEF PartInv, SentAsAsked, Streams

\* The invariant of Downloads, while that part is at work.
FetchingIInv == component = "downloads" => DownloadsInv /\ PartInv

\* It holds of the parts together.
LEMMA FetchingHolds == Spec => []FetchingIInv
<1>1. Init => FetchingIInv
  BY DownloadsInitHolds, PartInitHolds, DownloadsAssumed DEF Init, FetchingIInv
<1>2. ASSUME FetchingIInv, [Next]_vars PROVE FetchingIInv'
  <2>1. SUFFICES ASSUME component = "downloads" PROVE (DownloadsInv /\ PartInv)'
    BY <1>2, OnePart DEF FetchingIInv
  <2> QED BY <1>2, <2>1, OnePart, DownloadsAssumed, DownloadsNextKeeps, NextKeepsPart
    DEF FetchingIInv
<1> QED BY <1>1, <1>2, PTL DEF Spec

\* HandleKept: the one open file of a client is the one it names and was told of, there is no
\* other, and none while the client is at the web server, or has gone (SV_CloseDownload and
\* the four other places that close a file).
THEOREM HandleStaysRight == Spec => []HandleKept
<1>1. FetchingIInv => HandleKept
  BY DEF FetchingIInv, DownloadsInv, HandleKept
<1> QED BY <1>1, FetchingHolds, PTL

\* PartSent: a client that asks for any part of a file, with ints of either sign and sums that go
\* round, is sent blocks of that file without a gap, and just that part, as far as the file goes
\* and to the end, unless it begins before the file, whatever the sizes of the blocks
\* (SV_SelectDownloadBlocksX_f, SV_WriteDownloadToClient).
THEOREM PartsSentWhole == Spec => []PartSent
<1>1. FetchingIInv => PartSent
  BY PartIsSent DEF FetchingIInv, PartSent
<1> QED BY <1>1, FetchingHolds, PTL

-----------------------------------------------------------------------------
(* The commands of a client.                                               *)

\* A command in the history, and a client_t and a history as SV_ClientCommand has them.
Noting == [number : 1 .. Commands!Issued, time : 1 .. time, limited : BOOLEAN, passed : BOOLEAN]

Executing ==
  [cl : [state : {"primed", "active", "zombie"}, last : 0 .. Commands!Issued,
         tokens : 0 .. FloodLimit - 1, nextTime : 0 .. time + Quiet],
   done : Seq(Noting)]

\* AllLimited and Rushed, and what FloodLimited counts, for any history d.
LimitedIn(d) == {k \in 1 .. Len(d) : d[k].limited}

RushedIn(d, i, j) ==
  \A k, l \in LimitedIn(d) \cap i .. j :
    k < l /\ LimitedIn(d) \cap k + 1 .. l - 1 = {} => d[l].time - d[k].time < Quiet

PassedIn(d, i, j) == {k \in LimitedIn(d) \cap i .. j : d[k].passed}

\* The commands were executed in order, and the client is not dropped.
Ordered(s) ==
  /\ s.cl.state # "zombie" /\ Len(s.done) = s.cl.last
  /\ \A i \in 1 .. Len(s.done) : s.done[i].number = i

\* The quiet time runs from the last limited command on.
QuietFromLast(s) ==
  \A k \in LimitedIn(s.done) :
    LimitedIn(s.done) \cap k + 1 .. Len(s.done) = {} => s.cl.nextTime = s.done[k].time + Quiet

\* What is passed on until now in quick succession, and what still may be.
TokensLeft(s) ==
  \A i \in 1 .. Len(s.done) :
    LimitedIn(s.done) \cap i .. Len(s.done) # {} /\ RushedIn(s.done, i, Len(s.done)) =>
      Cardinality(PassedIn(s.done, i, Len(s.done))) + s.cl.tokens <= FloodLimit

FloodKept(s) ==
  \A i, j \in 1 .. Len(s.done) :
    RushedIn(s.done, i, j) => Cardinality(PassedIn(s.done, i, j)) <= FloodLimit

\* What SV_ClientCommand keeps.
Sound(s) == Ordered(s) /\ QuietFromLast(s) /\ TokensLeft(s) /\ FloodKept(s)

\* The commands counted are finitely many.
LEMMA PassedFinite ==
  ASSUME NEW d \in Seq(Noting), NEW i, NEW j
  PROVE  IsFiniteSet(PassedIn(d, i, j)) /\ Cardinality(PassedIn(d, i, j)) \in Nat
<1>1. Len(d) \in Nat
  OBVIOUS
<1>2. IsFiniteSet(1 .. Len(d))
  BY <1>1, FS_Interval
<1>3. PassedIn(d, i, j) \subseteq 1 .. Len(d)
  BY DEF PassedIn, LimitedIn
<1>4. IsFiniteSet(PassedIn(d, i, j))
  BY <1>2, <1>3, FS_Subset
<1> QED BY <1>4, FS_CardinalityType

\* A command more in the history changes nothing of those before it.
LEMMA HistoryGrows ==
  ASSUME NEW d \in Seq(Noting), NEW e \in Noting
  PROVE  /\ Append(d, e) \in Seq(Noting) /\ Len(Append(d, e)) = Len(d) + 1
         /\ Append(d, e)[Len(d) + 1] = e
         /\ \A i \in 1 .. Len(d) : Append(d, e)[i] = d[i]
         /\ LimitedIn(Append(d, e)) = LimitedIn(d) \cup (IF e.limited THEN {Len(d) + 1} ELSE {})
         /\ \A i \in Nat, j \in 0 .. Len(d) :
              /\ LimitedIn(Append(d, e)) \cap i .. j = LimitedIn(d) \cap i .. j
              /\ RushedIn(Append(d, e), i, j) <=> RushedIn(d, i, j)
              /\ PassedIn(Append(d, e), i, j) = PassedIn(d, i, j)
<1> DEFINE h == Append(d, e)
<1>1. /\ h \in Seq(Noting) /\ Len(h) = Len(d) + 1 /\ h[Len(d) + 1] = e
      /\ Len(d) \in Nat /\ \A i \in 1 .. Len(d) : h[i] = d[i]
  <2> HIDE DEF Noting
  <2> QED BY AppendProperties
<1> HIDE DEF h
<1>2. LimitedIn(h) = LimitedIn(d) \cup (IF e.limited THEN {Len(d) + 1} ELSE {})
  BY <1>1 DEF LimitedIn
<1>3. ASSUME NEW i \in Nat, NEW j \in 0 .. Len(d)
      PROVE  /\ LimitedIn(h) \cap i .. j = LimitedIn(d) \cap i .. j
             /\ RushedIn(h, i, j) <=> RushedIn(d, i, j)
             /\ PassedIn(h, i, j) = PassedIn(d, i, j)
  <2>1. LimitedIn(h) \cap i .. j = LimitedIn(d) \cap i .. j
    BY <1>1, <1>2
  <2>2. LimitedIn(d) \subseteq 1 .. Len(d)
    BY DEF LimitedIn
  <2>3. PassedIn(h, i, j) = PassedIn(d, i, j)
    BY <1>1, <2>1, <2>2 DEF PassedIn
  <2>4. ASSUME NEW k \in LimitedIn(d) \cap i .. j, NEW l \in LimitedIn(d) \cap i .. j
        PROVE  /\ LimitedIn(h) \cap k + 1 .. l - 1 = LimitedIn(d) \cap k + 1 .. l - 1
               /\ h[l] = d[l] /\ h[k] = d[k]
    <3>1. k \in 1 .. Len(d) /\ l \in 1 .. Len(d)
      BY <2>2
    <3>2. Len(d) + 1 \notin k + 1 .. l - 1
      BY <3>1, <1>1
    <3> QED BY <3>1, <3>2, <1>1, <1>2
  <2>5. RushedIn(h, i, j) <=> RushedIn(d, i, j)
    BY <2>1, <2>4 DEF RushedIn
  <2> QED BY <2>1, <2>3, <2>5
<1> QED BY <1>1, <1>2, <1>3 DEF h

\* A command that is not limited: nothing counts it.
LEMMA UnlimitedKeeps ==
  ASSUME NEW s \in Executing, Sound(s), NEW e \in Noting, ~e.limited,
         e.number = s.cl.last + 1,
         NEW r, r.done = Append(s.done, e), r.cl.state = s.cl.state, r.cl.last = s.cl.last + 1,
         r.cl.tokens = s.cl.tokens, r.cl.nextTime = s.cl.nextTime
  PROVE  Sound(r)
<1> DEFINE d == s.done
<1> DEFINE h == Append(s.done, e)
<1>1. d \in Seq(Noting) /\ s.cl.last \in Nat
  BY DEF Executing
<1>2. /\ Len(h) = Len(d) + 1 /\ h[Len(d) + 1] = e /\ Len(d) \in Nat
      /\ \A i \in 1 .. Len(d) : h[i] = d[i]
      /\ LimitedIn(h) = LimitedIn(d)
      /\ \A i \in Nat, j \in 0 .. Len(d) :
           /\ RushedIn(h, i, j) <=> RushedIn(d, i, j)
           /\ PassedIn(h, i, j) = PassedIn(d, i, j)
  <2>1. LimitedIn(h) = LimitedIn(d) \cup (IF e.limited THEN {Len(d) + 1} ELSE {})
    BY <1>1, HistoryGrows
  <2>2. LimitedIn(h) = LimitedIn(d)
    <3> HIDE DEF h, d
    <3> QED BY <2>1
  <2> QED BY <1>1, <2>2, HistoryGrows
<1>3. r.done = h
  OBVIOUS
<1> HIDE DEF d, h
<1>4. LimitedIn(d) \subseteq 1 .. Len(d)
  BY DEF LimitedIn
<1>5. ASSUME NEW i \in 1 .. Len(h), NEW j \in 1 .. Len(h)
      PROVE  \E k \in 0 .. Len(d) : /\ LimitedIn(h) \cap i .. j = LimitedIn(d) \cap i .. k
                                    /\ RushedIn(h, i, j) <=> RushedIn(d, i, k)
                                    /\ PassedIn(h, i, j) = PassedIn(d, i, k)
                                    /\ j = Len(h) => k = Len(d)
  <2>1. CASE j <= Len(d)
    <3>1. j \in 0 .. Len(d) /\ i \in Nat /\ j # Len(h)
      BY <2>1, <1>2
    <3> QED BY <3>1, <1>2
  <2>2. CASE j = Len(d) + 1
    <3>1. LimitedIn(h) \cap i .. j = LimitedIn(d) \cap i .. Len(d)
      BY <2>2, <1>2, <1>4
    <3>2. RushedIn(h, i, j) <=> RushedIn(h, i, Len(d))
      BY <3>1, <1>2 DEF RushedIn
    <3>3. PassedIn(h, i, j) = PassedIn(h, i, Len(d))
      BY <3>1, <1>2 DEF PassedIn
    <3> QED BY <3>1, <3>2, <3>3, <1>2
  <2> QED BY <2>1, <2>2, <1>2
<1>6. Ordered(r)
  <2>1. /\ s.cl.state # "zombie" /\ Len(d) = s.cl.last
        /\ \A i \in 1 .. Len(d) : d[i].number = i
    BY DEF Sound, Ordered, d
  <2>2. ASSUME NEW i \in 1 .. Len(h) PROVE h[i].number = i
    <3>1. CASE i = Len(d) + 1
      BY <3>1, <2>1, <1>2
    <3>2. CASE i \in 1 .. Len(d)
      BY <3>2, <2>1, <1>2
    <3> QED BY <3>1, <3>2, <1>2
  <2> QED BY <2>1, <2>2, <1>2, <1>3 DEF Ordered
<1>7. QuietFromLast(r)
  <2>1. \A k \in LimitedIn(d) : LimitedIn(d) \cap k + 1 .. Len(h) = LimitedIn(d) \cap k + 1 .. Len(d)
    BY <1>2, <1>4
  <2>2. \A k \in LimitedIn(d) : h[k] = d[k]
    BY <1>2, <1>4
  <2> QED BY <2>1, <2>2, <1>2, <1>3 DEF Sound, QuietFromLast, d
<1>8. TokensLeft(r)
  <2>1. ASSUME NEW i \in 1 .. Len(h), LimitedIn(h) \cap i .. Len(h) # {}, RushedIn(h, i, Len(h))
        PROVE  Cardinality(PassedIn(h, i, Len(h))) + s.cl.tokens <= FloodLimit
    <3>1. /\ LimitedIn(d) \cap i .. Len(d) # {} /\ RushedIn(d, i, Len(d))
          /\ PassedIn(h, i, Len(h)) = PassedIn(d, i, Len(d))
      <4>1. Len(h) \in 1 .. Len(h)
        BY <1>2
      <4> QED BY <1>5, <2>1, <4>1
    <3>2. i \in 1 .. Len(d)
      BY <3>1, <1>2
    <3> QED BY <3>1, <3>2 DEF Sound, TokensLeft, d
  <2> QED BY <2>1, <1>3 DEF TokensLeft
<1>9. FloodKept(r)
  <2>1. ASSUME NEW i \in 1 .. Len(h), NEW j \in 1 .. Len(h), RushedIn(h, i, j)
        PROVE  Cardinality(PassedIn(h, i, j)) <= FloodLimit
    <3>1. PICK k \in 0 .. Len(d) : RushedIn(d, i, k) /\ PassedIn(h, i, j) = PassedIn(d, i, k)
      BY <1>5, <2>1
    <3>2. CASE i \in 1 .. Len(d) /\ k \in 1 .. Len(d)
      BY <3>1, <3>2 DEF Sound, FloodKept, d
    <3>3. CASE ~(i \in 1 .. Len(d) /\ k \in 1 .. Len(d))
      <4>1. PassedIn(d, i, k) = {}
        BY <3>3, <1>2, <1>4 DEF PassedIn
      <4>2. Cardinality({}) = 0
        BY FS_EmptySet
      <4> QED BY <4>1, <4>2, <3>1, CommandsAssumed DEF Commands!CommandsAssumption
    <3> QED BY <3>2, <3>3
  <2> QED BY <2>1, <1>3 DEF FloodKept
<1> QED BY <1>6, <1>7, <1>8, <1>9 DEF Sound

\* A command that is limited: it is passed on if there is a token left, or the quiet time is
\* over, and takes a token.
LEMMA LimitedKeeps ==
  ASSUME NEW s \in Executing, Sound(s), NEW e \in Noting, e.limited, e.time = time, time \in Nat,
         e.number = s.cl.last + 1,
         e.passed = ~(s.cl.tokens = 0 /\ time < s.cl.nextTime),
         NEW r, r.done = Append(s.done, e), r.cl.state = s.cl.state, r.cl.last = s.cl.last + 1,
         r.cl.tokens = IF time > s.cl.nextTime THEN FloodLimit - 1
                       ELSE IF s.cl.tokens = 0 THEN 0 ELSE s.cl.tokens - 1,
         r.cl.nextTime = time + Quiet
  PROVE  Sound(r)
<1> DEFINE d == s.done
<1> DEFINE h == Append(s.done, e)
<1> DEFINE N == Len(h)
<1>1. /\ d \in Seq(Noting) /\ s.cl.last \in Nat /\ s.cl.tokens \in 0 .. FloodLimit - 1
      /\ s.cl.nextTime \in Int /\ FloodLimit \in Nat \ {0} /\ Quiet \in Nat
  BY CommandsAssumed DEF Executing, Commands!CommandsAssumption
<1>2. /\ h \in Seq(Noting) /\ N = Len(d) + 1 /\ h[N] = e /\ Len(d) \in Nat
      /\ \A i \in 1 .. Len(d) : h[i] = d[i]
      /\ LimitedIn(h) = LimitedIn(d) \cup {N}
      /\ \A i \in Nat, j \in 0 .. Len(d) :
           /\ LimitedIn(h) \cap i .. j = LimitedIn(d) \cap i .. j
           /\ RushedIn(h, i, j) <=> RushedIn(d, i, j)
           /\ PassedIn(h, i, j) = PassedIn(d, i, j)
  <2>1. Len(d) \in Nat
    BY <1>1
  <2> QED BY ONLY <1>1, <2>1, e \in Noting, e.limited, HistoryGrows
<1>3. r.done = h
  OBVIOUS
<1> HIDE DEF d, h
<1>4. LimitedIn(d) \subseteq 1 .. Len(d)
  BY DEF LimitedIn
<1>5. Ordered(r)
  <2>1. /\ s.cl.state # "zombie" /\ Len(d) = s.cl.last
        /\ \A i \in 1 .. Len(d) : d[i].number = i
    BY DEF Sound, Ordered, d
  <2>2. ASSUME NEW i \in 1 .. N PROVE h[i].number = i
    <3>1. CASE i = N
      BY <3>1, <2>1, <1>2
    <3>2. CASE i \in 1 .. Len(d)
      BY <3>2, <2>1, <1>2
    <3> QED BY <3>1, <3>2, <1>2
  <2> QED BY <2>1, <2>2, <1>2, <1>3 DEF Ordered
<1>6. QuietFromLast(r)
  <2>1. ASSUME NEW k \in LimitedIn(h), LimitedIn(h) \cap k + 1 .. N = {}
        PROVE  k = N
    BY <2>1, <1>2, <1>4
  <2> QED BY <2>1, <1>2, <1>3 DEF QuietFromLast
\* What is passed on in quick succession up to the new command.
<1>7. ASSUME NEW i \in 1 .. N, RushedIn(h, i, N)
      PROVE  Cardinality(PassedIn(h, i, N)) + r.cl.tokens <= FloodLimit
  <2>1. PassedIn(h, i, N) = PassedIn(d, i, Len(d)) \cup (IF e.passed THEN {N} ELSE {})
    <3>1. LimitedIn(h) \cap i .. N = (LimitedIn(d) \cap i .. Len(d)) \cup {N}
      BY <1>2, <1>4
    <3> QED BY <3>1, <1>2, <1>4 DEF PassedIn
  <2>2. N \notin PassedIn(d, i, Len(d))
    BY <1>2, <1>4 DEF PassedIn
  <2>3. IsFiniteSet(PassedIn(d, i, Len(d))) /\ Cardinality(PassedIn(d, i, Len(d))) \in Nat
    BY <1>1, PassedFinite
  <2>4. Cardinality(PassedIn(h, i, N)) =
          Cardinality(PassedIn(d, i, Len(d))) + (IF e.passed THEN 1 ELSE 0)
    <3>1. CASE e.passed
      <4>1. PassedIn(h, i, N) = PassedIn(d, i, Len(d)) \cup {N}
        BY <2>1, <3>1
      <4> QED BY ONLY <3>1, <4>1, <2>2, <2>3, FS_AddElement
    <3>2. CASE ~e.passed
      BY <3>2, <2>1, <2>3
    <3> QED BY <3>1, <3>2
  <2>5. CASE LimitedIn(d) \cap i .. Len(d) = {}
    <3>1. PassedIn(d, i, Len(d)) = {}
      BY <2>5 DEF PassedIn
    <3>2. Cardinality(PassedIn(d, i, Len(d))) = 0
      BY <3>1, FS_EmptySet
    <3> QED BY <3>2, <2>4, <1>1
  <2>6. CASE LimitedIn(d) \cap i .. Len(d) # {}
    <3>1. PICK k \in LimitedIn(d) \cap i .. Len(d) : \A l \in LimitedIn(d) \cap i .. Len(d) : l <= k
      <4> DEFINE S == LimitedIn(d) \cap i .. Len(d)
      <4>1. S \subseteq Nat /\ S # {} /\ \A l \in S : l <= Len(d)
        BY <2>6, <1>2, <1>4
      <4> HIDE DEF S
      <4>2. \E k \in S : \A l \in S : l <= k
        BY <4>1, <1>2, GreatestNumber
      <4> QED BY <4>2 DEF S
    <3>2. k \in 1 .. Len(d) /\ k < N /\ k \in Nat
      BY <1>2, <1>4
    <3>3. LimitedIn(d) \cap k + 1 .. Len(d) = {}
      BY <3>1, <3>2, <1>4
    <3>4. s.cl.nextTime = d[k].time + Quiet
      BY <3>3 DEF Sound, QuietFromLast, d
    <3>5. h[N].time - h[k].time < Quiet
      <4>1. k \in LimitedIn(h) \cap i .. N /\ N \in LimitedIn(h) \cap i .. N
        BY <1>2, <3>2
      <4>2. LimitedIn(h) \cap k + 1 .. N - 1 = {}
        BY <1>2, <3>2, <3>3, <1>4
      <4> QED BY <4>1, <4>2, <3>2, <1>7 DEF RushedIn
    <3>6. time < s.cl.nextTime
      <4>1. h[k] = d[k] /\ d[k] \in Noting /\ h[N] = e
        BY <3>2, <1>1, <1>2
      <4>2. d[k].time \in Int
        BY <4>1 DEF Noting
      <4> QED BY <4>1, <4>2, <3>4, <3>5, <1>1
    <3>7. RushedIn(d, i, Len(d))
      <4>1. RushedIn(h, i, Len(d))
        <5>1. LimitedIn(h) \cap i .. Len(d) \subseteq LimitedIn(h) \cap i .. N
          BY <1>2
        <5> QED BY <5>1, <1>7 DEF RushedIn
      <4> QED BY <4>1, <1>2
    <3>8. Cardinality(PassedIn(d, i, Len(d))) + s.cl.tokens <= FloodLimit
      <4>1. i \in 1 .. Len(d)
        BY <2>6, <1>2
      <4> QED BY <4>1, <2>6, <3>7 DEF Sound, TokensLeft, d
    <3>9. CASE s.cl.tokens = 0
      <4>1. ~e.passed /\ r.cl.tokens = 0
        <5>1. ~e.passed
          BY <3>6, <3>9, Zenon
        <5>2. ~(time > s.cl.nextTime)
          BY <3>6, <1>1
        <5> QED BY <5>1, <5>2, <3>9
      <4> QED BY <4>1, <3>8, <3>9, <2>3, <2>4
    <3>10. CASE s.cl.tokens # 0
      <4>1. r.cl.tokens = s.cl.tokens - 1
        BY <3>6, <3>10, <1>1
      <4>2. s.cl.tokens \in Int /\ FloodLimit \in Int
        BY <1>1
      <4>3. Cardinality(PassedIn(h, i, N)) <= Cardinality(PassedIn(d, i, Len(d))) + 1
        BY <2>3, <2>4
      <4>4. Cardinality(PassedIn(h, i, N)) \in Int
        BY <2>3, <2>4
      <4> HIDE DEF N
      <4> QED BY ONLY <4>1, <4>2, <4>3, <4>4, <3>8, <2>3
    <3> QED BY <3>9, <3>10
  <2> QED BY <2>5, <2>6
<1>8. TokensLeft(r)
  BY <1>7, <1>3 DEF TokensLeft
<1>9. FloodKept(r)
  <2>1. ASSUME NEW i \in 1 .. N, NEW j \in 1 .. N, RushedIn(h, i, j)
        PROVE  Cardinality(PassedIn(h, i, j)) <= FloodLimit
    <3>1. CASE j = N
      <4>1. Cardinality(PassedIn(h, i, N)) \in Nat
        BY ONLY <1>2, PassedFinite
      <4>2. r.cl.tokens \in Nat
        <5>1. CASE time > s.cl.nextTime
          BY <5>1, <1>1
        <5>2. CASE ~(time > s.cl.nextTime) /\ s.cl.tokens = 0
          BY <5>2
        <5>3. CASE ~(time > s.cl.nextTime) /\ s.cl.tokens # 0
          <6>1. r.cl.tokens = s.cl.tokens - 1
            BY <5>3
          <6> QED BY ONLY <6>1, <5>3, <1>1
        <5> QED BY <5>1, <5>2, <5>3
      <4>3. Cardinality(PassedIn(h, i, N)) + r.cl.tokens <= FloodLimit
        BY <3>1, <2>1, <1>7
      <4>4. Cardinality(PassedIn(h, i, N)) <= FloodLimit
        BY ONLY <4>1, <4>2, <4>3, <1>1
      <4> QED BY <3>1, <4>4
    <3>2. CASE j \in 1 .. Len(d) /\ i \in 1 .. Len(d)
      <4>1. RushedIn(d, i, j) /\ PassedIn(h, i, j) = PassedIn(d, i, j)
        <5>1. i \in Nat /\ j \in 0 .. Len(d)
          BY <3>2
        <5> QED BY <5>1, <2>1, <1>2
      <4> QED BY <3>2, <4>1 DEF Sound, FloodKept, d
    <3>3. CASE j \in 1 .. Len(d) /\ i = N
      <4>1. PassedIn(h, i, j) = {}
        BY <3>3, <1>2 DEF PassedIn
      <4>2. Cardinality({}) = 0
        BY FS_EmptySet
      <4> QED BY <4>1, <4>2, <1>1
    <3> QED BY <3>1, <3>2, <3>3, <1>2
  <2> QED BY <2>1, <1>3 DEF FloodKept
<1> QED BY <1>5, <1>6, <1>8, <1>9 DEF Sound

\* A token less, but never less than none.
LEMMA OneTokenLess ==
  ASSUME NEW t \in Nat
  PROVE  Commands!Max({0, t - 1}) = IF t = 0 THEN 0 ELSE t - 1
<1> DEFINE m == IF t = 0 THEN 0 ELSE t - 1
           S == {0, t - 1}
<1>1. m \in S /\ \A x \in S : m >= x
  OBVIOUS
<1>2. S \subseteq Int
  OBVIOUS
<1> HIDE DEF m, S
<1>3. Commands!Max(S) \in S /\ \A y \in S : Commands!Max(S) >= y
  BY <1>1 DEF Commands!Max
<1>4. Commands!Max(S) \in Int /\ m \in Int /\ Commands!Max(S) >= m /\ m >= Commands!Max(S)
  BY <1>1, <1>2, <1>3
<1>5. Commands!Max(S) = m
  BY ONLY <1>4
<1> QED BY <1>5 DEF m, S

\* SV_ClientCommand keeps a client_t and a history sound, if the command does not leave a gap.
LEMMA ClientCommandKeeps ==
  ASSUME time \in Nat \ {0}, client.limited \in Seq(BOOLEAN),
         NEW s \in Executing, Sound(s),
         NEW n \in 1 .. Commands!Issued, n <= s.cl.last + 1,
         NEW r, r = Commands!ClientCommand(s, n)
  PROVE  /\ r \in Executing /\ Sound(r)
         /\ r.cl.state = s.cl.state /\ s.cl.last <= r.cl.last /\ n <= r.cl.last
<1> DEFINE c == s.cl
           limited == Commands!Limited(c, n)
           ignored == limited /\ c.tokens = 0 /\ time < c.nextTime
           e == [number |-> n, time |-> time, limited |-> limited, passed |-> ~ignored]
           counted == IF limited THEN Commands!Counted(c) ELSE c
           noted == Commands!Noted(counted, n, ignored)
<1>1. /\ c.state \in {"primed", "active", "zombie"} /\ c.last \in 0 .. Commands!Issued
      /\ c.tokens \in 0 .. FloodLimit - 1 /\ c.nextTime \in 0 .. time + Quiet
      /\ Commands!Issued \in Nat /\ FloodLimit \in Nat \ {0} /\ Quiet \in Nat
      /\ c = [state |-> c.state, last |-> c.last, tokens |-> c.tokens, nextTime |-> c.nextTime]
      /\ s.done \in Seq(Noting) /\ s = [cl |-> c, done |-> s.done]
  BY CommandsAssumed DEF Executing, Commands!Issued, Commands!CommandsAssumption
<1>2. c.state # "zombie"
  BY DEF Sound, Ordered
<1>3. CASE n <= c.last
  <2>1. r = s
    BY <1>1, <1>3 DEF Commands!ClientCommand
  <2> QED BY <2>1, <1>3, <1>1
<1>4. CASE ~(n <= c.last)
  <2>1. n = c.last + 1 /\ ~(n > c.last + 1)
    BY <1>1, <1>4
  <2>2. r = [cl |-> noted, done |-> Append(s.done, e)]
    BY <1>2, <1>4, <2>1 DEF Commands!ClientCommand
  <2>3. limited \in BOOLEAN
    BY DEF Commands!Limited, Commands!Issued
  <2>4. e \in Noting
    BY <2>3 DEF Noting
  <2>5. /\ noted.state = c.state /\ noted.last = n
        /\ noted.tokens = IF limited THEN IF time > c.nextTime THEN FloodLimit - 1
                                          ELSE IF c.tokens = 0 THEN 0 ELSE c.tokens - 1
                          ELSE c.tokens
        /\ noted.nextTime = IF limited THEN time + Quiet ELSE c.nextTime
        /\ noted = [state |-> noted.state, last |-> noted.last, tokens |-> noted.tokens,
                    nextTime |-> noted.nextTime]
    <3>1. CASE limited
      <4>1. noted = [[c EXCEPT !.tokens = IF time > c.nextTime THEN FloodLimit - 1
                                          ELSE IF c.tokens = 0 THEN 0 ELSE c.tokens - 1,
                               !.nextTime = time + Quiet] EXCEPT !.last = n]
        <5>1. Commands!Max({0, c.tokens - 1}) = IF c.tokens = 0 THEN 0 ELSE c.tokens - 1
          <6>1. c.tokens \in Nat
            BY <1>1
          <6> HIDE DEF c
          <6> QED BY <6>1, OneTokenLess
        <5>2. noted = [[c EXCEPT !.tokens = IF time > c.nextTime THEN FloodLimit - 1
                                            ELSE Commands!Max({0, @ - 1}),
                                 !.nextTime = time + Quiet] EXCEPT !.last = n]
          BY <3>1, Zenon DEF Commands!Noted, Commands!Counted
        <5> HIDE DEF c, noted
        <5> QED BY ONLY <5>1, <5>2, <1>1
      <4> HIDE DEF c, noted
      <4> QED BY ONLY <4>1, <3>1, <1>1
    <3>2. CASE ~limited
      <4>1. noted = [c EXCEPT !.last = n]
        BY <3>2 DEF Commands!Noted
      <4> HIDE DEF c, noted
      <4> QED BY ONLY <4>1, <3>2, <1>1
    <3> QED BY <3>1, <3>2
  <2> HIDE DEF e, noted
  <2>6. r \in Executing
    <3>1. /\ noted.state \in {"primed", "active", "zombie"} /\ noted.last \in 0 .. Commands!Issued
          /\ noted.tokens \in 0 .. FloodLimit - 1 /\ noted.nextTime \in 0 .. time + Quiet
      BY <2>5, <1>1
    <3>2. noted \in [state : {"primed", "active", "zombie"}, last : 0 .. Commands!Issued,
                     tokens : 0 .. FloodLimit - 1, nextTime : 0 .. time + Quiet]
      BY ONLY <3>1, <2>5
    <3>3. Append(s.done, e) \in Seq(Noting)
      <4> HIDE DEF Noting
      <4> QED BY ONLY <1>1, <2>4, AppendProperties
    <3> QED BY ONLY <3>2, <3>3, <2>2 DEF Executing
  <2>7. Sound(r)
    <3>1. /\ r.done = Append(s.done, e) /\ r.cl = noted
      BY <2>2
    <3>2. /\ e.limited = limited /\ e.passed = ~ignored /\ e.time = time /\ e.number = c.last + 1
      BY <2>1 DEF e
    <3>3. CASE limited
      <4>1. e.limited /\ (e.passed = ~(s.cl.tokens = 0 /\ time < s.cl.nextTime))
        BY <3>2, <3>3
      <4>2. /\ r.cl.state = s.cl.state /\ r.cl.last = s.cl.last + 1
            /\ r.cl.tokens = IF time > s.cl.nextTime THEN FloodLimit - 1
                             ELSE IF s.cl.tokens = 0 THEN 0 ELSE s.cl.tokens - 1
            /\ r.cl.nextTime = time + Quiet
        BY <3>1, <3>3, <2>1, <2>5
      <4>3. time \in Nat /\ e.time = time /\ e.number = s.cl.last + 1
        BY <3>2
      <4> QED BY ONLY s \in Executing, Sound(s), <2>4, <3>1, <4>1, <4>2, <4>3, LimitedKeeps
    <3>4. CASE ~limited
      <4>1. ~e.limited /\ e.number = s.cl.last + 1
        BY <3>2, <3>4
      <4>2. /\ r.cl.state = s.cl.state /\ r.cl.last = s.cl.last + 1
            /\ r.cl.tokens = s.cl.tokens /\ r.cl.nextTime = s.cl.nextTime
        BY <3>1, <3>4, <2>1, <2>5
      <4> QED BY ONLY s \in Executing, Sound(s), <2>4, <3>1, <4>1, <4>2, UnlimitedKeeps
    <3> QED BY <3>3, <3>4
  <2> QED BY <2>1, <2>2, <2>5, <2>6, <2>7, <1>1
<1> QED BY <1>3, <1>4

\* SV_ExecuteClientMessage executes the commands of a message one after the other.
LEMMA ExecutedKeeps ==
  ASSUME time \in Nat \ {0}, client.limited \in Seq(BOOLEAN),
         NEW s \in Executing, Sound(s),
         NEW first \in 1 .. s.cl.last + 1, NEW last \in 0 .. Commands!Issued, first <= last + 1
  PROVE  /\ Commands!Executed(s, first, last) \in Executing
         /\ Sound(Commands!Executed(s, first, last))
         /\ Commands!Executed(s, first, last).cl.state = s.cl.state
         /\ s.cl.last <= Commands!Executed(s, first, last).cl.last
<1> DEFINE
      n == last - first + 1
      Good(k) == {x \in Executing : /\ Sound(x) /\ x.cl.state = s.cl.state /\ s.cl.last <= x.cl.last
                                    /\ first + k - 1 <= x.cl.last}
      Result(g) == g = [k \in 0 .. n |-> IF k = 0 THEN s
                                         ELSE Commands!ClientCommand(g[k - 1], first + k - 1)]
<1>1. n \in Nat /\ first \in Nat /\ s.cl.last \in Nat /\ Commands!Issued \in Nat
  BY DEF Executing, Commands!Issued
<1>2. s \in Good(0)
  BY <1>1
<1>3. ASSUME NEW k \in 1 .. n, NEW x \in Good(k - 1)
      PROVE  Commands!ClientCommand(x, first + k - 1) \in Good(k)
  <2> DEFINE number == first + k - 1
  <2>1. x \in Executing /\ Sound(x) /\ x.cl.last \in Nat
    BY DEF Executing
  <2>2. number \in 1 .. Commands!Issued /\ number <= x.cl.last + 1
    BY <1>1, <2>1
  <2>3. /\ Commands!ClientCommand(x, number) \in Executing /\ Sound(Commands!ClientCommand(x, number))
        /\ Commands!ClientCommand(x, number).cl.state = x.cl.state
        /\ x.cl.last <= Commands!ClientCommand(x, number).cl.last
        /\ number <= Commands!ClientCommand(x, number).cl.last
    <3> HIDE DEF number, Good
    <3> QED BY <2>1, <2>2, ClientCommandKeeps
  <2>4. Commands!ClientCommand(x, number).cl.last \in Nat
    BY <2>3 DEF Executing
  <2> QED BY <2>1, <2>3, <2>4, <1>1
<1> HIDE DEF Good
<1> DEFINE after == CHOOSE g : Result(g)
<1>4. Result(after)
  <2>1. \E g : Result(g)
    <3>5. n \in Nat /\ first \in Int
      BY <1>1
    <3> HIDE DEF n
    <3> DEFINE Reached(g, m) == g = [k \in 0 .. m |-> IF k = 0 THEN s
                                    ELSE Commands!ClientCommand(g[k - 1], first + k - 1)]
               Done == {m \in 0 .. n : \E g : Reached(g, m)}
    <3>1. 0 \in Done
      <4>1. Reached([k \in 0 .. 0 |-> s], 0)
        OBVIOUS
      <4>2. 0 \in 0 .. n
        BY <3>5
      <4> QED BY <4>1, <4>2, Zenon
    <3>2. ASSUME NEW m \in 1 .. n, m - 1 \in Done PROVE m \in Done
      <4>1. PICK g : Reached(g, m - 1)
        BY <3>2
      <4> DEFINE h == [k \in 0 .. m |-> IF k = m THEN Commands!ClientCommand(g[k - 1], first + k - 1)
                                        ELSE g[k]]
      <4>2. ASSUME NEW k \in 0 .. m
            PROVE  h[k] = IF k = 0 THEN s ELSE Commands!ClientCommand(h[k - 1], first + k - 1)
        <5>1. CASE k = 0
          BY <5>1, <4>1
        <5>2. CASE k # 0
          <6>1. k - 1 \in 0 .. m - 1 /\ k - 1 # m /\ k - 1 \in 0 .. m
            BY <5>2
          <6>2. h[k - 1] = g[k - 1]
            BY <6>1
          <6>3. CASE k = m
            BY <6>2, <6>3, <5>2
          <6>4. CASE k # m
            <7>1. k \in 0 .. m - 1
              BY <6>4
            <7>2. g[k] = Commands!ClientCommand(g[k - 1], first + k - 1)
              BY <7>1, <4>1, <5>2
            <7> QED BY <7>2, <6>2, <6>4, <5>2
          <6> QED BY <6>3, <6>4
        <5> QED BY <5>1, <5>2
      <4>3. h = [k \in 0 .. m |-> h[k]]
        OBVIOUS
      <4> HIDE DEF h
      <4>4. Reached(h, m)
        BY <4>2, <4>3
      <4> QED BY <4>4
    <3>3. n \in 0 .. n
      BY <3>5
    <3>4. 0 .. n \subseteq Done
      <4> HIDE DEF Done
      <4> QED BY <3>1, <3>2, <3>5, UpTo
    <3> QED BY <3>3, <3>4, Zenon
  <2> HIDE DEF Result
  <2> QED BY <2>1
<1>5. Commands!Executed(s, first, last) = after[n]
  BY DEF Commands!Executed
<1> HIDE DEF after
<1>6. after[n] \in Good(n)
  <2> DEFINE S == {k \in 0 .. n : after[k] \in Good(k)}
  <2>1. 0 \in S
    BY <1>1, <1>2, <1>4
  <2>2. ASSUME NEW k \in 1 .. n, k - 1 \in S PROVE k \in S
    <3>1. after[k] = Commands!ClientCommand(after[k - 1], first + k - 1)
      <4>1. k \in 0 .. n /\ k # 0
        BY <1>1
      <4> QED BY <4>1, <1>4
    <3> QED BY <2>2, <3>1, <1>3
  <2>3. n \in Nat /\ n \in 0 .. n
    BY <1>1
  <2> HIDE DEF S, n
  <2>4. 0 .. n \subseteq S
    BY ONLY <2>1, <2>2, <2>3, UpTo
  <2> QED BY <2>3, <2>4 DEF S
<1> QED BY <1>5, <1>6 DEF Good

\* A message in flight: it repeats the commands from one that is executed, or the next, on.
Told == {m \in [first : 1 .. cl.last + 1, last : 0 .. Commands!Issued] : m.first <= m.last + 1}

\* What the steps of ClientCommands keep.
CommandsInv ==
  /\ Commands!TypeOK
  /\ Sound([cl |-> cl, done |-> done])
  /\ toServer \in Seq(Told)

\* What is sound after a step, and stays so.
LEMMA SoundAfter ==
  ASSUME Sound([cl |-> cl', done |-> done'])
  PROVE  Sound([cl |-> cl, done |-> done])'
BY DEF Sound, Ordered, QuietFromLast, TokensLeft, FloodKept, RushedIn, PassedIn, LimitedIn

\* A step that executes nothing changes nothing of it.
LEMMA SoundStays ==
  ASSUME Sound([cl |-> cl, done |-> done]), cl' = cl, done' = done
  PROVE  Sound([cl |-> cl, done |-> done])'
<1>1. Sound([cl |-> cl', done |-> done'])
  OBVIOUS
<1> QED BY <1>1, SoundAfter

\* The types of the parts of the state that the steps change.
LEMMA CommandTypes ==
  ASSUME CommandsInv
  PROVE  /\ time \in Nat \ {0} /\ Commands!Issued \in Nat
         /\ client \in [limited : Seq(BOOLEAN), acknowledged : 0 .. cl.last]
         /\ client.limited \in Seq(BOOLEAN) /\ client.acknowledged \in 0 .. cl.last
         /\ [cl |-> cl, done |-> done] \in Executing
         /\ cl \in [state : {"primed", "active", "zombie"}, last : 0 .. Commands!Issued,
                    tokens : 0 .. FloodLimit - 1, nextTime : 0 .. time + Quiet]
         /\ toServer \in Seq(Told) /\ toClient \in Seq(0 .. cl.last)
         /\ WireCap \in Nat \ {0} /\ Quiet \in Nat /\ FloodLimit \in Nat \ {0}
<1>1. Commands!TypeOK /\ toServer \in Seq(Told)
  BY DEF CommandsInv
<1>2. /\ WireCap \in Nat \ {0} /\ Quiet \in Nat /\ FloodLimit \in Nat \ {0}
  BY CommandsAssumed DEF Commands!CommandsAssumption
<1>3. time \in Nat \ {0} /\ client.limited \in Seq(BOOLEAN)
      /\ client \in [limited : Seq(BOOLEAN), acknowledged : 0 .. cl.last]
      /\ client.acknowledged \in 0 .. cl.last /\ toClient \in Seq(0 .. cl.last)
  BY <1>1 DEF Commands!TypeOK
<1>4. Commands!Issued \in Nat
  BY <1>3 DEF Commands!Issued
<1>5. cl \in [state : {"primed", "active", "zombie"}, last : 0 .. Commands!Issued,
              tokens : 0 .. FloodLimit - 1, nextTime : 0 .. time + Quiet]
  BY <1>1 DEF Commands!TypeOK
<1>6. done \in Seq(Noting)
  BY <1>1 DEF Commands!TypeOK, Noting
<1>7. [cl |-> cl, done |-> done] \in Executing
  BY ONLY <1>5, <1>6 DEF Executing
<1> QED BY <1>1, <1>2, <1>3, <1>4, <1>5, <1>7

\* A message more on the wire.
LEMMA CommandPut ==
  ASSUME NEW S, NEW wire \in Seq(S), NEW m \in S
  PROVE  Commands!Put(wire, m) \in Seq(S)
<1>1. CASE Len(wire) < WireCap
  BY <1>1, AppendProperties DEF Commands!Put
<1>2. CASE ~(Len(wire) < WireCap)
  <2>1. wire # << >>
    BY <1>2, CommandsAssumed, EmptySeq DEF Commands!CommandsAssumption
  <2>2. Tail(wire) \in Seq(S)
    BY <2>1, HeadTailProperties
  <2>3. Append(Tail(wire), m) \in Seq(S)
    BY <2>2, AppendProperties
  <2> QED BY <1>2, <2>3 DEF Commands!Put
<1> QED BY <1>1, <1>2

\* What is left of a wire.
LEMMA WireRest ==
  ASSUME NEW S, NEW wire \in Seq(S), NEW i \in 1 .. Len(wire)
  PROVE  SubSeq(wire, i + 1, Len(wire)) \in Seq(S)
<1>1. Len(wire) \in Nat
  BY LenProperties
<1>2. \A j \in i + 1 .. Len(wire) : wire[j] \in S
  BY <1>1, ElementOfSeq
<1>3. i + 1 \in Int /\ Len(wire) \in Int
  BY <1>1
<1> QED BY <1>2, <1>3, SubSeqProperties

\* Types that grow with the time, the commands issued and those executed.
LEMMA CommandTypesGrow ==
  ASSUME CommandsInv, time' \in Nat, time <= time', time' \in 1 .. CommandTime,
         Commands!Issued' \in Nat, Commands!Issued <= Commands!Issued',
         cl' = cl, done' = done, toServer' = toServer, toClient' = toClient,
         client' \in [limited : Seq(BOOLEAN), acknowledged : 0 .. cl.last]
  PROVE  CommandsInv'
<1>1. /\ cl \in [state : {"primed", "active", "zombie"}, last : 0 .. Commands!Issued,
                 tokens : 0 .. FloodLimit - 1, nextTime : 0 .. time + Quiet]
      /\ time \in Nat /\ Commands!Issued \in Nat /\ Quiet \in Nat
      /\ toServer \in Seq(Told) /\ toClient \in Seq(0 .. cl.last)
  BY CommandTypes
<1>2. cl' \in [state : {"primed", "active", "zombie"}, last : 0 .. Commands!Issued',
               tokens : 0 .. FloodLimit - 1, nextTime : 0 .. time' + Quiet]
  <2>1. 0 .. Commands!Issued \subseteq 0 .. Commands!Issued'
    BY <1>1
  <2>2. 0 .. time + Quiet \subseteq 0 .. time' + Quiet
    <3>1. time \in Nat /\ time' \in Nat /\ Quiet \in Nat /\ time <= time'
      BY <1>1
    <3>2. ASSUME NEW t \in Nat, time <= t PROVE 0 .. time + Quiet \subseteq 0 .. t + Quiet
      BY <3>1, <3>2
    <3> QED BY ONLY <3>1, <3>2
  <2> QED BY <1>1, <2>1, <2>2
<1>3. done' \in Seq(Noting')
  <2>1. Noting \subseteq Noting'
    <3>1. 1 .. Commands!Issued \subseteq 1 .. Commands!Issued' /\ 1 .. time \subseteq 1 .. time'
      BY <1>1
    <3> QED BY ONLY <3>1 DEF Noting
  <2>2. done \in Seq(Noting)
    BY CommandTypes DEF Executing
  <2> HIDE DEF Noting
  <2> QED BY <2>1, <2>2, SeqMonotonic
<1>4. toServer' \in Seq(Told') /\ toServer' \in Seq([first : 1 .. cl.last + 1, last : 0 .. Commands!Issued'])
  <2>1. Told \subseteq Told' /\ Told \subseteq [first : 1 .. cl.last + 1, last : 0 .. Commands!Issued']
    <3>1. ASSUME NEW m \in Told
          PROVE  m \in [first : 1 .. cl.last + 1, last : 0 .. Commands!Issued'] /\ m.first <= m.last + 1
      <4>1. 0 .. Commands!Issued \subseteq 0 .. Commands!Issued'
        BY <1>1
      <4> QED BY <4>1 DEF Told
    <3> QED BY <3>1 DEF Told
  <2> HIDE DEF Told
  <2> QED BY <1>1, <2>1, SeqMonotonic
<1>5. Commands!TypeOK'
  BY <1>1, <1>2, <1>3, <1>4 DEF Commands!TypeOK, Noting
<1>6. Sound([cl |-> cl, done |-> done])'
  BY SoundStays DEF CommandsInv
<1> QED BY <1>4, <1>5, <1>6 DEF CommandsInv

\* A message of the client arrives.
LEMMA PacketEventKeeps ==
  ASSUME CommandsInv, Commands!PacketEvent
  PROVE  CommandsInv'
<1>1. PICK i \in 1 .. Len(toServer) : Commands!ExecuteClientMessage(i)
  BY DEF Commands!PacketEvent
<1> DEFINE s == [cl |-> cl, done |-> done]
           r == Commands!Executed(s, toServer[i].first, toServer[i].last)
<1>2. /\ time \in Nat \ {0} /\ client.limited \in Seq(BOOLEAN) /\ s \in Executing /\ Sound(s)
      /\ toServer \in Seq(Told) /\ toClient \in Seq(0 .. cl.last) /\ Commands!Issued \in Nat
      /\ cl.last \in Nat /\ client \in [limited : Seq(BOOLEAN), acknowledged : 0 .. cl.last]
  <2>1. cl.last \in Nat
    BY CommandTypes
  <2> QED BY <2>1, CommandTypes DEF CommandsInv
<1>3. /\ toServer[i].first \in 1 .. s.cl.last + 1 /\ toServer[i].last \in 0 .. Commands!Issued
      /\ toServer[i].first <= toServer[i].last + 1
  <2>1. toServer[i] \in Told
    BY <1>2, ElementOfSeq
  <2> QED BY <2>1 DEF Told
<1>4. /\ r \in Executing /\ Sound(r) /\ r.cl.state = cl.state /\ cl.last <= r.cl.last
  <2>1. s.cl = cl
    OBVIOUS
  <2> HIDE DEF s
  <2> QED BY <1>2, <1>3, <2>1, ExecutedKeeps
<1>5. /\ toServer' = SubSeq(toServer, i + 1, Len(toServer)) /\ done' = r.done
      /\ cl' = IF r.cl.state = "primed" THEN [r.cl EXCEPT !.state = "active"] ELSE r.cl
      /\ time' = time /\ client' = client /\ toClient' = toClient
  BY <1>1 DEF Commands!ExecuteClientMessage
<1> HIDE DEF s, r
<1>6. Commands!Issued' = Commands!Issued
  BY <1>5 DEF Commands!Issued
<1>7. /\ r.cl \in [state : {"primed", "active", "zombie"}, last : 0 .. Commands!Issued,
                   tokens : 0 .. FloodLimit - 1, nextTime : 0 .. time + Quiet]
      /\ r.done \in Seq(Noting) /\ r.cl.last \in Nat
  BY <1>4, <1>2 DEF Executing
<1>8. /\ cl' \in [state : {"primed", "active", "zombie"}, last : 0 .. Commands!Issued,
                  tokens : 0 .. FloodLimit - 1, nextTime : 0 .. time + Quiet]
      /\ cl'.last = r.cl.last /\ cl'.tokens = r.cl.tokens /\ cl'.nextTime = r.cl.nextTime
      /\ r.cl.state # "zombie" => cl'.state # "zombie"
  BY ONLY <1>5, <1>7
<1>9. Sound([cl |-> cl, done |-> done])'
  <2>1. r.cl.state # "zombie"
    BY <1>4 DEF Sound, Ordered
  <2>2. Ordered([cl |-> cl', done |-> done'])
    BY <1>4, <1>5, <1>8, <2>1 DEF Sound, Ordered
  <2>3. QuietFromLast([cl |-> cl', done |-> done'])
    BY <1>4, <1>5, <1>8 DEF Sound, QuietFromLast
  <2>4. TokensLeft([cl |-> cl', done |-> done']) /\ FloodKept([cl |-> cl', done |-> done'])
    BY <1>4, <1>5, <1>8 DEF Sound, TokensLeft, FloodKept
  <2>5. Sound([cl |-> cl', done |-> done'])
    BY <2>2, <2>3, <2>4 DEF Sound
  <2> QED BY <2>5, SoundAfter
<1>10. /\ toServer' \in Seq(Told')
       /\ toServer' \in Seq([first : 1 .. cl'.last + 1, last : 0 .. Commands!Issued])
       /\ toClient' \in Seq(0 .. cl'.last) /\ client \in [limited : Seq(BOOLEAN), acknowledged : 0 .. cl'.last]
  <2>1. 0 .. cl.last \subseteq 0 .. cl'.last /\ 1 .. cl.last + 1 \subseteq 1 .. cl'.last + 1
    <3>1. cl.last \in Nat /\ cl'.last \in Nat /\ cl.last <= cl'.last
      BY <1>2, <1>4, <1>7, <1>8
    <3> QED BY ONLY <3>1
  <2>2. Told \subseteq Told' /\ Told \subseteq [first : 1 .. cl'.last + 1, last : 0 .. Commands!Issued]
    BY <2>1, <1>6 DEF Told
  <2>3. SubSeq(toServer, i + 1, Len(toServer)) \in Seq(Told)
    BY <1>2, WireRest
  <2>4. /\ toServer' \in Seq(Told')
        /\ toServer' \in Seq([first : 1 .. cl'.last + 1, last : 0 .. Commands!Issued])
    <3> HIDE DEF Told
    <3> QED BY ONLY <1>5, <2>2, <2>3, SeqMonotonic
  <2>5. toClient' \in Seq(0 .. cl'.last)
    BY ONLY <1>2, <1>5, <2>1, SeqMonotonic
  <2>6. client \in [limited : Seq(BOOLEAN), acknowledged : 0 .. cl'.last]
    BY ONLY <1>2, <2>1
  <2> QED BY <2>4, <2>5, <2>6
<1>11. Commands!TypeOK'
  <2>1. time' \in 1 .. CommandTime
    BY <1>5 DEF CommandsInv, Commands!TypeOK
  <2>2. done' \in Seq(Noting)
    BY <1>5, <1>7
  <2> QED BY <1>2, <1>5, <1>6, <1>8, <1>10, <2>1, <2>2 DEF Commands!TypeOK, Noting
<1> QED BY <1>9, <1>10, <1>11 DEF CommandsInv

\* A message to the client.
LEMMA SendMessageKeeps ==
  ASSUME CommandsInv, Commands!SendMessage
  PROVE  CommandsInv'
<1>1. /\ toClient' = Commands!Put(toClient, cl.last)
      /\ time' = time /\ cl' = cl /\ done' = done /\ client' = client /\ toServer' = toServer
  BY DEF Commands!SendMessage
<1>2. toClient' \in Seq(0 .. cl.last)
  <2>1. toClient \in Seq(0 .. cl.last) /\ cl.last \in 0 .. cl.last
    BY CommandTypes
  <2> QED BY <1>1, <2>1, CommandPut
<1>3. Commands!TypeOK'
  BY <1>1, <1>2 DEF CommandsInv, Commands!TypeOK, Commands!Issued
<1>4. Sound([cl |-> cl, done |-> done])'
  BY <1>1, SoundStays DEF CommandsInv
<1>5. Told' = Told
  BY <1>1 DEF Told, Commands!Issued
<1> QED BY <1>1, <1>3, <1>4, <1>5 DEF CommandsInv

\* A later frame.
LEMMA FrameKeeps ==
  ASSUME CommandsInv, Commands!Frame
  PROVE  CommandsInv'
<1>1. /\ time < CommandTime /\ time' = time + 1
      /\ cl' = cl /\ done' = done /\ client' = client /\ toServer' = toServer /\ toClient' = toClient
  BY DEF Commands!Frame
<1>2. time \in Nat \ {0} /\ CommandTime \in Nat /\ Commands!Issued \in Nat
      /\ client \in [limited : Seq(BOOLEAN), acknowledged : 0 .. cl.last]
  BY CommandTypes, CommandsAssumed DEF Commands!CommandsAssumption
<1>3. Commands!Issued' = Commands!Issued
  BY <1>1 DEF Commands!Issued
<1> QED BY <1>1, <1>2, <1>3, CommandTypesGrow

\* The client issues a command.
LEMMA ClientIssuesKeeps ==
  ASSUME CommandsInv, Commands!ClientIssues
  PROVE  CommandsInv'
<1>1. PICK limited \in BOOLEAN : client' = [client EXCEPT !.limited = Append(@, limited)]
  BY DEF Commands!ClientIssues
<1>2. time' = time /\ cl' = cl /\ done' = done /\ toServer' = toServer /\ toClient' = toClient
  BY DEF Commands!ClientIssues
<1>3. /\ time \in Nat \ {0} /\ time \in 1 .. CommandTime
      /\ client.limited \in Seq(BOOLEAN)
      /\ client \in [limited : Seq(BOOLEAN), acknowledged : 0 .. cl.last]
  BY CommandTypes DEF CommandsInv, Commands!TypeOK
<1>4. /\ client'.limited = Append(client.limited, limited)
      /\ client'.acknowledged = client.acknowledged
  BY <1>1
<1>5. /\ client'.limited \in Seq(BOOLEAN) /\ Len(client'.limited) = Len(client.limited) + 1
      /\ Len(client.limited) \in Nat
  BY <1>3, <1>4, AppendProperties, LenProperties
<1>6. Commands!Issued' \in Nat /\ Commands!Issued <= Commands!Issued'
  BY <1>5 DEF Commands!Issued
<1>7. client' \in [limited : Seq(BOOLEAN), acknowledged : 0 .. cl.last]
  BY ONLY <1>1, <1>3, <1>4, <1>5
<1> QED BY <1>2, <1>3, <1>6, <1>7, CommandTypesGrow

\* The client sends the commands that are not acknowledged.
LEMMA ClientSendsKeeps ==
  ASSUME CommandsInv, Commands!ClientSends
  PROVE  CommandsInv'
<1> DEFINE m == [first |-> client.acknowledged + 1, last |-> Commands!Issued]
<1>1. /\ toServer' = Commands!Put(toServer, m)
      /\ time' = time /\ cl' = cl /\ done' = done /\ client' = client /\ toClient' = toClient
  BY DEF Commands!ClientSends
<1>2. m \in Told
  <2>1. client.acknowledged \in 0 .. cl.last /\ cl.last \in 0 .. Commands!Issued
        /\ Commands!Issued \in Nat
    BY CommandTypes
  <2> QED BY <2>1 DEF Told
<1>3. toServer' \in Seq(Told)
  <2> HIDE DEF m
  <2> QED BY <1>1, <1>2, CommandTypes, CommandPut
<1>4. Told \subseteq [first : 1 .. cl.last + 1, last : 0 .. Commands!Issued]
  BY DEF Told
<1>5. toServer' \in Seq([first : 1 .. cl.last + 1, last : 0 .. Commands!Issued])
  <2> HIDE DEF Told
  <2> QED BY <1>3, <1>4, SeqMonotonic
<1>6. Commands!TypeOK'
  BY <1>1, <1>5 DEF CommandsInv, Commands!TypeOK, Commands!Issued
<1>7. Sound([cl |-> cl, done |-> done])'
  BY <1>1, SoundStays DEF CommandsInv
<1>8. Told' = Told
  BY <1>1 DEF Told, Commands!Issued
<1> QED BY <1>3, <1>6, <1>7, <1>8 DEF CommandsInv

\* The client reads what the server executed last.
LEMMA ClientReadsKeeps ==
  ASSUME CommandsInv, Commands!ClientReads
  PROVE  CommandsInv'
<1>1. PICK i \in 1 .. Len(toClient) :
        /\ client' = [client EXCEPT !.acknowledged = toClient[i]]
        /\ toClient' = SubSeq(toClient, i + 1, Len(toClient))
  BY DEF Commands!ClientReads
<1>2. time' = time /\ cl' = cl /\ done' = done /\ toServer' = toServer
  BY DEF Commands!ClientReads
<1>3. /\ client \in [limited : Seq(BOOLEAN), acknowledged : 0 .. cl.last]
      /\ toClient \in Seq(0 .. cl.last)
  BY CommandTypes
<1>4. toClient' \in Seq(0 .. cl.last) /\ toClient[i] \in 0 .. cl.last
  BY <1>1, <1>3, WireRest, ElementOfSeq
<1>5. /\ client'.limited = client.limited
      /\ client' \in [limited : Seq(BOOLEAN), acknowledged : 0 .. cl.last]
  BY ONLY <1>1, <1>3, <1>4
<1>6. Commands!TypeOK'
  BY <1>2, <1>4, <1>5 DEF CommandsInv, Commands!TypeOK, Commands!Issued
<1>7. Sound([cl |-> cl, done |-> done])'
  BY <1>2, SoundStays DEF CommandsInv
<1>8. Told' = Told
  BY <1>2, <1>5 DEF Told, Commands!Issued
<1> QED BY <1>2, <1>6, <1>7, <1>8 DEF CommandsInv

\* The client begins with nothing sent and nothing executed.
LEMMA CommandsInitHolds == Commands!Init => CommandsInv
<1> SUFFICES ASSUME Commands!Init PROVE CommandsInv
  OBVIOUS
<1>1. /\ time = 1 /\ cl = [state |-> "primed", last |-> 0, tokens |-> 0, nextTime |-> 0]
      /\ done = << >> /\ client = [limited |-> << >>, acknowledged |-> 0]
      /\ toServer = << >> /\ toClient = << >>
  BY DEF Commands!Init
<1>2. Commands!Issued = 0
  BY <1>1 DEF Commands!Issued
<1>3. FloodLimit \in Nat \ {0} /\ Quiet \in Nat /\ CommandTime \in Nat \ {0}
  BY CommandsAssumed DEF Commands!CommandsAssumption
<1>4. Commands!TypeOK
  <2>1. /\ cl \in [state : {"primed", "active", "zombie"}, last : 0 .. 0,
                   tokens : 0 .. FloodLimit - 1, nextTime : 0 .. time + Quiet]
    BY <1>1, <1>3
  <2> QED BY <1>1, <1>2, <1>3, <2>1 DEF Commands!TypeOK
<1>5. Sound([cl |-> cl, done |-> done])
  <2>1. Len(done) = 0 /\ LimitedIn(done) = {}
    BY <1>1 DEF LimitedIn
  <2> QED BY <1>1, <2>1 DEF Sound, Ordered, QuietFromLast, TokensLeft, FloodKept
<1>6. toServer \in Seq(Told)
  BY <1>1, EmptySeq
<1> QED BY <1>4, <1>5, <1>6 DEF CommandsInv

\* Every step keeps the invariant.
LEMMA CommandsNextKeeps ==
  ASSUME CommandsInv, [Commands!Next]_(Commands!vars)
  PROVE  CommandsInv'
<1>1. CASE Commands!Next
  BY <1>1, PacketEventKeeps, SendMessageKeeps, FrameKeeps, ClientIssuesKeeps, ClientSendsKeeps,
     ClientReadsKeeps DEF Commands!Next
<1>2. CASE UNCHANGED Commands!vars
  <2>1. /\ time' = time /\ cl' = cl /\ done' = done /\ client' = client /\ toServer' = toServer
        /\ toClient' = toClient
    BY <1>2 DEF Commands!vars
  <2>2. Commands!TypeOK'
    BY <2>1 DEF CommandsInv, Commands!TypeOK, Commands!Issued
  <2>3. Sound([cl |-> cl, done |-> done])'
    BY <2>1, SoundStays DEF CommandsInv
  <2>4. Told' = Told
    BY <2>1 DEF Told, Commands!Issued
  <2> QED BY <2>1, <2>2, <2>3, <2>4 DEF CommandsInv
<1> QED BY <1>1, <1>2

\* What ClientCommands keeps, while that part is at work.
CommandsIInv == component = "commands" => CommandsInv

\* It holds of the parts together.
LEMMA CommandsHold == Spec => []CommandsIInv
<1>1. Init => CommandsIInv
  BY CommandsInitHolds DEF Init, CommandsIInv
<1>2. ASSUME CommandsIInv, [Next]_vars PROVE CommandsIInv'
  <2>1. SUFFICES ASSUME component = "commands" PROVE CommandsInv'
    BY <1>2, OnePart DEF CommandsIInv
  <2> QED BY <1>2, <2>1, OnePart, CommandsNextKeeps DEF CommandsIInv
<1> QED BY <1>1, <1>2, PTL DEF Spec

\* CommandsInOrder: each command of a client is executed once and in order, and a client that
\* keeps to the protocol is not dropped (SV_ExecuteClientMessage, SV_ClientCommand).
THEOREM CommandsStayInOrder == Spec => []CommandsInOrder
<1>1. CommandsInv => Commands!CommandsInOrder
  <2> SUFFICES ASSUME CommandsInv PROVE Commands!CommandsInOrder
    OBVIOUS
  <2>1. /\ cl.state # "zombie" /\ Len(done) = cl.last
        /\ \A i \in 1 .. Len(done) : done[i].number = i
    BY DEF CommandsInv, Sound, Ordered
  <2> QED BY <2>1 DEF Commands!CommandsInOrder
<1>2. CommandsIInv => CommandsInOrder
  BY <1>1 DEF CommandsIInv, CommandsInOrder
<1> QED BY <1>2, CommandsHold, PTL

\* FloodLimited: of commands in quick succession no more than the limit are passed on, whatever
\* the limit and the quiet time are (SV_ClientCommand).
THEOREM FloodStaysLimited == Spec => []FloodLimited
<1>1. CommandsInv => Commands!FloodLimited
  <2> SUFFICES ASSUME CommandsInv PROVE Commands!FloodLimited
    OBVIOUS
  <2>1. Commands!AllLimited = LimitedIn(done)
    BY DEF Commands!AllLimited, LimitedIn
  <2>2. ASSUME NEW i \in 1 .. Len(done), NEW j \in 1 .. Len(done), Commands!Rushed(i, j)
        PROVE  Commands!Cardinality({k \in Commands!AllLimited \cap i .. j : done[k].passed})
                 <= FloodLimit
    <3>1. RushedIn(done, i, j)
      BY <2>1, <2>2 DEF Commands!Rushed, RushedIn
    <3>2. Cardinality(PassedIn(done, i, j)) <= FloodLimit
      BY <3>1 DEF CommandsInv, Sound, FloodKept
    <3>3. {k \in Commands!AllLimited \cap i .. j : done[k].passed} = PassedIn(done, i, j)
      BY <2>1 DEF PassedIn
    <3> QED BY <3>2, <3>3 DEF Commands!Cardinality, Cardinality
  <2> QED BY <2>2 DEF Commands!FloodLimited
<1>2. CommandsIInv => FloodLimited
  BY <1>1 DEF CommandsIInv, FloodLimited
<1> QED BY <1>2, CommandsHold, PTL

-----------------------------------------------------------------------------
(* Snapshots.                                                              *)

\* The types of the client and of what it holds.
Holder ==
  [last : Nat, current : Nat, level : Nat,
   snaps : [0 .. PacketBackup - 1 -> {<< >>} \cup Nat \X Snapshots!Content]]

\* Places in the rings, or numbers of entries, and rings.
Places == [Snapshots!Rings -> Nat]

Filled(rings) ==
  \A r \in Snapshots!Rings : rings[r] \in [0 .. RingSize[r] - 1 -> Snapshots!Stamp]

\* What the frame f refers to was entered before the position.
Behind(f, position) == \A r \in Snapshots!Rings : f.first[r] + f.num[r] <= position[r]

\* The frame of message a: the client has what it refers to, as long as the server has it.
Kept(s, position, rings, snaps, a) ==
  s.outgoing - a < PacketBackup =>
    LET f == s.frames[a % PacketBackup] IN
      /\ Behind(f, position)
      /\ Snapshots!StillThere(f, position) =>
           snaps[a % PacketBackup] = <<a, Snapshots!Contents(rings, f)>>

\* A message to the server asks for differences to a, in this level.
Asked(a, wire, thisLevel) ==
  \E i \in 1 .. Len(wire) : a = wire[i].acknowledge /\ wire[i].delta /\ wire[i].level = thisLevel

\* The messages the server codes against, or may come to: the client says so, or may say so.
Relied ==
  {a \in Nat \ {0} :
     \/ a = client.current /\ client.level = level
     \/ a = cl.delta /\ cl.state = "active"
     \/ Asked(a, toServer, level)}

ReliedKept == \A a \in Relied : a <= client.last /\ Kept(cl, next, ring, client.snaps, a)

\* The frame of the next message is empty.
NextIsEmpty ==
  LET f == cl.frames[cl.outgoing % PacketBackup]
  IN  /\ f.ps = Snapshots!Nothing /\ \A r \in Snapshots!Rings : f.num[r] = 0
      /\ cl.state # "connected" => Behind(f, next)

\* The message in flight is the last one, and holds what its frame still refers to.
LastInFlight ==
  \A i \in 1 .. Len(toClient) : LET m == toClient[i] IN
    /\ m.number = cl.outgoing - 1 /\ (m.base # 0 => m.snapshot)
    /\ m.snapshot =>
         /\ cl.state = "active"
         /\ 1 < PacketBackup =>
              LET f == cl.frames[m.number % PacketBackup]
              IN  Behind(f, next) /\ m.to = Snapshots!Contents(ring, f)

\* The gamestates on the way are of later and later levels, and who plays has that of this one.
LevelsAscend ==
  /\ loading => level < MaxLevel
  /\ \A i \in 1 .. Len(gamestates) : client.level < gamestates[i]
  /\ \A i, j \in 1 .. Len(gamestates) : i < j => gamestates[i] < gamestates[j]
  /\ \A i \in 1 .. Len(toServer) : toServer[i].level <= client.level
  /\ ~cl.gamestate => client.level < level /\ \A i \in 1 .. Len(gamestates) : gamestates[i] < level
  /\ cl.state = "active" => client.level = level

\* What the steps of SnapshotFrames keep.
SnapshotsInv ==
  /\ Snapshots!TypeOK /\ client \in Holder
  /\ Snapshots!ShownIsBuilt /\ Snapshots!BaseAgrees
  /\ ReliedKept /\ NextIsEmpty /\ LastInFlight /\ LevelsAscend

\* From one position and rings to later ones nothing in a frame changes unnoticed.
Preserved(position, rings, position2, rings2) ==
  \A f \in Snapshots!Frame : Behind(f, position) =>
    /\ Behind(f, position2)
    /\ Snapshots!StillThere(f, position2) =>
         /\ Snapshots!StillThere(f, position)
         /\ Snapshots!Contents(rings2, f) = Snapshots!Contents(rings, f)

\* What is relied on.
LEMMA ReliedIs ==
  \A a : a \in Relied <=>
    /\ a \in Nat \ {0}
    /\ \/ a = client.current /\ client.level = level
       \/ a = cl.delta /\ cl.state = "active"
       \/ Asked(a, toServer, level)
BY DEF Relied

\* What is relied on after a step.
LEMMA ReliedAfter ==
  \A a : a \in Relied' <=>
    /\ a \in Nat \ {0}
    /\ \/ a = client'.current /\ client'.level = level'
       \/ a = cl'.delta /\ cl'.state = "active"
       \/ Asked(a, toServer', level')
BY DEF Relied, Asked

\* The constants, as the proofs use them.
LEMMA SnapshotConstants ==
  /\ PacketBackup \in Nat \ {0} /\ Margin \in 1 .. PacketBackup
  /\ SnapshotMessages \in Nat \ {0} /\ MaxLevel \in Nat \ {0}
  /\ \A r \in Snapshots!Rings : RingSize[r] \in Nat \ {0}
  /\ \A n \in Shown \cup OthersShown : n \in Places
  /\ \A n \in Shown, o \in OthersShown, r \in Snapshots!Rings : n[r] + o[r] <= RingSize[r]
BY SnapshotsAssumed DEF Snapshots!FrameAssumption, Snapshots!RingsAssumption,
   Snapshots!SizeAssumption, Snapshots!BoundAssumption, Places

\* What Entered puts where, and where it leaves things alone.
LEMMA EnteredAt ==
  ASSUME NEW rings, NEW position \in Places, NEW n \in Places, NEW stamp,
         NEW r \in Snapshots!Rings, NEW i \in 0 .. RingSize[r] - 1
  PROVE  /\ (\E k \in 0 .. n[r] - 1 : (position[r] + k) % RingSize[r] = i) =>
              Snapshots!Entered(rings, position, n, stamp)[r][i] = stamp
         /\ ~(\E k \in 0 .. n[r] - 1 : (position[r] + k) % RingSize[r] = i) =>
              Snapshots!Entered(rings, position, n, stamp)[r][i] = rings[r][i]
BY DEF Snapshots!Entered

\* A place has a number in the ring.
LEMMA PlaceInRing ==
  ASSUME NEW r \in Snapshots!Rings, NEW p \in Nat PROVE p % RingSize[r] \in 0 .. RingSize[r] - 1
BY SnapshotConstants

\* Rings stay rings.
LEMMA EnteredFilled ==
  ASSUME NEW rings, Filled(rings), NEW position \in Places, NEW n \in Places,
         NEW stamp \in Snapshots!Stamp
  PROVE  Filled(Snapshots!Entered(rings, position, n, stamp))
BY DEF Filled, Snapshots!Entered

\* Positions stay positions.
LEMMA AdvancedPlaces ==
  ASSUME NEW position \in Places, NEW n \in Places
  PROVE  /\ Snapshots!Advanced(position, n) \in Places
         /\ \A r \in Snapshots!Rings : Snapshots!Advanced(position, n)[r] = position[r] + n[r]
BY DEF Places, Snapshots!Advanced

\* An entry that is behind the position, and not overwritten yet, stays.
LEMMA EnteredLeaves ==
  ASSUME NEW rings, NEW position \in Places, NEW n \in Places, NEW stamp,
         NEW r \in Snapshots!Rings, NEW p \in Nat, p < position[r],
         position[r] + n[r] <= p + RingSize[r]
  PROVE  Snapshots!Entered(rings, position, n, stamp)[r][p % RingSize[r]] = rings[r][p % RingSize[r]]
<1>1. RingSize[r] \in Nat \ {0} /\ position[r] \in Nat /\ n[r] \in Nat
  BY SnapshotConstants DEF Places
<1>2. ASSUME NEW k \in 0 .. n[r] - 1 PROVE (position[r] + k) % RingSize[r] # p % RingSize[r]
  <2>1. position[r] + k \in Nat /\ p < position[r] + k /\ position[r] + k < p + RingSize[r]
    BY <1>1
  <2> QED BY <1>1, <2>1, PlacesDiffer
<1> QED BY <1>2, EnteredAt, PlaceInRing

\* Entering preserves the frames behind the position.
LEMMA EnteredPreserves ==
  ASSUME NEW rings, NEW position \in Places, NEW n \in Places, NEW stamp
  PROVE  Preserved(position, rings, Snapshots!Advanced(position, n),
                   Snapshots!Entered(rings, position, n, stamp))
<1> DEFINE later == Snapshots!Advanced(position, n)
<1> DEFINE filled == Snapshots!Entered(rings, position, n, stamp)
<1>0. later \in Places /\ \A r \in Snapshots!Rings : later[r] = position[r] + n[r]
  BY AdvancedPlaces
<1> HIDE DEF later, filled
<1> SUFFICES ASSUME NEW f \in Snapshots!Frame, Behind(f, position)
    PROVE  /\ Behind(f, later)
           /\ Snapshots!StillThere(f, later) =>
                /\ Snapshots!StillThere(f, position)
                /\ Snapshots!Contents(filled, f) = Snapshots!Contents(rings, f)
  BY Zenon DEF Preserved, later, filled
<1>1. \A r \in Snapshots!Rings :
        /\ f.first[r] \in Nat /\ f.num[r] \in Nat /\ position[r] \in Nat /\ n[r] \in Nat
        /\ RingSize[r] \in Nat
  BY SnapshotConstants DEF Snapshots!Frame, Places
<1>2. Behind(f, later)
  BY <1>0, <1>1 DEF Behind
<1>3. ASSUME Snapshots!StillThere(f, later) PROVE Snapshots!StillThere(f, position)
  BY <1>0, <1>1, <1>3 DEF Snapshots!StillThere
<1>4. ASSUME Snapshots!StillThere(f, later)
      PROVE  Snapshots!Contents(filled, f) = Snapshots!Contents(rings, f)
  <2>1. ASSUME NEW r \in Snapshots!Rings, NEW k \in 0 .. f.num[r] - 1
        PROVE  filled[r][(f.first[r] + k) % RingSize[r]] = rings[r][(f.first[r] + k) % RingSize[r]]
    <3>1. /\ f.first[r] + k \in Nat /\ f.first[r] + k < position[r]
          /\ position[r] + n[r] <= f.first[r] + k + RingSize[r]
      BY <1>0, <1>1, <1>4 DEF Behind, Snapshots!StillThere
    <3> QED BY <3>1, EnteredLeaves DEF filled
  <2>2. \A r \in Snapshots!Rings :
          {filled[r][(f.first[r] + k) % RingSize[r]] : k \in 0 .. f.num[r] - 1}
            = {rings[r][(f.first[r] + k) % RingSize[r]] : k \in 0 .. f.num[r] - 1}
    BY <2>1
  <2> QED BY <2>2, Zenon DEF Snapshots!Contents
<1> QED BY <1>2, <1>3, <1>4

\* One after the other.
LEMMA PreservedOn ==
  ASSUME NEW p, NEW s, NEW p2, NEW s2, NEW p3, NEW s3,
         Preserved(p, s, p2, s2), Preserved(p2, s2, p3, s3)
  PROVE  Preserved(p, s, p3, s3)
BY Zenon DEF Preserved

-----------------------------------------------------------------------------

\* What a frame refers to is the contents of a snapshot.
LEMMA ContentsTyped ==
  ASSUME NEW rings, Filled(rings), NEW f \in Snapshots!Frame
  PROVE  Snapshots!Contents(rings, f) \in Snapshots!Content
<1>1. \A r \in Snapshots!Rings : f.first[r] \in Nat /\ f.num[r] \in Nat
  BY DEF Snapshots!Frame
<1>2. ASSUME NEW r \in Snapshots!Rings, NEW k \in 0 .. f.num[r] - 1
      PROVE  rings[r][(f.first[r] + k) % RingSize[r]] \in Snapshots!Stamp
  <2>1. f.first[r] + k \in Nat BY <1>1
  <2> QED BY <2>1, PlaceInRing DEF Filled
<1>3. \A r \in Snapshots!Rings :
        {rings[r][(f.first[r] + k) % RingSize[r]] : k \in 0 .. f.num[r] - 1} \in SUBSET Snapshots!Stamp
  BY <1>2
<1>4. [r \in Snapshots!Rings |->
         {rings[r][(f.first[r] + k) % RingSize[r]] : k \in 0 .. f.num[r] - 1}]
        \in [Snapshots!Rings -> SUBSET Snapshots!Stamp]
  BY <1>3
<1>5. f.ps \in Snapshots!Stamp /\ f.num \in [Snapshots!Rings -> Nat]
  BY DEF Snapshots!Frame
<1> QED BY <1>4, <1>5, Zenon DEF Snapshots!Contents, Snapshots!Content

\* A cleared frame is a frame, and refers to nothing.
LEMMA ClearFrameTyped ==
  ASSUME NEW position \in Places
  PROVE  /\ Snapshots!ClearFrame(position) \in Snapshots!Frame
         /\ Snapshots!ClearFrame(position).ps = Snapshots!Nothing
         /\ \A r \in Snapshots!Rings : Snapshots!ClearFrame(position).num[r] = 0
         /\ Behind(Snapshots!ClearFrame(position), position)
BY SnapshotConstants DEF Snapshots!ClearFrame, Snapshots!Frame, Snapshots!Stamp, Snapshots!Nothing,
   Snapshots!Another, Behind, Places

\* The types, one by one.
LEMMA SnapshotTypes ==
  ASSUME Snapshots!TypeOK, client \in Holder
  PROVE  /\ cl \in [state : {"connected", "primed", "active"}, outgoing : 1 .. SnapshotMessages,
                     delta : -1 .. SnapshotMessages, gamestate : BOOLEAN,
                     frames : [0 .. PacketBackup - 1 -> Snapshots!Frame]]
         /\ next \in Places /\ Filled(ring) /\ level \in 1 .. MaxLevel /\ loading \in BOOLEAN
         /\ client.last \in 0 .. cl.outgoing - 1 /\ client.current \in 0 .. client.last
         /\ client.level \in 0 .. level
         /\ client.snaps \in [0 .. PacketBackup - 1 -> {<< >>} \cup Nat \X Snapshots!Content]
         /\ toClient \in Seq([number : 1 .. cl.outgoing - 1, snapshot : BOOLEAN,
                              base : 0 .. SnapshotMessages, to : Snapshots!Content,
                              from : Snapshots!Content])
         /\ toServer \in Seq([acknowledge : 0 .. client.last, delta : BOOLEAN, level : 0 .. level])
         /\ gamestates \in Seq(1 .. level)
BY DEF Snapshots!TypeOK, Holder, Places, Filled

\* The frame of a number is a frame.
LEMMA FrameOf ==
  ASSUME NEW s, s.frames \in [0 .. PacketBackup - 1 -> Snapshots!Frame], NEW a \in Nat
  PROVE  a % PacketBackup \in 0 .. PacketBackup - 1 /\ s.frames[a % PacketBackup] \in Snapshots!Frame
BY SnapshotConstants

\* A message that is not a snapshot, and one that is.
LEMMA MessageSays ==
  ASSUME NEW s, NEW kind, NEW position, NEW rings
  PROVE  LET m == Snapshots!Message(s, kind, position, rings) IN
         /\ m.number = s.outgoing
         /\ m.snapshot = (s.state = "active" /\ kind # "plain")
         /\ m.base = IF m.snapshot /\ kind # "full" THEN Snapshots!DeltaBase(s, position) ELSE 0
         /\ m.snapshot => m.to = Snapshots!Contents(rings, s.frames[s.outgoing % PacketBackup])
         /\ m.base # 0 => m.from = Snapshots!Contents(rings, s.frames[m.base % PacketBackup])
BY Zenon DEF Snapshots!Message

\* The type of a message.
LEMMA MessageTyped ==
  ASSUME NEW s, s.frames \in [0 .. PacketBackup - 1 -> Snapshots!Frame], s.outgoing \in Nat \ {0},
         s.delta \in -1 .. SnapshotMessages, NEW kind, NEW position \in Places,
         NEW rings, Filled(rings), NEW last \in Nat, s.outgoing <= last
  PROVE  Snapshots!Message(s, kind, position, rings)
           \in [number : 1 .. last, snapshot : BOOLEAN, base : 0 .. SnapshotMessages,
                to : Snapshots!Content, from : Snapshots!Content]
<1> DEFINE m == Snapshots!Message(s, kind, position, rings)
<1> DEFINE clear == Snapshots!ClearFrame(position)
<1>1. Snapshots!DeltaBase(s, position) \in 0 .. SnapshotMessages
  BY SnapshotConstants DEF Snapshots!DeltaBase
<1>2. m.base \in 0 .. SnapshotMessages
  BY <1>1, SnapshotConstants, MessageSays
<1>3. m.number \in 1 .. last
  BY MessageSays
<1>4. m.snapshot \in BOOLEAN
  BY Zenon DEF Snapshots!Message
<1>5. Snapshots!Contents(rings, clear) \in Snapshots!Content
  BY ContentsTyped, ClearFrameTyped
<1>6. s.frames[s.outgoing % PacketBackup] \in Snapshots!Frame
  BY FrameOf
<1>7. m.base # 0 => s.frames[m.base % PacketBackup] \in Snapshots!Frame
  BY <1>2, FrameOf, SnapshotConstants
<1>8. m.to \in {Snapshots!Contents(rings, clear),
               Snapshots!Contents(rings, s.frames[s.outgoing % PacketBackup])}
  BY Zenon DEF Snapshots!Message
<1>9. m.base # 0 => m.from = Snapshots!Contents(rings, s.frames[m.base % PacketBackup])
  BY MessageSays
<1>10. m.base = 0 => m.from = Snapshots!Contents(rings, clear)
  BY Zenon DEF Snapshots!Message
<1>11. m.to \in Snapshots!Content
  BY <1>5, <1>6, <1>8, ContentsTyped, Zenon
<1>12. m.from \in Snapshots!Content
  BY <1>5, <1>7, <1>9, <1>10, ContentsTyped, Zenon
<1>13. m = [number |-> m.number, snapshot |-> m.snapshot, base |-> m.base, to |-> m.to,
           from |-> m.from]
  BY Zenon DEF Snapshots!Message
<1>14. [number |-> m.number, snapshot |-> m.snapshot, base |-> m.base, to |-> m.to,
        from |-> m.from]
         \in [number : 1 .. last, snapshot : BOOLEAN, base : 0 .. SnapshotMessages,
              to : Snapshots!Content, from : Snapshots!Content]
  BY <1>2, <1>3, <1>4, <1>11, <1>12, Zenon
<1> QED BY <1>13, <1>14, Zenon

-----------------------------------------------------------------------------
(* Sending.                                                                *)

\* What SV_WriteSnapshotToClient codes against.
LEMMA BaseIs ==
  ASSUME NEW s, NEW position, s.outgoing \in Nat, s.delta \in -1 .. SnapshotMessages,
         Snapshots!DeltaBase(s, position) # 0
  PROVE  /\ Snapshots!DeltaBase(s, position) = s.delta /\ s.delta \in Nat \ {0}
         /\ s.state = "active" /\ s.outgoing - s.delta + 1 < PacketBackup
         /\ Snapshots!StillThere(s.frames[s.delta % PacketBackup], position)
BY SnapshotConstants DEF Snapshots!DeltaBase, Snapshots!TooOld

\* Clearing the next frame leaves the others alone.
LEMMA TransmittedFrames ==
  ASSUME NEW s, s.frames \in [0 .. PacketBackup - 1 -> Snapshots!Frame], s.outgoing \in Nat,
         NEW position \in Places
  PROVE  LET frames == Snapshots!Transmitted(s, position).frames IN
         /\ frames \in [0 .. PacketBackup - 1 -> Snapshots!Frame]
         /\ frames[(s.outgoing + 1) % PacketBackup] = Snapshots!ClearFrame(position)
         /\ \A a \in Nat : a <= s.outgoing /\ s.outgoing + 1 - a < PacketBackup =>
              frames[a % PacketBackup] = s.frames[a % PacketBackup]
<1> DEFINE n == (s.outgoing + 1) % PacketBackup
<1> DEFINE frames == [s.frames EXCEPT ![n] = Snapshots!ClearFrame(position)]
<1>1. n \in 0 .. PacketBackup - 1
  BY SnapshotConstants
<1>2. Snapshots!ClearFrame(position) \in Snapshots!Frame
  BY ClearFrameTyped
<1>3. ASSUME NEW a \in Nat, a <= s.outgoing, s.outgoing + 1 - a < PacketBackup
      PROVE  a % PacketBackup # n
  <2>1. s.outgoing + 1 \in Nat /\ a < s.outgoing + 1 /\ s.outgoing + 1 < a + PacketBackup
    BY <1>3, SnapshotConstants
  <2> QED BY <2>1, PlacesDiffer, SnapshotConstants
<1>4. \A a \in Nat : a % PacketBackup \in 0 .. PacketBackup - 1
  BY SnapshotConstants
<1> HIDE DEF n
<1>5. /\ frames \in [0 .. PacketBackup - 1 -> Snapshots!Frame]
      /\ frames[n] = Snapshots!ClearFrame(position)
      /\ \A a \in Nat : a <= s.outgoing /\ s.outgoing + 1 - a < PacketBackup =>
           frames[a % PacketBackup] = s.frames[a % PacketBackup]
  BY <1>1, <1>2, <1>3, <1>4
<1>6. Snapshots!Transmitted(s, position).frames = frames
  BY DEF Snapshots!Transmitted, n
<1> QED BY <1>5, <1>6, Zenon DEF n

\* The client_t s is ready to send: its earlier frames are those of cl, what was entered since
\* overwrites nothing unnoticed, and the frame it shows is what was built, if anything was.
Ready(s, kind, position, rings) ==
  /\ s.outgoing = cl.outgoing /\ s.state = cl.state /\ s.delta = cl.delta
  /\ s.frames \in [0 .. PacketBackup - 1 -> Snapshots!Frame]
  /\ \A a \in Nat : a < cl.outgoing /\ cl.outgoing - a < PacketBackup =>
       s.frames[a % PacketBackup] = cl.frames[a % PacketBackup]
  /\ position \in Places /\ Filled(rings) /\ Preserved(next, ring, position, rings)
  /\ cl.state = "active" /\ kind # "plain" =>
       LET f == s.frames[cl.outgoing % PacketBackup]
           to == Snapshots!Contents(rings, f)
       IN  /\ Behind(f, position) /\ to.ps \in {Snapshots!Nothing, cl.outgoing}
           /\ \A r \in Snapshots!Rings :
                to.seen[r] \subseteq {to.ps} /\ (to.ps = Snapshots!Nothing => to.num[r] = 0)

\* What is relied on stays, when it is not overwritten unnoticed.
LEMMA ReliedStays ==
  ASSUME SnapshotsInv, Relied' \subseteq Relied, client' = client,
         cl'.outgoing \in Nat, cl.outgoing <= cl'.outgoing,
         \A a \in Relied : cl'.outgoing - a < PacketBackup =>
           cl'.frames[a % PacketBackup] = cl.frames[a % PacketBackup],
         Preserved(next, ring, next', ring')
  PROVE  ReliedKept'
<1> SUFFICES ASSUME NEW a \in Relied PROVE a <= client'.last /\ Kept(cl, next, ring, client.snaps, a)'
  BY DEF ReliedKept
<1>1. a \in Nat /\ a <= client.last /\ Kept(cl, next, ring, client.snaps, a)
  BY DEF SnapshotsInv, ReliedKept, Relied
<1>2. cl.outgoing \in Nat /\ cl.frames \in [0 .. PacketBackup - 1 -> Snapshots!Frame]
  BY SnapshotTypes DEF SnapshotsInv
<1>3. cl.frames[a % PacketBackup] \in Snapshots!Frame
  BY <1>1, <1>2, FrameOf
<1>4. ASSUME cl'.outgoing - a < PacketBackup
      PROVE  /\ Behind(cl.frames[a % PacketBackup], next')
             /\ Snapshots!StillThere(cl.frames[a % PacketBackup], next') =>
                  client.snaps[a % PacketBackup]
                    = <<a, Snapshots!Contents(ring', cl.frames[a % PacketBackup])>>
  <2>1. cl.outgoing - a < PacketBackup
    BY <1>1, <1>2, <1>4, SnapshotConstants
  <2> QED BY <1>1, <1>3, <2>1, Zenon DEF Kept, Preserved
<1>5. Kept(cl', next', ring', client.snaps, a)
  BY <1>4, Zenon DEF Kept
<1>6. Kept(cl, next, ring, client.snaps, a)' = Kept(cl', next', ring', client'.snaps, a)
  BY DEF Kept, Behind, Snapshots!StillThere, Snapshots!Contents
<1> QED BY <1>1, <1>5, <1>6

\* A message is sent.
LEMMA SentKeeps ==
  ASSUME SnapshotsInv, NEW s, NEW kind, Ready(s, kind, next', ring'), Snapshots!MayTransmit,
         toClient' = <<Snapshots!Message(s, kind, next', ring')>>,
         cl'.outgoing = cl.outgoing + 1, cl'.delta = cl.delta,
         cl'.frames = Snapshots!Transmitted(s, next').frames,
         cl'.state = "active" <=> cl.state = "active",
         client' = client, toServer' = toServer, level' = level
  PROVE  /\ cl'.outgoing \in 1 .. SnapshotMessages
         /\ cl'.frames \in [0 .. PacketBackup - 1 -> Snapshots!Frame]
         /\ toClient' \in Seq([number : 1 .. cl'.outgoing - 1, snapshot : BOOLEAN,
                               base : 0 .. SnapshotMessages, to : Snapshots!Content,
                               from : Snapshots!Content])
         /\ Snapshots!ShownIsBuilt' /\ Snapshots!BaseAgrees'
         /\ ReliedKept' /\ NextIsEmpty' /\ LastInFlight'
<1> DEFINE m == Snapshots!Message(s, kind, next', ring')
<1> DEFINE f == s.frames[cl.outgoing % PacketBackup]
<1>1. /\ cl.outgoing \in 1 .. SnapshotMessages /\ cl.delta \in -1 .. SnapshotMessages
      /\ cl.frames \in [0 .. PacketBackup - 1 -> Snapshots!Frame]
      /\ client.last \in 0 .. cl.outgoing - 1
  BY SnapshotTypes DEF SnapshotsInv
<1>2. /\ s.outgoing = cl.outgoing /\ s.state = cl.state /\ s.delta = cl.delta
      /\ s.frames \in [0 .. PacketBackup - 1 -> Snapshots!Frame]
      /\ next' \in Places /\ Filled(ring') /\ Preserved(next, ring, next', ring')
  BY Zenon DEF Ready
<1>3. cl'.outgoing \in 1 .. SnapshotMessages
  BY <1>1, SnapshotConstants DEF Snapshots!MayTransmit
<1>4. /\ cl'.frames \in [0 .. PacketBackup - 1 -> Snapshots!Frame]
      /\ cl'.frames[cl'.outgoing % PacketBackup] = Snapshots!ClearFrame(next')
      /\ \A a \in Nat : a <= cl.outgoing /\ cl.outgoing + 1 - a < PacketBackup =>
           cl'.frames[a % PacketBackup] = s.frames[a % PacketBackup]
  BY <1>1, <1>2, TransmittedFrames
<1>5. m \in [number : 1 .. cl'.outgoing - 1, snapshot : BOOLEAN, base : 0 .. SnapshotMessages,
            to : Snapshots!Content, from : Snapshots!Content]
  <2>1. s.outgoing \in Nat \ {0} /\ s.outgoing <= cl.outgoing /\ cl.outgoing \in Nat
    BY <1>1, <1>2
  <2>2. m \in [number : 1 .. cl.outgoing, snapshot : BOOLEAN, base : 0 .. SnapshotMessages,
              to : Snapshots!Content, from : Snapshots!Content]
    BY <1>1, <1>2, <2>1, MessageTyped
  <2>3. cl'.outgoing - 1 = cl.outgoing
    BY <1>1
  <2> QED BY <2>2, <2>3, Zenon
<1>6. /\ m.number = cl.outgoing
      /\ m.snapshot = (cl.state = "active" /\ kind # "plain")
      /\ m.base # 0 => m.snapshot /\ m.base = Snapshots!DeltaBase(s, next')
      /\ m.snapshot => m.to = Snapshots!Contents(ring', f)
      /\ m.base # 0 => m.from = Snapshots!Contents(ring', s.frames[m.base % PacketBackup])
  <2>1. /\ m.number = s.outgoing
        /\ m.snapshot = (s.state = "active" /\ kind # "plain")
        /\ m.base = IF m.snapshot /\ kind # "full" THEN Snapshots!DeltaBase(s, next') ELSE 0
        /\ m.snapshot => m.to = Snapshots!Contents(ring', s.frames[s.outgoing % PacketBackup])
        /\ m.base # 0 => m.from = Snapshots!Contents(ring', s.frames[m.base % PacketBackup])
    BY ONLY MessageSays
  <2> HIDE DEF m
  <2> QED BY <1>2, <2>1
<1>7. \A a \in Relied : a \in Nat \ {0} /\ a < cl.outgoing
  BY <1>1 DEF SnapshotsInv, ReliedKept, Relied
<1>8. \A a \in Nat : a < cl.outgoing /\ cl.outgoing - a < PacketBackup =>
        s.frames[a % PacketBackup] = cl.frames[a % PacketBackup]
  BY Zenon DEF Ready
<1> HIDE DEF m, f
<1>9. \A i \in 1 .. Len(toClient') : toClient'[i] = m
  BY DEF m
<1>10. toClient' \in Seq([number : 1 .. cl'.outgoing - 1, snapshot : BOOLEAN,
                          base : 0 .. SnapshotMessages, to : Snapshots!Content,
                          from : Snapshots!Content])
  BY <1>5 DEF m
<1>11. m.snapshot => /\ Behind(f, next') /\ m.to.ps \in {Snapshots!Nothing, m.number}
                     /\ \A r \in Snapshots!Rings :
                          /\ m.to.seen[r] \subseteq {m.to.ps}
                          /\ m.to.ps = Snapshots!Nothing => m.to.num[r] = 0
  BY <1>6, Zenon DEF Ready, f
<1>12. Snapshots!ShownIsBuilt'
  BY <1>9, <1>11, Zenon DEF Snapshots!ShownIsBuilt, Snapshots!Nothing
<1>13. Relied' = Relied
  BY ReliedAfter DEF Relied
<1>14. ReliedKept'
  <2>1. ASSUME NEW a \in Relied, cl'.outgoing - a < PacketBackup
        PROVE  cl'.frames[a % PacketBackup] = cl.frames[a % PacketBackup]
    <3>1. a \in Nat /\ a < cl.outgoing
      BY <1>7
    <3>2. a <= cl.outgoing /\ cl.outgoing + 1 - a < PacketBackup /\ cl.outgoing - a < PacketBackup
      BY <1>1, <2>1, <3>1, SnapshotConstants
    <3> QED BY <1>4, <1>8, <3>1, <3>2, Zenon
  <2> QED BY <1>1, <1>2, <1>3, <1>13, <2>1, ReliedStays
<1>15. NextIsEmpty'
  <2>1. \A g : Behind(g, next)' = Behind(g, next')
    BY DEF Behind
  <2>2. LET g == cl'.frames[cl'.outgoing % PacketBackup]
        IN  g.ps = Snapshots!Nothing /\ (\A r \in Snapshots!Rings : g.num[r] = 0) /\ Behind(g, next')
    BY <1>2, <1>4, ClearFrameTyped
  <2> QED BY <2>2 DEF NextIsEmpty, Behind
<1>16. LastInFlight'
  <2>1. m.number = cl'.outgoing - 1 /\ (m.base # 0 => m.snapshot)
    BY <1>1, <1>6
  <2>2. ASSUME m.snapshot, 1 < PacketBackup
        PROVE  /\ Behind(cl'.frames[m.number % PacketBackup], next')
               /\ m.to = Snapshots!Contents(ring', cl'.frames[m.number % PacketBackup])
    <3>1. cl'.frames[m.number % PacketBackup] = f
      <4>1. cl.outgoing \in Nat /\ cl.outgoing <= cl.outgoing /\ cl.outgoing + 1 - cl.outgoing < PacketBackup
        BY <1>1, <2>2, SnapshotConstants
      <4>2. cl'.frames[cl.outgoing % PacketBackup] = s.frames[cl.outgoing % PacketBackup]
        BY <1>4, <4>1, Zenon
      <4> QED BY <1>6, <4>2, Zenon DEF f
    <3> QED BY <1>6, <1>11, <2>2, <3>1, Zenon
  <2>3. m.snapshot => cl'.state = "active"
    BY <1>6
  <2>4. \A g : /\ Behind(g, next)' = Behind(g, next')
               /\ Snapshots!Contents(ring, g)' = Snapshots!Contents(ring', g)
    BY DEF Behind, Snapshots!Contents
  <2>5. \A i \in 1 .. Len(toClient') :
          /\ toClient'[i].number = cl'.outgoing - 1
          /\ toClient'[i].base # 0 => toClient'[i].snapshot
          /\ toClient'[i].snapshot =>
               /\ cl'.state = "active"
               /\ 1 < PacketBackup =>
                    /\ Behind(cl'.frames[toClient'[i].number % PacketBackup], next')
                    /\ toClient'[i].to
                         = Snapshots!Contents(ring', cl'.frames[toClient'[i].number % PacketBackup])
    BY <1>9, <2>1, <2>2, <2>3, Zenon
  <2> QED BY <2>5, Zenon DEF LastInFlight, Behind, Snapshots!Contents
<1>17. Snapshots!BaseAgrees'
  <2>1. SUFFICES ASSUME m.base # 0
                 PROVE  client.snaps[m.base % PacketBackup] = <<m.base, m.from>>
    BY <1>9, Zenon DEF Snapshots!BaseAgrees, Snapshots!Has
  <2>2. /\ m.base = cl.delta /\ cl.delta \in Nat \ {0} /\ cl.state = "active"
        /\ cl.outgoing - cl.delta + 1 < PacketBackup
        /\ Snapshots!StillThere(s.frames[cl.delta % PacketBackup], next')
    BY <1>1, <1>2, <1>6, <2>1, BaseIs
  <2>3. cl.delta \in Relied
    BY <2>2 DEF Relied
  <2>4. s.frames[cl.delta % PacketBackup] = cl.frames[cl.delta % PacketBackup]
    <3>1. cl.delta \in Nat /\ cl.delta < cl.outgoing
      BY <1>7, <2>3
    <3>2. cl.outgoing - cl.delta < PacketBackup
      BY <1>1, <2>2, <3>1, SnapshotConstants
    <3> QED BY <1>8, <3>1, <3>2, Zenon
  <2>5. Kept(cl, next, ring, client.snaps, cl.delta) /\ cl.outgoing - cl.delta < PacketBackup
    BY <1>1, <2>2, <2>3, SnapshotConstants DEF SnapshotsInv, ReliedKept
  <2>6. cl.frames[cl.delta % PacketBackup] \in Snapshots!Frame
    BY <1>1, <2>2, FrameOf
  <2>7. client.snaps[cl.delta % PacketBackup]
          = <<cl.delta, Snapshots!Contents(ring', cl.frames[cl.delta % PacketBackup])>>
    BY <1>2, <2>2, <2>4, <2>5, <2>6, Zenon DEF Kept, Preserved
  <2> QED BY <1>6, <2>1, <2>2, <2>4, <2>7
<1> QED BY <1>3, <1>4, <1>10, <1>12, <1>14, <1>15, <1>16, <1>17

\* A client_t.
ClientRecord ==
  [state : {"connected", "primed", "active"}, outgoing : 1 .. SnapshotMessages,
   delta : -1 .. SnapshotMessages, gamestate : BOOLEAN,
   frames : [0 .. PacketBackup - 1 -> Snapshots!Frame]]

\* A client_t after its message is one.
LEMMA TransmittedTyped ==
  ASSUME NEW s \in ClientRecord, s.outgoing < SnapshotMessages, NEW position \in Places
  PROVE  LET after == Snapshots!Transmitted(s, position) IN
         /\ after \in ClientRecord /\ after.outgoing = s.outgoing + 1 /\ after.state = s.state
         /\ after.delta = s.delta /\ after.gamestate = s.gamestate
<1>1. s.outgoing \in 1 .. SnapshotMessages
  BY DEF ClientRecord
<1>2. (s.outgoing + 1) % PacketBackup \in 0 .. PacketBackup - 1
  BY <1>1, SnapshotConstants
<1>3. s.outgoing + 1 \in 1 .. SnapshotMessages
  BY <1>1, SnapshotConstants
<1>4. Snapshots!ClearFrame(position) \in Snapshots!Frame
  BY ClearFrameTyped
<1> DEFINE n == (s.outgoing + 1) % PacketBackup
<1> DEFINE clear == Snapshots!ClearFrame(position)
<1> HIDE DEF n, clear
<1>5. [s EXCEPT !.outgoing = @ + 1, !.frames[n] = clear] = Snapshots!Transmitted(s, position)
  BY DEF Snapshots!Transmitted, n, clear
<1>6. [s EXCEPT !.outgoing = @ + 1, !.frames[n] = clear] \in ClientRecord
  BY <1>2, <1>3, <1>4 DEF ClientRecord, n, clear
<1>7. LET after == [s EXCEPT !.outgoing = @ + 1, !.frames[n] = clear] IN
      /\ after.outgoing = s.outgoing + 1 /\ after.state = s.state
      /\ after.delta = s.delta /\ after.gamestate = s.gamestate
  BY DEF ClientRecord
<1> QED BY <1>5, <1>6, <1>7, Zenon

\* The types after a step of the server that sends.
LEMMA SendTyped ==
  ASSUME SnapshotsInv, cl' \in ClientRecord, cl'.outgoing = cl.outgoing + 1,
         next' \in Places, Filled(ring'), loading' \in BOOLEAN,
         level' = level, client' = client, toServer' = toServer,
         toClient' \in Seq([number : 1 .. cl'.outgoing - 1, snapshot : BOOLEAN,
                            base : 0 .. SnapshotMessages, to : Snapshots!Content,
                            from : Snapshots!Content]),
         gamestates' \in Seq(1 .. level)
  PROVE  Snapshots!TypeOK' /\ client' \in Holder
<1>1. Snapshots!TypeOK /\ client \in Holder
  BY DEF SnapshotsInv
<1>2. cl.outgoing \in Nat
  BY <1>1, SnapshotTypes
<1>3. client'.last \in 0 .. cl'.outgoing - 1
  BY <1>1, <1>2, SnapshotTypes
<1>4. Filled(ring') => \A r \in Snapshots!Rings : ring'[r] \in [0 .. RingSize[r] - 1 -> Snapshots!Stamp]
  BY DEF Filled
<1>5. /\ client'.current \in 0 .. client'.last /\ level' \in 1 .. MaxLevel
      /\ client'.level \in 0 .. level'
      /\ \A n \in DOMAIN client'.snaps : client'.snaps[n] # << >> =>
           client'.snaps[n] \in (1 .. client'.last) \X Snapshots!Content
      /\ toServer' \in Seq([acknowledge : 0 .. client'.last, delta : BOOLEAN, level : 0 .. level'])
      /\ gamestates' \in Seq(1 .. level')
  BY <1>1 DEF Snapshots!TypeOK
<1> QED BY <1>1, <1>3, <1>4, <1>5, Zenon DEF Snapshots!TypeOK, ClientRecord, Places

\* Building the frame of a client.
LEMMA WithFrameBuilds ==
  ASSUME NEW s \in ClientRecord, NEW position \in Places, NEW n \in Places
  PROVE  LET after == Snapshots!WithFrame(s, position, n) IN
         /\ after \in ClientRecord /\ after.outgoing = s.outgoing /\ after.state = s.state
         /\ after.delta = s.delta /\ after.gamestate = s.gamestate
         /\ after.frames[s.outgoing % PacketBackup] = [ps |-> s.outgoing, first |-> position, num |-> n]
         /\ \A a \in Nat : a < s.outgoing /\ s.outgoing - a < PacketBackup =>
              after.frames[a % PacketBackup] = s.frames[a % PacketBackup]
<1> DEFINE i == s.outgoing % PacketBackup
<1> DEFINE f == [ps |-> s.outgoing, first |-> position, num |-> n]
<1> DEFINE after == [s EXCEPT !.frames[i] = f]
<1>1. s.outgoing \in 1 .. SnapshotMessages
  BY DEF ClientRecord
<1>2. i \in 0 .. PacketBackup - 1
  BY <1>1, SnapshotConstants
<1>3. f \in Snapshots!Frame
  BY <1>1, SnapshotConstants DEF Snapshots!Frame, Snapshots!Stamp, Snapshots!Another, Places
<1>4. ASSUME NEW a \in Nat, a < s.outgoing, s.outgoing - a < PacketBackup
      PROVE  a % PacketBackup # i
  <2>1. s.outgoing \in Nat /\ s.outgoing < a + PacketBackup
    BY <1>1, <1>4, SnapshotConstants
  <2> QED BY <1>4, <2>1, PlacesDiffer, SnapshotConstants
<1>5. \A a \in Nat : a % PacketBackup \in 0 .. PacketBackup - 1
  BY SnapshotConstants
<1>6. after = Snapshots!WithFrame(s, position, n)
  BY DEF Snapshots!WithFrame
<1> HIDE DEF i, f
<1>7. /\ after \in ClientRecord /\ after.outgoing = s.outgoing /\ after.state = s.state
      /\ after.delta = s.delta /\ after.gamestate = s.gamestate /\ after.frames[i] = f
      /\ after.frames = [s.frames EXCEPT ![i] = f]
  BY <1>2, <1>3 DEF ClientRecord
<1>8. s.frames \in [0 .. PacketBackup - 1 -> Snapshots!Frame]
  BY DEF ClientRecord
<1> HIDE DEF after
<1>9. \A a \in Nat : a < s.outgoing /\ s.outgoing - a < PacketBackup =>
        after.frames[a % PacketBackup] = s.frames[a % PacketBackup]
  BY <1>4, <1>5, <1>7, <1>8
<1> QED BY <1>6, <1>7, <1>9, Zenon DEF i, f

\* What SV_SendClientMessages enters in a frame: others before the client, the client, others
\* behind it.
LEMMA FrameEntered ==
  ASSUME NEW rings, Filled(rings), NEW p \in Places,
         NEW before \in OthersShown, NEW n \in Shown, NEW behind \in OthersShown,
         NEW number \in 1 .. SnapshotMessages
  PROVE  LET own == Snapshots!Advanced(p, before)
             own2 == Snapshots!Advanced(own, n)
             after == Snapshots!Advanced(own2, behind)
             entered == Snapshots!Entered(Snapshots!Entered(Snapshots!Entered(
                          rings, p, before, Snapshots!Another), own, n, number), own2, behind,
                          Snapshots!Another)
             f == [ps |-> number, first |-> own, num |-> n]
         IN  /\ own \in Places /\ after \in Places /\ Filled(entered)
             /\ Preserved(p, rings, after, entered) /\ Behind(f, after)
             /\ \A r \in Snapshots!Rings :
                  Snapshots!Contents(entered, f).seen[r] \subseteq {number}
<1> DEFINE own == Snapshots!Advanced(p, before)
<1> DEFINE own2 == Snapshots!Advanced(own, n)
<1> DEFINE after == Snapshots!Advanced(own2, behind)
<1> DEFINE one == Snapshots!Entered(rings, p, before, Snapshots!Another)
<1> DEFINE two == Snapshots!Entered(one, own, n, number)
<1> DEFINE entered == Snapshots!Entered(two, own2, behind, Snapshots!Another)
<1> DEFINE f == [ps |-> number, first |-> own, num |-> n]
<1>1. before \in Places /\ n \in Places /\ behind \in Places
  BY SnapshotConstants
<1>2. /\ own \in Places /\ own2 \in Places /\ after \in Places
      /\ \A r \in Snapshots!Rings : own2[r] = own[r] + n[r] /\ after[r] = own2[r] + behind[r]
  BY <1>1, AdvancedPlaces
<1>3. Snapshots!Another \in Snapshots!Stamp /\ number \in Snapshots!Stamp
  BY SnapshotConstants DEF Snapshots!Another, Snapshots!Stamp
<1>4. Filled(one) /\ Filled(two) /\ Filled(entered)
  <2>1. Filled(one) BY <1>1, <1>3, EnteredFilled
  <2>2. Filled(two) BY <1>1, <1>2, <1>3, <2>1, EnteredFilled
  <2> QED BY <1>1, <1>2, <1>3, <2>1, <2>2, EnteredFilled
<1>5. Preserved(p, rings, after, entered)
  <2>1. Preserved(p, rings, own, one) BY <1>1, EnteredPreserves
  <2>2. Preserved(own, one, own2, two) BY <1>1, <1>2, EnteredPreserves
  <2>3. Preserved(own2, two, after, entered) BY <1>1, <1>2, EnteredPreserves
  <2> HIDE DEF own, own2, after, one, two, entered
  <2>4. Preserved(p, rings, own2, two) BY ONLY <2>1, <2>2, PreservedOn
  <2> QED BY ONLY <2>3, <2>4, PreservedOn
<1>6. \A r \in Snapshots!Rings :
        own[r] \in Nat /\ n[r] \in Nat /\ behind[r] \in Nat /\ n[r] + behind[r] <= RingSize[r]
  BY <1>1, <1>2, SnapshotConstants DEF Places
<1> HIDE DEF own, own2, after, one
<1>7. ASSUME NEW r \in Snapshots!Rings, NEW k \in 0 .. n[r] - 1
      PROVE  entered[r][(own[r] + k) % RingSize[r]] = number
  <2>1. two[r][(own[r] + k) % RingSize[r]] = number
    <3>2. own[r] + k \in Nat
      BY <1>6
    <3>1. (own[r] + k) % RingSize[r] \in 0 .. RingSize[r] - 1
      BY <3>2, PlaceInRing
    <3> QED BY <3>1, Zenon DEF Snapshots!Entered
  <2>2. /\ own[r] + k \in Nat /\ own[r] + k < own2[r]
        /\ own2[r] + behind[r] <= own[r] + k + RingSize[r]
    BY <1>2, <1>6, SnapshotConstants
  <2> HIDE DEF two
  <2>3. entered[r][(own[r] + k) % RingSize[r]] = two[r][(own[r] + k) % RingSize[r]]
    BY <1>1, <1>2, <2>2, EnteredLeaves
  <2> QED BY <2>1, <2>3
<1>8. Behind(f, after)
  BY <1>2, <1>6 DEF Behind
<1> HIDE DEF entered
<1>9. \A r \in Snapshots!Rings : Snapshots!Contents(entered, f).seen[r] \subseteq {number}
  BY <1>7 DEF Snapshots!Contents
<1> QED BY <1>2, <1>4, <1>5, <1>8, <1>9, Zenon DEF own, own2, after, one, entered

\* SV_SendClientMessages for a client that plays.
LEMMA SendSnapshotKeeps ==
  ASSUME SnapshotsInv, Snapshots!SendSnapshot PROVE SnapshotsInv'
<1>1. PICK before \in OthersShown, n \in Shown, behind \in OthersShown,
           kind \in {"differences", "plain"} \cup (IF Recorded THEN {"full"} ELSE {}) :
        LET own == Snapshots!Advanced(next, before)
            own2 == Snapshots!Advanced(own, n)
            built == Snapshots!WithFrame(cl, own, n)
        IN  /\ next' = Snapshots!Advanced(own2, behind)
            /\ ring' = Snapshots!Entered(Snapshots!Entered(Snapshots!Entered(
                         ring, next, before, Snapshots!Another), own, n, cl.outgoing),
                         own2, behind, Snapshots!Another)
            /\ toClient' = <<Snapshots!Message(built, kind, next', ring')>>
            /\ cl' = Snapshots!Transmitted(built, next')
  BY Zenon DEF Snapshots!SendSnapshot
<1> DEFINE own == Snapshots!Advanced(next, before)
<1> DEFINE built == Snapshots!WithFrame(cl, own, n)
<1> DEFINE f == [ps |-> cl.outgoing, first |-> own, num |-> n]
<1>2. /\ cl.state = "active" /\ ~loading /\ Snapshots!MayTransmit
      /\ UNCHANGED <<level, loading, client, toServer, gamestates>>
  BY Zenon DEF Snapshots!SendSnapshot
<1>3. /\ cl \in ClientRecord /\ cl.outgoing \in 1 .. SnapshotMessages /\ next \in Places
      /\ Filled(ring) /\ loading \in BOOLEAN /\ gamestates \in Seq(1 .. level)
  BY SnapshotTypes DEF SnapshotsInv, ClientRecord
<1>4. /\ own \in Places /\ next' \in Places /\ Filled(ring')
      /\ Preserved(next, ring, next', ring') /\ Behind(f, next')
      /\ \A r \in Snapshots!Rings : Snapshots!Contents(ring', f).seen[r] \subseteq {cl.outgoing}
  BY <1>1, <1>3, FrameEntered, Zenon
<1>5. /\ built \in ClientRecord /\ built.outgoing = cl.outgoing /\ built.state = cl.state
      /\ built.delta = cl.delta /\ built.gamestate = cl.gamestate
      /\ built.frames[cl.outgoing % PacketBackup] = f
      /\ \A a \in Nat : a < cl.outgoing /\ cl.outgoing - a < PacketBackup =>
           built.frames[a % PacketBackup] = cl.frames[a % PacketBackup]
  <2>1. n \in Places BY SnapshotConstants
  <2> QED BY <1>3, <1>4, <2>1, WithFrameBuilds, Zenon
<1>6. toClient' = <<Snapshots!Message(built, kind, next', ring')>> /\ cl' = Snapshots!Transmitted(built, next')
  BY <1>1, Zenon
<1> HIDE DEF built
<1>7. Ready(built, kind, next', ring')
  <2>1. Snapshots!Contents(ring', f).ps = cl.outgoing /\ cl.outgoing # Snapshots!Nothing
    BY <1>3 DEF Snapshots!Contents, Snapshots!Nothing
  <2>2. built.frames \in [0 .. PacketBackup - 1 -> Snapshots!Frame]
    BY <1>5 DEF ClientRecord
  <2> HIDE DEF f
  <2> QED BY <1>4, <1>5, <2>1, <2>2, Zenon DEF Ready
<1>8. /\ cl' \in ClientRecord /\ cl'.outgoing = cl.outgoing + 1 /\ cl'.state = cl.state
      /\ cl'.delta = cl.delta /\ cl'.gamestate = cl.gamestate
  <2>1. built.outgoing < SnapshotMessages
    BY <1>2, <1>5 DEF Snapshots!MayTransmit
  <2> QED BY <1>4, <1>5, <1>6, <2>1, TransmittedTyped
<1>9. /\ toClient' \in Seq([number : 1 .. cl'.outgoing - 1, snapshot : BOOLEAN,
                            base : 0 .. SnapshotMessages, to : Snapshots!Content,
                            from : Snapshots!Content])
      /\ Snapshots!ShownIsBuilt' /\ Snapshots!BaseAgrees'
      /\ ReliedKept' /\ NextIsEmpty' /\ LastInFlight'
  BY <1>2, <1>6, <1>7, <1>8, SentKeeps
<1>10. Snapshots!TypeOK' /\ client' \in Holder
  BY <1>2, <1>3, <1>4, <1>8, <1>9, SendTyped
<1>11. LevelsAscend'
  BY <1>2, <1>8 DEF SnapshotsInv, LevelsAscend
<1> QED BY <1>9, <1>10, <1>11, Zenon DEF SnapshotsInv, Holder

\* A client_t that sends without building is ready, if its frame is shown or nothing is.
LEMMA UnbuiltReady ==
  ASSUME SnapshotsInv, next' = next, ring' = ring, NEW kind PROVE Ready(cl, kind, next', ring')
<1> DEFINE f == cl.frames[cl.outgoing % PacketBackup]
<1>1. /\ cl.frames \in [0 .. PacketBackup - 1 -> Snapshots!Frame] /\ next \in Places /\ Filled(ring)
  BY SnapshotTypes DEF SnapshotsInv
<1>2. Preserved(next, ring, next', ring')
  BY Zenon DEF Preserved
<1>3. /\ f.ps = Snapshots!Nothing /\ \A r \in Snapshots!Rings : f.num[r] = 0
      /\ cl.state = "active" => Behind(f, next)
  BY DEF SnapshotsInv, NextIsEmpty
<1> HIDE DEF f
<1>4. /\ Snapshots!Contents(ring, f).ps = Snapshots!Nothing
      /\ \A r \in Snapshots!Rings :
           /\ Snapshots!Contents(ring, f).seen[r] = {}
           /\ Snapshots!Contents(ring, f).num[r] = 0
  BY <1>3 DEF Snapshots!Contents
<1> QED BY <1>1, <1>2, <1>3, <1>4, Zenon DEF Ready, f

\* A step that sends and builds nothing.
LEMMA UnbuiltKeeps ==
  ASSUME SnapshotsInv, NEW kind, Snapshots!MayTransmit,
         toClient' = <<Snapshots!Message(cl, kind, next, ring)>>,
         cl' \in ClientRecord, cl'.frames = Snapshots!Transmitted(cl, next).frames,
         cl'.outgoing = cl.outgoing + 1, cl'.delta = cl.delta,
         cl'.state = "active" <=> cl.state = "active",
         loading' \in BOOLEAN, gamestates' \in Seq(1 .. level),
         UNCHANGED <<next, ring, level, client, toServer>>, LevelsAscend'
  PROVE  SnapshotsInv'
<1>1. Ready(cl, kind, next', ring')
  BY UnbuiltReady
<1>2. next \in Places /\ Filled(ring)
  BY SnapshotTypes DEF SnapshotsInv
<1>3. /\ toClient' = <<Snapshots!Message(cl, kind, next', ring')>>
      /\ cl'.frames = Snapshots!Transmitted(cl, next').frames
      /\ next' \in Places /\ Filled(ring')
  BY <1>2, Zenon
<1>4. /\ toClient' \in Seq([number : 1 .. cl'.outgoing - 1, snapshot : BOOLEAN,
                            base : 0 .. SnapshotMessages, to : Snapshots!Content,
                            from : Snapshots!Content])
      /\ Snapshots!ShownIsBuilt' /\ Snapshots!BaseAgrees'
      /\ ReliedKept' /\ NextIsEmpty' /\ LastInFlight'
  BY <1>1, <1>3, SentKeeps
<1>5. Snapshots!TypeOK' /\ client' \in Holder
  BY <1>3, <1>4, SendTyped
<1> QED BY <1>4, <1>5, Zenon DEF SnapshotsInv, Holder

\* SV_SendClientMessages for a client that does not play.
LEMMA SendPlainKeeps ==
  ASSUME SnapshotsInv, Snapshots!SendPlain PROVE SnapshotsInv'
<1>1. /\ Snapshots!MayTransmit /\ cl \in ClientRecord /\ next \in Places
      /\ loading \in BOOLEAN /\ gamestates \in Seq(1 .. level)
  BY SnapshotTypes DEF SnapshotsInv, ClientRecord, Snapshots!SendPlain
<1>2. /\ cl' = Snapshots!Transmitted(cl, next)
      /\ toClient' = <<Snapshots!Message(cl, "plain", next, ring)>>
      /\ UNCHANGED <<next, ring, level, loading, client, toServer, gamestates>>
  BY Zenon DEF Snapshots!SendPlain
<1>3. /\ cl' \in ClientRecord /\ cl'.outgoing = cl.outgoing + 1 /\ cl'.state = cl.state
      /\ cl'.delta = cl.delta /\ cl'.gamestate = cl.gamestate
  BY <1>1, <1>2, TransmittedTyped DEF Snapshots!MayTransmit
<1>4. LevelsAscend'
  BY <1>2, <1>3 DEF SnapshotsInv, LevelsAscend
<1> QED BY <1>1, <1>2, <1>3, <1>4, UnbuiltKeeps

\* SV_SendClientGameState: the client is primed, and its gamestate is of this level.
LEMMA SendClientGameStateKeeps ==
  ASSUME SnapshotsInv, Snapshots!SendClientGameState PROVE SnapshotsInv'
<1> DEFINE transmitted == Snapshots!Transmitted(cl, next)
<1>1. /\ Snapshots!MayTransmit /\ cl \in ClientRecord /\ next \in Places
      /\ loading \in BOOLEAN /\ gamestates \in Seq(1 .. level) /\ level \in 1 .. MaxLevel
  BY SnapshotTypes DEF SnapshotsInv, ClientRecord, Snapshots!SendClientGameState
<1>2. /\ cl' = [transmitted EXCEPT !.state = "primed", !.gamestate = TRUE]
      /\ toClient' = <<Snapshots!Message(cl, "plain", next, ring)>>
      /\ gamestates' = Append(gamestates, level) /\ ~cl.gamestate /\ cl.state = "connected" /\ ~loading
      /\ UNCHANGED <<next, ring, level, loading, client, toServer>>
  BY Zenon DEF Snapshots!SendClientGameState
<1>3. /\ transmitted \in ClientRecord /\ transmitted.outgoing = cl.outgoing + 1 /\ transmitted.delta = cl.delta
  BY <1>1, TransmittedTyped DEF Snapshots!MayTransmit
<1> HIDE DEF transmitted
<1>4. /\ cl' \in ClientRecord /\ cl'.outgoing = cl.outgoing + 1 /\ cl'.delta = cl.delta
      /\ cl'.state = "primed" /\ cl'.gamestate /\ cl'.frames = transmitted.frames
  BY <1>2, <1>3 DEF ClientRecord
<1>5. gamestates' \in Seq(1 .. level)
  BY <1>1, <1>2, AppendProperties, SnapshotConstants
<1>6. /\ Len(gamestates') = Len(gamestates) + 1 /\ Len(gamestates) \in Nat
      /\ \A i \in 1 .. Len(gamestates) : gamestates'[i] = gamestates[i]
      /\ gamestates'[Len(gamestates) + 1] = level
  BY <1>1, <1>2
<1>7. /\ client.level < level
      /\ \A i \in 1 .. Len(gamestates) : client.level < gamestates[i] /\ gamestates[i] < level
      /\ \A i, j \in 1 .. Len(gamestates) : i < j => gamestates[i] < gamestates[j]
      /\ \A i \in 1 .. Len(toServer) : toServer[i].level <= client.level
  BY <1>2 DEF SnapshotsInv, LevelsAscend
<1>8. \A i \in 1 .. Len(gamestates') : i \in 1 .. Len(gamestates) \/ i = Len(gamestates) + 1
  BY <1>6
<1>9. /\ \A i \in 1 .. Len(gamestates') : client.level < gamestates'[i]
      /\ \A i, j \in 1 .. Len(gamestates') : i < j => gamestates'[i] < gamestates'[j]
  BY <1>6, <1>7, <1>8
<1>10. LevelsAscend'
  BY <1>2, <1>4, <1>7, <1>9 DEF LevelsAscend
<1> QED BY <1>1, <1>2, <1>4, <1>5, <1>10, UnbuiltKeeps DEF transmitted

\* What is in flight, and the next frame, when neither is touched.
LEMMA UntouchedStay ==
  ASSUME SnapshotsInv, toClient' = toClient, next' = next, ring' = ring,
         cl'.outgoing = cl.outgoing, cl'.frames = cl.frames,
         cl.state = "active" => cl'.state = "active",
         cl'.state # "connected" => cl.state # "connected"
  PROVE  LastInFlight' /\ NextIsEmpty' /\ Snapshots!ShownIsBuilt'
<1>2. LastInFlight /\ NextIsEmpty /\ Snapshots!ShownIsBuilt
  BY DEF SnapshotsInv
<1>3. LastInFlight'
  <2>1. LastInFlight' <=>
          \A i \in 1 .. Len(toClient') : LET m == toClient'[i] IN
            /\ m.number = cl'.outgoing - 1 /\ (m.base # 0 => m.snapshot)
            /\ m.snapshot =>
                 /\ cl'.state = "active"
                 /\ 1 < PacketBackup =>
                      LET f == cl'.frames[m.number % PacketBackup]
                      IN  Behind(f, next') /\ m.to = Snapshots!Contents(ring', f)
    BY DEF LastInFlight, Behind, Snapshots!Contents
  <2> QED BY <1>2, <2>1 DEF LastInFlight
<1>4. NextIsEmpty'
  <2>1. NextIsEmpty' <=>
          LET f == cl'.frames[cl'.outgoing % PacketBackup]
          IN  /\ f.ps = Snapshots!Nothing /\ \A r \in Snapshots!Rings : f.num[r] = 0
              /\ cl'.state # "connected" => Behind(f, next')
    BY DEF NextIsEmpty, Behind
  <2> QED BY <1>2, <2>1 DEF NextIsEmpty
<1>5. Snapshots!ShownIsBuilt'
  BY <1>2, Zenon DEF Snapshots!ShownIsBuilt, Snapshots!Nothing
<1> QED BY <1>3, <1>4, <1>5

\* SV_SpawnServer, its first part.
LEMMA SpawnServerKeeps ==
  ASSUME SnapshotsInv, Snapshots!SpawnServer PROVE SnapshotsInv'
<1>1. /\ cl \in ClientRecord /\ next \in Places
      /\ gamestates \in Seq(1 .. level)
  BY SnapshotTypes DEF SnapshotsInv, ClientRecord
<1>2. /\ loading' = TRUE /\ level < MaxLevel
      /\ UNCHANGED <<next, ring, level, client, toServer, gamestates>>
  BY Zenon DEF Snapshots!SpawnServer
<1>3. CASE cl.state = "connected"
  <2>1. cl' = cl /\ toClient' = toClient
    BY <1>3, Zenon DEF Snapshots!SpawnServer
  <2>2. Relied' = Relied
    BY <1>2, <2>1, ReliedAfter DEF Relied
  <2>3. LevelsAscend'
    BY <1>2, <2>1 DEF SnapshotsInv, LevelsAscend
  <2>4. Snapshots!TypeOK' /\ client' \in Holder
    BY <1>2, <2>1 DEF SnapshotsInv, Snapshots!TypeOK
  <2>5. Snapshots!ShownIsBuilt' /\ Snapshots!BaseAgrees'
    BY <1>2, <2>1 DEF SnapshotsInv, Snapshots!ShownIsBuilt, Snapshots!BaseAgrees, Snapshots!Has
  <2>6. ReliedKept'
    <3>1. Preserved(next, ring, next', ring')
      BY <1>2, Zenon DEF Preserved
    <3>2. cl.outgoing \in Nat
      BY SnapshotTypes DEF SnapshotsInv
    <3> QED BY <1>2, <2>1, <2>2, <3>1, <3>2, ReliedStays
  <2>7. NextIsEmpty' /\ LastInFlight'
    BY <1>2, <2>1, UntouchedStay
  <2> QED BY <2>3, <2>4, <2>5, <2>6, <2>7, Zenon DEF SnapshotsInv, Holder
<1>4. CASE cl.state # "connected"
  <2>1. /\ cl' = Snapshots!Transmitted(cl, next) /\ Snapshots!MayTransmit
        /\ toClient' = <<Snapshots!Message(cl, "differences", next, ring)>>
    BY <1>4, Zenon DEF Snapshots!SpawnServer
  <2>2. /\ cl' \in ClientRecord /\ cl'.outgoing = cl.outgoing + 1 /\ cl'.state = cl.state
        /\ cl'.delta = cl.delta /\ cl'.gamestate = cl.gamestate
    BY <1>1, <2>1, TransmittedTyped DEF Snapshots!MayTransmit
  <2>3. LevelsAscend'
    BY <1>2, <2>2 DEF SnapshotsInv, LevelsAscend
  <2> QED BY <1>1, <1>2, <2>1, <2>2, <2>3, UnbuiltKeeps
<1> QED BY <1>3, <1>4

\* SV_SpawnServer, its second part: nothing is relied on any more.
LEMMA LevelLoadedKeeps ==
  ASSUME SnapshotsInv, Snapshots!LevelLoaded PROVE SnapshotsInv'
<1>1. /\ loading /\ loading' = FALSE /\ level' = level + 1
      /\ next' = [r \in Snapshots!Rings |-> 0]
      /\ cl' = [cl EXCEPT !.state = "connected", !.gamestate = FALSE] /\ toClient' = << >>
      /\ UNCHANGED <<ring, client, toServer, gamestates>>
  BY Zenon DEF Snapshots!LevelLoaded
<1>2. /\ cl \in ClientRecord /\ Filled(ring) /\ level \in 1 .. MaxLevel
      /\ client.level \in 0 .. level /\ gamestates \in Seq(1 .. level)
      /\ toServer \in Seq([acknowledge : 0 .. client.last, delta : BOOLEAN, level : 0 .. level])
  BY SnapshotTypes DEF SnapshotsInv, ClientRecord
<1>3. /\ cl' \in ClientRecord /\ cl'.outgoing = cl.outgoing /\ cl'.frames = cl.frames
      /\ cl'.state = "connected" /\ ~cl'.gamestate
  BY <1>1, <1>2 DEF ClientRecord
<1>4. level < MaxLevel /\ \A i \in 1 .. Len(toServer) : toServer[i].level <= client.level
  BY <1>1 DEF SnapshotsInv, LevelsAscend
<1>5. level' \in 1 .. MaxLevel /\ level < level'
  BY <1>1, <1>2, <1>4, SnapshotConstants
<1>6. Snapshots!TypeOK' /\ client' \in Holder
  <2>1. next' \in Places
    BY <1>1 DEF Places
  <2>2. gamestates' \in Seq(1 .. level') /\ client'.level \in 0 .. level'
    <3>1. 1 .. level \subseteq 1 .. level' /\ 0 .. level \subseteq 0 .. level'
      BY <1>2, <1>5
    <3> QED BY <1>1, <1>2, <3>1, SeqMonotonic, Zenon
  <2>3. toServer' \in Seq([acknowledge : 0 .. client'.last, delta : BOOLEAN, level : 0 .. level'])
    <3>1. [acknowledge : 0 .. client.last, delta : BOOLEAN, level : 0 .. level]
            \subseteq [acknowledge : 0 .. client.last, delta : BOOLEAN, level : 0 .. level']
      BY <1>2, <1>5
    <3> QED BY <1>1, <1>2, <3>1, SeqMonotonic, Zenon
  <2>4. toClient' \in Seq([number : 1 .. cl'.outgoing - 1, snapshot : BOOLEAN,
                           base : 0 .. SnapshotMessages, to : Snapshots!Content,
                           from : Snapshots!Content])
    BY <1>1
  <2>5. \A r \in Snapshots!Rings : ring'[r] \in [0 .. RingSize[r] - 1 -> Snapshots!Stamp]
    BY <1>1, <1>2 DEF Filled
  <2>6. /\ client'.last \in 0 .. cl'.outgoing - 1 /\ client'.current \in 0 .. client'.last
        /\ \A n \in DOMAIN client'.snaps : client'.snaps[n] # << >> =>
             client'.snaps[n] \in (1 .. client'.last) \X Snapshots!Content
        /\ client' \in Holder
    BY <1>1, <1>3 DEF SnapshotsInv, Snapshots!TypeOK
  <2>7. loading' \in BOOLEAN
    BY <1>1
  <2> QED BY <1>3, <1>5, <2>1, <2>2, <2>3, <2>4, <2>5, <2>6, <2>7, Zenon
          DEF Snapshots!TypeOK, ClientRecord, Places
<1>7. Relied' = {}
  <2>1. client'.level < level' /\ \A i \in 1 .. Len(toServer') : toServer'[i].level # level'
    <3>1. ASSUME NEW i \in 1 .. Len(toServer) PROVE toServer[i].level \in Int
      <4>1. toServer[i] \in [acknowledge : 0 .. client.last, delta : BOOLEAN, level : 0 .. level]
        BY <1>2, ElementOfSeq, Zenon
      <4> QED BY <1>2, <4>1
    <3> QED BY <1>1, <1>2, <1>4, <1>5, <3>1
  <2>2. \A a : ~Asked(a, toServer', level')
    BY <2>1 DEF Asked
  <2>3. client'.level # level' /\ cl'.state # "active"
    BY <1>2, <1>3, <1>5, <2>1
  <2>4. ASSUME NEW a \in Relied' PROVE FALSE
    BY <2>2, <2>3, <2>4, ReliedAfter, Zenon
  <2> QED BY <2>4, Zenon
<1>8. ReliedKept'
  BY <1>7 DEF ReliedKept
<1>9. NextIsEmpty'
  BY <1>3 DEF SnapshotsInv, NextIsEmpty
<1>10. Snapshots!ShownIsBuilt' /\ Snapshots!BaseAgrees' /\ LastInFlight'
  BY <1>1 DEF Snapshots!ShownIsBuilt, Snapshots!BaseAgrees, LastInFlight
<1>11. LevelsAscend'
  <2>1. ASSUME NEW i \in 1 .. Len(gamestates) PROVE gamestates[i] < level'
    <3>1. gamestates[i] \in 1 .. level
      BY <1>2, ElementOfSeq
    <3> QED BY <1>2, <1>5, <3>1
  <2>2. client.level < level'
    BY <1>2, <1>5
  <2> QED BY <1>1, <1>3, <1>4, <2>1, <2>2 DEF SnapshotsInv, LevelsAscend
<1> QED BY <1>6, <1>8, <1>9, <1>10, <1>11, Zenon DEF SnapshotsInv, Holder

\* SV_PacketEvent: what is relied on now was relied on before.
LEMMA SnapshotPacketKeeps ==
  ASSUME SnapshotsInv, Snapshots!PacketEvent PROVE SnapshotsInv'
<1> DEFINE m == Head(toServer)
<1> DEFINE moved == [cl EXCEPT !.delta = IF m.delta THEN m.acknowledge ELSE -1]
<1>1. /\ ~loading /\ toServer # << >> /\ toServer' = << >>
      /\ cl' = CASE m.level # level -> cl
                 [] m.level = level /\ cl.state = "primed" -> Snapshots!Entering(moved)
                 [] m.level = level /\ cl.state = "active" -> moved
                 [] OTHER -> [moved EXCEPT !.delta = -1]
      /\ UNCHANGED <<next, ring, level, loading, client, toClient, gamestates>>
  BY Zenon DEF Snapshots!PacketEvent
<1>2. /\ cl \in ClientRecord /\ level \in 1 .. MaxLevel /\ client.level \in 0 .. level
      /\ client.last \in 0 .. cl.outgoing - 1 /\ cl.outgoing \in 1 .. SnapshotMessages
      /\ toServer \in Seq([acknowledge : 0 .. client.last, delta : BOOLEAN, level : 0 .. level])
  BY SnapshotTypes DEF SnapshotsInv, ClientRecord
<1>3. /\ 1 \in 1 .. Len(toServer) /\ m = toServer[1]
      /\ m.acknowledge \in 0 .. client.last /\ m.delta \in BOOLEAN /\ m.level \in 0 .. level
  <2>1. Len(toServer) \in Nat /\ Len(toServer) # 0
    BY <1>1, <1>2, EmptySeq
  <2>2. 1 \in 1 .. Len(toServer)
    BY <2>1
  <2>3. m = toServer[1]
    BY <1>1, <1>2, HeadTailProperties
  <2>4. m \in [acknowledge : 0 .. client.last, delta : BOOLEAN, level : 0 .. level]
    BY <1>1, <1>2, HeadTailProperties, Zenon
  <2> QED BY <2>2, <2>3, <2>4
<1>4. m.level <= client.level
  BY <1>3, Zenon DEF SnapshotsInv, LevelsAscend
<1>5. m.acknowledge \in -1 .. SnapshotMessages /\ m.acknowledge \in Nat
  BY <1>2, <1>3, SnapshotConstants
<1> HIDE DEF m
<1>6. /\ cl' \in ClientRecord /\ cl'.outgoing = cl.outgoing /\ cl'.frames = cl.frames
      /\ cl'.gamestate = cl.gamestate
      /\ cl.state = "connected" <=> cl'.state = "connected"
      /\ cl.state = "active" => cl'.state = "active"
      /\ cl'.state = "active" => cl.state = "active" \/ m.level = level
      /\ \/ cl'.state = cl.state /\ cl'.delta = cl.delta
         \/ cl'.delta = -1
         \/ m.level = level /\ m.delta /\ cl'.delta = m.acknowledge
  <2>1. -1 \in -1 .. SnapshotMessages
    BY SnapshotConstants
  <2>2. CASE m.level # level
    BY <1>1, <1>2, <2>2
  <2>3. CASE m.level = level /\ cl.state = "primed"
    BY <1>1, <1>2, <1>5, <2>1, <2>3 DEF Snapshots!Entering, ClientRecord
  <2>4. CASE m.level = level /\ cl.state = "active"
    <3>1. cl' = moved
      BY <1>1, <2>4
    <3>2. CASE m.delta
      BY <1>2, <1>5, <2>4, <3>1, <3>2 DEF ClientRecord
    <3>3. CASE ~m.delta
      BY <1>2, <2>1, <2>4, <3>1, <3>3 DEF ClientRecord
    <3> QED BY <3>2, <3>3
  <2>5. CASE m.level = level /\ cl.state = "connected"
    BY <1>1, <1>2, <2>1, <2>5 DEF ClientRecord
  <2>6. cl.state \in {"connected", "primed", "active"}
    BY <1>2 DEF ClientRecord
  <2> QED BY <2>2, <2>3, <2>4, <2>5, <2>6
<1>7. Snapshots!TypeOK' /\ client' \in Holder
  <2>1. Snapshots!TypeOK /\ client \in Holder
    BY DEF SnapshotsInv
  <2>2. cl' \in ClientRecord /\ client'.last \in 0 .. cl'.outgoing - 1
    BY <1>1, <1>2, <1>6
  <2>3. toServer' \in Seq([acknowledge : 0 .. client'.last, delta : BOOLEAN, level : 0 .. level'])
    BY <1>1
  <2>4. toClient' \in Seq([number : 1 .. cl'.outgoing - 1, snapshot : BOOLEAN,
                           base : 0 .. SnapshotMessages, to : Snapshots!Content,
                           from : Snapshots!Content])
    BY <1>1, <1>6, <2>1 DEF Snapshots!TypeOK
  <2>5. /\ next' \in Places /\ level' \in 1 .. MaxLevel /\ loading' \in BOOLEAN
        /\ \A r \in Snapshots!Rings : ring'[r] \in [0 .. RingSize[r] - 1 -> Snapshots!Stamp]
        /\ client'.current \in 0 .. client'.last /\ client'.level \in 0 .. level'
        /\ \A n \in DOMAIN client'.snaps : client'.snaps[n] # << >> =>
             client'.snaps[n] \in (1 .. client'.last) \X Snapshots!Content
        /\ gamestates' \in Seq(1 .. level') /\ client' \in Holder
    BY <1>1, <2>1 DEF Snapshots!TypeOK, Places
  <2> QED BY <2>2, <2>3, <2>4, <2>5, Zenon DEF Snapshots!TypeOK, ClientRecord, Places
<1>8. Relied' \subseteq Relied
  <2>1. ASSUME NEW a \in Relied' PROVE a \in Relied
    <3>1. a \in Nat \ {0} /\ ((a = client.current /\ client.level = level) \/ (a = cl'.delta /\ cl'.state = "active"))
      <4>1. ~Asked(a, toServer', level')
        BY <1>1 DEF Asked
      <4>2. client' = client /\ level' = level
        BY <1>1
      <4>3. /\ a \in Nat \ {0}
            /\ \/ a = client'.current /\ client'.level = level'
               \/ a = cl'.delta /\ cl'.state = "active"
               \/ Asked(a, toServer', level')
        BY <2>1, ReliedAfter, Zenon
      <4>4. client'.current = client.current /\ client'.level = client.level
        BY <4>2
      <4> QED BY <4>1, <4>2, <4>3, <4>4
    <3>2. CASE a = client.current /\ client.level = level
      BY <3>1, <3>2 DEF Relied
    <3>3. CASE a = cl'.delta /\ cl'.state = "active"
      <4>1. CASE cl'.state = cl.state /\ cl'.delta = cl.delta
        BY <3>1, <3>3, <4>1 DEF Relied
      <4>2. CASE m.level = level /\ m.delta /\ cl'.delta = m.acknowledge
        <5>1. Asked(a, toServer, level)
          BY <1>3, <3>3, <4>2 DEF Asked
        <5> QED BY <3>1, <5>1 DEF Relied
      <4> QED BY <1>6, <3>1, <3>3, <4>1, <4>2
    <3> QED BY <3>1, <3>2, <3>3
  <2> QED BY <2>1
<1>9. ReliedKept'
  <2>1. Preserved(next, ring, next', ring')
    BY <1>1, Zenon DEF Preserved
  <2> QED BY <1>1, <1>2, <1>6, <1>8, <2>1, ReliedStays
<1>10. NextIsEmpty' /\ LastInFlight' /\ Snapshots!ShownIsBuilt'
  BY <1>1, <1>6, UntouchedStay
<1>11. Snapshots!BaseAgrees'
  BY <1>1 DEF SnapshotsInv, Snapshots!BaseAgrees, Snapshots!Has
<1>12. LevelsAscend'
  BY <1>1, <1>2, <1>4, <1>6 DEF SnapshotsInv, LevelsAscend
<1> QED BY <1>7, <1>9, <1>10, <1>11, <1>12, Zenon DEF SnapshotsInv, Holder

\* The snapshots of a client, and after one more.
Snaps == [0 .. PacketBackup - 1 -> {<< >>} \cup Nat \X Snapshots!Content]

OneMore(snaps, n, to) == [snaps EXCEPT ![n % PacketBackup] = <<n, to>>]

\* The new one is there, and those that are not too old stay.
LEMMA SnapsAfter ==
  ASSUME NEW snaps \in Snaps, NEW n \in Nat, NEW to \in Snapshots!Content
  PROVE  /\ OneMore(snaps, n, to) \in Snaps
         /\ OneMore(snaps, n, to)[n % PacketBackup] = <<n, to>>
         /\ \A a \in Nat : a < n /\ n - a < PacketBackup =>
              OneMore(snaps, n, to)[a % PacketBackup] = snaps[a % PacketBackup]
<1> DEFINE i == n % PacketBackup
<1> DEFINE after == [snaps EXCEPT ![i] = <<n, to>>]
<1>1. i \in 0 .. PacketBackup - 1 /\ \A a \in Nat : a % PacketBackup \in 0 .. PacketBackup - 1
  BY SnapshotConstants
<1>2. ASSUME NEW a \in Nat, a < n, n - a < PacketBackup PROVE a % PacketBackup # i
  <2>1. n < a + PacketBackup
    BY <1>2, SnapshotConstants
  <2> QED BY <1>2, <2>1, PlacesDiffer, SnapshotConstants
<1> HIDE DEF i
<1>3. <<n, to>> \in Nat \X Snapshots!Content
  OBVIOUS
<1>4. /\ after \in Snaps /\ after[i] = <<n, to>>
      /\ \A a \in Nat : a < n /\ n - a < PacketBackup =>
           after[a % PacketBackup] = snaps[a % PacketBackup]
  BY <1>1, <1>2, <1>3 DEF Snaps
<1> QED BY <1>4 DEF i, OneMore

\* The types after a step of the client.
LEMMA ClientTyped ==
  ASSUME SnapshotsInv, client' \in Holder,
         UNCHANGED <<cl, next, ring, level, loading>>,
         client'.last \in 0 .. cl.outgoing - 1, client'.current \in 0 .. client'.last,
         client'.level \in 0 .. level,
         \A n \in 0 .. PacketBackup - 1 : client'.snaps[n] # << >> =>
           client'.snaps[n] \in (1 .. client'.last) \X Snapshots!Content,
         toClient' \in {toClient, << >>}, gamestates' \in Seq(1 .. level),
         toServer' \in Seq([acknowledge : 0 .. client'.last, delta : BOOLEAN, level : 0 .. level])
  PROVE  Snapshots!TypeOK'
<1>1. Snapshots!TypeOK
  BY DEF SnapshotsInv
<1>2. DOMAIN client'.snaps = 0 .. PacketBackup - 1
  BY DEF Holder
<1>3. toClient' \in Seq([number : 1 .. cl.outgoing - 1, snapshot : BOOLEAN,
                         base : 0 .. SnapshotMessages, to : Snapshots!Content,
                         from : Snapshots!Content])
  <2>1. CASE toClient' = toClient
    BY <1>1, <2>1, Zenon DEF Snapshots!TypeOK
  <2>2. CASE toClient' = << >>
    BY <2>2
  <2> QED BY <2>1, <2>2
<1>4. /\ cl' = cl /\ next' = next /\ ring' = ring /\ level' = level /\ loading' = loading
  OBVIOUS
<1> QED BY <1>1, <1>2, <1>3, <1>4, Zenon DEF Snapshots!TypeOK

\* The client reads a message: what it now has is what its frame refers to.
LEMMA ClientReadsSnapshotKeeps ==
  ASSUME SnapshotsInv, Snapshots!ClientReads PROVE SnapshotsInv'
<1> DEFINE m == Head(toClient)
<1> DEFINE seen == OneMore(client.snaps, m.number, m.to)
<1>1. /\ toClient # << >> /\ toClient' = << >>
      /\ client' = IF m.snapshot /\ Snapshots!Has(m)
           THEN [client EXCEPT !.last = m.number, !.current = m.number,
                               !.snaps[m.number % PacketBackup] = <<m.number, m.to>>]
           ELSE [client EXCEPT !.last = m.number]
      /\ UNCHANGED <<cl, next, ring, level, loading, toServer, gamestates>>
  BY DEF Snapshots!ClientReads, Snapshots!serverVars
<1>2. /\ cl \in ClientRecord /\ cl.outgoing \in 1 .. SnapshotMessages /\ level \in 1 .. MaxLevel
      /\ client \in Holder /\ client.last \in 0 .. cl.outgoing - 1
      /\ client.current \in 0 .. client.last /\ client.level \in 0 .. level
      /\ gamestates \in Seq(1 .. level)
      /\ client.snaps \in Snaps
      /\ toServer \in Seq([acknowledge : 0 .. client.last, delta : BOOLEAN, level : 0 .. level])
      /\ toClient \in Seq([number : 1 .. cl.outgoing - 1, snapshot : BOOLEAN,
                           base : 0 .. SnapshotMessages, to : Snapshots!Content,
                           from : Snapshots!Content])
  BY SnapshotTypes DEF SnapshotsInv, ClientRecord, Snaps
<1>3. /\ 1 \in 1 .. Len(toClient) /\ m = toClient[1]
      /\ m \in [number : 1 .. cl.outgoing - 1, snapshot : BOOLEAN, base : 0 .. SnapshotMessages,
                to : Snapshots!Content, from : Snapshots!Content]
  <2>1. Len(toClient) \in Nat \ {0}
    BY <1>1, <1>2, EmptySeq
  <2>2. m = toClient[1]
    BY <1>1, <1>2, <2>1, HeadTailProperties
  <2>3. m \in [number : 1 .. cl.outgoing - 1, snapshot : BOOLEAN, base : 0 .. SnapshotMessages,
              to : Snapshots!Content, from : Snapshots!Content]
    BY <1>1, <1>2, HeadTailProperties, Zenon
  <2>4. 1 \in 1 .. Len(toClient)
    BY <2>1
  <2> QED BY <2>2, <2>3, <2>4, Zenon
<1>4. /\ m.number \in 1 .. cl.outgoing - 1 /\ m.to \in Snapshots!Content /\ m.number \in Nat
  BY <1>3
<1>5. /\ m.number = cl.outgoing - 1
      /\ m.snapshot => Snapshots!Has(m) /\ cl.state = "active" /\
           (1 < PacketBackup =>
              LET f == cl.frames[m.number % PacketBackup]
              IN  Behind(f, next) /\ m.to = Snapshots!Contents(ring, f))
  BY <1>3, Zenon DEF SnapshotsInv, LastInFlight, Snapshots!BaseAgrees
<1> HIDE DEF m
<1>6. /\ seen \in Snaps
      /\ seen[m.number % PacketBackup] = <<m.number, m.to>>
      /\ \A a \in Nat : a < m.number /\ m.number - a < PacketBackup =>
           seen[a % PacketBackup] = client.snaps[a % PacketBackup]
  BY <1>2, <1>4, SnapsAfter
<1>7. ASSUME NEW n \in 0 .. PacketBackup - 1, client.snaps[n] # << >>
      PROVE  client.snaps[n] \in (1 .. m.number) \X Snapshots!Content
  <2>1. client.snaps[n] \in (1 .. client.last) \X Snapshots!Content
    BY <1>2, <1>7 DEF SnapshotsInv, Snapshots!TypeOK, Snaps
  <2>2. 1 .. client.last \subseteq 1 .. m.number
    BY <1>2, <1>5
  <2> QED BY <2>1, <2>2
<1>8. client'.last = m.number /\ client'.level = client.level /\ client' \in Holder
      /\ client'.snaps \in {client.snaps, seen}
      /\ (m.snapshot => client'.current = m.number /\ client'.snaps = seen)
      /\ (~m.snapshot => client'.current = client.current /\ client'.snaps = client.snaps)
  <2>1. CASE m.snapshot
    <3>1. client' = [client EXCEPT !.last = m.number, !.current = m.number, !.snaps = seen]
      BY <1>1, <1>5, <2>1 DEF OneMore
    <3> HIDE DEF seen
    <3> QED BY <1>2, <1>4, <1>6, <2>1, <3>1 DEF Holder, Snaps
  <2>2. CASE ~m.snapshot
    <3>1. client' = [client EXCEPT !.last = m.number]
      BY <1>1, <2>2
    <3> HIDE DEF seen
    <3> QED BY <1>2, <1>4, <2>2, <3>1 DEF Holder
  <2> QED BY <2>1, <2>2
<1>9. Snapshots!TypeOK'
  <2>1. ASSUME NEW n \in 0 .. PacketBackup - 1, seen[n] # << >>
        PROVE  seen[n] \in (1 .. m.number) \X Snapshots!Content
    <3>1. m.number % PacketBackup \in 0 .. PacketBackup - 1
      BY <1>4, SnapshotConstants
    <3>2. CASE n = m.number % PacketBackup
      <4>1. <<m.number, m.to>> \in (1 .. m.number) \X Snapshots!Content
        BY <1>4
      <4> HIDE DEF seen
      <4> QED BY <1>6, <3>2, <4>1
    <3>3. CASE n # m.number % PacketBackup
      <4>1. seen[n] = client.snaps[n]
        BY <1>2, <3>1, <3>3 DEF OneMore, Snaps
      <4> HIDE DEF seen
      <4> QED BY <1>7, <2>1, <4>1
    <3> QED BY <3>2, <3>3
  <2> HIDE DEF seen
  <2>2. \A n \in 0 .. PacketBackup - 1 : client'.snaps[n] # << >> =>
          client'.snaps[n] \in (1 .. client'.last) \X Snapshots!Content
    BY <1>7, <1>8, <2>1
  <2>3. toServer' \in Seq([acknowledge : 0 .. client'.last, delta : BOOLEAN, level : 0 .. level])
    <3>1. [acknowledge : 0 .. client.last, delta : BOOLEAN, level : 0 .. level]
            \subseteq [acknowledge : 0 .. m.number, delta : BOOLEAN, level : 0 .. level]
      BY <1>2, <1>5
    <3>2. toServer \in Seq([acknowledge : 0 .. m.number, delta : BOOLEAN, level : 0 .. level])
      BY <1>2, <3>1, SeqMonotonic, Zenon
    <3> QED BY <1>1, <1>8, <3>2
  <2>4. /\ client'.last \in 0 .. cl.outgoing - 1 /\ client'.current \in 0 .. client'.last
        /\ client'.level \in 0 .. level
    BY <1>2, <1>4, <1>5, <1>8
  <2> QED BY <1>1, <1>2, <1>8, <2>2, <2>3, <2>4, ClientTyped
<1>10. ReliedKept'
  <2>1. SUFFICES ASSUME NEW a \in Relied'
                 PROVE  a <= client'.last /\ Kept(cl, next, ring, client'.snaps, a)
    BY <1>1 DEF ReliedKept, Kept, Behind, Snapshots!StillThere, Snapshots!Contents
  <2>2. a \in Nat \ {0} /\ (a \in Relied \/ (m.snapshot /\ a = m.number))
    <3>1. /\ client'.level = client.level /\ level' = level /\ cl' = cl /\ toServer' = toServer
          /\ client'.current = client.current \/ (m.snapshot /\ client'.current = m.number)
      <4>1. /\ client'.level = client.level /\ level' = level /\ cl' = cl /\ toServer' = toServer
        BY <1>1, <1>8
      <4>2. client'.current = client.current \/ (m.snapshot /\ client'.current = m.number)
        BY <1>3, <1>8
      <4> QED BY <4>1, <4>2
    <3>2. /\ a \in Nat \ {0}
          /\ \/ a = client'.current /\ client'.level = level'
             \/ a = cl'.delta /\ cl'.state = "active"
             \/ Asked(a, toServer', level')
      BY <2>1, ReliedAfter, Zenon
    <3>3. CASE a = client'.current /\ client'.level = level'
      BY <3>1, <3>2, <3>3, ReliedIs
    <3>4. CASE a = cl'.delta /\ cl'.state = "active"
      BY <3>1, <3>2, <3>4, ReliedIs
    <3>5. CASE Asked(a, toServer', level')
      <4>1. Asked(a, toServer, level)
        BY <3>1, <3>5, Zenon
      <4> QED BY <3>2, <4>1, ReliedIs
    <3> QED BY <3>2, <3>3, <3>4, <3>5, Zenon
  <2>3. CASE m.snapshot /\ a = m.number
    <3>1. a <= client'.last
      BY <1>4, <1>8, <2>3
    <3>2. ASSUME cl.outgoing - a < PacketBackup PROVE 1 < PacketBackup
      BY <1>2, <1>5, <2>3, <3>2
    <3>3. client'.snaps[a % PacketBackup] = <<a, m.to>>
      BY <1>6, <1>8, <2>3
    <3> QED BY <1>5, <2>3, <3>1, <3>2, <3>3, Zenon DEF Kept
  <2>4. CASE a \in Relied /\ ~(m.snapshot /\ a = m.number)
    <3>1. a <= client.last /\ Kept(cl, next, ring, client.snaps, a)
      BY <2>4 DEF SnapshotsInv, ReliedKept
    <3>2. a <= client'.last /\ a <= m.number
      BY <1>2, <1>5, <1>8, <2>2, <3>1
    <3>3. ASSUME cl.outgoing - a < PacketBackup
          PROVE  client'.snaps[a % PacketBackup] = client.snaps[a % PacketBackup]
      <4>1. CASE ~m.snapshot
        BY <1>8, <4>1
      <4>2. CASE m.snapshot
        <5>1. a < m.number /\ m.number - a < PacketBackup
          BY <1>2, <1>4, <1>5, <2>2, <2>4, <3>2, <3>3, <4>2, SnapshotConstants
        <5> HIDE DEF seen
        <5> QED BY <1>6, <1>8, <2>2, <4>2, <5>1
      <4> QED BY <4>1, <4>2
    <3> QED BY <3>1, <3>2, <3>3, Zenon DEF Kept
  <2> QED BY <2>2, <2>3, <2>4
<1>11. NextIsEmpty'
  BY <1>1 DEF SnapshotsInv, NextIsEmpty, Behind
<1>12. Snapshots!ShownIsBuilt' /\ Snapshots!BaseAgrees' /\ LastInFlight'
  BY <1>1 DEF Snapshots!ShownIsBuilt, Snapshots!BaseAgrees, LastInFlight
<1>13. LevelsAscend'
  BY <1>1, <1>8 DEF SnapshotsInv, LevelsAscend
<1> QED BY <1>8, <1>9, <1>10, <1>11, <1>12, <1>13, Zenon DEF SnapshotsInv, Holder

\* The client takes a gamestate: it is not of the level it had, and nothing is relied on.
LEMMA ClientTakesGameStateKeeps ==
  ASSUME SnapshotsInv, Snapshots!ClientTakesGameState PROVE SnapshotsInv'
<1>1. /\ gamestates # << >> /\ gamestates' = Tail(gamestates)
      /\ client' = [client EXCEPT !.level = Head(gamestates), !.current = 0, !.snaps = Snapshots!Empty]
      /\ UNCHANGED <<cl, next, ring, level, loading, toClient, toServer>>
  BY DEF Snapshots!ClientTakesGameState, Snapshots!serverVars
<1>2. /\ cl \in ClientRecord /\ cl.outgoing \in 1 .. SnapshotMessages /\ level \in 1 .. MaxLevel
      /\ client \in Holder /\ client.last \in 0 .. cl.outgoing - 1 /\ client.level \in 0 .. level
      /\ gamestates \in Seq(1 .. level)
      /\ toServer \in Seq([acknowledge : 0 .. client.last, delta : BOOLEAN, level : 0 .. level])
  BY SnapshotTypes DEF SnapshotsInv, ClientRecord
<1>3. /\ Len(gamestates) \in Nat \ {0} /\ Len(gamestates') = Len(gamestates) - 1
      /\ Head(gamestates) = gamestates[1] /\ gamestates' \in Seq(1 .. level)
      /\ \A i \in 1 .. Len(gamestates) - 1 : gamestates'[i] = gamestates[i + 1]
  <2>1. Len(gamestates) \in Nat \ {0}
    BY <1>1, <1>2, EmptySeq
  <2> QED BY <1>1, <1>2, <2>1, HeadTailProperties
<1>4. \A i \in 1 .. Len(gamestates) : gamestates[i] \in 1 .. level
  BY <1>2, ElementOfSeq
<1>5. /\ \A i \in 1 .. Len(gamestates) : client.level < gamestates[i]
      /\ \A i, j \in 1 .. Len(gamestates) : i < j => gamestates[i] < gamestates[j]
      /\ \A i \in 1 .. Len(toServer) : toServer[i].level <= client.level
      /\ (~cl.gamestate => \A i \in 1 .. Len(gamestates) : gamestates[i] < level)
      /\ (cl.state = "active" => client.level = level)
      /\ (loading => level < MaxLevel)
  BY DEF SnapshotsInv, LevelsAscend
<1>6. 1 \in 1 .. Len(gamestates)
  BY <1>3
<1>7. client.level < Head(gamestates) /\ Head(gamestates) \in 1 .. level
  BY <1>3, <1>4, <1>5, <1>6
<1>8. Snapshots!Empty \in Snaps /\ \A n \in 0 .. PacketBackup - 1 : Snapshots!Empty[n] = << >>
  BY DEF Snapshots!Empty, Snaps
<1>9. /\ client' \in Holder /\ client'.level = Head(gamestates) /\ client'.current = 0
      /\ client'.last = client.last /\ client'.snaps = Snapshots!Empty
  <2>1. Head(gamestates) \in Nat
    BY <1>2, <1>7
  <2> QED BY <1>1, <1>2, <1>8, <2>1 DEF Holder, Snaps
<1>10. cl.state # "active" /\ client.level < level
  BY <1>2, <1>5, <1>7
<1>11. Snapshots!TypeOK'
  <2>1. /\ client'.last \in 0 .. cl.outgoing - 1 /\ client'.current \in 0 .. client'.last
        /\ client'.level \in 0 .. level
    BY <1>2, <1>7, <1>9
  <2>2. toServer' \in Seq([acknowledge : 0 .. client'.last, delta : BOOLEAN, level : 0 .. level])
    BY <1>1, <1>2, <1>9
  <2>3. \A n \in 0 .. PacketBackup - 1 : client'.snaps[n] # << >> =>
          client'.snaps[n] \in (1 .. client'.last) \X Snapshots!Content
    BY <1>8, <1>9
  <2> QED BY <1>1, <1>3, <1>9, <2>1, <2>2, <2>3, ClientTyped
<1>12. ReliedKept'
  <2>1. \A a : ~Asked(a, toServer', level')
    <3>1. ASSUME NEW i \in 1 .. Len(toServer) PROVE toServer[i].level # level
      <4>1. toServer[i] \in [acknowledge : 0 .. client.last, delta : BOOLEAN, level : 0 .. level]
        BY <1>2, ElementOfSeq, Zenon
      <4> QED BY <1>2, <1>5, <1>10, <4>1
    <3> QED BY <1>1, <3>1 DEF Asked
  <2>2. client'.current = 0 /\ cl'.state # "active"
    BY <1>1, <1>9, <1>10
  <2>3. ASSUME NEW a \in Relied' PROVE FALSE
    BY <2>1, <2>2, <2>3, ReliedAfter
  <2> QED BY <2>3, Zenon DEF ReliedKept
<1>13. LastInFlight' /\ NextIsEmpty' /\ Snapshots!ShownIsBuilt'
  BY <1>1, UntouchedStay
<1>14. Snapshots!BaseAgrees'
  <2>1. ASSUME NEW i \in 1 .. Len(toClient) PROVE toClient[i].base = 0
    BY <1>10 DEF SnapshotsInv, LastInFlight
  <2> QED BY <1>1, <2>1 DEF Snapshots!BaseAgrees, Snapshots!Has
<1>15. LevelsAscend'
  <2>1. ASSUME NEW i \in 1 .. Len(gamestates')
        PROVE  i \in 1 .. Len(gamestates) - 1 /\ i + 1 \in 1 .. Len(gamestates) /\ 1 < i + 1
    BY <1>3
  <2>2. ASSUME NEW i \in 1 .. Len(gamestates') PROVE client'.level < gamestates'[i]
    BY <1>3, <1>5, <1>6, <1>9, <2>1
  <2>3. ASSUME NEW i \in 1 .. Len(gamestates'), NEW j \in 1 .. Len(gamestates'), i < j
        PROVE  gamestates'[i] < gamestates'[j]
    <3>1. i + 1 < j + 1
      BY <1>3, <2>3
    <3> QED BY <1>3, <1>5, <2>1, <3>1
  <2>4. ASSUME NEW i \in 1 .. Len(toServer') PROVE toServer'[i].level <= client'.level
    <3>1. toServer[i] \in [acknowledge : 0 .. client.last, delta : BOOLEAN, level : 0 .. level]
      BY <1>1, <1>2, ElementOfSeq, Zenon
    <3>2. toServer[i].level <= client.level /\ toServer[i].level \in Int
      BY <1>1, <1>5, <3>1
    <3>3. toServer'[i] = toServer[i] /\ client'.level = Head(gamestates)
      BY <1>1, <1>9
    <3>4. client.level \in Nat /\ Head(gamestates) \in Nat /\ client.level < Head(gamestates)
      BY <1>2, <1>7
    <3> QED BY ONLY <3>2, <3>3, <3>4
  <2>5. ASSUME ~cl'.gamestate
        PROVE  client'.level < level' /\ \A i \in 1 .. Len(gamestates') : gamestates'[i] < level'
    <3>1. \A i \in 1 .. Len(gamestates) : gamestates[i] < level
      BY <1>1, <1>5, <2>5
    <3> QED BY <1>1, <1>3, <1>6, <1>9, <2>1, <3>1
  <2>6. cl'.state # "active" /\ (loading' => level' < MaxLevel)
    BY <1>1, <1>5, <1>10
  <2> QED BY <2>2, <2>3, <2>4, <2>5, <2>6 DEF LevelsAscend
<1> QED BY <1>9, <1>11, <1>12, <1>13, <1>14, <1>15, Zenon DEF SnapshotsInv, Holder

\* The client sends: it asks for differences to what it has only.
LEMMA ClientSendsSnapshotKeeps ==
  ASSUME SnapshotsInv, Snapshots!ClientSends PROVE SnapshotsInv'
<1> DEFINE m == [acknowledge |-> client.last, delta |-> client.last = client.current,
                 level |-> client.level]
<1>1. toServer' = <<m>> /\ UNCHANGED <<cl, next, ring, level, loading, client, toClient, gamestates>>
  BY DEF Snapshots!ClientSends, Snapshots!serverVars
<1>2. /\ cl \in ClientRecord /\ cl.outgoing \in 1 .. SnapshotMessages /\ client \in Holder
      /\ client.last \in 0 .. cl.outgoing - 1 /\ client.current \in 0 .. client.last
      /\ client.level \in 0 .. level /\ gamestates \in Seq(1 .. level)
  BY SnapshotTypes DEF SnapshotsInv, ClientRecord
<1>3. m \in [acknowledge : 0 .. client.last, delta : BOOLEAN, level : 0 .. level]
  BY <1>2
<1>4. Snapshots!TypeOK'
  <2>1. toServer' \in Seq([acknowledge : 0 .. client'.last, delta : BOOLEAN, level : 0 .. level])
    <3> HIDE DEF m
    <3>1. toServer' \in Seq([acknowledge : 0 .. client.last, delta : BOOLEAN, level : 0 .. level])
      BY <1>1, <1>3
    <3> QED BY <1>1, <3>1
  <2>2. \A n \in 0 .. PacketBackup - 1 : client.snaps[n] # << >> =>
          client.snaps[n] \in (1 .. client.last) \X Snapshots!Content
    BY <1>2 DEF SnapshotsInv, Snapshots!TypeOK, Holder
  <2>3. client' = client /\ toClient' = toClient /\ gamestates' = gamestates
    BY <1>1
  <2> QED BY <1>1, <1>2, <2>1, <2>2, <2>3, ClientTyped
<1>5. Relied' \subseteq Relied
  <2>1. SUFFICES ASSUME NEW a \in Relied' PROVE a \in Relied
    OBVIOUS
  <2>2. /\ a \in Nat \ {0}
        /\ \/ a = client'.current /\ client'.level = level'
           \/ a = cl'.delta /\ cl'.state = "active"
           \/ Asked(a, toServer', level')
    BY <2>1, ReliedAfter, Zenon
  <2>3. ASSUME Asked(a, toServer', level') PROVE a = client.current /\ client.level = level
    <3>1. PICK i \in 1 .. Len(toServer') :
            a = toServer'[i].acknowledge /\ toServer'[i].delta /\ toServer'[i].level = level'
      BY <2>3, Zenon DEF Asked
    <3>2. toServer'[i] = m
      <4> HIDE DEF m
      <4>1. i \in 1 .. Len(<<m>>)
        BY <1>1, <3>1, Zenon
      <4> QED BY ONLY <1>1, <4>1
    <3>3. a = m.acknowledge /\ m.delta /\ m.level = level
      BY <1>1, <3>1, <3>2, Zenon
    <3>4. m.acknowledge = client.last /\ m.level = client.level
      BY ONLY TRUE
    <3>5. m.delta <=> client.last = client.current
      BY Zenon
    <3> QED BY <3>3, <3>4, <3>5, Zenon
  <2>4. client' = client /\ cl' = cl /\ level' = level
    BY <1>1
  <2> QED BY <2>2, <2>3, <2>4, ReliedIs
<1>6. ReliedKept'
  <2>1. Preserved(next, ring, next', ring')
    BY <1>1, Zenon DEF Preserved
  <2> QED BY <1>1, <1>2, <1>5, <2>1, ReliedStays
<1>7. LastInFlight' /\ NextIsEmpty' /\ Snapshots!ShownIsBuilt'
  BY <1>1, UntouchedStay
<1>8. Snapshots!BaseAgrees'
  BY <1>1 DEF SnapshotsInv, Snapshots!BaseAgrees, Snapshots!Has
<1>9. LevelsAscend'
  <2>1. \A i \in 1 .. Len(toServer') : toServer'[i].level <= client'.level
    BY <1>1, <1>2
  <2> QED BY <1>1, <2>1 DEF SnapshotsInv, LevelsAscend
<1> QED BY <1>1, <1>4, <1>6, <1>7, <1>8, <1>9 DEF SnapshotsInv

\* Every step of SnapshotFrames keeps it.
LEMMA SnapshotsNextKeeps ==
  ASSUME SnapshotsInv, [Snapshots!Next]_(Snapshots!vars) PROVE SnapshotsInv'
<1>1. CASE UNCHANGED Snapshots!vars
  <2>1. UNCHANGED <<cl, next, ring, level, loading, client, toClient, toServer, gamestates>>
    BY <1>1 DEF Snapshots!vars, Snapshots!serverVars
  <2>2. LastInFlight' /\ NextIsEmpty' /\ Snapshots!ShownIsBuilt'
    BY <2>1, UntouchedStay
  <2>3. ReliedKept'
    <3>1. Preserved(next, ring, next', ring') /\ Relied' = Relied
      <4>1. Preserved(next, ring, next', ring')
        BY <2>1, Zenon DEF Preserved
      <4> QED BY <2>1, <4>1, ReliedAfter, ReliedIs
    <3>2. cl.outgoing \in Nat
      BY SnapshotTypes DEF SnapshotsInv
    <3> QED BY <2>1, <3>1, <3>2, ReliedStays
  <2>4. Snapshots!TypeOK' /\ client' \in Holder
    BY <2>1 DEF SnapshotsInv, Snapshots!TypeOK
  <2>5. Snapshots!BaseAgrees' /\ LevelsAscend'
    BY <2>1 DEF SnapshotsInv, Snapshots!BaseAgrees, Snapshots!Has, LevelsAscend
  <2> QED BY <2>2, <2>3, <2>4, <2>5, Zenon DEF SnapshotsInv, Holder
<1>2. CASE Snapshots!Next
  BY <1>2, SendSnapshotKeeps, SendPlainKeeps, SendClientGameStateKeeps, SpawnServerKeeps,
     LevelLoadedKeeps, SnapshotPacketKeeps, ClientReadsSnapshotKeeps, ClientTakesGameStateKeeps,
     ClientSendsSnapshotKeeps DEF Snapshots!Next
<1> QED BY <1>1, <1>2

\* It holds at the beginning: nobody has a snapshot.
LEMMA SnapshotsInitHolds == Snapshots!Init => SnapshotsInv
<1> SUFFICES ASSUME Snapshots!Init PROVE SnapshotsInv
  OBVIOUS
<1>1. /\ next = [r \in Snapshots!Rings |-> 0] /\ level = 1 /\ loading = FALSE
      /\ ring = [r \in Snapshots!Rings |-> [i \in 0 .. RingSize[r] - 1 |-> Snapshots!Nothing]]
      /\ cl = [state |-> "connected", outgoing |-> 1, delta |-> 0, gamestate |-> FALSE,
               frames |-> [n \in 0 .. PacketBackup - 1 |-> Snapshots!ClearFrame(next)]]
      /\ client = [last |-> 0, current |-> 0, snaps |-> Snapshots!Empty, level |-> 0]
      /\ toClient = << >> /\ toServer = << >> /\ gamestates = << >>
  BY DEF Snapshots!Init
<1>2. next \in Places
  BY <1>1 DEF Places
<1> DEFINE clear == Snapshots!ClearFrame(next)
<1>3. /\ clear \in Snapshots!Frame /\ clear.ps = Snapshots!Nothing
      /\ \A r \in Snapshots!Rings : clear.num[r] = 0
  BY <1>2, ClearFrameTyped
<1>4. cl = [state |-> "connected", outgoing |-> 1, delta |-> 0, gamestate |-> FALSE,
            frames |-> [n \in 0 .. PacketBackup - 1 |-> clear]]
  BY <1>1
<1> HIDE DEF clear
<1>5. /\ cl \in ClientRecord /\ cl.outgoing = 1 /\ cl.delta = 0 /\ cl.state = "connected"
      /\ \A n \in 0 .. PacketBackup - 1 : cl.frames[n] = clear
  BY <1>3, <1>4, SnapshotConstants DEF ClientRecord
<1>6. Snapshots!Empty \in Snaps /\ \A n \in 0 .. PacketBackup - 1 : Snapshots!Empty[n] = << >>
  BY DEF Snapshots!Empty, Snaps
<1>7. /\ client \in Holder /\ client.last = 0 /\ client.current = 0 /\ client.level = 0
      /\ client.snaps = Snapshots!Empty
  BY <1>1, <1>6 DEF Holder, Snaps
<1>8. Filled(ring)
  <2>1. Snapshots!Nothing \in Snapshots!Stamp
    BY SnapshotConstants DEF Snapshots!Nothing, Snapshots!Stamp, Snapshots!Another
  <2> QED BY <1>1, <2>1 DEF Filled
<1>9. Snapshots!TypeOK
  <2>1. /\ client.last \in 0 .. cl.outgoing - 1 /\ client.current \in 0 .. client.last
        /\ level \in 1 .. MaxLevel /\ loading \in BOOLEAN /\ client.level \in 0 .. level
    <3>1. level = 1 /\ loading = FALSE
      BY <1>1, Zenon
    <3>2. 1 \in 1 .. MaxLevel
      BY ONLY SnapshotConstants
    <3>3. cl.outgoing - 1 = 0 /\ 0 \in 0 .. 0 /\ 0 \in 0 .. 1
      BY ONLY <1>5
    <3>4. cl.outgoing - 1 = 0 /\ client.last = 0 /\ client.current = 0 /\ client.level = 0
      BY <1>7, <3>3
    <3> QED BY ONLY <3>1, <3>2, <3>3, <3>4, Zenon
  <2>2. \A n \in DOMAIN client.snaps : client.snaps[n] # << >> =>
          client.snaps[n] \in (1 .. client.last) \X Snapshots!Content
    BY <1>6, <1>7 DEF Snaps
  <2>3. /\ toClient \in Seq([number : 1 .. cl.outgoing - 1, snapshot : BOOLEAN,
                             base : 0 .. SnapshotMessages, to : Snapshots!Content,
                             from : Snapshots!Content])
        /\ toServer \in Seq([acknowledge : 0 .. client.last, delta : BOOLEAN, level : 0 .. level])
        /\ gamestates \in Seq(1 .. level)
    BY <1>1
  <2>4. \A r \in Snapshots!Rings : ring[r] \in [0 .. RingSize[r] - 1 -> Snapshots!Stamp]
    BY <1>8 DEF Filled
  <2> QED BY <1>2, <1>5, <2>1, <2>2, <2>3, <2>4, Zenon DEF Snapshots!TypeOK, ClientRecord, Places
<1>10. ReliedKept
  <2>1. \A a : ~Asked(a, toServer, level)
    BY <1>1 DEF Asked
  <2>2. ASSUME NEW a \in Relied PROVE FALSE
    BY <1>5, <1>7, <2>1, <2>2, ReliedIs
  <2> QED BY <2>2, Zenon DEF ReliedKept
<1>11. NextIsEmpty
  <2>1. cl.frames[cl.outgoing % PacketBackup] = clear
    BY <1>5, SnapshotConstants
  <2> QED BY <1>3, <1>5, <2>1 DEF NextIsEmpty
<1>12. Snapshots!ShownIsBuilt /\ Snapshots!BaseAgrees /\ LastInFlight
  BY <1>1 DEF Snapshots!ShownIsBuilt, Snapshots!BaseAgrees, LastInFlight
<1>13. LevelsAscend
  BY <1>1, <1>5, <1>7 DEF LevelsAscend
<1> QED BY <1>7, <1>9, <1>10, <1>11, <1>12, <1>13 DEF SnapshotsInv

\* What is so of the snapshots at every time.
SnapshotsIInv == component = "snapshots" => SnapshotsInv

\* It is an invariant.
LEMMA SnapshotsHold == Spec => []SnapshotsIInv
<1>1. Init => SnapshotsIInv
  BY SnapshotsInitHolds DEF Init, SnapshotsIInv
<1>2. ASSUME SnapshotsIInv, [Next]_vars PROVE SnapshotsIInv'
  <2>1. SUFFICES ASSUME component = "snapshots" PROVE SnapshotsInv'
    BY <1>2, OnePart DEF SnapshotsIInv
  <2> QED BY <1>2, <2>1, OnePart, SnapshotsNextKeeps DEF SnapshotsIInv
<1> QED BY <1>1, <1>2, PTL DEF Spec

\* ShownIsBuilt: in the snapshot of a client is only what was built for it in this frame,
\* whatever the sizes of the rings are (SV_BuildClientSnapshot, SV_SendClientMessages).
THEOREM ShownStaysBuilt == Spec => []ShownIsBuilt
<1>1. SnapshotsIInv => ShownIsBuilt
  BY DEF SnapshotsIInv, SnapshotsInv, ShownIsBuilt
<1> QED BY <1>1, SnapshotsHold, PTL

\* BaseAgrees: a snapshot that is coded against an earlier one finds it with the client, as
\* the server has it (SV_WriteSnapshotToClient).
THEOREM BasesAgree == Spec => []BaseAgrees
<1>1. SnapshotsIInv => BaseAgrees
  BY DEF SnapshotsIInv, SnapshotsInv, BaseAgrees
<1> QED BY <1>1, SnapshotsHold, PTL

-----------------------------------------------------------------------------
(* The chains of buckets.                                                  *)

Hashes == {Hash[a] : a \in Address}

Link == Queries!Slot \cup {Queries!None}

Bucket ==
  [address : Address \cup {"none"}, lastTime : Int, burst : Int, hash : Nat,
   prev : Link, next : Link]

\* The bucket b of the table t is used.
Used(t, b) == t[b].address # "none"

\* The links of the bucket b lead to buckets of the same hash, and back; where there is none
\* before it, its chain begins.
LinkedAt(t, h, b) ==
  IF Used(t, b)
    THEN /\ t[b].hash = Hash[t[b].address]
         /\ t[b].prev = Queries!None => h[t[b].hash] = b
         /\ t[b].prev # Queries!None =>
              Used(t, t[b].prev) /\ t[t[b].prev].hash = t[b].hash /\ t[t[b].prev].next = b
         /\ t[b].next # Queries!None =>
              Used(t, t[b].next) /\ t[t[b].next].hash = t[b].hash /\ t[t[b].next].prev = b
    ELSE t[b] = Queries!Free

\* The bucket the chain of the hash x begins with.
HeadAt(t, h, x) ==
  h[x] # Queries!None => Used(t, h[x]) /\ t[h[x]].hash = x /\ t[h[x]].prev = Queries!None

\* Along a chain the rank falls: it has an end.
Falls(t, rank) ==
  \A b \in Queries!Slot :
    Used(t, b) /\ t[b].next # Queries!None => rank[t[b].next] < rank[b]

Unique(t) ==
  \A b, c \in Queries!Slot : Used(t, b) /\ t[b].address = t[c].address => b = c

\* A table t and its heads h as SVC_BucketForAddress has them.
Chained(t, h) ==
  /\ t \in [Queries!Slot -> Bucket] /\ h \in [Hashes -> Link]
  /\ \A b \in Queries!Slot : LinkedAt(t, h, b)
  /\ \A x \in Hashes : HeadAt(t, h, x)
  /\ Unique(t)
  /\ \E n \in Nat : \E rank \in [Queries!Slot -> 0 .. n] : Falls(t, rank)

\* What is assumed of the constants.
LEMMA RateConstants ==
  /\ "none" \notin Address /\ Hash \in [Address -> Nat]
  /\ MaxBuckets \in Nat \ {0} /\ Period \in Nat \ {0}
  /\ IntRange \in Nat \ {0} /\ 2 * Period <= IntRange \div 2 /\ IntRange \div 2 \in Nat
  /\ CharRange \in Nat \ {0} /\ CharRange \div 2 \in Nat
  /\ \A n \in Bursts : n \in Nat /\ 2 <= n /\ n < CharRange \div 2
  /\ Bursts # {} /\ Steps \subseteq Nat
  /\ Queries!Slot = 0 .. MaxBuckets - 1 /\ Queries!None = -1
<1>1. /\ "none" \notin Address /\ Hash \in [Address -> Nat]
      /\ MaxBuckets \in Nat \ {0} /\ Period \in Nat \ {0}
      /\ IntRange \in Nat /\ CharRange \in Nat /\ 2 * Period <= IntRange \div 2
      /\ Bursts \subseteq 2 .. (CharRange \div 2) - 1 /\ Bursts # {}
      /\ Steps \subseteq Nat
      /\ Queries!Slot = 0 .. MaxBuckets - 1 /\ Queries!None = -1
  BY QueriesAssumed DEF Queries!RateAssumption, Queries!Slot, Queries!None
<1>2. IntRange \div 2 \in Nat /\ CharRange \div 2 \in Nat
  BY <1>1
<1>3. \A n \in Bursts : n \in Nat /\ 2 <= n /\ n < CharRange \div 2
  <2> DEFINE half == CharRange \div 2
  <2>1. half \in Nat /\ \A n \in Bursts : n \in 2 .. half - 1
    BY <1>1, <1>2
  <2> HIDE DEF half
  <2>2. \A n \in Bursts : n \in Nat /\ 2 <= n /\ n < half
    BY <2>1
  <2> QED BY <2>2 DEF half
<1>4. IntRange # 0 /\ CharRange # 0
  <2>1. IntRange # 0
    BY <1>1
  <2>2. PICK n \in Bursts : TRUE
    BY <1>1
  <2>3. 2 < CharRange \div 2
    BY <1>2, <1>3, <2>2
  <2> QED BY <1>1, <2>1, <2>3
<1> QED BY <1>1, <1>2, <1>3, <1>4, Zenon

\* The walk of n steps from the bucket b, as Chain takes it.
Walk(t, b, n, g) ==
  g = [i \in 1 .. n |-> IF i = 1 THEN b
                        ELSE IF g[i - 1] = Queries!None THEN Queries!None ELSE t[g[i - 1]].next]

WalkOf(t, b, n) == CHOOSE g : Walk(t, b, n, g)

\* There is one.
LEMMA WalkExists ==
  ASSUME NEW t, NEW b, NEW n \in Nat PROVE Walk(t, b, n, WalkOf(t, b, n))
<1> DEFINE S == {k \in Nat : \E g : Walk(t, b, k, g)}
<1>1. 0 \in S
  <2>1. Walk(t, b, 0, [i \in 1 .. 0 |-> b])
    BY DEF Walk
  <2> QED BY <2>1
<1>2. ASSUME NEW k \in 1 .. n, k - 1 \in S PROVE k \in S
  <2>1. PICK g : Walk(t, b, k - 1, g)
    BY <1>2
  <2> DEFINE last == IF k = 1 THEN b
                     ELSE IF g[k - 1] = Queries!None THEN Queries!None ELSE t[g[k - 1]].next
             f == [i \in 1 .. k |-> IF i = k THEN last ELSE g[i]]
  <2>2. \A i \in 1 .. k : i # k => i \in 1 .. k - 1 /\ f[i] = g[i]
    OBVIOUS
  <2>3. \A i \in 1 .. k : i # 1 => i - 1 \in 1 .. k - 1 /\ i - 1 # k /\ f[i - 1] = g[i - 1]
    OBVIOUS
  <2>4. ASSUME NEW i \in 1 .. k
        PROVE  f[i] = IF i = 1 THEN b
                      ELSE IF f[i - 1] = Queries!None THEN Queries!None ELSE t[f[i - 1]].next
    <3>1. CASE i = k
      <4>1. f[i] = last
        BY <3>1
      <4> HIDE DEF f
      <4> QED BY <2>3, <3>1, <4>1
    <3>2. CASE i # k
      <4>1. i \in 1 .. k - 1 /\ f[i] = g[i]
        BY <2>2, <3>2
      <4>2. g[i] = IF i = 1 THEN b
                   ELSE IF g[i - 1] = Queries!None THEN Queries!None ELSE t[g[i - 1]].next
        BY <2>1, <4>1 DEF Walk
      <4> HIDE DEF f
      <4> QED BY <2>3, <4>1, <4>2
    <3> QED BY <3>1, <3>2
  <2>5. Walk(t, b, k, f)
    <3>1. f = [i \in 1 .. k |-> f[i]]
      OBVIOUS
    <3> HIDE DEF f
    <3> QED BY <2>4, <3>1 DEF Walk
  <2> QED BY <2>5
<1>3. 0 .. n \subseteq S
  <2> HIDE DEF S
  <2> QED BY <1>1, <1>2, UpTo
<1>4. \E g : Walk(t, b, n, g)
  BY <1>3
<1> QED BY <1>4 DEF WalkOf

\* Its first step, and the others.
LEMMA WalkSteps ==
  ASSUME NEW t, NEW b, NEW n \in Nat \ {0}
  PROVE  /\ WalkOf(t, b, n)[1] = b
         /\ \A i \in 1 .. n - 1 :
              WalkOf(t, b, n)[i + 1] = IF WalkOf(t, b, n)[i] = Queries!None THEN Queries!None
                                       ELSE t[WalkOf(t, b, n)[i]].next
<1> DEFINE g == WalkOf(t, b, n)
<1>1. Walk(t, b, n, g)
  BY WalkExists
<1> HIDE DEF g
<1>2. g[1] = b
  BY <1>1 DEF Walk
<1>3. ASSUME NEW i \in 1 .. n - 1
      PROVE  g[i + 1] = IF g[i] = Queries!None THEN Queries!None ELSE t[g[i]].next
  <2>1. i + 1 \in 1 .. n /\ i + 1 # 1 /\ (i + 1) - 1 = i
    OBVIOUS
  <2> QED BY <1>1, <2>1 DEF Walk
<1> QED BY <1>2, <1>3 DEF g

\* Chain is the buckets of that walk.
LEMMA ChainIsWalk ==
  ASSUME NEW b, NEW n \in Nat
  PROVE  Queries!Chain(b, n) = {WalkOf(buckets, b, n)[i] : i \in 1 .. n} \ {Queries!None}
BY DEF Queries!Chain, WalkOf, Walk

\* A bucket of the chain of the hash x, if it is one.
OnChain(t, x, c) == c \in Link /\ (c # Queries!None => Used(t, c) /\ t[c].hash = x)

\* The walk from the beginning of a chain stays on it.
LEMMA WalkStays ==
  ASSUME NEW t, NEW h, Chained(t, h), NEW x \in Hashes, NEW n \in Nat \ {0}
  PROVE  \A i \in 1 .. n : OnChain(t, x, WalkOf(t, h[x], n)[i])
<1> DEFINE g == WalkOf(t, h[x], n)
           S == {i \in 0 .. n : i > 0 => OnChain(t, x, g[i])}
<1>1. g[1] = h[x] /\ \A i \in 1 .. n - 1 : g[i + 1] = IF g[i] = Queries!None THEN Queries!None
                                                      ELSE t[g[i]].next
  BY WalkSteps
<1> HIDE DEF g
<1>2. OnChain(t, x, g[1])
  BY <1>1 DEF Chained, HeadAt, OnChain
<1>3. ASSUME NEW i \in 1 .. n - 1, OnChain(t, x, g[i]) PROVE OnChain(t, x, g[i + 1])
  <2>1. CASE g[i] = Queries!None
    BY <1>1, <1>3, <2>1, Zenon DEF OnChain
  <2>2. CASE g[i] # Queries!None
    <3>1. g[i + 1] = t[g[i]].next /\ g[i] \in Queries!Slot
      BY <1>1, <1>3, <2>2 DEF OnChain, Link
    <3>2. LinkedAt(t, h, g[i]) /\ t[g[i]] \in Bucket
      BY <3>1 DEF Chained
    <3> QED BY <1>3, <2>2, <3>1, <3>2 DEF OnChain, LinkedAt, Bucket
  <2> QED BY <2>1, <2>2
<1>4. ASSUME NEW k \in 1 .. n, k - 1 \in S PROVE k \in S
  <2>1. CASE k = 1
    BY <1>2, <2>1
  <2>2. CASE k # 1
    <3>1. k - 1 \in 1 .. n - 1 /\ (k - 1) + 1 = k /\ OnChain(t, x, g[k - 1])
      BY <1>4, <2>2
    <3>2. OnChain(t, x, g[(k - 1) + 1])
      BY <1>3, <3>1, Zenon
    <3> QED BY <3>1, <3>2
  <2> QED BY <2>1, <2>2
<1>5. 0 .. n \subseteq S
  <2>1. 0 \in S
    OBVIOUS
  <2> HIDE DEF S
  <2> QED BY <1>4, <2>1, UpTo
<1>6. \A i \in 1 .. n : OnChain(t, x, g[i])
  BY <1>5
<1> QED BY <1>6 DEF g

\* It walks down: if it has not ended, all steps were different buckets.
LEMMA WalkFalls ==
  ASSUME NEW t, NEW h, Chained(t, h), NEW x \in Hashes, NEW n \in Nat \ {0},
         WalkOf(t, h[x], n)[n] # Queries!None
  PROVE  /\ \A i \in 1 .. n : WalkOf(t, h[x], n)[i] # Queries!None
         /\ \A i, j \in 1 .. n : i < j => WalkOf(t, h[x], n)[i] # WalkOf(t, h[x], n)[j]
<1> DEFINE g == WalkOf(t, h[x], n)
<1>1. /\ \A i \in 1 .. n - 1 : g[i + 1] = IF g[i] = Queries!None THEN Queries!None
                                          ELSE t[g[i]].next
      /\ \A i \in 1 .. n : OnChain(t, x, g[i])
      /\ g[n] # Queries!None
  BY WalkSteps, WalkStays
<1> HIDE DEF g
<1>0. PICK m \in Nat : \E rank \in [Queries!Slot -> 0 .. m] : Falls(t, rank)
  BY Zenon DEF Chained
<1>2. PICK rank \in [Queries!Slot -> 0 .. m] : Falls(t, rank)
  BY <1>0
<1> DEFINE Below(k) == g[k] # Queries!None =>
             \A i \in 1 .. k : g[i] # Queries!None /\ (i < k => rank[g[k]] < rank[g[i]])
           S == {k \in 0 .. n : k > 0 => Below(k)}
<1>3. ASSUME NEW k \in 1 .. n - 1, Below(k) PROVE Below(k + 1)
  <2>1. SUFFICES ASSUME g[k + 1] # Queries!None, NEW i \in 1 .. k + 1
                 PROVE  g[i] # Queries!None /\ (i < k + 1 => rank[g[k + 1]] < rank[g[i]])
    OBVIOUS
  <2>2. g[k] # Queries!None /\ g[k + 1] = t[g[k]].next
    BY <1>1, <2>1
  <2>3. g[k] \in Queries!Slot /\ g[k + 1] \in Queries!Slot /\ Used(t, g[k])
    BY <1>1, <2>1, <2>2 DEF OnChain, Link
  <2>4. rank[g[k + 1]] < rank[g[k]]
    BY <1>2, <2>1, <2>2, <2>3 DEF Falls
  <2>5. CASE i = k + 1
    BY <2>1, <2>5
  <2>6. CASE i = k
    BY <2>2, <2>4, <2>6
  <2>7. CASE i < k
    <3>1. i \in 1 .. k /\ g[i] # Queries!None /\ rank[g[k]] < rank[g[i]]
      BY <1>3, <2>2, <2>7
    <3>2. g[i] \in Queries!Slot
      BY <1>1, <3>1 DEF OnChain, Link
    <3>3. rank[g[k + 1]] \in Int /\ rank[g[k]] \in Int /\ rank[g[i]] \in Int
      BY <1>2, <2>3, <3>2
    <3> QED BY <2>4, <3>1, <3>3
  <2> QED BY <2>5, <2>6, <2>7
<1>4. Below(1)
  OBVIOUS
<1>5. ASSUME NEW k \in 1 .. n, k - 1 \in S PROVE k \in S
  <2>1. CASE k = 1
    BY <1>4, <2>1
  <2>2. CASE k # 1
    <3>1. k - 1 \in 1 .. n - 1 /\ (k - 1) + 1 = k /\ Below(k - 1)
      BY <1>5, <2>2
    <3>2. Below((k - 1) + 1)
      <4> HIDE DEF Below
      <4> QED BY <1>3, <3>1, Zenon
    <3>3. Below(k)
      <4> HIDE DEF Below
      <4> QED BY <3>1, <3>2
    <3> HIDE DEF Below
    <3> QED BY <3>3
  <2> QED BY <2>1, <2>2
<1>6. 0 .. n \subseteq S
  <2>1. 0 \in S
    OBVIOUS
  <2> HIDE DEF S
  <2> QED BY <1>5, <2>1, UpTo
<1>7. \A k \in 1 .. n : Below(k)
  <2> HIDE DEF Below
  <2> QED BY <1>6
<1>8. \A i \in 1 .. n : g[i] # Queries!None
  BY <1>1, <1>7
<1>9. ASSUME NEW i \in 1 .. n, NEW j \in 1 .. n, i < j PROVE g[i] # g[j]
  <2>1. rank[g[j]] < rank[g[i]]
    BY <1>7, <1>8, <1>9
  <2>2. g[i] \in Queries!Slot
    BY <1>1, <1>8 DEF OnChain, Link
  <2>3. rank[g[i]] \in Int
    BY <1>2, <2>2
  <2> QED BY <2>1, <2>3
<1> QED BY <1>8, <1>9 DEF g

\* It comes to all buckets of its hash.
LEMMA WalkCovers ==
  ASSUME NEW t, NEW h, Chained(t, h), NEW x \in Hashes,
         NEW b \in Queries!Slot, Used(t, b), t[b].hash = x
  PROVE  \E i \in 1 .. MaxBuckets : WalkOf(t, h[x], MaxBuckets)[i] = b
<1> DEFINE n == MaxBuckets
           g == WalkOf(t, h[x], n)
           R == {g[i] : i \in 1 .. n}
<1>1. n \in Nat \ {0} /\ Queries!Slot = 0 .. n - 1 /\ Queries!None \notin Queries!Slot
  BY RateConstants
<1>2. /\ g[1] = h[x]
      /\ \A i \in 1 .. n - 1 : g[i + 1] = IF g[i] = Queries!None THEN Queries!None ELSE t[g[i]].next
      /\ \A i \in 1 .. n : OnChain(t, x, g[i])
  BY <1>1, WalkSteps, WalkStays
<1>3. ASSUME g[n] # Queries!None
      PROVE  /\ \A i \in 1 .. n : g[i] # Queries!None
             /\ \A i, j \in 1 .. n : i < j => g[i] # g[j]
  <2>1. n \in Nat \ {0} /\ WalkOf(t, h[x], n)[n] # Queries!None
    BY <1>1, <1>3
  <2> QED BY ONLY <2>1, WalkFalls, Chained(t, h), x \in Hashes
<1> HIDE DEF g, n
<1>4. h[x] \in R
  BY <1>1, <1>2
<1>5. ASSUME NEW c \in R, c # Queries!None, t[c].next # Queries!None PROVE t[c].next \in R
  <2>1. PICK i \in 1 .. n : c = g[i]
    BY <1>5
  <2>2. CASE i # n
    <3>1. i \in 1 .. n - 1 /\ i + 1 \in 1 .. n
      BY <1>1, <2>2
    <3> QED BY <1>2, <1>5, <2>1, <3>1
  <2>3. CASE i = n
    <3>1. (\A j \in 1 .. n : g[j] # Queries!None) /\ \A j, k \in 1 .. n : j < k => g[j] # g[k]
      BY <1>3, <1>5, <2>1, <2>3
    <3> DEFINE f == [j \in 1 .. n |-> g[j]]
    <3>2. f \in Injection(1 .. n, Queries!Slot)
      <4>1. \A j \in 1 .. n : g[j] \in Queries!Slot
        BY <1>2, <3>1 DEF OnChain, Link
      <4>2. \A j, k \in 1 .. n : j # k => g[j] # g[k]
        BY <1>1, <3>1
      <4> QED BY <4>1, <4>2 DEF Injection, IsInjective
    <3>3. IsFiniteSet(1 .. n) /\ Cardinality(1 .. n) = n
      BY <1>1, FS_Interval
    <3>4. IsFiniteSet(Queries!Slot) /\ Cardinality(Queries!Slot) = n
      BY <1>1, FS_Interval
    <3>5. f \in Surjection(1 .. n, Queries!Slot)
      <4> HIDE DEF f
      <4> QED BY <3>2, <3>3, <3>4, FS_Injection
    <3>6. \A s \in Queries!Slot : \E j \in 1 .. n : g[j] = s
      BY <3>5 DEF Surjection
    <3>7. t[c].next \in Queries!Slot
      <4>1. c \in Queries!Slot
        BY <1>2, <1>5, <2>1 DEF OnChain, Link
      <4>2. t[c] \in Bucket
        BY <4>1 DEF Chained
      <4> QED BY <1>5, <4>2 DEF Bucket, Link
    <3> QED BY <3>6, <3>7
  <2> QED BY <2>2, <2>3
<1>6. PICK m \in Nat : \E rank \in [Queries!Slot -> 0 .. m] : Falls(t, rank)
  BY Zenon DEF Chained
<1>7. PICK rank \in [Queries!Slot -> 0 .. m] : Falls(t, rank)
  BY <1>6
<1> DEFINE High(k) == \A c \in Queries!Slot : Used(t, c) /\ t[c].hash = x /\ rank[c] >= m - k
                        => c \in R
           S == {k \in 0 .. m : High(k)}
<1> HIDE DEF R
<1>8. ASSUME NEW k \in 0 .. m, NEW c \in Queries!Slot, Used(t, c), t[c].hash = x, rank[c] >= m - k,
             \A d \in Queries!Slot : Used(t, d) /\ t[d].hash = x /\ rank[d] >= m - k + 1 => d \in R
      PROVE  c \in R
  <2>1. LinkedAt(t, h, c) /\ t[c] \in Bucket
    BY DEF Chained
  <2>2. CASE t[c].prev = Queries!None
    BY <1>4, <1>8, <2>1, <2>2 DEF LinkedAt
  <2>3. CASE t[c].prev # Queries!None
    <3>1. t[c].prev \in Queries!Slot /\ Used(t, t[c].prev) /\ t[t[c].prev].hash = x
          /\ t[t[c].prev].next = c
      BY <1>8, <2>1, <2>3 DEF LinkedAt, Bucket, Link
    <3>2. rank[c] < rank[t[c].prev]
      BY <1>1, <1>7, <3>1 DEF Falls
    <3>3. rank[t[c].prev] >= m - k + 1
      <4>1. rank[c] \in Int /\ rank[t[c].prev] \in Int
        BY <1>7, <3>1
      <4> QED BY <1>8, <3>2, <4>1
    <3>4. t[c].prev \in R
      BY <1>8, <3>1, <3>3
    <3>5. t[c].prev # Queries!None /\ t[t[c].prev].next # Queries!None
      BY <1>1, <2>3, <3>1
    <3> QED BY <1>5, <3>1, <3>4, <3>5
  <2> QED BY <2>2, <2>3
<1>9. 0 \in S
  <2>1. ASSUME NEW d \in Queries!Slot, rank[d] >= m - 0 + 1 PROVE FALSE
    <3>1. rank[d] \in 0 .. m
      BY <1>7
    <3> QED BY <2>1, <3>1
  <2>2. ASSUME NEW c \in Queries!Slot, Used(t, c), t[c].hash = x, rank[c] >= m - 0 PROVE c \in R
    BY <1>8, <2>1, <2>2
  <2> QED BY <2>2
<1>10. ASSUME NEW k \in 1 .. m, k - 1 \in S PROVE k \in S
  <2>1. \A d \in Queries!Slot : Used(t, d) /\ t[d].hash = x /\ rank[d] >= m - k + 1 => d \in R
    <3>1. m - (k - 1) = m - k + 1
      OBVIOUS
    <3> QED BY <1>10, <3>1
  <2>2. k \in 0 .. m
    OBVIOUS
  <2> QED BY <1>8, <2>1, <2>2
<1>11. m \in S
  <2>1. 0 .. m \subseteq S
    <3> HIDE DEF S
    <3> QED BY <1>9, <1>10, UpTo
  <2>2. m \in 0 .. m
    OBVIOUS
  <2> HIDE DEF S
  <2> QED BY <2>1, <2>2
<1>12. b \in R
  <2>1. rank[b] >= m - m
    <3>1. rank[b] \in 0 .. m
      BY <1>7
    <3> QED BY <3>1
  <2> QED BY <1>11, <2>1
<1> QED BY <1>12 DEF R, g, n

\* What Chain and Found find.
LEMMA ChainsFound ==
  ASSUME Chained(buckets, heads)
  PROVE  /\ \A x \in Hashes : Queries!Chain(heads[x], MaxBuckets) =
              {b \in Queries!Slot : Used(buckets, b) /\ buckets[b].hash = x}
         /\ \A x \in Hashes : \A b \in Queries!Chain(heads[x], MaxBuckets + 1) :
              b \in Queries!Slot /\ Used(buckets, b) /\ buckets[b].hash = x
         /\ \A a \in Address : Queries!Found(a) = {b \in Queries!Slot : buckets[b].address = a}
<1>1. ASSUME NEW x \in Hashes, NEW n \in Nat \ {0}, NEW b \in Queries!Chain(heads[x], n)
      PROVE  b \in Queries!Slot /\ Used(buckets, b) /\ buckets[b].hash = x
  <2>1. PICK i \in 1 .. n : b = WalkOf(buckets, heads[x], n)[i] /\ b # Queries!None
    BY <1>1, ChainIsWalk
  <2>2. OnChain(buckets, x, b)
    BY <2>1, WalkStays
  <2> QED BY <2>1, <2>2 DEF OnChain, Link
<1>2. ASSUME NEW x \in Hashes, NEW b \in Queries!Slot, Used(buckets, b), buckets[b].hash = x
      PROVE  b \in Queries!Chain(heads[x], MaxBuckets)
  <2>1. \E i \in 1 .. MaxBuckets : WalkOf(buckets, heads[x], MaxBuckets)[i] = b
    BY <1>2, WalkCovers
  <2>2. b # Queries!None /\ MaxBuckets \in Nat
    BY RateConstants
  <2> QED BY <2>1, <2>2, ChainIsWalk
<1>3. ASSUME NEW x \in Hashes
      PROVE  Queries!Chain(heads[x], MaxBuckets) =
               {b \in Queries!Slot : Used(buckets, b) /\ buckets[b].hash = x}
  <2>1. MaxBuckets \in Nat \ {0}
    BY RateConstants
  <2>2. \A b : b \in Queries!Chain(heads[x], MaxBuckets) <=>
               b \in Queries!Slot /\ Used(buckets, b) /\ buckets[b].hash = x
    BY <1>1, <1>2, <2>1
  <2> QED BY <2>2
<1>4. ASSUME NEW a \in Address
      PROVE  Queries!Found(a) = {b \in Queries!Slot : buckets[b].address = a}
  <2>1. Hash[a] \in Hashes /\ a # "none"
    BY RateConstants DEF Hashes
  <2>2. ASSUME NEW b \in Queries!Slot, buckets[b].address = a
        PROVE  Used(buckets, b) /\ buckets[b].hash = Hash[a]
    <3>1. LinkedAt(buckets, heads, b)
      BY DEF Chained
    <3> QED BY <2>1, <2>2, <3>1 DEF LinkedAt, Used
  <2>3. Queries!Chain(heads[Hash[a]], MaxBuckets) =
               {b \in Queries!Slot : Used(buckets, b) /\ buckets[b].hash = Hash[a]}
    BY <1>3, <2>1
  <2>4. Queries!Found(a) = {b \in Queries!Chain(heads[Hash[a]], MaxBuckets) : buckets[b].address = a}
    BY DEF Queries!Found
  <2> QED BY <2>2, <2>3, <2>4
<1> QED
  <2>1. MaxBuckets + 1 \in Nat \ {0}
    BY RateConstants
  <2> QED BY <1>1, <1>3, <1>4, <2>1

-----------------------------------------------------------------------------
(* What is done to the chains.                                             *)

\* The links of two buckets are the same, and so is whose they are.
SameLinks(r, s) == r.address = s.address /\ r.hash = s.hash /\ r.prev = s.prev /\ r.next = s.next

\* A table that differs in levels and times only is chained in the same way.
LEMMA RefilledChained ==
  ASSUME NEW t, NEW h, Chained(t, h), NEW t2 \in [Queries!Slot -> Bucket],
         \A i \in Queries!Slot : SameLinks(t2[i], t[i]) /\ (~Used(t, i) => t2[i] = t[i])
  PROVE  Chained(t2, h)
<1>1. \A i \in Queries!Slot : t[i] \in Bucket /\ LinkedAt(t, h, i)
  BY DEF Chained
<1>2. \A i \in Queries!Slot : Used(t2, i) <=> Used(t, i)
  BY DEF SameLinks, Used
<1>3. \A i \in Queries!Slot : t[i].prev \in Link /\ t[i].next \in Link
  BY <1>1 DEF Bucket
<1>4. ASSUME NEW i \in Queries!Slot PROVE LinkedAt(t2, h, i)
  <2>1. CASE ~Used(t, i)
    BY <1>1, <1>2, <2>1 DEF LinkedAt
  <2>2. CASE Used(t, i)
    <3>1. /\ t2[i].address = t[i].address /\ t2[i].hash = t[i].hash /\ t2[i].prev = t[i].prev
          /\ t2[i].next = t[i].next
      BY DEF SameLinks
    <3>2. t[i].prev # Queries!None =>
            Used(t2, t[i].prev) /\ t2[t[i].prev].hash = t[i].hash /\ t2[t[i].prev].next = i
      BY <1>1, <1>2, <1>3, <2>2 DEF LinkedAt, SameLinks, Link
    <3>3. t[i].next # Queries!None =>
            Used(t2, t[i].next) /\ t2[t[i].next].hash = t[i].hash /\ t2[t[i].next].prev = i
      BY <1>1, <1>2, <1>3, <2>2 DEF LinkedAt, SameLinks, Link
    <3> QED BY <1>1, <1>2, <2>2, <3>1, <3>2, <3>3, Zenon DEF LinkedAt
  <2> QED BY <2>1, <2>2
<1>5. ASSUME NEW x \in Hashes PROVE HeadAt(t2, h, x)
  <2>1. HeadAt(t, h, x) /\ h[x] \in Link
    BY DEF Chained
  <2> QED BY <1>2, <2>1 DEF HeadAt, SameLinks, Link
<1>6. Unique(t2)
  BY <1>2 DEF Chained, Unique, SameLinks
<1>7. \E n \in Nat : \E rank \in [Queries!Slot -> 0 .. n] : Falls(t2, rank)
  <2>1. \A rank : Falls(t, rank) => Falls(t2, rank)
    BY <1>2 DEF Falls, SameLinks
  <2> QED BY <2>1, Zenon DEF Chained
<1> QED BY <1>4, <1>5, <1>6, <1>7, Zenon DEF Chained

\* What Unlinked does to the table and to the heads.
LEMMA UnlinkedIs ==
  ASSUME Chained(buckets, heads), NEW b \in Queries!Slot
  PROVE  LET u == Queries!Unlinked(b) IN
         /\ u.table \in [Queries!Slot -> Bucket] /\ u.heads \in [Hashes -> Link]
         /\ u.table[b] = Queries!Free
         /\ \A i \in Queries!Slot : i # b =>
              /\ u.table[i].address = buckets[i].address /\ u.table[i].hash = buckets[i].hash
              /\ u.table[i].lastTime = buckets[i].lastTime /\ u.table[i].burst = buckets[i].burst
              /\ u.table[i].next = IF i = buckets[b].prev THEN buckets[b].next ELSE buckets[i].next
              /\ u.table[i].prev = IF i = buckets[b].next THEN buckets[b].prev ELSE buckets[i].prev
              /\ ~Used(buckets, i) => u.table[i] = Queries!Free
         /\ \A x \in Hashes :
              u.heads[x] = IF Used(buckets, b) /\ buckets[b].prev = Queries!None /\ x = buckets[b].hash
                             THEN buckets[b].next ELSE heads[x]
<1> DEFINE u == Queries!Unlinked(b)
<1>1. /\ buckets \in [Queries!Slot -> Bucket] /\ heads \in [Hashes -> Link]
      /\ \A i \in Queries!Slot : LinkedAt(buckets, heads, i)
  BY DEF Chained
<1>2. Queries!None \notin Queries!Slot
  BY RateConstants
<1>3. Queries!Free \in Bucket /\ Queries!Free.prev = Queries!None /\ Queries!Free.next = Queries!None
      /\ Queries!Free.address = "none"
  BY DEF Queries!Free, Bucket, Link
<1>4. buckets[b].prev # Queries!None => buckets[b].prev # buckets[b].next
  <2>1. SUFFICES ASSUME buckets[b].prev # Queries!None, buckets[b].prev = buckets[b].next PROVE FALSE
    OBVIOUS
  <2>2. Used(buckets, b)
    BY <1>1, <1>3, <2>1 DEF LinkedAt
  <2>3. PICK n \in Nat : \E rank \in [Queries!Slot -> 0 .. n] : Falls(buckets, rank)
    BY Zenon DEF Chained
  <2>4. PICK rank \in [Queries!Slot -> 0 .. n] : Falls(buckets, rank)
    BY <2>3
  <2> DEFINE c == buckets[b].prev
  <2>5. c \in Queries!Slot /\ Used(buckets, c) /\ buckets[c].next = b
    BY <1>1, <2>1, <2>2 DEF LinkedAt, Bucket, Link
  <2>6. rank[b] < rank[c] /\ rank[c] < rank[b]
    BY <1>2, <2>1, <2>2, <2>4, <2>5 DEF Falls
  <2>7. rank[b] \in 0 .. n /\ rank[c] \in 0 .. n
    BY <2>4, <2>5
  <2> QED BY <2>6, <2>7
<1> DEFINE at(i) == CASE i = b -> Queries!Free
                      [] i # b /\ i = buckets[b].prev -> [buckets[i] EXCEPT !.next = buckets[b].next]
                      [] i # b /\ i = buckets[b].next -> [buckets[i] EXCEPT !.prev = buckets[b].prev]
                      [] OTHER -> buckets[i]
<1>5. u.table = [i \in Queries!Slot |-> at(i)]
  BY DEF Queries!Unlinked
<1>6. at(b) = Queries!Free
  OBVIOUS
<1>7. ASSUME NEW i \in Queries!Slot, i # b
      PROVE  at(i) = IF i = buckets[b].prev THEN [buckets[i] EXCEPT !.next = buckets[b].next]
                     ELSE IF i = buckets[b].next THEN [buckets[i] EXCEPT !.prev = buckets[b].prev]
                     ELSE buckets[i]
  <2>1. i = buckets[b].prev => i # buckets[b].next
    BY <1>2, <1>4
  <2>2. CASE i = buckets[b].prev
    BY ONLY <1>7, <2>1, <2>2
  <2>3. CASE i # buckets[b].prev /\ i = buckets[b].next
    BY ONLY <1>7, <2>3
  <2>4. CASE i # buckets[b].prev /\ i # buckets[b].next
    BY ONLY <1>7, <2>4
  <2> QED BY ONLY <2>2, <2>3, <2>4
<1>8. ASSUME NEW i \in Queries!Slot, i # b
      PROVE  /\ at(i) \in Bucket
             /\ at(i).address = buckets[i].address /\ at(i).hash = buckets[i].hash
             /\ at(i).lastTime = buckets[i].lastTime /\ at(i).burst = buckets[i].burst
             /\ at(i).next = IF i = buckets[b].prev THEN buckets[b].next ELSE buckets[i].next
             /\ at(i).prev = IF i = buckets[b].next THEN buckets[b].prev ELSE buckets[i].prev
  <2>1. buckets[i] \in Bucket /\ buckets[b].next \in Link /\ buckets[b].prev \in Link
    BY <1>1 DEF Bucket
  <2>2. i = buckets[b].prev => i # buckets[b].next
    BY <1>2, <1>4
  <2> HIDE DEF at
  <2> QED BY <1>7, <1>8, <2>1, <2>2 DEF Bucket
<1>9. ASSUME NEW i \in Queries!Slot, i # b, ~Used(buckets, i) PROVE at(i) = Queries!Free
  <2>1. buckets[i] = Queries!Free /\ LinkedAt(buckets, heads, b)
    BY <1>1, <1>9 DEF LinkedAt
  <2>2. i # buckets[b].prev /\ i # buckets[b].next
    <3>1. CASE Used(buckets, b)
      BY <1>2, <1>9, <2>1, <3>1 DEF LinkedAt
    <3>2. CASE ~Used(buckets, b)
      BY <1>2, <1>3, <2>1, <3>2 DEF LinkedAt
    <3> QED BY <3>1, <3>2
  <2> HIDE DEF at
  <2> QED BY <1>7, <1>9, <2>1, <2>2
<1> DEFINE head(x) == IF Used(buckets, b) /\ buckets[b].prev = Queries!None /\ x = buckets[b].hash
                        THEN buckets[b].next ELSE heads[x]
<1>10. u.heads \in [Hashes -> Link] /\ \A x \in Hashes : u.heads[x] = head(x)
  <2>1. u.heads = IF buckets[b].address # "none" /\ buckets[b].prev = Queries!None
                    THEN [heads EXCEPT ![buckets[b].hash] = buckets[b].next] ELSE heads
    BY DEF Queries!Unlinked
  <2>2. buckets[b].next \in Link
    BY <1>1 DEF Bucket
  <2> HIDE DEF u
  <2> QED BY <1>1, <2>1, <2>2 DEF Used
<1>11. u.table \in [Queries!Slot -> Bucket] /\ \A i \in Queries!Slot : u.table[i] = at(i)
  <2>1. \A i \in Queries!Slot : at(i) \in Bucket
    <3> HIDE DEF at
    <3> QED BY <1>3, <1>6, <1>8
  <2> HIDE DEF at, u
  <2> QED BY <1>5, <2>1
<1>12. u.table[b] = Queries!Free
  BY <1>6, <1>11
<1> HIDE DEF at, head
<1>13. ASSUME NEW i \in Queries!Slot, i # b
       PROVE  /\ u.table[i].address = buckets[i].address /\ u.table[i].hash = buckets[i].hash
              /\ u.table[i].lastTime = buckets[i].lastTime /\ u.table[i].burst = buckets[i].burst
              /\ u.table[i].next = IF i = buckets[b].prev THEN buckets[b].next ELSE buckets[i].next
              /\ u.table[i].prev = IF i = buckets[b].next THEN buckets[b].prev ELSE buckets[i].prev
              /\ ~Used(buckets, i) => u.table[i] = Queries!Free
  <2>1. u.table[i] = at(i)
    BY <1>11
  <2> HIDE DEF u
  <2> QED BY <1>8, <1>9, <1>13, <2>1
<1> QED BY <1>10, <1>11, <1>12, <1>13 DEF head

\* What is left is chained.
LEMMA UnlinkedChained ==
  ASSUME Chained(buckets, heads), NEW b \in Queries!Slot
  PROVE  Chained(Queries!Unlinked(b).table, Queries!Unlinked(b).heads)
<1> DEFINE t == Queries!Unlinked(b).table
           h == Queries!Unlinked(b).heads
           over == buckets[b].next
           under == buckets[b].prev
<1>1. /\ t \in [Queries!Slot -> Bucket] /\ h \in [Hashes -> Link] /\ t[b] = Queries!Free
      /\ \A i \in Queries!Slot : i # b =>
           /\ t[i].address = buckets[i].address /\ t[i].hash = buckets[i].hash
           /\ t[i].next = IF i = under THEN over ELSE buckets[i].next
           /\ t[i].prev = IF i = over THEN under ELSE buckets[i].prev
           /\ ~Used(buckets, i) => t[i] = Queries!Free
      /\ \A x \in Hashes :
           h[x] = IF Used(buckets, b) /\ under = Queries!None /\ x = buckets[b].hash
                    THEN over ELSE heads[x]
  BY UnlinkedIs
<1> HIDE DEF t, h
<1>2. /\ buckets \in [Queries!Slot -> Bucket] /\ heads \in [Hashes -> Link]
      /\ \A i \in Queries!Slot : LinkedAt(buckets, heads, i)
      /\ \A i \in Queries!Slot : buckets[i].next \in Link /\ buckets[i].prev \in Link
      /\ \A x \in Hashes : HeadAt(buckets, heads, x) /\ heads[x] \in Link
  BY DEF Chained, Bucket
<1>3. Queries!None \notin Queries!Slot /\ Link = Queries!Slot \cup {Queries!None}
  BY RateConstants DEF Link
<1>4. /\ Queries!Free.prev = Queries!None /\ Queries!Free.next = Queries!None
      /\ Queries!Free.address = "none"
  BY DEF Queries!Free
<1>5. PICK n \in Nat : \E rank \in [Queries!Slot -> 0 .. n] : Falls(buckets, rank)
  BY Zenon DEF Chained
<1>6. PICK rank \in [Queries!Slot -> 0 .. n] : Falls(buckets, rank)
  BY <1>5
<1>7. \A i \in Queries!Slot : Used(t, i) <=> Used(buckets, i) /\ i # b
  BY <1>1, <1>4 DEF Used
<1>8. ASSUME Used(buckets, b)
      PROVE  /\ buckets[b].hash \in Hashes
             /\ under = Queries!None => heads[buckets[b].hash] = b
             /\ under # Queries!None =>
                  under \in Queries!Slot /\ Used(buckets, under) /\ under # b
                  /\ buckets[under].hash = buckets[b].hash /\ buckets[under].next = b
             /\ over # Queries!None =>
                  over \in Queries!Slot /\ Used(buckets, over) /\ over # b
                  /\ buckets[over].hash = buckets[b].hash /\ buckets[over].prev = b
  <2>1. LinkedAt(buckets, heads, b) /\ buckets[b] \in Bucket
    BY <1>2
  <2>2. buckets[b].hash \in Hashes
    BY <1>8, <2>1 DEF LinkedAt, Bucket, Hashes, Used
  <2>3. \A i \in Queries!Slot : rank[i] \in Int
    BY <1>6
  <2>4. over # Queries!None => over # b
    BY <1>6, <1>8, <2>3 DEF Falls
  <2>5. under # Queries!None => under # b
    BY <1>2, <1>3, <1>8, <2>1, <2>4 DEF LinkedAt
  <2> QED BY <1>2, <1>3, <1>8, <2>1, <2>2, <2>4, <2>5 DEF LinkedAt
<1>9. ASSUME ~Used(buckets, b) PROVE over = Queries!None /\ under = Queries!None
  BY <1>2, <1>4, <1>9 DEF LinkedAt
<1>10. ASSUME NEW c \in Queries!Slot, Used(buckets, c), c # b
       PROVE  /\ buckets[c].hash = Hash[buckets[c].address] /\ buckets[c].hash \in Hashes
              /\ buckets[c].prev = Queries!None => heads[buckets[c].hash] = c
              /\ buckets[c].prev # Queries!None =>
                   buckets[c].prev \in Queries!Slot /\ Used(buckets, buckets[c].prev)
                   /\ buckets[buckets[c].prev].hash = buckets[c].hash
                   /\ buckets[buckets[c].prev].next = c
              /\ buckets[c].next # Queries!None =>
                   buckets[c].next \in Queries!Slot /\ Used(buckets, buckets[c].next)
                   /\ buckets[buckets[c].next].hash = buckets[c].hash
                   /\ buckets[buckets[c].next].prev = c
  <2>1. LinkedAt(buckets, heads, c) /\ buckets[c] \in Bucket
    BY <1>2
  <2>2. buckets[c].hash \in Hashes
    BY <1>10, <2>1 DEF LinkedAt, Bucket, Hashes, Used
  <2> QED BY <1>2, <1>3, <1>10, <2>1, <2>2 DEF LinkedAt
<1>11. ASSUME NEW c \in Queries!Slot, Used(t, c) PROVE LinkedAt(t, h, c)
  <2>1. Used(buckets, c) /\ c # b
    BY <1>7, <1>11
  <2>2. /\ t[c].address = buckets[c].address /\ t[c].hash = buckets[c].hash
        /\ t[c].next = IF c = under THEN over ELSE buckets[c].next
        /\ t[c].prev = IF c = over THEN under ELSE buckets[c].prev
    BY <1>1, <2>1
  <2>3. t[c].prev = Queries!None => h[t[c].hash] = c
    <3> SUFFICES ASSUME t[c].prev = Queries!None PROVE h[t[c].hash] = c
      OBVIOUS
    <3>1. CASE c = over
      <4>1. Used(buckets, b) /\ under = Queries!None /\ buckets[c].hash = buckets[b].hash
        BY <1>3, <1>8, <1>9, <2>2, <3>1
      <4> QED BY <1>1, <1>8, <2>2, <3>1, <4>1
    <3>2. CASE c # over
      <4>1. heads[buckets[c].hash] = c /\ buckets[c].hash \in Hashes
        BY <1>10, <2>1, <2>2, <3>2
      <4>2. ~(Used(buckets, b) /\ under = Queries!None /\ buckets[c].hash = buckets[b].hash)
        BY <1>8, <2>1, <4>1
      <4> QED BY <1>1, <2>2, <4>1, <4>2
    <3> QED BY <3>1, <3>2
  <2>4. t[c].prev # Queries!None =>
          Used(t, t[c].prev) /\ t[t[c].prev].hash = t[c].hash /\ t[t[c].prev].next = c
    <3> SUFFICES ASSUME t[c].prev # Queries!None
                 PROVE  Used(t, t[c].prev) /\ t[t[c].prev].hash = t[c].hash /\ t[t[c].prev].next = c
      OBVIOUS
    <3>1. CASE c = over
      <4>1. /\ Used(buckets, b) /\ t[c].prev = under /\ under \in Queries!Slot /\ under # b
            /\ Used(buckets, under) /\ buckets[under].hash = buckets[c].hash
        BY <1>3, <1>8, <1>9, <2>2, <3>1
      <4> QED BY <1>1, <1>7, <2>2, <3>1, <4>1
    <3>2. CASE c # over
      <4> DEFINE p == buckets[c].prev
      <4>1. /\ t[c].prev = p /\ p \in Queries!Slot /\ Used(buckets, p)
            /\ buckets[p].hash = buckets[c].hash /\ buckets[p].next = c
        BY <1>10, <2>1, <2>2, <3>2
      <4>2. p # b
        BY <3>2, <4>1
      <4>3. p # under
        BY <1>3, <1>8, <1>9, <2>1, <4>1
      <4> HIDE DEF p
      <4> QED BY <1>1, <1>7, <2>2, <4>1, <4>2, <4>3
    <3> QED BY <3>1, <3>2
  <2>5. t[c].next # Queries!None =>
          Used(t, t[c].next) /\ t[t[c].next].hash = t[c].hash /\ t[t[c].next].prev = c
    <3> SUFFICES ASSUME t[c].next # Queries!None
                 PROVE  Used(t, t[c].next) /\ t[t[c].next].hash = t[c].hash /\ t[t[c].next].prev = c
      OBVIOUS
    <3>1. CASE c = under
      <4>1. /\ Used(buckets, b) /\ t[c].next = over /\ over \in Queries!Slot /\ over # b
            /\ Used(buckets, over) /\ buckets[over].hash = buckets[c].hash
        BY <1>3, <1>8, <1>9, <2>2, <3>1
      <4> QED BY <1>1, <1>7, <2>2, <3>1, <4>1
    <3>2. CASE c # under
      <4> DEFINE q == buckets[c].next
      <4>1. /\ t[c].next = q /\ q \in Queries!Slot /\ Used(buckets, q)
            /\ buckets[q].hash = buckets[c].hash /\ buckets[q].prev = c
        BY <1>10, <2>1, <2>2, <3>2
      <4>2. q # b
        BY <3>2, <4>1
      <4>3. q # over
        BY <1>3, <1>8, <1>9, <2>1, <4>1
      <4> HIDE DEF q
      <4> QED BY <1>1, <1>7, <2>2, <4>1, <4>2, <4>3
    <3> QED BY <3>1, <3>2
  <2> QED BY <1>10, <1>11, <2>1, <2>2, <2>3, <2>4, <2>5 DEF LinkedAt
<1>12. ASSUME NEW c \in Queries!Slot, ~Used(t, c) PROVE LinkedAt(t, h, c)
  BY <1>1, <1>7, <1>12 DEF LinkedAt
<1>13. ASSUME NEW x \in Hashes PROVE HeadAt(t, h, x)
  <2> SUFFICES ASSUME h[x] # Queries!None
               PROVE  Used(t, h[x]) /\ t[h[x]].hash = x /\ t[h[x]].prev = Queries!None
    BY DEF HeadAt
  <2>1. CASE Used(buckets, b) /\ under = Queries!None /\ x = buckets[b].hash
    <3>1. h[x] = over /\ over \in Queries!Slot /\ Used(buckets, over) /\ over # b
          /\ buckets[over].hash = x
      BY <1>1, <1>8, <2>1
    <3> QED BY <1>1, <1>7, <2>1, <3>1
  <2>2. CASE ~(Used(buckets, b) /\ under = Queries!None /\ x = buckets[b].hash)
    <3> DEFINE c == heads[x]
    <3>1. h[x] = c /\ c \in Queries!Slot /\ Used(buckets, c) /\ buckets[c].hash = x
          /\ buckets[c].prev = Queries!None
      BY <1>1, <1>2, <1>3, <2>2 DEF HeadAt
    <3>2. c # b
      BY <2>2, <3>1
    <3>3. c # over
      BY <1>3, <1>8, <1>9, <3>1
    <3> HIDE DEF c
    <3> QED BY <1>1, <1>7, <3>1, <3>2, <3>3
  <2> QED BY <2>1, <2>2
<1>14. Unique(t)
  <2>1. \A c, d \in Queries!Slot : Used(buckets, c) /\ buckets[c].address = buckets[d].address => c = d
    BY DEF Chained, Unique
  <2>2. ASSUME NEW c \in Queries!Slot, NEW d \in Queries!Slot, Used(t, c), t[c].address = t[d].address
        PROVE  c = d
    <3>1. Used(t, d)
      BY <2>2 DEF Used
    <3>2. t[c].address = buckets[c].address /\ t[d].address = buckets[d].address
      BY <1>1, <1>7, <2>2, <3>1
    <3> QED BY <1>7, <2>1, <2>2, <3>2
  <2> QED BY <2>2 DEF Unique
<1>15. Falls(t, rank)
  <2>1. ASSUME NEW c \in Queries!Slot, Used(t, c), t[c].next # Queries!None
        PROVE  rank[t[c].next] < rank[c]
    <3>1. Used(buckets, c) /\ c # b
      BY <1>7, <2>1
    <3>2. CASE c = under
      <4>1. Used(buckets, b) /\ t[c].next = over /\ over \in Queries!Slot /\ buckets[c].next = b
        BY <1>1, <1>2, <1>3, <1>8, <1>9, <2>1, <3>1, <3>2
      <4>2. rank[over] < rank[b] /\ rank[b] < rank[c]
        BY <1>3, <1>6, <2>1, <3>1, <4>1 DEF Falls
      <4>3. rank[over] \in Int /\ rank[b] \in Int /\ rank[c] \in Int
        BY <1>6, <4>1
      <4> QED BY <4>1, <4>2, <4>3
    <3>3. CASE c # under
      BY <1>1, <1>6, <2>1, <3>1, <3>3 DEF Falls
    <3> QED BY <3>2, <3>3
  <2> QED BY <2>1 DEF Falls
<1>16. Chained(t, h)
  BY <1>1, <1>6, <1>11, <1>12, <1>13, <1>14, <1>15 DEF Chained
<1> QED BY <1>16 DEF t, h

\* A free bucket that becomes the first of the chain of an address that has none.
LEMMA PushedChained ==
  ASSUME NEW t, NEW h, Chained(t, h), NEW a \in Address, NEW b \in Queries!Slot, NEW when \in Int,
         ~Used(t, b), \A i \in Queries!Slot : t[i].address # a,
         NEW t2, NEW h2, h2 = [h EXCEPT ![Hash[a]] = b],
         t2 = [i \in Queries!Slot |->
                 IF i = b THEN [address |-> a, lastTime |-> when, burst |-> 0, hash |-> Hash[a],
                                prev |-> Queries!None, next |-> h[Hash[a]]]
                 ELSE IF i = h[Hash[a]] THEN [t[i] EXCEPT !.prev = b] ELSE t[i]]
  PROVE  /\ Chained(t2, h2)
         /\ t2[b] = [address |-> a, lastTime |-> when, burst |-> 0, hash |-> Hash[a],
                     prev |-> Queries!None, next |-> h[Hash[a]]]
         /\ \A i \in Queries!Slot : i # b =>
              t2[i].address = t[i].address /\ t2[i].lastTime = t[i].lastTime
              /\ t2[i].burst = t[i].burst
<1> DEFINE x == Hash[a]
           first == h[Hash[a]]
           new == [address |-> a, lastTime |-> when, burst |-> 0, hash |-> Hash[a],
                   prev |-> Queries!None, next |-> h[Hash[a]]]
<1>1. /\ t \in [Queries!Slot -> Bucket] /\ h \in [Hashes -> Link]
      /\ \A i \in Queries!Slot : LinkedAt(t, h, i)
      /\ \A i \in Queries!Slot : t[i].next \in Link /\ t[i].prev \in Link /\ t[i] \in Bucket
      /\ \A y \in Hashes : HeadAt(t, h, y) /\ h[y] \in Link
  BY DEF Chained, Bucket
<1>2. /\ Queries!None \notin Queries!Slot /\ Link = Queries!Slot \cup {Queries!None}
      /\ a # "none" /\ x \in Hashes /\ x \in Nat /\ \A e \in Address : Hash[e] \in Hashes
  BY RateConstants DEF Link, Hashes
<1>3. first # Queries!None =>
        /\ first \in Queries!Slot /\ first # b /\ Used(t, first)
        /\ t[first].hash = x /\ t[first].prev = Queries!None
  BY <1>1, <1>2 DEF HeadAt
<1>4. new \in Bucket /\ t2[b] = new
  BY <1>1, <1>2 DEF Bucket
<1>5. ASSUME NEW i \in Queries!Slot, i # b
      PROVE  /\ t2[i] \in Bucket
             /\ t2[i].address = t[i].address /\ t2[i].hash = t[i].hash
             /\ t2[i].lastTime = t[i].lastTime /\ t2[i].burst = t[i].burst
             /\ t2[i].next = t[i].next
             /\ t2[i].prev = IF i = first THEN b ELSE t[i].prev
             /\ ~Used(t, i) => t2[i] = t[i]
  <2>1. t2[i] = IF i = first THEN [t[i] EXCEPT !.prev = b] ELSE t[i]
    BY <1>5
  <2>2. t[i] \in Bucket /\ b \in Link
    BY <1>1 DEF Link
  <2>3. ~Used(t, i) => i # first
    BY <1>2, <1>3
  <2> HIDE DEF first
  <2> QED BY ONLY <2>1, <2>2, <2>3 DEF Bucket
<1>6. t2 \in [Queries!Slot -> Bucket]
  BY <1>4, <1>5
<1>7. h2 \in [Hashes -> Link] /\ h2[x] = b /\ \A y \in Hashes : y # x => h2[y] = h[y]
  BY <1>1, <1>2 DEF Link
<1>8. \A i \in Queries!Slot : Used(t2, i) <=> i = b \/ Used(t, i)
  BY <1>2, <1>4, <1>5 DEF Used
<1>9. /\ t2[b].address = a /\ t2[b].hash = x /\ t2[b].prev = Queries!None /\ t2[b].next = first
  BY <1>4
<1> HIDE DEF new, x, first
<1>10. ASSUME NEW c \in Queries!Slot, Used(t, c)
       PROVE  /\ c # b /\ t[c].hash = Hash[t[c].address] /\ t[c].hash \in Hashes
              /\ t[c].prev = Queries!None => h[t[c].hash] = c
              /\ t[c].prev # Queries!None =>
                   t[c].prev \in Queries!Slot /\ Used(t, t[c].prev)
                   /\ t[t[c].prev].hash = t[c].hash /\ t[t[c].prev].next = c
              /\ t[c].next # Queries!None =>
                   t[c].next \in Queries!Slot /\ Used(t, t[c].next)
                   /\ t[t[c].next].hash = t[c].hash /\ t[t[c].next].prev = c
  <2>1. LinkedAt(t, h, c) /\ t[c] \in Bucket
    BY <1>1
  <2>2. t[c].hash \in Hashes
    BY <1>10, <2>1 DEF LinkedAt, Bucket, Hashes, Used
  <2> QED BY <1>1, <1>2, <1>10, <2>1, <2>2 DEF LinkedAt
<1>11. LinkedAt(t2, h2, b)
  <2>1. first # Queries!None => Used(t2, first) /\ t2[first].hash = x /\ t2[first].prev = b
    BY <1>3, <1>5, <1>8
  <2> QED BY <1>7, <1>8, <1>9, <2>1 DEF LinkedAt, x
<1>12. ASSUME NEW c \in Queries!Slot, Used(t, c) PROVE LinkedAt(t2, h2, c)
  <2>1. /\ c # b /\ t2[c].address = t[c].address /\ t2[c].hash = t[c].hash /\ t2[c].next = t[c].next
        /\ t2[c].prev = IF c = first THEN b ELSE t[c].prev
    BY <1>5, <1>10, <1>12
  <2>2. t2[c].prev = Queries!None => h2[t2[c].hash] = c
    <3>1. SUFFICES ASSUME t2[c].prev = Queries!None PROVE h2[t2[c].hash] = c
      OBVIOUS
    <3>2. c # first /\ t[c].prev = Queries!None
      BY <1>2, <2>1, <3>1
    <3>3. h[t[c].hash] = c /\ t[c].hash \in Hashes
      BY <1>10, <1>12, <3>2
    <3>4. t[c].hash # x
      BY <3>2, <3>3 DEF first, x
    <3> QED BY <1>7, <2>1, <3>3, <3>4
  <2>3. t2[c].prev # Queries!None =>
          Used(t2, t2[c].prev) /\ t2[t2[c].prev].hash = t2[c].hash /\ t2[t2[c].prev].next = c
    <3>1. CASE c = first
      <4>1. t2[c].prev = b /\ first # Queries!None
        BY <1>2, <2>1, <3>1
      <4> QED BY <1>3, <1>8, <1>9, <2>1, <3>1, <4>1
    <3>2. CASE c # first
      BY <1>5, <1>8, <1>10, <1>12, <2>1, <3>2
    <3> QED BY <3>1, <3>2
  <2>4. t2[c].next # Queries!None =>
          Used(t2, t2[c].next) /\ t2[t2[c].next].hash = t2[c].hash /\ t2[t2[c].next].prev = c
    <3>1. SUFFICES ASSUME t[c].next # Queries!None
                   PROVE  Used(t2, t[c].next) /\ t2[t[c].next].hash = t[c].hash
                          /\ t2[t[c].next].prev = c
      BY <2>1
    <3> DEFINE q == t[c].next
    <3>2. q \in Queries!Slot /\ Used(t, q) /\ t[q].hash = t[c].hash /\ t[q].prev = c
      BY <1>10, <1>12, <3>1
    <3>3. q # first
      BY <1>2, <1>3, <3>2
    <3>4. q # b
      BY <1>10, <3>2
    <3> HIDE DEF q
    <3>5. Used(t2, q) /\ t2[q].hash = t[c].hash /\ t2[q].prev = c
      BY <1>5, <1>8, <3>2, <3>3, <3>4
    <3> QED BY <3>5 DEF q
  <2> QED BY <1>8, <1>10, <1>12, <2>1, <2>2, <2>3, <2>4 DEF LinkedAt
<1>13. ASSUME NEW c \in Queries!Slot, ~Used(t, c), c # b PROVE LinkedAt(t2, h2, c)
  BY <1>1, <1>5, <1>8, <1>13 DEF LinkedAt
<1>14. ASSUME NEW y \in Hashes PROVE HeadAt(t2, h2, y)
  <2>1. CASE y = x
    BY <1>7, <1>8, <1>9, <2>1 DEF HeadAt
  <2>2. CASE y # x
    <3>1. SUFFICES ASSUME h[y] # Queries!None
                   PROVE  Used(t2, h[y]) /\ t2[h[y]].hash = y /\ t2[h[y]].prev = Queries!None
      BY <1>7, <2>2 DEF HeadAt
    <3> DEFINE c == h[y]
    <3>2. c \in Queries!Slot /\ Used(t, c) /\ t[c].hash = y /\ t[c].prev = Queries!None
      BY <1>1, <1>2, <3>1 DEF HeadAt
    <3>3. c # first
      BY <1>2, <1>3, <2>2, <3>2
    <3>4. c # b
      BY <1>10, <3>2
    <3> HIDE DEF c
    <3>5. Used(t2, c) /\ t2[c].hash = y /\ t2[c].prev = Queries!None
      BY <1>5, <1>8, <3>2, <3>3, <3>4
    <3> QED BY <3>5 DEF c
  <2> QED BY <2>1, <2>2
<1>15. Unique(t2)
  <2>1. \A c, d \in Queries!Slot : Used(t, c) /\ t[c].address = t[d].address => c = d
    BY DEF Chained, Unique
  <2>2. \A i \in Queries!Slot : t2[i].address = IF i = b THEN a ELSE t[i].address
    BY <1>5, <1>9
  <2> QED BY <1>8, <2>1, <2>2 DEF Unique
<1>16. \E n \in Nat : \E rank \in [Queries!Slot -> 0 .. n] : Falls(t2, rank)
  <2>1. PICK n \in Nat : \E rank \in [Queries!Slot -> 0 .. n] : Falls(t, rank)
    BY Zenon DEF Chained
  <2>2. PICK rank \in [Queries!Slot -> 0 .. n] : Falls(t, rank)
    BY <2>1
  <2> DEFINE higher == [i \in Queries!Slot |-> IF i = b THEN n + 1 ELSE rank[i]]
  <2>3. /\ higher[b] = n + 1 /\ \A i \in Queries!Slot : i # b => higher[i] = rank[i]
        /\ higher \in [Queries!Slot -> 0 .. n + 1] /\ \A i \in Queries!Slot : rank[i] \in 0 .. n
    BY <2>2
  <2> HIDE DEF higher
  <2>4. ASSUME NEW c \in Queries!Slot, Used(t2, c), t2[c].next # Queries!None
        PROVE  higher[t2[c].next] < higher[c]
    <3>1. CASE c = b
      <4>1. t2[c].next = first /\ first \in Queries!Slot /\ first # b
        BY <1>3, <1>9, <2>4, <3>1
      <4>2. rank[first] \in 0 .. n
        BY <2>3, <4>1
      <4> QED BY <2>3, <3>1, <4>1, <4>2
    <3>2. CASE c # b
      <4>1. t2[c].next = t[c].next /\ Used(t, c)
        BY <1>5, <1>8, <2>4, <3>2
      <4>2. t[c].next \in Queries!Slot /\ Used(t, t[c].next)
        BY <1>10, <2>4, <4>1
      <4>3. t[c].next # b
        BY <1>10, <4>2
      <4>4. rank[t[c].next] < rank[c]
        BY <2>2, <2>4, <4>1 DEF Falls
      <4> QED BY <2>3, <3>2, <4>1, <4>2, <4>3, <4>4
    <3> QED BY <3>1, <3>2
  <2>5. n + 1 \in Nat /\ Falls(t2, higher)
    BY <2>1, <2>4 DEF Falls
  <2> QED BY <2>3, <2>5
<1>17. \A c \in Queries!Slot : LinkedAt(t2, h2, c)
  BY <1>11, <1>12, <1>13
<1>18. Chained(t2, h2)
  BY <1>6, <1>7, <1>14, <1>15, <1>16, <1>17 DEF Chained
<1> QED BY <1>4, <1>5, <1>18 DEF new

-----------------------------------------------------------------------------
(* Levels.                                                                 *)

\* A number that is in the range is not changed by a conversion; none gets greater.
LEMMA WrappedIs ==
  ASSUME NEW x \in Int, NEW range \in Nat \ {0}
  PROVE  /\ Queries!Wrapped(x, range) \in Int
         /\ x >= 0 => Queries!Wrapped(x, range) <= x
         /\ x >= -(range \div 2) /\ x < range \div 2 => Queries!Wrapped(x, range) = x
<1> DEFINE h == range \div 2
           m == (x + h) % range
           q == (x + h) \div range
<1>1. h \in Nat /\ 2 * h <= range /\ Queries!Wrapped(x, range) = m - h
  <2>1. range = 2 * h + (range % 2) /\ range % 2 \in 0 .. 1 /\ h \in Nat
    BY DivMod
  <2> QED BY <2>1 DEF Queries!Wrapped
<1> HIDE DEF h
<1>2. x + h \in Int /\ m \in Nat /\ m < range
  BY <1>1
<1>3. ASSUME x + h >= 0 PROVE m <= x + h /\ (x + h < range => m = x + h)
  <2>1. x + h \in Nat
    BY <1>2, <1>3
  <2>2. x + h = range * q + m /\ q \in Nat
    BY <2>1, DivMod
  <2>3. range * q >= 0 /\ (q = 0 \/ range * q >= range)
    <3>1. CASE q = 0
      BY <3>1
    <3>2. CASE q # 0
      <4>1. 0 < q /\ q \in Int
        BY <2>2, <3>2
      <4> HIDE DEF q
      <4>2. range * q >= range * 0 + range
        BY <4>1, Multiples
      <4>3. range * 0 = 0 /\ range * q \in Int
        BY <4>1
      <4> QED BY <4>2, <4>3
    <3> QED BY <3>1, <3>2
  <2>4. q = 0 => range * q = 0
    OBVIOUS
  <2> HIDE DEF m, q
  <2>5. range * q \in Int
    BY <2>2
  <2> QED BY <1>2, <2>1, <2>2, <2>3, <2>4, <2>5
<1> HIDE DEF m
<1> QED BY <1>1, <1>2, <1>3 DEF h

\* The greatest limit.
LEMMA MaxBurst ==
  /\ Queries!Max(Bursts) \in Bursts /\ \A n \in Bursts : n <= Queries!Max(Bursts)
  /\ Queries!Max(Bursts) \in Nat /\ Queries!Max(Bursts) >= 2
  /\ Queries!Max(Bursts) < CharRange \div 2
<1>1. Bursts \subseteq Nat /\ Bursts # {} /\ \A n \in Bursts : n <= CharRange \div 2
  BY RateConstants
<1>2. CharRange \div 2 \in Nat
  BY RateConstants
<1>3. PICK n \in Bursts : \A k \in Bursts : k <= n
  BY <1>1, <1>2, GreatestNumber
<1>4. \A k \in Bursts : n >= k
  BY <1>1, <1>3
<1> DEFINE M == Queries!Max(Bursts)
<1>5. M \in Bursts /\ \A k \in Bursts : M >= k
  BY <1>4, Zenon DEF Queries!Max
<1> HIDE DEF M
<1>6. M \in Nat /\ 2 <= M /\ M < CharRange \div 2
  BY <1>5, RateConstants
<1>7. \A k \in Bursts : k <= M
  BY <1>1, <1>5, <1>6
<1> QED BY <1>5, <1>6, <1>7 DEF M

\* The answers of an address that asked last at the time last: they are in order, none is
\* later and all are of the last period.
Recently(times, last, t) ==
  /\ times \in Seq(Nat)
  /\ \A i \in 1 .. Len(times) : times[i] <= last /\ t - times[i] < Period
  /\ \A i, j \in 1 .. Len(times) : i <= j => times[i] <= times[j]

\* The bucket has counted the answers since its time, and there is at most one before.
Backed(bucket, times, last) ==
  /\ bucket.lastTime \in Nat \ {0} /\ bucket.lastTime <= last /\ last - bucket.lastTime < Period
  /\ bucket.burst \in 0 .. Queries!Max(Bursts)
  /\ Len(times) <= bucket.burst + 1
  /\ \A i \in 1 .. Len(times) : times[i] >= bucket.lastTime => Len(times) - i < bucket.burst

\* Conversions of the time since some time, and periods in it.
LEMMA IntervalIs ==
  ASSUME now \in Nat, NEW v \in Int, v <= now
  PROVE  /\ Queries!Interval(v) \in Int /\ Queries!Interval(v) <= now - v
         /\ now - v < IntRange \div 2 => Queries!Interval(v) = now - v
         /\ Queries!Interval(v) < 0 => now - v >= IntRange \div 2
<1>1. IntRange \in Nat \ {0} /\ IntRange \div 2 \in Nat
  BY RateConstants
<1>2. now - v \in Int /\ now - v >= 0
  OBVIOUS
<1> QED BY <1>1, <1>2, WrappedIs DEF Queries!Interval

\* A bucket that may be taken from an address has no answer of the last period.
LEMMA ExpiredIsOld ==
  ASSUME now \in Nat, NEW b, NEW n \in Bursts, buckets[b].lastTime \in Int, buckets[b].lastTime <= now,
         Queries!Expired(b, n)
  PROVE  now - buckets[b].lastTime >= 2 * Period
<1> DEFINE L == buckets[b].lastTime
<1>1. n \in Nat /\ n >= 2 /\ Period \in Nat \ {0} /\ 2 * Period <= IntRange \div 2
      /\ IntRange \div 2 \in Nat
  BY RateConstants
<1>2. n * Period >= 2 * Period /\ n * Period \in Int
  <2>1. Period * n >= Period * 2
    <3>1. CASE n = 2
      BY <1>1, <3>1
    <3>2. CASE n # 2
      <4>1. Period * n >= Period * 2 + Period
        BY <1>1, <3>2, Multiples
      <4>2. Period * n \in Int /\ Period * 2 \in Int
        BY <1>1
      <4> QED BY <1>1, <4>1, <4>2
    <3> QED BY <3>1, <3>2
  <2>2. Period * n = n * Period /\ Period * 2 = 2 * Period /\ n * Period \in Int
    BY <1>1
  <2> QED BY <2>1, <2>2
<1>3. Queries!Interval(L) > n * Period \/ Queries!Interval(L) < 0
  BY DEF Queries!Expired
<1>4. /\ Queries!Interval(L) \in Int /\ Queries!Interval(L) <= now - L
      /\ Queries!Interval(L) < 0 => now - L >= IntRange \div 2
  BY IntervalIs
<1>5. now - L \in Int
  OBVIOUS
<1> QED BY <1>1, <1>2, <1>3, <1>4, <1>5

\* What runs out of a bucket leaves its links.
LEMMA DrainedTyped ==
  ASSUME now \in Nat, NEW r \in Bucket
  PROVE  Queries!Drained(r) \in Bucket /\ SameLinks(Queries!Drained(r), r)
<1> DEFINE interval == Queries!Interval(r.lastTime)
           expired == Queries!Quotient(interval, Period)
           less == Queries!Wrapped(r.burst - expired, CharRange)
           when == now - (interval - expired * Period)
<1>1. Period \in Nat \ {0} /\ IntRange \in Nat \ {0} /\ CharRange \in Nat \ {0}
  BY RateConstants
<1>2. r.lastTime \in Int /\ r.burst \in Int
  BY DEF Bucket
<1>3. interval \in Int
  BY <1>1, <1>2, WrappedIs DEF Queries!Interval
<1> HIDE DEF interval
<1>4. expired \in Int
  BY <1>1, <1>3 DEF Queries!Quotient
<1> HIDE DEF expired
<1>5. less \in Int
  BY <1>1, <1>2, <1>4, WrappedIs
<1>6. when \in Int
  BY <1>1, <1>3, <1>4
<1> HIDE DEF less, when
<1>7. Queries!Drained(r) = IF expired > r.burst THEN [r EXCEPT !.burst = 0, !.lastTime = now]
                           ELSE [r EXCEPT !.burst = less, !.lastTime = when]
  BY DEF Queries!Drained, interval, expired, less, when
<1>8. ASSUME NEW x \in Int, NEW y \in Int
      PROVE  LET d == [r EXCEPT !.burst = x, !.lastTime = y] IN d \in Bucket /\ SameLinks(d, r)
  BY DEF Bucket, SameLinks
<1>9. 0 \in Int /\ now \in Int
  OBVIOUS
<1> QED BY <1>5, <1>6, <1>7, <1>8, <1>9

\* The bucket of an address that has not paused for too long still has counted its answers.
LEMMA DrainedBacked ==
  ASSUME now \in Nat, NEW r \in Bucket, NEW times, NEW last \in Nat, last <= now,
         now - last < (IntRange \div 2) - Period,
         Recently(times, last, now), Backed(r, times, last)
  PROVE  /\ Backed(Queries!Drained(r), times, now)
         /\ now - last >= (Queries!Max(Bursts) + 1) * Period => Queries!Drained(r).burst = 0
<1> DEFINE L == r.lastTime
           B == r.burst
           M == Queries!Max(Bursts)
           D == now - L
           e == D \div Period
           d == Queries!Drained(r)
<1>1. /\ Period \in Nat \ {0} /\ IntRange \div 2 \in Nat /\ CharRange \in Nat \ {0}
      /\ M \in Nat /\ M < CharRange \div 2 /\ CharRange \div 2 \in Nat
  BY RateConstants, MaxBurst
<1>2. /\ L \in Nat \ {0} /\ L <= last /\ last - L < Period /\ B \in 0 .. M
      /\ Len(times) <= B + 1
      /\ \A i \in 1 .. Len(times) : times[i] >= L => Len(times) - i < B
  BY DEF Backed
<1>3. /\ Len(times) \in Nat
      /\ \A i \in 1 .. Len(times) :
           times[i] \in Nat /\ times[i] <= last /\ now - times[i] < Period
  BY DEF Recently
<1> HIDE DEF M
<1>4. D \in Nat /\ D < IntRange \div 2
  BY <1>1, <1>2
<1>5. Queries!Interval(L) = D
  BY <1>2, <1>4, IntervalIs
<1>6. D = Period * e + (D % Period) /\ D % Period \in 0 .. Period - 1 /\ e \in Nat
  BY <1>1, <1>4, DivMod
<1>7. Queries!Quotient(D, Period) = e
  BY <1>4 DEF Queries!Quotient
<1>8. e <= B => Queries!Wrapped(B - e, CharRange) = B - e
  <2> HIDE DEF e
  <2>1. ASSUME e <= B PROVE B - e \in Int /\ B - e >= 0 /\ B - e < CharRange \div 2
    <3>1. e \in Nat /\ B \in 0 .. M
      BY <1>2, <1>6
    <3> QED BY ONLY <1>1, <2>1, <3>1
  <2>2. ASSUME e <= B PROVE B - e >= -(CharRange \div 2)
    BY <1>1, <2>1, <2>2
  <2> QED BY <1>1, <2>1, <2>2, WrappedIs
<1>9. d = IF e > B THEN [r EXCEPT !.burst = 0, !.lastTime = now]
          ELSE [r EXCEPT !.burst = Queries!Wrapped(B - e, CharRange),
                         !.lastTime = now - (D - e * Period)]
  BY <1>5, <1>7 DEF Queries!Drained
<1>10. e * Period = Period * e /\ Period * e \in Nat /\ (e = 0 => Period * e = 0)
       /\ (e >= 1 => Period * e >= Period) /\ (e >= 2 => Period * e >= 2 * Period)
  <2>1. e * Period = Period * e /\ Period * e \in Nat /\ (e = 0 => Period * e = 0)
    <3> HIDE DEF e
    <3> QED BY <1>1, <1>6
  <2>2. ASSUME e >= 1 PROVE Period * e >= Period * 0 + Period
    <3> HIDE DEF e
    <3> QED BY <1>1, <1>6, <2>2, Multiples
  <2>3. ASSUME e >= 2 PROVE Period * e >= Period * 1 + Period
    <3> HIDE DEF e
    <3> QED BY <1>1, <1>6, <2>3, Multiples
  <2>4. Period * 0 + Period = Period /\ Period * 1 + Period = 2 * Period
    BY <1>1
  <2> HIDE DEF e
  <2> QED BY <2>1, <2>2, <2>3, <2>4
<1> HIDE DEF e
<1> DEFINE P == Period * e
           m == D % Period
<1>11. P \in Nat /\ m \in 0 .. Period - 1 /\ D = P + m
  BY <1>6, <1>10
<1>12. (e = 0 => P = 0) /\ (e >= 1 => P >= Period) /\ (e >= 2 => P >= 2 * Period)
  BY <1>10
<1> HIDE DEF P, m
<1>17. now \in Nat /\ L \in Nat \ {0} /\ last \in Nat /\ Period \in Nat \ {0} /\ M \in Nat /\ B \in 0 .. M
       /\ e \in Nat
  BY <1>1, <1>2, <1>6
<1>18. P \in Nat /\ m \in 0 .. Period - 1 /\ now = L + P + m
  BY <1>11, <1>17
<1>13. ASSUME e >= 2 PROVE Len(times) = 0
  <2>1. now - last > Period
    <3>1. now - L >= 2 * Period
      BY <1>1, <1>2, <1>11, <1>12, <1>13
    <3> QED BY <1>1, <1>2, <3>1
  <2>2. ASSUME NEW i \in 1 .. Len(times) PROVE FALSE
    BY <1>1, <1>3, <2>1
  <2> QED BY <1>3, <2>2
<1>14. ASSUME e > B PROVE Backed(d, times, now)
  <2>1. d.burst = 0 /\ d.lastTime = now
    BY <1>9, <1>14 DEF Bucket
  <2>2. Len(times) <= 1 /\ \A i \in 1 .. Len(times) : times[i] < now
    <3>1. CASE e >= 2
      BY <1>13, <3>1
    <3>2. CASE e = 1
      <4>1. B = 0
        BY <1>2, <1>14, <3>2
      <4>2. now >= L + Period
        BY <1>1, <1>2, <1>11, <1>12, <3>2
      <4>3. last < now
        BY <1>1, <1>2, <4>2
      <4> QED BY <1>2, <1>3, <4>1, <4>3
    <3>3. e # 0
      BY <1>2, <1>14
    <3> QED BY <1>6, <3>1, <3>2, <3>3
  <2>3. now \in Nat \ {0} /\ now <= now /\ now - now < Period
    BY <1>1, <1>2
  <2>4. \A i \in 1 .. Len(times) : ~(times[i] >= now)
    BY <1>3, <2>2
  <2> QED BY <1>1, <2>1, <2>2, <2>3, <2>4 DEF Backed, M
<1>15. ASSUME e <= B PROVE Backed(d, times, now)
  <2>1. d.burst = B - e /\ d.lastTime = L + P
    <3>1. d.burst = B - e /\ d.lastTime = now - (D - e * Period)
      BY <1>8, <1>9, <1>15, <1>2, <1>6 DEF Bucket
    <3>2. e * Period = P
      BY <1>10 DEF P
    <3> QED BY <1>2, <1>11, <3>1, <3>2
  <2>2. /\ L + P \in Nat \ {0} /\ L + P <= now /\ now - (L + P) < Period
        /\ B - e \in 0 .. M
    BY ONLY <1>15, <1>17, <1>18
  <2>3. /\ Len(times) <= B - e + 1
        /\ \A i \in 1 .. Len(times) : times[i] >= L + P => Len(times) - i < B - e
    <3>1. CASE e = 0
      <4>1. P = 0
        BY <1>12, <3>1
      <4>2. L + P = L /\ B - e = B
        BY ONLY <1>17, <3>1, <4>1
      <4>3. Len(times) <= B + 1 /\ \A i \in 1 .. Len(times) : times[i] >= L => Len(times) - i < B
        BY <1>2
      <4> HIDE DEF L, B
      <4> QED BY <4>2, <4>3
    <3>2. CASE e = 1
      <4>1. P >= Period /\ now >= L + Period
        BY <1>1, <1>2, <1>11, <1>12, <3>2
      <4>2. ASSUME NEW i \in 1 .. Len(times) PROVE times[i] < L + P /\ times[i] >= L
        <5>1. times[i] \in Nat /\ times[i] <= last /\ now - times[i] < Period
          BY <1>3, <4>2
        <5>2. last - L < Period
          BY <1>2
        <5>3. L + P >= L + Period
          <6>1. L \in Int /\ P \in Int /\ Period \in Int /\ P >= Period
            BY <1>17, <1>18, <4>1
          <6> HIDE DEF L
          <6> QED BY ONLY <6>1
        <5>4. times[i] < L + P
          BY ONLY <1>17, <1>18, <5>1, <5>2, <5>3
        <5>5. times[i] >= L
          BY ONLY <1>17, <1>18, <4>1, <5>1
        <5> QED BY ONLY <5>4, <5>5
      <4>3. Len(times) <= B
        <5>1. CASE Len(times) = 0
          BY <1>2, <5>1
        <5>2. CASE Len(times) # 0
          <6>1. 1 \in 1 .. Len(times)
            BY <1>3, <5>2
          <6>2. Len(times) - 1 < B
            BY <1>2, <4>2, <6>1
          <6> QED BY <1>2, <1>3, <6>2
        <5> QED BY <5>1, <5>2
      <4>4. \A i \in 1 .. Len(times) : ~(times[i] >= L + P)
        <5>1. SUFFICES ASSUME NEW i \in 1 .. Len(times) PROVE ~(times[i] >= L + P)
          OBVIOUS
        <5>2. times[i] \in Int /\ L + P \in Int /\ times[i] < L + P
          <6>1. times[i] \in Int
            BY <1>3
          <6>2. L + P \in Int
            BY ONLY <1>17, <1>18
          <6> QED BY ONLY <4>2, <6>1, <6>2
        <5> HIDE DEF L
        <5> QED BY ONLY <5>2
      <4>5. Len(times) <= B - e + 1
        BY ONLY <1>17, <3>2, <4>3
      <4> QED BY ONLY <4>4, <4>5
    <3>3. CASE e >= 2
      BY <1>2, <1>6, <1>13, <1>15, <3>3
    <3> QED BY <1>6, <3>1, <3>2, <3>3
  <2> HIDE DEF d, L, B
  <2> QED BY <2>1, <2>2, <2>3 DEF Backed, M
<1>16. ASSUME now - last >= (M + 1) * Period PROVE d.burst = 0
  <2>1. (M + 1) * Period = Period * (M + 1)
    BY <1>1
  <2>2. e > M
    <3>1. SUFFICES ASSUME e <= M PROVE FALSE
      BY <1>1, <1>6
    <3>2. Period * (M + 1) >= Period * e + Period
      <4>1. e < M + 1 /\ e \in Int /\ M + 1 \in Int
        BY <1>1, <1>6, <3>1
      <4> QED BY <1>1, <4>1, Multiples
    <3>3. Period * (M + 1) \in Int
      BY <1>1
    <3>4. D >= now - last
      BY <1>2
    <3>5. P + Period <= Period * (M + 1)
      BY <3>2 DEF P
    <3> HIDE DEF D
    <3>6. D \in Int /\ now - last \in Int
      BY <1>4
    <3> QED BY <1>1, <1>11, <1>16, <2>1, <3>3, <3>4, <3>5, <3>6
  <2>3. e > B
    BY ONLY <1>17, <2>2
  <2> QED BY <1>9, <2>3 DEF Bucket
<1>19. e > B \/ e <= B
  BY ONLY <1>17
<1> QED BY <1>14, <1>15, <1>16, <1>19 DEF M

-----------------------------------------------------------------------------
(* Steps of the buckets.                                                   *)

\* The bucket that Taken gives to the address a.
LEMMA TakenIs ==
  ASSUME Chained(buckets, heads), now \in Nat, NEW a \in Address, NEW b \in Queries!Slot,
         \A i \in Queries!Slot : buckets[i].address # a
  PROVE  LET k == Queries!Taken(a, b) IN
         /\ Chained(k.table, k.heads)
         /\ k.table[b].address = a /\ k.table[b].lastTime = now /\ k.table[b].burst = 0
         /\ \A i \in Queries!Slot : i # b =>
              /\ k.table[i].address = buckets[i].address
              /\ k.table[i].lastTime = buckets[i].lastTime /\ k.table[i].burst = buckets[i].burst
<1> DEFINE u == Queries!Unlinked(b)
           t == u.table
           h == u.heads
           k == Queries!Taken(a, b)
<1>1. Chained(t, h)
  BY UnlinkedChained
<1>2. /\ t[b] = Queries!Free
      /\ \A i \in Queries!Slot : i # b =>
           /\ t[i].address = buckets[i].address /\ t[i].lastTime = buckets[i].lastTime
           /\ t[i].burst = buckets[i].burst
  BY UnlinkedIs
<1>3. k.table = [i \in Queries!Slot |->
                   IF i = b THEN [address |-> a, lastTime |-> now, burst |-> 0, hash |-> Hash[a],
                                  prev |-> Queries!None, next |-> h[Hash[a]]]
                   ELSE IF i = h[Hash[a]] THEN [t[i] EXCEPT !.prev = b] ELSE t[i]]
      /\ k.heads = [h EXCEPT ![Hash[a]] = b]
  BY DEF Queries!Taken
<1> HIDE DEF t, h, k, u
<1>4. ~Used(t, b) /\ \A i \in Queries!Slot : t[i].address # a
  BY <1>2, RateConstants DEF Queries!Free, Used
<1>5. /\ Chained(k.table, k.heads)
      /\ k.table[b] = [address |-> a, lastTime |-> now, burst |-> 0, hash |-> Hash[a],
                       prev |-> Queries!None, next |-> h[Hash[a]]]
      /\ \A i \in Queries!Slot : i # b =>
           k.table[i].address = t[i].address /\ k.table[i].lastTime = t[i].lastTime
           /\ k.table[i].burst = t[i].burst
  <2>1. now \in Int
    OBVIOUS
  <2> QED BY <1>1, <1>3, <1>4, <2>1, PushedChained
<1> QED BY <1>2, <1>5 DEF k

\* A query that finds the bucket b.
LEMMA LimitedIs ==
  ASSUME now \in Nat, NEW t, NEW h, Chained(t, h), NEW b \in Queries!Slot, Used(t, b), NEW n \in Bursts
  PROVE  LET l == Queries!Limited(t, b, n)
             d == Queries!Drained(t[b])
         IN /\ Chained(l.table, h)
            /\ \A i \in Queries!Slot : i # b => l.table[i] = t[i]
            /\ l.table[b].address = t[b].address /\ l.table[b].lastTime = d.lastTime
            /\ l.answer <=> d.burst < n
            /\ l.table[b].burst = IF d.burst < n THEN d.burst + 1 ELSE d.burst
<1> DEFINE l == Queries!Limited(t, b, n)
           d == Queries!Drained(t[b])
           r == IF d.burst < n THEN [d EXCEPT !.burst = @ + 1] ELSE d
<1>1. t \in [Queries!Slot -> Bucket] /\ t[b] \in Bucket
  BY DEF Chained
<1>2. d \in Bucket /\ SameLinks(d, t[b])
  BY <1>1, DrainedTyped
<1>3. l.table = [t EXCEPT ![b] = r] /\ (l.answer <=> d.burst < n)
  <2>1. CASE d.burst < n
    <3>1. l = [table |-> [t EXCEPT ![b] = [d EXCEPT !.burst = @ + 1]], answer |-> TRUE]
      BY <2>1 DEF Queries!Limited
    <3> HIDE DEF l, d
    <3> QED BY <2>1, <3>1
  <2>2. CASE ~(d.burst < n)
    <3>1. l = [table |-> [t EXCEPT ![b] = d], answer |-> FALSE]
      BY <2>2 DEF Queries!Limited
    <3> HIDE DEF l, d
    <3> QED BY <2>2, <3>1
  <2> QED BY <2>1, <2>2
<1> HIDE DEF l, d
<1>4. /\ r \in Bucket /\ SameLinks(r, t[b]) /\ r.lastTime = d.lastTime
      /\ r.burst = IF d.burst < n THEN d.burst + 1 ELSE d.burst
  <2>1. d.burst \in Int
    BY <1>2 DEF Bucket
  <2> QED BY <1>2, <2>1 DEF Bucket, SameLinks
<1> HIDE DEF r
<1>5. l.table \in [Queries!Slot -> Bucket] /\ l.table[b] = r
      /\ \A i \in Queries!Slot : i # b => l.table[i] = t[i]
  BY <1>1, <1>3, <1>4
<1>6. Chained(l.table, h)
  <2>1. \A i \in Queries!Slot : SameLinks(l.table[i], t[i]) /\ (~Used(t, i) => l.table[i] = t[i])
    BY <1>4, <1>5 DEF SameLinks
  <2> QED BY <1>5, <2>1, RefilledChained
<1> QED BY <1>3, <1>4, <1>5, <1>6 DEF l, d, SameLinks

\* A fresh bucket stays empty.
LEMMA FreshDrained ==
  ASSUME now \in Nat, NEW r \in Bucket, r.lastTime = now, r.burst = 0
  PROVE  Queries!Drained(r).burst = 0 /\ Queries!Drained(r).lastTime = now
<1>1. Period \in Nat \ {0} /\ CharRange \in Nat \ {0} /\ IntRange \div 2 \in Nat
      /\ 0 < IntRange \div 2 /\ CharRange \div 2 \in Nat /\ 0 < CharRange \div 2
  BY RateConstants, MaxBurst
<1>2. Queries!Interval(now) = 0
  <2>1. now - now = 0 /\ now \in Int
    OBVIOUS
  <2> QED BY <1>1, <2>1, IntervalIs
<1>3. Queries!Quotient(0, Period) = 0
  <2>1. 0 = Period * (0 \div Period) + (0 % Period) /\ 0 % Period \in 0 .. Period - 1
        /\ 0 \div Period \in Nat
    BY <1>1, DivMod
  <2> QED BY <1>1 DEF Queries!Quotient
<1>4. Queries!Wrapped(0, CharRange) = 0
  BY <1>1, WrappedIs
<1>5. Queries!Drained(r) = IF 0 > 0 THEN [r EXCEPT !.burst = 0, !.lastTime = now]
                           ELSE [r EXCEPT !.burst = Queries!Wrapped(r.burst - 0, CharRange),
                                          !.lastTime = now - (0 - 0 * Period)]
  <2>1. Queries!Interval(r.lastTime) = 0 /\ Queries!Quotient(Queries!Interval(r.lastTime), Period) = 0
    BY <1>2, <1>3
  <2> QED BY <2>1, Zenon DEF Queries!Drained
<1>6. ~(0 > 0) /\ r.burst - 0 = 0 /\ now - (0 - 0 * Period) = now
  BY <1>1
<1>7. Queries!Drained(r) = [r EXCEPT !.burst = 0, !.lastTime = now]
  BY <1>4, <1>5, <1>6, Zenon
<1> QED BY <1>7 DEF Bucket

\* An answer is counted.
LEMMA CountedBacked ==
  ASSUME now \in Nat, NEW times \in Seq(Nat), NEW d, Backed(d, times, now), NEW n \in Bursts,
         d.burst < n, NEW r, r.lastTime = d.lastTime, r.burst = d.burst + 1
  PROVE  Backed(r, Append(times, now), now)
<1> DEFINE more == Append(times, now)
           M == Queries!Max(Bursts)
<1>1. M \in Nat /\ n \in Nat /\ n <= M
  BY MaxBurst, RateConstants
<1>2. /\ d.lastTime \in Nat \ {0} /\ d.lastTime <= now /\ now - d.lastTime < Period
      /\ d.burst \in 0 .. M /\ Len(times) <= d.burst + 1
      /\ \A i \in 1 .. Len(times) : times[i] >= d.lastTime => Len(times) - i < d.burst
  BY DEF Backed
<1>3. /\ Len(more) = Len(times) + 1 /\ Len(times) \in Nat
      /\ \A i \in 1 .. Len(times) : more[i] = times[i]
  OBVIOUS
<1> HIDE DEF more, M
<1>4. r.burst \in 0 .. M /\ Len(more) <= r.burst + 1
  BY <1>1, <1>2, <1>3
<1>5. ASSUME NEW i \in 1 .. Len(more), more[i] >= r.lastTime PROVE Len(more) - i < r.burst
  <2>1. CASE i = Len(times) + 1
    BY <1>2, <1>3, <2>1
  <2>2. CASE i # Len(times) + 1
    <3>1. i \in 1 .. Len(times)
      BY <1>3, <2>2
    <3> QED BY <1>2, <1>3, <1>5, <3>1
  <2> QED BY <2>1, <2>2
<1>6. r.lastTime \in Nat \ {0} /\ r.lastTime <= now /\ now - r.lastTime < Period
  BY <1>2
<1> QED BY <1>4, <1>5, <1>6 DEF Backed, more, M

\* The answers after a query.
LEMMA RecentlyAsked ==
  ASSUME now \in Nat, NEW times, NEW last \in Nat, last <= now, Recently(times, last, now)
  PROVE  Recently(times, now, now) /\ Recently(Append(times, now), now, now)
<1>1. /\ times \in Seq(Nat) /\ Len(times) \in Nat
      /\ \A i \in 1 .. Len(times) : times[i] \in Nat /\ times[i] <= now /\ now - times[i] < Period
      /\ \A i, j \in 1 .. Len(times) : i <= j => times[i] <= times[j]
  BY DEF Recently
<1> DEFINE more == Append(times, now)
<1>2. /\ more \in Seq(Nat) /\ Len(more) = Len(times) + 1 /\ more[Len(times) + 1] = now
      /\ \A i \in 1 .. Len(times) : more[i] = times[i]
  BY <1>1
<1> HIDE DEF more
<1>3. now - now < Period
  BY RateConstants
<1>4. \A i \in 1 .. Len(more) : i \in 1 .. Len(times) \/ i = Len(times) + 1
  BY <1>1, <1>2
<1>5. \A i \in 1 .. Len(more) : more[i] <= now /\ now - more[i] < Period
  <2>1. SUFFICES ASSUME NEW i \in 1 .. Len(more) PROVE more[i] <= now /\ now - more[i] < Period
    OBVIOUS
  <2>2. CASE i \in 1 .. Len(times)
    <3>1. more[i] = times[i]
      BY <1>2, <2>2
    <3> QED BY <1>1, <2>2, <3>1
  <2>3. CASE i = Len(times) + 1
    <3>1. more[i] = now
      BY <1>2, <2>3
    <3> QED BY <1>3, <3>1
  <2> QED BY <1>4, <2>2, <2>3
<1>6. ASSUME NEW i \in 1 .. Len(more), NEW j \in 1 .. Len(more), i <= j PROVE more[i] <= more[j]
  <2>1. CASE j = Len(times) + 1
    BY <1>2, <1>5, <2>1
  <2>2. CASE j \in 1 .. Len(times)
    <3>1. i \in 1 .. Len(times)
      BY <1>6, <2>2
    <3> QED BY <1>1, <1>2, <1>6, <2>2, <3>1
  <2> QED BY <1>4, <2>1, <2>2
<1>7. Recently(times, now, now)
  BY <1>1 DEF Recently
<1>8. Recently(more, now, now)
  BY <1>2, <1>5, <1>6 DEF Recently
<1> QED BY <1>7, <1>8 DEF more

\* Later, what is left of the answers is the end of them.
LEMMA RecentIs ==
  ASSUME NEW times, NEW last \in Nat, NEW t \in Nat, Recently(times, last, t), NEW t2 \in Nat
  PROVE  /\ Recently(Queries!Recent(times, t2), last, t2)
         /\ \A bucket : Backed(bucket, times, last) => Backed(bucket, Queries!Recent(times, t2), last)
         /\ times = << >> => Queries!Recent(times, t2) = << >>
         /\ \A i \in 1 .. Len(Queries!Recent(times, t2)) :
              \E j \in 1 .. Len(times) : Queries!Recent(times, t2)[i] = times[j]
<1> DEFINE N == Len(times)
           S == {i \in 1 .. N : t2 - times[i] < Period} \cup {N + 1}
           k == Queries!Min(S)
           rest == SubSeq(times, k, N)
<1>1. /\ times \in Seq(Nat) /\ N \in Nat
      /\ \A i \in 1 .. N : times[i] \in Nat /\ times[i] <= last
      /\ \A i, j \in 1 .. N : i <= j => times[i] <= times[j]
  <2>1. times \in Seq(Nat)
    BY DEF Recently
  <2>2. \A i \in 1 .. N : times[i] <= last
    BY DEF Recently
  <2>3. \A i, j \in 1 .. N : i <= j => times[i] <= times[j]
    BY DEF Recently
  <2>4. N \in Nat
    BY <2>1, LenProperties
  <2>5. \A i \in 1 .. N : times[i] \in Nat
    BY <2>1, ElementOfSeq
  <2> QED BY ONLY <2>1, <2>2, <2>3, <2>4, <2>5
<1>2. Queries!Recent(times, t2) = rest
  BY DEF Queries!Recent
<1>3. k \in S /\ \A i \in S : k <= i
  <2>1. S \subseteq Nat /\ S # {}
    BY <1>1
  <2> HIDE DEF S
  <2>2. \E n \in S : \A i \in S : n <= i
    BY <2>1, LeastNumber
  <2> QED BY <2>2, Zenon DEF Queries!Min
<1>4. k \in 1 .. N + 1 /\ (k \in 1 .. N => t2 - times[k] < Period)
  BY <1>1, <1>3
<1> HIDE DEF k
<1>5. /\ rest \in Seq(Nat) /\ Len(rest) = N - k + 1
      /\ \A i \in 1 .. Len(rest) : rest[i] = times[i + k - 1] /\ i + k - 1 \in 1 .. N
  <2>1. k \in Nat /\ k >= 1 /\ \A i \in k .. N : times[i] \in Nat
    BY <1>1, <1>4
  <2>2. rest \in Seq(Nat) /\ Len(rest) = (IF k <= N THEN N - k + 1 ELSE 0)
        /\ \A i \in 1 .. N - k + 1 : rest[i] = times[k + i - 1]
    <3>1. k \in Int /\ N \in Int
      BY <1>1, <2>1
    <3> HIDE DEF N
    <3> QED BY ONLY <2>1, <3>1, SubSeqProperties
  <2> HIDE DEF rest
  <2>5. N \in Nat /\ k \in 1 .. N + 1
    BY <1>1, <1>4
  <2> HIDE DEF N, S
  <2>3. Len(rest) = N - k + 1
    BY ONLY <2>2, <2>5
  <2>4. ASSUME NEW i \in 1 .. Len(rest) PROVE rest[i] = times[i + k - 1] /\ i + k - 1 \in 1 .. N
    <3>1. i + k - 1 = k + i - 1 /\ i \in 1 .. N - k + 1 /\ i + k - 1 \in 1 .. N
      BY ONLY <2>3, <2>5
    <3>2. rest[i] = times[k + i - 1]
      BY ONLY <2>2, <3>1
    <3> QED BY <3>1, <3>2
  <2> QED BY <2>2, <2>3, <2>4
<1> HIDE DEF rest, N
<1>6. \A i \in 1 .. Len(rest) : rest[i] <= last /\ t2 - rest[i] < Period
  <2>1. SUFFICES ASSUME NEW i \in 1 .. Len(rest) PROVE rest[i] <= last /\ t2 - rest[i] < Period
    OBVIOUS
  <2>2. k \in 1 .. N /\ i + k - 1 \in 1 .. N /\ k <= i + k - 1
    BY <1>1, <1>4, <1>5
  <2>3. times[k] <= times[i + k - 1] /\ times[k] \in Nat /\ times[i + k - 1] \in Nat
    BY <1>1, <2>2
  <2>4. rest[i] = times[i + k - 1] /\ times[i + k - 1] <= last
    BY <1>1, <1>5, <2>2
  <2>5. t2 - times[k] < Period /\ Period \in Nat
    BY <1>4, <2>2, RateConstants
  <2> QED BY <2>3, <2>4, <2>5
<1>7. ASSUME NEW i \in 1 .. Len(rest), NEW j \in 1 .. Len(rest), i <= j PROVE rest[i] <= rest[j]
  <2>1. i + k - 1 \in 1 .. N /\ j + k - 1 \in 1 .. N /\ i + k - 1 <= j + k - 1
    BY <1>4, <1>5, <1>7
  <2> QED BY <1>1, <1>5, <2>1
<1>8. Recently(rest, last, t2)
  BY <1>5, <1>6, <1>7 DEF Recently
<1>9. ASSUME NEW bucket, Backed(bucket, times, last) PROVE Backed(bucket, rest, last)
  <2>1. /\ bucket.lastTime \in Nat \ {0} /\ bucket.lastTime <= last
        /\ last - bucket.lastTime < Period
        /\ bucket.burst \in 0 .. Queries!Max(Bursts) /\ N <= bucket.burst + 1
        /\ \A i \in 1 .. N : times[i] >= bucket.lastTime => N - i < bucket.burst
    BY <1>9 DEF Backed, N
  <2>2. Queries!Max(Bursts) \in Nat
    BY MaxBurst
  <2> DEFINE M == Queries!Max(Bursts)
             B == bucket.burst
  <2>3. B \in Nat /\ Len(rest) <= B + 1
    BY <1>1, <1>4, <1>5, <2>1, <2>2
  <2>4. ASSUME NEW i \in 1 .. Len(rest), rest[i] >= bucket.lastTime PROVE Len(rest) - i < B
    <3>1. i + k - 1 \in 1 .. N /\ times[i + k - 1] >= bucket.lastTime
      BY <1>5, <2>4
    <3>2. N - (i + k - 1) < B
      BY <2>1, <3>1
    <3> QED BY <1>1, <1>4, <1>5, <2>3, <3>2
  <2> QED BY <2>1, <2>3, <2>4 DEF Backed
<1>10. ASSUME times = << >> PROVE rest = << >>
  <2>1. N = 0 /\ k = 1
    BY <1>1, <1>4, <1>10 DEF N
  <2>2. Len(rest) = 0
    BY <1>5, <2>1
  <2> QED BY <1>5, <2>2, EmptySeq
<1>11. \A i \in 1 .. Len(rest) : \E j \in 1 .. Len(times) : rest[i] = times[j]
  BY <1>5 DEF N
<1> QED BY <1>2, <1>8, <1>9, <1>10, <1>11

\* What is so of the address a: each bucket it has has counted its answers, and if it has none
\* there are none.
HeldBy(t, a, times, last) ==
  /\ \A b \in Queries!Slot : t[b].address = a => Backed(t[b], times, last)
  /\ (\A b \in Queries!Slot : t[b].address # a) => times = << >>

RateInv ==
  /\ Chained(buckets, heads) /\ now \in Nat \ {0}
  /\ answered \in [Address -> Seq(Nat)] /\ asked \in [Address -> Nat] /\ sure \subseteq Address
  /\ \A a \in Address : asked[a] <= now /\ Recently(answered[a], asked[a], now)
  /\ \A a \in sure : HeldBy(buckets, a, answered[a], asked[a])

\* What is asked and answered when the address a asks.
LEMMA AsksIs ==
  ASSUME RateInv, NEW a \in Address, NEW answer \in BOOLEAN, Queries!Asks(a, answer)
  PROVE  /\ now' = now /\ sure' \subseteq sure
         /\ answered' \in [Address -> Seq(Nat)] /\ asked' \in [Address -> Nat]
         /\ answered'[a] = (IF answer THEN Append(answered[a], now) ELSE answered[a])
         /\ asked'[a] = now
         /\ \A c \in Address : c # a => answered'[c] = answered[c] /\ asked'[c] = asked[c]
         /\ \A c \in Address : asked'[c] <= now' /\ Recently(answered'[c], asked'[c], now')
         /\ a \in sure' /\ asked[a] > 0 => now - asked[a] < (IntRange \div 2) - Period
<1>1. /\ now \in Nat /\ answered \in [Address -> Seq(Nat)] /\ asked \in [Address -> Nat]
      /\ \A c \in Address : asked[c] \in Nat /\ asked[c] <= now /\ answered[c] \in Seq(Nat)
      /\ \A c \in Address : Recently(answered[c], asked[c], now)
  BY DEF RateInv
<1>2. /\ answered' = IF answer THEN [answered EXCEPT ![a] = Append(@, now)] ELSE answered
      /\ asked' = [asked EXCEPT ![a] = now] /\ now' = now
      /\ sure' = IF asked[a] > 0 /\ now - asked[a] >= (IntRange \div 2) - Period
                   THEN sure \ {a} ELSE sure
  BY DEF Queries!Asks
<1>3. sure' \subseteq sure
  BY <1>2
<1>4. a \in sure' /\ asked[a] > 0 => now - asked[a] < (IntRange \div 2) - Period
  <2>1. now - asked[a] \in Int /\ (IntRange \div 2) - Period \in Int
    BY <1>1, RateConstants
  <2> QED BY <1>2, <2>1
<1>5. /\ answered'[a] = (IF answer THEN Append(answered[a], now) ELSE answered[a])
      /\ asked'[a] = now /\ asked' \in [Address -> Nat] /\ answered' \in [Address -> Seq(Nat)]
      /\ \A c \in Address : c # a => answered'[c] = answered[c] /\ asked'[c] = asked[c]
  <2>1. Append(answered[a], now) \in Seq(Nat)
    BY <1>1
  <2> QED BY <1>1, <1>2, <2>1
<1>6. Recently(answered[a], now, now) /\ Recently(Append(answered[a], now), now, now)
  BY <1>1, RecentlyAsked
<1>7. \A c \in Address : asked'[c] <= now' /\ Recently(answered'[c], asked'[c], now')
  <2>1. SUFFICES ASSUME NEW c \in Address
                 PROVE  asked'[c] <= now' /\ Recently(answered'[c], asked'[c], now')
    OBVIOUS
  <2>2. CASE c = a
    <3>1. now <= now
      BY <1>1
    <3> QED BY <1>2, <1>5, <1>6, <2>2, <3>1, Zenon
  <2>3. CASE c # a
    BY <1>1, <1>2, <1>5, <2>3, Zenon
  <2> QED BY <2>2, <2>3
<1> QED BY <1>2, <1>3, <1>4, <1>5, <1>7, Zenon

\* A bucket whose address, time and level are the same is as good.
LEMMA BackedSame ==
  ASSUME NEW r, NEW s, r.lastTime = s.lastTime, r.burst = s.burst, NEW times, NEW last,
         Backed(r, times, last)
  PROVE  Backed(s, times, last)
BY DEF Backed

\* SVC_RateLimitAddress finds the bucket of the address.
LEMMA QueryKnownKeeps ==
  ASSUME RateInv, NEW a \in Address, NEW n \in Bursts, Queries!QueryKnown(a, n)
  PROVE  /\ RateInv'
         /\ a \in sure' /\ asked'[a] - asked[a] >= (Queries!Max(Bursts) + 1) * Period
              => answered'[a] # answered[a]
<1>1. PICK b \in Queries!Found(a) :
        LET limited == Queries!Limited(buckets, b, n) IN
        buckets' = limited.table /\ heads' = heads /\ Queries!Asks(a, limited.answer)
  BY DEF Queries!QueryKnown
<1> DEFINE l == Queries!Limited(buckets, b, n)
           d == Queries!Drained(buckets[b])
<1>2. /\ Chained(buckets, heads) /\ now \in Nat \ {0} /\ sure \subseteq Address
      /\ answered[a] \in Seq(Nat) /\ asked[a] \in Nat /\ asked[a] <= now
      /\ Recently(answered[a], asked[a], now)
      /\ \A c \in sure : HeldBy(buckets, c, answered[c], asked[c])
  BY DEF RateInv
<1>3. b \in Queries!Slot /\ buckets[b].address = a /\ Used(buckets, b)
  BY <1>1, <1>2, ChainsFound, RateConstants DEF Used
<1>4. /\ Chained(l.table, heads)
      /\ \A i \in Queries!Slot : i # b => l.table[i] = buckets[i]
      /\ l.table[b].address = a /\ l.table[b].lastTime = d.lastTime
      /\ l.answer <=> d.burst < n
      /\ l.table[b].burst = (IF d.burst < n THEN d.burst + 1 ELSE d.burst)
  BY <1>2, <1>3, LimitedIs
<1>5. l.answer \in BOOLEAN
  BY DEF Queries!Limited
<1>6. buckets' = l.table /\ heads' = heads /\ Queries!Asks(a, l.answer)
  BY <1>1
<1> HIDE DEF l, d
<1>7. /\ now' = now /\ sure' \subseteq sure
      /\ answered' \in [Address -> Seq(Nat)] /\ asked' \in [Address -> Nat]
      /\ answered'[a] = (IF l.answer THEN Append(answered[a], now) ELSE answered[a])
      /\ asked'[a] = now
      /\ \A c \in Address : c # a => answered'[c] = answered[c] /\ asked'[c] = asked[c]
      /\ \A c \in Address : asked'[c] <= now' /\ Recently(answered'[c], asked'[c], now')
      /\ a \in sure' /\ asked[a] > 0 => now - asked[a] < (IntRange \div 2) - Period
  BY <1>5, <1>6, AsksIs
<1>8. \A i \in Queries!Slot : buckets[i].address = a => i = b
  BY <1>2, <1>3 DEF Chained, Unique
<1>9. ASSUME a \in sure'
      PROVE  /\ Backed(d, answered[a], now)
             /\ now - asked[a] >= (Queries!Max(Bursts) + 1) * Period => d.burst = 0
  <2>1. Backed(buckets[b], answered[a], asked[a])
    BY <1>2, <1>3, <1>7, <1>9 DEF HeldBy
  <2>2. asked[a] > 0
    BY <1>2, <2>1 DEF Backed
  <2>3. now - asked[a] < (IntRange \div 2) - Period
    BY <1>7, <1>9, <2>2
  <2>4. buckets[b] \in Bucket
    BY <1>2, <1>3 DEF Chained
  <2> QED BY <1>2, <2>1, <2>3, <2>4, DrainedBacked DEF d
<1>10. ASSUME a \in sure' PROVE Backed(l.table[b], answered'[a], now)
  <2>1. CASE d.burst < n
    <3>1. Backed(l.table[b], Append(answered[a], now), now)
      BY <1>2, <1>4, <1>9, <1>10, <2>1, CountedBacked
    <3> QED BY <1>4, <1>7, <2>1, <3>1
  <2>2. CASE ~(d.burst < n)
    <3>1. l.table[b].burst = d.burst /\ l.table[b].lastTime = d.lastTime
          /\ answered'[a] = answered[a]
      BY <1>4, <1>7, <2>2
    <3>2. Backed(l.table[b], answered[a], now)
      BY <1>9, <1>10, <3>1, BackedSame
    <3> QED BY <3>1, <3>2
  <2> QED BY <2>1, <2>2
<1>11. ASSUME NEW c \in sure' PROVE HeldBy(buckets', c, answered'[c], asked'[c])
  <2>1. CASE c = a
    <3>1. \A i \in Queries!Slot : buckets'[i].address = a => i = b
      BY <1>4, <1>6, <1>8
    <3>2. buckets'[b].address = a /\ Backed(buckets'[b], answered'[a], asked'[a])
      BY <1>4, <1>6, <1>7, <1>10, <1>11, <2>1
    <3> QED BY <1>3, <2>1, <3>1, <3>2, Zenon DEF HeldBy
  <2>2. CASE c # a
    <3>1. c \in Address /\ answered'[c] = answered[c] /\ asked'[c] = asked[c]
      BY <1>2, <1>7, <1>11, <2>2
    <3>2. HeldBy(buckets, c, answered[c], asked[c])
      BY <1>2, <1>7, <1>11
    <3>3. \A i \in Queries!Slot : i # b => buckets'[i] = buckets[i]
      BY <1>4, <1>6
    <3>4. buckets'[b].address = a /\ buckets[b].address = a
      BY <1>3, <1>4, <1>6
    <3>5. \A i \in Queries!Slot : buckets'[i].address = c => Backed(buckets'[i], answered[c], asked[c])
      BY <2>2, <3>2, <3>3, <3>4, Zenon DEF HeldBy
    <3>6. (\A i \in Queries!Slot : buckets'[i].address # c) =>
            \A i \in Queries!Slot : buckets[i].address # c
      BY <2>2, <3>3, <3>4, Zenon
    <3> QED BY <3>1, <3>2, <3>5, <3>6, Zenon DEF HeldBy
  <2> QED BY <2>1, <2>2
<1>12. sure' \subseteq Address
  BY <1>2, <1>7
<1>13. ASSUME a \in sure', asked'[a] - asked[a] >= (Queries!Max(Bursts) + 1) * Period
       PROVE  answered'[a] # answered[a]
  <2>1. d.burst = 0
    BY <1>7, <1>9, <1>13
  <2>2. n \in Nat /\ n >= 2
    BY RateConstants
  <2>3. answered'[a] = Append(answered[a], now)
    BY <1>4, <1>7, <2>1, <2>2
  <2>4. Len(Append(answered[a], now)) # Len(answered[a])
    BY <1>2
  <2> QED BY <2>3, <2>4
<1>14. Chained(buckets', heads') /\ now' \in Nat \ {0}
  BY <1>2, <1>4, <1>6, <1>7
<1> QED BY <1>7, <1>11, <1>12, <1>13, <1>14 DEF RateInv

\* The bucket that may be taken.
LEMMA UsableIs ==
  ASSUME NEW n \in Bursts, NEW b \in Queries!Usable(n)
  PROVE  b \in Queries!Slot /\ (buckets[b].address = "none" \/ Queries!Expired(b, n))
<1> DEFINE usable == {i \in Queries!Slot : buckets[i].address = "none" \/ Queries!Expired(i, n)}
<1>1. usable # {} /\ b = Queries!Min(usable)
  BY DEF Queries!Usable
<1>2. usable \subseteq Nat
  BY RateConstants
<1> HIDE DEF usable
<1>3. \E m \in usable : \A i \in usable : m <= i
  BY <1>1, <1>2, LeastNumber
<1>4. b \in usable
  BY <1>1, <1>3, Zenon DEF Queries!Min
<1> QED BY <1>4 DEF usable

\* It takes a bucket for the address.
LEMMA QueryNewKeeps ==
  ASSUME RateInv, NEW a \in Address, NEW n \in Bursts, Queries!QueryNew(a, n)
  PROVE  RateInv' /\ (a \in sure' => answered'[a] # answered[a])
<1>1. /\ Queries!Found(a) = {}
      /\ \E b \in Queries!Usable(n) :
           LET taken == Queries!Taken(a, b)
               limited == Queries!Limited(taken.table, b, n)
           IN  buckets' = limited.table /\ heads' = taken.heads /\ Queries!Asks(a, limited.answer)
  BY DEF Queries!QueryNew
<1>2. PICK b \in Queries!Usable(n) :
        LET taken == Queries!Taken(a, b)
            limited == Queries!Limited(taken.table, b, n)
        IN  buckets' = limited.table /\ heads' = taken.heads /\ Queries!Asks(a, limited.answer)
  BY <1>1
<1>3. /\ Chained(buckets, heads) /\ now \in Nat \ {0} /\ sure \subseteq Address
      /\ buckets \in [Queries!Slot -> Bucket]
      /\ answered[a] \in Seq(Nat) /\ asked[a] \in Nat /\ asked[a] <= now
      /\ \A c \in Address : asked[c] \in Nat /\ asked[c] <= now
      /\ \A c \in Address : Recently(answered[c], asked[c], now)
      /\ \A c \in sure : HeldBy(buckets, c, answered[c], asked[c])
  BY DEF RateInv, Chained
<1>4. b \in Queries!Slot /\ (buckets[b].address = "none" \/ Queries!Expired(b, n))
  BY UsableIs
<1>5. \A i \in Queries!Slot : buckets[i].address # a
  BY <1>1, <1>3, ChainsFound
<1> DEFINE k == Queries!Taken(a, b)
           t == k.table
           l == Queries!Limited(t, b, n)
           d == Queries!Drained(t[b])
<1>6. /\ Chained(t, k.heads)
      /\ t[b].address = a /\ t[b].lastTime = now /\ t[b].burst = 0
      /\ \A i \in Queries!Slot : i # b =>
           /\ t[i].address = buckets[i].address
           /\ t[i].lastTime = buckets[i].lastTime /\ t[i].burst = buckets[i].burst
  BY <1>3, <1>4, <1>5, TakenIs
<1>7. buckets' = l.table /\ heads' = k.heads /\ Queries!Asks(a, l.answer)
  BY <1>2
<1>8. l.answer \in BOOLEAN
  BY DEF Queries!Limited
<1> HIDE DEF k, t
<1>9. Used(t, b) /\ t[b] \in Bucket
  BY <1>4, <1>6, RateConstants DEF Used, Chained
<1>10. /\ Chained(l.table, k.heads)
       /\ \A i \in Queries!Slot : i # b => l.table[i] = t[i]
       /\ l.table[b].address = a /\ l.table[b].lastTime = d.lastTime
       /\ l.answer <=> d.burst < n
       /\ l.table[b].burst = (IF d.burst < n THEN d.burst + 1 ELSE d.burst)
  BY <1>3, <1>4, <1>6, <1>9, LimitedIs
<1>11. d.burst = 0 /\ d.lastTime = now
  BY <1>3, <1>6, <1>9, FreshDrained
<1> HIDE DEF l, d
<1>12. l.answer = TRUE /\ l.table[b].burst = d.burst + 1 /\ d.burst < n
  <2>1. 0 < n
    BY RateConstants
  <2> QED BY <1>8, <1>10, <1>11, <2>1
<1>13. /\ now' = now /\ sure' \subseteq sure
       /\ answered' \in [Address -> Seq(Nat)] /\ asked' \in [Address -> Nat]
       /\ answered'[a] = (IF l.answer THEN Append(answered[a], now) ELSE answered[a])
       /\ asked'[a] = now
       /\ \A c \in Address : c # a => answered'[c] = answered[c] /\ asked'[c] = asked[c]
       /\ \A c \in Address : asked'[c] <= now' /\ Recently(answered'[c], asked'[c], now')
  BY <1>7, <1>8, AsksIs
<1>14. answered'[a] = Append(answered[a], now)
  BY <1>12, <1>13
<1>15. ASSUME a \in sure' PROVE Backed(l.table[b], answered'[a], now)
  <2>1. answered[a] = << >>
    BY <1>3, <1>5, <1>13, <1>15 DEF HeldBy
  <2>2. Backed(d, answered[a], now)
    <3>1. Len(answered[a]) = 0
      BY <2>1
    <3>2. 0 \in 0 .. Queries!Max(Bursts)
      BY MaxBurst
    <3>3. now <= now /\ now - now < Period /\ now \in Nat \ {0}
      BY <1>3, RateConstants
    <3> QED BY <1>11, <3>1, <3>2, <3>3 DEF Backed
  <2>3. Backed(l.table[b], Append(answered[a], now), now)
    BY <1>3, <1>10, <1>12, <2>2, CountedBacked
  <2> QED BY <1>14, <2>3
<1>16. ASSUME NEW c \in sure' PROVE HeldBy(buckets', c, answered'[c], asked'[c])
  <2>1. CASE c = a
    <3>1. \A i \in Queries!Slot : buckets'[i].address = a => i = b
      BY <1>5, <1>6, <1>7, <1>10
    <3>2. buckets'[b].address = a /\ Backed(buckets'[b], answered'[a], asked'[a])
      BY <1>7, <1>10, <1>13, <1>15, <1>16, <2>1
    <3> QED BY <1>4, <2>1, <3>1, <3>2, Zenon DEF HeldBy
  <2>2. CASE c # a
    <3>1. c \in Address /\ answered'[c] = answered[c] /\ asked'[c] = asked[c]
      BY <1>3, <1>13, <1>16, <2>2
    <3>2. HeldBy(buckets, c, answered[c], asked[c])
      BY <1>3, <1>13, <1>16
    <3>3. \A i \in Queries!Slot : i # b =>
            buckets'[i].address = buckets[i].address /\ buckets'[i].lastTime = buckets[i].lastTime
            /\ buckets'[i].burst = buckets[i].burst
      BY <1>6, <1>7, <1>10
    <3>4. buckets'[b].address = a
      BY <1>7, <1>10
    <3>5. ASSUME NEW i \in Queries!Slot, buckets'[i].address = c
          PROVE  Backed(buckets'[i], answered[c], asked[c])
      <4>1. i # b
        BY <2>2, <3>4, <3>5
      <4>2. Backed(buckets[i], answered[c], asked[c])
        BY <3>2, <3>3, <3>5, <4>1 DEF HeldBy
      <4>3. buckets[i].lastTime = buckets'[i].lastTime /\ buckets[i].burst = buckets'[i].burst
        BY <3>3, <4>1
      <4> QED BY <4>2, <4>3, BackedSame
    <3>6. ASSUME \A i \in Queries!Slot : buckets'[i].address # c PROVE answered[c] = << >>
      <4>1. CASE \A i \in Queries!Slot : buckets[i].address # c
        BY <3>2, <4>1 DEF HeldBy
      <4>2. CASE buckets[b].address = c
        <5>1. Backed(buckets[b], answered[c], asked[c])
          BY <1>4, <3>2, <4>2 DEF HeldBy
        <5>2. Queries!Expired(b, n)
          BY <1>4, <3>1, <4>2, RateConstants
        <5>3. /\ buckets[b].lastTime \in Nat /\ buckets[b].lastTime <= asked[c]
              /\ asked[c] - buckets[b].lastTime < Period /\ asked[c] \in Nat /\ asked[c] <= now
          BY <1>3, <3>1, <5>1 DEF Backed
        <5>4. now - buckets[b].lastTime >= 2 * Period
          <6>1. buckets[b].lastTime \in Int /\ buckets[b].lastTime <= now /\ now \in Nat
            BY <1>3, <5>3
          <6> QED BY <5>2, <6>1, ExpiredIsOld
        <5>5. Period \in Nat
          BY RateConstants
        <5>6. /\ answered[c] \in Seq(Nat)
              /\ \A i \in 1 .. Len(answered[c]) :
                   answered[c][i] \in Nat /\ answered[c][i] <= asked[c] /\ now - answered[c][i] < Period
          BY <1>3, <3>1 DEF Recently
        <5>7. ASSUME NEW i \in 1 .. Len(answered[c]) PROVE FALSE
          <6> DEFINE v == answered[c][i]
          <6>1. v \in Nat /\ v <= asked[c] /\ now - v < Period
            BY <5>6
          <6> HIDE DEF v
          <6> QED BY <1>3, <5>3, <5>4, <5>5, <6>1
        <5>8. Len(answered[c]) = 0
          BY <5>6, <5>7
        <5> QED BY <5>6, <5>8, EmptySeq
      <4> QED BY <3>3, <3>6, <4>1, <4>2
    <3> QED BY <3>1, <3>5, <3>6, Zenon DEF HeldBy
  <2> QED BY <2>1, <2>2
<1>17. sure' \subseteq Address
  BY <1>3, <1>13
<1>18. answered'[a] # answered[a]
  <2>1. Len(Append(answered[a], now)) # Len(answered[a])
    BY <1>3
  <2> QED BY <1>14, <2>1
<1>19. Chained(buckets', heads') /\ now' \in Nat \ {0}
  BY <1>3, <1>7, <1>10, <1>13
<1> QED BY <1>13, <1>16, <1>17, <1>18, <1>19 DEF RateInv

\* Found, for any table and heads.
FoundIn(t, h, a) ==
  {b \in {WalkOf(t, h[Hash[a]], MaxBuckets)[i] : i \in 1 .. MaxBuckets} \ {Queries!None} :
     t[b].address = a}

\* It finds none.
LEMMA QueryFullKeeps ==
  ASSUME RateInv, NEW a \in Address, NEW n \in Bursts, Queries!QueryFull(a, n)
  PROVE  RateInv' /\ Queries!Found(a)' = {}
<1>1. /\ Queries!Found(a) = {} /\ buckets' = buckets /\ heads' = heads /\ Queries!Asks(a, FALSE)
  BY DEF Queries!QueryFull, Queries!table
<1>2. /\ Chained(buckets, heads) /\ now \in Nat \ {0} /\ sure \subseteq Address
      /\ \A c \in sure : HeldBy(buckets, c, answered[c], asked[c])
  BY DEF RateInv
<1>3. \A i \in Queries!Slot : buckets[i].address # a
  BY <1>1, <1>2, ChainsFound
<1>4. FALSE \in BOOLEAN
  OBVIOUS
<1>5. /\ now' = now /\ sure' \subseteq sure
      /\ answered' \in [Address -> Seq(Nat)] /\ asked' \in [Address -> Nat]
      /\ answered'[a] = answered[a]
      /\ \A c \in Address : c # a => answered'[c] = answered[c] /\ asked'[c] = asked[c]
      /\ \A c \in Address : asked'[c] <= now' /\ Recently(answered'[c], asked'[c], now')
  BY <1>1, <1>4, AsksIs
<1>6. ASSUME NEW c \in sure' PROVE HeldBy(buckets', c, answered'[c], asked'[c])
  <2>1. HeldBy(buckets, c, answered[c], asked[c]) /\ c \in Address
    BY <1>2, <1>5, <1>6
  <2>2. CASE c = a
    <3>1. answered'[a] = << >>
      BY <1>3, <1>5, <2>1, <2>2 DEF HeldBy
    <3> QED BY <1>1, <1>3, <2>2, <3>1, Zenon DEF HeldBy
  <2>3. CASE c # a
    BY <1>1, <1>5, <2>1, <2>3, Zenon
  <2> QED BY <2>2, <2>3
<1>7. Queries!Found(a)' = Queries!Found(a)
  <2>1. Queries!Found(a) = FoundIn(buckets, heads, a)
    BY DEF Queries!Found, Queries!Chain, FoundIn, WalkOf, Walk
  <2>2. Queries!Found(a)' = FoundIn(buckets', heads', a)
    BY DEF Queries!Found, Queries!Chain, FoundIn, WalkOf, Walk
  <2> QED BY <1>1, <2>1, <2>2
<1>8. RateInv'
  BY <1>1, <1>2, <1>5, <1>6 DEF RateInv
<1> QED BY <1>1, <1>7, <1>8

\* Time passes.
LEMMA RateTickKeeps == ASSUME RateInv, Queries!Tick PROVE RateInv'
<1>1. PICK d \in Steps :
        /\ now' = now + d
        /\ answered' = [a \in Address |-> Queries!Recent(answered[a], now')]
        /\ buckets' = buckets /\ heads' = heads /\ asked' = asked /\ sure' = sure
  BY DEF Queries!Tick, Queries!table
<1>2. /\ Chained(buckets, heads) /\ now \in Nat \ {0} /\ sure \subseteq Address
      /\ asked \in [Address -> Nat]
      /\ \A c \in Address : asked[c] \in Nat /\ asked[c] <= now /\ Recently(answered[c], asked[c], now)
      /\ \A c \in sure : HeldBy(buckets, c, answered[c], asked[c])
  BY DEF RateInv
<1>3. d \in Nat
  BY RateConstants
<1>4. now' \in Nat \ {0} /\ now <= now'
  BY <1>1, <1>2, <1>3
<1>5. ASSUME NEW c \in Address
      PROVE  /\ answered'[c] = Queries!Recent(answered[c], now')
             /\ Recently(answered'[c], asked'[c], now') /\ asked'[c] <= now'
             /\ \A r : Backed(r, answered[c], asked[c]) => Backed(r, answered'[c], asked'[c])
             /\ answered[c] = << >> => answered'[c] = << >>
  <2>1. answered'[c] = Queries!Recent(answered[c], now') /\ asked'[c] = asked[c]
    BY <1>1
  <2>2. asked[c] \in Nat /\ now \in Nat /\ now' \in Nat /\ Recently(answered[c], asked[c], now)
    BY <1>2, <1>4
  <2>3. /\ Recently(Queries!Recent(answered[c], now'), asked[c], now')
        /\ \A r : Backed(r, answered[c], asked[c]) =>
             Backed(r, Queries!Recent(answered[c], now'), asked[c])
        /\ answered[c] = << >> => Queries!Recent(answered[c], now') = << >>
    BY <2>2, RecentIs
  <2>4. asked[c] <= now'
    BY <1>2, <1>4
  <2> QED BY <2>1, <2>3, <2>4
<1>6. ASSUME NEW c \in sure' PROVE HeldBy(buckets', c, answered'[c], asked'[c])
  <2>1. HeldBy(buckets, c, answered[c], asked[c]) /\ c \in Address
    BY <1>1, <1>2, <1>6
  <2> QED BY <1>1, <1>5, <2>1, Zenon DEF HeldBy
<1>7. answered' \in [Address -> Seq(Nat)]
  <2>1. \A c \in Address : Queries!Recent(answered[c], now') \in Seq(Nat)
    BY <1>5 DEF Recently
  <2> QED BY <1>1, <2>1
<1> QED BY <1>1, <1>2, <1>4, <1>5, <1>6, <1>7 DEF RateInv

\* Who does not ask has not waited since the last query.
LEMMA NotPatient ==
  ASSUME RateInv, NEW a \in Address
  PROVE  ~(asked[a] - asked[a] >= (Queries!Max(Bursts) + 1) * Period)
<1>1. asked[a] \in Nat
  BY DEF RateInv
<1> DEFINE M == Queries!Max(Bursts)
<1>2. M \in Nat /\ Period \in Nat \ {0}
  BY MaxBurst, RateConstants
<1> HIDE DEF M
<1>3. Period * (M + 1) >= Period * 0 + Period
  BY <1>2, Multiples
<1>4. Period * (M + 1) = (M + 1) * Period /\ Period * 0 = 0 /\ Period * (M + 1) \in Int
  BY <1>2
<1> QED BY <1>1, <1>2, <1>3, <1>4 DEF M

\* Neither has anybody else when a asks.
LEMMA OthersNotPatient ==
  ASSUME RateInv, NEW a \in Address, NEW answer \in BOOLEAN, Queries!Asks(a, answer)
  PROVE  \A c \in sure' : c # a => ~(asked'[c] - asked[c] >= (Queries!Max(Bursts) + 1) * Period)
<1>1. sure' \subseteq sure /\ sure \subseteq Address
      /\ \A c \in Address : c # a => asked'[c] = asked[c]
  BY AsksIs DEF RateInv
<1> QED BY <1>1, NotPatient

\* Every step keeps it; a client that was patient is answered.
LEMMA RateNextKeeps ==
  ASSUME RateInv, [Queries!Next]_(Queries!vars)
  PROVE  RateInv' /\ Queries!PatientIsAnswered
<1>1. CASE UNCHANGED Queries!vars
  <2>1. /\ now' = now /\ buckets' = buckets /\ heads' = heads /\ answered' = answered
        /\ asked' = asked /\ sure' = sure
    BY <1>1 DEF Queries!vars, Queries!table
  <2>2. RateInv'
    BY <2>1, Zenon DEF RateInv
  <2>3. ASSUME NEW a \in sure PROVE ~(asked[a] - asked[a] >= (Queries!Max(Bursts) + 1) * Period)
    BY NotPatient DEF RateInv
  <2> QED BY <2>1, <2>2, <2>3, Zenon DEF Queries!PatientIsAnswered
<1>2. ASSUME NEW a \in Address, NEW n \in Bursts, Queries!QueryKnown(a, n)
      PROVE  RateInv' /\ Queries!PatientIsAnswered
  <2>1. RateInv' /\ (a \in sure' /\ asked'[a] - asked[a] >= (Queries!Max(Bursts) + 1) * Period
              => answered'[a] # answered[a])
    BY <1>2, QueryKnownKeeps
  <2>2. \E answer \in BOOLEAN : Queries!Asks(a, answer)
    BY <1>2 DEF Queries!QueryKnown, Queries!Limited
  <2> QED BY <2>1, <2>2, OthersNotPatient DEF Queries!PatientIsAnswered
<1>3. ASSUME NEW a \in Address, NEW n \in Bursts, Queries!QueryNew(a, n)
      PROVE  RateInv' /\ Queries!PatientIsAnswered
  <2>1. RateInv' /\ (a \in sure' => answered'[a] # answered[a])
    BY <1>3, QueryNewKeeps
  <2>2. \E answer \in BOOLEAN : Queries!Asks(a, answer)
    BY <1>3 DEF Queries!QueryNew, Queries!Limited
  <2> QED BY <2>1, <2>2, OthersNotPatient DEF Queries!PatientIsAnswered
<1>4. ASSUME NEW a \in Address, NEW n \in Bursts, Queries!QueryFull(a, n)
      PROVE  RateInv' /\ Queries!PatientIsAnswered
  <2>1. RateInv' /\ Queries!Found(a)' = {}
    BY <1>4, QueryFullKeeps
  <2>2. Queries!Asks(a, FALSE)
    BY <1>4 DEF Queries!QueryFull
  <2> QED BY <2>1, <2>2, OthersNotPatient DEF Queries!PatientIsAnswered
<1>5. ASSUME Queries!Tick PROVE RateInv' /\ Queries!PatientIsAnswered
  <2>1. asked' = asked /\ sure' = sure
    BY <1>5 DEF Queries!Tick
  <2>2. ASSUME NEW a \in sure PROVE ~(asked[a] - asked[a] >= (Queries!Max(Bursts) + 1) * Period)
    BY NotPatient DEF RateInv
  <2>3. Queries!PatientIsAnswered
    BY <2>1, <2>2, Zenon DEF Queries!PatientIsAnswered
  <2> QED BY <1>5, <2>3, RateTickKeeps
<1> QED BY <1>1, <1>2, <1>3, <1>4, <1>5 DEF Queries!Next

\* It holds at the beginning.
LEMMA RateInitHolds == Queries!Init => RateInv
<1> SUFFICES ASSUME Queries!Init PROVE RateInv
  OBVIOUS
<1>1. /\ now = 1 /\ buckets = [b \in Queries!Slot |-> Queries!Free]
      /\ heads = [h \in Hashes |-> Queries!None]
      /\ answered = [a \in Address |-> << >>] /\ asked = [a \in Address |-> 0] /\ sure = Address
  BY DEF Queries!Init, Hashes
<1>2. Queries!Free \in Bucket /\ Queries!Free.address = "none"
  BY DEF Queries!Free, Bucket, Link
<1>3. /\ buckets \in [Queries!Slot -> Bucket] /\ heads \in [Hashes -> Link]
      /\ \A b \in Queries!Slot : ~Used(buckets, b) /\ buckets[b] = Queries!Free
      /\ \A x \in Hashes : heads[x] = Queries!None
  BY <1>1, <1>2 DEF Used, Link
<1>4. Chained(buckets, heads)
  <2>1. \A b \in Queries!Slot : LinkedAt(buckets, heads, b)
    BY <1>3 DEF LinkedAt
  <2>2. \A x \in Hashes : HeadAt(buckets, heads, x)
    BY <1>3 DEF HeadAt
  <2>3. Unique(buckets)
    BY <1>3 DEF Unique
  <2>4. \E n \in Nat : \E rank \in [Queries!Slot -> 0 .. n] : Falls(buckets, rank)
    <3>1. [b \in Queries!Slot |-> 0] \in [Queries!Slot -> 0 .. 0]
      OBVIOUS
    <3>2. Falls(buckets, [b \in Queries!Slot |-> 0])
      BY <1>3 DEF Falls
    <3> QED BY <3>1, <3>2
  <2> QED BY <1>3, <2>1, <2>2, <2>3, <2>4 DEF Chained
<1>5. ASSUME NEW a \in Address
      PROVE  /\ asked[a] <= now /\ Recently(answered[a], asked[a], now)
             /\ HeldBy(buckets, a, answered[a], asked[a])
  <2>1. asked[a] = 0 /\ answered[a] = << >> /\ now = 1
    BY <1>1
  <2>2. Recently(<< >>, 0, 1)
    BY DEF Recently
  <2>3. \A b \in Queries!Slot : buckets[b].address # a
    BY <1>2, <1>3, RateConstants
  <2> QED BY <2>1, <2>2, <2>3 DEF HeldBy
<1>6. answered \in [Address -> Seq(Nat)] /\ asked \in [Address -> Nat]
  BY <1>1
<1> QED BY <1>1, <1>4, <1>5, <1>6 DEF RateInv

\* What is so of the queries at every time.
RateIInv == component = "queries" => RateInv

\* It is an invariant.
LEMMA RateHold == Spec => []RateIInv
<1>1. Init => RateIInv
  BY RateInitHolds DEF Init, RateIInv
<1>2. ASSUME RateIInv, [Next]_vars PROVE RateIInv'
  <2>1. SUFFICES ASSUME component = "queries" PROVE RateInv'
    BY <1>2, OnePart DEF RateIInv
  <2> QED BY <1>2, <2>1, OnePart, RateNextKeeps DEF RateIInv
<1> QED BY <1>1, <1>2, PTL DEF Spec

\* ChainsSound: through taking, unlinking and taking again the chains hold exactly the buckets
\* in use, whatever addresses share a hash (SVC_BucketForAddress).
THEOREM ChainsStaySound == Spec => []ChainsSound
<1>1. RateInv => Queries!ChainsSound
  <2> SUFFICES ASSUME RateInv PROVE Queries!ChainsSound
    OBVIOUS
  <2>1. Chained(buckets, heads)
    BY DEF RateInv
  <2>2. /\ \A x \in Hashes : \A b \in Queries!Chain(heads[x], MaxBuckets + 1) :
             b \in Queries!Slot /\ Used(buckets, b) /\ buckets[b].hash = x
        /\ \A a \in Address : Queries!Found(a) = {b \in Queries!Slot : buckets[b].address = a}
    BY <2>1, ChainsFound
  <2>3. /\ \A b \in Queries!Slot : LinkedAt(buckets, heads, b) /\ buckets[b] \in Bucket
        /\ heads \in [Hashes -> Link] /\ Unique(buckets)
    BY <2>1 DEF Chained
  <2>4. ASSUME NEW b \in Queries!Slot, buckets[b].address # "none"
        PROVE  b \in Queries!Found(buckets[b].address)
    <3>1. buckets[b].address \in Address
      BY <2>3, <2>4 DEF Bucket
    <3> QED BY <2>2, <3>1
  <2>5. ASSUME NEW x \in DOMAIN heads, NEW b \in Queries!Chain(heads[x], MaxBuckets + 1)
        PROVE  /\ buckets[b].address # "none" /\ buckets[b].hash = x
               /\ IF buckets[b].prev = Queries!None THEN heads[x] = b
                  ELSE buckets[buckets[b].prev].next = b
    <3>1. x \in Hashes
      BY <2>3
    <3>2. b \in Queries!Slot /\ Used(buckets, b) /\ buckets[b].hash = x
      BY <2>2, <2>5, <3>1
    <3> QED BY <2>3, <3>2 DEF LinkedAt, Used
  <2>6. ASSUME NEW a \in Address, NEW b \in Queries!Found(a), NEW c \in Queries!Found(a) PROVE b = c
    <3>1. b \in Queries!Slot /\ c \in Queries!Slot /\ buckets[b].address = a /\ buckets[c].address = a
      BY <2>2
    <3> QED BY <2>3, <3>1, RateConstants DEF Unique, Used
  <2> QED BY <2>4, <2>5, <2>6 DEF Queries!ChainsSound
<1>2. RateIInv => ChainsSound
  BY <1>1 DEF RateIInv, ChainsSound
<1> QED BY <1>2, RateHold, PTL

\* AnswersLimited: within less than a period no address that never paused for half the range of
\* an interval is answered more often than the limit and once more, even if its bucket went to
\* another address in between (SVC_RateLimit).
THEOREM AnswersStayLimited == Spec => []AnswersLimited
<1>1. RateInv => Queries!AnswersLimited
  <2> SUFFICES ASSUME RateInv, NEW a \in sure
               PROVE  Len(answered[a]) <= Queries!Max(Bursts) + 1
    BY DEF Queries!AnswersLimited
  <2>1. HeldBy(buckets, a, answered[a], asked[a]) /\ answered[a] \in Seq(Nat)
    BY DEF RateInv
  <2>2. Queries!Max(Bursts) \in Nat
    BY MaxBurst
  <2>3. CASE \A b \in Queries!Slot : buckets[b].address # a
    <3>1. Len(answered[a]) = 0
      BY <2>1, <2>3 DEF HeldBy
    <3> QED BY <2>2, <3>1
  <2>4. ASSUME NEW b \in Queries!Slot, buckets[b].address = a
        PROVE  Len(answered[a]) <= Queries!Max(Bursts) + 1
    <3>1. Backed(buckets[b], answered[a], asked[a])
      BY <2>1, <2>4 DEF HeldBy
    <3>2. buckets[b].burst \in 0 .. Queries!Max(Bursts) /\ Len(answered[a]) <= buckets[b].burst + 1
          /\ Len(answered[a]) \in Nat
      BY <2>1, <3>1 DEF Backed
    <3> QED BY <2>2, <3>2
  <2> QED BY <2>3, <2>4
<1>2. RateIInv => AnswersLimited
  BY <1>1 DEF RateIInv, AnswersLimited
<1> QED BY <1>2, RateHold, PTL

\* PatientAnswered: who has not asked for as long as a full bucket takes to run empty, and gets
\* a bucket, is answered (SVC_RateLimit).
THEOREM PatienceIsAnswered == Spec => PatientAnswered
<1>1. ASSUME RateIInv, [Next]_vars PROVE [component = "queries" => Queries!PatientIsAnswered]_vars
  <2>1. ASSUME component = "queries" PROVE Queries!PatientIsAnswered
    BY <1>1, <2>1, OnePart, RateNextKeeps DEF RateIInv
  <2> QED BY <2>1
<1> QED BY <1>1, RateHold, PTL DEF Spec, PatientAnswered

-----------------------------------------------------------------------------
(* The types of the queries.                                               *)

\* The level and the time of the bucket r, at the time t: an interval that has gone round
\* puts the time less than a period ahead.
Timely(r, t) ==
  /\ r.lastTime \in 0 .. t + Period
  /\ r.burst \in -(CharRange \div 2) .. (CharRange \div 2) - 1

\* A conversion to a char.
LEMMA WrappedToChar ==
  ASSUME NEW x \in Int
  PROVE  Queries!Wrapped(x, CharRange) \in -(CharRange \div 2) .. (CharRange \div 2) - 1
<1> DEFINE h == CharRange \div 2
           m == (x + h) % CharRange
<1>1. CharRange \in Nat \ {0} /\ h \in Nat /\ CharRange = 2 * h
  <2>1. CharRange \in Nat \ {0} /\ CharRange % 2 = 0
    BY RateConstants, QueriesAssumed DEF Queries!RateAssumption
  <2>2. CharRange = 2 * (CharRange \div 2) + (CharRange % 2) /\ CharRange \div 2 \in Nat
    BY <2>1, DivMod
  <2> QED BY <2>1, <2>2
<1>2. Queries!Wrapped(x, CharRange) = m - h
  BY DEF Queries!Wrapped
<1> HIDE DEF h
<1>3. m \in 0 .. CharRange - 1
  BY <1>1
<1> HIDE DEF m
<1> QED BY <1>1, <1>2, <1>3 DEF h

\* Quotients towards zero: a remainder has the sign of the number and is less than a period.
LEMMA QuotientIs ==
  ASSUME NEW x \in Int
  PROVE  /\ Queries!Quotient(x, Period) \in Int
         /\ x >= 0 => Queries!Quotient(x, Period) \in Nat /\ x - Queries!Quotient(x, Period) * Period \in 0 .. x
         /\ x < 0 => x - Queries!Quotient(x, Period) * Period \in -Period .. 0
         /\ x < 0 /\ x > -Period => Queries!Quotient(x, Period) = 0
<1>1. Period \in Nat \ {0}
  BY RateConstants
<1>2. CASE x >= 0
  <2> DEFINE q == x \div Period
  <2>1. Queries!Quotient(x, Period) = q
    BY <1>2 DEF Queries!Quotient
  <2>2. x \in Nat
    BY <1>2
  <2>3. x = Period * q + (x % Period) /\ x % Period \in 0 .. Period - 1 /\ q \in Nat
    BY <1>1, <2>2, DivMod
  <2> HIDE DEF q
  <2>4. Period * q = q * Period /\ Period * q \in Nat
    BY <1>1, <2>3
  <2>5. x - q * Period \in 0 .. x
    BY <1>1, <2>2, <2>3, <2>4
  <2> QED BY <1>2, <2>1, <2>3, <2>5
<1>3. CASE x < 0
  <2> DEFINE y == -x
             q == y \div Period
  <2>1. Queries!Quotient(x, Period) = -q
    BY <1>3 DEF Queries!Quotient
  <2>2. y \in Nat /\ x = -y
    BY <1>3
  <2> HIDE DEF y
  <2>3. y = Period * q + (y % Period) /\ y % Period \in 0 .. Period - 1 /\ q \in Nat
    BY <1>1, <2>2, DivMod
  <2> HIDE DEF q
  <2>4. Period * q = q * Period /\ Period * q \in Nat /\ (-q) * Period = -(q * Period)
    BY <1>1, <2>3
  <2>5. x - (-q) * Period \in -Period .. 0
    BY <1>1, <2>2, <2>3, <2>4
  <2>6. ASSUME x > -Period PROVE q = 0
    <3> SUFFICES ASSUME q # 0 PROVE FALSE
      OBVIOUS
    <3>1. Period * q >= Period * 0 + Period
      BY <1>1, <2>3, Multiples
    <3> QED BY <1>1, <2>2, <2>3, <2>4, <2>6, <3>1
  <2>7. -q \in Int /\ (q = 0 => -q = 0)
    BY <2>3
  <2> QED BY <1>3, <2>1, <2>5, <2>6, <2>7
<1> QED BY <1>2, <1>3

\* What has run out of a bucket leaves it so.
LEMMA DrainedTimely ==
  ASSUME now \in Nat, NEW r \in Bucket, Timely(r, now)
  PROVE  Timely(Queries!Drained(r), now)
<1>i. PICK i : i = Queries!Interval(r.lastTime)
  OBVIOUS
<1>q. PICK q : q = Queries!Quotient(i, Period)
  OBVIOUS
<1>x. PICK x : x = now - r.lastTime
  OBVIOUS
<1>1. /\ Period \in Nat \ {0} /\ IntRange \in Nat \ {0} /\ IntRange \div 2 \in Nat
      /\ 2 * Period <= IntRange \div 2 /\ CharRange \div 2 \in Nat /\ CharRange \div 2 > 0
  BY RateConstants, MaxBurst
<1>2. /\ r.lastTime \in Nat /\ x \in Int /\ x <= now /\ x >= -Period /\ r.burst \in Int
      /\ r.burst \in -(CharRange \div 2) .. (CharRange \div 2) - 1
  BY <1>1, <1>x DEF Timely
<1>3. /\ i \in Int /\ (x >= 0 => i <= x) /\ (x < 0 => i = x)
  <2>1. i = Queries!Wrapped(x, IntRange)
    BY <1>i, <1>x DEF Queries!Interval
  <2>2. x < 0 => x >= -(IntRange \div 2) /\ x < IntRange \div 2
    BY <1>1, <1>2
  <2> QED BY <1>1, <1>2, <2>1, <2>2, WrappedIs
<1>4. /\ q \in Int
      /\ i >= 0 => i - q * Period \in 0 .. i
      /\ i < 0 => i - q * Period \in -Period .. 0
  BY <1>3, <1>q, QuotientIs
<1>5. PICK w : w = now - (i - q * Period)
  OBVIOUS
<1>6. w \in 0 .. now + Period
  <2>1. PICK y : y = i - q * Period
    OBVIOUS
  <2>2. (i >= 0 => y \in 0 .. i) /\ (i < 0 => y \in -Period .. 0)
    BY <1>4, <2>1
  <2>3. CASE i >= 0
    <3>1. i <= x
      BY <1>2, <1>3, <2>3
    <3> QED BY <1>1, <1>2, <1>3, <1>5, <2>1, <2>2, <2>3, <3>1
  <2>4. CASE i < 0
    BY <1>1, <1>3, <1>5, <2>1, <2>2, <2>4
  <2> QED BY <1>3, <2>3, <2>4
<1>7. PICK less : less = Queries!Wrapped(r.burst - q, CharRange)
  OBVIOUS
<1>8. less \in -(CharRange \div 2) .. (CharRange \div 2) - 1
  BY <1>2, <1>4, <1>7, WrappedToChar
<1>9. Queries!Drained(r) = IF q > r.burst THEN [r EXCEPT !.burst = 0, !.lastTime = now]
                           ELSE [r EXCEPT !.burst = less, !.lastTime = w]
  BY <1>i, <1>q, <1>5, <1>7, Zenon DEF Queries!Drained
<1>10. CASE q > r.burst
  <2>1. Queries!Drained(r).burst = 0 /\ Queries!Drained(r).lastTime = now
    BY <1>9, <1>10 DEF Bucket
  <2> QED BY <1>1, <2>1 DEF Timely
<1>11. CASE ~(q > r.burst)
  <2>1. Queries!Drained(r).burst = less /\ Queries!Drained(r).lastTime = w
    BY <1>9, <1>11 DEF Bucket
  <2> QED BY <1>6, <1>8, <2>1 DEF Timely
<1> QED BY <1>10, <1>11

\* And an answer more.
LEMMA LimitedTimely ==
  ASSUME now \in Nat, NEW t, NEW h, Chained(t, h), NEW b \in Queries!Slot, Used(t, b), NEW n \in Bursts,
         \A i \in Queries!Slot : Timely(t[i], now)
  PROVE  \A i \in Queries!Slot : Timely(Queries!Limited(t, b, n).table[i], now)
<1> DEFINE l == Queries!Limited(t, b, n)
           d == Queries!Drained(t[b])
<1>1. /\ \A i \in Queries!Slot : i # b => l.table[i] = t[i]
      /\ l.table[b].lastTime = d.lastTime
      /\ l.table[b].burst = IF d.burst < n THEN d.burst + 1 ELSE d.burst
  BY LimitedIs
<1>2. Timely(d, now)
  <2>1. t[b] \in Bucket
    BY DEF Chained
  <2> QED BY <2>1, DrainedTimely
<1> HIDE DEF l, d
<1>3. n \in Nat /\ n < CharRange \div 2 /\ CharRange \div 2 \in Nat
  BY RateConstants
<1>4. Timely(l.table[b], now)
  BY <1>1, <1>2, <1>3 DEF Timely
<1> QED BY <1>1, <1>4 DEF l

\* What of the types of RateLimit is not in RateInv.
QueryTypes ==
  /\ now <= QueryTime
  /\ \A b \in Queries!Slot : Timely(buckets[b], now)
  /\ \A a \in Address : \A i \in 1 .. Len(answered[a]) : answered[a][i] # 0

\* An answer more is not at the time 0.
LEMMA AnswersNotAtZero ==
  ASSUME RateInv, QueryTypes, NEW a \in Address, NEW answer \in BOOLEAN, Queries!Asks(a, answer)
  PROVE  \A c \in Address : \A i \in 1 .. Len(answered'[c]) : answered'[c][i] # 0
<1>1. /\ answered'[a] = (IF answer THEN Append(answered[a], now) ELSE answered[a])
      /\ \A c \in Address : c # a => answered'[c] = answered[c]
  BY AsksIs
<1>2. /\ now \in Nat \ {0} /\ answered[a] \in Seq(Nat)
      /\ \A c \in Address : \A i \in 1 .. Len(answered[c]) : answered[c][i] # 0
  BY DEF RateInv, QueryTypes
<1>3. \A i \in 1 .. Len(Append(answered[a], now)) : Append(answered[a], now)[i] # 0
  <2>1. PICK s : s = answered[a]
    OBVIOUS
  <2>2. s \in Seq(Nat) /\ \A i \in 1 .. Len(s) : s[i] # 0
    BY <1>2, <2>1
  <2>3. \A i \in 1 .. Len(Append(s, now)) : Append(s, now)[i] # 0
    BY <1>2, <2>2
  <2> QED BY <2>1, <2>3
<1>4. \A i \in 1 .. Len(answered'[a]) : answered'[a][i] # 0
  BY <1>1, <1>2, <1>3, Zenon
<1> QED BY <1>1, <1>2, <1>4, Zenon

\* Queries keep the types.
LEMMA QueryKeepsTypes ==
  ASSUME RateInv, QueryTypes, NEW a \in Address, NEW n \in Bursts,
         Queries!QueryKnown(a, n) \/ Queries!QueryNew(a, n) \/ Queries!QueryFull(a, n)
  PROVE  QueryTypes'
<1>1. /\ Chained(buckets, heads) /\ now \in Nat \ {0} /\ now <= QueryTime
      /\ \A b \in Queries!Slot : Timely(buckets[b], now)
      /\ \A c \in Address : Queries!Found(c) = {b \in Queries!Slot : buckets[b].address = c}
  BY ChainsFound DEF RateInv, QueryTypes
<1>2. ASSUME NEW answer \in BOOLEAN, Queries!Asks(a, answer),
             \A b \in Queries!Slot : Timely(buckets'[b], now)
      PROVE  QueryTypes'
  <2>1. \A c \in Address : \A i \in 1 .. Len(answered'[c]) : answered'[c][i] # 0
    BY <1>2, AnswersNotAtZero
  <2>2. now' = now
    BY <1>2 DEF Queries!Asks
  <2> QED BY <1>1, <1>2, <2>1, <2>2, Zenon DEF QueryTypes
<1>3. CASE Queries!QueryKnown(a, n)
  <2>1. PICK b \in Queries!Found(a) :
          LET limited == Queries!Limited(buckets, b, n) IN
          buckets' = limited.table /\ heads' = heads /\ Queries!Asks(a, limited.answer)
    BY <1>3 DEF Queries!QueryKnown
  <2>2. b \in Queries!Slot /\ Used(buckets, b)
    BY <1>1, RateConstants DEF Used
  <2>3. Queries!Limited(buckets, b, n).answer \in BOOLEAN
    BY DEF Queries!Limited
  <2>4. \A i \in Queries!Slot : Timely(Queries!Limited(buckets, b, n).table[i], now)
    BY <1>1, <2>2, LimitedTimely
  <2> QED BY <1>2, <2>1, <2>3, <2>4
<1>4. CASE Queries!QueryNew(a, n)
  <2>1. PICK b \in Queries!Usable(n) :
          LET taken == Queries!Taken(a, b)
              limited == Queries!Limited(taken.table, b, n)
          IN  buckets' = limited.table /\ heads' = taken.heads /\ Queries!Asks(a, limited.answer)
    BY <1>4 DEF Queries!QueryNew
  <2>2. PICK k : k = Queries!Taken(a, b)
    OBVIOUS
  <2>3. b \in Queries!Slot
    BY UsableIs
  <2>4. \A i \in Queries!Slot : buckets[i].address # a
    BY <1>1, <1>4 DEF Queries!QueryNew
  <2>5. /\ Chained(k.table, k.heads)
        /\ k.table[b].address = a /\ k.table[b].lastTime = now /\ k.table[b].burst = 0
        /\ \A i \in Queries!Slot : i # b =>
             k.table[i].lastTime = buckets[i].lastTime /\ k.table[i].burst = buckets[i].burst
    BY <1>1, <2>2, <2>3, <2>4, TakenIs
  <2>6. Used(k.table, b)
    BY <2>5, RateConstants DEF Used
  <2>7. \A i \in Queries!Slot : Timely(k.table[i], now)
    <3>1. Timely(k.table[b], now)
      <4>1. CharRange \div 2 \in Nat /\ CharRange \div 2 > 0 /\ Period \in Nat
        BY RateConstants, MaxBurst
      <4> QED BY <1>1, <2>5, <4>1 DEF Timely
    <3>2. \A i \in Queries!Slot : i # b => Timely(k.table[i], now)
      BY <1>1, <2>5, Zenon DEF Timely
    <3> QED BY <3>1, <3>2
  <2>8. \A i \in Queries!Slot : Timely(Queries!Limited(k.table, b, n).table[i], now)
    BY <1>1, <2>3, <2>5, <2>6, <2>7, LimitedTimely
  <2>9. Queries!Limited(k.table, b, n).answer \in BOOLEAN
    BY DEF Queries!Limited
  <2> QED BY <1>2, <2>1, <2>2, <2>8, <2>9
<1>5. CASE Queries!QueryFull(a, n)
  <2>1. buckets' = buckets /\ Queries!Asks(a, FALSE) /\ FALSE \in BOOLEAN
    BY <1>5 DEF Queries!QueryFull, Queries!table
  <2> QED BY <1>1, <1>2, <2>1
<1> QED BY <1>3, <1>4, <1>5

\* So does time.
LEMMA TickKeepsTypes ==
  ASSUME RateInv, QueryTypes, Queries!Tick
  PROVE  QueryTypes'
<1>1. /\ now \in Nat \ {0} /\ answered \in [Address -> Seq(Nat)]
      /\ \A b \in Queries!Slot : Timely(buckets[b], now)
      /\ \A a \in Address : \A i \in 1 .. Len(answered[a]) : answered[a][i] # 0
  BY DEF RateInv, QueryTypes
<1>2. PICK d \in Steps : now + d <= QueryTime /\ now' = now + d
  BY DEF Queries!Tick
<1>3. buckets' = buckets /\ answered' = [a \in Address |-> Queries!Recent(answered[a], now')]
  BY DEF Queries!Tick, Queries!table
<1>4. d \in Nat /\ Period \in Nat
  BY RateConstants
<1>5. now' \in Nat /\ now <= now' /\ now' <= QueryTime
  BY <1>1, <1>2, <1>4
<1>6. \A b \in Queries!Slot : Timely(buckets'[b], now')
  <2>1. SUFFICES ASSUME NEW b \in Queries!Slot PROVE Timely(buckets[b], now')
    BY <1>3
  <2>2. Timely(buckets[b], now)
    BY <1>1
  <2> QED BY <1>1, <1>4, <1>5, <2>2 DEF Timely
<1>7. ASSUME NEW a \in Address, NEW i \in 1 .. Len(answered'[a]) PROVE answered'[a][i] # 0
  <2>1. answered'[a] = Queries!Recent(answered[a], now') /\ answered[a] \in Seq(Nat)
    BY <1>1, <1>3
  <2>2. \E j \in 1 .. Len(answered[a]) : answered'[a][i] = answered[a][j]
    <3>1. /\ now \in Nat /\ asked[a] \in Nat /\ Recently(answered[a], asked[a], now)
      BY DEF RateInv
    <3> QED BY <1>5, <2>1, <3>1, RecentIs
  <2> QED BY <1>1, <2>2
<1> QED BY <1>5, <1>6, <1>7 DEF QueryTypes

\* Every step keeps the types.
LEMMA QueryNextKeepsTypes ==
  ASSUME RateInv, QueryTypes, [Queries!Next]_(Queries!vars)
  PROVE  QueryTypes'
<1>1. CASE UNCHANGED Queries!vars
  <2>1. now' = now /\ buckets' = buckets /\ answered' = answered
    BY <1>1 DEF Queries!vars, Queries!table
  <2> QED BY <2>1, Zenon DEF QueryTypes
<1>2. CASE Queries!Next
  BY <1>2, QueryKeepsTypes, TickKeepsTypes DEF Queries!Next
<1> QED BY <1>1, <1>2

\* They hold at the beginning.
LEMMA QueryTypesAtFirst == Queries!Init => QueryTypes
<1> SUFFICES ASSUME Queries!Init PROVE QueryTypes
  OBVIOUS
<1>1. /\ now = 1 /\ buckets = [b \in Queries!Slot |-> Queries!Free]
      /\ answered = [a \in Address |-> << >>]
  BY DEF Queries!Init
<1>2. 1 <= QueryTime /\ CharRange \div 2 \in Nat /\ CharRange \div 2 > 0 /\ Period \in Nat
  BY QueriesAssumed, RateConstants, MaxBurst DEF Queries!RateAssumption
<1>3. Timely(Queries!Free, 1)
  BY <1>2 DEF Timely, Queries!Free
<1> QED BY <1>1, <1>2, <1>3 DEF QueryTypes

\* Together they are the types of RateLimit.
LEMMA QueryTypesAreAll == ASSUME RateInv, QueryTypes PROVE Queries!TypeOK
<1>1. /\ Chained(buckets, heads) /\ now \in Nat \ {0} /\ sure \subseteq Address
      /\ answered \in [Address -> Seq(Nat)] /\ asked \in [Address -> Nat]
      /\ \A a \in Address : asked[a] <= now /\ Recently(answered[a], asked[a], now)
  BY DEF RateInv
<1>2. /\ now <= QueryTime
      /\ \A b \in Queries!Slot : Timely(buckets[b], now)
      /\ \A a \in Address : \A i \in 1 .. Len(answered[a]) : answered[a][i] # 0
  BY DEF QueryTypes
<1>3. now \in 1 .. QueryTime
  <2>1. QueryTime \in Nat
    BY QueriesAssumed DEF Queries!RateAssumption
  <2> QED BY <1>1, <1>2, <2>1
<1>4. ASSUME NEW b \in Queries!Slot
      PROVE  buckets[b] \in
               [address : Address \cup {"none"}, lastTime : 0 .. QueryTime + Period,
                burst : -(CharRange \div 2) .. (CharRange \div 2) - 1,
                hash : Hashes \cup {0}, prev : Link, next : Link]
  <2>1. buckets[b] \in Bucket /\ LinkedAt(buckets, heads, b)
    BY <1>1 DEF Chained
  <2>2. Timely(buckets[b], now)
    BY <1>2
  <2>3. buckets[b].lastTime \in 0 .. QueryTime + Period
    <3>1. QueryTime \in Nat /\ Period \in Nat
      BY QueriesAssumed, RateConstants DEF Queries!RateAssumption
    <3> QED BY <1>3, <2>2, <3>1 DEF Timely
  <2>4. buckets[b].hash \in Hashes \cup {0}
    <3>1. CASE Used(buckets, b)
      <4>1. buckets[b].address \in Address
        BY <2>1, <3>1 DEF Used, Bucket
      <4> QED BY <2>1, <3>1, <4>1 DEF LinkedAt, Hashes
    <3>2. CASE ~Used(buckets, b)
      BY <2>1, <3>2 DEF LinkedAt, Queries!Free
    <3> QED BY <3>1, <3>2
  <2>5. buckets[b].burst \in -(CharRange \div 2) .. (CharRange \div 2) - 1
    BY <2>2 DEF Timely
  <2> QED BY <2>1, <2>3, <2>4, <2>5 DEF Bucket
<1>5. ASSUME NEW a \in Address PROVE answered[a] \in Seq(1 .. now) /\ asked[a] \in 0 .. now
  <2>1. answered[a] \in Seq(Nat) /\ asked[a] \in Nat /\ asked[a] <= now
    BY <1>1
  <2>2. \A i \in 1 .. Len(answered[a]) : answered[a][i] <= asked[a] /\ answered[a][i] # 0
    BY <1>1, <1>2 DEF Recently
  <2>3. \A i \in 1 .. Len(answered[a]) : answered[a][i] \in 1 .. now
    BY <1>1, <2>1, <2>2
  <2>4. answered[a] \in Seq(1 .. now)
    <3>1. PICK s : s = answered[a]
      OBVIOUS
    <3>2. s \in [1 .. Len(s) -> Nat] /\ Len(s) \in Nat
      BY <2>1, <3>1, LenProperties
    <3>3. s \in [1 .. Len(s) -> 1 .. now]
      BY <2>3, <3>1, <3>2
    <3>4. s \in UNION {[1 .. n -> 1 .. now] : n \in Nat}
      BY <3>2, <3>3
    <3> QED BY <3>1, <3>4, SeqDef, Zenon
  <2> QED BY <1>1, <2>1, <2>4
<1>6. /\ buckets \in [Queries!Slot -> [address : Address \cup {"none"}, lastTime : 0 .. QueryTime + Period,
                burst : -(CharRange \div 2) .. (CharRange \div 2) - 1,
                hash : Hashes \cup {0}, prev : Link, next : Link]]
      /\ heads \in [Hashes -> Link]
  BY <1>1, <1>4 DEF Chained
<1> QED BY <1>1, <1>3, <1>5, <1>6, Zenon DEF Queries!TypeOK, Hashes, Link

-----------------------------------------------------------------------------
(* The changes of names.                                                   *)

ConfigP == INSTANCE ConfigDataProofs

\* The two instances of ConfigData begin alike.
LEMMA ConfigInitSame == Config!Init => ConfigP!Init
BY DEF Config!Init, ConfigP!Init

\* What the two write to a client is the same.
LEMMA ConfigMessagesSame ==
  /\ Config!Dropped = ConfigP!Dropped /\ Config!Messages = ConfigP!Messages
  /\ \A w, m : Config!Put(w, m) = ConfigP!Put(w, m)
BY Zenon DEF Config!Dropped, ConfigP!Dropped, Config!Messages, ConfigP!Messages, Config!Message,
   ConfigP!Message, Config!Put, ConfigP!Put, Config!Due, ConfigP!Due, Config!Overtaken,
   ConfigP!Overtaken, Config!Updates, ConfigP!Updates, Config!NameOf, ConfigP!NameOf

\* The two take the same steps.
LEMMA ConfigNextSame == Config!Next => ConfigP!Next
<1>1. ASSUME NEW x, Config!Connect(x) \/ Config!Announce(x) \/ Config!Rename(x) \/ Config!Leave(x)
      PROVE  ConfigP!Connect(x) \/ ConfigP!Announce(x) \/ ConfigP!Rename(x) \/ ConfigP!Leave(x)
  BY <1>1, Zenon
     DEF Config!Connect, ConfigP!Connect, Config!Announce, ConfigP!Announce, Config!Rename,
         ConfigP!Rename, Config!Leave, ConfigP!Leave, Config!MayChange, ConfigP!MayChange,
         Config!Change, ConfigP!Change
<1>2. Config!RenameSelf => ConfigP!RenameSelf
  BY DEF Config!RenameSelf, ConfigP!RenameSelf, Config!MayChange, ConfigP!MayChange, Config!Change,
         ConfigP!Change
<1>3. Config!SendClientSnapshot => ConfigP!SendClientSnapshot
  BY ConfigMessagesSame DEF Config!SendClientSnapshot, ConfigP!SendClientSnapshot,
     Config!SendMessage, ConfigP!SendMessage
<1>4. Config!DropClient => ConfigP!DropClient
  BY DEF Config!DropClient, ConfigP!DropClient
<1>5. Config!SpawnServer => ConfigP!SpawnServer
  BY ConfigMessagesSame DEF Config!SpawnServer, ConfigP!SpawnServer
<1>6. Config!PacketsArrive => ConfigP!PacketsArrive
  BY Zenon
     DEF Config!PacketsArrive, ConfigP!PacketsArrive, Config!PacketEvent, ConfigP!PacketEvent,
         Config!Acknowledged, ConfigP!Acknowledged, Config!ExecuteClientMessage,
         ConfigP!ExecuteClientMessage, Config!SendClientGameState, ConfigP!SendClientGameState,
         Config!Change, ConfigP!Change, Config!Known, ConfigP!Known, Config!Max, ConfigP!Max
<1>7. Config!MessagesArrive => ConfigP!MessagesArrive
  BY Zenon
     DEF Config!MessagesArrive, ConfigP!MessagesArrive, Config!ClientReads, ConfigP!ClientReads,
         Config!Updated, ConfigP!Updated, Config!serverVars, ConfigP!serverVars, Config!Max,
         ConfigP!Max
<1>8. Config!ClientTakesGameState => ConfigP!ClientTakesGameState
  BY DEF Config!ClientTakesGameState, ConfigP!ClientTakesGameState, Config!serverVars,
         ConfigP!serverVars
<1>9. Config!ClientSends => ConfigP!ClientSends
  BY ConfigMessagesSame DEF Config!ClientSends, ConfigP!ClientSends, Config!serverVars,
     ConfigP!serverVars
<1> QED BY <1>1, <1>2, <1>3, <1>4, <1>5, <1>6, <1>7, <1>8, <1>9 DEF Config!Next, ConfigP!Next

\* The invariant of ConfigData, while that part is at work.
ConfigIInv == component = "config" => ConfigP!IInv

\* It holds of the parts together.
LEMMA ConfigHolds == Spec => []ConfigIInv
<1>1. ConfigP!ConfigAssumption
  BY ConfigAssumed DEF Config!ConfigAssumption, ConfigP!ConfigAssumption
<1>2. Init => ConfigIInv
  BY <1>1, ConfigInitSame, ConfigP!InitHolds DEF Init, ConfigIInv
<1>3. ASSUME ConfigIInv, [Next]_vars PROVE ConfigIInv'
  <2>1. SUFFICES ASSUME component = "config" PROVE ConfigP!IInv'
    BY <1>3, OnePart DEF ConfigIInv
  <2>2. [ConfigP!Next]_(ConfigP!vars)
    BY <1>3, <2>1, OnePart, ConfigNextSame DEF Config!vars, ConfigP!vars, Config!serverVars,
       ConfigP!serverVars
  <2> QED BY <1>1, <1>3, <2>1, <2>2, ConfigP!NextKeeps DEF ConfigIInv
<1> QED BY <1>2, <1>3, PTL DEF Spec

\* NamesCurrent: a client that has the number of the last change of another has its name
\* (SV_UpdateConfigData, SV_WriteGameState).
THEOREM NamesStayCurrent == Spec => []NamesCurrent
<1>1. ConfigIInv => NamesCurrent
  BY DEF ConfigIInv, NamesCurrent, ConfigP!IInv, ConfigP!NamesCurrent, Config!NamesCurrent
<1> QED BY <1>1, ConfigHolds, PTL

\* AcknowledgeBacked: the server believes that the client has no more of the changes than it
\* has, or will get with a gamestate that is under way (SV_PacketEvent).
THEOREM AcknowledgesBacked == Spec => []AcknowledgeBacked
<1>1. ConfigIInv => AcknowledgeBacked
  BY DEF ConfigIInv, AcknowledgeBacked, ConfigP!IInv, ConfigP!AcknowledgeBacked,
     Config!AcknowledgeBacked
<1> QED BY <1>1, ConfigHolds, PTL

-----------------------------------------------------------------------------
(* Messages over the reliable channel.                                     *)

FramingP == INSTANCE ReliableFramingProofs WITH MaxMessages <- FramingMessages

\* The two instances of ReliableFraming begin alike, and send alike.
LEMMA FramingSendsSame ==
  /\ Framing!Init => FramingP!Init
  /\ Framing!Sends => FramingP!Sends
<1>1. Framing!Init => FramingP!Init
  BY DEF Framing!Init, FramingP!Init
<1>2. Framing!Sends => FramingP!Sends
  BY Zenon
  DEF Framing!Sends, FramingP!Sends, Framing!SendReliableServerCommand,
      FramingP!SendReliableServerCommand, Framing!Fragments, FramingP!Fragments, Framing!Message,
      FramingP!Message, Framing!FragmentCount, FramingP!FragmentCount, Framing!Min, FramingP!Min
<1> QED BY <1>1, <1>2

\* They read alike.
LEMMA FramingReadsSame ==
  /\ \A s, i : Framing!Available(s, i) = FramingP!Available(s, i)
  /\ \A s, length :
       Framing!ReliableMessageReceive(s, length) = FramingP!ReliableMessageReceive(s, length)
  /\ \A data : Framing!MessageSize(data) = FramingP!MessageSize(data)
<1>1. \A s, i : Framing!Available(s, i) = FramingP!Available(s, i)
  BY Zenon DEF Framing!Available, FramingP!Available
<1>2. \A S : Framing!Min(S) = FramingP!Min(S)
  BY Zenon DEF Framing!Min, FramingP!Min
<1>3. ASSUME NEW s, NEW length
      PROVE  Framing!ReliableMessageReceive(s, length) = FramingP!ReliableMessageReceive(s, length)
  <2>1. PICK enough :
          enough = {i \in 0 .. Len(s.arrived) : Len(Framing!Available(s, i)) >= length}
    OBVIOUS
  <2>2. enough = {i \in 0 .. Len(s.arrived) : Len(FramingP!Available(s, i)) >= length}
    BY <1>1, <2>1
  <2>3. PICK used : used = IF enough = {} THEN Len(s.arrived) ELSE Framing!Min(enough)
    OBVIOUS
  <2>4. used = IF enough = {} THEN Len(s.arrived) ELSE FramingP!Min(enough)
    BY <1>2, <2>3, Zenon
  <2>5. PICK bytes : bytes = Framing!Available(s, used)
    OBVIOUS
  <2>6. bytes = FramingP!Available(s, used)
    BY <1>1, <2>5, Zenon
  <2>7. PICK n : n = Framing!Min({length, Len(bytes)})
    OBVIOUS
  <2>8. n = FramingP!Min({length, Len(bytes)})
    BY <1>2, <2>7, Zenon
  <2>9. Framing!ReliableMessageReceive(s, length) =
          [s EXCEPT !.cl.data = @ \o SubSeq(bytes, 1, n),
                    !.cl.rest = SubSeq(bytes, n + 1, Len(bytes)),
                    !.arrived = SubSeq(@, used + 1, Len(@))]
    BY <2>1, <2>3, <2>5, <2>7, Zenon DEF Framing!ReliableMessageReceive
  <2>10. FramingP!ReliableMessageReceive(s, length) =
          [s EXCEPT !.cl.data = @ \o SubSeq(bytes, 1, n),
                    !.cl.rest = SubSeq(bytes, n + 1, Len(bytes)),
                    !.arrived = SubSeq(@, used + 1, Len(@))]
    BY <2>2, <2>4, <2>6, <2>8, Zenon DEF FramingP!ReliableMessageReceive
  <2> QED BY <2>9, <2>10, Zenon
<1>4. \A data : Framing!MessageSize(data) = FramingP!MessageSize(data)
  BY Zenon DEF Framing!MessageSize, FramingP!MessageSize
<1> QED BY <1>1, <1>3, <1>4

\* A round is the same.
LEMMA FramingRoundSame ==
  \A s, fatal, malloced : Framing!Round(s, fatal, malloced) = FramingP!Round(s, fatal, malloced)
<1>1. /\ \A s, size, malloced :
           Framing!Relocated(s, size, malloced) = FramingP!Relocated(s, size, malloced)
      /\ \A s : Framing!Dropped(s) = FramingP!Dropped(s)
  BY Zenon
  DEF Framing!Relocated, FramingP!Relocated, Framing!Dropped, FramingP!Dropped,
      Framing!Disconnected, FramingP!Disconnected, Framing!Max, FramingP!Max
<1>2. \A s, fatal : Framing!Execute(s, fatal) = FramingP!Execute(s, fatal)
  BY Zenon
  DEF Framing!Execute, FramingP!Execute, Framing!Dropped, FramingP!Dropped,
      Framing!Disconnected, FramingP!Disconnected
<1>3. ASSUME NEW s, NEW fatal, NEW malloced
      PROVE  Framing!Round(s, fatal, malloced) = FramingP!Round(s, fatal, malloced)
  <2>1. PICK headed :
          headed = IF s.cl.data = << >> THEN Framing!ReliableMessageReceive(s, HeadSize) ELSE s
    OBVIOUS
  <2>2. headed = IF s.cl.data = << >> THEN FramingP!ReliableMessageReceive(s, HeadSize) ELSE s
    BY <2>1, FramingReadsSame, Zenon
  <2>3. PICK size : size = Framing!MessageSize(headed.cl.data)
    OBVIOUS
  <2>4. size = FramingP!MessageSize(headed.cl.data)
    BY <2>3, FramingReadsSame, Zenon
  <2>5. PICK whole : whole = size + HeadSize
    OBVIOUS
  <2>6. PICK grown :
          grown = IF whole > headed.cl.maxsize THEN Framing!Relocated(headed, whole, malloced)
                  ELSE headed
    OBVIOUS
  <2>7. grown = IF whole > headed.cl.maxsize THEN FramingP!Relocated(headed, whole, malloced)
                ELSE headed
    BY <1>1, <2>6, Zenon
  <2>8. PICK filled :
          filled = Framing!ReliableMessageReceive(grown, whole - Len(grown.cl.data))
    OBVIOUS
  <2>9. filled = FramingP!ReliableMessageReceive(grown, whole - Len(grown.cl.data))
    BY <2>8, FramingReadsSame, Zenon
  <2>10. Framing!Round(s, fatal, malloced) =
           CASE headed.cl.data = << >> ->
                  [Framing!Relocated(headed, DefaultSize, malloced) EXCEPT !.again = FALSE]
             [] headed.cl.data # << >> /\ size < 0 -> [headed EXCEPT !.again = FALSE]
             [] size >= 0 /\ Len(headed.cl.data) >= whole -> Framing!Execute(headed, fatal)
             [] size >= 0 /\ Len(headed.cl.data) < whole /\ whole > grown.cl.maxsize ->
                  Framing!Dropped(headed)
             [] OTHER -> IF Len(filled.cl.data) < whole THEN [filled EXCEPT !.again = FALSE]
                         ELSE Framing!Execute(filled, fatal)
    BY <2>1, <2>3, <2>5, <2>6, <2>8, Zenon DEF Framing!Round
  <2>11. FramingP!Round(s, fatal, malloced) =
           CASE headed.cl.data = << >> ->
                  [FramingP!Relocated(headed, DefaultSize, malloced) EXCEPT !.again = FALSE]
             [] headed.cl.data # << >> /\ size < 0 -> [headed EXCEPT !.again = FALSE]
             [] size >= 0 /\ Len(headed.cl.data) >= whole -> FramingP!Execute(headed, fatal)
             [] size >= 0 /\ Len(headed.cl.data) < whole /\ whole > grown.cl.maxsize ->
                  FramingP!Dropped(headed)
             [] OTHER -> IF Len(filled.cl.data) < whole THEN [filled EXCEPT !.again = FALSE]
                         ELSE FramingP!Execute(filled, fatal)
    BY <2>2, <2>4, <2>5, <2>7, <2>9, Zenon DEF FramingP!Round
  <2> QED BY <1>1, <1>2, <2>10, <2>11, Zenon
<1> QED BY <1>3

\* They receive alike.
LEMMA FramingReceivesSame == Framing!ReceivesSome => FramingP!ReceivesSome
<1>1. ASSUME NEW s, NEW fatal, NEW malloced
      PROVE  Framing!ReceiveReliableMessages(s, fatal, malloced) =
             FramingP!ReceiveReliableMessages(s, fatal, malloced)
  <2>1. \A t, size : Framing!Relocated(t, size, TRUE) = FramingP!Relocated(t, size, TRUE)
    BY Zenon DEF Framing!Relocated, FramingP!Relocated, Framing!Max, FramingP!Max
  <2>2. PICK begun :
          begun = IF s.cl.maxsize < FragmentSize THEN Framing!Relocated(s, FragmentSize, TRUE)
                  ELSE s
    OBVIOUS
  <2>3. begun = IF s.cl.maxsize < FragmentSize THEN FramingP!Relocated(s, FragmentSize, TRUE)
                ELSE s
    BY <2>1, <2>2, Zenon
  <2>4. PICK most : most = Len(Framing!Available(s, Len(s.arrived))) + 2
    OBVIOUS
  <2>5. most = Len(FramingP!Available(s, Len(s.arrived))) + 2
    BY <2>4, FramingReadsSame, Zenon
  <2>6. PICK rounds :
          rounds = CHOOSE g : g = [k \in 0 .. most |->
            IF k = 0 THEN begun
            ELSE IF g[k - 1].again THEN Framing!Round(g[k - 1], fatal, malloced) ELSE g[k - 1]]
    OBVIOUS
  <2>7. rounds = CHOOSE g : g = [k \in 0 .. most |->
          IF k = 0 THEN begun
          ELSE IF g[k - 1].again THEN FramingP!Round(g[k - 1], fatal, malloced) ELSE g[k - 1]]
    <3>1. \A g :
            [k \in 0 .. most |->
               IF k = 0 THEN begun
               ELSE IF g[k - 1].again THEN Framing!Round(g[k - 1], fatal, malloced) ELSE g[k - 1]] =
            [k \in 0 .. most |->
               IF k = 0 THEN begun
               ELSE IF g[k - 1].again THEN FramingP!Round(g[k - 1], fatal, malloced) ELSE g[k - 1]]
      BY FramingRoundSame
    <3> QED BY <2>6, <3>1, Zenon
  <2>8. Framing!ReceiveReliableMessages(s, fatal, malloced) = rounds[most]
    BY <2>2, <2>4, <2>6, Zenon DEF Framing!ReceiveReliableMessages
  <2>9. FramingP!ReceiveReliableMessages(s, fatal, malloced) = rounds[most]
    BY <2>3, <2>5, <2>7, Zenon DEF FramingP!ReceiveReliableMessages
  <2> QED BY <2>8, <2>9
<1>2. Framing!Min({RxWindow, Len(stream)}) = FramingP!Min({RxWindow, Len(stream)})
  BY Zenon DEF Framing!Min, FramingP!Min
<1> QED BY <1>1, <1>2
    DEF Framing!ReceivesSome, FramingP!ReceivesSome, Framing!Receives, FramingP!Receives

\* The invariant of ReliableFraming, while that part is at work.
FramingIInv == component = "framing" => FramingP!IInv

\* It holds of the parts together.
LEMMA FramingHolds == Spec => []FramingIInv
<1>1. FramingP!SizesAssumption
  BY FramingAssumed DEF Framing!SizesAssumption, FramingP!SizesAssumption
<1>2. Init => FramingIInv
  BY <1>1, FramingSendsSame, FramingP!InitHolds DEF Init, FramingIInv
<1>3. ASSUME FramingIInv, [Next]_vars PROVE FramingIInv'
  <2>1. SUFFICES ASSUME component = "framing" PROVE FramingP!IInv'
    BY <1>3, OnePart DEF FramingIInv
  <2>2. FramingP!Next \/ UNCHANGED FramingP!vars
    <3>1. [Framing!Next]_(Framing!vars)
      BY <1>3, <2>1, OnePart
    <3> QED BY <3>1, FramingSendsSame, FramingReceivesSame
        DEF Framing!Next, FramingP!Next, Framing!vars, FramingP!vars
  <2> QED BY <1>1, <1>3, <2>1, <2>2, FramingP!NextKeeps, FramingP!StutterKeeps DEF FramingIInv
<1> QED BY <1>2, <1>3, PTL DEF Spec

\* MessagesWhole: messages over the reliable channel are executed as they were sent, each once
\* and in order, up to one that was taken only in part, and none waits for another
\* (SV_SendReliableServerCommand, SV_ReceiveReliableMessages).
THEOREM MessagesStayWhole == Spec => []MessagesWhole
<1>1. FramingP!SizesAssumption
  BY FramingAssumed DEF Framing!SizesAssumption, FramingP!SizesAssumption
<1>2. FramingP!MessagesWhole => Framing!MessagesWhole
  BY Zenon DEF FramingP!MessagesWhole, Framing!MessagesWhole, FramingP!Message, Framing!Message
<1>3. FramingIInv => MessagesWhole
  BY <1>1, <1>2, FramingP!IInvWhole DEF FramingIInv, MessagesWhole
<1> QED BY <1>3, FramingHolds, PTL

-----------------------------------------------------------------------------
(* The types.                                                              *)

\* The types of the queries, and the parts there are.
TypesIInv ==
  /\ component \in {"snapshots", "config", "queries", "commands", "downloads", "framing"}
  /\ component = "queries" => QueryTypes

\* They stay.
LEMMA TypesHold == Spec => []TypesIInv
<1>1. Init => TypesIInv
  BY QueryTypesAtFirst DEF Init, TypesIInv
<1>2. ASSUME TypesIInv, RateIInv, [Next]_vars PROVE TypesIInv'
  <2>1. component' = component
    BY <1>2, OnePart
  <2>2. SUFFICES ASSUME component = "queries" PROVE QueryTypes'
    BY <1>2, <2>1 DEF TypesIInv
  <2> QED BY <1>2, <2>2, OnePart, QueryNextKeepsTypes DEF TypesIInv, RateIInv
<1> QED BY <1>1, <1>2, RateHold, PTL DEF Spec

\* TypeOK: each part keeps its variables in their types; in Downloads that the count of what was
\* sent stays an int, whatever part a client asks for; in RateLimit that a level stays a
\* signed char and a time, which an interval that has gone round may put ahead, is never more
\* than a period ahead.
THEOREM TypesKept == Spec => []TypeOK
<1>1. ASSUME TypesIInv, SnapshotsIInv, ConfigIInv, RateIInv, CommandsIInv, FetchingIInv, FramingIInv
      PROVE  TypeOK
  <2>1. component = "snapshots" => Snapshots!TypeOK
    BY <1>1 DEF SnapshotsIInv, SnapshotsInv
  <2>2. component = "config" => Config!TypeOK
    <3>1. component = "config" => ConfigP!TypeOK
      BY <1>1 DEF ConfigIInv, ConfigP!IInv
    <3> QED BY <3>1 DEF ConfigP!TypeOK, Config!TypeOK, ConfigP!Update, Config!Update
  <2>3. component = "queries" => Queries!TypeOK
    BY <1>1, QueryTypesAreAll DEF RateIInv, TypesIInv
  <2>4. component = "commands" => Commands!TypeOK
    BY <1>1 DEF CommandsIInv, CommandsInv
  <2>5. component = "downloads" => Fetching!TypeOK
    BY <1>1 DEF FetchingIInv, DownloadsInv
  <2>6. component = "framing" => Framing!TypeOK
    <3>1. component = "framing" => FramingP!TypeOK
      BY <1>1, FramingAssumed, FramingP!IInvTyped
      DEF FramingIInv, Framing!SizesAssumption, FramingP!SizesAssumption
    <3> QED BY <3>1 DEF FramingP!TypeOK, Framing!TypeOK
  <2> QED BY <1>1, <2>1, <2>2, <2>3, <2>4, <2>5, <2>6, Zenon DEF TypeOK, TypesIInv
<1> QED BY <1>1, TypesHold, SnapshotsHold, ConfigHolds, RateHold, CommandsHold, FetchingHolds,
           FramingHolds, PTL

=============================================================================
