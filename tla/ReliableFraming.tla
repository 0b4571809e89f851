---------------------------- MODULE ReliableFraming ----------------------------
(***************************************************************************)
(* Messages over the reliable channel.                                     *)
(*                                                                         *)
(* The channel (ReliableTransport, ReliableStream) carries fragments.  A   *)
(* message is sent with its length in front of it and cut into fragments   *)
(* (SV_SendReliableServerCommand, ReliableMessageSend); the other end asks *)
(* for four bytes, and then for as many as they say, and keeps what it has *)
(* of a message until the rest arrives (SV_ReceiveReliableMessages).       *)
(*                                                                         *)
(* One direction of one channel is modelled, with this code at both ends:  *)
(* the client, which is not part of the repository, is taken to send as    *)
(* the server does.  A byte is the message it belongs to and its place in  *)
(* it.  If memory is short the channel takes less than a message, and the  *)
(* sender does not look: what follows is then read out of step.            *)
(*                                                                         *)
(* Not modelled: what the messages say, but that one may get the client    *)
(* dropped, and the failure of the first allocation.                       *)
(***************************************************************************)
EXTENDS Integers, Sequences, FiniteSetsExt

CONSTANTS
  HeadSize,          \* the length in front of a message: 4 bytes
  FragmentSize,  \* MAX_FRAGMENT_SIZE
  DefaultSize,   \* RNET_DEFAULT_BUFFER_SIZE
  RxWindow,      \* rxwindow.windowsize, 4 in the code
  Lengths,       \* the lengths of messages
  Misread,       \* what bytes are read as that are not a length
  MaxMessages    \* bound: messages

SizesAssumption ==
  /\ HeadSize \in Nat \ {0} /\ FragmentSize \in Nat /\ DefaultSize \in Nat
  /\ FragmentSize >= HeadSize /\ DefaultSize >= FragmentSize
  /\ Lengths \subseteq Nat /\ Misread \in Int /\ RxWindow \in Nat \ {0} /\ MaxMessages \in Nat

VARIABLES
  cl,        \* the client_t: connected, and of reliablemsg
             \*   data, maxsize   recvbuffer
             \*   rest            what is not read yet of rxwindow.fragmentbuffer
  sent,      \* history: the lengths of the messages
  cut,       \* history: the first message that was taken only in part, 0: none
  stream,    \* the fragments on their way
  executed   \* history: the messages executed

vars == <<cl, sent, cut, stream, executed>>

-----------------------------------------------------------------------------
(* The sender.                                                             *)

\* Message i with its length in front.
Message(i, length) == [k \in 1 .. HeadSize + length |-> <<i, k>>]

\* The first n fragments of a message.
Fragments(message, n) ==
  [f \in 1 .. n |-> SubSeq(message, (f - 1) * FragmentSize + 1,
                           Min({f * FragmentSize, Len(message)}))]

\* How many fragments a message takes.
FragmentCount(length) == (HeadSize + length + FragmentSize - 1) \div FragmentSize

\* SV_SendReliableServerCommand.  ReliableMessageSend takes fewer fragments when there is
\* no memory for a larger ring.
SendReliableServerCommand(length, accepted) ==
  /\ Len(sent) < MaxMessages
  /\ sent' = Append(sent, length)
  /\ stream' = stream \o Fragments(Message(Len(sent'), length), accepted)
  /\ cut' = IF cut = 0 /\ accepted < FragmentCount(length) THEN Len(sent') ELSE cut
  /\ UNCHANGED <<cl, executed>>

Sends ==
  /\ cl.connected
  /\ \E length \in Lengths : \E accepted \in 0 .. FragmentCount(length) :
       SendReliableServerCommand(length, accepted)

-----------------------------------------------------------------------------
(* The receiver.  The state of a call: the client_t, the fragments that    *)
(* have arrived in the window, what is executed, and whether the loop goes *)
(* on.                                                                     *)

\* What there is to read up to fragment i.
Available(s, i) ==
  LET joined[k \in 0 .. Len(s.arrived)] == IF k = 0 THEN s.cl.rest ELSE joined[k - 1] \o s.arrived[k]
  IN  joined[i]

\* A slip of ReliableMessageReceive: what is left of a fragment is not kept.
ReceiveForgetting(s, length) ==
  LET enough == {i \in 0 .. Len(s.arrived) : Len(Available(s, i)) >= length}
      used == IF enough = {} THEN Len(s.arrived) ELSE Min(enough)
      bytes == Available(s, used)
      n == Min({length, Len(bytes)})
  IN  [s EXCEPT !.cl.data = @ \o SubSeq(bytes, 1, n), !.cl.rest = << >>,
                !.arrived = SubSeq(@, used + 1, Len(@))]

\* At most so many bytes, from the rest of the last fragment and as many fragments as it
\* takes; what is left of the last one becomes the rest.
ReliableMessageReceive(s, length) ==
  LET enough == {i \in 0 .. Len(s.arrived) : Len(Available(s, i)) >= length}
      used == IF enough = {} THEN Len(s.arrived) ELSE Min(enough)
      bytes == Available(s, used)
      n == Min({length, Len(bytes)})
  IN  [s EXCEPT !.cl.data = @ \o SubSeq(bytes, 1, n),
                !.cl.rest = SubSeq(bytes, n + 1, Len(bytes)),
                !.arrived = SubSeq(@, used + 1, Len(@))]

\* MSG_ReadLong at the beginning of the buffer.
MessageSize(data) ==
  CASE Len(data) < HeadSize -> -1
    [] Len(data) >= HeadSize /\ \A k \in 1 .. HeadSize : data[k] = <<data[1][1], k>> ->
         sent[data[1][1]]
    [] OTHER -> Misread

\* SV_DisconnectReliableMessageProtocol.
Disconnected(c) == [c EXCEPT !.connected = FALSE, !.data = << >>, !.maxsize = 0, !.rest = << >>]

\* SV_DropClient, in the middle of a call.
Dropped(s) == [s EXCEPT !.cl = Disconnected(@), !.arrived = << >>, !.again = FALSE]

\* SV_RelocateReliableMessageProtocolBuffer.
Relocated(s, size, malloced) ==
  [s EXCEPT !.cl.maxsize = IF malloced THEN Max({size, Len(s.cl.data)}) ELSE @]

\* SV_ExecuteReliableMessage and MSG_Clear; message number "fatal" gets the client dropped.
Execute(s, fatal) ==
  LET done == [s EXCEPT !.executed = Append(@, s.cl.data)]
  IN  IF Len(done.executed) = fatal THEN Dropped(done) ELSE [done EXCEPT !.cl.data = << >>]

\* One round of the loop in SV_ReceiveReliableMessages.
Round(s, fatal, malloced) ==
  LET headed == IF s.cl.data = << >> THEN ReliableMessageReceive(s, HeadSize) ELSE s
      size == MessageSize(headed.cl.data)
      whole == size + HeadSize
      grown == IF whole > headed.cl.maxsize THEN Relocated(headed, whole, malloced) ELSE headed
      filled == ReliableMessageReceive(grown, whole - Len(grown.cl.data))
  IN  CASE headed.cl.data = << >> ->
             [Relocated(headed, DefaultSize, malloced) EXCEPT !.again = FALSE]
        [] headed.cl.data # << >> /\ size < 0 -> [headed EXCEPT !.again = FALSE]
        [] size >= 0 /\ Len(headed.cl.data) >= whole -> Execute(headed, fatal)
        [] size >= 0 /\ Len(headed.cl.data) < whole /\ whole > grown.cl.maxsize -> Dropped(headed)
        [] OTHER -> IF Len(filled.cl.data) < whole THEN [filled EXCEPT !.again = FALSE]
                    ELSE Execute(filled, fatal)

\* SV_ReceiveReliableMessages for the state s; a round that goes on has executed a message.
ReceiveReliableMessages(s, fatal, malloced) ==
  LET begun == IF s.cl.maxsize < FragmentSize THEN Relocated(s, FragmentSize, TRUE) ELSE s
      most == Len(Available(s, Len(s.arrived))) + 2
      rounds[k \in 0 .. most] ==
        IF k = 0 THEN begun
        ELSE LET before == rounds[k - 1]
             IN  IF before.again THEN Round(before, fatal, malloced) ELSE before
  IN  rounds[most]

\* SV_SendClientMessages calls it in every frame, with n fragments in the window.
Receives(n, fatal, malloced) ==
  LET s == ReceiveReliableMessages(
             [cl |-> cl, arrived |-> SubSeq(stream, 1, n), executed |-> executed, again |-> TRUE],
             fatal, malloced)
  IN  /\ cl' = s.cl /\ executed' = s.executed
      /\ stream' = IF s.cl.connected THEN SubSeq(stream, n - Len(s.arrived) + 1, Len(stream))
                   ELSE << >>
      /\ UNCHANGED <<sent, cut>>

ReceivesSome ==
  \E n \in 0 .. Min({RxWindow, Len(stream)}),
     fatal \in {0} \cup Len(executed) + 1 .. Len(sent), malloced \in BOOLEAN :
    Receives(n, fatal, malloced)

-----------------------------------------------------------------------------
\* SV_SetupReliableMessageProtocol: it goes on without a buffer if there is no memory.
Init ==
  /\ cl \in [connected : {TRUE}, data : {<< >>}, maxsize : {0, DefaultSize}, rest : {<< >>}]
  /\ sent = << >> /\ cut = 0 /\ stream = << >> /\ executed = << >>

Next ==
  \/ Sends
  \/ ReceivesSome

Spec == Init /\ [][Next]_vars

-----------------------------------------------------------------------------
(* What must hold.                                                         *)

\* The types of the variables; the buffer is large enough for what it holds, and what is
\* left of a fragment is less than one.
TypeOK ==
  /\ cl.connected \in BOOLEAN /\ cl.maxsize \in Nat
  /\ Len(cl.data) <= cl.maxsize /\ Len(cl.rest) < FragmentSize
  /\ sent \in Seq(Lengths) /\ cut \in 0 .. Len(sent)
  /\ \A f \in 1 .. Len(stream) : Len(stream[f]) \in 1 .. FragmentSize
  /\ ~cl.connected => stream = << >> /\ cl.data = << >>

\* Wherever the fragments break a message and however many arrive at a time, messages are
\* executed as they were sent, each once and in order, up to one that the channel took
\* only in part; and a message that has arrived does not wait for another.
MessagesWhole ==
  /\ \A i \in 1 .. Len(executed) : cut = 0 \/ i < cut => executed[i] = Message(i, sent[i])
  /\ cl.connected /\ cut = 0 /\ stream = << >> => Len(executed) = Len(sent)
=============================================================================
