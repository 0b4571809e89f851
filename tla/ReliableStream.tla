--------------------------- MODULE ReliableStream ---------------------------
(***************************************************************************)
(* What the reliable message channel between the server and one client     *)
(* (net_reliabletransport.c) promises its two users: in each direction, a  *)
(* stream of fragments that comes out in the order it went in, without     *)
(* gap, repetition or damage, and a sender that forgets a fragment only    *)
(* once the other side has handed it to its application.                   *)
(*                                                                         *)
(* No window, buffer, packet or retransmission appears here.               *)
(***************************************************************************)
EXTENDS ReliableEnds

VARIABLES
  submitted,        \* submitted[e]: how many fragments of Stream[e] were accepted
  delivered,        \* delivered[e]: what the application of e has read so far
  confirmed         \* confirmed[e]: how many fragments e no longer keeps

streamVars == <<submitted, delivered, confirmed>>

StreamInit ==
  /\ submitted = [e \in End |-> 0]
  /\ delivered = [e \in End |-> << >>]
  /\ confirmed = [e \in End |-> 0]

Submit(e) ==
  /\ \E n \in submitted[e] + 1 .. Len(Stream[e]) :
       submitted' = [submitted EXCEPT ![e] = n]
  /\ UNCHANGED <<delivered, confirmed>>

\* The application of e reads the next fragments of what its peer submitted.
Read(e) ==
  /\ \E n \in Len(delivered[e]) + 1 .. submitted[Peer(e)] :
       delivered' = [delivered EXCEPT ![e] = SubSeq(Stream[Peer(e)], 1, n)]
  /\ UNCHANGED <<submitted, confirmed>>

Confirm(e) ==
  /\ \E n \in confirmed[e] + 1 .. Len(delivered[Peer(e)]) :
       confirmed' = [confirmed EXCEPT ![e] = n]
  /\ UNCHANGED <<submitted, delivered>>

StreamNext == \E e \in End : Submit(e) \/ Read(e) \/ Confirm(e)

StreamSpec == StreamInit /\ [][StreamNext]_streamVars
=============================================================================
