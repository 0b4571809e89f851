---------------------------- MODULE MessageStream ----------------------------
(***************************************************************************)
(* What the sequenced channel of netchan.c promises: messages may be lost, *)
(* but those that come out were sent, whole, and come out in the order of  *)
(* sending, none of them twice.  Messages are known by their number; no    *)
(* fragment, packet or sequence number appears here.                       *)
(***************************************************************************)
EXTENDS Naturals, Sequences

VARIABLES
  count,          \* how many messages were sent
  arrived         \* the numbers of the messages received, in order

streamVars == <<count, arrived>>

Latest == IF arrived = << >> THEN 0 ELSE arrived[Len(arrived)]

StreamInit == count = 0 /\ arrived = << >>

SendNext == count' = count + 1 /\ UNCHANGED arrived

\* A message arrives; those between the last one and it are lost.
Arrive ==
  /\ \E m \in Latest + 1 .. count : arrived' = Append(arrived, m)
  /\ UNCHANGED count

StreamNext == SendNext \/ Arrive

StreamSpec == StreamInit /\ [][StreamNext]_streamVars
=============================================================================
