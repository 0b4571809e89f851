---------------------------- MODULE ReliableEnds ----------------------------
(* The two ends of a reliable message channel and what they have to say.   *)
EXTENDS Integers, Sequences

CONSTANTS
  Payload,    \* what a fragment can carry
  Stream      \* Stream[e]: the fragments endpoint e submits, in order

End == {"server", "client"}

Peer(e) == IF e = "server" THEN "client" ELSE "server"

ASSUME StreamAssumption == Stream \in [End -> Seq(Payload)]
=============================================================================
