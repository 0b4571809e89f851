---------------------------- MODULE MCClientSlots ----------------------------
(***************************************************************************)
(* Instances of ClientSlots for TLC: two players behind one router, one    *)
(* elsewhere with an old client.                                           *)
(***************************************************************************)
EXTENDS ClientSlots

CONSTANTS p1, p2, p3

SharedAddress == [p \in Players |-> IF p = p3 THEN "elsewhere" ELSE "shared"]
OnePortEach == [p \in Players |-> IF p = p2 THEN 2 ELSE 1]
SilentTicks == [s \in {"connected", "primed", "active"} |-> IF s = "connected" THEN 1 ELSE 2]
=============================================================================
