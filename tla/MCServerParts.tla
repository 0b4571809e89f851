----------------------------- MODULE MCServerParts -----------------------------
(* Values for TLC of the constants of the parts of the server that are records or *)
(* functions; the others are in MCServerParts.cfg.                         *)
EXTENDS ServerParts

\* So many entries of the ring of entities and of the ring of client states.
Entries(e, c) == [entities |-> e, clients |-> c]

RingSizes == Entries(4, 3)

OneIsShown == {Entries(2, 1)}

OthersAreShown == {Entries(0, 0), Entries(1, 2)}

\* All addresses have the same hash.
OneHash == [a \in Address |-> 0]

FileSize == [a |-> 3, b |-> 2, empty |-> 0, old |-> 1]
=============================================================================
