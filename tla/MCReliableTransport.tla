------------------------ MODULE MCReliableTransport ------------------------
(* Instances of the reliable message channel for TLC.                      *)
EXTENDS ReliableTransport

Payloads == {"s1", "s2", "s3", "s4", "s5", "c1", "c2"}

\* Both ends send two fragments.
StreamEven == [e \in End |-> IF e = "server" THEN <<"s1", "s2">> ELSE <<"c1", "c2">>]

\* Only the server sends, enough to go round its ring twice.
StreamServer ==
  [e \in End |-> IF e = "server" THEN <<"s1", "s2", "s3", "s4", "s5">> ELSE << >>]
=============================================================================
