-------------------------- MODULE MCReliableCommands --------------------------
(* Instances of the reliable server commands for TLC.                      *)
EXTENDS ReliableCommands

\* A dvar that the next one replaces, a chat line that may be dropped, and a
\* command that is never replaced.
MixedIssues == {<<"dvar", 1>>, <<"chat", 0>>, <<"restart", 1>>}

FirmIssues == {<<"restart", 1>>}

DvarReplaced == {<<"dvar", "dvar">>}
=============================================================================
