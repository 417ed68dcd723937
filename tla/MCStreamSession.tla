--------------------------- MODULE MCStreamSession ---------------------------
(* Small instances of StreamSession.                                       *)
EXTENDS StreamSession

CONSTANTS c, p1, p2, d, v1

\* Every call is about the one conversation.
OneConv == [t \in Threads \cup Readers |-> c]
=============================================================================
