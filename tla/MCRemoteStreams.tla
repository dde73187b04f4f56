--------------------------- MODULE MCRemoteStreams ---------------------------
(* RemoteStreams for TLC: s1 has two events, the second a terminal one, and  *)
(* s2 has one that is not.                                                   *)
EXTENDS RemoteStreams
CONSTANTS s1, s2
MCEvents == [s \in Streams |-> IF s = s1 THEN 2 ELSE 1]
=============================================================================
