---------------------------- MODULE MCNetService ----------------------------
(* A listener, a connect, or the two halves of a connection at work.       *)
EXTENDS NetService
CONSTANTS s1, s2
Each == {{"accept"}, {"connect"}, {"read", "write"}}
Shared == {{"read", "write"}}
=============================================================================
