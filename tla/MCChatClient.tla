---------------------------- MODULE MCChatClient ----------------------------
(* Small instances of ChatClient for TLC. *)
EXTENDS ChatClient, TLC

CONSTANTS c1, c2, r1, r2

\* One card, or one in each of two runs.
One == c1 :> r1
OneEach == (c1 :> r1) @@ (c2 :> r2)
=============================================================================
