--------------------------- MODULE MCMessageStream ---------------------------
(***************************************************************************)
(* Two Devices of alice and one of bob.  Both of alice's retry one key at   *)
(* the same time, into the same Conversation and into another one, while    *)
(* bob reads, leaves, comes back, and the Conversation may be dissolved.    *)
(***************************************************************************)
EXTENDS MessageStream, TLC

CONSTANTS a1, a2, b1, alice, bob, v1, v2, k1, k2

MCUserOf == (a1 :> alice) @@ (a2 :> alice) @@ (b1 :> bob)

\* k1 is raced by both Devices, in v1 and across v1 and v2; k2 is a second Message.
MCSends == {<<a1, v1, k1>>, <<a1, v1, k2>>, <<a2, v1, k1>>, <<a2, v2, k1>>}
MCMarks == {<<b1, v1>>}
MCMoves == {<<v1, bob>>}
=============================================================================
