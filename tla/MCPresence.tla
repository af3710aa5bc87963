------------------------------ MODULE MCPresence ------------------------------
(***************************************************************************)
(* Two Devices of alice, one of them with stored Sync Cursors.  Each        *)
(* connects once, at any time, so that the second may overlap the first or  *)
(* replace it; both may close or fall silent at any moment, and one missed  *)
(* heartbeat is tolerated.  Users do not interact: one is enough.           *)
(***************************************************************************)
EXTENDS Presence, TLC

CONSTANTS a1, a2, alice

MCUserOf == [c \in {a1, a2} |-> alice]

MCEnds == [c \in {a1, a2} |-> {"silent", "shut"}]
=============================================================================
