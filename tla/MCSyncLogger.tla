---------------------------- MODULE MCSyncLogger ----------------------------
(* The instance of SyncLogger for TLC. *)
EXTENDS SyncLogger

CONSTANTS c1, c2

\* Two patterns whose tokens differ in number and at each place.
MCPatterns == {kTimestampPattern \o <<"%", "m">>, <<"%", "v", "%", "l", "x">>}

MCSymmetry == Permutations(Clients)
=============================================================================
