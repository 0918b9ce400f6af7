---------------------------- MODULE MCRoundBuffer ----------------------------
(* Small instances of RoundBuffer: four right-round pushes against a quorum *)
(* of two, so that a batch can be short, exact and over-full, and one late  *)
(* push that still claims the previous round.                               *)
EXTENDS RoundBuffer

CONSTANT Late

MCRound == 2
MCClaimedRound == [p \in Pushers |-> IF p = Late THEN MCRound - 1 ELSE MCRound]
=============================================================================
