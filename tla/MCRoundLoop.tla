----------------------------- MODULE MCRoundLoop -----------------------------
(* Small instances of RoundLoop. *)
EXTENDS RoundLoopProperties, TLC

ClientSymmetry == Permutations(Clients)
=============================================================================
