---------------------------- MODULE MCFederation ----------------------------
EXTENDS Federation

CONSTANTS a, b

Fleet(x, y) == [m \in Members |-> IF m = a THEN x ELSE y]

\* Each kind of member alone, and the two client loops side by side.
MCFleets ==
  {Fleet("rust", "absent"), Fleet("python", "absent"), Fleet("absent", "push"),
   Fleet("rust", "python")}

OneRust == {Fleet("rust", "absent")}

MCTroubles(n) == IF n = 1 THEN 3 ELSE 0

\* Three weights in chunks of two, with and without a control variate.
MCResultOf(m) == IF m = a THEN [weights |-> <<1, 2, 3>>, variate |-> Some(<<4, 5, 6>>)]
                          ELSE [weights |-> <<7, 8>>, variate |-> NoVariate]

\* The chain of chunks carries these results whole, as it does every result
\* (WireHolds, Federation_proofs).
ASSUME ResultsArriveWhole == WireIsFaithful
=============================================================================
