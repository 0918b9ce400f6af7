---------------------------- MODULE Preconditions ----------------------------
(***************************************************************************)
(* conflux_config::preconditions: what a robust method's citation requires *)
(* of a batch of n updates.  Configuration validation asks it of a         *)
(* configured quorum, the round loop asks it of the batch it opened and    *)
(* of the batch that arrived.                                              *)
(*                                                                         *)
(* robust_byzantine_fraction is an f32 in the code.  Here it is the exact  *)
(* fraction FractionNum / FractionDen; with a power of two as denominator  *)
(* and small n the f32 product is exact too.                               *)
(***************************************************************************)
EXTENDS Naturals

CONSTANTS
  Method,        \* config.aggregator
  FractionNum,   \* robust_byzantine_fraction = FractionNum / FractionDen
  FractionDen

ASSUME PreconditionAssumption ==
  /\ FractionNum \in Nat
  /\ FractionDen \in Nat \ {0}

\* How many updates the method drops at batch size n: the floor, capped so
\* that one is always left.
ExcludedAt(n) ==
  LET floor == (FractionNum * n) \div FractionDen
  IN  IF n = 0 THEN 0
      ELSE IF floor < n - 1 THEN floor ELSE n - 1

\* A requirement is stated by four methods, and for non-empty batches only; a
\* fraction outside [0, 1] states none (validation reports the fraction).
HasRequirement(n) ==
  /\ n # 0 /\ FractionNum <= FractionDen
  /\ Method \in {"krum", "multi_krum", "bulyan", "trimmed_mean"}

\* Mutation: Krum and Bulyan have each other's rule.
RequiredAt_Swapped(n) ==
  CASE Method \in {"krum", "multi_krum"} -> 4 * ExcludedAt(n) + 3
    [] Method = "bulyan"                 -> 2 * ExcludedAt(n) + 3
    [] Method = "trimmed_mean"           -> 2 * ExcludedAt(n) + 1
    [] OTHER                             -> 0

\* The smallest batch the citation covers when n updates are aggregated.
RequiredAt(n) ==
  CASE Method \in {"krum", "multi_krum"} -> 2 * ExcludedAt(n) + 3
    [] Method = "bulyan"                 -> 4 * ExcludedAt(n) + 3
    [] Method = "trimmed_mean"           -> 2 * ExcludedAt(n) + 1
    [] OTHER                             -> 0

\* Mutation: the requirement is one short.
Covered_OneShort(n) == HasRequirement(n) => n + 1 >= RequiredAt(n)

\* batch_requirement(..) is None, or Some(req) with req.satisfied_by(n).
Covered(n) == HasRequirement(n) => n >= RequiredAt(n)

\* ResolvedConfig::validate accepts a configured quorum: it is not zero and
\* its own size satisfies the method's requirement.
QuorumAccepted(q) == q # 0 /\ Covered(q)
=============================================================================
