----------------------------- MODULE UpdateBatch -----------------------------
(***************************************************************************)
(* conflux-core's weights.rs and averaging.rs: what every aggregator does  *)
(* to a batch before its own arithmetic, and the weighted average.         *)
(*                                                                         *)
(* A weight vector is abstracted to its length and one coordinate: every   *)
(* vector lies on the first axis, so an l2 norm is an absolute value, a    *)
(* cosine is a product of signs, and a coordinate-wise statistic is the    *)
(* statistic itself.  Floating point is exact (module Rational); what      *)
(* exceeds FMax in magnitude has overflowed to infinity.                   *)
(*                                                                         *)
(* An update is [client, body, dim, x, samples, steps, loss, dc]: body is  *)
(* what its bytes decode to; steps, loss and dc are the optional fields    *)
(* local_steps, local_loss and control_variate (steps 0 and loss -1 when   *)
(* absent, dc a record [dim, x] with dim 0 when absent or undecodable).    *)
(***************************************************************************)
EXTENDS Rational, Sequences, SequencesExt

CONSTANTS
  MaxSamples,   \* MAX_PLAUSIBLE_SAMPLE_COUNT
  FMax          \* f32::MAX

ASSUME RangeAssumption == MaxSamples \in Nat /\ FMax \in Nat

\* A vector of length dim on the first axis; length 0 stands for None.
Vec(dim, x) == [dim |-> dim, x |-> x]
NoVec == Vec(0, Zero)

Finite(q) == QLeq(QAbs(q), Int2Q(FMax))

\* What an aggregator returns: a vector, or the name of its AggregatorError.
Ok(v) == [err |-> "none", out |-> v]
Err(e) == [err |-> e, out |-> NoVec]

\* decode_and_validate: every update must decode, have the first one's
\* length, and then, in order, be finite and claim a plausible sample count.
Invalid(b) ==
  LET suspect(u) == u.body = "nonfinite" \/ u.samples > MaxSamples
      first == SelectInSeq(b, suspect)
  IN  IF \E i \in DOMAIN b : b[i].body = "malformed" THEN "MalformedWeights"
      ELSE IF \E i \in DOMAIN b : b[i].dim # b[1].dim THEN "MismatchedLength"
      ELSE IF first = 0 THEN "none"
      ELSE IF b[first].body = "nonfinite" THEN "NonFiniteWeights"
      ELSE "ImplausibleSampleCount"

\* The checks every aggregate method starts with.
Refused(b) == IF b = <<>> THEN "EmptyBatch" ELSE Invalid(b)

\* accumulate_weighted over the batch: the sum of weight[i] * x[i].
Weighted(weight, b) ==
  QSum([i \in DOMAIN b |-> QMul(weight[i], b[i].x)], DOMAIN b)

\* accumulate_scaled_difference over the batch: the weighted sum of the
\* differences from a reference point.
WeightedShift(weight, b, from) ==
  QSum([i \in DOMAIN b |-> QMul(weight[i], QSub(b[i].x, from))], DOMAIN b)

\* 1 / n for every update.
EqualShare(b) == [i \in DOMAIN b |-> Q(1, Len(b))]

Mean(b) == Weighted(EqualShare(b), b)

TotalSamples(b) ==
  QSum([i \in DOMAIN b |-> Int2Q(b[i].samples)], DOMAIN b)

\* SampleCountWeighting, normalised.
SampleShare(b) ==
  [i \in DOMAIN b |-> QDiv(Int2Q(b[i].samples), TotalSamples(b))]

\* WeightedAverageAggregator::aggregate with SampleCountWeighting: FedAvg.
FedAvg(b) ==
  IF Refused(b) # "none" THEN Err(Refused(b))
  ELSE IF TotalSamples(b) = Zero THEN Err("ZeroWeightSum")
  ELSE Ok(Vec(b[1].dim, Weighted(SampleShare(b), b)))
=============================================================================
