------------------------- MODULE AggregatorProperties -------------------------
(* What the aggregation methods owe the round loop. *)
EXTENDS Aggregators

P == INSTANCE Preconditions
       WITH Method <- method, FractionNum <- phi[1], FractionDen <- phi[2]

\* What a method must remember correctly; FLANDERS' diagnostics describe the
\* last attempt, and Zeno's scores are for one attempt only.
Lasting(m) ==
  [m EXCEPT !.forecast = FALSE, !.kept = 0,
            !.scores = NewMemory.scores, !.scoredFrom = NoVec]

\* A batch a method refuses leaves no trace in what it carries to the next
\* round: histories, momenta, control variates, forecasting windows and the
\* last model are those of the accepted rounds (every aggregate method
\* validates, and checks its own result, before it commits).
RejectedBatchLeavesNoTrace ==
  [][rounds' # rounds /\ result'.err # "none" => Lasting(memory') = Lasting(memory)]_vars

Within(x, S) == (\E y \in S : QLeq(y, x)) /\ (\E y \in S : QLeq(x, y))

\* All updates but those of F, and the largest squared distance among them.
Honest(F) == {batch[i].x : i \in DOMAIN batch \ F}
Spread2(F) ==
  LET d == {Distance2(batch[i], batch[j]) : i, j \in DOMAIN batch \ F}
  IN  CHOOSE m \in d : \A e \in d : QLeq(e, m)

Minorities(f) == {F \in SUBSET DOMAIN batch : Cardinality(F) <= f}

\* Whichever f updates of a batch the citation covers are arbitrary, the
\* others decide: a trimmed mean or a median lies between honest updates, and
\* what Krum selects is no farther from an honest update than its score
\* allows (TrimmedMeanStatistic, MedianStatistic, KrumFilter).
MinorityCannotSteer ==
  result.err = "none" =>
    LET n == Len(batch)
        f == ByzantineCount(phi, n)
        x == result.out.x
    IN  CASE method = "trimmed_mean" /\ P!Covered(n) ->
               \A F \in Minorities(f) : Within(x, Honest(F))
          [] method = "median" ->
               \A F \in Minorities((n - 1) \div 2) : Within(x, Honest(F))
          [] method = "krum" /\ P!Covered(n) ->
               \A F \in Minorities(f) : \E h \in Honest(F) :
                 QLeq(QMul(QSub(x, h), QSub(x, h)),
                      QMul(Int2Q(Neighbours(phi, n)), Spread2(F)))
          [] OTHER -> TRUE

\* SCAFFOLD's control variate is the damped sum of every well-formed one sent
\* in an accepted round since the model was last seeded, that round included:
\* a refused round adds nothing, a round without variates loses nothing.  It
\* holds until that sum leaves the floating-point range; what is dispatched
\* stays in it even then (ScaffoldAggregator::aggregate, variate_step).
VariatesAllCarried ==
  method = "scaffold" =>
    /\ Finite(memory.momentum)
    /\ Finite(carried) => memory.momentum = carried
=============================================================================
