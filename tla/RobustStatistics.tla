-------------------------- MODULE RobustStatistics --------------------------
(***************************************************************************)
(* conflux-core's robust.rs: the stateless robust methods, as functions of *)
(* a batch.  phi is robust_byzantine_fraction, a rational.  A filter gives *)
(* the set of indices it selects; ties go to the earlier update wherever   *)
(* the code sorts stably or takes the first minimum, and to the later one  *)
(* where it takes max_by.                                                  *)
(***************************************************************************)
EXTENDS UpdateBatch

\* byzantine_count: the floor of phi * n, capped at n - 1.
ByzantineCount(phi, n) ==
  LET floor == QFloor(QMul(phi, Int2Q(n)))
  IN  IF n = 0 THEN 0 ELSE IF floor < n - 1 THEN floor ELSE n - 1

\* The elements of S in the order Before.
InOrder(S, Before(_, _)) ==
  LET rank == [i \in S |-> Cardinality({j \in S : Before(j, i)}) + 1]
  IN  [r \in 1 .. Cardinality(S) |-> CHOOSE i \in S : rank[i] = r]

\* The indices S in the order of a stable ascending sort by score.
Ranked(score, S) ==
  InOrder(S, LAMBDA i, j : \/ QLess(score[i], score[j])
                           \/ ~QLess(score[j], score[i]) /\ i < j)

\* The k first of that order.
Lowest(score, k) ==
  LET order == Ranked(score, DOMAIN score) IN {order[r] : r \in 1 .. k}

FirstMin(score) == Ranked(score, DOMAIN score)[1]

\* The sub-batch at indices S, in index order.
At(b, S) == LET order == InOrder(S, <) IN [r \in DOMAIN order |-> b[order[r]]]

\* DistanceMatrix, squared as krum_scores uses it.
Distance2(u, v) == QMul(QSub(u.x, v.x), QSub(u.x, v.x))

\* neighbors_to_sum.
Neighbours(phi, n) ==
  LET most == IF n > 2 THEN n - 1 ELSE 1
      k == n - ByzantineCount(phi, n) - 2
  IN  IF k < 1 THEN 1 ELSE IF k > most THEN most ELSE k

\* krum_scores: the sum of the squared distances to the nearest neighbours.
KrumScores(phi, b) ==
  [i \in DOMAIN b |->
     LET others == DOMAIN b \ {i}
         d == [j \in others |-> Distance2(b[i], b[j])]
         near == Ranked(d, others)
         k == Neighbours(phi, Len(b))
     IN  QSum(d, {near[r] : r \in 1 .. (IF k < Len(near) THEN k ELSE Len(near))})]

\* KrumFilter: the one with the least score.
Krum(phi, b) == {FirstMin(KrumScores(phi, b))}

\* MultiKrumFilter: the n - f with the least scores.
MultiKrum(phi, b) ==
  Lowest(KrumScores(phi, b), Len(b) - ByzantineCount(phi, Len(b)))

\* FabaFilter: f times, what is farthest from the mean of the rest goes.
Faba(phi, b) ==
  LET farthest(S) ==
        LET m == Mean(At(b, S))
            d == [i \in S |-> QAbs(QSub(b[i].x, m))]
        IN  Last(Ranked(d, S))
      left[k \in 0 .. Len(b)] ==
        IF k = 0 THEN DOMAIN b
        ELSE LET S == left[k - 1]
             IN  IF Cardinality(S) <= 1 THEN S ELSE S \ {farthest(S)}
  IN  left[ByzantineCount(phi, Len(b))]

\* BulyanFilter: n - 2f times, Krum's choice among what is left.
Bulyan(phi, b) ==
  LET n == Len(b)
      theta == n - 2 * ByzantineCount(phi, n)
      best(S) == InOrder(S, <)[FirstMin(KrumScores(phi, At(b, S)))]
      taken[k \in 0 .. n] ==
        IF k = 0 THEN {}
        ELSE LET S == taken[k - 1] IN S \cup {best(DOMAIN b \ S)}
  IN  taken[IF theta > 1 THEN theta ELSE 1]

\* top_singular_vector: updates on one axis vary along that axis only.
Projection2(b, i) == QMul(QSub(b[i].x, Mean(b)), QSub(b[i].x, Mean(b)))

\* DivideAndConquerFilter: the f largest projections on the direction of
\* greatest variance go, the earliest first among equals.
DivideAndConquer(phi, b) ==
  LET score == [i \in DOMAIN b |-> QSub(Zero, Projection2(b, i))]
  IN  DOMAIN b \ Lowest(score, ByzantineCount(phi, Len(b)))

Column(b) == [i \in DOMAIN b |-> b[i].x]

Sorted(col) == LET order == Ranked(col, DOMAIN col)
               IN  [r \in DOMAIN order |-> col[order[r]]]

\* Mutation: the smallest values are trimmed, the largest are not.
TrimmedMean_OneSided(phi, col) ==
  LET n == Len(col)
      half == (n - 1) \div 2
      f == ByzantineCount(phi, n)
      t == IF f < half THEN f ELSE half
  IN  QDiv(QSum(Sorted(col), t + 1 .. n), Int2Q(n - t))

\* TrimmedMeanStatistic.
TrimmedMean(phi, col) ==
  LET n == Len(col)
      half == (n - 1) \div 2
      f == ByzantineCount(phi, n)
      trim == IF f < half THEN f ELSE half
  IN  QDiv(QSum(Sorted(col), trim + 1 .. n - trim), Int2Q(n - 2 * trim))

\* MedianStatistic.
Median(col) ==
  LET n == Len(col)
      s == Sorted(col)
  IN  IF n % 2 = 1 THEN s[n \div 2 + 1]
      ELSE QDiv(QAdd(s[n \div 2], s[n \div 2 + 1]), Int2Q(2))

\* MedianOfMeansStatistic: groups of two in batch order.
MedianOfMeans(col) ==
  LET n == Len(col)
      group(g) == 2 * g - 1 .. (IF 2 * g < n THEN 2 * g ELSE n)
  IN  Median([g \in 1 .. (n + 1) \div 2 |->
                QDiv(QSum(col, group(g)), Int2Q(Cardinality(group(g))))])

\* GeometricMedianStatistic: Weiszfeld's iterates are convex combinations of
\* the updates with samples, here any of those updates or their average;
\* with no samples at all the initial zero vector is never left.
GeometricMedians(b) ==
  IF TotalSamples(b) = Zero THEN {Zero}
  ELSE {b[i].x : i \in {j \in DOMAIN b : b[j].samples > 0}}
         \cup {Weighted(SampleShare(b), b)}

\* CoordinateWiseAggregator and VectorRobustAggregator: one validation, then
\* the statistic.
Combined(b, values) ==
  IF Refused(b) # "none" THEN {Err(Refused(b))}
  ELSE {Ok(Vec(b[1].dim, x)) : x \in values}

\* FilteredAggregator: an empty batch, then the filter's own validation, then
\* what the combiner makes of the updates the filter selected.
Filtered(b, combined) ==
  IF Refused(b) # "none" THEN {Err(Refused(b))} ELSE combined
=============================================================================
