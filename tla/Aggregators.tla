----------------------------- MODULE Aggregators -----------------------------
(***************************************************************************)
(* The aggregator a server builds from its catalogue name, called once per *)
(* round.  One behaviour fixes the method and its parameters; each step is *)
(* one call of aggregate, or the round loop handing it a trusted reference *)
(* or candidate scores first.  Whatever a method keeps between rounds      *)
(* behind its Mutex is in memory; a method leaves the fields it does not   *)
(* have at their initial values.                                           *)
(***************************************************************************)
EXTENDS RobustStatistics

CONSTANTS
  Clients,
  Methods,           \* catalogue names tried
  Fractions(_),      \* values of robust_byzantine_fraction, per method
  Fairness,          \* values of q, natural numbers
  ClipRadius,        \* clip_radius
  ServerRate,        \* server_learning_rate
  Momentum,          \* beta of FedAvgM and beta1 of FedOpt
  Lipschitz,         \* server_lipschitz
  Population,        \* scaffold_num_clients
  Rho,               \* zeno_rho
  MaxSteps,          \* MAX_PLAUSIBLE_LOCAL_STEPS
  Window,            \* FLANDERS' history_window
  Batches(_),        \* the batches a method is given
  Points,            \* bound: values of forecasts, references and scores
  StepSizes,         \* bound: sizes of an adaptive optimiser's step
  MaxRounds(_)       \* bound: calls of aggregate, per method

VARIABLES
  method, phi, q,    \* the method and its parameters
  memory,            \* what the method keeps between rounds
  batch,             \* the batch of the last call
  result,            \* what that call returned
  rounds,            \* calls so far
  carried            \* history: the sum of control variates accepted since
                     \* the model was last seeded; once infinite it stays so

\* The names build_aggregator knows; with any other it builds nothing.
Catalogue ==
  {"fedavg", "krum", "multi_krum", "faba", "bulyan", "divide_and_conquer",
   "trimmed_mean", "median", "median_of_means", "geometric_median", "foolsgold",
   "centered_clipping", "fltrust", "zeno", "flanders", "qfedavg", "fednova",
   "scaffold", "fedavgm", "fedadagrad", "fedadam", "fedyogi"}

ASSUME MethodsAssumption == Methods \subseteq Catalogue

\* robust_byzantine_fraction is not negative.
ASSUME FractionsAssumption ==
  \A m \in Methods : \A p \in Fractions(m) :
    p[1] \in Nat /\ p[2] \in Nat \ {0} /\ p[1] <= p[2]

\* A batch is a sequence of updates, each with a value and a sample count.
ASSUME BatchesAssumption ==
  \A m \in Methods : \A b \in Batches(m) :
    b \in Seq(Range(b)) /\ \A i \in DOMAIN b : b[i].x \in Rat /\ b[i].samples \in Nat

vars == <<method, phi, q, memory, batch, result, rounds, carried>>

\* What the constructors start from.
NewMemory ==
  [anchor |-> NoVec, momentum |-> Zero, past |-> [c \in Clients |-> NoVec],
   window |-> <<>>, forecast |-> FALSE, kept |-> 0,
   trusted |-> NoVec, trustedFrom |-> NoVec,
   scores |-> [c \in {} |-> Zero], scoredFrom |-> NoVec]

\* The outcome of a call that leaves memory alone, and of one that sets it.
Keep(r) == {[r |-> r, m |-> memory]}
Commit(v, m) == {[r |-> Ok(v), m |-> m]}
Refuse(e) == Keep(Err(e))

\* A first model: the method takes it as its own and has no history yet.
Seeded(v) == [memory EXCEPT !.anchor = v, !.momentum = Zero]

\* An optimiser's new model, refused if it left the floating-point range.
Step(next, dim, m) ==
  IF Finite(next) THEN Commit(Vec(dim, next), [m EXCEPT !.anchor = Vec(dim, next)])
  ELSE Refuse("NonFiniteWeights")

\* FedAvg as a fallback: its result becomes the model, or its error returns.
FallBack(b) ==
  LET r == FedAvg(b)
  IN  IF r.err # "none" THEN Keep(r)
      ELSE Commit(r.out, [memory EXCEPT !.anchor = r.out])

-----------------------------------------------------------------------------
\* FoolsGold.
HistoryAfter(b) ==
  LET add(past, u) ==
        [past EXCEPT ![u.client] =
           IF @ = NoVec THEN Vec(u.dim, u.x) ELSE Vec(@.dim, QAdd(@.x, u.x))]
      h[k \in 0 .. Len(b)] == IF k = 0 THEN memory.past ELSE add(h[k - 1], b[k])
  IN  h

\* foolsgold_weights: on one axis a client counts in full unless another's
\* history points the same way, and then not at all.
FoolsGoldWeights(h) ==
  [i \in DOMAIN h |->
     IF \E j \in DOMAIN h \ {i} : QLess(Zero, QMul(h[i], h[j])) THEN Zero ELSE One]

\* Mutation: the history is updated before the batch is validated.
FoolsGold_RecordsFirst(b) ==
  LET h == HistoryAfter(b)
  IN  IF Refused(b) # "none"
      THEN {[r |-> Err(Refused(b)), m |-> [memory EXCEPT !.past = h[Len(b)]]]}
      ELSE Commit(Vec(b[1].dim, Mean(b)), [memory EXCEPT !.past = h[Len(b)]])

\* FoolsGoldAggregator::aggregate.
FoolsGold(b) ==
  LET h == HistoryAfter(b)
      w == FoolsGoldWeights([i \in DOMAIN b |-> h[i][b[i].client].x])
      share == [i \in DOMAIN b |-> QDiv(w[i], Int2Q(Len(b)))]
      x == IF Len(b) = 1 THEN b[1].x
           ELSE IF \A i \in DOMAIN b : w[i] = Zero THEN Mean(b)
           ELSE Weighted(share, b)
  IN  IF Refused(b) # "none" THEN Refuse(Refused(b))
      ELSE Commit(Vec(b[1].dim, x), [memory EXCEPT !.past = h[Len(b)]])

\* The factor a difference is scaled by: at most the radius is left of it.
ClipScale(d) ==
  IF d = Zero THEN One ELSE QMin(One, QDiv(ClipRadius, QAbs(d)))

\* The last output, or the batch's mean when there is none of this length.
ClippingCentre(b) ==
  IF memory.anchor.dim = b[1].dim THEN memory.anchor.x ELSE Mean(b)

\* CenteredClippingAggregator::aggregate.
CenteredClipping(b) ==
  IF Refused(b) # "none" THEN Refuse(Refused(b))
  ELSE LET v == ClippingCentre(b)
           scale == [i \in DOMAIN b |->
                       QDiv(ClipScale(QSub(b[i].x, v)), Int2Q(Len(b)))]
           next == Vec(b[1].dim, QAdd(v, WeightedShift(scale, b, v)))
       IN  Commit(next, [memory EXCEPT !.anchor = next])

-----------------------------------------------------------------------------
\* FlTrustAggregator::aggregate.  An update that points the reference's way
\* is rescaled to the reference's own step, so on one axis the trusted ones
\* all say the same.
FlTrust(b) ==
  LET g == memory.trustedFrom
      g0 == QSub(memory.trusted.x, g.x)
      trusts(u) == QLess(Zero, QMul(QSub(u.x, g.x), g0))
  IN  IF Refused(b) # "none" THEN Refuse(Refused(b))
      ELSE IF memory.trusted = NoVec THEN Refuse("MissingTrustedReference")
      ELSE IF {g.dim, memory.trusted.dim} # {b[1].dim}
           THEN Refuse("TrustedReferenceDimension")
      ELSE IF \E i \in DOMAIN b : trusts(b[i])
           THEN Commit(Vec(g.dim, QAdd(g.x, g0)), memory)
      ELSE Commit(g, memory)

\* Zeno's score of an update.
Suspicion(u) ==
  LET d == QSub(u.x, memory.scoredFrom.x)
  IN  QSub(memory.scores[u.client], QMul(Rho, QMul(d, d)))

\* ZenoAggregator::aggregate.  The scores are taken once the batch is valid,
\* whatever happens next, and a client's score serves one update only.
Zeno(b) ==
  LET spent == [memory EXCEPT !.scores = NewMemory.scores, !.scoredFrom = NoVec]
      scored == \A i \in DOMAIN b :
                  /\ b[i].client \in DOMAIN memory.scores
                  /\ \A j \in 1 .. i - 1 : b[j].client # b[i].client
      loss == [i \in DOMAIN b |-> QSub(Zero, Suspicion(b[i]))]
      kept == Lowest(loss, Len(b) - ByzantineCount(phi, Len(b)))
  IN  IF Refused(b) # "none" THEN Refuse(Refused(b))
      ELSE IF memory.scoredFrom = NoVec THEN Refuse("MissingCandidateScores")
      ELSE IF memory.scoredFrom.dim # b[1].dim
           THEN {[r |-> Err("CandidateScoresDimension"), m |-> spent]}
      ELSE IF ~scored THEN {[r |-> Err("UnscoredClient"), m |-> spent]}
      ELSE Commit(Vec(b[1].dim, Mean(At(b, kept))), spent)

-----------------------------------------------------------------------------
\* 0.2 as an f32, widened to f64 when FLANDERS computes with it.
FlandersFraction == Q(13421773, 67108864)

\* How many of m updates FLANDERS keeps once it has something to compare
\* them with.
KeptOf(m) ==
  LET k == m - QCeil(QMul(FlandersFraction, Int2Q(m)))
  IN  IF k < 1 THEN 1 ELSE k

\* observation: the clients of order are all in the snapshot at this length.
Observed(snapshot, order, dim) ==
  \A c \in order : c \in DOMAIN snapshot /\ snapshot[c].dim = dim

\* The forecasts the matrix autoregression (fit_mar) can give: none when two
\* clients, two snapshots, a pair of them and the last one are not all there,
\* or the fit fails; else some value per client.
Forecasts(order, dim) ==
  LET w == memory.window
      pair(k) == Observed(w[k], order, dim) /\ Observed(w[k + 1], order, dim)
      none == [c \in {} |-> Zero]
  IN  IF /\ Cardinality(order) >= 2
         /\ Len(w) >= 2
         /\ \E k \in 1 .. Len(w) - 1 : pair(k)
         /\ Observed(Last(w), order, dim)
      THEN {none} \cup [order -> Points]
      ELSE {none}

\* FlandersAggregator::aggregate over Krum, given a forecast.
FlandersWith(b, current, forecast) ==
  LET predicted == DOMAIN forecast
      from(u) == IF u.client \in predicted THEN forecast[u.client]
                 ELSE IF memory.anchor = NoVec THEN u.x ELSE memory.anchor.x
      score == [i \in DOMAIN b |->
                  QMul(QSub(b[i].x, from(b[i])), QSub(b[i].x, from(b[i])))]
      signal == predicted # {} \/ memory.anchor # NoVec
      k == IF signal THEN KeptOf(Len(b)) ELSE Len(b)
      kept == At(b, Lowest(score, k))
      r == FedAvg(At(kept, Krum(phi, kept)))
      diagnosed == [memory EXCEPT !.forecast = predicted # {}, !.kept = k]
      next == Append(memory.window, current)
  IN  IF r.err # "none" THEN {[r |-> r, m |-> diagnosed]}
      ELSE Commit(r.out,
             [diagnosed EXCEPT
                !.anchor = r.out,
                !.window = IF Len(next) > Window THEN Tail(next) ELSE next])

\* The last update of each client is its entry of the round's snapshot.
Snapshot(b) ==
  [c \in {b[i].client : i \in DOMAIN b} |->
     LET i == SelectLastInSeq(b, LAMBDA u : u.client = c)
     IN  Vec(b[i].dim, b[i].x)]

Flanders(b) ==
  IF Refused(b) # "none" THEN Refuse(Refused(b))
  ELSE LET now == Snapshot(b)
           order == {c \in DOMAIN now :
                       \A k \in DOMAIN memory.window : c \in DOMAIN memory.window[k]}
       IN  UNION {FlandersWith(b, now, f) : f \in Forecasts(order, b[1].dim)}

-----------------------------------------------------------------------------
Reseeds(b) == memory.anchor.dim # b[1].dim

\* FedOptAggregator::aggregate, all three variants: the plain mean is the
\* target; the second moment and its variant rule only size the step, here
\* any of StepSizes in the direction of the first moment.
FedOpt(b) ==
  IF Refused(b) # "none" THEN Refuse(Refused(b))
  ELSE IF Reseeds(b)
  THEN Commit(Vec(b[1].dim, Mean(b)), Seeded(Vec(b[1].dim, Mean(b))))
  ELSE LET delta == QSub(Mean(b), memory.anchor.x)
           m == QAdd(QMul(Momentum, memory.momentum),
                     QMul(QSub(One, Momentum), delta))
           steps == IF m = Zero THEN {Zero}
                    ELSE IF QLess(Zero, m) THEN StepSizes
                    ELSE {QSub(Zero, s) : s \in StepSizes}
       IN  UNION {Step(QAdd(memory.anchor.x, s), b[1].dim,
                       [memory EXCEPT !.momentum = m]) : s \in steps}

\* FedAvgMAggregator::aggregate.
FedAvgM(b) ==
  LET r == FedAvg(b)
  IN  IF r.err # "none" THEN Keep(r)
      ELSE IF Reseeds(b) THEN Commit(r.out, Seeded(r.out))
      ELSE LET velocity == QAdd(QMul(Momentum, memory.momentum),
                                QSub(r.out.x, memory.anchor.x))
           IN  Step(QAdd(memory.anchor.x, QMul(ServerRate, velocity)),
                    b[1].dim, [memory EXCEPT !.momentum = velocity])

\* loss^k; a negative loss counts as 0.
LossPower(loss, k) ==
  LET l == Int2Q(IF loss < 0 THEN 0 ELSE loss)
  IN  IF k = 0 THEN One ELSE FoldLeft(QMul, One, [i \in 1 .. k |-> l])

Loss(u) == IF u.loss = -1 THEN 1 ELSE u.loss

\* q-FedAvg's h of an update, and its pull.
FairH(u) ==
  LET d == QMul(Lipschitz, QSub(u.x, memory.anchor.x))
      curvature == IF q = 0 THEN Zero
                   ELSE QMul(QMul(Int2Q(q), LossPower(Loss(u), q - 1)), QMul(d, d))
  IN  QAdd(curvature, QMul(Lipschitz, LossPower(Loss(u), q)))
FairPull(u) ==
  QMul(QMul(LossPower(Loss(u), q), Lipschitz), QSub(u.x, memory.anchor.x))

\* QFedAvgAggregator::aggregate.  An update whose h is infinite, which takes
\* an infinite loss and q > 0, is left out.
QFedAvg(b) ==
  LET used == {i \in DOMAIN b : q = 0 \/ Loss(b[i]) <= FMax}
      h == QSum([i \in used |-> FairH(b[i])], used)
      pull == QSum([i \in used |-> FairPull(b[i])], used)
  IN  IF Refused(b) # "none" THEN Refuse(Refused(b))
      ELSE IF Reseeds(b) THEN FallBack(b)
      ELSE IF \A i \in DOMAIN b : b[i].loss = -1 THEN FallBack(b)
      ELSE IF QLeq(h, Zero) THEN FallBack(b)
      ELSE Step(QAdd(memory.anchor.x, QDiv(pull, h)), b[1].dim, memory)

\* FedNovaAggregator::aggregate.  A step count of 0 is no report; a missing
\* one counts as the mean of those reported.
FedNova(b) ==
  LET told == {i \in DOMAIN b : b[i].steps > 0}
      mean == QDiv(QSum([i \in told |-> Int2Q(b[i].steps)], told),
                   Int2Q(Cardinality(told)))
      tau(i) == IF i \notin told THEN QMax(mean, One)
                ELSE Int2Q(IF b[i].steps < MaxSteps THEN b[i].steps ELSE MaxSteps)
      p == IF TotalSamples(b) = Zero THEN EqualShare(b) ELSE SampleShare(b)
      effective == QSum([i \in DOMAIN b |-> QMul(p[i], tau(i))], DOMAIN b)
      scale == [i \in DOMAIN b |-> QDiv(QMul(effective, p[i]), tau(i))]
  IN  IF Refused(b) # "none" THEN Refuse(Refused(b))
      ELSE IF Reseeds(b) \/ told = {} THEN FallBack(b)
      ELSE Step(QAdd(memory.anchor.x, WeightedShift(scale, b, memory.anchor.x)),
                b[1].dim, memory)

\* The updates whose control variate counts: it decoded, to this model's
\* length, and is finite.
Varied(b) == {i \in DOMAIN b : b[i].dc.dim = b[1].dim /\ Finite(b[i].dc.x)}

\* ScaffoldAggregator::variate_step.
VariateStep(b) ==
  QDiv(QSum([i \in Varied(b) |-> b[i].dc.x], Varied(b)), Int2Q(Population))

\* Mutation: a seeding round starts the control variate at zero.
FirstControl_Zero(b) == Zero

\* The control variate a (re)seeding round starts from.
FirstControl(b) == IF Finite(VariateStep(b)) THEN VariateStep(b) ELSE Zero

\* ScaffoldAggregator::aggregate.
Scaffold(b) ==
  LET seed == FedAvg(b)
      moved == QMul(ServerRate, WeightedShift(EqualShare(b), b, memory.anchor.x))
      control == QAdd(memory.momentum, VariateStep(b))
  IN  IF Refused(b) # "none" THEN Refuse(Refused(b))
      ELSE IF Reseeds(b)
      THEN IF seed.err # "none" THEN Keep(seed)
           ELSE Commit(seed.out, [memory EXCEPT !.anchor = seed.out,
                                                !.momentum = FirstControl(b)])
      ELSE Step(QAdd(memory.anchor.x, moved), b[1].dim,
                IF Finite(control) THEN [memory EXCEPT !.momentum = control]
                ELSE memory)

-----------------------------------------------------------------------------
\* Stateless methods keep no memory.
Stateless(outcomes) == UNION {Keep(r) : r \in outcomes}

Averaging(b) == {FedAvg(b)}
Trimming(b) == Combined(b, {TrimmedMean(phi, Column(b))})

\* build_aggregator: the methods by their catalogue names.
Outcomes(b) ==
  CASE method = "fedavg" -> Stateless(Averaging(b))
    [] method = "krum" ->
         Stateless(Filtered(b, Averaging(At(b, Krum(phi, b)))))
    [] method = "multi_krum" ->
         Stateless(Filtered(b, Averaging(At(b, MultiKrum(phi, b)))))
    [] method = "faba" ->
         Stateless(Filtered(b, Averaging(At(b, Faba(phi, b)))))
    [] method = "bulyan" ->
         Stateless(Filtered(b, Trimming(At(b, Bulyan(phi, b)))))
    [] method = "divide_and_conquer" ->
         Stateless(Filtered(b, Averaging(At(b, DivideAndConquer(phi, b)))))
    [] method = "trimmed_mean" -> Stateless(Trimming(b))
    [] method = "median" -> Stateless(Combined(b, {Median(Column(b))}))
    [] method = "median_of_means" -> Stateless(Combined(b, {MedianOfMeans(Column(b))}))
    [] method = "geometric_median" -> Stateless(Combined(b, GeometricMedians(b)))
    [] method = "foolsgold" -> FoolsGold(b)
    [] method = "centered_clipping" -> CenteredClipping(b)
    [] method = "fltrust" -> FlTrust(b)
    [] method = "zeno" -> Zeno(b)
    [] method = "flanders" -> Flanders(b)
    [] method = "qfedavg" -> QFedAvg(b)
    [] method = "fednova" -> FedNova(b)
    [] method = "scaffold" -> Scaffold(b)
    [] method = "fedavgm" -> FedAvgM(b)
    [] method \in {"fedadagrad", "fedadam", "fedyogi"} -> FedOpt(b)

Init ==
  /\ method \in Methods
  /\ phi \in Fractions(method)
  /\ q \in IF method = "qfedavg" THEN Fairness ELSE {0}
  /\ memory = NewMemory
  /\ batch = <<>>
  /\ result = Err("none yet")
  /\ rounds = 0
  /\ carried = Zero

\* set_trusted_reference: the sidecar trained from a model of the round.
SetTrustedReference ==
  /\ method = "fltrust"
  /\ rounds < MaxRounds(method)
  /\ \E g, t \in Points, dim \in 1 .. 2 :
       memory' = [memory EXCEPT !.trustedFrom = Vec(dim, g), !.trusted = Vec(dim, t)]
  /\ UNCHANGED <<method, phi, q, batch, result, rounds, carried>>

\* set_candidate_scores: the sidecar's loss reductions for some clients.
SetCandidateScores ==
  /\ method = "zeno"
  /\ rounds < MaxRounds(method)
  /\ \E S \in SUBSET Clients : \E s \in [S -> Points], dim \in 1 .. 2 :
       memory' = [memory EXCEPT !.scores = s, !.scoredFrom = Vec(dim, Zero)]
  /\ UNCHANGED <<method, phi, q, batch, result, rounds, carried>>

\* One round's call of aggregate.
Aggregate ==
  /\ rounds < MaxRounds(method)
  /\ \E b \in Batches(method) : \E o \in Outcomes(b) :
       /\ batch' = b
       /\ result' = o.r
       /\ memory' = o.m
       /\ carried' = IF o.r.err # "none" \/ method # "scaffold" THEN carried
                     ELSE IF Reseeds(b) THEN VariateStep(b)
                     ELSE IF Finite(carried) THEN QAdd(carried, VariateStep(b))
                     ELSE carried
  /\ rounds' = rounds + 1
  /\ UNCHANGED <<method, phi, q>>

Next == SetTrustedReference \/ SetCandidateScores \/ Aggregate

Spec == Init /\ [][Next]_vars
=============================================================================
