-------------------------- MODULE Aggregator_proofs --------------------------
(***************************************************************************)
(* Proofs about the aggregation methods, for any batches, clients and      *)
(* parameters.  The first part is about the control around the statistics, *)
(* whose results stay opaque.                                              *)
(***************************************************************************)
EXTENDS AggregatorProperties, FiniteSetTheorems, SequenceTheorems,
        WellFoundedInduction, TLAPS

\* An outcome that is an error leaves no lasting trace.
Spotless(outcomes) ==
  \A o \in outcomes : o.r.err # "none" => Lasting(o.m) = Lasting(memory)

LEMMA KeepIsSpotless ==
  ASSUME NEW r PROVE Spotless(Keep(r))
BY DEF Spotless, Keep

LEMMA RefuseIsSpotless ==
  ASSUME NEW e PROVE Spotless(Refuse(e))
BY KeepIsSpotless DEF Refuse

LEMMA CommitIsSpotless ==
  ASSUME NEW v, NEW m PROVE Spotless(Commit(v, m))
BY DEF Spotless, Commit, Ok

LEMMA StepIsSpotless ==
  ASSUME NEW next, NEW dim, NEW m PROVE Spotless(Step(next, dim, m))
BY RefuseIsSpotless, CommitIsSpotless DEF Step

LEMMA FallBackIsSpotless ==
  ASSUME NEW b PROVE Spotless(FallBack(b))
BY KeepIsSpotless, CommitIsSpotless DEF FallBack

LEMMA StatelessIsSpotless ==
  ASSUME NEW O PROVE Spotless(Stateless(O))
BY KeepIsSpotless DEF Stateless, Spotless

LEMMA FoolsGoldIsSpotless ==
  ASSUME NEW b PROVE Spotless(FoolsGold(b))
BY RefuseIsSpotless, CommitIsSpotless DEF FoolsGold

LEMMA CenteredClippingIsSpotless ==
  ASSUME NEW b PROVE Spotless(CenteredClipping(b))
BY RefuseIsSpotless, CommitIsSpotless DEF CenteredClipping

LEMMA FlTrustIsSpotless ==
  ASSUME NEW b PROVE Spotless(FlTrust(b))
BY RefuseIsSpotless, CommitIsSpotless DEF FlTrust

\* Spent scores are not lasting.
LEMMA ZenoIsSpotless ==
  ASSUME NEW b PROVE Spotless(Zeno(b))
<1> DEFINE spent == [memory EXCEPT !.scores = NewMemory.scores, !.scoredFrom = NoVec]
<1>1. Lasting(spent) = Lasting(memory)
  BY DEF Lasting
<1>2. \A e : Spotless({[r |-> Err(e), m |-> spent]})
  BY <1>1 DEF Spotless
<1> HIDE DEF spent
<1> QED
  BY <1>2, RefuseIsSpotless, CommitIsSpotless DEF Zeno, spent

\* FLANDERS' diagnostics of a failed attempt are not lasting.
LEMMA FlandersIsSpotless ==
  ASSUME NEW b PROVE Spotless(Flanders(b))
<1>1. \A f, k : Lasting([memory EXCEPT !.forecast = f, !.kept = k]) = Lasting(memory)
  BY DEF Lasting
<1>2. ASSUME NEW m, Lasting(m) = Lasting(memory), NEW r
      PROVE  Spotless({[r |-> r, m |-> m]})
  BY <1>2 DEF Spotless
<1>3. ASSUME NEW now, NEW f PROVE Spotless(FlandersWith(b, now, f))
  <2>1. PICK p, k, r, v, n :
          FlandersWith(b, now, f) =
            IF r.err # "none"
            THEN {[r |-> r, m |-> [memory EXCEPT !.forecast = p, !.kept = k]]}
            ELSE Commit(v, n)
    BY DEF FlandersWith
  <2> QED
    BY <1>1, <1>2, <2>1, CommitIsSpotless
<1>4. \A now, F : Spotless(UNION {FlandersWith(b, now, f) : f \in F})
  BY <1>3 DEF Spotless
<1> QED
  BY <1>4, RefuseIsSpotless DEF Flanders

LEMMA FedOptIsSpotless ==
  ASSUME NEW b PROVE Spotless(FedOpt(b))
<1>1. \A S, m : Spotless(UNION {Step(QAdd(memory.anchor.x, s), b[1].dim, m) : s \in S})
  BY StepIsSpotless DEF Spotless
<1>2. CASE Refused(b) = "none" /\ ~Reseeds(b)
  <2> DEFINE delta == QSub(Mean(b), memory.anchor.x)
             m == QAdd(QMul(Momentum, memory.momentum), QMul(QSub(One, Momentum), delta))
             steps == IF m = Zero THEN {Zero}
                      ELSE IF QLess(Zero, m) THEN StepSizes
                      ELSE {QSub(Zero, s) : s \in StepSizes}
             moved == [memory EXCEPT !.momentum = m]
  <2>1. FedOpt(b) = UNION {Step(QAdd(memory.anchor.x, s), b[1].dim, moved) : s \in steps}
    BY <1>2, Zenon DEF FedOpt
  <2> HIDE DEF moved, steps
  <2> QED
    BY <1>1, <2>1
<1> QED
  BY <1>2, RefuseIsSpotless, CommitIsSpotless DEF FedOpt

LEMMA FedAvgMIsSpotless ==
  ASSUME NEW b PROVE Spotless(FedAvgM(b))
BY KeepIsSpotless, CommitIsSpotless, StepIsSpotless DEF FedAvgM

LEMMA QFedAvgIsSpotless ==
  ASSUME NEW b PROVE Spotless(QFedAvg(b))
BY RefuseIsSpotless, FallBackIsSpotless, StepIsSpotless DEF QFedAvg

LEMMA FedNovaIsSpotless ==
  ASSUME NEW b PROVE Spotless(FedNova(b))
BY RefuseIsSpotless, FallBackIsSpotless, StepIsSpotless DEF FedNova

LEMMA ScaffoldIsSpotless ==
  ASSUME NEW b PROVE Spotless(Scaffold(b))
BY KeepIsSpotless, RefuseIsSpotless, CommitIsSpotless, StepIsSpotless DEF Scaffold

\* Whichever method the catalogue builds.
LEMMA OutcomesAreSpotless ==
  ASSUME method \in Catalogue, NEW b PROVE Spotless(Outcomes(b))
<1> USE DEF Outcomes
<1>1. CASE method \in {"fedavg", "krum", "multi_krum", "faba", "bulyan",
                       "divide_and_conquer"}
  BY <1>1, StatelessIsSpotless
<1>2. CASE method \in {"trimmed_mean", "median", "median_of_means", "geometric_median"}
  BY <1>2, StatelessIsSpotless
<1>3. CASE method \in {"foolsgold", "centered_clipping", "fltrust", "zeno", "flanders"}
  BY <1>3, FoolsGoldIsSpotless, CenteredClippingIsSpotless, FlTrustIsSpotless,
     ZenoIsSpotless, FlandersIsSpotless
<1>4. CASE method \in {"qfedavg", "fednova", "scaffold", "fedavgm"}
  BY <1>4, QFedAvgIsSpotless, FedNovaIsSpotless, ScaffoldIsSpotless, FedAvgMIsSpotless
<1>5. CASE method \in {"fedadagrad", "fedadam", "fedyogi"}
  BY <1>5, FedOptIsSpotless
<1> QED
  BY <1>1, <1>2, <1>3, <1>4, <1>5 DEF Catalogue

\* The method is fixed when the aggregator is built.
LEMMA MethodIsKnown == Spec => [](method \in Catalogue)
<1>1. Init => method \in Catalogue
  BY MethodsAssumption DEF Init
<1>2. method \in Catalogue /\ [Next]_vars => (method \in Catalogue)'
  BY DEF Next, SetTrustedReference, SetCandidateScores, Aggregate, vars
<1> QED
  BY <1>1, <1>2, PTL DEF Spec

\* A refused batch leaves no trace in what any method of the catalogue carries
\* to the next round.
THEOREM RejectedBatchLeavesNoTraceHolds == Spec => RejectedBatchLeavesNoTrace
<1> DEFINE Trace == rounds' # rounds /\ result'.err # "none" =>
                      Lasting(memory') = Lasting(memory)
<1>1. method \in Catalogue /\ [Next]_vars => [Trace]_vars
  <2> SUFFICES ASSUME method \in Catalogue, [Next]_vars PROVE [Trace]_vars
    OBVIOUS
  <2>1. CASE SetTrustedReference \/ SetCandidateScores \/ UNCHANGED vars
    BY <2>1 DEF SetTrustedReference, SetCandidateScores, vars
  <2>2. CASE Aggregate
    <3>1. PICK b \in Batches(method) : \E o \in Outcomes(b) :
            result' = o.r /\ memory' = o.m
      BY <2>2 DEF Aggregate
    <3> QED
      BY <3>1, OutcomesAreSpotless DEF Spotless
  <2> QED
    BY <2>1, <2>2 DEF Next
<1> QED
  BY <1>1, MethodIsKnown, PTL DEF Spec, RejectedBatchLeavesNoTrace

-----------------------------------------------------------------------------
(* SCAFFOLD's control variate *)

\* The control variate has a place in SCAFFOLD's memory, so that assigning it
\* means something.
VariateInv ==
  /\ VariatesAllCarried
  /\ method = "scaffold" => "momentum" \in DOMAIN memory

LEMMA ZeroIsFinite == Finite(Zero)
BY RangeAssumption DEF Finite, Zero, Int2Q, QLeq, QAbs, AbsInt

\* A call either keeps the control variate, refused or not, or replaces it by
\* one that is a number.
LEMMA ScaffoldControl ==
  ASSUME NEW b, NEW o \in Scaffold(b), "momentum" \in DOMAIN memory
  PROVE  /\ "momentum" \in DOMAIN o.m
         /\ o.r.err # "none" => o.m = memory
         /\ o.r.err = "none" /\ Reseeds(b) => o.m.momentum = FirstControl(b)
         /\ o.r.err = "none" /\ ~Reseeds(b) =>
              o.m.momentum =
                IF Finite(QAdd(memory.momentum, VariateStep(b)))
                THEN QAdd(memory.momentum, VariateStep(b)) ELSE memory.momentum
<1> DEFINE control == QAdd(memory.momentum, VariateStep(b))
           moved == IF Finite(control) THEN [memory EXCEPT !.momentum = control]
                    ELSE memory
<1>1. "momentum" \in DOMAIN moved /\ moved.momentum = IF Finite(control) THEN control
                                                     ELSE memory.momentum
  OBVIOUS
<1>2. CASE Refused(b) # "none"
  BY <1>2 DEF Scaffold, Refuse, Keep, Err
<1>3. CASE Refused(b) = "none" /\ Reseeds(b)
  <2> DEFINE seed == FedAvg(b)
             m == [memory EXCEPT !.anchor = seed.out, !.momentum = FirstControl(b)]
  <2>1. o \in IF seed.err # "none" THEN Keep(seed) ELSE Commit(seed.out, m)
    BY <1>3 DEF Scaffold
  <2>2. "momentum" \in DOMAIN m /\ m.momentum = FirstControl(b)
    OBVIOUS
  <2> HIDE DEF seed, m
  <2> QED
    BY <1>3, <2>1, <2>2 DEF Keep, Commit, Ok
<1>4. CASE Refused(b) = "none" /\ ~Reseeds(b)
  <2>1. PICK x : o \in Step(x, b[1].dim, moved)
    BY <1>4 DEF Scaffold
  <2> HIDE DEF moved, control
  <2>2. CASE Finite(x)
    <3> DEFINE n == [moved EXCEPT !.anchor = Vec(b[1].dim, x)]
    <3>1. "momentum" \in DOMAIN n /\ n.momentum = moved.momentum
      BY <1>1
    <3>2. o \in Commit(Vec(b[1].dim, x), n)
      BY <2>1, <2>2 DEF Step
    <3> HIDE DEF n
    <3>3. o.m = n /\ o.r.err = "none"
      BY <3>2 DEF Commit, Ok
    <3> QED
      BY <1>1, <1>4, <3>1, <3>3 DEF control
  <2>3. CASE ~Finite(x)
    BY <2>1, <2>3 DEF Step, Refuse, Keep, Err
  <2> QED
    BY <2>2, <2>3
<1> QED
  BY <1>2, <1>3, <1>4

\* SCAFFOLD's control variate holds every well-formed variate of the accepted
\* rounds since the model was seeded, as long as their sum is a number, and is
\* itself always one.
THEOREM VariatesAllCarriedHolds == Spec => []VariatesAllCarried
<1>1. Init => VariateInv
  <2>1. "momentum" \in DOMAIN NewMemory /\ NewMemory.momentum = Zero
    BY DEF NewMemory
  <2> QED
    BY <2>1, ZeroIsFinite DEF Init, VariateInv, VariatesAllCarried
<1>2. VariateInv /\ [Next]_vars => VariateInv'
  <2> SUFFICES ASSUME VariateInv, [Next]_vars, method = "scaffold"
               PROVE  VariateInv'
    BY DEF Next, SetTrustedReference, SetCandidateScores, Aggregate, vars,
           VariateInv, VariatesAllCarried
  <2>1. CASE SetTrustedReference \/ SetCandidateScores \/ UNCHANGED vars
    BY <2>1 DEF SetTrustedReference, SetCandidateScores, vars, VariateInv,
                VariatesAllCarried
  <2>2. CASE Aggregate
    <3>1. PICK b \in Batches(method) : \E o \in Outcomes(b) :
            /\ memory' = o.m
            /\ carried' = IF o.r.err # "none" \/ method # "scaffold" THEN carried
                          ELSE IF Reseeds(b) THEN VariateStep(b)
                          ELSE IF Finite(carried) THEN QAdd(carried, VariateStep(b))
                          ELSE carried
      BY <2>2 DEF Aggregate
    <3>2. PICK o \in Scaffold(b) :
            /\ memory' = o.m
            /\ carried' = IF o.r.err # "none" THEN carried
                          ELSE IF Reseeds(b) THEN VariateStep(b)
                          ELSE IF Finite(carried) THEN QAdd(carried, VariateStep(b))
                          ELSE carried
      BY <3>1 DEF Outcomes
    <3>3. "momentum" \in DOMAIN memory'
      BY <3>2, ScaffoldControl DEF VariateInv
    <3>4. Finite(memory'.momentum) /\ (Finite(carried') => memory'.momentum = carried')
      <4>1. CASE o.r.err # "none"
        BY <3>2, <4>1, ScaffoldControl DEF VariateInv, VariatesAllCarried
      <4>2. CASE o.r.err = "none" /\ Reseeds(b)
        BY <3>2, <4>2, ScaffoldControl, ZeroIsFinite
        DEF VariateInv, VariatesAllCarried, FirstControl
      <4>3. CASE o.r.err = "none" /\ ~Reseeds(b)
        BY <3>2, <4>3, ScaffoldControl DEF VariateInv, VariatesAllCarried
      <4> QED
        BY <4>1, <4>2, <4>3
    <3> QED
      BY <3>3, <3>4 DEF VariateInv, VariatesAllCarried, Finite
  <2> QED
    BY <2>1, <2>2 DEF Next
<1> QED
  BY <1>1, <1>2, PTL DEF Spec, VariateInv

-----------------------------------------------------------------------------
(***************************************************************************)
(* The statistics: what Q, QSum, Ranked, the median, the trimmed mean and  *)
(* Krum return, for batches of any length.  Gcd and QSum are recursive;    *)
(* the equation that defines them is shown to have a solution by extending *)
(* one up to m to one up to m + 1.                                         *)
(***************************************************************************)

\* A set of naturals that is not empty has a least element.
LEMMA LeastNatural ==
  ASSUME NEW T \in SUBSET Nat, T # {}
  PROVE  \E x \in T : \A y \in T : x <= y
<1>1. PICK x \in T : \A y \in T : ~(<<y, x>> \in OpToRel(<, Nat))
  BY NatLessThanWellFounded, WFMin, Zenon
<1>2. \A y \in T : ~(y < x)
  BY <1>1, Zenon DEF OpToRel
<1> QED
  BY <1>2

\* Induction over the naturals, for a set instead of a predicate.
LEMMA Induct ==
  ASSUME NEW T \in SUBSET Nat, 0 \in T, \A n \in Nat : n \in T => n + 1 \in T
  PROVE  T = Nat
<1> SUFFICES ASSUME T # Nat PROVE FALSE
  OBVIOUS
<1>1. PICK x \in Nat \ T : \A y \in Nat \ T : x <= y
  BY LeastNatural
<1>2. x # 0 /\ x - 1 \in Nat /\ x - 1 \in T
  BY <1>1
<1> QED
  BY <1>1, <1>2

\* Division with remainder.
LEMMA DivMod ==
  ASSUME NEW a \in Nat, NEW b \in Nat \ {0}
  PROVE  /\ a % b \in 0 .. b - 1
         /\ a \div b \in Nat
         /\ a % b = a - b * (a \div b)
<1>1. a % b \in 0 .. b - 1
  OBVIOUS
<1>2. a \div b \in Nat
  OBVIOUS
<1>3. a % b = a - b * (a \div b)
  OBVIOUS
<1> QED BY <1>1, <1>2, <1>3

\* The remainder, as an operator the provers leave alone.
Rem(a, b) == a % b

\* A remainder is smaller than the divisor.
LEMMA RemRange ==
  \A a \in Nat, b \in Nat : b # 0 => Rem(a, b) \in Nat /\ Rem(a, b) < b
<1> TAKE a \in Nat, b \in Nat
<1> HAVE b # 0
<1> QED BY DivMod DEF Rem

\* What Gcd must satisfy for second arguments up to n.
GcdUpTo(g, n) ==
  \A b \in 0 .. n, a \in Nat : g[b][a] = IF b = 0 THEN a ELSE g[Rem(a, b)][b]

\* From functions that satisfy it up to m to one up to m + 1.
LEMMA GcdExtend ==
  ASSUME NEW m \in Nat, NEW g, GcdUpTo(g, m)
  PROVE  \E h : GcdUpTo(h, m + 1)
<1> DEFINE k == [a \in Nat |-> g[Rem(a, m + 1)][m + 1]]
           h == [b \in 0 .. m + 1 |-> IF b <= m THEN g[b] ELSE k]
<1>1. \A a \in Nat : Rem(a, m + 1) \in 0 .. m
  BY RemRange
<1>2. \A a \in Nat : k[a] = g[Rem(a, m + 1)][m + 1]
  OBVIOUS
<1> HIDE DEF k
<1>3. h[m + 1] = k /\ \A b \in 0 .. m : h[b] = g[b]
  OBVIOUS
<1> HIDE DEF h
<1>4. ASSUME NEW a \in Nat, NEW b \in 0 .. m + 1
      PROVE  h[b][a] = IF b = 0 THEN a ELSE h[Rem(a, b)][b]
  <2>1. CASE b = m + 1
    BY <2>1, <1>1, <1>2, <1>3
  <2>2. CASE b \in 1 .. m
    <3>1. Rem(a, b) \in 0 .. m
      BY <2>2, RemRange
    <3> QED BY <2>2, <3>1, <1>3 DEF GcdUpTo
  <2>3. CASE b = 0
    BY <2>3, <1>3 DEF GcdUpTo
  <2> QED BY <2>1, <2>2, <2>3
<1> QED
  BY <1>4 DEF GcdUpTo

\* Such a function exists for every bound.
LEMMA GcdExists ==
  ASSUME NEW n \in Nat
  PROVE  \E g : GcdUpTo(g, n)
<1> DEFINE T == {m \in Nat : \E g : GcdUpTo(g, m)}
<1>1. 0 \in T
  <2> DEFINE g == [b \in 0 .. 0 |-> [a \in Nat |-> a]]
  <2>1. GcdUpTo(g, 0)
    BY DEF GcdUpTo
  <2> QED
    BY <2>1
<1>2. \A m \in Nat : m \in T => m + 1 \in T
  BY GcdExtend
<1>3. T = Nat
  <2> HIDE DEF T
  <2>1. T \in SUBSET Nat
    BY DEF T
  <2> QED BY <1>1, <1>2, <2>1, Induct
<1> QED
  BY <1>3

\* Two such functions agree.
LEMMA GcdUnique ==
  ASSUME NEW n \in Nat, NEW m \in Nat, n <= m, NEW g, NEW h, GcdUpTo(g, n), GcdUpTo(h, m)
  PROVE  \A b \in 0 .. n, a \in Nat : g[b][a] = h[b][a]
<1> DEFINE B == {b \in 0 .. n : \E a \in Nat : g[b][a] # h[b][a]}
<1> SUFFICES ASSUME B # {} PROVE FALSE
  OBVIOUS
<1>1. PICK b \in B : \A c \in B : b <= c
  <2> HIDE DEF B
  <2>1. B \in SUBSET Nat
    BY DEF B
  <2> QED BY <2>1, LeastNatural
<1>2. PICK a \in Nat : g[b][a] # h[b][a]
  BY <1>1
<1>3. b # 0
  BY <1>1, <1>2 DEF GcdUpTo
<1>4. Rem(a, b) \in 0 .. b - 1
  BY <1>1, <1>3, RemRange
<1>5. g[Rem(a, b)][b] = h[Rem(a, b)][b]
  BY <1>1, <1>4
<1> QED
  BY <1>1, <1>2, <1>3, <1>5 DEF GcdUpTo

\* So the recursive definition of Gcd defines it.
LEMMA GcdDef ==
  \A b \in Nat, a \in Nat : Gcd[b][a] = IF b = 0 THEN a ELSE Gcd[Rem(a, b)][b]
<1> DEFINE u == [n \in Nat |-> CHOOSE g : GcdUpTo(g, n)]
           G == [n \in Nat |-> [a \in Nat |-> u[n][n][a]]]
<1>1. \A n \in Nat : GcdUpTo(u[n], n)
  BY GcdExists
<1> HIDE DEF u
<1>2. \A n \in Nat, a \in Nat : G[n][a] = u[n][n][a]
  OBVIOUS
<1>3. G = [n \in Nat |-> G[n]] /\ \A n \in Nat : G[n] = [a \in Nat |-> G[n][a]]
  OBVIOUS
<1> HIDE DEF G
<1>4. ASSUME NEW n \in Nat, NEW m \in 0 .. n, NEW a \in Nat
      PROVE  u[n][m][a] = G[m][a]
  <2>1. \A c \in 0 .. m, d \in Nat : u[m][c][d] = u[n][c][d]
    <3>1. GcdUpTo(u[n], n) /\ GcdUpTo(u[m], m)
      BY <1>1
    <3> QED BY <3>1, GcdUnique
  <2> QED
    BY <2>1, <1>2
<1>5. ASSUME NEW b \in Nat, NEW a \in Nat
      PROVE G[b][a] = IF b = 0 THEN a ELSE G[Rem(a, b)][b]
  <2>1. G[b][a] = IF b = 0 THEN a ELSE u[b][Rem(a, b)][b]
    BY <1>1, <1>2 DEF GcdUpTo
  <2>2. b # 0 => Rem(a, b) \in 0 .. b
    BY RemRange
  <2> QED BY <2>1, <2>2, <1>4
<1>6. G = [b \in Nat |-> [a \in Nat |-> IF b = 0 THEN a ELSE G[Rem(a, b)][b]]]
  <2>1. \A b \in Nat : G[b] = [a \in Nat |-> IF b = 0 THEN a ELSE G[Rem(a, b)][b]]
    BY <1>3, <1>5
  <2> QED BY <1>3, <2>1
<1>7. Gcd = [b \in Nat |-> [a \in Nat |-> IF b = 0 THEN a ELSE Gcd[Rem(a, b)][b]]]
  BY <1>6, Zenon DEF Gcd, Rem
<1> QED
  BY <1>7

\* g is a common divisor of a and b.
Divides(g, a, b) ==
  g \in Nat \ {0} /\ \E k \in Nat, l \in Nat : a = g * k /\ b = g * l

\* A divisor of b and of the remainder of a by b divides a.
LEMMA DivideStep ==
  ASSUME NEW a \in Nat, NEW b \in Nat \ {0}, NEW g, Divides(g, b, Rem(a, b))
  PROVE  Divides(g, a, b)
<1>1. PICK k \in Nat, l \in Nat : b = g * k /\ Rem(a, b) = g * l
  BY DEF Divides
<1>2. g \in Nat \ {0}
  BY DEF Divides
<1> DEFINE t == a \div b
<1>3. t \in Nat /\ Rem(a, b) = a - b * t
  BY DivMod DEF Rem
<1> HIDE DEF t
<1>4. a = (g * k) * t + g * l
  BY <1>1, <1>2, <1>3
<1>5. a = g * (k * t + l) /\ k * t + l \in Nat
  BY <1>2, <1>3, <1>4
<1> QED
  BY <1>1, <1>2, <1>5 DEF Divides

\* The greatest common divisor divides both.
LEMMA GcdDivides ==
  ASSUME NEW b \in Nat, NEW a \in Nat, ~(a = 0 /\ b = 0)
  PROVE  Divides(Gcd[b][a], a, b)
<1> DEFINE B == {n \in Nat : \E m \in Nat : ~(m = 0 /\ n = 0) /\ ~Divides(Gcd[n][m], m, n)}
<1> SUFFICES B = {}
  OBVIOUS
<1> SUFFICES ASSUME B # {} PROVE FALSE
  OBVIOUS
<1>1. PICK n \in B : \A c \in B : n <= c
  <2> HIDE DEF B
  <2>1. B \in SUBSET Nat
    BY DEF B
  <2> QED BY <2>1, LeastNatural
<1>2. PICK m \in Nat : ~(m = 0 /\ n = 0) /\ ~Divides(Gcd[n][m], m, n)
  BY <1>1
<1>3. CASE n = 0
  <2>1. Gcd[n][m] = m
    BY <1>3, GcdDef
  <2>2. m = m * 1 /\ n = m * 0 /\ m # 0
    BY <1>2, <1>3
  <2>3. Divides(m, m, n)
    BY <2>2 DEF Divides
  <2> QED BY <1>2, <2>1, <2>3
<1>4. CASE n # 0
  <2>1. Gcd[n][m] = Gcd[Rem(m, n)][n]
    BY <1>1, <1>4, GcdDef
  <2>2. Rem(m, n) \in Nat /\ Rem(m, n) < n
    BY <1>1, <1>4, RemRange
  <2>3. Rem(m, n) \notin B
    BY <1>1, <2>2
  <2>4. Divides(Gcd[Rem(m, n)][n], n, Rem(m, n))
    BY <1>1, <1>4, <2>2, <2>3
  <2> QED BY <1>1, <1>2, <1>4, <2>1, <2>4, DivideStep
<1> QED BY <1>3, <1>4


\* The parts of a number.
LEMMA RatParts == \A t \in Rat : t[1] \in Int /\ t[2] \in Int /\ t[2] > 0
BY DEF Rat

\* A quotient in lowest terms is the quotient.
LEMMA QIsQuotient ==
  ASSUME NEW n \in Int, NEW d \in Int, d > 0
  PROVE  /\ Q(n, d) \in Rat
         /\ \E g \in Nat \ {0} : n = g * Q(n, d)[1] /\ d = g * Q(n, d)[2]
<1> DEFINE g == Gcd[AbsInt(d)][AbsInt(n)]
<1>1. AbsInt(d) = d /\ d \in Nat /\ AbsInt(n) \in Nat /\ (n = AbsInt(n) \/ n = -AbsInt(n))
  BY DEF AbsInt
<1>2. Divides(g, AbsInt(n), d)
  BY <1>1, GcdDivides
<1> HIDE DEF g
<1>3. g \in Nat \ {0}
  BY <1>2 DEF Divides
<1>4. PICK k \in Nat, l \in Nat : AbsInt(n) = g * k /\ d = g * l
  BY <1>2 DEF Divides
<1>5. PICK j \in Int : n = g * j
  <2>1. CASE n = AbsInt(n)
    BY <1>4, <2>1
  <2>2. CASE n = -AbsInt(n)
    <3>1. n = g * (-k)
      BY <1>3, <1>4, <2>2
    <3> QED BY <3>1
  <2> QED BY <1>1, <2>1, <2>2
<1>6. n \div g = j /\ d \div g = l
  <2>1. \A x \in Int : (x * g) \div g = x
    BY <1>3
  <2>2. n = j * g /\ d = l * g
    BY <1>3, <1>4, <1>5
  <2> QED BY <2>1, <2>2
<1>7. Q(n, d) = <<n \div g, d \div g>>
  <2>1. 1 * n = n /\ 1 * d = d /\ ~(d < 0)
    OBVIOUS
  <2> QED BY <2>1 DEF Q, g
<1>8. l > 0
  BY <1>3, <1>4
<1>9. Q(n, d) = <<j, l>>
  BY <1>6, <1>7
<1>10. Q(n, d) \in Rat
  BY <1>8, <1>9 DEF Rat
<1>11. Q(n, d)[1] = j /\ Q(n, d)[2] = l
  BY <1>9
<1> QED
  BY <1>3, <1>4, <1>5, <1>10, <1>11

\* Multiplying by a positive number keeps the order.
LEMMA Scale ==
  ASSUME NEW g \in Int, g > 0, NEW x \in Int, NEW y \in Int
  PROVE  /\ g * x <= g * y <=> x <= y
         /\ g * x < g * y <=> x < y
         /\ g * x \in Int /\ g * y \in Int
OBVIOUS

\* Comparing a reduced quotient with a number, from above.
LEMMA QuotientAtMost ==
  ASSUME NEW n \in Int, NEW d \in Int, d > 0, NEW x \in Rat
  PROVE  QLeq(Q(n, d), x) <=> n * x[2] <= x[1] * d
<1>1. PICK g \in Nat \ {0} : n = g * Q(n, d)[1] /\ d = g * Q(n, d)[2]
  BY QIsQuotient
<1> DEFINE j == Q(n, d)[1]
           l == Q(n, d)[2]
<1>2. j \in Int /\ l \in Int /\ n = g * j /\ d = g * l
  BY <1>1, QIsQuotient, RatParts
<1>3. x[1] \in Int /\ x[2] \in Int
  BY RatParts
<1>4. QLeq(Q(n, d), x) <=> j * x[2] <= x[1] * l
  BY DEF QLeq
<1> HIDE DEF j, l
<1>5. g * (j * x[2]) = n * x[2] /\ g * (x[1] * l) = x[1] * d
  BY <1>2, <1>3
<1>6. j * x[2] \in Int /\ x[1] * l \in Int
  BY <1>2, <1>3
<1> QED
  BY <1>4, <1>5, <1>6, Scale

\* The same from below.
LEMMA QuotientAtLeast ==
  ASSUME NEW n \in Int, NEW d \in Int, d > 0, NEW x \in Rat
  PROVE  QLeq(x, Q(n, d)) <=> x[1] * d <= n * x[2]
<1>1. PICK g \in Nat \ {0} : n = g * Q(n, d)[1] /\ d = g * Q(n, d)[2]
  BY QIsQuotient
<1> DEFINE j == Q(n, d)[1]
           l == Q(n, d)[2]
<1>2. j \in Int /\ l \in Int /\ n = g * j /\ d = g * l
  BY <1>1, QIsQuotient, RatParts
<1>3. x[1] \in Int /\ x[2] \in Int
  BY RatParts
<1>4. QLeq(x, Q(n, d)) <=> x[1] * l <= j * x[2]
  BY DEF QLeq
<1> HIDE DEF j, l
<1>5. g * (j * x[2]) = n * x[2] /\ g * (x[1] * l) = x[1] * d
  BY <1>2, <1>3
<1>6. j * x[2] \in Int /\ x[1] * l \in Int
  BY <1>2, <1>3
<1> QED
  BY <1>4, <1>5, <1>6, Scale

\* The order of the rationals.
LEMMA LeqTrans ==
  ASSUME NEW a \in Rat, NEW b \in Rat, NEW c \in Rat, QLeq(a, b), QLeq(b, c)
  PROVE  QLeq(a, c)
<1> DEFINE a1 == a[1]  a2 == a[2]  b1 == b[1]  b2 == b[2]  c1 == c[1]  c2 == c[2]
<1>1. /\ a1 \in Int /\ a2 \in Int /\ a2 > 0 /\ b1 \in Int /\ b2 \in Int /\ b2 > 0
      /\ c1 \in Int /\ c2 \in Int /\ c2 > 0
  BY RatParts
<1>2. a1 * b2 <= b1 * a2 /\ b1 * c2 <= c1 * b2
  BY DEF QLeq
<1>3. QLeq(a, c) <=> a1 * c2 <= c1 * a2
  BY DEF QLeq
<1> HIDE DEF a1, a2, b1, b2, c1, c2
<1>4. c2 * (a1 * b2) <= c2 * (b1 * a2)
  <2>1. a1 * b2 \in Int /\ b1 * a2 \in Int
    BY <1>1
  <2> QED BY <1>1, <1>2, <2>1, Scale
<1>5. a2 * (b1 * c2) <= a2 * (c1 * b2)
  <2>1. b1 * c2 \in Int /\ c1 * b2 \in Int
    BY <1>1
  <2> QED BY <1>1, <1>2, <2>1, Scale
<1>6. /\ c2 * (a1 * b2) = b2 * (a1 * c2) /\ c2 * (b1 * a2) = a2 * (b1 * c2)
      /\ a2 * (c1 * b2) = b2 * (c1 * a2)
  BY <1>1
<1>7. a1 * c2 \in Int /\ c1 * a2 \in Int
  BY <1>1
<1>8. b2 * (a1 * c2) <= b2 * (c1 * a2)
  <2>1. b2 * (a1 * c2) \in Int /\ a2 * (b1 * c2) \in Int /\ b2 * (c1 * a2) \in Int
    BY <1>1
  <2> QED BY <1>4, <1>5, <1>6, <2>1
<1> QED
  BY <1>1, <1>3, <1>7, <1>8, Scale

\* The order of numbers is total, and QLess is its strict part.
LEMMA LeqTotal ==
  ASSUME NEW a \in Rat, NEW b \in Rat
  PROVE  /\ QLess(a, b) <=> ~QLeq(b, a)
         /\ QLeq(a, b) \/ QLeq(b, a)
         /\ QLeq(a, a)
BY RatParts DEF QLess, QLeq

\* i comes before j in a stable ascending sort by score.
Before(score, i, j) ==
  \/ QLess(score[i], score[j])
  \/ ~QLess(score[j], score[i]) /\ i < j

\* How many come before i, and i itself.
Rank(score, S, i) == Cardinality({j \in S : Before(score, j, i)}) + 1

\* Ranked puts at r the index of rank r.
LEMMA RankedDef ==
  ASSUME NEW score, NEW S
  PROVE  Ranked(score, S) =
           [r \in 1 .. Cardinality(S) |-> CHOOSE i \in S : Rank(score, S, i) = r]
<1> DEFINE rank == [i \in S |-> Rank(score, S, i)]
<1>1. Ranked(score, S) = [r \in 1 .. Cardinality(S) |-> CHOOSE i \in S : rank[i] = r]
  BY DEF Ranked, InOrder, Rank, Before
<1>2. \A r : (CHOOSE i \in S : rank[i] = r) = (CHOOSE i \in S : Rank(score, S, i) = r)
  <2>1. \A i \in S : rank[i] = Rank(score, S, i)
    OBVIOUS
  <2> QED BY <2>1
<1> QED BY <1>1, <1>2, Zenon

\* Indices with a score: what Ranked is applied to.
Scored(score, S) ==
  IsFiniteSet(S) /\ S \subseteq Int /\ \A i \in S : score[i] \in Rat

\* Before is a strict total order.
LEMMA BeforeIsOrder ==
  ASSUME NEW score, NEW S, Scored(score, S)
  PROVE  /\ \A i \in S : ~Before(score, i, i)
         /\ \A i, j \in S : i = j \/ Before(score, i, j) \/ Before(score, j, i)
         /\ \A i, j, k \in S :
              Before(score, i, j) /\ Before(score, j, k) => Before(score, i, k)
         /\ \A i, j \in S : Before(score, i, j) => QLeq(score[i], score[j])
<1>1. \A i, j \in S : /\ score[i] \in Rat /\ score[j] \in Rat /\ i \in Int /\ j \in Int
                      /\ QLess(score[i], score[j]) <=> ~QLeq(score[j], score[i])
                      /\ QLeq(score[i], score[j]) \/ QLeq(score[j], score[i])
  BY LeqTotal DEF Scored
<1>2. \A i, j, k \in S : QLeq(score[i], score[j]) /\ QLeq(score[j], score[k])
                         => QLeq(score[i], score[k])
  BY <1>1, LeqTrans
<1>3. \A i, j \in S : Before(score, i, j) <=>
         \/ ~QLeq(score[j], score[i])
         \/ QLeq(score[i], score[j]) /\ i < j
  BY <1>1 DEF Before
<1>4. \A i \in S : ~Before(score, i, i)
  BY <1>1, <1>3
<1>5. \A i, j \in S : i = j \/ Before(score, i, j) \/ Before(score, j, i)
  <2> TAKE i, j \in S
  <2>1. i = j \/ i < j \/ j < i
    BY <1>1
  <2> QED BY <1>1, <1>3, <2>1
<1>6. \A i, j, k \in S : Before(score, i, j) /\ Before(score, j, k) => Before(score, i, k)
  BY <1>1, <1>2, <1>3
<1>7. \A i, j \in S : Before(score, i, j) => QLeq(score[i], score[j])
  BY <1>1, <1>3
<1> QED BY <1>4, <1>5, <1>6, <1>7

\* Who comes before has the lower rank.
LEMMA RankIncreases ==
  ASSUME NEW score, NEW S, Scored(score, S), NEW i \in S, NEW j \in S, Before(score, i, j)
  PROVE  Rank(score, S, i) < Rank(score, S, j)
<1> DEFINE I == {k \in S : Before(score, k, i)}
           J == {k \in S : Before(score, k, j)}
<1>1. I \subseteq J \ {i} /\ i \in J /\ J \subseteq S
  BY BeforeIsOrder
<1> HIDE DEF I, J
<1>2. IsFiniteSet(S)
  BY DEF Scored
<1>3. IsFiniteSet(J)
  BY <1>1, <1>2, FS_Subset
<1>4. IsFiniteSet(J \ {i}) /\ Cardinality(J \ {i}) = Cardinality(J) - 1
  BY <1>1, <1>3, FS_RemoveElement
<1>5. IsFiniteSet(I) /\ Cardinality(I) <= Cardinality(J \ {i})
  BY <1>1, <1>4, FS_Subset
<1>6. Cardinality(I) \in Nat /\ Cardinality(J) \in Nat
  BY <1>3, <1>5, FS_CardinalityType
<1> QED
  BY <1>4, <1>5, <1>6 DEF Rank, I, J

\* Ranks are between 1 and the number of indices.
LEMMA RankRange ==
  ASSUME NEW score, NEW S, Scored(score, S), NEW i \in S
  PROVE  Rank(score, S, i) \in 1 .. Cardinality(S)
<1> DEFINE I == {k \in S : Before(score, k, i)}
<1>1. I \subseteq S \ {i}
  BY BeforeIsOrder
<1> HIDE DEF I
<1>2. IsFiniteSet(S) /\ Cardinality(S) \in Nat
  BY FS_CardinalityType DEF Scored
<1>3. IsFiniteSet(S \ {i}) /\ Cardinality(S \ {i}) = Cardinality(S) - 1
  BY <1>2, FS_RemoveElement
<1>4. IsFiniteSet(I) /\ Cardinality(I) <= Cardinality(S \ {i}) /\ Cardinality(I) \in Nat
  BY <1>1, <1>3, FS_Subset, FS_CardinalityType
<1> QED
  BY <1>2, <1>3, <1>4 DEF Rank, I

\* Every rank is taken, by one element.
LEMMA RankIsBijection ==
  ASSUME NEW score, NEW S, Scored(score, S)
  PROVE  /\ \A i, j \in S : Rank(score, S, i) = Rank(score, S, j) => i = j
         /\ \A r \in 1 .. Cardinality(S) : \E i \in S : Rank(score, S, i) = r
<1> DEFINE N == 1 .. Cardinality(S)
           rank == [i \in S |-> Rank(score, S, i)]
<1>1. \A i \in S : Rank(score, S, i) \in N
  BY RankRange
<1>2. IsFiniteSet(S) /\ Cardinality(S) \in Nat
  BY FS_CardinalityType DEF Scored
<1>3. \A i, j \in S : Rank(score, S, i) = Rank(score, S, j) => i = j
  <2> SUFFICES ASSUME NEW i \in S, NEW j \in S, i # j
               PROVE  Rank(score, S, i) # Rank(score, S, j)
    OBVIOUS
  <2>1. Before(score, i, j) \/ Before(score, j, i)
    BY BeforeIsOrder
  <2>2. Rank(score, S, i) < Rank(score, S, j) \/ Rank(score, S, j) < Rank(score, S, i)
    BY <2>1, RankIncreases
  <2>3. Rank(score, S, i) \in Int /\ Rank(score, S, j) \in Int
    BY <1>1, <1>2
  <2> QED BY <2>2, <2>3
<1>4. IsFiniteSet(N) /\ Cardinality(N) = Cardinality(S)
  BY <1>2, FS_Interval
<1>5. rank \in Injection(S, N)
  BY <1>1, <1>3 DEF Injection, IsInjective
<1>6. rank \in Surjection(S, N)
  BY <1>4, <1>5, FS_Injection, Zenon
<1>7. \A r \in N : \E i \in S : rank[i] = r
  BY <1>6 DEF Surjection
<1> QED
  BY <1>3, <1>7

\* What Ranked returns: the elements of S, each once, in ascending order.
LEMMA RankedSorts ==
  ASSUME NEW score, NEW S, Scored(score, S)
  PROVE  LET R == Ranked(score, S)
             n == Cardinality(S)
         IN  /\ DOMAIN R = 1 .. n
             /\ R = [r \in 1 .. n |-> R[r]]
             /\ \A r \in 1 .. n : R[r] \in S /\ Rank(score, S, R[r]) = r
             /\ \A i \in S : Rank(score, S, i) \in 1 .. n /\ R[Rank(score, S, i)] = i
             /\ \A r, t \in 1 .. n : r <= t => QLeq(score[R[r]], score[R[t]])
<1> DEFINE R == Ranked(score, S)
           n == Cardinality(S)
<1>0. n \in Nat
  BY FS_CardinalityType DEF Scored
<1>1. R = [r \in 1 .. n |-> CHOOSE i \in S : Rank(score, S, i) = r]
  BY RankedDef
<1>2. DOMAIN R = 1 .. n /\ R = [r \in 1 .. n |-> R[r]]
  BY <1>1
<1>3. \A r \in 1 .. n : R[r] = CHOOSE i \in S : Rank(score, S, i) = r
  BY <1>1
<1> HIDE DEF R
<1>4. \A r \in 1 .. n : R[r] \in S /\ Rank(score, S, R[r]) = r
  BY <1>3, RankIsBijection
<1>5. \A i \in S : Rank(score, S, i) \in 1 .. n /\ R[Rank(score, S, i)] = i
  BY <1>4, RankRange, RankIsBijection
<1>6. ASSUME NEW r \in 1 .. n, NEW t \in 1 .. n, r <= t
      PROVE  QLeq(score[R[r]], score[R[t]])
  <2>1. R[r] \in S /\ R[t] \in S /\ Rank(score, S, R[r]) = r /\ Rank(score, S, R[t]) = t
    BY <1>4
  <2>2. CASE R[r] = R[t]
    <3>1. score[R[r]] \in Rat
      BY <2>1 DEF Scored
    <3> QED BY <2>2, <3>1, LeqTotal
  <2>3. CASE Before(score, R[r], R[t])
    BY <2>1, <2>3, BeforeIsOrder
  <2>4. CASE Before(score, R[t], R[r])
    <3>1. Rank(score, S, R[t]) < Rank(score, S, R[r])
      BY <2>1, <2>4, RankIncreases
    <3> QED BY <1>6, <2>1, <3>1
  <2> QED BY <2>1, <2>2, <2>3, <2>4, BeforeIsOrder
<1> QED
  BY <1>2, <1>4, <1>5, <1>6 DEF R

\* The elements of rank a to b are b - a + 1 in number.
LEMMA CountBetween ==
  ASSUME NEW score, NEW S, Scored(score, S),
         NEW a \in 1 .. Cardinality(S), NEW b \in a .. Cardinality(S)
  PROVE  LET M == {i \in S : Rank(score, S, i) \in a .. b}
         IN  IsFiniteSet(M) /\ Cardinality(M) = b - a + 1
<1> DEFINE M == {i \in S : Rank(score, S, i) \in a .. b}
           rank == [i \in M |-> Rank(score, S, i)]
<1>1. Cardinality(S) \in Nat
  BY FS_CardinalityType DEF Scored
<1>2. IsFiniteSet(a .. b) /\ Cardinality(a .. b) = b - a + 1
  BY <1>1, FS_Interval
<1>3. \A i, j \in M : Rank(score, S, i) = Rank(score, S, j) => i = j
  BY RankIsBijection
<1>4. \A r \in a .. b : \E i \in M : Rank(score, S, i) = r
  BY <1>1, RankIsBijection
<1>5. \A i \in M : Rank(score, S, i) \in a .. b
  OBVIOUS
<1> HIDE DEF M
<1>6. rank \in Injection(M, a .. b)
  BY <1>3, <1>5 DEF Injection, IsInjective
<1>7. rank \in Surjection(M, a .. b)
  BY <1>4, <1>5 DEF Surjection
<1>8. IsFiniteSet(M) /\ (Cardinality(M) = Cardinality(a .. b) <=> rank \in Surjection(M, a .. b))
  BY <1>2, <1>6, FS_Injection, Zenon
<1> QED
  BY <1>2, <1>7, <1>8 DEF M

\* A set too small to hold all elements of rank a to b misses one of them.
LEMMA OneOutside ==
  ASSUME NEW score, NEW S, Scored(score, S),
         NEW a \in 1 .. Cardinality(S), NEW b \in a .. Cardinality(S),
         NEW F, IsFiniteSet(F), Cardinality(F) <= b - a
  PROVE  \E i \in S \ F : Rank(score, S, i) \in a .. b
<1> DEFINE M == {i \in S : Rank(score, S, i) \in a .. b}
<1>1. IsFiniteSet(M) /\ Cardinality(M) = b - a + 1
  BY CountBetween
<1>2. Cardinality(S) \in Nat /\ Cardinality(F) \in Nat
  BY FS_CardinalityType DEF Scored
<1>3. ~(M \subseteq F)
  <2> SUFFICES ASSUME M \subseteq F PROVE FALSE
    OBVIOUS
  <2> HIDE DEF M
  <2>1. Cardinality(M) <= Cardinality(F)
    BY FS_Subset
  <2> QED BY <1>1, <1>2, <2>1
<1> QED
  BY <1>3

-----------------------------------------------------------------------------
(* Arithmetic *)

\* The operations give numbers.
LEMMA RatOps ==
  ASSUME NEW a \in Rat, NEW b \in Rat
  PROVE  /\ QAdd(a, b) \in Rat
         /\ QSub(a, b) \in Rat
         /\ QMul(a, b) \in Rat
         /\ b[1] > 0 => QDiv(a, b) \in Rat
<1>1. /\ a[1] \in Int /\ a[2] \in Int /\ a[2] > 0
      /\ b[1] \in Int /\ b[2] \in Int /\ b[2] > 0
  BY RatParts
<1>2. /\ a[1] * b[2] + b[1] * a[2] \in Int
      /\ a[1] * b[2] - b[1] * a[2] \in Int
      /\ a[1] * b[1] \in Int /\ a[1] * b[2] \in Int
      /\ a[2] * b[2] \in Int /\ a[2] * b[2] > 0
      /\ a[2] * b[1] \in Int /\ (b[1] > 0 => a[2] * b[1] > 0)
  BY <1>1
<1> QED
  BY <1>2, QIsQuotient DEF QAdd, QSub, QMul, QDiv

\* An integer as a number.
LEMMA RatInt == \A i \in Int : Int2Q(i) \in Rat /\ Int2Q(i)[1] = i /\ Int2Q(i)[2] = 1
BY DEF Int2Q, Rat

\* The element a sum over s starts with.
Pick(s) == CHOOSE x \in s : TRUE

\* g holds the sum over every subset of S with at most n elements.
SumUpTo(f, S, g, n) ==
  \A s \in SUBSET S : Cardinality(s) <= n =>
    g[s] = IF s = {} THEN Zero ELSE QAdd(f[Pick(s)], g[s \ {Pick(s)}])

\* From sums over the subsets of up to m elements to those of m + 1.
LEMMA SumExtend ==
  ASSUME NEW f, NEW S, IsFiniteSet(S), NEW m \in Nat, NEW g, SumUpTo(f, S, g, m)
  PROVE  \E h : SumUpTo(f, S, h, m + 1)
<1> DEFINE h == [s \in SUBSET S |->
                   IF Cardinality(s) <= m THEN g[s]
                   ELSE QAdd(f[Pick(s)], g[s \ {Pick(s)}])]
<1>1. /\ \A s \in SUBSET S : Cardinality(s) <= m => h[s] = g[s]
      /\ \A s \in SUBSET S : ~(Cardinality(s) <= m) =>
           h[s] = QAdd(f[Pick(s)], g[s \ {Pick(s)}])
  OBVIOUS
<1> HIDE DEF h
<1>2. ASSUME NEW s \in SUBSET S, Cardinality(s) <= m + 1
      PROVE  h[s] = IF s = {} THEN Zero ELSE QAdd(f[Pick(s)], h[s \ {Pick(s)}])
  <2>1. IsFiniteSet(s) /\ Cardinality(s) \in Nat
    BY FS_Subset, FS_CardinalityType
  <2>2. CASE s = {}
    <3>1. Cardinality(s) = 0
      BY <2>2, FS_EmptySet
    <3> QED BY <1>1, <2>2, <3>1 DEF SumUpTo
  <2>3. CASE s # {}
    <3> DEFINE x == Pick(s)
    <3>1. x \in s
      BY <2>3 DEF Pick
    <3>2. Cardinality(s \ {x}) = Cardinality(s) - 1 /\ s \ {x} \in SUBSET S
      BY <2>1, <3>1, FS_RemoveElement
    <3> HIDE DEF x
    <3>3. h[s \ {x}] = g[s \ {x}]
      BY <1>1, <1>2, <2>1, <3>2
    <3>4. h[s] = QAdd(f[x], g[s \ {x}])
      BY <1>1, <2>3 DEF SumUpTo, x
    <3> QED BY <2>3, <3>3, <3>4 DEF x
  <2> QED BY <2>2, <2>3
<1> QED
  BY <1>2 DEF SumUpTo

\* Such sums exist for every bound.
LEMMA SumExists ==
  ASSUME NEW f, NEW S, IsFiniteSet(S), NEW n \in Nat
  PROVE  \E g : SumUpTo(f, S, g, n)
<1> DEFINE T == {m \in Nat : \E g : SumUpTo(f, S, g, m)}
<1>1. 0 \in T
  <2> DEFINE g == [s \in SUBSET S |-> Zero]
  <2>1. \A s \in SUBSET S : Cardinality(s) <= 0 => s = {}
    BY FS_Subset, FS_CardinalityType, FS_EmptySet
  <2>2. SumUpTo(f, S, g, 0)
    BY <2>1 DEF SumUpTo
  <2> QED
    BY <2>2
<1>2. \A m \in Nat : m \in T => m + 1 \in T
  BY SumExtend
<1>3. T = Nat
  <2> HIDE DEF T
  <2>1. T \in SUBSET Nat
    BY DEF T
  <2> QED BY <1>1, <1>2, <2>1, Induct
<1> QED
  BY <1>3

\* g holds the sum over every subset of S.
SumOver(f, S, g) ==
  \A s \in SUBSET S :
    g[s] = IF s = {} THEN Zero ELSE QAdd(f[Pick(s)], g[s \ {Pick(s)}])

\* QSum takes the elements one by one.
LEMMA QSumDef ==
  ASSUME NEW f, NEW S, IsFiniteSet(S)
  PROVE  \E g : SumOver(f, S, g) /\ QSum(f, S) = g[S]
<1> DEFINE F(g) == [s \in SUBSET S |->
                      IF s = {} THEN Zero ELSE QAdd(f[Pick(s)], g[s \ {Pick(s)}])]
           iter == CHOOSE g : g = F(g)
<1>1. PICK g : SumUpTo(f, S, g, Cardinality(S))
  BY FS_CardinalityType, SumExists
<1>2. \A s \in SUBSET S :
        g[s] = IF s = {} THEN Zero ELSE QAdd(f[Pick(s)], g[s \ {Pick(s)}])
  <2>1. \A s \in SUBSET S : Cardinality(s) <= Cardinality(S)
    BY FS_Subset
  <2> QED BY <1>1, <2>1 DEF SumUpTo
<1> DEFINE h == [s \in SUBSET S |-> g[s]]
<1>3. h = F(h)
  <2>1. \A s \in SUBSET S : h[s] = g[s]
    OBVIOUS
  <2>2. \A s \in SUBSET S : s \ {Pick(s)} \in SUBSET S
    OBVIOUS
  <2>3. \A s \in SUBSET S :
          h[s] = IF s = {} THEN Zero ELSE QAdd(f[Pick(s)], h[s \ {Pick(s)}])
    BY <1>2, <2>1, <2>2
  <2>4. h = [s \in SUBSET S |-> h[s]]
    OBVIOUS
  <2> HIDE DEF h
  <2> QED BY <2>3, <2>4
<1> HIDE DEF h
<1>4. iter = F(iter)
  BY <1>3, Zenon
<1>5. QSum(f, S) = iter[S]
  BY Zenon DEF QSum, FoldFunctionOnSet, MapThenFoldSet, Pick
<1> HIDE DEF iter
<1>6. SumOver(f, S, iter)
  BY <1>4 DEF SumOver
<1> QED
  BY <1>5, <1>6

\* k times a.
Times(k, a) == <<k * a[1], a[2]>>

\* A multiple is a number.
LEMMA TimesIsRat ==
  ASSUME NEW k \in Int, NEW a \in Rat
  PROVE  Times(k, a) \in Rat /\ Times(k, a)[1] = k * a[1] /\ Times(k, a)[2] = a[2]
<1>1. a[1] \in Int /\ a[2] \in Int /\ a[2] > 0
  BY RatParts
<1>2. k * a[1] \in Int
  BY <1>1
<1> QED BY <1>1, <1>2 DEF Times, Rat

\* One more summand that is at least a.
LEMMA AddAtLeast ==
  ASSUME NEW k \in Int, NEW a \in Rat, NEW x \in Rat, NEW y \in Rat,
         QLeq(a, x), QLeq(Times(k, a), y)
  PROVE  QLeq(Times(k + 1, a), QAdd(x, y))
<1> DEFINE a1 == a[1]  a2 == a[2]  x1 == x[1]  x2 == x[2]  y1 == y[1]  y2 == y[2]
<1>1. /\ a1 \in Int /\ a2 \in Int /\ a2 > 0 /\ x1 \in Int /\ x2 \in Int /\ x2 > 0
      /\ y1 \in Int /\ y2 \in Int /\ y2 > 0
  BY RatParts
<1>2. a1 * x2 <= x1 * a2 /\ (k * a1) * y2 <= y1 * a2
  BY TimesIsRat DEF QLeq
<1>3. QLeq(Times(k + 1, a), QAdd(x, y)) <=>
        ((k + 1) * a1) * (x2 * y2) <= (x1 * y2 + y1 * x2) * a2
  <2>1. x2 * y2 \in Int /\ x2 * y2 > 0 /\ x1 * y2 + y1 * x2 \in Int
    BY <1>1
  <2>2. /\ Times(k + 1, a) \in Rat
        /\ Times(k + 1, a)[1] = (k + 1) * a1 /\ Times(k + 1, a)[2] = a2
    BY TimesIsRat
  <2>3. QAdd(x, y) = Q(x1 * y2 + y1 * x2, x2 * y2)
    BY DEF QAdd
  <2> HIDE DEF a1, a2, x1, x2, y1, y2
  <2> QED BY <2>1, <2>2, <2>3, QuotientAtLeast
<1> HIDE DEF a1, a2, x1, x2, y1, y2
<1>4. y2 * (a1 * x2) <= y2 * (x1 * a2)
  <2>1. a1 * x2 \in Int /\ x1 * a2 \in Int
    BY <1>1
  <2> QED BY <1>1, <1>2, <2>1, Scale
<1>5. x2 * ((k * a1) * y2) <= x2 * (y1 * a2)
  <2>1. (k * a1) * y2 \in Int /\ y1 * a2 \in Int
    BY <1>1
  <2> QED BY <1>1, <1>2, <2>1, Scale
<1>6. ((k + 1) * a1) * (x2 * y2) = y2 * (a1 * x2) + x2 * ((k * a1) * y2)
  BY <1>1
<1>7. (x1 * y2 + y1 * x2) * a2 = y2 * (x1 * a2) + x2 * (y1 * a2)
  BY <1>1
<1>8. /\ y2 * (a1 * x2) \in Int /\ y2 * (x1 * a2) \in Int
      /\ x2 * ((k * a1) * y2) \in Int /\ x2 * (y1 * a2) \in Int
  BY <1>1
<1> QED
  BY <1>3, <1>4, <1>5, <1>6, <1>7, <1>8

\* One more summand that is at most a.
LEMMA AddAtMost ==
  ASSUME NEW k \in Int, NEW a \in Rat, NEW x \in Rat, NEW y \in Rat,
         QLeq(x, a), QLeq(y, Times(k, a))
  PROVE  QLeq(QAdd(x, y), Times(k + 1, a))
<1> DEFINE a1 == a[1]  a2 == a[2]  x1 == x[1]  x2 == x[2]  y1 == y[1]  y2 == y[2]
<1>1. /\ a1 \in Int /\ a2 \in Int /\ a2 > 0 /\ x1 \in Int /\ x2 \in Int /\ x2 > 0
      /\ y1 \in Int /\ y2 \in Int /\ y2 > 0
  BY RatParts
<1>2. x1 * a2 <= a1 * x2 /\ y1 * a2 <= (k * a1) * y2
  BY TimesIsRat DEF QLeq
<1>3. QLeq(QAdd(x, y), Times(k + 1, a)) <=>
        (x1 * y2 + y1 * x2) * a2 <= ((k + 1) * a1) * (x2 * y2)
  <2>1. x2 * y2 \in Int /\ x2 * y2 > 0 /\ x1 * y2 + y1 * x2 \in Int
    BY <1>1
  <2>2. /\ Times(k + 1, a) \in Rat
        /\ Times(k + 1, a)[1] = (k + 1) * a1 /\ Times(k + 1, a)[2] = a2
    BY TimesIsRat
  <2>3. QAdd(x, y) = Q(x1 * y2 + y1 * x2, x2 * y2)
    BY DEF QAdd
  <2> HIDE DEF a1, a2, x1, x2, y1, y2
  <2> QED BY <2>1, <2>2, <2>3, QuotientAtMost
<1> HIDE DEF a1, a2, x1, x2, y1, y2
<1>4. y2 * (x1 * a2) <= y2 * (a1 * x2)
  <2>1. a1 * x2 \in Int /\ x1 * a2 \in Int
    BY <1>1
  <2> QED BY <1>1, <1>2, <2>1, Scale
<1>5. x2 * (y1 * a2) <= x2 * ((k * a1) * y2)
  <2>1. (k * a1) * y2 \in Int /\ y1 * a2 \in Int
    BY <1>1
  <2> QED BY <1>1, <1>2, <2>1, Scale
<1>6. ((k + 1) * a1) * (x2 * y2) = y2 * (a1 * x2) + x2 * ((k * a1) * y2)
  BY <1>1
<1>7. (x1 * y2 + y1 * x2) * a2 = y2 * (x1 * a2) + x2 * (y1 * a2)
  BY <1>1
<1>8. /\ y2 * (a1 * x2) \in Int /\ y2 * (x1 * a2) \in Int
      /\ x2 * ((k * a1) * y2) \in Int /\ x2 * (y1 * a2) \in Int
  BY <1>1
<1> QED
  BY <1>3, <1>4, <1>5, <1>6, <1>7, <1>8

\* A sum of numbers between lo and hi is between as many times lo and hi.
SumWithin(lo, hi, k, x) == x \in Rat /\ QLeq(Times(k, lo), x) /\ QLeq(x, Times(k, hi))

\* Every sum is within its bounds.
LEMMA SumBounds ==
  ASSUME NEW f, NEW S, IsFiniteSet(S), NEW lo \in Rat, NEW hi \in Rat,
         \A i \in S : f[i] \in Rat /\ QLeq(lo, f[i]) /\ QLeq(f[i], hi)
  PROVE  SumWithin(lo, hi, Cardinality(S), QSum(f, S))
<1>1. PICK g : SumOver(f, S, g) /\ QSum(f, S) = g[S]
  BY QSumDef
<1> DEFINE T == {m \in Nat : \A s \in SUBSET S :
                   Cardinality(s) = m => SumWithin(lo, hi, m, g[s])}
<1>2. 0 \in T
  <2>1. \A s \in SUBSET S : Cardinality(s) = 0 => s = {}
    BY FS_Subset, FS_EmptySet
  <2>2. g[{}] = Zero
    BY <1>1 DEF SumOver
  <2>3. SumWithin(lo, hi, 0, Zero)
    <3>1. Zero \in Rat /\ Zero[1] = 0 /\ Zero[2] = 1
      BY RatInt DEF Zero
    <3>2. /\ Times(0, lo)[1] = 0 * lo[1] /\ Times(0, lo)[2] = lo[2]
          /\ Times(0, hi)[1] = 0 * hi[1] /\ Times(0, hi)[2] = hi[2]
      BY TimesIsRat
    <3>3. lo[1] \in Int /\ lo[2] \in Int /\ hi[1] \in Int /\ hi[2] \in Int
      BY RatParts
    <3> QED BY <3>1, <3>2, <3>3 DEF SumWithin, QLeq
  <2> QED BY <2>1, <2>2, <2>3
<1>3. ASSUME NEW m \in Nat, m \in T PROVE m + 1 \in T
  <2> SUFFICES ASSUME NEW s \in SUBSET S, Cardinality(s) = m + 1
               PROVE  SumWithin(lo, hi, m + 1, g[s])
    OBVIOUS
  <2>1. IsFiniteSet(s)
    BY FS_Subset
  <2>2. s # {}
    BY FS_EmptySet
  <2> DEFINE x == Pick(s)
             t == s \ {x}
  <2>3. x \in s
    BY <2>2 DEF Pick
  <2>4. t \in SUBSET S /\ Cardinality(t) = m
    <3>1. Cardinality(t) = Cardinality(s) - 1
      BY <2>1, <2>3, FS_RemoveElement
    <3> QED BY <3>1
  <2>5. g[s] = QAdd(f[x], g[t])
    BY <1>1, <2>2 DEF SumOver
  <2>6. SumWithin(lo, hi, m, g[t])
    BY <1>3, <2>4
  <2>7. f[x] \in Rat /\ QLeq(lo, f[x]) /\ QLeq(f[x], hi)
    BY <2>3
  <2> HIDE DEF x, t, T
  <2>8. QAdd(f[x], g[t]) \in Rat
    BY <2>6, <2>7, RatOps DEF SumWithin
  <2> QED
    BY <2>5, <2>6, <2>7, <2>8, AddAtLeast, AddAtMost DEF SumWithin
<1>4. T = Nat
  <2> HIDE DEF T
  <2>1. T \in SUBSET Nat
    BY DEF T
  <2> QED BY <1>2, <1>3, <2>1, Induct
<1>5. Cardinality(S) \in Nat
  BY FS_CardinalityType
<1> QED
  BY <1>1, <1>4, <1>5

\* The average of numbers between lo and hi is between them.
LEMMA MeanWithin ==
  ASSUME NEW lo \in Rat, NEW hi \in Rat, NEW k \in Int, k > 0, NEW x,
         SumWithin(lo, hi, k, x)
  PROVE  /\ QDiv(x, Int2Q(k)) \in Rat
         /\ QLeq(lo, QDiv(x, Int2Q(k))) /\ QLeq(QDiv(x, Int2Q(k)), hi)
<1>1. /\ x \in Rat /\ x[1] \in Int /\ x[2] \in Int /\ x[2] > 0
      /\ lo[1] \in Int /\ lo[2] \in Int /\ hi[1] \in Int /\ hi[2] \in Int
  BY RatParts DEF SumWithin
<1>2. (k * lo[1]) * x[2] <= x[1] * lo[2] /\ x[1] * hi[2] <= (k * hi[1]) * x[2]
  BY TimesIsRat DEF SumWithin, QLeq
<1>3. QDiv(x, Int2Q(k)) = Q(x[1] * 1, x[2] * k)
  BY RatInt DEF QDiv
<1>4. x[1] * 1 = x[1] /\ x[2] * k \in Int /\ x[2] * k > 0
  BY <1>1
<1>5. lo[1] * (x[2] * k) = (k * lo[1]) * x[2] /\ hi[1] * (x[2] * k) = (k * hi[1]) * x[2]
  BY <1>1
<1> DEFINE d == x[2] * k
<1>6. QDiv(x, Int2Q(k)) = Q(x[1], d) /\ d \in Int /\ d > 0
  BY <1>3, <1>4
<1>7. lo[1] * d <= x[1] * lo[2] /\ x[1] * hi[2] <= hi[1] * d
  BY <1>2, <1>5
<1> HIDE DEF d
<1>8. Q(x[1], d) \in Rat
  BY <1>1, <1>6, QIsQuotient
<1>9. QLeq(lo, Q(x[1], d)) <=> lo[1] * d <= x[1] * lo[2]
  BY <1>1, <1>6, QuotientAtLeast
<1>10. QLeq(Q(x[1], d), hi) <=> x[1] * hi[2] <= hi[1] * d
  BY <1>1, <1>6, QuotientAtMost
<1> QED
  BY <1>6, <1>7, <1>8, <1>9, <1>10

\* Zero, and what is not below it.
LEMMA ZeroIsRat ==
  Zero \in Rat /\ Zero[1] = 0 /\ Zero[2] = 1 /\ \A a \in Rat : QLeq(Zero, a) <=> a[1] >= 0
<1>1. Zero \in Rat /\ Zero[1] = 0 /\ Zero[2] = 1
  BY RatInt DEF Zero
<1> QED BY <1>1, RatParts DEF QLeq

\* Adding what is not negative makes nothing smaller.
LEMMA AddGrows ==
  ASSUME NEW a \in Rat, NEW b \in Rat, QLeq(Zero, a), QLeq(Zero, b)
  PROVE  QLeq(a, QAdd(a, b)) /\ QLeq(b, QAdd(a, b)) /\ QLeq(Zero, QAdd(a, b))
<1> DEFINE a1 == a[1]  a2 == a[2]  b1 == b[1]  b2 == b[2]
<1>1. /\ a1 \in Nat /\ a2 \in Int /\ a2 > 0 /\ b1 \in Nat /\ b2 \in Int /\ b2 > 0
  BY RatParts, ZeroIsRat
<1>2. QAdd(a, b) = Q(a1 * b2 + b1 * a2, a2 * b2)
  BY DEF QAdd
<1>3. /\ QLeq(a, Q(a1 * b2 + b1 * a2, a2 * b2)) <=>
           a1 * (a2 * b2) <= (a1 * b2 + b1 * a2) * a2
      /\ QLeq(b, Q(a1 * b2 + b1 * a2, a2 * b2)) <=>
           b1 * (a2 * b2) <= (a1 * b2 + b1 * a2) * b2
  <2>1. a1 * b2 + b1 * a2 \in Int /\ a2 * b2 \in Int /\ a2 * b2 > 0
    BY <1>1
  <2> QED BY <2>1, QuotientAtLeast
<1> HIDE DEF a1, a2, b1, b2
<1>4. (a1 * b2 + b1 * a2) * a2 = a1 * (a2 * b2) + b1 * (a2 * a2)
  BY <1>1
<1>5. (a1 * b2 + b1 * a2) * b2 = b1 * (a2 * b2) + a1 * (b2 * b2)
  BY <1>1
<1>6. /\ b1 * (a2 * a2) \in Nat /\ a1 * (b2 * b2) \in Nat
      /\ a1 * (a2 * b2) \in Nat /\ b1 * (a2 * b2) \in Nat
  BY <1>1
<1>7. QLeq(a, QAdd(a, b)) /\ QLeq(b, QAdd(a, b))
  BY <1>2, <1>3, <1>4, <1>5, <1>6
<1> QED
  BY <1>7, LeqTrans, RatOps, ZeroIsRat

\* No term of a sum of numbers that are not negative exceeds it.
LEMMA TermAtMostSum ==
  ASSUME NEW f, NEW S, IsFiniteSet(S), \A i \in S : f[i] \in Rat /\ QLeq(Zero, f[i])
  PROVE  QSum(f, S) \in Rat /\ \A i \in S : QLeq(f[i], QSum(f, S))
<1>1. PICK g : SumOver(f, S, g) /\ QSum(f, S) = g[S]
  BY QSumDef
<1> DEFINE Dominates(s) == g[s] \in Rat /\ QLeq(Zero, g[s]) /\ \A i \in s : QLeq(f[i], g[s])
           T == {m \in Nat : \A s \in SUBSET S : Cardinality(s) = m => Dominates(s)}
<1>2. 0 \in T
  <2>1. \A s \in SUBSET S : Cardinality(s) = 0 => s = {}
    BY FS_Subset, FS_EmptySet
  <2>2. g[{}] = Zero
    BY <1>1 DEF SumOver
  <2> QED BY <2>1, <2>2, ZeroIsRat
<1>3. ASSUME NEW m \in Nat, m \in T PROVE m + 1 \in T
  <2> SUFFICES ASSUME NEW s \in SUBSET S, Cardinality(s) = m + 1
               PROVE  Dominates(s)
    OBVIOUS
  <2>1. IsFiniteSet(s)
    BY FS_Subset
  <2>2. s # {}
    BY FS_EmptySet
  <2> DEFINE x == Pick(s)
             t == s \ {x}
  <2>3. x \in s
    BY <2>2 DEF Pick
  <2>4. t \in SUBSET S /\ Cardinality(t) = m
    <3>1. Cardinality(t) = Cardinality(s) - 1
      BY <2>1, <2>3, FS_RemoveElement
    <3> QED BY <3>1
  <2>5. g[s] = QAdd(f[x], g[t])
    BY <1>1, <2>2 DEF SumOver
  <2>6. Dominates(t)
    BY <1>3, <2>4
  <2>7. f[x] \in Rat /\ QLeq(Zero, f[x])
    BY <2>3
  <2>8. \A i \in s : i = x \/ i \in t
    OBVIOUS
  <2> HIDE DEF x, t, T
  <2>9. /\ g[s] \in Rat /\ QLeq(f[x], g[s]) /\ QLeq(g[t], g[s]) /\ QLeq(Zero, g[s])
    BY <2>5, <2>6, <2>7, RatOps, AddGrows
  <2>10. ASSUME NEW i \in s PROVE QLeq(f[i], g[s])
    <3>1. f[i] \in Rat
      OBVIOUS
    <3>2. i \in t => QLeq(f[i], g[t])
      BY <2>6
    <3> QED BY <2>6, <2>8, <2>9, <3>1, <3>2, LeqTrans
  <2> QED
    BY <2>9, <2>10
<1>4. T = Nat
  <2> HIDE DEF T
  <2>1. T \in SUBSET Nat
    BY DEF T
  <2> QED BY <1>2, <1>3, <2>1, Induct
<1>5. Cardinality(S) \in Nat
  BY FS_CardinalityType
<1> QED
  BY <1>1, <1>4, <1>5

\* The same number, whatever its representation.
Same(a, b) == QLeq(a, b) /\ QLeq(b, a)

\* Quotients with equal cross products are the same number.
LEMMA QuotientsSame ==
  ASSUME NEW n \in Int, NEW d \in Int, d > 0, NEW m \in Int, NEW e \in Int, e > 0,
         n * e = m * d
  PROVE  Same(Q(n, d), Q(m, e))
<1>1. PICK g \in Nat \ {0} : m = g * Q(m, e)[1] /\ e = g * Q(m, e)[2]
  BY QIsQuotient
<1> DEFINE j == Q(m, e)[1]
           l == Q(m, e)[2]
<1>2. j \in Int /\ l \in Int /\ m = g * j /\ e = g * l /\ Q(m, e) \in Rat
  BY <1>1, QIsQuotient, RatParts
<1>3. /\ QLeq(Q(n, d), Q(m, e)) <=> n * l <= j * d
      /\ QLeq(Q(m, e), Q(n, d)) <=> j * d <= n * l
  BY <1>2, QuotientAtMost, QuotientAtLeast
<1> HIDE DEF j, l
<1>4. g * (n * l) = n * e /\ g * (j * d) = m * d
  BY <1>2
<1>5. n * l \in Int /\ j * d \in Int
  BY <1>2
<1>6. n * l <= j * d /\ j * d <= n * l
  BY <1>4, <1>5, Scale
<1> QED BY <1>3, <1>6 DEF Same

\* Subtraction does not depend on the representation.
LEMMA SubSame ==
  ASSUME NEW a \in Rat, NEW b \in Rat, NEW h \in Rat, Same(a, b)
  PROVE  Same(QSub(a, h), QSub(b, h))
<1> DEFINE a1 == a[1]  a2 == a[2]  b1 == b[1]  b2 == b[2]  h1 == h[1]  h2 == h[2]
<1>1. /\ a1 \in Int /\ a2 \in Int /\ a2 > 0 /\ b1 \in Int /\ b2 \in Int /\ b2 > 0
      /\ h1 \in Int /\ h2 \in Int /\ h2 > 0
  BY RatParts
<1>2. a1 * b2 = b1 * a2
  <2>1. a1 * b2 <= b1 * a2 /\ b1 * a2 <= a1 * b2
    BY DEF Same, QLeq
  <2> HIDE DEF a1, a2, b1, b2
  <2>2. a1 * b2 \in Int /\ b1 * a2 \in Int
    BY <1>1
  <2> QED BY <2>1, <2>2
<1>3. QSub(a, h) = Q(a1 * h2 - h1 * a2, a2 * h2) /\ QSub(b, h) = Q(b1 * h2 - h1 * b2, b2 * h2)
  BY DEF QSub
<1> HIDE DEF a1, a2, b1, b2, h1, h2
<1>4. /\ a1 * h2 - h1 * a2 \in Int /\ a2 * h2 \in Int /\ a2 * h2 > 0
      /\ b1 * h2 - h1 * b2 \in Int /\ b2 * h2 \in Int /\ b2 * h2 > 0
  BY <1>1
<1>5. (a1 * h2 - h1 * a2) * (b2 * h2) = (b1 * h2 - h1 * b2) * (a2 * h2)
  <2>1. (a1 * h2 - h1 * a2) * (b2 * h2) = (a1 * b2) * (h2 * h2) - (h1 * h2) * (a2 * b2)
    BY <1>1
  <2>2. (b1 * h2 - h1 * b2) * (a2 * h2) = (b1 * a2) * (h2 * h2) - (h1 * h2) * (a2 * b2)
    BY <1>1
  <2> QED BY <1>2, <2>1, <2>2
<1> QED
  BY <1>3, <1>4, <1>5, QuotientsSame

\* Nor does squaring.
LEMMA SquareSame ==
  ASSUME NEW a \in Rat, NEW b \in Rat, Same(a, b)
  PROVE  Same(QMul(a, a), QMul(b, b))
<1> DEFINE a1 == a[1]  a2 == a[2]  b1 == b[1]  b2 == b[2]
<1>1. /\ a1 \in Int /\ a2 \in Int /\ a2 > 0 /\ b1 \in Int /\ b2 \in Int /\ b2 > 0
  BY RatParts
<1>2. a1 * b2 = b1 * a2
  <2>1. a1 * b2 <= b1 * a2 /\ b1 * a2 <= a1 * b2
    BY DEF Same, QLeq
  <2> HIDE DEF a1, a2, b1, b2
  <2>2. a1 * b2 \in Int /\ b1 * a2 \in Int
    BY <1>1
  <2> QED BY <2>1, <2>2
<1>3. QMul(a, a) = Q(a1 * a1, a2 * a2) /\ QMul(b, b) = Q(b1 * b1, b2 * b2)
  BY DEF QMul
<1> HIDE DEF a1, a2, b1, b2
<1>4. /\ a1 * a1 \in Int /\ a2 * a2 \in Int /\ a2 * a2 > 0
      /\ b1 * b1 \in Int /\ b2 * b2 \in Int /\ b2 * b2 > 0
  BY <1>1
<1>5. (a1 * a1) * (b2 * b2) = (b1 * b1) * (a2 * a2)
  <2>1. (a1 * a1) * (b2 * b2) = (a1 * b2) * (a1 * b2)
    BY <1>1
  <2>2. (b1 * b1) * (a2 * a2) = (b1 * a2) * (b1 * a2)
    BY <1>1
  <2> QED BY <1>2, <2>1, <2>2
<1> QED
  BY <1>3, <1>4, <1>5, QuotientsSame

\* A square is not negative.
LEMMA SquareNotNegative ==
  ASSUME NEW a \in Rat PROVE QMul(a, a) \in Rat /\ QLeq(Zero, QMul(a, a))
<1>1. a[1] \in Int /\ a[2] \in Int /\ a[2] > 0
  BY RatParts
<1>2. a[1] * a[1] \in Nat /\ a[2] * a[2] \in Int /\ a[2] * a[2] > 0
  BY <1>1
<1>3. QMul(a, a) = Q(a[1] * a[1], a[2] * a[2])
  BY DEF QMul
<1>4. QLeq(Zero, QMul(a, a)) <=> 0 * (a[2] * a[2]) <= (a[1] * a[1]) * 1
  BY <1>2, <1>3, QuotientAtLeast, ZeroIsRat
<1> QED BY <1>2, <1>4, RatOps

\* A column of n numbers.
IsColumn(col, n) == n \in Nat \ {0} /\ col \in [1 .. n -> Rat] /\ Len(col) = n

\* The indices of a column can be ranked by its numbers.
LEMMA ColumnScored ==
  ASSUME NEW n, NEW col, IsColumn(col, n)
  PROVE  /\ Scored(col, 1 .. n) /\ Cardinality(1 .. n) = n /\ DOMAIN col = 1 .. n
<1>1. n \in Nat \ {0} /\ col \in [1 .. n -> Rat]
  BY DEF IsColumn
<1>2. IsFiniteSet(1 .. n) /\ Cardinality(1 .. n) = n
  BY <1>1, FS_Interval
<1> QED BY <1>1, <1>2 DEF Scored

\* What Sorted returns, and who is not above or below its r-th number.
LEMMA SortedFacts ==
  ASSUME NEW n, NEW col, IsColumn(col, n)
  PROVE  /\ \A r \in 1 .. n : Sorted(col)[r] \in Rat
         /\ \A r, t \in 1 .. n : r <= t => QLeq(Sorted(col)[r], Sorted(col)[t])
         /\ \A r \in 1 .. n : \A F : IsFiniteSet(F) /\ Cardinality(F) <= r - 1 =>
              \E i \in (1 .. n) \ F : QLeq(col[i], Sorted(col)[r])
         /\ \A r \in 1 .. n : \A F : IsFiniteSet(F) /\ Cardinality(F) <= n - r =>
              \E i \in (1 .. n) \ F : QLeq(Sorted(col)[r], col[i])
<1> DEFINE S == 1 .. n
           R == Ranked(col, S)
<1>0. n \in Nat \ {0}
  BY DEF IsColumn
<1>1. /\ Scored(col, S) /\ Cardinality(S) = n /\ DOMAIN col = S
      /\ \A i \in S : col[i] \in Rat
  BY ColumnScored DEF IsColumn
<1>2. /\ DOMAIN R = 1 .. n
      /\ \A r \in 1 .. n : R[r] \in S /\ Rank(col, S, R[r]) = r
      /\ \A i \in S : Rank(col, S, i) \in 1 .. n /\ R[Rank(col, S, i)] = i
      /\ \A r, t \in 1 .. n : r <= t => QLeq(col[R[r]], col[R[t]])
  BY <1>0, <1>1, RankedSorts
<1>3. Sorted(col) = [r \in DOMAIN R |-> col[R[r]]]
  BY <1>1 DEF Sorted
<1>4. \A r \in 1 .. n : Sorted(col)[r] = col[R[r]]
  BY <1>2, <1>3
<1> HIDE DEF R, S
<1>5. ASSUME NEW r \in 1 .. n, NEW F, IsFiniteSet(F), Cardinality(F) <= r - 1
      PROVE  \E i \in S \ F : QLeq(col[i], col[R[r]])
  <2>0. 1 \in 1 .. Cardinality(S) /\ r \in 1 .. Cardinality(S)
    <3>1. 1 \in 1 .. n
      BY <1>0
    <3> QED BY <1>1, <3>1
  <2>1. PICK i \in S \ F : Rank(col, S, i) \in 1 .. r
    BY <1>1, <1>5, <2>0, OneOutside
  <2> QED BY <1>2, <2>1
<1>6. ASSUME NEW r \in 1 .. n, NEW F, IsFiniteSet(F), Cardinality(F) <= n - r
      PROVE  \E i \in S \ F : QLeq(col[R[r]], col[i])
  <2>0. r \in 1 .. Cardinality(S) /\ n \in r .. Cardinality(S)
    <3>1. n \in r .. n
      BY <1>0
    <3> QED BY <1>1, <3>1
  <2>1. PICK i \in S \ F : Rank(col, S, i) \in r .. n
    BY <1>1, <1>6, <2>0, OneOutside
  <2> QED BY <1>2, <2>1
<1> QED
  BY <1>1, <1>2, <1>4, <1>5, <1>6 DEF S

\* x is not below every number of col outside F, nor above every one.
Between(x, col, n, F) ==
  /\ x \in Rat
  /\ \E i \in (1 .. n) \ F : QLeq(col[i], x)
  /\ \E i \in (1 .. n) \ F : QLeq(x, col[i])

\* From between two sorted numbers to between two numbers outside F.
LEMMA BetweenSorted ==
  ASSUME NEW n, NEW col, IsColumn(col, n), NEW F, IsFiniteSet(F),
         NEW r \in 1 .. n, NEW t \in 1 .. n, Cardinality(F) <= r - 1, Cardinality(F) <= n - t,
         NEW x \in Rat, QLeq(Sorted(col)[r], x), QLeq(x, Sorted(col)[t])
  PROVE  Between(x, col, n, F)
<1> DEFINE s == Sorted(col)
<1>1. s[r] \in Rat /\ s[t] \in Rat
  BY SortedFacts
<1>2. PICK i \in (1 .. n) \ F : QLeq(col[i], s[r])
  BY SortedFacts
<1>3. PICK j \in (1 .. n) \ F : QLeq(s[t], col[j])
  BY SortedFacts
<1>4. col[i] \in Rat /\ col[j] \in Rat
  BY DEF IsColumn
<1> HIDE DEF s
<1>5. QLeq(col[i], x) /\ QLeq(x, col[j])
  BY <1>1, <1>2, <1>3, <1>4, LeqTrans DEF s
<1> QED BY <1>5 DEF Between

\* The mean of two numbers is between them.
LEMMA MidPoint ==
  ASSUME NEW a \in Rat, NEW b \in Rat, QLeq(a, b)
  PROVE  LET m == QDiv(QAdd(a, b), Int2Q(2))
         IN  m \in Rat /\ QLeq(a, m) /\ QLeq(m, b)
<1>1. Times(1, a) = a /\ Times(1, b) = b
  <2>1. a[1] \in Int /\ b[1] \in Int /\ a = <<a[1], a[2]>> /\ b = <<b[1], b[2]>>
    BY DEF Rat
  <2> QED BY <2>1 DEF Times
<1>2. QLeq(Times(1 + 1, a), QAdd(a, b))
  BY <1>1, LeqTotal, AddAtLeast
<1>3. QLeq(QAdd(a, b), Times(1 + 1, b))
  BY <1>1, LeqTotal, AddAtMost
<1>4. SumWithin(a, b, 2, QAdd(a, b))
  BY <1>2, <1>3, RatOps DEF SumWithin
<1> QED
  BY <1>4, MeanWithin

\* Whichever minority of a column is arbitrary, the median is between others.
LEMMA MedianBetween ==
  ASSUME NEW n, NEW col, IsColumn(col, n), NEW F, IsFiniteSet(F),
         Cardinality(F) <= (n - 1) \div 2
  PROVE  Between(Median(col), col, n, F)
<1> DEFINE s == Sorted(col)
           h == n \div 2
<1>1. n \in Nat \ {0} /\ Len(col) = n
  BY DEF IsColumn
<1>2. Cardinality(F) \in Nat
  BY FS_CardinalityType
<1>3. CASE n % 2 = 1
  <2>1. Median(col) = s[h + 1]
    BY <1>1, <1>3 DEF Median
  <2>2. n = 2 * h + 1 /\ h \in Nat /\ (n - 1) \div 2 = h
    BY <1>1, <1>3
  <2> HIDE DEF h
  <2>3. h + 1 \in 1 .. n /\ Cardinality(F) <= (h + 1) - 1 /\ Cardinality(F) <= n - (h + 1)
    BY <1>2, <2>2
  <2>4. s[h + 1] \in Rat /\ QLeq(s[h + 1], s[h + 1])
    BY <2>3, SortedFacts, LeqTotal
  <2> QED BY <2>1, <2>3, <2>4, BetweenSorted
<1>4. CASE n % 2 # 1
  <2>1. Median(col) = QDiv(QAdd(s[h], s[h + 1]), Int2Q(2))
    BY <1>1, <1>4 DEF Median
  <2>2. n = 2 * h /\ h \in Nat \ {0} /\ (n - 1) \div 2 = h - 1
    BY <1>1, <1>4
  <2> HIDE DEF h
  <2>3. h \in 1 .. n /\ h + 1 \in 1 .. n /\ h <= h + 1
        /\ Cardinality(F) <= h - 1 /\ Cardinality(F) <= n - (h + 1)
    BY <1>2, <2>2
  <2>4. s[h] \in Rat /\ s[h + 1] \in Rat /\ QLeq(s[h], s[h + 1])
    BY <2>3, SortedFacts
  <2> HIDE DEF s
  <2>5. Median(col) \in Rat /\ QLeq(s[h], Median(col)) /\ QLeq(Median(col), s[h + 1])
    BY <2>1, <2>4, MidPoint
  <2> QED BY <2>3, <2>5, BetweenSorted DEF s
<1> QED BY <1>3, <1>4

\* The same for a trimmed mean that trims as many as may be arbitrary.
LEMMA TrimmedMeanBetween ==
  ASSUME NEW n, NEW col, IsColumn(col, n), NEW F, IsFiniteSet(F), NEW p,
         NEW f \in Nat, f = ByzantineCount(p, n), 2 * f + 1 <= n,
         Cardinality(F) <= f
  PROVE  Between(TrimmedMean(p, col), col, n, F)
<1> DEFINE s == Sorted(col)
           M == f + 1 .. n - f
           half == (n - 1) \div 2
           trim == IF f < half THEN f ELSE half
<1>1. n \in Nat \ {0} /\ Len(col) = n
  BY DEF IsColumn
<1>2. Cardinality(F) \in Nat
  BY FS_CardinalityType
<1>3. trim = f
  BY <1>1
<1>4. TrimmedMean(p, col) = QDiv(QSum(s, trim + 1 .. n - trim), Int2Q(n - 2 * trim))
  BY <1>1 DEF TrimmedMean
<1>5. TrimmedMean(p, col) = QDiv(QSum(s, M), Int2Q(n - 2 * f))
  BY <1>3, <1>4
<1> HIDE DEF trim
<1>6. IsFiniteSet(M) /\ Cardinality(M) = n - 2 * f /\ M \subseteq 1 .. n
  <2>1. f + 1 \in Int /\ n - f \in Int /\ ~(f + 1 > n - f)
    BY <1>1
  <2>2. IsFiniteSet(M) /\ Cardinality(M) = (n - f) - (f + 1) + 1
    BY <2>1, FS_Interval
  <2>3. (n - f) - (f + 1) + 1 = n - 2 * f
    BY <1>1
  <2>4. M \subseteq 1 .. n
    BY <1>1
  <2> QED BY <2>2, <2>3, <2>4
<1>7. f + 1 \in 1 .. n /\ n - f \in 1 .. n
  BY <1>1
<1>8. \A r \in 1 .. n : s[r] \in Rat
  BY SortedFacts
<1>9. \A i \in M : s[i] \in Rat /\ QLeq(s[f + 1], s[i]) /\ QLeq(s[i], s[n - f])
  BY <1>1, <1>7, SortedFacts
<1> HIDE DEF s
<1>10. SumWithin(s[f + 1], s[n - f], n - 2 * f, QSum(s, M))
  <2> HIDE DEF M
  <2> QED BY <1>6, <1>7, <1>8, <1>9, SumBounds
<1>11. /\ TrimmedMean(p, col) \in Rat
       /\ QLeq(s[f + 1], TrimmedMean(p, col)) /\ QLeq(TrimmedMean(p, col), s[n - f])
  <2>1. n - 2 * f \in Int /\ n - 2 * f > 0
    BY <1>1
  <2> QED BY <1>5, <1>7, <1>8, <1>10, <2>1, MeanWithin
<1>12. Cardinality(F) <= (f + 1) - 1 /\ Cardinality(F) <= n - (n - f)
  BY <1>1, <1>2
<1> QED
  BY <1>7, <1>11, <1>12, BetweenSorted DEF s

\* The k lowest of a ranking, as a set.
LEMMA Nearest ==
  ASSUME NEW score, NEW S, Scored(score, S), NEW k \in 1 .. Cardinality(S)
  PROVE  LET N == {Ranked(score, S)[r] : r \in 1 .. k}
         IN  /\ N \subseteq S /\ IsFiniteSet(N) /\ Cardinality(N) = k
             /\ \A j \in N, l \in S \ N : QLeq(score[j], score[l])
<1> DEFINE R == Ranked(score, S)
           n == Cardinality(S)
           N == {R[r] : r \in 1 .. k}
           M == {i \in S : Rank(score, S, i) \in 1 .. k}
<1>1. n \in Nat /\ k \in Nat /\ 1 <= k /\ k <= n
  BY FS_CardinalityType DEF Scored
<1>2. /\ \A r \in 1 .. n : R[r] \in S /\ Rank(score, S, R[r]) = r
      /\ \A i \in S : Rank(score, S, i) \in 1 .. n /\ R[Rank(score, S, i)] = i
      /\ \A r, t \in 1 .. n : r <= t => QLeq(score[R[r]], score[R[t]])
  BY RankedSorts
<1> HIDE DEF R, n
<1>3. \A r \in 1 .. k : r \in 1 .. n
  BY <1>1
<1>4. N = M
  BY <1>2, <1>3
<1>5. IsFiniteSet(M) /\ Cardinality(M) = k - 1 + 1
  <2>1. 1 \in 1 .. Cardinality(S) /\ k \in 1 .. Cardinality(S)
    BY <1>1 DEF n
  <2> HIDE DEF M
  <2> QED BY <2>1, CountBetween DEF M
<1>6. ASSUME NEW j \in M, NEW l \in S \ M
      PROVE  QLeq(score[j], score[l])
  <2>1. Rank(score, S, j) \in 1 .. n /\ Rank(score, S, l) \in 1 .. n
    BY <1>2
  <2>2. Rank(score, S, j) <= Rank(score, S, l)
    BY <1>1, <2>1
  <2> QED BY <1>2, <2>1, <2>2
<1> QED
  BY <1>1, <1>4, <1>5, <1>6 DEF R

\* A batch of n updates.
IsBatch(b, n) ==
  /\ n \in Nat \ {0} /\ DOMAIN b = 1 .. n /\ Len(b) = n
  /\ \A i \in 1 .. n : b[i].x \in Rat

\* A squared distance is a number, and not negative.
LEMMA DistanceIsRat ==
  ASSUME NEW n, NEW b, IsBatch(b, n), NEW i \in 1 .. n, NEW j \in 1 .. n
  PROVE  Distance2(b[i], b[j]) \in Rat /\ QLeq(Zero, Distance2(b[i], b[j]))
<1>1. QSub(b[i].x, b[j].x) \in Rat
  BY RatOps DEF IsBatch
<1> QED BY <1>1, SquareNotNegative DEF Distance2

\* The distances from update i to the others.
Others(n, i) == (1 .. n) \ {i}
Distances(b, n, i) == [j \in Others(n, i) |-> Distance2(b[i], b[j])]

\* N is k others, none farther than the rest, and i's score their distances.
Neighbourhood(p, b, n, i, N) ==
  /\ N \subseteq Others(n, i) /\ IsFiniteSet(N) /\ Cardinality(N) = Neighbours(p, n)
  /\ KrumScores(p, b)[i] = QSum(Distances(b, n, i), N)
  /\ \A j \in N, l \in Others(n, i) \ N :
       QLeq(Distances(b, n, i)[j], Distances(b, n, i)[l])

\* A Krum score is the sum of the distances to the k nearest others.
LEMMA KrumScoreIs ==
  ASSUME NEW n, NEW b, IsBatch(b, n), NEW p, NEW k, k = Neighbours(p, n),
         k \in 1 .. n - 1, NEW i \in 1 .. n
  PROVE  \E N : Neighbourhood(p, b, n, i, N)
<1> DEFINE O == Others(n, i)
           d == Distances(b, n, i)
           near == Ranked(d, O)
           len == Len(near)
           N == {near[r] : r \in 1 .. (IF k < len THEN k ELSE len)}
<1>1. n \in Nat \ {0} /\ DOMAIN b = 1 .. n /\ Len(b) = n
  BY DEF IsBatch
<1>2. KrumScores(p, b)[i] = QSum(d, N)
  BY <1>1 DEF KrumScores, Others, Distances
<1>3. IsFiniteSet(O) /\ Cardinality(O) = n - 1
  <2>1. IsFiniteSet(1 .. n) /\ Cardinality(1 .. n) = n
    BY <1>1, FS_Interval
  <2> QED BY <2>1, FS_RemoveElement DEF Others
<1>4. Scored(d, O)
  <2>1. \A j \in O : d[j] \in Rat
    BY DistanceIsRat DEF Others, Distances
  <2> QED BY <1>3, <2>1 DEF Scored, Others
<1> HIDE DEF O, d
<1>5. len = n - 1
  <2>1. DOMAIN near = 1 .. n - 1 /\ near = [r \in 1 .. n - 1 |-> near[r]]
    BY <1>3, <1>4, RankedSorts
  <2>2. \A r \in 1 .. n - 1 : near[r] \in O
    BY <1>3, <1>4, RankedSorts
  <2> HIDE DEF near
  <2>3. near \in [1 .. n - 1 -> O]
    BY <2>1, <2>2
  <2>4. n - 1 \in Nat
    BY <1>1
  <2>5. near \in Seq(O)
    BY <2>3, <2>4
  <2> QED BY <2>1, <2>4, <2>5
<1>6. (IF k < len THEN k ELSE len) = k
  BY <1>1, <1>5
<1>7. N = {near[r] : r \in 1 .. k}
  BY <1>6
<1>8. /\ N \subseteq O /\ IsFiniteSet(N) /\ Cardinality(N) = k
      /\ \A j \in N, l \in O \ N : QLeq(d[j], d[l])
  <2>1. k \in 1 .. Cardinality(O)
    BY <1>3
  <2> DEFINE K == {near[r] : r \in 1 .. k}
  <2>2. /\ K \subseteq O /\ IsFiniteSet(K) /\ Cardinality(K) = k
        /\ \A j \in K, l \in O \ K : QLeq(d[j], d[l])
    BY <1>4, <2>1, Nearest
  <2> HIDE DEF K
  <2>3. N = K
    BY <1>7 DEF K
  <2> HIDE DEF N
  <2> QED BY <2>2, <2>3
<1> HIDE DEF N
<1> QED
  BY <1>2, <1>8 DEF O, d, Neighbourhood

\* What is outside two sets too small to cover it.
LEMMA OutsideSmall ==
  ASSUME NEW A, IsFiniteSet(A), NEW F, IsFiniteSet(F), Cardinality(F) < Cardinality(A)
  PROVE  \E x \in A : x \notin F
<1>1. SUFFICES ASSUME A \subseteq F PROVE FALSE
  OBVIOUS
<1>2. Cardinality(A) <= Cardinality(F)
  BY <1>1, FS_Subset
<1> QED BY <1>2, FS_CardinalityType

\* The score of an update outside F is at most k times the largest distance
\* outside F.
LEMMA HonestScore ==
  ASSUME NEW n, NEW b, IsBatch(b, n), NEW p, NEW k, k = Neighbours(p, n),
         NEW f \in Nat, k = n - f - 2, 2 * f + 3 <= n,
         NEW F, F \subseteq 1 .. n, Cardinality(F) <= f,
         NEW M \in Rat,
         \A i, j \in (1 .. n) \ F : QLeq(Distance2(b[i], b[j]), M),
         NEW i \in (1 .. n) \ F
  PROVE  KrumScores(p, b)[i] \in Rat /\ QLeq(KrumScores(p, b)[i], Times(k, M))
<1>1. n \in Nat \ {0}
  BY DEF IsBatch
<1>2. k \in 1 .. n - 1 /\ i \in 1 .. n
  BY <1>1
<1> DEFINE O == Others(n, i)
           d == Distances(b, n, i)
<1>n. PICK N : Neighbourhood(p, b, n, i, N)
  BY <1>2, KrumScoreIs
<1>3. /\ N \subseteq O /\ IsFiniteSet(N) /\ Cardinality(N) = k
      /\ KrumScores(p, b)[i] = QSum(d, N)
      /\ \A j \in N, l \in O \ N : QLeq(d[j], d[l])
  BY <1>n DEF Neighbourhood
<1>4. PICK l \in O \ F : l \notin N
  <2>1. IsFiniteSet(1 .. n) /\ Cardinality(1 .. n) = n
    BY <1>1, FS_Interval
  <2>2. IsFiniteSet(O) /\ Cardinality(O) = n - 1
    BY <2>1, FS_RemoveElement DEF Others
  <2>3. IsFiniteSet(F) /\ Cardinality(F) \in Nat
    BY <2>1, FS_Subset, FS_CardinalityType
  <2>4. Cardinality(O \cap F) <= Cardinality(F) /\ Cardinality(O \cap F) \in Nat
    BY <2>3, FS_Subset, FS_CardinalityType
  <2>5. IsFiniteSet(O \ F) /\ Cardinality(O \ F) = Cardinality(O) - Cardinality(O \cap F)
    BY <2>2, FS_Difference
  <2>6. Cardinality(N) < Cardinality(O \ F)
    BY <1>1, <1>3, <2>2, <2>3, <2>4, <2>5
  <2> HIDE DEF O
  <2> QED BY <1>3, <2>5, <2>6, OutsideSmall
<1>5. \A j \in O : d[j] = Distance2(b[i], b[j]) /\ d[j] \in Rat /\ QLeq(Zero, d[j])
  BY <1>2, DistanceIsRat DEF Others, Distances
<1>6. QLeq(d[l], M)
  BY <1>5 DEF Others
<1>7. \A j \in N : d[j] \in Rat /\ QLeq(Zero, d[j]) /\ QLeq(d[j], M)
  <2> HIDE DEF d, O
  <2> QED BY <1>3, <1>4, <1>5, <1>6, LeqTrans
<1> HIDE DEF d, O
<1>8. SumWithin(Zero, M, Cardinality(N), QSum(d, N))
  BY <1>3, <1>7, SumBounds, ZeroIsRat
<1> QED
  BY <1>3, <1>8 DEF SumWithin

\* Every Krum score is a number no smaller than its distances.
LEMMA KrumScoreCovers ==
  ASSUME NEW n, NEW b, IsBatch(b, n), NEW p, NEW k, k = Neighbours(p, n),
         k \in 1 .. n - 1, NEW i \in 1 .. n, NEW F, IsFiniteSet(F), Cardinality(F) < k
  PROVE  /\ KrumScores(p, b)[i] \in Rat
         /\ \E h \in (1 .. n) \ F : QLeq(Distance2(b[i], b[h]), KrumScores(p, b)[i])
<1> DEFINE O == Others(n, i)
           d == Distances(b, n, i)
<1>n. PICK N : Neighbourhood(p, b, n, i, N)
  BY KrumScoreIs
<1>1. /\ N \subseteq O /\ IsFiniteSet(N) /\ Cardinality(N) = k
      /\ KrumScores(p, b)[i] = QSum(d, N)
  BY <1>n DEF Neighbourhood
<1>2. \A j \in O : j \in 1 .. n /\ d[j] = Distance2(b[i], b[j])
                   /\ d[j] \in Rat /\ QLeq(Zero, d[j])
  BY DistanceIsRat DEF Others, Distances
<1>3. PICK h \in N : h \notin F
  BY <1>1, OutsideSmall
<1> HIDE DEF O, d
<1>4. QSum(d, N) \in Rat /\ QLeq(d[h], QSum(d, N))
  BY <1>1, <1>2, TermAtMostSum
<1> QED
  BY <1>1, <1>2, <1>3, <1>4

\* What Krum selects has the least score.
LEMMA KrumSelects ==
  ASSUME NEW n, NEW b, IsBatch(b, n), NEW p,
         \A i \in 1 .. n : KrumScores(p, b)[i] \in Rat
  PROVE  \E s \in 1 .. n :
           /\ Krum(p, b) = {s}
           /\ \A i \in 1 .. n : QLeq(KrumScores(p, b)[s], KrumScores(p, b)[i])
<1> DEFINE score == KrumScores(p, b)
           S == 1 .. n
           R == Ranked(score, S)
<1>1. n \in Nat \ {0} /\ DOMAIN b = S
  BY DEF IsBatch
<1>2. DOMAIN score = S
  BY <1>1 DEF KrumScores
<1>3. IsFiniteSet(S) /\ Cardinality(S) = n
  BY <1>1, FS_Interval
<1>4. Scored(score, S)
  BY <1>3 DEF Scored
<1>5. Krum(p, b) = {R[1]}
  BY <1>2 DEF Krum, FirstMin
<1> HIDE DEF score, S
<1>6. /\ \A r \in 1 .. n : R[r] \in S
      /\ \A i \in S : Rank(score, S, i) \in 1 .. n /\ R[Rank(score, S, i)] = i
      /\ \A r, t \in 1 .. n : r <= t => QLeq(score[R[r]], score[R[t]])
  BY <1>1, <1>3, <1>4, RankedSorts
<1>7. 1 \in 1 .. n /\ \A r \in 1 .. n : 1 <= r
  BY <1>1
<1>8. R[1] \in S /\ \A i \in S : QLeq(score[R[1]], score[i])
  <2> HIDE DEF R
  <2> QED BY <1>6, <1>7
<1> QED
  BY <1>5, <1>8 DEF score, S

\* What Krum selects is within M, k times over, of an update outside F.
NearOthers(p, b, n, F, k, M) ==
  \E s \in 1 .. n, h \in (1 .. n) \ F :
    Krum(p, b) = {s} /\ QLeq(Distance2(b[s], b[h]), Times(k, M))

\* Whichever f updates are arbitrary, what Krum selects is near another one.
LEMMA KrumNear ==
  ASSUME NEW n, NEW b, IsBatch(b, n), NEW p, NEW k, k = Neighbours(p, n),
         NEW f \in Nat, k = n - f - 2, 2 * f + 3 <= n,
         NEW F, F \subseteq 1 .. n, Cardinality(F) <= f,
         NEW M \in Rat,
         \A i, j \in (1 .. n) \ F : QLeq(Distance2(b[i], b[j]), M)
  PROVE  NearOthers(p, b, n, F, k, M)
<1> DEFINE score == KrumScores(p, b)
<1>1. n \in Nat \ {0}
  BY DEF IsBatch
<1>2. k \in 1 .. n - 1
  BY <1>1
<1>3. IsFiniteSet(1 .. n) /\ Cardinality(1 .. n) = n
  BY <1>1, FS_Interval
<1>4. IsFiniteSet(F) /\ Cardinality(F) \in Nat
  BY <1>3, FS_Subset, FS_CardinalityType
<1>5. Cardinality(F) < k /\ Cardinality(F) < n
  BY <1>1, <1>4
<1>6. \A i \in 1 .. n :
        /\ score[i] \in Rat
        /\ \E h \in (1 .. n) \ F : QLeq(Distance2(b[i], b[h]), score[i])
  BY <1>2, <1>4, <1>5, KrumScoreCovers
<1>7. PICK s \in 1 .. n : Krum(p, b) = {s} /\ \A i \in 1 .. n : QLeq(score[s], score[i])
  BY <1>6, KrumSelects
<1>8. PICK i \in (1 .. n) \ F : TRUE
  BY <1>3, <1>4, <1>5, OutsideSmall
<1>9. QLeq(score[i], Times(k, M))
  BY HonestScore
<1>10. PICK h \in (1 .. n) \ F : QLeq(Distance2(b[s], b[h]), score[s])
  BY <1>6
<1>11. score[s] \in Rat /\ score[i] \in Rat /\ Distance2(b[s], b[h]) \in Rat
  BY <1>6, DistanceIsRat
<1>12. Times(k, M) \in Rat
  BY <1>2, TimesIsRat
<1> HIDE DEF score
<1>13. QLeq(score[s], score[i])
  BY <1>7
<1>14. QLeq(Distance2(b[s], b[h]), Times(k, M))
  BY <1>9, <1>10, <1>11, <1>12, <1>13, LeqTrans
<1> QED
  BY <1>7, <1>14 DEF NearOthers

\* A finite set of numbers has a largest one.
LEMMA LargestExists ==
  ASSUME NEW S \in SUBSET Rat, IsFiniteSet(S), S # {}
  PROVE  \E m \in S : \A e \in S : QLeq(e, m)
<1> DEFINE Has(s) == s = {} \/ \E m \in s : \A e \in s : QLeq(e, m)
           T == {c \in Nat : \A s \in SUBSET S : Cardinality(s) = c => Has(s)}
<1>1. \A s \in SUBSET S : IsFiniteSet(s) /\ Cardinality(s) \in Nat
  BY FS_Subset, FS_CardinalityType
<1>2. 0 \in T
  BY <1>1, FS_EmptySet
<1>3. ASSUME NEW c \in Nat, c \in T PROVE c + 1 \in T
  <2>1. SUFFICES ASSUME NEW s \in SUBSET S, Cardinality(s) = c + 1 PROVE Has(s)
    OBVIOUS
  <2>2. IsFiniteSet(s)
    BY <1>1
  <2>3. PICK a \in s : TRUE
    BY <2>1, <2>2, FS_EmptySet
  <2>4. Cardinality(s \ {a}) = c /\ s \ {a} \in SUBSET S
    <3>1. Cardinality(s \ {a}) = Cardinality(s) - 1
      BY <2>2, <2>3, FS_RemoveElement
    <3> HIDE DEF T
    <3> QED BY <2>1, <3>1
  <2>5. Has(s \ {a})
    BY <1>3, <2>4
  <2>6. a \in Rat /\ QLeq(a, a)
    BY LeqTotal
  <2>7. CASE s \ {a} = {}
    BY <2>6, <2>7
  <2>8. CASE s \ {a} # {}
    <3>1. PICK m \in s \ {a} : \A e \in s \ {a} : QLeq(e, m)
      BY <2>5, <2>8
    <3>2. m \in Rat /\ \A e \in s : e \in Rat
      OBVIOUS
    <3>3. CASE QLeq(a, m)
      BY <3>1, <3>3
    <3>4. CASE ~QLeq(a, m)
      <4>1. QLeq(m, a)
        BY <2>6, <3>2, <3>4, LeqTotal
      <4>2. \A e \in s : QLeq(e, a)
        BY <2>6, <3>1, <3>2, <4>1, LeqTrans
      <4> QED BY <2>3, <4>2
    <3> QED BY <3>3, <3>4
  <2> QED BY <2>7, <2>8
<1>4. T = Nat
  <2> HIDE DEF T
  <2>1. T \in SUBSET Nat
    BY DEF T
  <2> QED BY <1>2, <1>3, <2>1, Induct
<1> QED
  BY <1>1, <1>4

\* Being the same number is transitive.
LEMMA SameTrans ==
  ASSUME NEW a \in Rat, NEW b \in Rat, NEW c \in Rat, Same(a, b), Same(b, c)
  PROVE  Same(a, c)
BY LeqTrans DEF Same

\* A sum of one number is that number.
LEMMA SumOfOne ==
  ASSUME NEW f, NEW a, f[a] \in Rat
  PROVE  /\ QSum(f, {a}) = QAdd(f[a], Zero)
         /\ QAdd(f[a], Zero) \in Rat /\ Same(QAdd(f[a], Zero), f[a])
<1> DEFINE y == f[a]
<1>1. PICK g : SumOver(f, {a}, g) /\ QSum(f, {a}) = g[{a}]
  BY FS_Singleton, QSumDef
<1>2. Pick({a}) = a
  BY DEF Pick
<1>3. g[{a}] = QAdd(f[Pick({a})], g[{a} \ {Pick({a})}]) /\ g[{}] = Zero
  <2>1. {a} \in SUBSET {a} /\ {} \in SUBSET {a} /\ {a} # {}
    OBVIOUS
  <2> QED BY <1>1, <2>1 DEF SumOver
<1>4. {a} \ {a} = {}
  OBVIOUS
<1>5. QSum(f, {a}) = QAdd(y, Zero)
  BY <1>1, <1>2, <1>3, <1>4
<1> HIDE DEF y
<1>6. y[1] \in Int /\ y[2] \in Int /\ y[2] > 0
  BY RatParts DEF y
<1>7. QAdd(y, Zero) = Q(y[1], y[2])
  <2>1. y[1] * 1 + 0 * y[2] = y[1] /\ y[2] * 1 = y[2]
    BY <1>6
  <2> QED BY <2>1, ZeroIsRat DEF QAdd
<1>8. /\ QLeq(Q(y[1], y[2]), y) <=> y[1] * y[2] <= y[1] * y[2]
      /\ QLeq(y, Q(y[1], y[2])) <=> y[1] * y[2] <= y[1] * y[2]
  BY <1>6, QuotientAtMost, QuotientAtLeast DEF y
<1>9. y[1] * y[2] <= y[1] * y[2]
  BY <1>6
<1>10. QAdd(y, Zero) \in Rat
  BY <1>6, <1>7, QIsQuotient
<1> QED
  BY <1>5, <1>7, <1>8, <1>9, <1>10 DEF y, Same

\* The sub-batch at one index.
LEMMA AtOne ==
  ASSUME NEW n, NEW b, IsBatch(b, n), NEW s \in 1 .. n
  PROVE  DOMAIN At(b, {s}) = {1} /\ At(b, {s})[1] = b[s]
<1> DEFINE rank == [i \in {s} |-> Cardinality({j \in {s} : j < i}) + 1]
           order == [r \in 1 .. Cardinality({s}) |-> CHOOSE i \in {s} : rank[i] = r]
<1>1. InOrder({s}, <) = order
  BY DEF InOrder
<1>2. Cardinality({s}) = 1
  BY FS_Singleton
<1>3. rank[s] = 1
  <2>1. n \in Nat
    BY DEF IsBatch
  <2>2. {j \in {s} : j < s} = {}
    BY <2>1
  <2>3. Cardinality({j \in {s} : j < s}) = 0
    BY <2>2, FS_EmptySet
  <2> QED BY <2>3
<1> HIDE DEF rank
<1>4. (CHOOSE i \in {s} : rank[i] = 1) = s
  BY <1>3
<1>5. DOMAIN order = {1} /\ order[1] = s
  BY <1>2, <1>4
<1> HIDE DEF order
<1>6. At(b, {s}) = [r \in DOMAIN order |-> b[order[r]]]
  BY <1>1, Zenon DEF At
<1> QED BY <1>5, <1>6

\* Averaging one update gives that update, unless it has no samples.
LEMMA AverageOfOne ==
  ASSUME NEW n, NEW b, IsBatch(b, n), NEW s \in 1 .. n, b[s].samples \in Nat,
         FedAvg(At(b, {s})).err = "none"
  PROVE  LET x == FedAvg(At(b, {s})).out.x
         IN  x \in Rat /\ Same(x, b[s].x)
<1> DEFINE c == At(b, {s})
           m == b[s].samples
           y == b[s].x
           total == TotalSamples(c)
           share == QDiv(Int2Q(m), total)
<1>1. DOMAIN c = {1} /\ c[1] = b[s]
  BY AtOne
<1>2. y \in Rat
  BY DEF IsBatch
<1> HIDE DEF c
<1>3. total = Q(m, 1)
  <2> DEFINE g == [i \in DOMAIN c |-> Int2Q(c[i].samples)]
  <2>1. total = QSum(g, {1}) /\ g[1] = Int2Q(m)
    BY <1>1 DEF TotalSamples
  <2>2. g[1] \in Rat
    BY <2>1, RatInt
  <2> HIDE DEF g
  <2>3. total = QAdd(Int2Q(m), Zero)
    BY <2>1, <2>2, SumOfOne
  <2>4. m * 1 + 0 * 1 = m /\ 1 * 1 = 1
    OBVIOUS
  <2> QED BY <2>3, <2>4, RatInt, ZeroIsRat DEF QAdd
<1>4. total = <<m, 1>>
  <2>1. PICK g \in Nat \ {0} : m = g * Q(m, 1)[1] /\ 1 = g * Q(m, 1)[2]
    BY QIsQuotient
  <2>2. Q(m, 1) \in Rat
    BY QIsQuotient
  <2>3. Q(m, 1)[1] \in Int /\ Q(m, 1)[2] \in Int
    BY <2>2, RatParts
  <2>4. g = 1
    BY <2>1, <2>3
  <2>5. Q(m, 1)[1] = m /\ Q(m, 1)[2] = 1
    BY <2>1, <2>3, <2>4
  <2> QED BY <1>3, <2>2, <2>5 DEF Rat
<1>5. /\ total # Zero
      /\ FedAvg(c).out.x = Weighted(SampleShare(c), c)
  BY DEF FedAvg, Err, Ok, Vec, c
<1>6. m > 0
  BY <1>4, <1>5 DEF Zero, Int2Q
<1>7. share = Q(m, m)
  <2>1. m * 1 = m /\ 1 * m = m
    OBVIOUS
  <2> QED BY <1>4, <2>1, RatInt DEF QDiv
<1>8. share \in Rat /\ share[1] = share[2]
  <2>1. PICK g \in Nat \ {0} : m = g * Q(m, m)[1] /\ m = g * Q(m, m)[2]
    BY <1>6, QIsQuotient
  <2>2. Q(m, m) \in Rat /\ Q(m, m)[1] \in Int /\ Q(m, m)[2] \in Int
    BY <1>6, QIsQuotient, RatParts
  <2>3. Q(m, m)[1] = Q(m, m)[2]
    BY <2>1, <2>2
  <2> QED BY <1>7, <2>2, <2>3
<1>9. QMul(share, y) \in Rat /\ Same(QMul(share, y), y)
  <2> HIDE DEF share, y
  <2> DEFINE w == share[1]
             y1 == y[1]
             y2 == y[2]
  <2>1. w \in Int /\ w > 0 /\ y1 \in Int /\ y2 \in Int /\ y2 > 0
    BY <1>2, <1>8, RatParts
  <2>2. QMul(share, y) = Q(w * y1, w * y2)
    BY <1>8 DEF QMul
  <2> HIDE DEF w, y1, y2
  <2>3. w * y1 \in Int /\ w * y2 \in Int /\ w * y2 > 0
    BY <2>1
  <2>4. /\ QLeq(Q(w * y1, w * y2), y) <=> (w * y1) * y2 <= y1 * (w * y2)
        /\ QLeq(y, Q(w * y1, w * y2)) <=> y1 * (w * y2) <= (w * y1) * y2
    BY <1>2, <2>3, QuotientAtMost, QuotientAtLeast DEF y1, y2
  <2>5. (w * y1) * y2 = y1 * (w * y2) /\ (w * y1) * y2 \in Int
    BY <2>1
  <2>6. (w * y1) * y2 <= y1 * (w * y2) /\ y1 * (w * y2) <= (w * y1) * y2
    BY <2>5
  <2> QED BY <2>2, <2>3, <2>4, <2>6, QIsQuotient DEF Same
<1>10. LET x == Weighted(SampleShare(c), c) IN x \in Rat /\ Same(x, QMul(share, y))
  <2> DEFINE g == [i \in DOMAIN c |-> QMul(SampleShare(c)[i], c[i].x)]
  <2>1. SampleShare(c)[1] = share
    BY <1>1 DEF SampleShare
  <2>2. g[1] = QMul(share, y)
    BY <1>1, <2>1
  <2>3. Weighted(SampleShare(c), c) = QSum(g, {1})
    BY <1>1 DEF Weighted
  <2> HIDE DEF g
  <2> QED BY <1>9, <2>2, <2>3, SumOfOne
<1> HIDE DEF share, y, total
<1> QED
  BY <1>2, <1>5, <1>9, <1>10, SameTrans DEF c, y

\* The quotient is the one number whose multiple is within a divisor below.
LEMMA DivUnique ==
  ASSUME NEW x \in Nat, NEW d \in Nat \ {0}, NEW t \in Nat, d * t <= x, x < d * t + d
  PROVE  x \div d = t
<1> DEFINE p == x \div d
<1>1. p \in Nat /\ d * p \in Nat /\ d * t \in Nat /\ d * (p + 1) \in Nat /\ d * (t + 1) \in Nat
  BY DivMod
<1>2. d * p <= x /\ x < d * p + d
  BY DivMod
<1> HIDE DEF p
<1>3. d * (p + 1) = d * p + d /\ d * (t + 1) = d * t + d
  BY <1>1
<1>4. d * p < d * (t + 1) /\ d * t < d * (p + 1)
  BY <1>1, <1>2, <1>3
<1>5. p < t + 1 /\ t < p + 1
  <2>1. d > 0 /\ d \in Int /\ p \in Int /\ t \in Int /\ t + 1 \in Int /\ p + 1 \in Int
    BY <1>1
  <2> QED BY <1>4, <2>1, Scale
<1>6. p = t
  BY <1>1, <1>5
<1> QED BY <1>6 DEF p

\* A common factor does not change a quotient.
LEMMA DivScale ==
  ASSUME NEW g \in Nat \ {0}, NEW a \in Nat, NEW c \in Nat \ {0}
  PROVE  (g * a) \div (g * c) = a \div c
<1> DEFINE t == a \div c
<1>1. t \in Nat /\ c * t \in Nat /\ c * t <= a /\ a < c * t + c
  BY DivMod
<1> HIDE DEF t
<1>2. g * a \in Nat /\ g * c \in Nat \ {0} /\ c * t + c \in Nat /\ g > 0 /\ g \in Int
  BY <1>1
<1>3. g * (c * t) <= g * a /\ g * a < g * (c * t + c)
  BY <1>1, <1>2, Scale
<1>4. g * (c * t) = (g * c) * t /\ g * (c * t + c) = (g * c) * t + g * c
  BY <1>1
<1>5. (g * c) * t <= g * a /\ g * a < (g * c) * t + g * c
  BY <1>3, <1>4
<1> QED BY <1>1, <1>2, <1>5, DivUnique DEF t

\* A fraction of updates, and the number of updates it excludes.
IsFraction(p) == p[1] \in Nat /\ p[2] \in Nat \ {0}

Excluded(p, n) ==
  LET floor == (p[1] * n) \div p[2]
  IN  IF n = 0 THEN 0 ELSE IF floor < n - 1 THEN floor ELSE n - 1

\* Reducing the fraction first makes no difference.
LEMMA ByzantineCountIs ==
  ASSUME NEW p, IsFraction(p), NEW n \in Nat
  PROVE  ByzantineCount(p, n) = Excluded(p, n) /\ Excluded(p, n) \in Nat
<1> DEFINE N == p[1] * n
           D == p[2]
           a == Q(N, D)[1]
           c == Q(N, D)[2]
<1>1. N \in Nat /\ D \in Nat \ {0}
  BY DEF IsFraction
<1>2. QMul(p, Int2Q(n)) = Q(N, D)
  <2>1. p[2] * 1 = p[2]
    BY <1>1
  <2> QED BY <2>1, RatInt DEF QMul
<1> HIDE DEF N, D
<1>3. N \in Int /\ D \in Int /\ D > 0
  BY <1>1
<1>4. PICK g \in Nat \ {0} : N = g * a /\ D = g * c
  BY <1>3, QIsQuotient
<1>5. a \in Int /\ c \in Int /\ c > 0
  BY <1>3, QIsQuotient, RatParts
<1> HIDE DEF a, c
<1>6. a \in Nat
  <2>1. g * 0 <= g * a
    BY <1>1, <1>4
  <2>2. 0 <= a
    BY <1>5, <2>1, Scale
  <2> QED BY <1>5, <2>2
<1>7. N \div D = a \div c
  BY <1>4, <1>5, <1>6, DivScale
<1>8. QFloor(QMul(p, Int2Q(n))) = N \div D
  BY <1>2, <1>7 DEF QFloor, a, c
<1>9. N \div D \in Nat
  BY <1>1, DivMod
<1>10. ByzantineCount(p, n) = Excluded(p, n)
  BY <1>8 DEF ByzantineCount, Excluded, N, D
<1>11. Excluded(p, n) \in Nat
  <2> DEFINE fl == N \div D
  <2>1. Excluded(p, n) = IF n = 0 THEN 0 ELSE IF fl < n - 1 THEN fl ELSE n - 1
    BY DEF Excluded, N, D
  <2> HIDE DEF fl
  <2> QED BY <1>9, <2>1 DEF fl
<1> QED BY <1>10, <1>11

\* The values of a batch are a column.
LEMMA ColumnOfBatch ==
  ASSUME NEW n, NEW b, IsBatch(b, n)
  PROVE  IsColumn(Column(b), n) /\ \A i \in 1 .. n : Column(b)[i] = b[i].x
<1>1. n \in Nat \ {0} /\ DOMAIN b = 1 .. n /\ \A i \in 1 .. n : b[i].x \in Rat
  BY DEF IsBatch
<1>2. Column(b) = [i \in 1 .. n |-> b[i].x]
  BY <1>1 DEF Column
<1>3. Column(b) \in [1 .. n -> Rat]
  BY <1>1, <1>2
<1>4. Column(b) \in Seq(Rat)
  BY <1>1, <1>3
<1>5. Len(Column(b)) = n
  BY <1>1, <1>3, <1>4
<1> QED BY <1>1, <1>2, <1>3, <1>5 DEF IsColumn

\* The values of the updates outside F, and the distances between them.
Remaining(b, F) == {b[i].x : i \in DOMAIN b \ F}
Gaps(b, F) == {Distance2(b[i], b[j]) : i, j \in DOMAIN b \ F}

\* Between two numbers of the column is between two of the updates.
LEMMA BetweenIsWithin ==
  ASSUME NEW n, NEW b, IsBatch(b, n), NEW F, NEW x, Between(x, Column(b), n, F)
  PROVE  (\E y \in Remaining(b, F) : QLeq(y, x)) /\ (\E y \in Remaining(b, F) : QLeq(x, y))
<1>1. DOMAIN b = 1 .. n
  BY DEF IsBatch
<1>2. PICK i \in (1 .. n) \ F : QLeq(b[i].x, x)
  BY ColumnOfBatch DEF Between
<1>3. PICK j \in (1 .. n) \ F : QLeq(x, b[j].x)
  BY ColumnOfBatch DEF Between
<1>4. b[i].x \in Remaining(b, F) /\ b[j].x \in Remaining(b, F)
  BY <1>1 DEF Remaining
<1> QED BY <1>2, <1>3, <1>4

\* The largest distance outside F is one of them.
LEMMA LargestGap ==
  ASSUME NEW n, NEW b, IsBatch(b, n), NEW F, NEW i \in (1 .. n) \ F
  PROVE  LET M == CHOOSE m \in Gaps(b, F) : \A e \in Gaps(b, F) : QLeq(e, m)
         IN  M \in Rat /\ \A j, l \in (1 .. n) \ F : QLeq(Distance2(b[j], b[l]), M)
<1> DEFINE H == (1 .. n) \ F
           G == Gaps(b, F)
           g == [p \in H \X H |-> Distance2(b[p[1]], b[p[2]])]
<1>1. DOMAIN b = 1 .. n /\ n \in Nat
  BY DEF IsBatch
<1>2. G = {Distance2(b[j], b[l]) : j, l \in H}
  BY <1>1 DEF Gaps
<1>3. G \subseteq Rat
  BY <1>2, DistanceIsRat
<1>4. IsFiniteSet(H \X H)
  <2>1. IsFiniteSet(1 .. n)
    BY <1>1, FS_Interval
  <2>2. IsFiniteSet(H)
    BY <2>1, FS_Subset
  <2> QED BY <2>2, FS_Product
<1>5. g \in Surjection(H \X H, G)
  <2>1. \A p \in H \X H : p[1] \in H /\ p[2] \in H
    OBVIOUS
  <2>2. \A p \in H \X H : g[p] \in G
    BY <1>2, <2>1
  <2>3. g \in [H \X H -> G]
    <3> HIDE DEF H, G
    <3> QED BY <2>2
  <2>4. ASSUME NEW e \in G PROVE \E p \in H \X H : g[p] = e
    <3>1. PICK j \in H, l \in H : e = Distance2(b[j], b[l])
      BY <1>2
    <3>2. <<j, l>> \in H \X H
      OBVIOUS
    <3> HIDE DEF H
    <3>3. g[<<j, l>>] = Distance2(b[j], b[l])
      BY <3>2
    <3> QED BY <3>1, <3>2, <3>3
  <2> HIDE DEF H, G, g
  <2> QED BY <2>3, <2>4 DEF Surjection
<1>6. IsFiniteSet(G)
  <2> HIDE DEF g, H, G
  <2> QED BY <1>4, <1>5, FS_Surjection
<1>7. \A j, l \in H : Distance2(b[j], b[l]) \in G
  BY <1>2
<1>8. G # {}
  BY <1>7
<1> HIDE DEF G, g
<1>9. \E m \in G : \A e \in G : QLeq(e, m)
  BY <1>3, <1>6, <1>8, LargestExists
<1> QED BY <1>3, <1>7, <1>9 DEF G

\* A set of indices is finite.
LEMMA SmallIsFinite ==
  ASSUME NEW n, NEW b, IsBatch(b, n), NEW F, F \subseteq 1 .. n
  PROVE  IsFiniteSet(F)
<1>1. IsFiniteSet(1 .. n)
  BY FS_Interval DEF IsBatch
<1> QED BY <1>1, FS_Subset

\* Fewer than n indices leave one out.
LEMMA SomeOutside ==
  ASSUME NEW n, NEW b, IsBatch(b, n), NEW F, F \subseteq 1 .. n, Cardinality(F) < n
  PROVE  \E i : i \in (1 .. n) \ F
<1>1. n \in Nat
  BY DEF IsBatch
<1>2. IsFiniteSet(1 .. n) /\ Cardinality(1 .. n) = n
  BY <1>1, FS_Interval
<1>3. IsFiniteSet(F)
  BY <1>2, FS_Subset
<1> QED BY <1>2, <1>3, OutsideSmall

\* The trimmed mean of a batch, whichever f updates are arbitrary.
LEMMA TrimmedNotSteered ==
  ASSUME NEW n, NEW b, IsBatch(b, n), NEW p, NEW f \in Nat, f = ByzantineCount(p, n),
         2 * f + 1 <= n, NEW F, F \subseteq 1 .. n, Cardinality(F) <= f
  PROVE  LET x == TrimmedMean(p, Column(b))
         IN  (\E y \in Remaining(b, F) : QLeq(y, x)) /\ (\E y \in Remaining(b, F) : QLeq(x, y))
<1>1. IsFiniteSet(F)
  BY SmallIsFinite
<1>2. Between(TrimmedMean(p, Column(b)), Column(b), n, F)
  BY <1>1, ColumnOfBatch, TrimmedMeanBetween
<1> QED BY <1>2, BetweenIsWithin

\* The median of a batch, whichever minority is arbitrary.
LEMMA MedianNotSteered ==
  ASSUME NEW n, NEW b, IsBatch(b, n),
         NEW F, F \subseteq 1 .. n, Cardinality(F) <= (n - 1) \div 2
  PROVE  LET x == Median(Column(b))
         IN  (\E y \in Remaining(b, F) : QLeq(y, x)) /\ (\E y \in Remaining(b, F) : QLeq(x, y))
<1>1. IsFiniteSet(F)
  BY SmallIsFinite
<1>2. Between(Median(Column(b)), Column(b), n, F)
  BY <1>1, ColumnOfBatch, MedianBetween
<1> QED BY <1>2, BetweenIsWithin

\* In a batch the citation covers, none of neighbors_to_sum's clamps acts.
LEMMA NeighboursCovered ==
  ASSUME NEW p, NEW n \in Nat, NEW f \in Nat, f = ByzantineCount(p, n), 2 * f + 3 <= n
  PROVE  Neighbours(p, n) = n - f - 2
<1> DEFINE most == IF n > 2 THEN n - 1 ELSE 1
           k == n - ByzantineCount(p, n) - 2
<1>1. most = n - 1 /\ k = n - f - 2
  OBVIOUS
<1>2. Neighbours(p, n) = IF k < 1 THEN 1 ELSE IF k > most THEN most ELSE k
  BY DEF Neighbours
<1> HIDE DEF most, k
<1> QED BY <1>1, <1>2

\* The update Krum selects, averaged alone, whichever f are arbitrary.
LEMMA KrumNotSteered ==
  ASSUME NEW n, NEW b, IsBatch(b, n), \A i \in 1 .. n : b[i].samples \in Nat,
         NEW p, NEW f \in Nat, f = ByzantineCount(p, n), 2 * f + 3 <= n,
         NEW F, F \subseteq 1 .. n, Cardinality(F) <= f,
         FedAvg(At(b, Krum(p, b))).err = "none"
  PROVE  LET x == FedAvg(At(b, Krum(p, b))).out.x
             M == CHOOSE m \in Gaps(b, F) : \A e \in Gaps(b, F) : QLeq(e, m)
         IN  \E h \in Remaining(b, F) :
               QLeq(QMul(QSub(x, h), QSub(x, h)), QMul(Int2Q(Neighbours(p, n)), M))
<1> DEFINE x == FedAvg(At(b, Krum(p, b))).out.x
           M == CHOOSE m \in Gaps(b, F) : \A e \in Gaps(b, F) : QLeq(e, m)
           k == Neighbours(p, n)
<1>1. n \in Nat \ {0} /\ DOMAIN b = 1 .. n /\ \A i \in 1 .. n : b[i].x \in Rat
  BY DEF IsBatch
<1>2. k = Neighbours(p, n) /\ k = n - f - 2 /\ k \in Nat
  BY <1>1, NeighboursCovered
<1> HIDE DEF x, M, k
<1>3. PICK i : i \in (1 .. n) \ F
  <2>1. IsFiniteSet(F)
    BY SmallIsFinite
  <2>2. Cardinality(F) \in Nat
    BY <2>1, FS_CardinalityType
  <2>3. Cardinality(F) < n
    BY <1>1, <2>2
  <2> QED BY <2>3, SomeOutside
<1>4. M \in Rat /\ \A j, l \in (1 .. n) \ F : QLeq(Distance2(b[j], b[l]), M)
  BY <1>3, LargestGap DEF M
<1>5. PICK s \in 1 .. n, h \in (1 .. n) \ F :
        Krum(p, b) = {s} /\ QLeq(Distance2(b[s], b[h]), Times(k, M))
  <2>1. NearOthers(p, b, n, F, k, M)
    BY <1>1, <1>2, <1>4, KrumNear
  <2> QED BY <2>1 DEF NearOthers
<1>6. x \in Rat /\ Same(x, b[s].x)
  BY <1>5, AverageOfOne DEF x
<1> DEFINE y == b[s].x
           z == b[h].x
           dx == QMul(QSub(x, z), QSub(x, z))
<1>7. y \in Rat /\ z \in Rat /\ Distance2(b[s], b[h]) = QMul(QSub(y, z), QSub(y, z))
  BY <1>1 DEF Distance2
<1> HIDE DEF y, z
<1>8. Same(QSub(x, z), QSub(y, z)) /\ QSub(x, z) \in Rat /\ QSub(y, z) \in Rat
  BY <1>6, <1>7, SubSame, RatOps DEF y
<1>9. /\ Same(dx, QMul(QSub(y, z), QSub(y, z)))
      /\ dx \in Rat /\ QMul(QSub(y, z), QSub(y, z)) \in Rat
  BY <1>8, SquareSame, SquareNotNegative
<1>10. Times(k, M) \in Rat /\ Times(k, M)[1] = k * M[1] /\ Times(k, M)[2] = M[2]
  BY <1>2, <1>4, TimesIsRat
<1> HIDE DEF dx
<1>11. QLeq(dx, Times(k, M))
  BY <1>5, <1>7, <1>9, <1>10, LeqTrans DEF Same
<1>12. QLeq(dx, QMul(Int2Q(k), M))
  <2>1. M[1] \in Int /\ M[2] \in Int /\ M[2] > 0 /\ dx[1] \in Int /\ dx[2] \in Int
    BY <1>4, <1>9, RatParts
  <2>2. k * M[1] \in Int
    BY <1>2, <2>1
  <2>3. QMul(Int2Q(k), M) = Q(k * M[1], M[2])
    <3>1. 1 * M[2] = M[2] /\ k \in Int
      BY <1>2, <2>1
    <3> QED BY <3>1, RatInt DEF QMul
  <2>4. QLeq(dx, Q(k * M[1], M[2])) <=> dx[1] * M[2] <= (k * M[1]) * dx[2]
    BY <1>9, <2>1, <2>2, QuotientAtLeast
  <2> QED BY <1>10, <1>11, <2>3, <2>4 DEF QLeq
<1>13. z \in Remaining(b, F)
  BY <1>1 DEF Remaining, z
<1> QED
  BY <1>12, <1>13 DEF dx, x, M, k

\* What the parameters of a run are.
Parameters == method \in Methods /\ phi \in Fractions(method)

\* A method and its fraction are chosen once.
LEMMA ParametersKept == Parameters /\ [Next]_vars => Parameters'
BY DEF Parameters, Next, SetTrustedReference, SetCandidateScores, Aggregate, vars

\* A batch that was accepted.
LEMMA AcceptedIsBatch ==
  ASSUME method \in Methods, NEW b \in Batches(method), Refused(b) = "none"
  PROVE  IsBatch(b, Len(b)) /\ \A i \in 1 .. Len(b) : b[i].samples \in Nat
<1>1. b # <<>>
  BY DEF Refused
<1>2. b \in Seq(Range(b)) /\ \A i \in DOMAIN b : b[i].x \in Rat /\ b[i].samples \in Nat
  BY BatchesAssumption
<1>3. Len(b) \in Nat /\ DOMAIN b = 1 .. Len(b)
  BY <1>2
<1>4. Len(b) # 0
  BY <1>1, <1>2, <1>3
<1> QED BY <1>2, <1>3, <1>4 DEF IsBatch

\* The requirement the round loop checks, in terms of what is excluded.
LEMMA CoveredMeans ==
  ASSUME Parameters, NEW n \in Nat \ {0}, P!Covered(n)
  PROVE  LET f == ByzantineCount(phi, n)
         IN  /\ f \in Nat
             /\ method = "krum" => 2 * f + 3 <= n
             /\ method = "trimmed_mean" => 2 * f + 1 <= n
<1> DEFINE f == ByzantineCount(phi, n)
<1>1. IsFraction(phi) /\ phi[1] <= phi[2]
  BY FractionsAssumption DEF Parameters, IsFraction
<1>2. f = Excluded(phi, n) /\ f \in Nat
  BY <1>1, ByzantineCountIs
<1>3. P!ExcludedAt(n) = Excluded(phi, n)
  BY DEF P!ExcludedAt, Excluded
<1>4. P!HasRequirement(n) => n >= P!RequiredAt(n)
  BY DEF P!Covered
<1> HIDE DEF f
<1>5. ASSUME method = "krum" PROVE 2 * f + 3 <= n
  <2>1. P!HasRequirement(n) /\ P!RequiredAt(n) = 2 * f + 3
    BY <1>1, <1>2, <1>3, <1>5 DEF P!HasRequirement, P!RequiredAt
  <2> QED BY <1>2, <1>4, <2>1
<1>6. ASSUME method = "trimmed_mean" PROVE 2 * f + 1 <= n
  <2>1. P!HasRequirement(n) /\ P!RequiredAt(n) = 2 * f + 1
    BY <1>1, <1>2, <1>3, <1>6 DEF P!HasRequirement, P!RequiredAt
  <2> QED BY <1>2, <1>4, <2>1
<1> QED BY <1>2, <1>5, <1>6 DEF f

\* MinorityCannotSteer, of one batch and one result.
Decided(b, r) ==
  r.err = "none" =>
    LET n == Len(b)
        f == ByzantineCount(phi, n)
        x == r.out.x
    IN  /\ method = "trimmed_mean" /\ P!Covered(n) =>
             \A F \in SUBSET DOMAIN b : Cardinality(F) <= f => Within(x, Remaining(b, F))
        /\ method = "median" =>
             \A F \in SUBSET DOMAIN b : Cardinality(F) <= (n - 1) \div 2 => Within(x, Remaining(b, F))
        /\ method = "krum" /\ P!Covered(n) =>
             \A F \in SUBSET DOMAIN b : Cardinality(F) <= f =>
               \E h \in Remaining(b, F) :
                 QLeq(QMul(QSub(x, h), QSub(x, h)),
                      QMul(Int2Q(Neighbours(phi, n)),
                           CHOOSE m \in Gaps(b, F) : \A e \in Gaps(b, F) : QLeq(e, m)))

\* Every outcome of a call is decided by the updates outside the minority.
LEMMA OutcomeDecided ==
  ASSUME Parameters, NEW b \in Batches(method), NEW o \in Outcomes(b)
  PROVE  Decided(b, o.r)
<1> DEFINE n == Len(b)
           f == ByzantineCount(phi, n)
           x == o.r.out.x
           Inside(F) == Within(x, Remaining(b, F))
           Near(F) == \E h \in Remaining(b, F) :
                        QLeq(QMul(QSub(x, h), QSub(x, h)),
                             QMul(Int2Q(Neighbours(phi, n)),
                                  CHOOSE m \in Gaps(b, F) : \A e \in Gaps(b, F) : QLeq(e, m)))
<1>0. SUFFICES ASSUME o.r.err = "none"
               PROVE  /\ method = "trimmed_mean" /\ P!Covered(n) =>
                           \A F \in SUBSET DOMAIN b : Cardinality(F) <= f => Inside(F)
                      /\ method = "median" =>
                           \A F \in SUBSET DOMAIN b : Cardinality(F) <= (n - 1) \div 2 => Inside(F)
                      /\ method = "krum" /\ P!Covered(n) =>
                           \A F \in SUBSET DOMAIN b : Cardinality(F) <= f => Near(F)
  BY Zenon DEF Decided
<1>1. ASSUME method = "trimmed_mean", P!Covered(n),
             NEW F \in SUBSET DOMAIN b, Cardinality(F) <= f
      PROVE  Inside(F)
  <2>1. Outcomes(b) = Stateless(Trimming(b))
    BY <1>1 DEF Outcomes
  <2>2. Refused(b) = "none" /\ o.r = Ok(Vec(b[1].dim, TrimmedMean(phi, Column(b))))
    BY <1>0, <2>1 DEF Stateless, Keep, Trimming, Combined, Err, Ok
  <2>3. IsBatch(b, n)
    BY <2>2, AcceptedIsBatch DEF Parameters
  <2>4. n \in Nat \ {0} /\ F \subseteq 1 .. n
    BY <2>3 DEF IsBatch
  <2>5. f \in Nat /\ 2 * f + 1 <= n
    BY <1>1, <2>4, CoveredMeans
  <2>6. x = TrimmedMean(phi, Column(b))
    BY <2>2 DEF Ok, Vec
  <2> HIDE DEF n, f, x
  <2> QED
    BY <1>1, <2>3, <2>4, <2>5, <2>6, TrimmedNotSteered DEF f, Within
<1>2. ASSUME method = "median", NEW F \in SUBSET DOMAIN b, Cardinality(F) <= (n - 1) \div 2
      PROVE  Inside(F)
  <2>1. Outcomes(b) = Stateless(Combined(b, {Median(Column(b))}))
    BY <1>2 DEF Outcomes
  <2>2. Refused(b) = "none" /\ o.r = Ok(Vec(b[1].dim, Median(Column(b))))
    BY <1>0, <2>1 DEF Stateless, Keep, Combined, Err, Ok
  <2>3. IsBatch(b, n)
    BY <2>2, AcceptedIsBatch DEF Parameters
  <2>4. F \subseteq 1 .. n
    BY <2>3 DEF IsBatch
  <2>5. x = Median(Column(b))
    BY <2>2 DEF Ok, Vec
  <2> HIDE DEF n, f, x
  <2> QED
    BY <1>2, <2>3, <2>4, <2>5, MedianNotSteered DEF Within
<1>3. ASSUME method = "krum", P!Covered(n), NEW F \in SUBSET DOMAIN b, Cardinality(F) <= f
      PROVE  Near(F)
  <2>1. Outcomes(b) = Stateless(Filtered(b, Averaging(At(b, Krum(phi, b)))))
    BY <1>3 DEF Outcomes
  <2>2. Refused(b) = "none" /\ o.r = FedAvg(At(b, Krum(phi, b)))
    BY <1>0, <2>1 DEF Stateless, Keep, Filtered, Averaging, Err, Ok
  <2>3. IsBatch(b, n) /\ \A i \in 1 .. n : b[i].samples \in Nat
    BY <2>2, AcceptedIsBatch DEF Parameters
  <2>4. n \in Nat \ {0} /\ F \subseteq 1 .. n
    BY <2>3 DEF IsBatch
  <2>5. f \in Nat /\ 2 * f + 3 <= n
    BY <1>3, <2>4, CoveredMeans
  <2>6. FedAvg(At(b, Krum(phi, b))).err = "none"
    BY <1>0, <2>2
  <2>7. x = FedAvg(At(b, Krum(phi, b))).out.x
    BY <2>2
  <2>8. f = ByzantineCount(phi, n)
    OBVIOUS
  <2> HIDE DEF n, f, x
  <2> QED
    BY <1>3, <2>3, <2>4, <2>5, <2>6, <2>7, <2>8, KrumNotSteered
<1> QED
  BY <1>1, <1>2, <1>3

\* Decided is what MinorityCannotSteer says of the last call.
LEMMA DecidedMeans == Decided(batch, result) => MinorityCannotSteer
<1> SUFFICES ASSUME Decided(batch, result), result.err = "none" PROVE MinorityCannotSteer
  BY DEF MinorityCannotSteer
<1> DEFINE n == Len(batch)
           f == ByzantineCount(phi, n)
           x == result.out.x
           Inside(F) == Within(x, Honest(F))
           Near(F) == \E h \in Honest(F) :
                        QLeq(QMul(QSub(x, h), QSub(x, h)),
                             QMul(Int2Q(Neighbours(phi, n)), Spread2(F)))
<1>1. \A F : Honest(F) = Remaining(batch, F)
  BY DEF Honest, Remaining
<1>2. \A F : Spread2(F) = CHOOSE m \in Gaps(batch, F) : \A e \in Gaps(batch, F) : QLeq(e, m)
  <2> TAKE F
  <2>1. {Distance2(batch[i], batch[j]) : i, j \in DOMAIN batch \ F} = Gaps(batch, F)
    BY DEF Gaps
  <2> QED BY <2>1 DEF Spread2
<1>3. /\ method = "trimmed_mean" /\ P!Covered(n) => \A F \in Minorities(f) : Inside(F)
      /\ method = "median" => \A F \in Minorities((n - 1) \div 2) : Inside(F)
  BY <1>1 DEF Decided, Within, Minorities
<1>4. method = "krum" /\ P!Covered(n) => \A F \in Minorities(f) : Near(F)
  BY <1>1, <1>2, Zenon DEF Decided, Minorities
<1>5. MinorityCannotSteer <=>
        CASE method = "trimmed_mean" /\ P!Covered(n) -> \A F \in Minorities(f) : Inside(F)
          [] method = "median" -> \A F \in Minorities((n - 1) \div 2) : Inside(F)
          [] method = "krum" /\ P!Covered(n) -> \A F \in Minorities(f) : Near(F)
          [] OTHER -> TRUE
  BY Zenon DEF MinorityCannotSteer
<1> DEFINE TrimmedInside == \A F \in Minorities(f) : Inside(F)
           MedianInside == \A F \in Minorities((n - 1) \div 2) : Inside(F)
           KrumNears == \A F \in Minorities(f) : Near(F)
<1> HIDE DEF n, f, Inside, Near
<1> HIDE DEF TrimmedInside, MedianInside, KrumNears
<1>6. MinorityCannotSteer <=>
        CASE method = "trimmed_mean" /\ P!Covered(n) -> TrimmedInside
          [] method = "median" -> MedianInside
          [] method = "krum" /\ P!Covered(n) -> KrumNears
          [] OTHER -> TRUE
  BY <1>5, Zenon DEF TrimmedInside, MedianInside, KrumNears
<1>7. /\ method = "trimmed_mean" /\ P!Covered(n) => TrimmedInside
      /\ method = "median" => MedianInside
      /\ method = "krum" /\ P!Covered(n) => KrumNears
  BY <1>3, <1>4, Zenon DEF TrimmedInside, MedianInside, KrumNears
<1>8. CASE method = "trimmed_mean" /\ P!Covered(n)
  BY <1>6, <1>7, <1>8
<1>9. CASE method = "median"
  BY <1>6, <1>7, <1>9
<1>10. CASE method = "krum" /\ P!Covered(n)
  BY <1>6, <1>7, <1>10
<1>11. CASE /\ ~(method = "trimmed_mean" /\ P!Covered(n))
            /\ method # "median"
            /\ ~(method = "krum" /\ P!Covered(n))
  BY <1>6, <1>11
<1> QED
  BY <1>8, <1>9, <1>10, <1>11

\* Whichever f updates of a covered batch are arbitrary, or whichever minority
\* for the median, the others decide, for batches of every length, every
\* number of such updates and every value: TrimmedMeanStatistic,
\* MedianStatistic and KrumFilter as build_aggregator composes them.
THEOREM MinorityCannotSteerHolds == Spec => []MinorityCannotSteer
<1> DEFINE Inv == Parameters /\ Decided(batch, result)
<1>1. Init => Inv
  <2> SUFFICES ASSUME Init PROVE Inv
    OBVIOUS
  <2>1. Parameters
    BY DEF Init, Parameters
  <2>2. result.err # "none"
    BY DEF Init, Err
  <2> QED BY <2>1, <2>2, Zenon DEF Decided
<1>2. Inv /\ [Next]_vars => Inv'
  <2> SUFFICES ASSUME Inv, [Next]_vars PROVE Inv'
    OBVIOUS
  <2>1. Parameters'
    BY ParametersKept
  <2>2. CASE Aggregate
    <3>0. PICK b \in Batches(method) : \E o \in Outcomes(b) :
            batch' = b /\ result' = o.r /\ method' = method /\ phi' = phi
      BY <2>2 DEF Aggregate
    <3>1. PICK o \in Outcomes(b) :
            batch' = b /\ result' = o.r /\ method' = method /\ phi' = phi
      BY <3>0
    <3>2. Decided(b, o.r)
      BY OutcomeDecided
    <3> QED
      BY <2>1, <3>1, <3>2 DEF Decided, P!Covered, P!HasRequirement, P!RequiredAt, P!ExcludedAt
  <2>3. CASE UNCHANGED <<method, phi, batch, result>>
    BY <2>1, <2>3 DEF Decided, P!Covered, P!HasRequirement, P!RequiredAt, P!ExcludedAt
  <2> QED
    BY <2>2, <2>3 DEF Next, SetTrustedReference, SetCandidateScores, vars
<1>3. Inv => MinorityCannotSteer
  BY DecidedMeans
<1> QED
  BY <1>1, <1>2, <1>3, PTL DEF Spec
=============================================================================
