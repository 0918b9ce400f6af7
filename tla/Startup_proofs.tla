---------------------------- MODULE Startup_proofs ----------------------------
(***************************************************************************)
(* Theorems about serve()'s start: the doctor fails a deployment that      *)
(* serves for its probe only, a profile the survey reports loads, the      *)
(* quorum advice is least, the log credits every value to the place it is  *)
(* from, and production keeps its promises.                                *)
(***************************************************************************)
EXTENDS Startup, FiniteSetTheorems, SequenceTheorems, WellFoundedInduction, TLAPS

-----------------------------------------------------------------------------
(* The batch preconditions *)

LEMMA DivBounds ==
  ASSUME NEW t \in Nat, NEW d \in Nat \ {0}
  PROVE  /\ t \div d \in Nat
         /\ (t \div d) * d <= t
         /\ t < ((t \div d) + 1) * d
OBVIOUS

LEMMA ProductMonotone ==
  ASSUME NEW a \in Nat, NEW n \in Nat, NEW m \in Nat, n <= m
  PROVE  a * n <= a * m /\ a * n \in Nat /\ a * m \in Nat
OBVIOUS

\* A larger dividend has no smaller quotient.
LEMMA DivMonotone ==
  ASSUME NEW s \in Nat, NEW t \in Nat, NEW d \in Nat \ {0}, s <= t
  PROVE  s \div d <= t \div d
<1>1. /\ s \div d \in Nat /\ (s \div d) * d <= s
      /\ t \div d \in Nat /\ t < ((t \div d) + 1) * d
  BY DivBounds
<1>2. SUFFICES ASSUME (t \div d) + 1 <= s \div d PROVE FALSE
  BY <1>1
<1>3. ((t \div d) + 1) * d <= (s \div d) * d
  <2> DEFINE q == (t \div d) + 1
             r == s \div d
  <2>1. q \in Nat /\ r \in Nat /\ q <= r
    BY <1>1, <1>2
  <2> HIDE DEF q, r
  <2>2. d * q <= d * r
    BY <2>1, ProductMonotone
  <2> QED BY <2>1, <2>2 DEF q, r
<1> QED BY <1>1, <1>3

\* ExcludedAt(n) leaves one over.
LEMMA ExcludedRange ==
  ASSUME NEW c, c["robust_byzantine_fraction"].value \in Nat, NEW n \in Nat \ {0}
  PROVE  P(c)!ExcludedAt(n) \in 0 .. n - 1
<1> DEFINE num == c["robust_byzantine_fraction"].value
<1>1. num * n \in Nat
  BY ProductMonotone
<1>2. (num * n) \div FractionDen \in Nat
  BY <1>1, DivBounds, FractionAssumption
<1> QED BY <1>2 DEF P!ExcludedAt

\* A larger batch has no fewer excluded.
LEMMA ExcludedMonotone ==
  ASSUME NEW c, c["robust_byzantine_fraction"].value \in Nat,
         NEW n \in Nat \ {0}, NEW m \in Nat, n <= m
  PROVE  P(c)!ExcludedAt(n) <= P(c)!ExcludedAt(m)
<1> DEFINE num == c["robust_byzantine_fraction"].value
           s == (num * n) \div FractionDen
           t == (num * m) \div FractionDen
<1>1. num * n \in Nat /\ num * m \in Nat /\ num * n <= num * m
  BY ProductMonotone
<1>2. s \in Nat /\ t \in Nat /\ s <= t
  BY <1>1, DivBounds, DivMonotone, FractionAssumption
<1>3. P(c)!ExcludedAt(n) = IF s < n - 1 THEN s ELSE n - 1
  BY DEF P!ExcludedAt
<1>4. P(c)!ExcludedAt(m) = IF t < m - 1 THEN t ELSE m - 1
  BY DEF P!ExcludedAt
<1> HIDE DEF s, t
<1> QED BY <1>2, <1>3, <1>4

\* Excluded pins down the number the code computes.
LEMMA ExcludedIsComputed ==
  ASSUME config["robust_byzantine_fraction"].value \in Nat,
         NEW n \in Nat \ {0}, NEW f \in 0 .. n - 1
  PROVE  Excluded(n, f) <=> f = P(config)!ExcludedAt(n)
<1> DEFINE num == config["robust_byzantine_fraction"].value
           t == num * n
           s == t \div FractionDen
<1>1. t \in Nat
  BY n <= n, ProductMonotone
<1>2. s \in Nat /\ s * FractionDen <= t /\ t < (s + 1) * FractionDen
  BY <1>1, DivBounds, FractionAssumption
<1>3. P(config)!ExcludedAt(n) = IF s < n - 1 THEN s ELSE n - 1
  BY DEF P!ExcludedAt
<1>4. Excluded(n, f) <=> /\ f < n /\ f * FractionDen <= t
                         /\ f + 1 = n \/ (f + 1) * FractionDen > t
  BY DEF Excluded
<1>5. \A x, y \in Nat : x <= y => x * FractionDen <= y * FractionDen
  <2>1. \A x, y \in Nat : x <= y => FractionDen * x <= FractionDen * y
    BY ProductMonotone, FractionAssumption
  <2> QED BY <2>1, FractionAssumption
<1> HIDE DEF s, t
<1>6. f * FractionDen <= t <=> f <= s
  <2>1. f <= s => f * FractionDen <= s * FractionDen
    BY <1>2, <1>5
  <2>2. s + 1 <= f => (s + 1) * FractionDen <= f * FractionDen
    BY <1>2, <1>5
  <2> QED BY <1>1, <1>2, <2>1, <2>2, FractionAssumption
<1>7. (f + 1) * FractionDen > t <=> f + 1 > s
  <2>1. f + 1 <= s => (f + 1) * FractionDen <= s * FractionDen
    BY <1>2, <1>5
  <2>2. s + 1 <= f + 1 => (s + 1) * FractionDen <= (f + 1) * FractionDen
    BY <1>2, <1>5
  <2> QED BY <1>1, <1>2, <2>1, <2>2, FractionAssumption
<1> QED BY <1>2, <1>3, <1>4, <1>6, <1>7

\* The requirement and the citation are the same statement of a fraction that
\* is one; of another there is no requirement.
LEMMA CitationIsCovered ==
  ASSUME config["robust_byzantine_fraction"].value \in Nat, NEW n \in Nat \ {0}
  PROVE  (Meaningful => CitationHolds(n)) <=> P(config)!Covered(n)
<1> DEFINE e == P(config)!ExcludedAt(n)
           method == config["aggregator"].value
<1>1. e \in 0 .. n - 1
  BY ExcludedRange
<1>2. \A f \in 0 .. n - 1 : Excluded(n, f) <=> f = e
  BY ExcludedIsComputed
<1>3. CitationHolds(n) <=> Cited(n, e)
  BY <1>1, <1>2 DEF CitationHolds
<1> HIDE DEF e
<1>0. ~Meaningful => P(config)!Covered(n)
  BY DEF Meaningful, P!Covered, P!HasRequirement
<1>4. ASSUME Meaningful PROVE Cited(n, e) <=> P(config)!Covered(n)
  <2>1. CASE method \in {"krum", "multi_krum"}
    BY <2>1, <1>1, <1>4 DEF Meaningful, Cited, P!Covered, P!HasRequirement, P!RequiredAt, e
  <2>2. CASE method = "bulyan"
    BY <2>2, <1>1, <1>4 DEF Meaningful, Cited, P!Covered, P!HasRequirement, P!RequiredAt, e
  <2>3. CASE method = "trimmed_mean"
    BY <2>3, <1>1, <1>4 DEF Meaningful, Cited, P!Covered, P!HasRequirement, P!RequiredAt, e
  <2>4. CASE method \notin {"krum", "multi_krum", "bulyan", "trimmed_mean"}
    BY <2>4 DEF Cited, P!Covered, P!HasRequirement
  <2> QED BY <2>1, <2>2, <2>3, <2>4
<1> QED BY <1>0, <1>3, <1>4

\* Between a quorum that is refused and the one advised nothing would do.
LEMMA AdviceIsLeast ==
  ASSUME NEW c, c["robust_byzantine_fraction"].value \in Nat,
         NEW q \in Nat \ {0}, NEW n \in Nat, q <= n,
         P(c)!HasRequirement(q), n < P(c)!RequiredAt(q)
  PROVE  ~P(c)!Covered(n)
<1> DEFINE method == c["aggregator"].value
           e == P(c)!ExcludedAt(q)
           m == P(c)!ExcludedAt(n)
<1>1. e \in Nat /\ m \in Nat /\ e <= m
  BY ExcludedRange, ExcludedMonotone
<1>2. /\ method \in {"krum", "multi_krum", "bulyan", "trimmed_mean"}
      /\ c["robust_byzantine_fraction"].value <= FractionDen
  BY DEF P!HasRequirement
<1>3. P(c)!HasRequirement(n)
  BY <1>2 DEF P!HasRequirement
<1>4. P(c)!RequiredAt(q) <= P(c)!RequiredAt(n) /\ P(c)!RequiredAt(n) \in Nat
      /\ P(c)!RequiredAt(q) \in Nat
  <2>1. CASE method \in {"krum", "multi_krum"}
    <3>1. P(c)!RequiredAt(q) = 2 * e + 3 /\ P(c)!RequiredAt(n) = 2 * m + 3
      BY <2>1 DEF P!RequiredAt
    <3> QED BY <3>1, <1>1
  <2>2. CASE method = "bulyan"
    <3>1. P(c)!RequiredAt(q) = 4 * e + 3 /\ P(c)!RequiredAt(n) = 4 * m + 3
      BY <2>2 DEF P!RequiredAt
    <3> QED BY <3>1, <1>1
  <2>3. CASE method = "trimmed_mean"
    <3>1. P(c)!RequiredAt(q) = 2 * e + 1 /\ P(c)!RequiredAt(n) = 2 * m + 1
      BY <2>3 DEF P!RequiredAt
    <3> QED BY <3>1, <1>1
  <2> QED BY <1>2, <2>1, <2>2, <2>3
<1> QED BY <1>3, <1>4 DEF P!Covered

-----------------------------------------------------------------------------
(* What a configuration resolves to *)

LEMMA KeyFacts ==
  /\ {"aggregator", "robust_byzantine_fraction"} \subseteq DOMAIN BuiltinFallback
  /\ "quorum" \notin DOMAIN BuiltinFallback
  /\ "auth" \notin EnvKeys
  /\ {"quorum", "aggregator", "robust_byzantine_fraction"} \subseteq EnvKeys
  /\ BuiltinFallback["robust_byzantine_fraction"] \in Nat
  /\ "quorum" \notin DOMAIN AlwaysAllowed
  /\ "quorum" \notin DOMAIN MethodAllowed
  /\ "quorum" \notin DOMAIN Registered
<1>1. FractionDen \div 5 \in Nat
  BY DivBounds, FractionAssumption
<1>2. BuiltinFallback["robust_byzantine_fraction"] = FractionDen \div 5
  BY DEF BuiltinFallback
<1>3. /\ {"aggregator", "robust_byzantine_fraction"} \subseteq DOMAIN BuiltinFallback
      /\ "quorum" \notin DOMAIN BuiltinFallback
      /\ "auth" \notin DOMAIN BuiltinFallback
  BY DEF BuiltinFallback
<1>4. /\ "quorum" \notin DOMAIN AlwaysAllowed
      /\ "quorum" \notin DOMAIN MethodAllowed
      /\ "quorum" \notin DOMAIN Registered
  BY DEF AlwaysAllowed, MethodAllowed, Registered
<1>5. "auth" \notin EnvKeys
      /\ {"quorum", "aggregator", "robust_byzantine_fraction"} \subseteq EnvKeys
  BY <1>3 DEF EnvKeys
<1> QED BY <1>1, <1>2, <1>3, <1>4, <1>5

\* The entries the properties are about, each from the layer it belongs to.
LEMMA ResolutionFacts ==
  /\ {"aggregator", "robust_byzantine_fraction", "auth"} \subseteq DOMAIN Resolution
  /\ "quorum" \in DOMAIN Resolution <=> QuorumGiven
  /\ Resolution["aggregator"] = Layer("aggregator", "builtin")
  /\ Resolution["robust_byzantine_fraction"] = Layer("robust_byzantine_fraction", "builtin")
  /\ Resolution["auth"] = Layer("auth", "topology")
  /\ QuorumGiven => Resolution["quorum"] = Layer("quorum", "builtin")
<1> DEFINE keys == {x \in Overridable : x = "quorum" => QuorumGiven}
           axis(k) == IF k \in TopologyKeys THEN "topology"
                      ELSE IF k \in ModeKeys THEN "mode" ELSE "builtin"
<1>1. Resolution = [k \in keys |-> Layer(k, axis(k))]
  BY DEF Resolution
<1>2. /\ {"aggregator", "robust_byzantine_fraction", "auth"} \subseteq keys
      /\ "quorum" \in keys <=> QuorumGiven
  BY KeyFacts DEF Overridable, TopologyKeys
<1>3. /\ axis("aggregator") = "builtin" /\ axis("robust_byzantine_fraction") = "builtin"
      /\ axis("auth") = "topology" /\ axis("quorum") = "builtin"
  BY DEF TopologyKeys, ModeKeys
<1> HIDE DEF keys, axis
<1> QED BY <1>1, <1>2, <1>3

\* A quorum is found fault with only for its own size.
LEMMA QuorumError ==
  ASSUME NEW c
  PROVE  "quorum" \in Errors(c) <=>
           QuorumSet(c) /\ ~P(c)!QuorumAccepted(c["quorum"].value)
BY KeyFacts DEF Errors

\* What the environment and the file give is of the kinds asked for.
LEMMA AskedFacts ==
  ASSUME GivenOK(given)
  PROVE  /\ Layer("robust_byzantine_fraction", "builtin").value \in Nat
         /\ QuorumGiven => Layer("quorum", "builtin").value \in Nat
         /\ Asked["aggregator"] = Layer("aggregator", "builtin")
         /\ Asked["robust_byzantine_fraction"] = Layer("robust_byzantine_fraction", "builtin")
<1>1. LayerOK(given.env.keys) /\ LayerOK(given.file.keys)
  BY DEF GivenOK
<1>2. Layer("robust_byzantine_fraction", "builtin").value \in Nat
  BY <1>1, KeyFacts DEF Layer, LayerOK, Axes
<1>3. QuorumGiven => Layer("quorum", "builtin").value \in Nat
  BY <1>1, KeyFacts DEF Layer, LayerOK, Axes, QuorumGiven
<1> QED BY <1>2, <1>3 DEF Asked

\* The preconditions read two entries only.
LEMMA SameRequirement ==
  ASSUME NEW c, NEW d, c["aggregator"].value = d["aggregator"].value,
         c["robust_byzantine_fraction"].value = d["robust_byzantine_fraction"].value,
         NEW n
  PROVE  /\ P(c)!HasRequirement(n) <=> P(d)!HasRequirement(n)
         /\ P(c)!RequiredAt(n) = P(d)!RequiredAt(n)
         /\ P(c)!Covered(n) <=> P(d)!Covered(n)
<1>1. P(c)!ExcludedAt(n) = P(d)!ExcludedAt(n)
  BY DEF P!ExcludedAt
<1>2. P(c)!HasRequirement(n) <=> P(d)!HasRequirement(n)
  BY DEF P!HasRequirement
<1>3. P(c)!RequiredAt(n) = P(d)!RequiredAt(n)
  BY <1>1 DEF P!RequiredAt
<1> QED BY <1>2, <1>3 DEF P!Covered

-----------------------------------------------------------------------------
(* The kinds of step *)

\* A step that reads profiles or layers.
Reads ==
  /\ \/ \E axis \in Axes : SelectProfile(axis)
     \/ FollowInherits \/ EndSelect \/ StartSurvey \/ SurveyNext \/ EndSurveyed
     \/ ReadFile \/ ReadEnv
  /\ UNCHANGED deploy

\* A step of serve() after validation.
Checks ==
  \/ BindTls \/ LoadJwtKey \/ SelectBackends \/ Connect \/ ConnectSidecar
  \/ Bind \/ BindAdmin \/ Listen

CheckReasons ==
  {"tls", "jwt", "backends", "connect", "sidecar", "bind", "admin", "grpc tls"}

LEMMA NextCases ==
  ASSUME Next
  PROVE  \/ Reads
         \/ Resolve /\ UNCHANGED deploy
         \/ Validate /\ UNCHANGED deploy
         \/ Checks
         \/ FollowAdvice /\ UNCHANGED deploy
         \/ \E axis \in Axes : SelectReported(axis) /\ UNCHANGED deploy
BY DEF Next, StartupSteps, ReadSteps, Operator, OperatorSteps, Reads, Checks

\* Loading a profile ends in it, or in one of the errors a profile has.
LEMMA OutcomeRange ==
  ASSUME NEW w, NEW outcome \in LoadOutcomes(w), AtRest(w) # "more"
  PROVE  outcome \in ProfileErrors \cup {"loaded"}
<1>1. AtRest(w) \in ProfileErrors \cup {"done", "more"}
  BY DEF AtRest, ProfileErrors
<1>2. \A axis, f : KeyProblems(axis, f) \subseteq ProfileErrors
  BY DEF KeyProblems, ProfileErrors
<1>3. ChainProblems(w.axis, w.visited) \subseteq ProfileErrors
  BY <1>2 DEF ChainProblems
<1> QED BY <1>1, <1>3 DEF LoadOutcomes

\* Reading leaves the inputs and the configuration alone.
LEMMA ReadEffect ==
  ASSUME Reads
  PROVE  /\ stage \in Reading /\ stage' \in Reading \cup {"refused"}
         /\ UNCHANGED <<given, config, errors, first, picked, deploy>>
         /\ refusal' \in {refusal, "experiment file", "environment variable"} \cup ProfileErrors
<1>1. CASE \E axis \in Axes : SelectProfile(axis)
  BY <1>1 DEF Reads, SelectProfile, AfterAxis, Reading, Axes
<1>2. CASE FollowInherits
  BY <1>2 DEF Reads, FollowInherits, Reading
<1>3. CASE EndSelect
  <2>1. PICK outcome \in LoadOutcomes(walk) :
          IF outcome = "loaded"
          THEN stage' = AfterAxis(walk.axis) /\ refusal' = refusal
          ELSE stage' = "refused" /\ refusal' = outcome
    BY <1>3 DEF EndSelect, Refuse
  <2>2. AtRest(walk) # "more" /\ stage = "walk"
    BY <1>3 DEF EndSelect
  <2>3. outcome \in ProfileErrors \cup {"loaded"}
    BY <2>2, OutcomeRange
  <2>4. UNCHANGED <<given, config, errors, first, picked, deploy>>
    BY <1>3 DEF EndSelect, Reads
  <2> QED BY <2>1, <2>2, <2>3, <2>4 DEF AfterAxis, Reading
<1>4. CASE StartSurvey
  BY <1>4 DEF Reads, StartSurvey, Reading
<1>5. CASE SurveyNext
  BY <1>5 DEF Reads, SurveyNext, Reading
<1>6. CASE EndSurveyed
  BY <1>6 DEF Reads, EndSurveyed, Reading
<1>7. CASE ReadFile
  BY <1>7 DEF Reads, ReadFile, Refuse, Reading
<1>8. CASE ReadEnv
  BY <1>8 DEF Reads, ReadEnv, Refuse, Reading
<1> QED BY <1>1, <1>2, <1>3, <1>4, <1>5, <1>6, <1>7, <1>8 DEF Reads

\* A check changes nothing but how far the start has come.
LEMMA CheckEffect ==
  ASSUME Checks
  PROVE  /\ stage \in FromTls /\ stage' \in FromJwt \cup {"refused"}
         /\ UNCHANGED <<given, walk, profile, survey, config, errors, first, picked, deploy>>
         /\ stage' # "refused" => refusal' = refusal
         /\ stage' = "refused" => refusal' \in CheckReasons
<1> USE DEF Check, Refuse, CheckReasons, FromBind, FromSidecar, FromConnect, FromBackends,
            FromJwt, FromTls
<1>1. CASE BindTls
  BY <1>1 DEF BindTls
<1>2. CASE LoadJwtKey
  BY <1>2 DEF LoadJwtKey
<1>3. CASE SelectBackends
  BY <1>3 DEF SelectBackends
<1>4. CASE Connect
  BY <1>4 DEF Connect
<1>5. CASE ConnectSidecar
  BY <1>5 DEF ConnectSidecar
<1>6. CASE Bind
  BY <1>6 DEF Bind
<1>7. CASE BindAdmin
  BY <1>7 DEF BindAdmin
<1>8. CASE Listen
  BY <1>8 DEF Listen
<1> QED BY <1>1, <1>2, <1>3, <1>4, <1>5, <1>6, <1>7, <1>8 DEF Checks

\* What the layers give changes only with the inputs.
LEMMA LayerUnchanged ==
  ASSUME given' = given
  PROVE  /\ \A k : Layer(k, "builtin")' = Layer(k, "builtin")
         /\ QuorumGiven' = QuorumGiven
         /\ Asked' = Asked
         /\ GivenOK(given)' = GivenOK(given)
         /\ dir' = dir
BY DEF Layer, QuorumGiven, Asked, Axes, dir

LEMMA ResolutionUnchanged ==
  ASSUME given' = given, profile' = profile
  PROVE  Resolution' = Resolution
<1>1. QuorumGiven' = QuorumGiven
  BY DEF QuorumGiven
<1>2. \A k, a : Layer(k, a)' = Layer(k, a)
  BY DEF Layer, SourceLabel
<1> QED BY <1>1, <1>2 DEF Resolution

-----------------------------------------------------------------------------
(* ConfigInv and CheckInv *)

\* A start is begun over with the configuration empty.
LEMMA AgainEffect ==
  ASSUME StartAgain
  PROVE  /\ stage' = "topology" /\ refusal' = "none" /\ errors' = {}
         /\ config' = Empty /\ survey' = NoSurvey /\ walk' = walk
         /\ profile' = [a \in Axes |-> BuiltinProfile(a, CHOOSE b \in Builtins(a) : TRUE)]
BY DEF StartAgain

\* The operator's advice changes one entry of the environment.
LEMMA AdviceEffect ==
  ASSUME GivenOK(given), FollowAdvice
  PROVE  /\ given'.env.keys = [k \in DOMAIN given.env.keys \cup {"quorum"} |->
              IF k = "quorum" THEN P(config)!RequiredAt(config["quorum"].value)
              ELSE given.env.keys[k]]
         /\ given'.file = given.file /\ given'.dir = given.dir
         /\ given'.topology = given.topology /\ given'.mode = given.mode
         /\ given'.env.bad = given.env.bad
         /\ given' \in [dir : {given.dir}, topology : STRING, mode : STRING,
                        file : {given.file}, env : {given'.env}]
         /\ given'.env \in [keys : {given'.env.keys}, bad : {given'.env.bad}]
<1>1. /\ given \in [dir : {given.dir}, topology : STRING, mode : STRING,
                    file : {given.file}, env : {given.env}]
      /\ given.env \in [keys : {given.env.keys}, bad : {given.env.bad}]
  BY DEF GivenOK
<1> DEFINE r == P(config)!RequiredAt(config["quorum"].value)
           keys == [k \in DOMAIN given.env.keys \cup {"quorum"} |->
                      IF k = "quorum" THEN r ELSE given.env.keys[k]]
<1>2. given' = [given EXCEPT !.env.keys = keys]
  BY DEF FollowAdvice
<1> HIDE DEF keys
<1>3. given' = [given EXCEPT !.env = [given.env EXCEPT !.keys = keys]]
  BY <1>1, <1>2
<1>4. given'.env = [given.env EXCEPT !.keys = keys]
  BY <1>1, <1>3
<1>5. given'.env.keys = keys /\ given'.env.bad = given.env.bad
      /\ given'.env \in [keys : {given'.env.keys}, bad : {given'.env.bad}]
  BY <1>1, <1>4
<1> QED BY <1>1, <1>3, <1>5 DEF keys

\* Selecting a reported profile changes one name.
LEMMA SelectEffect ==
  ASSUME GivenOK(given), NEW axis \in Axes, SelectReported(axis)
  PROVE  \E n \in survey[axis] :
           /\ given'[axis] = n /\ given'[Other(axis)] = given[Other(axis)]
           /\ given'.file = given.file /\ given'.dir = given.dir /\ given'.env = given.env
           /\ given' = [given EXCEPT ![axis] = n]
<1>1. given \in [dir : {given.dir}, topology : STRING, mode : STRING,
                 file : {given.file}, env : {given.env}]
  BY DEF GivenOK
<1>2. PICK n \in survey[axis] : given' = [given EXCEPT ![axis] = n]
  BY DEF SelectReported
<1>3. CASE axis = "topology"
  BY <1>1, <1>2, <1>3 DEF Other
<1>4. CASE axis = "mode"
  BY <1>1, <1>2, <1>4 DEF Other
<1> QED BY <1>3, <1>4 DEF Axes

\* A requirement is a number.
LEMMA RequiredIsNat ==
  ASSUME NEW c, c["robust_byzantine_fraction"].value \in Nat, NEW q \in Nat \ {0}
  PROVE  P(c)!RequiredAt(q) \in Nat
<1> DEFINE e == P(c)!ExcludedAt(q)
           method == c["aggregator"].value
<1>1. e \in Nat
  BY ExcludedRange
<1>2. P(c)!RequiredAt(q) = CASE method \in {"krum", "multi_krum"} -> 2 * e + 3
                             [] method = "bulyan" -> 4 * e + 3
                             [] method = "trimmed_mean" -> 2 * e + 1
                             [] OTHER -> 0
  BY DEF P!RequiredAt
<1> HIDE DEF e
<1> QED BY <1>1, <1>2

\* The configuration an operator is advised about.
LEMMA AdvisedConfig ==
  ASSUME ConfigInv, FollowAdvice
  PROVE  /\ config = Resolution /\ errors = Errors(config)
         /\ QuorumGiven /\ config["quorum"] = Layer("quorum", "builtin")
         /\ config["quorum"].value \in Nat \ {0}
         /\ config["robust_byzantine_fraction"].value \in Nat
         /\ config["aggregator"].value = Asked["aggregator"].value
         /\ config["robust_byzantine_fraction"].value = Asked["robust_byzantine_fraction"].value
         /\ P(config)!HasRequirement(config["quorum"].value)
         /\ ~P(config)!Covered(config["quorum"].value)
<1>1. refusal = "configuration" /\ "quorum" \in errors
      /\ P(config)!HasRequirement(config["quorum"].value)
  BY DEF FollowAdvice
<1>2. stage = "refused" /\ config # Empty /\ config = Resolution
  BY <1>1 DEF ConfigInv
<1>3. errors = Errors(config)
  BY <1>2 DEF ConfigInv, Resolved, Reading
<1>4. QuorumSet(config) /\ ~P(config)!QuorumAccepted(config["quorum"].value)
  BY <1>1, <1>3, QuorumError
<1>5. QuorumGiven /\ config["quorum"] = Layer("quorum", "builtin")
  BY <1>2, <1>4, ResolutionFacts DEF QuorumSet
<1>6. GivenOK(given)
  BY DEF ConfigInv
<1>7. config["quorum"].value \in Nat
  BY <1>5, <1>6, AskedFacts
<1>8. config["quorum"].value # 0
  BY <1>1 DEF P!HasRequirement
<1>9. ~P(config)!Covered(config["quorum"].value)
  BY <1>4, <1>8 DEF P!QuorumAccepted
<1>10. /\ config["robust_byzantine_fraction"].value \in Nat
       /\ config["aggregator"].value = Asked["aggregator"].value
       /\ config["robust_byzantine_fraction"].value = Asked["robust_byzantine_fraction"].value
  BY <1>2, <1>6, AskedFacts, ResolutionFacts
<1> QED BY <1>1, <1>2, <1>3, <1>5, <1>7, <1>8, <1>9, <1>10

LEMMA ConfigInvInit == Init => ConfigInv
<1> SUFFICES ASSUME Init PROVE ConfigInv
  OBVIOUS
<1>1. given \in Givens /\ stage = "topology" /\ config = Empty /\ refusal = "none"
      /\ deploy \in Deployments(given)
  BY DEF Init, ConfigInit
<1>2. GivenOK(given) /\ deploy \in Deployment
  BY <1>1, GivensAssumption, DeploymentsAssumption
<1> QED BY <1>1, <1>2 DEF ConfigInv, Resolved, Reading

\* The inputs stay well formed.
LEMMA GivenStep ==
  ASSUME ConfigInv, [Next]_vars,
         \A axis \in Axes : \A n \in survey[axis] : n \in STRING
  PROVE  GivenOK(given')
<1>1. GivenOK(given)
  BY DEF ConfigInv
<1>2. CASE FollowAdvice
  <2> DEFINE r == P(config)!RequiredAt(config["quorum"].value)
  <2>1. r \in Nat
    BY <1>2, AdvisedConfig, RequiredIsNat
  <2>2. LayerOK(given.env.keys) /\ LayerOK(given.file.keys)
    BY <1>1 DEF GivenOK
  <2>3. given'.env.keys = [k \in DOMAIN given.env.keys \cup {"quorum"} |->
                             IF k = "quorum" THEN r ELSE given.env.keys[k]]
    BY <1>1, <1>2, AdviceEffect
  <2> HIDE DEF r
  <2>4. LayerOK(given'.env.keys)
    BY <2>1, <2>2, <2>3 DEF LayerOK
  <2> QED BY <1>1, <1>2, <2>2, <2>4, AdviceEffect DEF GivenOK
<1>3. CASE \E axis \in Axes : SelectReported(axis)
  <2>1. PICK axis \in Axes : SelectReported(axis)
    BY <1>3
  <2>2. PICK n \in survey[axis] :
          /\ given'.file = given.file /\ given'.dir = given.dir /\ given'.env = given.env
          /\ given' = [given EXCEPT ![axis] = n]
    BY <1>1, <2>1, SelectEffect
  <2>3. n \in STRING
    OBVIOUS
  <2>4. given' \in [dir : {given.dir}, topology : STRING, mode : STRING,
                    file : {given.file}, env : {given.env}]
    BY <1>1, <2>2, <2>3 DEF GivenOK, Axes
  <2> QED BY <1>1, <2>2, <2>4 DEF GivenOK
<1>4. CASE UNCHANGED given
  BY <1>1, <1>4
<1>5. FollowAdvice \/ UNCHANGED given \/ (\E axis \in Axes : SelectReported(axis))
  <2>1. CASE UNCHANGED vars
    BY <2>1 DEF vars, configVars
  <2>2. CASE Next
    <3>1. Reads => UNCHANGED given
      BY ReadEffect
    <3>2. Checks => UNCHANGED given
      BY CheckEffect
    <3>3. Resolve \/ Validate => UNCHANGED given
      BY DEF Resolve, Validate
    <3> QED BY <2>2, <3>1, <3>2, <3>3, NextCases
  <2> QED BY <2>1, <2>2
<1> QED BY <1>2, <1>3, <1>4, <1>5

\* What was resolved stays resolved, and what was found stays found.
LEMMA ConfigInvStep ==
  ASSUME ConfigInv, [Next]_vars,
         \A axis \in Axes : \A n \in survey[axis] : n \in STRING
  PROVE  ConfigInv'
<1>1. GivenOK(given)'
  BY GivenStep
<1>2. (deploy \in Deployment)'
  <2>1. deploy' = deploy
    BY NextCases, CheckEffect, ReadEffect DEF vars
  <2> QED BY <2>1 DEF ConfigInv, Deployment
<1>3. CASE UNCHANGED vars
  <2>1. UNCHANGED <<given, stage, profile, config, errors, refusal>>
    BY <1>3 DEF vars, configVars
  <2>2. Resolution' = Resolution
    BY <2>1, ResolutionUnchanged
  <2> QED BY <1>1, <1>2, <2>1, <2>2 DEF ConfigInv, Resolved, Reading, Empty
<1>4. CASE Reads
  <2>1. config = Empty
    BY <1>4, ReadEffect DEF ConfigInv
  <2>2. config' = Empty /\ stage' \in Reading \cup {"refused"}
    BY <1>4, <2>1, ReadEffect
  <2>3. refusal' # "configuration"
    BY <1>4, ReadEffect DEF ProfileErrors, ConfigInv, Reading
  <2> QED BY <1>1, <1>2, <2>2, <2>3 DEF ConfigInv, Resolved, Reading, Empty
<1>5. CASE Resolve
  <2>1. /\ stage = "resolve" /\ stage' = "validate" /\ config' = Resolution
        /\ UNCHANGED <<given, profile, refusal>>
    BY <1>5 DEF Resolve
  <2>2. Resolution' = Resolution
    BY <2>1, ResolutionUnchanged
  <2>3. config' # Empty
    BY <2>1, ResolutionFacts DEF Empty
  <2>4. refusal' # "configuration"
    BY <2>1 DEF ConfigInv, Reading
  <2> QED BY <1>1, <1>2, <2>1, <2>2, <2>3, <2>4 DEF ConfigInv, Resolved, Reading, Empty
<1>6. CASE Validate
  <2>1. /\ stage = "validate" /\ stage' \in {"tls", "refused"} /\ errors' = Errors(config)
        /\ UNCHANGED <<given, profile, config>>
        /\ stage' = "refused" \/ refusal' = refusal
    BY <1>6 DEF Validate, Refuse
  <2>2. Resolution' = Resolution
    BY <2>1, ResolutionUnchanged
  <2>3. config # Empty /\ config = Resolution
    BY <2>1 DEF ConfigInv, Reading
  <2>4. errors' = Errors(config')
    BY <2>1
  <2>5. refusal' = "configuration" => stage' = "refused"
    BY <2>1 DEF ConfigInv
  <2> QED BY <1>1, <1>2, <2>1, <2>2, <2>3, <2>4, <2>5 DEF ConfigInv, Resolved, Reading, Empty
<1>7. CASE Checks
  <2>1. /\ stage \in FromTls /\ stage' \in FromJwt \cup {"refused"}
        /\ UNCHANGED <<given, profile, config, errors>>
        /\ stage' # "refused" => refusal' = refusal
        /\ stage' = "refused" => refusal' # "configuration"
    BY <1>7, CheckEffect DEF CheckReasons
  <2>2. Resolution' = Resolution
    BY <2>1, ResolutionUnchanged
  <2>3. config # Empty /\ config = Resolution /\ errors = Errors(config) /\ stage # "refused"
    BY <2>1 DEF ConfigInv, Reading, Resolved, FromTls, FromJwt, FromBackends, FromConnect,
                FromSidecar, FromBind
  <2>4. errors' = Errors(config')
    BY <2>1, <2>3
  <2>5. refusal' # "configuration"
    BY <2>1, <2>3 DEF ConfigInv
  <2>6. stage' \notin Reading
    BY <2>1 DEF Reading, FromJwt, FromBackends, FromConnect, FromSidecar, FromBind
  <2> QED BY <1>1, <1>2, <2>1, <2>2, <2>3, <2>4, <2>5, <2>6
          DEF ConfigInv, Resolved, Reading, Empty
<1>8. CASE FollowAdvice \/ \E axis \in Axes : SelectReported(axis)
  <2>1. stage' = "topology" /\ config' = Empty /\ refusal' = "none"
    BY <1>8 DEF FollowAdvice, SelectReported, StartAgain
  <2> QED BY <1>1, <1>2, <2>1 DEF ConfigInv, Resolved, Reading, Empty
<1> QED BY <1>3, <1>4, <1>5, <1>6, <1>7, <1>8, NextCases

LEMMA CheckInvInit == Init => CheckInv
BY DEF Init, ConfigInit, CheckInv, FromTls, FromJwt, FromBackends, FromConnect, FromSidecar,
       FromBind

\* What a check reads does not change while checks are made.
LEMMA CheckInvStep ==
  ASSUME ConfigInv, CheckInv, [Next]_vars
  PROVE  CheckInv'
<1> USE DEF FromTls, FromJwt, FromBackends, FromConnect, FromSidecar, FromBind
<1> DEFINE badTls == deploy.tls = "unreadable" \/ TlsRefused
           badJwt == deploy.jwt = "unusable" \/ JwtRefused
           badBackends == "no_companion" \in Backends \/ BackendsRefused
           badSidecar == Needs # {} /\ ~(SidecarServes /\ deploy.dim # "other")
<1>1. ASSUME UNCHANGED <<profile, config, deploy>>
      PROVE  /\ badTls' = badTls /\ badJwt' = badJwt /\ badBackends' = badBackends
             /\ badSidecar' = badSidecar /\ Unreachable' = Unreachable
  BY <1>1 DEF TlsRefused, BindsTls, auth, Strict, mode, JwtRefused, Backends, BackendsRefused,
              Needs, SidecarServes, Unreachable, Remote
<1>2. CheckInv <=> /\ stage \in FromTls => errors = {}
                   /\ stage \in FromJwt => ~badTls
                   /\ stage \in FromBackends => ~badJwt
                   /\ stage \in FromConnect => ~badBackends
                   /\ stage \in FromSidecar => Unreachable = {}
                   /\ stage \in FromBind => ~badSidecar
  BY DEF CheckInv
<1>3. CheckInv' <=> /\ stage' \in FromTls => errors' = {}
                    /\ stage' \in FromJwt => ~badTls'
                    /\ stage' \in FromBackends => ~badJwt'
                    /\ stage' \in FromConnect => ~badBackends'
                    /\ stage' \in FromSidecar => Unreachable' = {}
                    /\ stage' \in FromBind => ~badSidecar'
  BY DEF CheckInv
<1> HIDE DEF badTls, badJwt, badBackends, badSidecar
<1>4. CASE UNCHANGED vars
  <2>1. UNCHANGED <<stage, errors, profile, config, deploy>>
    BY <1>4 DEF vars, configVars
  <2> QED BY <1>1, <1>2, <1>3, <2>1
<1>5. CASE Reads
  BY <1>5, <1>3, ReadEffect DEF Reading
<1>6. CASE Resolve
  BY <1>6, <1>3 DEF Resolve
<1>7. CASE Validate
  BY <1>7, <1>3 DEF Validate, Refuse
<1>8. CASE FollowAdvice \/ \E axis \in Axes : SelectReported(axis)
  BY <1>8, <1>3 DEF FollowAdvice, SelectReported, StartAgain
<1>9. CASE Checks
  <2>0. UNCHANGED <<profile, config, errors, deploy>>
    BY <1>9, CheckEffect
  <2>1. CASE BindTls
    BY <2>0, <2>1, <1>1, <1>2, <1>3 DEF BindTls, Check, Refuse, badTls
  <2>2. CASE LoadJwtKey
    BY <2>0, <2>2, <1>1, <1>2, <1>3 DEF LoadJwtKey, Check, Refuse, badJwt
  <2>3. CASE SelectBackends
    BY <2>0, <2>3, <1>1, <1>2, <1>3 DEF SelectBackends, Check, Refuse, badBackends
  <2>4. CASE Connect
    BY <2>0, <2>4, <1>1, <1>2, <1>3 DEF Connect, Check, Refuse
  <2>5. CASE ConnectSidecar
    BY <2>0, <2>5, <1>1, <1>2, <1>3 DEF ConnectSidecar, Check, Refuse, badSidecar
  <2>6. CASE Bind
    BY <2>0, <2>6, <1>1, <1>2, <1>3 DEF Bind, Check, Refuse
  <2>7. CASE BindAdmin
    BY <2>0, <2>7, <1>1, <1>2, <1>3 DEF BindAdmin, Check, Refuse
  <2>8. CASE Listen
    BY <2>0, <2>8, <1>1, <1>2, <1>3 DEF Listen, Check, Refuse
  <2> QED BY <1>9, <2>1, <2>2, <2>3, <2>4, <2>5, <2>6, <2>7, <2>8 DEF Checks
<1> QED BY <1>4, <1>5, <1>6, <1>7, <1>8, <1>9, NextCases

-----------------------------------------------------------------------------
(* AdviceInv *)

LEMMA AdviceInvInit == Init => AdviceInv
BY DEF Init, ConfigInit, AdviceInv

\* Each quorum advised is past every one that would not do.
LEMMA AdviceInvStep ==
  ASSUME ConfigInv, AdviceInv, [Next]_vars
  PROVE  AdviceInv'
<1> DEFINE q == Layer("quorum", "builtin").value
           Fails(n) == ~P(Asked)!Covered(n)
<1>1. GivenOK(given)
  BY DEF ConfigInv
<1>2. first \in Nat /\ (first > 0 => QuorumGiven /\ \A n \in first .. q - 1 : Fails(n))
  BY DEF AdviceInv
<1>3. QuorumGiven => q \in Nat
  BY <1>1, AskedFacts
<1>4. AdviceInv' <=>
        /\ first' \in Nat
        /\ first' > 0 => QuorumGiven' /\ \A n \in first' .. q' - 1 : ~P(Asked')!Covered(n)
  BY DEF AdviceInv
<1>5. CASE given' = given
  <2>1. q' = q /\ QuorumGiven' = QuorumGiven /\ Asked' = Asked
    BY <1>5, LayerUnchanged
  <2>2. CASE first' = first
    BY <1>2, <1>4, <2>1, <2>2
  <2>3. CASE first' # first
    <3>1. Resolve /\ QuorumGiven /\ first = 0 /\ first' = config'["quorum"].value
      <4>1. Reads \/ Checks => first' = first
        BY ReadEffect, CheckEffect
      <4> QED BY <2>3, <4>1, NextCases
              DEF vars, configVars, Resolve, Validate, FollowAdvice, SelectReported
    <3>2. config' = Resolution
      BY <3>1 DEF Resolve
    <3>3. first' = q
      BY <3>1, <3>2, ResolutionFacts
    <3> HIDE DEF q
    <3> QED BY <1>3, <1>4, <2>1, <3>1, <3>3
  <2> QED BY <2>2, <2>3
<1>6. CASE FollowAdvice
  <2> DEFINE r == P(config)!RequiredAt(config["quorum"].value)
  <2>1. /\ QuorumGiven /\ config["quorum"].value = q /\ q \in Nat \ {0}
        /\ config["robust_byzantine_fraction"].value \in Nat
        /\ config["aggregator"].value = Asked["aggregator"].value
        /\ config["robust_byzantine_fraction"].value
             = Asked["robust_byzantine_fraction"].value
        /\ P(config)!HasRequirement(config["quorum"].value)
    BY <1>6, AdvisedConfig
  <2>2. r \in Nat
    BY <2>1, RequiredIsNat
  <2>3. /\ given'.env.keys = [k \in DOMAIN given.env.keys \cup {"quorum"} |->
                                IF k = "quorum" THEN r ELSE given.env.keys[k]]
        /\ given'.file = given.file
    BY <1>1, <1>6, AdviceEffect
  <2>4. q' = r /\ QuorumGiven'
    BY <2>3, KeyFacts DEF Layer, QuorumGiven
  <2>5. \A k \in {"aggregator", "robust_byzantine_fraction"} :
          Layer(k, "builtin")' = Layer(k, "builtin")
    BY <2>3 DEF Layer, Axes
  <2>6. Asked' = Asked
    BY <2>5 DEF Asked
  <2>7. first' = first
    BY <1>6 DEF FollowAdvice
  <2>8. ASSUME NEW n \in first .. r - 1, first > 0
        PROVE  Fails(n)
    <3>1. CASE n < q
      <4> HIDE DEF q, Fails
      <4> QED BY <1>2, <2>1, <2>2, <2>8, <3>1
    <3>2. CASE ~(n < q)
      <4>1. n \in Nat /\ q <= n /\ n < r
        BY <1>2, <2>1, <2>2, <2>8, <3>2
      <4>2. ~P(config)!Covered(n)
        BY <2>1, <4>1, AdviceIsLeast
      <4> QED BY <2>1, <4>2, SameRequirement
    <3> QED BY <3>1, <3>2
  <2> HIDE DEF q, r, Fails
  <2> QED BY <1>2, <1>4, <2>4, <2>6, <2>7, <2>8 DEF Fails
<1>7. CASE \E axis \in Axes : SelectReported(axis)
  <2>1. given'.file = given.file /\ given'.env = given.env
    BY <1>1, <1>7, SelectEffect
  <2>2. \A k : Layer(k, "builtin")' = Layer(k, "builtin")
    BY <2>1 DEF Layer, Axes
  <2>3. QuorumGiven' = QuorumGiven
    BY <2>1 DEF QuorumGiven
  <2>4. Asked' = Asked
    BY <2>2 DEF Asked
  <2>5. first' = first
    BY <1>7 DEF SelectReported
  <2> QED BY <1>2, <1>4, <2>2, <2>3, <2>4, <2>5
<1>8. FollowAdvice \/ given' = given \/ (\E axis \in Axes : SelectReported(axis))
  <2>1. Reads \/ Checks => given' = given
    BY ReadEffect, CheckEffect
  <2> QED BY <2>1, NextCases DEF vars, configVars, Resolve, Validate
<1> QED BY <1>5, <1>6, <1>7, <1>8

-----------------------------------------------------------------------------
(* Chains of profiles *)

\* Loading name ends well: the files of some chain from it to a builtin are
\* all in order.
Leads(axis, name, files, base) ==
  /\ files \in Seq(DOMAIN dir) /\ base \in Builtins(axis) \ DOMAIN dir
  /\ Chain(axis, name, files, base)
  /\ ChainProblems(axis, files) = {}
Loads(axis, name) == \E files, base : Leads(axis, name, files, base)

Selectable(axis, name) == name \in Builtins(axis) \cup {"none"} \/ Loads(axis, name)

\* The walk is on its way down a chain that ends well.
OnCourse ==
  \E files, base :
    /\ Leads(walk.axis, walk.name, files, base)
    /\ Len(walk.visited) <= Len(files)
    /\ \A i \in DOMAIN walk.visited : walk.visited[i] = files[i]
    /\ walk.at = Link(files, base, Len(walk.visited) + 1)

\* An axis whose profile this start has loaded, up to the experiment file.
Behind(axis) ==
  \/ stage \in {"survey", "surveying", "file"}
  \/ stage = "walk" /\ walk.for = "survey"
  \/ axis = "topology" /\ stage = "mode"
  \/ axis = "topology" /\ stage = "walk" /\ walk.axis = "mode"

\* Every name that was loaded or reported loads, and so does every name in
\* force once one was taken from the report.
SelectInv ==
  /\ survey \in [todo : SUBSET STRING, topology : SUBSET STRING,
                 mode : SUBSET STRING, unusable : SUBSET STRING]
  /\ \A axis \in Axes :
       /\ Behind(axis) \/ picked # "none" => Selectable(axis, given[axis])
       /\ \A n \in survey[axis] : Loads(axis, n)
  /\ picked # "none" =>
       /\ refusal \notin ProfileErrors
       /\ stage = "walk" /\ walk.for = "select" => OnCourse

LEMMA ChainFacts ==
  ASSUME dir' = dir, NEW axis, NEW name, NEW files, NEW end
  PROVE  /\ Chain(axis, name, files, end)' = Chain(axis, name, files, end)
         /\ Leads(axis, name, files, end)' = Leads(axis, name, files, end)
BY DEF Chain, Readable, Leads, ChainProblems, KeyProblems

\* When load_chain reads on, and when it is done.
LEMMA AtRestFacts ==
  ASSUME NEW w
  PROVE  /\ AtRest(w) = "more" <=> Readable(w.axis, w.at) /\ w.at \notin Range(w.visited)
         /\ AtRest(w) = "done" <=> w.at \in Builtins(w.axis) \ DOMAIN dir
BY DEF AtRest, Readable

\* A file that can be read and was not is the chain's next.
LEMMA ChainExtends ==
  ASSUME NEW axis, NEW name, NEW files \in Seq(DOMAIN dir), NEW at,
         Chain(axis, name, files, at), Readable(axis, at), at \notin Range(files)
  PROVE  /\ Append(files, at) \in Seq(DOMAIN dir)
         /\ Chain(axis, name, Append(files, at), dir[at].inherits)
<1> DEFINE more == Append(files, at)
           n == Len(files)
           up == dir[at].inherits
<1>1. at \in DOMAIN dir
  BY DEF Readable
<1>2. /\ n \in Nat /\ DOMAIN files = 1 .. n
      /\ more \in Seq(DOMAIN dir) /\ Len(more) = n + 1 /\ DOMAIN more = 1 .. n + 1
      /\ more[n + 1] = at /\ \A i \in 1 .. n : more[i] = files[i]
  BY <1>1
<1>3. \A i \in 1 .. n + 1 : Link(more, up, i) = Link(files, at, i)
  BY <1>2 DEF Link
<1>4. Link(more, up, n + 2) = up
  BY <1>2 DEF Link
<1> HIDE DEF more, n, up
<1>5. Link(more, up, 1) = name
  BY <1>2, <1>3 DEF Chain
<1>6. ASSUME NEW i \in DOMAIN more
      PROVE  Readable(axis, more[i]) /\ dir[more[i]].inherits = Link(more, up, i + 1)
  <2>1. CASE i \in 1 .. n
    <3>1. Readable(axis, files[i]) /\ dir[files[i]].inherits = Link(files, at, i + 1)
      BY <1>2, <2>1 DEF Chain
    <3>2. i + 1 \in 1 .. n + 1
      BY <1>2, <2>1
    <3> QED BY <1>2, <1>3, <2>1, <3>1, <3>2
  <2>2. CASE i = n + 1
    <3>1. i + 1 = n + 2
      BY <1>2, <2>2
    <3> QED BY <1>2, <1>4, <2>2, <3>1 DEF up
  <2> QED BY <1>2, <1>6, <2>1, <2>2
<1>7. ASSUME NEW i \in DOMAIN more, NEW j \in DOMAIN more, more[i] = more[j]
      PROVE  i = j
  <2>1. \A k \in 1 .. n : files[k] # at
    BY <1>2 DEF Range
  <2>2. \A k, m \in 1 .. n : files[k] = files[m] => k = m
    BY <1>2 DEF Chain
  <2> QED BY <1>2, <1>7, <2>1, <2>2
<1>8. Chain(axis, name, more, up)
  BY <1>5, <1>6, <1>7 DEF Chain
<1> QED BY <1>2, <1>8 DEF more, up

\* A chain begins at the name asked for.
LEMMA ChainBegins ==
  ASSUME NEW axis, NEW name
  PROVE  <<>> \in Seq(DOMAIN dir) /\ Chain(axis, name, <<>>, name)
<1>1. Len(<<>>) = 0 /\ DOMAIN <<>> = {}
  OBVIOUS
<1> QED BY <1>1 DEF Chain, Link

LEMMA WalkInvInit == Init => WalkInv
BY DEF Init, ConfigInit, WalkInv

\* A walk that has just begun.
LEMMA WalkBegins ==
  ASSUME given' = given, NEW axis \in Axes, NEW purpose \in {"select", "survey"},
         NEW n \in STRING, StartWalk(axis, purpose, n),
         purpose = "select" => n = given[axis] /\ n # "none"
  PROVE  WalkInv'
<1>1. walk' = [axis |-> axis, for |-> purpose, name |-> n, at |-> n, visited |-> <<>>]
  BY DEF StartWalk
<1>2. <<>> \in Seq(DOMAIN dir) /\ Chain(axis, n, <<>>, n)
  BY ChainBegins
<1>3. dir' = dir
  BY DEF dir
<1>4. Chain(axis, n, <<>>, n)'
  BY <1>2, <1>3, ChainFacts
<1>5. walk' \in [axis : Axes, for : {"select", "survey"}, name : STRING, at : STRING,
                 visited : Seq(DOMAIN dir')]
  BY <1>1, <1>2, <1>3
<1>6. Chain(walk.axis, walk.name, walk.visited, walk.at)'
  BY <1>1, <1>4 DEF Chain, Readable, Link
<1> QED BY <1>1, <1>5, <1>6 DEF WalkInv

\* What is being walked, while it is.
LEMMA WalkNow ==
  ASSUME ConfigInv, WalkInv, stage = "walk"
  PROVE  /\ walk.axis \in Axes /\ walk.for \in {"select", "survey"}
         /\ walk.name \in STRING /\ walk.at \in STRING /\ walk.visited \in Seq(DOMAIN dir)
         /\ Chain(walk.axis, walk.name, walk.visited, walk.at)
BY DEF WalkInv

LEMMA FollowEffect ==
  ASSUME ConfigInv, WalkInv, FollowInherits
  PROVE  /\ walk' = [axis |-> walk.axis, for |-> walk.for, name |-> walk.name,
                     at |-> dir[walk.at].inherits, visited |-> Append(walk.visited, walk.at)]
         /\ Readable(walk.axis, walk.at) /\ walk.at \notin Range(walk.visited)
         /\ given' = given /\ dir' = dir /\ stage' = "walk" /\ stage = "walk"
<1>1. stage = "walk" /\ stage' = "walk" /\ given' = given /\ AtRest(walk) = "more"
  BY DEF FollowInherits
<1>2. walk \in [axis : Axes, for : {"select", "survey"}, name : STRING, at : STRING,
                visited : Seq(DOMAIN dir)]
  BY <1>1 DEF WalkInv
<1>3. walk' = [walk EXCEPT !.visited = Append(walk.visited, walk.at),
                           !.at = dir[walk.at].inherits]
  BY DEF FollowInherits
<1>4. walk' = [axis |-> walk.axis, for |-> walk.for, name |-> walk.name,
               at |-> dir[walk.at].inherits, visited |-> Append(walk.visited, walk.at)]
  BY <1>2, <1>3
<1> QED BY <1>1, <1>4, AtRestFacts DEF dir

\* Every walk follows inherits from its name, and meets no file twice.
LEMMA WalkInvStep ==
  ASSUME ConfigInv, WalkInv, SelectInv, [Next]_vars
  PROVE  WalkInv'
<1> SUFFICES ASSUME stage' = "walk" PROVE WalkInv'
  BY DEF WalkInv
<1>1. GivenOK(given)
  BY DEF ConfigInv
<1>2. given.topology \in STRING /\ given.mode \in STRING /\ DOMAIN dir \subseteq STRING
      /\ \A n \in DOMAIN dir : dir[n].inherits \in STRING
  BY <1>1 DEF GivenOK, dir
<1>3. CASE UNCHANGED vars
  <2>1. given' = given /\ walk' = walk /\ stage' = stage
    BY <1>3 DEF vars, configVars
  <2>2. dir' = dir
    BY <2>1 DEF dir
  <2>3. Chain(walk.axis, walk.name, walk.visited, walk.at)'
    BY <2>1, <2>2, WalkNow DEF Chain, Readable
  <2> QED BY <2>1, <2>2, <2>3 DEF WalkInv
<1>4. CASE Reads
  <2>0. given' = given
    BY <1>4, ReadEffect
  <2>1. CASE \E axis \in Axes : SelectProfile(axis)
    <3>1. PICK axis \in Axes : SelectProfile(axis)
      BY <2>1
    <3> DEFINE name == IF given[axis] # "none" THEN given[axis]
                       ELSE IF axis = "topology" THEN "cross_device" ELSE "research"
    <3>2. StartWalk(axis, "select", name) /\ name \notin Builtins(axis)
      BY <3>1 DEF SelectProfile, AfterAxis
    <3>3. name = given[axis] /\ name # "none"
      BY <3>2 DEF Builtins, Topologies, Modes, Axes
    <3>4. name \in STRING
      BY <1>2, <3>3 DEF Axes
    <3> HIDE DEF name
    <3> QED BY <2>0, <3>2, <3>3, <3>4, WalkBegins
  <2>2. CASE FollowInherits
    <3>1. /\ walk' = [axis |-> walk.axis, for |-> walk.for, name |-> walk.name,
                      at |-> dir[walk.at].inherits, visited |-> Append(walk.visited, walk.at)]
          /\ Readable(walk.axis, walk.at) /\ walk.at \notin Range(walk.visited)
          /\ dir' = dir /\ stage = "walk"
      BY <2>2, FollowEffect
    <3>2. /\ Append(walk.visited, walk.at) \in Seq(DOMAIN dir)
          /\ Chain(walk.axis, walk.name, Append(walk.visited, walk.at), dir[walk.at].inherits)
      BY <3>1, WalkNow, ChainExtends
    <3>3. Chain(walk.axis, walk.name, walk.visited, walk.at)'
      BY <2>0, <3>1, <3>2 DEF Chain, Readable
    <3>4. dir[walk.at].inherits \in STRING
      BY <1>2, <3>1 DEF Readable
    <3>5. walk' \in [axis : Axes, for : {"select", "survey"}, name : STRING, at : STRING,
                     visited : Seq(DOMAIN dir')]
      BY <3>1, <3>2, <3>4, WalkNow
    <3>6. walk.for = "select" => walk.name = given[walk.axis] /\ walk.name # "none"
      BY <3>1 DEF WalkInv
    <3> QED BY <2>0, <3>1, <3>3, <3>5, <3>6 DEF WalkInv
  <2>3. CASE SurveyNext
    <3>1. PICK n \in survey.todo : StartWalk("topology", "survey", n)
      BY <2>3 DEF SurveyNext
    <3>2. n \in STRING
      BY <1>2, <3>1 DEF SelectInv
    <3> QED BY <2>0, <3>1, <3>2, WalkBegins DEF Axes
  <2>4. CASE EndSurveyed
    <3>1. StartWalk("mode", "survey", walk.name) /\ stage = "walk"
      BY <2>4 DEF EndSurveyed
    <3> QED BY <2>0, <3>1, WalkNow, WalkBegins DEF Axes
  <2>5. ~EndSelect /\ ~StartSurvey /\ ~ReadFile /\ ~ReadEnv
    BY DEF EndSelect, AfterAxis, Refuse, StartSurvey, ReadFile, ReadEnv
  <2> QED BY <1>4, <2>1, <2>2, <2>3, <2>4, <2>5 DEF Reads
<1>5. ~Resolve /\ ~Validate /\ ~FollowAdvice /\ \A axis \in Axes : ~SelectReported(axis)
  BY DEF Resolve, Validate, Refuse, FollowAdvice, SelectReported, StartAgain
<1>6. ~Checks
  BY CheckEffect DEF FromJwt, FromBackends, FromConnect, FromSidecar, FromBind
<1> QED BY <1>3, <1>4, <1>5, <1>6, NextCases

-----------------------------------------------------------------------------
(* ProfileInv *)

\* p is strict if production is anywhere in its chain.
StrictIfDescends(p) ==
  p.name = "production" \/ "production" \in Range(p.chain) => p.base = "production"

LEMMA BuiltinDescends ==
  ASSUME NEW axis, NEW label
  PROVE  StrictIfDescends(BuiltinProfile(axis, label))
<1> DEFINE p == BuiltinProfile(axis, label)
<1>1. p.name = label /\ p.base = label /\ p.chain = <<label>>
  BY DEF BuiltinProfile
<1>2. Range(<<label>>) = {label}
  BY DEF Range
<1> QED BY <1>1, <1>2 DEF StrictIfDescends

\* No file of a mode's chain bears a builtin's name.
LEMMA LoadedDescends ==
  ASSUME NEW name, NEW files \in Seq(DOMAIN dir), NEW base, Chain("mode", name, files, base)
  PROVE  StrictIfDescends(LoadedProfile("mode", name, files, base))
<1> DEFINE p == LoadedProfile("mode", name, files, base)
           n == Len(files)
<1>1. p.name = name /\ p.base = base /\ p.chain = Append(files, base)
  BY DEF LoadedProfile
<1>2. /\ n \in Nat /\ DOMAIN files = 1 .. n /\ DOMAIN p.chain = 1 .. n + 1
      /\ p.chain[n + 1] = base /\ \A i \in 1 .. n : p.chain[i] = files[i]
  BY <1>1
<1> HIDE DEF p, n
<1>3. \A i \in 1 .. n : files[i] # "production"
  BY <1>2 DEF Chain, Readable, Builtins, Modes
<1>4. "production" \in Range(p.chain) => base = "production"
  BY <1>2, <1>3 DEF Range
<1>5. name = "production" => base = "production"
  BY <1>2, <1>3 DEF Chain, Link, n
<1> QED BY <1>1, <1>4, <1>5 DEF StrictIfDescends, p

LEMMA ProfileInvInit == Init => ProfileInv
<1> SUFFICES ASSUME Init PROVE ProfileInv
  OBVIOUS
<1>1. profile = [a \in Axes |-> BuiltinProfile(a, CHOOSE b \in Builtins(a) : TRUE)]
  BY DEF Init, ConfigInit
<1>2. StrictIfDescends(profile["mode"])
  BY <1>1, BuiltinDescends DEF Axes
<1> QED BY <1>1, <1>2 DEF ProfileInv, Descends, Strict, mode, StrictIfDescends

\* However a mode profile comes to be in force, its base tells.
LEMMA ProfileInvStep ==
  ASSUME ConfigInv, WalkInv, ProfileInv, [Next]_vars
  PROVE  ProfileInv'
<1>1. ProfileInv <=> profile = [a \in Axes |-> profile[a]] /\ StrictIfDescends(profile["mode"])
  BY DEF ProfileInv, Descends, Strict, mode, StrictIfDescends
<1>2. ProfileInv' <=> profile' = [a \in Axes |-> profile'[a]]
                      /\ StrictIfDescends(profile'["mode"])
  BY DEF ProfileInv, Descends, Strict, mode, StrictIfDescends
<1>3. CASE profile' = profile
  BY <1>1, <1>2, <1>3
<1>4. CASE StartAgain
  <2>1. profile' = [a \in Axes |-> BuiltinProfile(a, CHOOSE b \in Builtins(a) : TRUE)]
    BY <1>4, AgainEffect
  <2>2. StrictIfDescends(profile'["mode"])
    BY <2>1, BuiltinDescends DEF Axes
  <2> QED BY <1>2, <2>1, <2>2
<1>5. CASE \E axis \in Axes : \E label : profile' = [profile EXCEPT ![axis] =
                                                       BuiltinProfile(axis, label)]
  <2>1. PICK axis \in Axes : \E label : profile' = [profile EXCEPT ![axis] =
                                                      BuiltinProfile(axis, label)]
    BY <1>5
  <2>2. PICK label : profile' = [profile EXCEPT ![axis] = BuiltinProfile(axis, label)]
    BY <2>1
  <2>3. StrictIfDescends(profile'["mode"])
    BY <1>1, <2>2, BuiltinDescends DEF Axes
  <2> QED BY <1>1, <1>2, <2>2, <2>3
<1>6. CASE EndSelect /\ profile' # profile
  <2>1. profile' = [profile EXCEPT ![walk.axis] =
                      LoadedProfile(walk.axis, walk.name, walk.visited, walk.at)]
    BY <1>6 DEF EndSelect
  <2>2. stage = "walk"
    BY <1>6 DEF EndSelect
  <2>3. walk.axis = "mode" =>
          StrictIfDescends(LoadedProfile(walk.axis, walk.name, walk.visited, walk.at))
    BY <2>2, WalkNow, LoadedDescends
  <2>4. StrictIfDescends(profile'["mode"])
    BY <1>1, <2>1, <2>3 DEF Axes
  <2> QED BY <1>1, <1>2, <2>1, <2>4
<1>7. CASE UNCHANGED vars
  BY <1>3, <1>7 DEF vars, configVars
<1>8. CASE Reads
  <2>1. CASE \E axis \in Axes : SelectProfile(axis)
    BY <1>3, <1>5, <2>1 DEF SelectProfile
  <2>2. FollowInherits \/ StartSurvey \/ SurveyNext \/ EndSurveyed \/ ReadFile \/ ReadEnv
          => profile' = profile
    BY DEF FollowInherits, StartSurvey, SurveyNext, EndSurveyed, ReadFile, ReadEnv
  <2> QED BY <1>3, <1>6, <1>8, <2>1, <2>2 DEF Reads
<1>9. Resolve \/ Validate \/ Checks => profile' = profile
  BY CheckEffect DEF Resolve, Validate
<1>10. FollowAdvice \/ (\E axis \in Axes : SelectReported(axis)) => StartAgain
  BY DEF FollowAdvice, SelectReported
<1> QED BY <1>3, <1>4, <1>7, <1>8, <1>9, <1>10, NextCases

-----------------------------------------------------------------------------
(* Laying layers: the folds load_chain is modelled by *)

\* A set of naturals that is not empty has a least element.
LEMMA LeastNatural ==
  ASSUME NEW T \in SUBSET Nat, T # {}
  PROVE  \E x \in T : \A y \in T : x <= y
<1>1. PICK x \in T : \A y \in T : ~(<<y, x>> \in OpToRel(<, Nat))
  BY NatLessThanWellFounded, WFMin, Zenon
<1>2. \A y \in T : ~(y < x)
  BY <1>1, Zenon DEF OpToRel
<1> QED BY <1>2

\* Induction over the naturals, for a set instead of a predicate.
LEMMA Induct ==
  ASSUME NEW T \in SUBSET Nat, 0 \in T, \A n \in Nat : n \in T => n + 1 \in T
  PROVE  T = Nat
<1>1. SUFFICES ASSUME Nat \ T # {} PROVE FALSE
  OBVIOUS
<1>2. PICK x \in Nat \ T : \A y \in Nat \ T : x <= y
  BY <1>1, LeastNatural
<1>3. x # 0 /\ x - 1 \in Nat /\ x - 1 \in T
  BY <1>2
<1> QED BY <1>2, <1>3

\* g holds, for every set of up to m layers of L, the result of laying them
\* over base, the least index on top.
Laid(L, base, n, g, m) ==
  \A s \in SUBSET (1 .. n) :
    Cardinality(s) <= m =>
      g[s] = IF s = {} THEN base ELSE Over(L[Min(s)], g[s \ {Min(s)}])

\* The indices of some of n layers are finitely many.
LEMMA IndicesFinite ==
  ASSUME NEW n \in Nat, NEW s \in SUBSET (1 .. n)
  PROVE  IsFiniteSet(s) /\ Cardinality(s) \in Nat /\ Cardinality(s) <= n
<1>1. IsFiniteSet(1 .. n) /\ Cardinality(1 .. n) = n
  BY FS_Interval
<1>2. IsFiniteSet(s) /\ Cardinality(s) <= Cardinality(1 .. n)
  BY <1>1, FS_Subset
<1> QED BY <1>1, <1>2, FS_CardinalityType

\* Some layer is on top, and one fewer is left without it.
LEMMA LeastIndex ==
  ASSUME NEW n \in Nat, NEW s \in SUBSET (1 .. n), s # {}
  PROVE  /\ Min(s) \in s /\ \A i \in s : Min(s) <= i
         /\ IsFiniteSet(s) /\ Cardinality(s) \in Nat /\ Cardinality(s) # 0
         /\ Cardinality(s \ {Min(s)}) = Cardinality(s) - 1
<1>1. \E x \in s : \A y \in s : x <= y
  <2>1. s \in SUBSET Nat
    OBVIOUS
  <2> QED BY <2>1, LeastNatural
<1>2. Min(s) \in s /\ \A i \in s : Min(s) <= i
  BY <1>1 DEF Min
<1>3. IsFiniteSet(s) /\ Cardinality(s) \in Nat
  BY IndicesFinite
<1>4. Cardinality(s) # 0
  BY <1>3, FS_EmptySet
<1>5. Cardinality(s \ {Min(s)}) = Cardinality(s) - 1
  BY <1>2, <1>3, FS_RemoveElement
<1> QED BY <1>2, <1>3, <1>4, <1>5

\* One more layer can be laid.
LEMMA LaidExtend ==
  ASSUME NEW L, NEW base, NEW n \in Nat, NEW m \in Nat, NEW g, Laid(L, base, n, g, m)
  PROVE  \E h : Laid(L, base, n, h, m + 1)
<1> DEFINE h == [s \in SUBSET (1 .. n) |->
                   IF Cardinality(s) <= m THEN g[s]
                   ELSE Over(L[Min(s)], g[s \ {Min(s)}])]
<1>1. /\ \A s \in SUBSET (1 .. n) : Cardinality(s) <= m => h[s] = g[s]
      /\ \A s \in SUBSET (1 .. n) : ~(Cardinality(s) <= m) =>
           h[s] = Over(L[Min(s)], g[s \ {Min(s)}])
  OBVIOUS
<1> HIDE DEF h
<1>2. ASSUME NEW s \in SUBSET (1 .. n), Cardinality(s) <= m + 1
      PROVE  h[s] = IF s = {} THEN base ELSE Over(L[Min(s)], h[s \ {Min(s)}])
  <2>1. CASE s = {}
    <3>1. Cardinality(s) <= m
      BY <2>1, FS_EmptySet
    <3> QED BY <1>1, <2>1, <3>1 DEF Laid
  <2>2. CASE s # {}
    <3> DEFINE t == s \ {Min(s)}
    <3>1. t \in SUBSET (1 .. n) /\ Cardinality(t) = Cardinality(s) - 1 /\ Cardinality(s) \in Nat
      BY <2>2, LeastIndex
    <3>2. Cardinality(t) <= m
      BY <1>2, <3>1
    <3> HIDE DEF t
    <3>3. h[t] = g[t]
      BY <1>1, <3>1, <3>2
    <3>4. h[s] = Over(L[Min(s)], g[t])
      <4>1. CASE Cardinality(s) <= m
        BY <1>1, <2>2, <4>1 DEF Laid, t
      <4>2. CASE ~(Cardinality(s) <= m)
        BY <1>1, <4>2 DEF t
      <4> QED BY <4>1, <4>2
    <3> QED BY <2>2, <3>3, <3>4 DEF t
  <2> QED BY <2>1, <2>2
<1> QED BY <1>2 DEF Laid

\* Any number of layers can be laid.
LEMMA LaidExists ==
  ASSUME NEW L, NEW base, NEW n \in Nat, NEW m \in Nat
  PROVE  \E g : Laid(L, base, n, g, m)
<1> DEFINE T == {k \in Nat : \E g : Laid(L, base, n, g, k)}
<1>1. 0 \in T
  <2> DEFINE g == [s \in SUBSET (1 .. n) |-> base]
  <2>1. ASSUME NEW s \in SUBSET (1 .. n), Cardinality(s) <= 0 PROVE s = {} /\ g[s] = base
    <3>1. s # {} => Cardinality(s) \in Nat /\ Cardinality(s) # 0
      BY LeastIndex
    <3>2. s = {}
      BY <2>1, <3>1
    <3> QED BY <3>2
  <2> HIDE DEF g
  <2>2. Laid(L, base, n, g, 0)
    BY <2>1 DEF Laid
  <2> QED BY <2>2
<1>2. \A k \in Nat : k \in T => k + 1 \in T
  BY LaidExtend
<1>3. T = Nat
  <2> HIDE DEF T
  <2>1. T \in SUBSET Nat
    BY DEF T
  <2> QED BY <1>1, <1>2, <2>1, Induct
<1>4. m \in T
  BY <1>3
<1> QED BY <1>4

\* What laying the layers at s over base gives.
LaidOver(L, base, n, g) ==
  \A s \in SUBSET (1 .. n) :
    g[s] = IF s = {} THEN base ELSE Over(L[Min(s)], g[s \ {Min(s)}])

\* The recursive definition of such a fold defines it.
LEMMA LayingDefined ==
  ASSUME NEW L, NEW base, NEW n \in Nat
  PROVE  LET F(g) == [s \in SUBSET (1 .. n) |->
                        IF s = {} THEN base ELSE Over(L[Min(s)], g[s \ {Min(s)}])]
             iter == CHOOSE g : g = F(g)
         IN  LaidOver(L, base, n, iter)
<1> DEFINE F(g) == [s \in SUBSET (1 .. n) |->
                      IF s = {} THEN base ELSE Over(L[Min(s)], g[s \ {Min(s)}])]
           iter == CHOOSE g : g = F(g)
<1>1. PICK g : Laid(L, base, n, g, n)
  BY LaidExists
<1>2. LaidOver(L, base, n, g)
  <2>1. \A s \in SUBSET (1 .. n) : Cardinality(s) <= n
    BY IndicesFinite
  <2> QED BY <1>1, <2>1 DEF Laid, LaidOver
<1> DEFINE h == [s \in SUBSET (1 .. n) |-> g[s]]
<1>3. h = F(h)
  <2>1. \A s \in SUBSET (1 .. n) : h[s] = g[s]
    OBVIOUS
  <2>2. \A s \in SUBSET (1 .. n) : s \ {Min(s)} \in SUBSET (1 .. n)
    OBVIOUS
  <2>3. \A s \in SUBSET (1 .. n) :
          h[s] = IF s = {} THEN base ELSE Over(L[Min(s)], h[s \ {Min(s)}])
    BY <1>2, <2>1, <2>2 DEF LaidOver
  <2>4. h = [s \in SUBSET (1 .. n) |-> h[s]]
    OBVIOUS
  <2> HIDE DEF h
  <2> QED BY <2>3, <2>4
<1> HIDE DEF h
<1>4. iter = F(iter)
  BY <1>3, Zenon
<1> HIDE DEF iter
<1>5. LaidOver(L, base, n, iter)
  BY <1>4 DEF LaidOver
<1> QED BY <1>5 DEF iter

\* i is the topmost layer of s with an entry for k.
Topmost(L, s, k, i) ==
  i \in s /\ k \in DOMAIN L[i] /\ \A j \in s : j < i => k \notin DOMAIN L[j]

\* What laying the layers at s over base gives: the topmost entry, or base's.
Laying(L, base, s, result) ==
  /\ \A k \in DOMAIN base : k \in DOMAIN result
  /\ \A k, i : Topmost(L, s, k, i) => k \in DOMAIN result /\ result[k] = L[i][k]
  /\ \A k \in DOMAIN base : (\A i \in s : k \notin DOMAIN L[i]) => result[k] = base[k]

\* What Over gives, key by key.
LEMMA OverFacts ==
  ASSUME NEW u, NEW l
  PROVE  /\ DOMAIN Over(u, l) = DOMAIN u \cup DOMAIN l
         /\ \A k \in DOMAIN u : Over(u, l)[k] = u[k]
         /\ \A k \in DOMAIN l : k \notin DOMAIN u => Over(u, l)[k] = l[k]
BY DEF Over

\* Laying the top layer last puts its entries before the others'.
LEMMA LayingStep ==
  ASSUME NEW L, NEW base, NEW n \in Nat, NEW s \in SUBSET (1 .. n), s # {}, NEW r,
         Laying(L, base, s \ {Min(s)}, r)
  PROVE  Laying(L, base, s, Over(L[Min(s)], r))
<1> DEFINE m == Min(s)
           t == s \ {m}
           o == Over(L[m], r)
<1>1. m \in s /\ \A i \in s : m <= i
  BY LeastIndex
<1>2. /\ DOMAIN o = DOMAIN L[m] \cup DOMAIN r
      /\ \A k \in DOMAIN L[m] : o[k] = L[m][k]
      /\ \A k \in DOMAIN r : k \notin DOMAIN L[m] => o[k] = r[k]
  BY OverFacts
<1>3. \A i \in s : i = m \/ m < i
  <2> HIDE DEF m
  <2>1. \A i \in s : i \in Int
    OBVIOUS
  <2> QED BY <1>1, <2>1
<1> HIDE DEF m, o
<1>4. \A k \in DOMAIN base : k \in DOMAIN o
  BY <1>2 DEF Laying, m
<1>5. ASSUME NEW k, NEW i, Topmost(L, s, k, i)
      PROVE  k \in DOMAIN o /\ o[k] = L[i][k]
  <2>1. CASE i = m
    BY <1>2, <1>5, <2>1 DEF Topmost
  <2>2. CASE i # m
    <3>1. i \in t /\ k \notin DOMAIN L[m]
      BY <1>1, <1>3, <1>5, <2>2 DEF Topmost
    <3>2. Topmost(L, t, k, i)
      BY <1>5, <3>1 DEF Topmost
    <3>3. k \in DOMAIN r /\ r[k] = L[i][k]
      BY <3>2 DEF Laying, m
    <3> QED BY <1>2, <3>1, <3>3
  <2> QED BY <2>1, <2>2
<1>6. ASSUME NEW k \in DOMAIN base, \A i \in s : k \notin DOMAIN L[i]
      PROVE  o[k] = base[k]
  <2>1. k \in DOMAIN r /\ r[k] = base[k]
    BY <1>6 DEF Laying, m
  <2>2. k \notin DOMAIN L[m]
    BY <1>1, <1>6
  <2> QED BY <1>2, <2>1, <2>2
<1> QED BY <1>4, <1>5, <1>6 DEF Laying, o, m

\* So each entry of the result is the topmost layer's that has one.
LEMMA LayingHolds ==
  ASSUME NEW L, NEW base, NEW n \in Nat, NEW g, LaidOver(L, base, n, g)
  PROVE  Laying(L, base, 1 .. n, g[1 .. n])
<1> DEFINE T == {c \in Nat : \A s \in SUBSET (1 .. n) :
                   Cardinality(s) = c => Laying(L, base, s, g[s])}
<1>1. 0 \in T
  <2>1. ASSUME NEW s \in SUBSET (1 .. n), Cardinality(s) = 0 PROVE Laying(L, base, s, g[s])
    <3>1. s = {}
      BY <2>1, LeastIndex
    <3>2. g[s] = base
      BY <3>1 DEF LaidOver
    <3> QED BY <3>1, <3>2 DEF Laying, Topmost
  <2> QED BY <2>1
<1>2. ASSUME NEW c \in Nat, c \in T PROVE c + 1 \in T
  <2>1. ASSUME NEW s \in SUBSET (1 .. n), Cardinality(s) = c + 1
        PROVE  Laying(L, base, s, g[s])
    <3>1. s # {}
      BY <2>1, FS_EmptySet
    <3> DEFINE t == s \ {Min(s)}
    <3>2. t \in SUBSET (1 .. n) /\ Cardinality(t) = c
      <4> HIDE DEF T
      <4>1. Cardinality(t) = Cardinality(s) - 1
        BY <3>1, LeastIndex
      <4>2. t \in SUBSET (1 .. n)
        OBVIOUS
      <4> HIDE DEF t
      <4>3. Cardinality(t) = c
        BY <2>1, <4>1
      <4> QED BY <4>2, <4>3
    <3>3. Laying(L, base, t, g[t])
      BY <1>2, <3>2
    <3>4. g[s] = Over(L[Min(s)], g[t])
      BY <3>1 DEF LaidOver
    <3> HIDE DEF T
    <3> QED BY <3>1, <3>3, <3>4, LayingStep
  <2> QED BY <2>1
<1>3. T = Nat
  <2> HIDE DEF T
  <2>1. T \in SUBSET Nat
    BY DEF T
  <2> QED BY <1>1, <1>2, <2>1, Induct
<1>4. Cardinality(1 .. n) \in T
  BY <1>3, IndicesFinite
<1> QED BY <1>4

\* The layers a chain of files gives, and the file each of them is from.
KeyLayers(files) == [i \in DOMAIN files |-> dir[files[i]].keys]
NameLayers(files) == [i \in DOMAIN files |-> [k \in DOMAIN dir[files[i]].keys |-> files[i]]]

\* load_chain's values: each from the nearest file that gives it.
LEMMA MergedIs ==
  ASSUME NEW axis, NEW n \in Nat, NEW files, DOMAIN files = 1 .. n, NEW base
  PROVE  Laying(KeyLayers(files), Defaults(axis, base), 1 .. n, Merged(axis, files, base))
<1> DEFINE L == KeyLayers(files)
           B == Defaults(axis, base)
           F(g) == [s \in SUBSET (1 .. n) |->
                      IF s = {} THEN B ELSE Over(L[Min(s)], g[s \ {Min(s)}])]
           iter == CHOOSE g : g = F(g)
           K(g) == [s \in SUBSET (1 .. n) |->
                      IF s = {} THEN B ELSE Over(dir[files[Min(s)]].keys, g[s \ {Min(s)}])]
           itek == CHOOSE g : g = K(g)
<1>1. LaidOver(L, B, n, iter)
  BY LayingDefined
<1>2. \A g : F(g) = K(g)
  <2>1. \A s \in SUBSET (1 .. n) : s # {} => L[Min(s)] = dir[files[Min(s)]].keys
    BY LeastIndex DEF KeyLayers
  <2> HIDE DEF L
  <2> QED BY <2>1
<1>3. Merged(axis, files, base) = itek[1 .. n]
  BY Zenon DEF Merged, FoldRight, MapThenFoldSet
<1> HIDE DEF F, K
<1>4. iter = itek
  BY <1>2
<1> HIDE DEF iter, itek, L, B
<1>5. Laying(L, B, 1 .. n, iter[1 .. n])
  BY <1>1, LayingHolds
<1> QED BY <1>3, <1>4, <1>5 DEF L, B

\* load_chain's origins: each the nearest file that gives the key.
LEMMA OriginsIs ==
  ASSUME NEW axis, NEW n \in Nat, NEW files, DOMAIN files = 1 .. n, NEW base
  PROVE  Laying(NameLayers(files), [k \in Owned(axis) |-> base], 1 .. n,
                Origins(axis, files, base))
<1> DEFINE L == NameLayers(files)
           B == [k \in Owned(axis) |-> base]
           F(g) == [s \in SUBSET (1 .. n) |->
                      IF s = {} THEN B ELSE Over(L[Min(s)], g[s \ {Min(s)}])]
           iter == CHOOSE g : g = F(g)
           K(g) == [s \in SUBSET (1 .. n) |->
                      IF s = {} THEN B
                      ELSE Over([k \in DOMAIN dir[files[Min(s)]].keys |-> files[Min(s)]],
                                g[s \ {Min(s)}])]
           itek == CHOOSE g : g = K(g)
<1>1. LaidOver(L, B, n, iter)
  BY LayingDefined
<1>2. \A g : F(g) = K(g)
  <2>1. \A s \in SUBSET (1 .. n) : s # {} =>
          L[Min(s)] = [k \in DOMAIN dir[files[Min(s)]].keys |-> files[Min(s)]]
    BY LeastIndex DEF NameLayers
  <2> HIDE DEF L
  <2> QED BY <2>1
<1>3. Origins(axis, files, base) = itek[1 .. n]
  BY Zenon DEF Origins, FoldRight, MapThenFoldSet
<1> HIDE DEF F, K
<1>4. iter = itek
  BY <1>2
<1> HIDE DEF iter, itek, L, B
<1>5. Laying(L, B, 1 .. n, iter[1 .. n])
  BY <1>1, LayingHolds
<1> QED BY <1>3, <1>4, <1>5 DEF L, B

-----------------------------------------------------------------------------
(* ShapeInv: what a profile in force is *)

\* The layers of a chain of files, from its name down to its base.
Layered(axis, p, name, files, base) ==
  /\ Leads(axis, name, files, base)
  /\ p.name = name /\ p.chain = Append(files, base)
  /\ Laying(KeyLayers(files), Defaults(axis, base), 1 .. Len(files), p.value)
  /\ Laying(NameLayers(files), [k \in Owned(axis) |-> base], 1 .. Len(files), p.origin)

\* p is a builtin of the axis, or what a chain that leads to one lays over it.
Shaped(axis, p) ==
  \/ \E label \in Builtins(axis) : p = BuiltinProfile(axis, label)
  \/ \E name, files, base : Layered(axis, p, name, files, base)

ShapeInv == \A a \in Axes : Shaped(a, profile[a])

\* A profile stays what it is while the directory does.
LEMMA ShapedUnchanged ==
  ASSUME dir' = dir, NEW axis, NEW p, Shaped(axis, p)
  PROVE  Shaped(axis, p)'
<1>1. CASE \E label \in Builtins(axis) : p = BuiltinProfile(axis, label)
  BY <1>1 DEF Shaped
<1>2. CASE \E name, files, base : Layered(axis, p, name, files, base)
  <2>1. PICK name, files, base : Layered(axis, p, name, files, base)
    BY <1>2
  <2>2. Leads(axis, name, files, base)'
    BY <2>1, ChainFacts DEF Layered
  <2>3. KeyLayers(files)' = KeyLayers(files) /\ NameLayers(files)' = NameLayers(files)
    BY DEF KeyLayers, NameLayers
  <2>4. Layered(axis, p, name, files, base)'
    BY <2>1, <2>2, <2>3 DEF Layered
  <2> QED BY <2>4 DEF Shaped
<1> QED BY <1>1, <1>2 DEF Shaped

\* What load_chain makes of a chain is its files laid over the base.
LEMMA LoadedShaped ==
  ASSUME NEW axis, NEW name, NEW files, NEW base, Leads(axis, name, files, base)
  PROVE  Shaped(axis, LoadedProfile(axis, name, files, base))
<1> DEFINE p == LoadedProfile(axis, name, files, base)
           n == Len(files)
<1>1. /\ p.name = name /\ p.chain = Append(files, base)
      /\ p.value = Merged(axis, files, base) /\ p.origin = Origins(axis, files, base)
  BY DEF LoadedProfile
<1>2. n \in Nat /\ DOMAIN files = 1 .. n
  BY DEF Leads
<1> HIDE DEF p, n
<1>3. Laying(KeyLayers(files), Defaults(axis, base), 1 .. n, Merged(axis, files, base))
  BY <1>2, MergedIs
<1>4. Laying(NameLayers(files), [k \in Owned(axis) |-> base], 1 .. n,
             Origins(axis, files, base))
  BY <1>2, OriginsIs
<1>5. Layered(axis, p, name, files, base)
  BY <1>1, <1>3, <1>4 DEF Layered, n
<1> QED BY <1>5 DEF Shaped, p

\* There is a builtin on every axis.
LEMMA FirstBuiltin ==
  ASSUME NEW axis
  PROVE  (CHOOSE b \in Builtins(axis) : TRUE) \in Builtins(axis)
BY DEF Builtins, Topologies, Modes

LEMMA ShapeInvInit == Init => ShapeInv
BY FirstBuiltin DEF Init, ConfigInit, ShapeInv, Shaped

\* A walk that is done, its files in order, has been down a chain that leads
\* to a builtin.
LEMMA WalkLeads ==
  ASSUME ConfigInv, WalkInv, stage = "walk", AtRest(walk) # "more", "loaded" \in LoadOutcomes(walk)
  PROVE  Leads(walk.axis, walk.name, walk.visited, walk.at)
<1>1. AtRest(walk) = "done" /\ ChainProblems(walk.axis, walk.visited) = {}
  <2>1. AtRest(walk) # "loaded"
    BY DEF AtRest
  <2>2. "loaded" \notin ChainProblems(walk.axis, walk.visited)
    BY DEF ChainProblems, KeyProblems
  <2> QED BY <2>1, <2>2 DEF LoadOutcomes
<1>2. walk.at \in Builtins(walk.axis) \ DOMAIN dir
  BY <1>1, AtRestFacts
<1> QED BY <1>1, <1>2, WalkNow DEF Leads

\* A profile comes to be in force by selecting a builtin, or by a walk that
\* has loaded it.
LEMMA ShapeInvStep ==
  ASSUME ConfigInv, WalkInv, ProfileInv, ShapeInv, [Next]_vars
  PROVE  ShapeInv'
<1>1. ASSUME dir' = dir, NEW axis \in Axes, NEW p, profile' = [profile EXCEPT ![axis] = p],
             Shaped(axis, p)
      PROVE  ShapeInv'
  <2>1. profile = [a \in Axes |-> profile[a]]
    BY DEF ProfileInv
  <2>2. \A a \in Axes : Shaped(a, profile'[a])
    BY <1>1, <2>1 DEF ShapeInv
  <2>3. \A a \in Axes : \A r : Shaped(a, r) => Shaped(a, r)'
    BY <1>1, ShapedUnchanged
  <2> QED BY <2>2, <2>3 DEF ShapeInv
<1>2. CASE profile' = profile /\ given' = given
  <2>1. dir' = dir
    BY <1>2 DEF dir
  <2>2. \A a \in Axes : \A r : Shaped(a, r) => Shaped(a, r)'
    BY <2>1, ShapedUnchanged
  <2> QED BY <1>2, <2>2 DEF ShapeInv
<1>3. CASE StartAgain
  <2>1. \A a \in Axes : \E label \in Builtins(a) : profile'[a] = BuiltinProfile(a, label)
    BY <1>3, AgainEffect, FirstBuiltin
  <2> QED BY <2>1 DEF ShapeInv, Shaped
<1>4. CASE \E axis \in Axes : SelectProfile(axis)
  <2>1. PICK axis \in Axes : SelectProfile(axis)
    BY <1>4
  <2>2. given' = given
    BY <2>1 DEF SelectProfile
  <2>3. CASE profile' = profile
    BY <1>2, <2>2, <2>3
  <2>4. CASE profile' # profile
    <3>1. PICK label \in Builtins(axis) :
            profile' = [profile EXCEPT ![axis] = BuiltinProfile(axis, label)]
      BY <2>1, <2>4 DEF SelectProfile
    <3>2. Shaped(axis, BuiltinProfile(axis, label))
      BY DEF Shaped
    <3> QED BY <1>1, <2>2, <3>1, <3>2 DEF dir
  <2> QED BY <2>3, <2>4
<1>5. CASE EndSelect
  <2>1. given' = given /\ stage = "walk" /\ AtRest(walk) # "more"
    BY <1>5 DEF EndSelect
  <2>2. CASE profile' = profile
    BY <1>2, <2>1, <2>2
  <2>3. CASE profile' # profile
    <3>1. /\ "loaded" \in LoadOutcomes(walk)
          /\ profile' = [profile EXCEPT ![walk.axis] =
                           LoadedProfile(walk.axis, walk.name, walk.visited, walk.at)]
      BY <1>5, <2>3 DEF EndSelect
    <3>2. walk.axis \in Axes
      BY <2>1, WalkNow
    <3>3. Leads(walk.axis, walk.name, walk.visited, walk.at)
      BY <2>1, <3>1, WalkLeads
    <3> QED BY <1>1, <2>1, <3>1, <3>2, <3>3, LoadedShaped DEF dir
  <2> QED BY <2>2, <2>3
<1>6. CASE UNCHANGED vars
  BY <1>2, <1>6 DEF vars, configVars
<1>7. CASE Reads
  <2>1. FollowInherits \/ StartSurvey \/ SurveyNext \/ EndSurveyed \/ ReadFile \/ ReadEnv
          => profile' = profile /\ given' = given
    BY DEF FollowInherits, StartSurvey, SurveyNext, EndSurveyed, ReadFile, ReadEnv
  <2> QED BY <1>2, <1>4, <1>5, <1>7, <2>1 DEF Reads
<1>8. Resolve \/ Validate \/ Checks => profile' = profile /\ given' = given
  BY CheckEffect DEF Resolve, Validate
<1>9. FollowAdvice \/ (\E axis \in Axes : SelectReported(axis)) => StartAgain
  BY DEF FollowAdvice, SelectReported
<1> QED BY <1>2, <1>3, <1>6, <1>7, <1>8, <1>9, NextCases

-----------------------------------------------------------------------------
(* SelectInv *)

LEMMA LoadsUnchanged ==
  ASSUME dir' = dir, NEW axis, NEW name
  PROVE  /\ Loads(axis, name)' = Loads(axis, name)
         /\ Selectable(axis, name)' = Selectable(axis, name)
<1>1. \A files, base : Leads(axis, name, files, base)' = Leads(axis, name, files, base)
  BY ChainFacts
<1>2. Loads(axis, name)' = Loads(axis, name)
  BY <1>1 DEF Loads
<1> QED BY <1>2 DEF Selectable

SurveyType ==
  [todo : SUBSET STRING, topology : SUBSET STRING, mode : SUBSET STRING,
   unusable : SUBSET STRING]

\* SelectInv after a step, said of the directory before it.
LEMMA SelectInvFrom ==
  ASSUME dir' = dir, survey' \in SurveyType,
         \A axis \in Axes : \A n \in survey'[axis] : Loads(axis, n),
         \A axis \in Axes :
           Behind(axis)' \/ picked' # "none" => Selectable(axis, given'[axis]),
         picked' # "none" =>
           /\ refusal' \notin ProfileErrors
           /\ stage' = "walk" /\ walk'.for = "select" => OnCourse'
  PROVE  SelectInv'
<1>1. \A axis, n : Loads(axis, n)' = Loads(axis, n)
                   /\ Selectable(axis, n)' = Selectable(axis, n)
  BY LoadsUnchanged
<1>2. \A axis \in Axes : \A n \in survey'[axis] : Loads(axis, n)'
  BY <1>1
<1>3. \A axis \in Axes :
        Behind(axis)' \/ picked' # "none" => Selectable(axis, given[axis])'
  <2> SUFFICES ASSUME NEW axis \in Axes, Behind(axis)' \/ picked' # "none"
               PROVE  Selectable(axis, given[axis])'
    OBVIOUS
  <2>1. Selectable(axis, given'[axis])
    OBVIOUS
  <2>2. \/ given'[axis] \in Builtins(axis) \cup {"none"}
        \/ Loads(axis, given'[axis])
    BY <2>1 DEF Selectable
  <2>3. ASSUME Loads(axis, given'[axis]) PROVE Loads(axis, given[axis])'
    <3>1. PICK n : n = given'[axis]
      OBVIOUS
    <3>2. Loads(axis, n)
      BY <2>3, <3>1 DEF Loads, Leads, Chain
    <3>3. Loads(axis, n)'
      BY <1>1, <3>2
    <3> QED BY <3>1, <3>3 DEF Loads, Leads, Chain
  <2> QED BY <2>2, <2>3 DEF Selectable
<1> QED BY <1>2, <1>3 DEF SelectInv, SurveyType

\* So it has loaded its profile.
LEMMA WalkLoads ==
  ASSUME ConfigInv, WalkInv, stage = "walk", AtRest(walk) # "more", "loaded" \in LoadOutcomes(walk)
  PROVE  Loads(walk.axis, walk.name)
BY WalkLeads DEF Loads

\* On course the walk reads on until it is at the chain's end, and loads.
LEMMA OnCourseEnds ==
  ASSUME ConfigInv, WalkInv, stage = "walk", OnCourse
  PROVE  AtRest(walk) # "more" => LoadOutcomes(walk) = {"loaded"}
<1>1. PICK files, base :
        /\ Leads(walk.axis, walk.name, files, base)
        /\ Len(walk.visited) <= Len(files)
        /\ \A i \in DOMAIN walk.visited : walk.visited[i] = files[i]
        /\ walk.at = Link(files, base, Len(walk.visited) + 1)
  BY DEF OnCourse
<1> DEFINE n == Len(walk.visited)
<1>2. /\ files \in Seq(DOMAIN dir) /\ base \in Builtins(walk.axis) \ DOMAIN dir
      /\ Chain(walk.axis, walk.name, files, base) /\ ChainProblems(walk.axis, files) = {}
  BY <1>1 DEF Leads
<1>3. walk.visited \in Seq(DOMAIN dir)
  BY WalkNow
<1>4. /\ n \in Nat /\ Len(files) \in Nat /\ DOMAIN walk.visited = 1 .. n
      /\ DOMAIN files = 1 .. Len(files)
  BY <1>2, <1>3
<1>5. CASE n < Len(files)
  <2>1. walk.at = files[n + 1] /\ n + 1 \in DOMAIN files
    BY <1>1, <1>4, <1>5 DEF Link
  <2>2. Readable(walk.axis, walk.at)
    BY <1>2, <2>1 DEF Chain
  <2>3. \A i \in 1 .. n : files[i] # files[n + 1]
    BY <1>2, <1>4, <1>5, <2>1 DEF Chain
  <2>4. walk.at \notin Range(walk.visited)
    BY <1>1, <1>4, <2>1, <2>3 DEF Range
  <2> QED BY <2>2, <2>4, AtRestFacts
<1>6. CASE n = Len(files)
  <2>1. walk.at = base
    BY <1>1, <1>4, <1>6 DEF Link
  <2>2. walk.visited = files
    BY <1>1, <1>2, <1>3, <1>4, <1>6
  <2>3. AtRest(walk) = "done"
    BY <1>2, <2>1, AtRestFacts
  <2> QED BY <1>2, <2>2, <2>3 DEF LoadOutcomes
<1> QED BY <1>1, <1>4, <1>5, <1>6

\* A turn of the loop keeps to the course.
LEMMA OnCourseStep ==
  ASSUME ConfigInv, WalkInv, OnCourse, FollowInherits
  PROVE  OnCourse'
<1>1. PICK files, base :
        /\ Leads(walk.axis, walk.name, files, base)
        /\ Len(walk.visited) <= Len(files)
        /\ \A i \in DOMAIN walk.visited : walk.visited[i] = files[i]
        /\ walk.at = Link(files, base, Len(walk.visited) + 1)
  BY DEF OnCourse
<1> DEFINE n == Len(walk.visited)
           more == Append(walk.visited, walk.at)
<1>2. /\ walk' = [axis |-> walk.axis, for |-> walk.for, name |-> walk.name,
                  at |-> dir[walk.at].inherits, visited |-> more]
      /\ Readable(walk.axis, walk.at) /\ dir' = dir /\ stage = "walk"
  BY FollowEffect
<1>3. /\ files \in Seq(DOMAIN dir) /\ base \in Builtins(walk.axis) \ DOMAIN dir
      /\ Chain(walk.axis, walk.name, files, base)
  BY <1>1 DEF Leads
<1>4. walk.visited \in Seq(DOMAIN dir) /\ walk.at \in DOMAIN dir
  BY <1>2, WalkNow DEF Readable
<1>5. /\ n \in Nat /\ Len(files) \in Nat /\ DOMAIN walk.visited = 1 .. n
      /\ DOMAIN files = 1 .. Len(files)
      /\ Len(more) = n + 1 /\ DOMAIN more = 1 .. n + 1
      /\ more[n + 1] = walk.at /\ \A i \in 1 .. n : more[i] = walk.visited[i]
  BY <1>3, <1>4
<1>6. n < Len(files)
  <2> SUFFICES ASSUME n = Len(files) PROVE FALSE
    BY <1>1, <1>5
  <2>1. walk.at = base
    BY <1>1, <1>5 DEF Link
  <2> QED BY <1>2, <1>3, <2>1 DEF Readable
<1>7. walk.at = files[n + 1] /\ n + 1 \in DOMAIN files
  BY <1>1, <1>5, <1>6 DEF Link
<1>8. dir[walk.at].inherits = Link(files, base, n + 1 + 1)
  BY <1>3, <1>7 DEF Chain
<1> HIDE DEF n, more
<1>9. \A i \in DOMAIN more : more[i] = files[i]
  <2> SUFFICES ASSUME NEW i \in DOMAIN more PROVE more[i] = files[i]
    OBVIOUS
  <2>1. CASE i \in 1 .. n
    BY <1>1, <1>5, <2>1
  <2>2. CASE i = n + 1
    BY <1>5, <1>7, <2>2
  <2> QED BY <1>5, <2>1, <2>2
<1>10. PICK axis, name : axis = walk.axis /\ name = walk.name
  OBVIOUS
<1>11. Leads(axis, name, files, base)
  BY <1>1, <1>10
<1>12. Leads(axis, name, files, base)'
  BY <1>2, <1>11, ChainFacts
<1>13. walk'.axis = axis /\ walk'.name = name /\ walk'.visited = more
       /\ walk'.at = Link(files, base, n + 1 + 1)
  BY <1>2, <1>8, <1>10
<1>14. Leads(walk.axis, walk.name, files, base)'
  BY <1>12, <1>13, Zenon DEF Leads
<1>15. Len(more) <= Len(files)
  BY <1>5, <1>6
<1> QED BY <1>5, <1>9, <1>13, <1>14, <1>15 DEF OnCourse

LEMMA SelectInvInit == Init => SelectInv
<1> SUFFICES ASSUME Init PROVE SelectInv
  OBVIOUS
<1>1. stage = "topology" /\ picked = "none" /\ survey = NoSurvey
  BY DEF Init, ConfigInit
<1>2. survey \in SurveyType /\ \A axis \in Axes : survey[axis] = {}
  BY <1>1 DEF NoSurvey, SurveyType, Axes
<1>3. \A axis \in Axes : ~Behind(axis)
  BY <1>1 DEF Behind
<1> QED BY <1>1, <1>2, <1>3 DEF SelectInv, SurveyType

\* What is selected or reported loads: one case per step that moves on.
LEMMA SelectInvReads ==
  ASSUME ConfigInv, WalkInv, SelectInv, Reads
  PROVE  SelectInv'
<1>1. /\ given' = given /\ picked' = picked
      /\ stage \in Reading /\ stage' \in Reading \cup {"refused"}
  BY ReadEffect
<1>2. dir' = dir
  BY <1>1 DEF dir
<1>3. /\ survey \in SurveyType
      /\ \A axis \in Axes : \A n \in survey[axis] : Loads(axis, n)
      /\ \A axis \in Axes : Behind(axis) => Selectable(axis, given[axis])
      /\ picked # "none" =>
           /\ \A axis \in Axes : Selectable(axis, given[axis])
           /\ refusal \notin ProfileErrors
           /\ stage = "walk" /\ walk.for = "select" => OnCourse
  BY DEF SelectInv, SurveyType
<1>4. ASSUME survey' = survey,
             \A axis \in Axes : Behind(axis)' => Selectable(axis, given[axis]),
             picked # "none" =>
               /\ refusal' \notin ProfileErrors
               /\ stage' = "walk" /\ walk'.for = "select" => OnCourse'
      PROVE  SelectInv'
  BY <1>1, <1>2, <1>3, <1>4, SelectInvFrom
<1>5. CASE \E axis \in Axes : SelectProfile(axis)
  <2>1. PICK axis \in Axes : SelectProfile(axis)
    BY <1>5
  <2> DEFINE name == IF given[axis] # "none" THEN given[axis]
                     ELSE IF axis = "topology" THEN "cross_device" ELSE "research"
  <2>2. survey' = survey /\ refusal' = refusal /\ stage = axis
    BY <2>1 DEF SelectProfile
  <2>3. axis = "mode" => Selectable("topology", given["topology"])
    BY <1>3, <2>2 DEF Behind, Axes
  <2>4. CASE name \in Builtins(axis)
    <3>1. stage' = AfterAxis(axis)
      BY <2>1, <2>4 DEF SelectProfile
    <3>2. Selectable(axis, given[axis])
      BY <2>4 DEF Selectable
    <3>3. \A a \in Axes : Behind(a)' => Selectable(a, given[a])
      BY <2>3, <3>1, <3>2 DEF Behind, AfterAxis, Axes
    <3> QED BY <1>3, <1>4, <2>2, <3>1, <3>3 DEF AfterAxis
  <2>5. CASE name \notin Builtins(axis)
    <3>1. stage' = "walk" /\ walk' = [axis |-> axis, for |-> "select", name |-> name,
                                      at |-> name, visited |-> <<>>]
      BY <2>1, <2>5 DEF SelectProfile, StartWalk
    <3>2. name = given[axis] /\ name # "none"
      BY <2>5 DEF Builtins, Topologies, Modes, Axes
    <3>3. \A a \in Axes : Behind(a)' => Selectable(a, given[a])
      BY <2>3, <3>1 DEF Behind, Axes
    <3> HIDE DEF name
    <3>4. ASSUME picked # "none" PROVE OnCourse'
      <4>1. Loads(axis, given[axis])
        BY <1>3, <2>5, <3>2, <3>4 DEF Selectable
      <4>2. PICK n : n = given[axis]
        OBVIOUS
      <4>3. Loads(axis, n)
        BY <4>1, <4>2
      <4>4. Loads(axis, n)'
        BY <1>2, <4>3, LoadsUnchanged
      <4>5. PICK files, base : Leads(axis, n, files, base)'
        BY <4>4 DEF Loads
      <4>6. walk'.axis = axis /\ walk'.name = n /\ walk'.at = n /\ walk'.visited = <<>>
        BY <3>1, <3>2, <4>2
      <4>7. Leads(walk.axis, walk.name, files, base)'
        <5>1. ChainProblems(walk.axis, files)' = ChainProblems(axis, files)'
          BY <4>6 DEF ChainProblems, KeyProblems
        <5>2. Chain(walk.axis, walk.name, files, base)' = Chain(axis, n, files, base)'
          BY <4>6 DEF Chain, Readable
        <5> QED BY <4>5, <4>6, <5>1, <5>2 DEF Leads
      <4>8. Link(files, base, 1) = n /\ Len(files) \in Nat
        BY <4>5 DEF Leads, Chain
      <4>9. Len(walk'.visited) = 0 /\ DOMAIN walk'.visited = {}
        BY <4>6
      <4>10. walk'.at = Link(files, base, Len(walk'.visited) + 1)
        BY <4>6, <4>8, <4>9
      <4> QED BY <4>7, <4>8, <4>9, <4>10 DEF OnCourse
    <3> QED BY <1>3, <1>4, <2>2, <3>3, <3>4
  <2> QED BY <2>4, <2>5
<1>6. CASE FollowInherits
  <2>1. survey' = survey /\ refusal' = refusal
    BY <1>6 DEF FollowInherits
  <2>2. stage = "walk" /\ stage' = "walk" /\ walk'.for = walk.for /\ walk'.axis = walk.axis
    BY <1>6, FollowEffect
  <2>3. \A axis \in Axes : Behind(axis)' => Behind(axis)
    BY <2>2 DEF Behind
  <2>4. OnCourse => OnCourse'
    BY <1>6, OnCourseStep
  <2> QED BY <1>3, <1>4, <2>1, <2>2, <2>3, <2>4
<1>7. CASE EndSelect
  <2>1. stage = "walk" /\ walk.for = "select" /\ AtRest(walk) # "more" /\ survey' = survey
    BY <1>7 DEF EndSelect
  <2>2. PICK outcome \in LoadOutcomes(walk) :
          IF outcome = "loaded"
          THEN stage' = AfterAxis(walk.axis) /\ refusal' = refusal
          ELSE stage' = "refused" /\ refusal' = outcome
    BY <1>7 DEF EndSelect, Refuse
  <2>3. CASE outcome = "loaded"
    <3>1. Loads(walk.axis, walk.name)
      BY <2>1, <2>2, <2>3, WalkLoads
    <3>2. Selectable(walk.axis, given[walk.axis])
      BY <2>1, <3>1 DEF WalkInv, Selectable
    <3>3. walk.axis = "mode" => Selectable("topology", given["topology"])
      BY <1>3, <2>1 DEF Behind, Axes
    <3>4. \A axis \in Axes : Behind(axis)' => Selectable(axis, given[axis])
      BY <2>1, <2>2, <2>3, <3>2, <3>3, WalkNow DEF Behind, AfterAxis, Axes
    <3> QED BY <1>3, <1>4, <2>1, <2>2, <2>3, <3>4 DEF AfterAxis
  <2>4. CASE outcome # "loaded"
    <3>1. picked = "none"
      BY <1>3, <2>1, <2>2, <2>4, OnCourseEnds
    <3>2. \A axis \in Axes : ~Behind(axis)'
      BY <2>2, <2>4 DEF Behind
    <3> QED BY <1>4, <2>1, <3>1, <3>2
  <2> QED BY <2>3, <2>4
<1>8. CASE StartSurvey
  <2>1. stage = "survey" /\ stage' = "surveying" /\ refusal' = refusal
    BY <1>8 DEF StartSurvey
  <2>2. \A axis \in Axes : Selectable(axis, given[axis])
    BY <1>3, <2>1 DEF Behind
  <2> DEFINE todo == {n \in DOMAIN dir : /\ "none" \in {given.topology, given.mode}
                                         /\ dir[n].toml /\ dir[n].inherits # "none"}
  <2>3. survey' = [NoSurvey EXCEPT !.todo = todo]
    BY <1>8 DEF StartSurvey
  <2>4. todo \subseteq STRING
    BY DEF ConfigInv, GivenOK, dir
  <2> HIDE DEF todo
  <2>5. survey' \in SurveyType /\ survey'.topology = {} /\ survey'.mode = {}
    BY <2>3, <2>4 DEF NoSurvey, SurveyType
  <2>6. \A axis \in Axes : survey'[axis] = {}
    BY <2>5 DEF Axes
  <2> QED BY <1>1, <1>2, <1>3, <2>1, <2>2, <2>5, <2>6, SelectInvFrom
<1>9. CASE SurveyNext
  <2>1. stage = "surveying" /\ refusal' = refusal
    BY <1>9 DEF SurveyNext
  <2>2. \A axis \in Axes : Selectable(axis, given[axis])
    BY <1>3, <2>1 DEF Behind
  <2>3. CASE survey' = survey
    <3>1. stage' = "file" \/ walk'.for = "survey"
      BY <1>9 DEF SurveyNext, StartWalk
    <3> QED BY <1>3, <1>4, <2>1, <2>2, <2>3, <3>1
  <2>4. CASE survey' # survey
    <3>1. PICK n \in survey.todo : /\ StartWalk("topology", "survey", n)
                                   /\ survey' = [survey EXCEPT !.todo = @ \ {n}]
      BY <1>9, <2>4 DEF SurveyNext
    <3>2. survey' \in SurveyType /\ survey'.topology = survey.topology
          /\ survey'.mode = survey.mode
      BY <1>3, <3>1 DEF SurveyType
    <3>3. walk'.for = "survey"
      BY <3>1 DEF StartWalk
    <3>4. \A axis \in Axes : survey'[axis] = survey[axis]
      BY <3>2 DEF Axes
    <3> QED BY <1>1, <1>2, <1>3, <2>1, <2>2, <3>2, <3>3, <3>4, SelectInvFrom
  <2> QED BY <2>3, <2>4
<1>10. CASE EndSurveyed
  <2>1. stage = "walk" /\ walk.for = "survey" /\ AtRest(walk) # "more" /\ refusal' = refusal
    BY <1>10 DEF EndSurveyed
  <2>2. \A axis \in Axes : Selectable(axis, given[axis])
    BY <1>3, <2>1 DEF Behind
  <2>3. walk.axis \in Axes /\ walk.name \in STRING
    BY <2>1, WalkNow
  <2>4. PICK outcome \in LoadOutcomes(walk) :
          LET bucket == IF outcome = "loaded" THEN walk.axis ELSE "unusable"
          IN  \/ StartWalk("mode", "survey", walk.name) /\ survey' = survey
              \/ stage' = "surveying" /\ survey' = survey
              \/ /\ stage' = "surveying"
                 /\ survey' = [survey EXCEPT ![bucket] = @ \cup {walk.name}]
    BY <1>10 DEF EndSurveyed, Classified
  <2>5. stage' = "surveying" \/ walk'.for = "survey"
    BY <2>4 DEF StartWalk
  <2>6. CASE survey' = survey
    BY <1>3, <1>4, <2>1, <2>2, <2>5, <2>6
  <2>7. CASE survey' # survey
    <3> DEFINE bucket == IF outcome = "loaded" THEN walk.axis ELSE "unusable"
    <3>1. survey' = [survey EXCEPT ![bucket] = survey[bucket] \cup {walk.name}]
      BY <2>4, <2>7
    <3>2. CASE outcome = "loaded"
      <4>1. Loads(walk.axis, walk.name)
        BY <2>1, <2>4, <3>2, WalkLoads
      <4>2. survey' \in SurveyType
        BY <1>3, <2>3, <3>1, <3>2 DEF SurveyType, Axes
      <4>3. \A axis \in Axes : survey'[axis] =
              IF axis = walk.axis THEN survey[axis] \cup {walk.name} ELSE survey[axis]
        BY <1>3, <2>3, <3>1, <3>2 DEF SurveyType, Axes
      <4>4. \A axis \in Axes : \A n \in survey'[axis] : Loads(axis, n)
        BY <1>3, <4>1, <4>3
      <4> QED BY <1>1, <1>2, <1>3, <2>1, <2>2, <2>5, <4>2, <4>4, SelectInvFrom
    <3>3. CASE outcome # "loaded"
      <4>1. survey' \in SurveyType /\ survey'.topology = survey.topology
            /\ survey'.mode = survey.mode
        BY <1>3, <2>3, <3>1, <3>3 DEF SurveyType
      <4>2. \A axis \in Axes : survey'[axis] = survey[axis]
        BY <4>1 DEF Axes
      <4> QED BY <1>1, <1>2, <1>3, <2>1, <2>2, <2>5, <4>1, <4>2, SelectInvFrom
    <3> QED BY <3>2, <3>3
  <2> QED BY <2>6, <2>7
<1>11. CASE ReadFile \/ ReadEnv
  <2>1. survey' = survey /\ stage' \in {"env", "resolve", "refused"}
        /\ refusal' \in {refusal, "experiment file", "environment variable"}
    BY <1>11 DEF ReadFile, ReadEnv, Refuse
  <2>2. \A axis \in Axes : ~Behind(axis)'
    BY <2>1 DEF Behind
  <2>3. refusal \notin ProfileErrors => refusal' \notin ProfileErrors
    BY <2>1 DEF ProfileErrors
  <2> QED BY <1>3, <1>4, <2>1, <2>2, <2>3
<1> QED BY <1>5, <1>6, <1>7, <1>8, <1>9, <1>10, <1>11 DEF Reads

LEMMA SelectInvStep ==
  ASSUME ConfigInv, WalkInv, SelectInv, [Next]_vars
  PROVE  SelectInv'
<1>1. /\ survey \in SurveyType
      /\ \A axis \in Axes : \A n \in survey[axis] : Loads(axis, n)
      /\ \A axis \in Axes : Behind(axis) => Selectable(axis, given[axis])
      /\ picked # "none" =>
           /\ \A axis \in Axes : Selectable(axis, given[axis])
           /\ refusal \notin ProfileErrors
           /\ stage = "walk" /\ walk.for = "select" => OnCourse
  BY DEF SelectInv, SurveyType
<1>2. CASE UNCHANGED vars
  <2>1. UNCHANGED <<given, stage, walk, survey, refusal, picked>>
    BY <1>2 DEF vars, configVars
  <2>2. dir' = dir /\ \A axis \in Axes : Behind(axis)' = Behind(axis)
    BY <2>1 DEF dir, Behind
  <2>3. OnCourse' = OnCourse
    <3>1. \A files : ChainProblems(walk.axis, files)' = ChainProblems(walk.axis, files)
      BY <2>1, <2>2 DEF ChainProblems, KeyProblems
    <3>2. \A files, base : Chain(walk.axis, walk.name, files, base)'
                           = Chain(walk.axis, walk.name, files, base)
      BY <2>1, <2>2 DEF Chain, Readable
    <3> QED BY <2>1, <2>2, <3>1, <3>2 DEF OnCourse, Leads
  <2> QED BY <1>1, <2>1, <2>2, <2>3, SelectInvFrom
<1>3. CASE Reads
  BY <1>3, SelectInvReads
<1>4. CASE Resolve \/ Validate \/ Checks
  <2>1. /\ UNCHANGED <<given, survey, picked>>
        /\ stage' \in {"validate", "tls", "refused"} \cup FromJwt
        /\ refusal' \in {refusal, "configuration"} \cup CheckReasons
    BY <1>4, CheckEffect DEF Resolve, Validate, Refuse
  <2>2. dir' = dir /\ \A axis \in Axes : ~Behind(axis)'
    BY <2>1 DEF dir, Behind, FromJwt, FromBackends, FromConnect, FromSidecar, FromBind
  <2>3. refusal \notin ProfileErrors => refusal' \notin ProfileErrors
    BY <2>1 DEF ProfileErrors, CheckReasons
  <2>4. stage' # "walk"
    BY <2>1 DEF FromJwt, FromBackends, FromConnect, FromSidecar, FromBind
  <2> QED BY <1>1, <2>1, <2>2, <2>3, <2>4, SelectInvFrom
<1>5. GivenOK(given)
  BY DEF ConfigInv
<1>6. CASE FollowAdvice \/ \E axis \in Axes : SelectReported(axis)
  <2>1. stage' = "topology" /\ refusal' = "none" /\ survey' = NoSurvey
    BY <1>6 DEF FollowAdvice, SelectReported, StartAgain
  <2>2. survey' \in SurveyType /\ \A axis \in Axes : survey'[axis] = {}
    BY <2>1 DEF NoSurvey, SurveyType, Axes
  <2>3. refusal' \notin ProfileErrors /\ \A axis \in Axes : ~Behind(axis)'
    BY <2>1 DEF ProfileErrors, Behind
  <2>4. CASE FollowAdvice
    <3>1. given'.dir = given.dir /\ given'.topology = given.topology
          /\ given'.mode = given.mode /\ picked' = picked
      BY <1>5, <2>4, AdviceEffect DEF FollowAdvice
    <3>2. dir' = dir /\ \A axis \in Axes : given'[axis] = given[axis]
      BY <3>1 DEF dir, Axes
    <3> QED BY <1>1, <2>1, <2>2, <2>3, <3>1, <3>2, SelectInvFrom
  <2>5. CASE \E axis \in Axes : SelectReported(axis)
    <3>1. PICK axis \in Axes : SelectReported(axis)
      BY <2>5
    <3>2. stage = "file"
      BY <3>1 DEF SelectReported
    <3>3. \A a \in Axes : Selectable(a, given[a])
      BY <1>1, <3>2 DEF Behind
    <3>4. PICK n \in survey[axis] :
            /\ given'[axis] = n /\ given'[Other(axis)] = given[Other(axis)]
            /\ given'.dir = given.dir
      BY <1>5, <3>1, SelectEffect
    <3>5. Loads(axis, n)
      BY <1>1, <3>4
    <3>6. Selectable(axis, given'[axis])
      BY <3>4, <3>5 DEF Selectable
    <3>7. Selectable(Other(axis), given'[Other(axis)])
      BY <3>3, <3>4 DEF Other, Axes
    <3>8. \A a \in Axes : a \in {axis, Other(axis)}
      BY DEF Axes, Other
    <3>9. \A a \in Axes : Selectable(a, given'[a])
      BY <3>6, <3>7, <3>8
    <3>10. dir' = dir
      BY <3>4 DEF dir
    <3> QED BY <2>1, <2>2, <2>3, <3>9, <3>10, SelectInvFrom
  <2> QED BY <1>6, <2>4, <2>5
<1> QED BY <1>2, <1>3, <1>4, <1>6, NextCases

-----------------------------------------------------------------------------
(* What the log says *)

\* The link of its chain a profile credits with k.
Credit(p, k) == IF k \in DOMAIN p.origin THEN p.origin[k] ELSE p.name

\* source names an axis and a link of the axis's chain.
Names(source, a, link) ==
  /\ source[1] = a /\ source[Len(source)] = link
  /\ source \notin {<<"env">>, <<"file">>, <<"builtin">>}

\* A source names its axis and ends at the link credited.
LEMMA SourceIs ==
  ASSUME NEW a, NEW p, NEW k
  PROVE  Names(<<a>> \o SourceLabel(p, k), a, Credit(p, k))
<1> DEFINE label == SourceLabel(p, k)
           c == Credit(p, k)
           S == {a, p.name, c}
           one == <<a>>
           source == one \o label
<1>1. label \in {<<c>>, <<p.name, c>>}
  BY DEF SourceLabel, Credit
<1>2. PICK name : name = p.name
  OBVIOUS
<1>3. <<c>> \in Seq(S) /\ Len(<<c>>) = 1 /\ <<c>>[1] = c
  <2> HIDE DEF c
  <2> QED OBVIOUS
<1>4. <<name, c>> \in Seq(S) /\ Len(<<name, c>>) = 2 /\ <<name, c>>[2] = c
  <2> HIDE DEF c
  <2> QED BY <1>2
<1>5. one \in Seq(S) /\ Len(one) = 1 /\ one[1] = a
  OBVIOUS
<1> HIDE DEF label, c, S, one
<1>6. label \in Seq(S) /\ Len(label) \in {1, 2} /\ label[Len(label)] = c
  BY <1>1, <1>2, <1>3, <1>4
<1>7. Len(source) = 1 + Len(label) /\ source[1] = a
  BY <1>5, <1>6
<1>8. Len(source) # 1 /\ source[Len(source)] = c
  <2>1. \A i \in 1 .. Len(one) + Len(label) :
          source[i] = IF i <= Len(one) THEN one[i] ELSE label[i - Len(one)]
    BY <1>5, <1>6, ConcatProperties, Zenon
  <2> HIDE DEF source
  <2>2. Len(source) - Len(one) = Len(label) /\ ~(Len(source) <= Len(one))
        /\ Len(source) \in 1 .. Len(one) + Len(label)
    BY <1>5, <1>6, <1>7
  <2>3. source[Len(source)] = label[Len(label)]
    BY <2>1, <2>2
  <2> QED BY <1>6, <1>7, <2>3
<1>9. Len(<<"env">>) = 1 /\ Len(<<"file">>) = 1 /\ Len(<<"builtin">>) = 1
  OBVIOUS
<1> QED BY <1>7, <1>8, <1>9 DEF c, one, label, Names

\* What each axis's builtins give.
LEMMA DefaultsDomain ==
  ASSUME NEW axis, NEW base
  PROVE  DOMAIN Defaults(axis, base) = Owned(axis)
BY DEF Defaults, TopologyDefaults, ModeDefaults, Owned, TopologyKeys, ModeKeys

\* The links of a chain ahead of the i-th.
Before(chain, i) == {chain[j] : j \in 1 .. i - 1}

\* The i-th link of a chain is found at i.
LEMMA NearerIs ==
  ASSUME NEW source, NEW a, NEW link, Names(source, a, link),
         NEW i \in DOMAIN profile[a].chain, profile[a].chain[i] = link,
         \A j \in DOMAIN profile[a].chain : profile[a].chain[j] = link => j = i
  PROVE  Nearer(source) = Before(profile[a].chain, i)
<1> DEFINE chain == profile[a].chain
<1>1. (CHOOSE n \in DOMAIN chain : chain[n] = source[Len(source)]) = i
  BY DEF Names
<1> QED BY <1>1 DEF Nearer, Before, Names

\* The link credited with k, what it gives, and who was asked before it.
CreditedRightly(k, source, value) ==
  /\ k \in DOMAIN LayerAt(source) /\ value = LayerAt(source)[k]
  /\ \A link \in Nearer(source) : k \notin DOMAIN dir[link].keys

\* What the link a source names gives.
LEMMA LayerAtLink ==
  ASSUME NEW a, NEW source, NEW link, Names(source, a, link)
  PROVE  LayerAt(source) = IF link \in Builtins(a) THEN Defaults(a, link)
                           ELSE IF link \in DOMAIN dir THEN dir[link].keys ELSE Empty
BY DEF LayerAt, Names

\* A builtin is rightly credited with all it gives.
LEMMA BuiltinHonest ==
  ASSUME NEW a \in Axes, NEW k \in Owned(a), NEW label \in Builtins(a),
         profile[a] = BuiltinProfile(a, label),
         NEW source, source = <<a>> \o SourceLabel(profile[a], k)
  PROVE  CreditedRightly(k, source, profile[a].value[k])
<1> DEFINE p == profile[a]
<1>1. /\ p.name = label /\ p.chain = <<label>> /\ p.value = Defaults(a, label)
      /\ p.origin = Empty
  BY DEF BuiltinProfile
<1>2. Credit(p, k) = label
  BY <1>1 DEF Credit, Empty
<1>3. Names(source, a, label)
  BY <1>2, SourceIs, Zenon
<1>4. LayerAt(source) = Defaults(a, label)
  BY <1>3, LayerAtLink
<1>5. Nearer(source) = {}
  <2>1. DOMAIN p.chain = 1 .. 1 /\ p.chain[1] = label
    BY <1>1
  <2>2. Nearer(source) = Before(p.chain, 1)
    <3>1. 1 \in DOMAIN p.chain /\ \A j \in DOMAIN p.chain : p.chain[j] = label => j = 1
      BY <2>1
    <3> QED BY <1>3, <2>1, <3>1, NearerIs
  <2> QED BY <2>2 DEF Before
<1> QED BY <1>1, <1>4, <1>5, DefaultsDomain DEF CreditedRightly

\* A link of a chain is rightly credited with what it gives: it has the key,
\* and no link nearer the name does.
LEMMA LayeredHonest ==
  ASSUME NEW a \in Axes, NEW k \in Owned(a),
         NEW name, NEW files, NEW base, Layered(a, profile[a], name, files, base),
         NEW source, source = <<a>> \o SourceLabel(profile[a], k)
  PROVE  CreditedRightly(k, source, profile[a].value[k])
<1> DEFINE p == profile[a]
           n == Len(files)
           chain == Append(files, base)
           K == KeyLayers(files)
           N == NameLayers(files)
           B == [x \in Owned(a) |-> base]
<1>1. /\ p.name = name /\ p.chain = chain
      /\ Laying(K, Defaults(a, base), 1 .. n, p.value)
      /\ Laying(N, B, 1 .. n, p.origin)
  BY DEF Layered
<1>2. /\ files \in Seq(DOMAIN dir) /\ base \in Builtins(a)
      /\ Chain(a, name, files, base)
  BY DEF Layered, Leads
<1>3. /\ n \in Nat /\ DOMAIN files = 1 .. n /\ DOMAIN chain = 1 .. n + 1
      /\ chain[n + 1] = base /\ \A i \in 1 .. n : chain[i] = files[i]
  BY <1>2
<1>4. \A i \in 1 .. n : files[i] \in DOMAIN dir /\ files[i] \notin Builtins(a)
  BY <1>2, <1>3 DEF Chain, Readable
<1>5. \A i, j \in 1 .. n : files[i] = files[j] => i = j
  BY <1>2, <1>3 DEF Chain
<1>6. \A i \in 1 .. n : /\ K[i] = dir[files[i]].keys /\ DOMAIN N[i] = DOMAIN K[i]
                        /\ \A x \in DOMAIN K[i] : N[i][x] = files[i]
  BY <1>3 DEF KeyLayers, NameLayers
<1>7. k \in DOMAIN Defaults(a, base) /\ k \in DOMAIN B /\ B[k] = base
  BY DefaultsDomain
<1>8. k \in DOMAIN p.origin
  BY <1>1, <1>7 DEF Laying
<1>9. Credit(p, k) = p.origin[k]
  BY <1>8 DEF Credit
<1> DEFINE link == p.origin[k]
<1>10. Names(source, a, link)
  BY <1>9, SourceIs, Zenon
<1>11. chain = profile[a].chain
  BY <1>1
<1> HIDE DEF p, n, chain, K, N, B, link
<1>12. CASE \A i \in 1 .. n : k \notin DOMAIN K[i]
  <2>1. p.value[k] = Defaults(a, base)[k]
    BY <1>1, <1>7, <1>12 DEF Laying
  <2>2. link = base
    BY <1>1, <1>6, <1>7, <1>12 DEF Laying, link
  <2>3. LayerAt(source) = Defaults(a, base)
    BY <1>2, <1>10, <2>2, LayerAtLink
  <2>4. Nearer(source) = Before(chain, n + 1)
    <3>1. n + 1 \in DOMAIN chain
      BY <1>3
    <3>2. \A j \in DOMAIN chain : chain[j] = link => j = n + 1
      BY <1>2, <1>3, <1>4, <2>2
    <3> QED BY <1>3, <1>10, <1>11, <2>2, <3>1, <3>2, NearerIs
  <2>5. \A l \in Nearer(source) : k \notin DOMAIN dir[l].keys
    <3>1. \A l \in Nearer(source) : \E j \in 1 .. n : l = files[j]
      BY <1>3, <2>4 DEF Before
    <3> QED BY <1>6, <1>12, <3>1
  <2> QED BY <1>7, <2>1, <2>3, <2>5 DEF CreditedRightly, p
<1>13. CASE \E i \in 1 .. n : k \in DOMAIN K[i]
  <2>1. PICK i \in 1 .. n : Topmost(K, 1 .. n, k, i)
    <3> DEFINE s == {i \in 1 .. n : k \in DOMAIN K[i]}
    <3>1. s \in SUBSET (1 .. n) /\ s # {}
      BY <1>13
    <3>2. Min(s) \in s /\ \A i \in s : Min(s) <= i
      BY <1>3, <3>1, LeastIndex
    <3>3. Min(s) \in 1 .. n /\ k \in DOMAIN K[Min(s)]
      BY <3>2
    <3>4. \A j \in 1 .. n : j < Min(s) => k \notin DOMAIN K[j]
      <4> SUFFICES ASSUME NEW j \in 1 .. n, j < Min(s), k \in DOMAIN K[j] PROVE FALSE
        OBVIOUS
      <4>1. j \in s
        OBVIOUS
      <4> HIDE DEF s
      <4> QED BY <3>2, <3>3, <4>1
    <3> HIDE DEF s
    <3> QED BY <3>3, <3>4 DEF Topmost
  <2>2. k \in DOMAIN K[i] /\ \A j \in 1 .. n : j < i => k \notin DOMAIN K[j]
    BY <2>1 DEF Topmost
  <2>3. Topmost(N, 1 .. n, k, i)
    BY <1>6, <2>2 DEF Topmost
  <2>4. p.value[k] = K[i][k]
    BY <1>1, <2>1 DEF Laying
  <2>5. link = files[i]
    BY <1>1, <1>6, <2>2, <2>3 DEF Laying, link
  <2>6. LayerAt(source) = K[i]
    <3>1. link \in DOMAIN dir /\ link \notin Builtins(a) /\ K[i] = dir[link].keys
      BY <1>4, <1>6, <2>5
    <3> QED BY <1>10, <3>1, LayerAtLink
  <2>7. Nearer(source) = Before(chain, i)
    <3>1. i \in DOMAIN chain
      BY <1>3
    <3>2. ASSUME NEW j \in DOMAIN chain, chain[j] = link PROVE j = i
      <4>1. j # n + 1
        BY <1>2, <1>3, <1>4, <2>5, <3>2
      <4>2. j \in 1 .. n
        BY <1>3, <4>1
      <4> QED BY <1>3, <1>5, <2>5, <3>2, <4>2
    <3>3. chain[i] = link
      BY <1>3, <2>5
    <3> QED BY <1>10, <1>11, <3>1, <3>2, <3>3, NearerIs
  <2>8. \A l \in Nearer(source) : k \notin DOMAIN dir[l].keys
    <3>1. \A j \in 1 .. i - 1 : j \in 1 .. n /\ j < i
      BY <1>3
    <3>2. \A l \in Nearer(source) : \E j \in 1 .. i - 1 : l = files[j]
      BY <1>3, <2>7, <3>1 DEF Before
    <3> QED BY <1>6, <2>2, <3>1, <3>2
  <2> QED BY <2>2, <2>4, <2>6, <2>8 DEF CreditedRightly, p
<1> QED BY <1>12, <1>13

\* A key is resolved from the axis that owns it, from the builtins or from a
\* layer above them all.
LEMMA KeyHome ==
  ASSUME NEW k \in DOMAIN Resolution
  PROVE  \/ \E a \in Axes : k \in Owned(a) /\ Resolution[k] = Layer(k, a)
         \/ /\ Resolution[k] = Layer(k, "builtin")
            /\ k \in DOMAIN BuiltinFallback \/ (k = "quorum" /\ QuorumGiven)
<1> DEFINE keys == {x \in Overridable : x = "quorum" => QuorumGiven}
           axis(x) == IF x \in TopologyKeys THEN "topology"
                      ELSE IF x \in ModeKeys THEN "mode" ELSE "builtin"
<1>1. Resolution = [x \in keys |-> Layer(x, axis(x))]
  BY DEF Resolution
<1> HIDE DEF axis
<1>2. k \in Overridable /\ (k = "quorum" => QuorumGiven) /\ Resolution[k] = Layer(k, axis(k))
  BY <1>1
<1> HIDE DEF keys
<1>3. CASE k \in TopologyKeys
  BY <1>2, <1>3 DEF axis, Owned, Axes
<1>4. CASE k \in ModeKeys \ TopologyKeys
  BY <1>2, <1>4 DEF axis, Owned, Axes
<1>5. CASE k \notin TopologyKeys \cup ModeKeys
  BY <1>2, <1>5 DEF axis, Overridable
<1> QED BY <1>3, <1>4, <1>5

\* One line of the start-up log is true.
LineHonest(k, line) ==
  LET source == line.source
  IN  /\ k \in DOMAIN LayerAt(source) /\ line.value = LayerAt(source)[k]
      /\ source # <<"env">> => k \notin EnvKeys \cap DOMAIN given.env.keys
      /\ source \notin {<<"env">>, <<"file">>} => k \notin DOMAIN given.file.keys
      /\ source[1] \in Axes =>
           \A link \in Nearer(source) : k \notin DOMAIN dir[link].keys

\* The layers outside the profiles are told apart by their names.
LEMMA SourcesDiffer ==
  /\ <<"env">> # <<"file">> /\ <<"env">> # <<"builtin">> /\ <<"file">> # <<"builtin">>
  /\ <<"env">>[1] \notin Axes /\ <<"file">>[1] \notin Axes /\ <<"builtin">>[1] \notin Axes
<1>1. <<"env">>[1] = "env" /\ <<"file">>[1] = "file" /\ <<"builtin">>[1] = "builtin"
  OBVIOUS
<1> QED BY <1>1 DEF Axes

\* Whatever layer a key is taken from, its line is true.
LEMMA LayerHonest ==
  ASSUME ShapeInv, NEW k, NEW axis,
         \/ axis \in Axes /\ k \in Owned(axis)
         \/ axis = "builtin" /\ k \in DOMAIN BuiltinFallback
         \/ axis = "builtin" /\ k = "quorum" /\ QuorumGiven
  PROVE  LineHonest(k, Layer(k, axis))
<1> DEFINE line == Layer(k, axis)
           inEnv == k \in EnvKeys \cap DOMAIN given.env.keys
           inFile == k \in DOMAIN given.file.keys
<1>1. CASE inEnv
  <2>1. line.source = <<"env">> /\ line.value = given.env.keys[k]
    BY <1>1 DEF Layer
  <2>2. LayerAt(<<"env">>) = given.env.keys
    BY DEF LayerAt
  <2> QED BY <1>1, <2>1, <2>2, SourcesDiffer DEF LineHonest
<1>2. CASE ~inEnv /\ inFile
  <2>1. line.source = <<"file">> /\ line.value = given.file.keys[k]
    BY <1>2 DEF Layer
  <2>2. LayerAt(<<"file">>) = given.file.keys
    BY SourcesDiffer DEF LayerAt
  <2> QED BY <1>2, <2>1, <2>2, SourcesDiffer DEF LineHonest
<1>3. CASE ~inEnv /\ ~inFile /\ axis \in Axes
  <2>1. /\ line.source = <<axis>> \o SourceLabel(profile[axis], k)
        /\ line.value = profile[axis].value[k]
    BY <1>3 DEF Layer
  <2>2. k \in Owned(axis)
    BY <1>3 DEF Axes
  <2>3. Shaped(axis, profile[axis])
    BY <1>3 DEF ShapeInv
  <2>4. CreditedRightly(k, line.source, line.value)
    <3>1. CASE \E label \in Builtins(axis) : profile[axis] = BuiltinProfile(axis, label)
      BY <1>3, <2>1, <2>2, <3>1, BuiltinHonest, Zenon
    <3>2. CASE \E name, files, base : Layered(axis, profile[axis], name, files, base)
      BY <1>3, <2>1, <2>2, <3>2, LayeredHonest, Zenon
    <3> QED BY <2>3, <3>1, <3>2 DEF Shaped
  <2> QED BY <1>3, <2>4 DEF CreditedRightly, LineHonest
<1>4. CASE ~inEnv /\ ~inFile /\ axis = "builtin"
  <2>1. k \in DOMAIN BuiltinFallback
    BY <1>4, KeyFacts DEF QuorumGiven, Axes
  <2>2. line.source = <<"builtin">> /\ line.value = BuiltinFallback[k]
    BY <1>4 DEF Layer, Axes
  <2>3. LayerAt(<<"builtin">>) = BuiltinFallback
    BY SourcesDiffer DEF LayerAt
  <2> QED BY <1>4, <2>1, <2>2, <2>3, SourcesDiffer DEF LineHonest
<1> QED BY <1>1, <1>2, <1>3, <1>4

-----------------------------------------------------------------------------
(* The theorems *)

StartInv ==
  ConfigInv /\ CheckInv /\ AdviceInv /\ WalkInv /\ ProfileInv /\ ShapeInv /\ SelectInv

\* The inductive invariant of a start, for every profile directory, layer,
\* deployment and operator.
THEOREM StartInvariant == Spec => []StartInv
<1>1. Init => StartInv
  BY ConfigInvInit, CheckInvInit, AdviceInvInit, WalkInvInit, ProfileInvInit, ShapeInvInit,
     SelectInvInit DEF StartInv
<1>2. StartInv /\ [Next]_vars => StartInv'
  <2> SUFFICES ASSUME StartInv, [Next]_vars PROVE StartInv'
    OBVIOUS
  <2>1. /\ ConfigInv /\ CheckInv /\ AdviceInv /\ WalkInv
        /\ ProfileInv /\ ShapeInv /\ SelectInv
    BY DEF StartInv
  <2>2. \A axis \in Axes : \A n \in survey[axis] : n \in STRING
    BY <2>1 DEF SelectInv, Axes
  <2> QED BY <2>1, <2>2, ConfigInvStep, CheckInvStep, AdviceInvStep, WalkInvStep,
             ProfileInvStep, ShapeInvStep, SelectInvStep DEF StartInv
<1> QED BY <1>1, <1>2, PTL DEF Spec

\* Of a deployment that serves the doctor fails nothing but the probe: every
\* other answer of its is one of the server's own checks, made over the same
\* material.  The probe fails only for a back-end that answers the server or
\* for S3, the one whose connect cannot fail (doctor's run against serve()).
THEOREM DoctorFailsOnlyProbesHolds == Spec => []DoctorFailsOnlyProbes
<1>1. StartInv => DoctorFailsOnlyProbes
  <2> SUFFICES ASSUME StartInv, stage = "serving"
               PROVE  /\ DoctorFails \subseteq {"probe"}
                      /\ \A b \in Unprobed :
                           b \in deploy.connects \/ (b = "store" /\ deploy.store = "s3")
    BY DEF DoctorFailsOnlyProbes
  <2>1. ConfigInv /\ CheckInv
    BY DEF StartInv
  <2>2. Errors(config) = {}
    BY <2>1 DEF ConfigInv, CheckInv, Resolved, Reading, FromTls, FromJwt, FromBackends,
                FromConnect, FromSidecar, FromBind
  <2>3. DoctorFails \subseteq {"probe"}
    BY <2>1, <2>2 DEF CheckInv, DoctorFails, FromTls, FromJwt, FromBackends,
                      FromConnect, FromSidecar, FromBind
  <2>4. Unreachable = {} /\ deploy \in Deployment
    BY <2>1 DEF ConfigInv, CheckInv, FromSidecar, FromBind
  <2>5. ASSUME NEW b \in Unprobed
        PROVE  b \in deploy.connects \/ (b = "store" /\ deploy.store = "s3")
    <3>1. b \in Roles /\ (b \in deploy.connects \/ deploy[b] = "s3")
      BY <2>4, <2>5 DEF Unprobed, Unreachable, Remote
    <3> QED BY <2>4, <3>1 DEF Deployment, Roles
  <2> QED BY <2>3, <2>5
<1> QED BY <1>1, StartInvariant, PTL

\* A profile the survey reports loads when it is selected, with whatever was
\* loaded on the other axis (unselected_profiles against load_*_profile).
THEOREM ReportedProfileLoadsHolds == Spec => []ReportedProfileLoads
<1>1. StartInv => ReportedProfileLoads
  BY DEF StartInv, SelectInv, ReportedProfileLoads
<1> QED BY <1>1, StartInvariant, PTL

\* Validation accepts a quorum just when the citation holds at that size, and
\* no smaller one from the first tried on would have done, for every fraction
\* up to 1; a fraction above 1 is reported, and moves no quorum
\* (batch_requirement and validate).
THEOREM AdviceEndsAtLeastHolds == Spec => []AdviceEndsAtLeast
<1>1. StartInv => AdviceEndsAtLeast
  <2> SUFFICES ASSUME StartInv, Resolved, stage # "validate", QuorumSet(config)
               PROVE  LET q == config["quorum"].value
                      IN  /\ q > 0 => ("quorum" \notin errors <=> (Meaningful => CitationHolds(q)))
                          /\ Meaningful \/ "robust_byzantine_fraction" \in errors
                          /\ \A lower \in first .. q - 1 :
                               first > 0 => Meaningful /\ ~CitationHolds(lower)
    BY DEF AdviceEndsAtLeast
  <2> DEFINE q == config["quorum"].value
  <2>1. ConfigInv /\ AdviceInv
    BY DEF StartInv
  <2>2. config = Resolution /\ errors = Errors(config) /\ GivenOK(given)
    BY <2>1 DEF ConfigInv, Resolved
  <2>3. QuorumGiven /\ config["quorum"] = Layer("quorum", "builtin")
    BY <2>2, ResolutionFacts DEF QuorumSet
  <2>4. /\ q \in Nat /\ config["robust_byzantine_fraction"].value \in Nat
        /\ config["aggregator"].value = Asked["aggregator"].value
        /\ config["robust_byzantine_fraction"].value
             = Asked["robust_byzantine_fraction"].value
    BY <2>2, <2>3, AskedFacts, ResolutionFacts
  <2>5. ASSUME q > 0 PROVE "quorum" \notin errors <=> (Meaningful => CitationHolds(q))
    <3>1. q \in Nat \ {0}
      BY <2>4, <2>5
    <3>2. "quorum" \in errors <=> ~P(config)!QuorumAccepted(q)
      BY <2>2, QuorumError
    <3>3. P(config)!QuorumAccepted(q) <=> P(config)!Covered(q)
      BY <3>1 DEF P!QuorumAccepted
    <3>4. (Meaningful => CitationHolds(q)) <=> P(config)!Covered(q)
      BY <2>4, <3>1, CitationIsCovered
    <3> QED BY <3>2, <3>3, <3>4
  <2>6. ASSUME NEW lower \in first .. q - 1, first > 0
        PROVE  Meaningful /\ ~CitationHolds(lower)
    <3>1. first \in Nat /\ lower \in Nat \ {0}
      BY <2>1, <2>4, <2>6 DEF AdviceInv
    <3>2. ~P(Asked)!Covered(lower)
      BY <2>1, <2>3, <2>6 DEF AdviceInv
    <3>3. ~P(config)!Covered(lower)
      BY <2>4, <3>2, SameRequirement
    <3> QED BY <2>4, <3>1, <3>3, CitationIsCovered
  <2>7. Meaningful \/ "robust_byzantine_fraction" \in errors
    BY <2>2, <2>4 DEF Meaningful, Errors
  <2> QED BY <2>5, <2>6, <2>7
<1> QED BY <1>1, StartInvariant, PTL

\* Every line of the start-up log is true, for every directory of profiles and
\* however long the inherits chains: the place a line credits gives the value,
\* and nothing asked before it does (to_log_lines over resolve_with_profiles
\* and load_chain).
THEOREM ProvenanceHonestHolds == Spec => []ProvenanceHonest
<1>1. StartInv => ProvenanceHonest
  <2> SUFFICES ASSUME StartInv, Resolved, NEW k \in DOMAIN config
               PROVE  LineHonest(k, config[k])
    BY DEF ProvenanceHonest, LineHonest
  <2>1. config = Resolution /\ ShapeInv
    BY DEF StartInv, ConfigInv, Resolved
  <2> QED BY <2>1, KeyHome, LayerHonest
<1> QED BY <1>1, StartInvariant, PTL

\* A server that serves in production, however long its inherits chain, has a
\* durable registry, store and accounting and admits nobody unverified: its
\* authentication is one the layers give (ProvenanceHonest).
THEOREM ProductionKeepsPromisesHolds == Spec => []ProductionKeepsPromises
<1>1. StartInv /\ ProvenanceHonest => ProductionKeepsPromises
  <2> SUFFICES ASSUME StartInv, ProvenanceHonest, stage = "serving",
                      Descends(profile["mode"].name)
               PROVE  /\ deploy.registry = "redis" /\ deploy.store \in {"postgres", "s3"}
                      /\ deploy.accounting = "postgres"
                      /\ BindsTls \/ VerifiesTokens
    BY DEF ProductionKeepsPromises
  <2>1. ConfigInv /\ CheckInv /\ ProfileInv
    BY DEF StartInv
  <2>2. Strict
    BY <2>1 DEF ProfileInv
  <2>3. /\ deploy \in Deployment /\ GivenOK(given)
        /\ config = Resolution /\ Resolved
    BY <2>1 DEF ConfigInv, Reading, Resolved
  <2>4. /\ ~(deploy.tls = "unreadable" \/ TlsRefused)
        /\ ~(deploy.jwt = "unusable" \/ JwtRefused)
        /\ ~("no_companion" \in Backends \/ BackendsRefused)
    BY <2>1 DEF CheckInv, FromTls, FromJwt, FromBackends, FromConnect, FromSidecar, FromBind
  <2>5. /\ deploy.registry = "redis" /\ deploy.store \in {"postgres", "s3"}
        /\ deploy.accounting = "postgres"
    BY <2>2, <2>3, <2>4 DEF Deployment, Backends, BackendsRefused
  <2>6. "auth" \in DOMAIN config /\ config["auth"] = Layer("auth", "topology")
    BY <2>3, ResolutionFacts
  <2>7. config["auth"].value \in {"mtls", "jwt"}
    <3> DEFINE source == config["auth"].source
    <3>1. "auth" \in DOMAIN LayerAt(source) /\ config["auth"].value = LayerAt(source)["auth"]
      BY <2>3, <2>6 DEF ProvenanceHonest
    <3>2. CASE "auth" \in DOMAIN given.file.keys
      BY <2>3, <2>6, <3>2, KeyFacts DEF Layer, GivenOK, LayerOK
    <3>3. CASE "auth" \notin DOMAIN given.file.keys
      <4>1. source = <<"topology">> \o SourceLabel(profile["topology"], "auth")
        BY <2>6, <3>3, KeyFacts DEF Layer, Axes
      <4>2. PICK last : Names(source, "topology", last)
        BY <4>1, SourceIs, Zenon
      <4>3. LayerAt(source) = IF last \in Topologies THEN TopologyDefaults(last)
                              ELSE IF last \in DOMAIN dir THEN dir[last].keys ELSE Empty
        BY <4>2, LayerAtLink DEF Builtins, Defaults
      <4>4. CASE last \in Topologies
        BY <3>1, <4>3, <4>4 DEF TopologyDefaults
      <4>5. CASE last \notin Topologies /\ last \in DOMAIN dir
        BY <2>3, <3>1, <4>3, <4>5 DEF GivenOK, LayerOK, dir
      <4>6. CASE last \notin Topologies /\ last \notin DOMAIN dir
        BY <3>1, <4>3, <4>6 DEF Empty
      <4> QED BY <4>4, <4>5, <4>6
    <3> QED BY <3>2, <3>3
  <2>8. BindsTls \/ VerifiesTokens
    BY <2>2, <2>3, <2>4, <2>7
       DEF BindsTls, TlsRefused, VerifiesTokens, JwtRefused, auth, Deployment
  <2> QED BY <2>5, <2>8
<1> QED BY <1>1, StartInvariant, ProvenanceHonestHolds, PTL
===============================================================================
