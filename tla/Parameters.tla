------------------------------ MODULE Parameters ------------------------------
(***************************************************************************)
(* conflux_config's parameters: which layer owns each one, what the        *)
(* builtins say, and what ResolvedConfig::validate refuses.                *)
(*                                                                         *)
(* A real-valued parameter is the class its value falls in, which is all   *)
(* that the range checks tell apart: "nan" (or infinite), "below" -1,      *)
(* "negative", "zero", "part" (between 0 and 1), "one", "above" 1.  A      *)
(* count of seconds or bytes is "zero" or "above".  The quorum and         *)
(* scaffold_num_clients are numbers, robust_byzantine_fraction the         *)
(* numerator of a fraction over FractionDen.                               *)
(***************************************************************************)
EXTENDS Integers, TLC

CONSTANT FractionDen   \* robust_byzantine_fraction is a multiple of 1/FractionDen

ASSUME FractionAssumption == FractionDen \in Nat \ {0} /\ FractionDen % 5 = 0

Topologies == {"cross_silo", "cross_device", "crowdsource", "edge"}
Modes == {"research", "production"}
Builtins(axis) == IF axis = "topology" THEN Topologies ELSE Modes

TopologyKeys ==
  {"connection_mode", "auth", "round_timeout_secs", "min_reputation_score",
   "client_registry_ttl"}
ModeKeys ==
  {"seed_mode", "seed_value", "budget_exhausted_action", "accounting_scope",
   "allow_stub_client", "require_node_auth", "config_log_format"}
Owned(axis) == IF axis = "topology" THEN TopologyKeys ELSE ModeKeys
Other(axis) == IF axis = "topology" THEN "mode" ELSE "topology"

\* The parameters neither axis owns, each with its builtin fallback.
BuiltinFallback ==
  [max_update_bytes |-> "above", target_epsilon |-> "above", round_history_len |-> "above",
   clip_radius |-> "one", server_learning_rate |-> "one", server_lipschitz |-> "one",
   clip_norm |-> "one", noise_multiplier |-> "one", server_tau |-> "part",
   server_momentum |-> "part", zeno_rho |-> "part", delta |-> "part", fairness_q |-> "zero",
   reputation_filter_enabled |-> FALSE, client_side_privacy_transform |-> FALSE,
   aggregator |-> "fedavg", selector |-> "uniform_random",
   privacy_mechanism |-> "gaussian_clipping", round_log_detail |-> "changes",
   scaffold_num_clients |-> 1, robust_byzantine_fraction |-> FractionDen \div 5]

\* A parameter is owned by one axis, has a builtin, or is the quorum.
Overridable == TopologyKeys \cup ModeKeys \cup DOMAIN BuiltinFallback \cup {"quorum"}

\* Topology::defaults and Mode::defaults.
TopologyDefaults(t) ==
  LET trusted == t \in {"cross_silo", "edge"}
  IN  [connection_mode |-> IF t = "cross_silo" THEN "push" ELSE "pull",
       auth |-> IF trusted THEN "mtls" ELSE "jwt",
       min_reputation_score |-> IF trusted THEN "zero" ELSE "part",
       round_timeout_secs |-> "above", client_registry_ttl |-> "above"]
ModeDefaults(m) ==
  LET strict == m = "production"
  IN  [seed_mode |-> IF strict THEN "os_random" ELSE "fixed",
       seed_value |-> IF strict THEN "none" ELSE "forty_two",
       budget_exhausted_action |-> IF strict THEN "halt" ELSE "continue",
       accounting_scope |-> "global", allow_stub_client |-> ~strict,
       require_node_auth |-> strict,
       config_log_format |-> IF strict THEN "json" ELSE "text"]
Defaults(axis, base) ==
  IF axis = "topology" THEN TopologyDefaults(base) ELSE ModeDefaults(base)

\* The parameters overrides_from_vars reads from the environment; a variable
\* named after any other parameter is not looked at.
EnvKeys ==
  (DOMAIN BuiltinFallback
     \ {"target_epsilon", "delta", "client_side_privacy_transform"})
  \cup {"min_reputation_score", "quorum", "round_timeout_secs"}

\* The names the strategy crates register, and the methods validation knows.
RobustBatchMethods ==
  {"krum", "multi_krum", "trimmed_mean", "median", "faba", "bulyan",
   "geometric_median", "median_of_means", "divide_and_conquer"}
AdaptiveMethods == {"fedadagrad", "fedadam", "fedyogi"}
Registered ==
  [aggregator |-> RobustBatchMethods \cup AdaptiveMethods \cup
     {"fedavg", "fltrust", "flanders", "fedavgm", "qfedavg", "fednova",
      "scaffold", "zeno", "foolsgold", "centered_clipping"},
   selector |-> {"uniform_random"}, privacy_mechanism |-> {"gaussian_clipping"}]

Positive == {"part", "one", "above"}
NonNegative == Positive \cup {"zero"}

\* The classes a single parameter may fall in, whatever else is configured.
AlwaysAllowed ==
  [round_timeout_secs |-> Positive, client_registry_ttl |-> Positive,
   max_update_bytes |-> Positive, target_epsilon |-> Positive,
   clip_norm |-> NonNegative, noise_multiplier |-> NonNegative,
   min_reputation_score |-> {"negative", "zero", "part", "one"}, delta |-> {"part"}]

\* The classes a method's own parameters may fall in, checked when one of the
\* methods that use them is selected.
MethodAllowed ==
  [clip_radius |-> Positive, server_learning_rate |-> Positive, server_tau |-> Positive,
   server_momentum |-> {"zero", "part"}, fairness_q |-> NonNegative,
   zeno_rho |-> NonNegative]
UsedBy ==
  [clip_radius |-> {"centered_clipping"},
   server_learning_rate |-> AdaptiveMethods \cup {"fedavgm", "scaffold"},
   server_tau |-> AdaptiveMethods, server_momentum |-> {"fedavgm"},
   fairness_q |-> {"qfedavg"}, zeno_rho |-> {"zeno"}]

\* A configuration gives every parameter a value and its source; an unset
\* quorum has no entry.
QuorumSet(c) == "quorum" \in DOMAIN c
P(c) == INSTANCE Preconditions
          WITH Method <- c["aggregator"].value,
               FractionNum <- c["robust_byzantine_fraction"].value

\* ResolvedConfig::validate and unregistered_strategies: the parameters an
\* error is reported for (warnings start all the same and are left out).
Errors(c) ==
  LET v(k) == c[k].value
      method == v("aggregator")
      fraction == v("robust_byzantine_fraction")
      population == v("scaffold_num_clients")
  IN  {k \in DOMAIN AlwaysAllowed : v(k) \notin AlwaysAllowed[k]}
      \cup {k \in DOMAIN MethodAllowed : method \in UsedBy[k] /\ v(k) \notin MethodAllowed[k]}
      \cup {k \in DOMAIN Registered : v(k) \notin Registered[k]}
      \cup {k \in {"robust_byzantine_fraction"} :
              \/ fraction \notin 0 .. FractionDen
              \/ method \in RobustBatchMethods /\ 2 * fraction >= FractionDen}
      \cup {k \in {"scaffold_num_clients"} :
              /\ method = "scaffold"
              /\ population = 0 \/ (QuorumSet(c) /\ population < v("quorum"))}
      \cup {k \in {"quorum"} : QuorumSet(c) /\ ~P(c)!QuorumAccepted(v("quorum"))}
=============================================================================
