------------------------------- MODULE MCStartup -------------------------------
(***************************************************************************)
(* Three families of starts: profile directories and layers with an        *)
(* unproblematic deployment; every deployment under a few profiles; and    *)
(* every method, fraction and first quorum under the builtins.             *)
(***************************************************************************)
EXTENDS Startup

File(inherits, keys) == [toml |-> TRUE, inherits |-> inherits, keys |-> keys, bad |-> {}]
NoFile == [status |-> "none", keys |-> Empty, bad |-> {}]
NoEnv == [keys |-> Empty, bad |-> {}]
Given(d, t, m, f, e) == [dir |-> d, topology |-> t, mode |-> m, file |-> f, env |-> e]

\* Chains of up to three files, and each way one can go wrong.
Directories ==
  LET longer == "hospital" :> File("region", "auth" :> "jwt")
                @@ "region" :> File("cross_silo", "auth" :> "mtls" @@ "round_timeout_secs" :> "zero")
  IN  {Empty, longer,
       longer @@ "strict" :> File("production", "require_node_auth" :> FALSE)
              @@ "stricter" :> File("strict", "seed_mode" :> "fixed"),
       "hospital" :> File("region", Empty) @@ "region" :> File("hospital", Empty),
       "hospital" :> File("hospital", Empty) @@ "strict" :> File("nowhere", Empty),
       "hospital" :> File("edge", "seed_mode" :> "fixed")
         @@ "strict" :> File("production", "auht" :> "jwt"),
       "hospital" :> File("edge", Empty) @@ "edge" :> File("cross_silo", Empty),
       "hospital" :> [File("edge", Empty) EXCEPT !.bad = {"auth"}]
         @@ "strict" :> [File("research", Empty) EXCEPT !.toml = FALSE]
         @@ "notes" :> File("none", Empty) @@ "region" :> File("not_a_string", Empty)}

Files == {NoFile, [NoFile EXCEPT !.status = "missing"],
          [status |-> "read", keys |-> "auth" :> "mtls" @@ "clip_norm" :> "nan", bad |-> {}],
          [status |-> "read", keys |-> "quorum" :> 4 @@ "delta" :> "part", bad |-> {}],
          [status |-> "read", keys |-> "qourum" :> 4, bad |-> {}]}
Environments ==
  {NoEnv, [NoEnv EXCEPT !.bad = {"quorum"}],
   [keys |-> "auth" :> "jwt" @@ "clip_norm" :> "one" @@ "quorum" :> 3
             @@ "aggregator" :> "krumm", bad |-> {"delta"}],
   [keys |-> "min_reputation_score" :> "below" @@ "scaffold_num_clients" :> 2
             @@ "quorum" :> 3 @@ "aggregator" :> "scaffold", bad |-> {}]}

ProfileGivens ==
  {Given(d, t, m, f, e) : d \in Directories, t \in {"none", "edge", "hospital"},
                          m \in {"none", "production", "strict", "stricter"},
                          f \in Files, e \in Environments}

\* Quorums tried by an operator, fractions in sixteenths, two of them above 1.
QuorumGivens ==
  {Given(Empty, "none", "none", NoFile,
         [keys |-> "aggregator" :> method @@ "robust_byzantine_fraction" :> num
                   @@ "quorum" :> q, bad |-> {}]) :
     method \in {"krum", "multi_krum", "bulyan", "trimmed_mean", "fedavg"},
     num \in {5 * i : i \in 0 .. 18}, q \in 0 .. 12}

\* Methods with and without a sidecar, in every mode, over both kinds of
\* authentication.
DeployGivens ==
  {Given("strict" :> File("production", Empty), t, m, NoFile,
         [keys |-> "aggregator" :> a, bad |-> {}]) :
     t \in {"cross_silo", "cross_device"}, m \in {"research", "production", "strict"},
     a \in {"fedavg", "fltrust", "zeno"}}

MCGivens == ProfileGivens \cup QuorumGivens \cup DeployGivens

Plain ==
  [tls |-> "full", jwt |-> "key", registry |-> "redis", store |-> "s3",
   accounting |-> "postgres", connects |-> Roles, probed |-> Roles,
   sidecar |-> "answers", serves |-> {"reference", "scores"},
   dim |-> "same", http |-> "loopback", token |-> FALSE, ports |-> TRUE]

\* One or two entries differ from a deployment that starts.
Variants(d) ==
  {d} \cup {[d EXCEPT !.tls = x] : x \in {"none", "partial", "unreadable", "mismatched"}}
  \cup {[d EXCEPT !.jwt = x] : x \in {"none", "unusable"}}
  \cup {[d EXCEPT !.registry = x] : x \in {"memory", "no_companion"}}
  \cup {[d EXCEPT !.store = x] : x \in {"memory", "postgres", "no_companion"}}
  \cup {[d EXCEPT !.accounting = x] : x \in {"disabled", "no_companion"}}
  \cup {[d EXCEPT !.connects = @ \ {b}] : b \in Roles}
  \cup {[d EXCEPT !.probed = @ \ {b}] : b \in Roles}
  \cup {[d EXCEPT !.connects = @ \ {b}, !.probed = @ \ {b}] : b \in Roles}
  \cup {[d EXCEPT !.sidecar = x] : x \in {"unset", "unreachable", "silent"}}
  \cup {[d EXCEPT !.serves = x] : x \in {{}, {"reference"}, {"scores"}}}
  \cup {[d EXCEPT !.dim = x] : x \in {"unstated", "other"}}
  \cup {[d EXCEPT !.http = "exposed", !.token = x] : x \in BOOLEAN}
  \cup {[d EXCEPT !.ports = FALSE]}

MCDeployments(g) ==
  IF g \in DeployGivens THEN UNION {Variants(d) : d \in Variants(Plain)} ELSE {Plain}
=============================================================================
