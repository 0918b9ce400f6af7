------------------------------- MODULE Startup -------------------------------
(***************************************************************************)
(* serve() after validation: what a server still checks before it listens, *)
(* in order, and `cflux doctor`, which asks most of the same questions of  *)
(* the same environment beforehand, and one in a way of its own.           *)
(*                                                                         *)
(* deploy is the deployment material, each entry one of a few cases:       *)
(*   tls        "none", "partial" (not all three paths), "full",           *)
(*              "unreadable", "mismatched" (read, and refused when bound)  *)
(*   jwt        "none", "key", "unusable"                                  *)
(*   registry   "memory", "redis"            or "no_companion": a variable *)
(*   store      "memory", "postgres", "s3"   the selection needs is unset  *)
(*   accounting "disabled", "postgres"                                     *)
(*   connects   the back-ends that answer the server, credentials and all  *)
(*   probed     the ones the doctor's probe finds: host_port can read the  *)
(*              address (no unix socket, no key=value form; 443 when S3    *)
(*              states no port) and a TCP connection opens within 3 s      *)
(*   sidecar    "unset", "unreachable", "silent" (no answer to Describe),  *)
(*              "answers"                                                  *)
(*   serves     what the sidecar implements, of {"reference", "scores"}    *)
(*   dim        the model it states: "unstated", "same", "other"           *)
(*   http       "loopback" or "exposed";  token: CONFLUX_ADMIN_TOKEN set   *)
(*   ports      both listeners' addresses parse and are free               *)
(***************************************************************************)
EXTENDS Configuration

CONSTANT Deployments(_)   \* the deployments tried with a given

Roles == {"registry", "store", "accounting"}

Deployment ==
  [tls : {"none", "partial", "full", "unreadable", "mismatched"},
   jwt : {"none", "key", "unusable"},
   registry : {"memory", "redis", "no_companion"},
   store : {"memory", "postgres", "s3", "no_companion"},
   accounting : {"disabled", "postgres", "no_companion"},
   connects : SUBSET Roles, probed : SUBSET Roles,
   sidecar : {"unset", "unreachable", "silent", "answers"},
   serves : SUBSET {"reference", "scores"}, dim : {"unstated", "same", "other"},
   http : {"loopback", "exposed"}, token : BOOLEAN, ports : BOOLEAN]

ASSUME DeploymentsAssumption == \A g \in Givens : Deployments(g) \subseteq Deployment

VARIABLE deploy

vars == <<configVars, deploy>>

\* Mutation: strictness follows the profile's name, not what it inherits.
mode_ByName == profile["mode"].name

\* Every check branches on the builtin the mode profile's chain ends at.
mode == profile["mode"].base
Strict == mode = "production"

auth == config["auth"].value

-----------------------------------------------------------------------------
(* The checks; the doctor shares all but how a back-end is reached *)

\* resolve_server_tls: TLS is bound only for mtls with all of its material;
\* research falls back to plaintext.
BindsTls == auth = "mtls" /\ deploy.tls \in {"full", "mismatched"}
TlsRefused == auth = "mtls" /\ ~BindsTls /\ Strict

\* validate_jwt_startup, and when a registration's token is verified.
VerifiesTokens == auth = "jwt" /\ deploy.jwt = "key"
JwtRefused == auth = "jwt" /\ deploy.jwt = "none" /\ Strict

Backends == {deploy.registry, deploy.store, deploy.accounting}

\* validate_production_backends
BackendsRefused ==
  Strict /\ (\/ deploy.registry = "memory" \/ deploy.store = "memory"
             \/ deploy.accounting = "disabled")

\* The back-ends that are to be reached over the network.
Remote == {b \in Roles : deploy[b] \in {"redis", "postgres", "s3"}}

\* The ones whose connect reports that it failed.  S3Store's never does: it
\* drops what head_bucket and create_bucket answer.
Unreachable == {b \in Remote \ deploy.connects : deploy[b] # "s3"}

\* The ones the doctor's own probe does not find; S3 is probed like the rest.
Unprobed == Remote \ deploy.probed

\* What the aggregator asks of a sidecar, and whether this one has it.
Needs ==
  CASE config["aggregator"].value = "fltrust" -> {"reference"}
    [] config["aggregator"].value = "zeno"    -> {"scores"}
    [] OTHER                                  -> {}
SidecarServes == deploy.sidecar = "answers" /\ Needs \subseteq deploy.serves

-----------------------------------------------------------------------------
(* serve(), one step per check *)

Check(from, refused, reason, to) ==
  /\ stage = from
  /\ IF refused THEN Refuse(reason) ELSE stage' = to /\ UNCHANGED refusal
  /\ UNCHANGED <<given, walk, profile, survey, config, errors, first, picked, deploy>>

BindTls == Check("tls", deploy.tls = "unreadable" \/ TlsRefused, "tls", "jwt")
LoadJwtKey == Check("jwt", deploy.jwt = "unusable" \/ JwtRefused, "jwt", "backends")
SelectBackends ==
  Check("backends", "no_companion" \in Backends \/ BackendsRefused, "backends", "connect")
\* AppState::connect opens every backend and replays the privacy log.
Connect == Check("connect", Unreachable # {}, "connect", "sidecar")
\* connect_trusted_reference, for the methods that need one.
ConnectSidecar ==
  Check("sidecar", Needs # {} /\ ~(SidecarServes /\ deploy.dim # "other"), "sidecar", "bind")
Bind == Check("bind", ~deploy.ports, "bind", "admin")
\* validate_admin_binding
BindAdmin == Check("admin", deploy.http = "exposed" /\ ~deploy.token, "admin", "listen")
\* The gRPC server is the last to see the TLS material, and the first to try it.
Listen == Check("listen", BindsTls /\ deploy.tls = "mismatched", "grpc tls", "serving")

-----------------------------------------------------------------------------
\* Mutation: a sidecar is asked for whatever the method.
DoctorFails_AnySidecar ==
  {c \in {"sidecar"} : deploy.sidecar # "answers"}

\* `cflux doctor`: the checks that fail.  Reading the environment may also
\* end it with an error, which is no clean bill either.
DoctorFails ==
  {c \in {"configuration"} : Errors(config) # {}}
  \cup {c \in {"backends"} : "no_companion" \in Backends \/ BackendsRefused}
  \cup {c \in {"probe"} : Unprobed # {}}
  \cup {c \in {"tls"} : deploy.tls = "unreadable" \/ TlsRefused}
  \cup {c \in {"jwt key"} : deploy.jwt = "unusable" \/ JwtRefused}
  \cup {c \in {"sidecar"} : Needs # {} /\ ~SidecarServes}

Init ==
  /\ ConfigInit
  /\ deploy \in Deployments(given)

StartupSteps ==
  \/ ReadSteps /\ UNCHANGED deploy
  \/ BindTls \/ LoadJwtKey \/ SelectBackends \/ Connect \/ ConnectSidecar
  \/ Bind \/ BindAdmin \/ Listen

Operator == OperatorSteps /\ UNCHANGED deploy

Next == StartupSteps \/ Operator

\* Start-up is one task that runs on until it serves or gives up; the operator
\* follows a quorum's advice, but need not select a reported profile.
Spec ==
  /\ Init /\ [][Next]_vars
  /\ WF_vars(StartupSteps)
  /\ WF_vars(FollowAdvice /\ UNCHANGED deploy)

-----------------------------------------------------------------------------
(* Properties *)

Reading ==
  {"topology", "mode", "walk", "survey", "surveying", "file", "env", "resolve"}
Resolved == stage \notin Reading /\ config # Empty

\* What the place a source names gives.
LayerAt(source) ==
  CASE source = <<"env">>     -> given.env.keys
    [] source = <<"file">>    -> given.file.keys
    [] source = <<"builtin">> -> BuiltinFallback
    [] OTHER -> LET axis == source[1]
                    link == source[Len(source)]
                IN  IF link \in Builtins(axis) THEN Defaults(axis, link)
                    ELSE IF link \in DOMAIN dir THEN dir[link].keys ELSE Empty

\* The files that were asked before the link a source names.
Nearer(source) ==
  LET chain == profile[source[1]].chain
  IN  {chain[i] : i \in 1 .. (CHOOSE n \in DOMAIN chain : chain[n] = source[Len(source)]) - 1}

\* Every line of the start-up log is true: the place it credits with a value
\* gives that value, no layer above it gives one, and no profile nearer in the
\* chain does (to_log_lines over resolve_with_profiles and load_chain).
ProvenanceHonest ==
  Resolved => \A k \in DOMAIN config :
    LET source == config[k].source
    IN  /\ k \in DOMAIN LayerAt(source) /\ config[k].value = LayerAt(source)[k]
        /\ source # <<"env">> => k \notin EnvKeys \cap DOMAIN given.env.keys
        /\ source \notin {<<"env">>, <<"file">>} => k \notin DOMAIN given.file.keys
        /\ source[1] \in Axes =>
             \A link \in Nearer(source) : k \notin DOMAIN dir[link].keys

\* A start always ends: inherits chains that loop are found out (load_chain).
StartEnds == (stage = "topology") ~> (stage \in {"serving", "refused"})

\* A profile the survey says could be selected loads when it is
\* (unselected_profiles and classify against load_*_profile).
ReportedProfileLoads == picked # "none" => refusal \notin ProfileErrors

\* A server that serves in production, through however long an inherits chain
\* it got there, keeps its clients, its checkpoints and its privacy budget
\* across a restart, and admits nobody unverified (serve's checks on
\* mode_profile.base).
Descends(name) == name = "production" \/ "production" \in Range(profile["mode"].chain)
ProductionKeepsPromises ==
  stage = "serving" /\ Descends(profile["mode"].name) =>
    /\ deploy.registry = "redis" /\ deploy.store \in {"postgres", "s3"}
    /\ deploy.accounting = "postgres"
    /\ BindsTls \/ VerifiesTokens

\* Of a deployment that serves the doctor fails nothing but the probe, and the
\* probe only for a back-end that answers the server, which the probe misses,
\* or for S3, whose silence the server does not notice (doctor's run against
\* serve()).
DoctorFailsOnlyProbes ==
  stage = "serving" =>
    /\ DoctorFails \subseteq {"probe"}
    /\ \A b \in Unprobed : b \in deploy.connects \/ (b = "store" /\ deploy.store = "s3")

\* The citations themselves, for f excluded out of n.
Cited(n, f) ==
  LET method == config["aggregator"].value
  IN  CASE method \in {"krum", "multi_krum"} -> n >= 2 * f + 3
        [] method = "bulyan"                 -> n >= 4 * f + 3
        [] method = "trimmed_mean"           -> n > 2 * f
        [] OTHER                             -> TRUE

\* f is the most the fraction allows of n updates, one being left over.
Excluded(n, f) ==
  LET num == config["robust_byzantine_fraction"].value
  IN  /\ f < n /\ f * FractionDen <= num * n
      /\ f + 1 = n \/ (f + 1) * FractionDen > num * n

CitationHolds(n) == \E f \in 0 .. n - 1 : Excluded(n, f) /\ Cited(n, f)

\* The fraction is one: in [0, 1].
Meaningful == config["robust_byzantine_fraction"].value <= FractionDen

\* Validation accepts a quorum just when the citation holds at that size, and
\* following its advice never asks for more than the smallest sufficient
\* quorum from the first one tried on.  A fraction above 1 is reported as such
\* and moves no quorum: none is refused for it, and none raised
\* (batch_requirement, and validate's fraction and quorum checks).
AdviceEndsAtLeast ==
  Resolved /\ stage # "validate" /\ QuorumSet(config) =>
    LET q == config["quorum"].value
    IN  /\ q > 0 => ("quorum" \notin errors <=> (Meaningful => CitationHolds(q)))
        /\ Meaningful \/ "robust_byzantine_fraction" \in errors
        /\ \A lower \in first .. q - 1 : first > 0 => Meaningful /\ ~CitationHolds(lower)

\* Where the citation can be met at all (a fraction below 1/2, below 1/4 for
\* bulyan) following the advice gets a quorum accepted.
Satisfiable ==
  LET num == config["robust_byzantine_fraction"].value
  IN  IF config["aggregator"].value = "bulyan" THEN 4 * num < FractionDen
      ELSE 2 * num < FractionDen
Advised == refusal = "configuration" /\ "quorum" \in errors /\ config["quorum"].value > 0
AdviceConverges ==
  Advised /\ Satisfiable ~> (Resolved /\ stage # "validate" /\ "quorum" \notin errors)

-----------------------------------------------------------------------------
(* The inductive invariants behind the theorems of Startup_proofs *)

\* The configuration is what the layers resolve to, and the errors are its own.
ConfigInv ==
  /\ GivenOK(given) /\ deploy \in Deployment
  /\ stage \in Reading => config = Empty
  /\ stage \notin Reading \cup {"refused"} => config # Empty
  /\ config # Empty => config = Resolution
  /\ Resolved /\ stage # "validate" => errors = Errors(config)
  /\ refusal = "configuration" => stage = "refused" /\ config # Empty

\* The stages behind each check.
FromBind == {"bind", "admin", "listen", "serving"}
FromSidecar == FromBind \cup {"sidecar"}
FromConnect == FromSidecar \cup {"connect"}
FromBackends == FromConnect \cup {"backends"}
FromJwt == FromBackends \cup {"jwt"}
FromTls == FromJwt \cup {"tls"}

\* A check that was passed would be passed again: nothing it read has changed.
CheckInv ==
  /\ stage \in FromTls => errors = {}
  /\ stage \in FromJwt => ~(deploy.tls = "unreadable" \/ TlsRefused)
  /\ stage \in FromBackends => ~(deploy.jwt = "unusable" \/ JwtRefused)
  /\ stage \in FromConnect => ~("no_companion" \in Backends \/ BackendsRefused)
  /\ stage \in FromSidecar => Unreachable = {}
  /\ stage \in FromBind => ~(Needs # {} /\ ~(SidecarServes /\ deploy.dim # "other"))

\* The method and the fraction, as the environment and the experiment file
\* give them; no profile has a say.
Asked == [k \in {"aggregator", "robust_byzantine_fraction"} |-> Layer(k, "builtin")]

\* No quorum from the first one tried up to the one now asked for would do.
AdviceInv ==
  /\ first \in Nat
  /\ first > 0 =>
       /\ QuorumGiven
       /\ \A lower \in first .. Layer("quorum", "builtin").value - 1 : ~P(Asked)!Covered(lower)

\* load_chain goes on from this file.
Readable(axis, n) ==
  /\ n \in DOMAIN dir \ Builtins(axis)
  /\ dir[n].toml /\ dir[n].inherits \notin {"none", "not_a_string"}

\* The i-th name of a chain that goes through files to end.
Link(files, end, i) == IF i <= Len(files) THEN files[i] ELSE end

\* Following inherits from name leads through files, each once, to end.
Chain(axis, name, files, end) ==
  /\ Link(files, end, 1) = name
  /\ \A i \in DOMAIN files :
       Readable(axis, files[i]) /\ dir[files[i]].inherits = Link(files, end, i + 1)
  /\ \A i, j \in DOMAIN files : files[i] = files[j] => i = j

WalkInv ==
  stage = "walk" =>
    /\ walk \in [axis : Axes, for : {"select", "survey"}, name : STRING, at : STRING,
                 visited : Seq(DOMAIN dir)]
    /\ Chain(walk.axis, walk.name, walk.visited, walk.at)
    /\ walk.for = "select" => walk.name = given[walk.axis] /\ walk.name # "none"

\* The mode's chain is builtin only at its end.
ProfileInv ==
  /\ profile = [a \in Axes |-> profile[a]]
  /\ Descends(profile["mode"].name) => Strict
=============================================================================
