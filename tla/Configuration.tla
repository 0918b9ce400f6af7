---------------------------- MODULE Configuration ----------------------------
(***************************************************************************)
(* How a server gets its configuration: ServerConfig::from_env and the     *)
(* checks at the head of serve().  A topology and a mode profile are       *)
(* loaded, each down a chain of files that inherit from one another; the   *)
(* profile directory is surveyed for files nobody selected; the experiment *)
(* file and the environment are read; every parameter is resolved over the *)
(* layers and the result is validated.  An operator who is refused a       *)
(* quorum, or told of an unselected profile, changes the environment and   *)
(* starts again.                                                           *)
(*                                                                         *)
(* A profile file is [toml, inherits, keys, bad]: whether it parses, what  *)
(* `inherits` holds ("none" when absent, "not_a_string"), the values it    *)
(* gives, and the keys whose value does not deserialise.                   *)
(***************************************************************************)
EXTENDS Parameters, SequencesExt

CONSTANTS
  Givens,      \* what a process finds when it starts
  MaxQuorum    \* bound: the largest quorum the operator tries

VARIABLES
  given,     \* [dir, topology, mode, file, env]: directory, names, layers
  stage,     \* the step of start-up reached
  walk,      \* the inherits chain being followed
  profile,   \* the profile loaded on each axis
  survey,    \* [todo, topology, mode, unusable]: unselected_profiles
  config,    \* the resolved configuration
  refusal,   \* why the start was refused
  errors,    \* the parameters validation found an error in
  first,     \* history: the quorum first tried
  picked     \* history: the axis whose profile was taken from the survey

\* Every value a layer gives has parsed; the others are in its `bad`.
LayerOK(keys) ==
  /\ "auth" \in DOMAIN keys => keys["auth"] \in {"mtls", "jwt"}
  /\ \A k \in {"quorum", "robust_byzantine_fraction"} \cap DOMAIN keys : keys[k] \in Nat

GivenOK(g) ==
  /\ g \in [dir : {g.dir}, topology : STRING, mode : STRING, file : {g.file}, env : {g.env}]
  /\ g.env \in [keys : {g.env.keys}, bad : {g.env.bad}]
  /\ LayerOK(g.env.keys) /\ LayerOK(g.file.keys)
  /\ DOMAIN g.dir \subseteq STRING
  /\ \A n \in DOMAIN g.dir : g.dir[n].inherits \in STRING /\ LayerOK(g.dir[n].keys)

ASSUME GivensAssumption == \A g \in Givens : GivenOK(g)

configVars ==
  <<given, stage, walk, profile, survey, config, refusal, errors, first, picked>>

Axes == {"topology", "mode"}
NoWalk == [axis |-> "none", for |-> "none", name |-> "none", at |-> "none", visited |-> <<>>]
NoSurvey == [todo |-> {}, topology |-> {}, mode |-> {}, unusable |-> {}]
Empty == [k \in {} |-> "none"]
dir == given.dir

-----------------------------------------------------------------------------
(* Profiles *)

\* A builtin credits itself with every value.
BuiltinProfile(axis, label) ==
  [name |-> label, base |-> label, chain |-> <<label>>,
   value |-> Defaults(axis, label), origin |-> Empty]

\* What upper gives, and what lower gives besides.
Over(upper, lower) ==
  [k \in DOMAIN upper \cup DOMAIN lower |->
     IF k \in DOMAIN upper THEN upper[k] ELSE lower[k]]

\* Mutation: a file farther down the chain overrides a nearer one.
Merged_FarthestWins(axis, files, base) ==
  FoldLeft(LAMBDA acc, f : Over(dir[f].keys, acc), Defaults(axis, base), files)

\* The files are applied base-most first, so a nearer one overrides.
Merged(axis, files, base) ==
  FoldRight(LAMBDA f, acc : Over(dir[f].keys, acc), files, Defaults(axis, base))
Origins(axis, files, base) ==
  FoldRight(LAMBDA f, acc : Over([k \in DOMAIN dir[f].keys |-> f], acc),
            files, [k \in Owned(axis) |-> base])

LoadedProfile(axis, name, files, base) ==
  [name |-> name, base |-> base, chain |-> Append(files, base),
   value |-> Merged(axis, files, base), origin |-> Origins(axis, files, base)]

\* Which link of the chain set k: `name`, or `name -> origin`.
SourceLabel(p, k) ==
  IF k \in DOMAIN p.origin /\ p.origin[k] # p.name
  THEN <<p.name, p.origin[k]>> ELSE <<p.name>>

\* apply_topology_key, apply_mode_key and wrong_key.
KeyProblems(axis, f) ==
  {"WrongAxis" : k \in (DOMAIN dir[f].keys \cup dir[f].bad) \cap Owned(Other(axis))}
  \cup {"UnknownKey" : k \in (DOMAIN dir[f].keys \cup dir[f].bad)
                               \ (TopologyKeys \cup ModeKeys)}
  \cup {"BadValue" : k \in dir[f].bad \cap Owned(axis)}

\* The base-most file with a problem is the one reported.
ChainProblems(axis, files) ==
  LET wrong == {i \in DOMAIN files : KeyProblems(axis, files[i]) # {}}
  IN  IF wrong = {} THEN {}
      ELSE KeyProblems(axis, files[CHOOSE i \in wrong : \A j \in wrong : j <= i])

\* Where load_chain's loop stands at a name: it ends there, or reads on.
AtRest(w) ==
  IF w.at \in Builtins(w.axis) THEN (IF w.at \in DOMAIN dir THEN "ShadowsBuiltin" ELSE "done")
  ELSE IF w.at \in Range(w.visited) THEN "Cycle"
  ELSE IF w.at \notin DOMAIN dir THEN "NotFound"
  ELSE IF ~dir[w.at].toml THEN "Parse"
  ELSE IF dir[w.at].inherits = "not_a_string" THEN "BadValue"
  ELSE IF dir[w.at].inherits = "none" THEN "MissingInherits" ELSE "more"

\* How loading the profile being walked ends: a set, since which of a file's
\* wrong keys is met first is not modelled.
LoadOutcomes(w) ==
  IF AtRest(w) # "done" THEN {AtRest(w)}
  ELSE IF ChainProblems(w.axis, w.visited) = {} THEN {"loaded"}
  ELSE ChainProblems(w.axis, w.visited)

ProfileErrors ==
  {"ShadowsBuiltin", "Cycle", "NotFound", "Parse", "BadValue", "MissingInherits",
   "WrongAxis", "UnknownKey"}

-----------------------------------------------------------------------------
(* Start-up, one action per step *)

Refuse(reason) == stage' = "refused" /\ refusal' = reason

StartWalk(axis, purpose, name) ==
  walk' = [axis |-> axis, for |-> purpose, name |-> name, at |-> name, visited |-> <<>>]

AfterAxis(axis) == IF axis = "topology" THEN "mode" ELSE "survey"

\* topology_profile_named, mode_profile_named: unset is the builtin default, a
\* builtin's label the builtin, any other name a file.
SelectProfile(axis) ==
  /\ stage = axis
  /\ LET name == IF given[axis] # "none" THEN given[axis]
                 ELSE IF axis = "topology" THEN "cross_device" ELSE "research"
     IN  \/ /\ name \in Builtins(axis)
            /\ profile' = [profile EXCEPT ![axis] = BuiltinProfile(axis, name)]
            /\ stage' = AfterAxis(axis)
            /\ UNCHANGED walk
         \/ /\ name \notin Builtins(axis)
            /\ StartWalk(axis, "select", name)
            /\ stage' = "walk"
            /\ UNCHANGED profile
  /\ UNCHANGED <<given, survey, config, refusal, errors, first, picked>>

\* Mutation: only the last file read is remembered.
FollowInherits_LastOnly ==
  /\ stage = "walk" /\ AtRest(walk) = "more"
  /\ walk' = [walk EXCEPT !.visited = <<walk.at>>, !.at = dir[walk.at].inherits]
  /\ UNCHANGED <<given, stage, profile, survey, config, refusal, errors, first, picked>>

\* One turn of load_chain's loop: a file is read and its parent is next.
FollowInherits ==
  /\ stage = "walk" /\ AtRest(walk) = "more"
  /\ walk' = [walk EXCEPT !.visited = Append(@, walk.at), !.at = dir[walk.at].inherits]
  /\ UNCHANGED <<given, stage, profile, survey, config, refusal, errors, first, picked>>

\* The selected profile is loaded, or the start refused.
EndSelect ==
  /\ stage = "walk" /\ walk.for = "select" /\ AtRest(walk) # "more"
  /\ \E outcome \in LoadOutcomes(walk) :
       IF outcome = "loaded"
       THEN /\ profile' = [profile EXCEPT ![walk.axis] =
                             LoadedProfile(walk.axis, walk.name, walk.visited, walk.at)]
            /\ stage' = AfterAxis(walk.axis)
            /\ UNCHANGED refusal
       ELSE Refuse(outcome) /\ UNCHANGED profile
  /\ walk' = NoWalk
  /\ UNCHANGED <<given, survey, config, errors, first, picked>>

\* unselected_profiles looks only when an axis was left unset, and only at
\* files that declare `inherits`.
StartSurvey ==
  /\ stage = "survey"
  /\ survey' = [NoSurvey EXCEPT !.todo =
       {n \in DOMAIN dir : /\ "none" \in {given.topology, given.mode}
                           /\ dir[n].toml /\ dir[n].inherits # "none"}]
  /\ stage' = "surveying"
  /\ UNCHANGED <<given, walk, profile, config, refusal, errors, first, picked>>

\* classify tries the topology axis first.
SurveyNext ==
  /\ stage = "surveying"
  /\ \/ /\ survey.todo = {} /\ stage' = "file"
        /\ UNCHANGED <<walk, survey>>
     \/ \E n \in survey.todo :
          /\ StartWalk("topology", "survey", n)
          /\ survey' = [survey EXCEPT !.todo = @ \ {n}]
          /\ stage' = "walk"
  /\ UNCHANGED <<given, profile, config, refusal, errors, first, picked>>

\* Mutation: a chain that ends at a builtin is taken to load, whatever its
\* files hold.
Classified_ChainOnly(w) ==
  IF AtRest(w) = "done" THEN {"loaded"} ELSE LoadOutcomes(w)

\* What loading the surveyed file on the axis tried comes to.
Classified(w) == LoadOutcomes(w)

\* Only NotFound means "not this axis": it is then tried as a mode.
EndSurveyed ==
  /\ stage = "walk" /\ walk.for = "survey" /\ AtRest(walk) # "more"
  /\ \E outcome \in Classified(walk) :
       LET topologySide == walk.axis = "topology"
           bucket == IF outcome = "loaded" THEN walk.axis ELSE "unusable"
           silent == outcome = "loaded" /\ given[walk.axis] # "none"
       IN  IF outcome = "NotFound" /\ topologySide
           THEN /\ StartWalk("mode", "survey", walk.name)
                /\ UNCHANGED <<stage, survey>>
           ELSE /\ survey' = IF silent THEN survey
                             ELSE [survey EXCEPT ![bucket] = @ \cup {walk.name}]
                /\ stage' = "surveying" /\ walk' = NoWalk
  /\ UNCHANGED <<given, profile, config, refusal, errors, first, picked>>

\* load_experiment_file: a file that is named must be read whole.
ReadFile ==
  /\ stage = "file"
  /\ IF given.file.status \in {"none", "read"}
        /\ given.file.bad = {} /\ DOMAIN given.file.keys \subseteq Overridable
     THEN stage' = "env" /\ UNCHANGED refusal
     ELSE Refuse("experiment file")
  /\ UNCHANGED <<given, walk, profile, survey, config, errors, first, picked>>

\* overrides_from_vars: a variable that is set and does not parse is refused.
ReadEnv ==
  /\ stage = "env"
  /\ IF given.env.bad \cap EnvKeys = {}
     THEN stage' = "resolve" /\ UNCHANGED refusal
     ELSE Refuse("environment variable")
  /\ UNCHANGED <<given, walk, profile, survey, config, errors, first, picked>>

\* layer(): the first tier that gives k a value, highest precedence first.
Layer(k, axis) ==
  IF k \in EnvKeys \cap DOMAIN given.env.keys
  THEN [value |-> given.env.keys[k], source |-> <<"env">>]
  ELSE IF k \in DOMAIN given.file.keys
  THEN [value |-> given.file.keys[k], source |-> <<"file">>]
  ELSE IF axis \in Axes
  THEN [value |-> profile[axis].value[k],
        source |-> <<axis>> \o SourceLabel(profile[axis], k)]
  ELSE [value |-> BuiltinFallback[k], source |-> <<"builtin">>]

QuorumGiven ==
  \/ "quorum" \in DOMAIN given.env.keys
  \/ "quorum" \in DOMAIN given.file.keys

\* resolve_with_profiles, with the empty command-line tier the server passes.
Resolution ==
  LET axis(k) == IF k \in TopologyKeys THEN "topology"
                 ELSE IF k \in ModeKeys THEN "mode" ELSE "builtin"
  IN  [k \in {x \in Overridable : x = "quorum" => QuorumGiven} |-> Layer(k, axis(k))]

Resolve ==
  /\ stage = "resolve"
  /\ config' = Resolution
  /\ first' = IF QuorumGiven /\ first = 0 THEN config'["quorum"].value ELSE first
  /\ stage' = "validate"
  /\ UNCHANGED <<given, walk, profile, survey, refusal, errors, picked>>

\* serve() validates before anything is opened.
Validate ==
  /\ stage = "validate"
  /\ errors' = Errors(config)
  /\ IF errors' = {} THEN stage' = "tls" /\ UNCHANGED refusal
     ELSE Refuse("configuration")
  /\ UNCHANGED <<given, walk, profile, survey, config, first, picked>>

-----------------------------------------------------------------------------
(* The operator *)

StartAgain ==
  /\ stage' = "topology" /\ refusal' = "none" /\ errors' = {}
  /\ profile' = [a \in Axes |-> BuiltinProfile(a, CHOOSE b \in Builtins(a) : TRUE)]
  /\ survey' = NoSurvey /\ config' = Empty /\ UNCHANGED walk

\* "Raise quorum to {required}": the requirement at the refused size.
FollowAdvice ==
  /\ refusal = "configuration" /\ "quorum" \in errors
  /\ P(config)!HasRequirement(config["quorum"].value)
  /\ P(config)!RequiredAt(config["quorum"].value) <= MaxQuorum
  /\ LET keys == given.env.keys
     IN  given' = [given EXCEPT !.env.keys =
           [k \in DOMAIN keys \cup {"quorum"} |->
              IF k = "quorum" THEN P(config)!RequiredAt(config["quorum"].value) ELSE keys[k]]]
  /\ StartAgain
  /\ UNCHANGED <<first, picked>>

\* "Set CONFLUX_TOPOLOGY=<name> to select one."
SelectReported(axis) ==
  /\ stage = "file" /\ picked = "none"
  /\ \E n \in survey[axis] : given' = [given EXCEPT ![axis] = n]
  /\ picked' = axis
  /\ StartAgain
  /\ UNCHANGED first

-----------------------------------------------------------------------------
ConfigInit ==
  /\ given \in Givens
  /\ stage = "topology" /\ refusal = "none" /\ errors = {}
  /\ profile = [a \in Axes |-> BuiltinProfile(a, CHOOSE b \in Builtins(a) : TRUE)]
  /\ walk = NoWalk /\ survey = NoSurvey /\ config = Empty
  /\ first = 0 /\ picked = "none"

ReadSteps ==
  \/ \E axis \in Axes : SelectProfile(axis)
  \/ FollowInherits \/ EndSelect \/ StartSurvey \/ SurveyNext \/ EndSurveyed
  \/ ReadFile \/ ReadEnv \/ Resolve \/ Validate

OperatorSteps == FollowAdvice \/ \E axis \in Axes : SelectReported(axis)
=============================================================================
