------------------------------ MODULE RoundLoop ------------------------------
(***************************************************************************)
(* The server's round loop: serve's loop around run_round, the state they  *)
(* share with the RPC handlers of AppState, the checkpoint store, the      *)
(* privacy accountant and its durable log, round history and loop health.  *)
(*                                                                         *)
(* run_round is split where it awaits and where it publishes something     *)
(* another task can see; between two of its steps any handler may run.     *)
(* Each RPC handler is split the same way: fetch_task reads the round and  *)
(* then awaits the store, submit_delta clones the current buffer's Arc and *)
(* then pushes.  The process may crash between any two steps; a new one    *)
(* starts from what the configured backends kept.                          *)
(*                                                                         *)
(* Data.  A model is named by the number of the attempt that produced it,  *)
(* 0 being the initial weights.  An update is its sender, the model it was *)
(* trained from, its arrival slot and whether its payload is finite, holds *)
(* a NaN or is malformed.  The buffer is RoundBatch's: RoundBuffer shows   *)
(* that the locks and permits implement it.  The privacy cost of a round   *)
(* is one unit and the budget is a number of units.                        *)
(***************************************************************************)
EXTENDS Preconditions, FiniteSets, Sequences

CONSTANTS
  Clients,
  QuorumOverride,    \* config.quorum, or 0 when it is not set
  UsesSidecar,       \* the aggregator needs a reference or scores
  ReputationOn,      \* reputation_filter_enabled
  PerClientScope,    \* accounting_scope = PerClient rather than Global
  HaltOnExhausted,   \* budget_exhausted_action = Halt
  Budget,            \* units of cost at which target_epsilon is reached
  LogEnabled,        \* a durable accountant_log is configured
  DurableStore,      \* Postgres or S3 checkpoints; in-memory otherwise
  SeededStore,       \* an operator has put a first checkpoint in a durable store
  OperatorStops,     \* an operator may request a shutdown
  DurableRegistry,   \* Redis registry; in-memory otherwise
  HistoryLen,        \* round_history_len
  Bodies,            \* the payloads clients send
  FaultPoints,       \* the awaits whose backend may fail
  MaxFaults,         \* bound: injected backend failures
  MaxCrashes,        \* bound: crashes of the process
  MaxAttempts,       \* bound: rounds opened, over all incarnations
  MaxDeltas,         \* bound: updates in one buffer
  FailureCap         \* bound: consecutive failures counted

\* The loop runs a configuration that validation accepted: a fraction in
\* [0, 1], and a quorum the method's citation covers.
ASSUME LoopAssumption ==
  /\ IsFiniteSet(Clients)
  /\ FractionNum <= FractionDen
  /\ QuorumOverride \in Nat
  /\ QuorumOverride # 0 => QuorumAccepted(QuorumOverride)
  /\ {UsesSidecar, ReputationOn, PerClientScope, HaltOnExhausted, LogEnabled,
      DurableStore, SeededStore, DurableRegistry, OperatorStops} \subseteq BOOLEAN
  /\ Bodies \subseteq {"finite", "nonfinite", "malformed"}
  /\ FaultPoints \subseteq {"load", "registry", "sidecar", "aggregate", "save",
                            "saveLost", "log"}
  /\ FaultPoints \cap {"load", "save", "saveLost"} # {} => DurableStore
  /\ "registry" \in FaultPoints => DurableRegistry
  /\ {Budget, HistoryLen, MaxFaults, MaxCrashes, MaxAttempts, MaxDeltas,
      FailureCap} \subseteq Nat

VARIABLES
  pc,         \* where the round loop is
  job,        \* run_round's locals
  round,      \* AppState.round
  current,    \* AppState.current_buffer: a buffer's number, 0 for None
  buffer,     \* the newest RoundBuffer; every older one is closed
  pushed,     \* the last task sent to push subscribers
  ckpt,       \* the store: a model for each checkpointed round
  acct,       \* the in-memory accountant
  log,        \* the durable PrivacyRoundLog
  health,     \* RoundLoopHealth
  history,    \* RoundHistory, newest last
  verdict,    \* RoundVerdict.last
  lastOutput, \* the aggregator's memory of its last output, 0 when unseeded
  active,     \* the clients in the registry
  shutdown,   \* the watch latch
  task,       \* the task each client holds
  rpc,        \* the RPC each client has in flight
  attempt,    \* buffers created so far: names attempts and models
  released,   \* checkpoints written so far
  faults, crashes

appVars   == <<round, current, buffer, pushed>>
acctVars  == <<acct, log>>
statVars  == <<health, history, verdict>>
netVars   == <<task, rpc>>
boundVars == <<attempt, released, faults, crashes>>
vars == <<pc, job, round, current, buffer, pushed, ckpt, acct, log, health, history,
          verdict, lastOutput, active, shutdown, task, rpc, attempt, released, faults, crashes>>

-----------------------------------------------------------------------------
(* Data *)

NoTask == [round |-> 0, base |-> 0]
NoRpc == [stage |-> "idle", round |-> 0, base |-> 0, buffer |-> 0]
NoBuffer == [id |-> 0, round |-> 0, open |-> FALSE, deltas |-> {}]
NoJob == [weights |-> 0, selected |-> {}, quorum |-> 0, reason |-> "none",
          batch |-> {}, passed |-> {}, unlogged |-> {}]
NewHealth == [state |-> "Starting", failures |-> 0, completed |-> 0, error |-> "none"]
NoCost == [total |-> 0, client |-> [c \in Clients |-> 0]]

\* InMemoryStore::new is seeded with the initial weights as round 0; a
\* networked store holds what was put in it, possibly nothing.
FirstStore == [r \in IF DurableStore /\ ~SeededStore THEN {} ELSE {0} |-> 0]

\* Mutation: the first checkpoint instead of the latest.
IsLatest_Earliest(r) == r \in DOMAIN ckpt /\ \A s \in DOMAIN ckpt : r <= s

\* load_latest_weights: the checkpoint of the highest round.
IsLatest(r) == r \in DOMAIN ckpt /\ \A s \in DOMAIN ckpt : s <= r

\* save_checkpoint: a networked store adds or replaces the round's entry;
\* InMemoryStore holds one entry and never trades it for an earlier round.
Saved(r, w) ==
  IF DurableStore
    THEN [s \in DOMAIN ckpt \cup {r} |-> IF s = r THEN w ELSE ckpt[s]]
    ELSE IF \A s \in DOMAIN ckpt : s <= r THEN [s \in {r} |-> w] ELSE ckpt

Delta == [slot : Nat, client : Clients, round : Nat, base : Nat, body : Bodies]

Job == [weights : Nat, selected : SUBSET Clients, quorum : Nat,
        reason : {"none", "Quorum", "Timeout"}, batch : SUBSET Delta,
        passed : SUBSET Delta, unlogged : SUBSET Delta]
Task == [round : Nat, base : Nat]
Call == [stage : {"idle", "fetching", "submitting"}, round : Nat, base : Nat, buffer : Nat]
\* ServerError's variants as RoundLoopHealth keeps them, "none" for no error.
Errors == {"none", "NoCheckpoint", "Store", "Registry", "PreconditionViolated", "MalformedWeights",
           "BudgetExhausted", "BudgetExhaustedForClient", "TrustedReferenceUnavailable",
           "EmptyBatch", "Aggregator"}
Health == [state : {"Starting", "Running", "Degraded", "Stopped"}, failures : Nat,
           completed : Nat, error : Errors]
Books == [total : Nat, client : [Clients -> Nat]]

LoopTypeOK ==
  /\ pc \in {"between", "load", "open", "announce", "collect", "sidecar", "aggregate",
             "save", "log", "logClients", "advance", "clear", "backoff", "exited"}
  /\ job \in Job
  /\ IsFiniteSet(job.batch) /\ IsFiniteSet(job.passed) /\ IsFiniteSet(job.unlogged)

AppTypeOK ==
  /\ round \in Nat /\ current \in Nat
  /\ buffer \in [id : Nat, round : Nat, open : BOOLEAN, deltas : SUBSET Delta]
  /\ IsFiniteSet(buffer.deltas)
  /\ pushed \in Task

BooksTypeOK ==
  /\ DOMAIN ckpt \subseteq Nat /\ \A r \in DOMAIN ckpt : ckpt[r] \in Nat
  /\ acct \in Books /\ log \in Books

StatusTypeOK ==
  /\ health \in Health
  /\ verdict \in {"none", "satisfied"}
  /\ active \subseteq Clients /\ shutdown \in BOOLEAN

NetTypeOK == task \in [Clients -> Task] /\ rpc \in [Clients -> Call]

CountTypeOK ==
  /\ lastOutput \in Nat /\ attempt \in Nat /\ released \in Nat
  /\ faults \in Nat /\ crashes \in Nat

TypeOK ==
  LoopTypeOK /\ AppTypeOK /\ BooksTypeOK /\ StatusTypeOK /\ NetTypeOK /\ CountTypeOK

Init ==
  /\ pc = "between" /\ job = NoJob
  /\ round = 1 /\ current = 0 /\ buffer = NoBuffer /\ pushed = NoTask
  /\ ckpt = FirstStore
  /\ acct = NoCost /\ log = NoCost
  /\ health = NewHealth /\ history = <<>> /\ verdict = "none"
  /\ lastOutput = 0
  /\ active = {} /\ shutdown = FALSE
  /\ task = [c \in Clients |-> NoTask] /\ rpc = [c \in Clients |-> NoRpc]
  /\ attempt = 0 /\ released = 0 /\ faults = 0 /\ crashes = 0

-----------------------------------------------------------------------------
(* How run_round ends, as serve's loop records it *)

Fault(point) ==
  /\ point \in FaultPoints
  /\ faults < MaxFaults
  /\ faults' = faults + 1

\* is_transient(): degraded, one more failure in the streak, back off.
Transient(error) ==
  /\ pc' = "backoff"
  /\ job' = NoJob
  /\ health' = [health EXCEPT
       !.state = "Degraded", !.error = error,
       !.failures = IF @ < FailureCap THEN @ + 1 ELSE @]

\* Anything else stops the loop for good.
Fatal(error) ==
  /\ pc' = "exited"
  /\ job' = NoJob
  /\ health' = [health EXCEPT !.state = "Stopped", !.error = error]

-----------------------------------------------------------------------------
(* The loop and run_round *)

StopCleanly ==
  /\ pc' = "exited"
  /\ health' = [health EXCEPT !.state = "Stopped", !.error = "none"]
  /\ job' = NoJob
  /\ UNCHANGED <<appVars, ckpt, acctVars, history, verdict, lastOutput, active, shutdown,
                 netVars, boundVars>>

\* Mutation: the latch is looked at after completed rounds only.
ExitOnShutdown_OnlyHealthy ==
  pc = "between" /\ shutdown /\ health.state = "Running" /\ StopCleanly

\* Mutation: shutdown cuts the wait for submissions short.
ExitOnShutdown_MidRound == pc \in {"between", "collect"} /\ shutdown /\ StopCleanly

\* The latch is looked at between rounds only.
ExitOnShutdown == pc = "between" /\ shutdown /\ StopCleanly

\* Mutation: a spent budget only stops a round that would overdraw twice.
Exhausted_OneLate(cost) == cost > Budget

\* budget_exhausted: the cumulative epsilon has reached the target.
Exhausted(cost) == cost >= Budget

\* run_round loads the round number and checks the experiment-wide budget.
BeginRound ==
  /\ pc = "between"
  /\ ~shutdown
  /\ attempt < MaxAttempts
  /\ LET spent == ~PerClientScope /\ Exhausted(acct.total)
     IN  \/ /\ spent /\ HaltOnExhausted
            /\ Fatal("BudgetExhausted")
         \/ /\ ~(spent /\ HaltOnExhausted)
            /\ pc' = "load"
            /\ UNCHANGED <<job, health>>
  /\ UNCHANGED <<appVars, ckpt, acctVars, history, verdict, lastOutput, active, shutdown, netVars,
                 boundVars>>

\* store.load_latest_weights().await?
LoadWeights ==
  /\ pc = "load"
  /\ \/ /\ \E r \in DOMAIN ckpt : IsLatest(r) /\ job' = [job EXCEPT !.weights = ckpt[r]]
        /\ pc' = "open"
        /\ UNCHANGED <<health, faults>>
     \/ /\ DOMAIN ckpt = {}
        /\ Transient("NoCheckpoint")
        /\ UNCHANGED faults
     \/ /\ Fault("load")
        /\ Transient("Store")
  /\ UNCHANGED <<appVars, ckpt, acctVars, history, verdict, lastOutput, active, shutdown, netVars,
                 attempt, released, crashes>>

\* check_batch_requirement records a verdict when there is a requirement.
VerdictAfter(n) == IF HasRequirement(n) /\ Covered(n) THEN "satisfied" ELSE verdict

SmallerOf(m, n) == IF m < n THEN m ELSE n

\* registry.active_clients().await?, then select, size the quorum, check the
\* requirement, and publish a fresh buffer.
OpenRound ==
  /\ pc = "open"
  /\ \/ /\ Fault("registry")
        /\ Transient("Registry")
        /\ UNCHANGED <<current, buffer, verdict, attempt>>
     \/ /\ \E selected \in SUBSET active :
             LET targetN == IF QuorumOverride # 0 THEN QuorumOverride
                                                  ELSE Cardinality(active)
                 quorum  == IF QuorumOverride # 0 THEN QuorumOverride
                                                  ELSE Cardinality(selected)
             IN  /\ Cardinality(selected) = SmallerOf(targetN, Cardinality(active))
                 /\ verdict' = VerdictAfter(quorum)
                 /\ \/ /\ ~Covered(quorum)
                       /\ Fatal("PreconditionViolated")
                       /\ UNCHANGED <<current, buffer, attempt>>
                    \/ /\ Covered(quorum)
                       /\ job' = [job EXCEPT !.selected = selected, !.quorum = quorum]
                       /\ attempt' = attempt + 1
                       /\ buffer' = [id |-> attempt + 1, round |-> round,
                                     open |-> TRUE, deltas |-> {}]
                       /\ current' = attempt + 1
                       /\ pc' = "announce"
                       /\ UNCHANGED health
        /\ UNCHANGED faults
  /\ UNCHANGED <<round, pushed, ckpt, acctVars, history, lastOutput, active, shutdown, netVars,
                 released, crashes>>

\* push_sender.send, once the buffer is in place.
AnnounceRound ==
  /\ pc = "announce"
  /\ pushed' = [round |-> round, base |-> job.weights]
  /\ pc' = "collect"
  /\ UNCHANGED <<job, round, current, buffer, ckpt, acctVars, statVars, lastOutput, active, shutdown,
                 netVars, boundVars>>

\* What survives decoding: a malformed payload fails the whole round, an
\* update with a NaN is left out.
Malformed(batch) == \E d \in batch : d.body = "malformed"
FiniteIds(batch) == {d.client : d \in {e \in batch : e.body = "finite"}}

\* Mutation: nobody is ever over budget.
OverBudget_Nobody(ids) == {}

\* filter_by_per_client_budget looks at nothing under the Global scope.
OverBudget(ids) == {c \in ids : PerClientScope /\ Exhausted(acct.client[c])}

\* Mutation: every update of a passing client keeps its own payload.
Reencoded_OwnPayload(batch, ids) == {d \in batch : d.client \in ids}

\* The decoded weights kept for a client: those of its last finite update.
LastFinite(batch, c) ==
  {d \in batch :
     /\ d.client = c /\ d.body = "finite"
     /\ \A e \in batch : e.client = c /\ e.body = "finite" => e.slot <= d.slot}

\* reencode_passing_deltas: every update of a passing client, a discarded
\* duplicate included, with the payload decoded for that client.
Reencoded(batch, ids) ==
  {[pair[1] EXCEPT !.base = pair[2].base, !.body = pair[2].body] :
     pair \in {dw \in batch \X batch : /\ dw[1].client \in ids
                                      /\ dw[2] \in LastFinite(batch, dw[1].client)}}

\* await_flush returns and the batch is checked and filtered, with no await
\* until the sidecar or the aggregator is called.
FlushRound ==
  /\ pc = "collect"
  /\ \E reason \in {"Quorum", "Timeout"} :
       LET batch == buffer.deltas
           n     == Cardinality(batch)
           ids   == FiniteIds(batch)
           over  == OverBudget(ids)
       IN  /\ reason = "Quorum" => n >= job.quorum
           /\ buffer' = [buffer EXCEPT !.open = FALSE, !.deltas = {}]
           /\ verdict' = VerdictAfter(n)
           /\ \/ /\ ~Covered(n)
                 /\ Fatal("PreconditionViolated")
              \/ /\ Covered(n) /\ Malformed(batch)
                 /\ Transient("MalformedWeights")
              \/ /\ Covered(n) /\ ~Malformed(batch)
                 /\ HaltOnExhausted /\ over # {}
                 /\ Fatal("BudgetExhaustedForClient")
              \/ /\ Covered(n) /\ ~Malformed(batch)
                 /\ ~(HaltOnExhausted /\ over # {})
                 /\ \E passing \in SUBSET (ids \ over) :
                      /\ ReputationOn \/ passing = ids \ over
                      /\ job' = [job EXCEPT !.reason = reason, !.batch = batch,
                                            !.passed = Reencoded(batch, passing)]
                 /\ pc' = IF UsesSidecar THEN "sidecar" ELSE "aggregate"
                 /\ UNCHANGED health
  /\ UNCHANGED <<round, current, pushed, ckpt, acctVars, history, lastOutput, active,
                 shutdown, netVars, boundVars>>

\* fetch_and_inject_trusted_reference / fetch_and_inject_candidate_scores.
AskSidecar ==
  /\ pc = "sidecar"
  /\ \/ pc' = "aggregate" /\ UNCHANGED <<job, health, faults>>
     \/ Fault("sidecar") /\ Transient("TrustedReferenceUnavailable")
  /\ UNCHANGED <<appVars, ckpt, acctVars, history, verdict, lastOutput, active,
                 shutdown, netVars, attempt, released, crashes>>

\* aggregator.aggregate(&filtered)?  A stateful method keeps its output as
\* the model it will difference the next batch against.
Aggregate ==
  /\ pc = "aggregate"
  /\ \/ /\ job.passed = {}
        /\ Transient("EmptyBatch")
        /\ UNCHANGED <<lastOutput, faults>>
     \/ /\ job.passed # {}
        /\ Fault("aggregate")
        /\ Transient("Aggregator")
        /\ UNCHANGED lastOutput
     \/ /\ job.passed # {}
        /\ lastOutput' = attempt
        /\ pc' = "save"
        /\ UNCHANGED <<job, health, faults>>
  /\ UNCHANGED <<appVars, ckpt, acctVars, history, verdict, active, shutdown,
                 netVars, attempt, released, crashes>>

\* The accountant with one more round, charged to every admitted update.
Charge(cost, passed) ==
  [total  |-> cost.total + 1,
   client |-> [c \in Clients |->
                 cost.client[c] + Cardinality({d \in passed : d.client = c})]]

\* Mutation: the cost is recorded only once the log has taken it.
SaveCheckpoint_ChargesLater ==
  /\ pc = "save"
  /\ ckpt' = Saved(round, attempt)
  /\ released' = released + 1
  /\ pc' = IF LogEnabled THEN "log" ELSE "advance"
  /\ job' = [job EXCEPT !.unlogged = job.passed]
  /\ UNCHANGED <<appVars, acctVars, statVars, lastOutput, active, shutdown, netVars,
                 attempt, faults, crashes>>

\* store.save_checkpoint(..).await?, and with no await in between the
\* in-memory half of record_round_privacy_cost.  A failed save may have
\* reached the database before the error came back ("saveLost").
SaveCheckpoint ==
  /\ pc = "save"
  /\ \/ /\ ckpt' = Saved(round, attempt)
        /\ released' = released + 1
        /\ acct' = Charge(acct, job.passed)
        /\ job' = [job EXCEPT !.unlogged = job.passed]
        /\ pc' = IF LogEnabled THEN "log" ELSE "advance"
        /\ UNCHANGED <<health, faults>>
     \/ /\ Fault("save")
        /\ Transient("Store")
        /\ UNCHANGED <<ckpt, released, acct>>
     \/ /\ Fault("saveLost")
        /\ Transient("Store")
        /\ ckpt' = Saved(round, attempt)
        /\ released' = released + 1
        /\ UNCHANGED acct
  /\ UNCHANGED <<appVars, log, history, verdict, lastOutput, active, shutdown, netVars,
                 attempt, crashes>>

\* accountant_log.append_round(..).await?  A failed append may have been
\* applied before its answer was lost.
LogRound ==
  /\ pc = "log"
  /\ \/ /\ log' = [log EXCEPT !.total = @ + 1]
        /\ pc' = IF job.unlogged = {} THEN "advance" ELSE "logClients"
        /\ UNCHANGED <<job, health, faults>>
     \/ /\ Fault("log")
        /\ Transient("Store")
        /\ log' \in {log, [log EXCEPT !.total = @ + 1]}
  /\ UNCHANGED <<appVars, ckpt, acct, history, verdict, lastOutput, active, shutdown,
                 netVars, attempt, released, crashes>>

\* accountant_log.append_round_for_client(..).await? for one admitted update.
LogClient ==
  /\ pc = "logClients"
  /\ \/ \E d \in job.unlogged :
          /\ log' = [log EXCEPT !.client[d.client] = @ + 1]
          /\ job' = [job EXCEPT !.unlogged = @ \ {d}]
          /\ pc' = IF job.unlogged = {d} THEN "advance" ELSE "logClients"
          /\ UNCHANGED <<health, faults>>
     \/ /\ Fault("log")
        /\ Transient("Store")
        /\ log' \in {log} \cup {[log EXCEPT !.client[d.client] = @ + 1] : d \in job.unlogged}
  /\ UNCHANGED <<appVars, ckpt, acct, history, verdict, lastOutput, active, shutdown,
                 netVars, attempt, released, crashes>>

\* round.store(round + 1)
AdvanceRound ==
  /\ pc = "advance"
  /\ round' = round + 1
  /\ pc' = "clear"
  /\ UNCHANGED <<job, current, buffer, pushed, ckpt, acctVars, statVars, lastOutput,
                 active, shutdown, netVars, boundVars>>

\* Mutation: a full history stops recording.
Recorded_KeepsOldest(record) ==
  IF Len(history) >= HistoryLen THEN history ELSE Append(history, record)

\* RoundHistory::record keeps the last HistoryLen rounds.
Recorded(record) ==
  LET longer == Append(history, record)
  IN  IF HistoryLen = 0 THEN history
      ELSE IF Len(history) = HistoryLen THEN Tail(longer) ELSE longer

\* The buffer slot is emptied, the round recorded and reported complete.
ClearRound ==
  /\ pc = "clear"
  /\ current' = 0
  /\ history' = Recorded([round |-> round - 1, reason |-> job.reason,
                          submitted |-> Cardinality(job.batch),
                          passed |-> Cardinality(job.passed), cited |-> verdict])
  /\ health' = [state |-> "Running", failures |-> 0, completed |-> round - 1,
                error |-> "none"]
  /\ pc' = "between"
  /\ job' = NoJob
  /\ UNCHANGED <<round, buffer, pushed, ckpt, acctVars, verdict, lastOutput, active,
                 shutdown, netVars, boundVars>>

\* Mutation: a failed attempt gives its round up and moves on.
BackoffEnds_SkipsRound ==
  /\ pc = "backoff"
  /\ pc' = "between"
  /\ round' = round + 1
  /\ UNCHANGED <<job, current, buffer, pushed, ckpt, acctVars, statVars, lastOutput,
                 active, shutdown, netVars, boundVars>>

\* The back-off sleep ends, or shutdown cuts it short.
BackoffEnds ==
  /\ pc = "backoff"
  /\ pc' = "between"
  /\ UNCHANGED <<job, appVars, ckpt, acctVars, statVars, lastOutput, active, shutdown,
                 netVars, boundVars>>

RunRound ==
  \/ BeginRound \/ LoadWeights \/ OpenRound \/ AnnounceRound \/ FlushRound
  \/ AskSidecar \/ Aggregate \/ SaveCheckpoint \/ LogRound \/ LogClient
  \/ AdvanceRound \/ ClearRound

Loop == ExitOnShutdown \/ RunRound \/ BackoffEnds

-----------------------------------------------------------------------------
(* The RPC handlers of AppState *)

serverSide == <<pc, job, round, current, pushed, ckpt, acct, log, health, history,
                verdict, lastOutput, shutdown, attempt, released, faults, crashes>>

\* register: the client is in the registry from now on.
Register(c) ==
  /\ c \notin active
  /\ active' = active \cup {c}
  /\ UNCHANGED <<serverSide, buffer, netVars>>

\* fetch_task reads the round counter ...
FetchTaskRound(c) ==
  /\ rpc[c].stage = "idle"
  /\ rpc' = [rpc EXCEPT ![c] = [NoRpc EXCEPT !.stage = "fetching", !.round = round]]
  /\ UNCHANGED <<serverSide, buffer, active, task>>

\* ... and then awaits the store, which answers with its latest model.
FetchTaskWeights(c) ==
  /\ rpc[c].stage = "fetching"
  /\ \/ DOMAIN ckpt = {} /\ UNCHANGED task
     \/ \E r \in DOMAIN ckpt :
          /\ IsLatest(r)
          /\ task' = [task EXCEPT ![c] = [round |-> rpc[c].round, base |-> ckpt[r]]]
  /\ rpc' = [rpc EXCEPT ![c] = NoRpc]
  /\ UNCHANGED <<serverSide, buffer, active>>

\* A push subscriber receives the announced task.
ReceivePushed(c) ==
  /\ pushed # NoTask
  /\ task[c] # pushed
  /\ task' = [task EXCEPT ![c] = pushed]
  /\ UNCHANGED <<serverSide, buffer, active, rpc>>

\* submit_delta clones the current buffer's Arc; None is refused at once.
SubmitClone(c) ==
  /\ rpc[c].stage = "idle"
  /\ task[c] # NoTask
  /\ current # 0
  /\ rpc' = [rpc EXCEPT ![c] = [stage |-> "submitting", round |-> task[c].round,
                                base |-> task[c].base, buffer |-> current]]
  /\ UNCHANGED <<serverSide, buffer, active, task>>

\* Mutation: the buffer takes whatever round the update claims.
Accepts_AnyRound(call) == call.buffer = buffer.id /\ buffer.open

\* RoundBuffer::push on the cloned Arc: the right round, in an open buffer.
Accepts(call) ==
  /\ call.buffer = buffer.id
  /\ call.round = buffer.round
  /\ buffer.open

SubmitPush(c) ==
  /\ rpc[c].stage = "submitting"
  /\ rpc' = [rpc EXCEPT ![c] = NoRpc]
  /\ IF Accepts(rpc[c])
       THEN /\ Cardinality(buffer.deltas) < MaxDeltas
            /\ \E body \in Bodies :
                 buffer' = [buffer EXCEPT !.deltas = @ \cup
                   {[slot |-> Cardinality(@), client |-> c, round |-> rpc[c].round,
                     base |-> rpc[c].base, body |-> body]}]
       ELSE UNCHANGED buffer
  /\ UNCHANGED <<serverSide, active, task>>

Handlers ==
  \E c \in Clients :
    \/ Register(c) \/ FetchTaskRound(c) \/ FetchTaskWeights(c) \/ ReceivePushed(c)
    \/ SubmitClone(c) \/ SubmitPush(c)

-----------------------------------------------------------------------------
(* The process *)

RequestShutdown ==
  /\ OperatorStops /\ ~shutdown
  /\ shutdown' = TRUE
  /\ UNCHANGED <<pc, job, appVars, ckpt, acctVars, statVars, lastOutput, active, netVars,
                 boundVars>>

\* Mutation: the new process starts with an empty accountant.
Replayed_Nothing == NoCost

\* connect_accounting: the accountant a new process starts with.
Replayed == IF LogEnabled THEN log ELSE NoCost

\* The process dies and a new one starts: AppState::connect and assemble.
\* Round counting starts at 1; the accountant replays the durable log.
CrashRestart ==
  /\ crashes < MaxCrashes
  /\ crashes' = crashes + 1
  /\ pc' = "between" /\ job' = NoJob
  /\ round' = 1 /\ current' = 0
  /\ buffer' = [buffer EXCEPT !.open = FALSE, !.deltas = {}]
  /\ pushed' = NoTask
  /\ ckpt' = IF DurableStore THEN ckpt ELSE FirstStore
  /\ acct' = Replayed
  /\ health' = NewHealth /\ history' = <<>> /\ verdict' = "none" /\ lastOutput' = 0
  /\ active' = IF DurableRegistry THEN active ELSE {}
  /\ shutdown' = FALSE
  /\ rpc' = [c \in Clients |-> NoRpc]
  /\ UNCHANGED <<log, task, attempt, released, faults>>

Next == Loop \/ Handlers \/ RequestShutdown \/ CrashRestart

Spec == Init /\ [][Next]_vars

\* The loop's task keeps being scheduled, its timers fire, its awaits return.
FairSpec == Spec /\ WF_vars(Loop)
=============================================================================
