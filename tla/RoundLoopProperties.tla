------------------------- MODULE RoundLoopProperties -------------------------
(***************************************************************************)
(* What the round loop and its handlers guarantee, the inductive           *)
(* invariants those guarantees follow from, and what the repository's own  *)
(* comments say that the code does not always do.                          *)
(***************************************************************************)
EXTENDS RoundLoop

-----------------------------------------------------------------------------
(* What holds of every execution *)

\* The counter moves past a round only once that round's checkpoint is in the
\* store: whatever fetch_task pairs with round r descends from round r - 1
\* (AppState.round, run_round's save before its store).
StoreKeepsPace == round > 1 => \E r \in DOMAIN ckpt : r + 1 >= round

\* While submissions are open the slot holds this attempt's buffer, for the
\* round the counter shows, and everything in it was submitted for that round,
\* whichever buffer or task the submitter had looked at (run_round publishes
\* the buffer, submit_delta clones it, push checks it).
AcceptedForCurrentRound ==
  /\ buffer.open => /\ pc \in {"announce", "collect"}
                    /\ current = buffer.id
                    /\ buffer.round = round
  /\ \A d \in buffer.deltas : d.round = round
  /\ pc \in {"sidecar", "aggregate", "save"} => \A d \in job.batch : d.round = round

\* With no restart and no failure after a checkpoint was written, every update
\* that reaches the aggregator was trained from the model this attempt loaded:
\* fetch_task reads the round before the weights, and the checkpoint is
\* written before the round advances.
TrainedFromThisRoundsModel ==
  pc \in {"sidecar", "aggregate", "save"} => \A d \in job.passed : d.base = job.weights

\* Nothing that holds a NaN reaches the aggregator, not even as the second
\* submission of a client whose other one is sound (decode_flushed_deltas and
\* reencode_passing_deltas).
OnlyFiniteAggregated == \A d \in job.passed : d.body = "finite"

\* Round history shows consecutive rounds, never more than configured, and
\* between rounds ends with the round just completed.
HistoryContiguous ==
  /\ Len(history) <= HistoryLen
  /\ \A i \in 1 .. Len(history) - 1 : history[i + 1].round = history[i].round + 1
  /\ pc = "between" /\ HistoryLen > 0 /\ round > 1 =>
       history # <<>> /\ history[Len(history)].round = round - 1

\* The verdict recorded with a completed round is the one for the batch that
\* round flushed, not one left over from when it opened.
HistoryVerdictHonest ==
  \A i \in 1 .. Len(history) :
    (history[i].cited = "satisfied") =
      (HasRequirement(history[i].submitted) /\ history[i].submitted >= RequiredAt(history[i].submitted))

\* A loop that stopped on request left no submission behind in an open buffer
\* and no checkpoint without its accounting entry (serve checks the latch
\* between rounds, never during one).
GracefulExitIsClean ==
  pc = "exited" /\ health.error = "none" =>
    /\ ~buffer.open /\ buffer.deltas = {}
    /\ faults = 0 /\ crashes = 0 => acct.total = released

\* A model is released without its privacy cost being on the books only if a
\* crash or a backend failure came between: restarts replay the log.
UnchargedOnlyByFailure ==
  LogEnabled => released <= acct.total + crashes + faults

\* Under a halting experiment-wide budget no more models are released than
\* the budget pays for, one more at most for each crash or backend failure.
BudgetNotOverrun ==
  ~PerClientScope /\ HaltOnExhausted /\ (LogEnabled \/ crashes = 0) =>
    released <= Budget + crashes + faults

\* What the durable log holds, this process's accountant holds too, for the
\* experiment and for every client: the log never runs ahead of the books.
LogNeverAhead ==
  LogEnabled => /\ log.total <= acct.total
                /\ \A c \in Clients : log.client[c] <= acct.client[c]

\* Under per-client accounting a client at its budget is charged no more:
\* no later round of this process admits an update of its.
SpentClientStaysOut ==
  [][\A c \in Clients :
       PerClientScope /\ Exhausted(acct.client[c]) /\ crashes' = crashes =>
         acct'.client[c] = acct.client[c]]_vars

\* As long as nothing failed, a stateful aggregator differences the batch
\* against the model this round dispatched: its own last output is what the
\* store handed back (FedOptAggregator keeps x_t itself, run_round reloads it).
AnchorIsDispatchedModel ==
  pc = "aggregate" /\ lastOutput # 0 /\ faults = 0 /\ crashes = 0 => lastOutput = job.weights

\* Once shutdown is requested the loop exits (or the process dies first),
\* whatever it was doing: collecting, retrying or backing off.
ShutdownStops == shutdown ~> (pc = "exited" \/ ~shutdown)

-----------------------------------------------------------------------------
(* The inductive invariants behind them *)

Collecting == {"announce", "collect"}
Flushed == {"sidecar", "aggregate", "save"}
\* The round's checkpoint is written, the counter does not show it yet.
Written == {"log", "logClients", "advance"}

\* The buffer is open exactly while its attempt collects, and what it holds,
\* or has handed over, is for the counter's round.
BatchInv ==
  /\ buffer.open <=> pc \in Collecting
  /\ buffer.open => current = buffer.id /\ buffer.round = round
  /\ ~buffer.open => buffer.deltas = {}
  /\ \A d \in buffer.deltas : d.round = round
  /\ pc \in Flushed => \A d \in job.batch : d.round = round

\* The store has caught up with the counter, with the round in progress once
\* its checkpoint is written; the in-memory store holds one checkpoint.
StoreInv ==
  /\ round >= 1
  /\ ~DurableStore => \E r \in DOMAIN ckpt : DOMAIN ckpt = {r}
  /\ StoreKeepsPace
  /\ pc \in Written => \E r \in DOMAIN ckpt : r >= round

\* One released model may be waiting for its log entry; every other one is in
\* the log or excused by a crash or a failure.  A halting budget is not spent
\* while a round that passed its check is under way.
Pending == IF pc = "log" THEN 1 ELSE 0
CostInv ==
  /\ LogEnabled => /\ released <= log.total + crashes + faults + Pending
                   /\ log.total + Pending <= acct.total
  /\ ~LogEnabled => pc # "log"
  /\ LogEnabled \/ crashes = 0 => released <= acct.total + crashes + faults
  /\ /\ ~PerClientScope /\ HaltOnExhausted
     /\ pc \in {"load", "open"} \cup Collecting \cup Flushed
     => acct.total < Budget
  /\ BudgetNotOverrun

\* Without restarts and without failures behind a checkpoint, a task, a call
\* or an update for the counter's round carries the store's latest model
\* until the round writes its own.
NoLateFailure == MaxCrashes = 0 /\ FaultPoints \cap {"log", "saveLost"} = {}
\* The store's latest model is the last round's, or this one's once written.
StoreLatest ==
  /\ DOMAIN ckpt = {} \/ IsLatest(IF pc \in Written THEN round ELSE round - 1)
  /\ DOMAIN ckpt = {} => pc \notin Collecting \cup Flushed \cup Written \cup {"open"}
WeightsCurrent == pc \in {"open"} \cup Collecting \cup Flushed => job.weights = ckpt[round - 1]
NoRoundAhead ==
  /\ pushed.round <= round
  /\ \A c \in Clients : rpc[c].round <= round /\ task[c].round <= round
OnLatest(r, base) == r = round => DOMAIN ckpt # {} /\ base = ckpt[round - 1]
TasksCurrent ==
  pc \notin Written =>
    /\ OnLatest(pushed.round, pushed.base)
    /\ \A c \in Clients :
         /\ OnLatest(task[c].round, task[c].base)
         /\ rpc[c].stage = "submitting" => OnLatest(rpc[c].round, rpc[c].base)
DeltasCurrent == \A d \in buffer.deltas : d.base = ckpt[round - 1]
ModelInv ==
  /\ StoreLatest /\ WeightsCurrent /\ NoRoundAhead /\ TasksCurrent /\ DeltasCurrent
  /\ TrainedFromThisRoundsModel

\* What the fleet sees of the loop.
PhaseOf ==
  IF pc = "exited" THEN "stopped"
  ELSE IF buffer.open THEN "open"
  ELSE IF pc \in Flushed \cup Written THEN "working" ELSE "between"

Service == INSTANCE RoundService WITH phase <- PhaseOf

\* The loop, its handlers and the process implement RoundService: a buffer
\* takes updates only while its round is open, and the counter moves only
\* when a round that was open completes, or with a new process.
ImplementsRoundService == Service!Spec

\* What awaits aggregation is finite and, under per-client accounting, comes
\* from clients that are still within their budget.
AdmittedInv ==
  /\ OnlyFiniteAggregated
  /\ PerClientScope /\ pc \in Flushed =>
       \A d \in job.passed : ~Exhausted(acct.client[d.client])

\* The last round of this process that completed and was recorded.
LastRecorded == IF pc = "clear" THEN round - 2 ELSE round - 1
Record == [round : Nat, reason : {"none", "Quorum", "Timeout"}, submitted : Nat, passed : Nat,
           cited : {"none", "satisfied"}]

\* The history ends with the last recorded round, and goes back from there.
HistoryInv ==
  /\ history \in Seq(Record)
  /\ Len(history) <= HistoryLen
  /\ \A i \in 1 .. Len(history) - 1 : history[i + 1].round = history[i].round + 1
  /\ history # <<>> => history[Len(history)].round = LastRecorded
  /\ HistoryLen > 0 /\ LastRecorded >= 1 => history # <<>>
  /\ pc = "clear" => round >= 2
  /\ HistoryVerdictHonest

\* From the flush on the verdict is the flushed batch's; a batch of which
\* something is saved is not empty.
VerdictInv ==
  /\ Method \notin {"krum", "multi_krum", "bulyan", "trimmed_mean"} => verdict = "none"
  /\ pc \in Flushed \cup Written \cup {"clear"} =>
       /\ Covered(Cardinality(job.batch))
       /\ HasRequirement(Cardinality(job.batch)) => verdict = "satisfied"
       /\ job.passed # {} => job.batch # {}
  /\ pc \in {"save", "clear"} \cup Written => job.passed # {}

\* With nothing failed, what is released is charged in the same step.
BalanceInv == faults = 0 /\ crashes = 0 => acct.total = released

\* What the log still lacks of a round, this process has already charged.
ClientLogInv ==
  LogEnabled => \A c \in Clients :
    log.client[c] + Cardinality({d \in job.unlogged : d.client = c}) <= acct.client[c]

\* With nothing failed, the aggregator's last output is the store's latest
\* model, but for the moment between the two.
LastWritten == IF pc \in Written THEN round ELSE round - 1
AnchorInv ==
  faults = 0 /\ crashes = 0 =>
    /\ \A r \in DOMAIN ckpt : r <= LastWritten
    /\ pc = "save" => lastOutput = attempt
    /\ lastOutput # 0 /\ pc # "save" =>
         LastWritten \in DOMAIN ckpt /\ ckpt[LastWritten] = lastOutput
    /\ lastOutput # 0 /\ pc \in Collecting \cup {"open", "sidecar", "aggregate"} =>
         job.weights = lastOutput

StatusInv == HistoryInv /\ VerdictInv /\ BalanceInv /\ ClientLogInv /\ AnchorInv

LoopInv == TypeOK /\ BatchInv /\ StoreInv /\ CostInv

-----------------------------------------------------------------------------
(* What the repository says and the code does not always do *)

\* conflux-store's README: production refuses the in-memory store because
\* "losing a round's model to a restart is not a trade-off"; with a durable
\* store, the model a round just produced is the one served next.
LatestIsNewest == pc = "clear" => \E r \in DOMAIN ckpt : IsLatest(r) /\ ckpt[r] = attempt
=============================================================================
