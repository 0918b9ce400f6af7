# Conflux: TLA+ models, checks and proofs

Conflux is a federated-learning framework in Rust. A server runs *rounds*: it
loads the latest model, selects clients, collects the updates they train,
filters and aggregates them, checkpoints the result, charges the privacy
accountant and moves its round counter on. Clients fetch the model, train and
submit through a *node*, which adds local privacy and retries; the server's RPC
handlers run concurrently with the round.

This directory holds TLA+ modules translated from that code, the TLC
configurations that check them on small instances, and proofs checked by TLAPS.
`PROJECT.json` lists the runs, what every definition corresponds to in the
source, the mutations each property is shown to notice, the hazards the
properties are aimed at, and the theorems.

## 1. Inventory

| Part | State it keeps | Operations | Correct when |
|---|---|---|---|
| `conflux-buffer` `RoundBuffer` | `Open(Vec)` / `Closed` behind a mutex, a `Notify` | `push`, `await_flush` | an accepted update is in the batch handed out exactly once; a full batch is noticed; closing is final |
| `conflux-server` `run_round` and `serve`'s loop | its locals; it drives everything below | one round; retry, back off or stop | the batch belongs to the round and to the model it runs on; the checkpoint precedes the counter; failure leaves a state a retry can work from |
| `AppState`, start-up | `round`, `current_buffer`, `push_sender`, accountant, history, verdict, health | `serve`'s checks, `connect`, `assemble` | production's promises hold in every server that listens; a restart continues from what the back-ends kept |
| dispatcher (RPC handlers) | none of their own; they read and write `AppState` | `fetch_task`, `subscribe_tasks`, `submit_delta`, `register`, `heartbeat` | whatever they read before an await is still safe to use after it |
| `conflux-store` | checkpoints by round; the privacy round log | `load_latest_weights`, `load_checkpoint`, `save_checkpoint`, `append_round` | a load answers with a whole checkpoint the store held; the log replays what was charged |
| `conflux-privacy` | recorded rounds, per experiment and per client | `record_round`, `budget_exhausted`; a node's clipping and noise | no more models are released than the budget pays for |
| round history, verdict, health | last rounds, last verdict, loop state | `record`, `record_success`, `transient_failure`, `stopped` | operators see what happened |
| `conflux-config` | resolved configuration with the source of each value | profile chains, six tiers, `validate`, `batch_requirement` | the nearest tier wins and is named; a robust method only runs where its citation holds; advice is right |
| `conflux-selector`, `conflux-reputation` | none | `select`, `filter_by_threshold` | pure functions of their inputs |
| `conflux-core` | last output, moments, histories, variates of stateful methods | `aggregate` of twenty methods | a tolerated minority cannot steer a robust method; a refused batch changes nothing |
| `conflux-registry` | registered clients, heartbeats; allow-list | `register`, `heartbeat`, `evict_expired`, allow and revoke | who is vouched for gets in, who checks in stays |
| `conflux-client`, Python client | last round done, task in hand | fetch, train, submit, ask, resubmit | what they count was taken; the server's rounds get their update |
| `conflux-net`, `conflux-node` | streams, attempts, relay queue | chunking, size limit, three attempts, push relay | an update arrives whole and under one draw of noise; a stream that never works is reported |
| `conflux-trusted-reference` | the sidecar's model | `describe`, `reference_update`, `score_updates` | the reference is for this round's model |
| `conflux-federation` | its tasks or child processes | start one server, N nodes, N clients; wait; stop them | it returns, says what happened, and leaves nothing running |
| server front end (HTTP, admin, environment), `cflux` | none | `doctor`, admin routes, `fed run` | the doctor agrees with the server, but for how it reaches a back-end |
| `conflux-proto`, `conflux-attacks`, `conflux-baselines` | none at run time | encoding, experiments | not part of the protocol |

How they interact: the round loop and the handlers are separate tokio tasks that
share `AppState`. The loop publishes a buffer in `current_buffer` and a task on
the broadcast channel, then sleeps in `await_flush`; handlers push into the
buffer they find there. `fetch_task` reads the counter and then awaits the
store, the loop writes the store and then the counter. The accountant lives in
memory and, when configured, in a Postgres log that a new process replays. A
client talks to its node, the node to the server; the node's retries and the
client's resubmissions multiply. `conflux-federation` starts all of this on one
machine, as tasks or as processes, and has to stop it.

What is hard: pushes racing the flush; handlers holding a round number, a buffer
or a task across an await; a round that fails after it wrote its checkpoint and
is retried under the same number; lost answers; a crash between any two of
checkpoint, accountant, log and counter; duplicate submissions; an allow-list
edited while a registration waits; a listing that is paged while it changes;
deadlines that strike between two polls; shutdown during any of this.
`PROJECT.json` lists these as hazards, each at its line.

## 2. Modules

| Module | Models | Role |
|---|---|---|
| `RoundBatch` | the contract in `conflux-buffer`'s module comment | abstract specification |
| `RoundBuffer` | `RoundBuffer::push`, `await_flush` | implementation, at lock and permit grain |
| `RoundBuffer_proofs` | | invariants and the refinement, for every instance |
| `RoundService` | what the loop promises the fleet: a number, open or not | abstract specification |
| `RoundLoop` | `run_round`, `serve`'s loop, the RPC handlers, accountant and log, history, verdict, health, crash and restart | the core |
| `RoundLoopProperties` | | what the core guarantees, and its inductive invariants |
| `RoundLoop_proofs` | | theorems about the core, `LoopImplementsService` among them; history, verdict, shutdown, log and anchor |
| `Preconditions` | `conflux_config::preconditions` | operators |
| `Parameters`, `Configuration` | strategies, keys, profile chains, the survey, six tiers, `validate` | from files and environment to a configuration |
| `Startup` | `serve` from validation to listening, `cflux doctor`, an operator following the quorum advice | extends `Configuration`; theorems in `Startup_proofs` |
| `Wire` | `build_chunks`, `_chunks`, `apply_local_privacy`, size limit, reassembly | operators |
| `Federation` | Rust and Python client loops, node bridge and relay, the three tasks of `serve` | clients and nodes composed with `RoundService`; theorems in `Federation_proofs` |
| `Rational`, `UpdateBatch`, `RobustStatistics` | exact fractions; validation of a batch; filters and statistics | operators |
| `Aggregators`, `AggregatorProperties` | the twenty methods with their memory | theorems in `Aggregator_proofs` |
| `CheckpointStore` | the four stores | theorems in `CheckpointStore_proofs` |
| `Admission` | `register`, `heartbeat`, eviction, allow-list, in memory and in Redis | theorems in `Admission_proofs` |
| `TaskHarness`, `Supervisor`, `LocalFederation` | `conflux-federation`'s two tiers; `fed run`'s choice between them | theorems in `LocalFederation_proofs` |
| `MC*` | | the small instances |

**RoundBuffer.** `pushPc` and `flushPc` say where each call is. `push` takes the
mutex once (`PushLocked`) and notifies after releasing it (`PushNotify`);
`await_flush` takes it in `CloseIfQuorumMet` and again in `CheckDeadline`. The
`Notify` is one stored permit plus the parked waiter. The clock is one Boolean
that turns true at any time after the call. `RoundLoop` uses the buffer through
the contract only: a batch that accepts until it is sealed, on quorum or at any
time on timeout.

**RoundLoop.** `pc` is where the loop is; there is one action for each stretch of
`run_round` between two awaits or two publications:

| Action | Code |
|---|---|
| `ExitOnShutdown`, `BackoffEnds` | the latch check at the top of the loop; the back-off `select!` |
| `BeginRound` | counter read, `check_privacy_budget` |
| `LoadWeights` | `load_latest_weights().await?` |
| `OpenRound` | `active_clients().await?`, `select`, `quorum`, `check_batch_requirement`, new buffer in the slot |
| `AnnounceRound` | `push_sender.send` |
| `FlushRound` | `await_flush`, second requirement check, sort, decode, per-client budget, reputation, re-encode |
| `AskSidecar`, `Aggregate` | sidecar calls; `aggregate` with the memory of stateful methods |
| `SaveCheckpoint` | `save_checkpoint().await?` and the in-memory charge that follows without an await |
| `LogRound`, `LogClient` | the appends of `record_round_privacy_cost`, one await each |
| `AdvanceRound`, `ClearRound` | counter store; slot cleared, history, `record_success` |
| `Register`, `FetchTaskRound`, `FetchTaskWeights`, `ReceivePushed`, `SubmitClone`, `SubmitPush` | the handlers, split at their awaits |
| `RequestShutdown`, `CrashRestart` | the watch latch; the process dies and `AppState::connect` runs again |

Errors follow `is_transient`: `Transient` degrades and backs off, `Fatal` stops.
A back-end may fail at any await named in `FaultPoints`; a failed save or append
may have been applied before its answer was lost. Constants choose the
configuration: aggregation method and fraction, quorum, accounting scope, action
on exhaustion, and which back-ends are durable.

What is abstracted: a model is the number of the attempt that produced it; an
update is its sender, round, base model, arrival slot and whether its payload is
finite, holds a NaN or is malformed; a round costs one unit of budget; who passes
the reputation filter and who is selected is any set the code could produce; the
order of log appends for clients is any order. Sorting the batch by client id
does not show, because a batch is a set whose members keep their arrival slot.
Server-side noise, formatting and logging are left out.

**Preconditions** uses an exact fraction where the code multiplies an `f32`; for
sixteenths and the sizes checked the product is exact in both, and for the default
of one fifth the floor is the same. A fraction outside [0, 1] states no requirement, and
`validate` reports the fraction instead.

**Configuration and Startup.** `stage` walks through the start of a server in the
code's order: topology and mode profiles with their chains of `inherits` (a
missing, malformed or cyclic file stops it; an unselected profile is surveyed and
only reported), the experiment file, the environment, folding the six tiers,
`validate` with all its errors collected, then TLS material, token key,
back-ends, connection, sidecar, ports, admin binding and the TLS listener. A key
takes the few values its checks tell apart; `deploy` is the material found on the
machine. `deploy.connects` is which back-ends answer the server and `deploy.probed`
which ones the doctor's probe finds. The two are independent: the probe reads addresses
in its own way (no unix socket, no `key=value` form, 443 where an S3 endpoint states no
port), has its own limit of 3 s, and checks no credentials. `Unreachable` is what `AppState::connect`
notices of the first (S3 never reports that it failed), `Unprobed` what the doctor makes
of the second. `DoctorFails` is what `cflux doctor` reports for the same input. An
operator whose quorum is refused may set the advised one and start again.

**Wire and Federation.** A payload is a sequence of weights; a chunk is cut
between weights; noise is one draw added to every weight, so that two draws
differ. A member of the fleet is a client application and its node: `client`
holds where `run` is (waiting, training, submitting, asking whether the round is
still open), `node` the attempt it is at and the noise it drew, `relay` the push
stream, its failure count, the broadcast backlog (which drops its oldest when
full) and the local queue. Requests and answers may be lost, which the node
answers by retrying up to three times. The server side is `RoundService` plus the
buffer and the tasks `serve` joins: rounds, gRPC and HTTP.

**Aggregators.** A vector has equal coordinates, so it is its dimension and one
exact fraction, which stands for an overflow once it is beyond `FMax`; a squared
distance is then the dimension times a square and every comparison a filter makes is exact.
Each action is one `aggregate` call with its validation, result and new memory.
Weiszfeld's iteration, square roots in adaptive optimizers and the forecast of
FLANDERS are choices among values the computation is bounded by.

**CheckpointStore** has one step for each SQL statement, S3 request or file
operation. A file is torn while it is written and whole when the write returns;
a listing is read a page at a time in key order. `right` collects, while a load
is under way, the answers that were true at some moment of it.

**Admission** splits an RPC at its awaits and sends a Redis command with the clock
the server read beforehand; it may fail before or after Redis applied it. A token is
taken until `Leeway` past its expiry, which `Validation::new` leaves at the library's 60 s.

**TaskHarness and Supervisor.** Only the harness's own control is modelled; a
participant may end well or badly, stay, or refuse to stop, at any time. Each
poll (of `/health`, of a child, of a file, of the clock) is a step of its own.
`/health` answers 200 while the round loop is alive and 503 once it gave up, and only
200 makes the server ready (`ServerVerdict`, `HealthRefuses`). `completed` counts the
rounds the server acknowledged, after which a client returns; `attempts` counts those
it wrote off too, and is what a stall looks at (`Unfinished`).
The task tier aborts what outlives its grace period; the process tier kills what
its `Children` guard holds.

## 3. Runs

Every run finishes within two minutes. `CHECK_DEADLOCK FALSE` everywhere, because
each of these systems may stop: `await_flush` returns once, the loop exits for
good, a start ends, a federation is over, a bound is reached.

| Run | Instance | Shows |
|---|---|---|
| `buffer` | 4 pushes of the right round, 1 of the previous, quorum 2 | exactly-once, no lost wakeup, refinement of `RoundBatch`; quorum alone and deadline alone each end the wait |
| `loop` | 2 clients, 2 attempts, 2 updates per buffer, in-memory, failing aggregate | the batch is for the counter's round and trained from the model the round loaded; the loop implements `RoundService` |
| `loop_durable` | 1 client, 3 attempts, durable everything, budget 2, 2 faults at any await, 1 crash anywhere | store, books and log against released models; a stateful aggregator's anchor |
| `loop_batch` | 1 client, up to 3 updates of every kind, trimmed mean at 1/2, per-client budget 3, reputation, sidecar failure, shutdown, history of 2 | what is admitted, what history says, shutdown |
| `startup` | profile directories × files × environments; every deployment that differs in one or two entries; 5 methods × fractions in sixteenths, two of them above 1 × quorums 0 to 12 | provenance, production's promises, doctor against server, survey against loader, advice, every start ends |
| `aggregation` | stateless methods: one round of every batch of five updates over a few values; stateful ones: three rounds over chosen pairs, each kind of refusal among them; a variate's damping over a population of two, so that its sum can overflow | a covered minority cannot steer; a refused batch leaves no trace; SCAFFOLD's variate is the sum of those accepted |
| `federation` | each kind of member alone with 3 troubles, Rust and Python side by side with none; 2 rounds; three weights in chunks of two | what a client counts was taken; copies are the same bytes; rounds advance; a flapping stream is reported; shutdown completes |
| `backends` | stores: rounds 9 to 11, pages of 2 keys, 1 crash; registry: 1 client, TTL 2, leeway 1, clock to 3, 2 edits, 1 restart | a load answers with what the store held; only the vouched-for are admitted; a live client is kept |
| `local_federation` | 2 participants, 1 round, 1 observer attached to any participant | the report is what happened; `run` returns |
| `loop_restart` | durable store, one crash | finding 1 |
| `client_deadlock` | one Rust client, a round failing behind its flush | finding 2 |
| `left_running` | as `local_federation` | finding 3 |

Bounds. Two attempts are what a stale task, buffer or round number needs to meet
a newer round; three let a retried round be followed by another and, with a
history of two, overflow it. One client with several updates reaches every case
of duplicates; two let one client's call overlap another's. One crash and two
faults cover a failure, its retry, and a failure of that. In `loop_batch` trimmed
mean at 1/2 accepts batches of 1 and 3 and refuses 2, so both outcomes of the
second check happen. Three troubles exhaust a node's attempts. Rounds 9 to 11
put "10" before "9" in a listing, and two keys a page spread it over pages. Five
updates let one or two be excluded by each of the robust methods. The
profile directories hold chains of three files, cycles of one and of two, and each
way a file can be malformed. Quorums
up to 64 leave the advice room to end for every fraction tried; fractions are over
80 so that sixteenths and the builtin 0.2 are both exact.

Every property of a passing run has a mutation of the code that TLC finds it to
notice; they stand in the modules as `..._...` definitions marked *Mutation* or
*Mutant*.

Fairness.
- `RoundBuffer!FairSpec`: tokio polls ready tasks, so a push that has the lock's
  outcome goes on to notify, and `await_flush` is polled; neither the clock nor
  the arrival of clients is assumed.
- `RoundLoop!FairSpec`: weak fairness of the loop's next step only, since timers
  fire and awaits return or fail. Nothing is assumed of clients or operators.
- `Startup`: weak fairness of the start-up's steps, which have no wait of their own
  without a time limit, and of the operator following the advice.
- `Federation`: weak fairness of rounds, stopping, client loops and relays. Losing
  a message is never forced, except that calls fail while the server is down. A
  client polls and resubmits without end while a round stays open, so asking
  about a round infinitely often possible while it is open, and submitting to one
  that would take it, are strongly fair: without them a client could ask only in
  the moments between rounds for ever.
- `LocalFederation`: weak fairness of the harness's own steps and of its clocks.
  Nothing is assumed of the participants, but that the last `/health` request of a run
  that timed out gets an answer: `get_health` has no time limit of its own, and the
  handler behind it only reads.

### Findings

1. *After a restart new models are not served* (`loop_restart`). Rounds are counted
   from 1 while the store's latest checkpoint is the highest round.
2. *An acknowledged round is written off while the server may reopen it*
   (`client_deadlock`). A round that fails behind its flush is tried again under
   its number; the client waits for a later one and the server for the client.
   The round then times out with an empty batch, fails and reopens, for ever, if
   no other client submits.
3. *Client processes outlive the supervisor* (`left_running`). They are not in the
   `Children` guard, so a later spawn failing, a client failing or a stalled run
   leaves them running, while the doc comment says every child is killed.

### Observations

Behaviour met while modelling that no run states as a violation. Some are the
hypotheses or the margins of passing properties.

*Rounds.* A durable store nobody seeded never opens a round: `run_round` propagates
`NoCheckpoint` and retries, where the comment on it says the caller substitutes its
initial weights. A configured quorum does not keep `PreconditionViolated` away,
since a timeout flush may be below it. The batch aggregated may be one the citation
does not cover, because updates are removed after the check. A push between the
quorum check and the deadline check makes a full batch report `Timeout`. A crash or
failed append behind a checkpoint leaves the log behind the released models (the
margin in `UnchargedOnlyByFailure`); a round that fails behind its checkpoint
reopens on a newer model (why `TrainedFromThisRoundsModel` needs `NoLateFailure`); a
failed save leaves a stateful aggregator anchored on a model nobody got (why
`AnchorIsDispatchedModel` needs `faults = 0`); one client submitting twice closes a
round that waits for two. The sample rate charged is selected over active, though
any client may submit.

*Start-up.* `S3Store::connect` drops what `head_bucket` and `create_bucket` answer
(`s3_store.rs:80`), so the server starts with S3 down; the doctor fails that endpoint,
with a status documented as "Checked, and the server would refuse to start"
(`doctor.rs:97`). `DoctorFailsOnlyProbes` says exactly how far the doctor can be wrong
in this direction. The doctor, which says it checks everything the server fails fast on,
does not check the admin binding, the sidecar's dimension, the ports, or TLS
material that is read and refused when bound; its probe fails addresses the server
can use and passes ones whose credentials it refuses. Naming a builtin profile skips the
check for a file that shadows it. Errors in an ancestor's keys are reported under
the selected profile's name. Thirteen keys have no environment variable that is read. The
quorum a refusal names is computed at the refused size and can be refused in turn
(krum, 6/16, from 2). The node takes every `CONFLUX_MODE` but "production" for research.

*Aggregation.* q-FedAvg at q = 0 is the unweighted mean, where a comment says it
recovers FedAvg. `build_aggregator` never passes the Byzantine fraction to FLANDERS,
whose default 0.2 as an `f32` excludes two of five. The geometric median of updates
without samples is the zero vector.

*Fleet.* The Python client takes every RPC error as final and counts every
acknowledgement, accepted or not. A resubmission after the node's three attempts
draws new noise. A lagging push subscriber is handed the oldest retained task.
`serve` does not return while a task stream stays open (the second disjunct of
`ShutdownCompletes`). A restart to round 1 strands a client that has finished round 1.
The Python client drops an empty variate; `build_chunks` truncates one longer than
the weights. A node's local service limits updates by the default size and not the
configured one.

*Back-ends.* `FileStore` does not sync what it writes, and the server has no setting
that selects it. A reader that spans a restart may see a re-saved lower round. No
client heartbeats upstream, and nothing outside `conflux-registry` evicts. Registering again
does not refresh the eviction clock. A revoked node stays in the registry. After a
restart with the in-memory registry, running clients do not register again.

*Harness.* A round loop may stop at its first round, when a replayed privacy log has
spent the budget. `/health` then answers 503, which `await_server` takes for not serving
yet, and the run ends in `ServerStartupTimeout`, documented as "The server never answered
`/health`" (`lib.rs:234`); `ReportIsHonest` allows it of a loop that gave up, and of no
other server that answered. A stall is documented as "naming every client that did not finish" (`lib.rs:801`). It names
those that attempted fewer rounds than asked, and a round that was written off is an
attempt, so a client still running can be left out, and the report can name nobody;
`ReportIsHonest` says of those left out that they attempted every round. When the grace period expires, a component's error is not reported.
Aborting the server's task detaches its inner round loop. A component that dies in
mid-run is noticed only at teardown. The last lines of an observer can be lost
between its exit and its reader's last send.

## 4. Proofs

Every theorem holds for every value of the constants the assumptions allow. These
say what is natural, finite or Boolean, and what the code has established before
the modelled part begins:

| Assumption | Says |
|---|---|
| `BufferAssumption`, `PreconditionAssumption`, `LoopAssumption` | finite callers and clients, natural bounds, Boolean switches, a fraction and a configured quorum that validation accepts |
| `AdmissionAssumption`, `StoreAssumption` | natural clock, TTL and leeway, a token's expiry is a time; a page holds at least one key, rounds are counted from 1 |
| `FleetAssumption`, `WireAssumption` | a fleet gives every member a kind; capacities, rounds wanted and sizes in bytes are natural; what a client trains is a `TrainResult` as `with_control_variate` demands it, a variate as long as the weights, if it has one |
| `HarnessAssumption`, `SupervisorAssumption` | finitely many participants, at least one participant process, natural rounds and observers |
| `FractionAssumption`, `GivensAssumption`, `DeploymentsAssumption` | a value a layer gives has parsed as its parameter's type; deployment material is one of the cases listed |
| `MethodsAssumption`, `FractionsAssumption`, `BatchesAssumption`, `RangeAssumption` | methods are those `build_aggregator` knows; a Byzantine fraction is in [0, 1], as validation demands; a batch is a sequence of updates of any length, with any values and sample counts |

**Buffer.** `BufferInv` strengthens the three safety properties by: closed exactly
when the flush is done; an open buffer has handed nothing out; between a failed
quorum check and the waiter being awake, a full batch is announced by a stored
permit or a push that has yet to notify; a parked waiter has left no permit.
Without the last two `NoLostWakeup` is not inductive: a permit could be consumed
between the check and the wait. `BufferImplementsBatch` maps the batch to the
`Vec` behind the lock, or the snapshot once handed out.

**Loop.** `LoopInv` is types, `BatchInv`, `StoreInv` and `CostInv`.
- `BatchInv`: the buffer is open exactly in `announce` and `collect`, is the one
  in the slot and is for the counter's round. `AcceptedForCurrentRound` follows.
- `StoreInv`: once a round's checkpoint is written, the store holds that round or
  a later one, until the counter has moved. `StoreKeepsPace` needs that middle
  phase to be inductive.
- `CostInv`: at most one released model is waiting for its log entry, every other
  one is in the log or excused by a crash or failure, and a round that passed the
  budget check finds the budget unspent until it charges.
  `UnchargedOnlyByFailure` and `BudgetNotOverrun` follow.

`TrainedFromThisRoundsModelHolds` is conditional on `NoLateFailure` (no crash, no
failure behind a checkpoint). Its invariant `ModelInv` says that until a round
writes its checkpoint, every task, call and update with the counter's round
carries the model filed under the round before: `fetch_task` reads the counter
first and the loop writes the store first. `AdmittedInv` gives
`OnlyFiniteAggregated` and the action property `SpentClientStaysOut`.

`StatusInv` adds what an operator sees, on top of `LoopInv`. `HistoryInv` ties the
last entry of the history to the round last recorded, which is one behind the counter
until the round is cleared; `VerdictInv` follows the flushed batch's verdict to the
entry that shows it; `BalanceInv` says that, with nothing failed, what is released is
charged in the same step; `ClientLogInv` adds what a client's log still lacks of the
round to what it holds; `AnchorInv` follows the aggregator's last output to the store
and to the next round's load, with the moment between the two made explicit.

`LoopImplementsService` maps the loop to the phases of `RoundService` (`PhaseOf`):
open while its buffer is, working from the flush until the counter has moved,
stopped once it has exited, otherwise between. With it, what `Federation` shows of clients
over `RoundService` is about the loop's own behaviours.

**Registry.** `RegistryInv` adds to the types: every clock value in use was read before
now, and a sweep's cutoff is a whole TTL old (`ClockInv`); a call that has passed the
allow-list, or would pass it now, was vouched for (`VouchedInv`); the entry of a client
within its TTL is as recent as its last acknowledged check-in (`FreshInv`). A command
may reach Redis long after its clock was read; the middle clauses of `FreshInv` bound
what such a command can undo.

**Stores.** `StoreInv`: nothing torn is in place and a temporary file is whole when it
is renamed (`WholeInv`); a load under way that has yet to ask would get an answer in
`right`, and a listing has passed, or is still to come to, a round from which on every
checkpoint is such an answer (`ListingInv`). That a set of rounds has a largest member
is proved from the well-foundedness of the natural numbers, as a least counterexample.
A listing's pages come in the order of the keys as text, in which 10 precedes 9;
`KeyOrder` shows this to be a strict total order for rounds of any number of digits, so
that a page is everything up to some key. A numeral is compared as a decimal fraction
is; `Tens`, which gives the denominator, is recursive.

**Fleet.** `FederationInv`: a client has counted no more rounds than the server took
from it, leaving out the one it is working on or could still fetch (`CountInv`), and a
node's attempts at one submission carry the noise drawn with it (`CopyInv`). Without the
exception the count is not inductive: the server may have taken the round before the
client hears of it, and must not take it into account twice. `FleetInv` and
`CopiesAgree` follow for every fleet, every number of losses and retries.
`CopiesAreFaithfulHolds` adds that what is copied is the result itself, noised once
(`WireHolds`): `build_chunks`, the node and the server cut and join at the same offsets
(`Cut`, `Piece`), for every chunk size and every length, an empty result included.
Sorting chunks that are in order changes nothing (`InOrderIs`), the offsets the node
computes from the lengths are those of the cuts (`DataIs`), and adjacent pieces joined
one after another give back the vector (`PiecesJoin`).

**Harness.** `LocalInv` says for each tier which of the facts behind the answer are
already settled at each stage of `run`: a component that is reported failed has failed,
success is concluded only after every wait returned, and what is collected on the way
out changes no verdict. Success means that every client completed its rounds; whoever a
stall leaves out had attempted them all, which is as much as `Unfinished` gives. A server counts as ready only while its loop runs. The proof showed two overlapping guards in the model's server
verdict, where TLC takes the first that is true and the logic takes either; they now
exclude each other, in the order the code asks.

**Start-up.** `StartInv` is the conjunction of seven parts.
- `ConfigInv`: the configuration is empty while layers are read, is what they resolve
  to from then on, and the errors are its own.
- `CheckInv`: a check behind the present stage would be passed again, because nothing
  it read has changed. Past `connect` this is said of the back-ends whose connect reports
  failure, not of S3. `DoctorFailsOnlyProbes` is this at the last stage: every other
  check of the doctor's is the server's own, and the probe fails only what answers the
  server or what the server does not notice.
- `AdviceInv`: from the first quorum tried up to the one now in force none is covered.
  It is kept because the number excluded grows with the batch (`ExcludedMonotone`), so
  everything between a refused quorum and the advised one is refused too
  (`AdviceIsLeast`). `CitationIsCovered` shows that the code's rounded quotient and the
  cited inequality are the same statement, for every fraction in [0, 1] and every size;
  above 1 no quorum is refused or raised, and the fraction is.
- `WalkInv`: the files visited form a chain of `inherits` from the name asked for, each
  once, none of them a builtin.
- `ProfileInv`: a mode whose chain mentions production has production as its base.
- `ShapeInv`: a profile in force is a builtin, or the files of a chain laid over the
  builtin the chain ends at, each over the ones behind it. What that fold computes, value
  and origin of a key alike, is the nearest file that gives it; shown by induction on the
  number of layers.
- `SelectInv`: every name that was loaded or reported has a chain that ends well
  (`Loads`), and once a reported name is in force the walk is on such a chain
  (`OnCourse`), which it can only follow to its end.

`ProvenanceHonestHolds` reads the log off the six tiers and `ShapeInv`, and
`ProductionKeepsPromisesHolds` uses it: the `auth` in force in production is one that
some file or the environment gives, or production's own.
`Loads` quantifies over all sequences of files, so TLC was given the inductive
invariant with sequences of at most three.

**Aggregation.** `RejectedBatchLeavesNoTraceHolds` goes through the twenty methods and
leaves the statistics opaque: each validates the batch and its own result before it
commits. `VariatesAllCarriedHolds` needs no strengthening once a refused batch is known
to add nothing; it is stated up to overflow, from which the code falls back to the
variate it had.

`MinorityCannotSteerHolds` is about what the statistics compute, for batches of any
size and every minority in them.
- *Fractions.* `Q` is shown to be a reduced quotient (`QIsQuotient`); comparison, sums
  and means then behave as they should (`LeqTrans`, `SumBounds`, `MeanWithin`).
- *Sorting.* `Ranked` gives every update the number of those before it, ties by
  position, which is a bijection (`RankIsBijection`) and therefore a sorted order.
- *Median and trimmed mean.* Among the first f + 1 and among the last f + 1 places of
  that order stands an update outside any given f (`OneOutside`); everything between
  those places lies between honest values, and so does a mean of it.
- *Krum.* An honest update has enough honest neighbours for its score to be at most
  `Neighbours` times the spread of the honest ones (`HonestScore`), the selected one
  scores no more (`KrumSelects`), and among its neighbours is one outside the minority
  (`KrumNear`), so it is that near to an honest update. The coverage check of
  `Preconditions` is what makes the counts come out (`NeighboursCovered`), after
  `ByzantineCountIs` has shown that aggregator and precondition exclude the same number.

**Recursion.** The provers apply no induction principle and do not unfold a recursive
function. Where a result rests on either (`Gcd`, `QSum`, `Tens`, folds over chains and
chunks), the equation is first shown to have a solution, by extending one up to m to one
up to m + 1, and the fact is proved for the least natural number at which it could fail.

**Only model-checked.** Every liveness property: `FlushReturns`,
`QuorumFlushesWithoutClock`, `ShutdownStops`, `StartEnds`, `AdviceConverges`,
`RoundsAdvance`, `FlappingIsReported`, `ShutdownCompletes`, `RunReturns`. They hold
under fairness, which is outside the prover's reach. Every invariant and every action
property that a passing run checks is proved.

## 5. Not modelled

- Floating-point arithmetic: cosine scores, Rényi accounting, the sidecar's linear
  training, rounding in aggregation. No finite instance says anything about it.
- `conflux-proto`: generated types and encodings.
- `conflux-attacks`, `conflux-baselines` and the harness's demo models: experiment
  tooling without shared state.
- `cflux init`, `catalog`, `config` and the rendering of reports; HTTP routes that
  only read.
- TLS handshakes and token cryptography: material is usable or not, a token
  genuine or not.

## 6. Plan

The modules planned at the start are written, and every safety property the runs check
is proved. What remains, should the model grow:
1. Bounds on the other robust methods (Multi-Krum, Bulyan, the geometric median), whose
   citations are stated for other norms or for iterations that have converged.
2. The sidecar's training and the accountant's arithmetic, once there is a property of
   them that does not depend on rounding.
3. Abstract specifications for `Admission` and `CheckpointStore`, in the manner of
   `RoundBatch`.
