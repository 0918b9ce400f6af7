----------------------------- MODULE TaskHarness -----------------------------
(***************************************************************************)
(* A whole federation in one process: `run` of conflux-federation, the     *)
(* task tier.  It starts the server, one node and one client per           *)
(* participant as tasks, waits for the clients, and tears everything down. *)
(*                                                                         *)
(* The tasks are seen from outside: what one may do next is the            *)
(* environment's choice, and none of them is assumed to make progress.     *)
(* Only the harness's own steps and its clock are.  `/health` answers from *)
(* the moment the server serves until it is told to stop, because the      *)
(* server's three inner tasks are joined together: with 200 while the      *)
(* round loop is alive, with 503 once it gave up.                          *)
(***************************************************************************)
EXTENDS Naturals, FiniteSets

CONSTANTS
  Participants, \* config.nodes, as identities
  Rounds        \* config.rounds

ASSUME HarnessAssumption == IsFiniteSet(Participants) /\ Rounds \in Nat

VARIABLES
  task,      \* the server, nodes and clients, each with how it stands
  loop,      \* what /health says of the round loop: running or gave_up
  attempts,  \* Counted: the rounds each client has ended, up to Rounds
  completed, \* conflux_client::run: the ones among them the server acknowledged
  harness,   \* where `run` is: at, cancelled, what it has joined and found, and
             \* (history) whether /health answered it 503 while the server started
  overdue,   \* the deadline `run` is waiting under has passed
  forewarned \* history: the loop gave up before the run's deadline

taskVars == <<task, loop, attempts, completed, harness, overdue, forewarned>>

Server == <<"server">>
Node(p) == <<"node", p>>
Client(p) == <<"client", p>>
Components == {Server} \cup {Node(p) : p \in Participants}
TaskClients == {Client(p) : p \in Participants}
Ended == {"ok", "error", "panicked", "aborted"}
Failures == {"error", "panicked"}
Settled == Failures \cup {"ok"}
TaskErrors == {"bind", "server", "panic", "startup_timeout", "client", "component",
               "round_loop_stopped", "stalled"}

TaskTypeOK ==
  /\ task \in [Components \cup TaskClients -> {"absent", "starting", "running"} \cup Ended]
  /\ loop \in {"running", "gave_up"}
  /\ attempts \in [Participants -> 0 .. Rounds] /\ completed \in [Participants -> 0 .. Rounds]
  /\ harness \in [at : {"bind", "await_server", "collect", "recheck", "drain", "returned"},
                  answered : BOOLEAN, cancelled : BOOLEAN, collected : SUBSET TaskClients,
                  joined : SUBSET Components, failed : SUBSET Components,
                  outcome : {"none", "ok"} \cup TaskErrors,
                  names : SUBSET (Components \cup TaskClients)]
  /\ {overdue, forewarned} \subseteq BOOLEAN

TaskInit ==
  /\ task = [t \in Components \cup TaskClients |-> "absent"]
  /\ loop = "running" /\ attempts = [p \in Participants |-> 0]
  /\ completed = attempts
  /\ harness = [at |-> "bind", answered |-> FALSE, cancelled |-> FALSE, collected |-> {},
                joined |-> {}, failed |-> {}, outcome |-> "none", names |-> {}]
  /\ overdue = FALSE /\ forewarned = FALSE

\* Every task in T that has not ended, aborted: JoinSet::abort_all, and the drop of a JoinSet.
Aborted(T) == [t \in DOMAIN task |->
                 IF t \in T /\ task[t] \in {"starting", "running"} THEN "aborted" ELSE task[t]]

Returned(outcome, names) ==
  [harness EXCEPT !.at = "returned", !.outcome = outcome, !.names = names]

----------------------------------------------------------------------------
(* What the tasks may do.                                                  *)

ServerServes ==
  /\ task[Server] = "starting"
  /\ task' = [task EXCEPT ![Server] = "running"]
  /\ UNCHANGED <<loop, attempts, completed, harness, overdue, forewarned>>

\* A server that refuses its configuration ends before it serves; one that serves ends when told.
\* A node may lose its upstream at any time, and ends cleanly only when told.
ComponentEnds(t) ==
  /\ \/ task[t] = "starting"
     \/ task[t] = "running" /\ (t # Server \/ harness.cancelled)
  /\ \E how \in Failures \cup (IF harness.cancelled THEN {"ok"} ELSE {}) :
       task' = [task EXCEPT ![t] = how]
  /\ UNCHANGED <<loop, attempts, completed, harness, overdue, forewarned>>

\* The round loop met an error that is not transient: record_stopped(Some(..)).
LoopGivesUp ==
  /\ task[Server] = "running" /\ loop = "running"
  /\ loop' = "gave_up"
  /\ forewarned' = (harness.at = "collect" /\ ~overdue)
  /\ UNCHANGED <<task, attempts, completed, harness, overdue>>

\* on_round_end: the submission was acknowledged, and after Rounds of those conflux_client::run
\* returns Ok; or it was refused and the round has moved on, which is counted as an attempt only.
RoundEnds(p) ==
  /\ task[Client(p)] = "running" /\ completed[p] < Rounds
  /\ attempts' = [attempts EXCEPT ![p] = IF @ < Rounds THEN @ + 1 ELSE @]
  /\ \/ /\ completed' = [completed EXCEPT ![p] = @ + 1]
        /\ task' = IF completed'[p] = Rounds THEN [task EXCEPT ![Client(p)] = "ok"] ELSE task
     \/ UNCHANGED <<task, completed>>
  /\ UNCHANGED <<loop, harness, overdue, forewarned>>

\* conflux_client::run fails, or has no rounds to do.
ClientEnds(p) ==
  /\ task[Client(p)] = "running"
  /\ \E how \in Failures \cup {h \in {"ok"} : Rounds = 0} :
       task' = [task EXCEPT ![Client(p)] = how]
  /\ UNCHANGED <<loop, attempts, completed, harness, overdue, forewarned>>

----------------------------------------------------------------------------
(* What the harness does.                                                  *)

\* startup_timeout, the run's timeout or shutdown_grace elapses.
DeadlinePasses ==
  /\ harness.at \in {"await_server", "collect", "drain"} /\ ~overdue
  /\ overdue' = TRUE
  /\ UNCHANGED <<task, loop, attempts, completed, harness, forewarned>>

\* Every listener is bound before anything starts.
BindListeners ==
  /\ harness.at = "bind"
  /\ \/ /\ harness' = Returned("bind", {})
        /\ UNCHANGED task
     \/ /\ harness' = [harness EXCEPT !.at = "await_server"]
        /\ task' = [task EXCEPT ![Server] = "starting"]
  /\ UNCHANGED <<loop, attempts, completed, overdue, forewarned>>

\* await_server: the server's end is looked at first, then the deadline, then /health, which is to
\* answer 200 (health_ok).
ServerVerdict ==
  CASE task[Server] = "error" -> "server"
    [] task[Server] = "panicked" -> "panic"
    [] task[Server] = "ok" -> "startup_timeout"
    [] task[Server] \notin Settled /\ overdue -> "startup_timeout"
    [] task[Server] = "running" /\ loop = "running" /\ ~overdue -> "ready"
    [] OTHER -> "wait"

\* A poll finds the round loop stopped: 503, which await_server takes for not serving yet.
HealthRefuses ==
  /\ harness.at = "await_server" /\ ~overdue /\ ~harness.answered
  /\ task[Server] = "running" /\ loop = "gave_up"
  /\ harness' = [harness EXCEPT !.answered = TRUE]
  /\ UNCHANGED <<task, loop, attempts, completed, overdue, forewarned>>

\* start returns: with an error, dropping the JoinSet aborts the server; else the nodes and the
\* clients are spawned and the run's own deadline starts.
AwaitServer ==
  /\ harness.at = "await_server" /\ ServerVerdict # "wait"
  /\ IF ServerVerdict = "ready"
     THEN /\ harness' = [harness EXCEPT !.at = "collect"]
          /\ task' = [t \in DOMAIN task |-> IF t = Server THEN task[t] ELSE "running"]
     ELSE /\ harness' = Returned(ServerVerdict, {Server})
          /\ task' = Aborted(Components)
  /\ overdue' = FALSE
  /\ UNCHANGED <<loop, attempts, completed, forewarned>>

\* The way out of the select: the clients are aborted, and shutdown cancels and starts its grace.
TearDown(outcome, names) ==
  /\ harness' = [harness EXCEPT !.at = "drain", !.outcome = outcome, !.names = names,
                                !.cancelled = TRUE]
  /\ task' = Aborted(TaskClients)
  /\ overdue' = FALSE

Uncollected == {t \in TaskClients \ harness.collected : task[t] \in Ended}

\* collect: one client joined.  The first failure ends the wait.
CollectClient(t) ==
  /\ harness.at = "collect" /\ t \in Uncollected
  /\ IF task[t] = "ok"
     THEN /\ harness' = [harness EXCEPT !.collected = @ \cup {t}]
          /\ UNCHANGED <<task, overdue>>
     ELSE TearDown(IF task[t] = "error" THEN "client" ELSE "panic", {t})
  /\ UNCHANGED <<loop, attempts, completed, forewarned>>

AllCollected ==
  /\ harness.at = "collect" /\ harness.collected = TaskClients
  /\ TearDown("ok", {})
  /\ UNCHANGED <<loop, attempts, completed, forewarned>>

\* await_round_loop_failure, raced against the clients.
NoticeLoopFailure ==
  /\ harness.at = "collect" /\ loop = "gave_up"
  /\ TearDown("round_loop_stopped", {})
  /\ UNCHANGED <<loop, attempts, completed, forewarned>>

\* timeout polls what it wraps before its clock, so nothing is left to join here.
CollectTimesOut ==
  /\ harness.at = "collect" /\ overdue
  /\ Uncollected = {} /\ harness.collected # TaskClients
  /\ harness' = [harness EXCEPT !.at = "recheck"]
  /\ UNCHANGED <<task, loop, attempts, completed, overdue, forewarned>>

\* What a stall names: the clients that attempted fewer rounds than asked of them.
Unfinished == {Client(p) : p \in {q \in Participants : attempts[q] < Rounds}}

\* Mutant: the second look at /health is skipped.
Recheck_Skipped ==
  /\ harness.at = "recheck"
  /\ TearDown("stalled", Unfinished)
  /\ UNCHANGED <<loop, attempts, completed, forewarned>>

\* Before blaming the clients: did the server stop on purpose?
Recheck ==
  /\ harness.at = "recheck"
  /\ IF loop = "gave_up"
     THEN TearDown("round_loop_stopped", {})
     ELSE TearDown("stalled", Unfinished)
  /\ UNCHANGED <<loop, attempts, completed, forewarned>>

Joinable == {t \in Components \ harness.joined : task[t] \in Ended}

\* shutdown: one component joined, the first failure kept.
DrainComponent(t) ==
  /\ harness.at = "drain" /\ t \in Joinable
  /\ harness' = [harness EXCEPT !.joined = @ \cup {t},
                   !.failed = IF @ = {} /\ task[t] \in Failures THEN {t} ELSE @]
  /\ UNCHANGED <<task, loop, attempts, completed, overdue, forewarned>>

\* shutdown returns, and the run's own error outranks its.
Drained ==
  /\ harness.at = "drain" /\ harness.joined = Components
  /\ harness' = IF harness.outcome = "ok" /\ harness.failed # {}
                THEN Returned("component", harness.failed)
                ELSE Returned(harness.outcome, harness.names)
  /\ UNCHANGED <<task, loop, attempts, completed, overdue, forewarned>>

\* Mutant: the drain has no timeout.
GraceExpires_Never == FALSE /\ UNCHANGED taskVars

\* The grace period is over with nothing left to join: the rest is aborted and shutdown answers Ok.
GraceExpires ==
  /\ harness.at = "drain" /\ overdue
  /\ Joinable = {} /\ harness.joined # Components
  /\ harness' = Returned(harness.outcome, harness.names)
  /\ task' = Aborted(Components)
  /\ UNCHANGED <<loop, attempts, completed, overdue, forewarned>>

TasksAct ==
  \/ ServerServes \/ LoopGivesUp
  \/ \E t \in Components : ComponentEnds(t)
  \/ \E p \in Participants : RoundEnds(p) \/ ClientEnds(p)

HarnessActs ==
  \/ BindListeners \/ AwaitServer \/ HealthRefuses
  \/ \E t \in TaskClients : CollectClient(t)
  \/ AllCollected \/ NoticeLoopFailure \/ CollectTimesOut \/ Recheck
  \/ \E t \in Components : DrainComponent(t)
  \/ Drained \/ GraceExpires

TaskNext == TasksAct \/ DeadlinePasses \/ HarnessActs
=============================================================================
