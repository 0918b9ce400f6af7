--------------------------- MODULE LocalFederation ---------------------------
(***************************************************************************)
(* `cflux fed run`: a federation on one machine, its participants either   *)
(* tasks of one process (TaskHarness) or processes of their own            *)
(* (Supervisor).  A manifest that names a client command is refused with   *)
(* the task tier before anything starts, so the tier is the only choice    *)
(* left when a federation runs.                                            *)
(***************************************************************************)
EXTENDS TaskHarness, Supervisor

VARIABLE isolation \* --isolation, or the manifest's

localVars == <<isolation, taskVars, supervisorVars>>

LocalInit ==
  /\ isolation \in {"task", "process"} /\ TaskInit /\ SupervisorInit
  /\ isolation = "task" => attach = [o \in 1 .. Watchers |-> 1]

LocalNext ==
  /\ UNCHANGED isolation
  /\ \/ isolation = "task" /\ TaskNext /\ UNCHANGED supervisorVars
     \/ isolation = "process" /\ SupervisorNext /\ UNCHANGED taskVars

LocalSpec ==
  /\ LocalInit /\ [][LocalNext]_localVars
  /\ WF_localVars(isolation = "task" /\ HarnessActs /\ UNCHANGED <<isolation, supervisorVars>>)
  /\ WF_localVars(isolation = "task" /\ DeadlinePasses /\ UNCHANGED <<isolation, supervisorVars>>)
  /\ WF_localVars(isolation = "process" /\ SupervisorActs /\ UNCHANGED <<isolation, taskVars>>)
  /\ WF_localVars(isolation = "process" /\ TimeRunsOut /\ UNCHANGED <<isolation, taskVars>>)

Over == harness.at = "returned" \/ sup.at = "returned"

\* What the task tier's `run` answers is true of what happened.  A summary means every client
\* completed its rounds, and no component that ended in time had failed; a client blamed did fail; a
\* server that refused to start is never called slow, and one that answered /health only if its round
\* loop had given up; a stall is never reported of a round loop that had already given up when the
\* deadline struck, nor against a client that finished, and whoever it does not name had attempted
\* every round.
TaskReportIsHonest ==
  harness.at = "returned" =>
    /\ harness.outcome = "ok" =>
         /\ \A p \in Participants : task[Client(p)] = "ok" /\ completed[p] = Rounds
         /\ harness.joined = Components => \A t \in Components : task[t] = "ok"
    /\ harness.outcome \in {"client", "component", "server"} =>
         harness.names # {} /\ \A t \in harness.names : task[t] \in Failures
    /\ harness.outcome = "startup_timeout" =>
         task[Server] \notin Failures /\ (harness.answered => loop = "gave_up")
    /\ harness.outcome = "round_loop_stopped" => loop = "gave_up"
    /\ harness.outcome = "stalled" =>
         /\ ~forewarned /\ \A t \in harness.names : task[t] # "ok"
         /\ \A p \in Participants : Client(p) \notin harness.names => attempts[p] = Rounds

\* The same of the process tier.  A summary means every client succeeded and every observer
\* stopped; a child said to have died or failed did so by itself; the clients a stall does not name
\* had succeeded; and no server, node or observer outlives the answer.
ProcessReportIsHonest ==
  sup.at = "returned" =>
    /\ sup.result = "ok" => /\ \A c \in ClientProcs : proc[c] = "success"
                            /\ \A o \in ObserverProcs : proc[o] \in Exited
    /\ sup.result = "client_failed" => \A c \in sup.named : proc[c] = "failure"
    /\ sup.result = "died" => \A c \in sup.named : proc[c] \in Exited
    /\ sup.result = "stalled" => \A c \in ClientProcs \ sup.named : proc[c] = "success"
    /\ \A c \in Processes \ ClientProcs : proc[c] # "running"

\* `cflux fed run` reports success only of a run that succeeded, and blames only what failed, in
\* either tier and however the participants' ends and the deadlines interleave.
ReportIsHonest == TaskReportIsHonest /\ ProcessReportIsHonest

-----------------------------------------------------------------------------
(* The inductive invariants behind them *)

\* What `run` has found stays found.  Before the wait no client exists, and after it none runs;
\* a client that finished made all its rounds; the round loop's warning counts only if it came
\* before the deadline; what the drain joined has settled, and its first failure is kept.
TaskInv ==
  /\ TaskTypeOK
  /\ harness.at \in {"bind", "await_server"} => \A t \in TaskClients : task[t] = "absent"
  /\ harness.at \in {"drain", "returned"} =>
       \A t \in TaskClients : task[t] \notin {"starting", "running"}
  /\ harness.at = "bind" => task[Server] = "absent"
  /\ harness.at = "await_server" => task[Server] # "absent"
  /\ \A p \in Participants : completed[p] <= attempts[p]
  /\ \A p \in Participants : task[Client(p)] = "ok" => completed[p] = Rounds
  /\ loop = "running" => ~forewarned /\ ~harness.answered
  /\ \A t \in harness.collected : task[t] = "ok"
  /\ harness.joined # {} => harness.at \in {"drain", "returned"}
  /\ \A t \in harness.joined : task[t] \in Settled
  /\ harness.at # "returned" => \A t \in Components : task[t] # "aborted"
  /\ harness.failed \subseteq harness.joined /\ \A t \in harness.failed : task[t] \in Failures
  /\ harness.failed = {} => \A t \in harness.joined : task[t] = "ok"

\* The answer is already true when it is decided, a drain before it is given.
AnswerInv ==
  /\ harness.outcome = "none" <=> harness.at \notin {"drain", "returned"}
  /\ harness.outcome = "ok" =>
       /\ \A t \in TaskClients : task[t] = "ok"
       /\ harness.at = "returned" /\ harness.joined = Components => harness.failed = {}
  /\ harness.outcome \in {"client", "component", "server"} =>
       harness.names # {} /\ \A t \in harness.names : task[t] \in Failures
  /\ harness.outcome = "startup_timeout" => task[Server] \in {"ok", "aborted"}
  /\ harness.outcome = "round_loop_stopped" => loop = "gave_up"
  /\ harness.outcome = "stalled" =>
       /\ ~forewarned
       /\ \A t \in harness.names : t \in TaskClients /\ task[t] # "ok"
       /\ \A p \in Participants : Client(p) \notin harness.names => attempts[p] = Rounds

Starting == {"spawn", "file", "health", "alive", "clock"}
Leaving == {"drop", "returned"}

\* Nothing is polled before everything is started; of the clients already polled in this turn,
\* each is known to have succeeded or was seen running; and what was seen exited stays exited.
SupervisorInv ==
  /\ SupervisorTypeOK
  /\ sup.at \in {"file", "health", "alive", "clock"} => sup.next \in Reporting
  /\ sup.at \in Starting => sup.finished = {} /\ sup.running = {}
  /\ sup.at = "poll" =>
       /\ sup.next \in ClientProcs
       /\ \A i \in 1 .. Size : i < sup.next[2] => ClientProc(i) \in sup.finished \cup sup.running
  /\ sup.at \in {"observers", "deadline"} => ClientProcs \subseteq sup.finished \cup sup.running
  /\ \A c \in sup.finished : proc[c] = "success"

\* The same of the process tier: what it will answer is settled when it leaves.
ResultInv ==
  /\ sup.at \notin Leaving => sup.result = "none"
  /\ sup.result = "ok" => /\ \A c \in ClientProcs : proc[c] = "success"
                          /\ \A o \in ObserverProcs : proc[o] \in Exited
  /\ sup.result = "client_failed" => \A c \in sup.named : proc[c] = "failure"
  /\ sup.result = "died" => \A c \in sup.named : proc[c] \in Exited
  /\ sup.result = "stalled" => \A c \in ClientProcs \ sup.named : proc[c] = "success"
  /\ sup.at = "returned" => \A c \in Processes \ ClientProcs : proc[c] # "running"

LocalInv == TaskInv /\ AnswerInv /\ SupervisorInv /\ ResultInv

-----------------------------------------------------------------------------
\* The run ends, whatever the participants do or fail to do: a server that neither serves nor
\* stops, clients that never finish, components that ignore the cancellation.
RunReturns == <>Over

\* process::run: "Every child is killed when this returns, whichever way it returns."
NothingLeftRunning ==
  sup.at = "returned" => \A c \in Processes : proc[c] # "running"
=============================================================================
