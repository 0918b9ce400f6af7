----------------------- MODULE LocalFederation_proofs -----------------------
(***************************************************************************)
(* What `cflux fed run` answers is true of what happened, for every number *)
(* of participants, observers and rounds, in both tiers.                   *)
(*                                                                         *)
(* The two tiers share no state, so each has its invariant and its steps,  *)
(* and a step of one leaves the other's alone.  In both the argument is    *)
(* the same: what has ended stays as it ended, so an answer that is true   *)
(* when it is decided is still true when the grace period or the killing   *)
(* of the children is over and it is given.                                *)
(***************************************************************************)
EXTENDS LocalFederation, TLAPS

-----------------------------------------------------------------------------
(* The task tier *)

\* The server, the nodes and the clients are different tasks.
LEMMA TaskNames ==
  /\ Server \in Components /\ Server \notin TaskClients
  /\ \A p \in Participants : Client(p) \in TaskClients /\ Client(p) \notin Components
  /\ \A p, q \in Participants : Client(p) = Client(q) => p = q
  /\ \A t \in TaskClients : t \notin Components
<1>1. \A p \in Participants : Client(p) # Server /\ \A q \in Participants : Client(p) # Node(q)
  BY DEF Client, Server, Node
<1>2. \A p, q \in Participants : Client(p) = Client(q) => p = q
  BY DEF Client
<1> QED
  BY <1>1, <1>2 DEF Components, TaskClients

\* A run begins with nothing found and nothing to answer.
LEMMA TaskStarts == TaskInit => TaskInv /\ AnswerInv
<1> SUFFICES ASSUME TaskInit PROVE TaskInv /\ AnswerInv
  OBVIOUS
<1>1. TaskTypeOK
  <2>1. attempts \in [Participants -> 0 .. Rounds] /\ completed \in [Participants -> 0 .. Rounds]
    BY HarnessAssumption DEF TaskInit
  <2>2. task \in [Components \cup TaskClients -> {"absent", "starting", "running"} \cup Ended]
    BY DEF TaskInit
  <2> QED
    BY <2>1, <2>2 DEF TaskInit, TaskTypeOK
<1>2. TaskInv
  BY <1>1, TaskNames, HarnessAssumption DEF TaskInit, TaskInv
<1> QED
  BY <1>1, <1>2 DEF TaskInit, AnswerInv

\* Aborting tasks ends the ones that had not ended and touches no other.
LEMMA AbortedEffect ==
  ASSUME NEW T, TaskTypeOK
  PROVE  /\ Aborted(T) \in [Components \cup TaskClients ->
                              {"absent", "starting", "running"} \cup Ended]
         /\ \A t \in Components \cup TaskClients :
              /\ task[t] \in Ended \cup {"absent"} => Aborted(T)[t] = task[t]
              /\ t \notin T => Aborted(T)[t] = task[t]
              /\ t \in T => Aborted(T)[t] \notin {"starting", "running"}
              /\ Aborted(T)[t] # task[t] => Aborted(T)[t] = "aborted"
BY DEF Aborted, TaskTypeOK, Ended

\* The environment's steps: a task that had not ended may end.
LEMMA TasksActStep ==
  ASSUME TaskInv, AnswerInv, TasksAct
  PROVE  TaskInv' /\ AnswerInv'
<1>0. TaskTypeOK
  BY DEF TaskInv
<1>1. CASE ServerServes
  <2>1. /\ task[Server] = "starting" /\ task' = [task EXCEPT ![Server] = "running"]
        /\ UNCHANGED <<loop, attempts, completed, harness, overdue, forewarned>>
    BY <1>1 DEF ServerServes
  <2>2. TaskTypeOK'
    BY <1>0, <2>1 DEF TaskTypeOK
  <2>3. \A t \in Components \cup TaskClients : t # Server => task'[t] = task[t]
    BY <1>0, <2>1 DEF TaskTypeOK
  <2>4. task'[Server] = "running"
    BY <1>0, <2>1, TaskNames DEF TaskTypeOK
  <2>5. TaskInv'
    BY <2>1, <2>2, <2>3, <2>4, TaskNames DEF TaskInv, TaskTypeOK, Settled, Failures
  <2>6. AnswerInv'
    BY <1>0, <2>1, <2>3, <2>4, TaskNames DEF AnswerInv, TaskTypeOK, Failures
  <2> QED
    BY <2>5, <2>6
<1>2. CASE LoopGivesUp
  BY <1>0, <1>2 DEF LoopGivesUp, TaskInv, AnswerInv, TaskTypeOK
<1>3. ASSUME NEW t \in Components, ComponentEnds(t)
      PROVE  TaskInv' /\ AnswerInv'
  <2>1. PICK how \in Failures \cup {"ok"} :
          /\ task[t] \in {"starting", "running"} /\ task' = [task EXCEPT ![t] = how]
          /\ UNCHANGED <<loop, attempts, completed, harness, overdue, forewarned>>
    BY <1>3 DEF ComponentEnds
  <2>2. TaskTypeOK'
    BY <1>0, <2>1 DEF TaskTypeOK, Ended, Failures
  <2>3. \A u \in Components \cup TaskClients : u # t => task'[u] = task[u]
    BY <1>0, <2>1 DEF TaskTypeOK
  <2>4. task'[t] = how
    BY <1>0, <2>1, TaskNames DEF TaskTypeOK
  <2>5. TaskInv'
    BY <1>3, <2>1, <2>2, <2>3, <2>4, TaskNames DEF TaskInv, TaskTypeOK, Settled, Failures
  <2>6. AnswerInv'
    BY <1>0, <1>3, <2>1, <2>3, <2>4, TaskNames DEF AnswerInv, TaskTypeOK, Failures
  <2> QED
    BY <2>5, <2>6
<1>4. ASSUME NEW p \in Participants, RoundEnds(p)
      PROVE  TaskInv' /\ AnswerInv'
  <2>1. /\ task[Client(p)] = "running" /\ completed[p] < Rounds
        /\ attempts' = [attempts EXCEPT ![p] = IF @ < Rounds THEN @ + 1 ELSE @]
        /\ UNCHANGED <<loop, harness, overdue, forewarned>>
    BY <1>4 DEF RoundEnds
  <2>2. /\ attempts' \in [Participants -> 0 .. Rounds]
        /\ attempts'[p] = IF attempts[p] < Rounds THEN attempts[p] + 1 ELSE attempts[p]
        /\ \A q \in Participants : q # p => attempts'[q] = attempts[q]
    BY <1>0, <2>1, HarnessAssumption DEF TaskTypeOK
  <2>3. harness.at \in {"collect", "recheck"}
    BY <1>0, <2>1, TaskNames DEF TaskInv, TaskTypeOK
  <2>4. /\ completed[p] \in 0 .. Rounds /\ attempts[p] \in 0 .. Rounds
        /\ completed[p] <= attempts[p]
    BY <1>0 DEF TaskInv, TaskTypeOK
  <2>5. CASE UNCHANGED <<task, completed>>
    <3>1. TaskTypeOK'
      BY <1>0, <2>1, <2>2, <2>5 DEF TaskTypeOK
    <3>2. \A q \in Participants : completed'[q] <= attempts'[q]
      BY <2>2, <2>4, <2>5, HarnessAssumption DEF TaskInv
    <3> QED
      BY <2>1, <2>3, <2>5, <3>1, <3>2 DEF TaskInv, AnswerInv
  <2>6. CASE /\ completed' = [completed EXCEPT ![p] = @ + 1]
             /\ task' = IF completed'[p] = Rounds THEN [task EXCEPT ![Client(p)] = "ok"] ELSE task
    <3>1. /\ completed' \in [Participants -> 0 .. Rounds] /\ completed'[p] = completed[p] + 1
          /\ \A q \in Participants : q # p => completed'[q] = completed[q]
      BY <1>0, <2>1, <2>4, <2>6, HarnessAssumption DEF TaskTypeOK
    <3>2. /\ task' \in [Components \cup TaskClients ->
                         {"absent", "starting", "running"} \cup Ended]
          /\ \A u \in Components \cup TaskClients : u # Client(p) => task'[u] = task[u]
          /\ \/ task'[Client(p)] = "running"
             \/ task'[Client(p)] = "ok" /\ completed'[p] = Rounds
      BY <1>0, <2>1, <2>6, TaskNames DEF TaskTypeOK, Ended
    <3>3. TaskTypeOK'
      BY <1>0, <2>1, <2>2, <3>1, <3>2 DEF TaskTypeOK
    <3>4. \A q \in Participants : completed'[q] <= attempts'[q]
      BY <2>1, <2>2, <2>4, <3>1, HarnessAssumption DEF TaskInv
    <3>5. \A q \in Participants : task'[Client(q)] = "ok" => completed'[q] = Rounds
      BY <3>1, <3>2, TaskNames DEF TaskInv
    <3>6. TaskInv'
      BY <2>1, <2>3, <3>2, <3>3, <3>4, <3>5, TaskNames DEF TaskInv, TaskTypeOK
    <3>7. AnswerInv'
      BY <1>0, <2>1, <2>3 DEF AnswerInv, TaskTypeOK
    <3> QED
      BY <3>6, <3>7
  <2> QED
    BY <1>4, <2>5, <2>6 DEF RoundEnds
<1>5. ASSUME NEW p \in Participants, ClientEnds(p)
      PROVE  TaskInv' /\ AnswerInv'
  <2>1. PICK how \in Failures \cup {"ok"} :
          /\ task[Client(p)] = "running" /\ task' = [task EXCEPT ![Client(p)] = how]
          /\ how = "ok" => completed[p] = Rounds
          /\ UNCHANGED <<loop, attempts, completed, harness, overdue, forewarned>>
    <3>1. Rounds = 0 => completed[p] = Rounds
      BY <1>0 DEF TaskTypeOK
    <3> QED
      BY <1>5, <3>1 DEF ClientEnds, Failures
  <2>2. TaskTypeOK'
    BY <1>0, <2>1 DEF TaskTypeOK, Ended, Failures
  <2>3. \A u \in Components \cup TaskClients : u # Client(p) => task'[u] = task[u]
    BY <1>0, <2>1 DEF TaskTypeOK
  <2>4. task'[Client(p)] = how
    BY <1>0, <2>1, TaskNames DEF TaskTypeOK
  <2>5. harness.at \in {"collect", "recheck"}
    BY <1>0, <2>1, TaskNames DEF TaskInv, TaskTypeOK
  <2>6. TaskInv'
    BY <2>1, <2>2, <2>3, <2>4, <2>5, TaskNames DEF TaskInv, TaskTypeOK, Failures
  <2>7. AnswerInv'
    BY <1>0, <2>1, <2>5 DEF AnswerInv, TaskTypeOK
  <2> QED
    BY <2>6, <2>7
<1> QED
  BY <1>1, <1>2, <1>3, <1>4, <1>5 DEF TasksAct

\* The way out of the wait, whatever the outcome: the clients that finished stay finished and no
\* client runs on, so an answer that is true of the clients, or blames none, is true from here.
LEMMA TearDownStep ==
  ASSUME TaskInv, AnswerInv, harness.at \in {"collect", "recheck"},
         NEW outcome \in {"ok", "client", "panic", "round_loop_stopped", "stalled"},
         NEW names \in SUBSET TaskClients,
         TearDown(outcome, names), UNCHANGED <<loop, attempts, completed, forewarned>>,
         outcome = "ok" => \A t \in TaskClients : task[t] = "ok",
         outcome = "client" => names # {} /\ \A t \in names : task[t] \in Failures,
         outcome = "round_loop_stopped" => loop = "gave_up",
         outcome = "stalled" =>
           /\ ~forewarned /\ \A t \in names : task[t] # "ok"
           /\ \A p \in Participants : Client(p) \notin names => attempts[p] = Rounds
  PROVE  TaskInv' /\ AnswerInv'
<1>0. TaskTypeOK
  BY DEF TaskInv
<1>1. /\ harness' = [harness EXCEPT !.at = "drain", !.outcome = outcome, !.names = names,
                                    !.cancelled = TRUE]
      /\ task' = Aborted(TaskClients) /\ overdue' = FALSE
  BY DEF TearDown
<1>2. /\ harness'.at = "drain" /\ harness'.outcome = outcome /\ harness'.names = names
      /\ harness'.collected = harness.collected /\ harness'.joined = harness.joined
      /\ harness'.failed = harness.failed
      /\ harness'.answered = harness.answered
  BY <1>0, <1>1 DEF TaskTypeOK
<1>3. TaskTypeOK'
  <2>1. task' \in [Components \cup TaskClients -> {"absent", "starting", "running"} \cup Ended]
    BY <1>0, <1>1, AbortedEffect
  <2> QED
    BY <1>0, <1>1, <2>1 DEF TaskTypeOK, TaskErrors
<1>4. /\ \A t \in Components : task'[t] = task[t]
      /\ \A t \in TaskClients : task'[t] \notin {"starting", "running"}
      /\ \A t \in TaskClients : task[t] \in Failures \cup {"ok"} => task'[t] = task[t]
      /\ \A t \in TaskClients : task'[t] = "ok" => task[t] = "ok"
  BY <1>0, <1>1, AbortedEffect, TaskNames DEF Ended, Failures
<1>5. harness.joined = {} /\ harness.at # "returned"
  BY DEF TaskInv
<1>6. TaskInv'
  BY <1>0, <1>2, <1>3, <1>4, <1>5, TaskNames DEF TaskInv, TaskTypeOK
<1>7. AnswerInv'
  BY <1>2, <1>4 DEF AnswerInv
<1> QED
  BY <1>6, <1>7

\* The harness's steps up to the drain.
LEMMA WaitStep ==
  ASSUME TaskInv, AnswerInv,
         \/ BindListeners \/ AwaitServer \/ AllCollected \/ NoticeLoopFailure
         \/ CollectTimesOut \/ Recheck \/ HealthRefuses \/ \E t \in TaskClients : CollectClient(t)
  PROVE  TaskInv' /\ AnswerInv'
<1>0. TaskTypeOK
  BY DEF TaskInv
<1>1. CASE BindListeners
  <2>1. /\ harness.at = "bind" /\ harness.joined = {}
        /\ UNCHANGED <<loop, attempts, completed, overdue, forewarned>>
    BY <1>1 DEF BindListeners, TaskInv
  <2>2. CASE harness' = Returned("bind", {}) /\ UNCHANGED task
    <3>1. harness' = [harness EXCEPT !.at = "returned", !.outcome = "bind", !.names = {}]
      BY <2>2 DEF Returned
    <3>2. TaskTypeOK'
      BY <1>0, <2>1, <2>2, <3>1 DEF TaskTypeOK, TaskErrors
    <3> QED
      BY <1>0, <2>1, <2>2, <3>1, <3>2 DEF TaskInv, AnswerInv, TaskTypeOK
  <2>3. CASE /\ harness' = [harness EXCEPT !.at = "await_server"]
             /\ task' = [task EXCEPT ![Server] = "starting"]
    <3>1. TaskTypeOK'
      BY <1>0, <2>1, <2>3 DEF TaskTypeOK
    <3>2. /\ task'[Server] = "starting" /\ task[Server] = "absent"
          /\ \A t \in Components \cup TaskClients : t # Server => task'[t] = task[t]
      BY <1>0, <2>1, <2>3, TaskNames DEF TaskTypeOK, TaskInv
    <3>3. /\ harness'.at = "await_server" /\ harness'.outcome = harness.outcome
          /\ harness'.names = harness.names /\ harness'.collected = harness.collected
          /\ harness'.joined = {} /\ harness'.failed = harness.failed
          /\ harness'.answered = harness.answered
      BY <1>0, <2>1, <2>3 DEF TaskTypeOK
    <3>4. TaskInv'
      BY <1>0, <2>1, <3>1, <3>2, <3>3, TaskNames DEF TaskInv, TaskTypeOK, Failures
    <3>5. AnswerInv'
      BY <1>0, <2>1, <3>3 DEF AnswerInv, TaskTypeOK
    <3> QED
      BY <3>4, <3>5
  <2> QED
    BY <1>1, <2>2, <2>3 DEF BindListeners
<1>2. CASE AwaitServer
  <2>1. /\ harness.at = "await_server" /\ harness.joined = {} /\ overdue' = FALSE
        /\ UNCHANGED <<loop, attempts, completed, forewarned>> /\ harness.outcome = "none"
        /\ task[Server] \notin {"absent", "aborted"}
    BY <1>2, TaskNames DEF AwaitServer, TaskInv, AnswerInv
  <2>2. CASE ServerVerdict = "ready"
    <3>1. /\ harness' = [harness EXCEPT !.at = "collect"]
          /\ task' = [t \in DOMAIN task |-> IF t = Server THEN task[t] ELSE "running"]
      BY <1>2, <2>2 DEF AwaitServer
    <3>2. TaskTypeOK'
      BY <1>0, <2>1, <3>1 DEF TaskTypeOK
    <3>3. /\ task'[Server] = task[Server]
          /\ \A t \in Components \cup TaskClients : t # Server => task'[t] = "running"
      BY <1>0, <3>1, TaskNames DEF TaskTypeOK
    <3>4. /\ harness'.at = "collect" /\ harness'.outcome = "none"
          /\ harness'.names = harness.names /\ harness'.collected = harness.collected
          /\ harness'.joined = {} /\ harness'.failed = harness.failed
          /\ harness'.answered = harness.answered
      BY <1>0, <2>1, <3>1 DEF TaskTypeOK
    <3>5. harness.collected = {} /\ harness.failed = {}
      BY <1>0, <2>1 DEF TaskInv, TaskTypeOK
    <3>6. TaskInv'
      BY <1>0, <2>1, <3>2, <3>3, <3>4, <3>5, TaskNames DEF TaskInv, TaskTypeOK, Failures
    <3>7. AnswerInv'
      BY <1>0, <2>1, <3>4 DEF AnswerInv, TaskTypeOK
    <3> QED
      BY <3>6, <3>7
  <2>3. CASE ServerVerdict # "ready"
    <3>1. /\ harness' = [harness EXCEPT !.at = "returned", !.outcome = ServerVerdict,
                                        !.names = {Server}]
          /\ task' = Aborted(Components) /\ ServerVerdict # "wait"
      BY <1>2, <2>3 DEF AwaitServer, Returned
    <3>2. /\ ServerVerdict \in {"server", "panic", "startup_timeout"}
          /\ ServerVerdict = "server" => task[Server] = "error"
          /\ ServerVerdict = "startup_timeout" => task[Server] \notin Failures
      <4>1. task[Server] = "error" => ServerVerdict = "server"
        BY DEF ServerVerdict, Settled, Failures
      <4>2. task[Server] = "panicked" => ServerVerdict = "panic"
        BY DEF ServerVerdict, Settled, Failures
      <4>3. task[Server] = "ok" => ServerVerdict = "startup_timeout"
        BY DEF ServerVerdict, Settled, Failures
      <4>4. task[Server] \notin Settled /\ overdue => ServerVerdict = "startup_timeout"
        BY DEF ServerVerdict, Settled, Failures
      <4>5. task[Server] \notin Settled /\ ~overdue => ServerVerdict \in {"ready", "wait"}
        BY DEF ServerVerdict, Settled, Failures
      <4> QED
        BY <2>3, <3>1, <4>1, <4>2, <4>3, <4>4, <4>5 DEF Settled, Failures
    <3>3. /\ task' \in [Components \cup TaskClients ->
                           {"absent", "starting", "running"} \cup Ended]
          /\ \A t \in TaskClients : task'[t] = task[t]
          /\ task[Server] = "error" => task'[Server] = "error"
          /\ task[Server] \notin Failures => task'[Server] \in {"ok", "aborted"}
      <4>1. task[Server] \notin Failures => task[Server] \in {"starting", "running", "ok"}
        BY <1>0, <2>1, TaskNames DEF TaskTypeOK, Failures, Ended
      <4> QED
        BY <1>0, <3>1, <4>1, AbortedEffect, TaskNames DEF Failures, Ended
    <3>4. TaskTypeOK'
      BY <1>0, <2>1, <3>1, <3>2, <3>3, TaskNames DEF TaskTypeOK, TaskErrors
    <3>5. /\ harness'.at = "returned" /\ harness'.outcome = ServerVerdict
          /\ harness'.names = {Server} /\ harness'.collected = harness.collected
          /\ harness'.joined = {} /\ harness'.failed = harness.failed
          /\ harness'.answered = harness.answered
      BY <1>0, <2>1, <3>1 DEF TaskTypeOK
    <3>6. TaskInv'
      BY <1>0, <2>1, <3>3, <3>4, <3>5, TaskNames DEF TaskInv, TaskTypeOK
    <3>7. AnswerInv'
      BY <3>2, <3>3, <3>5 DEF AnswerInv, Failures
    <3> QED
      BY <3>6, <3>7
  <2> QED
    BY <2>2, <2>3
<1>3. CASE AllCollected
  <2>1. /\ harness.at = "collect" /\ TearDown("ok", {}) /\ UNCHANGED <<loop, attempts, completed, forewarned>>
        /\ \A t \in TaskClients : task[t] = "ok"
    BY <1>3 DEF AllCollected, TaskInv
  <2> QED
    BY <2>1, TearDownStep
<1>4. CASE NoticeLoopFailure
  BY <1>4, TearDownStep DEF NoticeLoopFailure
<1>5. CASE CollectTimesOut
  <2>1. /\ harness.at = "collect" /\ harness' = [harness EXCEPT !.at = "recheck"]
        /\ UNCHANGED <<task, loop, attempts, completed, overdue, forewarned>>
    BY <1>5 DEF CollectTimesOut
  <2>2. /\ harness'.at = "recheck" /\ harness'.outcome = harness.outcome
        /\ harness'.names = harness.names /\ harness'.collected = harness.collected
        /\ harness'.joined = harness.joined /\ harness'.failed = harness.failed
        /\ harness'.answered = harness.answered
    BY <1>0, <2>1 DEF TaskTypeOK
  <2>3. TaskTypeOK'
    BY <1>0, <2>1 DEF TaskTypeOK
  <2> QED
    BY <2>1, <2>2, <2>3 DEF TaskInv, AnswerInv
<1>6. CASE Recheck
  <2>1. harness.at = "recheck" /\ UNCHANGED <<loop, attempts, completed, forewarned>>
    BY <1>6 DEF Recheck
  <2>2. CASE loop = "gave_up"
    BY <1>6, <2>1, <2>2, TearDownStep DEF Recheck
  <2>3. CASE loop # "gave_up"
    <3> DEFINE slow == Unfinished
    <3>1. TearDown("stalled", slow)
      BY <1>6, <2>3 DEF Recheck
    <3>2. slow \subseteq TaskClients
      BY DEF TaskClients, Unfinished
    <3>3. \A t \in slow : task[t] # "ok"
      <4>1. \A p \in Participants : attempts[p] < Rounds => completed[p] # Rounds
        BY <1>0, HarnessAssumption DEF TaskTypeOK, TaskInv
      <4> QED
        BY <4>1 DEF TaskInv, Unfinished
    <3>4. ~forewarned
      BY <1>0, <2>3 DEF TaskInv, TaskTypeOK
    <3>5. \A p \in Participants : Client(p) \notin slow => attempts[p] = Rounds
      BY <1>0, HarnessAssumption DEF TaskTypeOK, Unfinished
    <3> HIDE DEF slow
    <3> QED
      BY <2>1, <3>1, <3>2, <3>3, <3>4, <3>5, TearDownStep
  <2> QED
    BY <2>2, <2>3
<1>7. ASSUME NEW t \in TaskClients, CollectClient(t)
      PROVE  TaskInv' /\ AnswerInv'
  <2>1. /\ harness.at = "collect" /\ t \in TaskClients /\ task[t] \in Ended
        /\ UNCHANGED <<loop, attempts, completed, forewarned>>
    BY <1>7 DEF CollectClient, Uncollected
  <2>2. CASE task[t] = "ok"
    <3>1. /\ harness' = [harness EXCEPT !.collected = @ \cup {t}] /\ UNCHANGED <<task, overdue>>
      BY <1>7, <2>2 DEF CollectClient
    <3>2. /\ harness'.at = "collect" /\ harness'.outcome = harness.outcome
          /\ harness'.names = harness.names /\ harness'.collected = harness.collected \cup {t}
          /\ harness'.joined = harness.joined /\ harness'.failed = harness.failed
          /\ harness'.answered = harness.answered
      BY <1>0, <2>1, <3>1 DEF TaskTypeOK
    <3>3. TaskTypeOK'
      BY <1>0, <2>1, <3>1 DEF TaskTypeOK
    <3> QED
      BY <2>1, <2>2, <3>1, <3>2, <3>3 DEF TaskInv, AnswerInv
  <2>3. CASE task[t] = "error"
    <3>1. TearDown("client", {t})
      BY <1>7, <2>3 DEF CollectClient
    <3> QED
      BY <2>1, <2>3, <3>1, TearDownStep DEF Failures
  <2>4. CASE task[t] \notin {"ok", "error"}
    <3>1. TearDown("panic", {t})
      BY <1>7, <2>4 DEF CollectClient
    <3> QED
      BY <2>1, <2>4, <3>1, TearDownStep
  <2> QED
    BY <2>2, <2>3, <2>4
<1>8. CASE HealthRefuses
  <2>1. /\ harness.at = "await_server" /\ harness' = [harness EXCEPT !.answered = TRUE]
        /\ loop = "gave_up"
        /\ UNCHANGED <<task, loop, attempts, completed, overdue, forewarned>>
    BY <1>8 DEF HealthRefuses
  <2>2. /\ harness'.at = harness.at /\ harness'.outcome = harness.outcome
        /\ harness'.names = harness.names /\ harness'.collected = harness.collected
        /\ harness'.joined = harness.joined /\ harness'.failed = harness.failed
    BY <1>0, <2>1 DEF TaskTypeOK
  <2>3. TaskTypeOK'
    BY <1>0, <2>1 DEF TaskTypeOK
  <2> QED
    BY <2>1, <2>2, <2>3 DEF TaskInv, AnswerInv
<1> QED
  BY <1>1, <1>2, <1>3, <1>4, <1>5, <1>6, <1>7, <1>8

\* The drain: every join is of a component that has settled, and the first failure is kept.
LEMMA DrainStep ==
  ASSUME TaskInv, AnswerInv,
         \/ Drained \/ GraceExpires \/ \E t \in Components : DrainComponent(t)
  PROVE  TaskInv' /\ AnswerInv'
<1>0. TaskTypeOK
  BY DEF TaskInv
<1>1. CASE Drained
  <2>1. /\ harness.at = "drain" /\ UNCHANGED <<task, loop, attempts, completed, overdue, forewarned>>
    BY <1>1 DEF Drained
  <2>2. CASE harness.outcome = "ok" /\ harness.failed # {}
    <3>1. harness' = [harness EXCEPT !.at = "returned", !.outcome = "component",
                                     !.names = harness.failed]
      BY <1>1, <2>2 DEF Drained, Returned
    <3>2. /\ harness'.at = "returned" /\ harness'.outcome = "component"
          /\ harness'.names = harness.failed /\ harness'.collected = harness.collected
          /\ harness'.joined = harness.joined /\ harness'.failed = harness.failed
          /\ harness'.answered = harness.answered
      BY <1>0, <3>1 DEF TaskTypeOK
    <3>3. TaskTypeOK'
      BY <1>0, <2>1, <3>1 DEF TaskTypeOK, TaskErrors
    <3> QED
      BY <2>1, <2>2, <3>2, <3>3 DEF TaskInv, AnswerInv
  <2>3. CASE ~(harness.outcome = "ok" /\ harness.failed # {})
    <3>1. harness' = [harness EXCEPT !.at = "returned", !.outcome = harness.outcome,
                                     !.names = harness.names]
      BY <1>1, <2>3 DEF Drained, Returned
    <3>2. /\ harness'.at = "returned" /\ harness'.outcome = harness.outcome
          /\ harness'.names = harness.names /\ harness'.collected = harness.collected
          /\ harness'.joined = harness.joined /\ harness'.failed = harness.failed
          /\ harness'.answered = harness.answered
      BY <1>0, <3>1 DEF TaskTypeOK
    <3>3. TaskTypeOK'
      BY <1>0, <2>1, <3>1 DEF TaskTypeOK
    <3> QED
      BY <2>1, <2>3, <3>2, <3>3 DEF TaskInv, AnswerInv
  <2> QED
    BY <2>2, <2>3
<1>2. CASE GraceExpires
  <2>1. /\ harness.at = "drain" /\ harness.joined # Components /\ task' = Aborted(Components)
        /\ harness' = [harness EXCEPT !.at = "returned", !.outcome = harness.outcome,
                                      !.names = harness.names]
        /\ UNCHANGED <<loop, attempts, completed, overdue, forewarned>>
    BY <1>2 DEF GraceExpires, Returned
  <2>2. /\ harness'.at = "returned" /\ harness'.outcome = harness.outcome
        /\ harness'.names = harness.names /\ harness'.collected = harness.collected
        /\ harness'.joined = harness.joined /\ harness'.failed = harness.failed
        /\ harness'.answered = harness.answered
    BY <1>0, <2>1 DEF TaskTypeOK
  <2>3. /\ task' \in [Components \cup TaskClients -> {"absent", "starting", "running"} \cup Ended]
        /\ \A t \in TaskClients : task'[t] = task[t]
        /\ \A t \in Components \cup TaskClients : task[t] \in Ended => task'[t] = task[t]
    BY <1>0, <2>1, AbortedEffect, TaskNames
  <2>4. TaskTypeOK'
    BY <1>0, <2>1, <2>3 DEF TaskTypeOK
  <2>5. TaskInv'
    BY <1>0, <2>1, <2>2, <2>3, <2>4, TaskNames DEF TaskInv, TaskTypeOK, Settled, Failures, Ended
  <2>6. AnswerInv'
    BY <1>0, <2>1, <2>2, <2>3, TaskNames DEF AnswerInv, TaskTypeOK, Failures, Ended
  <2> QED
    BY <2>5, <2>6
<1>3. ASSUME NEW t \in Components, DrainComponent(t)
      PROVE  TaskInv' /\ AnswerInv'
  <2>1. /\ harness.at = "drain" /\ t \in Components /\ task[t] \in Ended
        /\ harness' = [harness EXCEPT !.joined = @ \cup {t},
                         !.failed = IF @ = {} /\ task[t] \in Failures THEN {t} ELSE @]
        /\ UNCHANGED <<task, loop, attempts, completed, overdue, forewarned>>
    BY <1>3 DEF DrainComponent, Joinable
  <2>2. /\ harness'.at = "drain" /\ harness'.outcome = harness.outcome
        /\ harness'.names = harness.names /\ harness'.collected = harness.collected
        /\ harness'.joined = harness.joined \cup {t}
        /\ harness'.failed = IF harness.failed = {} /\ task[t] \in Failures
                             THEN {t} ELSE harness.failed
    BY <1>0, <2>1 DEF TaskTypeOK
  <2>3. task[t] \in Settled
    BY <2>1 DEF TaskInv, Ended, Settled, Failures
  <2>4. TaskTypeOK'
    BY <1>0, <2>1 DEF TaskTypeOK
  <2>5. CASE harness.failed = {} /\ task[t] \in Failures
    BY <2>1, <2>2, <2>3, <2>4, <2>5 DEF TaskInv, AnswerInv
  <2>6. CASE harness.failed = {} /\ task[t] \notin Failures
    BY <2>1, <2>2, <2>3, <2>4, <2>6 DEF TaskInv, AnswerInv, Settled, Failures
  <2>7. CASE harness.failed # {}
    BY <2>1, <2>2, <2>3, <2>4, <2>7 DEF TaskInv, AnswerInv
  <2> QED
    BY <2>5, <2>6, <2>7
<1> QED
  BY <1>1, <1>2, <1>3

\* Every step of the task tier keeps its invariant.
LEMMA TaskStep ==
  ASSUME TaskInv, AnswerInv, [TaskNext]_taskVars
  PROVE  TaskInv' /\ AnswerInv'
<1>1. CASE UNCHANGED taskVars
  BY <1>1 DEF taskVars, TaskInv, AnswerInv, TaskTypeOK
<1>2. CASE DeadlinePasses
  BY <1>2 DEF DeadlinePasses, TaskInv, AnswerInv, TaskTypeOK
<1> QED
  BY <1>1, <1>2, TasksActStep, WaitStep, DrainStep DEF TaskNext, HarnessActs

-----------------------------------------------------------------------------
(* The process tier *)

\* The participants' processes, told apart by their names.
LEMMA ProcessNames ==
  /\ ServerProc \in Reporting
  /\ \A i \in 1 .. Size : ClientProc(i) \in ClientProcs /\ ClientProc(i)[2] = i
  /\ \A c \in ClientProcs : c[2] \in 1 .. Size /\ c = ClientProc(c[2])
  /\ \A c \in Reporting : c \notin ClientProcs /\ c \notin ObserverProcs
  /\ \A c \in ObserverProcs : c \notin ClientProcs
  /\ Processes = Reporting \cup ClientProcs \cup ObserverProcs
  /\ 1 \in 1 .. Size
<1>1. \A i \in 1 .. Size : ClientProc(i) \in ClientProcs /\ ClientProc(i)[2] = i
  BY DEF ClientProc, ClientProcs
<1>2. \A c \in ClientProcs : c[1] = "client" /\ c[2] \in 1 .. Size /\ c = ClientProc(c[2])
  BY DEF ClientProc, ClientProcs
<1>3. \A c \in ObserverProcs : c[1] = "observer"
  BY DEF ObserverProc, ObserverProcs
<1>4. \A c \in Reporting : c[1] \in {"server", "node"}
  BY DEF Reporting, ServerProc, NodeProc
<1>5. ServerProc \in Reporting /\ 1 \in 1 .. Size
  BY SupervisorAssumption DEF Reporting
<1> QED
  BY <1>1, <1>2, <1>3, <1>4, <1>5 DEF Processes

\* Starting order never leads out of the federation.
LEMMA AfterIsProcess ==
  ASSUME NEW c \in Processes PROVE After(c) \in Processes
<1>1. CASE c = ServerProc
  <2>1. After(c) = NodeProc(1)
    BY <1>1 DEF After, ServerProc
  <2> QED
    BY <2>1, ProcessNames DEF Reporting
<1>2. ASSUME NEW i \in 1 .. Size, c = NodeProc(i) PROVE After(c) \in Processes
  <2>1. After(c) = IF i < Size THEN NodeProc(i + 1) ELSE ClientProc(1)
    BY <1>2 DEF After, NodeProc
  <2>2. i < Size => i + 1 \in 1 .. Size
    BY SupervisorAssumption
  <2>3. i < Size => NodeProc(i + 1) \in Reporting
    BY <2>2 DEF Reporting
  <2> QED
    BY <2>1, <2>3, ProcessNames
<1>3. ASSUME NEW i \in 1 .. Size, c = ClientProc(i) PROVE After(c) \in Processes
  <2>1. /\ i < Size => After(c) = ClientProc(i + 1)
        /\ ~(i < Size) /\ Watchers > 0 => After(c) = ObserverProc(1)
        /\ ~(i < Size) /\ ~(Watchers > 0) => After(c) = c
    BY <1>3 DEF After, ClientProc
  <2>2. i < Size => i + 1 \in 1 .. Size
    BY SupervisorAssumption
  <2>3. Watchers > 0 => ObserverProc(1) \in ObserverProcs
    BY SupervisorAssumption DEF ObserverProcs
  <2> QED
    BY <2>1, <2>2, <2>3, ProcessNames
<1>4. ASSUME NEW i \in 1 .. Watchers, c = ObserverProc(i) PROVE After(c) \in Processes
  <2>1. After(c) = IF i < Watchers THEN ObserverProc(i + 1) ELSE c
    BY <1>4 DEF After, ObserverProc
  <2>2. i < Watchers => ObserverProc(i + 1) \in ObserverProcs
    BY SupervisorAssumption DEF ObserverProcs
  <2> QED
    BY <2>1, <2>2, ProcessNames
<1> QED
  BY <1>1, <1>2, <1>3, <1>4 DEF Processes, Reporting, ClientProcs, ObserverProcs

\* A supervisor begins with nothing started.
LEMMA SupervisorStarts == SupervisorInit => SupervisorInv /\ ResultInv
<1> SUFFICES ASSUME SupervisorInit PROVE SupervisorInv /\ ResultInv
  OBVIOUS
<1>1. SupervisorTypeOK
  BY ProcessNames DEF SupervisorInit, SupervisorTypeOK
<1> QED
  BY <1>1 DEF SupervisorInit, SupervisorInv, ResultInv, Starting, Leaving

\* A child that runs may end: nothing that had ended changes, and nothing starts to run.
LEMMA EndStep ==
  ASSUME SupervisorInv, ResultInv, NEW c \in Processes, NEW how \in Exited \cup {"killed"},
         proc[c] = "running", proc' = [proc EXCEPT ![c] = how],
         healthy' \in BOOLEAN, UNCHANGED <<report, sup, expired, attach>>
  PROVE  SupervisorInv' /\ ResultInv'
<1>0. SupervisorTypeOK
  BY DEF SupervisorInv
<1>1. /\ \A d \in Processes : d # c => proc'[d] = proc[d]
      /\ proc'[c] = how /\ how # "running"
  BY <1>0 DEF SupervisorTypeOK, Exited
<1>2. SupervisorTypeOK'
  BY <1>0 DEF SupervisorTypeOK, Exited
<1>3. /\ \A d \in Processes : proc[d] = "success" => proc'[d] = "success"
      /\ \A d \in Processes : proc[d] = "failure" => proc'[d] = "failure"
      /\ \A d \in Processes : proc[d] \in Exited => proc'[d] \in Exited
      /\ \A d \in Processes : proc'[d] = "running" => proc[d] = "running"
  BY <1>1 DEF Exited
<1>4. SupervisorInv'
  BY <1>0, <1>2, <1>3, ProcessNames DEF SupervisorInv, SupervisorTypeOK
<1>5. ResultInv'
  BY <1>0, <1>3, ProcessNames DEF ResultInv, SupervisorTypeOK
<1> QED
  BY <1>4, <1>5

\* The children's steps, the clock's, and the end of the killing.
LEMMA ChildrenStep ==
  ASSUME SupervisorInv, ResultInv,
         ChildrenAct \/ TimeRunsOut \/ Return \/ \E c \in Processes : DropChild(c)
  PROVE  SupervisorInv' /\ ResultInv'
<1>0. SupervisorTypeOK
  BY DEF SupervisorInv
<1>1. CASE ChildServes
  <2>1. /\ healthy' = TRUE /\ UNCHANGED <<proc, report, sup, expired, attach>>
    BY <1>1 DEF ChildServes
  <2> QED
    BY <2>1 DEF SupervisorInv, ResultInv, SupervisorTypeOK
<1>2. ASSUME NEW c \in Processes, ChildExits(c) PROVE SupervisorInv' /\ ResultInv'
  <2>1. healthy' \in BOOLEAN
    BY <1>2, Zenon DEF ChildExits
  <2> QED
    BY <1>2, <2>1, EndStep DEF ChildExits
<1>3. ASSUME NEW c \in Reporting, ChildReports(c) PROVE SupervisorInv' /\ ResultInv'
  <2>1. PICK contents \in {"unreadable", "complete"} :
          /\ report' = [report EXCEPT ![c] = contents]
          /\ UNCHANGED <<proc, healthy, sup, expired, attach>>
    BY <1>3 DEF ChildReports
  <2>2. SupervisorTypeOK'
    BY <1>0, <2>1 DEF SupervisorTypeOK
  <2> QED
    BY <2>1, <2>2 DEF SupervisorInv, ResultInv
<1>4. CASE TimeRunsOut
  <2>1. /\ expired' = TRUE /\ UNCHANGED <<proc, report, healthy, sup, attach>>
    BY <1>4 DEF TimeRunsOut
  <2> QED
    BY <2>1 DEF SupervisorInv, ResultInv, SupervisorTypeOK
<1>5. ASSUME NEW c \in Processes, DropChild(c) PROVE SupervisorInv' /\ ResultInv'
  <2>1. healthy' \in BOOLEAN
    BY <1>5, Zenon DEF DropChild
  <2> QED
    BY <1>5, <2>1, EndStep DEF DropChild
<1>6. CASE Return
  <2>1. /\ sup.at = "drop" /\ sup' = [sup EXCEPT !.at = "returned"]
        /\ \A c \in Held : proc[c] # "running"
        /\ UNCHANGED <<proc, report, healthy, expired, attach>>
    BY <1>6 DEF Return
  <2>2. /\ sup'.at = "returned" /\ sup'.next = sup.next /\ sup'.finished = sup.finished
        /\ sup'.running = sup.running /\ sup'.result = sup.result /\ sup'.named = sup.named
    BY <1>0, <2>1 DEF SupervisorTypeOK
  <2>3. SupervisorTypeOK'
    BY <1>0, <2>1 DEF SupervisorTypeOK
  <2>4. SupervisorInv'
    BY <2>1, <2>2, <2>3 DEF SupervisorInv, Starting
  <2>5. \A c \in Processes \ ClientProcs : proc[c] # "running"
    BY <2>1, ProcessNames DEF Held
  <2>6. ResultInv'
    BY <2>1, <2>2, <2>5 DEF ResultInv, Leaving
  <2> QED
    BY <2>4, <2>6
<1> QED
  BY <1>1, <1>2, <1>3, <1>4, <1>5, <1>6 DEF ChildrenAct

\* Leaving: what is answered must be true of the processes as they are.
LEMMA LeaveStep ==
  ASSUME SupervisorInv, ResultInv, sup.at \notin Leaving,
         NEW result \in {"ok"} \cup RunErrors, NEW named \in SUBSET Processes,
         Leave(result, named), UNCHANGED <<proc, report, healthy, expired, attach>>,
         result = "ok" => /\ \A c \in ClientProcs : proc[c] = "success"
                          /\ \A o \in ObserverProcs : proc[o] \in Exited,
         result = "client_failed" => \A c \in named : proc[c] = "failure",
         result = "died" => \A c \in named : proc[c] \in Exited,
         result = "stalled" => \A c \in ClientProcs \ named : proc[c] = "success"
  PROVE  SupervisorInv' /\ ResultInv'
<1>0. SupervisorTypeOK
  BY DEF SupervisorInv
<1>1. /\ sup'.at = "drop" /\ sup'.next = sup.next /\ sup'.finished = sup.finished
      /\ sup'.running = sup.running /\ sup'.result = result /\ sup'.named = named
  BY <1>0 DEF SupervisorTypeOK, Leave
<1>2. SupervisorTypeOK'
  BY <1>0 DEF SupervisorTypeOK, Leave
<1>3. SupervisorInv'
  BY <1>1, <1>2 DEF SupervisorInv, Starting
<1>4. ResultInv'
  BY <1>1 DEF ResultInv, Leaving
<1> QED
  BY <1>3, <1>4

\* A step of the start-up that stays in it, or begins the wait.
LEMMA StartStep ==
  ASSUME SupervisorInv, ResultInv, sup.at \in Starting, SupervisorTypeOK',
         sup'.finished = sup.finished, sup'.running = sup.running, sup'.result = sup.result,
         \/ sup'.at = "spawn"
         \/ sup'.at \in {"file", "health", "alive", "clock"} /\ sup'.next \in Reporting
         \/ sup'.at = "poll" /\ sup'.next = ClientProc(1)
  PROVE  SupervisorInv' /\ ResultInv'
<1>1. sup.finished = {} /\ sup.running = {} /\ sup.result = "none"
  BY DEF SupervisorInv, ResultInv, Starting, Leaving
<1>2. ResultInv'
  BY <1>1 DEF ResultInv
<1>3. sup'.at = "poll" =>
        \A i \in 1 .. Size : ~(i < sup'.next[2])
  BY ProcessNames, SupervisorAssumption
<1>4. SupervisorInv'
  BY <1>1, <1>3, ProcessNames DEF SupervisorInv, Starting
<1> QED
  BY <1>2, <1>4

\* Going on to the next child, or to the wait.
LEMMA ProceedStep ==
  ASSUME SupervisorInv, ResultInv, sup.at \in Starting, NEW c \in Processes, Proceed(c),
         proc' \in [Processes -> {"absent", "running", "killed"} \cup Exited],
         UNCHANGED <<report, healthy, attach>>
  PROVE  SupervisorInv' /\ ResultInv'
<1>0. SupervisorTypeOK
  BY DEF SupervisorInv
<1>1. CASE After(c) = c
  <2>1. sup' = [sup EXCEPT !.at = "poll", !.next = ClientProc(1)] /\ expired' = FALSE
    BY <1>1 DEF Proceed
  <2>2. SupervisorTypeOK'
    BY <1>0, <2>1, ProcessNames DEF SupervisorTypeOK
  <2>3. /\ sup'.at = "poll" /\ sup'.next = ClientProc(1) /\ sup'.finished = sup.finished
        /\ sup'.running = sup.running /\ sup'.result = sup.result
    BY <1>0, <2>1 DEF SupervisorTypeOK
  <2> QED
    BY <2>2, <2>3, StartStep
<1>2. CASE After(c) # c
  <2>1. sup' = [sup EXCEPT !.at = "spawn", !.next = After(c)] /\ UNCHANGED expired
    BY <1>2 DEF Proceed
  <2>2. SupervisorTypeOK'
    BY <1>0, <2>1, AfterIsProcess DEF SupervisorTypeOK
  <2>3. /\ sup'.at = "spawn" /\ sup'.finished = sup.finished
        /\ sup'.running = sup.running /\ sup'.result = sup.result
    BY <1>0, <2>1 DEF SupervisorTypeOK
  <2> QED
    BY <2>2, <2>3, StartStep
<1> QED
  BY <1>1, <1>2

\* Starting the children and waiting for each to be ready.
LEMMA StartupStep ==
  ASSUME SupervisorInv, ResultInv,
         \/ SpawnFails \/ NoSuchNode \/ SpawnChild \/ ReadAddrFile \/ AskHealth \/ TryWait
         \/ CheckStartupClock
  PROVE  SupervisorInv' /\ ResultInv'
<1>0. SupervisorTypeOK /\ sup.next \in Processes /\ {sup.next} \in SUBSET Processes
  BY DEF SupervisorInv, SupervisorTypeOK
<1>1. CASE SpawnFails
  BY <1>0, <1>1, LeaveStep DEF SpawnFails, Leaving, RunErrors
<1>2. CASE NoSuchNode
  BY <1>0, <1>2, LeaveStep DEF NoSuchNode, Leaving, RunErrors
<1>3. CASE SpawnChild
  <2>1. /\ sup.at = "spawn" /\ proc' = [proc EXCEPT ![sup.next] = "running"]
        /\ UNCHANGED <<report, healthy, attach>>
    BY <1>3 DEF SpawnChild
  <2>2. proc' \in [Processes -> {"absent", "running", "killed"} \cup Exited]
    BY <1>0, <2>1 DEF SupervisorTypeOK
  <2>3. CASE sup.next \in Reporting
    <3>1. sup' = [sup EXCEPT !.at = "file", !.awaits = "file"] /\ expired' = FALSE
      BY <1>3, <2>3 DEF SpawnChild
    <3>2. SupervisorTypeOK'
      BY <1>0, <2>1, <2>2, <3>1 DEF SupervisorTypeOK
    <3>3. /\ sup'.at = "file" /\ sup'.next = sup.next /\ sup'.finished = sup.finished
          /\ sup'.running = sup.running /\ sup'.result = sup.result
      BY <1>0, <3>1 DEF SupervisorTypeOK
    <3> QED
      BY <2>1, <2>3, <3>2, <3>3, StartStep DEF Starting
  <2>4. CASE sup.next \notin Reporting
    <3>1. Proceed(sup.next)
      BY <1>3, <2>4 DEF SpawnChild
    <3> QED
      BY <1>0, <2>1, <2>2, <3>1, ProceedStep DEF Starting
  <2> QED
    BY <2>3, <2>4
<1>4. CASE ReadAddrFile
  <2>1. /\ sup.at = "file" /\ sup.next \in Reporting /\ UNCHANGED <<proc, report, healthy, attach>>
    BY <1>4 DEF ReadAddrFile, SupervisorInv
  <2>2. CASE report[sup.next] = "complete" /\ sup.next = ServerProc
    <3>1. sup' = [sup EXCEPT !.at = "health", !.awaits = "health"] /\ expired' = FALSE
      BY <1>4, <2>2 DEF ReadAddrFile
    <3>2. SupervisorTypeOK'
      BY <1>0, <2>1, <3>1 DEF SupervisorTypeOK
    <3>3. /\ sup'.at = "health" /\ sup'.next = sup.next /\ sup'.finished = sup.finished
          /\ sup'.running = sup.running /\ sup'.result = sup.result
      BY <1>0, <3>1 DEF SupervisorTypeOK
    <3> QED
      BY <2>1, <3>2, <3>3, StartStep DEF Starting
  <2>3. CASE report[sup.next] = "complete" /\ sup.next # ServerProc
    <3>1. Proceed(sup.next)
      BY <1>4, <2>3 DEF ReadAddrFile
    <3>2. proc' \in [Processes -> {"absent", "running", "killed"} \cup Exited]
      BY <1>0, <2>1 DEF SupervisorTypeOK
    <3> QED
      BY <1>0, <2>1, <3>1, <3>2, ProceedStep DEF Starting
  <2>4. CASE report[sup.next] # "complete" /\ report[sup.next] = "unreadable" /\ expired
    <3>1. Leave("unreadable", {sup.next}) /\ UNCHANGED expired
      BY <1>4, <2>4 DEF ReadAddrFile
    <3> QED
      BY <1>0, <2>1, <3>1, LeaveStep DEF Leaving, RunErrors
  <2>5. CASE report[sup.next] # "complete" /\ ~(report[sup.next] = "unreadable" /\ expired)
    <3>1. sup' = [sup EXCEPT !.at = "alive"] /\ UNCHANGED expired
      BY <1>4, <2>5 DEF ReadAddrFile
    <3>2. SupervisorTypeOK'
      BY <1>0, <2>1, <3>1 DEF SupervisorTypeOK
    <3>3. /\ sup'.at = "alive" /\ sup'.next = sup.next /\ sup'.finished = sup.finished
          /\ sup'.running = sup.running /\ sup'.result = sup.result
      BY <1>0, <3>1 DEF SupervisorTypeOK
    <3> QED
      BY <2>1, <3>2, <3>3, StartStep DEF Starting
  <2> QED
    BY <2>2, <2>3, <2>4, <2>5
<1>5. CASE AskHealth
  <2>1. /\ sup.at = "health" /\ sup.next \in Reporting
        /\ UNCHANGED <<proc, report, healthy, attach>>
    BY <1>5 DEF AskHealth, SupervisorInv
  <2>2. CASE healthy
    <3>1. Proceed(ServerProc) /\ ServerProc \in Processes
      BY <1>5, <2>2, ProcessNames DEF AskHealth
    <3>2. proc' \in [Processes -> {"absent", "running", "killed"} \cup Exited]
      BY <1>0, <2>1 DEF SupervisorTypeOK
    <3> QED
      BY <1>0, <2>1, <3>1, <3>2, ProceedStep DEF Starting
  <2>3. CASE ~healthy
    <3>1. sup' = [sup EXCEPT !.at = "alive"] /\ UNCHANGED expired
      BY <1>5, <2>3 DEF AskHealth
    <3>2. SupervisorTypeOK'
      BY <1>0, <2>1, <3>1 DEF SupervisorTypeOK
    <3>3. /\ sup'.at = "alive" /\ sup'.next = sup.next /\ sup'.finished = sup.finished
          /\ sup'.running = sup.running /\ sup'.result = sup.result
      BY <1>0, <3>1 DEF SupervisorTypeOK
    <3> QED
      BY <2>1, <3>2, <3>3, StartStep DEF Starting
  <2> QED
    BY <2>2, <2>3
<1>6. CASE TryWait
  <2>1. /\ sup.at = "alive" /\ sup.next \in Reporting
        /\ UNCHANGED <<proc, report, healthy, expired, attach>>
    BY <1>6 DEF TryWait, SupervisorInv
  <2>2. CASE proc[sup.next] \in Exited
    <3>1. Leave("died", {sup.next})
      BY <1>6, <2>2 DEF TryWait
    <3> QED
      BY <1>0, <2>1, <2>2, <3>1, LeaveStep DEF Leaving, RunErrors
  <2>3. CASE proc[sup.next] \notin Exited
    <3>1. sup' = [sup EXCEPT !.at = "clock"]
      BY <1>6, <2>3 DEF TryWait
    <3>2. SupervisorTypeOK'
      BY <1>0, <2>1, <3>1 DEF SupervisorTypeOK
    <3>3. /\ sup'.at = "clock" /\ sup'.next = sup.next /\ sup'.finished = sup.finished
          /\ sup'.running = sup.running /\ sup'.result = sup.result
      BY <1>0, <3>1 DEF SupervisorTypeOK
    <3> QED
      BY <2>1, <3>2, <3>3, StartStep DEF Starting
  <2> QED
    BY <2>2, <2>3
<1>7. CASE CheckStartupClock
  <2>1. /\ sup.at = "clock" /\ sup.next \in Reporting
        /\ UNCHANGED <<proc, report, healthy, expired, attach>>
    BY <1>7 DEF CheckStartupClock, SupervisorInv
  <2>2. CASE expired
    <3>1. Leave("startup_timeout", {sup.next})
      BY <1>7, <2>2 DEF CheckStartupClock
    <3> QED
      BY <1>0, <2>1, <3>1, LeaveStep DEF Leaving, RunErrors
  <2>3. CASE ~expired
    <3>1. sup' = [sup EXCEPT !.at = sup.awaits] /\ sup.awaits \in {"file", "health"}
      BY <1>0, <1>7, <2>3 DEF CheckStartupClock, SupervisorTypeOK
    <3>2. SupervisorTypeOK'
      BY <1>0, <2>1, <3>1 DEF SupervisorTypeOK
    <3>3. /\ sup'.at = sup.awaits /\ sup'.next = sup.next /\ sup'.finished = sup.finished
          /\ sup'.running = sup.running /\ sup'.result = sup.result
      BY <1>0, <3>1 DEF SupervisorTypeOK
    <3> QED
      BY <2>1, <3>1, <3>2, <3>3, StartStep DEF Starting
  <2> QED
    BY <2>2, <2>3
<1> QED
  BY <1>1, <1>2, <1>3, <1>4, <1>5, <1>6, <1>7

\* One client polled and found in `found`: what was known stays known, and it is known of one more.
LEMMA PolledStep ==
  ASSUME SupervisorInv, ResultInv, sup.at = "poll",
         UNCHANGED <<proc, report, healthy, expired, attach>>,
         NEW finished \in SUBSET ClientProcs, NEW running \in SUBSET ClientProcs,
         sup.finished \subseteq finished, sup.running \subseteq running,
         sup.next \in finished \cup running,
         \A c \in finished : proc[c] = "success",
         sup' = [sup EXCEPT !.at = IF sup.next[2] < Size THEN "poll" ELSE "observers",
                            !.next = IF sup.next[2] < Size
                                     THEN ClientProc(sup.next[2] + 1) ELSE sup.next,
                            !.finished = finished, !.running = running]
  PROVE  SupervisorInv' /\ ResultInv'
<1>0. SupervisorTypeOK
  BY DEF SupervisorInv
<1> DEFINE i == sup.next[2]
<1>1. i \in 1 .. Size /\ sup.next = ClientProc(i) /\ Size \in Nat
  BY ProcessNames, SupervisorAssumption DEF SupervisorInv
<1>2. \A j \in 1 .. Size : j <= i => ClientProc(j) \in finished \cup running
  <2>1. \A j \in 1 .. Size : j < i => ClientProc(j) \in sup.finished \cup sup.running
    BY DEF SupervisorInv
  <2>2. \A j \in 1 .. Size : j <= i => j < i \/ j = i
    BY <1>1
  <2> QED
    BY <1>1, <2>1, <2>2
<1>3. /\ sup'.finished = finished /\ sup'.running = running /\ sup'.result = sup.result
      /\ i < Size => sup'.at = "poll" /\ sup'.next = ClientProc(i + 1)
      /\ ~(i < Size) => sup'.at = "observers" /\ sup'.next = sup.next
  BY <1>0 DEF SupervisorTypeOK
<1>4. sup.result = "none"
  BY DEF ResultInv, Leaving
<1>5. ResultInv'
  BY <1>3, <1>4 DEF ResultInv, Leaving
<1>6. CASE i < Size
  <2>1. i + 1 \in 1 .. Size /\ \A j \in 1 .. Size : j < i + 1 => j <= i
    BY <1>1, <1>6
  <2>2. ClientProc(i + 1) \in ClientProcs /\ ClientProc(i + 1)[2] = i + 1
        /\ ClientProc(i + 1) \in Processes
    BY <2>1, ProcessNames
  <2>3. SupervisorTypeOK'
    BY <1>0, <1>6, <2>2 DEF SupervisorTypeOK
  <2>4. SupervisorInv'
    BY <1>2, <1>3, <1>6, <2>1, <2>2, <2>3 DEF SupervisorInv, Starting
  <2> QED
    BY <1>5, <2>4
<1>7. CASE ~(i < Size)
  <2>1. \A j \in 1 .. Size : j <= i
    BY <1>1, <1>7
  <2>2. ClientProcs \subseteq finished \cup running
    BY <1>2, <2>1, ProcessNames
  <2>3. SupervisorTypeOK'
    BY <1>0, <1>7 DEF SupervisorTypeOK
  <2>4. SupervisorInv'
    BY <1>3, <1>7, <2>2, <2>3 DEF SupervisorInv, Starting
  <2> QED
    BY <1>5, <2>4
<1> QED
  BY <1>6, <1>7

\* The wait: a turn over the clients, then the observers, then the clock.
LEMMA PollStep ==
  ASSUME SupervisorInv, ResultInv, PollClient \/ PollObservers \/ CheckRunClock
  PROVE  SupervisorInv' /\ ResultInv'
<1>0. SupervisorTypeOK
  BY DEF SupervisorInv
<1>1. CASE PollClient
  <2> DEFINE c == sup.next
             at == IF c[2] < Size THEN "poll" ELSE "observers"
             next == IF c[2] < Size THEN ClientProc(c[2] + 1) ELSE c
             polled == [sup EXCEPT !.at = at, !.next = next]
  <2>1. /\ sup.at = "poll" /\ UNCHANGED <<proc, report, healthy, expired, attach>>
        /\ c \in ClientProcs /\ c \in Processes
        /\ sup.finished \subseteq ClientProcs /\ sup.running \subseteq ClientProcs
        /\ \A d \in sup.finished : proc[d] = "success"
    BY <1>0, <1>1, ProcessNames DEF PollClient, SupervisorInv, SupervisorTypeOK
  <2>2. CASE c \in sup.finished
    <3>1. sup' = polled
      BY <1>1, <2>2 DEF PollClient
    <3>2. sup' = [sup EXCEPT !.at = at, !.next = next, !.finished = sup.finished,
                             !.running = sup.running]
      BY <1>0, <3>1 DEF SupervisorTypeOK
    <3> QED
      BY <2>1, <2>2, <3>2, PolledStep
  <2>3. CASE c \notin sup.finished /\ proc[c] = "failure"
    <3>1. Leave("client_failed", {c})
      BY <1>1, <2>3 DEF PollClient
    <3> QED
      BY <2>1, <2>3, <3>1, LeaveStep DEF Leaving, RunErrors
  <2>4. CASE c \notin sup.finished /\ proc[c] = "success"
    <3>1. sup' = [polled EXCEPT !.finished = @ \cup {c}]
      BY <1>1, <2>4 DEF PollClient
    <3>2. sup' = [sup EXCEPT !.at = at, !.next = next, !.finished = sup.finished \cup {c},
                             !.running = sup.running]
      BY <1>0, <3>1 DEF SupervisorTypeOK
    <3>3. /\ sup.finished \cup {c} \in SUBSET ClientProcs /\ sup.running \in SUBSET ClientProcs
          /\ c \in (sup.finished \cup {c}) \cup sup.running
          /\ \A d \in sup.finished \cup {c} : proc[d] = "success"
      BY <2>1, <2>4
    <3> QED
      BY <2>1, <3>2, <3>3, PolledStep
  <2>5. CASE c \notin sup.finished /\ proc[c] \notin {"failure", "success"}
    <3>1. sup' = [polled EXCEPT !.running = @ \cup {c}]
      BY <1>1, <2>5 DEF PollClient
    <3>2. sup' = [sup EXCEPT !.at = at, !.next = next, !.finished = sup.finished,
                             !.running = sup.running \cup {c}]
      BY <1>0, <3>1 DEF SupervisorTypeOK
    <3>3. /\ sup.running \cup {c} \in SUBSET ClientProcs /\ sup.finished \in SUBSET ClientProcs
          /\ c \in sup.finished \cup (sup.running \cup {c})
      BY <2>1
    <3> QED
      BY <2>1, <3>2, <3>3, PolledStep
  <2> QED
    BY <2>2, <2>3, <2>4, <2>5
<1>2. CASE PollObservers
  <2>1. /\ sup.at = "observers" /\ UNCHANGED <<proc, report, healthy, expired, attach>>
        /\ ClientProcs \subseteq sup.finished \cup sup.running
        /\ \A c \in sup.finished : proc[c] = "success"
    BY <1>2 DEF PollObservers, SupervisorInv
  <2>2. CASE sup.running = {} /\ ObserversDone
    <3>1. Leave("ok", {})
      BY <1>2, <2>2 DEF PollObservers
    <3>2. /\ \A c \in ClientProcs : proc[c] = "success"
          /\ \A o \in ObserverProcs : proc[o] \in Exited
      BY <2>1, <2>2 DEF ObserversDone
    <3> QED
      BY <2>1, <3>1, <3>2, LeaveStep DEF Leaving
  <2>3. CASE ~(sup.running = {} /\ ObserversDone)
    <3>1. sup' = [sup EXCEPT !.at = "deadline"]
      BY <1>2, <2>3 DEF PollObservers
    <3>2. /\ sup'.at = "deadline" /\ sup'.next = sup.next /\ sup'.finished = sup.finished
          /\ sup'.running = sup.running /\ sup'.result = sup.result
      BY <1>0, <3>1 DEF SupervisorTypeOK
    <3>3. SupervisorTypeOK'
      BY <1>0, <2>1, <3>1 DEF SupervisorTypeOK
    <3>4. sup.result = "none"
      BY <2>1 DEF ResultInv, Leaving
    <3> QED
      BY <2>1, <3>2, <3>3, <3>4 DEF SupervisorInv, ResultInv, Starting, Leaving
  <2> QED
    BY <2>2, <2>3
<1>3. CASE CheckRunClock
  <2>1. /\ sup.at = "deadline" /\ UNCHANGED <<proc, report, healthy, expired, attach>>
        /\ ClientProcs \subseteq sup.finished \cup sup.running
        /\ \A c \in sup.finished : proc[c] = "success"
        /\ sup.running \in SUBSET Processes
    BY <1>0, <1>3, ProcessNames DEF CheckRunClock, SupervisorInv, SupervisorTypeOK
  <2>2. CASE expired
    <3>1. Leave("stalled", sup.running)
      BY <1>3, <2>2 DEF CheckRunClock
    <3>2. \A c \in ClientProcs \ sup.running : proc[c] = "success"
      BY <2>1
    <3> QED
      BY <2>1, <3>1, <3>2, LeaveStep DEF Leaving, RunErrors
  <2>3. CASE ~expired
    <3>1. sup' = [sup EXCEPT !.at = "poll", !.next = ClientProc(1), !.running = {}]
      BY <1>3, <2>3 DEF CheckRunClock
    <3>2. /\ sup'.at = "poll" /\ sup'.next = ClientProc(1) /\ sup'.finished = sup.finished
          /\ sup'.running = {} /\ sup'.result = sup.result
      BY <1>0, <3>1 DEF SupervisorTypeOK
    <3>3. SupervisorTypeOK'
      BY <1>0, <2>1, <3>1, ProcessNames DEF SupervisorTypeOK
    <3>4. sup.result = "none"
      BY <2>1 DEF ResultInv, Leaving
    <3>5. \A i \in 1 .. Size : ~(i < sup'.next[2])
      BY <3>2, ProcessNames, SupervisorAssumption
    <3>6. SupervisorInv'
      BY <2>1, <3>2, <3>3, <3>5, ProcessNames DEF SupervisorInv, Starting
    <3>7. ResultInv'
      BY <3>2, <3>4 DEF ResultInv, Leaving
    <3> QED
      BY <3>6, <3>7
  <2> QED
    BY <2>2, <2>3
<1> QED
  BY <1>1, <1>2, <1>3

\* Every step of the process tier keeps its invariant.
LEMMA SupervisorStep ==
  ASSUME SupervisorInv, ResultInv, [SupervisorNext]_supervisorVars
  PROVE  SupervisorInv' /\ ResultInv'
<1>1. CASE UNCHANGED supervisorVars
  BY <1>1 DEF supervisorVars, SupervisorInv, ResultInv, SupervisorTypeOK
<1> QED
  BY <1>1, ChildrenStep, StartupStep, PollStep DEF SupervisorNext, SupervisorActs

-----------------------------------------------------------------------------
(* The run *)

\* In every run of `cflux fed run`, in both tiers, what is known stays known and what will be
\* answered is settled before it is answered.
THEOREM LocalInvariant == LocalSpec => []LocalInv
<1>1. LocalInit => LocalInv
  BY TaskStarts, SupervisorStarts DEF LocalInit, LocalInv
<1>2. LocalInv /\ [LocalNext]_localVars => LocalInv'
  <2> SUFFICES ASSUME LocalInv, [LocalNext]_localVars PROVE LocalInv'
    OBVIOUS
  <2>1. [TaskNext]_taskVars /\ [SupervisorNext]_supervisorVars
    BY DEF LocalNext, localVars
  <2> QED
    BY <2>1, TaskStep, SupervisorStep DEF LocalInv
<1> QED
  BY <1>1, <1>2, PTL DEF LocalSpec

\* ReportIsHonest for every number of participants, observers and rounds: `cflux fed run` reports
\* success only of a run that succeeded, blames only what failed, and a stall leaves out only
\* clients that made every attempt.
THEOREM ReportIsHonestHolds == LocalSpec => []ReportIsHonest
<1>1. TaskInv /\ AnswerInv => TaskReportIsHonest
  <2> SUFFICES ASSUME TaskInv, AnswerInv, harness.at = "returned" PROVE TaskReportIsHonest
    BY DEF TaskReportIsHonest
  <2>1. harness.outcome = "ok" /\ harness.joined = Components =>
          \A t \in Components : task[t] = "ok"
    BY DEF TaskInv, AnswerInv
  <2>2. harness.outcome = "ok" =>
          \A p \in Participants : task[Client(p)] = "ok" /\ completed[p] = Rounds
    BY TaskNames DEF TaskInv, AnswerInv
  <2>3. harness.answered => loop = "gave_up"
    BY DEF TaskInv, TaskTypeOK
  <2> QED
    BY <2>1, <2>2, <2>3 DEF AnswerInv, TaskReportIsHonest, Failures
<1>2. SupervisorInv /\ ResultInv => ProcessReportIsHonest
  BY DEF ResultInv, ProcessReportIsHonest
<1>3. LocalInv => ReportIsHonest
  BY <1>1, <1>2 DEF LocalInv, ReportIsHonest
<1> QED
  BY <1>3, LocalInvariant, PTL
=============================================================================
