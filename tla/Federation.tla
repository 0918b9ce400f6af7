----------------------------- MODULE Federation -----------------------------
(***************************************************************************)
(* The fleet around the round loop: each member is a client application    *)
(* and the node that speaks for it.  A pull member runs the Rust or the    *)
(* Python client loop.  A push member listens to the task stream its node  *)
(* relays; what its application does with a task is its own, and it would  *)
(* submit the way the others do, so only the listening is modelled.  Calls *)
(* between node and server may lose their request or their answer; the     *)
(* node retries; the server may fail a round, crash, or be asked to stop.  *)
(*                                                                         *)
(* The server's rounds are what RoundLoop promises (RoundService).  A      *)
(* client's hop to its own node is on the same machine and is taken to be  *)
(* reliable.                                                               *)
(***************************************************************************)
EXTENDS Wire

CONSTANTS
  Members,
  Fleets,         \* the fleets to consider: functions Members -> Kinds
  ResultOf(_),    \* what each member's application trains
  Wanted,         \* RunConfig.rounds
  PushCapacity,   \* the broadcast channel of AppState
  QueueCapacity,  \* TASK_CHANNEL_CAPACITY and the task in the relay's hand
  MaxRound,       \* bound: the last round the server opens
  MaxTroubles(_)  \* bound, by the size of the fleet: messages lost, attempts
                  \* failed after taking their batch, crashes and shutdown
                  \* requests, together

Kinds == {"rust", "python", "push", "absent"}
MaxAttempts == 3

ASSUME FleetAssumption ==
  /\ Fleets \subseteq [Members -> Kinds]
  /\ {Wanted, PushCapacity, QueueCapacity, MaxRound} \subseteq Nat
  /\ \A m \in Members : TrainResult(ResultOf(m))

VARIABLES
  fleet,      \* the kind of each member
  flaky,      \* push members whose upstream accepts and closes each stream
  round,      \* AppState.round
  phase,      \* where the round loop is: between, open, working, stopped
  buffer,     \* the open buffer's updates, in order of arrival
  latch,      \* the shutdown watch
  grpc, http, \* the two servers: up, draining, down
  client,     \* each client loop
  node,       \* each node's call upstream
  relay,      \* each push node's relay task
  taken,      \* history: the rounds each member had an update accepted in
  losses, failures, restarts

Service == INSTANCE RoundService

server == <<round, phase, buffer>>
tasks  == <<latch, grpc, http>>
fixed  == <<fleet, flaky>>
vars == <<fleet, flaky, round, phase, buffer, latch, grpc, http, client, node, relay, taken,
          losses, failures, restarts>>

\* Whether one more thing may go wrong.
Troubled == losses + failures + restarts + (IF latch THEN 1 ELSE 0) 
              >= MaxTroubles(Cardinality({m \in Members : fleet[m] # "absent"}))

Pull(m) == fleet[m] \in {"rust", "python"}
Push(m) == fleet[m] = "push"
Stage == {"waiting", "training", "submitting", "asking", "listening", "done", "failed"}
Ended(m) == client[m].at \in {"done", "failed"}

TypeOK ==
  /\ fleet \in Fleets /\ flaky \subseteq {m \in Members : Push(m)}
  /\ round \in 1..(MaxRound + 1) /\ phase \in {"between", "open", "working", "stopped"}
  /\ latch \in BOOLEAN /\ {grpc, http} \subseteq {"up", "draining", "down"}
  /\ client \in [Members -> [at : Stage, task : 0..(MaxRound + 1), last : 0..(MaxRound + 1),
                             completed : 0..Wanted]]
  /\ node \in [Members -> [attempt : 1..MaxAttempts, call : 0..1, draw : 0..1]]
  /\ \A m \in Members :
       /\ relay[m].at \in {"none", "subscribing", "streaming", "dropped", "reporting", "ended"}
       /\ relay[m].failures \in 0..MaxAttempts
       /\ Len(relay[m].backlog) <= PushCapacity /\ Len(relay[m].queue) <= QueueCapacity
  /\ losses \in Nat /\ failures \in Nat /\ restarts \in Nat

\* A client asked for no rounds returns at once.
NewClient(m) == [at |-> IF Pull(m) /\ Wanted > 0 THEN "waiting"
                        ELSE IF Push(m) THEN "listening" ELSE "done",
                 task |-> 0, last |-> 0, completed |-> 0]
NewRelay(m) == [at |-> IF Push(m) THEN "subscribing" ELSE "none", failures |-> 0,
                delivered |-> FALSE, backlog |-> <<>>, queue |-> <<>>]
NewNode == [attempt |-> 1, call |-> 0, draw |-> 0]

\* Every node has registered upstream and every client with its node.
Init ==
  /\ fleet \in Fleets
  /\ flaky \in SUBSET {m \in Members : Push(m)}
  /\ Service!Init /\ buffer = <<>>
  /\ latch = FALSE /\ grpc = "up" /\ http = "up"
  /\ client = [m \in Members |-> NewClient(m)]
  /\ node = [m \in Members |-> NewNode]
  /\ relay = [m \in Members |-> NewRelay(m)]
  /\ taken = {}
  /\ losses = 0 /\ failures = 0 /\ restarts = 0

-----------------------------------------------------------------------------
(* The server *)

\* push_sender.send: a subscriber that has fallen behind by the channel's
\* capacity loses the oldest task it had not read.
Announced(backlog) ==
  LET longer == Append(backlog, round)
  IN  IF Len(backlog) = PushCapacity THEN Tail(longer) ELSE longer

OpenRound ==
  /\ ~latch /\ round <= MaxRound
  /\ Service!Open
  /\ buffer' = <<>>
  /\ relay' = [m \in Members |->
       IF relay[m].at = "streaming" THEN [relay[m] EXCEPT !.backlog = Announced(@)]
                                    ELSE relay[m]]
  /\ UNCHANGED <<fixed, tasks, client, node, taken, losses, failures, restarts>>

\* Quorum or deadline: the buffer may flush at any time.
FlushRound ==
  /\ Service!Flush
  /\ UNCHANGED <<fixed, buffer, tasks, client, node, relay, taken, losses, failures, restarts>>

CompleteRound ==
  /\ buffer # <<>>
  /\ Service!Complete
  /\ buffer' = <<>>
  /\ UNCHANGED <<fixed, tasks, client, node, relay, taken, losses, failures, restarts>>

\* EmptyBatch, or an error after the batch was taken.
FailRound ==
  /\ phase = "working"
  /\ \/ buffer = <<>> /\ UNCHANGED failures
     \/ buffer # <<>> /\ ~Troubled /\ failures' = failures + 1
  /\ Service!Fail
  /\ buffer' = <<>>
  /\ UNCHANGED <<fixed, tasks, client, node, relay, taken, losses, restarts>>

\* A fatal error, before a round opens (a spent budget, a batch the method's
\* citation cannot cover) or after its batch was taken, ends the loop while
\* both servers stay up.
HaltRounds ==
  /\ phase = "working" \/ (phase = "between" /\ ~latch)
  /\ ~Troubled /\ failures' = failures + 1
  /\ Service!Stop
  /\ buffer' = <<>>
  /\ UNCHANGED <<fixed, tasks, client, node, relay, taken, losses, restarts>>

RequestShutdown ==
  /\ ~latch /\ ~Troubled
  /\ latch' = TRUE
  /\ UNCHANGED <<fixed, server, grpc, http, client, node, relay, taken, losses, failures, restarts>>

\* Mutation: the loop notices the latch only when a round has succeeded.
StopRounds_AfterSuccess ==
  /\ phase = "working" /\ buffer # <<>> /\ latch
  /\ Service!Stop
  /\ UNCHANGED <<fixed, buffer, tasks, client, node, relay, taken, losses, failures, restarts>>

\* The round loop looks at the latch between rounds.
StopRounds ==
  /\ phase = "between" /\ latch
  /\ Service!Stop
  /\ UNCHANGED <<fixed, buffer, tasks, client, node, relay, taken, losses, failures, restarts>>

\* serve_with_incoming_shutdown: no new calls, and the open task streams
\* are waited for.
StopGrpc ==
  /\ latch
  /\ \/ grpc = "up" /\ grpc' = "draining"
     \/ /\ grpc = "draining" /\ \A m \in Members : relay[m].at # "streaming"
        /\ grpc' = "down"
  /\ UNCHANGED <<fixed, server, latch, http, client, node, relay, taken, losses, failures, restarts>>

\* axum's graceful shutdown; the handlers all answer at once.
StopHttp ==
  /\ latch /\ http = "up"
  /\ http' = "down"
  /\ UNCHANGED <<fixed, server, latch, grpc, client, node, relay, taken, losses, failures, restarts>>

\* tokio::join! on the three tasks.
Returned == phase = "stopped" /\ grpc = "down" /\ http = "down"

\* The process dies and a new one starts; open streams break.
Restart ==
  /\ ~Troubled /\ ~latch
  /\ restarts' = restarts + 1
  /\ Service!Restart
  /\ buffer' = <<>>
  /\ relay' = [m \in Members |->
       IF relay[m].at = "streaming" THEN [relay[m] EXCEPT !.at = "dropped", !.backlog = <<>>]
                                    ELSE relay[m]]
  /\ UNCHANGED <<fixed, tasks, client, node, taken, losses, failures>>

-----------------------------------------------------------------------------
(* The node's calls upstream *)

Reachable == grpc = "up"

\* A message does not get through: one of the losses, or no server.
Lose ==
  \/ ~Reachable /\ UNCHANGED losses
  \/ Reachable /\ ~Troubled /\ losses' = losses + 1

FirstAttempt(m) == [node EXCEPT ![m].attempt = 1]

\* submit_delta transforms once, before the retry loop.
BeginSubmit(m) ==
  /\ client' = [client EXCEPT ![m].at = "submitting"]
  /\ node' = [node EXCEPT ![m] = [attempt |-> 1, call |-> 1 - @.call, draw |-> 1 - @.draw]]

\* The client counts an answered submission and stops when it has enough.
Acknowledged(m) ==
  LET n == client[m].completed + 1
  IN  [client EXCEPT ![m] = [at |-> IF n = Wanted THEN "done" ELSE "waiting",
                             task |-> 0, last |-> @.task, completed |-> n]]

\* Mutation: the Rust client takes a refusal as final.
Refused_Final(m) ==
  [client EXCEPT ![m] = [@ EXCEPT !.at = "waiting", !.task = 0, !.last = client[m].task]]

\* What a client does when its submission fails: the Rust loop asks which
\* round the server is on, the Python loop gives the round up.
Refused(m) ==
  [client EXCEPT ![m] =
    IF fleet[m] = "rust" THEN [@ EXCEPT !.at = "asking"]
    ELSE [@ EXCEPT !.at = "waiting", !.task = 0, !.last = client[m].task]]

\* Mutation: the noise is drawn again for every attempt.
RetrySubmit_Renoises(m) ==
  IF node[m].attempt < MaxAttempts
    THEN /\ node' = [node EXCEPT ![m].attempt = @ + 1, ![m].draw = 1 - @]
         /\ UNCHANGED client
    ELSE node' = FirstAttempt(m) /\ client' = Refused(m)

\* Mutation: the last attempt is answered as if it had worked.
RetrySubmit_SwallowsLast(m) ==
  IF node[m].attempt < MaxAttempts
    THEN node' = [node EXCEPT ![m].attempt = @ + 1] /\ UNCHANGED client
    ELSE node' = FirstAttempt(m) /\ client' = Acknowledged(m)

\* An attempt failed: again with the same bytes, or the error to the client.
RetrySubmit(m) ==
  IF node[m].attempt < MaxAttempts
    THEN node' = [node EXCEPT ![m].attempt = @ + 1] /\ UNCHANGED client
    ELSE node' = FirstAttempt(m) /\ client' = Refused(m)

\* What a member's node sends under each draw of noise, and what the server
\* makes of it.
SentBy == [m \in Members |-> [draw \in 0..1 |-> ApplyLocalPrivacy(BuildChunks(ResultOf(m)), draw)]]
Received == [m \in Members |-> [draw \in 0..1 |-> Reassembled(SentBy[m][draw])]]
Fits == [m \in Members |-> ~TooLarge(SentBy[m][0])]

\* The transport collects the chunks, the current buffer takes the update.
Takes(m) == phase = "open" /\ client[m].task = round /\ Fits[m]

Taken(m) ==
  /\ buffer' = Append(buffer, [member |-> m, call |-> node[m].call,
                               update |-> Received[m][node[m].draw]])
  /\ taken' = taken \cup {<<m, restarts, round>>}

\* The request reaches the server and the answer reaches the node.
SubmitAnswered(m) ==
  /\ client[m].at = "submitting" /\ Reachable
  /\ \/ /\ Takes(m) /\ Taken(m)
        /\ client' = Acknowledged(m) /\ node' = FirstAttempt(m)
     \/ /\ ~Takes(m) /\ RetrySubmit(m)
        /\ UNCHANGED <<buffer, taken>>
  /\ UNCHANGED <<fixed, round, phase, tasks, relay, losses, failures, restarts>>

\* The request or its answer is lost.
SubmitLost(m) ==
  /\ client[m].at = "submitting"
  /\ Lose
  /\ \/ Reachable /\ Takes(m) /\ Taken(m)
     \/ UNCHANGED <<buffer, taken>>
  /\ RetrySubmit(m)
  /\ UNCHANGED <<fixed, round, phase, tasks, relay, failures, restarts>>

\* fetch_task is retried too; its error ends the client's run.
FetchLost(m) ==
  /\ client[m].at \in {"waiting", "asking"}
  /\ Lose
  /\ IF node[m].attempt < MaxAttempts
       THEN node' = [node EXCEPT ![m].attempt = @ + 1] /\ UNCHANGED client
       ELSE node' = FirstAttempt(m) /\ client' = [client EXCEPT ![m].at = "failed"]
  /\ UNCHANGED <<fixed, server, tasks, relay, taken, failures, restarts>>

-----------------------------------------------------------------------------
(* The client loops *)

\* fetch_task shows a round that is not the last one worked on.
FetchTask(m) ==
  /\ client[m].at = "waiting" /\ Reachable
  /\ round # client[m].last
  /\ client' = [client EXCEPT ![m].at = "training", ![m].task = round]
  /\ node' = FirstAttempt(m)
  /\ UNCHANGED <<fixed, server, tasks, relay, taken, losses, failures, restarts>>

\* train returns; a result of another shape ends the run.
Train(m) ==
  /\ client[m].at = "training"
  /\ \/ BeginSubmit(m)
     \/ client' = [client EXCEPT ![m].at = "failed"] /\ UNCHANGED node
  /\ UNCHANGED <<fixed, server, tasks, relay, taken, losses, failures, restarts>>

\* After a failed submission: the round has moved on, or the same chunks
\* are handed to the node once more.
AskRound(m) ==
  /\ client[m].at = "asking" /\ Reachable
  /\ \/ /\ round # client[m].task
        /\ client' = [client EXCEPT ![m] = [@ EXCEPT !.at = "waiting", !.task = 0,
                                                     !.last = client[m].task]]
        /\ node' = FirstAttempt(m)
     \/ round = client[m].task /\ BeginSubmit(m)
  /\ UNCHANGED <<fixed, server, tasks, relay, taken, losses, failures, restarts>>

\* A push application takes the next task, or learns that there are none.
TakePushed(m) ==
  /\ client[m].at = "listening" /\ relay[m].queue # <<>>
  /\ client' = [client EXCEPT ![m].at = IF Head(relay[m].queue) = 0 THEN "failed" ELSE @]
  /\ relay' = [relay EXCEPT ![m].queue = Tail(@)]
  /\ UNCHANGED <<fixed, server, tasks, node, taken, losses, failures, restarts>>

\* A push application drops its stream.
HangUp(m) ==
  /\ client[m].at = "listening"
  /\ client' = [client EXCEPT ![m].at = "done"]
  /\ UNCHANGED <<fixed, server, tasks, node, relay, taken, losses, failures, restarts>>

-----------------------------------------------------------------------------
(* relay_pushed_tasks *)

SetRelay(m, r) == relay' = [relay EXCEPT ![m] = r]

Subscribe(m) ==
  /\ relay[m].at = "subscribing" /\ Reachable
  /\ SetRelay(m, [relay[m] EXCEPT !.at = "streaming", !.delivered = FALSE, !.backlog = <<>>])
  /\ UNCHANGED <<fixed, server, tasks, client, node, taken, losses, failures, restarts>>

\* One more failure in the row; the third is reported.
Counted(r, n) ==
  [r EXCEPT !.failures = n, !.delivered = FALSE, !.backlog = <<>>,
            !.at = IF n >= MaxAttempts THEN "reporting" ELSE "subscribing"]

SubscribeFails(m) ==
  /\ relay[m].at = "subscribing"
  /\ Lose
  /\ SetRelay(m, Counted(relay[m], relay[m].failures + 1))
  /\ UNCHANGED <<fixed, server, tasks, client, node, taken, failures, restarts>>

\* A task arrives and is handed on; with nobody listening the relay ends.
RelayTask(m) ==
  /\ relay[m].at = "streaming" /\ m \notin flaky /\ relay[m].backlog # <<>>
  /\ IF Ended(m)
       THEN SetRelay(m, [relay[m] EXCEPT !.at = "ended", !.backlog = <<>>])
       ELSE /\ Len(relay[m].queue) < QueueCapacity
            /\ SetRelay(m, [relay[m] EXCEPT !.delivered = TRUE, !.failures = 0,
                                            !.backlog = Tail(@),
                                            !.queue = Append(@, Head(relay[m].backlog))])
  /\ UNCHANGED <<fixed, server, tasks, client, node, taken, losses, failures, restarts>>

\* The stream ends or breaks.
StreamBreaks(m) ==
  /\ relay[m].at = "streaming"
  /\ \/ m \in flaky /\ UNCHANGED losses
     \/ m \notin flaky /\ ~Troubled /\ losses' = losses + 1
  /\ SetRelay(m, [relay[m] EXCEPT !.at = "dropped", !.backlog = <<>>])
  /\ UNCHANGED <<fixed, server, tasks, client, node, taken, failures, restarts>>

\* Mutation: only a refused subscription counts as a failure.
CountsAsFailure_RefusedOnly(m) == FALSE

\* A subscription that delivered nothing counts as a failure.
CountsAsFailure(m) == ~relay[m].delivered

Resubscribe(m) ==
  /\ relay[m].at = "dropped"
  /\ SetRelay(m, Counted(relay[m], relay[m].failures + IF CountsAsFailure(m) THEN 1 ELSE 0))
  /\ UNCHANGED <<fixed, server, tasks, client, node, taken, losses, failures, restarts>>

\* Giving up: the error goes down the same channel as the tasks (task 0).
ReportGivenUp(m) ==
  /\ relay[m].at = "reporting"
  /\ Ended(m) \/ Len(relay[m].queue) < QueueCapacity
  /\ SetRelay(m, [relay[m] EXCEPT !.at = "ended",
                                  !.queue = IF Ended(m) THEN @ ELSE Append(@, 0)])
  /\ UNCHANGED <<fixed, server, tasks, client, node, taken, losses, failures, restarts>>

-----------------------------------------------------------------------------
Rounds == OpenRound \/ FlushRound \/ CompleteRound \/ FailRound \/ StopRounds
Stopping == StopGrpc \/ StopHttp
Client(m) == SubmitAnswered(m) \/ FetchTask(m) \/ AskRound(m) \/ Train(m) \/ TakePushed(m)
Relay(m) == Subscribe(m) \/ RelayTask(m) \/ Resubscribe(m) \/ ReportGivenUp(m)

Next ==
  \/ Rounds \/ HaltRounds \/ Stopping \/ RequestShutdown \/ Restart
  \/ \E m \in Members :
       \/ Client(m) \/ HangUp(m) \/ SubmitLost(m) \/ FetchLost(m)
       \/ Relay(m) \/ SubscribeFails(m) \/ StreamBreaks(m)

Spec == Init /\ [][Next]_vars

\* Every task keeps being scheduled, timers fire, and calls return, if only
\* with an error when there is no server.  A call made while a round is open
\* is not for ever overtaken by its deadline: a call and the poll interval
\* are fractions of a second, the deadline is round_timeout.
Fairness ==
  /\ WF_vars(Rounds) /\ WF_vars(Stopping)
  /\ \A m \in Members :
       /\ WF_vars(Client(m) \/ (~Reachable /\ (SubmitLost(m) \/ FetchLost(m))))
       /\ WF_vars(Relay(m) \/ (~Reachable /\ SubscribeFails(m))
                           \/ (m \in flaky /\ StreamBreaks(m)))
       /\ SF_vars(AskRound(m) /\ phase = "open")
       /\ SF_vars(SubmitAnswered(m) /\ Takes(m))

FairSpec == Spec /\ Fairness

-----------------------------------------------------------------------------
(* Properties *)

TakenOf(m) == {t \in taken : t[1] = m}

\* A client never counts more rounds than the server took an update from it
\* in: an acknowledgement is only ever the answer to a push that worked,
\* however the node's retries, lost answers, failed rounds and restarts fall
\* (conflux-client run, NodeBridge::submit_delta).
CompletedWereTaken == \A m \in Members : client[m].completed <= Cardinality(TakenOf(m))

\* The fleet's state is well typed and its count of completed rounds is true
\* (the count conflux-client run returns).
FleetInv == TypeOK /\ CompletedWereTaken

\* What a member trained arrives whole: reassembled, it is weight for weight
\* and variate for variate the result under one draw of noise.
ArrivesWhole(result, update) ==
  /\ \E draw \in 0..1 : update.weights = Noised(result.weights, draw)
  /\ update.variate = result.variate

\* All copies one submission left in the buffer are the same bytes
\* (NodeBridge::submit_delta transforms once, before it retries).
CopiesAgree ==
  \A i, j \in DOMAIN buffer :
    buffer[i].member = buffer[j].member /\ buffer[i].call = buffer[j].call
      => buffer[i].update = buffer[j].update

\* Every update in the buffer is what the member trained, and the copies of
\* one submission agree (build_chunks, apply_local_privacy,
\* AppState::submit_delta).
CopiesAreFaithful ==
  /\ \A i \in DOMAIN buffer : ArrivesWhole(ResultOf(buffer[i].member), buffer[i].update)
  /\ CopiesAgree

-----------------------------------------------------------------------------
(* The inductive invariants behind them *)

\* What the server keeps within its bounds, and the relays within theirs.
ServerInv ==
  /\ phase \in {"open", "working"} => round <= MaxRound
  /\ relay \in [Members -> [at : {"none", "subscribing", "streaming", "dropped", "reporting", "ended"},
                            failures : 0..MaxAttempts, delivered : BOOLEAN,
                            backlog : Seq(Nat), queue : Seq(Nat)]]
  /\ \A m \in Members : relay[m].at \in {"subscribing", "streaming", "dropped"}
                           => relay[m].failures < MaxAttempts

Working(m) == client[m].at \in {"training", "submitting", "asking"}

\* What the client may already have counted: not the round it works on,
\* which the server may have taken without the client knowing, nor one it
\* could still fetch.
Countable(m) ==
  IF Working(m) \/ (client[m].at = "waiting" /\ client[m].last # round)
    THEN TakenOf(m) \ {<<m, restarts, round>>}
    ELSE TakenOf(m)

\* Nothing is taken for a process or a round still to come; the count is of
\* rounds behind the client; and it stops before it has too many.
CountInv ==
  /\ IsFiniteSet(taken)
  /\ taken \subseteq Members \X Nat \X Nat
  /\ \A t \in taken : t[2] <= restarts /\ (t[2] = restarts => t[3] <= round)
  /\ \A m \in Members :
       /\ client[m].completed <= Cardinality(Countable(m))
       /\ Working(m) \/ client[m].at = "waiting" => client[m].completed < Wanted

\* The noise of a submission is drawn with it, so the copies of one
\* submission carry one draw.
Copy(m, draw) == [member |-> m, call |-> draw, update |-> Received[m][draw]]
CopyInv ==
  /\ \A m \in Members : node[m].call = node[m].draw
  /\ buffer \in Seq({Copy(m, draw) : m \in Members, draw \in 0..1})

FederationInv == TypeOK /\ ServerInv /\ CountInv /\ CopyInv

\* The chain from the client's chunks to the server's update loses nothing.
WireIsFaithful ==
  \A m \in Members, draw \in 0..1 : ArrivesWhole(ResultOf(m), Received[m][draw])

-----------------------------------------------------------------------------
RustRunning == \E m \in Members : fleet[m] = "rust" /\ ~Ended(m)

\* While a Rust client is running the federation gets through its rounds:
\* client and server never wait for each other, unless an attempt fails
\* after it took its batch, the loop halts on a fatal error or the process
\* restarts (conflux-client run's submission loop).
RoundsAdvance ==
  <>(round > MaxRound \/ ~RustRunning \/ latch \/ failures > 0 \/ restarts > 0)

\* A server that accepts every subscription and closes it without a task is
\* not retried for ever: the subscriber is told, or has left
\* (relay_pushed_tasks).
FlappingIsReported == \A m \in Members : m \in flaky ~> Ended(m)

\* Once shutdown is requested serve returns, or a task stream is still open
\* (serve's three tasks and their join).
ShutdownCompletes == latch ~> (Returned \/ \E m \in Members : relay[m].at = "streaming")

\* The client's comment on its submission loop: it keeps offering "for as
\* long as the server is still on this round", so that client and server
\* do not deadlock.
NoClientServerDeadlock ==
  <>(round > MaxRound \/ ~RustRunning \/ latch \/ restarts > 0 \/ phase = "stopped")
=============================================================================
