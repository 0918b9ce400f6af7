----------------------------- MODULE Supervisor -----------------------------
(***************************************************************************)
(* The same federation with every participant in a process of its own:     *)
(* run_watching of conflux-federation's process tier.  One blocking thread *)
(* starts the server, the nodes, the clients and the observers in that     *)
(* order, polls them, and kills what it holds when it returns.             *)
(*                                                                         *)
(* A child process exits when and as it likes, and nothing it does is      *)
(* assumed to happen.  A server or a node writes its address file by a     *)
(* rename, so the file is absent or whole; whole but without the awaited   *)
(* key is "unreadable".  The server's two addresses come from one file and *)
(* are awaited as one.  Each poll of a file, of a child or of the clock is *)
(* a step of its own, between which the children move on.                  *)
(***************************************************************************)
EXTENDS Naturals, FiniteSets

CONSTANTS
  Size,     \* plan.participants.len()
  Watchers  \* plan.observers.len()

ASSUME SupervisorAssumption == Size \in Nat \ {0} /\ Watchers \in Nat

VARIABLES
  proc,    \* every process: absent, running, success, failure or killed
  report,  \* the address file of the server and of each node
  healthy, \* the server answers GET /health with a 200
  sup,     \* where run_watching is
  expired, \* the deadline it is waiting under has passed
  attach   \* the node each observer asks for, fixed by the plan

supervisorVars == <<proc, report, healthy, sup, expired, attach>>

ServerProc == <<"server", 0>>
NodeProc(i) == <<"node", i>>
ClientProc(i) == <<"client", i>>
ObserverProc(i) == <<"observer", i>>
Reporting == {ServerProc} \cup {NodeProc(i) : i \in 1 .. Size}
ClientProcs == {ClientProc(i) : i \in 1 .. Size}
ObserverProcs == {ObserverProc(i) : i \in 1 .. Watchers}
Processes == Reporting \cup ClientProcs \cup ObserverProcs
Exited == {"success", "failure"}
RunErrors == {"spawn", "no_such_node", "unreadable", "died", "startup_timeout", "client_failed",
              "stalled"}

SupervisorTypeOK ==
  /\ proc \in [Processes -> {"absent", "running", "killed"} \cup Exited]
  /\ report \in [Reporting -> {"absent", "unreadable", "complete"}]
  /\ sup \in [at : {"spawn", "file", "health", "alive", "clock", "poll", "observers", "deadline",
                    "drop", "returned"},
              next : Processes, awaits : {"file", "health"}, finished : SUBSET ClientProcs,
              running : SUBSET ClientProcs, result : {"none", "ok"} \cup RunErrors,
              named : SUBSET Processes]
  /\ {healthy, expired} \subseteq BOOLEAN

SupervisorInit ==
  /\ proc = [c \in Processes |-> "absent"]
  /\ report = [c \in Reporting |-> "absent"]
  /\ healthy = FALSE /\ expired = FALSE
  /\ sup = [at |-> "spawn", next |-> ServerProc, awaits |-> "file", finished |-> {},
            running |-> {}, result |-> "none", named |-> {}]
  /\ attach \in [1 .. Watchers -> 1 .. Size + 1]

----------------------------------------------------------------------------
(* What the children may do.                                               *)

ChildExits(c) ==
  /\ proc[c] = "running"
  /\ \E how \in Exited : proc' = [proc EXCEPT ![c] = how]
  /\ healthy' = (healthy /\ c # ServerProc)
  /\ UNCHANGED <<report, sup, expired, attach>>

\* --addr-file: bind, then write_report_file, then serve.
ChildReports(c) ==
  /\ proc[c] = "running" /\ report[c] = "absent"
  /\ \E contents \in {"unreadable", "complete"} : report' = [report EXCEPT ![c] = contents]
  /\ UNCHANGED <<proc, healthy, sup, expired, attach>>

ChildServes ==
  /\ proc[ServerProc] = "running" /\ report[ServerProc] = "complete" /\ ~healthy
  /\ healthy' = TRUE
  /\ UNCHANGED <<proc, report, sup, expired, attach>>

TimeRunsOut ==
  /\ sup.at \in {"file", "health", "alive", "clock", "poll", "observers", "deadline"} /\ ~expired
  /\ expired' = TRUE
  /\ UNCHANGED <<proc, report, healthy, sup, attach>>

----------------------------------------------------------------------------
(* What the supervisor does.                                               *)

\* The function is left, whichever way: `children` is dropped next.
Leave(result, named) ==
  sup' = [sup EXCEPT !.at = "drop", !.result = result, !.named = named]

\* The child after c in starting order, or the wait when c is the last.
After(c) ==
  LET i == c[2] IN
    IF c[1] = "server" THEN NodeProc(1)
    ELSE IF c[1] = "node" THEN IF i < Size THEN NodeProc(i + 1) ELSE ClientProc(1)
    ELSE IF c[1] = "client" /\ i < Size THEN ClientProc(i + 1)
    ELSE IF c[1] # "observer" /\ Watchers > 0 THEN ObserverProc(1)
    ELSE IF c[1] = "observer" /\ i < Watchers THEN ObserverProc(i + 1)
    ELSE c

\* c is started and, where it must be, ready: the next one, or the wait under its own deadline.
Proceed(c) ==
  IF After(c) = c
  THEN sup' = [sup EXCEPT !.at = "poll", !.next = ClientProc(1)] /\ expired' = FALSE
  ELSE sup' = [sup EXCEPT !.at = "spawn", !.next = After(c)] /\ UNCHANGED expired

\* spawn and spawn_streaming: the log file or the program may be missing.  An old address file is
\* removed first.
SpawnFails ==
  /\ sup.at = "spawn"
  /\ Leave("spawn", {sup.next})
  /\ UNCHANGED <<proc, report, healthy, expired, attach>>

\* An observer's node is looked up before it is started.
NoSuchNode ==
  /\ sup.at = "spawn" /\ sup.next \in ObserverProcs /\ attach[sup.next[2]] > Size
  /\ Leave("no_such_node", {sup.next})
  /\ UNCHANGED <<proc, report, healthy, expired, attach>>

SpawnChild ==
  /\ sup.at = "spawn"
  /\ sup.next \in ObserverProcs => attach[sup.next[2]] <= Size
  /\ proc' = [proc EXCEPT ![sup.next] = "running"]
  /\ IF sup.next \in Reporting
     THEN sup' = [sup EXCEPT !.at = "file", !.awaits = "file"] /\ expired' = FALSE
     ELSE Proceed(sup.next)
  /\ UNCHANGED <<report, healthy, attach>>

\* await_addr's first look.  A file without the key is an error only past the deadline.
ReadAddrFile ==
  /\ sup.at = "file"
  /\ IF report[sup.next] = "complete"
     THEN IF sup.next = ServerProc
          THEN sup' = [sup EXCEPT !.at = "health", !.awaits = "health"] /\ expired' = FALSE
          ELSE Proceed(sup.next)
     ELSE /\ IF report[sup.next] = "unreadable" /\ expired
             THEN Leave("unreadable", {sup.next})
             ELSE sup' = [sup EXCEPT !.at = "alive"]
          /\ UNCHANGED expired
  /\ UNCHANGED <<proc, report, healthy, attach>>

AskHealth ==
  /\ sup.at = "health"
  /\ IF healthy THEN Proceed(ServerProc)
                ELSE sup' = [sup EXCEPT !.at = "alive"] /\ UNCHANGED expired
  /\ UNCHANGED <<proc, report, healthy, attach>>

\* A child that died has a reason, and a timeout would hide it.
TryWait ==
  /\ sup.at = "alive"
  /\ IF proc[sup.next] \in Exited THEN Leave("died", {sup.next})
                                  ELSE sup' = [sup EXCEPT !.at = "clock"]
  /\ UNCHANGED <<proc, report, healthy, expired, attach>>

CheckStartupClock ==
  /\ sup.at = "clock"
  /\ IF expired THEN Leave("startup_timeout", {sup.next})
                ELSE sup' = [sup EXCEPT !.at = sup.awaits]
  /\ UNCHANGED <<proc, report, healthy, expired, attach>>

\* One client polled.  An outcome once recorded is not asked for again.
PollClient ==
  /\ sup.at = "poll"
  /\ LET c == sup.next
         polled == [sup EXCEPT !.at = IF c[2] < Size THEN "poll" ELSE "observers",
                               !.next = IF c[2] < Size THEN ClientProc(c[2] + 1) ELSE c]
     IN  IF c \in sup.finished THEN sup' = polled
         ELSE IF proc[c] = "failure" THEN Leave("client_failed", {c})
         ELSE IF proc[c] = "success" THEN sup' = [polled EXCEPT !.finished = @ \cup {c}]
         ELSE sup' = [polled EXCEPT !.running = @ \cup {c}]
  /\ UNCHANGED <<proc, report, healthy, expired, attach>>

ObserversDone == \A o \in ObserverProcs : proc[o] \in Exited

\* The run is over when the clients and the observers have stopped.
PollObservers ==
  /\ sup.at = "observers"
  /\ IF sup.running = {} /\ ObserversDone THEN Leave("ok", {})
                                          ELSE sup' = [sup EXCEPT !.at = "deadline"]
  /\ UNCHANGED <<proc, report, healthy, expired, attach>>

CheckRunClock ==
  /\ sup.at = "deadline"
  /\ IF expired THEN Leave("stalled", sup.running)
                ELSE sup' = [sup EXCEPT !.at = "poll", !.next = ClientProc(1), !.running = {}]
  /\ UNCHANGED <<proc, report, healthy, expired, attach>>

\* Mutant: a child is pushed only once its address is known.
Held_Ready ==
  {c \in Reporting \cup ObserverProcs :
     proc[c] # "absent" /\ (c \in Reporting => report[c] = "complete")}

\* Children: what was pushed as soon as it was started.  The clients are kept in a vector of their
\* own, and dropping a std Child neither kills it nor waits for it.
Held == {c \in Reporting \cup ObserverProcs : proc[c] # "absent"}

\* Drop for Children: kill what still runs, and wait for it.
DropChild(c) ==
  /\ sup.at = "drop" /\ c \in Held /\ proc[c] = "running"
  /\ proc' = [proc EXCEPT ![c] = "killed"]
  /\ healthy' = (healthy /\ c # ServerProc)
  /\ UNCHANGED <<report, sup, expired, attach>>

Return ==
  /\ sup.at = "drop" /\ \A c \in Held : proc[c] # "running"
  /\ sup' = [sup EXCEPT !.at = "returned"]
  /\ UNCHANGED <<proc, report, healthy, expired, attach>>

ChildrenAct ==
  \/ ChildServes
  \/ \E c \in Processes : ChildExits(c)
  \/ \E c \in Reporting : ChildReports(c)

SupervisorActs ==
  \/ SpawnFails \/ NoSuchNode \/ SpawnChild \/ ReadAddrFile \/ AskHealth \/ TryWait
  \/ CheckStartupClock \/ PollClient \/ PollObservers \/ CheckRunClock
  \/ \E c \in Processes : DropChild(c)
  \/ Return

SupervisorNext == ChildrenAct \/ TimeRunsOut \/ SupervisorActs
=============================================================================
