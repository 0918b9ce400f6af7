------------------------- MODULE Federation_proofs -------------------------
(***************************************************************************)
(* The fleet's safety for every fleet, number of rounds, capacity, chunk   *)
(* size and result, and however often calls are lost, rounds fail and the  *)
(* server restarts.                                                        *)
(*                                                                         *)
(* The heart is the client's count.  The server may have taken an update   *)
(* whose answer was lost, so the round a client works on may or may not be *)
(* among the taken ones already; what the client has counted are rounds    *)
(* behind it, and that is what Countable keeps apart.                      *)
(*                                                                         *)
(* The wire is a matter of offsets: build_chunks, the node and the server  *)
(* cut and join the same vector at the same places (Cut, Piece), and       *)
(* joining adjacent pieces one by one gives the vector back.               *)
(***************************************************************************)
EXTENDS Federation, FiniteSetTheorems, SequenceTheorems, WellFoundedInduction, TLAPS

Stages == {"none", "subscribing", "streaming", "dropped", "reporting", "ended"}
ClientState == [at : Stage, task : 0..(MaxRound + 1), last : 0..(MaxRound + 1),
                completed : 0..Wanted]
NodeState == [attempt : 1..MaxAttempts, call : 0..1, draw : 0..1]
RelayState == [at : Stages, failures : 0..MaxAttempts, delivered : BOOLEAN,
               backlog : Seq(Nat), queue : Seq(Nat)]

\* A relay within its bounds.
Bounded(r) ==
  /\ r \in RelayState
  /\ Len(r.backlog) <= PushCapacity /\ Len(r.queue) <= QueueCapacity
  /\ r.at \in {"subscribing", "streaming", "dropped"} => r.failures < MaxAttempts

\* The parts of the invariant, by the variables they are about.
FleetOK == fleet \in Fleets /\ flaky \subseteq {m \in Members : Push(m)}
RoundOK ==
  /\ round \in 1..(MaxRound + 1) /\ phase \in {"between", "open", "working", "stopped"}
  /\ phase \in {"open", "working"} => round <= MaxRound
TasksOK == latch \in BOOLEAN /\ {grpc, http} \subseteq {"up", "draining", "down"}
MembersOK == client \in [Members -> ClientState] /\ node \in [Members -> NodeState]
RelaysOK ==
  /\ relay \in [Members -> RelayState]
  /\ \A m \in Members : Bounded(relay[m])
CountsOK == losses \in Nat /\ failures \in Nat /\ restarts \in Nat

LEMMA PartsOfType ==
  TypeOK /\ ServerInv <=> FleetOK /\ RoundOK /\ TasksOK /\ MembersOK /\ RelaysOK /\ CountsOK
<1>1. ASSUME TypeOK, ServerInv PROVE RelaysOK
  BY <1>1 DEF TypeOK, ServerInv, RelaysOK, Bounded, RelayState, Stages
<1>2. ASSUME RelaysOK, NEW m \in Members
      PROVE  /\ relay[m].at \in Stages /\ relay[m].failures \in 0..MaxAttempts
             /\ Len(relay[m].backlog) <= PushCapacity /\ Len(relay[m].queue) <= QueueCapacity
             /\ relay[m].at \in {"subscribing", "streaming", "dropped"}
                  => relay[m].failures < MaxAttempts
  BY <1>2 DEF RelaysOK, Bounded, RelayState
<1>3. TypeOK /\ ServerInv => FleetOK /\ RoundOK /\ TasksOK /\ MembersOK /\ CountsOK
  BY DEF TypeOK, ServerInv, FleetOK, RoundOK, TasksOK, MembersOK, CountsOK, ClientState, NodeState
<1>4. ASSUME FleetOK, RoundOK, TasksOK, MembersOK, RelaysOK, CountsOK PROVE TypeOK
  BY <1>2, <1>4
     DEF TypeOK, FleetOK, RoundOK, TasksOK, MembersOK, CountsOK, ClientState, NodeState, Stages
<1>5. ASSUME RoundOK, RelaysOK PROVE ServerInv
  BY <1>2, <1>5 DEF ServerInv, RoundOK, RelaysOK, RelayState, Stages
<1> QED
  BY <1>1, <1>3, <1>4, <1>5

\* The count of completed rounds, and the copies in the buffer, only need the types they name.
SafetyInv == FleetOK /\ RoundOK /\ TasksOK /\ MembersOK /\ RelaysOK /\ CountsOK /\ CountInv /\ CopyInv

LEMMA SafetyIsFederation == FederationInv <=> SafetyInv
  BY PartsOfType DEF FederationInv, SafetyInv

-----------------------------------------------------------------------------
(* Sequences at their limit *)

\* A relay's backlog stays within the broadcast channel's capacity.
LEMMA AnnouncedFits ==
  ASSUME NEW backlog \in Seq(Nat), Len(backlog) <= PushCapacity, RoundOK
  PROVE  Announced(backlog) \in Seq(Nat) /\ Len(Announced(backlog)) <= PushCapacity
<1>1. round \in Nat /\ PushCapacity \in Nat
  BY FleetAssumption DEF RoundOK
<1> DEFINE longer == Append(backlog, round)
<1>2. longer \in Seq(Nat) /\ Len(longer) = Len(backlog) + 1
  BY <1>1
<1>3. Tail(longer) \in Seq(Nat) /\ Len(Tail(longer)) = Len(backlog)
  BY <1>2, Len(backlog) \in Nat
<1>4. Announced(backlog) = IF Len(backlog) = PushCapacity THEN Tail(longer) ELSE longer
  BY DEF Announced
<1> HIDE DEF longer
<1> QED
  BY <1>1, <1>2, <1>3, <1>4

\* One relay changed, to a state within its bounds.
LEMMA RelayMoves ==
  ASSUME RelaysOK, NEW m \in Members, NEW r, Bounded(r), SetRelay(m, r)
  PROVE  RelaysOK'
<1>1. relay' = [relay EXCEPT ![m] = r] /\ r \in RelayState
  BY DEF SetRelay, Bounded
<1>2. relay' \in [Members -> RelayState]
  BY <1>1 DEF RelaysOK
<1>3. \A n \in Members : relay'[n] = IF n = m THEN r ELSE relay[n]
  BY <1>1 DEF RelaysOK
<1> QED
  BY <1>2, <1>3 DEF RelaysOK, Bounded

-----------------------------------------------------------------------------
(* Counting *)

\* A client's count is of a finite set of taken rounds.
LEMMA CountFacts ==
  ASSUME SafetyInv, NEW m \in Members
  PROVE  /\ IsFiniteSet(TakenOf(m)) /\ IsFiniteSet(Countable(m))
         /\ Cardinality(TakenOf(m)) \in Nat /\ Cardinality(Countable(m)) \in Nat
         /\ Countable(m) \subseteq TakenOf(m)
         /\ client[m].completed \in Nat /\ client[m].completed <= Cardinality(Countable(m))
<1>1. IsFiniteSet(taken) /\ client[m].completed <= Cardinality(Countable(m))
  BY DEF SafetyInv, CountInv
<1>2. TakenOf(m) \in SUBSET taken
  BY DEF TakenOf
<1>3. IsFiniteSet(TakenOf(m))
  BY <1>1, <1>2, FS_Subset
<1>4. Countable(m) \in SUBSET TakenOf(m)
  BY DEF Countable
<1>5. IsFiniteSet(Countable(m))
  BY <1>3, <1>4, FS_Subset
<1>6. client[m].completed \in Nat
  BY FleetAssumption DEF SafetyInv, MembersOK, ClientState
<1> QED
  BY <1>1, <1>3, <1>4, <1>5, <1>6, FS_CardinalityType

\* The count stays true when what may be counted grows.
LEMMA CountGrows ==
  ASSUME SafetyInv, NEW m \in Members, NEW S, IsFiniteSet(S), Countable(m) \subseteq S
  PROVE  client[m].completed <= Cardinality(S)
<1>1. Cardinality(Countable(m)) <= Cardinality(S)
  BY FS_Subset
<1> QED
  BY <1>1, CountFacts, FS_CardinalityType

\* A step that moves neither the rounds nor what was taken, and one client m to the state c.
LEMMA ClientMoves ==
  ASSUME SafetyInv, UNCHANGED <<round, restarts, taken>>, NEW m \in Members,
         NEW c \in ClientState, client' = [client EXCEPT ![m] = c],
         c.completed = client[m].completed,
         c.at \in {"waiting", "training", "submitting", "asking"} =>
           \/ Working(m)
           \/ /\ client[m].at = "waiting"
              /\ client[m].last # round \/ (c.at = "waiting" /\ c.last = round)
  PROVE  client' \in [Members -> ClientState] /\ CountInv'
<1>0. client \in [Members -> ClientState]
  BY DEF SafetyInv, MembersOK
<1>1. client' \in [Members -> ClientState]
  BY <1>0
<1>2. \A n \in Members : client'[n] = IF n = m THEN c ELSE client[n]
  BY <1>0
<1>3. \A n \in Members : TakenOf(n)' = TakenOf(n)
  BY DEF TakenOf
<1>4. ASSUME NEW n \in Members
      PROVE  /\ client'[n].completed <= Cardinality(Countable(n)')
             /\ Working(n)' \/ client'[n].at = "waiting" => client'[n].completed < Wanted
  <2>1. CASE n # m
    <3>1. Countable(n)' = Countable(n)
      BY <1>2, <1>3, <2>1 DEF Countable, Working
    <3> QED
      BY <1>2, <2>1, <3>1 DEF SafetyInv, CountInv, Working
  <2>2. CASE n = m
    <3>1. client'[n] = c
      BY <1>2, <2>2
    <3>2. Countable(n) \subseteq Countable(n)' /\ Countable(n)' \subseteq TakenOf(n)
      BY <1>3, <2>2, <3>1 DEF Countable, Working
    <3>3. IsFiniteSet(Countable(n)')
      BY <3>2, CountFacts, FS_Subset
    <3>4. client[n].completed <= Cardinality(Countable(n)')
      BY <3>2, <3>3, CountGrows
    <3>5. Working(m)' \/ c.at = "waiting" => Working(m) \/ client[m].at = "waiting"
      BY <2>2, <3>1 DEF Working
    <3> QED
      BY <2>2, <3>1, <3>4, <3>5 DEF SafetyInv, CountInv, Working
  <2> QED
    BY <2>1, <2>2
<1>5. /\ IsFiniteSet(taken') /\ taken' \subseteq Members \X Nat \X Nat
      /\ \A t \in taken' : t[2] <= restarts' /\ (t[2] = restarts' => t[3] <= round')
  BY DEF SafetyInv, CountInv
<1> QED
  BY <1>1, <1>4, <1>5 DEF CountInv

\* A step that leaves the clients, the rounds and what was taken alone.
LEMMA CountUntouched ==
  ASSUME SafetyInv, UNCHANGED <<client, round, restarts, taken>>
  PROVE  CountInv'
BY DEF SafetyInv, CountInv, Countable, Working, TakenOf

\* A new round, or a new process: nothing was taken for it yet.
LEMMA RoundMoves ==
  ASSUME SafetyInv, UNCHANGED <<client, taken>>,
         \/ round' = round + 1 /\ restarts' = restarts
         \/ round' = 1 /\ restarts' = restarts + 1
  PROVE  CountInv'
<1>0. round \in Nat /\ restarts \in Nat
  BY FleetAssumption DEF SafetyInv, RoundOK, CountsOK
<1>1. /\ taken \subseteq Members \X Nat \X Nat
      /\ \A t \in taken : t[2] <= restarts /\ (t[2] = restarts => t[3] <= round)
  BY DEF SafetyInv, CountInv
<1>2. \A t \in taken : t[2] \in Nat /\ t[3] \in Nat
  BY <1>1
<1>3. \A t \in taken : t[2] # restarts' \/ t[3] # round'
  BY <1>0, <1>1, <1>2
<1>4. \A t \in taken : t[2] <= restarts' /\ (t[2] = restarts' => t[3] <= round')
  BY <1>0, <1>1, <1>2
<1>5. ASSUME NEW m \in Members
      PROVE  /\ client'[m].completed <= Cardinality(Countable(m)')
             /\ Working(m)' \/ client'[m].at = "waiting" => client'[m].completed < Wanted
  <2>1. TakenOf(m)' = TakenOf(m)
    BY DEF TakenOf
  <2>2. <<m, restarts', round'>> \notin taken
    BY <1>3
  <2>3. Countable(m)' = TakenOf(m)
    BY <2>1, <2>2 DEF Countable, TakenOf
  <2> QED
    BY <2>3, CountFacts, CountGrows DEF SafetyInv, CountInv, Working
<1> QED
  BY <1>1, <1>4, <1>5 DEF SafetyInv, CountInv

\* What is taken now is taken of this process and this round.
LEMMA TakenIsPast ==
  ASSUME SafetyInv, NEW m \in Members, taken' = taken \cup {<<m, restarts, round>>}
  PROVE  /\ taken' \subseteq Members \X Nat \X Nat
         /\ \A t \in taken' : t[2] <= restarts /\ (t[2] = restarts => t[3] <= round)
<1>0. round \in Nat /\ restarts \in Nat
  BY FleetAssumption DEF SafetyInv, RoundOK, CountsOK
<1> DEFINE cur == <<m, restarts, round>>
<1>1. cur \in Members \X Nat \X Nat /\ cur[2] = restarts /\ cur[3] = round
  BY <1>0
<1>2. restarts <= restarts /\ round <= round
  BY <1>0
<1>3. taken' = taken \cup {cur}
  OBVIOUS
<1> HIDE DEF cur
<1>4. CountInv
  BY DEF SafetyInv
<1> QED
  BY <1>1, <1>2, <1>3, <1>4 DEF CountInv

\* The server takes m's update for the current round; the client has not counted it and does not.
LEMMA TakenUnanswered ==
  ASSUME SafetyInv, NEW m \in Members, Working(m),
         taken' = taken \cup {<<m, restarts, round>>}, UNCHANGED <<client, round, restarts>>
  PROVE  CountInv'
<1>0. round \in Nat /\ restarts \in Nat
  BY FleetAssumption DEF SafetyInv, RoundOK, CountsOK
<1>1. IsFiniteSet(taken')
  BY FS_AddElement DEF SafetyInv, CountInv
<1>2. /\ taken' \subseteq Members \X Nat \X Nat
      /\ \A t \in taken' : t[2] <= restarts /\ (t[2] = restarts => t[3] <= round)
  BY TakenIsPast
<1>3. ASSUME NEW n \in Members PROVE Countable(n)' = Countable(n)
  <2>1. CASE n = m
    BY <2>1 DEF Countable, Working, TakenOf
  <2>2. CASE n # m
    <3>1. TakenOf(n)' = TakenOf(n)
      BY <2>2 DEF TakenOf
    <3> QED
      BY <3>1 DEF Countable, Working
  <2> QED
    BY <2>1, <2>2
<1> QED
  BY <1>1, <1>2, <1>3 DEF SafetyInv, CountInv, Working

\* The same, and the client is told that it failed.
LEMMA TakenRefused ==
  ASSUME SafetyInv, NEW m \in Members, Working(m), NEW c \in ClientState,
         taken' = taken \cup {<<m, restarts, round>>}, UNCHANGED <<round, restarts>>,
         client' = [client EXCEPT ![m] = c], c.completed = client[m].completed
  PROVE  client' \in [Members -> ClientState] /\ CountInv'
<1>0. /\ round \in Nat /\ restarts \in Nat /\ client \in [Members -> ClientState]
  BY FleetAssumption DEF SafetyInv, RoundOK, CountsOK, MembersOK
<1>1. IsFiniteSet(taken')
  BY FS_AddElement DEF SafetyInv, CountInv
<1>2. /\ taken' \subseteq Members \X Nat \X Nat
      /\ \A t \in taken' : t[2] <= restarts /\ (t[2] = restarts => t[3] <= round)
  BY TakenIsPast
<1>3. client' \in [Members -> ClientState] /\ client'[m] = c
      /\ \A k \in Members : k # m => client'[k] = client[k]
  BY <1>0
<1>4. ASSUME NEW k \in Members
      PROVE  /\ client'[k].completed <= Cardinality(Countable(k)')
             /\ Working(k)' \/ client'[k].at = "waiting" => client'[k].completed < Wanted
  <2>1. Countable(k) \subseteq Countable(k)'
    <3>1. CASE k = m
      <4>1. Countable(m) = TakenOf(m) \ {<<m, restarts, round>>}
        BY DEF Countable
      <4>2. TakenOf(m) \subseteq TakenOf(m)'
        BY DEF TakenOf
      <4>3. TakenOf(m)' \ {<<m, restarts, round>>} \subseteq Countable(m)'
        BY DEF Countable
      <4> QED
        BY <3>1, <4>1, <4>2, <4>3
    <3>2. CASE k # m
      <4>1. TakenOf(k)' = TakenOf(k)
        BY <3>2 DEF TakenOf
      <4> QED
        BY <1>3, <3>2, <4>1 DEF Countable, Working
    <3> QED
      BY <3>1, <3>2
  <2>2. Countable(k)' \in SUBSET taken'
    BY DEF Countable, TakenOf
  <2>3. IsFiniteSet(Countable(k)')
    BY <1>1, <2>2, FS_Subset
  <2>4. client[k].completed <= Cardinality(Countable(k)')
    BY <2>1, <2>3, CountGrows
  <2>5. client'[k].completed = client[k].completed
    BY <1>3
  <2>6. Working(k)' \/ client'[k].at = "waiting" => Working(k) \/ client[k].at = "waiting"
    BY <1>3 DEF Working
  <2> QED
    BY <2>4, <2>5, <2>6 DEF SafetyInv, CountInv
<1> QED
  BY <1>1, <1>2, <1>3, <1>4 DEF CountInv

\* The same, and the client hears of it: one more round behind it, and one more counted.
LEMMA TakenAnswered ==
  ASSUME SafetyInv, NEW m \in Members, Working(m), client[m].task = round,
         taken' = taken \cup {<<m, restarts, round>>}, UNCHANGED <<round, restarts>>,
         client' = Acknowledged(m)
  PROVE  client' \in [Members -> ClientState] /\ CountInv'
<1>0. /\ round \in Nat /\ restarts \in Nat /\ round \in 0..(MaxRound + 1) /\ 0 \in 0..(MaxRound + 1)
      /\ client \in [Members -> ClientState] /\ Wanted \in Nat /\ client[m].completed \in Nat
  BY FleetAssumption, CountFacts DEF SafetyInv, RoundOK, CountsOK, MembersOK
<1> DEFINE n == client[m].completed + 1
           c == [at |-> IF n = Wanted THEN "done" ELSE "waiting", task |-> 0,
                 last |-> client[m].task, completed |-> n]
<1>1. client' = [client EXCEPT ![m] = c]
  BY DEF Acknowledged
<1>2. client[m].completed < Wanted
  BY DEF SafetyInv, CountInv
<1>3. n \in 0..Wanted /\ (n # Wanted => n < Wanted)
  BY <1>0, <1>2
<1>4. c \in ClientState
  BY <1>0, <1>3 DEF ClientState, Stage
<1>5. /\ c.at \in {"done", "waiting"} /\ c.last = round /\ c.completed = n
      /\ c.at = "waiting" => n # Wanted
  OBVIOUS
<1> HIDE DEF c
<1>6. client' \in [Members -> ClientState] /\ client'[m] = c
      /\ \A k \in Members : k # m => client'[k] = client[k]
  BY <1>0, <1>1, <1>4
<1>7. IsFiniteSet(taken')
  BY FS_AddElement DEF SafetyInv, CountInv
<1>8. /\ taken' \subseteq Members \X Nat \X Nat
      /\ \A t \in taken' : t[2] <= restarts /\ (t[2] = restarts => t[3] <= round)
  BY TakenIsPast
<1>9. ASSUME NEW k \in Members, k # m
      PROVE  /\ client'[k].completed <= Cardinality(Countable(k)')
             /\ Working(k)' \/ client'[k].at = "waiting" => client'[k].completed < Wanted
  <2>1. TakenOf(k)' = TakenOf(k)
    BY <1>9 DEF TakenOf
  <2>2. Countable(k)' = Countable(k)
    BY <1>6, <1>9, <2>1 DEF Countable, Working
  <2> QED
    BY <1>6, <1>9, <2>2 DEF SafetyInv, CountInv, Working
<1>10. client'[m].completed <= Cardinality(Countable(m)')
  <2> DEFINE cur == <<m, restarts, round>>
  <2>1. Countable(m) = TakenOf(m) \ {cur}
    BY DEF Countable
  <2>2. TakenOf(m)' = Countable(m) \cup {cur} /\ cur \notin Countable(m)
    BY <2>1 DEF TakenOf
  <2>3. Countable(m)' = TakenOf(m)'
    BY <1>5, <1>6 DEF Countable, Working
  <2>4. Cardinality(Countable(m) \cup {cur}) = Cardinality(Countable(m)) + 1
    BY <2>2, CountFacts, FS_AddElement
  <2>5. client'[m].completed = client[m].completed + 1
    BY <1>5, <1>6
  <2> HIDE DEF cur
  <2> QED
    BY <2>2, <2>3, <2>4, <2>5, CountFacts
<1>11. Working(m)' \/ client'[m].at = "waiting" => client'[m].completed < Wanted
  BY <1>3, <1>5, <1>6 DEF Working
<1> QED
  BY <1>6, <1>7, <1>8, <1>9, <1>10, <1>11 DEF CountInv

-----------------------------------------------------------------------------
(* The steps *)

LEMMA FixedStays == ASSUME FleetOK, UNCHANGED fixed PROVE FleetOK'
  BY DEF FleetOK, fixed, Push

\* A step that leaves the nodes alone and the buffer as it is, or empties it.
LEMMA CopiesStay ==
  ASSUME CopyInv, UNCHANGED node, buffer' = buffer \/ buffer' = <<>>
  PROVE  CopyInv'
<1> DEFINE Copies == {Copy(m, draw) : m \in Members, draw \in 0..1}
<1>1. CopyInv' <=> /\ \A m \in Members : node'[m].call = node'[m].draw
                   /\ buffer' \in Seq(Copies)
  BY DEF CopyInv, Copy, Received, SentBy
<1>2. /\ \A m \in Members : node[m].call = node[m].draw
      /\ buffer \in Seq(Copies)
  BY DEF CopyInv
<1>3. <<>> \in Seq(Copies)
  OBVIOUS
<1> HIDE DEF Copies
<1> QED
  BY <1>1, <1>2, <1>3

\* The steps of the round loop.
LEMMA LoopStep ==
  ASSUME SafetyInv,
         \/ OpenRound \/ FlushRound \/ CompleteRound \/ FailRound \/ StopRounds
         \/ HaltRounds \/ Restart
  PROVE  SafetyInv'
<1>0. /\ FleetOK /\ RoundOK /\ TasksOK /\ MembersOK /\ RelaysOK /\ CountsOK /\ CopyInv
      /\ MaxRound \in Nat /\ round \in Nat
  BY FleetAssumption DEF SafetyInv, RoundOK
<1>1. CASE OpenRound
  <2>1. /\ round <= MaxRound /\ phase = "between" /\ phase' = "open" /\ UNCHANGED round
        /\ buffer' = <<>>
        /\ relay' = [m \in Members |->
             IF relay[m].at = "streaming" THEN [relay[m] EXCEPT !.backlog = Announced(@)]
                                          ELSE relay[m]]
        /\ UNCHANGED <<fixed, tasks, client, node, taken, losses, failures, restarts>>
    BY <1>1 DEF OpenRound, Service!Open
  <2>2. RoundOK' /\ TasksOK' /\ MembersOK' /\ CountsOK'
    BY <1>0, <2>1 DEF RoundOK, TasksOK, MembersOK, CountsOK, tasks
  <2>3. ASSUME NEW m \in Members PROVE relay'[m] \in RelayState /\ Bounded(relay'[m])
    <3>1. Bounded(relay[m]) /\ relay[m] \in RelayState
      BY <1>0 DEF RelaysOK
    <3>2. CASE relay[m].at = "streaming"
      <4> DEFINE told == Announced(relay[m].backlog)
      <4>1. told \in Seq(Nat) /\ Len(told) <= PushCapacity
        BY <1>0, <3>1, AnnouncedFits DEF Bounded, RelayState
      <4>2. relay'[m] = [relay[m] EXCEPT !.backlog = told]
        BY <2>1, <3>2
      <4> HIDE DEF told
      <4> QED
        BY <3>1, <4>1, <4>2 DEF Bounded, RelayState
    <3>3. CASE relay[m].at # "streaming"
      BY <2>1, <3>1, <3>3
    <3> QED
      BY <3>2, <3>3
  <2>4. RelaysOK'
    <3>1. \A m \in Members : relay'[m] \in RelayState /\ Bounded(relay[m])'
      BY <2>3 DEF Bounded
    <3>2. relay' = [m \in Members |-> relay'[m]]
      BY <2>1
    <3> QED
      BY <3>1, <3>2 DEF RelaysOK
  <2> QED
    BY <1>0, <2>1, <2>2, <2>4, FixedStays, CopiesStay, CountUntouched DEF SafetyInv
<1>2. CASE FlushRound
  <2>1. /\ phase = "open" /\ phase' = "working"
        /\ UNCHANGED <<round, fixed, buffer, tasks, client, node, relay, taken, losses, failures, restarts>>
    BY <1>2 DEF FlushRound, Service!Flush
  <2>2. RoundOK' /\ TasksOK' /\ MembersOK' /\ CountsOK' /\ RelaysOK'
    BY <1>0, <2>1 DEF RoundOK, TasksOK, MembersOK, CountsOK, RelaysOK, Bounded, tasks
  <2> QED
    BY <1>0, <2>1, <2>2, FixedStays, CopiesStay, CountUntouched DEF SafetyInv
<1>3. CASE CompleteRound
  <2>1. /\ phase = "working" /\ phase' = "between" /\ round' = round + 1 /\ buffer' = <<>>
        /\ UNCHANGED <<fixed, tasks, client, node, relay, taken, losses, failures, restarts>>
    BY <1>3 DEF CompleteRound, Service!Complete
  <2>2. RoundOK' /\ TasksOK' /\ MembersOK' /\ CountsOK' /\ RelaysOK'
    BY <1>0, <2>1 DEF RoundOK, TasksOK, MembersOK, CountsOK, RelaysOK, Bounded, tasks
  <2> QED
    BY <1>0, <2>1, <2>2, FixedStays, CopiesStay, RoundMoves DEF SafetyInv
<1>4. CASE FailRound \/ HaltRounds
  <2>1. /\ phase' \in {"between", "stopped"} /\ buffer' = <<>>
        /\ failures' = failures \/ failures' = failures + 1
        /\ UNCHANGED <<round, fixed, tasks, client, node, relay, taken, losses, restarts>>
    BY <1>4 DEF FailRound, HaltRounds, Service!Fail, Service!Stop
  <2>2. RoundOK' /\ TasksOK' /\ MembersOK' /\ CountsOK' /\ RelaysOK'
    BY <1>0, <2>1 DEF RoundOK, TasksOK, MembersOK, CountsOK, RelaysOK, Bounded, tasks
  <2> QED
    BY <1>0, <2>1, <2>2, FixedStays, CopiesStay, CountUntouched DEF SafetyInv
<1>5. CASE StopRounds
  <2>1. /\ phase' = "stopped"
        /\ UNCHANGED <<round, fixed, buffer, tasks, client, node, relay, taken, losses, failures, restarts>>
    BY <1>5 DEF StopRounds, Service!Stop
  <2>2. RoundOK' /\ TasksOK' /\ MembersOK' /\ CountsOK' /\ RelaysOK'
    BY <1>0, <2>1 DEF RoundOK, TasksOK, MembersOK, CountsOK, RelaysOK, Bounded, tasks
  <2> QED
    BY <1>0, <2>1, <2>2, FixedStays, CopiesStay, CountUntouched DEF SafetyInv
<1>6. CASE Restart
  <2>1. /\ phase' = "between" /\ round' = 1 /\ restarts' = restarts + 1 /\ buffer' = <<>>
        /\ relay' = [m \in Members |->
             IF relay[m].at = "streaming"
             THEN [relay[m] EXCEPT !.at = "dropped", !.backlog = <<>>] ELSE relay[m]]
        /\ UNCHANGED <<fixed, tasks, client, node, taken, losses, failures>>
    BY <1>6 DEF Restart, Service!Restart
  <2>2. RoundOK' /\ TasksOK' /\ MembersOK' /\ CountsOK'
    <3>1. 1 \in 1..(MaxRound + 1)
      BY <1>0
    <3>2. RoundOK'
      BY <2>1, <3>1 DEF RoundOK
    <3>3. CountsOK'
      <4>1. restarts \in Nat /\ losses \in Nat /\ failures \in Nat
        BY <1>0 DEF CountsOK
      <4>2. restarts' = restarts + 1 /\ losses' = losses /\ failures' = failures
        BY <2>1
      <4> QED
        BY <4>1, <4>2 DEF CountsOK
    <3>4. TasksOK' /\ MembersOK'
      BY <1>0, <2>1 DEF TasksOK, MembersOK, tasks
    <3> QED
      BY <3>2, <3>3, <3>4
  <2>3. ASSUME NEW m \in Members PROVE relay'[m] \in RelayState /\ Bounded(relay'[m])
    <3>1. Bounded(relay[m]) /\ relay[m] \in RelayState /\ PushCapacity \in Nat
      BY <1>0, FleetAssumption DEF RelaysOK
    <3>2. CASE relay[m].at = "streaming"
      <4>1. relay'[m] = [relay[m] EXCEPT !.at = "dropped", !.backlog = <<>>]
        BY <2>1, <3>2
      <4>2. <<>> \in Seq(Nat) /\ Len(<<>>) <= PushCapacity
        BY <3>1
      <4> QED
        BY <3>1, <3>2, <4>1, <4>2 DEF Bounded, RelayState, Stages
    <3>3. CASE relay[m].at # "streaming"
      BY <2>1, <3>1, <3>3
    <3> QED
      BY <3>2, <3>3
  <2>4. RelaysOK'
    <3>1. \A m \in Members : relay'[m] \in RelayState /\ Bounded(relay[m])'
      BY <2>3 DEF Bounded
    <3>2. relay' = [m \in Members |-> relay'[m]]
      BY <2>1
    <3> QED
      BY <3>1, <3>2 DEF RelaysOK
  <2> QED
    BY <1>0, <2>1, <2>2, <2>4, FixedStays, CopiesStay, RoundMoves DEF SafetyInv
<1> QED
  BY <1>1, <1>2, <1>3, <1>4, <1>5, <1>6

\* The steps of a shutdown.
LEMMA ShutdownStep ==
  ASSUME SafetyInv, StopGrpc \/ StopHttp \/ RequestShutdown
  PROVE  SafetyInv'
<1>0. /\ FleetOK /\ RoundOK /\ TasksOK /\ MembersOK /\ RelaysOK /\ CountsOK /\ CopyInv
  BY DEF SafetyInv
<1>1. UNCHANGED <<fixed, round, phase, buffer, client, node, relay, taken, losses, failures, restarts>>
  BY DEF StopGrpc, StopHttp, RequestShutdown, server
<1>2. TasksOK'
  BY <1>0 DEF TasksOK, StopGrpc, StopHttp, RequestShutdown
<1>3. RoundOK' /\ MembersOK' /\ CountsOK' /\ RelaysOK'
  BY <1>0, <1>1 DEF RoundOK, MembersOK, CountsOK, RelaysOK, Bounded
<1> QED
  BY <1>0, <1>1, <1>2, <1>3, FixedStays, CopiesStay, CountUntouched DEF SafetyInv

\* Every client state that a step leads to is one.
LEMMA ClientStates ==
  ASSUME SafetyInv, NEW m \in Members
  PROVE  /\ client[m] \in ClientState /\ client \in [Members -> ClientState]
         /\ round \in 0..(MaxRound + 1) /\ 0 \in 0..(MaxRound + 1)
         /\ \A at \in Stage : [client[m] EXCEPT !.at = at] \in ClientState
         /\ [client EXCEPT ![m].at = "failed"] = [client EXCEPT ![m] = [client[m] EXCEPT !.at = "failed"]]
<1>1. client \in [Members -> ClientState] /\ round \in Nat /\ MaxRound \in Nat
      /\ round \in 1..(MaxRound + 1)
  BY FleetAssumption DEF SafetyInv, MembersOK, RoundOK
<1>2. round \in 0..(MaxRound + 1) /\ 0 \in 0..(MaxRound + 1)
  BY <1>1
<1> QED
  BY <1>1, <1>2 DEF ClientState

\* Giving the round up, as the Python loop does at once and the Rust loop when it has asked.
GivenUp(m) == [client[m] EXCEPT !.at = "waiting", !.task = 0, !.last = client[m].task]

LEMMA GivenUpState ==
  ASSUME SafetyInv, NEW m \in Members
  PROVE  /\ GivenUp(m) \in ClientState /\ GivenUp(m).at = "waiting"
         /\ GivenUp(m).completed = client[m].completed
<1>1. /\ client[m] \in ClientState /\ client[m].task \in 0..(MaxRound + 1)
      /\ 0 \in 0..(MaxRound + 1) /\ "waiting" \in Stage
  BY ClientStates DEF ClientState, Stage
<1> QED
  BY <1>1 DEF GivenUp, ClientState

\* A node's attempt fails: it tries again, or its client learns of it.
LEMMA RetryStep ==
  ASSUME SafetyInv, NEW m \in Members, client[m].at = "submitting", RetrySubmit(m)
  PROVE  /\ node' \in [Members -> NodeState]
         /\ \A k \in Members : node'[k].call = node[k].call /\ node'[k].draw = node[k].draw
         /\ \/ UNCHANGED client
            \/ \E c \in ClientState :
                 /\ client' = [client EXCEPT ![m] = c]
                 /\ c.completed = client[m].completed
<1>0. node \in [Members -> NodeState]
  BY DEF SafetyInv, MembersOK
<1>1. CASE node[m].attempt < MaxAttempts
  <2>1. node' = [node EXCEPT ![m].attempt = @ + 1] /\ UNCHANGED client
    BY <1>1 DEF RetrySubmit
  <2>2. node[m].attempt + 1 \in 1..MaxAttempts
    BY <1>0, <1>1 DEF NodeState, MaxAttempts
  <2> QED
    BY <1>0, <2>1, <2>2 DEF NodeState
<1>2. CASE ~(node[m].attempt < MaxAttempts)
  <2>1. node' = [node EXCEPT ![m].attempt = 1] /\ client' = Refused(m)
    BY <1>2 DEF RetrySubmit, FirstAttempt
  <2>2. 1 \in 1..MaxAttempts
    BY DEF MaxAttempts
  <2>3. /\ node' \in [Members -> NodeState]
        /\ \A k \in Members : node'[k].call = node[k].call /\ node'[k].draw = node[k].draw
    BY <1>0, <2>1, <2>2 DEF NodeState
  <2>4. CASE fleet[m] = "rust"
    <3> DEFINE c == [client[m] EXCEPT !.at = "asking"]
    <3>1. client' = [client EXCEPT ![m] = c]
      BY <2>1, <2>4, ClientStates DEF Refused
    <3>2. c \in ClientState /\ c.completed = client[m].completed
      BY ClientStates DEF Stage, ClientState
    <3> QED
      BY <2>3, <3>1, <3>2
  <2>5. CASE fleet[m] # "rust"
    <3>1. client' = [client EXCEPT ![m] = GivenUp(m)]
      BY <2>1, <2>5, ClientStates DEF Refused, GivenUp
    <3> QED
      BY <2>3, <3>1, GivenUpState
  <2> QED
    BY <2>4, <2>5
<1> QED
  BY <1>1, <1>2

\* The copies in the buffer, when a node only counts its attempts and an update may be taken.
LEMMA CopyTaken ==
  ASSUME SafetyInv, NEW m \in Members,
         \A k \in Members : node'[k].call = node[k].call /\ node'[k].draw = node[k].draw,
         \/ UNCHANGED buffer
         \/ buffer' = Append(buffer, [member |-> m, call |-> node[m].call,
                                      update |-> Received[m][node[m].draw]])
  PROVE  CopyInv'
<1> DEFINE Copies == {Copy(k, draw) : k \in Members, draw \in 0..1}
<1>1. CopyInv' <=> /\ \A k \in Members : node'[k].call = node'[k].draw
                   /\ buffer' \in Seq(Copies)
  BY DEF CopyInv, Copy, Received, SentBy
<1>2. /\ \A k \in Members : node[k].call = node[k].draw
      /\ buffer \in Seq(Copies)
  BY DEF CopyInv, SafetyInv
<1>3. node[m].draw \in 0..1
  BY DEF SafetyInv, MembersOK, NodeState
<1>4. [member |-> m, call |-> node[m].call, update |-> Received[m][node[m].draw]]
        = Copy(m, node[m].draw)
  BY <1>2 DEF Copy
<1>5. Copy(m, node[m].draw) \in Copies
  BY <1>3
<1> HIDE DEF Copies
<1>6. Append(buffer, Copy(m, node[m].draw)) \in Seq(Copies)
  BY <1>2, <1>5
<1> QED
  BY <1>1, <1>2, <1>4, <1>6

\* A submission reaches the server or is lost, before it or after.
LEMMA SubmitStep ==
  ASSUME SafetyInv, NEW m \in Members, SubmitAnswered(m) \/ SubmitLost(m)
  PROVE  SafetyInv'
<1>0. /\ FleetOK /\ RoundOK /\ TasksOK /\ MembersOK /\ RelaysOK /\ CountsOK
      /\ client[m].at = "submitting" /\ Working(m)
      /\ UNCHANGED <<fixed, round, phase, tasks, relay, failures, restarts>>
      /\ losses' = losses \/ losses' = losses + 1
  BY DEF SafetyInv, SubmitAnswered, SubmitLost, Lose, Working
<1>1. FleetOK' /\ RoundOK' /\ TasksOK' /\ RelaysOK' /\ CountsOK'
  BY <1>0, FixedStays DEF RoundOK, TasksOK, RelaysOK, Bounded, CountsOK, tasks
<1>2. CASE SubmitAnswered(m) /\ Takes(m)
  <2>1. /\ client[m].task = round /\ Taken(m) /\ client' = Acknowledged(m)
        /\ node' = [node EXCEPT ![m].attempt = 1]
    BY <1>2 DEF SubmitAnswered, Takes, FirstAttempt
  <2>2. client' \in [Members -> ClientState] /\ CountInv'
    BY <1>0, <2>1, TakenAnswered DEF Taken
  <2>3. /\ node' \in [Members -> NodeState]
        /\ \A k \in Members : node'[k].call = node[k].call /\ node'[k].draw = node[k].draw
    <3>1. node \in [Members -> NodeState] /\ 1 \in 1..MaxAttempts
      BY <1>0 DEF MembersOK, MaxAttempts
    <3> QED
      BY <2>1, <3>1 DEF NodeState
  <2>4. CopyInv'
    BY <2>1, <2>3, CopyTaken DEF Taken
  <2> QED
    BY <1>1, <2>2, <2>3, <2>4 DEF SafetyInv, MembersOK
<1>3. CASE ~(SubmitAnswered(m) /\ Takes(m))
  <2>1. /\ RetrySubmit(m)
        /\ Taken(m) \/ UNCHANGED <<buffer, taken>>
    BY <1>3 DEF SubmitAnswered, SubmitLost
  <2>2. /\ node' \in [Members -> NodeState]
        /\ \A k \in Members : node'[k].call = node[k].call /\ node'[k].draw = node[k].draw
    BY <1>0, <2>1, RetryStep
  <2>3. CopyInv'
    BY <2>1, <2>2, CopyTaken DEF Taken
  <2>4. client' \in [Members -> ClientState] /\ CountInv'
    <3>1. CASE UNCHANGED taken /\ UNCHANGED client
      BY <1>0, <3>1, CountUntouched DEF MembersOK
    <3>2. CASE taken' = taken \cup {<<m, restarts, round>>} /\ UNCHANGED client
      BY <1>0, <3>2, TakenUnanswered DEF MembersOK
    <3>3. ASSUME NEW c \in ClientState, client' = [client EXCEPT ![m] = c],
                 c.completed = client[m].completed, UNCHANGED taken
          PROVE  client' \in [Members -> ClientState] /\ CountInv'
      BY <1>0, <3>3, ClientMoves
    <3>4. ASSUME NEW c \in ClientState, client' = [client EXCEPT ![m] = c],
                 c.completed = client[m].completed, taken' = taken \cup {<<m, restarts, round>>}
          PROVE  client' \in [Members -> ClientState] /\ CountInv'
      BY <1>0, <3>4, TakenRefused
    <3> QED
      BY <1>0, <2>1, <3>1, <3>2, <3>3, <3>4, RetryStep DEF Taken
  <2> QED
    BY <1>1, <2>2, <2>3, <2>4 DEF SafetyInv, MembersOK
<1> QED
  BY <1>2, <1>3

\* A client asks for a task, trains, or asks which round the server is on.
LEMMA PullStep ==
  ASSUME SafetyInv, NEW m \in Members, FetchTask(m) \/ FetchLost(m) \/ Train(m) \/ AskRound(m)
  PROVE  SafetyInv'
<1>0. /\ FleetOK /\ RoundOK /\ TasksOK /\ MembersOK /\ RelaysOK /\ CountsOK /\ CopyInv
      /\ UNCHANGED <<fixed, round, phase, buffer, tasks, relay, taken, failures, restarts>>
      /\ losses' = losses \/ losses' = losses + 1
  BY DEF SafetyInv, FetchTask, FetchLost, Train, AskRound, Lose, server
<1>1. FleetOK' /\ RoundOK' /\ TasksOK' /\ RelaysOK' /\ CountsOK'
  BY <1>0, FixedStays DEF RoundOK, TasksOK, RelaysOK, Bounded, CountsOK, tasks
<1>2. /\ node \in [Members -> NodeState] /\ client \in [Members -> ClientState]
      /\ node[m].attempt \in 1..MaxAttempts /\ 1 \in 1..MaxAttempts
      /\ node[m].call \in 0..1 /\ node[m].draw \in 0..1 /\ node[m].call = node[m].draw
  BY <1>0 DEF MembersOK, NodeState, MaxAttempts, CopyInv
<1>3. /\ node' \in [Members -> NodeState]
      /\ \A k \in Members : node'[k].call = node'[k].draw
  <2>1. CASE node' = node
    BY <1>0, <1>2, <2>1 DEF CopyInv
  <2>2. CASE node' = [node EXCEPT ![m].attempt = 1]
    BY <1>0, <1>2, <2>2 DEF CopyInv, NodeState
  <2>3. CASE node' = [node EXCEPT ![m].attempt = @ + 1] /\ node[m].attempt < MaxAttempts
    <3>1. node[m].attempt + 1 \in 1..MaxAttempts
      BY <1>2, <2>3 DEF MaxAttempts
    <3> QED
      BY <1>0, <1>2, <2>3, <3>1 DEF CopyInv, NodeState
  <2>4. CASE node' = [node EXCEPT ![m] = [attempt |-> 1, call |-> 1 - @.call, draw |-> 1 - @.draw]]
    <3> DEFINE n == [attempt |-> 1, call |-> 1 - node[m].call, draw |-> 1 - node[m].draw]
    <3>1. n \in NodeState /\ n.call = n.draw
      BY <1>2 DEF NodeState
    <3>2. node' = [node EXCEPT ![m] = n]
      BY <1>2, <2>4
    <3> HIDE DEF n
    <3> QED
      BY <1>0, <1>2, <3>1, <3>2 DEF CopyInv
  <2> QED
    BY <2>1, <2>2, <2>3, <2>4 DEF FetchTask, FetchLost, Train, AskRound, FirstAttempt, BeginSubmit
<1>4. CopyInv'
  <2> DEFINE Copies == {Copy(k, draw) : k \in Members, draw \in 0..1}
  <2>1. CopyInv' <=> /\ \A k \in Members : node'[k].call = node'[k].draw
                     /\ buffer' \in Seq(Copies)
    BY DEF CopyInv, Copy, Received, SentBy
  <2>2. buffer \in Seq(Copies)
    BY <1>0 DEF CopyInv
  <2> HIDE DEF Copies
  <2> QED
    BY <1>0, <1>3, <2>1, <2>2
<1>5. client' \in [Members -> ClientState] /\ CountInv'
  <2>1. CASE UNCHANGED client
    BY <1>0, <1>2, <2>1, CountUntouched
  <2>2. CASE client' = [client EXCEPT ![m].at = "failed"]
    <3> DEFINE c == [client[m] EXCEPT !.at = "failed"]
    <3>1. c \in ClientState /\ client' = [client EXCEPT ![m] = c]
      BY <2>2, ClientStates DEF Stage
    <3>2. c.at = "failed" /\ c.completed = client[m].completed
      BY ClientStates DEF ClientState
    <3> HIDE DEF c
    <3> QED
      BY <1>0, <3>1, <3>2, ClientMoves
  <2>3. CASE FetchTask(m)
    <3> DEFINE c == [client[m] EXCEPT !.at = "training", !.task = round]
    <3>1. client' = [client EXCEPT ![m] = c]
      BY <1>2, <2>3 DEF FetchTask
    <3>2. c \in ClientState /\ c.at = "training" /\ c.completed = client[m].completed
      <4>1. client[m] \in ClientState /\ round \in 0..(MaxRound + 1) /\ "training" \in Stage
        BY ClientStates DEF Stage
      <4> QED
        BY <4>1 DEF ClientState
    <3>3. client[m].at = "waiting" /\ client[m].last # round
      BY <2>3 DEF FetchTask
    <3> HIDE DEF c
    <3> QED
      BY <1>0, <3>1, <3>2, <3>3, ClientMoves
  <2>4. CASE client' = [client EXCEPT ![m].at = "submitting"] /\ Working(m)
    <3> DEFINE c == [client[m] EXCEPT !.at = "submitting"]
    <3>1. client' = [client EXCEPT ![m] = c]
      BY <1>2, <2>4
    <3>2. c \in ClientState /\ c.completed = client[m].completed
      BY ClientStates DEF ClientState, Stage
    <3> HIDE DEF c
    <3> QED
      BY <1>0, <2>4, <3>1, <3>2, ClientMoves
  <2>5. CASE client' = [client EXCEPT ![m] = GivenUp(m)] /\ Working(m)
    BY <1>0, <2>5, GivenUpState, ClientMoves
  <2> QED
    BY <2>1, <2>2, <2>3, <2>4, <2>5
       DEF FetchLost, Train, AskRound, BeginSubmit, GivenUp, Working
<1> QED
  BY <1>1, <1>3, <1>4, <1>5 DEF SafetyInv, MembersOK

\* A push application takes a task or leaves.
LEMMA ListenStep ==
  ASSUME SafetyInv, NEW m \in Members, TakePushed(m) \/ HangUp(m)
  PROVE  SafetyInv'
<1>0. /\ FleetOK /\ RoundOK /\ TasksOK /\ MembersOK /\ RelaysOK /\ CountsOK /\ CopyInv
      /\ UNCHANGED <<fixed, round, phase, buffer, tasks, node, taken, losses, failures, restarts>>
      /\ client[m].at = "listening"
  BY DEF SafetyInv, TakePushed, HangUp, server
<1>1. FleetOK' /\ RoundOK' /\ TasksOK' /\ CountsOK' /\ CopyInv'
  BY <1>0, FixedStays, CopiesStay DEF RoundOK, TasksOK, CountsOK, tasks
<1>2. client' \in [Members -> ClientState] /\ CountInv'
  <2>1. PICK at \in {"listening", "failed", "done"} : client' = [client EXCEPT ![m].at = at]
    BY <1>0 DEF TakePushed, HangUp
  <2> DEFINE c == [client[m] EXCEPT !.at = at]
  <2>2. client' = [client EXCEPT ![m] = c]
    BY <2>1, ClientStates
  <2>3. c \in ClientState /\ c.at = at /\ c.completed = client[m].completed
    <3>1. client[m] \in ClientState /\ at \in Stage
      BY ClientStates DEF Stage
    <3> QED
      BY <3>1 DEF ClientState
  <2> HIDE DEF c
  <2> QED
    BY <1>0, <2>1, <2>2, <2>3, ClientMoves
<1>3. RelaysOK'
  <2>1. CASE TakePushed(m)
    <3> DEFINE rest == Tail(relay[m].queue)
    <3>1. /\ relay[m].queue # <<>> /\ relay' = [relay EXCEPT ![m].queue = rest]
      BY <2>1 DEF TakePushed
    <3>2. relay[m] \in RelayState /\ Bounded(relay[m]) /\ QueueCapacity \in Nat
      BY <1>0, FleetAssumption DEF RelaysOK
    <3>3. /\ relay[m].queue \in Seq(Nat) /\ Len(relay[m].queue) <= QueueCapacity
      BY <3>2 DEF Bounded, RelayState
    <3>4. rest \in Seq(Nat) /\ Len(rest) <= QueueCapacity
      BY <3>1, <3>2, <3>3
    <3> HIDE DEF rest
    <3>5. relay' = [relay EXCEPT ![m] = [relay[m] EXCEPT !.queue = rest]]
      BY <1>0, <3>1 DEF RelaysOK
    <3>6. Bounded([relay[m] EXCEPT !.queue = rest])
      BY <3>2, <3>4 DEF Bounded, RelayState
    <3> QED
      BY <1>0, <3>5, <3>6, RelayMoves DEF SetRelay
  <2>2. CASE HangUp(m)
    BY <1>0, <2>2 DEF HangUp, RelaysOK, Bounded
  <2> QED
    BY <2>1, <2>2
<1> QED
  BY <1>0, <1>1, <1>2, <1>3 DEF SafetyInv, MembersOK

\* A relay that counts its failures reports before it has had one too many.
LEMMA CountedBounded ==
  ASSUME NEW r, Bounded(r), NEW n \in 0..MaxAttempts
  PROVE  Bounded(Counted(r, n))
<1>1. Counted(r, n) = [r EXCEPT !.failures = n, !.delivered = FALSE, !.backlog = <<>>,
                         !.at = IF n >= MaxAttempts THEN "reporting" ELSE "subscribing"]
  BY DEF Counted
<1>2. r \in RelayState /\ PushCapacity \in Nat
  BY FleetAssumption DEF Bounded
<1>3. <<>> \in Seq(Nat) /\ Len(<<>>) <= PushCapacity
  BY <1>2
<1> DEFINE at == IF n >= MaxAttempts THEN "reporting" ELSE "subscribing"
<1>4. at \in Stages /\ (at = "subscribing" => n < MaxAttempts) /\ at \in {"reporting", "subscribing"}
  BY DEF Stages, MaxAttempts
<1> HIDE DEF at
<1>5. Counted(r, n) = [r EXCEPT !.failures = n, !.delivered = FALSE, !.backlog = <<>>, !.at = at]
  BY <1>1 DEF at
<1>6. /\ Counted(r, n) \in RelayState
      /\ Counted(r, n).backlog = <<>> /\ Counted(r, n).queue = r.queue
      /\ Counted(r, n).at = at /\ Counted(r, n).failures = n
  BY <1>2, <1>3, <1>4, <1>5 DEF RelayState
<1> QED
  BY <1>3, <1>4, <1>6 DEF Bounded

\* What a relay does.
LEMMA RelayStep ==
  ASSUME SafetyInv, NEW m \in Members, Relay(m) \/ SubscribeFails(m) \/ StreamBreaks(m)
  PROVE  SafetyInv'
<1>0. /\ FleetOK /\ RoundOK /\ TasksOK /\ MembersOK /\ RelaysOK /\ CountsOK /\ CopyInv
      /\ UNCHANGED <<fixed, round, phase, buffer, tasks, client, node, taken, failures, restarts>>
      /\ losses' = losses \/ losses' = losses + 1
  BY DEF SafetyInv, Relay, Subscribe, RelayTask, Resubscribe, ReportGivenUp, SubscribeFails,
         StreamBreaks, Lose, server
<1>1. FleetOK' /\ RoundOK' /\ TasksOK' /\ MembersOK' /\ CountsOK' /\ CopyInv' /\ CountInv'
  BY <1>0, FixedStays, CopiesStay, CountUntouched DEF RoundOK, TasksOK, MembersOK, CountsOK, tasks
<1> DEFINE r == relay[m]
<1>2. /\ r \in RelayState /\ Bounded(r) /\ PushCapacity \in Nat /\ QueueCapacity \in Nat
      /\ <<>> \in Seq(Nat) /\ Len(<<>>) <= PushCapacity /\ r.failures \in 0..MaxAttempts
      /\ r.queue \in Seq(Nat) /\ r.backlog \in Seq(Nat)
      /\ Len(r.queue) <= QueueCapacity /\ Len(r.backlog) <= PushCapacity
      /\ r.at \in {"subscribing", "streaming", "dropped"} => r.failures < MaxAttempts
  <2>1. r \in RelayState /\ Bounded(r) /\ PushCapacity \in Nat /\ QueueCapacity \in Nat
    BY <1>0, FleetAssumption DEF RelaysOK
  <2> QED
    BY <2>1 DEF Bounded, RelayState
<1>3. r.at \in {"subscribing", "streaming", "dropped"} => r.failures + 1 \in 0..MaxAttempts
  BY <1>2 DEF MaxAttempts
<1>4. \E s : Bounded(s) /\ SetRelay(m, s)
  <2>1. CASE Subscribe(m)
    <3>1. SetRelay(m, [r EXCEPT !.at = "streaming", !.delivered = FALSE, !.backlog = <<>>])
          /\ r.at = "subscribing"
      BY <2>1 DEF Subscribe
    <3>2. Bounded([r EXCEPT !.at = "streaming", !.delivered = FALSE, !.backlog = <<>>])
      BY <1>2, <3>1 DEF Bounded, RelayState, Stages
    <3> QED
      BY <3>1, <3>2
  <2>2. CASE SubscribeFails(m)
    <3>1. SetRelay(m, Counted(r, r.failures + 1)) /\ r.at = "subscribing"
      BY <2>2 DEF SubscribeFails
    <3> QED
      BY <1>2, <1>3, <3>1, CountedBounded
  <2>3. CASE RelayTask(m)
    <3>1. r.at = "streaming" /\ r.backlog # <<>>
      BY <2>3 DEF RelayTask
    <3>2. CASE Ended(m)
      <4>1. SetRelay(m, [r EXCEPT !.at = "ended", !.backlog = <<>>])
        BY <2>3, <3>2 DEF RelayTask
      <4>2. Bounded([r EXCEPT !.at = "ended", !.backlog = <<>>])
        BY <1>2 DEF Bounded, RelayState, Stages
      <4> QED
        BY <4>1, <4>2
    <3>3. CASE ~Ended(m)
      <4> DEFINE back == Tail(r.backlog)
                 more == Append(r.queue, Head(r.backlog))
                 s == [r EXCEPT !.delivered = TRUE, !.failures = 0, !.backlog = back, !.queue = more]
      <4>1. Len(r.queue) < QueueCapacity /\ SetRelay(m, s)
        BY <1>2, <2>3, <3>3 DEF RelayTask, RelayState
      <4>2. back \in Seq(Nat) /\ Len(back) <= PushCapacity
        BY <1>2, <3>1
      <4>3. Head(r.backlog) \in Nat
        BY <1>2, <3>1
      <4>4. more \in Seq(Nat) /\ Len(more) <= QueueCapacity
        BY <1>2, <4>1, <4>3
      <4>5. 0 \in 0..MaxAttempts /\ 0 < MaxAttempts
        BY DEF MaxAttempts
      <4> HIDE DEF back, more
      <4>6. Bounded(s)
        BY <1>2, <4>2, <4>4, <4>5 DEF Bounded, RelayState
      <4> QED
        BY <4>1, <4>6
    <3> QED
      BY <3>2, <3>3
  <2>4. CASE StreamBreaks(m)
    <3>1. SetRelay(m, [r EXCEPT !.at = "dropped", !.backlog = <<>>]) /\ r.at = "streaming"
      BY <2>4 DEF StreamBreaks
    <3>2. Bounded([r EXCEPT !.at = "dropped", !.backlog = <<>>])
      BY <1>2, <3>1 DEF Bounded, RelayState, Stages
    <3> QED
      BY <3>1, <3>2
  <2>5. CASE Resubscribe(m)
    <3> DEFINE n == r.failures + IF CountsAsFailure(m) THEN 1 ELSE 0
    <3>1. SetRelay(m, Counted(r, n)) /\ r.at = "dropped"
      BY <2>5 DEF Resubscribe
    <3>2. n \in 0..MaxAttempts
      BY <1>2, <1>3, <3>1
    <3> HIDE DEF n
    <3> QED
      BY <1>2, <3>1, <3>2, CountedBounded
  <2>6. CASE ReportGivenUp(m)
    <3> DEFINE queue == IF Ended(m) THEN r.queue ELSE Append(r.queue, 0)
    <3>1. SetRelay(m, [r EXCEPT !.at = "ended", !.queue = queue])
          /\ (Ended(m) \/ Len(r.queue) < QueueCapacity)
      BY <1>2, <2>6 DEF ReportGivenUp, RelayState
    <3>2. queue \in Seq(Nat) /\ Len(queue) <= QueueCapacity
      BY <1>2, <3>1
    <3> HIDE DEF queue
    <3>3. Bounded([r EXCEPT !.at = "ended", !.queue = queue])
      BY <1>2, <3>2 DEF Bounded, RelayState, Stages
    <3> QED
      BY <3>1, <3>3
  <2> QED
    BY <2>1, <2>2, <2>3, <2>4, <2>5, <2>6 DEF Relay
<1>5. RelaysOK'
  BY <1>0, <1>4, RelayMoves
<1> QED
  BY <1>1, <1>5 DEF SafetyInv

-----------------------------------------------------------------------------
(* The theorems *)

LEMMA FleetStarts == Init => SafetyInv
<1> SUFFICES ASSUME Init PROVE SafetyInv
  OBVIOUS
<1>0. MaxRound \in Nat /\ Wanted \in Nat /\ PushCapacity \in Nat /\ QueueCapacity \in Nat
  BY FleetAssumption
<1>1. FleetOK /\ RoundOK /\ TasksOK /\ CountsOK
  <2>1. RoundOK
    BY <1>0 DEF Init, Service!Init, RoundOK
  <2>2. FleetOK
    BY DEF Init, FleetOK
  <2>3. TasksOK /\ CountsOK
    BY DEF Init, TasksOK, CountsOK
  <2> QED
    BY <2>1, <2>2, <2>3
<1>2. ASSUME NEW m \in Members PROVE NewClient(m) \in ClientState /\ NewNode \in NodeState
  BY <1>0 DEF NewClient, NewNode, ClientState, NodeState, Stage, MaxAttempts
<1>3. MembersOK
  BY <1>2 DEF Init, MembersOK
<1>4. ASSUME NEW m \in Members PROVE NewRelay(m) \in RelayState /\ Bounded(NewRelay(m))
  <2>1. <<>> \in Seq(Nat) /\ Len(<<>>) <= PushCapacity /\ Len(<<>>) <= QueueCapacity
        /\ 0 \in 0..MaxAttempts /\ 0 < MaxAttempts
    BY <1>0 DEF MaxAttempts
  <2> QED
    BY <2>1 DEF NewRelay, RelayState, Stages, Bounded
<1>5. RelaysOK
  BY <1>4 DEF Init, RelaysOK
<1>6. CountInv
  <2>1. taken = {} /\ IsFiniteSet({}) /\ Cardinality({}) = 0
    BY FS_EmptySet DEF Init
  <2>2. ASSUME NEW m \in Members
        PROVE  /\ client[m].completed = 0 /\ Countable(m) = {}
               /\ Working(m) \/ client[m].at = "waiting" => Wanted > 0
    BY <2>1 DEF Init, NewClient, Countable, Working, TakenOf
  <2> QED
    BY <1>0, <2>1, <2>2 DEF CountInv
<1>7. CopyInv
  BY DEF Init, CopyInv, NewNode
<1> QED
  BY <1>1, <1>3, <1>5, <1>6, <1>7 DEF SafetyInv

LEMMA FleetStep == SafetyInv /\ [Next]_vars => SafetyInv'
<1> SUFFICES ASSUME SafetyInv, [Next]_vars PROVE SafetyInv'
  OBVIOUS
<1>1. CASE UNCHANGED vars
  <2>1. UNCHANGED <<fixed, round, phase, buffer, tasks, client, node, relay, taken, losses, failures,
                    restarts>>
    BY <1>1 DEF vars, fixed, tasks
  <2>2. RoundOK' /\ TasksOK' /\ MembersOK' /\ CountsOK' /\ RelaysOK'
    BY <2>1 DEF SafetyInv, RoundOK, TasksOK, MembersOK, CountsOK, RelaysOK, Bounded, tasks
  <2> QED
    BY <2>1, <2>2, FixedStays, CopiesStay, CountUntouched DEF SafetyInv
<1> QED
  BY <1>1, LoopStep, ShutdownStep, SubmitStep, PullStep, ListenStep, RelayStep
     DEF Next, Rounds, Stopping, Client

\* In every run of every fleet the state is well typed, no queue outgrows its capacity, a client's
\* count is of rounds behind it, and the copies of a submission carry one draw of noise.
THEOREM FederationInvariant == Spec => []FederationInv
<1>1. Spec => []SafetyInv
  BY FleetStarts, FleetStep, PTL DEF Spec
<1> QED
  BY <1>1, SafetyIsFederation, PTL

\* FleetInv for every fleet: a client never counts a round the server did not take its update in.
THEOREM FleetInvHolds == Spec => []FleetInv
<1>1. FederationInv => FleetInv
  <2> SUFFICES ASSUME FederationInv PROVE FleetInv
    OBVIOUS
  <2>1. SafetyInv
    BY SafetyIsFederation
  <2>2. ASSUME NEW m \in Members PROVE client[m].completed <= Cardinality(TakenOf(m))
    BY <2>1, CountFacts, CountGrows
  <2> QED
    BY <2>2 DEF FederationInv, FleetInv, CompletedWereTaken
<1> QED
  BY <1>1, FederationInvariant, PTL

\* Whatever the nodes retry, the copies that one submission leaves in a buffer are the same bytes.
THEOREM CopiesAgreeHolds == Spec => []CopiesAgree
<1>1. FederationInv => CopiesAgree
  <2> SUFFICES ASSUME FederationInv PROVE CopiesAgree
    OBVIOUS
  <2>1. \A i \in DOMAIN buffer : buffer[i] \in {Copy(m, draw) : m \in Members, draw \in 0..1}
    BY DEF FederationInv, CopyInv
  <2>2. \A i \in DOMAIN buffer : buffer[i].update = Received[buffer[i].member][buffer[i].call]
    BY <2>1 DEF Copy
  <2> QED
    BY <2>2 DEF CopiesAgree
<1> QED
  BY <1>1, FederationInvariant, PTL

-----------------------------------------------------------------------------
(* The wire: what a client cuts, a node noises and the server joins *)

\* Induction over the naturals, for a set instead of a predicate.
LEMMA Induct ==
  ASSUME NEW T \in SUBSET Nat, 0 \in T, \A n \in Nat : n \in T => n + 1 \in T
  PROVE  T = Nat
<1> SUFFICES ASSUME Nat \ T # {} PROVE FALSE
  OBVIOUS
<1> DEFINE U == Nat \ T
<1>1. U \in SUBSET Nat /\ U # {}
  OBVIOUS
<1> HIDE DEF U
<1>2. PICK x \in U : \A y \in U : ~(<<y, x>> \in OpToRel(<, Nat))
  BY <1>1, NatLessThanWellFounded, WFMin, Zenon
<1>3. \A y \in U : ~(y < x)
  BY <1>1, <1>2, Zenon DEF OpToRel
<1>4. x \in Nat /\ x # 0 /\ x - 1 \in Nat /\ x - 1 \in T
  BY <1>1, <1>3 DEF U
<1>5. (x - 1) + 1 \in T /\ (x - 1) + 1 = x
  BY <1>4
<1> QED BY <1>5 DEF U

\* G holds what has been put together after each piece.
Joins(G, seqs, n) ==
  G[1] = seqs[1] /\ \A i \in 2 .. n : G[i] = G[i - 1] \o seqs[i]

\* FlattenSeq, from what it is after each piece.
LEMMA FlattenIs ==
  ASSUME NEW seqs, NEW n \in Nat \ {0}, Len(seqs) = n, NEW G, Joins(G, seqs, n)
  PROVE  FlattenSeq(seqs) = G[n]
<1>0. G[1] = seqs[1] /\ \A i \in 2 .. n : G[i] = G[i - 1] \o seqs[i]
  BY DEF Joins
<1> DEFINE F(f) == [i \in 1 .. Len(seqs) |-> IF i = 1 THEN seqs[i] ELSE f[i - 1] \o seqs[i]]
           flatten == CHOOSE f : f = F(f)
           h == [i \in 1 .. Len(seqs) |-> G[i]]
<1>1. FlattenSeq(seqs) = flatten[n]
  BY DEF FlattenSeq
<1>2. h = F(h)
  <2>1. \A i \in 1 .. n : h[i] = G[i]
    OBVIOUS
  <2>2. \A i \in 1 .. n : h[i] = IF i = 1 THEN seqs[i] ELSE h[i - 1] \o seqs[i]
    <3> SUFFICES ASSUME NEW i \in 1 .. n
                 PROVE  h[i] = IF i = 1 THEN seqs[i] ELSE h[i - 1] \o seqs[i]
      OBVIOUS
    <3>1. i # 1 => i - 1 \in 1 .. n /\ i \in 2 .. n
      OBVIOUS
    <3> HIDE DEF h
    <3> QED BY <1>0, <2>1, <3>1
  <2>3. h = [i \in 1 .. n |-> h[i]]
    OBVIOUS
  <2> HIDE DEF h
  <2> QED BY <2>2, <2>3
<1> HIDE DEF h
<1>3. flatten = F(flatten)
  BY <1>2, Zenon
<1> HIDE DEF flatten
<1>4. \A i \in 1 .. n : flatten[i] = IF i = 1 THEN seqs[i] ELSE flatten[i - 1] \o seqs[i]
  BY <1>3
<1> DEFINE T == {i \in Nat : i \in 1 .. n => flatten[i] = G[i]}
<1>5. 0 \in T
  OBVIOUS
<1>6. ASSUME NEW i \in Nat, i \in T PROVE i + 1 \in T
  <2> SUFFICES ASSUME i + 1 \in 1 .. n PROVE flatten[i + 1] = G[i + 1]
    OBVIOUS
  <2>1. CASE i = 0
    BY <1>0, <1>4, <2>1
  <2>2. CASE i # 0
    <3>1. i \in 1 .. n /\ i + 1 \in 2 .. n /\ (i + 1) - 1 = i /\ i + 1 # 1
      BY <2>2
    <3>2. flatten[i] = G[i]
      BY <1>6, <3>1
    <3> HIDE DEF T
    <3>3. flatten[i + 1] = flatten[i] \o seqs[i + 1]
      BY <1>4, <3>1
    <3>4. G[i + 1] = G[i] \o seqs[i + 1]
      BY <1>0, <3>1
    <3> QED BY <3>2, <3>3, <3>4
  <2> QED BY <2>1, <2>2
<1>7. T = Nat
  <2> HIDE DEF T
  <2>1. T \in SUBSET Nat
    BY DEF T
  <2> QED BY <1>5, <1>6, <2>1, Induct
<1>8. n \in T
  BY <1>7
<1> QED BY <1>1, <1>8

\* cut holds the offsets at which a vector of size is cut into n pieces.
Cut(cut, n, size) ==
  /\ n \in Nat \ {0}
  /\ \A i \in 0 .. n : cut[i] \in Nat /\ cut[i] <= size
  /\ \A i \in 1 .. n : cut[i - 1] <= cut[i]
  /\ cut[0] = 0 /\ cut[n] = size

\* The i-th piece of w.
Piece(w, cut, i) == SubSeq(w, cut[i - 1] + 1, cut[i])

\* The first pieces, put together.
LEMMA PiecesJoin ==
  ASSUME NEW S, NEW w \in Seq(S), NEW cut, NEW n, Cut(cut, n, Len(w)),
         NEW m \in 1 .. n, NEW seqs, Len(seqs) = m,
         \A i \in 1 .. m : seqs[i] = Piece(w, cut, i)
  PROVE  FlattenSeq(seqs) = SubSeq(w, 1, cut[m])
<1> DEFINE G == [i \in 1 .. m |-> SubSeq(w, 1, cut[i])]
<1>1. m \in Nat \ {0} /\ n \in Nat
  BY DEF Cut
<1>0. \A i \in 1 .. m : G[i] = SubSeq(w, 1, cut[i])
  OBVIOUS
<1> HIDE DEF G
<1>2. G[1] = seqs[1]
  <2>1. seqs[1] = SubSeq(w, cut[1 - 1] + 1, cut[1])
    BY <1>1 DEF Piece
  <2>2. cut[1 - 1] + 1 = 1
    BY DEF Cut
  <2> QED BY <1>0, <1>1, <2>1, <2>2
<1>3. ASSUME NEW i \in 2 .. m PROVE G[i] = G[i - 1] \o seqs[i]
  <2>1. i \in 1 .. m /\ i - 1 \in 1 .. m /\ i \in 0 .. n /\ i - 1 \in 0 .. n /\ i \in 1 .. n
    BY <1>1
  <2>2. /\ cut[i] \in Nat /\ cut[i - 1] \in Nat
        /\ cut[i - 1] <= cut[i] /\ cut[i] <= Len(w) /\ Len(w) \in Nat
    BY <2>1 DEF Cut
  <2> DEFINE x == cut[i - 1]
             y == cut[i]
  <2> HIDE DEF x, y
  <2>3. 1 \in 1 .. Len(w) + 1 /\ x \in 1 - 1 .. Len(w) /\ y \in x .. Len(w)
    BY <2>2 DEF x, y
  <2>4. SubSeq(w, 1, x) \o SubSeq(w, x + 1, y) = SubSeq(w, 1, y)
    BY <2>3, ConcatAdjacentSubSeq
  <2>5. seqs[i] = SubSeq(w, x + 1, y)
    BY <2>1 DEF Piece, x, y
  <2>6. G[i] = SubSeq(w, 1, y) /\ G[i - 1] = SubSeq(w, 1, x)
    BY <1>0, <2>1 DEF x, y
  <2> QED BY <2>4, <2>5, <2>6
<1>4. G[m] = SubSeq(w, 1, cut[m])
  BY <1>0, <1>1
<1>5. Joins(G, seqs, m)
  BY <1>2, <1>3 DEF Joins
<1>6. FlattenSeq(seqs) = G[m]
  BY <1>1, <1>5, FlattenIs
<1> QED BY <1>4, <1>6

\* All the pieces of a vector, put together, are the vector.
LEMMA WholeJoins ==
  ASSUME NEW S, NEW w \in Seq(S), NEW cut, NEW n, Cut(cut, n, Len(w)), NEW seqs,
         Len(seqs) = n, \A i \in 1 .. n : seqs[i] = Piece(w, cut, i)
  PROVE  FlattenSeq(seqs) = w
<1>1. n \in 1 .. n /\ cut[n] = Len(w)
  BY DEF Cut
<1>2. FlattenSeq(seqs) = SubSeq(w, 1, cut[n])
  BY <1>1, PiecesJoin
<1> QED BY <1>1, <1>2, SubSeqFull

\* The i-th chunk of weights w and variate v, cut alike.
ChunkOf(w, v, cut, i) ==
  [index |-> i - 1, data |-> Piece(w, cut, i),
   variate |-> [k \in DOMAIN v |-> Piece(v[k], cut, i)]]

\* The chunks of w and v, in the order of their indices.
Chunked(chunks, cut, n, w, v) == chunks = [i \in 1 .. n |-> ChunkOf(w, v, cut, i)]

\* The chunks, field by field.
LEMMA ChunkFacts ==
  ASSUME NEW chunks, NEW cut, NEW n, NEW w, NEW v, Chunked(chunks, cut, n, w, v)
  PROVE  /\ DOMAIN chunks = 1 .. n /\ chunks = [i \in 1 .. n |-> chunks[i]]
         /\ \A i \in 1 .. n :
              /\ chunks[i].index = i - 1 /\ chunks[i].data = Piece(w, cut, i)
              /\ chunks[i].variate = [k \in DOMAIN v |-> Piece(v[k], cut, i)]
<1>1. DOMAIN chunks = 1 .. n /\ \A i \in 1 .. n : chunks[i] = ChunkOf(w, v, cut, i)
  BY DEF Chunked
<1>2. chunks = [i \in 1 .. n |-> chunks[i]]
  BY DEF Chunked
<1> QED BY <1>1, <1>2 DEF ChunkOf

\* Chunks in the order of their indices are left in it.
LEMMA InOrderIs ==
  ASSUME NEW chunks, NEW cut, NEW n \in Nat, NEW w, NEW v, Chunked(chunks, cut, n, w, v)
  PROVE  InOrder(chunks) = chunks
<1>1. /\ DOMAIN chunks = 1 .. n /\ \A i \in 1 .. n : chunks[i].index = i - 1
      /\ chunks = [i \in 1 .. n |-> chunks[i]]
  BY ChunkFacts
<1>2. ASSUME NEW j \in 1 .. n PROVE Cardinality(Preceding(chunks, j)) = j - 1
  <2>1. \A k \in 1 .. n : \/ chunks[k].index < chunks[j].index
                          \/ chunks[k].index = chunks[j].index /\ k < j
                          <=> k < j
    BY <1>1
  <2>2. Preceding(chunks, j) = 1 .. j - 1
    <3>1. Preceding(chunks, j) = {k \in 1 .. n : k < j}
      BY <1>1, <2>1 DEF Preceding
    <3> QED BY <3>1
  <2>3. j - 1 \in Nat
    OBVIOUS
  <2> QED BY <2>2, <2>3, FS_Interval
<1>3. ASSUME NEW i \in 1 .. n
      PROVE  (CHOOSE j \in DOMAIN chunks : Cardinality(Preceding(chunks, j)) = i - 1) = i
  <2>1. \A j \in 1 .. n : Cardinality(Preceding(chunks, j)) = i - 1 <=> j = i
    BY <1>2
  <2> QED BY <1>1, <2>1
<1> QED BY <1>1, <1>3 DEF InOrder

\* The chunks' data together are the weights, and each chunk starts at its cut.
LEMMA DataIs ==
  ASSUME NEW S, NEW w \in Seq(S), NEW chunks, NEW cut, NEW n, NEW v,
         Cut(cut, n, Len(w)), Chunked(chunks, cut, n, w, v)
  PROVE  /\ Data(chunks) = w
         /\ \A i \in 1 .. n : Offset(chunks, i) = cut[i - 1]
<1>1. /\ n \in Nat \ {0} /\ DOMAIN chunks = 1 .. n /\ Len(w) \in Nat
      /\ \A i \in 1 .. n : chunks[i].data = Piece(w, cut, i)
      /\ chunks = [i \in 1 .. n |-> chunks[i]]
  <2>1. n \in Nat \ {0} /\ Len(w) \in Nat
    BY DEF Cut
  <2>2. DOMAIN chunks = 1 .. n /\ \A i \in 1 .. n : chunks[i] = ChunkOf(w, v, cut, i)
    BY DEF Chunked
  <2>3. chunks = [i \in 1 .. n |-> chunks[i]]
    BY DEF Chunked
  <2>4. \A i \in 1 .. n : chunks[i].data = Piece(w, cut, i)
    BY <2>2 DEF ChunkOf
  <2> QED BY <2>1, <2>2, <2>3, <2>4
<1>2. Data(chunks) = w
  <2> DEFINE seqs == [i \in 1 .. n |-> chunks[i].data]
  <2>1. Len(seqs) = n /\ \A i \in 1 .. n : seqs[i] = Piece(w, cut, i)
    BY <1>1
  <2>2. Data(chunks) = FlattenSeq(seqs)
    BY <1>1 DEF Data
  <2> HIDE DEF seqs
  <2> QED BY <2>1, <2>2, WholeJoins
<1>3. ASSUME NEW i \in 1 .. n PROVE Offset(chunks, i) = cut[i - 1]
  <2> DEFINE m == i - 1
             part == SubSeq(chunks, 1, m)
             seqs == [j \in DOMAIN part |-> part[j].data]
  <2>1. m \in 0 .. n /\ m \in Nat
    BY <1>1
  <2>2. part = [j \in 1 .. m |-> chunks[j]]
    BY <1>1, <2>1
  <2> HIDE DEF m
  <2>3. DOMAIN seqs = 1 .. m /\ \A j \in 1 .. m : seqs[j] = chunks[j].data
    BY <2>2
  <2>4. Len(seqs) = m
    BY <2>1, <2>2
  <2>5. Offset(chunks, i) = Len(FlattenSeq(seqs))
    BY DEF Offset, Data, m
  <2> HIDE DEF seqs, part
  <2>6. CASE m = 0
    <3>1. FlattenSeq(seqs) = seqs
      BY <2>4, <2>6 DEF FlattenSeq
    <3>2. cut[m] = 0
      BY <2>6 DEF Cut
    <3> QED BY <2>4, <2>5, <2>6, <3>1, <3>2 DEF m
  <2>7. CASE m # 0
    <3>1. m \in 1 .. n
      BY <2>1, <2>7
    <3>2. \A j \in 1 .. m : j \in 1 .. n
      BY <1>1, <3>1
    <3>3. \A j \in 1 .. m : seqs[j] = Piece(w, cut, j)
      BY <1>1, <2>3, <3>2
    <3>4. FlattenSeq(seqs) = SubSeq(w, 1, cut[m])
      BY <2>4, <3>1, <3>3, PiecesJoin
    <3>5. cut[m] \in Nat /\ cut[m] <= Len(w)
      BY <2>1 DEF Cut
    <3> DEFINE c == cut[m]
    <3> HIDE DEF c
    <3>6. Len(SubSeq(w, 1, c)) = c
      BY <1>1, <3>5 DEF c
    <3> QED BY <2>5, <3>4, <3>6 DEF c, m
  <2> QED BY <2>6, <2>7
<1> QED BY <1>2, <1>3

\* AppState::submit_delta gives back what was cut.
LEMMA ReassembledIs ==
  ASSUME NEW S, NEW w \in Seq(S), NEW chunks, NEW cut, NEW n, NEW v,
         Cut(cut, n, Len(w)), Chunked(chunks, cut, n, w, v),
         \/ v = NoVariate
         \/ \E R : \E x \in Seq(R) : v = Some(x) /\ Len(x) = Len(w)
  PROVE  Reassembled(chunks).weights = w /\ Reassembled(chunks).variate = v
<1> DEFINE slices == [i \in DOMAIN chunks |-> FlattenSeq(chunks[i].variate)]
           none == \A i \in DOMAIN chunks : chunks[i].variate = NoVariate
<1>1. n \in Nat \ {0}
  BY DEF Cut
<1>2. InOrder(chunks) = chunks
  BY <1>1, InOrderIs
<1>3. Data(chunks) = w
  BY DataIs
<1>4. /\ Reassembled(chunks).weights = Data(InOrder(chunks))
      /\ Reassembled(chunks).variate =
           IF none THEN NoVariate ELSE Some(FlattenSeq(slices))
  BY <1>2 DEF Reassembled
<1>5. DOMAIN chunks = 1 .. n /\ 1 \in 1 .. n
      /\ \A i \in 1 .. n : chunks[i].variate = [k \in DOMAIN v |-> Piece(v[k], cut, i)]
  BY <1>1, ChunkFacts
<1>6. CASE v = NoVariate
  <2>1. DOMAIN v = {}
    BY <1>6 DEF NoVariate
  <2>2. \A i \in 1 .. n : chunks[i].variate = NoVariate
    BY <1>5, <2>1 DEF NoVariate
  <2> QED BY <1>2, <1>3, <1>4, <1>5, <1>6, <2>2
<1>7. ASSUME NEW R, NEW x \in Seq(R), v = Some(x), Len(x) = Len(w)
      PROVE  Reassembled(chunks).variate = v
  <2>1. DOMAIN v = {1} /\ v[1] = x
    BY <1>7 DEF Some
  <2>2. ASSUME NEW i \in 1 .. n PROVE chunks[i].variate = <<Piece(x, cut, i)>>
    <3> DEFINE p == Piece(x, cut, i)
    <3>1. chunks[i].variate = [k \in {1} |-> Piece(v[k], cut, i)]
      BY <1>5, <2>1
    <3>2. \A k \in {1} : Piece(v[k], cut, i) = p
      BY <2>1
    <3> HIDE DEF p
    <3>3. chunks[i].variate = [k \in {1} |-> p]
      BY <3>1, <3>2
    <3>4. [k \in {1} |-> p] = <<p>>
      OBVIOUS
    <3> QED BY <3>3, <3>4 DEF p
  <2>3. ASSUME NEW p PROVE Len(<<p>>) = 1 /\ <<p>> # NoVariate /\ FlattenSeq(<<p>>) = p
    <3> DEFINE g == <<p>>
    <3>1. Len(g) = 1 /\ g[1] = p /\ g # NoVariate
      BY DEF NoVariate
    <3> HIDE DEF g
    <3>2. Joins(g, g, 1)
      BY DEF Joins
    <3>3. 1 \in Nat \ {0}
      OBVIOUS
    <3>4. FlattenSeq(g) = g[1]
      BY <3>1, <3>2, <3>3, FlattenIs
    <3> QED BY <3>1, <3>4 DEF g
  <2>4. ~none
    BY <1>5, <2>2, <2>3
  <2>5. Len(slices) = n /\ \A i \in 1 .. n : slices[i] = Piece(x, cut, i)
    <3>1. slices = [i \in 1 .. n |-> FlattenSeq(chunks[i].variate)]
      BY <1>5
    <3>2. \A i \in 1 .. n : FlattenSeq(chunks[i].variate) = Piece(x, cut, i)
      BY <2>2, <2>3
    <3>3. Len(slices) = n
      BY <1>1, <3>1
    <3> HIDE DEF slices
    <3> QED BY <3>1, <3>2, <3>3
  <2>6. FlattenSeq(slices) = x
    <3> HIDE DEF slices
    <3> QED BY <1>7, <2>5, WholeJoins
  <2> QED BY <1>4, <1>7, <2>4, <2>6
<1> QED BY <1>2, <1>3, <1>4, <1>6, <1>7

\* What rounding a size up to whole chunks gives.
LEMMA RoundUp ==
  ASSUME NEW size \in Nat, NEW s \in Nat \ {0}
  PROVE  /\ (size + s - 1) \div s \in Nat
         /\ size <= ((size + s - 1) \div s) * s
         /\ ((size + s - 1) \div s) * s < size + s
<1> DEFINE t == size + s - 1
           d == t \div s
<1>1. t \in Nat
  OBVIOUS
<1> HIDE DEF t
<1>2. d \in Nat /\ d * s <= t /\ t < (d + 1) * s
  BY <1>1
<1> HIDE DEF d
<1>3. (d + 1) * s = d * s + s /\ d * s \in Nat
  BY <1>2
<1> DEFINE p == d * s
           p1 == (d + 1) * s
<1> HIDE DEF p, p1
<1>4. p \in Nat /\ p1 = p + s /\ p <= t /\ t < p1
  BY <1>2, <1>3 DEF p, p1
<1>5. size <= p /\ p < size + s
  BY <1>4 DEF t
<1> QED BY <1>2, <1>5 DEF p, d, t

\* A product grows with its first factor.
LEMMA TimesMonotone ==
  ASSUME NEW s \in Nat, NEW i \in Nat, NEW j \in Nat, i <= j
  PROVE  i * s <= j * s /\ i * s \in Nat /\ j * s \in Nat
<1>1. PICK k \in Nat : j = i + k
  <2>1. j - i \in Nat /\ j = i + (j - i)
    OBVIOUS
  <2> QED BY <2>1
<1>2. (i + k) * s = i * s + k * s /\ i * s \in Nat /\ k * s \in Nat
  OBVIOUS
<1> QED BY <1>1, <1>2

\* A chunk holds at least one weight, however few bytes it was given.
LEMMA StepPositive == Step \in Nat \ {0}
<1> DEFINE b == Most(ChunkBytes, 4)
<1>1. b \in Nat /\ b >= 4
  BY WireAssumption DEF Most
<1> HIDE DEF b
<1>2. b \div 4 \in Nat /\ b < ((b \div 4) + 1) * 4
  BY <1>1
<1>3. b \div 4 # 0
  BY <1>1, <1>2
<1> QED BY <1>2, <1>3 DEF Step, b

\* build_chunks cuts both vectors at the same places.
LEMMA BuiltChunked ==
  ASSUME NEW r, TrainResult(r)
  PROVE  \E cut, n : Cut(cut, n, Len(r.weights))
                     /\ Chunked(BuildChunks(r), cut, n, r.weights, r.variate)
<1> DEFINE w == r.weights
           v == r.variate
           size == Len(w)
           s == Step
           d == (size + s - 1) \div s
           n == Most(1, d)
           cut == [i \in 0 .. n |-> Least(i * s, size)]
<1>1. size \in Nat /\ s \in Nat \ {0}
  BY StepPositive DEF TrainResult
<1>2. d \in Nat /\ size <= d * s /\ d * s < size + s
  <2> HIDE DEF s, size
  <2> QED BY <1>1, RoundUp
<1>3. n \in Nat \ {0} /\ d <= n /\ (n = d \/ (n = 1 /\ d = 0))
  <2> HIDE DEF d
  <2> QED BY <1>2 DEF Most
<1>4. \A i \in 0 .. n : cut[i] = Least(i * s, size)
  OBVIOUS
<1>5. \A k \in DOMAIN v : Len(v[k]) = size
  BY DEF TrainResult, Some, NoVariate
<1> HIDE DEF d, cut, s, size
<1>6. ASSUME NEW i \in 0 .. n
      PROVE  cut[i] \in Nat /\ cut[i] <= size /\ Least(cut[i], size) = cut[i]
  <2>1. i * s \in Nat
    BY <1>1, <1>3, <1>6, TimesMonotone
  <2> DEFINE p == i * s
  <2> HIDE DEF p
  <2>2. cut[i] = Least(p, size) /\ p \in Nat
    BY <1>4, <1>6, <2>1 DEF p
  <2> QED BY <1>1, <2>2 DEF Least
<1>7. ASSUME NEW i \in 1 .. n
      PROVE  /\ (i - 1) * s = cut[i - 1] /\ cut[i] = Least(i * s, size)
             /\ cut[i - 1] <= cut[i]
  <2>1. i \in 0 .. n /\ i - 1 \in 0 .. n /\ i \in Nat /\ i - 1 \in Nat /\ i - 1 <= i /\ n \in Nat
    BY <1>3, <1>7
  <2>2. (i - 1) * s <= i * s /\ (i - 1) * s \in Nat /\ i * s \in Nat
    BY <1>1, <2>1, TimesMonotone
  <2>3. (i - 1) * s <= size
    <3>1. CASE d = 0
      <4>1. i - 1 = 0
        BY <1>3, <1>7, <3>1
      <4>2. 0 * s = 0
        BY <1>1
      <4> QED BY <1>1, <4>1, <4>2
    <3>2. CASE d # 0
      <4>1. n = d /\ d - 1 \in Nat /\ i - 1 <= d - 1
        BY <1>2, <1>3, <1>7, <3>2
      <4>2. (i - 1) * s <= (d - 1) * s /\ (d - 1) * s \in Nat
        BY <1>1, <2>1, <4>1, TimesMonotone
      <4>3. (d - 1) * s = d * s - s
        BY <1>1, <1>2
      <4> DEFINE x == (i - 1) * s
                 y == (d - 1) * s
                 z == d * s
      <4>4. x \in Nat /\ y \in Nat /\ z \in Int
        BY <1>1, <1>2, <2>2, <4>2
      <4>5. x <= y /\ y = z - s /\ z < size + s
        BY <1>2, <4>2, <4>3
      <4> HIDE DEF x, y, z
      <4>6. x <= size
        BY <1>1, <4>4, <4>5
      <4> QED BY <4>6 DEF x
    <3> QED BY <3>1, <3>2
  <2> DEFINE x == (i - 1) * s
             y == i * s
  <2>4. x \in Nat /\ y \in Nat /\ x <= y /\ x <= size
    BY <2>2, <2>3
  <2>5. cut[i - 1] = Least(x, size) /\ cut[i] = Least(y, size)
    BY <1>4, <2>1
  <2> HIDE DEF x, y
  <2>6. x = cut[i - 1] /\ cut[i - 1] <= cut[i]
    BY <1>1, <2>4, <2>5 DEF Least
  <2> QED BY <2>5, <2>6 DEF x, y
<1>8. cut[0] = 0
  <2>1. 0 * s = 0 /\ 0 \in 0 .. n
    BY <1>1, <1>3
  <2> QED BY <1>1, <1>4, <2>1 DEF Least
<1>9. cut[n] = size
  <2>1. d * s <= n * s /\ n * s \in Nat /\ d * s \in Nat
    BY <1>1, <1>2, <1>3, TimesMonotone
  <2>2. n \in 0 .. n
    BY <1>3
  <2> DEFINE x == n * s
             y == d * s
  <2>3. x \in Nat /\ size <= x
    <3>1. y \in Nat /\ size <= y /\ y <= x /\ x \in Nat
      BY <1>2, <2>1
    <3> HIDE DEF x, y
    <3> QED BY <1>1, <3>1
  <2>4. cut[n] = Least(x, size)
    BY <1>4, <2>2
  <2> HIDE DEF x
  <2> QED BY <1>1, <2>3, <2>4 DEF Least
<1>10. Cut(cut, n, size)
  BY <1>3, <1>6, <1>7, <1>8, <1>9 DEF Cut
<1> DEFINE chunks == BuildChunks(r)
<1>11. chunks = [i \in 1 .. n |->
                  [index |-> i - 1,
                   data |-> Slice(w, (i - 1) * s, Least(i * s, size)),
                   variate |-> [k \in DOMAIN v |->
                                  Slice(v[k], (i - 1) * s, Least(i * s, size))]]]
  BY DEF BuildChunks, s, size, d
<1> HIDE DEF chunks, n
<1>12. ASSUME NEW i \in 1 .. n, NEW x, Len(x) = size
       PROVE  Slice(x, (i - 1) * s, Least(i * s, size)) = Piece(x, cut, i)
  <2>1. Slice(x, (i - 1) * s, Least(i * s, size)) = Slice(x, cut[i - 1], cut[i])
    BY <1>7
  <2>2. Least(cut[i], Len(x)) = cut[i]
    BY <1>3, <1>6, <1>12
  <2> QED BY <2>1, <2>2 DEF Slice, Piece
<1>13. ASSUME NEW i \in 1 .. n PROVE chunks[i] = ChunkOf(w, v, cut, i)
  <2>1. chunks[i] = [index |-> i - 1,
                     data |-> Slice(w, (i - 1) * s, Least(i * s, size)),
                     variate |-> [k \in DOMAIN v |->
                                    Slice(v[k], (i - 1) * s, Least(i * s, size))]]
    BY <1>11
  <2>2. Slice(w, (i - 1) * s, Least(i * s, size)) = Piece(w, cut, i)
    BY <1>12 DEF size
  <2>3. \A k \in DOMAIN v : Slice(v[k], (i - 1) * s, Least(i * s, size)) = Piece(v[k], cut, i)
    BY <1>5, <1>12
  <2> QED BY <2>1, <2>2, <2>3 DEF ChunkOf
<1>14. Chunked(chunks, cut, n, w, v)
  BY <1>11, <1>13 DEF Chunked
<1> QED BY <1>10, <1>14 DEF chunks, size

\* apply_local_privacy keeps the boundaries, the indices and the variate.
LEMMA NoisedChunked ==
  ASSUME NEW S, NEW w \in Seq(S), NEW chunks, NEW cut, NEW n, NEW v, NEW draw,
         Cut(cut, n, Len(w)), Chunked(chunks, cut, n, w, v)
  PROVE  /\ Len(Noised(w, draw)) = Len(w)
         /\ Noised(w, draw) \in Seq(S \X {draw})
         /\ Chunked(ApplyLocalPrivacy(chunks, draw), cut, n, Noised(w, draw), v)
<1> DEFINE u == Noised(w, draw)
           sent == ApplyLocalPrivacy(chunks, draw)
<1>1. /\ n \in Nat \ {0} /\ Len(w) \in Nat
  BY DEF Cut
<1>2. InOrder(chunks) = chunks
  BY <1>1, InOrderIs
<1>3. Data(chunks) = w /\ \A i \in 1 .. n : Offset(chunks, i) = cut[i - 1]
  BY DataIs
<1>4. Len(u) = Len(w) /\ u \in Seq(S \X {draw})
  BY DEF Noised
<1>5. DOMAIN chunks = 1 .. n /\ \A i \in 1 .. n : chunks[i] = ChunkOf(w, v, cut, i)
  BY DEF Chunked
<1> HIDE DEF u, sent
<1>6. sent = [i \in 1 .. n |->
               [chunks[i] EXCEPT !.data = Slice(u, cut[i - 1], cut[i - 1] + Len(chunks[i].data))]]
  <2>1. sent = [i \in 1 .. n |->
                 LET lo == Offset(chunks, i)
                 IN  [chunks[i] EXCEPT !.data = Slice(u, lo, lo + Len(chunks[i].data))]]
    BY <1>2, <1>3, <1>5 DEF sent, u, ApplyLocalPrivacy
  <2> QED BY <1>3, <2>1
<1>7. ASSUME NEW i \in 1 .. n
      PROVE  Slice(u, cut[i - 1], cut[i - 1] + Len(chunks[i].data)) = Piece(u, cut, i)
  <2>1. i \in 0 .. n /\ i - 1 \in 0 .. n
    BY <1>1
  <2>2. /\ cut[i - 1] \in Nat /\ cut[i] \in Nat
        /\ cut[i - 1] <= cut[i] /\ cut[i] <= Len(w)
    BY <2>1 DEF Cut
  <2> DEFINE x == cut[i - 1]
             y == cut[i]
  <2>3. chunks[i].data = SubSeq(w, x + 1, y)
    BY <1>5 DEF ChunkOf, Piece
  <2> HIDE DEF x, y
  <2>4. x \in Nat /\ y \in Nat /\ x <= y /\ y <= Len(w)
    BY <2>2 DEF x, y
  <2>5. Len(SubSeq(w, x + 1, y)) = y - x
    BY <1>1, <2>4
  <2>6. x + Len(chunks[i].data) = y
    BY <2>3, <2>4, <2>5
  <2>7. Least(y, Len(u)) = y
    BY <1>1, <1>4, <2>4 DEF Least
  <2>8. Slice(u, x, x + Len(chunks[i].data)) = SubSeq(u, x + 1, y)
    BY <2>6, <2>7 DEF Slice
  <2> QED BY <2>8 DEF Piece, x, y
<1>8. ASSUME NEW i \in 1 .. n PROVE sent[i] = ChunkOf(u, v, cut, i)
  <2> DEFINE p == Piece(u, cut, i)
             z == [k \in DOMAIN v |-> Piece(v[k], cut, i)]
  <2>1. sent[i] = [chunks[i] EXCEPT !.data = p]
    BY <1>6, <1>7
  <2>2. chunks[i] = [index |-> i - 1, data |-> Piece(w, cut, i), variate |-> z]
    BY <1>5 DEF ChunkOf
  <2> HIDE DEF p, z
  <2>3. sent[i] = [index |-> i - 1, data |-> p, variate |-> z]
    BY <2>1, <2>2
  <2> QED BY <2>3 DEF ChunkOf, p, z
<1>9. sent = [i \in 1 .. n |-> sent[i]]
  BY <1>6
<1>10. Chunked(sent, cut, n, u, v)
  BY <1>8, <1>9 DEF Chunked
<1> QED BY <1>4, <1>10 DEF u, sent

\* The chain from build_chunks over the node to the server loses nothing.
LEMMA WireCarries ==
  ASSUME NEW r, TrainResult(r), NEW draw
  PROVE  LET got == Reassembled(ApplyLocalPrivacy(BuildChunks(r), draw))
         IN  got.weights = Noised(r.weights, draw) /\ got.variate = r.variate
<1> DEFINE w == r.weights
           v == r.variate
           S == Range(w)
           u == Noised(w, draw)
           chunks == BuildChunks(r)
           sent == ApplyLocalPrivacy(chunks, draw)
<1>1. w \in Seq(S)
  BY DEF TrainResult
<1>2. PICK cut, n : Cut(cut, n, Len(w)) /\ Chunked(chunks, cut, n, w, v)
  BY BuiltChunked
<1>3. Len(u) = Len(w) /\ u \in Seq(S \X {draw}) /\ Chunked(sent, cut, n, u, v)
  <2>1. Cut(cut, n, Len(w))
    BY <1>2
  <2>2. Chunked(chunks, cut, n, w, v)
    BY <1>2
  <2> HIDE DEF S, w, v, chunks
  <2>3. /\ Len(Noised(w, draw)) = Len(w)
        /\ Noised(w, draw) \in Seq(S \X {draw})
        /\ Chunked(ApplyLocalPrivacy(chunks, draw), cut, n, Noised(w, draw), v)
    BY <1>1, <2>1, <2>2, NoisedChunked
  <2> QED BY <2>3
<1>4. \/ v = NoVariate
      \/ \E R : \E x \in Seq(R) : v = Some(x) /\ Len(x) = Len(u)
  BY <1>3 DEF TrainResult
<1> HIDE DEF u, sent, w, v, S
<1>5. Cut(cut, n, Len(u))
  BY <1>2, <1>3
<1>6. Reassembled(sent).weights = u /\ Reassembled(sent).variate = v
  BY <1>3, <1>4, <1>5, ReassembledIs
<1> QED BY <1>6 DEF u, sent, chunks, w, v

-----------------------------------------------------------------------------
\* Every member's result reaches the server whole, whichever draw it carries.
LEMMA WireHolds == WireIsFaithful
<1> SUFFICES ASSUME NEW m \in Members, NEW draw \in 0..1
             PROVE  ArrivesWhole(ResultOf(m), Received[m][draw])
  BY DEF WireIsFaithful
<1>1. TrainResult(ResultOf(m))
  BY FleetAssumption
<1> DEFINE r == ResultOf(m)
           got == Reassembled(ApplyLocalPrivacy(BuildChunks(r), draw))
<1>2. Received[m][draw] = got
  BY DEF Received, SentBy
<1> HIDE DEF r
<1>3. got.weights = Noised(r.weights, draw) /\ got.variate = r.variate
  BY <1>1, WireCarries DEF r
<1> QED BY <1>2, <1>3 DEF ArrivesWhole, r

\* CopiesAreFaithful: the chain of chunks carries every result whole, and no interleaving of
\* retries, lost answers, failed rounds and restarts mixes, tears or noises an update again.
THEOREM CopiesAreFaithfulHolds == Spec => []CopiesAreFaithful
<1>1. FederationInv => \A i \in DOMAIN buffer : ArrivesWhole(ResultOf(buffer[i].member), buffer[i].update)
  <2> SUFFICES ASSUME FederationInv, NEW i \in DOMAIN buffer
               PROVE  ArrivesWhole(ResultOf(buffer[i].member), buffer[i].update)
    OBVIOUS
  <2>1. buffer[i] \in {Copy(m, draw) : m \in Members, draw \in 0..1}
    BY DEF FederationInv, CopyInv
  <2>2. PICK m \in Members, draw \in 0..1 : buffer[i] = Copy(m, draw)
    BY <2>1
  <2>3. buffer[i].member = m /\ buffer[i].update = Received[m][draw]
    BY <2>2 DEF Copy
  <2> QED
    BY <2>3, WireHolds DEF WireIsFaithful
<1>2. CopiesAgree /\ (\A i \in DOMAIN buffer : ArrivesWhole(ResultOf(buffer[i].member), buffer[i].update))
        => CopiesAreFaithful
  BY DEF CopiesAreFaithful
<1> QED
  BY <1>1, <1>2, FederationInvariant, CopiesAgreeHolds, PTL
=============================================================================
