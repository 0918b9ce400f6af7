--------------------------- MODULE RoundLoop_proofs ---------------------------
(***************************************************************************)
(* Proofs about the round loop, for any number of clients, any quorum,     *)
(* budget and back-end configuration, and any number of faults, crashes    *)
(* and attempts.                                                           *)
(***************************************************************************)
EXTENDS RoundLoopProperties, FiniteSetTheorems, TLAPS

\* The constants' types, in the form the steps below use.
LEMMA ConstantTypes ==
  /\ IsFiniteSet(Clients)
  /\ DurableStore \in BOOLEAN /\ SeededStore \in BOOLEAN /\ LogEnabled \in BOOLEAN
  /\ PerClientScope \in BOOLEAN /\ HaltOnExhausted \in BOOLEAN
  /\ Budget \in Nat /\ HistoryLen \in Nat /\ FailureCap \in Nat
  /\ QuorumOverride \in Nat
BY LoopAssumption

\* The initial state has the invariant.
LEMMA InitLoopInv == Init => LoopInv
<1> SUFFICES ASSUME Init PROVE LoopInv
  OBVIOUS
<1> USE ConstantTypes
<1>1. TypeOK
  <2>1. LoopTypeOK
    BY FS_EmptySet DEF Init, LoopTypeOK, Job, NoJob
  <2>2. AppTypeOK
    BY FS_EmptySet DEF Init, AppTypeOK, NoBuffer, Task, NoTask
  <2>3. BooksTypeOK
    BY DEF Init, BooksTypeOK, Books, NoCost, FirstStore
  <2>4. StatusTypeOK
    BY DEF Init, StatusTypeOK, NewHealth, Health, Errors
  <2>5. NetTypeOK
    BY DEF Init, NetTypeOK, Task, NoTask, Call, NoRpc
  <2>6. CountTypeOK
    BY DEF Init, CountTypeOK
  <2> QED
    BY <2>1, <2>2, <2>3, <2>4, <2>5, <2>6 DEF TypeOK
<1>2. BatchInv
  BY DEF Init, BatchInv, NoJob, NoBuffer, Collecting, Flushed
<1>3. StoreInv
  BY DEF Init, StoreInv, StoreKeepsPace, FirstStore, Written
<1>4. CostInv
  BY DEF Init, CostInv, BudgetNotOverrun, Pending, NoCost, Collecting, Flushed
<1> QED
  BY <1>1, <1>2, <1>3, <1>4 DEF LoopInv

\* The updates handed to the aggregator are finitely many updates.
LEMMA ReencodedType ==
  ASSUME NEW batch \in SUBSET Delta, IsFiniteSet(batch), NEW ids
  PROVE  Reencoded(batch, ids) \in SUBSET Delta /\ IsFiniteSet(Reencoded(batch, ids))
<1> DEFINE pairs == {dw \in batch \X batch : /\ dw[1].client \in ids
                                             /\ dw[2] \in LastFinite(batch, dw[1].client)}
           copy == [pair \in pairs |-> [pair[1] EXCEPT !.base = pair[2].base, !.body = pair[2].body]]
<1>1. IsFiniteSet(batch \X batch)
  BY FS_Product
<1>2. IsFiniteSet(pairs)
  BY <1>1, FS_Subset
<1>3. Reencoded(batch, ids) = {copy[pair] : pair \in pairs}
  BY DEF Reencoded
<1>4. copy \in Surjection(pairs, Reencoded(batch, ids))
  BY <1>3 DEF Surjection
<1>5. IsFiniteSet(Reencoded(batch, ids))
  BY <1>2, <1>4, FS_Surjection
<1>6. \A pair \in pairs : copy[pair] \in Delta
  BY DEF Delta
<1> QED
  BY <1>3, <1>5, <1>6

-----------------------------------------------------------------------------
(* Types: one lemma for each part of the state *)

\* A step of Next is one of these.
LEMMA NextCases ==
  ASSUME [Next]_vars
  PROVE  \/ ExitOnShutdown \/ BeginRound \/ LoadWeights \/ OpenRound \/ AnnounceRound
         \/ FlushRound \/ AskSidecar \/ Aggregate \/ SaveCheckpoint \/ LogRound \/ LogClient
         \/ AdvanceRound \/ ClearRound \/ BackoffEnds
         \/ \E c \in Clients : \/ Register(c) \/ FetchTaskRound(c) \/ FetchTaskWeights(c)
                              \/ ReceivePushed(c) \/ SubmitClone(c) \/ SubmitPush(c)
         \/ RequestShutdown \/ CrashRestart \/ UNCHANGED vars
BY DEF Next, Loop, RunRound, Handlers

\* What OpenRound does: it ends the attempt, or puts a fresh buffer in place.
LEMMA OpenRoundEffect ==
  ASSUME job \in Job, OpenRound
  PROVE  /\ pc = "open"
         /\ \/ /\ pc' \in {"backoff", "exited"} /\ job' = NoJob
               /\ UNCHANGED <<current, buffer, attempt>>
            \/ /\ pc' = "announce" /\ job'.weights = job.weights
               /\ attempt' = attempt + 1 /\ current' = attempt + 1
               /\ buffer' = [id |-> attempt + 1, round |-> round, open |-> TRUE, deltas |-> {}]
         /\ faults' = faults \/ faults' = faults + 1
         /\ UNCHANGED <<round, pushed, ckpt, acct, log, lastOutput, task, rpc, released, crashes>>
<1>1. /\ pc = "open"
      /\ UNCHANGED <<round, pushed, ckpt, acct, log, lastOutput, task, rpc, released, crashes>>
  BY DEF OpenRound, acctVars, netVars
<1>2. CASE Fault("registry") /\ Transient("Registry") /\ UNCHANGED <<current, buffer, verdict, attempt>>
  BY <1>1, <1>2 DEF Fault, Transient
<1>3. ASSUME NEW selected \in SUBSET active, NEW quorum, UNCHANGED faults,
             \/ Fatal("PreconditionViolated") /\ UNCHANGED <<current, buffer, attempt>>
             \/ /\ job' = [job EXCEPT !.selected = selected, !.quorum = quorum]
                /\ attempt' = attempt + 1
                /\ buffer' = [id |-> attempt + 1, round |-> round, open |-> TRUE, deltas |-> {}]
                /\ current' = attempt + 1
                /\ pc' = "announce"
      PROVE  /\ \/ /\ pc' \in {"backoff", "exited"} /\ job' = NoJob
                   /\ UNCHANGED <<current, buffer, attempt>>
                \/ /\ pc' = "announce" /\ job'.weights = job.weights
                   /\ attempt' = attempt + 1 /\ current' = attempt + 1
                   /\ buffer' = [id |-> attempt + 1, round |-> round, open |-> TRUE, deltas |-> {}]
             /\ faults' = faults \/ faults' = faults + 1
  BY <1>3 DEF Fatal, Job
<1> QED
  BY <1>1, <1>2, <1>3 DEF OpenRound

\* run_round's locals keep their types.
LEMMA LoopTypeStep ==
  ASSUME TypeOK, [Next]_vars
  PROVE  LoopTypeOK'
<1> USE DEF LoopTypeOK
<1>0. /\ LoopTypeOK
      /\ NoJob \in Job /\ IsFiniteSet(NoJob.batch)
      /\ IsFiniteSet(NoJob.passed) /\ IsFiniteSet(NoJob.unlogged)
  BY FS_EmptySet DEF NoJob, Job, TypeOK
<1>1. CASE ExitOnShutdown
  BY <1>0, <1>1 DEF ExitOnShutdown, StopCleanly
<1>2. CASE BeginRound
  BY <1>0, <1>2 DEF BeginRound, Fatal
<1>3. CASE LoadWeights
  BY <1>0, <1>3 DEF LoadWeights, Transient, TypeOK, BooksTypeOK, Job
<1>4. CASE OpenRound
  <2>1. CASE job' = NoJob
    BY <1>0, <1>4, <2>1 DEF OpenRound, Transient, Fatal
  <2>2. CASE job' # NoJob
    <3>1. IsFiniteSet(active) /\ active \subseteq Clients
      BY ConstantTypes, FS_Subset DEF TypeOK, StatusTypeOK
    <3>2. PICK selected \in SUBSET active :
            /\ pc' = "announce"
            /\ job' = [job EXCEPT !.selected = selected,
                                  !.quorum = IF QuorumOverride # 0 THEN QuorumOverride
                                                                   ELSE Cardinality(selected)]
      BY <1>4, <2>2 DEF OpenRound, Transient, Fatal
    <3>3. Cardinality(selected) \in Nat
      BY <3>1, FS_Subset, FS_CardinalityType
    <3> QED
      BY <1>0, <3>1, <3>2, <3>3, ConstantTypes DEF Job
  <2> QED
    BY <2>1, <2>2
<1>5. CASE AnnounceRound
  BY <1>0, <1>5 DEF AnnounceRound
<1>6. CASE FlushRound
  <2>1. CASE job' = NoJob
    BY <1>0, <1>6, <2>1 DEF FlushRound, Transient, Fatal
  <2>2. CASE job' # NoJob
    <3>1. PICK reason \in {"Quorum", "Timeout"}, passing \in SUBSET FiniteIds(buffer.deltas) :
            /\ pc' \in {"sidecar", "aggregate"}
            /\ job' = [job EXCEPT !.reason = reason, !.batch = buffer.deltas,
                                  !.passed = Reencoded(buffer.deltas, passing)]
      BY <1>6, <2>2 DEF FlushRound, Transient, Fatal
    <3>2. buffer.deltas \in SUBSET Delta /\ IsFiniteSet(buffer.deltas)
      BY DEF TypeOK, AppTypeOK
    <3>3. /\ Reencoded(buffer.deltas, passing) \in SUBSET Delta
          /\ IsFiniteSet(Reencoded(buffer.deltas, passing))
      BY <3>2, ReencodedType
    <3> QED
      BY <1>0, <3>1, <3>2, <3>3 DEF Job
  <2> QED
    BY <2>1, <2>2
<1>7. CASE AskSidecar
  BY <1>0, <1>7 DEF AskSidecar, Transient
<1>8. CASE Aggregate
  BY <1>0, <1>8 DEF Aggregate, Transient
<1>9. CASE SaveCheckpoint
  BY <1>0, <1>9 DEF SaveCheckpoint, Transient, Job
<1>10. CASE LogRound
  BY <1>0, <1>10 DEF LogRound, Transient
<1>11. CASE LogClient
  BY <1>0, <1>11, FS_RemoveElement DEF LogClient, Transient, Job
<1>12. CASE AdvanceRound
  BY <1>0, <1>12 DEF AdvanceRound
<1>13. CASE ClearRound
  BY <1>0, <1>13 DEF ClearRound
<1>14. CASE BackoffEnds
  BY <1>0, <1>14 DEF BackoffEnds
<1>15. CASE \E c \in Clients : \/ Register(c) \/ FetchTaskRound(c) \/ FetchTaskWeights(c)
                              \/ ReceivePushed(c) \/ SubmitClone(c) \/ SubmitPush(c)
  BY <1>0, <1>15 DEF Register, FetchTaskRound, FetchTaskWeights, ReceivePushed, SubmitClone,
                     SubmitPush, serverSide
<1>16. CASE RequestShutdown
  BY <1>0, <1>16 DEF RequestShutdown
<1>17. CASE CrashRestart
  BY <1>0, <1>17 DEF CrashRestart
<1>18. CASE UNCHANGED vars
  BY <1>0, <1>18 DEF vars
<1> QED
  BY NextCases, <1>1, <1>2, <1>3, <1>4, <1>5, <1>6, <1>7, <1>8, <1>9, <1>10, <1>11, <1>12,
     <1>13, <1>14, <1>15, <1>16, <1>17, <1>18

\* The counter, the buffer and the announced task keep their types.
LEMMA AppTypeStep ==
  ASSUME TypeOK, [Next]_vars
  PROVE  AppTypeOK'
<1> USE DEF AppTypeOK
<1>0. AppTypeOK /\ attempt \in Nat /\ job \in Job
  BY DEF TypeOK, LoopTypeOK, CountTypeOK
<1>1. CASE UNCHANGED appVars
  BY <1>0, <1>1 DEF appVars
<1>2. CASE OpenRound
  <2>1. IsFiniteSet({}) /\ attempt + 1 \in Nat
    BY <1>0, FS_EmptySet
  <2>2. /\ UNCHANGED <<round, pushed>>
        /\ \/ UNCHANGED <<current, buffer>>
           \/ /\ current' = attempt + 1
              /\ buffer' = [id |-> attempt + 1, round |-> round, open |-> TRUE, deltas |-> {}]
    BY <1>0, <1>2, OpenRoundEffect
  <2>3. CASE UNCHANGED <<current, buffer>>
    BY <1>0, <2>2, <2>3
  <2>4. CASE /\ current' = attempt + 1
             /\ buffer' = [id |-> attempt + 1, round |-> round, open |-> TRUE, deltas |-> {}]
    BY <1>0, <2>1, <2>2, <2>4
  <2> QED
    BY <2>2, <2>3, <2>4
<1>3. CASE AnnounceRound
  BY <1>0, <1>3 DEF AnnounceRound, Job, Task
<1>4. CASE FlushRound
  BY <1>0, <1>4, FS_EmptySet DEF FlushRound
<1>5. CASE AdvanceRound
  BY <1>0, <1>5 DEF AdvanceRound
<1>6. CASE ClearRound
  BY <1>0, <1>6 DEF ClearRound
<1>7. CASE CrashRestart
  BY <1>0, <1>7, FS_EmptySet DEF CrashRestart, NoTask, Task
<1>8. ASSUME NEW c \in Clients, SubmitPush(c)
      PROVE  AppTypeOK'
  <2>1. CASE buffer' = buffer
    BY <1>0, <1>8, <2>1 DEF SubmitPush, serverSide
  <2>2. CASE buffer' # buffer
    <3>1. PICK body \in Bodies :
            buffer' = [buffer EXCEPT !.deltas = @ \cup
              {[slot |-> Cardinality(@), client |-> c, round |-> rpc[c].round,
                base |-> rpc[c].base, body |-> body]}]
      BY <1>8, <2>2 DEF SubmitPush
    <3>2. Cardinality(buffer.deltas) \in Nat
      BY <1>0, FS_CardinalityType
    <3>3. [slot |-> Cardinality(buffer.deltas), client |-> c, round |-> rpc[c].round,
           base |-> rpc[c].base, body |-> body] \in Delta
      BY <3>2 DEF Delta, TypeOK, NetTypeOK, Call
    <3> QED
      BY <1>0, <1>8, <3>1, <3>3, FS_AddElement DEF SubmitPush, serverSide
  <2> QED
    BY <2>1, <2>2
<1>9. \/ UNCHANGED appVars
      \/ OpenRound \/ AnnounceRound \/ FlushRound \/ AdvanceRound \/ ClearRound
      \/ CrashRestart \/ \E c \in Clients : SubmitPush(c)
  BY NextCases DEF appVars, vars, serverSide, ExitOnShutdown, StopCleanly, BeginRound,
       LoadWeights, AskSidecar, Aggregate, SaveCheckpoint, LogRound, LogClient, BackoffEnds,
       Register, FetchTaskRound, FetchTaskWeights, ReceivePushed, SubmitClone,
       RequestShutdown
<1> QED
  BY <1>1, <1>2, <1>3, <1>4, <1>5, <1>6, <1>7, <1>8, <1>9

\* The store, the accountant and its log keep their types.
LEMMA BooksTypeStep ==
  ASSUME TypeOK, [Next]_vars
  PROVE  BooksTypeOK'
<1> USE DEF BooksTypeOK
<1>0. /\ BooksTypeOK /\ attempt \in Nat /\ round \in Nat
      /\ NoCost \in Books
      /\ DOMAIN FirstStore \subseteq Nat /\ \A r \in DOMAIN FirstStore : FirstStore[r] \in Nat
  BY DEF TypeOK, AppTypeOK, CountTypeOK, NoCost, Books, FirstStore
<1>1. CASE UNCHANGED <<ckpt, acctVars>>
  BY <1>0, <1>1 DEF acctVars
<1>2. CASE SaveCheckpoint
  <2>1. /\ DOMAIN Saved(round, attempt) \subseteq Nat
        /\ \A r \in DOMAIN Saved(round, attempt) : Saved(round, attempt)[r] \in Nat
    BY <1>0 DEF Saved
  <2>2. Charge(acct, job.passed) \in Books
    <3>1. \A c \in Clients : Cardinality({d \in job.passed : d.client = c}) \in Nat
      BY FS_Subset, FS_CardinalityType DEF TypeOK, LoopTypeOK
    <3> QED
      BY <1>0, <3>1 DEF Charge, Books
  <2> QED
    BY <1>0, <1>2, <2>1, <2>2 DEF SaveCheckpoint
<1>3. CASE LogRound
  BY <1>0, <1>3 DEF LogRound, Books
<1>4. CASE LogClient
  <2>1. job.unlogged \subseteq Delta
    BY DEF TypeOK, LoopTypeOK, Job
  <2>2. \A d \in job.unlogged : [log EXCEPT !.client[d.client] = @ + 1] \in Books
    BY <1>0, <2>1 DEF Books, Delta
  <2>3. log' \in Books
    BY <1>0, <1>4, <2>2 DEF LogClient
  <2> QED
    BY <1>0, <1>4, <2>3 DEF LogClient
<1>5. CASE CrashRestart
  BY <1>0, <1>5 DEF CrashRestart, Replayed
<1>6. \/ UNCHANGED <<ckpt, acctVars>> \/ SaveCheckpoint \/ LogRound \/ LogClient \/ CrashRestart
  BY NextCases DEF acctVars, vars, serverSide, ExitOnShutdown, StopCleanly, BeginRound,
       LoadWeights, OpenRound, AnnounceRound, FlushRound, AskSidecar, Aggregate, AdvanceRound,
       ClearRound, BackoffEnds, Register, FetchTaskRound, FetchTaskWeights, ReceivePushed,
       SubmitClone, SubmitPush, RequestShutdown
<1> QED
  BY <1>1, <1>2, <1>3, <1>4, <1>5, <1>6

\* What clients hold and have in flight keeps its type.
LEMMA NetTypeStep ==
  ASSUME TypeOK, [Next]_vars
  PROVE  NetTypeOK'
<1> USE DEF NetTypeOK
<1>0. NetTypeOK /\ BooksTypeOK /\ AppTypeOK /\ NoRpc \in Call
  BY DEF TypeOK, NoRpc, Call
<1>1. CASE UNCHANGED netVars
  BY <1>0, <1>1 DEF netVars
<1>2. ASSUME NEW c \in Clients, FetchTaskRound(c)
      PROVE  NetTypeOK'
  BY <1>0, <1>2 DEF FetchTaskRound, AppTypeOK, NoRpc, Call
<1>3. ASSUME NEW c \in Clients, FetchTaskWeights(c)
      PROVE  NetTypeOK'
  <2>1. \/ task' = task
        \/ \E r \in DOMAIN ckpt : task' = [task EXCEPT ![c] = [round |-> rpc[c].round, base |-> ckpt[r]]]
    BY <1>3 DEF FetchTaskWeights
  <2>2. \A r \in DOMAIN ckpt : [round |-> rpc[c].round, base |-> ckpt[r]] \in Task
    BY <1>0 DEF BooksTypeOK, Call, Task
  <2> QED
    BY <1>0, <1>3, <2>1, <2>2 DEF FetchTaskWeights
<1>4. ASSUME NEW c \in Clients, ReceivePushed(c)
      PROVE  NetTypeOK'
  BY <1>0, <1>4 DEF ReceivePushed, AppTypeOK
<1>5. ASSUME NEW c \in Clients, SubmitClone(c)
      PROVE  NetTypeOK'
  BY <1>0, <1>5 DEF SubmitClone, AppTypeOK, Call, Task
<1>6. ASSUME NEW c \in Clients, SubmitPush(c)
      PROVE  NetTypeOK'
  BY <1>0, <1>6 DEF SubmitPush
<1>7. CASE CrashRestart
  BY <1>0, <1>7 DEF CrashRestart
<1>8. \/ UNCHANGED netVars \/ CrashRestart
      \/ \E c \in Clients : \/ FetchTaskRound(c) \/ FetchTaskWeights(c) \/ ReceivePushed(c)
                           \/ SubmitClone(c) \/ SubmitPush(c)
  BY NextCases DEF netVars, vars, ExitOnShutdown, StopCleanly, BeginRound, LoadWeights,
       OpenRound, AnnounceRound, FlushRound, AskSidecar, Aggregate, SaveCheckpoint, LogRound,
       LogClient, AdvanceRound, ClearRound, BackoffEnds, Register, RequestShutdown
<1> QED
  BY <1>1, <1>2, <1>3, <1>4, <1>5, <1>6, <1>7, <1>8

\* The model's counters keep their types.
LEMMA CountTypeStep ==
  ASSUME TypeOK, [Next]_vars
  PROVE  CountTypeOK'
<1> USE DEF CountTypeOK
<1>0. CountTypeOK
  BY DEF TypeOK
<1>1. CASE UNCHANGED <<lastOutput, boundVars>>
  BY <1>0, <1>1 DEF boundVars
<1>2. CASE LoadWeights \/ AskSidecar \/ Aggregate
  BY <1>0, <1>2 DEF LoadWeights, AskSidecar, Aggregate, Fault
<1>5. CASE OpenRound
  BY <1>0, <1>5, OpenRoundEffect DEF TypeOK, LoopTypeOK
<1>3. CASE SaveCheckpoint \/ LogRound \/ LogClient \/ CrashRestart
  BY <1>0, <1>3 DEF SaveCheckpoint, LogRound, LogClient, CrashRestart, Fault
<1>4. \/ UNCHANGED <<lastOutput, boundVars>>
      \/ LoadWeights \/ OpenRound \/ AskSidecar \/ Aggregate
      \/ SaveCheckpoint \/ LogRound \/ LogClient \/ CrashRestart
  BY NextCases DEF boundVars, vars, serverSide, ExitOnShutdown, StopCleanly, BeginRound,
       AnnounceRound, FlushRound, AdvanceRound, ClearRound, BackoffEnds, Register,
       FetchTaskRound, FetchTaskWeights, ReceivePushed, SubmitClone, SubmitPush,
       RequestShutdown
<1> QED
  BY <1>1, <1>2, <1>3, <1>4, <1>5

\* What FlushRound does: it closes the buffer, and ends the attempt or hands
\* the batch on.
LEMMA FlushRoundEffect ==
  ASSUME job \in Job, FlushRound
  PROVE  /\ pc = "collect"
         /\ buffer' = [buffer EXCEPT !.open = FALSE, !.deltas = {}]
         /\ \/ pc' \in {"backoff", "exited"} /\ job' = NoJob
            \/ /\ pc' \in {"sidecar", "aggregate"}
               /\ job'.batch = buffer.deltas /\ job'.weights = job.weights
               /\ \E passing \in SUBSET (FiniteIds(buffer.deltas) \ OverBudget(FiniteIds(buffer.deltas))) :
                    job'.passed = Reencoded(buffer.deltas, passing)
         /\ UNCHANGED <<round, current, pushed, ckpt, acct, log, lastOutput, task, rpc,
                        attempt, released, faults, crashes>>
<1>1. /\ pc = "collect"
      /\ buffer' = [buffer EXCEPT !.open = FALSE, !.deltas = {}]
      /\ UNCHANGED <<round, current, pushed, ckpt, acct, log, lastOutput, task, rpc,
                     attempt, released, faults, crashes>>
  BY DEF FlushRound, acctVars, netVars, boundVars
<1>2. CASE job' = NoJob
  BY <1>1, <1>2 DEF FlushRound, Transient, Fatal, NoJob
<1>3. CASE job' # NoJob
  <2>1. PICK reason \in {"Quorum", "Timeout"},
             passing \in SUBSET (FiniteIds(buffer.deltas) \ OverBudget(FiniteIds(buffer.deltas))) :
          /\ pc' \in {"sidecar", "aggregate"}
          /\ job' = [job EXCEPT !.reason = reason, !.batch = buffer.deltas,
                                !.passed = Reencoded(buffer.deltas, passing)]
    BY <1>3 DEF FlushRound, Transient, Fatal
  <2> QED
    BY <1>1, <2>1 DEF Job
<1> QED
  BY <1>2, <1>3

\* Loop health, the verdict, the registry and the latch keep their types.
LEMMA StatusTypeStep ==
  ASSUME TypeOK, round >= 1, [Next]_vars
  PROVE  StatusTypeOK'
<1>0. StatusTypeOK /\ round - 1 \in Nat
  BY DEF TypeOK, AppTypeOK
<1>1. \A error \in Errors : Transient(error) => health' \in Health
  <2> SUFFICES ASSUME NEW error \in Errors, Transient(error) PROVE health' \in Health
    OBVIOUS
  <2> DEFINE streak == IF health.failures < FailureCap THEN health.failures + 1 ELSE health.failures
  <2>1. health \in Health /\ health.failures \in Nat
    BY <1>0 DEF Health, StatusTypeOK
  <2>2. streak \in Nat
    BY <2>1
  <2>3. health' = [health EXCEPT !.state = "Degraded", !.error = error, !.failures = streak]
    BY DEF Transient
  <2> HIDE DEF streak
  <2> QED
    BY <2>1, <2>2, <2>3 DEF Health
<1>2. \A error \in Errors : Fatal(error) => health' \in Health
  BY <1>0 DEF Fatal, Health, StatusTypeOK
<1>e. \A error \in {"NoCheckpoint", "Store", "Registry", "PreconditionViolated", "MalformedWeights",
                     "BudgetExhausted", "BudgetExhaustedForClient",
                     "TrustedReferenceUnavailable", "EmptyBatch", "Aggregator"} :
         Transient(error) \/ Fatal(error) => health' \in Health
  BY <1>1, <1>2 DEF Errors
<1>3. \A n : VerdictAfter(n) \in {"none", "satisfied"}
  BY <1>0 DEF VerdictAfter, StatusTypeOK
<1>4. CASE ExitOnShutdown
  BY <1>0, <1>4 DEF ExitOnShutdown, StopCleanly, Health, Errors, StatusTypeOK
<1>5. CASE BeginRound \/ LoadWeights
  BY <1>0, <1>e, <1>5 DEF BeginRound, LoadWeights, StatusTypeOK
<1>6. CASE OpenRound
  <2>1. health' \in Health
    BY <1>0, <1>e, <1>6 DEF OpenRound, StatusTypeOK
  <2>2. verdict' \in {"none", "satisfied"}
    BY <1>0, <1>3, <1>6 DEF OpenRound, StatusTypeOK
  <2> QED
    BY <1>0, <1>6, <2>1, <2>2 DEF OpenRound, StatusTypeOK
<1>7. CASE FlushRound
  <2>1. health' \in Health
    BY <1>0, <1>e, <1>7 DEF FlushRound, StatusTypeOK
  <2>2. verdict' \in {"none", "satisfied"}
    BY <1>0, <1>3, <1>7 DEF FlushRound, StatusTypeOK
  <2> QED
    BY <1>0, <1>7, <2>1, <2>2 DEF FlushRound, StatusTypeOK
<1>8. CASE AskSidecar \/ Aggregate \/ SaveCheckpoint
  BY <1>0, <1>e, <1>8 DEF AskSidecar, Aggregate, SaveCheckpoint, StatusTypeOK
<1>9. CASE LogRound \/ LogClient
  BY <1>0, <1>e, <1>9 DEF LogRound, LogClient, StatusTypeOK
<1>10. CASE ClearRound
  BY <1>0, <1>10 DEF ClearRound, StatusTypeOK, Health, Errors
<1>11. ASSUME NEW c \in Clients, Register(c)
       PROVE  StatusTypeOK'
  BY <1>0, <1>11 DEF Register, serverSide, StatusTypeOK
<1>12. CASE RequestShutdown
  BY <1>0, <1>12 DEF RequestShutdown, statVars, StatusTypeOK
<1>13. CASE CrashRestart
  BY <1>0, <1>13 DEF CrashRestart, NewHealth, Health, Errors, StatusTypeOK
<1>14. CASE UNCHANGED <<health, verdict, active, shutdown>>
  BY <1>0, <1>14 DEF StatusTypeOK
<1>15. \/ UNCHANGED <<health, verdict, active, shutdown>>
       \/ ExitOnShutdown \/ BeginRound \/ LoadWeights \/ OpenRound \/ FlushRound
       \/ AskSidecar \/ Aggregate \/ SaveCheckpoint \/ LogRound \/ LogClient \/ ClearRound
       \/ (\E c \in Clients : Register(c)) \/ RequestShutdown \/ CrashRestart
  BY NextCases DEF vars, statVars, serverSide, AnnounceRound, AdvanceRound, BackoffEnds,
       FetchTaskRound, FetchTaskWeights, ReceivePushed, SubmitClone, SubmitPush
<1> QED
  BY <1>4, <1>5, <1>6, <1>7, <1>8, <1>9, <1>10, <1>11, <1>12, <1>13, <1>14, <1>15

\* Together: a step from a typed state leads to a typed state.
LEMMA TypeStep ==
  ASSUME TypeOK, round >= 1, [Next]_vars
  PROVE  TypeOK'
BY LoopTypeStep, AppTypeStep, BooksTypeStep, StatusTypeStep, NetTypeStep, CountTypeStep
   DEF TypeOK

-----------------------------------------------------------------------------
(* The batch belongs to the counter's round *)

\* Every step keeps the buffer, the slot and the batch in line with the round.
LEMMA BatchStep ==
  ASSUME TypeOK, BatchInv, [Next]_vars
  PROVE  BatchInv'
<1> USE DEF BatchInv, Collecting, Flushed
<1>0. /\ job \in Job /\ NoJob.batch = {}
      /\ buffer \in [id : Nat, round : Nat, open : BOOLEAN, deltas : SUBSET Delta]
  BY DEF TypeOK, LoopTypeOK, AppTypeOK, NoJob
<1>1. CASE ExitOnShutdown \/ BeginRound \/ LoadWeights
  BY <1>0, <1>1 DEF ExitOnShutdown, StopCleanly, BeginRound, LoadWeights, Transient, Fatal, appVars
<1>2. CASE OpenRound
  BY <1>0, <1>2, OpenRoundEffect
<1>3. CASE AnnounceRound
  BY <1>3 DEF AnnounceRound
<1>4. CASE FlushRound
  BY <1>0, <1>4, FlushRoundEffect
<1>5. CASE AskSidecar \/ Aggregate \/ SaveCheckpoint
  BY <1>0, <1>5 DEF AskSidecar, Aggregate, SaveCheckpoint, Transient, appVars
<1>6. CASE LogRound \/ LogClient \/ AdvanceRound \/ ClearRound \/ BackoffEnds
  BY <1>0, <1>6 DEF LogRound, LogClient, AdvanceRound, ClearRound, BackoffEnds, Transient, appVars
<1>7. ASSUME NEW c \in Clients, SubmitPush(c)
      PROVE  BatchInv'
  <2>1. CASE buffer' = buffer
    BY <1>7, <2>1 DEF SubmitPush, serverSide
  <2>2. CASE buffer' # buffer
    <3>1. /\ rpc[c].round = buffer.round /\ buffer.open
          /\ UNCHANGED <<pc, job, round, current>>
      BY <1>7, <2>2 DEF SubmitPush, Accepts, serverSide
    <3>2. PICK body \in Bodies :
            buffer' = [buffer EXCEPT !.deltas = @ \cup
              {[slot |-> Cardinality(@), client |-> c, round |-> rpc[c].round,
                base |-> rpc[c].base, body |-> body]}]
      BY <1>7, <2>2 DEF SubmitPush
    <3>3. \A e \in buffer'.deltas : e.round = round
      BY <1>0, <3>1, <3>2
    <3> QED
      BY <1>0, <3>1, <3>2, <3>3
  <2> QED
    BY <2>1, <2>2
<1>8. CASE CrashRestart
  BY <1>0, <1>8 DEF CrashRestart
<1>9. CASE UNCHANGED <<pc, job, round, current, buffer>>
  BY <1>9
<1>10. \/ UNCHANGED <<pc, job, round, current, buffer>>
       \/ ExitOnShutdown \/ BeginRound \/ LoadWeights \/ OpenRound \/ AnnounceRound \/ FlushRound
       \/ AskSidecar \/ Aggregate \/ SaveCheckpoint \/ LogRound \/ LogClient \/ AdvanceRound
       \/ ClearRound \/ BackoffEnds \/ (\E c \in Clients : SubmitPush(c)) \/ CrashRestart
  BY NextCases DEF vars, appVars, serverSide, Register, FetchTaskRound, FetchTaskWeights,
       ReceivePushed, SubmitClone, RequestShutdown
<1> QED
  BY <1>1, <1>2, <1>3, <1>4, <1>5, <1>6, <1>7, <1>8, <1>9, <1>10

-----------------------------------------------------------------------------
(* The store keeps pace with the counter *)

\* Once a round's checkpoint is saved, the store holds that round or a later one.
LEMMA SavedCovers ==
  ASSUME TypeOK, StoreInv
  PROVE  /\ DOMAIN Saved(round, attempt) \subseteq Nat
         /\ \E r \in DOMAIN Saved(round, attempt) : r >= round
         /\ ~DurableStore => \E r \in DOMAIN Saved(round, attempt) : DOMAIN Saved(round, attempt) = {r}
<1>0. round \in Nat /\ DOMAIN ckpt \subseteq Nat
  BY DEF TypeOK, AppTypeOK, BooksTypeOK
<1>1. CASE DurableStore
  BY <1>0, <1>1 DEF Saved
<1>2. CASE ~DurableStore /\ \A s \in DOMAIN ckpt : s <= round
  BY <1>0, <1>2 DEF Saved
<1>3. CASE ~DurableStore /\ ~(\A s \in DOMAIN ckpt : s <= round)
  <2>1. Saved(round, attempt) = ckpt
    BY <1>3 DEF Saved
  <2>2. \E r \in DOMAIN ckpt : r >= round
    BY <1>0, <1>3
  <2> QED
    BY <1>0, <1>3, <2>1, <2>2 DEF StoreInv
<1> QED
  BY <1>1, <1>2, <1>3

\* Every step keeps the store in line with the counter: the counter moves only
\* behind a written checkpoint, and a new process starts counting at 1.
LEMMA StoreStep ==
  ASSUME TypeOK, StoreInv, [Next]_vars
  PROVE  StoreInv'
<1>0. round \in Nat /\ round >= 1 /\ DOMAIN ckpt \subseteq Nat
  BY DEF TypeOK, AppTypeOK, BooksTypeOK, StoreInv
<1>1. CASE UNCHANGED <<round, ckpt>> /\ (pc' \in Written => pc \in Written)
  BY <1>1 DEF StoreInv, StoreKeepsPace
<1>2. CASE SaveCheckpoint
  <2>1. round' = round /\ (ckpt' = ckpt \/ ckpt' = Saved(round, attempt))
    BY <1>2 DEF SaveCheckpoint, appVars
  <2>2. CASE ckpt' = Saved(round, attempt)
    <3>1. /\ DOMAIN ckpt' \subseteq Nat /\ \E r \in DOMAIN ckpt' : r >= round
          /\ ~DurableStore => \E r \in DOMAIN ckpt' : DOMAIN ckpt' = {r}
      BY <2>2, SavedCovers
    <3>2. \E r \in DOMAIN ckpt' : r + 1 >= round
      BY <1>0, <3>1
    <3> QED
      BY <1>0, <2>1, <3>1, <3>2 DEF StoreInv, StoreKeepsPace
  <2>3. CASE ckpt' = ckpt /\ pc' \notin Written
    BY <2>1, <2>3 DEF StoreInv, StoreKeepsPace
  <2>4. ckpt' = Saved(round, attempt) \/ (ckpt' = ckpt /\ pc' \notin Written)
    BY <1>2 DEF SaveCheckpoint, Transient, Written
  <2> QED
    BY <2>2, <2>3, <2>4
<1>3. CASE AdvanceRound
  <2>1. round' = round + 1 /\ ckpt' = ckpt /\ pc' = "clear" /\ \E r \in DOMAIN ckpt : r >= round
    BY <1>3 DEF AdvanceRound, StoreInv, Written
  <2> QED
    BY <1>0, <2>1 DEF StoreInv, StoreKeepsPace, Written
<1>4. CASE CrashRestart
  <2>1. round' = 1 /\ pc' = "between" /\ ckpt' = IF DurableStore THEN ckpt ELSE FirstStore
    BY <1>4 DEF CrashRestart
  <2>2. ~DurableStore => 0 \in DOMAIN FirstStore /\ DOMAIN FirstStore = {0}
    BY DEF FirstStore
  <2> QED
    BY <2>1, <2>2 DEF StoreInv, StoreKeepsPace, Written
<1>5. \/ UNCHANGED <<round, ckpt>> /\ (pc' \in Written => pc \in Written)
      \/ SaveCheckpoint \/ AdvanceRound \/ CrashRestart
  <2>1. CASE ExitOnShutdown \/ BeginRound \/ LoadWeights \/ AnnounceRound \/ BackoffEnds \/ ClearRound
    BY <2>1 DEF ExitOnShutdown, StopCleanly, BeginRound, LoadWeights, AnnounceRound, BackoffEnds,
                ClearRound, Transient, Fatal, appVars, Written
  <2>2. CASE OpenRound \/ FlushRound
    BY <2>2, OpenRoundEffect, FlushRoundEffect DEF TypeOK, LoopTypeOK, Written
  <2>3. CASE AskSidecar \/ Aggregate \/ LogRound \/ LogClient
    BY <2>3 DEF AskSidecar, Aggregate, LogRound, LogClient, Transient, appVars, Written
  <2>4. CASE RequestShutdown \/ UNCHANGED vars
    BY <2>4 DEF RequestShutdown, vars, appVars
  <2>5. CASE \E c \in Clients : \/ Register(c) \/ FetchTaskRound(c) \/ FetchTaskWeights(c)
                               \/ ReceivePushed(c) \/ SubmitClone(c) \/ SubmitPush(c)
    BY <2>5 DEF Register, FetchTaskRound, FetchTaskWeights, ReceivePushed, SubmitClone, SubmitPush,
                serverSide
  <2> QED
    BY NextCases, <2>1, <2>2, <2>3, <2>4, <2>5
<1> QED
  BY <1>1, <1>2, <1>3, <1>4, <1>5

-----------------------------------------------------------------------------
(* Released models are paid for *)

\* A further failure excuses a further uncharged model: the bounds survive it.
LEMMA FaultsExcuse ==
  ASSUME NEW a \in Nat, NEW b \in Nat, NEW n \in Nat, NEW f \in Nat, NEW g \in {f, f + 1},
         a <= b + n + f
  PROVE  a <= b + n + g
OBVIOUS

\* Every step keeps the released models, the accountant and the log in step,
\* up to crashes and backend failures.
LEMMA CostStep ==
  ASSUME TypeOK, CostInv, [Next]_vars
  PROVE  CostInv'
<1> DEFINE Paying == {"load", "open"} \cup Collecting \cup Flushed
<1>0. /\ acct \in Books /\ log \in Books /\ released \in Nat /\ crashes \in Nat /\ faults \in Nat
      /\ acct.total \in Nat /\ log.total \in Nat /\ Budget \in Nat
      /\ LogEnabled \in BOOLEAN /\ PerClientScope \in BOOLEAN /\ HaltOnExhausted \in BOOLEAN
  BY ConstantTypes DEF TypeOK, BooksTypeOK, CountTypeOK, Books
<1>1. CASE /\ UNCHANGED <<acct, log, released, crashes>> /\ faults' \in {faults, faults + 1}
           /\ (pc = "log") = (pc' = "log")
           /\ pc' \in Paying => pc \in Paying
  <2>1. faults' >= faults /\ faults' \in Nat /\ Pending' = Pending /\ Pending \in Nat
    BY <1>0, <1>1 DEF Pending
  <2>2. /\ LogEnabled => /\ released <= log.total + crashes + faults' + Pending
                         /\ log.total + Pending <= acct.total
        /\ LogEnabled \/ crashes = 0 => released <= acct.total + crashes + faults'
        /\ ~PerClientScope /\ HaltOnExhausted /\ (LogEnabled \/ crashes = 0) =>
             released <= Budget + crashes + faults'
    <3>1. LogEnabled => /\ released <= log.total + crashes + faults + Pending
                        /\ log.total + Pending <= acct.total
      BY DEF CostInv
    <3>2. LogEnabled \/ crashes = 0 => released <= acct.total + crashes + faults
      BY DEF CostInv
    <3>3. ~PerClientScope /\ HaltOnExhausted /\ (LogEnabled \/ crashes = 0) =>
            released <= Budget + crashes + faults
      BY DEF CostInv, BudgetNotOverrun
    <3>4. released <= log.total + crashes + faults + Pending =>
            released <= log.total + crashes + faults' + Pending
      BY <1>0, <2>1
    <3>5. released <= acct.total + crashes + faults => released <= acct.total + crashes + faults'
      BY <1>0, <1>1, FaultsExcuse
    <3>6. released <= Budget + crashes + faults => released <= Budget + crashes + faults'
      BY <1>0, <1>1, FaultsExcuse
    <3> QED
      BY <3>1, <3>2, <3>3, <3>4, <3>5, <3>6
  <2>3. ~LogEnabled => pc' # "log"
    BY <1>1 DEF CostInv
  <2>4. ~PerClientScope /\ HaltOnExhausted /\ pc' \in Paying => acct.total < Budget
    BY <1>1 DEF CostInv
  <2> QED
    BY <1>1, <2>1, <2>2, <2>3, <2>4 DEF CostInv, BudgetNotOverrun
<1>2. CASE BeginRound
  <2>1. /\ pc = "between" /\ pc' \in {"load", "exited"}
        /\ UNCHANGED <<acct, log, released, crashes, faults>>
        /\ pc' = "load" /\ ~PerClientScope /\ HaltOnExhausted => ~(acct.total >= Budget)
    BY <1>2 DEF BeginRound, Fatal, Exhausted, acctVars, boundVars
  <2>2. Pending' = Pending /\ Pending = 0
    BY <2>1 DEF Pending
  <2> QED
    BY <1>0, <2>1, <2>2 DEF CostInv, BudgetNotOverrun, Collecting, Flushed
<1>3. CASE SaveCheckpoint
  <2>0. pc = "save" /\ UNCHANGED <<log, crashes>>
    BY <1>3 DEF SaveCheckpoint
  <2>1. CASE /\ released' = released + 1 /\ acct' = Charge(acct, job.passed)
             /\ pc' = (IF LogEnabled THEN "log" ELSE "advance") /\ UNCHANGED faults
    <3>1. acct'.total = acct.total + 1 /\ Pending = 0 /\ Pending' = (IF LogEnabled THEN 1 ELSE 0)
      BY <2>0, <2>1 DEF Charge, Pending
    <3>2. ~PerClientScope /\ HaltOnExhausted => acct.total < Budget
      BY <2>0 DEF CostInv, Flushed
    <3>3. pc' \notin Paying
      BY <2>1 DEF Collecting, Flushed
    <3> QED
      BY <1>0, <2>0, <2>1, <3>1, <3>2, <3>3 DEF CostInv, BudgetNotOverrun
  <2>2. CASE /\ faults' = faults + 1 /\ pc' = "backoff" /\ released' \in {released, released + 1}
             /\ UNCHANGED acct
    <3>1. Pending = 0 /\ Pending' = 0
      BY <2>0, <2>2 DEF Pending
    <3> QED
      BY <1>0, <2>0, <2>2, <3>1 DEF CostInv, BudgetNotOverrun, Collecting, Flushed
  <2>3. \/ /\ released' = released + 1 /\ acct' = Charge(acct, job.passed)
           /\ pc' = (IF LogEnabled THEN "log" ELSE "advance") /\ UNCHANGED faults
        \/ /\ faults' = faults + 1 /\ pc' = "backoff" /\ released' \in {released, released + 1}
           /\ UNCHANGED acct
    BY <1>3 DEF SaveCheckpoint, Fault, Transient
  <2> QED
    BY <2>1, <2>2, <2>3
<1>4. CASE LogRound
  <2>1. /\ pc = "log" /\ UNCHANGED <<acct, released, crashes>>
        /\ pc' \in {"advance", "logClients", "backoff"}
    BY <1>4 DEF LogRound, Transient
  <2>2. \/ log'.total = log.total + 1 /\ faults' \in {faults, faults + 1}
        \/ log'.total = log.total /\ faults' = faults + 1
    BY <1>0, <1>4 DEF LogRound, Fault, Books
  <2>3. Pending = 1 /\ Pending' = 0
    BY <2>1 DEF Pending
  <2> QED
    BY <1>0, <2>1, <2>2, <2>3 DEF CostInv, BudgetNotOverrun, Collecting, Flushed
<1>5. CASE LogClient
  <2>1. /\ pc = "logClients" /\ UNCHANGED <<acct, released, crashes>>
        /\ pc' \in {"advance", "logClients", "backoff"} /\ faults' \in {faults, faults + 1}
    BY <1>5 DEF LogClient, Transient, Fault
  <2>2. log'.total = log.total
    BY <1>0, <1>5 DEF LogClient, Books
  <2>3. Pending = 0 /\ Pending' = 0
    BY <2>1 DEF Pending
  <2>4. /\ LogEnabled => /\ released <= log.total + crashes + faults'
                         /\ log.total <= acct.total
        /\ LogEnabled \/ crashes = 0 => released <= acct.total + crashes + faults'
        /\ ~PerClientScope /\ HaltOnExhausted /\ (LogEnabled \/ crashes = 0) =>
             released <= Budget + crashes + faults'
    <3>1. LogEnabled => released <= log.total + crashes + faults /\ log.total <= acct.total
      BY <1>0, <2>3 DEF CostInv
    <3>2. LogEnabled \/ crashes = 0 => released <= acct.total + crashes + faults
      BY DEF CostInv
    <3>3. ~PerClientScope /\ HaltOnExhausted /\ (LogEnabled \/ crashes = 0) =>
            released <= Budget + crashes + faults
      BY DEF CostInv, BudgetNotOverrun
    <3>4. \A b \in Nat : released <= b + crashes + faults => released <= b + crashes + faults'
      BY <1>0, <2>1, FaultsExcuse
    <3> QED
      BY <1>0, <3>1, <3>2, <3>3, <3>4
  <2>5. LogEnabled => released <= log'.total + crashes' + faults' + Pending'
    BY <1>0, <2>1, <2>2, <2>3, <2>4
  <2>6. LogEnabled => log'.total + Pending' <= acct'.total
    BY <1>0, <2>1, <2>2, <2>3, <2>4
  <2>7. pc' # "log" /\ pc' \notin Paying
    BY <2>1 DEF Collecting, Flushed
  <2> QED
    BY <2>1, <2>4, <2>5, <2>6, <2>7 DEF CostInv, BudgetNotOverrun
<1>6. CASE CrashRestart
  <2>1. /\ pc' = "between" /\ crashes' = crashes + 1 /\ UNCHANGED <<log, released, faults>>
        /\ acct' = IF LogEnabled THEN log ELSE NoCost
    BY <1>6 DEF CrashRestart, Replayed
  <2>2. Pending' = 0 /\ Pending \in {0, 1}
    BY <2>1 DEF Pending
  <2>3. CASE LogEnabled
    BY <1>0, <2>1, <2>2, <2>3 DEF CostInv, BudgetNotOverrun, Collecting, Flushed
  <2>4. CASE ~LogEnabled
    BY <1>0, <2>1, <2>2, <2>4 DEF CostInv, BudgetNotOverrun, Collecting, Flushed
  <2> QED
    BY <1>0, <2>3, <2>4
<1>7. \/ /\ UNCHANGED <<acct, log, released, crashes>> /\ faults' \in {faults, faults + 1}
         /\ (pc = "log") = (pc' = "log")
         /\ pc' \in Paying => pc \in Paying
      \/ BeginRound \/ SaveCheckpoint \/ LogRound \/ LogClient \/ CrashRestart
  <2> USE DEF Collecting, Flushed
  <2>1. CASE ExitOnShutdown \/ LoadWeights \/ AnnounceRound \/ BackoffEnds \/ ClearRound \/ AdvanceRound
    BY <2>1 DEF ExitOnShutdown, StopCleanly, LoadWeights, AnnounceRound, BackoffEnds, ClearRound,
                AdvanceRound, Transient, Fatal, Fault, acctVars, boundVars
  <2>2. CASE OpenRound \/ FlushRound
    BY <2>2, OpenRoundEffect, FlushRoundEffect DEF TypeOK, LoopTypeOK
  <2>3. CASE AskSidecar \/ Aggregate
    BY <2>3 DEF AskSidecar, Aggregate, Transient, Fault, acctVars
  <2>4. CASE RequestShutdown \/ UNCHANGED vars
    BY <2>4 DEF RequestShutdown, vars, acctVars, boundVars
  <2>5. CASE \E c \in Clients : \/ Register(c) \/ FetchTaskRound(c) \/ FetchTaskWeights(c)
                               \/ ReceivePushed(c) \/ SubmitClone(c) \/ SubmitPush(c)
    BY <2>5 DEF Register, FetchTaskRound, FetchTaskWeights, ReceivePushed, SubmitClone, SubmitPush,
                serverSide
  <2> QED
    BY NextCases, <2>1, <2>2, <2>3, <2>4, <2>5
<1> QED
  BY <1>1, <1>2, <1>3, <1>4, <1>5, <1>6, <1>7

-----------------------------------------------------------------------------
(* Updates are trained from the model the round is run on *)

\* The initial state has no task, no update, and round 1 follows the seed.
LEMMA InitModelInv == Init => ModelInv
BY DEF Init, ModelInv, StoreLatest, WeightsCurrent, NoRoundAhead, TasksCurrent, OnLatest,
       DeltasCurrent, TrainedFromThisRoundsModel, IsLatest, FirstStore, NoTask, NoRpc, NoBuffer,
       Collecting, Flushed, Written

\* While a round has not written its checkpoint, the latest model is the one
\* filed under the round before.
LEMMA LatestModel ==
  ASSUME TypeOK, StoreInv, StoreLatest, pc \notin Written, NEW r \in DOMAIN ckpt, IsLatest(r)
  PROVE  r = round - 1
<1>1. round - 1 \in Nat /\ r \in Nat /\ round \in Nat
  BY DEF TypeOK, AppTypeOK, BooksTypeOK, StoreInv
<1>2. IsLatest(round - 1)
  BY DEF StoreLatest
<1> QED
  BY <1>1, <1>2 DEF IsLatest

\* Saving the round's checkpoint makes it the store's latest.
LEMMA SavedIsLatest ==
  ASSUME TypeOK, StoreInv, StoreLatest, pc = "save", ckpt' = Saved(round, attempt)
  PROVE  IsLatest(round)' \/ round' # round
<1>1. round \in Nat /\ DOMAIN ckpt \subseteq Nat /\ round >= 1
  BY DEF TypeOK, AppTypeOK, BooksTypeOK, StoreInv
<1>2. \A s \in DOMAIN ckpt : s <= round
  BY <1>1 DEF StoreLatest, IsLatest, Flushed, Written
<1>3. DOMAIN ckpt' \subseteq DOMAIN ckpt \cup {round} /\ round \in DOMAIN ckpt'
  BY <1>2 DEF Saved
<1> QED
  BY <1>1, <1>2, <1>3 DEF IsLatest

\* A step that leaves the counter, the store and what clients hold alone keeps
\* ModelInv if it neither enters nor leaves Written, grows no batch, and enters
\* the part of the round that uses the weights only with the right ones.
LEMMA QuietStep ==
  ASSUME ModelInv, UNCHANGED <<round, pushed, ckpt, task, rpc>>,
         pc' \in Written <=> pc \in Written,
         buffer'.deltas \subseteq buffer.deltas,
         pc' \in {"open"} \cup Collecting \cup Flushed =>
           /\ job'.weights = ckpt[round - 1]
           /\ DOMAIN ckpt # {},
         pc' \in Flushed => \A d \in job'.passed : d.base = job'.weights
  PROVE  ModelInv'
<1>1. StoreLatest'
  BY DEF ModelInv, StoreLatest, IsLatest
<1>2. WeightsCurrent' /\ NoRoundAhead' /\ TasksCurrent' /\ DeltasCurrent'
  BY DEF ModelInv, WeightsCurrent, NoRoundAhead, TasksCurrent, OnLatest, DeltasCurrent
<1>3. TrainedFromThisRoundsModel'
  BY DEF TrainedFromThisRoundsModel, Flushed
<1> QED
  BY <1>1, <1>2, <1>3 DEF ModelInv

\* The loop's own steps, none of which fails behind a written checkpoint.
LEMMA LoopModelStep ==
  ASSUME TypeOK, BatchInv, StoreInv, ModelInv, NoLateFailure, Loop
  PROVE  ModelInv'
<1> USE DEF Collecting, Flushed, Written
<1>0. job \in Job /\ round \in Nat /\ round - 1 \in Nat
  BY DEF TypeOK, LoopTypeOK, AppTypeOK, StoreInv
<1>a. /\ pc \in {"open", "announce", "collect", "sidecar", "aggregate", "save"} =>
           job.weights = ckpt[round - 1] /\ DOMAIN ckpt # {}
      /\ pc \in {"sidecar", "aggregate", "save"} => \A d \in job.passed : d.base = job.weights
  BY DEF ModelInv, StoreLatest, WeightsCurrent, TrainedFromThisRoundsModel
<1>1. CASE ExitOnShutdown \/ BeginRound \/ BackoffEnds \/ ClearRound
  BY <1>1, QuietStep DEF ExitOnShutdown, StopCleanly, BeginRound, BackoffEnds, ClearRound, Fatal,
       appVars, netVars
<1>2. CASE LoadWeights
  <2>1. CASE pc' = "open"
    <3>1. PICK r \in DOMAIN ckpt : IsLatest(r) /\ job' = [job EXCEPT !.weights = ckpt[r]]
      BY <1>2, <2>1 DEF LoadWeights, Transient
    <3>2. r = round - 1
      BY <1>2, <3>1, LatestModel DEF LoadWeights, ModelInv
    <3>3. job'.weights = ckpt[round - 1] /\ DOMAIN ckpt # {}
      BY <1>0, <3>1, <3>2 DEF Job
    <3> QED
      BY <1>2, <2>1, <3>3, QuietStep DEF LoadWeights, appVars, netVars
  <2>2. CASE pc' # "open"
    BY <1>2, <2>2, QuietStep DEF LoadWeights, Transient, appVars, netVars
  <2> QED
    BY <2>1, <2>2
<1>3. CASE OpenRound
  BY <1>0, <1>a, <1>3, OpenRoundEffect, QuietStep
<1>4. CASE AnnounceRound
  <2>1. /\ pc = "announce" /\ pc' = "collect" /\ UNCHANGED <<job, round, buffer, ckpt, task, rpc>>
        /\ pushed' = [round |-> round, base |-> job.weights]
    BY <1>4 DEF AnnounceRound, netVars
  <2>2. pushed'.round = round /\ pushed'.base = ckpt[round - 1] /\ DOMAIN ckpt # {}
    BY <1>a, <2>1
  <2>3. StoreLatest' /\ WeightsCurrent' /\ DeltasCurrent' /\ TrainedFromThisRoundsModel'
    BY <1>a, <2>1 DEF ModelInv, StoreLatest, IsLatest, WeightsCurrent, DeltasCurrent,
                       TrainedFromThisRoundsModel
  <2>4. NoRoundAhead'
    BY <1>0, <2>1, <2>2 DEF ModelInv, NoRoundAhead
  <2>5. TasksCurrent'
    BY <2>1, <2>2 DEF ModelInv, TasksCurrent, OnLatest
  <2> QED
    BY <2>3, <2>4, <2>5 DEF ModelInv
<1>5. CASE FlushRound
  <2>1. buffer'.deltas = {}
    BY <1>5, <1>0, FlushRoundEffect DEF TypeOK, AppTypeOK
  <2>2. \A d \in buffer.deltas : d.base = ckpt[round - 1] /\ d \in Delta
    BY DEF ModelInv, DeltasCurrent, TypeOK, AppTypeOK
  <2>3. \A passing : \A d \in Reencoded(buffer.deltas, passing) : d.base = ckpt[round - 1]
    BY <2>2 DEF Reencoded, LastFinite, Delta
  <2> QED
    BY <1>0, <1>a, <1>5, <2>1, <2>3, FlushRoundEffect, QuietStep
<1>6. CASE AskSidecar \/ Aggregate
  BY <1>a, <1>6, QuietStep DEF AskSidecar, Aggregate, Transient, appVars, netVars
<1>7. CASE SaveCheckpoint
  <2>1. pc = "save" /\ buffer.deltas = {} /\ UNCHANGED <<round, buffer, pushed, task, rpc>>
    BY <1>7 DEF SaveCheckpoint, BatchInv, appVars, netVars
  <2>2. CASE ckpt' = Saved(round, attempt) /\ pc' \in Written
    <3>1. IsLatest(round)'
      BY <2>1, <2>2, SavedIsLatest DEF ModelInv
    <3>2. StoreLatest'
      BY <2>1, <2>2, <3>1 DEF StoreLatest, IsLatest
    <3> QED
      BY <2>1, <2>2, <3>2 DEF ModelInv, WeightsCurrent, NoRoundAhead, TasksCurrent, DeltasCurrent,
           TrainedFromThisRoundsModel
  <2>3. CASE ckpt' = ckpt /\ pc' = "backoff"
    BY <2>1, <2>3, QuietStep
  <2>4. (ckpt' = Saved(round, attempt) /\ pc' \in Written) \/ (ckpt' = ckpt /\ pc' = "backoff")
    BY <1>7 DEF SaveCheckpoint, Fault, Transient, NoLateFailure
  <2> QED
    BY <2>2, <2>3, <2>4
<1>8. CASE LogRound \/ LogClient
  BY <1>8, QuietStep DEF LogRound, LogClient, Fault, NoLateFailure, appVars, netVars
<1>9. CASE AdvanceRound
  <2>1. /\ pc = "advance" /\ pc' = "clear" /\ round' = round + 1
        /\ UNCHANGED <<job, buffer, pushed, ckpt, task, rpc>> /\ buffer.deltas = {}
    BY <1>9 DEF AdvanceRound, BatchInv, netVars
  <2>2. StoreLatest'
    BY <1>0, <2>1 DEF ModelInv, StoreLatest, IsLatest
  <2>3. /\ pushed.round \in Nat
        /\ \A c \in Clients : rpc[c].round \in Nat /\ task[c].round \in Nat
    BY DEF TypeOK, NetTypeOK, AppTypeOK, Call, Task
  <2>4. NoRoundAhead' /\ TasksCurrent'
    BY <1>0, <2>1, <2>3 DEF ModelInv, NoRoundAhead, TasksCurrent, OnLatest
  <2> QED
    BY <2>1, <2>2, <2>4 DEF ModelInv, WeightsCurrent, DeltasCurrent, TrainedFromThisRoundsModel
<1> QED
  BY <1>1, <1>2, <1>3, <1>4, <1>5, <1>6, <1>7, <1>8, <1>9 DEF Loop, RunRound

\* The handlers: a task pairs the counter's round with the model it follows,
\* because the counter is read first.
LEMMA HandlerModelStep ==
  ASSUME TypeOK, BatchInv, StoreInv, ModelInv, NEW c \in Clients,
         \/ Register(c) \/ FetchTaskRound(c) \/ FetchTaskWeights(c)
         \/ ReceivePushed(c) \/ SubmitClone(c) \/ SubmitPush(c)
  PROVE  ModelInv'
<1>0. /\ UNCHANGED <<pc, job, round, pushed, ckpt>>
      /\ round \in Nat
      /\ task \in [Clients -> Task] /\ rpc \in [Clients -> Call]
  BY DEF Register, FetchTaskRound, FetchTaskWeights, ReceivePushed, SubmitClone, SubmitPush,
         serverSide, TypeOK, AppTypeOK, NetTypeOK
<1>1. StoreLatest' /\ WeightsCurrent' /\ TrainedFromThisRoundsModel'
  BY <1>0 DEF ModelInv, StoreLatest, IsLatest, WeightsCurrent, TrainedFromThisRoundsModel
<1>2. CASE Register(c)
  BY <1>0, <1>1, <1>2 DEF Register, netVars, ModelInv, NoRoundAhead, TasksCurrent, OnLatest,
       DeltasCurrent
<1>3. CASE FetchTaskRound(c)
  <2> DEFINE call == [NoRpc EXCEPT !.stage = "fetching", !.round = round]
  <2>1. UNCHANGED <<task, buffer>> /\ rpc' = [rpc EXCEPT ![c] = call]
    BY <1>3 DEF FetchTaskRound
  <2>2. call.stage = "fetching" /\ call.round = round
    BY DEF NoRpc
  <2> HIDE DEF call
  <2> QED
    BY <1>0, <1>1, <2>1, <2>2 DEF ModelInv, NoRoundAhead, TasksCurrent, OnLatest, DeltasCurrent
<1>4. CASE FetchTaskWeights(c)
  <2>1. UNCHANGED buffer /\ rpc' = [rpc EXCEPT ![c] = NoRpc] /\ rpc[c].round <= round
    BY <1>4 DEF FetchTaskWeights, ModelInv, NoRoundAhead
  <2>2. \/ task' = task
        \/ \E r \in DOMAIN ckpt :
             /\ IsLatest(r)
             /\ task' = [task EXCEPT ![c] = [round |-> rpc[c].round, base |-> ckpt[r]]]
    BY <1>4 DEF FetchTaskWeights
  <2>3. \A r \in DOMAIN ckpt : IsLatest(r) /\ pc \notin Written => r = round - 1
    BY LatestModel DEF ModelInv
  <2>4. task'[c].round <= round
    BY <1>0, <2>1, <2>2 DEF ModelInv, NoRoundAhead
  <2>5. pc \notin Written => OnLatest(task'[c].round, task'[c].base)
    BY <1>0, <2>2, <2>3 DEF ModelInv, TasksCurrent, OnLatest
  <2>6. \A b \in Clients \ {c} : task'[b] = task[b] /\ rpc'[b] = rpc[b]
    BY <1>0, <2>1, <2>2
  <2>7. rpc'[c].round <= round /\ rpc'[c].stage # "submitting"
    BY <1>0, <2>1 DEF NoRpc
  <2>8. NoRoundAhead'
    BY <1>0, <2>4, <2>6, <2>7 DEF ModelInv, NoRoundAhead
  <2>9. TasksCurrent'
    BY <1>0, <2>5, <2>6, <2>7 DEF ModelInv, TasksCurrent, OnLatest
  <2> QED
    BY <1>0, <1>1, <2>1, <2>8, <2>9 DEF ModelInv, DeltasCurrent
<1>5. CASE ReceivePushed(c)
  BY <1>0, <1>1, <1>5 DEF ReceivePushed, ModelInv, NoRoundAhead, TasksCurrent, OnLatest, DeltasCurrent
<1>6. CASE SubmitClone(c)
  BY <1>0, <1>1, <1>6 DEF SubmitClone, ModelInv, NoRoundAhead, TasksCurrent, OnLatest, DeltasCurrent
<1>7. CASE SubmitPush(c)
  <2>1. UNCHANGED task /\ rpc' = [rpc EXCEPT ![c] = NoRpc]
    BY <1>7 DEF SubmitPush
  <2>2. NoRoundAhead' /\ TasksCurrent'
    BY <1>0, <2>1 DEF ModelInv, NoRoundAhead, TasksCurrent, OnLatest, NoRpc
  <2>3. CASE buffer' = buffer
    BY <1>0, <1>1, <2>2, <2>3 DEF ModelInv, DeltasCurrent
  <2>4. CASE buffer' # buffer
    <3>1. rpc[c].stage = "submitting" /\ rpc[c].round = round /\ pc \notin Written
      BY <1>7, <2>4 DEF SubmitPush, Accepts, BatchInv, Collecting, Written
    <3>2. rpc[c].base = ckpt[round - 1]
      BY <3>1 DEF ModelInv, TasksCurrent, OnLatest
    <3>3. PICK body \in Bodies :
            buffer' = [buffer EXCEPT !.deltas = @ \cup
              {[slot |-> Cardinality(@), client |-> c, round |-> rpc[c].round,
                base |-> rpc[c].base, body |-> body]}]
      BY <1>7, <2>4 DEF SubmitPush
    <3>4. DeltasCurrent'
      BY <1>0, <3>2, <3>3 DEF ModelInv, DeltasCurrent, TypeOK, AppTypeOK
    <3> QED
      BY <1>1, <2>2, <3>4 DEF ModelInv
  <2> QED
    BY <2>3, <2>4
<1> QED
  BY <1>2, <1>3, <1>4, <1>5, <1>6, <1>7

\* Together: without crashes and late failures every step keeps ModelInv.
LEMMA ModelStep ==
  ASSUME TypeOK, BatchInv, StoreInv, ModelInv, NoLateFailure, [Next]_vars
  PROVE  ModelInv'
<1>1. CASE Loop
  BY <1>1, LoopModelStep
<1>2. CASE Handlers
  BY <1>2, HandlerModelStep DEF Handlers
<1>3. CASE RequestShutdown
  BY <1>3, QuietStep DEF RequestShutdown, appVars, netVars, ModelInv, WeightsCurrent, StoreLatest,
       TrainedFromThisRoundsModel, Flushed
<1>4. CASE CrashRestart
  BY <1>4 DEF CrashRestart, NoLateFailure, TypeOK, CountTypeOK
<1>5. CASE UNCHANGED vars
  BY <1>5, QuietStep DEF vars, ModelInv, WeightsCurrent, StoreLatest,
       TrainedFromThisRoundsModel, Flushed
<1> QED
  BY <1>1, <1>2, <1>3, <1>4, <1>5 DEF Next

-----------------------------------------------------------------------------
(* What is admitted to the aggregate *)

\* Every copy reencode_passing_deltas hands on is finite and comes from a
\* client it was asked for.
LEMMA ReencodedAdmitted ==
  ASSUME NEW batch \in SUBSET Delta, NEW ids
  PROVE  \A d \in Reencoded(batch, ids) : d.body = "finite" /\ d.client \in ids
BY DEF Reencoded, LastFinite, Delta

\* Every step keeps AdmittedInv: only FlushRound fills the list, and nothing
\* is charged between the budget filter and the checkpoint.
LEMMA AdmittedStep ==
  ASSUME TypeOK, AdmittedInv, [Next]_vars
  PROVE  AdmittedInv'
<1> USE DEF AdmittedInv, OnlyFiniteAggregated, Flushed
<1>0. job \in Job /\ NoJob.passed = {}
  BY DEF TypeOK, LoopTypeOK, NoJob
<1>1. CASE ExitOnShutdown \/ BeginRound \/ LoadWeights \/ BackoffEnds \/ ClearRound
  BY <1>0, <1>1 DEF ExitOnShutdown, StopCleanly, BeginRound, LoadWeights, BackoffEnds, ClearRound,
       Transient, Fatal, Job
<1>2. CASE OpenRound
  <2>1. job'.passed \subseteq job.passed /\ pc' \notin Flushed
    BY <1>0, <1>2 DEF OpenRound, Transient, Fatal, Job
  <2> QED
    BY <2>1
<1>3. CASE FlushRound
  <2>1. CASE job' = NoJob /\ pc' \in {"backoff", "exited"}
    BY <1>0, <2>1
  <2>2. CASE \E passing \in SUBSET (FiniteIds(buffer.deltas) \ OverBudget(FiniteIds(buffer.deltas))) :
               job'.passed = Reencoded(buffer.deltas, passing)
    <3>1. PICK passing \in SUBSET (FiniteIds(buffer.deltas) \ OverBudget(FiniteIds(buffer.deltas))) :
               job'.passed = Reencoded(buffer.deltas, passing)
      BY <2>2
    <3>2. \A d \in job'.passed : d.body = "finite" /\ d.client \in passing
      BY <3>1, ReencodedAdmitted DEF TypeOK, AppTypeOK
    <3>3. PerClientScope => \A id \in passing : ~Exhausted(acct.client[id])
      BY <3>1 DEF OverBudget
    <3>4. acct' = acct
      BY <1>0, <1>3, FlushRoundEffect
    <3> QED
      BY <3>2, <3>3, <3>4 DEF Exhausted
  <2> QED
    BY <1>0, <1>3, <2>1, <2>2, FlushRoundEffect
<1>4. CASE AskSidecar \/ Aggregate \/ AnnounceRound \/ AdvanceRound
  BY <1>0, <1>4 DEF AskSidecar, Aggregate, AnnounceRound, AdvanceRound, Transient, acctVars, Exhausted
<1>5. CASE SaveCheckpoint
  BY <1>0, <1>5 DEF SaveCheckpoint, Transient, Job
<1>6. CASE LogRound \/ LogClient
  BY <1>0, <1>6 DEF LogRound, LogClient, Transient, Job
<1>7. CASE CrashRestart
  BY <1>0, <1>7 DEF CrashRestart
<1>8. CASE UNCHANGED <<pc, job, acct>>
  BY <1>8 DEF Exhausted
<1>9. \/ UNCHANGED <<pc, job, acct>>
      \/ ExitOnShutdown \/ BeginRound \/ LoadWeights \/ BackoffEnds \/ ClearRound \/ OpenRound
      \/ FlushRound \/ AskSidecar \/ Aggregate \/ AnnounceRound \/ AdvanceRound \/ SaveCheckpoint
      \/ LogRound \/ LogClient \/ CrashRestart
  BY NextCases DEF vars, acctVars, serverSide, Register, FetchTaskRound, FetchTaskWeights,
       ReceivePushed, SubmitClone, SubmitPush, RequestShutdown
<1> QED
  BY <1>1, <1>2, <1>3, <1>4, <1>5, <1>6, <1>7, <1>8, <1>9

\* A step charges a spent client nothing.
LEMMA SpentStep ==
  ASSUME TypeOK, AdmittedInv, [Next]_vars, NEW c \in Clients, PerClientScope,
         Exhausted(acct.client[c]), crashes' = crashes
  PROVE  acct'.client[c] = acct.client[c]
<1>1. CASE acct' = acct
  BY <1>1
<1>2. CASE SaveCheckpoint /\ acct' = Charge(acct, job.passed)
  <2>1. \A d \in job.passed : d.client # c
    BY <1>2 DEF SaveCheckpoint, AdmittedInv, Flushed
  <2>2. {d \in job.passed : d.client = c} = {}
    BY <2>1
  <2>3. acct'.client[c] = acct.client[c] + Cardinality({})
    BY <1>2, <2>2 DEF Charge
  <2>4. acct.client[c] \in Nat
    BY DEF TypeOK, BooksTypeOK, Books
  <2> QED
    BY <2>3, <2>4, FS_EmptySet
<1>3. CASE CrashRestart
  BY <1>3 DEF CrashRestart, TypeOK, CountTypeOK
<1>4. acct' = acct \/ (SaveCheckpoint /\ acct' = Charge(acct, job.passed)) \/ CrashRestart
  <2>1. CASE SaveCheckpoint
    BY <2>1 DEF SaveCheckpoint
  <2>2. acct' = acct \/ SaveCheckpoint \/ CrashRestart
    BY NextCases DEF acctVars, vars, serverSide, ExitOnShutdown, StopCleanly, BeginRound,
         LoadWeights, OpenRound, AnnounceRound, FlushRound, AskSidecar, Aggregate, AdvanceRound,
         LogRound, LogClient, ClearRound, BackoffEnds, Register, FetchTaskRound,
         FetchTaskWeights, ReceivePushed, SubmitClone, SubmitPush, RequestShutdown
  <2> QED
    BY <2>1, <2>2
<1> QED
  BY <1>1, <1>2, <1>3, <1>4

-----------------------------------------------------------------------------
(* The theorems *)

\* One step of the loop, a handler, a shutdown request or a crash keeps LoopInv.
LEMMA NextLoopInv == LoopInv /\ [Next]_vars => LoopInv'
<1> SUFFICES ASSUME LoopInv, [Next]_vars PROVE LoopInv'
  OBVIOUS
<1>1. TypeOK /\ BatchInv /\ StoreInv /\ CostInv /\ round >= 1
  BY DEF LoopInv, StoreInv
<1>2. TypeOK'
  BY <1>1, TypeStep
<1>3. BatchInv'
  BY <1>1, BatchStep
<1>4. StoreInv'
  BY <1>1, StoreStep
<1>5. CostInv'
  BY <1>1, CostStep
<1> QED
  BY <1>2, <1>3, <1>4, <1>5 DEF LoopInv

\* LoopInv holds in every reachable state, for every configuration, any number
\* of clients, faults, crashes and attempts.
THEOREM LoopInvariant == Spec => []LoopInv
<1>1. Init => LoopInv
  BY InitLoopInv
<1>2. LoopInv /\ [Next]_vars => LoopInv'
  BY NextLoopInv
<1> QED
  BY <1>1, <1>2, PTL DEF Spec

\* run_round's buffer and its batch hold only updates submitted for the round
\* the counter shows.
THEOREM AcceptedForCurrentRoundHolds == Spec => []AcceptedForCurrentRound
<1>1. LoopInv => AcceptedForCurrentRound
  BY DEF LoopInv, BatchInv, AcceptedForCurrentRound, Collecting, Flushed
<1> QED
  BY <1>1, LoopInvariant, PTL

\* AppState.round never passes a round whose checkpoint is not in the store.
THEOREM StoreKeepsPaceHolds == Spec => []StoreKeepsPace
<1>1. LoopInv => StoreKeepsPace
  BY DEF LoopInv, StoreInv
<1> QED
  BY <1>1, LoopInvariant, PTL

\* A durable log loses at most one released model's cost to each crash or
\* backend failure.
THEOREM UnchargedOnlyByFailureHolds == Spec => []UnchargedOnlyByFailure
<1>1. LoopInv => UnchargedOnlyByFailure
  BY ConstantTypes DEF LoopInv, CostInv, UnchargedOnlyByFailure
<1> QED
  BY <1>1, LoopInvariant, PTL

\* check_privacy_budget keeps the number of released models within the budget,
\* up to crashes and backend failures.
THEOREM BudgetNotOverrunHolds == Spec => []BudgetNotOverrun
<1>1. LoopInv => BudgetNotOverrun
  BY DEF LoopInv, CostInv
<1> QED
  BY <1>1, LoopInvariant, PTL

\* With no crash and no failure behind a checkpoint, what the aggregator is
\* given was trained from the model the attempt loaded.
THEOREM TrainedFromThisRoundsModelHolds ==
  NoLateFailure => (Spec => []TrainedFromThisRoundsModel)
<1> SUFFICES ASSUME NoLateFailure PROVE Spec => []TrainedFromThisRoundsModel
  OBVIOUS
<1> DEFINE Inv == LoopInv /\ ModelInv
<1>1. Init => Inv
  BY InitLoopInv, InitModelInv
<1>2. Inv /\ [Next]_vars => Inv'
  BY NextLoopInv, ModelStep DEF LoopInv
<1>3. Inv => TrainedFromThisRoundsModel
  BY DEF ModelInv
<1> QED
  BY <1>1, <1>2, <1>3, PTL DEF Spec

\* AdmittedInv holds in every reachable state.
THEOREM AdmittedInvariant == Spec => [](LoopInv /\ AdmittedInv)
<1>1. Init => AdmittedInv
  BY DEF Init, AdmittedInv, OnlyFiniteAggregated, NoJob
<1>2. LoopInv /\ AdmittedInv /\ [Next]_vars => AdmittedInv'
  BY AdmittedStep DEF LoopInv
<1> QED
  BY <1>1, <1>2, LoopInvariant, PTL DEF Spec

\* No update with a NaN reaches the aggregator, duplicates included.
THEOREM OnlyFiniteAggregatedHolds == Spec => []OnlyFiniteAggregated
<1>1. LoopInv /\ AdmittedInv => OnlyFiniteAggregated
  BY DEF AdmittedInv
<1> QED
  BY <1>1, AdmittedInvariant, PTL

\* Under per-client accounting a client at its budget is charged no more by
\* this process.
THEOREM SpentClientStaysOutHolds == Spec => SpentClientStaysOut
<1> DEFINE Stays == \A c \in Clients :
                     PerClientScope /\ Exhausted(acct.client[c]) /\ crashes' = crashes =>
                       acct'.client[c] = acct.client[c]
<1>1. LoopInv /\ AdmittedInv /\ [Next]_vars => [Stays]_vars
  BY SpentStep DEF LoopInv
<1> QED
  BY <1>1, AdmittedInvariant, PTL DEF Spec, SpentClientStaysOut

-----------------------------------------------------------------------------
(* The loop implements RoundService *)

\* A step that leaves the counter and the buffer alone, within one phase or on
\* the way out of one.
LEMMA PhaseStep ==
  ASSUME BatchInv, round' = round,
         \/ pc' = pc /\ buffer'.open = buffer.open
         \/ pc' = "exited" /\ pc # "exited"
         \/ pc' = "backoff" /\ pc # "exited" /\ ~buffer'.open
         \/ pc \in Flushed \cup Written /\ pc' \in Flushed \cup Written /\ ~buffer'.open
  PROVE  Service!Next \/ (round' = round /\ PhaseOf' = PhaseOf)
<1>1. CASE pc' = pc /\ buffer'.open = buffer.open
  BY <1>1 DEF PhaseOf
<1>2. CASE pc' = "exited" /\ pc # "exited"
  BY <1>2 DEF PhaseOf, Service!Next, Service!Stop
<1>3. CASE pc' = "backoff" /\ pc # "exited" /\ ~buffer'.open
  BY <1>3 DEF PhaseOf, Flushed, Written, Service!Next, Service!Fail
<1>4. CASE pc \in Flushed \cup Written /\ pc' \in Flushed \cup Written /\ ~buffer'.open
  BY <1>4 DEF PhaseOf, Flushed, Written, BatchInv, Collecting
<1> QED
  BY <1>1, <1>2, <1>3, <1>4

\* One step of the loop, a handler or the process is a step of the service or
\* does not show.
LEMMA ServiceStep ==
  ASSUME TypeOK, BatchInv, [Next]_vars
  PROVE  Service!Next \/ (round' = round /\ PhaseOf' = PhaseOf)
<1> USE DEF appVars, netVars
<1>1. buffer.open \in BOOLEAN /\ job \in Job
  BY DEF TypeOK, AppTypeOK, LoopTypeOK
<1>2. CASE ExitOnShutdown \/ BeginRound
  <2>1. CASE pc' = "exited"
    BY <1>2, <2>1, PhaseStep DEF ExitOnShutdown, StopCleanly, BeginRound
  <2>2. CASE pc' = "load"
    BY <1>2, <2>2 DEF ExitOnShutdown, StopCleanly, BeginRound, PhaseOf, Flushed, Written
  <2> QED
    BY <1>2, <2>1, <2>2 DEF ExitOnShutdown, StopCleanly, BeginRound, Fatal
<1>3. CASE LoadWeights
  BY <1>3 DEF LoadWeights, Transient, PhaseOf, Flushed, Written
<1>4. CASE OpenRound
  <2>1. CASE pc' \in {"backoff", "exited"} /\ buffer' = buffer
    BY <1>1, <1>4, <2>1, OpenRoundEffect, PhaseStep DEF BatchInv, Collecting
  <2>2. CASE pc' = "announce" /\ buffer'.open
    BY <1>1, <1>4, <2>2, OpenRoundEffect
       DEF PhaseOf, BatchInv, Collecting, Flushed, Written, Service!Next, Service!Open
  <2> QED
    BY <1>1, <1>4, <2>1, <2>2, OpenRoundEffect
<1>5. CASE AnnounceRound
  BY <1>5 DEF AnnounceRound, PhaseOf, BatchInv, Collecting
<1>6. CASE FlushRound
  <2>1. buffer.open /\ ~buffer'.open /\ pc = "collect" /\ round' = round
    BY <1>1, <1>6, FlushRoundEffect DEF BatchInv, Collecting, TypeOK, AppTypeOK
  <2>2. CASE pc' \in {"backoff", "exited"}
    BY <2>1, <2>2, PhaseStep
  <2>3. CASE pc' \in {"sidecar", "aggregate"}
    BY <2>1, <2>3 DEF PhaseOf, Flushed, Service!Next, Service!Flush
  <2> QED
    BY <1>1, <1>6, <2>2, <2>3, FlushRoundEffect
<1>7. CASE AskSidecar \/ Aggregate \/ SaveCheckpoint \/ LogRound \/ LogClient
  <2>1. /\ pc \in Flushed \cup Written /\ pc' \in Flushed \cup Written \cup {"backoff"}
        /\ UNCHANGED <<round, buffer>>
    BY <1>7 DEF AskSidecar, Aggregate, SaveCheckpoint, LogRound, LogClient, Transient,
                Flushed, Written
  <2>2. ~buffer.open
    BY <2>1 DEF BatchInv, Collecting, Flushed, Written
  <2> QED
    BY <2>1, <2>2, PhaseStep DEF Flushed, Written
<1>8. CASE AdvanceRound
  BY <1>8 DEF AdvanceRound, PhaseOf, BatchInv, Collecting, Flushed, Written,
              Service!Next, Service!Complete
<1>9. CASE ClearRound \/ BackoffEnds
  BY <1>9 DEF ClearRound, BackoffEnds, PhaseOf, Flushed, Written
<1>10. CASE \E c \in Clients : \/ Register(c) \/ FetchTaskRound(c) \/ FetchTaskWeights(c)
                               \/ ReceivePushed(c) \/ SubmitClone(c) \/ SubmitPush(c)
  <2>1. pc' = pc /\ round' = round /\ buffer'.open = buffer.open
    BY <1>10 DEF Register, FetchTaskRound, FetchTaskWeights, ReceivePushed, SubmitClone,
                 SubmitPush, serverSide, TypeOK, AppTypeOK
  <2> QED
    BY <2>1 DEF PhaseOf
<1>11. CASE CrashRestart
  <2>1. pc' = "between" /\ round' = 1 /\ ~buffer'.open
    BY <1>11 DEF CrashRestart, TypeOK, AppTypeOK
  <2> QED
    BY <2>1 DEF PhaseOf, Flushed, Written, Service!Next, Service!Restart
<1>12. CASE RequestShutdown \/ UNCHANGED vars
  BY <1>12 DEF RequestShutdown, vars, PhaseOf
<1> QED
  BY NextCases, <1>2, <1>3, <1>4, <1>5, <1>6, <1>7, <1>8, <1>9, <1>10, <1>11, <1>12

\* To the fleet the loop, its handlers, its failures and its restarts are a
\* round service: a round takes updates while it is open and the counter moves
\* when it completes, for every configuration and any number of clients.
THEOREM LoopImplementsService == Spec => ImplementsRoundService
<1>1. Init => Service!Init
  BY DEF Init, Service!Init, PhaseOf, NoBuffer, Flushed, Written
<1>2. LoopInv /\ [Next]_vars => [Service!Next]_<<round, PhaseOf>>
  BY ServiceStep DEF LoopInv
<1> QED
  BY <1>1, <1>2, LoopInvariant, PTL DEF Spec, ImplementsRoundService, Service!Spec

-----------------------------------------------------------------------------
(***************************************************************************)
(* What the loop reports and keeps beside the models: round history and    *)
(* its verdicts, the books against the durable log, the state a requested  *)
(* stop leaves, and the aggregator's anchor.                               *)
(***************************************************************************)

\* The initial state has the invariant.
LEMMA InitStatusInv == Init => StatusInv
<1> SUFFICES ASSUME Init PROVE StatusInv
  OBVIOUS
<1> USE ConstantTypes
<1>1. HistoryInv
  BY DEF Init, HistoryInv, HistoryVerdictHonest, LastRecorded
<1>2. VerdictInv
  BY DEF Init, VerdictInv, Flushed, Written
<1>3. BalanceInv
  BY DEF Init, BalanceInv, NoCost
<1>4. ClientLogInv
  <2>1. \A c : Cardinality({d \in NoJob.unlogged : d.client = c}) = 0
    <3>1. \A c : {d \in NoJob.unlogged : d.client = c} = {}
      BY DEF NoJob
    <3> QED
      BY <3>1, FS_EmptySet
  <2>2. \A c \in Clients : NoCost.client[c] = 0
    BY DEF NoCost
  <2>3. job = NoJob /\ acct = NoCost /\ log = NoCost
    BY DEF Init
  <2> QED
    BY <2>1, <2>2, <2>3 DEF ClientLogInv
<1>5. AnchorInv
  BY DEF Init, AnchorInv, FirstStore, LastWritten, Written
<1> QED
  BY <1>1, <1>2, <1>3, <1>4, <1>5 DEF StatusInv

-----------------------------------------------------------------------------
(* Round history *)

\* A record takes its place at the end, and the oldest one gives way when the
\* history is full.
LEMMA RecordedEffect ==
  ASSUME NEW rec \in Record, history \in Seq(Record), Len(history) <= HistoryLen, HistoryLen # 0
  PROVE  LET h == Recorded(rec)
         IN  /\ h \in Seq(Record) /\ Len(h) \in 1 .. HistoryLen /\ h[Len(h)] = rec
             /\ \E k \in {0, 1} : /\ Len(h) = Len(history) + 1 - k
                                  /\ \A i \in 1 .. Len(h) - 1 : h[i] = history[i + k]
<1> DEFINE longer == Append(history, rec)
<1>1. /\ longer \in Seq(Record) /\ Len(longer) = Len(history) + 1 /\ longer[Len(longer)] = rec
      /\ \A i \in 1 .. Len(history) : longer[i] = history[i]
  OBVIOUS
<1>2. Len(history) \in Nat /\ HistoryLen \in Nat
  BY ConstantTypes
<1>3. CASE Len(history) = HistoryLen
  <2>1. Recorded(rec) = Tail(longer)
    BY <1>3 DEF Recorded
  <2> HIDE DEF longer
  <2>2. /\ Tail(longer) \in Seq(Record) /\ Len(Tail(longer)) = Len(history)
        /\ \A i \in 1 .. Len(history) : Tail(longer)[i] = longer[i + 1]
    BY <1>1, <1>2
  <2>3. Tail(longer)[Len(history)] = rec
    BY <1>1, <1>2, <1>3, <2>2
  <2>4. \A i \in 1 .. Len(history) - 1 : Tail(longer)[i] = history[i + 1]
    BY <1>1, <1>2, <2>2
  <2> DEFINE h == Tail(longer)
  <2>5. Len(h) = Len(history) + 1 - 1 /\ \A i \in 1 .. Len(h) - 1 : h[i] = history[i + 1]
    BY <1>2, <2>2, <2>4
  <2>6. Len(h) \in 1 .. HistoryLen /\ h \in Seq(Record) /\ h[Len(h)] = rec
    BY <1>2, <1>3, <2>2, <2>3
  <2> HIDE DEF h
  <2>7. \E k \in {0, 1} : Len(h) = Len(history) + 1 - k /\ \A i \in 1 .. Len(h) - 1 : h[i] = history[i + k]
    BY <2>5
  <2> QED
    BY <2>1, <2>6, <2>7 DEF h
<1>4. CASE Len(history) # HistoryLen
  <2>1. Recorded(rec) = longer
    BY <1>4 DEF Recorded
  <2> HIDE DEF longer
  <2> QED
    BY <1>1, <1>2, <1>4, <2>1
<1> QED
  BY <1>3, <1>4

\* A record is honest if its verdict is the one its own batch size calls for.
Honest(rec) ==
  (rec.cited = "satisfied") = (HasRequirement(rec.submitted) /\ rec.submitted >= RequiredAt(rec.submitted))

\* The record ClearRound makes.
LEMMA ClearedRecord ==
  ASSUME TypeOK, VerdictInv, pc = "clear", round >= 2
  PROVE  LET rec == [round |-> round - 1, reason |-> job.reason,
                     submitted |-> Cardinality(job.batch),
                     passed |-> Cardinality(job.passed), cited |-> verdict]
         IN  rec \in Record /\ rec.round = round - 1 /\ Honest(rec)
<1> DEFINE n == Cardinality(job.batch)
           rec == [round |-> round - 1, reason |-> job.reason, submitted |-> n,
                   passed |-> Cardinality(job.passed), cited |-> verdict]
<1>1. /\ job \in Job /\ IsFiniteSet(job.batch) /\ IsFiniteSet(job.passed)
      /\ round \in Nat /\ verdict \in {"none", "satisfied"}
  BY DEF TypeOK, LoopTypeOK, AppTypeOK, StatusTypeOK
<1>2. n \in Nat /\ Cardinality(job.passed) \in Nat /\ job.reason \in {"none", "Quorum", "Timeout"}
  BY <1>1, FS_CardinalityType DEF Job
<1>3. rec \in Record
  BY <1>1, <1>2 DEF Record
<1>4. n # 0
  BY <1>1, FS_EmptySet DEF VerdictInv
<1>5. Covered(n) /\ (HasRequirement(n) => verdict = "satisfied")
  BY DEF VerdictInv
<1>6. ~HasRequirement(n) => verdict = "none"
  BY <1>4, LoopAssumption DEF VerdictInv, HasRequirement
<1> HIDE DEF n
<1>7. (verdict = "satisfied") = (HasRequirement(n) /\ n >= RequiredAt(n))
  BY <1>5, <1>6, Zenon DEF Covered
<1>8. rec.submitted = n /\ rec.cited = verdict /\ rec.round = round - 1
  OBVIOUS
<1> QED
  BY <1>3, <1>7, <1>8 DEF n, Honest

\* The round loop's history is extended by ClearRound and dropped by a crash;
\* AdvanceRound is what makes it one behind.
LEMMA HistoryStep ==
  ASSUME LoopInv, StatusInv, [Next]_vars
  PROVE  HistoryInv'
<1>0. TypeOK /\ HistoryInv /\ VerdictInv /\ round \in Nat /\ round >= 1
  BY DEF LoopInv, StatusInv, StoreInv, TypeOK, AppTypeOK
<1>1. CASE UNCHANGED <<round, history>> /\ (pc' = "clear" <=> pc = "clear")
  BY <1>0, <1>1 DEF HistoryInv, HistoryVerdictHonest, LastRecorded
<1>2. CASE AdvanceRound
  <2>1. pc = "advance" /\ pc' = "clear" /\ round' = round + 1 /\ history' = history
    BY <1>2 DEF AdvanceRound, statVars
  <2> QED
    BY <1>0, <2>1 DEF HistoryInv, HistoryVerdictHonest, LastRecorded
<1>3. CASE CrashRestart
  BY <1>3, ConstantTypes DEF CrashRestart, HistoryInv, HistoryVerdictHonest, LastRecorded
<1>4. CASE ClearRound
  <2> DEFINE rec == [round |-> round - 1, reason |-> job.reason,
                     submitted |-> Cardinality(job.batch),
                     passed |-> Cardinality(job.passed), cited |-> verdict]
  <2>1. /\ pc = "clear" /\ pc' = "between" /\ round' = round /\ history' = Recorded(rec)
        /\ round >= 2
    BY <1>0, <1>4 DEF ClearRound, HistoryInv
  <2>2. rec \in Record /\ rec.round = round - 1 /\ Honest(rec)
    BY <1>0, <2>1, ClearedRecord
  <2> HIDE DEF rec
  <2>3. CASE HistoryLen = 0
    BY <1>0, <2>1, <2>3 DEF HistoryInv, HistoryVerdictHonest, LastRecorded, Recorded
  <2>4. CASE HistoryLen # 0
    <3>1. /\ history' \in Seq(Record) /\ Len(history') \in 1 .. HistoryLen
          /\ history'[Len(history')] = rec
      BY <1>0, <2>1, <2>2, <2>4, RecordedEffect DEF HistoryInv
    <3>2. PICK k \in {0, 1} : /\ Len(history') = Len(history) + 1 - k
                              /\ \A i \in 1 .. Len(history') - 1 : history'[i] = history[i + k]
      BY <1>0, <2>1, <2>2, <2>4, RecordedEffect DEF HistoryInv
    <3>3. /\ Len(history) \in Nat /\ HistoryLen \in Nat
          /\ \A i \in 1 .. Len(history) - 1 : history[i + 1].round = history[i].round + 1
          /\ Len(history) >= 1 => history[Len(history)].round = round - 2
          /\ \A i \in 1 .. Len(history) : Honest(history[i])
      BY <1>0, <2>1, ConstantTypes DEF HistoryInv, LastRecorded, HistoryVerdictHonest, Honest
    <3>4. ASSUME NEW i \in 1 .. Len(history') - 1
          PROVE  history'[i + 1].round = history'[i].round + 1
      <4>1. CASE i + 1 = Len(history')
        <5>1. history'[i] = history[Len(history)] /\ Len(history) >= 1
          BY <3>1, <3>2, <3>3, <4>1
        <5>2. history'[i + 1] = rec
          BY <3>1, <4>1
        <5> QED
          BY <1>0, <2>2, <3>3, <5>1, <5>2
      <4>2. CASE i + 1 # Len(history')
        <5>1. i + 1 \in 1 .. Len(history') - 1 /\ i + k \in 1 .. Len(history) - 1
          BY <3>1, <3>2, <3>3, <4>2
        <5>2. history'[i + 1] = history[(i + 1) + k] /\ history'[i] = history[i + k]
          BY <3>2, <5>1
        <5>3. (i + 1) + k = (i + k) + 1
          BY <5>1
        <5> QED
          BY <3>3, <5>1, <5>2, <5>3
      <4> QED
        BY <4>1, <4>2
    <3>5. ASSUME NEW i \in 1 .. Len(history') PROVE Honest(history'[i])
      <4>1. CASE i = Len(history')
        BY <2>2, <3>1, <4>1
      <4>2. CASE i # Len(history')
        <5>1. i \in 1 .. Len(history') - 1 /\ i + k \in 1 .. Len(history)
          BY <3>1, <3>2, <3>3, <4>2
        <5> QED
          BY <3>2, <3>3, <5>1
      <4> QED
        BY <4>1, <4>2
    <3>6. HistoryVerdictHonest'
      BY <3>5 DEF HistoryVerdictHonest, Honest
    <3> QED
      BY <1>0, <2>1, <2>2, <3>1, <3>4, <3>6 DEF HistoryInv, LastRecorded
  <2> QED
    BY <2>3, <2>4
<1>5. \/ UNCHANGED <<round, history>> /\ (pc' = "clear" <=> pc = "clear")
      \/ AdvanceRound \/ CrashRestart \/ ClearRound
  <2>1. CASE ExitOnShutdown \/ BeginRound \/ LoadWeights \/ OpenRound \/ AnnounceRound
    BY <2>1 DEF ExitOnShutdown, StopCleanly, BeginRound, LoadWeights, OpenRound, AnnounceRound,
       Transient, Fatal, appVars, statVars
  <2>2. CASE FlushRound \/ AskSidecar \/ Aggregate \/ BackoffEnds
    BY <2>2 DEF FlushRound, AskSidecar, Aggregate, BackoffEnds, Transient, Fatal, appVars, statVars
  <2>3. CASE SaveCheckpoint \/ LogRound \/ LogClient
    BY <2>3 DEF SaveCheckpoint, LogRound, LogClient, Transient, appVars
  <2>4. ASSUME NEW c \in Clients,
               \/ Register(c) \/ FetchTaskRound(c) \/ FetchTaskWeights(c)
               \/ ReceivePushed(c) \/ SubmitClone(c) \/ SubmitPush(c)
        PROVE  UNCHANGED <<round, history, pc>>
    BY <2>4 DEF Register, FetchTaskRound, FetchTaskWeights, ReceivePushed, SubmitClone,
       SubmitPush, serverSide
  <2>5. CASE RequestShutdown \/ UNCHANGED vars
    BY <2>5 DEF RequestShutdown, vars, appVars, statVars
  <2> QED
    BY <2>1, <2>2, <2>3, <2>4, <2>5, NextCases
<1> QED
  BY <1>1, <1>2, <1>3, <1>4, <1>5

-----------------------------------------------------------------------------
(* The verdict *)

\* What the steps do to the verdict and to the flushed batch.
LEMMA VerdictStep ==
  ASSUME LoopInv, StatusInv, [Next]_vars
  PROVE  VerdictInv'
<1>0. /\ TypeOK /\ VerdictInv /\ job \in Job /\ IsFiniteSet(buffer.deltas)
      /\ buffer.deltas \in SUBSET Delta
  BY DEF LoopInv, StatusInv, TypeOK, LoopTypeOK, AppTypeOK
<1> DEFINE robust == {"krum", "multi_krum", "bulyan", "trimmed_mean"}
           batched == Flushed \cup Written \cup {"clear"}
<1>1. \A n : Method \notin robust => VerdictAfter(n) = verdict
  BY DEF VerdictAfter, HasRequirement
<1>2. CASE /\ verdict' = verdict
           /\ pc' \notin batched
  BY <1>0, <1>2 DEF VerdictInv, Flushed, Written
<1>3. CASE OpenRound
  <2>1. pc' \notin batched
    BY <1>3 DEF OpenRound, Transient, Fatal, Flushed, Written
  <2>2. verdict' = verdict \/ \E n : verdict' = VerdictAfter(n)
    BY <1>3 DEF OpenRound
  <2> QED
    BY <1>0, <1>1, <2>1, <2>2 DEF VerdictInv, Flushed, Written
<1>4. CASE FlushRound
  <2> DEFINE n == Cardinality(buffer.deltas)
  <2>1. verdict' = VerdictAfter(n)
    BY <1>4 DEF FlushRound
  <2>2. CASE pc' \in {"backoff", "exited"}
    BY <1>0, <1>1, <2>1, <2>2 DEF VerdictInv, Flushed, Written
  <2>3. CASE pc' \notin {"backoff", "exited"}
    <3>1. /\ pc' \in {"sidecar", "aggregate"} /\ job'.batch = buffer.deltas
          /\ \E passing : job'.passed = Reencoded(buffer.deltas, passing)
      BY <1>0, <1>4, <2>3, FlushRoundEffect
    <3>2. Covered(n)
      BY <1>4, <2>3 DEF FlushRound, Fatal, Transient
    <3>3. HasRequirement(n) => verdict' = "satisfied"
      BY <2>1, <3>2 DEF VerdictAfter
    <3>4. job'.passed # {} => job'.batch # {}
      BY <3>1 DEF Reencoded
    <3> QED
      BY <1>0, <1>1, <2>1, <3>1, <3>2, <3>3, <3>4 DEF VerdictInv, Flushed, Written
  <2> QED
    BY <2>2, <2>3
<1>5. CASE AskSidecar \/ Aggregate \/ SaveCheckpoint \/ LogRound \/ LogClient \/ AdvanceRound
  <2>1. verdict' = verdict
    BY <1>5 DEF AskSidecar, Aggregate, SaveCheckpoint, LogRound, LogClient, AdvanceRound, statVars
  <2>2. CASE pc' = "backoff"
    BY <1>2, <2>1, <2>2 DEF Flushed, Written
  <2>3. CASE pc' # "backoff"
    <3>1. /\ job'.batch = job.batch /\ job'.passed = job.passed
          /\ pc \in Flushed \cup Written
      BY <1>0, <1>5, <2>3 DEF AskSidecar, Aggregate, SaveCheckpoint, LogRound, LogClient,
         AdvanceRound, Transient, Job, Flushed, Written
    <3>2. pc' \in {"save", "clear"} \cup Written => job.passed # {}
      BY <1>0, <1>5, <2>3 DEF AskSidecar, Aggregate, SaveCheckpoint, LogRound, LogClient,
         AdvanceRound, Transient, VerdictInv, Written
    <3> QED
      BY <1>0, <2>1, <3>1, <3>2 DEF VerdictInv
  <2> QED
    BY <2>2, <2>3
<1>6. CASE CrashRestart
  BY <1>6 DEF CrashRestart, VerdictInv, Flushed, Written
<1>7. CASE UNCHANGED <<pc, job, verdict>>
  BY <1>0, <1>7 DEF VerdictInv
<1>8. CASE ExitOnShutdown \/ BeginRound \/ LoadWeights \/ AnnounceRound \/ ClearRound \/ BackoffEnds
  BY <1>2, <1>8 DEF ExitOnShutdown, StopCleanly, BeginRound, LoadWeights, AnnounceRound, ClearRound,
     BackoffEnds, Transient, Fatal, Flushed, Written, statVars
<1>9. ASSUME \/ \E c \in Clients : \/ Register(c) \/ FetchTaskRound(c) \/ FetchTaskWeights(c)
                                   \/ ReceivePushed(c) \/ SubmitClone(c) \/ SubmitPush(c)
             \/ RequestShutdown \/ UNCHANGED vars
      PROVE  UNCHANGED <<pc, job, verdict>>
  BY <1>9 DEF Register, FetchTaskRound, FetchTaskWeights, ReceivePushed, SubmitClone,
     SubmitPush, RequestShutdown, vars, serverSide, statVars
<1> QED
  BY <1>3, <1>4, <1>5, <1>6, <1>7, <1>8, <1>9, NextCases

-----------------------------------------------------------------------------
(* The books *)

\* A checkpoint and its charge are one step; everything that separates them
\* counts as a failure.
LEMMA BalanceStep ==
  ASSUME LoopInv, StatusInv, [Next]_vars
  PROVE  BalanceInv'
<1>0. /\ BalanceInv /\ faults \in Nat /\ crashes \in Nat /\ released \in Nat /\ acct \in Books
  BY DEF LoopInv, StatusInv, TypeOK, CountTypeOK, BooksTypeOK
<1>1. CASE UNCHANGED <<acct, released, crashes>> /\ faults' \in {faults, faults + 1}
  BY <1>0, <1>1 DEF BalanceInv
<1>2. CASE SaveCheckpoint
  <2>1. \/ faults' = faults + 1
        \/ /\ acct'.total = acct.total + 1 /\ released' = released + 1 /\ faults' = faults
    <3>1. Charge(acct, job.passed).total = acct.total + 1
      BY DEF Charge
    <3>2. CASE Fault("save") \/ Fault("saveLost")
      BY <3>2 DEF Fault
    <3>3. CASE acct' = Charge(acct, job.passed) /\ released' = released + 1 /\ faults' = faults
      BY <3>1, <3>3
    <3> QED
      BY <1>2, <3>2, <3>3 DEF SaveCheckpoint
  <2>2. crashes' = crashes
    BY <1>2 DEF SaveCheckpoint
  <2> QED
    BY <1>0, <2>1, <2>2 DEF BalanceInv
<1>3. CASE CrashRestart
  BY <1>0, <1>3 DEF CrashRestart, BalanceInv
<1>4. \/ UNCHANGED <<acct, released, crashes>> /\ faults' \in {faults, faults + 1}
      \/ SaveCheckpoint \/ CrashRestart
  <2>1. CASE ExitOnShutdown \/ BeginRound \/ AnnounceRound \/ AdvanceRound \/ ClearRound \/ BackoffEnds
    BY <2>1 DEF ExitOnShutdown, StopCleanly, BeginRound, AnnounceRound, AdvanceRound, ClearRound,
       BackoffEnds, acctVars, boundVars
  <2>2. CASE OpenRound
    BY <2>2, OpenRoundEffect DEF LoopInv, TypeOK, LoopTypeOK
  <2>3. CASE FlushRound
    BY <2>3, FlushRoundEffect DEF LoopInv, TypeOK, LoopTypeOK
  <2>4. CASE LoadWeights \/ AskSidecar \/ Aggregate \/ LogRound \/ LogClient
    BY <2>4 DEF LoadWeights, AskSidecar, Aggregate, LogRound, LogClient, Fault, acctVars
  <2>5. CASE \/ \E c \in Clients : \/ Register(c) \/ FetchTaskRound(c) \/ FetchTaskWeights(c)
                                   \/ ReceivePushed(c) \/ SubmitClone(c) \/ SubmitPush(c)
             \/ RequestShutdown \/ UNCHANGED vars
    BY <2>5 DEF Register, FetchTaskRound, FetchTaskWeights, ReceivePushed, SubmitClone,
       SubmitPush, RequestShutdown, vars, serverSide, acctVars, boundVars
  <2> QED
    BY <2>1, <2>2, <2>3, <2>4, <2>5, NextCases
<1> QED
  BY <1>1, <1>2, <1>3, <1>4

\* The updates of one client, counted.
Of(c, updates) == {d \in updates : d.client = c}

LEMMA OfCount ==
  ASSUME NEW updates, IsFiniteSet(updates), NEW c
  PROVE  /\ IsFiniteSet(Of(c, updates)) /\ Cardinality(Of(c, updates)) \in Nat
         /\ updates = {} => Cardinality(Of(c, updates)) = 0
<1>1. Of(c, updates) \in SUBSET updates
  BY DEF Of
<1>2. IsFiniteSet(Of(c, updates))
  BY <1>1, FS_Subset
<1>3. updates = {} => Of(c, updates) = {}
  BY DEF Of
<1> QED
  BY <1>2, <1>3, FS_CardinalityType, FS_EmptySet

\* One update fewer is one fewer of its own client.
LEMMA OfRemove ==
  ASSUME NEW updates, IsFiniteSet(updates), NEW d \in updates, NEW c
  PROVE  IF d.client = c
           THEN /\ Cardinality(Of(c, updates \ {d})) = Cardinality(Of(c, updates)) - 1
                /\ Cardinality(Of(c, updates)) >= 1
           ELSE Cardinality(Of(c, updates \ {d})) = Cardinality(Of(c, updates))
<1>1. IsFiniteSet(Of(c, updates)) /\ Cardinality(Of(c, updates)) \in Nat
  BY OfCount
<1>2. CASE d.client = c
  <2>1. Of(c, updates \ {d}) = Of(c, updates) \ {d} /\ d \in Of(c, updates)
    BY <1>2 DEF Of
  <2>2. Cardinality(Of(c, updates)) # 0
    BY <1>1, <2>1, FS_EmptySet
  <2>3. Cardinality(Of(c, updates) \ {d}) = Cardinality(Of(c, updates)) - 1
    BY <1>1, <2>1, FS_RemoveElement
  <2>4. Cardinality(Of(c, updates)) >= 1
    BY <1>1, <2>2
  <2>5. Cardinality(Of(c, updates \ {d})) = Cardinality(Of(c, updates)) - 1
    BY <2>1, <2>3
  <2> QED
    BY <1>2, <2>4, <2>5
<1>3. CASE d.client # c
  <2>1. Of(c, updates \ {d}) = Of(c, updates)
    BY <1>3 DEF Of
  <2> QED
    BY <1>3, <2>1
<1> QED
  BY <1>2, <1>3

\* The log takes an entry for an admitted update only after the accountant of
\* this process charged it.
LEMMA ClientLogStep ==
  ASSUME LoopInv, StatusInv, [Next]_vars
  PROVE  ClientLogInv'
<1> SUFFICES ASSUME LogEnabled, NEW c \in Clients
             PROVE  log'.client[c] + Cardinality(Of(c, job'.unlogged)) <= acct'.client[c]
  BY DEF ClientLogInv, Of
<1>0. /\ log \in Books /\ acct \in Books /\ log.client[c] \in Nat /\ acct.client[c] \in Nat
      /\ job \in Job /\ IsFiniteSet(job.unlogged) /\ IsFiniteSet(job.passed)
  BY DEF LoopInv, TypeOK, BooksTypeOK, LoopTypeOK, Books
<1>1. log.client[c] + Cardinality(Of(c, job.unlogged)) <= acct.client[c]
  BY DEF StatusInv, ClientLogInv, Of
<1>2. Cardinality(Of(c, job.unlogged)) \in Nat /\ Cardinality(Of(c, job.passed)) \in Nat
  BY <1>0, OfCount
<1>3. Cardinality(Of(c, NoJob.unlogged)) = 0
  BY FS_EmptySet, OfCount DEF NoJob
<1>4. CASE UNCHANGED <<acct, log>> /\ (job' = NoJob \/ job'.unlogged = job.unlogged)
  BY <1>0, <1>1, <1>2, <1>3, <1>4
<1>5. CASE SaveCheckpoint
  <2>1. CASE job' = NoJob /\ UNCHANGED <<acct, log>>
    BY <1>4, <2>1
  <2>2. CASE acct' = Charge(acct, job.passed) /\ log' = log /\ job' = [job EXCEPT !.unlogged = job.passed]
    <3>1. job'.unlogged = job.passed
      BY <1>0, <2>2 DEF Job
    <3>2. acct'.client[c] = acct.client[c] + Cardinality(Of(c, job.passed))
      BY <2>2 DEF Charge, Of
    <3> QED
      BY <1>0, <1>1, <1>2, <2>2, <3>1, <3>2
  <2> QED
    BY <1>5, <2>1, <2>2 DEF SaveCheckpoint, Transient
<1>6. CASE LogRound
  <2>1. acct' = acct /\ (job' = job \/ job' = NoJob)
    BY <1>6 DEF LogRound, Transient
  <2>2. log' = log \/ log' = [log EXCEPT !.total = @ + 1]
    BY <1>6 DEF LogRound
  <2>3. log'.client = log.client
    BY <1>0, <2>2 DEF Books
  <2> QED
    BY <1>0, <1>1, <1>2, <1>3, <2>1, <2>3
<1>7. CASE LogClient
  <2>0. acct' = acct
    BY <1>7 DEF LogClient
  <2>1. CASE log' = log /\ job' = NoJob
    BY <1>4, <2>0, <2>1
  <2>2. CASE \E d \in job.unlogged :
               /\ log' = [log EXCEPT !.client[d.client] = @ + 1]
               /\ job' = NoJob \/ job' = [job EXCEPT !.unlogged = @ \ {d}]
    <3>1. PICK d \in job.unlogged :
               /\ log' = [log EXCEPT !.client[d.client] = @ + 1]
               /\ job' = NoJob \/ job' = [job EXCEPT !.unlogged = @ \ {d}]
      BY <2>2
    <3>2. d.client \in Clients
      BY <1>0, <3>1 DEF Job, Delta
    <3>3. log'.client[c] = IF d.client = c THEN log.client[c] + 1 ELSE log.client[c]
      BY <1>0, <3>1, <3>2 DEF Books
    <3>4. job' = NoJob \/ job'.unlogged = job.unlogged \ {d}
      BY <1>0, <3>1 DEF Job
    <3>5. IF d.client = c
            THEN /\ Cardinality(Of(c, job.unlogged \ {d})) = Cardinality(Of(c, job.unlogged)) - 1
                 /\ Cardinality(Of(c, job.unlogged)) >= 1
            ELSE Cardinality(Of(c, job.unlogged \ {d})) = Cardinality(Of(c, job.unlogged))
      BY <1>0, <3>1, OfRemove
    <3>6. CASE d.client = c
      <4>1. log'.client[c] = log.client[c] + 1 /\ Cardinality(Of(c, job.unlogged)) >= 1
        BY <3>3, <3>5, <3>6
      <4>2. Cardinality(Of(c, job'.unlogged)) \in {0, Cardinality(Of(c, job.unlogged)) - 1}
        BY <1>3, <3>4, <3>5, <3>6
      <4> QED
        BY <1>0, <1>1, <1>2, <2>0, <4>1, <4>2
    <3>7. CASE d.client # c
      <4>1. log'.client[c] = log.client[c]
        BY <3>3, <3>7
      <4>2. Cardinality(Of(c, job'.unlogged)) \in {0, Cardinality(Of(c, job.unlogged))}
        BY <1>3, <3>4, <3>5, <3>7
      <4> QED
        BY <1>0, <1>1, <1>2, <2>0, <4>1, <4>2
    <3> QED
      BY <3>6, <3>7
  <2> QED
    BY <1>7, <2>1, <2>2 DEF LogClient, Transient
<1>8. CASE CrashRestart
  <2>1. acct' = log /\ log' = log /\ job' = NoJob
    BY <1>8 DEF CrashRestart, Replayed
  <2> QED
    BY <1>0, <1>3, <2>1
<1>9. CASE LoadWeights \/ OpenRound \/ FlushRound
  <2>1. UNCHANGED <<acct, log>>
    BY <1>9 DEF LoadWeights, OpenRound, FlushRound, acctVars
  <2>2. LoadWeights => job' = NoJob \/ job'.unlogged = job.unlogged
    BY <1>0 DEF LoadWeights, Transient, Job
  <2>3. OpenRound => job' = NoJob \/ job'.unlogged = job.unlogged
    BY <1>0 DEF OpenRound, Transient, Fatal, Job
  <2>4. FlushRound => job' = NoJob \/ job'.unlogged = job.unlogged
    BY <1>0 DEF FlushRound, Transient, Fatal, Job
  <2> QED
    BY <1>4, <1>9, <2>1, <2>2, <2>3, <2>4
<1>10. CASE ExitOnShutdown \/ BeginRound \/ AnnounceRound \/ AskSidecar \/ Aggregate \/ AdvanceRound
            \/ ClearRound \/ BackoffEnds
  BY <1>4, <1>10 DEF ExitOnShutdown, StopCleanly, BeginRound, AnnounceRound, AskSidecar, Aggregate,
     AdvanceRound, ClearRound, BackoffEnds, Transient, Fatal, acctVars
<1>11. CASE \/ \E e \in Clients : \/ Register(e) \/ FetchTaskRound(e) \/ FetchTaskWeights(e)
                                  \/ ReceivePushed(e) \/ SubmitClone(e) \/ SubmitPush(e)
            \/ RequestShutdown \/ UNCHANGED vars
  BY <1>4, <1>11 DEF Register, FetchTaskRound, FetchTaskWeights, ReceivePushed, SubmitClone,
     SubmitPush, RequestShutdown, vars, serverSide, acctVars
<1> QED
  BY <1>5, <1>6, <1>7, <1>8, <1>9, <1>10, <1>11, NextCases

-----------------------------------------------------------------------------
(* The anchor *)

\* The failure-free part of a step, for the anchor: which of the steps change
\* what it relates.
LEMMA AnchorStep ==
  ASSUME LoopInv, StatusInv, [Next]_vars
  PROVE  AnchorInv'
<1>0. /\ TypeOK /\ round \in Nat /\ round >= 1 /\ faults \in Nat /\ crashes \in Nat /\ job \in Job
      /\ DOMAIN ckpt \subseteq Nat /\ attempt \in Nat
  BY DEF LoopInv, StoreInv, TypeOK, LoopTypeOK, AppTypeOK, BooksTypeOK, CountTypeOK
<1>1. CASE faults' # 0 \/ crashes' # 0
  BY <1>1 DEF AnchorInv
<1>2. CASE faults' = 0 /\ crashes' = 0
  <2>1. faults = 0 /\ crashes = 0
    <3>1. faults' = faults \/ faults' = faults + 1 \/ crashes' = crashes + 1
      <4>1. CASE ExitOnShutdown \/ BeginRound \/ AnnounceRound \/ AdvanceRound \/ ClearRound
                 \/ BackoffEnds \/ LoadWeights
        BY <4>1 DEF ExitOnShutdown, StopCleanly, BeginRound, AnnounceRound, AdvanceRound, ClearRound,
           BackoffEnds, LoadWeights, Fault, boundVars
      <4>2. CASE OpenRound \/ FlushRound
        BY <1>0, <4>2, OpenRoundEffect, FlushRoundEffect
      <4>3. CASE AskSidecar \/ Aggregate \/ SaveCheckpoint \/ LogRound \/ LogClient
        BY <4>3 DEF AskSidecar, Aggregate, SaveCheckpoint, LogRound, LogClient, Fault
      <4>4. CASE \/ \E c \in Clients : \/ Register(c) \/ FetchTaskRound(c) \/ FetchTaskWeights(c)
                                       \/ ReceivePushed(c) \/ SubmitClone(c) \/ SubmitPush(c)
                 \/ RequestShutdown \/ CrashRestart \/ UNCHANGED vars
        BY <4>4 DEF Register, FetchTaskRound, FetchTaskWeights, ReceivePushed, SubmitClone,
           SubmitPush, RequestShutdown, CrashRestart, vars, serverSide, boundVars
      <4> QED
        BY <4>1, <4>2, <4>3, <4>4, NextCases
    <3>2. crashes' = crashes \/ crashes' = crashes + 1
      <4>1. CASE ExitOnShutdown \/ BeginRound \/ AnnounceRound \/ AdvanceRound \/ ClearRound
                 \/ BackoffEnds \/ LoadWeights
        BY <4>1 DEF ExitOnShutdown, StopCleanly, BeginRound, AnnounceRound, AdvanceRound, ClearRound,
           BackoffEnds, LoadWeights, boundVars
      <4>2. CASE OpenRound \/ FlushRound
        BY <1>0, <4>2, OpenRoundEffect, FlushRoundEffect
      <4>3. CASE AskSidecar \/ Aggregate \/ SaveCheckpoint \/ LogRound \/ LogClient
        BY <4>3 DEF AskSidecar, Aggregate, SaveCheckpoint, LogRound, LogClient
      <4>4. CASE \/ \E c \in Clients : \/ Register(c) \/ FetchTaskRound(c) \/ FetchTaskWeights(c)
                                       \/ ReceivePushed(c) \/ SubmitClone(c) \/ SubmitPush(c)
                 \/ RequestShutdown \/ CrashRestart \/ UNCHANGED vars
        BY <4>4 DEF Register, FetchTaskRound, FetchTaskWeights, ReceivePushed, SubmitClone,
           SubmitPush, RequestShutdown, CrashRestart, vars, serverSide, boundVars
      <4> QED
        BY <4>1, <4>2, <4>3, <4>4, NextCases
    <3> QED
      BY <1>0, <1>2, <3>1, <3>2
  <2>2. /\ \A r \in DOMAIN ckpt : r <= LastWritten
        /\ pc = "save" => lastOutput = attempt
        /\ lastOutput # 0 /\ pc # "save" =>
             LastWritten \in DOMAIN ckpt /\ ckpt[LastWritten] = lastOutput
        /\ lastOutput # 0 /\ pc \in Collecting \cup {"open", "sidecar", "aggregate"} =>
             job.weights = lastOutput
    BY <2>1 DEF StatusInv, AnchorInv
  <2>3. ASSUME UNCHANGED <<round, ckpt, lastOutput>>, pc # "save", pc' # "save",
               pc' \in Written <=> pc \in Written,
               lastOutput # 0 /\ pc' \in Collecting \cup {"open", "sidecar", "aggregate"}
                 => job'.weights = lastOutput
        PROVE  AnchorInv'
    BY <2>2, <2>3 DEF AnchorInv, LastWritten
  <2> DEFINE busy == Collecting \cup {"open", "sidecar", "aggregate"}
  <2>4. CASE ExitOnShutdown \/ BeginRound \/ AnnounceRound \/ ClearRound \/ BackoffEnds
    <3>1. /\ UNCHANGED <<round, ckpt, lastOutput>> /\ pc # "save" /\ pc' # "save"
          /\ pc' \in Written <=> pc \in Written
      BY <2>4 DEF ExitOnShutdown, StopCleanly, BeginRound, AnnounceRound, ClearRound, BackoffEnds,
         Fatal, Written, appVars
    <3>2. pc' \in busy => pc \in busy /\ job' = job
      BY <2>4 DEF ExitOnShutdown, StopCleanly, BeginRound, AnnounceRound, ClearRound, BackoffEnds,
         Fatal, Collecting
    <3> QED
      BY <2>2, <2>3, <3>1, <3>2
  <2>5. CASE LoadWeights
    <3>1. UNCHANGED <<round, ckpt, lastOutput>> /\ pc = "load" /\ pc' \in {"open", "backoff"}
      BY <2>5 DEF LoadWeights, Transient, appVars
    <3>2. CASE pc' = "open"
      <4>1. PICK r \in DOMAIN ckpt : IsLatest(r) /\ job' = [job EXCEPT !.weights = ckpt[r]]
        BY <2>5, <3>2 DEF LoadWeights, Transient
      <4>2. job'.weights = ckpt[r]
        BY <1>0, <4>1 DEF Job
      <4>3. lastOutput # 0 => r = LastWritten
        BY <1>0, <2>2, <3>1, <4>1 DEF IsLatest, LastWritten, Written
      <4> QED
        BY <2>2, <2>3, <3>1, <3>2, <4>2, <4>3 DEF Written
    <3>3. CASE pc' = "backoff"
      BY <2>3, <3>1, <3>3 DEF Written, Collecting
    <3> QED
      BY <3>1, <3>2, <3>3
  <2>6. CASE OpenRound
    <3>1. /\ pc = "open" /\ UNCHANGED <<round, ckpt, lastOutput>>
          /\ \/ pc' \in {"backoff", "exited"}
             \/ pc' = "announce" /\ job'.weights = job.weights
      BY <1>0, <2>6, OpenRoundEffect
    <3> QED
      BY <2>2, <2>3, <3>1 DEF Written, Collecting
  <2>7. CASE FlushRound
    <3>1. /\ pc = "collect" /\ UNCHANGED <<round, ckpt, lastOutput>>
          /\ \/ pc' \in {"backoff", "exited"}
             \/ pc' \in {"sidecar", "aggregate"} /\ job'.weights = job.weights
      BY <1>0, <2>7, FlushRoundEffect
    <3> QED
      BY <2>2, <2>3, <3>1 DEF Written, Collecting
  <2>8. CASE AskSidecar
    <3>1. /\ pc = "sidecar" /\ UNCHANGED <<round, ckpt, lastOutput>>
          /\ pc' = "backoff" \/ (pc' = "aggregate" /\ job' = job)
      BY <2>8 DEF AskSidecar, Transient, appVars
    <3> QED
      BY <2>2, <2>3, <3>1 DEF Written, Collecting
  <2>9. CASE Aggregate
    <3>1. /\ pc = "aggregate" /\ UNCHANGED <<round, ckpt, attempt>>
          /\ \/ pc' = "backoff" /\ lastOutput' = lastOutput
             \/ pc' = "save" /\ lastOutput' = attempt
      BY <2>9 DEF Aggregate, Transient, appVars
    <3>2. CASE pc' = "backoff" /\ lastOutput' = lastOutput
      BY <2>3, <3>1, <3>2 DEF Written, Collecting
    <3>3. CASE pc' = "save" /\ lastOutput' = attempt
      BY <2>2, <3>1, <3>3 DEF AnchorInv, LastWritten, Written, Collecting
    <3> QED
      BY <3>1, <3>2, <3>3
  <2>10. CASE SaveCheckpoint
    <3>1. ~Fault("save") /\ ~Fault("saveLost")
      BY <1>0, <1>2, <2>1 DEF Fault
    <3>2. /\ pc = "save" /\ ckpt' = Saved(round, attempt) /\ pc' \in Written
          /\ UNCHANGED <<round, lastOutput>>
      BY <2>10, <3>1 DEF SaveCheckpoint, Written, appVars
    <3>3. \A s \in DOMAIN ckpt : s <= round /\ s \in Nat
      BY <1>0, <2>2, <3>2 DEF LastWritten, Written
    <3>4. /\ round \in DOMAIN ckpt' /\ ckpt'[round] = attempt
          /\ \A s \in DOMAIN ckpt' : s <= round
      BY <1>0, <3>2, <3>3 DEF Saved
    <3>5. pc' \notin busy /\ pc' # "save"
      BY <3>2 DEF Written, Collecting
    <3>6. LastWritten' = round
      BY <3>2 DEF LastWritten
    <3>7. lastOutput' = attempt
      BY <2>2, <3>2
    <3> QED
      BY <3>2, <3>4, <3>5, <3>6, <3>7 DEF AnchorInv
  <2>11. CASE LogRound \/ LogClient
    <3>1. /\ pc \in {"log", "logClients"} /\ UNCHANGED <<round, ckpt, lastOutput>>
          /\ pc' \in {"backoff", "logClients", "advance"}
      BY <2>11 DEF LogRound, LogClient, Transient, appVars
    <3>2. pc' # "backoff"
      BY <1>0, <1>2, <2>1, <2>11 DEF LogRound, LogClient, Fault
    <3> QED
      BY <2>3, <3>1, <3>2 DEF Written, Collecting
  <2>12. CASE AdvanceRound
    <3>1. /\ pc = "advance" /\ pc' = "clear" /\ round' = round + 1 /\ UNCHANGED <<ckpt, lastOutput>>
      BY <2>12 DEF AdvanceRound
    <3>2. LastWritten' = LastWritten
      BY <1>0, <3>1 DEF LastWritten, Written
    <3> QED
      BY <2>2, <3>1, <3>2 DEF AnchorInv, Collecting
  <2>13. CASE CrashRestart
    BY <1>0, <1>2, <2>13 DEF CrashRestart
  <2>14. CASE UNCHANGED <<pc, job, round, ckpt, lastOutput, attempt>>
    BY <2>2, <2>14 DEF AnchorInv, LastWritten
  <2>15. ASSUME \/ \E c \in Clients : \/ Register(c) \/ FetchTaskRound(c) \/ FetchTaskWeights(c)
                                      \/ ReceivePushed(c) \/ SubmitClone(c) \/ SubmitPush(c)
                \/ RequestShutdown \/ UNCHANGED vars
         PROVE  UNCHANGED <<pc, job, round, ckpt, lastOutput, attempt>>
    BY <2>15 DEF Register, FetchTaskRound, FetchTaskWeights, ReceivePushed, SubmitClone,
       SubmitPush, RequestShutdown, vars, serverSide, appVars, boundVars
  <2> QED
    BY <2>4, <2>5, <2>6, <2>7, <2>8, <2>9, <2>10, <2>11, <2>12, <2>13, <2>14, <2>15, NextCases
<1> QED
  BY <1>1, <1>2

-----------------------------------------------------------------------------
(* The theorems *)

\* LoopInv and StatusInv hold in every reachable state.
THEOREM StatusInvariant == Spec => [](LoopInv /\ StatusInv)
<1>1. LoopInv /\ StatusInv /\ [Next]_vars => StatusInv'
  BY HistoryStep, VerdictStep, BalanceStep, ClientLogStep, AnchorStep DEF StatusInv
<1> QED
  BY InitLoopInv, NextLoopInv, InitStatusInv, <1>1, PTL DEF Spec

\* RoundHistory shows consecutive rounds, is never longer than configured and
\* ends with the round just completed, for any history length.
THEOREM HistoryContiguousHolds == Spec => []HistoryContiguous
<1>1. LoopInv /\ StatusInv => HistoryContiguous
  <2> SUFFICES ASSUME LoopInv, StatusInv PROVE HistoryContiguous
    OBVIOUS
  <2>1. round \in Nat /\ HistoryInv
    BY DEF LoopInv, TypeOK, AppTypeOK, StatusInv
  <2> QED
    BY <2>1 DEF HistoryInv, HistoryContiguous, LastRecorded
<1> QED
  BY <1>1, StatusInvariant, PTL

\* A completed round's verdict is the one for the batch that round flushed:
\* never left over from the quorum it opened with or from an earlier round.
THEOREM HistoryVerdictHonestHolds == Spec => []HistoryVerdictHonest
<1>1. StatusInv => HistoryVerdictHonest
  BY DEF StatusInv, HistoryInv
<1> QED
  BY <1>1, StatusInvariant, PTL

\* A loop that stopped on request left nothing in an open buffer, and no
\* checkpoint without its accounting entry.
THEOREM GracefulExitIsCleanHolds == Spec => []GracefulExitIsClean
<1>1. LoopInv /\ StatusInv => GracefulExitIsClean
  BY DEF LoopInv, BatchInv, Collecting, StatusInv, BalanceInv, GracefulExitIsClean
<1> QED
  BY <1>1, StatusInvariant, PTL

\* The durable log never runs ahead of the accountant, for the experiment and
\* for every client, whichever append fails or is cut off by a crash.
THEOREM LogNeverAheadHolds == Spec => []LogNeverAhead
<1>1. LoopInv /\ StatusInv => LogNeverAhead
  <2> SUFFICES ASSUME LoopInv, StatusInv, LogEnabled PROVE LogNeverAhead
    BY DEF LogNeverAhead
  <2>1. log \in Books /\ acct \in Books /\ IsFiniteSet(job.unlogged)
    BY DEF LoopInv, TypeOK, BooksTypeOK, LoopTypeOK
  <2>2. log.total <= acct.total
    BY <2>1 DEF LoopInv, CostInv, Pending, Books
  <2>3. ASSUME NEW c \in Clients PROVE log.client[c] <= acct.client[c]
    <3>1. log.client[c] \in Nat /\ acct.client[c] \in Nat /\ Cardinality(Of(c, job.unlogged)) \in Nat
      BY <2>1, OfCount DEF Books
    <3>2. log.client[c] + Cardinality(Of(c, job.unlogged)) <= acct.client[c]
      BY DEF StatusInv, ClientLogInv, Of
    <3> QED
      BY <3>1, <3>2
  <2> QED
    BY <2>2, <2>3 DEF LogNeverAhead
<1> QED
  BY <1>1, StatusInvariant, PTL

\* As long as nothing failed, a stateful aggregator's own last output is the
\* model the store handed back and the round dispatched.
THEOREM AnchorIsDispatchedModelHolds == Spec => []AnchorIsDispatchedModel
<1>1. StatusInv => AnchorIsDispatchedModel
  BY DEF StatusInv, AnchorInv, AnchorIsDispatchedModel
<1> QED
  BY <1>1, StatusInvariant, PTL
=============================================================================
