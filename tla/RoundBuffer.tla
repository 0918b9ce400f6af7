----------------------------- MODULE RoundBuffer -----------------------------
(***************************************************************************)
(* conflux_buffer::RoundBuffer at the grain of its lock and its Notify:    *)
(* many tasks run push, exactly one runs await_flush.                      *)
(*                                                                         *)
(* A push call takes the mutex once (PushLocked) and calls notify_one      *)
(* after releasing it (PushNotify); await_flush takes the mutex in         *)
(* close_if_quorum_met and again in close_and_take, reads the clock in     *)
(* between and then waits on the Notify with the remaining time.  Any step *)
(* of one task may fall between two steps of another.                      *)
(*                                                                         *)
(* tokio's Notify keeps at most one permit: notify_one wakes the parked    *)
(* waiter if there is one and stores the permit otherwise; notified()      *)
(* returns at once when a permit is stored, and consumes it.               *)
(***************************************************************************)
EXTENDS Naturals, Sequences, FiniteSets

CONSTANTS
  Pushers,       \* one element per push call
  ClaimedRound,  \* the round each call's delta says it is for
  Round,         \* the round this buffer collects
  Quorum         \* close as soon as this many deltas are in

ASSUME BufferAssumption ==
  /\ IsFiniteSet(Pushers)
  /\ ClaimedRound \in [Pushers -> Nat]
  /\ Round \in Nat
  /\ Quorum \in Nat

VARIABLES
  state,     \* "Open" or "Closed": BufferState's tag
  deltas,    \* the Vec inside BufferState::Open, in arrival order
  permit,    \* the Notify holds a stored permit
  pushPc,    \* where each push call is, or what it returned
  flushPc,   \* where await_flush is
  timeUp,    \* the clock has passed await_flush's deadline
  flushed    \* the FlushResult, once await_flush returned

vars == <<state, deltas, permit, pushPc, flushPc, timeUp, flushed>>

NotFlushed == [reason |-> "none", deltas |-> <<>>]

Contents(seq) == {seq[i] : i \in DOMAIN seq}

TypeOK ==
  /\ state \in {"Open", "Closed"}
  /\ deltas \in Seq(Pushers)
  /\ permit \in BOOLEAN
  /\ pushPc \in [Pushers -> {"lock", "notify", "Ok", "WrongRound", "Closed"}]
  /\ flushPc \in {"idle", "quorum", "deadline", "wait", "parked", "woken", "done"}
  /\ timeUp \in BOOLEAN
  /\ flushed \in [reason : {"none", "Quorum", "Timeout"}, deltas : Seq(Pushers)]

\* RoundBuffer::new, shared through an Arc before await_flush is called.
Init ==
  /\ state = "Open"
  /\ deltas = <<>>
  /\ permit = FALSE
  /\ pushPc = [p \in Pushers |-> "lock"]
  /\ flushPc = "idle"
  /\ timeUp = FALSE
  /\ flushed = NotFlushed

-----------------------------------------------------------------------------
(* push *)

\* The round is compared before the lock is taken.
PushWrongRound(p) ==
  /\ pushPc[p] = "lock"
  /\ ClaimedRound[p] # Round
  /\ pushPc' = [pushPc EXCEPT ![p] = "WrongRound"]
  /\ UNCHANGED <<state, deltas, permit, flushPc, timeUp, flushed>>

\* Mutation: the state is not looked at again once the round matched.
PushLocked_IgnoresClosed(p) ==
  /\ pushPc[p] = "lock"
  /\ ClaimedRound[p] = Round
  /\ deltas' = Append(deltas, p)
  /\ pushPc' = [pushPc EXCEPT ![p] = "notify"]
  /\ UNCHANGED <<state, permit, flushPc, timeUp, flushed>>

\* The mutex section: join the open batch, or be told it is closed.
PushLocked(p) ==
  /\ pushPc[p] = "lock"
  /\ ClaimedRound[p] = Round
  /\ \/ /\ state = "Open"
        /\ deltas' = Append(deltas, p)
        /\ pushPc' = [pushPc EXCEPT ![p] = "notify"]
     \/ /\ state = "Closed"
        /\ pushPc' = [pushPc EXCEPT ![p] = "Closed"]
        /\ UNCHANGED deltas
  /\ UNCHANGED <<state, permit, flushPc, timeUp, flushed>>

\* Mutation: notify_waiters, which stores no permit for a later waiter.
PushNotify_WakesOnlyParked(p) ==
  /\ pushPc[p] = "notify"
  /\ pushPc' = [pushPc EXCEPT ![p] = "Ok"]
  /\ flushPc' = IF flushPc = "parked" THEN "woken" ELSE flushPc
  /\ UNCHANGED <<state, deltas, permit, timeUp, flushed>>

\* notify_one, after the lock is released, then Ok(()).
PushNotify(p) ==
  /\ pushPc[p] = "notify"
  /\ pushPc' = [pushPc EXCEPT ![p] = "Ok"]
  /\ IF flushPc = "parked"
       THEN flushPc' = "woken" /\ UNCHANGED permit
       ELSE permit' = TRUE /\ UNCHANGED flushPc
  /\ UNCHANGED <<state, deltas, timeUp, flushed>>

-----------------------------------------------------------------------------
(* await_flush *)

\* The call: the deadline is set and the loop entered.
FlushBegin ==
  /\ flushPc = "idle"
  /\ flushPc' = "quorum"
  /\ UNCHANGED <<state, deltas, permit, pushPc, timeUp, flushed>>

\* Mutation: the Vec is copied out and the buffer left open.
CloseAndReturn_LeavesOpen(reason) ==
  /\ flushed' = [reason |-> reason, deltas |-> deltas]
  /\ flushPc' = "done"
  /\ UNCHANGED <<state, deltas>>

\* Replacing the state with Closed and handing its Vec out, under one lock.
CloseAndReturn(reason) ==
  /\ state' = "Closed"
  /\ deltas' = <<>>
  /\ flushed' = [reason |-> reason, deltas |-> deltas]
  /\ flushPc' = "done"

QuorumMet == state = "Open" /\ Len(deltas) >= Quorum

CloseIfQuorumMet ==
  /\ flushPc = "quorum"
  /\ \/ QuorumMet /\ CloseAndReturn("Quorum")
     \/ /\ ~QuorumMet
        /\ flushPc' = "deadline"
        /\ UNCHANGED <<state, deltas, flushed>>
  /\ UNCHANGED <<permit, pushPc, timeUp>>

\* remaining.is_zero(): a second, separate lock acquisition takes the batch.
CheckDeadline ==
  /\ flushPc = "deadline"
  /\ \/ timeUp /\ CloseAndReturn("Timeout")
     \/ /\ ~timeUp
        /\ flushPc' = "wait"
        /\ UNCHANGED <<state, deltas, flushed>>
  /\ UNCHANGED <<permit, pushPc, timeUp>>

\* The first poll of notified(): a stored permit completes it at once.
WaitNotified ==
  /\ flushPc = "wait"
  /\ IF permit
       THEN permit' = FALSE /\ flushPc' = "quorum"
       ELSE flushPc' = "parked" /\ UNCHANGED permit
  /\ UNCHANGED <<state, deltas, pushPc, timeUp, flushed>>

\* Mutation: the wait has no timer of its own.
Resume_OnlyWhenWoken ==
  /\ flushPc = "woken"
  /\ flushPc' = "quorum"
  /\ UNCHANGED <<state, deltas, permit, pushPc, timeUp, flushed>>

\* The waiter resumes: it was woken, or its timer fired.
Resume ==
  /\ \/ flushPc = "woken"
     \/ flushPc = "parked" /\ timeUp
  /\ flushPc' = "quorum"
  /\ UNCHANGED <<state, deltas, permit, pushPc, timeUp, flushed>>

\* The clock reaches the deadline.
DeadlinePasses ==
  /\ flushPc # "idle"
  /\ ~timeUp
  /\ timeUp' = TRUE
  /\ UNCHANGED <<state, deltas, permit, pushPc, flushPc, flushed>>

-----------------------------------------------------------------------------
Push(p) == PushWrongRound(p) \/ PushLocked(p) \/ PushNotify(p)

Flush ==
  FlushBegin \/ CloseIfQuorumMet \/ CheckDeadline \/ WaitNotified \/ Resume

Next == (\E p \in Pushers : Push(p)) \/ Flush \/ DeadlinePasses

Spec == Init /\ [][Next]_vars

(* Fairness.  tokio polls every task that is ready, so a push call that has *)
(* begun finishes and await_flush is not abandoned.  The clock is NOT made *)
(* fair in FairSpec: what holds there holds without help from the timeout. *)
FairSpec ==
  /\ Spec
  /\ WF_vars(Flush)
  /\ \A p \in Pushers : WF_vars(PushNotify(p))

-----------------------------------------------------------------------------
(* Properties *)

\* Where an accepted delta is: still in the buffer, or in the snapshot.
Collected == IF flushPc = "done" THEN flushed.deltas ELSE deltas

\* No accepted push is lost or duplicated, and no refused one is used: a
\* push whose lock section succeeded is in the collected batch exactly
\* once, whichever way its steps interleave with the flush.
AcceptedExactlyOnce ==
  /\ Contents(Collected) = {p \in Pushers : pushPc[p] \in {"notify", "Ok"}}
  /\ \A i, j \in DOMAIN Collected : Collected[i] = Collected[j] => i = j

\* No wakeup is lost: await_flush never sits parked on a full batch unless
\* the push that filled it has still to call notify_one.
NoLostWakeup ==
  flushPc = "parked" /\ Len(deltas) >= Quorum =>
    \E p \in Pushers : pushPc[p] = "notify"

\* A batch said to have closed on quorum has one, and a batch said to have
\* closed on the timeout closed after the deadline and not before.
ReasonHonest ==
  /\ flushed.reason = "Quorum" => Len(flushed.deltas) >= Quorum
  /\ flushed.reason = "Timeout" => timeUp

\* The inductive invariant: the types; await_flush has returned exactly when
\* the buffer is closed, and an open buffer has handed nothing out; from a
\* failed quorum check until the waiter is awake again, a full batch is
\* announced by a stored permit or by a push about to notify; and a parked
\* waiter leaves no permit behind it.
BufferInv ==
  /\ TypeOK
  /\ state = "Closed" <=> flushPc = "done"
  /\ state = "Closed" => deltas = <<>> /\ flushed.reason # "none"
  /\ state = "Open" => flushed = NotFlushed
  /\ AcceptedExactlyOnce
  /\ flushPc \in {"deadline", "wait", "parked"} /\ Len(deltas) >= Quorum =>
        permit \/ \E p \in Pushers : pushPc[p] = "notify"
  /\ flushPc = "parked" => ~permit
  /\ ReasonHonest

\* Closing is final: no step reopens the buffer or alters the snapshot that
\* was handed out, whoever still holds the Arc.
ClosedIsFinal ==
  [][state = "Closed" =>
       /\ state' = "Closed"
       /\ deltas' = deltas
       /\ flushed' = flushed]_vars

\* A quorum closes the round by itself: once the flusher waits and enough
\* deltas are in, the batch is handed out even if the clock never advances.
QuorumFlushesWithoutClock ==
  flushPc # "idle" /\ Len(deltas) >= Quorum ~> flushPc = "done"

\* The deadline bounds the wait: once it has passed, await_flush returns with
\* whatever has arrived, even if no client ever pushes.
FlushReturns == flushPc # "idle" /\ timeUp ~> flushPc = "done"

-----------------------------------------------------------------------------
(* The buffer implements RoundBatch: the batch is the one its lock guards. *)

Batch == INSTANCE RoundBatch WITH
  collecting <- state = "Open",
  accepted   <- Contents(Collected),
  outcome    <- flushed.reason

\* The fine-grained buffer keeps the contract RoundBatch states.
ImplementsRoundBatch == Batch!BatchSpec
=============================================================================
