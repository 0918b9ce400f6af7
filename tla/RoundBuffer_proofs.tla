-------------------------- MODULE RoundBuffer_proofs --------------------------
(***************************************************************************)
(* BufferInv is an inductive invariant of RoundBuffer for every set of     *)
(* push calls, every quorum and every assignment of rounds, and the buffer *)
(* implements RoundBatch.                                                  *)
(***************************************************************************)
EXTENDS RoundBuffer, FunctionTheorems, FiniteSetTheorems, TLAPS

\* What Append does, index by index.
LEMMA AppendPointwise ==
  ASSUME NEW S, NEW s \in Seq(S), NEW e \in S
  PROVE  /\ Append(s, e) \in Seq(S)
         /\ DOMAIN s = 1 .. Len(s)
         /\ DOMAIN Append(s, e) = 1 .. Len(s) + 1
         /\ \A i \in DOMAIN s : Append(s, e)[i] = s[i] /\ i \in DOMAIN Append(s, e)
         /\ Append(s, e)[Len(s) + 1] = e
         /\ Len(s) \in Nat
OBVIOUS

\* Appending one element adds exactly it to the contents of a sequence.
LEMMA ContentsAppend ==
  ASSUME NEW S, NEW s \in Seq(S), NEW e \in S
  PROVE  Contents(Append(s, e)) = Contents(s) \cup {e}
<1> DEFINE t == Append(s, e)
<1>1. /\ DOMAIN s = 1 .. Len(s) /\ DOMAIN t = 1 .. Len(s) + 1
      /\ \A i \in DOMAIN s : t[i] = s[i] /\ i \in DOMAIN t
      /\ t[Len(s) + 1] = e
      /\ Len(s) \in Nat
  BY AppendPointwise
<1> HIDE DEF t
<1>2. \A i \in DOMAIN t : i \in DOMAIN s \/ i = Len(s) + 1
  BY <1>1
<1>3. Len(s) + 1 \in DOMAIN t
  BY <1>1
<1> QED
  BY <1>1, <1>2, <1>3 DEF Contents, t

\* Appending an element that is not yet there keeps a sequence free of
\* repetitions.
LEMMA AppendKeepsDistinct ==
  ASSUME NEW S, NEW s \in Seq(S), NEW e \in S, e \notin Contents(s),
         \A i, j \in DOMAIN s : s[i] = s[j] => i = j
  PROVE  \A i, j \in DOMAIN Append(s, e) :
           Append(s, e)[i] = Append(s, e)[j] => i = j
<1>1. \A i \in DOMAIN s : s[i] # e
  BY DEF Contents
<1>2. \A i \in DOMAIN Append(s, e) : i \in DOMAIN s \/ i = Len(s) + 1
  BY AppendPointwise
<1>3. ASSUME NEW i \in DOMAIN Append(s, e), NEW j \in DOMAIN Append(s, e),
             Append(s, e)[i] = Append(s, e)[j]
      PROVE  i = j
  BY <1>1, <1>2, <1>3, AppendPointwise
<1> QED
  BY <1>3

\* The new buffer satisfies the invariant.
LEMMA InitBufferInv == Init => BufferInv
<1> SUFFICES ASSUME Init PROVE BufferInv
  OBVIOUS
<1>1. TypeOK
  <2>1. <<>> \in Seq(Pushers)
    OBVIOUS
  <2>2. flushed \in [reason : {"none", "Quorum", "Timeout"}, deltas : Seq(Pushers)]
    BY <2>1 DEF Init, NotFlushed
  <2> QED
    BY <2>1, <2>2 DEF Init, TypeOK
<1>2. AcceptedExactlyOnce
  BY DEF Init, AcceptedExactlyOnce, Collected, Contents
<1>3. ReasonHonest
  BY DEF Init, ReasonHonest, NotFlushed
<1> QED
  BY <1>1, <1>2, <1>3 DEF Init, BufferInv

\* Every step of every task preserves the invariant.
LEMMA NextBufferInv == BufferInv /\ [Next]_vars => BufferInv'
<1> SUFFICES ASSUME BufferInv, [Next]_vars PROVE BufferInv'
  OBVIOUS
<1> USE BufferAssumption
<1>1. CASE UNCHANGED vars
  BY <1>1 DEF BufferInv, vars, TypeOK, AcceptedExactlyOnce, Collected,
              ReasonHonest, Contents
<1>2. ASSUME NEW p \in Pushers, PushWrongRound(p) PROVE BufferInv'
  <2>1. TypeOK'
    BY <1>2 DEF BufferInv, TypeOK, PushWrongRound
  <2>2. AcceptedExactlyOnce'
    BY <1>2 DEF BufferInv, TypeOK, PushWrongRound, AcceptedExactlyOnce, Collected,
                Contents
  <2> QED
    BY <1>2, <2>1, <2>2 DEF BufferInv, TypeOK, PushWrongRound, ReasonHonest
<1>3. ASSUME NEW p \in Pushers, PushLocked(p) PROVE BufferInv'
  <2>1. CASE state = "Open"
    <3>0. deltas' = Append(deltas, p) /\ pushPc' = [pushPc EXCEPT ![p] = "notify"]
      BY <1>3, <2>1 DEF PushLocked
    <3>1. TypeOK'
      BY <1>3, <3>0 DEF BufferInv, TypeOK, PushLocked
    <3>2. p \notin Contents(deltas)
      BY <1>3, <2>1 DEF BufferInv, AcceptedExactlyOnce, Collected, PushLocked
    <3>3. Contents(deltas') = Contents(deltas) \cup {p}
      BY <3>0, ContentsAppend DEF BufferInv, TypeOK
    <3>4. Collected = deltas /\ Collected' = deltas'
      BY <1>3, <2>1 DEF BufferInv, Collected, PushLocked
    <3>5. AcceptedExactlyOnce'
      <4>1. Contents(Collected') = {q \in Pushers : pushPc'[q] \in {"notify", "Ok"}}
        <5>1. Contents(deltas) = {q \in Pushers : pushPc[q] \in {"notify", "Ok"}}
          BY <3>4 DEF BufferInv, AcceptedExactlyOnce
        <5>2. \A q \in Pushers : pushPc'[q] = IF q = p THEN "notify" ELSE pushPc[q]
          BY <3>0 DEF BufferInv, TypeOK
        <5> QED
          BY <5>1, <5>2, <3>3, <3>4
      <4>2. \A i, j \in DOMAIN deltas' : deltas'[i] = deltas'[j] => i = j
        <5>1. \A i, j \in DOMAIN deltas : deltas[i] = deltas[j] => i = j
          BY <3>4 DEF BufferInv, AcceptedExactlyOnce
        <5>2. deltas \in Seq(Pushers)
          BY DEF BufferInv, TypeOK
        <5>3. \A i, j \in DOMAIN Append(deltas, p) :
                Append(deltas, p)[i] = Append(deltas, p)[j] => i = j
          BY <5>1, <5>2, <3>2, AppendKeepsDistinct
        <5> QED
          BY <5>3, <3>0
      <4> QED
        BY <4>1, <4>2, <3>4 DEF AcceptedExactlyOnce, Collected, Contents
    <3> QED
      BY <1>3, <2>1, <3>0, <3>1, <3>5 DEF BufferInv, TypeOK, PushLocked, ReasonHonest
  <2>2. CASE state = "Closed"
    <3>1. TypeOK'
      BY <1>3, <2>2 DEF BufferInv, TypeOK, PushLocked
    <3>2. AcceptedExactlyOnce'
      BY <1>3, <2>2 DEF BufferInv, TypeOK, PushLocked, AcceptedExactlyOnce, Collected,
                        Contents
    <3> QED
      BY <1>3, <2>2, <3>1, <3>2 DEF BufferInv, TypeOK, PushLocked, ReasonHonest
  <2> QED
    BY <2>1, <2>2 DEF BufferInv, TypeOK
<1>4. ASSUME NEW p \in Pushers, PushNotify(p) PROVE BufferInv'
  <2>1. TypeOK'
    BY <1>4 DEF BufferInv, TypeOK, PushNotify
  <2>2. AcceptedExactlyOnce'
    BY <1>4 DEF BufferInv, TypeOK, PushNotify, AcceptedExactlyOnce, Collected, Contents
  <2> QED
    BY <1>4, <2>1, <2>2 DEF BufferInv, TypeOK, PushNotify, ReasonHonest
<1>5. CASE FlushBegin
  BY <1>5 DEF BufferInv, TypeOK, FlushBegin, AcceptedExactlyOnce, Collected,
              ReasonHonest, Contents
<1>6. CASE CloseIfQuorumMet
  <2>1. TypeOK'
    <3>1. CASE QuorumMet
      <4>1. flushed' \in [reason : {"none", "Quorum", "Timeout"}, deltas : Seq(Pushers)]
        BY <1>6, <3>1 DEF BufferInv, TypeOK, CloseIfQuorumMet, CloseAndReturn
      <4>2. deltas' \in Seq(Pushers)
        BY <1>6, <3>1 DEF CloseIfQuorumMet, CloseAndReturn
      <4> QED
        BY <1>6, <3>1, <4>1, <4>2 DEF BufferInv, TypeOK, CloseIfQuorumMet, CloseAndReturn
    <3>2. CASE ~QuorumMet
      BY <1>6, <3>2 DEF BufferInv, TypeOK, CloseIfQuorumMet
    <3> QED
      BY <3>1, <3>2
  <2>2. AcceptedExactlyOnce'
    BY <1>6 DEF BufferInv, TypeOK, AcceptedExactlyOnce, Collected, Contents,
               CloseIfQuorumMet, QuorumMet, CloseAndReturn
  <2>3. ReasonHonest'
    BY <1>6 DEF BufferInv, TypeOK, ReasonHonest, CloseIfQuorumMet, QuorumMet, CloseAndReturn
  <2> QED
    BY <1>6, <2>1, <2>2, <2>3 DEF BufferInv, TypeOK, CloseIfQuorumMet, QuorumMet, CloseAndReturn
<1>7. CASE CheckDeadline
  <2>1. TypeOK'
    <3>1. CASE timeUp
      <4>1. flushed' \in [reason : {"none", "Quorum", "Timeout"}, deltas : Seq(Pushers)]
        BY <1>7, <3>1 DEF BufferInv, TypeOK, CheckDeadline, CloseAndReturn
      <4>2. deltas' \in Seq(Pushers)
        BY <1>7, <3>1 DEF CheckDeadline, CloseAndReturn
      <4> QED
        BY <1>7, <3>1, <4>1, <4>2 DEF BufferInv, TypeOK, CheckDeadline, CloseAndReturn
    <3>2. CASE ~timeUp
      BY <1>7, <3>2 DEF BufferInv, TypeOK, CheckDeadline
    <3> QED
      BY <3>1, <3>2
  <2>2. AcceptedExactlyOnce'
    BY <1>7 DEF BufferInv, TypeOK, AcceptedExactlyOnce, Collected, Contents,
               CheckDeadline, CloseAndReturn
  <2>3. ReasonHonest'
    BY <1>7 DEF BufferInv, TypeOK, ReasonHonest, CheckDeadline, CloseAndReturn
  <2> QED
    BY <1>7, <2>1, <2>2, <2>3 DEF BufferInv, TypeOK, CheckDeadline, CloseAndReturn
<1>8. CASE WaitNotified
  <2>1. TypeOK'
    BY <1>8 DEF BufferInv, TypeOK, WaitNotified
  <2>2. AcceptedExactlyOnce'
    BY <1>8 DEF BufferInv, TypeOK, AcceptedExactlyOnce, Collected, Contents,
               WaitNotified
  <2>3. ReasonHonest'
    BY <1>8 DEF BufferInv, TypeOK, ReasonHonest, WaitNotified
  <2> QED
    BY <1>8, <2>1, <2>2, <2>3 DEF BufferInv, TypeOK, WaitNotified
<1>9. CASE Resume
  BY <1>9 DEF BufferInv, TypeOK, Resume, AcceptedExactlyOnce, Collected,
              ReasonHonest, Contents
<1>10. CASE DeadlinePasses
  BY <1>10 DEF BufferInv, TypeOK, DeadlinePasses, AcceptedExactlyOnce, Collected,
               ReasonHonest, Contents
<1> QED
  BY <1>1, <1>2, <1>3, <1>4, <1>5, <1>6, <1>7, <1>8, <1>9, <1>10
  DEF Next, Push, Flush

\* BufferInv holds in every reachable state: in particular the types, and
\* that an accepted delta is in the batch exactly once.
THEOREM BufferInvariant == Spec => []BufferInv
BY InitBufferInv, NextBufferInv, PTL DEF Spec

\* A delta whose push was accepted is in the collected batch exactly once,
\* however the lock sections of push and await_flush interleave.
THEOREM AcceptedExactlyOnceHolds == Spec => []AcceptedExactlyOnce
<1>1. BufferInv => AcceptedExactlyOnce
  BY DEF BufferInv
<1> QED
  BY <1>1, BufferInvariant, PTL

\* await_flush is never parked on a full batch that nobody will announce:
\* the permit notify_one stores covers the window before the wait.
THEOREM NoLostWakeupHolds == Spec => []NoLostWakeup
<1>1. BufferInv => NoLostWakeup
  BY DEF BufferInv, NoLostWakeup
<1> QED
  BY <1>1, BufferInvariant, PTL

\* The flush reason is honest: a quorum flush has a quorum, a timeout flush
\* happened after the deadline.
THEOREM ReasonHonestHolds == Spec => []ReasonHonest
<1>1. BufferInv => ReasonHonest
  BY DEF BufferInv
<1> QED
  BY <1>1, BufferInvariant, PTL

\* No step reopens a closed buffer or changes the snapshot handed out.
THEOREM ClosedIsFinalHolds == Spec => ClosedIsFinal
<1>1. BufferInv /\ [Next]_vars =>
        [state = "Closed" => state' = "Closed" /\ deltas' = deltas /\ flushed' = flushed]_vars
  BY DEF BufferInv, TypeOK, vars, Next, Push, Flush, PushWrongRound, PushLocked,
         PushNotify, FlushBegin, CloseIfQuorumMet, QuorumMet, CloseAndReturn,
         CheckDeadline, WaitNotified, Resume, DeadlinePasses
<1> QED
  BY <1>1, BufferInvariant, PTL DEF Spec, ClosedIsFinal

\* A sequence of distinct elements has as many of them as it is long.
LEMMA DistinctCardinality ==
  ASSUME NEW S, NEW s \in Seq(S), \A i, j \in DOMAIN s : s[i] = s[j] => i = j
  PROVE  Cardinality(Contents(s)) = Len(s)
<1>1. DOMAIN s = 1 .. Len(s) /\ Len(s) \in Nat
  OBVIOUS
<1>2. IsFiniteSet(DOMAIN s) /\ Cardinality(DOMAIN s) = Len(s)
  BY <1>1, FS_Interval
<1> DEFINE f == [i \in DOMAIN s |-> s[i]]
<1>3. f \in Bijection(DOMAIN s, Contents(s))
  BY DEF Contents, Bijection, Injection, Surjection, IsInjective
<1>4. ExistsBijection(DOMAIN s, Contents(s))
  BY <1>3 DEF ExistsBijection
<1> QED
  BY <1>2, <1>4, FS_Bijection

\* Every behaviour of the locks, permits and timers is, seen through the
\* batch they guard, a behaviour of RoundBatch.
THEOREM BufferImplementsBatch == Spec => ImplementsRoundBatch
<1> USE BufferAssumption
<1>1. Init => Batch!BatchInit
  BY DEF Init, Batch!BatchInit, Collected, Contents, NotFlushed
<1>2. BufferInv /\ [Next]_vars => [Batch!BatchNext]_(Batch!batchVars)
  <2> SUFFICES ASSUME BufferInv, [Next]_vars
               PROVE  Batch!BatchNext \/ UNCHANGED Batch!batchVars
    OBVIOUS
  <2> DEFINE Same == /\ state' = state
                     /\ Collected' = Collected
                     /\ flushed' = flushed
  <2>1. Same => UNCHANGED Batch!batchVars
    BY DEF Batch!batchVars, Contents, Collected
  <2>2. ASSUME NEW p \in Pushers, PushLocked(p), state = "Open"
        PROVE  Batch!Accept(p)
    <3>1. Collected = deltas /\ Collected' = Append(deltas, p)
      BY <2>2 DEF BufferInv, Collected, PushLocked
    <3>2. Contents(Collected)' = Contents(Collected) \cup {p}
      <4>1. Contents(Append(deltas, p)) = Contents(deltas) \cup {p}
        BY ContentsAppend DEF BufferInv, TypeOK
      <4>2. Contents(Collected)' = Contents(Append(deltas, p))
        BY <3>1 DEF Contents
      <4> QED
        BY <4>1, <4>2, <3>1
    <3>3. p \notin Contents(Collected)
      BY <2>2 DEF BufferInv, AcceptedExactlyOnce, PushLocked
    <3> QED
      BY <2>2, <3>2, <3>3 DEF Batch!Accept, PushLocked
  <2>3. ASSUME NEW p \in Pushers, PushLocked(p), state # "Open"
        PROVE  Same
    BY <2>3 DEF PushLocked, Collected
  <2>4. ASSUME NEW p \in Pushers, PushWrongRound(p) PROVE Same
    BY <2>4 DEF PushWrongRound, Collected
  <2>5. ASSUME NEW p \in Pushers, PushNotify(p) PROVE Same
    BY <2>5 DEF PushNotify, Collected
  <2>6. ASSUME NEW reason \in {"Quorum", "Timeout"}, state = "Open",
               CloseAndReturn(reason), reason = "Quorum" => Len(deltas) >= Quorum
        PROVE  Batch!Seal(reason)
    <3>1. Collected = deltas /\ Collected' = deltas
      BY <2>6 DEF BufferInv, TypeOK, Collected, CloseAndReturn
    <3>2. Cardinality(Contents(Collected)) = Len(deltas)
      <4>1. \A i, j \in DOMAIN deltas : deltas[i] = deltas[j] => i = j
        BY <3>1 DEF BufferInv, AcceptedExactlyOnce
      <4> QED
        BY <3>1, <4>1, DistinctCardinality DEF BufferInv, TypeOK
    <3>3. Contents(Collected)' = Contents(Collected)
      BY <3>1 DEF Contents
    <3>4. (flushed.reason)' = reason /\ (state = "Open")' = FALSE
      BY <2>6 DEF CloseAndReturn
    <3>5. reason = "Quorum" => Cardinality(Contents(Collected)) >= Quorum
      BY <2>6, <3>2
    <3> QED
      BY <2>6, <3>3, <3>4, <3>5 DEF Batch!Seal, Batch!Cardinality, Cardinality
  <2>7. CASE FlushBegin
    BY <2>1, <2>7 DEF FlushBegin, Collected
  <2>8. CASE CloseIfQuorumMet
    <3>1. CASE QuorumMet
      <4>1. Batch!Seal("Quorum")
        BY <2>6, <2>8, <3>1 DEF CloseIfQuorumMet, QuorumMet
      <4> QED
        BY <4>1 DEF Batch!BatchNext
    <3>2. CASE ~QuorumMet
      BY <2>1, <2>8, <3>2 DEF CloseIfQuorumMet, Collected
    <3> QED
      BY <3>1, <3>2
  <2>9. CASE CheckDeadline
    <3>1. CASE timeUp
      <4>1. Batch!Seal("Timeout")
        BY <2>6, <2>9, <3>1 DEF BufferInv, TypeOK, CheckDeadline
      <4> QED
        BY <4>1 DEF Batch!BatchNext
    <3>2. CASE ~timeUp
      BY <2>1, <2>9, <3>2 DEF CheckDeadline, Collected
    <3> QED
      BY <3>1, <3>2
  <2>10. CASE WaitNotified
    BY <2>1, <2>10 DEF WaitNotified, Collected
  <2>11. CASE Resume
    BY <2>1, <2>11 DEF Resume, Collected
  <2>12. CASE DeadlinePasses
    BY <2>1, <2>12 DEF DeadlinePasses, Collected
  <2>13. CASE UNCHANGED vars
    BY <2>1, <2>13 DEF vars, Collected
  <2>14. ASSUME NEW p \in Pushers, Push(p)
         PROVE  Batch!BatchNext \/ UNCHANGED Batch!batchVars
    BY <2>1, <2>2, <2>3, <2>4, <2>5, <2>14 DEF Push, Batch!BatchNext
  <2> QED
    BY <2>7, <2>8, <2>9, <2>10, <2>11, <2>12, <2>13, <2>14 DEF Next, Flush
<1> QED
  BY <1>1, <1>2, BufferInvariant, PTL DEF Spec, ImplementsRoundBatch, Batch!BatchSpec
=============================================================================
