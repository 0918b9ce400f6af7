-------------------------------- MODULE Wire --------------------------------
(***************************************************************************)
(* How one trained result travels: the client cuts it into DeltaChunks,    *)
(* the node reassembles, clips and noises the whole update and restores    *)
(* the chunk boundaries, the transport counts the bytes it collects and    *)
(* the server puts the chunks together again.                              *)
(*                                                                         *)
(* A weight is four bytes on the wire; the chunk size is in bytes, every   *)
(* cut falls between weights, so a payload is a sequence of weights.  The  *)
(* Gaussian mechanism is represented by the draw it adds to each weight.   *)
(***************************************************************************)
EXTENDS Integers, Sequences, SequencesExt, FiniteSets

CONSTANTS
  ChunkBytes,      \* RunConfig.chunk_bytes
  MaxUpdateBytes   \* max_update_bytes, the largest reassembled update

ASSUME WireAssumption == ChunkBytes \in Nat /\ MaxUpdateBytes \in Nat

\* An Option: TrainResult.control_variate = None, or Some of a vector.
NoVariate == <<>>
Some(v) == <<v>>

\* TrainResult: a control variate is as long as the weights.
TrainResult(r) ==
  /\ r.weights \in Seq(Range(r.weights))
  /\ \/ r.variate = NoVariate
     \/ /\ r.variate = Some(r.variate[1])
        /\ r.variate[1] \in Seq(Range(r.variate[1]))
        /\ Len(r.variate[1]) = Len(r.weights)

Least(m, n) == IF m < n THEN m ELSE n
Most(m, n) == IF m < n THEN n ELSE m

\* Weights per chunk: chunk_bytes rounded down to whole f32s, at least one.
Step == Most(ChunkBytes, 4) \div 4

\* The elements from offset lo up to offset hi, both counted from 0.
Slice(s, lo, hi) == SubSeq(s, lo + 1, Least(hi, Len(s)))

\* build_chunks / _chunks: both vectors cut at the same offsets, the last
\* one at the end of the weights; an empty payload still makes one chunk.
BuildChunks(result) ==
  LET size  == Len(result.weights)
      total == Most(1, (size + Step - 1) \div Step)
  IN  [i \in 1..total |->
        LET lo == (i - 1) * Step
            hi == Least(i * Step, size)
        IN  [index   |-> i - 1,
             data    |-> Slice(result.weights, lo, hi),
             variate |-> [k \in DOMAIN result.variate |-> Slice(result.variate[k], lo, hi)]]]

\* sort_by_key(chunk_index), which is stable: each chunk goes behind those of
\* a smaller index, and behind those of its own that came before it.
Preceding(chunks, j) ==
  {k \in DOMAIN chunks : \/ chunks[k].index < chunks[j].index
                         \/ chunks[k].index = chunks[j].index /\ k < j}
InOrder(chunks) ==
  [i \in DOMAIN chunks |->
     chunks[CHOOSE j \in DOMAIN chunks : Cardinality(Preceding(chunks, j)) = i - 1]]

Data(chunks) == FlattenSeq([i \in DOMAIN chunks |-> chunks[i].data])

\* The update the mechanism lets out: every weight carries the draw.
Noised(weights, draw) == [i \in DOMAIN weights |-> <<weights[i], draw>>]

\* Where chunk i of a sorted sequence starts.
Offset(chunks, i) == Len(Data(SubSeq(chunks, 1, i - 1)))

\* NodeBridge::apply_local_privacy: sorted, concatenated, transformed as one
\* vector, and cut again at the boundaries the chunks came with.
ApplyLocalPrivacy(chunks, draw) ==
  LET sorted == InOrder(chunks)
      update == Noised(Data(sorted), draw)
  IN  [i \in DOMAIN sorted |->
        LET lo == Offset(sorted, i)
        IN  [sorted[i] EXCEPT !.data = Slice(update, lo, lo + Len(@))]]

\* FlTransportService::submit_delta counts every byte a client controls.
ChunkSize(chunk) == 4 * (Len(chunk.data) + Len(FlattenSeq(chunk.variate)))
TooLarge(chunks) ==
  FoldLeft(LAMBDA sum, chunk : sum + ChunkSize(chunk), 0, chunks) > MaxUpdateBytes

\* AppState::submit_delta: sorted by index, each field concatenated on its
\* own, the variate present when any chunk brought a slice of it.
Reassembled(chunks) ==
  LET sorted == InOrder(chunks)
      slices == [i \in DOMAIN sorted |-> FlattenSeq(sorted[i].variate)]
  IN  [weights |-> Data(sorted),
       variate |-> IF \A i \in DOMAIN sorted : sorted[i].variate = NoVariate THEN NoVariate
                   ELSE Some(FlattenSeq(slices))]
=============================================================================
