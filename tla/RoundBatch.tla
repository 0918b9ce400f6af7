----------------------------- MODULE RoundBatch -----------------------------
(***************************************************************************)
(* What a round's staging buffer promises its callers, without locks,      *)
(* permits or timers: a set of submissions is collected; at one instant    *)
(* the batch is sealed; a submission is in the sealed batch exactly when   *)
(* it was accepted before that instant; and nothing is accepted after it.  *)
(* conflux-buffer/src/lib.rs states this contract in its module comment    *)
(* ("once a snapshot has been handed to an `await_flush` caller, every     *)
(* later push must be rejected explicitly").  RoundBuffer implements it.   *)
(***************************************************************************)
EXTENDS Naturals, FiniteSets

CONSTANTS
  Pushers,     \* one element per push call made on the buffer
  Quorum       \* how many submissions close the batch early

VARIABLES
  collecting,  \* TRUE until the batch is sealed
  accepted,    \* the push calls whose delta is in the batch
  outcome      \* why the batch was sealed, or "none"

batchVars == <<collecting, accepted, outcome>>

BatchInit ==
  /\ collecting = TRUE
  /\ accepted = {}
  /\ outcome = "none"

\* A submission joins the batch while it is still open.
Accept(p) ==
  /\ collecting
  /\ p \notin accepted
  /\ accepted' = accepted \cup {p}
  /\ UNCHANGED <<collecting, outcome>>

\* The batch closes for good: early once a quorum of submissions is in it,
\* or because the wait ran out, with whatever has arrived.
Seal(reason) ==
  /\ collecting
  /\ reason = "Quorum" => Cardinality(accepted) >= Quorum
  /\ collecting' = FALSE
  /\ outcome' = reason
  /\ UNCHANGED accepted

BatchNext ==
  \/ \E p \in Pushers : Accept(p)
  \/ \E reason \in {"Quorum", "Timeout"} : Seal(reason)

BatchSpec == BatchInit /\ [][BatchNext]_batchVars
=============================================================================
