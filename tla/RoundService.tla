---------------------------- MODULE RoundService ----------------------------
(***************************************************************************)
(* What the round loop promises the fleet.  There is a round number and    *)
(* updates are taken only while the round is open.  The number moves       *)
(* forward by one when a round that was open completes, stays when an      *)
(* attempt fails, and starts again at 1 with a new process.  RoundLoop     *)
(* implements this; Federation composes it with the clients and nodes.     *)
(***************************************************************************)
EXTENDS Naturals

VARIABLES
  round,   \* AppState.round
  phase    \* between rounds, open for updates, working on a batch, stopped

Init == round = 1 /\ phase = "between"

Open == phase = "between" /\ phase' = "open" /\ UNCHANGED round

\* Quorum or deadline: the buffer closes.
Flush == phase = "open" /\ phase' = "working" /\ UNCHANGED round

Complete == phase = "working" /\ phase' = "between" /\ round' = round + 1

\* A transient error: the same round number will be tried again.
Fail == phase \in {"open", "working"} /\ phase' = "between" /\ UNCHANGED round

\* The loop exits: asked to between rounds, or for good on a fatal error.
Stop == phase # "stopped" /\ phase' = "stopped" /\ UNCHANGED round

Restart == phase' = "between" /\ round' = 1

Next == Open \/ Flush \/ Complete \/ Fail \/ Stop \/ Restart

Spec == Init /\ [][Next]_<<round, phase>>
=============================================================================
