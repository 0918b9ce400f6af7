----------------------------- MODULE MCBackends -----------------------------
(* AppState's backends on a small instance.  The store and the registry    *)
(* share no state, so each behaviour exercises one of them and leaves the  *)
(* other as it started.                                                    *)
EXTENDS CheckpointStore, Admission

CONSTANTS c1, c2

VARIABLE exercised

MCTokens ==
  {[sub |-> c1, exp |-> 1, genuine |-> TRUE], [sub |-> c2, exp |-> 3, genuine |-> TRUE],
   [sub |-> c1, exp |-> 3, genuine |-> FALSE]}

Init ==
  /\ StoreInit /\ AdmissionInit
  /\ \/ exercised = "store"
        /\ policy = [redis |-> FALSE, verifyTokens |-> FALSE, requireNodeAuth |-> FALSE]
     \/ exercised = "registry" /\ backend = "memory"

Next ==
  /\ UNCHANGED exercised
  /\ \/ exercised = "store" /\ StoreNext /\ UNCHANGED admissionVars
     \/ exercised = "registry" /\ AdmissionNext /\ UNCHANGED storeVars

Spec == Init /\ [][Next]_<<exercised, storeVars, admissionVars>>

TypeOK == StoreTypeOK /\ AdmissionTypeOK
=============================================================================
