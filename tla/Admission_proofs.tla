--------------------------- MODULE Admission_proofs ---------------------------
(***************************************************************************)
(* Proofs about the client registry and its allow-list, for any clients,   *)
(* tokens and certificates, any TTL, and any number of edits, restarts and *)
(* ticks of the clock.                                                     *)
(***************************************************************************)
EXTENDS Admission, TLAPS

\* The constants' types, in the form the steps below use.
LEMMA RegistryConstants ==
  /\ Ttl \in Nat /\ MaxTime \in Nat /\ Never \in Nat /\ Never = MaxTime + 1 /\ NoSweep = Never
BY AdmissionAssumption DEF Never, NoSweep

\* A call that is idle, and an answered one.
LEMMA IdleCalls ==
  /\ NoCall \in Call
  /\ NoCall.stage = "idle" /\ NoCall.answer = "none" /\ NoCall.began = 0 /\ NoCall.stamp = 0
  /\ ~NoCall.vouched /\ ~NoCall.missed
BY DEF NoCall, Call

\* What a call answers with, field by field.
LEMMA AnsweringCall ==
  ASSUME NEW c \in Clients, call \in [Clients -> Call],
         NEW a \in {"NotAllowed", "Other", "UnknownClient", "registered",
                    "already registered", "acknowledged"}
  PROVE  /\ Answering(c, a) \in Call
         /\ Answering(c, a).stage = "idle" /\ Answering(c, a).answer = a
         /\ Answering(c, a).began = 0 /\ Answering(c, a).stamp = 0
         /\ Answering(c, a).missed = call[c].missed
<1>1. call[c].missed \in BOOLEAN
  BY DEF Call
<1> QED
  BY <1>1 DEF Answering, NoCall, Call

\* The proof a connection carries is an identity the allow-list can hold.
LEMMA PresentedType ==
  ASSUME NEW token \in Tokens, NEW cert \in Fingerprints \cup {NoCert}
  PROVE  Presented(token, cert) \in Identity
BY DEF Presented, Identity

\* The initial state has the invariant.
LEMMA InitRegistryInv == AdmissionInit => RegistryInv
<1> SUFFICES ASSUME AdmissionInit PROVE RegistryInv
  OBVIOUS
<1> USE RegistryConstants, IdleCalls DEF AdmissionInit
<1>1. RegistryTypeInv
  BY DEF RegistryTypeInv
<1>4. ClockInv
  BY DEF ClockInv
<1>2. VouchedInv
  BY DEF VouchedInv
<1>3. FreshInv
  BY DEF FreshInv, FreshAt
<1> QED
  BY <1>1, <1>2, <1>3, <1>4 DEF RegistryInv

-----------------------------------------------------------------------------
\* A step of AdmissionNext is one of these.
LEMMA AdmissionCases ==
  ASSUME [AdmissionNext]_admissionVars
  PROVE  \/ \E c \in Clients, token \in Tokens, cert \in Fingerprints \cup {NoCert} :
              BeginRegister(c, token, cert)
         \/ \E c \in Clients : \/ CheckAllowed(c) \/ RegisterKnown(c) \/ BeginHeartbeat(c)
                               \/ Heartbeat(c) \/ AskScore(c) \/ HttpRegister(c)
         \/ \E c \in Clients : (\E identity \in Identity : AllowNode(c, identity)) \/ RevokeNode(c)
         \/ BeginSweep \/ EvictExpired \/ Tick \/ RestartServer \/ UNCHANGED admissionVars
BY DEF AdmissionNext

\* An edit of the allow-list changes the calls' memory of having been vouched
\* for, and nothing else of the registry.
LEMMA EditEffect ==
  ASSUME RegistryTypeInv, NEW c \in Clients,
         (\E identity \in Identity : AllowNode(c, identity)) \/ RevokeNode(c)
  PROVE  /\ call' \in [Clients -> Call]
         /\ \A d \in Clients :
              /\ call'[d].stage = call[d].stage /\ call'[d].answer = call[d].answer
              /\ call'[d].presents = call[d].presents
              /\ call'[d].began = call[d].began /\ call'[d].stamp = call[d].stamp
              /\ call'[d].missed = call[d].missed
              /\ call'[d].vouched = (call[d].vouched \/ Vouches(allowed', d, call[d].presents))
         /\ UNCHANGED <<policy, now, known, sweep, entry, alive>>
<1>1. PICK list : Edited(list)
  BY DEF AllowNode, RevokeNode
<1>2. \A d \in Clients : call[d] \in Call
  BY DEF RegistryTypeInv
<1>3. \A d \in Clients : Vouches(list, d, call[d].presents) \in BOOLEAN
  BY DEF Vouches
<1> QED
  BY <1>1, <1>2, <1>3 DEF Edited, Call

\* Evicting clients marks their calls and nothing else of them.
LEMMA DropEffect ==
  ASSUME RegistryTypeInv, NEW gone, Drop(gone)
  PROVE  /\ call' \in [Clients -> Call]
         /\ \A d \in Clients :
              /\ call'[d].stage = call[d].stage /\ call'[d].answer = call[d].answer
              /\ call'[d].presents = call[d].presents /\ call'[d].vouched = call[d].vouched
              /\ call'[d].began = call[d].began /\ call'[d].stamp = call[d].stamp
              /\ call'[d].missed = (call[d].missed \/ d \in gone)
<1>1. \A d \in Clients : call[d] \in Call
  BY DEF RegistryTypeInv
<1> QED
  BY <1>1 DEF Drop, Call

\* Replacing one call by another changes that call only.
LEMMA ReplaceCall ==
  ASSUME RegistryTypeInv, NEW c \in Clients, NEW new \in Call, call' = [call EXCEPT ![c] = new]
  PROVE  /\ call' \in [Clients -> Call] /\ call'[c] = new
         /\ \A d \in Clients : d # c => call'[d] = call[d]
BY DEF RegistryTypeInv

\* A client's call is over: what is left is its answer.
LEMMA AnsweredEffect ==
  ASSUME RegistryTypeInv, NEW c \in Clients,
         NEW a \in {"NotAllowed", "Other", "UnknownClient", "registered",
                    "already registered", "acknowledged"},
         call' = [call EXCEPT ![c] = Answering(c, a)]
  PROVE  /\ call' \in [Clients -> Call] /\ \A d \in Clients : d # c => call'[d] = call[d]
         /\ call'[c].stage = "idle" /\ call'[c].answer = a
         /\ call'[c].began = 0 /\ call'[c].stamp = 0 /\ call'[c].missed = call[c].missed
<1>1. call \in [Clients -> Call]
  BY DEF RegistryTypeInv
<1> QED
  BY <1>1, AnsweringCall, ReplaceCall

\* The fields of a new call to register, whatever the token check says.
LEMMA BeginRegisterEffect ==
  ASSUME RegistryTypeInv, NEW c \in Clients, NEW token \in Tokens,
         NEW cert \in Fingerprints \cup {NoCert}, BeginRegister(c, token, cert)
  PROVE  /\ call' \in [Clients -> Call] /\ \A d \in Clients : d # c => call'[d] = call[d]
         /\ call[c].stage = "idle" /\ call'[c].answer # "UnknownClient"
         /\ \/ call'[c].stage = "idle" /\ call'[c].began = 0 /\ call'[c].stamp = 0
            \/ /\ call'[c].stage \in {"check", "register"}
               /\ policy.requireNodeAuth => call'[c].stage = "check"
               /\ call'[c].began = now /\ call'[c].stamp = now
               /\ call'[c].vouched = Vouches(allowed, c, call'[c].presents)
<1>1. Presented(token, cert) \in Identity /\ now \in Nat
  BY PresentedType DEF RegistryTypeInv
<1>2. Vouches(allowed, c, Presented(token, cert)) \in BOOLEAN
  BY DEF Vouches
<1>3. CASE policy.verifyTokens /\ ~TokenVerifies(c, token)
  <2> DEFINE new == [NoCall EXCEPT !.answer = "Unauthenticated"]
  <2>1. /\ new \in Call /\ new.stage = "idle" /\ new.answer = "Unauthenticated"
        /\ new.began = 0 /\ new.stamp = 0
    BY DEF NoCall, Call
  <2>2. call[c].stage = "idle" /\ call' = [call EXCEPT ![c] = new]
    BY <1>3 DEF BeginRegister, Begin
  <2> HIDE DEF new
  <2> QED
    BY <2>1, <2>2, ReplaceCall
<1>4. CASE ~(policy.verifyTokens /\ ~TokenVerifies(c, token))
  <2> DEFINE identity == Presented(token, cert)
             new == [NoCall EXCEPT !.stage = IF policy.requireNodeAuth THEN "check" ELSE "register",
                                   !.presents = identity, !.began = now, !.stamp = now,
                                   !.vouched = Vouches(allowed, c, identity)]
  <2>1. /\ new \in Call /\ new.answer = "none"
        /\ new.stage = IF policy.requireNodeAuth THEN "check" ELSE "register"
        /\ new.began = now /\ new.stamp = now
        /\ new.presents = identity /\ new.vouched = Vouches(allowed, c, identity)
    BY <1>1, <1>2 DEF NoCall, Call
  <2>2. call[c].stage = "idle" /\ call' = [call EXCEPT ![c] = new]
    BY <1>4 DEF BeginRegister, Begin
  <2> HIDE DEF new
  <2> QED
    BY <2>1, <2>2, ReplaceCall
<1> QED
  BY <1>3, <1>4

\* The fields of a new heartbeat.
LEMMA BeginHeartbeatEffect ==
  ASSUME RegistryTypeInv, NEW c \in Clients, BeginHeartbeat(c)
  PROVE  /\ call' \in [Clients -> Call] /\ \A d \in Clients : d # c => call'[d] = call[d]
         /\ call[c].stage = "idle"
         /\ call'[c].stage = "beat" /\ call'[c].answer = "none"
         /\ call'[c].began = now /\ call'[c].stamp = now
         /\ call'[c].missed = (c \notin DOMAIN known)
<1> DEFINE new == [NoCall EXCEPT !.stage = "beat", !.began = now, !.stamp = now,
                                 !.missed = c \notin DOMAIN known]
<1>1. /\ new \in Call /\ new.stage = "beat" /\ new.answer = "none"
      /\ new.began = now /\ new.stamp = now /\ new.missed = (c \notin DOMAIN known)
  BY DEF RegistryTypeInv, NoCall, Call
<1>2. call[c].stage = "idle" /\ call' = [call EXCEPT ![c] = new]
  BY DEF BeginHeartbeat, Begin
<1> HIDE DEF new
<1> QED
  BY <1>1, <1>2, ReplaceCall

\* A call let through by the allow-list goes on with a new clock reading.
LEMMA PassedEffect ==
  ASSUME RegistryTypeInv, NEW c \in Clients,
         call' = [call EXCEPT ![c].stage = "register", ![c].stamp = now]
  PROVE  /\ call' \in [Clients -> Call] /\ \A d \in Clients : d # c => call'[d] = call[d]
         /\ call'[c].stage = "register" /\ call'[c].stamp = now
         /\ call'[c].answer = call[c].answer /\ call'[c].began = call[c].began
         /\ call'[c].missed = call[c].missed /\ call'[c].vouched = call[c].vouched
<1> DEFINE new == [call[c] EXCEPT !.stage = "register", !.stamp = now]
<1>1. call[c] \in Call /\ now \in Nat
  BY DEF RegistryTypeInv
<1>2. call' = [call EXCEPT ![c] = new]
  BY DEF RegistryTypeInv
<1>3. /\ new \in Call /\ new.stage = "register" /\ new.stamp = now
      /\ new.answer = call[c].answer /\ new.began = call[c].began
      /\ new.missed = call[c].missed /\ new.vouched = call[c].vouched
  BY <1>1 DEF Call
<1> HIDE DEF new
<1> QED
  BY <1>2, <1>3, ReplaceCall

\* A heartbeat that changed nothing asks for the score.
LEMMA UnchangedEffect ==
  ASSUME RegistryTypeInv, NEW c \in Clients, Unchanged(c)
  PROVE  /\ call' \in [Clients -> Call] /\ \A d \in Clients : d # c => call'[d] = call[d]
         /\ call'[c].stage = "score" /\ call'[c].stamp = call[c].stamp
         /\ call'[c].answer = call[c].answer /\ call'[c].began = call[c].began
         /\ call'[c].missed = call[c].missed
         /\ UNCHANGED alive
<1> DEFINE new == [call[c] EXCEPT !.stage = "score"]
<1>1. call[c] \in Call
  BY DEF RegistryTypeInv
<1>2. call' = [call EXCEPT ![c] = new] /\ UNCHANGED alive
  BY DEF RegistryTypeInv, Unchanged
<1>3. /\ new \in Call /\ new.stage = "score" /\ new.stamp = call[c].stamp
      /\ new.answer = call[c].answer /\ new.began = call[c].began
      /\ new.missed = call[c].missed
  BY <1>1 DEF Call
<1> HIDE DEF new
<1> QED
  BY <1>2, <1>3, ReplaceCall

\* The registry after a client was seen: its entry is there with that clock
\* value, and the others are as they were.
Renewed(c, at) ==
  /\ DOMAIN known' = DOMAIN known \cup {c} /\ known'[c] = at
  /\ \A d \in DOMAIN known : d # c => known'[d] = known[d]

LEMMA SeenEffect ==
  ASSUME NEW c \in Clients, NEW at, known' = Seen(c, at)
  PROVE  Renewed(c, at)
BY DEF Renewed, Seen

\* A renewed registry is still one of clients and clock values read by now.
LEMMA RenewedTypes ==
  ASSUME RegistryTypeInv, ClockInv, NEW c \in Clients, NEW at \in Nat, at <= now, Renewed(c, at)
  PROVE  /\ DOMAIN known' \subseteq Clients
         /\ \A d \in DOMAIN known' : known'[d] \in Nat /\ known'[d] <= now
<1>1. DOMAIN known' \subseteq Clients
  BY DEF Renewed, RegistryTypeInv
<1>2. ASSUME NEW d \in DOMAIN known' PROVE known'[d] \in Nat /\ known'[d] <= now
  <2>1. CASE d = c
    BY <2>1 DEF Renewed
  <2>2. CASE d # c
    BY <2>2 DEF Renewed, RegistryTypeInv, ClockInv
  <2> QED
    BY <2>1, <2>2
<1> QED
  BY <1>1, <1>2

\* The clock an entry gets is one this call has read.
LEMMA StampType ==
  ASSUME RegistryTypeInv, ClockInv, NEW c \in Clients
  PROVE  /\ Stamp(c) \in Nat /\ call[c].began \in Nat /\ call[c].stamp \in Nat
         /\ call[c].began <= Stamp(c) /\ Stamp(c) <= now
         /\ policy.redis => Stamp(c) = call[c].stamp
<1>1. call[c] \in Call /\ now \in Nat
  BY DEF RegistryTypeInv
<1>2. call[c].began \in Nat /\ call[c].stamp \in Nat
  BY <1>1 DEF Call
<1> QED
  BY <1>1, <1>2 DEF ClockInv, Stamp

\* What a call answered by the registry leaves behind.
LEMMA RegisterKnownEffect ==
  ASSUME RegistryTypeInv, ClockInv, NEW c \in Clients, RegisterKnown(c)
  PROVE  /\ call[c].stage = "register"
         /\ call' \in [Clients -> Call] /\ \A d \in Clients : d # c => call'[d] = call[d]
         /\ call'[c].stage = "idle" /\ call'[c].answer # "UnknownClient"
         /\ call'[c].began = 0 /\ call'[c].stamp = 0
         /\ \/ UNCHANGED <<known, entry, alive>>
            \/ /\ c \notin DOMAIN known /\ Renewed(c, Stamp(c))
               /\ entry' = [entry EXCEPT ![c] = IF call[c].vouched THEN "vouched" ELSE "unvouched"]
               /\ alive' = alive \/ alive' = [alive EXCEPT ![c] = call[c].began]
         /\ UNCHANGED <<policy, now, allowed, sweep>>
<1>1. \E a \in {"registered", "already registered", "Other"} :
        call' = [call EXCEPT ![c] = Answering(c, a)]
  BY DEF RegisterKnown
<1>2. /\ call' \in [Clients -> Call] /\ \A d \in Clients : d # c => call'[d] = call[d]
      /\ call'[c].stage = "idle" /\ call'[c].answer # "UnknownClient"
      /\ call'[c].began = 0 /\ call'[c].stamp = 0
  BY <1>1, AnsweredEffect
<1> QED
  BY <1>2, SeenEffect DEF RegisterKnown

\* What an acknowledged check-in leaves behind.
LEMMA AcknowledgeEffect ==
  ASSUME RegistryTypeInv, NEW c \in Clients, Acknowledge(c), c \in DOMAIN known
  PROVE  /\ call' \in [Clients -> Call] /\ \A d \in Clients : d # c => call'[d] = call[d]
         /\ call'[c].stage = "idle" /\ call'[c].answer = "acknowledged"
         /\ call'[c].began = 0 /\ call'[c].stamp = 0
         /\ alive' = [alive EXCEPT ![c] = call[c].began]
<1>1. call' = [call EXCEPT ![c] = Answering(c, "acknowledged")]
  BY DEF Acknowledge
<1> QED
  BY <1>1, AnsweredEffect DEF Acknowledge

\* The outcomes of a heartbeat: entry renewed and acknowledged, score asked
\* for, client unknown, or the connection lost with or without the renewal.
LEMMA HeartbeatEffect ==
  ASSUME RegistryTypeInv, ClockInv, NEW c \in Clients, Heartbeat(c)
  PROVE  /\ call[c].stage = "beat"
         /\ call' \in [Clients -> Call] /\ \A d \in Clients : d # c => call'[d] = call[d]
         /\ \/ /\ c \in DOMAIN known /\ Renewed(c, Stamp(c))
               /\ call'[c].stage = "idle" /\ call'[c].answer = "acknowledged"
               /\ call'[c].began = 0 /\ call'[c].stamp = 0
               /\ alive' = [alive EXCEPT ![c] = call[c].began]
            \/ /\ c \in DOMAIN known => known[c] = Stamp(c)
               /\ call'[c].stage = "score" /\ call'[c].answer = call[c].answer
               /\ call'[c].began = call[c].began /\ call'[c].stamp = call[c].stamp
               /\ call'[c].missed = call[c].missed
               /\ UNCHANGED <<known, alive>>
            \/ /\ c \notin DOMAIN known
               /\ call'[c].stage = "idle" /\ call'[c].answer = "UnknownClient"
               /\ call'[c].began = 0 /\ call'[c].stamp = 0 /\ call'[c].missed = call[c].missed
               /\ UNCHANGED <<known, alive>>
            \/ /\ known' = known \/ (c \in DOMAIN known /\ Renewed(c, Stamp(c)))
               /\ call'[c].stage = "idle" /\ call'[c].answer = "Other"
               /\ call'[c].began = 0 /\ call'[c].stamp = 0
               /\ UNCHANGED alive
         /\ UNCHANGED <<policy, now, allowed, sweep, entry>>
<1>1. CASE c \in DOMAIN known /\ known' = Seen(c, Stamp(c)) /\ Acknowledge(c)
  BY <1>1, AcknowledgeEffect, SeenEffect DEF Heartbeat
<1>2. CASE (c \in DOMAIN known => known[c] = Stamp(c)) /\ Unchanged(c) /\ UNCHANGED known
  BY <1>2, UnchangedEffect DEF Heartbeat
<1>3. CASE /\ c \notin DOMAIN known /\ UNCHANGED <<known, alive>>
           /\ call' = [call EXCEPT ![c] = Answering(c, "UnknownClient")]
  BY <1>3, AnsweredEffect DEF Heartbeat
<1>4. CASE /\ known' \in {known} \cup (IF c \in DOMAIN known THEN {Seen(c, Stamp(c))} ELSE {})
           /\ call' = [call EXCEPT ![c] = Answering(c, "Other")] /\ UNCHANGED alive
  BY <1>4, AnsweredEffect, SeenEffect DEF Heartbeat
<1> QED
  BY <1>1, <1>2, <1>3, <1>4 DEF Heartbeat

\* The outcomes of asking for the score.
LEMMA AskScoreEffect ==
  ASSUME RegistryTypeInv, ClockInv, NEW c \in Clients, AskScore(c)
  PROVE  /\ call[c].stage = "score"
         /\ call' \in [Clients -> Call] /\ \A d \in Clients : d # c => call'[d] = call[d]
         /\ call'[c].stage = "idle" /\ call'[c].began = 0 /\ call'[c].stamp = 0
         /\ \/ /\ c \in DOMAIN known /\ call'[c].answer = "acknowledged"
               /\ alive' = [alive EXCEPT ![c] = call[c].began]
            \/ /\ c \notin DOMAIN known /\ UNCHANGED alive
               /\ call'[c].answer = "UnknownClient" /\ call'[c].missed = call[c].missed
            \/ call'[c].answer = "Other" /\ UNCHANGED alive
         /\ UNCHANGED <<policy, now, allowed, known, sweep, entry>>
<1>1. CASE c \in DOMAIN known /\ Acknowledge(c)
  BY <1>1, AcknowledgeEffect DEF AskScore
<1>2. CASE /\ c \notin DOMAIN known /\ UNCHANGED alive
           /\ call' = [call EXCEPT ![c] = Answering(c, "UnknownClient")]
  BY <1>2, AnsweredEffect DEF AskScore
<1>3. CASE call' = [call EXCEPT ![c] = Answering(c, "Other")] /\ UNCHANGED alive
  BY <1>3, AnsweredEffect DEF AskScore
<1> QED
  BY <1>1, <1>2, <1>3 DEF AskScore

\* An operator's registration.
LEMMA HttpRegisterEffect ==
  ASSUME RegistryTypeInv, NEW c \in Clients, HttpRegister(c)
  PROVE  /\ c \notin DOMAIN known /\ Renewed(c, now)
         /\ entry' = [entry EXCEPT ![c] = "operator"]
         /\ UNCHANGED <<policy, now, allowed, call, sweep, alive>>
BY SeenEffect DEF HttpRegister

\* A sweep takes out entries a whole TTL old, or nothing.
LEMMA EvictEffect ==
  ASSUME RegistryTypeInv, ClockInv, EvictExpired
  PROVE  \E gone \in SUBSET DOMAIN known :
           /\ DOMAIN known' = DOMAIN known \ gone
           /\ \A d \in DOMAIN known' : known'[d] = known[d]
           /\ \A d \in gone : known[d] + Ttl <= now
           /\ call' \in [Clients -> Call]
           /\ \A d \in Clients :
                /\ call'[d].stage = call[d].stage /\ call'[d].answer = call[d].answer
                /\ call'[d].presents = call[d].presents /\ call'[d].vouched = call[d].vouched
                /\ call'[d].began = call[d].began /\ call'[d].stamp = call[d].stamp
                /\ call'[d].missed = (call[d].missed \/ d \in gone)
           /\ entry' \in [Clients -> {"none", "vouched", "unvouched", "operator"}]
           /\ \A d \in Clients : entry'[d] = "none" \/ entry'[d] = entry[d]
           /\ sweep' = NoSweep /\ UNCHANGED <<policy, now, allowed, alive>>
<1>1. CASE UNCHANGED <<known, entry, call>>
  <2>1. \A d \in Clients : call[d].missed \in BOOLEAN
    BY DEF RegistryTypeInv, Call
  <2>2. {} \in SUBSET DOMAIN known /\ DOMAIN known = DOMAIN known \ {}
    OBVIOUS
  <2>3. \A d \in Clients : call[d].missed = (call[d].missed \/ d \in {})
    BY <2>1
  <2>4. /\ call' = call /\ entry' = entry /\ known' = known /\ sweep' = NoSweep
        /\ UNCHANGED <<policy, now, allowed, alive>>
    BY <1>1 DEF EvictExpired
  <2>5. /\ call \in [Clients -> Call]
        /\ entry \in [Clients -> {"none", "vouched", "unvouched", "operator"}]
    BY DEF RegistryTypeInv
  <2>6. \A d \in {} : known[d] + Ttl <= now
    OBVIOUS
  <2> QED
    BY <2>2, <2>3, <2>4, <2>5, <2>6, Zenon
<1>2. CASE Drop({c \in DOMAIN known : Expired(known[c], IF policy.redis THEN sweep ELSE now - Ttl)})
  <2> DEFINE cutoff == IF policy.redis THEN sweep ELSE now - Ttl
             gone == {c \in DOMAIN known : Expired(known[c], cutoff)}
  <2>1. now \in Nat /\ sweep \in Nat /\ sweep + Ttl <= now
    BY DEF EvictExpired, RegistryTypeInv, ClockInv
  <2>2. cutoff \in Nat /\ cutoff + Ttl <= now
    BY <2>1, RegistryConstants
  <2> HIDE DEF cutoff
  <2>3. \A d \in gone : known[d] + Ttl <= now
    BY <2>1, <2>2, RegistryConstants DEF Expired, RegistryTypeInv
  <2>4. gone \in SUBSET DOMAIN known
    OBVIOUS
  <2>5. Drop(gone)
    BY <1>2 DEF cutoff
  <2> HIDE DEF gone
  <2>6. /\ DOMAIN known' = DOMAIN known \ gone
        /\ \A d \in DOMAIN known' : known'[d] = known[d]
        /\ entry' \in [Clients -> {"none", "vouched", "unvouched", "operator"}]
        /\ \A d \in Clients : entry'[d] = "none" \/ entry'[d] = entry[d]
        /\ sweep' = NoSweep /\ UNCHANGED <<policy, now, allowed, alive>>
    BY <2>5 DEF Drop, EvictExpired, RegistryTypeInv
  <2> QED
    BY <2>3, <2>4, <2>5, <2>6, DropEffect
<1> QED
  BY <1>1, <1>2 DEF EvictExpired

\* The clock values of a call.
LEMMA CallClocks ==
  ASSUME NEW f \in [Clients -> Call]
  PROVE  \A d \in Clients : f[d].began \in Nat /\ f[d].stamp \in Nat
BY DEF Call

\* What CheckAllowed does to the call.
LEMMA CheckAllowedEffect ==
  ASSUME RegistryTypeInv, NEW c \in Clients, CheckAllowed(c)
  PROVE  /\ call[c].stage = "check"
         /\ call' \in [Clients -> Call] /\ \A d \in Clients : d # c => call'[d] = call[d]
         /\ \/ /\ call'[c].stage = "idle" /\ call'[c].answer \in {"NotAllowed", "Other"}
               /\ call'[c].began = 0 /\ call'[c].stamp = 0
            \/ /\ Vouches(allowed, c, call[c].presents)
               /\ call'[c].stage = "register" /\ call'[c].answer = call[c].answer
               /\ call'[c].began = call[c].began /\ call'[c].stamp = now
               /\ call'[c].missed = call[c].missed /\ call'[c].vouched = call[c].vouched
         /\ UNCHANGED <<policy, now, allowed, known, sweep, entry, alive>>
<1>1. CASE call' = [call EXCEPT ![c] = Answering(c, "NotAllowed")]
  BY <1>1, AnsweredEffect DEF CheckAllowed
<1>2. CASE call' = [call EXCEPT ![c] = Answering(c, "Other")]
  BY <1>2, AnsweredEffect DEF CheckAllowed
<1>3. CASE /\ Vouches(allowed, c, call[c].presents)
           /\ call' = [call EXCEPT ![c].stage = "register", ![c].stamp = now]
  BY <1>3, PassedEffect DEF CheckAllowed
<1> QED
  BY <1>1, <1>2, <1>3 DEF CheckAllowed

-----------------------------------------------------------------------------
\* Every step keeps the types.
LEMMA RegistryTypeStep ==
  ASSUME RegistryInv, [AdmissionNext]_admissionVars
  PROVE  RegistryTypeInv'
<1> USE RegistryConstants DEF RegistryInv
<1>1. ASSUME NEW c \in Clients, NEW token \in Tokens, NEW cert \in Fingerprints \cup {NoCert},
             BeginRegister(c, token, cert)
      PROVE  RegistryTypeInv'
  BY <1>1, BeginRegisterEffect DEF BeginRegister, RegistryTypeInv
<1>2. ASSUME NEW c \in Clients, CheckAllowed(c) PROVE RegistryTypeInv'
  BY <1>2, CheckAllowedEffect DEF RegistryTypeInv
<1>3. ASSUME NEW c \in Clients, RegisterKnown(c) PROVE RegistryTypeInv'
  <2>1. DOMAIN known' \subseteq Clients /\ \A d \in DOMAIN known' : known'[d] \in Nat
    BY <1>3, RegisterKnownEffect, StampType, RenewedTypes DEF RegistryTypeInv
  <2>2. entry' \in [Clients -> {"none", "vouched", "unvouched", "operator"}]
    BY <1>3, RegisterKnownEffect DEF RegistryTypeInv
  <2>3. alive' \in [Clients -> Nat]
    BY <1>3, RegisterKnownEffect, StampType DEF RegistryTypeInv
  <2> QED
    BY <1>3, RegisterKnownEffect, <2>1, <2>2, <2>3 DEF RegistryTypeInv
<1>4. ASSUME NEW c \in Clients, BeginHeartbeat(c) PROVE RegistryTypeInv'
  BY <1>4, BeginHeartbeatEffect DEF BeginHeartbeat, RegistryTypeInv
<1>5. ASSUME NEW c \in Clients, Heartbeat(c) PROVE RegistryTypeInv'
  <2>1. DOMAIN known' \subseteq Clients /\ \A d \in DOMAIN known' : known'[d] \in Nat
    BY <1>5, HeartbeatEffect, StampType, RenewedTypes DEF RegistryTypeInv
  <2>2. alive' \in [Clients -> Nat]
    BY <1>5, HeartbeatEffect, StampType DEF RegistryTypeInv
  <2> QED
    BY <1>5, HeartbeatEffect, <2>1, <2>2 DEF RegistryTypeInv
<1>6. ASSUME NEW c \in Clients, AskScore(c) PROVE RegistryTypeInv'
  BY <1>6, AskScoreEffect, StampType DEF RegistryTypeInv
<1>7. ASSUME NEW c \in Clients, HttpRegister(c) PROVE RegistryTypeInv'
  <2>1. DOMAIN known' \subseteq Clients /\ \A d \in DOMAIN known' : known'[d] \in Nat
    BY <1>7, HttpRegisterEffect, RenewedTypes DEF RegistryTypeInv
  <2>2. entry' \in [Clients -> {"none", "vouched", "unvouched", "operator"}]
    BY <1>7, HttpRegisterEffect DEF RegistryTypeInv
  <2> QED
    BY <1>7, HttpRegisterEffect, <2>1, <2>2 DEF RegistryTypeInv
<1>8. ASSUME NEW c \in Clients,
             (\E identity \in Identity : AllowNode(c, identity)) \/ RevokeNode(c)
      PROVE  RegistryTypeInv'
  BY <1>8, EditEffect DEF RegistryTypeInv
<1>9. ASSUME BeginSweep PROVE RegistryTypeInv'
  BY <1>9 DEF BeginSweep, RegistryTypeInv
<1>10. ASSUME EvictExpired PROVE RegistryTypeInv'
  BY <1>10, EvictEffect DEF RegistryTypeInv
<1>11. ASSUME Tick PROVE RegistryTypeInv'
  BY <1>11 DEF Tick, RegistryTypeInv
<1>12. ASSUME RestartServer PROVE RegistryTypeInv'
  BY <1>12, IdleCalls DEF RestartServer, RegistryTypeInv
<1>13. ASSUME UNCHANGED admissionVars
      PROVE  RegistryTypeInv'
  BY <1>13 DEF admissionVars, RegistryTypeInv
<1> QED
  BY <1>1, <1>2, <1>3, <1>4, <1>5, <1>6, <1>7, <1>8, <1>9, <1>10, <1>11, <1>12, <1>13, AdmissionCases

\* No step puts a clock value ahead of the clock.
LEMMA ClockStep ==
  ASSUME RegistryInv, [AdmissionNext]_admissionVars
  PROVE  ClockInv'
<1> USE RegistryConstants DEF RegistryInv
<1>0. call \in [Clients -> Call] /\ call' \in [Clients -> Call]
  BY RegistryTypeStep DEF RegistryTypeInv
<1>1. ASSUME NEW c \in Clients, NEW token \in Tokens, NEW cert \in Fingerprints \cup {NoCert},
             BeginRegister(c, token, cert)
      PROVE  ClockInv'
  <2>1. \A d \in DOMAIN known' : known'[d] <= now
    BY <1>1, BeginRegisterEffect DEF ClockInv, BeginRegister, BeginHeartbeat
  <2>2. \A d \in Clients : call'[d].began <= call'[d].stamp /\ call'[d].stamp <= now
    BY <1>1, BeginRegisterEffect DEF ClockInv, RegistryTypeInv
  <2>3. \A d \in Clients : alive'[d] = Never \/ alive'[d] <= now
    BY <1>1, BeginRegisterEffect, StampType DEF ClockInv, RegistryTypeInv, BeginRegister, BeginHeartbeat
  <2> QED
    BY <1>1, BeginRegisterEffect, <2>1, <2>2, <2>3 DEF ClockInv, BeginRegister, BeginHeartbeat
<1>2. ASSUME NEW c \in Clients, CheckAllowed(c) PROVE ClockInv'
  BY <1>0, CallClocks, <1>2, CheckAllowedEffect DEF ClockInv, RegistryTypeInv
<1>3. ASSUME NEW c \in Clients, RegisterKnown(c) PROVE ClockInv'
  <2>1. \A d \in DOMAIN known' : known'[d] <= now
    BY <1>3, RegisterKnownEffect, RenewedTypes, StampType DEF ClockInv, RegistryTypeInv
  <2>2. \A d \in Clients : call'[d].began <= call'[d].stamp /\ call'[d].stamp <= now
    BY <1>3, RegisterKnownEffect DEF ClockInv, RegistryTypeInv
  <2>3. \A d \in Clients : alive'[d] = Never \/ alive'[d] <= now
    BY <1>3, RegisterKnownEffect, StampType DEF ClockInv, RegistryTypeInv, BeginRegister, BeginHeartbeat
  <2> QED
    BY <1>3, RegisterKnownEffect, <2>1, <2>2, <2>3 DEF ClockInv, BeginRegister, BeginHeartbeat
<1>4. ASSUME NEW c \in Clients, BeginHeartbeat(c) PROVE ClockInv'
  <2>1. \A d \in DOMAIN known' : known'[d] <= now
    BY <1>4, BeginHeartbeatEffect DEF ClockInv, BeginRegister, BeginHeartbeat
  <2>2. \A d \in Clients : call'[d].began <= call'[d].stamp /\ call'[d].stamp <= now
    BY <1>4, BeginHeartbeatEffect DEF ClockInv, RegistryTypeInv
  <2>3. \A d \in Clients : alive'[d] = Never \/ alive'[d] <= now
    BY <1>4, BeginHeartbeatEffect, StampType DEF ClockInv, RegistryTypeInv, BeginRegister, BeginHeartbeat
  <2> QED
    BY <1>4, BeginHeartbeatEffect, <2>1, <2>2, <2>3 DEF ClockInv, BeginRegister, BeginHeartbeat
<1>5. ASSUME NEW c \in Clients, Heartbeat(c) PROVE ClockInv'
  <2>1. \A d \in DOMAIN known' : known'[d] <= now
    BY <1>5, HeartbeatEffect, RenewedTypes, StampType DEF ClockInv, RegistryTypeInv
  <2>2. \A d \in Clients : call'[d].began <= call'[d].stamp /\ call'[d].stamp <= now
    BY <1>5, HeartbeatEffect DEF ClockInv, RegistryTypeInv
  <2>3. \A d \in Clients : alive'[d] = Never \/ alive'[d] <= now
    BY <1>5, HeartbeatEffect, StampType DEF ClockInv, RegistryTypeInv, BeginRegister, BeginHeartbeat
  <2> QED
    BY <1>5, HeartbeatEffect, <2>1, <2>2, <2>3 DEF ClockInv, BeginRegister, BeginHeartbeat
<1>6. ASSUME NEW c \in Clients, AskScore(c) PROVE ClockInv'
  BY <1>0, CallClocks, <1>6, AskScoreEffect, StampType DEF ClockInv, RegistryTypeInv
<1>7. ASSUME NEW c \in Clients, HttpRegister(c) PROVE ClockInv'
  <2>1. \A d \in DOMAIN known' : known'[d] <= now
    BY <1>7, HttpRegisterEffect, RenewedTypes, StampType DEF ClockInv, RegistryTypeInv
  <2>2. \A d \in Clients : call'[d].began <= call'[d].stamp /\ call'[d].stamp <= now
    BY <1>7, HttpRegisterEffect DEF ClockInv, RegistryTypeInv
  <2>3. \A d \in Clients : alive'[d] = Never \/ alive'[d] <= now
    BY <1>7, HttpRegisterEffect, StampType DEF ClockInv, RegistryTypeInv, BeginRegister, BeginHeartbeat
  <2> QED
    BY <1>7, HttpRegisterEffect, <2>1, <2>2, <2>3 DEF ClockInv, BeginRegister, BeginHeartbeat
<1>8. ASSUME NEW c \in Clients,
             (\E identity \in Identity : AllowNode(c, identity)) \/ RevokeNode(c)
      PROVE  ClockInv'
  BY <1>0, CallClocks, <1>8, EditEffect DEF ClockInv, RegistryTypeInv
<1>9. ASSUME BeginSweep PROVE ClockInv'
  BY <1>0, CallClocks, <1>9 DEF BeginSweep, ClockInv, RegistryTypeInv
<1>10. ASSUME EvictExpired PROVE ClockInv'
  BY <1>0, CallClocks, <1>10, EvictEffect DEF ClockInv, RegistryTypeInv
<1>11. ASSUME Tick PROVE ClockInv'
  BY <1>0, CallClocks, <1>11 DEF Tick, ClockInv, RegistryTypeInv
<1>12. ASSUME RestartServer PROVE ClockInv'
  BY <1>0, CallClocks, <1>12, IdleCalls DEF RestartServer, ClockInv, RegistryTypeInv
<1>13. ASSUME UNCHANGED admissionVars
      PROVE  ClockInv'
  BY <1>0, CallClocks, <1>13 DEF admissionVars, ClockInv, RegistryTypeInv
<1> QED
  BY <1>1, <1>2, <1>3, <1>4, <1>5, <1>6, <1>7, <1>8, <1>9, <1>10, <1>11, <1>12, <1>13, AdmissionCases

\* No step lets an unvouched call past the allow-list.
LEMMA VouchedStep ==
  ASSUME RegistryInv, [AdmissionNext]_admissionVars
  PROVE  VouchedInv'
<1> USE RegistryConstants DEF RegistryInv
<1>1. ASSUME NEW c \in Clients, NEW token \in Tokens, NEW cert \in Fingerprints \cup {NoCert},
             BeginRegister(c, token, cert)
      PROVE  VouchedInv'
  BY <1>1, BeginRegisterEffect DEF BeginRegister, VouchedInv, RegistryTypeInv
<1>2. ASSUME NEW c \in Clients, CheckAllowed(c) PROVE VouchedInv'
  BY <1>2, CheckAllowedEffect DEF VouchedInv, RegistryTypeInv
<1>3. ASSUME NEW c \in Clients, RegisterKnown(c) PROVE VouchedInv'
  <2>1. policy.requireNodeAuth => call[c].vouched
    BY <1>3, RegisterKnownEffect DEF VouchedInv
  <2>2. policy.requireNodeAuth => \A d \in Clients : entry'[d] # "unvouched"
    BY <1>3, RegisterKnownEffect, <2>1 DEF VouchedInv, RegistryTypeInv
  <2> QED
    BY <1>3, RegisterKnownEffect, <2>2 DEF VouchedInv
<1>4. ASSUME NEW c \in Clients, BeginHeartbeat(c) PROVE VouchedInv'
  BY <1>4, BeginHeartbeatEffect DEF BeginHeartbeat, VouchedInv, RegistryTypeInv
<1>5. ASSUME NEW c \in Clients, Heartbeat(c) PROVE VouchedInv'
  BY <1>5, HeartbeatEffect, StampType DEF Renewed, VouchedInv, RegistryTypeInv
<1>6. ASSUME NEW c \in Clients, AskScore(c) PROVE VouchedInv'
  BY <1>6, AskScoreEffect, StampType DEF VouchedInv, RegistryTypeInv
<1>7. ASSUME NEW c \in Clients, HttpRegister(c) PROVE VouchedInv'
  BY <1>7, HttpRegisterEffect DEF Renewed, VouchedInv, RegistryTypeInv
<1>8. ASSUME NEW c \in Clients,
             (\E identity \in Identity : AllowNode(c, identity)) \/ RevokeNode(c)
      PROVE  VouchedInv'
  BY <1>8, EditEffect DEF VouchedInv, RegistryTypeInv
<1>9. ASSUME BeginSweep PROVE VouchedInv'
  BY <1>9 DEF BeginSweep, VouchedInv, RegistryTypeInv
<1>10. ASSUME EvictExpired PROVE VouchedInv'
  BY <1>10, EvictEffect DEF VouchedInv, RegistryTypeInv
<1>11. ASSUME Tick PROVE VouchedInv'
  BY <1>11 DEF Tick, VouchedInv, RegistryTypeInv
<1>12. ASSUME RestartServer PROVE VouchedInv'
  BY <1>12, IdleCalls DEF RestartServer, VouchedInv, RegistryTypeInv
<1>13. ASSUME UNCHANGED admissionVars
      PROVE  VouchedInv'
  BY <1>13 DEF admissionVars, VouchedInv, RegistryTypeInv
<1> QED
  BY <1>1, <1>2, <1>3, <1>4, <1>5, <1>6, <1>7, <1>8, <1>9, <1>10, <1>11, <1>12, <1>13, AdmissionCases

\* A step that leaves a client's own state alone.
LEMMA FreshElsewhere ==
  ASSUME NEW d \in Clients, FreshAt(d), now' = now,
         call'[d] = call[d], alive'[d] = alive[d],
         d \in DOMAIN known' <=> d \in DOMAIN known, d \in DOMAIN known => known'[d] = known[d]
  PROVE  FreshAt(d)'
BY DEF FreshAt

\* No step loses a client within its TTL or answers a wrong UnknownClient.
LEMMA FreshStep ==
  ASSUME RegistryInv, [AdmissionNext]_admissionVars
  PROVE  FreshInv'
<1> USE RegistryConstants DEF RegistryInv
<1>0. call \in [Clients -> Call] /\ call' \in [Clients -> Call]
  BY RegistryTypeStep DEF RegistryTypeInv
<1>1. ASSUME NEW c \in Clients, NEW token \in Tokens, NEW cert \in Fingerprints \cup {NoCert},
             BeginRegister(c, token, cert)
      PROVE  FreshInv'
  BY <1>1, BeginRegisterEffect DEF BeginRegister, FreshInv, FreshAt, ClockInv, RegistryTypeInv
<1>2. ASSUME NEW c \in Clients, CheckAllowed(c) PROVE FreshInv'
  BY <1>2, CheckAllowedEffect DEF FreshInv, FreshAt, ClockInv, RegistryTypeInv
<1>3. ASSUME NEW c \in Clients, RegisterKnown(c) PROVE FreshInv'
  <2> SUFFICES ASSUME NEW d \in Clients PROVE FreshAt(d)'
    BY DEF FreshInv
  <2>1. FreshAt(d)
    BY DEF FreshInv
  <2>2. CASE d # c
    <3>1. call'[d] = call[d] /\ alive'[d] = alive[d] /\ now' = now
      BY <1>3, RegisterKnownEffect, <2>2 DEF RegistryTypeInv
    <3>2. /\ d \in DOMAIN known' <=> d \in DOMAIN known
          /\ d \in DOMAIN known => known'[d] = known[d]
      <4>1. known' = known \/ Renewed(c, Stamp(c))
        BY <1>3, RegisterKnownEffect
      <4> QED
        BY <2>2, <4>1 DEF Renewed
    <3> QED
      BY <2>1, <3>1, <3>2, FreshElsewhere
  <2>3. CASE d = c
    <3>1. alive[c] \in Nat /\ now \in Nat /\ call[c].began \in Nat /\ Stamp(c) \in Nat
      BY StampType DEF RegistryTypeInv
    <3>2. CASE UNCHANGED <<known, entry, alive>>
      BY <1>3, RegisterKnownEffect, <2>1, <2>3, <3>2 DEF FreshAt
    <3>3. CASE c \notin DOMAIN known /\ Renewed(c, Stamp(c)) /\ alive' = alive
      <4>1. alive[c] # Never => ~(now < alive[c] + Ttl)
        BY <2>1, <2>3, <3>3 DEF FreshAt
      <4> QED
        BY <1>3, RegisterKnownEffect, <2>3, <3>3, <4>1 DEF FreshAt
    <3>4. CASE Renewed(c, Stamp(c)) /\ alive' = [alive EXCEPT ![c] = call[c].began]
      <4>1. alive'[c] = call[c].began /\ c \in DOMAIN known' /\ known'[c] = Stamp(c)
        BY <3>4 DEF Renewed, RegistryTypeInv
      <4>2. Stamp(c) >= call[c].began
        BY <3>1, StampType
      <4> QED
        BY <1>3, RegisterKnownEffect, <2>3, <4>1, <4>2 DEF FreshAt
    <3> QED
      BY <1>3, RegisterKnownEffect, <3>2, <3>3, <3>4
  <2> QED
    BY <2>2, <2>3
<1>4. ASSUME NEW c \in Clients, BeginHeartbeat(c) PROVE FreshInv'
  BY <1>4, BeginHeartbeatEffect DEF BeginHeartbeat, FreshInv, FreshAt, ClockInv, RegistryTypeInv
<1>5. ASSUME NEW c \in Clients, Heartbeat(c) PROVE FreshInv'
  <2> SUFFICES ASSUME NEW d \in Clients PROVE FreshAt(d)'
    BY DEF FreshInv
  <2>1. FreshAt(d)
    BY DEF FreshInv
  <2>2. CASE d # c
    <3>1. call'[d] = call[d] /\ alive'[d] = alive[d] /\ now' = now
      BY <1>5, HeartbeatEffect, <2>2 DEF RegistryTypeInv
    <3>2. /\ d \in DOMAIN known' <=> d \in DOMAIN known
          /\ d \in DOMAIN known => known'[d] = known[d]
      BY <1>5, HeartbeatEffect, <2>2 DEF Renewed
    <3> QED
      BY <2>1, <3>1, <3>2, FreshElsewhere
  <2>3. CASE d = c
    <3>1. /\ alive[c] \in Nat /\ now \in Nat /\ call[c].began \in Nat /\ Stamp(c) \in Nat
          /\ call[c].began <= Stamp(c) /\ call[c].stage = "beat" /\ now' = now
      BY <1>5, HeartbeatEffect, StampType DEF RegistryTypeInv
    <3>2. CASE /\ c \in DOMAIN known /\ Renewed(c, Stamp(c))
               /\ call'[c].stage = "idle" /\ call'[c].answer = "acknowledged"
               /\ alive' = [alive EXCEPT ![c] = call[c].began]
      <4>1. alive'[c] = call[c].began /\ c \in DOMAIN known' /\ known'[c] = Stamp(c)
        BY <3>2 DEF Renewed, RegistryTypeInv
      <4> QED
        BY <2>3, <3>1, <3>2, <4>1 DEF FreshAt
    <3>3. CASE /\ c \in DOMAIN known => known[c] = Stamp(c)
               /\ call'[c].stage = "score" /\ call'[c].answer = call[c].answer
               /\ call'[c].began = call[c].began /\ call'[c].missed = call[c].missed
               /\ UNCHANGED <<known, alive>>
      BY <2>1, <2>3, <3>1, <3>3 DEF FreshAt
    <3>4. CASE /\ c \notin DOMAIN known /\ call'[c].stage = "idle"
               /\ call'[c].missed = call[c].missed /\ UNCHANGED <<known, alive>>
      BY <2>1, <2>3, <3>1, <3>4 DEF FreshAt
    <3>5. CASE /\ known' = known \/ (c \in DOMAIN known /\ Renewed(c, Stamp(c)))
               /\ call'[c].stage = "idle" /\ call'[c].answer = "Other" /\ UNCHANGED alive
      <4>1. CASE known' = known
        BY <2>1, <2>3, <3>1, <3>5, <4>1 DEF FreshAt
      <4>2. CASE c \in DOMAIN known /\ Renewed(c, Stamp(c))
        <5>1. c \in DOMAIN known' /\ known'[c] = Stamp(c)
          BY <4>2 DEF Renewed
        <5>2. alive[c] # Never => alive[c] <= Stamp(c)
          BY <2>1, <2>3, <3>1 DEF FreshAt
        <5> QED
          BY <2>3, <3>1, <3>5, <5>1, <5>2 DEF FreshAt
      <4> QED
        BY <3>5, <4>1, <4>2
    <3> QED
      BY <1>5, HeartbeatEffect, <3>2, <3>3, <3>4, <3>5
  <2> QED
    BY <2>2, <2>3
<1>6. ASSUME NEW c \in Clients, AskScore(c) PROVE FreshInv'
  BY <1>6, AskScoreEffect, StampType DEF FreshInv, FreshAt, ClockInv, RegistryTypeInv
<1>7. ASSUME NEW c \in Clients, HttpRegister(c) PROVE FreshInv'
  <2> SUFFICES ASSUME NEW d \in Clients PROVE FreshAt(d)'
    BY DEF FreshInv
  <2>1. FreshAt(d)
    BY DEF FreshInv
  <2>2. CASE d # c
    <3>1. call'[d] = call[d] /\ alive'[d] = alive[d] /\ now' = now
      BY <1>7, HttpRegisterEffect, <2>2 DEF RegistryTypeInv
    <3>2. /\ d \in DOMAIN known' <=> d \in DOMAIN known
          /\ d \in DOMAIN known => known'[d] = known[d]
      BY <1>7, HttpRegisterEffect, <2>2 DEF Renewed
    <3> QED
      BY <2>1, <3>1, <3>2, FreshElsewhere
  <2>3. CASE d = c
    <3>1. /\ alive[c] \in Nat /\ now \in Nat /\ call[c].began \in Nat /\ call[c].stamp \in Nat
          /\ c \notin DOMAIN known /\ UNCHANGED <<now, call, alive>>
      BY <1>7, HttpRegisterEffect, StampType DEF RegistryTypeInv
    <3>2. call[c].began <= now
      BY <3>1 DEF ClockInv
    <3>3. c \in DOMAIN known' /\ known'[c] = now
      BY <1>7, HttpRegisterEffect DEF Renewed
    <3>4. alive[c] # Never => ~(now < alive[c] + Ttl)
      BY <2>1, <2>3, <3>1 DEF FreshAt
    <3> QED
      BY <2>1, <2>3, <3>1, <3>2, <3>3, <3>4 DEF FreshAt
  <2> QED
    BY <2>2, <2>3
<1>8. ASSUME NEW c \in Clients,
             (\E identity \in Identity : AllowNode(c, identity)) \/ RevokeNode(c)
      PROVE  FreshInv'
  BY <1>8, EditEffect DEF FreshInv, FreshAt, ClockInv, RegistryTypeInv
<1>9. ASSUME BeginSweep PROVE FreshInv'
  BY <1>9 DEF BeginSweep, FreshInv, FreshAt, ClockInv, RegistryTypeInv
<1>10. ASSUME EvictExpired PROVE FreshInv'
  <2> SUFFICES ASSUME NEW d \in Clients PROVE FreshAt(d)'
    BY DEF FreshInv
  <2>1. FreshAt(d)
    BY DEF FreshInv
  <2>2. PICK gone \in SUBSET DOMAIN known :
          /\ DOMAIN known' = DOMAIN known \ gone
          /\ \A e \in DOMAIN known' : known'[e] = known[e]
          /\ \A e \in gone : known[e] + Ttl <= now
          /\ call'[d].stage = call[d].stage /\ call'[d].answer = call[d].answer
          /\ call'[d].began = call[d].began
          /\ call'[d].missed = (call[d].missed \/ d \in gone)
          /\ UNCHANGED <<now, alive>>
    BY <1>10, EvictEffect
  <2>3. alive[d] \in Nat /\ now \in Nat /\ call[d].began \in Nat
    BY <1>0, CallClocks DEF RegistryTypeInv
  <2>4. CASE d \in gone
    <3>1. known[d] \in Nat /\ known[d] + Ttl <= now /\ d \in DOMAIN known
      BY <2>2, <2>4 DEF RegistryTypeInv
    <3>2. alive[d] # Never => ~(now < alive[d] + Ttl)
      BY <2>1, <2>3, <3>1 DEF FreshAt
    <3>3. d \notin DOMAIN known' /\ call'[d].missed
      BY <2>2, <2>4
    <3> QED
      BY <2>1, <2>2, <3>2, <3>3 DEF FreshAt
  <2>5. CASE d \notin gone
    <3>1. /\ d \in DOMAIN known' <=> d \in DOMAIN known
          /\ d \in DOMAIN known => known'[d] = known[d]
      BY <2>2, <2>5
    <3>2. call[d].missed => call'[d].missed
      BY <2>2
    <3> QED
      BY <2>1, <2>2, <3>1, <3>2 DEF FreshAt
  <2> QED
    BY <2>4, <2>5
<1>11. ASSUME Tick PROVE FreshInv'
  BY <1>11 DEF Tick, FreshInv, FreshAt, ClockInv, RegistryTypeInv
<1>12. ASSUME RestartServer PROVE FreshInv'
  BY <1>12, IdleCalls DEF RestartServer, FreshInv, FreshAt, ClockInv, RegistryTypeInv
<1>13. ASSUME UNCHANGED admissionVars
      PROVE  FreshInv'
  BY <1>13 DEF admissionVars, FreshInv, FreshAt, ClockInv, RegistryTypeInv
<1> QED
  BY <1>1, <1>2, <1>3, <1>4, <1>5, <1>6, <1>7, <1>8, <1>9, <1>10, <1>11, <1>12, <1>13, AdmissionCases

-----------------------------------------------------------------------------
\* RegistryInv holds in every reachable state.
THEOREM RegistryInvariant == AdmissionSpec => []RegistryInv
<1>1. RegistryInv /\ [AdmissionNext]_admissionVars => RegistryInv'
  BY RegistryTypeStep, ClockStep, VouchedStep, FreshStep DEF RegistryInv
<1> QED
  BY InitRegistryInv, <1>1, PTL DEF AdmissionSpec

\* With require_node_auth on, no client is in the registry whom the allow-list
\* did not vouch for during the Register call that admitted it: whatever the
\* operator edits meanwhile and whenever Redis fails (register's two gates).
THEOREM AdmittedWereVouchedHolds == AdmissionSpec => []AdmittedWereVouched
<1>1. RegistryInv => AdmittedWereVouched
  BY DEF RegistryInv, RegistryTypeInv, VouchedInv, AdmittedWereVouched
<1> QED
  BY <1>1, RegistryInvariant, PTL

\* An acknowledged client is registered for the whole TTL, and only a client
\* that was missing during the call is told UnknownClient (heartbeat_at,
\* evict_expired), for every TTL and every interleaving of sweeps.
THEOREM LiveClientKeptHolds == AdmissionSpec => []LiveClientKept
<1>1. RegistryInv => LiveClientKept
  BY DEF RegistryInv, FreshInv, FreshAt, LiveClientKept
<1> QED
  BY <1>1, RegistryInvariant, PTL
=============================================================================
