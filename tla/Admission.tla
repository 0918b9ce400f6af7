------------------------------ MODULE Admission ------------------------------
(***************************************************************************)
(* Who is in the client registry: the Register and Heartbeat RPCs of the   *)
(* dispatcher, the operator's HTTP surface, the node allow-list, and the   *)
(* registry itself, in process memory or in Redis.                         *)
(*                                                                         *)
(* An RPC is split at its awaits.  The in-memory backends do their work    *)
(* under a mutex in one step.  A Redis command carries the clock the       *)
(* server read before sending it, and may fail before or after Redis       *)
(* applied it.  A client has one call in flight.  A token is its subject   *)
(* and its expiry; a forged one is a token no key verifies.                *)
(***************************************************************************)
EXTENDS Naturals, FiniteSets

CONSTANTS
  Clients,
  Tokens,       \* what clients send as auth_token
  Fingerprints, \* digests of peer certificates
  NoCert,       \* no peer certificate on the connection
  Leeway,       \* how long past its expiry a token is taken: Validation::new's default
  Ttl,          \* client_registry_ttl
  MaxTime,      \* bound: the clock
  MaxEdits,     \* bound: changes of the allow-list
  MaxRestarts   \* bound: restarts of the server

ASSUME AdmissionAssumption ==
  /\ \A t \in Tokens : t.exp \in Nat /\ t.genuine \in BOOLEAN
  /\ NoCert \notin Fingerprints
  /\ Leeway \in Nat /\ Ttl \in Nat /\ MaxTime \in Nat /\ MaxEdits \in Nat /\ MaxRestarts \in Nat

VARIABLES
  policy,    \* redis, verifyTokens and requireNodeAuth, fixed at start-up
  now,       \* the clock
  allowed,   \* the allow-list: client |-> the identity it must present
  known,     \* the registry: client |-> its last heartbeat
  call,      \* the RPC each client has in flight, or its answer
  sweep,     \* evict_expired in flight: the cutoff it was given
  entry,     \* how each client in the registry came to be there
  alive,     \* when each client's last acknowledged check-in began
  edits, restarts

admissionVars == <<policy, now, allowed, known, call, sweep, entry, alive, edits, restarts>>

Never == MaxTime + 1
NoSweep == Never
Identity == [kind : {"cert"}, value : Fingerprints] \cup [kind : {"token"}, value : Tokens]
NoCall == [stage |-> "idle", answer |-> "none", presents |-> [kind |-> "none"],
           began |-> 0, stamp |-> 0, vouched |-> FALSE, missed |-> FALSE]

AdmissionTypeOK ==
  /\ DOMAIN allowed \subseteq Clients /\ \A c \in DOMAIN allowed : allowed[c] \in Identity
  /\ DOMAIN known \subseteq Clients /\ \A c \in DOMAIN known : known[c] \in 0 .. MaxTime
  /\ \A c \in Clients : call[c].stage \in {"idle", "check", "register", "beat", "score"}
  /\ sweep \in 0 .. Never

AdmissionInit ==
  /\ policy \in [redis : BOOLEAN, verifyTokens : BOOLEAN, requireNodeAuth : BOOLEAN]
  /\ now = 0
  /\ allowed = [c \in {} |-> NoCall.presents] /\ known = [c \in {} |-> 0]
  /\ call = [c \in Clients |-> NoCall] /\ sweep = NoSweep
  /\ entry = [c \in Clients |-> "none"] /\ alive = [c \in Clients |-> Never]
  /\ edits = 0 /\ restarts = 0

-----------------------------------------------------------------------------
(* The two gates of the Register RPC *)

\* verify_token_for_client: the signature, the expiry with the library's
\* leeway, and the subject.
TokenVerifies(c, token) == token.genuine /\ now <= token.exp + Leeway /\ token.sub = c

\* The proof the connection carries: the peer certificate before the token.
Presented(token, cert) ==
  IF cert # NoCert THEN [kind |-> "cert", value |-> cert]
                   ELSE [kind |-> "token", value |-> token]

\* NodeIdentity::matches, of the entry for this client in a given allow-list.
Vouches(list, c, identity) == c \in DOMAIN list /\ list[c] = identity

Begin(c, fields) ==
  /\ call[c].stage = "idle"
  /\ call' = [call EXCEPT ![c] = fields]

Answering(c, answer) == [NoCall EXCEPT !.answer = answer, !.missed = call[c].missed]

\* register: the token is verified before anything is awaited.
BeginRegister(c, token, cert) ==
  /\ LET identity == Presented(token, cert)
     IN  Begin(c, IF policy.verifyTokens /\ ~TokenVerifies(c, token)
                    THEN [NoCall EXCEPT !.answer = "Unauthenticated"]
                    ELSE [NoCall EXCEPT
                            !.stage = IF policy.requireNodeAuth THEN "check" ELSE "register",
                            !.presents = identity, !.began = now, !.stamp = now,
                            !.vouched = Vouches(allowed, c, identity)])
  /\ UNCHANGED <<policy, now, allowed, known, sweep, entry, alive, edits, restarts>>

\* Mutation: an allow-list that cannot be reached lets the client through.
CheckAllowed_FailsOpen(c) ==
  /\ call[c].stage = "check"
  /\ \/ /\ Vouches(allowed, c, call[c].presents) \/ policy.redis
        /\ call' = [call EXCEPT ![c].stage = "register", ![c].stamp = now]
     \/ /\ ~Vouches(allowed, c, call[c].presents)
        /\ call' = [call EXCEPT ![c] = Answering(c, "NotAllowed")]
  /\ UNCHANGED <<policy, now, allowed, known, sweep, entry, alive, edits, restarts>>

\* node_allowlist.check(..).await?, then on to the registry.
CheckAllowed(c) ==
  /\ call[c].stage = "check"
  /\ \/ /\ Vouches(allowed, c, call[c].presents)
        /\ call' = [call EXCEPT ![c].stage = "register", ![c].stamp = now]
     \/ /\ ~Vouches(allowed, c, call[c].presents)
        /\ call' = [call EXCEPT ![c] = Answering(c, "NotAllowed")]
     \/ /\ policy.redis
        /\ call' = [call EXCEPT ![c] = Answering(c, "Other")]
  /\ UNCHANGED <<policy, now, allowed, known, sweep, entry, alive, edits, restarts>>

-----------------------------------------------------------------------------
(* The registry *)

Seen(c, at) == [d \in DOMAIN known \cup {c} |-> IF d = c THEN at ELSE known[d]]

\* The clock an entry gets: read under the mutex, or sent with the command.
Stamp(c) == IF policy.redis THEN call[c].stamp ELSE now

\* Registry::register (ZADD NX CH in Redis): a client that is there already
\* keeps the heartbeat it has and is answered as accepted all the same.
RegisterKnown(c) ==
  /\ call[c].stage = "register"
  /\ \/ /\ c \in DOMAIN known
        /\ call' = [call EXCEPT ![c] = Answering(c, "already registered")]
        /\ UNCHANGED <<known, entry, alive>>
     \/ /\ c \notin DOMAIN known
        /\ known' = Seen(c, Stamp(c))
        /\ entry' = [entry EXCEPT ![c] = IF call[c].vouched THEN "vouched" ELSE "unvouched"]
        /\ \/ /\ call' = [call EXCEPT ![c] = Answering(c, "registered")]
              /\ alive' = [alive EXCEPT ![c] = call[c].began]
           \/ /\ policy.redis
              /\ call' = [call EXCEPT ![c] = Answering(c, "Other")]
              /\ UNCHANGED alive
     \/ /\ policy.redis
        /\ call' = [call EXCEPT ![c] = Answering(c, "Other")]
        /\ UNCHANGED <<known, entry, alive>>
  /\ UNCHANGED <<policy, now, allowed, sweep, edits, restarts>>

BeginHeartbeat(c) ==
  /\ Begin(c, [NoCall EXCEPT !.stage = "beat", !.began = now, !.stamp = now,
                             !.missed = c \notin DOMAIN known])
  /\ UNCHANGED <<policy, now, allowed, known, sweep, entry, alive, edits, restarts>>

Acknowledge(c) ==
  /\ call' = [call EXCEPT ![c] = Answering(c, "acknowledged")]
  /\ alive' = [alive EXCEPT ![c] = IF c \in DOMAIN known THEN call[c].began ELSE @]

\* Mutation: a score that did not change is taken for a missing member.
Unchanged_IsMissing(c) ==
  /\ call' = [call EXCEPT ![c] = Answering(c, "UnknownClient")]
  /\ UNCHANGED alive

\* ZADD reported no change: ask for the score before giving the client up.
Unchanged(c) == call' = [call EXCEPT ![c].stage = "score"] /\ UNCHANGED alive

\* Registry::heartbeat.  In Redis ZADD XX CH reports a change of score, which
\* there is none of when two heartbeats fall in the same millisecond.
Heartbeat(c) ==
  /\ call[c].stage = "beat"
  /\ \/ /\ c \in DOMAIN known /\ ~(policy.redis /\ known[c] = Stamp(c))
        /\ known' = Seen(c, Stamp(c))
        /\ Acknowledge(c)
     \/ /\ policy.redis
        /\ c \in DOMAIN known => known[c] = Stamp(c)
        /\ Unchanged(c)
        /\ UNCHANGED known
     \/ /\ ~policy.redis /\ c \notin DOMAIN known
        /\ call' = [call EXCEPT ![c] = Answering(c, "UnknownClient")]
        /\ UNCHANGED <<known, alive>>
     \/ /\ policy.redis
        /\ known' \in {known} \cup (IF c \in DOMAIN known THEN {Seen(c, Stamp(c))} ELSE {})
        /\ call' = [call EXCEPT ![c] = Answering(c, "Other")]
        /\ UNCHANGED alive
  /\ UNCHANGED <<policy, now, allowed, sweep, entry, edits, restarts>>

\* ZSCORE: the client is there after all, or is not.
AskScore(c) ==
  /\ call[c].stage = "score"
  /\ \/ c \in DOMAIN known /\ Acknowledge(c)
     \/ /\ c \notin DOMAIN known
        /\ call' = [call EXCEPT ![c] = Answering(c, "UnknownClient")]
        /\ UNCHANGED alive
     \/ call' = [call EXCEPT ![c] = Answering(c, "Other")] /\ UNCHANGED alive
  /\ UNCHANGED <<policy, now, allowed, known, sweep, entry, edits, restarts>>

Drop(gone) ==
  /\ known' = [c \in DOMAIN known \ gone |-> known[c]]
  /\ entry' = [c \in Clients |-> IF c \in gone THEN "none" ELSE entry[c]]
  /\ call' = [c \in Clients |-> IF c \in gone THEN [call[c] EXCEPT !.missed = TRUE] ELSE call[c]]

\* Older than the cutoff, or exactly that old.
Expired(at, cutoff) == at <= cutoff

\* evict_expired: in memory at once; in Redis the cutoff is worked out first
\* and ZREMRANGEBYSCORE applied later, or lost (the sweep is best effort).
BeginSweep ==
  /\ sweep = NoSweep
  /\ now >= Ttl
  /\ sweep' = now - Ttl
  /\ UNCHANGED <<policy, now, allowed, known, call, entry, alive, edits, restarts>>

EvictExpired ==
  /\ sweep # NoSweep
  /\ sweep' = NoSweep
  /\ \/ Drop({c \in DOMAIN known :
                Expired(known[c], IF policy.redis THEN sweep ELSE now - Ttl)})
     \/ policy.redis /\ UNCHANGED <<known, entry, call>>
  /\ UNCHANGED <<policy, now, allowed, alive, edits, restarts>>

-----------------------------------------------------------------------------
(* The operator *)

Edited(list) ==
  /\ edits < MaxEdits /\ edits' = edits + 1
  /\ allowed' = list
  /\ call' = [c \in Clients |->
                [call[c] EXCEPT !.vouched = @ \/ Vouches(list, c, call[c].presents)]]
  /\ UNCHANGED <<policy, now, known, sweep, entry, alive, restarts>>

\* POST /admin/allowlist: a new identity replaces the one there was.
AllowNode(c, identity) ==
  Edited([d \in DOMAIN allowed \cup {c} |-> IF d = c THEN identity ELSE allowed[d]])

\* DELETE /admin/allowlist/{client_id}: the registry is not told.
RevokeNode(c) == Edited([d \in DOMAIN allowed \ {c} |-> allowed[d]])

\* POST /clients/register, behind the admin token: neither gate applies.
HttpRegister(c) ==
  /\ c \notin DOMAIN known
  /\ known' = Seen(c, now)
  /\ entry' = [entry EXCEPT ![c] = "operator"]
  /\ UNCHANGED <<policy, now, allowed, call, sweep, alive, edits, restarts>>

-----------------------------------------------------------------------------
Tick ==
  /\ now < MaxTime /\ now' = now + 1
  /\ UNCHANGED <<policy, allowed, known, call, sweep, entry, alive, edits, restarts>>

\* A new process: calls are lost, and what was in memory with them.
RestartServer ==
  /\ restarts < MaxRestarts /\ restarts' = restarts + 1
  /\ sweep' = NoSweep
  /\ call' = [c \in Clients |-> NoCall]
  /\ IF policy.redis THEN UNCHANGED <<allowed, known, entry, alive>>
     ELSE /\ allowed' = [c \in {} |-> NoCall.presents] /\ known' = [c \in {} |-> 0]
          /\ entry' = [c \in Clients |-> "none"] /\ alive' = [c \in Clients |-> Never]
  /\ UNCHANGED <<policy, now, edits>>

AdmissionNext ==
  \/ \E c \in Clients :
       \/ \E token \in Tokens, cert \in Fingerprints \cup {NoCert} :
            BeginRegister(c, token, cert)
       \/ CheckAllowed(c) \/ RegisterKnown(c)
       \/ BeginHeartbeat(c) \/ Heartbeat(c) \/ AskScore(c)
       \/ \E identity \in Identity : AllowNode(c, identity)
       \/ RevokeNode(c) \/ HttpRegister(c)
  \/ BeginSweep \/ EvictExpired
  \/ Tick \/ RestartServer

AdmissionSpec == AdmissionInit /\ [][AdmissionNext]_admissionVars

-----------------------------------------------------------------------------
\* With require_node_auth on, nobody enters the registry through the Register
\* RPC unless the allow-list vouched for the identity presented at some moment
\* of that call: not when the list is edited meanwhile, not when Redis fails
\* (register's check before the registry is touched).
AdmittedWereVouched ==
  policy.requireNodeAuth => \A c \in DOMAIN known : entry[c] # "unvouched"

\* A client whose check-in was acknowledged stays registered for the whole
\* TTL, and a heartbeat is answered with UnknownClient only if the client was
\* missing at some moment of the call: not because two heartbeats fell in one
\* millisecond or a sweep was slow (heartbeat_at, evict_expired).
LiveClientKept ==
  \A c \in Clients :
    /\ alive[c] # Never /\ now < alive[c] + Ttl => c \in DOMAIN known
    /\ call[c].answer = "UnknownClient" => call[c].missed

-----------------------------------------------------------------------------
(* The inductive invariants behind them *)

Call == [stage : {"idle", "check", "register", "beat", "score"},
         answer : {"none", "Unauthenticated", "NotAllowed", "Other", "UnknownClient",
                   "registered", "already registered", "acknowledged"},
         presents : Identity \cup {NoCall.presents}, began : Nat, stamp : Nat,
         vouched : BOOLEAN, missed : BOOLEAN]

RegistryTypeInv ==
  /\ policy \in [redis : BOOLEAN, verifyTokens : BOOLEAN, requireNodeAuth : BOOLEAN]
  /\ now \in Nat /\ sweep \in Nat
  /\ DOMAIN known \subseteq Clients /\ \A c \in DOMAIN known : known[c] \in Nat
  /\ call \in [Clients -> Call]
  /\ entry \in [Clients -> {"none", "vouched", "unvouched", "operator"}]
  /\ alive \in [Clients -> Nat]

\* Every clock value in use was read before now.
ClockInv ==
  /\ now <= MaxTime
  /\ sweep = NoSweep \/ sweep + Ttl <= now
  /\ \A c \in DOMAIN known : known[c] <= now
  /\ \A c \in Clients : call[c].began <= call[c].stamp /\ call[c].stamp <= now
  /\ \A c \in Clients : alive[c] = Never \/ alive[c] <= now

\* A call that has passed the allow-list, or would pass it now, was vouched for.
VouchedInv ==
  policy.requireNodeAuth =>
    \A c \in Clients :
      /\ call[c].stage = "register" => call[c].vouched
      /\ call[c].stage = "check" /\ Vouches(allowed, c, call[c].presents) => call[c].vouched
      /\ entry[c] # "unvouched"

\* The entry of a client within its TTL is as recent as its last acknowledged
\* check-in, which its call in flight does not precede; a heartbeat on its way
\* to a client that is not there knows that it went missing.
FreshAt(c) ==
  /\ alive[c] # Never /\ now < alive[c] + Ttl => c \in DOMAIN known /\ known[c] >= alive[c]
  /\ alive[c] # Never /\ call[c].stage # "idle" => alive[c] <= call[c].began
  /\ call[c].stage = "score" /\ c \in DOMAIN known => known[c] >= call[c].began
  /\ call[c].stage \in {"beat", "score"} /\ c \notin DOMAIN known => call[c].missed
  /\ call[c].answer = "UnknownClient" => call[c].missed

FreshInv == \A c \in Clients : FreshAt(c)

RegistryInv == RegistryTypeInv /\ ClockInv /\ VouchedInv /\ FreshInv
=============================================================================
