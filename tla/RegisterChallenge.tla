-------------------------- MODULE RegisterChallenge --------------------------
(* The registration handshake and the budget of unapproved leases a source may     *)
(* hold: the challenge route issues a challenge, publishes the identity's access    *)
(* and only then counts (cmd/relay-server/policy/mux.go, portal/lease.go            *)
(* issueRegisterChallenge, refuseChallengeOverBudget); the register route uses the  *)
(* challenge, suspends the identity, enters the lease and publishes again           *)
(* (consumeVerifiedRegisterChallenge, HandleRegister). Every step is one critical   *)
(* section of the registry; a challenge is the number of the request that asked for *)
(* it. How a decision is published is LeaseAccess's subject: here it is one step.   *)
EXTENDS Naturals, FiniteSets

CONSTANTS Keys, Sources, MaxChallenges, PerSource, Outstanding, Budget

VARIABLES
  pc,        \* the challenge request: none, issued, denied, published, answered, refused, failed
  key, src,  \* its identity and its source address
  held,      \* challenges in the table
  expired,   \* challenges past their lifetime
  reg,       \* the registration that used it: none, used, suspended, entered, done, failed
  from,      \* the address the registration came from
  lease,     \* the source the lease of an identity is charged to
  approved,  \* the relay's decision
  blocked,   \* leaseRegistry.blocked
  missed     \* history: holders a passing check could not see, per source

vars == <<pc, key, src, held, expired, reg, from, lease, approved, blocked, missed>>

Ids == 1..MaxChallenges
NoKey == "none"
NoSource == "none"

Init ==
  /\ pc = [c \in Ids |-> "none"]
  /\ key = [c \in Ids |-> NoKey] /\ src = [c \in Ids |-> NoSource]
  /\ held = {} /\ expired = {}
  /\ reg = [c \in Ids |-> "none"] /\ from = [c \in Ids |-> NoSource]
  /\ lease = [k \in Keys |-> NoSource]
  /\ approved \in SUBSET Keys /\ blocked = {}
  /\ missed = [s \in Sources |-> {}]

challengeVars == <<pc, key, src>>
regVars == <<reg, from, lease>>

-----------------------------------------------------------------------------
(* The challenge route                                                            *)

(* issueRegisterChallenge drops the expired ones, then counts the rest.            *)
Issue(c, k, s) ==
  /\ pc[c] = "none" /\ \A d \in Ids : d < c => pc[d] # "none"
  /\ LET alive == held \ expired IN
       \/ /\ Cardinality({d \in alive : src[d] = s}) < PerSource
          /\ Cardinality(alive) < Outstanding
          /\ held' = alive \cup {c} /\ pc' = [pc EXCEPT ![c] = "issued"]
       \/ /\ \/ Cardinality({d \in alive : src[d] = s}) >= PerSource
             \/ Cardinality(alive) >= Outstanding
          /\ held' = alive /\ pc' = [pc EXCEPT ![c] = "denied"]
  /\ key' = [key EXCEPT ![c] = k] /\ src' = [src EXCEPT ![c] = s]
  /\ UNCHANGED <<expired, regVars, approved, blocked, missed>>

Projected(k) == IF k \in approved THEN blocked \ {k} ELSE blocked \cup {k}

(* publishAccess, whatever the outcome of the issue; it may fail, answered 503.     *)
Publish(c) ==
  /\ pc[c] \in {"issued", "denied"}
  /\ pc' = [pc EXCEPT ![c] = IF @ = "issued" THEN "published" ELSE "failed"]
  /\ blocked' = Projected(key[c])
  /\ UNCHANGED <<key, src, held, expired, regVars, approved, missed>>

PublishFails(c) ==
  /\ pc[c] \in {"issued", "denied"} /\ pc' = [pc EXCEPT ![c] = "failed"]
  /\ UNCHANGED <<key, src, held, expired, regVars, approved, blocked, missed>>

(* Who else holds a challenge or a lease charged to the source, without approval.   *)
LeasesOnly(k, s) == {j \in Keys \ {k} : lease[j] = s} \cap blocked   \* Mutant: challenges do not count
Holders(k, s) ==
  ({key[d] : d \in {d \in held \ expired : src[d] = s}}
     \cup {j \in Keys : lease[j] = s}) \cap (blocked \ {k})

UnderWay(s) ==
  {key[d] : d \in {d \in Ids : src[d] = s /\ reg[d] \in {"used", "suspended"}}}
    \cup {key[d] : d \in {d \in held : src[d] = s /\ pc[d] \in {"issued", "failed"}}}

(* refuseChallengeOverBudget takes the refused challenge back.                     *)
TakeBack(c) == held \ {c}

CheckBudget(c) ==
  /\ pc[c] = "published"
  /\ LET s == src[c]  k == key[c] IN
       IF k \in blocked /\ Cardinality(Holders(k, s)) >= Budget
         THEN /\ pc' = [pc EXCEPT ![c] = "refused"] /\ held' = TakeBack(c)
              /\ UNCHANGED missed
         ELSE /\ pc' = [pc EXCEPT ![c] = "answered"]
              /\ missed' = [missed EXCEPT ![s] = @ \cup (UnderWay(s) \ {k})]
              /\ UNCHANGED held
  /\ UNCHANGED <<key, src, expired, regVars, approved, blocked>>

ChallengeExpires(c) ==
  /\ c \in held \ expired /\ expired' = expired \cup {c}
  /\ UNCHANGED <<challengeVars, held, regVars, approved, blocked, missed>>

-----------------------------------------------------------------------------
(* The register route; the request may come from any address.                      *)

Usable(c) == pc[c] = "answered" /\ c \in held

Use(c, s) ==
  /\ Usable(c) /\ reg[c] \in {"none", "done", "failed"}
  /\ IF c \in expired
       THEN UNCHANGED <<reg, from>>
       ELSE reg' = [reg EXCEPT ![c] = "used"] /\ from' = [from EXCEPT ![c] = s]
  /\ held' = held \ {c}
  /\ UNCHANGED <<challengeVars, expired, lease, approved, blocked, missed>>

Suspend(c) ==
  /\ reg[c] = "used" /\ reg' = [reg EXCEPT ![c] = "suspended"]
  /\ blocked' = blocked \cup {key[c]}
  /\ UNCHANGED <<challengeVars, held, expired, from, lease, approved, missed>>

(* The lease is charged to the source that asked for the challenge.                *)
ChargedTo(c) == from[c]                     \* Mutant: to the address that registers
Charged(c) == src[c]

Enter(c) ==
  /\ reg[c] = "suspended"
  /\ \/ /\ reg' = [reg EXCEPT ![c] = "entered"]
        /\ lease' = [lease EXCEPT ![key[c]] = Charged(c)]
     \/ /\ reg' = [reg EXCEPT ![c] = "failed"] /\ UNCHANGED lease
        \* refused by Register: a hostname, a port or a cap
  /\ UNCHANGED <<challengeVars, held, expired, from, approved, blocked, missed>>

PublishRegistered(c) ==
  /\ reg[c] \in {"entered", "failed"} /\ reg' = [reg EXCEPT ![c] = "done"]
  /\ blocked' \in {Projected(key[c]), blocked}       \* the publication may fail
  /\ UNCHANGED <<challengeVars, held, expired, from, lease, approved, missed>>

-----------------------------------------------------------------------------
(* The lease ends by itself or by its owner; the relay decides.                    *)

LeaseEnds(k) ==
  /\ lease[k] # NoSource /\ lease' = [lease EXCEPT ![k] = NoSource]
  /\ UNCHANGED <<challengeVars, held, expired, reg, from, approved, blocked, missed>>

Approve(k) ==
  /\ k \notin approved /\ approved' = approved \cup {k} /\ blocked' = blocked \ {k}
  /\ UNCHANGED <<challengeVars, held, expired, regVars, missed>>

(* A decision taken back charges what the identity holds to its sources at once.   *)
Revoke(k) ==
  /\ k \in approved /\ approved' = approved \ {k} /\ blocked' = blocked \cup {k}
  /\ missed' = [s \in Sources |-> missed[s] \cup {k}]
  /\ UNCHANGED <<challengeVars, held, expired, regVars>>

Next ==
  \/ \E c \in Ids :
       \/ \E k \in Keys, s \in Sources : Issue(c, k, s)
       \/ \E s \in Sources : Use(c, s)
       \/ Publish(c) \/ PublishFails(c) \/ CheckBudget(c) \/ ChallengeExpires(c)
       \/ Suspend(c) \/ Enter(c) \/ PublishRegistered(c)
  \/ \E k \in Keys : LeaseEnds(k) \/ Approve(k) \/ Revoke(k)

Spec == Init /\ [][Next]_vars

-----------------------------------------------------------------------------
TypeOK ==
  /\ pc \in [Ids -> {"none", "issued", "denied", "published", "answered", "refused", "failed"}]
  /\ held \subseteq Ids /\ expired \subseteq Ids
  /\ reg \in [Ids -> {"none", "used", "suspended", "entered", "done", "failed"}]
  /\ lease \in [Keys -> Sources \cup {NoSource}]
  /\ approved \subseteq Keys /\ blocked \subseteq Keys
  /\ missed \in [Sources -> SUBSET Keys]

(* A source holds unapproved leases and answered challenges for no more identities  *)
(* than its budget, but for the identities whose registration or whose challenge    *)
(* was under way when another was let through, and those whose approval was taken   *)
(* back (lease.go:385 "Concurrent registrations can overshoot the limit by the few  *)
(* that pass between a challenge being used and its lease being recorded").         *)
BudgetHolds ==
  \A s \in Sources :
    Cardinality({k \in Keys \ (approved \cup missed[s]) :
                   \/ lease[k] = s
                   \/ \E c \in held \ expired : key[c] = k /\ src[c] = s /\ pc[c] = "answered"})
      <= Budget
=============================================================================
