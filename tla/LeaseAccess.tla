---------------------------- MODULE LeaseAccess ----------------------------
(***************************************************************************)
(* How an access decision reaches the leases it is about.  The relay       *)
(* (cmd/relay-server) commits policies with increasing revisions and       *)
(* pushes the result for every identity concerned; each challenge and each *)
(* registration pushes the result for its own identity as well, from a     *)
(* snapshot it took earlier.  Portal (portal/lease.go) keeps the pushed    *)
(* results, refuses a push older than the newest revision it has seen, and *)
(* suspends an identity while it registers.                                *)
(*                                                                         *)
(* A request is a challenge or a registration; a registration is also the  *)
(* lease it may enter into the table.                                      *)
(*                                                                         *)
(* The second part of the module proves, for any number of requests,       *)
(* identities and policy commits, its type, that what the operator refuses *)
(* is not carried, and that leases come under the committed decision.      *)
(***************************************************************************)
EXTENDS Integers, FiniteSets, TLAPS

CONSTANTS
  Requests,
  Keys,
  NoKey,
  MaxRevision,    \* bound on the number of policy commits
  MaxAttempts     \* accessPublishAttempts

ASSUME AccessAssumption ==
  /\ NoKey \notin Keys
  /\ MaxRevision \in Nat
  /\ MaxAttempts \in Nat \ {0}

VARIABLES
  policy,     \* Access.state: the committed AccessState and its revision
  commit,     \* the admin request: idle, committed, pushing
  toPush,     \* identities the commit has still to push
  pc,         \* where each request is
  key,        \* its identity
  registers,  \* the registrations under way
  snapshot,   \* the result and the revision its publishAccess loaded
  attempts,   \* publishAccess iterations begun
  blocked,    \* leaseRegistry.blocked, "routable" for no entry
  fresh,      \* entries pushed less than a challenge lifetime ago
  watermark,  \* leaseRegistry.accessRevision
  records,    \* leases in the table
  expired,    \* leases past their expiry
  paused,     \* leases whose reverse pool is paused
  enabled,    \* leases whose datagram relay is enabled
  revived     \* history: leases renewed after they had expired

request == <<pc, key, registers, snapshot, attempts>>
table == <<records, expired, paused, enabled, revived>>
projection == <<blocked, fresh, watermark>>
vars == <<policy, commit, toPush, request, projection, table>>

Results == {"routable", "pending", "denied"}
NoSnapshot == [access |-> "pending", revision |-> 0]
Policies == [revision : 0..MaxRevision, mode : {"auto", "manual"},
             approved : SUBSET Keys, denied : SUBSET Keys, banned : SUBSET Keys]

TypeOK ==
  /\ policy \in Policies
  /\ commit \in {"idle", "committed", "pushing"}
  /\ toPush \subseteq Keys
  /\ pc \in [Requests -> {"none", "registering", "publishing", "loaded", "done"}]
  /\ key \in [Requests -> Keys \cup {NoKey}]
  /\ registers \subseteq Requests
  /\ snapshot \in [Requests -> [access : Results, revision : 0..MaxRevision]]
  /\ attempts \in [Requests -> 0..MaxAttempts]
  /\ blocked \in [Keys -> Results]
  /\ fresh \subseteq Keys
  /\ watermark \in 0..MaxRevision
  /\ records \subseteq Requests
  /\ expired \subseteq Requests
  /\ paused \subseteq Requests
  /\ enabled \subseteq Requests
  /\ revived \subseteq Requests

Init ==
  /\ policy = [revision |-> 0, mode |-> "auto", approved |-> {}, denied |-> {}, banned |-> {}]
  /\ commit = "idle"
  /\ toPush = {}
  /\ pc = [r \in Requests |-> "none"]
  /\ key = [r \in Requests |-> NoKey]
  /\ registers = {}
  /\ snapshot = [r \in Requests |-> NoSnapshot]
  /\ attempts = [r \in Requests |-> 0]
  /\ blocked = [k \in Keys |-> "routable"]
  /\ fresh = {}
  /\ watermark = 0
  /\ records = {}
  /\ expired = {}
  /\ paused = {}
  /\ enabled = {}
  /\ revived = {}

-----------------------------------------------------------------------------
(* The committed policy *)

\* AccessState.Access: a ban or a denial first, then the approval mode.
Access(p, k) ==
  IF k \in p.denied \cup p.banned THEN "denied"
  ELSE IF p.mode = "auto" \/ k \in p.approved THEN "routable" ELSE "pending"

Decided(p) == p.approved \cup p.denied \cup p.banned

\* What an admin request may do to one identity: approve, revoke, deny, undeny, ban
\* or unban it.
EditsOf(p, k) ==
  {[p EXCEPT !.approved = @ \cup {k}, !.denied = @ \ {k}],
   [p EXCEPT !.approved = @ \ {k}],
   [p EXCEPT !.denied = @ \cup {k}, !.approved = @ \ {k}],
   [p EXCEPT !.denied = @ \ {k}],
   [p EXCEPT !.banned = @ \cup {k}],
   [p EXCEPT !.banned = @ \ {k}]}

\* ... and to the policy.
Edits(p) ==
  {[p EXCEPT !.mode = m] : m \in {"auto", "manual"}} \cup UNION {EditsOf(p, k) : k \in Keys}

\* Access.Commit, once the candidate is saved; policyWriteMu admits one writer.
Commit(next) ==
  /\ commit = "idle"
  /\ policy.revision < MaxRevision
  /\ policy' = [next EXCEPT !.revision = policy.revision + 1]
  /\ toPush' = Decided(policy) \cup Decided(next)
  /\ commit' = "committed"
  /\ UNCHANGED <<request, projection, table>>

Live == records \ expired

LiveKeys == {key[r] : r \in Live}

\* Mutant: only decided identities are pushed.
ProjectDecidedOnly ==
  /\ commit = "committed"
  /\ commit' = "pushing"
  /\ UNCHANGED <<policy, toPush, request, projection, table>>

\* commitAccess asks for the identities with a live lease after the commit.
Project ==
  /\ commit = "committed"
  /\ toPush' = toPush \cup LiveKeys
  /\ commit' = "pushing"
  /\ UNCHANGED <<policy, request, projection, table>>

-----------------------------------------------------------------------------
(* Portal *)

\* Mutant: a result of the same revision is refused.
StaleOrEqual(revision) == revision <= watermark

Stale(revision) == revision < watermark

LeasesOf(k) == {r \in records : key[r] = k}

\* applyIdentityAccessLocked: the result, and the datagram relay of each lease.
applyIdentityAccess(k, access) ==
  /\ blocked' = [blocked EXCEPT ![k] = access]
  /\ fresh' = IF access = "routable" THEN fresh \ {k} ELSE fresh \cup {k}
  /\ enabled' = IF access = "routable" THEN enabled \cup LeasesOf(k) ELSE enabled \ LeasesOf(k)

\* setIdentityAccess, when it accepts the revision.
setIdentityAccess(k, access, revision) ==
  /\ ~Stale(revision)
  /\ watermark' = revision
  /\ applyIdentityAccess(k, access)
  /\ paused' = IF access = "routable" THEN paused \ LeasesOf(k) ELSE paused \cup LeasesOf(k)
  /\ UNCHANGED <<records, expired, revived>>

\* The commit pushes one identity, in map order; no revision is newer than its own.
PushCommitted(k) ==
  /\ commit = "pushing"
  /\ k \in toPush
  /\ toPush' = toPush \ {k}
  /\ setIdentityAccess(k, Access(policy, k), policy.revision)
  /\ UNCHANGED <<policy, commit, request>>

CommitDone ==
  /\ commit = "pushing"
  /\ toPush = {}
  /\ commit' = "idle"
  /\ UNCHANGED <<policy, toPush, request, projection, table>>

-----------------------------------------------------------------------------
(* Requests *)

\* A challenge pushes the decision for its identity before it answers.
Challenge(r, k) ==
  /\ pc[r] = "none"
  /\ pc' = [pc EXCEPT ![r] = "publishing"]
  /\ key' = [key EXCEPT ![r] = k]
  /\ UNCHANGED <<policy, commit, toPush, registers, snapshot, attempts, projection, table>>

\* Mutant: a registering identity is left as it was.
suspendIdentitySkipped(k) == UNCHANGED <<blocked, fresh, enabled>>

suspendIdentity(k) == applyIdentityAccess(k, "pending")

\* HandleRegister has consumed the challenge: the identity starts fail-closed.
Register(r, k) ==
  /\ pc[r] = "none"
  /\ pc' = [pc EXCEPT ![r] = "registering"]
  /\ key' = [key EXCEPT ![r] = k]
  /\ registers' = registers \cup {r}
  /\ suspendIdentity(k)
  /\ UNCHANGED <<policy, commit, toPush, snapshot, attempts, watermark, records, expired,
                 paused, revived>>

\* The lease enters the table in place of its identity's old one, with a pool that
\* is not paused and a datagram relay that is not enabled.
RegisterInsert(r) ==
  /\ pc[r] = "registering"
  /\ pc' = [pc EXCEPT ![r] = "publishing"]
  /\ records' = (records \ LeasesOf(key[r])) \cup {r}
  /\ expired' = expired \ LeasesOf(key[r])
  /\ paused' = paused \ LeasesOf(key[r])
  /\ enabled' = enabled \ LeasesOf(key[r])
  /\ revived' = revived \ LeasesOf(key[r])
  /\ UNCHANGED <<policy, commit, toPush, key, registers, snapshot, attempts, projection>>

\* A registration that fails pushes the decision all the same.
RegisterFailed(r) ==
  /\ pc[r] = "registering"
  /\ pc' = [pc EXCEPT ![r] = "publishing"]
  /\ UNCHANGED <<policy, commit, toPush, key, registers, snapshot, attempts, projection, table>>

\* publishAccess takes a snapshot of the committed policy ...
publishLoad(r) ==
  /\ pc[r] = "publishing"
  /\ pc' = [pc EXCEPT ![r] = "loaded"]
  /\ attempts' = [attempts EXCEPT ![r] = @ + 1]
  /\ snapshot' = [snapshot EXCEPT ![r] = [access |-> Access(policy, key[r]),
                                          revision |-> policy.revision]]
  /\ UNCHANGED <<policy, commit, toPush, key, registers, projection, table>>

\* The request is over and its local state gone.
Finish(r) ==
  /\ pc' = [pc EXCEPT ![r] = "done"]
  /\ registers' = registers \ {r}
  /\ snapshot' = [snapshot EXCEPT ![r] = NoSnapshot]
  /\ attempts' = [attempts EXCEPT ![r] = 0]
  /\ UNCHANGED key

\* ... and pushes its result.
publishPush(r) ==
  /\ pc[r] = "loaded"
  /\ setIdentityAccess(key[r], snapshot[r].access, snapshot[r].revision)
  /\ Finish(r)
  /\ UNCHANGED <<policy, commit, toPush>>

\* Mutant: no bound on the attempts.
publishRetryUnbounded(r) ==
  /\ pc[r] = "loaded"
  /\ Stale(snapshot[r].revision)
  /\ pc' = [pc EXCEPT ![r] = "publishing"]
  /\ UNCHANGED <<policy, commit, toPush, key, registers, snapshot, attempts, projection, table>>

\* Portal has seen a newer revision: try again ...
publishRetry(r) ==
  /\ pc[r] = "loaded"
  /\ Stale(snapshot[r].revision)
  /\ attempts[r] < MaxAttempts
  /\ pc' = [pc EXCEPT ![r] = "publishing"]
  /\ UNCHANGED <<policy, commit, toPush, key, registers, snapshot, attempts, projection, table>>

\* Mutant: the last refusal is not answered.
publishGiveUpNever(r) == FALSE

\* ... or give up and answer that the decision could not be published.
publishGiveUp(r) ==
  /\ pc[r] = "loaded"
  /\ Stale(snapshot[r].revision)
  /\ attempts[r] = MaxAttempts
  /\ Finish(r)
  /\ UNCHANGED <<policy, commit, toPush, projection, table>>

-----------------------------------------------------------------------------
(* Leases come and go *)

Depart(gone) ==
  /\ records' = records \ gone
  /\ expired' = expired \ gone
  /\ paused' = paused \ gone
  /\ enabled' = enabled \ gone
  /\ revived' = revived \ gone

\* Unregister, a failed DNS update, a failed reverse endpoint.
Unregister(r) ==
  /\ r \in records
  /\ Depart({r})
  /\ UNCHANGED <<policy, commit, toPush, request, projection>>

Expire(r) ==
  /\ r \in Live
  /\ expired' = expired \cup {r}
  /\ UNCHANGED <<policy, commit, toPush, request, projection, records, paused, enabled, revived>>

\* Renew extends a lease that has expired since its token was checked.
Renew(r) ==
  /\ pc[r] = "done"
  /\ r \in records \cap expired
  /\ expired' = expired \ {r}
  /\ revived' = revived \cup {r}
  /\ UNCHANGED <<policy, commit, toPush, request, projection, records, paused, enabled>>

\* An old entry of an identity without a lease may go.
Forgettable(k) == k \notin fresh /\ k \notin LiveKeys

\* cleanupExpired: the expired leases go, and then the old entries.
CleanupExpired ==
  /\ Depart(records \cap expired)
  /\ blocked' = [k \in Keys |-> IF Forgettable(k) THEN "routable" ELSE blocked[k]]
  /\ UNCHANGED <<policy, commit, toPush, request, fresh, watermark>>

\* An entry ages; a registration enters the table within a challenge lifetime of
\* its suspension, as only binding sockets lies between.
Age(k) ==
  /\ k \in fresh
  /\ \A r \in Requests : ~(pc[r] = "registering" /\ key[r] = k)
  /\ fresh' = fresh \ {k}
  /\ UNCHANGED <<policy, commit, toPush, request, blocked, watermark, table>>

-----------------------------------------------------------------------------
Committing == Project \/ (\E k \in Keys : PushCommitted(k)) \/ CommitDone

Handle(r) ==
  \/ RegisterInsert(r) \/ RegisterFailed(r)
  \/ publishLoad(r) \/ publishPush(r) \/ publishRetry(r) \/ publishGiveUp(r)

Next ==
  \/ \E next \in Edits(policy) : Commit(next)
  \/ Committing
  \/ \E r \in Requests, k \in Keys : Challenge(r, k) \/ Register(r, k)
  \/ \E r \in Requests : Handle(r)
  \/ \E r \in Requests : Unregister(r) \/ Expire(r) \/ Renew(r)
  \/ CleanupExpired
  \/ \E k \in Keys : Age(k)

Spec == Init /\ [][Next]_vars

\* An admin request and a handler that have started run to their end.
FairSpec == Spec /\ WF_vars(Committing) /\ \A r \in Requests : WF_vars(Handle(r))

-----------------------------------------------------------------------------
(* Properties *)

\* Once the admin request is acknowledged, an identity the operator denied or
\* banned is refused for as long as it has a live lease, whatever registrations,
\* challenges, renewals and sweeps are under way (setIdentityAccess, lease.go).
DenialHolds ==
  commit = "idle" =>
    \A k \in LiveKeys : k \in policy.denied \cup policy.banned => blocked[k] # "routable"

Registering(k) == \E r \in registers : key[r] = k

\* When no commit and no registration of the identity is under way, every live lease
\* is under the committed decision: the entry that routing reads, the pool and the
\* datagram relay agree with it.  This holds although challenges with older
\* snapshots may still push, and although a registration may give up publishing: the
\* commit that overtook it pushes the identity, too.
Converged ==
  commit = "idle" =>
    \A r \in Live \ revived :
      LET access == Access(policy, key[r])
      IN Registering(key[r])
           \/ /\ blocked[key[r]] = access
              /\ (r \in paused) = (access # "routable")
              /\ (r \in enabled) = (access = "routable")

\* A lease no result has reached since it entered the table carries no datagrams,
\* and a refused identity carries none either (RelayDatagram.SetEnabled).
DatagramFailClosed == \A r \in Live : r \in enabled => blocked[key[r]] = "routable"

\* What is not allowed is not carried: neither by routing nor by datagrams.
FailClosed == DenialHolds /\ DatagramFailClosed

\* The comment on SetServiceIdentityAccess and on publishAccess: stale values are
\* never applied.  Read for a live lease: while no commit is under way it is routed
\* only if the committed policy says so.
StaleNeverApplied ==
  commit = "idle" =>
    \A k \in {key[r] : r \in Live \ revived} :
      blocked[k] = "routable" => Access(policy, k) = "routable"

\* An operator's denial reaches the live leases of the identity, or is superseded
\* (commit and push of the admin handlers, setIdentityAccess of lease.go).
DecisionReaches ==
  \A k \in Keys :
    (k \in LiveKeys /\ Access(policy, k) = "denied")
      ~> (k \notin LiveKeys \/ blocked[k] = "denied" \/ Access(policy, k) # "denied")

\* Every challenge and registration ends, however often newer commits overtake its
\* snapshots (publishAccess, policy/mux.go).
RequestEnds == \A r \in Requests : pc[r] = "publishing" ~> pc[r] = "done"

\* What is decided takes effect and what is asked is answered.
AccessEnds == DecisionReaches /\ RequestEnds

-----------------------------------------------------------------------------
(***************************************************************************)
(* FailClosed is not inductive.  Its reason is spread over the watermark   *)
(* (a push that is not stale carries the committed decision), the commit   *)
(* (it pushes every identity it refuses), the ageing of blocked entries    *)
(* (not while the identity registers) and the sweep (an entry goes only    *)
(* together with the last expired lease of its identity).                  *)
(*                                                                         *)
(* Converged needs ConvergeInv besides: a live lease that the commit has   *)
(* dealt with is as the policy says, or a registration of its identity is  *)
(* still to push and can only push the committed decision; and while the   *)
(* watermark is behind, which lets older snapshots through, that           *)
(* registration is the lease's own (Converging).                           *)
(***************************************************************************)

\* A leaf that names no prover is given to the SMT solver, then to Zenon, for up to half a
\* minute each.
USE SMTT(30), ZenonT(30)

\* The identities the committed policy refuses.
Refused == policy.denied \cup policy.banned

\* The commit under way, if any, has pushed k.
Settled(k) == commit = "idle" \/ (commit = "pushing" /\ k \notin toPush)

\* A request that has begun has an identity; a lease in the table was inserted.
RequestsKnown ==
  \A r \in Requests :
    /\ pc[r] # "none" => key[r] \in Keys
    /\ r \in records => pc[r] \in {"publishing", "loaded", "done"}

\* publishAccess has an attempt left whenever it is about to load.
AttemptsLeft ==
  \A r \in Requests : pc[r] \in {"none", "registering", "publishing"} => attempts[r] < MaxAttempts

\* Nothing is newer than the policy, and a snapshot that is as new agrees with it.
SnapshotsHonest ==
  /\ watermark <= policy.revision
  /\ \A r \in Requests :
       /\ snapshot[r].revision <= policy.revision
       /\ (pc[r] = "loaded" /\ snapshot[r].revision = policy.revision)
            => snapshot[r].access = Access(policy, key[r])

CommitCovers == commit = "committed" => Refused \subseteq toPush

\* A refused identity, once pushed, stays closed for every lease in the table,
\* expired ones included, and for every registration on its way there.
RefusedStaysClosed ==
  \A k \in Refused : Settled(k) =>
    /\ watermark = policy.revision
    /\ \A r \in Requests : key[r] = k =>
         /\ r \in records => blocked[k] # "routable"
         /\ pc[r] = "registering" => blocked[k] # "routable" /\ k \in fresh

EnabledIsRoutable == \A r \in enabled : r \in records /\ blocked[key[r]] = "routable"

AccessInv ==
  /\ TypeOK
  /\ RequestsKnown
  /\ AttemptsLeft
  /\ SnapshotsHonest
  /\ CommitCovers
  /\ RefusedStaysClosed
  /\ EnabledIsRoutable

-----------------------------------------------------------------------------
(* Types *)

\* Every admin request yields a policy, and an access result is one of three.
LEMMA EditsArePolicies ==
  ASSUME NEW p \in Policies, NEW next \in Edits(p)
  PROVE  next \in Policies /\ next.revision = p.revision
<1>1. \/ \E m \in {"auto", "manual"} : next = [p EXCEPT !.mode = m]
      \/ \E k \in Keys : next \in EditsOf(p, k)
  BY ZenonT(30) DEF Edits
<1>2. ASSUME NEW m \in {"auto", "manual"}, next = [p EXCEPT !.mode = m]
      PROVE  next \in Policies /\ next.revision = p.revision
  BY <1>2 DEF Policies
<1>3. ASSUME NEW k \in Keys, next \in EditsOf(p, k)
      PROVE  next \in Policies /\ next.revision = p.revision
  <2>1. CASE next = [p EXCEPT !.approved = @ \cup {k}, !.denied = @ \ {k}]
    BY <2>1, ZenonT(30) DEF Policies
  <2>2. CASE next = [p EXCEPT !.approved = @ \ {k}]
    BY <2>2 DEF Policies
  <2>3. CASE next = [p EXCEPT !.denied = @ \cup {k}, !.approved = @ \ {k}]
    BY <2>3, ZenonT(30) DEF Policies
  <2>4. CASE next = [p EXCEPT !.denied = @ \ {k}]
    BY <2>4 DEF Policies
  <2>5. CASE next = [p EXCEPT !.banned = @ \cup {k}]
    BY <2>5 DEF Policies
  <2>6. CASE next = [p EXCEPT !.banned = @ \ {k}]
    BY <2>6 DEF Policies
  <2> QED
    BY <1>3, <2>1, <2>2, <2>3, <2>4, <2>5, <2>6, ZenonT(30) DEF EditsOf
<1> QED
  BY <1>1, <1>2, <1>3, ZenonT(30)

\* What the policy says of an identity (AccessState.Access) is one of the three results.
LEMMA AccessIsResult ==
  ASSUME NEW p, NEW k
  PROVE  Access(p, k) \in Results
BY DEF Access, Results

\* A result pushed for an identity keeps the projection and the table typed.
LEMMA PushTyped ==
  ASSUME TypeOK, NEW k \in Keys, NEW access \in Results, NEW revision \in 0..MaxRevision,
         setIdentityAccess(k, access, revision)
  PROVE  /\ blocked' \in [Keys -> Results]
         /\ fresh' \subseteq Keys
         /\ watermark' \in 0..MaxRevision
         /\ records' \subseteq Requests
         /\ expired' \subseteq Requests
         /\ paused' \subseteq Requests
         /\ enabled' \subseteq Requests
         /\ revived' \subseteq Requests
BY DEF setIdentityAccess, applyIdentityAccess, LeasesOf, TypeOK

\* Every step of an admin request, a challenge, a registration or a sweep keeps the
\* types; a retry of publishAccess is begun only while attempts remain.
LEMMA TypeStep == TypeOK /\ RequestsKnown /\ AttemptsLeft /\ [Next]_vars => TypeOK'
<1> SUFFICES ASSUME TypeOK, RequestsKnown, AttemptsLeft, [Next]_vars PROVE TypeOK'
  OBVIOUS
<1> USE AccessAssumption
<1>1. ASSUME NEW next \in Edits(policy), Commit(next) PROVE TypeOK'
  <2>1. next \in Policies
    BY EditsArePolicies DEF TypeOK
  <2>2. policy' \in Policies
    BY <1>1, <2>1 DEF Commit, TypeOK, Policies
  <2> QED BY <1>1, <2>1, <2>2 DEF Commit, TypeOK, Decided, Policies, request, projection, table
<1>2. CASE Project
  BY <1>2, RequestsKnown DEF Project, TypeOK, RequestsKnown, LiveKeys, Live, request, projection, table
<1>3. ASSUME NEW k \in Keys, PushCommitted(k) PROVE TypeOK'
  <2>1. policy.revision \in 0..MaxRevision
    BY DEF TypeOK, Policies
  <2> QED BY <1>3, <2>1, PushTyped, AccessIsResult DEF PushCommitted, TypeOK, request
<1>4. CASE CommitDone
  BY <1>4 DEF CommitDone, TypeOK, request, projection, table
<1>5. ASSUME NEW r \in Requests, NEW k \in Keys, Challenge(r, k) PROVE TypeOK'
  BY <1>5 DEF Challenge, TypeOK, projection, table
<1>6. ASSUME NEW r \in Requests, NEW k \in Keys, Register(r, k) PROVE TypeOK'
  BY <1>6 DEF Register, suspendIdentity, applyIdentityAccess, LeasesOf, Results, TypeOK
<1>7. ASSUME NEW r \in Requests, RegisterInsert(r) PROVE TypeOK'
  BY <1>7 DEF RegisterInsert, LeasesOf, TypeOK, projection
<1>8. ASSUME NEW r \in Requests, RegisterFailed(r) PROVE TypeOK'
  BY <1>8 DEF RegisterFailed, TypeOK, projection, table
<1>9. ASSUME NEW r \in Requests, publishLoad(r) PROVE TypeOK'
  <2>1. policy.revision \in 0..MaxRevision
    BY DEF TypeOK, Policies
  <2>2. snapshot' \in [Requests -> [access : Results, revision : 0..MaxRevision]]
    BY <1>9, <2>1, AccessIsResult DEF publishLoad, TypeOK
  <2>3. attempts' \in [Requests -> 0..MaxAttempts]
    BY <1>9 DEF publishLoad, TypeOK, AttemptsLeft
  <2> QED BY <1>9, <2>2, <2>3 DEF publishLoad, TypeOK, projection, table
<1>10. ASSUME NEW r \in Requests, publishPush(r) PROVE TypeOK'
  <2>1. key[r] \in Keys
    BY <1>10 DEF publishPush, RequestsKnown
  <2>2. snapshot[r].access \in Results /\ snapshot[r].revision \in 0..MaxRevision
    BY DEF TypeOK
  <2>3. NoSnapshot \in [access : Results, revision : 0..MaxRevision]
    BY DEF NoSnapshot, Results
  <2> QED BY <1>10, <2>1, <2>2, <2>3, PushTyped DEF publishPush, Finish, TypeOK
<1>11. ASSUME NEW r \in Requests, publishRetry(r) PROVE TypeOK'
  BY <1>11 DEF publishRetry, TypeOK, projection, table
<1>12. ASSUME NEW r \in Requests, publishGiveUp(r) PROVE TypeOK'
  BY <1>12 DEF publishGiveUp, Finish, NoSnapshot, Results, TypeOK, projection, table
<1>13. ASSUME NEW r \in Requests, Unregister(r) \/ Expire(r) \/ Renew(r) PROVE TypeOK'
  BY <1>13 DEF Unregister, Expire, Renew, Depart, Live, TypeOK, request, projection
<1>14. CASE CleanupExpired
  BY <1>14 DEF CleanupExpired, Depart, Results, TypeOK, request
<1>15. ASSUME NEW k \in Keys, Age(k) PROVE TypeOK'
  BY <1>15 DEF Age, TypeOK, request, table
<1>16. CASE UNCHANGED vars
  BY <1>16 DEF vars, request, projection, table, TypeOK
<1> QED
  BY <1>1, <1>2, <1>3, <1>4, <1>5, <1>6, <1>7, <1>8, <1>9, <1>10, <1>11, <1>12, <1>13, <1>14,
     <1>15, <1>16 DEF Next, Committing, Handle

-----------------------------------------------------------------------------
(* The invariant *)

\* Requests acquire an identity when they begin and leave the table by its rules.
LEMMA RequestsStep == AccessInv /\ [Next]_vars => RequestsKnown' /\ AttemptsLeft'
<1> SUFFICES ASSUME AccessInv, [Next]_vars PROVE RequestsKnown' /\ AttemptsLeft'
  OBVIOUS
<1> USE AccessAssumption DEF AccessInv, TypeOK, RequestsKnown, AttemptsLeft
<1>1. ASSUME NEW next \in Edits(policy), Commit(next) PROVE RequestsKnown' /\ AttemptsLeft'
  BY <1>1 DEF Commit, request, table
<1>2. CASE Committing
  BY <1>2 DEF Committing, Project, PushCommitted, CommitDone, setIdentityAccess, request, table
<1>3. ASSUME NEW r \in Requests, NEW k \in Keys, Challenge(r, k) \/ Register(r, k)
      PROVE  RequestsKnown' /\ AttemptsLeft'
  BY <1>3 DEF Challenge, Register, table
<1>4. ASSUME NEW r \in Requests, Handle(r) PROVE RequestsKnown' /\ AttemptsLeft'
  <2>1. CASE RegisterInsert(r) \/ RegisterFailed(r)
    BY <2>1 DEF RegisterInsert, RegisterFailed, LeasesOf, table
  <2>2. CASE publishLoad(r) \/ publishRetry(r)
    BY <2>2 DEF publishLoad, publishRetry, table
  <2>3. CASE publishPush(r) \/ publishGiveUp(r)
    BY <2>3, ZenonT(30) DEF publishPush, publishGiveUp, setIdentityAccess, Finish, table
  <2> QED BY <1>4, <2>1, <2>2, <2>3 DEF Handle
<1>5. ASSUME NEW r \in Requests, Unregister(r) \/ Expire(r) \/ Renew(r)
      PROVE  RequestsKnown' /\ AttemptsLeft'
  BY <1>5 DEF Unregister, Expire, Renew, Depart, request
<1>6. CASE CleanupExpired \/ (\E k \in Keys : Age(k)) \/ UNCHANGED vars
  BY <1>6 DEF CleanupExpired, Depart, Age, vars, request, table
<1> QED BY <1>1, <1>2, <1>3, <1>4, <1>5, <1>6 DEF Next

\* Only Commit moves the revision, upwards; only publishLoad takes a snapshot, of the
\* policy as it is; a push moves the watermark to a revision that was committed.
LEMMA SnapshotsStep == AccessInv /\ [Next]_vars => SnapshotsHonest'
<1> SUFFICES ASSUME AccessInv, [Next]_vars PROVE SnapshotsHonest'
  OBVIOUS
<1> USE AccessAssumption DEF AccessInv, TypeOK, RequestsKnown, SnapshotsHonest
<1>1. ASSUME NEW next \in Edits(policy), Commit(next) PROVE SnapshotsHonest'
  <2>1. policy'.revision = policy.revision + 1 /\ policy.revision \in Nat
    BY <1>1, EditsArePolicies DEF Commit, Policies
  <2> QED BY <1>1, <2>1 DEF Commit, request, projection
<1>2. CASE Committing
  BY <1>2 DEF Committing, Project, PushCommitted, CommitDone, setIdentityAccess, request, projection,
              Policies
<1>3. ASSUME NEW r \in Requests, NEW k \in Keys, Challenge(r, k) \/ Register(r, k)
      PROVE  SnapshotsHonest'
  BY <1>3 DEF Challenge, Register, projection
<1>4. ASSUME NEW r \in Requests, Handle(r) PROVE SnapshotsHonest'
  <2>1. CASE RegisterInsert(r) \/ RegisterFailed(r)
    BY <2>1 DEF RegisterInsert, RegisterFailed, projection
  <2>2. CASE publishLoad(r) \/ publishRetry(r)
    BY <2>2 DEF publishLoad, publishRetry, projection, Policies
  <2>3. CASE publishPush(r) \/ publishGiveUp(r)
    BY <2>3 DEF publishPush, publishGiveUp, setIdentityAccess, Finish, NoSnapshot, projection,
                Policies
  <2> QED BY <1>4, <2>1, <2>2, <2>3 DEF Handle
<1>5. ASSUME NEW r \in Requests, Unregister(r) \/ Expire(r) \/ Renew(r) PROVE SnapshotsHonest'
  BY <1>5 DEF Unregister, Expire, Renew, request, projection
<1>6. CASE CleanupExpired \/ (\E k \in Keys : Age(k)) \/ UNCHANGED vars
  BY <1>6 DEF CleanupExpired, Age, vars, request, projection
<1> QED BY <1>1, <1>2, <1>3, <1>4, <1>5, <1>6 DEF Next

\* The refused identities of the new policy are among those it decides.
LEMMA CommitStep == AccessInv /\ [Next]_vars => CommitCovers'
<1> SUFFICES ASSUME AccessInv, [Next]_vars PROVE CommitCovers'
  OBVIOUS
<1> USE DEF AccessInv, CommitCovers, Refused
<1>1. ASSUME NEW next \in Edits(policy), Commit(next) PROVE CommitCovers'
  <2>1. policy'.denied = next.denied /\ policy'.banned = next.banned
    BY <1>1, EditsArePolicies DEF Commit, Policies, TypeOK
  <2> QED BY <1>1, <2>1 DEF Commit, Decided
<1>2. CASE Committing
  BY <1>2 DEF Committing, Project, PushCommitted, CommitDone
<1>3. ASSUME NEW r \in Requests, NEW k \in Keys, Challenge(r, k) \/ Register(r, k) PROVE CommitCovers'
  BY <1>3 DEF Challenge, Register
<1>4. ASSUME NEW r \in Requests, Handle(r) PROVE CommitCovers'
  BY <1>4 DEF Handle, RegisterInsert, RegisterFailed, publishLoad, publishPush, publishRetry,
              publishGiveUp
<1>5. ASSUME NEW r \in Requests, Unregister(r) \/ Expire(r) \/ Renew(r) PROVE CommitCovers'
  BY <1>5 DEF Unregister, Expire, Renew
<1>6. CASE CleanupExpired \/ (\E k \in Keys : Age(k)) \/ UNCHANGED vars
  BY <1>6 DEF CleanupExpired, Age, vars
<1> QED BY <1>1, <1>2, <1>3, <1>4, <1>5, <1>6 DEF Next

\* The heart: whoever pushes for a settled identity after the commit has the commit's
\* revision and so its decision, and nobody forgets the entry while it is needed.
LEMMA RefusedStep == AccessInv /\ [Next]_vars => RefusedStaysClosed'
<1> SUFFICES ASSUME AccessInv, [Next]_vars PROVE RefusedStaysClosed'
  OBVIOUS
<1> USE DEF AccessInv, TypeOK, RequestsKnown, RefusedStaysClosed, Refused, Settled
<1>1. ASSUME NEW next \in Edits(policy), Commit(next) PROVE RefusedStaysClosed'
  BY <1>1 DEF Commit
<1>2. CASE Project
  BY <1>2 DEF Project, CommitCovers, request, projection, table
<1>3. ASSUME NEW k \in Keys, PushCommitted(k) PROVE RefusedStaysClosed'
  <2>1. k \in Refused => Access(policy, k) = "denied"
    BY DEF Access
  <2> QED BY <1>3, <2>1 DEF PushCommitted, setIdentityAccess, applyIdentityAccess, request
<1>4. CASE CommitDone
  BY <1>4 DEF CommitDone, request, projection, table
<1>5. ASSUME NEW r \in Requests, NEW k \in Keys, Challenge(r, k) PROVE RefusedStaysClosed'
  BY <1>5 DEF Challenge, projection, table
<1>6. ASSUME NEW r \in Requests, NEW k \in Keys, Register(r, k) PROVE RefusedStaysClosed'
  BY <1>6 DEF Register, suspendIdentity, applyIdentityAccess
<1>7. ASSUME NEW r \in Requests, RegisterInsert(r) PROVE RefusedStaysClosed'
  BY <1>7 DEF RegisterInsert, projection
<1>8. ASSUME NEW r \in Requests, RegisterFailed(r) \/ publishLoad(r) \/ publishRetry(r)
      PROVE  RefusedStaysClosed'
  BY <1>8 DEF RegisterFailed, publishLoad, publishRetry, projection, table
<1>9. ASSUME NEW r \in Requests, publishPush(r) PROVE RefusedStaysClosed'
  <2> SUFFICES ASSUME NEW k \in Refused, Settled(k)
               PROVE  /\ watermark' = policy.revision
                      /\ \A s \in Requests : key[s] = k =>
                           /\ s \in records => blocked'[k] # "routable"
                           /\ pc'[s] = "registering" => blocked'[k] # "routable" /\ k \in fresh'
    BY <1>9 DEF publishPush, setIdentityAccess, Finish
  <2>1. snapshot[r].revision = policy.revision
    BY <1>9, AccessAssumption DEF publishPush, setIdentityAccess, Stale, SnapshotsHonest, Policies
  <2>2. key[r] = k => snapshot[r].access = "denied"
    BY <1>9, <2>1 DEF publishPush, SnapshotsHonest, Access
  <2> QED BY <1>9, <2>1, <2>2 DEF publishPush, setIdentityAccess, applyIdentityAccess, Finish, Policies
<1>10. ASSUME NEW r \in Requests, publishGiveUp(r) PROVE RefusedStaysClosed'
  BY <1>10 DEF publishGiveUp, Finish, projection, table
<1>11. ASSUME NEW r \in Requests, Unregister(r) \/ Expire(r) \/ Renew(r) PROVE RefusedStaysClosed'
  BY <1>11 DEF Unregister, Expire, Renew, Depart, request, projection
<1>12. CASE CleanupExpired
  BY <1>12 DEF CleanupExpired, Depart, Forgettable, LiveKeys, Live, request, Policies
<1>13. ASSUME NEW k \in Keys, Age(k) PROVE RefusedStaysClosed'
  BY <1>13 DEF Age, request, table
<1>14. CASE UNCHANGED vars
  BY <1>14 DEF vars, request, projection, table
<1> QED
  BY <1>1, <1>2, <1>3, <1>4, <1>5, <1>6, <1>7, <1>8, <1>9, <1>10, <1>11, <1>12, <1>13, <1>14, ZenonT(30)
  DEF Next, Committing, Handle

\* A datagram relay is switched together with the entry of its identity.
LEMMA EnabledStep == AccessInv /\ [Next]_vars => EnabledIsRoutable'
<1> SUFFICES ASSUME AccessInv, [Next]_vars PROVE EnabledIsRoutable'
  OBVIOUS
<1> USE DEF AccessInv, TypeOK, RequestsKnown, EnabledIsRoutable, LeasesOf
<1>1. ASSUME NEW next \in Edits(policy), Commit(next) PROVE EnabledIsRoutable'
  BY <1>1 DEF Commit, request, projection, table
<1>2. CASE Project \/ CommitDone
  BY <1>2 DEF Project, CommitDone, request, projection, table
<1>3. ASSUME NEW k \in Keys, PushCommitted(k) PROVE EnabledIsRoutable'
  BY <1>3 DEF PushCommitted, setIdentityAccess, applyIdentityAccess, request
<1>4. ASSUME NEW r \in Requests, NEW k \in Keys, Challenge(r, k) PROVE EnabledIsRoutable'
  BY <1>4 DEF Challenge, projection, table
<1>5. ASSUME NEW r \in Requests, NEW k \in Keys, Register(r, k) PROVE EnabledIsRoutable'
  BY <1>5 DEF Register, suspendIdentity, applyIdentityAccess
<1>6. ASSUME NEW r \in Requests, RegisterInsert(r) PROVE EnabledIsRoutable'
  BY <1>6 DEF RegisterInsert, projection
<1>7. ASSUME NEW r \in Requests, RegisterFailed(r) \/ publishLoad(r) \/ publishRetry(r)
      PROVE  EnabledIsRoutable'
  BY <1>7 DEF RegisterFailed, publishLoad, publishRetry, projection, table
<1>8. ASSUME NEW r \in Requests, publishPush(r) PROVE EnabledIsRoutable'
  BY <1>8 DEF publishPush, setIdentityAccess, applyIdentityAccess, Finish
<1>9. ASSUME NEW r \in Requests, publishGiveUp(r) PROVE EnabledIsRoutable'
  BY <1>9 DEF publishGiveUp, Finish, projection, table
<1>10. ASSUME NEW r \in Requests, Unregister(r) \/ Expire(r) \/ Renew(r) PROVE EnabledIsRoutable'
  BY <1>10 DEF Unregister, Expire, Renew, Depart, request, projection
<1>11. CASE CleanupExpired
  BY <1>11 DEF CleanupExpired, Depart, request
<1>12. CASE (\E k \in Keys : Age(k)) \/ UNCHANGED vars
  BY <1>12 DEF Age, vars, request, projection, table
<1> QED
  BY <1>1, <1>2, <1>3, <1>4, <1>5, <1>6, <1>7, <1>8, <1>9, <1>10, <1>11, <1>12
  DEF Next, Committing, Handle

-----------------------------------------------------------------------------
(* The theorems *)

\* The strengthened invariant holds in every reachable state: no interleaving of admin
\* commits and pushes with publishAccess of challenges and registrations escapes it.
THEOREM AccessInvariant == Spec => []AccessInv
<1>1. Init => AccessInv
  BY AccessAssumption
  DEF Init, AccessInv, TypeOK, Policies, Results, NoSnapshot, RequestsKnown, AttemptsLeft,
      SnapshotsHonest, CommitCovers, RefusedStaysClosed, Refused, EnabledIsRoutable
<1>2. AccessInv /\ [Next]_vars => AccessInv'
  BY TypeStep, RequestsStep, SnapshotsStep, CommitStep, RefusedStep, EnabledStep DEF AccessInv
<1> QED
  BY <1>1, <1>2, PTL DEF Spec

\* Type correctness of the access projection: in particular publishAccess never
\* begins more than accessPublishAttempts attempts (Mux, policy/mux.go).
THEOREM AccessTypeCorrect == Spec => []TypeOK
BY AccessInvariant, PTL DEF AccessInv

\* What the operator refuses is not carried: after an acknowledged commit no live
\* lease of a denied or banned identity is routed, and no datagram relay runs for an
\* identity that is not routable, whatever challenges, registrations, renewals and
\* sweeps are under way (setIdentityAccess and suspendIdentity, portal/lease.go).
THEOREM AccessFailClosed == Spec => []FailClosed
<1>1. AccessInv => FailClosed
  BY DEF AccessInv, FailClosed, DenialHolds, DatagramFailClosed, RefusedStaysClosed, Refused, Settled,
         EnabledIsRoutable, LiveKeys, Live, TypeOK
<1> QED
  BY <1>1, AccessInvariant, PTL

-----------------------------------------------------------------------------
(* Convergence *)

\* A registration is under way from HandleRegister to the end of publishAccess.
RegistersKnown ==
  \A r \in Requests :
    /\ pc[r] = "registering" => r \in registers
    /\ r \in registers => pc[r] \in {"registering", "publishing", "loaded"}

\* A registration whose next push can only carry the committed decision.
Current(r) ==
  r \in registers /\ (pc[r] = "loaded" => snapshot[r].revision = policy.revision)

\* The entry, the pool and the datagram relay of a lease are as the policy says.
Agreed(r) ==
  /\ blocked[key[r]] = Access(policy, key[r])
  /\ (r \in paused) = (Access(policy, key[r]) # "routable")
  /\ (r \in enabled) = (Access(policy, key[r]) = "routable")

\* A live lease whose identity the commit has dealt with is as the policy says, unless a
\* registration of its identity is current; and while the watermark is behind, which
\* lets older snapshots through, its own registration is.
Converging ==
  \A r \in Live \ revived : Settled(key[r]) =>
    \/ /\ watermark = policy.revision
       /\ Agreed(r) \/ (\E q \in Requests : Current(q) /\ key[q] = key[r])
    \/ Current(r)

ConvergeInv == RegistersKnown /\ Converging

\* Requests enter and leave registers with Register and Finish.
LEMMA RegistersStep == AccessInv /\ RegistersKnown /\ [Next]_vars => RegistersKnown'
<1> SUFFICES ASSUME AccessInv, RegistersKnown, [Next]_vars PROVE RegistersKnown'
  OBVIOUS
<1> USE DEF AccessInv, TypeOK, RegistersKnown
<1>1. ASSUME NEW next \in Edits(policy), Commit(next) PROVE RegistersKnown'
  BY <1>1 DEF Commit, request
<1>2. CASE Committing
  BY <1>2 DEF Committing, Project, PushCommitted, CommitDone, request
<1>3. ASSUME NEW r \in Requests, NEW k \in Keys, Challenge(r, k) \/ Register(r, k)
      PROVE  RegistersKnown'
  BY <1>3 DEF Challenge, Register
<1>4. ASSUME NEW r \in Requests, Handle(r) PROVE RegistersKnown'
  BY <1>4 DEF Handle, RegisterInsert, RegisterFailed, publishLoad, publishPush, publishRetry,
              publishGiveUp, Finish
<1>5. ASSUME NEW r \in Requests, Unregister(r) \/ Expire(r) \/ Renew(r) PROVE RegistersKnown'
  BY <1>5 DEF Unregister, Expire, Renew, request
<1>6. CASE CleanupExpired \/ (\E k \in Keys : Age(k)) \/ UNCHANGED vars
  BY <1>6 DEF CleanupExpired, Age, vars, request
<1> QED BY <1>1, <1>2, <1>3, <1>4, <1>5, <1>6 DEF Next

\* Where a step leaves the policy, the requests and the projection alone, a lease that
\* stays live stays as it was.
LEMMA ConvergeFrame ==
  ASSUME TypeOK, Converging, UNCHANGED <<policy, commit, toPush, request, watermark>>,
         (Live \ revived)' \subseteq Live \ revived,
         \A r \in (Live \ revived)' :
           /\ blocked'[key[r]] = blocked[key[r]]
           /\ (r \in paused') = (r \in paused) /\ (r \in enabled') = (r \in enabled)
  PROVE  Converging'
<1> SUFFICES ASSUME NEW r \in (Live \ revived)', Settled(key[r])'
             PROVE  (\/ /\ watermark = policy.revision
                        /\ Agreed(r) \/ (\E q \in Requests : Current(q) /\ key[q] = key[r])
                     \/ Current(r))'
  BY DEF Converging
<1>1. r \in Live \ revived /\ Settled(key[r])
  BY DEF Settled, request
<1>2. \A q \in Requests : Current(q)' = Current(q)
  BY DEF Current, request
<1>3. Agreed(r)' = Agreed(r)
  BY DEF Agreed, request
<1>4. r \in Requests /\ key' = key
  BY <1>1 DEF TypeOK, Live, request
<1> QED
  BY <1>1, <1>2, <1>3, <1>4 DEF Converging

\* A result that is pushed for an identity puts all its leases under that result.
LEMMA PushAgrees ==
  ASSUME TypeOK, NEW k \in Keys, setIdentityAccess(k, Access(policy, k), policy.revision),
         UNCHANGED <<policy, key>>, NEW r \in records, key[r] = k
  PROVE  Agreed(r)' /\ watermark' = policy'.revision
<1>1. r \in LeasesOf(k)
  BY DEF LeasesOf
<1>2. blocked'[k] = Access(policy, k) /\ watermark' = policy'.revision /\ key'[r] = k
  BY DEF setIdentityAccess, applyIdentityAccess, TypeOK
<1>3. (r \in paused') = (Access(policy, k) # "routable")
  BY <1>1 DEF setIdentityAccess
<1>4. (r \in enabled') = (Access(policy, k) = "routable")
  BY <1>1 DEF setIdentityAccess, applyIdentityAccess
<1> QED
  BY <1>2, <1>3, <1>4 DEF Agreed

\* A push for one identity leaves the leases of the others as they were.
LEMMA PushSpares ==
  ASSUME TypeOK, NEW k \in Keys, NEW access, NEW revision,
         setIdentityAccess(k, access, revision), UNCHANGED <<policy, key>>,
         NEW r \in records, key[r] \in Keys, key[r] # k
  PROVE  Agreed(r)' = Agreed(r)
<1>1. r \notin LeasesOf(k)
  BY DEF LeasesOf
<1>2. /\ blocked'[key[r]] = blocked[key[r]]
      /\ (r \in paused') = (r \in paused) /\ (r \in enabled') = (r \in enabled)
  BY <1>1 DEF setIdentityAccess, applyIdentityAccess, TypeOK
<1> QED
  BY <1>2 DEF Agreed

\* Every step keeps the leases converging.
LEMMA ConvergingStep == AccessInv /\ ConvergeInv /\ [Next]_vars => Converging'
<1> SUFFICES ASSUME AccessInv, ConvergeInv, [Next]_vars PROVE Converging'
  OBVIOUS
<1> USE DEF AccessInv, ConvergeInv
<1>0. Live \subseteq Requests /\ \A r \in Live : key[r] \in Keys /\ key[r] \in LiveKeys
  BY DEF Live, LiveKeys, TypeOK, RequestsKnown
<1>1. ASSUME NEW next \in Edits(policy), Commit(next) PROVE Converging'
  BY <1>1 DEF Commit, Converging, Settled
<1>2. CASE Project
  BY <1>0, <1>2 DEF Project, Converging, Settled, Live, request, table
<1>3. ASSUME NEW k \in Keys, PushCommitted(k) PROVE Converging'
  <2>1. /\ setIdentityAccess(k, Access(policy, k), policy.revision)
        /\ UNCHANGED <<policy, commit, pc, key, registers, snapshot, records, expired, revived>>
        /\ toPush' = toPush \ {k}
    BY <1>3 DEF PushCommitted, setIdentityAccess, request
  <2>2. (Live \ revived)' = Live \ revived /\ \A q \in Requests : Current(q)' = Current(q)
    BY <2>1 DEF Live, Current
  <2>3. watermark' = policy'.revision
    BY <2>1 DEF setIdentityAccess
  <2>4. ASSUME NEW r \in Live \ revived, key[r] = k PROVE Agreed(r)'
    BY <2>1, <2>4, PushAgrees DEF Live
  <2>5. ASSUME NEW r \in Live \ revived, key[r] # k PROVE Agreed(r)' = Agreed(r)
    BY <1>0, <2>1, <2>5, PushSpares DEF Live
  <2>6. ASSUME NEW r \in Live \ revived, key[r] # k, Settled(key[r])' PROVE Settled(key[r])
    BY <2>1, <2>6 DEF Settled
  <2>7. ASSUME NEW r \in Live \ revived, Settled(key[r])'
        PROVE  (\/ /\ watermark = policy.revision
                   /\ Agreed(r) \/ (\E q \in Requests : Current(q) /\ key[q] = key[r])
                \/ Current(r))'
    <3>1. CASE key[r] = k
      BY <2>3, <2>4, <3>1
    <3>2. CASE key[r] # k
      <4>1. Settled(key[r]) /\ r \in Requests
        BY <1>0, <2>6, <2>7, <3>2
      <4>2. CASE Current(r)
        BY <2>2, <4>1, <4>2
      <4>3. CASE Agreed(r)
        BY <2>3, <2>5, <3>2, <4>3
      <4>4. CASE \E q \in Requests : Current(q) /\ key[q] = key[r]
        BY <2>1, <2>2, <2>3, <4>4
      <4> QED
        BY <4>1, <4>2, <4>3, <4>4 DEF Converging
    <3> QED
      BY <3>1, <3>2
  <2> QED
    BY <2>2, <2>7 DEF Converging
<1>4. CASE CommitDone
  <2>1. /\ UNCHANGED <<policy, request, watermark, blocked, paused, enabled, Live \ revived>>
        /\ commit = "pushing" /\ toPush = {}
    BY <1>4 DEF CommitDone, projection, table, Live
  <2>2. \A r \in Live \ revived : Settled(key[r])
    BY <2>1 DEF Settled
  <2>3. /\ \A q \in Requests : Current(q)' = Current(q)
        /\ \A r \in Live \ revived : Agreed(r)' = Agreed(r)
        /\ key' = key
    BY <2>1 DEF Current, Agreed, request
  <2> QED
    BY <1>0, <2>1, <2>2, <2>3 DEF Converging
<1>5. ASSUME NEW n \in Requests, NEW k \in Keys, Challenge(n, k) \/ Register(n, k)
      PROVE  Converging'
  <2>1. /\ UNCHANGED <<policy, commit, toPush, snapshot, watermark, records, expired, revived, paused>>
        /\ pc[n] = "none" /\ key' = [key EXCEPT ![n] = k]
        /\ \A q \in Requests \ {n} : pc'[q] = pc[q] /\ (q \in registers' <=> q \in registers)
    BY <1>5 DEF Challenge, Register, TypeOK, projection, table
  <2>2. n \notin records /\ n \notin registers
    BY <2>1 DEF RequestsKnown, RegistersKnown
  <2>3. /\ (Live \ revived)' = Live \ revived
        /\ \A r \in Live : r # n /\ key'[r] = key[r]
    BY <1>0, <2>1, <2>2 DEF Live, TypeOK
  <2>4. \A q \in Requests : Current(q) => Current(q)' /\ q # n /\ key'[q] = key[q]
    BY <2>1, <2>2 DEF Current, TypeOK
  <2>5. \A r \in Live \ revived : Settled(key[r])' => Settled(key[r])
    BY <2>1, <2>3 DEF Settled
  <2>6. CASE Challenge(n, k)
    <3>1. UNCHANGED <<blocked, enabled>>
      BY <2>6 DEF Challenge, projection, table
    <3>2. \A r \in Live \ revived : Agreed(r)' = Agreed(r)
      BY <2>1, <2>3, <3>1 DEF Agreed
    <3> QED
      BY <1>0, <2>1, <2>3, <2>4, <2>5, <3>2, ZenonT(30) DEF Converging
  <2>7. CASE Register(n, k)
    <3>1. Current(n)' /\ key'[n] = k
      BY <2>1, <2>7 DEF Register, Current, TypeOK
    <3>2. \A r \in Live \ revived : key[r] # k => Agreed(r)' = Agreed(r)
      <4>1. TAKE r \in Live \ revived
      <4>2. HAVE key[r] # k
      <4>3. r \notin LeasesOf(k)
        BY <4>2 DEF LeasesOf
      <4>4. blocked'[key[r]] = blocked[key[r]] /\ (r \in enabled') = (r \in enabled)
        BY <1>0, <2>7, <4>2, <4>3 DEF Register, suspendIdentity, applyIdentityAccess, TypeOK
      <4> QED
        BY <2>1, <2>3, <4>4, ZenonT(30) DEF Agreed
    <3> QED
      BY <1>0, <2>1, <2>3, <2>4, <2>5, <3>1, <3>2 DEF Converging
  <2> QED
    BY <1>5, <2>6, <2>7
<1>6. ASSUME NEW n \in Requests, RegisterInsert(n) PROVE Converging'
  <2>1. /\ UNCHANGED <<policy, commit, toPush, key, registers, snapshot, watermark, blocked>>
        /\ pc' = [pc EXCEPT ![n] = "publishing"] /\ pc[n] = "registering"
        /\ records' = (records \ LeasesOf(key[n])) \cup {n}
    BY <1>6, ZenonT(30) DEF RegisterInsert, projection
  <2>2. Current(n)'
    BY <2>1 DEF RegistersKnown, Current, TypeOK
  <2>3. \A q \in Requests : Current(q) => Current(q)'
    BY <2>1, <2>2 DEF Current, TypeOK
  <2>4. ASSUME NEW r \in (Live \ revived)', r # n
        PROVE  r \in Live \ revived /\ Agreed(r)' = Agreed(r)
    <3>1. r \in records /\ r \notin LeasesOf(key[n])
      BY <2>1, <2>4 DEF Live
    <3>2. r \in Live \ revived
      BY <1>6, <2>4, <3>1 DEF RegisterInsert, Live
    <3>3. (r \in paused') = (r \in paused) /\ (r \in enabled') = (r \in enabled)
      BY <1>6, <3>1 DEF RegisterInsert
    <3> QED
      BY <2>1, <3>2, <3>3 DEF Agreed
  <2>5. \A r \in Live \ revived : Settled(key[r])' => Settled(key[r])
    BY <2>1 DEF Settled
  <2> QED
    BY <1>0, <2>1, <2>2, <2>3, <2>4, <2>5 DEF Converging
<1>7. ASSUME NEW n \in Requests,
             RegisterFailed(n) \/ publishLoad(n) \/ publishRetry(n) \/ publishGiveUp(n)
      PROVE  Converging'
  <2>1. /\ UNCHANGED <<policy, commit, toPush, key, watermark, blocked, paused, enabled, Live \ revived>>
        /\ \A q \in Requests \ {n} :
             pc'[q] = pc[q] /\ snapshot'[q] = snapshot[q] /\ (q \in registers' <=> q \in registers)
    BY <1>7, ZenonT(30) DEF RegisterFailed, publishLoad, publishRetry, publishGiveUp, Finish, TypeOK, Live,
                projection, table
  <2>2. Current(n) => Current(n)'
    <3>1. CASE RegisterFailed(n) \/ publishRetry(n)
      BY <3>1 DEF RegisterFailed, publishRetry, Current, TypeOK
    <3>2. CASE publishLoad(n)
      BY <3>2 DEF publishLoad, Current, TypeOK
    <3>3. CASE publishGiveUp(n)
      <4>1. snapshot[n].revision < watermark /\ watermark <= policy.revision /\ pc[n] = "loaded"
            /\ policy.revision \in Nat /\ watermark \in Nat /\ snapshot[n].revision \in Nat
        BY <3>3, AccessAssumption DEF publishGiveUp, Stale, SnapshotsHonest, TypeOK, Policies
      <4>2. snapshot[n].revision # policy.revision
        BY <4>1
      <4> QED
        BY <4>1, <4>2 DEF Current
    <3> QED
      BY <1>7, <3>1, <3>2, <3>3
  <2>3. \A q \in Requests : Current(q) => Current(q)'
    BY <2>1, <2>2 DEF Current
  <2>4. \A r \in Live \ revived : Agreed(r)' = Agreed(r) /\ (Settled(key[r])' => Settled(key[r]))
    BY <2>1 DEF Agreed, Settled
  <2> QED
    BY <1>0, <2>1, <2>3, <2>4 DEF Converging
<1>8. ASSUME NEW n \in Requests, publishPush(n) PROVE Converging'
  <2>1. /\ setIdentityAccess(key[n], snapshot[n].access, snapshot[n].revision)
        /\ UNCHANGED <<policy, commit, toPush, key, Live \ revived>> /\ pc[n] = "loaded"
        /\ \A q \in Requests \ {n} :
             pc'[q] = pc[q] /\ snapshot'[q] = snapshot[q] /\ (q \in registers' <=> q \in registers)
    BY <1>8 DEF publishPush, Finish, setIdentityAccess, TypeOK, Live
  <2>2. /\ key[n] \in Keys
        /\ snapshot[n].revision = policy.revision => snapshot[n].access = Access(policy, key[n])
    BY <2>1, ZenonT(30) DEF RequestsKnown, SnapshotsHonest
  <2>3. \A q \in Requests \ {n} : Current(q) => Current(q)'
    BY <2>1, ZenonT(30) DEF Current
  <2>4. /\ snapshot[n].revision >= watermark /\ snapshot[n].revision <= policy.revision
        /\ policy.revision \in Nat /\ watermark \in Nat /\ snapshot[n].revision \in Nat
        /\ watermark' = snapshot[n].revision
    BY <2>1, AccessAssumption DEF setIdentityAccess, Stale, SnapshotsHonest, TypeOK, Policies
  <2>5. ASSUME NEW r \in Live \ revived, key[r] = key[n], snapshot[n].revision = policy.revision
        PROVE  Agreed(r)' /\ watermark' = policy'.revision
    BY <2>1, <2>2, <2>5, PushAgrees DEF Live
  <2>6. ASSUME NEW r \in Live \ revived, key[r] # key[n] PROVE Agreed(r)' = Agreed(r)
    BY <1>0, <2>1, <2>2, <2>6, PushSpares DEF Live
  <2>7. \A r \in Live \ revived : Settled(key[r])' => Settled(key[r])
    BY <2>1 DEF Settled
  <2>8. watermark = policy.revision =>
          snapshot[n].revision = policy.revision /\ watermark' = policy'.revision
    BY <2>1, <2>4
  <2>9. ASSUME NEW r \in Live \ revived, Settled(key[r])'
        PROVE  (\/ /\ watermark = policy.revision
                   /\ Agreed(r) \/ (\E q \in Requests : Current(q) /\ key[q] = key[r])
                \/ Current(r))'
    <3>1. CASE Current(r) /\ r # n
      BY <1>0, <2>3, <3>1
    <3>2. CASE Current(r) /\ r = n
      <4>1. snapshot[n].revision = policy.revision
        BY <2>1, <3>2 DEF Current
      <4> QED
        BY <2>5, <3>2, <4>1
    <3>3. CASE watermark = policy.revision
               /\ (Agreed(r) \/ \E q \in Requests : Current(q) /\ key[q] = key[r])
      <4>1. CASE key[r] = key[n]
        BY <2>5, <2>8, <3>3, <4>1
      <4>2. CASE key[r] # key[n]
        BY <2>1, <2>3, <2>6, <2>8, <3>3, <4>2
      <4> QED
        BY <4>1, <4>2
    <3> QED
      BY <2>7, <2>9, <3>1, <3>2, <3>3 DEF Converging
  <2> QED
    BY <2>1, <2>9 DEF Converging
<1>9. ASSUME NEW n \in Requests, Unregister(n) \/ Expire(n) \/ Renew(n) PROVE Converging'
  <2>1. UNCHANGED <<policy, commit, toPush, request, watermark, blocked>>
    BY <1>9 DEF Unregister, Expire, Renew, projection
  <2>2. (Live \ revived)' \subseteq Live \ revived
    BY <1>9 DEF Unregister, Expire, Renew, Depart, Live
  <2>3. \A r \in (Live \ revived)' :
          (r \in paused') = (r \in paused) /\ (r \in enabled') = (r \in enabled)
    BY <1>9 DEF Unregister, Expire, Renew, Depart, Live
  <2> QED
    BY <2>1, <2>2, <2>3, ConvergeFrame, ZenonT(30)
<1>10. CASE CleanupExpired
  <2>1. UNCHANGED <<policy, commit, toPush, request, watermark>>
    BY <1>10 DEF CleanupExpired
  <2>2. (Live \ revived)' \subseteq Live \ revived
    BY <1>10 DEF CleanupExpired, Depart, Live
  <2>3. \A r \in (Live \ revived)' :
          (r \in paused') = (r \in paused) /\ (r \in enabled') = (r \in enabled)
    BY <1>10 DEF CleanupExpired, Depart, Live
  <2>4. \A r \in (Live \ revived)' : blocked'[key[r]] = blocked[key[r]]
    BY <1>0, <1>10, <2>2 DEF CleanupExpired, Forgettable
  <2> QED
    BY <2>1, <2>2, <2>3, <2>4, ConvergeFrame
<1>11. CASE (\E k \in Keys : Age(k)) \/ UNCHANGED vars
  <2>1. UNCHANGED <<policy, commit, toPush, request, watermark, blocked, table>>
    BY <1>11 DEF Age, vars, projection
  <2>2. UNCHANGED <<Live \ revived, paused, enabled>>
    BY <2>1 DEF table, Live
  <2> QED
    BY <2>1, <2>2, ConvergeFrame
<1> QED
  BY <1>1, <1>2, <1>3, <1>4, <1>5, <1>6, <1>7, <1>8, <1>9, <1>10, <1>11 DEF Next, Committing, Handle

\* When no commit and no registration of its identity is under way, every live lease is
\* under the committed decision, for any number of identities, requests and commits:
\* challenges with older snapshots, registrations that give up and sweeps cannot move it
\* away (commitAccess, publishAccess and setIdentityAccess).
THEOREM AccessConverged == Spec => []Converged
<1>1. Init => ConvergeInv
  BY DEF Init, ConvergeInv, RegistersKnown, Converging, Live
<1>2. AccessInv /\ ConvergeInv /\ [Next]_vars => ConvergeInv'
  BY RegistersStep, ConvergingStep DEF ConvergeInv
<1>3. AccessInv /\ ConvergeInv => Converged
  <2> SUFFICES ASSUME AccessInv, ConvergeInv, commit = "idle", NEW r \in Live \ revived
               PROVE  Registering(key[r]) \/ Agreed(r)
    BY DEF Converged, Agreed
  <2>1. r \in Requests /\ Settled(key[r])
    BY DEF AccessInv, TypeOK, Live, Settled
  <2> QED
    BY <2>1 DEF ConvergeInv, Converging, Current, Registering
<1> QED
  BY <1>1, <1>2, <1>3, AccessInvariant, PTL DEF Spec
=============================================================================
