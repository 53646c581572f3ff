--------------------------- MODULE OverlayGateway ---------------------------
(* The reverse endpoints a relay issues through other relays: overlay           *)
(* IssueEndpoint, gatewayCandidates, selectGateway and ForgetLease              *)
(* (portal/overlay/runtime.go), called by issueReverseEndpoint of the registry  *)
(* (portal/lease.go) without its mutex, while leases come and go.  Gateways are *)
(* numbers in the order gatewayCandidates sorts them; which of them are listed, *)
(* verified and not about to expire is any set.  Time moves in steps.           *)
EXTENDS Naturals, FiniteSets

CONSTANTS
  Leases, Gateways, Issues,
  RetryDelay,   \* gatewayRetryDelay
  MaxTime       \* bound: the last moment

VARIABLES
  now,
  lease,        \* new, live, expired but still in the table, or gone
  up,           \* the runtime is ready
  assignments, failures,
  issue,        \* per request: where it is, its lease, the gateway it reports and its clock
  given,        \* the gateway of its endpoint, 0 for direct transport
  reported      \* history: when a lease last reported a gateway as failed, 0 if forgotten

vars == <<now, lease, up, assignments, failures, issue, given, reported>>
mapVars == <<assignments, failures>>
askVars == <<issue, given>>
issueVars == <<issue, given, reported>>
Never == [g \in Gateways |-> 0]

Direct == 0
Idle == [at |-> "idle", lease |-> "none", failed |-> Direct, now |-> 0]
Asks(l, failed) == [at |-> "ready", lease |-> l, failed |-> failed, now |-> 0]
Least(S) == CHOOSE g \in S : \A h \in S : g <= h

Init ==
  /\ now = 1 /\ lease = [l \in Leases |-> "new"] /\ up = TRUE
  /\ assignments = [l \in {} |-> 0] /\ failures = [l \in {} |-> 0]
  /\ issue = [i \in Issues |-> Idle] /\ given = [i \in Issues |-> Direct]
  /\ reported = [l \in Leases |-> Never]

Without(f, x) == [y \in DOMAIN f \ {x} |-> f[y]]
Put(f, x, v) == [y \in DOMAIN f \cup {x} |-> IF y = x THEN v ELSE f[y]]

Tick == now < MaxTime /\ now' = now + 1 /\ UNCHANGED <<lease, up, mapVars, issueVars>>

(* Register enters a lease and goes on to issue its first endpoint itself.       *)
Register(l, i) ==
  /\ lease[l] = "new" /\ issue[i] = Idle
  /\ lease' = [lease EXCEPT ![l] = "live"]
  /\ issue' = [issue EXCEPT ![i] = Asks(l, Direct)]
  /\ UNCHANGED <<now, up, mapVars, given, reported>>

(* A renewal or HandleReverseEndpoint: resolveReverseEndpoint finds the lease.   *)
Resolve(i, l, failed) ==
  /\ issue[i] = Idle /\ lease[l] = "live"
  /\ issue' = [issue EXCEPT ![i] = Asks(l, failed)]
  /\ UNCHANGED <<now, lease, up, mapVars, given, reported>>

(* Mutant: a failure excludes its gateway from one answer only.                *)
FailedOnce(l, failed, t) ==
  IF failed = Direct THEN [g \in {} |-> 0] ELSE Put([g \in {} |-> 0], failed, t + RetryDelay)

(* The failures of a lease once those whose delay is over are dropped and the    *)
(* one reported is added, by the clock of the request.                           *)
Failed(l, failed, t) ==
  LET old == IF l \in DOMAIN failures THEN failures[l] ELSE [g \in {} |-> 0]
      kept == [g \in {x \in DOMAIN old : old[x] > t} |-> old[g]]
  IN IF failed = Direct THEN kept ELSE Put(kept, failed, t + RetryDelay)

(* Without a report the lease keeps its gateway; with one it moves, unless no     *)
(* other is left.                                                                *)
Choose(l, failed, usable) ==
  LET current == IF l \in DOMAIN assignments THEN assignments[l] ELSE Direct
  IN IF failed = Direct /\ current \in usable THEN current
     ELSE IF usable \ {current} # {} THEN Least(usable \ {current}) ELSE Least(usable)

(* IssueEndpoint reads ready and the clock first.  Not ready, no valid self        *)
(* descriptor or no candidate at all mean direct transport.                        *)
IssueEndpoint(i) ==
  /\ issue[i].at = "ready"
  /\ \/ up /\ issue' = [issue EXCEPT ![i].at = "select", ![i].now = now]
     \/ issue' = [issue EXCEPT ![i].at = "recheck"]
  /\ UNCHANGED <<now, lease, up, mapVars, given, reported>>

(* selectGateway decides under assignmentMu, maybe after Close cleared the maps.   *)
SelectGateway(i, listed) ==
  LET l == issue[i].lease
      bad == Failed(l, issue[i].failed, issue[i].now)
      usable == listed \ DOMAIN bad
      g == IF usable = {} THEN Direct ELSE Choose(l, issue[i].failed, usable)
  IN /\ issue[i].at = "select" /\ listed # {}
     /\ failures' = Put(failures, l, bad)
     /\ assignments' = IF g = Direct THEN Without(assignments, l) ELSE Put(assignments, l, g)
     /\ given' = [given EXCEPT ![i] = g]
     /\ reported' = IF issue[i].failed = Direct THEN reported
                    ELSE [reported EXCEPT ![l][issue[i].failed] = issue[i].now]
     /\ issue' = [issue EXCEPT ![i].at = "recheck", ![i].now = 0]
     /\ UNCHANGED <<now, lease, up>>

(* Mutant: the lease found before the selection is taken as still there.          *)
FoundBefore(l) == TRUE

(* recordForVerifiedLease after the selection                                     *)
StillActive(l) == lease[l] = "live"

(* The end of issueReverseEndpoint; ForgetLease for a lease that has gone.         *)
Recheck(i) ==
  /\ issue[i].at = "recheck"
  /\ issue' = [issue EXCEPT ![i].at = IF StillActive(issue[i].lease) THEN "answer" ELSE "forget"]
  /\ UNCHANGED <<now, lease, up, mapVars, given, reported>>

ForgetLease(l) ==
  /\ assignments' = Without(assignments, l) /\ failures' = Without(failures, l)
  /\ reported' = [reported EXCEPT ![l] = Never]

RecheckForgets(i) ==
  /\ issue[i].at = "forget" /\ ForgetLease(issue[i].lease)
  /\ issue' = [issue EXCEPT ![i] = Idle] /\ given' = [given EXCEPT ![i] = Direct]
  /\ UNCHANGED <<now, lease, up>>

Answer(i) ==
  /\ issue[i].at = "answer"
  /\ issue' = [issue EXCEPT ![i] = Idle] /\ given' = [given EXCEPT ![i] = Direct]
  /\ UNCHANGED <<now, lease, up, mapVars, reported>>

(* deleteRecord forgets under the registry's mutex: Unregister, the janitor and   *)
(* CloseAll are each one step.                                                    *)
Remove(l) ==
  /\ lease[l] \in {"live", "expired"}
  /\ lease' = [lease EXCEPT ![l] = "gone"] /\ ForgetLease(l)
  /\ UNCHANGED <<now, up, askVars>>

(* A registration that replaces a lease forgets it after leaving the mutex.        *)
Replace(l, i) ==
  /\ lease[l] \in {"live", "expired"} /\ issue[i] = Idle
  /\ lease' = [lease EXCEPT ![l] = "gone"]
  /\ issue' = [issue EXCEPT ![i] = [Idle EXCEPT !.at = "forget", !.lease = l]]
  /\ UNCHANGED <<now, up, mapVars, given, reported>>

(* A lease expires without leaving the table; a late renewal may bring it back.    *)
Expire(l) ==
  /\ lease[l] = "live" /\ lease' = [lease EXCEPT ![l] = "expired"]
  /\ UNCHANGED <<now, up, mapVars, issueVars>>

Revive(l) ==
  /\ lease[l] = "expired" /\ lease' = [lease EXCEPT ![l] = "live"]
  /\ UNCHANGED <<now, up, mapVars, issueVars>>

(* Runtime.Close clears both maps, once.                                          *)
Close ==
  /\ up /\ up' = FALSE
  /\ assignments' = [l \in {} |-> 0] /\ failures' = [l \in {} |-> 0]
  /\ reported' = [l \in Leases |-> Never]
  /\ UNCHANGED <<now, lease, askVars>>

Next ==
  \/ Tick \/ Close
  \/ \E l \in Leases : Remove(l) \/ Expire(l) \/ Revive(l)
  \/ \E i \in Issues :
       \/ \E l \in Leases : Register(l, i) \/ Replace(l, i)
       \/ \E l \in Leases, failed \in Gateways \cup {Direct} : Resolve(i, l, failed)
       \/ \E listed \in SUBSET Gateways : SelectGateway(i, listed)
       \/ IssueEndpoint(i) \/ Recheck(i) \/ RecheckForgets(i) \/ Answer(i)

Spec == Init /\ [][Next]_vars

TypeOK ==
  /\ now \in 1..MaxTime /\ lease \in [Leases -> {"new", "live", "expired", "gone"}] /\ up \in BOOLEAN
  /\ DOMAIN assignments \subseteq DOMAIN failures /\ DOMAIN failures \subseteq Leases
  /\ \A l \in DOMAIN assignments : assignments[l] \in Gateways
  /\ given \in [Issues -> Gateways \cup {Direct}]

(* The maps of the runtime do not outlive the leases: once a lease was removed     *)
(* and no request for it is under way, neither map has an entry for it, whichever  *)
(* of the removal and the selection came first.                                    *)
NoForgottenAssignment ==
  \A l \in Leases :
    (lease[l] = "gone" /\ \A i \in Issues : issue[i].lease # l) => l \notin DOMAIN failures

(* A gateway that a lease reported as failed is not given to it again before the   *)
(* retry delay is over, whichever request reported it and whichever asks; the      *)
(* delay counts from the clock of the request that reported it last.               *)
FailedGatewayRests ==
  \A i \in Issues :
    LET last == reported'[issue[i].lease][given'[i]]
    IN (issue[i].at = "select" /\ issue'[i].at = "recheck" /\ given'[i] # Direct)
         => last = 0 \/ last + RetryDelay <= now
=============================================================================
