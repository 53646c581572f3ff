--------------------------- MODULE KeylessBindings ---------------------------
(* The signing of tenant handshakes at the relay: BindingRegistry and helloFixing- *)
(* Conn of portal/keyless/bindings.go, Signer of signer.go, HandleSign and serve-  *)
(* CachedSite of portal/api_server.go, bridgeLeaseConn of portal/server.go and     *)
(* verifySigningAccessTokenLease of portal/lease.go.                               *)
EXTENDS Naturals, FiniteSets

CONSTANTS
  Visits,       \* visitor connections and cache fills; each has its own binding
  Requests,     \* /v1/sign requests
  MaxLeases     \* bound: leases

VARIABLES
  live,         \* leases in the registry
  visit,        \* where each connection is
  kind,         \* "visitor": the hello is known; "cache": the relay's own TLS client
  lease,        \* the lease it was issued for
  entry,        \* the binding's entry: "none", "unfixed", "fixed"
  late,         \* bindings whose lifetime is over
  req,          \* each request: its place, binding, token lease and hello
  signed        \* history: the requests that got a signature

vars == <<live, visit, kind, lease, entry, late, req, signed>>

Leases == 1..MaxLeases
NoRequest == [at |-> "none", binding |-> "none", lease |-> 0, hello |-> "none"]

Init ==
  /\ live = {1}
  /\ visit = [v \in Visits |-> "none"] /\ kind = [v \in Visits |-> "none"]
  /\ lease = [v \in Visits |-> 0] /\ entry = [v \in Visits |-> "none"] /\ late = {}
  /\ req = [q \in Requests |-> NoRequest] /\ signed = {}

-----------------------------------------------------------------------------
(* Issue, FixHello, Discard and SweepExpired *)

\* A visitor's hello is hashed into the entry; a cache fill's is fixed later.
Issue(v, l, k) ==
  /\ visit[v] = "none" /\ l \in live
  /\ visit' = [visit EXCEPT ![v] = "open"] /\ lease' = [lease EXCEPT ![v] = l]
  /\ kind' = [kind EXCEPT ![v] = k]
  /\ entry' = [entry EXCEPT ![v] = IF k = "visitor" THEN "fixed" ELSE "unfixed"]
  /\ UNCHANGED <<live, late, req, signed>>

\* The write that completes the hello pins it before it goes out, or is refused.
FixHelloOnWrite(v) ==
  /\ visit[v] = "open" /\ kind[v] = "cache" /\ entry[v] # "fixed"
  /\ IF entry[v] = "unfixed" /\ v \notin late
     THEN entry' = [entry EXCEPT ![v] = "fixed"] /\ UNCHANGED visit
     ELSE visit' = [visit EXCEPT ![v] = "done"] /\ UNCHANGED entry
  /\ UNCHANGED <<live, kind, lease, late, req, signed>>

\* The bridge ends, or the start frame could not be delivered.
Discard(v) ==
  /\ visit[v] = "open" /\ (kind[v] = "visitor" \/ entry[v] = "unfixed")
  /\ visit' = [visit EXCEPT ![v] = "done"]
  /\ entry' = [entry EXCEPT ![v] = "none"]
  /\ UNCHANGED <<live, kind, lease, late, req, signed>>

\* A cache fill does not revoke a binding whose start frame was delivered.
Leave(v) ==
  /\ visit[v] = "open" /\ kind[v] = "cache" /\ visit' = [visit EXCEPT ![v] = "done"]
  /\ UNCHANGED <<live, kind, lease, entry, late, req, signed>>

Expire(v) ==
  /\ visit[v] # "none" /\ v \notin late /\ late' = late \cup {v}
  /\ UNCHANGED <<live, visit, kind, lease, entry, req, signed>>

SweepExpired ==
  /\ \E v \in late : entry[v] # "none"
  /\ entry' = [v \in Visits |-> IF v \in late THEN "none" ELSE entry[v]]
  /\ UNCHANGED <<live, visit, kind, lease, late, req, signed>>

-----------------------------------------------------------------------------
(* HandleSign and ServeHTTP *)

\* A tenant asks with the token of its lease, and with the hello it received.
Send(q, v, l, h) ==
  /\ req[q].at = "none" /\ visit[v] # "none"
  /\ req' = [req EXCEPT ![q] = [at |-> "verify", binding |-> v, lease |-> l, hello |-> h]]
  /\ UNCHANGED <<live, visit, kind, lease, entry, late, signed>>

Answer(q, at) == req' = [req EXCEPT ![q].at = at]

\* The identity may be blocked by then.
VerifySigningAccessTokenLease(q) ==
  /\ req[q].at = "verify"
  /\ Answer(q, "refused") \/ (req[q].lease \in live /\ Answer(q, "sign"))
  /\ UNCHANGED <<live, visit, kind, lease, entry, late, signed>>

\* No key for the presented certificate, a malformed request, a clock out of range.
SignRefused(q) ==
  /\ req[q].at = "sign" /\ Answer(q, "refused")
  /\ UNCHANGED <<live, visit, kind, lease, entry, late, signed>>

\* Mutants: the lease is not compared; an unfixed hello fits every transcript.
FitsAnyLease(v, q) == v \notin late /\ entry[v] = "fixed" /\ req[q].hello = v
FitsUnfixed(v, q) ==
  /\ v \notin late /\ lease[v] = req[q].lease
  /\ entry[v] = "unfixed" \/ (entry[v] = "fixed" /\ req[q].hello = v)

Fits(v, q) ==
  /\ v \notin late /\ lease[v] = req[q].lease
  /\ entry[v] = "fixed" /\ req[q].hello = v

\* Mutant: a signature leaves the binding for the next request.
NotSpent(v) == entry

Spent(v) == [entry EXCEPT ![v] = "none"]

\* The transcript validator spends the binding; the signature follows.
ValidateAndConsume(q) ==
  /\ req[q].at = "sign"
  /\ LET v == req[q].binding IN
     IF Fits(v, q)
     THEN entry' = Spent(v) /\ Answer(q, "signed") /\ signed' = signed \cup {q}
     ELSE Answer(q, "refused") /\ UNCHANGED <<entry, signed>>
  /\ UNCHANGED <<live, visit, kind, lease, late>>

-----------------------------------------------------------------------------
(* The registry: a lease is replaced or removed.                                   *)

LeaseChanges ==
  /\ \/ live' = {} /\ live # {}
     \/ \E l \in Leases \ live : (\A k \in live : l > k) /\ live' = {l}
  /\ UNCHANGED <<visit, kind, lease, entry, late, req, signed>>

Next ==
  \/ \E v \in Visits :
       \/ \E l \in Leases, k \in {"visitor", "cache"} : Issue(v, l, k)
       \/ FixHelloOnWrite(v) \/ Discard(v) \/ Leave(v) \/ Expire(v)
  \/ SweepExpired \/ LeaseChanges
  \/ \E q \in Requests :
       \/ \E v, h \in Visits, l \in Leases : Send(q, v, l, h)
       \/ VerifySigningAccessTokenLease(q) \/ SignRefused(q) \/ ValidateAndConsume(q)

Spec == Init /\ [][Next]_vars

TypeOK ==
  /\ live \subseteq Leases /\ entry \in [Visits -> {"none", "unfixed", "fixed"}]
  /\ visit \in [Visits -> {"none", "open", "done"}]
  /\ \A q \in Requests : req[q].at \in {"none", "verify", "sign", "refused", "signed"}

(* A binding yields at most one signature, and only for the lease it was issued    *)
(* for and for the hello that was routed with it.                                  *)
SignedOnce ==
  /\ \A q \in signed :
       LET v == req[q].binding IN
       lease[v] = req[q].lease /\ req[q].hello = v /\ entry[v] = "none"
  /\ \A p, q \in signed : p # q => req[p].binding # req[q].binding

(* A revoked binding is never signed for: the signature was given before the       *)
(* bridge of its connection ended, or before its lifetime was over.                *)
SignedWhileOpen ==
  /\ signed' = signed
     \/ \A q \in signed' \ signed : entry[req[q].binding] = "fixed" /\ req[q].binding \notin late
  /\ \A v \in Visits : (visit[v] = "done" /\ entry[v] = "none") => entry'[v] = "none"
=============================================================================
