---------------------------- MODULE LeaseBridge ----------------------------
(***************************************************************************)
(* Public connections on their way to a lease: the ingress budget of the   *)
(* server (portal/server.go), the admission, activation and revocation of  *)
(* bridges (portal/lease.go, portal/record.go) and shutdown.  A worker     *)
(* checks the lease, waits for a reverse session, checks it again, and     *)
(* copies; a denial, the end of the lease or a shutdown may fall anywhere  *)
(* in between.                                                             *)
(*                                                                         *)
(* The leases are the successive registrations of one identity, so at most *)
(* one is in the registry.  The reverse pool is abstracted to handing out  *)
(* sessions until it is closed; ReversePool has the details.               *)
(*                                                                         *)
(* The proofs at the end are for any number of connections and leases and  *)
(* any limits.                                                             *)
(***************************************************************************)
EXTENDS Integers, FiniteSets, FiniteSetTheorems, TLAPS

CONSTANTS
  Conns,            \* public connections
  Leases,
  NoLease,
  InspectLimit,     \* publicInspectionLimit
  TenantLimit,      \* publicIngressLimit
  BridgeLimit       \* defaultLeaseBridgeLimit

VARIABLES
  pc,          \* where the worker of each connection is
  record,      \* the lease it was looked up to
  slot,        \* the budget it holds: releaseIngress's argument
  inbound,     \* public connections still open
  reverse,     \* its reverse session: none, held by the worker, open in the bridge
  late,        \* workers whose claim timeout is over
  inspecting,  \* Server.ingressInspecting
  tenants,     \* Server.ingressTenants
  tracked,     \* Server.ingressConns, one worker each
  stop,        \* how far Shutdown is
  last,        \* the lease CloseAll found in the registry
  current,     \* the lease in the registry
  expired,     \* it is past its expiry
  blocked,     \* its identity is not routable
  bridges,     \* leaseRecord.bridges, of all leases
  cancelled,   \* bridges whose context is cancelled
  departed,    \* leases taken out of the registry
  closed,      \* leaseRecord.closed
  poolClosed,  \* leases whose reverse pool has stopped
  closeDone    \* leases whose Close has returned

worker == <<pc, record, slot, inbound, reverse, late>>
budget == <<inspecting, tenants, tracked>>
registry == <<current, expired, blocked, departed>>
server == <<stop, last>>
close == <<closed, poolClosed, closeDone>>
vars == <<worker, budget, registry, bridges, cancelled, close, server>>

Stages == {"none", "inspecting", "tenant", "admit", "acquire", "activate", "framing",
           "copying", "unbridge", "release", "done"}

TypeOK ==
  /\ pc \in [Conns -> Stages]
  /\ record \in [Conns -> Leases \cup {NoLease}]
  /\ slot \in [Conns -> {"none", "inspecting", "tenant"}]
  /\ inbound \subseteq Conns
  /\ reverse \in [Conns -> {"none", "held", "open"}]
  /\ late \subseteq Conns
  /\ inspecting \in 0..InspectLimit
  /\ tenants \in 0..TenantLimit
  /\ tracked \subseteq Conns
  /\ stop \in {"up", "cancelled", "ingressClosed", "closing", "stopped"}
  /\ current \in Leases \cup {NoLease}
  /\ last \in Leases \cup {NoLease}
  /\ expired \in BOOLEAN
  /\ blocked \in BOOLEAN
  /\ bridges \subseteq Conns
  /\ cancelled \subseteq Conns
  /\ departed \subseteq Leases
  /\ closed \subseteq Leases
  /\ poolClosed \subseteq Leases
  /\ closeDone \subseteq Leases

Init ==
  /\ pc = [c \in Conns |-> "none"]
  /\ record = [c \in Conns |-> NoLease]
  /\ slot = [c \in Conns |-> "none"]
  /\ inbound = {}
  /\ reverse = [c \in Conns |-> "none"]
  /\ late = {}
  /\ inspecting = 0
  /\ tenants = 0
  /\ tracked = {}
  /\ stop = "up"
  /\ last = NoLease
  /\ current = NoLease
  /\ expired = FALSE
  /\ blocked = FALSE
  /\ bridges = {}
  /\ cancelled = {}
  /\ departed = {}
  /\ closed = {}
  /\ poolClosed = {}
  /\ closeDone = {}

Stopping == stop # "up"
IngressClosed == stop \in {"ingressClosed", "closing", "stopped"}
BridgesOf(l) == {c \in bridges : record[c] = l}

-----------------------------------------------------------------------------
(* Ingress *)

\* runPublicIngress accepts a TLS connection and starts its worker.
AcceptTLS(c) ==
  /\ pc[c] = "none"
  /\ ~IngressClosed
  /\ inspecting < InspectLimit
  /\ pc' = [pc EXCEPT ![c] = "inspecting"]
  /\ slot' = [slot EXCEPT ![c] = "inspecting"]
  /\ inbound' = inbound \cup {c}
  /\ tracked' = tracked \cup {c}
  /\ inspecting' = inspecting + 1
  /\ UNCHANGED <<record, reverse, late, tenants, registry, bridges, cancelled, close, server>>

\* serveTCP accepts on the lease's own port, which Close shuts.
AcceptTCP(c, l) ==
  /\ pc[c] = "none"
  /\ l \in departed \cup {current}
  /\ l \notin poolClosed
  /\ ~IngressClosed
  /\ tenants < TenantLimit
  /\ pc' = [pc EXCEPT ![c] = "admit"]
  /\ record' = [record EXCEPT ![c] = l]
  /\ slot' = [slot EXCEPT ![c] = "tenant"]
  /\ inbound' = inbound \cup {c}
  /\ tracked' = tracked \cup {c}
  /\ tenants' = tenants + 1
  /\ UNCHANGED <<reverse, late, inspecting, registry, bridges, cancelled, close, server>>

\* No readable ClientHello, or a connection for the relay itself: it is closed or
\* leaves for the HTTP server.
InspectDone(c) ==
  /\ pc[c] = "inspecting"
  /\ pc' = [pc EXCEPT ![c] = "release"]
  /\ inbound' = inbound \ {c}
  /\ UNCHANGED <<record, slot, reverse, late, budget, registry, bridges, cancelled, close, server>>

\* Mutant: the inspected connection keeps its first slot as well.
PromoteIngressKept(c) ==
  /\ pc[c] = "inspecting"
  /\ ~IngressClosed
  /\ tenants < TenantLimit
  /\ pc' = [pc EXCEPT ![c] = "tenant"]
  /\ slot' = [slot EXCEPT ![c] = "tenant"]
  /\ tenants' = tenants + 1
  /\ UNCHANGED <<record, inbound, reverse, late, inspecting, tracked, registry, bridges,
                 cancelled, close, server>>

PromoteIngress(c) ==
  /\ pc[c] = "inspecting"
  /\ ~IngressClosed
  /\ tenants < TenantLimit
  /\ pc' = [pc EXCEPT ![c] = "tenant"]
  /\ slot' = [slot EXCEPT ![c] = "tenant"]
  /\ inspecting' = inspecting - 1
  /\ tenants' = tenants + 1
  /\ UNCHANGED <<record, inbound, reverse, late, tracked, registry, bridges, cancelled,
                 close, server>>

Lookup(c) ==
  /\ pc[c] = "tenant"
  /\ current # NoLease /\ ~expired
  /\ pc' = [pc EXCEPT ![c] = "admit"]
  /\ record' = [record EXCEPT ![c] = current]
  /\ UNCHANGED <<slot, inbound, reverse, late, budget, registry, bridges, cancelled, close, server>>

LookupFailed(c) ==
  /\ pc[c] = "tenant"
  /\ current = NoLease \/ expired
  /\ pc' = [pc EXCEPT ![c] = "release"]
  /\ inbound' = inbound \ {c}
  /\ UNCHANGED <<record, slot, reverse, late, budget, registry, bridges, cancelled, close, server>>

\* Mutant: the slot the worker started with is released.
ReleaseIngressFirst(c) ==
  /\ pc[c] = "release"
  /\ pc' = [pc EXCEPT ![c] = "done"]
  /\ slot' = [slot EXCEPT ![c] = "none"]
  /\ record' = [record EXCEPT ![c] = NoLease]
  /\ late' = late \ {c}
  /\ cancelled' = cancelled \ {c}
  /\ tracked' = tracked \ {c}
  /\ inspecting' = inspecting - 1
  /\ tenants' = tenants
  /\ UNCHANGED <<inbound, reverse, registry, bridges, close, server>>

\* Mutant: a promoted worker is never done.
ReleaseIngressHeld(c) ==
  /\ pc[c] = "release"
  /\ pc' = [pc EXCEPT ![c] = "done"]
  /\ slot' = [slot EXCEPT ![c] = "none"]
  /\ record' = [record EXCEPT ![c] = NoLease]
  /\ late' = late \ {c}
  /\ cancelled' = cancelled \ {c}
  /\ tracked' = IF slot[c] = "tenant" THEN tracked ELSE tracked \ {c}
  /\ inspecting' = IF slot[c] = "inspecting" THEN inspecting - 1 ELSE inspecting
  /\ tenants' = IF slot[c] = "tenant" THEN tenants - 1 ELSE tenants
  /\ UNCHANGED <<inbound, reverse, registry, bridges, close, server>>

\* releaseIngress, the last deferred call of every worker.
ReleaseIngress(c) ==
  /\ pc[c] = "release"
  /\ pc' = [pc EXCEPT ![c] = "done"]
  /\ slot' = [slot EXCEPT ![c] = "none"]
  /\ record' = [record EXCEPT ![c] = NoLease]
  /\ late' = late \ {c}
  /\ cancelled' = cancelled \ {c}
  /\ tracked' = tracked \ {c}
  /\ inspecting' = IF slot[c] = "inspecting" THEN inspecting - 1 ELSE inspecting
  /\ tenants' = IF slot[c] = "tenant" THEN tenants - 1 ELSE tenants
  /\ UNCHANGED <<inbound, reverse, registry, bridges, close, server>>

-----------------------------------------------------------------------------
(* Bridges *)

\* Mutant: an identity that is not routable is admitted.
UsableUnblocked(l) == l = current /\ ~expired /\ l \notin closed

\* Mutant: the record the worker looked up is trusted.
UsableLookedUp(l) == ~expired /\ ~blocked

\* What admitBridge and activateBridge both ask of the lease, under the registry's
\* and the record's mutex.
Usable(l) == l = current /\ ~expired /\ ~blocked /\ l \notin closed

BridgesFull(l) == Cardinality(BridgesOf(l)) >= BridgeLimit

AdmitBridge(c) ==
  /\ pc[c] = "admit"
  /\ Usable(record[c]) /\ ~Stopping /\ ~BridgesFull(record[c])
  /\ pc' = [pc EXCEPT ![c] = "acquire"]
  /\ bridges' = bridges \cup {c}
  /\ UNCHANGED <<record, slot, inbound, reverse, late, budget, registry, cancelled, close, server>>

AdmitRefused(c) ==
  /\ pc[c] = "admit"
  /\ ~Usable(record[c]) \/ Stopping \/ BridgesFull(record[c])
  /\ pc' = [pc EXCEPT ![c] = "release"]
  /\ inbound' = inbound \ {c}
  /\ UNCHANGED <<record, slot, reverse, late, budget, registry, bridges, cancelled, close, server>>

\* Acquire returns a session the pool had, before its context ended.
Acquire(c) ==
  /\ pc[c] = "acquire"
  /\ c \notin cancelled \cup late
  /\ record[c] \notin poolClosed
  /\ pc' = [pc EXCEPT ![c] = "activate"]
  /\ reverse' = [reverse EXCEPT ![c] = "held"]
  /\ UNCHANGED <<record, slot, inbound, late, budget, registry, bridges, cancelled, close, server>>

AcquireFailed(c) ==
  /\ pc[c] = "acquire"
  /\ c \in cancelled \cup late \/ record[c] \in poolClosed
  /\ pc' = [pc EXCEPT ![c] = "unbridge"]
  /\ UNCHANGED <<record, slot, inbound, reverse, late, budget, registry, bridges, cancelled,
                 close, server>>

ClaimTimeout(c) ==
  /\ pc[c] \in {"acquire", "activate", "framing"}
  /\ c \notin late
  /\ late' = late \cup {c}
  /\ UNCHANGED <<pc, record, slot, inbound, reverse, budget, registry, bridges, cancelled,
                 close, server>>

Activatable(c) == Usable(record[c]) /\ c \in bridges /\ c \notin cancelled

ActivateBridge(c) ==
  /\ pc[c] = "activate"
  /\ Activatable(c)
  /\ pc' = [pc EXCEPT ![c] = "framing"]
  /\ reverse' = [reverse EXCEPT ![c] = "open"]
  /\ UNCHANGED <<record, slot, inbound, late, budget, registry, bridges, cancelled, close, server>>

ActivateRefused(c) ==
  /\ pc[c] = "activate"
  /\ ~Activatable(c)
  /\ pc' = [pc EXCEPT ![c] = "unbridge"]
  /\ reverse' = [reverse EXCEPT ![c] = "none"]
  /\ UNCHANGED <<record, slot, inbound, late, budget, registry, bridges, cancelled, close, server>>

\* WriteTLSStart or WriteRawStart succeeds and proxy.bridge takes over.
StartWritten(c) ==
  /\ pc[c] = "framing"
  /\ reverse[c] = "open"
  /\ pc' = [pc EXCEPT ![c] = "copying"]
  /\ UNCHANGED <<record, slot, inbound, reverse, late, budget, registry, bridges, cancelled,
                 close, server>>

\* The session was dead: close it and acquire another.
StartFailed(c) ==
  /\ pc[c] = "framing"
  /\ pc' = [pc EXCEPT ![c] = "acquire"]
  /\ reverse' = [reverse EXCEPT ![c] = "none"]
  /\ UNCHANGED <<record, slot, inbound, late, budget, registry, bridges, cancelled, close, server>>

CopyEnds(c) ==
  /\ pc[c] = "copying"
  /\ pc' = [pc EXCEPT ![c] = "unbridge"]
  /\ inbound' = inbound \ {c}
  /\ reverse' = [reverse EXCEPT ![c] = "none"]
  /\ UNCHANGED <<record, slot, late, budget, registry, bridges, cancelled, close, server>>

\* The peers are done, in their own time.
CopyPeerEnds(c) == CopyEnds(c)

\* Mutant: the copy does not notice.
CopyCancelledDeaf(c) == FALSE

\* The context ended or an endpoint was closed: proxy.bridge closes both.
CopyCancelled(c) ==
  /\ c \in cancelled \/ c \notin inbound \/ reverse[c] = "none"
  /\ CopyEnds(c)

\* releaseBridge: cancel, close both endpoints, drop the reservation.
releaseBridge(c) ==
  /\ bridges' = bridges \ {c}
  /\ cancelled' = cancelled \cup {c}
  /\ inbound' = inbound \ {c}
  /\ reverse' = [reverse EXCEPT ![c] = IF @ = "open" THEN "none" ELSE @]

Unbridge(c) ==
  /\ pc[c] = "unbridge"
  /\ releaseBridge(c)
  /\ pc' = [pc EXCEPT ![c] = "release"]
  /\ UNCHANGED <<record, slot, late, budget, registry, close, server>>

-----------------------------------------------------------------------------
(* The lease and its identity *)

\* A registration of the identity enters the table; the lease it replaces departs.
Register(l) ==
  /\ l \notin departed \cup {current}
  /\ current' = l
  /\ expired' = FALSE
  /\ departed' = departed \cup ({current} \ {NoLease})
  /\ UNCHANGED <<worker, budget, blocked, bridges, cancelled, close, server>>

Expire ==
  /\ current # NoLease /\ ~expired
  /\ expired' = TRUE
  /\ UNCHANGED <<worker, budget, current, blocked, departed, bridges, cancelled, close, server>>

\* Unregister or the janitor.
Depart ==
  /\ current # NoLease
  /\ current' = NoLease
  /\ expired' = FALSE
  /\ departed' = departed \cup {current}
  /\ UNCHANGED <<worker, budget, blocked, bridges, cancelled, close, server>>

\* revokeBridgesLocked reaches the lease in the table.
Revoked == BridgesOf(current)

\* A decision other than routable, or a suspension.
Deny ==
  /\ blocked' = TRUE
  /\ cancelled' = cancelled \cup Revoked
  /\ UNCHANGED <<worker, budget, current, expired, departed, bridges, close, server>>

Allow ==
  /\ blocked
  /\ blocked' = FALSE
  /\ UNCHANGED <<worker, budget, current, expired, departed, bridges, cancelled, close, server>>

-----------------------------------------------------------------------------
(* leaseRecord.Close, for a lease that has departed *)

CloseBegin(l) ==
  /\ l \in departed \ closed
  /\ closed' = closed \cup {l}
  /\ cancelled' = cancelled \cup BridgesOf(l)
  /\ UNCHANGED <<worker, budget, registry, bridges, poolClosed, closeDone, server>>

\* Listener, mux and pool, outside the mutex.
CloseTransports(l) ==
  /\ l \in closed \ poolClosed
  /\ poolClosed' = poolClosed \cup {l}
  /\ UNCHANGED <<worker, budget, registry, bridges, cancelled, closed, closeDone, server>>

\* The bridges that were there when Close began, one after the other.
CloseBridge(l, c) ==
  /\ l \in poolClosed \ closeDone
  /\ c \in BridgesOf(l)
  /\ releaseBridge(c)
  /\ UNCHANGED <<pc, record, slot, late, budget, registry, close, server>>

CloseEnd(l) ==
  /\ l \in poolClosed \ closeDone
  /\ BridgesOf(l) = {}
  /\ closeDone' = closeDone \cup {l}
  /\ UNCHANGED <<worker, budget, registry, bridges, cancelled, closed, poolClosed, server>>

-----------------------------------------------------------------------------
(* Shutdown *)

\* The server's context is the parent of every bridge's.
ShutdownCancel ==
  /\ stop = "up"
  /\ stop' = "cancelled"
  /\ cancelled' = cancelled \cup bridges
  /\ UNCHANGED <<worker, budget, registry, bridges, close, last>>

\* closeIngress: no further worker, and the sockets of all there are.
CloseIngress ==
  /\ stop = "cancelled"
  /\ stop' = "ingressClosed"
  /\ inbound' = inbound \ tracked
  /\ UNCHANGED <<pc, record, slot, reverse, late, budget, registry, bridges, cancelled, close, last>>

CloseAll ==
  /\ stop = "ingressClosed"
  /\ stop' = "closing"
  /\ last' = current
  /\ current' = NoLease
  /\ expired' = FALSE
  /\ departed' = departed \cup ({current} \ {NoLease})
  /\ UNCHANGED <<worker, budget, blocked, bridges, cancelled, close>>

WorkersGone == tracked = {}

\* CloseAll has closed its lease, and ingressWorkers.Wait returns.
ShutdownDone ==
  /\ stop = "closing"
  /\ last \in closeDone \cup {NoLease}
  /\ WorkersGone
  /\ stop' = "stopped"
  /\ UNCHANGED <<worker, budget, registry, bridges, cancelled, close, last>>

-----------------------------------------------------------------------------
Work(c) ==
  \/ InspectDone(c) \/ PromoteIngress(c) \/ Lookup(c) \/ LookupFailed(c)
  \/ AdmitBridge(c) \/ AdmitRefused(c) \/ Acquire(c) \/ AcquireFailed(c)
  \/ ActivateBridge(c) \/ ActivateRefused(c) \/ StartWritten(c) \/ StartFailed(c)
  \/ CopyCancelled(c) \/ Unbridge(c) \/ ReleaseIngress(c)

Closing(l) ==
  CloseBegin(l) \/ CloseTransports(l) \/ (\E c \in Conns : CloseBridge(l, c)) \/ CloseEnd(l)

Shutdown == CloseIngress \/ CloseAll \/ ShutdownDone

Next ==
  \/ \E c \in Conns : AcceptTLS(c) \/ Work(c) \/ CopyPeerEnds(c) \/ ClaimTimeout(c)
  \/ \E c \in Conns, l \in Leases : AcceptTCP(c, l)
  \/ \E l \in Leases : Register(l) \/ Closing(l)
  \/ Expire \/ Depart \/ Deny \/ Allow
  \/ ShutdownCancel \/ Shutdown

Spec == Init /\ [][Next]_vars

-----------------------------------------------------------------------------
(* Properties *)

\* The budget counters are the connections that hold a slot, and every worker is
\* accounted for, through promotion and all early returns (admitIngress,
\* promoteIngress and releaseIngress, server.go).
IngressExact ==
  /\ inspecting = Cardinality({c \in Conns : slot[c] = "inspecting"})
  /\ tenants = Cardinality({c \in Conns : slot[c] = "tenant"})
  /\ tracked = {c \in Conns : slot[c] # "none"}

\* Pending and active bridges of a lease together stay within its limit, revoked
\* ones included until their worker ends (admitBridge, lease.go).
BridgesBounded == \A l \in Leases : Cardinality(BridgesOf(l)) <= BridgeLimit

\* Neither the ingress budget nor the bridge budget is ever overdrawn or leaked.
BudgetsExact == IngressExact /\ BridgesBounded

\* A bridge that survives a denial of its identity, the closing of its lease or the
\* start of a shutdown is cancelled, whichever step its worker is at; what is
\* cancelled copies no application data (activateBridge and revokeBridgesLocked).
RefusedIsCancelled ==
  \A c \in bridges :
    (blocked /\ record[c] = current) \/ record[c] \in closed \/ Stopping => c \in cancelled

\* When a lease's Close has returned no bridge of it exists or is ever added, though
\* workers that looked the lease up before may still come to admitBridge.
ClosedHasNoBridge == \A l \in closeDone : BridgesOf(l) = {}

\* A worker that has ended has left no endpoint open, on any path.
NothingLeftOpen ==
  \A c \in Conns : pc[c] = "done" => c \notin inbound \cup bridges /\ reverse[c] = "none"

\* When Shutdown is past its wait no worker runs and none will start.
StoppedIsQuiet ==
  stop = "stopped" => \A c \in Conns : pc[c] \in {"none", "done"}

\* What has been closed is gone for good: the bridges of a closed lease, the
\* endpoints of a finished worker, the workers of a stopped relay (leaseRecord.Close,
\* bridgeLeaseConn and Server.Shutdown).
ClosedIsQuiet == ClosedHasNoBridge /\ NothingLeftOpen /\ StoppedIsQuiet

\* A bridge that is revoked and not gone; a Shutdown that has begun, and one that got past
\* CloseAll and its wait for the ingress workers.
RevokedOpen == bridges \cap cancelled # {}
ShutdownAsked == stop = "cancelled"
ShutdownEnded == stop = "stopped"

-----------------------------------------------------------------------------
(* Proofs.  None of the three safety properties is inductive alone.  That a budget   *)
(* is given back once on every return needs to know what a worker holds where it     *)
(* stands (Lifecycle); that a closed lease has no bridge needs the order of the      *)
(* stages of leaseRecord.Close (CloseOrder).                                         *)

\* A leaf that names no prover is given to the SMT solver, then to Zenon, for up to half a
\* minute each.
USE SMTT(30), ZenonT(30)

\* The server's limits are numbers and the registry's "no lease" is not a lease.
BridgeAssumption ==
  /\ IsFiniteSet(Conns)
  /\ NoLease \notin Leases
  /\ InspectLimit \in Nat /\ TenantLimit \in Nat /\ BridgeLimit \in Nat

\* The stages between admitBridge and releaseBridge.
Bridging == {"acquire", "activate", "framing", "copying", "unbridge"}

\* Where a worker is tells what it holds: a slot, a lease, a reverse session, its
\* socket, a bridge.
Lifecycle ==
  \A c \in Conns :
    /\ slot[c] = "none" <=> pc[c] \in {"none", "done"}
    /\ pc[c] = "inspecting" => slot[c] = "inspecting"
    /\ pc[c] \in {"tenant", "admit"} \cup Bridging => slot[c] = "tenant"
    /\ pc[c] \in {"admit"} \cup Bridging => record[c] \in Leases
    /\ reverse[c] # "none" => pc[c] \in {"activate", "framing", "copying"}
    /\ c \in inbound => pc[c] \notin {"release", "done"}
    /\ c \in bridges => pc[c] \in Bridging /\ record[c] \in departed \cup {current}

\* Close goes through its stages in order.
CloseOrder == closeDone \subseteq poolClosed /\ poolClosed \subseteq closed

\* The inductive invariant.
BridgeInv ==
  TypeOK /\ Lifecycle /\ CloseOrder /\ BudgetsExact /\ RefusedIsCancelled /\ ClosedIsQuiet

\* The connections that hold a slot of kind x.
Holding(f, x) == {c \in Conns : f[c] = x}

\* How many connections hold a slot of kind x when c gets one of kind s (admitIngress,
\* promoteIngress and releaseIngress in server.go).
LEMMA SlotCount ==
  ASSUME BridgeAssumption, TypeOK, NEW c \in Conns, NEW s, slot' = [slot EXCEPT ![c] = s]
  PROVE  \A x :
           /\ Cardinality(Holding(slot, x)) \in Nat /\ Cardinality(Holding(slot', x)) \in Nat
           /\ Cardinality(Holding(slot', x)) =
                IF x = s /\ x # slot[c] THEN Cardinality(Holding(slot, x)) + 1
                ELSE IF x # s /\ x = slot[c] THEN Cardinality(Holding(slot, x)) - 1
                ELSE Cardinality(Holding(slot, x))
<1> SUFFICES ASSUME NEW x
             PROVE  /\ Cardinality(Holding(slot, x)) \in Nat
                    /\ Cardinality(Holding(slot', x)) \in Nat
                    /\ Cardinality(Holding(slot', x)) =
                         IF x = s /\ x # slot[c] THEN Cardinality(Holding(slot, x)) + 1
                         ELSE IF x # s /\ x = slot[c] THEN Cardinality(Holding(slot, x)) - 1
                         ELSE Cardinality(Holding(slot, x))
  BY ZenonT(30)
<1>1. /\ IsFiniteSet(Holding(slot, x)) /\ Cardinality(Holding(slot, x)) \in Nat
      /\ Cardinality(Holding(slot', x)) \in Nat
  <2>1. Holding(slot, x) \in SUBSET Conns /\ Holding(slot', x) \in SUBSET Conns
    BY DEF Holding
  <2> QED BY <2>1, FS_Subset, FS_CardinalityType, ZenonT(30) DEF BridgeAssumption
<1>2. CASE x = s /\ x # slot[c]
  <2>1. Holding(slot', x) = Holding(slot, x) \cup {c} /\ c \notin Holding(slot, x)
    BY <1>2 DEF Holding, TypeOK
  <2> QED BY <1>1, <1>2, <2>1, FS_AddElement, ZenonT(30)
<1>3. CASE x # s /\ x = slot[c]
  <2>1. Holding(slot', x) = Holding(slot, x) \ {c} /\ c \in Holding(slot, x)
    BY <1>3 DEF Holding, TypeOK
  <2> QED BY <1>1, <1>3, <2>1, FS_RemoveElement, ZenonT(30)
<1>4. CASE (x = s) = (x = slot[c])
  <2>1. Holding(slot', x) = Holding(slot, x)
    BY <1>4 DEF Holding, TypeOK
  <2> QED BY <1>1, <1>4, <2>1
<1> QED BY <1>2, <1>3, <1>4

\* Initially nobody holds anything.
LEMMA BridgeInit == BridgeAssumption /\ Init => BridgeInv
<1> SUFFICES ASSUME BridgeAssumption, Init PROVE BridgeInv
  OBVIOUS
<1>1. TypeOK
  <2>1. inspecting \in 0..InspectLimit /\ tenants \in 0..TenantLimit
    BY DEF BridgeAssumption, Init
  <2> QED BY <2>1, ZenonT(30) DEF Init, TypeOK, Stages
<1>2. Lifecycle /\ CloseOrder
  BY DEF Init, Lifecycle, Bridging, CloseOrder
<1>3. BudgetsExact
  <2>1. /\ {c \in Conns : slot[c] = "inspecting"} = {}
        /\ {c \in Conns : slot[c] = "tenant"} = {}
        /\ tracked = {c \in Conns : slot[c] # "none"} /\ inspecting = 0 /\ tenants = 0
    BY DEF Init
  <2>2. \A l \in Leases : BridgesOf(l) = {}
    BY DEF Init, BridgesOf
  <2> QED BY <2>1, <2>2, FS_EmptySet
          DEF BudgetsExact, IngressExact, BridgesBounded, BridgeAssumption
<1>4. RefusedIsCancelled /\ ClosedIsQuiet
  BY DEF Init, RefusedIsCancelled, ClosedIsQuiet, ClosedHasNoBridge, NothingLeftOpen,
         StoppedIsQuiet, Stopping
<1> QED BY <1>1, <1>2, <1>3, <1>4 DEF BridgeInv

\* Every step keeps what a worker holds and where it is in line: the handlers of a
\* connection give back what they took on every return, and the closing of a lease and a
\* shutdown take endpoints and bridges only.
LEMMA LifecycleStep ==
  ASSUME BridgeAssumption, TypeOK, Lifecycle, [Next]_vars
  PROVE  Lifecycle'
<1> USE DEF TypeOK, Lifecycle, Bridging, Stages, vars, worker, budget, registry, server,
            close
<1>1. ASSUME NEW c \in Conns, AcceptTLS(c) PROVE Lifecycle'
  BY <1>1 DEF AcceptTLS, IngressClosed
<1>2. ASSUME NEW c \in Conns, InspectDone(c) PROVE Lifecycle'
  BY <1>2 DEF InspectDone
<1>3. ASSUME NEW c \in Conns, PromoteIngress(c) PROVE Lifecycle'
  BY <1>3 DEF PromoteIngress, IngressClosed
<1>4. ASSUME NEW c \in Conns, Lookup(c) PROVE Lifecycle'
  BY <1>4 DEF Lookup
<1>5. ASSUME NEW c \in Conns, LookupFailed(c) PROVE Lifecycle'
  BY <1>5 DEF LookupFailed
<1>6. ASSUME NEW c \in Conns, AdmitBridge(c) PROVE Lifecycle'
  BY <1>6 DEF AdmitBridge, Usable, Stopping
<1>7. ASSUME NEW c \in Conns, AdmitRefused(c) PROVE Lifecycle'
  BY <1>7 DEF AdmitRefused
<1>8. ASSUME NEW c \in Conns, Acquire(c) PROVE Lifecycle'
  BY <1>8 DEF Acquire
<1>9. ASSUME NEW c \in Conns, AcquireFailed(c) PROVE Lifecycle'
  BY <1>9 DEF AcquireFailed
<1>10. ASSUME NEW c \in Conns, ActivateBridge(c) PROVE Lifecycle'
  BY <1>10 DEF ActivateBridge, Activatable, Usable
<1>11. ASSUME NEW c \in Conns, ActivateRefused(c) PROVE Lifecycle'
  BY <1>11 DEF ActivateRefused
<1>12. ASSUME NEW c \in Conns, StartWritten(c) PROVE Lifecycle'
  BY <1>12 DEF StartWritten
<1>13. ASSUME NEW c \in Conns, StartFailed(c) PROVE Lifecycle'
  BY <1>13 DEF StartFailed
<1>14. ASSUME NEW c \in Conns, CopyCancelled(c) PROVE Lifecycle'
  BY <1>14 DEF CopyCancelled, CopyEnds
<1>15. ASSUME NEW c \in Conns, Unbridge(c) PROVE Lifecycle'
  BY <1>15 DEF Unbridge, releaseBridge
<1>16. ASSUME NEW c \in Conns, ReleaseIngress(c) PROVE Lifecycle'
  BY <1>16 DEF ReleaseIngress
<1>17. ASSUME NEW c \in Conns, CopyPeerEnds(c) PROVE Lifecycle'
  BY <1>17 DEF CopyPeerEnds, CopyEnds
<1>18. ASSUME NEW c \in Conns, ClaimTimeout(c) PROVE Lifecycle'
  BY <1>18 DEF ClaimTimeout
<1>19. ASSUME NEW c \in Conns, NEW l \in Leases, AcceptTCP(c, l) PROVE Lifecycle'
  BY <1>19 DEF AcceptTCP, IngressClosed
<1>20. ASSUME NEW l \in Leases, Register(l) PROVE Lifecycle'
  BY <1>20 DEF Register, BridgeAssumption
<1>21. ASSUME NEW l \in Leases, CloseBegin(l) PROVE Lifecycle'
  BY <1>21 DEF CloseBegin, BridgesOf
<1>22. ASSUME NEW l \in Leases, CloseTransports(l) PROVE Lifecycle'
  BY <1>22 DEF CloseTransports
<1>23. ASSUME NEW l \in Leases, NEW c \in Conns, CloseBridge(l, c) PROVE Lifecycle'
  BY <1>23 DEF CloseBridge, releaseBridge, BridgesOf
<1>24. ASSUME NEW l \in Leases, CloseEnd(l) PROVE Lifecycle'
  BY <1>24 DEF CloseEnd, BridgesOf
<1>25. CASE Expire
  BY <1>25 DEF Expire
<1>26. CASE Depart
  BY <1>26 DEF Depart, BridgeAssumption
<1>27. CASE Deny
  BY <1>27 DEF Deny, Revoked, BridgesOf
<1>28. CASE Allow
  BY <1>28 DEF Allow
<1>29. CASE ShutdownCancel
  BY <1>29 DEF ShutdownCancel
<1>30. CASE CloseIngress
  BY <1>30 DEF CloseIngress
<1>31. CASE CloseAll
  BY <1>31 DEF CloseAll, BridgeAssumption
<1>32. CASE ShutdownDone
  BY <1>32 DEF ShutdownDone, WorkersGone
<1>33. CASE UNCHANGED vars
  BY <1>33 DEF vars
<1> QED BY <1>1, <1>2, <1>3, <1>4, <1>5, <1>6, <1>7, <1>8, <1>9, <1>10, <1>11, <1>12,
           <1>13, <1>14, <1>15, <1>16, <1>17, <1>18, <1>19, <1>20, <1>21, <1>22, <1>23,
           <1>24, <1>25, <1>26, <1>27, <1>28, <1>29, <1>30, <1>31, <1>32, <1>33, ZenonT(30) DEF
           Next, Work, Closing, Shutdown

\* leaseRecord.Close marks the record, stops the transports and returns, in that order.
LEMMA OrderStep ==
  ASSUME BridgeAssumption, CloseOrder, [Next]_vars
  PROVE  CloseOrder'
<1> USE DEF CloseOrder
<1>1. ASSUME NEW l \in Leases, CloseBegin(l) PROVE CloseOrder'
  BY <1>1 DEF CloseBegin, BridgesOf
<1>2. ASSUME NEW l \in Leases, CloseTransports(l) PROVE CloseOrder'
  BY <1>2 DEF CloseTransports
<1>3. ASSUME NEW l \in Leases, CloseEnd(l) PROVE CloseOrder'
  BY <1>3 DEF CloseEnd, BridgesOf
<1>4. CASE UNCHANGED close
  BY <1>4 DEF close
<1> QED BY <1>1, <1>2, <1>3, <1>4, ZenonT(30) DEF Next, Work, Closing, Shutdown, AcceptTLS,
           InspectDone, PromoteIngress, Lookup, LookupFailed, AdmitBridge, AdmitRefused,
           Acquire, AcquireFailed, ActivateBridge, ActivateRefused, StartWritten,
           StartFailed, CopyCancelled, Unbridge, ReleaseIngress, CopyPeerEnds,
           ClaimTimeout, AcceptTCP, Register, CloseBridge, Expire, Depart, Deny, Allow,
           ShutdownCancel, CloseIngress, CloseAll, ShutdownDone, CopyEnds,
           releaseBridge, vars, worker, budget, registry, server, close

\* A denial, a closing and a shutdown cancel the bridges there are, admitBridge lets no
\* other in, and a lease that comes into the registry has none yet.
LEMMA RefusedStep ==
  ASSUME BridgeAssumption, TypeOK, Lifecycle, RefusedIsCancelled, [Next]_vars
  PROVE  RefusedIsCancelled'
<1> USE DEF TypeOK, Lifecycle, Bridging, RefusedIsCancelled, Stopping, BridgesOf, vars,
            worker, budget, registry, server, close
<1>1. ASSUME NEW c \in Conns, Lookup(c) PROVE RefusedIsCancelled'
  BY <1>1 DEF Lookup
<1>2. ASSUME NEW c \in Conns, AdmitBridge(c) PROVE RefusedIsCancelled'
  BY <1>2 DEF AdmitBridge, Usable, Stopping
<1>3. ASSUME NEW c \in Conns, Unbridge(c) PROVE RefusedIsCancelled'
  BY <1>3 DEF Unbridge, releaseBridge
<1>4. ASSUME NEW c \in Conns, ReleaseIngress(c) PROVE RefusedIsCancelled'
  BY <1>4 DEF ReleaseIngress
<1>5. ASSUME NEW c \in Conns, NEW l \in Leases, AcceptTCP(c, l) PROVE
      RefusedIsCancelled'
  BY <1>5 DEF AcceptTCP, IngressClosed
<1>6. ASSUME NEW l \in Leases, Register(l) PROVE RefusedIsCancelled'
  BY <1>6 DEF Register, BridgeAssumption
<1>7. ASSUME NEW l \in Leases, CloseBegin(l) PROVE RefusedIsCancelled'
  BY <1>7 DEF CloseBegin, BridgesOf
<1>8. ASSUME NEW l \in Leases, NEW c \in Conns, CloseBridge(l, c) PROVE
      RefusedIsCancelled'
  BY <1>8 DEF CloseBridge, releaseBridge, BridgesOf
<1>9. CASE Depart
  BY <1>9 DEF Depart, BridgeAssumption
<1>10. CASE Deny
  BY <1>10 DEF Deny, Revoked, BridgesOf
<1>11. CASE Allow
  BY <1>11 DEF Allow
<1>12. CASE ShutdownCancel
  BY <1>12 DEF ShutdownCancel
<1>13. CASE CloseIngress
  BY <1>13 DEF CloseIngress
<1>14. CASE CloseAll
  BY <1>14 DEF CloseAll, BridgeAssumption
<1>15. CASE ShutdownDone
  BY <1>15 DEF ShutdownDone, WorkersGone
<1>16. CASE UNCHANGED <<bridges, record, cancelled, current, blocked, closed, stop>>
  BY <1>16 DEF vars
<1> QED BY <1>1, <1>2, <1>3, <1>4, <1>5, <1>6, <1>7, <1>8, <1>9, <1>10, <1>11, <1>12,
           <1>13, <1>14, <1>15, <1>16, ZenonT(30) DEF Next, Work, Closing, Shutdown, AcceptTLS,
           InspectDone, PromoteIngress, LookupFailed, AdmitRefused, Acquire,
           AcquireFailed, ActivateBridge, ActivateRefused, StartWritten, StartFailed,
           CopyCancelled, CopyPeerEnds, ClaimTimeout, CloseTransports, CloseEnd, Expire,
           CopyEnds

\* What was closed stays quiet: a closed lease admits no bridge, a worker ends after its
\* endpoints, and Shutdown waits for the workers.
LEMMA QuietStep ==
  ASSUME BridgeAssumption, TypeOK, Lifecycle, CloseOrder, IngressExact, ClosedIsQuiet,
    [Next]_vars
  PROVE  ClosedIsQuiet'
<1> USE DEF TypeOK, Lifecycle, Bridging, CloseOrder, IngressExact, ClosedIsQuiet,
            ClosedHasNoBridge, NothingLeftOpen, StoppedIsQuiet, BridgesOf, vars, worker,
            budget, registry, server, close
<1>1. ASSUME NEW c \in Conns, AcceptTLS(c) PROVE ClosedIsQuiet'
  BY <1>1 DEF AcceptTLS, IngressClosed
<1>2. ASSUME NEW c \in Conns, InspectDone(c) PROVE ClosedIsQuiet'
  BY <1>2 DEF InspectDone
<1>3. ASSUME NEW c \in Conns, PromoteIngress(c) PROVE ClosedIsQuiet'
  BY <1>3 DEF PromoteIngress, IngressClosed
<1>4. ASSUME NEW c \in Conns, Lookup(c) PROVE ClosedIsQuiet'
  BY <1>4 DEF Lookup
<1>5. ASSUME NEW c \in Conns, LookupFailed(c) PROVE ClosedIsQuiet'
  BY <1>5 DEF LookupFailed
<1>6. ASSUME NEW c \in Conns, AdmitBridge(c) PROVE ClosedIsQuiet'
  BY <1>6 DEF AdmitBridge, Usable, Stopping
<1>7. ASSUME NEW c \in Conns, AdmitRefused(c) PROVE ClosedIsQuiet'
  BY <1>7 DEF AdmitRefused
<1>8. ASSUME NEW c \in Conns, Acquire(c) PROVE ClosedIsQuiet'
  BY <1>8 DEF Acquire
<1>9. ASSUME NEW c \in Conns, AcquireFailed(c) PROVE ClosedIsQuiet'
  BY <1>9 DEF AcquireFailed
<1>10. ASSUME NEW c \in Conns, ActivateBridge(c) PROVE ClosedIsQuiet'
  BY <1>10 DEF ActivateBridge, Activatable, Usable
<1>11. ASSUME NEW c \in Conns, ActivateRefused(c) PROVE ClosedIsQuiet'
  BY <1>11 DEF ActivateRefused
<1>12. ASSUME NEW c \in Conns, StartWritten(c) PROVE ClosedIsQuiet'
  BY <1>12 DEF StartWritten
<1>13. ASSUME NEW c \in Conns, StartFailed(c) PROVE ClosedIsQuiet'
  BY <1>13 DEF StartFailed
<1>14. ASSUME NEW c \in Conns, CopyCancelled(c) PROVE ClosedIsQuiet'
  BY <1>14 DEF CopyCancelled, CopyEnds
<1>15. ASSUME NEW c \in Conns, Unbridge(c) PROVE ClosedIsQuiet'
  BY <1>15 DEF Unbridge, releaseBridge
<1>16. ASSUME NEW c \in Conns, ReleaseIngress(c) PROVE ClosedIsQuiet'
  BY <1>16 DEF ReleaseIngress
<1>17. ASSUME NEW c \in Conns, CopyPeerEnds(c) PROVE ClosedIsQuiet'
  BY <1>17 DEF CopyPeerEnds, CopyEnds
<1>18. ASSUME NEW c \in Conns, ClaimTimeout(c) PROVE ClosedIsQuiet'
  BY <1>18 DEF ClaimTimeout
<1>19. ASSUME NEW c \in Conns, NEW l \in Leases, AcceptTCP(c, l) PROVE ClosedIsQuiet'
  BY <1>19 DEF AcceptTCP, IngressClosed
<1>20. ASSUME NEW l \in Leases, Register(l) PROVE ClosedIsQuiet'
  BY <1>20 DEF Register, BridgeAssumption
<1>21. ASSUME NEW l \in Leases, CloseBegin(l) PROVE ClosedIsQuiet'
  BY <1>21 DEF CloseBegin, BridgesOf
<1>22. ASSUME NEW l \in Leases, CloseTransports(l) PROVE ClosedIsQuiet'
  BY <1>22 DEF CloseTransports
<1>23. ASSUME NEW l \in Leases, NEW c \in Conns, CloseBridge(l, c) PROVE ClosedIsQuiet'
  BY <1>23 DEF CloseBridge, releaseBridge, BridgesOf
<1>24. ASSUME NEW l \in Leases, CloseEnd(l) PROVE ClosedIsQuiet'
  BY <1>24 DEF CloseEnd, BridgesOf
<1>25. CASE Expire
  BY <1>25 DEF Expire
<1>26. CASE Depart
  BY <1>26 DEF Depart, BridgeAssumption
<1>27. CASE Deny
  BY <1>27 DEF Deny, Revoked, BridgesOf
<1>28. CASE Allow
  BY <1>28 DEF Allow
<1>29. CASE ShutdownCancel
  BY <1>29 DEF ShutdownCancel
<1>30. CASE CloseIngress
  BY <1>30 DEF CloseIngress
<1>31. CASE CloseAll
  BY <1>31 DEF CloseAll, BridgeAssumption
<1>32. CASE ShutdownDone
  BY <1>32 DEF ShutdownDone, WorkersGone
<1>33. CASE UNCHANGED vars
  BY <1>33 DEF vars
<1> QED BY <1>1, <1>2, <1>3, <1>4, <1>5, <1>6, <1>7, <1>8, <1>9, <1>10, <1>11, <1>12,
           <1>13, <1>14, <1>15, <1>16, <1>17, <1>18, <1>19, <1>20, <1>21, <1>22, <1>23,
           <1>24, <1>25, <1>26, <1>27, <1>28, <1>29, <1>30, <1>31, <1>32, <1>33, ZenonT(30) DEF
           Next, Work, Closing, Shutdown

\* The counters of the ingress are exact and within their limits.
Counted ==
  IngressExact /\ inspecting \in 0..InspectLimit /\ tenants \in 0..TenantLimit

\* The counters follow the slots through acceptance, promotion and release.
LEMMA IngressStep ==
  ASSUME BridgeAssumption, TypeOK, Lifecycle, IngressExact, [Next]_vars
  PROVE  Counted'
<1> USE DEF budget, worker
<1>1. ASSUME NEW c \in Conns, AcceptTLS(c) PROVE Counted'
  <2>1. slot' = [slot EXCEPT ![c] = "inspecting"]
    BY <1>1 DEF AcceptTLS
  <2>2. \A x :
          /\ Cardinality(Holding(slot, x)) \in Nat /\ Cardinality(Holding(slot', x)) \in
            Nat
          /\ Cardinality(Holding(slot', x)) =
               IF x = "inspecting" /\ x # slot[c] THEN Cardinality(Holding(slot, x)) + 1
               ELSE IF x # "inspecting" /\ x = slot[c] THEN Cardinality(Holding(slot,
                 x)) - 1
               ELSE Cardinality(Holding(slot, x))
    BY <2>1, SlotCount, ZenonT(30)
  <2>3. slot[c] = "none"
    BY <1>1 DEF Lifecycle, TypeOK, Bridging, AcceptTLS
  <2>4. tracked' = {d \in Conns : slot'[d] # "none"}
    BY <1>1, <2>3 DEF IngressExact, TypeOK, budget, AcceptTLS
  <2>5. /\ inspecting \in 0..InspectLimit /\ tenants \in 0..TenantLimit
        /\ inspecting = Cardinality(Holding(slot, "inspecting"))
        /\ tenants = Cardinality(Holding(slot, "tenant"))
    BY DEF TypeOK, IngressExact, Holding
  <2>6. /\ Cardinality(Holding(slot', "inspecting")) \in Nat
        /\ Cardinality(Holding(slot', "tenant")) \in Nat
        /\ Cardinality(Holding(slot', "inspecting")) = inspecting + 1
        /\ Cardinality(Holding(slot', "tenant")) = tenants
    BY <2>2, <2>3, <2>5
  <2>7. /\ inspecting' = inspecting + 1
        /\ tenants' = tenants
        /\ inspecting' \in 0..InspectLimit /\ tenants' \in 0..TenantLimit
    BY <1>1, <2>3, <2>5, <2>6 DEF BridgeAssumption, AcceptTLS
  <2> QED BY <2>4, <2>6, <2>7 DEF Counted, IngressExact, Holding
<1>2. ASSUME NEW c \in Conns, PromoteIngress(c) PROVE Counted'
  <2>1. slot' = [slot EXCEPT ![c] = "tenant"]
    BY <1>2 DEF PromoteIngress
  <2>2. \A x :
          /\ Cardinality(Holding(slot, x)) \in Nat /\ Cardinality(Holding(slot', x)) \in
            Nat
          /\ Cardinality(Holding(slot', x)) =
               IF x = "tenant" /\ x # slot[c] THEN Cardinality(Holding(slot, x)) + 1
               ELSE IF x # "tenant" /\ x = slot[c] THEN Cardinality(Holding(slot, x)) -
                 1
               ELSE Cardinality(Holding(slot, x))
    BY <2>1, SlotCount, ZenonT(30)
  <2>3. slot[c] = "inspecting"
    BY <1>2 DEF Lifecycle, TypeOK, Bridging, PromoteIngress
  <2>4. tracked' = {d \in Conns : slot'[d] # "none"}
    BY <1>2, <2>3 DEF IngressExact, TypeOK, budget, PromoteIngress
  <2>5. /\ inspecting \in 0..InspectLimit /\ tenants \in 0..TenantLimit
        /\ inspecting = Cardinality(Holding(slot, "inspecting"))
        /\ tenants = Cardinality(Holding(slot, "tenant"))
    BY DEF TypeOK, IngressExact, Holding
  <2>6. /\ Cardinality(Holding(slot', "inspecting")) \in Nat
        /\ Cardinality(Holding(slot', "tenant")) \in Nat
        /\ Cardinality(Holding(slot', "inspecting")) = inspecting - 1
        /\ Cardinality(Holding(slot', "tenant")) = tenants + 1
    BY <2>2, <2>3, <2>5
  <2>7. /\ inspecting' = inspecting - 1
        /\ tenants' = tenants + 1
        /\ inspecting' \in 0..InspectLimit /\ tenants' \in 0..TenantLimit
    BY <1>2, <2>3, <2>5, <2>6 DEF BridgeAssumption, PromoteIngress
  <2> QED BY <2>4, <2>6, <2>7 DEF Counted, IngressExact, Holding
<1>3. ASSUME NEW c \in Conns, ReleaseIngress(c) PROVE Counted'
  <2>1. slot' = [slot EXCEPT ![c] = "none"]
    BY <1>3 DEF ReleaseIngress
  <2>2. \A x :
          /\ Cardinality(Holding(slot, x)) \in Nat /\ Cardinality(Holding(slot', x)) \in
            Nat
          /\ Cardinality(Holding(slot', x)) =
               IF x = "none" /\ x # slot[c] THEN Cardinality(Holding(slot, x)) + 1
               ELSE IF x # "none" /\ x = slot[c] THEN Cardinality(Holding(slot, x)) - 1
               ELSE Cardinality(Holding(slot, x))
    BY <2>1, SlotCount, ZenonT(30)
  <2>3. slot[c] \in {"inspecting", "tenant"}
    BY <1>3 DEF Lifecycle, TypeOK, Bridging, ReleaseIngress
  <2>4. tracked' = {d \in Conns : slot'[d] # "none"}
    BY <1>3, <2>3 DEF IngressExact, TypeOK, budget, ReleaseIngress
  <2>5. /\ inspecting \in 0..InspectLimit /\ tenants \in 0..TenantLimit
        /\ inspecting = Cardinality(Holding(slot, "inspecting"))
        /\ tenants = Cardinality(Holding(slot, "tenant"))
    BY DEF TypeOK, IngressExact, Holding
  <2>6. /\ Cardinality(Holding(slot', "inspecting")) \in Nat
        /\ Cardinality(Holding(slot', "tenant")) \in Nat
        /\ Cardinality(Holding(slot', "inspecting")) = IF slot[c] = "inspecting" THEN
          inspecting - 1 ELSE inspecting
        /\ Cardinality(Holding(slot', "tenant")) = IF slot[c] = "tenant" THEN tenants -
          1 ELSE tenants
    BY <2>2, <2>3, <2>5
  <2>7. /\ inspecting' = IF slot[c] = "inspecting" THEN inspecting - 1 ELSE inspecting
        /\ tenants' = IF slot[c] = "tenant" THEN tenants - 1 ELSE tenants
        /\ inspecting' \in 0..InspectLimit /\ tenants' \in 0..TenantLimit
    BY <1>3, <2>3, <2>5, <2>6 DEF BridgeAssumption, ReleaseIngress
  <2> QED BY <2>4, <2>6, <2>7 DEF Counted, IngressExact, Holding
<1>4. ASSUME NEW c \in Conns, NEW l \in Leases, AcceptTCP(c, l) PROVE Counted'
  <2>1. slot' = [slot EXCEPT ![c] = "tenant"]
    BY <1>4 DEF AcceptTCP
  <2>2. \A x :
          /\ Cardinality(Holding(slot, x)) \in Nat /\ Cardinality(Holding(slot', x)) \in
            Nat
          /\ Cardinality(Holding(slot', x)) =
               IF x = "tenant" /\ x # slot[c] THEN Cardinality(Holding(slot, x)) + 1
               ELSE IF x # "tenant" /\ x = slot[c] THEN Cardinality(Holding(slot, x)) -
                 1
               ELSE Cardinality(Holding(slot, x))
    BY <2>1, SlotCount, ZenonT(30)
  <2>3. slot[c] = "none"
    BY <1>4 DEF Lifecycle, TypeOK, Bridging, AcceptTCP
  <2>4. tracked' = {d \in Conns : slot'[d] # "none"}
    BY <1>4, <2>3 DEF IngressExact, TypeOK, budget, AcceptTCP
  <2>5. /\ inspecting \in 0..InspectLimit /\ tenants \in 0..TenantLimit
        /\ inspecting = Cardinality(Holding(slot, "inspecting"))
        /\ tenants = Cardinality(Holding(slot, "tenant"))
    BY DEF TypeOK, IngressExact, Holding
  <2>6. /\ Cardinality(Holding(slot', "inspecting")) \in Nat
        /\ Cardinality(Holding(slot', "tenant")) \in Nat
        /\ Cardinality(Holding(slot', "inspecting")) = inspecting
        /\ Cardinality(Holding(slot', "tenant")) = tenants + 1
    BY <2>2, <2>3, <2>5
  <2>7. /\ inspecting' = inspecting
        /\ tenants' = tenants + 1
        /\ inspecting' \in 0..InspectLimit /\ tenants' \in 0..TenantLimit
    BY <1>4, <2>3, <2>5, <2>6 DEF BridgeAssumption, AcceptTCP
  <2> QED BY <2>4, <2>6, <2>7 DEF Counted, IngressExact, Holding
<1>5. CASE UNCHANGED <<slot, budget>>
  BY <1>5 DEF Counted, IngressExact, TypeOK
<1> QED BY <1>1, <1>2, <1>3, <1>4, <1>5, ZenonT(30)
      DEF Next, Work, Closing, Shutdown, InspectDone,
           Lookup, LookupFailed, AdmitBridge, AdmitRefused, Acquire, AcquireFailed,
           ActivateBridge, ActivateRefused, StartWritten, StartFailed, CopyCancelled,
           Unbridge, CopyPeerEnds, ClaimTimeout, Register, CloseBegin, CloseTransports,
           CloseBridge, CloseEnd, Expire, Depart, Deny, Allow, ShutdownCancel,
           CloseIngress, CloseAll, ShutdownDone, CopyEnds, releaseBridge, vars,
           registry, server, close

\* Every step keeps the types, given that the counters stay in their range.
LEMMA TypeStep ==
  ASSUME BridgeAssumption, TypeOK, inspecting' \in 0..InspectLimit, tenants' \in
    0..TenantLimit, [Next]_vars
  PROVE  TypeOK'
<1> USE DEF TypeOK, Stages, vars, worker, budget, registry, server, close
<1>1. ASSUME NEW c \in Conns, AcceptTLS(c) PROVE TypeOK'
  BY <1>1 DEF AcceptTLS, IngressClosed
<1>2. ASSUME NEW c \in Conns, InspectDone(c) PROVE TypeOK'
  BY <1>2 DEF InspectDone
<1>3. ASSUME NEW c \in Conns, PromoteIngress(c) PROVE TypeOK'
  BY <1>3 DEF PromoteIngress, IngressClosed
<1>4. ASSUME NEW c \in Conns, Lookup(c) PROVE TypeOK'
  BY <1>4 DEF Lookup
<1>5. ASSUME NEW c \in Conns, LookupFailed(c) PROVE TypeOK'
  BY <1>5 DEF LookupFailed
<1>6. ASSUME NEW c \in Conns, AdmitBridge(c) PROVE TypeOK'
  BY <1>6 DEF AdmitBridge, Usable, Stopping
<1>7. ASSUME NEW c \in Conns, AdmitRefused(c) PROVE TypeOK'
  BY <1>7 DEF AdmitRefused
<1>8. ASSUME NEW c \in Conns, Acquire(c) PROVE TypeOK'
  BY <1>8 DEF Acquire
<1>9. ASSUME NEW c \in Conns, AcquireFailed(c) PROVE TypeOK'
  BY <1>9 DEF AcquireFailed
<1>10. ASSUME NEW c \in Conns, ActivateBridge(c) PROVE TypeOK'
  BY <1>10 DEF ActivateBridge, Activatable, Usable
<1>11. ASSUME NEW c \in Conns, ActivateRefused(c) PROVE TypeOK'
  BY <1>11 DEF ActivateRefused
<1>12. ASSUME NEW c \in Conns, StartWritten(c) PROVE TypeOK'
  BY <1>12 DEF StartWritten
<1>13. ASSUME NEW c \in Conns, StartFailed(c) PROVE TypeOK'
  BY <1>13 DEF StartFailed
<1>14. ASSUME NEW c \in Conns, CopyCancelled(c) PROVE TypeOK'
  BY <1>14 DEF CopyCancelled, CopyEnds
<1>15. ASSUME NEW c \in Conns, Unbridge(c) PROVE TypeOK'
  BY <1>15 DEF Unbridge, releaseBridge
<1>16. ASSUME NEW c \in Conns, ReleaseIngress(c) PROVE TypeOK'
  BY <1>16 DEF ReleaseIngress
<1>17. ASSUME NEW c \in Conns, CopyPeerEnds(c) PROVE TypeOK'
  BY <1>17 DEF CopyPeerEnds, CopyEnds
<1>18. ASSUME NEW c \in Conns, ClaimTimeout(c) PROVE TypeOK'
  BY <1>18 DEF ClaimTimeout
<1>19. ASSUME NEW c \in Conns, NEW l \in Leases, AcceptTCP(c, l) PROVE TypeOK'
  BY <1>19 DEF AcceptTCP, IngressClosed
<1>20. ASSUME NEW l \in Leases, Register(l) PROVE TypeOK'
  BY <1>20, ZenonT(30) DEF Register, BridgeAssumption
<1>21. ASSUME NEW l \in Leases, CloseBegin(l) PROVE TypeOK'
  BY <1>21 DEF CloseBegin, BridgesOf
<1>22. ASSUME NEW l \in Leases, CloseTransports(l) PROVE TypeOK'
  BY <1>22 DEF CloseTransports
<1>23. ASSUME NEW l \in Leases, NEW c \in Conns, CloseBridge(l, c) PROVE TypeOK'
  BY <1>23 DEF CloseBridge, releaseBridge, BridgesOf
<1>24. ASSUME NEW l \in Leases, CloseEnd(l) PROVE TypeOK'
  BY <1>24 DEF CloseEnd, BridgesOf
<1>25. CASE Expire
  BY <1>25 DEF Expire
<1>26. CASE Depart
  BY <1>26, ZenonT(30) DEF Depart, BridgeAssumption
<1>27. CASE Deny
  BY <1>27 DEF Deny, Revoked, BridgesOf
<1>28. CASE Allow
  BY <1>28, ZenonT(30) DEF Allow
<1>29. CASE ShutdownCancel
  BY <1>29 DEF ShutdownCancel
<1>30. CASE CloseIngress
  BY <1>30 DEF CloseIngress
<1>31. CASE CloseAll
  BY <1>31, ZenonT(30) DEF CloseAll, BridgeAssumption
<1>32. CASE ShutdownDone
  BY <1>32 DEF ShutdownDone, WorkersGone
<1>33. CASE UNCHANGED vars
  BY <1>33 DEF vars
<1> QED BY <1>1, <1>2, <1>3, <1>4, <1>5, <1>6, <1>7, <1>8, <1>9, <1>10, <1>11, <1>12,
           <1>13, <1>14, <1>15, <1>16, <1>17, <1>18, <1>19, <1>20, <1>21, <1>22, <1>23,
           <1>24, <1>25, <1>26, <1>27, <1>28, <1>29, <1>30, <1>31, <1>32, <1>33, ZenonT(30) DEF
           Next, Work, Closing, Shutdown

\* A lease whose bridges only end stays within its limit.
LEMMA BoundShrinks ==
  ASSUME BridgeAssumption, TypeOK, BridgesBounded,
         bridges' \subseteq bridges, \A c \in bridges' : record'[c] = record[c]
  PROVE  BridgesBounded'
<1> SUFFICES ASSUME NEW l \in Leases PROVE Cardinality(BridgesOf(l)') <= BridgeLimit
  BY DEF BridgesBounded
<1>1. BridgesOf(l)' \in SUBSET BridgesOf(l) /\ BridgesOf(l) \in SUBSET Conns
  BY DEF BridgesOf, TypeOK
<1>2. IsFiniteSet(BridgesOf(l)) /\ IsFiniteSet(BridgesOf(l)')
  BY <1>1, FS_Subset DEF BridgeAssumption
<1>3. Cardinality(BridgesOf(l)') <= Cardinality(BridgesOf(l))
  BY <1>1, <1>2, FS_Subset
<1>4. Cardinality(BridgesOf(l)) \in Nat /\ Cardinality(BridgesOf(l)') \in Nat
  BY <1>2, FS_CardinalityType
<1> QED BY <1>3, <1>4 DEF BridgesBounded, BridgeAssumption

\* admitBridge is the only step that adds a bridge, and it counts them first.
LEMMA BoundStep ==
  ASSUME BridgeAssumption, TypeOK, Lifecycle, BridgesBounded, [Next]_vars
  PROVE  BridgesBounded'
<1> USE DEF vars, worker, budget, registry, server, close
<1>1. ASSUME NEW c \in Conns, Lookup(c) PROVE BridgesBounded'
  BY <1>1, BoundShrinks DEF TypeOK, Lifecycle, Bridging, Lookup
<1>2. ASSUME NEW c \in Conns, AdmitBridge(c) PROVE BridgesBounded'
  <2>1. /\ record' = record /\ bridges' = bridges \cup {c} /\ c \notin bridges
        /\ ~BridgesFull(record[c])
    BY <1>2, BoundShrinks DEF TypeOK, Lifecycle, Bridging, AdmitBridge, Lifecycle,
       Bridging
  <2>2. ASSUME NEW l \in Leases PROVE Cardinality(BridgesOf(l)') <= BridgeLimit
    <3>1. BridgesOf(l) \in SUBSET Conns
      BY DEF BridgesOf, TypeOK
    <3>2. IsFiniteSet(BridgesOf(l)) /\ Cardinality(BridgesOf(l)) \in Nat
      BY <3>1, FS_Subset, FS_CardinalityType DEF BridgeAssumption
    <3>3. CASE record[c] = l
      <4>1. BridgesOf(l)' = BridgesOf(l) \cup {c} /\ c \notin BridgesOf(l)
        BY <2>1, <3>3 DEF BridgesOf
      <4>2. Cardinality(BridgesOf(l)') = Cardinality(BridgesOf(l)) + 1
        BY <3>2, <4>1, FS_AddElement, ZenonT(30)
      <4> QED BY <2>1, <3>2, <3>3, <4>2 DEF BridgesFull, BridgeAssumption
    <3>4. CASE record[c] # l
      <4>1. BridgesOf(l)' = BridgesOf(l)
        BY <2>1, <3>4 DEF BridgesOf
      <4> QED BY <4>1 DEF BridgesBounded
    <3> QED BY <3>3, <3>4
  <2> QED BY <2>2 DEF BridgesBounded
<1>3. ASSUME NEW c \in Conns, Unbridge(c) PROVE BridgesBounded'
  BY <1>3, BoundShrinks DEF TypeOK, Lifecycle, Bridging, Unbridge, releaseBridge
<1>4. ASSUME NEW c \in Conns, ReleaseIngress(c) PROVE BridgesBounded'
  BY <1>4, BoundShrinks DEF TypeOK, Lifecycle, Bridging, ReleaseIngress
<1>5. ASSUME NEW c \in Conns, NEW l \in Leases, AcceptTCP(c, l) PROVE BridgesBounded'
  BY <1>5, BoundShrinks DEF TypeOK, Lifecycle, Bridging, AcceptTCP, IngressClosed
<1>6. ASSUME NEW l \in Leases, NEW c \in Conns, CloseBridge(l, c) PROVE BridgesBounded'
  BY <1>6, BoundShrinks DEF TypeOK, Lifecycle, Bridging, CloseBridge, releaseBridge,
     BridgesOf
<1>7. CASE UNCHANGED <<bridges, record>>
  BY <1>7, BoundShrinks DEF TypeOK
<1> QED BY <1>1, <1>2, <1>3, <1>4, <1>5, <1>6, <1>7, ZenonT(30) DEF Next, Work, Closing, Shutdown,
           AcceptTLS, InspectDone, PromoteIngress, LookupFailed, AdmitRefused, Acquire,
           AcquireFailed, ActivateBridge, ActivateRefused, StartWritten, StartFailed,
           CopyCancelled, CopyPeerEnds, ClaimTimeout, Register, CloseBegin,
           CloseTransports, CloseEnd, Expire, Depart, Deny, Allow, ShutdownCancel,
           CloseIngress, CloseAll, ShutdownDone, CopyEnds

\* Every step preserves the invariant.
LEMMA BridgeStep == BridgeAssumption /\ BridgeInv /\ [Next]_vars => BridgeInv'
<1> SUFFICES ASSUME BridgeAssumption, BridgeInv, [Next]_vars PROVE BridgeInv'
  OBVIOUS
<1>1. /\ TypeOK /\ Lifecycle /\ CloseOrder /\ IngressExact /\ BridgesBounded
      /\ RefusedIsCancelled /\ ClosedIsQuiet
  BY DEF BridgeInv, BudgetsExact
<1>2. Counted'
  BY <1>1, IngressStep
<1>3. TypeOK'
  BY <1>1, <1>2, TypeStep DEF Counted
<1>4. BridgesBounded'
  BY <1>1, BoundStep
<1>5. BudgetsExact'
  BY <1>2, <1>4 DEF BudgetsExact, Counted
<1>6. Lifecycle' /\ CloseOrder' /\ RefusedIsCancelled' /\ ClosedIsQuiet'
  BY <1>1, LifecycleStep, OrderStep, RefusedStep, QuietStep
<1> QED BY <1>3, <1>5, <1>6 DEF BridgeInv

\* The invariant holds in every reachable state.
LEMMA BridgeInvariant == BridgeAssumption => (Spec => []BridgeInv)
<1> SUFFICES ASSUME BridgeAssumption PROVE Spec => []BridgeInv
  OBVIOUS
<1>1. Init => BridgeInv
  BY BridgeInit
<1>2. BridgeInv /\ [Next]_vars => BridgeInv'
  BY BridgeStep
<1> QED BY <1>1, <1>2, PTL DEF Spec

\* For any number of connections and leases and any limits, the counters of the ingress
\* are exactly the slots held and no lease exceeds its bridges, on every path through
\* admitIngress, promoteIngress, admitBridge, releaseBridge and releaseIngress.
THEOREM BridgeBudgetsExact == BridgeAssumption => (Spec => []BudgetsExact)
<1>1. BridgeInv => BudgetsExact
  BY DEF BridgeInv
<1> QED BY <1>1, BridgeInvariant, PTL

\* A bridge that outlives a denial of its identity, the closing of its lease or the start
\* of a shutdown is cancelled, wherever its worker is between admitBridge and releaseBridge
\* and however often the identity registered again.
THEOREM BridgeRefusedIsCancelled == BridgeAssumption => (Spec => []RefusedIsCancelled)
<1>1. BridgeInv => RefusedIsCancelled
  BY DEF BridgeInv
<1> QED BY <1>1, BridgeInvariant, PTL

\* A lease whose Close has returned has no bridge, a worker that has ended left nothing
\* open, and a relay whose Shutdown has returned runs no worker.
THEOREM BridgeClosedIsQuiet == BridgeAssumption => (Spec => []ClosedIsQuiet)
<1>1. BridgeInv => ClosedIsQuiet
  BY DEF BridgeInv
<1> QED BY <1>1, BridgeInvariant, PTL

=============================================================================
