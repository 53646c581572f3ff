--------------------------- MODULE OverlayConnect ---------------------------
(* One reverse connection through the overlay: a tenant calls the gateway relay  *)
(* (HandleConnect of portal/overlay/runtime.go), which dials the ingress relay;  *)
(* the ingress (Run, acceptReverse) offers the connection to the lease's pool    *)
(* (admitReverseOffer of portal/server.go) and answers with a status byte, and   *)
(* the gateway hands both connections to a bridge.  Deadlines and failures may   *)
(* end every read, write and dial.  Either relay's runtime may close.  The       *)
(* request limiter is SourceLimiter; here it may refuse any call.                *)
EXTENDS Naturals, FiniteSets

CONSTANTS
  Calls, Sources,
  ConnectionLimit, SourceLimit,  \* connectionLimit and sourceConnectionLimit of the gateway
  InboundLimit,                  \* the inbound slots of the ingress
  PoolLimit                      \* the lease's ready queue

VARIABLES
  call,      \* where HandleConnect is
  source,    \* who made the call
  outbound, active,  \* the gateway's admission counters
  held,      \* admissions a call has not yet released
  upstream,  \* the gateway's end of the overlay stream
  client,    \* the tenant's connection: owned by the HTTP server, hijacked or closed
  once,      \* bufferedConn.close has run
  inbound,   \* where the ingress is with the stream
  status,    \* the status byte the ingress sent
  slots,     \* inbound slots in use
  pool,      \* streams parked in the lease's pool
  reserved,  \* streams with a reservation there
  paused,    \* the pool takes nothing: the lease is suspended or closed
  gatewayUp, ingressUp

vars == <<call, source, outbound, active, held, upstream, client, once, inbound, status,
          slots, pool, reserved, paused, gatewayUp, ingressUp>>
gatewayVars == <<call, source, outbound, active, held, upstream, client, once>>
ingressVars == <<inbound, status, slots, pool, reserved>>
worldVars == <<paused, gatewayUp, ingressUp>>

Init ==
  /\ call = [c \in Calls |-> "idle"] /\ source = [c \in Calls |-> "none"]
  /\ outbound = 0 /\ active = [s \in Sources |-> 0] /\ held = {}
  /\ upstream = [c \in Calls |-> "none"] /\ client = [c \in Calls |-> "http"] /\ once = {}
  /\ inbound = [c \in Calls |-> "none"] /\ status = [c \in Calls |-> "none"] /\ slots = 0
  /\ pool = {} /\ reserved = {} /\ paused = FALSE /\ gatewayUp = TRUE /\ ingressUp = TRUE

-----------------------------------------------------------------------------
(* The gateway                                                                  *)

(* Mutant: the source's share is not looked at.                                   *)
TotalOnly(s) == outbound < ConnectionLimit
Admissible(s) == active[s] < SourceLimit /\ outbound < ConnectionLimit

(* Not ready, over the request rate, a capability for another relay, over a        *)
(* limit: all are answered with an error and hold nothing.                         *)
Refuse(c, s) ==
  /\ call[c] = "idle"
  /\ call' = [call EXCEPT ![c] = "done"] /\ source' = [source EXCEPT ![c] = s]
  /\ UNCHANGED <<outbound, active, held, upstream, client, once, ingressVars, worldVars>>

Admit(c, s) ==
  /\ call[c] = "idle" /\ gatewayUp /\ Admissible(s)
  /\ call' = [call EXCEPT ![c] = "dial"] /\ source' = [source EXCEPT ![c] = s]
  /\ outbound' = outbound + 1 /\ active' = [active EXCEPT ![s] = @ + 1]
  /\ held' = held \cup {c}
  /\ UNCHANGED <<upstream, client, once, ingressVars, worldVars>>

Release(c) ==
  /\ outbound' = outbound - 1 /\ active' = [active EXCEPT ![source[c]] = @ - 1]
  /\ held' = held \ {c}

(* Every early return runs the two deferred functions: the admission is released   *)
(* and the stream is closed.                                                       *)
Leave(c) ==
  /\ call' = [call EXCEPT ![c] = "done"] /\ Release(c)
  /\ upstream' = [upstream EXCEPT ![c] = IF @ = "open" THEN "closed" ELSE @]

(* dial: the stream reaches the ingress's listener, or not in time.                *)
Dial(c) ==
  /\ call[c] = "dial" /\ gatewayUp /\ ingressUp
  /\ upstream' = [upstream EXCEPT ![c] = "open"] /\ inbound' = [inbound EXCEPT ![c] = "accept"]
  /\ call' = [call EXCEPT ![c] = "write"]
  /\ UNCHANGED <<source, outbound, active, held, client, once, status, slots, pool, reserved,
                 worldVars>>

WriteCapability(c) ==
  /\ call[c] = "write" /\ upstream[c] = "open"
  /\ call' = [call EXCEPT ![c] = "answer"]
  /\ UNCHANGED <<source, outbound, active, held, upstream, client, once, ingressVars, worldVars>>

(* A dial, write, read or hijack that fails, and every status but accepted.        *)
Fails(c) ==
  /\ call[c] \in {"dial", "write", "answer", "hijack"} /\ Leave(c)
  /\ UNCHANGED <<source, client, once, ingressVars, worldVars>>

ReadAnswer(c) ==
  /\ call[c] = "answer" /\ status[c] = "accepted"
  /\ call' = [call EXCEPT ![c] = "hijack"]
  /\ UNCHANGED <<source, outbound, active, held, upstream, client, once, ingressVars, worldVars>>

Hijack(c) ==
  /\ call[c] = "hijack"
  /\ call' = [call EXCEPT ![c] = "upgrade"] /\ client' = [client EXCEPT ![c] = "hijacked"]
  /\ UNCHANGED <<source, outbound, active, held, upstream, once, ingressVars, worldVars>>

UpgradeFails(c) ==
  /\ call[c] = "upgrade" /\ Leave(c)
  /\ client' = [client EXCEPT ![c] = "closed"]
  /\ UNCHANGED <<source, once, ingressVars, worldVars>>

(* The 101 answer is out and AfterFunc is armed, which starts at once if the        *)
(* runtime is already closed; handoff is set after that.                            *)
Upgrade(c) ==
  /\ call[c] = "upgrade" /\ call' = [call EXCEPT ![c] = "armed"]
  /\ UNCHANGED <<source, outbound, active, held, upstream, client, once, ingressVars, worldVars>>

Handoff(c) ==
  /\ call[c] = "armed" /\ call' = [call EXCEPT ![c] = "bridge"]
  /\ UNCHANGED <<source, outbound, active, held, upstream, client, once, ingressVars, worldVars>>

(* bufferedConn.Close.  Mutant: the release is not guarded by the Once.             *)
CloseEach(c) == client' = [client EXCEPT ![c] = "closed"] /\ once' = once \cup {c} /\ Release(c)
CloseClient(c) ==
  /\ client' = [client EXCEPT ![c] = "closed"] /\ once' = once \cup {c}
  /\ IF c \in once THEN UNCHANGED <<outbound, active, held>> ELSE Release(c)

(* The AfterFunc of the runtime's context                                           *)
RuntimeCloses(c) ==
  /\ call[c] \in {"armed", "bridge"} /\ ~gatewayUp /\ c \notin once
  /\ CloseClient(c)
  /\ UNCHANGED <<call, source, upstream, ingressVars, worldVars>>

(* The bridge of Server.HandleConnect ends and closes both connections.             *)
BridgeEnds(c) ==
  /\ call[c] = "bridge" /\ CloseClient(c)
  /\ upstream' = [upstream EXCEPT ![c] = "closed"] /\ call' = [call EXCEPT ![c] = "done"]
  /\ UNCHANGED <<source, ingressVars, worldVars>>

-----------------------------------------------------------------------------
(* The ingress                                                                   *)

(* Run: a peer without an identity, or no free slot, is closed at once.             *)
AcceptRefused(c) ==
  /\ inbound[c] = "accept" /\ inbound' = [inbound EXCEPT ![c] = "closed"]
  /\ UNCHANGED <<gatewayVars, status, slots, pool, reserved, worldVars>>

Accept(c) ==
  /\ inbound[c] = "accept" /\ ingressUp /\ slots < InboundLimit
  /\ inbound' = [inbound EXCEPT ![c] = "read"] /\ slots' = slots + 1
  /\ UNCHANGED <<gatewayVars, status, pool, reserved, worldVars>>

(* acceptReverse: a failed read ends it, and so does the closed runtime.              *)
ReverseEnds(c) ==
  /\ inbound[c] \in {"read", "offer"}
  /\ inbound' = [inbound EXCEPT ![c] = "closed"] /\ slots' = slots - 1
  /\ UNCHANGED <<gatewayVars, status, pool, reserved, worldVars>>

(* verifyCapability and the comparison with the peer: the capability must be this      *)
(* ingress's own, not expired, and made out to the gateway that sends it.              *)
Unverified(c) ==
  /\ inbound[c] = "read" /\ call[c] \in {"answer", "done"}
  /\ status' = [status EXCEPT ![c] = "unavailable"]
  /\ inbound' = [inbound EXCEPT ![c] = "closed"] /\ slots' = slots - 1
  /\ UNCHANGED <<gatewayVars, pool, reserved, worldVars>>

ReadCapability(c) ==
  /\ inbound[c] = "read" /\ call[c] \in {"answer", "done"}
  /\ inbound' = [inbound EXCEPT ![c] = "offer"]
  /\ UNCHANGED <<gatewayVars, status, slots, pool, reserved, worldVars>>

(* An admission worker takes the offer; the slot is free again.                      *)
TakeOffer(c) ==
  /\ inbound[c] = "offer"
  /\ inbound' = [inbound EXCEPT ![c] = "taken"] /\ slots' = slots - 1
  /\ UNCHANGED <<gatewayVars, status, pool, reserved, worldVars>>

(* Mutant: room is looked for among the parked streams only.                         *)
RoomParked == Cardinality(pool) < PoolLimit
Room == Cardinality(pool \cup reserved) < PoolLimit

(* admitReverseOffer: admitLeaseIdentity finds the lease routable, or refuses.        *)
AdmitLease(c) ==
  /\ inbound[c] = "taken" /\ ~paused /\ inbound' = [inbound EXCEPT ![c] = "admitted"]
  /\ UNCHANGED <<gatewayVars, status, slots, pool, reserved, worldVars>>

(* ReserveOffer looks at the room only; a pause since the admission shows at Commit.  *)
Reserve(c) ==
  /\ inbound[c] = "admitted" /\ Room
  /\ inbound' = [inbound EXCEPT ![c] = "reserved"] /\ reserved' = reserved \cup {c}
  /\ UNCHANGED <<gatewayVars, status, slots, pool, worldVars>>

Reject(c) ==
  /\ \/ inbound[c] = "taken" /\ \E s \in {"pending", "denied", "unavailable"} :
                                   status' = [status EXCEPT ![c] = s]
     \/ inbound[c] = "admitted" /\ (paused \/ ~Room) /\ status' = [status EXCEPT ![c] = "capacity"]
  /\ inbound' = [inbound EXCEPT ![c] = "closed"]
  /\ UNCHANGED <<gatewayVars, slots, pool, reserved, worldVars>>

Accepted(c) ==
  /\ inbound[c] = "reserved" /\ status[c] = "none"
  /\ status' = [status EXCEPT ![c] = "accepted"]
  /\ UNCHANGED <<gatewayVars, inbound, slots, pool, reserved, worldVars>>

AcceptWriteFails(c) ==
  /\ inbound[c] = "reserved" /\ status[c] = "none"
  /\ inbound' = [inbound EXCEPT ![c] = "closed"] /\ reserved' = reserved \ {c}
  /\ UNCHANGED <<gatewayVars, status, slots, pool, worldVars>>

(* Commit parks the stream unless the pool was paused or closed meanwhile.           *)
Commit(c) ==
  /\ inbound[c] = "reserved" /\ status[c] = "accepted"
  /\ reserved' = reserved \ {c}
  /\ IF paused THEN inbound' = [inbound EXCEPT ![c] = "closed"] /\ UNCHANGED pool
               ELSE inbound' = [inbound EXCEPT ![c] = "parked"] /\ pool' = pool \cup {c}
  /\ UNCHANGED <<gatewayVars, status, slots, worldVars>>

(* A public connection takes a parked stream, uses it and closes it.                  *)
Claim(c) ==
  /\ c \in pool /\ pool' = pool \ {c}
  /\ inbound' = [inbound EXCEPT ![c] = "closed"]
  /\ UNCHANGED <<gatewayVars, status, slots, reserved, worldVars>>

(* Pause and Resume of the pool; a pause closes what is parked.                       *)
Pause ==
  /\ ~paused /\ paused' = TRUE /\ pool' = {}
  /\ inbound' = [c \in Calls |-> IF c \in pool THEN "closed" ELSE inbound[c]]
  /\ UNCHANGED <<gatewayVars, status, slots, reserved, gatewayUp, ingressUp>>
Resume == paused /\ paused' = FALSE /\ UNCHANGED <<gatewayVars, ingressVars, gatewayUp, ingressUp>>

CloseGateway == gatewayUp /\ gatewayUp' = FALSE /\ UNCHANGED <<gatewayVars, ingressVars, paused, ingressUp>>
CloseIngress == ingressUp /\ ingressUp' = FALSE /\ UNCHANGED <<gatewayVars, ingressVars, paused, gatewayUp>>

Next ==
  \/ Pause \/ Resume \/ CloseGateway \/ CloseIngress
  \/ \E c \in Calls :
       \/ \E s \in Sources : Refuse(c, s) \/ Admit(c, s)
       \/ Dial(c) \/ WriteCapability(c) \/ Fails(c) \/ ReadAnswer(c) \/ Hijack(c)
       \/ UpgradeFails(c) \/ Upgrade(c) \/ Handoff(c) \/ RuntimeCloses(c) \/ BridgeEnds(c)
       \/ AcceptRefused(c) \/ Accept(c) \/ ReverseEnds(c) \/ Unverified(c) \/ ReadCapability(c) \/ TakeOffer(c)
       \/ AdmitLease(c) \/ Reserve(c) \/ Reject(c) \/ Accepted(c) \/ AcceptWriteFails(c) \/ Commit(c) \/ Claim(c)

Spec == Init /\ [][Next]_vars

TypeOK ==
  /\ outbound \in 0..ConnectionLimit /\ active \in [Sources -> 0..SourceLimit]
  /\ slots \in 0..InboundLimit /\ pool \cup reserved \cup held \cup once \subseteq Calls
  /\ client \in [Calls -> {"http", "hijacked", "closed"}]

(* The gateway's counters are exactly the admissions that were not released, a call  *)
(* that has ended holds none, and a hijacked connection ends closed with its stream,  *)
(* also when the runtime's close races the bridge.                                    *)
AdmissionExact ==
  /\ outbound = Cardinality(held)
  /\ \A s \in Sources : active[s] = Cardinality({c \in held : source[c] = s})
  /\ \A c \in Calls : call[c] = "done" =>
       c \notin held /\ upstream[c] # "open" /\ client[c] # "hijacked"

(* A call is bridged only after the ingress accepted it, and the ingress, having told  *)
(* the tenant so, always has room to park the stream: streams parked and reserved stay *)
(* within the queue, and no stream is in two places.                                   *)
AcceptedHasRoom ==
  /\ \A c \in Calls : call[c] \in {"hijack", "upgrade", "armed", "bridge"} => status[c] = "accepted"
  /\ Cardinality(pool) + Cardinality(reserved) <= PoolLimit
  /\ pool = {c \in Calls : inbound[c] = "parked"} /\ reserved = {c \in Calls : inbound[c] = "reserved"}
=============================================================================
