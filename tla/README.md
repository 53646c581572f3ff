# A TLA+ verification of Portal

Portal publishes services that run behind NAT. A tenant runs the SDK, or the agent around
it; a relay (`portal/`, started by `cmd/relay-server`) gives the tenant a *lease*: a public
hostname and, if asked for, public UDP and TCP ports. The tenant keeps idle *reverse
sessions* open to the relay. A visitor's connection reaches the relay, is matched to a lease
by its hostname or port, takes one reverse session, and is bridged to it. TLS stays between
visitor and tenant; the relay signs handshakes for the tenant without seeing the traffic
(*keyless* TLS). An operator decides which identities may be routed. Relays find each other
by *discovery* and lend each other connections over the *overlay*.

This directory holds TLA+ models of that program written from its source, the TLC
configurations that check them on small instances, and TLAPS proofs of the results that
matter most for every size. `PROJECT.json` maps each definition to the lines it models and
lists the hazards of the code with the properties that would catch them.

Contents: 1 the system and its modules; 2 how the models are written; 3 the runs; 4 where the
code and its documents disagree; 5 the proofs; 6 what is not covered.

## 1. The system and its modules

| Part of the system | Module | What is hard about it |
|---|---|---|
| Reverse session pool (`portal/transport/reverse_pool.go`) | `ReversePool`; `IdlePool` is what it promises | a mutex, a condition variable, a notify channel and one idle writer per connection take connections from each other |
| Lease registry and port pools (`portal/lease.go`, `record.go`) | `LeaseRegistry` | `Register` releases the mutex between taking ports, binding sockets, entering the table and closing the lease it replaced |
| Access decisions (`cmd/relay-server/policy`, `portal/lease.go`) | `LeaseAccess` | results of different ages are pushed by several requests; no lock spans the two programs |
| Registration challenges and budgets (`portal/lease.go`, `cmd/relay-server/policy/mux.go`) | `RegisterChallenge` | a budget counted in one critical section and used in another |
| Limits on anonymous requests (`cmd/relay-server/policy`, `portal/overlay/source_limiter.go`) | `SourceLimiter` | buckets are forgotten and made anew while they still matter |
| The operator's policy file (`cmd/relay-server/api.go`) | `PolicyStore` | memory, file and a write that fails after it took effect |
| Votes and comments (`cmd/relay-server/policy`) | `CommunityStores` | limits over several maps, failed writes, restarts |
| Public ingress and lease bridges (`portal/server.go`, `record.go`) | `LeaseBridge` | a check made before waiting for a session is stale after it |
| The copying bridge and its rate (`portal/proxy.go`) | `ProxyBridge`, `BpsLimiter` | half-close against cancellation; a limiter replaced under its users |
| Reverse streams over a WebSocket (`portal/transport/stream_mux.go`, `portal/api_server.go`) | `ReverseMux` | handlers of replaced sessions go on |
| QUIC backhaul and datagrams (`portal/transport/quic_backhaul.go`, `datagram_*.go`) | `QuicBackhaul`, `QuicDial`, `DatagramSession`, `DatagramRelay` | admission, racing dials, frames of an ended lease, flow identifiers that wrap |
| Overlay (`portal/overlay`) | `OverlayGateway`, `OverlayConnect` | assignments that outlive leases; two relays release one admission |
| Keyless signing (`portal/keyless`) | `KeylessBindings`, `KeylessClient` | one use per binding against expiry and retries; signers replaced while they sign |
| Static cache (`portal/cache`, `sdk/listener.go`) | `StaticCache`, `StaticSync` | publication after the lease or its approval is gone; removal under readers |
| Relay certificate (`portal/acme`) | `RelayCertificate` | two files, what is served, what tenants pin |
| DNS records (`portal/acme`, `portal/record.go`) | `LeaseDns`, `DnsSync`, `DnsProviders` | a late deletion against a new record; requests that fail after taking effect |
| Embedded DNS server (`portal/acme/embedded`) | `EmbeddedZone`, `EmbeddedDns` | wildcards and denial of existence; clock jumps and key files |
| Relay discovery (`portal/discovery`) | `RelaySet`, `RelayRank`, `DiscoveryController` | descriptors of different ages, bans with and without an end, a loop that must not sleep on an old selection |
| SDK (`sdk`) | `SdkListener`, `SdkSessions`, `SdkProbe`, `SdkExposure` | renewal, re-registration, replacement and `Close` race each other |
| Agent (`cmd/portal-tunnel/agent`) | `AgentManager` | configuration changes during start and stop |
| HTTP gateway (`sdk/http.go`, `cmd/portal-tunnel/gateway`) | `HttpGateway` | path rules that must agree between policy and routing |
| Sign-in (`sdk/appauth`, `internal/siweauth`) | `AppAuth`, `EmailLogin` | proofs presented again, late, or at another host |

`MCPortal` instantiates all components but the pool and the access projection for TLC.
`ReversePoolProofs`, `PoolCustodyProofs`, `PortPoolProofs`, `LeaseStepProofs`,
`LeaseRegistryProofs` and `RelayProofs` hold proofs; `LeaseAccess` and `LeaseBridge` carry
theirs in the second part of the module.

The parts meet in a few places. Registration consumes a challenge, suspends the identity,
takes ports, enters the table, queues DNS records and publishes the access decision. An
access decision pauses and resumes the pool of each lease, switches its datagram relay,
cancels its bridges and withdraws its cached site. The ingress takes sessions from the pool.
Closing a lease closes its pool, its mux, its bridges and its sockets, and then returns its
ports. Each module contains the part of a neighbour it depends on, reduced to what the
neighbour may do to it, and names the module that looks inside.

## 2. How the models are written

* A definition keeps the name of the Go function it models where it can. What the code does
  under one mutex, or between two blocking calls, is one action; what it does after the
  unlock is another, so every interleaving the locks allow is explored.
* A deadline is an action that may happen at any point the code does not exclude. Where
  durations matter (certificates, limiters, bans, sessions) time moves in steps up to a bound.
* A call to something outside (a provider, a peer, a file write) may succeed, fail, or fail
  after it took effect. A crash loses memory and keeps files.
* Signatures, tokens and digests are not forged: what is presented was issued, at any time
  and to anyone. A Go `select` with several ready cases picks any of them.
* What the code leaves unbounded is bounded in guards by constants; the comment beside each
  constant tells a bound of the model from a limit of the code.
* Operators marked *Mutant* are plausible mistakes, used to show that each property can fail;
  nothing else refers to them.

The correspondence of state and code is in the comment beside each variable. The less obvious
choices:

* **ReversePool.** `offer` is the progress of each `offerReservation`, `idler` of each
  `keepIdle` goroutine, `pc` and `held` of each `Acquire`, `woken` the waiters whose captured
  `notify` channel was closed; `detached` holds the lists `Pause` returned to be closed outside
  the lock. `Cancel` runs after `Commit`, too: it is deferred.
* **LeaseRegistry.** A lease is one registration attempt. `tasks` are the `closeRecord` and
  `rollbackRecord` calls under way, several for one record at times. `revived` is a history
  variable: leases that a `Renew` extended after they had expired. `Returning` and `Stops` say
  which clients renew and whether the relay stops.
* **LeaseAccess.** `policy`, `commit` and `toPush` are an admin request at the relay server;
  `snapshot` and `attempts` the locals of `publishAccess`; `blocked`, `fresh` and `watermark`
  the registry's `blocked`, its `pushedAt` and `accessRevision`. `Age` does not fire between
  `suspendIdentity` and the insertion: only binding sockets lies between, and the code keeps an
  entry for two minutes.
* **LeaseBridge.** The leases are successive registrations of one identity. `slot` is the
  budget a worker holds, `stop` how far `Shutdown` has come.
* **DnsProviders.** Each provider's sequence of list, create, update and delete requests is
  modelled over an abstract zone that others write to as well. Cloudflare and Vultr change one
  record and leave others; Route 53 and Hetzner write back the set they listed.
* **SourceLimiter** computes the configuration as `NormalizePreAuthConfig` does, from every
  combination of offered values, slow rates included. Beside the buckets, which are forgotten when
  idle, it keeps for each source the least and the most an honest bucket may hold: `least` is never
  forgotten, `most` is full again once the source has stayed away for the idle time. With a rate
  that fills the burst within the idle time (the defaults and the overlay's constants do) the two
  are one; an operator may configure a slower one.
* **StaticCache.** `lapsed` holds the owners whose lease is past its time and still in the table: it
  refuses uploads as if it were gone, until a renewal, and serves on what is published.
* **ReverseMux.** `leaseRecord.Close` marks the record first (`CloseRecord`) and closes its queue
  later (`ClosePool`); a handler may still park a stream in between, which the queue then closes.
* **OverlayGateway.** `IssueEndpoint` reads readiness and the clock; `SelectGateway` decides later,
  under its own mutex and with that clock, maybe after `Close` has cleared the maps.
* **DiscoveryController.** A change and its signal are two steps. `AddRelay` and `RemoveRelay`
  signal before they release the controller's mutex (`locked`), which the loop needs to build and
  to apply; `Report` and `SetActiveRelays` signal after it (`owing` counts them), so the loop may
  run between.
* **SdkExposure.** `reconcile` creates a listener outside the lock and then publishes it, discards
  it because it may not be installed any more (`ReconcileDiscard`) and, for a blocked relay,
  records the block again (`ReconcileBlocked`). The check and the re-recording are two critical
  sections with the closing of the listener between them: a `RemoveRelay` that lifts the block
  there is reached, after which the block is back. No text of the repository speaks about that,
  and no property does.
* **LeaseDns.** A start that fails to delete a leftover, or to write the file, stays at the
  reconciliation and does not serve; the leftover stays tracked.
* **RegisterChallenge.** A refused request publishes the access decision, as an accepted one does,
  before it is answered.
* **HttpGateway** counts how many requests each payment has opened (`opened`); the facilitator that
  claims a payment is the one the gateway's routes share.
* **EmailLogin** takes the clock at the lock. A session keeps the link it came from, and the gate,
  the hosts of the tunnel and the time go on under it. The replay set of SAML answers and the mailed
  links belong to a gate and are forgotten when it restarts, as in the code.
* **RelayRank**, **EmbeddedZone** and **HttpGateway** are algorithms: a state is one call, and
  the result is compared with a reference definition (orthogonal Latin squares and the order of
  preference; what the records of a zone say about a name; which rule a path falls under). In
  `RelayRank` a relay is measured or not and has failed or not, with pressures on both sides of
  the threshold.

## 3. Runs

Every run is breadth-first over the whole state space of its instance.

| Run | Module and configuration | Distinct states | Checks |
|---|---|---|---|
| `pool_safety` | `ReversePool`, `ReversePool.cfg` | 295 k | `TypeOK`, `ReservationsExact`, `ConnectionOwned`, `QueueInv`, `ClosedIsFinal`, refinement `ContractSpec` |
| `pool_live` | `ReversePool`, `ReversePoolLive.cfg` | 84 k | `CapacityRespected`, `CloseTerminates`, `AcquireReturns` |
| `registry_ports` | `LeaseRegistry`, `LeaseRegistry.cfg` | 338 k | `TypeOK`, `PortsSound`, `TableSound`, `GraceHonoured` |
| `access` | `LeaseAccess`, `LeaseAccess.cfg` | 231 k | `TypeOK`, `FailClosed`, `Converged`, `AccessEnds` |
| `data_plane` | `MCPortal`, `MCDataPlane.cfg` | 1.46 M | `DataTypes`, `IngressSafe`, `CarriersSafe`, `TenantsSafe`, `DataSteps` |
| `control_plane` | `MCPortal`, `MCControlPlane.cfg` | 953 k | `ControlTypes`, `CertificateSafe`, `DnsSafe`, `ZoneSound`, `AdmissionFair`, `StoresSafe` |
| `client` | `MCPortal`, `MCClient.cfg` | 2.22 M | `ClientTypes`, `ListenerSafe`, `ExposureSafe`, `RelaySetSafe`, `SelectionSound`, `AgentSound`, `GatewaySound`, `SigninSound`, `StaleNeverStored`, `RelaySteps` |
| `live` | `MCPortal`, `MCLive.cfg` | 209 k | `EverythingEnds`, `NobodyForgotten` |
| `registry_friendly_name`, `access_stale_snapshot`, `certificate_files`, `relay_ban` | see section 4 | violation | one statement of a document or comment each |

**MCPortal.** The components it runs share no state, so checking them side by side would only
multiply their states. A behaviour of `MCPortal` is a behaviour of *one* component: `Init`
picks a part of the plane the constant `Plane` names, and with it the instance of its module.
The variables `x1`, `x2`, ... stand for those of the chosen component; the tuple an instance
does not use stays constant. A property of the run is the conjunction of "if the part is this
one, its property holds". The conjuncts are defined and explained in the component's module.

### What the runs show

* **Pool.** A connection that was parked has exactly one owner that will use it or close it; a
  connection handed out is open and its writer has ended, so no keep-alive lands inside the
  tunnelled bytes; nobody sleeps beside a non-empty queue; nothing is parked while paused or
  after `Close`; from outside the pool behaves like `IdlePool`. `Close` returns, and so does
  every `Acquire` whose context ends or whose pool closes.
* **Registry.** `PortsSound`: each port is free, in use or reserved for one identity, and only
  one of these; no port is handed out while a socket is open on it, and none is stranded by a
  failure. `TableSound`: one record of an identity and, renewals after expiry aside, one live
  lease of a friendly name. `GraceHonoured`: a reserved port goes to nobody else in its grace
  period.
* **Access.** What the operator refuses stays refused while challenges, registrations, renewals
  and sweeps are under way; once no commit and no registration is under way, routing, pool and
  datagram relay of a live lease agree with the committed policy (leases that a late renewal
  brought back after expiry, `revived`, are set aside). Decisions arrive and requests end.
* **Ingress** (`IngressSafe`). Budgets are neither overdrawn nor leaked; a bridge of a refused
  identity, a closed lease or a stopping relay is cancelled whichever step its worker is at; a
  closed lease gains no bridge. A direction of the copying bridge that is over has delivered
  everything, unless a peer broke or the bridge was cancelled; when it returns nothing of it is
  left. A removed limit leaves no limiter behind, and a limiter lets no more pass than the
  largest limit allows, however it is shared or replaced.
* **Carriers** (`CarriersSafe`). A late handler never takes out its replacement; a stream is used
  only under the lease its capability was accepted for. The losing dial leaves no connection.
  QUIC and overlay admission counters are exact on every path, and the overlay's ingress has room
  for what it has accepted. A datagram session has one connection, and a frame of one lease is
  never answered over that of another; the two flow maps stay inverse also when identifiers wrap,
  and until then an answer reaches its client or nobody. The overlay's maps do not outlive leases.
* **Tenants** (`TenantsSafe`). One signature per binding, for the lease and the hello it was made
  for; no signer is lost when it is replaced. A site that is read is not removed, nothing of a
  blocked identity is published, and the charge is what lies on disk. A relay publishes only
  whole snapshots the producer scanned, and no syncer misses a generation.
* **Steps of the data plane** (`DataSteps`). No step signs for a binding that is gone, pins an
  older chain, revives expired content, takes bandwidth credit for waiting, or gives a lease back
  the gateway it reported as failed before the delay is over.
* **Control plane.** The relay signs for what a tenant pinned until that expires, and renews in
  time as long as orders succeed (`CertificateSafe`). Once every command is applied a hostname
  names its live lease or nobody, what is left in the zone is tracked (but for a record written
  when the process ends before it could be noted in the file; `orphaned` names those, and no start
  removes them), a provider call that reports success has done its work, the TXT values of others
  survive (with the exception of section 6), and an address taken for published is (`DnsSafe`).
  Every answer of the embedded server is what the zone says, with its denial proved, over a
  snapshot that is valid now, and under the key once exported (`ZoneSound`). Challenges keep the
  budget of unapproved leases but for the overshoot its comment admits, a source finds at least
  what its burst and rate have left it and more only after it stayed away for the idle time, all
  sources together find what the global budget has left, and the delay a refused source is told is
  enough (`AdmissionFair`). Between requests the policy in force is the one a restart would load,
  unless a save failed after its rename; no key is approved and denied; what the stores write they
  load; a source without cookies stays one voter (`StoresSafe`).
* **Client.** A closed listener holds nothing and workers of one lease never act on a later one;
  the ready count is exact and no connection is stranded in a closed queue; a probe's verdict is
  right (`ListenerSafe`). A slot that failed with an earlier endpoint does not throw out a newer
  one, and an accept loop gives its slot up only after its failure is in the status
  (`StaleNeverStored`). An exposure brings no deselected relay back, serves no
  blocked one, shows current metadata, loses no wake-up and closes clean (`ExposureSafe`). The
  relay set keeps its caps and lists no banned relay (`RelaySetSafe`), is never rolled back, hands
  a verified URL over only by its own answer, and evicts in order (`RelaySteps`). The grid ranks
  without ties, a selection follows the order of preference, and the loop sleeps only on a current
  one (`SelectionSound`). An identity never runs twice and serves behind the sign-in settings that
  are saved (`AgentSound`). What reaches an upstream is on the longest matching route and was paid
  for where it must be, a payment opens one request whichever route it is presented to, and a
  redirect leads back to its path (`GatewaySound`). A request that reaches the application is of a
  visitor who proved the account at this host, with the provider and settings in force, within the
  session's time, and whom the list permits now; an answer of a provider signs in once per gate; a
  mailed link is opened with effect once, at its host, and its session is good only while the tunnel
  has that host; mails are limited (`SigninSound`).
* **live.** Whatever is closed ends; nothing that holds a resource is forgotten.

### Bounds

They are the least for which the case that makes each part hard occurs.

* *Pool*: two acquirers for a wake-up that reaches one of two waiters; two connections for a
  commit racing a detached list; limit 1 for an offer that must wait.
* *Registry*: two leases of one identity or two, one port of each kind: a replacement overlaps a
  rival's registration for the only port, and a partial allocation is rolled back.
* *Access*: two commits for a snapshot older than the watermark, two attempts for a retry.
* *Data plane*: ingress with three connections on one lease and two on two, inspection limit 1,
  tenant limit 2, bridge limit 1; two units through the bridge; two copiers, rates 1 and 2 and
  burst 2, and one copier with burst 3 up to time 4; two mux sessions, one stream, two leases;
  two addresses of each family; three QUIC connections of two sources, limits 2; two datagram
  connections, two leases; two clients with flow identifiers of two bits, so that they wrap; two
  gateways; two overlay calls; two visits and two sign requests, each with one of the other;
  three certificate chains; two owners, two uploads, one reader, two bytes of cache.
* *Control plane*: four certificates over nine time units; one host, two leases, a command queue
  of one and a restart; each of the six providers with another writer; names over three labels
  up to depth three; two keys and two sources of challenges; a limiter that may keep one bucket,
  up to time 8; two policy edits and a restart; two identities and two voters.
* *Client*: one slot and two leases with a renewal; two slots, or one slot and two connections;
  two listeners of a relay and two operations; two URLs and two identities with caps of 1 over
  five steps and four time units, twice the validity of a descriptor, so that one expires and
  another takes its place; grids up to order seven and pools of three relays with three states of
  health; two relays and two operations of the selection loop; two tunnels; seven route lists with
  paths of up to three segments and three payments, two of one amount; nine sign-in
  configurations, three of mail.

Connections, leases and requests are used once each; what the code could do for ever is thus
cut off after the second or third time. `Symmetry` and `PairSymmetry` permute model values that
every chosen component treats alike; runs with liveness properties use none. Deadlock checking
is off in the `MCPortal` runs, and in the two violation runs on its components, because these
parts really may stop: all requests are answered, or the component is closed. That nobody waits
for ever is what `live` checks.

### Fairness

Goroutines that can run do run, a wait that has a deadline in the code ends, timers fire, a
request is answered or times out, and mutexes are granted: weak fairness of those actions, named
beside each `...Fair` definition. Two assumptions are strong: `keepIdleStop` in the pool, since a
`select` that keeps finding `stop` closed picks it at some point, and a relay that is asked again
and again about a lease it has forgotten answers at some point (`ForgottenIsSaid`). Nothing makes
a client connect, an operator act, a lease expire, or an uncancelled copy end.

## 4. Where the code and its documents disagree

Each of four runs checks one statement of a document or comment, and TLC finds a behaviour of
the code that breaks it.

* `registry_friendly_name` (`portal/lease.go:713`). `Renew` checks the token before it waits for
  the mutex, and its lookup then ignores expiry. A lease that expires in between is extended
  although another identity has meanwhile been given its friendly hostname, so two live leases
  answer to one short name. `TableSound` sets such leases aside by the variable `revived`.
* `access_stale_snapshot` (`portal/lease.go:162`). Comments say stale results are never applied.
  A commit that finds nothing to push does not tell Portal its revision, so a challenge's older
  snapshot is accepted after it and opens an identity that is registering, until that
  registration publishes. `FailClosed` shows that a denied or banned identity is never opened this
  way, and `Converged` that the registration's own publication repairs it.
* `certificate_files` (`portal/acme/acme.go:311`). A renewal whose second file write fails leaves
  the new certificate beside the old key while the old pair is served; the comment says files and
  what is served cannot disagree.
* `relay_ban` (`portal/discovery/relayset.go:515`). Removing a relay that was banned for
  interception gives its permanent ban an end.

Three statements were tried, found not to hold of the code as modelled, and are not among the
properties:

* `sdk/listener.go:280` says a refusal that loses the race with a stream opening does not stick.
  A `setApproval` that read no open stream inside its update still wins its compare-and-swap when
  the stream that opened meanwhile found the approval empty and stored nothing. A trace of
  `SdkSessions` with two slots: the open of the first is refused and its `setApproval` reads
  `ready = 0` (`SlotRefused`); the stream of the second opens and is counted (`SlotOpens`), and its
  `setApproval("")` finds no refusal and stores nothing (`SlotApproved`); the swap of the first
  succeeds (`SlotSwap`): a stream is open and the lease shows a refusal until another stream
  opens. A status computed before the stream opened can likewise be sent last. No property covers
  this hazard.
* That a relay marked verified was once served by its own answer: an announced descriptor can mark
  it as well (`portal/discovery/relaystate.go`).
* That changed metadata reaches a running tunnel of the agent: a change between the read of the
  configuration and the publication of the runtime, or two pushes that overtake each other, leave
  the older metadata.

## 5. Proofs

TLC checks small instances; the theorems below hold for every value of the constants. The first
block states properties that a run checks under the same name; the others are proved of the
component module, whose property is a conjunct of one that `MCPortal` checks.

| Theorem | Module | States |
|---|---|---|
| `PoolTypeCorrect`, `PoolReservationsExact`, `PoolCapacityRespected`, `QueueInvariant`, `PoolClosedIsFinal` | `ReversePoolProofs` | `TypeOK`, `ReservationsExact`, `CapacityRespected`, `QueueInv`, `ClosedIsFinal` |
| `PoolConnectionOwned`, `PoolImplementsContract` | `PoolCustodyProofs` | `ConnectionOwned`, `ContractSpec` |
| `RegistryTypeCorrect`, `RegistryPortsSound`, `RegistryTableSound`, `RegistryGraceHonoured` | `LeaseRegistryProofs` | `TypeOK`, `PortsSound`, `TableSound`, `GraceHonoured` |
| `AccessTypeCorrect`, `AccessFailClosed`, `AccessConverged` | `LeaseAccess` | `TypeOK`, `FailClosed`, `Converged` |
| `BridgeBudgetsExact`, `BridgeRefusedIsCancelled`, `BridgeClosedIsQuiet` | `LeaseBridge` | `BudgetsExact`, `RefusedIsCancelled`, `ClosedIsQuiet` |
| `CacheReadersPinned`, `CacheRevokedUnpublished`, `CacheNotRevived` | `RelayProofs` | `ReadersPinned`, `RevokedUnpublished` and the action property `NotRevived` of `StaticCache` |
| `MuxCarrierOwned`, `MuxStreamsVetted` | `RelayProofs` | `CarrierOwned`, `StreamsVetted` of `ReverseMux` |
| `BindingSignedOnce`, `BindingSignedWhileOpen` | `RelayProofs` | `SignedOnce` and the action property `SignedWhileOpen` of `KeylessBindings` |

Every safety property of the pool, the registry, the access projection and the bridges is thus
proved, and the pool is proved to implement its contract.

### Arguments

Hardly any of these properties is inductive. The strengthenings, and why they are needed:

* **Pool counters and queue**: `PoolInv` adds that a call holds a connection only while it is
  stopping or draining it, that no detached list is empty (its head is inspected), and that a
  `Close` past its wait has seen no reservation and let none begin. Exactness of the counter rests
  on cardinality facts when a reservation begins and ends. `QueueInv` is kept by every step from
  `PoolInv`: only `CommitParked` grows the queue, and it signals.
* **Custody**: `ConnectionOwned` says who owns a connection, but a step moves it from one owner to
  the next, so one must know where it is not. `CustodyInv` adds that a connection whose offer is
  unfinished is open and was never parked (`OfferFresh`), that one without a writer has no owner in
  the pool (`Unparked`), that a failed keep-alive has closed its socket (`ErrClosed`) and is the
  only thing that closes a queued one (`QueueAlive`), the stages in which an acquirer holds one
  (`HeldStages`), and that `Close` has a list only after its wait (`CloseListOwned`). The
  refinement maps the state to `IdlePool`: from `CustodyInv` every step is a step of the contract
  or leaves its variables alone.
* **Registry**: `RegistryInv` adds to the properties that the ports of each pool are well kept
  (`PoolsOK`), that a lease nobody has registered holds none (`Untaken`), that a record knows
  every port the pools say it uses, hence one of each kind (`PortKnown`), that before a lease
  enters the table only its own `Register` call can reach it (`Private`), and that until its
  sockets are bound it holds the port each of them needs (`PortsReady`). `PortPoolProofs` proves
  what each pool operator preserves, `LeaseStepProofs` states the invariant and proves the steps
  that move no port, `LeaseRegistryProofs` the rest, one step per action. `GraceHonoured` is an
  action property that follows from `RegistryInv`.
* **Access**: for `FailClosed`, `AccessInv` adds that nothing is newer than the policy and a
  snapshot as new as the policy agrees with it (`SnapshotsHonest`), that a fresh commit has all
  refused identities still to push (`CommitCovers`), and that a refused identity once pushed stays
  closed for every record and for every registration on its way (`RefusedStaysClosed`), whose
  entry is too young to be forgotten. For `Converged`, `ConvergeInv` says of every live lease the
  commit has dealt with that it is under the committed decision or that a registration of its
  identity will still push it there, and that its own will while the watermark is behind
  (`Converging`).
* **Bridges**: `BridgeInv` ties the stage of a worker to the slots, bridges and cancellations it
  has (`Lifecycle`), and orders the steps of a closing record (`CloseOrder`). The counters follow
  as cardinalities; that a refused bridge is cancelled follows because activation looks at the
  lease again under the lock.
* **Cache**: `CacheInv` says where every site is (being uploaded, published, retired, being
  removed) and that it is in one place only (`Placed`), so that a reader's site, published or
  retired, is not the one being removed (`Pinned`). That a blocked identity publishes nothing rests
  on generations: every block takes a new one (`Numbered`), and a request still eligible was not
  overtaken (`MayPublish`). It is stated of lease and generation alone,
  because a renewal ends a lapse and makes the request eligible again.
* **Mux**: `MuxInv` adds that an open session was admitted to a lease and that the session a record
  holds is served by its handler (`Admitted`), and that an accepted or parked stream presented the
  capability of its session's lease (`Handshakes`).
* **Keyless**: `BindingInv` adds that a request that was sent names a binding that was issued, and
  that one with a signature is answered (`RequestsIssued`).

TLC checked each strengthening before it was proved: `ConvergeInv` with three requests, `BindingInv`
with two visits, requests and leases, `MuxInv` with two sessions, streams and leases, `CacheInv`
with two requests, besides the configurations above.

### Assumptions

`PoolAssumption`: finitely many connections, a natural limit, the nil connection is none of them.
`RegistryAssumption`: nil values are distinct, kinds are UDP and TCP, ports and limits are natural.
`AccessAssumption`: the nil key is none of the keys and at least one attempt is made. TLC evaluates
these three in the runs. `BridgeAssumption`, `CacheAssumption` and `MuxAssumption` say the same kind
of thing (finitely many connections, nil values distinct, natural limits) and are hypotheses of
their theorems, because those modules are instantiated. The keyless theorems assume nothing.

### Checking them

`tlapm` is given thirty seconds for each leaf (`USE SMTT(30), ZenonT(30)` at the head of a proof
module). Leaves about booleans and sets alone name Zenon.

### Only model-checked

* Liveness and fairness (`CloseTerminates`, `AcquireReturns`, `AccessEnds`, `EverythingEnds`,
  `NobodyForgotten`): out of the prover's reach.
* `ChargeExact` of `StaticCache`: the charge is a sum over a set of sites, and what a fold computes
  for every set needs induction over data.
* The algorithms (`EmbeddedZone`, `RelayRank`, `HttpGateway`), for the same reason; they are
  compared with references over all bounded inputs.
* All properties of the remaining components of `MCPortal`. Nothing in principle stands against
  proving most of them; they are not proved here.

## 6. What is not covered

* **Not modelled**: `ProxyHTTP` and `ProxyUDP` of the SDK; the agent's dashboard, service and wallet
  session; key derivation, tokens and their signatures (`portal/identity`); start-up, configuration,
  metrics and pages of the relay server; the tunnel command, installer and WebAssembly entry point;
  helpers and wire types; the frontend, documents and demos. They are presentation, pure functions,
  or wiring of parts that are modelled.
* **External**: TLS, QUIC, WireGuard, the stream-multiplexing library, HTTP, the ACME exchange, the
  DNS providers' services and the payment facilitator, modelled only by how the code uses them.
* **Left out of modelled parts**: lease metadata in the registry; the datagram accept path of an
  exposure; status snapshots, `lastError` and the control socket of the agent; provider metadata and
  key caches of sign-in; the identity headers of the gateway; manifests and response headers
  of the cache.
* **Known exceptions inside properties**: a TXT value added while Route 53 or Hetzner write back
  the set they listed can be lost (`ForeignKept`); an address that returns after an update which
  reached only some hosts is taken for published (`RememberedIsPublished`); an agent that is cut
  off while it writes `config.toml` in place leaves a torn file (`GateIsSaved`).
* Components are checked one at a time, each with what its neighbours may do to it; no run has two
  of the detailed modules in one behaviour.
* In `live` a `select` with a signal and a timer ready may keep choosing the timer, so nothing is
  claimed about how soon a signal is served.
