------------------------------ MODULE MCPortal ------------------------------
(* The components of the project in four runs: what carries bytes through a relay   *)
(* (Plane = "data"), what a relay decides and keeps ("control"), the tenant's side  *)
(* ("client"), and what must eventually happen in any of them ("live", with the     *)
(* least number of actors that can make a component wait).  The parts share no      *)
(* state: a behaviour is one of a single part of the plane, chosen at the start,    *)
(* and the variables below are those of that part, so that the state spaces add up  *)
(* instead of multiplying.                                                          *)
EXTENDS Integers, TLC

CONSTANTS
  Plane,    \* the plane this run is about
  noLease, a1, a2, z1, z2, w1, w2, w3

VARIABLES
  part,   \* the component that runs; the others are its variables
  x1, x2, x3, x4, x5, x6, x7, x8, x9, x10, x11, x12, x13, x14, x15, x16, x17, x18, x19,
  x20

vars == <<part, x1, x2, x3, x4, x5, x6, x7, x8, x9, x10, x11, x12, x13, x14, x15, x16,
  x17, x18, x19, x20>>

TxtOwners == {<<>>, <<2>>, <<2, 1>>, <<2, 1, 2>>, <<1, 2>>}
\* An operator's rate may take longer than IdleTTL (3) to fill the burst; the overlay's
\* constants do not.
DefaultLimits ==
  [rate |-> 2, burst |-> 4, globalRate |-> 3, globalBurst |-> 5, weights |-> {1, 3}]
OfferedLimits ==
  [rate : {-1, 0, 1}, burst : {0, 2}, globalRate : {0, 1}, globalBurst : {0, 2},
   weights : {{0, 1}, {2}}]
OverlayLimits ==
  [rate |-> 2, burst |-> 3, globalRate |-> 0, globalBurst |-> 3, weights |-> {1}]

R(p, a, m, u) == [prefix |-> p, amount |-> a, methods |-> m, upstreamPath |-> u]
Routes ==
  {<<>>,
   <<R(<<1>>, 1, {}, <<>>), R(<<1, 0>>, 0, {}, <<>>)>>,
   <<R(<<>>, 0, {}, <<>>), R(<<1>>, 1, {}, <<2>>), R(<<1, 2>>, 2, {"POST"}, <<>>)>>,
   <<R(<<1>>, 0, {}, <<>>), R(<<1, -1, 2>>, 1, {"POST"}, <<1>>)>>,
   <<R(<<1>>, 1, {""}, <<>>)>>,
   <<R(<<1>>, 0, {"GET"}, <<>>)>>,
   <<R(<<1, 2>>, 1, {}, <<2, 1>>), R(<<2>>, 1, {"GET"}, <<2>>), R(<<3>>, 0, {}, <<>>)>>}
Paths == (UNION {[1..n -> {0, -1, 1, 2}] : n \in 0..3}) \cup {<<3>>}
Redirects == UNION {[1..n -> {1, 2, 3}] : n \in 0..3}
Paid == {[id |-> 1, amount |-> 1], [id |-> 2, amount |-> 1], [id |-> 3, amount |-> 2]}

\* A relay that was never measured, a good one, and one whose failures make it slow.
Measured == {[rtt |-> 0, fails |-> 1], [rtt |-> 900, fails |-> 0], [rtt |-> 900, fails |-> 5]}

Entry(kind, who) == [kind |-> kind, who |-> who]
Gate(p, list, b) == [provider |-> p, allow |-> list, binding |-> b]
OneGate == {Gate(p, {Entry("email", "a")}, 1) : p \in {"oidc", "saml"}}
MailGates ==
  {[allow |-> {"domain"}, binding |-> 1], [allow |-> {"a", "domain"}, binding |-> 1],
   [allow |-> {"a"}, binding |-> 2]}
Gates ==
  {Gate("siwe", {}, 0), Gate("siwe", {Entry("addr", "a")}, 0),
   Gate("credential", {}, 0), Gate("credential", {Entry("name", "b")}, 0),
   Gate("oidc", {Entry("email", "a")}, 1), Gate("oidc", {Entry("domain", "all")}, 2),
   Gate("oidc", {Entry("sub", "b")}, 1),
   Gate("saml", {Entry("email", "a"), Entry("sub", "b")}, 1), Gate("saml", {Entry("domain", "all")}, 2)}

Ingress == INSTANCE LeaseBridge WITH
  Conns <- {w1, w2, w3}, Leases <- {"lease"}, NoLease <- noLease, InspectLimit <- 1,
  TenantLimit <- 2, BridgeLimit <- 1, pc <- x1, record <- x2, slot <- x3, inbound <- x4,
  reverse <- x5, late <- x6, inspecting <- x7, tenants <- x8, tracked <- x9, stop <-
  x10, last <- x11, current <- x12, expired <- x13, blocked <- x14, bridges <- x15,
  cancelled <- x16, departed <- x17, closed <- x18, poolClosed <- x19, closeDone <- x20
Replaced == INSTANCE LeaseBridge WITH
  Conns <- {z1, z2}, Leases <- {a1, a2}, NoLease <- noLease, InspectLimit <- 1,
  TenantLimit <- 2, BridgeLimit <- 1, pc <- x1, record <- x2, slot <- x3, inbound <- x4,
  reverse <- x5, late <- x6, inspecting <- x7, tenants <- x8, tracked <- x9, stop <-
  x10, last <- x11, current <- x12, expired <- x13, blocked <- x14, bridges <- x15,
  cancelled <- x16, departed <- x17, closed <- x18, poolClosed <- x19, closeDone <- x20
Copy == INSTANCE ProxyBridge WITH
  MaxUnits <- 2, sent <- x1, ended <- x2, broken <- x3, asked <- x4, taken <- x5,
  delivered <- x6, copy <- x7, finished <- x8, canceled <- x9, after <- x10, closed <-
  x11, bridge <- x12, activeConns <- x13, tcpBytes <- x14
Limiter == INSTANCE BpsLimiter WITH
  Copiers <- {a1, a2}, Rates <- {1, 2}, Burst <- 2, MaxTime <- 2, MaxLimiters <- 2, now
  <- x1, bps <- x2, limiter <- x3, made <- x4, tokens <- x5, updatedAt <- x6, dropping
  <- x7, copier <- x8, read <- x9, using <- x10, until <- x11, granted <- x12
Credit == INSTANCE BpsLimiter WITH
  Copiers <- {"copier"}, Rates <- {1, 2}, Burst <- 3, MaxTime <- 4, MaxLimiters <- 2,
  now <- x1, bps <- x2, limiter <- x3, made <- x4, tokens <- x5, updatedAt <- x6,
  dropping <- x7, copier <- x8, read <- x9, using <- x10, until <- x11, granted <- x12
Mux == INSTANCE ReverseMux WITH
  MaxLeases <- 2, Muxes <- {a1, a2}, Streams <- {"stream"}, granted <- x1, current <-
  x2, blocked <- x3, recClosed <- x4, poolClosed <- x5, reverseMux <- x6, handler <- x7,
  of <- x8, open <- x9, toClose <- x10, serving <- x11, stream <- x12, cap <- x13, on <-
  x14, client <- x15, vetted <- x16
Dial == INSTANCE QuicDial WITH
  Primary <- 2, Fallback <- 2, cancelled <- x1, caller <- x2, racer <- x3, left <- x4,
  conn <- x5, firstErr <- x6, started <- x7, timer <- x8, result <- x9
Backhaul == INSTANCE QuicBackhaul WITH
  Conns <- {w1, w2, w3}, Sources <- {1, 2}, PendingLimit <- 2, SourceLimit <- 2,
  listener <- x1, pc <- x2, source <- x3, counts <- x4, slots <- x5, quic <- x6,
  callback <- x7, told <- x8, bound <- x9, live <- x10
Session == INSTANCE DatagramSession WITH
  Conns <- {"d1", "d2"}, MaxLeases <- 2, MaxIncoming <- 1, MaxFrames <- 2, drops <- x1,
  conn <- x2, lease <- x3, done <- x4, quic <- x5, toClose <- x6, loop <- x7, born <-
  x8, reported <- x9, incoming <- x10, frames <- x11, held <- x12, sender <- x13, old <-
  x14
Flows == INSTANCE DatagramRelay WITH
  Clients <- {"k1", "k2"}, IdWidth <- 2, MaxFlows <- 2, MaxSent <- 2, MaxReplies <- 1,
  flowTable <- x1, addrIndex <- x2, nextFlow <- x3, enabled <- x4, done <- x5, linked <-
  x6, reader <- x7, dispatcher <- x8, sent <- x9, known <- x10, inbox <- x11, wrapped <-
  x12, stray <- x13
RelayGateway == INSTANCE OverlayGateway WITH
  Leases <- {"lease"}, Gateways <- {1, 2}, Issues <- {a1, a2}, RetryDelay <- 2, MaxTime
  <- 4, now <- x1, lease <- x2, up <- x3, assignments <- x4, failures <- x5, issue <-
  x6, given <- x7, reported <- x8
Connect == INSTANCE OverlayConnect WITH
  Calls <- {"o1", "o2"}, Sources <- {1, 2}, ConnectionLimit <- 2, SourceLimit <- 1,
  InboundLimit <- 1, PoolLimit <- 1, call <- x1, source <- x2, outbound <- x3, active <-
  x4, held <- x5, upstream <- x6, client <- x7, once <- x8, inbound <- x9, status <-
  x10, slots <- x11, pool <- x12, reserved <- x13, paused <- x14, gatewayUp <- x15,
  ingressUp <- x16
Signing == INSTANCE KeylessBindings WITH
  Visits <- {a1, a2}, Requests <- {"request"}, MaxLeases <- 2, live <- x1, visit <- x2,
  kind <- x3, lease <- x4, entry <- x5, late <- x6, req <- x7, signed <- x8
Racing == INSTANCE KeylessBindings WITH
  Visits <- {"visit"}, Requests <- {z1, z2}, MaxLeases <- 2, live <- x1, visit <- x2,
  kind <- x3, lease <- x4, entry <- x5, late <- x6, req <- x7, signed <- x8
Pinning == INSTANCE KeylessClient WITH
  Callers <- {"g1", "g2"}, MaxChains <- 3, served <- x1, signable <- x2, pinned <- x3,
  signers <- x4, closed <- x5, mutex <- x6, caller <- x7, pin <- x8, fetched <- x9,
  closing <- x10
Cache == INSTANCE StaticCache WITH
  Owners <- {a1, a2}, Requests <- {z1, z2}, Readers <- {"reader"}, Sizes <- {1, 2},
  MaxBytes <- 2, MaxSnapshots <- 2, MaxUploads <- 1, MaxGeneration <- 3, granted <- x1,
  lease <- x2, generation <- x3, genOf <- x4, blocked <- x5, lapsed <- x6, entries <-
  x7, retired <- x8, removing <- x9, site <- x10, expired <- x11, readers <- x12, used
  <- x13, snapshots <- x14, uploads <- x15, req <- x16
Sync == INSTANCE StaticSync WITH
  Files <- {a1, a2}, Syncers <- {"relay"}, MaxVersion <- 2, MaxScans <- 3, file <- x1,
  producer <- x2, scanning <- x3, scans <- x4, snapshot <- x5, wake <- x6, stopped <-
  x7, limits <- x8, syncer <- x9, seen <- x10, manifest <- x11, waits <- x12, sent <-
  x13, relay <- x14, scanned <- x15
Certificate == INSTANCE RelayCertificate WITH
  MaxCerts <- 4, MaxTime <- 9, Life <- 6, Interval <- 2, Threshold <- 3, ExpiryFloor <-
  2, Tenants <- {"tenant"}, now <- x1, born <- x2, fileCert <- x3, fileKey <- x4,
  account <- x5, covers <- x6, current <- x7, retired <- x8, relay <- x9, step <- x10,
  fresh <- x11, next <- x12, excused <- x13, pin <- x14
Records == INSTANCE LeaseDns WITH
  Hosts <- {"host"}, MaxLeases <- 2, QueueCap <- 1, MaxStarts <- 2, current <- x1,
  expired <- x2, hostOf <- x3, sync <- x4, del <- x5, reaped <- x6, queue <- x7, server
  <- x8, loop <- x9, cmd <- x10, todo <- x11, pending <- x12, txt <- x13, addr <- x14,
  tracked <- x15, dropped <- x16, orphaned <- x17, starts <- x18
Dns == INSTANCE DnsProviders WITH
  Providers <- {"cloudflare", "vultr", "njalla", "hetzner", "gcloud", "route53"}, Ips <-
  {1, 2}, Ours <- {3, 4}, Foreign <- {5}, provider <- x1, zone <- x2, records <- x3,
  dnssec <- x4, call <- x5, foreign <- x6
Zone == INSTANCE EmbeddedZone WITH
  Labels <- {0, 1, 2}, Depth <- 3, TxtNames <- TxtOwners, Values <- {1}, txt <- x1, v4
  <- x2, v6 <- x3
Addresses == INSTANCE DnsSync WITH
  Hosts <- {a1, a2}, Addresses <- {1, 2}, Family <- {"v4"}, Backoffs <- 2, MaxChanges <-
  2, mode <- x1, public <- x2, changes <- x3, phase <- x4, base <- x5, rec <- x6,
  tracked <- x7, pendingENS <- x8, last <- x9, pendingAddress <- x10, failures <- x11,
  delay <- x12, partly <- x13
Signer == INSTANCE EmbeddedDns WITH
  Content <- {1, 2}, Refresh <- 2, Lifetime <- 4, Skew <- 1, MaxTime <- 5, MaxSerial <-
  7, MaxKeys <- 2, up <- x1, now <- x2, file <- x3, keys <- x4, key <- x5, exported <-
  x6, zone <- x7, serial <- x8, signed <- x9
Challenges == INSTANCE RegisterChallenge WITH
  Keys <- {a1, a2}, Sources <- {z1, z2}, MaxChallenges <- 2, PerSource <- 1, Outstanding
  <- 2, Budget <- 1, pc <- x1, key <- x2, src <- x3, held <- x4, expired <- x5, reg <-
  x6, from <- x7, lease <- x8, approved <- x9, blocked <- x10, missed <- x11
Budgets == INSTANCE RegisterChallenge WITH
  Keys <- {a1, a2}, Sources <- {"source"}, MaxChallenges <- 2, PerSource <- 2,
  Outstanding <- 2, Budget <- 1, pc <- x1, key <- x2, src <- x3, held <- x4, expired <-
  x5, reg <- x6, from <- x7, lease <- x8, approved <- x9, blocked <- x10, missed <- x11
Limited == INSTANCE SourceLimiter WITH
  Sources <- {"a", "b"}, Defaults <- DefaultLimits, Offered <- OfferedLimits, IdleTTL <-
  3, PruneInterval <- 2, MaxBuckets <- 1, MaxTime <- 8, now <- x1, config <- x2, buckets
  <- x3, global <- x4, lastPrune <- x5, idle <- x6, least <- x7, most <- x8, idealGlobal
  <- x9, told <- x10
Overlay == INSTANCE SourceLimiter WITH
  Sources <- {"a", "b"}, Defaults <- OverlayLimits, Offered <- {OverlayLimits}, IdleTTL
  <- 3, PruneInterval <- 2, MaxBuckets <- 1, MaxTime <- 8, now <- x1, config <- x2,
  buckets <- x3, global <- x4, lastPrune <- x5, idle <- x6, least <- x7, most <- x8,
  idealGlobal <- x9, told <- x10
Policy == INSTANCE PolicyStore WITH
  Keys <- {"key"}, Requests <- {a1, a2}, Flags <- {[mode |-> "auto", udp |-> FALSE],
  [mode |-> "manual", udp |-> TRUE]}, MaxStarts <- 2, up <- x1, starts <- x2, flags <-
  x3, listening <- x4, access <- x5, transport <- x6, enforced <- x7, bps <- x8, file <-
  x9, writer <- x10, tx <- x11, torn <- x12
Community == INSTANCE CommunityStores WITH
  Identities <- {a1, a2}, Sources <- {z1, z2}, Authors <- {"author"}, Requests <-
  {"request"}, MaxVoters <- 2, MaxIdentities <- 1, PerApp <- 1, PerRelay <- 2,
  PerComment <- 2, VotesPerRelay <- 2, MaxPosts <- 2, MaxStarts <- 2, up <- x1, starts
  <- x2, owner <- x3, request <- x4, ledger <- x5, secret <- x6, ledgerFile <- x7, board
  <- x8, boardFile <- x9, posted <- x10, ballots <- x11
Listener == INSTANCE SdkListener WITH
  Slots <- {"slot"}, MaxLeases <- 2, MaxRenewals <- 1, run <- x1, granted <- x2, tls <-
  x3, done <- x4, closer <- x5, closing <- x6, lease <- x7, workers <- x8, errs <- x9,
  renewer <- x10, renewing <- x11, dgram <- x12, session <- x13, served <- x14, issued
  <- x15, excused <- x16
Sessions == INSTANCE SdkSessions WITH
  Slots <- {a1, a2}, Conns <- {}, MaxRenewals <- 1, Gateways <- {"gw"}, MaxQueue <- 1,
  MaxAdmitting <- 1, lease <- x1, moved <- x2, slot <- x3, failed <- x4, replacing <-
  x5, ready <- x6, outbox <- x7, after <- x8, shown <- x9, conn <- x10, over <- x11,
  drained <- x12, late <- x13
Admitted == INSTANCE SdkSessions WITH
  Slots <- {"slot"}, Conns <- {z1, z2}, MaxRenewals <- 1, Gateways <- {"gw"}, MaxQueue
  <- 1, MaxAdmitting <- 1, lease <- x1, moved <- x2, slot <- x3, failed <- x4, replacing
  <- x5, ready <- x6, outbox <- x7, after <- x8, shown <- x9, conn <- x10, over <- x11,
  drained <- x12, late <- x13
Probe == INSTANCE SdkProbe WITH
  MaxProbes <- 2, relay <- x1, prober <- x2, probeNo <- x3, pending <- x4, sent <- x5,
  result <- x6, verdict <- x7, probeConn <- x8, sniff <- x9, client <- x10, bindConn <-
  x11, answer <- x12, fired <- x13, leased <- x14
Exposure == INSTANCE SdkExposure WITH
  Relays <- {"r"}, Listeners <- {"l1", "l2"}, Conns <- {}, MaxOps <- 2, MaxAccepted <-
  1, discovery <- x1, relayURLs <- x2, blocked <- x3, statuses <- x4, owner <- x5,
  metadata <- x6, done <- x7, ops <- x8, waiting <- x9, rec <- x10, L <- x11, conn <-
  x12, closer <- x13, closing <- x14, waiter <- x15, woken <- x16, tomb <- x17
Carrying == INSTANCE SdkExposure WITH
  Relays <- {"r"}, Listeners <- {"l1"}, Conns <- {"conn"}, MaxOps <- 1, MaxAccepted <-
  1, discovery <- x1, relayURLs <- x2, blocked <- x3, statuses <- x4, owner <- x5,
  metadata <- x6, done <- x7, ops <- x8, waiting <- x9, rec <- x10, L <- x11, conn <-
  x12, closer <- x13, closing <- x14, waiter <- x15, woken <- x16, tomb <- x17
Announced == INSTANCE RelaySet WITH
  Urls <- {a1, a2}, Identities <- {z1, z2}, Bootstraps <- {}, Horizon <- 4, Validity <-
  2, Skew <- 0, PoolBan <- 1, Backoff <- 1, MaxRelays <- 1, MaxPerIdentity <- 1,
  Recovery <- 1, MaxSteps <- 5, now <- x1, relays <- x2, keyIndex <- x3, incompatible <-
  x4, steps <- x5, polling <- x6, newest <- x7, served <- x8, pardoned <- x9, forever <-
  x10
Configured == INSTANCE RelaySet WITH
  Urls <- {"b1", "b2"}, Identities <- {z1, z2}, Bootstraps <- {"b1"}, Horizon <- 3,
  Validity <- 2, Skew <- 0, PoolBan <- 1, Backoff <- 1, MaxRelays <- 1, MaxPerIdentity
  <- 1, Recovery <- 1, MaxSteps <- 4, now <- x1, relays <- x2, keyIndex <- x3,
  incompatible <- x4, steps <- x5, polling <- x6, newest <- x7, served <- x8, pardoned
  <- x9, forever <- x10
Rank == INSTANCE RelayRank WITH
  MaxOrder <- 7, PoolSize <- 3, Health <- Measured, Pressures <- {0, 60}, MaxActive <-
  2, input <- x1, output <- x2
Controller == INSTANCE DiscoveryController WITH
  Relays <- {1, 2}, Explicit <- {1}, MaxActive <- 1, MaxOps <- 2, MaxOwing <- 1,
  explicit <- x1, active <- x2, banned <- x3, suppressed <- x4, verified <- x5, changed
  <- x6, locked <- x7, owing <- x8, selected <- x9, published <- x10, due <- x11, pc <-
  x12, route <- x13, up <- x14, reporting <- x15, ops <- x16, lapsed <- x17
Agent == INSTANCE AgentManager WITH
  Ids <- {a1, a2}, Requests <- {z1, z2}, Gates <- {0, 1}, Metas <- {0}, MaxLoops <- 2,
  MaxOps <- 2, file <- x1, torn <- x2, tunnels <- x3, loops <- x4, made <- x5, configMu
  <- x6, req <- x7, ops <- x8, rootDone <- x9
Gateway == INSTANCE HttpGateway WITH
  Configs <- Routes, RawPaths <- Paths, Locations <- Redirects, Payments <- Paid,
  Network <- "nano", PayTo <- TRUE, Reserved <- <<3>>, gateway <- x1, policies <- x2,
  routes <- x3, servesX402 <- x4, claimed <- x5, opened <- x6, last <- x7
Signin == INSTANCE AppAuth WITH
  Accounts <- {"a", "b"}, Hosts <- {"host"}, Settings <- Gates, Domain <- {"a"},
  SessionTTL <- 2, MinSessionTTL <- 1, LoginTTL <- 2, ChallengeTTL <- 1, Leeway <- 1,
  ReplayLimit <- 1, MaxTime <- 2, MaxRestarts <- 1, MaxIssued <- 2, now <- x1, gate <-
  x2, instance <- x3, issued <- x4, replay <- x5, spent <- x6, cookies <- x7, signins <-
  x8, last <- x9
Saml == INSTANCE AppAuth WITH
  Accounts <- {"a"}, Hosts <- {"host", "alias"}, Settings <- OneGate, Domain <- {"a"},
  SessionTTL <- 2, MinSessionTTL <- 1, LoginTTL <- 2, ChallengeTTL <- 1, Leeway <- 1,
  ReplayLimit <- 1, MaxTime <- 3, MaxRestarts <- 0, MaxIssued <- 3, now <- x1, gate <-
  x2, instance <- x3, issued <- x4, replay <- x5, spent <- x6, cookies <- x7, signins <-
  x8, last <- x9
Email == INSTANCE EmailLogin WITH
  Emails <- {"a", "b"}, Hosts <- {"alias"}, Aliases <- {"alias"}, Gates <- MailGates,
  LinkTTL <- 1, SessionTTL <- 1, Cooldown <- 1, Hour <- 2, AddressLimit <- 1,
  DomainLimit <- 1, Slots <- 1, MaxTime <- 2, MaxSends <- 2, MaxRestarts <- 1, now <-
  x1, gate <- x2, instance <- x3, public <- x4, links <- x5, sent <- x6, slots <- x7,
  mailed <- x8, opened <- x9, sessions <- x10, sends <- x11, last <- x12
Mail == INSTANCE EmailLogin WITH
  Emails <- {"a"}, Hosts <- {"host", "alias"}, Aliases <- {"alias"}, Gates <- MailGates,
  LinkTTL <- 1, SessionTTL <- 1, Cooldown <- 1, Hour <- 2, AddressLimit <- 1,
  DomainLimit <- 1, Slots <- 1, MaxTime <- 2, MaxSends <- 2, MaxRestarts <- 1, now <-
  x1, gate <- x2, instance <- x3, public <- x4, links <- x5, sent <- x6, slots <- x7,
  mailed <- x8, opened <- x9, sessions <- x10, sends <- x11, last <- x12
LiveRegistry == INSTANCE LeaseRegistry WITH
  Leases <- {"l1", "l2"}, Keys <- {"kA", "kB"}, NoLease <- "none", NoKey <- "none",
  MinPort <- 1, MaxPort <- 1, Kinds <- {"udp", "tcp"}, Requests <- {{"udp", "tcp"}},
  Returning <- {"l1"}, Stops <- TRUE, MaxLeases <- 1, pc <- x1, key <- x2, want <- x3,
  alias <- x4, port <- x5, bound <- x6, expired <- x7, victim <- x8, records <- x9,
  pools <- x10, closed <- x11, tasks <- x12, renewing <- x13, leaving <- x14, revived <-
  x15, down <- x16
LiveBridge == INSTANCE LeaseBridge WITH
  Conns <- {"c1", "c2"}, Leases <- {"l1"}, NoLease <- "none", InspectLimit <- 1,
  TenantLimit <- 2, BridgeLimit <- 1, pc <- x1, record <- x2, slot <- x3, inbound <- x4,
  reverse <- x5, late <- x6, inspecting <- x7, tenants <- x8, tracked <- x9, stop <-
  x10, last <- x11, current <- x12, expired <- x13, blocked <- x14, bridges <- x15,
  cancelled <- x16, departed <- x17, closed <- x18, poolClosed <- x19, closeDone <- x20
LiveListener == INSTANCE SdkListener WITH
  Slots <- {"slot"}, MaxLeases <- 2, MaxRenewals <- 1, run <- x1, granted <- x2, tls <-
  x3, done <- x4, closer <- x5, closing <- x6, lease <- x7, workers <- x8, errs <- x9,
  renewer <- x10, renewing <- x11, dgram <- x12, session <- x13, served <- x14, issued
  <- x15, excused <- x16
LiveExposure == INSTANCE SdkExposure WITH
  Relays <- {"r"}, Listeners <- {"l1"}, Conns <- {}, MaxOps <- 1, MaxAccepted <- 1,
  discovery <- x1, relayURLs <- x2, blocked <- x3, statuses <- x4, owner <- x5, metadata
  <- x6, done <- x7, ops <- x8, waiting <- x9, rec <- x10, L <- x11, conn <- x12, closer
  <- x13, closing <- x14, waiter <- x15, woken <- x16, tomb <- x17
LiveController == INSTANCE DiscoveryController WITH
  Relays <- {1, 2}, Explicit <- {1}, MaxActive <- 1, MaxOps <- 1, MaxOwing <- 1,
  explicit <- x1, active <- x2, banned <- x3, suppressed <- x4, verified <- x5, changed
  <- x6, locked <- x7, owing <- x8, selected <- x9, published <- x10, due <- x11, pc <-
  x12, route <- x13, up <- x14, reporting <- x15, ops <- x16, lapsed <- x17
LiveBackhaul == INSTANCE QuicBackhaul WITH
  Conns <- {"q1", "q2"}, Sources <- {1}, PendingLimit <- 1, SourceLimit <- 1, listener
  <- x1, pc <- x2, source <- x3, counts <- x4, slots <- x5, quic <- x6, callback <- x7,
  told <- x8, bound <- x9, live <- x10
LiveDial == INSTANCE QuicDial WITH
  Primary <- 1, Fallback <- 1, cancelled <- x1, caller <- x2, racer <- x3, left <- x4,
  conn <- x5, firstErr <- x6, started <- x7, timer <- x8, result <- x9
LiveMux == INSTANCE ReverseMux WITH
  MaxLeases <- 2, Muxes <- {"m1", "m2"}, Streams <- {}, granted <- x1, current <- x2,
  blocked <- x3, recClosed <- x4, poolClosed <- x5, reverseMux <- x6, handler <- x7, of
  <- x8, open <- x9, toClose <- x10, serving <- x11, stream <- x12, cap <- x13, on <-
  x14, client <- x15, vetted <- x16
LiveSync == INSTANCE StaticSync WITH
  Files <- {"f1"}, Syncers <- {"relay"}, MaxVersion <- 2, MaxScans <- 2, file <- x1,
  producer <- x2, scanning <- x3, scans <- x4, snapshot <- x5, wake <- x6, stopped <-
  x7, limits <- x8, syncer <- x9, seen <- x10, manifest <- x11, waits <- x12, sent <-
  x13, relay <- x14, scanned <- x15
LiveProxy == INSTANCE ProxyBridge WITH
  MaxUnits <- 1, sent <- x1, ended <- x2, broken <- x3, asked <- x4, taken <- x5,
  delivered <- x6, copy <- x7, finished <- x8, canceled <- x9, after <- x10, closed <-
  x11, bridge <- x12, activeConns <- x13, tcpBytes <- x14
LiveRecords == INSTANCE LeaseDns WITH
  Hosts <- {"host"}, MaxLeases <- 1, QueueCap <- 1, MaxStarts <- 1, current <- x1,
  expired <- x2, hostOf <- x3, sync <- x4, del <- x5, reaped <- x6, queue <- x7, server
  <- x8, loop <- x9, cmd <- x10, todo <- x11, pending <- x12, txt <- x13, addr <- x14,
  tracked <- x15, dropped <- x16, orphaned <- x17, starts <- x18

\* A component with fewer variables leaves the last ones alone.
Idle2 == x3 = "off" /\ x4 = "off" /\ x5 = "off" /\ x6 = "off" /\ x7 = "off" /\ x8 =
  "off" /\ x9 = "off" /\ x10 = "off" /\ x11 = "off" /\ x12 = "off" /\ x13 = "off" /\ x14
  = "off" /\ x15 = "off" /\ x16 = "off" /\ x17 = "off" /\ x18 = "off" /\ x19 = "off" /\
  x20 = "off"
Rest2 == <<x3, x4, x5, x6, x7, x8, x9, x10, x11, x12, x13, x14, x15, x16, x17, x18, x19,
  x20>>
Idle3 == x4 = "off" /\ x5 = "off" /\ x6 = "off" /\ x7 = "off" /\ x8 = "off" /\ x9 =
  "off" /\ x10 = "off" /\ x11 = "off" /\ x12 = "off" /\ x13 = "off" /\ x14 = "off" /\
  x15 = "off" /\ x16 = "off" /\ x17 = "off" /\ x18 = "off" /\ x19 = "off" /\ x20 = "off"
Rest3 == <<x4, x5, x6, x7, x8, x9, x10, x11, x12, x13, x14, x15, x16, x17, x18, x19,
  x20>>
Idle6 == x7 = "off" /\ x8 = "off" /\ x9 = "off" /\ x10 = "off" /\ x11 = "off" /\ x12 =
  "off" /\ x13 = "off" /\ x14 = "off" /\ x15 = "off" /\ x16 = "off" /\ x17 = "off" /\
  x18 = "off" /\ x19 = "off" /\ x20 = "off"
Rest6 == <<x7, x8, x9, x10, x11, x12, x13, x14, x15, x16, x17, x18, x19, x20>>
Idle7 == x8 = "off" /\ x9 = "off" /\ x10 = "off" /\ x11 = "off" /\ x12 = "off" /\ x13 =
  "off" /\ x14 = "off" /\ x15 = "off" /\ x16 = "off" /\ x17 = "off" /\ x18 = "off" /\
  x19 = "off" /\ x20 = "off"
Rest7 == <<x8, x9, x10, x11, x12, x13, x14, x15, x16, x17, x18, x19, x20>>
Idle8 == x9 = "off" /\ x10 = "off" /\ x11 = "off" /\ x12 = "off" /\ x13 = "off" /\ x14 =
  "off" /\ x15 = "off" /\ x16 = "off" /\ x17 = "off" /\ x18 = "off" /\ x19 = "off" /\
  x20 = "off"
Rest8 == <<x9, x10, x11, x12, x13, x14, x15, x16, x17, x18, x19, x20>>
Idle9 == x10 = "off" /\ x11 = "off" /\ x12 = "off" /\ x13 = "off" /\ x14 = "off" /\ x15
  = "off" /\ x16 = "off" /\ x17 = "off" /\ x18 = "off" /\ x19 = "off" /\ x20 = "off"
Rest9 == <<x10, x11, x12, x13, x14, x15, x16, x17, x18, x19, x20>>
Idle10 == x11 = "off" /\ x12 = "off" /\ x13 = "off" /\ x14 = "off" /\ x15 = "off" /\ x16
  = "off" /\ x17 = "off" /\ x18 = "off" /\ x19 = "off" /\ x20 = "off"
Rest10 == <<x11, x12, x13, x14, x15, x16, x17, x18, x19, x20>>
Idle11 == x12 = "off" /\ x13 = "off" /\ x14 = "off" /\ x15 = "off" /\ x16 = "off" /\ x17
  = "off" /\ x18 = "off" /\ x19 = "off" /\ x20 = "off"
Rest11 == <<x12, x13, x14, x15, x16, x17, x18, x19, x20>>
Idle12 == x13 = "off" /\ x14 = "off" /\ x15 = "off" /\ x16 = "off" /\ x17 = "off" /\ x18
  = "off" /\ x19 = "off" /\ x20 = "off"
Rest12 == <<x13, x14, x15, x16, x17, x18, x19, x20>>
Idle13 == x14 = "off" /\ x15 = "off" /\ x16 = "off" /\ x17 = "off" /\ x18 = "off" /\ x19
  = "off" /\ x20 = "off"
Rest13 == <<x14, x15, x16, x17, x18, x19, x20>>
Idle14 == x15 = "off" /\ x16 = "off" /\ x17 = "off" /\ x18 = "off" /\ x19 = "off" /\ x20
  = "off"
Rest14 == <<x15, x16, x17, x18, x19, x20>>
Idle15 == x16 = "off" /\ x17 = "off" /\ x18 = "off" /\ x19 = "off" /\ x20 = "off"
Rest15 == <<x16, x17, x18, x19, x20>>
Idle16 == x17 = "off" /\ x18 = "off" /\ x19 = "off" /\ x20 = "off"
Rest16 == <<x17, x18, x19, x20>>
Idle17 == x18 = "off" /\ x19 = "off" /\ x20 = "off"
Rest17 == <<x18, x19, x20>>
Idle18 == x19 = "off" /\ x20 = "off"
Rest18 == <<x19, x20>>

\* The variables of a component.
own9 == <<x1, x2, x3, x4, x5, x6, x7, x8, x9>>
own10 == <<x1, x2, x3, x4, x5, x6, x7, x8, x9, x10>>
own14 == <<x1, x2, x3, x4, x5, x6, x7, x8, x9, x10, x11, x12, x13, x14>>
own15 == <<x1, x2, x3, x4, x5, x6, x7, x8, x9, x10, x11, x12, x13, x14, x15>>
own16 == <<x1, x2, x3, x4, x5, x6, x7, x8, x9, x10, x11, x12, x13, x14, x15, x16>>
own17 == <<x1, x2, x3, x4, x5, x6, x7, x8, x9, x10, x11, x12, x13, x14, x15, x16, x17>>
own18 == <<x1, x2, x3, x4, x5, x6, x7, x8, x9, x10, x11, x12, x13, x14, x15, x16, x17,
  x18>>
own20 == <<x1, x2, x3, x4, x5, x6, x7, x8, x9, x10, x11, x12, x13, x14, x15, x16, x17,
  x18, x19, x20>>

Init ==
  \/ /\ Plane = "data"
     /\ \/ part = "bridge" /\ Ingress!Init
        \/ part = "replaced" /\ Replaced!Init
        \/ part = "copy" /\ Copy!Init /\ Idle14
        \/ part = "limiter" /\ Limiter!Init /\ Idle12
        \/ part = "credit" /\ Credit!Init /\ Idle12
        \/ part = "mux" /\ Mux!Init /\ Idle16
        \/ part = "dial" /\ Dial!Init /\ Idle9
        \/ part = "backhaul" /\ Backhaul!Init /\ Idle10
        \/ part = "session" /\ Session!Init /\ Idle14
        \/ part = "flows" /\ Flows!Init /\ Idle13
        \/ part = "relaygateway" /\ RelayGateway!Init /\ Idle8
        \/ part = "connect" /\ Connect!Init /\ Idle16
        \/ part = "signing" /\ Signing!Init /\ Idle8
        \/ part = "racing" /\ Racing!Init /\ Idle8
        \/ part = "pinning" /\ Pinning!Init /\ Idle10
        \/ part = "cache" /\ Cache!Init /\ Idle16
        \/ part = "sync" /\ Sync!Init /\ Idle15
  \/ /\ Plane = "control"
     /\ \/ part = "certificate" /\ Certificate!Init /\ Idle14
        \/ part = "records" /\ Records!Init /\ Idle18
        \/ part = "providers" /\ Dns!Init /\ Idle6
        \/ part = "zone" /\ Zone!Init /\ Idle3
        \/ part = "addresses" /\ Addresses!Init /\ Idle13
        \/ part = "signer" /\ Signer!Init /\ Idle9
        \/ part = "challenge" /\ Challenges!Init /\ Idle11
        \/ part = "budget" /\ Budgets!Init /\ Idle11
        \/ part = "requests" /\ Limited!Init /\ Idle10
        \/ part = "overlay" /\ Overlay!Init /\ Idle10
        \/ part = "policy" /\ Policy!Init /\ Idle12
        \/ part = "community" /\ Community!Init /\ Idle11
  \/ /\ Plane = "client"
     /\ \/ part = "listener" /\ Listener!Init /\ Idle16
        \/ part = "sessions" /\ Sessions!Init /\ Idle13
        \/ part = "admitted" /\ Admitted!Init /\ Idle13
        \/ part = "probe" /\ Probe!Init /\ Idle14
        \/ part = "exposure" /\ Exposure!Init /\ Idle17
        \/ part = "carrying" /\ Carrying!Init /\ Idle17
        \/ part = "announced" /\ Announced!Init /\ Idle10
        \/ part = "configured" /\ Configured!Init /\ Idle10
        \/ part = "rank" /\ Rank!Init /\ Idle2
        \/ part = "controller" /\ Controller!Init /\ Idle17
        \/ part = "agent" /\ Agent!Init /\ Idle9
        \/ part = "gateway" /\ Gateway!Init /\ Idle7
        \/ part = "signin" /\ Signin!Init /\ Idle9
        \/ part = "saml" /\ Saml!Init /\ Idle9
        \/ part = "email" /\ Email!Init /\ Idle12
        \/ part = "mail" /\ Mail!Init /\ Idle12
  \/ /\ Plane = "live"
     /\ \/ part = "live registry" /\ LiveRegistry!Init /\ Idle16
        \/ part = "live bridge" /\ LiveBridge!Init
        \/ part = "live listener" /\ LiveListener!Init /\ Idle16
        \/ part = "live exposure" /\ LiveExposure!Init /\ Idle17
        \/ part = "live controller" /\ LiveController!Init /\ Idle17
        \/ part = "live backhaul" /\ LiveBackhaul!Init /\ Idle10
        \/ part = "live dial" /\ LiveDial!Init /\ Idle9
        \/ part = "live mux" /\ LiveMux!Init /\ Idle16
        \/ part = "live sync" /\ LiveSync!Init /\ Idle15
        \/ part = "live proxy" /\ LiveProxy!Init /\ Idle14
        \/ part = "live records" /\ LiveRecords!Init /\ Idle18

Next ==
  /\ UNCHANGED part
  /\ \/ part = "bridge" /\ Ingress!Next
     \/ part = "replaced" /\ Replaced!Next
     \/ part = "copy" /\ Copy!Next /\ UNCHANGED Rest14
     \/ part = "limiter" /\ Limiter!Next /\ UNCHANGED Rest12
     \/ part = "credit" /\ Credit!Next /\ UNCHANGED Rest12
     \/ part = "mux" /\ Mux!Next /\ UNCHANGED Rest16
     \/ part = "dial" /\ Dial!Next /\ UNCHANGED Rest9
     \/ part = "backhaul" /\ Backhaul!Next /\ UNCHANGED Rest10
     \/ part = "session" /\ Session!Next /\ UNCHANGED Rest14
     \/ part = "flows" /\ Flows!Next /\ UNCHANGED Rest13
     \/ part = "relaygateway" /\ RelayGateway!Next /\ UNCHANGED Rest8
     \/ part = "connect" /\ Connect!Next /\ UNCHANGED Rest16
     \/ part = "signing" /\ Signing!Next /\ UNCHANGED Rest8
     \/ part = "racing" /\ Racing!Next /\ UNCHANGED Rest8
     \/ part = "pinning" /\ Pinning!Next /\ UNCHANGED Rest10
     \/ part = "cache" /\ Cache!Next /\ UNCHANGED Rest16
     \/ part = "sync" /\ Sync!Next /\ UNCHANGED Rest15
     \/ part = "certificate" /\ Certificate!Next /\ UNCHANGED Rest14
     \/ part = "records" /\ Records!Next /\ UNCHANGED Rest18
     \/ part = "providers" /\ Dns!Next /\ UNCHANGED Rest6
     \/ part = "zone" /\ Zone!Next /\ UNCHANGED Rest3
     \/ part = "addresses" /\ Addresses!Next /\ UNCHANGED Rest13
     \/ part = "signer" /\ Signer!Next /\ UNCHANGED Rest9
     \/ part = "challenge" /\ Challenges!Next /\ UNCHANGED Rest11
     \/ part = "budget" /\ Budgets!Next /\ UNCHANGED Rest11
     \/ part = "requests" /\ Limited!Next /\ UNCHANGED Rest10
     \/ part = "overlay" /\ Overlay!Next /\ UNCHANGED Rest10
     \/ part = "policy" /\ Policy!Next /\ UNCHANGED Rest12
     \/ part = "community" /\ Community!Next /\ UNCHANGED Rest11
     \/ part = "listener" /\ Listener!Next /\ UNCHANGED Rest16
     \/ part = "sessions" /\ Sessions!Next /\ UNCHANGED Rest13
     \/ part = "admitted" /\ Admitted!Next /\ UNCHANGED Rest13
     \/ part = "probe" /\ Probe!Next /\ UNCHANGED Rest14
     \/ part = "exposure" /\ Exposure!Next /\ UNCHANGED Rest17
     \/ part = "carrying" /\ Carrying!Next /\ UNCHANGED Rest17
     \/ part = "announced" /\ Announced!Next /\ UNCHANGED Rest10
     \/ part = "configured" /\ Configured!Next /\ UNCHANGED Rest10
     \/ part = "rank" /\ Rank!Next /\ UNCHANGED Rest2
     \/ part = "controller" /\ Controller!Next /\ UNCHANGED Rest17
     \/ part = "agent" /\ Agent!Next /\ UNCHANGED Rest9
     \/ part = "gateway" /\ Gateway!Next /\ UNCHANGED Rest7
     \/ part = "signin" /\ Signin!Next /\ UNCHANGED Rest9
     \/ part = "saml" /\ Saml!Next /\ UNCHANGED Rest9
     \/ part = "email" /\ Email!Next /\ UNCHANGED Rest12
     \/ part = "mail" /\ Mail!Next /\ UNCHANGED Rest12
     \/ part = "live registry" /\ LiveRegistry!Next /\ UNCHANGED Rest16
     \/ part = "live bridge" /\ LiveBridge!Next
     \/ part = "live listener" /\ LiveListener!Next /\ UNCHANGED Rest16
     \/ part = "live exposure" /\ LiveExposure!Next /\ UNCHANGED Rest17
     \/ part = "live controller" /\ LiveController!Next /\ UNCHANGED Rest17
     \/ part = "live backhaul" /\ LiveBackhaul!Next /\ UNCHANGED Rest10
     \/ part = "live dial" /\ LiveDial!Next /\ UNCHANGED Rest9
     \/ part = "live mux" /\ LiveMux!Next /\ UNCHANGED Rest16
     \/ part = "live sync" /\ LiveSync!Next /\ UNCHANGED Rest15
     \/ part = "live proxy" /\ LiveProxy!Next /\ UNCHANGED Rest14
     \/ part = "live records" /\ LiveRecords!Next /\ UNCHANGED Rest18

Spec == Init /\ [][Next]_vars

PairSymmetry == Permutations({a1, a2}) \cup Permutations({z1, z2})
Symmetry == PairSymmetry \cup Permutations({w1, w2, w3})

(* Every component's state has its type.                                      *)
DataTypes ==
  CASE part = "bridge" -> Ingress!TypeOK
    [] part = "replaced" -> Replaced!TypeOK
    [] part = "copy" -> Copy!TypeOK
    [] part = "limiter" -> Limiter!TypeOK
    [] part = "credit" -> Credit!TypeOK
    [] part = "mux" -> Mux!TypeOK
    [] part = "dial" -> Dial!TypeOK
    [] part = "backhaul" -> Backhaul!TypeOK
    [] part = "session" -> Session!TypeOK
    [] part = "flows" -> Flows!TypeOK
    [] part = "relaygateway" -> RelayGateway!TypeOK
    [] part = "connect" -> Connect!TypeOK
    [] part = "signing" -> Signing!TypeOK
    [] part = "racing" -> Racing!TypeOK
    [] part = "pinning" -> Pinning!TypeOK
    [] part = "cache" -> Cache!TypeOK
    [] part = "sync" -> Sync!TypeOK

(* The budgets of the ingress are exact, refused bridges are cancelled and    *)
(* what was closed stays quiet; a copied stream loses nothing at a half-      *)
(* close, and a copy that returned has left nothing open; nobody waits on a   *)
(* limiter nobody owns, and the rate holds.                                   *)
IngressSafe ==
  /\ (part = "bridge" => Ingress!BudgetsExact /\ Ingress!RefusedIsCancelled /\ Ingress!ClosedIsQuiet)
  /\ (part = "replaced" =>
        Replaced!BudgetsExact /\ Replaced!RefusedIsCancelled /\ Replaced!ClosedIsQuiet)
  /\ (part = "copy" => Copy!NothingLost /\ Copy!ReturnedClean)
  /\ (part = "limiter" => Limiter!NoOrphanLimiter /\ Limiter!RateBounded)
  /\ (part = "credit" => Credit!NoOrphanLimiter /\ Credit!RateBounded)

(* A carrier serves the lease it was admitted for: mux streams are vetted,    *)
(* admission of QUIC sessions is exact and no dialled connection is left      *)
(* over, datagrams stay with their lease and their client, and overlay        *)
(* admission is released once.                                                *)
CarriersSafe ==
  /\ (part = "mux" => Mux!CarrierOwned /\ Mux!StreamsVetted)
  /\ (part = "dial" => Dial!NoConnectionLeft)
  /\ (part = "backhaul" => Backhaul!AdmissionExact)
  /\ (part = "session" => Session!OneConnection /\ Session!LeaseKeepsToItself)
  /\ (part = "flows" => Flows!IndexExact /\ Flows!AnswersReachTheirClient)
  /\ (part = "relaygateway" => RelayGateway!NoForgottenAssignment)
  /\ (part = "connect" => Connect!AdmissionExact /\ Connect!AcceptedHasRoom)

(* A binding signs once, pinned signers are released, cached bytes are        *)
(* charged exactly and stay while they are read, a revoked site is not        *)
(* published, and a relay gets only whole scans.                              *)
TenantsSafe ==
  /\ (part = "signing" => Signing!SignedOnce) /\ (part = "racing" => Racing!SignedOnce)
  /\ (part = "pinning" => Pinning!SignersReleased)
  /\ (part = "cache" => Cache!ChargeExact /\ Cache!ReadersPinned /\ Cache!RevokedUnpublished)
  /\ (part = "sync" => Sync!OnlyScanned /\ Sync!NoMissedGeneration)

(* Nothing is signed once the visit's lease is gone, a slower fetch pins no   *)
(* older chain, a revoked site is not revived by a late renewal, limiter      *)
(* credit is not lost, and a failed gateway rests before it is tried again.   *)
DataSteps ==
  [][/\ (part = "signing" => Signing!SignedWhileOpen) /\ (part = "racing" => Racing!SignedWhileOpen)
     /\ (part = "pinning" => Pinning!NeverOlder)
     /\ (part = "cache" => Cache!NotRevived)
     /\ (part = "limiter" => Limiter!CreditNeverLost)
     /\ (part = "credit" => Credit!CreditNeverLost)
     /\ (part = "relaygateway" => RelayGateway!FailedGatewayRests)]_vars

(* Every component's state has its type.                                      *)
ControlTypes ==
  CASE part = "certificate" -> Certificate!TypeOK
    [] part = "records" -> Records!TypeOK
    [] part = "providers" -> Dns!TypeOK
    [] part = "zone" -> Zone!TypeOK
    [] part = "addresses" -> Addresses!TypeOK
    [] part = "signer" -> Signer!TypeOK
    [] part = "challenge" -> Challenges!TypeOK
    [] part = "budget" -> Budgets!TypeOK
    [] part = "requests" -> Limited!TypeOK
    [] part = "overlay" -> Overlay!TypeOK
    [] part = "policy" -> Policy!TypeOK
    [] part = "community" -> Community!TypeOK

(* What signs is what is pinned, and the certificate is renewed before it     *)
(* expires whenever a renewal succeeds in time.                               *)
CertificateSafe == part = "certificate" => Certificate!PinnedIsSigned /\ Certificate!RenewedInTime

(* Records follow the lease and what a crash leaves is tracked; a provider    *)
(* call that returns without error is done and spares foreign records;        *)
(* addresses are published or retried.                                        *)
DnsSafe ==
  /\ (part = "records" => Records!RecordsFollowLease /\ Records!LeftoversTracked)
  /\ (part = "providers" => Dns!ReturnsDone /\ Dns!ForeignKept)
  /\ (part = "addresses" => Addresses!SyncSound)

(* The embedded zone answers as its records say, wildcards and denials        *)
(* included, and is signed by a key that stays.                               *)
ZoneSound ==
  /\ (part = "zone" => Zone!AnswersSound)
  /\ (part = "signer" => Signer!EmbeddedSound)

(* Outstanding challenges and unapproved leases of a source stay within its   *)
(* budget. A source finds what its burst and its rate have left it, and a     *)
(* full burst only after it stayed away for the idle time, and the delay a    *)
(* caller is told is enough.                                                  *)
AdmissionFair ==
  /\ (part = "challenge" => Challenges!BudgetHolds)
  /\ (part = "budget" => Budgets!BudgetHolds)
  /\ (part = "requests" => Limited!BudgetKept /\ Limited!RetryIsEnough)
  /\ (part = "overlay" => Overlay!BudgetKept /\ Overlay!RetryIsEnough)

(* What the relay holds in memory is what a restart would load, denials win   *)
(* over approvals, stored files always load, and a source votes once.         *)
StoresSafe ==
  /\ (part = "policy" => Policy!MemoryIsFile /\ Policy!DeniedWins)
  /\ (part = "community" => Community!FileLoads /\ Community!OneVoterPerSource)

(* Every component's state has its type.                                      *)
ClientTypes ==
  CASE part = "listener" -> Listener!TypeOK
    [] part = "sessions" -> Sessions!TypeOK
    [] part = "admitted" -> Admitted!TypeOK
    [] part = "probe" -> Probe!TypeOK
    [] part = "exposure" -> Exposure!TypeOK
    [] part = "carrying" -> Carrying!TypeOK
    [] part = "announced" -> Announced!TypeOK
    [] part = "configured" -> Configured!TypeOK
    [] part = "rank" -> Rank!TypeOK
    [] part = "controller" -> Controller!TypeOK
    [] part = "agent" -> Agent!TypeOK
    [] part = "gateway" -> Gateway!TypeOK
    [] part = "signin" -> Signin!TypeOK
    [] part = "saml" -> Saml!TypeOK
    [] part = "email" -> Email!TypeOK
    [] part = "mail" -> Mail!TypeOK

(* A listener that has ended holds nothing and serves one lease at a time;    *)
(* the ready count is exact and no admitted connection is stranded; a probe   *)
(* passes exactly when both ends see one TLS session.                         *)
ListenerSafe ==
  /\ (part = "listener" => Listener!ClosedHoldsNothing /\ Listener!OneLeaseAtATime)
  /\ (part = "sessions" => Sessions!ReadyExact /\ Sessions!NoneStranded)
  /\ (part = "admitted" => Admitted!ReadyExact /\ Admitted!NoneStranded)
  /\ (part = "probe" => Probe!ProbeSound)

(* Deselected and blocked relays stay out, metadata reaches every listener,   *)
(* Close leaves nothing behind, and no waiter misses a change.                *)
ExposureSafe ==
  /\ (part = "exposure" =>
        /\ Exposure!Tombstoned /\ Exposure!BlockedNotServed /\ Exposure!MetadataCurrent
        /\ Exposure!ClosedClean /\ Exposure!NoLostWakeup)
  /\ (part = "carrying" => Carrying!ClosedClean)

(* The caps of the relay set hold, and a banned relay is not listed.          *)
RelaySetSafe ==
  /\ (part = "announced" => Announced!Capped /\ Announced!BannedUnlisted)
  /\ (part = "configured" => Configured!Capped /\ Configured!BannedUnlisted)

(* The grid is a pair of orthogonal Latin squares, the selection keeps what   *)
(* is in use and falls back last, and Next sleeps only on an up-to-date       *)
(* selection.                                                                 *)
SelectionSound ==
  /\ (part = "rank" => Rank!GridSound /\ Rank!SelectionSound)
  /\ (part = "controller" => Controller!SelectionFresh)

(* A late answer never overwrites newer state: a new endpoint replaces only   *)
(* the one that failed, and a listener's final failure stays its relay's      *)
(* status.                                                                    *)
StaleNeverStored ==
  [][/\ (part = "sessions" => Sessions!EndpointKept) /\ (part = "admitted" => Admitted!EndpointKept)
     /\ (part = "exposure" => Exposure!FinalFailureKept)]_vars

(* No descriptor is rolled back, no verified URL is taken over by gossip, and *)
(* eviction takes candidates first.                                           *)
RelaySteps ==
  [][/\ (part = "announced" => Announced!NoRollback /\ Announced!NoTakeover /\ Announced!EvictsInOrder)
     /\ (part = "configured" => Configured!NoRollback /\ Configured!NoTakeover /\ Configured!EvictsInOrder)]_vars

(* A tunnel has one runtime at a time, and the settings it runs under are the *)
(* saved ones.                                                                *)
AgentSound == part = "agent" => Agent!AgentSound

(* A paid route is served to payers only, a payment opens one request of one  *)
(* route, and redirects lead back through the gateway.                        *)
GatewaySound == part = "gateway" => Gateway!GatewaySound

(* Who reaches the application proved to be who it is told, is permitted now, *)
(* and at a host the tunnel has if a mailed link was the proof. An answer of  *)
(* a provider signs in once per gate and a mailed link once, where they were  *)
(* meant; a wallet challenge signs in at its own gate only; and mail stays    *)
(* within its limits.                                                         *)
SigninSound ==
  /\ (part = "signin" => Signin!AuthSound) /\ (part = "saml" => Saml!AuthSound)
  /\ (part = "email" => Email!EmailSound)
  /\ (part = "mail" => Mail!EmailSound)

-----------------------------------------------------------------------------
(* A registration that has taken its ports goes on, and what it closes is closed.   *)
LiveRegistryFair ==
  /\ \A l \in {"l1", "l2"} :
       /\ WF_own16(part = "live registry" /\ LiveRegistry!Register(l))
       /\ WF_own16(part = "live registry" /\ LiveRegistry!Closing(l))

(* The workers run, a claim waits no longer than its timeout, and closing goes on.  *)
LiveBridgeFair ==
  /\ \A c \in {"c1", "c2"} :
       /\ WF_own20(part = "live bridge" /\ LiveBridge!Work(c))
       /\ WF_own20(part = "live bridge" /\ LiveBridge!ClaimTimeout(c))
  /\ WF_own20(part = "live bridge" /\ LiveBridge!Closing("l1"))
  /\ WF_own20(part = "live bridge" /\ LiveBridge!Shutdown)

(* Every goroutine keeps running and every request is answered or times out; an     *)
(* exposure that has ended its context closes its listeners; a relay that keeps     *)
(* being asked about a lease it has forgotten answers at some point (strong         *)
(* fairness).                                                                       *)
LiveListenerFair ==
  /\ WF_own16(part = "live listener" /\ LiveListener!Run)
  /\ WF_own16(part = "live listener" /\ LiveListener!Closing)
  /\ WF_own16(part = "live listener" /\ LiveListener!Renew)
  /\ WF_own16(part = "live listener" /\ LiveListener!Dgram)
  /\ WF_own16(part = "live listener" /\ LiveListener!WorkerDue("slot"))
  /\ WF_own16(part = "live listener" /\ LiveListener!CloseDue)
  /\ SF_own16(part = "live listener" /\ LiveListener!ForgottenIsSaid)

(* Goroutines that can run do run; newListener, listener.Close and the locks        *)
(* return. Nothing makes the application call or the relays answer.                 *)
LiveExposureFair ==
  /\ WF_own17(part = "live exposure" /\ LiveExposure!Reconcile)
  /\ WF_own17(part = "live exposure" /\ LiveExposure!CloseStep)
  /\ WF_own17(part = "live exposure" /\ LiveExposure!WaitCheck)
  /\ WF_own17(part = "live exposure" /\ LiveExposure!WaitClosed)
  /\ WF_own17(part = "live exposure" /\ LiveExposure!ListenerStep("l1"))

(* The loop runs, the timer fires, a seen failure is reported, a suppression ends.  *)
LiveControllerFair ==
  /\ WF_own17(part = "live controller" /\ LiveController!NextLoop)
  /\ WF_own17(part = "live controller" /\ LiveController!Timer)
  /\ WF_own17(part = "live controller" /\ LiveController!SignalLocked)
  /\ WF_own17(part = "live controller" /\ LiveController!SignalOwed)
  /\ \A r \in {1, 2} :
       /\ WF_own17(part = "live controller" /\ \E mitm \in BOOLEAN : LiveController!Report(r, mitm))
       /\ WF_own17(part = "live controller" /\ LiveController!SuppressionEnds(r))
       /\ WF_own17(part = "live controller" /\ LiveController!ListenerReady(r))

(* A handler never waits for its peer beyond the timeout, and the callback is       *)
(* scheduled.                                                                       *)
LiveBackhaulFair ==
  /\ WF_own10(part = "live backhaul" /\ LiveBackhaul!ListenerReturns)
  /\ \A c \in {"q1", "q2"} :
       /\ WF_own10(part = "live backhaul" /\ LiveBackhaul!Handler(c))
       /\ WF_own10(part = "live backhaul" /\ LiveBackhaul!CallbackCloses(c))

(* An attempt ends by its share of the deadline; the timer fires.                   *)
LiveDialFair ==
  /\ WF_own9(part = "live dial" /\ LiveDial!Dialer)
  /\ WF_own9(part = "live dial" /\ LiveDial!TimerFires)
  /\ \A f \in LiveDial!Families :
       /\ WF_own9(part = "live dial" /\ LiveDial!Racer(f))

(* Handlers run, and a session that was taken out is closed.                        *)
LiveMuxFair ==
  /\ \A m \in {"m1", "m2"} :
       /\ WF_own16(part = "live mux" /\ LiveMux!Handler(m))
       /\ WF_own16(part = "live mux" /\ LiveMux!CloseTaken(m))

(* The producer and the syncers run; a wake token is taken.                         *)
LiveSyncFair ==
  /\ WF_own15(part = "live sync" /\ LiveSync!TakesWake)
  /\ WF_own15(part = "live sync" /\ LiveSync!ScanFile("f1"))
  /\ WF_own15(part = "live sync" /\ LiveSync!Publish)
  /\ WF_own15(part = "live sync" /\ LiveSync!RunStops)
  /\ WF_own15(part = "live sync" /\ (LiveSync!SyncerSteps("relay") \/ LiveSync!Permanent("relay")))

(* The goroutines run; a blocked read ends when its connection is closed, and the   *)
(* peers read what is written to them or break.                                     *)
LiveProxyFair ==
  /\ WF_own14(part = "live proxy" /\ LiveProxy!Bridge)
  /\ \A s \in LiveProxy!Sides :
       /\ WF_own14(part = "live proxy" /\ LiveProxy!Read(s))
       /\ WF_own14(part = "live proxy" /\ LiveProxy!Throttle(s))
       /\ WF_own14(part = "live proxy" /\ LiveProxy!Write(s))

(* Every call of a provider returns, a handler's wait is bounded by its context,    *)
(* and the mutex is granted to the waiting writer.                                  *)
LiveRecordsFair ==
  /\ WF_own18(part = "live records" /\ (LiveRecords!CallSucceeds \/ LiveRecords!CallFails))
  /\ WF_own18(part = "live records" /\ LiveRecords!StopTick)
  /\ WF_own18(part = "live records" /\ LiveRecords!Drain)
  /\ WF_own18(part = "live records" /\ LiveRecords!FlushNext)
  /\ WF_own18(part = "live records" /\ LiveRecords!Reconcile)
  /\ WF_own18(part = "live records" /\ LiveRecords!StopLocked)
  /\ WF_own18(part = "live records" /\ LiveRecords!SyncMoves(1))
  /\ WF_own18(part = "live records" /\ LiveRecords!DeleteMoves(1))

LiveSpec == Spec /\ LiveRegistryFair /\ LiveBridgeFair /\ LiveListenerFair /\
            LiveExposureFair /\ LiveControllerFair /\ LiveBackhaulFair /\ LiveDialFair
            /\ LiveMuxFair /\ LiveSyncFair /\ LiveProxyFair /\ LiveRecordsFair

-----------------------------------------------------------------------------

\* A component was asked to end, or to finish what it began; and it has.
Asked ==
  CASE part = "live bridge" -> LiveBridge!ShutdownAsked
    [] part = "live listener" -> LiveListener!EndAsked
    [] part = "live exposure" -> LiveExposure!EndAsked
    [] part = "live controller" -> TRUE
    [] part = "live backhaul" -> LiveBackhaul!EndAsked
    [] part = "live dial" -> TRUE
    [] part = "live proxy" -> LiveProxy!EndDue
    [] part = "live records" -> LiveRecords!StopAsked
    [] OTHER -> FALSE
Ended ==
  CASE part = "live bridge" -> LiveBridge!ShutdownEnded
    [] part = "live listener" -> LiveListener!Finished
    [] part = "live exposure" -> LiveExposure!Over
    [] part = "live controller" -> LiveController!Settled
    [] part = "live backhaul" -> LiveBackhaul!Over
    [] part = "live dial" -> LiveDial!Over
    [] part = "live proxy" -> LiveProxy!Over
    [] part = "live records" -> LiveRecords!StopEnded
    [] OTHER -> TRUE

(* Whatever is closed ends: Shutdown of the relay past CloseAll and its workers, the         *)
(* listener and the exposure of a client with all they started and whoever waits for a       *)
(* ready relay, the QUIC listener, both racers of a dial, a bridge that is canceled or       *)
(* whose peers ended, and the DNS worker's Stop with a full queue.  The selection of relays  *)
(* comes to rest on what intent, bans and suppressions give.                                 *)
EverythingEnds == Asked ~> Ended

\* Something that has to come to an end by itself.
Due ==
  CASE part = "live registry" -> LiveRegistry!Registering \/ LiveRegistry!PortsOut
    [] part = "live bridge" -> LiveBridge!RevokedOpen
    [] part = "live mux" -> LiveMux!Lingers
    [] part = "live listener" -> LiveListener!Forgotten
    [] part = "live sync" -> LiveSync!Unserved
    [] OTHER -> FALSE

(* Nobody is forgotten: a registration that has begun is served or fails, the ports of a    *)
(* lease that is out of the table come back, by whatever way it left, a revoked bridge       *)
(* gives its slot back, the handlers of a closed record end, a lease the relay has           *)
(* forgotten is given up by the client, and a subscriber of the static cache gets a          *)
(* generation.                                                                               *)
NobodyForgotten == Due ~> ~Due
=============================================================================
