--------------------------- MODULE LeaseRegistry ---------------------------
(***************************************************************************)
(* The life of a lease in the relay's registry (portal/lease.go,           *)
(* portal/record.go and the handlers of portal/api_server.go): Register    *)
(* allocates ports under the registry mutex, releases it to bind sockets,  *)
(* takes it again to enter the table, and only then closes the lease it    *)
(* replaced.  Renew, Unregister, the janitor, a failed DNS update and      *)
(* shutdown run between any two of those steps.  Every step that removes a *)
(* lease hands it to closeRecord or rollbackRecord, which close the        *)
(* sockets outside the mutex and give the ports back afterwards.           *)
(*                                                                         *)
(* A lease is one registration attempt.  All identities ask for the same   *)
(* friendly hostname, and their canonical hostnames differ, as they derive *)
(* from the address.  Kinds are the transports that need a public port.    *)
(*                                                                         *)
(* A port pool keeps its free ports in queue order, the record that uses   *)
(* each allocated port, and for each identity the port it may reclaim      *)
(* within a grace period.  Deadlines are flags that the passing of time    *)
(* raises: lapsed holds the identities whose reservation has expired, and  *)
(* reclaimed the ports in use that came out of a reservation which, were   *)
(* they rolled back now, would still be valid.                             *)
(***************************************************************************)
EXTENDS Integers, Sequences, FiniteSets, Functions, TLC

CONSTANTS
  Leases,        \* registration attempts
  NoLease,
  Keys,          \* identities
  NoKey,         \* the identity of a lease nobody asked for yet
  Kinds,         \* {"udp", "tcp"} or one of them
  Requests,      \* the sets of transports a registration may ask for
  Returning,     \* the leases whose client renews or unregisters
  Stops,         \* whether the relay is shut down
  MinPort, MaxPort,  \* the range of each pool
  MaxLeases      \* udpMaxLeases and tcpMaxLeases; 0 is no limit

ASSUME RegistryAssumption ==
  /\ NoLease \notin Leases /\ NoKey \notin Keys
  /\ Kinds \subseteq {"udp", "tcp"} /\ Requests \subseteq SUBSET Kinds
  /\ Returning \subseteq Leases /\ Stops \in BOOLEAN
  /\ MinPort \in Nat /\ MaxPort \in Nat /\ MaxLeases \in Nat

-----------------------------------------------------------------------------
(* portPool, as functions from pool to pool: the registry calls every one of them *)
(* under its mutex.                                                               *)

NoPort == 0
Ports == IF MinPort = 0 THEN {} ELSE MinPort..MaxPort

PortPools ==
  [available : Seq(Ports),
   inUse     : [Ports -> Leases \cup {NoLease}],
   reclaimed : SUBSET Ports,
   reserved  : [Keys -> Ports \cup {NoPort}],
   lapsed    : SUBSET Keys]

\* Mutant: the loop runs one past the end of the range.
newPortPoolPastEnd ==
  [available |-> [i \in 1..Cardinality(Ports) + 1 |-> MinPort + i - 1],
   inUse     |-> [p \in Ports |-> NoLease],
   reclaimed |-> {},
   reserved  |-> [k \in Keys |-> NoPort],
   lapsed    |-> {}]

\* newPortPool: the range in ascending order; an invalid range is a pool without ports.
newPortPool ==
  [available |-> [i \in 1..Cardinality(Ports) |-> MinPort + i - 1],
   inUse     |-> [p \in Ports |-> NoLease],
   reclaimed |-> {},
   reserved  |-> [k \in Keys |-> NoPort],
   lapsed    |-> {}]

\* The orders in which a loop over a map may visit S.
Orders(S) == Bijection(1..Cardinality(S), S)

\* cleanupExpired ranges over a map, so the expired ports join the queue in any
\* order: the result is a set of pools.
cleanupExpired(pool) ==
  {[pool EXCEPT !.available = @ \o order,
                !.reserved = [k \in Keys |-> IF k \in pool.lapsed THEN NoPort ELSE @[k]],
                !.lapsed = {}] :
     order \in Orders({pool.reserved[k] : k \in pool.lapsed})}

Exhausted(pool, key) == pool.reserved[key] = NoPort /\ pool.available = <<>>

\* allocate's choice: the identity's own reservation, else the oldest free port.
PortFor(pool, key) ==
  IF pool.reserved[key] # NoPort THEN pool.reserved[key] ELSE Head(pool.available)

\* allocate, after its cleanupExpired and the exhaustion test.
allocate(pool, record, key) ==
  LET port == PortFor(pool, key)
      own  == port = pool.reserved[key]
  IN [pool EXCEPT !.available = IF own THEN @ ELSE Tail(@),
                  !.inUse[port] = record,
                  !.reclaimed = IF own THEN @ \cup {port} ELSE @,
                  !.reserved[key] = IF own THEN NoPort ELSE @]

\* Mutant: the reservation a registration reclaimed is not restored.
rollbackToQueue(pool, port, record, key) ==
  IF pool.inUse[port] # record THEN pool
  ELSE [pool EXCEPT !.inUse[port] = NoLease,
                    !.reclaimed = @ \ {port},
                    !.available = Append(@, port)]

\* rollback: only the current owner frees the port; a reservation that is still
\* valid goes back to its identity, anything else to the end of the queue.
rollback(pool, port, record, key) ==
  LET restore == port \in pool.reclaimed /\ pool.reserved[key] = NoPort
  IN IF pool.inUse[port] # record THEN pool
     ELSE [pool EXCEPT !.inUse[port] = NoLease,
                       !.reclaimed = @ \ {port},
                       !.reserved[key] = IF restore THEN port ELSE @,
                       !.available = IF restore THEN @ ELSE Append(@, port)]

\* Mutant: late cleanup frees the port whoever owns it now.
releaseUnowned(pool, port, record, key) ==
  cleanupExpired([pool EXCEPT !.inUse[port] = NoLease,
                              !.reclaimed = @ \ {port},
                              !.reserved[key] = port,
                              !.lapsed = @ \ {key},
                              !.available = IF pool.reserved[key] = NoPort THEN @
                                            ELSE Append(@, pool.reserved[key])])

\* release: only the current owner; the port stays reserved for its identity,
\* whose earlier reservation, if any, is freed.
release(pool, port, record, key) ==
  IF pool.inUse[port] # record THEN {pool}
  ELSE cleanupExpired([pool EXCEPT !.inUse[port] = NoLease,
                                   !.reclaimed = @ \ {port},
                                   !.reserved[key] = port,
                                   !.lapsed = @ \ {key},
                                   !.available = IF pool.reserved[key] = NoPort THEN @
                                                 ELSE Append(@, pool.reserved[key])])

\* Time passes the deadline of a reservation that is waiting, or of the one a
\* registration has reclaimed and may still roll back.
LapseReservation(pool, key) == [pool EXCEPT !.lapsed = @ \cup {key}]

LapseReclaimed(pool, port) == [pool EXCEPT !.reclaimed = @ \ {port}]

\* Where the ports of a pool are: waiting in the queue, in use, or kept for an identity.
Free(pool) == Range(pool.available)
Used(pool) == {p \in Ports : pool.inUse[p] # NoLease}
Kept(pool) == {pool.reserved[k] : k \in Keys} \ {NoPort}

\* Every port is in exactly one of these places, once: no port is queued twice, and
\* none is kept for two identities.
Accounted(pool) ==
  /\ Free(pool) \cup Used(pool) \cup Kept(pool) = Ports
  /\ Free(pool) \cap Used(pool) = {}
  /\ Free(pool) \cap Kept(pool) = {}
  /\ Used(pool) \cap Kept(pool) = {}
  /\ IsInjective(pool.available)
  /\ \A j, k \in Keys : pool.reserved[j] = pool.reserved[k] /\ pool.reserved[j] # NoPort => j = k

\* A pool in good order: every port is in one place, and only a held reservation lapses.
PoolOK(pool) ==
  /\ pool \in PortPools
  /\ Accounted(pool)
  /\ \A k \in pool.lapsed : pool.reserved[k] # NoPort

-----------------------------------------------------------------------------
VARIABLES
  pc,         \* where each lease's Register (and HandleRegister) call is
  key,        \* the identity of the lease
  want,       \* the transports it asked for
  alias,      \* record.Hostname # ""
  port,       \* the port each transport was given
  bound,      \* the transports whose socket is open
  expired,    \* time has reached record.ExpiresAt
  victim,     \* the lease this Register replaced and is closing
  records,    \* leaseRegistry.records
  pools,      \* udpPorts and tcpPorts
  closed,     \* records whose Close has finished
  tasks,      \* closeRecord and rollbackRecord calls under way
  renewing,   \* Renew calls between token check and mutex
  leaving,    \* Unregister calls between token check and mutex
  revived,    \* history: leases a Renew extended after they had expired
  down        \* CloseAll has run

lease == <<key, want>>
vars == <<pc, lease, alias, port, bound, expired, victim, records, pools,
          closed, tasks, renewing, leaving, revived, down>>

Stages ==
  {"none", "allocated", "started", "inserted", "issued", "serving", "failed"}

TypeOK ==
  /\ pc \in [Leases -> Stages]
  /\ key \in [Leases -> Keys \cup {NoKey}]
  /\ want \in [Leases -> SUBSET Kinds]
  /\ alias \in [Leases -> BOOLEAN]
  /\ port \in [Leases -> [Kinds -> Ports \cup {NoPort}]]
  /\ bound \in [Leases -> SUBSET Kinds]
  /\ expired \in [Leases -> BOOLEAN]
  /\ victim \in [Leases -> Leases \cup {NoLease}]
  /\ records \subseteq Leases
  /\ pools \in [Kinds -> PortPools]
  /\ closed \subseteq Leases
  /\ tasks \subseteq Leases \X {"release", "rollback"}
  /\ renewing \subseteq Leases
  /\ leaving \subseteq Leases
  /\ revived \subseteq Leases
  /\ down \in BOOLEAN

Init ==
  /\ pc = [l \in Leases |-> "none"]
  /\ key = [l \in Leases |-> NoKey]
  /\ want = [l \in Leases |-> {}]
  /\ alias = [l \in Leases |-> FALSE]
  /\ port = [l \in Leases |-> [t \in Kinds |-> NoPort]]
  /\ bound = [l \in Leases |-> {}]
  /\ expired = [l \in Leases |-> FALSE]
  /\ victim = [l \in Leases |-> NoLease]
  /\ records = {}
  /\ pools = [t \in Kinds |-> newPortPool]
  /\ closed = {}
  /\ tasks = {}
  /\ renewing = {}
  /\ leaving = {}
  /\ revived = {}
  /\ down = FALSE

-----------------------------------------------------------------------------
(* What the handlers ask of the table *)

\* Mutant: an expired lease of the same identity is left in the table.
ReplacedLive(l) == {r \in records : key[r] = key[l] /\ ~expired[r]}

\* The entry Register overwrites: the identity's own, expired or not.
Replaced(l) == {r \in records : key[r] = key[l]}

\* The leases of other identities that count against l.
Rivals(l) == {r \in records : key[r] # key[l] /\ ~expired[r]}

NameTaken(l) == \E r \in Rivals(l) : alias[r]

AtCapacity(l, t) ==
  MaxLeases > 0 /\ Cardinality({r \in Rivals(l) : t \in want[r]}) >= MaxLeases

Refused(l, canonicalFallback) ==
  \/ NameTaken(l) /\ ~canonicalFallback
  \/ \E t \in want[l] : AtCapacity(l, t)

\* Mutant: the fallback keeps the friendly name.
FriendlyNameAlways(l) == TRUE

\* The friendly hostname is dropped when a client that allows it is refused it.
FriendlyName(l) == ~NameTaken(l)

-----------------------------------------------------------------------------
(* Register *)

\* What allocate makes of one pool: untouched when the transport is not wanted,
\* and no pool at all when it is and the pool is exhausted.
AllocateIn(t, l, k, wanted) ==
  IF t \notin wanted THEN {pools[t]}
  ELSE {allocate(q, l, k) : q \in {c \in cleanupExpired(pools[t]) : ~Exhausted(c, k)}}

\* The port a pool gave to l, if it gave one.
PortIn(pool, l) ==
  IF \E p \in Ports : pool.inUse[p] = l THEN CHOOSE p \in Ports : pool.inUse[p] = l ELSE NoPort

\* The lease of identity k takes the given outcome of every pool, and its ports.
Allocated(l, k, wanted, outcome) ==
  /\ key' = [key EXCEPT ![l] = k]
  /\ want' = [want EXCEPT ![l] = wanted]
  /\ pools' \in {q \in [Kinds -> UNION Range(outcome)] : \A t \in Kinds : q[t] \in outcome[t]}
  /\ port' = [port EXCEPT ![l] = [t \in Kinds |-> PortIn(pools'[t], l)]]

\* A valid request, and the first critical section: a port for each transport.
RegisterAllocate(l, k, wanted) ==
  /\ pc[l] = "none"
  /\ Allocated(l, k, wanted, [t \in Kinds |-> AllocateIn(t, l, k, wanted)])
  /\ pc' = [pc EXCEPT ![l] = "allocated"]
  /\ UNCHANGED <<alias, bound, expired, victim, records, closed, tasks,
                 renewing, leaving, revived, down>>

\* Mutant: the udp port of a registration that found no tcp port is forgotten.
RollbackDropped(l) == tasks

Rollback(l) == tasks \cup {<<l, "rollback">>}

\* The first pool without a port ends the section; udp is served before tcp.
RegisterExhausted(l, k, wanted) ==
  /\ pc[l] = "none"
  /\ \E short \in wanted :
       /\ AllocateIn(short, l, k, wanted) = {}
       /\ Allocated(l, k, wanted, [t \in Kinds |->
            IF t = short THEN cleanupExpired(pools[t])
            ELSE IF short = "tcp" THEN AllocateIn(t, l, k, wanted) ELSE {pools[t]}])
  /\ pc' = [pc EXCEPT ![l] = "failed"]
  /\ tasks' = Rollback(l)
  /\ UNCHANGED <<alias, bound, expired, victim, records, closed,
                 renewing, leaving, revived, down>>

\* record.Start, outside the mutex: every socket is bound.
RegisterStart(l) ==
  /\ pc[l] = "allocated"
  /\ pc' = [pc EXCEPT ![l] = "started"]
  /\ bound' = [bound EXCEPT ![l] = want[l]]
  /\ UNCHANGED <<lease, alias, port, expired, victim, records, pools, closed, tasks,
                 renewing, leaving, revived, down>>

\* record.Start fails on the first socket, or on tcp with the udp socket open.
RegisterStartFailed(l) ==
  /\ pc[l] = "allocated"
  /\ want[l] # {}
  /\ \E opened \in {{}, want[l] \ {"tcp"}} :
       opened # want[l] /\ bound' = [bound EXCEPT ![l] = opened]
  /\ pc' = [pc EXCEPT ![l] = "failed"]
  /\ tasks' = Rollback(l)
  /\ UNCHANGED <<lease, alias, port, expired, victim, records, pools, closed,
                 renewing, leaving, revived, down>>

\* Second critical section: the name or the capacity belongs to others.
RegisterRefused(l, canonicalFallback) ==
  /\ pc[l] = "started"
  /\ Refused(l, canonicalFallback)
  /\ pc' = [pc EXCEPT ![l] = "failed"]
  /\ tasks' = Rollback(l)
  /\ UNCHANGED <<lease, alias, port, bound, expired, victim, records, pools, closed,
                 renewing, leaving, revived, down>>

\* Second critical section: the lease enters the table, in place of the one its
\* identity had, which Register goes on to close.
RegisterInsert(l, canonicalFallback) ==
  /\ pc[l] = "started"
  /\ ~Refused(l, canonicalFallback)
  /\ pc' = [pc EXCEPT ![l] = "inserted"]
  /\ alias' = [alias EXCEPT ![l] = FriendlyName(l)]
  /\ records' = (records \ Replaced(l)) \cup {l}
  /\ victim' = [victim EXCEPT ![l] = IF Replaced(l) = {} THEN NoLease
                                     ELSE CHOOSE r \in Replaced(l) : TRUE]
  /\ tasks' = tasks \cup (Replaced(l) \X {"release"})
  /\ UNCHANGED <<lease, port, bound, expired, pools, closed, renewing, leaving, revived, down>>

\* Mutant: Register waits for the closing of a lease that is closed already.
VictimClosedNever(l) == victim[l] = NoLease

\* closeRecord has returned for the replaced lease, if there was one.
VictimClosed(l) == <<victim[l], "release">> \notin tasks

\* issueReverseEndpoint finds the lease still current.
RegisterIssue(l) ==
  /\ pc[l] = "inserted"
  /\ VictimClosed(l)
  /\ l \in records /\ ~expired[l]
  /\ victim' = [victim EXCEPT ![l] = NoLease]
  /\ pc' = [pc EXCEPT ![l] = "issued"]
  /\ UNCHANGED <<lease, alias, port, bound, expired, records, pools, closed, tasks,
                 renewing, leaving, revived, down>>

\* It does not, or no capability can be issued: Register takes its own entry out
\* again, if that entry is still its own.
RegisterIssueFailed(l) ==
  /\ pc[l] = "inserted"
  /\ VictimClosed(l)
  /\ victim' = [victim EXCEPT ![l] = NoLease]
  /\ pc' = [pc EXCEPT ![l] = "failed"]
  /\ records' = records \ {l}
  /\ tasks' = Rollback(l)
  /\ UNCHANGED <<lease, alias, port, bound, expired, pools, closed,
                 renewing, leaving, revived, down>>

\* syncLeaseDNS succeeds: the client gets its token.
RegisterServe(l) ==
  /\ pc[l] = "issued"
  /\ pc' = [pc EXCEPT ![l] = "serving"]
  /\ UNCHANGED <<lease, alias, port, bound, expired, victim, records, pools, closed, tasks,
                 renewing, leaving, revived, down>>

\* syncLeaseDNS fails: HandleRegister unregisters the lease with its own token.
\* Once that token has expired the entry stays for the janitor and only the
\* record is closed.
RegisterUndo(l) ==
  /\ pc[l] = "issued"
  /\ pc' = [pc EXCEPT ![l] = "failed"]
  /\ records' \in {records \ {l}} \cup (IF expired[l] THEN {records} ELSE {})
  /\ tasks' = tasks \cup {<<l, "release">>}
  /\ UNCHANGED <<lease, alias, port, bound, expired, victim, pools, closed,
                 renewing, leaving, revived, down>>

-----------------------------------------------------------------------------
(* Renew and Unregister: the token is checked before the mutex is taken *)

\* A call whose lease has left the table changes nothing, so only calls that start
\* before it does are followed.
HoldsToken(l) == l \in Returning /\ pc[l] = "serving" /\ ~expired[l] /\ l \in records

RenewVerify(l) ==
  /\ HoldsToken(l)
  /\ renewing' = renewing \cup {l}
  /\ UNCHANGED <<pc, lease, alias, port, bound, expired, victim, records, pools, closed,
                 tasks, leaving, revived, down>>

\* The lookup under the mutex ignores expiry, so a lease that expired since the
\* token was checked is extended.
RenewApply(l) ==
  /\ l \in renewing
  /\ l \in records
  /\ renewing' = renewing \ {l}
  /\ expired' = [expired EXCEPT ![l] = FALSE]
  /\ revived' = IF expired[l] THEN revived \cup {l} ELSE revived
  /\ UNCHANGED <<pc, lease, alias, port, bound, victim, records, pools, closed, tasks,
                 leaving, down>>

\* The lease is gone, or stalePin sends its client back to Register.
RenewRefused(l) ==
  /\ l \in renewing
  /\ renewing' = renewing \ {l}
  /\ UNCHANGED <<pc, lease, alias, port, bound, expired, victim, records, pools, closed,
                 tasks, leaving, revived, down>>

UnregisterVerify(l) ==
  /\ HoldsToken(l)
  /\ leaving' = leaving \cup {l}
  /\ UNCHANGED <<pc, lease, alias, port, bound, expired, victim, records, pools, closed,
                 tasks, renewing, revived, down>>

\* Drop the leases gone from the table and have each one closed.
Depart(gone) ==
  /\ records' = records \ gone
  /\ tasks' = tasks \cup (gone \X {"release"})

Unregister(l) ==
  /\ l \in leaving
  /\ leaving' = leaving \ {l}
  /\ Depart({l} \cap records)
  /\ UNCHANGED <<pc, lease, alias, port, bound, expired, victim, pools, closed,
                 renewing, revived, down>>

-----------------------------------------------------------------------------
(* The janitor and shutdown *)

CleanupExpired ==
  /\ Depart({l \in records : expired[l]})
  /\ UNCHANGED <<pc, lease, alias, port, bound, expired, victim, pools, closed,
                 renewing, leaving, revived, down>>

\* Shutdown closes every lease once, while API handlers are still running.
CloseAll ==
  /\ Stops /\ ~down
  /\ down' = TRUE
  /\ Depart(records)
  /\ UNCHANGED <<pc, lease, alias, port, bound, expired, victim, pools, closed,
                 renewing, leaving, revived>>

-----------------------------------------------------------------------------
(* closeRecord and rollbackRecord *)

\* record.Close: the first caller closes the sockets, the others wait for it.
CloseSockets(l) ==
  /\ l \notin closed
  /\ \E kind \in {"release", "rollback"} : <<l, kind>> \in tasks
  /\ closed' = closed \cup {l}
  /\ bound' = [bound EXCEPT ![l] = {}]
  /\ UNCHANGED <<pc, lease, alias, port, expired, victim, records, pools, tasks,
                 renewing, leaving, revived, down>>

\* Mutant: the ports are given back while the sockets are still open.
SocketsClosedIgnored(l) == TRUE

SocketsClosed(l) == l \in closed

\* Then, under the mutex, every port the record was given goes back.
ReturnPorts(l, kind) ==
  /\ <<l, kind>> \in tasks
  /\ SocketsClosed(l)
  /\ tasks' = tasks \ {<<l, kind>>}
  /\ LET Back(t) == IF port[l][t] = NoPort THEN {pools[t]}
                    ELSE IF kind = "release" THEN release(pools[t], port[l][t], l, key[l])
                    ELSE {rollback(pools[t], port[l][t], l, key[l])}
     IN pools' \in {q \in [Kinds -> UNION {Back(t) : t \in Kinds}] :
                      \A t \in Kinds : q[t] \in Back(t)}
  /\ UNCHANGED <<pc, lease, alias, port, bound, expired, victim, records, closed,
                 renewing, leaving, revived, down>>

-----------------------------------------------------------------------------
(* Time *)

\* The token of a registration is issued before its ports are taken, so the lease
\* may expire anywhere on the way; after the lease is gone nobody asks.
Expire(l) ==
  /\ l \in records \/ pc[l] \in {"allocated", "started", "inserted", "issued"}
  /\ ~expired[l]
  /\ expired' = [expired EXCEPT ![l] = TRUE]
  /\ UNCHANGED <<pc, lease, alias, port, bound, victim, records, pools, closed, tasks,
                 renewing, leaving, revived, down>>

GraceOver(t, k) ==
  /\ pools[t].reserved[k] # NoPort
  /\ k \notin pools[t].lapsed
  /\ pools' = [pools EXCEPT ![t] = LapseReservation(@, k)]
  /\ UNCHANGED <<pc, lease, alias, port, bound, expired, victim, records, closed, tasks,
                 renewing, leaving, revived, down>>

ReclaimedGraceOver(t, p) ==
  /\ p \in pools[t].reclaimed
  /\ pools' = [pools EXCEPT ![t] = LapseReclaimed(@, p)]
  /\ UNCHANGED <<pc, lease, alias, port, bound, expired, victim, records, closed, tasks,
                 renewing, leaving, revived, down>>

-----------------------------------------------------------------------------
Register(l) ==
  \/ RegisterStart(l) \/ RegisterStartFailed(l)
  \/ \E f \in BOOLEAN : RegisterRefused(l, f) \/ RegisterInsert(l, f)
  \/ RegisterIssue(l) \/ RegisterIssueFailed(l)
  \/ RegisterServe(l) \/ RegisterUndo(l)

Closing(l) ==
  \/ CloseSockets(l)
  \/ \E kind \in {"release", "rollback"} : ReturnPorts(l, kind)

Next ==
  \/ \E l \in Leases, k \in Keys, w \in Requests :
       RegisterAllocate(l, k, w) \/ RegisterExhausted(l, k, w)
  \/ \E l \in Leases : Register(l)
  \/ \E l \in Leases : RenewVerify(l) \/ RenewApply(l) \/ RenewRefused(l)
  \/ \E l \in Leases : UnregisterVerify(l) \/ Unregister(l)
  \/ \E l \in Leases : Closing(l)
  \/ CleanupExpired
  \/ CloseAll
  \/ \E l \in Leases : Expire(l)
  \/ \E t \in Kinds, k \in Keys : GraceOver(t, k)
  \/ \E t \in Kinds, p \in Ports : ReclaimedGraceOver(t, p)

Spec == Init /\ [][Next]_vars

-----------------------------------------------------------------------------
(* Properties *)

\* Every port of every pool is free, in use or reserved for one identity, and only
\* one of these, however registrations, failures, late closers and the grace
\* period interleave (portPool, portal/lease.go).
PortPartition == \A t \in Kinds : Accounted(pools[t])

\* An open socket's port belongs to its own record: no port is handed out again
\* before the socket on it is closed (closeRecord, portal/lease.go).
SocketOwnsPort ==
  \A l \in Leases : \A t \in bound[l] : pools[t].inUse[port[l][t]] = l

\* A port in use belongs to a lease in the table, to a registration under way, or
\* to a record that is being closed: no failure path strands one (Register's error
\* returns and HandleRegister's DNS cleanup).
NoPortLeak ==
  \A t \in Kinds, p \in Ports :
    LET l == pools[t].inUse[p]
    IN l # NoLease => \/ l \in records
                      \/ pc[l] \in {"allocated", "started"}
                      \/ \E kind \in {"release", "rollback"} : <<l, kind>> \in tasks

\* The pools and the records agree: a port is accounted for once, is not handed out under
\* an open socket, and comes from a pool that will get it back.
PortsSound == PortPartition /\ SocketOwnsPort /\ NoPortLeak

\* The table holds one lease of an identity, expired ones included, so a lookup by
\* identity and a lookup by lease never disagree (recordByKey, portal/lease.go).
OneLeasePerIdentity == \A l, m \in records : key[l] = key[m] => l = m

Active == {l \in records : ~expired[l]}

\* Live leases of two identities do not answer to the same friendly hostname,
\* unless a renewal brought one of them back after it had expired.
FriendlyNameUnique ==
  \A l, m \in Active \ revived : alias[l] /\ alias[m] => l = m

\* The table answers one way: one lease of an identity, one live owner of a hostname.
TableSound == OneLeasePerIdentity /\ FriendlyNameUnique

\* What the API reference says of the friendly hostname: it is withheld when
\* another identity owns it.  No exception is made for renewals.
FriendlyNameOwned == \A l, m \in Active : alias[l] /\ alias[m] => l = m

\* Until its grace period ends, a port an identity may reclaim goes to that
\* identity only, whether its reconnection succeeds, fails or is overtaken: it is
\* never queued for others unless a newer reservation replaced it.
ReservationKept ==
  \A t \in Kinds, k \in Keys :
    LET p == pools[t].reserved[k]
    IN p # NoPort /\ k \notin pools[t].lapsed
         => \/ pools'[t].reserved[k] = p
            \/ pools'[t].inUse[p] # NoLease /\ key'[pools'[t].inUse[p]] = k
            \/ pools'[t].reserved[k] # NoPort

\* A registration that fails leaves its identity the reservation it reclaimed
\* (rollback).
ReclaimRestored ==
  \A t \in Kinds, p \in Ports :
    LET l == pools[t].inUse[p]
    IN l # NoLease /\ p \in pools[t].reclaimed /\ pools'[t].inUse[p] = NoLease
         => pools'[t].reserved[key[l]] # NoPort

\* An identity that reconnects within the grace period finds its public port: nobody
\* else is given it, and failed attempts do not lose it (portPool, lease.go).
GraceHonoured == [][ReservationKept /\ ReclaimRestored]_vars

\* A registration that has begun; and a lease that is out of the table, by
\* replacement, Unregister, cleanupExpired, CloseAll or a rollback, with a port still.
Registering == \E l \in Leases : pc[l] \notin {"none", "serving", "failed"}
PortsOut ==
  \E l \in Leases, t \in Kinds, p \in Ports :
    pc[l] \in {"serving", "failed"} /\ l \notin records /\ pools[t].inUse[p] = l

\* Leases and identities are interchangeable.
Symmetry == Permutations(Leases) \cup Permutations(Keys)
=============================================================================
