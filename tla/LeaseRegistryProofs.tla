------------------------- MODULE LeaseRegistryProofs ------------------------
(***************************************************************************)
(* The lease registry is correct for any number of leases, identities and  *)
(* ports: the theorems about LeaseRegistry.                                *)
(*                                                                         *)
(* The steps that move ports are reduced to what they do to each pool: Takes*)
(* for the locked section of Register, Returns for closeRecord and         *)
(* rollbackRecord.  Each preserves the inductive invariant and honours the *)
(* grace period of a reservation.                                          *)
(***************************************************************************)
EXTENDS PortPoolProofs, LeaseStepProofs

\* A leaf that names no prover is given to the SMT solver, then to Zenon, for up to half a
\* minute each.
USE SMTT(30), ZenonT(30)

-----------------------------------------------------------------------------
(* The steps that move ports *)

\* What a pool may become in the first section of Register: lease l of identity k takes
\* at most one port that nobody used, and reservations stay unless they lapsed or l
\* reclaimed its own.
Takes(pool, q, l, k) ==
  /\ PoolOK(q)
  /\ \A p \in Ports : \/ q.inUse[p] = pool.inUse[p]
                      \/ pool.inUse[p] = NoLease /\ q.inUse[p] = l
  /\ \A p, r \in Ports : q.inUse[p] = l /\ q.inUse[r] = l => p = r
  /\ \A j \in Keys : pool.reserved[j] # NoPort /\ j \notin pool.lapsed =>
       \/ q.reserved[j] = pool.reserved[j]
       \/ j = k /\ q.inUse[pool.reserved[j]] = l

\* allocate, with its cleanup, takes one port for a lease that wants one and none for
\* a lease that does not; so does an attempt that finds the pool exhausted.
LEMMA AllocateTakes ==
  ASSUME NEW t \in Kinds, PoolOK(pools[t]), NEW l \in Leases, NEW k \in Keys, NEW wanted,
         \A p \in Ports : pools[t].inUse[p] # l
  PROVE  /\ Takes(pools[t], pools[t], l, k)
         /\ \A q \in cleanupExpired(pools[t]) : Takes(pools[t], q, l, k)
         /\ \A q \in AllocateIn(t, l, k, wanted) :
              /\ Takes(pools[t], q, l, k)
              /\ t \in wanted => \E p \in Ports : q.inUse[p] = l
<1> DEFINE pool == pools[t]
<1>1. Takes(pool, pool, l, k)
  BY DEF Takes
<1>2. ASSUME NEW c \in cleanupExpired(pool)
      PROVE  /\ PoolOK(c) /\ c.lapsed = {} /\ c.inUse = pool.inUse
             /\ \A j \in Keys : j \notin pool.lapsed => c.reserved[j] = pool.reserved[j]
  <2> HIDE DEF pool
  <2> QED BY CleanupOK DEF pool
<1>3. ASSUME NEW c \in cleanupExpired(pool) PROVE Takes(pool, c, l, k)
  BY <1>2 DEF Takes
<1>4. ASSUME NEW c \in cleanupExpired(pool), ~Exhausted(c, k), NEW q, q = allocate(c, l, k)
      PROVE  Takes(pool, q, l, k) /\ \E p \in Ports : q.inUse[p] = l
  <2> DEFINE p == PortFor(c, k)
  <2>1. /\ PoolOK(c) /\ c.lapsed = {} /\ c.inUse = pool.inUse
        /\ \A j \in Keys : j \notin pool.lapsed => c.reserved[j] = pool.reserved[j]
    BY <1>2
  <2>2. /\ PoolOK(q)
        /\ p \in Ports /\ c.inUse[p] = NoLease
        /\ q.inUse = [c.inUse EXCEPT ![p] = l]
        /\ c.reserved[k] # NoPort => p = c.reserved[k]
        /\ \A j \in Keys \ {k} : q.reserved[j] = c.reserved[j]
    BY <1>4, <2>1, AllocateOK
  <2> HIDE DEF p, pool
  <2>3. c.inUse \in [Ports -> Leases \cup {NoLease}]
    BY <2>1 DEF PoolOK, PortPools
  <2>4. \A r \in Ports : q.inUse[r] = IF r = p THEN l ELSE pool.inUse[r]
    BY <2>1, <2>2, <2>3
  <2>5. \A r \in Ports : pool.inUse[r] # l
    BY DEF pool
  <2>6. \A j \in Keys : pool.reserved[j] # NoPort /\ j \notin pool.lapsed =>
          \/ q.reserved[j] = pool.reserved[j]
          \/ j = k /\ q.inUse[pool.reserved[j]] = l
    BY <2>1, <2>2, <2>4
  <2>7. pool.inUse[p] = NoLease
    BY <2>1, <2>2
  <2> QED BY <2>2, <2>4, <2>5, <2>6, <2>7 DEF Takes
<1>5. ASSUME NEW q \in AllocateIn(t, l, k, wanted)
      PROVE  Takes(pool, q, l, k) /\ (t \in wanted => \E p \in Ports : q.inUse[p] = l)
  <2>1. CASE t \notin wanted
    BY <1>1, <2>1 DEF AllocateIn
  <2>2. CASE t \in wanted
    <3>1. PICK c \in cleanupExpired(pool) : ~Exhausted(c, k) /\ q = allocate(c, l, k)
      BY <2>2 DEF AllocateIn
    <3> QED BY <1>4, <3>1
  <2> QED BY <2>1, <2>2
<1> QED BY <1>1, <1>3, <1>5

\* The port a record notes down is the one the pool gave it.
LEMMA PortInOK ==
  ASSUME NEW q, NEW l
  PROVE  IF \E p \in Ports : q.inUse[p] = l
         THEN PortIn(q, l) \in Ports /\ q.inUse[PortIn(q, l)] = l
         ELSE PortIn(q, l) = NoPort
BY DEF PortIn

\* The first section of Register, whether it ends with a port of every kind or not.
Allocation(l, k, wanted) ==
  /\ pc[l] = "none"
  /\ pools' = [t \in Kinds |-> pools'[t]]
  /\ \A t \in Kinds : Takes(pools[t], pools'[t], l, k)
  /\ key' = [key EXCEPT ![l] = k]
  /\ want' = [want EXCEPT ![l] = wanted]
  /\ port' = [port EXCEPT ![l] = [t \in Kinds |-> PortIn(pools'[t], l)]]
  /\ \/ /\ pc' = [pc EXCEPT ![l] = "allocated"]
        /\ tasks' = tasks
        /\ \A t \in wanted : \E p \in Ports : pools'[t].inUse[p] = l
     \/ /\ pc' = [pc EXCEPT ![l] = "failed"]
        /\ tasks' = tasks \cup {<<l, "rollback">>}
  /\ UNCHANGED <<alias, bound, expired, victim, records, closed, renewing, leaving, revived, down>>

\* Both ends of the locked section of Register, a port of every kind or an exhausted pool,
\* are such a section.
LEMMA RegisterAllocation ==
  ASSUME RegistryInv, NEW l \in Leases, NEW k \in Keys, NEW wanted \in Requests,
         RegisterAllocate(l, k, wanted) \/ RegisterExhausted(l, k, wanted)
  PROVE  Allocation(l, k, wanted)
<1>1. wanted \subseteq Kinds
  BY RegistryAssumption
<1>2. pc[l] = "none"
  BY DEF RegisterAllocate, RegisterExhausted
<1>3. \A t \in Kinds : PoolOK(pools[t]) /\ \A p \in Ports : pools[t].inUse[p] # l
  BY <1>2 DEF RegistryInv, PoolsOK, Untaken
<1>4. \A t \in Kinds :
        /\ Takes(pools[t], pools[t], l, k)
        /\ \A q \in cleanupExpired(pools[t]) : Takes(pools[t], q, l, k)
        /\ \A q \in AllocateIn(t, l, k, wanted) :
             /\ Takes(pools[t], q, l, k)
             /\ t \in wanted => \E p \in Ports : q.inUse[p] = l
  BY <1>3, AllocateTakes
<1>5. CASE RegisterAllocate(l, k, wanted)
  <2>1. \A t \in Kinds : pools'[t] \in AllocateIn(t, l, k, wanted)
    BY <1>5 DEF RegisterAllocate, Allocated
  <2>2. pools' = [t \in Kinds |-> pools'[t]]
    BY <1>5 DEF RegisterAllocate, Allocated
  <2>3. /\ \A t \in Kinds : Takes(pools[t], pools'[t], l, k)
        /\ \A t \in wanted : \E p \in Ports : pools'[t].inUse[p] = l
    BY <1>1, <1>4, <2>1
  <2> QED BY <1>2, <1>5, <2>2, <2>3 DEF RegisterAllocate, Allocated, Allocation
<1>6. CASE RegisterExhausted(l, k, wanted)
  <2>1. PICK short \in wanted :
          Allocated(l, k, wanted, [t \in Kinds |->
            IF t = short THEN cleanupExpired(pools[t])
            ELSE IF short = "tcp" THEN AllocateIn(t, l, k, wanted) ELSE {pools[t]}])
    BY <1>6, ZenonT(30) DEF RegisterExhausted
  <2>2. \A t \in Kinds : pools'[t] \in
          IF t = short THEN cleanupExpired(pools[t])
          ELSE IF short = "tcp" THEN AllocateIn(t, l, k, wanted) ELSE {pools[t]}
    BY <2>1 DEF Allocated
  <2>3. pools' = [t \in Kinds |-> pools'[t]]
    BY <2>1 DEF Allocated
  <2>4. \A t \in Kinds : Takes(pools[t], pools'[t], l, k)
    BY <1>4, <2>2, ZenonT(30)
  <2>5. /\ key' = [key EXCEPT ![l] = k]
        /\ want' = [want EXCEPT ![l] = wanted]
        /\ port' = [port EXCEPT ![l] = [t \in Kinds |-> PortIn(pools'[t], l)]]
    BY <2>1 DEF Allocated
  <2> QED BY <1>2, <1>6, <2>3, <2>4, <2>5 DEF RegisterExhausted, Rollback, Allocation
<1> QED BY <1>5, <1>6

\* That section preserves the invariant.
LEMMA AllocationStep ==
  ASSUME RegistryInv, NEW l \in Leases, NEW k \in Keys, NEW wanted \in Requests,
         Allocation(l, k, wanted)
  PROVE  RegistryInv'
<1>1. UNCHANGED <<alias, bound, expired, victim, records, closed, renewing, leaving, revived, down>>
  BY DEF Allocation
<1>2. wanted \subseteq Kinds /\ NoLease \notin Leases /\ NoPort \notin Ports
  BY RegistryAssumption, PortsFacts
<1>3. /\ pc[l] = "none" /\ bound[l] = {} /\ l \notin records
      /\ \A t \in Kinds, p \in Ports : pools[t].inUse[p] # l
  BY ZenonT(30) DEF Allocation, RegistryInv, PortsReady, Private, Untaken
<1>4. \A t \in Kinds : Takes(pools[t], pools'[t], l, k)
  BY DEF Allocation
<1>5. /\ \A m \in Leases \ {l} : /\ pc'[m] = pc[m] /\ key'[m] = key[m] /\ want'[m] = want[m]
                                 /\ port'[m] = port[m]
      /\ pc'[l] \in {"allocated", "failed"} /\ key'[l] = k /\ want'[l] = wanted
      /\ \A t \in Kinds : port'[l][t] = PortIn(pools'[t], l)
  BY DEF Allocation, RegistryInv, TypeOK
<1>6. \A t \in Kinds : IF \E p \in Ports : pools'[t].inUse[p] = l
                       THEN port'[l][t] \in Ports /\ pools'[t].inUse[port'[l][t]] = l
                       ELSE port'[l][t] = NoPort
  BY <1>5, PortInOK
<1>7. /\ tasks \subseteq tasks' /\ tasks' \subseteq tasks \cup {<<l, "rollback">>}
      /\ pc'[l] = "failed" => <<l, "rollback">> \in tasks'
      /\ pc'[l] = "allocated" =>
           tasks' = tasks /\ \A t \in wanted : \E p \in Ports : pools'[t].inUse[p] = l
  BY DEF Allocation, RegistryInv, TypeOK
\* The port of another record is not touched.
<1>8. \A m \in Leases \ {l}, t \in Kinds, p \in Ports :
        pools[t].inUse[p] = m <=> pools'[t].inUse[p] = m
  BY <1>2, <1>4 DEF Takes
<1>9. PoolsOK'
  BY <1>4 DEF PoolsOK, Takes
<1>10. TypeOK'
  <2>1. pools' \in [Kinds -> PortPools]
    <3>1. pools' = [t \in Kinds |-> pools'[t]]
      BY DEF Allocation
    <3>2. \A t \in Kinds : pools'[t] \in PortPools
      BY <1>9 DEF PoolsOK, PoolOK
    <3> QED BY <3>1, <3>2
  <2>2. port' \in [Leases -> [Kinds -> Ports \cup {NoPort}]]
    <3>1. [t \in Kinds |-> PortIn(pools'[t], l)] \in [Kinds -> Ports \cup {NoPort}]
      BY <1>5, <1>6
    <3> QED BY <3>1 DEF Allocation, RegistryInv, TypeOK
  <2>3. /\ pc' \in [Leases -> Stages] /\ key' \in [Leases -> Keys \cup {NoKey}]
        /\ want' \in [Leases -> SUBSET Kinds]
        /\ tasks' \subseteq Leases \X {"release", "rollback"}
    <3>1. pc' \in [Leases -> Stages]
      BY ZenonT(30) DEF Allocation, RegistryInv, TypeOK, Stages
    <3>2. key' \in [Leases -> Keys \cup {NoKey}] /\ want' \in [Leases -> SUBSET Kinds]
      BY <1>2 DEF Allocation, RegistryInv, TypeOK
    <3>3. tasks' \subseteq Leases \X {"release", "rollback"}
      BY DEF Allocation, RegistryInv, TypeOK
    <3> QED BY <3>1, <3>2, <3>3
  <2> QED BY <1>1, <2>1, <2>2, <2>3 DEF RegistryInv, TypeOK
<1>11. Untaken'
  BY <1>5, <1>8 DEF RegistryInv, Untaken
<1>12. PortKnown'
  <2>1. \A t \in Kinds, p \in Ports : pools'[t].inUse[p] = l => port'[l][t] = p
    BY <1>4, <1>6 DEF Takes
  <2> QED BY <1>5, <1>8, <2>1 DEF RegistryInv, PortKnown
<1>13. Private'
  BY <1>1, <1>3, <1>5, <1>7 DEF RegistryInv, Private
<1>14. Identified'
  BY <1>5 DEF RegistryInv, Identified
<1>15. PortsReady'
  <2>1. ASSUME NEW m \in Leases \ {l}, pc[m] = "allocated"
        PROVE  \A t \in want[m] : port[m][t] \in Ports /\ pools'[t].inUse[port[m][t]] = m
    <3>1. want[m] \subseteq Kinds
      BY DEF RegistryInv, TypeOK
    <3> QED BY <1>8, <2>1, <3>1 DEF RegistryInv, PortsReady
  <2>2. pc'[l] = "allocated" =>
          \A t \in wanted : port'[l][t] \in Ports /\ pools'[t].inUse[port'[l][t]] = l
    BY <1>2, <1>6, <1>7
  <2> QED BY <1>1, <1>3, <1>5, <2>1, <2>2 DEF RegistryInv, PortsReady
<1>16. SocketsOwned'
  <2>1. ASSUME NEW m \in Leases \ {l}, NEW t \in bound[m]
        PROVE  m \notin closed /\ port[m][t] \in Ports /\ pools'[t].inUse[port[m][t]] = m
    <3>1. t \in Kinds
      BY DEF RegistryInv, TypeOK
    <3> QED BY <1>8, <3>1 DEF RegistryInv, SocketsOwned
  <2> QED BY <1>1, <1>3, <1>5, <2>1 DEF SocketsOwned
<1>17. NoPortLeak'
  <2> SUFFICES ASSUME NEW t \in Kinds, NEW p \in Ports, pools'[t].inUse[p] # NoLease
               PROVE  LET m == pools'[t].inUse[p]
                      IN  \/ m \in records'
                          \/ pc'[m] \in {"allocated", "started"}
                          \/ \E kind \in {"release", "rollback"} : <<m, kind>> \in tasks'
    BY DEF NoPortLeak
  <2>1. CASE pools'[t].inUse[p] = l
    BY <1>5, <1>7, <2>1
  <2>2. CASE pools'[t].inUse[p] # l
    <3>1. pools'[t].inUse[p] = pools[t].inUse[p] /\ pools[t].inUse[p] \in Leases \ {l}
      BY <1>4, <1>10, <2>2 DEF Takes, TypeOK, PortPools
    <3> QED BY <1>1, <1>5, <1>7, <3>1 DEF RegistryInv, NoPortLeak
  <2> QED BY <2>1, <2>2
<1>18. OneLeasePerIdentity'
  BY <1>1, <1>3, <1>5 DEF RegistryInv, OneLeasePerIdentity, TypeOK
<1>19. FriendlyNameUnique'
  BY <1>1, Frame
<1> QED BY <1>9, <1>10, <1>11, <1>12, <1>13, <1>14, <1>15, <1>16, <1>17, <1>18, <1>19
        DEF RegistryInv

\* What a pool may become when lease l of identity k gives back the port it noted down,
\* own: only that port is freed, only if l still uses it, and no identity loses a
\* reservation that has not lapsed.
Returns(pool, q, own, l, k) ==
  /\ PoolOK(q)
  /\ \A p \in Ports : q.inUse[p] = IF p = own /\ pool.inUse[p] = l THEN NoLease ELSE pool.inUse[p]
  /\ \A j \in Keys : pool.reserved[j] # NoPort /\ j \notin pool.lapsed => q.reserved[j] # NoPort
  /\ own \in Ports /\ own \in pool.reclaimed /\ pool.inUse[own] = l => q.reserved[k] # NoPort

\* closeRecord and rollbackRecord give a port back only from the lease that has it.
LEMMA ReturnPortsReturns ==
  ASSUME RegistryInv, NEW l \in Leases, NEW kind \in {"release", "rollback"},
         ReturnPorts(l, kind)
  PROVE  /\ key[l] \in Keys
         /\ pools' = [t \in Kinds |-> pools'[t]]
         /\ \A t \in Kinds : Returns(pools[t], pools'[t], port[l][t], l, key[l])
<1>1. key[l] \in Keys
  BY ZenonT(30) DEF RegistryInv, ReturnPorts, Private, Identified
<1>2. NoPort \notin Ports
  BY PortsFacts
<1>3. /\ pools' = [t \in Kinds |-> pools'[t]]
      /\ \A t \in Kinds : pools'[t] \in
           IF port[l][t] = NoPort THEN {pools[t]}
           ELSE IF kind = "release" THEN release(pools[t], port[l][t], l, key[l])
           ELSE {rollback(pools[t], port[l][t], l, key[l])}
  BY DEF ReturnPorts
<1>4. ASSUME NEW t \in Kinds
      PROVE  Returns(pools[t], pools'[t], port[l][t], l, key[l])
  <2>1. PoolOK(pools[t]) /\ port[l][t] \in Ports \cup {NoPort}
    BY DEF RegistryInv, PoolsOK, TypeOK
  <2>2. CASE port[l][t] = NoPort
    BY <1>2, <1>3, <2>1, <2>2 DEF Returns
  <2>3. CASE port[l][t] # NoPort /\ kind = "release"
    <3> DEFINE own == port[l][t]
               pool == pools[t]
               q == pools'[t]
    <3>1. own \in Ports /\ q \in release(pool, own, l, key[l]) /\ PoolOK(pool)
      BY <1>3, <2>1, <2>3
    <3> HIDE DEF own, pool, q
    <3>2. /\ PoolOK(q)
          /\ \A x \in Ports : q.inUse[x] = IF x = own /\ pool.inUse[own] = l THEN NoLease
                                           ELSE pool.inUse[x]
          /\ \A j \in Keys : pool.reserved[j] # NoPort /\ j \notin pool.lapsed
                               => q.reserved[j] = pool.reserved[j] \/ q.reserved[j] # NoPort
          /\ pool.inUse[own] = l => q.reserved[key[l]] # NoPort
      BY <1>1, <3>1, ReleaseOK
    <3>3. Returns(pool, q, own, l, key[l])
      BY <3>2 DEF Returns
    <3> QED BY <3>3 DEF own, pool, q
  <2>4. CASE port[l][t] # NoPort /\ kind # "release"
    <3> DEFINE own == port[l][t]
               pool == pools[t]
               q == pools'[t]
    <3>1. own \in Ports /\ q = rollback(pool, own, l, key[l]) /\ PoolOK(pool)
      BY <1>3, <2>1, <2>4
    <3> HIDE DEF own, pool, q
    <3>2. /\ PoolOK(q)
          /\ \A x \in Ports : q.inUse[x] = IF x = own /\ pool.inUse[own] = l THEN NoLease
                                           ELSE pool.inUse[x]
          /\ \A j \in Keys : pool.reserved[j] # NoPort => q.reserved[j] = pool.reserved[j]
          /\ own \in pool.reclaimed /\ pool.inUse[own] = l => q.reserved[key[l]] # NoPort
      BY <1>1, <3>1, RollbackOK
    <3>3. Returns(pool, q, own, l, key[l])
      BY <3>2 DEF Returns
    <3> QED BY <3>3 DEF own, pool, q
  <2> QED BY <2>2, <2>3, <2>4
<1> QED BY <1>1, <1>3, <1>4

\* Giving ports back preserves the invariant.
LEMMA ReturnPortsStep ==
  ASSUME RegistryInv, NEW l \in Leases, NEW kind \in {"release", "rollback"},
         ReturnPorts(l, kind)
  PROVE  RegistryInv'
<1>1. UNCHANGED <<pc, key, want, alias, port, bound, expired, victim, records, closed,
                  renewing, leaving, revived, down>>
  BY DEF ReturnPorts, lease
<1>2. tasks' = tasks \ {<<l, kind>>} /\ <<l, kind>> \in tasks /\ l \in closed
  BY DEF ReturnPorts, SocketsClosed
<1>3. /\ pools' = [t \in Kinds |-> pools'[t]]
      /\ \A t \in Kinds : Returns(pools[t], pools'[t], port[l][t], l, key[l])
  BY ReturnPortsReturns
<1>4. NoLease \notin Leases
  BY RegistryAssumption
\* The ports of other records are not touched, and l keeps none.
<1>5. /\ \A m \in Leases \ {l}, t \in Kinds, p \in Ports :
           pools[t].inUse[p] = m <=> pools'[t].inUse[p] = m
      /\ \A t \in Kinds, p \in Ports : pools'[t].inUse[p] # l
  BY <1>3, <1>4 DEF Returns, RegistryInv, PortKnown
<1>6. PoolsOK'
  BY <1>3 DEF PoolsOK, Returns
<1>7. TypeOK'
  <2>1. pools' \in [Kinds -> PortPools]
    <3>1. \A t \in Kinds : pools'[t] \in PortPools
      BY <1>6 DEF PoolsOK, PoolOK
    <3> QED BY <1>3, <3>1
  <2> QED BY <1>1, <1>2, <2>1 DEF RegistryInv, TypeOK
<1>8. Untaken' /\ PortKnown'
  BY <1>1, <1>5 DEF RegistryInv, Untaken, PortKnown
<1>9. Private' /\ Identified'
  BY <1>1, <1>2 DEF RegistryInv, Private, Identified
<1>10. PortsReady'
  <2>1. pc[l] \notin {"none", "allocated"}
    BY <1>2, ZenonT(30) DEF RegistryInv, Private
  <2>2. \A m \in Leases : want[m] \subseteq Kinds
    BY DEF RegistryInv, TypeOK
  <2> QED BY <1>1, <1>5, <2>1, <2>2 DEF RegistryInv, PortsReady
<1>11. SocketsOwned'
  <2>1. bound[l] = {}
    BY <1>2 DEF RegistryInv, SocketsOwned
  <2>2. \A m \in Leases : bound[m] \subseteq Kinds
    BY DEF RegistryInv, TypeOK
  <2> QED BY <1>1, <1>5, <2>1, <2>2 DEF RegistryInv, SocketsOwned
<1>12. NoPortLeak'
  <2> SUFFICES ASSUME NEW t \in Kinds, NEW p \in Ports, pools'[t].inUse[p] # NoLease
               PROVE  LET m == pools'[t].inUse[p]
                      IN  \/ m \in records'
                          \/ pc'[m] \in {"allocated", "started"}
                          \/ \E kd \in {"release", "rollback"} : <<m, kd>> \in tasks'
    BY DEF NoPortLeak
  <2>1. pools'[t].inUse[p] = pools[t].inUse[p] /\ pools[t].inUse[p] \in Leases \ {l}
    BY <1>3, <1>5, <1>7 DEF Returns, TypeOK, PortPools
  <2> QED BY <1>1, <1>2, <2>1 DEF RegistryInv, NoPortLeak
<1>13. OneLeasePerIdentity' /\ FriendlyNameUnique'
  BY <1>1, Frame
<1> QED BY <1>6, <1>7, <1>8, <1>9, <1>10, <1>11, <1>12, <1>13 DEF RegistryInv

\* A step that only lets deadlines pass, in the pool of kind t.
LEMMA LapseStep ==
  ASSUME RegistryInv, NEW t \in Kinds, NEW q, PoolOK(q),
         q.inUse = pools[t].inUse, q.reserved = pools[t].reserved,
         pools' = [pools EXCEPT ![t] = q],
         UNCHANGED <<pc, lease, alias, port, bound, expired, victim, records, closed, tasks,
                     renewing, leaving, revived, down>>
  PROVE  /\ RegistryInv'
         /\ \A s \in Kinds : /\ pools'[s].inUse = pools[s].inUse
                             /\ pools'[s].reserved = pools[s].reserved
<1>1. UNCHANGED <<pc, key, want, alias, port, bound, expired, victim, records, closed, tasks,
                  renewing, leaving, revived, down>>
  BY DEF lease
<1>2. \A s \in Kinds : /\ pools'[s].inUse = pools[s].inUse
                       /\ pools'[s].reserved = pools[s].reserved
                       /\ PoolOK(pools'[s])
  BY DEF RegistryInv, TypeOK, PoolsOK
<1>3. PoolsOK'
  BY <1>2 DEF PoolsOK
<1>4. TypeOK'
  <2>1. pools' \in [Kinds -> PortPools]
    BY DEF RegistryInv, TypeOK, PoolOK
  <2> QED BY <1>1, <2>1 DEF RegistryInv, TypeOK
<1>5. Untaken' /\ PortKnown' /\ Private' /\ Identified'
  <2>1. Untaken'
    BY <1>1, <1>2 DEF RegistryInv, Untaken
  <2>2. PortKnown'
    BY <1>1, <1>2 DEF RegistryInv, PortKnown
  <2>3. Private' /\ Identified'
    BY <1>1 DEF RegistryInv, Private, Identified
  <2> QED BY <2>1, <2>2, <2>3
<1>6. PortsReady' /\ SocketsOwned'
  <2>1. \A m \in Leases : want[m] \subseteq Kinds /\ bound[m] \subseteq Kinds
    BY DEF RegistryInv, TypeOK
  <2>2. PortsReady /\ SocketsOwned
    BY DEF RegistryInv
  <2>3. \A m \in Leases, s \in Kinds : pools'[s].inUse[port'[m][s]] = pools[s].inUse[port[m][s]]
    BY <1>1, <1>2, ZenonT(30)
  <2>4. PortsReady'
    <3> SUFFICES ASSUME NEW m \in Leases, pc[m] \in {"none", "allocated"}
                 PROVE  /\ bound[m] = {}
                        /\ pc[m] = "allocated" =>
                             \A s \in want[m] : port[m][s] \in Ports /\ pools'[s].inUse[port'[m][s]] = m
      BY <1>1, ZenonT(30) DEF PortsReady
    <3>1. /\ bound[m] = {}
          /\ pc[m] = "allocated" =>
               \A s \in want[m] : port[m][s] \in Ports /\ pools[s].inUse[port[m][s]] = m
      BY <2>2, ZenonT(30) DEF PortsReady
    <3>2. \A s \in want[m] : s \in Kinds
      BY <2>1, ZenonT(30)
    <3> QED BY <2>3, <3>1, <3>2, ZenonT(30)
  <2>5. SocketsOwned'
    <3> SUFFICES ASSUME NEW m \in Leases, NEW s \in bound[m]
                 PROVE  m \notin closed /\ port[m][s] \in Ports /\ pools'[s].inUse[port'[m][s]] = m
      BY <1>1, ZenonT(30) DEF SocketsOwned
    <3>1. m \notin closed /\ port[m][s] \in Ports /\ pools[s].inUse[port[m][s]] = m
      BY <2>2, ZenonT(30) DEF SocketsOwned
    <3>2. s \in Kinds
      BY <2>1, ZenonT(30)
    <3> QED BY <2>3, <3>1, <3>2, ZenonT(30)
  <2> QED BY <2>4, <2>5
<1>7. NoPortLeak'
  BY <1>1, <1>2 DEF RegistryInv, NoPortLeak
<1>8. OneLeasePerIdentity' /\ FriendlyNameUnique'
  BY <1>1, Frame
<1> QED BY <1>2, <1>3, <1>4, <1>5, <1>6, <1>7, <1>8 DEF RegistryInv

\* The grace period of a reservation, or of a reclaimed port, runs out: no port moves.
LEMMA TimeSteps ==
  ASSUME RegistryInv, NEW t \in Kinds
  PROVE  (\E k \in Keys : GraceOver(t, k)) \/ (\E p \in Ports : ReclaimedGraceOver(t, p)) =>
           /\ RegistryInv'
           /\ \A s \in Kinds : /\ pools'[s].inUse = pools[s].inUse
                               /\ pools'[s].reserved = pools[s].reserved
<1>1. PoolOK(pools[t])
  BY DEF RegistryInv, PoolsOK
<1>2. ASSUME NEW k \in Keys, GraceOver(t, k)
      PROVE  /\ RegistryInv'
             /\ \A s \in Kinds : /\ pools'[s].inUse = pools[s].inUse
                                 /\ pools'[s].reserved = pools[s].reserved
  <2> DEFINE q == LapseReservation(pools[t], k)
  <2>1. PoolOK(q) /\ q.inUse = pools[t].inUse /\ q.reserved = pools[t].reserved
    BY <1>1, <1>2, LapseOK DEF GraceOver
  <2>2. pools' = [pools EXCEPT ![t] = q]
    BY <1>2 DEF GraceOver, RegistryInv, TypeOK
  <2> HIDE DEF q
  <2> QED BY <1>2, <2>1, <2>2, LapseStep, ZenonT(30) DEF GraceOver
<1>3. ASSUME NEW p \in Ports, ReclaimedGraceOver(t, p)
      PROVE  /\ RegistryInv'
             /\ \A s \in Kinds : /\ pools'[s].inUse = pools[s].inUse
                                 /\ pools'[s].reserved = pools[s].reserved
  <2> DEFINE q == LapseReclaimed(pools[t], p)
  <2>1. PoolOK(q) /\ q.inUse = pools[t].inUse /\ q.reserved = pools[t].reserved
    BY <1>1, LapseOK
  <2>2. pools' = [pools EXCEPT ![t] = q]
    BY <1>3 DEF ReclaimedGraceOver, RegistryInv, TypeOK
  <2> HIDE DEF q
  <2> QED BY <1>3, <2>1, <2>2, LapseStep, ZenonT(30) DEF ReclaimedGraceOver
<1> QED BY <1>2, <1>3

-----------------------------------------------------------------------------
(* The theorems *)

\* A registry starts with no lease and all its ports free.
LEMMA RegistryInitially == Init => RegistryInv
<1> SUFFICES ASSUME Init PROVE RegistryInv
  OBVIOUS
<1>1. \A t \in Kinds : PoolOK(pools[t]) /\ \A p \in Ports : pools[t].inUse[p] = NoLease
  BY NewPoolOK DEF Init
<1>2. TypeOK
  <2>1. pools \in [Kinds -> PortPools]
    BY NewPoolOK DEF Init, PoolOK
  <2> QED BY <2>1, ZenonT(30) DEF Init, TypeOK, Stages
<1>3. PoolsOK /\ Untaken /\ PortKnown /\ NoPortLeak
  BY <1>1, RegistryAssumption DEF PoolsOK, Untaken, PortKnown, NoPortLeak
<1>4. Private /\ Identified /\ PortsReady /\ SocketsOwned
  BY DEF Init, Private, Identified, PortsReady, SocketsOwned
<1>5. OneLeasePerIdentity /\ FriendlyNameUnique
  BY DEF Init, OneLeasePerIdentity, FriendlyNameUnique, Active
<1> QED BY <1>2, <1>3, <1>4, <1>5 DEF RegistryInv

\* Every step of the registry keeps the invariant.
LEMMA RegistryInductive == RegistryInv /\ [Next]_vars => RegistryInv'
<1> SUFFICES ASSUME RegistryInv, [Next]_vars PROVE RegistryInv'
  OBVIOUS
<1>1. ASSUME NEW l \in Leases, NEW k \in Keys, NEW w \in Requests,
             RegisterAllocate(l, k, w) \/ RegisterExhausted(l, k, w)
      PROVE  RegistryInv'
  BY <1>1, RegisterAllocation, AllocationStep
<1>2. ASSUME NEW l \in Leases, Register(l) PROVE RegistryInv'
  BY <1>2, LeaseSteps, EntrySteps DEF Register
<1>3. ASSUME NEW l \in Leases, RenewVerify(l) \/ RenewApply(l) \/ RenewRefused(l)
      PROVE  RegistryInv'
  BY <1>3, LeaseSteps
<1>4. ASSUME NEW l \in Leases, UnregisterVerify(l) \/ Unregister(l) PROVE RegistryInv'
  BY <1>4, LeaseSteps
<1>5. ASSUME NEW l \in Leases, Closing(l) PROVE RegistryInv'
  BY <1>5, LeaseSteps, ReturnPortsStep DEF Closing
<1>6. ASSUME CleanupExpired \/ CloseAll PROVE RegistryInv'
  BY <1>6, SweepSteps
<1>7. ASSUME NEW l \in Leases, Expire(l) PROVE RegistryInv'
  BY <1>7, LeaseSteps
<1>8. ASSUME NEW t \in Kinds, NEW k \in Keys, GraceOver(t, k) PROVE RegistryInv'
  BY <1>8, TimeSteps
<1>9. ASSUME NEW t \in Kinds, NEW p \in Ports, ReclaimedGraceOver(t, p) PROVE RegistryInv'
  BY <1>9, TimeSteps
<1>10. CASE UNCHANGED vars
  <2>1. UNCHANGED <<pc, key, want, alias, port, bound, expired, victim, records, pools, closed,
                    tasks, renewing, leaving, revived, down>>
    BY <1>10 DEF vars, lease
  <2>2. TypeOK'
    BY <2>1 DEF RegistryInv, TypeOK
  <2> QED BY <2>1, <2>2, Frame DEF RegistryInv
<1> QED BY <1>1, <1>2, <1>3, <1>4, <1>5, <1>6, <1>7, <1>8, <1>9, <1>10 DEF Next

\* The invariant holds in every reachable state.
LEMMA RegistryInvariant == Spec => []RegistryInv
<1>1. Init => RegistryInv
  BY RegistryInitially
<1>2. RegistryInv /\ [Next]_vars => RegistryInv'
  BY RegistryInductive
<1> QED BY <1>1, <1>2, PTL DEF Spec

\* Whatever registrations, renewals, closers and deadlines do, every variable of the
\* registry and every field of its pools keeps its type (leaseRegistry and portPool).
THEOREM RegistryTypeCorrect == Spec => []TypeOK
<1>1. RegistryInv => TypeOK
  BY DEF RegistryInv
<1> QED BY <1>1, RegistryInvariant, PTL

\* For any number of leases, identities and ports: each port is free, in use or reserved
\* and only one of these, no port is handed out under an open socket, and a port in use
\* is one that a lease in the table, a registration or a closer will give back (Register,
\* closeRecord, rollbackRecord and portPool).
THEOREM RegistryPortsSound == Spec => []PortsSound
<1>1. RegistryInv => PortsSound
  BY DEF RegistryInv, PortsSound, PortPartition, PoolsOK, PoolOK, SocketOwnsPort, SocketsOwned
<1> QED BY <1>1, RegistryInvariant, PTL

\* The table holds one lease of an identity, and live leases of two identities share no
\* friendly hostname unless a late renewal revived one of them (Register and Renew).
THEOREM RegistryTableSound == Spec => []TableSound
<1>1. RegistryInv => TableSound
  BY DEF RegistryInv, TableSound
<1> QED BY <1>1, RegistryInvariant, PTL

\* A step that moves no port keeps every reservation and rolls nothing back.
LEMMA StillGrace ==
  ASSUME RegistryInv,
         \A t \in Kinds : pools'[t].inUse = pools[t].inUse /\ pools'[t].reserved = pools[t].reserved
  PROVE  ReservationKept /\ ReclaimRestored
BY DEF ReservationKept, ReclaimRestored

\* No step of the registry breaks the promise of the grace period.
LEMMA GraceStep == RegistryInv /\ [Next]_vars => [ReservationKept /\ ReclaimRestored]_vars
<1> SUFFICES ASSUME RegistryInv, Next PROVE ReservationKept /\ ReclaimRestored
  OBVIOUS
<1>1. ASSUME NEW l \in Leases, NEW k \in Keys, NEW w \in Requests,
             RegisterAllocate(l, k, w) \/ RegisterExhausted(l, k, w)
      PROVE  ReservationKept /\ ReclaimRestored
  <2>1. Allocation(l, k, w)
    BY <1>1, RegisterAllocation
  <2>2. /\ \A t \in Kinds : Takes(pools[t], pools'[t], l, k)
        /\ key'[l] = k /\ l # NoLease
    BY <2>1, RegistryAssumption DEF Allocation, RegistryInv, TypeOK
  <2>3. ReservationKept
    <3> SUFFICES ASSUME NEW t \in Kinds, NEW j \in Keys,
                        pools[t].reserved[j] # NoPort, j \notin pools[t].lapsed
                 PROVE  \/ pools'[t].reserved[j] = pools[t].reserved[j]
                        \/ LET m == pools'[t].inUse[pools[t].reserved[j]]
                           IN m # NoLease /\ key'[m] = j
      BY DEF ReservationKept
    <3>1. \/ pools'[t].reserved[j] = pools[t].reserved[j]
          \/ j = k /\ pools'[t].inUse[pools[t].reserved[j]] = l
      BY <2>2 DEF Takes
    <3> QED BY <2>2, <3>1, ZenonT(30)
  <2>4. ReclaimRestored
    BY <2>2 DEF ReclaimRestored, Takes
  <2> QED BY <2>3, <2>4
<1>2. ASSUME NEW l \in Leases, NEW kind \in {"release", "rollback"}, ReturnPorts(l, kind)
      PROVE  ReservationKept /\ ReclaimRestored
  <2>1. /\ \A t \in Kinds : Returns(pools[t], pools'[t], port[l][t], l, key[l])
        /\ l # NoLease
    BY <1>2, ReturnPortsReturns, RegistryAssumption
  <2>2. ReservationKept
    BY <2>1 DEF ReservationKept, Returns
  <2>3. ReclaimRestored
    BY <2>1 DEF ReclaimRestored, Returns
  <2> QED BY <2>2, <2>3
<1>3. ASSUME NEW t \in Kinds, (\E k \in Keys : GraceOver(t, k)) \/ (\E p \in Ports : ReclaimedGraceOver(t, p))
      PROVE  ReservationKept /\ ReclaimRestored
  BY <1>3, TimeSteps, StillGrace
<1>4. ASSUME UNCHANGED pools PROVE ReservationKept /\ ReclaimRestored
  BY <1>4, StillGrace
<1>5. ASSUME NEW l \in Leases,
             \/ Register(l)
             \/ RenewVerify(l) \/ RenewApply(l) \/ RenewRefused(l)
             \/ UnregisterVerify(l) \/ Unregister(l)
             \/ CloseSockets(l) \/ Expire(l)
             \/ CleanupExpired \/ CloseAll
      PROVE  UNCHANGED pools
  BY <1>5, ZenonT(30) DEF Register, RegisterStart, RegisterStartFailed, RegisterRefused, RegisterInsert,
       RegisterIssue, RegisterIssueFailed, RegisterServe, RegisterUndo, RenewVerify, RenewApply,
       RenewRefused, UnregisterVerify, Unregister, CloseSockets, Expire, CleanupExpired, CloseAll
<1>6. CASE CleanupExpired \/ CloseAll
  <2>1. UNCHANGED pools
    BY <1>6 DEF CleanupExpired, CloseAll
  <2> QED BY <1>4, <2>1
<1> QED BY <1>1, <1>2, <1>3, <1>4, <1>5, <1>6 DEF Next, Closing

\* Until its grace period ends a reserved port goes to its identity only, and a failed
\* reconnection leaves the identity a reservation (allocate, rollback and release).
THEOREM RegistryGraceHonoured == Spec => GraceHonoured
<1>1. RegistryInv /\ [Next]_vars => [ReservationKept /\ ReclaimRestored]_vars
  BY GraceStep
<1> QED BY <1>1, RegistryInvariant, PTL DEF Spec, GraceHonoured

=============================================================================
