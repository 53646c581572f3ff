--------------------------- MODULE LeaseStepProofs --------------------------
(***************************************************************************)
(* The inductive invariant of the lease registry, and the steps that move no*)
(* port.                                                                   *)
(*                                                                         *)
(* That a port is in one place only is not inductive by itself.  An open   *)
(* socket keeps its port because its record still owns it in the pool      *)
(* (SocketsOwned), which a bind inherits from the allocation (PortsReady); *)
(* giving a port back frees it from that record alone because a record knows*)
(* the one port of each kind it has (PortKnown) and because nobody closes a*)
(* record whose Register call has not entered it in the table yet (Private);*)
(* and an allocation may overwrite what the record knows because a lease not*)
(* yet registered has no port (Untaken).                                   *)
(***************************************************************************)
EXTENDS LeaseRegistry, TLAPS

\* A leaf that names no prover is given to the SMT solver, then to Zenon, for up to half a
\* minute each.
USE SMTT(30), ZenonT(30)

-----------------------------------------------------------------------------
(* The inductive invariant *)

PoolsOK == \A t \in Kinds : PoolOK(pools[t])

\* A lease nobody has registered yet holds no port.
Untaken ==
  \A l \in Leases : pc[l] = "none" =>
    \A t \in Kinds, p \in Ports : pools[t].inUse[p] # l

\* A record knows every port the pools say it uses, hence uses one of each kind.
PortKnown ==
  \A l \in Leases, t \in Kinds, p \in Ports : pools[t].inUse[p] = l => port[l][t] = p

\* Before it enters the table nobody but its own Register call can reach a lease.
Private ==
  \A l \in Leases : pc[l] \in {"none", "allocated", "started"} =>
    /\ l \notin records /\ l \notin closed
    /\ <<l, "release">> \notin tasks /\ <<l, "rollback">> \notin tasks

Identified == \A l \in Leases : pc[l] # "none" => key[l] \in Keys

\* Until its sockets are bound, a registration holds the port each of them needs.
PortsReady ==
  \A l \in Leases : pc[l] \in {"none", "allocated"} =>
    /\ bound[l] = {}
    /\ pc[l] = "allocated" =>
         \A t \in want[l] : port[l][t] \in Ports /\ pools[t].inUse[port[l][t]] = l

\* An open socket is on a port of the pool, and its record has that port and is not closed.
SocketsOwned ==
  \A l \in Leases : \A t \in bound[l] :
    /\ l \notin closed
    /\ port[l][t] \in Ports
    /\ pools[t].inUse[port[l][t]] = l

RegistryInv ==
  /\ TypeOK /\ PoolsOK /\ Untaken /\ PortKnown /\ Private /\ Identified
  /\ PortsReady /\ SocketsOwned /\ NoPortLeak /\ OneLeasePerIdentity /\ FriendlyNameUnique

\* A conjunct of the invariant holds on while the variables it speaks of do not change.
LEMMA Frame ==
  ASSUME RegistryInv
  PROVE  /\ UNCHANGED pools => PoolsOK'
         /\ UNCHANGED <<port, pools>> => PortKnown'
         /\ UNCHANGED <<pc, pools>> => Untaken'
         /\ UNCHANGED <<pc, records, closed, tasks>> => Private'
         /\ UNCHANGED <<pc, key>> => Identified'
         /\ UNCHANGED <<pc, want, port, bound, pools>> => PortsReady'
         /\ UNCHANGED <<port, bound, pools, closed>> => SocketsOwned'
         /\ UNCHANGED <<pc, records, pools, tasks>> => NoPortLeak'
         /\ UNCHANGED <<key, records>> => OneLeasePerIdentity'
         /\ UNCHANGED <<alias, expired, records, revived>> => FriendlyNameUnique'
<1>1. UNCHANGED pools => PoolsOK'
  BY DEF RegistryInv, PoolsOK
<1>2. UNCHANGED <<port, pools>> => PortKnown'
  BY DEF RegistryInv, PortKnown
<1>3. UNCHANGED <<pc, pools>> => Untaken'
  BY DEF RegistryInv, Untaken
<1>4. UNCHANGED <<pc, records, closed, tasks>> => Private'
  BY DEF RegistryInv, Private
<1>5. UNCHANGED <<pc, key>> => Identified'
  BY DEF RegistryInv, Identified
<1>6. UNCHANGED <<pc, want, port, bound, pools>> => PortsReady'
  BY DEF RegistryInv, PortsReady
<1>7. UNCHANGED <<port, bound, pools, closed>> => SocketsOwned'
  BY DEF RegistryInv, SocketsOwned
<1>8. UNCHANGED <<pc, records, pools, tasks>> => NoPortLeak'
  BY DEF RegistryInv, NoPortLeak
<1>9. UNCHANGED <<key, records>> => OneLeasePerIdentity'
  BY DEF RegistryInv, OneLeasePerIdentity
<1>10. UNCHANGED <<alias, expired, records, revived>> => FriendlyNameUnique'
  BY DEF RegistryInv, FriendlyNameUnique, Active
<1> QED BY <1>1, <1>2, <1>3, <1>4, <1>5, <1>6, <1>7, <1>8, <1>9, <1>10

\* The steps of one lease that move no port.
LEMMA LeaseSteps ==
  ASSUME RegistryInv, NEW l \in Leases
  PROVE  /\ RegisterStart(l) => RegistryInv'
         /\ RegisterStartFailed(l) => RegistryInv'
         /\ RegisterIssue(l) => RegistryInv'
         /\ RegisterIssueFailed(l) => RegistryInv'
         /\ RegisterServe(l) => RegistryInv'
         /\ RegisterUndo(l) => RegistryInv'
         /\ RenewVerify(l) => RegistryInv'
         /\ RenewApply(l) => RegistryInv'
         /\ RenewRefused(l) => RegistryInv'
         /\ UnregisterVerify(l) => RegistryInv'
         /\ Unregister(l) => RegistryInv'
         /\ CloseSockets(l) => RegistryInv'
         /\ Expire(l) => RegistryInv'
<1> USE DEF RegistryInv
<1>1. ASSUME RegisterStart(l) PROVE RegistryInv'
  <2>0. UNCHANGED <<key, want, alias, port, expired, victim, records, pools, closed, tasks,
                    renewing, leaving, revived, down>>
    BY <1>1 DEF lease, RegisterStart
  <2>1. TypeOK'
    BY <1>1, <2>0 DEF TypeOK, Stages, RegisterStart
  <2>2. PoolsOK' /\ PortKnown' /\ OneLeasePerIdentity' /\ FriendlyNameUnique'
    BY <2>0, Frame
  <2>3. Untaken'
    BY <1>1, <2>0 DEF TypeOK, Untaken, RegisterStart
  <2>4. Private'
    BY <1>1, <2>0 DEF TypeOK, Private, RegisterStart
  <2>5. Identified'
    BY <1>1, <2>0 DEF TypeOK, Identified, RegisterStart
  <2>6. PortsReady'
    <3>1. \A m \in Leases \ {l} : pc'[m] = pc[m] /\ bound'[m] = bound[m]
      BY <1>1, <2>0 DEF TypeOK, RegisterStart
    <3>2. pc'[l] = "started"
      BY <1>1 DEF TypeOK, RegisterStart
    <3> QED BY <2>0, <3>1, <3>2 DEF PortsReady
  <2>7. SocketsOwned'
    <3>1. \A m \in Leases \ {l} : bound'[m] = bound[m]
      BY <1>1 DEF TypeOK, RegisterStart
    <3>2. bound'[l] = want[l] /\ pc[l] = "allocated"
      BY <1>1 DEF TypeOK, RegisterStart
    <3>3. l \notin closed /\ \A t \in want[l] : port[l][t] \in Ports /\ pools[t].inUse[port[l][t]] = l
      BY <3>2, ZenonT(30) DEF Private, PortsReady
    <3> QED BY <2>0, <3>1, <3>2, <3>3 DEF SocketsOwned
  <2>8. NoPortLeak'
    BY <1>1, <2>0 DEF TypeOK, NoPortLeak, RegisterStart
  <2> QED BY <2>1, <2>2, <2>3, <2>4, <2>5, <2>6, <2>7, <2>8
<1>2. ASSUME RegisterStartFailed(l) PROVE RegistryInv'
  <2>0. UNCHANGED <<key, want, alias, port, expired, victim, records, pools, closed,
                    renewing, leaving, revived, down>>
    BY <1>2 DEF lease, RegisterStartFailed, Rollback
  <2>1. TypeOK'
    BY <1>2, <2>0 DEF TypeOK, Stages, RegisterStartFailed, Rollback
  <2>2. PoolsOK' /\ PortKnown' /\ OneLeasePerIdentity' /\ FriendlyNameUnique'
    BY <2>0, Frame
  <2>3. Untaken'
    BY <1>2, <2>0 DEF TypeOK, Untaken, RegisterStartFailed, Rollback
  <2>4. Private'
    BY <1>2, <2>0 DEF TypeOK, Private, RegisterStartFailed, Rollback
  <2>5. Identified'
    BY <1>2, <2>0 DEF TypeOK, Identified, RegisterStartFailed, Rollback
  <2>6. PortsReady'
    <3>1. \A m \in Leases \ {l} : pc'[m] = pc[m] /\ bound'[m] = bound[m]
      BY <1>2, <2>0 DEF TypeOK, RegisterStartFailed
    <3>2. pc'[l] = "failed"
      BY <1>2 DEF TypeOK, RegisterStartFailed
    <3> QED BY <2>0, <3>1, <3>2 DEF PortsReady
  <2>7. SocketsOwned'
    <3>1. \A m \in Leases \ {l} : bound'[m] = bound[m]
      BY <1>2 DEF TypeOK, RegisterStartFailed
    <3>2. bound'[l] \subseteq want[l] /\ pc[l] = "allocated"
      BY <1>2 DEF TypeOK, RegisterStartFailed
    <3>3. l \notin closed /\ \A t \in want[l] : port[l][t] \in Ports /\ pools[t].inUse[port[l][t]] = l
      BY <3>2, ZenonT(30) DEF Private, PortsReady
    <3> QED BY <2>0, <3>1, <3>2, <3>3 DEF SocketsOwned
  <2>8. NoPortLeak'
    BY <1>2, <2>0 DEF TypeOK, NoPortLeak, RegisterStartFailed, Rollback
  <2> QED BY <2>1, <2>2, <2>3, <2>4, <2>5, <2>6, <2>7, <2>8
<1>3. ASSUME RegisterIssue(l) PROVE RegistryInv'
  <2>0. UNCHANGED <<key, want, alias, port, bound, expired, records, pools, closed, tasks,
                    renewing, leaving, revived, down>>
    BY <1>3 DEF lease, RegisterIssue
  <2>1. TypeOK'
    BY <1>3, <2>0 DEF TypeOK, Stages, RegisterIssue
  <2>2. PoolsOK' /\ PortKnown' /\ OneLeasePerIdentity' /\ FriendlyNameUnique' /\
                    SocketsOwned'
    BY <2>0, Frame
  <2>3. Untaken'
    BY <1>3, <2>0 DEF TypeOK, Untaken, RegisterIssue
  <2>4. Private'
    BY <1>3, <2>0 DEF TypeOK, Private, RegisterIssue
  <2>5. Identified'
    BY <1>3, <2>0 DEF TypeOK, Identified, RegisterIssue
  <2>6. PortsReady'
    BY <1>3, <2>0 DEF TypeOK, PortsReady, Private, RegisterIssue
  <2>7. NoPortLeak'
    BY <1>3, <2>0 DEF TypeOK, NoPortLeak, RegisterIssue
  <2> QED BY <2>1, <2>2, <2>3, <2>4, <2>5, <2>6, <2>7
<1>4. ASSUME RegisterIssueFailed(l) PROVE RegistryInv'
  <2>0. UNCHANGED <<key, want, alias, port, bound, expired, pools, closed, renewing,
                    leaving, revived, down>>
    BY <1>4 DEF lease, RegisterIssueFailed, Rollback
  <2>1. TypeOK'
    BY <1>4, <2>0 DEF TypeOK, Stages, RegisterIssueFailed, Rollback
  <2>2. PoolsOK' /\ PortKnown' /\ SocketsOwned'
    BY <2>0, Frame
  <2>3. OneLeasePerIdentity'
    BY <1>4, <2>0 DEF TypeOK, OneLeasePerIdentity, RegisterIssueFailed, Rollback
  <2>4. FriendlyNameUnique'
    BY <1>4, <2>0 DEF TypeOK, FriendlyNameUnique, Active, RegisterIssueFailed, Rollback
  <2>5. Untaken'
    BY <1>4, <2>0 DEF TypeOK, Untaken, RegisterIssueFailed, Rollback
  <2>6. Private'
    BY <1>4, <2>0 DEF TypeOK, Private, RegisterIssueFailed, Rollback
  <2>7. Identified'
    BY <1>4, <2>0 DEF TypeOK, Identified, RegisterIssueFailed, Rollback
  <2>8. PortsReady'
    BY <1>4, <2>0 DEF TypeOK, PortsReady, Private, RegisterIssueFailed, Rollback
  <2>9. NoPortLeak'
    BY <1>4, <2>0 DEF TypeOK, NoPortLeak, RegisterIssueFailed, Rollback
  <2> QED BY <2>1, <2>2, <2>3, <2>4, <2>5, <2>6, <2>7, <2>8, <2>9
<1>5. ASSUME RegisterServe(l) PROVE RegistryInv'
  <2>0. UNCHANGED <<key, want, alias, port, bound, expired, victim, records, pools, closed,
                    tasks, renewing, leaving, revived, down>>
    BY <1>5 DEF lease, RegisterServe
  <2>1. TypeOK'
    BY <1>5, <2>0 DEF TypeOK, Stages, RegisterServe
  <2>2. PoolsOK' /\ PortKnown' /\ OneLeasePerIdentity' /\ FriendlyNameUnique' /\
                    SocketsOwned'
    BY <2>0, Frame
  <2>3. Untaken'
    BY <1>5, <2>0 DEF TypeOK, Untaken, RegisterServe
  <2>4. Private'
    BY <1>5, <2>0 DEF TypeOK, Private, RegisterServe
  <2>5. Identified'
    BY <1>5, <2>0 DEF TypeOK, Identified, RegisterServe
  <2>6. PortsReady'
    BY <1>5, <2>0 DEF TypeOK, PortsReady, Private, RegisterServe
  <2>7. NoPortLeak'
    BY <1>5, <2>0 DEF TypeOK, NoPortLeak, RegisterServe
  <2> QED BY <2>1, <2>2, <2>3, <2>4, <2>5, <2>6, <2>7
<1>6. ASSUME RegisterUndo(l) PROVE RegistryInv'
  <2>0. UNCHANGED <<key, want, alias, port, bound, expired, victim, pools, closed, renewing,
                    leaving, revived, down>>
    BY <1>6 DEF lease, RegisterUndo
  <2>1. TypeOK'
    BY <1>6, <2>0 DEF TypeOK, Stages, RegisterUndo
  <2>2. PoolsOK' /\ PortKnown' /\ SocketsOwned'
    BY <2>0, Frame
  <2>3. OneLeasePerIdentity'
    BY <1>6, <2>0 DEF TypeOK, OneLeasePerIdentity, RegisterUndo
  <2>4. FriendlyNameUnique'
    BY <1>6, <2>0 DEF TypeOK, FriendlyNameUnique, Active, RegisterUndo
  <2>5. Untaken'
    BY <1>6, <2>0 DEF TypeOK, Untaken, RegisterUndo
  <2>6. Private'
    BY <1>6, <2>0 DEF TypeOK, Private, RegisterUndo
  <2>7. Identified'
    BY <1>6, <2>0 DEF TypeOK, Identified, RegisterUndo
  <2>8. PortsReady'
    BY <1>6, <2>0 DEF TypeOK, PortsReady, Private, RegisterUndo
  <2>9. NoPortLeak'
    BY <1>6, <2>0 DEF TypeOK, NoPortLeak, RegisterUndo
  <2> QED BY <2>1, <2>2, <2>3, <2>4, <2>5, <2>6, <2>7, <2>8, <2>9
<1>7. ASSUME RenewVerify(l) PROVE RegistryInv'
  <2>0. UNCHANGED <<pc, key, want, alias, port, bound, expired, victim, records, pools,
                    closed, tasks, leaving, revived, down>>
    BY <1>7 DEF lease, RenewVerify
  <2>1. TypeOK'
    BY <1>7, <2>0 DEF TypeOK, Stages, RenewVerify
  <2>2. PoolsOK' /\ PortKnown' /\ OneLeasePerIdentity' /\ FriendlyNameUnique' /\ Untaken' /\
                    Private' /\ Identified' /\ PortsReady' /\ SocketsOwned' /\ NoPortLeak'
    BY <2>0, Frame
  <2> QED BY <2>1, <2>2
<1>8. ASSUME RenewApply(l) PROVE RegistryInv'
  <2>0. UNCHANGED <<pc, key, want, alias, port, bound, victim, records, pools, closed,
                    tasks, leaving, down>>
    BY <1>8 DEF lease, RenewApply
  <2>1. TypeOK'
    BY <1>8, <2>0 DEF TypeOK, Stages, RenewApply
  <2>2. PoolsOK' /\ PortKnown' /\ OneLeasePerIdentity' /\ Untaken' /\ Private' /\
                    Identified' /\ PortsReady' /\ SocketsOwned' /\ NoPortLeak'
    BY <2>0, Frame
  <2>3. FriendlyNameUnique'
    BY <1>8, <2>0 DEF TypeOK, FriendlyNameUnique, Active, RenewApply
  <2> QED BY <2>1, <2>2, <2>3
<1>9. ASSUME RenewRefused(l) PROVE RegistryInv'
  <2>0. UNCHANGED <<pc, key, want, alias, port, bound, expired, victim, records, pools,
                    closed, tasks, leaving, revived, down>>
    BY <1>9 DEF lease, RenewRefused
  <2>1. TypeOK'
    BY <1>9, <2>0 DEF TypeOK, Stages, RenewRefused
  <2>2. PoolsOK' /\ PortKnown' /\ OneLeasePerIdentity' /\ FriendlyNameUnique' /\ Untaken' /\
                    Private' /\ Identified' /\ PortsReady' /\ SocketsOwned' /\ NoPortLeak'
    BY <2>0, Frame
  <2> QED BY <2>1, <2>2
<1>10. ASSUME UnregisterVerify(l) PROVE RegistryInv'
  <2>0. UNCHANGED <<pc, key, want, alias, port, bound, expired, victim, records, pools,
                    closed, tasks, renewing, revived, down>>
    BY <1>10 DEF lease, UnregisterVerify
  <2>1. TypeOK'
    BY <1>10, <2>0 DEF TypeOK, Stages, UnregisterVerify
  <2>2. PoolsOK' /\ PortKnown' /\ OneLeasePerIdentity' /\ FriendlyNameUnique' /\ Untaken' /\
                    Private' /\ Identified' /\ PortsReady' /\ SocketsOwned' /\ NoPortLeak'
    BY <2>0, Frame
  <2> QED BY <2>1, <2>2
<1>11. ASSUME Unregister(l) PROVE RegistryInv'
  <2>0. UNCHANGED <<pc, key, want, alias, port, bound, expired, victim, pools, closed,
                    renewing, revived, down>>
    BY <1>11 DEF lease, Unregister, Depart
  <2>1. TypeOK'
    BY <1>11, <2>0 DEF TypeOK, Stages, Unregister, Depart
  <2>2. PoolsOK' /\ PortKnown' /\ Untaken' /\ Identified' /\ PortsReady' /\ SocketsOwned'
    BY <2>0, Frame
  <2>3. OneLeasePerIdentity'
    BY <1>11, <2>0 DEF TypeOK, OneLeasePerIdentity, Unregister, Depart
  <2>4. FriendlyNameUnique'
    BY <1>11, <2>0 DEF TypeOK, FriendlyNameUnique, Active, Unregister, Depart
  <2>5. Private'
    BY <1>11, <2>0 DEF TypeOK, Private, Unregister, Depart
  <2>6. NoPortLeak'
    BY <1>11, <2>0, SMTT(30) DEF TypeOK, NoPortLeak, Unregister, Depart
  <2> QED BY <2>1, <2>2, <2>3, <2>4, <2>5, <2>6
<1>12. ASSUME CloseSockets(l) PROVE RegistryInv'
  <2>0. UNCHANGED <<pc, key, want, alias, port, expired, victim, records, pools, tasks,
                    renewing, leaving, revived, down>>
    BY <1>12 DEF lease, CloseSockets
  <2>1. TypeOK'
    BY <1>12, <2>0 DEF TypeOK, Stages, CloseSockets
  <2>2. PoolsOK' /\ PortKnown' /\ OneLeasePerIdentity' /\ FriendlyNameUnique' /\ Untaken' /\
                    Identified' /\ NoPortLeak'
    BY <2>0, Frame
  <2>3. Private'
    BY <1>12, <2>0 DEF TypeOK, Private, CloseSockets
  <2>4. PortsReady'
    BY <1>12, <2>0 DEF TypeOK, PortsReady, Private, CloseSockets
  <2>5. SocketsOwned'
    BY <1>12, <2>0 DEF TypeOK, SocketsOwned, Private, CloseSockets
  <2> QED BY <2>1, <2>2, <2>3, <2>4, <2>5
<1>13. ASSUME Expire(l) PROVE RegistryInv'
  <2>0. UNCHANGED <<pc, key, want, alias, port, bound, victim, records, pools, closed,
                    tasks, renewing, leaving, revived, down>>
    BY <1>13 DEF lease, Expire
  <2>1. TypeOK'
    BY <1>13, <2>0 DEF TypeOK, Stages, Expire
  <2>2. PoolsOK' /\ PortKnown' /\ OneLeasePerIdentity' /\ Untaken' /\ Private' /\
                    Identified' /\ PortsReady' /\ SocketsOwned' /\ NoPortLeak'
    BY <2>0, Frame
  <2>3. FriendlyNameUnique'
    BY <1>13, <2>0 DEF TypeOK, FriendlyNameUnique, Active, Expire
  <2> QED BY <2>1, <2>2, <2>3
<1> QED BY <1>1, <1>2, <1>3, <1>4, <1>5, <1>6, <1>7, <1>8, <1>9, <1>10, <1>11, <1>12, <1>13, ZenonT(30)

\* Register is refused, or enters the table.
LEMMA EntrySteps ==
  ASSUME RegistryInv, NEW l \in Leases, NEW f \in BOOLEAN
  PROVE  /\ RegisterRefused(l, f) => RegistryInv'
         /\ RegisterInsert(l, f) => RegistryInv'
<1> USE DEF RegistryInv
<1>1. ASSUME RegisterRefused(l, f) PROVE RegistryInv'
  <2>0. UNCHANGED <<key, want, alias, port, bound, expired, victim, records, pools, closed,
                    renewing, leaving, revived, down>>
    BY <1>1 DEF lease, RegisterRefused, Rollback
  <2>1. TypeOK'
    BY <1>1, <2>0 DEF TypeOK, Stages, RegisterRefused, Rollback
  <2>2. PoolsOK' /\ PortKnown' /\ OneLeasePerIdentity' /\ FriendlyNameUnique' /\
                    SocketsOwned'
    BY <2>0, Frame
  <2>3. Untaken'
    BY <1>1, <2>0 DEF TypeOK, Untaken, RegisterRefused, Rollback
  <2>4. Private'
    BY <1>1, <2>0 DEF TypeOK, Private, RegisterRefused, Rollback
  <2>5. Identified'
    BY <1>1, <2>0 DEF TypeOK, Identified, RegisterRefused, Rollback
  <2>6. PortsReady'
    BY <1>1, <2>0 DEF TypeOK, PortsReady, Private, RegisterRefused, Rollback
  <2>7. NoPortLeak'
    BY <1>1, <2>0 DEF TypeOK, NoPortLeak, RegisterRefused, Rollback
  <2> QED BY <2>1, <2>2, <2>3, <2>4, <2>5, <2>6, <2>7
<1>2. ASSUME RegisterInsert(l, f) PROVE RegistryInv'
  <2>0. UNCHANGED <<key, want, port, bound, expired, pools, closed, renewing, leaving,
                    revived, down>>
    BY <1>2 DEF lease, RegisterInsert, Replaced, Rivals, NameTaken, FriendlyName
  <2>1. TypeOK'
    BY <1>2, <2>0 DEF TypeOK, Stages, RegisterInsert, Replaced, Rivals, NameTaken, FriendlyName
  <2>2. PoolsOK' /\ PortKnown' /\ SocketsOwned'
    BY <2>0, Frame
  <2>3. OneLeasePerIdentity'
    BY <1>2, <2>0 DEF TypeOK, OneLeasePerIdentity, RegisterInsert, Replaced, Rivals,
                      NameTaken, FriendlyName
  <2>4. FriendlyNameUnique'
    BY <1>2, <2>0 DEF TypeOK, FriendlyNameUnique, Active, RegisterInsert, Replaced, Rivals,
                      NameTaken, FriendlyName
  <2>5. Untaken'
    BY <1>2, <2>0 DEF TypeOK, Untaken, RegisterInsert, Replaced, Rivals, NameTaken,
                      FriendlyName
  <2>6. Private'
    BY <1>2, <2>0 DEF TypeOK, Private, RegisterInsert, Replaced, Rivals, NameTaken,
                      FriendlyName
  <2>7. Identified'
    BY <1>2, <2>0 DEF TypeOK, Identified, RegisterInsert, Replaced, Rivals, NameTaken,
                      FriendlyName
  <2>8. PortsReady'
    BY <1>2, <2>0 DEF TypeOK, PortsReady, Private, RegisterInsert, Replaced, Rivals,
                      NameTaken, FriendlyName
  <2>9. NoPortLeak'
    BY <1>2, <2>0 DEF TypeOK, NoPortLeak, RegisterInsert, Replaced, Rivals, NameTaken,
                      FriendlyName
  <2> QED BY <2>1, <2>2, <2>3, <2>4, <2>5, <2>6, <2>7, <2>8, <2>9
<1> QED BY <1>1, <1>2

\* The janitor and shutdown.
LEMMA SweepSteps ==
  ASSUME RegistryInv
  PROVE  /\ CleanupExpired => RegistryInv'
         /\ CloseAll => RegistryInv'
<1> USE DEF RegistryInv
<1>1. ASSUME CleanupExpired PROVE RegistryInv'
  <2>0. UNCHANGED <<pc, key, want, alias, port, bound, expired, victim, pools, closed,
                    renewing, leaving, revived, down>>
    BY <1>1 DEF lease, CleanupExpired, Depart
  <2>1. TypeOK'
    BY <1>1, <2>0 DEF TypeOK, Stages, CleanupExpired, Depart
  <2>2. PoolsOK' /\ PortKnown' /\ Untaken' /\ Identified' /\ PortsReady' /\ SocketsOwned'
    BY <2>0, Frame
  <2>3. OneLeasePerIdentity'
    BY <1>1, <2>0 DEF TypeOK, OneLeasePerIdentity, CleanupExpired, Depart
  <2>4. FriendlyNameUnique'
    BY <1>1, <2>0 DEF TypeOK, FriendlyNameUnique, Active, CleanupExpired, Depart
  <2>5. Private'
    BY <1>1, <2>0 DEF TypeOK, Private, CleanupExpired, Depart
  <2>6. NoPortLeak'
    BY <1>1, <2>0 DEF TypeOK, NoPortLeak, CleanupExpired, Depart
  <2> QED BY <2>1, <2>2, <2>3, <2>4, <2>5, <2>6
<1>2. ASSUME CloseAll PROVE RegistryInv'
  <2>0. UNCHANGED <<pc, key, want, alias, port, bound, expired, victim, pools, closed,
                    renewing, leaving, revived>>
    BY <1>2 DEF lease, CloseAll, Depart
  <2>1. TypeOK'
    BY <1>2, <2>0 DEF TypeOK, Stages, CloseAll, Depart
  <2>2. PoolsOK' /\ PortKnown' /\ Untaken' /\ Identified' /\ PortsReady' /\ SocketsOwned'
    BY <2>0, Frame
  <2>3. OneLeasePerIdentity'
    BY <1>2, <2>0 DEF TypeOK, OneLeasePerIdentity, CloseAll, Depart
  <2>4. FriendlyNameUnique'
    BY <1>2, <2>0 DEF TypeOK, FriendlyNameUnique, Active, CloseAll, Depart
  <2>5. Private'
    BY <1>2, <2>0 DEF TypeOK, Private, CloseAll, Depart
  <2>6. NoPortLeak'
    BY <1>2, <2>0, ZenonT(30) DEF TypeOK, NoPortLeak, CloseAll, Depart
  <2> QED BY <2>1, <2>2, <2>3, <2>4, <2>5, <2>6
<1> QED BY <1>1, <1>2

=============================================================================
