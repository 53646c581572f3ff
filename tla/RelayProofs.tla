----------------------------- MODULE RelayProofs ----------------------------
(* Proofs about three components of the relay that share no state: the static-site  *)
(* cache (StaticCache), the WebSocket carrier of reverse streams (ReverseMux) and    *)
(* the bindings that keyless signatures are given for (KeylessBindings).             *)
(*                                                                                   *)
(* Each component is taken as it stands by INSTANCE; the letter before a variable's  *)
(* name tells the component: c for the cache, m for the carrier, k for the keyless   *)
(* bindings. The theorems hold for every number of owners, requests, visitors,       *)
(* sessions, streams and leases, and for every limit. What a component assumes of    *)
(* its constants is the hypothesis its theorems begin with.                          *)
EXTENDS Naturals, FiniteSets, TLAPS

\* A leaf that names no prover is given to the SMT solver, then to Zenon, for up to half a
\* minute each.
USE SMTT(30), ZenonT(30)

-----------------------------------------------------------------------------
(* The cache. A visitor keeps a site from being removed only through the collector's  *)
(* look at the readers, so the invariant has to say where every site is: being         *)
(* uploaded, published by its owner, retired or being removed, and in one place only   *)
(* (Placed); and that a reader's site is one of the second or the third (Pinned). That *)
(* a blocked identity publishes nothing rests on the generation a request was admitted *)
(* with: one that is still eligible when it publishes was not overtaken by a block     *)
(* (MayPublish), because every block takes a new generation (Numbered).                *)

CONSTANTS
  Owners, Requests, Readers, Sizes, MaxBytes, MaxSnapshots, MaxUploads, MaxGeneration

VARIABLES
  cGranted, cLease, cGeneration, cGenOf, cBlocked, cLapsed, cEntries, cRetired, cRemoving, cSite,
  cExpired, cReaders, cUsed, cSnapshots, cUploads, cReq

Cache == INSTANCE StaticCache WITH granted <- cGranted, lease <- cLease,
  generation <- cGeneration, genOf <- cGenOf, blocked <- cBlocked, lapsed <- cLapsed, entries <- cEntries,
  retired <- cRetired, removing <- cRemoving, site <- cSite, expired <- cExpired,
  readers <- cReaders, used <- cUsed, snapshots <- cSnapshots, uploads <- cUploads,
  req <- cReq

\* The value for "no site" is not a site.
CacheAssumption == "none" \notin Requests

\* Where a request can be.
Places == {"none", "access", "handle", "reserve", "upload", "done"}

\* What a request is known by.
RequestRecords ==
  [at : Places, owner : Owners \cup {Cache!None}, lease : Nat, gen : Nat, put : BOOLEAN]

\* Types of the variables the invariant speaks of.
CacheTyped ==
  /\ cGranted \in Nat /\ cGeneration \in Nat /\ cBlocked \subseteq Owners
  /\ cLease \in [Owners -> Nat] /\ cGenOf \in [Owners -> Nat]
  /\ cEntries \in [Owners -> Cache!Sites \cup {Cache!None}]
  /\ cRetired \subseteq Cache!Sites /\ cRemoving \subseteq Cache!Sites
  /\ cReaders \in [Readers -> Cache!Sites \cup {Cache!None}]
  /\ DOMAIN cSite = Cache!Sites /\ cExpired \subseteq Cache!Sites
  /\ cReq \in [Requests -> RequestRecords]

\* Lease numbers and generations only grow; a request carries those it was admitted with.
Numbered ==
  /\ \A o \in Owners : cLease[o] <= cGranted /\ cGenOf[o] <= cGeneration
  /\ \A q \in Requests : /\ cReq[q].lease <= cGranted /\ cReq[q].gen <= cGeneration
                         /\ cReq[q].at # "none" => cReq[q].owner \in Owners /\ cReq[q].lease # 0

\* A site is in one place: being uploaded, published by its owner, retired or being removed.
Placed ==
  /\ cRetired \cap cRemoving = {}
  /\ \A o \in Owners : cEntries[o] # Cache!None =>
       /\ cEntries[o] \notin cRetired \cup cRemoving /\ cReq[cEntries[o]].at = "done"
       /\ cSite[cEntries[o]].owner = o
  /\ \A q \in Requests : cReq[q].at # "done" => q \notin cRetired \cup cRemoving
  /\ \A q \in Requests : cReq[q].at \in {"reserve", "upload"} =>
       cSite[q].owner = cReq[q].owner /\ cSite[q].lease = cReq[q].lease

\* A request past its access check that may still publish is of a routable owner.
MayPublish ==
  \A q \in Requests :
    cReq[q].at \in {"handle", "reserve", "upload"} /\ Cache!Current(q)
      => cReq[q].owner \notin cBlocked

\* Whoever reads, reads what is published or waits to be removed.
Pinned ==
  \A r \in Readers : cReaders[r] # Cache!None =>
    cReaders[r] \in cRetired \/ \E o \in Owners : cEntries[o] = cReaders[r]

\* The inductive invariant.
CacheInv == CacheTyped /\ Numbered /\ Placed /\ MayPublish /\ Pinned /\ Cache!RevokedUnpublished

\* Initially nothing is published, uploaded or read.
LEMMA CacheInit == Cache!Init => CacheInv
BY DEF Cache!Init, CacheInv, CacheTyped, Numbered, Placed, MayPublish, Pinned,
     Cache!RevokedUnpublished, Cache!None, Cache!Sites, Cache!NoRequest, Cache!NoSite,
     Places, RequestRecords, Cache!Current

\* Every step of the registry, a request, a visitor and the collector preserves it.
LEMMA CacheStep ==
  ASSUME CacheAssumption, CacheInv, [Cache!Next]_(Cache!vars)
  PROVE  CacheInv'
<1> USE DEF CacheInv, CacheAssumption, CacheTyped, Numbered, Placed, MayPublish, Pinned,
     Cache!RevokedUnpublished, Cache!None, Cache!Sites, Places, RequestRecords,
     Cache!Current
<1>1. ASSUME NEW o \in Owners, Cache!Register(o) PROVE CacheInv'
  <2>1. CacheTyped'
    BY <1>1 DEF Cache!Register, Cache!Retire, Cache!leaseVars, Cache!diskVars
  <2>2. Numbered'
    BY <1>1 DEF Cache!Register, Cache!Retire, Cache!leaseVars, Cache!diskVars
  <2>3. Placed'
    BY <1>1 DEF Cache!Register, Cache!Retire, Cache!leaseVars, Cache!diskVars
  <2>4. MayPublish'
    BY <1>1 DEF Cache!Register, Cache!Retire, Cache!leaseVars, Cache!diskVars
  <2>5. Pinned'
    BY <1>1 DEF Cache!Register, Cache!Retire, Cache!leaseVars, Cache!diskVars
  <2>6. Cache!RevokedUnpublished'
    BY <1>1 DEF Cache!Register, Cache!Retire, Cache!leaseVars, Cache!diskVars
  <2> QED BY <2>1, <2>2, <2>3, <2>4, <2>5, <2>6
<1>2. ASSUME NEW o \in Owners, Cache!Renew(o) PROVE CacheInv'
  <2>1. CacheTyped'
    BY <1>2 DEF Cache!Renew, Cache!RenewSite, Cache!Retire, Cache!leaseVars, Cache!diskVars
  <2>2. Numbered'
    BY <1>2 DEF Cache!Renew, Cache!RenewSite, Cache!Retire, Cache!leaseVars, Cache!diskVars
  <2>3. Placed'
    BY <1>2 DEF Cache!Renew, Cache!RenewSite, Cache!Retire, Cache!leaseVars, Cache!diskVars
  <2>4. MayPublish'
    BY <1>2 DEF Cache!Renew, Cache!RenewSite, Cache!Retire, Cache!leaseVars, Cache!diskVars
  <2>5. Pinned'
    BY <1>2 DEF Cache!Renew, Cache!RenewSite, Cache!Retire, Cache!leaseVars, Cache!diskVars
  <2>6. Cache!RevokedUnpublished'
    BY <1>2 DEF Cache!Renew, Cache!RenewSite, Cache!Retire, Cache!leaseVars, Cache!diskVars
  <2> QED BY <2>1, <2>2, <2>3, <2>4, <2>5, <2>6
<1>3. ASSUME NEW o \in Owners, Cache!Detach(o) PROVE CacheInv'
  <2>1. CacheTyped'
    BY <1>3 DEF Cache!Detach, Cache!Retire, Cache!leaseVars, Cache!diskVars
  <2>2. Numbered'
    BY <1>3 DEF Cache!Detach, Cache!Retire, Cache!leaseVars, Cache!diskVars
  <2>3. Placed'
    BY <1>3 DEF Cache!Detach, Cache!Retire, Cache!leaseVars, Cache!diskVars
  <2>4. MayPublish'
    BY <1>3 DEF Cache!Detach, Cache!Retire, Cache!leaseVars, Cache!diskVars
  <2>5. Pinned'
    BY <1>3 DEF Cache!Detach, Cache!Retire, Cache!leaseVars, Cache!diskVars
  <2>6. Cache!RevokedUnpublished'
    BY <1>3 DEF Cache!Detach, Cache!Retire, Cache!leaseVars, Cache!diskVars
  <2> QED BY <2>1, <2>2, <2>3, <2>4, <2>5, <2>6
<1>4. ASSUME NEW o \in Owners, Cache!Block(o) PROVE CacheInv'
  <2>1. CacheTyped'
    BY <1>4 DEF Cache!Block, Cache!NewGeneration, Cache!Retire, Cache!leaseVars,
         Cache!diskVars
  <2>2. Numbered'
    BY <1>4 DEF Cache!Block, Cache!NewGeneration, Cache!Retire, Cache!leaseVars,
         Cache!diskVars
  <2>3. Placed'
    BY <1>4 DEF Cache!Block, Cache!NewGeneration, Cache!Retire, Cache!leaseVars,
         Cache!diskVars
  <2>4. MayPublish'
    BY <1>4 DEF Cache!Block, Cache!NewGeneration, Cache!Retire, Cache!leaseVars,
         Cache!diskVars
  <2>5. Pinned'
    BY <1>4 DEF Cache!Block, Cache!NewGeneration, Cache!Retire, Cache!leaseVars,
         Cache!diskVars
  <2>6. Cache!RevokedUnpublished'
    BY <1>4 DEF Cache!Block, Cache!NewGeneration, Cache!Retire, Cache!leaseVars,
         Cache!diskVars
  <2> QED BY <2>1, <2>2, <2>3, <2>4, <2>5, <2>6
<1>5. ASSUME NEW o \in Owners, Cache!Unblock(o) PROVE CacheInv'
  <2>1. CacheTyped'
    BY <1>5 DEF Cache!Unblock, Cache!leaseVars, Cache!diskVars
  <2>2. Numbered'
    BY <1>5 DEF Cache!Unblock, Cache!leaseVars, Cache!diskVars
  <2>3. Placed'
    BY <1>5 DEF Cache!Unblock, Cache!leaseVars, Cache!diskVars
  <2>4. MayPublish'
    BY <1>5 DEF Cache!Unblock, Cache!leaseVars, Cache!diskVars
  <2>5. Pinned'
    BY <1>5 DEF Cache!Unblock, Cache!leaseVars, Cache!diskVars
  <2>6. Cache!RevokedUnpublished'
    BY <1>5 DEF Cache!Unblock, Cache!leaseVars, Cache!diskVars
  <2> QED BY <2>1, <2>2, <2>3, <2>4, <2>5, <2>6
<1>6. ASSUME NEW s \in Cache!Sites, Cache!Expire(s) PROVE CacheInv'
  <2>1. CacheTyped'
    BY <1>6 DEF Cache!Expire, Cache!leaseVars, Cache!diskVars
  <2>2. Numbered'
    BY <1>6 DEF Cache!Expire, Cache!leaseVars, Cache!diskVars
  <2>3. Placed'
    BY <1>6 DEF Cache!Expire, Cache!leaseVars, Cache!diskVars
  <2>4. MayPublish'
    BY <1>6 DEF Cache!Expire, Cache!leaseVars, Cache!diskVars
  <2>5. Pinned'
    BY <1>6 DEF Cache!Expire, Cache!leaseVars, Cache!diskVars
  <2>6. Cache!RevokedUnpublished'
    BY <1>6 DEF Cache!Expire, Cache!leaseVars, Cache!diskVars
  <2> QED BY <2>1, <2>2, <2>3, <2>4, <2>5, <2>6
<1>7. ASSUME NEW s \in Cache!Sites, Cache!Remove(s) PROVE CacheInv'
  <2>1. CacheTyped'
    BY <1>7 DEF Cache!Remove, Cache!leaseVars, Cache!diskVars
  <2>2. Numbered'
    BY <1>7 DEF Cache!Remove, Cache!leaseVars, Cache!diskVars
  <2>3. Placed'
    BY <1>7 DEF Cache!Remove, Cache!leaseVars, Cache!diskVars
  <2>4. MayPublish'
    BY <1>7 DEF Cache!Remove, Cache!leaseVars, Cache!diskVars
  <2>5. Pinned'
    BY <1>7 DEF Cache!Remove, Cache!leaseVars, Cache!diskVars
  <2>6. Cache!RevokedUnpublished'
    BY <1>7 DEF Cache!Remove, Cache!leaseVars, Cache!diskVars
  <2> QED BY <2>1, <2>2, <2>3, <2>4, <2>5, <2>6
<1>8. ASSUME Cache!Collect PROVE CacheInv'
  <2>1. CacheTyped'
    <3>1. cEntries' \in [Owners -> Cache!Sites \cup {Cache!None}]
      BY <1>8 DEF Cache!Collect
    <3>2. cRetired' \subseteq Cache!Sites /\ cRemoving' \subseteq Cache!Sites
      BY <1>8 DEF Cache!Collect, Cache!Unpinned
    <3> QED BY <1>8, <3>1, <3>2 DEF Cache!Collect, Cache!leaseVars, Cache!diskVars
  <2>2. Numbered'
    BY <1>8 DEF Cache!Collect, Cache!Unpinned, Cache!InUse, Cache!leaseVars, Cache!diskVars
  <2>3. Placed'
    BY <1>8 DEF Cache!Collect, Cache!Unpinned, Cache!InUse, Cache!leaseVars, Cache!diskVars
  <2>4. MayPublish'
    BY <1>8 DEF Cache!Collect, Cache!Unpinned, Cache!InUse, Cache!leaseVars, Cache!diskVars
  <2>5. Pinned'
    BY <1>8 DEF Cache!Collect, Cache!Unpinned, Cache!InUse, Cache!leaseVars, Cache!diskVars
  <2>6. Cache!RevokedUnpublished'
    BY <1>8 DEF Cache!Collect, Cache!Unpinned, Cache!InUse, Cache!leaseVars, Cache!diskVars
  <2> QED BY <2>1, <2>2, <2>3, <2>4, <2>5, <2>6
<1>9. ASSUME NEW r \in Readers, Cache!Release(r) PROVE CacheInv'
  <2>1. CacheTyped'
    BY <1>9 DEF Cache!Release, Cache!Retire, Cache!leaseVars, Cache!diskVars
  <2>2. Numbered'
    BY <1>9 DEF Cache!Release, Cache!Retire, Cache!leaseVars, Cache!diskVars
  <2>3. Placed'
    BY <1>9 DEF Cache!Release, Cache!Retire, Cache!leaseVars, Cache!diskVars
  <2>4. MayPublish'
    BY <1>9 DEF Cache!Release, Cache!Retire, Cache!leaseVars, Cache!diskVars
  <2>5. Pinned'
    BY <1>9 DEF Cache!Release, Cache!Retire, Cache!leaseVars, Cache!diskVars
  <2>6. Cache!RevokedUnpublished'
    BY <1>9 DEF Cache!Release, Cache!Retire, Cache!leaseVars, Cache!diskVars
  <2> QED BY <2>1, <2>2, <2>3, <2>4, <2>5, <2>6
<1>10. ASSUME NEW r \in Readers, NEW o \in Owners, Cache!Acquire(r, o) PROVE CacheInv'
  <2>1. CacheTyped'
    BY <1>10 DEF Cache!Acquire, Cache!leaseVars, Cache!diskVars
  <2>2. Numbered'
    BY <1>10 DEF Cache!Acquire, Cache!leaseVars, Cache!diskVars
  <2>3. Placed'
    BY <1>10 DEF Cache!Acquire, Cache!leaseVars, Cache!diskVars
  <2>4. MayPublish'
    BY <1>10 DEF Cache!Acquire, Cache!leaseVars, Cache!diskVars
  <2>5. Pinned'
    BY <1>10 DEF Cache!Acquire, Cache!leaseVars, Cache!diskVars
  <2>6. Cache!RevokedUnpublished'
    BY <1>10 DEF Cache!Acquire, Cache!leaseVars, Cache!diskVars
  <2> QED BY <2>1, <2>2, <2>3, <2>4, <2>5, <2>6
<1>11. ASSUME NEW q \in Requests, NEW o \in Owners, NEW put \in BOOLEAN, Cache!Arrive(q, o, put)
      PROVE CacheInv'
  <2>1. CacheTyped'
    BY <1>11 DEF Cache!Arrive, Cache!leaseVars, Cache!diskVars
  <2>2. Numbered'
    BY <1>11 DEF Cache!Arrive, Cache!leaseVars, Cache!diskVars
  <2>3. Placed'
    BY <1>11 DEF Cache!Arrive, Cache!leaseVars, Cache!diskVars
  <2>4. MayPublish'
    BY <1>11 DEF Cache!Arrive, Cache!leaseVars, Cache!diskVars
  <2>5. Pinned'
    BY <1>11 DEF Cache!Arrive, Cache!leaseVars, Cache!diskVars
  <2>6. Cache!RevokedUnpublished'
    BY <1>11 DEF Cache!Arrive, Cache!leaseVars, Cache!diskVars
  <2> QED BY <2>1, <2>2, <2>3, <2>4, <2>5, <2>6
<1>12. ASSUME NEW q \in Requests, Cache!CheckAccess(q) PROVE CacheInv'
  <2>1. CacheTyped'
    BY <1>12 DEF Cache!CheckAccess, Cache!At, Cache!leaseVars, Cache!diskVars
  <2>2. Numbered'
    BY <1>12 DEF Cache!CheckAccess, Cache!At, Cache!leaseVars, Cache!diskVars
  <2>3. Placed'
    BY <1>12 DEF Cache!CheckAccess, Cache!At, Cache!leaseVars, Cache!diskVars
  <2>4. MayPublish'
    BY <1>12 DEF Cache!CheckAccess, Cache!At, Cache!leaseVars, Cache!diskVars
  <2>5. Pinned'
    BY <1>12 DEF Cache!CheckAccess, Cache!At, Cache!leaseVars, Cache!diskVars
  <2>6. Cache!RevokedUnpublished'
    BY <1>12 DEF Cache!CheckAccess, Cache!At, Cache!leaseVars, Cache!diskVars
  <2> QED BY <2>1, <2>2, <2>3, <2>4, <2>5, <2>6
<1>13. ASSUME NEW q \in Requests, Cache!Handle(q) PROVE CacheInv'
  <2>1. CacheTyped'
    <3>1. PICK p \in Places : cReq' = [cReq EXCEPT ![q].at = p]
      BY <1>13 DEF Cache!Handle, Cache!At
    <3>2. [cReq[q] EXCEPT !.at = p] \in RequestRecords
      OBVIOUS
    <3>3. cReq' \in [Requests -> RequestRecords]
      BY <3>1, <3>2
    <3>4. /\ cEntries' \in [Owners -> Cache!Sites \cup {Cache!None}]
          /\ cRetired' \subseteq Cache!Sites
          /\ DOMAIN cSite' = Cache!Sites
      BY <1>13 DEF Cache!Handle, Cache!Retire
    <3> QED BY <1>13, <3>3, <3>4 DEF Cache!Handle, Cache!leaseVars, Cache!diskVars
  <2>2. Numbered'
    <3>1. PICK p \in Places : cReq' = [cReq EXCEPT ![q].at = p]
      BY <1>13 DEF Cache!Handle, Cache!At
    <3>2. \A r \in Requests : /\ cReq'[r].lease = cReq[r].lease /\ cReq'[r].gen = cReq[r].gen
                              /\ cReq'[r].owner = cReq[r].owner
                              /\ cReq'[r].at # "none" => cReq[r].at # "none"
      BY <1>13, <3>1 DEF Cache!Handle
    <3> QED BY <1>13, <3>2 DEF Cache!Handle, Cache!leaseVars, Cache!diskVars
  <2>3. Placed'
    <3>1. PICK p \in {"reserve", "done"} : cReq' = [cReq EXCEPT ![q].at = p]
      BY <1>13 DEF Cache!Handle, Cache!At
    <3>2. /\ \A r \in Requests : /\ cReq'[r].owner = cReq[r].owner /\ cReq'[r].lease = cReq[r].lease
                                 /\ r # q => cReq'[r].at = cReq[r].at
          /\ cReq'[q].at = p /\ cReq[q].at = "handle"
      BY <1>13, <3>1 DEF Cache!Handle
    <3>3. CASE UNCHANGED <<cEntries, cRetired>>
      <4>1. \A r \in Requests : r # q => cSite'[r] = cSite[r]
        BY <1>13 DEF Cache!Handle
      <4>2. p = "reserve" => /\ cSite'[q].owner = cReq[q].owner /\ cSite'[q].lease = cReq[q].lease
        BY <1>13, <3>2 DEF Cache!Handle, Cache!At
      <4>3. /\ UNCHANGED cRemoving /\ \A o \in Owners : cEntries[o] # q
        BY <1>13 DEF Cache!Handle
      <4> QED BY <3>2, <3>3, <4>1, <4>2, <4>3
    <3>4. CASE ~ UNCHANGED <<cEntries, cRetired>>
      <4>1. /\ Cache!Retire({s \in {cEntries[cReq[q].owner]} \ {Cache!None} :
                         cSite[s].lease = cReq[q].lease})
            /\ UNCHANGED <<cSite, cRemoving>> /\ p = "done"
        BY <1>13, <3>2, <3>4 DEF Cache!Handle, Cache!At
      <4>2. \A o \in Owners : cEntries'[o] # Cache!None =>
              cEntries'[o] = cEntries[o] /\ cEntries[o] \notin cRetired'
        BY <4>1 DEF Cache!Retire
      <4>3. \A s \in cRetired' : s \in cRetired \/ cReq[s].at = "done"
        BY <4>1 DEF Cache!Retire
      <4>4. cRetired' \cap cRemoving = {}
        BY <4>1 DEF Cache!Retire
      <4>5. \A o \in Owners : cEntries'[o] # Cache!None =>
              /\ cEntries'[o] \notin cRetired' \cup cRemoving' /\ cReq'[cEntries'[o]].at = "done"
              /\ cSite'[cEntries'[o]].owner = o
        BY <3>2, <4>1, <4>2
      <4>6. \A r \in Requests : cReq'[r].at # "done" => r \notin cRetired' \cup cRemoving'
        BY <3>2, <4>1, <4>3
      <4>7. \A r \in Requests : cReq'[r].at \in {"reserve", "upload"} =>
              cSite'[r].owner = cReq'[r].owner /\ cSite'[r].lease = cReq'[r].lease
        BY <3>2, <4>1
      <4> QED BY <4>1, <4>4, <4>5, <4>6, <4>7
    <3> QED BY <3>3, <3>4
  <2>4. MayPublish'
    BY <1>13 DEF Cache!Handle, Cache!At, Cache!Retire, Cache!leaseVars, Cache!diskVars
  <2>5. Pinned'
    BY <1>13 DEF Cache!Handle, Cache!At, Cache!Retire, Cache!leaseVars, Cache!diskVars
  <2>6. Cache!RevokedUnpublished'
    BY <1>13 DEF Cache!Handle, Cache!At, Cache!Retire, Cache!leaseVars, Cache!diskVars
  <2> QED BY <2>1, <2>2, <2>3, <2>4, <2>5, <2>6
<1>14. ASSUME NEW q \in Requests, Cache!Reserve(q) PROVE CacheInv'
  <2>1. CacheTyped'
    <3>1. \/ UNCHANGED cReq
          \/ \E p \in {"upload", "done"} : cReq' = [cReq EXCEPT ![q].at = p]
      BY <1>14 DEF Cache!Reserve, Cache!At
    <3>2. cReq' \in [Requests -> RequestRecords]
      BY <3>1
    <3>3. /\ cEntries' \in [Owners -> Cache!Sites \cup {Cache!None}]
          /\ cRetired' \subseteq Cache!Sites
      BY <1>14 DEF Cache!Reserve, Cache!Retire
    <3> QED BY <1>14, <3>2, <3>3 DEF Cache!Reserve, Cache!leaseVars, Cache!diskVars
  <2>2. Numbered'
    <3>1. \A r \in Requests : /\ cReq'[r].lease = cReq[r].lease /\ cReq'[r].gen = cReq[r].gen
                              /\ cReq'[r].owner = cReq[r].owner
                              /\ cReq'[r].at # "none" => cReq[r].at # "none"
      BY <1>14 DEF Cache!Reserve, Cache!At
    <3> QED BY <1>14, <3>1 DEF Cache!Reserve, Cache!leaseVars
  <2>3. Placed'
    <3>1. UNCHANGED <<cEntries, cRetired>> \/ \E s \in Cache!Sites : Cache!Retire({s})
      BY <1>14, ZenonT(30) DEF Cache!Reserve
    <3>2. /\ \A o \in Owners : cEntries'[o] # Cache!None =>
               cEntries'[o] = cEntries[o] /\ cEntries[o] \notin cRetired'
          /\ \A s \in cRetired' : s \in cRetired \/ cReq[s].at = "done"
          /\ cRetired' \cap cRemoving = {}
      BY <3>1 DEF Cache!Retire
    <3>3. /\ \A r \in Requests : /\ cReq'[r].owner = cReq[r].owner /\ cReq'[r].lease = cReq[r].lease
                                 /\ cReq[r].at = "done" => cReq'[r].at = "done"
                                 /\ cReq'[r].at \in {"reserve", "upload"} =>
                                      cReq[r].at \in {"reserve", "upload"}
          /\ UNCHANGED <<cSite, cRemoving>>
      BY <1>14 DEF Cache!Reserve, Cache!At
    <3>4. \A o \in Owners : cEntries'[o] # Cache!None =>
            /\ cEntries'[o] \notin cRetired' \cup cRemoving' /\ cReq'[cEntries'[o]].at = "done"
            /\ cSite'[cEntries'[o]].owner = o
      BY <3>2, <3>3
    <3>5. \A r \in Requests : cReq'[r].at # "done" => r \notin cRetired' \cup cRemoving'
      BY <3>2, <3>3
    <3>6. \A r \in Requests : cReq'[r].at \in {"reserve", "upload"} =>
            cSite'[r].owner = cReq'[r].owner /\ cSite'[r].lease = cReq'[r].lease
      BY <3>3
    <3> QED BY <3>2, <3>3, <3>4, <3>5, <3>6
  <2>4. MayPublish'
    <3>1. \A r \in Requests : /\ cReq'[r].owner = cReq[r].owner /\ cReq'[r].lease = cReq[r].lease
                              /\ cReq'[r].gen = cReq[r].gen
                              /\ cReq'[r].at \in {"handle", "reserve", "upload"} =>
                                   cReq[r].at \in {"handle", "reserve", "upload"}
      BY <1>14 DEF Cache!Reserve, Cache!At
    <3>2. UNCHANGED <<cLease, cGenOf, cBlocked>>
      BY <1>14 DEF Cache!Reserve, Cache!leaseVars
    <3> QED BY <3>1, <3>2
  <2>5. Pinned'
    BY <1>14 DEF Cache!Reserve, Cache!At, Cache!Retire, Cache!InUse, Cache!leaseVars,
         Cache!diskVars
  <2>6. Cache!RevokedUnpublished'
    BY <1>14 DEF Cache!Reserve, Cache!At, Cache!Retire, Cache!InUse, Cache!leaseVars,
         Cache!diskVars
  <2> QED BY <2>1, <2>2, <2>3, <2>4, <2>5, <2>6
<1>15. ASSUME NEW q \in Requests, Cache!RefuseManifest(q) PROVE CacheInv'
  <2>1. CacheTyped'
    BY <1>15 DEF Cache!RefuseManifest, Cache!At, Cache!leaseVars, Cache!diskVars
  <2>2. Numbered'
    BY <1>15 DEF Cache!RefuseManifest, Cache!At, Cache!leaseVars, Cache!diskVars
  <2>3. Placed'
    BY <1>15 DEF Cache!RefuseManifest, Cache!At, Cache!leaseVars, Cache!diskVars
  <2>4. MayPublish'
    BY <1>15 DEF Cache!RefuseManifest, Cache!At, Cache!leaseVars, Cache!diskVars
  <2>5. Pinned'
    BY <1>15 DEF Cache!RefuseManifest, Cache!At, Cache!leaseVars, Cache!diskVars
  <2>6. Cache!RevokedUnpublished'
    BY <1>15 DEF Cache!RefuseManifest, Cache!At, Cache!leaseVars, Cache!diskVars
  <2> QED BY <2>1, <2>2, <2>3, <2>4, <2>5, <2>6
<1>16. ASSUME NEW q \in Requests, Cache!Publish(q) PROVE CacheInv'
  <2>1. CacheTyped'
    BY <1>16 DEF Cache!Publish, Cache!Eligible, Cache!At, Cache!leaseVars, Cache!diskVars
  <2>2. Numbered'
    BY <1>16 DEF Cache!Publish, Cache!Eligible, Cache!At, Cache!leaseVars, Cache!diskVars
  <2>3. Placed'
    BY <1>16 DEF Cache!Publish, Cache!Eligible, Cache!At, Cache!leaseVars, Cache!diskVars
  <2>4. MayPublish'
    BY <1>16 DEF Cache!Publish, Cache!Eligible, Cache!At, Cache!leaseVars, Cache!diskVars
  <2>5. Pinned'
    BY <1>16 DEF Cache!Publish, Cache!Eligible, Cache!At, Cache!leaseVars, Cache!diskVars
  <2>6. Cache!RevokedUnpublished'
    BY <1>16 DEF Cache!Publish, Cache!Eligible, Cache!At, Cache!leaseVars, Cache!diskVars
  <2> QED BY <2>1, <2>2, <2>3, <2>4, <2>5, <2>6
<1>17. ASSUME NEW o \in Owners, Cache!LeaseLapses(o) PROVE CacheInv'
  BY <1>17 DEF Cache!LeaseLapses, Cache!diskVars
<1>18. CASE UNCHANGED Cache!vars
  BY <1>18 DEF Cache!vars
<1> HIDE DEF CacheInv, CacheTyped, Numbered, Placed, MayPublish, Pinned,
     Cache!RevokedUnpublished, Cache!None, Places, RequestRecords, Cache!Current
<1> QED BY <1>1, <1>2, <1>3, <1>4, <1>5, <1>6, <1>7, <1>8, <1>9, <1>10, <1>11, <1>12,
     <1>13, <1>14, <1>15, <1>16, <1>17, <1>18 DEF Cache!Next

\* The invariant holds of every behaviour.
LEMMA CacheInvariant == CacheAssumption => (Cache!Spec => []CacheInv)
<1> SUFFICES ASSUME CacheAssumption PROVE Cache!Spec => []CacheInv
  OBVIOUS
<1>1. Cache!Init => CacheInv
  BY CacheInit
<1>2. CacheInv /\ [Cache!Next]_(Cache!vars) => CacheInv'
  BY CacheStep
<1> QED BY <1>1, <1>2, PTL DEF Cache!Spec

\* Serve: a site a visitor reads is on disk, and nobody is removing it, however many
\* renewals, withdrawals, evictions and sweeps have happened since it was acquired.
THEOREM CacheReadersPinned == CacheAssumption => (Cache!Spec => []Cache!ReadersPinned)
<1> SUFFICES ASSUME CacheAssumption PROVE Cache!Spec => []Cache!ReadersPinned
  OBVIOUS
<1>1. CacheInv => Cache!ReadersPinned
  BY DEF CacheInv, CacheTyped, Placed, Pinned, Cache!ReadersPinned, Cache!OnDisk,
       Cache!None, Cache!Sites, CacheAssumption
<1> QED BY <1>1, CacheInvariant, PTL

\* Publish: nothing of a blocked identity is published, not even by an upload admitted
\* before the block, and content is published under the lease it was uploaded with.
THEOREM CacheRevokedUnpublished == CacheAssumption => (Cache!Spec => []Cache!RevokedUnpublished)
<1> SUFFICES ASSUME CacheAssumption PROVE Cache!Spec => []Cache!RevokedUnpublished
  OBVIOUS
<1>1. CacheInv => Cache!RevokedUnpublished
  BY DEF CacheInv
<1> QED BY <1>1, CacheInvariant, PTL

\* No step brings a retired site back, or makes an expired one current.
LEMMA RevivalStep ==
  ASSUME CacheAssumption, CacheInv, [Cache!Next]_(Cache!vars)
  PROVE  Cache!NotRevived \/ UNCHANGED Cache!vars
<1> SUFFICES ASSUME Cache!Next PROVE Cache!NotRevived
  OBVIOUS
<1>1. cExpired \subseteq cExpired'
  BY ZenonT(30) DEF Cache!Next, Cache!Register, Cache!Renew, Cache!RenewSite, Cache!Detach,
       Cache!LeaseLapses, Cache!Block, Cache!Unblock, Cache!Expire, Cache!Collect, Cache!Remove,
         Cache!Acquire, Cache!Release, Cache!Arrive, Cache!CheckAccess, Cache!Handle,
         Cache!Reserve, Cache!RefuseManifest, Cache!Publish
<1>2. ASSUME NEW o \in Owners, cEntries'[o] # Cache!None, cEntries'[o] # cEntries[o]
      PROVE  cEntries'[o] \notin cRetired \cup cRemoving
  <2>1. ~ \E ss : Cache!Retire(ss)
    BY <1>2 DEF Cache!Retire, CacheInv, CacheTyped
  <2>2. UNCHANGED cEntries \/ (\E q \in Requests : Cache!Publish(q)) \/ Cache!Collect
    BY <2>1, ZenonT(30) DEF Cache!Next, Cache!Register, Cache!Renew, Cache!RenewSite, Cache!Detach,
         Cache!LeaseLapses, Cache!Block, Cache!Unblock, Cache!Expire, Cache!Remove, Cache!Acquire,
         Cache!Release, Cache!Arrive, Cache!CheckAccess, Cache!Handle, Cache!Reserve,
         Cache!RefuseManifest
  <2>3. ~Cache!Collect
    BY <1>2 DEF Cache!Collect, CacheInv, CacheTyped
  <2>4. PICK q \in Requests : Cache!Publish(q)
    BY <1>2, <2>2, <2>3
  <2> QED BY <1>2, <2>4 DEF Cache!Publish, CacheInv, CacheTyped, Placed, Cache!Sites
<1>3. \A o \in Owners : cEntries[o] # Cache!None => cEntries[o] \notin cRetired \cup cRemoving
  BY DEF CacheInv, Placed
<1>4. Cache!None \notin cRetired \cup cRemoving
  BY DEF CacheInv, CacheTyped, CacheAssumption, Cache!None, Cache!Sites
<1> QED BY <1>1, <1>2, <1>3, <1>4 DEF Cache!NotRevived

\* RenewSite, Publish: content that has expired or was withdrawn is never brought back.
THEOREM CacheNotRevived == CacheAssumption => (Cache!Spec => [][Cache!NotRevived]_(Cache!vars))
<1> SUFFICES ASSUME CacheAssumption PROVE Cache!Spec => [][Cache!NotRevived]_(Cache!vars)
  OBVIOUS
<1>1. CacheInv /\ [Cache!Next]_(Cache!vars) => [Cache!NotRevived]_(Cache!vars)
  BY RevivalStep
<1> QED BY <1>1, CacheInvariant, PTL DEF Cache!Spec

-----------------------------------------------------------------------------
(* The carrier. A session is replaced under the record's lock and closed after it, and *)
(* its handler goes on until its next Accept fails, so handlers of several sessions of *)
(* a lease run at once. The invariant ties a record's session to a handler that serves *)
(* it (Admitted), and a stream a handler works on to that handler's session and lease  *)
(* (Handshakes).                                                                       *)

CONSTANTS
  MaxLeases, Muxes, Streams

VARIABLES
  mGranted, mCurrent, mBlocked, mRecClosed, mPoolClosed, mReverseMux, mHandler, mOf, mOpen,
  mToClose, mServing, mStream, mCap, mOn, mClient, mVetted

Mux == INSTANCE ReverseMux WITH granted <- mGranted, current <- mCurrent,
  blocked <- mBlocked, recClosed <- mRecClosed, poolClosed <- mPoolClosed,
  reverseMux <- mReverseMux, handler <- mHandler, of <- mOf, open <- mOpen, toClose <- mToClose,
  serving <- mServing, stream <- mStream, cap <- mCap, on <- mOn, client <- mClient,
  vetted <- mVetted

\* The bound is a number, and the value for "no session" is no session.
MuxAssumption == MaxLeases \in Nat /\ "none" \notin Muxes /\ "none" \notin Streams

\* Types of the variables the invariant speaks of.
MuxTyped ==
  /\ mGranted \in 0..MaxLeases /\ mCurrent \in {0, mGranted} /\ mRecClosed \subseteq Mux!Leases
  /\ mPoolClosed \subseteq mRecClosed
  /\ mReverseMux \in [Mux!Leases -> Muxes \cup {Mux!None}]
  /\ mOpen \subseteq Muxes /\ mToClose \subseteq Muxes
  /\ mHandler \in [Muxes -> {Mux!None, "accepted", "serve", "admit", "offer", "done"}]
  /\ mOf \in [Muxes -> Mux!Leases \cup {0}]
  /\ mServing \in [Muxes -> Streams \cup {Mux!None}]
  /\ mStream \in [Streams -> {Mux!None, "sent", "accepted", "rejected", "pooled", "closed"}]
  /\ mCap \in [Streams -> Mux!Leases \cup {0}] /\ mOn \in [Streams -> Muxes \cup {Mux!None}]
  /\ mClient \in [Streams -> {Mux!None, "wait", "usable", "failed"}]

\* A session that is open or carries a stream has been admitted, to a lease; a session a
\* record holds is served by its handler.
Admitted ==
  /\ \A m \in Muxes : mHandler[m] # Mux!None => mOf[m] \in Mux!Leases
  /\ \A m \in mOpen : mHandler[m] # Mux!None
  /\ \A s \in Streams : mStream[s] # Mux!None => mOn[s] \in Muxes /\ mHandler[mOn[s]] # Mux!None
  /\ \A l \in Mux!Leases, m \in Muxes : mReverseMux[l] = m =>
       mHandler[m] \in {"serve", "admit", "offer"}

\* What a handler works on came over its session; accepted and parked streams presented
\* the capability of the session's lease.
Handshakes ==
  /\ \A m \in Muxes : mHandler[m] \in {"admit", "offer"} =>
       mServing[m] \in Streams /\ mOn[mServing[m]] = m
  /\ \A m \in Muxes : mHandler[m] = "offer" => mStream[mServing[m]] = "accepted"
  /\ \A m \in Muxes : mHandler[m] = "admit" => mStream[mServing[m]] = "sent"
  /\ \A s \in Streams : mStream[s] \in {"accepted", "pooled"} =>
       mCap[s] = mOf[mOn[s]] /\ s \in mVetted

\* The inductive invariant: both properties, with what they rest on.
MuxInv == MuxTyped /\ Admitted /\ Mux!CarrierOwned /\ Handshakes /\ Mux!StreamsVetted

\* Initially no lease is granted and no session open.
LEMMA MuxInit == MuxAssumption /\ Mux!Init => MuxInv
BY DEF MuxAssumption, Mux!Init, MuxInv, MuxTyped, Admitted, Mux!CarrierOwned, Handshakes,
     Mux!StreamsVetted, Mux!None, Mux!Leases

\* Every step of the registry, a handler, the connector and the network preserves it.
LEMMA MuxStep ==
  ASSUME MuxAssumption, MuxInv, [Mux!Next]_(Mux!vars)
  PROVE  MuxInv'
<1> USE DEF MuxInv, MuxAssumption, MuxTyped, Admitted, Mux!CarrierOwned, Handshakes,
     Mux!StreamsVetted, Mux!None, Mux!Leases
<1>1. ASSUME Mux!Register PROVE MuxInv'
  <2>1. MuxTyped'
    BY <1>1 DEF Mux!Register, Mux!streamVars
  <2>2. Admitted'
    BY <1>1 DEF Mux!Register, Mux!streamVars
  <2>3. Mux!CarrierOwned'
    BY <1>1 DEF Mux!Register, Mux!streamVars
  <2>4. Handshakes'
    BY <1>1 DEF Mux!Register, Mux!streamVars
  <2>5. Mux!StreamsVetted'
    BY <1>1 DEF Mux!Register, Mux!streamVars
  <2> QED BY <2>1, <2>2, <2>3, <2>4, <2>5
<1>2. ASSUME Mux!Unregister PROVE MuxInv'
  <2>1. MuxTyped'
    BY <1>2 DEF Mux!Unregister, Mux!streamVars
  <2>2. Admitted'
    BY <1>2 DEF Mux!Unregister, Mux!streamVars
  <2>3. Mux!CarrierOwned'
    BY <1>2 DEF Mux!Unregister, Mux!streamVars
  <2>4. Handshakes'
    BY <1>2 DEF Mux!Unregister, Mux!streamVars
  <2>5. Mux!StreamsVetted'
    BY <1>2 DEF Mux!Unregister, Mux!streamVars
  <2> QED BY <2>1, <2>2, <2>3, <2>4, <2>5
<1>3. ASSUME Mux!SetAccess PROVE MuxInv'
  <2>1. MuxTyped'
    BY <1>3 DEF Mux!SetAccess, Mux!streamVars
  <2>2. Admitted'
    BY <1>3 DEF Mux!SetAccess, Mux!streamVars
  <2>3. Mux!CarrierOwned'
    BY <1>3 DEF Mux!SetAccess, Mux!streamVars
  <2>4. Handshakes'
    BY <1>3 DEF Mux!SetAccess, Mux!streamVars
  <2>5. Mux!StreamsVetted'
    BY <1>3 DEF Mux!SetAccess, Mux!streamVars
  <2> QED BY <2>1, <2>2, <2>3, <2>4, <2>5
<1>4. ASSUME NEW l \in Mux!Leases, Mux!CloseRecord(l) PROVE MuxInv'
  <2>1. MuxTyped'
    BY <1>4 DEF Mux!CloseRecord, Mux!streamVars
  <2>2. Admitted'
    BY <1>4 DEF Mux!CloseRecord, Mux!streamVars
  <2>3. Mux!CarrierOwned'
    BY <1>4 DEF Mux!CloseRecord, Mux!streamVars
  <2>4. Handshakes'
    BY <1>4 DEF Mux!CloseRecord, Mux!streamVars
  <2>5. Mux!StreamsVetted'
    BY <1>4 DEF Mux!CloseRecord, Mux!streamVars
  <2> QED BY <2>1, <2>2, <2>3, <2>4, <2>5
<1>5. ASSUME NEW m \in Muxes, Mux!Connect(m) PROVE MuxInv'
  <2>1. MuxTyped'
    BY <1>5 DEF Mux!Connect, Mux!Admit, Mux!leaseVars, Mux!streamVars
  <2>2. Admitted'
    BY <1>5 DEF Mux!Connect, Mux!Admit, Mux!leaseVars, Mux!streamVars
  <2>3. Mux!CarrierOwned'
    BY <1>5 DEF Mux!Connect, Mux!Admit, Mux!leaseVars, Mux!streamVars
  <2>4. Handshakes'
    BY <1>5 DEF Mux!Connect, Mux!Admit, Mux!leaseVars, Mux!streamVars
  <2>5. Mux!StreamsVetted'
    BY <1>5 DEF Mux!Connect, Mux!Admit, Mux!leaseVars, Mux!streamVars
  <2> QED BY <2>1, <2>2, <2>3, <2>4, <2>5
<1>6. ASSUME NEW m \in Muxes, Mux!AttachReverseMux(m) PROVE MuxInv'
  <2>1. MuxTyped'
    <3>1. mOf[m] \in Mux!Leases /\ mReverseMux[mOf[m]] \in Muxes \cup {Mux!None}
      BY <1>6 DEF Mux!AttachReverseMux
    <3>2. CASE Mux!Attachable(mOf[m])
      <4>1. /\ mToClose' = mToClose \cup ({mReverseMux[mOf[m]]} \ {Mux!None, m})
            /\ mReverseMux' = [mReverseMux EXCEPT ![mOf[m]] = m]
            /\ mHandler' = [mHandler EXCEPT ![m] = "serve"] /\ UNCHANGED mOpen
        BY <1>6, <3>2 DEF Mux!AttachReverseMux
      <4>2. mToClose' \subseteq Muxes
        BY <3>1, <4>1
      <4>3. mReverseMux' \in [Mux!Leases -> Muxes \cup {Mux!None}]
        BY <4>1, ZenonT(30)
      <4>4. mHandler' \in [Muxes -> {Mux!None, "accepted", "serve", "admit", "offer", "done"}]
        BY <4>1
      <4> QED BY <1>6, <4>1, <4>2, <4>3, <4>4 DEF Mux!AttachReverseMux, Mux!leaseVars,
           Mux!streamVars
    <3>3. CASE ~Mux!Attachable(mOf[m])
      <4>1. /\ mOpen' = mOpen \ {m} /\ mHandler' = [mHandler EXCEPT ![m] = "done"]
            /\ UNCHANGED <<mToClose, mReverseMux>>
        BY <1>6, <3>3 DEF Mux!AttachReverseMux
      <4>2. mHandler' \in [Muxes -> {Mux!None, "accepted", "serve", "admit", "offer", "done"}]
        BY <4>1
      <4> QED BY <1>6, <4>1, <4>2 DEF Mux!AttachReverseMux, Mux!leaseVars, Mux!streamVars
    <3> QED BY <3>2, <3>3
  <2>2. Admitted'
    <3>1. /\ mOf[m] \in Mux!Leases /\ mHandler[m] = "accepted"
          /\ UNCHANGED <<mRecClosed, mOf, mOn, mStream>>
      BY <1>6 DEF Mux!AttachReverseMux, Mux!leaseVars, Mux!streamVars
    <3>2. CASE Mux!Attachable(mOf[m])
      <4>1. /\ mToClose' = mToClose \cup ({mReverseMux[mOf[m]]} \ {Mux!None, m})
            /\ mReverseMux' = [mReverseMux EXCEPT ![mOf[m]] = m]
            /\ mHandler' = [mHandler EXCEPT ![m] = "serve"] /\ UNCHANGED mOpen
        BY <1>6, <3>2 DEF Mux!AttachReverseMux
      <4>2. \A l \in Mux!Leases, n \in Muxes : mReverseMux'[l] = n => n = m \/ mReverseMux[l] = n
        BY <4>1
      <4>3. mHandler'[m] = "serve" /\ \A n \in Muxes \ {m} : mHandler'[n] = mHandler[n]
        BY <4>1
      <4> QED BY <3>1, <4>1, <4>2, <4>3
    <3>3. CASE ~Mux!Attachable(mOf[m])
      <4>1. /\ mOpen' = mOpen \ {m} /\ mHandler' = [mHandler EXCEPT ![m] = "done"]
            /\ UNCHANGED <<mToClose, mReverseMux>>
        BY <1>6, <3>3 DEF Mux!AttachReverseMux
      <4>2. mHandler'[m] = "done" /\ \A n \in Muxes \ {m} : mHandler'[n] = mHandler[n]
        BY <4>1
      <4> QED BY <3>1, <4>1, <4>2
    <3> QED BY <3>2, <3>3
  <2>3. Mux!CarrierOwned'
    <3>1. /\ mOf[m] \in Mux!Leases /\ mHandler[m] = "accepted"
          /\ UNCHANGED <<mRecClosed, mOf, mOn, mStream>>
      BY <1>6 DEF Mux!AttachReverseMux, Mux!leaseVars, Mux!streamVars
    <3>2. CASE Mux!Attachable(mOf[m])
      <4>1. /\ mToClose' = mToClose \cup ({mReverseMux[mOf[m]]} \ {Mux!None, m})
            /\ mReverseMux' = [mReverseMux EXCEPT ![mOf[m]] = m]
            /\ mHandler' = [mHandler EXCEPT ![m] = "serve"] /\ UNCHANGED mOpen
        BY <1>6, <3>2 DEF Mux!AttachReverseMux
      <4>2. /\ mReverseMux'[mOf[m]] = m
            /\ \A l \in Mux!Leases \ {mOf[m]} : mReverseMux'[l] = mReverseMux[l]
        BY <3>1, <4>1
      <4>3. mHandler'[m] = "serve" /\ \A n \in Muxes \ {m} : mHandler'[n] = mHandler[n]
        BY <4>1
      <4>4. ASSUME NEW n \in Muxes \ {m}, n \in mOpen, mHandler[n] \in {"serve", "admit", "offer"}
            PROVE  mReverseMux'[mOf[n]] = n \/ n \in mToClose'
        <5>1. mOf[n] \in Mux!Leases
          BY <4>4
        <5>2. n \in mToClose => n \in mToClose'
          BY <4>1
        <5>3. mReverseMux[mOf[n]] = n /\ mOf[n] = mOf[m] => n \in mToClose'
          BY <4>1, <4>4
        <5> QED BY <4>2, <4>4, <5>1, <5>2, <5>3
      <4>5. \A l \in Mux!Leases : l \in mRecClosed' => mReverseMux'[l] = Mux!None
        BY <3>1, <3>2, <4>2 DEF Mux!Attachable
      <4>6. ASSUME NEW l \in Mux!Leases, NEW n \in Muxes, mReverseMux'[l] = n
            PROVE  mHandler'[n] # "done" /\ mOf'[n] = l
        <5>1. CASE l = mOf[m]
          BY <3>1, <4>2, <4>3, <4>6, <5>1
        <5>2. CASE l # mOf[m]
          <6>1. mReverseMux[l] = n
            BY <4>2, <4>6, <5>2
          <6>2. n # m /\ mOf[n] = l /\ mHandler[n] # "done"
            BY <3>1, <6>1
          <6> QED BY <3>1, <4>3, <6>2
        <5> QED BY <5>1, <5>2
      <4> QED BY <3>1, <4>1, <4>2, <4>3, <4>4, <4>5, <4>6
    <3>3. CASE ~Mux!Attachable(mOf[m])
      <4>1. /\ mOpen' = mOpen \ {m} /\ mHandler' = [mHandler EXCEPT ![m] = "done"]
            /\ UNCHANGED <<mToClose, mReverseMux>>
        BY <1>6, <3>3 DEF Mux!AttachReverseMux
      <4>2. mHandler'[m] = "done" /\ \A n \in Muxes \ {m} : mHandler'[n] = mHandler[n]
        BY <4>1
      <4> QED BY <3>1, <4>1, <4>2
    <3> QED BY <3>2, <3>3
  <2>4. Handshakes'
    BY <1>6 DEF Mux!AttachReverseMux, Mux!Attachable, Mux!leaseVars, Mux!streamVars
  <2>5. Mux!StreamsVetted'
    BY <1>6 DEF Mux!AttachReverseMux, Mux!Attachable, Mux!leaseVars, Mux!streamVars
  <2> QED BY <2>1, <2>2, <2>3, <2>4, <2>5
<1>7. ASSUME NEW m \in Muxes, Mux!CloseTaken(m) PROVE MuxInv'
  <2>1. MuxTyped'
    BY <1>7 DEF Mux!CloseTaken, Mux!leaseVars, Mux!streamVars
  <2>2. Admitted'
    BY <1>7 DEF Mux!CloseTaken, Mux!leaseVars, Mux!streamVars
  <2>3. Mux!CarrierOwned'
    BY <1>7 DEF Mux!CloseTaken, Mux!leaseVars, Mux!streamVars
  <2>4. Handshakes'
    BY <1>7 DEF Mux!CloseTaken, Mux!leaseVars, Mux!streamVars
  <2>5. Mux!StreamsVetted'
    BY <1>7 DEF Mux!CloseTaken, Mux!leaseVars, Mux!streamVars
  <2> QED BY <2>1, <2>2, <2>3, <2>4, <2>5
<1>8. ASSUME NEW m \in Muxes, Mux!SessionLost(m) PROVE MuxInv'
  <2>1. MuxTyped'
    BY <1>8 DEF Mux!SessionLost, Mux!leaseVars, Mux!streamVars
  <2>2. Admitted'
    BY <1>8 DEF Mux!SessionLost, Mux!leaseVars, Mux!streamVars
  <2>3. Mux!CarrierOwned'
    BY <1>8 DEF Mux!SessionLost, Mux!leaseVars, Mux!streamVars
  <2>4. Handshakes'
    BY <1>8 DEF Mux!SessionLost, Mux!leaseVars, Mux!streamVars
  <2>5. Mux!StreamsVetted'
    BY <1>8 DEF Mux!SessionLost, Mux!leaseVars, Mux!streamVars
  <2> QED BY <2>1, <2>2, <2>3, <2>4, <2>5
<1>9. ASSUME NEW m \in Muxes, NEW s \in Streams, Mux!AcceptStream(m, s) PROVE MuxInv'
  <2>1. MuxTyped'
    BY <1>9 DEF Mux!AcceptStream, Mux!leaseVars, Mux!streamVars
  <2>2. Admitted'
    BY <1>9 DEF Mux!AcceptStream, Mux!leaseVars, Mux!streamVars
  <2>3. Mux!CarrierOwned'
    BY <1>9 DEF Mux!AcceptStream, Mux!leaseVars, Mux!streamVars
  <2>4. Handshakes'
    BY <1>9 DEF Mux!AcceptStream, Mux!leaseVars, Mux!streamVars
  <2>5. Mux!StreamsVetted'
    BY <1>9 DEF Mux!AcceptStream, Mux!leaseVars, Mux!streamVars
  <2> QED BY <2>1, <2>2, <2>3, <2>4, <2>5
<1>10. ASSUME NEW m \in Muxes, Mux!Confirm(m) PROVE MuxInv'
  <2>1. MuxTyped'
    BY <1>10 DEF Mux!Confirm, Mux!Authorized, Mux!Admit, Mux!leaseVars
  <2>2. Admitted'
    BY <1>10 DEF Mux!Confirm, Mux!Authorized, Mux!Admit, Mux!leaseVars
  <2>3. Mux!CarrierOwned'
    BY <1>10 DEF Mux!Confirm, Mux!Authorized, Mux!Admit, Mux!leaseVars
  <2>4. Handshakes'
    <3>1. /\ mServing[m] \in Streams /\ mOn[mServing[m]] = m /\ mStream[mServing[m]] = "sent"
          /\ UNCHANGED <<mOf, mCap, mOn>>
      BY <1>10 DEF Mux!Confirm
    <3>2. \A n \in Muxes \ {m} : /\ mHandler'[n] = mHandler[n] /\ mServing'[n] = mServing[n]
                                 /\ mHandler[n] \in {"admit", "offer"} =>
                                      mServing[n] # mServing[m]
      BY <1>10, <3>1 DEF Mux!Confirm
    <3>3. \A t \in Streams \ {mServing[m]} : mStream'[t] = mStream[t]
      BY <1>10, <3>1 DEF Mux!Confirm
    <3>4. CASE Mux!Authorized(m, mServing[m]) /\ m \in mOpen
      <4>1. /\ mHandler'[m] = "offer" /\ mServing'[m] = mServing[m]
            /\ mStream'[mServing[m]] = "accepted"
        BY <1>10, <3>1, <3>4 DEF Mux!Confirm
      <4>2. mCap[mServing[m]] = mOf[m] /\ mVetted' = mVetted \cup {mServing[m]}
        BY <1>10, <3>4 DEF Mux!Confirm, Mux!Authorized, Mux!Admit
      <4> QED BY <3>1, <3>2, <3>3, <4>1, <4>2
    <3>5. CASE ~(Mux!Authorized(m, mServing[m]) /\ m \in mOpen)
      <4>1. /\ mHandler'[m] = "serve" /\ mStream'[mServing[m]] \in {"rejected", "closed"}
            /\ mVetted' = mVetted
        BY <1>10, <3>1, <3>5 DEF Mux!Confirm
      <4>2. /\ \A n \in Muxes : mHandler'[n] \in {"admit", "offer"} => n \in Muxes \ {m}
            /\ \A t \in Streams : mStream'[t] \in {"accepted", "pooled"} =>
                 t \in Streams \ {mServing[m]}
        BY <4>1
      <4>3. \A n \in Muxes \ {m} : mHandler[n] \in {"admit", "offer"} =>
              mStream'[mServing[n]] = mStream[mServing[n]]
        BY <3>2, <3>3
      <4> QED BY <3>1, <3>2, <3>3, <4>1, <4>2, <4>3
    <3> QED BY <3>4, <3>5
  <2>5. Mux!StreamsVetted'
    BY <1>10 DEF Mux!Confirm, Mux!Authorized, Mux!Admit, Mux!leaseVars
  <2> QED BY <2>1, <2>2, <2>3, <2>4, <2>5
<1>11. ASSUME NEW m \in Muxes, Mux!OfferStream(m) PROVE MuxInv'
  <2>1. MuxTyped'
    BY <1>11 DEF Mux!OfferStream, Mux!leaseVars
  <2>2. Admitted'
    BY <1>11 DEF Mux!OfferStream, Mux!leaseVars
  <2>3. Mux!CarrierOwned'
    BY <1>11 DEF Mux!OfferStream, Mux!leaseVars
  <2>4. Handshakes'
    BY <1>11 DEF Mux!OfferStream, Mux!leaseVars
  <2>5. Mux!StreamsVetted'
    BY <1>11 DEF Mux!OfferStream, Mux!leaseVars
  <2> QED BY <2>1, <2>2, <2>3, <2>4, <2>5
<1>12. ASSUME NEW m \in Muxes, Mux!DetachReverseMux(m) PROVE MuxInv'
  <2>1. MuxTyped'
    BY <1>12 DEF Mux!DetachReverseMux, Mux!Detached, Mux!leaseVars, Mux!streamVars
  <2>2. Admitted'
    BY <1>12 DEF Mux!DetachReverseMux, Mux!Detached, Mux!leaseVars, Mux!streamVars
  <2>3. Mux!CarrierOwned'
    BY <1>12 DEF Mux!DetachReverseMux, Mux!Detached, Mux!leaseVars, Mux!streamVars
  <2>4. Handshakes'
    BY <1>12 DEF Mux!DetachReverseMux, Mux!Detached, Mux!leaseVars, Mux!streamVars
  <2>5. Mux!StreamsVetted'
    BY <1>12 DEF Mux!DetachReverseMux, Mux!Detached, Mux!leaseVars, Mux!streamVars
  <2> QED BY <2>1, <2>2, <2>3, <2>4, <2>5
<1>13. ASSUME NEW s \in Streams, NEW m \in Muxes, NEW l \in Mux!Leases, Mux!OpenStream(s, m, l)
      PROVE MuxInv'
  <2>1. MuxTyped'
    BY <1>13 DEF Mux!OpenStream, Mux!leaseVars
  <2>2. Admitted'
    BY <1>13 DEF Mux!OpenStream, Mux!leaseVars
  <2>3. Mux!CarrierOwned'
    BY <1>13 DEF Mux!OpenStream, Mux!leaseVars
  <2>4. Handshakes'
    BY <1>13 DEF Mux!OpenStream, Mux!leaseVars
  <2>5. Mux!StreamsVetted'
    BY <1>13 DEF Mux!OpenStream, Mux!leaseVars
  <2> QED BY <2>1, <2>2, <2>3, <2>4, <2>5, ZenonT(30)
<1>14. ASSUME NEW s \in Streams, Mux!StatusRead(s) PROVE MuxInv'
  <2>1. MuxTyped'
    BY <1>14 DEF Mux!StatusRead, Mux!leaseVars
  <2>2. Admitted'
    BY <1>14 DEF Mux!StatusRead, Mux!leaseVars
  <2>3. Mux!CarrierOwned'
    BY <1>14 DEF Mux!StatusRead, Mux!leaseVars
  <2>4. Handshakes'
    BY <1>14 DEF Mux!StatusRead, Mux!leaseVars
  <2>5. Mux!StreamsVetted'
    BY <1>14 DEF Mux!StatusRead, Mux!leaseVars
  <2> QED BY <2>1, <2>2, <2>3, <2>4, <2>5, ZenonT(30)
<1>15. ASSUME NEW s \in Streams, Mux!StatusFails(s) PROVE MuxInv'
  <2>1. MuxTyped'
    BY <1>15 DEF Mux!StatusFails, Mux!leaseVars
  <2>2. Admitted'
    BY <1>15 DEF Mux!StatusFails, Mux!leaseVars
  <2>3. Mux!CarrierOwned'
    BY <1>15 DEF Mux!StatusFails, Mux!leaseVars
  <2>4. Handshakes'
    BY <1>15 DEF Mux!StatusFails, Mux!leaseVars
  <2>5. Mux!StreamsVetted'
    BY <1>15 DEF Mux!StatusFails, Mux!leaseVars
  <2> QED BY <2>1, <2>2, <2>3, <2>4, <2>5, ZenonT(30)
<1>16. ASSUME NEW l \in Mux!Leases, Mux!ClosePool(l) PROVE MuxInv'
  <2>1. MuxTyped'
    <3>1. mStream' \in [Streams -> {Mux!None, "sent", "accepted", "rejected", "pooled", "closed"}]
      BY <1>16 DEF Mux!ClosePool
    <3>2. mPoolClosed' \subseteq mRecClosed'
      BY <1>16 DEF Mux!ClosePool
    <3> QED BY <1>16, <3>1, <3>2 DEF Mux!ClosePool
  <2>2. Admitted'
    BY <1>16 DEF Mux!ClosePool
  <2>3. Mux!CarrierOwned'
    BY <1>16 DEF Mux!ClosePool
  <2>4. Handshakes'
    BY <1>16 DEF Mux!ClosePool
  <2>5. Mux!StreamsVetted'
    BY <1>16 DEF Mux!ClosePool
  <2> QED BY <2>1, <2>2, <2>3, <2>4, <2>5
<1>17. CASE UNCHANGED Mux!vars
  BY <1>17 DEF Mux!vars
<1> QED BY <1>1, <1>2, <1>3, <1>4, <1>5, <1>6, <1>7, <1>8, <1>9, <1>10, <1>11, <1>12,
     <1>13, <1>14, <1>15, <1>16, <1>17, ZenonT(30) DEF Mux!Next, Mux!Handler

\* The invariant holds of every behaviour.
LEMMA MuxInvariant == MuxAssumption => (Mux!Spec => []MuxInv)
<1> SUFFICES ASSUME MuxAssumption PROVE Mux!Spec => []MuxInv
  OBVIOUS
<1>1. Mux!Init => MuxInv
  BY MuxInit
<1>2. MuxInv /\ [Mux!Next]_(Mux!vars) => MuxInv'
  BY MuxStep
<1> QED BY <1>1, <1>2, PTL DEF Mux!Spec

\* attachReverseMux and detachReverseMux: the session that is served and open is its
\* record's own or is being closed, a handler that ends late never takes out the session
\* that replaced its own, and a closed record holds none.
THEOREM MuxCarrierOwned == MuxAssumption => (Mux!Spec => []Mux!CarrierOwned)
<1> SUFFICES ASSUME MuxAssumption PROVE Mux!Spec => []Mux!CarrierOwned
  OBVIOUS
<1>1. MuxInv => Mux!CarrierOwned
  BY DEF MuxInv
<1> QED BY <1>1, MuxInvariant, PTL

\* serveReverseMux: a stream is parked for a lease, and used by the connector, only
\* when its own capability was accepted while that lease was current and routable.
THEOREM MuxStreamsVetted == MuxAssumption => (Mux!Spec => []Mux!StreamsVetted)
<1> SUFFICES ASSUME MuxAssumption PROVE Mux!Spec => []Mux!StreamsVetted
  OBVIOUS
<1>1. MuxInv => Mux!StreamsVetted
  BY DEF MuxInv
<1> QED BY <1>1, MuxInvariant, PTL

-----------------------------------------------------------------------------
(* Keyless bindings. That a binding is spent for good needs more than its entry: a     *)
(* request names a binding that was issued (RequestsIssued), and a binding is issued   *)
(* once, so nothing makes an entry again for a request that was signed.                *)

CONSTANTS
  Visits, SignRequests, MaxSignLeases

VARIABLES
  kLive, kVisit, kKind, kLease, kEntry, kLate, kReq, kSigned

Signing == INSTANCE KeylessBindings WITH Requests <- SignRequests,
  MaxLeases <- MaxSignLeases, live <- kLive, visit <- kVisit, kind <- kKind,
  lease <- kLease, entry <- kEntry, late <- kLate, req <- kReq, signed <- kSigned

Typed ==
  /\ kVisit \in [Visits -> {"none", "open", "done"}]
  /\ kEntry \in [Visits -> {"none", "unfixed", "fixed"}]
  /\ kLease \in [Visits -> Signing!Leases \cup {0}]
  /\ kReq \in [SignRequests -> [at : {"none", "verify", "sign", "refused", "signed"},
                           binding : Visits \cup {"none"}, lease : Signing!Leases \cup {0},
                           hello : Visits \cup {"none"}]]

\* A request that was sent names a binding that was issued; one that got its signature is
\* answered.
RequestsIssued ==
  /\ \A q \in SignRequests : kReq[q].at # "none" =>
       kReq[q].binding \in Visits /\ kVisit[kReq[q].binding] # "none"
  /\ kSigned \subseteq {q \in SignRequests : kReq[q].at = "signed"}

\* The inductive invariant.
BindingInv == Typed /\ RequestsIssued /\ Signing!SignedOnce

\* Initially no binding is issued and no request sent.
LEMMA BindingInit == Signing!Init => BindingInv
BY DEF Signing!Init, BindingInv, Typed, RequestsIssued, Signing!SignedOnce,
     Signing!NoRequest

\* A step of a visit leaves the requests alone, and makes an entry only for a binding that
\* is issued by this very step or is there already (Issue, fixHello, Discard, Sweep).
LEMMA VisitStep ==
  ASSUME BindingInv, UNCHANGED <<kReq, kSigned>>, Typed',
         \A v \in Visits : /\ kVisit[v] # "none" => kVisit'[v] # "none" /\ kLease'[v] = kLease[v]
                           /\ kVisit[v] # "none" /\ kEntry[v] = "none" => kEntry'[v] = "none"
  PROVE  BindingInv'
<1>1. RequestsIssued'
  BY DEF BindingInv, RequestsIssued
<1>2. Signing!SignedOnce'
  <2>1. \A q \in kSigned : /\ q \in SignRequests /\ kReq[q].binding \in Visits
                          /\ kVisit[kReq[q].binding] # "none"
    BY DEF BindingInv, RequestsIssued
  <2> QED BY <2>1 DEF BindingInv, Signing!SignedOnce
<1> QED BY <1>1, <1>2, ZenonT(30) DEF BindingInv

\* A step of one request that is not signed changes nothing for the signed ones.
LEMMA RequestStep ==
  ASSUME BindingInv, UNCHANGED <<kVisit, kLease, kEntry, kSigned>>,
         NEW q \in SignRequests, q \notin kSigned,
         NEW r \in [at : {"none", "verify", "sign", "refused", "signed"},
                    binding : Visits \cup {"none"}, lease : Signing!Leases \cup {0},
                    hello : Visits \cup {"none"}],
         kReq' = [kReq EXCEPT ![q] = r],
         r.at # "none" => r.binding \in Visits /\ kVisit[r.binding] # "none"
  PROVE  BindingInv'
<1>1. Typed'
  BY DEF BindingInv, Typed
<1>2. /\ kReq'[q] = r
      /\ \A p \in SignRequests : p # q => kReq'[p] = kReq[p]
  BY DEF BindingInv, Typed
<1>3. RequestsIssued'
  BY <1>2 DEF BindingInv, RequestsIssued
<1>4. \A p \in kSigned : p \in SignRequests /\ kReq'[p] = kReq[p]
  BY <1>2 DEF BindingInv, RequestsIssued
<1>5. Signing!SignedOnce'
  BY <1>4 DEF BindingInv, Signing!SignedOnce
<1> QED BY <1>1, <1>3, <1>5 DEF BindingInv

\* ValidateAndConsume gives a signature for a fixed entry only, and takes the entry with
\* it, so no signed request names the same binding.
LEMMA ConsumeStep ==
  ASSUME BindingInv, NEW q \in SignRequests, Signing!ValidateAndConsume(q)
  PROVE  BindingInv'
<1> DEFINE v == kReq[q].binding
<1>1. /\ kReq[q].at = "sign" /\ v \in Visits /\ kVisit[v] # "none" /\ q \notin kSigned
      /\ UNCHANGED <<kVisit, kLease>>
  BY DEF Signing!ValidateAndConsume, BindingInv, RequestsIssued
<1>2. CASE ~Signing!Fits(v, q)
  <2>1. /\ UNCHANGED <<kEntry, kSigned>>
        /\ kReq' = [kReq EXCEPT ![q] = [kReq[q] EXCEPT !.at = "refused"]]
    BY <1>2 DEF Signing!ValidateAndConsume, Signing!Answer
  <2>2. [kReq[q] EXCEPT !.at = "refused"] \in
           [at : {"none", "verify", "sign", "refused", "signed"},
            binding : Visits \cup {"none"}, lease : Signing!Leases \cup {0},
            hello : Visits \cup {"none"}]
    BY DEF BindingInv, Typed
  <2>3. [kReq[q] EXCEPT !.at = "refused"].binding = v
    BY DEF BindingInv, Typed
  <2> QED BY <1>1, <2>1, <2>2, <2>3, RequestStep, ZenonT(30)
<1>3. CASE Signing!Fits(v, q)
  <2>1. /\ kEntry' = [kEntry EXCEPT ![v] = "none"] /\ kSigned' = kSigned \cup {q}
        /\ kReq' = [kReq EXCEPT ![q].at = "signed"]
    BY <1>3 DEF Signing!ValidateAndConsume, Signing!Answer, Signing!Spent
  <2>2. /\ kLease[v] = kReq[q].lease /\ kEntry[v] = "fixed" /\ kReq[q].hello = v
    BY <1>3 DEF Signing!Fits
  <2>3. Typed'
    BY <1>1, <2>1 DEF BindingInv, Typed
  <2>4. /\ kReq'[q].at = "signed" /\ kReq'[q].binding = v /\ kReq'[q].lease = kReq[q].lease
        /\ kReq'[q].hello = kReq[q].hello
        /\ \A p \in SignRequests : p # q => kReq'[p] = kReq[p]
    BY <2>1 DEF BindingInv, Typed
  <2>5. RequestsIssued'
    BY <1>1, <2>1, <2>4 DEF BindingInv, RequestsIssued
  <2>6. \A p \in kSigned : /\ p \in SignRequests /\ p # q /\ kReq'[p] = kReq[p]
                          /\ kReq[p].binding \in Visits
    BY <1>1, <2>4 DEF BindingInv, RequestsIssued
  <2>7. \A p \in kSigned : kEntry[kReq[p].binding] = "none" /\ kReq[p].binding # v
    BY <2>2 DEF BindingInv, Signing!SignedOnce
  <2>8. kEntry'[v] = "none" /\ \A u \in Visits : kEntry[u] = "none" => kEntry'[u] = "none"
    BY <1>1, <2>1 DEF BindingInv, Typed
  <2>9. Signing!SignedOnce'
    BY <1>1, <2>1, <2>2, <2>4, <2>6, <2>7, <2>8 DEF BindingInv, Signing!SignedOnce
  <2> QED BY <2>3, <2>5, <2>9 DEF BindingInv
<1> QED BY <1>2, <1>3

\* The steps of the visits preserve the invariant.
LEMMA VisitSteps ==
  ASSUME BindingInv,
         \/ \E v \in Visits :
              \/ \E l \in Signing!Leases, k \in {"visitor", "cache"} : Signing!Issue(v, l, k)
              \/ Signing!FixHelloOnWrite(v) \/ Signing!Discard(v) \/ Signing!Leave(v) \/ Signing!Expire(v)
         \/ Signing!SweepExpired
         \/ Signing!LeaseChanges
         \/ UNCHANGED Signing!vars
  PROVE  BindingInv'
<1>1. CASE \E v \in Visits, l \in Signing!Leases, k \in {"visitor", "cache"} :
       Signing!Issue(v, l, k)
  <2>1. PICK v \in Visits, l \in Signing!Leases, k \in {"visitor", "cache"} :
         Signing!Issue(v, l, k)
    BY <1>1
  <2>2. Typed' /\ UNCHANGED <<kReq, kSigned>>
    BY <2>1 DEF Signing!Issue, BindingInv, Typed
  <2>3. \A u \in Visits : kVisit[u] # "none" =>
          kVisit'[u] # "none" /\ kLease'[u] = kLease[u] /\ kEntry'[u] = kEntry[u]
    BY <2>1 DEF Signing!Issue, BindingInv, Typed
  <2> QED BY <2>2, <2>3, VisitStep, ZenonT(30)
<1>2. CASE \E v \in Visits :
       Signing!FixHelloOnWrite(v) \/ Signing!Discard(v) \/ Signing!Leave(v) \/ Signing!Expire(v)
  <2>1. PICK v \in Visits :
         Signing!FixHelloOnWrite(v) \/ Signing!Discard(v) \/ Signing!Leave(v) \/ Signing!Expire(v)
    BY <1>2
  <2>2. Typed' /\ UNCHANGED <<kReq, kSigned, kLease>>
    BY <2>1 DEF Signing!FixHelloOnWrite, Signing!Discard, Signing!Leave, Signing!Expire,
         BindingInv, Typed
  <2>3. \A u \in Visits : /\ kVisit[u] # "none" => kVisit'[u] # "none"
                          /\ kEntry[u] = "none" => kEntry'[u] = "none"
    BY <2>1 DEF Signing!FixHelloOnWrite, Signing!Discard, Signing!Leave, Signing!Expire,
         BindingInv, Typed
  <2> QED BY <2>2, <2>3, VisitStep, ZenonT(30)
<1>3. CASE Signing!SweepExpired
  <2>1. Typed' /\ UNCHANGED <<kReq, kSigned, kLease, kVisit>>
    BY <1>3 DEF Signing!SweepExpired, BindingInv, Typed
  <2>2. \A u \in Visits : kEntry[u] = "none" => kEntry'[u] = "none"
    BY <1>3 DEF Signing!SweepExpired
  <2> QED BY <2>1, <2>2, VisitStep, ZenonT(30)
<1>4. CASE UNCHANGED <<kVisit, kLease, kEntry, kReq, kSigned>>
  <2>1. Typed'
    BY <1>4 DEF BindingInv, Typed
  <2> QED BY <1>4, <2>1, VisitStep
<1> QED BY <1>1, <1>2, <1>3, <1>4 DEF Signing!LeaseChanges, Signing!vars

\* So do those of the requests: a request that is signed takes no further step.
LEMMA RequestSteps ==
  ASSUME BindingInv, NEW q \in SignRequests,
         \/ \E v, h \in Visits, l \in Signing!Leases : Signing!Send(q, v, l, h)
         \/ Signing!VerifySigningAccessTokenLease(q) \/ Signing!SignRefused(q) \/ Signing!ValidateAndConsume(q)
  PROVE  BindingInv'
<1>1. CASE \E v, h \in Visits, l \in Signing!Leases : Signing!Send(q, v, l, h)
  <2>1. PICK v \in Visits, h \in Visits, l \in Signing!Leases : Signing!Send(q, v, l, h)
    BY <1>1
  <2> DEFINE r == [at |-> "verify", binding |-> v, lease |-> l, hello |-> h]
  <2>2. /\ kReq' = [kReq EXCEPT ![q] = r] /\ UNCHANGED <<kVisit, kLease, kEntry, kSigned>>
        /\ q \notin kSigned /\ kVisit[r.binding] # "none" /\ r.binding \in Visits
    BY <2>1, ZenonT(30) DEF Signing!Send, BindingInv, RequestsIssued
  <2>3. r \in [at : {"none", "verify", "sign", "refused", "signed"},
            binding : Visits \cup {"none"}, lease : Signing!Leases \cup {0},
            hello : Visits \cup {"none"}]
    OBVIOUS
  <2> QED BY <2>2, <2>3, RequestStep, ZenonT(30)
<1>2. CASE Signing!VerifySigningAccessTokenLease(q) \/ Signing!SignRefused(q)
  <2>1. PICK at \in {"sign", "refused"} : kReq' = [kReq EXCEPT ![q].at = at]
    BY <1>2 DEF Signing!VerifySigningAccessTokenLease, Signing!SignRefused, Signing!Answer
  <2> DEFINE r == [kReq[q] EXCEPT !.at = at]
  <2>2. /\ kReq[q].at \in {"verify", "sign"} /\ UNCHANGED <<kVisit, kLease, kEntry, kSigned>>
    BY <1>2, ZenonT(30) DEF Signing!VerifySigningAccessTokenLease, Signing!SignRefused
  <2>3. q \notin kSigned /\ kReq[q].binding \in Visits /\ kVisit[kReq[q].binding] # "none"
    BY <2>2, ZenonT(30) DEF BindingInv, RequestsIssued
  <2>4. /\ r \in [at : {"none", "verify", "sign", "refused", "signed"},
            binding : Visits \cup {"none"}, lease : Signing!Leases \cup {0},
            hello : Visits \cup {"none"}]
        /\ r.binding = kReq[q].binding
    BY DEF BindingInv, Typed
  <2>5. kReq' = [kReq EXCEPT ![q] = r]
    BY <2>1
  <2> QED BY <2>2, <2>3, <2>4, <2>5, RequestStep, ZenonT(30)
<1> QED BY <1>1, <1>2, ConsumeStep

\* The invariant holds in every reachable state.
LEMMA BindingInvariant == Signing!Spec => []BindingInv
<1>1. BindingInv /\ [Signing!Next]_(Signing!vars) => BindingInv'
  BY VisitSteps, RequestSteps DEF Signing!Next
<1> QED BY <1>1, BindingInit, PTL DEF Signing!Spec

\* For any number of connections, requests and leases: HandleSign gives at most one
\* signature for a binding, and only to the lease the binding was issued for and for the
\* hello that was routed with it.
THEOREM BindingSignedOnce == Signing!Spec => []Signing!SignedOnce
<1>1. BindingInv => Signing!SignedOnce
  BY DEF BindingInv
<1> QED BY <1>1, BindingInvariant, PTL

\* No step signs for a binding that was discarded, swept or is past its lifetime, and none
\* brings such a binding back (ValidateAndConsume, Discard and FixHello).
THEOREM BindingSignedWhileOpen == Signing!Spec => [][Signing!SignedWhileOpen]_(Signing!vars)
<1>1. BindingInv /\ [Signing!Next]_(Signing!vars) => [Signing!SignedWhileOpen]_(Signing!vars)
  <2> SUFFICES ASSUME BindingInv, Signing!Next PROVE Signing!SignedWhileOpen
    BY DEF Signing!vars
  <2>1. kSigned' = kSigned
        \/ \A q \in kSigned' \ kSigned : kEntry[kReq[q].binding] = "fixed" /\ kReq[q].binding \notin kLate
    BY ZenonT(30) DEF Signing!Next, Signing!Issue, Signing!FixHelloOnWrite, Signing!Discard,
         Signing!Leave, Signing!Expire, Signing!SweepExpired, Signing!LeaseChanges,
         Signing!Send,
           Signing!VerifySigningAccessTokenLease, Signing!SignRefused,
           Signing!ValidateAndConsume, Signing!Fits
  <2>2. ASSUME NEW v \in Visits, kVisit[v] = "done", kEntry[v] = "none"
        PROVE kEntry'[v] = "none"
    BY <2>2, ZenonT(30) DEF Signing!Next, Signing!Issue, Signing!FixHelloOnWrite, Signing!Discard,
         Signing!Leave, Signing!Expire, Signing!SweepExpired, Signing!LeaseChanges,
           Signing!Send, Signing!VerifySigningAccessTokenLease, Signing!SignRefused,
           Signing!ValidateAndConsume, Signing!Spent,
           BindingInv, Typed
  <2> QED BY <2>1, <2>2, ZenonT(30) DEF Signing!SignedWhileOpen
<1> QED BY <1>1, BindingInvariant, PTL DEF Signing!Spec

=============================================================================
