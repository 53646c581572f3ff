----------------------------- MODULE StaticCache -----------------------------
(* The relay's cache of static sites: Manager of portal/cache/manager.go, Handle   *)
(* of http.go, Serve of serve.go, and HandleStaticCache of portal/api_server.go.   *)
(* Every service identity has one hostname; a site is one stored snapshot. Disk    *)
(* work happens outside the lock.                                                  *)
EXTENDS Naturals, FiniteSets, FiniteSetsExt

CONSTANTS
  Owners,       \* service identities, each with its hostname
  Requests,     \* PUT, POST and DELETE requests; a PUT stores at most one site
  Readers,      \* visitors
  Sizes,        \* sizes of uploaded snapshots
  MaxBytes,     \* cfg.MaxBytes
  MaxSnapshots, \* maxSnapshots
  MaxUploads,   \* upload slots
  MaxGeneration \* bound: registrations and revocations

VARIABLES
  granted,      \* registrations so far
  lease,        \* each owner's cache lease, 0 for none
  generation, genOf,  \* c.generation, and the lease's
  blocked,      \* identities that are not routable
  lapsed,       \* owners whose lease is past its ExpiresAt and still in the table
  entries,      \* the published site of each host
  retired,      \* sites to be removed
  removing,     \* sites somebody is removing from disk
  site,         \* each site: its owner, lease, size
  expired,      \* sites whose expiresAt is over
  readers,      \* the site each visitor reads
  used, snapshots, uploads,
  req           \* each request: its place, owner, captured lease and generation

vars == <<granted, lease, generation, genOf, blocked, lapsed, entries, retired, removing, site,
          expired, readers, used, snapshots, uploads, req>>

None == "none"
\* A site is named by the request that uploads it.
Sites == Requests
leaseVars == <<granted, lease, generation, genOf, blocked, lapsed>>
diskVars == <<used, snapshots>>
NoSite == [owner |-> None, lease |-> 0, bytes |-> 0]
NoRequest == [at |-> "none", owner |-> None, lease |-> 0, gen |-> 0, put |-> FALSE]
InUse(s) == \E r \in Readers : readers[r] = s

Init ==
  /\ granted = 0 /\ lease = [o \in Owners |-> 0] /\ generation = 0
  /\ genOf = [o \in Owners |-> 0] /\ blocked = {} /\ lapsed = {}
  /\ entries = [o \in Owners |-> None] /\ retired = {} /\ removing = {}
  /\ site = [s \in Sites |-> NoSite] /\ expired = {} /\ readers = [r \in Readers |-> None]
  /\ used = 0 /\ snapshots = 0 /\ uploads = {} /\ req = [q \in Requests |-> NoRequest]

-----------------------------------------------------------------------------
(* The registry's calls: Register, Renew, Detach and DetachOwner                   *)

\* retireLocked of the sites of a set that are published.
Retire(ss) ==
  /\ entries' = [o \in Owners |-> IF entries[o] \in ss THEN None ELSE entries[o]]
  /\ retired' = retired \cup {s \in ss \ {None} : \E o \in Owners : entries[o] = s}

Register(o) ==
  /\ generation < MaxGeneration /\ granted' = granted + 1
  /\ lease' = [lease EXCEPT ![o] = granted + 1]
  /\ generation' = generation + 1 /\ genOf' = [genOf EXCEPT ![o] = generation + 1]
  /\ lapsed' = lapsed \ {o} /\ Retire({entries[o]})
  /\ UNCHANGED <<blocked, removing, site, expired, readers, diskVars, uploads, req>>

\* Mutant: a renewal brings expired content back.
RenewRevives(o) == expired' = expired \ {entries[o]} /\ UNCHANGED <<entries, retired>>

RenewSite(o) ==
  /\ Retire({entries[o]} \cap expired)
  /\ UNCHANGED expired

Renew(o) ==
  /\ lease[o] # 0 /\ lapsed' = lapsed \ {o}
  /\ IF entries[o] # None /\ site[entries[o]].lease = lease[o]
     THEN RenewSite(o) ELSE UNCHANGED <<entries, retired, expired>>
  /\ UNCHANGED <<granted, lease, generation, genOf, blocked, removing, site, readers, diskVars,
                 uploads, req>>

\* The lease runs out; the registry's janitor detaches it later, if it is not renewed.
LeaseLapses(o) ==
  /\ lease[o] # 0 /\ o \notin lapsed /\ lapsed' = lapsed \cup {o}
  /\ UNCHANGED <<granted, lease, generation, genOf, blocked, entries, retired, removing, site,
                 expired, readers, diskVars, uploads, req>>

\* The lease is gone; what is published stays for its offline lifetime.
Detach(o) ==
  /\ lease[o] # 0 /\ lease' = [lease EXCEPT ![o] = 0] /\ lapsed' = lapsed \ {o}
  /\ Retire({s \in {entries[o]} \cap expired : site[s].lease = lease[o]})
  /\ UNCHANGED <<granted, generation, genOf, blocked, removing, site, expired, readers,
                 diskVars, uploads, req>>

\* Mutant: a revocation keeps the generation of the owner's lease.
OldGeneration(o) == UNCHANGED <<generation, genOf>>

NewGeneration(o) ==
  /\ generation' = generation + 1
  /\ genOf' = IF lease[o] # 0 THEN [genOf EXCEPT ![o] = generation + 1] ELSE genOf

\* applyIdentityAccessLocked, in the registry's critical section.
Block(o) ==
  /\ o \notin blocked /\ generation < MaxGeneration /\ blocked' = blocked \cup {o}
  /\ NewGeneration(o) /\ Retire({entries[o]})
  /\ UNCHANGED <<granted, lease, lapsed, removing, site, expired, readers, diskVars, uploads, req>>

Unblock(o) ==
  /\ o \in blocked /\ blocked' = blocked \ {o}
  /\ UNCHANGED <<granted, lease, generation, genOf, lapsed, entries, retired, removing, site,
                 expired, readers, diskVars, uploads, req>>

Expire(s) ==
  /\ s \notin expired /\ \E o \in Owners : entries[o] = s
  /\ expired' = expired \cup {s}
  /\ UNCHANGED <<leaseVars, entries, retired, removing, site, readers, diskVars, uploads, req>>

-----------------------------------------------------------------------------
(* collect: expired sites are retired, retired ones nobody reads are removed.      *)

\* Mutant: a retired site is removed while it is read.
UnpinnedAll == retired

Unpinned == {s \in retired : ~InUse(s)}

Collect ==
  /\ Unpinned # {} \/ \E o \in Owners : entries[o] \in expired
  /\ LET old == {s \in expired : \E o \in Owners : entries[o] = s}
         ready == Unpinned \cup {s \in old : ~InUse(s)} IN
     /\ entries' = [o \in Owners |-> IF entries[o] \in old THEN None ELSE entries[o]]
     /\ retired' = (retired \cup old) \ ready /\ removing' = removing \cup ready
  /\ UNCHANGED <<leaseVars, site, expired, readers, diskVars, uploads, req>>

\* os.RemoveAll: the bytes stay charged when it fails.
Remove(s) ==
  /\ s \in removing /\ removing' = removing \ {s}
  /\ \/ /\ used' = used - site[s].bytes /\ snapshots' = snapshots - 1 /\ UNCHANGED retired
     \/ retired' = retired \cup {s} /\ UNCHANGED diskVars
  /\ UNCHANGED <<leaseVars, entries, site, expired, readers, uploads, req>>

-----------------------------------------------------------------------------
(* Serve *)

Acquire(r, o) ==
  /\ readers[r] = None /\ entries[o] # None /\ entries[o] \notin expired
  /\ readers' = [readers EXCEPT ![r] = entries[o]]
  /\ UNCHANGED <<leaseVars, entries, retired, removing, site, expired, diskVars, uploads, req>>

\* A reader that failed discards the site, if it is still the published one.
Release(r) ==
  /\ readers[r] # None /\ readers' = [readers EXCEPT ![r] = None]
  /\ Retire({readers[r]}) \/ UNCHANGED <<entries, retired>>
  /\ UNCHANGED <<leaseVars, removing, site, expired, diskVars, uploads, req>>

-----------------------------------------------------------------------------
(* HandleStaticCache and Handle *)

At(q, place) == req' = [req EXCEPT ![q].at = place]

\* The token's lease is admitted, and its generation read before the access check.
Arrive(q, o, put) ==
  /\ req[q].at = "none" /\ lease[o] # 0 /\ o \notin lapsed
  /\ req' = [req EXCEPT ![q] = [at |-> "access", owner |-> o, lease |-> lease[o],
                                gen |-> genOf[o], put |-> put]]
  /\ UNCHANGED <<leaseVars, entries, retired, removing, site, expired, readers, diskVars, uploads>>

CheckAccess(q) ==
  /\ req[q].at = "access" /\ At(q, IF req[q].owner \in blocked THEN "done" ELSE "handle")
  /\ UNCHANGED <<leaseVars, entries, retired, removing, site, expired, readers, diskVars, uploads>>

\* The lease the request was admitted with is the owner's, and was not revoked since.
Current(q) == LET o == req[q].owner IN lease[o] = req[q].lease /\ genOf[o] = req[q].gen

Eligible(q) == Current(q) /\ req[q].owner \notin lapsed

\* A DELETE retires the lease's site; so does a POST with another digest. A PUT
\* takes the owner's upload slot.
Handle(q) ==
  /\ req[q].at = "handle"
  /\ LET o == req[q].owner IN
     \/ ~Eligible(q) /\ At(q, "done") /\ UNCHANGED <<entries, retired, uploads, site>>
     \/ /\ Eligible(q) /\ ~req[q].put /\ At(q, "done")
        /\ \/ Retire({s \in {entries[o]} \ {None} : site[s].lease = req[q].lease})
           \/ UNCHANGED <<entries, retired>>
        /\ UNCHANGED <<uploads, site>>
     \/ /\ Eligible(q) /\ req[q].put
        /\ \/ /\ o \notin uploads /\ Cardinality(uploads) < MaxUploads
              /\ uploads' = uploads \cup {o} /\ At(q, "reserve")
              /\ \E n \in Sizes :
                   site' = [site EXCEPT ![q] = [owner |-> o, lease |-> req[q].lease, bytes |-> n]]
           \/ /\ o \in uploads \/ Cardinality(uploads) >= MaxUploads
              /\ At(q, "done") /\ UNCHANGED <<uploads, site>>
        /\ UNCHANGED <<entries, retired>>
  /\ UNCHANGED <<leaseVars, removing, expired, readers, diskVars>>

\* Mutant: the check forgets what is used already.
RoomAlone(q) == site[q].bytes <= MaxBytes

Room(q) == site[q].bytes + used <= MaxBytes /\ snapshots < MaxSnapshots

\* reserve: room, or the least recently used site nobody reads is evicted.
Reserve(q) ==
  /\ req[q].at = "reserve"
  /\ LET idle == {s \in Sites : ~InUse(s) /\ \E o \in Owners : entries[o] = s} IN
     \/ /\ Room(q) /\ used' = used + site[q].bytes /\ snapshots' = snapshots + 1
        /\ At(q, "upload") /\ UNCHANGED <<entries, retired, uploads>>
     \/ /\ ~Room(q) /\ \E s \in idle : Retire({s})
        /\ UNCHANGED <<diskVars, uploads, req>>
     \/ /\ ~Room(q) /\ idle = {} /\ At(q, "done") /\ uploads' = uploads \ {req[q].owner}
        /\ UNCHANGED <<entries, retired, diskVars>>
  /\ UNCHANGED <<leaseVars, removing, site, expired, readers>>

RefuseManifest(q) ==
  /\ req[q].at = "reserve" /\ At(q, "done") /\ uploads' = uploads \ {req[q].owner}
  /\ UNCHANGED <<leaseVars, entries, retired, removing, site, expired, readers, diskVars>>

\* The parts arrive and fit their digests, or the upload fails; a site that is not
\* published goes to the retired ones.
Publish(q) ==
  /\ req[q].at = "upload" /\ At(q, "done") /\ uploads' = uploads \ {req[q].owner}
  /\ LET o == req[q].owner IN
     \/ /\ Eligible(q) /\ entries' = [entries EXCEPT ![o] = q]
        /\ retired' = retired \cup ({entries[o]} \ {None})
     \/ retired' = retired \cup {q} /\ UNCHANGED entries
  /\ UNCHANGED <<leaseVars, removing, site, expired, readers, diskVars>>

Next ==
  \/ \E o \in Owners : Register(o) \/ Renew(o) \/ Detach(o) \/ LeaseLapses(o) \/ Block(o)
                          \/ Unblock(o)
  \/ \E s \in Sites : Expire(s) \/ Remove(s)
  \/ Collect
  \/ \E r \in Readers : Release(r) \/ \E o \in Owners : Acquire(r, o)
  \/ \E q \in Requests :
       \/ \E o \in Owners, put \in BOOLEAN : Arrive(q, o, put)
       \/ CheckAccess(q) \/ Handle(q) \/ Reserve(q) \/ RefuseManifest(q) \/ Publish(q)

Spec == Init /\ [][Next]_vars

TypeOK ==
  /\ entries \in [Owners -> Sites \cup {None}] /\ retired \subseteq Sites /\ removing \subseteq Sites
  /\ readers \in [Readers -> Sites \cup {None}] /\ uploads \subseteq Owners
  /\ \A q \in Requests : req[q].at \in {"none", "access", "handle", "reserve", "upload", "done"}

OnDisk ==
  {s \in Sites : req[s].at = "upload" \/ s \in retired \cup removing \/ \E o \in Owners : entries[o] = s}

(* The charge is what lies on disk, published, retired, being uploaded or being    *)
(* removed, and it stays within the operator's limits.                             *)
ChargeExact ==
  /\ used = MapThenSumSet(LAMBDA s : site[s].bytes, OnDisk) /\ snapshots = Cardinality(OnDisk)
  /\ used <= MaxBytes /\ snapshots <= MaxSnapshots
  /\ retired \cap removing = {}

(* A visitor never reads a site whose files are being removed.                     *)
ReadersPinned == \A r \in Readers : readers[r] # None => readers[r] \in OnDisk \ removing

(* Nothing of a blocked identity is published, not even by an upload that was      *)
(* admitted before; content of a lease is published under that lease only.         *)
RevokedUnpublished ==
  \A o \in Owners :
    /\ o \in blocked => entries[o] = None
    /\ (entries[o] # None /\ lease[o] # 0) => site[entries[o]].lease = lease[o]

(* Content that has expired, or was withdrawn, is not brought back.                *)
NotRevived ==
  \A s \in Sites :
    /\ s \in expired => s \in expired'
    /\ s \in retired \cup removing => \A o \in Owners : entries'[o] # s
=============================================================================
