------------------------------- MODULE DnsSync -------------------------------
(* The maintenance loop of the ACME manager (portal/acme/maintenance.go) where it  *)
(* follows the public addresses of the relay: syncDNS for the base domain, the      *)
(* address records of the tracked ENS hosts, and the early retries while the        *)
(* embedded zone waits for its first address.  The loop is one goroutine; the       *)
(* public addresses change under it.  Address 0 is none.                            *)
EXTENDS Naturals, FiniteSets

CONSTANTS
  Hosts, Addresses,
  Family,          \* the address families, v4 and v6
  Backoffs,        \* the length of dnsRetryBackoffs
  MaxChanges       \* bound on changes of the public addresses

VARIABLES
  mode,            \* manual certificate with the embedded provider, or managed
  public, changes, \* the public addresses now
  phase,           \* what the loop is doing
  base,            \* the addresses of the base domain
  rec, tracked,    \* the address records of the hosts; the tracked file
  pendingENS,      \* the command of a host that has failed
  last,            \* lastPublicIPs
  pendingAddress,  \* pendingDNSAddress
  failures, delay, \* consecutiveDNSFailures; what retryTimer is armed with
  partly           \* history: families last written to some of the hosts only

vars == <<mode, public, changes, phase, base, rec, tracked, pendingENS, last, pendingAddress, failures, delay, partly>>

None == [f \in Family |-> 0]
Regular == Backoffs + 1

(* nextSyncDelay: the index of the early retry, or the regular interval              *)
NextSyncDelay(n) == IF n = 0 \/ n > Backoffs THEN Regular ELSE n

Init ==
  /\ mode \in {"managed", "manual"} /\ public \in [Family -> {0} \cup Addresses] /\ changes = 0
  /\ phase = "starting" /\ base = None /\ rec = [h \in Hosts |-> None] /\ tracked = {}
  /\ pendingENS = [h \in Hosts |-> "none"] /\ last = None /\ pendingAddress = FALSE /\ failures = 0 /\ delay = 0
  /\ partly = {}

PublicChanges ==
  /\ changes < MaxChanges /\ changes' = changes + 1
  /\ \E p \in [Family -> {0} \cup Addresses] : p # public /\ public' = p
  /\ UNCHANGED <<mode, phase, base, rec, tracked, pendingENS, last, pendingAddress, failures, delay, partly>>

-----------------------------------------------------------------------------
(* ResolvePublicIPs: what it finds, or an error.                                      *)
Resolved == {public, None}
Overlay(old, new) == [f \in Family |-> IF new[f] = 0 THEN old[f] ELSE new[f]]

(* syncDNS with the addresses found: the embedded zone takes them; a remote provider   *)
(* may fail.  With a manual certificate a failed discovery defers the address.         *)
SyncDNS(found, ok) ==
  IF found = None
  THEN /\ pendingAddress' = (pendingAddress \/ mode = "manual") /\ UNCHANGED base
  ELSE /\ mode = "manual" => ok
       /\ IF ok THEN base' = Overlay(base, found) /\ pendingAddress' = FALSE
          ELSE UNCHANGED <<base, pendingAddress>>

(* EnsureCertificate before Start: an error ends the relay, which is left out.         *)
Start ==
  /\ phase = "starting"
  /\ \E found \in Resolved : SyncDNS(found, TRUE) /\ (mode = "managed" => found # None)
  /\ phase' = "idle" /\ failures' = (IF pendingAddress' THEN 1 ELSE 0)
  /\ delay' = NextSyncDelay(failures')
  /\ UNCHANGED <<mode, public, changes, rec, tracked, pendingENS, last, partly>>

(* rearmRetryTimer with the new count.  Mutant: not re-armed while it is pending.      *)
RearmSynced(n) == IF pendingAddress' THEN delay ELSE NextSyncDelay(n)
Rearm(n) == NextSyncDelay(n)

SyncDNSAttempt(found, ok) ==
  /\ SyncDNS(found, ok)
  /\ failures' = (IF pendingAddress' THEN IF failures <= Backoffs THEN failures + 1 ELSE failures ELSE 0)
  /\ delay' = Rearm(failures')

(* syncChangedAddressRecords: each family that differs from the last one is written     *)
(* to every tracked host; it is remembered when all writes succeed.                     *)
SyncChanged(found) ==
  \E failed \in SUBSET (tracked \X Family) :
    LET changed == {f \in Family : found[f] # 0 /\ found[f] # last[f]}
    IN /\ failed \subseteq tracked \X changed
       /\ rec' = [h \in Hosts |->
                    [f \in Family |-> IF h \in tracked /\ f \in changed /\ <<h, f>> \notin failed
                                      THEN found[f] ELSE rec[h][f]]]
       /\ last' = [f \in Family |->
                     IF f \in changed /\ \A h \in tracked : <<h, f>> \notin failed THEN found[f] ELSE last[f]]
       /\ partly' = (partly \ changed) \cup {f \in changed : \E h \in tracked : <<h, f>> \in failed}

DnsTick ==
  /\ phase = "idle"
  /\ \E found \in Resolved, ok \in BOOLEAN : SyncDNSAttempt(found, ok) /\ SyncChanged(found)
  /\ UNCHANGED <<mode, public, changes, phase, tracked, pendingENS>>

(* syncRetryTick: a pending address is tried again; otherwise the addresses are          *)
(* resolved for the hosts only.  Then the commands that failed are tried again.          *)
RetryTick ==
  /\ phase = "idle"
  /\ \E found \in Resolved, ok \in BOOLEAN :
       /\ IF pendingAddress THEN SyncDNSAttempt(found, ok)
          ELSE UNCHANGED <<base, pendingAddress>> /\ failures' = 0 /\ delay' = Rearm(0)
       /\ SyncChanged(found)
  /\ phase' = "flush"
  /\ UNCHANGED <<mode, public, changes, tracked, pendingENS>>

Flushed ==
  /\ phase = "flush" /\ phase' = "idle"
  /\ UNCHANGED <<mode, public, changes, base, rec, tracked, pendingENS, last, pendingAddress, failures, delay, partly>>

(* applyENSCommand for a lease: the addresses of the host are written with what is       *)
(* resolved for this command; then its TXT record and the tracked file.  clear(last)     *)
(* after a success.  Mutant: what was remembered is kept.                                *)
KeepLast == last
Cleared == None

(* A command arrives, or a pending one is tried again by flushCommands.                    *)
Turn(h, c) == phase = "idle" \/ (phase = "flush" /\ pendingENS[h] = c)

Ensure(h) ==
  \E found \in Resolved, written \in SUBSET Family, ok \in BOOLEAN :
    /\ ok => found # None /\ written = Family
    /\ rec' = [rec EXCEPT ![h] = Overlay(@, [f \in Family |-> IF f \in written THEN found[f] ELSE 0])]
    /\ tracked' = (IF ok THEN tracked \cup {h} ELSE tracked)
    /\ pendingENS' = [pendingENS EXCEPT ![h] = IF ok THEN "none" ELSE "ensure"]
    /\ last' = (IF ok THEN Cleared ELSE last) /\ partly' = (IF ok THEN {} ELSE partly)

EnsureHost(h) ==
  /\ Turn(h, "ensure") /\ Ensure(h)
  /\ UNCHANGED <<mode, public, changes, phase, base, pendingAddress, failures, delay>>

(* A remove command deletes the records and the host from the file; it may fail           *)
(* before or after the address records are gone.                                          *)
RemoveHost(h) ==
  /\ Turn(h, "remove")
  /\ \E ok \in BOOLEAN, gone \in BOOLEAN :
       /\ ok => gone
       /\ rec' = (IF gone THEN [rec EXCEPT ![h] = None] ELSE rec)
       /\ tracked' = (IF ok THEN tracked \ {h} ELSE tracked)
       /\ pendingENS' = [pendingENS EXCEPT ![h] = IF ok THEN "none" ELSE "remove"]
  /\ UNCHANGED <<mode, public, changes, phase, base, last, pendingAddress, failures, delay, partly>>

Next ==
  \/ PublicChanges \/ Start \/ DnsTick \/ RetryTick \/ Flushed
  \/ \E h \in Hosts : EnsureHost(h) \/ RemoveHost(h)

Spec == Init /\ [][Next]_vars

TypeOK ==
  /\ public \in [Family -> {0} \cup Addresses] /\ rec \in [Hosts -> [Family -> {0} \cup Addresses]]
  /\ tracked \subseteq Hosts /\ pendingENS \in [Hosts -> {"none", "ensure", "remove"}] /\ last \in [Family -> {0} \cup Addresses]
  /\ failures \in 0 .. Backoffs + 1 /\ delay \in 0 .. Regular

(* An address that the loop takes for published is the one in the records of every       *)
(* tracked host, except for a host whose command failed and will be tried again, and      *)
(* for a family whose last update reached some of the hosts only: then an address that     *)
(* comes back before the next attempt is skipped, and those hosts keep the other one.      *)
RememberedIsPublished ==
  \A f \in Family \ partly : last[f] # 0 => \A h \in tracked : pendingENS[h] = "none" => rec[h][f] = last[f]

(* While the embedded zone waits for its address the early retries are armed, and an      *)
(* address is no longer awaited only when the zone has one.                               *)
PendingIsRetried ==
  /\ phase # "starting" =>
       /\ delay = NextSyncDelay(failures) /\ pendingAddress = (failures > 0)
  /\ mode = "manual" /\ phase # "starting" /\ ~pendingAddress => base # None

SyncSound == RememberedIsPublished /\ PendingIsRetried
=============================================================================
