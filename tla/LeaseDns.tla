------------------------------ MODULE LeaseDns ------------------------------
(* The DNS records of lease hostnames: the handlers that queue a command under     *)
(* the registry's read lock (portal/record.go syncLeaseDNS, deleteLeaseDNS), the   *)
(* queue (portal/acme/ens.go queueENSCommand), the one worker that applies the     *)
(* commands (maintenance.go maintenanceLoop, ens.go applyENSCommand), Stop, a      *)
(* crash, and the reconciliation of the next start. A lease is a number and stands  *)
(* for the address its TXT record names; lease 0 is none. The provider and the     *)
(* file of tracked hostnames may fail at every call.                              *)
EXTENDS Naturals, Sequences

CONSTANTS Hosts, MaxLeases, QueueCap, MaxStarts

VARIABLES
  current,   \* the registry's record of a hostname
  expired,   \* hosts whose record has expired
  hostOf,    \* the hostname of every lease registered so far
  sync,      \* where a lease's registration is with its sync command
  del,       \* where its removal is with its delete command
  reaped,    \* leases the janitor removed: their delete waits without a timeout
  queue,     \* ensCommands
  server,    \* up, closing (CloseAll done), stopping (Stop asks for commandMu), stopped
  loop,      \* where the maintenance loop is
  cmd,       \* the command it applies
  todo,      \* hosts flushCommands has still to apply
  pending,   \* pendingENS
  txt, addr, \* the provider's records of a hostname
  tracked,   \* the file of tracked hostnames
  dropped,   \* hosts whose last command was not queued
  orphaned,  \* hosts the worker left half-written when the process ended
  starts

vars == <<current, expired, hostOf, sync, del, reaped, queue, server, loop, cmd,
          todo, pending, txt, addr, tracked, dropped, orphaned, starts>>

registryVars == <<current, expired, hostOf>>
jobVars == <<sync, del, reaped>>
dnsVars == <<txt, addr, tracked>>
loopVars == <<loop, cmd, todo, pending>>

Leases == 1..MaxLeases
NoCommand == [host |-> "none", lease |-> 0]
Idle == "idle"

Init ==
  /\ current = [h \in Hosts |-> 0] /\ expired = {} /\ hostOf = <<>>
  /\ sync = [l \in Leases |-> "none"] /\ del = [l \in Leases |-> "none"] /\ reaped = {}
  /\ queue = <<>> /\ server = "up"
  /\ loop = Idle /\ cmd = NoCommand /\ todo = {} /\ pending = [h \in Hosts |-> NoCommand]
  /\ txt = [h \in Hosts |-> 0] /\ addr = [h \in Hosts |-> FALSE] /\ tracked = {}
  /\ dropped = {} /\ orphaned = {} /\ starts = 1

(* A handler that waits for room in the queue holds the registry's read lock and   *)
(* commandMu's; Stop waiting for commandMu keeps new readers out.                  *)
Waiting == {l \in Leases : "wait" \in {sync[l], del[l]}}
RegistryFree == Waiting = {}
CommandsOpen == server # "stopping"
Live(h) == current[h] # 0 /\ h \notin expired

-----------------------------------------------------------------------------
(* The registry                                                                    *)

Register(h) ==
  /\ RegistryFree /\ Len(hostOf) < MaxLeases /\ server \in {"up", "closing"}
  /\ LET l == Len(hostOf) + 1 IN
       /\ hostOf' = Append(hostOf, h)
       /\ current' = [current EXCEPT ![h] = l]
       /\ sync' = [sync EXCEPT ![l] = "due"]
  /\ expired' = expired \ {h}
  /\ UNCHANGED <<del, reaped, queue, server, loopVars, dnsVars, dropped, orphaned, starts>>

Expire(h) ==
  /\ Live(h) /\ expired' = expired \cup {h}
  /\ UNCHANGED <<current, hostOf, jobVars, queue, server, loopVars, dnsVars, dropped,
                 orphaned, starts>>

(* Unregister, and the janitor's cleanupExpired.                                  *)
Removed(h) ==
  /\ RegistryFree /\ current[h] # 0
  /\ current' = [current EXCEPT ![h] = 0] /\ expired' = expired \ {h}
  /\ del' = [del EXCEPT ![current[h]] = "due"]
  /\ UNCHANGED <<hostOf, sync, queue, server, loopVars, dnsVars, dropped, orphaned, starts>>

Unregister(h) == h \notin expired /\ Removed(h) /\ UNCHANGED reaped

CleanupExpired(h) ==
  /\ h \in expired /\ server = "up"
  /\ reaped' = reaped \cup {current[h]} /\ Removed(h)

(* Shutdown: CloseAll takes the whole table; the deletes are queued one by one. A  *)
(* registration under way may still enter its lease after it.                      *)
CloseAll ==
  /\ server = "up" /\ RegistryFree /\ server' = "closing"
  /\ del' = [l \in Leases |-> IF \E h \in Hosts : current[h] = l THEN "due" ELSE del[l]]
  /\ current' = [h \in Hosts |-> 0] /\ expired' = {}
  /\ UNCHANGED <<hostOf, sync, reaped, queue, loopVars, dnsVars, dropped, orphaned, starts>>

-----------------------------------------------------------------------------
(* queueENSCommand, under both read locks                                         *)

Command(l, kind) ==
  [host |-> hostOf[l], lease |-> IF kind = "sync" THEN l ELSE 0]

Send(l, kind) ==
  /\ Len(queue) < QueueCap
  /\ queue' = Append(queue, Command(l, kind))
  /\ dropped' = dropped \ {hostOf[l]}

(* syncLeaseDNS: only while the lease is the live record of its hostname.          *)
SyncAlways(l) == TRUE                       \* Mutant: queued for a stale lease
SyncCurrent(l) == current[hostOf[l]] = l /\ hostOf[l] \notin expired

SyncStart(l) ==
  /\ sync[l] = "due" /\ CommandsOpen
  /\ \/ /\ ~SyncCurrent(l)
        /\ sync' = [sync EXCEPT ![l] = "done"] /\ UNCHANGED <<queue, dropped>>
     \/ /\ SyncCurrent(l) /\ server = "stopped"
        /\ sync' = [sync EXCEPT ![l] = "failed"] /\ UNCHANGED <<queue, dropped>>
     \/ /\ SyncCurrent(l) /\ server # "stopped" /\ Send(l, "sync")
        /\ sync' = [sync EXCEPT ![l] = "done"]
     \/ /\ SyncCurrent(l) /\ server # "stopped" /\ Len(queue) = QueueCap
        /\ sync' = [sync EXCEPT ![l] = "wait"] /\ UNCHANGED <<queue, dropped>>
  /\ UNCHANGED <<registryVars, del, reaped, server, loopVars, dnsVars, orphaned, starts>>

SyncSend(l) ==
  /\ sync[l] = "wait" /\ Send(l, "sync") /\ sync' = [sync EXCEPT ![l] = "done"]
  /\ UNCHANGED <<registryVars, del, reaped, server, loopVars, dnsVars, orphaned, starts>>

SyncTimesOut(l) ==
  /\ sync[l] = "wait" /\ sync' = [sync EXCEPT ![l] = "failed"]
  /\ UNCHANGED <<registryVars, del, reaped, queue, server, loopVars, dnsVars, dropped,
                 orphaned, starts>>

(* HandleRegister undoes the registration whose sync was not queued: Unregister,   *)
(* or closeRecord when the lease is no longer in the table; then deleteLeaseDNS.    *)
UndoRegister(l) ==
  /\ sync[l] = "failed" /\ RegistryFree
  /\ sync' = [sync EXCEPT ![l] = "done"]
  /\ del' = [del EXCEPT ![l] = "due"]
  /\ current' = [current EXCEPT ![hostOf[l]] = IF @ = l THEN 0 ELSE @]
  /\ expired' = IF current[hostOf[l]] = l THEN expired \ {hostOf[l]} ELSE expired
  /\ UNCHANGED <<hostOf, reaped, queue, server, loopVars, dnsVars, dropped, orphaned, starts>>

(* deleteLeaseDNS: not while a live lease owns the hostname.                       *)
OwnedNever(h) == FALSE                      \* Mutant: the current owner not looked up
Owned(h) == Live(h)

DeleteStart(l) ==
  /\ del[l] = "due" /\ CommandsOpen
  /\ LET h == hostOf[l] IN
       \/ /\ Owned(h)
          /\ del' = [del EXCEPT ![l] = "done"] /\ UNCHANGED <<queue, dropped>>
       \/ /\ ~Owned(h) /\ server = "stopped"
          /\ del' = [del EXCEPT ![l] = "done"]
          /\ dropped' = dropped \cup {h} /\ UNCHANGED queue
       \/ /\ ~Owned(h) /\ server # "stopped" /\ Send(l, "delete")
          /\ del' = [del EXCEPT ![l] = "done"]
       \/ /\ ~Owned(h) /\ server # "stopped" /\ Len(queue) = QueueCap
          /\ del' = [del EXCEPT ![l] = "wait"] /\ UNCHANGED <<queue, dropped>>
  /\ UNCHANGED <<registryVars, sync, reaped, server, loopVars, dnsVars, orphaned, starts>>

DeleteSend(l) ==
  /\ del[l] = "wait" /\ Send(l, "delete") /\ del' = [del EXCEPT ![l] = "done"]
  /\ UNCHANGED <<registryVars, sync, reaped, server, loopVars, dnsVars, orphaned, starts>>

(* The janitor's context ends only with the server.                               *)
DeleteTimesOut(l) ==
  /\ del[l] = "wait" /\ (l \in reaped => server # "up")
  /\ del' = [del EXCEPT ![l] = "done"] /\ dropped' = dropped \cup {hostOf[l]}
  /\ UNCHANGED <<registryVars, sync, reaped, queue, server, loopVars, dnsVars, orphaned,
                 starts>>

-----------------------------------------------------------------------------
(* applyENSCommand, call by call; a failed call leaves the command pending.        *)

FirstCall(c) == IF c.lease = 0 THEN "delete txt" ELSE "ensure address"

Applied(c, s) ==
  CASE s = "ensure address" -> /\ addr' = [addr EXCEPT ![c.host] = TRUE]
                               /\ UNCHANGED <<txt, tracked>>
    [] s = "replace txt"    -> /\ txt' = [txt EXCEPT ![c.host] = 0]
                               /\ UNCHANGED <<addr, tracked>>
    [] s = "ensure txt"     -> /\ txt' = [txt EXCEPT ![c.host] = c.lease]
                               /\ UNCHANGED <<addr, tracked>>
    [] s = "track"          -> /\ tracked' = tracked \cup {c.host}
                               /\ UNCHANGED <<txt, addr>>
    [] s = "delete txt"     -> /\ txt' = [txt EXCEPT ![c.host] = 0]
                               /\ UNCHANGED <<addr, tracked>>
    [] s = "delete address" -> /\ addr' = [addr EXCEPT ![c.host] = FALSE]
                               /\ UNCHANGED <<txt, tracked>>
    [] s = "untrack"        -> /\ tracked' = tracked \ {c.host}
                               /\ UNCHANGED <<txt, addr>>

NextCall ==
  [s \in {"ensure address", "replace txt", "ensure txt", "delete txt", "delete address"} |->
     CASE s = "ensure address" -> "replace txt" [] s = "replace txt" -> "ensure txt"
       [] s = "ensure txt" -> "track" [] s = "delete txt" -> "delete address"
       [] OTHER -> "untrack"]

(* The command that was applied replaces an older one pending for its hostname.    *)
(* Mutant: one that was received on its own leaves the older one to be retried.    *)
PendingKept(c) == IF loop = "direct" THEN pending ELSE [pending EXCEPT ![c.host] = NoCommand]
PendingDone(c) == [pending EXCEPT ![c.host] = NoCommand]

(* Where the loop goes when a command is done: a command received on its own, one  *)
(* of a retry's flush, one of Stop's.                                              *)
Then(l) == IF l = "direct" THEN Idle ELSE l

CallSucceeds ==
  /\ loop \in {"direct", "flush", "stop flush"} /\ cmd # NoCommand
  /\ Applied([host |-> cmd.host, lease |-> cmd.lease], cmd.call)
  /\ IF cmd.call \in DOMAIN NextCall
       THEN cmd' = [cmd EXCEPT !.call = NextCall[cmd.call]] /\ UNCHANGED <<loop, pending>>
       ELSE /\ cmd' = NoCommand /\ loop' = Then(loop)
            /\ pending' = PendingDone(cmd)
  /\ UNCHANGED <<registryVars, jobVars, queue, server, todo, dropped, orphaned, starts>>

CallFails ==
  /\ loop \in {"direct", "flush", "stop flush"} /\ cmd # NoCommand
  /\ cmd' = NoCommand /\ loop' = Then(loop)
  /\ pending' = [pending EXCEPT ![cmd.host] = [host |-> cmd.host, lease |-> cmd.lease]]
  /\ UNCHANGED <<registryVars, jobVars, queue, server, todo, dnsVars, dropped, orphaned,
                 starts>>

-----------------------------------------------------------------------------
(* maintenanceLoop                                                                *)

Start(c) == [host |-> c.host, lease |-> c.lease, call |-> FirstCall(c)]

Receive ==
  /\ loop = Idle /\ queue # <<>>
  /\ loop' = "direct" /\ cmd' = Start(Head(queue)) /\ queue' = Tail(queue)
  /\ UNCHANGED <<registryVars, jobVars, server, todo, pending, dnsVars, dropped, orphaned,
                 starts>>

(* syncRetryTick reads pendingDNSAddress under commandMu, then flushes.            *)
RetryTick ==
  /\ loop = Idle /\ CommandsOpen /\ server # "stopped" /\ loop' = "drain"
  /\ UNCHANGED <<registryVars, jobVars, queue, server, cmd, todo, pending, dnsVars, dropped,
                 orphaned, starts>>

StopTick ==
  /\ loop = Idle /\ server = "stopped" /\ loop' = "stop drain"
  /\ UNCHANGED <<registryVars, jobVars, queue, server, cmd, todo, pending, dnsVars, dropped,
                 orphaned, starts>>

Drain ==
  /\ loop \in {"drain", "stop drain"}
  /\ IF queue # <<>>
       THEN /\ pending' = [pending EXCEPT ![Head(queue).host] = Head(queue)]
            /\ queue' = Tail(queue) /\ UNCHANGED <<loop, todo>>
       ELSE /\ loop' = (IF loop = "drain" THEN "flush" ELSE "stop flush")
            /\ todo' = {h \in Hosts : pending[h] # NoCommand}
            /\ UNCHANGED <<pending, queue>>
  /\ UNCHANGED <<registryVars, jobVars, server, cmd, dnsVars, dropped, orphaned, starts>>

FlushNext ==
  /\ loop \in {"flush", "stop flush"} /\ cmd = NoCommand
  /\ \/ \E h \in todo : /\ cmd' = Start(pending[h]) /\ todo' = todo \ {h}
                        /\ UNCHANGED loop
     \/ /\ todo = {} /\ loop' = (IF loop = "flush" THEN Idle ELSE "ended")
        /\ UNCHANGED <<cmd, todo>>
  /\ UNCHANGED <<registryVars, jobVars, queue, server, pending, dnsVars, dropped, orphaned,
                 starts>>

-----------------------------------------------------------------------------
(* Stop, a crash, the next start                                                  *)

Stop ==
  /\ server = "closing" /\ server' = "stopping"
  /\ UNCHANGED <<registryVars, jobVars, queue, loopVars, dnsVars, dropped, orphaned, starts>>

StopLocked ==
  /\ server = "stopping" /\ Waiting = {} /\ server' = "stopped"
  /\ UNCHANGED <<registryVars, jobVars, queue, loopVars, dnsVars, dropped, orphaned, starts>>

Recorded(h) == txt[h] # 0 \/ addr[h]

(* The process ends, on its own or not: what was not tracked yet is orphaned.      *)
ProcessEnds ==
  /\ starts < MaxStarts /\ loop # "reconcile" /\ loop' = "reconcile" /\ starts' = starts + 1
  /\ orphaned' = orphaned \cup {h \in Hosts \ tracked : Recorded(h)}
  /\ current' = [h \in Hosts |-> 0] /\ expired' = {}
  /\ sync' = [l \in Leases |-> "none"] /\ del' = [l \in Leases |-> "none"] /\ reaped' = {}
  /\ queue' = <<>> /\ server' = "up" /\ cmd' = NoCommand
  /\ todo' = tracked /\ pending' = [h \in Hosts |-> NoCommand] /\ dropped' = {}
  /\ UNCHANGED <<hostOf, dnsVars>>

(* reconcileTrackedENSGaslessHostnames: a hostname whose deletion failed stays in  *)
(* the file, and the file may not be written. After any failure EnsureCertificate  *)
(* returns the error and this start does not serve: the next one begins again.     *)
Reconcile ==
  /\ loop = "reconcile"
  /\ \E gone, half \in SUBSET tracked, written \in BOOLEAN :
       /\ gone \cap half = {}
       /\ txt' = [h \in Hosts |-> IF h \in gone \cup half THEN 0 ELSE txt[h]]
       /\ addr' = [h \in Hosts |-> h \notin gone /\ addr[h]]
       /\ tracked' = IF written THEN tracked \ gone ELSE tracked
       /\ loop' = IF written /\ gone = tracked THEN Idle ELSE "reconcile"
  /\ todo' = {}
  /\ UNCHANGED <<registryVars, jobVars, queue, server, cmd, pending, dropped, orphaned, starts>>

-----------------------------------------------------------------------------
HandlerStep(l) ==
  \/ SyncStart(l) \/ SyncSend(l) \/ SyncTimesOut(l) \/ UndoRegister(l)
  \/ DeleteStart(l) \/ DeleteSend(l) \/ DeleteTimesOut(l)

LoopStep ==
  CallSucceeds \/ CallFails \/ Receive \/ RetryTick \/ StopTick \/ Drain \/ FlushNext

Next ==
  IF loop = "reconcile" THEN Reconcile
  ELSE \/ \E h \in Hosts : Register(h) \/ Expire(h) \/ Unregister(h) \/ CleanupExpired(h)
       \/ \E l \in 1..Len(hostOf) : HandlerStep(l)
       \/ LoopStep \/ CloseAll \/ Stop \/ StopLocked \/ ProcessEnds

Spec == Init /\ [][Next]_vars

(* A wait for room in the queue ends with room or with its context.                *)
SyncMoves(l) == l \in DOMAIN hostOf /\ (SyncTimesOut(l) \/ SyncSend(l))
DeleteMoves(l) == l \in DOMAIN hostOf /\ (DeleteTimesOut(l) \/ DeleteSend(l))

-----------------------------------------------------------------------------
TypeOK ==
  /\ current \in [Hosts -> 0..MaxLeases] /\ expired \subseteq Hosts
  /\ hostOf \in Seq(Hosts) /\ Len(hostOf) <= MaxLeases
  /\ sync \in [Leases -> {"none", "due", "wait", "failed", "done"}]
  /\ del \in [Leases -> {"none", "due", "wait", "done"}] /\ reaped \subseteq Leases
  /\ Len(queue) <= QueueCap /\ server \in {"up", "closing", "stopping", "stopped"}
  /\ loop \in {Idle, "direct", "drain", "flush", "stop drain", "stop flush", "ended",
               "reconcile"}
  /\ todo \subseteq Hosts /\ tracked \subseteq Hosts
  /\ txt \in [Hosts -> 0..MaxLeases] /\ addr \in [Hosts -> BOOLEAN]
  /\ dropped \subseteq Hosts /\ orphaned \subseteq Hosts

Settled ==
  /\ queue = <<>> /\ loop \in {Idle, "ended"}
  /\ \A h \in Hosts : pending[h] = NoCommand
  /\ \A l \in Leases : sync[l] \notin {"due", "wait", "failed"} /\ del[l] \notin {"due", "wait"}

(* Once every command is applied, a hostname names its live lease and nobody when  *)
(* there is none, whatever the order in which registrations, removals, expiries     *)
(* and retries queued their commands (record.go:233 "A concurrent unregister/expiry *)
(* must either happen after this enqueue or make this stale sync a no-op").         *)
RecordsFollowLease ==
  Settled => \A h \in Hosts \ (expired \cup dropped \cup orphaned) :
               /\ txt[h] = current[h] /\ (addr[h] <=> current[h] # 0)

(* A hostname with a record left in the zone is in the tracked file, which the next *)
(* start clears, or has a command under way or pending: a lease entered while       *)
(* Shutdown runs leaves no record behind that no start removes (ens.go             *)
(* applyENSCommand, updateTrackedENSGaslessHostnames). A process that ends between  *)
(* the provider's call and the file is the exception the history variable names.    *)
LeftoversTracked ==
  \A h \in Hosts : Recorded(h) =>
    \/ h \in tracked \/ h \in orphaned \/ pending[h] # NoCommand
    \/ (cmd # NoCommand /\ cmd.host = h)

(* Stop asks for commandMu; the worker has ended, or the process has.              *)
StopAsked == server = "stopping"
StopEnded == loop \in {"ended", "reconcile"}
=============================================================================
