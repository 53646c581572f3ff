---------------------------- MODULE SdkExposure ----------------------------
(* The exposure of the SDK (sdk/expose.go): it owns one listener per desired    *)
(* relay.  Callers change the desired set and then reconcile, one at a time     *)
(* (reconcileMu); every installed listener has an accept loop and a status      *)
(* worker; Close races all of them.  e.mu guards the maps, so every critical    *)
(* section is one action.  A listener is reduced to what it does to its         *)
(* exposure: it reports statuses, delivers connections and closes (SdkListener  *)
(* is its inside).  Either discovery sets the whole desired set, or the         *)
(* application adds and removes relays.                                         *)
EXTENDS Naturals, FiniteSets

CONSTANTS
  Relays,         \* relay URLs
  Listeners,      \* bound: the listeners newListener may create
  Conns,          \* connections the relays deliver
  MaxOps,         \* bound: calls that change the desired set or the metadata
  MaxAccepted     \* capacity of e.accepted

VARIABLES
  discovery,      \* e.discovery # nil
  relayURLs, blocked, statuses,
  owner,          \* e.relayListeners, "none" where there is none
  metadata,
  done,           \* e.done is closed
  ops, waiting,   \* calls made; calls waiting for reconcileMu
  rec,            \* the reconciliation that holds reconcileMu
  L,              \* the listeners
  conn,           \* where every connection is
  closer, closing,\* where Close is, and the listeners it took
  waiter, woken,  \* waitReady, and whether the channel it waits on was closed
  tomb            \* history: relays whose deselection was published last

vars == <<discovery, relayURLs, blocked, statuses, owner, metadata, done, ops,
          waiting, rec, L, conn, closer, closing, waiter, woken, tomb>>

desiredVars == <<relayURLs, blocked>>
listenerVars == <<L, owner>>
closeVars == <<closer, closing>>
waitVars == <<waiter, woken>>
callVars == <<discovery, metadata, ops, waiting>>

States == {"none", "connecting", "ready", "failed"}
Reports == {"connecting", "ready", "failed", "mitm"}
NoRec == [pc |-> "idle", urls |-> {}, todo |-> {}, desired |-> {}, stale |-> {},
          missing |-> {}, gone |-> {}, at |-> CHOOSE r \in Relays : TRUE, new |-> "none"]
NoListener == [relay |-> CHOOSE r \in Relays : TRUE, live |-> "none", ending |-> "no",
               worker |-> "none", loop |-> "none", metadata |-> 0]

Fresh == {l \in Listeners : L[l].live = "none"}
Owned == {owner[r] : r \in Relays} \ {"none"}
Queued == {c \in Conns : conn[c] = "queued"}
Held(l) == {c \in Conns : conn[c] = l}

(* notifyStateChangedLocked: the channel is closed, whoever waits on it wakes.  *)
(* Mutant: the channel is replaced and the old one never closed.                *)
Silent(changed) == woken' = woken
Notify(changed) == woken' = (woken \/ (changed /\ waiter = "wait"))

Init ==
  /\ discovery \in BOOLEAN
  /\ relayURLs = Relays /\ blocked = {} /\ statuses = [r \in Relays |-> "none"]
  /\ owner = [r \in Relays |-> "none"] /\ metadata = 0 /\ done = FALSE
  /\ ops = 0 /\ waiting = 1 /\ rec = NoRec /\ L = [l \in Listeners |-> NoListener]
  /\ conn = [c \in Conns |-> "new"] /\ closer = "open" /\ closing = {}
  /\ waiter = "idle" /\ woken = FALSE /\ tomb = {}

\* ------------------------------------------------------------------------
\* The calls.  A call that finds the exposure closed returns net.ErrClosed.

Call == ~done /\ ops < MaxOps /\ ops' = ops + 1

(* applyRelays of the discovery loop, which makes one call at a time: setRelays  *)
(* forgets the block of every relay that is no longer desired.                   *)
ApplyRelays(urls) ==
  /\ discovery /\ waiting = 0 /\ rec.pc = "idle" /\ Call
  /\ relayURLs' = urls /\ blocked' = blocked \cap urls /\ waiting' = 1
  /\ UNCHANGED <<discovery, metadata, statuses, done, rec, listenerVars, conn,
                 closeVars, waitVars, tomb>>

AddRelay(r) ==
  /\ ~discovery /\ Call
  /\ relayURLs' = relayURLs \cup {r} /\ waiting' = waiting + 1
  /\ UNCHANGED <<discovery, metadata, blocked, statuses, done, rec, listenerVars,
                 conn, closeVars, waitVars, tomb>>

RemoveRelay(r) ==
  /\ ~discovery /\ Call
  /\ relayURLs' = relayURLs \ {r} /\ blocked' = blocked \ {r} /\ waiting' = waiting + 1
  /\ UNCHANGED <<discovery, metadata, statuses, done, rec, listenerVars, conn,
                 closeVars, waitVars, tomb>>

(* UpdateMetadata holds reconcileMu, so no listener is being created meanwhile.  *)
(* Mutant: it only takes e.mu.                                                   *)
AnyTime == TRUE
NoReconcile == rec.pc = "idle"
UpdateMetadata ==
  /\ NoReconcile /\ Call
  /\ metadata' = metadata + 1
  /\ L' = [l \in Listeners |->
             IF l \in Owned THEN [L[l] EXCEPT !.metadata = metadata + 1] ELSE L[l]]
  /\ UNCHANGED <<discovery, waiting, desiredVars, statuses, owner, done, rec, conn,
                 closeVars, waitVars, tomb>>

\* ------------------------------------------------------------------------
\* reconcileRelayListeners, under reconcileMu.

ReconcileStart ==
  /\ rec.pc = "idle" /\ waiting > 0
  /\ waiting' = waiting - 1
  /\ rec' = [NoRec EXCEPT !.pc = "filter", !.urls = relayURLs, !.todo = relayURLs]
  /\ UNCHANGED <<discovery, metadata, ops, desiredVars, statuses, done, listenerVars,
                 conn, closeVars, waitVars, tomb>>

Wanted(r) == r \notin blocked

(* The blocks are read one relay at a time, each under its own read lock.        *)
ReconcileFilter(r) ==
  /\ rec.pc = "filter" /\ r \in rec.todo
  /\ rec' = [rec EXCEPT !.todo = @ \ {r},
                        !.desired = IF Wanted(r) THEN @ \cup {r} ELSE @]
  /\ UNCHANGED <<callVars, desiredVars, statuses, done, listenerVars, conn, closeVars,
                 waitVars, tomb>>

(* Stale listeners lose their slot first: from here on their reports are dropped. *)
ReconcileDetach ==
  /\ rec.pc = "filter" /\ rec.todo = {}
  /\ LET stale == {r \in Relays : owner[r] # "none" /\ r \notin rec.desired}
     IN /\ owner' = [r \in Relays |-> IF r \in stale THEN "none" ELSE owner[r]]
        /\ rec' = [rec EXCEPT !.pc = "sync", !.stale = {owner[r] : r \in stale},
                              !.missing = {r \in rec.desired : owner[r] = "none"}]
        /\ Notify(stale # {})
  /\ UNCHANGED <<callVars, desiredVars, statuses, done, L, conn, closeVars, waiter, tomb>>

(* syncRelayStatuses: the statuses become those of the desired set.               *)
ReconcileSync ==
  /\ rec.pc = "sync"
  /\ LET added == {r \in rec.urls : statuses[r] = "none"}
         gone == {r \in Relays \ rec.urls : statuses[r] # "none"}
     IN /\ statuses' = [r \in Relays |-> IF r \in added THEN "connecting"
                                         ELSE IF r \in gone THEN "none" ELSE statuses[r]]
        /\ rec' = [rec EXCEPT !.pc = "close", !.gone = gone]
        /\ Notify(added \cup gone # {})
        /\ tomb' = tomb \ rec.urls
  /\ UNCHANGED <<callVars, desiredVars, done, listenerVars, conn, closeVars, waiter>>

ReconcileClose(l) ==
  /\ rec.pc = "close" /\ l \in rec.stale
  /\ L' = [L EXCEPT ![l].live = "dead"]
  /\ rec' = [rec EXCEPT !.stale = @ \ {l}]
  /\ UNCHANGED <<callVars, desiredVars, statuses, owner, done, conn, closeVars, waitVars,
                 tomb>>

(* reportDeselectedRelays: the notification is out once the listeners are gone.   *)
ReconcileReport ==
  /\ rec.pc = "close" /\ rec.stale = {}
  /\ tomb' = tomb \cup rec.gone
  /\ rec' = [rec EXCEPT !.pc = "create", !.gone = {}]
  /\ UNCHANGED <<callVars, desiredVars, statuses, done, listenerVars, conn, closeVars,
                 waitVars>>

(* applyRelayStatus, the part under e.mu; a MITM report also blocks the relay.    *)
Apply(r, report) ==
  LET s == IF report = "mitm" THEN "failed" ELSE report
  IN /\ statuses' = [statuses EXCEPT ![r] = s]
     /\ blocked' = IF report = "mitm" THEN blocked \cup {r} ELSE blocked
     /\ Notify(statuses[r] # s \/ report = "mitm")

(* closed() is read before e.mu is taken, so a status may still be applied right  *)
(* after Close began.                                                             *)
SetRelayStatus(r, report) ==
  \/ Apply(r, report)
  \/ done /\ UNCHANGED <<statuses, blocked, woken>>

ReconcileConnecting(r) ==
  /\ rec.pc = "create" /\ r \in rec.missing
  /\ SetRelayStatus(r, "connecting")
  /\ rec' = [rec EXCEPT !.pc = "new", !.missing = @ \ {r}, !.at = r]
  /\ UNCHANGED <<callVars, relayURLs, done, listenerVars, conn, closeVars, waiter, tomb>>

(* newListener starts a listener, which runs before it is installed.              *)
ReconcileNew ==
  /\ rec.pc = "new" /\ Fresh # {}
  /\ LET l == CHOOSE x \in Fresh : TRUE
     IN /\ L' = [L EXCEPT ![l] = [NoListener EXCEPT !.relay = rec.at, !.live = "live",
                                                    !.metadata = metadata]]
        /\ rec' = [rec EXCEPT !.pc = "publish", !.new = l]
  /\ UNCHANGED <<callVars, desiredVars, statuses, owner, done, conn, closeVars, waitVars,
                 tomb>>

(* newListener fails: with failOnError (any call but RemoveRelay) the             *)
(* reconciliation ends here.                                                      *)
ReconcileNewFails ==
  /\ rec.pc = "new"
  /\ SetRelayStatus(rec.at, "failed")
  /\ rec' \in {NoRec, [rec EXCEPT !.pc = "create"]}
  /\ UNCHANGED <<callVars, relayURLs, done, listenerVars, conn, closeVars, waiter, tomb>>

(* Mutant: the exposure may have been closed while the listener was created.      *)
Installs == rec.at \notin blocked /\ owner[rec.at] = "none"
MayInstall == rec.at \notin blocked /\ owner[rec.at] = "none" /\ ~done

(* publishCreatedListener: what may have changed meanwhile is checked again under *)
(* e.mu, together with the count of accept loops Close waits for.  A listener     *)
(* that is not installed is closed after e.mu was released, and only then is the  *)
(* block that was seen recorded again: a RemoveRelay may have come in between.    *)
ReconcilePublish ==
  /\ rec.pc = "publish"
  /\ IF MayInstall
     THEN /\ owner' = [owner EXCEPT ![rec.at] = rec.new]
          /\ L' = [L EXCEPT ![rec.new].worker = "idle", ![rec.new].loop = "run"]
          /\ rec' = [rec EXCEPT !.pc = "create", !.new = "none"]
     ELSE /\ rec' = [rec EXCEPT !.pc = IF rec.at \in blocked THEN "discard mitm" ELSE "discard"]
          /\ UNCHANGED listenerVars
  /\ UNCHANGED <<callVars, desiredVars, statuses, done, conn, closeVars, waitVars, tomb>>

ReconcileDiscard ==
  /\ rec.pc \in {"discard", "discard mitm"}
  /\ L' = [L EXCEPT ![rec.new].live = "dead"]
  /\ rec' = [rec EXCEPT !.pc = IF rec.pc = "discard" THEN "create" ELSE "mitm", !.new = "none"]
  /\ UNCHANGED <<callVars, desiredVars, statuses, owner, done, conn, closeVars, waitVars, tomb>>

ReconcileBlocked ==
  /\ rec.pc = "mitm"
  /\ SetRelayStatus(rec.at, "mitm")
  /\ rec' = [rec EXCEPT !.pc = "create"]
  /\ UNCHANGED <<callVars, relayURLs, done, listenerVars, conn, closeVars, waiter, tomb>>

ReconcileEnds ==
  /\ rec.pc = "create" /\ rec.missing = {}
  /\ rec' = NoRec
  /\ UNCHANGED <<callVars, desiredVars, statuses, done, listenerVars, conn, closeVars,
                 waitVars, tomb>>

\* ------------------------------------------------------------------------
\* A listener, its status worker and its accept loop (runListenerAcceptLoop).

(* report hands a status to the worker and does not wait until it is applied.     *)
(* After a failure the listener closes itself.                                    *)
ListenerReports(l, report) ==
  /\ L[l].live = "live" /\ L[l].worker = "idle" /\ L[l].ending = "no"
  /\ L' = [L EXCEPT ![l].worker = IF done THEN "idle" ELSE report,
                    ![l].ending = IF report \in {"failed", "mitm"} THEN report ELSE "no"]
  /\ UNCHANGED <<callVars, desiredVars, statuses, owner, done, rec, conn, closeVars,
                 waitVars, tomb>>

ListenerCloses(l) ==
  /\ L[l].live = "live" /\ L[l].ending # "no"
  /\ L' = [L EXCEPT ![l].live = "dead"]
  /\ UNCHANGED <<callVars, desiredVars, statuses, owner, done, rec, conn, closeVars,
                 waitVars, tomb>>

(* The ownership guard.  Mutant: any listener of the relay may report.            *)
AnyOwner(l) == TRUE
Owns(l) == owner[L[l].relay] = l

(* setListenerRelayStatus.                                                        *)
WorkerApplies(l) ==
  /\ L[l].worker \in Reports
  /\ IF Owns(l)
     THEN SetRelayStatus(L[l].relay, L[l].worker)
     ELSE UNCHANGED <<statuses, blocked, woken>>
  /\ L' = [L EXCEPT ![l].worker = "idle"]
  /\ UNCHANGED <<callVars, relayURLs, owner, done, rec, conn, closeVars, waiter, tomb>>

WorkerReturns(l) ==
  /\ L[l].live = "dead" /\ L[l].worker = "idle"
  /\ L' = [L EXCEPT ![l].worker = "gone"]
  /\ UNCHANGED <<callVars, desiredVars, statuses, owner, done, rec, conn, closeVars,
                 waitVars, tomb>>

LoopTakes(l, c) ==
  /\ L[l].live = "live" /\ L[l].loop = "run" /\ Held(l) = {} /\ conn[c] = "new"
  /\ conn' = [conn EXCEPT ![c] = l]
  /\ UNCHANGED <<callVars, desiredVars, statuses, done, rec, listenerVars, closeVars,
                 waitVars, tomb>>

LoopQueues(l, c) ==
  /\ conn[c] = l
  /\ \/ /\ Cardinality(Queued) < MaxAccepted
        /\ conn' = [conn EXCEPT ![c] = "queued"]
        /\ UNCHANGED L
     \/ /\ done
        /\ conn' = [conn EXCEPT ![c] = "closed"]
        /\ L' = [L EXCEPT ![l].loop = "wait"]
  /\ UNCHANGED <<callVars, desiredVars, statuses, owner, done, rec, closeVars, waitVars,
                 tomb>>

LoopEnds(l) ==
  /\ L[l].loop = "run" /\ L[l].live = "dead" /\ Held(l) = {}
  /\ L' = [L EXCEPT ![l].loop = "wait"]
  /\ UNCHANGED <<callVars, desiredVars, statuses, owner, done, rec, conn, closeVars,
                 waitVars, tomb>>

(* Mutant: the slot is given up as soon as Accept fails.                          *)
NoWait(l) == TRUE
WorkersDone(l) == L[l].worker = "gone"

(* The deferred part: ownership ends only after the worker applied what it had.   *)
LoopGone(l) ==
  /\ L[l].loop = "wait" /\ WorkersDone(l)
  /\ L' = [L EXCEPT ![l].loop = "gone"]
  /\ owner' = IF Owns(l) THEN [owner EXCEPT ![L[l].relay] = "none"] ELSE owner
  /\ UNCHANGED <<callVars, desiredVars, statuses, done, rec, conn, closeVars, waitVars,
                 tomb>>

\* ------------------------------------------------------------------------
\* The application: Accept and waitReady.

Accept(c) ==
  /\ conn[c] = "queued"
  /\ conn' = [conn EXCEPT ![c] = IF done THEN "closed" ELSE "app"]
  /\ UNCHANGED <<callVars, desiredVars, statuses, done, rec, listenerVars, closeVars,
                 waitVars, tomb>>

(* readyRelays reads the statuses and the channel under one read lock; waitReady *)
(* comes back to it when the channel is closed.                                   *)
WaitCheck ==
  /\ waiter = "idle" \/ (waiter = "wait" /\ woken)
  /\ waiter' = IF \E r \in Relays : statuses[r] = "ready" THEN "ready"
               ELSE IF done THEN "closed" ELSE "wait"
  /\ woken' = FALSE
  /\ UNCHANGED <<callVars, desiredVars, statuses, done, rec, listenerVars, conn,
                 closeVars, tomb>>

WaitClosed ==
  /\ waiter = "wait" /\ done
  /\ waiter' = "closed" /\ woken' = FALSE
  /\ UNCHANGED <<callVars, desiredVars, statuses, done, rec, listenerVars, conn,
                 closeVars, tomb>>

\* ------------------------------------------------------------------------
\* Close, by the application or because the caller's context ended.

Close ==
  /\ closer = "open"
  /\ closer' = "cancelled" /\ done' = TRUE
  /\ UNCHANGED <<callVars, desiredVars, statuses, rec, listenerVars, conn, closing,
                 waitVars, tomb>>

CloseTake ==
  /\ closer = "cancelled"
  /\ closer' = "closing" /\ closing' = Owned
  /\ owner' = [r \in Relays |-> "none"]
  /\ UNCHANGED <<callVars, desiredVars, statuses, done, rec, L, conn, waitVars, tomb>>

CloseListener(l) ==
  /\ closer = "closing" /\ l \in closing
  /\ L' = [L EXCEPT ![l].live = "dead"] /\ closing' = closing \ {l}
  /\ UNCHANGED <<callVars, desiredVars, statuses, owner, done, rec, conn, closer,
                 waitVars, tomb>>

(* acceptLoops.Wait.  Mutant: Close does not wait for them.                       *)
LoopsAny == TRUE
LoopsGone == \A l \in Listeners : L[l].loop \in {"none", "gone"}

CloseDrain ==
  /\ closer = "closing" /\ closing = {} /\ LoopsGone
  /\ closer' = "closed"
  /\ conn' = [c \in Conns |-> IF conn[c] = "queued" THEN "closed" ELSE conn[c]]
  /\ UNCHANGED <<callVars, desiredVars, statuses, done, rec, listenerVars, closing,
                 waitVars, tomb>>

\* ------------------------------------------------------------------------

Reconcile ==
  \/ ReconcileStart \/ ReconcileDetach \/ ReconcileSync \/ ReconcileReport
  \/ ReconcileNew \/ ReconcileNewFails \/ ReconcilePublish \/ ReconcileDiscard
  \/ ReconcileBlocked \/ ReconcileEnds
  \/ \E r \in Relays : ReconcileFilter(r) \/ ReconcileConnecting(r)
  \/ \E l \in Listeners : ReconcileClose(l)

ListenerStep(l) ==
  \/ ListenerCloses(l) \/ WorkerApplies(l) \/ WorkerReturns(l) \/ LoopEnds(l)
  \/ LoopGone(l) \/ \E c \in Conns : LoopQueues(l, c)

CloseStep == CloseTake \/ CloseDrain \/ \E l \in Listeners : CloseListener(l)

Next ==
  \/ \E urls \in SUBSET Relays : ApplyRelays(urls)
  \/ \E r \in Relays : AddRelay(r) \/ RemoveRelay(r)
  \/ UpdateMetadata \/ Reconcile \/ WaitCheck \/ WaitClosed \/ Close \/ CloseStep
  \/ \E l \in Listeners : ListenerStep(l)
  \/ \E l \in Listeners, report \in Reports : ListenerReports(l, report)
  \/ \E l \in Listeners, c \in Conns : LoopTakes(l, c)
  \/ \E c \in Conns : Accept(c)

Spec == Init /\ [][Next]_vars

TypeOK ==
  /\ relayURLs \subseteq Relays /\ blocked \subseteq Relays /\ tomb \subseteq Relays
  /\ statuses \in [Relays -> States] /\ owner \in [Relays -> Listeners \cup {"none"}]
  /\ \A l \in Listeners :
       /\ L[l].live \in {"none", "live", "dead"} /\ L[l].ending \in {"no", "failed", "mitm"}
       /\ L[l].worker \in Reports \cup {"none", "idle", "gone"}
       /\ L[l].loop \in {"none", "run", "wait", "gone"}
  /\ conn \in [Conns -> Listeners \cup {"new", "queued", "app", "closed"}]

(* A relay whose deselection was published has no status until it is desired      *)
(* again: no late report of its old listener brings the entry back.               *)
Tombstoned == \A r \in tomb : statuses[r] = "none"

(* A relay blocked as a man in the middle is served by no listener but the one    *)
(* that reported it and is closing.                                               *)
BlockedNotServed == \A r \in blocked : owner[r] # "none" => L[owner[r]].ending = "mitm"

(* Outside a reconciliation every installed listener has the current metadata.    *)
MetadataCurrent ==
  rec.pc = "idle" => \A l \in Owned : L[l].metadata = metadata

(* When Close has returned, no accept loop runs, nothing is queued, no listener   *)
(* is installed, and every listener that ever was installed is closed.            *)
ClosedClean ==
  closer = "closed" =>
    /\ Queued = {} /\ Owned = {} /\ LoopsGone
    /\ \A l \in Listeners : L[l].loop = "gone" => L[l].live = "dead"

(* waitReady never sleeps on a channel nobody will close while a relay is ready.  *)
NoLostWakeup ==
  (waiter = "wait" /\ ~woken) => \A r \in Relays : statuses[r] # "ready"

(* An accept loop gives its slot up only after the failure its listener reported  *)
(* is in the relay's status.                                                      *)
FinalFailureKept ==
  \A l \in Listeners :
    (L[l].loop = "wait" /\ L'[l].loop = "gone" /\ Owns(l) /\ ~done /\ L[l].ending # "no")
       => statuses[L[l].relay] = "failed"

(* Close was called.                                                               *)
EndAsked == done

(* Close has returned and every listener is closed, also one that a reconcile was   *)
(* still creating; whoever waited for a ready relay has returned.                  *)
Over ==
  /\ closer = "closed" /\ \A l \in Listeners : L[l].live # "live"
  /\ waiter \in {"ready", "closed"}
=============================================================================
