---------------------------- MODULE SdkListener ----------------------------
(* One relay listener of the SDK (sdk/listener.go with sdk/api_client.go): run  *)
(* registers a lease, runLease starts the workers that use and renew it, Close  *)
(* ends everything at any moment.  They share the lease snapshot, an atomic     *)
(* pointer that is swapped or compared and swapped (utils/snapshot.go).  What   *)
(* the reverse session workers do inside one lease is SdkSessions.  The relay   *)
(* is external: it grants, replaces, forgets, refuses or does not answer.       *)
EXTENDS Naturals, FiniteSets

CONSTANTS
  Slots,        \* reverse session slots (defaultReadyTarget)
  MaxLeases,    \* bound: leases the relay grants
  MaxRenewals   \* bound: renewals of one lease

VARIABLES
  run,        \* where run is
  granted,    \* the lease in the response registerAndConfigure works on
  tls,        \* leases whose keyless client is open
  done,       \* l.doneCh is closed
  closer,     \* where Close is
  closing,    \* the lease Close took out of the snapshot
  lease,      \* l.lease: id 0 is the empty snapshot
  workers,    \* reverse session workers that have not returned
  errs,       \* errCh of runLease
  renewer,    \* where runRenewLoop is
  renewing,   \* the snapshot a renewal was sent for
  dgram,      \* where runDatagramLoop is
  session,    \* the lease whose QUIC connection is bound to l.datagram
  served,     \* [relay] the lease the relay has for this identity, 0 for none
  issued,     \* [relay] leases granted so far
  excused     \* history: leases given up on purpose, or in a lost request or answer

closeVars == <<done, closer, closing>>
renewVars == <<renewer, renewing>>
dgramVars == <<dgram, session>>
relayVars == <<served, issued, excused>>
vars == <<run, granted, tls, closeVars, lease, workers, errs, renewVars, dgramVars, relayVars>>

NoLease == [id |-> 0, token |-> 0]
Snapshots == [id : 0..MaxLeases, token : 0..MaxRenewals]

TypeOK ==
  /\ run \in {"register", "answered", "checked", "swapped", "configured", "lease",
              "refresh", "terminal", "cancelled", "closing", "done"}
  /\ granted \in 0..MaxLeases /\ tls \subseteq 1..MaxLeases
  /\ done \in BOOLEAN
  /\ closer \in {"none", "clear", "drain", "unregister", "closed"}
  /\ closing \in 0..MaxLeases
  /\ lease \in Snapshots /\ workers \subseteq Slots
  /\ errs \subseteq {"refresh", "terminal"}
  /\ renewer \in {"done", "sleep", "sent"} /\ renewing \in Snapshots
  /\ dgram \in {"done", "dial", "dialed", "bound", "wait"} /\ session \in 0..MaxLeases
  /\ served \in 0..MaxLeases /\ issued \in 0..MaxLeases /\ excused \subseteq 1..MaxLeases

\* newListener.
Init ==
  /\ run = "register" /\ granted = 0 /\ tls = {}
  /\ done = FALSE /\ closer = "none" /\ closing = 0
  /\ lease = NoLease /\ workers = {} /\ errs = {}
  /\ renewer = "done" /\ renewing = NoLease
  /\ dgram = "done" /\ session = 0
  /\ served = 0 /\ issued = 0 /\ excused = {}

\* The comparison of access tokens inside UpdateIf.
SameToken(current, sent) == current.id # 0 /\ current = sent

\* An unregister request with a token of lease l; it may be lost.
Unregister(l) ==
  \/ served' = (IF served = l THEN 0 ELSE served) /\ UNCHANGED excused
  \/ l # 0 /\ excused' = excused \cup {l} /\ UNCHANGED served

\* The lease context is over: runLease has taken an error, or the listener is done.
LeaseDone == done \/ run # "lease"

\* A worker returns an error, which runLease may take.
Fail(err) == errs' = IF LeaseDone THEN errs ELSE errs \cup {err}

-----------------------------------------------------------------------------
(* run and registerAndConfigure *)

\* The relay grants a lease, replacing an older one of the identity, and
\* registerAndConfigure makes its keyless client.
RegisterGranted ==
  /\ run = "register" /\ issued < MaxLeases
  /\ issued' = issued + 1 /\ served' = issued + 1
  /\ granted' = issued + 1 /\ tls' = tls \cup {issued + 1}
  /\ run' = "answered"
  /\ UNCHANGED <<closeVars, lease, workers, errs, renewVars, dgramVars, excused>>

\* The relay grants a lease but the answer is lost, or is unusable and given back; run
\* tries again, or fails for good, or the context has ended.
RegisterWasted ==
  /\ run = "register" /\ issued < MaxLeases
  /\ issued' = issued + 1
  /\ \/ served' = issued + 1 /\ excused' = excused \cup {issued + 1}
     \/ served' = 0 /\ UNCHANGED excused
  /\ run' \in (IF done THEN {"done"} ELSE {"register", "terminal"})
  /\ UNCHANGED <<granted, tls, closeVars, lease, workers, errs, renewVars, dgramVars>>

\* No lease: a permanent refusal, or the context ended during the request or the wait.
RegisterFailed ==
  /\ run = "register"
  /\ run' = IF done THEN "done" ELSE "terminal"
  /\ UNCHANGED <<granted, tls, closeVars, lease, workers, errs, renewVars, dgramVars, relayVars>>

\* Mutant: registerAndConfigure does not look at the context.
NeverEnded == FALSE

\* ctx.Err() in registerAndConfigure.
Ended == done

\* The context is checked before the snapshot is replaced.
RegisterCheck ==
  /\ run = "answered"
  /\ IF Ended
     THEN run' = "done" /\ tls' = tls \ {granted} /\ Unregister(granted)
     ELSE run' = "checked" /\ UNCHANGED <<tls, served, excused>>
  /\ UNCHANGED <<granted, closeVars, lease, workers, errs, renewVars, dgramVars, issued>>

RegisterSwap ==
  /\ run = "checked"
  /\ lease' = [id |-> granted, token |-> 0]
  /\ tls' = tls \ {lease.id}
  /\ run' = "swapped"
  /\ UNCHANGED <<granted, closeVars, workers, errs, renewVars, dgramVars, relayVars>>

\* The context is checked again.
RegisterDone ==
  /\ run = "swapped"
  /\ IF Ended
     THEN /\ run' = "done" /\ lease' = NoLease
          /\ tls' = tls \ {lease.id} /\ Unregister(lease.id)
          /\ UNCHANGED session
     ELSE /\ run' = "configured" /\ session' = 0
          /\ UNCHANGED <<lease, tls, served, excused>>
  /\ UNCHANGED <<granted, closeVars, workers, errs, renewVars, dgram, issued>>

\* runLease starts the workers; it finds no lease only when Close has just taken it.
RunLease ==
  /\ run = "configured"
  /\ IF lease.id = 0
     THEN run' = "done" /\ UNCHANGED <<workers, renewer, dgram>>
     ELSE run' = "lease" /\ workers' = Slots /\ renewer' = "sleep" /\ dgram' = "dial"
  /\ errs' = {}
  /\ UNCHANGED <<granted, tls, closeVars, lease, renewing, session, relayVars>>

\* Mutant: runLease returns without waiting for its workers.
NoJoin == TRUE

\* workers.Wait().
Joined == workers = {} /\ renewer = "done" /\ dgram = "done"

\* runLease takes the end of the listener's context or the first error, and cancels.
LeaseEnds ==
  /\ run = "lease"
  /\ run' \in errs \cup (IF done THEN {"cancelled"} ELSE {})
  /\ UNCHANGED <<granted, tls, closeVars, lease, workers, errs, renewVars, dgramVars, relayVars>>

\* Its workers have returned and run handles the result: a lease to refresh is dropped
\* and its client closed, a permanent error closes the listener.
LeaseOver ==
  /\ run \in {"refresh", "cancelled"} /\ Joined
  /\ IF run = "refresh"
     THEN /\ run' = "register" /\ lease' = NoLease /\ tls' = tls \ {lease.id} /\ session' = 0
          /\ excused' = excused \cup ({lease.id} \ {0})
     ELSE run' = "done" /\ UNCHANGED <<tls, lease, session, excused>>
  /\ UNCHANGED <<granted, closeVars, workers, errs, renewVars, dgram, served, issued>>

\* closeForTerminalRelayError: the failure is reported, and run waits in Close.
CloseTerminal ==
  /\ run = "terminal" /\ Joined
  /\ run' = "closing"
  /\ done' = TRUE /\ closer' = IF closer = "none" THEN "clear" ELSE closer
  /\ UNCHANGED <<granted, tls, closing, lease, workers, errs, renewVars, dgramVars, relayVars>>

RunClosed ==
  /\ run = "closing" /\ closer = "closed"
  /\ run' = "done"
  /\ UNCHANGED <<granted, tls, closeVars, lease, workers, errs, renewVars, dgramVars, relayVars>>

-----------------------------------------------------------------------------
(* Close *)

\* The exposure ends the context of all its listeners before it closes them.
Cancel ==
  /\ ~done /\ done' = TRUE
  /\ UNCHANGED <<run, granted, tls, closer, closing, lease, workers, errs, renewVars, dgramVars, relayVars>>

\* closeOnce: called by the exposure, or for a detected TLS interception.
Close ==
  /\ closer = "none" /\ closer' = "clear" /\ done' = TRUE
  /\ UNCHANGED <<run, granted, tls, closing, lease, workers, errs, renewVars, dgramVars, relayVars>>

CloseClear ==
  /\ closer = "clear" /\ closer' = "drain"
  /\ closing' = lease.id /\ lease' = NoLease
  /\ UNCHANGED <<run, granted, tls, done, workers, errs, renewVars, dgramVars, relayVars>>

\* The datagram session is closed (the queued connections: SdkSessions).
CloseDrain ==
  /\ closer = "drain" /\ closer' = "unregister"
  /\ session' = 0
  /\ UNCHANGED <<run, granted, tls, done, closing, lease, workers, errs, renewVars, dgram, relayVars>>

CloseUnregister ==
  /\ closer = "unregister" /\ closer' = "closed"
  /\ Unregister(closing) /\ tls' = tls \ {closing}
  /\ UNCHANGED <<run, granted, done, closing, lease, workers, errs, renewVars, dgramVars, issued>>

-----------------------------------------------------------------------------
(* runRenewLoop and runDatagramLoop *)

renewRest == <<run, granted, tls, closeVars, workers, dgramVars, relayVars>>

\* renewDelay and the sleep: no lease, a lease past its end or a suspended process ask for
\* a new registration; otherwise the renewal is sent for the snapshot as it is now.
RenewWakes ==
  /\ renewer = "sleep"
  /\ \/ renewer' = "done" /\ Fail("refresh") /\ UNCHANGED renewing
     \/ LeaseDone /\ renewer' = "done" /\ UNCHANGED <<renewing, errs>>
     \/ lease.id # 0 /\ renewer' = "sent" /\ renewing' = lease /\ UNCHANGED errs
  /\ UNCHANGED <<renewRest, lease>>

\* renewLease: the answer is applied only to the lease and token it was asked for.
RenewOk ==
  /\ renewer = "sent" /\ served = renewing.id /\ renewing.token < MaxRenewals
  /\ renewing' = NoLease
  /\ IF SameToken(lease, renewing)
     THEN lease' = [lease EXCEPT !.token = renewing.token + 1] /\ renewer' = "sleep" /\ UNCHANGED errs
     ELSE renewer' = "done" /\ Fail("refresh") /\ UNCHANGED lease
  /\ UNCHANGED renewRest

\* Or it fails: a stale lease, a permanent refusal, no answer (retried), the end.
RenewFails ==
  /\ renewer = "sent" /\ renewing' = NoLease
  /\ \/ served # renewing.id /\ renewer' = "done" /\ Fail("refresh")
     \/ renewer' = "done" /\ Fail("terminal")
     \/ renewer' = (IF LeaseDone THEN "done" ELSE "sleep") /\ UNCHANGED errs
  /\ UNCHANGED <<renewRest, lease>>

dgramRest == <<run, granted, tls, closeVars, lease, workers, renewVars, relayVars>>

\* The QUIC backhaul is dialed with the token of the snapshot: it opens, the token is
\* stale, or there is no backhaul and the loop waits.
DgramDial ==
  /\ dgram = "dial"
  /\ \/ lease.id # 0 /\ served = lease.id /\ dgram' = "dialed" /\ UNCHANGED <<session, errs>>
     \/ lease.id # 0 /\ served # lease.id /\ session' = 0 /\ dgram' = "done" /\ Fail("refresh")
     \/ dgram' = "wait" /\ UNCHANGED <<session, errs>>
     \/ LeaseDone /\ session' = 0 /\ dgram' = "done" /\ UNCHANGED errs
  /\ UNCHANGED dgramRest

\* DatagramSession.Bind refuses a connection once it is closed.
SessionOpen == closer \in {"none", "clear", "drain"}

DgramBind ==
  /\ dgram = "dialed"
  /\ \/ SessionOpen /\ session' = granted /\ dgram' = "bound"
     \/ dgram' = "wait" /\ UNCHANGED session
  /\ UNCHANGED <<dgramRest, errs>>

\* The lease ends and the loop clears the session, or the connection ends by itself.
DgramEnds ==
  /\ dgram = "bound"
  /\ session' = 0
  /\ dgram' \in {"wait"} \cup (IF LeaseDone THEN {"done"} ELSE {})
  /\ UNCHANGED <<dgramRest, errs>>

DgramWait ==
  /\ dgram = "wait"
  /\ dgram' = IF LeaseDone THEN "done" ELSE "dial"
  /\ UNCHANGED <<dgramRest, session, errs>>

\* A reverse session worker returns: with the context, or because its credential is stale.
WorkerReturns(s) ==
  /\ s \in workers /\ workers' = workers \ {s}
  /\ \/ LeaseDone /\ UNCHANGED errs
     \/ lease.id # 0 /\ Fail("refresh")
  /\ UNCHANGED <<run, granted, tls, closeVars, lease, renewVars, dgramVars, relayVars>>

\* [relay] It restarts, or the lease expires.
RelayForgets ==
  /\ served # 0 /\ served' = 0
  /\ UNCHANGED <<run, granted, tls, closeVars, lease, workers, errs, renewVars, dgramVars, issued, excused>>

Run == RegisterGranted \/ RegisterWasted \/ RegisterFailed \/ RegisterCheck \/ RegisterSwap
       \/ RegisterDone \/ RunLease \/ LeaseEnds \/ LeaseOver \/ CloseTerminal \/ RunClosed
Closing == CloseClear \/ CloseDrain \/ CloseUnregister
Renew == RenewWakes \/ RenewOk \/ RenewFails
Dgram == DgramDial \/ DgramBind \/ DgramEnds \/ DgramWait

Next == Run \/ Cancel \/ Close \/ Closing \/ Renew \/ Dgram \/ RelayForgets
        \/ \E s \in Slots : WorkerReturns(s)

Spec == Init /\ [][Next]_vars

\* Steps that are due: an exposure that has ended its context closes the listener, the
\* workers of a lease that is over return, a relay that keeps being asked about a lease it
\* has forgotten says so.
CloseDue == done /\ Close
WorkerDue(s) == LeaseDone /\ WorkerReturns(s)
ForgottenIsSaid == RenewFails /\ served # renewing.id /\ renewer' = "done"

-----------------------------------------------------------------------------
(* Properties *)

Finished == run = "done" /\ closer = "closed"

\* Once Close has returned and run has ended nothing is left behind, wherever registration
\* was when Close came: no snapshot, no keyless client, no bound datagram connection, and
\* no lease at the relay but one whose request or answer was lost or that was given up to
\* register anew.
ClosedHoldsNothing ==
  Finished => /\ lease = NoLease /\ tls = {} /\ session = 0
              /\ served \in excused \cup {0}

\* The workers of a lease never act on a later one: while a lease runs its keyless client
\* is the only one open, a renewal in flight is for the lease being run, and no datagram
\* connection outlives the lease it was dialed for.
OneLeaseAtATime ==
  /\ (run = "lease" /\ lease.id # 0) => tls = {lease.id}
  /\ renewer = "sent" => renewing.id = granted
  /\ session # 0 => session = granted /\ dgram = "bound"

\* The exposure has ended the context.
EndAsked == done

\* A lease the relay has forgotten, which the listener has to give up to register again.
Forgotten == run = "lease" /\ served # lease.id
=============================================================================
