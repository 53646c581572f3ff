---------------------------- MODULE SdkSessions ----------------------------
(* The reverse sessions of one lease of an SDK listener (sdk/listener.go and    *)
(* sdk/reverse_transport.go): each slot opens a reverse stream, reports it,     *)
(* waits for a tenant connection on it, admits that connection and starts over. *)
(* The slots share the lease snapshot (utils/snapshot.go), the count of open    *)
(* streams and the status channel; the renewal, Close and the relay (external)  *)
(* act at any moment.  Registration and Close as a whole are SdkListener.       *)
EXTENDS Naturals, FiniteSets

CONSTANTS
  Slots,        \* reverse session slots (defaultReadyTarget)
  Conns,        \* tenant connections that reach admit
  MaxRenewals,  \* bound: renewals of the lease
  Gateways,     \* alternate reverse endpoints an overlay relay may hand out
  MaxQueue,     \* capacity of l.accepted
  MaxAdmitting  \* connections in admission (maxAdmitting)

VARIABLES
  lease,      \* l.lease, without its id
  moved,      \* slots inside UpdateIf whose pointer has been replaced since they read it
  slot,       \* where each runReverseSessionLoop is
  failed,     \* the reverse endpoint each slot read at the top of its loop
  replacing,  \* the snapshot refreshReverseEndpointAfterFailure works on
  ready,      \* readySessions
  outbox,     \* the status each slot has computed and is sending
  after,      \* where each slot goes once its status is sent
  shown,      \* the status the exposure was last sent
  conn,       \* progress of each tenant connection
  over,       \* the lease context has ended
  drained,    \* Close has emptied l.accepted
  late        \* history: connections that were past their check when the context ended

slotVars == <<slot, failed, replacing, ready, outbox, after>>
vars == <<lease, moved, slotVars, shown, conn, over, drained, late>>

Direct == "direct"
Endpoints == {Direct} \cup Gateways
NoLease == [held |-> FALSE, token |-> 0, reverse |-> Direct, approval |-> ""]
NoStatus == [state |-> "none", approval |-> ""]
Snapshots == [held : BOOLEAN, token : 0..MaxRenewals, reverse : Endpoints, approval : {"", "refused"}]
Statuses == [state : {"none", "connecting", "ready"}, approval : {"", "refused"}]

TypeOK ==
  /\ lease \in Snapshots /\ moved \subseteq Slots
  /\ slot \in [Slots -> {"done", "top", "open", "opened", "ready", "refused", "swapping",
                         "replace", "replacing", "status", "report"}]
  /\ failed \in [Slots -> Endpoints] /\ replacing \in Snapshots
  /\ ready \in 0..Cardinality(Slots)
  /\ outbox \in [Slots -> Statuses] /\ after \in [Slots -> {"done", "top", "ready", "replace"}]
  /\ shown \in Statuses
  /\ conn \in [Conns -> {"free", "admitting", "checked", "queued", "taken", "closed"}]
  /\ over \in BOOLEAN /\ drained \in BOOLEAN /\ late \subseteq Conns

\* runLease has started the slots of a lease just registered.
Init ==
  /\ \E e \in Endpoints : lease = [held |-> TRUE, token |-> 0, reverse |-> e, approval |-> ""]
  /\ moved = {}
  /\ slot = [s \in Slots |-> "top"] /\ failed = [s \in Slots |-> Direct]
  /\ replacing = NoLease /\ ready = 0
  /\ outbox = [s \in Slots |-> NoStatus] /\ after = [s \in Slots |-> "top"]
  /\ shown = [state |-> "connecting", approval |-> ""]
  /\ conn = [c \in Conns |-> "free"]
  /\ over = FALSE /\ drained = FALSE /\ late = {}

-----------------------------------------------------------------------------
(* The snapshot and the status *)

\* A stored pointer: every UpdateIf that has read the old one will read again.
Store(next) ==
  /\ lease' = next
  /\ moved' = {s \in Slots : slot[s] = "swapping"}

\* The comparison of access tokens inside UpdateIf.
SameToken(current, sent) == current.held /\ current.token = sent.token

\* The status reportAvailable sends.
Available ==
  IF ready > 0 THEN [state |-> "ready", approval |-> ""]
  ELSE [state |-> "connecting", approval |-> lease.approval]

\* report: a send to the exposure, abandoned once the listener is done.
Report(status) == shown' = IF over THEN shown ELSE status

-----------------------------------------------------------------------------
(* runReverseSessionLoop *)

slotRest == <<conn, over, drained, late>>

Go(s, pc) == slot' = [slot EXCEPT ![s] = pc]

\* Where a failed attempt leads: an alternate endpoint is replaced first.
Retry(s) == IF failed[s] = Direct THEN "top" ELSE "replace"

\* The loop starts over, after the wait of a retry; a wait ends the loop with the context.
SlotTop(s) ==
  /\ slot[s] = "top"
  /\ IF over THEN Go(s, "done") /\ UNCHANGED failed
     ELSE Go(s, "open") /\ failed' = [failed EXCEPT ![s] = lease.reverse]
  /\ UNCHANGED <<slotRest, lease, moved, shown, replacing, ready, outbox, after>>

\* reverseTransport.Open fails: no answer, a credential the relay or the clock has made
\* stale, a refused route, or the end of the context.
SlotOpenFails(s) ==
  /\ slot[s] = "open"
  /\ \/ Go(s, Retry(s))
     \/ lease.held /\ Go(s, "done")
     \/ lease.held /\ Go(s, "refused")
     \/ over /\ Go(s, "done")
  /\ UNCHANGED <<slotRest, lease, moved, shown, failed, replacing, ready, outbox, after>>

\* reportStreamReady counts the stream.
SlotOpens(s) ==
  /\ slot[s] = "open" /\ lease.held
  /\ Go(s, "opened") /\ ready' = ready + 1
  /\ UNCHANGED <<slotRest, lease, moved, shown, failed, replacing, outbox, after>>

\* setApproval("").
SlotApproved(s) ==
  /\ slot[s] = "opened"
  /\ IF lease.held /\ lease.approval # "" THEN Store([lease EXCEPT !.approval = ""])
     ELSE UNCHANGED <<lease, moved>>
  /\ Go(s, "status") /\ after' = [after EXCEPT ![s] = "ready"]
  /\ UNCHANGED <<slotRest, shown, failed, replacing, ready, outbox>>

\* reportAvailable reads the lease and the open streams, and then sends what it read.
SlotStatus(s) ==
  /\ slot[s] = "status"
  /\ IF ~lease.held THEN Go(s, after[s]) /\ UNCHANGED outbox
     ELSE Go(s, "report") /\ outbox' = [outbox EXCEPT ![s] = Available]
  /\ UNCHANGED <<slotRest, lease, moved, shown, failed, replacing, ready, after>>

SlotReport(s) ==
  /\ slot[s] = "report"
  /\ Report(outbox[s]) /\ outbox' = [outbox EXCEPT ![s] = NoStatus]
  /\ Go(s, after[s])
  /\ UNCHANGED <<slotRest, lease, moved, failed, replacing, ready, after>>

\* setApproval of a refusal: UpdateIf reads the snapshot and the open streams ...
SlotRefused(s) ==
  /\ slot[s] = "refused"
  /\ IF ready > 0 \/ ~lease.held \/ lease.approval # ""
     THEN Go(s, Retry(s)) /\ UNCHANGED moved
     ELSE Go(s, "swapping") /\ moved' = moved \ {s}
  /\ UNCHANGED <<slotRest, lease, shown, failed, replacing, ready, outbox, after>>

\* ... and compares and swaps, reading again when the snapshot was replaced.
SlotSwap(s) ==
  /\ slot[s] = "swapping"
  /\ IF s \in moved THEN Go(s, "refused") /\ UNCHANGED <<lease, moved, after>>
     ELSE /\ Store([lease EXCEPT !.approval = "refused"])
          /\ Go(s, "status") /\ after' = [after EXCEPT ![s] = Retry(s)]
  /\ UNCHANGED <<slotRest, shown, failed, replacing, ready, outbox>>

\* Mutant: the stream that ends is not counted down.
KeepReady == ready

\* reportStreamClosed.
OneLess == IF ready > 0 THEN ready - 1 ELSE 0

\* The connection holds an admitting slot.
Admitting(c) == conn[c] \in {"admitting", "checked"}

\* ReadStart claims the stream and, its TLS handshake done, a connection goes to admit.
SlotClaimed(s, c) ==
  /\ slot[s] = "ready" /\ conn[c] = "free" /\ Cardinality({d \in Conns : Admitting(d)}) < MaxAdmitting
  /\ conn' = [conn EXCEPT ![c] = "admitting"]
  /\ ready' = OneLess
  /\ Go(s, "status") /\ after' = [after EXCEPT ![s] = "top"]
  /\ UNCHANGED <<over, drained, late, lease, moved, shown, failed, replacing, outbox>>

\* The stream ends unclaimed, or its handshake or its admission fails.
SlotEnds(s) ==
  /\ slot[s] = "ready"
  /\ ready' = OneLess
  /\ Go(s, "status")
  /\ \E next \in {"top", Retry(s)} \cup (IF over THEN {"done"} ELSE {}) :
       after' = [after EXCEPT ![s] = next]
  /\ UNCHANGED <<slotRest, lease, moved, shown, failed, replacing, outbox>>

\* Mutant: a slot asks for another endpoint whatever the other slot has done.
FailedAny(s) == TRUE

\* The capability in the snapshot is still the one the slot failed with.
StillFailed(s) == lease.reverse = failed[s]

\* refreshReverseEndpointAfterFailure, under reverseMu.
SlotReplace(s) ==
  /\ slot[s] = "replace"
  /\ \A t \in Slots : slot[t] # "replacing"
  /\ IF ~lease.held \/ ~StillFailed(s) THEN Go(s, "top") /\ UNCHANGED replacing
     ELSE Go(s, "replacing") /\ replacing' = lease
  /\ UNCHANGED <<slotRest, lease, moved, shown, failed, ready, outbox, after>>

\* The relay's answer: another endpoint, a stale token, or none that can be used.
SlotReplaced(s) ==
  /\ slot[s] = "replacing"
  /\ replacing' = NoLease
  /\ \/ Go(s, "done") /\ UNCHANGED <<lease, moved>>
     \/ Go(s, "top") /\ UNCHANGED <<lease, moved>>
     \/ /\ SameToken(lease, replacing) /\ StillFailed(s)
        /\ \E e \in Endpoints : Store([lease EXCEPT !.reverse = e])
        /\ Go(s, "top")
  /\ UNCHANGED <<slotRest, shown, failed, ready, outbox, after>>

-----------------------------------------------------------------------------
(* admit and Accept *)

connRest == <<lease, moved, slotVars, shown, over, drained, late>>

\* Mutant: admit queues without looking at the context first.
Unchecked == TRUE

\* ctx.Err() == nil in admit.
StillOpen == ~over

\* A probe or binding connection is handled here; another one is queued only when the
\* lease context has not ended.
AdmitCheck(c) ==
  /\ conn[c] = "admitting"
  /\ conn' = [conn EXCEPT ![c] = IF StillOpen THEN "checked" ELSE "closed"]
  /\ UNCHANGED connRest

AdmitHandled(c) ==
  /\ conn[c] = "admitting" /\ conn' = [conn EXCEPT ![c] = "closed"]
  /\ UNCHANGED connRest

\* The select: both cases may be ready, and then either is taken.
AdmitQueue(c) ==
  /\ conn[c] = "checked" /\ Cardinality({d \in Conns : conn[d] = "queued"}) < MaxQueue
  /\ conn' = [conn EXCEPT ![c] = "queued"]
  /\ UNCHANGED connRest

AdmitEnded(c) ==
  /\ conn[c] = "checked" /\ over
  /\ conn' = [conn EXCEPT ![c] = "closed"]
  /\ UNCHANGED connRest

\* Accept; the exposure's accept loop stops when the listener is done.
Accept(c) ==
  /\ conn[c] = "queued" /\ conn' = [conn EXCEPT ![c] = "taken"]
  /\ UNCHANGED connRest


-----------------------------------------------------------------------------
(* The other goroutines of the listener *)

\* renewLease applies an answer: a new token and a new reverse endpoint.
Renewed ==
  /\ ~over /\ lease.held /\ lease.token < MaxRenewals
  /\ \E e \in Endpoints : Store([lease EXCEPT !.token = @ + 1, !.reverse = e])
  /\ UNCHANGED <<slotVars, shown, conn, over, drained, late>>

\* Close ends the context.
Ends ==
  /\ ~over /\ over' = TRUE
  /\ late' = {c \in Conns : conn[c] = "checked"}
  /\ UNCHANGED <<lease, moved, slotVars, shown, conn, drained>>

\* Close takes the lease and closes the connections that wait in l.accepted.
CloseDrain ==
  /\ over /\ ~drained /\ drained' = TRUE
  /\ Store(NoLease)
  /\ conn' = [c \in Conns |-> IF conn[c] = "queued" THEN "closed" ELSE conn[c]]
  /\ UNCHANGED <<slotVars, shown, over, late>>

Slot(s) == SlotTop(s) \/ SlotOpenFails(s) \/ SlotOpens(s) \/ SlotApproved(s) \/ SlotStatus(s)
           \/ SlotReport(s) \/ SlotRefused(s) \/ SlotSwap(s) \/ SlotEnds(s)
           \/ SlotReplace(s) \/ SlotReplaced(s) \/ \E c \in Conns : SlotClaimed(s, c)
Admit(c) == AdmitCheck(c) \/ AdmitHandled(c) \/ AdmitQueue(c) \/ AdmitEnded(c) \/ Accept(c)

Next == Renewed \/ Ends \/ CloseDrain
        \/ (\E s \in Slots : Slot(s)) \/ (\E c \in Conns : Admit(c))

Spec == Init /\ [][Next]_vars

-----------------------------------------------------------------------------
(* Properties *)

\* The slots that hold an open stream.
Holding == {s \in Slots : \/ slot[s] \in {"opened", "ready"}
                          \/ slot[s] \in {"status", "report"} /\ after[s] = "ready"}

\* readySessions counts exactly the slots that hold an open stream, so a listener is never
\* ready without one and never stays ready after the last one.
ReadyExact == ready = Cardinality(Holding)

\* A connection is queued after Close emptied the queue only when it was already past its
\* check of the context when that ended; every other one is closed or with Accept.
NoneStranded == drained => {c \in Conns : conn[c] = "queued"} \subseteq late

\* An endpoint installed by a renewal or by one slot is not thrown out by a slot that
\* failed with an earlier one.
EndpointKept ==
  (lease.held /\ lease'.held /\ lease'.token = lease.token /\ lease'.reverse # lease.reverse)
  => \E s \in Slots : slot[s] = "replacing" /\ failed[s] = lease.reverse

=============================================================================
