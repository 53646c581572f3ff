---------------------------- MODULE QuicBackhaul ----------------------------
(* Admission of QUIC backhauls: runQUICBackhaulListener, handleQUICBackhaulConn    *)
(* and backhaulPendingSources of portal/server.go with the control stream of       *)
(* portal/transport/quic_backhaul.go.  Binding a connection to the lease's         *)
(* datagram session is DatagramSession's Bind.                                     *)
EXTENDS Naturals, FiniteSets, FiniteSetsExt

CONSTANTS
  Conns,
  Sources,        \* /32 and /64 prefixes
  PendingLimit,   \* quicBackhaulPendingLimit
  SourceLimit     \* quicBackhaulPerSourceLimit

VARIABLES
  listener,       \* "open", "closing": it waits for its handlers, "closed"
  pc,             \* where the handler of each connection is
  source,         \* its source
  counts,         \* backhaulPendingSources.counts
  slots,          \* tokens in the pending channel
  quic,           \* each connection: new, open, closed
  callback,       \* its AfterFunc: armed, stopped, running, over
  told,           \* what the client was answered
  bound,          \* the connection bound to the lease, or none
  live            \* the lease exists and is routable

vars == <<listener, pc, source, counts, slots, quic, callback, told, bound, live>>

None == "none"
Holding == {"control", "lookup", "bind", "answer", "settle", "leave"}
connVars == <<quic, callback, told>>
limitVars == <<source, counts, slots>>

Init ==
  /\ listener = "open" /\ pc = [c \in Conns |-> "none"]
  /\ source \in [Conns -> Sources] /\ counts = [s \in Sources |-> 0] /\ slots = 0
  /\ quic = [c \in Conns |-> "new"] /\ callback = [c \in Conns |-> "none"]
  /\ told = [c \in Conns |-> "nothing"] /\ bound = None /\ live = TRUE

To(c, l) == pc' = [pc EXCEPT ![c] = l]
Shut(c) == quic' = [quic EXCEPT ![c] = "closed"]

\* Mutant: the slot is refused without giving the source's share back.
KeepShare(c) == UNCHANGED counts

Release(c) == counts' = [counts EXCEPT ![source[c]] = @ - 1]

(* Accept: the source's share is taken before a global slot is tried.              *)
AcceptRefused(c) ==
  /\ listener = "open" /\ pc[c] = "none"
  /\ counts[source[c]] >= SourceLimit
  /\ Shut(c) /\ To(c, "gone")
  /\ UNCHANGED <<listener, limitVars, callback, told, bound, live>>

AcceptShare(c) ==
  /\ listener = "open" /\ pc[c] = "none" /\ \A d \in Conns : pc[d] # "share"
  /\ counts[source[c]] < SourceLimit
  /\ counts' = [counts EXCEPT ![source[c]] = @ + 1]
  /\ quic' = [quic EXCEPT ![c] = "open"] /\ To(c, "share")
  /\ UNCHANGED <<listener, source, slots, callback, told, bound, live>>

AcceptSlot(c) ==
  /\ pc[c] = "share" /\ slots < PendingLimit
  /\ slots' = slots + 1
  /\ callback' = [callback EXCEPT ![c] = "armed"] /\ To(c, "control")
  /\ UNCHANGED <<listener, source, counts, quic, told, bound, live>>

AcceptBusy(c) ==
  /\ pc[c] = "share" /\ slots >= PendingLimit
  /\ Release(c) /\ Shut(c) /\ To(c, "gone")
  /\ UNCHANGED <<listener, source, slots, callback, told, bound, live>>

\* The listener's context ends: its handlers are cancelled and waited for.
ListenerCloses ==
  /\ listener = "open" /\ \A c \in Conns : pc[c] # "share"
  /\ listener' = "closing"
  /\ UNCHANGED <<pc, limitVars, connVars, bound, live>>

\* Mutant: the listener does not wait for its handlers.
WaitsNot == TRUE

HandlersDone == \A c \in Conns : pc[c] \notin Holding

ListenerReturns ==
  /\ listener = "closing" /\ HandlersDone
  /\ listener' = "closed"
  /\ UNCHANGED <<pc, limitVars, connVars, bound, live>>

-----------------------------------------------------------------------------
(* The AfterFunc of the authentication context, which its timeout, the listener   *)
(* and authCancel end.                                                            *)

CallbackRuns(c) ==
  /\ callback[c] = "armed" /\ (pc[c] \in Holding \/ listener # "open")
  /\ callback' = [callback EXCEPT ![c] = "running"]
  /\ UNCHANGED <<listener, pc, limitVars, quic, told, bound, live>>

CallbackCloses(c) ==
  /\ callback[c] = "running"
  /\ callback' = [callback EXCEPT ![c] = "over"] /\ Shut(c)
  /\ UNCHANGED <<listener, pc, limitVars, told, bound, live>>

-----------------------------------------------------------------------------
(* handleQUICBackhaulConn *)

ControlRead(c) ==
  /\ pc[c] = "control" /\ quic[c] = "open"
  /\ To(c, "lookup")
  /\ UNCHANGED <<listener, limitVars, connVars, bound, live>>

ControlFails(c) ==
  /\ pc[c] = "control"
  /\ Shut(c) /\ To(c, "leave")
  /\ UNCHANGED <<listener, limitVars, callback, told, bound, live>>

Lookup(c) ==
  /\ pc[c] = "lookup"
  /\ IF live
     THEN To(c, "bind") /\ UNCHANGED <<quic, told>>
     ELSE To(c, "leave") /\ Shut(c) /\ told' = [told EXCEPT ![c] = "rejected"]
  /\ UNCHANGED <<listener, limitVars, callback, bound, live>>

\* A connection replaces the one bound before; a closed session refuses it.
BindBackhaul(c) ==
  /\ pc[c] = "bind"
  /\ IF live
     THEN /\ bound' = c /\ To(c, "answer")
          /\ quic' = [x \in Conns |-> IF x = bound THEN "closed" ELSE quic[x]]
          /\ UNCHANGED told
     ELSE /\ Shut(c) /\ To(c, "leave") /\ told' = [told EXCEPT ![c] = "rejected"]
          /\ UNCHANGED bound
  /\ UNCHANGED <<listener, limitVars, callback, live>>

Answer(c) ==
  /\ pc[c] = "answer"
  /\ \/ /\ quic[c] = "open" /\ told' = [told EXCEPT ![c] = "accepted"] /\ To(c, "settle")
        /\ UNCHANGED quic
     \/ Shut(c) /\ To(c, "leave") /\ UNCHANGED told
  /\ UNCHANGED <<listener, limitVars, callback, bound, live>>

\* Success is published only if the callback can still be stopped.
\* Mutant: it is published without settling the callback.
SettleBlind(c) == TRUE

Stops(c) == callback[c] = "armed"

Settle(c) ==
  /\ pc[c] = "settle"
  /\ IF Stops(c)
     THEN To(c, "served") /\ callback' = [callback EXCEPT ![c] = IF @ = "armed" THEN "stopped" ELSE @]
          /\ slots' = slots - 1 /\ Release(c)
     ELSE To(c, "leave") /\ UNCHANGED <<callback, slots, counts>>
  /\ UNCHANGED <<listener, source, quic, told, bound, live>>

\* The deferred functions: an unauthenticated handler waits for a running callback.
Leave(c) ==
  /\ pc[c] = "leave" /\ callback[c] # "running"
  /\ callback' = [callback EXCEPT ![c] = IF @ = "armed" THEN "stopped" ELSE @]
  /\ slots' = slots - 1 /\ Release(c)
  /\ To(c, "gone")
  /\ UNCHANGED <<listener, source, quic, told, bound, live>>

\* The session notices a lost connection; the lease ends and takes its own along.
BoundLost(c) ==
  /\ bound = c /\ quic[c] = "closed" /\ bound' = None
  /\ UNCHANGED <<listener, pc, limitVars, connVars, live>>

LeaseEnds ==
  /\ live /\ live' = FALSE /\ bound' = None
  /\ quic' = [x \in Conns |-> IF x = bound THEN "closed" ELSE quic[x]]
  /\ UNCHANGED <<listener, pc, limitVars, callback, told>>

Handler(c) ==
  \/ ControlRead(c) \/ ControlFails(c) \/ Lookup(c) \/ BindBackhaul(c) \/ Answer(c)
  \/ Settle(c) \/ Leave(c) \/ CallbackRuns(c) \/ CallbackCloses(c)

Next ==
  \/ ListenerCloses \/ ListenerReturns \/ LeaseEnds
  \/ \E c \in Conns :
       \/ AcceptRefused(c) \/ AcceptShare(c) \/ AcceptSlot(c) \/ AcceptBusy(c) \/ Handler(c)
       \/ BoundLost(c)

Spec == Init /\ [][Next]_vars

TypeOK ==
  /\ listener \in {"open", "closing", "closed"}
  /\ pc \in [Conns -> Holding \cup {"none", "share", "served", "gone"}]
  /\ quic \in [Conns -> {"new", "open", "closed"}]
  /\ callback \in [Conns -> {"none", "armed", "stopped", "running", "over"}]

(* The slots and the shares count exactly the handlers under way, within both      *)
(* limits; a handler that did not authenticate its connection leaves it closed;    *)
(* the authentication timeout never closes an authenticated one; and when the      *)
(* listener has returned no handler runs.                                          *)
AdmissionExact ==
  /\ slots = Cardinality({c \in Conns : pc[c] \in Holding}) /\ slots <= PendingLimit
  /\ \A s \in Sources :
       /\ counts[s] = Cardinality({c \in Conns : pc[c] \in Holding \cup {"share"} /\ source[c] = s})
       /\ counts[s] <= SourceLimit
  /\ \A c \in Conns : pc[c] = "gone" => quic[c] = "closed"
  /\ \A c \in Conns : pc[c] = "served" => callback[c] = "stopped" /\ told[c] = "accepted"
  /\ listener = "closed" => \A c \in Conns : pc[c] \notin Holding

(* The context has ended; the listener has returned.                               *)
EndAsked == listener = "closing"
Over == listener = "closed"
=============================================================================
