----------------------------- MODULE ReverseMux -----------------------------
(* Reverse connections over a WebSocket: HandleConnect and serveReverseMux of      *)
(* portal/api_server.go, attachReverseMux, detachReverseMux and Close of           *)
(* portal/record.go, and the stream handshake of portal/transport/stream_mux.go.   *)
(* One identity registers again and again; what a lease's ready queue does with    *)
(* an offered stream is ReversePool.                                               *)
EXTENDS Naturals, FiniteSets

CONSTANTS
  MaxLeases,    \* bound: leases of the identity
  Muxes,        \* WebSocket sessions the connector dials
  Streams       \* streams it opens

VARIABLES
  granted,      \* leases the identity was given so far
  current,      \* the one in the registry, 0 for none
  blocked,      \* the identity is not routable
  recClosed,    \* leases whose record is closed
  poolClosed,   \* leases whose ready queue is closed
  reverseMux,   \* record.reverseMux
  handler,      \* where serveReverseMux of each session is
  of,           \* the lease it was admitted to
  open,         \* sessions that are open
  toClose,      \* sessions somebody has taken out and is about to close
  serving,      \* the stream each handler works on
  stream,       \* each stream at the relay
  cap,          \* the capability presented on it: the lease it was issued for
  on,           \* its session
  client,       \* the connector's end of it
  vetted        \* history: streams admitted while their lease was current and routable

vars == <<granted, current, blocked, recClosed, poolClosed, reverseMux, handler, of, open, toClose,
          serving, stream, cap, on, client, vetted>>

None == "none"
Leases == 1..MaxLeases
leaseVars == <<granted, current, blocked, recClosed, poolClosed>>
streamVars == <<stream, cap, on, client, vetted>>

Init ==
  /\ granted = 0 /\ current = 0 /\ blocked = FALSE /\ recClosed = {} /\ poolClosed = {}
  /\ reverseMux = [l \in Leases |-> None]
  /\ handler = [m \in Muxes |-> None] /\ of = [m \in Muxes |-> 0] /\ open = {} /\ toClose = {}
  /\ serving = [m \in Muxes |-> None]
  /\ stream = [s \in Streams |-> None] /\ cap = [s \in Streams |-> 0]
  /\ on = [s \in Streams |-> None] /\ client = [s \in Streams |-> None] /\ vetted = {}

-----------------------------------------------------------------------------
(* The registry: Register replaces the identity's lease, Unregister and expiry     *)
(* remove it, and the record is closed after the table has changed.                *)

Register ==
  /\ granted < MaxLeases /\ granted' = granted + 1 /\ current' = granted + 1
  /\ UNCHANGED <<blocked, recClosed, poolClosed, reverseMux, handler, of, open, toClose, serving,
                 streamVars>>

Unregister ==
  /\ current # 0 /\ current' = 0
  /\ UNCHANGED <<granted, blocked, recClosed, poolClosed, reverseMux, handler, of, open, toClose, serving,
                 streamVars>>

SetAccess ==
  /\ blocked' = ~blocked
  /\ UNCHANGED <<granted, current, recClosed, poolClosed, reverseMux, handler, of, open, toClose, serving,
                 streamVars>>

\* record.Close of a lease that has left the table: the record is marked under its
\* lock; the session it had is closed after that, and its queue with what it holds.
CloseRecord(l) ==
  /\ l <= granted /\ l # current /\ l \notin recClosed
  /\ recClosed' = recClosed \cup {l}
  /\ toClose' = toClose \cup ({reverseMux[l]} \ {None})
  /\ reverseMux' = [reverseMux EXCEPT ![l] = None]
  /\ UNCHANGED <<granted, current, blocked, poolClosed, handler, of, open, serving, streamVars>>

ClosePool(l) ==
  /\ l \in recClosed \ poolClosed /\ poolClosed' = poolClosed \cup {l}
  /\ stream' = [s \in Streams |->
                  IF stream[s] = "pooled" /\ of[on[s]] = l THEN "closed" ELSE stream[s]]
  /\ UNCHANGED <<granted, current, blocked, recClosed, reverseMux, handler, of, open, toClose,
                 serving, cap, on, client, vetted>>

-----------------------------------------------------------------------------
(* HandleConnect and serveReverseMux *)

Admit(l) == l = current /\ ~blocked

Connect(m) ==
  /\ handler[m] = None /\ current # 0 /\ Admit(current)
  /\ handler' = [handler EXCEPT ![m] = "accepted"] /\ of' = [of EXCEPT ![m] = current]
  /\ open' = open \cup {m}
  /\ UNCHANGED <<leaseVars, reverseMux, toClose, serving, streamVars>>

\* Mutant: a closed record takes the session.
AttachAlways(l) == TRUE

Attachable(l) == l \notin recClosed

AttachReverseMux(m) ==
  /\ handler[m] = "accepted"
  /\ LET l == of[m] IN
     IF Attachable(l)
     THEN /\ toClose' = toClose \cup ({reverseMux[l]} \ {None, m})
          /\ reverseMux' = [reverseMux EXCEPT ![l] = m]
          /\ handler' = [handler EXCEPT ![m] = "serve"] /\ UNCHANGED open
     ELSE /\ open' = open \ {m} /\ handler' = [handler EXCEPT ![m] = "done"]
          /\ UNCHANGED <<toClose, reverseMux>>
  /\ UNCHANGED <<leaseVars, of, serving, streamVars>>

CloseTaken(m) ==
  /\ m \in toClose /\ toClose' = toClose \ {m} /\ open' = open \ {m}
  /\ UNCHANGED <<leaseVars, reverseMux, handler, of, serving, streamVars>>

\* The connector or the network ends the session.
SessionLost(m) ==
  /\ m \in open /\ open' = open \ {m}
  /\ UNCHANGED <<leaseVars, reverseMux, handler, of, toClose, serving, streamVars>>

\* Accept returns the next stream together with the capability it presents.
AcceptStream(m, s) ==
  /\ handler[m] = "serve" /\ m \in open /\ stream[s] = "sent" /\ on[s] = m
  /\ serving' = [serving EXCEPT ![m] = s] /\ handler' = [handler EXCEPT ![m] = "admit"]
  /\ UNCHANGED <<leaseVars, reverseMux, of, open, toClose, streamVars>>

\* Mutant: a stream is admitted to whatever lease its capability names.
AuthorizedAny(m, s) == Admit(cap[s])

Authorized(m, s) == Admit(cap[s]) /\ cap[s] = of[m]

\* admitReverseCapability and ConfirmReverseStream.
Confirm(m) ==
  /\ handler[m] = "admit"
  /\ LET s == serving[m] ok == Authorized(m, s) /\ m \in open IN
     /\ handler' = [handler EXCEPT ![m] = IF ok THEN "offer" ELSE "serve"]
     /\ stream' = [stream EXCEPT ![s] = IF ok THEN "accepted"
                                        ELSE IF m \in open THEN "rejected" ELSE "closed"]
     /\ vetted' = IF ok /\ of[m] = current THEN vetted \cup {s} ELSE vetted
     /\ serving' = [serving EXCEPT ![m] = IF ok THEN s ELSE None]
  /\ UNCHANGED <<leaseVars, reverseMux, of, open, toClose, cap, on, client>>

\* Offer parks the stream, or closes it: the queue is full, paused or closed.
OfferStream(m) ==
  /\ handler[m] = "offer"
  /\ \E kept \in BOOLEAN :
       /\ kept => of[m] \notin poolClosed
       /\ stream' = [stream EXCEPT ![serving[m]] = IF kept THEN "pooled" ELSE "closed"]
  /\ handler' = [handler EXCEPT ![m] = "serve"] /\ serving' = [serving EXCEPT ![m] = None]
  /\ UNCHANGED <<leaseVars, reverseMux, of, open, toClose, cap, on, client, vetted>>

\* Mutant: whoever leaves takes the record's session out.
DetachAny(m) == None

Detached(m) == IF reverseMux[of[m]] = m THEN None ELSE reverseMux[of[m]]

DetachReverseMux(m) ==
  /\ handler[m] = "serve" /\ m \notin open
  /\ reverseMux' = [reverseMux EXCEPT ![of[m]] = Detached(m)]
  /\ open' = open \ {m} /\ handler' = [handler EXCEPT ![m] = "done"]
  /\ UNCHANGED <<leaseVars, of, toClose, serving, streamVars>>

-----------------------------------------------------------------------------
(* The connector: ReverseMux.Open and authenticateReverseStream.                   *)

OpenStream(s, m, l) ==
  /\ stream[s] = None /\ m \in open
  /\ stream' = [stream EXCEPT ![s] = "sent"] /\ on' = [on EXCEPT ![s] = m]
  /\ cap' = [cap EXCEPT ![s] = l] /\ client' = [client EXCEPT ![s] = "wait"]
  /\ UNCHANGED <<leaseVars, reverseMux, handler, of, open, toClose, serving, vetted>>

\* The status byte arrives before whatever the relay does with the stream next.
StatusRead(s) ==
  /\ client[s] = "wait" /\ on[s] \in open
  /\ stream[s] \in {"accepted", "pooled", "rejected"}
  /\ client' = [client EXCEPT ![s] = IF stream[s] = "rejected" THEN "failed" ELSE "usable"]
  /\ UNCHANGED <<leaseVars, reverseMux, handler, of, open, toClose, serving, stream, cap, on, vetted>>

\* The session ends, the stream is closed, or the deadline or the context is over.
StatusFails(s) ==
  /\ client[s] = "wait"
  /\ client' = [client EXCEPT ![s] = "failed"]
  /\ UNCHANGED <<leaseVars, reverseMux, handler, of, open, toClose, serving, stream, cap, on, vetted>>

Handler(m) ==
  \/ AttachReverseMux(m) \/ Confirm(m) \/ OfferStream(m) \/ DetachReverseMux(m)
  \/ \E s \in Streams : AcceptStream(m, s)

Next ==
  \/ Register \/ Unregister \/ SetAccess
  \/ \E l \in Leases : CloseRecord(l) \/ ClosePool(l)
  \/ \E m \in Muxes : Connect(m) \/ Handler(m) \/ CloseTaken(m) \/ SessionLost(m)
  \/ \E s \in Streams :
       \/ StatusRead(s) \/ StatusFails(s)
       \/ \E m \in Muxes, l \in Leases : OpenStream(s, m, l)

Spec == Init /\ [][Next]_vars

TypeOK ==
  /\ granted \in 0..MaxLeases /\ current \in {0, granted} /\ recClosed \subseteq Leases
  /\ poolClosed \subseteq recClosed
  /\ reverseMux \in [Leases -> Muxes \cup {None}] /\ open \subseteq Muxes
  /\ handler \in [Muxes -> {None, "accepted", "serve", "admit", "offer", "done"}]
  /\ stream \in [Streams -> {None, "sent", "accepted", "rejected", "pooled", "closed"}]
  /\ client \in [Streams -> {None, "wait", "usable", "failed"}]

(* The session that is served and open is the record's own or is being closed; a   *)
(* late handler never takes out its replacement, and a closed record has none.     *)
CarrierOwned ==
  /\ \A m \in Muxes : (m \in open /\ handler[m] \in {"serve", "admit", "offer"})
       => reverseMux[of[m]] = m \/ m \in toClose
  /\ \A l \in Leases : l \in recClosed => reverseMux[l] = None
  /\ \A l \in Leases, m \in Muxes : reverseMux[l] = m => handler[m] # "done" /\ of[m] = l

(* A stream waits in a lease's queue, and the connector uses it, only when its own *)
(* capability was accepted while that lease was current and routable; a queue that *)
(* was closed holds none.                                                          *)
StreamsVetted ==
  \A s \in Streams :
    /\ stream[s] = "pooled" => cap[s] = of[on[s]] /\ s \in vetted /\ of[on[s]] \notin poolClosed
    /\ client[s] = "usable" => s \in vetted

(* A handler of a closed record that has not ended.                                *)
Lingers == \E m \in Muxes : handler[m] \notin {None, "done"} /\ of[m] \in recClosed
=============================================================================
