---------------------------- MODULE ReversePool ----------------------------
(***************************************************************************)
(* The pool of idle reverse connections of one lease                       *)
(* (portal/transport/reverse_pool.go).                                     *)
(*                                                                         *)
(* A tenant offers reverse connections; a public ingress acquires them.    *)
(* Between the two, one keepIdle goroutine per parked connection writes    *)
(* keepalives.  Every critical section of pool.mu is one action; what the  *)
(* code does outside the mutex (a keepalive write, closing a detached      *)
(* connection, waiting for a goroutine) is an action of its own, so all    *)
(* interleavings of offers, acquisitions, Pause, Close and the idle        *)
(* writers are explored.                                                   *)
(***************************************************************************)
EXTENDS Integers, Sequences, FiniteSets, Functions, TLC

CONSTANTS
  Conns,       \* reverse connections; each is offered at most once
  Acquirers,   \* goroutines that call Acquire, each with a context of its own
  readyLimit,  \* capacity of the ready queue; 0 means unlimited
  NoConn       \* the nil connection

ASSUME PoolAssumption ==
  /\ IsFiniteSet(Conns)
  /\ readyLimit \in Nat
  /\ NoConn \notin Conns

VARIABLES
  ready,      \* p.ready, oldest first
  reserved,   \* p.reserved
  paused,     \* p.paused
  closing,    \* p.closing
  offer,      \* progress of each connection's offerReservation
  open,       \* connections whose socket has not been closed
  stop,       \* connections whose stop channel is closed
  idler,      \* where each keepIdle goroutine is; "done": its done channel is closed
  err,        \* connections whose pooledConn.err is set
  pc,         \* where each Acquire call is
  held,       \* the connection an Acquire call has popped
  woken,      \* waiting Acquire calls whose captured notify channel is closed
  cancelled,  \* Acquire calls whose context is done
  handed,     \* connections Acquire has returned
  detached,   \* the lists that Pause's closeIdle functions still have to close
  closer,     \* where Close is
  closeList   \* the list Close still has to close

vars == <<ready, reserved, paused, closing, offer, open, stop, idler, err, pc,
          held, woken, cancelled, handed, detached, closer, closeList>>

offerVars == <<reserved, offer>>
idleVars == <<idler, err>>
acquireVars == <<pc, held, woken, cancelled, handed>>
closeVars == <<closing, closer, closeList>>

----------------------------------------------------------------------------
(* Helpers *)

\* Mutants: a signal that reaches one waiter; a signal that is forgotten.
signalLockedOne ==
  \/ \E a \in Acquirers : pc[a] = "waiting" /\ woken' = woken \cup {a}
  \/ (\A a \in Acquirers : pc[a] # "waiting") /\ UNCHANGED woken
signalLockedDropped == UNCHANGED woken

\* signalLocked: closing the notify channel wakes every call that captured it.
signalLocked == woken' = {a \in Acquirers : pc[a] = "waiting"} \cup woken

\* Mutant: the reservation ends without waking Close.
BroadcastDropped == UNCHANGED closer

\* cond.Broadcast: only Close waits on the condition variable.
Broadcast == closer' = IF closer = "sleeping" THEN "woken" ELSE closer

\* append(s[:i], s[i+1:]...): s without its i-th element.
Without(s, i) == SubSeq(s, 1, i - 1) \o SubSeq(s, i + 1, Len(s))

\* detachReadyLocked: empty the queue and tell every idle writer to stop.
detachReadyLocked ==
  /\ ready' = <<>>
  /\ stop' = stop \cup Range(ready)

\* Mutant: outstanding reservations do not count.
FullIgnoresReserved == readyLimit > 0 /\ Len(ready) >= readyLimit

\* ReserveOffer's capacity test.
Full == readyLimit > 0 /\ Len(ready) + reserved >= readyLimit

\* Mutant: Commit does not look at paused.
ParkableAlways == TRUE

\* Commit's test of paused.
Parkable == ~paused

\* Mutant: handing over as soon as the writer was told to stop.
JoinedOnStop(c) == c \in stop

\* <-c.done: the idle writer has ended.
Joined(c) == idler[c] = "done"

Init ==
  /\ ready = <<>>
  /\ reserved = 0
  /\ paused = FALSE
  /\ closing = FALSE
  /\ offer = [c \in Conns |-> "none"]
  /\ open = Conns
  /\ stop = {}
  /\ idler = [c \in Conns |-> "none"]
  /\ err = {}
  /\ pc = [a \in Acquirers |-> "idle"]
  /\ held = [a \in Acquirers |-> NoConn]
  /\ woken = {}
  /\ cancelled = {}
  /\ handed = {}
  /\ detached = {}
  /\ closer = "none"
  /\ closeList = <<>>

----------------------------------------------------------------------------
(* Offering *)

\* A full or closing pool refuses the offer and the caller closes conn.
ReserveOfferRefused(c) ==
  /\ offer[c] = "none"
  /\ closing \/ Full
  /\ offer' = [offer EXCEPT ![c] = "done"]
  /\ open' = open \ {c}
  /\ UNCHANGED <<ready, reserved, paused, stop, detached>>
  /\ UNCHANGED <<idleVars, acquireVars, closeVars>>

ReserveOffer(c) ==
  /\ offer[c] = "none"
  /\ ~closing
  /\ ~Full
  /\ offer' = [offer EXCEPT ![c] = "reserved"]
  /\ reserved' = reserved + 1
  /\ UNCHANGED <<ready, paused, open, stop, detached>>
  /\ UNCHANGED <<idleVars, acquireVars, closeVars>>

\* Commit parks the connection and starts its idle writer.  Pause is checked
\* here and only here; a closing pool still takes the connection, because
\* Close is waiting for this reservation and detaches it afterwards.
CommitParked(c) ==
  /\ offer[c] = "reserved"
  /\ Parkable
  /\ offer' = [offer EXCEPT ![c] = "committed"]
  /\ reserved' = reserved - 1
  /\ ready' = Append(ready, c)
  /\ idler' = [idler EXCEPT ![c] = "select"]
  /\ signalLocked
  /\ Broadcast
  /\ UNCHANGED <<paused, closing, open, stop, err, pc, held, cancelled,
                 handed, detached, closeList>>

\* A paused pool refuses the commit; the caller closes conn.
CommitPaused(c) ==
  /\ offer[c] = "reserved"
  /\ ~Parkable
  /\ offer' = [offer EXCEPT ![c] = "committed"]
  /\ reserved' = reserved - 1
  /\ open' = open \ {c}
  /\ Broadcast
  /\ UNCHANGED <<ready, paused, closing, stop, detached, closeList>>
  /\ UNCHANGED <<idleVars, acquireVars>>

\* Mutant: Cancel without the finished test releases a committed reservation.
CancelTwice(c) ==
  /\ offer[c] \in {"reserved", "committed"}
  /\ offer' = [offer EXCEPT ![c] = "done"]
  /\ reserved' = reserved - 1
  /\ Broadcast
  /\ open' = IF offer[c] = "reserved" THEN open \ {c} ELSE open
  /\ UNCHANGED <<ready, paused, closing, stop, detached, closeList>>
  /\ UNCHANGED <<idleVars, acquireVars>>

\* The deferred Cancel of admitReverseOffer.  It runs after Commit too, where
\* finished makes it a no-op; without a commit (the accept status could not be
\* written) the caller has closed conn.
Cancel(c) ==
  /\ offer[c] \in {"reserved", "committed"}
  /\ offer' = [offer EXCEPT ![c] = "done"]
  /\ \/ /\ offer[c] = "reserved"
        /\ reserved' = reserved - 1
        /\ open' = open \ {c}
        /\ Broadcast
     \/ /\ offer[c] = "committed"
        /\ UNCHANGED <<reserved, open, closer>>
  /\ UNCHANGED <<ready, paused, closing, stop, detached, closeList>>
  /\ UNCHANGED <<idleVars, acquireVars>>

----------------------------------------------------------------------------
(* The idle writer of a parked connection *)

\* The select of keepIdle sees stop closed.
keepIdleStop(c) ==
  /\ idler[c] = "select"
  /\ c \in stop
  /\ idler' = [idler EXCEPT ![c] = "done"]
  /\ UNCHANGED <<ready, paused, open, stop, err, detached>>
  /\ UNCHANGED <<offerVars, acquireVars, closeVars>>

\* The ticker fires.  A select with two ready cases picks either, so this may
\* happen after stop was closed.
keepIdleTick(c) ==
  /\ idler[c] = "select"
  /\ idler' = [idler EXCEPT ![c] = "writing"]
  /\ UNCHANGED <<ready, paused, open, stop, err, detached>>
  /\ UNCHANGED <<offerVars, acquireVars, closeVars>>

\* WriteKeepalive returns; a write on a closed socket cannot succeed.
keepIdleWritten(c) ==
  /\ idler[c] = "writing"
  /\ c \in open
  /\ idler' = [idler EXCEPT ![c] = "select"]
  /\ UNCHANGED <<ready, paused, open, stop, err, detached>>
  /\ UNCHANGED <<offerVars, acquireVars, closeVars>>

\* The peer is gone, or the socket was closed under the write.
keepIdleFailed(c) ==
  /\ idler[c] = "writing"
  /\ idler' = [idler EXCEPT ![c] = "failed"]
  /\ err' = err \cup {c}
  /\ open' = open \ {c}
  /\ UNCHANGED <<ready, paused, stop, detached>>
  /\ UNCHANGED <<offerVars, acquireVars, closeVars>>

\* The failed writer takes the mutex and leaves the queue if it is still there.
keepIdleRemove(c) ==
  /\ idler[c] = "failed"
  /\ idler' = [idler EXCEPT ![c] = "done"]
  /\ \/ \E i \in DOMAIN ready : ready[i] = c /\ ready' = Without(ready, i)
     \/ c \notin Range(ready) /\ UNCHANGED ready
  /\ UNCHANGED <<paused, open, stop, err, detached>>
  /\ UNCHANGED <<offerVars, acquireVars, closeVars>>

----------------------------------------------------------------------------
(* Acquire *)

\* The context of a call ends: the public client is gone or the lease revoked.
CancelContext(a) ==
  /\ pc[a] # "failed"
  /\ a \notin cancelled
  /\ cancelled' = cancelled \cup {a}
  /\ UNCHANGED <<ready, paused, open, stop, pc, held, woken, handed, detached>>
  /\ UNCHANGED <<offerVars, idleVars, closeVars>>

\* The top of the loop: a new call, or one that was woken or found its
\* connection broken.
AcquireRefused(a) ==
  /\ pc[a] \in {"idle", "loop"}
  /\ a \in cancelled \/ closing
  /\ pc' = [pc EXCEPT ![a] = "failed"]
  /\ UNCHANGED <<ready, paused, open, stop, held, woken, cancelled, handed, detached>>
  /\ UNCHANGED <<offerVars, idleVars, closeVars>>

AcquirePop(a) ==
  /\ pc[a] \in {"idle", "loop"}
  /\ a \notin cancelled
  /\ ~closing
  /\ ready # <<>>
  /\ held' = [held EXCEPT ![a] = Head(ready)]
  /\ ready' = Tail(ready)
  /\ stop' = stop \cup {Head(ready)}
  /\ pc' = [pc EXCEPT ![a] = "stopping"]
  /\ UNCHANGED <<paused, open, woken, cancelled, handed, detached>>
  /\ UNCHANGED <<offerVars, idleVars, closeVars>>

\* The queue is empty: capture notify under the mutex and wait.
AcquireWait(a) ==
  /\ pc[a] \in {"idle", "loop"}
  /\ a \notin cancelled
  /\ ~closing
  /\ ready = <<>>
  /\ pc' = [pc EXCEPT ![a] = "waiting"]
  /\ UNCHANGED <<ready, paused, open, stop, held, woken, cancelled, handed, detached>>
  /\ UNCHANGED <<offerVars, idleVars, closeVars>>

AcquireWake(a) ==
  /\ pc[a] = "waiting"
  /\ a \in woken
  /\ pc' = [pc EXCEPT ![a] = "loop"]
  /\ woken' = woken \ {a}
  /\ UNCHANGED <<ready, paused, open, stop, held, cancelled, handed, detached>>
  /\ UNCHANGED <<offerVars, idleVars, closeVars>>

AcquireWaitCancelled(a) ==
  /\ pc[a] = "waiting"
  /\ a \in cancelled
  /\ pc' = [pc EXCEPT ![a] = "failed"]
  /\ woken' = woken \ {a}
  /\ UNCHANGED <<ready, paused, open, stop, held, cancelled, handed, detached>>
  /\ UNCHANGED <<offerVars, idleVars, closeVars>>

\* The idle writer has stopped.  Its error sends the call back to the loop, a
\* context that ended meanwhile closes the connection, and otherwise the
\* connection is the caller's, who may call Acquire again for another one.
AcquireStopped(a) ==
  /\ pc[a] = "stopping"
  /\ Joined(held[a])
  /\ held' = [held EXCEPT ![a] = NoConn]
  /\ \/ /\ held[a] \in err
        /\ pc' = [pc EXCEPT ![a] = "loop"]
        /\ UNCHANGED <<open, handed>>
     \/ /\ held[a] \notin err
        /\ a \in cancelled
        /\ pc' = [pc EXCEPT ![a] = "failed"]
        /\ open' = open \ {held[a]}
        /\ UNCHANGED handed
     \/ /\ held[a] \notin err
        /\ a \notin cancelled
        /\ pc' = [pc EXCEPT ![a] = "idle"]
        /\ handed' = handed \cup {held[a]}
        /\ UNCHANGED open
  /\ UNCHANGED <<ready, paused, stop, woken, cancelled, detached>>
  /\ UNCHANGED <<offerVars, idleVars, closeVars>>

\* The context ends while the idle writer is still busy: close the connection
\* to interrupt it, then wait for the writer before returning.
AcquireAbandon(a) ==
  /\ pc[a] = "stopping"
  /\ a \in cancelled
  /\ pc' = [pc EXCEPT ![a] = "draining"]
  /\ open' = open \ {held[a]}
  /\ UNCHANGED <<ready, paused, stop, held, woken, cancelled, handed, detached>>
  /\ UNCHANGED <<offerVars, idleVars, closeVars>>

AcquireDrained(a) ==
  /\ pc[a] = "draining"
  /\ Joined(held[a])
  /\ pc' = [pc EXCEPT ![a] = "failed"]
  /\ held' = [held EXCEPT ![a] = NoConn]
  /\ UNCHANGED <<ready, paused, open, stop, woken, cancelled, handed, detached>>
  /\ UNCHANGED <<offerVars, idleVars, closeVars>>

----------------------------------------------------------------------------
(* Pause, Resume and Close *)

\* Pause returns a closeIdle function only when it detached something.
Pause ==
  /\ paused' = TRUE
  /\ detachReadyLocked
  /\ detached' = detached \cup ({ready} \ {<<>>})
  /\ UNCHANGED open
  /\ UNCHANGED <<offerVars, idleVars, acquireVars, closeVars>>

Resume ==
  /\ paused' = FALSE
  /\ UNCHANGED <<ready, open, stop, detached>>
  /\ UNCHANGED <<offerVars, idleVars, acquireVars, closeVars>>

\* closeDetached, run by the caller of Pause outside every lock: close the
\* next connection of the list, then wait for its idle writer.
closeIdleClose(list) ==
  /\ Head(list) \in open
  /\ open' = open \ {Head(list)}
  /\ UNCHANGED <<ready, paused, stop, detached>>
  /\ UNCHANGED <<offerVars, idleVars, acquireVars, closeVars>>

closeIdleWait(list) ==
  /\ Head(list) \notin open
  /\ Joined(Head(list))
  /\ detached' = (detached \ {list}) \cup ({Tail(list)} \ {<<>>})
  /\ UNCHANGED <<ready, paused, open, stop>>
  /\ UNCHANGED <<offerVars, idleVars, acquireVars, closeVars>>

\* Close, up to the loop on the condition variable.
CloseStart ==
  /\ closer = "none"
  /\ closing' = TRUE
  /\ closer' = IF reserved > 0 THEN "sleeping" ELSE "woken"
  /\ signalLocked
  /\ UNCHANGED <<ready, paused, open, stop, detached, closeList, pc, held,
                 cancelled, handed>>
  /\ UNCHANGED <<offerVars, idleVars>>

\* Mutant: "if" in place of "for" around cond.Wait.
CloseRecheckOnce ==
  /\ closer = "woken"
  /\ closer' = "closing"
  /\ closeList' = ready
  /\ detachReadyLocked
  /\ UNCHANGED <<paused, closing, open, detached>>
  /\ UNCHANGED <<offerVars, idleVars, acquireVars>>

\* cond.Wait returned: wait again, or detach what is queued.
CloseRecheck ==
  /\ closer = "woken"
  /\ \/ /\ reserved > 0
        /\ closer' = "sleeping"
        /\ UNCHANGED <<ready, stop, closeList>>
     \/ /\ reserved = 0
        /\ closer' = "closing"
        /\ closeList' = ready
        /\ detachReadyLocked
  /\ UNCHANGED <<paused, closing, open, detached>>
  /\ UNCHANGED <<offerVars, idleVars, acquireVars>>

\* closeDetached again, this time for the list of Close.
CloseDetachedClose ==
  /\ closer = "closing"
  /\ closeList # <<>>
  /\ Head(closeList) \in open
  /\ open' = open \ {Head(closeList)}
  /\ UNCHANGED <<ready, paused, stop, detached>>
  /\ UNCHANGED <<offerVars, idleVars, acquireVars, closeVars>>

CloseDetachedWait ==
  /\ closer = "closing"
  /\ closeList # <<>>
  /\ Head(closeList) \notin open
  /\ Joined(Head(closeList))
  /\ closeList' = Tail(closeList)
  /\ UNCHANGED <<ready, paused, open, stop, detached, closing, closer>>
  /\ UNCHANGED <<offerVars, idleVars, acquireVars>>

CloseReturn ==
  /\ closer = "closing"
  /\ closeList = <<>>
  /\ closer' = "returned"
  /\ UNCHANGED <<ready, paused, open, stop, detached, closing, closeList>>
  /\ UNCHANGED <<offerVars, idleVars, acquireVars>>

----------------------------------------------------------------------------
OfferStep(c) ==
  ReserveOfferRefused(c) \/ ReserveOffer(c) \/ CommitParked(c) \/ CommitPaused(c) \/ Cancel(c)

IdleStep(c) ==
  keepIdleStop(c) \/ keepIdleTick(c) \/ keepIdleWritten(c) \/ keepIdleFailed(c) \/ keepIdleRemove(c)

AcquireStep(a) ==
  \/ AcquireRefused(a) \/ AcquirePop(a) \/ AcquireWait(a) \/ AcquireWake(a)
  \/ AcquireWaitCancelled(a) \/ AcquireStopped(a) \/ AcquireAbandon(a) \/ AcquireDrained(a)

CloseIdleStep(list) == closeIdleClose(list) \/ closeIdleWait(list)

CloseStep == CloseRecheck \/ CloseDetachedClose \/ CloseDetachedWait \/ CloseReturn

Next ==
  \/ \E c \in Conns : OfferStep(c) \/ IdleStep(c)
  \/ \E a \in Acquirers : AcquireStep(a) \/ CancelContext(a)
  \/ Pause \/ Resume
  \/ \E list \in detached : CloseIdleStep(list)
  \/ CloseStart \/ CloseStep

Spec == Init /\ [][Next]_vars

\* Fairness: goroutines are scheduled; the accept status and every keepalive
\* are written under a deadline, so the write returns and the reservation is
\* committed or cancelled; and a select that keeps finding stop closed
\* eventually picks that case (strong fairness).  Nothing makes a client offer,
\* a caller acquire or an operator pause.
Fairness ==
  /\ \A c \in Conns :
       /\ WF_vars(CommitParked(c) \/ CommitPaused(c) \/ Cancel(c))
       /\ WF_vars(keepIdleWritten(c) \/ keepIdleFailed(c))
       /\ WF_vars(keepIdleRemove(c))
       /\ SF_vars(keepIdleStop(c))
  /\ \A a \in Acquirers : WF_vars(pc[a] # "idle" /\ AcquireStep(a))
  /\ WF_vars(\E list \in detached : CloseIdleStep(list))
  /\ WF_vars(CloseStep)

FairSpec == Spec /\ Fairness

----------------------------------------------------------------------------
(* Properties *)

TypeOK ==
  /\ ready \in Seq(Conns)
  /\ reserved \in Nat
  /\ paused \in BOOLEAN
  /\ closing \in BOOLEAN
  /\ offer \in [Conns -> {"none", "reserved", "committed", "done"}]
  /\ open \subseteq Conns
  /\ stop \subseteq Conns
  /\ idler \in [Conns -> {"none", "select", "writing", "failed", "done"}]
  /\ err \subseteq Conns
  /\ pc \in [Acquirers -> {"idle", "loop", "waiting", "stopping", "draining", "failed"}]
  /\ held \in [Acquirers -> Conns \cup {NoConn}]
  /\ woken \subseteq Acquirers
  /\ cancelled \subseteq Acquirers
  /\ handed \subseteq Conns
  /\ detached \subseteq Seq(Conns)
  /\ closer \in {"none", "sleeping", "woken", "closing", "returned"}
  /\ closeList \in Seq(Conns)

\* Connections some Acquire call has popped and not yet returned or dropped.
Claimed == {held[a] : a \in Acquirers} \ {NoConn}

\* Connections a closeDetached loop still has to close or wait for.
Leaving == (UNION {Range(list) : list \in detached}) \cup Range(closeList)

\* The reservation counter is exactly the number of unfinished reservations,
\* although Commit and the deferred Cancel both run for one reservation.
\* (reserved guards both the capacity and the wait of Close.)
ReservationsExact == reserved = Cardinality({c \in Conns : offer[c] = "reserved"})

\* Parked and reserved connections together never exceed the limit, with
\* reservations and commits of different offers interleaved (ReserveOffer).
CapacityRespected == readyLimit > 0 => Len(ready) + reserved <= readyLimit

\* The pool never gives one connection to two owners: it is queued once,
\* popped by one call, in one list being closed, or handed out once.
SingleCustody ==
  /\ IsInjective(ready)
  /\ \A a, b \in Acquirers : held[a] = held[b] /\ held[a] # NoConn => a = b
  /\ Range(ready) \cap (Claimed \cup Leaving \cup handed) = {}
  /\ Claimed \cap (Leaving \cup handed) = {}
  /\ Leaving \cap handed = {}

\* A connection that Acquire returned is open, its keepalives never failed, and
\* its idle writer has ended: no keepalive can land inside the tunnelled bytes.
QuietHandover == \A c \in handed : c \in open /\ c \notin err /\ idler[c] = "done"

\* An Acquire call sleeps only while there is nothing to acquire: whoever waits
\* on an unclosed notify channel finds the queue empty and the pool not closing.
NoLostWakeup ==
  \A a \in Acquirers : pc[a] = "waiting" /\ a \notin woken => ready = <<>> /\ ~closing

\* While the pool is paused no connection is parked, although an offer admitted
\* before Pause may commit after it (a suspended lease must not look ready).
PausedParksNothing == paused => ready = <<>>

\* A parked connection is never forgotten: until its socket is closed and its
\* writer has ended it is queued, claimed by a call, being closed, or handed out.
NoOrphan ==
  \A c \in Conns :
    /\ idler[c] # "none"
    /\ c \in open \/ idler[c] # "done"
    => c \in Range(ready) \cup Claimed \cup Leaving \cup handed

\* Every connection that was ever parked has one owner that will use it or close it:
\* no double use, no write into a tunnel, no leak (Acquire, Pause, Close and keepIdle
\* take connections from each other).
ConnectionOwned == SingleCustody /\ QuietHandover /\ NoOrphan

\* The queue stays within its limit, is empty while paused, and no Acquire call
\* sleeps beside it (ReserveOffer, Commit and signalLocked).
QueueInv == CapacityRespected /\ PausedParksNothing /\ NoLostWakeup

\* Once Close has returned, the queue stays empty and no offer is outstanding,
\* so every connection it found or waited for has been closed and joined.
ClosedIsFinal ==
  closer = "returned" => ready = <<>> /\ reserved = 0 /\ closeList = <<>>

\* The promise of IdlePool: seen from outside, a connection is idle while it is
\* queued, and gone as soon as Pause, Close or its own writer takes it out.
Custody ==
  LET queued == Range(ready)
      claimed == Claimed
  IN [c \in Conns |->
    IF c \in handed THEN "lent"
    ELSE IF c \in queued THEN "idle"
    ELSE IF c \in claimed THEN "claimed"
    ELSE IF idler[c] # "none" \/ c \notin open THEN "gone"
    ELSE "out"]

Contract == INSTANCE IdlePool WITH
  limit <- readyLimit, custody <- Custody, suspended <- paused,
  shut <- closer \in {"closing", "returned"}

\* The pool implements IdlePool: connections only move forward through their
\* owners, the parked ones stay within the limit, Pause and Close empty the
\* queue in one step, and no connection is parked after either.
ContractSpec == Contract!Spec

\* Close terminates: the reservations it waits for finish, each one wakes it,
\* and every idle writer it has to join ends.
CloseTerminates == (closer # "none") ~> (closer = "returned")

\* A call of Acquire whose context ends, or whose pool is closing, returns, whichever
\* of its waits it was in (Acquire and signalLocked).
AcquireReturns ==
  \A a \in Acquirers :
    (pc[a] # "idle" /\ (a \in cancelled \/ closing)) ~> (pc[a] \in {"idle", "failed"})

\* Connections and callers of Acquire are interchangeable.
Symmetry == Permutations(Conns) \cup Permutations(Acquirers)
=============================================================================
