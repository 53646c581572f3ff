------------------------- MODULE ReversePoolProofs -------------------------
(***************************************************************************)
(* Proofs about the reverse pool, for any number of connections and        *)
(* callers and any limit.  The inductive invariant PoolInv joins the type  *)
(* invariant and the exact reservation count with the facts each needs of  *)
(* the other: a call that stops or drains holds a connection, no list that *)
(* is being closed is empty, and Close has passed its wait only when       *)
(* nothing is reserved or queued.                                          *)
(***************************************************************************)
EXTENDS ReversePool, FiniteSetTheorems, SequenceTheorems, TLAPS

\* A leaf that names no prover is given to the SMT solver, then to Zenon, for up to half a
\* minute each.
USE SMTT(30), ZenonT(30)

HeldWhilePopped ==
  \A a \in Acquirers : pc[a] \in {"stopping", "draining"} => held[a] \in Conns

ListsNonEmpty == <<>> \notin detached

CloseOrder ==
  /\ closing <=> closer # "none"
  /\ closer \in {"closing", "returned"} => reserved = 0 /\ ready = <<>>
  /\ closer = "returned" => closeList = <<>>

PoolInv == TypeOK /\ ReservationsExact /\ HeldWhilePopped /\ ListsNonEmpty /\ CloseOrder

Reserved == {c \in Conns : offer[c] = "reserved"}

----------------------------------------------------------------------------
(* Facts about the operators *)

\* Removing one position of a sequence keeps its elements' type and shortens
\* it by one (keepIdle taking a failed connection out of the queue).
LEMMA WithoutShortens ==
  ASSUME NEW S, NEW s \in Seq(S), NEW i \in DOMAIN s
  PROVE  /\ Without(s, i) \in Seq(S)
         /\ Len(Without(s, i)) = Len(s) - 1
<1> i \in 1..Len(s) /\ Len(s) \in Nat
  BY LenProperties
<1> DEFINE front == SubSeq(s, 1, i - 1)
           back == SubSeq(s, i + 1, Len(s))
<1>1. front \in Seq(S) /\ Len(front) = i - 1
  <2>1. \A j \in 1..(i - 1) : s[j] \in S
    BY ElementOfSeq
  <2> QED
    BY <2>1, SubSeqProperties
<1>2. back \in Seq(S) /\ Len(back) = Len(s) - i
  <2>1. \A j \in (i + 1)..Len(s) : s[j] \in S
    BY ElementOfSeq
  <2> QED
    BY <2>1, SubSeqProperties
<1>3. front \o back \in Seq(S) /\ Len(front \o back) = Len(front) + Len(back)
  BY <1>1, <1>2, ConcatProperties
<1> HIDE DEF front, back
<1>4. Without(s, i) = front \o back
  BY DEF Without, front, back
<1>5. Len(front) + Len(back) = Len(s) - 1
  BY <1>1, <1>2
<1> QED
  BY <1>3, <1>4, <1>5

\* A connection that begins or ends its reservation moves the number of
\* reservations by exactly one.
LEMMA ReservedCount ==
  ASSUME TypeOK, NEW c \in Conns
  PROVE  /\ Cardinality(Reserved) \in Nat
         /\ offer[c] = "none" /\ offer' = [offer EXCEPT ![c] = "reserved"]
              => Cardinality(Reserved') = Cardinality(Reserved) + 1
         /\ \A v \in {"committed", "done"} :
              offer[c] = "reserved" /\ offer' = [offer EXCEPT ![c] = v]
              => /\ Cardinality(Reserved') = Cardinality(Reserved) - 1
                 /\ Cardinality(Reserved) > 0
<1>1. IsFiniteSet(Reserved) /\ Cardinality(Reserved) \in Nat
  BY PoolAssumption, FS_Subset, FS_CardinalityType DEF Reserved
<1>2. ASSUME offer[c] = "none", offer' = [offer EXCEPT ![c] = "reserved"]
      PROVE  Cardinality(Reserved') = Cardinality(Reserved) + 1
  <2>1. Reserved' = Reserved \cup {c} /\ c \notin Reserved
    BY <1>2 DEF Reserved, TypeOK
  <2> QED
    BY <1>1, <2>1, FS_AddElement
<1>3. ASSUME NEW v \in {"committed", "done"},
             offer[c] = "reserved", offer' = [offer EXCEPT ![c] = v]
      PROVE  /\ Cardinality(Reserved') = Cardinality(Reserved) - 1
             /\ Cardinality(Reserved) > 0
  <2>1. Reserved' = Reserved \ {c} /\ c \in Reserved
    BY <1>3 DEF Reserved, TypeOK
  <2>2. Cardinality(Reserved) # 0
    BY <1>1, <2>1, FS_EmptySet
  <2>3. Cardinality(Reserved \ {c}) = Cardinality(Reserved) - 1
    BY <1>1, <2>1, FS_RemoveElement
  <2> QED
    BY <1>1, <2>1, <2>2, <2>3
<1> QED
  BY <1>1, <1>2, <1>3

\* A change of progress that neither begins nor ends a reservation keeps the
\* number of reservations.
LEMMA ReservedSame ==
  ASSUME TypeOK, NEW c \in Conns, NEW v \in {"committed", "done"},
         offer[c] \in {"none", "committed"}, offer' = [offer EXCEPT ![c] = v]
  PROVE  Reserved' = Reserved
BY DEF Reserved, TypeOK

----------------------------------------------------------------------------
(* The inductive invariant *)

\* A new pool (NewReversePool) has no reservation, no queue and no call under way.
LEMMA PoolInvInit == Init => PoolInv
<1> SUFFICES ASSUME Init PROVE PoolInv
  OBVIOUS
<1>1. {c \in Conns : offer[c] = "reserved"} = {}
  BY DEF Init
<1>2. Cardinality({}) = 0
  BY FS_EmptySet
<1>3. TypeOK
  BY EmptySeq, ZenonT(30) DEF Init, TypeOK
<1>4. ReservationsExact
  BY <1>1, <1>2, ZenonT(30) DEF Init, ReservationsExact
<1> QED
  BY <1>3, <1>4 DEF Init, PoolInv, HeldWhilePopped, ListsNonEmpty, CloseOrder

\* The steps of an offer (ReserveOffer, Commit, Cancel) preserve the invariant.
LEMMA OfferStepInv ==
  ASSUME PoolInv, NEW c \in Conns, OfferStep(c)
  PROVE  PoolInv'
<1> USE DEF PoolInv, offerVars, idleVars, acquireVars, closeVars
<1>0. /\ ReservationsExact <=> reserved = Cardinality(Reserved)
      /\ ReservationsExact' <=> reserved' = Cardinality(Reserved')
  BY DEF ReservationsExact, Reserved
<1>1. CASE ReserveOfferRefused(c)
  <2>1. Reserved' = Reserved
    BY <1>1, ReservedSame, ZenonT(30) DEF ReserveOfferRefused
  <2>2. ReservationsExact'
    BY <1>0, <1>1, <2>1 DEF ReserveOfferRefused
  <2> QED
    BY <1>1, <2>2 DEF ReserveOfferRefused, TypeOK, HeldWhilePopped, ListsNonEmpty, CloseOrder
<1>2. CASE ReserveOffer(c)
  <2>1. ReservationsExact'
    BY <1>0, <1>2, ReservedCount, ZenonT(30) DEF ReserveOffer
  <2> QED
    BY <1>2, <2>1 DEF ReserveOffer, TypeOK, HeldWhilePopped, ListsNonEmpty, CloseOrder
<1>3. CASE CommitParked(c)
  <2>1. ReservationsExact' /\ reserved > 0
    BY <1>0, <1>3, ReservedCount, ZenonT(30) DEF CommitParked
  <2> QED
    BY <1>3, <2>1 DEF CommitParked, TypeOK, HeldWhilePopped, ListsNonEmpty, CloseOrder,
       signalLocked, Broadcast
<1>4. CASE CommitPaused(c)
  <2>1. ReservationsExact' /\ reserved > 0
    BY <1>0, <1>4, ReservedCount, ZenonT(30) DEF CommitPaused
  <2> QED
    BY <1>4, <2>1 DEF CommitPaused, TypeOK, HeldWhilePopped, ListsNonEmpty, CloseOrder, Broadcast
<1>5. CASE Cancel(c)
  <2>1. CASE offer[c] = "reserved"
    <3>1. ReservationsExact' /\ reserved > 0
      BY <1>0, <1>5, <2>1, ReservedCount, ZenonT(30) DEF Cancel
    <3> QED
      BY <1>5, <2>1, <3>1 DEF Cancel, TypeOK, HeldWhilePopped, ListsNonEmpty, CloseOrder, Broadcast
  <2>2. CASE offer[c] = "committed"
    <3>1. Reserved' = Reserved
      BY <1>5, <2>2, ReservedSame, ZenonT(30) DEF Cancel
    <3>2. ReservationsExact'
      BY <1>0, <1>5, <2>2, <3>1 DEF Cancel
    <3> QED
      BY <1>5, <2>2, <3>2 DEF Cancel, TypeOK, HeldWhilePopped, ListsNonEmpty, CloseOrder
  <2> QED
    BY <1>5, <2>1, <2>2 DEF Cancel
<1> QED
  BY <1>1, <1>2, <1>3, <1>4, <1>5 DEF OfferStep

\* The steps of an idle writer (keepIdle) preserve it.
LEMMA IdleStepInv ==
  ASSUME PoolInv, NEW c \in Conns, IdleStep(c)
  PROVE  PoolInv'
<1> USE DEF PoolInv, TypeOK, ReservationsExact, HeldWhilePopped, ListsNonEmpty, CloseOrder,
            offerVars, idleVars, acquireVars, closeVars
<1>1. CASE keepIdleStop(c)
  BY <1>1 DEF keepIdleStop
<1>2. CASE keepIdleTick(c)
  BY <1>2 DEF keepIdleTick
<1>3. CASE keepIdleWritten(c)
  BY <1>3 DEF keepIdleWritten
<1>4. CASE keepIdleFailed(c)
  BY <1>4 DEF keepIdleFailed
<1>5. CASE keepIdleRemove(c)
  BY <1>5, WithoutShortens DEF keepIdleRemove
<1> QED
  BY <1>1, <1>2, <1>3, <1>4, <1>5 DEF IdleStep

\* The steps of Acquire, and the end of its context, preserve it.
LEMMA AcquireStepInv ==
  ASSUME PoolInv, NEW a \in Acquirers, AcquireStep(a) \/ CancelContext(a)
  PROVE  PoolInv'
<1> USE DEF PoolInv, TypeOK, ReservationsExact, HeldWhilePopped, ListsNonEmpty, CloseOrder,
            offerVars, idleVars, acquireVars, closeVars
<1>1. CASE AcquireRefused(a)
  BY <1>1 DEF AcquireRefused
<1>2. CASE AcquirePop(a)
  BY <1>2, HeadTailProperties DEF AcquirePop
<1>3. CASE AcquireWait(a)
  BY <1>3 DEF AcquireWait
<1>4. CASE AcquireWake(a)
  BY <1>4 DEF AcquireWake
<1>5. CASE AcquireWaitCancelled(a)
  BY <1>5 DEF AcquireWaitCancelled
<1>6. CASE AcquireStopped(a)
  BY <1>6 DEF AcquireStopped, Joined
<1>7. CASE AcquireAbandon(a)
  BY <1>7 DEF AcquireAbandon
<1>8. CASE AcquireDrained(a)
  BY <1>8 DEF AcquireDrained
<1>9. CASE CancelContext(a)
  BY <1>9 DEF CancelContext
<1> QED
  BY <1>1, <1>2, <1>3, <1>4, <1>5, <1>6, <1>7, <1>8, <1>9 DEF AcquireStep

\* Pause, Resume and the closing of a detached list (closeIdle) preserve it.
LEMMA PauseInv ==
  ASSUME PoolInv, Pause \/ Resume \/ \E list \in detached : CloseIdleStep(list)
  PROVE  PoolInv'
<1> USE DEF PoolInv, TypeOK, ReservationsExact, HeldWhilePopped, ListsNonEmpty, CloseOrder,
            offerVars, idleVars, acquireVars, closeVars
<1>1. CASE Pause
  BY <1>1 DEF Pause, detachReadyLocked, Range
<1>2. CASE Resume
  BY <1>2, ZenonT(30) DEF Resume
<1>3. CASE \E list \in detached : closeIdleClose(list)
  BY <1>3 DEF closeIdleClose
<1>4. CASE \E list \in detached : closeIdleWait(list)
  <2>1. PICK list \in detached : closeIdleWait(list)
    BY <1>4
  <2>2. Tail(list) \in Seq(Conns)
    BY HeadTailProperties
  <2>3. detached' \subseteq Seq(Conns) /\ <<>> \notin detached'
    BY <2>1, <2>2, ZenonT(30) DEF closeIdleWait
  <2> QED
    BY <2>1, <2>3 DEF closeIdleWait
<1> QED
  BY <1>1, <1>2, <1>3, <1>4 DEF CloseIdleStep

\* The steps of Close preserve it: none begins before the reservations have ended.
LEMMA CloseStepInv ==
  ASSUME PoolInv, CloseStart \/ CloseStep
  PROVE  PoolInv'
<1> USE DEF PoolInv, TypeOK, ReservationsExact, HeldWhilePopped, ListsNonEmpty, CloseOrder,
            offerVars, idleVars, acquireVars, closeVars
<1>1. CASE CloseStart
  BY <1>1 DEF CloseStart, signalLocked
<1>2. CASE CloseRecheck
  <2>1. Range(ready) \subseteq Conns
    BY DEF Range
  <2>2. CASE reserved > 0
    BY <1>2, <2>2 DEF CloseRecheck
  <2>3. CASE reserved = 0
    BY <1>2, <2>1, <2>3 DEF CloseRecheck, detachReadyLocked
  <2> QED
    BY <2>2, <2>3
<1>3. CASE CloseDetachedClose
  BY <1>3 DEF CloseDetachedClose
<1>4. CASE CloseDetachedWait
  BY <1>4, HeadTailProperties DEF CloseDetachedWait
<1>5. CASE CloseReturn
  BY <1>5 DEF CloseReturn
<1> QED
  BY <1>1, <1>2, <1>3, <1>4, <1>5 DEF CloseStep

\* Every step of the pool preserves the invariant.
LEMMA PoolInvStep == PoolInv /\ [Next]_vars => PoolInv'
<1> SUFFICES ASSUME PoolInv, [Next]_vars PROVE PoolInv'
  OBVIOUS
<1>1. CASE Next
  BY <1>1, OfferStepInv, IdleStepInv, AcquireStepInv, PauseInv, CloseStepInv DEF Next
<1>2. CASE UNCHANGED vars
  BY <1>2 DEF vars, PoolInv, TypeOK, ReservationsExact, HeldWhilePopped, ListsNonEmpty, CloseOrder
<1> QED
  BY <1>1, <1>2

\* The strengthened invariant holds in every reachable state of the pool.
THEOREM PoolInvariant == Spec => []PoolInv
BY PoolInvInit, PoolInvStep, PTL DEF Spec

\* The pool's variables keep their types; in particular reserved never goes
\* below zero, although Commit and the deferred Cancel both end a reservation.
THEOREM PoolTypeCorrect == Spec => []TypeOK
BY PoolInvariant, PTL DEF PoolInv

\* The counter equals the number of unfinished reservations, for any number of
\* offers (ReserveOffer, Commit, Cancel).
THEOREM PoolReservationsExact == Spec => []ReservationsExact
BY PoolInvariant, PTL DEF PoolInv

----------------------------------------------------------------------------
(* What the queue promises: capacity, Pause and wake-ups *)

\* The three queue properties are preserved together by every step that
\* satisfies PoolInv; each depends on ready, and only CommitParked grows it.
LEMMA QueueInvStep == PoolInv /\ QueueInv /\ [Next]_vars => QueueInv'
<1> SUFFICES ASSUME PoolInv, QueueInv, [Next]_vars PROVE QueueInv'
  OBVIOUS
<1> USE PoolAssumption DEF PoolInv, TypeOK, QueueInv, CapacityRespected, PausedParksNothing,
        NoLostWakeup, offerVars, idleVars, acquireVars, closeVars
<1>1. ASSUME NEW c \in Conns, OfferStep(c) PROVE QueueInv'
  <2>1. CASE ReserveOfferRefused(c)
    BY <2>1 DEF ReserveOfferRefused
  <2>2. CASE ReserveOffer(c)
    BY <2>2 DEF ReserveOffer, Full
  <2>3. CASE CommitParked(c)
    BY <2>3 DEF CommitParked, Parkable, signalLocked
  <2>4. CASE CommitPaused(c)
    BY <2>4 DEF CommitPaused
  <2>5. CASE Cancel(c)
    BY <2>5 DEF Cancel
  <2> QED
    BY <1>1, <2>1, <2>2, <2>3, <2>4, <2>5 DEF OfferStep
<1>2. ASSUME NEW c \in Conns, IdleStep(c) PROVE QueueInv'
  <2>1. CASE keepIdleStop(c) \/ keepIdleTick(c) \/ keepIdleWritten(c) \/ keepIdleFailed(c)
    BY <2>1 DEF keepIdleStop, keepIdleTick, keepIdleWritten, keepIdleFailed
  <2>2. CASE keepIdleRemove(c)
    <3>1. ready' = ready \/ (ready # <<>> /\ Len(ready') = Len(ready) - 1)
      BY <2>2, WithoutShortens, LenProperties DEF keepIdleRemove
    <3> QED
      BY <2>2, <3>1 DEF keepIdleRemove
  <2> QED
    BY <1>2, <2>1, <2>2 DEF IdleStep
<1>3. ASSUME NEW a \in Acquirers, AcquireStep(a) \/ CancelContext(a) PROVE QueueInv'
  <2>1. CASE AcquirePop(a)
    BY <2>1, HeadTailProperties DEF AcquirePop
  <2>2. CASE AcquireWait(a)
    BY <2>2 DEF AcquireWait
  <2>3. CASE AcquireWake(a) \/ AcquireWaitCancelled(a)
    BY <2>3, SMTT(30) DEF AcquireWake, AcquireWaitCancelled
  <2>4. CASE AcquireRefused(a) \/ AcquireStopped(a)
    BY <2>4 DEF AcquireRefused, AcquireStopped
  <2>5. CASE AcquireAbandon(a) \/ AcquireDrained(a) \/ CancelContext(a)
    BY <2>5 DEF AcquireAbandon, AcquireDrained, CancelContext
  <2> QED
    BY <1>3, <2>1, <2>2, <2>3, <2>4, <2>5 DEF AcquireStep
<1>4. CASE Pause \/ Resume
  BY <1>4 DEF Pause, Resume, detachReadyLocked
<1>5. ASSUME NEW list \in detached, CloseIdleStep(list) PROVE QueueInv'
  BY <1>5 DEF CloseIdleStep, closeIdleClose, closeIdleWait
<1>6. CASE CloseStart
  BY <1>6 DEF CloseStart, signalLocked
<1>7. CASE CloseStep
  BY <1>7 DEF CloseStep, CloseRecheck, CloseDetachedClose, CloseDetachedWait, CloseReturn,
     detachReadyLocked
<1>8. CASE UNCHANGED vars
  BY <1>8 DEF vars
<1> QED
  BY <1>1, <1>2, <1>3, <1>4, <1>5, <1>6, <1>7, <1>8 DEF Next

\* In every reachable state the parked and reserved connections fit readyLimit, a paused
\* pool parks nothing, and no Acquire sleeps through a parked connection or Close
\* (ReserveOffer, Commit, Pause, signalLocked of reverse_pool.go).
THEOREM QueueInvariant == Spec => []QueueInv
<1>1. Init => QueueInv
  BY PoolAssumption DEF Init, QueueInv, CapacityRespected, PausedParksNothing, NoLostWakeup
<1> QED
  BY <1>1, PoolInvariant, QueueInvStep, PTL DEF Spec

\* Parked and reserved connections together stay within readyLimit, for any
\* interleaving of any number of offers.
THEOREM PoolCapacityRespected == Spec => []CapacityRespected
BY QueueInvariant, PTL DEF QueueInv

\* A paused pool parks nothing, even the offers admitted before Pause.
THEOREM PoolPausedParksNothing == Spec => []PausedParksNothing
BY QueueInvariant, PTL DEF QueueInv

\* No Acquire call sleeps through a parked connection or through Close.
THEOREM PoolNoLostWakeup == Spec => []NoLostWakeup
BY QueueInvariant, PTL DEF QueueInv

\* Once Close has returned nothing is queued, reserved or left to close.
THEOREM PoolClosedIsFinal == Spec => []ClosedIsFinal
<1>1. PoolInv => ClosedIsFinal
  BY DEF PoolInv, CloseOrder, ClosedIsFinal
<1> QED
  BY <1>1, PoolInvariant, PTL
=============================================================================
