------------------------- MODULE PoolCustodyProofs -------------------------
(***************************************************************************)
(* Who owns a reverse connection, and that the pool implements IdlePool,   *)
(* for any number of connections and callers and any limit.                *)
(*                                                                         *)
(* ConnectionOwned is not inductive.  CustodyInv adds what the owners know *)
(* of a connection: one that is still offered is open and nowhere else, a  *)
(* failed keepalive has closed its socket, a call holds a connection only  *)
(* while it stops or drains its writer, and a connection that is queued or *)
(* popped is closed only by its own failed keepalive.                      *)
(***************************************************************************)
EXTENDS ReversePoolProofs

\* A leaf that names no prover is given to the SMT solver, then to Zenon, for up to half a
\* minute each.
USE SMTT(30), ZenonT(30)

\* A connection whose offer is not finished is open and has never been parked.
OfferFresh ==
  \A c \in Conns : offer[c] \in {"none", "reserved"} => idler[c] = "none" /\ c \in open

\* A connection without an idle writer has no owner in the pool.
Unparked ==
  \A c \in Conns :
    idler[c] = "none" => c \notin Range(ready) \cup Claimed \cup Leaving \cup handed

\* A keepalive that failed has closed the socket.
ErrClosed ==
  /\ err \cap open = {}
  /\ \A c \in Conns : idler[c] = "failed" => c \in err

\* A call holds a connection from popping it to the end of its writer.
HeldStages ==
  \A a \in Acquirers :
    /\ pc[a] \notin {"stopping", "draining"} => held[a] = NoConn
    /\ pc[a] = "stopping" => held[a] \in open \cup err
    /\ pc[a] = "draining" => held[a] \notin open

\* Only a failed keepalive closes a queued connection.
QueueAlive == Range(ready) \subseteq open \cup err

\* Close has no list before its wait is over.
CloseListOwned == closer \in {"none", "sleeping", "woken"} => closeList = <<>>

CustodyInv ==
  /\ ConnectionOwned /\ OfferFresh /\ Unparked /\ ErrClosed
  /\ HeldStages /\ QueueAlive /\ CloseListOwned

----------------------------------------------------------------------------
(* Facts about the operators *)

\* A queue that was taken out whole is empty.
LEMMA EmptyRange == Range(<<>>) = {}
BY DEF Range

\* What the queue operations do to the set of queued connections: Append of Commit.
LEMMA AppendRange ==
  ASSUME NEW S, NEW s \in Seq(S), NEW e \in S
  PROVE  /\ Range(Append(s, e)) = Range(s) \cup {e}
         /\ IsInjective(s) /\ e \notin Range(s) => IsInjective(Append(s, e))
<1>1. /\ DOMAIN s = 1..Len(s) /\ Len(s) \in Nat
      /\ DOMAIN Append(s, e) = 1..(Len(s) + 1)
      /\ \A i \in 1..Len(s) : Append(s, e)[i] = s[i]
      /\ Append(s, e)[Len(s) + 1] = e
  BY AppendProperties, LenProperties
<1>2. Range(Append(s, e)) = Range(s) \cup {e}
  BY <1>1 DEF Range
<1>3. ASSUME IsInjective(s), e \notin Range(s) PROVE IsInjective(Append(s, e))
  BY <1>1, <1>3 DEF Range, IsInjective
<1> QED
  BY <1>2, <1>3

\* The pop of Acquire: the head, and no other connection, leaves the queue.
LEMMA TailRange ==
  ASSUME NEW S, NEW s \in Seq(S), s # <<>>
  PROVE  /\ Head(s) \in Range(s)
         /\ Range(s) = {Head(s)} \cup Range(Tail(s))
         /\ IsInjective(s) => IsInjective(Tail(s)) /\ Head(s) \notin Range(Tail(s))
<1>1. /\ DOMAIN s = 1..Len(s) /\ Len(s) \in Nat /\ Len(s) # 0
      /\ DOMAIN Tail(s) = 1..(Len(s) - 1)
      /\ \A i \in 1..(Len(s) - 1) : Tail(s)[i] = s[i + 1]
      /\ Head(s) = s[1]
  BY HeadTailProperties, LenProperties, EmptySeq
<1>2. Head(s) \in Range(s)
  BY <1>1 DEF Range
<1>3. \A i \in 2..Len(s) : s[i] = Tail(s)[i - 1]
  BY <1>1
<1>4. Range(s) = {Head(s)} \cup Range(Tail(s))
  <2>1. \A i \in 1..Len(s) : s[i] \in {Head(s)} \cup Range(Tail(s))
    <3>1. TAKE i \in 1..Len(s)
    <3>2. CASE i = 1
      BY <1>1, <3>2
    <3>3. CASE i # 1
      <4>1. i \in 2..Len(s) /\ i - 1 \in 1..(Len(s) - 1)
        BY <1>1, <3>3
      <4> QED
        BY <1>1, <1>3, <4>1, ZenonT(30) DEF Range
    <3> QED
      BY <3>2, <3>3
  <2>2. \A i \in 1..(Len(s) - 1) : Tail(s)[i] \in Range(s)
    BY <1>1 DEF Range
  <2>3. Range(s) \subseteq {Head(s)} \cup Range(Tail(s))
    BY <1>1, <2>1 DEF Range
  <2>4. Range(Tail(s)) \subseteq Range(s)
    BY <1>1, <2>2 DEF Range
  <2> QED
    BY <1>2, <2>3, <2>4
<1>5. ASSUME IsInjective(s) PROVE IsInjective(Tail(s)) /\ Head(s) \notin Range(Tail(s))
  BY <1>1, <1>5 DEF Range, IsInjective
<1> QED
  BY <1>2, <1>4, <1>5

\* A failed keepIdle takes its own connection out of the queue, and no other.
LEMMA WithoutRange ==
  ASSUME NEW S, NEW s \in Seq(S), NEW i \in DOMAIN s, IsInjective(s)
  PROVE  /\ Range(Without(s, i)) = Range(s) \ {s[i]}
         /\ IsInjective(Without(s, i))
<1>1. DOMAIN s = 1..Len(s) /\ Len(s) \in Nat /\ i \in 1..Len(s)
  BY LenProperties
<1> DEFINE front == SubSeq(s, 1, i - 1)
           back == SubSeq(s, i + 1, Len(s))
           r == Without(s, i)
<1>2. /\ front \in Seq(S) /\ Len(front) = i - 1
      /\ \A j \in 1..(i - 1) : front[j] = s[j]
  <2>1. \A j \in 1..(i - 1) : s[j] \in S
    BY <1>1, ElementOfSeq
  <2> QED
    BY <1>1, <2>1, SubSeqProperties
<1>3. /\ back \in Seq(S) /\ Len(back) = Len(s) - i
      /\ \A j \in 1..(Len(s) - i) : back[j] = s[i + j]
  <2>1. \A j \in (i + 1)..Len(s) : s[j] \in S
    BY <1>1, ElementOfSeq
  <2> QED
    BY <1>1, <2>1, SubSeqProperties
<1>5. r = front \o back
  BY DEF Without
<1> HIDE DEF front, back, r
<1>4. /\ front \o back \in Seq(S) /\ Len(front \o back) = Len(front) + Len(back)
      /\ \A j \in 1..(Len(front) + Len(back)) : (front \o back)[j] =
            IF j <= Len(front) THEN front[j] ELSE back[j - Len(front)]
  BY <1>2, <1>3, ConcatProperties, ZenonT(30)
<1>6. Len(front) + Len(back) = Len(s) - 1
  BY <1>1, <1>2, <1>3
<1>7. DOMAIN r = 1..(Len(s) - 1)
  BY <1>4, <1>5, <1>6, LenProperties
<1>8. \A j \in 1..(i - 1) : r[j] = s[j]
  BY <1>1, <1>2, <1>4, <1>5, <1>6
<1>9. \A j \in i..(Len(s) - 1) : r[j] = s[j + 1]
  <2>1. TAKE j \in i..(Len(s) - 1)
  <2>2. r[j] = back[j - (i - 1)] /\ j - (i - 1) \in 1..(Len(s) - i)
    BY <1>1, <1>2, <1>4, <1>5, <1>6
  <2>3. back[j - (i - 1)] = s[i + (j - (i - 1))] /\ i + (j - (i - 1)) = j + 1
    BY <1>1, <1>3, <2>2
  <2> QED
    BY <2>2, <2>3
<1>10. \A j \in 1..(Len(s) - 1) : \E k \in 1..Len(s) : k # i /\ r[j] = s[k]
  <2>1. TAKE j \in 1..(Len(s) - 1)
  <2>2. CASE j <= i - 1
    BY <1>1, <1>8, <2>2
  <2>3. CASE j >= i
    BY <1>1, <1>9, <2>3
  <2> QED
    BY <1>1, <2>2, <2>3
<1>11. \A k \in 1..Len(s) : k # i => \E j \in 1..(Len(s) - 1) : r[j] = s[k]
  <2>1. TAKE k \in 1..Len(s)
  <2>2. CASE k <= i - 1
    BY <1>1, <1>8, <2>2
  <2>3. CASE k >= i + 1
    <3>1. k - 1 \in i..(Len(s) - 1) /\ (k - 1) + 1 = k
      BY <1>1, <2>3
    <3>2. r[k - 1] = s[k] /\ k - 1 \in 1..(Len(s) - 1)
      BY <1>1, <1>9, <3>1
    <3> QED
      BY <3>2
  <2> QED
    BY <1>1, <2>2, <2>3
<1>12. Range(r) = Range(s) \ {s[i]}
  <2>1. ASSUME NEW j \in 1..(Len(s) - 1) PROVE r[j] \in Range(s) \ {s[i]}
    <3>1. PICK k \in 1..Len(s) : k # i /\ r[j] = s[k]
      BY <1>10
    <3>2. s[k] # s[i]
      BY <1>1, <3>1 DEF IsInjective
    <3> QED
      BY <1>1, <3>1, <3>2 DEF Range
  <2>2. \A k \in 1..Len(s) : s[k] # s[i] => s[k] \in Range(r)
    BY <1>7, <1>11, ZenonT(30) DEF Range
  <2>3. Range(r) \subseteq Range(s) \ {s[i]}
    BY <1>7, <2>1 DEF Range
  <2>4. Range(s) \ {s[i]} \subseteq Range(r)
    BY <1>1, <2>2 DEF Range
  <2> QED
    BY <2>3, <2>4
<1>13. ASSUME NEW j \in 1..(Len(s) - 1), NEW k \in 1..(Len(s) - 1), r[j] = r[k]
       PROVE  j = k
  <2> DEFINE at(m) == IF m <= i - 1 THEN m ELSE m + 1
  <2>1. at(j) \in 1..Len(s) /\ at(k) \in 1..Len(s) /\ r[j] = s[at(j)] /\ r[k] = s[at(k)]
    BY <1>1, <1>8, <1>9
  <2>2. at(j) = at(k)
    BY <1>1, <1>13, <2>1, ZenonT(30) DEF IsInjective
  <2> QED
    BY <1>1, <2>2
<1>14. IsInjective(r)
  BY <1>7, <1>13 DEF IsInjective
<1> QED
  BY <1>12, <1>14 DEF r

\* A call that holds nothing claims what it pops; a call that lets go gives up one.
LEMMA ClaimAdded ==
  ASSUME TypeOK, NEW a \in Acquirers, NEW c \in Conns,
         held[a] = NoConn, held' = [held EXCEPT ![a] = c]
  PROVE  Claimed' = Claimed \cup {c}
BY PoolAssumption DEF TypeOK, Claimed

\* ... and the other way round when it is through with it.
LEMMA ClaimDropped ==
  ASSUME TypeOK, NEW a \in Acquirers, SingleCustody,
         held[a] \in Conns, held' = [held EXCEPT ![a] = NoConn]
  PROVE  Claimed' = Claimed \ {held[a]}
BY PoolAssumption DEF TypeOK, SingleCustody, Claimed

\* A step that moves no connection between calls or lists keeps both sets.
LEMMA OwnersSame ==
  /\ UNCHANGED held => Claimed' = Claimed
  /\ UNCHANGED <<detached, closeList>> => Leaving' = Leaving
BY DEF Claimed, Leaving

\* A connection is leaving while it is in the list of Close or of a closeIdle.
LEMMA LeavingLists ==
  /\ \A c : c \in Leaving <=>
       (\E list \in detached : c \in Range(list)) \/ c \in Range(closeList)
  /\ \A c : c \in Leaving' <=>
       (\E list \in detached' : c \in Range(list)) \/ c \in Range(closeList')
BY DEF Leaving

----------------------------------------------------------------------------
(* CustodyInv is inductive relative to PoolInv *)

\* A new pool owns no connection.
LEMMA CustodyInit == Init => CustodyInv
<1> SUFFICES ASSUME Init PROVE CustodyInv
  OBVIOUS
<1>1. Range(ready) = {} /\ IsInjective(ready) /\ Claimed = {} /\ Leaving = {}
  BY DEF Init, Range, IsInjective, Claimed, Leaving
<1> QED
  BY <1>1, PoolAssumption DEF Init, CustodyInv, ConnectionOwned, SingleCustody, QuietHandover,
     NoOrphan, OfferFresh, Unparked, ErrClosed, HeldStages, QueueAlive, CloseListOwned

\* An offer parks or closes a connection nobody owned (ReserveOffer, Commit, Cancel).
LEMMA OfferCustody ==
  ASSUME PoolInv, CustodyInv, NEW c \in Conns, OfferStep(c)
  PROVE  CustodyInv'
<1> USE PoolAssumption DEF PoolInv, TypeOK, CustodyInv, ConnectionOwned, SingleCustody, QuietHandover, NoOrphan,
            OfferFresh, Unparked, ErrClosed, HeldStages, QueueAlive, CloseListOwned, offerVars, idleVars,
            acquireVars, closeVars, HeldWhilePopped
<1>0. /\ Claimed \subseteq Conns /\ \A a \in Acquirers : held[a] # NoConn => held[a] \in Claimed
  BY DEF Claimed
<1>1. CASE ReserveOfferRefused(c)
  <2>1. Claimed' = Claimed /\ Leaving' = Leaving
    BY <1>1, OwnersSame DEF ReserveOfferRefused
  <2> QED
    BY <1>0, <1>1, <2>1 DEF ReserveOfferRefused
<1>2. CASE ReserveOffer(c)
  <2>1. Claimed' = Claimed /\ Leaving' = Leaving
    BY <1>2, OwnersSame DEF ReserveOffer
  <2> QED
    BY <1>2, <2>1 DEF ReserveOffer
<1>3. CASE CommitParked(c)
  <2>1. Claimed' = Claimed /\ Leaving' = Leaving
    BY <1>3, OwnersSame DEF CommitParked
  <2>2. Range(ready') = Range(ready) \cup {c} /\ IsInjective(ready')
    BY <1>3, AppendRange DEF CommitParked
  <2> QED
    BY <1>3, <2>1, <2>2 DEF CommitParked, Broadcast
<1>4. CASE CommitPaused(c) \/ Cancel(c)
  <2>1. Claimed' = Claimed /\ Leaving' = Leaving
    BY <1>4, OwnersSame DEF CommitPaused, Cancel
  <2> QED
    BY <1>0, <1>4, <2>1 DEF CommitPaused, Cancel, Broadcast
<1> QED
  BY <1>1, <1>2, <1>3, <1>4 DEF OfferStep

\* A writer that fails closes its own connection and leaves the queue (keepIdle).
LEMMA IdleCustody ==
  ASSUME PoolInv, CustodyInv, NEW c \in Conns, IdleStep(c)
  PROVE  CustodyInv'
<1> USE DEF PoolInv, TypeOK, CustodyInv, ConnectionOwned, SingleCustody, QuietHandover, NoOrphan,
            OfferFresh, Unparked, ErrClosed, HeldStages, QueueAlive, CloseListOwned, offerVars, idleVars,
            acquireVars, closeVars
<1>1. CASE keepIdleStop(c) \/ keepIdleTick(c) \/ keepIdleWritten(c)
  <2>1. Claimed' = Claimed /\ Leaving' = Leaving
    BY <1>1, OwnersSame DEF keepIdleStop, keepIdleTick, keepIdleWritten
  <2> QED
    BY <1>1, <2>1 DEF keepIdleStop, keepIdleTick, keepIdleWritten
<1>2. CASE keepIdleFailed(c)
  <2>1. Claimed' = Claimed /\ Leaving' = Leaving
    BY <1>2, OwnersSame DEF keepIdleFailed
  <2> QED
    BY <1>2, <2>1 DEF keepIdleFailed
<1>3. CASE keepIdleRemove(c)
  <2>1. Claimed' = Claimed /\ Leaving' = Leaving
    BY <1>3, OwnersSame DEF keepIdleRemove
  <2>2. Range(ready') = Range(ready) \ {c} /\ IsInjective(ready')
    BY <1>3, WithoutRange DEF keepIdleRemove
  <2> QED
    BY <1>3, <2>1, <2>2 DEF keepIdleRemove
<1> QED
  BY <1>1, <1>2, <1>3, ZenonT(30) DEF IdleStep

\* Acquire takes the head of the queue and is its only owner until it returns.
LEMMA AcquireCustody ==
  ASSUME PoolInv, CustodyInv, NEW a \in Acquirers, AcquireStep(a) \/ CancelContext(a)
  PROVE  CustodyInv'
<1> USE PoolAssumption DEF PoolInv, TypeOK, CustodyInv, ConnectionOwned, SingleCustody, QuietHandover, NoOrphan,
            OfferFresh, Unparked, ErrClosed, HeldStages, QueueAlive, CloseListOwned, offerVars, idleVars,
            acquireVars, closeVars, HeldWhilePopped
<1>0. /\ Claimed \subseteq Conns /\ \A b \in Acquirers : held[b] # NoConn => held[b] \in Claimed
  BY DEF Claimed
<1>1. CASE AcquireRefused(a) \/ AcquireWait(a) \/ AcquireWake(a) \/ AcquireWaitCancelled(a)
           \/ CancelContext(a)
  <2>1. Claimed' = Claimed /\ Leaving' = Leaving
    BY <1>1, OwnersSame DEF AcquireRefused, AcquireWait, AcquireWake, AcquireWaitCancelled, CancelContext
  <2> QED
    BY <1>1, <2>1 DEF AcquireRefused, AcquireWait, AcquireWake, AcquireWaitCancelled, CancelContext
<1>2. CASE AcquirePop(a)
  <2>1. /\ Head(ready) \in Conns
        /\ Range(ready) = {Head(ready)} \cup Range(ready')
        /\ IsInjective(ready') /\ Head(ready) \notin Range(ready')
    BY <1>2, TailRange, HeadTailProperties DEF AcquirePop
  <2>2. held[a] = NoConn /\ held' = [held EXCEPT ![a] = Head(ready)]
        /\ UNCHANGED <<detached, closeList>>
    BY <1>2 DEF AcquirePop
  <2>3. Claimed' = Claimed \cup {Head(ready)}
    BY <2>1, <2>2, ClaimAdded, ZenonT(30)
  <2>4. Leaving' = Leaving
    BY <2>2, OwnersSame
  <2> QED
    BY <1>0, <1>2, <2>1, <2>3, <2>4 DEF AcquirePop
<1>3. CASE AcquireStopped(a)
  <2>2. held[a] \in Conns /\ held' = [held EXCEPT ![a] = NoConn]
        /\ UNCHANGED <<detached, closeList>>
    BY <1>3 DEF AcquireStopped
  <2>3. Claimed' = Claimed \ {held[a]}
    BY <2>2, ClaimDropped, ZenonT(30)
  <2>1. Claimed' = Claimed \ {held[a]} /\ Leaving' = Leaving
    BY <2>2, <2>3, OwnersSame
  <2> QED
    BY <1>0, <1>3, <2>1 DEF AcquireStopped, Joined
<1>4. CASE AcquireAbandon(a)
  <2>1. Claimed' = Claimed /\ Leaving' = Leaving
    BY <1>4, OwnersSame DEF AcquireAbandon
  <2> QED
    BY <1>0, <1>4, <2>1 DEF AcquireAbandon
<1>5. CASE AcquireDrained(a)
  <2>2. held[a] \in Conns /\ held' = [held EXCEPT ![a] = NoConn]
        /\ UNCHANGED <<detached, closeList>>
    BY <1>5 DEF AcquireDrained
  <2>3. Claimed' = Claimed \ {held[a]}
    BY <2>2, ClaimDropped, ZenonT(30)
  <2>1. Claimed' = Claimed \ {held[a]} /\ Leaving' = Leaving
    BY <2>2, <2>3, OwnersSame
  <2> QED
    BY <1>0, <1>5, <2>1 DEF AcquireDrained, Joined
<1> QED
  BY <1>1, <1>2, <1>3, <1>4, <1>5, ZenonT(30) DEF AcquireStep

\* Pause hands its queue to closeIdle, which closes each connection and joins its writer.
LEMMA PauseCustody ==
  ASSUME PoolInv, CustodyInv, Pause \/ Resume \/ \E list \in detached : CloseIdleStep(list)
  PROVE  CustodyInv'
<1> USE PoolAssumption DEF PoolInv, TypeOK, CustodyInv, ConnectionOwned, SingleCustody,
        QuietHandover, NoOrphan, OfferFresh, Unparked, ErrClosed, HeldStages, QueueAlive,
        CloseListOwned, HeldWhilePopped, offerVars, idleVars, acquireVars, closeVars
<1>0. /\ Claimed \subseteq Conns /\ \A b \in Acquirers : held[b] # NoConn => held[b] \in Claimed
  BY DEF Claimed
<1>1. CASE Pause
  <2>1. Claimed' = Claimed
    BY <1>1, OwnersSame DEF Pause
  <2>2. Range(ready') = {} /\ IsInjective(ready')
    BY <1>1 DEF Pause, detachReadyLocked, Range, IsInjective
  <2>3. Leaving' = Leaving \cup Range(ready)
    <3>1. Range(<<>>) = {}
      BY EmptyRange
    <3> QED
      BY <1>1, <3>1 DEF Pause, Leaving
  <2> QED
    BY <1>1, <2>1, <2>2, <2>3 DEF Pause
<1>2. CASE Resume
  <2>1. Claimed' = Claimed /\ Leaving' = Leaving
    BY <1>2, OwnersSame DEF Resume
  <2> QED
    BY <1>2, <2>1 DEF Resume
<1>3. ASSUME NEW list \in detached, closeIdleClose(list) PROVE CustodyInv'
  <2>1. Claimed' = Claimed /\ Leaving' = Leaving
    BY <1>3, OwnersSame DEF closeIdleClose
  <2>2. Head(list) \in Leaving
    <3>1. Head(list) \in Range(list)
      BY TailRange DEF ListsNonEmpty
    <3> QED
      BY <3>1 DEF Leaving
  <2> QED
    BY <1>0, <1>3, <2>1, <2>2 DEF closeIdleClose
<1>4. ASSUME NEW list \in detached, closeIdleWait(list) PROVE CustodyInv'
  <2>1. Claimed' = Claimed
    BY <1>4, OwnersSame DEF closeIdleWait
  <2>2. Range(list) = {Head(list)} \cup Range(Tail(list))
    BY TailRange DEF ListsNonEmpty
  <2>3. Leaving' \subseteq Leaving /\ Leaving \subseteq Leaving' \cup {Head(list)}
    <3>1. Range(<<>>) = {}
      BY EmptyRange
    <3> QED
      BY <1>4, <2>2, <3>1, LeavingLists, ZenonT(30) DEF closeIdleWait
  <2> QED
    BY <1>4, <2>1, <2>3 DEF closeIdleWait, Joined
<1> QED
  BY <1>1, <1>2, <1>3, <1>4, ZenonT(30) DEF CloseIdleStep

\* Close does the same with what is queued when its wait is over.
LEMMA CloseCustody ==
  ASSUME PoolInv, CustodyInv, CloseStart \/ CloseStep
  PROVE  CustodyInv'
<1> USE PoolAssumption DEF PoolInv, TypeOK, CustodyInv, ConnectionOwned, SingleCustody,
        QuietHandover, NoOrphan, OfferFresh, Unparked, ErrClosed, HeldStages, QueueAlive,
        CloseListOwned, HeldWhilePopped, offerVars, idleVars, acquireVars, closeVars
<1>0. /\ Claimed \subseteq Conns /\ \A b \in Acquirers : held[b] # NoConn => held[b] \in Claimed
  BY DEF Claimed
<1>1. CASE CloseStart \/ CloseReturn
  <2>1. Claimed' = Claimed /\ Leaving' = Leaving
    BY <1>1, OwnersSame DEF CloseStart, CloseReturn
  <2> QED
    BY <1>1, <2>1 DEF CloseStart, CloseReturn
<1>2. CASE CloseRecheck /\ reserved > 0
  <2>1. Claimed' = Claimed /\ Leaving' = Leaving
    BY <1>2, OwnersSame DEF CloseRecheck
  <2> QED
    BY <1>2, <2>1 DEF CloseRecheck
<1>3. CASE CloseRecheck /\ reserved = 0
  <2>1. Claimed' = Claimed
    BY <1>3, OwnersSame DEF CloseRecheck
  <2>2. Range(ready') = {} /\ IsInjective(ready')
    BY <1>3 DEF CloseRecheck, detachReadyLocked, Range, IsInjective
  <2>3. closeList = <<>> /\ Leaving' = Leaving \cup Range(ready)
    <3>1. closeList = <<>> /\ closeList' = ready /\ UNCHANGED detached
      BY <1>3 DEF CloseRecheck, CloseListOwned
    <3>2. Range(<<>>) = {}
      BY EmptyRange
    <3> QED
      BY <3>1, <3>2, LeavingLists
  <2> QED
    BY <1>3, <2>1, <2>2, <2>3 DEF CloseRecheck
<1>4. CASE CloseDetachedClose
  <2>1. Claimed' = Claimed /\ Leaving' = Leaving
    BY <1>4, OwnersSame DEF CloseDetachedClose
  <2>2. Head(closeList) \in Leaving
    BY <1>4, TailRange, LeavingLists DEF CloseDetachedClose
  <2> QED
    BY <1>0, <1>4, <2>1, <2>2 DEF CloseDetachedClose
<1>5. CASE CloseDetachedWait
  <2>1. Claimed' = Claimed
    BY <1>5, OwnersSame DEF CloseDetachedWait
  <2>2. Leaving' \subseteq Leaving /\ Leaving \subseteq Leaving' \cup {Head(closeList)}
    <3>1. Range(closeList) = {Head(closeList)} \cup Range(Tail(closeList))
      BY <1>5, TailRange DEF CloseDetachedWait
    <3> QED
      BY <1>5, <3>1, LeavingLists DEF CloseDetachedWait
  <2> QED
    BY <1>5, <2>1, <2>2 DEF CloseDetachedWait, Joined, CloseListOwned
<1>6. CASE CloseRecheck
  <2>1. reserved > 0 \/ reserved = 0
    OBVIOUS
  <2> QED
    BY <1>2, <1>3, <1>6, <2>1, ZenonT(30)
<1> HIDE DEF CustodyInv
<1> QED
  BY <1>1, <1>4, <1>5, <1>6 DEF CloseStep

\* Every step keeps the owners in order.
LEMMA CustodyStep == PoolInv /\ CustodyInv /\ [Next]_vars => CustodyInv'
<1> SUFFICES ASSUME PoolInv, CustodyInv, [Next]_vars PROVE CustodyInv'
  OBVIOUS
<1>1. CASE Next
  BY <1>1, OfferCustody, IdleCustody, AcquireCustody, PauseCustody, CloseCustody DEF Next
<1>2. CASE UNCHANGED vars
  <2>1. Claimed' = Claimed /\ Leaving' = Leaving
    BY <1>2, OwnersSame DEF vars
  <2> QED
    BY <1>2, <2>1, ZenonT(30) DEF vars, CustodyInv, ConnectionOwned, SingleCustody, QuietHandover, NoOrphan,
       OfferFresh, Unparked, ErrClosed, HeldStages, QueueAlive, CloseListOwned
<1> QED
  BY <1>1, <1>2

\* Every connection that was ever parked has one owner that will use it or close it,
\* for any number of offers, callers and pauses: none is used twice, handed out with
\* its writer running, or forgotten (Acquire, Pause, Close, keepIdle).
THEOREM PoolConnectionOwned == Spec => []ConnectionOwned
<1>1. CustodyInv => ConnectionOwned
  BY DEF CustodyInv
<1> QED
  BY <1>1, CustodyInit, CustodyStep, PoolInvariant, PTL DEF Spec

----------------------------------------------------------------------------
(* The pool implements IdlePool *)

\* What Custody says of a connection before and after a step.
LEMMA CustodyAt ==
  /\ Custody = [c \in Conns |->
       IF c \in handed THEN "lent"
       ELSE IF c \in Range(ready) THEN "idle"
       ELSE IF c \in Claimed THEN "claimed"
       ELSE IF idler[c] # "none" \/ c \notin open THEN "gone"
       ELSE "out"]
  /\ Custody' = [c \in Conns |->
       IF c \in handed' THEN "lent"
       ELSE IF c \in Range(ready') THEN "idle"
       ELSE IF c \in Claimed' THEN "claimed"
       ELSE IF idler'[c] # "none" \/ c \notin open' THEN "gone"
       ELSE "out"]
BY DEF Custody

\* The custody of one connection moves, nothing else does.
LEMMA CustodyMoves ==
  ASSUME NEW d \in Conns, NEW v, Custody'[d] = v,
         \A c \in Conns \ {d} : Custody'[c] = Custody[c]
  PROVE  Custody' = [Custody EXCEPT ![d] = v]
<1>1. Custody = [c \in Conns |-> Custody[c]] /\ Custody' = [c \in Conns |-> Custody'[c]]
  BY CustodyAt
<1> QED
  BY <1>1

\* A queue holds at least as many entries as connections, so its capacity bounds
\* the connections that IdlePool sees parked.
LEMMA IdleBound ==
  ASSUME PoolInv, CustodyInv
  PROVE  /\ Contract!Idle = Range(ready)
         /\ Cardinality(Contract!Idle) \in Nat
         /\ Cardinality(Contract!Idle) <= Len(ready)
<1>1. ready \in Seq(Conns) /\ DOMAIN ready = 1..Len(ready) /\ Len(ready) \in Nat
  BY LenProperties DEF PoolInv, TypeOK
<1>2. Range(ready) \subseteq Conns /\ Range(ready) \cap handed = {}
  BY <1>1, ElementOfSeq DEF Range, CustodyInv, ConnectionOwned, SingleCustody
<1>3. Contract!Idle = Range(ready)
  BY <1>2, CustodyAt DEF Contract!Idle
<1>4. IsFiniteSet(1..Len(ready)) /\ Cardinality(1..Len(ready)) = Len(ready)
  BY <1>1, FS_Interval
<1>5. ready \in Surjection(1..Len(ready), Range(ready))
  BY <1>1 DEF Surjection, Range
<1>6. /\ IsFiniteSet(Range(ready))
      /\ Cardinality(Range(ready)) <= Cardinality(1..Len(ready))
  BY <1>4, <1>5, FS_Surjection
<1> QED
  BY <1>3, <1>4, <1>6, FS_CardinalityType

\* An offer parks its connection, loses it, or changes nothing a caller can see.
LEMMA OfferRefines ==
  ASSUME PoolInv, QueueInv, CustodyInv, NEW c \in Conns, OfferStep(c)
  PROVE  Contract!Park(c) \/ Contract!Drop(c) \/ UNCHANGED Contract!vars
<1> USE DEF PoolInv, TypeOK, CustodyInv, OfferFresh, Unparked, CloseOrder, offerVars, idleVars,
            acquireVars, closeVars
<1>1. CASE ReserveOfferRefused(c) \/ CommitPaused(c)
  <2>1. Claimed' = Claimed /\ UNCHANGED <<ready, handed, idler, paused>> /\ open' = open \ {c}
        /\ offer[c] \in {"none", "reserved"}
    BY <1>1, OwnersSame DEF ReserveOfferRefused, CommitPaused
  <2>2. UNCHANGED (closer \in {"closing", "returned"})
    BY <1>1 DEF ReserveOfferRefused, CommitPaused, Broadcast
  <2>3. Custody[c] = "out" /\ Custody' = [Custody EXCEPT ![c] = "gone"]
    <3>1. Custody[c] = "out" /\ Custody'[c] = "gone"
      BY <2>1, CustodyAt
    <3>2. \A d \in Conns \ {c} : Custody'[d] = Custody[d]
      BY <2>1, CustodyAt
    <3> QED
      BY <3>1, <3>2, CustodyMoves
  <2> QED
    BY <2>1, <2>2, <2>3 DEF Contract!Drop
<1>2. CASE ReserveOffer(c)
  <2>1. Claimed' = Claimed
    BY <1>2, OwnersSame DEF ReserveOffer
  <2> QED
    BY <1>2, <2>1, CustodyAt DEF ReserveOffer, Contract!vars
<1>3. CASE CommitParked(c)
  <2>1. reserved > 0
    <3>1. ReservationsExact <=> reserved = Cardinality(Reserved)
      BY DEF ReservationsExact, Reserved
    <3>2. offer[c] = "reserved" /\ offer' = [offer EXCEPT ![c] = "committed"]
      BY <1>3 DEF CommitParked
    <3>3. Cardinality(Reserved) > 0
      BY <3>2, ReservedCount, ZenonT(30)
    <3> QED
      BY <3>1, <3>3
  <2>2. Claimed' = Claimed /\ Range(ready') = Range(ready) \cup {c}
    BY <1>3, OwnersSame, AppendRange DEF CommitParked
  <2>3. Custody[c] = "out" /\ Custody' = [Custody EXCEPT ![c] = "idle"]
    BY <1>3, <2>2, CustodyAt DEF CommitParked
  <2>4. /\ closer \notin {"closing", "returned"} /\ closer' \notin {"closing", "returned"}
        /\ ~paused /\ paused' = paused
    BY <1>3, <2>1 DEF CommitParked, Broadcast, Parkable
  <2>5. readyLimit > 0 => Cardinality(Contract!Idle) < readyLimit
    BY <2>1, IdleBound, LenProperties, PoolAssumption DEF QueueInv, CapacityRespected
  <2>6. UNCHANGED (closer \in {"closing", "returned"})
    BY <2>4
  <2>7. Contract!Cardinality(Contract!Idle) = Cardinality(Contract!Idle)
    BY DEF Cardinality, Contract!Cardinality
  <2> QED
    BY <2>3, <2>4, <2>5, <2>6, <2>7 DEF Contract!Park
<1>4. CASE Cancel(c)
  <2>1. Claimed' = Claimed /\ UNCHANGED <<ready, handed, idler, paused>>
    BY <1>4, OwnersSame DEF Cancel
  <2>2. UNCHANGED (closer \in {"closing", "returned"})
    BY <1>4 DEF Cancel, Broadcast
  <2>3. CASE offer[c] = "reserved"
    <3>1. open' = open \ {c}
      BY <1>4, <2>3 DEF Cancel
    <3>2. Custody[c] = "out" /\ Custody' = [Custody EXCEPT ![c] = "gone"]
      BY <2>1, <2>3, <3>1, CustodyAt
    <3> QED
      BY <2>1, <2>2, <3>2 DEF Contract!Drop
  <2>4. CASE offer[c] = "committed"
    <3>1. Custody' = Custody
      BY <1>4, <2>1, <2>4, CustodyAt DEF Cancel
    <3> QED
      BY <2>1, <2>2, <3>1 DEF Contract!vars
  <2> QED
    BY <1>4, <2>3, <2>4 DEF Cancel
<1> QED
  BY <1>1, <1>2, <1>3, <1>4 DEF OfferStep

\* A writer that failed takes its connection out of the queue; nothing else it does is seen.
LEMMA IdleRefines ==
  ASSUME PoolInv, CustodyInv, NEW c \in Conns, IdleStep(c)
  PROVE  Contract!Drop(c) \/ UNCHANGED Contract!vars
<1> USE DEF PoolInv, TypeOK, CustodyInv, ConnectionOwned, SingleCustody, ErrClosed, offerVars,
            idleVars, acquireVars, closeVars
<1>0. Claimed' = Claimed /\ UNCHANGED <<handed, paused, closer>>
  BY OwnersSame, ZenonT(30) DEF IdleStep, keepIdleStop, keepIdleTick, keepIdleWritten, keepIdleFailed,
     keepIdleRemove
<1>1. CASE keepIdleStop(c) \/ keepIdleTick(c) \/ keepIdleWritten(c) \/ keepIdleFailed(c)
  <2>1. /\ ready' = ready /\ open' \in {open, open \ {c}} /\ idler[c] # "none"
        /\ \E v \in {"select", "writing", "failed", "done"} : idler' = [idler EXCEPT ![c] = v]
    BY <1>1 DEF keepIdleStop, keepIdleTick, keepIdleWritten, keepIdleFailed
  <2>2. Custody' = Custody
    BY <1>0, <2>1, CustodyAt
  <2> QED
    BY <1>0, <2>2 DEF Contract!vars
<1>2. CASE keepIdleRemove(c)
  <2>1. /\ Range(ready') = Range(ready) \ {c} /\ open' = open /\ idler[c] = "failed"
        /\ idler' = [idler EXCEPT ![c] = "done"]
    BY <1>2, WithoutRange DEF keepIdleRemove
  <2>2. CASE c \in Range(ready)
    <3>1. Custody[c] = "idle" /\ Custody' = [Custody EXCEPT ![c] = "gone"]
      BY <1>0, <2>1, <2>2, CustodyAt
    <3> QED
      BY <1>0, <3>1 DEF Contract!Drop
  <2>3. CASE c \notin Range(ready)
    <3>1. Custody' = Custody
      BY <1>0, <2>1, <2>3, CustodyAt
    <3> QED
      BY <1>0, <3>1 DEF Contract!vars
  <2> QED
    BY <2>2, <2>3
<1> QED
  BY <1>1, <1>2 DEF IdleStep

\* Acquire claims the head of the queue and lends it or drops it.
LEMMA AcquireRefines ==
  ASSUME PoolInv, CustodyInv, NEW a \in Acquirers, AcquireStep(a) \/ CancelContext(a)
  PROVE  (\E c \in Conns : Contract!Claim(c) \/ Contract!Lend(c) \/ Contract!Drop(c))
         \/ UNCHANGED Contract!vars
<1> USE PoolAssumption DEF PoolInv, TypeOK, CustodyInv, ConnectionOwned, SingleCustody, HeldWhilePopped,
            Unparked, offerVars, idleVars, acquireVars, closeVars
<1>0. UNCHANGED <<idler, paused, closer>>
  BY ZenonT(30) DEF AcquireStep, AcquireRefused, AcquirePop, AcquireWait, AcquireWake, AcquireWaitCancelled,
     AcquireStopped, AcquireAbandon, AcquireDrained, CancelContext
<1>1. \A b \in Acquirers : held[b] # NoConn => held[b] \in Claimed
  BY DEF Claimed
<1>2. CASE AcquireRefused(a) \/ AcquireWait(a) \/ AcquireWake(a) \/ AcquireWaitCancelled(a)
           \/ CancelContext(a)
  <2>1. Claimed' = Claimed /\ UNCHANGED <<ready, open, handed>>
    BY <1>2, OwnersSame, ZenonT(30) DEF AcquireRefused, AcquireWait, AcquireWake, AcquireWaitCancelled,
       CancelContext
  <2>2. Custody' = Custody
    BY <1>0, <2>1, CustodyAt
  <2> QED
    BY <1>0, <2>2 DEF Contract!vars
<1>3. CASE AcquirePop(a)
  <2>1. /\ Head(ready) \in Conns
        /\ Range(ready) = {Head(ready)} \cup Range(ready')
        /\ Head(ready) \notin Range(ready')
    BY <1>3, TailRange, HeadTailProperties DEF AcquirePop
  <2>2. held[a] = NoConn
    BY <1>3 DEF AcquirePop, HeldStages
  <2>3. Claimed' = Claimed \cup {Head(ready)} /\ UNCHANGED <<open, handed>>
    <3>1. held' = [held EXCEPT ![a] = Head(ready)] /\ UNCHANGED <<open, handed>>
      BY <1>3 DEF AcquirePop
    <3> QED
      BY <2>1, <2>2, <3>1, ClaimAdded, ZenonT(30)
  <2>4. /\ Custody[Head(ready)] = "idle"
        /\ Custody' = [Custody EXCEPT ![Head(ready)] = "claimed"]
    <3>1. Custody[Head(ready)] = "idle" /\ Custody'[Head(ready)] = "claimed"
      BY <2>1, <2>3, CustodyAt, ZenonT(30)
    <3>2. \A c \in Conns \ {Head(ready)} : Custody'[c] = Custody[c]
      BY <1>0, <2>1, <2>3, CustodyAt
    <3> QED
      BY <2>1, <3>1, <3>2, CustodyMoves
  <2>5. Contract!Claim(Head(ready))
    BY <1>0, <2>4 DEF Contract!Claim
  <2> QED
    BY <2>1, <2>5
<1>4. CASE AcquireStopped(a)
  <2>1. held[a] \in Conns /\ Claimed' = Claimed \ {held[a]} /\ ready' = ready
    <3>1. held[a] \in Conns /\ held' = [held EXCEPT ![a] = NoConn] /\ ready' = ready
      BY <1>4 DEF AcquireStopped
    <3> QED
      BY <3>1, ClaimDropped, ZenonT(30)
  <2>2. /\ held[a] \notin handed /\ held[a] \notin Range(ready) /\ held[a] \in Claimed
        /\ idler[held[a]] # "none"
    BY <1>1, <2>1
  <2>3. CASE handed' = handed \cup {held[a]} /\ open' = open
    <3>1. Custody[held[a]] = "claimed" /\ Custody' = [Custody EXCEPT ![held[a]] = "lent"]
      <4>1. Custody[held[a]] = "claimed" /\ Custody'[held[a]] = "lent"
        BY <1>0, <2>1, <2>2, <2>3, CustodyAt
      <4>2. \A c \in Conns \ {held[a]} : Custody'[c] = Custody[c]
        BY <1>0, <2>1, <2>3, CustodyAt
      <4> QED
        BY <2>1, <4>1, <4>2, CustodyMoves
    <3>2. Contract!Lend(held[a])
      BY <1>0, <3>1 DEF Contract!Lend
    <3> QED
      BY <2>1, <3>2
  <2>4. CASE handed' = handed /\ open' \in {open, open \ {held[a]}}
    <3>1. Custody[held[a]] = "claimed" /\ Custody' = [Custody EXCEPT ![held[a]] = "gone"]
      <4>1. Custody[held[a]] = "claimed" /\ Custody'[held[a]] = "gone"
        BY <1>0, <2>1, <2>2, <2>4, CustodyAt
      <4>2. \A c \in Conns \ {held[a]} : Custody'[c] = Custody[c]
        BY <1>0, <2>1, <2>4, CustodyAt
      <4> QED
        BY <2>1, <4>1, <4>2, CustodyMoves
    <3>2. Contract!Drop(held[a])
      BY <1>0, <3>1 DEF Contract!Drop
    <3> QED
      BY <2>1, <3>2
  <2> QED
    BY <1>4, <2>3, <2>4 DEF AcquireStopped
<1>5. CASE AcquireAbandon(a)
  <2>1. held[a] \in Claimed /\ Claimed' = Claimed /\ UNCHANGED <<ready, handed>>
        /\ open' = open \ {held[a]}
    BY <1>1, <1>5, OwnersSame DEF AcquireAbandon
  <2>2. Custody' = Custody
    BY <1>0, <2>1, CustodyAt
  <2> QED
    BY <1>0, <2>2 DEF Contract!vars
<1>6. CASE AcquireDrained(a)
  <2>1. /\ held[a] \in Conns /\ Claimed' = Claimed \ {held[a]}
        /\ ready' = ready /\ open' = open /\ handed' = handed
    <3>1. /\ held[a] \in Conns /\ held' = [held EXCEPT ![a] = NoConn]
          /\ ready' = ready /\ open' = open /\ handed' = handed
      BY <1>6 DEF AcquireDrained
    <3> QED
      BY <3>1, ClaimDropped, ZenonT(30)
  <2>2. /\ held[a] \notin handed /\ held[a] \notin Range(ready) /\ held[a] \in Claimed
        /\ idler[held[a]] # "none"
    BY <1>1, <2>1
  <2>3. Custody[held[a]] = "claimed" /\ Custody' = [Custody EXCEPT ![held[a]] = "gone"]
    <3>1. idler' = idler
      BY <1>0
    <3>2. \A c \in Conns \ {held[a]} : Custody'[c] = Custody[c]
      BY <2>1, <3>1, CustodyAt
    <3>3. Custody[held[a]] = "claimed" /\ Custody'[held[a]] = "gone"
      BY <2>1, <2>2, <3>1, CustodyAt
    <3> QED
      BY <2>1, <3>2, <3>3, CustodyMoves
  <2>4. Contract!Drop(held[a])
    BY <1>0, <2>3 DEF Contract!Drop
  <2> QED
    BY <2>1, <2>4
<1> QED
  BY <1>2, <1>3, <1>4, <1>5, <1>6 DEF AcquireStep

\* Pause and the end of Close's wait take the whole queue out of service; the closing
\* that follows, connection by connection, is not seen.
LEMMA DetachRefines ==
  ASSUME PoolInv, CustodyInv,
         \/ Pause \/ Resume
         \/ \E list \in detached : CloseIdleStep(list)
         \/ CloseStart \/ CloseStep
  PROVE  Contract!Suspend \/ Contract!Resume \/ Contract!Shut \/ UNCHANGED Contract!vars
<1> USE DEF PoolInv, TypeOK, CustodyInv, ConnectionOwned, SingleCustody, Unparked,
            offerVars, idleVars, acquireVars, closeVars
<1>1. Claimed' = Claimed /\ UNCHANGED <<idler, handed>>
  BY OwnersSame, ZenonT(30) DEF Pause, Resume, CloseIdleStep, closeIdleClose, closeIdleWait, CloseStart,
     CloseStep, CloseRecheck, CloseDetachedClose, CloseDetachedWait, CloseReturn
<1>2. ASSUME Range(ready') = {}, open' = open
      PROVE  Custody' = [c \in Conns |-> IF Custody[c] = "idle" THEN "gone" ELSE Custody[c]]
  BY <1>1, <1>2, CustodyAt
<1>3. ASSUME ready' = ready, open' = open
      PROVE  Custody' = Custody
  BY <1>1, <1>3, CustodyAt
<1>4. ASSUME NEW c \in Leaving, c \in Conns, ready' = ready, open' = open \ {c}
      PROVE  Custody' = Custody
  BY <1>1, <1>4, CustodyAt
<1>5. Range(<<>>) = {}
  BY EmptyRange
<1>6. CASE Pause
  <2>1. /\ Custody' = [c \in Conns |-> IF Custody[c] = "idle" THEN "gone" ELSE Custody[c]]
        /\ paused' = TRUE /\ closer' = closer
    BY <1>2, <1>5, <1>6 DEF Pause, detachReadyLocked
  <2> QED
    BY <2>1 DEF Contract!Suspend
<1>7. CASE Resume
  <2>1. Custody' = Custody /\ paused' = FALSE /\ closer' = closer
    BY <1>3, <1>7 DEF Resume
  <2> QED
    BY <2>1 DEF Contract!Resume
<1>8. CASE \E list \in detached : CloseIdleStep(list)
  <2>1. PICK list \in detached : CloseIdleStep(list)
    BY <1>8
  <2>2. Head(list) \in Leaving /\ Head(list) \in Conns
    <3>1. Head(list) \in Range(list) /\ Head(list) \in Conns
      BY TailRange, HeadTailProperties DEF ListsNonEmpty
    <3> QED
      BY <3>1, LeavingLists
  <2>3. UNCHANGED <<ready, paused, closer>> /\ open' \in {open, open \ {Head(list)}}
    BY <2>1 DEF CloseIdleStep, closeIdleClose, closeIdleWait
  <2>4. Custody' = Custody
    <3>1. CASE open' = open
      BY <1>3, <2>3, <3>1
    <3>2. CASE open' = open \ {Head(list)}
      BY <1>4, <2>2, <2>3, <3>2
    <3> QED
      BY <2>3, <3>1, <3>2
  <2> QED
    BY <2>3, <2>4 DEF Contract!vars
<1>9. CASE CloseStart \/ CloseReturn \/ CloseDetachedWait
  <2>1. UNCHANGED <<ready, open, paused>>
    BY <1>9 DEF CloseStart, CloseReturn, CloseDetachedWait
  <2>2. UNCHANGED (closer \in {"closing", "returned"})
    <3>1. \/ closer = "none" /\ closer' \in {"sleeping", "woken"}
          \/ closer = "closing" /\ closer' \in {"closing", "returned"}
      BY <1>9 DEF CloseStart, CloseReturn, CloseDetachedWait
    <3> QED
      BY <3>1
  <2> QED
    BY <1>3, <2>1, <2>2 DEF Contract!vars
<1>10. CASE CloseRecheck
  <2>1. CASE reserved > 0
    <3>1. UNCHANGED <<ready, open, paused>>
      BY <1>10, <2>1 DEF CloseRecheck
    <3>2. UNCHANGED (closer \in {"closing", "returned"})
      BY <1>10, <2>1 DEF CloseRecheck
    <3> QED
      BY <1>3, <3>1, <3>2 DEF Contract!vars
  <2>2. CASE reserved = 0
    <3>1. ready' = <<>> /\ open' = open /\ paused' = paused /\ closer' = "closing"
      BY <1>10, <2>2 DEF CloseRecheck, detachReadyLocked
    <3>2. Custody' = [c \in Conns |-> IF Custody[c] = "idle" THEN "gone" ELSE Custody[c]]
      BY <1>2, <1>5, <3>1, ZenonT(30)
    <3> QED
      BY <3>1, <3>2 DEF Contract!Shut
  <2> QED
    BY <2>1, <2>2
<1>11. CASE CloseDetachedClose
  <2>1. Head(closeList) \in Leaving /\ Head(closeList) \in Conns
    BY <1>11, TailRange, HeadTailProperties, LeavingLists DEF CloseDetachedClose
  <2>2. UNCHANGED <<ready, paused, closer>> /\ open' = open \ {Head(closeList)}
    BY <1>11 DEF CloseDetachedClose
  <2>3. Custody' = Custody
    BY <1>4, <2>1, <2>2
  <2> QED
    BY <2>2, <2>3 DEF Contract!vars
<1> QED
  BY <1>6, <1>7, <1>8, <1>9, <1>10, <1>11 DEF CloseStep

\* Every step of the pool is a step of IdlePool or changes nothing it shows.
LEMMA ContractStep ==
  PoolInv /\ QueueInv /\ CustodyInv /\ [Next]_vars => [Contract!Next]_(Contract!vars)
<1> SUFFICES ASSUME PoolInv, QueueInv, CustodyInv, [Next]_vars
             PROVE  Contract!Next \/ UNCHANGED Contract!vars
  OBVIOUS
<1>1. CASE Next
  BY <1>1, OfferRefines, IdleRefines, AcquireRefines, DetachRefines DEF Next, Contract!Next
<1>2. CASE UNCHANGED vars
  <2>1. Claimed' = Claimed
    BY <1>2, OwnersSame DEF vars
  <2>2. Custody' = Custody
    BY <1>2, <2>1, CustodyAt DEF vars
  <2> QED
    BY <1>2, <2>2 DEF vars, Contract!vars
<1> QED
  BY <1>1, <1>2

\* The pool implements IdlePool for any number of connections and callers and any limit:
\* a connection only moves forward through its owners, at most readyLimit are parked,
\* Pause and Close empty the queue in one step, and nothing is parked after either
\* (Commit, Acquire, Pause, Close and keepIdle of reverse_pool.go).
THEOREM PoolImplementsContract == Spec => ContractSpec
<1>1. Init => Contract!Init
  <2> SUFFICES ASSUME Init PROVE Contract!Init
    OBVIOUS
  <2>1. Range(ready) = {} /\ Claimed = {}
    BY DEF Init, Range, Claimed
  <2>2. Custody = [c \in Conns |-> "out"]
    BY <2>1, CustodyAt DEF Init
  <2> QED
    BY <2>2 DEF Init, Contract!Init
<1>2. Spec => []CustodyInv
  BY CustodyInit, CustodyStep, PoolInvariant, PTL DEF Spec
<1> QED
  BY <1>1, <1>2, ContractStep, PoolInvariant, QueueInvariant, PTL DEF Spec, ContractSpec, Contract!Spec
=============================================================================
