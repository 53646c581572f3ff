--------------------------- MODULE PortPoolProofs ---------------------------
(***************************************************************************)
(* What the operations of a port pool (portal/lease.go) do to a pool in good*)
(* order: they keep it in good order, and change the owner of at most one  *)
(* port.  The sequence lemmas say what queue operations do to a queue without*)
(* repetition.                                                             *)
(***************************************************************************)
EXTENDS LeaseRegistry, FiniteSetTheorems, TLAPS

\* A leaf that names no prover is given to the SMT solver, then to Zenon, for up to half a
\* minute each.
USE SMTT(30), ZenonT(30)

-----------------------------------------------------------------------------
(* Sequences without repetition *)

\* Appending adds one element at the end of the queue.
LEMMA AppendRange ==
  ASSUME NEW S, NEW s \in Seq(S), NEW x \in S
  PROVE  /\ Append(s, x) \in Seq(S)
         /\ Range(Append(s, x)) = Range(s) \cup {x}
         /\ IsInjective(s) /\ x \notin Range(s) => IsInjective(Append(s, x))
<1> DEFINE n == Len(s)
<1>1. /\ n \in Nat /\ DOMAIN s = 1..n
      /\ Append(s, x) \in Seq(S)
      /\ DOMAIN Append(s, x) = 1..(n + 1)
      /\ \A i \in 1..n : Append(s, x)[i] = s[i]
      /\ Append(s, x)[n + 1] = x
  OBVIOUS
<1> HIDE DEF n
<1>2. \A i : i \in 1..(n + 1) <=> i \in 1..n \/ i = n + 1
  BY <1>1
<1>3. Range(Append(s, x)) = Range(s) \cup {x}
  BY <1>1, <1>2 DEF Range
<1>4. ASSUME IsInjective(s), x \notin Range(s)
      PROVE  IsInjective(Append(s, x))
  BY <1>1, <1>2, <1>4 DEF IsInjective, Range
<1> QED BY <1>1, <1>3, <1>4

\* Taking the head of a queue without repetition leaves the rest.
LEMMA TailRange ==
  ASSUME NEW S, NEW s \in Seq(S), s # <<>>, IsInjective(s)
  PROVE  /\ Head(s) \in S /\ Head(s) \in Range(s)
         /\ Tail(s) \in Seq(S)
         /\ Range(Tail(s)) = Range(s) \ {Head(s)}
         /\ IsInjective(Tail(s))
<1> DEFINE n == Len(s)
           u == Tail(s)
<1>1. /\ n \in Nat \ {0} /\ DOMAIN s = 1..n
      /\ u \in Seq(S)
      /\ DOMAIN u = 1..(n - 1)
      /\ \A i \in 1..(n - 1) : u[i] = s[i + 1]
      /\ Head(s) = s[1]
      /\ s[1] \in S
  OBVIOUS
<1> HIDE DEF n, u
<1>2. Range(u) = Range(s) \ {s[1]}
  <2>1. /\ \A x : x \in Range(s) <=> \E i \in 1..n : x = s[i]
        /\ \A x : x \in Range(u) <=> \E i \in 1..(n - 1) : x = u[i]
    BY <1>1, ZenonT(30) DEF Range
  <2>2. \A i, j \in 1..n : s[i] = s[j] => i = j
    BY <1>1, ZenonT(30) DEF IsInjective
  <2>3. \A i \in 1..(n - 1) : i + 1 \in 1..n /\ i + 1 # 1
    BY <1>1
  <2>4. 1 \in 1..n
    BY <1>1
  <2>5. \A i \in 1..(n - 1) : u[i] \in Range(s) /\ u[i] # s[1]
    BY <1>1, <2>1, <2>2, <2>3, <2>4
  <2>6. ASSUME NEW j \in 1..n, s[j] # s[1] PROVE s[j] \in Range(u)
    <3>1. j - 1 \in 1..(n - 1) /\ (j - 1) + 1 = j
      BY <1>1, <2>6
    <3>2. u[j - 1] = s[j]
      BY <1>1, <3>1
    <3> QED BY <2>1, <3>1, <3>2
  <2>7. \A x : x \in Range(u) <=> x \in Range(s) /\ x # s[1]
    BY <2>1, <2>5, <2>6
  <2> QED BY <2>7
<1>3. IsInjective(u)
  <2> SUFFICES ASSUME NEW i \in 1..(n - 1), NEW j \in 1..(n - 1), u[i] = u[j]
               PROVE  i = j
    BY <1>1 DEF IsInjective
  <2>1. i + 1 \in DOMAIN s /\ j + 1 \in DOMAIN s /\ s[i + 1] = s[j + 1]
    BY <1>1
  <2>2. i + 1 = j + 1
    BY <2>1 DEF IsInjective
  <2> QED BY <1>1, <2>2
<1>4. Head(s) \in Range(s)
  BY <1>1 DEF Range
<1> QED BY <1>1, <1>2, <1>3, <1>4 DEF u

\* Joining two queues without repetition and without a common element.
LEMMA ConcatRange ==
  ASSUME NEW S, NEW s \in Seq(S), NEW r \in Seq(S)
  PROVE  /\ s \o r \in Seq(S)
         /\ Range(s \o r) = Range(s) \cup Range(r)
         /\ IsInjective(s) /\ IsInjective(r) /\ Range(s) \cap Range(r) = {}
              => IsInjective(s \o r)
<1> DEFINE m == Len(s)
           n == Len(r)
           u == s \o r
<1>1. /\ m \in Nat /\ DOMAIN s = 1..m
      /\ n \in Nat /\ DOMAIN r = 1..n
      /\ u \in Seq(S)
      /\ DOMAIN u = 1..(m + n)
      /\ \A i \in 1..(m + n) : u[i] = IF i <= m THEN s[i] ELSE r[i - m]
  OBVIOUS
<1> HIDE DEF m, n, u
<1>2. \A i \in 1..m : i \in 1..(m + n) /\ u[i] = s[i]
  BY <1>1
<1>3. \A i \in 1..n : i + m \in 1..(m + n) /\ u[i + m] = r[i]
  BY <1>1
<1>4. \A i \in 1..(m + n) : i \in 1..m \/ (i - m \in 1..n /\ u[i] = r[i - m])
  BY <1>1
<1>5. /\ \A x : x \in Range(s) <=> \E i \in 1..m : x = s[i]
      /\ \A x : x \in Range(r) <=> \E i \in 1..n : x = r[i]
      /\ \A x : x \in Range(u) <=> \E i \in 1..(m + n) : x = u[i]
  BY <1>1, ZenonT(30) DEF Range
<1>6. Range(u) = Range(s) \cup Range(r)
  <2>1. \A x : x \in Range(u) <=> x \in Range(s) \/ x \in Range(r)
    BY <1>2, <1>3, <1>4, <1>5
  <2> QED BY <2>1
<1>7. ASSUME IsInjective(s), IsInjective(r), Range(s) \cap Range(r) = {}
      PROVE  IsInjective(u)
  <2> SUFFICES ASSUME NEW i \in 1..(m + n), NEW j \in 1..(m + n), u[i] = u[j]
               PROVE  i = j
    BY <1>1 DEF IsInjective
  <2>1. CASE i \in 1..m /\ j \in 1..m
    BY <1>1, <1>2, <1>7, <2>1, ZenonT(30) DEF IsInjective
  <2>2. CASE i \in 1..m /\ j \notin 1..m
    BY <1>2, <1>4, <1>5, <1>7, <2>2, ZenonT(30)
  <2>3. CASE i \notin 1..m /\ j \in 1..m
    BY <1>2, <1>4, <1>5, <1>7, <2>3, ZenonT(30)
  <2>4. CASE i \notin 1..m /\ j \notin 1..m
    <3>1. i - m \in DOMAIN r /\ j - m \in DOMAIN r /\ r[i - m] = r[j - m]
      BY <1>1, <1>4, <2>4
    <3>2. i - m = j - m
      BY <1>7, <3>1 DEF IsInjective
    <3> QED BY <1>1, <3>2
  <2> QED BY <2>1, <2>2, <2>3, <2>4
<1> QED BY <1>1, <1>6, <1>7 DEF u

\* A set put in some order is listed once, and wholly.
LEMMA OrderRange ==
  ASSUME NEW S, IsFiniteSet(S), NEW f \in Orders(S)
  PROVE  f \in Seq(S) /\ Range(f) = S /\ IsInjective(f)
<1>1. Cardinality(S) \in Nat
  BY FS_CardinalityType
<1> QED
  BY <1>1 DEF Orders, Bijection, Injection, Surjection, Range

-----------------------------------------------------------------------------
(* The operations of a pool *)

LEMMA PortsFacts ==
  /\ IsFiniteSet(Ports)
  /\ NoPort \notin Ports
  /\ \A S \in SUBSET Ports : IsFiniteSet(S)
<1>1. MinPort \in Nat /\ MaxPort \in Nat
  BY RegistryAssumption
<1>2. IsFiniteSet(Ports)
  <2>1. CASE MinPort = 0
    BY <2>1, FS_EmptySet DEF Ports
  <2>2. CASE MinPort # 0
    BY <1>1, <2>2, FS_Interval DEF Ports
  <2> QED BY <2>1, <2>2
<1>3. NoPort \notin Ports
  BY <1>1 DEF NoPort, Ports
<1> QED BY <1>2, <1>3, FS_Subset

\* The places of a pool, point by point.
LEMMA Places ==
  ASSUME NEW pool \in PortPools
  PROVE  /\ \A p : p \in Used(pool) <=> p \in Ports /\ pool.inUse[p] # NoLease
         /\ \A p : p \in Kept(pool) <=> p # NoPort /\ \E k \in Keys : pool.reserved[k] = p
         /\ Free(pool) \subseteq Ports /\ Kept(pool) \subseteq Ports
<1>1. pool.available \in Seq(Ports)
  BY DEF PortPools
<1>2. \A s \in Seq(Ports) : Range(s) \subseteq Ports
  BY DEF Range
<1>3. \A k \in Keys : pool.reserved[k] \in Ports \cup {NoPort}
  BY DEF PortPools
<1> QED BY <1>1, <1>2, <1>3 DEF Free, Used, Kept

\* A pool whose places are given point by point is accounted for.
LEMMA AccountedPointwise ==
  ASSUME NEW pool \in PortPools,
         \A p \in Ports : p \in Free(pool) \/ p \in Used(pool) \/ p \in Kept(pool),
         \A p \in Ports : /\ ~(p \in Free(pool) /\ p \in Used(pool))
                          /\ ~(p \in Free(pool) /\ p \in Kept(pool))
                          /\ ~(p \in Used(pool) /\ p \in Kept(pool)),
         IsInjective(pool.available),
         \A j, k \in Keys :
           pool.reserved[j] = pool.reserved[k] /\ pool.reserved[j] # NoPort => j = k
  PROVE  Accounted(pool)
<1>1. Free(pool) \subseteq Ports /\ Used(pool) \subseteq Ports /\ Kept(pool) \subseteq Ports
  BY Places DEF Used
<1> QED BY <1>1 DEF Accounted

\* cleanupExpired moves the lapsed reservations to the queue, and nothing else.
LEMMA CleanupOK ==
  ASSUME NEW pool, PoolOK(pool), NEW q \in cleanupExpired(pool)
  PROVE  /\ PoolOK(q)
         /\ q.inUse = pool.inUse
         /\ q.reclaimed = pool.reclaimed
         /\ q.lapsed = {}
         /\ \A k \in Keys : q.reserved[k] = IF k \in pool.lapsed THEN NoPort ELSE pool.reserved[k]
<1> DEFINE R == {pool.reserved[k] : k \in pool.lapsed}
<1>1. pool \in PortPools
  BY DEF PoolOK
<1>2. R \subseteq Kept(pool) /\ R \subseteq Ports
  <2>1. \A k \in pool.lapsed : k \in Keys /\ pool.reserved[k] # NoPort
    BY <1>1 DEF PoolOK, PortPools
  <2> QED BY <1>1, <2>1, Places
<1>3. PICK order \in Orders(R) :
        q = [pool EXCEPT !.available = @ \o order,
                         !.reserved = [k \in Keys |-> IF k \in pool.lapsed THEN NoPort ELSE @[k]],
                         !.lapsed = {}]
  BY ZenonT(30) DEF cleanupExpired
<1>4. order \in Seq(R) /\ Range(order) = R /\ IsInjective(order)
  BY <1>2, PortsFacts, OrderRange
<1>5. order \in Seq(Ports)
  BY <1>2, <1>4
<1>6. /\ q.available = pool.available \o order
      /\ q.inUse = pool.inUse
      /\ q.reclaimed = pool.reclaimed
      /\ q.lapsed = {}
      /\ q.reserved = [k \in Keys |-> IF k \in pool.lapsed THEN NoPort ELSE pool.reserved[k]]
  BY <1>1, <1>3 DEF PortPools
<1>7. pool.available \in Seq(Ports) /\ IsInjective(pool.available) /\ Range(pool.available) \cap R = {}
  BY <1>1, <1>2 DEF PoolOK, Accounted, PortPools, Free
<1>8. /\ q.available \in Seq(Ports)
      /\ Range(q.available) = Range(pool.available) \cup R
      /\ IsInjective(q.available)
  BY <1>4, <1>5, <1>6, <1>7, ConcatRange
<1>9. q \in PortPools
  BY <1>1, <1>3, <1>6, <1>8, ZenonT(30) DEF PortPools
<1>10. Accounted(q)
  <2>1. Free(q) = Free(pool) \cup R
    BY <1>8 DEF Free
  <2>2. Used(q) = Used(pool)
    BY <1>6 DEF Used
  <2>3. \A j, k \in Keys : pool.reserved[j] = pool.reserved[k] /\ pool.reserved[j] # NoPort => j = k
    BY DEF PoolOK, Accounted
  <2>4. \A p : p \in Kept(q) <=> p \in Kept(pool) /\ p \notin R
    <3>1. \A k \in Keys : q.reserved[k] = IF k \in pool.lapsed THEN NoPort ELSE pool.reserved[k]
      BY <1>6
    <3>2. pool.lapsed \subseteq Keys
      BY <1>1 DEF PortPools
    <3>3. ASSUME NEW p \in Kept(q) PROVE p \in Kept(pool) /\ p \notin R
      BY <1>1, <1>9, <2>3, <3>1, <3>2, Places
    <3>4. ASSUME NEW p \in Kept(pool), p \notin R PROVE p \in Kept(q)
      <4>1. PICK k \in Keys : pool.reserved[k] = p
        BY <1>1, Places
      <4>2. k \notin pool.lapsed
        BY <3>4, <4>1
      <4> QED BY <1>1, <1>9, <3>1, <4>1, <4>2, Places
    <3> QED BY <3>3, <3>4
  <2>5. Kept(q) = Kept(pool) \ R
    BY <2>4
  <2>6. \A j, k \in Keys : q.reserved[j] = q.reserved[k] /\ q.reserved[j] # NoPort => j = k
    BY <1>6, <2>3
  <2> QED BY <1>2, <1>8, <2>1, <2>2, <2>5, <2>6 DEF PoolOK, Accounted
<1> QED
  BY <1>6, <1>9, <1>10 DEF PoolOK

\* allocate takes a port nobody uses: the identity's own reservation if it has one.
LEMMA AllocateOK ==
  ASSUME NEW pool, PoolOK(pool), pool.lapsed = {},
         NEW l \in Leases, NEW k \in Keys, ~Exhausted(pool, k)
  PROVE  LET p == PortFor(pool, k)
             q == allocate(pool, l, k)
         IN  /\ PoolOK(q)
             /\ p \in Ports /\ pool.inUse[p] = NoLease
             /\ q.inUse = [pool.inUse EXCEPT ![p] = l]
             /\ pool.reserved[k] # NoPort => p = pool.reserved[k]
             /\ \A j \in Keys \ {k} : q.reserved[j] = pool.reserved[j]
<1> DEFINE p == PortFor(pool, k)
           q == allocate(pool, l, k)
           own == p = pool.reserved[k]
<1>1. pool \in PortPools /\ Accounted(pool)
  BY DEF PoolOK
<1>2. /\ \A x : x \in Used(pool) <=> x \in Ports /\ pool.inUse[x] # NoLease
      /\ \A x : x \in Kept(pool) <=> x # NoPort /\ \E j \in Keys : pool.reserved[j] = x
      /\ Free(pool) \subseteq Ports /\ Kept(pool) \subseteq Ports
  BY <1>1, Places
<1>3. /\ pool.available \in Seq(Ports) /\ IsInjective(pool.available)
      /\ \A i, j \in Keys : pool.reserved[i] = pool.reserved[j] /\ pool.reserved[i] # NoPort => i = j
      /\ pool.inUse \in [Ports -> Leases \cup {NoLease}]
      /\ pool.reserved \in [Keys -> Ports \cup {NoPort}]
      /\ pool.reclaimed \subseteq Ports
  BY <1>1 DEF PortPools, Accounted
<1>4. /\ q.available = IF own THEN pool.available ELSE Tail(pool.available)
      /\ q.inUse = [pool.inUse EXCEPT ![p] = l]
      /\ q.reclaimed = IF own THEN pool.reclaimed \cup {p} ELSE pool.reclaimed
      /\ q.reserved = [pool.reserved EXCEPT ![k] = IF own THEN NoPort ELSE @]
      /\ q.lapsed = {}
      /\ q = [available |-> q.available, inUse |-> q.inUse, reclaimed |-> q.reclaimed,
              reserved |-> q.reserved, lapsed |-> q.lapsed]
  <2>1. q = [pool EXCEPT !.available = IF own THEN @ ELSE Tail(@),
                         !.inUse[p] = l,
                         !.reclaimed = IF own THEN @ \cup {p} ELSE @,
                         !.reserved[k] = IF own THEN NoPort ELSE @]
    BY DEF allocate
  <2> HIDE DEF p, q, own
  <2> QED BY <1>1, <2>1, ZenonT(30) DEF PortPools
<1>5. NoPort \notin Ports /\ l # NoLease
  BY PortsFacts, RegistryAssumption
<1>6. CASE pool.reserved[k] # NoPort
  <2>1. p = pool.reserved[k] /\ own /\ p \in Kept(pool) /\ p \in Ports
    BY <1>2, <1>6 DEF PortFor
  <2>2. p \notin Used(pool) /\ p \notin Free(pool)
    BY <1>1, <2>1 DEF Accounted
  <2> HIDE DEF p, q
  <2>3. q \in PortPools
    BY <1>3, <1>4, <2>1 DEF PortPools
  <2>4. Free(q) = Free(pool)
    BY <1>4, <2>1 DEF Free
  <2>5. \A x \in Ports : x \in Used(q) <=> x \in Used(pool) \/ x = p
    BY <1>2, <1>3, <1>4, <1>5, <2>1 DEF Used
  <2>6. \A j \in Keys : q.reserved[j] = IF j = k THEN NoPort ELSE pool.reserved[j]
    BY <1>3, <1>4, <2>1
  <2>7. \A x : x \in Kept(q) <=> x \in Kept(pool) /\ x # p
    BY <1>2, <1>3, <2>1, <2>3, <2>6, Places
  <2>8. \A x \in Ports : x \in Free(pool) \/ x \in Used(pool) \/ x \in Kept(pool)
    BY <1>1 DEF Accounted
  <2>9. \A x \in Ports : /\ ~(x \in Free(pool) /\ x \in Used(pool))
                         /\ ~(x \in Free(pool) /\ x \in Kept(pool))
                         /\ ~(x \in Used(pool) /\ x \in Kept(pool))
    BY <1>1 DEF Accounted
  <2>10. Accounted(q)
    <3>1. IsInjective(q.available)
      BY <1>3, <1>4, <2>1
    <3>2. \A i, j \in Keys : q.reserved[i] = q.reserved[j] /\ q.reserved[i] # NoPort => i = j
      BY <1>3, <2>6
    <3>3. \A x \in Ports : x \in Free(q) \/ x \in Used(q) \/ x \in Kept(q)
      BY <2>4, <2>5, <2>7, <2>8
    <3>4. \A x \in Ports : /\ ~(x \in Free(q) /\ x \in Used(q))
                           /\ ~(x \in Free(q) /\ x \in Kept(q))
                           /\ ~(x \in Used(q) /\ x \in Kept(q))
      BY <2>2, <2>4, <2>5, <2>7, <2>9
    <3> QED BY <2>3, <3>1, <3>2, <3>3, <3>4, AccountedPointwise
  <2> QED BY <1>2, <1>4, <2>1, <2>2, <2>3, <2>6, <2>10 DEF PoolOK, p, q
<1>7. CASE pool.reserved[k] = NoPort
  <2>1. p = Head(pool.available) /\ pool.available # <<>>
    BY <1>7 DEF PortFor, Exhausted
  <2>2. /\ p \in Ports /\ p \in Free(pool)
        /\ Tail(pool.available) \in Seq(Ports)
        /\ Range(Tail(pool.available)) = Free(pool) \ {p}
        /\ IsInjective(Tail(pool.available))
    BY <1>3, <2>1, TailRange DEF Free
  <2>3. ~own
    BY <1>5, <1>7, <2>2
  <2>4. p \notin Used(pool) /\ p \notin Kept(pool)
    BY <1>1, <2>2 DEF Accounted
  <2> HIDE DEF p, q
  <2>5. q \in PortPools
    <3>1. /\ q.available \in Seq(Ports) /\ q.inUse \in [Ports -> Leases \cup {NoLease}]
          /\ q.reclaimed \subseteq Ports /\ q.reserved \in [Keys -> Ports \cup {NoPort}]
          /\ q.lapsed \subseteq Keys
      BY <1>3, <1>4, <2>2, <2>3
    <3> QED BY <1>4, <3>1, ZenonT(30) DEF PortPools
  <2>6. Free(q) = Free(pool) \ {p}
    BY <1>4, <2>2, <2>3 DEF Free
  <2>7. \A x \in Ports : x \in Used(q) <=> x \in Used(pool) \/ x = p
    BY <1>2, <1>3, <1>4, <1>5, <2>2 DEF Used
  <2>8. q.reserved = pool.reserved
    BY <1>3, <1>4, <2>3
  <2>9. Kept(q) = Kept(pool)
    BY <2>8 DEF Kept
  <2>10. Accounted(q)
    <3>1. IsInjective(q.available)
      BY <1>4, <2>2, <2>3
    <3>2. \A x \in Ports : x \in Free(q) \/ x \in Used(q) \/ x \in Kept(q)
      BY <1>1, <2>6, <2>7, <2>9 DEF Accounted
    <3>3. \A x \in Ports : /\ ~(x \in Free(q) /\ x \in Used(q))
                           /\ ~(x \in Free(q) /\ x \in Kept(q))
                           /\ ~(x \in Used(q) /\ x \in Kept(q))
      BY <1>1, <2>4, <2>6, <2>7, <2>9 DEF Accounted
    <3> QED BY <1>3, <2>5, <2>8, <3>1, <3>2, <3>3, AccountedPointwise
  <2> QED BY <1>2, <1>4, <1>7, <2>2, <2>4, <2>5, <2>8, <2>10 DEF PoolOK, p, q
<1> QED BY <1>6, <1>7

\* A port in use is given up by identity k: of that port and the reservation k had, if
\* any, one is kept for k and the other freed, that is, queued.
GivesUp(pool, q, p, k, kept, freed) ==
  /\ q \in PortPools
  /\ p \in Ports /\ pool.inUse[p] # NoLease
  /\ k \in Keys
  /\ (kept = p /\ freed = pool.reserved[k]) \/ (kept = pool.reserved[k] /\ freed = p)
  /\ q.inUse = [pool.inUse EXCEPT ![p] = NoLease]
  /\ q.reserved = [pool.reserved EXCEPT ![k] = kept]
  /\ q.available = IF freed = NoPort THEN pool.available ELSE Append(pool.available, freed)
  /\ \A j \in q.lapsed : q.reserved[j] # NoPort

\* Giving up a port leaves the pool accounted for; rollback and release are such steps.
LEMMA GivesUpOK ==
  ASSUME NEW pool, NEW q, NEW p, NEW k, NEW kept, NEW freed,
         PoolOK(pool), GivesUp(pool, q, p, k, kept, freed)
  PROVE  PoolOK(q)
<1> USE DEF GivesUp
<1>1. pool \in PortPools /\ Accounted(pool)
  BY DEF PoolOK
<1>2. /\ \A x : x \in Used(pool) <=> x \in Ports /\ pool.inUse[x] # NoLease
      /\ \A x : x \in Kept(pool) <=> x # NoPort /\ \E j \in Keys : pool.reserved[j] = x
      /\ Free(pool) \subseteq Ports /\ Kept(pool) \subseteq Ports
  BY <1>1, Places
<1>3. /\ \A x : x \in Used(q) <=> x \in Ports /\ q.inUse[x] # NoLease
      /\ \A x : x \in Kept(q) <=> x # NoPort /\ \E j \in Keys : q.reserved[j] = x
      /\ Free(q) \subseteq Ports /\ Kept(q) \subseteq Ports
  BY Places, ZenonT(30)
<1>4. /\ pool.available \in Seq(Ports) /\ IsInjective(pool.available)
      /\ \A i, j \in Keys : pool.reserved[i] = pool.reserved[j] /\ pool.reserved[i] # NoPort => i = j
      /\ pool.inUse \in [Ports -> Leases \cup {NoLease}]
      /\ pool.reserved \in [Keys -> Ports \cup {NoPort}]
  BY <1>1 DEF PortPools, Accounted
<1>5. /\ \A x \in Ports : x \in Free(pool) \/ x \in Used(pool) \/ x \in Kept(pool)
      /\ \A x \in Ports : /\ ~(x \in Free(pool) /\ x \in Used(pool))
                          /\ ~(x \in Free(pool) /\ x \in Kept(pool))
                          /\ ~(x \in Used(pool) /\ x \in Kept(pool))
  BY <1>1 DEF Accounted
<1>6. NoPort \notin Ports /\ p # NoPort /\ p \in Used(pool)
  BY <1>2, PortsFacts
<1>7. p # pool.reserved[k] /\ freed # kept /\ pool.reserved[k] \in Ports \cup {NoPort}
  BY <1>2, <1>4, <1>5, <1>6
<1>8. \A x \in Ports : x \in Used(q) <=> x \in Used(pool) /\ x # p
  BY <1>2, <1>3, <1>4
<1>9. \A j \in Keys : q.reserved[j] = IF j = k THEN kept ELSE pool.reserved[j]
  BY <1>4
<1>10. freed # NoPort => freed \in Ports /\ freed \notin Free(pool)
  <2>1. p \in Ports /\ p \notin Free(pool)
    BY <1>5, <1>6
  <2>2. pool.reserved[k] # NoPort => pool.reserved[k] \in Ports /\ pool.reserved[k] \notin Free(pool)
    BY <1>2, <1>5, <1>7
  <2> QED BY <2>1, <2>2
<1>11. /\ \A x : x \in Free(q) <=> x \in Free(pool) \/ (x = freed /\ freed # NoPort)
       /\ IsInjective(q.available)
  <2>1. CASE freed = NoPort
    BY <1>4, <2>1 DEF Free
  <2>2. CASE freed # NoPort
    BY <1>4, <1>10, <2>2, AppendRange DEF Free
  <2> QED BY <2>1, <2>2
<1>12. \A x \in Ports : x \in Kept(q) <=> (x \in Kept(pool) \/ x = p) /\ x # freed
  <2>1. CASE kept = p /\ freed = pool.reserved[k]
    <3>1. \A x \in Kept(q) : (x \in Kept(pool) \/ x = p) /\ x # freed
      BY <1>2, <1>3, <1>4, <1>7, <1>9, <2>1
    <3>2. p \in Kept(q)
      BY <1>3, <1>6, <1>9, <2>1
    <3>3. \A x \in Kept(pool) : x # freed => x \in Kept(q)
      BY <1>2, <1>3, <1>9, <2>1
    <3> QED BY <1>7, <2>1, <3>1, <3>2, <3>3
  <2>2. CASE kept = pool.reserved[k] /\ freed = p
    <3>1. q.reserved = pool.reserved
      BY <1>4, <2>2
    <3>2. Kept(q) = Kept(pool)
      BY <3>1 DEF Kept
    <3> QED BY <1>5, <1>6, <2>2, <3>2
  <2> QED BY <2>1, <2>2
<1>13. \A i, j \in Keys : q.reserved[i] = q.reserved[j] /\ q.reserved[i] # NoPort => i = j
  BY <1>2, <1>4, <1>5, <1>6, <1>9
<1>14. \A x \in Ports : x \in Free(q) \/ x \in Used(q) \/ x \in Kept(q)
  BY <1>5, <1>6, <1>8, <1>11, <1>12
<1>15. \A x \in Ports : /\ ~(x \in Free(q) /\ x \in Used(q))
                        /\ ~(x \in Free(q) /\ x \in Kept(q))
                        /\ ~(x \in Used(q) /\ x \in Kept(q))
  BY <1>2, <1>5, <1>6, <1>7, <1>8, <1>11, <1>12
<1>16. Accounted(q)
  BY <1>11, <1>13, <1>14, <1>15, AccountedPointwise, ZenonT(30)
<1> QED BY <1>16 DEF PoolOK

\* rollback frees the port of its owner only, leaves every reservation in place, and
\* restores the one the port came from.
LEMMA RollbackOK ==
  ASSUME NEW pool, PoolOK(pool),
         NEW p \in Ports, NEW l \in Leases, NEW k \in Keys
  PROVE  LET q == rollback(pool, p, l, k)
         IN  /\ PoolOK(q)
             /\ \A x \in Ports : q.inUse[x] = IF x = p /\ pool.inUse[p] = l THEN NoLease
                                              ELSE pool.inUse[x]
             /\ \A j \in Keys : pool.reserved[j] # NoPort => q.reserved[j] = pool.reserved[j]
             /\ p \in pool.reclaimed /\ pool.inUse[p] = l => q.reserved[k] # NoPort
<1> DEFINE q == rollback(pool, p, l, k)
           restore == p \in pool.reclaimed /\ pool.reserved[k] = NoPort
<1>1. CASE pool.inUse[p] # l
  BY <1>1 DEF rollback
<1>2. CASE pool.inUse[p] = l
  <2>1. pool \in PortPools
    BY DEF PoolOK
  <2>2. NoPort \notin Ports /\ l # NoLease
    BY PortsFacts, RegistryAssumption
  <2>3. q = [pool EXCEPT !.inUse[p] = NoLease,
                         !.reclaimed = @ \ {p},
                         !.reserved[k] = IF restore THEN p ELSE @,
                         !.available = IF restore THEN @ ELSE Append(@, p)]
    BY <1>2 DEF rollback
  <2> DEFINE kept == IF restore THEN p ELSE pool.reserved[k]
             freed == IF restore THEN NoPort ELSE p
  <2> HIDE DEF q, restore
  <2>4. /\ pool.available \in Seq(Ports)
        /\ pool.inUse \in [Ports -> Leases \cup {NoLease}]
        /\ pool.reserved \in [Keys -> Ports \cup {NoPort}]
        /\ pool.reclaimed \subseteq Ports /\ pool.lapsed \subseteq Keys
    BY <2>1 DEF PortPools
  <2>5. /\ q.inUse = [pool.inUse EXCEPT ![p] = NoLease]
        /\ q.reclaimed = pool.reclaimed \ {p}
        /\ q.reserved = [pool.reserved EXCEPT ![k] = kept]
        /\ q.available = IF restore THEN pool.available ELSE Append(pool.available, p)
        /\ q.lapsed = pool.lapsed
        /\ q = [available |-> q.available, inUse |-> q.inUse, reclaimed |-> q.reclaimed,
                reserved |-> q.reserved, lapsed |-> q.lapsed]
    BY <2>1, <2>3, ZenonT(30) DEF PortPools
  <2>6. q.available = IF freed = NoPort THEN pool.available ELSE Append(pool.available, freed)
    BY <2>2, <2>5
  <2>7. q \in PortPools
    <3>1. q.available \in Seq(Ports)
      BY <2>4, <2>5, AppendRange
    <3>2. /\ q.inUse \in [Ports -> Leases \cup {NoLease}]
          /\ q.reclaimed \subseteq Ports /\ q.reserved \in [Keys -> Ports \cup {NoPort}]
          /\ q.lapsed \subseteq Keys
      BY <2>4, <2>5
    <3> QED BY <2>5, <3>1, <3>2, ZenonT(30) DEF PortPools
  <2>8. (kept = p /\ freed = pool.reserved[k]) \/ (kept = pool.reserved[k] /\ freed = p)
    <3>1. restore => pool.reserved[k] = NoPort
      BY DEF restore
    <3>2. CASE restore
      BY <3>1, <3>2
    <3>3. CASE ~restore
      BY <3>3
    <3> QED BY <3>2, <3>3
  <2>9. \A j \in q.lapsed : q.reserved[j] # NoPort
    BY <2>2, <2>4, <2>5 DEF PoolOK
  <2> HIDE DEF kept, freed
  <2>10. PoolOK(q)
    <3>1. GivesUp(pool, q, p, k, kept, freed)
      BY <1>2, <2>2, <2>5, <2>6, <2>7, <2>8, <2>9 DEF GivesUp
    <3> QED BY <3>1, GivesUpOK
  <2>11. \A j \in Keys : pool.reserved[j] # NoPort => q.reserved[j] = pool.reserved[j]
    BY <2>4, <2>5 DEF kept, restore
  <2>12. p \in pool.reclaimed => q.reserved[k] # NoPort
    BY <2>2, <2>4, <2>5 DEF kept, restore
  <2> QED BY <1>2, <2>4, <2>5, <2>10, <2>11, <2>12 DEF q
<1> QED BY <1>1, <1>2

\* release frees the port of its owner only and keeps it for the owner's identity; the
\* reservations of others stay unless they have lapsed.
LEMMA ReleaseOK ==
  ASSUME NEW pool, PoolOK(pool),
         NEW p \in Ports, NEW l \in Leases, NEW k \in Keys,
         NEW q \in release(pool, p, l, k)
  PROVE  /\ PoolOK(q)
         /\ \A x \in Ports : q.inUse[x] = IF x = p /\ pool.inUse[p] = l THEN NoLease
                                          ELSE pool.inUse[x]
         /\ \A j \in Keys : pool.reserved[j] # NoPort /\ j \notin pool.lapsed
                              => q.reserved[j] = pool.reserved[j] \/ q.reserved[j] # NoPort
         /\ pool.inUse[p] = l => q.reserved[k] # NoPort
<1>1. CASE pool.inUse[p] # l
  BY <1>1 DEF release
<1>2. CASE pool.inUse[p] = l
  <2> DEFINE r == [pool EXCEPT !.inUse[p] = NoLease,
                               !.reclaimed = @ \ {p},
                               !.reserved[k] = p,
                               !.lapsed = @ \ {k},
                               !.available = IF pool.reserved[k] = NoPort THEN @
                                             ELSE Append(@, pool.reserved[k])]
             freed == pool.reserved[k]
  <2>1. pool \in PortPools
    BY DEF PoolOK
  <2>2. NoPort \notin Ports /\ l # NoLease
    BY PortsFacts, RegistryAssumption
  <2>3. q \in cleanupExpired(r)
    BY <1>2 DEF release
  <2>4. /\ pool.available \in Seq(Ports)
        /\ pool.inUse \in [Ports -> Leases \cup {NoLease}]
        /\ pool.reserved \in [Keys -> Ports \cup {NoPort}]
        /\ pool.reclaimed \subseteq Ports /\ pool.lapsed \subseteq Keys
    BY <2>1 DEF PortPools
  <2>0. r = [pool EXCEPT !.inUse[p] = NoLease,
                         !.reclaimed = @ \ {p},
                         !.reserved[k] = p,
                         !.lapsed = @ \ {k},
                         !.available = IF freed = NoPort THEN @ ELSE Append(@, freed)]
    OBVIOUS
  <2> HIDE DEF r
  <2>5. /\ r.inUse = [pool.inUse EXCEPT ![p] = NoLease]
        /\ r.reclaimed = pool.reclaimed \ {p}
        /\ r.reserved = [pool.reserved EXCEPT ![k] = p]
        /\ r.available = IF freed = NoPort THEN pool.available ELSE Append(pool.available, freed)
        /\ r.lapsed = pool.lapsed \ {k}
        /\ r = [available |-> r.available, inUse |-> r.inUse, reclaimed |-> r.reclaimed,
                reserved |-> r.reserved, lapsed |-> r.lapsed]
    BY <2>1, <2>0, ZenonT(30) DEF PortPools
  <2>6. r \in PortPools
    <3>1. r.available \in Seq(Ports)
      BY <2>4, <2>5, AppendRange
    <3>2. /\ r.inUse \in [Ports -> Leases \cup {NoLease}]
          /\ r.reclaimed \subseteq Ports /\ r.reserved \in [Keys -> Ports \cup {NoPort}]
          /\ r.lapsed \subseteq Keys
      BY <2>4, <2>5
    <3> QED BY <2>5, <3>1, <3>2, ZenonT(30) DEF PortPools
  <2>7. \A j \in r.lapsed : r.reserved[j] # NoPort
    BY <2>2, <2>4, <2>5 DEF PoolOK
  <2>8. GivesUp(pool, r, p, k, p, freed)
    BY <1>2, <2>2, <2>5, <2>6, <2>7 DEF GivesUp
  <2>9. PoolOK(r)
    BY <2>8, GivesUpOK
  <2>10. /\ PoolOK(q)
         /\ q.inUse = r.inUse
         /\ \A j \in Keys : q.reserved[j] = IF j \in r.lapsed THEN NoPort ELSE r.reserved[j]
    BY <2>3, <2>9, CleanupOK
  <2>11. q.reserved[k] = p
    BY <2>4, <2>5, <2>10
  <2>12. \A j \in Keys \ {k} : j \notin pool.lapsed => q.reserved[j] = pool.reserved[j]
    BY <2>4, <2>5, <2>10
  <2> QED BY <1>2, <2>2, <2>4, <2>5, <2>10, <2>11, <2>12
<1> QED BY <1>1, <1>2

\* The passing of a deadline moves no port.
LEMMA LapseOK ==
  ASSUME NEW pool, PoolOK(pool)
  PROVE  /\ \A k \in Keys : pool.reserved[k] # NoPort =>
              LET q == LapseReservation(pool, k)
              IN  PoolOK(q) /\ q.inUse = pool.inUse /\ q.reserved = pool.reserved
         /\ \A p \in Ports :
              LET q == LapseReclaimed(pool, p)
              IN  PoolOK(q) /\ q.inUse = pool.inUse /\ q.reserved = pool.reserved
<1>1. ASSUME NEW q, q \in PortPools, q.available = pool.available, q.inUse = pool.inUse,
             q.reserved = pool.reserved
      PROVE  Accounted(q)
  <2>1. Free(q) = Free(pool) /\ Used(q) = Used(pool) /\ Kept(q) = Kept(pool)
    BY <1>1 DEF Free, Used, Kept
  <2> QED BY <1>1, <2>1 DEF PoolOK, Accounted
<1>2. pool \in PortPools
  BY DEF PoolOK
<1>3. ASSUME NEW k \in Keys, pool.reserved[k] # NoPort
      PROVE  LET q == LapseReservation(pool, k)
             IN  PoolOK(q) /\ q.inUse = pool.inUse /\ q.reserved = pool.reserved
  <2> DEFINE q == LapseReservation(pool, k)
  <2>1. /\ q \in PortPools /\ q.available = pool.available /\ q.inUse = pool.inUse
        /\ q.reserved = pool.reserved /\ q.lapsed = pool.lapsed \cup {k}
    BY <1>2 DEF PortPools, LapseReservation
  <2> HIDE DEF q
  <2>2. PoolOK(q)
    BY <1>1, <1>3, <2>1 DEF PoolOK
  <2> QED BY <2>1, <2>2 DEF q
<1>4. ASSUME NEW p \in Ports
      PROVE  LET q == LapseReclaimed(pool, p)
             IN  PoolOK(q) /\ q.inUse = pool.inUse /\ q.reserved = pool.reserved
  <2> DEFINE q == LapseReclaimed(pool, p)
  <2>1. /\ q \in PortPools /\ q.available = pool.available /\ q.inUse = pool.inUse
        /\ q.reserved = pool.reserved /\ q.lapsed = pool.lapsed
    BY <1>2 DEF PortPools, LapseReclaimed
  <2> HIDE DEF q
  <2>2. PoolOK(q)
    BY <1>1, <2>1 DEF PoolOK
  <2> QED BY <2>1, <2>2 DEF q
<1> QED BY <1>3, <1>4

\* The pool a relay starts with.
LEMMA NewPoolOK == PoolOK(newPortPool) /\ \A p \in Ports : newPortPool.inUse[p] = NoLease
<1> DEFINE n == Cardinality(Ports)
           s == [i \in 1..n |-> MinPort + i - 1]
<1>1. MinPort \in Nat /\ MaxPort \in Nat
  BY RegistryAssumption
<1>2. n \in Nat /\ (Ports # {} => MinPort # 0 /\ n = MaxPort - MinPort + 1 /\ Ports = MinPort..MaxPort)
      /\ (Ports = {} => n = 0)
  <2>1. CASE Ports = {}
    BY <2>1, FS_EmptySet
  <2>2. CASE Ports # {}
    <3>1. Ports = MinPort..MaxPort /\ MinPort # 0 /\ MinPort <= MaxPort
      BY <1>1, <2>2 DEF Ports
    <3>2. Cardinality(MinPort..MaxPort) = IF MinPort > MaxPort THEN 0 ELSE MaxPort - MinPort + 1
      BY <1>1, FS_Interval
    <3>3. n = MaxPort - MinPort + 1
      BY <1>1, <3>1, <3>2
    <3> QED BY <1>1, <2>2, <3>1, <3>3
  <2> QED BY <2>1, <2>2
<1> HIDE DEF n
<1>3. s \in Seq(Ports) /\ DOMAIN s = 1..n
  <2>1. \A i \in 1..n : MinPort + i - 1 \in Ports
    BY <1>1, <1>2
  <2> QED BY <1>2, <2>1
<1>4. IsInjective(s)
  BY <1>1, <1>2 DEF IsInjective
<1>5. Range(s) = Ports
  <2>1. \A p \in Ports : \E i \in 1..n : p = MinPort + i - 1
    <3> SUFFICES ASSUME NEW p \in Ports PROVE \E i \in 1..n : p = MinPort + i - 1
      OBVIOUS
    <3>1. p - MinPort + 1 \in 1..n /\ p = MinPort + (p - MinPort + 1) - 1
      BY <1>1, <1>2
    <3> QED BY <3>1
  <2>2. \A i \in 1..n : MinPort + i - 1 \in Ports
    BY <1>1, <1>2
  <2> QED BY <2>1, <2>2 DEF Range
<1>6. newPortPool = [available |-> s, inUse |-> [p \in Ports |-> NoLease], reclaimed |-> {},
                     reserved |-> [k \in Keys |-> NoPort], lapsed |-> {}]
  BY DEF newPortPool, n
<1> HIDE DEF s
<1>7. newPortPool \in PortPools
  BY <1>3, <1>6 DEF PortPools
<1>8. /\ Free(newPortPool) = Ports /\ Used(newPortPool) = {} /\ Kept(newPortPool) = {}
  BY <1>5, <1>6 DEF Free, Used, Kept
<1> QED BY <1>4, <1>6, <1>7, <1>8, SMTT(30) DEF PoolOK, Accounted

=============================================================================
