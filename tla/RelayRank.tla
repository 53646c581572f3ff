------------------------------ MODULE RelayRank ------------------------------
(* Relay selection (portal/discovery/mols.go, relaystate.go): a pool of eligible *)
(* relays is ranked on a grid whose order is the size of the pool, slow relays   *)
(* come last, a pressured leader swaps with its peer, relays in use are kept,    *)
(* and the relays the user named come first.  Every state is one call: Init      *)
(* chooses the input, Select computes the result.  The keyed digests are         *)
(* external: they give the client a cell of the grid and the relays an order.    *)
EXTENDS Integers, Sequences, FiniteSets, SequencesExt

CONSTANTS
  MaxOrder,      \* bound: grid orders checked
  PoolSize,      \* bound: the relays 1..PoolSize; the number is the order of the URLs
  Health,        \* [rtt, fails]: a round trip in milliseconds, 0 for none measured, and failures
  Pressures,     \* tail latency over the median, in percent
  MaxActive      \* the number of automatically selected relays

VARIABLES input, output

vars == <<input, output>>

\* ---------------------------------------------------------------- the grid

Divides(d, n) == n % d = 0
Coprime(a, n) ==
  LET b == IF a < 0 THEN -a ELSE a
  IN IF b = 0 THEN n = 1 ELSE \A d \in 2..n : ~(Divides(d, n) /\ Divides(d, b))

molsPairValid(order, m1, m2) ==
  Coprime(m1, order) /\ Coprime(m2, order) /\ Coprime(m1 - m2, order)

(* The base pair 3, 5 or the variant 7, 11 when it fits, else the first pair in  *)
(* lexicographic order; a variant differs from the base pair modulo the order.   *)
Smallest(S) == CHOOSE p \in S : \A q \in S : p[1] < q[1] \/ (p[1] = q[1] /\ p[2] <= q[2])
Pairs(order) ==
  {p \in (1..(order - 1)) \X (1..(order - 1)) : p[1] # p[2] /\ molsPairValid(order, p[1], p[2])}
FirstPair(preferred, S) ==
  IF preferred \in S THEN [m1 |-> preferred[1], m2 |-> preferred[2], ok |-> TRUE]
  ELSE IF S = {} THEN [m1 |-> 1, m2 |-> 1, ok |-> FALSE]
  ELSE [m1 |-> Smallest(S)[1], m2 |-> Smallest(S)[2], ok |-> TRUE]
Preferred(order, p) == IF molsPairValid(order, p[1], p[2]) THEN {p} ELSE {}
BaseMultipliers(order) == FirstPair(<<3, 5>>, Pairs(order) \cup Preferred(order, <<3, 5>>))
molsMultipliers(order, variant) ==
  LET base == BaseMultipliers(order)
      differs(p) == p[1] % order # base.m1 % order \/ p[2] % order # base.m2 % order
  IN IF order % 2 = 0 THEN [m1 |-> 1, m2 |-> 1, ok |-> FALSE]
     ELSE IF ~variant THEN base
     ELSE FirstPair(<<7, 11>>, {p \in Pairs(order) \cup Preferred(order, <<7, 11>>) : differs(p)})

Target(row, col, m, order) == (m * row + col) % order

(* Mutant: the second target has no bonus.                                       *)
OneBonus(j, t1, t2, order) == IF j = t1 THEN 2 * order * order ELSE 0
Bonus(j, t1, t2, order) ==
  (IF j = t1 THEN 2 * order * order ELSE 0) + (IF j = t2 THEN order * order ELSE 0)

molsScore(row, col, j, m, order) ==
  LET t1 == Target(row, col, m.m1, order)
      t2 == Target(row, col, m.m2, order)
      d1 == (j - t1 + order) % order
      d2 == (j - t2 + order) % order
  IN IF ~m.ok \/ order <= 1 THEN ((m.m1 * row + j) % order) * order + 1
     ELSE Bonus(j, t1, t2, order) + (order - d1) * order + (order - d2) + 1

molsCongestionScore(row, col, j, m, order) ==
  4 * order * order + order + 1 - molsScore(row, col, (order - 1) - j, m, order)

\* ---------------------------------------------------------------- the pool
\* A relay has a digest, a round trip, failures and a pressure.

effectiveRTT(r) == r.rtt + IF r.fails * 300 > 3000 THEN 3000 ELSE r.fails * 300
isRelayFallback(r) == r.rtt # 0 /\ effectiveRTT(r) > 2000

SumOf(f, S) == FoldSet(LAMBDA x, acc : acc + f[x], 0, S)

(* molsCongestionMode over the relays that are not slow: the mean above 500 ms,   *)
(* the coefficient of variation above 0.6 (both without rounding).                *)
Congestion(P) ==
  LET M == {x \in DOMAIN P : P[x].rtt # 0 /\ ~isRelayFallback(P[x])}
      n == Cardinality(M)
      s == SumOf([x \in M |-> effectiveRTT(P[x])], M)
      v == SumOf([x \in M |-> (n * effectiveRTT(P[x]) - s) * (n * effectiveRTT(P[x]) - s)], M)
  IN [congested |-> n > 0 /\ s > 500 * n, nonLinear |-> n > 1 /\ 100 * v > 36 * s * s * n]

(* Fewer than two usable relays promote the fastest slow ones.                    *)
Promoted(P, active, slow) ==
  LET n == IF 2 - Cardinality(active) < Cardinality(slow) THEN 2 - Cardinality(active)
           ELSE Cardinality(slow)
  IN IF Cardinality(active) >= 2 THEN {}
     ELSE {x \in slow : Cardinality({y \in slow :
             \/ effectiveRTT(P[y]) < effectiveRTT(P[x])
             \/ effectiveRTT(P[y]) = effectiveRTT(P[x]) /\ y < x}) < n}

(* The first two swap when the first one's tail latency is clearly worse.         *)
RankTier(P, S, score) ==
  LET before(x, y) == score[x] > score[y] \/ (score[x] = score[y] /\ x < y)
      t == SetToSortSeq(S, before)
  IN IF Len(t) >= 2 /\ P[t[1]].pressure - P[t[2]].pressure > 30
     THEN [t EXCEPT ![1] = t[2], ![2] = t[1]] ELSE t

RankRelayPool(P, row, col) ==
  LET order == Cardinality(DOMAIN P)
      mode == Congestion(P)
      m == molsMultipliers(order, mode.nonLinear)
      column(x) == Cardinality({y \in DOMAIN P : P[y].digest < P[x].digest})
      score == [x \in DOMAIN P |-> IF mode.congested
                  THEN molsCongestionScore(row % order, col % order, column(x), m, order)
                  ELSE molsScore(row % order, col % order, column(x), m, order)]
      usable == {x \in DOMAIN P : ~isRelayFallback(P[x])}
      active == usable \cup Promoted(P, usable, DOMAIN P \ usable)
  IN IF DOMAIN P = {} THEN <<>> ELSE RankTier(P, active, score) \o RankTier(P, DOMAIN P \ active, score)

(* applyActiveStickiness.  Mutant: every relay in use is kept, slow ones too.     *)
KeepAll(r) == TRUE
Sticky(r) == ~isRelayFallback(r) /\ r.pressure <= 50
applyActiveStickiness(P, ranked, active) ==
  LET kept == SelectSeq(SetToSortSeq(active, <), LAMBDA u : u \in DOMAIN P /\ Sticky(P[u]))
      head == SubSeq(kept, 1, IF Len(kept) < MaxActive THEN Len(kept) ELSE MaxActive)
  IN head \o SelectSeq(ranked, LAMBDA u : u \notin Range(head))

(* SelectPriority: the named relays that may be used, then the automatic ones.    *)
SelectPriority(P, row, col, active, explicit) ==
  LET auto == [x \in DOMAIN P \ explicit |-> P[x]]
      ranked == RankRelayPool(auto, row, col)
      chosen == applyActiveStickiness(auto, ranked, active)
  IN SetToSortSeq(explicit, <)
       \o SubSeq(chosen, 1, IF Len(chosen) < MaxActive THEN Len(chosen) ELSE MaxActive)

\* ------------------------------------------------------------------------

Relays == 1..PoolSize

(* A call on the grid alone, or a selection: for every relay its digest, health   *)
(* and pressure, the cell of the client, the relays in use and those named.  *)
Init ==
  /\ output = <<>>
  /\ \/ \E n \in 1..MaxOrder, v \in BOOLEAN :
          \E r, c \in 0..(n - 1) : input = [kind |-> "grid", n |-> n, v |-> v, row |-> r, col |-> c]
     \/ \E order \in SetToSeqs(Relays), health \in [Relays -> Health], press \in [Relays -> Pressures],
           r \in 0..(PoolSize - 1), active \in SUBSET Relays, explicit \in {{}, {1}} :
          input = [kind |-> "pool", row |-> r, active |-> active, explicit |-> explicit,
                   pool |-> [x \in Relays |-> [digest |-> order[x], rtt |-> health[x].rtt, fails |-> health[x].fails,
                                               pressure |-> press[x]]]]

Auto == [x \in Relays \ input.explicit |-> input.pool[x]]

Select ==
  /\ output = <<>>
  /\ output' =
       IF input.kind = "grid"
       THEN LET m == molsMultipliers(input.n, input.v) IN
            [ok |-> m.ok, m |-> m,
             score |-> [j \in 1..input.n |-> molsScore(input.row, input.col, j - 1, m, input.n)],
             congestion |-> [j \in 1..input.n |->
                               molsCongestionScore(input.row, input.col, j - 1, m, input.n)]]
       ELSE [all |-> RankRelayPool(Auto, input.row, 0),
             chosen |-> SelectPriority(input.pool, input.row, 0, input.active, input.explicit)]
  /\ UNCHANGED input

Next == Select

Spec == Init /\ [][Next]_vars

TypeOK == input.kind \in {"grid", "pool"}

(* The grid ranks without ties, in every order and for every client: the first    *)
(* target wins and the second target comes next; no two cells share both targets  *)
(* when the pair of multipliers is orthogonal, and only an odd order has one.     *)
GridSound ==
  (input.kind = "grid" /\ output # <<>>) =>
    LET n == input.n
        m == output.m
        t(r, c) == <<Target(r, c, m.m1, n), Target(r, c, m.m2, n)>>
        here == t(input.row, input.col)
        s == output.score
    IN /\ \A i, j \in 1..n : i # j => s[i] # s[j] /\ output.congestion[i] # output.congestion[j]
       /\ \A j \in 1..n : output.congestion[j] >= 0
       /\ m.ok => n % 2 = 1 /\ molsPairValid(n, m.m1, m.m2)
       /\ (n % 2 = 1 /\ n > 1) => m.ok
       /\ (m.ok /\ n > 1) =>
            /\ \A j \in 1..n : j # here[1] + 1 => s[j] < s[here[1] + 1]
            /\ \A j \in 1..n : j \notin {here[1] + 1, here[2] + 1} => s[j] < s[here[2] + 1]
            /\ \A r, c \in 0..(n - 1) : t(r, c) = here => r = input.row /\ c = input.col

(* A selection ranks every eligible relay once, takes the named relays and at     *)
(* most MaxActive others, prefers no slow relay to one that is not slow while two *)
(* are not, and drops a healthy relay in use only for other healthy ones in use.  *)
SelectionSound ==
  (input.kind = "pool" /\ output # <<>>) =>
    LET P == Auto
        chosen == ToSet(output.chosen)
        auto == chosen \ input.explicit
        usable == {x \in DOMAIN P : ~isRelayFallback(P[x])}
        healthy == {x \in input.active \cap usable : P[x].pressure <= 50}
    IN /\ ToSet(output.all) = DOMAIN P /\ Len(output.all) = Cardinality(DOMAIN P)
       /\ Len(output.chosen) = Cardinality(chosen) /\ input.explicit \subseteq chosen
       /\ Cardinality(auto) <= MaxActive
       /\ (Cardinality(usable) >= 2 /\ auto \ usable # {}) => usable \subseteq auto
       /\ healthy \subseteq auto \/ (Cardinality(auto) = MaxActive /\ auto \subseteq healthy)
=============================================================================
