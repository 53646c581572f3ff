--------------------------- MODULE SourceLimiter ----------------------------
(* The token buckets of anonymous requests: SourceLimiter of                    *)
(* cmd/relay-server/policy/source_limiter.go, which the relay's routes use with *)
(* the rates, bursts and weights of NormalizePreAuthConfig, and sourceLimiter   *)
(* of portal/overlay/source_limiter.go, the same algorithm with constant limits *)
(* and without the global bucket (globalRate = 0).  Tokens are whole, and time  *)
(* moves in steps that give each bucket its rate.  Beside every bucket the      *)
(* model keeps two references: the bucket that is never forgotten, and the one  *)
(* that is full again after IdleTTL without use.  They are the same when a      *)
(* bucket refills within IdleTTL, which the code does not ask of an operator's  *)
(* limits.                                                                      *)
EXTENDS Integers, FiniteSets

CONSTANTS
  Sources,
  Defaults, Offered,  \* the default configuration and those an operator may set
  IdleTTL, PruneInterval, MaxBuckets,
  MaxTime             \* bound: the last moment

VARIABLES
  now,
  config,           \* the normalised configuration: rates, bursts, weights
  buckets,          \* source -> [tokens, updated, used]
  global,           \* [tokens, updated]
  lastPrune,
  idle,             \* steps since a request reached the source's bucket, at most IdleTTL
  least, most,      \* references: tokens at this moment, never forgotten; full after IdleTTL
  idealGlobal,
  told              \* per source: when it may come back, with what, after a refusal

vars == <<now, config, buckets, global, lastPrune, idle, least, most, idealGlobal, told>>

Min(a, b) == IF a < b THEN a ELSE b
Max(S) == CHOOSE x \in S : \A y \in S : y <= x

NotTold == [at |-> 0, cost |-> 0, layer |-> "none"]

(* NormalizePreAuthConfig: a zero takes its default; a negative value, and a     *)
(* weight that no burst covers, are refused.  Mutant: the check looks at the      *)
(* source's burst only.                                                            *)
Filled(c) ==
  [f \in DOMAIN c |->
     IF f = "weights" THEN {IF w = 0 THEN Max(Defaults.weights) ELSE w : w \in c.weights}
     ELSE IF c[f] = 0 THEN Defaults[f] ELSE c[f]]
Negative(c) ==
  \E n \in {c.rate, c.burst, c.globalRate, c.globalBurst} \cup c.weights : n < 0
CoveredBySource(c) == ~Negative(c) /\ Max(c.weights) <= c.burst
Covered(c) ==
  ~Negative(c) /\ Max(c.weights) <= c.burst /\ Max(c.weights) <= c.globalBurst

Init ==
  /\ now = 1
  /\ config \in {c \in {Filled(o) : o \in Offered} : Covered(c)}
  /\ buckets = [s \in {} |-> 0] /\ global = [tokens |-> config.globalBurst, updated |-> 0]
  /\ lastPrune = 0 /\ idle = [s \in Sources |-> IdleTTL]
  /\ least = [s \in Sources |-> config.burst] /\ most = least
  /\ idealGlobal = config.globalBurst
  /\ told = [s \in Sources |-> NotTold]

(* The idle entries go, at most once per interval.  Mutant: an idle time shorter *)
(* than a refill takes.                                                           *)
PruneEarly(bs) == [s \in {x \in DOMAIN bs : now - bs[x].used < 1} |-> bs[s]]
Prune(bs) == [s \in {x \in DOMAIN bs : now - bs[x].used < IdleTTL} |-> bs[s]]

(* sourceBucket.retry refills, up to the burst, and says how long to wait.         *)
(* Mutant: the wait is rounded down.                                               *)
Refilled(b, rate, burst) == Min(burst, b.tokens + rate * (now - b.updated))
RetryFloor(tokens, rate, cost) == IF tokens >= cost THEN 0 ELSE (cost - tokens) \div rate
Retry(tokens, rate, cost) ==
  IF tokens >= cost THEN 0 ELSE (cost - tokens + rate - 1) \div rate

Due == lastPrune = 0 \/ now - lastPrune >= PruneInterval

\* What a request would find in a source's bucket, and in the global one.
Found(bs, s) ==
  IF s \in DOMAIN bs THEN Refilled(bs[s], config.rate, config.burst) ELSE config.burst
FoundGlobal ==
  IF global.updated = 0 THEN global.tokens
  ELSE Refilled(global, config.globalRate, config.globalBurst)

(* Allow: global first, then the source's bucket, created if there is room.        *)
Allow(s, cost) ==
  LET bs == IF Due THEN Prune(buckets) ELSE buckets
      limited == config.globalRate > 0
      gWait == IF limited THEN Retry(FoundGlobal, config.globalRate, cost) ELSE 0
      full == s \notin DOMAIN bs /\ Cardinality(DOMAIN bs) >= MaxBuckets
      reached == gWait = 0 /\ ~full
      wait == Retry(Found(bs, s), config.rate, cost)
      granted == reached /\ wait = 0
      spent == IF granted THEN cost ELSE 0
      bucket == [tokens |-> Found(bs, s) - spent, updated |-> now, used |-> now]
  IN /\ lastPrune' = IF Due THEN now ELSE lastPrune
     /\ global' = IF limited THEN [tokens |-> FoundGlobal - spent, updated |-> now] ELSE global
     /\ buckets' = IF reached
                   THEN [x \in DOMAIN bs \cup {s} |-> IF x = s THEN bucket ELSE bs[x]]
                   ELSE bs
     /\ idle' = IF reached THEN [idle EXCEPT ![s] = 0] ELSE idle
     /\ least' = [least EXCEPT ![s] = Max({0, @ - spent})]
     /\ most' = [most EXCEPT ![s] = @ - spent]
     /\ idealGlobal' = IF limited THEN idealGlobal - spent ELSE idealGlobal
     /\ told' = [x \in Sources |->
                   IF x = s
                   THEN IF gWait > 0 THEN [at |-> now + gWait, cost |-> cost, layer |-> "global"]
                        ELSE IF full \/ wait = 0 THEN NotTold
                        ELSE [at |-> now + wait, cost |-> cost, layer |-> "source"]
                   ELSE IF granted /\ told[x].layer = "global" THEN NotTold ELSE told[x]]
     /\ UNCHANGED <<now, config>>

Tick ==
  /\ now < MaxTime /\ now' = now + 1
  /\ idle' = [s \in Sources |-> Min(IdleTTL, idle[s] + 1)]
  /\ least' = [s \in Sources |-> Min(config.burst, least[s] + config.rate)]
  /\ most' = [s \in Sources |-> IF idle'[s] = IdleTTL THEN config.burst
                                ELSE Min(config.burst, most[s] + config.rate)]
  /\ idealGlobal' = Min(config.globalBurst, idealGlobal + config.globalRate)
  /\ UNCHANGED <<config, buckets, global, lastPrune, told>>

Next == Tick \/ \E s \in Sources, cost \in config.weights : Allow(s, cost)

Spec == Init /\ [][Next]_vars

TypeOK ==
  /\ now \in 1..MaxTime /\ Cardinality(DOMAIN buckets) <= MaxBuckets
  /\ \A s \in DOMAIN buckets : buckets[s].tokens \in 0..config.burst

(* The budgets are kept, although idle buckets are forgotten and made anew.  What a *)
(* source finds is never less than its burst and its rate have left it, whatever    *)
(* refusals came between, and more only if it stayed away for IdleTTL, when it      *)
(* starts with a full burst: a source that comes back sooner is admitted for at     *)
(* most its burst and what the rate gave it.  If the rate fills the burst within    *)
(* IdleTTL the two bounds are one.  All sources together find what the global       *)
(* budget has left.                                                                  *)
BudgetKept ==
  /\ \A s \in Sources : Found(buckets, s) \in least[s]..most[s]
  /\ config.globalRate > 0 => FoundGlobal = idealGlobal

(* A source that waits as long as it was told finds the tokens it asked for in the *)
(* bucket that refused it, if nothing was taken from that bucket meanwhile.        *)
RetryIsEnough ==
  \A s \in Sources : now >= told[s].at =>
    CASE told[s].layer = "none" -> TRUE
      [] told[s].layer = "source" -> Found(buckets, s) >= told[s].cost
      [] told[s].layer = "global" -> FoundGlobal >= told[s].cost
=============================================================================
