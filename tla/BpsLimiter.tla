----------------------------- MODULE BpsLimiter -----------------------------
(* The bandwidth limit of an identity: BPSManager and bpsLimiter of portal/        *)
(* proxy.go. The limit is a snapshot read without a lock, the limiter an entry of  *)
(* a map with its own lock. A tick is half the time a chunk takes at the limit,    *)
(* so a limit of r bytes a tick has chunks of 2r bytes and at most Burst * r saved.*)
EXTENDS Naturals, FiniteSets, FiniteSetsExt

CONSTANTS
  Copiers,      \* copy loops of the identity's connections
  Rates,        \* limits in bytes per tick; 0 for none is always possible
  Burst,        \* the second's worth of tokens, in ticks
  MaxTime,      \* bound: ticks
  MaxLimiters   \* bound: limiters ever created

VARIABLES
  now,
  bps,          \* identityBPS
  limiter,      \* identityLimiters: the entry, 0 for none
  made,         \* limiters created
  tokens, updatedAt,  \* of each limiter; updatedAt 0 is the zero time
  dropping,     \* an operator call between its two critical sections
  copier,       \* where each copy loop is
  read,         \* the limit it read
  using,        \* the limiter it holds
  until,        \* when its timer fires
  granted       \* history: bytes each limiter let pass

vars == <<now, bps, limiter, made, tokens, updatedAt, dropping, copier, read, using, until, granted>>

Ids == 1..MaxLimiters
objVars == <<tokens, updatedAt, granted>>
copyVars == <<copier, read, using, until>>
Lesser(a, b) == IF a < b THEN a ELSE b
Chunk(r) == 2 * r

Init ==
  /\ now = 1 /\ bps = 0 /\ limiter = 0 /\ made = 0
  /\ tokens = [i \in Ids |-> 0] /\ updatedAt = [i \in Ids |-> 0] /\ dropping = FALSE
  /\ copier = [c \in Copiers |-> "idle"] /\ read = [c \in Copiers |-> 0]
  /\ using = [c \in Copiers |-> 0] /\ until = [c \in Copiers |-> 0]
  /\ granted = [i \in Ids |-> 0]

-----------------------------------------------------------------------------
(* The operator *)

SetIdentityBPS(r) ==
  /\ r # 0 /\ bps' = r
  /\ UNCHANGED <<now, limiter, made, objVars, dropping, copyVars>>

\* DeleteIdentityBPS, and SetServiceIdentityBPSLimits: the limit, then the limiter.
RemoveLimit(r) ==
  /\ ~dropping /\ dropping' = TRUE /\ bps' = r
  /\ UNCHANGED <<now, limiter, made, objVars, copyVars>>

DropLimiter ==
  /\ dropping /\ dropping' = FALSE /\ limiter' = 0
  /\ UNCHANGED <<now, bps, made, objVars, copyVars>>

ResetIdentityLimiter ==
  /\ limiter # 0 /\ limiter' = 0
  /\ UNCHANGED <<now, bps, made, objVars, dropping, copyVars>>

Tick ==
  /\ now < MaxTime /\ now' = now + 1
  /\ UNCHANGED <<bps, limiter, made, objVars, dropping, copyVars>>

-----------------------------------------------------------------------------
(* ThrottleIdentityBPS *)

At(c, place) == copier' = [copier EXCEPT ![c] = place]

\* identityLimiter: no limit lets everything pass; the entry is read, or made.
ReadLimit(c) ==
  /\ copier[c] \in {"idle", "wait"} /\ (copier[c] = "wait" => now >= until[c])
  /\ read' = [read EXCEPT ![c] = bps]
  /\ IF bps = 0 THEN At(c, "idle") /\ UNCHANGED using
     ELSE IF limiter # 0 THEN At(c, "reserve") /\ using' = [using EXCEPT ![c] = limiter]
     ELSE At(c, "make") /\ UNCHANGED using
  /\ UNCHANGED <<now, bps, limiter, made, objVars, dropping, until>>

\* Mutant: the limit is not read again under the lock.
ReadBefore(c) == read[c]

ReadAgain(c) == bps

MakeLimiter(c) ==
  /\ copier[c] = "make" /\ read' = [read EXCEPT ![c] = ReadAgain(c)]
  /\ IF read'[c] = 0 THEN At(c, "idle") /\ UNCHANGED <<limiter, made, using>>
     ELSE /\ limiter # 0 \/ made < MaxLimiters
          /\ limiter' = (IF limiter = 0 THEN made + 1 ELSE limiter)
          /\ made' = (IF limiter = 0 THEN made + 1 ELSE made)
          /\ using' = [using EXCEPT ![c] = limiter'] /\ At(c, "reserve")
  /\ UNCHANGED <<now, bps, objVars, dropping, until>>

\* What the limiter holds after it has been brought up to date.
Accrued(i, r) ==
  Lesser(Burst * r, tokens[i] + (IF updatedAt[i] = 0 THEN 0 ELSE (now - updatedAt[i]) * r))

\* Mutant: waiting gives the credit up.
CreditLost(i, r) == 0

CreditKept(i, r) == Accrued(i, r)

\* The time until the missing bytes have accrued, rounded up to a tick.
Wait(missing, r) == (missing + r - 1) \div r

Reserve(c) ==
  /\ copier[c] = "reserve"
  /\ LET i == using[c] r == read[c] have == Accrued(i, r) need == Chunk(r) IN
     /\ updatedAt' = [updatedAt EXCEPT ![i] = now]
     /\ IF have >= need
        THEN /\ tokens' = [tokens EXCEPT ![i] = have - need] /\ At(c, "idle")
             /\ granted' = [granted EXCEPT ![i] = @ + need] /\ UNCHANGED until
        ELSE /\ tokens' = [tokens EXCEPT ![i] = CreditKept(i, r)] /\ At(c, "wait")
             /\ until' = [until EXCEPT ![c] = now + Wait(need - have, r)] /\ UNCHANGED granted
  /\ UNCHANGED <<now, bps, limiter, made, dropping, read, using>>

\* The connection ends while it waits.
Canceled(c) ==
  /\ copier[c] = "wait" /\ At(c, "idle")
  /\ UNCHANGED <<now, bps, limiter, made, objVars, dropping, read, using, until>>

Next ==
  \/ \E r \in Rates \cup {0} : SetIdentityBPS(r) \/ RemoveLimit(r)
  \/ DropLimiter \/ ResetIdentityLimiter \/ Tick
  \/ \E c \in Copiers : ReadLimit(c) \/ MakeLimiter(c) \/ Reserve(c) \/ Canceled(c)

Spec == Init /\ [][Next]_vars

TypeOK ==
  /\ bps \in Rates \cup {0} /\ limiter \in 0..made /\ made \in 0..MaxLimiters
  /\ copier \in [Copiers -> {"idle", "make", "reserve", "wait"}] /\ dropping \in BOOLEAN

(* A limit that was removed leaves no limiter behind, whoever was creating one.    *)
NoOrphanLimiter == (bps = 0 /\ limiter # 0) => dropping

(* A limiter lets pass no more than the largest limit allows since it was made,    *)
(* however it is shared, and a forgotten one gives nobody a fresh burst.           *)
RateBounded ==
  \A i \in Ids : granted[i] + tokens[i] <= Max(Rates) * (now - 1)

(* Waiting costs no credit: only a grant lowers what a limiter has saved, or a     *)
(* smaller limit that caps it; an early retry cannot starve a connection.          *)
CreditNeverLost ==
  \A i \in Ids :
    granted'[i] = granted[i] => tokens'[i] >= tokens[i] \/ tokens'[i] >= Burst * Min(Rates)
=============================================================================
