-------------------------- MODULE RelayCertificate --------------------------
(* The relay certificate: EnsureCertificate, provision and manualCertificate-      *)
(* Override of portal/acme/acme.go, the renewal decision of certificate.go and the *)
(* served and retired material of material.go. Certificates are numbered in the    *)
(* order of issuance; files survive a crash, what is served does not.              *)
EXTENDS Integers, FiniteSets

CONSTANTS
  MaxCerts,     \* bound: certificates issued
  MaxTime,      \* bound: the clock
  Life,         \* lifetime of a certificate
  Interval,     \* defaultRenewInterval
  Threshold,    \* defaultRenewThreshold
  ExpiryFloor,  \* renewExpiryFloor
  Tenants

VARIABLES
  now,
  born,         \* when each certificate was issued
  fileCert, fileKey,  \* the pair on disk, 0 for no file
  account,      \* the account key file exists
  covers,       \* the certificate an operator put there covers the domains
  current, retired,   \* servedMaterial
  relay,        \* "down", "starting", "up"
  step,         \* provision: "idle", "obtained", "written"
  fresh,        \* the certificate it obtained
  next,         \* when renewTimer fires
  excused,      \* history: since the start an order or a write failed, or it began too late
  pin           \* the certificate each tenant presents, 0 for none

vars == <<now, born, fileCert, fileKey, account, covers, current, retired, relay, step, fresh,
          next, excused, pin>>

fileVars == <<fileCert, fileKey, account, covers>>
servedVars == <<current, retired>>
Certs == 1..MaxCerts
Issued == {c \in Certs : born[c] # MaxTime + 1}
NotAfter(c) == born[c] + Life
Valid(c) == now < NotAfter(c)
Lesser(a, b) == IF a < b THEN a ELSE b
Covering(c) == c # 1 \/ covers

\* A first start, or a key directory in which the operator has put a certificate.
Init ==
  /\ now = 0 /\ born = [c \in Certs |-> IF c = 1 THEN 0 ELSE MaxTime + 1]
  /\ fileCert \in {0, 1} /\ fileKey = fileCert /\ account = FALSE /\ covers \in BOOLEAN
  /\ current = 0 /\ retired = {} /\ relay = "down" /\ step = "idle" /\ fresh = 0 /\ next = 0
  /\ excused = FALSE /\ pin = [t \in Tenants |-> 0]

-----------------------------------------------------------------------------
(* material.go *)

\* Mutant: a renewal drops the certificates that came before the replaced one.
KeepLast(c) == {current} \ {0, c}

Kept(c) == {p \in (retired \cup {current}) \ {0, c} : Valid(p)}

Serve(c) == current' = c /\ retired' = Kept(c)

Signable == ({current} \ {0}) \cup {c \in retired : Valid(c)}

-----------------------------------------------------------------------------
(* Starting: EnsureTLSMaterial *)

Manual == fileCert # 0 /\ fileKey # 0 /\ ~account /\ Covering(fileCert)
ManualError == fileCert # 0 /\ fileKey # 0 /\ ~account /\ ~Covering(fileCert)

\* Mutant: an expired certificate is reused.
UsableCovers(c) == c # 0 /\ Covering(c)

Usable(c) == c # 0 /\ Covering(c) /\ Valid(c)

Reusable == fileKey # 0 /\ Usable(fileCert)

Start ==
  /\ relay = "down" /\ ~ManualError
  /\ relay' = "starting" /\ excused' = FALSE
  /\ UNCHANGED <<now, born, fileVars, servedVars, step, fresh, next, pin>>

\* loadTLSMaterial: the pair on disk is served if its two halves fit.
Load ==
  /\ relay = "starting" /\ step = "idle" /\ (Manual \/ Reusable)
  /\ IF fileCert = fileKey
     THEN /\ Serve(fileCert) /\ relay' = "up" /\ next' = now + Interval
          /\ excused' = (Valid(fileCert) /\ NotAfter(fileCert) <= next')
     ELSE relay' = "down" /\ UNCHANGED <<servedVars, next, excused>>
  /\ UNCHANGED <<now, born, fileVars, step, fresh, pin>>

-----------------------------------------------------------------------------
(* provision: from the start, and from a renewal                                   *)

\* newClient stores the account key; the order fails or yields a new pair.
Obtain(due) ==
  /\ step = "idle" /\ due /\ account' = TRUE
  /\ \/ \E c \in Certs : /\ c = Cardinality(Issued) + 1
                         /\ born' = [born EXCEPT ![c] = now] /\ fresh' = c
        /\ step' = "obtained" /\ UNCHANGED <<relay, excused, next>>
     \/ /\ excused' = TRUE /\ next' = now + Interval
        /\ relay' = (IF relay = "starting" THEN "down" ELSE relay)
        /\ UNCHANGED <<born, fresh, step>>
  /\ UNCHANGED <<now, fileCert, fileKey, covers, servedVars, pin>>

StartProvision == relay = "starting" /\ ~Manual /\ ~Reusable /\ Obtain(TRUE)

\* The files are written one after the other, then the pair is served.
WriteCertificate ==
  /\ step = "obtained" /\ fileCert' = fresh /\ step' = "written"
  /\ UNCHANGED <<now, born, fileKey, account, covers, servedVars, relay, fresh, next, excused, pin>>

WriteKey ==
  /\ step = "written" /\ fileKey' = fresh /\ step' = "idle" /\ Serve(fresh)
  /\ next' = now + Interval
  /\ UNCHANGED <<now, born, fileCert, account, covers, relay, fresh, excused, pin>>

WriteFails ==
  /\ step \in {"obtained", "written"}
  /\ step' = "idle" /\ excused' = TRUE /\ next' = now + Interval
  /\ relay' = (IF relay = "starting" THEN "down" ELSE relay)
  /\ UNCHANGED <<now, born, fileVars, servedVars, fresh, pin>>

-----------------------------------------------------------------------------
(* renewTick, shouldRenew and evaluateRenewal *)

\* The next check, when the certificate authority defers the renewal.
Recheck(recheck, remaining) == Lesser(recheck, remaining - ExpiryFloor)

\* Mutant: the authority decides alone.
FlooredNot(remaining) == FALSE

Floored(remaining) == remaining < ExpiryFloor

\* The authority gives no window, or one that is due or not before the recheck.
Due(c, ari, due) ==
  \/ ~Usable(c)
  \/ LET remaining == NotAfter(c) - now IN
     IF ari THEN Floored(remaining) \/ due ELSE remaining < Threshold

Timer == relay = "up" /\ step = "idle" /\ now = next

RenewSkipped ==
  /\ Timer /\ (Manual \/ ManualError) /\ next' = now + Interval
  /\ UNCHANGED <<now, born, fileVars, servedVars, relay, step, fresh, excused, pin>>

RenewDeferred ==
  /\ Timer /\ ~Manual /\ ~ManualError
  /\ \E ari, due \in BOOLEAN, recheck \in 1..Interval :
       /\ ~Due(fileCert, ari, due)
       /\ LET wait == IF ari THEN Recheck(recheck, NotAfter(fileCert) - now) ELSE Interval
          IN next' = now + (IF wait < 1 THEN 1 ELSE wait)
  /\ account' = TRUE
  /\ UNCHANGED <<now, born, fileCert, fileKey, covers, servedVars, relay, step, fresh, excused, pin>>

Renew ==
  /\ ~Manual /\ ~ManualError
  /\ Obtain(Timer /\ \E ari, due \in BOOLEAN : Due(fileCert, ari, due))

-----------------------------------------------------------------------------
(* Time, crashes, and tenants that pin what the relay serves                       *)

Tick ==
  /\ now < MaxTime /\ relay # "starting" /\ step = "idle" /\ (relay = "up" => now < next)
  /\ now' = now + 1
  /\ UNCHANGED <<born, fileVars, servedVars, relay, step, fresh, next, excused, pin>>

Crash ==
  /\ relay # "down" /\ relay' = "down" /\ step' = "idle"
  /\ current' = 0 /\ retired' = {} /\ pin' = [t \in Tenants |-> 0]
  /\ UNCHANGED <<now, born, fileVars, fresh, next, excused>>

\* NewClient or RefreshChain of a tenant.
Pin(t) ==
  /\ relay = "up" /\ current # 0 /\ pin' = [pin EXCEPT ![t] = current]
  /\ UNCHANGED <<now, born, fileVars, servedVars, relay, step, fresh, next, excused>>

Next ==
  \/ Start \/ Load \/ StartProvision \/ WriteCertificate \/ WriteKey \/ WriteFails
  \/ RenewSkipped \/ RenewDeferred \/ Renew \/ Tick \/ Crash
  \/ \E t \in Tenants : Pin(t)

Spec == Init /\ [][Next]_vars

TypeOK ==
  /\ now \in 0..MaxTime /\ born \in [Certs -> 0..(MaxTime + 1)] /\ account \in BOOLEAN
  /\ fileCert \in 0..MaxCerts /\ fileKey \in 0..MaxCerts /\ current \in 0..MaxCerts
  /\ retired \subseteq Certs /\ relay \in {"down", "starting", "up"}
  /\ step \in {"idle", "obtained", "written"} /\ pin \in [Tenants -> 0..MaxCerts]

(* The relay signs for the certificate a tenant pinned until that one expires,     *)
(* however many renewals replaced it, and never for one it did not serve.          *)
PinnedIsSigned ==
  /\ \A t \in Tenants : (pin[t] # 0 /\ Valid(pin[t])) => pin[t] \in Signable
  /\ current \notin retired /\ retired \subseteq Issued

(* As long as orders succeed, a relay that did not start in the last interval of   *)
(* its certificate never serves an expired one: the authority's advice defers a    *)
(* renewal only up to the floor.                                                   *)
RenewedInTime ==
  (relay = "up" /\ account /\ ~excused /\ current # 0 /\ Cardinality(Issued) < MaxCerts /\ step = "idle")
    => now < NotAfter(current)

(* Between two renewals the relay serves the pair that is on disk.                 *)
FilesAreServed ==
  (relay = "up" /\ step = "idle") => fileCert = current /\ fileKey = current
=============================================================================
