------------------------ MODULE DiscoveryController ------------------------
(* The discovery controller of an exposure (portal/discovery/controller.go) and  *)
(* the loop in Expose that applies what it selects.  Next refreshes, selects and *)
(* returns a changed selection, or sleeps until a signal or the refresh timer.   *)
(* The exposure's side is reduced to which selected relays have a listener       *)
(* (SdkExposure), the relay set to bans and suppressions (RelaySet).             *)
EXTENDS Naturals, FiniteSets, SequencesExt

CONSTANTS
  Relays,       \* relay URLs as numbers, in the order of the ranking
  Explicit,     \* the relays the exposure starts with
  MaxActive,    \* automatically selected relays
  MaxOps,       \* bound: calls of the user and failures of listeners
  MaxOwing      \* bound: calls without c.mu that are about to signal, at one time

VARIABLES
  explicit, active,       \* under c.mu
  banned, suppressed,     \* of the relay set
  verified,               \* relays discovery has verified
  changed,                \* the signal, a channel of capacity one
  locked,                 \* AddRelay or RemoveRelay has c.mu and is about to signal
  owing,                  \* other calls that have changed something and are about to signal
  selected, published, due,
  pc, route,              \* where Next is, and its routeState
  up,                     \* the exposure's listeners
  reporting,              \* failures the exposure has seen and not reported yet
  ops,
  lapsed                  \* history: a suppression ran out since the last selection

vars == <<explicit, active, banned, suppressed, verified, changed, locked, owing,
          selected, published, due, pc, route, up, reporting, ops, lapsed>>

userVars == <<explicit, active>>
setVars == <<banned, suppressed, verified>>
signalVars == <<changed, locked, owing>>
nextVars == <<selected, published, due, pc, route>>

(* SelectRelays: the named relays that may be used, then the best others, those   *)
(* in use before the rest (RelayRank is the ranking itself).                      *)
Selection(r) ==
  LET usable == Relays \ (banned \cup suppressed)
      auto == (usable \cap verified) \ r.explicit
      before(x, y) == (x \in r.active /\ y \notin r.active) \/ ((x \in r.active <=> y \in r.active) /\ x < y)
      ranked == SetToSortSeq(auto, before)
  IN SetToSortSeq(usable \cap r.explicit, <)
       \o SubSeq(ranked, 1, IF Len(ranked) < MaxActive THEN Len(ranked) ELSE MaxActive)

Route == [explicit |-> explicit, active |-> active]

Init ==
  /\ explicit = Explicit /\ active = {} /\ banned = {} /\ suppressed = {} /\ verified = {}
  /\ changed = TRUE /\ locked = FALSE /\ owing = 0 /\ selected = <<>> /\ published = FALSE /\ due = FALSE
  /\ pc = "top" /\ route = [explicit |-> {}, active |-> {}]
  /\ up = [r \in Relays |-> IF r \in Explicit THEN "live" ELSE "none"]
  /\ reporting = {} /\ ops = 0 /\ lapsed = FALSE

(* A non-blocking send.  Mutant: it wakes a waiting Next and is not kept.         *)
SignalOnlyWaiter == changed' = (changed \/ pc = "wait")
Signal == changed' = TRUE

Op == ops < MaxOps /\ ops' = ops + 1

(* Every call changes its state first and signals afterwards: AddRelay and         *)
(* RemoveRelay before they release c.mu, the others without it.                    *)
SignalLocked ==
  /\ locked /\ locked' = FALSE /\ Signal
  /\ UNCHANGED <<userVars, setVars, owing, nextVars, up, reporting, ops, lapsed>>
SignalOwed ==
  /\ owing > 0 /\ owing' = owing - 1 /\ Signal
  /\ UNCHANGED <<userVars, setVars, locked, nextVars, up, reporting, ops, lapsed>>

(* AddRelay and RemoveRelay apply the whole intent under c.mu.                    *)
AddRelay(r) ==
  /\ Op /\ ~locked /\ locked' = TRUE
  /\ explicit' = explicit \cup {r}
  /\ banned' = banned \ {r} /\ suppressed' = suppressed \ {r}
  /\ UNCHANGED <<active, verified, changed, owing, nextVars, up, reporting, lapsed>>

RemoveRelay(r) ==
  /\ Op /\ ~locked /\ locked' = TRUE
  /\ explicit' = explicit \ {r} /\ suppressed' = suppressed \cup {r}
  /\ UNCHANGED <<active, banned, verified, changed, owing, nextVars, up, reporting, lapsed>>

(* SetActiveRelays signals when the snapshot differs.                             *)
SetActive(S) ==
  /\ ~locked /\ owing < MaxOwing
  /\ active' = S /\ owing' = IF S = active THEN owing ELSE owing + 1
  /\ UNCHANGED <<changed, locked>>

ListenerReady(r) ==
  /\ up[r] = "live" /\ r \notin active
  /\ SetActive(active \cup {r})
  /\ UNCHANGED <<explicit, setVars, nextVars, up, reporting, ops, lapsed>>

(* applyRelayStatus of a failure: the snapshot first, then Report.                *)
ListenerFails(r) ==
  /\ Op /\ up[r] = "live"
  /\ up' = [up EXCEPT ![r] = "failed"] /\ reporting' = reporting \cup {r}
  /\ SetActive(active \ {r})
  /\ UNCHANGED <<explicit, setVars, nextVars, lapsed>>

Report(r, mitm) ==
  /\ r \in reporting
  /\ reporting' = reporting \ {r}
  /\ banned' = IF mitm THEN banned \cup {r} ELSE banned
  /\ suppressed' = IF mitm THEN suppressed \ {r} ELSE suppressed \cup ({r} \ banned)
  /\ owing < MaxOwing /\ owing' = owing + 1
  /\ UNCHANGED <<userVars, verified, changed, locked, nextVars, up, ops, lapsed>>

(* clearExpiredPoolBansLocked: a timed ban ends with its suppression.            *)
SuppressionEnds(r) ==
  /\ r \in suppressed
  /\ suppressed' = suppressed \ {r} /\ banned' = banned \ {r} /\ lapsed' = TRUE
  /\ UNCHANGED <<userVars, verified, signalVars, nextVars, up, reporting, ops>>

Timer ==
  /\ ~due /\ published
  /\ due' = TRUE
  /\ UNCHANGED <<userVars, setVars, signalVars, selected, published, pc, route, up, reporting,
                 ops, lapsed>>

(* Next: a refresh when none was made or the timer is over, outside c.mu.         *)
NextRefresh ==
  /\ pc = "top"
  /\ IF ~published \/ due
     THEN /\ \E V \in SUBSET Relays : verified' = verified \cup V
          /\ due' = FALSE
     ELSE UNCHANGED <<verified, due>>
  /\ pc' = "build"
  /\ UNCHANGED <<userVars, banned, suppressed, signalVars, selected, published, route, up,
                 reporting, ops, lapsed>>

NextBuild ==
  /\ pc = "build" /\ ~locked
  /\ route' = Route /\ pc' = "select"
  /\ UNCHANGED <<userVars, setVars, signalVars, selected, published, due, up, reporting, ops,
                 lapsed>>

(* An unchanged selection is not returned.                                        *)
NextSelect ==
  /\ pc = "select"
  /\ LET next == Selection(route)
         new == ~published \/ next # selected
     IN /\ selected' = next /\ published' = TRUE
        /\ pc' = IF new THEN "apply" ELSE "wait"
  /\ lapsed' = FALSE
  /\ UNCHANGED <<userVars, setVars, signalVars, due, route, up, reporting, ops>>

NextWakes ==
  /\ pc = "wait"
  /\ \/ changed /\ changed' = FALSE
     \/ due /\ UNCHANGED changed
  /\ pc' = "top"
  /\ UNCHANGED <<userVars, setVars, locked, owing, selected, published, due, route, up, reporting, ops,
                 lapsed>>

(* The exposure reconciles its listeners with the selection; the goroutine of     *)
(* Next also gives the new snapshot.                                              *)
Apply ==
  /\ pc = "apply" /\ ~locked
  /\ up' = [r \in Relays |-> IF r \in ToSet(selected) THEN "live" ELSE "none"]
  /\ active' = active \cap ToSet(selected)
  /\ pc' = IF active' = active THEN "top" ELSE "signal"
  /\ UNCHANGED <<explicit, setVars, signalVars, selected, published, due, route, reporting, ops,
                 lapsed>>
SignalApplied ==
  /\ pc = "signal" /\ Signal /\ pc' = "top"
  /\ UNCHANGED <<userVars, setVars, locked, owing, selected, published, due, route, up, reporting,
                 ops, lapsed>>

NextLoop == NextRefresh \/ NextBuild \/ NextSelect \/ NextWakes \/ Apply \/ SignalApplied

Next ==
  \/ NextLoop \/ Timer \/ SignalLocked \/ SignalOwed
  \/ \E r \in Relays :
       \/ AddRelay(r) \/ RemoveRelay(r) \/ ListenerReady(r) \/ ListenerFails(r)
       \/ SuppressionEnds(r) \/ \E mitm \in BOOLEAN : Report(r, mitm)

Spec == Init /\ [][Next]_vars

TypeOK ==
  /\ explicit \subseteq Relays /\ active \subseteq Relays /\ banned \subseteq Relays
  /\ suppressed \subseteq Relays /\ verified \subseteq Relays /\ reporting \subseteq Relays
  /\ ToSet(selected) \subseteq Relays /\ up \in [Relays -> {"none", "live", "failed"}]
  /\ pc \in {"top", "build", "select", "apply", "signal", "wait"} /\ locked \in BOOLEAN /\ owing \in 0..MaxOwing

(* Next sleeps without a signal, here or about to be sent, only on the selection  *)
(* that the current intent, bans and suppressions give; a suppression that ran    *)
(* out by itself waits for the timer.                                             *)
SelectionFresh ==
  (pc = "wait" /\ ~changed /\ ~locked /\ owing = 0 /\ ~lapsed) => selected = Selection(Route)

(* Next sleeps on the selection that the current state gives.                      *)
Settled == pc = "wait" /\ selected = Selection(Route)
=============================================================================
