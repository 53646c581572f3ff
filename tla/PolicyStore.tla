----------------------------- MODULE PolicyStore ----------------------------
(* The operator's policy (cmd/relay-server/api.go): an admin request changes a   *)
(* copy of the access decisions, but the transport settings and the bandwidth    *)
(* limits in place; it saves policy.json, and then commits the copy or puts the  *)
(* old policy back.  The process may crash at every step; the next start reads   *)
(* the file.  A policy is one record: what policyState saves.  The file is       *)
(* replaced by a rename, and the chmod after it may still report a failure.      *)
EXTENDS Naturals, FiniteSets

CONSTANTS
  Keys, Requests,
  Flags,         \* the command lines: records of mode and udp
  MaxStarts      \* bound: starts of the process

VARIABLES
  up,            \* the process runs
  starts,
  flags,         \* the settings of the command line, for this start
  listening,     \* a QUIC backhaul was started
  access,        \* the committed decisions: mode, approved, denied, banned
  transport,     \* the udp and tcp settings of the API
  enforced,      \* those of the lease registry
  bps,           \* keys with a bandwidth limit
  file,          \* policy.json: a set with at most one policy
  writer,        \* who holds policyWriteMu
  tx,            \* per request: where it is, the copy it proposes, what was before
  torn           \* a save reported a failure after it had replaced the file

vars == <<up, starts, flags, listening, access, transport, enforced, bps, file, writer, tx,
          torn>>
memory == <<access, transport, enforced, bps>>
process == <<up, starts, flags, listening>>

Decisions == [mode : {"auto", "manual"}, approved : SUBSET Keys, denied : SUBSET Keys,
              banned : SUBSET Keys]
Settings == BOOLEAN     \* udp enabled; the other settings change along with it
NoAccess == [mode |-> "auto", approved |-> {}, denied |-> {}, banned |-> {}]
Policy(a, t, b) == [access |-> a, transport |-> t, bps |-> b]
NoTx == [at |-> "idle", next |-> NoAccess, before |-> Policy(NoAccess, FALSE, {})]

(* SetTransportPolicy: UDP cannot be enabled once the relay runs without a         *)
(* backhaul.                                                                       *)
Applicable(t) == ~up \/ ~t \/ listening

(* SetDecisions: a denied key does not count as approved.                          *)
Decided(a) == [a EXCEPT !.approved = @ \ a.denied]

(* NewRelayAPI and loadPolicyState: the command line first, the file over it.      *)
Loaded(flag) ==
  IF file = {} THEN [access |-> [NoAccess EXCEPT !.mode = flag.mode], transport |-> flag.udp, bps |-> {}]
  ELSE LET p == CHOOSE q \in file : TRUE
       IN [access |-> Decided(p.access), transport |-> p.transport, bps |-> p.bps]

Start(flag) ==
  /\ ~up /\ starts < MaxStarts
  /\ up' = TRUE /\ starts' = starts + 1 /\ flags' = flag
  /\ access' = Loaded(flag).access /\ transport' = Loaded(flag).transport
  /\ enforced' = Loaded(flag).transport /\ bps' = Loaded(flag).bps
  /\ listening' = Loaded(flag).transport /\ torn' = FALSE
  /\ UNCHANGED <<file, writer, tx>>

Init ==
  /\ up = FALSE /\ starts = 0 /\ flags = [mode |-> "auto", udp |-> FALSE] /\ listening = FALSE
  /\ access = NoAccess /\ transport = FALSE /\ enforced = FALSE /\ bps = {}
  /\ file = {} /\ writer = "none" /\ tx = [r \in Requests |-> NoTx] /\ torn = FALSE

Crash ==
  /\ up /\ up' = FALSE /\ listening' = FALSE
  /\ access' = NoAccess /\ transport' = FALSE /\ enforced' = FALSE /\ bps' = {}
  /\ writer' = "none" /\ tx' = [r \in Requests |-> NoTx]
  /\ UNCHANGED <<starts, flags, file, torn>>

(* Mutant: writers are not serialised.                                             *)
NotSerialised(r) == TRUE
Serialised(r) == writer = "none"

Begin(r, next, t, b) ==
  /\ up /\ tx[r].at = "idle" /\ Serialised(r)
  /\ writer' = r
  /\ tx' = [tx EXCEPT ![r] = [at |-> "save", next |-> next, before |-> Policy(access, transport, bps)]]
  /\ transport' = t /\ enforced' = t /\ bps' = b
  /\ UNCHANGED <<process, access, file, torn>>

(* POST of the settings: applyPolicySettings changes the mode of the copy and the   *)
(* transports of the running relay, or refuses and changes nothing.                 *)
UpdateSettings(r, mode, t) ==
  Applicable(t) /\ Begin(r, [access EXCEPT !.mode = mode], t, bps)

(* applyLeasePolicyUpdate: the bandwidth limit in place, then ban, deny and approve    *)
(* on the copy; a field is absent, set or cleared.                                     *)
Field == {"absent", "set", "clear"}
Marked(keys, k, f) == CASE f = "set" -> keys \cup {k} [] f = "clear" -> keys \ {k} [] OTHER -> keys
Deny(a, k, f) ==
  [a EXCEPT !.denied = Marked(@, k, f), !.approved = IF f = "set" THEN @ \ {k} ELSE @]
Approve(a, k, f) ==
  [a EXCEPT !.approved = Marked(@, k, f), !.denied = IF f = "set" THEN @ \ {k} ELSE @]

UpdateLease(r, k, ban, deny, approve, limit) ==
  /\ {ban, deny, approve, limit} # {"absent"}
  /\ ~(deny = "set" /\ approve = "set")
  /\ Begin(r, Approve(Deny([access EXCEPT !.banned = Marked(@, k, ban)], k, deny), k, approve),
           transport, Marked(bps, k, limit))

(* policyState of the proposed copy and the live settings, as saved                 *)
Payload(r) == Policy(tx[r].next, transport, bps)

Save(r) ==
  /\ tx[r].at = "save"
  /\ \/ /\ file' = {Payload(r)} /\ tx' = [tx EXCEPT ![r].at = "commit"] /\ torn' = FALSE
     \/ /\ tx' = [tx EXCEPT ![r].at = "rollback"]
        /\ \/ UNCHANGED <<file, torn>>
           \/ file' = {Payload(r)} /\ torn' = TRUE
  /\ UNCHANGED <<process, memory, writer>>

(* commitAccess and the answer; the pushes to the registry are LeaseAccess.          *)
Commit(r) ==
  /\ tx[r].at = "commit"
  /\ access' = tx[r].next
  /\ tx' = [tx EXCEPT ![r] = NoTx] /\ writer' = "none"
  /\ UNCHANGED <<process, transport, enforced, bps, file, torn>>

(* Mutant: the bandwidth limits stay as the failed request set them.                 *)
LimitsKept(p) == bps
Limits(p) == p.bps

(* persistPolicyState after a failure: previous.apply, unless the transports are      *)
(* refused, and the answer.                                                           *)
Rollback(r) ==
  LET p == tx[r].before
  IN /\ tx[r].at = "rollback"
     /\ IF Applicable(p.transport)
        THEN /\ access' = Decided(p.access) /\ transport' = p.transport /\ enforced' = p.transport
             /\ bps' = Limits(p)
        ELSE UNCHANGED memory
     /\ tx' = [tx EXCEPT ![r] = NoTx] /\ writer' = "none"
     /\ UNCHANGED <<process, file, torn>>

Next ==
  \/ Crash \/ \E flag \in Flags : Start(flag)
  \/ \E r \in Requests :
       \/ \E mode \in {"auto", "manual"}, t \in Settings : UpdateSettings(r, mode, t)
       \/ \E k \in Keys, ban, deny, approve, limit \in Field :
            UpdateLease(r, k, ban, deny, approve, limit)
       \/ Save(r) \/ Commit(r) \/ Rollback(r)

Spec == Init /\ [][Next]_vars

TypeOK ==
  /\ access \in Decisions /\ transport \in Settings /\ bps \subseteq Keys
  /\ Cardinality(file) <= 1 /\ writer \in Requests \cup {"none"}

(* Between requests the policy in force is the one a restart would load: no failed  *)
(* save, crash or overlapping request leaves the memory of the relay, what its       *)
(* registry enforces and policy.json apart (unless a save failed after the rename).  *)
MemoryIsFile ==
  (up /\ writer = "none" /\ ~torn) =>
    /\ enforced = transport
    /\ Loaded(flags) = Policy(access, transport, bps)

(* No key is both approved and denied, also after reloads and rollbacks.             *)
DeniedWins == up => access.approved \cap access.denied = {}
=============================================================================
