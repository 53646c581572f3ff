---------------------------- MODULE DnsProviders ----------------------------
(* The six remote DNS providers (portal/acme/<name>/provider.go) behind the      *)
(* DNSProvider interface.  A call finds its zone, lists the record set of each    *)
(* of its targets and sends the changes it derives from the list.  Every request  *)
(* may fail with or without having taken effect, and somebody else may add a      *)
(* TXT value to the name in between.  What a request does at the provider is      *)
(* external.  A value is a number; the TXT values of the relay are Ours, the      *)
(* ones its prefix matches.                                                       *)
EXTENDS Naturals, Sequences, FiniteSets, SequencesExt

CONSTANTS
  Providers,     \* the names of the providers
  Ips, Ours, Foreign

VARIABLES
  provider, zone,     \* zone: whether the zone is in the cache
  records,            \* the values of each record set
  dnssec,             \* the zone's signing and, for Route 53, its key-signing key
  call,               \* the call in progress
  foreign             \* history: TXT values that are not the relay's

vars == <<provider, zone, records, dnssec, call, foreign>>

Apex == <<"apex", "A">>
Wild == <<"wild", "A">>
Six == <<"apex", "AAAA">>
Text == <<"apex", "TXT">>
Sets == {Apex, Wild, Six, Text}

Idle == [op |-> "none", value |-> 0, at |-> "idle", targets |-> <<>>, todo |-> <<>>,
         failed |-> FALSE]

Init ==
  /\ provider \in Providers /\ zone = "unknown" /\ call = Idle
  /\ records \in [Sets -> SUBSET (Ips \cup Ours \cup Foreign)]
  /\ \A s \in Sets : records[s] \subseteq (IF s = Text THEN Ours \cup Foreign ELSE Ips)
  /\ \A s \in {Wild, Six} : Cardinality(records[s]) <= 1
  /\ foreign = records[Text] \ Ours
  /\ \E k \in {"none", "inactive", "active"} :
       dnssec = [signing |-> "off", ksk |-> IF provider = "route53" THEN k ELSE "none"]

-----------------------------------------------------------------------------
(* What a call does to one record set, once it has the list.  A change is sent     *)
(* with one request.  swap fails unless the set is still what was listed.          *)

Change(s, kind, old, new) == [set |-> s, kind |-> kind, old |-> old, new |-> new]
Create(s, v) == <<Change(s, "create", {}, {v})>>
Each(s, S) == [i \in 1 .. Cardinality(S) |-> Change(s, "delete", {SetToSeq(S)[i]}, {})]

(* Cloudflare looks at the first record of the set only; Vultr updates the first    *)
(* one if none has the address.                                                     *)
CloudflareAddress(s, listed, ip) ==
  IF listed = {} THEN {Create(s, ip)}
  ELSE {IF v = ip THEN <<>> ELSE <<Change(s, "update", {v}, {ip})>> : v \in listed}
VultrAddress(s, listed, ip) ==
  IF ip \in listed THEN {<<>>}
  ELSE IF listed = {} THEN {Create(s, ip)} ELSE {<<Change(s, "update", {v}, {ip})>> : v \in listed}

(* Mutant: the record set is left as it is when it has the address.                 *)
NjallaKeeps(s, listed, ip) == IF ip \in listed THEN {<<>>} ELSE {Each(s, listed) \o Create(s, ip)}
NjallaAddress(s, listed, ip) ==
  {Each(s, listed \ {ip}) \o (IF ip \in listed THEN <<>> ELSE Create(s, ip))}

HetznerAddress(s, listed, ip) ==
  IF listed = {} THEN {Create(s, ip)}
  ELSE IF listed = {ip} THEN {<<>>} ELSE {<<Change(s, "set", {}, {ip})>>}
GcloudAddress(s, listed, ip) ==
  IF listed = {ip} THEN {<<>>} ELSE {<<Change(s, "swap", listed, {ip})>>}
Route53Address(s, ip) == {<<Change(s, "set", {}, {ip})>>}

CloudflareTXT(s, listed, v) == IF v \in listed THEN <<>> ELSE Create(s, v)
VultrTXT(s, listed, v) == IF v \in listed THEN <<>> ELSE Create(s, v)
NjallaTXT(s, listed, v) == IF v \in listed THEN <<>> ELSE Create(s, v)
HetznerTXT(s, listed, v) ==
  IF v \in listed THEN <<>>
  ELSE IF listed = {} THEN Create(s, v) ELSE <<Change(s, "add", {}, {v})>>
GcloudTXT(s, listed, v) ==
  IF v \in listed THEN <<>> ELSE <<Change(s, "swap", listed, listed \cup {v})>>
Route53TXT(s, listed, v) ==
  IF v \in listed THEN <<>> ELSE <<Change(s, "set", {}, listed \cup {v})>>

(* The values that a deletion takes out: all addresses, the TXT values with the      *)
(* prefix.  Mutant: without regard to the prefix.                                    *)
EveryValue(s, listed) == listed
Matching(s, listed) == IF s = Text THEN listed \cap Ours ELSE listed

CloudflareDelete(s, listed) == Each(s, Matching(s, listed))
VultrDelete(s, listed) == Each(s, Matching(s, listed))
NjallaDelete(s, listed) == Each(s, Matching(s, listed))
HetznerDelete(s, listed) ==
  IF Matching(s, listed) = {} THEN <<>>
  ELSE <<Change(s, "set", {}, listed \ Matching(s, listed))>>
GcloudDelete(s, listed) ==
  IF Matching(s, listed) = {} THEN <<>>
  ELSE <<Change(s, "swap", listed, listed \ Matching(s, listed))>>
Route53Delete(s, listed) ==
  LET rest == listed \ Matching(s, listed)
  IN IF rest = listed THEN <<>>
     ELSE <<IF rest = {} THEN Change(s, "swap", listed, {}) ELSE Change(s, "set", {}, rest)>>

AddressChanges(s, listed, ip) ==
  CASE provider = "cloudflare" -> CloudflareAddress(s, listed, ip)
    [] provider = "vultr" -> VultrAddress(s, listed, ip)
    [] provider = "njalla" -> NjallaAddress(s, listed, ip)
    [] provider = "hetzner" -> HetznerAddress(s, listed, ip)
    [] provider = "gcloud" -> GcloudAddress(s, listed, ip)
    [] provider = "route53" -> Route53Address(s, ip)
TXTChanges(s, listed, v) ==
  CASE provider = "cloudflare" -> CloudflareTXT(s, listed, v)
    [] provider = "vultr" -> VultrTXT(s, listed, v)
    [] provider = "njalla" -> NjallaTXT(s, listed, v)
    [] provider = "hetzner" -> HetznerTXT(s, listed, v)
    [] provider = "gcloud" -> GcloudTXT(s, listed, v)
    [] provider = "route53" -> Route53TXT(s, listed, v)
DeleteChanges(s, listed) ==
  CASE provider = "cloudflare" -> CloudflareDelete(s, listed)
    [] provider = "vultr" -> VultrDelete(s, listed)
    [] provider = "njalla" -> NjallaDelete(s, listed)
    [] provider = "hetzner" -> HetznerDelete(s, listed)
    [] provider = "gcloud" -> GcloudDelete(s, listed)
    [] provider = "route53" -> Route53Delete(s, listed)

Changes(s, listed) ==
  CASE call.op = "address" -> AddressChanges(s, listed, call.value)
    [] call.op = "txt" -> {TXTChanges(s, listed, call.value)}
    [] OTHER -> {DeleteChanges(s, listed)}

-----------------------------------------------------------------------------
(* A call                                                                          *)

(* EnsureAddressRecords writes apex and wildcard; DeleteAddressRecords goes on with *)
(* the other type when one fails.                                                   *)
Targets(op) ==
  CASE op = "address" -> <<Apex, Wild>> [] op = "deleteAddress" -> <<Apex, Six>>
    [] op \in {"txt", "deleteTXT"} -> <<Text>> [] OTHER -> <<>>

Begin(op, value) ==
  /\ call = Idle
  /\ call' = [Idle EXCEPT !.op = op, !.value = value, !.at = "zone", !.targets = Targets(op)]
  /\ UNCHANGED <<provider, zone, records, dnssec, foreign>>

Return(result) == call' = [call EXCEPT !.at = result, !.targets = <<>>, !.todo = <<>>]

(* findZone: a zone once found is remembered.                                       *)
FindZone ==
  /\ call.at = "zone"
  /\ \/ /\ zone' = "cached"
        /\ call' = [call EXCEPT !.at = IF call.op = "dnssec" THEN "status" ELSE "list"]
     \/ zone = "unknown" /\ Return("error") /\ UNCHANGED zone
  /\ UNCHANGED <<provider, records, dnssec, foreign>>

(* Google Cloud DNS lists both types first and sends one change for what it found.  *)
Batched == provider = "gcloud" /\ call.op = "deleteAddress"
Ended == Return(IF call.failed THEN "error" ELSE "ok")

List ==
  /\ call.at = "list" /\ call.targets # <<>>
  /\ LET s == Head(call.targets)
     IN \E changes \in Changes(s, records[s]) :
          call' = [call EXCEPT !.targets = Tail(@), !.todo = @ \o changes,
                               !.at = IF Batched THEN "list" ELSE "send"]
  /\ UNCHANGED <<provider, zone, records, dnssec, foreign>>

ListFails ==
  /\ call.at = "list" /\ call.targets # <<>>
  /\ IF call.op = "deleteAddress"
     THEN call' = [call EXCEPT !.targets = Tail(@), !.failed = TRUE]
     ELSE Return("error")
  /\ UNCHANGED <<provider, zone, records, dnssec, foreign>>

Listed ==
  /\ call.at = "list" /\ call.targets = <<>>
  /\ IF call.todo = <<>> THEN Ended ELSE call' = [call EXCEPT !.at = "send"]
  /\ UNCHANGED <<provider, zone, records, dnssec, foreign>>

Sent ==
  /\ call.at = "send" /\ call.todo = <<>>
  /\ IF call.targets = <<>> THEN Ended ELSE call' = [call EXCEPT !.at = "list"]
  /\ UNCHANGED <<provider, zone, records, dnssec, foreign>>

(* The provider's side of a request                                                 *)
Fits(c) == c.kind = "swap" => records[c.set] = c.old
Applied(c) ==
  CASE c.kind \in {"set", "swap"} -> [records EXCEPT ![c.set] = c.new]
    [] OTHER -> [records EXCEPT ![c.set] = (@ \ c.old) \cup c.new]

(* The changes that Google sends together                                           *)
Batch == IF Batched THEN Len(call.todo) ELSE 1
AppliedAll ==
  [s \in Sets |-> IF \E i \in 1 .. Batch : call.todo[i].set = s
                  THEN Applied(call.todo[CHOOSE i \in 1 .. Batch : call.todo[i].set = s])[s]
                  ELSE records[s]]

Send ==
  /\ call.at = "send" /\ call.todo # <<>> /\ \A i \in 1 .. Batch : Fits(call.todo[i])
  /\ records' = AppliedAll
  /\ call' = [call EXCEPT !.todo = SubSeq(@, Batch + 1, Len(@))]
  /\ UNCHANGED <<provider, zone, dnssec, foreign>>

(* Mutant: a failed request does not count.                                         *)
Forgiven == FALSE
Counted == TRUE

(* After a failed deletion Cloudflare goes on with the next record, the others with   *)
(* the other type; every other call returns.                                          *)
SendFails ==
  /\ call.at = "send" /\ call.todo # <<>>
  /\ \/ UNCHANGED records
     \/ (\A i \in 1 .. Batch : Fits(call.todo[i])) /\ records' = AppliedAll
  /\ IF call.op # "deleteAddress" THEN Return("error")
     ELSE call' = [call EXCEPT !.failed = Counted,
                               !.todo = IF provider = "cloudflare" THEN Tail(@) ELSE <<>>]
  /\ UNCHANGED <<provider, zone, dnssec, foreign>>

-----------------------------------------------------------------------------
(* EnsureDNSSEC: Hetzner and Njalla cannot; the others read the state, enable       *)
(* signing unless it is on, and read it again.  Route 53 needs an active key first.  *)

Status ==
  /\ call.at = "status"
  /\ \/ Return("error")
     \/ /\ provider \notin {"hetzner", "njalla"}
        /\ IF dnssec.signing = "on" THEN Return("ok")
           ELSE call' = [call EXCEPT !.at = IF provider = "route53" /\ dnssec.ksk # "active"
                                           THEN "key" ELSE "enable"]
  /\ UNCHANGED <<provider, zone, records, dnssec, foreign>>

(* ensureActiveKeySigningKey: activate the key with the relay's name or create it,    *)
(* and look again whether one is active.                                              *)
EnsureKey ==
  /\ provider = "route53" /\ call.at = "key"
  /\ \/ Return("error") /\ \E k \in {dnssec.ksk, "active"} : dnssec' = [dnssec EXCEPT !.ksk = k]
     \/ call' = [call EXCEPT !.at = "keyed"] /\ dnssec' = [dnssec EXCEPT !.ksk = "active"]
  /\ UNCHANGED <<provider, zone, records, foreign>>

KeyStatus ==
  /\ call.at = "keyed"
  /\ \/ Return("error")
     \/ dnssec.ksk = "active" /\ call' = [call EXCEPT !.at = "enable"]
  /\ UNCHANGED <<provider, zone, records, dnssec, foreign>>

Enable ==
  /\ call.at = "enable"
  /\ \/ Return("error") /\ \E g \in {dnssec.signing, "on"} : dnssec' = [dnssec EXCEPT !.signing = g]
     \/ call' = [call EXCEPT !.at = "status"] /\ dnssec' = [dnssec EXCEPT !.signing = "on"]
  /\ UNCHANGED <<provider, zone, records, foreign>>

-----------------------------------------------------------------------------
Answer == call.at \in {"ok", "error"} /\ call' = Idle /\ UNCHANGED <<provider, zone, records, dnssec, foreign>>

SomebodyAdds ==
  /\ \E v \in Foreign \ records[Text] :
       records' = [records EXCEPT ![Text] = @ \cup {v}] /\ foreign' = foreign \cup {v}
  /\ UNCHANGED <<provider, zone, dnssec, call>>

Next ==
  \/ \E ip \in Ips : Begin("address", ip)
  \/ \E v \in Ours : Begin("txt", v)
  \/ \E op \in {"deleteAddress", "deleteTXT", "dnssec"} : Begin(op, 0)
  \/ FindZone \/ List \/ ListFails \/ Listed \/ Sent \/ Send \/ SendFails
  \/ Status \/ EnsureKey \/ KeyStatus \/ Enable \/ Answer \/ SomebodyAdds

Spec == Init /\ [][Next]_vars

TypeOK ==
  /\ records \in [Sets -> SUBSET (Ips \cup Ours \cup Foreign)] /\ provider \in Providers
  /\ dnssec.signing \in {"off", "on"} /\ Len(call.todo) <= 4

(* A call that returns without an error has done its work, whatever earlier calls    *)
(* left half done: the apex and the wildcard have the address, and no other where     *)
(* the provider replaces the set (Cloudflare and Vultr change one record, and leave   *)
(* no more records than there were); a deletion leaves none of its kind; and a signed  *)
(* zone has its key.                                                                  *)
ReturnsDone ==
  call.at = "ok" =>
    CASE call.op = "address" ->
           \A s \in {Apex, Wild} : /\ call.value \in records[s]
                                   /\ provider \notin {"cloudflare", "vultr"} => records[s] = {call.value}
      [] call.op = "deleteAddress" -> records[Apex] = {} /\ records[Six] = {}
      [] call.op = "txt" -> call.value \in records[Text]
      [] call.op = "deleteTXT" -> records[Text] \cap Ours = {}
      [] OTHER -> dnssec.signing = "on" /\ (provider = "route53" => dnssec.ksk = "active")

(* The TXT values of others at the name survive every call, failed or not.  Route 53  *)
(* and Hetzner write back the set they listed, so there a value added meanwhile can    *)
(* be lost; the others change single records or only the set they have listed.         *)
ForeignKept == provider \notin {"route53", "hetzner"} => foreign \subseteq records[Text]

=============================================================================
