---------------------------- MODULE EmbeddedZone ----------------------------
(* What the embedded authoritative server (portal/acme/embedded) answers: the     *)
(* zone that signedZone builds from the stored TXT records and the addresses of    *)
(* the relay, with its wildcards and its chain of NSEC records, and the lookup of   *)
(* answer.  A name is the sequence of its labels below the zone, the one next to    *)
(* the zone first; labels are numbers in the order of their octets.                 *)
EXTENDS Naturals, Sequences, FiniteSets, SequencesExt, FiniteSetsExt

CONSTANTS
  Labels,     \* the labels of the names; Star is the smallest
  Depth,      \* names have at most that many labels
  TxtNames,   \* names that TXT records are stored for
  Values      \* TXT values

Star == 0
Ns == <<1>>

VARIABLES txt, v4, v6

vars == <<txt, v4, v6>>

Names == UNION {[1 .. n -> Labels] : n \in 0 .. Depth}
Init == txt = [n \in TxtNames |-> {}] /\ v4 = FALSE /\ v6 = FALSE

EnsureTXTRecord(n, v) == txt' = [txt EXCEPT ![n] = @ \cup {v}] /\ UNCHANGED <<v4, v6>>
DeleteTXTRecords(n, S) == txt' = [txt EXCEPT ![n] = @ \ S] /\ UNCHANGED <<v4, v6>>
EnsureAddressRecords ==
  /\ \/ v4' = TRUE /\ UNCHANGED v6
     \/ v6' = TRUE /\ UNCHANGED v4
  /\ UNCHANGED txt

Next ==
  \/ \E n \in TxtNames, v \in Values : EnsureTXTRecord(n, v)
  \/ \E n \in TxtNames, S \in SUBSET Values : DeleteTXTRecords(n, S)
  \/ EnsureAddressRecords

Spec == Init /\ [][Next]_vars

-----------------------------------------------------------------------------
(* signedZone: the nodes of the zone, empty non-terminals and the wildcard of each   *)
(* node included, and the types of their record sets                                 *)

Addressed == v4 \/ v6
Wild(n) == Append(n, Star)
IsWild(n) == n # <<>> /\ Last(n) = Star

Owners == {<<>>} \cup {n \in TxtNames : txt[n] # {}} \cup (IF Addressed THEN {Ns} ELSE {})

(* Mutant: no empty non-terminals.                                                    *)
OwnersOnly == Owners
Terminals == UNION {{SubSeq(n, 1, k) : k \in 0 .. Len(n)} : n \in Owners}

(* Mutant: a wildcard at the apex only.                                               *)
ApexWild == {Wild(<<>>)}
Wildcards == {Wild(n) : n \in {m \in Terminals : ~IsWild(m)}}
Nodes == Terminals \cup (IF Addressed THEN Wildcards ELSE {})

Stored(n) ==
  (IF n = <<>> THEN {"NS", "SOA", "DNSKEY"} ELSE {})
    \cup (IF n \in TxtNames /\ txt[n] # {} THEN {"TXT"} ELSE {})
    \cup (IF v4 THEN {"A"} ELSE {}) \cup (IF v6 THEN {"AAAA"} ELSE {})
Types(n) == Stored(n) \cup {"NSEC", "RRSIG"}

(* compareDNSNames: from the zone outward, the shorter one first.  Mutant: leftmost    *)
(* label first.                                                                        *)
LeftFirst(a, b) ==
  LET x == Reverse(a) y == Reverse(b)
  IN \E i \in 1 .. Len(y) : /\ \A j \in 1 .. i - 1 : j <= Len(x) /\ x[j] = y[j]
                            /\ i > Len(x) \/ x[i] < y[i]
Before(a, b) ==
  \E i \in 1 .. Len(b) : /\ \A j \in 1 .. i - 1 : j <= Len(a) /\ a[j] = b[j]
                         /\ i > Len(a) \/ a[i] < b[i]

First(S) == CHOOSE n \in S : \A m \in S : n = m \/ Before(n, m)
After(n) ==
  LET later == {m \in Nodes : Before(n, m)} IN First(IF later = {} THEN Nodes ELSE later)
(* denial: the NSEC record of the name, or else of the node before it                  *)
Denial(n) ==
  LET earlier == {m \in Nodes : Before(m, n)}
      owner == IF n \in Nodes THEN n
               ELSE CHOOSE m \in earlier : \A k \in earlier : k = m \/ Before(k, m)
  IN [owner |-> owner, next |-> After(owner), types |-> Types(owner)]

-----------------------------------------------------------------------------
(* answer                                                                            *)

Closest(n) == CHOOSE m \in Nodes : IsPrefix(m, n) /\ \A k \in Nodes : IsPrefix(k, n) => Len(k) <= Len(m)
NextCloser(n) == SubSeq(n, 1, Len(Closest(n)) + 1)

Records(n, qtype) ==
  IF qtype = "RRSIG" THEN Types(n) \ {"RRSIG"}
  ELSE IF qtype \in Types(n) THEN (IF qtype = "TXT" THEN txt[n] ELSE {qtype}) ELSE {}

answer(n, qtype) ==
  LET source == IF n \in Nodes THEN n ELSE Wild(Closest(n))
      found == source \in Nodes
      records == IF found THEN Records(source, qtype) ELSE {}
  IN IF ~found /\ ~Addressed
     THEN [rcode |-> "REFUSED", records |-> {}, soa |-> FALSE, proofs |-> {}]
     ELSE [rcode |-> IF found THEN "NOERROR" ELSE "NXDOMAIN", records |-> records,
           soa |-> records = {},
           proofs |-> (IF n \in Nodes THEN {} ELSE {Denial(NextCloser(n))})
                        \cup (IF records = {} THEN {Denial(source)} ELSE {})]

-----------------------------------------------------------------------------
Queries == Names \X {"A", "AAAA", "TXT", "NS", "RRSIG"}

TypeOK == txt \in [TxtNames -> SUBSET Values] /\ v4 \in BOOLEAN /\ v6 \in BOOLEAN

(* A name is covered unless it lies below a wildcard label.                           *)
Covered(n) == \A i \in 1 .. Len(n) - 1 : n[i] # Star

(* The promise of the provider: once an address is known every covered name has it,    *)
(* whatever TXT records are stored around it; TXT queries get exactly what is stored;  *)
(* and while no address is known a name without records is refused, never denied, so   *)
(* that no resolver remembers its absence.                                             *)
AnswersRight ==
  \A q \in Queries :
    LET n == q[1] a == answer(n, q[2])
    IN /\ q[2] = "A" /\ Covered(n) => a.records = (IF v4 THEN {"A"} ELSE {})
       /\ q[2] = "AAAA" /\ Covered(n) => a.records = (IF v6 THEN {"AAAA"} ELSE {})
       /\ q[2] = "TXT" => a.records = (IF n \in TxtNames THEN txt[n] ELSE {})
       /\ Addressed /\ Covered(n) => a.rcode = "NOERROR"
       /\ a.rcode = "NXDOMAIN" => Addressed
       /\ a.rcode = "REFUSED" => ~Addressed /\ ~a.soa

(* The canonical order of RFC 4034, and an NSEC record that denies n: n lies between    *)
(* its two names, and the second is not below n.                                         *)
Canonical(a, b) ==
  LET common == Max({k \in 0 .. Len(a) : k <= Len(b) /\ SubSeq(a, 1, k) = SubSeq(b, 1, k)})
  IN common < Len(b) /\ (common = Len(a) \/ a[common + 1] < b[common + 1])
Covers(p, n) ==
  /\ ~IsPrefix(n, p.next)
  /\ IF Canonical(p.owner, p.next) THEN Canonical(p.owner, n) /\ Canonical(n, p.next)
     ELSE Canonical(p.owner, n) \/ Canonical(n, p.next)

(* Every answer from a signed zone is proved: a name without a node by an NSEC record   *)
(* around its next closer name; an empty answer by the record of its node, which does   *)
(* not list the type, or, if there is no such node, by a record around its wildcard.     *)
ProofsHold ==
  \A q \in Queries :
    LET n == q[1] a == answer(n, q[2])
    IN a.rcode # "REFUSED" =>
         /\ n \notin Nodes => \E p \in a.proofs : Covers(p, NextCloser(n))
         /\ a.records = {} /\ a.rcode = "NOERROR" =>
              \E p \in a.proofs : q[2] \notin p.types
                                    /\ p.owner = (IF n \in Nodes THEN n ELSE Wild(Closest(n)))
         /\ a.rcode = "NXDOMAIN" => \E p \in a.proofs : Covers(p, Wild(Closest(n)))

AnswersSound == AnswersRight /\ ProofsHold
=============================================================================
