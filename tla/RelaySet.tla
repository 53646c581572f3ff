------------------------------ MODULE RelaySet ------------------------------
(* The relay discovery view (portal/discovery/relayset.go) and the refresher    *)
(* that polls it (refresher.go): signed descriptors arrive by direct polls, by  *)
(* gossip in other relays' answers and by announce, and every operation is one  *)
(* critical section under s.mu.  Signatures are external: a descriptor in the   *)
(* model is one its identity really signed.  A poll is in flight while other    *)
(* operations run.  Time moves in steps; retry delays only postpone polls, and  *)
(* polls happen at any time here.                                               *)
EXTENDS Naturals, FiniteSets, Sequences

CONSTANTS
  Urls, Identities,
  Bootstraps,     \* URLs configured by the operator
  Horizon,        \* bound: the last moment
  Validity,       \* AnnounceMaxValidity, also the time after which a failing relay is dropped
  Skew,           \* AnnounceClockSkewTolerance
  PoolBan,        \* relayPoolBanTTL
  Backoff,        \* the suppression after an active failure or a deactivation
  MaxRelays,      \* MaxAnnouncedRelays
  MaxPerIdentity, \* MaxAnnouncedRelaysPerIdentity
  Recovery,       \* defaultRecoveryFailures
  MaxSteps        \* bound: operations on the set

VARIABLES
  now, relays, keyIndex, incompatible,
  steps,          \* operations so far
  polling,        \* per URL: no poll, one in flight, or one whose failure is yet to be recorded
  newest,         \* history: the newest issued_at accepted for each identity
  served,         \* history: identities whose descriptor the URL itself served
  pardoned,       \* history: some ban was lifted by AllowRelayURL
  forever         \* history: relays banned without an end and not allowed since

vars == <<now, relays, keyIndex, incompatible, steps, polling, newest, served, pardoned,
          forever>>

(* newRelayState: a URL without a descriptor.  seen = 0 means none was observed.  *)
Blank(boot) ==
  [id |-> "none", issued |-> 0, expires |-> 0, seen |-> 0, boot |-> boot,
   verified |-> FALSE, banned |-> FALSE, until |-> 0, dead |-> FALSE, fails |-> 0,
   sick |-> 0]

Init ==
  /\ now = 1
  /\ relays = [u \in Bootstraps |-> Blank(TRUE)]
  /\ keyIndex = [i \in {} |-> 0] /\ incompatible = [u \in {} |-> 0]
  /\ steps = 0 /\ polling = [u \in Urls |-> "no"] /\ pardoned = FALSE /\ forever = {}
  /\ newest = [i \in Identities |-> 0] /\ served = [u \in Urls |-> {}]

Put(f, x, v) == [y \in DOMAIN f \cup {x} |-> IF y = x THEN v ELSE f[y]]
Without(f, S) == [y \in DOMAIN f \ S |-> f[y]]
At(f, u) == IF u \in DOMAIN f THEN f[u] ELSE Blank(FALSE)

(* What an identity may have signed and verifyFreshRelayDescriptor accepts; the   *)
(* expiry stands for everything else that was signed.                             *)
Descriptors ==
  {d \in [url : Urls, id : Identities, issued : 1..(now + Skew),
          expires : (now + 1)..(now + Skew + Validity)] :
     d.expires - d.issued <= Validity /\ d.issued < d.expires}

(* clearExpiredPoolBansLocked                                                     *)
Unban(rs) ==
  LET over == {u \in DOMAIN rs : rs[u].banned /\ rs[u].until # 0 /\ rs[u].until <= now}
  IN [u \in DOMAIN rs \ {x \in over : ~rs[x].boot} |->
        IF u \in over THEN [rs[u] EXCEPT !.banned = FALSE, !.until = 0, !.sick = 0]
                      ELSE rs[u]]

(* mergeLocalRelayState: trust does not survive a change of identity.             *)
Merge(d, e) ==
  [e EXCEPT !.id = d.id, !.issued = d.issued, !.expires = d.expires, !.seen = now,
            !.verified = e.verified /\ e.id = d.id]

(* markDiscoveryVerified                                                          *)
Verified(e) == [e EXCEPT !.verified = TRUE, !.dead = FALSE, !.fails = 0, !.sick = 0]

(* The oldest entries are evicted; equal ages in any order.                       *)
Evictions(rs, S, n) ==
  {E \in SUBSET S : Cardinality(E) = n /\ \A x \in E, y \in S \ E : rs[x].seen <= rs[y].seen}

(* enforceIdentityCapLocked: an identity's own oldest candidates make room.       *)
OwnCandidates(rs, id) ==
  {u \in DOMAIN rs : rs[u].id = id /\ ~rs[u].boot /\ ~rs[u].banned /\ ~rs[u].verified}
IdentityCap(rs, id) ==
  LET own == OwnCandidates(rs, id)
      n == IF Cardinality(own) > MaxPerIdentity THEN Cardinality(own) - MaxPerIdentity ELSE 0
  IN {Without(rs, E) : E \in Evictions(rs, own, n)}

(* enforceCapLocked: candidates go first, verified relays last, bootstrap and     *)
(* banned entries never.  Mutants: the tiers are not told apart; the set is       *)
(* trimmed one entry too late.                                                    *)
CapAnyAge(rs) ==
  LET over == IF Cardinality(DOMAIN rs) > MaxRelays THEN Cardinality(DOMAIN rs) - MaxRelays ELSE 0
      all == DOMAIN rs
      n == IF over < Cardinality(all) THEN over ELSE Cardinality(all)
  IN {Without(Unban(rs), E) : E \in Evictions(rs, all, n)}
CapLate(rs) ==
  IF Cardinality(DOMAIN rs) <= MaxRelays + 1 THEN {Unban(rs)} ELSE CapAnyAge(rs)
Cap(rs) ==
  LET r == Unban(rs)
      over == IF Cardinality(DOMAIN r) > MaxRelays THEN Cardinality(DOMAIN r) - MaxRelays ELSE 0
      loose == {u \in DOMAIN r : ~r[u].boot /\ ~r[u].banned}
      first == {u \in loose : ~r[u].verified}
      n1 == IF over < Cardinality(first) THEN over ELSE Cardinality(first)
      n2 == IF over - n1 < Cardinality(loose \ first) THEN over - n1
            ELSE Cardinality(loose \ first)
  IN {Without(r, E \cup F) : E \in Evictions(r, first, n1), F \in Evictions(r, loose \ first, n2)}

(* One descriptor is applied to a state of the set, [r, k, n] for relays,         *)
(* keyIndex and newest.  The rollback anchor of an identity counts until its      *)
(* tombstone is over.  Mutant: it ends with half of it.                       *)
ShortAnchor(k, i) == i \in DOMAIN k /\ now + 2 < k[i].until
Anchored(k, i) == i \in DOMAIN k /\ now <= k[i].until

Conflicts(d, e) == e.id = d.id /\ e.issued = d.issued /\ e.expires # d.expires
RolledBack(k, d) == Anchored(k, d.id) /\ d.issued < k[d.id].issued
(* Mutant: gossip may replace any entry.                                          *)
NeverTaken(d, e) == FALSE
TakenOver(d, e) == e.id \notin {"none", d.id} /\ e.expires > now

(* upsertDescriptorLocked decides; direct: the URL itself served the descriptor.  *)
Verdict(k, d, e, direct) ==
  IF e.banned THEN "banned"
  ELSE IF Conflicts(d, e) THEN "conflicting"
  ELSE IF RolledBack(k, d)
       THEN IF e.id = d.id /\ e.expires > now /\ e.issued >= d.issued THEN "ignored" ELSE "rejected"
  ELSE IF ~direct /\ TakenOver(d, e) THEN "rejected" ELSE "accepted"

(* The anchor an accepted descriptor leaves.                                      *)
Anchor(k, d) ==
  LET old == IF Anchored(k, d.id) THEN k[d.id] ELSE [issued |-> 0, until |-> 0]
      until == d.issued + Validity
  IN [issued |-> IF old.issued > d.issued THEN old.issued ELSE d.issued,
      until |-> IF old.until > until THEN old.until ELSE until]

(* A descriptor served by its own URL verifies the entry.  One that is only       *)
(* ignored or rejected still credits a failing relay as alive.                    *)
Upsert(st, d, direct) ==
  LET e == At(st.r, d.url)
      verdict == Verdict(st.k, d, e, direct)
      merged == IF direct THEN Verified(Merge(d, e)) ELSE Merge(d, e)
      alive == direct /\ d.url \in DOMAIN st.r /\ (e.fails # 0 \/ e.sick # 0)
  IN IF verdict = "accepted"
     THEN {[r |-> r, k |-> Put(st.k, d.id, Anchor(st.k, d)),
            n |-> [st.n EXCEPT ![d.id] = IF d.issued > @ THEN d.issued ELSE @]] :
             r \in IdentityCap(Put(st.r, d.url, merged), d.id)}
     ELSE IF verdict \in {"ignored", "rejected"} /\ alive
     THEN {[st EXCEPT !.r = Put(@, d.url, Verified(e))]}
     ELSE {st}

State == [r |-> Unban(relays), k |-> keyIndex, n |-> newest]

(* After a batch enforceCapLocked trims the set and sweeps the tombstones.        *)
Becomes(states) ==
  \E st \in states :
    /\ relays' \in Cap(st.r) /\ newest' = st.n
    /\ keyIndex' = Without(st.k, {i \in DOMAIN st.k : now > st.k[i].until})

\* ------------------------------------------------------------------------

Tick ==
  /\ now < Horizon
  /\ now' = now + 1
  /\ UNCHANGED <<relays, keyIndex, incompatible, steps, polling, newest, served, pardoned, forever>>

(* InsertCandidate, from the announce endpoint; the set is trimmed only if the    *)
(* descriptor was accepted.                                                       *)
InsertCandidate(d) ==
  /\ IF Verdict(keyIndex, d, At(State.r, d.url), FALSE) = "accepted"
     THEN Becomes(Upsert(State, d, FALSE))
     ELSE relays' = State.r /\ UNCHANGED <<keyIndex, newest>>
  /\ UNCHANGED <<now, incompatible, polling, served, pardoned, forever>>

(* refreshHTTPS picks what is worth a poll.                                       *)
PollStart(u) ==
  /\ u \in DOMAIN State.r /\ polling[u] = "no"
  /\ LET e == State.r[u] IN ~e.banned /\ (e.boot \/ e.seen # 0)
  /\ relays' = State.r /\ polling' = [polling EXCEPT ![u] = "poll"]
  /\ UNCHANGED <<now, keyIndex, incompatible, newest, served, pardoned, forever>>

(* The descriptors of one answer, at most one per URL (the last one counts).      *)
Batches ==
  {<<d>> : d \in Descriptors}
    \cup {<<p[1], p[2]>> : p \in {q \in Descriptors \X Descriptors : q[1].url # q[2].url}}

(* ApplyRelayDiscoveryResponse for the poll of u.  The relay's own descriptor may *)
(* be missing, which counts as a failure, as a contradiction does; the rest of    *)
(* the answer is gossip.  A mismatch is an answer of another protocol version: it *)
(* verifies nothing, is no failure, and is remembered unless the relay is banned. *)
PollAnswers(u, batch, mismatch) ==
  LET rs == State.r
      own == {d \in {batch[i] : i \in DOMAIN batch} : d.url = u /\ ~At(rs, u).banned}
      direct(d) == ~mismatch /\ d \in own
      first == Upsert(State, batch[1], direct(batch[1]))
      all == IF Len(batch) = 1 THEN first
             ELSE UNION {Upsert(st, batch[2], direct(batch[2])) : st \in first}
      failed == ~mismatch /\ (own = {} \/ \E d \in own : Conflicts(d, At(rs, u)))
      recent == Without(incompatible, {x \in DOMAIN incompatible : now - incompatible[x] > Validity})
  IN /\ polling[u] = "poll"
     /\ Becomes(all)
     /\ served' = IF mismatch \/ failed THEN served
                  ELSE [served EXCEPT ![u] = @ \cup {d.id : d \in own}]
     /\ incompatible' = IF mismatch /\ ~At(rs, u).banned THEN Put(recent, u, now)
                        ELSE IF failed THEN incompatible ELSE Without(incompatible, {u})
     /\ polling' = [polling EXCEPT ![u] = IF failed THEN "fail" ELSE "no"]
     /\ UNCHANGED <<now, pardoned, forever>>

(* banFromPoolLocked                                                              *)
PoolBanned(e) == [Blank(e.boot) EXCEPT !.banned = TRUE, !.until = now + PoolBan]

(* RecordDiscoveryFailure; a bootstrap relay's failure is not recorded.           *)
PollFails(u) ==
  /\ polling[u] # "no"
  /\ LET rs == State.r
         e == At(rs, u)
         sick == IF e.sick = 0 THEN now ELSE e.sick
         fails == IF e.fails < Recovery THEN e.fails + 1 ELSE Recovery
         dropped == sick + Validity <= now
         counted == u \in DOMAIN rs /\ ~e.banned /\ u \notin Bootstraps
     IN /\ relays' = IF ~counted THEN rs
                     ELSE Put(rs, u, IF dropped THEN PoolBanned(e)
                                     ELSE [e EXCEPT !.fails = fails, !.sick = sick,
                                                    !.dead = e.dead \/ fails = Recovery])
        /\ incompatible' = IF counted /\ dropped THEN Without(incompatible, {u}) ELSE incompatible
  /\ polling' = [polling EXCEPT ![u] = "no"]
  /\ UNCHANGED <<now, keyIndex, newest, served, pardoned, forever>>

BanRelayURL(u) ==
  /\ relays' = Put(relays, u, [At(relays, u) EXCEPT !.banned = TRUE, !.until = 0])
  /\ incompatible' = Without(incompatible, {u}) /\ forever' = forever \cup {u}
  /\ UNCHANGED <<now, keyIndex, polling, newest, served, pardoned>>

AllowRelayURL(u) ==
  /\ relays' = Put(relays, u, [At(relays, u) EXCEPT !.banned = FALSE, !.until = 0, !.sick = 0])
  /\ pardoned' = TRUE /\ forever' = forever \ {u}
  /\ UNCHANGED <<now, keyIndex, incompatible, polling, newest, served>>

DeactivateRelayURL(u) ==
  /\ u \in DOMAIN relays
  /\ relays' = [relays EXCEPT ![u].until = now + Backoff]
  /\ UNCHANGED <<now, keyIndex, incompatible, polling, newest, served, pardoned, forever>>

EnsureRelayURL(u) ==
  /\ u \notin DOMAIN relays
  /\ relays' = Put(relays, u, Blank(FALSE))
  /\ UNCHANGED <<now, keyIndex, incompatible, polling, newest, served, pardoned, forever>>

(* RecordActiveFailure: with a budget of one failure it always suppresses.        *)
RecordActiveFailure(u) ==
  /\ LET rs == State.r
     IN relays' = IF u \in DOMAIN rs /\ ~rs[u].banned
                  THEN Put(rs, u, [rs[u] EXCEPT !.until = now + Backoff]) ELSE rs
  /\ UNCHANGED <<now, keyIndex, incompatible, polling, newest, served, pardoned, forever>>

Operation ==
  \/ \E d \in Descriptors : InsertCandidate(d)
  \/ \E u \in {x \in Urls : polling[x] = "poll"} :
       \E batch \in Batches, mismatch \in BOOLEAN : PollAnswers(u, batch, mismatch)
  \/ \E u \in Urls :
       \/ PollStart(u) \/ PollFails(u) \/ BanRelayURL(u) \/ AllowRelayURL(u) \/ DeactivateRelayURL(u)
       \/ EnsureRelayURL(u) \/ RecordActiveFailure(u)

Next ==
  \/ Tick
  \/ steps < MaxSteps /\ steps' = steps + 1 /\ Operation

Spec == Init /\ [][Next]_vars

TypeOK ==
  /\ now \in 1..Horizon /\ DOMAIN relays \subseteq Urls
  /\ polling \in [Urls -> {"no", "poll", "fail"}]
  /\ \A u \in DOMAIN relays :
       /\ relays[u].id \in Identities \cup {"none"}
       /\ relays[u].fails \in 0..Recovery /\ relays[u].seen \in 0..Horizon
  /\ \A i \in DOMAIN keyIndex : keyIndex[i].issued \in 1..(Horizon + Skew)

(* An identity is never rolled back: no entry takes a descriptor older than one   *)
(* accepted from the same identity before, under any URL, also after every entry  *)
(* of the identity was evicted or banned and its anchor was swept.                *)
NoRollback ==
  \A u \in DOMAIN relays' :
    LET e == relays'[u] IN
    (e.id # "none" /\ (u \notin DOMAIN relays \/ <<e.id, e.issued>> # <<relays[u].id, relays[u].issued>>))
       => e.issued >= newest[e.id]

(* A URL that was verified for one identity whose descriptor has not expired goes *)
(* over to another one only by a direct answer of that URL.                       *)
NoTakeover ==
  \A u \in DOMAIN relays \cap DOMAIN relays' :
    (/\ relays[u].id \notin {"none", relays'[u].id} /\ relays'[u].id # "none"
     /\ relays[u].expires > now /\ ~relays[u].banned /\ relays[u].verified)
       => relays'[u].id \in served'[u] /\ polling[u] = "poll"

(* Until a ban is lifted by hand, an identity has at most its share of candidate  *)
(* entries and the set stays within its cap.                                      *)
Capped ==
  ~pardoned =>
    /\ \A i \in Identities : Cardinality(OwnCandidates(relays, i)) <= MaxPerIdentity
    /\ Cardinality({u \in DOMAIN relays : ~relays[u].boot /\ ~relays[u].banned /\ relays[u].seen # 0})
         <= MaxRelays

(* A verified relay with a descriptor in force is never evicted while a candidate *)
(* stays.                                                                         *)
EvictsInOrder ==
  \A u \in DOMAIN relays \ DOMAIN relays' :
    (relays[u].verified /\ ~relays[u].banned /\ relays[u].expires > now)
      => \A x \in DOMAIN relays' : relays'[x].verified \/ relays'[x].boot \/ relays'[x].banned

(* A locally banned relay is in no list of observations.                          *)
BannedUnlisted ==
  \A u \in DOMAIN relays : relays[u].banned => u \notin DOMAIN incompatible

(* A ban without an end is lifted by AllowRelayURL only (the comment of Report:   *)
(* FailureMITM permanently bans the relay).                                       *)
BanIsPermanent == \A u \in forever : u \in DOMAIN relays /\ relays[u].banned
=============================================================================
