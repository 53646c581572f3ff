----------------------------- MODULE EmbeddedDns -----------------------------
(* The embedded DNS provider (portal/acme/embedded) as a server: its signing key    *)
(* file across restarts, and the one signed snapshot of the zone that queries are    *)
(* answered from, made anew when the serial has moved or the signatures are due.      *)
(* What a snapshot answers is in EmbeddedZone.  The clock may jump either way.        *)
EXTENDS Naturals, FiniteSets

CONSTANTS
  Content,                   \* what the zone can hold (TXT values, addresses)
  Refresh, Lifetime, Skew,   \* signatureRefresh, signatureLifetime, signatureSkew
  MaxTime, MaxSerial, MaxKeys

VARIABLES
  up, now,
  file, keys,      \* the key file: 0 absent, -1 unreadable, or the key; keys made so far
  key, exported,   \* the key in use; history: the key whose DS was given to the operator
  zone, serial,    \* the records and the serial of the provider
  signed           \* the snapshot, if any

vars == <<up, now, file, keys, key, exported, zone, serial, signed>>

NoZone == [serial |-> 0, zone |-> {}, at |-> 0]
Bad == MaxKeys + 1

Init ==
  /\ up = "down" /\ now \in 1 .. MaxTime /\ file \in {0, Bad} /\ keys = 0 /\ key = 0 /\ exported = 0
  /\ zone = {} /\ serial = 0 /\ signed = NoZone

ClockMoves == /\ \E t \in 1 .. MaxTime : t # now /\ now' = t
              /\ UNCHANGED <<up, file, keys, key, exported, zone, serial, signed>>

(* bumpSerialLocked                                                                   *)
Bumped(s) == IF now > s THEN now ELSE s + 1

-----------------------------------------------------------------------------
(* loadSigningKey: a key is made only when there is no file; it is used once it is    *)
(* renamed into place.  Mutant: also when the file cannot be read.                    *)
Regenerates == file \in {0, Bad}
MayGenerate == file = 0

Generate ==
  /\ up = "down" /\ MayGenerate /\ keys < MaxKeys
  /\ keys' = keys + 1 /\ key' = keys' /\ up' = "publishing"
  /\ UNCHANGED <<now, file, exported, zone, serial, signed>>

Publish ==
  /\ up = "publishing" /\ file' = key /\ up' = "loaded"
  /\ UNCHANGED <<now, keys, key, exported, zone, serial, signed>>

Load ==
  /\ up = "down" /\ file \notin {0, Bad} /\ key' = file /\ up' = "loaded"
  /\ UNCHANGED <<now, file, keys, exported, zone, serial, signed>>

(* New: the first snapshot is signed, the listeners start, and the DS record of the    *)
(* key is logged.                                                                      *)
New ==
  /\ up = "loaded" /\ up' = "up" /\ exported' = (IF exported = 0 THEN key ELSE exported)
  /\ serial' = Bumped(0) /\ zone' = {} /\ signed' = [serial |-> serial', zone |-> {}, at |-> now]
  /\ UNCHANGED <<now, file, keys, key>>

(* The relay stops, fails to listen or dies, at any moment.                            *)
Down ==
  /\ up # "down" /\ up' = "down" /\ key' = 0 /\ zone' = {} /\ serial' = 0 /\ signed' = NoZone
  /\ UNCHANGED <<now, file, keys, exported>>

(* Somebody damages or restores the file while the relay is down.                      *)
FileDamaged == /\ up = "down" /\ file \notin {0, Bad} /\ file' = Bad
               /\ UNCHANGED <<up, now, keys, key, exported, zone, serial, signed>>
FileRestored == /\ up = "down" /\ file = Bad /\ exported # 0 /\ file' = exported
                /\ UNCHANGED <<up, now, keys, key, exported, zone, serial, signed>>

-----------------------------------------------------------------------------
(* EnsureAddressRecords, EnsureTXTRecord, DeleteTXTRecords and CleanUp: the serial     *)
(* moves when the records do.  Mutant: only with the clock.                            *)
BumpedByClock(s) == IF now > s THEN now ELSE s
NextSerial(s) == Bumped(s)

Update(z) ==
  /\ up = "up" /\ z # zone /\ serial < MaxSerial
  /\ zone' = z /\ serial' = NextSerial(serial)
  /\ UNCHANGED <<up, now, file, keys, key, exported, signed>>

(* The snapshot may still be used.  Mutant: until the signatures are due.               *)
UsableForward == signed # NoZone /\ signed.serial = serial /\ now < signed.at + Refresh
Usable ==
  /\ signed # NoZone /\ signed.serial = serial
  /\ now < signed.at + Refresh /\ now + Skew >= signed.at

(* signedZone before an answer; a failed signature leaves the old one and is SERVFAIL.  *)
Answer ==
  /\ up = "up" /\ ~Usable /\ signed' = [serial |-> serial, zone |-> zone, at |-> now]
  /\ UNCHANGED <<up, now, file, keys, key, exported, zone, serial>>

Next ==
  \/ ClockMoves \/ Generate \/ Publish \/ Load \/ New \/ Down \/ FileDamaged \/ FileRestored
  \/ (\E z \in SUBSET Content : Update(z)) \/ Answer

Spec == Init /\ [][Next]_vars

TypeOK ==
  /\ up \in {"down", "publishing", "loaded", "up"} /\ now \in 1 .. MaxTime /\ file \in 0 .. Bad
  /\ keys \in 0 .. MaxKeys /\ zone \subseteq Content /\ serial \in 0 .. MaxSerial

(* Whatever snapshot is used for an answer shows the records as they are and carries    *)
(* signatures that are valid at this moment, also after the clock went back.            *)
SnapshotGood ==
  up = "up" /\ Usable =>
    signed.zone = zone /\ now + Skew >= signed.at /\ now < signed.at + Lifetime

(* Once a DS record was given out, the relay serves with that key or not at all: the     *)
(* parent zone trusts it, so a damaged file never leads to another key.                  *)
KeyKept == exported # 0 /\ up = "up" => key = exported

EmbeddedSound == SnapshotGood /\ KeyKept
=============================================================================
