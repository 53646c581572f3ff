----------------------------- MODULE StaticSync -----------------------------
(* How an exposure fills the relays' caches: Source.Run and scan of portal/cache/  *)
(* source.go, Syncer of sync.go and runStaticCache of sdk/listener.go. The site    *)
(* has a set of files that change under way; a manifest holds the version of each. *)
(* What the relay does with an upload is StaticCache.                              *)
EXTENDS Naturals, FiniteSets

CONSTANTS
  Files,
  Syncers,      \* one subscription per relay
  MaxVersion,   \* bound: versions of a file
  MaxScans      \* bound: scans

VARIABLES
  file,         \* the version of each file on disk
  producer,     \* "idle", "scan", "stopped"
  scanning,     \* the versions read so far, 0 for a file not read yet
  scans,        \* generations published
  snapshot,     \* the current generation: its manifest, or the error that ended the scan
  wake,         \* s.wake holds a token
  stopped,      \* the exposure's context is over
  limits,       \* subscribed syncers
  syncer,       \* where each one is
  seen,         \* the generation it last took, 0 for none
  manifest,     \* that generation
  waits,        \* the generation whose change it waits for
  sent,         \* the versions uploaded so far
  relay,        \* what each relay publishes
  scanned       \* history: the manifests the producer published

vars == <<file, producer, scanning, scans, snapshot, wake, stopped, limits, syncer, seen,
          manifest, waits, sent, relay, scanned>>

sourceVars == <<producer, scanning, scans, snapshot, scanned>>
Empty == [f \in Files |-> 0]
NoSnapshot == [err |-> FALSE, files |-> Empty]
Complete(m) == \A f \in Files : m[f] # 0

Init ==
  /\ file = [f \in Files |-> 1] /\ producer = "idle" /\ scanning = Empty /\ scans = 0
  /\ snapshot = NoSnapshot /\ wake = FALSE /\ stopped = FALSE /\ limits = {}
  /\ syncer = [s \in Syncers |-> "none"] /\ seen = [s \in Syncers |-> 0]
  /\ manifest = [s \in Syncers |-> NoSnapshot] /\ waits = [s \in Syncers |-> 0]
  /\ sent = [s \in Syncers |-> Empty] /\ relay = [s \in Syncers |-> Empty] /\ scanned = {}

FileChanges(f) ==
  /\ file[f] < MaxVersion /\ file' = [file EXCEPT ![f] = @ + 1]
  /\ UNCHANGED <<sourceVars, wake, stopped, limits, syncer, seen, manifest, waits, sent, relay>>

-----------------------------------------------------------------------------
(* Source.Run *)

\* The ticker or the wake token; without a subscriber there is nothing to scan.
RunWakes ==
  /\ producer = "idle" /\ ~stopped /\ scans < MaxScans
  /\ (wake /\ wake' = FALSE) \/ UNCHANGED wake
  /\ producer' = (IF limits = {} THEN "idle" ELSE "scan") /\ scanning' = Empty
  /\ UNCHANGED <<file, scans, snapshot, scanned, stopped, limits, syncer, seen, manifest, waits,
                 sent, relay>>

ScanFile(f) ==
  /\ producer = "scan" /\ scanning[f] = 0 /\ scanning' = [scanning EXCEPT ![f] = file[f]]
  /\ UNCHANGED <<file, producer, scans, snapshot, scanned, wake, stopped, limits, syncer, seen,
                 manifest, waits, sent, relay>>

\* The walk is over or has failed; the new generation wakes everyone.
Publish ==
  /\ producer = "scan" /\ ~stopped /\ producer' = "idle" /\ scans' = scans + 1
  /\ \/ /\ Complete(scanning) /\ snapshot' = [err |-> FALSE, files |-> scanning]
        /\ scanned' = scanned \cup {scanning}
     \/ snapshot' = [err |-> TRUE, files |-> Empty] /\ UNCHANGED scanned
  /\ UNCHANGED <<file, scanning, wake, stopped, limits, syncer, seen, manifest, waits, sent, relay>>

RunStops ==
  /\ stopped /\ producer # "stopped" /\ producer' = "stopped"
  /\ UNCHANGED <<file, scanning, scans, snapshot, scanned, wake, stopped, limits, syncer, seen,
                 manifest, waits, sent, relay>>

Stop ==
  /\ ~stopped /\ stopped' = TRUE
  /\ UNCHANGED <<file, sourceVars, wake, limits, syncer, seen, manifest, waits, sent, relay>>

-----------------------------------------------------------------------------
(* Syncer *)

At(s, place) == syncer' = [syncer EXCEPT ![s] = place]

\* Mutant: a subscription never wakes the producer.
NoWake == wake

Woken == wake \/ scans = 0 \/ snapshot.err

Subscribe(s) ==
  /\ syncer[s] = "none" /\ ~stopped /\ At(s, "next") /\ limits' = limits \cup {s}
  /\ wake' = Woken
  /\ UNCHANGED <<file, sourceVars, stopped, seen, manifest, waits, sent, relay>>

\* Mutant: the channel is read after the generation, by a second lock.
WaitsLater(s) == waits' = [waits EXCEPT ![s] = MaxScans]

WaitsForChange(s) == waits' = [waits EXCEPT ![s] = scans]

NextSnapshot(s) ==
  /\ syncer[s] = "next" /\ ~stopped
  /\ IF scans # 0 /\ seen[s] # scans
     THEN /\ seen' = [seen EXCEPT ![s] = scans] /\ manifest' = [manifest EXCEPT ![s] = snapshot]
          /\ At(s, "check") /\ UNCHANGED waits
     ELSE WaitsForChange(s) /\ At(s, "wait") /\ UNCHANGED <<seen, manifest>>
  /\ UNCHANGED <<file, sourceVars, wake, stopped, limits, sent, relay>>

Changed(s) ==
  /\ syncer[s] = "wait" /\ scans > waits[s] /\ At(s, "next")
  /\ UNCHANGED <<file, sourceVars, wake, stopped, limits, seen, manifest, waits, sent, relay>>

\* The POST: the relay has this snapshot, or drops what the lease has published.
Check(s) ==
  /\ syncer[s] = "check" /\ ~manifest[s].err
  /\ IF relay[s] = manifest[s].files
     THEN At(s, "next") /\ UNCHANGED <<relay, sent>>
     ELSE /\ At(s, "upload") /\ sent' = [sent EXCEPT ![s] = Empty]
          /\ relay' = [relay EXCEPT ![s] = Empty]
  /\ UNCHANGED <<file, sourceVars, wake, stopped, limits, seen, manifest, waits>>

\* A file is read when its part is written.
SendFile(s, f) ==
  /\ syncer[s] = "upload" /\ sent[s][f] = 0 /\ sent' = [sent EXCEPT ![s][f] = file[f]]
  /\ UNCHANGED <<file, sourceVars, wake, stopped, limits, syncer, seen, manifest, waits, relay>>

\* Mutant: the relay does not compare what arrives with the digests of the manifest.
AcceptsAny(s) == Complete(sent[s])

Accepts(s) == sent[s] = manifest[s].files

Uploaded(s) ==
  /\ syncer[s] = "upload" /\ Accepts(s) /\ At(s, "next")
  /\ relay' = [relay EXCEPT ![s] = sent[s]]
  /\ UNCHANGED <<file, sourceVars, wake, stopped, limits, seen, manifest, waits, sent>>

\* 503 or a rate limit: the generation is tried again and the relay keeps what it has.
Transient(s) ==
  /\ syncer[s] \in {"check", "upload"} /\ ~manifest[s].err
  /\ At(s, "next") /\ seen' = [seen EXCEPT ![s] = 0]
  /\ UNCHANGED <<file, sourceVars, wake, stopped, limits, manifest, waits, sent, relay>>

\* Any other failure: the DELETE may fail as well, and the content is left to expire.
Permanent(s) ==
  /\ syncer[s] \in {"check", "upload"} /\ At(s, "next")
  /\ relay' \in {relay, [relay EXCEPT ![s] = Empty]}
  /\ UNCHANGED <<file, sourceVars, wake, stopped, limits, seen, manifest, waits, sent>>

\* The listener's context or the source is over; so is the lease.
SyncerEnds(s) ==
  /\ syncer[s] \in {"next", "wait", "check", "upload"} /\ stopped
  /\ At(s, "done") /\ limits' = limits \ {s}
  /\ UNCHANGED <<file, sourceVars, wake, stopped, seen, manifest, waits, sent, relay>>

SyncerSteps(s) ==
  \/ NextSnapshot(s) \/ Changed(s) \/ Check(s) \/ Uploaded(s) \/ SyncerEnds(s)
  \/ \E f \in Files : SendFile(s, f)

Next ==
  \/ RunWakes \/ Publish \/ RunStops \/ Stop
  \/ \E f \in Files : FileChanges(f) \/ ScanFile(f)
  \/ \E s \in Syncers : Subscribe(s) \/ SyncerSteps(s) \/ Transient(s) \/ Permanent(s)

\* A wake token is taken.
TakesWake == RunWakes /\ wake

Spec == Init /\ [][Next]_vars

TypeOK ==
  /\ producer \in {"idle", "scan", "stopped"} /\ limits \subseteq Syncers
  /\ syncer \in [Syncers -> {"none", "next", "wait", "check", "upload", "done"}]
  /\ file \in [Files -> 1..MaxVersion] /\ relay \in [Syncers -> [Files -> 0..MaxVersion]]

(* A relay publishes only whole snapshots the producer scanned: files that change  *)
(* between the scan and the upload never make a mixture.                           *)
OnlyScanned == \A s \in Syncers : relay[s] # Empty => relay[s] \in scanned

(* No generation is missed: a syncer that waits has taken the current one or its   *)
(* channel is closed, and before the first scan the producer has been woken.       *)
NoMissedGeneration ==
  /\ \A s \in Syncers : syncer[s] = "wait" => seen[s] = scans \/ scans > waits[s]
  /\ (limits # {} /\ scans = 0 /\ ~stopped) => wake \/ producer = "scan"

(* A subscription that waits for its first generation, while the producer goes on. *)
Unserved ==
  \E s \in Syncers : syncer[s] # "none" /\ seen[s] = 0 /\ ~stopped /\ scans < MaxScans
=============================================================================
