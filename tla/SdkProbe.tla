------------------------------ MODULE SdkProbe ------------------------------
(* TLS interception checks of an SDK listener (sdk/mitm.go).  The listener      *)
(* probes itself: it dials its own public name, and the connection comes back   *)
(* through the relay to maybeHandleConn, where the keying material of both      *)
(* ends is compared under the probe's nonce.  A client of a canonical name can  *)
(* ask the same of one connection (VerifyTLSChannelBinding).  The relay is      *)
(* external: it passes TLS through or ends it.                                  *)
EXTENDS Naturals

CONSTANT MaxProbes   \* bound: probes the listener starts

VARIABLES
  relay,      \* [relay] "passes" or "ends" the TLS sessions it carries
  prober,     \* where probeTLSPassthrough is
  probeNo,    \* the current probe: its nonce
  pending,    \* m.pending: nonce -> whether attachExpected has armed it
  sent,       \* probes whose frame is written
  result,     \* resultCh of each probe
  verdict,    \* what each probe reported
  probeConn,  \* where the reverse end of each probe's connection is
  sniff,      \* probe connections that found a probe pending in maybeHandleConn
  client,     \* where VerifyTLSChannelBinding is
  bindConn,   \* where the reverse end of that connection is
  answer,     \* the answer the client reads
  fired,      \* the client's context callback has set a deadline in the past
  leased      \* the listener holds a lease

probeVars == <<prober, probeNo, sent, verdict>>
clientVars == <<client, answer, fired>>
vars == <<relay, probeVars, pending, result, probeConn, sniff, clientVars, bindConn, leased>>

Probes == 1..MaxProbes
ConnStates == {"none", "arrived", "looked", "found", "served", "app", "closed"}

TypeOK ==
  /\ relay \in {"passes", "ends"}
  /\ prober \in {"idle", "reserved", "shaken", "armed", "sent"} /\ probeNo \in 0..MaxProbes
  /\ pending \in [Probes -> {"absent", "reserved", "armed"}] /\ sent \subseteq Probes
  /\ result \in [Probes -> {"none", "same", "mismatch"}]
  /\ verdict \in [Probes -> {"none", "same", "mismatch", "timeout"}]
  /\ probeConn \in [Probes -> ConnStates] /\ bindConn \in ConnStates
  /\ sniff \subseteq Probes
  /\ client \in {"idle", "asked", "checked", "returned", "failed"}
  /\ answer \in {"none", "tunnel", "other"} /\ fired \in BOOLEAN /\ leased \in BOOLEAN

Init ==
  /\ relay \in {"passes", "ends"}
  /\ prober = "idle" /\ probeNo = 0
  /\ pending = [p \in Probes |-> "absent"] /\ sent = {}
  /\ result = [p \in Probes |-> "none"] /\ verdict = [p \in Probes |-> "none"]
  /\ probeConn = [p \in Probes |-> "none"] /\ bindConn = "none"
  /\ sniff = {} /\ client = "idle" /\ answer = "none" /\ fired = FALSE /\ leased = TRUE

-----------------------------------------------------------------------------
(* probeTLSPassthrough *)

\* The TCP connection exists: reserveProbe, before the TLS handshake.
Reserve ==
  /\ prober = "idle" /\ probeNo < MaxProbes /\ leased
  /\ probeNo' = probeNo + 1 /\ prober' = "reserved"
  /\ pending' = [pending EXCEPT ![probeNo + 1] = "reserved"]
  /\ UNCHANGED <<relay, sent, verdict, result, probeConn, sniff, clientVars, bindConn, leased>>

\* The reverse end of the handshake completes and admit gets the connection, perhaps
\* before the probing end has returned from its own.
ProbeArrives ==
  /\ prober = "reserved" /\ probeConn[probeNo] = "none"
  /\ probeConn' = [probeConn EXCEPT ![probeNo] = "arrived"]
  /\ UNCHANGED <<relay, probeVars, pending, result, sniff, clientVars, bindConn, leased>>

HandshakeDone ==
  /\ prober = "reserved" /\ (probeConn[probeNo] # "none" \/ relay = "ends")
  /\ prober' = "shaken"
  /\ UNCHANGED <<relay, probeNo, sent, verdict, pending, result, probeConn, sniff, clientVars, bindConn, leased>>

\* Mutant: the frame is written before the reservation is armed.
UnarmedFrame == {"shaken", "armed"}

\* The frame follows attachExpected.
MayWrite == {"armed"}

AttachExpected ==
  /\ prober = "shaken"
  /\ prober' = "armed"
  /\ pending' = [pending EXCEPT ![probeNo] = IF @ = "absent" THEN @ ELSE "armed"]
  /\ UNCHANGED <<relay, probeNo, sent, verdict, result, probeConn, sniff, clientVars, bindConn, leased>>

WriteFrame ==
  /\ prober \in MayWrite /\ probeNo \notin sent
  /\ sent' = sent \cup {probeNo}
  /\ prober' = "sent"
  /\ UNCHANGED <<relay, probeNo, verdict, pending, result, probeConn, sniff, clientVars, bindConn, leased>>

\* A result or the timeout; releaseProbe either way, as after any error before.
ProbeEnds ==
  /\ prober # "idle" /\ prober' = "idle"
  /\ pending' = [pending EXCEPT ![probeNo] = "absent"]
  /\ verdict' = [verdict EXCEPT ![probeNo] =
       IF prober = "sent" /\ result[probeNo] # "none" THEN result[probeNo] ELSE "timeout"]
  /\ UNCHANGED <<relay, probeNo, sent, result, probeConn, sniff, clientVars, bindConn, leased>>

\* clearLease resets the manager.
Reset ==
  /\ leased /\ leased' = FALSE
  /\ pending' = [p \in Probes |-> "absent"]
  /\ UNCHANGED <<relay, probeVars, result, probeConn, sniff, clientVars, bindConn>>

-----------------------------------------------------------------------------
(* maybeHandleConn *)

\* Whether a probe is pending decides how much is peeked.
ProbeLook(p) ==
  /\ probeConn[p] = "arrived"
  /\ probeConn' = [probeConn EXCEPT ![p] = "looked"]
  /\ sniff' = IF \E q \in Probes : pending[q] # "absent" THEN sniff \cup {p} ELSE sniff
  /\ UNCHANGED <<relay, probeVars, pending, result, clientVars, bindConn, leased>>

\* The preamble is complete, or the peek has timed out and the bytes go to the application.
ProbePeek(p) ==
  /\ probeConn[p] = "looked"
  /\ \/ probeConn' = [probeConn EXCEPT ![p] = "app"]
     \/ /\ p \in sent /\ p \in sniff /\ pending[p] # "absent"
        /\ probeConn' = [probeConn EXCEPT ![p] = "found"]
  /\ UNCHANGED <<relay, probeVars, pending, result, sniff, clientVars, bindConn, leased>>

\* Mutant: any keying material completes a probe.
Accepts(p) == TRUE

\* The keying material of this end equals the expected one.
SameExporter(p) == relay = "passes" /\ pending[p] = "armed"

CompleteProbe(p) ==
  /\ probeConn[p] = "found"
  /\ probeConn' = [probeConn EXCEPT ![p] = "closed"]
  /\ result' = IF pending[p] = "absent" \/ result[p] # "none" THEN result
               ELSE [result EXCEPT ![p] = IF SameExporter(p) THEN "same" ELSE "mismatch"]
  /\ UNCHANGED <<relay, probeVars, pending, sniff, clientVars, bindConn, leased>>

-----------------------------------------------------------------------------
(* Channel binding *)

\* The client exports its keying material, writes its request and waits for the answer;
\* the connection reaches the tunnel.
Ask ==
  /\ client = "idle" /\ client' = "asked" /\ bindConn' = "arrived"
  /\ UNCHANGED <<relay, probeVars, pending, result, probeConn, sniff, answer, fired, leased>>

\* serveChannelBindingHandshake: without a lease there is no name to sign; otherwise the
\* tunnel signs name, nonce and its own keying material and the connection goes on.  A
\* peek that times out gives the request to the application.
Serve ==
  /\ bindConn = "arrived"
  /\ \/ bindConn' = "app" /\ UNCHANGED answer
     \/ ~leased /\ bindConn' = "closed" /\ UNCHANGED answer
     \/ /\ leased /\ bindConn' = "served"
        /\ answer' = IF answer = "none" THEN "tunnel" ELSE answer
  /\ UNCHANGED <<relay, probeVars, pending, result, probeConn, sniff, client, fired, leased>>

\* The answer may instead come from somewhere else: an application, or the relay itself.
OtherAnswer ==
  /\ client = "asked" /\ answer = "none" /\ answer' = "other"
  /\ UNCHANGED <<relay, probeVars, pending, result, probeConn, sniff, client, fired, bindConn, leased>>

\* Mutant: the exporters are not compared.
AnyAnswer == answer # "none"

\* Tag, exporter and signature fit: the tunnel answered, on the same TLS session.
AnswerFits == answer = "tunnel" /\ relay = "passes"

Verify ==
  /\ client = "asked" /\ answer # "none"
  /\ client' = IF AnswerFits THEN "checked" ELSE "failed"
  /\ UNCHANGED <<relay, probeVars, pending, result, probeConn, sniff, answer, fired, bindConn, leased>>

\* Mutant: the callback is not asked about.
AlwaysStopped == TRUE

\* stop() reports that the context's callback has not run and never will.
Stopped == ~fired

Return ==
  /\ client = "checked"
  /\ client' = IF Stopped THEN "returned" ELSE "failed"
  /\ UNCHANGED <<relay, probeVars, pending, result, probeConn, sniff, answer, fired, bindConn, leased>>

\* The client's context ends: the callback ends a blocked read.
ContextEnds ==
  /\ client \in {"asked", "checked"} /\ ~fired /\ fired' = TRUE
  /\ UNCHANGED <<relay, probeVars, pending, result, probeConn, sniff, client, answer, bindConn, leased>>

ReadFails ==
  /\ client = "asked" /\ client' = "failed"
  /\ UNCHANGED <<relay, probeVars, pending, result, probeConn, sniff, answer, fired, bindConn, leased>>

Next ==
  \/ Reserve \/ ProbeArrives \/ HandshakeDone \/ AttachExpected \/ WriteFrame \/ ProbeEnds \/ Reset
  \/ \E p \in Probes : ProbeLook(p) \/ ProbePeek(p) \/ CompleteProbe(p)
  \/ Ask \/ Serve \/ OtherAnswer \/ Verify \/ Return \/ ContextEnds \/ ReadFails

Spec == Init /\ [][Next]_vars

-----------------------------------------------------------------------------
(* Properties *)

\* A probe says mismatch only of a relay that ends TLS, and same only of one that passes it
\* through, however the reverse end, the arming and a reset of the manager interleave; a
\* connection handed to a client is the tunnel's own session and has no deadline pending.
ProbeSound ==
  /\ \A p \in Probes : (verdict[p] = "mismatch" => relay = "ends") /\ (verdict[p] = "same" => relay = "passes")
  /\ client = "returned" => relay = "passes" /\ bindConn = "served" /\ ~fired
=============================================================================
