------------------------------- MODULE AppAuth -------------------------------
(* The sign-in gate of an application (sdk/appauth, internal/siweauth): wallet          *)
(* challenges, access credentials, OpenID Connect and SAML logins, the session cookie    *)
(* they end in, and the check of every request.  A gate runs one provider; a restart      *)
(* builds a new gate from the same identity and possibly other settings, and sessions      *)
(* outlive it.  Cookies and answers may be presented again, late, or at another host.       *)
(* The email provider, with the requests of its sessions, is EmailLogin.                    *)
(* Signatures are not forged: what is presented was issued.                                *)
EXTENDS Integers, FiniteSets

CONSTANTS
  Accounts, Hosts,
  Settings,        \* [provider, allow, binding] a gate is built from
  Domain,          \* accounts whose email is in the domain an @domain entry names
  SessionTTL, MinSessionTTL, LoginTTL, ChallengeTTL, Leeway, ReplayLimit,
  MaxTime, MaxRestarts, MaxIssued

VARIABLES
  now, gate, instance,
  issued,          \* challenges, credentials, login states and provider answers
  replay,          \* samlReplaySet: assertion and the end of its login state
  spent,           \* authorization codes the OIDC provider has exchanged
  cookies,         \* session cookies
  signins,         \* history: the sign-ins that happened
  last             \* the request at hand

vars == <<now, gate, instance, issued, replay, spent, cookies, signins, last>>

None == [at |-> "none"]
IsProvider(p) == gate.provider = p

Init ==
  /\ now = 0 /\ gate \in Settings /\ instance = 1 /\ issued = {} /\ replay = {} /\ spent = {}
  /\ cookies = {} /\ signins = {} /\ last = None

Room == Cardinality(issued) < MaxIssued
Fresh == Cardinality(issued) + 1
signinVars == <<now, gate, instance, issued, last>>

-----------------------------------------------------------------------------
(* Principals and the allowlist                                                        *)

(* subjectAllowed: exact entries, and for an email the entry of its domain.  A sub:      *)
(* subject matches its own entry only.                                                   *)
subjectAllowed(subject) ==
  \/ gate.allow = {} /\ gate.provider \in {"siwe", "credential"}
  \/ subject \in gate.allow
  \/ /\ gate.provider \in {"oidc", "saml"} /\ subject.kind = "email" /\ subject.who \in Domain
     /\ [kind |-> "domain", who |-> "all"] \in gate.allow

(* vouchedEmail.  Mutant: the email claim counts without email_verified.                 *)
AnyEmail(answer) == answer.claim # "none"
vouchedEmail(answer) == answer.claim = "verified" \/ (answer.claim = "unverified" /\ gate.provider = "saml")

Email(who) == [kind |-> "email", who |-> who]
Sub(who) == [kind |-> "sub", who |-> who]
resolveAllowedPrincipal(answer) ==
  CASE vouchedEmail(answer) /\ subjectAllowed(Email(answer.who)) -> {Email(answer.who)}
    [] OTHER -> IF subjectAllowed(Sub(answer.who)) THEN {Sub(answer.who)} ELSE {}

-----------------------------------------------------------------------------
(* setSession, and what it records for the properties                                    *)

Binding == IF gate.provider \in {"oidc", "saml"} THEN gate.binding ELSE 0
SetSession(subject, host, exp, proof) ==
  /\ cookies' = cookies \cup {[provider |-> gate.provider, subject |-> subject, host |-> host, exp |-> exp,
                               binding |-> Binding]}
  /\ signins' = signins \cup {[provider |-> gate.provider, subject |-> subject, host |-> host, exp |-> exp,
                               binding |-> gate.binding, at |-> now, instance |-> instance, proof |-> proof]}

MinOf(a, b) == IF a < b THEN a ELSE b
MaxOf(a, b) == IF a < b THEN b ELSE a
Lifetime(until) == MinOf(MaxOf(until - now, MinSessionTTL), SessionTTL)

(* The challenge is signed with the key of this gate.                                     *)
Issue(who, host) == [kind |-> "challenge", id |-> Fresh, by |-> instance, who |-> who, host |-> host, exp |-> now + ChallengeTTL]

ServeChallenge(who, host) ==
  /\ IsProvider("siwe") /\ subjectAllowed([kind |-> "addr", who |-> who]) /\ Room
  /\ issued' = issued \cup {Issue(who, host)}
  /\ UNCHANGED <<now, gate, instance, replay, spent, cookies, signins, last>>

(* The key of the challenge is of this gate.  Mutant: a challenge of an earlier gate is      *)
(* taken.                                                                                     *)
AnyGate(t) == TRUE
ThisGate(t) == t.by = instance

(* The challenge comes back with the signature of its wallet.                                *)
Verify(t, host) == ThisGate(t) /\ now <= t.exp /\ t.host = host /\ subjectAllowed([kind |-> "addr", who |-> t.who])

ServeVerify(t, host) ==
  /\ IsProvider("siwe") /\ t.kind = "challenge" /\ Verify(t, host)
  /\ SetSession([kind |-> "addr", who |-> t.who], host, now + SessionTTL, t)
  /\ UNCHANGED <<replay, spent>> /\ UNCHANGED signinVars

(* The operator issues a credential from the identity of the tunnel.                        *)
IssueCredential(who, host, exp) ==
  /\ Room /\ exp > now
  /\ issued' = issued \cup {[kind |-> "credential", id |-> Fresh, who |-> who, host |-> host, exp |-> exp]}
  /\ UNCHANGED <<now, gate, instance, replay, spent, cookies, signins, last>>

verifyApplicationCredential(t, host) == t.kind = "credential" /\ t.host = host /\ now < t.exp
CredentialHolds(t, host) ==
  IsProvider("credential") /\ verifyApplicationCredential(t, host) /\ subjectAllowed([kind |-> "name", who |-> t.who])

(* serveRedeem: a session does not outlive the credential.  Mutant: it does.                *)
OwnLifetime(t) == now + SessionTTL
RedeemedUntil(t) == MinOf(t.exp, now + SessionTTL)

ServeRedeem(t, host) ==
  /\ CredentialHolds(t, host)
  /\ SetSession([kind |-> "name", who |-> t.who], host, RedeemedUntil(t), t)
  /\ UNCHANGED <<replay, spent>> /\ UNCHANGED signinVars

(* serveLogin of OpenID Connect and SAML: the state of the login goes into a signed cookie   *)
(* and its nonce or request id to the provider.                                              *)
StartLogin(host) ==
  /\ Room
  /\ issued' = issued \cup {[kind |-> "login", id |-> Fresh, provider |-> gate.provider, host |-> host,
                             exp |-> now + LoginTTL, binding |-> gate.binding]}
  /\ UNCHANGED <<now, gate, instance, replay, spent, cookies, signins, last>>

ServeOIDCLogin(host) == IsProvider("oidc") /\ StartLogin(host)
ServeSAMLLogin(host) == IsProvider("saml") /\ StartLogin(host)

(* The provider answers a login for an account: an ID token, or a signed assertion.           *)
ProviderAnswers(login, who, claim, until) ==
  /\ login.kind = "login" /\ Room
  /\ issued' = issued \cup {[kind |-> "answer", id |-> Fresh, of |-> login.id, provider |-> login.provider,
                             binding |-> login.binding, who |-> who, claim |-> claim,
                             until |-> until]}
  /\ UNCHANGED <<now, gate, instance, replay, spent, cookies, signins, last>>

(* The cookie of the login is checked before the answer is looked at.                          *)
StateHolds(login, host) == login.provider = gate.provider /\ login.host = host /\ now < login.exp

(* The answer is for this login: state and nonce, or InResponseTo.                             *)
(* Mutant: an answer to any login is taken.                                                    *)
AnswersAny(login, answer) == TRUE
AnswersThis(login, answer) == answer.of = login.id

(* The provider exchanges a code once.  The token is of the issuer and client of the gate, and   *)
(* not expired but for the leeway.                                                               *)
Exchanged(answer) == answer.id \notin spent /\ spent' = spent \cup {answer.id}
verifyIDToken(answer) == answer.binding = gate.binding /\ now < answer.until + Leeway

ServeOIDCCallback(login, answer, host) ==
  /\ IsProvider("oidc") /\ login.kind = "login" /\ answer.kind = "answer" /\ answer.provider = "oidc"
  /\ StateHolds(login, host) /\ AnswersThis(login, answer)
  /\ Exchanged(answer)
  /\ IF verifyIDToken(answer) /\ resolveAllowedPrincipal(answer) # {}
     THEN \E subject \in resolveAllowedPrincipal(answer) :
            SetSession(subject, host, now + Lifetime(answer.until), answer)
     ELSE UNCHANGED <<cookies, signins>>
  /\ UNCHANGED replay /\ UNCHANGED signinVars

(* samlReplaySet.claim: an assertion is remembered until the login it answers has expired.       *)
(* Mutant: entries are kept only until the assertion expires.            *)
UntilAssertion(login, answer) == answer.until
RememberUntil(login, answer) == login.exp

Kept == {r \in replay : now < r.until}
Claimed(login, answer) ==
  LET seen == IF Cardinality(replay) >= ReplayLimit THEN Kept ELSE replay
  IN IF Cardinality(seen) >= ReplayLimit THEN replay
     ELSE {r \in seen : r.id # answer.id} \cup {[id |-> answer.id, until |-> RememberUntil(login, answer)]}

(* serveSAMLACS and verify: the assertion is for this login, within its conditions, and         *)
(* claimed; then its subject must be allowed.  The session lasts as SessionNotOnOrAfter says,     *)
(* within the limits, or the full time.                                                          *)
checkSAMLConditions(answer) == answer.binding = gate.binding /\ now < answer.until + Leeway
VerifiedAssertion(login, answer) ==
  AnswersThis(login, answer) /\ checkSAMLConditions(answer) /\ answer.id \notin {r.id : r \in Kept}

ServeSAMLACS(login, answer, host) ==
  /\ IsProvider("saml") /\ login.kind = "login" /\ answer.kind = "answer" /\ answer.provider = "saml"
  /\ StateHolds(login, host) /\ VerifiedAssertion(login, answer)
  /\ replay' = Claimed(login, answer)
  /\ IF Claimed(login, answer) # replay /\ resolveAllowedPrincipal(answer) # {}
     THEN \E subject \in resolveAllowedPrincipal(answer), lifetime \in {Lifetime(now), SessionTTL} :
            SetSession(subject, host, now + lifetime, answer)
     ELSE UNCHANGED <<cookies, signins>>
  /\ UNCHANGED spent /\ UNCHANGED signinVars

ServeLogout(c) ==
  /\ cookies' = cookies \ {c}
  /\ UNCHANGED <<now, gate, instance, issued, replay, spent, signins, last>>

-----------------------------------------------------------------------------
(* A request for the application                                                         *)

(* The session is one of this provider.  Mutant: a session of another provider is taken.   *)
AnyProvider(c) == TRUE
SameProvider(c) == c.provider = gate.provider

(* The session is of the same issuer and client, or of the same SAML settings.             *)
(* Mutant: any session of the provider is taken.                                           *)
AnyBinding(c) == TRUE
SameBinding(c) == gate.provider \in {"oidc", "saml"} => c.binding = gate.binding

authenticateSession(c, host) ==
  c.host = host /\ now < c.exp /\ SameProvider(c) /\ SameBinding(c) /\ subjectAllowed(c.subject)

(* A cross-origin write with a session cookie is refused.                                   *)
ServeHTTP(c, host, crossOriginWrite) ==
  /\ last = None
  /\ last' = CASE ~authenticateSession(c, host) -> [at |-> "login"]
               [] authenticateSession(c, host) /\ crossOriginWrite -> [at |-> "refused"]
               [] OTHER -> [at |-> "app", host |-> host, subject |-> c.subject, write |-> crossOriginWrite]
  /\ UNCHANGED <<now, gate, instance, issued, replay, spent, cookies, signins>>

(* A credential in the request header.                                                       *)
ServeCredential(t, host) ==
  /\ last = None /\ t.kind = "credential"
  /\ last' = IF CredentialHolds(t, host) THEN [at |-> "app", host |-> host, subject |-> [kind |-> "name", who |-> t.who],
                                               write |-> FALSE]
             ELSE [at |-> "login"]
  /\ UNCHANGED <<now, gate, instance, issued, replay, spent, cookies, signins>>

Respond == last # None /\ last' = None /\ UNCHANGED <<now, gate, instance, issued, replay, spent, cookies, signins>>

(* The tunnel starts again, with the same identity.                                          *)
Restart(settings) ==
  /\ last = None /\ instance <= MaxRestarts /\ instance' = instance + 1 /\ gate' = settings /\ replay' = {}
  /\ UNCHANGED <<now, issued, spent, cookies, signins, last>>

Tick == last = None /\ now < MaxTime /\ now' = now + 1 /\ UNCHANGED <<gate, instance, issued, replay, spent, cookies, signins, last>>

Next ==
  \/ Tick \/ Respond
  \/ \E s \in Settings : Restart(s)
  \/ last = None /\ \E who \in Accounts, host \in Hosts : \/ ServeChallenge(who, host)
                                                          \/ \E exp \in {now + 1, MaxTime} : IssueCredential(who, host, exp)
  \/ last = None /\ \E host \in Hosts : \/ ServeOIDCLogin(host) \/ ServeSAMLLogin(host)
                                        \/ \E t \in issued : ServeVerify(t, host) \/ ServeRedeem(t, host)
                                        \/ \E l \in issued, a \in issued : ServeOIDCCallback(l, a, host) \/ ServeSAMLACS(l, a, host)
  \/ last = None /\ \E l \in issued, who \in Accounts, claim \in {"none", "unverified", "verified"}, until \in {now + 1, MaxTime} :
       ProviderAnswers(l, who, claim, until)
  \/ \E c \in cookies : ServeLogout(c) \/ \E host \in Hosts, write \in BOOLEAN : ServeHTTP(c, host, write)
  \/ \E t \in issued, host \in Hosts : ServeCredential(t, host)

Spec == Init /\ [][Next]_vars

-----------------------------------------------------------------------------
TypeOK ==
  /\ now \in 0 .. MaxTime /\ gate \in Settings /\ instance \in 1 .. MaxRestarts + 1
  /\ \A t \in issued : t.kind \in {"challenge", "credential", "login", "answer"}
  /\ \A c \in cookies : c.host \in Hosts /\ c.exp > 0
  /\ last.at \in {"none", "login", "refused", "app"} /\ Cardinality(replay) <= ReplayLimit

(* What the allowlist says of an account that proved itself as p: only an email the provider    *)
(* vouches for matches an email or a domain entry.                                              *)
Permits(p) ==
  \/ gate.allow = {} /\ gate.provider \in {"siwe", "credential"}
  \/ p.kind = "challenge" /\ [kind |-> "addr", who |-> p.who] \in gate.allow
  \/ p.kind = "credential" /\ [kind |-> "name", who |-> p.who] \in gate.allow
  \/ /\ p.kind = "answer"
     /\ \/ Sub(p.who) \in gate.allow
        \/ /\ (p.claim = "verified" \/ (p.claim = "unverified" /\ p.provider = "saml"))
           /\ Email(p.who) \in gate.allow \/ ([kind |-> "domain", who |-> "all"] \in gate.allow /\ p.who \in Domain)

(* A request that reaches the application is of a visitor who proved the account named to it, at   *)
(* this host, with the provider and the settings the gate has now, within the session's time, and   *)
(* whom the list of the gate still permits - whatever sessions of earlier gates there are.          *)
AdmittedProved ==
  last.at = "app" =>
    /\ ~last.write
    /\ \/ \E s \in signins : /\ s.host = last.host /\ s.subject = last.subject /\ s.provider = gate.provider
                             /\ gate.provider \in {"oidc", "saml"} => s.binding = gate.binding
                             /\ now < s.exp /\ s.exp <= s.at + MaxOf(SessionTTL, MinSessionTTL)
                             /\ s.proof.who = last.subject.who /\ Permits(s.proof)
       \/ \E t \in issued : /\ t.kind = "credential" /\ t.host = last.host /\ t.who = last.subject.who /\ now < t.exp
                            /\ gate.provider = "credential" /\ Permits(t)

(* An answer of a provider signs in once per gate, for the login it answers and at the host of      *)
(* that login.  A wallet challenge may be presented again while it lives, but only at the gate and     *)
(* the host it was issued for.  A session of a credential ends with it.                                *)
ProofsFit ==
  /\ \A s, t \in signins : s.proof.kind = "answer" /\ s.proof = t.proof /\ s.instance = t.instance => s = t
  /\ \A s \in signins :
       CASE s.proof.kind = "answer" -> \E l \in issued : l.kind = "login" /\ l.id = s.proof.of /\ l.host = s.host
         [] s.proof.kind = "challenge" -> s.proof.by = s.instance /\ s.proof.host = s.host /\ s.at <= s.proof.exp
         [] OTHER -> s.exp <= s.proof.exp

AuthSound == AdmittedProved /\ ProofsFit
=============================================================================
