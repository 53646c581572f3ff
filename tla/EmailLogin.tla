------------------------------ MODULE EmailLogin ------------------------------
(* Sign-in by mailed links (sdk/appauth/email.go): limits on sends, the slots of the SMTP   *)
(* conversations, links that work once and only at their host, the sessions they end in, and  *)
(* the requests of those sessions (authenticateSession of sdk/appauth/appauth.go, as it is     *)
(* for this provider).  The public URLs of the tunnel change while it runs: an alias may be    *)
(* lost and won again.  Sessions outlive a restart, which may come with other settings.        *)
EXTENDS Integers, FiniteSets

CONSTANTS
  Emails, Hosts,
  Aliases,         \* hosts the tunnel may lose
  Gates,           \* settings: [allow, binding] with the allowed emails, "domain" for the @domain
                   \* entry of all of them, and the mail server with its user and sender
  LinkTTL, SessionTTL, Cooldown, Hour, AddressLimit, DomainLimit, Slots,
  MaxTime, MaxSends, MaxRestarts

VARIABLES
  now, gate, instance, public,
  links, sent, slots,
  mailed,          \* links in the mailboxes
  opened,          \* history: links whose redemption was tried
  sessions,        \* the sessions given, each with what held then
  sends,           \* history: the sends of this gate
  last             \* the request at hand

vars == <<now, gate, instance, public, links, sent, slots, mailed, opened, sessions, sends, last>>

None == [at |-> "none"]

Init ==
  /\ now = 0 /\ gate \in Gates /\ instance = 1 /\ public = Hosts /\ links = {} /\ sent = {} /\ slots = {}
  /\ mailed = {} /\ opened = {} /\ sessions = {} /\ sends = {} /\ last = None

subjectAllowed(email) == email \in gate.allow \/ "domain" \in gate.allow
Listed(email) == email \in gate.allow

(* Sends older than an hour are forgotten.  Mutant: only the last cooldown is remembered.     *)
RecentOnly == {s \in sent : s.at > now - Cooldown}
Recent == {s \in sent : s.at > now - Hour}

(* A conversation with the mail server needs a slot.  Mutant: it does not.                      *)
SlotAlways == TRUE
SlotFree == Cardinality(slots) < Slots

(* admit: the limits first, the slot last.                                                    *)
Admit(email) ==
  LET own == {s \in Recent : s.email = email} IN
  /\ \A s \in own : now - s.at >= Cooldown
  /\ Cardinality(own) < AddressLimit
  /\ Listed(email) \/ Cardinality({s \in Recent : ~s.listed}) < DomainLimit
  /\ SlotFree

(* serveEmailRequest, issue and send: a link for a public host, mailed by a conversation that   *)
(* owns a slot.  Refused and unlisted addresses get the same answer and change nothing but       *)
(* the forgotten sends.                                                                          *)
ServeEmailRequest(email, host) ==
  /\ host \in public /\ subjectAllowed(email) /\ Cardinality(sends) < MaxSends
  /\ IF Admit(email)
     THEN LET send == [email |-> email, listed |-> Listed(email), at |-> now]
              link == [id |-> <<instance, Cardinality(sends)>>, email |-> email, host |-> host, exp |-> now + LinkTTL]
          IN /\ sent' = Recent \cup {send} /\ sends' = sends \cup {send}
             /\ links' = {l \in links : now < l.exp} \cup {link}
             /\ slots' = slots \cup {[link |-> link, at |-> now]}
     ELSE sent' = Recent /\ UNCHANGED <<links, slots, sends>>
  /\ UNCHANGED <<now, gate, instance, public, mailed, opened, sessions, last>>

(* deliver, or its failure; either way the slot is given back.                                   *)
ConversationEnds(c, taken) ==
  /\ c \in slots /\ slots' = slots \ {c}
  /\ mailed' = IF taken THEN mailed \cup {c.link} ELSE mailed
  /\ UNCHANGED <<now, gate, instance, public, links, sent, opened, sessions, sends, last>>

(* redeem forgets the link it finds.  Mutant: a link is forgotten only when it signs in.          *)
KeepUnused(link, ok) == IF ok THEN links \ {link} ELSE links
Forget(link, ok) == links \ {link}

(* The host is asked again when the link is opened, and at every request of the session.         *)
(* Mutant: it is not.                                                                              *)
AnyHost(host) == TRUE
PublicHost(host) == host \in public

(* serveEmailRedeem.                                                                              *)
ServeEmailRedeem(link, host) ==
  /\ PublicHost(host)
  /\ LET ok == link \in links /\ now < link.exp /\ link.host = host
         signsIn == ok /\ subjectAllowed(link.email)
     IN /\ links' = Forget(link, signsIn)
        /\ opened' = opened \cup {link.id}
        /\ sessions' = IF ~signsIn THEN sessions
                       ELSE sessions \cup {[link |-> link, host |-> host, at |-> now, exp |-> now + SessionTTL, binding |-> gate.binding,
                                         again |-> link.id \in opened, public |-> host \in public]}
  /\ UNCHANGED <<now, gate, instance, public, sent, slots, mailed, sends, last>>

(* authenticateSession: the cookie of a session is presented, at any host.                          *)
authenticateSession(c, host) ==
  c.host = host /\ now < c.exp /\ PublicHost(host) /\ c.binding = gate.binding /\ subjectAllowed(c.link.email)

ServeHTTP(c, host) ==
  /\ last' = IF authenticateSession(c, host) THEN [at |-> "app", host |-> host, subject |-> c.link.email]
             ELSE [at |-> "login"]
  /\ UNCHANGED <<now, gate, instance, public, links, sent, slots, mailed, opened, sessions, sends>>

Respond ==
  last # None /\ last' = None /\ UNCHANGED <<now, gate, instance, public, links, sent, slots, mailed, opened, sessions, sends>>

(* An alias is lost, or won.                                                                       *)
HostsChange(hosts) ==
  /\ public' = hosts /\ hosts # public
  /\ UNCHANGED <<now, gate, instance, links, sent, slots, mailed, opened, sessions, sends, last>>

(* A restarted tunnel has forgotten its links and sends.                                             *)
Restart(settings) ==
  /\ instance <= MaxRestarts /\ instance' = instance + 1 /\ gate' = settings
  /\ links' = {} /\ sent' = {} /\ slots' = {} /\ sends' = {}
  /\ UNCHANGED <<now, public, mailed, opened, sessions, last>>

Tick == now < MaxTime /\ now' = now + 1 /\ UNCHANGED <<gate, instance, public, links, sent, slots, mailed, opened, sessions, sends, last>>

Next ==
  \/ Respond
  \/ /\ last = None
     /\ \/ Tick
        \/ \E email \in Emails, host \in Hosts : ServeEmailRequest(email, host)
        \/ \E c \in slots, taken \in BOOLEAN : ConversationEnds(c, taken)
        \/ \E l \in mailed, host \in Hosts : ServeEmailRedeem(l, host)
        \/ \E c \in sessions, host \in Hosts : ServeHTTP(c, host)
        \/ \E a \in Aliases : HostsChange(public \cup {a}) \/ HostsChange(public \ {a})
        \/ \E settings \in Gates : Restart(settings)

Spec == Init /\ [][Next]_vars

-----------------------------------------------------------------------------
TypeOK ==
  /\ now \in 0 .. MaxTime /\ gate \in Gates /\ public \subseteq Hosts /\ sent \subseteq sends
  /\ \A l \in links \cup mailed : l.email \in Emails /\ l.host \in Hosts
  /\ Cardinality(slots) <= Slots /\ last.at \in {"none", "login", "app"}

(* In any hour an address gets at most its limit of mails, never two within the cooldown, and        *)
(* addresses that only a domain entry allows share the domain limit.                                  *)
SendsLimited ==
  \A s \in sends :
    LET before == {t \in sends : t.at <= s.at /\ t.at > s.at - Hour} IN
    /\ \A t \in before \ {s} : t.email = s.email => s.at - t.at >= Cooldown
    /\ Cardinality({t \in before : t.email = s.email}) <= AddressLimit
    /\ ~s.listed => Cardinality({t \in before : ~t.listed}) <= DomainLimit

(* A link is opened with effect once: no session follows an earlier opening of it, whatever that      *)
(* one came to, and it signs in only at the host it was mailed for, while the tunnel has that host.    *)
LinkWorksOnce ==
  \A s \in sessions : ~s.again /\ s.host = s.link.host /\ s.public /\ s.at < s.link.exp

(* A session is worth no more than the link it came from: a request reaches the application only        *)
(* if an address that the settings allow now signed in at this very host with a link mailed for it,      *)
(* not longer than a session ago and through the mail server of these settings, and the tunnel has        *)
(* the host now - whatever aliases it lost and won, and whatever settings it had, in between.             *)
SessionsHold ==
  last.at = "app" =>
    /\ last.host \in public /\ ("domain" \in gate.allow \/ last.subject \in gate.allow)
    /\ \E s \in sessions : /\ s.link.email = last.subject /\ s.link.host = last.host
                          /\ now < s.at + SessionTTL /\ s.binding = gate.binding

EmailSound == SendsLimited /\ LinkWorksOnce /\ SessionsHold
=============================================================================
