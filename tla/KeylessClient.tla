---------------------------- MODULE KeylessClient ----------------------------
(* The tenant's side of keyless TLS: Client of portal/keyless/client.go with its   *)
(* pinned relay chain. Chains are numbered in the order the relay serves them; a   *)
(* pin is the chain together with its own remote signer.                           *)
EXTENDS Naturals, FiniteSets

CONSTANTS
  Callers,      \* goroutines: handshakes and the lease's renewal loop
  MaxChains     \* bound: chains the relay serves

VARIABLES
  served,       \* the chain the relay serves now
  signable,     \* the chains it holds keys for
  pinned,       \* c.pin, by its chain
  signers,      \* open remote signers, one of each pin
  closed,       \* c.closed
  mutex,        \* the holder of refreshMu
  caller,       \* where each goroutine is
  pin,          \* the pin it captured
  fetched,      \* the chain it fetched
  closing       \* the pin Close has read and not yet released

vars == <<served, signable, pinned, signers, closed, mutex, caller, pin, fetched, closing>>

None == "none"

Init ==
  /\ served = 1 /\ signable = {1} /\ pinned = 1 /\ signers = {1} /\ closed = FALSE
  /\ mutex = None /\ caller = [c \in Callers |-> "idle"] /\ pin = [c \in Callers |-> 0]
  /\ fetched = [c \in Callers |-> 0] /\ closing = 0

At(c, place) == caller' = [caller EXCEPT ![c] = place]

-----------------------------------------------------------------------------
(* The relay renews its certificate, and forgets the ones that expired.            *)

RelayRenews ==
  /\ served < MaxChains /\ served' = served + 1 /\ signable' = signable \cup {served + 1}
  /\ UNCHANGED <<pinned, signers, closed, mutex, caller, pin, fetched, closing>>

RelayForgets ==
  /\ \E c \in signable \ {served} : signable' = signable \ {c}
  /\ UNCHANGED <<served, pinned, signers, closed, mutex, caller, pin, fetched, closing>>

-----------------------------------------------------------------------------
(* TerminateConn *)

TerminateConn(c) ==
  /\ caller[c] = "idle" /\ At(c, "handshake") /\ pin' = [pin EXCEPT ![c] = pinned]
  /\ UNCHANGED <<served, signable, pinned, signers, closed, mutex, fetched, closing>>

\* The handshake succeeds, or fails for a reason that does not concern the pin.
HandshakeEnds(c) ==
  /\ caller[c] = "handshake" /\ At(c, "idle")
  /\ UNCHANGED <<served, signable, pinned, signers, closed, mutex, pin, fetched, closing>>

HandshakeStale(c) ==
  /\ caller[c] = "handshake" /\ pin[c] \notin signable /\ At(c, "refresh")
  /\ UNCHANGED <<served, signable, pinned, signers, closed, mutex, pin, fetched, closing>>

\* RefreshChain, from the renewal loop: no pin is known to be stale.
RefreshChain(c) ==
  /\ caller[c] = "idle" /\ At(c, "refresh") /\ pin' = [pin EXCEPT ![c] = 0]
  /\ UNCHANGED <<served, signable, pinned, signers, closed, mutex, fetched, closing>>

-----------------------------------------------------------------------------
(* refreshChain *)

\* Mutant: fetches are not serialized.
LockAlways == TRUE

Lockable == mutex = None

Lock(c) ==
  /\ caller[c] = "refresh" /\ Lockable
  /\ IF pin[c] # 0 /\ pinned # pin[c]
     THEN At(c, "idle") /\ UNCHANGED mutex
     ELSE At(c, "fetch") /\ mutex' = c
  /\ UNCHANGED <<served, signable, pinned, signers, closed, pin, fetched, closing>>

Fetch(c) ==
  /\ caller[c] = "fetch"
  /\ \/ fetched' = [fetched EXCEPT ![c] = served] /\ At(c, "compare") /\ UNCHANGED mutex
     \/ At(c, "idle") /\ mutex' = None /\ UNCHANGED fetched
  /\ UNCHANGED <<served, signable, pinned, signers, closed, pin, closing>>

\* newPin opens the signer of the next pin, unless the chain does not cover the host.
NewPin(c) ==
  /\ caller[c] = "compare"
  /\ \/ /\ fetched[c] # pinned /\ At(c, "install") /\ signers' = signers \cup {fetched[c]}
        /\ pin' = [pin EXCEPT ![c] = pinned] /\ UNCHANGED mutex
     \/ At(c, "idle") /\ mutex' = None /\ UNCHANGED <<signers, pin>>
  /\ UNCHANGED <<served, signable, pinned, closed, fetched, closing>>

\* Mutant: Close is not noticed.
NeverClosed == FALSE

WasClosed == closed

Install(c) ==
  /\ caller[c] = "install"
  /\ IF WasClosed
     THEN signers' = signers \ {fetched[c]} /\ At(c, "idle") /\ mutex' = None /\ UNCHANGED pinned
     ELSE pinned' = fetched[c] /\ At(c, "release") /\ UNCHANGED <<signers, mutex>>
  /\ UNCHANGED <<served, signable, closed, pin, fetched, closing>>

\* The replaced signer is closed after the unlock.
Release(c) ==
  /\ caller[c] = "release" /\ signers' = signers \ {pin[c]} /\ At(c, "idle") /\ mutex' = None
  /\ UNCHANGED <<served, signable, pinned, closed, pin, fetched, closing>>

-----------------------------------------------------------------------------
(* Close, once *)

Close ==
  /\ ~closed /\ closed' = TRUE /\ closing' = pinned
  /\ UNCHANGED <<served, signable, pinned, signers, mutex, caller, pin, fetched>>

CloseSigner ==
  /\ closing # 0 /\ signers' = signers \ {closing} /\ closing' = 0
  /\ UNCHANGED <<served, signable, pinned, closed, mutex, caller, pin, fetched>>

Next ==
  \/ RelayRenews \/ RelayForgets \/ Close \/ CloseSigner
  \/ \E c \in Callers :
       \/ TerminateConn(c) \/ HandshakeEnds(c) \/ HandshakeStale(c) \/ RefreshChain(c)
       \/ Lock(c) \/ Fetch(c) \/ NewPin(c) \/ Install(c) \/ Release(c)

Spec == Init /\ [][Next]_vars

TypeOK ==
  /\ served \in 1..MaxChains /\ pinned \in 1..MaxChains /\ signers \subseteq 1..MaxChains
  /\ mutex \in Callers \cup {None} /\ closing \in 0..MaxChains
  /\ caller \in [Callers -> {"idle", "handshake", "refresh", "fetch", "compare", "install", "release"}]

(* No signer is lost: the open ones are the pin's and those somebody is about to   *)
(* install or to close; after Close and with nobody at work none is left.          *)
SignersReleased ==
  /\ signers \subseteq {pinned, closing}
       \cup {fetched[c] : c \in {x \in Callers : caller[x] = "install"}}
       \cup {pin[c] : c \in {x \in Callers : caller[x] = "release"}}
  /\ (closed /\ closing = 0 /\ \A c \in Callers : caller[c] \notin {"install", "release"})
       => signers = {}
  /\ ~closed => pinned \in signers

(* A slower fetch never pins a chain older than the pinned one.                    *)
NeverOlder == pinned' >= pinned
=============================================================================
