----------------------------- MODULE ProxyBridge -----------------------------
(* proxy.bridge of portal/proxy.go: two goroutines copy between the visitor (left) *)
(* and the reverse connection (right) until both directions are over, one fails,   *)
(* or the bridge's context is canceled.                                            *)
EXTENDS Naturals, FiniteSets

CONSTANT MaxUnits   \* bound: units each side sends

VARIABLES
  sent,         \* units each side has sent so far
  ended,        \* sides that have sent their EOF
  broken,       \* sides that stopped reading: writes to them fail
  asked,        \* history: the bridge was canceled from outside
  taken,        \* units each copy has read from its side
  delivered,    \* units it has written to the other
  copy,         \* where it is: "read", "throttle", "write", "fail", "half", "done"
  finished,     \* sides whose write direction was closed by closeWrite
  canceled,     \* ctx is over
  after,        \* the AfterFunc: "armed", "running", "ran", "stopped"
  closed,       \* connections closed
  bridge,       \* "run", "wait", "deferred", "returned"
  activeConns, tcpBytes

vars == <<sent, ended, broken, asked, taken, delivered, copy, finished, canceled, after, closed, bridge,
          activeConns, tcpBytes>>

Sides == {"left", "right"}
Other(s) == IF s = "left" THEN "right" ELSE "left"
peerVars == <<sent, ended, broken, asked>>
At(s, place) == copy' = [copy EXCEPT ![s] = place]

Init ==
  /\ sent = [s \in Sides |-> 0] /\ ended = {} /\ broken = {} /\ asked = FALSE
  /\ taken = [s \in Sides |-> 0] /\ delivered = [s \in Sides |-> 0]
  /\ copy = [s \in Sides |-> "read"] /\ finished = {} /\ canceled = FALSE
  /\ after = "armed" /\ closed = {} /\ bridge = "run" /\ activeConns = 1 /\ tcpBytes = 0

-----------------------------------------------------------------------------
(* The two peers, and whoever cancels the bridge                                   *)

Send(s) ==
  /\ s \notin ended /\ sent[s] < MaxUnits /\ sent' = [sent EXCEPT ![s] = @ + 1]
  /\ UNCHANGED <<ended, broken, asked, taken, delivered, copy, finished, canceled, after, closed, bridge,
                 activeConns, tcpBytes>>

End(s) ==
  /\ s \notin ended /\ ended' = ended \cup {s}
  /\ UNCHANGED <<sent, broken, asked, taken, delivered, copy, finished, canceled, after, closed, bridge,
                 activeConns, tcpBytes>>

Break(s) ==
  /\ s \notin broken /\ broken' = broken \cup {s}
  /\ UNCHANGED <<sent, ended, asked, taken, delivered, copy, finished, canceled, after, closed, bridge,
                 activeConns, tcpBytes>>

Cancel ==
  /\ ~canceled /\ canceled' = TRUE /\ asked' = TRUE
  /\ UNCHANGED <<sent, ended, broken, taken, delivered, copy, finished, after, closed, bridge, activeConns, tcpBytes>>

-----------------------------------------------------------------------------
(* copy, from side s to the other *)

\* A read returns what has arrived; EOF comes after the last unit.
Read(s) ==
  /\ copy[s] = "read"
  /\ \/ s \in closed \cup broken /\ At(s, "fail") /\ UNCHANGED taken
     \/ \E n \in 1..MaxUnits : /\ s \notin closed /\ n <= sent[s] - taken[s]
                               /\ taken' = [taken EXCEPT ![s] = @ + n] /\ At(s, "throttle")
     \/ /\ s \notin closed /\ s \in ended /\ taken[s] = sent[s] /\ At(s, "half") /\ UNCHANGED taken
  /\ UNCHANGED <<peerVars, delivered, finished, canceled, after, closed, bridge, activeConns, tcpBytes>>

\* ThrottleIdentityBPS fails only when the context is over.
Throttle(s) ==
  /\ copy[s] = "throttle"
  /\ At(s, "write") \/ (canceled /\ At(s, "fail"))
  /\ UNCHANGED <<peerVars, taken, delivered, finished, canceled, after, closed, bridge, activeConns, tcpBytes>>

\* A chunk is written whole or in part; what is left is throttled again.
Write(s) ==
  /\ copy[s] = "write"
  /\ \E n \in 0..(taken[s] - delivered[s]) :
       LET failed == Other(s) \in closed \cup broken \cup finished
           done == delivered[s] + n = taken[s] IN
       /\ failed \/ n > 0
       /\ delivered' = [delivered EXCEPT ![s] = @ + n] /\ tcpBytes' = tcpBytes + n
       /\ At(s, IF failed THEN "fail" ELSE IF done THEN "read" ELSE "throttle")
  /\ UNCHANGED <<peerVars, taken, finished, canceled, after, closed, bridge, activeConns>>

\* Mutant: the first direction that ends takes the bridge with it.
CancelsAlways(s) == TRUE

Cancels(s) == copy[s] = "fail"

\* The goroutine ends: an error cancels the bridge, EOF is passed on by closeWrite.
CopyEnds(s) ==
  /\ copy[s] \in {"fail", "half"}
  /\ canceled' = (canceled \/ Cancels(s))
  /\ finished' = finished \cup {Other(s)} /\ At(s, "done")
  /\ UNCHANGED <<peerVars, taken, delivered, after, closed, bridge, activeConns, tcpBytes>>

-----------------------------------------------------------------------------
(* The AfterFunc, and the deferred calls once both goroutines have returned        *)

AfterRuns ==
  /\ canceled /\ after = "armed" /\ after' = "running"
  /\ UNCHANGED <<peerVars, taken, delivered, copy, finished, canceled, closed, bridge, activeConns, tcpBytes>>

AfterCloses ==
  /\ after = "running" /\ after' = "ran" /\ closed' = Sides
  /\ UNCHANGED <<peerVars, taken, delivered, copy, finished, canceled, bridge, activeConns, tcpBytes>>

GroupWait ==
  /\ bridge = "run" /\ \A s \in Sides : copy[s] = "done"
  /\ IF after = "armed" THEN after' = "stopped" /\ bridge' = "deferred"
                        ELSE bridge' = "wait" /\ UNCHANGED after
  /\ UNCHANGED <<peerVars, taken, delivered, copy, finished, canceled, closed, activeConns, tcpBytes>>

\* Mutant: the deferred stop does not wait for the callback.
NotWaited == TRUE

AfterDone == after = "ran"

AfterWaited ==
  /\ bridge = "wait" /\ AfterDone /\ bridge' = "deferred"
  /\ UNCHANGED <<peerVars, taken, delivered, copy, finished, canceled, after, closed, activeConns, tcpBytes>>

Return ==
  /\ bridge = "deferred" /\ bridge' = "returned" /\ closed' = Sides /\ canceled' = TRUE
  /\ activeConns' = activeConns - 1
  /\ UNCHANGED <<peerVars, taken, delivered, copy, finished, after, tcpBytes>>

Bridge ==
  \/ AfterRuns \/ AfterCloses \/ GroupWait \/ AfterWaited \/ Return
  \/ \E s \in Sides : CopyEnds(s)

Next ==
  \/ Bridge \/ Cancel
  \/ \E s \in Sides : Send(s) \/ End(s) \/ Break(s) \/ Read(s) \/ Throttle(s) \/ Write(s)

Spec == Init /\ [][Next]_vars

TypeOK ==
  /\ copy \in [Sides -> {"read", "throttle", "write", "fail", "half", "done"}]
  /\ after \in {"armed", "running", "ran", "stopped"} /\ closed \subseteq Sides
  /\ bridge \in {"run", "wait", "deferred", "returned"} /\ activeConns \in 0..1

(* Nothing is invented, and unless a peer broke or the bridge was canceled from     *)
(* outside, a direction that is over delivered everything: half-closing one side    *)
(* keeps the other running (proxy.bridge, closeWrite against cancel).               *)
NothingLost ==
  /\ \A s \in Sides : delivered[s] <= taken[s] /\ taken[s] <= sent[s]
  /\ tcpBytes = delivered["left"] + delivered["right"]
  /\ (~canceled /\ after # "stopped") => closed = {}
  /\ \A s \in Sides : (copy[s] = "done" /\ broken = {} /\ ~asked) => s \in ended /\ delivered[s] = sent[s]

(* Once the bridge has returned nothing of it is left: both connections are closed *)
(* and no callback is still to run.                                                *)
ReturnedClean ==
  bridge = "returned" => closed = Sides /\ activeConns = 0 /\ after \in {"ran", "stopped"}

(* A bridge that has to return: it was canceled, or its peers have both ended.      *)
EndDue == canceled \/ ended = Sides
Over == bridge = "returned"
=============================================================================
