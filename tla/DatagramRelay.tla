--------------------------- MODULE DatagramRelay ---------------------------
(* The UDP flow table of one lease (portal/transport/datagram_relay.go): readLoop *)
(* numbers the public clients and forwards their datagrams, runDispatchLoop       *)
(* writes the tenant's answers back to the client that holds the flow id, and     *)
(* runCleanupLoop forgets idle flows.  Flow ids have IdWidth bits.                *)
EXTENDS Naturals, Sequences, FiniteSets, Functions

CONSTANTS
  Clients,      \* public UDP addresses
  IdWidth,      \* bits of a flow id (32)
  MaxFlows,     \* DefaultUDPMaxFlows
  MaxSent,      \* bound: datagrams forwarded
  MaxReplies    \* bound: answers in d.session.incoming

VARIABLES
  flowTable,    \* id -> the client and whether it was idle for the timeout
  addrIndex,    \* client -> id
  nextFlow,
  enabled, done, \* SetEnabled; d.session is closed
  linked,       \* a usable backhaul is bound
  reader,       \* where readLoop is, with the datagram it forwards
  dispatcher,   \* where runDispatchLoop is, with the frame it delivers
  sent,         \* datagrams forwarded so far
  known,        \* [tenant] what each id was last used for
  inbox,        \* d.session.incoming: answers, with the client they are meant for
  wrapped,      \* history: nextFlow has passed its largest value
  stray         \* history: an answer was written to a client it was not meant for

vars == <<flowTable, addrIndex, nextFlow, enabled, done, linked, reader, dispatcher, sent,
          known, inbox, wrapped, stray>>

Ids == 0..(2^IdWidth - 1)
Nobody == "nobody"
Idle == [at |-> "idle", client |-> Nobody, id |-> 0, fresh |-> FALSE]

tableVars == <<flowTable, addrIndex, nextFlow, wrapped>>
ownVars == <<sent, known, inbox, stray>>

Init ==
  /\ flowTable = <<>> /\ addrIndex = <<>> /\ nextFlow = 1
  /\ enabled = TRUE /\ done = FALSE /\ linked = FALSE
  /\ reader = Idle /\ dispatcher = Idle /\ sent = 0
  /\ known = [i \in Ids |-> Nobody] /\ inbox = <<>> /\ wrapped = FALSE /\ stray = FALSE

\* SetEnabled; the session is bound and lost by itself (DatagramSession).
SetEnabled ==
  /\ enabled' = ~enabled
  /\ UNCHANGED <<tableVars, done, linked, reader, dispatcher, ownVars>>

Backhaul ==
  /\ ~done /\ linked' = ~linked
  /\ UNCHANGED <<tableVars, enabled, done, reader, dispatcher, ownVars>>

\* The entry of a client leaves both maps.
Forget(ids) ==
  /\ flowTable' = Restrict(flowTable, DOMAIN flowTable \ ids)
  /\ addrIndex' = Restrict(addrIndex, DOMAIN addrIndex \ {flowTable[i].client : i \in ids})

(* Close and a stopped readLoop: the session is closed and the maps cleared under *)
(* d.mu.                                                                          *)
Close ==
  /\ ~done /\ done' = TRUE /\ linked' = FALSE
  /\ flowTable' = <<>> /\ addrIndex' = <<>>
  /\ UNCHANGED <<nextFlow, wrapped, enabled, reader, dispatcher, ownVars>>

-----------------------------------------------------------------------------
(* readLoop and forwardDatagram *)

\* Gates first; a closed socket ends the loop.
ReadDatagram(c) ==
  /\ reader = Idle /\ ~done /\ sent < MaxSent
  /\ enabled /\ linked
  /\ reader' = [Idle EXCEPT !.at = "read", !.client = c]
  /\ UNCHANGED <<tableVars, enabled, done, linked, dispatcher, ownVars>>

\* The first id after nextFlow, counting modulo the width, that no live flow has.
\* Mutant: the next id, live or not.
NextIdTaken == nextFlow

NextId == CHOOSE n \in Ids : n \notin DOMAIN flowTable /\
               \A k \in 0..(2^IdWidth - 1) : (n = (nextFlow + k) % 2^IdWidth) =>
                 \A j \in 0..(k - 1) : (nextFlow + j) % 2^IdWidth \in DOMAIN flowTable

Touch(id) == flowTable' = [flowTable EXCEPT ![id].idle = FALSE]

(* touchFlow: a known client keeps its id, a new one is admitted below the cap    *)
(* and the rate.  A full table, a spent rate or a closed session drops it.        *)
TouchFlow ==
  /\ reader.at = "read"
  /\ LET c == reader.client IN
     \/ /\ ~done /\ c \in DOMAIN addrIndex
        /\ Touch(addrIndex[c])
        /\ reader' = [reader EXCEPT !.at = "touched", !.id = addrIndex[c]]
        /\ UNCHANGED <<addrIndex, nextFlow, wrapped>>
     \/ /\ ~done /\ c \notin DOMAIN addrIndex /\ Cardinality(DOMAIN flowTable) < MaxFlows
        /\ LET id == NextId IN
           /\ flowTable' = [i \in DOMAIN flowTable \cup {id} |->
                              IF i = id THEN [client |-> c, idle |-> FALSE] ELSE flowTable[i]]
           /\ addrIndex' = [x \in DOMAIN addrIndex \cup {c} |-> IF x = c THEN id ELSE addrIndex[x]]
           /\ nextFlow' = (id + 1) % 2^IdWidth
           /\ wrapped' = (wrapped \/ id < nextFlow \/ id + 1 = 2^IdWidth)
           /\ reader' = [reader EXCEPT !.at = "touched", !.id = id, !.fresh = TRUE]
     \/ /\ done \/ c \notin DOMAIN addrIndex
        /\ reader' = Idle /\ UNCHANGED tableVars
  /\ UNCHANGED <<enabled, done, linked, dispatcher, ownVars>>

\* Send: the tenant learns which client the id stands for.
Forwarded ==
  /\ reader.at = "touched" /\ enabled /\ linked
  /\ sent' = sent + 1
  /\ known' = [known EXCEPT ![reader.id] = reader.client]
  /\ reader' = Idle
  /\ UNCHANGED <<tableVars, enabled, done, linked, dispatcher, inbox, stray>>

\* A disabled lease or a failed send takes a new entry back.
NotForwarded ==
  /\ reader.at = "touched"
  /\ IF reader.fresh /\ reader.id \in DOMAIN flowTable
     THEN Forget({reader.id})
     ELSE UNCHANGED <<flowTable, addrIndex>>
  /\ reader' = Idle
  /\ UNCHANGED <<nextFlow, wrapped, enabled, done, linked, dispatcher, ownVars>>

-----------------------------------------------------------------------------
(* runDispatchLoop and dispatch *)

\* [tenant] an answer for an id it has seen; a full queue drops it.
Reply(i) ==
  /\ linked /\ known[i] # Nobody /\ Len(inbox) < MaxReplies
  /\ inbox' = Append(inbox, [id |-> i, meant |-> known[i]])
  /\ UNCHANGED <<tableVars, enabled, done, linked, reader, dispatcher, sent, known, stray>>

\* The flow is looked up under d.mu, its address used after it is released.
DispatchLookup ==
  /\ dispatcher = Idle /\ ~done /\ inbox # <<>>
  /\ inbox' = Tail(inbox)
  /\ LET f == Head(inbox) IN
     IF enabled /\ f.id \in DOMAIN flowTable
     THEN /\ flowTable' = [flowTable EXCEPT ![f.id].idle = FALSE]
          /\ dispatcher' = [at |-> "found", client |-> flowTable[f.id].client, id |-> f.id,
                            fresh |-> f.meant # flowTable[f.id].client]
     ELSE UNCHANGED <<flowTable, dispatcher>>
  /\ UNCHANGED <<addrIndex, nextFlow, wrapped, enabled, done, linked, reader, sent, known, stray>>

DispatchWrite ==
  /\ dispatcher.at = "found"
  /\ stray' = (stray \/ (enabled /\ dispatcher.fresh))
  /\ dispatcher' = Idle
  /\ UNCHANGED <<tableVars, enabled, done, linked, reader, sent, known, inbox>>

DispatchFails ==
  /\ dispatcher.at = "found" /\ enabled
  /\ IF dispatcher.id \in DOMAIN flowTable
     THEN Forget({dispatcher.id})
     ELSE UNCHANGED <<flowTable, addrIndex>>
  /\ dispatcher' = Idle
  /\ UNCHANGED <<nextFlow, wrapped, enabled, done, linked, reader, ownVars>>

-----------------------------------------------------------------------------
(* runCleanupLoop *)

TimePasses ==
  /\ \E i \in DOMAIN flowTable : ~flowTable[i].idle
  /\ flowTable' = [i \in DOMAIN flowTable |-> [flowTable[i] EXCEPT !.idle = TRUE]]
  /\ UNCHANGED <<addrIndex, nextFlow, wrapped, enabled, done, linked, reader, dispatcher, ownVars>>

ExpireIdleFlows ==
  /\ ~done /\ \E i \in DOMAIN flowTable : flowTable[i].idle
  /\ Forget({i \in DOMAIN flowTable : flowTable[i].idle})
  /\ UNCHANGED <<nextFlow, wrapped, enabled, done, linked, reader, dispatcher, ownVars>>

Next ==
  \/ SetEnabled \/ Backhaul \/ Close
  \/ \E c \in Clients : ReadDatagram(c)
  \/ TouchFlow \/ Forwarded \/ NotForwarded
  \/ \E i \in Ids : Reply(i)
  \/ DispatchLookup \/ DispatchWrite \/ DispatchFails
  \/ TimePasses \/ ExpireIdleFlows

Spec == Init /\ [][Next]_vars

TypeOK ==
  /\ DOMAIN flowTable \subseteq Ids /\ DOMAIN addrIndex \subseteq Clients /\ nextFlow \in Ids
  /\ reader.at \in {"idle", "read", "touched"} /\ dispatcher.at \in {"idle", "found"}
  /\ sent <= MaxSent /\ Len(inbox) <= MaxReplies

(* The two maps are inverse to each other, within the cap, and empty once closed; *)
(* also when ids wrap around.                                                     *)
IndexExact ==
  /\ \A i \in DOMAIN flowTable :
       flowTable[i].client \in DOMAIN addrIndex /\ addrIndex[flowTable[i].client] = i
  /\ \A c \in DOMAIN addrIndex :
       addrIndex[c] \in DOMAIN flowTable /\ flowTable[addrIndex[c]].client = c
  /\ Cardinality(DOMAIN flowTable) <= MaxFlows
  /\ done => flowTable = <<>>

(* Until the ids wrap around, an answer is written to the client it is meant for  *)
(* or to nobody, whatever expired or failed in between.                           *)
AnswersReachTheirClient == stray => wrapped
=============================================================================
