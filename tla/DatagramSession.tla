-------------------------- MODULE DatagramSession --------------------------
(* One DatagramSession (portal/transport/datagram_session.go): Bind installs a    *)
(* QUIC connection and its receive loop, Clear ends the lease and keeps the       *)
(* session, Close ends it.  A frame carries the lease it was received under, the  *)
(* generation of leaseDone.                                                       *)
EXTENDS Naturals, Sequences, FiniteSets

CONSTANTS
  Conns,        \* QUIC connections, bound once each
  MaxLeases,    \* bound: generations
  MaxIncoming,  \* capacity of s.incoming
  MaxFrames     \* bound: datagrams received

VARIABLES
  drops,        \* s.dropIncoming: a full queue drops instead of blocking
  conn,         \* s.conn
  lease,        \* the generation of s.leaseDone; the ones before are closed
  done,
  quic,         \* each connection: new, open or closed
  toClose,      \* connections a call has taken out and is about to close
  loop,         \* where the receive loop of each connection is
  born,         \* the generation it was bound under
  reported,     \* what recvDone carries
  incoming, frames,
  held,         \* the frame the application got from Accept, and where it is with it
  sender,       \* SendFrame: the connection it selected
  old           \* history: a frame went out over the connection of another lease,
                \* or Accept returned a frame of a lease that was over when it looked

vars == <<drops, conn, lease, done, quic, toClose, loop, born, reported, incoming, frames, held,
          sender, old>>

None == "none"
linkVars == <<drops, conn, lease, done, toClose>>
loopVars == <<loop, born, reported, incoming, frames>>
appVars == <<held, sender, old>>

Init ==
  /\ drops \in BOOLEAN /\ conn = None /\ lease = 0 /\ done = FALSE
  /\ quic = [c \in Conns |-> "new"] /\ toClose = {}
  /\ loop = [c \in Conns |-> "none"] /\ born = [c \in Conns |-> 0]
  /\ reported = [c \in Conns |-> None]
  /\ incoming = <<>> /\ frames = 0
  /\ held = [at |-> "idle", lease |-> 0] /\ sender = None /\ old = FALSE

Taken == IF conn = None THEN {} ELSE {conn}

\* Mutant: a closed session still binds.
OpenAlways == TRUE

Open == ~done

(* Bind: a closed session closes the connection, else it replaces the current one *)
(* and starts its receive loop.                                                   *)
Bind(c) ==
  /\ quic[c] = "new"
  /\ IF Open
     THEN /\ quic' = [quic EXCEPT ![c] = "open"]
          /\ conn' = c /\ toClose' = toClose \cup Taken
          /\ loop' = [loop EXCEPT ![c] = "receive"] /\ born' = [born EXCEPT ![c] = lease]
     ELSE /\ quic' = [quic EXCEPT ![c] = "closed"]
          /\ UNCHANGED <<conn, toClose, loop, born>>
  /\ UNCHANGED <<drops, lease, done, reported, incoming, frames, appVars>>

\* The replaced or cleared connection is closed after s.mu is released.
CloseTaken(c) ==
  /\ c \in toClose
  /\ toClose' = toClose \ {c} /\ quic' = [quic EXCEPT ![c] = "closed"]
  /\ UNCHANGED <<drops, conn, lease, done, loopVars, appVars>>

\* The peer closes it, or it times out.
Lost(c) ==
  /\ quic[c] = "open" /\ quic' = [quic EXCEPT ![c] = "closed"]
  /\ UNCHANGED <<linkVars, loopVars, appVars>>

Clear ==
  /\ ~done /\ lease < MaxLeases
  /\ toClose' = toClose \cup Taken /\ conn' = None /\ lease' = lease + 1
  /\ UNCHANGED <<drops, done, quic, loopVars, appVars>>

Close ==
  /\ ~done /\ done' = TRUE
  /\ toClose' = toClose \cup Taken /\ conn' = None
  /\ UNCHANGED <<drops, lease, quic, loopVars, appVars>>

-----------------------------------------------------------------------------
(* receiveLoop *)

Receive(c) ==
  /\ loop[c] = "receive" /\ quic[c] = "open" /\ frames < MaxFrames
  /\ frames' = frames + 1
  /\ loop' = [loop EXCEPT ![c] = "put"]
  /\ UNCHANGED <<linkVars, quic, born, reported, incoming, appVars>>

Put(c) ==
  /\ loop[c] = "put"
  /\ \/ Len(incoming) < MaxIncoming /\ incoming' = Append(incoming, born[c])
     \/ drops /\ Len(incoming) = MaxIncoming /\ UNCHANGED incoming
  /\ loop' = [loop EXCEPT ![c] = "receive"]
  /\ UNCHANGED <<linkVars, quic, born, reported, frames, appVars>>

\* A blocked put ends with the session or the connection.
PutEnds(c) ==
  /\ loop[c] = "put" /\ ~drops /\ (done \/ quic[c] = "closed")
  /\ loop' = [loop EXCEPT ![c] = "ended"] /\ reported' = [reported EXCEPT ![c] = "nil"]
  /\ UNCHANGED <<linkVars, quic, born, incoming, frames, appVars>>

\* Only the current connection's loop takes it out and reports the error.
\* Mutant: any loop does.
CurrentAny(c) == conn # None

Current(c) == conn = c

ReceiveFails(c) ==
  /\ loop[c] = "receive" /\ quic[c] = "closed"
  /\ loop' = [loop EXCEPT ![c] = "ended"]
  /\ reported' = [reported EXCEPT ![c] = IF Current(c) THEN "error" ELSE "nil"]
  /\ conn' = IF Current(c) THEN None ELSE conn
  /\ UNCHANGED <<drops, lease, done, toClose, quic, born, incoming, frames, appVars>>

-----------------------------------------------------------------------------
(* Accept, and SendFrame with the frame Accept returned *)

Ended(g) == done \/ g < lease

Accept ==
  /\ held.at = "idle" /\ incoming # <<>> /\ ~done
  /\ incoming' = Tail(incoming)
  /\ held' = IF Ended(Head(incoming)) THEN held ELSE [at |-> "frame", lease |-> Head(incoming)]
  /\ UNCHANGED <<linkVars, quic, loop, born, reported, frames, sender, old>>

\* Mutant: a kept frame is answered whatever its lease.
ReplyAny == ~done

ReplyCurrent == ~done /\ held.lease = lease

SendSelects ==
  /\ held.at = "frame"
  /\ IF ReplyCurrent /\ conn # None
     THEN held' = [held EXCEPT !.at = "send"] /\ sender' = conn
     ELSE held' = [held EXCEPT !.at = "idle"] /\ UNCHANGED sender
  /\ UNCHANGED <<linkVars, quic, loopVars, old>>

SendReturns ==
  /\ held.at = "send"
  /\ old' = (old \/ (quic[sender] = "open" /\ born[sender] # held.lease))
  /\ held' = [held EXCEPT !.at = "idle"] /\ sender' = None
  /\ UNCHANGED <<linkVars, quic, loopVars>>

Step(c) ==
  \/ Bind(c) \/ CloseTaken(c) \/ Lost(c) \/ Receive(c) \/ Put(c) \/ PutEnds(c)
  \/ ReceiveFails(c)

Next == (\E c \in Conns : Step(c)) \/ Clear \/ Close \/ Accept \/ SendSelects \/ SendReturns

Spec == Init /\ [][Next]_vars

TypeOK ==
  /\ conn \in Conns \cup {None} /\ lease \in 0..MaxLeases
  /\ quic \in [Conns -> {"new", "open", "closed"}]
  /\ loop \in [Conns -> {"none", "receive", "put", "ended"}]
  /\ reported \in [Conns -> {None, "nil", "error"}] /\ Len(incoming) <= MaxIncoming

(* A connection that is not the session's is closed or about to be; the session's *)
(* own was bound under the current lease; a closed session has none; only a loop  *)
(* that found its connection current reports an error.                            *)
OneConnection ==
  /\ \A c \in Conns : quic[c] = "open" => c = conn \/ c \in toClose
  /\ conn # None => born[conn] = lease /\ ~done
  /\ \A c \in Conns : conn = c => loop[c] # "ended" \/ reported[c] = "nil"

(* A frame of one lease is never answered over the connection of another, however *)
(* long the application keeps it.                                                 *)
LeaseKeepsToItself == ~old
=============================================================================
