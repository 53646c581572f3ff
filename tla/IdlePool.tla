------------------------------ MODULE IdlePool ------------------------------
(***************************************************************************)
(* What a pool of reverse connections promises its two sides, without      *)
(* queues, goroutines or channels: the tenant's connection is either with  *)
(* the tenant ("out"), parked ("idle"), claimed by one caller ("claimed"), *)
(* lent to that caller for good ("lent") or closed ("gone").  It only ever *)
(* moves forward, at most limit connections are parked, none while the     *)
(* pool is suspended, and none once the pool is shut.                      *)
(***************************************************************************)
EXTENDS Integers, FiniteSets

CONSTANTS Conns, limit

VARIABLES
  custody,    \* where each connection is
  suspended,  \* no parking until resumed
  shut        \* closing has completed

vars == <<custody, suspended, shut>>

Idle == {c \in Conns : custody[c] = "idle"}

Init ==
  /\ custody = [c \in Conns |-> "out"]
  /\ suspended = FALSE
  /\ shut = FALSE

Park(c) ==
  /\ custody[c] = "out"
  /\ ~suspended
  /\ ~shut
  /\ limit > 0 => Cardinality(Idle) < limit
  /\ custody' = [custody EXCEPT ![c] = "idle"]
  /\ UNCHANGED <<suspended, shut>>

Claim(c) ==
  /\ custody[c] = "idle"
  /\ custody' = [custody EXCEPT ![c] = "claimed"]
  /\ UNCHANGED <<suspended, shut>>

Lend(c) ==
  /\ custody[c] = "claimed"
  /\ custody' = [custody EXCEPT ![c] = "lent"]
  /\ UNCHANGED <<suspended, shut>>

\* A refused offer, a broken or abandoned connection.
Drop(c) ==
  /\ custody[c] \in {"out", "idle", "claimed"}
  /\ custody' = [custody EXCEPT ![c] = "gone"]
  /\ UNCHANGED <<suspended, shut>>

\* Suspending takes every parked connection out of service at once.
Suspend ==
  /\ suspended' = TRUE
  /\ custody' = [c \in Conns |-> IF custody[c] = "idle" THEN "gone" ELSE custody[c]]
  /\ UNCHANGED shut

Resume ==
  /\ suspended' = FALSE
  /\ UNCHANGED <<custody, shut>>

Shut ==
  /\ shut' = TRUE
  /\ custody' = [c \in Conns |-> IF custody[c] = "idle" THEN "gone" ELSE custody[c]]
  /\ UNCHANGED suspended

Next ==
  \/ \E c \in Conns : Park(c) \/ Claim(c) \/ Lend(c) \/ Drop(c)
  \/ Suspend \/ Resume \/ Shut

Spec == Init /\ [][Next]_vars
=============================================================================
