------------------------------ MODULE QuicDial ------------------------------
(* The client's side of a QUIC backhaul (portal/transport/quic_backhaul.go):       *)
(* dialQUICBackhaulConnection races two address families (one alone is dialed      *)
(* without a race), DialQUICBackhaul presents the access token on a control stream. *)
EXTENDS Naturals, FiniteSets

CONSTANTS Primary, Fallback    \* how many addresses each family has

VARIABLES
  cancelled,    \* the caller's context, or the derived one cancelled on return
  caller,       \* where the dialer is
  racer,        \* where each family's goroutine is
  left,         \* addresses it has still to try
  conn,         \* the connection each family established: none, open, closed
  firstErr,     \* an error was received before
  started,      \* fallbackStarted
  timer,        \* the head start: running, fired, stopped
  result        \* what the caller returns

vars == <<cancelled, caller, racer, left, conn, firstErr, started, timer, result>>

Families == {"primary", "fallback"}
raceVars == <<racer, left, conn>>

Init ==
  /\ cancelled = FALSE /\ caller = "race"
  /\ racer = [f \in Families |-> IF f = "primary" THEN "dial" ELSE "none"]
  /\ left = [f \in Families |-> IF f = "primary" THEN Primary ELSE Fallback]
  /\ conn = [f \in Families |-> "none"]
  /\ firstErr = FALSE /\ started = FALSE
  /\ timer = "running" /\ result = "none"

Cancel ==
  /\ ~cancelled /\ caller = "race"
  /\ cancelled' = TRUE
  /\ UNCHANGED <<caller, raceVars, firstErr, started, timer, result>>

TimerFires ==
  /\ timer = "running" /\ timer' = "fired"
  /\ UNCHANGED <<cancelled, caller, raceVars, firstErr, started, result>>

-----------------------------------------------------------------------------
(* race(addresses): dial tries them in order, then hands the result over.          *)

DialFails(f) ==
  /\ racer[f] = "dial" /\ left[f] > 0
  /\ left' = [left EXCEPT ![f] = @ - 1]
  /\ racer' = [racer EXCEPT ![f] = IF left[f] = 1 THEN "err" ELSE "dial"]
  /\ UNCHANGED <<cancelled, caller, conn, firstErr, started, timer, result>>

DialConnects(f) ==
  /\ racer[f] = "dial" /\ left[f] > 0
  /\ conn' = [conn EXCEPT ![f] = "open"] /\ racer' = [racer EXCEPT ![f] = "ok"]
  /\ UNCHANGED <<cancelled, caller, left, firstErr, started, timer, result>>

DialCancelled(f) ==
  /\ racer[f] = "dial" /\ cancelled
  /\ racer' = [racer EXCEPT ![f] = "err"]
  /\ UNCHANGED <<cancelled, caller, left, conn, firstErr, started, timer, result>>

\* Mutant: a result nobody waits for is dropped with its connection.
DropResult(f) == UNCHANGED conn

CloseUnused(f) == conn' = [conn EXCEPT ![f] = IF @ = "open" THEN "closed" ELSE @]

\* Nobody receives any more: the deferred close(returned).
RacerLate(f) ==
  /\ racer[f] \in {"ok", "err"} /\ caller # "race"
  /\ racer' = [racer EXCEPT ![f] = "done"] /\ CloseUnused(f)
  /\ UNCHANGED <<cancelled, caller, left, firstErr, started, timer, result>>

-----------------------------------------------------------------------------
(* The dialer.  Returning cancels the derived context.                             *)

Return(r) == caller' = "returned" /\ result' = r /\ cancelled' = TRUE /\ timer' = "stopped"

DialerCancelled ==
  /\ caller = "race" /\ cancelled
  /\ Return("cancelled")
  /\ UNCHANGED <<raceVars, firstErr, started>>

\* Mutant: the timer runs on when an error has started the fallback.
TimerKept == timer

TimerStopped == "stopped"

StartFallback ==
  /\ caller = "race" /\ timer = "fired"
  /\ started' = TRUE /\ timer' = "stopped"
  /\ racer' = [racer EXCEPT !["fallback"] = "dial"]
  /\ UNCHANGED <<cancelled, caller, left, conn, firstErr, result>>

ResultOk(f) ==
  /\ caller = "race" /\ racer[f] = "ok"
  /\ racer' = [racer EXCEPT ![f] = "done"]
  /\ caller' = "control" /\ result' = f /\ cancelled' = TRUE /\ timer' = "stopped"
  /\ UNCHANGED <<left, conn, firstErr, started>>

\* The second error is the answer; the first starts the fallback if it has not begun.
ResultErr(f) ==
  /\ caller = "race" /\ racer[f] = "err"
  /\ IF firstErr
     THEN /\ racer' = [racer EXCEPT ![f] = "done"]
          /\ Return("error") /\ UNCHANGED <<firstErr, started>>
     ELSE /\ firstErr' = TRUE /\ started' = TRUE
          /\ racer' = [racer EXCEPT ![f] = "done",
                                    !["fallback"] = IF started THEN @ ELSE "dial"]
          /\ timer' = (IF started THEN timer ELSE TimerStopped)
          /\ UNCHANGED <<caller, result, cancelled>>
  /\ UNCHANGED <<left, conn>>

(* DialQUICBackhaul: the control stream, the token, the answer.                    *)
ControlAccepted ==
  /\ caller = "control" /\ caller' = "returned"
  /\ UNCHANGED <<cancelled, raceVars, firstErr, started, timer, result>>

\* Opening, writing or reading fails, or the relay rejects the token.
ControlFails ==
  /\ caller = "control"
  /\ conn' = [conn EXCEPT ![result] = "closed"]
  /\ caller' = "returned" /\ result' = "rejected"
  /\ UNCHANGED <<cancelled, racer, left, firstErr, started, timer>>

Racer(f) == DialFails(f) \/ DialConnects(f) \/ DialCancelled(f) \/ RacerLate(f)
Dialer ==
  \/ DialerCancelled \/ StartFallback \/ ControlAccepted \/ ControlFails
  \/ \E f \in Families : ResultOk(f) \/ ResultErr(f)

Next == Cancel \/ TimerFires \/ Dialer \/ \E f \in Families : Racer(f)

Spec == Init /\ [][Next]_vars

TypeOK ==
  /\ caller \in {"race", "control", "returned"}
  /\ racer \in [Families -> {"none", "dial", "ok", "err", "done"}]
  /\ conn \in [Families -> {"none", "open", "closed"}]

(* The call has returned and its goroutines have ended.                            *)
Over == caller = "returned" /\ \A f \in Families : racer[f] \in {"none", "done"}

(* When the call has returned and its goroutines have ended, the only connection   *)
(* left open is the one it returned.                                               *)
NoConnectionLeft ==
  Over => \A f \in Families : conn[f] = "open" <=> result = f

=============================================================================
