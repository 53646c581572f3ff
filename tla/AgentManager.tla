---------------------------- MODULE AgentManager ----------------------------
(* The tunnel manager of the agent (cmd/portal-tunnel/agent/manager.go): requests   *)
(* of the control API that change config.toml and the running tunnels under          *)
(* configMu, the run loop of each tunnel with its retries, and the shutdown.  Of a    *)
(* tunnel's config the sign-in settings, the metadata and one relay that is          *)
(* connected at run time are told apart.                                              *)
EXTENDS Naturals, FiniteSets

CONSTANTS
  Ids, Requests,
  Gates, Metas,  \* values of the sign-in settings and of the metadata
  MaxLoops,      \* bound on run loops
  MaxOps         \* bound on requests

VARIABLES
  file, torn,    \* config.toml: the tunnels it holds; a write broke off
  tunnels,       \* m.tunnels: config, run loop (done) and runtime of each
  loops, made,   \* the run loops
  configMu, req, ops,
  rootDone       \* the context of the agent is cancelled

vars == <<file, torn, tunnels, loops, made, configMu, req, ops, rootDone>>

Absent == [auth |-> 0, meta |-> 0, relay |-> FALSE, is |-> FALSE]
Config(a, m) == [auth |-> a, meta |-> m, relay |-> FALSE, is |-> TRUE]
Gone == [cfg |-> Absent, loop |-> 0, runtime |-> 0]
NoLoop == [id |-> "none", st |-> "done", cfg |-> Absent, cancelled |-> FALSE]
NoRequest == [pc |-> "idle", op |-> "none", id |-> "none", cfg |-> Absent, stop |-> {}, start |-> {},
              wait |-> 0, runtime |-> 0, named |-> FALSE]

Init ==
  /\ \E t \in Ids : /\ file = [i \in Ids |-> IF i = t THEN Config(0, 0) ELSE Absent]
                    /\ tunnels = [i \in Ids |-> IF i = t THEN [cfg |-> Config(0, 0), loop |-> 1, runtime |-> 0] ELSE Gone]
                    /\ loops = [l \in 1 .. MaxLoops |->
                                  IF l = 1 THEN [id |-> t, st |-> "begin", cfg |-> Absent, cancelled |-> FALSE] ELSE NoLoop]
  /\ torn = FALSE /\ made = 1 /\ configMu = "free" /\ req = [q \in Requests |-> NoRequest] /\ ops = 0
  /\ rootDone = FALSE

-----------------------------------------------------------------------------
(* The run loop of a tunnel                                                        *)

Cancelled(l) == loops[l].cancelled \/ rootDone
Set(l, st) == loops' = [loops EXCEPT ![l].st = st]
loopRest == <<file, torn, made, configMu, req, ops, rootDone>>

(* runOnce: the config is copied, then the tunnel is started from the copy.         *)
CopyConfig(l) ==
  /\ loops[l].st = "begin"
  /\ loops' = [loops EXCEPT ![l].st = "starting", ![l].cfg = tunnels[loops[l].id].cfg]
  /\ UNCHANGED <<tunnels>> /\ UNCHANGED loopRest

StartOk(l) ==
  /\ loops[l].st = "starting" /\ Set(l, "running")
  /\ tunnels' = [tunnels EXCEPT ![loops[l].id].runtime = l]
  /\ UNCHANGED loopRest

(* tunnel.Start fails, or the runtime ends: with an error, without one, or because   *)
(* the tunnel was stopped.  The runtime is closed.                                   *)
RunEnds(l) ==
  /\ loops[l].st \in {"starting", "running"}
  /\ \/ Set(l, "failed")
     \/ (Cancelled(l) \/ loops[l].st = "running") /\ Set(l, "ended")
  /\ UNCHANGED tunnels /\ UNCHANGED loopRest

Settle(l) ==
  /\ loops[l].st \in {"failed", "ended"}
  /\ tunnels' = [tunnels EXCEPT ![loops[l].id].runtime = 0]
  /\ Set(l, IF Cancelled(l) \/ loops[l].st = "ended" THEN "done" ELSE "sleep")
  /\ UNCHANGED loopRest

Wake(l) ==
  /\ loops[l].st = "sleep" /\ Set(l, IF Cancelled(l) THEN "done" ELSE "begin")
  /\ UNCHANGED tunnels /\ UNCHANGED loopRest

-----------------------------------------------------------------------------
(* managedTunnel.Stop cancels the loop and forgets it, then waits for its end;       *)
(* Start does nothing while a loop is remembered.                                    *)

StopLoop(id) ==
  LET l == tunnels[id].loop
  IN /\ loops' = [k \in DOMAIN loops |-> IF k = l THEN [loops[k] EXCEPT !.cancelled = TRUE] ELSE loops[k]]
     /\ tunnels' = [tunnels EXCEPT ![id].loop = 0]

StartLoop(id) ==
  IF tunnels[id].loop # 0 \/ ~tunnels[id].cfg.is THEN UNCHANGED <<tunnels, loops, made>>
  ELSE /\ made < MaxLoops /\ made' = made + 1
       /\ loops' = [loops EXCEPT ![made'] = [id |-> id, st |-> "begin", cfg |-> Absent, cancelled |-> FALSE]]
       /\ tunnels' = [tunnels EXCEPT ![id].loop = made']

(* Mutant: Stop returns at once.                                                      *)
StopsAtOnce(l) == TRUE
LoopDone(l) == l # 0 => loops[l].st = "done"

-----------------------------------------------------------------------------
(* A request that changes the config: AddTunnel, DeleteTunnel and UpdateTunnel        *)

(* The config is read and the new one validated; an update that changes nothing       *)
(* writes nothing.  named: the request names the metadata.                            *)
Lock(q, op, id, cfg, named) ==
  /\ req[q].pc = "idle" /\ configMu = "free" /\ ~torn /\ ops < MaxOps /\ ops' = ops + 1
  /\ file[id].is = (op # "add")
  /\ op = "update" => named \/ cfg.meta = file[id].meta
  /\ LET same == op = "update" /\ cfg = file[id]
     IN /\ configMu' = IF same THEN "free" ELSE q
        /\ req' = [req EXCEPT ![q] = [NoRequest EXCEPT !.pc = IF same THEN "settings" ELSE "write", !.op = op,
                                                      !.id = id, !.cfg = cfg, !.named = named]]
  /\ UNCHANGED <<file, torn, tunnels, loops, made, rootDone>>

AddTunnel(q) == \E id \in Ids, a \in Gates, m \in Metas : Lock(q, "add", id, Config(a, m), FALSE)
DeleteTunnel(q) == \E id \in Ids : Lock(q, "delete", id, Absent, FALSE)
UpdateTunnel(q) ==
  \E id \in Ids, a \in Gates, m \in Metas, named \in BOOLEAN : Lock(q, "update", id, Config(a, m), named)

(* writeConfigDocument writes the file in place: a failure may leave part of it, and  *)
(* then every later request is refused when it reads the config.                      *)
WriteFails(q) ==
  /\ req[q].pc = "write" /\ configMu' = "free" /\ req' = [req EXCEPT ![q] = NoRequest]
  /\ torn' \in BOOLEAN
  /\ UNCHANGED <<file, tunnels, loops, made, ops, rootDone>>

(* Mutant: a changed gate is left to the next restart.                                 *)
NeverRestarts(before, after) == FALSE
Restarts(before, after) == before.auth # after.auth

(* updateTunnelConfig puts the saved config into the tunnel, and restarts it if its     *)
(* sign-in settings changed.                                                            *)
WriteUpdate(q) ==
  LET r == req[q] id == r.id
      again == IF Restarts(file[id], r.cfg) THEN {id} ELSE {}
  IN /\ r.pc = "write" /\ r.op = "update"
     /\ file' = [file EXCEPT ![id] = r.cfg] /\ tunnels' = [tunnels EXCEPT ![id].cfg = r.cfg]
     /\ req' = [req EXCEPT ![q].pc = "stopping", ![q].stop = again, ![q].start = again]
     /\ UNCHANGED <<torn, loops, made, configMu, ops, rootDone>>

(* ApplyConfig after AddTunnel or DeleteTunnel: every tunnel whose config differs from   *)
(* the file is restarted, also one with a relay that was connected at run time.          *)
WriteApply(q) ==
  LET r == req[q]
      saved == [file EXCEPT ![r.id] = IF r.op = "add" THEN r.cfg ELSE Absent]
      changed == {i \in Ids : tunnels[i].cfg # saved[i] /\ (tunnels[i].cfg.is \/ saved[i].is)}
  IN /\ r.pc = "write" /\ r.op \in {"add", "delete"}
     /\ file' = saved
     /\ tunnels' = [i \in Ids |-> IF i \notin changed THEN tunnels[i]
                              ELSE [tunnels[i] EXCEPT !.cfg = IF saved[i].is THEN saved[i] ELSE [@ EXCEPT !.is = FALSE]]]
     /\ req' = [req EXCEPT ![q].pc = "stopping", ![q].stop = changed,
                           ![q].start = {i \in changed : saved[i].is}]
     /\ UNCHANGED <<torn, loops, made, configMu, ops, rootDone>>

Stopping(q) ==
  /\ req[q].pc = "stopping"
  /\ \E id \in req[q].stop :
       /\ StopLoop(id)
       /\ req' = [req EXCEPT ![q].pc = "stopped", ![q].stop = @ \ {id}, ![q].wait = tunnels[id].loop]
  /\ UNCHANGED <<file, torn, made, configMu, ops, rootDone>>

Stopped(q) ==
  /\ req[q].pc = "stopped" /\ (LoopDone(req[q].wait) = TRUE)
  /\ req' = [req EXCEPT ![q].pc = "stopping", ![q].wait = 0]
  /\ UNCHANGED <<file, torn, tunnels, loops, made, configMu, ops, rootDone>>

Starting(q) ==
  /\ req[q].pc = "stopping" /\ req[q].stop = {}
  /\ \E id \in req[q].start :
       StartLoop(id) /\ req' = [req EXCEPT ![q].start = @ \ {id}]
  /\ UNCHANGED <<file, torn, configMu, ops, rootDone>>

Unlock(q) ==
  /\ req[q].pc = "stopping" /\ req[q].stop = {} /\ req[q].start = {}
  /\ configMu' = "free"
  /\ req' = [req EXCEPT ![q] = IF @.op = "update" THEN [@ EXCEPT !.pc = "settings"] ELSE NoRequest]
  /\ UNCHANGED <<file, torn, tunnels, loops, made, ops, rootDone>>

(* UpdateSettings, after the lock: runtime and config are read, then metadata that the    *)
(* request names is given to the runtime that was read.                                   *)
ReadSettings(q) ==
  /\ req[q].pc = "settings"
  /\ LET t == tunnels[req[q].id]
     IN req' = [req EXCEPT ![q] = IF t.runtime = 0 \/ ~@.named THEN NoRequest
                                  ELSE [@ EXCEPT !.pc = "push", !.runtime = t.runtime, !.cfg = t.cfg]]
  /\ UNCHANGED <<file, torn, tunnels, loops, made, configMu, ops, rootDone>>

PushSettings(q) ==
  /\ req[q].pc = "push"
  /\ loops' = [loops EXCEPT ![req[q].runtime].cfg.meta = IF loops[req[q].runtime].st = "running"
                                                         THEN req[q].cfg.meta ELSE @]
  /\ req' = [req EXCEPT ![q] = NoRequest]
  /\ UNCHANGED <<file, torn, tunnels, made, configMu, ops, rootDone>>

(* ConnectRelay and DisconnectRelay change the tunnel's config, not the file, and then    *)
(* the runtime.                                                                           *)
SetRelay(q, id, on) ==
  /\ req[q].pc = "idle" /\ tunnels[id].cfg.is /\ tunnels[id].cfg.relay # on /\ ops < MaxOps /\ ops' = ops + 1
  /\ tunnels' = [tunnels EXCEPT ![id].cfg.relay = on]
  /\ req' = [req EXCEPT ![q] = IF tunnels[id].runtime = 0 THEN @
                               ELSE [NoRequest EXCEPT !.pc = "relay", !.runtime = tunnels[id].runtime, !.named = on]]
  /\ UNCHANGED <<file, torn, loops, made, configMu, rootDone>>

PushRelay(q) ==
  /\ req[q].pc = "relay"
  /\ loops' = [loops EXCEPT ![req[q].runtime].cfg.relay = IF loops[req[q].runtime].st = "running"
                                                          THEN req[q].named ELSE @]
  /\ req' = [req EXCEPT ![q] = NoRequest]
  /\ UNCHANGED <<file, torn, tunnels, made, configMu, ops, rootDone>>

-----------------------------------------------------------------------------
(* Run: the context ends, manager.Stop stops every tunnel and waits with a deadline;      *)
(* requests in progress go on.                                                            *)
Shutdown == ~rootDone /\ rootDone' = TRUE /\ UNCHANGED <<file, torn, tunnels, loops, made, configMu, req, ops>>

StopTunnel(id) ==
  /\ rootDone /\ tunnels[id].loop # 0 /\ StopLoop(id)
  /\ UNCHANGED <<file, torn, made, configMu, req, ops, rootDone>>

LoopStep(l) == CopyConfig(l) \/ StartOk(l) \/ RunEnds(l) \/ Settle(l) \/ Wake(l)
RequestStep(q) ==
  \/ WriteFails(q) \/ WriteUpdate(q) \/ WriteApply(q) \/ Stopping(q) \/ Stopped(q) \/ Starting(q)
  \/ Unlock(q) \/ ReadSettings(q) \/ PushSettings(q) \/ PushRelay(q)

Next ==
  \/ \E l \in 1 .. MaxLoops : LoopStep(l)
  \/ \E q \in Requests : \/ RequestStep(q)
                         \/ AddTunnel(q) \/ DeleteTunnel(q) \/ UpdateTunnel(q)
                         \/ \E id \in Ids, on \in BOOLEAN : SetRelay(q, id, on)
  \/ Shutdown
  \/ \E id \in Ids : StopTunnel(id)

Spec == Init /\ [][Next]_vars

-----------------------------------------------------------------------------
TypeOK ==
  /\ DOMAIN file = Ids /\ torn \in BOOLEAN /\ configMu \in Requests \cup {"free"} /\ made \in 1 .. MaxLoops
  /\ \A l \in 1 .. MaxLoops : loops[l].st \in {"begin", "starting", "running", "failed", "ended", "sleep", "done"}
  /\ \A i \in Ids : tunnels[i].loop \in 0 .. made /\ tunnels[i].runtime \in 0 .. made

Live(id) == {l \in 1 .. MaxLoops : loops[l].id = id /\ loops[l].st # "done"}

(* Until the agent shuts down, one identity is never run twice: the new run loop of a     *)
(* tunnel starts after the old one has ended and closed its runtime, and the runtime that  *)
(* requests are given to is the one of that loop.                                          *)
OneRuntime ==
  ~rootDone => \A id \in Ids : /\ Cardinality(Live(id)) <= 1
                               /\ tunnels[id].runtime # 0 => tunnels[id].runtime \in Live(id)

(* A tunnel that serves is guarded by the sign-in settings in config.toml: whenever no     *)
(* change is being applied, whatever failed, was retried or was refused before; and a      *)
(* tunnel that is not in the file does not run.                                            *)
GateIsSaved ==
  configMu = "free" /\ ~torn /\ ~rootDone =>
    \A l \in 1 .. MaxLoops :
      /\ loops[l].st = "running" => loops[l].cfg.auth = file[loops[l].id].auth
      /\ loops[l].st # "done" => file[loops[l].id].is

AgentSound == OneRuntime /\ GateIsSaved

=============================================================================
