------------------------------ MODULE MCPGateway ------------------------------
(***************************************************************************)
(* tools/mcp/gateway.go: the map of MCP servers, composed with the server    *)
(* connections and the tool registry.  Start, Reconfigure and Stop hold the  *)
(* gateway's lock throughout, so one of them runs at a time (gw); the tool   *)
(* calls of MCPServer and the host's use of ToolRegistry interleave with     *)
(* every step.                                                               *)
(***************************************************************************)
EXTENDS MCPServer

CONSTANTS
    ServerNames,
    Configurations,    \* GatewayConfig.Servers: functions from sets of names to entries
    Dirs,              \* working directories
    MaxReconfigures, MaxMoves, MaxHostOps   \* bounds on the host's calls

(* ServerEntry: a timeout that is not positive is not set.                   *)
Entries == [id : STRING, transport : STRING, dir : Dirs \union {"none"}, timeout : Int, call : Int, group : STRING]

ASSUME GatewayConstants ==
    /\ \A w \in Configurations : DOMAIN w \subseteq ServerNames /\ \A n \in DOMAIN w : w[n] \in Entries
    /\ MaxReconfigures \in Nat /\ MaxMoves \in Nat /\ MaxHostOps \in Nat

VARIABLES
    servers,     \* the Server of each name, 0 for none
    configs,     \* expandedConfigs
    failed,      \* the names in failedServers
    defaultDir, stopped,
    gw,          \* the operation that holds the lock; before (history): what the last one wanted
    used         \* how many Server objects, reconfigures, moves and host calls so far

gatewayVars == <<servers, configs, failed, defaultDir, stopped, gw, used>>
vars == <<registryVars, serverVars, gatewayVars>>

Live == {n \in ServerNames : servers[n] # 0}

Init ==
    /\ RegistryInit /\ ServerInit
    /\ servers = [n \in ServerNames |-> 0]
    /\ configs = [n \in ServerNames |-> NoConfig]
    /\ failed = {} /\ stopped = FALSE
    /\ defaultDir \in Dirs
    /\ gw = [op |-> "none", pc |-> "new", want |-> <<>>, before |-> <<>>, current |-> {}, todo |-> {}, cur |-> "none",
             reg |-> {}, dir |-> "none", aborted |-> FALSE]
    /\ used = [conns |-> 0, reconfigures |-> 0, moves |-> 0, host |-> 0]

TypeOK ==
    /\ \A n \in ToolNames : reg[n].tool.kind \in {"none", "core", "mcp"} /\ reg[n].cat \in {"none", "core", "mcp"}
    /\ overrides \in [ToolNames -> Policies \union {"none"}]
    /\ settings \in [validate : BOOLEAN, confirm : BOOLEAN]
    /\ \A c \in Callers : call[c].pc \in {"idle", "validate", "policy", "confirm", "asking", "run", "joined", "remote"}
    /\ \A k \in Conns : conn[k].timeouts \in 0 .. Threshold /\ conn[k].tools \subseteq ToolNames
    /\ servers \in [ServerNames -> Conns \union {0}] /\ failed \subseteq ServerNames
    /\ defaultDir \in Dirs /\ stopped \in BOOLEAN

-----------------------------------------------------------------------------
(* Configurations                                                            *)

DefaultWorkDirFor(dir) == IF dir # "none" THEN dir ELSE defaultDir

ServerConfigFromEntry(entry) == [entry |-> entry, dir |-> DefaultWorkDirFor(entry.dir)]

(* What a connection captures when it is made, directory apart.              *)
Captured(entry) ==
    [id |-> entry.id, transport |-> entry.transport, bounds |-> ResolveTimeoutBounds(entry),
     group |-> EffectiveToolGroup(entry.group, entry.transport)]

(* Mutant: only the raw fields of the process or endpoint are compared.      *)
ConfigChangedIdOnly(n, cfg) == configs[n] = NoConfig \/ configs[n].entry.id # cfg.entry.id

ConfigChanged(n, cfg) ==
    \/ configs[n] = NoConfig
    \/ Captured(configs[n].entry) # Captured(cfg.entry)
    \/ configs[n].dir # cfg.dir

(* Mutant: a pure field write, the recorded directories stay behind.         *)
SetDefaultWorkDirPlain(dir) ==
    /\ gw.pc = "idle" /\ used.moves < MaxMoves
    /\ defaultDir' = dir
    /\ used' = [used EXCEPT !.moves = @ + 1]
    /\ UNCHANGED <<registryVars, serverVars, servers, configs, failed, stopped, gw>>

(* A move of the default is recorded for every server that runs in it.       *)
SetDefaultWorkDir(dir) ==
    /\ gw.pc = "idle" /\ used.moves < MaxMoves
    /\ defaultDir' = dir
    /\ configs' = [n \in ServerNames |-> IF configs[n] # NoConfig /\ configs[n].dir = defaultDir
                                         THEN [configs[n] EXCEPT !.dir = dir] ELSE configs[n]]
    /\ used' = [used EXCEPT !.moves = @ + 1]
    /\ UNCHANGED <<registryVars, serverVars, servers, failed, stopped, gw>>

-----------------------------------------------------------------------------
(* Start, RegisterTools                                                      *)

StartGateway(want) ==
    /\ gw.pc = "new" /\ DOMAIN want # {}
    /\ gw' = [gw EXCEPT !.op = "start", !.pc = "pick", !.want = want, !.todo = DOMAIN want]
    /\ UNCHANGED <<registryVars, serverVars, servers, configs, failed, defaultDir, stopped, used>>

ConnectNew(n) ==
    /\ used.conns + 1 \in Conns
    /\ Connect(used.conns + 1, ServerConfigFromEntry(gw.want[n]))
    /\ used' = [used EXCEPT !.conns = @ + 1]
    /\ gw' = [gw EXCEPT !.cur = n, !.pc = "connecting"]

NextServer(n) ==
    /\ gw.pc = "pick" /\ n \in gw.todo /\ n \notin gw.current
    /\ gw.op = "start" => ~proc.ctx
    /\ ConnectNew(n)
    /\ UNCHANGED <<registryVars, servers, configs, failed, defaultDir, stopped>>

(* Start stops dialling once its context is done.                            *)
AbortStart ==
    /\ gw.pc = "pick" /\ gw.op = "start" /\ gw.todo # {} /\ proc.ctx
    /\ gw' = [gw EXCEPT !.todo = {}, !.aborted = TRUE]
    /\ UNCHANGED <<registryVars, serverVars, servers, configs, failed, defaultDir, stopped, used>>

Done == gw.todo \ {gw.cur}

ConnectReturns ==
    /\ gw.pc = "connecting" /\ ProcAt("idle")
    /\ IF proc.out = "ok"
       THEN Procedure(proc.k, "list", "none") /\ gw' = [gw EXCEPT !.pc = "discovering"] /\ UNCHANGED failed
       ELSE /\ failed' = failed \union {gw.cur}
            /\ gw' = [gw EXCEPT !.pc = "pick", !.todo = Done]
            /\ UNCHANGED proc
    /\ UNCHANGED <<registryVars, conn, servers, configs, defaultDir, stopped, used>>

(* Mutant: a server whose discovery failed is dropped without being closed.  *)
DiscoverFailsNoClose ==
    /\ gw.pc = "discovering" /\ ProcAt("idle") /\ proc.out # "ok"
    /\ failed' = failed \union {gw.cur}
    /\ gw' = [gw EXCEPT !.pc = "pick", !.todo = Done]
    /\ UNCHANGED <<registryVars, serverVars, servers, configs, defaultDir, stopped, used>>

DiscoverFails ==
    /\ gw.pc = "discovering" /\ ProcAt("idle") /\ proc.out # "ok"
    /\ Procedure(proc.k, "detach", "none")
    /\ failed' = failed \union {gw.cur}
    /\ gw' = [gw EXCEPT !.pc = "discarding"]
    /\ UNCHANGED <<registryVars, conn, servers, configs, defaultDir, stopped, used>>

Discarded ==
    /\ gw.pc = "discarding" /\ ProcAt("idle")
    /\ gw' = [gw EXCEPT !.pc = "pick", !.todo = Done]
    /\ UNCHANGED <<registryVars, serverVars, servers, configs, failed, defaultDir, stopped, used>>

(* Reconfigure registers the tools at once, Start after all the servers.     *)
DiscoverSucceeds ==
    /\ gw.pc = "discovering" /\ ProcAt("idle") /\ proc.out = "ok"
    /\ servers' = [servers EXCEPT ![gw.cur] = proc.k]
    /\ configs' = [configs EXCEPT ![gw.cur] = conn[proc.k].cfg]
    /\ failed' = failed \ {gw.cur}
    /\ gw' = IF gw.op = "start" THEN [gw EXCEPT !.pc = "pick", !.todo = Done]
             ELSE [gw EXCEPT !.pc = "register", !.todo = Done, !.reg = {gw.cur} \X conn[proc.k].tools]
    /\ UNCHANGED <<registryVars, serverVars, defaultDir, stopped, used>>

AllServersTried ==
    /\ gw.pc = "pick" /\ gw.todo = {}
    /\ gw' = [gw EXCEPT !.pc = "register",
                        !.reg = IF gw.op = "start" THEN UNION {{n} \X conn[servers[n]].tools : n \in Live} ELSE {},
                        !.op = IF gw.op = "start" THEN "started" ELSE "reconfigured"]
    /\ UNCHANGED <<registryVars, serverVars, servers, configs, failed, defaultDir, stopped, used>>

(* One registration per critical section of the registry.                    *)
RegisterTool ==
    /\ gw.pc = "register"
    /\ \E p \in gw.reg :
         /\ registerLocked(p[2], McpTool(servers[p[1]]), p[1], "mcp")
         /\ gw' = [gw EXCEPT !.reg = @ \ {p}]
    /\ UNCHANGED <<settings, call, serverVars, servers, configs, failed, defaultDir, stopped, used>>

AllRegistered ==
    /\ gw.pc = "register" /\ gw.reg = {}
    /\ IF gw.op = "reconfigure"
       THEN gw' = [gw EXCEPT !.pc = "pick"] /\ UNCHANGED proc
       ELSE gw' = [gw EXCEPT !.pc = "idle", !.cur = "none", !.current = {}, !.before = <<>>] /\ proc' = IdleProc
    /\ UNCHANGED <<registryVars, conn, servers, configs, failed, defaultDir, stopped, used>>

-----------------------------------------------------------------------------
(* Reconfigure                                                               *)

(* Mutant: a stopped gateway is reconfigured like any other.                 *)
ReconfigureAlways(want, dir) ==
    /\ gw.pc = "idle" /\ used.reconfigures < MaxReconfigures
    /\ gw' = [gw EXCEPT !.op = "reconfigure", !.pc = "remove", !.want = want, !.before = gw.want, !.current = Live,
                        !.todo = Live \ DOMAIN want, !.dir = dir, !.aborted = FALSE]
    /\ used' = [used EXCEPT !.reconfigures = @ + 1]
    /\ UNCHANGED <<registryVars, serverVars, servers, configs, failed, defaultDir, stopped>>

Reconfigure(want, dir) ==
    /\ gw.pc = "idle" /\ ~stopped /\ used.reconfigures < MaxReconfigures
    /\ gw' = [gw EXCEPT !.op = "reconfigure", !.pc = "remove", !.want = want, !.before = gw.want, !.current = Live,
                        !.todo = Live \ DOMAIN want, !.dir = dir, !.aborted = FALSE]
    /\ used' = [used EXCEPT !.reconfigures = @ + 1]
    /\ UNCHANGED <<registryVars, serverVars, servers, configs, failed, defaultDir, stopped>>

(* Unregister first, then close: a removed server, or a changed one.         *)
CloseServer(n, pc) ==
    /\ UnregisterBySource(n)
    /\ Procedure(servers[n], "detach", "none")
    /\ gw' = [gw EXCEPT !.cur = n, !.pc = pc]

RemoveServer(n) ==
    /\ gw.pc = "remove" /\ n \in gw.todo
    /\ CloseServer(n, "removing")
    /\ UNCHANGED <<settings, call, conn, servers, configs, failed, defaultDir, stopped, used>>

ForgetServer(n) ==
    /\ servers' = [servers EXCEPT ![n] = 0]
    /\ configs' = [configs EXCEPT ![n] = NoConfig]

Removed ==
    /\ gw.pc = "removing" /\ ProcAt("idle")
    /\ ForgetServer(gw.cur)
    /\ gw' = [gw EXCEPT !.pc = "remove", !.todo = Done]
    /\ UNCHANGED <<registryVars, serverVars, failed, defaultDir, stopped, used>>

(* Failure records of names that left, then the new default directory.       *)
AllRemoved ==
    /\ gw.pc = "remove" /\ gw.todo = {}
    /\ failed' = failed \intersect DOMAIN gw.want
    /\ defaultDir' = IF gw.dir # "none" THEN gw.dir ELSE defaultDir
    /\ gw' = [gw EXCEPT !.pc = "pick", !.todo = DOMAIN gw.want]
    /\ UNCHANGED <<registryVars, serverVars, servers, configs, stopped, used>>

Changed(n) == ConfigChanged(n, ServerConfigFromEntry(gw.want[n]))

KeepServer(n) ==
    /\ gw.pc = "pick" /\ n \in gw.todo \intersect gw.current /\ ~Changed(n)
    /\ gw' = [gw EXCEPT !.todo = @ \ {n}]
    /\ UNCHANGED <<registryVars, serverVars, servers, configs, failed, defaultDir, stopped, used>>

ChangeServer(n) ==
    /\ gw.pc = "pick" /\ n \in gw.todo \intersect gw.current /\ Changed(n)
    /\ CloseServer(n, "changing")
    /\ UNCHANGED <<settings, call, conn, servers, configs, failed, defaultDir, stopped, used>>

ChangedClosed ==
    /\ gw.pc = "changing" /\ ProcAt("idle")
    /\ ForgetServer(gw.cur)
    /\ ConnectNew(gw.cur)
    /\ UNCHANGED <<registryVars, failed, defaultDir, stopped>>

-----------------------------------------------------------------------------
(* Stop; the host                                                            *)

Stop ==
    /\ gw.pc = "idle" /\ ~stopped
    /\ gw' = [gw EXCEPT !.op = "stop", !.pc = "stop", !.todo = Live]
    /\ UNCHANGED <<registryVars, serverVars, servers, configs, failed, defaultDir, stopped, used>>

(* The tools stay registered; their calls find no connection.                *)
StopServer(n) ==
    /\ gw.pc = "stop" /\ n \in gw.todo
    /\ Procedure(servers[n], "detach", "none")
    /\ gw' = [gw EXCEPT !.cur = n, !.pc = "stopping"]
    /\ UNCHANGED <<registryVars, conn, servers, configs, failed, defaultDir, stopped, used>>

ServerStopped ==
    /\ gw.pc = "stopping" /\ ProcAt("idle")
    /\ gw' = [gw EXCEPT !.pc = "stop", !.todo = Done]
    /\ UNCHANGED <<registryVars, serverVars, servers, configs, failed, defaultDir, stopped, used>>

AllStopped ==
    /\ gw.pc = "stop" /\ gw.todo = {}
    /\ servers' = [n \in ServerNames |-> 0]
    /\ configs' = [n \in ServerNames |-> NoConfig]
    /\ failed' = {} /\ stopped' = TRUE
    /\ gw' = [gw EXCEPT !.pc = "idle", !.op = "stopped", !.cur = "none"]
    /\ proc' = IdleProc
    /\ UNCHANGED <<registryVars, conn, defaultDir, used>>

(* The host's calls; one that clears an override is bounded by those that    *)
(* set one.                                                                  *)
HostStep ==
    /\ \/ /\ used.host < MaxHostOps /\ used' = [used EXCEPT !.host = @ + 1]
          /\ \/ \E n \in ToolNames, t \in CoreTools : Register(n, t)
             \/ \E n \in ToolNames : Unregister(n)
             \/ \E n \in ToolNames, p \in HostPolicies : SetPolicyOverride(n, p)
       \/ \E n \in ToolNames : ClearPolicyOverride(n) /\ UNCHANGED used
    /\ UNCHANGED <<serverVars, servers, configs, failed, defaultDir, stopped, gw>>

GatewayStep ==
    \/ \E n \in ServerNames : NextServer(n) \/ RemoveServer(n) \/ KeepServer(n) \/ ChangeServer(n) \/ StopServer(n)
    \/ AbortStart \/ ConnectReturns \/ DiscoverFails \/ Discarded \/ DiscoverSucceeds \/ AllServersTried
    \/ RegisterTool \/ AllRegistered \/ Removed \/ AllRemoved \/ ChangedClosed \/ ServerStopped \/ AllStopped

Next ==
    \/ \E want \in Configurations : StartGateway(want) \/ \E dir \in Dirs \union {"none"} : Reconfigure(want, dir)
    \/ \E dir \in Dirs : SetDefaultWorkDir(dir)
    \/ Stop \/ HostStep \/ GatewayStep
    \/ ProcStep /\ UNCHANGED gatewayVars
    \/ CancelConnect /\ UNCHANGED gatewayVars
    \/ \E k \in Conns : StartReturns(k) /\ UNCHANGED gatewayVars
    \/ \E c \in Callers : ExecuteStep(c) /\ UNCHANGED <<serverVars, gatewayVars>>
    \/ \E c \in Callers : RemoteStep(c) /\ UNCHANGED gatewayVars
    \/ Tick /\ UNCHANGED gatewayVars

Spec == Init /\ [][Next]_vars

-----------------------------------------------------------------------------
(* Properties                                                                *)

Settled == gw.pc = "idle" /\ ~stopped

(* Between operations, whatever failed inside them: the two maps agree, every *)
(* configured server is live with the settings asked for or recorded as       *)
(* failed, and nothing else is (a start that was aborted may leave some out). *)
MapsAgree ==
    Settled =>
      /\ \A n \in ServerNames : servers[n] = 0 <=> configs[n] = NoConfig
      /\ \A n \in Live : n \in DOMAIN gw.want /\ conn[servers[n]].client
                         /\ Captured(conn[servers[n]].cfg.entry) = Captured(gw.want[n])
      /\ failed \subseteq DOMAIN gw.want \ Live
      /\ ~gw.aborted => DOMAIN gw.want = Live \union failed

(* Between operations every MCP tool in the registry belongs to the live      *)
(* connection of its server: a reconnect or a removal leaves no tool behind   *)
(* that calls into a closed connection.                                       *)
NoDanglingTool ==
    Settled => \A n \in ToolNames : reg[n].cat = "mcp" => reg[n].tool.conn = servers[reg[n].source]

(* No connection is lost: every transport that is up is in the map or in the  *)
(* hands of the operation under way, and none survives Stop.                  *)
NoLeakedConnection ==
    \A k \in Conns : conn[k].transport = "up" =>
        (\E n \in ServerNames : servers[n] = k) \/ (gw.pc # "idle" /\ proc.k = k)

(* What Stop has closed stays closed: no later operation dials a server.      *)
StopIsFinal == stopped => Live = {} /\ \A k \in Conns : conn[k].transport # "up"

(* A server that inherits the default directory is not restarted because the  *)
(* default was moved by SetDefaultWorkDir: Reconfigure closes a server that   *)
(* stays only for a setting that differs from what was wanted last, for a     *)
(* directory of its own, before or after, or for a default directory that     *)
(* the call itself brings.                                                    *)
NoChurn ==
    gw.pc = "changing" =>
        LET old == gw.before[gw.cur]
            new == gw.want[gw.cur]
        IN Captured(old) # Captured(new) \/ old.dir # "none" \/ new.dir # "none" \/ gw.dir # "none"

(* After any sequence of Start, Reconfigure, SetDefaultWorkDir and Stop with *)
(* failures inside: servers, configurations, failure records, registry and   *)
(* transports tell one story, and no server is restarted or left running     *)
(* without cause.                                                            *)
GatewayConsistent ==
    /\ TypeOK
    /\ MapsAgree
    /\ NoDanglingTool
    /\ NoLeakedConnection
    /\ StopIsFinal
    /\ NoChurn

(* What a caller relies on stays as it was: no transport is taken away from  *)
(* under a call in flight, a Start still dialling or a stream that was       *)
(* handed out; an override dies with the registration it was set for, and    *)
(* the tool that runs is the one that was confirmed, although hosts and      *)
(* reconnects replace tools at any moment.                                   *)
CallersSafe ==
    /\ CloseWaitsForCalls
    /\ NoCloseDuringStart
    /\ LiveStreamNotCancelled
    /\ OverrideBelongsToTool
    /\ ConfirmedToolRuns
=============================================================================
