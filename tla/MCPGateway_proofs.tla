-------------------------- MODULE MCPGateway_proofs --------------------------
(***************************************************************************)
(* Proofs about MCPGateway, MCPServer and ToolRegistry for any sets of       *)
(* tools, callers, servers, configurations and directories.                  *)
(***************************************************************************)
EXTENDS MCPGateway, TLAPS

(* The phases of the operation that holds the gateway's lock, and of the     *)
(* procedure it waits for.                                                   *)
Dialling == gw.pc \in {"connecting", "discovering", "discarding"}
Picking  == gw.pc \in {"pick", "register", "changing", "connecting", "discovering", "discarding"}
Removing == gw.pc \in {"remove", "removing"}
Stopping == gw.pc \in {"stop", "stopping"}
ConnectPcs == {"create", "race", "reap", "init", "fail"}
ClosePcs == {"detach", "drain", "close"}

(* Connection k was made before, and is not the one being made.              *)
HandedOut(k) == k \in Conns /\ k <= used.conns /\ ~(Dialling /\ k = proc.k)

-----------------------------------------------------------------------------
(* Types                                                                     *)

ToolRecords == [kind : {"none", "core", "mcp"}, conn : Nat, policy : Policies,
                judger : BOOLEAN, untrusted : BOOLEAN]

RegistryType ==
    /\ reg \in [ToolNames -> [tool : ToolRecords, source : ServerNames \union {"none"},
                              cat : {"none", "core", "mcp"}]]
    /\ overrides \in [ToolNames -> Policies \union {"none"}]
    /\ grantedTo \in [ToolNames -> ToolRecords]
    /\ settings \in [validate : BOOLEAN, confirm : BOOLEAN]

CallRecords ==
    [pc : {"idle", "validate", "policy", "confirm", "asking", "run", "joined", "remote"},
     name : ToolNames \union {"none"}, tool : ToolRecords, asked : ToolRecords,
     left : Nat, lag : Nat, cancelled : BOOLEAN]

CallType == call \in [Callers -> CallRecords]

UnsetEntry == [id |-> "none"]
ConfigRecords == [entry : Entries \union {UnsetEntry}, dir : Dirs \union {"none"}]
ConnRecords ==
    [cfg : ConfigRecords, client : BOOLEAN, transport : {"none", "up", "closed"},
     child : BOOLEAN, start : {"idle", "running", "ok", "failed"}, cancelled : BOOLEAN,
     tools : SUBSET ToolNames, timeouts : 0 .. Threshold]

ConnType == conn \in [Conns -> ConnRecords]

ProcType ==
    proc \in [pc : {"idle", "list"} \union ConnectPcs \union ClosePcs,
              k : Conns \union {0}, via : {"none", "stream", "sse", "stdio"},
              ctx : BOOLEAN, left : Nat, out : {"none", "ok", "err"}]

GwType ==
    /\ servers \in [ServerNames -> Conns \union {0}]
    /\ configs \in [ServerNames -> ConfigRecords]
    /\ failed \subseteq ServerNames /\ defaultDir \in Dirs /\ stopped \in BOOLEAN
    /\ gw \in [op : {"none", "start", "started", "reconfigure", "reconfigured", "stop", "stopped"},
               pc : {"new", "idle", "pick", "register", "connecting", "discovering",
                     "discarding", "remove", "removing", "changing", "stop", "stopping"},
               want : Configurations \union {<<>>}, before : Configurations \union {<<>>},
               current : SUBSET ServerNames, todo : SUBSET ServerNames, cur : ServerNames \union {"none"},
               reg : SUBSET (ServerNames \X ToolNames), dir : Dirs \union {"none"},
               aborted : BOOLEAN]
    /\ used \in [conns : Nat, reconfigures : Nat, moves : Nat, host : Nat]

-----------------------------------------------------------------------------
(* Registry and calls                                                        *)

(* A tool is an MCP tool exactly in its category, and an MCP tool calls      *)
(* into a connection that was handed out.                                    *)
ToolsInv ==
    /\ \A n \in ToolNames : /\ reg[n].cat = "mcp" <=> reg[n].tool.kind = "mcp"
                            /\ reg[n].tool.kind = "mcp" => HandedOut(reg[n].tool.conn)
    /\ \A c \in Callers : call[c].tool.kind = "mcp" => HandedOut(call[c].tool.conn)

(* The user was asked about the tool at hand, or not at all.                 *)
AskedInv == \A c \in Callers : call[c].asked \in {NoTool, call[c].tool}

(* A call of the inflight group has at most its bound left.                  *)
RemoteInv ==
    \A c \in Callers : Joined(c) =>
        call[c].tool.kind = "mcp" /\ call[c].left <= CallBound(call[c].tool.conn)

-----------------------------------------------------------------------------
(* Connections                                                               *)

(* Which operation waits for which procedure, and on which connection.       *)
PhaseInv ==
    /\ proc.pc \in ConnectPcs => gw.pc = "connecting"
    /\ proc.pc = "list" => gw.pc = "discovering"
    /\ proc.pc \in ClosePcs => gw.pc \in {"discarding", "removing", "changing", "stopping"}
    /\ gw.pc \in {"new", "idle"} => proc = IdleProc
    /\ Dialling => proc.k \in Conns /\ proc.k = used.conns
    /\ gw.pc \in {"removing", "changing", "stopping"} =>
           gw.cur \in Live /\ proc.k = servers[gw.cur]

(* The Start goroutine runs only while its race is open, and its context is  *)
(* not cancelled unless the race is lost.                                    *)
StartInv ==
    /\ \A k \in Conns : conn[k].start = "running" => proc.k = k /\ proc.pc \in {"race", "reap"}
    /\ proc.pc \in {"race", "init"} => ~conn[proc.k].cancelled

(* Transports and clients by the phase of the procedure.                     *)
ClientInv ==
    /\ \A k \in Conns : conn[k].client => conn[k].transport = "up" /\ ~conn[k].cancelled
    /\ proc.pc \in ConnectPcs \ {"create"} => conn[proc.k].transport = "up"
    /\ proc.pc = "create" => conn[proc.k].transport # "up"
    /\ proc.pc \in ConnectPcs \union {"drain", "close"} => ~conn[proc.k].client
    /\ gw.pc = "connecting" /\ proc.pc = "idle" =>
           IF proc.out = "ok" THEN conn[proc.k].client ELSE conn[proc.k].transport # "up"
    /\ gw.pc = "discovering" => conn[proc.k].client
    /\ gw.pc \in {"discarding", "removing", "changing", "stopping"} /\ proc.pc = "idle" =>
           conn[proc.k].transport # "up"

(* While Close drains, a call in flight has more time left than the drain    *)
(* by no more than it was late to start its deadline.                        *)
DrainInv ==
    /\ proc.pc = "drain" => \A c \in Inflight(proc.k) : call[c].left <= proc.left + call[c].lag
    /\ proc.pc = "close" => \A c \in Inflight(proc.k) : call[c].left <= call[c].lag

(* A transport that is up is in the map or being made or discarded.          *)
OwnerInv ==
    \A k \in Conns : conn[k].transport = "up" =>
        (\E n \in ServerNames : servers[n] = k) \/ (Dialling /\ proc.k = k)

-----------------------------------------------------------------------------
(* The gateway's maps                                                        *)

(* Live servers have connections of their own, with their recorded entries.  *)
LiveInv ==
    /\ \A n \in ServerNames : servers[n] = 0 <=> configs[n] = NoConfig
    /\ \A n \in Live : /\ HandedOut(servers[n])
                       /\ configs[n].entry = conn[servers[n]].cfg.entry
                       /\ \/ conn[servers[n]].client \/ Stopping
                          \/ gw.pc \in {"removing", "changing"} /\ n = gw.cur
    /\ \A n, m \in Live : servers[n] = servers[m] => n = m
    /\ \A k \in Conns : k <= used.conns => conn[k].cfg.entry \in Entries
    /\ gw.pc = "new" => Live = {} /\ failed = {} /\ gw.current = {}
    /\ failed \intersect Live = {}

(* A server that was last wanted without a directory is recorded with the    *)
(* default one, unless a Reconfigure with a new default has still to look at *)
(* it.                                                                       *)
DirInv ==
    /\ gw.pc = "idle" => \A n \in Live : gw.want[n].dir = "none" => configs[n].dir = defaultDir
    /\ Removing => \A n \in Live : gw.before[n].dir = "none" => configs[n].dir = defaultDir
    /\ Picking => \A n \in Live :
           IF n \in gw.todo THEN gw.before[n].dir = "none" => configs[n].dir = defaultDir \/ gw.dir # "none"
                           ELSE gw.want[n].dir = "none" => configs[n].dir = defaultDir

(* A server that Reconfigure has still to look at is as it was last wanted.  *)
BeforeInv ==
    \A n \in Live : Removing \/ (Picking /\ n \in gw.todo) =>
        Captured(conn[servers[n]].cfg.entry) = Captured(gw.before[n])

(* The loop over the wanted servers: the live ones are the current ones not  *)
(* yet looked at and the wanted ones that are done.                          *)
PickInv ==
    Picking =>
        /\ gw.op \in {"start", "reconfigure", "started", "reconfigured"}
        /\ gw.op \in {"started", "reconfigured"} => gw.pc = "register" /\ gw.todo = {}
        /\ gw.op = "start" => gw.current = {}
        /\ gw.pc = "register" => gw.op # "start"
        /\ gw.todo \subseteq DOMAIN gw.want
        /\ Live \subseteq DOMAIN gw.want /\ failed \subseteq DOMAIN gw.want
        /\ \A n \in Live : n \in gw.todo => n \in gw.current
        /\ \A n \in Live \ gw.todo : Captured(conn[servers[n]].cfg.entry) = Captured(gw.want[n])
        /\ \A n \in gw.current \intersect gw.todo : n \in Live \/ (Dialling /\ n = gw.cur)
        /\ ~gw.aborted => DOMAIN gw.want \ gw.todo \subseteq Live \union failed
        /\ gw.pc = "register" => gw.reg \subseteq Live \X ToolNames

(* The connection being made is for the wanted entry of a server that is     *)
(* not live.                                                                 *)
DialInv ==
    /\ Dialling => gw.cur \in gw.todo /\ gw.cur \notin Live
    /\ gw.pc \in {"connecting", "discovering"} =>
           conn[proc.k].cfg = ServerConfigFromEntry(gw.want[gw.cur])
    /\ gw.pc = "discarding" => gw.cur \in failed
    /\ gw.pc = "changing" => gw.cur \in gw.todo \intersect gw.current

(* The first loop of Reconfigure removes the servers that are not wanted.    *)
RemoveInv ==
    Removing =>
        /\ gw.op = "reconfigure" /\ ~gw.aborted
        /\ gw.todo \subseteq Live /\ gw.todo \intersect DOMAIN gw.want = {}
        /\ Live \ DOMAIN gw.want \subseteq gw.todo
        /\ Live \subseteq gw.current /\ gw.current \intersect DOMAIN gw.want \subseteq Live
        /\ gw.pc = "removing" => gw.cur \in gw.todo

(* Stop closes the servers one by one.                                       *)
StopInv ==
    /\ Stopping => /\ gw.todo \subseteq Live /\ ~stopped
                   /\ \A n \in Live \ gw.todo : conn[servers[n]].transport # "up"
                   /\ gw.pc = "stopping" => gw.cur \in gw.todo
    /\ stopped => gw.pc = "idle"

(* MCP tools belong to the live connection of their source; a server that    *)
(* is being closed has none.                                                 *)
SourceInv ==
    /\ ~stopped => \A n \in ToolNames : reg[n].cat = "mcp" =>
           reg[n].source \in ServerNames /\ servers[reg[n].source] = reg[n].tool.conn
    /\ gw.pc \in {"removing", "changing"} =>
           \A n \in ToolNames : reg[n].cat = "mcp" => reg[n].source # gw.cur

IInv ==
    /\ RegistryType /\ CallType /\ ConnType /\ ProcType /\ GwType
    /\ ToolsInv /\ AskedInv /\ RemoteInv /\ OverrideBelongsToTool
    /\ PhaseInv /\ StartInv /\ ClientInv /\ DrainInv /\ OwnerInv
    /\ CloseWaitsForCalls /\ NoCloseDuringStart
    /\ LiveInv /\ DirInv /\ BeforeInv /\ PickInv /\ DialInv /\ RemoveInv /\ StopInv /\ SourceInv
    /\ MapsAgree /\ StopIsFinal /\ NoChurn

-----------------------------------------------------------------------------
(* Constants and operators                                                   *)

(* The initial records are of their types; 0 stands for no connection.       *)
LEMMA Basics ==
    /\ NoTool \in ToolRecords /\ CoreTools \subseteq ToolRecords
    /\ \A t \in CoreTools : t.kind = "core"
    /\ \A k \in Nat : McpTool(k) \in ToolRecords
    /\ IdleCall \in CallRecords
    /\ 0 \notin Conns /\ Conns \subseteq Nat
    /\ 0 \in 0 .. Threshold
<1>1. 0 \notin Conns /\ Conns \subseteq Nat /\ 0 \in 0 .. Threshold
  BY ServerConstants
<1>2. NoTool \in ToolRecords
  BY DEF NoTool, ToolRecords, Policies
<1>3. CoreTools \subseteq ToolRecords /\ \A t \in CoreTools : t.kind = "core"
  BY CoreToolsAssumption DEF CoreTool, ToolRecords
<1>4. \A k \in Nat : McpTool(k) \in ToolRecords
  BY DEF McpTool, ToolRecords, Policies
<1>5. IdleCall \in CallRecords
  BY <1>2 DEF IdleCall, CallRecords
<1> QED
  BY <1>1, <1>2, <1>3, <1>4, <1>5

(* A server that was never connected.                                        *)
LEMMA NewServerType == NewServer \in ConnRecords /\ NoConfig \in ConfigRecords
<1>1. NoConfig \in ConfigRecords
  BY DEF NoConfig, ConfigRecords, UnsetEntry
<1> QED
  BY <1>1, Basics DEF NewServer, ConnRecords

(* A configured entry is never the missing one.                              *)
LEMMA EntryIsSet == \A e \in Entries : e # UnsetEntry
<1> SUFFICES ASSUME NEW e \in Entries, e = UnsetEntry PROVE FALSE
  OBVIOUS
<1>1. "transport" \in DOMAIN e
  BY DEF Entries
<1>2. DOMAIN e = {"id"}
  BY DEF UnsetEntry
<1> QED
  BY <1>1, <1>2

(* The configuration of a wanted server.                                     *)
LEMMA WantedConfig ==
    ASSUME GwType, NEW n \in DOMAIN gw.want
    PROVE  /\ gw.want[n] \in Entries
           /\ ServerConfigFromEntry(gw.want[n]) \in ConfigRecords
           /\ ServerConfigFromEntry(gw.want[n]).entry = gw.want[n]
<1>1. gw.want \in Configurations
  BY DEF GwType
<1>2. gw.want[n] \in Entries
  BY <1>1, GatewayConstants
<1>3. DefaultWorkDirFor(gw.want[n].dir) \in Dirs \union {"none"}
  BY <1>2 DEF GwType, DefaultWorkDirFor, Entries
<1> QED
  BY <1>2, <1>3 DEF ServerConfigFromEntry, ConfigRecords

(* Bounds of a configured entry are positive numbers.                        *)
LEMMA BoundType ==
    ASSUME NEW k, conn[k].cfg.entry \in Entries
    PROVE  CallBound(k) \in Nat /\ DrainBound(k) = CallBound(k)
<1> DEFINE e == conn[k].cfg.entry
<1>1. e.timeout \in Int /\ e.call \in Int /\ DefaultTimeout \in Nat
  BY ServerConstants DEF Entries
<1>2. ResolveTimeoutBounds(e).call =
        IF e.call > 0 THEN e.call ELSE IF e.timeout > 0 THEN e.timeout ELSE DefaultTimeout
  BY DEF ResolveTimeoutBounds
<1> QED
  BY <1>1, <1>2 DEF CallBound, DrainBound

(* No operation is under way.                                                *)
LEMMA IdleProcType ==
    /\ IdleProc.pc = "idle" /\ IdleProc.k = 0 /\ IdleProc.left = 0
    /\ IdleProc \in [pc : {"idle", "list"} \union ConnectPcs \union ClosePcs,
                     k : Conns \union {0}, via : {"none", "stream", "sse", "stdio"},
                     ctx : BOOLEAN, left : Nat, out : {"none", "ok", "err"}]
  BY DEF IdleProc

-----------------------------------------------------------------------------
(* The groups of the invariant                                               *)

Types == RegistryType /\ CallType /\ ConnType /\ ProcType /\ GwType
Registry == ToolsInv /\ AskedInv /\ RemoteInv /\ OverrideBelongsToTool
Connections == PhaseInv /\ StartInv /\ ClientInv /\ DrainInv /\ OwnerInv /\ CloseWaitsForCalls /\ NoCloseDuringStart
Maps == /\ LiveInv /\ DirInv /\ BeforeInv /\ PickInv /\ DialInv /\ RemoveInv /\ StopInv /\ SourceInv
        /\ MapsAgree /\ StopIsFinal /\ NoChurn

LEMMA Groups == IInv <=> Types /\ Registry /\ Connections /\ Maps
  BY DEF IInv, Types, Registry, Connections, Maps

-----------------------------------------------------------------------------
(* One step of a caller                                                      *)

(* What a step of caller c does to its call: it ends, it begins with the     *)
(* tool registered under the name, or it goes on with the tool it has.       *)
CallGoesOn(c) ==
    /\ call'[c].tool = call[c].tool
    /\ call'[c].asked \in {call[c].asked, call[c].tool}
    /\ Joined(c)' =>
           /\ call[c].tool.kind = "mcp"
           /\ \/ Joined(c) /\ call'[c].left = call[c].left /\ call'[c].lag = call[c].lag
              \/ conn[call[c].tool.conn].client /\ call'[c].left = CallBound(call[c].tool.conn)

CallBegins(c) ==
    \E n \in ToolNames : call'[c] = [IdleCall EXCEPT !.pc = "validate", !.name = n, !.tool = reg[n].tool]

CallMoves(c) ==
    /\ \A d \in Callers \ {c} : call'[d] = call[d]
    /\ call'[c] = IdleCall \/ CallBegins(c) \/ CallGoesOn(c)
    /\ UNCHANGED <<regVars, proc, gatewayVars>>
    /\ \A k \in Conns : conn'[k] = conn[k] \/ \E x \in 0 .. Threshold : conn'[k] = [conn[k] EXCEPT !.timeouts = x]
    /\ CallType' /\ ConnType'

LEMMA ReturnMoves ==
    ASSUME Types, NEW c \in Callers, Return(c)
    PROVE  /\ \A d \in Callers \ {c} : call'[d] = call[d]
           /\ call'[c] = IdleCall
           /\ UNCHANGED regVars
           /\ CallType'
  BY Basics DEF Types, CallType, Return

LEMMA PcMoves ==
    ASSUME Types, NEW c \in Callers,
           NEW pc \in {"policy", "confirm", "run"}, Step(c, pc)
    PROVE  /\ \A d \in Callers \ {c} : call'[d] = call[d]
           /\ CallGoesOn(c)
           /\ UNCHANGED regVars
           /\ CallType'
<1>1. call' = [call EXCEPT ![c] = [call[c] EXCEPT !.pc = pc]]
  BY DEF Step
<1>2. call[c] \in CallRecords
  BY DEF Types, CallType
<1>3. [call[c] EXCEPT !.pc = pc] \in CallRecords
  BY <1>2 DEF CallRecords
<1>4. call'[c] = [call[c] EXCEPT !.pc = pc] /\ CallType'
  BY <1>1, <1>3 DEF Types, CallType
<1>5. call'[c].pc = pc /\ call'[c].tool = call[c].tool /\ call'[c].asked = call[c].asked
  BY <1>2, <1>4 DEF CallRecords
<1> QED
  BY <1>1, <1>4, <1>5 DEF Step, CallGoesOn, Joined, Types, CallType

LEMMA ExecuteMoves ==
    ASSUME Types, NEW c \in Callers, ExecuteStep(c), UNCHANGED <<serverVars, gatewayVars>>
    PROVE  CallMoves(c)
<1>0. conn' = conn /\ proc' = proc /\ UNCHANGED gatewayVars /\ ConnType'
  BY DEF serverVars, Types, ConnType
<1> SUFFICES /\ \A d \in Callers \ {c} : call'[d] = call[d]
             /\ call'[c] = IdleCall \/ CallBegins(c) \/ CallGoesOn(c)
             /\ UNCHANGED regVars /\ CallType'
  BY <1>0 DEF CallMoves
<1>1. CASE Return(c)
  BY <1>1, ReturnMoves
<1>2. CASE \E pc \in {"policy", "confirm", "run"} : Step(c, pc)
  BY <1>2, PcMoves
<1>3. CASE \E n \in ToolNames : ExecuteGet(c, n)
  <2> PICK n \in ToolNames : ExecuteGet(c, n)
    BY <1>3
  <2> DEFINE new == [IdleCall EXCEPT !.pc = "validate", !.name = n, !.tool = reg[n].tool]
  <2>1. reg[n].tool \in ToolRecords
    BY DEF Types, RegistryType
  <2>2. new \in CallRecords
    BY <2>1, Basics DEF CallRecords, IdleCall
  <2>3. call' = [call EXCEPT ![c] = new] /\ UNCHANGED regVars
    BY DEF ExecuteGet
  <2>4. call'[c] = new /\ CallType' /\ \A d \in Callers \ {c} : call'[d] = call[d]
    BY <2>2, <2>3 DEF Types, CallType
  <2> QED
    BY <2>3, <2>4 DEF CallBegins
<1>4. CASE At(c, "confirm") /\ settings.confirm /\ UNCHANGED regVars
           /\ call' = [call EXCEPT ![c].pc = "asking", ![c].asked = call[c].tool]
  <2> DEFINE new == [call[c] EXCEPT !.pc = "asking", !.asked = call[c].tool]
  <2>1. call[c] \in CallRecords
    BY DEF Types, CallType
  <2>2. new \in CallRecords /\ new.pc = "asking" /\ new.tool = call[c].tool /\ new.asked = call[c].tool
    BY <2>1 DEF CallRecords
  <2>3. call' = [call EXCEPT ![c] = new]
    BY <1>4
  <2>4. call'[c] = new /\ CallType' /\ \A d \in Callers \ {c} : call'[d] = call[d]
    BY <2>2, <2>3 DEF Types, CallType
  <2> QED
    BY <1>4, <2>2, <2>4 DEF CallGoesOn, Joined
<1>5. \/ Return(c) \/ (\E pc \in {"policy", "confirm", "run"} : Step(c, pc))
      \/ (\E n \in ToolNames : ExecuteGet(c, n))
      \/ At(c, "confirm") /\ settings.confirm /\ UNCHANGED regVars
         /\ call' = [call EXCEPT ![c].pc = "asking", ![c].asked = call[c].tool]
  BY DEF ExecuteStep, ExecuteValidate, ExecutePolicy, ConfirmAsk, ConfirmAllow, ConfirmRefuse, RunCore
<1> QED
  BY <1>1, <1>2, <1>3, <1>4, <1>5

LEMMA RemoteMoves ==
    ASSUME Types, Registry, LiveInv, NEW c \in Callers, RemoteStep(c), UNCHANGED gatewayVars
    PROVE  CallMoves(c)
<1> DEFINE k == call[c].tool.conn
<1>0. call[c] \in CallRecords /\ call[c].tool \in ToolRecords
  BY DEF Types, CallType, CallRecords
<1>1. CASE CallTool(c)
  <2>1. k \in Conns /\ CallBound(k) \in Nat
    BY <1>1, BoundType DEF CallTool, Registry, ToolsInv, HandedOut, LiveInv
  <2>2. UNCHANGED <<regVars, conn, proc>> /\ ConnType'
    BY <1>1 DEF CallTool, serverVars, Types, ConnType
  <2>3. CASE conn[k].client
    <3> DEFINE new == [call[c] EXCEPT !.pc = "joined", !.left = CallBound(k)]
    <3>1. new \in CallRecords /\ new.tool = call[c].tool /\ new.asked = call[c].asked /\ new.left = CallBound(k)
      BY <1>0, <2>1 DEF CallRecords
    <3>2. call' = [call EXCEPT ![c] = new]
      BY <1>1, <2>3 DEF CallTool
    <3>3. call'[c] = new /\ CallType' /\ \A d \in Callers \ {c} : call'[d] = call[d]
      BY <3>1, <3>2 DEF Types, CallType
    <3>4. CallGoesOn(c)
      BY <1>1, <2>3, <3>1, <3>3 DEF CallGoesOn, CallTool
    <3> QED
      BY <2>2, <3>3, <3>4 DEF CallMoves
  <2>4. CASE ~conn[k].client
    BY <1>1, <2>2, <2>4, ReturnMoves DEF CallTool, Return, CallMoves
  <2> QED
    BY <2>3, <2>4
<1>2. CASE CancelCall(c)
  <2> DEFINE new == [call[c] EXCEPT !.cancelled = TRUE]
  <2>1. new \in CallRecords /\ new.tool = call[c].tool /\ new.asked = call[c].asked
        /\ new.left = call[c].left /\ new.lag = call[c].lag /\ new.pc = call[c].pc
    BY <1>0 DEF CallRecords
  <2>2. call' = [call EXCEPT ![c] = new]
    BY <1>2 DEF CancelCall
  <2>3. call'[c] = new /\ CallType' /\ \A d \in Callers \ {c} : call'[d] = call[d]
    BY <2>1, <2>2 DEF Types, CallType
  <2>4. CallGoesOn(c)
    BY <1>2, <2>1, <2>3 DEF CallGoesOn, Joined, CancelCall, Registry, RemoteInv
  <2>5. UNCHANGED <<regVars, conn, proc>> /\ ConnType'
    BY <1>2 DEF CancelCall, serverVars, Types, ConnType
  <2> QED
    BY <2>3, <2>4, <2>5 DEF CallMoves
<1>3. CASE CallSucceeds(c) \/ CallFails(c)
  <2>1. k \in Conns
    BY <1>3 DEF CallSucceeds, CallFails, At, Joined, Registry, RemoteInv, ToolsInv, HandedOut
  <2>2. Return(c) /\ UNCHANGED proc
    BY <1>3 DEF CallSucceeds, CallFails
  <2>3. conn[k] \in ConnRecords /\ conn[k].timeouts \in 0 .. Threshold
    BY <2>1 DEF Types, ConnType, ConnRecords
  <2>4. conn' = conn \/ \E x \in 0 .. Threshold : conn' = [conn EXCEPT ![k] = [conn[k] EXCEPT !.timeouts = x]]
    <3> DEFINE x == IF conn[k].timeouts < Threshold THEN conn[k].timeouts + 1 ELSE Threshold
    <3>1. x \in 0 .. Threshold /\ 0 \in 0 .. Threshold
      BY <2>3, ServerConstants
    <3>2. RecordTimeout(conn[k]) = [conn[k] EXCEPT !.timeouts = x]
      BY DEF RecordTimeout
    <3> QED
      BY <1>3, <3>1, <3>2 DEF CallSucceeds, CallFails
  <2>5. ConnType'
    <3>1. \A x \in 0 .. Threshold : [conn[k] EXCEPT !.timeouts = x] \in ConnRecords
      BY <2>3 DEF ConnRecords
    <3> QED
      BY <2>1, <2>4, <3>1 DEF Types, ConnType
  <2>6. \A j \in Conns : conn'[j] = conn[j] \/ \E x \in 0 .. Threshold : conn'[j] = [conn[j] EXCEPT !.timeouts = x]
    BY <2>4 DEF Types, ConnType
  <2> QED
    BY <2>2, <2>5, <2>6, ReturnMoves DEF CallMoves
<1>4. CASE StartDeadline(c)
  <2> DEFINE new == [call[c] EXCEPT !.pc = "remote"]
  <2>1. new \in CallRecords /\ new.tool = call[c].tool /\ new.asked = call[c].asked
        /\ new.left = call[c].left /\ new.lag = call[c].lag
    BY <1>0 DEF CallRecords
  <2>2. call' = [call EXCEPT ![c] = new] /\ Joined(c)
    BY <1>4 DEF StartDeadline, At, Joined
  <2>3. call'[c] = new /\ CallType' /\ \A d \in Callers \ {c} : call'[d] = call[d]
    BY <2>1, <2>2 DEF Types, CallType
  <2>4. CallGoesOn(c)
    BY <2>1, <2>2, <2>3 DEF CallGoesOn, Registry, RemoteInv
  <2>5. UNCHANGED <<regVars, conn, proc>> /\ ConnType'
    BY <1>4 DEF StartDeadline, serverVars, Types, ConnType
  <2> QED
    BY <2>3, <2>4, <2>5 DEF CallMoves
<1> QED
  BY <1>1, <1>2, <1>3, <1>4 DEF RemoteStep

-----------------------------------------------------------------------------
(* Steps that leave the gateway's maps alone                                 *)

(* The operations during which a procedure may be under way.                 *)
Busy == gw.pc \in {"connecting", "discovering", "discarding", "removing", "changing", "stopping"}

(* A procedure works on a connection that exists, and only inside an         *)
(* operation that waits for it.                                              *)
LEMMA ProcOnConn ==
    ASSUME Types, PhaseInv
    PROVE  /\ Busy => proc.k \in Conns /\ conn[proc.k] \in ConnRecords
           /\ proc.pc # "idle" => Busy
<1>1. proc.pc # "idle" => Busy
  BY DEF Types, ProcType, PhaseInv, Busy
<1>2. Busy => proc.k \in Conns
  BY DEF Types, GwType, PhaseInv, Busy, Dialling, Live
<1> QED
  BY <1>1, <1>2 DEF Types, ConnType

(* The connection of the procedure is no live server's, but the one that is  *)
(* being closed.                                                             *)
LEMMA ProcNotLive ==
    ASSUME Types, PhaseInv, LiveInv, Busy, NEW n \in Live, servers[n] = proc.k
    PROVE  gw.pc \in {"removing", "changing", "stopping"} /\ n = gw.cur
  BY DEF PhaseInv, LiveInv, Busy, HandedOut, Dialling

(* Steps that leave the gateway and its MCP tools alone, and change clients  *)
(* and transports only of the connection in the hands of the procedure.      *)
LEMMA MapsKept ==
    ASSUME Types, PhaseInv, Maps, UNCHANGED <<servers, configs, failed, defaultDir, stopped, gw>>,
           used'.conns = used.conns, proc'.k = proc.k,
           \A n \in ToolNames : reg'[n] = reg[n] \/ reg'[n].cat # "mcp",
           \A k \in Conns : /\ conn'[k].cfg = conn[k].cfg
                            /\ \/ Busy /\ k = proc.k
                               \/ conn'[k].client = conn[k].client /\ conn'[k].transport = conn[k].transport
    PROVE  Maps'
<1>1. /\ servers' = servers /\ configs' = configs /\ failed' = failed /\ defaultDir' = defaultDir
      /\ stopped' = stopped /\ gw' = gw /\ used'.conns = used.conns
  OBVIOUS
<1>2. Live' = Live /\ Live \subseteq ServerNames /\ (\A n \in Live : servers[n] \in Conns)
  BY <1>1 DEF Live, Types, GwType
<1>3. \A k : HandedOut(k)' <=> HandedOut(k)
  BY <1>1 DEF HandedOut, Dialling
<1>4. \A n \in Live : conn'[servers[n]].cfg = conn[servers[n]].cfg
  BY <1>2
<1>5. \A n \in Live : \/ conn'[servers[n]].client = conn[servers[n]].client
                         /\ conn'[servers[n]].transport = conn[servers[n]].transport
                      \/ gw.pc \in {"removing", "changing", "stopping"} /\ n = gw.cur
  BY <1>2, ProcNotLive DEF Maps
<1>6. LiveInv'
  BY <1>1, <1>2, <1>3, <1>4, <1>5 DEF Maps, LiveInv, Stopping
<1>7. DirInv' /\ BeforeInv' /\ SourceInv'
  BY <1>1, <1>2, <1>4 DEF Maps, DirInv, BeforeInv, SourceInv, Picking, Removing, Captured
<1>8. PickInv'
  BY <1>1, <1>2, <1>4 DEF Maps, PickInv, Picking, Dialling, Captured
<1>9. DialInv'
  <2>1. Dialling => conn'[proc.k].cfg = conn[proc.k].cfg
    BY DEF PhaseInv
  <2> QED
    BY <1>1, <1>2, <2>1 DEF Maps, DialInv, Dialling, ServerConfigFromEntry, DefaultWorkDirFor
<1>10. RemoveInv'
  BY <1>1, <1>2 DEF Maps, RemoveInv, Removing
<1>11. StopInv'
  BY <1>1, <1>2, <1>5 DEF Maps, StopInv, Stopping
<1>12. MapsAgree' /\ StopIsFinal'
  <2>1. MapsAgree'
    BY <1>1, <1>2, <1>4, <1>5 DEF Maps, MapsAgree, Settled, Captured
  <2>2. StopIsFinal'
    BY <1>1, <1>2 DEF Maps, StopIsFinal, StopInv, Busy
  <2> QED
    BY <2>1, <2>2
<1>13. NoChurn'
  BY <1>1 DEF Maps, NoChurn, Captured
<1> QED
  BY <1>6, <1>7, <1>8, <1>9, <1>10, <1>11, <1>12, <1>13 DEF Maps

LEMMA MapsFrame ==
    ASSUME Types, PhaseInv, Maps, UNCHANGED <<reg, gatewayVars>>, proc'.k = proc.k,
           \A k \in Conns : /\ conn'[k].cfg = conn[k].cfg
                            /\ \/ Busy /\ k = proc.k
                               \/ conn'[k].client = conn[k].client /\ conn'[k].transport = conn[k].transport
    PROVE  Maps'
<1>1. UNCHANGED <<servers, configs, failed, defaultDir, stopped, gw>> /\ used'.conns = used.conns /\ reg' = reg
  BY DEF gatewayVars
<1> QED
  BY <1>1, MapsKept

(* A caller's step preserves the invariant.                                  *)
LEMMA CallStep ==
    ASSUME IInv, NEW c \in Callers, CallMoves(c)
    PROVE  IInv'
<1> USE Groups
<1>1. /\ servers' = servers /\ configs' = configs /\ failed' = failed /\ defaultDir' = defaultDir
      /\ stopped' = stopped /\ gw' = gw /\ used' = used /\ proc' = proc
      /\ reg' = reg /\ overrides' = overrides /\ grantedTo' = grantedTo /\ settings' = settings
  BY DEF CallMoves, gatewayVars, regVars
<1>2. \A k \in Conns : /\ conn'[k].cfg = conn[k].cfg /\ conn'[k].client = conn[k].client
                       /\ conn'[k].transport = conn[k].transport /\ conn'[k].start = conn[k].start
                       /\ conn'[k].cancelled = conn[k].cancelled
  BY DEF CallMoves, Types, ConnType, ConnRecords
<1>3. Types'
  BY <1>1 DEF CallMoves, Types, RegistryType, ProcType, GwType
<1>4. \A k : HandedOut(k)' <=> HandedOut(k)
  BY <1>1 DEF HandedOut, Dialling
<1>5. \A k \in Conns : CallBound(k)' = CallBound(k)
  BY <1>2 DEF CallBound, ResolveTimeoutBounds
<1>6. /\ IdleCall.pc = "idle" /\ IdleCall.tool = NoTool /\ IdleCall.asked = NoTool /\ NoTool.kind = "none"
      /\ CallBegins(c) => call'[c].pc = "validate" /\ call'[c].asked = NoTool
                          /\ \E n \in ToolNames : call'[c].tool = reg[n].tool
  BY DEF IdleCall, NoTool, CallBegins
<1>7. \A d \in Callers : d # c => call'[d] = call[d]
  BY DEF CallMoves
<1>8. call'[c] = IdleCall \/ CallBegins(c) \/ CallGoesOn(c)
  BY DEF CallMoves
<1>9. Registry'
  <2>1. ToolsInv'
    <3>1. call'[c].tool.kind = "mcp" => HandedOut(call'[c].tool.conn)
      BY <1>6, <1>8 DEF Registry, ToolsInv, CallGoesOn
    <3> QED
      BY <1>1, <1>4, <1>7, <3>1 DEF Registry, ToolsInv
  <2>2. AskedInv'
    <3>1. call'[c].asked \in {NoTool, call'[c].tool}
      BY <1>6, <1>8 DEF Registry, AskedInv, CallGoesOn
    <3> QED
      BY <1>7, <3>1 DEF Registry, AskedInv
  <2>3. RemoteInv'
    <3>1. \A d \in Callers : Joined(d)' =>
              call'[d].tool = call[d].tool /\ call[d].tool.kind = "mcp"
              /\ call'[d].left <= CallBound(call[d].tool.conn)
      <4>1. \A d \in Callers : d # c => (Joined(d)' =>
              call'[d].tool = call[d].tool /\ call[d].tool.kind = "mcp"
              /\ call'[d].left <= CallBound(call[d].tool.conn))
        BY <1>7 DEF Registry, RemoteInv, Joined
      <4>2. Joined(c)' => CallGoesOn(c)
        BY <1>6, <1>8 DEF Joined
      <4>3. call[c].tool.kind = "mcp" => CallBound(call[c].tool.conn) \in Nat
        BY BoundType DEF Registry, ToolsInv, HandedOut, Maps, LiveInv
      <4>4. Joined(c)' =>
              call'[c].tool = call[c].tool /\ call[c].tool.kind = "mcp"
              /\ call'[c].left <= CallBound(call[c].tool.conn)
        BY <4>2, <4>3 DEF CallGoesOn, Registry, RemoteInv
      <4> QED
        BY <4>1, <4>4
    <3>2. \A d \in Callers : call[d].tool.kind = "mcp" => call[d].tool.conn \in Conns
      BY DEF Registry, ToolsInv, HandedOut
    <3> QED
      BY <3>1, <3>2, <1>5 DEF RemoteInv
  <2>4. OverrideBelongsToTool'
    BY <1>1 DEF Registry, OverrideBelongsToTool, Registered
  <2> QED
    BY <2>1, <2>2, <2>3, <2>4 DEF Registry
<1>10. \A k \in Conns, d \in Callers : d \in Inflight(k)' =>
           \/ call'[d].left = call[d].left /\ call'[d].lag = call[d].lag /\ d \in Inflight(k)
           \/ d = c /\ conn[k].client
  <2> SUFFICES ASSUME NEW k \in Conns, NEW d \in Callers, Joined(d)', call'[d].tool.conn = k
               PROVE  \/ call'[d].left = call[d].left /\ call'[d].lag = call[d].lag
                         /\ Joined(d) /\ call[d].tool.conn = k
                      \/ d = c /\ conn[k].client
    BY DEF Inflight
  <2>1. CASE d # c
    BY <2>1, <1>7 DEF Joined
  <2>2. CASE d = c
    <3>1. CallGoesOn(c)
      BY <2>2, <1>6, <1>8 DEF Joined
    <3> QED
      BY <2>2, <3>1 DEF CallGoesOn
  <2> QED
    BY <2>1, <2>2
<1>11. Connections'
  <2>1. PhaseInv' /\ StartInv' /\ OwnerInv' /\ NoCloseDuringStart'
    <3>1. Live' = Live
      BY <1>1 DEF Live
    <3>2. proc.pc \in {"race", "init"} => proc.k \in Conns
      BY ProcOnConn DEF Connections
    <3> QED
      BY <1>1, <1>2, <3>1, <3>2 DEF Connections, PhaseInv, StartInv, OwnerInv, NoCloseDuringStart, Dialling
  <2>2. ClientInv'
    <3>1. Busy => proc.k \in Conns
      BY ProcOnConn DEF Connections
    <3>2. proc.pc # "idle" => Busy
      BY ProcOnConn DEF Connections
    <3>3. Busy => /\ conn'[proc.k].client = conn[proc.k].client
                  /\ conn'[proc.k].transport = conn[proc.k].transport
      BY <1>2, <3>1
    <3> QED
      BY <1>1, <1>2, <3>2, <3>3 DEF Connections, ClientInv, Busy, ConnectPcs
  <2>3. DrainInv'
    <3>1. proc.pc \in {"drain", "close"} => proc.k \in Conns /\ ~conn[proc.k].client
      BY ProcOnConn DEF Connections, ClientInv
    <3> QED
      BY <1>1, <1>10, <3>1 DEF Connections, DrainInv, Inflight
  <2>4. CloseWaitsForCalls'
    <3>1. \A k \in Conns : conn[k].transport = "closed" => ~conn[k].client
      BY DEF Connections, ClientInv
    <3> QED
      BY <1>2, <1>10, <3>1 DEF Connections, CloseWaitsForCalls, Inflight
  <2> QED
    BY <2>1, <2>2, <2>3, <2>4 DEF Connections
<1>12. Maps'
  <2>1. UNCHANGED <<reg, gatewayVars>> /\ proc'.k = proc.k
    BY <1>1 DEF gatewayVars
  <2> QED
    BY <1>2, <2>1, MapsFrame DEF Connections
<1> QED
  <2>1. Types' /\ Registry' /\ Connections' /\ Maps'
    BY <1>3, <1>9, <1>11, <1>12
  <2> QED
    BY <2>1 DEF IInv, Types, Registry, Connections, Maps

-----------------------------------------------------------------------------
(* Steps of the procedure under way                                          *)

(* The connection the procedure works on, k, in the phases of the operation. *)
Local ==
    LET k == proc.k IN
    /\ proc.pc \in ConnectPcs => gw.pc = "connecting"
    /\ proc.pc = "list" => gw.pc = "discovering"
    /\ proc.pc \in ClosePcs => gw.pc \in {"discarding", "removing", "changing", "stopping"}
    /\ conn[k].start = "running" => proc.pc \in {"race", "reap"}
    /\ proc.pc \in {"race", "init"} => ~conn[k].cancelled
    /\ conn[k].client => conn[k].transport = "up" /\ ~conn[k].cancelled
    /\ proc.pc \in ConnectPcs \ {"create"} => conn[k].transport = "up"
    /\ proc.pc = "create" => conn[k].transport # "up"
    /\ proc.pc \in ConnectPcs \union {"drain", "close"} => ~conn[k].client
    /\ gw.pc = "connecting" /\ proc.pc = "idle" =>
           IF proc.out = "ok" THEN conn[k].client ELSE conn[k].transport # "up"
    /\ gw.pc = "discovering" => conn[k].client
    /\ gw.pc \in {"discarding", "removing", "changing", "stopping"} /\ proc.pc = "idle" =>
           conn[k].transport # "up"
    /\ proc.pc = "drain" => \A c \in Inflight(k) : call[c].left <= proc.left + call[c].lag
    /\ proc.pc = "close" => \A c \in Inflight(k) : call[c].left <= call[c].lag
    /\ conn[k].transport = "closed" => conn[k].start # "running" /\ \A c \in Inflight(k) : call[c].left <= call[c].lag

LEMMA LocalHolds ==
    ASSUME IInv, Busy
    PROVE  Local
<1>1. proc.k \in Conns
  BY ProcOnConn, Groups DEF Connections
<1> QED
  BY <1>1 DEF IInv, Local, PhaseInv, StartInv, ClientInv, DrainInv, CloseWaitsForCalls, NoCloseDuringStart

ProcMoves ==
    /\ UNCHANGED <<registryVars, gatewayVars>>
    /\ proc'.k = proc.k
    /\ \A j \in Conns : j # proc.k => conn'[j] = conn[j]
    /\ conn'[proc.k].cfg = conn[proc.k].cfg
    /\ conn'[proc.k].transport = "up" => conn[proc.k].transport = "up" \/ gw.pc = "connecting"
    /\ ConnType' /\ ProcType'

(* A step that keeps the procedure's own connection in order keeps all.      *)
LEMMA ProcKeeps ==
    ASSUME IInv, Busy, ProcMoves, Local'
    PROVE  IInv'
<1>1. /\ servers' = servers /\ configs' = configs /\ failed' = failed /\ defaultDir' = defaultDir
      /\ stopped' = stopped /\ gw' = gw /\ used' = used /\ call' = call
      /\ reg' = reg /\ overrides' = overrides /\ grantedTo' = grantedTo /\ settings' = settings
  BY DEF ProcMoves, gatewayVars, regVars, registryVars
<1>2. proc'.k = proc.k /\ proc.k \in Conns
  BY ProcOnConn, Groups DEF Connections, ProcMoves
<1>3. \A k \in Conns : conn'[k].cfg = conn[k].cfg
  BY DEF ProcMoves
<1>4. \A j \in Conns : j # proc.k => conn'[j] = conn[j]
  BY DEF ProcMoves
<1>5. Types'
  BY <1>1 DEF IInv, ProcMoves, Types, RegistryType, CallType, GwType
<1>6. \A k : HandedOut(k)' <=> HandedOut(k)
  BY <1>1, <1>2 DEF HandedOut, Dialling
<1>7. Registry'
  <2>1. \A k \in Conns : CallBound(k)' = CallBound(k)
    BY <1>3 DEF CallBound, ResolveTimeoutBounds
  <2>2. \A c \in Callers : call[c].tool.kind = "mcp" => call[c].tool.conn \in Conns
    BY DEF IInv, ToolsInv, HandedOut
  <2>3. ToolsInv' /\ AskedInv' /\ OverrideBelongsToTool'
    BY <1>1, <1>6 DEF IInv, ToolsInv, AskedInv, OverrideBelongsToTool, Registered
  <2>4. RemoteInv'
    BY <1>1, <2>1, <2>2 DEF IInv, RemoteInv, Joined
  <2> QED
    BY <2>3, <2>4 DEF Registry
<1>8. Connections'
  <2>1. PhaseInv'
    <3>1. Live' = Live /\ gw.pc \notin {"new", "idle"}
      BY <1>1 DEF Live, Busy
    <3> QED
      BY <1>1, <1>2, <3>1 DEF IInv, PhaseInv, Local, Dialling
  <2>2. StartInv' /\ NoCloseDuringStart'
    BY <1>2, <1>4 DEF IInv, StartInv, NoCloseDuringStart, Local
  <2>3. ClientInv'
    BY <1>2, <1>4 DEF IInv, ClientInv, Local
  <2>4. DrainInv'
    BY <1>2 DEF Local, DrainInv
  <2>5. OwnerInv'
    <3>1. conn'[proc.k].transport = "up" =>
              (\E n \in ServerNames : servers[n] = proc.k) \/ Dialling
      BY <1>2 DEF ProcMoves, IInv, OwnerInv, Dialling
    <3> QED
      BY <1>1, <1>2, <1>4, <3>1 DEF IInv, OwnerInv, Dialling
  <2>6. CloseWaitsForCalls'
    <3>1. \A k \in Conns : Inflight(k)' = Inflight(k)
      BY <1>1 DEF Inflight, Joined
    <3> QED
      BY <1>1, <1>2, <1>4, <3>1 DEF IInv, CloseWaitsForCalls, Local
  <2> QED
    BY <2>1, <2>2, <2>3, <2>4, <2>5, <2>6 DEF Connections
<1>9. Maps'
  <2>1. UNCHANGED <<reg, gatewayVars>> /\ proc'.k = proc.k
    BY <1>1, <1>2 DEF gatewayVars
  <2> QED
    BY <1>3, <1>4, <2>1, MapsFrame, Groups DEF Connections
<1> QED
  <2>1. Types' /\ Registry' /\ Connections' /\ Maps'
    BY <1>5, <1>7, <1>8, <1>9
  <2> QED
    BY <2>1 DEF IInv, Types, Registry, Connections, Maps

(* No call is in flight on a connection that is still being made.            *)
LEMMA NoCallWhileDialling ==
    ASSUME IInv, Dialling
    PROVE  Inflight(proc.k) = {}
  BY DEF IInv, RemoteInv, ToolsInv, HandedOut, Inflight

(* The fallback to SSE, or the end of Connect with an error.                 *)
LEMMA GiveUpType ==
    ASSUME Types, GiveUp
    PROVE  /\ ProcType' /\ proc'.k = proc.k
           /\ proc'.pc = "create" \/ (proc'.pc = "idle" /\ proc'.out = "err")
<1>1. CASE proc.via = "stream"
  BY <1>1 DEF GiveUp, Types, ProcType, ConnectPcs
<1>2. CASE proc.via # "stream"
  <2>1. proc' = [IdleProc EXCEPT !.k = proc.k, !.ctx = proc.ctx, !.out = "err"]
    BY <1>2 DEF GiveUp, ProcReturns
  <2> QED
    BY <2>1 DEF IdleProc, Types, ProcType
<1> QED
  BY <1>1, <1>2

LEMMA ReturnsType ==
    ASSUME Types, NEW out \in {"ok", "err"}, ProcReturns(out)
    PROVE  ProcType' /\ proc'.k = proc.k /\ proc'.pc = "idle" /\ proc'.out = out
  BY DEF ProcReturns, IdleProc, Types, ProcType

LEMMA PcType ==
    ASSUME Types, NEW pc \in {"race", "init", "fail", "reap"}, proc' = [proc EXCEPT !.pc = pc]
    PROVE  ProcType' /\ proc'.k = proc.k /\ proc'.pc = pc
  BY DEF Types, ProcType, ConnectPcs

(* A procedure step changes one connection.                                  *)
LEMMA OneConn ==
    ASSUME Types, proc.k \in Conns, NEW new \in ConnRecords, conn' = [conn EXCEPT ![proc.k] = new]
    PROVE  ConnType' /\ conn'[proc.k] = new /\ \A j \in Conns : j # proc.k => conn'[j] = conn[j]
  BY DEF Types, ConnType

(* Every step of Connect, DiscoverTools and Close preserves the invariant.   *)
LEMMA ProcSteps ==
    ASSUME IInv, ProcStep, UNCHANGED gatewayVars
    PROVE  IInv'
<1> DEFINE k == proc.k
           s == conn[k]
<1>1. Types /\ PhaseInv
  BY DEF IInv, Types
<1>2. proc.pc # "idle" /\ UNCHANGED registryVars
  BY DEF ProcStep, ProcAt, CreateClient, RaceWon, RaceLost, Reap, Initialize, InitializeFails, CloseFailed,
         ListTools, Detach, DrainInflight, CloseClient
<1>3. Busy /\ k \in Conns /\ s \in ConnRecords
  BY <1>1, <1>2, ProcOnConn
<1>4. Local
  BY <1>3, LocalHolds
<1>5. /\ gw' = gw /\ call' = call /\ \A j : Inflight(j)' = Inflight(j)
      /\ UNCHANGED <<registryVars, gatewayVars>>
  BY <1>2 DEF gatewayVars, registryVars, Inflight, Joined
<1>6. SUFFICES /\ Local' /\ ConnType' /\ ProcType' /\ proc'.k = k
               /\ \A j \in Conns : j # k => conn'[j] = conn[j]
               /\ conn'[k].cfg = s.cfg
               /\ conn'[k].transport = "up" => s.transport = "up" \/ gw.pc = "connecting"
  BY <1>3, <1>5, ProcKeeps DEF ProcMoves
<1>7. conn' = conn => ConnType' /\ \A j \in Conns : conn'[j] = conn[j]
  BY <1>1 DEF Types, ConnType
<1>8. CASE CreateClient /\ conn' = conn
  <2>1. proc.pc = "create" /\ (GiveUp \/ proc' = [proc EXCEPT !.pc = "race"])
    BY <1>8 DEF CreateClient, ProcAt
  <2>2. CASE GiveUp /\ proc.pc = "create"
    <3>1. ProcType' /\ proc'.k = k /\ (proc'.pc = "create" \/ (proc'.pc = "idle" /\ proc'.out = "err"))
      BY <1>1, <2>2, GiveUpType
    <3>2. Local'
      BY <1>3, <1>4, <1>5, <1>8, <2>2, <3>1 DEF Local, ConnectPcs, ClosePcs
    <3> QED
      BY <1>3, <1>7, <1>8, <3>1, <3>2
  <2>3. CASE proc' = [proc EXCEPT !.pc = "race"] /\ proc.pc = "create" /\ ~GiveUp
    <3>1. conn'[k].transport = "up"
      BY <1>1, <1>3, <1>8, <2>3 DEF CreateClient, Types, ConnType, ConnRecords
    <3> QED
      BY <1>4, <1>8, <2>3, <3>1 DEF Local
  <2> QED
    BY <2>1, <2>2, <2>3
<1>9. CASE CreateClient /\ conn' # conn
  <2> DEFINE new == [s EXCEPT !.transport = "up", !.start = "running", !.cancelled = FALSE,
                              !.child = (proc.via = "stdio")]
  <2>1. new \in ConnRecords /\ new.transport = "up" /\ new.start = "running" /\ ~new.cancelled
        /\ new.client = s.client /\ new.cfg = s.cfg
    BY <1>3 DEF ConnRecords
  <2>2. conn' = [conn EXCEPT ![k] = new] /\ proc' = [proc EXCEPT !.pc = "race"] /\ proc.pc = "create"
    BY <1>9 DEF CreateClient, ProcAt
  <2>3. ProcType' /\ proc'.k = k /\ proc'.pc = "race"
    BY <1>1, <2>2, PcType
  <2>4. ConnType' /\ conn'[k] = new /\ \A j \in Conns : j # k => conn'[j] = conn[j]
    BY <1>1, <1>3, <2>1, <2>2, OneConn
  <2>5. Local'
    BY <1>3, <1>4, <1>5, <2>1, <2>2, <2>3, <2>4 DEF Local, ConnectPcs, ClosePcs
  <2> QED
    BY <1>4, <2>1, <2>2, <2>3, <2>4, <2>5 DEF Local, ConnectPcs
<1>10. CASE Reap \/ InitializeFails \/ (RaceWon /\ s.start = "ok")
  <2>1. conn' = conn /\ proc.pc \in {"reap", "init", "race"}
    BY <1>10 DEF Reap, InitializeFails, RaceWon, ProcAt
  <2>2. PICK pc \in {"fail", "init"} :
            proc' = [proc EXCEPT !.pc = pc] /\ (pc = "init" => proc.pc = "race") /\ s.start # "running"
    <3>1. proc.pc = "init" => s.start # "running"
      BY <1>4 DEF Local
    <3> QED
      BY <1>10, <3>1 DEF Reap, InitializeFails, RaceWon, ProcAt
  <2>3. ProcType' /\ proc'.k = k /\ proc'.pc = pc
    BY <1>1, <2>2, PcType
  <2>4. Local'
    BY <1>3, <1>4, <1>5, <2>1, <2>2, <2>3 DEF Local, ConnectPcs, ClosePcs
  <2> QED
    BY <1>3, <1>7, <2>1, <2>3, <2>4
<1>11. CASE RaceLost \/ (RaceWon /\ s.start # "ok")
  <2> DEFINE new == [s EXCEPT !.cancelled = TRUE]
  <2>1. new \in ConnRecords /\ new.transport = s.transport /\ new.start = s.start
        /\ new.client = s.client /\ new.cfg = s.cfg
    BY <1>3 DEF ConnRecords
  <2>2. /\ conn' = [conn EXCEPT ![k] = new] /\ proc.pc = "race"
        /\ proc' = [proc EXCEPT !.pc = "reap"] \/ (proc' = [proc EXCEPT !.pc = "fail"] /\ s.start = "failed")
    BY <1>11 DEF RaceLost, RaceWon, ProcAt
  <2>3. ProcType' /\ proc'.k = k /\ (proc'.pc = "reap" \/ (proc'.pc = "fail" /\ s.start = "failed"))
    BY <1>1, <2>2, PcType
  <2>4. ConnType' /\ conn'[k] = new /\ \A j \in Conns : j # k => conn'[j] = conn[j]
    BY <1>1, <1>3, <2>1, <2>2, OneConn
  <2>5. Local'
    BY <1>3, <1>4, <1>5, <2>1, <2>2, <2>3, <2>4 DEF Local, ConnectPcs, ClosePcs
  <2> QED
    BY <2>1, <2>3, <2>4, <2>5
<1>12. CASE Initialize
  <2> DEFINE new == [s EXCEPT !.client = TRUE]
  <2>1. new \in ConnRecords /\ new.transport = s.transport /\ new.start = s.start
        /\ new.client /\ new.cancelled = s.cancelled /\ new.cfg = s.cfg
    BY <1>3 DEF ConnRecords
  <2>2. conn' = [conn EXCEPT ![k] = new] /\ proc.pc = "init" /\ ProcReturns("ok")
    BY <1>12 DEF Initialize, ProcAt
  <2>3. ProcType' /\ proc'.k = k /\ proc'.pc = "idle" /\ proc'.out = "ok"
    BY <1>1, <2>2, ReturnsType
  <2>4. ConnType' /\ conn'[k] = new /\ \A j \in Conns : j # k => conn'[j] = conn[j]
    BY <1>1, <1>3, <2>1, <2>2, OneConn
  <2>5. s.transport = "up" /\ ~s.cancelled /\ s.start # "running" /\ gw.pc = "connecting"
    BY <1>4, <2>2 DEF Local, ConnectPcs
  <2>6. Local'
    BY <1>5, <2>1, <2>3, <2>4, <2>5 DEF Local, ConnectPcs, ClosePcs
  <2> QED
    BY <2>1, <2>3, <2>4, <2>6
<1>13. CASE CloseFailed
  <2> DEFINE new == [NewServer EXCEPT !.cfg = s.cfg, !.transport = "closed",
                                      !.start = IF s.start = "running" THEN "running" ELSE "idle"]
  <2>0. s.start # "running" /\ Dialling /\ gw.pc = "connecting"
    BY <1>4, <1>13 DEF CloseFailed, ProcAt, Local, ConnectPcs, Dialling
  <2>1. new \in ConnRecords /\ new.transport = "closed" /\ new.start = "idle"
        /\ ~new.client /\ new.cfg = s.cfg
    BY <1>3, <2>0, NewServerType DEF ConnRecords, NewServer
  <2>2. conn' = [conn EXCEPT ![k] = new] /\ proc.pc = "fail" /\ GiveUp
    BY <1>13 DEF CloseFailed, ProcAt
  <2>3. ProcType' /\ proc'.k = k /\ (proc'.pc = "create" \/ (proc'.pc = "idle" /\ proc'.out = "err"))
    BY <1>1, <2>2, GiveUpType
  <2>4. ConnType' /\ conn'[k] = new /\ \A j \in Conns : j # k => conn'[j] = conn[j]
    BY <1>1, <1>3, <2>1, <2>2, OneConn
  <2>5. Inflight(k) = {}
    BY <2>0, NoCallWhileDialling
  <2>6. Local'
    BY <1>3, <1>4, <1>5, <2>0, <2>1, <2>2, <2>3, <2>4, <2>5 DEF Local, ConnectPcs, ClosePcs
  <2> QED
    BY <2>1, <2>3, <2>4, <2>6
<1>14. CASE ListTools
  <2>1. PICK out \in {"ok", "err"} : ProcReturns(out)
    BY <1>14 DEF ListTools
  <2>2. ProcType' /\ proc'.k = k /\ proc'.pc = "idle"
    BY <1>1, <2>1, ReturnsType
  <2>3. PICK T \in SUBSET ToolNames : conn' = conn \/ conn' = [conn EXCEPT ![k] = [s EXCEPT !.tools = T]]
    BY <1>14, ServerConstants DEF ListTools
  <2>4. /\ [s EXCEPT !.tools = T] \in ConnRecords
        /\ \A new \in {s, [s EXCEPT !.tools = T]} :
             /\ new.transport = s.transport /\ new.start = s.start
             /\ new.client = s.client /\ new.cancelled = s.cancelled /\ new.cfg = s.cfg
    BY <1>3 DEF ConnRecords
  <2>5. ConnType' /\ conn'[k] \in {s, [s EXCEPT !.tools = T]} /\ \A j \in Conns : j # k => conn'[j] = conn[j]
    BY <1>1, <1>3, <1>7, <2>3, <2>4, OneConn
  <2>6. proc.pc = "list"
    BY <1>14 DEF ListTools, ProcAt
  <2>7. conn'[k].transport = s.transport /\ conn'[k].start = s.start
        /\ conn'[k].client = s.client /\ conn'[k].cancelled = s.cancelled /\ conn'[k].cfg = s.cfg
    BY <2>4, <2>5
  <2>8. Local'
    BY <1>3, <1>4, <1>5, <2>2, <2>6, <2>7 DEF Local, ConnectPcs, ClosePcs
  <2> QED
    BY <2>2, <2>5, <2>7, <2>8
<1>15. CASE Detach
  <2> DEFINE new == [s EXCEPT !.client = FALSE, !.tools = {}, !.timeouts = 0]
  <2>1. new \in ConnRecords /\ new.transport = s.transport /\ new.start = s.start
        /\ ~new.client /\ new.cancelled = s.cancelled /\ new.cfg = s.cfg
    BY <1>3, Basics DEF ConnRecords
  <2>2. conn' = [conn EXCEPT ![k] = new] /\ proc.pc = "detach"
        /\ proc' = [proc EXCEPT !.pc = "drain", !.left = DrainBound(k)]
    BY <1>15 DEF Detach, ProcAt
  <2>3. k <= used.conns
    BY <1>3 DEF IInv, PhaseInv, LiveInv, Busy, Dialling, HandedOut, GwType
  <2>4. CallBound(k) \in Nat /\ DrainBound(k) = CallBound(k)
    BY <1>3, <2>3, BoundType DEF IInv, LiveInv
  <2>5. ProcType' /\ proc'.k = k /\ proc'.pc = "drain" /\ proc'.left = CallBound(k)
    BY <1>1, <2>2, <2>4 DEF Types, ProcType, ClosePcs
  <2>6. ConnType' /\ conn'[k] = new /\ \A j \in Conns : j # k => conn'[j] = conn[j]
    BY <1>1, <1>3, <2>1, <2>2, OneConn
  <2>7. \A c \in Inflight(k) : call[c].left <= CallBound(k) + call[c].lag
    <3>1. \A c \in Inflight(k) : call[c].left <= CallBound(k) /\ call[c].left \in Nat /\ call[c].lag \in Nat
      BY <1>1 DEF IInv, RemoteInv, Inflight, Types, CallType, CallRecords
    <3> QED
      BY <2>4, <3>1
  <2>8. /\ gw.pc \in {"discarding", "removing", "changing", "stopping"} /\ s.start # "running"
        /\ s.transport = "closed" => \A c \in Inflight(k) : call[c].left <= call[c].lag
    BY <1>4, <2>2 DEF Local, ClosePcs
  <2>9. Local'
    BY <1>5, <2>1, <2>5, <2>6, <2>7, <2>8 DEF Local, ConnectPcs, ClosePcs
  <2> QED
    BY <2>1, <2>5, <2>6, <2>9
<1>16. CASE DrainInflight
  <2>1. /\ conn' = conn /\ proc.pc = "drain" /\ proc' = [proc EXCEPT !.pc = "close", !.left = 0]
        /\ Inflight(k) = {} \/ proc.left = 0
    BY <1>16 DEF DrainInflight, ProcAt
  <2>2. ProcType' /\ proc'.k = k /\ proc'.pc = "close"
    BY <1>1, <2>1 DEF Types, ProcType, ClosePcs
  <2>3. \A c \in Inflight(k) : call[c].left <= call[c].lag
    <3>1. \A c \in Inflight(k) : call[c].left <= proc.left + call[c].lag /\ call[c].left \in Nat /\ call[c].lag \in Nat
      BY <1>1, <1>4, <2>1 DEF Local, Types, CallType, CallRecords, Inflight
    <3> QED
      BY <2>1, <3>1
  <2>4. Local'
    BY <1>3, <1>4, <1>5, <2>1, <2>2, <2>3 DEF Local, ConnectPcs, ClosePcs
  <2> QED
    BY <1>3, <1>7, <2>1, <2>2, <2>4
<1>17. CASE CloseClient
  <2> DEFINE new == [s EXCEPT !.transport = "closed", !.child = FALSE]
  <2>1. new \in ConnRecords /\ new.transport = "closed" /\ new.start = s.start
        /\ new.client = s.client /\ new.cancelled = s.cancelled /\ new.cfg = s.cfg
    BY <1>3 DEF ConnRecords
  <2>2. conn' = [conn EXCEPT ![k] = new] /\ proc.pc = "close" /\ ProcReturns("ok")
    BY <1>17 DEF CloseClient, ProcAt
  <2>3. ProcType' /\ proc'.k = k /\ proc'.pc = "idle"
    BY <1>1, <2>2, ReturnsType
  <2>4. ConnType' /\ conn'[k] = new /\ \A j \in Conns : j # k => conn'[j] = conn[j]
    BY <1>1, <1>3, <2>1, <2>2, OneConn
  <2>5. /\ gw.pc \in {"discarding", "removing", "changing", "stopping"} /\ s.start # "running" /\ ~s.client
        /\ \A c \in Inflight(k) : call[c].left <= call[c].lag
    BY <1>4, <2>2 DEF Local, ClosePcs
  <2>6. Local'
    BY <1>5, <2>1, <2>3, <2>4, <2>5 DEF Local, ConnectPcs, ClosePcs
  <2> QED
    BY <2>1, <2>3, <2>4, <2>6
<1> QED
  BY <1>8, <1>9, <1>10, <1>11, <1>12, <1>13, <1>14, <1>15, <1>16, <1>17
     DEF ProcStep

(* The Start goroutine may end at any moment, and so may the context.        *)
LEMMA StartReturnsStep ==
    ASSUME IInv, NEW j \in Conns, StartReturns(j), UNCHANGED gatewayVars
    PROVE  IInv'
<1>1. Types /\ PhaseInv
  BY DEF IInv, Types
<1>2. j = proc.k /\ proc.pc \in {"race", "reap"} /\ Busy
  BY <1>1, ProcOnConn DEF StartReturns, IInv, StartInv
<1>3. conn[j] \in ConnRecords
  BY <1>1 DEF Types, ConnType
<1>4. PICK r \in {"ok", "failed"} : conn' = [conn EXCEPT ![j] = [conn[j] EXCEPT !.start = r]]
  BY DEF StartReturns
<1> DEFINE new == [conn[j] EXCEPT !.start = r]
<1>5. new \in ConnRecords /\ new.start = r /\ new.cfg = conn[j].cfg /\ new.client = conn[j].client
      /\ new.transport = conn[j].transport /\ new.cancelled = conn[j].cancelled
  BY <1>3 DEF ConnRecords
<1>6. ConnType' /\ conn'[j] = new /\ \A i \in Conns : i # j => conn'[i] = conn[i]
  BY <1>1, <1>2, <1>4, <1>5, OneConn
<1>7. proc' = proc /\ UNCHANGED <<registryVars, gatewayVars>> /\ gw' = gw /\ call' = call
  BY DEF StartReturns, gatewayVars, registryVars
<1>8. ProcMoves
  BY <1>1, <1>2, <1>5, <1>6, <1>7 DEF ProcMoves, Types, ProcType
<1>9. Local
  BY <1>2, LocalHolds
<1>10. \A i : Inflight(i)' = Inflight(i)
  BY <1>7 DEF Inflight, Joined
<1>11. Local'
  BY <1>2, <1>5, <1>6, <1>7, <1>9, <1>10 DEF Local, ConnectPcs, ClosePcs
<1> QED
  BY <1>2, <1>8, <1>11, ProcKeeps

LEMMA CancelConnectStep ==
    ASSUME IInv, CancelConnect, UNCHANGED gatewayVars
    PROVE  IInv'
<1>1. Types /\ PhaseInv
  BY DEF IInv, Types
<1>2. Busy
  BY <1>1, ProcOnConn DEF CancelConnect
<1>3. /\ conn' = conn /\ UNCHANGED <<registryVars, gatewayVars>> /\ gw' = gw /\ call' = call
      /\ proc' = [proc EXCEPT !.ctx = TRUE]
  BY DEF CancelConnect, gatewayVars, registryVars
<1>4. ProcType' /\ proc'.k = proc.k /\ proc'.pc = proc.pc /\ proc'.left = proc.left /\ proc'.out = proc.out
  BY <1>1, <1>3 DEF Types, ProcType
<1>5. ProcMoves
  BY <1>1, <1>3, <1>4 DEF ProcMoves, Types, ConnType
<1>6. Local /\ \A i : Inflight(i)' = Inflight(i)
  BY <1>2, <1>3, LocalHolds DEF Inflight, Joined
<1>7. Local'
  BY <1>3, <1>4, <1>6 DEF Local
<1> QED
  BY <1>2, <1>5, <1>7, ProcKeeps

(* A tick takes one from every call in flight and from the drain.            *)
LEMMA TickStep ==
    ASSUME IInv, Tick, UNCHANGED gatewayVars
    PROVE  IInv'
<1>1. Types /\ PhaseInv /\ Registry /\ Connections /\ Maps
  BY DEF IInv, Types, Registry, Connections, Maps
<1>2. /\ servers' = servers /\ configs' = configs /\ failed' = failed /\ defaultDir' = defaultDir
      /\ stopped' = stopped /\ gw' = gw /\ used' = used /\ conn' = conn
      /\ reg' = reg /\ overrides' = overrides /\ grantedTo' = grantedTo /\ settings' = settings
  BY DEF Tick, gatewayVars, regVars
<1>3. /\ ProcType' /\ proc'.k = proc.k /\ proc'.pc = proc.pc /\ proc'.out = proc.out
      /\ proc.left \in Nat
      /\ proc'.left = IF proc.left > 0 THEN proc.left - 1 ELSE 0
      /\ proc.left = 0 => proc' = proc
  BY <1>1 DEF Tick, Types, ProcType
<1>4. /\ CallType'
      /\ \A c \in Callers : /\ call'[c].pc = call[c].pc /\ call'[c].tool = call[c].tool
                            /\ call'[c].asked = call[c].asked
                            /\ call[c].left \in Nat /\ call[c].lag \in Nat
                            /\ At(c, "remote") => /\ call[c].left > 0 /\ call'[c].left = call[c].left - 1
                                                  /\ call'[c].lag = call[c].lag
                            /\ At(c, "joined") => /\ call'[c].left = call[c].left
                                                  /\ call'[c].lag = call[c].lag + 1
  <2> DEFINE new(c) == Ticked(c)
  <2>1. ASSUME NEW c \in Callers
        PROVE  /\ new(c) \in CallRecords /\ new(c).pc = call[c].pc /\ new(c).tool = call[c].tool
               /\ new(c).asked = call[c].asked /\ call[c].left \in Nat /\ call[c].lag \in Nat
               /\ At(c, "remote") => call[c].left > 0 /\ new(c).left = call[c].left - 1 /\ new(c).lag = call[c].lag
               /\ At(c, "joined") => new(c).left = call[c].left /\ new(c).lag = call[c].lag + 1
    <3>1. call[c] \in CallRecords /\ call[c].left \in Nat /\ call[c].lag \in Nat
      BY <1>1 DEF Types, CallType, CallRecords
    <3>2. CASE At(c, "remote")
      <4>1. call[c].left > 0 /\ call[c].left - 1 \in Nat
        BY <3>1, <3>2 DEF Tick
      <4>2. new(c) = [call[c] EXCEPT !.left = @ - 1] /\ ~At(c, "joined")
        BY <3>2 DEF Ticked, At
      <4> HIDE DEF new
      <4> QED
        BY <3>1, <3>2, <4>1, <4>2 DEF CallRecords
    <3>3. CASE At(c, "joined")
      <4>1. new(c) = [call[c] EXCEPT !.lag = @ + 1] /\ ~At(c, "remote")
        BY <3>3 DEF Ticked, At
      <4> HIDE DEF new
      <4> QED
        BY <3>1, <3>3, <4>1 DEF CallRecords
    <3>4. CASE ~At(c, "remote") /\ ~At(c, "joined")
      BY <3>1, <3>4 DEF Ticked
    <3> QED
      BY <3>2, <3>3, <3>4
  <2>2. call' = [c \in Callers |-> new(c)]
    BY DEF Tick
  <2> HIDE DEF new
  <2> QED
    BY <2>1, <2>2 DEF CallType
<1>5. Types'
  BY <1>1, <1>2, <1>3, <1>4 DEF Types, RegistryType, ConnType, GwType
<1>6. \A k : HandedOut(k)' <=> HandedOut(k)
  BY <1>2, <1>3 DEF HandedOut, Dialling
<1>7. Registry'
  <2>1. ToolsInv' /\ AskedInv' /\ OverrideBelongsToTool'
    BY <1>1, <1>2, <1>4, <1>6 DEF Registry, ToolsInv, AskedInv, OverrideBelongsToTool, Registered
  <2>2. RemoteInv'
    <3>1. ASSUME NEW c \in Callers, Joined(c)'
          PROVE  /\ call[c].tool.kind = "mcp" /\ call[c].tool.conn \in Conns
                 /\ call'[c].tool = call[c].tool /\ call'[c].left <= CallBound(call[c].tool.conn)
      <4> DEFINE k == call[c].tool.conn
      <4>1. (At(c, "remote") \/ At(c, "joined")) /\ call[c].tool.kind = "mcp" /\ call[c].left <= CallBound(k)
        BY <1>1, <1>4, <3>1 DEF Registry, RemoteInv, Joined, At
      <4>2. k \in Conns /\ CallBound(k) \in Nat
        BY <1>1, <4>1, BoundType DEF Registry, ToolsInv, HandedOut, Maps, LiveInv
      <4>3. call'[c].tool = call[c].tool /\ call'[c].left \in {call[c].left - 1, call[c].left} /\ call[c].left \in Nat
        BY <1>4, <4>1
      <4> QED
        BY <4>1, <4>2, <4>3
    <3>2. \A k \in Conns : CallBound(k)' = CallBound(k)
      BY <1>2 DEF CallBound
    <3> QED
      BY <3>1, <3>2 DEF RemoteInv
  <2> QED
    BY <2>1, <2>2 DEF Registry
<1>8. Connections'
  <2>1. PhaseInv'
    <3>1. Live' = Live
      BY <1>2 DEF Live
    <3>2. gw.pc \in {"new", "idle"} => proc' = proc
      BY <1>1, <1>3, IdleProcType DEF PhaseInv
    <3> QED
      BY <1>1, <1>2, <1>3, <3>1, <3>2 DEF PhaseInv, Dialling
  <2>2. StartInv' /\ ClientInv' /\ OwnerInv' /\ NoCloseDuringStart'
    BY <1>1, <1>2, <1>3 DEF Connections, StartInv, ClientInv, OwnerInv, NoCloseDuringStart, Dialling
  <2>3. \A k : \A c \in Inflight(k)' :
            /\ c \in Inflight(k) /\ c \in Callers
            /\ call[c].left \in Nat /\ call[c].lag \in Nat
            /\ \/ call[c].left > 0 /\ call'[c].left = call[c].left - 1 /\ call'[c].lag = call[c].lag
               \/ call'[c].left = call[c].left /\ call'[c].lag = call[c].lag + 1
    BY <1>4 DEF Inflight, Joined, At
  <2>4. DrainInv'
    <3>1. proc.pc = "drain" => \A c \in Inflight(proc.k)' : call'[c].left <= proc'.left + call'[c].lag
      <4> SUFFICES ASSUME proc.pc = "drain", NEW c \in Inflight(proc.k)'
                   PROVE  call'[c].left <= proc'.left + call'[c].lag
        OBVIOUS
      <4>1. c \in Inflight(proc.k)
        BY <1>3, <2>3
      <4>2. call[c].left <= proc.left + call[c].lag
        BY <1>1, <4>1 DEF Connections, DrainInv
      <4> QED
        BY <1>3, <2>3, <4>2
    <3>2. proc.pc = "close" => \A c \in Inflight(proc.k)' : call'[c].left <= call'[c].lag
      <4> SUFFICES ASSUME proc.pc = "close", NEW c \in Inflight(proc.k)'
                   PROVE  call'[c].left <= call'[c].lag
        OBVIOUS
      <4>1. c \in Inflight(proc.k)
        BY <1>3, <2>3
      <4>2. call[c].left <= call[c].lag
        BY <1>1, <4>1 DEF Connections, DrainInv
      <4> QED
        BY <2>3, <4>2
    <3> QED
      BY <1>3, <3>1, <3>2 DEF DrainInv
  <2>5. CloseWaitsForCalls'
    <3> SUFFICES ASSUME NEW k \in Conns, conn[k].transport = "closed", NEW c \in Inflight(k)'
                 PROVE  call'[c].left <= call'[c].lag
      BY <1>2 DEF CloseWaitsForCalls
    <3>1. call[c].left <= call[c].lag
      BY <1>1, <2>3 DEF Connections, CloseWaitsForCalls
    <3> QED
      BY <2>3, <3>1
  <2> QED
    BY <2>1, <2>2, <2>4, <2>5 DEF Connections
<1>9. Maps'
  <2>1. UNCHANGED <<reg, gatewayVars>>
    BY <1>2 DEF gatewayVars
  <2> QED
    BY <1>1, <1>2, <1>3, <2>1, MapsFrame
<1> QED
  <2>1. Types' /\ Registry' /\ Connections' /\ Maps'
    BY <1>5, <1>7, <1>8, <1>9
  <2> QED
    BY <2>1 DEF IInv, Types, Registry, Connections, Maps

-----------------------------------------------------------------------------
(* Changes of the registry                                                   *)

(* What a method of the registry does to each name: nothing, a new or no     *)
(* tool without an override, or an override for the tool at hand.            *)
RegMoves ==
    \A n \in ToolNames :
        \/ reg'[n] = reg[n] /\ overrides'[n] = overrides[n] /\ grantedTo'[n] = grantedTo[n]
        \/ overrides'[n] = "none"
        \/ reg'[n] = reg[n] /\ grantedTo'[n] = reg[n].tool

LEMMA OverrideKept ==
    ASSUME OverrideBelongsToTool, RegMoves
    PROVE  OverrideBelongsToTool'
  BY DEF OverrideBelongsToTool, Registered, RegMoves

RegEntries == [tool : ToolRecords, source : ServerNames \union {"none"}, cat : {"none", "core", "mcp"}]

LEMMA NoEntryType == NoEntry \in RegEntries /\ NoEntry.cat = "none" /\ NoEntry.tool.kind = "none"
  BY Basics DEF NoEntry, RegEntries, NoTool

(* registerLocked, of a host's tool or of an MCP tool.                       *)
LEMMA RegisterMoves ==
    ASSUME Types, NEW n \in ToolNames, NEW tool \in ToolRecords, NEW source \in ServerNames \union {"none"},
           NEW cat \in {"core", "mcp"}, registerLocked(n, tool, source, cat), settings' = settings
    PROVE  /\ RegistryType' /\ RegMoves
           /\ \A m \in ToolNames :
                \/ reg'[m] = reg[m]
                \/ /\ m = n /\ MayRegister(n, cat)
                   /\ reg'[m].tool = tool /\ reg'[m].source = source /\ reg'[m].cat = cat
<1> DEFINE e == [tool |-> tool, source |-> source, cat |-> cat]
<1>1. e \in RegEntries /\ NoTool \in ToolRecords
  BY Basics DEF RegEntries
<1>2. CASE MayRegister(n, cat)
  <2>1. /\ reg' = [reg EXCEPT ![n] = e]
        /\ overrides' = [overrides EXCEPT ![n] = "none"]
        /\ grantedTo' = [grantedTo EXCEPT ![n] = NoTool]
    BY <1>2 DEF registerLocked
  <2>2. RegistryType'
    BY <1>1, <2>1 DEF Types, RegistryType, RegEntries
  <2>3. \A m \in ToolNames : /\ m # n => reg'[m] = reg[m] /\ overrides'[m] = overrides[m] /\ grantedTo'[m] = grantedTo[m]
                             /\ m = n => reg'[m] = e /\ overrides'[m] = "none"
    BY <2>1 DEF Types, RegistryType
  <2> QED
    BY <1>2, <2>2, <2>3 DEF RegMoves
<1>3. CASE ~MayRegister(n, cat)
  BY <1>3 DEF registerLocked, RegMoves, Types, RegistryType
<1> QED
  BY <1>2, <1>3

(* Unregister and UnregisterBySource.                                        *)
LEMMA DropMoves ==
    ASSUME Types, NEW S, DropEntries(S), settings' = settings
    PROVE  /\ RegistryType' /\ RegMoves
           /\ \A m \in ToolNames : reg'[m] = IF m \in S THEN NoEntry ELSE reg[m]
<1>1. \A m \in ToolNames : /\ reg'[m] = IF m \in S THEN NoEntry ELSE reg[m]
                           /\ overrides'[m] = IF m \in S THEN "none" ELSE overrides[m]
                           /\ grantedTo'[m] = IF m \in S THEN NoTool ELSE grantedTo[m]
  BY DEF DropEntries
<1>2. RegistryType'
  <2>1. reg' \in [ToolNames -> RegEntries]
    BY NoEntryType DEF DropEntries, Types, RegistryType, RegEntries
  <2>2. overrides' \in [ToolNames -> Policies \union {"none"}]
    BY DEF DropEntries, Types, RegistryType
  <2>3. grantedTo' \in [ToolNames -> ToolRecords]
    BY Basics DEF DropEntries, Types, RegistryType
  <2> QED
    BY <2>1, <2>2, <2>3 DEF Types, RegistryType, RegEntries
<1> QED
  BY <1>1, <1>2 DEF RegMoves

(* The hosts' calls preserve the invariant.                                  *)
LEMMA HostSteps ==
    ASSUME IInv, HostStep
    PROVE  IInv'
<1>1. Types /\ PhaseInv /\ Registry /\ Connections /\ Maps
  BY DEF IInv, Types, Registry, Connections, Maps
<1>2. /\ UNCHANGED <<servers, configs, failed, defaultDir, stopped, gw>> /\ conn' = conn /\ proc' = proc
      /\ settings' = settings /\ call' = call
  BY DEF HostStep, serverVars, Register, Unregister, SetPolicyOverride, ClearPolicyOverride
<1>3. used'.conns = used.conns /\ GwType'
  <2>1. used' = used \/ used' = [used EXCEPT !.host = used.host + 1]
    BY DEF HostStep
  <2> QED
    BY <1>1, <1>2, <2>1 DEF Types, GwType
<1>4. /\ RegistryType' /\ RegMoves
      /\ \A m \in ToolNames : reg'[m] = reg[m] \/ (reg'[m].cat # "mcp" /\ reg'[m].tool.kind # "mcp")
  <2>1. CASE \E n \in ToolNames, t \in CoreTools : Register(n, t)
    <3> PICK n \in ToolNames, t \in CoreTools : Register(n, t)
      BY <2>1
    <3>1. registerLocked(n, t, "none", "core") /\ t \in ToolRecords /\ t.kind = "core"
      BY Basics DEF Register
    <3>2. "none" \in ServerNames \union {"none"} /\ "core" \in {"core", "mcp"} /\ settings' = settings
      BY <1>2
    <3>3. /\ RegistryType' /\ RegMoves
          /\ \A m \in ToolNames : reg'[m] = reg[m] \/ (reg'[m].tool = t /\ reg'[m].cat = "core")
      BY <1>1, <3>1, <3>2, RegisterMoves
    <3> QED
      BY <3>1, <3>3
  <2>2. CASE \E n \in ToolNames : Unregister(n)
    <3> PICK n \in ToolNames : Unregister(n)
      BY <2>2
    <3>1. DropEntries({n})
      BY DEF Unregister
    <3> QED
      BY <1>1, <1>2, <3>1, DropMoves, NoEntryType
  <2>3. CASE \E n \in ToolNames, p \in HostPolicies : SetPolicyOverride(n, p)
    <3> PICK n \in ToolNames, p \in HostPolicies : SetPolicyOverride(n, p)
      BY <2>3
    <3>1. p \in Policies /\ reg[n].tool \in ToolRecords
      BY <1>1, HostAssumption DEF Types, RegistryType
    <3> QED
      BY <1>1, <1>2, <3>1 DEF SetPolicyOverride, RegMoves, Types, RegistryType
  <2>4. CASE \E n \in ToolNames : ClearPolicyOverride(n)
    <3>1. NoTool \in ToolRecords
      BY Basics
    <3> QED
      BY <1>1, <1>2, <2>4, <3>1 DEF ClearPolicyOverride, RegMoves, Types, RegistryType
  <2> QED
    BY <2>1, <2>2, <2>3, <2>4 DEF HostStep
<1>5. \A k : HandedOut(k)' <=> HandedOut(k)
  BY <1>2, <1>3 DEF HandedOut, Dialling
<1>6. Types'
  BY <1>1, <1>2, <1>3, <1>4 DEF Types, CallType, ConnType, ProcType
<1>7. Registry'
  <2>1. ToolsInv'
    BY <1>1, <1>2, <1>4, <1>5 DEF Registry, ToolsInv
  <2>2. AskedInv' /\ RemoteInv'
    BY <1>1, <1>2 DEF Registry, AskedInv, RemoteInv, Joined, CallBound
  <2>3. OverrideBelongsToTool'
    BY <1>1, <1>4, OverrideKept DEF Registry
  <2> QED
    BY <2>1, <2>2, <2>3 DEF Registry
<1>8. Connections'
  <2>1. PhaseInv' /\ StartInv' /\ ClientInv' /\ OwnerInv' /\ NoCloseDuringStart'
    BY <1>1, <1>2, <1>3 DEF Connections, PhaseInv, StartInv, ClientInv, OwnerInv, NoCloseDuringStart, Dialling, Live
  <2>2. DrainInv' /\ CloseWaitsForCalls'
    BY <1>1, <1>2 DEF Connections, DrainInv, CloseWaitsForCalls, Inflight, Joined
  <2> QED
    BY <2>1, <2>2 DEF Connections
<1>9. Maps'
  BY <1>1, <1>2, <1>3, <1>4, MapsKept
<1> QED
  <2>1. Types' /\ Registry' /\ Connections' /\ Maps'
    BY <1>6, <1>7, <1>8, <1>9
  <2> QED
    BY <2>1 DEF IInv, Types, Registry, Connections, Maps

-----------------------------------------------------------------------------
(* Steps of the gateway's operations, which find the procedure at rest       *)

(* Outside the operations that wait for it the procedure is at rest.         *)
LEMMA AtRest ==
    ASSUME IInv, ~Busy
    PROVE  proc.pc = "idle"
  BY ProcOnConn, Groups DEF Connections

(* A step of the gateway that makes no connection preserves the invariant    *)
(* if it preserves what its phases and its maps are about.                   *)
LEMMA GatewayKeeps ==
    ASSUME IInv, proc.pc = "idle", conn' = conn, call' = call,
           RegistryType', RegMoves, ProcType', GwType', proc'.pc \in {"idle", "list", "detach"},
           \A n \in ToolNames :
               \/ reg'[n] = reg[n]
               \/ reg'[n].cat # "mcp" /\ reg'[n].tool.kind # "mcp"
               \/ reg'[n].cat = "mcp" /\ reg'[n].tool.kind = "mcp" /\ HandedOut(reg'[n].tool.conn),
           \A k : HandedOut(k) => HandedOut(k)',
           PhaseInv', ClientInv', OwnerInv', Maps'
    PROVE  IInv'
<1>1. Types'
  BY DEF IInv, Types, CallType, ConnType
<1>2. Registry'
  <2>1. ToolsInv'
    <3>1. \A n \in ToolNames : /\ reg'[n].cat = "mcp" <=> reg'[n].tool.kind = "mcp"
                               /\ reg'[n].tool.kind = "mcp" => HandedOut(reg'[n].tool.conn)
      BY DEF IInv, ToolsInv
    <3>2. \A n \in ToolNames : reg'[n].tool.kind = "mcp" => HandedOut(reg[n].tool.conn)'
      BY <3>1
    <3>3. \A c \in Callers : call'[c].tool.kind = "mcp" => HandedOut(call[c].tool.conn)'
      BY DEF IInv, ToolsInv
    <3> QED
      BY <3>1, <3>2, <3>3 DEF ToolsInv
  <2>2. AskedInv' /\ RemoteInv'
    BY DEF IInv, AskedInv, RemoteInv, Joined, CallBound
  <2>3. OverrideBelongsToTool'
    BY OverrideKept DEF IInv
  <2> QED
    BY <2>1, <2>2, <2>3 DEF Registry
<1>3. Connections'
  <2>1. StartInv' /\ NoCloseDuringStart'
    BY DEF IInv, StartInv, NoCloseDuringStart
  <2>2. DrainInv' /\ CloseWaitsForCalls'
    BY DEF IInv, DrainInv, CloseWaitsForCalls, Inflight, Joined
  <2> QED
    BY <2>1, <2>2 DEF Connections
<1> QED
  BY <1>1, <1>2, <1>3 DEF IInv, Types, Registry, Connections, Maps

(* The same of a step that leaves the registry alone.                        *)
LEMMA GatewayKeepsPlain ==
    ASSUME IInv, proc.pc = "idle", conn' = conn, UNCHANGED registryVars,
           ProcType', GwType', proc'.pc \in {"idle", "list", "detach"},
           \A k : HandedOut(k) => HandedOut(k)',
           PhaseInv', ClientInv', OwnerInv', Maps'
    PROVE  IInv'
<1>1. reg' = reg /\ overrides' = overrides /\ grantedTo' = grantedTo /\ settings' = settings /\ call' = call
  BY DEF registryVars, regVars
<1>2. RegistryType' /\ RegMoves
  BY <1>1 DEF IInv, RegistryType, RegMoves
<1> QED
  BY <1>1, <1>2, GatewayKeeps

(* Inside an operation nothing is claimed of the settled gateway.            *)
LEMMA Unsettled ==
    ASSUME gw'.pc \notin {"idle", "changing"}, ~stopped'
    PROVE  MapsAgree' /\ StopIsFinal' /\ NoChurn'
  BY DEF MapsAgree, StopIsFinal, NoChurn, Settled

LEMMA StartGatewayStep ==
    ASSUME IInv, NEW want \in Configurations, StartGateway(want)
    PROVE  IInv'
<1>1. /\ UNCHANGED <<registryVars, conn, proc, servers, configs, failed, defaultDir, stopped, used>>
      /\ gw' = [gw EXCEPT !.op = "start", !.pc = "pick", !.want = want, !.todo = DOMAIN want]
      /\ gw.pc = "new"
  BY DEF StartGateway, serverVars
<1>2. /\ gw'.op = "start" /\ gw'.pc = "pick" /\ gw'.want = want /\ gw'.todo = DOMAIN want
      /\ gw'.current = gw.current /\ DOMAIN want \subseteq ServerNames
      /\ GwType'
  BY <1>1, GatewayConstants DEF IInv, GwType
<1>3. proc.pc = "idle" /\ proc.k = 0 /\ Live = {} /\ Live' = {} /\ failed = {} /\ gw.current = {} /\ ~stopped
  BY <1>1, IdleProcType DEF IInv, PhaseInv, LiveInv, StopInv, Live
<1>4. \A k : HandedOut(k)' <=> HandedOut(k)
  BY <1>1, <1>2 DEF HandedOut, Dialling
<1>5. PhaseInv' /\ ClientInv' /\ OwnerInv'
  BY <1>1, <1>2, <1>3 DEF IInv, PhaseInv, ClientInv, OwnerInv, Dialling, ConnectPcs, ClosePcs
<1>6. LiveInv' /\ DirInv' /\ BeforeInv' /\ DialInv' /\ RemoveInv' /\ StopInv'
  BY <1>1, <1>2, <1>3 DEF IInv, LiveInv, DirInv, BeforeInv, DialInv, RemoveInv, StopInv, Dialling, Removing, Stopping
<1>7. PickInv'
  BY <1>1, <1>2, <1>3 DEF PickInv, Dialling
<1>8. SourceInv'
  BY <1>1, <1>2 DEF IInv, SourceInv, registryVars, regVars
<1>9. Maps'
  BY <1>1, <1>2, <1>3, <1>6, <1>7, <1>8, Unsettled DEF Maps
<1>10. ProcType'
  BY <1>1 DEF IInv, ProcType
<1> QED
  BY <1>1, <1>2, <1>3, <1>4, <1>5, <1>9, <1>10, GatewayKeepsPlain

LEMMA ReconfigureStep ==
    ASSUME IInv, NEW want \in Configurations, NEW dir \in Dirs \union {"none"}, Reconfigure(want, dir)
    PROVE  IInv'
<1>1. /\ UNCHANGED <<registryVars, conn, proc, servers, configs, failed, defaultDir, stopped>>
      /\ gw' = [gw EXCEPT !.op = "reconfigure", !.pc = "remove", !.want = want, !.before = gw.want, !.current = Live,
                          !.todo = Live \ DOMAIN want, !.dir = dir, !.aborted = FALSE]
      /\ used' = [used EXCEPT !.reconfigures = used.reconfigures + 1]
      /\ gw.pc = "idle" /\ ~stopped
  BY DEF Reconfigure, serverVars
<1>2. /\ gw'.op = "reconfigure" /\ gw'.pc = "remove" /\ gw'.want = want /\ gw'.todo = Live \ DOMAIN want
      /\ gw'.before = gw.want /\ gw'.current = Live /\ gw'.dir = dir /\ gw'.aborted = FALSE
      /\ used'.conns = used.conns /\ GwType'
  <2>1. used'.conns = used.conns /\ used' \in [conns : Nat, reconfigures : Nat, moves : Nat, host : Nat]
    BY <1>1 DEF IInv, GwType
  <2>2. Live \in SUBSET ServerNames /\ Live \ DOMAIN want \in SUBSET ServerNames
    BY DEF Live
  <2> QED
    BY <1>1, <2>1, <2>2 DEF IInv, GwType
<1>3. proc.pc = "idle" /\ Live' = Live
  BY <1>1, IdleProcType DEF IInv, PhaseInv, Live
<1>4. \A k : HandedOut(k)' <=> HandedOut(k)
  BY <1>1, <1>2 DEF HandedOut, Dialling
<1>5. PhaseInv' /\ ClientInv' /\ OwnerInv'
  BY <1>1, <1>2, <1>3 DEF IInv, PhaseInv, ClientInv, OwnerInv, Dialling, ConnectPcs, ClosePcs
<1>6. LiveInv'
  BY <1>1, <1>2, <1>3, <1>4 DEF IInv, LiveInv, Stopping
<1>7. DirInv' /\ PickInv' /\ DialInv' /\ StopInv'
  BY <1>1, <1>2, <1>3 DEF IInv, DirInv, PickInv, DialInv, StopInv, Picking, Dialling, Stopping
<1>12. BeforeInv'
  BY <1>1, <1>2, <1>3 DEF IInv, MapsAgree, Settled, BeforeInv, Picking, Captured
<1>8. RemoveInv'
  BY <1>1, <1>2, <1>3 DEF RemoveInv
<1>9. SourceInv'
  BY <1>1, <1>2 DEF IInv, SourceInv, registryVars, regVars
<1>10. Maps'
  BY <1>1, <1>2, <1>6, <1>7, <1>8, <1>9, <1>12, Unsettled DEF Maps
<1>11. ProcType'
  BY <1>1 DEF IInv, ProcType
<1> QED
  BY <1>1, <1>2, <1>3, <1>4, <1>5, <1>10, <1>11, GatewayKeepsPlain

LEMMA StopStep ==
    ASSUME IInv, Stop
    PROVE  IInv'
<1>1. /\ UNCHANGED <<registryVars, conn, proc, servers, configs, failed, defaultDir, stopped, used>>
      /\ gw' = [gw EXCEPT !.op = "stop", !.pc = "stop", !.todo = Live]
      /\ gw.pc = "idle" /\ ~stopped
  BY DEF Stop, serverVars
<1>2. gw'.op = "stop" /\ gw'.pc = "stop" /\ gw'.todo = Live /\ GwType'
  BY <1>1 DEF IInv, GwType, Live
<1>3. proc.pc = "idle" /\ Live' = Live
  BY <1>1, IdleProcType DEF IInv, PhaseInv, Live
<1>4. \A k : HandedOut(k)' <=> HandedOut(k)
  BY <1>1, <1>2 DEF HandedOut, Dialling
<1>5. PhaseInv' /\ ClientInv' /\ OwnerInv'
  BY <1>1, <1>2, <1>3 DEF IInv, PhaseInv, ClientInv, OwnerInv, Dialling, ConnectPcs, ClosePcs
<1>6. LiveInv'
  BY <1>1, <1>2, <1>3, <1>4 DEF IInv, LiveInv, Stopping
<1>7. DirInv' /\ BeforeInv' /\ PickInv' /\ DialInv' /\ StopInv' /\ RemoveInv'
  BY <1>1, <1>2, <1>3 DEF IInv, DirInv, BeforeInv, PickInv, DialInv, StopInv, RemoveInv, Picking, Dialling, Stopping, Removing
<1>8. SourceInv'
  BY <1>1, <1>2 DEF IInv, SourceInv, registryVars, regVars
<1>9. Maps'
  BY <1>1, <1>2, <1>6, <1>7, <1>8, Unsettled DEF Maps
<1>10. ProcType'
  BY <1>1 DEF IInv, ProcType
<1> QED
  BY <1>1, <1>2, <1>3, <1>4, <1>5, <1>9, <1>10, GatewayKeepsPlain

(* A move of the default directory follows the servers that run in it.       *)
LEMMA SetDefaultWorkDirStep ==
    ASSUME IInv, NEW dir \in Dirs, SetDefaultWorkDir(dir)
    PROVE  IInv'
<1>1. /\ UNCHANGED <<registryVars, conn, proc, servers, failed, stopped, gw>>
      /\ defaultDir' = dir
      /\ configs' = [n \in ServerNames |-> IF configs[n] # NoConfig /\ configs[n].dir = defaultDir
                                           THEN [configs[n] EXCEPT !.dir = dir] ELSE configs[n]]
      /\ used' = [used EXCEPT !.moves = used.moves + 1]
      /\ gw.pc = "idle"
  BY DEF SetDefaultWorkDir, serverVars
<1>2. used'.conns = used.conns /\ used' \in [conns : Nat, reconfigures : Nat, moves : Nat, host : Nat]
  BY <1>1 DEF IInv, GwType
<1>3. proc.pc = "idle" /\ Live' = Live /\ (\A n \in Live : servers[n] \in Conns /\ configs[n] # NoConfig)
  BY <1>1, IdleProcType DEF IInv, PhaseInv, Live, GwType, LiveInv
<1>4. \A n \in ServerNames : /\ configs[n] \in ConfigRecords /\ configs'[n] \in ConfigRecords
                             /\ configs'[n].entry = configs[n].entry
                             /\ configs[n] = NoConfig => configs'[n] = NoConfig
                             /\ configs[n] # NoConfig =>
                                  configs'[n].dir = IF configs[n].dir = defaultDir THEN dir ELSE configs[n].dir
  BY <1>1 DEF IInv, GwType, ConfigRecords
<1>5. \A n \in Live : configs'[n] # NoConfig
  <2> SUFFICES ASSUME NEW n \in Live PROVE configs'[n].entry # NoConfig.entry
    OBVIOUS
  <2>1. configs[n].entry \in Entries /\ n \in ServerNames
    BY <1>3 DEF IInv, LiveInv, HandedOut, Live
  <2> QED
    BY <1>4, <2>1, EntryIsSet DEF NoConfig, UnsetEntry
<1>6. GwType'
  <2>1. configs' \in [ServerNames -> ConfigRecords]
    BY <1>1, <1>4
  <2> QED
    BY <1>1, <1>2, <2>1 DEF IInv, GwType
<1>7. \A k : HandedOut(k)' <=> HandedOut(k)
  BY <1>1, <1>2 DEF HandedOut, Dialling
<1>8. PhaseInv' /\ ClientInv' /\ OwnerInv'
  BY <1>1, <1>2, <1>3 DEF IInv, PhaseInv, ClientInv, OwnerInv, Dialling, ConnectPcs, ClosePcs
<1>9. LiveInv'
  <2>1. \A n \in ServerNames : servers[n] = 0 <=> configs'[n] = NoConfig
    BY <1>4, <1>5 DEF IInv, LiveInv, Live
  <2>2. \A n \in Live : n \in ServerNames /\ configs'[n].entry = configs[n].entry
    BY <1>4 DEF Live
  <2> QED
    BY <1>1, <1>2, <1>3, <1>7, <2>1, <2>2 DEF IInv, LiveInv, Stopping
<1>10. DirInv'
  <2>1. \A n \in Live : n \in ServerNames
    BY DEF Live
  <2> QED
    BY <1>1, <1>3, <1>4, <2>1 DEF IInv, DirInv, Picking, Removing
<1>11. BeforeInv' /\ PickInv' /\ DialInv' /\ StopInv' /\ RemoveInv'
  BY <1>1, <1>3 DEF IInv, BeforeInv, PickInv, DialInv, StopInv, RemoveInv, Picking, Dialling, Stopping, Removing
<1>12. SourceInv'
  BY <1>1 DEF IInv, SourceInv, registryVars, regVars
<1>13. MapsAgree' /\ StopIsFinal' /\ NoChurn'
  <2>1. \A n \in ServerNames : servers'[n] = 0 <=> configs'[n] = NoConfig
    BY <1>9 DEF LiveInv
  <2> QED
    BY <1>1, <1>3, <2>1 DEF IInv, MapsAgree, StopIsFinal, NoChurn, Settled, Captured
<1>14. Maps'
  BY <1>9, <1>10, <1>11, <1>12, <1>13 DEF Maps
<1>15. ProcType'
  BY <1>1 DEF IInv, ProcType
<1> QED
  BY <1>1, <1>3, <1>6, <1>7, <1>8, <1>14, <1>15, GatewayKeepsPlain

(* Steps inside the loop over the wanted servers that only move gw on.       *)
LEMMA AbortStartStep ==
    ASSUME IInv, AbortStart
    PROVE  IInv'
<1>1. /\ UNCHANGED <<registryVars, conn, proc, servers, configs, failed, defaultDir, stopped, used>>
      /\ gw' = [gw EXCEPT !.todo = {}, !.aborted = TRUE]
      /\ gw.pc = "pick" /\ gw.op = "start"
  BY DEF AbortStart, serverVars
<1>2. /\ gw'.op = gw.op /\ gw'.pc = "pick" /\ gw'.todo = {} /\ gw'.want = gw.want /\ gw'.current = gw.current
      /\ gw'.aborted /\ GwType'
  BY <1>1 DEF IInv, GwType
<1>3. proc.pc = "idle" /\ Live' = Live /\ ~stopped
  BY <1>1, AtRest DEF Live, Busy, IInv, StopInv
<1>4. \A k : HandedOut(k)' <=> HandedOut(k)
  BY <1>1, <1>2 DEF HandedOut, Dialling
<1>5. PhaseInv' /\ ClientInv' /\ OwnerInv'
  BY <1>1, <1>2, <1>3 DEF IInv, PhaseInv, ClientInv, OwnerInv, Dialling, ConnectPcs, ClosePcs
<1>6. LiveInv'
  BY <1>1, <1>2, <1>3, <1>4 DEF IInv, LiveInv, Stopping
<1>7. DirInv' /\ BeforeInv' /\ DialInv' /\ StopInv' /\ RemoveInv'
  <2>1. \A n \in Live : n \notin gw.todo
    BY <1>1 DEF IInv, PickInv, Picking
  <2> QED
    BY <1>1, <1>2, <1>3, <2>1 DEF IInv, DirInv, BeforeInv, DialInv, StopInv, RemoveInv, Picking, Dialling, Stopping, Removing
<1>8. PickInv'
  <2>1. gw.current = {} /\ \A n \in Live : n \notin gw.todo
    BY <1>1 DEF IInv, PickInv, Picking
  <2> QED
    BY <1>1, <1>2, <1>3, <2>1 DEF IInv, PickInv, Picking, Dialling
<1>9. SourceInv'
  BY <1>1, <1>2 DEF IInv, SourceInv, registryVars, regVars
<1>10. Maps'
  BY <1>1, <1>2, <1>3, <1>6, <1>7, <1>8, <1>9, Unsettled DEF Maps
<1>11. ProcType'
  BY <1>1 DEF IInv, ProcType
<1> QED
  BY <1>1, <1>2, <1>3, <1>4, <1>5, <1>10, <1>11, GatewayKeepsPlain

LEMMA KeepServerStep ==
    ASSUME IInv, NEW n \in ServerNames, KeepServer(n)
    PROVE  IInv'
<1>1. /\ UNCHANGED <<registryVars, conn, proc, servers, configs, failed, defaultDir, stopped, used>>
      /\ gw' = [gw EXCEPT !.todo = gw.todo \ {n}]
      /\ gw.pc = "pick" /\ n \in gw.todo /\ n \in gw.current /\ ~Changed(n)
  BY DEF KeepServer, serverVars
<1>2. /\ gw'.op = gw.op /\ gw'.pc = "pick" /\ gw'.todo = gw.todo \ {n} /\ gw'.want = gw.want
      /\ gw'.current = gw.current /\ gw'.before = gw.before /\ gw'.dir = gw.dir /\ gw'.aborted = gw.aborted
      /\ GwType'
  BY <1>1 DEF IInv, GwType
<1>3. proc.pc = "idle" /\ Live' = Live /\ ~stopped
  BY <1>1, AtRest DEF Live, Busy, IInv, StopInv
<1>4. \A k : HandedOut(k)' <=> HandedOut(k)
  BY <1>1, <1>2 DEF HandedOut, Dialling
<1>5. PhaseInv' /\ ClientInv' /\ OwnerInv'
  BY <1>1, <1>2, <1>3 DEF IInv, PhaseInv, ClientInv, OwnerInv, Dialling, ConnectPcs, ClosePcs
<1>6. LiveInv'
  BY <1>1, <1>2, <1>3, <1>4 DEF IInv, LiveInv, Stopping
<1>7. /\ n \in Live /\ n \in DOMAIN gw.want /\ configs[n].entry = conn[servers[n]].cfg.entry
      /\ Captured(configs[n].entry) = Captured(gw.want[n])
      /\ gw.want[n].dir = "none" => configs[n].dir = defaultDir
  <2>1. n \in Live /\ n \in DOMAIN gw.want
    BY <1>1 DEF IInv, PickInv, Picking, Dialling
  <2>2. ServerConfigFromEntry(gw.want[n]).entry = gw.want[n]
        /\ ServerConfigFromEntry(gw.want[n]).dir = DefaultWorkDirFor(gw.want[n].dir)
    BY DEF ServerConfigFromEntry
  <2>3. Captured(configs[n].entry) = Captured(gw.want[n]) /\ configs[n].dir = DefaultWorkDirFor(gw.want[n].dir)
    BY <1>1, <2>2 DEF Changed, ConfigChanged
  <2> QED
    BY <2>1, <2>3 DEF DefaultWorkDirFor, IInv, LiveInv
<1>8. DirInv'
  BY <1>1, <1>2, <1>3, <1>7 DEF IInv, DirInv, Picking, Removing
<1>9. BeforeInv' /\ DialInv' /\ StopInv' /\ RemoveInv'
  BY <1>1, <1>2, <1>3 DEF IInv, BeforeInv, DialInv, StopInv, RemoveInv, Picking, Dialling, Stopping, Removing, Captured
<1>10. PickInv'
  <2>1. Captured(conn[servers[n]].cfg.entry) = Captured(gw.want[n])
    BY <1>7
  <2>2. \A m \in Live \ gw.todo : Captured(conn[servers[m]].cfg.entry) = Captured(gw.want[m])
    BY <1>1 DEF IInv, PickInv, Picking
  <2>3. \A m \in Live' \ gw'.todo : Captured(conn'[servers'[m]].cfg.entry) = Captured(gw'.want[m])
    BY <1>1, <1>2, <1>3, <2>1, <2>2
  <2>4. (\A m \in Live \ gw.todo : Captured(conn[servers[m]].cfg.entry) = Captured(gw.want[m]))'
    BY <2>3 DEF Captured
  <2>5. /\ gw'.op = gw.op /\ gw'.pc = "pick" /\ failed' = failed /\ gw'.todo \subseteq DOMAIN gw'.want
        /\ gw.op \in {"start", "reconfigure"}
        /\ gw.op = "start" => gw.current = {}
        /\ Live' \subseteq DOMAIN gw'.want /\ failed' \subseteq DOMAIN gw'.want
        /\ \A m \in Live' : m \in gw'.todo => m \in gw'.current
        /\ ~gw'.aborted => DOMAIN gw'.want \ gw'.todo \subseteq Live' \union failed'
        /\ \A m \in gw'.current \intersect gw'.todo : m \in Live'
    BY <1>1, <1>2, <1>3, <1>7 DEF IInv, PickInv, Picking, Dialling
  <2> QED
    BY <1>2, <2>4, <2>5 DEF PickInv
<1>11. SourceInv'
  BY <1>1, <1>2 DEF IInv, SourceInv, registryVars, regVars
<1>12. Maps'
  BY <1>1, <1>2, <1>3, <1>6, <1>8, <1>9, <1>10, <1>11, Unsettled DEF Maps
<1>13. ProcType'
  BY <1>1 DEF IInv, ProcType
<1> QED
  BY <1>1, <1>2, <1>3, <1>4, <1>5, <1>12, <1>13, GatewayKeepsPlain

LEMMA DiscardedStep ==
    ASSUME IInv, Discarded
    PROVE  IInv'
<1>1. /\ UNCHANGED <<registryVars, conn, proc, servers, configs, failed, defaultDir, stopped, used>>
      /\ gw' = [gw EXCEPT !.pc = "pick", !.todo = gw.todo \ {gw.cur}]
      /\ gw.pc = "discarding" /\ proc.pc = "idle"
  BY DEF Discarded, serverVars, Done, ProcAt
<1>2. /\ gw'.op = gw.op /\ gw'.pc = "pick" /\ gw'.todo = gw.todo \ {gw.cur} /\ gw'.want = gw.want
      /\ gw'.current = gw.current /\ gw'.before = gw.before /\ gw'.dir = gw.dir /\ gw'.aborted = gw.aborted
      /\ GwType'
  BY <1>1 DEF IInv, GwType
<1>3. Live' = Live /\ ~stopped /\ gw.cur \in failed /\ gw.cur \notin Live
  BY <1>1 DEF Live, IInv, StopInv, DialInv, Dialling
<1>4. \A k : HandedOut(k) => HandedOut(k)'
  BY <1>1, <1>2 DEF HandedOut, Dialling
<1>5. PhaseInv' /\ ClientInv' /\ OwnerInv'
  BY <1>1, <1>2, <1>3 DEF IInv, PhaseInv, ClientInv, OwnerInv, Dialling, ConnectPcs, ClosePcs
<1>6. LiveInv'
  BY <1>1, <1>2, <1>3, <1>4 DEF IInv, LiveInv, Stopping
<1>7. DirInv' /\ BeforeInv' /\ DialInv' /\ StopInv' /\ RemoveInv'
  BY <1>1, <1>2, <1>3
     DEF IInv, DirInv, BeforeInv, DialInv, StopInv, RemoveInv, Picking, Dialling, Stopping, Removing, Captured
<1>8. PickInv'
  BY <1>1, <1>2, <1>3 DEF IInv, PickInv, Picking, Dialling, Captured
<1>9. SourceInv'
  BY <1>1, <1>2 DEF IInv, SourceInv, registryVars, regVars
<1>10. Maps'
  BY <1>1, <1>2, <1>3, <1>6, <1>7, <1>8, <1>9, Unsettled DEF Maps
<1>11. ProcType'
  BY <1>1 DEF IInv, ProcType
<1> QED
  BY <1>1, <1>2, <1>4, <1>5, <1>10, <1>11, GatewayKeepsPlain

LEMMA AllServersTriedStep ==
    ASSUME IInv, AllServersTried
    PROVE  IInv'
<1> DEFINE new == IF gw.op = "start" THEN UNION {{n} \X conn[servers[n]].tools : n \in Live} ELSE {}
           op == IF gw.op = "start" THEN "started" ELSE "reconfigured"
<1>1. /\ UNCHANGED <<registryVars, conn, proc, servers, configs, failed, defaultDir, stopped, used>>
      /\ gw' = [gw EXCEPT !.pc = "register", !.reg = new, !.op = op]
      /\ gw.pc = "pick" /\ gw.todo = {}
  BY DEF AllServersTried, serverVars
<1>2. new \subseteq Live \X ToolNames /\ Live \subseteq ServerNames
  <2>1. \A n \in Live : conn[servers[n]].tools \subseteq ToolNames
    BY DEF Live, IInv, GwType, ConnType, ConnRecords
  <2> QED
    BY <2>1 DEF Live
<1>3. new \in SUBSET (ServerNames \X ToolNames) /\ op \in {"started", "reconfigured"}
  BY <1>2
<1> HIDE DEF new, op
<1>4. /\ gw'.op \in {"started", "reconfigured"} /\ gw'.pc = "register" /\ gw'.todo = {} /\ gw'.want = gw.want
      /\ gw'.current = gw.current /\ gw'.before = gw.before /\ gw'.dir = gw.dir /\ gw'.aborted = gw.aborted
      /\ gw'.reg = new /\ GwType'
  BY <1>1, <1>3 DEF IInv, GwType
<1>5. proc.pc = "idle" /\ Live' = Live /\ ~stopped
  BY <1>1, AtRest DEF Live, Busy, IInv, StopInv
<1>6. \A k : HandedOut(k)' <=> HandedOut(k)
  BY <1>1, <1>4 DEF HandedOut, Dialling
<1>7. PhaseInv' /\ ClientInv' /\ OwnerInv'
  BY <1>1, <1>4, <1>5 DEF IInv, PhaseInv, ClientInv, OwnerInv, Dialling, ConnectPcs, ClosePcs
<1>8. LiveInv'
  BY <1>1, <1>4, <1>5, <1>6 DEF IInv, LiveInv, Stopping
<1>9. DirInv' /\ BeforeInv' /\ DialInv' /\ StopInv' /\ RemoveInv'
  BY <1>1, <1>4, <1>5
     DEF IInv, DirInv, BeforeInv, DialInv, StopInv, RemoveInv, Picking, Dialling, Stopping, Removing, Captured
<1>10. PickInv'
  BY <1>1, <1>2, <1>4, <1>5 DEF IInv, PickInv, Picking, Dialling, Captured
<1>11. SourceInv'
  BY <1>1, <1>4 DEF IInv, SourceInv, registryVars, regVars
<1>12. Maps'
  BY <1>1, <1>4, <1>5, <1>8, <1>9, <1>10, <1>11, Unsettled DEF Maps
<1>13. ProcType'
  BY <1>1 DEF IInv, ProcType
<1> QED
  BY <1>1, <1>4, <1>5, <1>6, <1>7, <1>12, <1>13, GatewayKeepsPlain

LEMMA AllRemovedStep ==
    ASSUME IInv, AllRemoved
    PROVE  IInv'
<1>1. /\ UNCHANGED <<registryVars, conn, proc, servers, configs, stopped, used>>
      /\ failed' = failed \intersect DOMAIN gw.want
      /\ defaultDir' = IF gw.dir # "none" THEN gw.dir ELSE defaultDir
      /\ gw' = [gw EXCEPT !.pc = "pick", !.todo = DOMAIN gw.want]
      /\ gw.pc = "remove" /\ gw.todo = {}
  BY DEF AllRemoved, serverVars
<1>2. DOMAIN gw.want \subseteq ServerNames
  BY GatewayConstants DEF IInv, GwType
<1>3. /\ gw'.op = "reconfigure" /\ gw'.pc = "pick" /\ gw'.todo = DOMAIN gw.want /\ gw'.want = gw.want
      /\ gw'.current = gw.current /\ gw'.before = gw.before /\ gw'.dir = gw.dir /\ ~gw'.aborted
      /\ GwType'
  BY <1>1, <1>2 DEF IInv, GwType, RemoveInv, Removing
<1>4. proc.pc = "idle" /\ Live' = Live /\ ~stopped
  BY <1>1, AtRest DEF Live, Busy, IInv, StopInv
<1>5. Live \subseteq DOMAIN gw.want /\ Live \subseteq gw.current /\ gw.current \intersect DOMAIN gw.want \subseteq Live
  BY <1>1 DEF IInv, RemoveInv, Removing
<1>6. \A k : HandedOut(k)' <=> HandedOut(k)
  BY <1>1, <1>3 DEF HandedOut, Dialling
<1>7. PhaseInv' /\ ClientInv' /\ OwnerInv'
  BY <1>1, <1>3, <1>4 DEF IInv, PhaseInv, ClientInv, OwnerInv, Dialling, ConnectPcs, ClosePcs
<1>8. LiveInv'
  BY <1>1, <1>3, <1>4, <1>6 DEF IInv, LiveInv, Stopping
<1>9. DirInv'
  BY <1>1, <1>3, <1>4, <1>5 DEF IInv, DirInv, Picking, Removing
<1>10. BeforeInv' /\ DialInv' /\ StopInv' /\ RemoveInv'
  BY <1>1, <1>3, <1>4 DEF IInv, BeforeInv, DialInv, StopInv, RemoveInv, Picking, Dialling, Stopping, Removing, Captured
<1>11. PickInv'
  BY <1>1, <1>3, <1>4, <1>5 DEF PickInv, Dialling
<1>12. SourceInv'
  BY <1>1, <1>3 DEF IInv, SourceInv, registryVars, regVars
<1>13. Maps'
  BY <1>1, <1>3, <1>4, <1>8, <1>9, <1>10, <1>11, <1>12, Unsettled DEF Maps
<1>14. ProcType'
  BY <1>1 DEF IInv, ProcType
<1> QED
  BY <1>1, <1>3, <1>4, <1>6, <1>7, <1>13, <1>14, GatewayKeepsPlain

LEMMA ServerStoppedStep ==
    ASSUME IInv, ServerStopped
    PROVE  IInv'
<1>1. /\ UNCHANGED <<registryVars, conn, proc, servers, configs, failed, defaultDir, stopped, used>>
      /\ gw' = [gw EXCEPT !.pc = "stop", !.todo = gw.todo \ {gw.cur}]
      /\ gw.pc = "stopping" /\ proc.pc = "idle"
  BY DEF ServerStopped, serverVars, Done, ProcAt
<1>2. gw'.pc = "stop" /\ gw'.todo = gw.todo \ {gw.cur} /\ GwType'
  BY <1>1 DEF IInv, GwType
<1>3. Live' = Live /\ ~stopped /\ gw.cur \in Live /\ conn[servers[gw.cur]].transport # "up"
  BY <1>1 DEF Live, IInv, StopInv, PhaseInv, ClientInv
<1>4. \A k : HandedOut(k)' <=> HandedOut(k)
  BY <1>1, <1>2 DEF HandedOut, Dialling
<1>5. PhaseInv' /\ ClientInv' /\ OwnerInv'
  BY <1>1, <1>2, <1>3 DEF IInv, PhaseInv, ClientInv, OwnerInv, Dialling, ConnectPcs, ClosePcs
<1>6. LiveInv'
  BY <1>1, <1>2, <1>3, <1>4 DEF IInv, LiveInv, Stopping
<1>7. DirInv' /\ BeforeInv' /\ DialInv' /\ PickInv' /\ RemoveInv'
  BY <1>1, <1>2, <1>3
     DEF IInv, DirInv, BeforeInv, DialInv, PickInv, RemoveInv, Picking, Dialling, Removing
<1>8. StopInv'
  BY <1>1, <1>2, <1>3 DEF IInv, StopInv, Stopping
<1>9. SourceInv'
  BY <1>1, <1>2 DEF IInv, SourceInv, registryVars, regVars
<1>10. Maps'
  BY <1>1, <1>2, <1>3, <1>6, <1>7, <1>8, <1>9, Unsettled DEF Maps
<1>11. ProcType'
  BY <1>1 DEF IInv, ProcType
<1> QED
  BY <1>1, <1>2, <1>4, <1>5, <1>10, <1>11, GatewayKeepsPlain

LEMMA AllRegisteredStep ==
    ASSUME IInv, AllRegistered
    PROVE  IInv'
<1>1. /\ UNCHANGED <<registryVars, conn, servers, configs, failed, defaultDir, stopped, used>>
      /\ gw.pc = "register" /\ gw.reg = {}
  BY DEF AllRegistered
<1>2. Live' = Live /\ proc.pc = "idle" /\ ~stopped /\ gw.op \in {"reconfigure", "started", "reconfigured"}
  BY <1>1, AtRest DEF Live, Busy, IInv, StopInv, PickInv, Picking
<1>3. SourceInv' \/ gw'.pc \in {"removing", "changing"}
  BY <1>1 DEF IInv, SourceInv, registryVars, regVars
<1>4. CASE gw.op = "reconfigure"
  <2>1. gw' = [gw EXCEPT !.pc = "pick"] /\ proc' = proc
    BY <1>4 DEF AllRegistered
  <2>2. /\ gw'.op = gw.op /\ gw'.pc = "pick" /\ gw'.todo = gw.todo /\ gw'.want = gw.want
        /\ gw'.current = gw.current /\ gw'.before = gw.before /\ gw'.dir = gw.dir /\ gw'.aborted = gw.aborted
        /\ GwType' /\ ProcType'
    BY <1>1, <2>1 DEF IInv, GwType, ProcType
  <2>3. \A k : HandedOut(k)' <=> HandedOut(k)
    BY <1>1, <2>1, <2>2 DEF HandedOut, Dialling
  <2>4. PhaseInv' /\ ClientInv' /\ OwnerInv'
    BY <1>1, <1>2, <2>1, <2>2 DEF IInv, PhaseInv, ClientInv, OwnerInv, Dialling, ConnectPcs, ClosePcs
  <2>5. LiveInv'
    BY <1>1, <1>2, <2>2, <2>3 DEF IInv, LiveInv, Stopping
  <2>6. DirInv' /\ BeforeInv' /\ DialInv' /\ StopInv' /\ RemoveInv'
    BY <1>1, <1>2, <2>2
       DEF IInv, DirInv, BeforeInv, DialInv, StopInv, RemoveInv, Picking, Dialling, Stopping, Removing, Captured
  <2>7. PickInv'
    BY <1>1, <1>2, <1>4, <2>2 DEF IInv, PickInv, Picking, Dialling, Captured
  <2>8. Maps'
    BY <1>1, <1>2, <1>3, <2>2, <2>5, <2>6, <2>7, Unsettled DEF Maps
  <2> QED
    BY <1>1, <1>2, <2>1, <2>2, <2>3, <2>4, <2>8, GatewayKeepsPlain
<1>5. CASE gw.op # "reconfigure"
  <2>1. gw' = [gw EXCEPT !.pc = "idle", !.cur = "none", !.current = {}, !.before = <<>>] /\ proc' = IdleProc
    BY <1>5 DEF AllRegistered
  <2>2. gw'.op = gw.op /\ gw'.pc = "idle" /\ gw'.want = gw.want /\ gw'.aborted = gw.aborted /\ GwType'
    BY <1>1, <2>1 DEF IInv, GwType
  <2>3. \A k : HandedOut(k)' <=> HandedOut(k)
    BY <1>1, <2>2 DEF HandedOut, Dialling
  <2>4. proc'.pc = "idle" /\ ProcType'
    BY <2>1, IdleProcType DEF ProcType
  <2>5. PhaseInv' /\ ClientInv' /\ OwnerInv'
    BY <1>1, <1>2, <2>1, <2>2, <2>4 DEF IInv, PhaseInv, ClientInv, OwnerInv, Dialling, ConnectPcs, ClosePcs
  <2>6. LiveInv'
    BY <1>1, <1>2, <2>2, <2>3 DEF IInv, LiveInv, Stopping
  <2>7. /\ gw.todo = {} /\ Live \subseteq DOMAIN gw.want /\ failed \subseteq DOMAIN gw.want
        /\ \A n \in Live : Captured(conn[servers[n]].cfg.entry) = Captured(gw.want[n])
        /\ ~gw.aborted => DOMAIN gw.want \subseteq Live \union failed
    BY <1>1, <1>2, <1>5 DEF IInv, PickInv, Picking
  <2>8. DirInv' /\ BeforeInv' /\ DialInv' /\ StopInv' /\ RemoveInv' /\ PickInv'
    BY <1>1, <1>2, <2>2, <2>7
       DEF IInv, DirInv, BeforeInv, DialInv, StopInv, RemoveInv, PickInv, Picking, Dialling, Stopping, Removing
  <2>9. MapsAgree'
    <3>1. \A n \in Live : conn[servers[n]].client
      BY <1>1 DEF IInv, LiveInv, Stopping
    <3>2. \A n \in ServerNames : servers[n] = 0 <=> configs[n] = NoConfig
      BY DEF IInv, LiveInv
    <3>3. failed \intersect Live = {}
      BY DEF IInv, LiveInv
    <3> QED
      BY <1>1, <1>2, <2>2, <2>7, <3>1, <3>2, <3>3 DEF MapsAgree, Captured
  <2>10. StopIsFinal' /\ NoChurn'
    BY <1>1, <1>2, <2>2 DEF StopIsFinal, NoChurn
  <2>11. Maps'
    BY <1>3, <2>2, <2>6, <2>8, <2>9, <2>10 DEF Maps
  <2> QED
    BY <1>1, <1>2, <2>2, <2>3, <2>4, <2>5, <2>11, GatewayKeepsPlain
<1> QED
  BY <1>4, <1>5

LEMMA ConnectReturnsStep ==
    ASSUME IInv, ConnectReturns
    PROVE  IInv'
<1>1. /\ UNCHANGED <<registryVars, conn, servers, configs, defaultDir, stopped, used>>
      /\ gw.pc = "connecting" /\ proc.pc = "idle"
  BY DEF ConnectReturns, ProcAt
<1>2. /\ Live' = Live /\ ~stopped /\ gw.cur \in gw.todo /\ gw.cur \notin Live /\ gw.todo \subseteq DOMAIN gw.want
      /\ gw.cur \in ServerNames /\ proc.k \in Conns
  BY <1>1, GatewayConstants DEF Live, IInv, StopInv, DialInv, PickInv, Picking, Dialling, GwType, PhaseInv
<1>3. SourceInv' \/ gw'.pc \in {"removing", "changing"}
  BY <1>1 DEF IInv, SourceInv, registryVars, regVars
<1>4. CASE proc.out = "ok"
  <2>1. /\ proc' = [IdleProc EXCEPT !.pc = "list", !.k = proc.k, !.via = "none", !.ctx = proc.ctx]
        /\ gw' = [gw EXCEPT !.pc = "discovering"] /\ failed' = failed
    BY <1>4 DEF ConnectReturns, Procedure
  <2>2. /\ gw'.op = gw.op /\ gw'.pc = "discovering" /\ gw'.todo = gw.todo /\ gw'.want = gw.want /\ gw'.cur = gw.cur
        /\ gw'.current = gw.current /\ gw'.before = gw.before /\ gw'.dir = gw.dir /\ gw'.aborted = gw.aborted
        /\ GwType'
    BY <1>1, <2>1 DEF IInv, GwType
  <2>3. ProcType' /\ proc'.pc = "list" /\ proc'.k = proc.k
    BY <2>1 DEF IdleProc, IInv, ProcType
  <2>4. \A k : HandedOut(k)' <=> HandedOut(k)
    BY <1>1, <2>2, <2>3 DEF HandedOut, Dialling
  <2>5. PhaseInv' /\ OwnerInv'
    BY <1>1, <1>2, <2>2, <2>3 DEF IInv, PhaseInv, OwnerInv, Dialling, ConnectPcs, ClosePcs
  <2>6. ClientInv'
    BY <1>1, <1>4, <2>2, <2>3 DEF IInv, ClientInv, ConnectPcs
  <2>7. LiveInv'
    BY <1>1, <1>2, <2>1, <2>2, <2>4 DEF IInv, LiveInv, Stopping
  <2>8. DirInv' /\ BeforeInv' /\ StopInv' /\ RemoveInv'
    BY <1>1, <1>2, <2>2
       DEF IInv, DirInv, BeforeInv, StopInv, RemoveInv, Picking, Dialling, Stopping, Removing, Captured
  <2>9. PickInv'
    BY <1>1, <1>2, <2>1, <2>2 DEF IInv, PickInv, Picking, Dialling, Captured
  <2>10. DialInv'
    BY <1>1, <1>2, <2>2, <2>3 DEF IInv, DialInv, Dialling, ServerConfigFromEntry, DefaultWorkDirFor
  <2>11. Maps'
    BY <1>1, <1>2, <1>3, <2>2, <2>7, <2>8, <2>9, <2>10, Unsettled DEF Maps
  <2> QED
    BY <1>1, <2>2, <2>3, <2>4, <2>5, <2>6, <2>11, GatewayKeepsPlain
<1>5. CASE proc.out # "ok"
  <2>1. /\ failed' = failed \union {gw.cur} /\ proc' = proc
        /\ gw' = [gw EXCEPT !.pc = "pick", !.todo = gw.todo \ {gw.cur}]
    BY <1>5 DEF ConnectReturns, Done
  <2>2. /\ gw'.op = gw.op /\ gw'.pc = "pick" /\ gw'.todo = gw.todo \ {gw.cur} /\ gw'.want = gw.want
        /\ gw'.current = gw.current /\ gw'.before = gw.before /\ gw'.dir = gw.dir /\ gw'.aborted = gw.aborted
        /\ GwType' /\ ProcType'
    BY <1>1, <1>2, <2>1 DEF IInv, GwType, ProcType
  <2>3. \A k : HandedOut(k) => HandedOut(k)'
    BY <1>1, <2>1, <2>2 DEF HandedOut, Dialling
  <2>4. PhaseInv' /\ ClientInv' /\ OwnerInv'
    BY <1>1, <1>2, <1>5, <2>1, <2>2 DEF IInv, PhaseInv, ClientInv, OwnerInv, Dialling, ConnectPcs, ClosePcs
  <2>5. LiveInv'
    BY <1>1, <1>2, <2>1, <2>2, <2>3 DEF IInv, LiveInv, Stopping
  <2>6. DirInv' /\ BeforeInv' /\ StopInv' /\ RemoveInv' /\ DialInv'
    BY <1>1, <1>2, <2>2
       DEF IInv, DirInv, BeforeInv, StopInv, RemoveInv, DialInv, Picking, Dialling, Stopping, Removing, Captured
  <2>7. PickInv'
    BY <1>1, <1>2, <2>1, <2>2 DEF IInv, PickInv, Picking, Dialling, Captured
  <2>8. Maps'
    BY <1>1, <1>2, <1>3, <2>2, <2>5, <2>6, <2>7, Unsettled DEF Maps
  <2> QED
    BY <1>1, <2>1, <2>2, <2>3, <2>4, <2>8, GatewayKeepsPlain
<1> QED
  BY <1>4, <1>5

LEMMA DiscoverFailsStep ==
    ASSUME IInv, DiscoverFails
    PROVE  IInv'
<1>1. /\ UNCHANGED <<registryVars, conn, servers, configs, defaultDir, stopped, used>>
      /\ gw.pc = "discovering" /\ proc.pc = "idle"
      /\ proc' = [IdleProc EXCEPT !.pc = "detach", !.k = proc.k, !.via = "none", !.ctx = proc.ctx]
      /\ failed' = failed \union {gw.cur}
      /\ gw' = [gw EXCEPT !.pc = "discarding"]
  BY DEF DiscoverFails, ProcAt, Procedure
<1>2. /\ Live' = Live /\ ~stopped /\ gw.cur \in gw.todo /\ gw.cur \notin Live /\ gw.todo \subseteq DOMAIN gw.want
      /\ gw.cur \in ServerNames /\ proc.k \in Conns
  BY <1>1, GatewayConstants DEF Live, IInv, StopInv, DialInv, PickInv, Picking, Dialling, GwType, PhaseInv
<1>3. /\ gw'.op = gw.op /\ gw'.pc = "discarding" /\ gw'.todo = gw.todo /\ gw'.want = gw.want /\ gw'.cur = gw.cur
      /\ gw'.current = gw.current /\ gw'.before = gw.before /\ gw'.dir = gw.dir /\ gw'.aborted = gw.aborted
      /\ GwType'
  BY <1>1, <1>2 DEF IInv, GwType
<1>4. ProcType' /\ proc'.pc = "detach" /\ proc'.k = proc.k
  BY <1>1 DEF IdleProc, IInv, ProcType, ClosePcs
<1>5. \A k : HandedOut(k)' <=> HandedOut(k)
  BY <1>1, <1>3, <1>4 DEF HandedOut, Dialling
<1>6. PhaseInv' /\ ClientInv' /\ OwnerInv'
  BY <1>1, <1>2, <1>3, <1>4 DEF IInv, PhaseInv, ClientInv, OwnerInv, Dialling, ConnectPcs, ClosePcs
<1>7. LiveInv'
  BY <1>1, <1>2, <1>3, <1>5 DEF IInv, LiveInv, Stopping
<1>8. DirInv' /\ BeforeInv' /\ StopInv' /\ RemoveInv' /\ DialInv'
  BY <1>1, <1>2, <1>3
     DEF IInv, DirInv, BeforeInv, StopInv, RemoveInv, DialInv, Picking, Dialling, Stopping, Removing, Captured
<1>9. PickInv'
  BY <1>1, <1>2, <1>3 DEF IInv, PickInv, Picking, Dialling, Captured
<1>10. SourceInv'
  BY <1>1, <1>3 DEF IInv, SourceInv, registryVars, regVars
<1>11. Maps'
  BY <1>1, <1>2, <1>3, <1>7, <1>8, <1>9, <1>10, Unsettled DEF Maps
<1> QED
  BY <1>1, <1>3, <1>4, <1>5, <1>6, <1>11, GatewayKeepsPlain

LEMMA StopServerStep ==
    ASSUME IInv, NEW n \in ServerNames, StopServer(n)
    PROVE  IInv'
<1>1. /\ UNCHANGED <<registryVars, conn, servers, configs, failed, defaultDir, stopped, used>>
      /\ gw.pc = "stop" /\ n \in gw.todo
      /\ proc' = [IdleProc EXCEPT !.pc = "detach", !.k = servers[n], !.via = "none", !.ctx = proc.ctx]
      /\ gw' = [gw EXCEPT !.cur = n, !.pc = "stopping"]
  BY DEF StopServer, Procedure
<1>2. Live' = Live /\ ~stopped /\ n \in Live /\ servers[n] \in Conns /\ proc.pc = "idle"
  BY <1>1, AtRest DEF Live, Busy, IInv, StopInv, Stopping, GwType
<1>3. gw'.pc = "stopping" /\ gw'.todo = gw.todo /\ gw'.cur = n /\ GwType'
  BY <1>1, <1>2 DEF IInv, GwType
<1>4. ProcType' /\ proc'.pc = "detach" /\ proc'.k = servers[n]
  BY <1>1, <1>2 DEF IdleProc, IInv, ProcType, ClosePcs
<1>5. \A k : HandedOut(k)' <=> HandedOut(k)
  BY <1>1, <1>3 DEF HandedOut, Dialling
<1>6. PhaseInv' /\ ClientInv' /\ OwnerInv'
  BY <1>1, <1>2, <1>3, <1>4 DEF IInv, PhaseInv, ClientInv, OwnerInv, Dialling, ConnectPcs, ClosePcs
<1>7. LiveInv'
  BY <1>1, <1>2, <1>3, <1>5 DEF IInv, LiveInv, Stopping
<1>8. DirInv' /\ BeforeInv' /\ StopInv' /\ RemoveInv' /\ DialInv' /\ PickInv'
  BY <1>1, <1>2, <1>3
     DEF IInv, DirInv, BeforeInv, StopInv, RemoveInv, DialInv, PickInv, Picking, Dialling, Stopping, Removing
<1>9. SourceInv'
  BY <1>1, <1>3 DEF IInv, SourceInv, registryVars, regVars
<1>10. Maps'
  BY <1>1, <1>2, <1>3, <1>7, <1>8, <1>9, Unsettled DEF Maps
<1> QED
  BY <1>1, <1>2, <1>3, <1>4, <1>5, <1>6, <1>10, GatewayKeepsPlain

LEMMA RemovedStep ==
    ASSUME IInv, Removed
    PROVE  IInv'
<1>1. /\ UNCHANGED <<registryVars, conn, proc, failed, defaultDir, stopped, used>>
      /\ gw.pc = "removing" /\ proc.pc = "idle"
      /\ servers' = [servers EXCEPT ![gw.cur] = 0] /\ configs' = [configs EXCEPT ![gw.cur] = NoConfig]
      /\ gw' = [gw EXCEPT !.pc = "remove", !.todo = gw.todo \ {gw.cur}]
  BY DEF Removed, ForgetServer, ProcAt, serverVars, Done
<1>2. /\ gw.cur \in Live /\ proc.k = servers[gw.cur] /\ conn[proc.k].transport # "up" /\ ~stopped
      /\ gw.cur \in gw.todo /\ gw.cur \notin DOMAIN gw.want /\ gw.cur \in ServerNames
  BY <1>1 DEF IInv, PhaseInv, ClientInv, StopInv, RemoveInv, Removing, Live
<1>3. /\ Live' = Live \ {gw.cur}
      /\ \A n \in ServerNames : n # gw.cur => servers'[n] = servers[n] /\ configs'[n] = configs[n]
      /\ servers'[gw.cur] = 0 /\ configs'[gw.cur] = NoConfig
  BY <1>1, <1>2 DEF Live, IInv, GwType
<1>4. /\ gw'.op = gw.op /\ gw'.pc = "remove" /\ gw'.todo = gw.todo \ {gw.cur} /\ gw'.want = gw.want
      /\ gw'.current = gw.current /\ gw'.before = gw.before /\ gw'.aborted = gw.aborted
      /\ GwType' /\ ProcType'
  BY <1>1, NewServerType DEF IInv, GwType, ProcType
<1>5. \A k : HandedOut(k)' <=> HandedOut(k)
  BY <1>1, <1>4 DEF HandedOut, Dialling
<1>6. PhaseInv' /\ ClientInv'
  BY <1>1, <1>4 DEF IInv, PhaseInv, ClientInv, Dialling, ConnectPcs, ClosePcs
<1>7. OwnerInv'
  BY <1>1, <1>2, <1>3, <1>4 DEF IInv, OwnerInv, Dialling
<1>8. \A n \in Live' : n \in Live /\ n \in ServerNames /\ servers'[n] = servers[n] /\ configs'[n] = configs[n]
  BY <1>3 DEF Live
<1>9. LiveInv'
  BY <1>1, <1>3, <1>4, <1>5, <1>8 DEF IInv, LiveInv, Stopping
<1>10. DirInv' /\ BeforeInv' /\ StopInv' /\ DialInv' /\ PickInv'
  BY <1>1, <1>2, <1>4, <1>8
     DEF IInv, DirInv, BeforeInv, StopInv, DialInv, PickInv, Picking, Dialling, Stopping, Removing, Captured
<1>11. RemoveInv'
  BY <1>1, <1>2, <1>3, <1>4 DEF IInv, RemoveInv, Removing
<1>12. SourceInv'
  <2>1. reg' = reg
    BY <1>1 DEF registryVars, regVars
  <2> QED
    BY <1>1, <1>3, <1>4, <2>1 DEF IInv, SourceInv
<1>13. Maps'
  BY <1>1, <1>2, <1>4, <1>9, <1>10, <1>11, <1>12, Unsettled DEF Maps
<1> QED
  BY <1>1, <1>4, <1>5, <1>6, <1>7, <1>13, GatewayKeepsPlain

LEMMA DiscoverSucceedsStep ==
    ASSUME IInv, DiscoverSucceeds
    PROVE  IInv'
<1> DEFINE c == gw.cur
           k == proc.k
<1>1. /\ UNCHANGED <<registryVars, conn, proc, defaultDir, stopped, used>>
      /\ gw.pc = "discovering" /\ proc.pc = "idle"
      /\ servers' = [servers EXCEPT ![c] = k] /\ configs' = [configs EXCEPT ![c] = conn[k].cfg]
      /\ failed' = failed \ {c}
      /\ gw' = IF gw.op = "start" THEN [gw EXCEPT !.pc = "pick", !.todo = gw.todo \ {c}]
               ELSE [gw EXCEPT !.pc = "register", !.todo = gw.todo \ {c}, !.reg = {c} \X conn[k].tools]
  BY DEF DiscoverSucceeds, ProcAt, serverVars, Done
<1>2. /\ c \in gw.todo /\ c \notin Live /\ gw.todo \subseteq DOMAIN gw.want /\ c \in ServerNames /\ c \in DOMAIN gw.want
      /\ ~stopped /\ k \in Conns /\ k = used.conns /\ conn[k].client
      /\ conn[k].cfg = ServerConfigFromEntry(gw.want[c]) /\ conn[k].cfg \in ConfigRecords
      /\ conn[k].tools \subseteq ToolNames
      /\ gw.op \in {"start", "reconfigure"}
  BY <1>1, GatewayConstants
     DEF IInv, StopInv, DialInv, PickInv, PhaseInv, ClientInv, Picking, Dialling, GwType, ConnType, ConnRecords
<1>3. conn[k].cfg.entry = gw.want[c] /\ gw.want[c] \in Entries /\ conn[k].cfg # NoConfig
      /\ (gw.want[c].dir = "none" => conn[k].cfg.dir = defaultDir)
  <2>1. gw.want[c] \in Entries /\ conn[k].cfg.entry = gw.want[c]
    BY <1>2, WantedConfig DEF IInv
  <2>2. conn[k].cfg # NoConfig
    BY <2>1, EntryIsSet DEF NoConfig, UnsetEntry
  <2> QED
    BY <1>2, <2>1, <2>2 DEF ServerConfigFromEntry, DefaultWorkDirFor
<1>4. /\ Live' = Live \union {c}
      /\ \A n \in ServerNames : n # c => servers'[n] = servers[n] /\ configs'[n] = configs[n]
      /\ servers'[c] = k /\ configs'[c] = conn[k].cfg
  BY <1>1, <1>2, Basics DEF Live, IInv, GwType
<1>5. /\ gw'.op = gw.op /\ gw'.pc \in {"pick", "register"} /\ gw'.todo = gw.todo \ {c} /\ gw'.want = gw.want
      /\ gw'.current = gw.current /\ gw'.before = gw.before /\ gw'.dir = gw.dir /\ gw'.aborted = gw.aborted
      /\ gw'.pc = "register" => gw.op # "start" /\ gw'.reg \subseteq {c} \X ToolNames
      /\ GwType' /\ ProcType'
  <2>1. {c} \X conn[k].tools \in SUBSET (ServerNames \X ToolNames)
    BY <1>2
  <2>2. servers' \in [ServerNames -> Conns \union {0}] /\ configs' \in [ServerNames -> ConfigRecords]
    BY <1>1, <1>2 DEF IInv, GwType
  <2>3. failed' \subseteq ServerNames /\ gw.todo \ {c} \in SUBSET ServerNames
    BY <1>1 DEF IInv, GwType
  <2>6. defaultDir' = defaultDir /\ stopped' = stopped /\ used' = used /\ ProcType'
    BY <1>1 DEF IInv, ProcType
  <2>4. CASE gw.op = "start"
    <3>1. gw' = [gw EXCEPT !.pc = "pick", !.todo = gw.todo \ {c}]
      BY <1>1, <2>4
    <3>2. /\ gw'.op = gw.op /\ gw'.pc = "pick" /\ gw'.todo = gw.todo \ {c} /\ gw'.want = gw.want
          /\ gw'.current = gw.current /\ gw'.before = gw.before /\ gw'.dir = gw.dir /\ gw'.aborted = gw.aborted
      BY <3>1 DEF IInv, GwType
    <3>3. GwType'
      BY <2>2, <2>3, <2>6, <3>1 DEF IInv, GwType
    <3> QED
      BY <2>6, <3>2, <3>3
  <2>5. CASE gw.op # "start"
    <3>1. gw' = [gw EXCEPT !.pc = "register", !.todo = gw.todo \ {c}, !.reg = {c} \X conn[k].tools]
      BY <1>1, <2>5
    <3>2. /\ gw'.op = gw.op /\ gw'.pc = "register" /\ gw'.todo = gw.todo \ {c} /\ gw'.want = gw.want
          /\ gw'.current = gw.current /\ gw'.before = gw.before /\ gw'.dir = gw.dir /\ gw'.aborted = gw.aborted
          /\ gw'.reg = {c} \X conn[k].tools
      BY <3>1 DEF IInv, GwType
    <3>3. GwType'
      BY <2>1, <2>2, <2>3, <2>6, <3>1 DEF IInv, GwType
    <3> QED
      BY <1>2, <2>5, <2>6, <3>2, <3>3
  <2> QED
    BY <2>4, <2>5
<1>6. (\A j : HandedOut(j) => HandedOut(j)' /\ j # k) /\ HandedOut(k)'
  BY <1>1, <1>2, <1>5 DEF HandedOut, Dialling, IInv, GwType
<1>7. PhaseInv' /\ ClientInv'
  BY <1>1, <1>5 DEF IInv, PhaseInv, ClientInv, Dialling, ConnectPcs, ClosePcs
<1>8. OwnerInv'
  <2>1. \A n \in ServerNames : servers[n] \in Conns => n # c /\ servers'[n] = servers[n]
    BY <1>2, <1>4, Basics DEF Live
  <2> QED
    BY <1>1, <1>2, <1>4, <2>1 DEF IInv, OwnerInv, Dialling
<1>9. \A n \in Live : n \in ServerNames /\ n # c /\ servers'[n] = servers[n] /\ configs'[n] = configs[n]
  BY <1>2, <1>4 DEF Live
<1>10. LiveInv'
  <2>1. \A n \in Live : HandedOut(servers[n]) /\ HandedOut(servers[n])' /\ servers[n] # k /\ conn[servers[n]].client
                        /\ configs[n].entry = conn[servers[n]].cfg.entry
    BY <1>1, <1>6 DEF IInv, LiveInv, Stopping
  <2>2. \A n \in ServerNames : servers'[n] = 0 <=> configs'[n] = NoConfig
    BY <1>2, <1>3, <1>4, Basics DEF IInv, LiveInv
  <2>3. \A n \in Live' : /\ HandedOut(servers[n])' /\ conn[servers'[n]].client
                         /\ configs'[n].entry = conn[servers'[n]].cfg.entry
    <3>1. \A n \in Live : HandedOut(servers[n])' /\ conn[servers'[n]].client
                          /\ configs'[n].entry = conn[servers'[n]].cfg.entry
      BY <1>9, <2>1
    <3>2. \A n \in {c} : HandedOut(servers[n])' /\ conn[servers'[n]].client
                          /\ configs'[n].entry = conn[servers'[n]].cfg.entry
      BY <1>1, <1>2, <1>4, <1>6 DEF HandedOut
    <3> QED
      BY <1>4, <3>1, <3>2
  <2>4. \A n, m \in Live' : servers'[n] = servers'[m] => n = m
    <3>1. \A n, m \in Live : servers[n] = servers[m] => n = m
      BY DEF IInv, LiveInv
    <3> QED
      BY <1>4, <1>9, <2>1, <3>1
  <2>5. failed' \intersect Live' = {}
    BY <1>1, <1>4 DEF IInv, LiveInv
  <2>6. \A j \in Conns : j <= used.conns => conn[j].cfg.entry \in Entries
    BY DEF IInv, LiveInv
  <2> QED
    BY <1>1, <1>5, <2>2, <2>3, <2>4, <2>5, <2>6 DEF LiveInv
<1>11. DirInv' /\ BeforeInv'
  <2>1. DirInv'
    BY <1>1, <1>3, <1>4, <1>5, <1>9 DEF IInv, DirInv, Picking, Removing
  <2>2. BeforeInv'
    <3> SUFFICES ASSUME NEW m \in Live', Removing' \/ (Picking' /\ m \in gw'.todo)
                 PROVE  Captured(conn'[servers'[m]].cfg.entry) = Captured(gw'.before[m])
      BY DEF BeforeInv, Captured
    <3>1. Picking /\ m \in gw.todo /\ m \in Live
      BY <1>1, <1>4, <1>5 DEF Picking, Removing
    <3>2. Captured(conn[servers[m]].cfg.entry) = Captured(gw.before[m])
      BY <3>1 DEF IInv, BeforeInv
    <3> QED
      BY <1>1, <1>5, <1>9, <3>1, <3>2
  <2> QED
    BY <2>1, <2>2
<1>12. StopInv' /\ DialInv' /\ RemoveInv'
  BY <1>1, <1>2, <1>5 DEF IInv, StopInv, DialInv, RemoveInv, Dialling, Stopping, Removing
<1>13. PickInv'
  <2>1. Live' \subseteq DOMAIN gw.want /\ failed' \subseteq DOMAIN gw.want /\ gw'.todo \subseteq DOMAIN gw.want
    BY <1>1, <1>2, <1>4, <1>5 DEF IInv, PickInv, Picking
  <2>2. \A n \in Live' : n \in gw'.todo => n \in gw.current
    BY <1>1, <1>4, <1>5 DEF IInv, PickInv, Picking
  <2>3. \A n \in Live' \ gw'.todo : Captured(conn[servers'[n]].cfg.entry) = Captured(gw.want[n])
    <3>1. \A n \in Live \ gw.todo : Captured(conn[servers[n]].cfg.entry) = Captured(gw.want[n])
      BY <1>1 DEF IInv, PickInv, Picking
    <3> QED
      BY <1>3, <1>4, <1>5, <1>9, <3>1
  <2>4. \A n \in gw.current \intersect gw'.todo : n \in Live'
    BY <1>1, <1>4, <1>5 DEF IInv, PickInv, Picking
  <2>5. ~gw.aborted => DOMAIN gw.want \ gw'.todo \subseteq Live' \union failed'
    BY <1>1, <1>4, <1>5 DEF IInv, PickInv, Picking
  <2>6. gw.op = "start" => gw.current = {}
    BY <1>1 DEF IInv, PickInv, Picking
  <2>7. gw'.pc = "register" => gw'.reg \subseteq Live' \X ToolNames
    BY <1>4, <1>5
  <2>8. (\A n \in Live \ gw.todo : Captured(conn[servers[n]].cfg.entry) = Captured(gw.want[n]))'
    BY <1>1, <1>5, <2>3 DEF Captured
  <2> QED
    BY <1>1, <1>2, <1>5, <2>1, <2>2, <2>4, <2>5, <2>6, <2>7, <2>8 DEF PickInv
<1>14. SourceInv'
  <2>1. reg' = reg
    BY <1>1 DEF registryVars, regVars
  <2>2. \A n \in ToolNames : reg[n].cat = "mcp" => reg[n].tool.conn \in Conns
    BY DEF IInv, ToolsInv, HandedOut
  <2>3. servers[c] \notin Conns
    BY <1>2, Basics DEF Live
  <2> QED
    BY <1>1, <1>4, <1>5, <2>1, <2>2, <2>3 DEF IInv, SourceInv
<1>15. Maps'
  BY <1>1, <1>2, <1>5, <1>10, <1>11, <1>12, <1>13, <1>14, Unsettled DEF Maps
<1> QED
  BY <1>1, <1>5, <1>6, <1>7, <1>8, <1>15, GatewayKeepsPlain

LEMMA AllStoppedStep ==
    ASSUME IInv, AllStopped
    PROVE  IInv'
<1>1. /\ UNCHANGED <<registryVars, conn, defaultDir, used>>
      /\ gw.pc = "stop" /\ gw.todo = {}
      /\ servers' = [n \in ServerNames |-> 0] /\ configs' = [n \in ServerNames |-> NoConfig]
      /\ failed' = {} /\ stopped' = TRUE
      /\ gw' = [gw EXCEPT !.pc = "idle", !.op = "stopped", !.cur = "none"]
      /\ proc' = IdleProc
  BY DEF AllStopped
<1>2. proc.pc = "idle" /\ Live' = {}
  BY <1>1, AtRest DEF Busy, Live
<1>3. gw'.pc = "idle" /\ GwType'
  BY <1>1, NewServerType DEF IInv, GwType
<1>4. proc'.pc = "idle" /\ ProcType'
  BY <1>1, IdleProcType DEF ProcType
<1>5. \A k : HandedOut(k)' <=> HandedOut(k)
  BY <1>1, <1>3 DEF HandedOut, Dialling
<1>6. \A k \in Conns : conn[k].transport # "up"
  <2>1. \A n \in Live : conn[servers[n]].transport # "up"
    BY <1>1 DEF IInv, StopInv, Stopping
  <2> QED
    BY <1>1, <2>1, Basics DEF IInv, OwnerInv, Dialling, Live
<1>7. PhaseInv' /\ ClientInv' /\ OwnerInv'
  BY <1>1, <1>3, <1>4, <1>6 DEF IInv, PhaseInv, ClientInv, OwnerInv, Dialling, ConnectPcs, ClosePcs
<1>8. LiveInv'
  BY <1>1, <1>2, <1>3 DEF IInv, LiveInv
<1>9. DirInv' /\ BeforeInv' /\ PickInv' /\ StopInv' /\ DialInv' /\ RemoveInv'
  BY <1>1, <1>2, <1>3
     DEF DirInv, BeforeInv, PickInv, StopInv, DialInv, RemoveInv, Picking, Dialling, Stopping, Removing
<1>10. SourceInv' /\ MapsAgree' /\ StopIsFinal' /\ NoChurn'
  BY <1>1, <1>2, <1>3, <1>6 DEF SourceInv, MapsAgree, Settled, StopIsFinal, NoChurn
<1>11. Maps'
  BY <1>8, <1>9, <1>10 DEF Maps
<1> QED
  BY <1>1, <1>2, <1>3, <1>4, <1>5, <1>7, <1>11, GatewayKeepsPlain

(* Unregister, then close: what RemoveServer and ChangeServer share.         *)
LEMMA CloseMoves ==
    ASSUME IInv, NEW n \in Live, proc.pc = "idle", NEW pc \in {"removing", "changing"},
           CloseServer(n, pc), settings' = settings
    PROVE  /\ RegistryType' /\ RegMoves
           /\ \A m \in ToolNames : \/ reg'[m] = reg[m] /\ ~(reg[m].cat = "mcp" /\ reg[m].source = n)
                                   \/ reg'[m].cat # "mcp" /\ reg'[m].tool.kind # "mcp"
           /\ ProcType' /\ proc'.pc = "detach" /\ proc'.k = servers[n] /\ servers[n] \in Conns
           /\ gw' = [gw EXCEPT !.cur = n, !.pc = pc]
<1>1. /\ UnregisterBySource(n) /\ gw' = [gw EXCEPT !.cur = n, !.pc = pc]
      /\ proc' = [IdleProc EXCEPT !.pc = "detach", !.k = servers[n], !.via = "none", !.ctx = proc.ctx]
  BY DEF CloseServer, Procedure
<1>2. servers[n] \in Conns
  BY DEF Live, IInv, GwType
<1>3. ProcType' /\ proc'.pc = "detach" /\ proc'.k = servers[n]
  BY <1>1, <1>2 DEF IdleProc, IInv, ProcType, ClosePcs
<1> DEFINE S == {m \in ToolNames : Registered(m) /\ reg[m].source = n}
<1>4. DropEntries(S) /\ Types
  BY <1>1 DEF UnregisterBySource, IInv, Types
<1>5. RegistryType' /\ RegMoves /\ \A m \in ToolNames : reg'[m] = IF m \in S THEN NoEntry ELSE reg[m]
  <2> HIDE DEF S
  <2> QED
    BY <1>4, DropMoves
<1>6. \A m \in ToolNames : reg[m].cat = "mcp" /\ reg[m].source = n => m \in S
  BY NoEntryType DEF Registered
<1> QED
  BY <1>1, <1>2, <1>3, <1>5, <1>6, NoEntryType

LEMMA RemoveServerStep ==
    ASSUME IInv, NEW n \in ServerNames, RemoveServer(n)
    PROVE  IInv'
<1>1. /\ UNCHANGED <<settings, call, conn, servers, configs, failed, defaultDir, stopped, used>>
      /\ gw.pc = "remove" /\ n \in gw.todo /\ CloseServer(n, "removing")
  BY DEF RemoveServer
<1>2. n \in Live /\ Live' = Live /\ ~stopped /\ proc.pc = "idle"
  BY <1>1, AtRest DEF Live, Busy, IInv, RemoveInv, Removing, StopInv
<1>3. /\ RegistryType' /\ RegMoves
      /\ \A m \in ToolNames : \/ reg'[m] = reg[m] /\ ~(reg[m].cat = "mcp" /\ reg[m].source = n)
                              \/ reg'[m].cat # "mcp" /\ reg'[m].tool.kind # "mcp"
      /\ ProcType' /\ proc'.pc = "detach" /\ proc'.k = servers[n] /\ servers[n] \in Conns
      /\ gw' = [gw EXCEPT !.cur = n, !.pc = "removing"]
  BY <1>1, <1>2, CloseMoves
<1>4. /\ gw'.op = gw.op /\ gw'.pc = "removing" /\ gw'.todo = gw.todo /\ gw'.want = gw.want /\ gw'.cur = n
      /\ gw'.current = gw.current /\ gw'.before = gw.before /\ gw'.aborted = gw.aborted
      /\ GwType'
  BY <1>1, <1>3 DEF IInv, GwType
<1>5. \A k : HandedOut(k)' <=> HandedOut(k)
  BY <1>1, <1>4 DEF HandedOut, Dialling
<1>6. PhaseInv' /\ ClientInv' /\ OwnerInv'
  BY <1>1, <1>2, <1>3, <1>4 DEF IInv, PhaseInv, ClientInv, OwnerInv, Dialling, ConnectPcs, ClosePcs
<1>7. LiveInv'
  BY <1>1, <1>2, <1>4, <1>5 DEF IInv, LiveInv, Stopping
<1>8. DirInv' /\ BeforeInv' /\ StopInv' /\ DialInv' /\ PickInv' /\ RemoveInv'
  BY <1>1, <1>2, <1>4
     DEF IInv, DirInv, BeforeInv, StopInv, DialInv, PickInv, RemoveInv, Picking, Dialling, Stopping, Removing, Captured
<1>9. SourceInv'
  BY <1>1, <1>3, <1>4 DEF IInv, SourceInv
<1>10. Maps'
  BY <1>1, <1>2, <1>4, <1>7, <1>8, <1>9, Unsettled DEF Maps
<1> QED
  BY <1>1, <1>2, <1>3, <1>4, <1>5, <1>6, <1>10, GatewayKeeps

LEMMA ChangeServerStep ==
    ASSUME IInv, NEW n \in ServerNames, ChangeServer(n)
    PROVE  IInv'
<1>1. /\ UNCHANGED <<settings, call, conn, servers, configs, failed, defaultDir, stopped, used>>
      /\ gw.pc = "pick" /\ n \in gw.todo /\ n \in gw.current /\ Changed(n) /\ CloseServer(n, "changing")
  BY DEF ChangeServer
<1>2. n \in Live /\ Live' = Live /\ ~stopped /\ proc.pc = "idle" /\ gw.op # "start"
  BY <1>1, AtRest DEF Live, Busy, IInv, PickInv, Picking, Dialling, StopInv
<1>3. /\ RegistryType' /\ RegMoves
      /\ \A m \in ToolNames : \/ reg'[m] = reg[m] /\ ~(reg[m].cat = "mcp" /\ reg[m].source = n)
                              \/ reg'[m].cat # "mcp" /\ reg'[m].tool.kind # "mcp"
      /\ ProcType' /\ proc'.pc = "detach" /\ proc'.k = servers[n] /\ servers[n] \in Conns
      /\ gw' = [gw EXCEPT !.cur = n, !.pc = "changing"]
  BY <1>1, <1>2, CloseMoves
<1>4. /\ gw'.op = gw.op /\ gw'.pc = "changing" /\ gw'.todo = gw.todo /\ gw'.want = gw.want /\ gw'.cur = n
      /\ gw'.current = gw.current /\ gw'.before = gw.before /\ gw'.dir = gw.dir /\ gw'.aborted = gw.aborted
      /\ GwType'
  BY <1>1, <1>3 DEF IInv, GwType
<1>5. \A k : HandedOut(k)' <=> HandedOut(k)
  BY <1>1, <1>4 DEF HandedOut, Dialling
<1>6. PhaseInv' /\ ClientInv' /\ OwnerInv'
  BY <1>1, <1>2, <1>3, <1>4 DEF IInv, PhaseInv, ClientInv, OwnerInv, Dialling, ConnectPcs, ClosePcs
<1>7. LiveInv'
  BY <1>1, <1>2, <1>4, <1>5 DEF IInv, LiveInv, Stopping
<1>8. DirInv' /\ BeforeInv' /\ StopInv' /\ DialInv' /\ RemoveInv'
  BY <1>1, <1>2, <1>4
     DEF IInv, DirInv, BeforeInv, StopInv, DialInv, RemoveInv, Picking, Dialling, Stopping, Removing, Captured
<1>9. PickInv'
  BY <1>1, <1>2, <1>4 DEF IInv, PickInv, Picking, Dialling, Captured
<1>10. SourceInv'
  BY <1>1, <1>3, <1>4 DEF IInv, SourceInv
<1>11. NoChurn'
  <2>1. Captured(configs[n].entry) = Captured(gw.before[n]) /\ configs[n] # NoConfig
    <3>1. configs[n].entry = conn[servers[n]].cfg.entry /\ configs[n] # NoConfig
      BY <1>2, <1>3, Basics DEF IInv, LiveInv
    <3>2. Captured(conn[servers[n]].cfg.entry) = Captured(gw.before[n])
      BY <1>1, <1>2 DEF IInv, BeforeInv, Picking
    <3> QED
      BY <3>1, <3>2
  <2>2. gw.before[n].dir = "none" /\ gw.dir = "none" => configs[n].dir = defaultDir
    BY <1>1, <1>2 DEF IInv, DirInv, Picking
  <2>3. ServerConfigFromEntry(gw.want[n]).entry = gw.want[n]
        /\ (gw.want[n].dir = "none" => ServerConfigFromEntry(gw.want[n]).dir = defaultDir)
    BY DEF ServerConfigFromEntry, DefaultWorkDirFor
  <2>4. \/ Captured(configs[n].entry) # Captured(gw.want[n])
        \/ configs[n].dir # ServerConfigFromEntry(gw.want[n]).dir
    BY <1>1, <2>1, <2>3 DEF Changed, ConfigChanged
  <2>5. Captured(gw.before[n]) # Captured(gw.want[n]) \/ gw.before[n].dir # "none"
        \/ gw.want[n].dir # "none" \/ gw.dir # "none"
    BY <2>1, <2>2, <2>3, <2>4
  <2> QED
    BY <1>4, <2>5 DEF NoChurn, Captured
<1>12. MapsAgree' /\ StopIsFinal'
  BY <1>1, <1>2, <1>4 DEF MapsAgree, Settled, StopIsFinal
<1>13. Maps'
  BY <1>7, <1>8, <1>9, <1>10, <1>11, <1>12 DEF Maps
<1> QED
  BY <1>1, <1>2, <1>3, <1>4, <1>5, <1>6, <1>13, GatewayKeeps

LEMMA RegisterToolStep ==
    ASSUME IInv, RegisterTool
    PROVE  IInv'
<1>1. /\ UNCHANGED <<settings, call, conn, proc, servers, configs, failed, defaultDir, stopped, used>>
      /\ gw.pc = "register"
  BY DEF RegisterTool, serverVars
<1>2. PICK p \in gw.reg : /\ registerLocked(p[2], McpTool(servers[p[1]]), p[1], "mcp")
                          /\ gw' = [gw EXCEPT !.reg = gw.reg \ {p}]
  BY DEF RegisterTool
<1> DEFINE k == servers[p[1]]
<1>3. p[1] \in Live /\ p[1] \in ServerNames /\ p[2] \in ToolNames /\ HandedOut(k) /\ k \in Nat /\ k \in Conns
  <2>1. gw.reg \subseteq Live \X ToolNames
    BY <1>1 DEF IInv, PickInv, Picking
  <2>2. p[1] \in Live /\ p[2] \in ToolNames
    BY <2>1
  <2> QED
    BY <2>2, Basics DEF IInv, LiveInv, HandedOut, Live
<1>4. McpTool(k) \in ToolRecords /\ McpTool(k).kind = "mcp" /\ McpTool(k).conn = k /\ Types
  BY <1>3, Basics DEF McpTool, IInv, Types
<1>5. /\ RegistryType' /\ RegMoves
      /\ \A m \in ToolNames :
           \/ reg'[m] = reg[m]
           \/ reg'[m].tool = McpTool(k) /\ reg'[m].source = p[1] /\ reg'[m].cat = "mcp"
  <2>1. settings' = settings /\ p[1] \in ServerNames \union {"none"} /\ "mcp" \in {"core", "mcp"}
    BY <1>1, <1>3
  <2> QED
    BY <1>2, <1>3, <1>4, <2>1, RegisterMoves
<1>6. /\ gw'.op = gw.op /\ gw'.pc = "register" /\ gw'.todo = gw.todo /\ gw'.want = gw.want /\ gw'.reg \subseteq gw.reg
      /\ gw'.current = gw.current /\ gw'.before = gw.before /\ gw'.dir = gw.dir /\ gw'.aborted = gw.aborted
      /\ GwType' /\ ProcType'
  BY <1>1, <1>2 DEF IInv, GwType, ProcType
<1>7. Live' = Live /\ ~stopped /\ proc.pc = "idle"
  BY <1>1, AtRest DEF Live, Busy, IInv, StopInv
<1>8. \A j : HandedOut(j)' <=> HandedOut(j)
  BY <1>1, <1>6 DEF HandedOut, Dialling
<1>9. PhaseInv' /\ ClientInv' /\ OwnerInv'
  BY <1>1, <1>6, <1>7 DEF IInv, PhaseInv, ClientInv, OwnerInv, Dialling, ConnectPcs, ClosePcs
<1>10. LiveInv'
  BY <1>1, <1>6, <1>7, <1>8 DEF IInv, LiveInv, Stopping
<1>11. DirInv' /\ BeforeInv' /\ StopInv' /\ DialInv' /\ RemoveInv'
  BY <1>1, <1>6, <1>7
     DEF IInv, DirInv, BeforeInv, StopInv, DialInv, RemoveInv, Picking, Dialling, Stopping, Removing, Captured
<1>12. PickInv'
  BY <1>1, <1>6, <1>7 DEF IInv, PickInv, Picking, Dialling, Captured
<1>13. SourceInv'
  BY <1>1, <1>3, <1>4, <1>5, <1>6 DEF IInv, SourceInv
<1>14. Maps'
  BY <1>1, <1>6, <1>7, <1>10, <1>11, <1>12, <1>13, Unsettled DEF Maps
<1>15. \A n \in ToolNames :
               \/ reg'[n] = reg[n]
               \/ reg'[n].cat = "mcp" /\ reg'[n].tool.kind = "mcp" /\ HandedOut(reg'[n].tool.conn)
  BY <1>3, <1>4, <1>5
<1> QED
  BY <1>1, <1>5, <1>6, <1>7, <1>8, <1>9, <1>14, <1>15, GatewayKeeps

(* Connect refuses the entry or begins by creating a transport.              *)
LEMMA ConnectBegins ==
    ASSUME NEW k \in Conns, NEW ctx \in BOOLEAN,
           \/ proc' = [IdleProc EXCEPT !.k = k, !.ctx = ctx, !.out = "err"]
           \/ \E via \in {"stream", "stdio"} :
                  proc' = [IdleProc EXCEPT !.pc = "create", !.k = k, !.via = via, !.ctx = ctx]
    PROVE  /\ ProcType' /\ proc'.k = k
           /\ proc'.pc = "create" \/ (proc'.pc = "idle" /\ proc'.out = "err")
<1>1. CASE proc' = [IdleProc EXCEPT !.k = k, !.ctx = ctx, !.out = "err"]
  BY <1>1 DEF IdleProc, ProcType
<1>2. ASSUME NEW via \in {"stream", "stdio"},
             proc' = [IdleProc EXCEPT !.pc = "create", !.k = k, !.via = via, !.ctx = ctx]
      PROVE  ProcType' /\ proc'.k = k /\ proc'.pc = "create"
  BY <1>2 DEF IdleProc, ProcType, ConnectPcs
<1> QED
  BY <1>1, <1>2

(* A new connection, for a server that is not, or no longer, in the map.     *)
LEMMA Dials ==
    ASSUME IInv, proc.pc = "idle", gw.pc \in {"pick", "changing"}, gw.op \in {"start", "reconfigure"},
           NEW n \in gw.todo, ConnectNew(n), UNCHANGED <<registryVars, failed, defaultDir, stopped>>,
           servers' \in [ServerNames -> Conns \union {0}], configs' \in [ServerNames -> ConfigRecords],
           \A m \in ServerNames : m # n => servers'[m] = servers[m] /\ configs'[m] = configs[m],
           servers'[n] = 0, configs'[n] = NoConfig,
           gw.pc = "pick" => servers[n] = 0,
           gw.pc = "changing" => n = gw.cur
    PROVE  IInv'
<1> DEFINE k == used.conns + 1
           cfg == ServerConfigFromEntry(gw.want[n])
           new == [NewServer EXCEPT !.cfg = cfg]
<1>1. /\ k \in Conns /\ used' = [used EXCEPT !.conns = k] /\ gw' = [gw EXCEPT !.cur = n, !.pc = "connecting"]
      /\ conn' = [conn EXCEPT ![k] = new]
      /\ Connect(k, cfg)
      /\ reg' = reg /\ overrides' = overrides /\ grantedTo' = grantedTo /\ settings' = settings /\ call' = call
  BY DEF ConnectNew, Connect, registryVars, regVars
<1>2. n \in DOMAIN gw.want /\ n \in ServerNames /\ used.conns \in Nat /\ ~stopped
  BY GatewayConstants DEF IInv, PickInv, Picking, GwType, StopInv
<1>3. cfg \in ConfigRecords /\ cfg.entry = gw.want[n] /\ gw.want[n] \in Entries
  BY <1>2, WantedConfig DEF IInv
<1>4. new \in ConnRecords /\ new.cfg = cfg /\ ~new.client /\ new.transport = "none" /\ new.start = "idle"
  BY <1>3, NewServerType DEF ConnRecords, NewServer
<1> HIDE DEF new
<1>5. ConnType' /\ conn'[k] = new /\ \A j \in Conns : j # k => conn'[j] = conn[j]
  BY <1>1, <1>4 DEF IInv, ConnType
<1>6. /\ ProcType' /\ proc'.k = k
      /\ proc'.pc = "create" \/ (proc'.pc = "idle" /\ proc'.out = "err")
  <2>1. \/ proc' = [IdleProc EXCEPT !.k = k, !.ctx = proc.ctx, !.out = "err"]
        \/ \E via \in {"stream", "stdio"} :
             proc' = [IdleProc EXCEPT !.pc = "create", !.k = k, !.via = via, !.ctx = proc.ctx]
    BY <1>1 DEF Connect, Procedure
  <2>2. proc.ctx \in BOOLEAN
    BY DEF IInv, ProcType
  <2>3. k \in Conns
    BY <1>1
  <2> QED
    BY <2>1, <2>2, <2>3, ConnectBegins
<1>7. /\ gw'.op = gw.op /\ gw'.pc = "connecting" /\ gw'.todo = gw.todo /\ gw'.want = gw.want /\ gw'.cur = n
      /\ gw'.current = gw.current /\ gw'.before = gw.before /\ gw'.dir = gw.dir /\ gw'.aborted = gw.aborted
      /\ used'.conns = k /\ GwType'
  <2>1. used'.conns = k /\ used' \in [conns : Nat, reconfigures : Nat, moves : Nat, host : Nat]
    BY <1>1, <1>2 DEF IInv, GwType
  <2> QED
    BY <1>1, <1>2, <2>1 DEF IInv, GwType
<1>8. Live' = Live \ {n}
  BY DEF Live
<1>9. \A j : HandedOut(j) => HandedOut(j)' /\ j \in Conns /\ j # k /\ conn'[j] = conn[j]
  BY <1>2, <1>5, <1>6, <1>7, Basics DEF HandedOut, Dialling
<1>10. \A m \in Live' : /\ m \in Live /\ m # n /\ m \in ServerNames /\ servers'[m] = servers[m] /\ configs'[m] = configs[m]
                        /\ HandedOut(servers[m]) /\ HandedOut(servers[m])' /\ conn'[servers[m]] = conn[servers[m]]
  <2>1. \A m \in Live' : m \in Live /\ m # n /\ m \in ServerNames
    BY <1>8 DEF Live
  <2>2. \A m \in Live : HandedOut(servers[m])
    BY DEF IInv, LiveInv
  <2>3. \A m \in Live' : servers'[m] = servers[m] /\ configs'[m] = configs[m]
    BY <2>1
  <2>4. \A m \in Live' : HandedOut(servers[m])'
    BY <1>9, <2>1, <2>2, <2>3 DEF HandedOut
  <2> QED
    BY <1>9, <2>1, <2>2, <2>3, <2>4
<1>11. Types'
  BY <1>1, <1>5, <1>6, <1>7 DEF IInv, Types, RegistryType, CallType
<1>12. Registry'
  <2>1. ToolsInv'
    BY <1>1, <1>9 DEF IInv, ToolsInv
  <2>2. AskedInv' /\ OverrideBelongsToTool'
    BY <1>1 DEF IInv, AskedInv, OverrideBelongsToTool, Registered
  <2>3. RemoteInv'
    <3>1. \A c \in Callers : call[c].tool.kind = "mcp" => conn'[call[c].tool.conn] = conn[call[c].tool.conn]
      BY <1>9 DEF IInv, ToolsInv
    <3>2. call' = call
      BY <1>1
    <3>3. ASSUME NEW c \in Callers, call[c].tool.kind = "mcp"
          PROVE  CallBound(call[c].tool.conn)' = CallBound(call[c].tool.conn)
      <4>1. conn'[call'[c].tool.conn] = conn[call[c].tool.conn]
        BY <3>1, <3>2, <3>3
      <4> QED
        BY <4>1 DEF CallBound, ResolveTimeoutBounds
    <3>4. \A c \in Callers : Joined(c) => call[c].tool.kind = "mcp" /\ call[c].left <= CallBound(call[c].tool.conn)
      BY DEF IInv, RemoteInv
    <3> QED
      BY <3>2, <3>3, <3>4 DEF RemoteInv, Joined
  <2> QED
    BY <2>1, <2>2, <2>3 DEF Registry
<1>13. Connections'
  <2>1. PhaseInv'
    BY <1>1, <1>6, <1>7 DEF PhaseInv, Dialling, ConnectPcs, ClosePcs
  <2>2. StartInv' /\ NoCloseDuringStart'
    BY <1>4, <1>5, <1>6 DEF IInv, StartInv, NoCloseDuringStart
  <2>3. ClientInv'
    BY <1>1, <1>4, <1>5, <1>6, <1>7 DEF IInv, ClientInv, ConnectPcs
  <2>4. DrainInv'
    BY <1>6 DEF DrainInv
  <2>5. OwnerInv'
    <3> SUFFICES ASSUME NEW j \in Conns, conn'[j].transport = "up"
                 PROVE  \E m \in ServerNames : servers'[m] = j
      BY DEF OwnerInv
    <3>1. j # k /\ conn[j].transport = "up"
      BY <1>4, <1>5
    <3>2. PICK m \in ServerNames : servers[m] = j
      BY <3>1 DEF IInv, OwnerInv, Dialling
    <3>3. m # n
      <4>1. gw.pc = "changing" => conn[servers[n]].transport # "up"
        BY DEF IInv, PhaseInv, ClientInv
      <4> QED
        BY <3>1, <3>2, <4>1, Basics
    <3> QED
      BY <3>2, <3>3
  <2>6. CloseWaitsForCalls'
    <3>1. \A j : Inflight(j)' = Inflight(j)
      BY <1>1 DEF Inflight, Joined
    <3> QED
      BY <1>1, <1>4, <1>5, <3>1 DEF IInv, CloseWaitsForCalls
  <2> QED
    BY <2>1, <2>2, <2>3, <2>4, <2>5, <2>6 DEF Connections
<1>14. LiveInv'
  <2>1. \A m \in ServerNames : servers'[m] = 0 <=> configs'[m] = NoConfig
    BY DEF IInv, LiveInv
  <2>2. \A m \in Live' : /\ HandedOut(servers[m])' /\ configs'[m].entry = conn'[servers'[m]].cfg.entry
                         /\ conn'[servers'[m]].client
    BY <1>10 DEF IInv, LiveInv, Stopping
  <2>3. \A m, l \in Live' : servers'[m] = servers'[l] => m = l
    BY <1>10 DEF IInv, LiveInv
  <2>4. \A j \in Conns : j <= used'.conns => conn'[j].cfg.entry \in Entries
    <3> SUFFICES ASSUME NEW j \in Conns, j <= k PROVE conn'[j].cfg.entry \in Entries
      BY <1>7
    <3>1. CASE j = k
      BY <1>3, <1>4, <1>5, <3>1
    <3>2. CASE j # k
      <4>1. j <= used.conns
        BY <1>2, <3>2, Basics
      <4> QED
        BY <1>5, <3>2, <4>1 DEF IInv, LiveInv
    <3> QED
      BY <3>1, <3>2
  <2>5. failed' \intersect Live' = {}
    BY <1>8 DEF IInv, LiveInv
  <2> QED
    BY <1>7, <2>1, <2>2, <2>3, <2>4, <2>5 DEF LiveInv
<1>15. DirInv' /\ BeforeInv' /\ StopInv' /\ RemoveInv'
  <2>1. DirInv'
    BY <1>7, <1>10 DEF IInv, DirInv, Picking, Removing
  <2>2. BeforeInv'
    <3> SUFFICES ASSUME NEW m \in Live', Removing' \/ (Picking' /\ m \in gw'.todo)
                 PROVE  Captured(conn'[servers'[m]].cfg.entry) = Captured(gw'.before[m])
      BY DEF BeforeInv, Captured
    <3>1. Picking /\ m \in gw.todo
      BY <1>7 DEF Picking, Removing
    <3>2. Captured(conn[servers[m]].cfg.entry) = Captured(gw.before[m])
      BY <1>10, <3>1 DEF IInv, BeforeInv
    <3> QED
      BY <1>7, <1>10, <3>2
  <2>3. StopInv' /\ RemoveInv'
    BY <1>2, <1>7 DEF StopInv, RemoveInv, Stopping, Removing
  <2> QED
    BY <2>1, <2>2, <2>3
<1>16. PickInv'
  <2>1. /\ gw.todo \subseteq DOMAIN gw.want /\ Live' \subseteq DOMAIN gw.want /\ failed \subseteq DOMAIN gw.want
        /\ gw.op = "start" => gw.current = {}
        /\ \A m \in Live' : m \in gw.todo => m \in gw.current
    BY <1>8 DEF IInv, PickInv, Picking
  <2>2. \A m \in Live' \ gw.todo : Captured(conn'[servers'[m]].cfg.entry) = Captured(gw.want[m])
    BY <1>10 DEF IInv, PickInv, Picking
  <2>3. \A m \in gw.current \intersect gw.todo : m \in Live' \/ m = n
    BY <1>8 DEF IInv, PickInv, Picking, Dialling
  <2>4. ~gw.aborted => DOMAIN gw.want \ gw.todo \subseteq Live' \union failed
    BY <1>8 DEF IInv, PickInv, Picking
  <2> QED
    BY <1>7, <2>1, <2>2, <2>3, <2>4 DEF PickInv, Dialling, Captured
<1>17. DialInv'
  BY <1>4, <1>5, <1>6, <1>7, <1>8 DEF DialInv, ServerConfigFromEntry, DefaultWorkDirFor
<1>18. SourceInv'
  <2>1. \A m \in ToolNames : reg[m].cat = "mcp" =>
            reg[m].source \in ServerNames /\ servers[reg[m].source] = reg[m].tool.conn /\ reg[m].tool.conn \in Conns
    BY <1>2 DEF IInv, SourceInv, ToolsInv, HandedOut
  <2>2. \A m \in ToolNames : reg[m].cat = "mcp" => reg[m].source # n
    BY <2>1, Basics DEF IInv, SourceInv
  <2> QED
    BY <1>1, <1>7, <2>1, <2>2 DEF SourceInv
<1>19. Maps'
  BY <1>2, <1>7, <1>14, <1>15, <1>16, <1>17, <1>18, Unsettled DEF Maps
<1> QED
  BY <1>11, <1>12, <1>13, <1>19 DEF IInv, Types, Registry, Connections, Maps

LEMMA NextServerStep ==
    ASSUME IInv, NEW n \in ServerNames, NextServer(n)
    PROVE  IInv'
<1>1. /\ gw.pc = "pick" /\ n \in gw.todo /\ n \notin gw.current /\ ConnectNew(n)
      /\ UNCHANGED <<registryVars, servers, configs, failed, defaultDir, stopped>>
  BY DEF NextServer
<1>2. n \notin Live /\ gw.op \in {"start", "reconfigure"} /\ proc.pc = "idle"
  BY <1>1, AtRest DEF IInv, PickInv, Picking, Busy
<1>3. servers[n] = 0 /\ configs[n] = NoConfig
  BY <1>2 DEF Live, IInv, LiveInv
<1>4. servers' \in [ServerNames -> Conns \union {0}] /\ configs' \in [ServerNames -> ConfigRecords]
  BY <1>1 DEF IInv, GwType
<1> QED
  BY <1>1, <1>2, <1>3, <1>4, Dials

LEMMA ChangedClosedStep ==
    ASSUME IInv, ChangedClosed
    PROVE  IInv'
<1> DEFINE n == gw.cur
<1>1. /\ gw.pc = "changing" /\ proc.pc = "idle" /\ ConnectNew(n)
      /\ servers' = [servers EXCEPT ![n] = 0] /\ configs' = [configs EXCEPT ![n] = NoConfig]
      /\ UNCHANGED <<registryVars, failed, defaultDir, stopped>>
  BY DEF ChangedClosed, ProcAt, ForgetServer
<1>2. n \in gw.todo /\ n \in ServerNames /\ gw.op \in {"start", "reconfigure"}
  BY <1>1 DEF IInv, DialInv, PhaseInv, PickInv, Picking, Live
<1>3. /\ servers' \in [ServerNames -> Conns \union {0}] /\ configs' \in [ServerNames -> ConfigRecords]
      /\ \A m \in ServerNames : m # n => servers'[m] = servers[m] /\ configs'[m] = configs[m]
      /\ servers'[n] = 0 /\ configs'[n] = NoConfig
  BY <1>1, <1>2, NewServerType DEF IInv, GwType
<1> QED
  BY <1>1, <1>2, <1>3, Dials

-----------------------------------------------------------------------------
(* Theorems                                                                  *)

LEMMA InitHolds == Init => IInv
<1> SUFFICES ASSUME Init PROVE IInv
  OBVIOUS
<1>1. /\ reg = [n \in ToolNames |-> NoEntry] /\ overrides = [n \in ToolNames |-> "none"]
      /\ grantedTo = [n \in ToolNames |-> NoTool] /\ settings \in HostSettings
      /\ call = [c \in Callers |-> IdleCall]
      /\ conn = [k \in Conns |-> NewServer] /\ proc = IdleProc
  BY DEF Init, RegistryInit, ServerInit
<1>2. /\ gw.pc = "new" /\ used.conns = 0 /\ Live = {} /\ failed = {} /\ stopped = FALSE /\ gw.current = {}
      /\ \A n \in ServerNames : servers[n] = 0 /\ configs[n] = NoConfig
  BY DEF Init, Live
<1>3. /\ \A n \in ToolNames : reg[n].cat = "none" /\ reg[n].tool.kind = "none"
      /\ \A c \in Callers : call[c].pc = "idle" /\ call[c].tool.kind = "none" /\ call[c].asked = NoTool
      /\ \A k \in Conns : /\ conn[k].transport = "none" /\ conn[k].start = "idle" /\ ~conn[k].client
      /\ proc.pc = "idle"
  BY <1>1, NoEntryType, IdleProcType DEF IdleCall, NoTool, NewServer
<1>4. RegistryType
  BY <1>1, HostAssumption, Basics, NoEntryType DEF RegistryType, RegEntries
<1>5. CallType /\ ConnType /\ ProcType
  BY <1>1, Basics, NewServerType, IdleProcType DEF CallType, ConnType, ProcType
<1>6. GwType
  BY NewServerType DEF Init, GwType
<1>7. Registry
  BY <1>1, <1>3 DEF Registry, ToolsInv, AskedInv, RemoteInv, OverrideBelongsToTool, Joined
<1>8. Connections
  BY <1>1, <1>2, <1>3
     DEF Connections, PhaseInv, StartInv, ClientInv, DrainInv, OwnerInv, CloseWaitsForCalls, NoCloseDuringStart,
         Dialling, ConnectPcs, ClosePcs
<1>9. LiveInv
  BY <1>2, Basics DEF LiveInv
<1>10. Maps
  BY <1>2, <1>3, <1>9
     DEF Maps, DirInv, BeforeInv, PickInv, DialInv, RemoveInv, StopInv, SourceInv, MapsAgree, Settled, StopIsFinal,
         NoChurn, Picking, Dialling, Removing, Stopping
<1> QED
  BY <1>4, <1>5, <1>6, <1>7, <1>8, <1>10, Groups DEF Types

LEMMA StutterHolds ==
    ASSUME IInv, UNCHANGED vars
    PROVE  IInv'
<1>1. /\ reg' = reg /\ overrides' = overrides /\ grantedTo' = grantedTo /\ settings' = settings /\ call' = call
      /\ conn' = conn /\ proc' = proc
      /\ servers' = servers /\ configs' = configs /\ failed' = failed /\ defaultDir' = defaultDir
      /\ stopped' = stopped /\ gw' = gw /\ used' = used
  BY DEF vars, registryVars, regVars, serverVars, gatewayVars
<1>2. /\ \A k : HandedOut(k)' <=> HandedOut(k)
      /\ \A k : CallBound(k)' = CallBound(k)
      /\ \A k : Inflight(k)' = Inflight(k)
      /\ Live' = Live
  BY <1>1 DEF HandedOut, Dialling, CallBound, ResolveTimeoutBounds, Inflight, Joined, Live
<1>3. RegistryType' /\ CallType'
  BY <1>1 DEF IInv, RegistryType, CallType
<1>4. ConnType' /\ ProcType' /\ GwType'
  BY <1>1 DEF IInv, ConnType, ProcType, GwType
<1>5. ToolsInv' /\ AskedInv'
  BY <1>1, <1>2 DEF IInv, ToolsInv, AskedInv
<1>6. RemoteInv' /\ OverrideBelongsToTool'
  BY <1>1, <1>2 DEF IInv, RemoteInv, OverrideBelongsToTool, Registered, Joined
<1>7. PhaseInv' /\ StartInv'
  BY <1>1, <1>2 DEF IInv, PhaseInv, StartInv, Dialling
<1>8. ClientInv' /\ OwnerInv'
  BY <1>1 DEF IInv, ClientInv, OwnerInv, Dialling
<1>9. DrainInv' /\ CloseWaitsForCalls' /\ NoCloseDuringStart'
  BY <1>1, <1>2 DEF IInv, DrainInv, CloseWaitsForCalls, NoCloseDuringStart
<1>10. Types /\ PhaseInv /\ Maps
  BY Groups DEF Connections
<1>11. Maps'
  BY <1>1, <1>10, MapsKept
<1> QED
  BY <1>3, <1>4, <1>5, <1>6, <1>7, <1>8, <1>9, <1>11 DEF IInv, Maps

(* One step per action of the gateway, its connections, callers and hosts.   *)
LEMMA NextHolds ==
    ASSUME IInv, [Next]_vars
    PROVE  IInv'
<1>0. Types /\ Registry /\ LiveInv
  BY DEF IInv, Types, Registry
<1>1. CASE \E want \in Configurations : StartGateway(want) \/ \E dir \in Dirs \union {"none"} : Reconfigure(want, dir)
  BY <1>1, StartGatewayStep, ReconfigureStep
<1>2. CASE \E dir \in Dirs : SetDefaultWorkDir(dir)
  BY <1>2, SetDefaultWorkDirStep
<1>3. CASE Stop
  BY <1>3, StopStep
<1>4. CASE HostStep
  BY <1>4, HostSteps
<1>5. CASE \E n \in ServerNames : NextServer(n) \/ RemoveServer(n) \/ KeepServer(n) \/ ChangeServer(n) \/ StopServer(n)
  BY <1>5, NextServerStep, RemoveServerStep, KeepServerStep, ChangeServerStep, StopServerStep
<1>6. CASE \/ AbortStart \/ ConnectReturns \/ DiscoverFails \/ Discarded \/ DiscoverSucceeds \/ AllServersTried
           \/ RegisterTool \/ AllRegistered \/ Removed \/ AllRemoved \/ ChangedClosed \/ ServerStopped \/ AllStopped
  BY <1>6, AbortStartStep, ConnectReturnsStep, DiscoverFailsStep, DiscardedStep, DiscoverSucceedsStep,
     AllServersTriedStep, RegisterToolStep, AllRegisteredStep, RemovedStep, AllRemovedStep, ChangedClosedStep,
     ServerStoppedStep, AllStoppedStep
<1>7. CASE ProcStep /\ UNCHANGED gatewayVars
  BY <1>7, ProcSteps
<1>8. CASE CancelConnect /\ UNCHANGED gatewayVars
  BY <1>8, CancelConnectStep
<1>9. CASE \E k \in Conns : StartReturns(k) /\ UNCHANGED gatewayVars
  BY <1>9, StartReturnsStep
<1>10. CASE \E c \in Callers : ExecuteStep(c) /\ UNCHANGED <<serverVars, gatewayVars>>
  BY <1>0, <1>10, ExecuteMoves, CallStep
<1>11. CASE \E c \in Callers : RemoteStep(c) /\ UNCHANGED gatewayVars
  BY <1>0, <1>11, RemoteMoves, CallStep
<1>12. CASE Tick /\ UNCHANGED gatewayVars
  BY <1>12, TickStep
<1>13. CASE UNCHANGED vars
  BY <1>13, StutterHolds
<1> QED
  BY <1>1, <1>2, <1>3, <1>4, <1>5, <1>6, <1>7, <1>8, <1>9, <1>10, <1>11, <1>12, <1>13 DEF Next, GatewayStep

(* The inductive invariant holds in every reachable state.                   *)
THEOREM Invariance == Spec => []IInv
  BY InitHolds, NextHolds, PTL DEF Spec

(* What tool calls rely on: Close takes a transport from no call that has    *)
(* more time left than it was late to start its deadline, and from no Start  *)
(* still dialling; a stream handed out keeps its context; overrides and      *)
(* confirmations stay with their tools.                                      *)
THEOREM CallersCorrect == Spec => []CallersSafe
<1>1. IInv => CallersSafe
  BY DEF IInv, CallersSafe, ClientInv, LiveStreamNotCancelled, AskedInv, ConfirmedToolRuns
<1> QED
  BY <1>1, Invariance, PTL

(* Servers, configurations, failure records, registry and transports agree   *)
(* after any sequence of Start, Reconfigure, SetDefaultWorkDir and Stop,     *)
(* whatever fails inside; Stop is final and no server is restarted without   *)
(* cause.                                                                    *)
THEOREM GatewayCorrect == Spec => []GatewayConsistent
<1>1. ASSUME IInv PROVE TypeOK
  <2>1. \A n \in ToolNames : reg[n].tool.kind \in {"none", "core", "mcp"} /\ reg[n].cat \in {"none", "core", "mcp"}
    BY <1>1 DEF IInv, RegistryType, ToolRecords
  <2>2. \A c \in Callers : call[c].pc \in {"idle", "validate", "policy", "confirm", "asking", "run", "joined", "remote"}
    BY <1>1 DEF IInv, CallType, CallRecords
  <2>3. \A k \in Conns : conn[k].timeouts \in 0 .. Threshold /\ conn[k].tools \subseteq ToolNames
    BY <1>1 DEF IInv, ConnType, ConnRecords
  <2> QED
    BY <1>1, <2>1, <2>2, <2>3 DEF TypeOK, IInv, RegistryType, GwType
<1>2. IInv => NoDanglingTool
  BY DEF IInv, SourceInv, NoDanglingTool, Settled
<1>3. IInv => NoLeakedConnection
  BY DEF IInv, OwnerInv, NoLeakedConnection, Dialling
<1>4. IInv => GatewayConsistent
  BY <1>1, <1>2, <1>3 DEF IInv, GatewayConsistent
<1> QED
  BY <1>4, Invariance, PTL
=============================================================================
