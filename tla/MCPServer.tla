------------------------------ MODULE MCPServer ------------------------------
(***************************************************************************)
(* tools/mcp/server.go: the connections to MCP servers.  One goroutine at a  *)
(* time (it holds the gateway's lock) connects, discovers and closes; tool   *)
(* calls run concurrently, register themselves in the inflight group and     *)
(* take the server's lock again to record their outcome.  Time is counted    *)
(* in ticks: a call ends at its own deadline, and Close drains for as long   *)
(* as a call may last.                                                       *)
(***************************************************************************)
EXTENDS ToolRegistry, FiniteSets, Integers

CONSTANTS
    Conns,            \* Server objects, in order of creation: 1 .. n
    DefaultTimeout,   \* defaultMCPTimeout, in ticks
    Threshold,        \* unhealthyTimeoutThreshold; streaks are counted up to it
    MaxLag,           \* bound: ticks a call may take to start its deadline
    Offers            \* the tool sets a server may list

ASSUME ServerConstants ==
    /\ Conns \subseteq Nat \ {0}
    /\ DefaultTimeout \in Nat \ {0} /\ Threshold \in Nat \ {0} /\ MaxLag \in Nat
    /\ Offers \subseteq SUBSET ToolNames

VARIABLES
    conn,    \* the Server objects
    proc     \* the Connect, DiscoverTools or Close under way

serverVars == <<conn, proc>>

(* A configured server is an entry, whose id stands for command, arguments,  *)
(* environment, URL and headers ("none": no command or URL; dir and group    *)
(* "none": not set), with the directory it is to run in.                     *)
ResolveTimeoutBounds(entry) ==
    LET handshake == IF entry.timeout > 0 THEN entry.timeout ELSE DefaultTimeout
    IN [handshake |-> handshake, call |-> IF entry.call > 0 THEN entry.call ELSE handshake]

MCPToolGroup(transport) == IF transport = "http" THEN "remote_mcp" ELSE "local_mcp"

(* An unset, unknown or reserved override is ignored.                        *)
EffectiveToolGroup(override, transport) ==
    IF override \in {"local_mcp", "remote_mcp"} THEN override ELSE MCPToolGroup(transport)

NoConfig == [entry |-> [id |-> "none"], dir |-> "none"]
NewServer == [cfg |-> NoConfig, client |-> FALSE, transport |-> "none", child |-> FALSE,
              start |-> "idle", cancelled |-> FALSE, tools |-> {}, timeouts |-> 0]
IdleProc == [pc |-> "idle", k |-> 0, via |-> "none", ctx |-> FALSE, left |-> 0, out |-> "none"]

ServerInit ==
    /\ conn = [k \in Conns |-> NewServer]
    /\ proc = IdleProc

McpTool(k) == [kind |-> "mcp", conn |-> k, policy |-> "confirm", judger |-> FALSE, untrusted |-> TRUE]

(* The inflight group: calls that joined it, their deadline started or not.  *)
Joined(c) == call[c].pc \in {"joined", "remote"}
Inflight(k) == {c \in Callers : Joined(c) /\ call[c].tool.conn = k}
ProcAt(pc) == proc.pc = pc
Procedure(k, pc, via) == proc' = [IdleProc EXCEPT !.pc = pc, !.k = k, !.via = via, !.ctx = proc.ctx]
ProcReturns(out) == proc' = [IdleProc EXCEPT !.k = proc.k, !.ctx = proc.ctx, !.out = out]

-----------------------------------------------------------------------------
(* Connect: spawn or dial, race Start against the bound, initialize          *)

(* An empty transport means stdio.                                           *)
TransportOf(entry) == IF entry.transport = "none" THEN "stdio" ELSE entry.transport

Connect(k, cfg) ==
    /\ conn' = [conn EXCEPT ![k] = [NewServer EXCEPT !.cfg = cfg]]
    /\ IF TransportOf(cfg.entry) \notin {"stdio", "http"} \/ cfg.entry.id = "none"
       THEN proc' = [IdleProc EXCEPT !.k = k, !.ctx = proc.ctx, !.out = "err"]
       ELSE Procedure(k, "create", IF TransportOf(cfg.entry) = "http" THEN "stream" ELSE "stdio")

(* The host cancels the context Start or Reconfigure was given.              *)
CancelConnect ==
    /\ proc.pc # "idle" /\ ~proc.ctx
    /\ proc' = [proc EXCEPT !.ctx = TRUE]
    /\ UNCHANGED <<conn, registryVars>>

(* The streamable attempt falls back to SSE; the others give up.             *)
GiveUp == IF proc.via = "stream" THEN proc' = [proc EXCEPT !.pc = "create", !.via = "sse"] ELSE ProcReturns("err")

CreateClient ==
    /\ ProcAt("create")
    /\ \/ GiveUp /\ UNCHANGED conn
       \/ /\ proc' = [proc EXCEPT !.pc = "race"]
          /\ conn' = [conn EXCEPT ![proc.k].transport = "up", ![proc.k].start = "running", ![proc.k].cancelled = FALSE,
                                  ![proc.k].child = (proc.via = "stdio")]
    /\ UNCHANGED registryVars

(* The Start goroutine ends and leaves its answer in the buffered channel.   *)
StartReturns(k) ==
    /\ conn[k].start = "running"
    /\ \E ok \in BOOLEAN : conn' = [conn EXCEPT ![k].start = IF ok /\ ~conn[k].cancelled THEN "ok" ELSE "failed"]
    /\ UNCHANGED <<proc, registryVars>>

RaceWon ==
    /\ ProcAt("race") /\ conn[proc.k].start \in {"ok", "failed"}
    /\ IF conn[proc.k].start = "ok"
       THEN proc' = [proc EXCEPT !.pc = "init"] /\ UNCHANGED conn
       ELSE proc' = [proc EXCEPT !.pc = "fail"] /\ conn' = [conn EXCEPT ![proc.k].cancelled = TRUE]
    /\ UNCHANGED registryVars

(* Mutant: the timer's arm returns without reaping the goroutine.            *)
RaceLostNoReap ==
    /\ ProcAt("race")
    /\ proc' = [proc EXCEPT !.pc = "fail"]
    /\ conn' = [conn EXCEPT ![proc.k].cancelled = TRUE]
    /\ UNCHANGED registryVars

(* The context's or the timer's arm of the select: cancel first, then reap.  *)
RaceLost ==
    /\ ProcAt("race")
    /\ proc' = [proc EXCEPT !.pc = "reap"]
    /\ conn' = [conn EXCEPT ![proc.k].cancelled = TRUE]
    /\ UNCHANGED registryVars

Reap ==
    /\ ProcAt("reap") /\ conn[proc.k].start # "running"
    /\ proc' = [proc EXCEPT !.pc = "fail"]
    /\ UNCHANGED <<conn, registryVars>>

(* Mutant: the deferred cancel also runs when Start has succeeded.           *)
InitializeCancels ==
    /\ ProcAt("init") /\ ~proc.ctx
    /\ ProcReturns("ok")
    /\ conn' = [conn EXCEPT ![proc.k].client = TRUE, ![proc.k].cancelled = TRUE]
    /\ UNCHANGED registryVars

Initialize ==
    /\ ProcAt("init") /\ ~proc.ctx
    /\ ProcReturns("ok")
    /\ conn' = [conn EXCEPT ![proc.k].client = TRUE]
    /\ UNCHANGED registryVars

InitializeFails ==
    /\ ProcAt("init")
    /\ proc' = [proc EXCEPT !.pc = "fail"]
    /\ UNCHANGED <<conn, registryVars>>

(* Every failure closes the client: bounded for a child process, which is    *)
(* killed if it does not exit, and a plain Close for the HTTP clients.       *)
CloseFailed ==
    /\ ProcAt("fail")
    /\ conn' = [conn EXCEPT ![proc.k] = [NewServer EXCEPT !.cfg = conn[proc.k].cfg, !.transport = "closed",
                                             !.start = IF conn[proc.k].start = "running" THEN "running" ELSE "idle"]]
    /\ GiveUp
    /\ UNCHANGED registryVars

-----------------------------------------------------------------------------
(* DiscoverTools and Close                                                   *)

(* All pages of tools/list, or the first failure.                            *)
ListTools ==
    /\ ProcAt("list")
    /\ \/ /\ ~proc.ctx
          /\ \E T \in Offers : conn' = [conn EXCEPT ![proc.k].tools = T]
          /\ ProcReturns("ok")
       \/ ProcReturns("err") /\ UNCHANGED conn
    /\ UNCHANGED registryVars

CallBound(k) == ResolveTimeoutBounds(conn[k].cfg.entry).call

(* Mutant: the drain waits for the close grace, shorter than a call.         *)
DrainBoundGrace(k) == CallBound(k) - 1

DrainBound(k) == CallBound(k)

(* Phase 1 of Close, under the server's lock.                                *)
Detach ==
    /\ ProcAt("detach")
    /\ conn' = [conn EXCEPT ![proc.k].client = FALSE, ![proc.k].tools = {}, ![proc.k].timeouts = 0]
    /\ proc' = [proc EXCEPT !.pc = "drain", !.left = DrainBound(proc.k)]
    /\ UNCHANGED registryVars

DrainInflight ==
    /\ ProcAt("drain")
    /\ Inflight(proc.k) = {} \/ proc.left = 0
    /\ proc' = [proc EXCEPT !.pc = "close", !.left = 0]
    /\ UNCHANGED <<conn, registryVars>>

(* closeClientBounded: the client closes in time or with an error; after     *)
(* the grace a child is killed and reaped, an HTTP close is abandoned.       *)
CloseClient ==
    /\ ProcAt("close")
    /\ conn' = [conn EXCEPT ![proc.k].transport = "closed", ![proc.k].child = FALSE]
    /\ ProcReturns("ok")
    /\ UNCHANGED registryVars

-----------------------------------------------------------------------------
(* CallTool                                                                  *)

(* Mutant: the call joins the group only once its deadline has started.      *)
CallToolUnjoined(c) ==
    /\ At(c, "run") /\ call[c].tool.kind = "mcp"
    /\ conn[call[c].tool.conn].transport # "none"
    /\ call' = [call EXCEPT ![c].pc = "joined", ![c].left = CallBound(call[c].tool.conn)]
    /\ UNCHANGED <<regVars, serverVars>>

(* Under the read lock: capture the client and its bound, join the group.    *)
CallTool(c) ==
    /\ At(c, "run") /\ call[c].tool.kind = "mcp"
    /\ call' = IF conn[call[c].tool.conn].client
               THEN [call EXCEPT ![c].pc = "joined", ![c].left = CallBound(call[c].tool.conn)]
               ELSE [call EXCEPT ![c] = IdleCall]
    /\ UNCHANGED <<regVars, serverVars>>

(* Without the lock: the per-call deadline starts; Close may have begun.     *)
StartDeadline(c) ==
    /\ At(c, "joined")
    /\ call' = [call EXCEPT ![c].pc = "remote"]
    /\ UNCHANGED <<regVars, serverVars>>

CancelCall(c) ==
    /\ Joined(c) /\ ~call[c].cancelled
    /\ call' = [call EXCEPT ![c].cancelled = TRUE]
    /\ UNCHANGED <<regVars, serverVars>>

(* A success clears the streak, on a server that may have been closed since. *)
CallSucceeds(c) ==
    /\ At(c, "remote") /\ conn[call[c].tool.conn].transport = "up"
    /\ conn' = [conn EXCEPT ![call[c].tool.conn].timeouts = 0]
    /\ Return(c)
    /\ UNCHANGED proc

(* Mutant: the streak is counted past the threshold.                        *)
RecordTimeoutUncapped(s) == [s EXCEPT !.timeouts = @ + 1]

(* The server counts as unhealthy once the streak reaches the threshold.     *)
RecordTimeout(s) == [s EXCEPT !.timeouts = IF @ < Threshold THEN @ + 1 ELSE Threshold]

(* The caller's own context wins over the bound: timeoutErrorFor.            *)
TimeoutErrorFor(cancelled, elapsed) == IF cancelled THEN "canceled" ELSE IF elapsed THEN "timeout" ELSE "err"

(* Only the server's own timeout counts against it.                          *)
CallFails(c) ==
    /\ At(c, "remote")
    /\ LET out == TimeoutErrorFor(call[c].cancelled, call[c].left = 0)
           k == call[c].tool.conn
       IN /\ Return(c)
          /\ conn' = IF out = "timeout" THEN [conn EXCEPT ![k] = RecordTimeout(conn[k])] ELSE conn
    /\ UNCHANGED proc

(* The call after a tick: before its deadline started it falls behind.       *)
Ticked(c) ==
    CASE At(c, "remote") -> [call[c] EXCEPT !.left = @ - 1]
      [] At(c, "joined") -> [call[c] EXCEPT !.lag = @ + 1]
      [] OTHER -> call[c]

(* The clock: no call outlives its deadline, no drain its bound.             *)
Tick ==
    /\ \A c \in Callers : At(c, "remote") => call[c].left > 0
    /\ \A c \in Callers : At(c, "joined") => call[c].lag < MaxLag
    /\ (\E c \in Callers : Joined(c)) \/ (ProcAt("drain") /\ proc.left > 0)
    /\ call' = [c \in Callers |-> Ticked(c)]
    /\ proc' = IF proc.left > 0 THEN [proc EXCEPT !.left = @ - 1] ELSE proc
    /\ UNCHANGED <<conn, regVars>>

ProcStep ==
    \/ CreateClient \/ RaceWon \/ RaceLost \/ Reap \/ Initialize \/ InitializeFails \/ CloseFailed
    \/ ListTools \/ Detach \/ DrainInflight \/ CloseClient

RemoteStep(c) == CallTool(c) \/ StartDeadline(c) \/ CancelCall(c) \/ CallSucceeds(c) \/ CallFails(c)

-----------------------------------------------------------------------------
(* Properties                                                                *)

(* Close takes the transport away from a call only when its time is up, or   *)
(* would be had the call started its deadline as it joined the group: the    *)
(* drain lasts as long as a call may and no call joins once it has begun,    *)
(* but the lock is released between joining and the deadline, and the drain  *)
(* may begin there.                                                          *)
CloseWaitsForCalls ==
    \A k \in Conns : conn[k].transport = "closed" => \A c \in Inflight(k) : call[c].left <= call[c].lag

(* No client is closed while its Start goroutine still runs: the arms of the  *)
(* race that lose reap it first.                                              *)
NoCloseDuringStart ==
    \A k \in Conns : conn[k].transport = "closed" => conn[k].start # "running"

(* A connection that is handed out keeps the context its stream runs under:   *)
(* the deferred cancel of the start race is for the failures only.            *)
LiveStreamNotCancelled == \A k \in Conns : conn[k].client => ~conn[k].cancelled
=============================================================================
