---------------------------- MODULE Conductor ----------------------------
(***************************************************************************)
(* The conductor (orchestration/conductor.go) and the framework around it  *)
(* (framework.go, run.go): Execute opens a blackboard, runs one executor   *)
(* under the conductor and closes the blackboard; the executor's tools may *)
(* start a batch of sub-agents in the background, which the delegation     *)
(* registry in the context lists as pending; Shutdown, from any number of  *)
(* callers, stops the MCP gateway once.                                    *)
(***************************************************************************)
EXTENDS SubAgents

CONSTANTS Runs,      \* concurrent calls of Execute
          Callers,   \* concurrent callers of Shutdown
          Resumed    \* numbers of ResumeSteps a run may be given

ASSUME ConductorAssumption == Resumed \subseteq Nat /\ Runs # {}

VARIABLES run,      \* the state of each Execute call
          owner,    \* the run whose context holds the batch's registry
          fw,       \* "none", "ready", "failed"
          gateway,  \* "none", "up", "stopped"
          once,     \* shutdownOnce: "open", "running", "done"
          caller    \* the state of each Shutdown call

ownVars == <<run, owner, fw, gateway, once, caller>>
vars == <<agentVars, ownVars>>

Statuses == {"success", "partial", "paused", "cancelled", "failed"}
Idle == [pc |-> "idle", board |-> "none", cancelled |-> FALSE, finished |-> FALSE,
         err |-> "none", prompt |-> 0, resumed |-> 0, output |-> "none",
         noted |-> {}, status |-> "none"]

Init ==
    /\ AgentsInit
    /\ run = [e \in Runs |-> Idle]
    /\ owner = "none"
    /\ fw = "none" /\ gateway = "none" /\ once = "open"
    /\ caller = [c \in Callers |-> "idle"]

-----------------------------------------------------------------------------
(* framework.go *)

\* New fails without a provider, a router or its default model; a gateway
\* that does not start is a warning.
New ==
    /\ fw = "none"
    /\ \/ fw' = "failed" /\ UNCHANGED gateway
       \/ fw' = "ready" /\ gateway' \in {"none", "up"}
    /\ UNCHANGED <<agentVars, run, owner, once, caller>>

\* RunBuilder.Ask on a builder that failed, or without a system prompt;
\* otherwise Execute: conductor, blackboard with its deferred shutdown.
Ask(e) ==
    /\ fw # "none" /\ run[e].pc = "idle"
    /\ \/ run' = [run EXCEPT ![e].pc = "returned", ![e].err = "refused"]
       \/ /\ fw = "ready"
          /\ run' = [run EXCEPT ![e].pc = "start", ![e].board = "open"]
    /\ UNCHANGED <<agentVars, owner, fw, gateway, once, caller>>

\* The deferred calls of Execute.
\* CloseBoardOnSuccess is a mutant: no shutdown on an error return.
CloseBoardOnSuccess(r) ==
    [r EXCEPT !.board = IF r.err = "none" THEN "closed" ELSE "open", !.pc = "returned"]
CloseBoard(r) == [r EXCEPT !.board = "closed", !.pc = "returned"]

\* sync.Once: a second caller waits until the first has stopped the gateway.
\* Mutant: a flag instead of sync.Once.
BeginShutdownFlag(c) ==
    /\ fw = "ready" /\ caller[c] = "idle"
    /\ IF once = "open"
       THEN once' = "running" /\ caller' = [caller EXCEPT ![c] = "stopping"]
       ELSE caller' = [caller EXCEPT ![c] = "returned"] /\ UNCHANGED once
    /\ UNCHANGED <<agentVars, run, owner, fw, gateway>>
BeginShutdown(c) ==
    /\ fw = "ready" /\ caller[c] = "idle"
    /\ \/ /\ once = "open" /\ once' = "running"
          /\ caller' = [caller EXCEPT ![c] = "stopping"]
       \/ /\ once = "done" /\ UNCHANGED once
          /\ caller' = [caller EXCEPT ![c] = "returned"]
    /\ UNCHANGED <<agentVars, run, owner, fw, gateway>>

EndShutdown(c) ==
    /\ caller[c] = "stopping"
    /\ gateway' = IF gateway = "up" THEN "stopped" ELSE gateway
    /\ once' = "done"
    /\ caller' = [caller EXCEPT ![c] = "returned"]
    /\ UNCHANGED <<agentVars, run, owner, fw>>

-----------------------------------------------------------------------------
(* Conductor.Run *)

\* Resumed steps need a context manager that can be seeded; they go to the
\* prompt and to the executor, so that both count the same trajectory.
\* Mutant: a context manager that cannot be seeded is tolerated.
PrepareLenient(e) ==
    /\ run[e].pc = "start"
    /\ \E n \in Resumed, seedable \in BOOLEAN :
         run' = [run EXCEPT ![e] = [@ EXCEPT !.pc = "running", !.resumed = n,
                                             !.prompt = IF seedable THEN n ELSE 0]]
    /\ UNCHANGED <<agentVars, owner, fw, gateway, once, caller>>
Prepare(e) ==
    /\ run[e].pc = "start"
    /\ \E n \in Resumed, seedable \in BOOLEAN :
         run' = [run EXCEPT ![e] =
                   IF n > 0 /\ ~seedable
                   THEN CloseBoard([@ EXCEPT !.err = "unseedable"])
                   ELSE [@ EXCEPT !.pc = "running", !.prompt = n, !.resumed = n]]
    /\ UNCHANGED <<agentVars, owner, fw, gateway, once, caller>>

Cancel(e) ==
    /\ run[e].pc \in {"running", "ended"} /\ ~run[e].cancelled
    /\ run' = [run EXCEPT ![e].cancelled = TRUE]
    /\ UNCHANGED <<agentVars, owner, fw, gateway, once, caller>>

\* A tool of the run starts the batch in the background.
Delegate(e) ==
    /\ run[e].pc = "running" /\ StartBatch
    /\ owner' = e
    /\ UNCHANGED <<run, fw, gateway, once, caller>>

\* PendingDelegations.ListPending of the run's registry.
ListPending(e) == {a \in Agents : batch # "none" /\ owner = e /\ agent[a] # "settled"}

\* The finish guard stands before the finish tool and a stop tool, not
\* before an answer without tool calls.
FinishGuard(e) == ListPending(e) = {}

End(e, finished, err, output) ==
    run' = [run EXCEPT ![e] = [@ EXCEPT !.pc = "ended", !.finished = finished,
                                        !.err = err, !.output = output]]

\* executor.Run returns.
EndRun(e) ==
    /\ run[e].pc = "running"
    /\ \/ FinishGuard(e) /\ End(e, TRUE, "none", "answer")  \* finish or stop tool
       \/ End(e, TRUE, "none", "answer")                     \* implicit finish
       \/ End(e, FALSE, "none", "answer")                    \* step limit, abort
       \/ \E o \in {"none", "answer"} : End(e, FALSE, "paused", o)
       \/ \E o \in {"none", "answer"} : End(e, FALSE, "failed", o)
       \/ run[e].cancelled /\ End(e, FALSE, "cancelled", "none")
    /\ UNCHANGED <<agentVars, owner, fw, gateway, once, caller>>

\* Mutant: a status callers do not know.
StatusAborted(r) == IF r.err # "none" THEN "aborted" ELSE "success"
\* Mutant: cancellation is looked at first.
StatusErrFirst(r) ==
    IF r.err = "cancelled" \/ (r.err # "none" /\ r.cancelled) THEN "cancelled"
    ELSE IF r.err = "paused" THEN "paused"
    ELSE IF r.err # "none" THEN "failed"
    ELSE IF r.finished THEN "success" ELSE "partial"
\* ctx.Err() is read after the executor has returned.
Status(r) ==
    IF r.err = "paused" THEN "paused"
    ELSE IF r.err = "cancelled" \/ (r.err # "none" /\ r.cancelled) THEN "cancelled"
    ELSE IF r.err # "none" THEN "failed"
    ELSE IF r.finished THEN "success" ELSE "partial"

\* The error text stands in for a missing output, except for a pause.
OutputOf(r) == IF r.err # "none" /\ r.output = "none" /\ Status(r) # "paused"
               THEN "error text" ELSE r.output

\* Status, output, and the note on what is still pending, read last.
Settle(e) ==
    /\ run[e].pc = "ended"
    /\ run' = [run EXCEPT ![e].pc = "settled", ![e].status = Status(run[e]),
                          ![e].output = OutputOf(run[e])]
    /\ UNCHANGED <<agentVars, owner, fw, gateway, once, caller>>

\* Mutant: only a partial result gets the note.
NoteIfPartial(e) == IF run[e].status = "partial" THEN ListPending(e) ELSE {}
Note(e) == IF run[e].err = "none" THEN ListPending(e) ELSE {}

Return(e) ==
    /\ run[e].pc = "settled"
    /\ run' = [run EXCEPT ![e] = CloseBoard([@ EXCEPT !.noted = Note(e)])]
    /\ UNCHANGED <<agentVars, owner, fw, gateway, once, caller>>

BatchStep == /\ \/ ReturnBatch
                \/ \E a \in Agents : AgentStep(a)
             /\ UNCHANGED ownVars

\* Everything runs in one process.
Next == /\ batch # "crashed"
        /\ \/ New
           \/ \E e \in Runs : \/ Ask(e) \/ Prepare(e) \/ Cancel(e) \/ Delegate(e)
                              \/ EndRun(e) \/ Settle(e) \/ Return(e)
           \/ \E c \in Callers : BeginShutdown(c) \/ EndShutdown(c)
           \/ BatchStep

\* Goroutines are scheduled, and executor.Run of a sub-agent ends.
Spec == Init /\ [][Next]_vars /\ WF_vars(BatchStep)

-----------------------------------------------------------------------------
Executions ==
    [pc : {"idle", "start", "running", "ended", "settled", "returned"},
     board : {"none", "open", "closed"}, cancelled : BOOLEAN, finished : BOOLEAN,
     err : {"none", "refused", "unseedable", "paused", "failed", "cancelled"},
     prompt : Nat, resumed : Nat, output : {"none", "answer", "error text"},
     noted : SUBSET Agents, status : Statuses \union {"none"}]

TypeOK ==
    /\ AgentsTypeOK
    /\ run \in [Runs -> Executions]
    /\ owner \in Runs \union {"none"} /\ fw \in {"none", "ready", "failed"}
    /\ gateway \in {"none", "up", "stopped"} /\ once \in {"open", "running", "done"}
    /\ caller \in [Callers -> {"idle", "stopping", "returned"}]

(***************************************************************************)
(* A run that comes back as a success or a partial result names every      *)
(* delegation that is still pending: the guard covers the finish and the   *)
(* stop tools, the note covers the ways past the guard, and a delegation   *)
(* cannot be started in between (conductor.go, finish guard and note).     *)
(***************************************************************************)
PendingNeverSilent ==
    \A e \in Runs : run[e].pc = "returned" /\ run[e].status \in {"success", "partial"}
                      => ListPending(e) \subseteq run[e].noted

(***************************************************************************)
(* A paused run stays resumable whatever else happens before it is         *)
(* reported: a cancellation that arrives while the status is worked out    *)
(* does not turn it into a cancelled run, and no error text is passed off  *)
(* as its output.                                                          *)
(***************************************************************************)
PauseSurvivesCancel ==
    \A e \in Runs : run[e].err = "paused" /\ run[e].pc \in {"settled", "returned"}
                      => run[e].status = "paused" /\ run[e].output # "error text"

(***************************************************************************)
(* The steps a run resumes from are in the prompt and in the executor, or  *)
(* in neither: the model never sees fewer steps than are counted.          *)
(***************************************************************************)
SeedsAgree == \A e \in Runs : run[e].prompt = run[e].resumed

(***************************************************************************)
(* Execute leaves no blackboard open, on its error returns as well: an     *)
(* open one keeps a worker that goes on saving under its id.               *)
(***************************************************************************)
BoardsClosed == \A e \in Runs : run[e].pc = "returned" => run[e].board # "open"

(***************************************************************************)
(* No Shutdown call returns before the gateway is down, not even one that  *)
(* finds another caller at work (shutdownOnce).                            *)
(***************************************************************************)
ShutdownComplete == (\E c \in Callers : caller[c] = "returned") => gateway # "up"

(* A batch of sub-agents is reported as it went: within its concurrency,     *)
(* each result in its place and its events in agreement with it, panics      *)
(* included.                                                                 *)
BatchTold ==
    /\ TypeOK
    /\ SlotsRespected
    /\ ResultsInPlace
    /\ ToldTruthfully

(* What Execute and Shutdown tell their callers is true: pending work is     *)
(* named, a pause stays a pause, the resumed steps are the seeded ones, and  *)
(* nothing they opened is still running.                                     *)
RunsReported ==
    /\ PendingNeverSilent
    /\ PauseSurvivesCancel
    /\ SeedsAgree
    /\ BoardsClosed
    /\ ShutdownComplete
=============================================================================
