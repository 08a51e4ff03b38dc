# A verification project for sp4rk

sp4rk is a Go SDK for LLM agents: it plans a task, runs every step of the plan as a
ReAct loop over tools, keeps shared results on a blackboard and checkpoints that
blackboard. This directory holds TLA+ models of its core logic, TLC configurations that
check them on small instances, and TLAPS proofs of their safety properties for every
value of the constants. `PROJECT.json` maps every definition to the lines it models and
lists components, runs, mutants, hazards, findings and theorems.

Contents: 1 inventory, 2 the modules, 3 runs and bounds, 4 fairness, 5 proofs,
6 findings, 7 what is not modelled, 8 plan.

## 1. Inventory

### How the parts interact

A host builds a `Framework` (framework.go, builder.go) and runs a task. `runPlanned`
(task.go) asks the planner for a DAG of steps, stores it on the blackboard and executes
it wave by wave. Every step runs through the `Conductor`, which builds a context window,
wires the finish guards and calls `Executor.Run`. The executor asks the model through the
LLM router and works through the calls of each reply; tool calls go through a watchdog to
the tool registry, which judges, confirms and executes. Tools are built in or proxied by
the MCP gateway. Large results go to the tool result cache, the trajectory goes to the
context window and is compacted when it fills up. Blackboard writes are mirrored to a
checkpointer by one background worker.

### Components

| component | state | operations | what is hard | correct when |
|---|---|---|---|---|
| Checkpointed blackboard (orchestration/persistent_blackboard.go) | live board, queue, wake-up channel, closed flag, worker | write methods, persist worker, Shutdown, restore | writers, worker and several Shutdown callers interleave; the backend fails, panics or never answers; the queue is full | no lost wake-up, accepted saves run, an acknowledged save is durable, at rest the checkpoint equals the board, callers always return |
| Plan execution (task.go, orchestration/dag.go) | plan, completed map, ready wave, attempts, replans, active model | plan, run step, retry, reflect, replan, carry forward, pause, cancel | the graph is replaced under completed work; cancellation inside a wave; model switched and restored on every path | dependencies first, completed work closed under dependencies, success means all done, terminates |
| ReAct executor (agent/executor.go, executor_run.go, verify_on_edit.go) | step number and budget, nudges, breaker counters, trajectory, pending verification | boundary, model call, gates, breakers, human in the loop, dispatch, record, compact | many early exits, each of which must leave every counter and gate right; user grants; resume | budget kept, gates exact, repeated calls cut off, no pending verification at finish, the thought told once, ends |
| Tool watchdog (agent/tool_watchdog.go) | goroutine, result channel, ticker, ceiling timer, contexts | execute, drain, select, abandon | `select` picks any ready arm; the goroutine outlives its caller | finished work and cancellation win, nothing leaks, the wait ends |
| In-memory blackboard | maps under a mutex | reads and writes | torn reads across fields | fields never go back |
| Conductor | none beyond one run | Run, finish guard, status mapping | pending delegations change during the finish | the status agrees with how the run ended |
| Sub-agents (agent/subagent.go) | result channel, semaphore | run one, run many | panics, pause, cap | exactly one result and one terminal event each, cap kept |
| Tool result cache (agent/tool_cache.go) | entries, full-to-short map, retired keys | Store, Get, coherence, eviction | expiry and reissue of abbreviated hashes | an issued hash never names other content |
| LLM router (llm/router.go) | active provider and model | Call with retries, SetModel | model switched during retries, partial streams | one consistent provider and model per call, no replayed text |
| Context window and compaction (memory/) | steps, frozen prefix, token tracker | AddStep, Compact, BuildPrompt, SeedSteps | prefix frozen while steps are added | every step rendered once, calls paired with results |
| Planner, one-shot calls, reflector, complexity router | none | one LLM call each, with bounded reparsing | malformed answers | bounded number of calls, valid plans only |
| Tool registry, judges | tools, policies, sources | Register, Execute, confirm | replacement during a confirmation | fail closed |
| MCP gateway and server (tools/mcp/) | servers, configurations, failures, in-flight calls | Start, Stop, Reconfigure, CallTool, Close | reconfigure against Stop, Close against calls, partial reconnects | no orphan server, maps agree, transport closed only when drained |
| Atomic file I/O (safeio/write.go) | files | WriteFileAtomic | crash between steps | old or new contents, complete |
| Embedding (embedding/) | sessions, closed flag | Embed, Close, provider fallback | fallback in the middle of initialisation | no use after close |
| Framework | gateway, once | New, Execute, Shutdown, RestoreBlackboard | concurrent Shutdown | shut down once |
| LLM providers (llm/provider_*.go) | stream accumulators | request building, stream assembly, reasoning controls | truncated and reordered streams, dialects of four protocols | a stream assembles to what a whole answer says or fails, calls and results pair up on every wire |
| Path and shell safety (tools/path*.go, symlink.go, shellanalysis.go) | none | resolve, judge, analyse | symbolic links, `..`, missing names | what was judged is what is touched |
| Built-in file and fact tools | coherence snapshots, locks, temporary files | read, write, edit, delete, store and search facts | two sessions and an outside writer on one file, crashes | no lost update, the file always whole |
| Executor options, tool definitions | option fields, tables | New, setters | aliasing of caller's maps | the last option counts, executors independent |
| Schema conversion, token tables, skills and agent definitions, process groups | mostly none | translation and I/O | data, not control | – |

The hazards these behaviours give rise to are listed one by one, each at its line, in
`PROJECT.json`, with the properties that would catch them.

## 2. The modules

A component's module holds its model and its properties, an `MC` module the instances for
TLC where the cfg alone cannot give the constants, a `_proofs` module the theorems. Some
definitions come in pairs such as `PersistEnqueue` and `PersistEnqueueOverCap`: the second
is the first with a plausible mistake. It is part of no specification; substituting it must
make a property fail. Properties are conjunctions of named parts, each with its own comment.

| module | models | built on |
|---|---|---|
| DurableBoard | the abstract promise of a checkpoint | – |
| CheckpointedBlackboard | persistent_blackboard.go | refines DurableBoard |
| PlanExecution | task.go, dag.go | – |
| Executor | executor.go, executor_run.go, verify_on_edit.go | – |
| ToolWatchdog | tool_watchdog.go | – |
| ToolRegistry, MCPServer, MCPGateway | tools/registry.go, tools/mcp/server.go, gateway.go | each extends the one before |
| LLMRouter, ReplyParsing, LLMClients | llm/router.go, llm/errors.go, planner, reflector, judges, one-shot calls | LLMClients composes the others |
| ToolResultCache, Compaction, ContextWindow | agent/tool_cache.go, memory/ | ContextWindow composes the others |
| SubAgents, Conductor | agent/subagent.go, conductor.go, framework.go | Conductor extends SubAgents |
| FileTools, ToolOutput | built-in file tools, windows and truncation | – |
| Paths, ShellCriteria | path resolution, file judges, shell criteria | – |
| ExecutorSetup | options, setters, tool definitions, printed calls | – |
| Embedder, EmbedBatches, Chunker | embedding/ | – |
| WorkBoard, FactMemory | blackboard.go, its adapters, the fact tools | – |
| ProviderStreams, ProviderRequests, ReasoningControls | llm/provider_*.go | – |
| Cases | the one-step enumeration of inputs the pure parts share | – |
| Toolbox | the last seven rows side by side | all of them |

### CheckpointedBlackboard and DurableBoard

A write (`Write`) changes one field of the board under its mutex and then calls
`persistSafe`, which under `queueMu` refuses (`PersistSkip`, closed), drops
(`PersistDrop`, queue full) or appends and signals (`PersistEnqueue`). The writer then
waits for its operation or its timer (`WaitDone`, `WaitTimeout`). The worker
(`WorkerReceive`, `WorkerPop`, `WorkerDrained`, `WorkerExit`) drains the queue; an
operation reads the board field by field (`SaveRead`) while writers go on, and then
commits or fails (`SaveCommit`, `SaveFail`; panics and deadlines are failures). `Shutdown`
is split at its `sync.Once`, at setting `closed`, at `close(queueCh)` outside the lock, and
at the grace timer (`ShutdownBegin` ... `ShutdownAbandon`).

Board contents are write numbers: `mem[f]` and `store[f]` are the last write of field `f`
the board and the checkpoint contain. That is what the durability properties tell apart.
`DurableBoard` is the abstract promise: a save replaces the checkpoint by one that is
nowhere older than the last and nowhere newer than the board. The detailed module
implements it under the identity mapping of `mem` and `store` (`Refines`).

### PlanExecution

`runPlanned` and `runStep` as one machine. `MakePlan` picks any plan the planner's
validation lets through (`ValidPlan`: non-empty, closed, acyclic). `WaveStart` computes the
ready steps once; `StepStart` runs them one after the other; an attempt ends in
`RunSuccess`, `RunPaused` or one of the failure branches (`FailCancelled`,
`FailExhausted`, `FailRetry`, `FailReflect`); reflection answers retry, abort or replan. A
proposed plan ends the wave at once and is adopted within its budget (`ReplanAdopt`);
`BuildCarryForward`'s fixpoint is run one deletion at a time (`CarryDelete`, `CarryDone`)
because the code deletes from a map while it ranges over it, in any order.
`PlanCompletionStatus` keeps the code's order of cases. `Cancel` may happen at any moment.
The active model and failed switches are tracked for `ModelDiscipline`.

### Executor

`Run` from the loop boundary to the compaction check. `pc` follows one call through the
code: `boundary`, `start`, `llm`, `reply`, `call`, `hitl`, `exec`, the three result
detectors `fruitless`, `same`, `parse`, then `record` and `after`. Every handler is one or
several actions, one per way out of it. The environment chooses what the model replies
(number of calls, stop reason, printed tool syntax), each call, each result, every answer
of the human, the pause checker and the compaction.

The data kept is what later decisions read: of the trajectory, whether it contains a
successful mutation, the state of the checklist and the number of productive steps; of
the breakers, their counters with the key they belong to and which ones the user disabled;
of the reply's thought, whether it was rendered. A batch is spliced into the reply as
calls marked `batched`, as `processBatchTool` does with its index from 10000 up. The
watchdog's outcomes are single steps here; its inside is the next module. History
variables (`resume`, `llmCalls`, `mutDone`, `runs`, `told`, `denied`) only record what
happened and are read by no guard.

### ToolWatchdog

`executeToolCall`: the detached goroutine with its recover and its send on the channel of
capacity one, the ticker, the ceiling timer, the context and the `select`, every arm of
which rechecks context and channel in separate steps (`CheckCtx`, `DrainCtx`, `DrainTick`,
`DrainTimeout`, `PollPause`). A tool returns whenever it likes, returns when its context
ends, or never returns.

### ToolRegistry, MCPServer, MCPGateway

`ToolRegistry` has registration by source, overrides, and `Execute` from the lookup over
validation, policy and confirmation to the call; a caller keeps the tool it looked up, which
is what may go stale. `MCPServer` adds connections: `Connect` with its race between the
Start goroutine and the bound, reaping, the fallback from streamable HTTP to SSE, discovery,
a call that joins the in-flight group (`CallTool`), releases the lock and starts its
deadline in a later step (`StartDeadline`), and `Close` in its phases detach, drain, close.
A clock (`Tick`) lets no call outlive its deadline and no drain its bound; a call that has
joined may wait up to `MaxLag` ticks for its deadline, and `lag` counts them. `MCPGateway`
adds the map of servers with `Start`, `Reconfigure`, `Stop` and `SetDefaultWorkDir`. They
hold the gateway's lock, so `gw` is one record: the operation, its phase, the names it has
still to look at and what is wanted. Calls and the host's use of the registry interleave
with every step of it. `gw.before` is a history field, what the last operation wanted.

### LLMRouter, ReplyParsing, LLMClients

`LLMRouter`: a `Call` snapshots the active provider and model, keeps the request's own model
when it names one (`BeginCall`), refuses what does not fit the model's window and fills in
the default sampling (`Prepare`), tries, classifies the failure, backs
off and retries, or gives up once text was streamed; `SetModel` may intervene at any
moment. `ReplyParsing` has the parsers of verdicts, decisions and plans as operators on
replies abstracted to lines and JSON objects, and `validatePlanDAG`. Its depth-first search
is an explicit one: a colour for every step and the path of steps being visited, one edge
or return per `SearchStep`, as many steps as any search can take (`Searched`).
`LLMClients` composes both: judges with their cache, the reflector, the complexity router
and the planner, each with its reparse loop.

### ToolResultCache, Compaction, ContextWindow

The cache stores results under abbreviated hashes, sweeps and retires them. A read is the
code's several steps: `Get` under the read lock (`GetFast`), again under the write lock when
the entry has expired (`GetSlow`), the coherence check of a file-backed entry and the read
of the file itself; stores, expiry and edits of the file come in between. `CacheSpec` is the
cache by itself with everything its users may do. `Compaction` has the three strategies as
operators on sequences of steps. `ContextWindow` composes both: a reply is taken
(`TakeReply`) and a step added for each of its calls in turn (`AddStep`) or the rest given
up (`Intercept`), as in the executor's loop, so that other agents use the cache between two
calls of a reply; a lone batch call makes several steps of one reply that carry no group
(group 0); further a resume with a new executor (`SeedSteps`), compaction with its
frozen prefix, and rendering with pruning, eviction, deduplication and wrapping.

### SubAgents and Conductor

`SubAgents` is one batch: semaphore, launch, run, terminal event, result, panics in agents
and in the event sink. A sink that panics while it is told of a panic, inside the deferred
recover (`Recover`), ends the process (`crashed`). `Conductor` adds `Execute` calls whose
status, output and note are computed from how the executor ended and what is still pending,
the blackboards they open, and `Shutdown` from several callers.

### The parts around the loop

`FileTools` is a state machine of sessions that read, write, edit and delete one file
under coherence locks and snapshots, with an outside writer and crashes. The checker
compares signatures, and `SigOf` says which contents share one: modification time and size
tell most contents apart, not all. `Embedder`,
`EmbedBatches` (its pipeline), `ExecutorSetup` (its setters), `WorkBoard` and `FactMemory`
are state machines too. The others are pure algorithms: `Cases` picks an input, the
definition translated from the code computes, and the property compares with a reference
definition. They share no state; `Toolbox` puts them side by side in one run.

## 3. Runs, bounds and what they show

| run | instance | properties (with their parts) |
|---|---|---|
| checkpoint | 2 writers, 2 Shutdown callers, 2 fields, queue of 1, 2 writes | `QueueSafe` (types, no lost wake-up, drained on exit, no channel panic), `Durability` (acknowledged saves, quiescence), `Refines`, `CallersReturn` |
| plan | 5 plans over 3 steps, 1 retry, 2 replans, every configuration | `PlanRespected` (types, dependencies, closedness, maximal carry-forward), `SuccessMeansAllDone`, `ModelDiscipline`, `Terminates` |
| executor_gates | edit, checklist and stop tools, all gates, 2 steps of up to 2 calls, a repeat nudge at 2, fresh and resumed | `FinishGated` (mutation, verification at the finish and at the end of a reply), `ThoughtOnce` (never twice, lost on one path) |
| executor_breakers | all five breakers, 2 steps and one granted, reprieves and denials | `MutationExact`, `LoopBounded` (types, budget, identical runs), `RunStops` (ends, no call after a cancellation) |
| executor_override | the user may always allow: unlimited steps, breakers off | `LoopBounded` |
| executor_deny_doc | as executor_breakers | violation of `DenyStops`, section 6 |
| watchdog | every tool, every configuration | `RightOutcome`, `NobodyHangs` (no leak, dismissal, the wait ends) |
| mcp | 2 servers, 2 connections, 2 default directories, 1 caller, 1 tool name shared with the host, one Reconfigure, one move, one host call, a lag of up to 1 tick | `GatewayConsistent`, `CallersSafe` |
| llm | 2 clients, 2 providers, 1 retry, 1 switch, requests with and without a model of their own, requests that fit and that do not, replies of every shape | `CallsFaithful`, `RequestsFit`, `VerdictsSafe`, `PlansCanFinish` |
| memory | up to 4 steps with the sliding window and summarization, 6 with the hierarchical strategy, replies of one call, of several and of a batch, one reader, hashes of three digits of which most collide in the first | `PromptWellFormed`, `RepliesKept` (group ids name replies, protection covers whole replies, room left), `CacheHonest` |
| agents | 1 run, 2 sub-agents in 1 slot, 2 Shutdown callers, 1 sink panic | `BatchTold`, `RunsReported`, `BatchReturns` |
| toolbox | 2 sessions, 4 versions of which two share a signature, 1 outside write, 1 crash; all small inputs of the pure parts | one property per part: `FilesSafe`, `OutputRecoverable`, `JudgedIsTouched`, `ShellJudged`, `SetupSound`, `EmbedderSound`, `BatchesWhole`, `BoardTold`, `StreamsAssembled`; `IndexingFaithful` (chunks, batches, the pipeline never stuck), `WorkRetold` (facts, summaries, answers), `ExchangeFaithful` (histories, efforts, options, definitions, printed calls, cards) |

Deadlock is checked except in mcp, llm, memory, agents and toolbox, whose hosts may simply
make no further call; a terminal state of the others stutters by an action that is enabled
only where the code has returned.

Why the bounds are enough to meet the interesting cases. Two fields make a torn read
possible, a queue of one with two writes a drop, and two Shutdown callers race through the
`Once`. Three steps admit chains, forks and joins and a replan that keeps a successor but
not its predecessor; two replans let carried work be carried again. Two calls per reply put
a batch, a rejection or an early exit before or after an edit; three steps let a counter
pass its nudge and reach its abort threshold; thresholds are scaled to fit and include
adjacent values, and `0` (disabled) in the gate run. `CountBound` saturates counters at the
largest threshold, past which the code behaves the same; `StepBound` stops further grants.
Two connections let one server be replaced while its predecessor still drains; the
configurations keep, change, drop and fail to connect a server. One cache slot and two
clients with the same key let a judge find, miss and evict a verdict. Four steps exceed the
windows the sliding window and summarization keep; the hierarchical strategy keeps up to
five steps verbatim, so it gets six. Three digits let a prefix that was never handed out
name an entry. The plan replies of the llm run include cycles that lie off the first path
searched. The pure parts enumerate every input up to the bound of their cfg; each
enumeration contains the shapes that the code's branches distinguish.

Symmetry: the default directories in mcp, sessions and executors in toolbox; none of these
runs checks liveness. Every property of a passing run has a mutant of a mapped definition
that violates it; a conjunction has one for each of its parts, the type invariant included
where a plain mistake can break it.

## 4. Fairness

- CheckpointedBlackboard `SchedulerFairness`: goroutines that can run run and timers fire.
  Nothing is assumed of the backend, so `WriteReturns` and `ShutdownReturns` hold with a
  backend that hangs for ever. `BackendAnswers` is only an antecedent of `AcceptedRuns`:
  the worker calls the backend with a deadline and can do no more.
- PlanExecution `FairSpec`: weak fairness of the sequential code. Conductor, reflector and
  planner calls return: each is bounded by the context and the executor's step budget.
  Cancellation is not fair, it may never come.
- Executor `LiveSpec`: weak fairness of `Run`. Model and tool calls return by the context
  or the watchdog. `RunEnds` is checked where grants are bounded; with unlimited steps
  the code does not promise to stop.
- ToolWatchdog `Fairness`: weak for goroutines and clocks, strong for the timeout and
  tick arms, since Go's `select` chooses at random and an arm that is ready again and again
  is taken eventually. The tool itself gets no fairness beyond its behaviour: a stuck one
  never returns.
- Conductor `Spec`: weak fairness of the batch's goroutines. Hosts, cancellation and
  Shutdown get none.

## 5. What is proved

Each `_proofs` module proves an inductive invariant `IInv`, and `Toolbox_proofs` one for
each of the six parts it is about, checked leaf by leaf by TLAPS; a preservation proof has
one step per action. The constants are arbitrary under the named assumptions of the modules:
any number of writers, stoppers, fields, queue capacity and writes; any finite set of steps,
any set of valid plans, all budgets; any tools, thresholds and reply lengths; any sessions,
sub-agents, runs and callers; any servers, configurations, connections, directories and tool
names; any readers, hash lengths and tools of the cache; plans of any size; any number of
chunks, executors, attachments, devices and buckets. Writes, steps and counters stay
bounded, but by any bound. Every candidate invariant was checked by TLC on the run's
instance before it was proved.

| theorem | states |
|---|---|
| `QueueCorrect`, `DurableCorrect`, `Refinement` (CheckpointedBlackboard_proofs) | `QueueSafe`, `Durability`, `Refines` |
| `PlanCorrect`, `SuccessCorrect`, `ModelCorrect` (PlanExecution_proofs) | `PlanRespected`, `SuccessMeansAllDone`, `ModelDiscipline` |
| `MutationCorrect`, `GateCorrect`, `BoundCorrect`, `ThoughtCorrect`, `CancelCorrect` (Executor_proofs) | `MutationExact`, `FinishGated`, `LoopBounded`, `ThoughtOnce`, and the safety half of `RunStops` |
| `OutcomeCorrect`, `FilesCorrect`, `EmbedderCorrect`, `PipelineCorrect`, `SetupCorrect`, `BoardCorrect` (Toolbox_proofs) | `RightOutcome`, `FilesSafe`, `EmbedderSound`, `BatchesWhole`, `SetupSound`, `BoardTold` |
| `CacheIsHonest`, `WindowUsesCache`, `WindowHashesHonest`, `RepliesStayTogether` (ContextWindow_proofs) | `CacheHonest` of `CacheSpec`, `Spec => CacheSpec`, `CacheHonest`, `RepliesKept` |
| `BatchCorrect`, `RunsCorrect` (Conductor_proofs) | `BatchTold`, `RunsReported` |
| `CallersCorrect`, `GatewayCorrect` (MCPGateway_proofs) | `CallersSafe`, `GatewayConsistent` |
| `CallsCorrect`, `FitsCorrect`, `VerdictsCorrect`, `PlansCorrect` (LLMClients_proofs) | `CallsFaithful`, `RequestsFit`, `VerdictsSafe`, `PlansCanFinish` |

The arguments:

- **CheckpointedBlackboard.** `NoLostWakeup` needs that the worker only leaves through the
  closed channel and that `closed` precedes the close (`ShutdownInv`). `AckedDurable` needs
  the order of store, snapshot and board per field (`OrderInv`) and that a field already
  read for the running operation is new enough for it (`AckInv`). `QuiescentDurability`
  needs `CoverInv`: a field on which checkpoint and board differ is always covered by a
  queued operation, by a writer about to enqueue, by a read still to come, or excused by a
  failure or a refusal. `Refinement` maps every step to a `Write`, a `Save` or a stutter,
  again by `OrderInv`.
- **PlanExecution.** The wave is computed once and used while it runs; `WaveInv` says it
  stays ready. `CarryInv` bounds the map being built; closedness is re-established when no
  deletion is enabled. `ResultInv` and `AdoptInv` tie `completed` to the plan on the
  blackboard, which is what makes the count in the status computation mean that all steps
  are done. `ModelInv` adds which model is active at the points `ModelDiscipline` leaves
  open, where the next switch starts from.
- **Executor.** `BudgetInv` relates the step number to the calls made; `MutationInv`
  describes the window in which a mutation is executed but not yet recorded; `RunsInv`
  keeps the repeat counter ahead of the executions it stands for; `ThoughtInv` says that the
  first call in hand finds the thought untold.
- **ToolWatchdog.** `ArmInv`: a result found when an arm is taken is still in the channel
  when the arm drains, and a cancelled context stays cancelled.
- **FileTools.** `FilesSpec` is the behaviour of the file tools alone, the part `files` of
  Toolbox. The mutex has exactly one holder (`LockInv`) and version numbers are never used
  twice (`FreshInv`). `NoLostUpdate` then rests on `SnapInv`, what the checker's table says
  of a session's knowledge: a snapshot with the signature of the present content means an
  up-to-date read when that signature is new, except while a call has changed one of the two
  and not yet the other. `SigOf` is arbitrary; nothing is claimed of a content that shares
  the signature of an earlier one, or of a session that never read the file. `WriteInv` and
  `EditInv` carry the result of the check to the rename; they are what the lock is for.
- **Conductor.** `AgentInv` records what an agent has told at each point of its goroutine; a
  second event is possible only after the sink has panicked, so `ToldAs` counts panics.
  `SlotsRespected` is a statement about the cardinality of the set of running agents.
  `RunInv` says when status, output and error of an `Execute` call may be set, `ShutdownInv`
  that the gateway is down once `shutdownOnce` is done.
- **MCPGateway.** The invariant has four groups: types; the registry (`ToolsInv`: an MCP
  tool, registered or in a caller's hand, calls into a connection that was handed out;
  `RemoteInv`: a call has at most its bound left); connections (`PhaseInv`: which operation
  waits for which procedure on which connection; `StartInv`, `ClientInv`; `DrainInv`: no
  call in flight has more time than the drain, apart from its lag; `OwnerInv`: a transport
  that is up is in the map or in the hands of the operation); and the maps (`LiveInv`,
  `DirInv`, `BeforeInv`, `PickInv`, `DialInv`, `RemoveInv`, `StopInv`, `SourceInv`: what the
  two loops of Reconfigure and the loops of Start and Stop have done so far and have still
  to do). `CloseWaitsForCalls` follows because the drain takes as long as a call may and no
  call joins once the client is detached; a call that had joined and not yet started its
  deadline when the drain began may have that much left, and no more.
- **LLMClients.** `ReqInv` says of a call in the router that another attempt follows only
  when nothing was shown and the budget allows it; so text is shown by the last attempt
  alone, and the pair of the snapshot stays an enabled one whatever SetModel does meanwhile.
  A request that names its own model keeps it, and nothing is claimed about who serves it.
  `Roomy` carries the result of the window check from `Prepare` to every attempt. Of
  `ApplyDefaultSampling` the assumption `SamplingRespectsCaller`, which TLC evaluates, says
  that it overrides nothing the caller set unless the model takes no such parameter. `OpInv`
  follows an operation by the point it has reached: what a judge is about to store or has
  returned was meant by a reply, and `CacheInv` says the same of the cached verdicts. The
  proof is about the paths around the parsers (failed calls, nudged retries, the cache,
  missing callers, cancellation); what the parsers make of a reply is the named assumption
  `VerdictsMeant`: no parser of a verdict reads more into a reply than it means. TLC
  evaluates it on every shape of reply of the run `llm`.
- **validatePlanDAG** (`PlansCorrect`). `PlansCanFinish` says that of whatever steps are
  left, whichever steps of the old plan are completed, one is ready or waits for an
  uncompleted step of the old plan (`StopsOnlyForPrior`). It follows from `CanFinish`: were
  the old plan completed, of whatever steps are left one waits for none that is left.
  Suppose a set `left` violates this for a plan that passed. `SearchOK`, an invariant of the
  search with `left` as its parameter, says that no step of `left` is ever done, that the
  steps the outer loop has passed are done, and that of every visit on the stack the
  dependencies already looked at are done. A plan passes when the outer loop has passed
  every step, so `left` is empty. The induction over the search, and the existence of the
  recursively defined run, are by least counterexample over the natural numbers
  (`Smallest`), which needs no induction principle. A search cut off at `SearchSteps` would
  count as a refusal; that the bound suffices and no good plan is refused is
  `SearchRefusesNoGoodPlan`, which TLC evaluates on all plans of three steps. The assumption
  `PlansDecoded` says what the JSON decoder leaves in a plan: a sequence of steps, each with
  an id, a sequence of dependencies and a set of skills.
- **ToolResultCache and ContextWindow.** `CInv` is about the cache alone: an entry's short
  hash is a prefix of its content's full hash (`CacheOK`); a hash that was handed out is the
  key of its own content or is retired, and was made for one content only (`HandedOK`); and
  a read by such a hash is on its way to that content at each of its steps (`ReaderOK`).
  Every step of the window is a step of `CacheSpec` or leaves the cache alone, so
  `CacheHonest` of the window follows from `WindowUsesCache`. A prefix of a hash that was
  never handed out is outside the property: the model may make one up, it may be issued
  later, and `Get` and the coherence check may then resolve it differently. `RepliesKept`
  rests on `WInv`: group ids in the trajectory are bounded by the executor's counter, which
  `SeedSteps` raises to the largest id it finds (`GroupsOK`), and the steps of a reply in
  progress carry its id and no others do, unless it is a batch, whose steps carry none
  (`ReplyOK`). A read of a file-backed entry returns what the file held at the coherence
  check or, when it changed after that, the later version; `CacheHonest` says so.
- **EmbedBatches.** `PipeInv` bounds how far producer and caller are apart at each pair of
  places they can be at (`Apart`): chunks are inferred in order (`InOrder`), the producer
  sends its verdict before it closes the channel (`ProducerOK`), and only one that reports
  nil has produced everything.
- **ExecutorSetup.** `ConfOK` and `TablesOK`: every table an executor refers to is its own,
  holds the defaults and what was added to it, and the package's table is never written.
  Executors are built without options here; that the last option counts is the separate
  `LastOptionCounts`.
- **WorkBoard.** `AttachOK` ties the sequence of attachments, added to, replaced in place and
  closed up by removals, to the map it stands for; `DumpsOK` the open files to the tracker.
  The listing and the lookup of step results then agree by what they compute (`BoardReaders`).
- **Embedder.** One operation is a composition of fallbacks, so the lemmas follow the code's
  helpers. `Sane` (exactly one option handle when options are held, no call on a thread that
  is gone), `Fits` (the options are those of the provider reported) and `Threaded` hold
  between any two fallbacks; `Made` adds that the count of sessions has grown by the one
  delivered. `Tried` is the invariant of the loop over the devices, `OnDevices`, `Laddered`
  and `OnCPU` say what a stage leaves untried, which is what `LandsWhenItCan` needs: the
  automatic choice gives up only when the CPU fails, and it may do so although another
  OpenVINO device would have worked. Between operations `Owned` adds that sessions counted
  are sessions held and that all of them run on the provider: a fallback changes the
  provider only while none is live.

Attempting `GatewayCorrect` corrected a property. `NoChurn` used to compare a changed entry
with the entry of the connection. That is false when a server is kept although its new
entry names explicitly the directory it runs in, while the default moves: `configChanged`
sees no change, so the connection keeps its old entry, and returning to the inherited
default restarts it later. The property now compares with what the last operation wanted
(`gw.before`), which is what the host sees.

Only model-checked, and why:

- all liveness (`CallersReturn`, `Terminates`, `RunEnds`, `NobodyHangs`, `BatchReturns`):
  the prover does not handle fairness;
- `OutputRecoverable`, `JudgedIsTouched`, `ShellJudged`, `IndexingFaithful`, `WorkRetold`,
  `StreamsAssembled`, `ExchangeFaithful`: what a fold, a filter or a sort of a sequence
  computes for every input needs induction over data, for which the provers cannot
  instantiate the library's theorems (the recursions proved above were defined over
  numbers, where a least counterexample does), and `ToolOutput` and `Paths` declare
  RECURSIVE operators, which the SMT backend does not accept;
- `PromptWellFormed`: it is about the messages the compaction strategies fold a step
  sequence into; what it builds on, `RepliesKept`, is proved.

## 6. Findings

Where the code departs from what its documents say on one path, a property states both: it
holds everywhere else, and on the named path exactly what the code does. These are marked
(exact) below.

`executor_deny_doc` – a denial at a breaker is read as a reprieve when an earlier call of
the same reply was rejected, because both set `circuitBreakerTriggered`; the executor's
document says that Deny means stop.

Four properties are stated in the modules, do not hold of the code and are therefore in no
passing run:

- `FlushedBeforeReturn` (Executor): executor.md:185 says every pending verification is flushed
  before finish or pause returns control. The pause at the step boundary (executor.go:1508)
  returns with one pending when a breaker or a nudge cut the reply of the edit short. A stop
  tool that is not the last call of its reply does the same; `FinishVerified` (exact).
- `CancelledNotMisreported` (PlanExecution): task.go checks the context between waves only.
  The ready steps left in a wave still start after a cancellation and are recorded as failed
  (task.go:339), which the comment at 322-325 says it prevents.
- `VerdictOfKeyedModel` (LLMClients): the judge's cache key is computed before the call
  (judge.go:303-308) and the entry stored after it (524); a model switched in between is
  filed under the old model's key.
- `PlanDependenciesKnown` (LLMClients): truncation to a single step (planner.go:391, 357,
  532) leaves the dependencies of the step that is kept (1002-1013).

Met while modelling, not given a run:

- Executor: a repeated call intercepted as the first call of a batch loses the reply's thought
  (executor_run.go:1957 tests `callIdx == 0`, the batch passes 10000, against the comment at
  1960-1963; `ThoughtNotLost`, exact). A reply without calls ends the run without passing
  the mutation gate. IsToolUntrusted is
  read after execution (executor_run.go:993). stripSingleCodeFence misses multi-line JSON
  that starts on the fence line (executor.go:189-211); a nested function object is flagged
  whatever other keys there are (133-139, against 71-74); of two name keys `tool` wins.
- Plans: step results on the blackboard are not withdrawn after a replan (task.go:520);
  comments at task.go:404 and 474 do not match the partial status and the abort path (553).
  The exploration path accepts plans of no step (planner.go:524). A continuation may depend
  on any step of the old plan, completed or not (planner.go:345-348, 1026), while the error
  text speaks of completed steps; a step that waits for an uncompleted one never becomes
  ready (dag.go:25-30; `PlansCanFinish`, exact). AggregateOutput omits a
  successful intermediate step whose dependent failed when another leaf succeeded;
  BuildPlanExecutionSteps has no caller.
- Blackboard: docs/orchestration.md:846 says Shutdown waits for the worker, while the grace
  timer (persistent_blackboard.go:242) lets it leave earlier. The comment at
  blackboard.go:467-470 is false for output of only blank lines or headings. SearchFacts
  ranks by matching keyword entries (235-245); blank keywords of an array count towards the
  three required (facts.go:130). Two Execute calls in one clock tick share a blackboard id
  (framework.go:502). A negative MaxSteps is documented as an explicit 0
  (framework.go:168-171), which conductor.go:193-195 turns into 80.
- LLM router: a request that names its own model is sent with it to the active provider,
  whether or not that one serves it (router.go:506-508; `ServedByItsProvider`, exact).
- Sub-agents: subagent.go:49 says a panic must not tear down the host; the completion event
  is emitted inside the deferred recover (63), and a sink that panics there does
  (`BatchReturns`, exact).
- MCP: a call that joined the group before `Close` starts its deadline only after the lock is
  released (server.go:1114-1128, 1145-1150), so the drain, which is as long as a call, may
  end that much before it (against the comment at 1265-1271; `CloseWaitsForCalls`, exact).
  A timeout that arrives after Close can mark the closed server unhealthy
  (server.go:1163); Stop leaves MCP tools registered; of two servers that offer one tool name
  the last wins; an override is read (registry.go:284) after the lookup (255), so a tool
  replaced in between runs under the override of its successor; the comment of
  SetDefaultWorkDir (gateway.go:81-85) promises less than the code does.
- Memory: a file that changes between the coherence check and the read of a cached result
  (tool_result_read.go:96 to 138) is read as it is then (`ReadsWhatWasCached`, exact);
  deduplication ignores the cache's TTL; cached hashes do not survive a restart;
  UserNudge is not counted in AddStep's delta (context.go:454).
- Files: a signature is modification time and size (coherence.go:8-13), so a write of the
  same size within the clock's resolution goes unnoticed; a session that never read the file
  may overwrite anything (34; `NoLostUpdate`, exact). delete_directory takes no coherence
  lock; a read that straddles another session's delete leaves its read unregistered; a
  failed content read has already advanced the snapshot (file_read.go:121). The comment at
  file_judge.go:79-89 wants a delete judged by the path of the link, IsWithinRoot resolves
  it: a link outside the roots that leads inside is deleted (`DeletesWhereJudged`, exact).
  `..` behind a missing name or a link is cleaned lexically.
- Shell: criterion C3 leaves relative targets to C9 and C9 leaves system targets to C3
  (shellanalysis.go:680-701, 772-787), so a write to a system path spelled relatively is
  found by neither (`NoOutsideWriteUnnoticed`, exact).
- Output: TruncateUTF8 with one character returns two (truncate.go:23 against 33-34;
  `SummaryTells`, exact); an array keyword that contains a comma is stored as several
  (facts.go:110; `FactsFoundAgain`, exact); the preview at workspace.go:128 cuts
  inside a character; readLineBounded counts the newline; FormatFragmentationNudge says 2000
  lines while tool_result_read caps at 500; readFromFileBacked's hint ignores MaxWindowLines,
  so with a larger num_lines it skips the lines in between (tool_result_read.go:195-211;
  `ReadThroughHints`, exact); mergeFragmentWindow with only num_lines keeps the original
  start line while the read starts at line 1 (executor.go:1249-1253; `CardShowsFragment`,
  exact).
- Embedding: StartLine is one too small when an oversized configuration file starts with an
  empty line (chunker.go:287-295, against 18 and 284-286; `ChunkLinesTrue`, exact); a retry
  after all devices failed skips the first (openvino.go:287-311); the automatic ladder does
  no device retry (embedder.go:574, 945).
- Providers: a refusal that appears only in a done item ends as an empty success and a text
  done twice is doubled (provider_openai_responses.go:680-692, against 613-615;
  `ResponsesComplete`, exact); a function call without id in a done item is dropped; an
  event stream without a media type that starts with a blank line is not filtered; two calls
  of one function in a Gemini answer share an id (provider_google.go:558-562), and ids that
  differ only in rejected characters coincide on the Messages wire
  (provider_anthropic.go:29; `CallsToldApart`, exact); an id minted again for another
  function renames the earlier result on Google's wire (`ResultsMatchCalls`, exact); a
  message of only unknown blocks becomes an empty user turn, on Google's wire too, which is
  said to reject it (provider_google.go:335; `UserHeard`, exact); minimal and low are one
  effort on an endpoint that only streams, and off is low there
  (provider_openai_responses.go:184-186; `TierReachesWire`, exact); some reasoning options
  are offered and never sent.

## 7. Not modelled

`PROJECT.json` gives the reason for each component. In short: the model registry is a
table; schema conversion is a transformation of JSON trees that a small model would leave
without interest; process groups, native inference, shell, search and web tools are I/O
behind an interface; skills and agent definitions are parsed from files and replaced as a
whole; examples and prompts are not logic. Inside the modelled components, message texts,
events, logging and the contents of results are left out, as are the unplanned path in
task.go, configuration setters, and a second board restored over the checkpoint of one
whose worker Shutdown left behind.

## 8. Plan

1. **Compaction**: `PromptWellFormed` for every trajectory. The strategies would have to be
   written as recursive functions over positions, as `validatePlanDAG` is, and the least
   counterexample argument made for each of the three.
2. Two generations of CheckpointedBlackboard over one store: what an abandoned worker may
   do to its successor's checkpoints.
3. **LLMClients**: `VerdictsMeant` as a theorem about the parsers instead of an assumption
   that TLC evaluates.
