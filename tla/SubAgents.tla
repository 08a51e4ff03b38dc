---------------------------- MODULE SubAgents ----------------------------
(***************************************************************************)
(* Sub-agents (agent/subagent.go): a batch of agents runs in goroutines,   *)
(* at most MaxParallel of them at a time.  Each one emits a launch event,  *)
(* runs its executor, emits one terminal event and sends one result on its *)
(* channel; the collector puts the result in the agent's own slot.  A      *)
(* panic, of the executor or of the event sink, is recovered and reported  *)
(* as a failure; a panic of the sink while it is told of that failure is   *)
(* not recovered and ends the process.                                     *)
(***************************************************************************)
EXTENDS Naturals, Sequences, FiniteSets

CONSTANTS Agents,        \* positions of the batch
          MaxParallel,   \* WithMaxParallelSubagents; 0 = no limit
          MaxSinkPanics  \* bound: how often the event sink panics

ASSUME BatchAssumption == /\ IsFiniteSet(Agents) /\ Agents # {}
                          /\ MaxParallel \in Nat /\ MaxSinkPanics \in Nat

VARIABLES batch,      \* "none", "running", "returned"; "crashed": the process is gone
          agent,      \* phase of each agent's goroutine
          outcome,    \* what executor.Run returned
          told,       \* terminal events emitted, per agent
          channel,    \* the result channel of RunSubAgent
          results,    \* the collector's slots
          sinkPanics

agentVars == <<batch, agent, outcome, told, channel, results, sinkPanics>>

\* What executor.Run can end with; "leaked" is a finished run whose output
\* holds tool-call syntax as text.
Outcomes == {"finished", "leaked", "partial", "failed", "paused", "panicked"}
NoResult == [step |-> "none", error |-> "none"]
Events   == {"success", "failure", "paused"}

AgentsInit ==
    /\ batch = "none"
    /\ agent = [a \in Agents |-> "waiting"]
    /\ outcome = [a \in Agents |-> "none"]
    /\ told = [a \in Agents |-> <<>>]
    /\ channel = [a \in Agents |-> NoResult]
    /\ results = [a \in Agents |-> NoResult]
    /\ sinkPanics = 0

-----------------------------------------------------------------------------
(* RunSubAgentsParallel *)

StartBatch ==
    /\ batch = "none" /\ batch' = "running"
    /\ UNCHANGED <<agent, outcome, told, channel, results, sinkPanics>>

\* A limit that is not positive, or above the batch, is the batch itself.
MaxConcurrency == IF MaxParallel = 0 \/ MaxParallel > Cardinality(Agents)
                  THEN Cardinality(Agents) ELSE MaxParallel
\* Agents that hold a slot of the semaphore.
Holding == {a \in Agents : agent[a] \notin {"waiting", "settled"}}

\* Mutant: the limit counts the agents that still execute.
AcquireByExecuting(a) ==
    /\ batch = "running" /\ agent[a] = "waiting"
    /\ Cardinality({b \in Agents : agent[b] = "launched"}) < MaxConcurrency
    /\ agent' = [agent EXCEPT ![a] = "acquired"]
    /\ UNCHANGED <<batch, outcome, told, channel, results, sinkPanics>>

Acquire(a) ==
    /\ batch = "running" /\ agent[a] = "waiting"
    /\ Cardinality(Holding) < MaxConcurrency
    /\ agent' = [agent EXCEPT ![a] = "acquired"]
    /\ UNCHANGED <<batch, outcome, told, channel, results, sinkPanics>>

\* The collector goroutine receives, fills its slot and releases the
\* semaphore.
Collect(a) ==
    /\ agent[a] = "sent"
    /\ results' = [results EXCEPT ![a] = channel[a]]
    /\ agent' = [agent EXCEPT ![a] = "settled"]
    /\ UNCHANGED <<batch, outcome, told, channel, sinkPanics>>

ReturnBatch ==
    /\ batch = "running" /\ \A a \in Agents : agent[a] = "settled"
    /\ batch' = "returned"
    /\ UNCHANGED <<agent, outcome, told, channel, results, sinkPanics>>

-----------------------------------------------------------------------------
(* RunSubAgent *)

SinkPanics == /\ sinkPanics < MaxSinkPanics
              /\ sinkPanics' = sinkPanics + 1

\* Mutant: the launch event is emitted before the recover is set up.
LaunchUnprotected(a) ==
    /\ agent[a] = "acquired"
    /\ \/ UNCHANGED <<sinkPanics, batch>> /\ agent' = [agent EXCEPT ![a] = "launched"]
       \/ SinkPanics /\ batch' = "crashed" /\ agent' = [agent EXCEPT ![a] = "crashed"]
    /\ UNCHANGED <<outcome, told, channel, results>>
Launch(a) ==
    /\ agent[a] = "acquired"
    /\ \/ UNCHANGED sinkPanics /\ agent' = [agent EXCEPT ![a] = "launched"]
       \/ SinkPanics           /\ agent' = [agent EXCEPT ![a] = "panicking"]
    /\ UNCHANGED <<batch, outcome, told, channel, results>>

\* executor.Run: its answer is any outcome; a panic unwinds to the recover.
RunExecutor(a) ==
    /\ agent[a] = "launched"
    /\ \E o \in Outcomes :
         /\ outcome' = [outcome EXCEPT ![a] = o]
         /\ agent' = [agent EXCEPT ![a] = IF o = "panicked" THEN "panicking" ELSE "ran"]
    /\ UNCHANGED <<batch, told, channel, results, sinkPanics>>

\* Mutant: tool-call syntax printed as text passes for an answer.
ErrorOfIgnoringSyntax(o) == IF o \in {"finished", "leaked"} THEN "none"
                            ELSE IF o = "partial" THEN "incomplete" ELSE o
\* err after the run: tool-call syntax in a finished answer becomes an error.
ErrorOf(o) == CASE o = "finished" -> "none" [] o = "leaked" -> "syntax"
                [] o = "partial" -> "incomplete" [] OTHER -> o

\* SubAgentPaused for a pause, SubAgentComplete(success) otherwise.
TerminalEvent(o) == IF o = "paused" THEN "paused"
                    ELSE IF o = "finished" THEN "success" ELSE "failure"

Report(a) ==
    /\ agent[a] = "ran"
    /\ told' = [told EXCEPT ![a] = Append(@, TerminalEvent(outcome[a]))]
    /\ \/ UNCHANGED sinkPanics /\ agent' = [agent EXCEPT ![a] = "told"]
       \/ SinkPanics           /\ agent' = [agent EXCEPT ![a] = "panicking"]
    /\ UNCHANGED <<batch, outcome, channel, results>>

\* Mutant: the goroutines share the loop variable.
SendCaptured(a) ==
    /\ agent[a] = "told"
    /\ channel' = [channel EXCEPT ![a] = [step |-> CHOOSE b \in Agents : TRUE,
                                          error |-> ErrorOf(outcome[a])]]
    /\ agent' = [agent EXCEPT ![a] = "sent"]
    /\ UNCHANGED <<batch, outcome, told, results, sinkPanics>>
Send(a) ==
    /\ agent[a] = "told"
    /\ channel' = [channel EXCEPT ![a] = [step |-> a, error |-> ErrorOf(outcome[a])]]
    /\ agent' = [agent EXCEPT ![a] = "sent"]
    /\ UNCHANGED <<batch, outcome, told, results, sinkPanics>>

\* The deferred recover: a failure event and an error result.
\* Mutant: the recover neither sends nor closes, the goroutine just ends.
RecoverWithoutAnswer(a) == FALSE /\ agent[a] = "panicking" /\ UNCHANGED agentVars
\* The sink may panic on that event, outside of any recover.
Recover(a) ==
    /\ agent[a] = "panicking"
    /\ told' = [told EXCEPT ![a] = Append(@, "failure")]
    /\ \/ /\ channel' = [channel EXCEPT ![a] = [step |-> a, error |-> "panicked"]]
          /\ agent' = [agent EXCEPT ![a] = "sent"]
          /\ UNCHANGED <<batch, sinkPanics>>
       \/ /\ SinkPanics
          /\ agent' = [agent EXCEPT ![a] = "crashed"]
          /\ batch' = "crashed"
          /\ UNCHANGED channel
    /\ UNCHANGED <<outcome, results>>

AgentStep(a) == /\ batch = "running"
                /\ \/ Acquire(a) \/ Launch(a) \/ RunExecutor(a) \/ Report(a)
                   \/ Send(a) \/ Recover(a) \/ Collect(a)

-----------------------------------------------------------------------------
AgentsTypeOK ==
    /\ batch \in {"none", "running", "returned", "crashed"}
    /\ agent \in [Agents -> {"waiting", "acquired", "launched", "ran", "told",
                             "panicking", "crashed", "sent", "settled"}]
    /\ outcome \in [Agents -> Outcomes \union {"none"}]
    /\ told \in [Agents -> {<<>>} \union {<<e>> : e \in Events} \union (Events \X Events)]
    /\ sinkPanics \in 0 .. MaxSinkPanics

(***************************************************************************)
(* The semaphore is released only when an agent's result is in its slot:   *)
(* never more than MaxConcurrency agents are between the two.              *)
(***************************************************************************)
SlotsRespected == Cardinality({a \in Agents : agent[a] \notin {"waiting", "settled"}})
                    <= MaxConcurrency

(***************************************************************************)
(* When the batch returns, every position holds the result of its own      *)
(* agent, whatever order the agents ended in (results[i] in                *)
(* RunSubAgentsParallel), also after a panic.                              *)
(***************************************************************************)
ResultsInPlace == batch = "returned" => \A a \in Agents : results[a].step = a

(***************************************************************************)
(* The last terminal event of a settled agent tells the same story as its  *)
(* result: success exactly with no error, paused exactly with ErrPaused;   *)
(* and there is one terminal event unless the event sink itself panicked.  *)
(***************************************************************************)
ToldTruthfully ==
    \A a \in Agents : agent[a] = "settled" =>
        LET last == told[a][Len(told[a])] IN
          /\ Len(told[a]) >= 1
          /\ sinkPanics = 0 => Len(told[a]) = 1
          /\ last = "success" <=> results[a].error = "none"
          /\ last = "paused" <=> results[a].error = "paused"

\* A panic of the sink ended the process: it struck while the sink was told
\* of an earlier panic, of the executor or of the sink itself.
SecondPanic == \E a \in Agents : /\ agent[a] = "crashed" /\ sinkPanics > 0
                                 /\ outcome[a] = "panicked" \/ sinkPanics > 1

(***************************************************************************)
(* Once started, a batch returns: no panic keeps a slot of the semaphore.  *)
(* The one exception, against the comment at subagent.go:49 that no panic  *)
(* takes the host down, is a second panic inside the recover               *)
(* (subagent.go:63), and nothing short of it.                              *)
(***************************************************************************)
BatchReturns == batch = "running" ~> (batch = "returned" \/ (batch = "crashed" /\ SecondPanic))
=============================================================================
