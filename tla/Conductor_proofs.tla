-------------------------- MODULE Conductor_proofs --------------------------
(***************************************************************************)
(* Proofs about Conductor and SubAgents for every batch of agents, every    *)
(* concurrency limit, and any number of runs and of callers of Shutdown.    *)
(***************************************************************************)
EXTENDS Conductor, FiniteSetTheorems, SequenceTheorems, TLAPS

(* The event e and the error err tell the same story.                        *)
Agree(e, err) == /\ e = "success" <=> err = "none"
                 /\ e = "paused" <=> err = "paused"

(* The events so far end with one that agrees with err, and there is one     *)
(* event unless the event sink has panicked.                                 *)
ToldAs(t, err) ==
    \/ \E e \in Events : t = <<e>> /\ Agree(e, err)
    \/ sinkPanics > 0 /\ \E d, e \in Events : t = <<d, e>> /\ Agree(e, err)

(* What an agent has told, by the point its goroutine has reached.           *)
AgentInv ==
    \A a \in Agents :
        /\ agent[a] \in {"waiting", "acquired", "launched", "ran"} => told[a] = <<>>
        /\ agent[a] \in {"ran", "told"} => outcome[a] \in Outcomes \ {"panicked"}
        /\ agent[a] = "told" => told[a] = <<TerminalEvent(outcome[a])>>
        /\ agent[a] = "panicking" =>
              \/ told[a] = <<>>
              \/ sinkPanics > 0 /\ \E e \in Events : told[a] = <<e>>
        /\ agent[a] = "sent" => channel[a].step = a /\ ToldAs(told[a], channel[a].error)
        /\ agent[a] = "settled" => results[a].step = a /\ ToldAs(told[a], results[a].error)
        /\ batch = "returned" => agent[a] = "settled"

ChannelInv ==
    /\ channel \in [Agents -> [step : Agents \union {"none"}, error : Outcomes \union
                                  {"none", "syntax", "incomplete"}]]
    /\ results \in [Agents -> [step : Agents \union {"none"}, error : Outcomes \union
                                  {"none", "syntax", "incomplete"}]]

(* What a run's record holds at each point of Execute.                       *)
RunInv ==
    \A e \in Runs :
        /\ run[e].pc = "idle" => run[e].board = "none"
        /\ run[e].pc \in {"idle", "start", "running", "ended"} => run[e].status = "none"
        /\ run[e].pc \in {"idle", "start", "running", "ended"} => run[e].output # "error text"
        /\ run[e].status \in {"success", "partial"} => run[e].err = "none"

(* Shutdown: the gateway is down once shutdownOnce is done, and nobody shuts *)
(* down what New has not made.                                               *)
ShutdownInv ==
    /\ fw = "none" => once = "open" /\ \A c \in Callers : caller[c] = "idle"
    /\ once = "done" => gateway # "up"

(* The batch's part of the invariant, and the runs' part.                    *)
BatchInv == AgentsTypeOK /\ ChannelInv /\ AgentInv /\ SlotsRespected
OwnType ==
    /\ run \in [Runs -> Executions]
    /\ owner \in Runs \union {"none"} /\ fw \in {"none", "ready", "failed"}
    /\ gateway \in {"none", "up", "stopped"} /\ once \in {"open", "running", "done"}
    /\ caller \in [Callers -> {"idle", "stopping", "returned"}]
OwnInv == OwnType /\ RunInv /\ ShutdownInv /\ RunsReported

IInv == BatchInv /\ OwnInv

-----------------------------------------------------------------------------
(* The operators                                                             *)

(* The sequences of at most two events.                                      *)
LEMMA EventSequences ==
    /\ \A e \in Events : Append(<<>>, e) = <<e>> /\ Len(<<e>>) = 1 /\ <<e>>[1] = e
    /\ \A d, e \in Events : /\ Append(<<d>>, e) = <<d, e>>
                            /\ Len(<<d, e>>) = 2 /\ <<d, e>>[2] = e
<1>1. ASSUME NEW e \in Events
      PROVE  Append(<<>>, e) = <<e>> /\ Len(<<e>>) = 1 /\ <<e>>[1] = e
  OBVIOUS
<1>2. ASSUME NEW d \in Events, NEW e \in Events
      PROVE  Append(<<d>>, e) = <<d, e>>
  <2>1. /\ Append(<<d>>, e) \in Seq(Events) /\ Len(Append(<<d>>, e)) = 2
        /\ Append(<<d>>, e)[1] = d /\ Append(<<d>>, e)[2] = e
    OBVIOUS
  <2>2. /\ <<d, e>> \in Seq(Events) /\ Len(<<d, e>>) = 2
        /\ <<d, e>>[1] = d /\ <<d, e>>[2] = e
    OBVIOUS
  <2>3. \A i \in 1..2 : Append(<<d>>, e)[i] = <<d, e>>[i]
    BY <2>1, <2>2
  <2> QED
    BY <2>1, <2>2, <2>3, SeqEqual
<1>3. ASSUME NEW d \in Events, NEW e \in Events
      PROVE  Len(<<d, e>>) = 2 /\ <<d, e>>[2] = e
  OBVIOUS
<1> QED
  BY <1>1, <1>2, <1>3

(* The limit is a number of agents.                                          *)
LEMMA LimitType == MaxConcurrency \in Nat /\ Cardinality(Agents) \in Nat
  BY BatchAssumption, FS_CardinalityType DEF MaxConcurrency

(* The terminal event agrees with the error of the result.                   *)
LEMMA EventAgrees ==
    ASSUME NEW o \in Outcomes \ {"panicked"}
    PROVE  /\ TerminalEvent(o) \in Events /\ Agree(TerminalEvent(o), ErrorOf(o))
           /\ ErrorOf(o) \in Outcomes \union {"none", "syntax", "incomplete"}
  BY DEF TerminalEvent, ErrorOf, Agree, Outcomes, Events

(* Fewer agents between Acquire and Collect than before.                     *)
LEMMA HoldingShrinks ==
    ASSUME SlotsRespected, {a \in Agents : agent'[a] \notin {"waiting", "settled"}}
                             \subseteq Holding
    PROVE  SlotsRespected'
<1> DEFINE H == {a \in Agents : agent'[a] \notin {"waiting", "settled"}}
<1>1. IsFiniteSet(Holding) /\ Holding \subseteq Agents
  BY BatchAssumption, FS_Subset DEF Holding
<1>2. /\ IsFiniteSet(H) /\ Cardinality(H) <= Cardinality(Holding)
      /\ Cardinality(H) \in Nat /\ Cardinality(Holding) \in Nat
  BY <1>1, FS_Subset, FS_CardinalityType
<1> QED
  BY <1>2, LimitType DEF SlotsRespected, Holding, MaxConcurrency

-----------------------------------------------------------------------------
(* The batch                                                                 *)

(* A step of one agent: the others keep what they have, and what the agent   *)
(* itself has told fits the point it has reached.                            *)
LEMMA AgentMoves ==
    ASSUME BatchInv, NEW a \in Agents, NEW p, agent' = [agent EXCEPT ![a] = p],
           AgentsTypeOK', ChannelInv', batch' # "returned",
           sinkPanics' >= sinkPanics,
           \A b \in Agents \ {a} : /\ told'[b] = told[b] /\ outcome'[b] = outcome[b]
                                   /\ channel'[b] = channel[b] /\ results'[b] = results[b],
           p \in {"acquired", "launched", "ran"} => told'[a] = <<>>,
           p \in {"ran", "told"} => outcome'[a] \in Outcomes \ {"panicked"},
           p = "told" => told'[a] = <<TerminalEvent(outcome'[a])>>,
           p = "panicking" => \/ told'[a] = <<>>
                              \/ sinkPanics' > 0 /\ \E e \in Events : told'[a] = <<e>>,
           p = "sent" => channel'[a].step = a /\ ToldAs(told[a], channel[a].error)',
           p = "settled" => results'[a].step = a /\ ToldAs(told[a], results[a].error)',
           p # "waiting"
    PROVE  AgentInv'
<1> USE DEF BatchInv
<1>1. agent'[a] = p /\ \A b \in Agents \ {a} : agent'[b] = agent[b]
  BY DEF AgentsTypeOK
<1>2. sinkPanics \in Nat /\ sinkPanics' \in Nat
  BY BatchAssumption DEF AgentsTypeOK
<1>3. sinkPanics > 0 => sinkPanics' > 0
  BY <1>2
<1>4. \A t, err : ToldAs(t, err) => ToldAs(t, err)'
  BY <1>3 DEF ToldAs
<1> QED
  BY <1>1, <1>3, <1>4 DEF AgentInv, ToldAs

(* Acquire is the only step by which more agents hold a slot.                *)
LEMMA AcquireStep ==
    ASSUME BatchInv, NEW a \in Agents, Acquire(a)
    PROVE  BatchInv'
<1> USE DEF BatchInv
<1>1. /\ agent[a] = "waiting" /\ agent' = [agent EXCEPT ![a] = "acquired"]
      /\ UNCHANGED <<batch, outcome, told, channel, results, sinkPanics>>
      /\ batch # "returned" /\ Cardinality(Holding) < MaxConcurrency
  BY DEF Acquire
<1>2. AgentsTypeOK' /\ ChannelInv'
  BY <1>1 DEF AgentsTypeOK, ChannelInv
<1>3. sinkPanics' >= sinkPanics /\ told'[a] = <<>>
  BY <1>1, BatchAssumption DEF AgentInv, AgentsTypeOK
<1>4. AgentInv'
  BY <1>1, <1>2, <1>3, AgentMoves
<1>5. SlotsRespected'
  <2> DEFINE H == {b \in Agents : agent'[b] \notin {"waiting", "settled"}}
  <2>1. IsFiniteSet(Holding)
    BY BatchAssumption, FS_Subset DEF Holding
  <2>2. H = Holding \cup {a} /\ a \notin Holding
    BY <1>1 DEF Holding, AgentsTypeOK
  <2>3. Cardinality(H) = Cardinality(Holding) + 1 /\ Cardinality(Holding) \in Nat
    BY <2>1, <2>2, FS_AddElement, FS_CardinalityType
  <2> QED
    BY <1>1, <2>3, LimitType DEF SlotsRespected, MaxConcurrency
<1> QED
  BY <1>2, <1>4, <1>5

(* A step between Acquire and Collect keeps the slot or gives it back.       *)
LEMMA HoldingStep ==
    ASSUME BatchInv, NEW a \in Agents, agent[a] \notin {"waiting", "settled"}, NEW p,
           agent' = [agent EXCEPT ![a] = p]
    PROVE  SlotsRespected'
<1>1. {b \in Agents : agent'[b] \notin {"waiting", "settled"}} \subseteq Holding
  BY DEF Holding, BatchInv, AgentsTypeOK
<1> QED
  BY <1>1, HoldingShrinks DEF BatchInv

(* The counter of panics grows within its bound.                             *)
LEMMA PanicCount ==
    ASSUME AgentsTypeOK, SinkPanics
    PROVE  /\ sinkPanics' \in 0 .. MaxSinkPanics /\ sinkPanics' >= sinkPanics
           /\ sinkPanics' > 0
  BY BatchAssumption DEF AgentsTypeOK, SinkPanics

(* An agent at work belongs to a batch that has not returned.                *)
LEMMA NotReturned ==
    ASSUME BatchInv, NEW a \in Agents, agent[a] # "settled"
    PROVE  batch # "returned" /\ sinkPanics >= sinkPanics
  BY BatchAssumption DEF BatchInv, AgentInv, AgentsTypeOK

(* The launch event, or a panic of the sink.                                 *)
LEMMA LaunchStep ==
    ASSUME BatchInv, NEW a \in Agents, Launch(a)
    PROVE  BatchInv'
<1> USE DEF BatchInv
<1>1. /\ agent[a] = "acquired" /\ UNCHANGED <<batch, outcome, told, channel, results>>
      /\ told[a] = <<>> /\ batch # "returned"
  BY NotReturned DEF Launch, AgentInv
<1>2. PICK p \in {"launched", "panicking"} : agent' = [agent EXCEPT ![a] = p]
  BY DEF Launch
<1>3. sinkPanics' \in 0 .. MaxSinkPanics /\ sinkPanics' >= sinkPanics
  BY <1>1, NotReturned, PanicCount DEF Launch, AgentsTypeOK
<1>4. AgentsTypeOK' /\ ChannelInv'
  BY <1>1, <1>2, <1>3 DEF AgentsTypeOK, ChannelInv
<1>5. AgentInv'
  BY <1>1, <1>2, <1>3, <1>4, AgentMoves
<1>6. SlotsRespected'
  BY <1>1, <1>2, HoldingStep
<1> QED
  BY <1>4, <1>5, <1>6

(* executor.Run returns or panics.                                           *)
LEMMA RunExecutorStep ==
    ASSUME BatchInv, NEW a \in Agents, RunExecutor(a)
    PROVE  BatchInv'
<1> USE DEF BatchInv
<1>1. /\ agent[a] = "launched" /\ UNCHANGED <<batch, told, channel, results, sinkPanics>>
      /\ told[a] = <<>> /\ batch # "returned" /\ sinkPanics' >= sinkPanics
  BY NotReturned DEF RunExecutor, AgentInv
<1>2. PICK o \in Outcomes : /\ outcome' = [outcome EXCEPT ![a] = o]
                            /\ agent' = [agent EXCEPT ![a] = IF o = "panicked"
                                                              THEN "panicking" ELSE "ran"]
  BY DEF RunExecutor
<1>3. AgentsTypeOK' /\ ChannelInv'
  BY <1>1, <1>2 DEF AgentsTypeOK, ChannelInv
<1>4. outcome'[a] = o /\ \A b \in Agents \ {a} : outcome'[b] = outcome[b]
  BY <1>2 DEF AgentsTypeOK
<1>5. AgentInv'
  <2>1. CASE o = "panicked"
    BY <1>1, <1>2, <1>3, <1>4, <2>1, AgentMoves
  <2>2. CASE o # "panicked"
    BY <1>1, <1>2, <1>3, <1>4, <2>2, AgentMoves
  <2> QED
    BY <2>1, <2>2
<1>6. SlotsRespected'
  <2>1. \E p : agent' = [agent EXCEPT ![a] = p]
    BY <1>2
  <2> QED
    BY <1>1, <2>1, HoldingStep
<1> QED
  BY <1>3, <1>5, <1>6

(* The terminal event; the sink may panic after it has taken it.             *)
LEMMA ReportStep ==
    ASSUME BatchInv, NEW a \in Agents, Report(a)
    PROVE  BatchInv'
<1> USE DEF BatchInv
<1>1. /\ agent[a] = "ran" /\ UNCHANGED <<batch, outcome, channel, results>>
      /\ told[a] = <<>> /\ batch # "returned" /\ outcome[a] \in Outcomes \ {"panicked"}
      /\ told' = [told EXCEPT ![a] = Append(told[a], TerminalEvent(outcome[a]))]
  BY NotReturned DEF Report, AgentInv
<1> DEFINE e == TerminalEvent(outcome[a])
<1>2. e \in Events /\ Append(told[a], e) = <<e>>
  BY <1>1, EventAgrees, EventSequences
<1>3. PICK p \in {"told", "panicking"} : /\ agent' = [agent EXCEPT ![a] = p]
                                         /\ p = "panicking" => SinkPanics
                                         /\ p = "told" => UNCHANGED sinkPanics
  BY DEF Report
<1>4. sinkPanics' \in 0 .. MaxSinkPanics /\ sinkPanics' >= sinkPanics
  BY <1>1, <1>3, NotReturned, PanicCount DEF AgentsTypeOK
<1>5. told'[a] = <<e>> /\ \A b \in Agents \ {a} : told'[b] = told[b]
  BY <1>1, <1>2 DEF AgentsTypeOK
<1>6. AgentsTypeOK' /\ ChannelInv'
  <2>1. told' \in [Agents -> {<<>>} \union {<<x>> : x \in Events} \union (Events \X Events)]
    BY <1>1, <1>2 DEF AgentsTypeOK
  <2> QED
    BY <1>1, <1>3, <1>4, <2>1 DEF AgentsTypeOK, ChannelInv
<1>7. AgentInv'
  BY <1>1, <1>2, <1>3, <1>4, <1>5, <1>6, PanicCount, AgentMoves
<1>8. SlotsRespected'
  BY <1>1, <1>3, HoldingStep
<1> QED
  BY <1>6, <1>7, <1>8

(* The result is sent.                                                       *)
LEMMA SendStep ==
    ASSUME BatchInv, NEW a \in Agents, Send(a)
    PROVE  BatchInv'
<1> USE DEF BatchInv
<1>1. /\ agent[a] = "told" /\ agent' = [agent EXCEPT ![a] = "sent"]
      /\ UNCHANGED <<batch, outcome, told, results, sinkPanics>>
      /\ batch # "returned" /\ sinkPanics' >= sinkPanics
      /\ channel' = [channel EXCEPT ![a] = [step |-> a, error |-> ErrorOf(outcome[a])]]
      /\ outcome[a] \in Outcomes \ {"panicked"}
      /\ told[a] = <<TerminalEvent(outcome[a])>>
  BY NotReturned DEF Send, AgentInv
<1>2. /\ channel'[a].step = a /\ channel'[a].error = ErrorOf(outcome[a])
      /\ \A b \in Agents \ {a} : channel'[b] = channel[b]
  BY <1>1 DEF ChannelInv
<1>3. ToldAs(told[a], channel[a].error)'
  BY <1>1, <1>2, EventAgrees DEF ToldAs
<1>4. AgentsTypeOK' /\ ChannelInv'
  BY <1>1, EventAgrees DEF AgentsTypeOK, ChannelInv
<1>5. AgentInv'
  BY <1>1, <1>2, <1>3, <1>4, AgentMoves
<1>6. SlotsRespected'
  BY <1>1, HoldingStep
<1> QED
  BY <1>4, <1>5, <1>6

(* The deferred recover, which sends a result or brings the process down.    *)
LEMMA RecoverStep ==
    ASSUME BatchInv, NEW a \in Agents, Recover(a)
    PROVE  BatchInv'
<1> USE DEF BatchInv
<1>1. /\ agent[a] = "panicking" /\ UNCHANGED <<outcome, results>> /\ batch # "returned"
      /\ told' = [told EXCEPT ![a] = Append(told[a], "failure")]
  BY NotReturned DEF Recover
<1>2. PICK p \in {"sent", "crashed"} :
        /\ agent' = [agent EXCEPT ![a] = p]
        /\ p = "sent" => /\ channel' = [channel EXCEPT ![a] = [step |-> a, error |-> "panicked"]]
                         /\ UNCHANGED <<batch, sinkPanics>>
        /\ p = "crashed" => SinkPanics /\ batch' = "crashed" /\ UNCHANGED channel
  BY DEF Recover
<1>10. /\ p = "sent" => channel'[a].step = a /\ channel'[a].error = "panicked"
       /\ \A b \in Agents \ {a} : channel'[b] = channel[b]
  BY <1>2 DEF ChannelInv
<1>11. sinkPanics' \in 0 .. MaxSinkPanics /\ sinkPanics' >= sinkPanics
  BY <1>1, <1>2, NotReturned, PanicCount DEF AgentsTypeOK
<1>3. /\ told'[a] = Append(told[a], "failure")
      /\ \A b \in Agents \ {a} : told'[b] = told[b]
  BY <1>1 DEF AgentsTypeOK
<1>4. "failure" \in Events /\ Agree("failure", "panicked")
  BY DEF Events, Agree
<1>5. \/ told'[a] = <<"failure">>
      \/ sinkPanics > 0 /\ \E e \in Events : told'[a] = <<e, "failure">>
  <2>1. \/ told[a] = <<>>
        \/ sinkPanics > 0 /\ \E e \in Events : told[a] = <<e>>
    BY <1>1 DEF AgentInv
  <2>2. CASE told[a] = <<>>
    BY <1>3, <1>4, <2>2, EventSequences
  <2>3. ASSUME NEW e \in Events, sinkPanics > 0, told[a] = <<e>>
        PROVE  sinkPanics > 0 /\ told'[a] = <<e, "failure">>
    BY <1>3, <1>4, <2>3, EventSequences
  <2> QED
    BY <2>1, <2>2, <2>3
<1>6. p = "sent" => ToldAs(told[a], channel[a].error)'
  BY <1>1, <1>2, <1>4, <1>5, <1>10 DEF ToldAs
<1>7. AgentsTypeOK' /\ ChannelInv'
  <2>1. told'[a] \in {<<>>} \union {<<x>> : x \in Events} \union (Events \X Events)
    <3>1. CASE told'[a] = <<"failure">>
      BY <1>4, <3>1
    <3>2. ASSUME NEW e \in Events, told'[a] = <<e, "failure">>
          PROVE  told'[a] \in Events \X Events
      BY <1>4, <3>2
    <3> QED
      BY <1>5, <3>1, <3>2
  <2>2. told' \in [Agents -> {<<>>} \union {<<x>> : x \in Events} \union (Events \X Events)]
    BY <1>1, <1>3, <2>1 DEF AgentsTypeOK
  <2>3. "panicked" \in Outcomes
    BY DEF Outcomes
  <2>4. batch' \in {"none", "running", "returned", "crashed"} /\ batch' # "returned"
    BY <1>1, <1>2 DEF AgentsTypeOK
  <2>5. AgentsTypeOK'
    BY <1>1, <1>2, <1>11, <2>2, <2>4 DEF AgentsTypeOK
  <2>6. ChannelInv'
    BY <1>1, <1>2, <2>3 DEF ChannelInv
  <2> QED
    BY <2>5, <2>6
<1>8. AgentInv'
  <2>1. batch' # "returned"
    BY <1>1, <1>2
  <2> QED
    BY <1>1, <1>2, <1>3, <1>6, <1>7, <1>10, <1>11, <2>1, AgentMoves
<1>9. SlotsRespected'
  BY <1>1, <1>2, HoldingStep
<1> QED
  BY <1>7, <1>8, <1>9

(* The collector fills the agent's slot.                                     *)
LEMMA CollectStep ==
    ASSUME BatchInv, NEW a \in Agents, Collect(a)
    PROVE  BatchInv'
<1> USE DEF BatchInv
<1>1. /\ agent[a] = "sent" /\ agent' = [agent EXCEPT ![a] = "settled"]
      /\ UNCHANGED <<batch, outcome, told, channel, sinkPanics>>
      /\ batch # "returned" /\ sinkPanics' >= sinkPanics
      /\ results' = [results EXCEPT ![a] = channel[a]]
      /\ channel[a].step = a /\ ToldAs(told[a], channel[a].error)
  BY NotReturned DEF Collect, AgentInv
<1>2. results'[a] = channel[a] /\ \A b \in Agents \ {a} : results'[b] = results[b]
  BY <1>1 DEF ChannelInv
<1>3. ToldAs(told[a], results[a].error)'
  BY <1>1, <1>2 DEF ToldAs
<1>4. AgentsTypeOK' /\ ChannelInv'
  BY <1>1 DEF AgentsTypeOK, ChannelInv
<1>5. AgentInv'
  BY <1>1, <1>2, <1>3, <1>4, AgentMoves
<1>6. SlotsRespected'
  BY <1>1, HoldingStep
<1> QED
  BY <1>4, <1>5, <1>6

(* The batch starts or returns; the agents stay where they are.              *)
LEMMA BatchMoves ==
    ASSUME BatchInv, StartBatch \/ ReturnBatch
    PROVE  BatchInv'
<1> USE DEF BatchInv
<1>1. /\ UNCHANGED <<agent, outcome, told, channel, results, sinkPanics>>
      /\ batch' \in {"running", "returned"}
      /\ batch' = "returned" => \A a \in Agents : agent[a] = "settled"
  BY DEF StartBatch, ReturnBatch
<1>2. AgentsTypeOK' /\ ChannelInv'
  BY <1>1 DEF AgentsTypeOK, ChannelInv
<1>3. AgentInv'
  BY <1>1 DEF AgentInv, ToldAs
<1>4. SlotsRespected'
  BY <1>1 DEF SlotsRespected, MaxConcurrency
<1> QED
  BY <1>2, <1>3, <1>4

(* Nothing of the batch changes.                                             *)
LEMMA BatchUnchanged ==
    ASSUME BatchInv, UNCHANGED agentVars
    PROVE  BatchInv'
  BY DEF BatchInv, agentVars, AgentsTypeOK, ChannelInv, AgentInv, ToldAs, SlotsRespected,
         MaxConcurrency

(* Every step of the batch preserves its part of the invariant.              *)
LEMMA BatchStepInv ==
    ASSUME BatchInv, BatchStep
    PROVE  BatchInv'
  BY AcquireStep, LaunchStep, RunExecutorStep, ReportStep, SendStep, RecoverStep,
     CollectStep, BatchMoves DEF BatchStep, AgentStep

-----------------------------------------------------------------------------
(* The runs and Shutdown                                                     *)

(* Agents that are pending later were pending before.                        *)
LEMMA PendingShrinks ==
    ASSUME BatchInv, BatchStep
    PROVE  \A e \in Runs : ListPending(e)' \subseteq ListPending(e)
<1>1. owner' = owner
  BY DEF BatchStep, ownVars
<1>2. batch = "none" => batch' = "none" \/ \A a \in Agents : agent'[a] = "settled"
  BY DEF BatchStep, ReturnBatch, AgentStep, Acquire, Launch, RunExecutor, Report, Send,
         Recover, Collect
<1>3. \A a \in Agents : agent[a] = "settled" => agent'[a] = "settled"
  <2>1. CASE ReturnBatch
    BY <2>1 DEF ReturnBatch
  <2>2. ASSUME NEW b \in Agents, AgentStep(b)
        PROVE  \A a \in Agents : agent[a] = "settled" => agent'[a] = "settled"
    <3>1. agent[b] # "settled"
      BY <2>2 DEF AgentStep, Acquire, Launch, RunExecutor, Report, Send, Recover, Collect
    <3>2. \A a \in Agents \ {b} : agent'[a] = agent[a]
      BY <2>2 DEF BatchInv, AgentsTypeOK, AgentStep, Acquire, Launch, RunExecutor, Report,
                  Send, Recover, Collect
    <3> QED
      BY <3>1, <3>2
  <2> QED
    BY <2>1, <2>2 DEF BatchStep
<1> QED
  BY <1>1, <1>2, <1>3 DEF ListPending

(* A step of the batch leaves the runs alone, and what they have noted       *)
(* stays enough.                                                             *)
LEMMA OwnKept ==
    ASSUME OwnInv, UNCHANGED ownVars,
           \A e \in Runs : ListPending(e)' \subseteq ListPending(e)
    PROVE  OwnInv'
<1>1. UNCHANGED <<run, owner, fw, gateway, once, caller>>
  BY DEF ownVars
<1>2. OwnType' /\ RunInv' /\ ShutdownInv'
  BY <1>1 DEF OwnInv, OwnType, RunInv, ShutdownInv
<1>3. PendingNeverSilent'
  BY <1>1 DEF OwnInv, RunsReported, PendingNeverSilent
<1>4. PauseSurvivesCancel' /\ SeedsAgree' /\ BoardsClosed' /\ ShutdownComplete'
  BY <1>1 DEF OwnInv, RunsReported, PauseSurvivesCancel, SeedsAgree, BoardsClosed,
              ShutdownComplete
<1> QED
  BY <1>2, <1>3, <1>4 DEF OwnInv, RunsReported

(* A step of one run, of which r is the new record.                          *)
LEMMA RunMoves ==
    ASSUME OwnInv, NEW e \in Runs, NEW r \in Executions, run' = [run EXCEPT ![e] = r],
           UNCHANGED <<fw, gateway, once, caller>>, owner' \in Runs \union {"none"},
           \A f \in Runs \ {e} : ListPending(f)' \subseteq ListPending(f),
           r.pc = "idle" => r.board = "none",
           r.pc \in {"idle", "start", "running", "ended"} =>
               r.status = "none" /\ r.output # "error text",
           r.status \in {"success", "partial"} => r.err = "none",
           r.pc = "returned" /\ r.status \in {"success", "partial"} =>
               ListPending(e)' \subseteq r.noted,
           r.err = "paused" /\ r.pc \in {"settled", "returned"} =>
               r.status = "paused" /\ r.output # "error text",
           r.prompt = r.resumed,
           r.pc = "returned" => r.board # "open"
    PROVE  OwnInv'
<1>1. run'[e] = r /\ \A f \in Runs \ {e} : run'[f] = run[f]
  BY DEF OwnInv, OwnType
<1>2. OwnType'
  BY DEF OwnInv, OwnType
<1>3. RunInv'
  <2>1. RunInv
    BY DEF OwnInv
  <2> QED
    <3> SUFFICES ASSUME NEW f \in Runs
                 PROVE  /\ run'[f].pc = "idle" => run'[f].board = "none"
                        /\ run'[f].pc \in {"idle", "start", "running", "ended"} =>
                               run'[f].status = "none" /\ run'[f].output # "error text"
                        /\ run'[f].status \in {"success", "partial"} => run'[f].err = "none"
      BY DEF RunInv
    <3>1. CASE f = e
      BY <1>1, <3>1
    <3>2. CASE f # e
      BY <1>1, <2>1, <3>2 DEF RunInv
    <3> QED
      BY <3>1, <3>2
<1>4. PendingNeverSilent'
  BY <1>1 DEF OwnInv, RunsReported, PendingNeverSilent
<1>5. PauseSurvivesCancel' /\ SeedsAgree' /\ BoardsClosed'
  <2>1. PauseSurvivesCancel /\ SeedsAgree /\ BoardsClosed
    BY DEF OwnInv, RunsReported
  <2>2. PauseSurvivesCancel'
    BY <1>1, <2>1 DEF PauseSurvivesCancel
  <2>3. SeedsAgree' /\ BoardsClosed'
    BY <1>1, <2>1 DEF SeedsAgree, BoardsClosed
  <2> QED
    BY <2>2, <2>3
<1>6. ShutdownInv' /\ ShutdownComplete'
  BY DEF OwnInv, ShutdownInv, RunsReported, ShutdownComplete
<1> QED
  BY <1>2, <1>3, <1>4, <1>5, <1>6 DEF OwnInv, RunsReported

(* What is known of a run's record before its step.                          *)
RecordInv(r) ==
    /\ r \in Executions /\ r.prompt = r.resumed
    /\ r.pc = "idle" => r.board = "none"
    /\ r.pc \in {"idle", "start", "running", "ended"} =>
           r.status = "none" /\ r.output # "error text"
    /\ r.status \in {"success", "partial"} => r.err = "none"
    /\ r.err = "paused" /\ r.pc \in {"settled", "returned"} =>
           r.status = "paused" /\ r.output # "error text"
    /\ r.pc = "returned" => r.board # "open"

LEMMA RecordFacts == ASSUME OwnInv, NEW e \in Runs PROVE RecordInv(run[e])
  BY DEF OwnInv, OwnType, RunInv, RunsReported, PauseSurvivesCancel, SeedsAgree,
         BoardsClosed, RecordInv

(* A step of a run that is not returned with success or a partial result.    *)
LEMMA RecordMoves ==
    ASSUME OwnInv, NEW e \in Runs, NEW r, run' = [run EXCEPT ![e] = r], RecordInv(r),
           UNCHANGED <<agentVars, owner, fw, gateway, once, caller>>,
           r.pc = "returned" /\ r.status \in {"success", "partial"} =>
               ListPending(e) \subseteq r.noted
    PROVE  OwnInv'
<1>1. \A f \in Runs : ListPending(f)' = ListPending(f)
  BY DEF ListPending, agentVars
<1>2. owner' \in Runs \union {"none"} /\ UNCHANGED <<fw, gateway, once, caller>>
  BY DEF OwnInv, OwnType
<1> QED
  BY <1>1, <1>2, RunMoves DEF RecordInv

(* RunBuilder.Ask, refused or begun.                                         *)
LEMMA AskStep ==
    ASSUME OwnInv, NEW e \in Runs, Ask(e)
    PROVE  OwnInv'
<1>1. RecordInv(run[e]) /\ run[e].pc = "idle" /\ run \in [Runs -> Executions]
  BY RecordFacts DEF Ask, OwnInv, OwnType
<1>2. UNCHANGED <<agentVars, owner, fw, gateway, once, caller>>
  BY DEF Ask
<1>3. CASE run' = [run EXCEPT ![e].pc = "returned", ![e].err = "refused"]
  <2> DEFINE r == [run[e] EXCEPT !.pc = "returned", !.err = "refused"]
  <2>1. run' = [run EXCEPT ![e] = r]
    BY <1>1, <1>3
  <2>2. RecordInv(r) /\ r.status = "none"
    BY <1>1 DEF RecordInv, Executions
  <2> QED
    BY <1>2, <2>1, <2>2, RecordMoves
<1>4. CASE run' = [run EXCEPT ![e].pc = "start", ![e].board = "open"]
  <2> DEFINE r == [run[e] EXCEPT !.pc = "start", !.board = "open"]
  <2>1. run' = [run EXCEPT ![e] = r]
    BY <1>1, <1>4
  <2>2. RecordInv(r) /\ r.status = "none"
    BY <1>1 DEF RecordInv, Executions
  <2> QED
    BY <1>2, <2>1, <2>2, RecordMoves
<1> QED
  BY <1>3, <1>4 DEF Ask

(* Conductor.Run up to the executor: seeded on both sides, or refused.       *)
LEMMA PrepareStep ==
    ASSUME OwnInv, NEW e \in Runs, Prepare(e)
    PROVE  OwnInv'
<1>1. RecordInv(run[e]) /\ run[e].pc = "start"
  BY RecordFacts DEF Prepare
<1>2. UNCHANGED <<agentVars, owner, fw, gateway, once, caller>>
  BY DEF Prepare
<1>3. PICK n \in Resumed, seedable \in BOOLEAN :
        run' = [run EXCEPT ![e] =
                   IF n > 0 /\ ~seedable
                   THEN CloseBoard([run[e] EXCEPT !.err = "unseedable"])
                   ELSE [run[e] EXCEPT !.pc = "running", !.prompt = n, !.resumed = n]]
  BY DEF Prepare
<1>4. n \in Nat
  BY ConductorAssumption
<1>5. CASE n > 0 /\ ~seedable
  <2> DEFINE r == [run[e] EXCEPT !.err = "unseedable", !.board = "closed", !.pc = "returned"]
  <2>1. run' = [run EXCEPT ![e] = r]
    BY <1>1, <1>3, <1>5 DEF CloseBoard, RecordInv, Executions
  <2>2. RecordInv(r) /\ r.status = "none"
    BY <1>1 DEF RecordInv, Executions
  <2> QED
    BY <1>2, <2>1, <2>2, RecordMoves
<1>6. CASE ~(n > 0 /\ ~seedable)
  <2> DEFINE r == [run[e] EXCEPT !.pc = "running", !.prompt = n, !.resumed = n]
  <2>1. run' = [run EXCEPT ![e] = r]
    BY <1>3, <1>6
  <2>2. RecordInv(r) /\ r.status = "none"
    BY <1>1, <1>4 DEF RecordInv, Executions
  <2> QED
    BY <1>2, <2>1, <2>2, RecordMoves
<1> QED
  BY <1>5, <1>6

(* The caller's context is cancelled.                                        *)
LEMMA CancelStep ==
    ASSUME OwnInv, NEW e \in Runs, Cancel(e)
    PROVE  OwnInv'
<1> DEFINE r == [run[e] EXCEPT !.cancelled = TRUE]
<1>1. RecordInv(run[e]) /\ run[e].pc \in {"running", "ended"}
  BY RecordFacts DEF Cancel
<1>2. /\ run' = [run EXCEPT ![e] = r]
      /\ UNCHANGED <<agentVars, owner, fw, gateway, once, caller>>
  BY DEF Cancel
<1>3. RecordInv(r) /\ r.pc # "returned"
  BY <1>1 DEF RecordInv, Executions
<1> QED
  BY <1>2, <1>3, RecordMoves

(* A delegation starts the batch under a run that is still running.          *)
LEMMA DelegateStep ==
    ASSUME OwnInv, NEW e \in Runs, Delegate(e)
    PROVE  OwnInv'
<1>1. /\ run[e].pc = "running" /\ owner' = e /\ batch = "none" /\ batch' = "running"
      /\ UNCHANGED <<agent, run, fw, gateway, once, caller>>
  BY DEF Delegate, StartBatch
<1>2. \A f \in Runs \ {e} : ListPending(f)' = {}
  BY <1>1 DEF ListPending
<1>3. OwnType' /\ RunInv' /\ ShutdownInv'
  BY <1>1 DEF OwnInv, OwnType, RunInv, ShutdownInv
<1>4. PendingNeverSilent'
  BY <1>1, <1>2 DEF OwnInv, RunsReported, PendingNeverSilent
<1>5. PauseSurvivesCancel' /\ SeedsAgree' /\ BoardsClosed' /\ ShutdownComplete'
  BY <1>1 DEF OwnInv, RunsReported, PauseSurvivesCancel, SeedsAgree, BoardsClosed,
              ShutdownComplete
<1> QED
  BY <1>3, <1>4, <1>5 DEF OwnInv, RunsReported

(* executor.Run returns, one of six ways.                                    *)
LEMMA EndRunStep ==
    ASSUME OwnInv, NEW e \in Runs, EndRun(e)
    PROVE  OwnInv'
<1>1. RecordInv(run[e]) /\ run[e].pc = "running"
  BY RecordFacts DEF EndRun
<1>2. UNCHANGED <<agentVars, owner, fw, gateway, once, caller>>
  BY DEF EndRun
<1>3. PICK f \in BOOLEAN, err \in {"none", "paused", "failed", "cancelled"},
           o \in {"none", "answer"} : End(e, f, err, o)
  BY DEF EndRun
<1> DEFINE r == [run[e] EXCEPT !.pc = "ended", !.finished = f, !.err = err, !.output = o]
<1>4. run' = [run EXCEPT ![e] = r]
  BY <1>3 DEF End
<1>5. run[e] \in Executions
  BY <1>1 DEF RecordInv
<1>6. /\ r \in Executions /\ r.pc = "ended" /\ r.err = err /\ r.output = o
      /\ r.status = run[e].status /\ r.prompt = run[e].prompt
      /\ r.resumed = run[e].resumed
  BY <1>5 DEF Executions
<1>7. RecordInv(r) /\ r.pc # "returned"
  BY <1>1, <1>6 DEF RecordInv
<1> QED
  BY <1>2, <1>4, <1>7, RecordMoves

(* Status and output: a pause goes first, whatever the context says.         *)
LEMMA SettleStep ==
    ASSUME OwnInv, NEW e \in Runs, Settle(e)
    PROVE  OwnInv'
<1>1. RecordInv(run[e]) /\ run[e].pc = "ended" /\ run \in [Runs -> Executions]
  BY RecordFacts DEF Settle, OwnInv, OwnType
<1>2. UNCHANGED <<agentVars, owner, fw, gateway, once, caller>>
  BY DEF Settle
<1> DEFINE r == [run[e] EXCEPT !.pc = "settled", !.status = Status(run[e]),
                               !.output = OutputOf(run[e])]
<1>3. run' = [run EXCEPT ![e] = r]
  BY <1>1 DEF Settle
<1>4. /\ Status(run[e]) \in Statuses
      /\ Status(run[e]) \in {"success", "partial"} => run[e].err = "none"
      /\ run[e].err = "paused" => Status(run[e]) = "paused"
  BY DEF Status, Statuses
<1>5. /\ OutputOf(run[e]) \in {"none", "answer", "error text"}
      /\ run[e].err = "paused" => OutputOf(run[e]) # "error text"
  BY <1>1, <1>4 DEF OutputOf, RecordInv, Executions
<1>6. RecordInv(r) /\ r.pc # "returned"
  BY <1>1, <1>4, <1>5 DEF RecordInv, Executions
<1> QED
  BY <1>2, <1>3, <1>6, RecordMoves

(* The note on pending delegations is written last, and the board closed.    *)
LEMMA ReturnStep ==
    ASSUME OwnInv, NEW e \in Runs, Return(e)
    PROVE  OwnInv'
<1>1. RecordInv(run[e]) /\ run[e].pc = "settled"
  BY RecordFacts DEF Return
<1>2. UNCHANGED <<agentVars, owner, fw, gateway, once, caller>>
  BY DEF Return
<1> DEFINE r == [run[e] EXCEPT !.noted = Note(e), !.board = "closed", !.pc = "returned"]
<1>3. run' = [run EXCEPT ![e] = r]
  BY <1>1 DEF Return, CloseBoard, RecordInv, Executions
<1>4. Note(e) \in SUBSET Agents
  BY DEF Note, ListPending
<1>5. RecordInv(r)
  BY <1>1, <1>4 DEF RecordInv, Executions
<1>6. r.status \in {"success", "partial"} => r.noted = ListPending(e)
  BY <1>1 DEF RecordInv, Executions, Note
<1> QED
  BY <1>2, <1>3, <1>5, <1>6, RecordMoves

(* New, and the callers of Shutdown.                                         *)
LEMMA FrameworkStep ==
    ASSUME OwnInv, UNCHANGED <<agentVars, run, owner>>,
           \/ New
           \/ \E c \in Callers : BeginShutdown(c) \/ EndShutdown(c)
    PROVE  OwnInv'
<1>1. \A e \in Runs : ListPending(e)' = ListPending(e)
  BY DEF ListPending, agentVars
<1>2. RunInv' /\ PauseSurvivesCancel' /\ SeedsAgree' /\ BoardsClosed'
  BY DEF OwnInv, RunInv, RunsReported, PauseSurvivesCancel, SeedsAgree, BoardsClosed
<1>3. PendingNeverSilent'
  BY <1>1 DEF OwnInv, RunsReported, PendingNeverSilent
<1>4. OwnType' /\ ShutdownInv' /\ ShutdownComplete'
  <2>1. OwnType /\ ShutdownInv /\ ShutdownComplete
    BY DEF OwnInv, RunsReported
  <2>2. CASE New
    BY <2>1, <2>2 DEF New, OwnType, ShutdownInv, ShutdownComplete
  <2>3. ASSUME NEW c \in Callers, BeginShutdown(c)
        PROVE  OwnType' /\ ShutdownInv' /\ ShutdownComplete'
    BY <2>1, <2>3 DEF BeginShutdown, OwnType, ShutdownInv, ShutdownComplete
  <2>4. ASSUME NEW c \in Callers, EndShutdown(c)
        PROVE  OwnType' /\ ShutdownInv' /\ ShutdownComplete'
    BY <2>1, <2>4 DEF EndShutdown, OwnType, ShutdownInv, ShutdownComplete
  <2> QED
    BY <2>2, <2>3, <2>4
<1> QED
  BY <1>2, <1>3, <1>4 DEF OwnInv, RunsReported

-----------------------------------------------------------------------------
(* The initial states satisfy the inductive invariant.                       *)
LEMMA IInvInit == Init => IInv
<1> SUFFICES ASSUME Init PROVE IInv
  OBVIOUS
<1>1. AgentsTypeOK /\ ChannelInv /\ AgentInv
  BY BatchAssumption DEF Init, AgentsInit, AgentsTypeOK, ChannelInv, AgentInv, NoResult
<1>2. SlotsRespected
  <2>1. {a \in Agents : agent[a] \notin {"waiting", "settled"}} = {}
    BY DEF Init, AgentsInit
  <2> QED
    BY <2>1, LimitType, FS_EmptySet DEF SlotsRespected
<1>3. OwnType /\ RunInv /\ ShutdownInv
  BY DEF Init, OwnType, RunInv, ShutdownInv, Idle, Executions
<1>4. RunsReported
  BY DEF Init, Idle, RunsReported, PendingNeverSilent, PauseSurvivesCancel, SeedsAgree,
         BoardsClosed, ShutdownComplete
<1> QED
  BY <1>1, <1>2, <1>3, <1>4 DEF IInv, BatchInv, OwnInv

(* Every step preserves it.                                                  *)
LEMMA IInvStep == IInv /\ [Next]_vars => IInv'
<1> SUFFICES ASSUME IInv, [Next]_vars PROVE IInv'
  OBVIOUS
<1> USE DEF IInv
<1>1. CASE BatchStep
  BY <1>1, BatchStepInv, PendingShrinks, OwnKept DEF BatchStep
<1>2. ASSUME NEW e \in Runs, Delegate(e)
      PROVE  IInv'
  BY <1>2, BatchMoves, DelegateStep DEF Delegate
<1>3. ASSUME NEW e \in Runs,
             \/ Ask(e) \/ Prepare(e) \/ Cancel(e) \/ EndRun(e) \/ Settle(e) \/ Return(e)
      PROVE  IInv'
  <2>1. UNCHANGED agentVars
    BY <1>3 DEF Ask, Prepare, Cancel, EndRun, Settle, Return
  <2> QED
    BY <1>3, <2>1, BatchUnchanged, AskStep, PrepareStep, CancelStep, EndRunStep, SettleStep,
       ReturnStep
<1>4. CASE New \/ \E c \in Callers : BeginShutdown(c) \/ EndShutdown(c)
  <2>1. UNCHANGED <<agentVars, run, owner>>
    BY <1>4 DEF New, BeginShutdown, EndShutdown
  <2> QED
    BY <1>4, <2>1, BatchUnchanged, FrameworkStep
<1>5. CASE UNCHANGED vars
  <2>1. UNCHANGED ownVars /\ \A e \in Runs : ListPending(e)' = ListPending(e)
    BY <1>5 DEF vars, agentVars, ownVars, ListPending
  <2> QED
    BY <1>5, <2>1, BatchUnchanged, OwnKept DEF vars
<1> QED
  BY <1>1, <1>2, <1>3, <1>4, <1>5 DEF Next

(* IInv is an inductive invariant of the specification.                      *)
THEOREM Invariance == Spec => []IInv
  BY IInvInit, IInvStep, PTL DEF Spec

(* For any number of agents and any limit: never more than the limit at      *)
(* once, every result in its own slot when the batch returns, and the last   *)
(* terminal event of each agent in agreement with its result, whatever       *)
(* panics, as long as the process lives (RunSubAgentsParallel, RunSubAgent). *)
THEOREM BatchCorrect == Spec => []BatchTold
<1>1. IInv => TypeOK /\ SlotsRespected
  BY DEF IInv, BatchInv, OwnInv, OwnType, TypeOK
<1>2. IInv => ResultsInPlace
  BY DEF IInv, BatchInv, AgentInv, ResultsInPlace
<1>3. IInv => ToldTruthfully
  <2> SUFFICES ASSUME IInv, NEW a \in Agents, agent[a] = "settled"
               PROVE  /\ Len(told[a]) >= 1
                      /\ sinkPanics = 0 => Len(told[a]) = 1
                      /\ Agree(told[a][Len(told[a])], results[a].error)
    BY DEF ToldTruthfully, Agree
  <2>1. ToldAs(told[a], results[a].error)
    BY DEF IInv, BatchInv, AgentInv
  <2>2. ASSUME NEW e \in Events, told[a] = <<e>>, Agree(e, results[a].error)
        PROVE  /\ Len(told[a]) = 1 /\ Agree(told[a][Len(told[a])], results[a].error)
    BY <2>2, EventSequences
  <2>3. ASSUME NEW d \in Events, NEW e \in Events, told[a] = <<d, e>>,
               Agree(e, results[a].error)
        PROVE  /\ Len(told[a]) = 2 /\ Agree(told[a][Len(told[a])], results[a].error)
    BY <2>3, EventSequences
  <2>4. sinkPanics > 0 => sinkPanics # 0
    OBVIOUS
  <2> QED
    BY <2>1, <2>2, <2>3, <2>4 DEF ToldAs
<1>4. IInv => BatchTold
  BY <1>1, <1>2, <1>3 DEF BatchTold
<1> QED
  BY Invariance, <1>4, PTL

(* For any number of runs and callers: a returned success or partial result  *)
(* names all pending delegations, a pause survives a late cancellation,      *)
(* prompt and executor resume from the same steps, and no board or gateway   *)
(* outlives the call that closes it (Conductor.Run, Execute, Shutdown).      *)
THEOREM RunsCorrect == Spec => []RunsReported
<1>1. IInv => RunsReported
  BY DEF IInv, OwnInv
<1> QED
  BY Invariance, <1>1, PTL
=============================================================================
