------------------------------ MODULE LLMClients ------------------------------
(***************************************************************************)
(* The clients of the LLM router, composed with it: the one-shot call with   *)
(* its parse retries (oneshot/oneshot.go) and the judges, the complexity     *)
(* router, the reflector, the planner and the executor's streaming call on   *)
(* top of it.  Each client is a goroutine; they share the router's active    *)
(* model and the advisory judge's cache.                                     *)
(***************************************************************************)
EXTENDS LLMRouter, ReplyParsing

CONSTANTS
    Ops,            \* the operations each client may run: [Callers -> SUBSET Op]
    Replies,        \* what models answer, by kind of operation
    Skills,         \* the skills the planner is offered
    MaxCacheSize,   \* of the judge's cache
    MaxOps, MaxSwitches   \* bounds on operations per client and on SetModel

(* An operation: its kind and what it depends on.  fast: the judge's tool is *)
(* internal or stays in the session roots; wired: there is a caller; prior:  *)
(* the ids of the plan that is continued; single: one step only; explore:    *)
(* planning starts with an exploration; own: the model a host's own call     *)
(* names, "none" for the clients of the repository.                          *)
Op == [kind : {"stream", "route", "reflect", "plan", "replan", "continue", "judge", "strict", "loop"}, id : STRING, fast : BOOLEAN,
       wired : BOOLEAN, prior : SUBSET STRING, single : BOOLEAN, explore : BOOLEAN, own : Named]

ASSUME ClientConstants ==
    /\ Ops \in [Callers -> SUBSET Op]
    /\ \A c \in Callers : \A o \in Ops[c] : o.kind \in DOMAIN Replies \union {"stream", "replan", "continue"}
    /\ \A c \in Callers : \A o \in Ops[c] : o.own # "none" => o.kind = "stream"
    /\ MaxCacheSize \in Nat \ {0} /\ MaxOps \in Nat /\ MaxSwitches \in Nat

(* No parser of a verdict reads more into a reply than it means: what the    *)
(* parsers make of every shape of reply is what TLC evaluates here.          *)
ASSUME VerdictsMeant ==
    /\ \A r \in Replies["judge"] : ParseJudgeChat(r).ok /\ ParseJudgeChat(r).value = "ALLOW" => r.means = "ALLOW"
    /\ \A r \in Replies["strict"] : ParseStrictJudge(r).ok /\ ParseStrictJudge(r).value = "ALLOW" => r.means = "ALLOW"
    /\ \A r \in Replies["loop"] :
           ParseLoopJudgeChat(r).ok /\ ParseLoopJudgeChat(r).value # "DENY" => r.means = ParseLoopJudgeChat(r).value

(* What the JSON decoder can leave in a plan.                                *)
DecodedStep == [id : STRING, deps : Seq(STRING), skills : SUBSET STRING]
ASSUME PlansDecoded ==
    \A r \in Replies["plan"] : r.content.json.found => r.content.json.steps \in Seq(DecodedStep)

VARIABLES
    op,       \* the operation of each client
    cache,    \* ToolJudge.cache: verdicts by key, "none" for no entry
    done      \* how many operations each client has run, and the switches

clientVars == <<op, cache, done>>
vars == <<routerVars, clientVars>>

NoOp == [kind |-> "none", id |-> "none", fast |-> FALSE, wired |-> TRUE, prior |-> {}, single |-> FALSE, explore |-> FALSE,
         own |-> "none"]
NoKey == [id |-> "none", model |-> "none"]
(* said: what the reply behind the result means, by: the model that gave it. *)
IdleOp == [pc |-> "idle", req |-> NoOp, key |-> NoKey, tries |-> 0, out |-> "none", value |-> "none", said |-> "none", by |-> "none"]
NoVerdict == [verdict |-> "none", said |-> "none", by |-> "none"]
Keys == [id : {o.id : o \in UNION {Ops[c] : c \in Callers}}, model : {p.model : p \in Enabled}]

Init ==
    /\ RouterInit
    /\ op = [c \in Callers |-> IdleOp]
    /\ cache = [k \in Keys |-> NoVerdict]
    /\ done = [ops |-> [c \in Callers |-> 0], switches |-> 0]

TypeOK ==
    /\ active.provider \in Names
    /\ \A c \in Callers :
         /\ req[c].pc \in {"idle", "prepare", "attempt", "waiting", "backoff", "returned"}
         /\ req[c].backoff \in 0 .. MaxBackoff \union {1} /\ req[c].attempt \in Nat
         /\ op[c].pc \in {"idle", "lookup", "explore", "do", "calling", "store", "done"}
         /\ op[c].tries \in 0 .. 3 /\ op[c].out \in {"none", "ok", "err"}
    /\ \A k \in Keys : cache[k].verdict \in {"none", "ALLOW", "CONFIRM", "DENY"}

OpAt(c, pc) == op[c].pc = pc
Kind(c) == op[c].req.kind
Goto(c, pc) == op' = [op EXCEPT ![c].pc = pc]
Ends(c, out, value) == op' = [op EXCEPT ![c].pc = "done", ![c].out = out, ![c].value = value]

-----------------------------------------------------------------------------
(* oneshot.Do                                                                *)

MaxParseRetries == 2

(* Mutant: a failed one-shot call returns the zero value of its result type. *)
FailSafeValueZero(kind) == IF kind \in {"judge", "strict"} THEN "ALLOW" ELSE "DENY"

(* The advisory and the strict judge fail to CONFIRM, the step-limit judge   *)
(* to DENY.                                                                  *)
FailSafeValue(kind) == IF kind \in {"judge", "strict"} THEN "CONFIRM" ELSE "DENY"

IsPlan(kind) == kind \in {"plan", "replan", "continue"}
IsJudge(kind) == kind \in {"judge", "strict", "loop"}

RepliesTo(kind) == IF IsPlan(kind) THEN Replies["plan"] ELSE Replies[kind]

(* What a call without an answer means to its client: the judges decide for  *)
(* safety and cache nothing, the others report an error.                     *)
TransportError(c) ==
    IF IsJudge(Kind(c)) THEN Ends(c, "ok", FailSafeValue(Kind(c))) ELSE Ends(c, "err", "none")

(* The context is looked at before every attempt.                            *)
DoAttempt(c) ==
    /\ OpAt(c, "do")
    /\ IF req[c].cancelled /\ Kind(c) # "stream"
       THEN TransportError(c) /\ UNCHANGED req
       ELSE /\ req' = [req EXCEPT ![c] = BeginCall(c, Kind(c) = "stream", op[c].req.own)]
            /\ Goto(c, "calling")
    /\ UNCHANGED <<active, cache, done>>

ParseReply(c, reply) ==
    CASE Kind(c) = "judge" -> ParseJudgeChat(reply)
      [] Kind(c) = "strict" -> ParseStrictJudge(reply)
      [] Kind(c) = "loop" -> ParseLoopJudgeChat(reply)
      [] Kind(c) = "route" -> ParseRouting(reply)
      [] Kind(c) = "reflect" -> ParseReflection(reply)
      [] OTHER -> ParsePlanReply(reply, IF Kind(c) = "continue" THEN op[c].req.prior ELSE {}, Skills)

(* The next attempt carries one more nudge.                                  *)
Unparsed(c) ==
    IF op[c].tries < MaxParseRetries
    THEN op' = [op EXCEPT ![c].pc = "do", ![c].tries = @ + 1]
    ELSE CASE Kind(c) = "judge" -> op' = [op EXCEPT ![c].pc = "store", ![c].value = FailSafeValue("judge"), ![c].by = req[c].model]
           [] Kind(c) \in {"strict", "loop"} -> Ends(c, "ok", FailSafeValue(Kind(c)))
           [] OTHER -> Ends(c, "err", "none")

(* What the model answered, parsed; a plan of a single-step mode is cut.     *)
Answered(c, reply) ==
    LET p == ParseReply(c, reply)
    IN IF ~p.ok THEN Unparsed(c)
       ELSE op' = [op EXCEPT ![c].pc = IF Kind(c) = "judge" THEN "store" ELSE "done",
                             ![c].out = "ok", ![c].tries = @ + 1, ![c].said = reply.means, ![c].by = req[c].model,
                             ![c].value = IF IsPlan(Kind(c)) THEN TruncateToSingle(p.value, op[c].req.single) ELSE p.value]

CallAnswered(c) ==
    /\ OpAt(c, "calling") /\ At(c, "returned") /\ req[c].out = "ok"
    /\ IF Kind(c) = "stream" THEN Ends(c, "ok", "none") ELSE \E reply \in RepliesTo(Kind(c)) : Answered(c, reply)
    /\ req' = [req EXCEPT ![c] = [IdleReq EXCEPT !.cancelled = req[c].cancelled]]
    /\ UNCHANGED <<active, cache, done>>

CallFailed(c) ==
    /\ OpAt(c, "calling") /\ At(c, "returned") /\ req[c].out # "ok"
    /\ TransportError(c)
    /\ req' = [req EXCEPT ![c] = [IdleReq EXCEPT !.cancelled = req[c].cancelled]]
    /\ UNCHANGED <<active, cache, done>>

-----------------------------------------------------------------------------
(* The clients                                                               *)

(* How an operation starts: where it goes on, or its result.                 *)
GoesTo(pc) == [pc |-> pc, out |-> "none", value |-> "none"]
Settles(value) == [pc |-> "done", out |-> "ok", value |-> value]

(* Internal tools and paths inside the session roots need no model.          *)
Judge(o) == IF o.fast THEN Settles("ALLOW") ELSE GoesTo("lookup")
JudgeStrict(o) == IF o.wired THEN GoesTo("do") ELSE Settles(FailSafeValue("strict"))
JudgeStepLimit(o) == IF o.wired THEN GoesTo("do") ELSE Settles(FailSafeValue("loop"))

(* Plan explores first, unless the task is simple or there is no tool to     *)
(* explore with; Replan and PlanContinuation ask directly.                   *)
Plan(o) == GoesTo(IF o.explore THEN "explore" ELSE "do")
Replan(o) == GoesTo("do")
PlanContinuation(o) == GoesTo("do")

(* Route and Reflect make the one call, and so does the executor's stream.   *)
Route(o) == GoesTo("do")
Reflect(o) == GoesTo("do")
Stream(o) == GoesTo("do")

Entry(o) ==
    CASE o.kind = "judge" -> Judge(o) [] o.kind = "strict" -> JudgeStrict(o) [] o.kind = "loop" -> JudgeStepLimit(o)
      [] o.kind = "plan" -> Plan(o) [] o.kind = "replan" -> Replan(o) [] o.kind = "continue" -> PlanContinuation(o)
      [] o.kind = "route" -> Route(o) [] o.kind = "reflect" -> Reflect(o) [] o.kind = "stream" -> Stream(o)

(* The cache key holds the model that is active now.                         *)
JudgeCacheKey(o) == IF o.kind = "judge" /\ ~o.fast THEN [id |-> o.id, model |-> active.model] ELSE NoKey

Begin(c, o) ==
    /\ OpAt(c, "idle") /\ done.ops[c] < MaxOps
    /\ op' = [op EXCEPT ![c] = [IdleOp EXCEPT !.req = o, !.key = JudgeCacheKey(o), !.pc = Entry(o).pc,
                                              !.out = Entry(o).out, !.value = Entry(o).value]]
    /\ req' = [req EXCEPT ![c] = IdleReq]
    /\ done' = [done EXCEPT !.ops[c] = @ + 1]
    /\ UNCHANGED <<active, cache>>

(* Under the judge's read lock.                                              *)
JudgeLookup(c) ==
    /\ OpAt(c, "lookup")
    /\ LET hit == cache[op[c].key]
       IN op' = IF hit # NoVerdict
                THEN [op EXCEPT ![c].pc = "done", ![c].out = "ok", ![c].value = hit.verdict, ![c].said = hit.said, ![c].by = hit.by]
                ELSE IF ~op[c].req.wired
                THEN [op EXCEPT ![c].pc = "done", ![c].out = "ok", ![c].value = "CONFIRM"]
                ELSE [op EXCEPT ![c].pc = "do"]
    /\ UNCHANGED <<routerVars, cache, done>>

Filled == {k \in Keys : cache[k] # NoVerdict}

(* Mutant: the cache is cleared once it is over its size.                    *)
JudgeStoreLate(c) ==
    /\ OpAt(c, "store")
    /\ LET v == [verdict |-> op[c].value, said |-> op[c].said, by |-> op[c].by]
           kept == IF Cardinality(Filled) > MaxCacheSize THEN [k \in Keys |-> NoVerdict] ELSE cache
       IN cache' = [kept EXCEPT ![op[c].key] = v]
    /\ op' = [op EXCEPT ![c].pc = "done", ![c].out = "ok"]
    /\ UNCHANGED <<routerVars, done>>

(* A full cache is cleared.  The fail-safe verdict of an unparseable answer  *)
(* is stored like any other.                                                 *)
JudgeStore(c) ==
    /\ OpAt(c, "store")
    /\ LET v == [verdict |-> op[c].value, said |-> op[c].said, by |-> op[c].by]
           kept == IF Cardinality(Filled) >= MaxCacheSize THEN [k \in Keys |-> NoVerdict] ELSE cache
       IN cache' = [kept EXCEPT ![op[c].key] = v]
    /\ op' = [op EXCEPT ![c].pc = "done", ![c].out = "ok"]
    /\ UNCHANGED <<routerVars, done>>

(* planWithExploration: the executor's output is parsed, and everything but  *)
(* a cancelled context falls back to direct planning.                        *)
ExploreAnswers(c) ==
    /\ OpAt(c, "explore") /\ ~req[c].cancelled
    /\ \E reply \in Replies["plan"] :
         LET p == ParsePlan(reply.content.json, {}, Skills)
         IN IF p.ok THEN Ends(c, "ok", TruncateToSingle(p.value, op[c].req.single)) ELSE Goto(c, "do")
    /\ UNCHANGED <<routerVars, cache, done>>

ExploreFails(c) ==
    /\ OpAt(c, "explore")
    /\ IF req[c].cancelled THEN Ends(c, "err", "none") ELSE Goto(c, "do")
    /\ UNCHANGED <<routerVars, cache, done>>

(* The client's caller takes the result and may start over.                  *)
Finish(c) ==
    /\ OpAt(c, "done")
    /\ op' = [op EXCEPT ![c] = IdleOp]
    /\ req' = [req EXCEPT ![c] = IdleReq]
    /\ UNCHANGED <<active, cache, done>>

SwitchModel(s) ==
    /\ done.switches < MaxSwitches
    /\ SetModel(s)
    /\ done' = [done EXCEPT !.switches = @ + 1]
    /\ UNCHANGED <<req, op, cache>>

ClientStep(c) ==
    \/ DoAttempt(c) \/ CallAnswered(c) \/ CallFailed(c) \/ JudgeLookup(c) \/ JudgeStore(c)
    \/ ExploreAnswers(c) \/ ExploreFails(c)

Cancel(c) == op[c].pc \in {"explore", "do", "calling"} /\ CancelCall(c) /\ UNCHANGED clientVars

Next ==
    \/ \E s \in Switches : SwitchModel(s)
    \/ \E c \in Callers :
         \/ \E o \in Ops[c] : Begin(c, o)
         \/ ClientStep(c) \/ Finish(c) \/ Cancel(c)
         \/ CallStep(c) /\ UNCHANGED clientVars

Spec == Init /\ [][Next]_vars

-----------------------------------------------------------------------------
(* Properties                                                                *)

(* No judge permits what no model permitted: ALLOW, or a further iteration,   *)
(* is the meaning of a reply that was read in full, given now or when the     *)
(* verdict was cached.  Failed calls, unparseable replies, a missing caller   *)
(* and replies that merely mention the word end in CONFIRM or DENY.           *)
JudgesFailSafe ==
    \A c \in Callers : OpAt(c, "done") /\ IsJudge(Kind(c)) =>
        /\ Kind(c) # "loop" /\ op[c].value = "ALLOW" => op[c].said = "ALLOW" \/ op[c].req.fast
        /\ Kind(c) = "loop" /\ op[c].value # "DENY" => op[c].said = op[c].value

(* The cache never outgrows its limit, with any number of judges storing.     *)
CacheBounded == Cardinality(Filled) <= MaxCacheSize

(* Whatever steps are left, one of them waits for none that is left.          *)
CanFinish(plan, prior) ==
    \A left \in SUBSET Ids(plan) : left # {} =>
        \E i \in DOMAIN plan :
            plan[i].id \in left /\ Range(plan[i].deps) \subseteq (Ids(plan) \ left) \union prior

ReturnedPlan(c) == OpAt(c, "done") /\ IsPlan(Kind(c)) /\ op[c].out = "ok"

(* Whichever steps of the plan it continues are completed, and no others,     *)
(* execution stops early only at a step that waits for one of the others.     *)
StopsOnlyForPrior(plan, prior) ==
    \A completed \in SUBSET prior, left \in SUBSET Ids(plan) : left # {} =>
        \E i \in DOMAIN plan :
            /\ plan[i].id \in left
            /\ \/ Range(plan[i].deps) \subseteq (Ids(plan) \ left) \union completed
               \/ Range(plan[i].deps) \intersect (prior \ completed) # {}

(* A plan in several steps that the planner returns holds no cycle and no     *)
(* dangling dependency: its steps become ready in some order, all but those   *)
(* that wait for an uncompleted step of the plan it continues.  Such a        *)
(* dependency is accepted: validatePlanDAG is given every id of the old plan, *)
(* completed or not, and a step of a finished run that failed never will be.  *)
PlansCanFinish ==
    \A c \in Callers : ReturnedPlan(c) /\ ~op[c].req.single => StopsOnlyForPrior(op[c].value, op[c].req.prior)

(* The comment of validatePlanDAG: every depends_on entry of an accepted plan *)
(* references a step of this plan or of the plan it continues.  The planner   *)
(* returns no other plan, in a single-step mode either.                       *)
PlanDependenciesKnown ==
    \A c \in Callers : ReturnedPlan(c) =>
        \A i \in DOMAIN op[c].value : Range(op[c].value[i].deps) \subseteq Ids(op[c].value) \union op[c].req.prior

(* The comment of judgeCacheKey: a verdict computed on one model is never     *)
(* reused for another.                                                        *)
VerdictOfKeyedModel == \A k \in Filled : cache[k].by = k.model

(* A call through the router is one conversation with one model: its retries *)
(* stay in budget and on the provider of one snapshot, which serves the model *)
(* unless the caller named its own, and nothing is shown twice, whatever      *)
(* SetModel and failing streams do meanwhile.                                *)
CallsFaithful ==
    /\ TypeOK
    /\ OneAttemptShown
    /\ ServedByItsProvider
    /\ AttemptsBounded

(* Verdicts stay safe and the store of them bounded: no failure,             *)
(* cancellation, half-parsed reply or cached entry permits what no model     *)
(* permitted.                                                                *)
VerdictsSafe ==
    /\ JudgesFailSafe
    /\ CacheBounded
=============================================================================
