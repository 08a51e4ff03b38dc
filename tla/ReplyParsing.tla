----------------------------- MODULE ReplyParsing -----------------------------
(***************************************************************************)
(* What the one-shot clients make of a model's reply: oneshot/parse.go and   *)
(* the parsers of the judges, the complexity router, the reflector and the   *)
(* planner.  A text is the JSON object that ExtractJSON finds in it and its  *)
(* lines, each with the key it starts with ("other": none), the upper-cased  *)
(* words of its value, whether a reason follows on the same line, and        *)
(* whether it is spelled without any decoration.                             *)
(***************************************************************************)
EXTENDS Naturals, Sequences, SequencesExt

NoJSON == [found |-> FALSE]
Line(key, words, inline, exact) == [key |-> key, words |-> words, inline |-> inline, exact |-> exact]
Prose == Line("other", <<>>, FALSE, FALSE)
Blank == [json |-> NoJSON, lines |-> <<>>]
Failed == [ok |-> FALSE]
Parsed(v) == [ok |-> TRUE, value |-> v]

(* A reply: content, reasoning content and extended reasoning, those that    *)
(* are not empty.                                                            *)
CandidateTexts(reply) ==
    LET texts == <<reply.content, reply.thinking, reply.reasoning>>
    IN  [i \in {i \in 1 .. 3 : texts[i] # Blank} |-> texts[i]]

ParseKeyLines(text) == SelectSeq(text.lines, LAMBDA l : l.key # "other")

(* Of what a parser makes of the candidates, the first it accepts.           *)
FirstParsed(parses) ==
    LET good == {i \in DOMAIN parses : parses[i].ok}
    IN  IF good = {} THEN Failed ELSE parses[Min(good)]

-----------------------------------------------------------------------------
(* The advisory judge                                                        *)

JudgeAllowTokens == {"ALLOW", "ALLOWED", "APPROVE", "APPROVED", "SAFE"}
JudgeConfirmTokens == {"CONFIRM", "CONFIRMED", "MANUAL"}
JudgeDenyTokens == {"DENY", "DENIED", "BLOCK", "BLOCKED", "REJECT", "DISALLOW", "DISAPPROVE"}

(* Mutant: any word of the value may carry the verdict.                      *)
MatchVerdictAnyWord(words) ==
    IF \E i \in DOMAIN words : words[i] \in JudgeAllowTokens THEN "ALLOW"
    ELSE IF words # <<>> /\ Head(words) \in JudgeDenyTokens THEN "DENY" ELSE "none"

(* The first word decides, or nothing does.                                  *)
MatchVerdict(words) ==
    IF words = <<>> THEN "none"
    ELSE IF Head(words) \in JudgeAllowTokens THEN "ALLOW"
    ELSE IF Head(words) \in JudgeDenyTokens THEN "DENY"
    ELSE IF Head(words) \in JudgeConfirmTokens THEN "CONFIRM"
    ELSE "none"

ParseJudgeJSON(json) ==
    IF ~json.found \/ (json.verdict = <<>> /\ ~json.reason) THEN Failed
    ELSE Parsed(IF MatchVerdict(json.verdict) = "none" THEN "CONFIRM" ELSE MatchVerdict(json.verdict))

(* Key lines: the last recognised verdict wins, and a reason alone is read   *)
(* as CONFIRM.                                                               *)
ParseJudgeText(text) ==
    IF ParseJudgeJSON(text.json).ok THEN ParseJudgeJSON(text.json)
    ELSE LET kvs == ParseKeyLines(text)
             verdicts == SelectSeq(kvs, LAMBDA l : l.key = "verdict" /\ MatchVerdict(l.words) # "none")
             reasons == SelectSeq(kvs, LAMBDA l : (l.key = "verdict" /\ l.inline) \/ (l.key = "reason" /\ l.words # <<>>))
         IN IF verdicts # <<>> THEN Parsed(MatchVerdict(Last(verdicts).words))
            ELSE IF reasons # <<>> THEN Parsed("CONFIRM") ELSE Failed

ParseJudgeChat(reply) ==
    LET ts == CandidateTexts(reply) IN FirstParsed([i \in DOMAIN ts |-> ParseJudgeText(ts[i])])

(* The strict judge reads the content only, two undecorated lines of it.     *)
ParseStrictJudge(reply) ==
    LET ls == reply.content.lines
    IN IF /\ Len(ls) = 2 /\ ls[1].key = "verdict" /\ ls[2].key = "reason" /\ ls[1].exact /\ ls[2].exact
          /\ Len(ls[1].words) = 1 /\ ls[2].words # <<>>
          /\ Head(ls[1].words) \in {"ALLOW", "DENY", "CONFIRM"}
       THEN Parsed(Head(ls[1].words)) ELSE Failed

-----------------------------------------------------------------------------
(* The step-limit judge                                                      *)

MatchLoopVerdict(words) ==
    CASE Len(words) = 1 /\ Head(words) \in {"DENY", "STOP", "HALT", "ABORT"} -> "DENY"
      [] Len(words) = 1 /\ Head(words) = "ALLOW" -> "ONCE"
      [] Len(words) = 2 /\ Head(words) = "ALLOW" /\ words[2] \in {"ALWAYS", "UNLIMITED", "INFINITE", "FOREVER"} -> "ALWAYS"
      [] Len(words) = 2 /\ Head(words) = "ALLOW" /\ words[2] \in {"MORE", "BATCH", "BUDGET", "FULL"} -> "MORE"
      [] Len(words) = 2 /\ Head(words) = "ALLOW" /\ words[2] \in {"ONCE", "ONE", "SINGLE"} -> "ONCE"
      [] OTHER -> "none"

AllWords(text) == FlattenSeq([i \in DOMAIN text.lines |-> text.lines[i].words])

ParseLoopVerdictJSON(json) ==
    IF json.found /\ MatchLoopVerdict(json.verdict) # "none" THEN Parsed(MatchLoopVerdict(json.verdict)) ELSE Failed

(* A text that is nothing but a verdict counts too.                          *)
ParseLoopVerdictText(text) ==
    IF ParseLoopVerdictJSON(text.json).ok THEN ParseLoopVerdictJSON(text.json)
    ELSE LET verdicts == SelectSeq(ParseKeyLines(text), LAMBDA l : l.key = "verdict" /\ MatchLoopVerdict(l.words) # "none")
         IN IF verdicts # <<>> THEN Parsed(MatchLoopVerdict(Last(verdicts).words))
            ELSE IF ParseKeyLines(text) = <<>> /\ MatchLoopVerdict(AllWords(text)) # "none"
            THEN Parsed(MatchLoopVerdict(AllWords(text))) ELSE Failed

ParseLoopJudgeChat(reply) ==
    LET ts == CandidateTexts(reply) IN FirstParsed([i \in DOMAIN ts |-> ParseLoopVerdictText(ts[i])])

-----------------------------------------------------------------------------
(* Routing decisions and reflections                                         *)

ValidateRoutingDecision(json) ==
    [domain |-> IF json.domain \in {"code", "research", "general", "mixed"} THEN json.domain ELSE "general",
     complexity |-> IF json.complexity < 1 THEN 1 ELSE IF json.complexity > 5 THEN 5 ELSE json.complexity]

ParseRouting(reply) ==
    LET ts == CandidateTexts(reply)
    IN  FirstParsed([i \in DOMAIN ts |->
            IF ts[i].json.found THEN Parsed(ValidateRoutingDecision(ts[i].json)) ELSE Failed])

ParseReflection(reply) ==
    IF reply.content.json.found
    THEN Parsed(IF reply.content.json.action \in {"retry", "replan", "abort"} THEN reply.content.json.action ELSE "retry")
    ELSE Failed

-----------------------------------------------------------------------------
(* Plans: sequences of steps [id, deps, skills]                              *)

Ids(plan) == {plan[i].id : i \in DOMAIN plan}
StepOf(plan, id) == plan[CHOOSE i \in DOMAIN plan : plan[i].id = id]

(* The depth-first search of validatePlanDAG, call by call: the step of the  *)
(* plan its loop has come to, the colours, and the stack of visits, each     *)
(* with the dependency it has come to.                                       *)
FreshSearch(plan) ==
    [at |-> 1, color |-> [id \in Ids(plan) |-> "white"], stack |-> <<>>, ok |-> TRUE]

(* Mutant: a step that is in progress counts as done.                        *)
VisitGrayDone(search, id, onward) ==
    IF search.color[id] # "white" THEN onward
    ELSE [search EXCEPT !.color[id] = "gray", !.stack = Append(@, [id |-> id, next |-> 1])]

(* visit(id): an error, a return to a caller that goes on, or a new frame.   *)
Visit(search, id, onward) ==
    IF search.color[id] = "gray" THEN [search EXCEPT !.ok = FALSE]
    ELSE IF search.color[id] = "black" THEN onward
    ELSE [search EXCEPT !.color[id] = "gray", !.stack = Append(@, [id |-> id, next |-> 1])]

(* The visit on top of the stack: its next dependency, or its return.        *)
InVisit(plan, search, depth) ==
    LET top == search.stack[depth]
        deps == StepOf(plan, top.id).deps
        onward == [search EXCEPT !.stack[depth].next = @ + 1]
    IN  IF top.next > Len(deps)
        THEN [search EXCEPT !.color[top.id] = "black", !.stack = SubSeq(@, 1, depth - 1)]
        ELSE IF deps[top.next] \notin Ids(plan) THEN onward
        ELSE Visit(search, deps[top.next], onward)

SearchStep(plan, search) ==
    IF ~search.ok THEN search
    ELSE IF search.stack # <<>> THEN InVisit(plan, search, Len(search.stack))
    ELSE IF search.at > Len(plan) THEN search
    ELSE Visit(search, plan[search.at].id, [search EXCEPT !.at = @ + 1])

(* Each step is entered, left and passed once, and each dependency once.     *)
SearchSteps(plan) == Len(plan) * (3 + Max({0} \union {Len(plan[i].deps) : i \in DOMAIN plan}))

Searched(plan) ==
    LET after[n \in 0 .. SearchSteps(plan)] ==
            IF n = 0 THEN FreshSearch(plan) ELSE SearchStep(plan, after[n - 1])
    IN  after[SearchSteps(plan)]

ValidatePlanDAG(plan, prior) ==
    /\ \A i, j \in DOMAIN plan : plan[i].id = plan[j].id => i = j
    /\ \A i \in DOMAIN plan : Range(plan[i].deps) \subseteq Ids(plan) \union prior
    /\ Searched(plan).ok /\ Searched(plan).at > Len(plan)

(* Skills the host does not offer are dropped, unless it offers none.        *)
FilterSkills(plan, skills) ==
    [i \in DOMAIN plan |-> [plan[i] EXCEPT !.skills = IF skills = {} THEN @ ELSE @ \intersect skills]]

ParsePlan(json, prior, skills) ==
    IF json.found /\ ValidatePlanDAG(json.steps, prior) THEN Parsed(FilterSkills(json.steps, skills)) ELSE Failed

(* callAndParsePlan: a plan without steps is worth another attempt.          *)
ParsePlanReply(reply, prior, skills) ==
    LET p == ParsePlan(reply.content.json, prior, skills)
    IN IF p.ok /\ p.value = <<>> THEN Failed ELSE p

TruncateToSingle(plan, single) == IF single /\ Len(plan) > 1 THEN <<plan[1]>> ELSE plan
=============================================================================
