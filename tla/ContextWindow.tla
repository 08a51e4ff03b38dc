------------------------------ MODULE ContextWindow ------------------------------
(***************************************************************************)
(* memory/context.go: the context window of one agent run.  It keeps the     *)
(* trajectory, a frozen compacted prefix of it and the token estimate, and   *)
(* renders the prompt: old tool results may be pruned, evicted to the tool   *)
(* result cache, deduplicated or wrapped as untrusted.                       *)
(*                                                                           *)
(* The executor takes a reply (TakeReply) and adds a step for each of its    *)
(* calls in turn (AddStep), the calls inside a batch included, or gives the  *)
(* rest up; a resumed run seeds a new                                        *)
(* window, and a new executor, with the saved trajectory.  Meanwhile results *)
(* are read back through the cache, which other agents use too, its entries  *)
(* age and the file behind the file-backed entries changes.                  *)
(*                                                                           *)
(* A message counts for one token and a step for two.                        *)
(***************************************************************************)
EXTENDS Compaction, ToolResultCache

CONSTANTS
    UntrustedTools, NonCacheable, ProtectedTools, StatusTools,
    Configs,        \* window configurations, each with the replies that may come,
                    \* the strategies in use, the bound on the trajectory and
                    \* whether the cache is read and shared meanwhile
    Window, OutputLimit, SafetyMargin,  \* modelMeta and safetyMargin (percent)
    BaseTokens,     \* system prompt, task, plan and prior conversation
    Overheads       \* values the executor passes to SetToolOverhead

ASSUME WindowAssumption ==
    /\ Window \in Nat /\ OutputLimit \in Nat /\ SafetyMargin \in Nat
    /\ Window - OutputLimit - (Window * SafetyMargin) \div 100 > 0
    /\ Overheads \subseteq Nat

(* What a reply may be: the calls that become steps, those inside a batch    *)
(* one by one; whether the reply has several calls of its own; whether the   *)
(* first of them is a batch.                                                 *)
ReplyShape == [calls : Seq(Tools), several : BOOLEAN, batch : BOOLEAN]

ASSUME RepliesAssumption ==
    \A c \in Configs : \A r \in c.replies :
        /\ r \in ReplyShape /\ r.calls # <<>>
        /\ r.several => Len(r.calls) > 1
        /\ Len(r.calls) > 1 => r.several \/ r.batch

VARIABLES
    cfg,        \* pruning, history mutation and injection defence
    steps,      \* cw.steps
    frozen,     \* cw.compactedMessages (<<>>: nil)
    through,    \* cw.compactedThroughIndex
    overhead,   \* cw.toolOverhead
    known, delta,   \* the tracker: lastKnownUsed and pendingDelta
    groups,     \* the executor's responseGroupCounter
    reply       \* the calls of the reply still to be processed, its group and turn,
                \* whether it begins with a batch

windowVars == <<cfg, steps, frozen, through, overhead, known, delta, groups, reply>>
vars == <<windowVars, cacheVars>>

NoReply == [calls |-> <<>>, group |-> 0, turn |-> 0, batch |-> FALSE]

-----------------------------------------------------------------------------
(* Token budget                                                              *)

MaxReserve == Window - OutputLimit - (Window * SafetyMargin) \div 100

EffectiveMax == MaxReserve - overhead

EstimateTotal == known + delta

(* FillPercent() < percent.                                                  *)
FillBelow(percent) ==
    IF EffectiveMax <= 0 THEN 100 < percent ELSE EstimateTotal * 100 < percent * EffectiveMax

(* Mutant: the reservation is not clamped.                                   *)
SetToolOverheadUnclamped(tokens) ==
    /\ reply = NoReply
    /\ overhead' = tokens
    /\ UNCHANGED <<cfg, steps, frozen, through, known, delta, groups, reply, cacheVars>>

(* SetToolOverhead clamps the reservation to 80 % of the window's room.      *)
SetToolOverhead(tokens) ==
    /\ reply = NoReply
    /\ overhead' = Min({tokens, (MaxReserve * 80) \div 100})
    /\ UNCHANGED <<cfg, steps, frozen, through, known, delta, groups, reply, cacheVars>>

-----------------------------------------------------------------------------
(* Rendering                                                                 *)

ToolIndices == {i \in DOMAIN steps : steps[i].call}

LastTools(k) == {i \in ToolIndices : Cardinality({j \in ToolIndices : j > i}) < k}

(* Mutant: the protection is not extended to the rest of the reply.          *)
ProtectedAlone ==
    LET own == LastTools(cfg.keepLastN)
                 \union {i \in ToolIndices : steps[i].tool \in ProtectedTools}
    IN  CASE cfg.keepLastN <= 0 -> {}
          [] cfg.keepLastN > 0 /\ cfg.threshold > 0 /\ FillBelow(cfg.threshold) -> ToolIndices
          [] OTHER -> own

(* computeProtectedIndices: nothing without pruning, everything below the    *)
(* threshold, else the last results and the protected tools, with every      *)
(* other result of the same reply.                                           *)
Protected ==
    LET own == LastTools(cfg.keepLastN)
                 \union {i \in ToolIndices : steps[i].tool \in ProtectedTools}
    IN  CASE cfg.keepLastN <= 0 -> {}
          [] cfg.keepLastN > 0 /\ cfg.threshold > 0 /\ FillBelow(cfg.threshold) -> ToolIndices
          [] OTHER -> own \union {i \in DOMAIN steps : steps[i].group > 0
                                    /\ \E j \in own : steps[j].group = steps[i].group}

(* applyHistoryMutation, of an unprotected result: a checklist update, an    *)
(* old result or a repeated one is replaced by a reference to the cache.     *)
HistoryMutation(i) ==
    LET s == steps[i]
        aged == cfg.evictAfter > 0 /\ s.hash # NoHash /\ Len(steps) - (i - 1) > cfg.evictAfter
        repeated == cfg.dedup /\ s.hash # NoHash /\ \E j \in 1 .. i - 1 : steps[j].hash = s.hash
    IN  CASE s.tool \in ProtectedTools -> Plain
          [] s.tool \notin ProtectedTools /\ cfg.evictStatus /\ s.tool \in StatusTools -> Text("status", NoHash)
          [] s.tool \notin ProtectedTools /\ ~(cfg.evictStatus /\ s.tool \in StatusTools)
               /\ (aged \/ repeated) -> Text("ref", s.hash)
          [] OTHER -> Plain

(* Mutant: a replaced result loses its ToolCallID.                           *)
LiveAnswerNoId(n) ==
    LET mutated == HistoryMutation(n)
        body == CASE n \in Protected -> Plain
                  [] n \notin Protected /\ mutated # Plain -> mutated
                  [] OTHER -> IF cfg.keepLastN > 0 THEN Text("pruned", NoHash) ELSE Plain
    IN  Msg("tool", {n}, <<>>, IF body = mutated /\ mutated # Plain THEN 0 ELSE n, body,
            IF cfg.defence /\ steps[n].untrusted THEN 1 ELSE 0)

(* buildToolMsg.                                                             *)
LiveAnswer(n) ==
    LET mutated == HistoryMutation(n)
        body == CASE n \in Protected -> Plain
                  [] n \notin Protected /\ mutated # Plain -> mutated
                  [] OTHER -> IF cfg.keepLastN > 0 THEN Text("pruned", NoHash) ELSE Plain
    IN  Msg("tool", {n}, <<>>, n, body, IF cfg.defence /\ steps[n].untrusted THEN 1 ELSE 0)

(* buildStepMessages, the part of BuildPrompt that depends on the steps.     *)
BuildPrompt ==
    frozen \o Render(SubSeq(steps, IF frozen = <<>> THEN 1 ELSE through + 1, Len(steps)), TRUE,
                     [n \in ToolIndices |-> LiveAnswer(n)])

(* VulnerableOutputs: what the executor warns the model about.               *)
VulnerableOutputs ==
    IF cfg.keepLastN <= 0 \/ (cfg.threshold > 0 /\ FillBelow(cfg.threshold)) THEN {}
    ELSE ToolIndices \ Protected

-----------------------------------------------------------------------------
(* The trajectory                                                            *)

Init ==
    /\ cfg \in Configs
    /\ steps = <<>> /\ frozen = <<>> /\ through = 0
    /\ overhead = 0 /\ known = 0 /\ delta = 0 /\ groups = 0 /\ reply = NoReply
    /\ CacheInit

(* Mutant: a lone call or batch is given the current group, the one of an    *)
(* earlier reply.                                                            *)
TakeReplyKeepsGroup(r) ==
    /\ reply = NoReply
    /\ Len(steps) + Len(r.calls) <= cfg.bound
    /\ groups' = IF r.several THEN groups + 1 ELSE groups
    /\ reply' = [calls |-> r.calls, group |-> groups', turn |-> Len(steps) + 1, batch |-> r.batch]
    /\ known' = BaseTokens + Len(BuildPrompt) /\ delta' = 0
    /\ UNCHANGED <<cfg, steps, frozen, through, overhead, cacheVars>>

(* A reply r: CorrectTokenCount with the usage it reports; with several      *)
(* calls of its own it gets a new ResponseGroup, a lone batch does not.      *)
TakeReply(r) ==
    /\ reply = NoReply
    /\ Len(steps) + Len(r.calls) <= cfg.bound
    /\ groups' = IF r.several THEN groups + 1 ELSE groups
    /\ reply' = [calls |-> r.calls, group |-> IF r.several THEN groups' ELSE 0,
                 turn |-> Len(steps) + 1, batch |-> r.batch]
    /\ known' = BaseTokens + Len(BuildPrompt) /\ delta' = 0
    /\ UNCHANGED <<cfg, steps, frozen, through, overhead, cacheVars>>

After(calls) == IF calls = <<>> THEN NoReply ELSE [reply EXCEPT !.calls = calls]

(* AddStep of the next call's step, which carries the reply's thought when   *)
(* first; the calls in rest remain.                                          *)
StepAdded(hash, untrusted, first, rest) ==
    /\ steps' = Append(steps,
          [n |-> Len(steps) + 1, call |-> TRUE, tool |-> Head(reply.calls), group |-> reply.group,
           first |-> first, nudge |-> FALSE,
           untrusted |-> untrusted, hash |-> hash, turn |-> reply.turn])
    /\ reply' = After(rest)
    /\ delta' = delta + 2
    /\ UNCHANGED <<cfg, frozen, through, overhead, known, groups>>

(* The next call is executed.  processToolResult stores a cacheable result   *)
(* in full, and the step keeps its short hash.                               *)
AddStep ==
    /\ reply # NoReply
    /\ LET t == Head(reply.calls)
           Added(hash) == StepAdded(hash, t \in UntrustedTools, Len(steps) + 1 = reply.turn,
                                    Tail(reply.calls))
       IN  IF t \in NonCacheable THEN Added(NoHash) /\ UNCHANGED cacheVars
           ELSE \E full \in Results(t) : Store(t, full) /\ Added(StoredShort(cache, full))

(* A circuit breaker answers the call instead and ends the reply.  It tells  *)
(* the first call by the index 0, which no call inside a batch has.          *)
Intercept ==
    /\ reply # NoReply
    /\ StepAdded(NoHash, FALSE, Len(steps) + 1 = reply.turn /\ ~reply.batch, <<>>)
    /\ UNCHANGED cacheVars

(* AddStep of a step that only nudges the model, which ends a reply.         *)
AddNudge ==
    /\ Len(steps) < cfg.bound
    /\ steps' = Append(steps, [n |-> Len(steps) + 1, call |-> FALSE, tool |-> "none", group |-> 0,
                               first |-> FALSE, nudge |-> TRUE, untrusted |-> FALSE, hash |-> NoHash,
                               turn |-> Len(steps) + 1])
    /\ reply' = NoReply
    /\ UNCHANGED <<cfg, frozen, through, overhead, known, delta, groups, cacheVars>>

MaxGroup(ss) == Max({0} \union {ss[i].group : i \in DOMAIN ss})

(* Mutant: a new executor counts its groups from zero.                       *)
SeedStepsFresh(sameProcess) ==
    /\ steps # <<>>
    /\ frozen' = <<>> /\ through' = 0
    /\ known' = 0 /\ delta' = 2 * Len(steps)
    /\ groups' = 0 /\ reply' = NoReply
    /\ IF sameProcess THEN UNCHANGED cacheVars ELSE Restart
    /\ UNCHANGED <<cfg, steps, overhead>>

(* A run resumed from where it was, within a reply too: SeedSteps on a new   *)
(* window; a new executor, whose counter starts past the groups of the       *)
(* trajectory; in a new process the cache is empty.                          *)
SeedSteps(sameProcess) ==
    /\ steps # <<>>
    /\ frozen' = <<>> /\ through' = 0
    /\ known' = 0 /\ delta' = 2 * Len(steps)
    /\ groups' = MaxGroup(steps) /\ reply' = NoReply
    /\ IF sameProcess THEN UNCHANGED cacheVars ELSE Restart
    /\ UNCHANGED <<cfg, steps, overhead>>

Untrusted == {i \in DOMAIN steps : steps[i].call /\ steps[i].untrusted}

(* Mutant: the frozen prefix is not wrapped.                                 *)
WrapNothing(msgs) == msgs

(* wrapUntrustedInFrozenPrefix.                                              *)
WrapUntrusted(msgs) ==
    [k \in DOMAIN msgs |->
        IF cfg.defence /\ msgs[k].role = "tool" /\ msgs[k].answers \in Untrusted
        THEN [msgs[k] EXCEPT !.wraps = @ + 1] ELSE msgs[k]]

(* Mutant: the index of the first live step, counted from one.               *)
CompactPastEnd(s) ==
    /\ steps # <<>> /\ reply = NoReply
    /\ frozen' = WrapUntrusted(Strategy(s.name, s.cfg, steps))
    /\ through' = Len(steps) + 1
    /\ known' = BaseTokens + Len(frozen') /\ delta' = 0
    /\ UNCHANGED <<cfg, steps, overhead, groups, reply, cacheVars>>

(* Mutant: the prefix is taken to cover as many steps as it has messages.    *)
CompactCountsMessages(s) ==
    /\ steps # <<>> /\ reply = NoReply
    /\ frozen' = WrapUntrusted(Strategy(s.name, s.cfg, steps))
    /\ through' = Min({Len(frozen'), Len(steps)})
    /\ known' = BaseTokens + Len(frozen') /\ delta' = 0
    /\ UNCHANGED <<cfg, steps, overhead, groups, reply, cacheVars>>

(* Compact, after a fill check or a context overflow: the whole trajectory   *)
(* is compacted again from the steps, and the estimate is corrected.         *)
Compact(s) ==
    /\ steps # <<>> /\ reply = NoReply
    /\ frozen' = WrapUntrusted(Strategy(s.name, s.cfg, steps))
    /\ through' = Len(steps)
    /\ known' = BaseTokens + Len(frozen') /\ delta' = 0
    /\ UNCHANGED <<cfg, steps, overhead, groups, reply, cacheVars>>

-----------------------------------------------------------------------------
(* The cache, used by this and other agents between the window's steps       *)

OtherStore ==
    \E t \in Tools \ NonCacheable : \E full \in Results(t) : Store(t, full)

CacheStep ==
    /\ cfg.reads
    /\ \/ OtherStore
       \/ \E rd \in Readers : ReadStep(rd)
       \/ EditFile
       \/ \E short \in Shorts(cache) : Age(short)
    /\ UNCHANGED windowVars

Next ==
    \/ \E tokens \in Overheads : SetToolOverhead(tokens)
    \/ \E r \in cfg.replies : TakeReply(r)
    \/ AddStep
    \/ Intercept
    \/ AddNudge
    \/ \E same \in BOOLEAN : SeedSteps(same)
    \/ \E s \in cfg.strategies : Compact(s)
    \/ CacheStep

Spec == Init /\ [][Next]_vars

-----------------------------------------------------------------------------
(* Properties                                                                *)

TypeOK ==
    /\ cfg \in Configs
    /\ Len(steps) <= cfg.bound /\ \A i \in DOMAIN steps : steps[i].n = i
    /\ through \in 0 .. Len(steps)
    /\ known \in Nat /\ delta \in Nat /\ groups \in Nat
    /\ reply.calls \in Seq(Tools) /\ (reply = NoReply \/ reply.calls # <<>>)
    /\ Len(steps) + Len(reply.calls) <= cfg.bound
    /\ file \in 0 .. EditBound
    /\ \A rd \in Readers : reader[rd].pc \in {"idle", "upgrade", "check", "read"}

(* What a provider insists on: in every prompt an assistant message with     *)
(* calls is followed by exactly their results, in order, and no result       *)
(* stands elsewhere, wherever the compaction boundaries cut a reply.         *)
CallsAnswered ==
    LET p == BuildPrompt
    IN  \A i \in DOMAIN p :
          /\ p[i].role = "assistant" =>
                /\ i + Len(p[i].calls) <= Len(p)
                /\ \A k \in DOMAIN p[i].calls : p[i + k].answers = p[i].calls[k]
                /\ i + Len(p[i].calls) < Len(p) => p[i + Len(p[i].calls) + 1].role # "tool"
          /\ p[i].role = "tool" => i > 1 /\ p[i - 1].role \in {"assistant", "tool"}

(* No assistant message puts the calls of two replies together, a resume on  *)
(* a new executor included.                                                  *)
OneReplyPerMessage ==
    LET p == BuildPrompt
    IN  \A i \in DOMAIN p : \A k, l \in DOMAIN p[i].calls :
          steps[p[i].calls[k]].turn = steps[p[i].calls[l]].turn

(* Whatever mix of compactions, replies and resumes came before, each step   *)
(* is in the prompt exactly once: its result or nudge itself, or a summary.  *)
EveryStepOnce ==
    LET p == BuildPrompt
    IN  \A n \in DOMAIN steps :
          Cardinality({i \in DOMAIN p : n \in p[i].of /\ p[i].role # "assistant"}) = 1

(* With the injection defence on, every untrusted result in the prompt is    *)
(* wrapped, and wrapped once, in the frozen prefix and after it.             *)
UntrustedWrappedOnce ==
    LET p == BuildPrompt
    IN  cfg.defence => \A i \in DOMAIN p :
          p[i].role = "tool" => p[i].wraps = (IF steps[p[i].answers].untrusted THEN 1 ELSE 0)

(* A pruned result is one the model was warned about, and with it every      *)
(* other result shown under the same assistant message, so that all the      *)
(* calls of a reply that has a group are pruned together or not at all.  The *)
(* calls of a lone batch are shown, and pruned, each by itself.              *)
RepliesPrunedTogether ==
    LET p == BuildPrompt
        Pruned(i) == p[i].role = "tool" /\ p[i].body.kind = "pruned"
    IN  \A i \in DOMAIN p : Pruned(i) => p[i].answers \in VulnerableOutputs /\
            \A j \in ToolIndices :
                steps[j].group > 0 /\ steps[j].turn = steps[p[i].answers].turn => j \in VulnerableOutputs

(* ResponseGroup tells replies apart: results of the same reply carry the    *)
(* same group, and results with the same group answer the same reply unless  *)
(* it is 0, the group of lone calls and of the calls of a lone batch.  Holds *)
(* through resumes, nudges and replies given up half way (types.go:32).      *)
GroupsNameReplies ==
    \A i, j \in ToolIndices :
        /\ steps[i].turn = steps[j].turn => steps[i].group = steps[j].group
        /\ steps[i].group = steps[j].group /\ steps[i].group > 0 => steps[i].turn = steps[j].turn

(* Protection from pruning covers all the results of a reply that has a      *)
(* group, or none (context.go:845).                                          *)
RepliesProtectedTogether ==
    \A i, j \in ToolIndices :
        steps[i].turn = steps[j].turn /\ steps[i].group > 0 => (i \in Protected <=> j \in Protected)

(* The tool definitions never use up the window.                             *)
RoomLeft == EffectiveMax > 0

(* Every prompt is one a provider accepts and that tells the whole           *)
(* trajectory: each step once, each call with its result, each reply by      *)
(* itself, untrusted text wrapped, through any sequence of replies,          *)
(* compactions, prunings and resumes.                                        *)
PromptWellFormed ==
    /\ TypeOK
    /\ CallsAnswered
    /\ OneReplyPerMessage
    /\ EveryStepOnce
    /\ UntrustedWrappedOnce
    /\ RepliesPrunedTogether

(* What compaction and pruning build on: groups tell replies apart,          *)
(* protection never splits a group, and the window keeps room, through any   *)
(* sequence of replies, batches, nudges, resumes and changes of tools        *)
(* (context.go).                                                             *)
RepliesKept ==
    /\ GroupsNameReplies
    /\ RepliesProtectedTogether
    /\ RoomLeft
=============================================================================
