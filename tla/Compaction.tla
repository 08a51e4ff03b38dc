------------------------------- MODULE Compaction -------------------------------
(***************************************************************************)
(* memory/steps.go and memory/compaction*.go: how a trajectory is rendered   *)
(* as messages, what the three compaction strategies keep of it, and what    *)
(* the compaction of a conversation keeps and forecasts.                     *)
(*                                                                           *)
(* A step is [n, call, group, first, nudge, ...]: its number, whether it     *)
(* has a tool call (the number is then the call's ID), its ResponseGroup,    *)
(* whether it carries the thought and the reasoning of its reply, whether it *)
(* carries a nudge.  A summary is a message that stands for the steps it     *)
(* covers; its wording is left out.  A ratio is given in parts of the sum of *)
(* the three ratios.                                                         *)
(***************************************************************************)
EXTENDS Integers, Sequences, FiniteSets, SequencesExt

(* A message: the steps it renders or stands for, the calls it announces,    *)
(* the call it answers (0: none), the text of the answer and how many times  *)
(* that text is wrapped as untrusted.                                        *)
Msg(role, of, calls, answers, body, wraps) ==
    [role |-> role, of |-> of, calls |-> calls, answers |-> answers,
     body |-> body, wraps |-> wraps]

Text(kind, hash) == [kind |-> kind, hash |-> hash]
Plain == Text("full", <<>>)

Numbers(steps) == {steps[i].n : i \in DOMAIN steps}

(* Summaries, and the note that steps were omitted.                          *)
Summary(steps) == Msg("system", Numbers(steps), <<>>, 0, Plain, 0)

-----------------------------------------------------------------------------
(* Steps as messages                                                         *)

(* The last step rendered with step i: the run of its ResponseGroup.         *)
SegmentEnd(steps, i) ==
    IF steps[i].group = 0 THEN i
    ELSE CHOOSE j \in i .. Len(steps) :
            /\ \A k \in i .. j : steps[k].group = steps[i].group
            /\ j < Len(steps) => steps[j + 1].group # steps[i].group

StartsSegment(steps, i) ==
    \/ i = 1
    \/ steps[i].group = 0
    \/ steps[i].group # steps[i - 1].group

CallsOf(steps) == SelectSeq([i \in DOMAIN steps |-> IF steps[i].call THEN steps[i].n ELSE 0],
                            LAMBDA n : n # 0)

(* A step with a nudge and nothing else of the model's.                      *)
IsNudgeOnly(seg) == ~Head(seg).first /\ CallsOf(seg) = <<>> /\ Last(seg).nudge

(* One assistant message with every call of the segment, one tool message    *)
(* per call, then the nudge of its last step.  Without an assistant message  *)
(* when the segment is a nudge only; the live renderer tests that for a step *)
(* outside groups only.  answer[n] is the message for the result of call n.  *)
RenderSegment(seg, live, answer) ==
    (IF IsNudgeOnly(seg) /\ ~(live /\ Head(seg).group > 0) THEN <<>>
     ELSE <<Msg("assistant", {Head(seg).n}, CallsOf(seg), 0, Plain, 0)>>)
    \o [k \in DOMAIN CallsOf(seg) |-> answer[CallsOf(seg)[k]]]
    \o (IF Last(seg).nudge THEN <<Msg("user", {Last(seg).n}, <<>>, 0, Plain, 0)>> ELSE <<>>)

Render(steps, live, answer) ==
    FlattenSeq([i \in DOMAIN steps |->
        IF StartsSegment(steps, i)
        THEN RenderSegment(SubSeq(steps, i, SegmentEnd(steps, i)), live, answer)
        ELSE <<>>])

VerbatimAnswer(n) == Msg("tool", {n}, <<>>, n, Plain, 0)

(* stepsToMessages: what the strategies use for the steps they keep.         *)
StepsToMessages(steps) ==
    Render(steps, FALSE, [n \in {steps[i].n : i \in DOMAIN steps} |-> VerbatimAnswer(n)])

-----------------------------------------------------------------------------
(* Strategies for a trajectory                                               *)

(* Blocks of size b, the last one shorter.                                   *)
Blocks(s, b) ==
    [k \in 1 .. (Len(s) + b - 1) \div b |->
        SubSeq(s, (k - 1) * b + 1, IF k * b < Len(s) THEN k * b ELSE Len(s))]

Summaries(s, b) == [k \in DOMAIN Blocks(s, b) |-> Summary(Blocks(s, b)[k])]

First(s, n) == SubSeq(s, 1, n)
From(s, n) == SubSeq(s, n + 1, Len(s))

Sliding(keepFirst, keepLast, s) ==
    IF Len(s) <= keepFirst + keepLast THEN StepsToMessages(s)
    ELSE StepsToMessages(First(s, keepFirst))
         \o <<Summary(SubSeq(s, keepFirst + 1, Len(s) - keepLast))>>
         \o StepsToMessages(From(s, Len(s) - keepLast))

(* A summary that fails is replaced by a note in its place, so the shape of  *)
(* the result does not depend on the summarizer's answers.                   *)
Summarization(blockSize, keepLast, summarizer, s) ==
    IF Len(s) <= keepLast \/ ~summarizer THEN StepsToMessages(s)
    ELSE Summaries(First(s, Len(s) - keepLast), blockSize)
         \o StepsToMessages(From(s, Len(s) - keepLast))

(* usableRatio and the defaults, in tenths.                                  *)
Or(value, default) == IF value <= 0 THEN default ELSE value

Usable(ratio) == [distant |-> Or(ratio.distant, 4), middle |-> Or(ratio.middle, 3),
                  recent |-> Or(ratio.recent, 3)]

(* The zones of n steps: the ends of the distant and of the middle zone.     *)
MiddleEnd(d, n, ratio) ==
    LET m == (n * (ratio.distant + ratio.middle)) \div (ratio.distant + ratio.middle + ratio.recent)
        m1 == IF m <= d /\ n > d + 1 THEN d + 1 ELSE m
    IN  IF m1 >= n THEN n - 1 ELSE m1

DistantEnd(n, ratio) ==
    LET d == (n * ratio.distant) \div (ratio.distant + ratio.middle + ratio.recent)
    IN  IF d < 1 /\ n > 3 THEN 1 ELSE d

Hierarchical(ratio, summarizer, distantBlock, middleBlock, s) ==
    LET n == Len(s)
        middleEnd == MiddleEnd(DistantEnd(n, ratio), n, ratio)
        distantEnd == IF DistantEnd(n, ratio) > middleEnd THEN middleEnd ELSE DistantEnd(n, ratio)
    IN  IF n <= 5 \/ ~summarizer THEN StepsToMessages(s)
        ELSE Summaries(First(s, distantEnd), distantBlock)
             \o Summaries(SubSeq(s, distantEnd + 1, middleEnd), middleBlock)
             \o StepsToMessages(From(s, middleEnd))

(* NewCompactionStrategy: a zero or negative parameter gets its default, and *)
(* without a summarizer every name means the sliding window.                 *)
Strategy(name, cfg, s) ==
    CASE name = "summarization" /\ cfg.summarizer ->
            Summarization(Or(cfg.blockSize, 10), Or(cfg.sumKeepLast, 5), TRUE, s)
      [] name = "hierarchical" /\ cfg.summarizer ->
            Hierarchical(Usable(cfg.ratio), TRUE, 15, 5, s)
      [] OTHER -> Sliding(Or(cfg.keepFirst, 3), Or(cfg.keepLast, 10), s)

-----------------------------------------------------------------------------
(* Conversations: a message is its position, a summary is 0                  *)

Note == 0

ConversationZones(n, ratio) ==
    LET total == ratio.distant + ratio.middle + ratio.recent
        d0 == (n * ratio.distant) \div total
        m0 == (n * (ratio.distant + ratio.middle)) \div total
        m1 == IF m0 >= n THEN n - 1 ELSE m0
        d1 == IF d0 > m1 THEN m1 ELSE d0
    IN  IF d1 = 0 THEN [distant |-> 0, middle |-> 0]
        ELSE [distant |-> d1, middle |-> m1 - d1]

Failed == <<-1>>

(* One failed block fails the whole compaction.                              *)
ConversationBlocks(s, b, answers) ==
    IF answers THEN [k \in DOMAIN Blocks(s, b) |-> Note] ELSE Failed

Kept(summaries, tail) == IF summaries = Failed THEN Failed ELSE summaries \o tail

CompactSliding(cfg, msgs) ==
    LET first == Or(cfg.keepFirst, 3)  last == Or(cfg.keepLast, 10)
    IN  IF Len(msgs) <= first + last THEN msgs
        ELSE First(msgs, first) \o <<Note>> \o From(msgs, Len(msgs) - last)

CompactSummarizing(cfg, msgs) ==
    LET older == Len(msgs) - Or(cfg.sumKeepLast, 5)
    IN  CASE older <= 0 -> msgs
          [] older > 0 /\ ~cfg.summarizer -> Failed
          [] OTHER -> Kept(ConversationBlocks(First(msgs, older), Or(cfg.blockSize, 10), cfg.answers),
                           From(msgs, older))

CompactHierarchical(cfg, msgs) ==
    LET z == ConversationZones(Len(msgs), Usable(cfg.ratio))
    IN  CASE z.distant + z.middle <= 0 -> msgs
          [] z.distant + z.middle > 0 /\ ~cfg.summarizer -> Failed
          [] OTHER -> Kept(Kept(ConversationBlocks(First(msgs, z.distant), z.distant, cfg.answers),
                                ConversationBlocks(SubSeq(msgs, z.distant + 1, z.distant + z.middle),
                                                   Or(cfg.blockSize, 10), cfg.answers)),
                           From(msgs, z.distant + z.middle))

CompactConversationHistory(name, cfg, msgs) ==
    IF msgs = <<>> THEN msgs
    ELSE CASE name = "sliding_window" -> CompactSliding(cfg, msgs)
           [] name = "summarization" -> CompactSummarizing(cfg, msgs)
           [] name = "hierarchical" -> CompactHierarchical(cfg, msgs)

(* forecastSummaryTokens: never zero for something to summarize.             *)
ForecastSummary(tokens, percent) ==
    IF tokens <= 0 THEN 0 ELSE Max({1, (tokens * percent) \div 100})

(* A prediction: whether compaction happens, how many messages stay verbatim *)
(* and how many tokens are expected when a message is worth one token and a  *)
(* block is clamped to clamp.                                                *)
Unchanged(n) == [will |-> FALSE, verbatim |-> n, after |-> n, reclaim |-> 0]

Forecast(n, verbatim, summaries) ==
    LET after == verbatim + summaries
    IN  [will |-> TRUE, verbatim |-> verbatim, after |-> after,
         reclaim |-> Max({0, n - after})]

Clamp(tokens, cap) == Min({tokens, cap})

BlockForecast(n, b, cap, percent) ==
    LET bs == Blocks([i \in 1 .. n |-> i], b)
    IN  FoldLeft(LAMBDA acc, block : acc + ForecastSummary(Clamp(Len(block), cap), percent), 0, bs)

(* Mutant: the kept head is forgotten.                                       *)
PredictSlidingTailOnly(cfg, n) ==
    LET first == Or(cfg.keepFirst, 3)  last == Or(cfg.keepLast, 10)
    IN  IF n <= last THEN Unchanged(n) ELSE Forecast(n, first + last, 1)

PredictSliding(cfg, n) ==
    LET first == Or(cfg.keepFirst, 3)  last == Or(cfg.keepLast, 10)
    IN  IF n <= first + last THEN Unchanged(n) ELSE Forecast(n, first + last, 1)

PredictSummarizing(cfg, n) ==
    LET last == Or(cfg.sumKeepLast, 5)
    IN  IF n <= last THEN Unchanged(n)
        ELSE Forecast(n, last, BlockForecast(n - last, Or(cfg.blockSize, 10), cfg.cap, 30))

PredictHierarchical(cfg, n) ==
    LET z == ConversationZones(n, Usable(cfg.ratio))
        middle == FoldLeft(LAMBDA acc, block : acc + Clamp(Len(block), cfg.cap), 0,
                           Blocks([i \in 1 .. z.middle |-> i], Or(cfg.blockSize, 10)))
    IN  IF z.distant + z.middle <= 0 THEN Unchanged(n)
        ELSE Forecast(n, n - z.distant - z.middle,
                      ForecastSummary(Clamp(z.distant, cfg.cap), 15) + ForecastSummary(middle, 30))

PredictCompaction(name, cfg, n) ==
    IF n = 0 THEN [Unchanged(0) EXCEPT !.will = FALSE]
    ELSE CASE name = "sliding_window" -> PredictSliding(cfg, n)
           [] name = "summarization" -> PredictSummarizing(cfg, n)
           [] name = "hierarchical" -> PredictHierarchical(cfg, n)
=============================================================================
