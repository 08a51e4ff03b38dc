-------------------------- MODULE ReasoningControls --------------------------
(***************************************************************************)
(* How much a model is asked to think: the options a model offers and the  *)
(* tier a caller asks for (llm/reasoning.go, reasoning_openai.go), and how *)
(* the providers spell the outcome on the wire (provider_openai.go,        *)
(* provider_openai_responses.go, provider_anthropic.go).  A model stands   *)
(* for its family and generation; the version patterns are left out.       *)
(***************************************************************************)
EXTENDS Cases, Integers, FiniteSets, SequencesExt

Models == {"glm-4", "glm-5.2", "glm-5.3", "qwen3", "qwen3.8", "deepseek", "kimi-k3", "kimi-k2.7",
           "kimi-k2", "o3", "gpt-4o", "gpt-5", "gpt-5-pro", "gpt-5.1", "gpt-5.3-codex", "claude", "gemini",
           "mistral"}
Family(model) ==
    CASE model \in {"glm-4", "glm-5.2", "glm-5.3"} -> "glm"
      [] model \in {"qwen3", "qwen3.8"} -> "qwen"
      [] model \in {"kimi-k3", "kimi-k2.7", "kimi-k2"} -> "kimi"
      [] model \in {"o3", "gpt-4o", "gpt-5", "gpt-5-pro", "gpt-5.1", "gpt-5.3-codex"} -> "openai"
      [] OTHER -> model
ServedByResponses(model) == model \in {"gpt-5", "gpt-5-pro", "gpt-5.1", "gpt-5.3-codex"}

Spellings == {"off", "Off", "none", "On", "on", "minimal", "low", "medium", "High", "high", "xhigh", "Max", "max", "turbo"}
Folded(effort) ==
    CASE effort = "Off" -> "off" [] effort = "On" -> "on" [] effort = "High" -> "high"
      [] effort = "Max" -> "max" [] effort = "MINIMAL" -> "minimal" [] effort = "LOW" -> "low"
      [] effort = "MEDIUM" -> "medium" [] effort = "HIGH" -> "high" [] OTHER -> effort
IsDisableSpelling(effort) == Folded(effort) \in {"off", "none"}

\* ResolveBuiltInModel: the catalog knows the model and declares that it does
\* not reason.  What is guessed of an unknown model does not count.
DeclaredWithoutReasoning(model) == model \in {"gpt-4o", "kimi-k2"}

\* No entry of its own (gpt-5, gpt-4o): the family's options stand.
OpenAIModelReasoningOptions(model) ==
    CASE model = "gpt-5-pro" -> <<"high">>
      [] model = "gpt-5.3-codex" -> <<"low", "medium", "high", "xhigh">>
      [] model = "gpt-5.1" -> <<"none", "low", "medium", "high">>
      [] model = "o3" -> <<"low", "medium", "high">>
      [] OTHER -> <<>>
FamilyReasoningOptions(family) ==
    CASE family \in {"claude", "glm"} -> <<"On", "Off">>
      [] family = "openai" -> <<"minimal", "low", "medium", "high">>
      [] family = "gemini" -> <<"MINIMAL", "LOW", "MEDIUM", "HIGH">>
      [] family = "deepseek" -> <<"Off", "High", "Max">>
      [] family = "qwen" -> <<"xhigh", "medium", "low", "Off">>
      [] OTHER -> <<>>
ModelReasoningOptions(model) ==
    CASE Family(model) = "openai" /\ OpenAIModelReasoningOptions(model) # <<>> ->
             OpenAIModelReasoningOptions(model)
      [] model = "glm-5.3" -> <<"max", "high", "low">>
      [] model = "glm-5.2" -> <<"none", "max", "high">>
      [] model = "qwen3" -> <<"On", "Off">>
      [] OTHER -> FamilyReasoningOptions(Family(model))

ReasoningEffortRank(effort) ==
    CASE Folded(effort) \in {"minimal", "on"} -> 0 [] Folded(effort) = "low" -> 1
      [] Folded(effort) = "medium" -> 2 [] Folded(effort) = "high" -> 3
      [] Folded(effort) = "xhigh" -> 4 [] OTHER -> 5

ReasoningDisableSpelling(options) == SelectSeq(options, IsDisableSpelling)
FirstOption(options) == Head(SelectSeq(options, LAMBDA o : ~IsDisableSpelling(o)))
MinimalReasoningEffort(options) ==
    LET efforts == SelectSeq(options, LAMBDA o : ~IsDisableSpelling(o))
    IN  efforts[CHOOSE i \in DOMAIN efforts :
            \A j \in DOMAIN efforts : ReasoningEffortRank(efforts[i]) <= ReasoningEffortRank(efforts[j])]

Tiers == {"off", "minimal"}
ReasoningForCallUngated(model, tier) ==
    LET options == ModelReasoningOptions(model)
    IN  CASE options = <<>> -> IF Family(model) = "kimi" THEN "low" ELSE "unset"
          [] tier = "off" /\ ReasoningDisableSpelling(options) # <<>> -> Head(ReasoningDisableSpelling(options))
          [] OTHER -> MinimalReasoningEffort(options)
ReasoningForCall(model, tier) ==
    LET options == ModelReasoningOptions(model)
    IN  CASE DeclaredWithoutReasoning(model) -> "unset"
          [] options = <<>> -> IF Family(model) = "kimi" THEN "low" ELSE "unset"
          [] tier = "off" /\ ReasoningDisableSpelling(options) # <<>> -> Head(ReasoningDisableSpelling(options))
          [] OTHER -> MinimalReasoningEffort(options)

----------------------------------------------------------------------------
(* The fields of a request: the mode switch and the effort, each may be     *)
(* left out.                                                                *)
Fields(mode, effort) == [mode |-> mode, effort |-> effort]
Nothing == Fields("unset", "unset")

BinaryControl(effort) == Fields(IF effort \in {"On", "xhigh", "medium", "low"} THEN "on" ELSE "off", "unset")

(* applyQwenReasoning; with kwargs an effort does not by itself switch      *)
(* thinking on, so it is sent with the mode.                                *)
ApplyQwenReasoning(model, effort, kwargs) ==
    CASE Folded(effort) = "off" -> Fields("off", "unset")
      [] model = "qwen3" -> BinaryControl(effort)
      [] effort \in {"On", "xhigh"} -> Fields("on", "unset")
      [] effort \in {"medium", "low"} -> Fields(IF kwargs THEN "on" ELSE "unset", effort)
      [] OTHER -> Fields("off", "unset")

DeepSeekVerbatim(effort) ==
    IF Folded(effort) = "off" THEN Fields("off", "unset") ELSE Fields("on", effort)
ApplyDeepSeekReasoning(effort) ==
    LET e == Folded(effort)
    IN  CASE e \in {"low", "minimal"} -> Fields("on", "low")
          [] e \in {"medium", "xhigh", "high"} -> Fields("on", "high")
          [] e = "max" -> Fields("on", "max")
          [] OTHER -> Fields("off", "unset")

ApplyGLMReasoning(model, effort) ==
    LET options == ModelReasoningOptions(model)
        same == SelectSeq(options, LAMBDA o : Folded(o) = Folded(effort))
        off == ReasoningDisableSpelling(options)
        native == CASE Folded(effort) = "on" -> "max"
                    [] same # <<>> -> Head(same)
                    [] off # <<>> -> Head(off)
                    [] OTHER -> MinimalReasoningEffort(options)
    IN  CASE model = "glm-4" -> Fields(IF Folded(effort) = "on" THEN "on" ELSE "off", "unset")
          [] IsDisableSpelling(native) -> Fields("off", "unset")
          [] OTHER -> Fields("on", native)

ApplyKimiReasoning(model, effort) ==
    IF model = "kimi-k3" /\ effort \in {"low", "high", "max"} THEN Fields("unset", effort) ELSE Nothing

(* The Responses API takes the efforts it knows; an endpoint that only      *)
(* streams knows neither none nor minimal.                                  *)
StreamingFloor(effort) == IF effort \in {"none", "minimal"} THEN "low" ELSE effort
ResponsesEffort(effort, streamingOnly) ==
    CASE effort \notin {"none", "minimal", "low", "medium", "high", "xhigh", "max"} -> Nothing
      [] streamingOnly -> Fields("unset", StreamingFloor(effort))
      [] OTHER -> Fields("unset", effort)

(* The switch of buildChatParams over the families, and the other wires.    *)
(* wire: kwargs is the llama.cpp spelling, streaming the endpoint's demand. *)
OnTheWire(model, effort, wire) ==
    CASE effort = "unset" -> Nothing
      [] Family(model) = "qwen" -> ApplyQwenReasoning(model, effort, wire = "kwargs")
      [] Family(model) = "deepseek" -> ApplyDeepSeekReasoning(effort)
      [] Family(model) = "glm" -> ApplyGLMReasoning(model, effort)
      [] Family(model) = "kimi" -> ApplyKimiReasoning(model, effort)
      [] ServedByResponses(model) -> ResponsesEffort(effort, wire = "streaming")
      [] Family(model) = "openai" -> Fields("unset", effort)
      [] Family(model) = "claude" -> IF effort = "On" THEN Fields("on", "unset") ELSE Nothing
      [] OTHER -> Nothing

EffortCases == [model : Models, effort : Spellings, tier : Tiers, wire : {"default", "kwargs", "streaming"}]
EffortNext == Pick("effort", EffortCases)

----------------------------------------------------------------------------
(* What each vendor's endpoint takes, as the comments of the code quote it. *)
Accepted(model, wire) ==
    CASE model \in {"glm-4", "qwen3"} -> [mode : {"on", "off"}, effort : {"unset"}]
      [] model = "glm-5.2" -> {Fields("off", "unset")} \cup [mode : {"on"}, effort : {"max", "high"}]
      [] model = "glm-5.3" -> [mode : {"on"}, effort : {"max", "high", "low"}]
      [] model = "qwen3.8" -> [mode : {"on", "off"}, effort : {"unset"}]
                              \cup [mode : {IF wire = "kwargs" THEN "on" ELSE "unset"}, effort : {"medium", "low"}]
      [] model = "deepseek" -> {Fields("off", "unset")} \cup [mode : {"on"}, effort : {"low", "high", "max"}]
      [] model = "kimi-k3" -> [mode : {"unset"}, effort : {"unset", "low", "high", "max"}]
      [] OTHER -> {Nothing}
ChatFamilies == {m \in Models : Family(m) \in {"glm", "qwen", "deepseek", "kimi"}}

(* Whatever effort a host has stored, in any family's spelling, the chat    *)
(* wire carries only fields the model's endpoint documents: a strict one    *)
(* fails the whole call on any other (provider_openai.go:812, :744, :858,   *)
(* :924).                                                                   *)
EffortAccepted ==
    Picked("effort") /\ case[1].model \in ChatFamilies =>
        OnTheWire(case[1].model, case[1].effort, case[1].wire) \in Accepted(case[1].model, case[1].wire)

(* The tier a caller asks for is the tier the model runs at: off turns      *)
(* thinking off where the model and its endpoint can, else it is the        *)
(* cheapest effort the model offers, which is also what minimal is; an      *)
(* offered option is never encoded as nothing on the wires that have a      *)
(* field, and two options are two efforts there, but for minimal and low on *)
(* an endpoint that only streams, whose ladder starts at low                *)
(* (provider_openai_responses.go:184).  A model declared without reasoning  *)
(* is sent nothing at either tier (reasoning.go:313 against each encoder).  *)
TierReachesWire ==
    Picked("effort") =>
        LET model == case[1].model
            options == ModelReasoningOptions(model)
            effort == ReasoningForCall(model, case[1].tier)
            got == OnTheWire(model, effort, case[1].wire)
            thinking(o) == OnTheWire(model, o, case[1].wire)
            enabled == {o \in ToSet(options) : ~IsDisableSpelling(o)}
            clamped == ServedByResponses(model) /\ case[1].wire = "streaming"
        IN  /\ DeclaredWithoutReasoning(model) => got = Nothing
            /\ ~DeclaredWithoutReasoning(model) /\ options # <<>> /\ model # "gemini" =>
                /\ case[1].tier = "off" /\ enabled # ToSet(options) /\ ~ServedByResponses(model) /\ model # "claude"
                       => got.mode = "off"
                /\ case[1].tier = "off" /\ enabled # ToSet(options) /\ ServedByResponses(model)
                       => got = Fields("unset", IF clamped THEN "low" ELSE "none")
                /\ case[1].tier = "off" /\ model = "claude" => got = Nothing
                /\ case[1].tier = "minimal" \/ enabled = ToSet(options) =>
                       /\ got.mode # "off" /\ got # Nothing
                       /\ effort \in enabled
                       /\ \A o \in enabled : ReasoningEffortRank(effort) <= ReasoningEffortRank(o)
                /\ \A o \in enabled : thinking(o) # Nothing /\ thinking(o).mode # "off"
                /\ \A o, p \in enabled :
                       thinking(o) = thinking(p) <=> (o = p \/ (clamped /\ {o, p} = {"minimal", "low"}))
                /\ clamped => \A o \in ToSet(options) : thinking(o).effort \notin {"none", "minimal"}

(* The effort a host stored or a caller asked for reaches the model in a     *)
(* spelling its endpoint takes, and at the tier that was meant               *)
(* (reasoning.go:313, provider_openai.go:744-924).                           *)
EffortHonoured ==
    /\ EffortAccepted
    /\ TierReachesWire
=============================================================================
