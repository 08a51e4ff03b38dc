----------------------------- MODULE WorkBoard -----------------------------
(***************************************************************************)
(* orchestration/blackboard.go as the agent's tools see it: step outputs,  *)
(* the final result, facts and attachments through the store adapters, the *)
(* dump files of the steps, the summary of an output and the answer put    *)
(* together from a plan's outputs (dag.go).  Steps run in parallel; every  *)
(* operation holds the board's lock, so it is one step.                    *)
(***************************************************************************)
EXTENDS Cases, Integers, FiniteSets, SequencesExt

CONSTANTS StepIds,       \* step identifiers
          DumpName,      \* the dump file of a step: only the base of its id counts
          AttachmentIds,
          Contents,      \* what an attachment may hold
          MaxAttachments

ASSUME WorkBoardAssumption ==
    /\ MaxAttachments \in Nat
    /\ DumpName \in [StepIds -> STRING]
    /\ "none" \notin Contents

VARIABLES results,      \* stepResults: per step <<>> or <<[output, err]>>
          finalResult,  \* NoText or an answer
          attachments,  \* sequence of [id, content]
          attached,     \* id -> content last attached and not removed (ghost)
          dumps,        \* [files, closed]: the StepDumpTracker
          handles       \* dump name -> file handles open on it (ghost)

boardVars == <<results, finalResult, attachments, attached, dumps, handles>>

DumpNames == {DumpName[s] : s \in StepIds}
NoText == "no_text"   \* the empty string
Errors == {"nil", "failed", "paused", "paused, restored"}

BoardInit ==
    /\ results = [s \in StepIds |-> <<>>]
    /\ finalResult = NoText
    /\ attachments = <<>> /\ attached = [id \in AttachmentIds |-> "none"]
    /\ dumps = [files |-> {}, closed |-> FALSE]
    /\ handles = [n \in DumpNames |-> 0]

----------------------------------------------------------------------------
(* Writing. *)
SetStepResultAppending ==
    /\ \E s \in StepIds, o \in {NoText, "text"}, e \in Errors :
           results' = [results EXCEPT ![s] = Append(@, [output |-> o, err |-> e])]
    /\ UNCHANGED <<finalResult, attachments, attached, dumps, handles>>
SetStepResult ==
    /\ \E s \in StepIds, o \in {NoText, "text"}, e \in Errors :
           results' = [results EXCEPT ![s] = <<[output |-> o, err |-> e]>>]
    /\ UNCHANGED <<finalResult, attachments, attached, dumps, handles>>

SetFinalResult ==
    /\ \E r \in {NoText, "answer"} : finalResult' = r
    /\ UNCHANGED <<results, attachments, attached, dumps, handles>>

IndexOf(id) == SelectInSeq(attachments, LAMBDA a : a.id = id)

AddedAppending(a) == Append(attachments, a)
Added(a) ==
    IF IndexOf(a.id) = 0 THEN Append(attachments, a)
    ELSE [attachments EXCEPT ![IndexOf(a.id)] = a]

AddAttachment ==
    /\ Len(attachments) < MaxAttachments
    /\ \E id \in AttachmentIds, c \in Contents :
           /\ attachments' = Added([id |-> id, content |-> c])
           /\ attached' = [attached EXCEPT ![id] = c]
    /\ UNCHANGED <<results, finalResult, dumps, handles>>

RemoveAttachment ==
    /\ \E id \in AttachmentIds :
           /\ attachments' = IF IndexOf(id) = 0 THEN attachments
                             ELSE RemoveAt(attachments, IndexOf(id))
           /\ attached' = [attached EXCEPT ![id] = "none"]
    /\ UNCHANGED <<results, finalResult, dumps, handles>>

(* A step's dump file is opened once and shared; after CloseAll none is. *)
OpenStepDumpAnyTime ==
    /\ \E s \in StepIds : LET n == DumpName[s] IN
           /\ n \notin dumps.files /\ dumps' = [dumps EXCEPT !.files = @ \cup {n}]
           /\ handles' = [handles EXCEPT ![n] = @ + 1]
    /\ UNCHANGED <<results, finalResult, attachments, attached>>
OpenStepDump ==
    /\ \E s \in StepIds : LET n == DumpName[s] IN
           /\ ~dumps.closed /\ n \notin dumps.files
           /\ dumps' = [dumps EXCEPT !.files = @ \cup {n}]
           /\ handles' = [handles EXCEPT ![n] = @ + 1]
    /\ UNCHANGED <<results, finalResult, attachments, attached>>

CloseAll ==
    /\ dumps' = [files |-> {}, closed |-> TRUE]
    /\ handles' = [n \in DumpNames |-> IF n \in dumps.files THEN handles[n] - 1 ELSE handles[n]]
    /\ UNCHANGED <<results, finalResult, attachments, attached>>

BoardNext ==
    \/ SetStepResult \/ SetFinalResult \/ AddAttachment
    \/ RemoveAttachment \/ OpenStepDump \/ CloseAll

----------------------------------------------------------------------------
(* Reading: what the tools return; <<>> is "not found". *)
PausedCheckpointOutput == "[paused]"

IsPausedStepErr(err) == err \in {"paused", "paused, restored"}

GetStepOutput(s) ==
    IF results[s] = <<>> THEN <<>>
    ELSE LET r == results[s][1]
         IN  IF IsPausedStepErr(r.err) THEN <<PausedCheckpointOutput>>
             ELSE IF r.err = "nil" /\ r.output # NoText THEN <<r.output>> ELSE <<>>

ListStepOutputsAll ==
    {<<s, results[s][1].output>> : s \in {s \in StepIds : results[s] # <<>> /\ results[s][1].output # NoText}}
ListStepOutputs ==
    {<<s, results[s][1].output>> :
        s \in {s \in StepIds : results[s] # <<>> /\ results[s][1].err = "nil" /\ results[s][1].output # NoText}}
    \cup
    {<<s, PausedCheckpointOutput>> :
        s \in {s \in StepIds : results[s] # <<>> /\ IsPausedStepErr(results[s][1].err)}}

GetFinalResult == IF finalResult = NoText THEN <<>> ELSE <<finalResult>>

GetAttachment(id) == IF IndexOf(id) = 0 THEN <<>> ELSE <<attachments[IndexOf(id)].content>>

ListedAttachments == {<<attachments[i].id, attachments[i].content>> : i \in 1..Len(attachments)}

----------------------------------------------------------------------------
(* GenerateSummary.  A line of an output is empty, of spaces, an ATX       *)
(* heading, a line of dashes, or text; a character takes as many bytes as  *)
(* the case says.  The summary is the line it starts on and its length in  *)
(* characters.                                                             *)
LineKinds == {"empty", "space", "atx", "dashes", "text"}
KindWidth == [k \in LineKinds |-> CASE k = "empty" -> 0 [] k = "space" -> 1 [] OTHER -> 3]

SkipATXOnly(lines) ==
    LET n == Len(lines)
        skip[i \in 1..(n + 1)] ==
            IF i <= n /\ lines[i] \in {"empty", "space", "atx"} THEN skip[i + 1] ELSE i
    IN  IF skip[1] > n THEN 1 ELSE skip[1]
SkipLeadingHeadings(lines) ==
    LET n == Len(lines)
        skip[i \in 1..(n + 1)] ==
            CASE i > n -> i
              [] i <= n /\ lines[i] \in {"empty", "space", "atx"} -> skip[i + 1]
              [] OTHER -> IF i < n /\ lines[i + 1] = "dashes" THEN skip[i + 2] ELSE i
    IN  IF skip[1] > n THEN 1 ELSE skip[1]

(* The paragraph that starts on a line ends before the next empty one. *)
ParagraphEnd(lines, first) ==
    LET stops == {k \in (first + 1)..(Len(lines) - 1) : lines[k] = "empty"}
    IN  IF stops = {} THEN Len(lines) ELSE (CHOOSE k \in stops : \A j \in stops : k <= j) - 1

CharsOf(lines, first, last) ==
    (last - first) + FoldLeft(LAMBDA acc, k : acc + KindWidth[k], 0, SubSeq(lines, first, last))

TruncateUTF8(chars, max) ==
    CASE max <= 0 -> 0
      [] max > 0 /\ chars <= max -> chars
      [] OTHER -> IF max <= 1 THEN max + 1 ELSE max

GenerateSummary(lines, maxLen, bytes) ==
    LET max == IF maxLen = 0 THEN 500 ELSE maxLen
        first == SkipLeadingHeadings(lines)
        chars == CharsOf(lines, first, ParagraphEnd(lines, first))
    IN  [first |-> first,
         chars |-> IF chars * bytes > max THEN TruncateUTF8(chars, max) ELSE chars]

SummaryNext ==
    \E n \in 1..5 : Pick("summary", [lines : [1..n -> LineKinds], maxLen : {0, 1, 2, 4}, bytes : {1, 3}])

(* The summary the other steps and the planner see starts with what the    *)
(* step said, not with its headings, skips nothing else, and is not empty  *)
(* unless the output has headings and blanks only.  It is within its       *)
(* limit, but for a limit of 1, where a cut text has its ellipsis beside   *)
(* the one character (truncate.go:33-34, against :23; blackboard.go:438,   *)
(* :471).                                                                  *)
SummaryTells ==
    Picked("summary") =>
        LET c == case[1]
            n == Len(c.lines)
            s == GenerateSummary(c.lines, c.maxLen, c.bytes)
            heading(i) == c.lines[i] \in {"empty", "space", "atx"}
                          \/ (i < n /\ c.lines[i + 1] = "dashes")
            titled(i) == heading(i) \/ (i > 1 /\ c.lines[i] = "dashes")
        IN  \/ \A i \in 1..n : titled(i)
            \/ /\ ~heading(s.first) /\ \A i \in 1..(s.first - 1) : titled(i)
               /\ s.chars >= 1 /\ s.chars <= (CASE c.maxLen = 0 -> 500 [] c.maxLen = 1 -> 2 [] OTHER -> c.maxLen)

----------------------------------------------------------------------------
(* AggregateOutput: the answer of a plan, from the steps nobody depends    *)
(* on, or, when none of those succeeded, from all.  A case gives every     *)
(* step its dependencies and its outcome; carried ones were completed by   *)
(* an earlier plan.                                                        *)
PlanSteps == 1..3

DependedUpon(c) == UNION {c.deps[s] : s \in PlanSteps}

Succeeded(c) == {s \in PlanSteps : c.outcome[s] = "ok"}

AggregateLeavesOnly(c) ==
    SelectSeq(<<1, 2, 3>>, LAMBDA s : s \in Succeeded(c) \ DependedUpon(c))
AggregateOutput(c) ==
    LET leaves == Succeeded(c) \ DependedUpon(c)
    IN  SelectSeq(<<1, 2, 3>>, LAMBDA s : s \in IF leaves = {} THEN Succeeded(c) ELSE leaves)

PlanDependencies ==
    {d \in [PlanSteps -> SUBSET PlanSteps] : \A s \in PlanSteps : \A t \in d[s] : t < s}

AnswerNext ==
    Pick("answer", [deps : PlanDependencies,
                    outcome : [PlanSteps -> {"none", "ok", "failed", "carried"}]])

(* The answer never speaks for a failed or a carried step, says something  *)
(* whenever a step of this plan succeeded, and leaves out a successful     *)
(* step only when another step of the plan depends on it (dag.go:134).     *)
AnswerFromSuccess ==
    Picked("answer") =>
        LET c == case[1]
            told == ToSet(AggregateOutput(c))
        IN  /\ told \subseteq Succeeded(c)
            /\ Succeeded(c) # {} => told # {}
            /\ \A s \in Succeeded(c) \ told : \E t \in PlanSteps : s \in c.deps[t]

----------------------------------------------------------------------------
BoardTypeOK ==
    /\ \A s \in StepIds : Len(results[s]) <= 1
    /\ Len(attachments) <= MaxAttachments
    /\ dumps.files \subseteq DumpNames

(* What list_step_outputs announces, read_step_output delivers, and the    *)
(* other way round: never the output of a failed step, and a step that was *)
(* paused, also by a process that has since restarted, shows the marker    *)
(* (stepoutput_adapter.go:49, :63).                                        *)
ListAgreesWithGet ==
    \A s \in StepIds :
        /\ \A text \in {"text", NoText, PausedCheckpointOutput} :
               <<s, text>> \in ListStepOutputs <=> GetStepOutput(s) = <<text>>
        /\ results[s] # <<>> /\ results[s][1].err = "failed" => GetStepOutput(s) = <<>>

(* The attachments behave as a map from identifiers to the last content:   *)
(* attaching again replaces, removing leaves nothing behind, and the list  *)
(* and the lookup agree (blackboard.go:316, :357).                         *)
AttachmentsLikeAMap ==
    /\ \A id \in AttachmentIds :
           GetAttachment(id) = IF attached[id] = "none" THEN <<>> ELSE <<attached[id]>>
    /\ ListedAttachments = {<<id, attached[id]>> : id \in {i \in AttachmentIds : attached[i] # "none"}}
    /\ \A i, j \in 1..Len(attachments) : attachments[i].id = attachments[j].id => i = j

(* Every open dump file is the tracker's to close, one per file name, and  *)
(* a step that asks after CloseAll leaves none open                        *)
(* (step_dump_tracker.go:56, :59, :82).                                    *)
DumpsAccountedFor ==
    /\ \A n \in DumpNames : handles[n] = IF n \in dumps.files THEN 1 ELSE 0
    /\ dumps.closed => \A n \in DumpNames : handles[n] = 0

(* Every reader of the board gets the same story: lists agree with lookups,  *)
(* an attachment is what was last attached, and no dump file is left open    *)
(* (stepoutput_adapter.go:49, blackboard.go:316, step_dump_tracker.go:56).   *)
BoardTold ==
    /\ BoardTypeOK
    /\ ListAgreesWithGet
    /\ AttachmentsLikeAMap
    /\ DumpsAccountedFor
=============================================================================
