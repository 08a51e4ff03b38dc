--------------------------- MODULE ExecutorSetup ---------------------------
(***************************************************************************)
(* agent/executor.go outside its loop: two executors built from options    *)
(* and changed by setters, the package-level tables they are built from,   *)
(* and what Run derives from a reply or from its tool list: whether a text *)
(* is a tool call that was printed, the definitions sent to the model, and *)
(* the arguments shown for a cached read.                                  *)
(*                                                                         *)
(* Go maps are references: tables[r] and limits[r] are the contents of the *)
(* map r of tool names and of per-tool limits.                             *)
(***************************************************************************)
EXTENDS Integers, SequencesExt, Cases

CONSTANTS Executors, ToolNames

ASSUME ExecutorSetupAssumption == "pkg" \notin Executors /\ "caller" \notin Executors

VARIABLES conf,    \* per executor "none" (not built) or its fields
          tables,  \* non-cacheable tools, of the package and of each executor
          limits,  \* truncation limits, of the caller and of each executor
          added,   \* history: names added to each executor's non-cacheable tools
          agreed   \* history: the caller's truncation table when it was set

setupVars == <<conf, tables, limits, added, agreed>>

Nil == "nil"
Empty == "empty_name"   \* the empty string

-----------------------------------------------------------------------------
(* NewExecutor and the setters *)

\* An option sets one field of executorOptions.
ExecutorOptions ==
    [field : {"emitter", "hitl"}, value : {Nil, "custom"}]
    \cup [field : {"watchdogInterval"}, value : {"negative", "custom"}]
    \cup [field : {"toolCallTimeout", "circuitBreaker", "pauseChecker", "streaming"}, value : {"custom"}]

ZeroOptions == [emitter |-> Nil, hitl |-> Nil, watchdogInterval |-> "zero", toolCallTimeout |-> "zero",
                circuitBreaker |-> "default", pauseChecker |-> Nil, streaming |-> "zero"]

\* Mutant: the defaults are filled in before the options are applied.
ResolveDefaultsFirst(opts) ==
    FoldLeft(LAMBDA o, opt : [o EXCEPT ![opt.field] = opt.value],
             [ZeroOptions EXCEPT !.emitter = "noop", !.hitl = "noop", !.watchdogInterval = "default"], opts)

Resolve(opts) ==
    LET o == FoldLeft(LAMBDA acc, opt : [acc EXCEPT ![opt.field] = opt.value], ZeroOptions, opts)
    IN  [o EXCEPT !.emitter = IF @ = Nil THEN "noop" ELSE @, !.hitl = IF @ = Nil THEN "noop" ELSE @,
                  !.watchdogInterval = IF @ \in {"zero", "negative"} THEN "default" ELSE @]

Unbuilt == [built |-> FALSE]
DefaultNames == {"finish"}

SetupInit ==
    /\ conf = [e \in Executors |-> Unbuilt]
    /\ tables = [r \in Executors \cup {"pkg"} |-> DefaultNames]
    /\ limits = [r \in Executors \cup {"caller"} |-> {}]
    /\ added = [e \in Executors |-> {}]
    /\ agreed = [e \in Executors |-> {}]

\* Mutant: the executor keeps the package-level table itself.
NewExecutorAliasing(e, opts) ==
    /\ ~conf[e].built
    /\ conf' = [conf EXCEPT ![e] = [built |-> TRUE, opts |-> Resolve(opts), nonCacheable |-> "pkg",
                                    exempt |-> DefaultNames, stop |-> {}, trunc |-> Nil]]
    /\ UNCHANGED <<tables, limits, added, agreed>>

NewExecutor(e, opts) ==
    /\ ~conf[e].built
    /\ conf' = [conf EXCEPT ![e] = [built |-> TRUE, opts |-> Resolve(opts), nonCacheable |-> e,
                                    exempt |-> DefaultNames, stop |-> {}, trunc |-> Nil]]
    /\ tables' = [tables EXCEPT ![e] = tables["pkg"]]
    /\ UNCHANGED <<limits, added, agreed>>

\* SetHITLHandler, SetToolCallTimeout, SetPauseChecker, SetStreaming: one
\* field each; a nil handler becomes the no-op one.
SetField(e, opt) ==
    /\ conf[e].built /\ opt.field \in {"hitl", "toolCallTimeout", "pauseChecker", "streaming"}
    /\ conf' = [conf EXCEPT ![e].opts[opt.field] =
                    IF opt.field = "hitl" /\ opt.value = Nil THEN "noop" ELSE opt.value]
    /\ UNCHANGED <<tables, limits, added, agreed>>

\* Mutant: empty names are kept.
SetStopToolsVerbatim(e, names) ==
    /\ conf[e].built
    /\ conf' = [conf EXCEPT ![e].stop = names]
    /\ UNCHANGED <<tables, limits, added, agreed>>

\* SetStopTools and SetToolCallTimeoutExempt drop empty names; no name at all
\* clears the set.
SetStopTools(e, names) ==
    /\ conf[e].built
    /\ conf' = [conf EXCEPT ![e].stop = names \ {Empty}]
    /\ UNCHANGED <<tables, limits, added, agreed>>
SetToolCallTimeoutExempt(e, names) ==
    /\ conf[e].built
    /\ conf' = [conf EXCEPT ![e].exempt = names \ {Empty}]
    /\ UNCHANGED <<tables, limits, added, agreed>>
IsToolCallTimeoutExempt(e, name) == name \in conf[e].exempt

AddNonCacheableTools(e, names) ==
    /\ conf[e].built
    /\ tables' = [tables EXCEPT ![conf[e].nonCacheable] = @ \cup names]
    /\ added' = [added EXCEPT ![e] = @ \cup names]
    /\ UNCHANGED <<conf, limits, agreed>>

\* Mutant: the caller's map is kept.
SetPerToolTruncationShared(e) ==
    /\ conf[e].built
    /\ conf' = [conf EXCEPT ![e].trunc = "caller"]
    /\ agreed' = [agreed EXCEPT ![e] = limits["caller"]]
    /\ UNCHANGED <<tables, limits, added>>

SetPerToolTruncation(e) ==
    /\ conf[e].built
    /\ conf' = [conf EXCEPT ![e].trunc = e]
    /\ limits' = [limits EXCEPT ![e] = limits["caller"]]
    /\ agreed' = [agreed EXCEPT ![e] = limits["caller"]]
    /\ UNCHANGED <<tables, added>>

CallerChangesTable(names) ==
    /\ limits' = [limits EXCEPT !["caller"] = names]
    /\ UNCHANGED <<conf, tables, added, agreed>>

SetupNext ==
    \/ \E e \in Executors :
         \/ NewExecutor(e, <<>>)
         \/ \E o \in ExecutorOptions : o.field \in {"hitl", "toolCallTimeout"} /\ SetField(e, o)
         \/ \E names \in SUBSET (ToolNames \cup {Empty}) :
                SetStopTools(e, names) \/ SetToolCallTimeoutExempt(e, names)
         \/ \E n \in ToolNames : AddNonCacheableTools(e, {n})
         \/ SetPerToolTruncation(e)
    \/ \E names \in SUBSET ToolNames : CallerChangesTable(names)

-----------------------------------------------------------------------------
(* DetectToolCallSyntaxInContent *)

\* A text is a sequence of pieces: a fence, a fence tag ("json" or one like a
\* tool's name), a newline, prose, or a JSON object.  An object that starts on
\* the line of the fence may not contain a newline (obj.lines = 1).
Fence == [p |-> "fence"]
NewLine == [p |-> "newline"]
Prose == [p |-> "prose"]
Tag(kind) == [p |-> "tag", kind |-> kind]
Object(keys, lines) == [p |-> "object", keys |-> keys, lines |-> lines]

NameKeys == {"name", "tool"}
ArgKeys == {"arguments", "args"}
ServiceKeys == {"id", "type"}

\* toolCallSyntaxRe: a fence at the start of a line, with a tool-like tag.
FencedCall(t) ==
    \E i \in 1..(Len(t) - 1) :
        /\ t[i] = Fence /\ t[i + 1].p = "tag" /\ t[i + 1].kind = "tool"
        /\ i = 1 \/ t[i - 1] = NewLine

TrimSpace(t) ==
    LET solid == {i \in DOMAIN t : t[i] # NewLine}
    IN  IF solid = {} THEN <<>>
        ELSE SubSeq(t, CHOOSE i \in solid : \A j \in solid : i <= j,
                       CHOOSE i \in solid : \A j \in solid : j <= i)

\* The first newline of the text ends the fence's line, wherever it is: a
\* multi-line object on that line is cut through ("broken").
StripSingleCodeFence(t) ==
    IF t = <<>> \/ Head(t) # Fence THEN t
    ELSE LET body == Tail(t)
             ends == {i \in DOMAIN body : body[i] = NewLine \/ (body[i].p = "object" /\ body[i].lines > 1)}
             first == CHOOSE i \in ends : \A j \in ends : i <= j
             inner == IF ends # {}
                      THEN (IF body[first] = NewLine THEN <<>> ELSE <<Prose>>)
                           \o SubSeq(body, first + 1, Len(body))
                      ELSE IF body # <<>> /\ Head(body).p = "tag" THEN Tail(body) ELSE body
             fences == {i \in DOMAIN inner : inner[i] = Fence}
             last == CHOOSE i \in fences : \A j \in fences : j <= i
         IN  TrimSpace(IF fences = {} THEN inner ELSE SubSeq(inner, 1, last - 1))

\* keys maps a key to what its value is: "string", "other", or "call" (an
\* object with a name and an argument key).  Of two name keys "tool" counts.
LooksLikeJSONToolCall(t) ==
    LET s == StripSingleCodeFence(TrimSpace(t))
        k == s[1].keys
        name == IF "tool" \in DOMAIN k THEN k["tool"] ELSE k["name"]
    IN  /\ Len(s) = 1 /\ s[1].p = "object"
        /\ IF DOMAIN k = {"answer"} THEN k["answer"] = "string"
           ELSE \/ /\ DOMAIN k \cap NameKeys # {} /\ DOMAIN k \cap ArgKeys # {}
                   /\ DOMAIN k \subseteq NameKeys \cup ArgKeys \cup ServiceKeys
                   /\ name = "string"
                \/ "function" \in DOMAIN k /\ k["function"] = "call"

\* Mutant: only a lone pair of keys is a call.
DetectPairOnly(t) ==
    FencedCall(t) \/ LET s == StripSingleCodeFence(TrimSpace(t))
                     IN  Len(s) = 1 /\ s[1].p = "object" /\ Cardinality(DOMAIN s[1].keys) <= 2
                         /\ LooksLikeJSONToolCall(t)

DetectToolCallSyntax(t) == FencedCall(t) \/ LooksLikeJSONToolCall(t)

-----------------------------------------------------------------------------
(* buildToolDefinitions and mergeFragmentWindow *)

\* Mutant: duplicates are dropped only next to each other.
BuildToolDefinitionsAdjacent(granted) ==
    LET defs == [i \in {j \in DOMAIN granted : j = 1 \/ granted[j - 1].name # granted[j].name} |-> granted[i]]
        seq == [k \in 1..Cardinality(DOMAIN defs) |->
                   defs[CHOOSE i \in DOMAIN defs : Cardinality({j \in DOMAIN defs : j <= i}) = k]]
    IN  IF \E i \in DOMAIN seq : seq[i].name = "finish" THEN seq
        ELSE Append(seq, [name |-> "finish", by |-> 0])

\* The first definition of a name counts; finish is appended if it is absent.
BuildToolDefinitions(granted) ==
    LET kept == SelectSeq([i \in DOMAIN granted |-> <<i, granted[i]>>],
                          LAMBDA x : \A j \in 1..(x[1] - 1) : granted[j].name # x[2].name)
        defs == [i \in DOMAIN kept |-> kept[i][2]]
    IN  IF \E i \in DOMAIN defs : defs[i].name = "finish" THEN defs
        ELSE Append(defs, [name |-> "finish", by |-> 0])

Drop(f, keys) == [k \in DOMAIN f \ keys |-> f[k]]

\* Mutant: end_line goes only when a start_line comes.
MergeFragmentWindowLate(orig, frag) ==
    Drop([k \in {"hash", "start_line", "num_lines", "line"} \cap DOMAIN frag |-> frag[k]] @@ orig,
         IF "start_line" \in DOMAIN frag THEN {"end_line"} ELSE {})

MergeFragmentWindow(orig, frag) ==
    LET base == IF "line" \in DOMAIN frag THEN Drop(orig, {"start_line", "num_lines"}) ELSE orig
        over == [k \in {"hash", "start_line", "num_lines", "line"} \cap DOMAIN frag |-> frag[k]]
    IN  Drop(over @@ base, IF DOMAIN frag \cap {"start_line", "num_lines", "line"} # {}
                           THEN {"end_line"} ELSE {})

-----------------------------------------------------------------------------
KeyMaps == UNION {[ks -> {"string", "other", "call"}] :
                    ks \in {x \in SUBSET {"answer", "name", "tool", "args", "id", "function", "summary"} :
                            Cardinality(x) <= 3}}
Wrappings(o) == {<<o>>, <<NewLine, o, NewLine>>, <<Fence, Tag("json"), NewLine, o, NewLine, Fence>>,
                 <<Fence, Tag("json"), o, Fence>>, <<Fence, o, Fence, NewLine>>, <<Prose, NewLine, o>>,
                 <<Prose, NewLine, Fence, Tag("tool"), NewLine, o, NewLine, Fence>>,
                 <<Prose, Fence, Tag("tool"), o>>}
Granted == SeqOf([name : {"finish", "a", "b"}, by : {1, 2}], 3)
ArgMaps(keys) == UNION {[ks -> {1, 2}] : ks \in SUBSET keys}

SetupCasesNext ==
    \/ \E lines \in {1, 2} : Pick("reply", UNION {Wrappings(Object(k, lines)) : k \in KeyMaps})
    \/ Pick("options", SeqOf(ExecutorOptions, 3))
    \/ Pick("catalog", Granted)
    \/ Pick("card", [orig : ArgMaps({"path", "start_line", "end_line"}),
                     frag : ArgMaps({"hash", "start_line", "num_lines", "line"})])

-----------------------------------------------------------------------------
(* Properties *)

SetupTypeOK ==
    \A e \in Executors : conf[e].built =>
        /\ conf[e].stop \subseteq ToolNames /\ conf[e].exempt \subseteq ToolNames \cup DefaultNames
        /\ conf[e].opts.emitter \in {"noop", "custom"} /\ conf[e].opts.hitl \in {"noop", "custom"}
        /\ conf[e].opts.watchdogInterval \in {"default", "custom"}

\* Whatever options are given, in whatever order, each field has the value
\* of the last one for it, and no nil emitter or handler and no interval that
\* is not positive gets through.
LastOptionCounts ==
    Picked("options") =>
        LET opts == case[1]
            r == Resolve(opts)
            default == [emitter |-> "noop", hitl |-> "noop", watchdogInterval |-> "default",
                        toolCallTimeout |-> "zero", circuitBreaker |-> "default",
                        pauseChecker |-> Nil, streaming |-> "zero"]
        IN  \A f \in DOMAIN r :
              LET given == {i \in DOMAIN opts : opts[i].field = f}
                  last == CHOOSE i \in given : \A j \in given : j <= i
              IN  r[f] = IF given # {} /\ opts[last].value = "custom" THEN "custom" ELSE default[f]

\* What is configured on one executor, or changed by the caller afterwards,
\* shows up in no other executor and not in the tables of the package.
ExecutorsIndependent ==
    /\ tables["pkg"] = DefaultNames
    /\ \A e \in Executors : conf[e].built =>
         /\ tables[conf[e].nonCacheable] = DefaultNames \cup added[e]
         /\ conf[e].trunc # Nil => limits[conf[e].trunc] = agreed[e]

\* A printed call is recognised in every envelope and wrapping: as the finish
\* arguments, as a name and its arguments with or without decoration, or
\* nested, bare or in one fence.  (An object that starts on the line of its
\* fence and spans several is not.)  Prose around an object, and an object
\* with a field that no call has, stay answers.
PrintedCallsDetected ==
    Picked("reply") =>
        LET t == case[1]
            i == CHOOSE j \in DOMAIN t : t[j].p = "object"
            k == t[i].keys
            call == \/ DOMAIN k = {"answer"} /\ k["answer"] = "string"
                    \/ DOMAIN k \in {{"name", "args"}, {"name", "args", "id"}} /\ k["name"] = "string"
                    \/ "function" \in DOMAIN k /\ k["function"] = "call" /\ DOMAIN k # {"answer"}
            onFenceLine == i > 1 /\ t[i].lines > 1 /\ t[i - 1] # NewLine
        IN  /\ (call /\ Prose \notin ToSet(t) /\ ~onFenceLine) => DetectToolCallSyntax(t)
            /\ (Prose \in ToSet(t) /\ ~FencedCall(t)) => ~DetectToolCallSyntax(t)
            /\ ("summary" \in DOMAIN k /\ "function" \notin DOMAIN k /\ ~FencedCall(t)) =>
                   ~DetectToolCallSyntax(t)

\* The definitions sent have distinct names, finish among them exactly once,
\* every granted tool, and for each name the first definition granted.
DefinitionsUnique ==
    Picked("catalog") =>
        LET g == case[1]
            d == BuildToolDefinitions(g)
        IN  /\ \A i, j \in DOMAIN d : d[i].name = d[j].name => i = j
            /\ {d[i].name : i \in DOMAIN d} = {g[i].name : i \in DOMAIN g} \cup {"finish"}
            /\ \A i \in DOMAIN g : (\A j \in 1..(i - 1) : g[j].name # g[i].name) => g[i] \in ToSet(d)

\* The card of a cached read shows the window the fragment asked for, and not
\* the end of the original read, but for one case: a fragment with num_lines
\* and no start_line is read from line 1 and shown from the start of the
\* original read (executor.go:1249 says the card describes the fragment it
\* returns).  A fragment without a window keeps the original one.
CardShowsFragment ==
    Picked("card") =>
        LET o == case[1].orig
            f == case[1].frag
            m == MergeFragmentWindow(o, f)
            window == {"start_line", "num_lines", "line"}
            from(args) == IF "start_line" \in DOMAIN args THEN args["start_line"] ELSE 1
        IN  /\ DOMAIN f \cap window # {} =>
                   /\ DOMAIN m \cap {"num_lines", "line", "end_line"} \subseteq DOMAIN f
                   /\ from(m) = from(f) <=> ~(DOMAIN f \cap window = {"num_lines"} /\ from(o) # 1)
            /\ DOMAIN f \cap window = {} => \A k \in DOMAIN o : m[k] = o[k]
            /\ \A k \in DOMAIN f : m[k] = f[k]
            /\ "path" \in DOMAIN o => m["path"] = o["path"]

(* An executor is what its host made of it: executors share no table with    *)
(* each other, with the package or with the caller (executor.go:592-1029).   *)
SetupSound ==
    /\ SetupTypeOK
    /\ ExecutorsIndependent
=============================================================================
