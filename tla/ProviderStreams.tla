--------------------------- MODULE ProviderStreams ---------------------------
(***************************************************************************)
(* What a provider makes of a streamed answer: the filter in front of the  *)
(* SDK's event decoder (llm/sse_sanitize.go), the assembly of chunks into  *)
(* one response by the OpenAI chat and the Anthropic providers, and the    *)
(* Responses API, where the same output may arrive as deltas, as finished  *)
(* items and in the terminal event.  A piece of text is the position at    *)
(* which it came, so concatenation is a sequence of positions.             *)
(***************************************************************************)
EXTENDS Cases, Integers, FiniteSets, SequencesExt

CONSTANTS MaxWireLines, MaxEvents, MaxOutputItems

ASSUME ProviderStreamsAssumption ==
    {MaxWireLines, MaxEvents, MaxOutputItems} \subseteq Nat

----------------------------------------------------------------------------
(* The lines of an HTTP body: data lines with a whole JSON value, with the *)
(* halves of one, with nothing, the sentinel; and a line that is no field. *)
DataLines == {"whole", "half1", "half2", "empty", "[DONE]"}
FieldLines == DataLines \cup {"event:", ":comment"}
BodyLines == FieldLines \cup {"blank", "text"}
BodyEnds == {"eof", "cut in a line", "error"}
Bodies == [lines : SeqOf(BodyLines, MaxWireLines), end : BodyEnds, trusted : BOOLEAN]

(* Empty data lines are blanks between the tokens of a value.              *)
SSEPayloadIsCompleteJSON(data) ==
    LET t == SelectSeq(data, LAMBDA l : l # "empty")
    IN  t # <<>> /\ (Head(t) = "[DONE]" \/ t \in {<<"whole">>, <<"half1", "half2">>})

NoEvent == [data |-> <<>>, named |-> FALSE]

(* dispatch and emit: the blank line that ends an event.                   *)
DispatchKeepingData(b) ==
    [b EXCEPT !.out = IF SSEPayloadIsCompleteJSON(b.event.data) THEN Append(@, b.event) ELSE @,
              !.event = IF SSEPayloadIsCompleteJSON(@.data) THEN NoEvent ELSE @]
Dispatch(b) ==
    [b EXCEPT !.out = IF SSEPayloadIsCompleteJSON(b.event.data) THEN Append(@, b.event) ELSE @,
              !.event = NoEvent]

HandleLine(b, line) ==
    CASE line = "blank" -> Dispatch(b)
      [] line \in DataLines -> [b EXCEPT !.event.data = Append(@, line)]
      [] line = "event:" -> [b EXCEPT !.event.named = TRUE]
      [] OTHER -> b

(* detect: the first line of a body whose media type names no event stream. *)
(* A line the connection cut has no newline and does not count as a field.  *)
IsSSEFieldLine(line) == line \in FieldLines
Detected(body) ==
    \/ body.trusted
    \/ /\ body.lines # <<>> /\ IsSSEFieldLine(Head(body.lines))
       /\ ~(Len(body.lines) = 1 /\ body.end = "cut in a line")

(* Read to the end: the events the SDK is handed, or the lines as they came. *)
WholeLines(body) == IF body.end = "cut in a line" /\ body.lines # <<>> THEN Front(body.lines) ELSE body.lines
SanitizedLosingSniffedLine(body) ==
    IF Detected(body)
    THEN [raw |-> FALSE, end |-> body.end, lines |-> <<>>,
          events |-> FoldLeft(HandleLine, [out |-> <<>>, event |-> NoEvent], WholeLines(body)).out]
    ELSE [raw |-> TRUE, end |-> body.end, events |-> <<>>,
          lines |-> IF body.lines = <<>> THEN <<>> ELSE Tail(body.lines)]
Sanitized(body) ==
    IF Detected(body)
    THEN [raw |-> FALSE, end |-> body.end, lines |-> <<>>,
          events |-> FoldLeft(HandleLine, [out |-> <<>>, event |-> NoEvent], WholeLines(body)).out]
    ELSE [raw |-> TRUE, end |-> body.end, events |-> <<>>, lines |-> body.lines]

(* The events of a body as the standard reads it: what stands between two  *)
(* blank lines, its data lines in their order.                             *)
EventsBetweenBlanks(lines) ==
    LET blanks == SelectSeq([i \in DOMAIN lines |-> i], LAMBDA i : lines[i] = "blank")
        from(n) == IF n = 1 THEN 1 ELSE blanks[n - 1] + 1
        span(n) == SubSeq(lines, from(n), blanks[n] - 1)
    IN  [n \in DOMAIN blanks |->
            [data |-> SelectSeq(span(n), LAMBDA l : l \in DataLines),
             named |-> "event:" \in ToSet(span(n))]]

(* The SDK unmarshals whatever it is handed and aborts on half a value.  On *)
(* a body recognised as an event stream it meets exactly the events whose   *)
(* value is whole, each with its own data only, in their order; nothing of  *)
(* an event the connection cut (sse_sanitize.go:268, :217).                 *)
StreamSurvives ==
    Picked("sse") =>
        LET body == case[1] IN Detected(body) =>
            Sanitized(body).events =
                SelectSeq(EventsBetweenBlanks(WholeLines(body)),
                          LAMBDA e : SSEPayloadIsCompleteJSON(e.data))

(* A body that is no event stream reaches the SDK byte for byte, the line   *)
(* read to look at it included, and with the error it ended in              *)
(* (sse_sanitize.go:147, :232).                                             *)
OtherBodiesUntouched ==
    Picked("sse") =>
        LET body == case[1] got == Sanitized(body)
        IN  /\ got.raw => got.lines = body.lines
            /\ got.end = body.end
            /\ ~body.trusted /\ body.lines # <<>> /\ Head(body.lines) = "text" => got.raw

----------------------------------------------------------------------------
(* A streamed chat completion.  A chunk belongs to a choice and carries one *)
(* of: a piece of text, of a refusal or of reasoning; a fragment of the     *)
(* tool call with an index, the id with it or not; the reason it finished;  *)
(* the usage.  The server may reject the stream_options field before any    *)
(* chunk; the sink may fail at the n-th delta (0: never).                   *)
ChunkKinds == {"text", "refusal", "reasoning", "call 0", "call 0 id", "call 1 id", "finish", "usage"}
StreamChunks == [kind : ChunkKinds, choice : {0}] \cup [kind : {"text", "finish"}, choice : {1}]
ChatStreamsOf(rejects, max) ==
    [api : {"chat"}, chunks : SeqOf(StreamChunks, max), end : {"eof", "error"},
     rejects : {rejects}, sinkFails : 0..2]
ChatStreams == ChatStreamsOf(FALSE, MaxEvents) \cup ChatStreamsOf(TRUE, MaxEvents - 1)

CallIndexes == {0, 1}
IndexOfCall(kind) == IF kind = "call 1 id" THEN 1 ELSE 0
IsCallFragment(kind) == kind \in {"call 0", "call 0 id", "call 1 id"}
NoToolCall == [id |-> FALSE, parts |-> <<>>]
EmptyAssembly ==
    [content |-> <<>>, refusal |-> <<>>, reasoning |-> <<>>, finish |-> FALSE, usage |-> FALSE,
     toolAcc |-> [i \in CallIndexes |-> NoToolCall], delivered |-> <<>>, sinkErr |-> FALSE]

(* One piece that goes to the sink as well; the sink fails at its n-th.     *)
Delivered(a, field, i, sinkFails) ==
    [a EXCEPT ![field] = Append(@, i), !.delivered = Append(@, i),
              !.sinkErr = Len(a.delivered) + 1 = sinkFails]

(* The body of the loop over the chunks; a sink error returned from it.     *)
TakeChunkLastFragment(a, s, i) ==
    LET c == s.chunks[i]
    IN  CASE a.sinkErr -> a
          [] c.kind = "usage" -> [a EXCEPT !.usage = TRUE]
          [] c.choice # 0 -> a
          [] c.kind = "text" -> Delivered(a, "content", i, s.sinkFails)
          [] c.kind = "refusal" -> Delivered(a, "refusal", i, s.sinkFails)
          [] c.kind = "reasoning" -> Delivered(a, "reasoning", i, s.sinkFails)
          [] IsCallFragment(c.kind) ->
                 [a EXCEPT !.toolAcc[IndexOfCall(c.kind)] =
                     [id |-> @.id \/ c.kind # "call 0", parts |-> <<i>>]]
          [] OTHER -> [a EXCEPT !.finish = TRUE]
TakeChunk(a, s, i) ==
    LET c == s.chunks[i]
    IN  CASE a.sinkErr -> a
          [] c.kind = "usage" -> [a EXCEPT !.usage = TRUE]
          [] c.choice # 0 -> a
          [] c.kind = "text" -> Delivered(a, "content", i, s.sinkFails)
          [] c.kind = "refusal" -> Delivered(a, "refusal", i, s.sinkFails)
          [] c.kind = "reasoning" -> Delivered(a, "reasoning", i, s.sinkFails)
          [] IsCallFragment(c.kind) ->
                 [a EXCEPT !.toolAcc[IndexOfCall(c.kind)] =
                     [id |-> @.id \/ c.kind # "call 0", parts |-> Append(@.parts, i)]]
          [] OTHER -> [a EXCEPT !.finish = TRUE]

ToolCallsInIndexOrder(acc) ==
    SelectSeq(<<acc[0], acc[1]>>, LAMBDA call : call # NoToolCall)

FailedStream(err, a) == [err |-> err, delivered |-> a.delivered]
Message(content, refusal, reasoning, calls) ==
    [content |-> IF content = <<>> THEN refusal ELSE content, reasoning |-> reasoning, calls |-> calls]

(* chatCompletionStream on what the server sends.                           *)
AcceptUnfinished(s, sent) ==
    LET a == FoldLeft(LAMBDA acc, i : TakeChunk(acc, s, i), EmptyAssembly, sent)
    IN  CASE a.sinkErr -> FailedStream("sink", a)
          [] s.end = "error" -> FailedStream("transport", a)
          [] OTHER -> [err |-> "", delivered |-> a.delivered, usage |-> a.usage,
                       message |-> Message(a.content, a.refusal, a.reasoning, ToolCallsInIndexOrder(a.toolAcc))]
ChatCompletionStream(s, sent) ==
    LET a == FoldLeft(LAMBDA acc, i : TakeChunk(acc, s, i), EmptyAssembly, sent)
    IN  CASE a.sinkErr -> FailedStream("sink", a)
          [] s.end = "error" -> FailedStream("transport", a)
          [] ~a.finish -> FailedStream("unexpected EOF", a)
          [] OTHER -> [err |-> "", delivered |-> a.delivered, usage |-> a.usage,
                       message |-> Message(a.content, a.refusal, a.reasoning, ToolCallsInIndexOrder(a.toolAcc))]

(* ChatCompletion with a sink: a server that rejects stream_options answers *)
(* 400 before the first chunk and is asked once more without the field; it  *)
(* then sends no usage.                                                     *)
ChatCompletion(s) ==
    LET all == [i \in DOMAIN s.chunks |-> i]
    IN  ChatCompletionStream(s,
            IF s.rejects THEN SelectSeq(all, LAMBDA i : s.chunks[i].kind # "usage") ELSE all)

----------------------------------------------------------------------------
(* A streamed Anthropic message: the SDK calls back with every delta and    *)
(* returns the blocks it has assembled, as a success even when the stream   *)
(* stopped short.  After a cancellation it may still deliver deltas.  An    *)
(* endpoint may send an object of type error with status 200.               *)
DeltaKinds == {"text", "thinking", "tool_use", "message_stop"}
AnthropicStreams ==
    [api : {"anthropic"}, chunks : SeqOf([kind : DeltaKinds], MaxEvents), end : {"eof", "error"},
     type : {"message", "error"}, sinkFails : 0..2]

OnEveryDelta(a, s, i) ==
    LET kind == s.chunks[i].kind
    IN  CASE kind = "message_stop" -> [a EXCEPT !.finish = TRUE]
          [] kind = "text" -> Delivered(a, "content", i, s.sinkFails)
          [] kind = "thinking" -> Delivered(a, "reasoning", i, s.sinkFails)
          [] OTHER -> a
OnContentBlockDelta(a, s, i) ==
    LET kind == s.chunks[i].kind
    IN  CASE kind = "message_stop" -> [a EXCEPT !.finish = TRUE]
          [] kind = "text" /\ ~a.sinkErr -> Delivered(a, "content", i, s.sinkFails)
          [] kind = "thinking" /\ ~a.sinkErr -> Delivered(a, "reasoning", i, s.sinkFails)
          [] OTHER -> a

(* The blocks of the SDK's response: neighbouring deltas of one kind are one *)
(* block.  parseResponse joins the blocks of a kind.                         *)
PiecesOf(s, kind) == SelectSeq([i \in DOMAIN s.chunks |-> i], LAMBDA i : s.chunks[i].kind = kind)
ParseResponse(s, delivered) ==
    LET calls == [n \in DOMAIN PiecesOf(s, "tool_use") |->
                     [id |-> TRUE, parts |-> <<PiecesOf(s, "tool_use")[n]>>]]
    IN  IF s.type = "error" THEN [err |-> "error response", delivered |-> delivered]
        ELSE IF PiecesOf(s, "text") = <<>> /\ calls = <<>>
        THEN [err |-> "no content", delivered |-> delivered]
        ELSE [err |-> "", delivered |-> delivered, usage |-> TRUE,
              message |-> Message(PiecesOf(s, "text"), <<>>, PiecesOf(s, "thinking"), calls)]

AnthropicCompletion(s) ==
    LET a == FoldLeft(LAMBDA acc, i : OnContentBlockDelta(acc, s, i), EmptyAssembly,
                      [i \in DOMAIN s.chunks |-> i])
    IN  CASE a.sinkErr -> FailedStream("sink", a)
          [] s.end = "error" -> FailedStream("transport", a)
          [] ~a.finish -> FailedStream("unexpected EOF", a)
          [] OTHER -> ParseResponse(s, a.delivered)

Streams == ChatStreams \cup AnthropicStreams
Completion(s) == IF s.api = "chat" THEN ChatCompletion(s) ELSE AnthropicCompletion(s)

(* What the server says in a stream, as a response that was not streamed    *)
(* would carry it: the text of choice 0, the calls by their index with all  *)
(* their fragments.                                                         *)
Ours(s, kinds) ==
    SelectSeq([i \in DOMAIN s.chunks |-> i],
        LAMBDA i : s.chunks[i].kind \in kinds /\ (s.api = "chat" => s.chunks[i].choice = 0))
(* convertChatResponseMessage. *)
SaidAtOnce(s) ==
    IF s.api = "anthropic" THEN ParseResponse(s, <<>>).message
    ELSE LET call(i) == Ours(s, {k \in ChunkKinds : IsCallFragment(k) /\ IndexOfCall(k) = i})
         IN  Message(Ours(s, {"text"}), Ours(s, {"refusal"}), Ours(s, {"reasoning"}),
                 SelectSeq([n \in 1..2 |-> [id |-> \E j \in ToSet(call(n - 1)) : s.chunks[j].kind # "call 0",
                                            parts |-> call(n - 1)]],
                           LAMBDA c : c.parts # <<>>))

(* A streamed response is the one the synchronous call would have returned, *)
(* refusals and fragmented calls included, and the sink has heard every     *)
(* piece of it exactly once, in order, whether or not the first request was *)
(* rejected (provider_openai.go:414, provider_openai.go:344).               *)
StreamedLikeWhole ==
    Picked("stream") =>
        LET s == case[1] got == Completion(s)
        IN  got.err = "" =>
                /\ got.message = SaidAtOnce(s)
                /\ got.delivered = Ours(s, {"text", "refusal", "reasoning", "thinking"})

(* An answer the connection cut short, one that failed after its last word, *)
(* or an error object sent with status 200 is never taken for a complete    *)
(* one; the reason is the caller's to see (provider_openai.go:488,          *)
(* provider_anthropic.go:382, :637).                                        *)
TruncationNeverAnAnswer ==
    Picked("stream") =>
        LET s == case[1] got == Completion(s)
            finished == Ours(s, {"finish", "message_stop"}) # <<>>
        IN  /\ ~finished \/ s.end = "error" => got.err # ""
            /\ s.api = "anthropic" /\ s.type = "error" => got.err # ""
            /\ finished /\ s.end = "eof" => got.err \notin {"transport", "unexpected EOF"}

(* When the sink fails its error is what the caller sees, never the failure *)
(* of the aborted stream nor an answer, and the sink is not called again,   *)
(* although the SDK may go on delivering (provider_anthropic.go:346, :368). *)
SinkErrorFinal ==
    Picked("stream") =>
        LET s == case[1] got == Completion(s)
            heard == Ours(s, {"text", "refusal", "reasoning", "thinking"})
        IN  IF s.sinkFails \in 1..Len(heard)
            THEN got.err = "sink" /\ got.delivered = SubSeq(heard, 1, s.sinkFails)
            ELSE got.err # "sink"

----------------------------------------------------------------------------
(* The Responses API.  The model's output is a sequence of items; the       *)
(* backend streams the text of all of them as deltas or of none, reports    *)
(* some as done, perhaps more than once, and puts some in the terminal      *)
(* event, which says how the response ended.  A failure may follow with or  *)
(* without a terminal event: an event that reports it, or the end of the    *)
(* connection.  The sink may fail at the first delta.  An item is known by  *)
(* its place; a call or a reasoning item may come without an id.            *)
ItemKinds == {"text", "refusal", "reasoning", "call", "call no id", "reasoning no id"}
TerminalStatus == {"completed", "max_output_tokens", "content_filter"}
FailureEvents == {"error transient", "error", "failed transient", "failed"}
TransportErrors == {"broken transient", "broken"}
PlacesOf(items) == SUBSET DOMAIN items
ResponsesOf(items, again, ends, failures, sinkFails) ==
    [items : {items}, deltas : BOOLEAN, done : PlacesOf(items), again : again,
     terminal : PlacesOf(items), end : ends, failure : failures, sinkFails : sinkFails]
ResponseStreams ==
    UNION {ResponsesOf(items, {FALSE}, TerminalStatus, {"none"}, {FALSE}) : items \in SeqOf(ItemKinds, MaxOutputItems)}
    \cup UNION {ResponsesOf(items, {TRUE}, {"completed"}, {"none"}, {FALSE}) : items \in SeqOf(ItemKinds, MaxOutputItems - 1)}
    \cup UNION {ResponsesOf(items, {FALSE}, {"none", "completed"},
                            {"none"} \cup FailureEvents \cup TransportErrors, BOOLEAN) : items \in SeqOf(ItemKinds, 1)}

Listed(s, places, kinds) ==
    SelectSeq([i \in DOMAIN s.items |-> i], LAMBDA i : i \in places /\ s.items[i] \in kinds)
\* doneItems, in the order of their events.
DoneOf(s, kinds) ==
    LET once == Listed(s, s.done, kinds) IN IF s.again THEN once \o once ELSE once
DeltasOf(s, kinds) == IF s.deltas THEN Listed(s, DOMAIN s.items, kinds) ELSE <<>>
FirstNonEmpty(choices) ==
    LET some == SelectSeq(choices, LAMBDA c : c # <<>>) IN IF some = <<>> THEN <<>> ELSE Head(some)

MapResponsesStopReason(s) ==
    CASE Listed(s, s.terminal, {"call", "call no id"}) # <<>> -> "tool_use"
      [] s.end = "max_output_tokens" -> "max_tokens"
      [] OTHER -> "end_turn"

ConvertResponsesResponse(s) ==
    [err |-> "", stop |-> MapResponsesStopReason(s),
     content |-> FirstNonEmpty(<<Listed(s, s.terminal, {"text"}), Listed(s, s.terminal, {"refusal"})>>),
     reasoning |-> Listed(s, s.terminal, {"reasoning", "reasoning no id"}),
     items |-> Listed(s, s.terminal, {"reasoning"}),
     calls |-> Listed(s, s.terminal, {"call", "call no id"})]

(* What the terminal event left out is taken from the deltas, else from the *)
(* finished items, refusals excepted; a call or a reasoning item that is    *)
(* finished only when it has an id not yet known.                           *)
FallbackWithoutDedup(s, r) ==
    LET calls == r.calls \o DoneOf(s, {"call"})
    IN  [r EXCEPT !.content = FirstNonEmpty(<<@, DeltasOf(s, {"text"}), DeltasOf(s, {"refusal"}),
                                              DoneOf(s, {"text"})>>),
                  !.calls = calls, !.stop = IF calls # <<>> THEN "tool_use" ELSE @]
ApplyStreamedOutputFallback(s, r) ==
    LET unknown(known, kinds) ==
            FoldLeft(LAMBDA new, i : IF i \in ToSet(known \o new) THEN new ELSE Append(new, i),
                     <<>>, DoneOf(s, kinds))
        calls == r.calls \o unknown(r.calls, {"call"})
    IN  [r EXCEPT !.content = FirstNonEmpty(<<@, DeltasOf(s, {"text"}), DeltasOf(s, {"refusal"}),
                                              DoneOf(s, {"text"})>>),
                  !.reasoning = FirstNonEmpty(<<@, DeltasOf(s, {"reasoning", "reasoning no id"}),
                                                DoneOf(s, {"reasoning", "reasoning no id"})>>),
                  !.items = @ \o unknown(@, {"reasoning"}),
                  !.calls = calls,
                  !.stop = IF calls # <<>> THEN "tool_use" ELSE @]

(* responsesSSEError: the code of the event decides whether the router may  *)
(* try again.                                                               *)
IsTransientResponsesSSECode(failure) == failure \in {"error transient", "failed transient"}
EveryFailureRetryable(s) == [err |-> s.failure, retryable |-> TRUE]
ResponsesSSEError(s) ==
    [err |-> s.failure, retryable |-> IsTransientResponsesSSECode(s.failure)]

(* wrapResponsesError and WrapProviderError: a timeout, a reset, an EOF or a *)
(* passing status may be tried again, a cancellation or another status not.  *)
WrapResponsesError(s) == [err |-> s.failure, retryable |-> s.failure = "broken transient"]

(* Mutant: the error of the stream counts only when no terminal event came. *)
TransportErrorForgiven(s) == s.failure \in TransportErrors /\ s.end = "none"
StreamErr(s) == s.failure \in TransportErrors

SinkFailed(s) == s.sinkFails /\ DeltasOf(s, ItemKinds \ {"call", "call no id"}) # <<>>
ResponsesAPICompletionStream(s) ==
    CASE SinkFailed(s) -> [err |-> "sink", retryable |-> FALSE]
      [] s.failure \in FailureEvents -> ResponsesSSEError(s)
      [] StreamErr(s) -> WrapResponsesError(s)
      [] s.end = "none" -> [err |-> "unexpected EOF", retryable |-> TRUE]
      [] OTHER -> ApplyStreamedOutputFallback(s, ConvertResponsesResponse(s))

(* However the backend spreads its output over deltas, finished items and   *)
(* the terminal event, and however often it reports an item, the agent gets *)
(* every call and reasoning item with an id that came in any form, once; a  *)
(* stop reason that says tool_use exactly when there is a call; the         *)
(* terminal event's own text before any other; and something to read        *)
(* whenever the model said something, but for a refusal that came as a      *)
(* finished item only, which ends as an empty success, against the intent   *)
(* of :613-615 (provider_openai_responses.go:640, :680, :722).  Text that   *)
(* is taken from finished items stands there as often as it was reported.   *)
ResponsesComplete ==
    Picked("responses") =>
        LET s == case[1] got == ResponsesAPICompletionStream(s)
            came == s.done \cup s.terminal
            in(kind) == {i \in DOMAIN s.items : s.items[i] = kind}
            said == in("text") \cup in("refusal")
            unread == in("refusal") \ s.terminal
        IN  got.err = "" =>
            /\ IsInjective(got.calls) /\ IsInjective(got.items)
            /\ ToSet(got.calls) = (in("call") \cap came) \cup (in("call no id") \cap s.terminal)
            /\ ToSet(got.items) = in("reasoning") \cap came
            /\ (got.stop = "tool_use") <=> (got.calls # <<>>)
            /\ got.stop = "max_tokens" => s.end = "max_output_tokens"
            /\ in("text") \cap s.terminal # {} => ToSet(got.content) = in("text") \cap s.terminal
            /\ (got.content = <<>>) <=> IF s.deltas THEN said = {}
                                        ELSE (said \cap came) \ unread = {}
            /\ ~IsInjective(got.content) => s.again /\ ~s.deltas /\ said \cap s.terminal = {}

(* A failure the stream reports as an event, a broken connection, also      *)
(* after the terminal event, or a missing terminal event is an error,       *)
(* retried only where it names a passing condition; a sink that failed      *)
(* comes before all of them (provider_openai_responses.go:241, :250, :207). *)
ResponsesFailuresSurface ==
    Picked("responses") =>
        LET s == case[1] got == ResponsesAPICompletionStream(s)
        IN  /\ (s.failure # "none" \/ s.end = "none" \/ SinkFailed(s)) <=> got.err # ""
            /\ got.err # "" =>
                   (got.retryable <=> /\ ~SinkFailed(s)
                                      /\ \/ s.failure \in {"error transient", "failed transient", "broken transient"}
                                         \/ s.failure = "none")

ProviderNext ==
    \/ Pick("sse", Bodies)
    \/ Pick("stream", Streams)
    \/ Pick("responses", ResponseStreams)

(* However the connection cuts, pads, interleaves or fails, and wherever in  *)
(* the stream the Responses API puts its output, a streamed answer is the    *)
(* whole answer, heard once, or an error; ResponsesComplete names the two    *)
(* exceptions, a refusal in a finished item only and text in one that is     *)
(* reported twice (sse_sanitize.go, provider_openai.go:414,                  *)
(* provider_anthropic.go:346, provider_openai_responses.go:250, 640-722).    *)
StreamsAssembled ==
    /\ StreamSurvives
    /\ OtherBodiesUntouched
    /\ StreamedLikeWhole
    /\ TruncationNeverAnAnswer
    /\ SinkErrorFinal
    /\ ResponsesComplete
    /\ ResponsesFailuresSurface
=============================================================================
