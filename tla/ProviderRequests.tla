-------------------------- MODULE ProviderRequests --------------------------
(***************************************************************************)
(* What a provider sends: one history of messages in the shapes of the     *)
(* four wire protocols (llm/provider_openai.go, provider_openai_responses, *)
(* provider_anthropic.go, provider_google.go), the thinking budget of the  *)
(* Messages API, the reasoning controls of the chat protocol's model       *)
(* families, and the credentials of a request.  A session may change its   *)
(* model, so any wire may have to carry calls another one produced.        *)
(***************************************************************************)
EXTENDS Cases, Integers, FiniteSets, SequencesExt

CONSTANTS MaxTurns

ASSUME ProviderRequestsAssumption == MaxTurns \in Nat

----------------------------------------------------------------------------
(* A message.  content 0 is the empty string.  Names, signatures and the    *)
(* ids of tool calls are sequences of tokens, as finely cut as the wires    *)
(* look at them: "sep" is the separator of a signature, and the tokens of   *)
(* Rejected are the characters the Messages API does not take in an id.     *)
Msg(role, content, blocks, calls, toolCallID) ==
    [role |-> role, content |-> content, blocks |-> blocks, calls |-> calls, toolCallID |-> toolCallID]
NoID == <<>>

(* googleThoughtSignatureID and its inverse. *)
GoogleThoughtSignatureID(name, sig) == IF sig = <<>> THEN name ELSE name \o <<"sep">> \o sig
SignatureAlwaysDropped(id) == <<>>
GoogleThoughtSignatureFromID(id) ==
    IF \E i \in DOMAIN id : id[i] = "sep"
    THEN SubSeq(id, (CHOOSE i \in DOMAIN id : id[i] = "sep" /\ \A j \in 1..(i - 1) : id[j] # "sep") + 1, Len(id))
    ELSE <<>>

(* The parts of a Gemini answer, and the message parseGoogleResponse makes  *)
(* of them: thoughts go to the reasoning, the text to the content.          *)
CallPart(name, sig) == [part |-> "call", name |-> <<name>>, sig |-> sig]
GoogleParts == {<<CallPart("t", <<>>)>>,
                <<CallPart("t", <<>>), CallPart("t", <<>>)>>,  \* one function, called twice
                <<[part |-> "thought"], CallPart("t", <<"s", "+">>)>>,
                <<CallPart("t", <<"s", "+">>), CallPart("t", <<"s", "/">>)>>,
                <<[part |-> "text"], CallPart("t", <<"s", "+">>), CallPart("u", <<>>)>>}
ParseGoogleResponse(parts) ==
    LET calls == SelectSeq(parts, LAMBDA p : p.part = "call")
    IN  Msg("assistant", IF \E i \in DOMAIN parts : parts[i].part = "text" THEN 1 ELSE 0, <<>>,
            [i \in DOMAIN calls |-> [id |-> GoogleThoughtSignatureID(calls[i].name, calls[i].sig),
                                     name |-> calls[i].name]], NoID)

(* The turns a history is made of.  The calls of an assistant are answered  *)
(* one by one, in their order; a result may be empty (executor_run.go).     *)
Answered(assistant, output) ==
    <<assistant>> \o [i \in DOMAIN assistant.calls |->
                         Msg("tool", output, <<>>, <<>>, assistant.calls[i].id)]

(* Other endpoints mint the ids; nothing keeps one from minting an id again *)
(* in a later answer, for another function.                                 *)
Called(id, name) == [id |-> id, name |-> <<name>>]
OpaqueCalls == {<<Called(<<"call", "0">>, "t")>>, <<Called(<<"call", "0">>, "u")>>,
                <<Called(<<"call", ":", "2">>, "t"), Called(<<"call", ".", "2">>, "u")>>,
                <<Called(<<"call", ":", "2">>, "t"), Called(<<"call", "3">>, "t")>>}
Turns ==
    {<<Msg(r, 1, <<>>, <<>>, NoID)>> : r \in {"system", "user", "assistant"}}
    \cup {<<Msg("assistant", 0, <<>>, <<>>, NoID)>>}  \* reasoning and nothing else
    \cup {<<Msg("user", c, b, <<>>, NoID)>> :
             c \in {0, 1}, b \in {<<"image">>, <<"text", "image">>, <<"unknown">>}}
    \cup {Answered(ParseGoogleResponse(p), o) : p \in GoogleParts, o \in {0, 1}}
    \cup {Answered(Msg("assistant", 0, <<>>, c, NoID), 1) : c \in OpaqueCalls}

ChatRequests == [turns : SeqOf(Turns, MaxTurns), effort : {"On", "Off"},
             maxTokens : {0, 2047, 2048, 32000, 32001}]
Messages(request) == FlattenSeq(request.turns)

----------------------------------------------------------------------------
NormalizeContentBlocks(m) ==
    IF m.blocks # <<>> /\ "text" \notin ToSet(m.blocks) /\ m.content # 0
    THEN <<"text">> \o m.blocks ELSE m.blocks

(* ExtractSystemPrompt: the prompt is hoisted out of the history. *)
Filtered(messages) == SelectSeq(messages, LAMBDA m : m.role # "system")

RenderedBlocksIgnoringContent(m) ==
    IF m.blocks = <<>> THEN <<"text">> ELSE SelectSeq(m.blocks, LAMBDA b : b \in {"text", "image"})
RenderedBlocks(m) ==
    IF m.blocks = <<>> THEN <<"text">>
    ELSE SelectSeq(NormalizeContentBlocks(m), LAMBDA b : b \in {"text", "image"})

TextIfAny(m) == IF m.content # 0 THEN <<"text">> ELSE <<>>

(* A wire message: a side, its parts, and the calls and results in it, each *)
(* with what the wire correlates them by.                                   *)
Wire(side, parts, calls, results) ==
    [side |-> side, parts |-> parts, calls |-> calls, results |-> results]

(* convertRequestMessage and buildChatParams: an empty tool result is       *)
(* replaced by a placeholder, the prompt is one leading message.            *)
ChatMessage(m) ==
    CASE m.role = "user" -> Wire("user", RenderedBlocks(m), <<>>, <<>>)
      [] m.role = "assistant" -> Wire("model", <<"text">>, [i \in DOMAIN m.calls |-> m.calls[i].id], <<>>)
      [] OTHER -> Wire("user", <<"text">>, <<>>, <<m.toolCallID>>)
BuildChatParams(messages) ==
    LET filtered == Filtered(messages) IN [i \in DOMAIN filtered |-> ChatMessage(filtered[i])]

(* convertToResponsesInput: an item per call and per result. *)
ResponsesItems(m) ==
    CASE m.role = "user" -> <<Wire("user", RenderedBlocks(m), <<>>, <<>>)>>
      [] m.role = "assistant" ->
             [i \in DOMAIN TextIfAny(m) |-> Wire("model", <<"text">>, <<>>, <<>>)]
             \o [i \in DOMAIN m.calls |-> Wire("model", <<"call">>, <<m.calls[i].id>>, <<>>)]
      [] OTHER -> <<Wire("user", <<"text">>, <<>>, <<m.toolCallID>>)>>
ConvertToResponsesInput(messages) ==
    LET filtered == Filtered(messages)
    IN  FlattenSeq([i \in DOMAIN filtered |-> ResponsesItems(filtered[i])])

(* sanitizeAnthropicToolID: every character the Messages API rejects is _.  *)
Rejected == {"sep", ":", ".", "+", "/"}
SanitizeAnthropicToolID(id) == [i \in DOMAIN id |-> IF id[i] \in Rejected THEN "_" ELSE id[i]]

(* buildRequest and convertMessage of the Messages API. *)
AnthropicMessage(m) ==
    CASE m.role = "user" -> Wire("user", RenderedBlocks(m), <<>>, <<>>)
      [] m.role = "assistant" ->
             Wire("model", TextIfAny(m) \o [i \in DOMAIN m.calls |-> "call"],
                  [i \in DOMAIN m.calls |-> SanitizeAnthropicToolID(m.calls[i].id)], <<>>)
      [] OTHER -> Wire("user", <<"result">>, <<>>, <<SanitizeAnthropicToolID(m.toolCallID)>>)
Renderable(m) == m.content # 0 \/ m.blocks # <<>> \/ m.calls # <<>> \/ m.toolCallID # NoID
BuildAnthropicMessages(messages) ==
    LET kept == SelectSeq(Filtered(messages), Renderable)
    IN  SelectSeq([i \in DOMAIN kept |-> AnthropicMessage(kept[i])], LAMBDA w : w.parts # <<>>)

HistoryHasAssistantToolUse(messages) ==
    \E i \in DOMAIN messages : messages[i].role = "assistant" /\ messages[i].calls # <<>>

(* The budget of a thinking request; 0: no thinking. *)
ThinkingWheneverAsked(request) ==
    LET maxTokens == IF request.maxTokens <= 0 THEN 8192 ELSE request.maxTokens
    IN  IF request.effort = "On" THEN (IF maxTokens <= 32000 THEN maxTokens \div 2 ELSE 32000) ELSE 0
ThinkingBudget(request) ==
    LET maxTokens == IF request.maxTokens <= 0 THEN 8192 ELSE request.maxTokens
        budget == IF maxTokens <= 32000 THEN maxTokens \div 2 ELSE 32000
    IN  IF /\ request.effort = "On" /\ budget >= 1024
           /\ ~HistoryHasAssistantToolUse(Messages(request))
        THEN budget ELSE 0

(* buildGoogleRequest: a run of tool results is one turn; a result names    *)
(* the function, found through the id of the call.  A call carries its name *)
(* and its signature.                                                       *)
BuildToolCallIDIndex(messages) ==
    LET calls == FlattenSeq([i \in DOMAIN messages |-> messages[i].calls])
    IN  [id \in {c.id : c \in ToSet(calls)} |-> Last(SelectSeq(calls, LAMBDA c : c.id = id)).name]
GoogleFunctionResponse(m, index) == IF m.toolCallID \in DOMAIN index THEN index[m.toolCallID] ELSE m.toolCallID
ConvertGoogleMessage(m) ==
    CASE m.role = "user" ->
             Wire("user", IF m.blocks # <<>> THEN RenderedBlocks(m) ELSE TextIfAny(m), <<>>, <<>>)
      [] OTHER ->
             Wire("model", TextIfAny(m) \o [i \in DOMAIN m.calls |-> "call"],
                  [i \in DOMAIN m.calls |-> [name |-> m.calls[i].name,
                                             sig |-> GoogleThoughtSignatureFromID(m.calls[i].id)]], <<>>)
AddGoogleMessageUnbundled(contents, m, index) ==
    IF m.role = "tool"
    THEN Append(contents, Wire("user", <<"result">>, <<>>, <<GoogleFunctionResponse(m, index)>>))
    ELSE Append(contents, ConvertGoogleMessage(m))
AddGoogleMessage(contents, m, index) ==
    LET response == GoogleFunctionResponse(m, index)
    IN  CASE m.role = "tool" /\ contents # <<>> /\ Last(contents).results # <<>> ->
                 [contents EXCEPT ![Len(contents)].parts = Append(@, "result"),
                                  ![Len(contents)].results = Append(@, response)]
          [] m.role = "tool" -> Append(contents, Wire("user", <<"result">>, <<>>, <<response>>))
          [] OTHER -> Append(contents, ConvertGoogleMessage(m))
BuildGoogleRequest(messages) ==
    LET filtered == SelectSeq(Filtered(messages), Renderable)
        index == BuildToolCallIDIndex(filtered)
    IN  FoldLeft(LAMBDA contents, m : AddGoogleMessage(contents, m, index), <<>>, filtered)

OnWire(messages) ==
    [chat |-> BuildChatParams(messages), responses |-> ConvertToResponsesInput(messages),
     anthropic |-> BuildAnthropicMessages(messages), google |-> BuildGoogleRequest(messages)]

(* On every wire the calls and the results pair up: read from left to right *)
(* the results come in the order of the calls and name them as the wire     *)
(* names them, none is sent without its call before it, and Google's come   *)
(* in one turn per turn of calls, as many as the calls, each under the name *)
(* of its function; only the result of an id that is minted again later for *)
(* another function goes under that one's name (provider_google.go:311,     *)
(* :447, provider_anthropic.go:596).                                        *)
ResultsMatchCalls ==
    Picked("history") =>
        LET messages == Messages(case[1])
            wires == OnWire(messages)
            all(w, field) == FlattenSeq([i \in DOMAIN w |-> w[i][field]])
            sent(w, n) == all(SubSeq(w, 1, n), "calls")
            asking == SelectSeq(messages, LAMBDA m : m.calls # <<>>)
            google == wires.google
            askingTurns == SelectSeq([n \in DOMAIN google |-> n], LAMBDA n : google[n].calls # <<>>)
            made == all(messages, "calls")
            mintedAgain(call) ==
                \E j \in DOMAIN made : /\ made[j].id = call.id /\ made[j].name # call.name
                                        /\ \A l \in (j + 1)..Len(made) : made[l].id # call.id
        IN  /\ \A p \in {"chat", "responses", "anthropic"} :
                   /\ all(wires[p], "results") = all(wires[p], "calls")
                   /\ \A n \in DOMAIN wires[p] :
                          wires[p][n].results # <<>> =>
                              Len(all(SubSeq(wires[p], 1, n), "results")) <= Len(sent(wires[p], n - 1))
            /\ Len(askingTurns) = Len(asking)
            /\ \A k \in DOMAIN askingTurns :
                   LET n == askingTurns[k] calls == asking[k].calls
                   IN  /\ n < Len(google)
                       /\ Len(google[n + 1].results) = Len(calls)
                       /\ \A i \in DOMAIN calls :
                              google[n + 1].results[i] = calls[i].name <=> ~mintedAgain(calls[i])

(* The calls of one answer carry ids that tell their results apart, on      *)
(* every wire that pairs by id, but for two calls of one function with the  *)
(* same signature or none in a Gemini answer, whose id is the name          *)
(* (provider_google.go:558), and on the Messages wire for ids that differ   *)
(* only in the characters it rejects (provider_anthropic.go:29).            *)
CallsToldApart ==
    Picked("history") =>
        LET messages == Messages(case[1])
            wires == OnWire(messages)
            twice(ids) == \E i, j \in DOMAIN ids : i # j /\ ids[i] = ids[j]
            asking == SelectSeq(messages, LAMBDA m : m.calls # <<>>)
            chat == SelectSeq(wires.chat, LAMBDA w : w.calls # <<>>)
            anthropic == SelectSeq(wires.anthropic, LAMBDA w : w.calls # <<>>)
        IN  \A k \in DOMAIN asking :
                LET calls == asking[k].calls
                    pairs == {p \in (DOMAIN calls) \X (DOMAIN calls) : p[1] # p[2]}
                    id(i) == calls[i].id
                    sig(i) == GoogleThoughtSignatureFromID(calls[i].id)
                    own(i) == calls[i].id = GoogleThoughtSignatureID(calls[i].name, sig(i))
                IN  /\ twice(chat[k].calls) <=>
                           \E p \in pairs : /\ own(p[1]) /\ own(p[2])
                                            /\ calls[p[1]].name = calls[p[2]].name /\ sig(p[1]) = sig(p[2])
                    /\ twice(anthropic[k].calls) <=>
                           \E p \in pairs :
                               /\ Len(id(p[1])) = Len(id(p[2]))
                               /\ \A x \in DOMAIN id(p[1]) : id(p[1])[x] = id(p[2])[x]
                                                            \/ {id(p[1])[x], id(p[2])[x]} \subseteq Rejected

(* Whatever the user said in words or pictures is on every wire, in order,  *)
(* the instruction beside a picture included (message.go:60).  A message of *)
(* blocks nobody knows and no text is left out of the Messages request,     *)
(* which has no empty turn (provider_anthropic.go:421); on the other wires  *)
(* it is an empty turn, on Google's too, whose filter for empty turns looks *)
(* at the blocks before they are rendered (provider_google.go:335).         *)
UserHeard ==
    Picked("history") =>
        LET messages == Messages(case[1])
            wires == OnWire(messages)
            unknown(m) == m.role = "user" /\ m.content = 0 /\ m.blocks = <<"unknown">>
            said == SelectSeq(messages, LAMBDA m : m.role = "user" /\ ~unknown(m))
            empty(w) == Len(SelectSeq(w, LAMBDA x : x.parts = <<>>))
            want(m) == (IF m.content # 0 /\ "text" \notin ToSet(m.blocks) THEN <<"text">> ELSE <<>>)
                       \o SelectSeq(m.blocks, LAMBDA b : b # "unknown")
            heard(w) == SelectSeq(w, LAMBDA x : x.side = "user" /\ x.results = <<>> /\ x.parts # <<>>)
        IN  /\ \A p \in DOMAIN wires :
                   [i \in DOMAIN heard(wires[p]) |-> heard(wires[p])[i].parts] = [i \in DOMAIN said |-> want(said[i])]
            /\ empty(wires.anthropic) = 0
            /\ \A p \in {"chat", "responses", "google"} :
                   empty(wires[p]) = Len(SelectSeq(messages, unknown))

(* A thinking request is one the Messages API takes: a budget of at least   *)
(* 1024 and below max_tokens, and no assistant turn with tool use whose     *)
(* thinking block is gone (provider_anthropic.go:491).                      *)
ThinkingAcceptable ==
    Picked("history") =>
        LET request == case[1]
            maxTokens == IF request.maxTokens <= 0 THEN 8192 ELSE request.maxTokens
            wire == BuildAnthropicMessages(Messages(request))
        IN  ThinkingBudget(request) # 0 =>
                /\ ThinkingBudget(request) \in 1024..(maxTokens - 1)
                /\ \A i \in DOMAIN wire : wire[i].calls = <<>>

(* What Gemini signed comes back to it signed: the calls of an answer are   *)
(* re-sent with their names and signatures, in their order, through the     *)
(* history and whatever was said in between (provider_google.go:481).       *)
SignaturesReturned ==
    Picked("history") =>
        LET turns == case[1].turns
            sent == FlattenSeq([i \in DOMAIN BuildGoogleRequest(Messages(case[1])) |->
                                   BuildGoogleRequest(Messages(case[1]))[i].calls])
            signed == SelectSeq(sent, LAMBDA c : c.sig # <<>>)
            produced(t) ==
                IF \E p \in GoogleParts, o \in {0, 1} : t = Answered(ParseGoogleResponse(p), o)
                THEN LET p == CHOOSE q \in GoogleParts : \E o \in {0, 1} : t = Answered(ParseGoogleResponse(q), o)
                         signedParts == SelectSeq(p, LAMBDA x : x.part = "call" /\ x.sig # <<>>)
                     IN  [i \in DOMAIN signedParts |-> [name |-> signedParts[i].name, sig |-> signedParts[i].sig]]
                ELSE <<>>
        IN  signed = FlattenSeq([i \in DOMAIN turns |-> produced(turns[i])])

HistoryNext == Pick("history", ChatRequests)

----------------------------------------------------------------------------
(* The credentials of one outgoing request: the provider's static key (in   *)
(* the place its SDK or URL has for it) and a host's token source, which    *)
(* may fail, give a token or leave the token empty, and may ask for extra   *)
(* headers, an empty one meaning the header goes.                           *)
StaticPlace == [openai |-> "Authorization", anthropic |-> "x-api-key", google |-> "key="]
CredentialCases ==
    [api : DOMAIN StaticPlace, static : BOOLEAN, source : {"none", "fails", "token", "empty"},
     extra : {"none", "account", "no authorization"}]

(* applyBearerToken, and the query parameter Google's delegate removes.     *)
KeepStaticBesideToken(c, headers) == headers \cup {<<"Authorization", "token">>}
BesideToken(c, headers) ==
    {h \in headers : h[1] \notin {"Authorization", StaticPlace[c.api]}} \cup {<<"Authorization", "token">>}
ApplyBearerToken(c, headers) ==
    LET withToken == IF c.source = "token" THEN BesideToken(c, headers) ELSE headers
    IN  CASE c.extra = "account" -> withToken \cup {<<"account", "token">>}
          [] c.extra = "no authorization" -> {h \in withToken : h[1] # "Authorization"}
          [] OTHER -> withToken

StaticHeaders(c) == IF c.static THEN {<<StaticPlace[c.api], "static">>} ELSE {}
SendWithCredentials(c) ==
    CASE c.source = "none" -> [sent |-> TRUE, headers |-> StaticHeaders(c)]
      [] c.source = "fails" -> [sent |-> FALSE, headers |-> {}]
      [] OTHER -> [sent |-> TRUE, headers |-> ApplyBearerToken(c, StaticHeaders(c))]

CredentialsNext == Pick("credentials", CredentialCases)

(* On every protocol a dynamic credential travels alone: never beside the   *)
(* static key it replaces, and a source that fails sends nothing at all,    *)
(* not even with the key; a source with no token leaves the key in place    *)
(* (tokensource.go:71, provider_google.go:211).                             *)
CredentialsExclusive ==
    Picked("credentials") =>
        LET c == case[1] got == SendWithCredentials(c)
            static == {h \in got.headers : h[2] = "static"}
        IN  /\ <<"Authorization", "token">> \in got.headers => static = {}
            /\ c.source = "token" => static = {}
            /\ c.source = "fails" <=> ~got.sent
            /\ c.static /\ c.source \in {"none", "empty"} /\ c.extra # "no authorization" => static # {}

(* Any history, whichever protocols its turns came from, says all the user   *)
(* said on the protocol at hand, with calls and results paired by order, and *)
(* by id and name but for the named ids that coincide; and it travels under  *)
(* one credential (provider_google.go:311, provider_anthropic.go:421-596,    *)
(* tokensource.go:71).                                                       *)
HistoryAccepted ==
    /\ ResultsMatchCalls
    /\ CallsToldApart
    /\ UserHeard
    /\ ThinkingAcceptable
    /\ SignaturesReturned
    /\ CredentialsExclusive
=============================================================================
