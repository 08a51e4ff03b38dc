------------------------------ MODULE LLMRouter ------------------------------
(***************************************************************************)
(* llm/router.go and llm/errors.go: the router that every LLM call goes      *)
(* through.  Call takes the active provider and model under the read lock    *)
(* once and then retries on that snapshot, while hosts switch the model with *)
(* SetModel.  A streaming attempt delivers deltas before it succeeds or      *)
(* fails.  Durations are left out: a backoff ends by its timer or by the     *)
(* context, whichever select takes.                                          *)
(***************************************************************************)
EXTENDS Integers, Sequences, FiniteSets

CONSTANTS
    Callers,      \* goroutines with a Call of their own
    Providers,    \* configured providers, in order: records [name, rank, first, models],
                  \* rank: the place of its name in the order of strings
    Switches,     \* the arguments hosts give SetModel: [composite, provider, model]
    Meta,         \* what the registry knows of each model: [window, output], 0 for unknown
    Reserve,      \* the output reserve for a model without one
    Margin,       \* the safety margin of the context check, in percent
    Sizes,        \* the estimated tokens of requests
    MaxRetries,   \* RouterConfig.MaxRetries, negative and zero included
    MaxBackoff    \* the cap on the backoff, in units of the initial backoff

-----------------------------------------------------------------------------
(* Failures (errors.go)                                                      *)

(* A failure is an HTTP status (0: none) and the class of its cause.         *)
ErrKindForStatus(status) == CASE status = 429 -> "rate_limit" [] status = 529 -> "overloaded" [] OTHER -> "none"

ClassifyHTTPStatus(status) == status \in {408, 429, 500, 502, 503, 504, 520, 521, 522, 523, 524, 529}

ClassifyNetError(cause) == cause \in {"timeout", "errno", "dns", "eof"}

WrapProviderError(status, cause) ==
    [retryable |-> (status > 0 /\ ClassifyHTTPStatus(status)) \/ ClassifyNetError(cause),
     kind |-> ErrKindForStatus(status)]

-----------------------------------------------------------------------------
(* The context window                                                        *)

OutputReserve(meta, reserve) == IF meta.output > 0 THEN meta.output ELSE reserve

(* validateContextWindow: unknown windows, and reserves that leave nothing,  *)
(* are not checked.                                                          *)
FitsWindow(meta, reserve, margin, tokens) ==
    LET left == meta.window - OutputReserve(meta, reserve)
    IN meta.window = 0 \/ left <= 0 \/ tokens <= (left * (100 - margin)) \div 100

-----------------------------------------------------------------------------
(* applyDefaultSampling: a request's temperature and other parameters, each  *)
(* "nil" or set, against the registry's knowledge of the model ("unknown",   *)
(* "guessed", "fixed": takes no temperature, "free") and the host's presets. *)

ApplyDefaultSampling(req, known, preset) ==
    CASE known = "fixed" -> [req EXCEPT !.temp = "nil", !.rest = "nil"]
      [] known \in {"unknown", "guessed"} -> req
      [] req.deterministic -> [req EXCEPT !.temp = IF @ = "nil" THEN "family" ELSE @]
      [] OTHER -> [req EXCEPT !.temp = IF @ # "nil" THEN @ ELSE IF preset.temp # "nil" THEN preset.temp
                                       ELSE IF preset.host THEN "nil" ELSE "zero",
                              !.rest = IF @ = "nil" THEN preset.rest ELSE @]

-----------------------------------------------------------------------------
(* Providers and calls                                                       *)

Pair == [provider : STRING, model : STRING]
Names == {Providers[i].name : i \in DOMAIN Providers}
(* modelToProvider: composite ids are pairs here, never concatenated text.   *)
Enabled == UNION {{[provider |-> Providers[i].name, model |-> m] : m \in Providers[i].models} : i \in DOMAIN Providers}

(* The models a request may name, "none" for none.                           *)
Named == DOMAIN Meta \union {"none"}

ASSUME RouterConstants ==
    /\ Providers \in Seq([name : STRING, rank : Nat, first : STRING, models : SUBSET STRING])
    /\ Len(Providers) > 0 /\ \A i \in DOMAIN Providers : Providers[i].first \in Providers[i].models
    /\ Meta \in [DOMAIN Meta -> [window : Nat, output : Nat]] /\ \A p \in Enabled : p.model \in DOMAIN Meta
    /\ Reserve \in Nat /\ Margin \in 0 .. 100 /\ Sizes \subseteq Nat /\ Sizes # {}
    /\ MaxRetries \in {0 - 1} \union Nat /\ MaxBackoff \in Nat

VARIABLES
    active,    \* activeProvider, activeModel and activeBareModel
    req        \* the Call of each goroutine

routerVars == <<active, req>>

(* NewRouter: zero means the default, a negative value means none.           *)
Retries == IF MaxRetries = 0 THEN 3 ELSE IF MaxRetries < 0 THEN 0 ELSE MaxRetries

(* on: the provider and the model of the snapshot; own: the model the caller *)
(* named, "none" for none; model: the one the request is sent with.          *)
NoPair == [provider |-> "none", model |-> "none"]
IdleReq == [pc |-> "idle", sink |-> FALSE, on |-> NoPair, own |-> "none", model |-> "none", tokens |-> 0, attempt |-> 0, backoff |-> 1, emitted |-> FALSE,
            shown |-> {}, cancelled |-> FALSE, out |-> "none"]

RouterInit ==
    /\ active = [provider |-> Providers[1].name, model |-> Providers[1].first]
    /\ req = [c \in Callers |-> IdleReq]

(* The failures a provider reports: HTTP statuses, network failures, and the *)
(* error of a sink, which is passed on as it is.                             *)
Failures == {[status |-> s, net |-> "other"] : s \in {400, 429}} \union {[status |-> 0, net |-> n] : n \in {"eof", "canceled"}}

IsRetryable(f) == WrapProviderError(f.status, f.net).retryable

-----------------------------------------------------------------------------
(* SetModel                                                                  *)

(* A bare name selects the first enabled pair in the order of their ids.     *)
Matches(s) == IF s.composite THEN Enabled \intersect {[provider |-> s.provider, model |-> s.model]}
              ELSE {p \in Enabled : p.model = s.model}
IndexOf(p) == (CHOOSE i \in DOMAIN Providers : Providers[i].name = p.provider)
FirstMatch(S) == CHOOSE p \in S : \A q \in S : Providers[IndexOf(p)].rank <= Providers[IndexOf(q)].rank

(* Mutant: a bare name changes the model and leaves the provider.            *)
SetModelBareKeepsProvider(s) ==
    /\ Matches(s) # {}
    /\ active' = IF s.composite THEN FirstMatch(Matches(s)) ELSE [active EXCEPT !.model = s.model]

SetModel(s) ==
    /\ Matches(s) # {}
    /\ active' = FirstMatch(Matches(s))

-----------------------------------------------------------------------------
(* Call                                                                      *)

At(c, pc) == req[c].pc = pc

(* The snapshot; sink: the caller subscribes to deltas.                      *)
BeginCall(c, sink, own) ==
    [IdleReq EXCEPT !.pc = "prepare", !.sink = sink, !.own = own, !.on = active, !.cancelled = req[c].cancelled]

Returns(c, out) == req' = [req EXCEPT ![c].pc = "returned", ![c].out = out]

Prepared(r, model, tokens, fits) ==
    [r EXCEPT !.pc = IF fits THEN "attempt" ELSE "returned", !.out = IF fits THEN "none" ELSE "window",
              !.model = model, !.tokens = tokens]

(* Mutant: the window checked is that of the active model.                   *)
PrepareChecksActive(c) ==
    /\ At(c, "prepare")
    /\ \E tokens \in Sizes :
         LET model == IF req[c].own = "none" THEN req[c].on.model ELSE req[c].own
         IN req' = [req EXCEPT ![c] = Prepared(req[c], model, tokens, FitsWindow(Meta[req[c].on.model], Reserve, Margin, tokens))]
    /\ UNCHANGED active

(* Mutant: the active model replaces the one the caller named.               *)
PrepareOverwrites(c) ==
    /\ At(c, "prepare")
    /\ \E tokens \in Sizes :
         LET model == req[c].on.model
         IN req' = [req EXCEPT ![c] = Prepared(req[c], model, tokens, FitsWindow(Meta[model], Reserve, Margin, tokens))]
    /\ UNCHANGED active

(* The caller's own model stays, whoever serves it; the window is that       *)
(* model's.                                                                  *)
Prepare(c) ==
    /\ At(c, "prepare")
    /\ \E tokens \in Sizes :
         LET model == IF req[c].own = "none" THEN req[c].on.model ELSE req[c].own
         IN req' = [req EXCEPT ![c] = Prepared(req[c], model, tokens, FitsWindow(Meta[model], Reserve, Margin, tokens))]
    /\ UNCHANGED active

(* Mutant: every attempt asks the router for its provider again.             *)
BeginAttemptLive(c) ==
    /\ At(c, "attempt")
    /\ req' = [req EXCEPT ![c].pc = "waiting", ![c].emitted = FALSE, ![c].attempt = @ + 1, ![c].on.provider = active.provider]
    /\ UNCHANGED active

(* guard.reset, then provider.ChatCompletion                                 *)
BeginAttempt(c) ==
    /\ At(c, "attempt")
    /\ req' = [req EXCEPT ![c].pc = "waiting", ![c].emitted = FALSE, ![c].attempt = @ + 1]
    /\ UNCHANGED active

(* deltaGuard.forward                                                        *)
Emit(c) ==
    /\ At(c, "waiting") /\ req[c].sink /\ req[c].attempt \notin req[c].shown
    /\ req' = [req EXCEPT ![c].emitted = TRUE, ![c].shown = @ \union {req[c].attempt}]
    /\ UNCHANGED active

(* The subscriber fails: the stream is abandoned with its error, which is    *)
(* not an llm.Error and so not retryable.                                    *)
SinkFails(c) ==
    /\ At(c, "waiting") /\ req[c].emitted
    /\ Returns(c, "sink")
    /\ UNCHANGED active

AttemptSucceeds(c) ==
    /\ At(c, "waiting") /\ ~req[c].cancelled
    /\ Returns(c, "ok")
    /\ UNCHANGED active

(* Mutant: a retryable failure is retried whatever was delivered.            *)
AfterFailureRetries(c, retryable) ==
    IF ~retryable \/ req[c].attempt > Retries
    THEN Returns(c, "err")
    ELSE req' = [req EXCEPT ![c].pc = "backoff"]

(* Mutant: one attempt more than the budget.                                 *)
AfterFailureOneMore(c, retryable) ==
    IF req[c].emitted \/ ~retryable \/ req[c].attempt > Retries + 1
    THEN Returns(c, "err")
    ELSE req' = [req EXCEPT ![c].pc = "backoff"]

(* A delivered delta, an error that is not retryable and the last attempt    *)
(* end the call.                                                             *)
AfterFailure(c, retryable) ==
    IF req[c].emitted \/ ~retryable \/ req[c].attempt > Retries
    THEN Returns(c, "err")
    ELSE req' = [req EXCEPT ![c].pc = "backoff"]

(* The provider fails, or answers with neither a response nor an error.      *)
AttemptFails(c) ==
    /\ At(c, "waiting")
    /\ \E retryable \in {IsRetryable(f) : f \in Failures} \union {TRUE} : AfterFailure(c, retryable)
    /\ UNCHANGED active

(* Mutant: the backoff doubles without a cap.                                *)
RetryBackoffUncapped(c) ==
    /\ At(c, "backoff")
    /\ req' = [req EXCEPT ![c].pc = "attempt", ![c].backoff = 2 * @]
    /\ UNCHANGED active

(* The timer's arm of the select, also when the context is done.             *)
RetryBackoff(c) ==
    /\ At(c, "backoff")
    /\ req' = [req EXCEPT ![c].pc = "attempt", ![c].backoff = IF 2 * @ > MaxBackoff THEN MaxBackoff ELSE 2 * @]
    /\ UNCHANGED active

BackoffCancelled(c) ==
    /\ At(c, "backoff") /\ req[c].cancelled
    /\ Returns(c, "err")
    /\ UNCHANGED active

CancelCall(c) ==
    /\ ~req[c].cancelled
    /\ req' = [req EXCEPT ![c].cancelled = TRUE]
    /\ UNCHANGED active

CallStep(c) ==
    \/ Prepare(c) \/ BeginAttempt(c) \/ Emit(c) \/ SinkFails(c) \/ AttemptSucceeds(c)
    \/ AttemptFails(c) \/ RetryBackoff(c) \/ BackoffCancelled(c)

-----------------------------------------------------------------------------
(* Properties                                                                *)

(* A subscriber sees the text of one attempt only, and when the call answers  *)
(* it is that attempt's answer: an attempt that has delivered a delta is       *)
(* never followed by another.                                                 *)
OneAttemptShown == \A c \in Callers : req[c].shown \subseteq {req[c].attempt}

(* Whatever SetModel does meanwhile, every attempt of a request that names no *)
(* model goes to a provider that serves the model it was given.  A request    *)
(* that names its own keeps it, and every attempt goes to the provider of one *)
(* snapshot, whether or not that provider serves the model.                   *)
ServedByItsProvider ==
    /\ active \in Enabled
    /\ \A c \in Callers : req[c].pc \notin {"idle"} => req[c].on \in Enabled
    /\ \A c \in Callers : req[c].pc \notin {"idle", "prepare"} =>
         IF req[c].own = "none"
         THEN [provider |-> req[c].on.provider, model |-> req[c].model] \in Enabled
         ELSE req[c].model = req[c].own

(* No request goes out that leaves its answer no room in the window of the    *)
(* model it is sent with, be it the active one or the caller's own, unless    *)
(* the window is unknown or the reserve alone takes it.                       *)
RequestsFit ==
    \A c \in Callers : req[c].pc \in {"attempt", "waiting", "backoff"} =>
        LET meta == Meta[req[c].model]
            reserve == OutputReserve(meta, Reserve)
        IN meta.window > reserve => req[c].tokens + reserve <= meta.window

(* A call makes the first attempt and at most Retries more.                   *)
AttemptsBounded == \A c \in Callers : req[c].attempt <= Retries + 1
=============================================================================
