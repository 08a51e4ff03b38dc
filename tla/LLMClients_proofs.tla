-------------------------- MODULE LLMClients_proofs --------------------------
(***************************************************************************)
(* Proofs about LLMRouter and LLMClients for any number of clients, any     *)
(* providers, switches, retries, operations and replies.                    *)
(***************************************************************************)
EXTENDS LLMClients, FiniteSetTheorems, WellFoundedInduction, TLAPS

(* What a Call may look like, and what ties its fields together: an attempt  *)
(* follows only if nothing was shown and the budget allows it.               *)
ReqRecords ==
    [pc : {"idle", "prepare", "attempt", "waiting", "backoff", "returned"}, sink : BOOLEAN,
     on : Enabled \union {NoPair}, own : Named, model : Named, tokens : Nat, attempt : Nat, backoff : (0 .. MaxBackoff) \union {1}, emitted : BOOLEAN,
     shown : SUBSET Nat, cancelled : BOOLEAN, out : {"none", "ok", "err", "sink", "window"}]

(* The request leaves its answer room in the window of its model.            *)
Roomy(model, tokens) ==
    LET reserve == OutputReserve(Meta[model], Reserve)
    IN  Meta[model].window > reserve => tokens + reserve <= Meta[model].window

ReqOk(r) ==
    /\ r \in ReqRecords
    /\ r.pc # "idle" => r.on \in Enabled
    /\ r.pc \notin {"idle", "prepare"} => r.model = IF r.own = "none" THEN r.on.model ELSE r.own
    /\ r.attempt <= Retries + 1
    /\ r.pc \in {"idle", "prepare"} => r.attempt = 0
    /\ r.pc \in {"attempt", "backoff"} => r.attempt <= Retries
    /\ r.pc \in {"idle", "prepare", "attempt", "backoff"} => r.shown = {}
    /\ r.pc = "waiting" => r.shown \subseteq {r.attempt} /\ (~r.emitted => r.shown = {})
    /\ r.shown \subseteq {r.attempt}
    /\ r.pc \in {"attempt", "waiting", "backoff"} => Roomy(r.model, r.tokens)

(* An operation, by the point it has reached: a judge holds a key of the     *)
(* cache, what it is about to store or has returned is meant by a reply.     *)
OpFields == {"pc", "req", "key", "tries", "out", "value", "said", "by"}
Verdicts == {"none", "ALLOW", "CONFIRM", "DENY"}

OpOk(o) ==
    /\ DOMAIN o = OpFields
    /\ o.pc \in {"idle", "lookup", "explore", "do", "calling", "store", "done"}
    /\ o.tries \in 0 .. 3 /\ o.out \in {"none", "ok", "err"}
    /\ o.pc # "idle" => o.req \in Op
    /\ o.pc \in {"do", "calling"} => o.tries <= 2
    /\ o.pc \in {"lookup", "store"} => o.req.kind = "judge"
    /\ o.pc = "explore" => o.req.kind = "plan" /\ o.tries = 0
    /\ o.pc = "lookup" => o.tries = 0
    /\ o.pc \in {"lookup", "do", "calling", "store"} /\ o.req.kind = "judge" => o.key \in Keys
    /\ o.pc = "store" => o.value \in Verdicts /\ (o.value = "ALLOW" => o.said = "ALLOW")
    /\ o.pc = "done" /\ o.req.kind \in {"judge", "strict"} /\ o.value = "ALLOW" => o.said = "ALLOW" \/ o.req.fast
    /\ o.pc = "done" /\ o.req.kind = "loop" /\ o.value # "DENY" => o.said = o.value

ReqInv == DOMAIN req = Callers /\ \A c \in Callers : ReqOk(req[c])
OpInv == DOMAIN op = Callers /\ \A c \in Callers : OpOk(op[c])

(* The cache holds verdicts that were meant, and never more than its size.   *)
CacheInv ==
    /\ DOMAIN cache = Keys
    /\ \A k \in Keys : cache[k].verdict \in Verdicts /\ (cache[k].verdict = "ALLOW" => cache[k].said = "ALLOW")
    /\ IsFiniteSet(Filled) /\ Cardinality(Filled) <= MaxCacheSize

IInv == active \in Enabled /\ ReqInv /\ OpInv /\ CacheInv

-----------------------------------------------------------------------------
(* Operators                                                                 *)

LEMMA RetriesType == Retries \in Nat
  BY RouterConstants DEF Retries

(* A share of at most a hundred percent is at most the whole.                *)
LEMMA Percentage ==
    ASSUME NEW n \in Nat, NEW margin \in 0 .. 100
    PROVE  (n * (100 - margin)) \div 100 <= n
<1>1. n * (100 - margin) = 100 * n - n * margin /\ n * margin \in Nat
  OBVIOUS
<1>2. n * (100 - margin) \in Int /\ n * (100 - margin) <= 100 * n
  BY <1>1
<1> DEFINE m == n * (100 - margin)
<1> HIDE DEF m
<1>3. m \in Int /\ m <= 100 * n => m \div 100 <= n
  OBVIOUS
<1> QED
  BY <1>2, <1>3 DEF m

(* validateContextWindow lets through what leaves the answer its room.       *)
LEMMA FitsIsRoomy ==
    ASSUME NEW model \in DOMAIN Meta, NEW tokens \in Nat, FitsWindow(Meta[model], Reserve, Margin, tokens)
    PROVE  Roomy(model, tokens)
<1> DEFINE reserve == OutputReserve(Meta[model], Reserve)
           left == Meta[model].window - reserve
<1>1. Meta[model].window \in Nat /\ reserve \in Nat /\ Margin \in 0 .. 100
  BY RouterConstants DEF OutputReserve
<1>2. Meta[model].window = 0 \/ left <= 0 \/ tokens <= (left * (100 - Margin)) \div 100
  BY DEF FitsWindow
<1> HIDE DEF reserve
<1>3. ASSUME Meta[model].window > reserve
      PROVE  tokens + reserve <= Meta[model].window
  <2>1. left \in Nat /\ left > 0
    BY <1>1, <1>3
  <2>2. (left * (100 - Margin)) \div 100 <= left
    BY <1>1, <2>1, Percentage
  <2>3. tokens <= (left * (100 - Margin)) \div 100
    BY <1>1, <1>2, <1>3, <2>1
  <2>4. (left * (100 - Margin)) \div 100 \in Int
    BY <1>1, <2>1
  <2> QED
    BY <1>1, <2>1, <2>2, <2>3, <2>4
<1> QED
  BY <1>3 DEF Roomy, reserve

(* A set of natural numbers has a smallest one.                              *)
LEMMA Smallest ==
    ASSUME NEW S \in SUBSET Nat, S # {}
    PROVE  \E n \in S : \A m \in S : n <= m
<1>1. PICK n \in S : \A m \in S : ~ (<<m, n>> \in OpToRel(<, Nat))
  BY NatLessThanWellFounded, WFMin
<1>2. \A m \in S : ~ (m < n)
  BY <1>1 DEF OpToRel
<1> QED
  BY <1>2

(* Every provider has a rank; the first one serves its first model.          *)
LEMMA ProvidersType ==
    /\ \A i \in DOMAIN Providers : Providers[i].rank \in Nat
    /\ [provider |-> Providers[1].name, model |-> Providers[1].first] \in Enabled
<1> DEFINE R == [name : STRING, rank : Nat, first : STRING, models : SUBSET STRING]
<1>1. Providers \in Seq(R)
  BY RouterConstants
<1> HIDE DEF R
<1>2. \A i \in DOMAIN Providers : Providers[i] \in R
  BY <1>1
<1>3. 1 \in DOMAIN Providers /\ Providers[1].first \in Providers[1].models
  BY <1>1, RouterConstants
<1> QED
  BY <1>2, <1>3 DEF R, Enabled

(* SetModel resolves to an enabled pair.                                     *)
LEMMA FirstMatchEnabled ==
    ASSUME NEW S \in SUBSET Enabled, S # {}
    PROVE  FirstMatch(S) \in S
<1> DEFINE Rank(p) == Providers[IndexOf(p)].rank
<1>1. \A p \in Enabled : Rank(p) \in Nat
  <2> SUFFICES ASSUME NEW p \in Enabled PROVE Rank(p) \in Nat
    OBVIOUS
  <2>1. PICK i \in DOMAIN Providers : p.provider = Providers[i].name
    BY DEF Enabled
  <2>2. IndexOf(p) \in DOMAIN Providers
    BY <2>1 DEF IndexOf
  <2> QED
    BY <2>2, ProvidersType
<1> DEFINE Ranks == {Rank(p) : p \in S}
<1>2. Ranks \in SUBSET Nat /\ Ranks # {}
  BY <1>1
<1>3. \E n \in Ranks : \A m \in Ranks : n <= m
  BY <1>2, Smallest
<1>4. \E p \in S : \A q \in S : Rank(p) <= Rank(q)
  BY <1>3
<1> QED
  BY <1>4 DEF FirstMatch

(* Of the parses at hand one that was accepted is taken.                     *)
LEMMA FirstParsedIn ==
    ASSUME NEW I \in SUBSET Nat, NEW f, DOMAIN f = I, FirstParsed(f).ok
    PROVE  \E i \in I : FirstParsed(f) = f[i]
<1> DEFINE good == {i \in DOMAIN f : f[i].ok}
<1>1. good # {}
  BY DEF FirstParsed, Failed
<1>2. \E i \in good : \A j \in good : i <= j
  BY <1>1, Smallest
<1>3. Min(good) \in good
  BY <1>2 DEF Min
<1> QED
  BY <1>1, <1>3 DEF FirstParsed

(* What the advisory judge's parser accepts is a verdict.                    *)
LEMMA JudgeVerdicts ==
    ASSUME NEW reply, ParseJudgeChat(reply).ok
    PROVE  ParseJudgeChat(reply).value \in Verdicts
<1> DEFINE ts == CandidateTexts(reply)
           f == [i \in DOMAIN ts |-> ParseJudgeText(ts[i])]
<1>1. DOMAIN ts \in SUBSET Nat
  BY DEF CandidateTexts
<1>2. \A words : MatchVerdict(words) \in Verdicts
  BY DEF MatchVerdict, Verdicts
<1>3. \A json : ParseJudgeJSON(json).ok => ParseJudgeJSON(json).value \in Verdicts
  BY <1>2 DEF ParseJudgeJSON, Parsed, Failed, Verdicts
<1>4. \A t : ParseJudgeText(t).ok => ParseJudgeText(t).value \in Verdicts
  BY <1>2, <1>3 DEF ParseJudgeText, Parsed, Failed, Verdicts
<1>5. FirstParsed(f).ok
  BY DEF ParseJudgeChat
<1>6. PICK i \in DOMAIN ts : FirstParsed(f) = f[i]
  BY <1>1, <1>5, FirstParsedIn
<1>7. ParseJudgeText(ts[i]).ok /\ FirstParsed(f) = ParseJudgeText(ts[i])
  BY <1>5, <1>6
<1> QED
  BY <1>4, <1>7 DEF ParseJudgeChat
-----------------------------------------------------------------------------
(* The router                                                                *)

LEMMA IdleReqOk == ASSUME NEW b \in BOOLEAN PROVE ReqOk([IdleReq EXCEPT !.cancelled = b])
<1>1. Retries + 1 \in Nat /\ 0 <= Retries + 1
  BY RetriesType
<1> QED
  BY <1>1 DEF ReqOk, ReqRecords, IdleReq, NoPair, Named

LEMMA IdleReqIsOk == ReqOk(IdleReq)
<1>1. Retries + 1 \in Nat /\ 0 <= Retries + 1
  BY RetriesType
<1> QED
  BY <1>1 DEF ReqOk, ReqRecords, IdleReq, NoPair, Named

LEMMA BeginCallOk ==
    ASSUME active \in Enabled, NEW c \in Callers, req[c].cancelled \in BOOLEAN, NEW sink \in BOOLEAN, NEW own \in Named
    PROVE  ReqOk(BeginCall(c, sink, own))
<1>1. Retries + 1 \in Nat /\ 0 <= Retries + 1
  BY RetriesType
<1> QED
  BY <1>1 DEF BeginCall, ReqOk, ReqRecords, IdleReq, NoPair, Named

(* One call of the router is replaced.                                       *)
LEMMA OneReq ==
    ASSUME ReqInv, NEW c \in Callers, NEW r, ReqOk(r), req' = [req EXCEPT ![c] = r]
    PROVE  ReqInv'
<1>1. DOMAIN req' = Callers /\ req'[c] = r /\ \A d \in Callers : d # c => req'[d] = req[d]
  BY DEF ReqInv
<1> QED
  BY <1>1 DEF ReqInv

(* The end of a call.                                                        *)
LEMMA ReturnsOk ==
    ASSUME ReqInv, NEW c \in Callers, NEW out \in {"ok", "err", "sink", "window"},
           Returns(c, out), req[c].pc \in {"waiting", "backoff"}
    PROVE  ReqInv'
<1> DEFINE r == [req[c] EXCEPT !.pc = "returned", !.out = out]
<1>1. req' = [req EXCEPT ![c] = r]
  BY DEF Returns
<1>2. ReqOk(req[c]) /\ Retries \in Nat
  BY RetriesType DEF ReqInv
<1>3. ReqOk(r)
  BY <1>2 DEF ReqOk, ReqRecords
<1> HIDE DEF r
<1> QED
  BY <1>1, <1>3, OneReq

LEMMA RouterStep ==
    ASSUME ReqInv, NEW c \in Callers, CallStep(c) \/ CancelCall(c)
    PROVE  active' = active /\ ReqInv'
<1>1. ReqOk(req[c]) /\ Retries \in Nat
  BY RetriesType DEF ReqInv
<1>2. MaxBackoff \in Nat
  BY RouterConstants
<1>3. CASE Prepare(c)
  <2>1. active' = active /\ req[c].pc = "prepare"
    BY <1>3 DEF Prepare, At
  <2> DEFINE model == IF req[c].own = "none" THEN req[c].on.model ELSE req[c].own
             fits(tokens) == FitsWindow(Meta[model], Reserve, Margin, tokens)
  <2>2. PICK tokens \in Sizes : req' = [req EXCEPT ![c] = Prepared(req[c], model, tokens, fits(tokens))]
    BY <1>3 DEF Prepare
  <2> HIDE DEF fits
  <2> DEFINE r == Prepared(req[c], model, tokens, fits(tokens))
  <2>3. req[c] \in ReqRecords /\ req[c].on \in Enabled /\ req[c].attempt = 0 /\ req[c].shown = {} /\ tokens \in Nat
    BY <1>1, <2>1, RouterConstants DEF ReqOk
  <2>4. model \in Named
    BY <2>3, RouterConstants DEF ReqRecords, Named
  <2>5. /\ r \in ReqRecords /\ r.pc \in {"attempt", "returned"} /\ r.on = req[c].on /\ r.own = req[c].own
        /\ r.model = model /\ r.attempt = 0 /\ r.shown = {}
    BY <2>3, <2>4 DEF Prepared, ReqRecords
  <2>6. r.model = IF r.own = "none" THEN r.on.model ELSE r.own
    BY <2>5
  <2>8. r.tokens = tokens /\ (r.pc = "attempt" => fits(tokens))
    BY <2>3 DEF Prepared, ReqRecords
  <2>9. model \in DOMAIN Meta
    BY <2>3, RouterConstants DEF ReqRecords, Named
  <2>10. r.pc = "attempt" => Roomy(r.model, r.tokens)
    BY <2>3, <2>5, <2>8, <2>9, FitsIsRoomy DEF fits
  <2> HIDE DEF r, model
  <2>7. ReqOk(r)
    BY <1>1, <2>3, <2>5, <2>6, <2>10 DEF ReqOk
  <2> QED
    BY <2>1, <2>2, <2>7, OneReq DEF r
<1>4. CASE BeginAttempt(c)
  <2> DEFINE r == [req[c] EXCEPT !.pc = "waiting", !.emitted = FALSE, !.attempt = @ + 1]
  <2>1. active' = active /\ req[c].pc = "attempt" /\ req' = [req EXCEPT ![c] = r]
    BY <1>4 DEF BeginAttempt, At
  <2>2. req[c].attempt \in Nat /\ req[c].attempt <= Retries /\ req[c].shown = {} /\ req[c].on \in Enabled
    BY <1>1, <2>1 DEF ReqOk, ReqRecords
  <2>3. req[c] \in ReqRecords /\ req[c].attempt + 1 \in Nat
    BY <1>1, <2>2 DEF ReqOk
  <2>4. /\ r.pc = "waiting" /\ r.shown = {} /\ r.attempt = req[c].attempt + 1 /\ r.on = req[c].on
        /\ r.own = req[c].own /\ r.model = req[c].model /\ r.tokens = req[c].tokens
    BY <2>2, <2>3 DEF ReqRecords
  <2>5. r \in ReqRecords
    BY <2>3 DEF ReqRecords
  <2> HIDE DEF r
  <2>6. ReqOk(r)
    BY <1>1, <2>1, <2>2, <2>4, <2>5 DEF ReqOk
  <2> QED
    BY <2>1, <2>6, OneReq
<1>5. CASE Emit(c)
  <2> DEFINE r == [req[c] EXCEPT !.emitted = TRUE, !.shown = @ \union {req[c].attempt}]
  <2>1. active' = active /\ req[c].pc = "waiting" /\ req' = [req EXCEPT ![c] = r]
    BY <1>5 DEF Emit, At
  <2>2. ReqOk(r)
    BY <1>1, <2>1 DEF ReqOk, ReqRecords
  <2> HIDE DEF r
  <2> QED
    BY <2>1, <2>2, OneReq
<1>6. CASE SinkFails(c) \/ AttemptSucceeds(c)
  BY <1>6, ReturnsOk DEF SinkFails, AttemptSucceeds, At
<1>7. CASE AttemptFails(c)
  <2>1. active' = active /\ req[c].pc = "waiting"
    BY <1>7 DEF AttemptFails, At
  <2>2. \E retryable : AfterFailure(c, retryable)
    BY <1>7 DEF AttemptFails
  <2>3. \/ Returns(c, "err")
        \/ ~req[c].emitted /\ ~(req[c].attempt > Retries) /\ req' = [req EXCEPT ![c].pc = "backoff"]
    BY <2>2 DEF AfterFailure
  <2>4. CASE Returns(c, "err")
    BY <2>1, <2>4, ReturnsOk
  <2>5. CASE ~req[c].emitted /\ ~(req[c].attempt > Retries) /\ req' = [req EXCEPT ![c].pc = "backoff"]
    <3> DEFINE r == [req[c] EXCEPT !.pc = "backoff"]
    <3>1. req' = [req EXCEPT ![c] = r]
      BY <2>5
    <3>2. ReqOk(r)
      BY <1>1, <2>1, <2>5 DEF ReqOk, ReqRecords
    <3> HIDE DEF r
    <3> QED
      BY <2>1, <3>1, <3>2, OneReq
  <2> QED
    BY <2>3, <2>4, <2>5
<1>8. CASE RetryBackoff(c)
  <2> DEFINE b == IF 2 * req[c].backoff > MaxBackoff THEN MaxBackoff ELSE 2 * req[c].backoff
             r == [req[c] EXCEPT !.pc = "attempt", !.backoff = b]
  <2>1. active' = active /\ req[c].pc = "backoff" /\ req' = [req EXCEPT ![c] = r]
    BY <1>8 DEF RetryBackoff, At
  <2>2. b \in (0 .. MaxBackoff) \union {1}
    <3>1. req[c].backoff \in Nat
      BY <1>1, <1>2 DEF ReqOk, ReqRecords
    <3> QED
      BY <1>2, <3>1
  <2> HIDE DEF b
  <2>3. ReqOk(r)
    BY <1>1, <2>1, <2>2 DEF ReqOk, ReqRecords
  <2> HIDE DEF r
  <2> QED
    BY <2>1, <2>3, OneReq
<1>9. CASE BackoffCancelled(c)
  BY <1>9, ReturnsOk DEF BackoffCancelled, At
<1>10. CASE CancelCall(c)
  <2> DEFINE r == [req[c] EXCEPT !.cancelled = TRUE]
  <2>1. active' = active /\ req' = [req EXCEPT ![c] = r]
    BY <1>10 DEF CancelCall
  <2>2. ReqOk(r)
    BY <1>1 DEF ReqOk, ReqRecords
  <2> HIDE DEF r
  <2> QED
    BY <2>1, <2>2, OneReq
<1> QED
  BY <1>3, <1>4, <1>5, <1>6, <1>7, <1>8, <1>9, <1>10 DEF CallStep
-----------------------------------------------------------------------------
(* The clients                                                               *)

(* The operation of one client is replaced.                                  *)
LEMMA OneOp ==
    ASSUME OpInv, NEW c \in Callers, NEW o, OpOk(o), op' = [op EXCEPT ![c] = o]
    PROVE  OpInv'
<1>1. DOMAIN op' = Callers /\ op'[c] = o /\ \A d \in Callers : d # c => op'[d] = op[d]
  BY DEF OpInv
<1> QED
  BY <1>1 DEF OpInv

LEMMA IdleOpOk == OpOk(IdleOp)
<1>1. DOMAIN IdleOp = OpFields
  BY DEF IdleOp, OpFields
<1>2. IdleOp.pc = "idle" /\ IdleOp.tries = 0 /\ IdleOp.out = "none"
  BY DEF IdleOp
<1> QED
  BY <1>1, <1>2 DEF OpOk

(* An operation ends with a value: a judge's has to be meant.                *)
LEMMA EndsOk ==
    ASSUME OpInv, NEW c \in Callers, NEW out \in {"ok", "err"}, NEW value, Ends(c, out, value),
           op[c].pc # "idle",
           Kind(c) \in {"judge", "strict"} => value # "ALLOW",
           Kind(c) = "loop" => value = "DENY"
    PROVE  OpInv'
<1> DEFINE o == [op[c] EXCEPT !.pc = "done", !.out = out, !.value = value]
<1>1. op' = [op EXCEPT ![c] = o]
  BY DEF Ends
<1>2. OpOk(op[c])
  BY DEF OpInv
<1>3. /\ DOMAIN o = OpFields /\ o.pc = "done" /\ o.out = out /\ o.value = value /\ o.req = op[c].req
      /\ o.tries = op[c].tries
  BY <1>2 DEF OpOk, OpFields
<1> HIDE DEF o
<1>4. OpOk(o)
  BY <1>2, <1>3 DEF OpOk, Kind
<1> QED
  BY <1>1, <1>4, OneOp

(* A call without an answer never permits anything.                          *)
LEMMA TransportErrorOk ==
    ASSUME OpInv, NEW c \in Callers, op[c].pc # "idle", TransportError(c)
    PROVE  OpInv'
<1>1. CASE IsJudge(Kind(c))
  <2>1. Ends(c, "ok", FailSafeValue(Kind(c)))
    BY <1>1 DEF TransportError
  <2>2. /\ FailSafeValue(Kind(c)) # "ALLOW"
        /\ Kind(c) = "loop" => FailSafeValue(Kind(c)) = "DENY"
    BY DEF FailSafeValue
  <2> QED
    BY <2>1, <2>2, EndsOk
<1>2. CASE ~IsJudge(Kind(c))
  <2>1. Ends(c, "err", "none")
    BY <1>2 DEF TransportError
  <2> QED
    BY <1>2, <2>1, EndsOk DEF IsJudge
<1> QED
  BY <1>1, <1>2

(* On to the next point of the one-shot call.                                *)
LEMMA GotoOk ==
    ASSUME OpInv, NEW c \in Callers, NEW pc \in {"do", "calling"}, Goto(c, pc), op[c].pc \in {"lookup", "explore", "do"}
    PROVE  OpInv'
<1> DEFINE o == [op[c] EXCEPT !.pc = pc]
<1>1. op' = [op EXCEPT ![c] = o]
  BY DEF Goto
<1>2. OpOk(op[c])
  BY DEF OpInv
<1>3. DOMAIN o = OpFields /\ o.pc = pc /\ \A f \in OpFields : f # "pc" => o[f] = op[c][f]
  BY <1>2 DEF OpOk, OpFields
<1>4. /\ o.out = op[c].out /\ o.value = op[c].value /\ o.req = op[c].req /\ o.tries = op[c].tries
      /\ o.key = op[c].key /\ o.said = op[c].said
  BY <1>3 DEF OpFields
<1> HIDE DEF o
<1>5. OpOk(o)
  BY <1>2, <1>3, <1>4 DEF OpOk
<1> QED
  BY <1>1, <1>5, OneOp

LEMMA DoAttemptStep ==
    ASSUME IInv, NEW c \in Callers, DoAttempt(c)
    PROVE  active' = active /\ cache' = cache /\ ReqInv' /\ OpInv'
<1>1. active' = active /\ cache' = cache /\ op[c].pc = "do" /\ OpInv /\ ReqInv
  BY DEF DoAttempt, OpAt, IInv
<1>2. CASE TransportError(c) /\ req' = req
  <2>1. ReqInv'
    BY <1>1, <1>2 DEF ReqInv
  <2> QED
    BY <1>1, <1>2, <2>1, TransportErrorOk
<1>3. CASE req' = [req EXCEPT ![c] = BeginCall(c, Kind(c) = "stream", op[c].req.own)] /\ Goto(c, "calling")
  <2>1. OpInv'
    BY <1>1, <1>3, GotoOk
  <2>2. req[c].cancelled \in BOOLEAN /\ active \in Enabled /\ (Kind(c) = "stream") \in BOOLEAN
    BY DEF IInv, ReqInv, ReqOk, ReqRecords
  <2>3. op[c].req.own \in Named
    BY <1>1 DEF OpInv, OpOk, Op
  <2>5. ReqOk(BeginCall(c, Kind(c) = "stream", op[c].req.own))
    BY <2>2, <2>3, BeginCallOk
  <2>4. ReqInv'
    BY <1>1, <1>3, <2>5, OneReq
  <2> QED
    BY <1>1, <2>1, <2>4
<1> QED
  BY <1>2, <1>3 DEF DoAttempt

(* A reply that cannot be parsed costs an attempt, or ends in the verdict    *)
(* that is safe.                                                             *)
LEMMA UnparsedOk ==
    ASSUME OpInv, NEW c \in Callers, op[c].pc = "calling", Unparsed(c)
    PROVE  OpInv'
<1>1. OpOk(op[c]) /\ op[c].tries \in 0 .. 2
  BY DEF OpInv, OpOk
<1>2. CASE op[c].tries < MaxParseRetries
  <2> DEFINE o == [op[c] EXCEPT !.pc = "do", !.tries = @ + 1]
  <2>1. op' = [op EXCEPT ![c] = o]
    BY <1>2 DEF Unparsed
  <2>2. op[c].tries + 1 \in 0 .. 2
    BY <1>1, <1>2 DEF MaxParseRetries
  <2>3. /\ DOMAIN o = OpFields /\ o.pc = "do" /\ o.tries = op[c].tries + 1 /\ o.out = op[c].out
        /\ o.req = op[c].req /\ o.key = op[c].key
    BY <1>1 DEF OpOk, OpFields
  <2> HIDE DEF o
  <2>4. OpOk(o)
    BY <1>1, <2>2, <2>3 DEF OpOk
  <2> QED
    BY <2>1, <2>4, OneOp
<1>3. CASE ~(op[c].tries < MaxParseRetries) /\ Kind(c) = "judge"
  <2> DEFINE o == [op[c] EXCEPT !.pc = "store", !.value = FailSafeValue("judge"), !.by = req[c].model]
  <2>1. op' = [op EXCEPT ![c] = o]
    BY <1>3 DEF Unparsed
  <2>2. /\ DOMAIN o = OpFields /\ o.pc = "store" /\ o.value = "CONFIRM" /\ o.tries = op[c].tries
        /\ o.out = op[c].out /\ o.req = op[c].req /\ o.key = op[c].key
    BY <1>1 DEF OpOk, OpFields, FailSafeValue
  <2> HIDE DEF o
  <2>3. OpOk(o)
    BY <1>1, <1>3, <2>2 DEF OpOk, Kind, Verdicts
  <2> QED
    BY <2>1, <2>3, OneOp
<1>4. CASE ~(op[c].tries < MaxParseRetries) /\ Kind(c) \in {"strict", "loop"}
  <2>1. Ends(c, "ok", FailSafeValue(Kind(c)))
    BY <1>4 DEF Unparsed
  <2>2. FailSafeValue(Kind(c)) # "ALLOW" /\ (Kind(c) = "loop" => FailSafeValue(Kind(c)) = "DENY")
    BY DEF FailSafeValue
  <2> QED
    BY <2>1, <2>2, EndsOk
<1>5. CASE ~(op[c].tries < MaxParseRetries) /\ Kind(c) \notin {"judge", "strict", "loop"}
  <2>1. Ends(c, "err", "none")
    BY <1>5 DEF Unparsed
  <2> QED
    BY <1>5, <2>1, EndsOk
<1> QED
  BY <1>2, <1>3, <1>4, <1>5

(* What a judge makes of a reply that its parser accepts is meant by it.     *)
LEMMA AnsweredOk ==
    ASSUME OpInv, NEW c \in Callers, op[c].pc = "calling", NEW reply \in RepliesTo(Kind(c)), Answered(c, reply)
    PROVE  OpInv'
<1> DEFINE p == ParseReply(c, reply)
           value == IF IsPlan(Kind(c)) THEN TruncateToSingle(p.value, op[c].req.single) ELSE p.value
           pc == IF Kind(c) = "judge" THEN "store" ELSE "done"
           o == [op[c] EXCEPT !.pc = pc, !.out = "ok", !.tries = @ + 1, !.said = reply.means, !.by = req[c].model,
                              !.value = value]
<1>1. OpOk(op[c]) /\ op[c].tries \in 0 .. 2
  BY DEF OpInv, OpOk
<1>2. CASE ~p.ok
  BY <1>2, UnparsedOk DEF Answered
<1>3. CASE p.ok
  <2>1. op' = [op EXCEPT ![c] = o]
    BY <1>3 DEF Answered
  <2>2. Kind(c) = "judge" => value \in Verdicts /\ (value = "ALLOW" => reply.means = "ALLOW")
    <3> SUFFICES ASSUME Kind(c) = "judge" PROVE value \in Verdicts /\ (value = "ALLOW" => reply.means = "ALLOW")
      OBVIOUS
    <3>1. p = ParseJudgeChat(reply) /\ value = p.value /\ reply \in Replies["judge"]
      BY DEF ParseReply, IsPlan, RepliesTo
    <3> QED
      BY <1>3, <3>1, JudgeVerdicts, VerdictsMeant
  <2>3. Kind(c) = "strict" => (value = "ALLOW" => reply.means = "ALLOW")
    <3> SUFFICES ASSUME Kind(c) = "strict" PROVE value = "ALLOW" => reply.means = "ALLOW"
      OBVIOUS
    <3>1. p = ParseStrictJudge(reply) /\ value = p.value /\ reply \in Replies["strict"]
      BY DEF ParseReply, IsPlan, RepliesTo
    <3> QED
      BY <1>3, <3>1, VerdictsMeant
  <2>4. Kind(c) = "loop" => (value # "DENY" => reply.means = value)
    <3> SUFFICES ASSUME Kind(c) = "loop" PROVE value # "DENY" => reply.means = value
      OBVIOUS
    <3>1. p = ParseLoopJudgeChat(reply) /\ value = p.value /\ reply \in Replies["loop"]
      BY DEF ParseReply, IsPlan, RepliesTo
    <3> QED
      BY <1>3, <3>1, VerdictsMeant
  <2>5. pc = (IF Kind(c) = "judge" THEN "store" ELSE "done") /\ op[c].tries + 1 \in 0 .. 3
    BY <1>1
  <2> HIDE DEF value, pc, p
  <2>6. /\ DOMAIN o = OpFields /\ o.pc = pc /\ o.value = value /\ o.tries = op[c].tries + 1 /\ o.said = reply.means
        /\ o.out = "ok" /\ o.req = op[c].req /\ o.key = op[c].key
    BY <1>1 DEF OpOk, OpFields
  <2> HIDE DEF o
  <2>7. OpOk(o)
    BY <1>1, <2>2, <2>3, <2>4, <2>5, <2>6 DEF OpOk, Kind
  <2> QED
    BY <2>1, <2>7, OneOp
<1> QED
  BY <1>2, <1>3

LEMMA CallEnds ==
    ASSUME ReqInv, NEW c \in Callers, req' = [req EXCEPT ![c] = [IdleReq EXCEPT !.cancelled = req[c].cancelled]]
    PROVE  ReqInv'
<1>1. req[c].cancelled \in BOOLEAN
  BY DEF ReqInv, ReqOk, ReqRecords
<1>2. ReqOk([IdleReq EXCEPT !.cancelled = req[c].cancelled])
  BY <1>1, IdleReqOk
<1> QED
  BY <1>2, OneReq

LEMMA CallAnsweredStep ==
    ASSUME IInv, NEW c \in Callers, CallAnswered(c)
    PROVE  active' = active /\ cache' = cache /\ ReqInv' /\ OpInv'
<1>1. active' = active /\ cache' = cache /\ op[c].pc = "calling" /\ OpInv /\ ReqInv
  BY DEF CallAnswered, OpAt, IInv
<1>2. ReqInv'
  BY <1>1, CallEnds DEF CallAnswered
<1>3. CASE Kind(c) = "stream" /\ Ends(c, "ok", "none")
  BY <1>1, <1>2, <1>3, EndsOk
<1>4. CASE \E reply \in RepliesTo(Kind(c)) : Answered(c, reply)
  BY <1>1, <1>2, <1>4, AnsweredOk
<1> QED
  BY <1>3, <1>4 DEF CallAnswered

LEMMA CallFailedStep ==
    ASSUME IInv, NEW c \in Callers, CallFailed(c)
    PROVE  active' = active /\ cache' = cache /\ ReqInv' /\ OpInv'
<1>1. active' = active /\ cache' = cache /\ op[c].pc = "calling" /\ OpInv /\ ReqInv
  BY DEF CallFailed, OpAt, IInv
<1>2. ReqInv'
  BY <1>1, CallEnds DEF CallFailed
<1> QED
  BY <1>1, <1>2, TransportErrorOk DEF CallFailed

(* How an operation starts.                                                  *)
LEMMA EntryOk ==
    ASSUME NEW o \in Op
    PROVE  /\ Entry(o).pc \in {"lookup", "explore", "do", "done"} /\ Entry(o).out \in {"none", "ok"}
           /\ Entry(o).pc = "lookup" => o.kind = "judge"
           /\ Entry(o).pc = "explore" => o.kind = "plan"
           /\ o.kind = "judge" /\ Entry(o).pc # "done" => ~o.fast
           /\ Entry(o).pc = "done" /\ o.kind \in {"judge", "strict"} /\ Entry(o).value = "ALLOW" => o.fast
           /\ Entry(o).pc = "done" /\ o.kind = "loop" => Entry(o).value = "DENY"
<1>1. o.kind \in {"stream", "route", "reflect", "plan", "replan", "continue", "judge", "strict", "loop"}
  BY DEF Op
<1>2. CASE o.kind = "judge"
  <2>1. Entry(o) = Judge(o)
    BY <1>2 DEF Entry
  <2> QED
    BY <1>2, <2>1 DEF Judge, Settles, GoesTo
<1>3. CASE o.kind = "strict"
  <2>1. Entry(o) = JudgeStrict(o)
    BY <1>3 DEF Entry
  <2> QED
    BY <1>3, <2>1 DEF JudgeStrict, Settles, GoesTo, FailSafeValue
<1>4. CASE o.kind = "loop"
  <2>1. Entry(o) = JudgeStepLimit(o)
    BY <1>4 DEF Entry
  <2> QED
    BY <1>4, <2>1 DEF JudgeStepLimit, Settles, GoesTo, FailSafeValue
<1>5. CASE o.kind = "plan"
  <2>1. Entry(o) = Plan(o)
    BY <1>5 DEF Entry
  <2> QED
    BY <1>5, <2>1 DEF Plan, GoesTo
<1>6. CASE o.kind \in {"stream", "route", "reflect", "replan", "continue"}
  <2>1. Entry(o) = GoesTo("do")
    BY <1>6 DEF Entry, Replan, PlanContinuation, Route, Reflect, Stream
  <2> QED
    BY <1>6, <2>1 DEF GoesTo
<1> QED
  BY <1>1, <1>2, <1>3, <1>4, <1>5, <1>6

LEMMA BeginStep ==
    ASSUME IInv, NEW c \in Callers, NEW r \in Ops[c], Begin(c, r)
    PROVE  active' = active /\ cache' = cache /\ ReqInv' /\ OpInv'
<1> DEFINE o == [IdleOp EXCEPT !.req = r, !.key = JudgeCacheKey(r), !.pc = Entry(r).pc,
                               !.out = Entry(r).out, !.value = Entry(r).value]
<1>1. /\ active' = active /\ cache' = cache /\ OpInv /\ ReqInv /\ active \in Enabled
      /\ op' = [op EXCEPT ![c] = o] /\ req' = [req EXCEPT ![c] = IdleReq]
  BY DEF Begin, IInv
<1>2. ReqInv'
  BY <1>1, IdleReqIsOk, OneReq
<1>3. r \in Op /\ r \in UNION {Ops[d] : d \in Callers}
  BY ClientConstants
<1>4. r.kind = "judge" /\ ~r.fast => JudgeCacheKey(r) \in Keys
  <2>1. r.kind = "judge" /\ ~r.fast => JudgeCacheKey(r) = [id |-> r.id, model |-> active.model]
    BY DEF JudgeCacheKey
  <2>2. r.id \in {x.id : x \in UNION {Ops[d] : d \in Callers}}
    BY <1>3
  <2>3. active.model \in {p.model : p \in Enabled}
    BY <1>1
  <2> QED
    BY <2>1, <2>2, <2>3 DEF Keys
<1>5. /\ DOMAIN o = OpFields /\ o.req = r /\ o.key = JudgeCacheKey(r) /\ o.pc = Entry(r).pc /\ o.out = Entry(r).out
      /\ o.value = Entry(r).value /\ o.tries = 0
  BY DEF IdleOp, OpFields
<1> HIDE DEF o
<1>6. OpOk(o)
  BY <1>3, <1>4, <1>5, EntryOk DEF OpOk
<1> QED
  BY <1>1, <1>2, <1>6, OneOp

LEMMA JudgeLookupStep ==
    ASSUME IInv, NEW c \in Callers, JudgeLookup(c)
    PROVE  active' = active /\ cache' = cache /\ req' = req /\ OpInv'
<1> DEFINE hit == cache[op[c].key]
<1>1. active' = active /\ cache' = cache /\ req' = req /\ OpInv /\ CacheInv /\ op[c].pc = "lookup"
  BY DEF JudgeLookup, OpAt, routerVars, IInv
<1>2. OpOk(op[c]) /\ op[c].key \in Keys /\ op[c].req.kind = "judge"
  BY <1>1 DEF OpInv, OpOk
<1>3. hit.verdict = "ALLOW" => hit.said = "ALLOW"
  BY <1>1, <1>2 DEF CacheInv
<1>4. CASE op' = [op EXCEPT ![c].pc = "done", ![c].out = "ok", ![c].value = hit.verdict, ![c].said = hit.said,
                            ![c].by = hit.by]
  <2> DEFINE o == [op[c] EXCEPT !.pc = "done", !.out = "ok", !.value = hit.verdict, !.said = hit.said, !.by = hit.by]
  <2>1. op' = [op EXCEPT ![c] = o]
    BY <1>4
  <2> HIDE DEF hit
  <2>2. /\ DOMAIN o = OpFields /\ o.pc = "done" /\ o.out = "ok" /\ o.value = hit.verdict /\ o.said = hit.said
        /\ o.tries = op[c].tries /\ o.req = op[c].req
    BY <1>2 DEF OpOk, OpFields
  <2>3. op[c].tries \in 0 .. 3 /\ op[c].req \in Op
    BY <1>1, <1>2 DEF OpOk
  <2> HIDE DEF o
  <2>4. /\ DOMAIN o = OpFields /\ o.pc = "done" /\ o.out = "ok" /\ o.tries \in 0 .. 3 /\ o.req \in Op
        /\ o.req.kind = "judge"
    BY <1>2, <2>2, <2>3
  <2>5. o.value = "ALLOW" => o.said = "ALLOW"
    BY <1>3, <2>2
  <2>6. OpOk(o)
    BY <2>4, <2>5 DEF OpOk
  <2> QED
    BY <1>1, <2>1, <2>6, OneOp
<1>5. CASE op' = [op EXCEPT ![c].pc = "done", ![c].out = "ok", ![c].value = "CONFIRM"]
  <2>1. Ends(c, "ok", "CONFIRM")
    BY <1>5 DEF Ends
  <2> QED
    BY <1>1, <1>2, <2>1, EndsOk DEF Kind
<1>6. CASE op' = [op EXCEPT ![c].pc = "do"]
  <2>1. Goto(c, "do")
    BY <1>6 DEF Goto
  <2> QED
    BY <1>1, <2>1, GotoOk
<1> QED
  BY <1>1, <1>4, <1>5, <1>6 DEF JudgeLookup

(* A store never makes the cache larger than its limit.                      *)
LEMMA JudgeStoreStep ==
    ASSUME IInv, NEW c \in Callers, JudgeStore(c)
    PROVE  active' = active /\ req' = req /\ OpInv' /\ CacheInv'
<1> DEFINE key == op[c].key
           v == [verdict |-> op[c].value, said |-> op[c].said, by |-> op[c].by]
           empty == [k \in Keys |-> NoVerdict]
<1>1. active' = active /\ req' = req /\ OpInv /\ CacheInv /\ op[c].pc = "store"
  BY DEF JudgeStore, OpAt, routerVars, IInv
<1>2. OpOk(op[c]) /\ key \in Keys /\ op[c].req.kind = "judge"
  BY <1>1 DEF OpInv, OpOk
<1>3. v.verdict \in Verdicts /\ (v.verdict = "ALLOW" => v.said = "ALLOW")
  BY <1>1, <1>2 DEF OpOk
<1>4. \/ Cardinality(Filled) >= MaxCacheSize /\ cache' = [empty EXCEPT ![key] = v]
      \/ ~(Cardinality(Filled) >= MaxCacheSize) /\ cache' = [cache EXCEPT ![key] = v]
  BY DEF JudgeStore
<1>5. OpInv'
  <2> DEFINE o == [op[c] EXCEPT !.pc = "done", !.out = "ok"]
  <2>1. op' = [op EXCEPT ![c] = o]
    BY DEF JudgeStore
  <2>2. /\ DOMAIN o = OpFields /\ o.pc = "done" /\ o.out = "ok" /\ o.value = op[c].value /\ o.said = op[c].said
        /\ o.tries = op[c].tries /\ o.req = op[c].req
    BY <1>2 DEF OpOk, OpFields
  <2> HIDE DEF o
  <2>3. OpOk(o)
    BY <1>1, <1>2, <2>2 DEF OpOk
  <2> QED
    BY <1>1, <2>1, <2>3, OneOp
<1>6. MaxCacheSize \in Nat /\ MaxCacheSize >= 1 /\ IsFiniteSet(Filled) /\ Cardinality(Filled) \in Nat
  BY <1>1, ClientConstants, FS_CardinalityType DEF CacheInv
<1>7. NoVerdict.verdict = "none"
  BY DEF NoVerdict
<1> HIDE DEF v, key
<1>8. CASE Cardinality(Filled) >= MaxCacheSize /\ cache' = [empty EXCEPT ![key] = v]
  <2>1. DOMAIN cache' = Keys /\ cache'[key] = v /\ \A k \in Keys : k # key => cache'[k] = NoVerdict
    BY <1>2, <1>8
  <2>2. Filled' \subseteq {key}
    BY <2>1 DEF Filled
  <2>3. IsFiniteSet({key}) /\ Cardinality({key}) = 1
    BY FS_Singleton
  <2>4. IsFiniteSet(Filled') /\ Cardinality(Filled') <= 1 /\ Cardinality(Filled') \in Nat
    BY <2>2, <2>3, FS_Subset, FS_CardinalityType
  <2>5. Cardinality(Filled') <= MaxCacheSize
    BY <1>6, <2>4
  <2>6. \A k \in Keys : cache'[k].verdict \in Verdicts /\ (cache'[k].verdict = "ALLOW" => cache'[k].said = "ALLOW")
    BY <1>3, <1>7, <2>1 DEF Verdicts
  <2> QED
    BY <1>1, <1>5, <2>1, <2>4, <2>5, <2>6 DEF CacheInv
<1>9. CASE ~(Cardinality(Filled) >= MaxCacheSize) /\ cache' = [cache EXCEPT ![key] = v]
  <2>1. DOMAIN cache' = Keys /\ cache'[key] = v /\ \A k \in Keys : k # key => cache'[k] = cache[k]
    BY <1>1, <1>2, <1>9 DEF CacheInv
  <2>2. Filled' \subseteq Filled \union {key}
    BY <2>1 DEF Filled
  <2>3. /\ IsFiniteSet(Filled \union {key}) /\ Cardinality(Filled \union {key}) \in Nat
        /\ Cardinality(Filled \union {key}) <= Cardinality(Filled) + 1
    <3>1. CASE key \in Filled
      <4>1. IsFiniteSet(Filled \union {key}) /\ Cardinality(Filled \union {key}) = Cardinality(Filled)
        BY <1>6, <3>1, FS_AddElement
      <4> QED
        BY <1>6, <4>1
    <3>2. CASE key \notin Filled
      <4>1. IsFiniteSet(Filled \union {key}) /\ Cardinality(Filled \union {key}) = Cardinality(Filled) + 1
        BY <1>6, <3>2, FS_AddElement
      <4> QED
        BY <1>6, <4>1
    <3> QED
      BY <3>1, <3>2
  <2>4. /\ IsFiniteSet(Filled') /\ Cardinality(Filled') <= Cardinality(Filled \union {key})
        /\ Cardinality(Filled') \in Nat
    BY <2>2, <2>3, FS_Subset, FS_CardinalityType
  <2>5. Cardinality(Filled') <= MaxCacheSize
    BY <1>6, <1>9, <2>3, <2>4
  <2>6. \A k \in Keys : cache'[k].verdict \in Verdicts /\ (cache'[k].verdict = "ALLOW" => cache'[k].said = "ALLOW")
    BY <1>1, <1>3, <2>1 DEF CacheInv
  <2> QED
    BY <1>1, <1>5, <2>1, <2>4, <2>5, <2>6 DEF CacheInv
<1> QED
  BY <1>4, <1>8, <1>9

LEMMA ExploreSteps ==
    ASSUME IInv, NEW c \in Callers, ExploreAnswers(c) \/ ExploreFails(c)
    PROVE  active' = active /\ cache' = cache /\ req' = req /\ OpInv'
<1>1. active' = active /\ cache' = cache /\ req' = req /\ OpInv /\ op[c].pc = "explore"
  BY DEF ExploreAnswers, ExploreFails, OpAt, routerVars, IInv
<1>2. Kind(c) = "plan"
  BY <1>1 DEF OpInv, OpOk, Kind
<1>3. Goto(c, "do") \/ Ends(c, "err", "none") \/ \E value : Ends(c, "ok", value)
  BY DEF ExploreAnswers, ExploreFails
<1> QED
  BY <1>1, <1>2, <1>3, GotoOk, EndsOk

LEMMA FinishStep ==
    ASSUME IInv, NEW c \in Callers, Finish(c)
    PROVE  active' = active /\ cache' = cache /\ ReqInv' /\ OpInv'
<1>1. /\ active' = active /\ cache' = cache /\ OpInv /\ ReqInv
      /\ op' = [op EXCEPT ![c] = IdleOp] /\ req' = [req EXCEPT ![c] = IdleReq]
  BY DEF Finish, IInv
<1> QED
  BY <1>1, IdleOpOk, IdleReqIsOk, OneOp, OneReq

LEMMA SwitchModelStep ==
    ASSUME IInv, NEW s \in Switches, SwitchModel(s)
    PROVE  active' \in Enabled /\ req' = req /\ op' = op /\ cache' = cache
<1>1. req' = req /\ op' = op /\ cache' = cache /\ Matches(s) # {} /\ active' = FirstMatch(Matches(s))
  BY DEF SwitchModel, SetModel
<1>2. Matches(s) \in SUBSET Enabled
  BY DEF Matches
<1> QED
  BY <1>1, <1>2, FirstMatchEnabled

-----------------------------------------------------------------------------
(* The theorems                                                              *)

LEMMA InitHolds == Init => IInv
<1> SUFFICES ASSUME Init PROVE IInv
  OBVIOUS
<1>1. active \in Enabled
  BY ProvidersType DEF Init, RouterInit
<1>2. ReqInv
  BY IdleReqIsOk DEF Init, RouterInit, ReqInv
<1>3. OpInv
  BY IdleOpOk DEF Init, OpInv
<1>4. Filled = {}
  BY DEF Init, Filled
<1>5. IsFiniteSet(Filled) /\ Cardinality(Filled) = 0
  BY <1>4, FS_EmptySet
<1>6. CacheInv
  BY <1>5, ClientConstants DEF Init, CacheInv, NoVerdict, Verdicts
<1> QED
  BY <1>1, <1>2, <1>3, <1>6 DEF IInv

(* What keeps the cache keeps its part of the invariant.                     *)
LEMMA CacheKept ==
    ASSUME CacheInv, cache' = cache
    PROVE  CacheInv'
<1>1. Filled' = Filled
  BY DEF Filled
<1> QED
  BY <1>1 DEF CacheInv

LEMMA NextHolds ==
    ASSUME IInv, [Next]_vars
    PROVE  IInv'
<1>1. active \in Enabled /\ ReqInv /\ OpInv /\ CacheInv
  BY DEF IInv
<1>2. req' = req => ReqInv'
  BY <1>1 DEF ReqInv
<1>3. op' = op => OpInv'
  BY <1>1 DEF OpInv
<1>4. cache' = cache => CacheInv'
  BY <1>1, CacheKept
<1>5. ASSUME NEW s \in Switches, SwitchModel(s)
      PROVE  IInv'
  BY <1>2, <1>3, <1>4, <1>5, SwitchModelStep DEF IInv
<1>6. ASSUME NEW c \in Callers, NEW o \in Ops[c], Begin(c, o)
      PROVE  IInv'
  BY <1>1, <1>4, <1>6, BeginStep DEF IInv
<1>7. ASSUME NEW c \in Callers, DoAttempt(c) \/ CallAnswered(c) \/ CallFailed(c)
      PROVE  IInv'
  BY <1>1, <1>4, <1>7, DoAttemptStep, CallAnsweredStep, CallFailedStep DEF IInv
<1>8. ASSUME NEW c \in Callers, JudgeLookup(c) \/ ExploreAnswers(c) \/ ExploreFails(c)
      PROVE  IInv'
  BY <1>1, <1>2, <1>4, <1>8, JudgeLookupStep, ExploreSteps DEF IInv
<1>9. ASSUME NEW c \in Callers, JudgeStore(c)
      PROVE  IInv'
  BY <1>1, <1>2, <1>9, JudgeStoreStep DEF IInv
<1>10. ASSUME NEW c \in Callers, Finish(c)
       PROVE  IInv'
  BY <1>1, <1>4, <1>10, FinishStep DEF IInv
<1>11. ASSUME NEW c \in Callers, Cancel(c) \/ (CallStep(c) /\ UNCHANGED clientVars)
       PROVE  IInv'
  <2>1. op' = op /\ cache' = cache /\ (CallStep(c) \/ CancelCall(c))
    BY <1>11 DEF Cancel, clientVars
  <2> QED
    BY <1>1, <1>3, <1>4, <2>1, RouterStep DEF IInv
<1>12. CASE UNCHANGED vars
  BY <1>1, <1>2, <1>3, <1>4, <1>12 DEF vars, routerVars, clientVars, IInv
<1> QED
  BY <1>5, <1>6, <1>7, <1>8, <1>9, <1>10, <1>11, <1>12 DEF Next, ClientStep

(* The inductive invariant holds of every behaviour of the clients.          *)
THEOREM Invariance == Spec => []IInv
<1>1. IInv /\ [Next]_vars => IInv'
  BY NextHolds
<1> QED
  BY <1>1, InitHolds, PTL DEF Spec

(* A call through the router (router.go, Call) stays on the provider of its  *)
(* snapshot and on one model, which that provider serves unless the caller   *)
(* named its own; it keeps to its retry budget and shows the text of one     *)
(* attempt only.                                                             *)
THEOREM CallsCorrect == Spec => []CallsFaithful
<1>1. IInv => CallsFaithful
  <2> SUFFICES ASSUME IInv PROVE CallsFaithful
    OBVIOUS
  <2>1. active \in Enabled /\ ReqInv /\ OpInv /\ CacheInv
    BY DEF IInv
  <2>2. active.provider \in Names
    BY <2>1 DEF Enabled, Names
  <2>3. ASSUME NEW c \in Callers
        PROVE  /\ req[c].pc \in {"idle", "prepare", "attempt", "waiting", "backoff", "returned"}
               /\ req[c].backoff \in 0 .. MaxBackoff \union {1} /\ req[c].attempt \in Nat
               /\ req[c].shown \subseteq {req[c].attempt} /\ req[c].attempt <= Retries + 1
               /\ req[c].pc \notin {"idle"} => req[c].on \in Enabled
               /\ req[c].pc \notin {"idle", "prepare"} =>
                    req[c].model = IF req[c].own = "none" THEN req[c].on.model ELSE req[c].own
    BY <2>1 DEF ReqInv, ReqOk, ReqRecords
  <2>7. \A p \in Enabled : p = [provider |-> p.provider, model |-> p.model]
    BY DEF Enabled
  <2>8. ServedByItsProvider
    BY <2>1, <2>3, <2>7 DEF ServedByItsProvider
  <2>4. ASSUME NEW c \in Callers
        PROVE  /\ op[c].pc \in {"idle", "lookup", "explore", "do", "calling", "store", "done"}
               /\ op[c].tries \in 0 .. 3 /\ op[c].out \in {"none", "ok", "err"}
    BY <2>1 DEF OpInv, OpOk
  <2>5. \A k \in Keys : cache[k].verdict \in {"none", "ALLOW", "CONFIRM", "DENY"}
    BY <2>1 DEF CacheInv, Verdicts
  <2>6. TypeOK
    BY <2>2, <2>3, <2>4, <2>5 DEF TypeOK
  <2> QED
    BY <2>3, <2>6, <2>8 DEF CallsFaithful, OneAttemptShown, AttemptsBounded
<1> QED
  BY <1>1, Invariance, PTL

(* No request leaves the router (router.go) that leaves its answer no room   *)
(* in the window of the model it is sent with, the caller's own included,    *)
(* for any windows, reserves and margins.                                    *)
THEOREM FitsCorrect == Spec => []RequestsFit
<1>1. IInv => RequestsFit
  BY DEF IInv, ReqInv, ReqOk, Roomy, RequestsFit
<1> QED
  BY <1>1, Invariance, PTL

(* No judge (judge.go) permits what no model permitted, by a failed call, an *)
(* unparseable reply, a missing caller or the cache, and the cache stays     *)
(* within its size.                                                          *)
THEOREM VerdictsCorrect == Spec => []VerdictsSafe
<1>1. IInv => VerdictsSafe
  <2> SUFFICES ASSUME IInv PROVE VerdictsSafe
    OBVIOUS
  <2>1. \A c \in Callers : OpOk(op[c])
    BY DEF IInv, OpInv
  <2>2. JudgesFailSafe
    BY <2>1 DEF JudgesFailSafe, OpOk, OpAt, IsJudge, Kind
  <2>3. CacheBounded
    BY DEF IInv, CacheInv, CacheBounded
  <2> QED
    BY <2>2, <2>3 DEF VerdictsSafe
<1> QED
  BY <1>1, Invariance, PTL

-----------------------------------------------------------------------------
(* The search for cycles in a plan                                           *)

PlanShaped(plan) ==
    /\ Len(plan) \in Nat /\ DOMAIN plan = 1 .. Len(plan)
    /\ \A i \in DOMAIN plan : Len(plan[i].deps) \in Nat /\ DOMAIN plan[i].deps = 1 .. Len(plan[i].deps)

(* A set of naturals with an upper bound has its maximum.                    *)
LEMMA MaxIn ==
    ASSUME NEW S \in SUBSET Nat, S # {}, NEW b \in Nat, \A x \in S : x <= b
    PROVE  Max(S) \in S
<1> DEFINE D == {b - x : x \in S}
<1>1. D \in SUBSET Nat /\ D # {}
  <2>1. \A x \in S : b - x \in Nat
    OBVIOUS
  <2> QED
    BY <2>1
<1>2. PICK d \in D : \A m \in D : d <= m
  BY <1>1, Smallest
<1>3. PICK x \in S : d = b - x
  BY <1>2
<1>4. \A y \in S : x >= y
  <2>1. ASSUME NEW y \in S PROVE x >= y
    <3>1. b - y \in D
      OBVIOUS
    <3>2. b - x <= b - y
      BY <1>2, <1>3, <3>1
    <3> QED
      BY <3>2
  <2> QED
    BY <2>1
<1> QED
  BY <1>4 DEF Max

(* The number of steps the search is given is a number.                      *)
LEMMA StepsType ==
    ASSUME NEW plan, PlanShaped(plan)
    PROVE  SearchSteps(plan) \in Nat
<1> DEFINE l(i) == Len(plan[i].deps)
           Bounded(n) == \E b \in Nat : \A i \in 1 .. n : l(i) <= b
           Bad == {n \in 0 .. Len(plan) : ~ Bounded(n)}
<1>1. Len(plan) \in Nat /\ \A i \in 1 .. Len(plan) : l(i) \in Nat
  BY DEF PlanShaped
<1> HIDE DEF l
<1>2. Bounded(0)
  OBVIOUS
<1>3. ASSUME NEW n \in 1 .. Len(plan), Bounded(n - 1) PROVE Bounded(n)
  <2>1. PICK b \in Nat : \A i \in 1 .. n - 1 : l(i) <= b
    BY <1>3
  <2>2. l(n) \in Nat
    BY <1>1
  <2>3. CASE l(n) <= b
    <3>1. \A i \in 1 .. n : i \in 1 .. n - 1 \/ i = n
      OBVIOUS
    <3>2. \A i \in 1 .. n : l(i) <= b
      BY <2>1, <2>3, <3>1
    <3> QED
      BY <3>2
  <2>4. CASE ~ (l(n) <= b)
    <3>1. \A i \in 1 .. n : l(i) <= l(n)
      BY <1>1, <2>1, <2>2, <2>4
    <3> QED
      BY <3>1, <2>2
  <2> QED
    BY <2>3, <2>4
<1> HIDE DEF Bounded
<1>4. Bounded(Len(plan))
  <2>1. SUFFICES ASSUME Bad # {} PROVE FALSE
    BY <1>1
  <2>2. Bad \in SUBSET Nat
    BY <1>1
  <2>3. PICK n \in Bad : \A m \in Bad : n <= m
    BY <2>1, <2>2, Smallest
  <2>4. n \in 1 .. Len(plan)
    BY <1>1, <1>2, <2>3
  <2>5. n - 1 \notin Bad /\ n - 1 \in 0 .. Len(plan)
    BY <1>1, <2>3, <2>4
  <2> QED
    BY <1>3, <2>3, <2>4, <2>5
<1>5. PICK b \in Nat : \A i \in 1 .. Len(plan) : l(i) <= b
  BY <1>4 DEF Bounded
<1> DEFINE S == {0} \union {l(i) : i \in 1 .. Len(plan)}
<1>6. S \in SUBSET Nat /\ S # {} /\ \A x \in S : x <= b
  BY <1>1, <1>5
<1>7. Max(S) \in Nat
  BY <1>6, MaxIn
<1>8. SearchSteps(plan) = Len(plan) * (3 + Max(S))
  BY DEF SearchSteps, PlanShaped, l
<1> HIDE DEF S
<1>9. 3 + Max(S) \in Nat
  BY <1>7
<1>10. \A x, y \in Nat : x * y \in Nat
  OBVIOUS
<1> QED
  BY <1>1, <1>8, <1>9, <1>10

(* What the search has established: no finished step is among those left,    *)
(* and the dependencies a visit has passed are finished.                     *)
SearchOK(plan, left, search) ==
    /\ DOMAIN search = {"at", "color", "stack", "ok"}
    /\ search.at \in Nat /\ search.at > 0
    /\ DOMAIN search.color = Ids(plan)
    /\ \A id \in left : search.color[id] # "black"
    /\ \A i \in 1 .. Len(plan) : i < search.at => search.color[plan[i].id] = "black"
    /\ search.stack \in Seq([id : Ids(plan), next : Nat])
    /\ \A f \in 1 .. Len(search.stack) :
         LET deps == StepOf(plan, search.stack[f].id).deps
         IN  \A j \in 1 .. Len(deps) :
                j < search.stack[f].next /\ deps[j] \in Ids(plan) => search.color[deps[j]] = "black"

Stuck(plan, prior, left) ==
    \A i \in DOMAIN plan : plan[i].id \in left => ~ (Range(plan[i].deps) \subseteq (Ids(plan) \ left) \union prior)

(* The step of an id is a step of the plan.                                  *)
LEMMA StepOfIs ==
    ASSUME NEW plan, NEW id \in Ids(plan)
    PROVE  \E i \in DOMAIN plan : StepOf(plan, id) = plan[i] /\ plan[i].id = id
  BY DEF StepOf, Ids

(* A visit keeps what the search has established, if its caller's going on   *)
(* does.                                                                     *)
LEMMA VisitOK ==
    ASSUME NEW plan, PlanShaped(plan), NEW left, left \subseteq Ids(plan),
           NEW search, SearchOK(plan, left, search), NEW id \in Ids(plan), NEW onward,
           search.color[id] = "black" => SearchOK(plan, left, onward)
    PROVE  SearchOK(plan, left, Visit(search, id, onward))
<1>1. CASE search.color[id] = "gray"
  <2> DEFINE n == [search EXCEPT !.ok = FALSE]
  <2>1. DOMAIN n = {"at", "color", "stack", "ok"} /\ n.at = search.at /\ n.color = search.color /\ n.stack = search.stack
    BY DEF SearchOK
  <2>2. Visit(search, id, onward) = n
    BY <1>1 DEF Visit
  <2> HIDE DEF n
  <2> QED
    BY <2>1, <2>2 DEF SearchOK
<1>2. CASE search.color[id] = "black"
  BY <1>2 DEF Visit
<1>3. CASE search.color[id] # "gray" /\ search.color[id] # "black"
  <2> DEFINE frame == [id |-> id, next |-> 1]
             color == [search.color EXCEPT ![id] = "gray"]
             stack == Append(search.stack, frame)
             n == [search EXCEPT !.color = color, !.stack = stack]
  <2>1. DOMAIN n = {"at", "color", "stack", "ok"} /\ n.at = search.at /\ n.color = color /\ n.stack = stack
    BY DEF SearchOK
  <2>2. Visit(search, id, onward) = n
    BY <1>3 DEF Visit, SearchOK
  <2>3. DOMAIN color = Ids(plan) /\ color[id] = "gray" /\ \A d \in Ids(plan) : d # id => color[d] = search.color[d]
    BY DEF SearchOK
  <2>4. frame \in [id : Ids(plan), next : Nat] /\ frame.id = id /\ frame.next = 1
    OBVIOUS
  <2>5. search.stack \in Seq([id : Ids(plan), next : Nat])
    BY DEF SearchOK
  <2> HIDE DEF n, color, frame
  <2>6. /\ stack \in Seq([id : Ids(plan), next : Nat]) /\ Len(stack) = Len(search.stack) + 1 /\ Len(search.stack) \in Nat
        /\ stack[Len(search.stack) + 1] = frame /\ \A f \in 1 .. Len(search.stack) : stack[f] = search.stack[f]
    BY <2>4, <2>5
  <2> HIDE DEF stack
  <2>7. \A d \in Ids(plan) : search.color[d] = "black" => color[d] = "black"
    BY <1>3, <2>3
  <2>8. \A d \in left : color[d] # "black"
    BY <2>3 DEF SearchOK
  <2>9. \A i \in 1 .. Len(plan) : plan[i].id \in Ids(plan)
    BY DEF Ids, PlanShaped
  <2>10. \A i \in 1 .. Len(plan) : i < n.at => color[plan[i].id] = "black"
    BY <2>1, <2>7, <2>9 DEF SearchOK
  <2>11. ASSUME NEW f \in 1 .. Len(stack), NEW j \in 1 .. Len(StepOf(plan, stack[f].id).deps), j < stack[f].next,
                StepOf(plan, stack[f].id).deps[j] \in Ids(plan)
         PROVE  color[StepOf(plan, stack[f].id).deps[j]] = "black"
    <3>1. CASE f = Len(search.stack) + 1
      <4>1. Len(StepOf(plan, id).deps) \in Nat
        BY StepOfIs DEF PlanShaped
      <4> QED
        BY <2>4, <2>6, <2>11, <3>1, <4>1
    <3>2. CASE f # Len(search.stack) + 1
      <4>a. \A k, g \in Nat : g \in 1 .. k + 1 /\ g # k + 1 => g \in 1 .. k
        OBVIOUS
      <4>b. f \in Nat /\ Len(stack) = Len(search.stack) + 1 /\ Len(search.stack) \in Nat
        BY <2>6
      <4>c. f \in 1 .. Len(search.stack)
        BY <2>11, <3>2, <4>a, <4>b
      <4>1. f \in 1 .. Len(search.stack) /\ stack[f] = search.stack[f]
        BY <2>6, <4>c
      <4>2. search.color[StepOf(plan, stack[f].id).deps[j]] = "black"
        BY <2>11, <4>1 DEF SearchOK
      <4> QED
        BY <2>7, <2>11, <4>2
    <3> QED
      BY <3>1, <3>2
  <2>12. n.at \in Nat /\ n.at > 0
    BY <2>1 DEF SearchOK
  <2>13. SearchOK(plan, left, n)
    BY <2>1, <2>3, <2>6, <2>8, <2>10, <2>11, <2>12 DEF SearchOK
  <2> QED
    BY <2>2, <2>13
<1> QED
  BY <1>1, <1>2, <1>3

(* The top of a stack and what is below it.                                  *)
LEMMA TopAndRest ==
    ASSUME NEW T, NEW s \in Seq(T), s # <<>>
    PROVE  /\ Len(s) \in Nat /\ Len(s) > 0 /\ s[Len(s)] \in T
           /\ SubSeq(s, 1, Len(s) - 1) \in Seq(T) /\ Len(SubSeq(s, 1, Len(s) - 1)) = Len(s) - 1
           /\ \A f \in 1 .. Len(s) - 1 : SubSeq(s, 1, Len(s) - 1)[f] = s[f]
<1>1. Len(s) \in Nat /\ Len(s) # 0
  OBVIOUS
<1>2. Len(s) \in 1 .. Len(s)
  BY <1>1
<1>3. s[Len(s)] \in T
  BY <1>1, <1>2
<1>4. Len(s) - 1 \in Nat /\ Len(s) - 1 <= Len(s)
  BY <1>1
<1>5. Len(SubSeq(s, 1, Len(s) - 1)) = Len(s) - 1
  <2>1. 1 \in 1 .. Len(s) + 1 /\ Len(s) - 1 \in 1 - 1 .. Len(s)
    BY <1>1, <1>4
  <2>2. Len(SubSeq(s, 1, Len(s) - 1)) = (IF 1 <= Len(s) - 1 THEN (Len(s) - 1) - 1 + 1 ELSE 0)
    BY <2>1
  <2>3. \A n \in Nat : n # 0 => (IF 1 <= n - 1 THEN (n - 1) - 1 + 1 ELSE 0) = n - 1
    OBVIOUS
  <2> QED
    BY <1>1, <2>2, <2>3
<1>6. \A f \in 1 .. Len(s) - 1 : SubSeq(s, 1, Len(s) - 1)[f] = s[f]
  BY <1>4
<1>7. SubSeq(s, 1, Len(s) - 1) \in Seq(T)
  BY <1>4
<1> QED
  BY <1>1, <1>3, <1>5, <1>6, <1>7

(* A visit that goes on or returns keeps what the search has established.    *)
LEMMA InVisitOK ==
    ASSUME NEW plan, PlanShaped(plan), NEW prior, NEW left, left \subseteq Ids(plan), Stuck(plan, prior, left),
           \A i \in DOMAIN plan : Range(plan[i].deps) \subseteq Ids(plan) \union prior,
           NEW search, SearchOK(plan, left, search), search.stack # <<>>
    PROVE  SearchOK(plan, left, InVisit(plan, search, Len(search.stack)))
<1> DEFINE k == Len(search.stack)
           top == search.stack[k]
           deps == StepOf(plan, top.id).deps
           Passed(s, f) == \A j \in 1 .. Len(StepOf(plan, s.stack[f].id).deps) :
                j < s.stack[f].next /\ StepOf(plan, s.stack[f].id).deps[j] \in Ids(plan)
                    => s.color[StepOf(plan, s.stack[f].id).deps[j]] = "black"
<1>1. search.stack \in Seq([id : Ids(plan), next : Nat])
  BY DEF SearchOK
<1>2. k \in Nat /\ k > 0 /\ top \in [id : Ids(plan), next : Nat]
  BY <1>1, TopAndRest
<1>3. PICK i \in DOMAIN plan : StepOf(plan, top.id) = plan[i] /\ plan[i].id = top.id
  BY <1>2, StepOfIs
<1>4. Len(deps) \in Nat /\ DOMAIN deps = 1 .. Len(deps)
  BY <1>3 DEF PlanShaped
<1>5. \A j \in 1 .. Len(deps) : j < top.next /\ deps[j] \in Ids(plan) => search.color[deps[j]] = "black"
  BY <1>2 DEF SearchOK
<1>6. CASE top.next > Len(deps)
  <2> DEFINE color == [search.color EXCEPT ![top.id] = "black"]
             stack == SubSeq(search.stack, 1, k - 1)
             n == [search EXCEPT !.color = color, !.stack = stack]
  <2>1. DOMAIN n = {"at", "color", "stack", "ok"} /\ n.at = search.at /\ n.color = color /\ n.stack = stack
    BY DEF SearchOK
  <2>2. InVisit(plan, search, k) = n
    BY <1>6 DEF InVisit, SearchOK
  <2>3. DOMAIN color = Ids(plan) /\ color[top.id] = "black" /\ \A d \in Ids(plan) : d # top.id => color[d] = search.color[d]
    BY <1>2 DEF SearchOK
  <2>4. /\ stack \in Seq([id : Ids(plan), next : Nat]) /\ Len(stack) = k - 1
        /\ \A f \in 1 .. k - 1 : stack[f] = search.stack[f]
    BY <1>1, TopAndRest
  <2>5. top.id \notin left
    <3>1. Range(plan[i].deps) \subseteq Ids(plan) \union prior
      OBVIOUS
    <3>2. SUFFICES ASSUME NEW d \in Range(plan[i].deps), d \in left PROVE FALSE
      BY <1>3, <3>1 DEF Stuck
    <3>3. PICK j \in DOMAIN deps : d = deps[j]
      BY <1>3, <3>2 DEF Range
    <3>4. j \in 1 .. Len(deps) /\ j < top.next
      BY <1>2, <1>4, <1>6, <3>3
    <3>5. search.color[d] = "black"
      BY <1>5, <3>2, <3>3, <3>4
    <3> QED
      BY <3>2, <3>5 DEF SearchOK
  <2> HIDE DEF n, color, stack
  <2>6. \A d \in Ids(plan) : search.color[d] = "black" => color[d] = "black"
    BY <2>3
  <2>7. \A d \in left : color[d] # "black"
    BY <2>3, <2>5 DEF SearchOK
  <2>8. \A h \in 1 .. Len(plan) : plan[h].id \in Ids(plan)
    BY DEF Ids, PlanShaped
  <2>9. \A h \in 1 .. Len(plan) : h < n.at => color[plan[h].id] = "black"
    BY <2>1, <2>6, <2>8 DEF SearchOK
  <2>10. ASSUME NEW f \in 1 .. Len(stack) PROVE Passed(n, f)
    <3>1. f \in 1 .. Len(search.stack) /\ stack[f] = search.stack[f]
      BY <1>2, <2>4
    <3>2. Passed(search, f)
      BY <3>1 DEF SearchOK
    <3> QED
      BY <2>1, <2>6, <3>1, <3>2
  <2>11. n.at \in Nat /\ n.at > 0
    BY <2>1 DEF SearchOK
  <2>12. SearchOK(plan, left, n)
    BY <2>1, <2>3, <2>4, <2>7, <2>9, <2>10, <2>11 DEF SearchOK
  <2> QED
    BY <2>2, <2>12
<1>7. CASE ~ (top.next > Len(deps))
  <2> DEFINE stack == [search.stack EXCEPT ![k].next = @ + 1]
             n == [search EXCEPT !.stack = stack]
             onward == [search EXCEPT !.stack[k].next = @ + 1]
  <2>1. DOMAIN n = {"at", "color", "stack", "ok"} /\ n.at = search.at /\ n.color = search.color /\ n.stack = stack
    BY DEF SearchOK
  <2>2. onward = n
    BY DEF SearchOK
  <2>3. /\ stack \in Seq([id : Ids(plan), next : Nat]) /\ Len(stack) = k
        /\ stack[k].id = top.id /\ stack[k].next = top.next + 1
        /\ \A f \in 1 .. k : f # k => stack[f] = search.stack[f]
    BY <1>1, <1>2
  <2> HIDE DEF stack, n
  <2>4. ASSUME deps[top.next] \in Ids(plan) => search.color[deps[top.next]] = "black" PROVE SearchOK(plan, left, n)
    <3>1. ASSUME NEW f \in 1 .. Len(stack) PROVE Passed(n, f)
      <4>1. CASE f = k
        <5>1. \A j \in 1 .. Len(deps) : j < top.next + 1 => j < top.next \/ j = top.next
          BY <1>2
        <5>2. \A j \in 1 .. Len(deps) : j < top.next + 1 /\ deps[j] \in Ids(plan) => search.color[deps[j]] = "black"
          BY <1>5, <2>4, <5>1
        <5> QED
          BY <2>1, <2>3, <4>1, <5>2
      <4>2. CASE f # k
        <5>1. f \in 1 .. k /\ stack[f] = search.stack[f]
          BY <2>3, <4>2
        <5>2. Passed(search, f)
          BY <5>1 DEF SearchOK
        <5> QED
          BY <2>1, <5>1, <5>2
      <4> QED
        BY <4>1, <4>2
    <3>2. n.at \in Nat /\ n.at > 0 /\ \A d \in left : n.color[d] # "black"
      BY <2>1 DEF SearchOK
    <3>3. \A h \in 1 .. Len(plan) : h < n.at => n.color[plan[h].id] = "black"
      BY <2>1 DEF SearchOK
    <3>4. DOMAIN n.color = Ids(plan)
      BY <2>1 DEF SearchOK
    <3> QED
      BY <2>1, <2>3, <3>1, <3>2, <3>3, <3>4 DEF SearchOK
  <2>5. CASE deps[top.next] \notin Ids(plan)
    <3>1. InVisit(plan, search, k) = onward
      BY <1>7, <2>5 DEF InVisit
    <3> QED
      BY <2>2, <2>4, <2>5, <3>1
  <2>6. CASE deps[top.next] \in Ids(plan)
    <3>1. InVisit(plan, search, k) = Visit(search, deps[top.next], onward)
      BY <1>7, <2>6 DEF InVisit
    <3>2. search.color[deps[top.next]] = "black" => SearchOK(plan, left, onward)
      BY <2>2, <2>4
    <3> HIDE DEF onward, deps, k
    <3>3. SearchOK(plan, left, Visit(search, deps[top.next], onward))
      BY <2>6, <3>2, VisitOK
    <3> QED
      BY <3>1, <3>3 DEF k
  <2> QED
    BY <2>5, <2>6
<1> QED
  BY <1>6, <1>7

(* So does every step of the search.                                         *)
LEMMA SearchStepOK ==
    ASSUME NEW plan, PlanShaped(plan), NEW prior, NEW left, left \subseteq Ids(plan), Stuck(plan, prior, left),
           \A i \in DOMAIN plan : Range(plan[i].deps) \subseteq Ids(plan) \union prior,
           NEW search, SearchOK(plan, left, search)
    PROVE  SearchOK(plan, left, SearchStep(plan, search))
<1>1. CASE search.ok /\ search.stack # <<>>
  BY <1>1, InVisitOK DEF SearchStep
<1>2. CASE search.ok /\ search.stack = <<>> /\ ~ (search.at > Len(plan))
  <2> DEFINE n == [search EXCEPT !.at = @ + 1]
             id == plan[search.at].id
  <2>1. search.at \in 1 .. Len(plan)
    BY <1>2 DEF SearchOK, PlanShaped
  <2>2. id \in Ids(plan)
    BY <2>1 DEF Ids, PlanShaped
  <2>3. DOMAIN n = {"at", "color", "stack", "ok"} /\ n.at = search.at + 1 /\ n.color = search.color /\ n.stack = search.stack
    BY DEF SearchOK
  <2>4. SearchStep(plan, search) = Visit(search, id, n)
    BY <1>2 DEF SearchStep
  <2>5. ASSUME search.color[id] = "black" PROVE SearchOK(plan, left, n)
    <3> HIDE DEF n
    <3>1. \A i \in 1 .. Len(plan) : i < n.at => i < search.at \/ i = search.at
      BY <2>1, <2>3 DEF PlanShaped
    <3>2. \A i \in 1 .. Len(plan) : i < n.at => n.color[plan[i].id] = "black"
      BY <2>3, <2>5, <3>1 DEF SearchOK
    <3>3. n.at \in Nat /\ n.at > 0
      BY <2>3 DEF SearchOK
    <3> QED
      BY <2>3, <3>2, <3>3 DEF SearchOK
  <2> HIDE DEF n, id
  <2>6. SearchOK(plan, left, Visit(search, id, n))
    BY <2>2, <2>5, VisitOK
  <2> QED
    BY <2>4, <2>6
<1>3. CASE ~ search.ok \/ (search.stack = <<>> /\ search.at > Len(plan))
  BY <1>3 DEF SearchStep
<1> QED
  BY <1>1, <1>2, <1>3

(* The steps of the search, one after the other, are a function.             *)
LEMMA SearchRuns ==
    ASSUME NEW plan, PlanShaped(plan)
    PROVE  \E after : /\ after = [n \in 0 .. SearchSteps(plan) |->
                                   IF n = 0 THEN FreshSearch(plan) ELSE SearchStep(plan, after[n - 1])]
                      /\ Searched(plan) = after[SearchSteps(plan)]
<1> DEFINE N == SearchSteps(plan)
           S(x) == SearchStep(plan, x)
           F == FreshSearch(plan)
           Runs(m) == \E g : g = [n \in 0 .. m |-> IF n = 0 THEN F ELSE S(g[n - 1])]
           Bad == {m \in 0 .. N : ~ Runs(m)}
<1>1. N \in Nat
  BY StepsType
<1>2. Searched(plan) = (CHOOSE g : g = [n \in 0 .. N |-> IF n = 0 THEN F ELSE S(g[n - 1])])[N]
  BY DEF Searched
<1> HIDE DEF N, S, F
<1>3. Runs(0)
  <2> DEFINE g == [n \in 0 .. 0 |-> F]
  <2>1. g = [n \in 0 .. 0 |-> IF n = 0 THEN F ELSE S(g[n - 1])]
    OBVIOUS
  <2> QED
    BY <2>1
<1>4. ASSUME NEW m \in 1 .. N, Runs(m - 1) PROVE Runs(m)
  <2>1. PICK g : g = [n \in 0 .. m - 1 |-> IF n = 0 THEN F ELSE S(g[n - 1])]
    BY <1>4
  <2> DEFINE h == [n \in 0 .. m |-> IF n = m THEN S(g[m - 1]) ELSE g[n]]
  <2>2. m \in Nat /\ m > 0
    BY <1>1
  <2>3. \A n \in 0 .. m - 1 : h[n] = g[n] /\ n \in 0 .. m
    BY <2>2
  <2>4. h[m] = S(g[m - 1]) /\ h[m - 1] = g[m - 1]
    BY <2>2
  <2>5. ASSUME NEW n \in 0 .. m PROVE h[n] = IF n = 0 THEN F ELSE S(h[n - 1])
    <3>1. CASE n = m
      BY <2>2, <2>4, <3>1
    <3>2. CASE n = 0
      BY <2>1, <2>2, <2>3, <3>2
    <3>3. CASE n # m /\ n # 0
      <4>1. n \in 0 .. m - 1 /\ n - 1 \in 0 .. m - 1
        BY <2>2, <3>3
      <4>2. g[n] = S(g[n - 1])
        BY <2>1, <3>3, <4>1
      <4> QED
        BY <2>3, <3>3, <4>1, <4>2
    <3> QED
      BY <3>1, <3>2, <3>3
  <2>6. h = [n \in 0 .. m |-> h[n]]
    OBVIOUS
  <2> HIDE DEF h
  <2>7. h = [n \in 0 .. m |-> IF n = 0 THEN F ELSE S(h[n - 1])]
    BY <2>5, <2>6
  <2> QED
    BY <2>7
<1> HIDE DEF Runs
<1>5. Runs(N)
  <2>1. SUFFICES ASSUME Bad # {} PROVE FALSE
    BY <1>1
  <2>2. Bad \in SUBSET Nat
    BY <1>1
  <2>3. PICK n \in Bad : \A m \in Bad : n <= m
    BY <2>1, <2>2, Smallest
  <2>4. n \in 1 .. N
    BY <1>1, <1>3, <2>3
  <2>5. n - 1 \notin Bad /\ n - 1 \in 0 .. N
    BY <1>1, <2>3, <2>4
  <2> QED
    BY <1>4, <2>3, <2>4, <2>5
<1>6. \E g : g = [n \in 0 .. N |-> IF n = 0 THEN F ELSE S(g[n - 1])]
  BY <1>5 DEF Runs
<1> QED
  BY <1>2, <1>6 DEF N, S, F

(* A plan that passes can be finished.                                       *)
LEMMA ValidMeansFinish ==
    ASSUME NEW plan, PlanShaped(plan), NEW prior, ValidatePlanDAG(plan, prior)
    PROVE  CanFinish(plan, prior)
<1>1. SUFFICES ASSUME NEW left \in SUBSET Ids(plan), Stuck(plan, prior, left) PROVE left = {}
  BY DEF CanFinish, Stuck
<1>2. \A i \in DOMAIN plan : Range(plan[i].deps) \subseteq Ids(plan) \union prior
  BY DEF ValidatePlanDAG
<1>3. SearchSteps(plan) \in Nat
  BY StepsType
<1>4. PICK after : /\ after = [n \in 0 .. SearchSteps(plan) |->
                                 IF n = 0 THEN FreshSearch(plan) ELSE SearchStep(plan, after[n - 1])]
                   /\ Searched(plan) = after[SearchSteps(plan)]
  BY SearchRuns
<1> DEFINE Bad == {n \in 0 .. SearchSteps(plan) : ~ SearchOK(plan, left, after[n])}
<1>5. SearchOK(plan, left, FreshSearch(plan))
  <2>1. <<>> \in Seq([id : Ids(plan), next : Nat]) /\ Len(<<>>) = 0
    OBVIOUS
  <2>2. \A i \in 1 .. Len(plan) : ~ (i < 1)
    BY DEF PlanShaped
  <2> QED
    BY <2>1, <2>2 DEF FreshSearch, SearchOK
<1>6. Bad = {}
  <2>1. SUFFICES ASSUME Bad # {} PROVE FALSE
    OBVIOUS
  <2>2. Bad \in SUBSET Nat
    BY <1>3
  <2>3. PICK n \in Bad : \A m \in Bad : n <= m
    BY <2>1, <2>2, Smallest
  <2>4. n # 0
    <3>1. after[0] = FreshSearch(plan)
      BY <1>3, <1>4
    <3> QED
      BY <1>5, <2>3, <3>1
  <2>5. n - 1 \notin Bad /\ n - 1 \in 0 .. SearchSteps(plan) /\ n \in 0 .. SearchSteps(plan)
    BY <1>3, <2>3, <2>4
  <2>6. after[n] = SearchStep(plan, after[n - 1])
    BY <1>4, <2>4, <2>5
  <2>7. SearchOK(plan, left, after[n])
    BY <1>1, <1>2, <2>5, <2>6, SearchStepOK
  <2> QED
    BY <2>3, <2>7
<1>7. SearchOK(plan, left, Searched(plan))
  <2>1. SearchSteps(plan) \in 0 .. SearchSteps(plan)
    BY <1>3
  <2>2. SearchOK(plan, left, after[SearchSteps(plan)])
    BY <1>6, <2>1
  <2> QED
    BY <1>4, <2>2
<1>8. Searched(plan).at > Len(plan)
  BY DEF ValidatePlanDAG
<1>9. ASSUME NEW id \in left PROVE FALSE
  <2>1. PICK i \in 1 .. Len(plan) : id = plan[i].id
    BY <1>1 DEF Ids, PlanShaped
  <2>2. i < Searched(plan).at
    BY <1>7, <1>8 DEF SearchOK, PlanShaped
  <2> QED
    BY <1>7, <2>1, <2>2 DEF SearchOK
<1> QED
  BY <1>9

-----------------------------------------------------------------------------
(* The plans the planner returns                                             *)

PlanOK(o) == o.pc = "done" /\ IsPlan(o.req.kind) /\ o.out = "ok" /\ ~o.req.single => CanFinish(o.value, o.req.prior)
PlanInv == \A c \in Callers : PlanOK(op[c])

(* A plan that was decoded has the shape of one.                             *)
LEMMA DecodedShaped ==
    ASSUME NEW plan \in Seq(DecodedStep)
    PROVE  PlanShaped(plan)
<1>1. Len(plan) \in Nat /\ DOMAIN plan = 1 .. Len(plan)
  OBVIOUS
<1>2. ASSUME NEW i \in DOMAIN plan PROVE Len(plan[i].deps) \in Nat /\ DOMAIN plan[i].deps = 1 .. Len(plan[i].deps)
  <2>1. plan[i] \in DecodedStep
    BY <1>1
  <2>2. plan[i].deps \in Seq(STRING)
    BY <2>1 DEF DecodedStep
  <2> QED
    BY <2>2
<1> QED
  BY <1>1, <1>2 DEF PlanShaped

(* Dropping skills leaves the graph of a plan alone.                         *)
LEMMA FilterKeepsGraph ==
    ASSUME NEW plan \in Seq(DecodedStep), NEW skills, NEW prior,
           CanFinish(plan, prior)
    PROVE  CanFinish(FilterSkills(plan, skills), prior)
<1> DEFINE n == FilterSkills(plan, skills)
<1>1. \A i \in DOMAIN plan : plan[i] \in DecodedStep
  OBVIOUS
<1>2. DOMAIN n = DOMAIN plan /\ \A i \in DOMAIN plan : n[i].id = plan[i].id /\ n[i].deps = plan[i].deps
  BY <1>1 DEF FilterSkills, DecodedStep
<1> HIDE DEF n
<1>3. Ids(n) = Ids(plan)
  BY <1>2 DEF Ids
<1>4. CanFinish(n, prior)
  BY <1>2, <1>3 DEF CanFinish
<1> QED
  BY <1>4 DEF n

(* What parses as a plan can be finished.                                    *)
LEMMA ParsedPlanFinishes ==
    ASSUME NEW reply \in Replies["plan"], NEW prior, NEW p, p = ParsePlan(reply.content.json, prior, Skills), p.ok
    PROVE  CanFinish(p.value, prior)
<1> DEFINE json == reply.content.json
<1>1. json.found /\ ValidatePlanDAG(json.steps, prior) /\ p.value = FilterSkills(json.steps, Skills)
  BY DEF ParsePlan, Failed, Parsed
<1>2. json.steps \in Seq(DecodedStep)
  BY <1>1, PlansDecoded
<1> HIDE DEF json
<1>3. CanFinish(json.steps, prior)
  BY <1>1, <1>2, DecodedShaped, ValidMeansFinish
<1> QED
  BY <1>1, <1>2, <1>3, FilterKeepsGraph

(* More done before is no obstacle.                                          *)
LEMMA PriorHelps ==
    ASSUME NEW plan, CanFinish(plan, {}), NEW prior
    PROVE  CanFinish(plan, prior)
  BY DEF CanFinish

LEMMA OnePlan ==
    ASSUME OpInv, PlanInv, NEW c \in Callers, NEW o, PlanOK(o), op' = [op EXCEPT ![c] = o]
    PROVE  PlanInv'
<1>1. op'[c] = o /\ \A d \in Callers : d # c => op'[d] = op[d]
  BY DEF OpInv
<1> QED
  BY <1>1 DEF PlanInv, PlanOK, CanFinish

(* An operation ends.                                                        *)
LEMMA EndsPlan ==
    ASSUME OpInv, PlanInv, NEW c \in Callers, NEW out, NEW value, Ends(c, out, value),
           out = "ok" /\ IsPlan(Kind(c)) /\ ~op[c].req.single => CanFinish(value, op[c].req.prior)
    PROVE  PlanInv'
<1> DEFINE o == [op[c] EXCEPT !.pc = "done", !.out = out, !.value = value]
<1>1. op' = [op EXCEPT ![c] = o]
  BY DEF Ends
<1>2. DOMAIN op[c] = OpFields
  BY DEF OpInv, OpOk
<1>3. o.pc = "done" /\ o.out = out /\ o.value = value /\ o.req = op[c].req
  BY <1>2 DEF OpFields
<1> HIDE DEF o
<1>4. PlanOK(o)
  BY <1>3 DEF PlanOK, Kind
<1> QED
  BY <1>1, <1>4, OnePlan

(* An operation moves on without ending.                                     *)
LEMMA MovesPlan ==
    ASSUME OpInv, PlanInv, NEW c \in Callers, NEW o, op' = [op EXCEPT ![c] = o], o.pc # "done" \/ ~ IsPlan(o.req.kind)
    PROVE  PlanInv'
<1>1. PlanOK(o)
  BY DEF PlanOK
<1> QED
  BY <1>1, OnePlan

LEMMA TransportErrorPlan ==
    ASSUME OpInv, PlanInv, NEW c \in Callers, TransportError(c)
    PROVE  PlanInv'
<1>1. IsJudge(Kind(c)) => ~ IsPlan(Kind(c))
  BY DEF IsJudge, IsPlan
<1>2. Ends(c, "err", "none") \/ (IsJudge(Kind(c)) /\ Ends(c, "ok", FailSafeValue(Kind(c))))
  BY DEF TransportError
<1> QED
  BY <1>1, <1>2, EndsPlan

LEMMA GotoPlan ==
    ASSUME OpInv, PlanInv, NEW c \in Callers, NEW pc, pc # "done", Goto(c, pc)
    PROVE  PlanInv'
<1> DEFINE o == [op[c] EXCEPT !.pc = pc]
<1>1. op' = [op EXCEPT ![c] = o]
  BY DEF Goto
<1>2. o.pc = pc
  BY DEF OpInv, OpOk, OpFields
<1> HIDE DEF o
<1> QED
  BY <1>1, <1>2, MovesPlan

(* The answer to a planner's call is a plan that can be finished.            *)
LEMMA AnsweredPlan ==
    ASSUME OpInv, PlanInv, NEW c \in Callers, NEW reply \in RepliesTo(Kind(c)), Answered(c, reply)
    PROVE  PlanInv'
<1> DEFINE p == ParseReply(c, reply)
           value == IF IsPlan(Kind(c)) THEN TruncateToSingle(p.value, op[c].req.single) ELSE p.value
           pc == IF Kind(c) = "judge" THEN "store" ELSE "done"
           o == [op[c] EXCEPT !.pc = pc, !.out = "ok", !.tries = @ + 1, !.said = reply.means, !.by = req[c].model,
                              !.value = value]
<1>1. DOMAIN op[c] = OpFields
  BY DEF OpInv, OpOk
<1>2. CASE ~p.ok
  <2>1. Unparsed(c)
    BY <1>2 DEF Answered
  <2>2. CASE op[c].tries < MaxParseRetries
    <3> DEFINE q == [op[c] EXCEPT !.pc = "do", !.tries = @ + 1]
    <3>1. op' = [op EXCEPT ![c] = q]
      BY <2>1, <2>2 DEF Unparsed
    <3>2. q.pc = "do"
      BY <1>1 DEF OpFields
    <3> HIDE DEF q
    <3> QED
      BY <3>1, <3>2, MovesPlan
  <2>3. CASE ~ (op[c].tries < MaxParseRetries) /\ Kind(c) = "judge"
    <3> DEFINE q == [op[c] EXCEPT !.pc = "store", !.value = FailSafeValue("judge"), !.by = req[c].model]
    <3>1. op' = [op EXCEPT ![c] = q]
      BY <2>1, <2>3 DEF Unparsed
    <3>2. q.pc = "store"
      BY <1>1 DEF OpFields
    <3> HIDE DEF q
    <3> QED
      BY <3>1, <3>2, MovesPlan
  <2>4. CASE ~ (op[c].tries < MaxParseRetries) /\ Kind(c) # "judge"
    <3>1. Ends(c, "err", "none") \/ (Kind(c) \in {"strict", "loop"} /\ Ends(c, "ok", FailSafeValue(Kind(c))))
      BY <2>1, <2>4 DEF Unparsed
    <3> QED
      BY <3>1, EndsPlan DEF IsPlan
  <2> QED
    BY <2>2, <2>3, <2>4
<1>3. CASE p.ok
  <2>1. op' = [op EXCEPT ![c] = o]
    BY <1>3 DEF Answered
  <2>2. ASSUME IsPlan(Kind(c)), ~op[c].req.single PROVE CanFinish(value, op[c].req.prior)
    <3> DEFINE prior == IF Kind(c) = "continue" THEN op[c].req.prior ELSE {}
               parsed == ParsePlan(reply.content.json, prior, Skills)
    <3>1. p = ParsePlanReply(reply, prior, Skills)
      BY <2>2 DEF ParseReply, IsPlan
    <3>2. p = parsed /\ parsed.ok
      BY <1>3, <3>1 DEF ParsePlanReply, Failed
    <3>3. reply \in Replies["plan"]
      BY <2>2 DEF RepliesTo
    <3>4. value = parsed.value
      BY <2>2, <3>2 DEF TruncateToSingle
    <3> HIDE DEF parsed, value
    <3>5. CanFinish(parsed.value, prior)
      BY <3>2, <3>3, ParsedPlanFinishes DEF parsed
    <3> QED
      BY <3>4, <3>5, PriorHelps
  <2> HIDE DEF value, pc, p
  <2>3. o.pc = pc /\ o.value = value /\ o.req = op[c].req
    BY <1>1 DEF OpFields
  <2> HIDE DEF o
  <2>4. PlanOK(o)
    BY <2>2, <2>3 DEF PlanOK, Kind
  <2> QED
    BY <2>1, <2>4, OnePlan
<1> QED
  BY <1>2, <1>3

LEMMA BeginPlan ==
    ASSUME OpInv, PlanInv, NEW c \in Callers, NEW r \in Ops[c], Begin(c, r)
    PROVE  PlanInv'
<1> DEFINE o == [IdleOp EXCEPT !.req = r, !.key = JudgeCacheKey(r), !.pc = Entry(r).pc,
                               !.out = Entry(r).out, !.value = Entry(r).value]
<1>1. op' = [op EXCEPT ![c] = o]
  BY DEF Begin
<1>2. o.req = r /\ o.pc = Entry(r).pc
  BY DEF IdleOp
<1>3. r.kind = "plan" => Entry(r).pc # "done"
  BY DEF Entry, Plan, GoesTo
<1>4. r.kind = "replan" => Entry(r).pc # "done"
  BY DEF Entry, Replan, GoesTo
<1>5. r.kind = "continue" => Entry(r).pc # "done"
  BY DEF Entry, PlanContinuation, GoesTo
<1> HIDE DEF o
<1>6. o.pc # "done" \/ ~ IsPlan(o.req.kind)
  BY <1>2, <1>3, <1>4, <1>5 DEF IsPlan
<1> QED
  BY <1>1, <1>6, MovesPlan

(* The judge's steps are no planner's.                                       *)
LEMMA JudgePlan ==
    ASSUME OpInv, PlanInv, NEW c \in Callers, JudgeLookup(c) \/ JudgeStore(c)
    PROVE  PlanInv'
<1>1. op[c].req.kind = "judge" /\ DOMAIN op[c] = OpFields /\ DOMAIN op = Callers
  BY DEF OpInv, OpOk, JudgeLookup, JudgeStore, OpAt
<1>2. op'[c].req = op[c].req /\ \A d \in Callers : d # c => op'[d] = op[d]
  <2>1. CASE JudgeLookup(c)
    BY <1>1, <2>1 DEF JudgeLookup, OpFields
  <2>2. CASE JudgeStore(c)
    BY <1>1, <2>2 DEF JudgeStore, OpFields
  <2> QED
    BY <2>1, <2>2
<1>3. PlanOK(op'[c])
  BY <1>1, <1>2 DEF PlanOK, IsPlan
<1> QED
  BY <1>2, <1>3 DEF PlanInv, PlanOK, CanFinish

LEMMA ExplorePlan ==
    ASSUME OpInv, PlanInv, NEW c \in Callers, ExploreAnswers(c) \/ ExploreFails(c)
    PROVE  PlanInv'
<1>1. CASE Goto(c, "do") \/ Ends(c, "err", "none")
  BY <1>1, GotoPlan, EndsPlan
<1>2. ASSUME NEW reply \in Replies["plan"], ParsePlan(reply.content.json, {}, Skills).ok,
             Ends(c, "ok", TruncateToSingle(ParsePlan(reply.content.json, {}, Skills).value, op[c].req.single))
      PROVE  PlanInv'
  <2> DEFINE p == ParsePlan(reply.content.json, {}, Skills)
  <2>1. ASSUME ~op[c].req.single PROVE TruncateToSingle(p.value, op[c].req.single) = p.value
    BY <2>1 DEF TruncateToSingle
  <2> HIDE DEF p
  <2>2. CanFinish(p.value, {})
    BY <1>2, ParsedPlanFinishes DEF p
  <2>3. CanFinish(p.value, op[c].req.prior)
    BY <2>2, PriorHelps
  <2> QED
    BY <1>2, <2>1, <2>3, EndsPlan DEF p
<1> QED
  BY <1>1, <1>2 DEF ExploreAnswers, ExploreFails

LEMMA PlanSteps ==
    ASSUME OpInv, PlanInv, [Next]_vars
    PROVE  PlanInv'
<1>1. CASE op' = op
  BY <1>1 DEF PlanInv, PlanOK, CanFinish
<1>2. ASSUME NEW c \in Callers, NEW o \in Ops[c], Begin(c, o) PROVE PlanInv'
  BY <1>2, BeginPlan
<1>3. ASSUME NEW c \in Callers, DoAttempt(c) PROVE PlanInv'
  BY <1>3, TransportErrorPlan, GotoPlan DEF DoAttempt
<1>4. ASSUME NEW c \in Callers, CallAnswered(c) PROVE PlanInv'
  <2>1. CASE Kind(c) = "stream" /\ Ends(c, "ok", "none")
    BY <2>1, EndsPlan DEF IsPlan
  <2>2. CASE \E reply \in RepliesTo(Kind(c)) : Answered(c, reply)
    BY <2>2, AnsweredPlan
  <2> QED
    BY <1>4, <2>1, <2>2 DEF CallAnswered
<1>5. ASSUME NEW c \in Callers, CallFailed(c) PROVE PlanInv'
  BY <1>5, TransportErrorPlan DEF CallFailed
<1>6. ASSUME NEW c \in Callers, JudgeLookup(c) \/ JudgeStore(c) PROVE PlanInv'
  BY <1>6, JudgePlan
<1>7. ASSUME NEW c \in Callers, ExploreAnswers(c) \/ ExploreFails(c) PROVE PlanInv'
  BY <1>7, ExplorePlan
<1>8. ASSUME NEW c \in Callers, Finish(c) PROVE PlanInv'
  <2>1. op' = [op EXCEPT ![c] = IdleOp] /\ IdleOp.pc # "done"
    BY <1>8 DEF Finish, IdleOp
  <2> QED
    BY <2>1, MovesPlan
<1>9. ASSUME NEW c \in Callers, Cancel(c) \/ (CallStep(c) /\ UNCHANGED clientVars) PROVE PlanInv'
  BY <1>1, <1>9 DEF Cancel, clientVars
<1>10. ASSUME NEW s \in Switches, SwitchModel(s) PROVE PlanInv'
  BY <1>1, <1>10 DEF SwitchModel
<1>11. CASE UNCHANGED vars
  BY <1>1, <1>11 DEF vars, clientVars
<1> QED
  BY <1>2, <1>3, <1>4, <1>5, <1>6, <1>7, <1>8, <1>9, <1>10, <1>11 DEF Next, ClientStep

(* A plan in several steps that the planner returns, from the exploration,   *)
(* from a nudged retry or as a continuation, stops only for an uncompleted   *)
(* step of the plan it continues: the search of validatePlanDAG misses no    *)
(* cycle, in plans of any size.                                              *)
THEOREM PlansCorrect == Spec => []PlansCanFinish
<1>1. Init => PlanInv
  BY DEF Init, PlanInv, PlanOK, IdleOp
<1>2. IInv /\ PlanInv /\ [Next]_vars => PlanInv'
  BY PlanSteps DEF IInv
<1>3. ASSUME NEW plan, NEW prior, CanFinish(plan, prior)
      PROVE  StopsOnlyForPrior(plan, prior)
  <2> SUFFICES ASSUME NEW completed \in SUBSET prior, NEW left \in SUBSET Ids(plan), left # {}
               PROVE  \E i \in DOMAIN plan :
                        /\ plan[i].id \in left
                        /\ \/ Range(plan[i].deps) \subseteq (Ids(plan) \ left) \union completed
                           \/ Range(plan[i].deps) \intersect (prior \ completed) # {}
    BY DEF StopsOnlyForPrior
  <2>1. PICK i \in DOMAIN plan : plan[i].id \in left /\ Range(plan[i].deps) \subseteq (Ids(plan) \ left) \union prior
    BY <1>3 DEF CanFinish
  <2>2. \/ Range(plan[i].deps) \subseteq (Ids(plan) \ left) \union completed
        \/ Range(plan[i].deps) \intersect (prior \ completed) # {}
    BY <2>1
  <2> QED
    BY <2>1, <2>2
<1>4. PlanInv => PlansCanFinish
  BY <1>3 DEF PlanInv, PlanOK, PlansCanFinish, ReturnedPlan, OpAt, Kind
<1> QED
  BY <1>1, <1>2, <1>4, Invariance, PTL DEF Spec
=============================================================================
