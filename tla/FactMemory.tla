----------------------------- MODULE FactMemory -----------------------------
(***************************************************************************)
(* The shared memory of facts: the tools store_fact and search_facts       *)
(* (tools/builtins/facts.go), the adapter and the blackboard behind them.  *)
(* A keyword is a token; what the code does to its text is given by the    *)
(* functions below.  The tools accept the keywords as a JSON array or as   *)
(* one string with commas, and drop what is neither.                       *)
(***************************************************************************)
EXTENDS Cases, Integers, FiniteSets, SequencesExt

CONSTANTS MaxFacts, MaxGiven   \* facts stored, keywords per call

ASSUME FactMemoryAssumption == MaxFacts \in Nat /\ MaxGiven \in Nat

VARIABLES facts,   \* MapBlackboard.facts: sequence of [keywords, content]
          told     \* the calls the memory confirmed, in their order (ghost)

factVars == <<facts, told>>

Tokens == {"auth", "AUTH", " config", "db,auth", "", "token=12345678"}
Decoded == Tokens \cup {"config", "db"}
ToLower == [k \in Decoded |-> IF k = "AUTH" THEN "auth" ELSE k]
Unpadded == [k \in Decoded |-> IF k = " config" THEN "config" ELSE k]
AtCommas == [k \in Decoded |-> IF k = "db,auth" THEN <<"db", "auth">> ELSE <<k>>]
Secrets == {"token=12345678"}

Forms == {"array", "string", "mixed array", "object"}

FactsInit == facts = <<>> /\ told = <<>>

----------------------------------------------------------------------------
DecodeKeywords(form, given) ==
    CASE form = "array" -> given
      [] form = "string" ->
             LET parts == FlattenSeq([i \in DOMAIN given |-> AtCommas[given[i]]])
             IN  SelectSeq([i \in DOMAIN parts |-> Unpadded[parts[i]]], LAMBDA k : k # "")
      [] OTHER -> <<>>

MatchesSecretPattern(text) == text \in Secrets

ContentSecretHit(content, keywords) == MatchesSecretPattern(content)
FirstSecretHit(content, keywords) ==
    \/ MatchesSecretPattern(content)
    \/ \E i \in DOMAIN keywords : MatchesSecretPattern(keywords[i])

StoreFact(form, given, content) ==
    LET keywords == DecodeKeywords(form, given)
    IN  /\ Len(keywords) \in 3..10 /\ content # ""
        /\ ~FirstSecretHit(content, keywords)
        /\ facts' = Append(facts, [keywords |-> keywords, content |-> content])
        /\ told' = Append(told, [form |-> form, given |-> given])

Given == UNION {[1..n -> Tokens] : n \in 2..MaxGiven} \cup {[i \in 1..11 |-> "auth"]}

FactsNext ==
    /\ Len(facts) < MaxFacts
    /\ \E form \in Forms, given \in Given, content \in {"", "fact"} \cup Secrets :
           StoreFact(form, given, content)

----------------------------------------------------------------------------
(* SearchFacts: the places in facts of those that match, best first.  The  *)
(* sort is stable on the few facts of an instance.                         *)
MatchesCaseSensitive(fact, query) ==
    Cardinality({i \in DOMAIN fact.keywords :
        \E j \in DOMAIN query : fact.keywords[i] = query[j]})
MatchCount(fact, query) ==
    Cardinality({i \in DOMAIN fact.keywords :
        \E j \in DOMAIN query : ToLower[fact.keywords[i]] = ToLower[query[j]]})

SearchFactsInStoredOrder(query) ==
    SelectSeq([n \in DOMAIN facts |-> n], LAMBDA n : MatchCount(facts[n], query) > 0)
SearchFacts(query) ==
    LET found == SelectSeq([n \in DOMAIN facts |-> n], LAMBDA n : MatchCount(facts[n], query) > 0)
    IN  SortSeq(found, LAMBDA m, n :
            \/ MatchCount(facts[m], query) > MatchCount(facts[n], query)
            \/ MatchCount(facts[m], query) = MatchCount(facts[n], query) /\ m < n)

\* The order of a query's keywords and their repetition do not count.
Queries == {SetToSeq(ks) : ks \in {{k, l} : k, l \in Tokens \ Secrets}}

Answers(form, given) == SearchFacts(DecodeKeywords(form, given))

----------------------------------------------------------------------------
(* A keyword that means the same in both forms: not blank, without blanks  *)
(* around it and without a comma.                                          *)
PlainKeyword(k) == DecodeKeywords("string", <<k>>) = <<k>>

(* A fact the tool confirmed is found again under every keyword it was     *)
(* given, in any case, whichever form either call used; a keyword that is  *)
(* blank, has blanks around it or has a comma in it is found in the form   *)
(* it was stored in, if that form keeps it at all, and a comma in a string *)
(* makes two keywords, each found in both forms (facts.go:90, :110,        *)
(* blackboard.go:226).                                                     *)
FactsFoundAgain ==
    /\ Len(facts) = Len(told)
    /\ \A n \in DOMAIN told : \A i \in DOMAIN told[n].given :
           LET k == told[n].given[i]
               kept == DecodeKeywords(told[n].form, <<k>>)
           IN  /\ kept # <<>> => n \in ToSet(Answers(told[n].form, <<k>>))
               /\ \A p \in {l \in ToSet(kept) : PlainKeyword(l)} :
                      \A form \in {"array", "string"}, q \in {l \in Decoded : ToLower[l] = ToLower[p]} :
                          n \in ToSet(Answers(form, <<q>>))

(* Of two facts without repeated keywords the one that answers more of the *)
(* question comes first, and nothing is listed twice or without reason     *)
(* (blackboard.go:255; agents read the top of the list first).             *)
FactsRanked ==
    \A q \in Queries :
        LET found == SearchFacts(q)
            distinct(n) == \A i, j \in DOMAIN facts[n].keywords :
                ToLower[facts[n].keywords[i]] = ToLower[facts[n].keywords[j]] => i = j
            answered(n) == {ToLower[q[i]] : i \in DOMAIN q}
                           \cap {ToLower[facts[n].keywords[i]] : i \in DOMAIN facts[n].keywords}
        IN  /\ IsInjective(found)
            /\ \A n \in ToSet(found) : answered(n) # {}
            /\ \A i, j \in DOMAIN found :
                   i < j /\ distinct(found[i]) /\ distinct(found[j])
                   => Cardinality(answered(found[i])) >= Cardinality(answered(found[j]))

(* What outlives the session holds no credential, neither in a fact's text *)
(* nor in a keyword as it was decoded (facts.go:146, :299).                *)
FactsHoldNoSecret ==
    \A n \in DOMAIN facts :
        /\ facts[n].content \notin Secrets
        /\ ToSet(facts[n].keywords) \cap Secrets = {}

(* A fact the tool confirmed is found again under its keywords, best match   *)
(* first, and holds no credential (facts.go, blackboard.go:226).             *)
FactsKept ==
    /\ FactsFoundAgain
    /\ FactsRanked
    /\ FactsHoldNoSecret
=============================================================================
