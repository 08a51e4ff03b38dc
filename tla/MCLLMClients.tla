----------------------------- MODULE MCLLMClients -----------------------------
EXTENDS LLMClients, TLC

MCProviders == <<[name |-> "p", rank |-> 2, first |-> "m", models |-> {"m", "x"}],
                 [name |-> "q", rank |-> 1, first |-> "x", models |-> {"x"}]>>
MCSwitches == {[composite |-> FALSE, provider |-> "none", model |-> "x"],
               [composite |-> TRUE, provider |-> "p", model |-> "m"],
               [composite |-> TRUE, provider |-> "q", model |-> "m"]}

(* The window of x is unknown, and no provider serves y.                     *)
MCMeta == "m" :> [window |-> 8, output |-> 0] @@ "x" :> [window |-> 0, output |-> 0] @@ "y" :> [window |-> 6, output |-> 2]

O(kind, id) == [NoOp EXCEPT !.kind = kind, !.id = id]
MCOps == ("c1" :> {O("judge", "r1")})
      @@ ("c2" :> {O("judge", "r1"), [O("judge", "r1") EXCEPT !.wired = FALSE], [O("judge", "r1") EXCEPT !.fast = TRUE], O("stream", "s"), [O("stream", "s") EXCEPT !.own = "y"], O("strict", "r"),
                   [O("strict", "r") EXCEPT !.wired = FALSE], O("loop", "l"), O("route", "t"), O("reflect", "f"),
                   O("plan", "n"), [O("plan", "n") EXCEPT !.explore = TRUE], [O("continue", "n") EXCEPT !.prior = {"z"}], O("replan", "n"),
                   [O("plan", "n") EXCEPT !.single = TRUE]})

Text(lines) == [json |-> NoJSON, lines |-> lines]
Object(o) == [json |-> [found |-> TRUE] @@ o, lines |-> <<Prose>>]
R(content, thinking, means) == [content |-> content, thinking |-> thinking, reasoning |-> Blank, means |-> means]
V(words) == Line("verdict", words, FALSE, TRUE)
Why == Line("reason", <<"BECAUSE">>, FALSE, TRUE)
Verdict(words, reason) == [verdict |-> words, reason |-> reason]
P(id, deps) == [id |-> id, deps |-> deps, skills |-> {"k"}]
PlanReply(steps) == R(Object([steps |-> steps]), Blank, "plan")
Garbage == R(Text(<<Line("other", <<"I", "WOULD", "ALLOW", "IT">>, FALSE, FALSE)>>), Blank, "none")
MCReplies ==
    [judge |-> {R(Text(<<V(<<"ALLOW">>), Why>>), Blank, "ALLOW"), R(Text(<<V(<<"NOT", "SAFE">>)>>), Blank, "none"),
                R(Blank, Text(<<V(<<"ALLOW">>), V(<<"DENY", "IT">>)>>), "DENY"), R(Object(Verdict(<<"MAYBE">>, TRUE)), Blank, "none"), Garbage},
     strict |-> {R(Text(<<V(<<"ALLOW">>), Why>>), Blank, "ALLOW"), R(Text(<<V(<<"ALLOW">>)>>), Blank, "none"),
                 R(Blank, Text(<<V(<<"ALLOW">>), Why>>), "none"), Garbage},
     loop |-> {R(Text(<<Line("other", <<"ALLOW", "ALWAYS">>, FALSE, FALSE)>>), Blank, "ALWAYS"),
               R(Text(<<V(<<"ALLOW", "NOTHING">>)>>), Blank, "none"), R(Object(Verdict(<<"STOP">>, FALSE)), Blank, "DENY"), Garbage},
     route |-> {R(Object([domain |-> "code", complexity |-> 9]), Blank, "route"), Garbage},
     reflect |-> {R(Object([action |-> "panic"]), Blank, "reflect"), Garbage},
     plan |-> {PlanReply(<<>>), PlanReply(<<P("a", <<"b">>), P("b", <<>>)>>), PlanReply(<<P("a", <<"b">>), P("b", <<"a">>)>>),
               PlanReply(<<P("a", <<"b">>), P("b", <<"c">>), P("c", <<"b">>)>>),
               PlanReply(<<P("a", <<"z">>)>>), PlanReply(<<P("a", <<>>), P("a", <<>>)>>)}]

(* What a caller sets is sent as it is set, unless the model takes no such    *)
(* parameter; what it leaves unset is filled only for a model the registry    *)
(* vouches for, and a deterministic call gets a temperature and nothing else. *)
ASSUME SamplingRespectsCaller ==
    \A temp, rest \in {"nil", "set"}, deterministic, host \in BOOLEAN, known \in {"unknown", "guessed", "fixed", "free"},
       ptemp, prest \in {"nil", "preset"} :
        LET r == [temp |-> temp, rest |-> rest, deterministic |-> deterministic]
            s == ApplyDefaultSampling(r, known, [host |-> host, temp |-> IF host THEN ptemp ELSE "nil", rest |-> IF host THEN prest ELSE "nil"])
        IN  /\ known = "fixed" => s.temp = "nil" /\ s.rest = "nil"
            /\ known # "fixed" => (temp = "set" => s.temp = "set") /\ (rest = "set" => s.rest = "set")
            /\ known \in {"unknown", "guessed"} => s = r
            /\ deterministic /\ known = "free" => s.temp \in {"set", "family"} /\ s.rest = rest
            /\ ~deterministic /\ ~host /\ known = "free" => s.temp \in {"set", "zero"}

(* The search refuses no plan that could be finished: for all plans of three  *)
(* steps with up to two dependencies each, on each other or on an earlier     *)
(* plan, validatePlanDAG accepts those without a cycle.                       *)
ASSUME SearchRefusesNoGoodPlan ==
    LET deps == UNION {[1 .. n -> {"a", "b", "c", "z"}] : n \in 0 .. 2}
    IN  \A d, e, f \in deps :
            LET plan == <<P("a", d), P("b", e), P("c", f)>>
            IN  CanFinish(plan, {"z"}) => ValidatePlanDAG(plan, {"z"})
=============================================================================
