--------------------------- MODULE ShellCriteria ---------------------------
(***************************************************************************)
(* tools/shellanalysis.go: the criteria C1-C10 applied to the report of    *)
(* the external flowsh analyzer on one shell command, the criterion that   *)
(* wins, the marker that calls a command workspace-scoped verification,    *)
(* and the effect signature.                                               *)
(*                                                                         *)
(* A report is a set of effects and the flows the analyzer found.  Of an   *)
(* effect's target only its place matters: what it is spelled as, and      *)
(* where the base directory puts it.                                       *)
(***************************************************************************)
EXTENDS Naturals, Sequences, FiniteSets, Cases

-----------------------------------------------------------------------------
(* Targets *)

\* "rel..." are relative: to a file of the base, to a manifest there, up to
\* a place outside, up to a system path.  "sys_in" is a system path inside a
\* session root; "flag" is no path; "top" is an unresolved target.
Targets == {"abs_in", "abs_out", "sys", "sys_in", "dev", "null", "flag", "top",
            "rel", "rel_manifest", "rel_out", "rel_sys"}
Relative == {"rel", "rel_manifest", "rel_out", "rel_sys"}

ShellPathLikeTarget(t) == t # "flag"
\* shellResolveTarget: a relative target needs a base.
Resolvable(t, base) == t \notin Relative \/ base # "none"
\* Both take a resolved target.
IsSystemOrRawDevice(t) == t \in {"sys", "sys_in", "dev", "rel_sys"}
IsHarmlessDevice(t) == t = "null"
InSessionRoots(t) == t \in {"abs_in", "sys_in", "rel", "rel_manifest"}

\* WorkingDirectory, when given, is a directory inside the roots; the
\* workspace takes its place otherwise.
Base(workDir) == IF workDir = "none" THEN "workspace" ELSE workDir

-----------------------------------------------------------------------------
(* Reports *)

Kinds == {"FSRead", "FSWrite", "FSMeta", "ProcSpawn", "CodeExec", "PrivEsc", "CredAccess",
          "NetEgress", "NetIngress", "EnvWrite"}
Effects == [kind : Kinds, direct : BOOLEAN, target : Targets, reversible : BOOLEAN]

\* c.bound: "none", "top" (nothing known) or "conservative"; c.destructive:
\* class D or E; c.reversible: the report's score.
HasKind(c, k) == \E e \in c.effects : e.kind = k
Unbounded(c) == c.bound # "none"
UnboundedWrite(c) ==
    \E e \in c.effects : e.kind = "FSWrite" /\ e.direct /\ e.target = "top" /\ ~e.reversible
Bounded(c) == ~Unbounded(c) /\ ~UnboundedWrite(c)

SystemTargets(c) ==
    {e \in c.effects : /\ e.kind \in {"FSWrite", "FSMeta"} /\ e.direct /\ e.target # "top"
                       /\ ShellPathLikeTarget(e.target) /\ Resolvable(e.target, "none")
                       /\ IsSystemOrRawDevice(e.target)}

\* Without session roots nothing is outside.
OutsideRoots(c, kinds, directOnly) ==
    {e \in c.effects : /\ c.roots /\ e.kind \in kinds /\ e.target # "top"
                       /\ directOnly => e.direct
                       /\ ShellPathLikeTarget(e.target)
                       /\ Resolvable(e.target, Base(c.workDir))
                       /\ ~IsHarmlessDevice(e.target) /\ ~InSessionRoots(e.target)}

\* Mutant: metadata effects count as reads of system files do.
OutsideDirectReadsOnly(c) ==
    {e \in OutsideRoots(c, {"FSRead", "FSWrite"}, TRUE) :
        IF e.kind = "FSRead" THEN e.target # "dev" ELSE ~IsSystemOrRawDevice(e.target)}

\* Writes on system paths are left to C3, reads of raw devices to nobody.
OutsideDirectNonSystem(c) ==
    {e \in OutsideRoots(c, {"FSRead", "FSWrite", "FSMeta"}, TRUE) :
        IF e.kind = "FSRead" THEN e.target # "dev" ELSE ~IsSystemOrRawDevice(e.target)}

-----------------------------------------------------------------------------
(* The criteria, in their order *)

Criterion(code, hard, canonical) == [code |-> code, hard |-> hard, canonical |-> canonical]
Priority == << Criterion("exfil", TRUE, TRUE), Criterion("privilege", TRUE, TRUE),
               Criterion("system_write", TRUE, TRUE), Criterion("destructive", TRUE, TRUE),
               Criterion("cradle", TRUE, TRUE), Criterion("unbounded", TRUE, FALSE),
               Criterion("ingest", TRUE, FALSE), Criterion("credentials", FALSE, FALSE),
               Criterion("outside_roots", FALSE, FALSE), Criterion("exec_outside", TRUE, FALSE) >>

Fires(c, code) ==
    CASE code = "exfil" -> c.exfil
      [] code = "privilege" -> HasKind(c, "PrivEsc")
      [] code = "system_write" -> SystemTargets(c) # {}
      [] code = "destructive" ->
           c.destructive /\ ~c.reversible /\ OutsideRoots(c, {"FSWrite"}, FALSE) # {}
      [] code = "cradle" -> c.cradle
      [] code = "unbounded" -> UnboundedWrite(c) \/ (Unbounded(c) /\ ~c.cradle)
      [] code = "ingest" -> c.ingest
      [] code = "credentials" -> HasKind(c, "CredAccess") /\ ~c.exfil
      [] code = "outside_roots" -> OutsideDirectNonSystem(c) # {}
      [] code = "exec_outside" ->
           Bounded(c) /\ OutsideRoots(c, {"CodeExec", "ProcSpawn"}, TRUE) # {}

Fired(c) == SelectSeq(Priority, LAMBDA x : Fires(c, x.code))

\* Mutant: the criterion of the highest priority wins.
FirstCriterion(fired) == fired[1]

\* The first one, unless it is soft and a hard one follows.
WinningCriterion(fired) ==
    LET hard == {i \in DOMAIN fired : fired[i].hard}
    IN  IF ~fired[1].hard /\ hard # {}
        THEN fired[CHOOSE i \in hard : \A j \in hard : i <= j] ELSE fired[1]

\* evaluateShellReport
Evaluate(c) ==
    LET fired == Fired(c)
    IN  IF fired = <<>> THEN [allow |-> TRUE, severity |-> "none", code |-> "none", canonical |-> FALSE]
        ELSE LET w == WinningCriterion(fired)
             IN  [allow |-> FALSE, severity |-> IF w.hard THEN "hard" ELSE "soft",
                  code |-> w.code, canonical |-> w.canonical]

\* ShellJudgeOutcome: without an analysis there is no opinion, a failed one
\* denies.
JudgeOutcome(attached, c) ==
    CASE attached = "error" -> [allow |-> FALSE, severity |-> "hard", code |-> "unavailable",
                                canonical |-> FALSE]
      [] attached = "none" -> [allow |-> FALSE, severity |-> "none", code |-> "none",
                               canonical |-> FALSE]
      [] attached = "analysis" -> Evaluate(c)

-----------------------------------------------------------------------------
(* The marker: a build, test or search confined to the workspace *)

MarkerTargetInRoots(t, base) ==
    Resolvable(t, base) /\ (IsHarmlessDevice(t) \/ InSessionRoots(t))

\* Mutant: only file effects are looked at.
MarkerFilesSafe(c) ==
    \A e \in c.effects :
        /\ e.kind \notin {"NetEgress", "NetIngress"}
        /\ (e.kind \in {"FSRead", "FSWrite", "FSMeta"} /\ ShellPathLikeTarget(e.target)) =>
               MarkerTargetInRoots(e.target, c.workDir)

\* Relative targets of effects are resolved against working_directory only.
MarkerEffectsSafe(c) ==
    \A e \in c.effects :
        /\ e.kind \notin {"NetEgress", "NetIngress"}
        /\ IF e.target = "top" THEN e.kind = "CodeExec"
           ELSE (e.kind \in {"FSRead", "FSWrite", "FSMeta", "ProcSpawn", "CodeExec"}
                   /\ ShellPathLikeTarget(e.target))
                 => /\ ~(e.kind \in {"FSWrite", "FSMeta"} /\ e.target = "rel_manifest")
                    /\ MarkerTargetInRoots(e.target, c.workDir)

\* One command call: a driver with a subcommand from its list, or plumbing;
\* none of its forbidden flags; operands and redirections inside the roots.
CallSafe(call, base) ==
    /\ call.program \in {"driver", "plumbing"}
    /\ call.program = "driver" => call.subcommandAllowed
    /\ ~call.forbiddenFlag
    /\ call.operand \in {"none", "flag"} \/ MarkerTargetInRoots(call.operand, base)
    /\ LET r == call.redirect
       IN  \/ r = "none" \/ r = "fd"
           \/ /\ r \notin {"unknown", "socket", "write_manifest"}
              /\ MarkerTargetInRoots(r, base)

MarkerCallsSafe(c) ==
    /\ \A call \in c.calls : CallSafe(call, Base(c.workDir))
    /\ \E call \in c.calls : call.program = "driver"

\* Every assigned variable is on the list, with a value from the list.
MarkerEnvSafe(c) == HasKind(c, "EnvWrite") => c.env = "listed"

Marker(c) ==
    /\ c.bound # "top" /\ c.calls # {} /\ c.roots /\ c.callsComplete
    /\ MarkerEffectsSafe(c) /\ MarkerCallsSafe(c) /\ MarkerEnvSafe(c)

\* shellEffectSignature: drivers, effects, codes and marker; places are part
\* of the effects, the command's text is not.
Signature(c) ==
    [bins |-> {call.program : call \in {x \in c.calls : x.program = "driver"}},
     fx |-> c.effects, crit |-> {f.code : f \in {Fired(c)[i] : i \in DOMAIN Fired(c)}},
     marker |-> Marker(c)]

-----------------------------------------------------------------------------
(* The enumerated reports *)

Quiet == [effects |-> {}, bound |-> "none", exfil |-> FALSE, cradle |-> FALSE, ingest |-> FALSE,
          destructive |-> FALSE, reversible |-> TRUE, roots |-> TRUE, workDir |-> "none",
          calls |-> {}, callsComplete |-> TRUE, env |-> "listed"]
Plain == [program |-> "driver", subcommandAllowed |-> TRUE, forbiddenFlag |-> FALSE,
          operand |-> "none", redirect |-> "none"]
Calls == {Plain, [Plain EXCEPT !.program = "plumbing"], [Plain EXCEPT !.program = "other"],
          [Plain EXCEPT !.subcommandAllowed = FALSE], [Plain EXCEPT !.forbiddenFlag = TRUE]}
         \cup {[Plain EXCEPT !.operand = t] : t \in Targets \ {"top"}}
         \cup {[Plain EXCEPT !.redirect = r] : r \in {"fd", "unknown", "socket", "write_manifest",
                                                      "abs_in", "abs_out", "null", "rel"}}
Few == {e \in Effects : e.direct /\ ~e.reversible /\ e.target \in {"abs_in", "abs_out", "sys", "rel", "top"}
                        /\ e.kind \notin {"PrivEsc", "NetIngress", "FSMeta"}}
Flows == {[exfil |-> x, cradle |-> cr, ingest |-> i] : x \in BOOLEAN, cr \in BOOLEAN, i \in BOOLEAN}

\* One effect under every bound and flow; two effects; one effect and a call.
ShellNext ==
    \/ \E r \in BOOLEAN, f \in Flows :
         Pick("shell", [attached : {"analysis"},
             report : {[Quiet EXCEPT !.effects = es, !.bound = b, !.destructive = d, !.reversible = FALSE,
                                     !.exfil = f.exfil, !.cradle = f.cradle, !.ingest = f.ingest,
                                     !.roots = r] :
                 es \in {{}} \cup {{e} : e \in {x \in Effects : x.kind = "FSWrite" \/ ~x.reversible}},
                 b \in {"none", "top", "conservative"}, d \in BOOLEAN}])
    \/ \E w \in {"none", "inside"} :
         Pick("shell", [attached : {"analysis"},
             report : {[Quiet EXCEPT !.effects = {e, f}, !.destructive = d, !.reversible = FALSE,
                                     !.workDir = w, !.calls = {Plain}] :
                 e \in Few, f \in Few, d \in BOOLEAN}])
    \/ \E w \in {"none", "inside"}, cc \in BOOLEAN, v \in {"listed", "other"} :
         Pick("shell", [attached : {"analysis"},
             report : {[Quiet EXCEPT !.effects = {e}, !.calls = {k}, !.workDir = w, !.callsComplete = cc,
                                     !.env = v, !.bound = b] :
                 e \in Few, k \in Calls, b \in {"none", "conservative"}}])
    \/ \E w \in {"none", "inside"} :
         Pick("shell", [attached : {"analysis"},
             report : {[Quiet EXCEPT !.effects = {e}, !.calls = {Plain}, !.workDir = w] : e \in Effects}])
    \/ Pick("shell", [attached : {"error", "none"}, report : {Quiet}])

-----------------------------------------------------------------------------
(* Properties *)

\* A hard criterion is never hidden by a soft one of higher priority, nor a
\* canonical one by any other; the command passes only if nothing fired and
\* an analysis was made; and the signature, which names the codes and not
\* their order, still determines severity and canonicity.
HardCriteriaWin ==
    Picked("shell") =>
        LET c == case[1].report
            o == JudgeOutcome(case[1].attached, c)
            crit == Signature(c).crit
            hard == {f \in {Priority[i] : i \in DOMAIN Priority} : f.code \in crit /\ f.hard}
        IN  /\ o.allow <=> (case[1].attached = "analysis" /\ crit = {})
            /\ case[1].attached = "analysis" =>
                 /\ (o.severity = "hard") <=> hard # {}
                 /\ ~o.allow => o.code \in crit
                 /\ o.canonical <=> \E f \in hard : f.canonical

\* What a command does itself outside the roots.
Escaping(c) ==
    {e \in c.effects : /\ e.direct /\ e.kind \in {"FSWrite", "FSMeta", "ProcSpawn", "CodeExec"}
                       /\ e.target \in {"abs_out", "sys", "dev", "rel_out", "rel_sys"}}
\* A relative spelling of a system path: C9 leaves the write to C3
\* (shellanalysis.go:772-787), which skips relative targets (680-701).
BetweenC3AndC9(e) == e.kind \in {"FSWrite", "FSMeta"} /\ e.target = "rel_sys"

\* No direct write, metadata change or execution outside the roots escapes
\* every criterion, but for the one kind of write that C3 and C9 leave to
\* each other; and a command with such a write does pass when nothing else
\* in it fires.
NoOutsideWriteUnnoticed ==
    Picked("shell") =>
        LET c == case[1].report
        IN  (case[1].attached = "analysis" /\ c.roots) =>
              /\ Evaluate(c).allow => \A e \in Escaping(c) : BetweenC3AndC9(e)
              /\ Escaping(c) \ (SystemTargets(c) \cup OutsideDirectNonSystem(c)
                                  \cup OutsideRoots(c, {"CodeExec", "ProcSpawn"}, TRUE))
                   = {e \in Escaping(c) : BetweenC3AndC9(e)}

\* A command marked as workspace-scoped verification fires none of the
\* criteria about places outside the roots, talks to no network and runs a
\* known driver only.
MarkerMeansConfined ==
    Picked("shell") =>
        LET c == case[1].report
            crit == Signature(c).crit
        IN  Marker(c) =>
              /\ crit \cap {"destructive", "outside_roots", "exec_outside"} = {}
              /\ OutsideRoots(c, Kinds \ {"PrivEsc", "CredAccess", "EnvWrite"}, FALSE) = {}
              /\ "system_write" \in crit => \E e \in c.effects : e.target = "sys_in"

(* Overlapping criteria never talk each other out of a finding: the hard     *)
(* ones win, a write outside the roots is dropped between two of them only   *)
(* when it spells a system path relatively, and the verification marker is   *)
(* given to confined commands only (shellanalysis.go:433-604, 680, 772).     *)
ShellJudged ==
    /\ HardCriteriaWin
    /\ NoOutsideWriteUnnoticed
    /\ MarkerMeansConfined
=============================================================================
