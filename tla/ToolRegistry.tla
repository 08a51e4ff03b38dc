----------------------------- MODULE ToolRegistry -----------------------------
(***************************************************************************)
(* tools/registry.go: the tool registry and one tool call through Execute.   *)
(* Every map is behind one lock that each method takes and releases, so a    *)
(* call reads the tool, its category and its policy at three moments while   *)
(* hosts and the MCP gateway register, replace and remove tools.             *)
(***************************************************************************)
EXTENDS Naturals

CONSTANTS
    ToolNames,  \* the names tools are registered under
    Callers,    \* goroutines that call Execute
    CoreTools,  \* host tools: records [policy, judger, untrusted], see below
    HostPolicies, \* the policies hosts override with
    HostSettings  \* what hosts pass to SetConfirmFunc and SetInputValidationEnabled

Policies == {"allow", "confirm", "deny"}
CoreTool == [kind : {"core"}, conn : {0}, policy : Policies, judger : BOOLEAN, untrusted : BOOLEAN]
ASSUME CoreToolsAssumption == CoreTools \subseteq CoreTool
ASSUME HostAssumption == HostPolicies \subseteq Policies /\ HostSettings \subseteq [validate : BOOLEAN, confirm : BOOLEAN]

VARIABLES
    reg,         \* tools, toolSources and toolCategories, by name
    overrides,   \* policyOverrides, by name
    grantedTo,   \* history: the tool an override was set for
    settings,    \* [validate : inputValidationEnabled, confirm : confirmFunc # nil], fixed
    call         \* the Execute call of each caller

regVars == <<reg, overrides, grantedTo, settings>>
registryVars == <<regVars, call>>

NoTool == [kind |-> "none", conn |-> 0, policy |-> "deny", judger |-> FALSE, untrusted |-> FALSE]
NoEntry == [tool |-> NoTool, source |-> "none", cat |-> "none"]
Registered(n) == reg[n] # NoEntry

IdleCall == [pc |-> "idle", name |-> "none", tool |-> NoTool, asked |-> NoTool, left |-> 0, lag |-> 0,
             cancelled |-> FALSE]

RegistryInit ==
    /\ reg = [n \in ToolNames |-> NoEntry]
    /\ overrides = [n \in ToolNames |-> "none"]
    /\ grantedTo = [n \in ToolNames |-> NoTool]
    /\ settings \in HostSettings
    /\ call = [c \in Callers |-> IdleCall]

-----------------------------------------------------------------------------
(* Registration                                                              *)

(* An MCP tool may replace an MCP tool, never a tool of another category.    *)
MayRegister(n, cat) == ~(Registered(n) /\ cat = "mcp" /\ reg[n].cat # "mcp")

(* Mutant: an override outlives the tool it was given for.                   *)
registerLockedKeepsOverride(n, tool, source, cat) ==
    /\ reg' = IF MayRegister(n, cat)
              THEN [reg EXCEPT ![n] = [tool |-> tool, source |-> source, cat |-> cat]] ELSE reg
    /\ UNCHANGED <<overrides, grantedTo>>

registerLocked(n, tool, source, cat) ==
    IF MayRegister(n, cat)
    THEN /\ reg' = [reg EXCEPT ![n] = [tool |-> tool, source |-> source, cat |-> cat]]
         /\ overrides' = [overrides EXCEPT ![n] = "none"]
         /\ grantedTo' = [grantedTo EXCEPT ![n] = NoTool]
    ELSE UNCHANGED <<reg, overrides, grantedTo>>

(* Register: a host tool, which has no source and replaces anything.         *)
Register(n, tool) ==
    /\ registerLocked(n, tool, "none", "core")
    /\ UNCHANGED <<settings, call>>

DropEntries(S) ==
    /\ reg' = [n \in ToolNames |-> IF n \in S THEN NoEntry ELSE reg[n]]
    /\ overrides' = [n \in ToolNames |-> IF n \in S THEN "none" ELSE overrides[n]]
    /\ grantedTo' = [n \in ToolNames |-> IF n \in S THEN NoTool ELSE grantedTo[n]]

Unregister(n) ==
    /\ Registered(n) \/ overrides[n] # "none"
    /\ DropEntries({n})
    /\ UNCHANGED <<settings, call>>

(* Mutant: the entries of the source keep their tools.                       *)
UnregisterBySourceNone(source) == DropEntries({})

UnregisterBySource(source) ==
    DropEntries({n \in ToolNames : Registered(n) /\ reg[n].source = source})

(* The name need not be registered.                                          *)
SetPolicyOverride(n, policy) ==
    /\ overrides' = [overrides EXCEPT ![n] = policy]
    /\ grantedTo' = [grantedTo EXCEPT ![n] = reg[n].tool]
    /\ UNCHANGED <<reg, settings, call>>

ClearPolicyOverride(n) ==
    /\ overrides[n] # "none"
    /\ overrides' = [overrides EXCEPT ![n] = "none"]
    /\ grantedTo' = [grantedTo EXCEPT ![n] = NoTool]
    /\ UNCHANGED <<reg, settings, call>>

IsToolUntrusted(n) == Registered(n) /\ (reg[n].tool.untrusted \/ reg[n].cat = "mcp")

-----------------------------------------------------------------------------
(* Execute, one step per critical section; what a refused call reports to    *)
(* the model is left out, it only ends the call.                             *)

At(c, pc) == call[c].pc = pc
Step(c, pc) == call' = [call EXCEPT ![c].pc = pc] /\ UNCHANGED regVars
Return(c) == call' = [call EXCEPT ![c] = IdleCall] /\ UNCHANGED regVars

ExecuteGet(c, n) ==
    /\ At(c, "idle") /\ Registered(n)
    /\ call' = [call EXCEPT ![c] = [IdleCall EXCEPT !.pc = "validate", !.name = n, !.tool = reg[n].tool]]
    /\ UNCHANGED regVars

(* The input is invalid or not; unknown parameters are refused of a tool     *)
(* that is not an MCP tool at this moment.                                   *)
ExecuteValidate(c) ==
    /\ At(c, "validate")
    /\ \/ Step(c, "policy")
       \/ settings.validate /\ Return(c)

EffectivePolicy(c) == IF overrides[call[c].name] = "none" THEN call[c].tool.policy ELSE overrides[call[c].name]

ExecutePolicy(c) ==
    /\ At(c, "policy")
    /\ \/ EffectivePolicy(c) = "deny" /\ Return(c)
       \/ EffectivePolicy(c) = "confirm" /\ Step(c, "confirm")
       \/ EffectivePolicy(c) = "allow" /\ call[c].tool.judger /\ Step(c, "confirm")
       \/ EffectivePolicy(c) = "allow" /\ Step(c, "run")

ConfirmAsk(c) ==
    /\ At(c, "confirm")
    /\ \/ ~settings.confirm /\ Return(c)
       \/ /\ settings.confirm
          /\ call' = [call EXCEPT ![c].pc = "asking", ![c].asked = call[c].tool]
          /\ UNCHANGED regVars

(* Mutant: the tool is looked up again once the user has answered.           *)
ConfirmAllowLooksUp(c) ==
    /\ At(c, "asking")
    /\ call' = [call EXCEPT ![c].pc = "run", ![c].tool = reg[call[c].name].tool]
    /\ UNCHANGED regVars

(* The user answers, much later.                                             *)
ConfirmAllow(c) == At(c, "asking") /\ Step(c, "run")

(* ConfirmDeny, ConfirmDenyAndStop, an unknown answer or a failed prompt.    *)
ConfirmRefuse(c) == At(c, "asking") /\ Return(c)

(* tool.Execute of a host tool                                               *)
RunCore(c) ==
    /\ At(c, "run") /\ call[c].tool.kind = "core"
    /\ Return(c)

ExecuteStep(c) ==
    \/ \E n \in ToolNames : ExecuteGet(c, n)
    \/ ExecuteValidate(c) \/ ExecutePolicy(c)
    \/ ConfirmAsk(c) \/ ConfirmAllow(c) \/ ConfirmRefuse(c) \/ RunCore(c)

-----------------------------------------------------------------------------
(* Properties                                                                *)

(* An opt-in or a ban given to one tool is never inherited by another tool    *)
(* that takes its name: registerLocked, Unregister and UnregisterBySource     *)
(* drop the override with the registration it was set for.                    *)
OverrideBelongsToTool ==
    \A n \in ToolNames : Registered(n) /\ overrides[n] # "none" => grantedTo[n] = reg[n].tool

(* The tool that runs after a confirmation is the one the user was asked      *)
(* about, whatever was registered under its name while the prompt was open.   *)
ConfirmedToolRuns ==
    \A c \in Callers : call[c].pc \in {"run", "joined", "remote"} => call[c].asked \in {NoTool, call[c].tool}
=============================================================================
