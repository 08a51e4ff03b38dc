------------------------------ MODULE Embedder ------------------------------
(***************************************************************************)
(* embedding/embedder.go: the life of the Embedder, from NewEmbedder to    *)
(* Close.  All of it happens under one lock, so every operation is one     *)
(* step; what is uncertain is which native calls fail.  A world says, for  *)
(* one operation, which providers accept options and which devices compile *)
(* the model.  The state is one record that the code's helpers pass along. *)
(***************************************************************************)
EXTENDS Cases, Naturals, FiniteSets, SequencesExt

CONSTANTS OpenVINODevices,  \* devices the OpenVINO plugin enumerates
          LengthBuckets     \* sequence lengths a bucket session may have

ASSUME EmbedderAssumption == OpenVINODevices \in Nat \ {0} /\ IsFiniteSet(LengthBuckets)

VARIABLES embed,  \* the Embedder, its native handles and the process-wide state
          fit     \* what the last operation had the means for (ghost)

embedVars == <<embed, fit>>

NoSession == "none"
Unresolved == OpenVINODevices          \* openVINOPreferredDevice = -1
OpenVINO(i) == <<"openvino", i>>
CUDA == <<"cuda", 0>>
CPU == <<"cpu", 0>>
NoOptions == <<"nil", 0>>              \* a nil *SessionOptions: ORT's defaults
DeviceIds == 0..(OpenVINODevices - 1)
Backends == {CPU, CUDA} \cup {OpenVINO(i) : i \in DeviceIds}
AutoAttemptLadder == <<"cuda", "openvino">>
Providers == {"cpu", "cuda", "openvino"}

Worlds == [builds : SUBSET Providers, runs : SUBSET Backends]
Requests == [provider : Providers \cup {"auto"}, buckets : BOOLEAN, threads : BOOLEAN]
Faults == {"none", "library", "tokenizer"}

Slots == {"sess", "batch"} \cup LengthBuckets
Unopened == [slot \in Slots |-> NoSession]
Live(s) == {slot \in Slots : s.sessions[slot] # NoSession}

EmbedInit ==
    /\ fit = "no"
    /\ embed = [state |-> "none", request |-> "cpu", buckets |-> FALSE, threads |-> FALSE,
                provider |-> "cpu", pending |-> FALSE, runner |-> "none", opts |-> NoOptions,
                sessions |-> Unopened, optsLive |-> 0, sessLive |-> 0, panic |-> FALSE,
                env |-> "fresh", preferred |-> Unresolved]

----------------------------------------------------------------------------
(* runner.go: do and stop on a runner whose channel is closed panic. *)
OnORTThread(s) == [s EXCEPT !.panic = @ \/ s.runner = "stopped"]

StopRunner(s) ==
    IF s.runner = "none" THEN s ELSE [OnORTThread(s) EXCEPT !.runner = "stopped"]

UsesDedicatedThread(provider) == provider \in {"cuda", "openvino", "auto"}

(* openvino.go: the plugin uses the first device it is handed. *)
AttemptedDevice(s) == IF s.preferred = Unresolved THEN 0 ELSE s.preferred

BackendOf(s, provider) ==
    IF provider = "openvino" THEN OpenVINO(AttemptedDevice(s)) ELSE <<provider, 0>>

(* onnx.go: the options of a provider; [ok, opts, s].  The CPU without a   *)
(* thread count needs none.                                                *)
BuildOpts(s, provider, w) ==
    LET t == OnORTThread(s)
    IN  IF provider = "cpu" /\ ~s.threads
        THEN [ok |-> TRUE, opts |-> NoOptions, s |-> t]
        ELSE IF provider \in w.builds /\ s.env = "up"
        THEN [ok |-> TRUE, opts |-> BackendOf(s, provider), s |-> [t EXCEPT !.optsLive = @ + 1]]
        ELSE [ok |-> FALSE, opts |-> NoOptions, s |-> t]

DestroyOpts(s) ==
    IF s.opts = NoOptions THEN OnORTThread(s)
    ELSE [OnORTThread(s) EXCEPT !.optsLive = @ - 1, !.opts = NoOptions]

ReplaceOpts(s, opts) == [DestroyOpts(s) EXCEPT !.opts = opts]

InstallKeepingOld(s, rung, opts) == [OnORTThread(s) EXCEPT !.opts = opts, !.provider = rung]
Install(s, rung, opts) == [ReplaceOpts(s, opts) EXCEPT !.provider = rung]

(* A session for the options the embedder holds; [sess, s]. *)
CreateSession(s, w) ==
    LET backend == IF s.opts = NoOptions THEN CPU ELSE s.opts
        t == OnORTThread(s)
    IN  IF backend \in w.runs /\ s.env = "up"
        THEN [sess |-> backend[1], s |-> [t EXCEPT !.sessLive = @ + 1]]
        ELSE [sess |-> NoSession, s |-> t]

(* One candidate of a fallback list, tried unless an earlier one won. *)
Attempt(acc, prepared, provider, w) ==
    LET b == BuildOpts(prepared, provider, w)
    IN  IF ~b.ok THEN [acc EXCEPT !.s = b.s]
        ELSE CreateSession(Install(b.s, provider, b.opts), w)

NoneYet(s) == [sess |-> NoSession, s |-> s]

TryDevice(acc, i, attempted, w) ==
    IF acc.sess # NoSession \/ i = attempted THEN acc
    ELSE Attempt(acc, [acc.s EXCEPT !.preferred = i], "openvino", w)

DevicesTried(s, w) ==
    LET after[n \in 0..OpenVINODevices] ==
            IF n = 0 THEN NoneYet(s) ELSE TryDevice(after[n - 1], n - 1, AttemptedDevice(s), w)
    IN  after[OpenVINODevices]

RetryOpenVINODevices(s, w) ==
    LET last == DevicesTried(s, w)
    IN  IF last.sess # NoSession THEN last ELSE [last EXCEPT !.s.preferred = Unresolved]

RetryOpenVINODeviceSession(s, w) ==
    IF s.provider = "openvino" /\ OpenVINODevices > 1
    THEN RetryOpenVINODevices(s, w) ELSE NoneYet(s)

(* The session asked for, or one on another device. *)
SessionOnSomeDevice(first, w) ==
    IF first.sess # NoSession THEN first ELSE RetryOpenVINODeviceSession(first.s, w)

LadderIndex(provider) == IF provider = "cuda" THEN 1 ELSE IF provider = "openvino" THEN 2 ELSE 0

TryRung(acc, rung, from, w) ==
    IF acc.sess # NoSession \/ rung <= from THEN acc
    ELSE Attempt(acc, acc.s, AutoAttemptLadder[rung], w)

AdvanceAutoLadder(s, from, w) == TryRung(TryRung(NoneYet(s), 1, from, w), 2, from, w)

----------------------------------------------------------------------------
(* NewEmbedder.  A failure leaves no Embedder; cleanup releases what was   *)
(* made, and never the environment.                                        *)
CleanupWithEnvironment(s) == [StopRunner(DestroyOpts(s)) EXCEPT !.env = "destroyed"]
Cleanup(s) == StopRunner(DestroyOpts(s))

Failed(s) == [s EXCEPT !.state = "none", !.runner = "none"]

Requested(s, r) ==
    [s EXCEPT !.request = r.provider, !.provider = r.provider, !.buckets = r.buckets,
              !.threads = r.threads, !.opts = NoOptions, !.pending = FALSE,
              !.runner = IF UsesDedicatedThread(r.provider) THEN "running" ELSE "none"]

InitONNXRuntime(s, fault) ==
    IF s.env # "fresh" THEN s
    ELSE [OnORTThread(s) EXCEPT !.env = IF fault = "library" THEN "failed" ELSE "up"]

(* Without hardware the stopped runner is forgotten, and the options are   *)
(* the CPU's.                                                              *)
FallBackToCPU(s, w) == BuildOpts([s EXCEPT !.runner = "none", !.provider = "cpu"], "cpu", w)

(* The options stage; [ok, s]. *)
FirstOptions(s, w) ==
    LET rungs == {i \in 1..2 : AutoAttemptLadder[i] \in w.builds /\ s.env = "up"}
        built == BuildOpts(s, s.request, w)
        auto == IF rungs = {} THEN FallBackToCPU(StopRunner(s), w)
                ELSE LET rung == AutoAttemptLadder[CHOOSE i \in rungs : \A j \in rungs : i <= j]
                     IN  BuildOpts([s EXCEPT !.provider = rung], rung, w)
        b == IF s.request = "auto" THEN auto ELSE built
    IN  [ok |-> b.ok, s |-> [b.s EXCEPT !.opts = b.opts]]

(* The eager session of fixed mode; [sess, s]. *)
FirstOnCPU(cpu, w) ==
    IF ~cpu.ok THEN [sess |-> NoSession, s |-> cpu.s]
    ELSE CreateSession([cpu.s EXCEPT !.opts = cpu.opts], w)
FirstAfterLadder(ladder, w) ==
    IF ladder.sess # NoSession THEN ladder ELSE FirstOnCPU(FallBackToCPU(Cleanup(ladder.s), w), w)
FirstAfterDevices(device, s, w) ==
    IF device.sess # NoSession \/ s.request # "auto" \/ s.provider = "cpu" THEN device
    ELSE FirstAfterLadder(AdvanceAutoLadder(device.s, LadderIndex(device.s.provider), w), w)
FirstSession(s, w) == FirstAfterDevices(SessionOnSomeDevice(CreateSession(s, w), w), s, w)

ReadyAlwaysPending(s, sess) ==
    [s EXCEPT !.state = "ready", !.sessions = [Unopened EXCEPT !["sess"] = sess],
              !.pending = s.provider # "cpu"]
Ready(s, sess) ==
    [s EXCEPT !.state = "ready", !.sessions = [Unopened EXCEPT !["sess"] = sess],
              !.pending = s.request = "auto" /\ s.provider # "cpu"]

WithSession(session) ==
    IF session.sess = NoSession THEN Failed(Cleanup(session.s)) ELSE Ready(session.s, session.sess)
WithOptions(options, r, w, fault) ==
    IF ~options.ok \/ fault = "tokenizer" THEN Failed(Cleanup(options.s))
    ELSE IF r.buckets THEN Ready(options.s, NoSession)
    ELSE WithSession(FirstSession(options.s, w))
Started(started, r, w, fault) ==
    IF started.env = "failed" THEN Failed(StopRunner(started))
    ELSE WithOptions(FirstOptions(started, w), r, w, fault)
NewEmbedderOf(s, r, w, fault) == Started(InitONNXRuntime(Requested(s, r), fault), r, w, fault)

CPUWorks(s, w) == CPU \in w.runs /\ (s.threads => "cpu" \in w.builds)

NewEmbedder(r, w, fault) ==
    /\ embed.state # "ready"
    /\ embed' = NewEmbedderOf(embed, r, w, fault)
    /\ fit' = LET able == \/ r.provider \in {"cpu", "auto"} /\ CPUWorks(r, w)
                          \/ /\ r.provider = "openvino" /\ "openvino" \in w.builds
                             /\ \E i \in DeviceIds : OpenVINO(i) \in w.runs
              IN  IF able /\ fault = "none" /\ embed.env \in {"fresh", "up"}
                  THEN "open" ELSE "no"

----------------------------------------------------------------------------
(* The sessions EmbedDocuments creates on first use. *)
CanDegradePending(s) == s.pending
CanDegradeToCPU(s) == s.pending /\ Live(s) = {}

(* The CPU options are built before anything hardware is given up; [ok, s]. *)
DegradeToCPU(s, w) ==
    LET cpu == BuildOpts(s, "cpu", w)
    IN  IF ~cpu.ok THEN [ok |-> FALSE, s |-> cpu.s]
        ELSE [ok |-> TRUE,
              s |-> [StopRunner(ReplaceOpts(cpu.s, cpu.opts))
                        EXCEPT !.runner = "none", !.provider = "cpu", !.pending = FALSE]]

DegradedSession(cpu, w) ==
    IF ~cpu.ok THEN [sess |-> NoSession, s |-> cpu.s] ELSE CreateSession(cpu.s, w)
AfterLadder(ladder, w) ==
    IF ladder.sess # NoSession THEN ladder ELSE DegradedSession(DegradeToCPU(ladder.s, w), w)
AfterDevices(device, s, w) ==
    IF device.sess # NoSession \/ ~CanDegradeToCPU(s) THEN device
    ELSE AfterLadder(AdvanceAutoLadder(device.s, LadderIndex(device.s.provider), w), w)
NewSessionWithFallback(s, w) == AfterDevices(SessionOnSomeDevice(CreateSession(s, w), w), s, w)

(* ensureBatchSession and ensureBucketSession. *)
Keep(new, slot) == [new.s EXCEPT !.sessions[slot] = new.sess]
EnsureSession(s, slot, w) ==
    IF s.sessions[slot] # NoSession THEN s
    ELSE Keep(NewSessionWithFallback(s, w), slot)

(* The calls of EmbedDocuments: the slots one call needs, in the order of  *)
(* its texts; it stops at the first it cannot have.                        *)
EmbedCalls(s) ==
    IF s.buckets
    THEN {<<b>> : b \in LengthBuckets} \cup {<<b, c>> : b, c \in LengthBuckets}
    ELSE {<<"sess">>, <<"batch">>}

EmbedDocuments(call, w) ==
    LET first == EnsureSession(embed, call[1], w)
        able == /\ Live(embed) = {} /\ embed.env = "up" /\ CPUWorks(embed, w)
                /\ embed.pending \/ embed.provider = "cpu"
    IN  /\ embed.state = "ready"
        /\ embed' = OnORTThread(IF call[1] \in Live(first) THEN EnsureSession(first, call[Len(call)], w) ELSE first)
        /\ fit' = IF able THEN "serve" ELSE "no"

CloseForgettingBuckets(s) ==
    [s EXCEPT !.sessLive = @ - Cardinality(Live(s) \ LengthBuckets), !.sessions = Unopened]
CloseSessions(s) == [s EXCEPT !.sessLive = @ - Cardinality(Live(s)), !.sessions = Unopened]

CloseKeepingRunner ==
    /\ embed.state = "ready"
    /\ embed' = [StopRunner(CloseSessions(DestroyOpts(embed)))
                    EXCEPT !.state = "closed", !.env = "destroyed"]
    /\ fit' = "no"
Close ==
    /\ embed.state = "ready"
    /\ embed' = [StopRunner(CloseSessions(DestroyOpts(embed)))
                    EXCEPT !.state = "closed", !.env = "destroyed", !.runner = "none"]
    /\ fit' = "no"

EmbedNext ==
    \/ \E r \in Requests, w \in Worlds, fault \in Faults : NewEmbedder(r, w, fault)
    \/ \E w \in Worlds : \E call \in EmbedCalls(embed) : EmbedDocuments(call, w)
    \/ Close

----------------------------------------------------------------------------
EmbedTypeOK ==
    /\ embed.state \in {"none", "ready", "closed"}
    /\ embed.env \in {"fresh", "failed", "up", "destroyed"}
    /\ embed.runner \in {"none", "running"}
    /\ embed.opts \in Backends \cup {NoOptions}
    /\ embed.sessions \in [Slots -> Providers \cup {NoSession}]
    /\ embed.preferred \in DeviceIds \cup {Unresolved}

(* Every native option handle and session is owned by the Embedder that    *)
(* can still release it: none survives a failed NewEmbedder, a fallback or *)
(* Close (embedder.go:375, :485, :1006, :1094).                            *)
NativeHandlesOwned ==
    /\ embed.optsLive = IF embed.opts = NoOptions THEN 0 ELSE 1
    /\ embed.sessLive = Cardinality(Live(embed))
    /\ embed.state # "ready" => embed.opts = NoOptions /\ Live(embed) = {}

(* The sessions an Embedder holds all run on the provider it reports, and  *)
(* the dedicated thread exists exactly while that provider is hardware, so *)
(* no fallback strands a session or calls a thread that is gone            *)
(* (embedder.go:975, :984).                                                *)
SessionsOnTheirProvider ==
    /\ ~embed.panic
    /\ embed.state = "ready" =>
           /\ \A slot \in Live(embed) : embed.sessions[slot] = embed.provider
           /\ (embed.runner = "running") = (embed.provider # "cpu")
    /\ embed.state # "ready" => embed.runner = "none"

(* Hardware asked for by name is never replaced by another provider        *)
(* (embedder.go:426, :531, :975).                                          *)
ExplicitProviderKept ==
    embed.state = "ready" /\ embed.request # "auto" => embed.provider = embed.request

(* "auto" never fails for want of hardware, at construction or at the      *)
(* first lazy session, as long as the CPU works; and an explicit OpenVINO  *)
(* request finds any device that works (embedder.go:445, :575, :984).  Of  *)
(* auto with a failing CPU nothing is said: it tries no second OpenVINO    *)
(* device (:574, :945).                                                    *)
LandsWhenItCan ==
    /\ fit = "open" => embed.state = "ready"
    /\ fit = "serve" => Live(embed) # {}

(* Through every failing fallback, at construction and lazily, the embedder  *)
(* owns what it opened, runs all sessions on the provider it reports, keeps  *)
(* an explicit choice, and does not give up while the provider asked for, or *)
(* for auto the CPU, works (embedder.go:375-1094).                           *)
EmbedderSound ==
    /\ EmbedTypeOK
    /\ NativeHandlesOwned
    /\ SessionsOnTheirProvider
    /\ ExplicitProviderKept
    /\ LandsWhenItCan
=============================================================================
