------------------------------ MODULE Toolbox ------------------------------
(***************************************************************************)
(* The parts around the agent that do not share state with each other,     *)
(* side by side: every behaviour exercises one part, chosen at the start.  *)
(***************************************************************************)
EXTENDS FileTools, ToolOutput, Paths, ShellCriteria, ExecutorSetup, Embedder,
        EmbedBatches, Chunker, WorkBoard, FactMemory, ProviderStreams,
        ProviderRequests, ReasoningControls

Parts == {"files", "lines", "output", "paths", "shell",
          "setup", "options", "reply", "catalog", "card",
          "embedder", "pipeline", "batches", "chunks",
          "board", "summary", "answer", "facts",
          "sse", "stream", "responses", "history", "effort",
          "credentials"}
vars == <<part, case, fileVars, setupVars, embedVars, pipeVars, boardVars, factVars>>

Init ==
    /\ part \in Parts /\ case = <<>>
    /\ FilesInit /\ SetupInit /\ EmbedInit /\ PipeInit /\ BoardInit /\ FactsInit

Next ==
    \/ /\ part = "files" /\ FilesNext
       /\ UNCHANGED <<part, case, setupVars, embedVars, pipeVars, boardVars, factVars>>
    \/ /\ part = "setup" /\ SetupNext
       /\ UNCHANGED <<part, case, fileVars, embedVars, pipeVars, boardVars, factVars>>
    \/ /\ part = "embedder" /\ EmbedNext
       /\ UNCHANGED <<part, case, fileVars, setupVars, pipeVars, boardVars, factVars>>
    \/ /\ part = "pipeline" /\ PipeNext
       /\ UNCHANGED <<part, case, fileVars, setupVars, embedVars, boardVars, factVars>>
    \/ /\ part = "board" /\ BoardNext
       /\ UNCHANGED <<part, case, fileVars, setupVars, embedVars, pipeVars, factVars>>
    \/ /\ part = "facts" /\ FactsNext
       /\ UNCHANGED <<part, case, fileVars, setupVars, embedVars, pipeVars, boardVars>>
    \/ /\ \/ LinesNext \/ PathsNext \/ ShellNext \/ SetupCasesNext \/ BatchesNext
          \/ ChunkerNext \/ SummaryNext \/ AnswerNext \/ ProviderNext
          \/ HistoryNext \/ EffortNext \/ CredentialsNext
       /\ UNCHANGED <<fileVars, setupVars, embedVars, pipeVars, boardVars, factVars>>

Spec == Init /\ [][Next]_vars

----------------------------------------------------------------------------
(* What a document is cut into comes back as it was: a file can be put       *)
(* together from its chunks, whose line numbers are true but for the one     *)
(* case ChunkLinesTrue names, each document has its own vector in every mode *)
(* of EmbedDocuments, and no such call hangs (chunker.go, embedder.go:743,   *)
(* pipeline.go:45).                                                          *)
IndexingFaithful ==
    /\ ChunksFaithful
    /\ EveryDocumentItsVector
    /\ PipelineNeverStuck

(* What the agents are told of earlier work is what the work was: facts are  *)
(* found again under the keywords their form keeps and hold no secret, a     *)
(* summary starts with what the step said and is as short as asked unless    *)
(* asked for one character, and the answer speaks for successful steps only  *)
(* (facts.go, truncate.go:24, blackboard.go:438, dag.go:134).                *)
WorkRetold ==
    /\ FactsKept
    /\ SummaryTells
    /\ AnswerFromSuccess

(* What goes to the model is what its host asked for, and what comes back is *)
(* understood: calls and results paired on every wire but where ids coincide *)
(* or no block of a message is known, an effort its endpoint takes, the last *)
(* option for each field, each tool defined once, printed calls recognised,  *)
(* and a cached read's card that shows the window read, but for a window of  *)
(* num_lines alone (provider_google.go:311, reasoning.go:313, executor.go    *)
(* :82, :218, :1249).                                                        *)
ExchangeFaithful ==
    /\ HistoryAccepted
    /\ EffortHonoured
    /\ LastOptionCounts
    /\ DefinitionsUnique
    /\ PrintedCallsDetected
    /\ CardShowsFragment
=============================================================================
