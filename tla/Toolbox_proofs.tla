--------------------------- MODULE Toolbox_proofs ---------------------------
(***************************************************************************)
(* Proofs about the tools and what surrounds them, each part for every     *)
(* value of its constants: the file tools, the watchdog over a tool call,  *)
(* the embedding pipeline, the executors' tables, the board and the        *)
(* Embedder.                                                               *)
(***************************************************************************)
EXTENDS FileTools, ToolWatchdog, EmbedBatches, ExecutorSetup, WorkBoard, Embedder,
        FiniteSetTheorems, WellFoundedInduction, TLAPS

-----------------------------------------------------------------------------
(* The file tools                                                            *)

FilesSpec == FilesInit /\ [][FilesNext]_fileVars

(* The tool a call must be of at each point of the locked section.           *)
ToolInv ==
    \A s \in Sessions :
        /\ op[s].at \in {"enter", "mkdir"} => op[s].tool = "write_file"
        /\ op[s].at = "look" => op[s].tool \in {"edit_file", "delete_file"}
        /\ op[s].at \in {"create", "fill", "rename", "record"} =>
               op[s].tool \in {"write_file", "edit_file"}

(* The mutex is held exactly by the call inside its locked section.          *)
LockInv == \A s \in Sessions : op[s].at \in Locked <=> lock = s

(* A temporary file belongs to a call between CreateTemp and Rename, and is  *)
(* full when Rename finds it.                                                *)
TempInv ==
    \A s \in Sessions : /\ temp[s] # "none" => op[s].at \in {"fill", "rename"}
                        /\ op[s].at = "rename" => temp[s] \in {"none", "full"}

(* A snapshot is absent, or the signature of a content the path has held.    *)
Signed(mark) == mark = -1 \/ \E w \in 0..versions : mark = SigOf[w]

(* Every version in use was given out before, and every snapshot is the      *)
(* signature of one: the next version is new.                                *)
FreshInv ==
    /\ versions \in 1..MaxVersions /\ disk.ver <= versions
    /\ \A s \in Sessions : /\ knows[s] <= versions
                         /\ Signed(snap[s])

(* Another session put the present content at the path.                      *)
Foreign(s) == disk.kind = "regular" /\ disk.by \in Sessions \ {s}

(* While an edit is under way, no session replaces what it was based on, and *)
(* that holds every edit to be kept.                                         *)
EditInv ==
    \A s \in Sessions :
        op[s].tool = "edit_file" /\ op[s].at \in {"create", "fill", "rename"} =>
            /\ Foreign(s) => op[s].base.ver = disk.ver
            /\ kept \subseteq op[s].base.edits

(* What the checker's table says of a session's knowledge: no snapshot means *)
(* no registered read, and an up-to-date snapshot means an up-to-date read   *)
(* when no earlier content had its signature, except where a call has        *)
(* changed one of the two and not yet the other.                             *)
SnapInv ==
    \A s \in Sessions :
        /\ op[s].at # "record" => (snap[s] = -1 => knows[s] = -1)
        /\ op[s].at \notin {"content", "record"} =>
              (Foreign(s) /\ Distinct(disk.ver) /\ knows[s] # -1 /\ snap[s] = SigOf[disk.ver]
                  => knows[s] = disk.ver)

(* A write past its check replaces what its session has seen, or what has    *)
(* the signature of an earlier content; a write that was just made is not  *)
(* replaced by another session before it is recorded.                        *)
WriteInv ==
    \A s \in Sessions :
        /\ op[s].tool = "write_file" /\ op[s].at \in {"mkdir", "create", "fill", "rename"} =>
              (Foreign(s) /\ Distinct(disk.ver) /\ knows[s] # -1 => knows[s] = disk.ver)
        /\ op[s].at = "record" => ~Foreign(s)

IInv == /\ FilesTypeOK /\ ToolInv /\ LockInv /\ TempInv /\ FreshInv
        /\ EditInv /\ SnapInv /\ WriteInv
        /\ WholeContent /\ NoLostUpdate /\ EditsCompose

-----------------------------------------------------------------------------
(* What the shared pieces of the actions do                                  *)

(* The records used by the actions are of their types.                       *)
LEMMA Constants ==
    /\ Absent \in FileStates /\ Idle \in FileCalls
    /\ MaxVersions \in Nat /\ 1 \in 1..MaxVersions
    /\ "none" \notin Sessions /\ "outside" \notin Sessions
  BY FileToolsAssumption DEF Absent, Idle, FileStates, FileCalls

(* A signature is no snapshot's absence.                                     *)
LEMMA SigRange == \A v \in 0..MaxVersions : SigOf[v] \in 0..MaxVersions /\ SigOf[v] \in -1..MaxVersions /\ SigOf[v] # -1
  BY FileToolsAssumption

(* A step to another point of the call keeps its tool and its base.          *)
LEMMA GotoFacts ==
    ASSUME op \in [Sessions -> FileCalls], NEW s \in Sessions,
           NEW dest \in {"idle", "begin", "content", "enter"} \cup Locked, Goto(s, dest)
    PROVE  /\ op' \in [Sessions -> FileCalls]
           /\ op'[s].at = dest /\ op'[s].tool = op[s].tool /\ op'[s].base = op[s].base
           /\ \A t \in Sessions \ {s} : op'[t] = op[t]
  BY DEF Goto, FileCalls

(* A return leaves the call idle and the others as they are.                 *)
LEMMA IdleFacts ==
    ASSUME op \in [Sessions -> FileCalls], NEW s \in Sessions,
           op' = [op EXCEPT ![s] = Idle]
    PROVE  /\ op' \in [Sessions -> FileCalls]
           /\ op'[s].at = "idle" /\ op'[s].tool = "none"
           /\ \A t \in Sessions \ {s} : op'[t] = op[t]
  BY Constants DEF Idle

-----------------------------------------------------------------------------
(* The actions                                                               *)

(* A step of a call outside the locked section that changes no file, no      *)
(* mutex and no temporary file, except as SnapInv allows.                    *)
LEMMA OutsideStep ==
    ASSUME IInv, NEW s \in Sessions,
           op' \in [Sessions -> FileCalls], \A t \in Sessions \ {s} : op'[t] = op[t],
           op[s].at \notin Locked, op'[s].at \notin Locked,
           op'[s].at = "enter" => op'[s].tool = "write_file",
           UNCHANGED <<disk, parent, temp, lock, versions, kept, lost>>,
           snap' \in [Sessions -> -1..MaxVersions], knows' \in [Sessions -> -1..MaxVersions],
           \A t \in Sessions \ {s} : snap'[t] = snap[t] /\ knows'[t] = knows[t],
           knows'[s] <= versions, Signed(snap'[s]),
           snap'[s] = -1 => knows'[s] = -1,
           \/ op'[s].at = "content"
           \/ Foreign(s) /\ Distinct(disk.ver) /\ knows'[s] # -1 /\ snap'[s] = SigOf[disk.ver]
                => knows'[s] = disk.ver
    PROVE  IInv'
<1> USE Constants DEF IInv
<1>1. op'[s].at \notin {"mkdir", "look", "create", "fill", "rename", "record"}
  BY DEF Locked
<1>2. FilesTypeOK'
  BY DEF FilesTypeOK
<1>3. ToolInv'
  BY <1>1 DEF ToolInv
<1>4. LockInv'
  BY DEF LockInv
<1>5. TempInv'
  BY <1>1 DEF TempInv, Locked
<1>6. FreshInv'
  BY DEF FreshInv, Signed
<1>7. EditInv'
  BY <1>1 DEF EditInv, Foreign
<1>8. SnapInv'
  BY <1>1 DEF SnapInv, Foreign
<1>9. WriteInv'
  BY <1>1 DEF WriteInv, Foreign
<1>10. WholeContent' /\ NoLostUpdate' /\ EditsCompose'
  BY DEF WholeContent, NoLostUpdate, EditsCompose
<1> QED
  BY <1>2, <1>3, <1>4, <1>5, <1>6, <1>7, <1>8, <1>9, <1>10

(* A new call.                                                               *)
LEMMA CallStep ==
    ASSUME IInv, NEW s \in Sessions, NEW called \in Tools, Call(s, called)
    PROVE  IInv'
<1> USE DEF IInv
<1>1. /\ op' \in [Sessions -> FileCalls] /\ op'[s].at = "begin"
      /\ \A t \in Sessions \ {s} : op'[t] = op[t]
  BY Constants DEF Call, FilesTypeOK, FileCalls
<1>2. /\ op[s].at \notin Locked \cup {"content", "record"}
      /\ UNCHANGED <<disk, parent, temp, lock, snap, versions, knows, kept, lost>>
  BY DEF Call, At, Locked, bounds, history
<1>3. /\ snap' \in [Sessions -> -1..MaxVersions] /\ knows' \in [Sessions -> -1..MaxVersions]
      /\ snap' = snap /\ knows' = knows
  BY <1>2 DEF FilesTypeOK
<1>4. knows'[s] <= versions /\ Signed(snap'[s])
  BY <1>3 DEF FreshInv
<1>5. /\ snap'[s] = -1 => knows'[s] = -1
      /\ Foreign(s) /\ Distinct(disk.ver) /\ knows'[s] # -1 /\ snap'[s] = SigOf[disk.ver]
           => knows'[s] = disk.ver
  BY <1>2, <1>3 DEF SnapInv
<1>6. op'[s].at \notin Locked
  BY <1>1 DEF Locked
<1> QED
  BY <1>1, <1>2, <1>3, <1>4, <1>5, <1>6, OutsideStep

(* read_file takes the snapshot.                                             *)
LEMMA CheckReadStep ==
    ASSUME IInv, NEW s \in Sessions, CheckRead(s)
    PROVE  IInv'
<1> USE DEF IInv
<1>1. /\ op' \in [Sessions -> FileCalls] /\ op'[s].at = "content"
      /\ \A t \in Sessions \ {s} : op'[t] = op[t]
  BY GotoFacts DEF CheckRead, FilesTypeOK
<1>2. /\ op[s].at \notin Locked
      /\ snap' = [snap EXCEPT ![s] = SigOf[disk.ver]]
      /\ UNCHANGED <<disk, parent, temp, lock, versions, knows, kept, lost>>
  BY DEF CheckRead, At, Locked, bounds, history
<1>3. /\ disk.ver \in 0..MaxVersions /\ disk.ver \in 0..versions
      /\ SigOf[disk.ver] # -1 /\ SigOf[disk.ver] \in -1..MaxVersions
  BY Constants, SigRange DEF FilesTypeOK, FileStates, FreshInv
<1>4. /\ snap' \in [Sessions -> -1..MaxVersions] /\ snap'[s] = SigOf[disk.ver]
      /\ \A t \in Sessions \ {s} : snap'[t] = snap[t]
  BY <1>2, <1>3 DEF FilesTypeOK
<1>5. knows' \in [Sessions -> -1..MaxVersions] /\ knows' = knows /\ knows'[s] <= versions
  BY <1>2 DEF FilesTypeOK, FreshInv, Signed
<1>6. op'[s].at \notin Locked /\ snap'[s] # -1 /\ Signed(snap'[s])
  BY <1>1, <1>3, <1>4 DEF Locked, Signed
<1> QED
  BY <1>1, <1>2, <1>4, <1>5, <1>6, OutsideStep

(* read_file reads.                                                          *)
LEMMA ReadContentStep ==
    ASSUME IInv, NEW s \in Sessions, ReadContent(s)
    PROVE  IInv'
<1> USE DEF IInv
<1>1. /\ op' \in [Sessions -> FileCalls] /\ op'[s].at = "idle"
      /\ \A t \in Sessions \ {s} : op'[t] = op[t]
  BY IdleFacts DEF ReadContent, FilesTypeOK
<1>2. /\ op[s].at = "content" /\ op[s].at \notin Locked
      /\ knows' = [knows EXCEPT ![s] = IF disk.kind = "regular" /\ snap[s] # -1
                                       THEN disk.ver ELSE @]
      /\ UNCHANGED <<disk, parent, temp, lock, snap, versions, kept, lost>>
  BY DEF ReadContent, At, Locked, bounds
<1>3. disk.ver \in -1..MaxVersions
  BY Constants DEF FilesTypeOK, FileStates
<1>4. /\ knows' \in [Sessions -> -1..MaxVersions]
      /\ \A t \in Sessions \ {s} : knows'[t] = knows[t]
      /\ knows'[s] = IF disk.kind = "regular" /\ snap[s] # -1 THEN disk.ver ELSE knows[s]
  BY <1>2, <1>3 DEF FilesTypeOK
<1>5. snap[s] = -1 => knows'[s] = -1
  BY <1>2, <1>4 DEF SnapInv
<1>6. Foreign(s) /\ knows'[s] # -1 => knows'[s] = disk.ver
  BY <1>4, <1>5 DEF Foreign
<1>7. knows'[s] <= versions /\ Signed(snap'[s])
  BY <1>2, <1>4 DEF FreshInv, Signed
<1>8. op'[s].at \notin Locked /\ snap' \in [Sessions -> -1..MaxVersions] /\ snap' = snap
  BY <1>1, <1>2 DEF Locked, FilesTypeOK
<1> QED
  BY <1>1, <1>2, <1>4, <1>5, <1>6, <1>7, <1>8, OutsideStep

(* write_file looks at the target before it locks.                           *)
LEMMA StatTargetStep ==
    ASSUME IInv, NEW s \in Sessions, StatTarget(s)
    PROVE  IInv'
<1> USE DEF IInv
<1>1. /\ op' \in [Sessions -> FileCalls] /\ op'[s].at \in {"enter", "idle"}
      /\ op'[s].at = "enter" => op'[s].tool = "write_file"
      /\ \A t \in Sessions \ {s} : op'[t] = op[t]
  <2>1. CASE op' = [op EXCEPT ![s] = Idle]
    BY <2>1, IdleFacts DEF FilesTypeOK
  <2>2. CASE op' = [op EXCEPT ![s] = [@ EXCEPT !.at = "enter"]]
    BY <2>2 DEF StatTarget, FilesTypeOK, FileCalls
  <2> QED
    BY <2>1, <2>2 DEF StatTarget
<1>2. /\ op[s].at \notin Locked \cup {"content", "record"}
      /\ UNCHANGED <<disk, parent, temp, lock, snap, versions, knows, kept, lost>>
  BY DEF StatTarget, At, Locked, bounds, history
<1>3. /\ snap' \in [Sessions -> -1..MaxVersions] /\ knows' \in [Sessions -> -1..MaxVersions]
      /\ snap' = snap /\ knows' = knows
  BY <1>2 DEF FilesTypeOK
<1>4. knows'[s] <= versions /\ Signed(snap'[s])
  BY <1>3 DEF FreshInv
<1>5. /\ snap'[s] = -1 => knows'[s] = -1
      /\ Foreign(s) /\ Distinct(disk.ver) /\ knows'[s] # -1 /\ snap'[s] = SigOf[disk.ver]
           => knows'[s] = disk.ver
  BY <1>2, <1>3 DEF SnapInv
<1>6. op'[s].at \notin Locked
  BY <1>1 DEF Locked
<1> QED
  BY <1>1, <1>2, <1>3, <1>4, <1>5, <1>6, OutsideStep

(* The write is recorded and the mutex released.                             *)
LEMMA RecordWriteStep ==
    ASSUME IInv, NEW s \in Sessions, RecordWrite(s)
    PROVE  IInv'
<1> USE Constants DEF IInv
<1>1. /\ op[s].at = "record" /\ lock = s
      /\ \A t \in Sessions \ {s} : op[t].at \notin Locked
  BY DEF RecordWrite, At, LockInv, Locked
<1>2. /\ op' \in [Sessions -> FileCalls] /\ op'[s].at = "idle" /\ op'[s].tool = "none"
      /\ \A t \in Sessions \ {s} : op'[t] = op[t]
  BY IdleFacts DEF RecordWrite, Leave, FilesTypeOK
<1>3. /\ snap' = [snap EXCEPT ![s] = SigOf[disk.ver]] /\ lock' = "none"
      /\ temp' = [temp EXCEPT ![s] = "none"]
      /\ UNCHANGED <<disk, parent, versions, knows, kept, lost>>
  BY DEF RecordWrite, Leave, bounds, history
<1>4. disk.ver \in 0..versions /\ SigOf[disk.ver] \in -1..MaxVersions /\ SigOf[disk.ver] # -1
  BY SigRange DEF FilesTypeOK, FileStates, FreshInv
<1>5. /\ snap' \in [Sessions -> -1..MaxVersions] /\ snap'[s] = SigOf[disk.ver]
      /\ \A t \in Sessions \ {s} : snap'[t] = snap[t]
  BY <1>3, <1>4 DEF FilesTypeOK
<1>6. FilesTypeOK' /\ FreshInv'
  BY <1>2, <1>3, <1>4, <1>5 DEF FilesTypeOK, FreshInv, Signed
<1>7. ToolInv'
  BY <1>2 DEF ToolInv
<1>8. LockInv'
  BY <1>1, <1>2, <1>3 DEF LockInv, Locked
<1>9. TempInv'
  BY <1>2, <1>3 DEF TempInv, FilesTypeOK
<1>10. EditInv' /\ WriteInv'
  BY <1>2, <1>3 DEF EditInv, WriteInv, Foreign
<1>11. SnapInv'
  BY <1>1, <1>2, <1>3, <1>4, <1>5 DEF SnapInv, WriteInv, Foreign
<1>12. WholeContent' /\ NoLostUpdate' /\ EditsCompose'
  BY <1>3 DEF WholeContent, NoLostUpdate, EditsCompose
<1> QED
  BY <1>6, <1>7, <1>8, <1>9, <1>10, <1>11, <1>12

(* Crash and restart.                                                        *)
LEMMA CrashStep ==
    ASSUME IInv, Crash
    PROVE  IInv'
<1> USE Constants DEF IInv
<1>1. /\ lock' = "none" /\ op' = [s \in Sessions |-> Idle]
      /\ temp' = [s \in Sessions |-> "none"]
      /\ snap' = [s \in Sessions |-> -1] /\ knows' = [s \in Sessions |-> -1]
      /\ UNCHANGED <<disk, parent, versions, kept, lost>>
  BY DEF Crash
<1>2. -1 \in -1..MaxVersions
  OBVIOUS
<1>3. FilesTypeOK' /\ FreshInv'
  BY <1>1, <1>2 DEF FilesTypeOK, FreshInv, Signed
<1>4. ToolInv' /\ LockInv' /\ TempInv'
  BY <1>1 DEF ToolInv, LockInv, TempInv, Locked, Idle
<1>5. EditInv' /\ SnapInv' /\ WriteInv'
  BY <1>1 DEF EditInv, SnapInv, WriteInv, Idle
<1>6. WholeContent' /\ NoLostUpdate' /\ EditsCompose'
  BY <1>1 DEF WholeContent, NoLostUpdate, EditsCompose
<1> QED
  BY <1>3, <1>4, <1>5, <1>6

(* An early return from the locked section: the deferred Unlock and Remove.  *)
LEMMA ReturnStep ==
    ASSUME IInv, NEW s \in Sessions, op[s].at \in Locked \ {"record"},
           Leave(s), UNCHANGED <<disk, parent, snap, versions, history>>
    PROVE  IInv'
<1> USE Constants DEF IInv
<1>1. /\ lock = s /\ \A t \in Sessions \ {s} : op[t].at \notin Locked
      /\ op[s].at \notin {"idle", "content", "record"}
  BY DEF LockInv, Locked
<1>2. /\ op' \in [Sessions -> FileCalls] /\ op'[s].at = "idle" /\ op'[s].tool = "none"
      /\ \A t \in Sessions \ {s} : op'[t] = op[t]
  BY IdleFacts DEF Leave, FilesTypeOK
<1>3. /\ lock' = "none" /\ temp' = [temp EXCEPT ![s] = "none"]
      /\ UNCHANGED <<disk, parent, snap, versions, knows, kept, lost>>
  BY DEF Leave, history
<1>4. FilesTypeOK' /\ FreshInv'
  BY <1>2, <1>3 DEF FilesTypeOK, FreshInv, Signed
<1>5. ToolInv'
  BY <1>2 DEF ToolInv
<1>6. LockInv'
  BY <1>1, <1>2, <1>3 DEF LockInv, Locked
<1>7. TempInv'
  BY <1>2, <1>3 DEF TempInv, FilesTypeOK
<1>8. EditInv'
  BY <1>2, <1>3 DEF EditInv, Foreign
<1>9. SnapInv'
  BY <1>1, <1>2, <1>3 DEF SnapInv, Foreign
<1>10. WriteInv'
  BY <1>2, <1>3 DEF WriteInv, Foreign
<1>11. WholeContent' /\ NoLostUpdate' /\ EditsCompose'
  BY <1>3 DEF WholeContent, NoLostUpdate, EditsCompose
<1> QED
  BY <1>4, <1>5, <1>6, <1>7, <1>8, <1>9, <1>10, <1>11

(* The mutex is taken after a check without conflict, or the call returns.   *)
LEMMA EnterStep ==
    ASSUME IInv, NEW s \in Sessions, Enter(s)
    PROVE  IInv'
<1> USE Constants DEF IInv
<1>1. /\ op[s].at \in {"begin", "enter"} /\ lock = "none"
      /\ op[s].at = "begin" => op[s].tool \in {"edit_file", "delete_file"}
      /\ \A t \in Sessions : op[t].at \notin Locked
  BY DEF Enter, At, LockInv
<1>2. /\ op' \in [Sessions -> FileCalls]
      /\ \A t \in Sessions \ {s} : op'[t] = op[t]
      /\ UNCHANGED <<disk, parent, temp, snap, versions, knows, kept, lost>>
  <2>1. CASE CheckWrite(s) /\ op[s].tool = "write_file"
    BY <2>1, GotoFacts DEF Enter, FilesTypeOK, Locked, bounds, history
  <2>2. CASE CheckWrite(s) /\ op[s].tool # "write_file"
    BY <2>2, GotoFacts DEF Enter, FilesTypeOK, Locked, bounds, history
  <2>3. CASE ~CheckWrite(s)
    BY <2>3, IdleFacts DEF Enter, FilesTypeOK, bounds, history
  <2> QED
    BY <2>1, <2>2, <2>3
<1>3. \/ /\ CheckWrite(s) /\ lock' = s
         /\ op'[s].at = IF op[s].tool = "write_file" THEN "mkdir" ELSE "look"
         /\ op'[s].tool = op[s].tool
      \/ /\ lock' = "none" /\ op'[s].at = "idle" /\ op'[s].tool = "none"
  <2>1. CASE CheckWrite(s) /\ op[s].tool = "write_file"
    BY <2>1, GotoFacts DEF Enter, FilesTypeOK, Locked
  <2>2. CASE CheckWrite(s) /\ op[s].tool # "write_file"
    BY <2>2, GotoFacts DEF Enter, FilesTypeOK, Locked
  <2>3. CASE ~CheckWrite(s)
    BY <2>3, IdleFacts DEF Enter, FilesTypeOK
  <2> QED
    BY <2>1, <2>2, <2>3
<1>4. FilesTypeOK' /\ FreshInv'
  BY <1>2, <1>3 DEF FilesTypeOK, FreshInv, Signed
<1>5. ToolInv'
  BY <1>1, <1>2, <1>3 DEF ToolInv
<1>6. LockInv'
  BY <1>1, <1>2, <1>3 DEF LockInv, Locked
<1>7. TempInv'
  BY <1>1, <1>2, <1>3 DEF TempInv
<1>8. EditInv'
  BY <1>2, <1>3 DEF EditInv, Foreign
<1>9. SnapInv'
  BY <1>1, <1>2, <1>3 DEF SnapInv, Foreign
<1>10. WriteInv'
  BY <1>1, <1>2, <1>3 DEF WriteInv, SnapInv, Foreign, CheckWrite
<1>11. WholeContent' /\ NoLostUpdate' /\ EditsCompose'
  BY <1>2 DEF WholeContent, NoLostUpdate, EditsCompose
<1> QED
  BY <1>4, <1>5, <1>6, <1>7, <1>8, <1>9, <1>10, <1>11

(* An advance inside the locked section that touches nothing on disk but its *)
(* temporary file.                                                           *)
LEMMA AdvanceStep ==
    ASSUME IInv, NEW s \in Sessions, NEW dest \in {"create", "fill", "rename"}, Goto(s, dest),
           \/ op[s].at = "mkdir" /\ dest = "create"
           \/ op[s].at = "create" /\ dest = "fill"
           \/ op[s].at = "fill" /\ dest = "rename",
           temp' \in [Sessions -> {"none", "partial", "full"}],
           \A t \in Sessions \ {s} : temp'[t] = temp[t],
           dest = "create" => temp'[s] = "none",
           dest = "rename" => temp'[s] \in {"none", "full"},
           parent' \in BOOLEAN,
           UNCHANGED <<disk, lock, snap, versions, knows, kept, lost>>
    PROVE  IInv'
<1> USE Constants DEF IInv
<1>1. /\ op' \in [Sessions -> FileCalls]
      /\ op'[s].at = dest /\ op'[s].tool = op[s].tool /\ op'[s].base = op[s].base
      /\ \A t \in Sessions \ {s} : op'[t] = op[t]
  BY GotoFacts DEF FilesTypeOK, Locked
<1>2. FilesTypeOK' /\ FreshInv'
  BY <1>1 DEF FilesTypeOK, FreshInv, Signed
<1>3. ToolInv'
  BY <1>1 DEF ToolInv
<1>4. LockInv'
  BY <1>1 DEF LockInv, Locked
<1>5. TempInv'
  BY <1>1 DEF TempInv
<1>6. EditInv'
  BY <1>1 DEF EditInv, Foreign, ToolInv
<1>7. SnapInv'
  BY <1>1 DEF SnapInv, Foreign
<1>8. WriteInv'
  BY <1>1 DEF WriteInv, Foreign
<1>9. WholeContent' /\ NoLostUpdate' /\ EditsCompose'
  BY DEF WholeContent, NoLostUpdate, EditsCompose
<1> QED
  BY <1>2, <1>3, <1>4, <1>5, <1>6, <1>7, <1>8, <1>9

(* The parent directory is made.                                             *)
LEMMA MakeParentStep ==
    ASSUME IInv, NEW s \in Sessions, MakeParent(s)
    PROVE  IInv'
<1>1. temp[s] = "none"
  BY DEF MakeParent, At, IInv, TempInv
<1> QED
  BY <1>1, AdvanceStep DEF MakeParent, At, bounds, history, IInv, FilesTypeOK

(* The temporary file is created.                                            *)
LEMMA CreateTempStep ==
    ASSUME IInv, NEW s \in Sessions, CreateTemp(s)
    PROVE  IInv'
<1>1. CASE Leave(s)
  BY <1>1, ReturnStep DEF CreateTemp, At, Locked, bounds
<1>2. CASE /\ temp' = [temp EXCEPT ![s] = "partial"] /\ Goto(s, "fill")
           /\ UNCHANGED lock
  <2>1. /\ temp' \in [Sessions -> {"none", "partial", "full"}]
        /\ \A t \in Sessions \ {s} : temp'[t] = temp[t]
    BY <1>2 DEF IInv, FilesTypeOK
  <2>2. /\ op[s].at = "create" /\ parent' \in BOOLEAN
        /\ UNCHANGED <<disk, lock, snap, versions, knows, kept, lost>>
    BY <1>2 DEF CreateTemp, At, bounds, history, IInv, FilesTypeOK
  <2> QED
    BY <1>2, <2>1, <2>2, AdvanceStep
<1> QED
  BY <1>1, <1>2 DEF CreateTemp

(* The temporary file is written.                                            *)
LEMMA FillTempStep ==
    ASSUME IInv, NEW s \in Sessions, FillTemp(s)
    PROVE  IInv'
<1>1. CASE Leave(s)
  BY <1>1, ReturnStep DEF FillTemp, At, Locked, bounds
<1>2. CASE /\ temp' = [temp EXCEPT ![s] = IF @ = "none" THEN @ ELSE "full"]
           /\ Goto(s, "rename") /\ UNCHANGED lock
  <2>1. /\ temp' \in [Sessions -> {"none", "partial", "full"}]
        /\ \A t \in Sessions \ {s} : temp'[t] = temp[t]
        /\ temp'[s] \in {"none", "full"}
    BY <1>2 DEF IInv, FilesTypeOK
  <2>2. /\ op[s].at = "fill" /\ parent' \in BOOLEAN
        /\ UNCHANGED <<disk, lock, snap, versions, knows, kept, lost>>
    BY <1>2 DEF FillTemp, At, bounds, history, IInv, FilesTypeOK
  <2> QED
    BY <1>2, <2>1, <2>2, AdvanceStep
<1> QED
  BY <1>1, <1>2 DEF FillTemp

(* edit_file reads under the mutex, or returns.                              *)
LEMMA ReadForEditStep ==
    ASSUME IInv, NEW s \in Sessions, ReadForEdit(s)
    PROVE  IInv'
<1>1. CASE Leave(s)
  BY <1>1, ReturnStep DEF ReadForEdit, At, Locked, bounds
<1>2. CASE /\ disk.kind = "regular" /\ UNCHANGED <<lock, temp>>
           /\ op' = [op EXCEPT ![s].at = "create", ![s].base = disk]
  <2> USE Constants DEF IInv
  <2>1. /\ op' \in [Sessions -> FileCalls] /\ op[s].at = "look" /\ op'[s].at = "create"
        /\ op'[s].tool = "edit_file" /\ op[s].tool = "edit_file" /\ op'[s].base = disk
        /\ \A t \in Sessions \ {s} : op'[t] = op[t]
    BY <1>2 DEF ReadForEdit, At, FilesTypeOK, FileCalls, Locked
  <2>2. UNCHANGED <<disk, parent, temp, lock, snap, versions, knows, kept, lost>>
    BY <1>2 DEF ReadForEdit, bounds, history
  <2>3. FilesTypeOK' /\ FreshInv'
    BY <2>1, <2>2 DEF FilesTypeOK, FreshInv, Signed
  <2>4. ToolInv'
    BY <2>1 DEF ToolInv
  <2>5. LockInv'
    BY <2>1, <2>2 DEF LockInv, Locked
  <2>6. TempInv'
    BY <2>1, <2>2 DEF TempInv
  <2>7. EditInv'
    BY <1>2, <2>1, <2>2 DEF EditInv, Foreign, EditsCompose
  <2>8. SnapInv' /\ WriteInv'
    BY <2>1, <2>2 DEF SnapInv, WriteInv, Foreign
  <2>9. WholeContent' /\ NoLostUpdate' /\ EditsCompose'
    BY <2>2 DEF WholeContent, NoLostUpdate, EditsCompose
  <2> QED
    BY <2>3, <2>4, <2>5, <2>6, <2>7, <2>8, <2>9
<1> QED
  BY <1>1, <1>2 DEF ReadForEdit

(* The rename: the only step that puts a session's content at the path.      *)
LEMMA RenameStep ==
    ASSUME IInv, NEW s \in Sessions, Rename(s)
    PROVE  IInv'
<1>1. CASE Leave(s) /\ UNCHANGED <<disk, versions, history>>
  BY <1>1, ReturnStep DEF Rename, At, Locked
<1>2. CASE /\ temp[s] # "none" /\ versions < MaxVersions /\ versions' = versions + 1
           /\ disk' = [kind |-> "regular", ver |-> versions', by |-> s,
                       whole |-> temp[s] = "full",
                       edits |-> IF op[s].tool = "edit_file"
                                 THEN op[s].base.edits \cup {versions'} ELSE {}]
           /\ temp' = [temp EXCEPT ![s] = "none"]
           /\ lost' = (IF Unseen(s) THEN lost \cup {disk.ver} ELSE lost)
           /\ kept' = (IF op[s].tool = "edit_file" THEN kept \cup {versions'} ELSE {})
           /\ knows' = [knows EXCEPT ![s] = versions']
           /\ Goto(s, "record") /\ UNCHANGED lock
  <2> USE Constants DEF IInv
  <2>1. /\ op[s].at = "rename" /\ UNCHANGED <<lock, parent, snap>>
        /\ lock = s /\ \A t \in Sessions \ {s} : op[t].at \notin Locked
    BY <1>2 DEF Rename, At, LockInv, Locked
  <2>2. /\ op' \in [Sessions -> FileCalls]
        /\ op'[s].at = "record" /\ op'[s].tool = op[s].tool
        /\ \A t \in Sessions \ {s} : op'[t] = op[t]
    BY <1>2, GotoFacts DEF FilesTypeOK, Locked
  <2>3. /\ versions \in 1..MaxVersions /\ versions' \in 1..MaxVersions
        /\ versions' > versions
    BY <1>2 DEF FreshInv
  <2>4. /\ disk'.kind = "regular" /\ disk'.ver = versions' /\ disk'.by = s
        /\ disk'.whole = (temp[s] = "full")
        /\ disk'.edits = IF op[s].tool = "edit_file"
                         THEN op[s].base.edits \cup {versions'} ELSE {}
    BY <1>2
  <2>5. FilesTypeOK'
    <3>1. disk' \in FileStates
      <4>1. op[s].base.edits \subseteq 1..MaxVersions
        BY DEF FilesTypeOK, FileCalls, FileStates
      <4>2. /\ versions' \in 0..MaxVersions
            /\ (IF op[s].tool = "edit_file" THEN op[s].base.edits \cup {versions'} ELSE {})
               \in SUBSET (1..MaxVersions)
        BY <2>3, <4>1
      <4> QED
        BY <1>2, <4>2 DEF FileStates
    <3>2. lost' \subseteq 0..MaxVersions /\ kept' \subseteq 1..MaxVersions
      BY <1>2, <2>3 DEF FilesTypeOK, FileStates
    <3>3. temp' \in [Sessions -> {"none", "partial", "full"}]
      BY <1>2 DEF FilesTypeOK
    <3>4. knows' \in [Sessions -> -1..MaxVersions]
      BY <1>2, <2>3 DEF FilesTypeOK
    <3> QED
      BY <2>1, <2>2, <3>1, <3>2, <3>3, <3>4 DEF FilesTypeOK
  <2>6. ToolInv'
    BY <2>1, <2>2 DEF ToolInv
  <2>7. LockInv'
    BY <2>1, <2>2 DEF LockInv, Locked
  <2>8. TempInv'
    BY <1>2, <2>1, <2>2 DEF TempInv, FilesTypeOK
  <2>9. FreshInv'
    BY <1>2, <2>1, <2>3, <2>4 DEF FreshInv, FilesTypeOK, Signed
  <2>10. EditInv' /\ WriteInv'
    BY <2>1, <2>2, <2>4 DEF EditInv, WriteInv, Foreign, Locked
  <2>11. SnapInv'
    <3>1. \A t \in Sessions : snap'[t] = snap[t] /\ (Distinct(disk'.ver) => snap[t] # SigOf[disk'.ver])
      <4>1. SigOf[versions'] # -1
        BY <2>3, SigRange
      <4>2. \A t \in Sessions : snap[t] = -1 \/ \E w \in 0..(versions' - 1) : snap[t] = SigOf[w]
        BY <1>2, <2>3 DEF FreshInv, Signed
      <4> QED
        BY <2>1, <2>4, <4>1, <4>2 DEF Distinct
    <3>2. \A t \in Sessions \ {s} : knows'[t] = knows[t]
      BY <1>2 DEF FilesTypeOK
    <3> QED
      BY <2>1, <2>2, <3>1, <3>2 DEF SnapInv, Locked
  <2>12. WholeContent'
    BY <1>2, <2>1, <2>4 DEF WholeContent, TempInv
  <2>13. NoLostUpdate'
    <3>1. Unseen(s) => ~Distinct(disk.ver)
      <4>1. CASE op[s].tool = "edit_file"
        BY <2>1, <4>1 DEF Unseen, EditInv, Foreign
      <4>2. CASE op[s].tool # "edit_file"
        BY <2>1, <4>2 DEF Unseen, WriteInv, ToolInv, Foreign
      <4> QED
        BY <4>1, <4>2
    <3> QED
      BY <1>2, <3>1 DEF NoLostUpdate
  <2>14. EditsCompose'
    BY <1>2, <2>1, <2>4 DEF EditsCompose, EditInv
  <2> QED
    BY <2>5, <2>6, <2>7, <2>8, <2>9, <2>10, <2>11, <2>12, <2>13, <2>14
<1> QED
  BY <1>1, <1>2 DEF Rename

(* delete_file forgets every snapshot, or returns.                           *)
LEMMA DeleteFileStep ==
    ASSUME IInv, NEW s \in Sessions, DeleteFile(s)
    PROVE  IInv'
<1>1. CASE UNCHANGED <<disk, kept, snap, knows>>
  BY <1>1, ReturnStep DEF DeleteFile, At, Locked, bounds, history
<1>2. CASE /\ Gone /\ snap' = [t \in Sessions |-> -1]
           /\ knows' = [t \in Sessions |-> -1]
  <2> USE Constants DEF IInv
  <2>1. /\ lock = s /\ \A t \in Sessions \ {s} : op[t].at \notin Locked
        /\ op[s].at = "look"
    BY DEF DeleteFile, At, LockInv, Locked
  <2>2. /\ op' \in [Sessions -> FileCalls] /\ op'[s].at = "idle" /\ op'[s].tool = "none"
        /\ \A t \in Sessions \ {s} : op'[t] = op[t]
    BY IdleFacts DEF DeleteFile, Leave, FilesTypeOK
  <2>3. /\ disk' = Absent /\ kept' = {} /\ lock' = "none"
        /\ temp' = [temp EXCEPT ![s] = "none"] /\ UNCHANGED <<parent, versions, lost>>
    BY <1>2 DEF DeleteFile, Leave, Gone, bounds
  <2>4. /\ disk'.kind = "absent" /\ disk'.ver = 0 /\ disk'.whole /\ disk'.edits = {}
    BY <2>3 DEF Absent
  <2>5. FilesTypeOK'
    BY <1>2, <2>2, <2>3 DEF FilesTypeOK
  <2>6. FreshInv'
    BY <1>2, <2>3, <2>4 DEF FreshInv, Signed
  <2>7. ToolInv'
    BY <2>2 DEF ToolInv
  <2>8. LockInv'
    BY <2>1, <2>2, <2>3 DEF LockInv, Locked
  <2>9. TempInv'
    BY <2>2, <2>3 DEF TempInv, FilesTypeOK
  <2>10. EditInv' /\ SnapInv' /\ WriteInv'
    BY <1>2, <2>3, <2>4 DEF EditInv, SnapInv, WriteInv, Foreign
  <2>11. WholeContent' /\ NoLostUpdate' /\ EditsCompose'
    BY <2>3, <2>4 DEF WholeContent, NoLostUpdate, EditsCompose
  <2> QED
    BY <2>5, <2>6, <2>7, <2>8, <2>9, <2>10, <2>11
<1> QED
  BY <1>1, <1>2 DEF DeleteFile

(* delete_directory takes the file and all temporary files with it, outside  *)
(* the mutex and under any call.                                             *)
LEMMA DeleteDirectoryStep ==
    ASSUME IInv, NEW s \in Sessions, DeleteDirectory(s)
    PROVE  IInv'
<1> USE Constants DEF IInv
<1>1. /\ op' \in [Sessions -> FileCalls] /\ op'[s].at = "idle" /\ op'[s].tool = "none"
      /\ \A t \in Sessions \ {s} : op'[t] = op[t]
      /\ op[s].at = "begin" /\ UNCHANGED <<lock, snap, versions, knows, lost>>
  BY IdleFacts DEF DeleteDirectory, At, FilesTypeOK, bounds
<1>2. \/ /\ parent' = FALSE /\ kept' = {} /\ temp' = [t \in Sessions |-> "none"]
         /\ disk' = Absent
      \/ UNCHANGED <<disk, kept, parent, temp>>
  BY DEF DeleteDirectory, Gone
<1>3. \/ disk'.kind = "absent" /\ disk'.ver = 0 /\ disk'.whole /\ disk'.edits = {}
      \/ disk' = disk
  BY <1>2 DEF Absent
<1>4. FilesTypeOK'
  BY <1>1, <1>2 DEF FilesTypeOK
<1>5. FreshInv'
  BY <1>1, <1>3 DEF FreshInv, Signed
<1>6. ToolInv'
  BY <1>1 DEF ToolInv
<1>7. LockInv'
  BY <1>1 DEF LockInv, Locked
<1>8. TempInv'
  BY <1>1, <1>2 DEF TempInv
<1>9. EditInv'
  BY <1>1, <1>2, <1>3 DEF EditInv, Foreign
<1>10. SnapInv' /\ WriteInv'
  BY <1>1, <1>3 DEF SnapInv, WriteInv, Foreign
<1>11. WholeContent' /\ NoLostUpdate' /\ EditsCompose'
  BY <1>1, <1>2, <1>3 DEF WholeContent, NoLostUpdate, EditsCompose
<1> QED
  BY <1>4, <1>5, <1>6, <1>7, <1>8, <1>9, <1>10, <1>11

(* An outside editor replaces the file, under any call.                      *)
LEMMA OutsideEditStep ==
    ASSUME IInv, OutsideEdit
    PROVE  IInv'
<1> USE Constants DEF IInv
<1>1. /\ versions' \in 1..MaxVersions /\ versions' > versions /\ kept' = {}
      /\ UNCHANGED <<parent, temp, lock, snap, op, knows, lost>>
  BY DEF OutsideEdit, FreshInv
<1>2. /\ disk' \in FileStates
      /\ disk'.ver = versions' /\ disk'.by = "outside" /\ disk'.whole
  <2>1. PICK k \in {"regular", "fifo", "dir"} :
            disk' = [Absent EXCEPT !.kind = k, !.ver = versions', !.by = "outside"]
    BY DEF OutsideEdit
  <2>2. versions' \in 0..MaxVersions
    BY <1>1
  <2> QED
    BY <2>1, <2>2 DEF Absent, FileStates
<1>3. FilesTypeOK'
  BY <1>1, <1>2 DEF FilesTypeOK
<1>4. FreshInv'
  BY <1>1, <1>2 DEF FreshInv, FilesTypeOK, Signed
<1>5. ToolInv' /\ LockInv' /\ TempInv'
  BY <1>1 DEF ToolInv, LockInv, TempInv
<1>6. EditInv' /\ SnapInv' /\ WriteInv'
  BY <1>1, <1>2 DEF EditInv, SnapInv, WriteInv, Foreign
<1>7. WholeContent' /\ NoLostUpdate' /\ EditsCompose'
  BY <1>1, <1>2 DEF WholeContent, NoLostUpdate, EditsCompose
<1> QED
  BY <1>3, <1>4, <1>5, <1>6, <1>7

-----------------------------------------------------------------------------
(* The initial states satisfy the inductive invariant.                       *)
LEMMA IInvInit == FilesInit => IInv
<1> SUFFICES ASSUME FilesInit PROVE IInv
  OBVIOUS
<1>1. FilesTypeOK /\ FreshInv
  <2>1. 1 \in 0..MaxVersions /\ -1 \in -1..MaxVersions
    BY Constants
  <2>2. disk = [kind |-> "regular", ver |-> 1, by |-> "outside", whole |-> TRUE, edits |-> {}]
    BY DEF FilesInit, Absent
  <2>3. disk \in FileStates /\ disk.ver = 1
    BY <2>1, <2>2 DEF FileStates
  <2>4. /\ snap \in [Sessions -> -1..MaxVersions] /\ knows \in [Sessions -> -1..MaxVersions]
        /\ op \in [Sessions -> FileCalls] /\ temp \in [Sessions -> {"none", "partial", "full"}]
    BY <2>1, Constants DEF FilesInit
  <2>5. FilesTypeOK
    BY <2>3, <2>4 DEF FilesInit, FilesTypeOK
  <2>6. FreshInv
    BY <2>3, Constants DEF FilesInit, FreshInv, Signed
  <2> QED
    BY <2>5, <2>6
<1>2. ToolInv /\ LockInv /\ TempInv
  BY Constants DEF FilesInit, ToolInv, LockInv, TempInv, Locked, Idle
<1>3. EditInv /\ SnapInv /\ WriteInv
  BY DEF FilesInit, EditInv, SnapInv, WriteInv, Idle
<1>4. WholeContent /\ NoLostUpdate /\ EditsCompose
  BY DEF FilesInit, WholeContent, NoLostUpdate, EditsCompose, Absent
<1> QED
  BY <1>1, <1>2, <1>3, <1>4 DEF IInv

(* Every step preserves it.                                                  *)
LEMMA IInvStep == IInv /\ [FilesNext]_fileVars => IInv'
<1> SUFFICES ASSUME IInv, [FilesNext]_fileVars PROVE IInv'
  OBVIOUS
<1>1. CASE UNCHANGED fileVars
  BY <1>1 DEF fileVars, IInv, FilesTypeOK, ToolInv, LockInv, TempInv, FreshInv, Signed, EditInv,
              SnapInv, WriteInv, Foreign, WholeContent, NoLostUpdate, EditsCompose
<1>2. CASE OutsideEdit \/ Crash
  BY <1>2, OutsideEditStep, CrashStep
<1>3. ASSUME NEW s \in Sessions, NEW called \in Tools, Call(s, called)
      PROVE  IInv'
  BY <1>3, CallStep
<1>4. ASSUME NEW s \in Sessions,
             \/ ReadFile(s) \/ StatTarget(s) \/ Enter(s) \/ MakeParent(s) \/ ReadForEdit(s)
      PROVE  IInv'
  BY <1>4, CheckReadStep, ReadContentStep, StatTargetStep, EnterStep, MakeParentStep,
     ReadForEditStep DEF ReadFile
<1>5. ASSUME NEW s \in Sessions,
             \/ CreateTemp(s) \/ FillTemp(s) \/ Rename(s) \/ RecordWrite(s)
             \/ DeleteFile(s) \/ DeleteDirectory(s)
      PROVE  IInv'
  BY <1>5, CreateTempStep, FillTempStep, RenameStep, RecordWriteStep, DeleteFileStep,
     DeleteDirectoryStep
<1> QED
  BY <1>1, <1>2, <1>3, <1>4, <1>5 DEF FilesNext

(* IInv is an inductive invariant of the file tools.                         *)
THEOREM FilesInvariance == FilesSpec => []IInv
  BY IInvInit, IInvStep, PTL DEF FilesSpec

(* Any number of sessions that read, write, edit and delete the path, with   *)
(* crashes, an outside editor and directory removals at any instant, keep    *)
(* the content whole, keep every edit and leave no mutex or temporary file   *)
(* behind; a session that has read the file replaces no unseen content of    *)
(* another one, for any assignment of signatures, unless that content has    *)
(* the signature of an earlier one (coherence.go:8).                         *)
THEOREM FilesCorrect == FilesSpec => []FilesSafe
<1>1. IInv => NothingLeftBehind
  BY DEF IInv, LockInv, TempInv, NothingLeftBehind
<1>2. IInv => FilesSafe
  BY <1>1 DEF IInv, FilesSafe
<1> QED
  BY FilesInvariance, <1>2, PTL

-----------------------------------------------------------------------------
(* The watchdog over a tool call                                             *)

(* A result stays in the channel until the Run goroutine takes it, so an arm *)
(* that found one when it was taken still finds it when it drains; the       *)
(* context never comes back to life.                                         *)
ArmInv ==
    /\ pc # "returned" => out = "none"
    /\ pc \in {"tickCtx", "timeCtx", "drainCtx", "drainTick", "drainTime"} /\ wasDone =>
          done # "empty"
    /\ pc = "poll" => ~wasDone
    /\ wasCancelled => ctx = "cancelled"
    /\ pc \in {"drainTick", "drainTime", "poll"} => ~wasCancelled

WatchInv == TypeOK /\ ArmInv /\ FinishedWorkWins /\ CancellationWins

(* Every step keeps the types.                                               *)
LEMMA WatchTypeStep ==
    ASSUME TypeOK, [Next]_vars
    PROVE  TypeOK'
<1>1. CASE DrainFirst
  BY <1>1, ZenonT(60) DEF DrainFirst, DrainOr, ReturnWith, GoTo, envVars, runVars, TypeOK, Waits
<1>2. CASE SelectDone
  BY <1>2 DEF SelectDone, ReturnWith, Observe, envVars, runVars, TypeOK, Waits
<1>3. CASE SelectCtx
  BY <1>3 DEF SelectCtx, GoTo, Observe, envVars, runVars, TypeOK, Waits
<1>4. CASE SelectTick
  BY <1>4, ZenonT(60) DEF SelectTick, GoTo, Observe, envVars, runVars, TypeOK, Waits
<1>5. CASE SelectTimeout
  BY <1>5 DEF SelectTimeout, GoTo, Observe, envVars, runVars, TypeOK, Waits
<1>6. CASE CheckCtx
  BY <1>6 DEF CheckCtx, GoTo, envVars, runVars, TypeOK, Waits
<1>7. CASE DrainCtx
  BY <1>7, ZenonT(60) DEF DrainCtx, DrainOr, ReturnWith, envVars, runVars, TypeOK, Waits
<1>8. CASE DrainTick
  BY <1>8, ZenonT(60) DEF DrainTick, DrainOr, ReturnWith, GoTo, envVars, runVars, TypeOK, Waits
<1>9. CASE DrainTimeout
  BY <1>9, ZenonT(60) DEF DrainTimeout, DrainOr, ReturnWith, envVars, runVars, TypeOK, Waits
<1>10. CASE PollPause
  <2>1. CASE pause
    BY <1>10, <2>1 DEF PollPause, ReturnWith, envVars, TypeOK, Waits
  <2>2. CASE ~pause
    BY <1>10, <2>2 DEF PollPause, GoTo, envVars, TypeOK, Waits
  <2> QED
    BY <2>1, <2>2
<1>11. CASE ExecuteEnds
  BY <1>11 DEF ExecuteEnds, envVars, runVars, TypeOK, Waits
<1>12. CASE SendOutcome
  BY <1>12 DEF SendOutcome, envVars, runVars, TypeOK, Waits
<1>13. CASE CancelRun
  BY <1>13 DEF CancelRun, envVars, runVars, TypeOK, Waits
<1>14. CASE RequestPause
  BY <1>14 DEF RequestPause, envVars, runVars, TypeOK, Waits
<1>15. CASE TickFires
  BY <1>15 DEF TickFires, envVars, runVars, TypeOK, Waits
<1>16. CASE TimerFires
  BY <1>16 DEF TimerFires, envVars, runVars, TypeOK, Waits
<1>17. CASE UNCHANGED vars
  BY <1>17 DEF vars, envVars, runVars, TypeOK, Waits
<1> QED
  BY <1>1, <1>2, <1>3, <1>4, <1>5, <1>6, <1>7, <1>8, <1>9, <1>10, <1>11, <1>12, <1>13, <1>14, <1>15, <1>16, <1>17
     DEF Next, RunSide, Goroutine, Environment, Returned

(* Every step keeps what an arm knows.                                       *)
LEMMA ArmStep ==
    ASSUME TypeOK, ArmInv, [Next]_vars
    PROVE  ArmInv'
<1>1. CASE DrainFirst
  BY <1>1 DEF DrainFirst, DrainOr, ReturnWith, GoTo, envVars, runVars, TypeOK, ArmInv
<1>2. CASE SelectDone
  BY <1>2 DEF SelectDone, ReturnWith, Observe, envVars, runVars, TypeOK, ArmInv
<1>3. CASE SelectCtx
  BY <1>3 DEF SelectCtx, GoTo, Observe, envVars, runVars, TypeOK, ArmInv
<1>4. CASE SelectTick
  BY <1>4 DEF SelectTick, GoTo, Observe, envVars, runVars, TypeOK, ArmInv
<1>5. CASE SelectTimeout
  BY <1>5 DEF SelectTimeout, GoTo, Observe, envVars, runVars, TypeOK, ArmInv
<1>6. CASE CheckCtx
  BY <1>6 DEF CheckCtx, GoTo, envVars, runVars, TypeOK, ArmInv
<1>7. CASE DrainCtx
  BY <1>7 DEF DrainCtx, DrainOr, ReturnWith, envVars, runVars, TypeOK, ArmInv
<1>8. CASE DrainTick
  BY <1>8 DEF DrainTick, DrainOr, ReturnWith, GoTo, envVars, runVars, TypeOK, ArmInv
<1>9. CASE DrainTimeout
  BY <1>9 DEF DrainTimeout, DrainOr, ReturnWith, envVars, runVars, TypeOK, ArmInv
<1>10. CASE PollPause
  BY <1>10 DEF PollPause, ReturnWith, GoTo, envVars, runVars, TypeOK, ArmInv
<1>11. CASE ExecuteEnds
  BY <1>11 DEF ExecuteEnds, envVars, runVars, TypeOK, ArmInv
<1>12. CASE SendOutcome
  BY <1>12 DEF SendOutcome, envVars, runVars, TypeOK, ArmInv
<1>13. CASE CancelRun
  BY <1>13 DEF CancelRun, envVars, runVars, TypeOK, ArmInv
<1>14. CASE RequestPause
  BY <1>14 DEF RequestPause, envVars, runVars, TypeOK, ArmInv
<1>15. CASE TickFires
  BY <1>15 DEF TickFires, envVars, runVars, TypeOK, ArmInv
<1>16. CASE TimerFires
  BY <1>16 DEF TimerFires, envVars, runVars, TypeOK, ArmInv
<1>17. CASE UNCHANGED vars
  BY <1>17 DEF vars, envVars, runVars, TypeOK, ArmInv
<1> QED
  BY <1>1, <1>2, <1>3, <1>4, <1>5, <1>6, <1>7, <1>8, <1>9, <1>10, <1>11, <1>12, <1>13, <1>14, <1>15, <1>16, <1>17
     DEF Next, RunSide, Goroutine, Environment, Returned

(* What is returned respects what the arm knew.                              *)
LEMMA OutcomeStep ==
    ASSUME TypeOK, ArmInv, FinishedWorkWins, CancellationWins, [Next]_vars
    PROVE  FinishedWorkWins' /\ CancellationWins'
<1>1. CASE DrainFirst
  BY <1>1 DEF DrainFirst, DrainOr, ReturnWith, GoTo, envVars, runVars, TypeOK, ArmInv, FinishedWorkWins, CancellationWins
<1>2. CASE SelectDone
  BY <1>2 DEF SelectDone, ReturnWith, Observe, envVars, runVars, TypeOK, ArmInv, FinishedWorkWins, CancellationWins
<1>3. CASE SelectCtx
  BY <1>3 DEF SelectCtx, GoTo, Observe, envVars, runVars, TypeOK, ArmInv, FinishedWorkWins, CancellationWins
<1>4. CASE SelectTick
  BY <1>4 DEF SelectTick, GoTo, Observe, envVars, runVars, TypeOK, ArmInv, FinishedWorkWins, CancellationWins
<1>5. CASE SelectTimeout
  BY <1>5 DEF SelectTimeout, GoTo, Observe, envVars, runVars, TypeOK, ArmInv, FinishedWorkWins, CancellationWins
<1>6. CASE CheckCtx
  BY <1>6 DEF CheckCtx, GoTo, envVars, runVars, TypeOK, ArmInv, FinishedWorkWins, CancellationWins
<1>7. CASE DrainCtx
  BY <1>7 DEF DrainCtx, DrainOr, ReturnWith, envVars, runVars, TypeOK, ArmInv, FinishedWorkWins, CancellationWins
<1>8. CASE DrainTick
  BY <1>8 DEF DrainTick, DrainOr, ReturnWith, GoTo, envVars, runVars, TypeOK, ArmInv, FinishedWorkWins, CancellationWins
<1>9. CASE DrainTimeout
  BY <1>9 DEF DrainTimeout, DrainOr, ReturnWith, envVars, runVars, TypeOK, ArmInv, FinishedWorkWins, CancellationWins
<1>10. CASE PollPause
  BY <1>10 DEF PollPause, ReturnWith, GoTo, envVars, runVars, TypeOK, ArmInv, FinishedWorkWins, CancellationWins
<1>11. CASE ExecuteEnds
  BY <1>11 DEF ExecuteEnds, envVars, runVars, TypeOK, ArmInv, FinishedWorkWins, CancellationWins
<1>12. CASE SendOutcome
  BY <1>12 DEF SendOutcome, envVars, runVars, TypeOK, ArmInv, FinishedWorkWins, CancellationWins
<1>13. CASE CancelRun
  BY <1>13 DEF CancelRun, envVars, runVars, TypeOK, ArmInv, FinishedWorkWins, CancellationWins
<1>14. CASE RequestPause
  BY <1>14 DEF RequestPause, envVars, runVars, TypeOK, ArmInv, FinishedWorkWins, CancellationWins
<1>15. CASE TickFires
  BY <1>15 DEF TickFires, envVars, runVars, TypeOK, ArmInv, FinishedWorkWins, CancellationWins
<1>16. CASE TimerFires
  BY <1>16 DEF TimerFires, envVars, runVars, TypeOK, ArmInv, FinishedWorkWins, CancellationWins
<1>17. CASE UNCHANGED vars
  BY <1>17 DEF vars, envVars, runVars, TypeOK, ArmInv, FinishedWorkWins, CancellationWins
<1> QED
  BY <1>1, <1>2, <1>3, <1>4, <1>5, <1>6, <1>7, <1>8, <1>9, <1>10, <1>11, <1>12, <1>13, <1>14, <1>15, <1>16, <1>17
     DEF Next, RunSide, Goroutine, Environment, Returned

(* The invariant holds in every reachable state.                             *)
THEOREM WatchInvariance == Spec => []WatchInv
<1>1. Init => WatchInv
  BY DEF Init, WatchInv, TypeOK, Waits, ArmInv, FinishedWorkWins, CancellationWins
<1>2. WatchInv /\ [Next]_vars => WatchInv'
  BY WatchTypeStep, ArmStep, OutcomeStep DEF WatchInv
<1> QED
  BY <1>1, <1>2, PTL DEF Spec

(* Type correctness: what is returned is an outcome, never an empty receive. *)
THEOREM WatchTypes == Spec => []TypeOK
<1>1. WatchInv => TypeOK
  BY DEF WatchInv
<1> QED
  BY <1>1, WatchInvariance, PTL

(* A result delivered before an arm was taken is never discarded.            *)
THEOREM FinishedCorrect == Spec => []FinishedWorkWins
<1>1. WatchInv => FinishedWorkWins
  BY DEF WatchInv
<1> QED
  BY <1>1, WatchInvariance, PTL

(* A cancelled run is never reported as paused or timed out.                 *)
THEOREM CancellationCorrect == Spec => []CancellationWins
<1>1. WatchInv => CancellationWins
  BY DEF WatchInv
<1> QED
  BY <1>1, WatchInvariance, PTL

(* Finished work beats cancellation, and cancellation beats pause and        *)
(* timeout, whichever arm of executeToolCall's select is taken.              *)
THEOREM OutcomeCorrect == Spec => []RightOutcome
<1>1. TypeOK /\ FinishedWorkWins /\ CancellationWins => RightOutcome
  BY DEF RightOutcome
<1> QED
  BY WatchTypes, FinishedCorrect, CancellationCorrect, <1>1, PTL

-----------------------------------------------------------------------------
(* The one-ahead pipeline.  Its invariant says how far the producer is ahead *)
(* of the caller at each pair of places, and what a closed channel means:    *)
(* only a producer that reports nil has produced everything.                 *)
PipeSpec == PipeInit /\ [][PipeNext]_pipeVars

(* The done channel: empty, or the producer's verdict.                       *)
Verdicts == {"nil", "cancelled", "tokenizer error"}
DoneOK == doneCh = <<>> \/ \E v \in Verdicts : doneCh = <<v>>
Told == doneCh # <<>>
SaidNil == doneCh # <<>> /\ doneCh[1] = "nil"

PipeTypes ==
    /\ producer \in {"produce", "select", "close", "ended"}
    /\ consumer \in {"range", "check", "stop", "returned"}
    /\ produced \in Nat /\ produced <= MaxChunks /\ offered \in Nat /\ received \in Nat
    /\ inferred \in Seq(Nat)
    /\ reply \in {"none", "vectors", "cancelled", "run error", "tokenizer error"}

(* The chunks are inferred in order, each once.                              *)
InOrder == \A i \in 1..Len(inferred) : inferred[i] = i

(* The producer's side: its verdict is sent before items is closed.          *)
ProducerOK ==
    /\ Told <=> producer \in {"close", "ended"}
    /\ closedOff <=> producer = "ended"
    /\ offered = IF producer = "select" THEN produced ELSE 0
    /\ SaidNil => produced = MaxChunks
    /\ producer = "select" => produced >= 1

(* The caller's side.                                                        *)
CallerOK ==
    /\ received = IF consumer = "check" THEN Len(inferred) + 1 ELSE 0
    /\ consumer \in {"range", "check"} => reply = "none"
    /\ consumer = "stop" => reply # "vectors"
    /\ consumer = "returned" => reply # "none" /\ producer \in {"close", "ended"}
    /\ reply = "vectors" => Len(inferred) = MaxChunks

(* How far apart they are.                                                   *)
Taken == Len(inferred) + (IF consumer = "check" THEN 1 ELSE 0)
Apart ==
    /\ Taken <= produced
    /\ consumer \in {"range", "check"} =>
         /\ producer = "produce" => produced = Taken
         /\ producer = "select" => produced = Taken + 1
         /\ produced <= Taken + 1
         /\ SaidNil => Taken = MaxChunks
    /\ consumer \in {"stop", "returned"} =>
         /\ produced <= Len(inferred) + 2
         /\ producer = "produce" => produced <= Len(inferred) + 1
    /\ consumer = "stop" /\ reply = "none" =>
         producer = "ended" /\ (SaidNil => Len(inferred) = MaxChunks)

PipeInv == DoneOK /\ PipeTypes /\ InOrder /\ ProducerOK /\ CallerOK /\ Apart

LEMMA PipeInitOK == PipeInit => PipeInv
  BY EmbedBatchesAssumption
     DEF PipeInit, PipeInv, DoneOK, Told, SaidNil, PipeTypes, InOrder, ProducerOK, CallerOK, Apart, Taken

(* What sending a verdict, and leaving the channel alone, do to it.          *)
LEMMA FinishFacts ==
    ASSUME NEW o \in Verdicts, Finish(o)
    PROVE  DoneOK' /\ Told' /\ (SaidNil' <=> o = "nil") /\ producer' = "close"
  BY DEF Finish, DoneOK, Told, SaidNil

LEMMA DoneKept ==
    ASSUME DoneOK, UNCHANGED doneCh
    PROVE  DoneOK' /\ (Told' <=> Told) /\ (SaidNil' <=> SaidNil)
  BY DEF DoneOK, Told, SaidNil

(* The numbers the invariant compares.                                       *)
LEMMA Bounds ==
    ASSUME PipeInv
    PROVE  /\ inferred \in Seq(Nat) /\ Len(inferred) \in Nat
           /\ produced \in Nat /\ MaxChunks \in Nat /\ produced <= MaxChunks
           /\ Taken \in Nat /\ Len(inferred) <= Taken /\ Taken <= Len(inferred) + 1 /\ Taken <= produced
<1>1. inferred \in Seq(Nat) /\ produced \in Nat /\ produced <= MaxChunks
  BY DEF PipeInv, PipeTypes
<1>2. MaxChunks \in Nat
  BY EmbedBatchesAssumption
<1>3. Len(inferred) \in Nat
  BY <1>1
<1>4. Taken \in Nat /\ Len(inferred) <= Taken /\ Taken <= Len(inferred) + 1
  BY <1>3 DEF Taken
<1>5. Taken <= produced
  BY DEF PipeInv, Apart
<1> QED  BY <1>1, <1>2, <1>3, <1>4, <1>5

(* A step of the producer leaves the caller alone: it moves from one place   *)
(* to the next and is at most one chunk further.                             *)
LEMMA ProduceStep ==
    ASSUME PipeInv, Produce
    PROVE  PipeInv'
<1> USE DEF PipeInv
<1>1. UNCHANGED <<closedOff, consumer, received, inferred, reply>> /\ producer = "produce"
  BY DEF Produce, callerVars
<1>2. ASSUME NEW o \in Verdicts, Finish(o), UNCHANGED <<produced, offered>>, o = "nil" <=> produced = MaxChunks
      PROVE  PipeInv'
  <2>1. DoneOK' /\ Told' /\ (SaidNil' <=> produced = MaxChunks) /\ producer' = "close"
    BY <1>2, FinishFacts
  <2>2. PipeTypes' /\ InOrder' /\ CallerOK'
    BY <1>1, <1>2, <2>1 DEF PipeTypes, InOrder, CallerOK
  <2>3. ProducerOK'
    BY <1>1, <1>2, <2>1 DEF PipeTypes, ProducerOK
  <2>4. Apart'
    BY <1>1, <1>2, <2>1 DEF PipeTypes, ProducerOK, Apart, Taken
  <2> QED  BY <2>1, <2>2, <2>3, <2>4
<1>3. ASSUME produced # MaxChunks, produced' = produced + 1, offered' = produced + 1,
             producer' = "select", UNCHANGED doneCh
      PROVE  PipeInv'
  <2>1. DoneOK' /\ (Told' <=> Told) /\ (SaidNil' <=> SaidNil)
    BY <1>3, DoneKept
  <2>2. produced' \in Nat /\ 1 <= produced' /\ produced' <= MaxChunks /\ offered' \in Nat
    BY <1>3, Bounds
  <2>3. PipeTypes' /\ InOrder' /\ CallerOK'
    BY <1>1, <1>3, <2>2 DEF PipeTypes, InOrder, CallerOK
  <2>4. ProducerOK'
    BY <1>1, <1>3, <2>1, <2>2 DEF PipeTypes, ProducerOK
  <2>5. Taken' = Taken
    BY <1>1 DEF Taken
  <2>6. Apart'
    <3>1. Apart /\ ~Told /\ consumer # "returned" /\ (consumer \in {"range", "check"} => reply = "none")
      BY <1>1 DEF ProducerOK, CallerOK
    <3>2. ~SaidNil
      BY <3>1 DEF Told, SaidNil
    <3>3. CASE consumer \in {"range", "check"}
      <4>1. produced = Taken
        BY <1>1, <3>1, <3>3 DEF Apart
      <4>2. Taken' <= produced' /\ produced' = Taken' + 1 /\ produced' <= Taken' + 1
        BY <1>3, <2>5, <4>1, Bounds
      <4> QED  BY <1>1, <1>3, <2>1, <3>2, <3>3, <4>2 DEF Apart
    <3>4. CASE consumer = "stop"
      <4>1. produced <= Len(inferred) + 1 /\ reply # "none"
        BY <1>1, <3>1, <3>4 DEF Apart
      <4>2. Taken' <= produced' /\ produced' <= Len(inferred) + 2
        BY <1>3, <2>5, <4>1, Bounds
      <4> QED  BY <1>1, <1>3, <3>4, <4>1, <4>2 DEF Apart
    <3> QED  BY <3>1, <3>3, <3>4 DEF PipeTypes
  <2> QED  BY <2>1, <2>3, <2>4, <2>6
<1>4. "nil" \in Verdicts /\ "cancelled" \in Verdicts /\ "tokenizer error" \in Verdicts
  BY DEF Verdicts
<1> QED  BY <1>2, <1>3, <1>4 DEF Produce

LEMMA SelectStoppedStep == PipeInv /\ SelectStopped => PipeInv'
<1> SUFFICES ASSUME PipeInv, SelectStopped PROVE PipeInv'
  OBVIOUS
<1> USE DEF PipeInv
<1>1. /\ UNCHANGED <<produced, closedOff, consumer, received, inferred, reply>>
      /\ producer = "select" /\ offered' = 0
  BY DEF SelectStopped, callerVars
<1>2. DoneOK' /\ Told' /\ ~SaidNil' /\ producer' = "close"
  BY FinishFacts DEF SelectStopped, Verdicts
<1>3. PipeTypes' /\ InOrder' /\ CallerOK'
  BY <1>1, <1>2 DEF PipeTypes, InOrder, CallerOK
<1>4. ProducerOK'
  BY <1>1, <1>2 DEF PipeTypes, ProducerOK
<1>5. Apart'
  BY <1>1, <1>2 DEF PipeTypes, Apart, Taken
<1> QED  BY <1>2, <1>3, <1>4, <1>5

LEMMA CloseItemsStep == PipeInv /\ CloseItems => PipeInv'
<1> SUFFICES ASSUME PipeInv, CloseItems PROVE PipeInv'
  OBVIOUS
<1> USE DEF PipeInv
<1>1. /\ UNCHANGED <<produced, offered, doneCh, consumer, received, inferred, reply>>
      /\ producer = "close" /\ producer' = "ended" /\ closedOff' = TRUE
  BY DEF CloseItems, callerVars
<1>2. DoneOK' /\ (Told' <=> Told) /\ (SaidNil' <=> SaidNil)
  BY <1>1, DoneKept
<1>3. PipeTypes' /\ InOrder' /\ CallerOK'
  BY <1>1 DEF PipeTypes, InOrder, CallerOK
<1>4. ProducerOK' /\ Apart'
  BY <1>1, <1>2 DEF PipeTypes, ProducerOK, Apart, Taken
<1> QED  BY <1>2, <1>3, <1>4

(* The hand-over: what the caller takes is the next chunk in order.          *)
LEMMA HandOverStep == PipeInv /\ HandOver => PipeInv'
<1> SUFFICES ASSUME PipeInv, HandOver PROVE PipeInv'
  OBVIOUS
<1> USE DEF PipeInv
<1>1. DoneOK' /\ (Told' <=> Told) /\ (SaidNil' <=> SaidNil)
  BY DoneKept DEF HandOver
<1>2. PipeTypes' /\ InOrder'
  BY DEF HandOver, PipeTypes, InOrder, ProducerOK
<1>3. ProducerOK'
  BY <1>1 DEF HandOver, PipeTypes, ProducerOK
<1>4. CallerOK' /\ Apart'
  BY <1>1 DEF HandOver, PipeTypes, ProducerOK, CallerOK, Apart, Taken
<1> QED  BY <1>1, <1>2, <1>3, <1>4

(* An inference appends the vectors of the chunk taken, or ends the call.    *)
LEMMA InferStep == PipeInv /\ Infer => PipeInv'
<1> SUFFICES ASSUME PipeInv, Infer PROVE PipeInv'
  OBVIOUS
<1> USE DEF PipeInv
<1>1. DoneOK' /\ (Told' <=> Told) /\ (SaidNil' <=> SaidNil)
  BY DoneKept DEF Infer, producerVars
<1>2. /\ UNCHANGED <<producer, produced, offered, closedOff>>
      /\ consumer = "check" /\ received' = 0
  BY DEF Infer, producerVars
<1>3. ProducerOK'
  BY <1>1, <1>2 DEF PipeTypes, ProducerOK
<1>4. ASSUME inferred' = Append(inferred, received), consumer' = "range", UNCHANGED reply
      PROVE  PipeInv'
  <2>1. Len(inferred') = Len(inferred) + 1 /\ inferred' \in Seq(Nat)
    <3>1. received \in Nat
      BY DEF PipeTypes
    <3> HIDE DEF PipeInv
    <3> QED  BY <1>4, <3>1, Bounds
  <2>2. InOrder'
    BY <1>2, <1>4, <2>1 DEF PipeTypes, InOrder, CallerOK
  <2>3. PipeTypes'
    BY <1>2, <1>4, <2>1 DEF PipeTypes
  <2>4. CallerOK' /\ Apart'
    BY <1>1, <1>2, <1>4, <2>1 DEF PipeTypes, CallerOK, Apart, Taken
  <2> QED  BY <1>1, <1>3, <2>2, <2>3, <2>4
<1>5. ASSUME UNCHANGED inferred, consumer' = "stop", reply' \in {"cancelled", "run error"}
      PROVE  PipeInv'
  <2>1. PipeTypes' /\ InOrder' /\ CallerOK'
    BY <1>2, <1>5 DEF PipeTypes, InOrder, CallerOK
  <2>2. Apart'
    <3>1. produced <= Taken + 1 /\ Taken = Len(inferred) + 1
      BY <1>2 DEF Apart, Taken
    <3>2. producer = "produce" => produced = Taken
      BY <1>2 DEF Apart
    <3>3. Taken' = Len(inferred)
      <4>1. Len(inferred) \in Nat /\ inferred' = inferred /\ consumer' = "stop"
        BY <1>5, Bounds
      <4> HIDE DEF PipeInv
      <4>2. Taken' = Len(inferred') + 0
        BY <4>1 DEF Taken
      <4> QED  BY <4>1, <4>2
    <3>4. /\ Taken' <= produced' /\ produced' <= Len(inferred') + 2
          /\ producer' = "produce" => produced' <= Len(inferred') + 1
      <4>1. Len(inferred) \in Nat /\ produced \in Nat /\ Taken \in Nat /\ Taken <= produced
        BY Bounds
      <4>2. produced' = produced /\ producer' = producer /\ Len(inferred') = Len(inferred)
        BY <1>2, <1>5
      <4> HIDE DEF PipeInv
      <4> QED  BY <3>1, <3>2, <3>3, <4>1, <4>2
    <3> QED  BY <1>5, <3>4 DEF Apart
  <2> QED  BY <1>1, <1>3, <2>1, <2>2
<1> QED  BY <1>4, <1>5 DEF Infer

(* The range over items ends when they are closed: the producer has ended.   *)
LEMMA RangeEndsStep == PipeInv /\ RangeEnds => PipeInv'
<1> SUFFICES ASSUME PipeInv, RangeEnds PROVE PipeInv'
  OBVIOUS
<1> USE DEF PipeInv
<1>1. /\ UNCHANGED <<producer, produced, offered, doneCh, closedOff, received, inferred, reply>>
      /\ consumer = "range" /\ consumer' = "stop" /\ producer = "ended"
  BY DEF RangeEnds, producerVars, ProducerOK
<1>2. DoneOK' /\ (Told' <=> Told) /\ (SaidNil' <=> SaidNil)
  BY <1>1, DoneKept
<1>3. PipeTypes' /\ InOrder' /\ CallerOK' /\ ProducerOK'
  BY <1>1, <1>2 DEF PipeTypes, InOrder, CallerOK, ProducerOK
<1>4. Apart'
  BY <1>1, <1>2 DEF PipeTypes, CallerOK, Apart, Taken
<1> QED  BY <1>2, <1>3, <1>4

(* stop joins the producer; the verdict nil is the only one that turns into  *)
(* vectors.                                                                  *)
LEMMA JoinStep == PipeInv /\ Join => PipeInv'
<1> SUFFICES ASSUME PipeInv, Join PROVE PipeInv'
  OBVIOUS
<1> USE DEF PipeInv
<1>1. /\ UNCHANGED <<producer, produced, offered, doneCh, closedOff, received, inferred>>
      /\ consumer = "stop" /\ consumer' = "returned"
  BY DEF Join, producerVars
<1>2. DoneOK' /\ (Told' <=> Told) /\ (SaidNil' <=> SaidNil) /\ Told
  BY <1>1, DoneKept DEF Join, Told
<1>3. PICK v \in Verdicts : doneCh = <<v>>
  BY DEF Join, DoneOK
<1>4. doneCh[1] = v /\ (SaidNil <=> v = "nil")
  BY <1>3 DEF SaidNil
<1>5. reply' = IF reply # "none" THEN reply ELSE IF v = "nil" THEN "vectors" ELSE v
  BY <1>4 DEF Join
<1>6. reply' \in {"vectors", "cancelled", "run error", "tokenizer error"}
  BY <1>5 DEF PipeTypes, Verdicts
<1>7. reply' = "vectors" => reply = "none" /\ SaidNil
  BY <1>1, <1>4, <1>5 DEF CallerOK, Verdicts
<1>8. PipeTypes' /\ InOrder' /\ ProducerOK'
  BY <1>1, <1>2, <1>6 DEF PipeTypes, InOrder, ProducerOK
<1>9. CallerOK' /\ Apart'
  BY <1>1, <1>2, <1>6, <1>7 DEF PipeTypes, ProducerOK, CallerOK, Apart, Taken
<1> QED  BY <1>2, <1>8, <1>9

(* Cancellation, of either context, moves nobody by itself.                  *)
LEMMA CancelStep ==
    ASSUME PipeInv, Cancel \/ CtxCancelled \/ UNCHANGED pipeVars
    PROVE  PipeInv'
<1> USE DEF PipeInv
<1>1. UNCHANGED <<producer, produced, offered, doneCh, closedOff, consumer, received, inferred, reply>>
  BY DEF Cancel, CtxCancelled, pipeVars, producerVars, callerVars
<1>2. DoneOK' /\ (Told' <=> Told) /\ (SaidNil' <=> SaidNil)
  BY <1>1, DoneKept
<1>3. PipeTypes' /\ InOrder' /\ CallerOK' /\ ProducerOK' /\ Apart'
  BY <1>1, <1>2 DEF PipeTypes, InOrder, CallerOK, ProducerOK, Apart, Taken
<1> QED  BY <1>2, <1>3

(* embedFixedPipeline returns vectors only for the whole call and in order,  *)
(* has joined its producer when it returns, and never lets it run more than  *)
(* a chunk ahead: for any number of chunks, wherever the tokenizer or a run  *)
(* fails and whenever the context is cancelled.                              *)
THEOREM PipelineCorrect == PipeSpec => []BatchesWhole
<1>1. PipeInv /\ [PipeNext]_pipeVars => PipeInv'
  BY ProduceStep, SelectStoppedStep, CloseItemsStep, HandOverStep, InferStep, RangeEndsStep, JoinStep,
     CancelStep DEF PipeNext, PipeSteps
<1>2. PipeInv => BatchesWhole
  <2> SUFFICES ASSUME PipeInv PROVE BatchesWhole
    OBVIOUS
  <2>1. DoneOK /\ PipeTypes /\ InOrder /\ ProducerOK /\ CallerOK /\ Apart
    BY DEF PipeInv
  <2>2. Len(doneCh) <= 1
    <3>1. CASE doneCh = <<>>
      BY <3>1
    <3>2. ASSUME NEW v \in Verdicts, doneCh = <<v>> PROVE Len(doneCh) <= 1
      BY <3>2
    <3> QED  BY <2>1, <3>1, <3>2 DEF DoneOK
  <2>3. offered \in 0..MaxChunks /\ received \in 0..MaxChunks
    <3>1. offered \in 0..MaxChunks
      BY <2>1, Bounds DEF ProducerOK
    <3>2. received = 0 \/ received = Taken
      BY <2>1 DEF CallerOK, Taken
    <3> QED  BY <3>1, <3>2, Bounds
  <2>4. PipeTypeOK
    <3>1. /\ producer \in {"produce", "select", "close", "ended"}
          /\ consumer \in {"range", "check", "stop", "returned"}
      BY <2>1 DEF PipeTypes
    <3>2. produced \in 0..MaxChunks /\ Len(inferred) <= MaxChunks
      BY Bounds
    <3> QED  BY <2>2, <2>3, <3>1, <3>2 DEF PipeTypeOK
  <2>5. VectorsAreWhole
    BY <2>1, Bounds DEF PipeTypes, InOrder, CallerOK, VectorsAreWhole
  <2>6. produced <= Len(inferred) + 2
    <3>1. consumer \in {"range", "check"} \/ consumer \in {"stop", "returned"}
      BY <2>1 DEF PipeTypes
    <3>2. CASE consumer \in {"range", "check"}
      <4>1. produced <= Taken + 1
        BY <2>1, <3>2 DEF Apart
      <4> QED  BY <4>1, Bounds
    <3>3. CASE consumer \in {"stop", "returned"}
      BY <2>1, <3>3 DEF Apart
    <3> QED  BY <3>1, <3>2, <3>3
  <2>7. ProducerJoined
    BY <2>1, <2>6 DEF CallerOK, ProducerJoined
  <2> QED  BY <2>4, <2>5, <2>7 DEF BatchesWhole
<1> QED  BY PipeInitOK, <1>1, <1>2, PTL DEF PipeSpec

-----------------------------------------------------------------------------
(* Executors and their tables.                                               *)
SetupSpec == SetupInit /\ [][SetupNext]_setupVars

ResolvedOptions ==
    [emitter : {"noop", "custom"}, hitl : {"noop", "custom"}, watchdogInterval : {"default", "custom"},
     toolCallTimeout : {"zero", "custom"}, circuitBreaker : {"default"}, pauseChecker : {Nil},
     streaming : {"zero"}]

(* An executor that was built owns its tables: its own entry of tables and,  *)
(* once it has limits, its own entry of limits.                              *)
Fields(e) ==
    [built : {TRUE}, opts : ResolvedOptions, nonCacheable : {e}, trunc : {Nil, e},
     exempt : SUBSET (ToolNames \cup DefaultNames), stop : SUBSET ToolNames]

ConfOK ==
    /\ DOMAIN conf = Executors
    /\ \A e \in Executors : conf[e] = Unbuilt \/ conf[e] \in Fields(e)

TablesOK ==
    /\ DOMAIN tables = Executors \cup {"pkg"} /\ DOMAIN limits = Executors \cup {"caller"}
    /\ DOMAIN added = Executors /\ DOMAIN agreed = Executors
    /\ tables["pkg"] = DefaultNames
    /\ \A e \in Executors :
         /\ conf[e] = Unbuilt => added[e] = {}
         /\ conf[e] # Unbuilt => tables[e] = DefaultNames \cup added[e]
         /\ conf[e] # Unbuilt /\ conf[e].trunc # Nil => limits[e] = agreed[e]

SetupInv == ConfOK /\ TablesOK

(* No options: FoldLeft over the empty sequence is its base, so the defaults *)
(* are what an executor starts from.                                         *)
LEMMA ResolveNone == Resolve(<<>>) \in ResolvedOptions
<1> DEFINE Folded == FoldLeft(LAMBDA acc, opt : [acc EXCEPT ![opt.field] = opt.value], ZeroOptions, <<>>)
           F(iter) == [s \in SUBSET (DOMAIN <<>>) |->
                       IF s = {} THEN ZeroOptions
                       ELSE [iter[s \ {Max(s)}] EXCEPT ![(<<>>[Max(s)]).field] = (<<>>[Max(s)]).value]]
           h == CHOOSE iter : iter = F(iter)
<1>1. DOMAIN <<>> = {}
  OBVIOUS
<1>2. F([s \in SUBSET (DOMAIN <<>>) |-> ZeroOptions]) = [s \in SUBSET (DOMAIN <<>>) |-> ZeroOptions]
  BY <1>1
<1>3. \E iter : iter = F(iter)
  BY <1>2
<1>4. h = F(h)
  BY <1>3
<1>5. h[{}] = ZeroOptions
  BY <1>4, <1>1
<1>6. Folded = h[DOMAIN <<>>]
  BY Zenon DEF FoldLeft, MapThenFoldSet
<1>7. Folded = ZeroOptions
  BY <1>1, <1>5, <1>6
<1> HIDE DEF Folded
<1>8. Resolve(<<>>) =
        [Folded EXCEPT !.emitter = IF @ = Nil THEN "noop" ELSE @, !.hitl = IF @ = Nil THEN "noop" ELSE @,
                       !.watchdogInterval = IF @ \in {"zero", "negative"} THEN "default" ELSE @]
  BY Zenon DEF Resolve, Folded
<1> QED  BY <1>7, <1>8 DEF ZeroOptions, ResolvedOptions, Nil

LEMMA BuiltFacts ==
    ASSUME SetupInv, NEW e \in Executors
    PROVE  /\ conf[e].built <=> conf[e] # Unbuilt
           /\ conf[e].built => conf[e] \in Fields(e)
<1>1. Unbuilt.built = FALSE
  BY DEF Unbuilt
<1>2. \A c \in Fields(e) : c.built = TRUE
  BY DEF Fields
<1> QED  BY <1>1, <1>2 DEF SetupInv, ConfOK

(* A setter leaves the executor with the fields of one that was built.       *)
LEMMA ConfStep ==
    ASSUME SetupInv, NEW e \in Executors, NEW c \in Fields(e), conf' = [conf EXCEPT ![e] = c]
    PROVE  /\ ConfOK' /\ conf'[e] = c /\ c # Unbuilt
           /\ \A x \in Executors \ {e} : conf'[x] = conf[x]
<1>1. c # Unbuilt
  <2>1. c.built = TRUE /\ Unbuilt.built = FALSE
    BY DEF Fields, Unbuilt
  <2> QED  BY <2>1
<1>2. DOMAIN conf' = Executors /\ conf'[e] = c /\ \A x \in Executors \ {e} : conf'[x] = conf[x]
  BY DEF SetupInv, ConfOK
<1>3. ConfOK'
  BY <1>2 DEF SetupInv, ConfOK, Fields
<1> QED  BY <1>1, <1>2, <1>3

LEMMA NewExecutorStep ==
    ASSUME SetupInv, NEW e \in Executors, NewExecutor(e, <<>>)
    PROVE  SetupInv'
<1> DEFINE c == [built |-> TRUE, opts |-> Resolve(<<>>), nonCacheable |-> e,
                 exempt |-> DefaultNames, stop |-> {}, trunc |-> Nil]
<1>1. c \in Fields(e)
  <2> HIDE DEF Resolve
  <2> QED  BY ResolveNone DEF Fields
<1>2. c.trunc = Nil
  OBVIOUS
<1>3. conf' = [conf EXCEPT ![e] = c] /\ tables' = [tables EXCEPT ![e] = tables["pkg"]]
      /\ UNCHANGED <<limits, added, agreed>>
  BY DEF NewExecutor
<1> HIDE DEF c
<1>4. /\ ConfOK' /\ conf'[e] = c /\ c # Unbuilt
      /\ \A x \in Executors \ {e} : conf'[x] = conf[x]
  BY <1>1, <1>3, ConfStep
<1>5. conf[e] = Unbuilt
  BY BuiltFacts DEF NewExecutor
<1>6. TablesOK'
  BY <1>2, <1>3, <1>4, <1>5, ExecutorSetupAssumption DEF SetupInv, TablesOK
<1> QED  BY <1>4, <1>6 DEF SetupInv

(* The setters of one field.                                                 *)
LEMMA FieldSteps ==
    ASSUME SetupInv, NEW e \in Executors,
           NEW c \in Fields(e), conf[e].built, c.trunc = conf[e].trunc,
           conf' = [conf EXCEPT ![e] = c], UNCHANGED <<tables, limits, added, agreed>>
    PROVE  SetupInv'
<1>1. /\ ConfOK' /\ conf'[e] = c /\ c # Unbuilt
      /\ \A x \in Executors \ {e} : conf'[x] = conf[x]
  BY ConfStep
<1>2. conf[e] # Unbuilt
  BY BuiltFacts
<1>3. TablesOK'
  BY <1>1, <1>2 DEF SetupInv, TablesOK
<1> QED  BY <1>1, <1>3 DEF SetupInv

LEMMA SetFieldStep ==
    ASSUME SetupInv, NEW e \in Executors, NEW o \in ExecutorOptions,
           o.field \in {"hitl", "toolCallTimeout"}, SetField(e, o)
    PROVE  SetupInv'
<1> DEFINE v == IF o.field = "hitl" /\ o.value = Nil THEN "noop" ELSE o.value
           c == [conf[e] EXCEPT !.opts = [@ EXCEPT ![o.field] = v]]
<1>1. conf[e].built /\ UNCHANGED <<tables, limits, added, agreed>>
  BY DEF SetField
<1>2. conf[e] \in Fields(e) /\ conf[e].opts \in ResolvedOptions
  BY <1>1, BuiltFacts DEF Fields
<1>3. \/ o.field = "hitl" /\ v \in {"noop", "custom"}
      \/ o.field = "toolCallTimeout" /\ v = "custom"
  BY DEF ExecutorOptions, Nil
<1>4. conf' = [conf EXCEPT ![e] = c]
  BY DEF SetField
<1> HIDE DEF v
<1>5. [conf[e].opts EXCEPT ![o.field] = v] \in ResolvedOptions
  <2>1. CASE o.field = "hitl" /\ v \in {"noop", "custom"}
    BY <1>2, <2>1 DEF ResolvedOptions
  <2>2. CASE o.field = "toolCallTimeout" /\ v = "custom"
    BY <1>2, <2>2 DEF ResolvedOptions
  <2> QED  BY <1>3, <2>1, <2>2
<1>6. c \in Fields(e) /\ c.trunc = conf[e].trunc
  BY <1>2, <1>5 DEF Fields
<1> HIDE DEF c
<1> QED  BY <1>1, <1>4, <1>6, FieldSteps

LEMMA NameSetSteps ==
    ASSUME SetupInv, NEW e \in Executors, NEW names \in SUBSET (ToolNames \cup {Empty}),
           SetStopTools(e, names) \/ SetToolCallTimeoutExempt(e, names)
    PROVE  SetupInv'
<1>1. conf[e].built /\ UNCHANGED <<tables, limits, added, agreed>>
  BY DEF SetStopTools, SetToolCallTimeoutExempt
<1>2. conf[e] \in Fields(e)
  BY <1>1, BuiltFacts
<1>3. names \ {Empty} \in SUBSET ToolNames /\ names \ {Empty} \in SUBSET (ToolNames \cup DefaultNames)
  OBVIOUS
<1>4. CASE SetStopTools(e, names)
  <2> DEFINE c == [conf[e] EXCEPT !.stop = names \ {Empty}]
  <2>1. conf' = [conf EXCEPT ![e] = c]
    BY <1>4 DEF SetStopTools
  <2>2. c \in Fields(e) /\ c.trunc = conf[e].trunc
    BY <1>2, <1>3 DEF Fields
  <2> HIDE DEF c
  <2> QED  BY <1>1, <2>1, <2>2, FieldSteps
<1>5. CASE SetToolCallTimeoutExempt(e, names)
  <2> DEFINE c == [conf[e] EXCEPT !.exempt = names \ {Empty}]
  <2>1. conf' = [conf EXCEPT ![e] = c]
    BY <1>5 DEF SetToolCallTimeoutExempt
  <2>2. c \in Fields(e) /\ c.trunc = conf[e].trunc
    BY <1>2, <1>3 DEF Fields
  <2> HIDE DEF c
  <2> QED  BY <1>1, <2>1, <2>2, FieldSteps
<1> QED  BY <1>4, <1>5

(* Names go into the executor's own table and into no other.                 *)
LEMMA AddNamesStep ==
    ASSUME SetupInv, NEW e \in Executors, NEW n, AddNonCacheableTools(e, {n})
    PROVE  SetupInv'
<1>1. conf[e].built /\ conf[e].nonCacheable = e /\ conf[e] # Unbuilt
  BY BuiltFacts DEF AddNonCacheableTools, Fields
<1>2. /\ tables' = [tables EXCEPT ![e] = @ \cup {n}] /\ added' = [added EXCEPT ![e] = @ \cup {n}]
      /\ UNCHANGED <<conf, limits, agreed>>
  BY <1>1 DEF AddNonCacheableTools
<1>3. /\ DOMAIN tables' = Executors \cup {"pkg"} /\ DOMAIN added' = Executors
      /\ tables'["pkg"] = tables["pkg"]
      /\ tables'[e] = tables[e] \cup {n} /\ added'[e] = added[e] \cup {n}
      /\ \A x \in Executors \ {e} : tables'[x] = tables[x] /\ added'[x] = added[x]
  BY <1>2, ExecutorSetupAssumption DEF SetupInv, TablesOK
<1>4. TablesOK'
  <2>1. tables[e] = DefaultNames \cup added[e]
    BY <1>1 DEF SetupInv, TablesOK
  <2>2. tables'[e] = DefaultNames \cup added'[e]
    BY <1>3, <2>1
  <2> QED  BY <1>1, <1>2, <1>3, <2>2 DEF SetupInv, TablesOK
<1> QED  BY <1>2, <1>4 DEF SetupInv, ConfOK

(* The caller's limits are copied when they are set.                         *)
LEMMA TruncationStep ==
    ASSUME SetupInv, NEW e \in Executors, SetPerToolTruncation(e)
    PROVE  SetupInv'
<1> DEFINE c == [conf[e] EXCEPT !.trunc = e]
<1>1. conf[e].built /\ conf[e] \in Fields(e) /\ conf[e] # Unbuilt
  BY BuiltFacts DEF SetPerToolTruncation
<1>2. /\ conf' = [conf EXCEPT ![e] = c] /\ limits' = [limits EXCEPT ![e] = limits["caller"]]
      /\ agreed' = [agreed EXCEPT ![e] = limits["caller"]] /\ UNCHANGED <<tables, added>>
  BY DEF SetPerToolTruncation
<1>3. c \in Fields(e)
  BY <1>1 DEF Fields
<1> HIDE DEF c
<1>4. /\ ConfOK' /\ conf'[e] = c /\ c # Unbuilt
      /\ \A x \in Executors \ {e} : conf'[x] = conf[x]
  BY <1>2, <1>3, ConfStep
<1>5. /\ DOMAIN limits' = Executors \cup {"caller"} /\ DOMAIN agreed' = Executors
      /\ limits'[e] = agreed'[e]
      /\ \A x \in Executors \ {e} : limits'[x] = limits[x] /\ agreed'[x] = agreed[x]
  BY <1>2 DEF SetupInv, TablesOK
<1>6. TablesOK'
  BY <1>1, <1>2, <1>4, <1>5 DEF SetupInv, TablesOK
<1> QED  BY <1>4, <1>6 DEF SetupInv

(* What the caller does to its own map afterwards reaches nobody.            *)
LEMMA CallerStep ==
    ASSUME SetupInv, NEW names, CallerChangesTable(names)
    PROVE  SetupInv'
<1>1. /\ UNCHANGED <<conf, tables, added, agreed>> /\ DOMAIN limits' = Executors \cup {"caller"}
      /\ \A x \in Executors : limits'[x] = limits[x]
  BY ExecutorSetupAssumption DEF CallerChangesTable, SetupInv, TablesOK
<1> QED  BY <1>1 DEF SetupInv, ConfOK, TablesOK

(* For any set of executors and tools: whatever is set on one executor, or   *)
(* changed by the caller in the map it passed, shows up in no other executor *)
(* and not in the package's table, and no nil handler, empty name or missing *)
(* default gets into an executor.                                            *)
THEOREM SetupCorrect == SetupSpec => []SetupSound
<1>1. SetupInit => SetupInv
  BY DEF SetupInit, SetupInv, ConfOK, TablesOK
<1>2. SetupInv /\ [SetupNext]_setupVars => SetupInv'
  <2> SUFFICES ASSUME SetupInv, [SetupNext]_setupVars PROVE SetupInv'
    OBVIOUS
  <2>1. CASE UNCHANGED setupVars
    BY <2>1 DEF setupVars, SetupInv, ConfOK, TablesOK
  <2> QED  BY <2>1, NewExecutorStep, SetFieldStep, NameSetSteps, AddNamesStep, TruncationStep, CallerStep
           DEF SetupNext
<1>3. SetupInv => SetupSound
  <2> SUFFICES ASSUME SetupInv PROVE SetupSound
    OBVIOUS
  <2>1. tables["pkg"] = DefaultNames
    BY DEF SetupInv, TablesOK
  <2>2. ASSUME NEW e \in Executors, conf[e].built
        PROVE  /\ conf[e].stop \subseteq ToolNames /\ conf[e].exempt \subseteq ToolNames \cup DefaultNames
               /\ conf[e].opts \in ResolvedOptions /\ conf[e].nonCacheable = e
               /\ conf[e].trunc # Nil => conf[e].trunc = e
    BY <2>2, BuiltFacts DEF Fields
  <2>3. SetupTypeOK
    BY <2>2 DEF SetupTypeOK, ResolvedOptions
  <2>4. ExecutorsIndependent
    BY <2>1, <2>2, BuiltFacts DEF ExecutorsIndependent, SetupInv, TablesOK
  <2> QED  BY <2>3, <2>4 DEF SetupSound
<1> QED  BY <1>1, <1>2, <1>3, PTL DEF SetupSpec

-----------------------------------------------------------------------------
(* The board and the dump files.                                             *)
BoardSpec == BoardInit /\ [][BoardNext]_boardVars

StepResults == [output : {NoText, "text"}, err : Errors]
ResultsOK ==
    /\ DOMAIN results = StepIds
    /\ \A s \in StepIds : results[s] = <<>> \/ \E r \in StepResults : results[s] = <<r>>

(* Attachments have distinct ids, and the ghost map says the same as the     *)
(* list.                                                                     *)
Attachment == [id : AttachmentIds, content : Contents]
AttachOK ==
    /\ attachments \in Seq(Attachment)
    /\ \A i, j \in 1..Len(attachments) : attachments[i].id = attachments[j].id => i = j
    /\ DOMAIN attached = AttachmentIds
    /\ \A i \in 1..Len(attachments) : attached[attachments[i].id] = attachments[i].content
    /\ \A id \in AttachmentIds : attached[id] # "none" => \E i \in 1..Len(attachments) : attachments[i].id = id
    /\ Len(attachments) <= MaxAttachments

DumpsOK ==
    /\ dumps \in [files : SUBSET DumpNames, closed : BOOLEAN]
    /\ dumps.closed => dumps.files = {}
    /\ DOMAIN handles = DumpNames
    /\ \A n \in DumpNames : handles[n] = IF n \in dumps.files THEN 1 ELSE 0

BoardInv == ResultsOK /\ AttachOK /\ DumpsOK

(* The index of an attachment: 0 when there is none, and else the one place  *)
(* where it is.                                                              *)
LEMMA IndexFacts ==
    ASSUME AttachOK, NEW id
    PROVE  \/ IndexOf(id) = 0 /\ \A i \in 1..Len(attachments) : attachments[i].id # id
           \/ IndexOf(id) \in 1..Len(attachments) /\ attachments[IndexOf(id)].id = id
<1> DEFINE I == {i \in 1..Len(attachments) : attachments[i].id = id}
<1>1. IndexOf(id) = IF I # {} THEN Min(I) ELSE 0
  BY DEF IndexOf, SelectInSeq
<1>2. CASE I = {}
  BY <1>1, <1>2
<1>3. ASSUME NEW k \in I
      PROVE  IndexOf(id) = k
  <2>1. I = {k}
    BY <1>3 DEF AttachOK
  <2>2. k <= k
    BY <1>3 DEF AttachOK
  <2>3. Min(I) = k
    BY <2>1, <2>2 DEF Min
  <2> QED  BY <1>1, <1>3, <2>3
<1> QED  BY <1>2, <1>3

LEMMA ResultStep == BoardInv /\ SetStepResult => BoardInv'
<1> SUFFICES ASSUME BoardInv, SetStepResult PROVE BoardInv'
  OBVIOUS
<1>1. PICK s \in StepIds, o \in {NoText, "text"}, e \in Errors :
          results' = [results EXCEPT ![s] = <<[output |-> o, err |-> e]>>]
  BY DEF SetStepResult
<1>2. [output |-> o, err |-> e] \in StepResults
  BY DEF StepResults
<1>3. ResultsOK'
  BY <1>1, <1>2 DEF BoardInv, ResultsOK
<1> QED  BY <1>3 DEF SetStepResult, BoardInv, AttachOK, DumpsOK

(* An attachment is appended, or replaces the one with its id.               *)
LEMMA AddStep == BoardInv /\ AddAttachment => BoardInv'
<1> SUFFICES ASSUME BoardInv, AddAttachment PROVE BoardInv'
  OBVIOUS
<1>1. PICK id \in AttachmentIds, c \in Contents :
          /\ attachments' = Added([id |-> id, content |-> c])
          /\ attached' = [attached EXCEPT ![id] = c]
  BY DEF AddAttachment
<1> DEFINE a == [id |-> id, content |-> c]
           n == Len(attachments)
<1>2. a \in Attachment /\ a.id = id /\ a.content = c
  BY DEF Attachment
<1>3. AttachOK /\ attachments \in Seq(Attachment) /\ n \in Nat /\ n < MaxAttachments /\ MaxAttachments \in Nat
  BY WorkBoardAssumption DEF BoardInv, AttachOK, AddAttachment
<1>4. /\ DOMAIN attached' = AttachmentIds /\ attached'[id] = c
      /\ \A x \in AttachmentIds \ {id} : attached'[x] = attached[x]
  BY <1>1 DEF BoardInv, AttachOK
<1>5. \A i \in 1..n : attachments[i] \in Attachment /\ attachments[i].id \in AttachmentIds
  <2>1. \A i \in 1..n : attachments[i] \in Attachment
    BY <1>3
  <2> QED  BY <2>1 DEF Attachment
<1> HIDE DEF a
<1>6. ASSUME IndexOf(id) = 0 PROVE AttachOK'
  <2>1. attachments' = Append(attachments, a) /\ \A i \in 1..n : attachments[i].id # id
    <3>1. attachments' = Append(attachments, a)
      BY <1>1, <1>2, <1>6 DEF Added, a
    <3> QED  BY <1>3, <1>6, <3>1, IndexFacts
  <2>2. /\ attachments' \in Seq(Attachment) /\ Len(attachments') = n + 1 /\ attachments'[n + 1] = a
        /\ \A i \in 1..n : attachments'[i] = attachments[i]
    BY <1>2, <1>3, <2>1
  <2>3. \A i, j \in 1..Len(attachments') : attachments'[i].id = attachments'[j].id => i = j
    BY <1>2, <1>3, <2>1, <2>2 DEF AttachOK
  <2>4. \A i \in 1..Len(attachments') : attached'[attachments'[i].id] = attachments'[i].content
    BY <1>2, <1>3, <1>4, <1>5, <2>1, <2>2 DEF AttachOK
  <2>5. \A x \in AttachmentIds : attached'[x] # "none" => \E i \in 1..Len(attachments') : attachments'[i].id = x
    BY <1>2, <1>3, <1>4, <2>2 DEF AttachOK
  <2>6. Len(attachments') <= MaxAttachments
    BY <1>3, <2>2
  <2> HIDE DEF n
  <2> QED  BY <1>4, <2>2, <2>3, <2>4, <2>5, <2>6, Zenon DEF AttachOK
<1>7. ASSUME NEW k \in 1..n, IndexOf(id) = k, attachments[k].id = id
      PROVE  AttachOK'
  <2>1. attachments' = [attachments EXCEPT ![k] = a]
    <3>1. k # 0
      BY <1>3, <1>7
    <3>2. Added(a) = [attachments EXCEPT ![k] = a]
      BY <1>2, <1>7, <3>1 DEF Added
    <3> QED  BY <1>1, <3>2 DEF a
  <2>2. /\ attachments' \in Seq(Attachment) /\ Len(attachments') = n /\ attachments'[k] = a
        /\ \A i \in 1..n : i # k => attachments'[i] = attachments[i]
    BY <1>2, <1>3, <1>7, <2>1
  <2>3. \A i \in 1..n : attachments'[i].id = attachments[i].id
    BY <1>2, <1>7, <2>2
  <2>4. \A i, j \in 1..Len(attachments') : attachments'[i].id = attachments'[j].id => i = j
    BY <1>3, <2>2, <2>3 DEF AttachOK
  <2>5. \A i \in 1..n : i # k => attachments[i].id # id
    BY <1>3, <1>7 DEF AttachOK
  <2>6. \A i \in 1..Len(attachments') : attached'[attachments'[i].id] = attachments'[i].content
    BY <1>2, <1>3, <1>4, <1>5, <2>2, <2>5 DEF AttachOK
  <2>7. \A x \in AttachmentIds : attached'[x] # "none" => \E i \in 1..Len(attachments') : attachments'[i].id = x
    BY <1>3, <1>4, <1>7, <2>2, <2>3 DEF AttachOK
  <2> QED  BY <1>3, <1>4, <2>2, <2>4, <2>6, <2>7 DEF AttachOK
<1>8. AttachOK'
  <2>1. IndexOf(id) = 0 \/ (IndexOf(id) \in 1..n /\ attachments[IndexOf(id)].id = id)
    BY <1>3, IndexFacts
  <2> QED  BY <2>1, <1>6, <1>7
<1> QED  BY <1>8 DEF AddAttachment, BoardInv, ResultsOK, DumpsOK

(* Removing the one attachment with an id closes the gap.                    *)
LEMMA RemovedFacts ==
    ASSUME NEW S, NEW s \in Seq(S), NEW k \in 1..Len(s)
    PROVE  LET t == RemoveAt(s, k) IN
           /\ t \in Seq(S) /\ Len(t) = Len(s) - 1
           /\ \A i \in 1..Len(t) : t[i] = s[IF i < k THEN i ELSE i + 1]
<1> DEFINE u == SubSeq(s, 1, k - 1)
           w == SubSeq(s, k + 1, Len(s))
           n == Len(s)
<1>0. n \in Nat /\ k \in Nat /\ 1 <= k /\ k <= n
  OBVIOUS
<1>1. u \in Seq(S) /\ Len(u) = k - 1 /\ \A i \in 1..(k - 1) : u[i] = s[i]
  BY <1>0
<1>2. w \in Seq(S) /\ Len(w) = n - k /\ \A i \in 1..(n - k) : w[i] = s[k + i]
  BY <1>0
<1>3. RemoveAt(s, k) = u \o w
  BY DEF RemoveAt
<1> HIDE DEF u, w
<1>4. u \o w \in Seq(S) /\ Len(u \o w) = n - 1
  <2>1. u \in Seq(S) /\ w \in Seq(S)
    BY <1>1, <1>2
  <2>2. u \o w \in Seq(S) /\ Len(u \o w) = Len(u) + Len(w)
    BY <2>1
  <2>3. Len(u) = k - 1 /\ Len(w) = n - k
    BY <1>1, <1>2
  <2> QED  BY <1>0, <2>2, <2>3
<1>5. ASSUME NEW i \in 1..(n - 1) PROVE (u \o w)[i] = s[IF i < k THEN i ELSE i + 1]
  <2>1. CASE i < k
    BY <1>0, <1>1, <1>2, <1>5, <2>1
  <2>2. CASE i >= k
    <3>1. i - (k - 1) \in 1..(n - k) /\ k + (i - (k - 1)) = i + 1 /\ ~(i < k)
      BY <1>0, <1>5, <2>2
    <3>2. (u \o w)[i] = w[i - Len(u)]
      BY <1>0, <1>1, <1>2, <1>5, <2>2
    <3>3. w[i - (k - 1)] = s[k + (i - (k - 1))]
      BY <1>2, <3>1
    <3> QED  BY <1>1, <3>1, <3>2, <3>3
  <2>3. i < k \/ i >= k
    BY <1>0, <1>5
  <2> QED  BY <2>1, <2>2, <2>3
<1> QED  BY <1>3, <1>4, <1>5

LEMMA RemoveStep == BoardInv /\ RemoveAttachment => BoardInv'
<1> SUFFICES ASSUME BoardInv, RemoveAttachment PROVE BoardInv'
  OBVIOUS
<1>1. PICK id \in AttachmentIds :
          /\ attachments' = IF IndexOf(id) = 0 THEN attachments ELSE RemoveAt(attachments, IndexOf(id))
          /\ attached' = [attached EXCEPT ![id] = "none"]
  BY DEF RemoveAttachment
<1> DEFINE n == Len(attachments)
<1>2. AttachOK /\ attachments \in Seq(Attachment) /\ n \in Nat /\ n <= MaxAttachments /\ MaxAttachments \in Nat
  BY WorkBoardAssumption DEF BoardInv, AttachOK
<1>3. /\ DOMAIN attached' = AttachmentIds /\ attached'[id] = "none"
      /\ \A x \in AttachmentIds \ {id} : attached'[x] = attached[x]
  BY <1>1 DEF BoardInv, AttachOK
<1>4. \A i \in 1..n : attachments[i] \in Attachment /\ attachments[i].id \in AttachmentIds
  <2>1. \A i \in 1..n : attachments[i] \in Attachment
    BY <1>2
  <2> QED  BY <2>1 DEF Attachment
<1>5. ASSUME IndexOf(id) = 0 PROVE AttachOK'
  <2>1. attachments' = attachments /\ \A i \in 1..n : attachments[i].id # id
    BY <1>1, <1>2, <1>5, IndexFacts
  <2>2. \A i \in 1..n : attached'[attachments[i].id] = attachments[i].content
    BY <1>2, <1>3, <1>4, <2>1 DEF AttachOK
  <2>3. \A x \in AttachmentIds : attached'[x] # "none" => \E i \in 1..n : attachments[i].id = x
    BY <1>2, <1>3 DEF AttachOK
  <2> QED  BY <1>2, <1>3, <2>1, <2>2, <2>3, Zenon DEF AttachOK
<1>6. ASSUME NEW k \in 1..n, IndexOf(id) = k, attachments[k].id = id
      PROVE  AttachOK'
  <2> DEFINE from(i) == IF i < k THEN i ELSE i + 1
             t == RemoveAt(attachments, k)
  <2>1. attachments' = t
    BY <1>1, <1>2, <1>6
  <2>2. t \in Seq(Attachment) /\ Len(t) = n - 1 /\ \A i \in 1..Len(t) : t[i] = attachments[from(i)]
    BY <1>2, <1>6, RemovedFacts
  <2>3. \A i \in 1..(n - 1) : from(i) \in 1..n /\ from(i) # k
    BY <1>2, <1>6
  <2>4. \A i, j \in 1..(n - 1) : from(i) = from(j) => i = j
    BY <1>2, <1>6
  <2>5. \A i \in 1..n : i # k => \E j \in 1..(n - 1) : from(j) = i
    <3> SUFFICES ASSUME NEW i \in 1..n, i # k PROVE \E j \in 1..(n - 1) : from(j) = i
      OBVIOUS
    <3>1. CASE i < k
      <4>1. i \in 1..(n - 1) /\ from(i) = i
        BY <1>2, <1>6, <3>1
      <4> QED  BY <4>1
    <3>2. CASE i > k
      <4>1. i - 1 \in 1..(n - 1) /\ from(i - 1) = i
        BY <1>2, <1>6, <3>2
      <4> QED  BY <4>1
    <3> QED  BY <1>2, <1>6, <3>1, <3>2
  <2> HIDE DEF t, from
  <2>6. \A i \in 1..n : i # k => attachments[i].id # id
    BY <1>2, <1>6 DEF AttachOK
  <2>7. ASSUME NEW i \in 1..Len(t), NEW j \in 1..Len(t), t[i].id = t[j].id
        PROVE  i = j
    <3>1. i \in 1..(n - 1) /\ j \in 1..(n - 1) /\ attachments[from(i)].id = attachments[from(j)].id
      BY <2>2, <2>7
    <3>2. from(i) = from(j)
      BY <1>2, <2>3, <3>1 DEF AttachOK
    <3> QED  BY <2>4, <3>1, <3>2
  <2>8. \A i \in 1..Len(t) : attached'[t[i].id] = t[i].content
    BY <1>2, <1>3, <1>4, <2>2, <2>3, <2>6 DEF AttachOK
  <2>9. ASSUME NEW x \in AttachmentIds, attached'[x] # "none"
        PROVE  \E i \in 1..Len(t) : t[i].id = x
    <3>1. x # id /\ attached[x] # "none"
      BY <1>3, <2>9
    <3>2. PICK i \in 1..n : attachments[i].id = x
      BY <1>2, <3>1 DEF AttachOK
    <3>3. PICK j \in 1..(n - 1) : from(j) = i
      BY <1>6, <2>5, <3>1, <3>2
    <3> QED  BY <2>2, <3>2, <3>3
  <2>10. Len(t) <= MaxAttachments
    BY <1>2, <2>2
  <2> QED  BY <1>3, <2>1, <2>2, <2>7, <2>8, <2>9, <2>10 DEF AttachOK
<1>7. AttachOK'
  <2>1. IndexOf(id) = 0 \/ (IndexOf(id) \in 1..n /\ attachments[IndexOf(id)].id = id)
    BY <1>2, IndexFacts
  <2> QED  BY <2>1, <1>5, <1>6
<1> QED  BY <1>7 DEF RemoveAttachment, BoardInv, ResultsOK, DumpsOK

(* A dump file is opened once, and closed with all the others.               *)
LEMMA DumpSteps ==
    ASSUME BoardInv, OpenStepDump \/ CloseAll
    PROVE  BoardInv'
<1>1. ASSUME OpenStepDump PROVE DumpsOK'
  <2>1. PICK s \in StepIds :
            /\ ~dumps.closed /\ DumpName[s] \notin dumps.files
            /\ dumps' = [dumps EXCEPT !.files = @ \cup {DumpName[s]}]
            /\ handles' = [handles EXCEPT ![DumpName[s]] = @ + 1]
    BY <1>1 DEF OpenStepDump
  <2> DEFINE n == DumpName[s]
  <2>2. n \in DumpNames
    BY DEF DumpNames
  <2>3. dumps' \in [files : SUBSET DumpNames, closed : BOOLEAN] /\ dumps'.closed = dumps.closed
        /\ dumps'.files = dumps.files \cup {n}
    BY <2>1, <2>2 DEF BoardInv, DumpsOK
  <2>4. DOMAIN handles' = DumpNames /\ handles'[n] = 1 /\ \A m \in DumpNames \ {n} : handles'[m] = handles[m]
    <3>1. handles[n] = 0 /\ n \in DOMAIN handles
      BY <2>1, <2>2 DEF BoardInv, DumpsOK
    <3> QED  BY <2>1, <3>1 DEF BoardInv, DumpsOK
  <2> HIDE DEF n
  <2> QED  BY <2>1, <2>2, <2>3, <2>4 DEF BoardInv, DumpsOK
<1>2. ASSUME CloseAll PROVE DumpsOK'
  <2>1. /\ dumps' = [files |-> {}, closed |-> TRUE]
        /\ handles' = [n \in DumpNames |-> IF n \in dumps.files THEN handles[n] - 1 ELSE handles[n]]
    BY <1>2 DEF CloseAll
  <2>2. dumps'.files = {} /\ dumps' \in [files : SUBSET DumpNames, closed : BOOLEAN]
    BY <2>1
  <2>3. DOMAIN handles' = DumpNames /\ \A n \in DumpNames : handles'[n] = 0
    BY <2>1 DEF BoardInv, DumpsOK
  <2> QED  BY <2>2, <2>3 DEF DumpsOK
<1> QED  BY <1>1, <1>2 DEF OpenStepDump, CloseAll, BoardInv, ResultsOK, AttachOK

(* What the invariant says to the readers of the board.                      *)
LEMMA BoardReaders ==
    ASSUME BoardInv
    PROVE  BoardTold
<1>1. ASSUME NEW s \in StepIds PROVE Len(results[s]) <= 1
  <2>1. CASE results[s] = <<>>
    BY <2>1
  <2>2. ASSUME NEW r \in StepResults, results[s] = <<r>> PROVE Len(results[s]) <= 1
    BY <2>2
  <2> QED  BY <2>1, <2>2 DEF BoardInv, ResultsOK
<1>2. BoardTypeOK
  BY <1>1 DEF BoardTypeOK, BoardInv, AttachOK, DumpsOK
<1>3. ListAgreesWithGet
  <2> SUFFICES ASSUME NEW s \in StepIds
               PROVE  /\ \A text \in {"text", NoText, PausedCheckpointOutput} :
                             <<s, text>> \in ListStepOutputs <=> GetStepOutput(s) = <<text>>
                      /\ results[s] # <<>> /\ results[s][1].err = "failed" => GetStepOutput(s) = <<>>
    BY DEF ListAgreesWithGet
  <2>1. \A text : <<s, text>> \in ListStepOutputs <=>
            /\ results[s] # <<>>
            /\ \/ results[s][1].err = "nil" /\ results[s][1].output # NoText /\ text = results[s][1].output
               \/ IsPausedStepErr(results[s][1].err) /\ text = PausedCheckpointOutput
    BY DEF ListStepOutputs
  <2>2. CASE results[s] = <<>>
    <3>1. GetStepOutput(s) = <<>>
      BY <2>2 DEF GetStepOutput
    <3>2. \A text : <<text>> # <<>>
      OBVIOUS
    <3> QED  BY <2>1, <2>2, <3>1, <3>2
  <2>3. ASSUME NEW r \in StepResults, results[s] = <<r>>
        PROVE  /\ \A text \in {"text", NoText, PausedCheckpointOutput} :
                      <<s, text>> \in ListStepOutputs <=> GetStepOutput(s) = <<text>>
               /\ results[s] # <<>> /\ results[s][1].err = "failed" => GetStepOutput(s) = <<>>
    <3>1. results[s] # <<>> /\ results[s][1] = r
      BY <2>3
    <3>2. r.err \in Errors /\ r.output \in {NoText, "text"}
      BY DEF StepResults
    <3>3. GetStepOutput(s) = IF IsPausedStepErr(r.err) THEN <<PausedCheckpointOutput>>
                             ELSE IF r.err = "nil" /\ r.output # NoText THEN <<r.output>> ELSE <<>>
      BY <3>1 DEF GetStepOutput
    <3>4. /\ ~(IsPausedStepErr(r.err) /\ r.err = "nil") /\ ~(IsPausedStepErr(r.err) /\ r.err = "failed")
          /\ ~(r.err = "failed" /\ r.err = "nil")
      BY DEF IsPausedStepErr
    <3>5. \A a, b : (<<a>> = <<b>> <=> a = b) /\ <<a>> # <<>>
      OBVIOUS
    <3>6. \A text : <<s, text>> \in ListStepOutputs <=>
              \/ r.err = "nil" /\ r.output # NoText /\ text = r.output
              \/ IsPausedStepErr(r.err) /\ text = PausedCheckpointOutput
      BY <2>1, <3>1
    <3>7. CASE IsPausedStepErr(r.err)
      <4>1. GetStepOutput(s) = <<PausedCheckpointOutput>>
        BY <3>3, <3>7
      <4>2. \A text : <<s, text>> \in ListStepOutputs <=> text = PausedCheckpointOutput
        BY <3>4, <3>6, <3>7
      <4> QED  BY <3>1, <3>4, <3>5, <3>7, <4>1, <4>2
    <3>8. CASE ~IsPausedStepErr(r.err) /\ r.err = "nil" /\ r.output # NoText
      <4>1. GetStepOutput(s) = <<r.output>>
        BY <3>3, <3>8
      <4>2. \A text : <<s, text>> \in ListStepOutputs <=> text = r.output
        BY <3>6, <3>8
      <4> QED  BY <3>1, <3>4, <3>5, <3>8, <4>1, <4>2
    <3>9. CASE ~IsPausedStepErr(r.err) /\ ~(r.err = "nil" /\ r.output # NoText)
      <4>1. GetStepOutput(s) = <<>>
        BY <3>3, <3>9
      <4>2. \A text : <<s, text>> \notin ListStepOutputs
        BY <3>6, <3>9
      <4> QED  BY <3>1, <3>5, <4>1, <4>2
    <3> QED  BY <3>7, <3>8, <3>9
  <2> QED  BY <2>2, <2>3 DEF BoardInv, ResultsOK
<1>4. AttachmentsLikeAMap
  <2> DEFINE n == Len(attachments)
  <2>1. AttachOK /\ n \in Nat
    BY DEF BoardInv, AttachOK
  <2>2. \A i \in 1..n : attachments[i].id \in AttachmentIds /\ attachments[i].content # "none"
    <3>1. \A i \in 1..n : attachments[i] \in Attachment
      BY <2>1 DEF AttachOK
    <3> QED  BY <3>1, WorkBoardAssumption DEF Attachment
  <2>3. ASSUME NEW id \in AttachmentIds
        PROVE  GetAttachment(id) = IF attached[id] = "none" THEN <<>> ELSE <<attached[id]>>
    <3>1. CASE IndexOf(id) = 0 /\ \A i \in 1..n : attachments[i].id # id
      <4>1. attached[id] = "none"
        BY <2>1, <3>1 DEF AttachOK
      <4> QED  BY <3>1, <4>1 DEF GetAttachment
    <3>2. ASSUME NEW k \in 1..n, IndexOf(id) = k, attachments[k].id = id
          PROVE  GetAttachment(id) = IF attached[id] = "none" THEN <<>> ELSE <<attached[id]>>
      <4>1. attached[id] = attachments[k].content /\ attached[id] # "none" /\ k # 0
        BY <2>1, <2>2, <3>2 DEF AttachOK
      <4> QED  BY <3>2, <4>1 DEF GetAttachment
    <3> QED  BY <2>1, <3>1, <3>2, IndexFacts
  <2>4. ASSUME NEW x \in ListedAttachments
        PROVE  x \in {<<id, attached[id]>> : id \in {i \in AttachmentIds : attached[i] # "none"}}
    <3>1. PICK i \in 1..n : x = <<attachments[i].id, attachments[i].content>>
      BY DEF ListedAttachments
    <3>2. attached[attachments[i].id] = attachments[i].content
      BY <2>1 DEF AttachOK
    <3> QED  BY <2>2, <3>1, <3>2
  <2>5. ASSUME NEW id \in AttachmentIds, attached[id] # "none"
        PROVE  <<id, attached[id]>> \in ListedAttachments
    <3>1. PICK i \in 1..n : attachments[i].id = id
      BY <2>1, <2>5 DEF AttachOK
    <3>2. attached[id] = attachments[i].content
      BY <2>1, <3>1 DEF AttachOK
    <3> QED  BY <3>1, <3>2 DEF ListedAttachments
  <2>6. ListedAttachments = {<<id, attached[id]>> : id \in {i \in AttachmentIds : attached[i] # "none"}}
    BY <2>4, <2>5
  <2>7. \A i, j \in 1..Len(attachments) : attachments[i].id = attachments[j].id => i = j
    BY <2>1 DEF AttachOK
  <2> HIDE DEF n
  <2> QED  BY <2>3, <2>6, <2>7 DEF AttachmentsLikeAMap
<1>5. DumpsAccountedFor
  BY DEF BoardInv, DumpsOK, DumpsAccountedFor
<1> QED  BY <1>2, <1>3, <1>4, <1>5 DEF BoardTold

(* For any steps, attachments and dump names: list_step_outputs announces    *)
(* what read_step_output delivers, attachments behave as a map however they  *)
(* are added, replaced and removed, and every open dump file is one the      *)
(* tracker will close, none after CloseAll.                                  *)
THEOREM BoardCorrect == BoardSpec => []BoardTold
<1>1. BoardInit => BoardInv
  <2> SUFFICES ASSUME BoardInit PROVE BoardInv
    OBVIOUS
  <2>1. ResultsOK
    BY DEF BoardInit, ResultsOK
  <2>2. AttachOK
    BY WorkBoardAssumption DEF BoardInit, AttachOK
  <2>3. DumpsOK
    BY DEF BoardInit, DumpsOK
  <2> QED  BY <2>1, <2>2, <2>3 DEF BoardInv
<1>2. BoardInv /\ [BoardNext]_boardVars => BoardInv'
  <2>1. BoardInv /\ SetFinalResult => BoardInv'
    BY DEF SetFinalResult, BoardInv, ResultsOK, AttachOK, DumpsOK
  <2>2. BoardInv /\ UNCHANGED boardVars => BoardInv'
    BY DEF boardVars, BoardInv, ResultsOK, AttachOK, DumpsOK
  <2> QED  BY <2>1, <2>2, ResultStep, AddStep, RemoveStep, DumpSteps DEF BoardNext
<1> QED  BY <1>1, <1>2, BoardReaders, PTL DEF BoardSpec

-----------------------------------------------------------------------------
(* The embedder                                                              *)

EmbedSpec == EmbedInit /\ [][EmbedNext]_embedVars

EmbedRecords ==
    [state : {"none", "ready", "closed"}, request : Providers \cup {"auto"}, buckets : BOOLEAN, threads : BOOLEAN,
     provider : Providers \cup {"auto"}, pending : BOOLEAN, runner : {"none", "running", "stopped"},
     opts : Backends \cup {NoOptions}, sessions : [Slots -> Providers \cup {NoSession}], optsLive : Int, sessLive : Int,
     panic : BOOLEAN, env : {"fresh", "failed", "up", "destroyed"}, preferred : DeviceIds \cup {Unresolved}]

(* An Embedder in the middle of an operation: it owns its one option handle. *)
Sane(s) == s \in EmbedRecords /\ s.panic = FALSE /\ s.optsLive = (IF s.opts = NoOptions THEN 0 ELSE 1)

(* Its options are those of the provider it reports.                         *)
Fits(s) == (s.opts = NoOptions /\ s.provider = "cpu") \/ (s.opts \in Backends /\ s.opts[1] = s.provider)

(* It has the dedicated thread exactly when that provider is hardware.       *)
Threaded(s) == s.runner = IF s.provider = "cpu" THEN "none" ELSE "running"

(* What no fallback touches.                                                 *)
Steady(t, s) ==
    /\ t.state = s.state /\ t.request = s.request /\ t.buckets = s.buckets /\ t.threads = s.threads
    /\ t.sessions = s.sessions /\ t.env = s.env

(* What a session on its options runs on.                                    *)
Backend(s) == IF s.opts = NoOptions THEN CPU ELSE s.opts

(* The outcome r of trying for one session, starting from s.                 *)
Made(r, s) ==
    /\ DOMAIN r = {"sess", "s"}
    /\ Sane(r.s) /\ Fits(r.s) /\ Threaded(r.s) /\ Steady(r.s, s)
    /\ r.sess \in {NoSession, r.s.provider} /\ r.s.provider \in Providers
    /\ r.s.sessLive = s.sessLive + (IF r.sess = NoSession THEN 0 ELSE 1)

(* The options b built for provider p.                                       *)
Built(b, s, p, w) ==
    /\ ~ b.ok => b.s = s /\ b.opts = NoOptions
    /\ b.ok /\ b.opts = NoOptions => p = "cpu" /\ b.s = s
    /\ b.ok /\ b.opts # NoOptions => b.opts = BackendOf(s, p) /\ b.s = [s EXCEPT !.optsLive = @ + 1]
    /\ b.ok <=> (p = "cpu" /\ ~ s.threads) \/ (p \in w.builds /\ s.env = "up")

(* The Embedder t, which is s with the options of provider p installed.      *)
Installed(t, s, p) ==
    /\ Sane(t) /\ Fits(t) /\ t.provider = p /\ t.preferred = s.preferred /\ t.runner = s.runner
    /\ t.pending = s.pending /\ t.sessLive = s.sessLive /\ Steady(t, s)
    /\ t.opts \in {NoOptions, BackendOf(s, p)} /\ (p # "cpu" => t.opts = BackendOf(s, p))

(* The outcome r of asking for one session on the options s holds.           *)
Created(r, s, w) ==
    /\ DOMAIN r = {"sess", "s"} /\ Sane(r.s) /\ Fits(r.s) /\ Steady(r.s, s)
    /\ r.s.provider = s.provider /\ r.s.preferred = s.preferred /\ r.s.runner = s.runner
    /\ r.s.pending = s.pending /\ r.s.opts = s.opts
    /\ r.sess = (IF Backend(s) \in w.runs /\ s.env = "up" THEN s.provider ELSE NoSession)
    /\ r.s.sessLive = s.sessLive + (IF r.sess = NoSession THEN 0 ELSE 1)

(* Backends are told apart by their provider; the CPU has only one.          *)
LEMMA BackendFacts ==
    /\ NoOptions \notin Backends /\ CPU \in Backends /\ CUDA \in Backends
    /\ CPU[1] = "cpu" /\ CUDA[1] = "cuda"
    /\ \A i \in DeviceIds : OpenVINO(i) \in Backends /\ OpenVINO(i)[1] = "openvino"
    /\ \A b \in Backends : b[1] \in Providers /\ (b[1] = "cpu" => b = CPU)
    /\ NoSession \notin Providers
  BY DEF NoOptions, Backends, CPU, CUDA, OpenVINO, Providers, NoSession

(* There is a first device, and the one attempted is always a device.        *)
LEMMA DeviceFacts ==
    /\ 0 \in DeviceIds /\ Unresolved \notin DeviceIds
    /\ \A s : s.preferred \in DeviceIds \cup {Unresolved} => AttemptedDevice(s) \in DeviceIds
    /\ \A s : s.preferred \in DeviceIds => AttemptedDevice(s) = s.preferred
<1>1. OpenVINODevices \in Nat /\ OpenVINODevices > 0
  BY EmbedderAssumption
<1>2. 0 \in DeviceIds /\ Unresolved \notin DeviceIds
  BY <1>1 DEF DeviceIds, Unresolved
<1> QED
  BY <1>2 DEF AttemptedDevice

(* The backend of a provider is one of its own.                              *)
LEMMA BackendOfIs ==
    ASSUME NEW s, s.preferred \in DeviceIds \cup {Unresolved}, NEW p \in Providers
    PROVE  BackendOf(s, p) \in Backends /\ BackendOf(s, p)[1] = p /\ BackendOf(s, p) # NoOptions
<1>1. CASE p = "openvino"
  BY <1>1, BackendFacts, DeviceFacts DEF BackendOf
<1>2. CASE p = "cuda"
  BY <1>2, BackendFacts DEF BackendOf, CUDA
<1>3. CASE p = "cpu"
  BY <1>3, BackendFacts DEF BackendOf, CPU
<1> QED
  BY <1>1, <1>2, <1>3 DEF Providers

(* A call on a thread that runs, or on none, changes nothing.                *)
LEMMA OnThread ==
    ASSUME NEW s, Sane(s), s.runner # "stopped"
    PROVE  OnORTThread(s) = s
<1>1. s \in EmbedRecords /\ s.panic = FALSE
  BY DEF Sane
<1>2. (FALSE \/ s.runner = "stopped") = FALSE
  OBVIOUS
<1>3. OnORTThread(s) = [s EXCEPT !.panic = FALSE]
  BY <1>1, <1>2 DEF OnORTThread
<1>4. [s EXCEPT !.panic = FALSE] = s
  BY <1>1 DEF EmbedRecords
<1> QED
  BY <1>3, <1>4

(* The options of a provider.                                                *)
LEMMA BuildOptsIs ==
    ASSUME NEW s, Sane(s), s.runner # "stopped", NEW p \in Providers, NEW w, NEW b, b = BuildOpts(s, p, w)
    PROVE  Built(b, s, p, w)
<1>1. OnORTThread(s) = s
  BY OnThread
<1>2. BackendOf(s, p) # NoOptions
  BY BackendOfIs DEF Sane, EmbedRecords
<1>3. CASE p = "cpu" /\ ~ s.threads
  BY <1>1, <1>3 DEF BuildOpts, Built
<1>4. CASE ~ (p = "cpu" /\ ~ s.threads) /\ p \in w.builds /\ s.env = "up"
  BY <1>1, <1>2, <1>4 DEF BuildOpts, Built
<1>5. CASE ~ (p = "cpu" /\ ~ s.threads) /\ ~ (p \in w.builds /\ s.env = "up")
  BY <1>1, <1>5 DEF BuildOpts, Built
<1> QED
  BY <1>3, <1>4, <1>5

(* A provider, options or a count of handles put in place keep the type.     *)
LEMMA SetProvider ==
    ASSUME NEW s \in EmbedRecords, NEW p \in Providers \cup {"auto"}, NEW t, t = [s EXCEPT !.provider = p]
    PROVE  t \in EmbedRecords
  BY DEF EmbedRecords

LEMMA SetOneOpts ==
    ASSUME NEW s \in EmbedRecords, NEW o \in Backends \cup {NoOptions}, NEW t, t = [s EXCEPT !.opts = o]
    PROVE  t \in EmbedRecords
  BY DEF EmbedRecords

LEMMA SetOptsLive ==
    ASSUME NEW s \in EmbedRecords, NEW n \in Int, NEW t, t = [s EXCEPT !.optsLive = n]
    PROVE  t \in EmbedRecords
  BY DEF EmbedRecords

(* Old options are released as the new ones are put in their place.          *)
LEMMA InstallIs ==
    ASSUME NEW s, Sane(s), s.runner # "stopped", NEW p \in Providers, NEW w, NEW b, b = BuildOpts(s, p, w), b.ok,
           NEW t, t = Install(b.s, p, b.opts)
    PROVE  Installed(t, s, p)
<1>1. s \in EmbedRecords /\ s.panic = FALSE /\ s.optsLive = (IF s.opts = NoOptions THEN 0 ELSE 1)
  BY DEF Sane
<1>2. BackendOf(s, p) \in Backends /\ BackendOf(s, p)[1] = p /\ BackendOf(s, p) # NoOptions
  BY <1>1, BackendOfIs DEF EmbedRecords
<1>3. \/ b.opts = NoOptions /\ p = "cpu" /\ b.s = s
      \/ b.opts = BackendOf(s, p) /\ b.s = [s EXCEPT !.optsLive = @ + 1]
  <2>1. Built(b, s, p, w)
    BY BuildOptsIs
  <2> QED
    BY <2>1 DEF Built
<1>4. b.s.runner = s.runner /\ b.s.panic = FALSE /\ b.s \in EmbedRecords /\ b.s.opts = s.opts
  BY <1>1, <1>3 DEF EmbedRecords
<1>5. OnORTThread(b.s) = [b.s EXCEPT !.panic = FALSE]
  <2>1. (FALSE \/ b.s.runner = "stopped") = FALSE
    BY <1>4
  <2> QED
    BY <1>4, <2>1 DEF OnORTThread
<1>6. [b.s EXCEPT !.panic = FALSE] = b.s
  BY <1>4 DEF EmbedRecords
<1>7. OnORTThread(b.s) = b.s
  BY <1>5, <1>6
<1> DEFINE live == IF b.s.opts = NoOptions THEN b.s.optsLive ELSE b.s.optsLive - 1
<1>8. t = [b.s EXCEPT !.opts = b.opts, !.provider = p, !.optsLive = live]
  <2>1. CASE b.s.opts = NoOptions
    BY <1>4, <1>7, <2>1 DEF Install, ReplaceOpts, DestroyOpts, EmbedRecords
  <2>2. CASE b.s.opts # NoOptions
    BY <1>4, <1>7, <2>2 DEF Install, ReplaceOpts, DestroyOpts, EmbedRecords
  <2> QED
    BY <2>1, <2>2
<1>9. /\ t.opts = b.opts /\ t.provider = p /\ t.preferred = s.preferred /\ t.runner = s.runner /\ t.pending = s.pending
      /\ t.sessLive = s.sessLive /\ t.state = s.state /\ t.request = s.request /\ t.buckets = s.buckets
      /\ t.threads = s.threads /\ t.sessions = s.sessions /\ t.env = s.env /\ t.panic = FALSE
      /\ t.optsLive = IF b.opts = NoOptions THEN 0 ELSE 1
  BY <1>1, <1>2, <1>3, <1>4, <1>8 DEF EmbedRecords
<1>10. t \in EmbedRecords
  <2>1. b.opts \in Backends \cup {NoOptions} /\ p \in Providers \cup {"auto"}
    BY <1>2, <1>3
  <2>2. live \in Int
    BY <1>4 DEF EmbedRecords
  <2> HIDE DEF live
  <2> DEFINE u == [b.s EXCEPT !.opts = b.opts]
             v == [u EXCEPT !.provider = p]
  <2>3. u \in EmbedRecords
    BY <1>4, <2>1, SetOneOpts
  <2>4. t = [v EXCEPT !.optsLive = live]
    BY <1>8
  <2> HIDE DEF u
  <2>5. v \in EmbedRecords
    BY <2>1, <2>3, SetProvider
  <2> HIDE DEF v
  <2> QED
    BY <2>2, <2>4, <2>5, SetOptsLive
<1>11. Sane(t) /\ Fits(t) /\ Steady(t, s)
  BY <1>2, <1>3, <1>9, <1>10 DEF Sane, Fits, Steady
<1> QED
  BY <1>2, <1>3, <1>9, <1>11 DEF Installed

(* One session on the options that are held.                                 *)
LEMMA CreateSessionIs ==
    ASSUME NEW s, Sane(s), Fits(s), s.runner # "stopped", s.provider \in Providers, NEW w, NEW r, r = CreateSession(s, w)
    PROVE  Created(r, s, w)
<1>1. OnORTThread(s) = s /\ s \in EmbedRecords /\ s.panic = FALSE
  BY OnThread DEF Sane
<1>2. Backend(s)[1] = s.provider
  BY BackendFacts DEF Fits, Backend
<1>3. s.sessLive \in Int /\ NoSession # s.provider
  BY <1>1, BackendFacts DEF EmbedRecords
<1>4. CASE Backend(s) \in w.runs /\ s.env = "up"
  <2> DEFINE t == [s EXCEPT !.sessLive = @ + 1]
  <2>1. r = [sess |-> Backend(s)[1], s |-> t]
    BY <1>1, <1>4 DEF CreateSession, Backend
  <2>2. t \in EmbedRecords /\ t.sessLive = s.sessLive + 1 /\ t.opts = s.opts /\ t.provider = s.provider
        /\ t.preferred = s.preferred /\ t.runner = s.runner /\ t.pending = s.pending /\ t.optsLive = s.optsLive
        /\ t.panic = FALSE /\ Steady(t, s)
    BY <1>1, <1>3 DEF EmbedRecords, Steady
  <2> HIDE DEF t
  <2>3. Sane(t) /\ Fits(t)
    BY <2>2 DEF Sane, Fits
  <2>4. r.sess = s.provider /\ r.s = t /\ DOMAIN r = {"sess", "s"}
    BY <1>2, <2>1
  <2> QED
    BY <1>3, <1>4, <2>2, <2>3, <2>4 DEF Created
<1>5. CASE ~ (Backend(s) \in w.runs /\ s.env = "up")
  <2>1. r = [sess |-> NoSession, s |-> s]
    BY <1>1, <1>5 DEF CreateSession, Backend
  <2>2. r.sess = NoSession /\ r.s = s /\ DOMAIN r = {"sess", "s"} /\ s.sessLive = s.sessLive + 0
    BY <1>3, <2>1
  <2> QED
    BY <1>5, <2>2 DEF Created, Steady
<1> QED
  BY <1>4, <1>5

(* Another candidate, after one that failed: hardware stays hardware, and    *)
(* what could run has been given its chance.                                 *)
Retried(r, acc, s, ready, p, w) ==
    /\ Made(r, s) /\ r.s.pending = acc.s.pending /\ r.s.provider \in {p, acc.s.provider}
    /\ p \in w.builds /\ s.env = "up" /\ BackendOf(ready, p) \in w.runs => r.sess # NoSession

LEMMA AttemptIs ==
    ASSUME NEW s, NEW acc, Made(acc, s), acc.sess = NoSession, acc.s.provider # "cpu",
           NEW ready, Sane(ready), Steady(ready, acc.s), ready.runner = acc.s.runner, ready.pending = acc.s.pending,
           ready.sessLive = acc.s.sessLive, ready.opts = acc.s.opts, ready.provider = acc.s.provider,
           NEW p \in {"cuda", "openvino"}, NEW w, s.sessLive \in Int, NEW r, r = Attempt(acc, ready, p, w)
    PROVE  Retried(r, acc, s, ready, p, w)
<1> DEFINE b == BuildOpts(ready, p, w)
           t == Install(b.s, p, b.opts)
<1>1. p \in Providers /\ p # "cpu" /\ p # NoSession
  BY DEF Providers, NoSession
<1>2. acc.s.runner = "running" /\ ready.runner = "running" /\ acc.s.sessLive = s.sessLive
  BY DEF Made, Threaded
<1>3. Steady(ready, s) /\ ready.env = s.env
  BY DEF Made, Steady
<1>a. b = BuildOpts(ready, p, w) /\ t = Install(b.s, p, b.opts)
  OBVIOUS
<1>b. r = IF ~ b.ok THEN [acc EXCEPT !.s = b.s] ELSE CreateSession(t, w)
  BY DEF Attempt
<1> HIDE DEF b, t
<1>c. Built(b, ready, p, w)
  BY <1>1, <1>2, <1>a, BuildOptsIs
<1>4. CASE ~ b.ok
  <2>1. b.s = ready /\ ~ (p \in w.builds /\ ready.env = "up")
    BY <1>4, <1>c DEF Built
  <2>2. r = [acc EXCEPT !.s = ready]
    BY <1>4, <2>1, <1>b
  <2>3. r.sess = NoSession /\ r.s = ready /\ DOMAIN r = {"sess", "s"}
    BY <2>2 DEF Made
  <2>4. Fits(ready) /\ Threaded(ready) /\ ready.provider \in Providers
    BY <1>2 DEF Made, Fits, Threaded
  <2>5. Made(r, s)
    BY <1>2, <1>3, <2>3, <2>4 DEF Made
  <2> QED
    BY <1>3, <2>1, <2>3, <2>5 DEF Retried
<1>5. CASE b.ok
  <2>0. Installed(t, ready, p)
    BY <1>1, <1>2, <1>5, <1>a, InstallIs
  <2>1. /\ Sane(t) /\ Fits(t) /\ t.provider = p /\ t.preferred = ready.preferred /\ t.runner = "running"
        /\ t.pending = ready.pending /\ t.sessLive = s.sessLive /\ Steady(t, ready) /\ t.opts = BackendOf(ready, p)
    BY <1>1, <1>2, <2>0 DEF Installed
  <2>2. r = CreateSession(t, w)
    BY <1>5, <1>b
  <2>3. BackendOf(ready, p) # NoOptions
    BY <1>1, BackendOfIs DEF Sane, EmbedRecords
  <2>4. Created(r, t, w)
    BY <1>1, <2>1, <2>2, CreateSessionIs
  <2>5. Steady(r.s, s) /\ t.env = s.env
    BY <1>3, <2>1, <2>4 DEF Created, Steady
  <2>6. /\ DOMAIN r = {"sess", "s"} /\ Sane(r.s) /\ Fits(r.s) /\ r.s.provider = p /\ r.s.runner = "running"
        /\ r.s.pending = acc.s.pending /\ r.s.sessLive = s.sessLive + (IF r.sess = NoSession THEN 0 ELSE 1)
        /\ r.sess = (IF BackendOf(ready, p) \in w.runs /\ s.env = "up" THEN p ELSE NoSession)
    BY <2>1, <2>3, <2>4, <2>5 DEF Created, Backend
  <2>7. Threaded(r.s) /\ r.sess \in {NoSession, r.s.provider}
    BY <1>1, <2>6 DEF Threaded
  <2>8. Made(r, s)
    BY <1>1, <2>5, <2>6, <2>7 DEF Made
  <2> QED
    BY <1>1, <2>6, <2>8 DEF Retried
<1> QED
  BY <1>4, <1>5

(* A set of naturals that is not empty has a first element.                  *)
LEMMA FirstOf ==
    ASSUME NEW S \in SUBSET Nat, S # {}
    PROVE  \E n \in S : \A m \in S : n <= m
<1>1. PICK n \in S : \A m \in S : ~ (<<m, n>> \in OpToRel(<, Nat))
  BY NatLessThanWellFounded, WFMin
<1>2. \A m \in S : ~ (m < n)
  BY <1>1 DEF OpToRel
<1> QED
  BY <1>2


(* Before anything is tried nothing is made.                                 *)
LEMMA NoneYetIs ==
    ASSUME NEW s, Sane(s), Fits(s), Threaded(s), s.provider \in Providers
    PROVE  Made(NoneYet(s), s)
<1> DEFINE r == NoneYet(s)
<1>1. r.sess = NoSession /\ r.s = s /\ DOMAIN r = {"sess", "s"}
  BY DEF NoneYet
<1>2. s.sessLive = s.sessLive + 0
  BY DEF Sane, EmbedRecords
<1> HIDE DEF r
<1>3. Made(r, s)
  BY <1>1, <1>2 DEF Made, Steady
<1> QED
  BY <1>3 DEF r

(* What the devices below n have come to: the first one that works is used,  *)
(* and none of the ones passed over works.                                   *)
Tried(r, s, w, n) ==
    /\ Made(r, s) /\ r.s.provider = "openvino" /\ r.s.pending = s.pending
    /\ r.sess = NoSession /\ "openvino" \in w.builds /\ s.env = "up" =>
           \A i \in DeviceIds : i < n /\ i # AttemptedDevice(s) => OpenVINO(i) \notin w.runs

(* One more device.                                                          *)
LEMMA TryDeviceIs ==
    ASSUME NEW s, s.sessLive \in Int, NEW w, NEW n \in DeviceIds, NEW acc, Tried(acc, s, w, n),
           NEW r, r = TryDevice(acc, n, AttemptedDevice(s), w)
    PROVE  Tried(r, s, w, n + 1)
<1>1. \A i \in DeviceIds : i < n + 1 => i < n \/ i = n
  BY EmbedderAssumption DEF DeviceIds
<1>2. CASE acc.sess # NoSession \/ n = AttemptedDevice(s)
  <2>1. r = acc
    BY <1>2 DEF TryDevice
  <2> QED
    BY <1>1, <1>2, <2>1 DEF Tried
<1>3. CASE acc.sess = NoSession /\ n # AttemptedDevice(s)
  <2> DEFINE ready == [acc.s EXCEPT !.preferred = n]
  <2>1. acc.s \in EmbedRecords /\ Made(acc, s) /\ acc.s.provider = "openvino" /\ acc.s.pending = s.pending
    BY DEF Tried, Made, Sane
  <2>2. /\ ready \in EmbedRecords /\ ready.preferred = n /\ ready.panic = acc.s.panic /\ ready.optsLive = acc.s.optsLive
        /\ ready.opts = acc.s.opts /\ ready.runner = acc.s.runner /\ ready.pending = acc.s.pending
        /\ ready.sessLive = acc.s.sessLive /\ ready.provider = acc.s.provider /\ Steady(ready, acc.s)
    BY <2>1 DEF EmbedRecords, Steady
  <2>3. r = Attempt(acc, ready, "openvino", w)
    BY <1>3 DEF TryDevice
  <2> HIDE DEF ready
  <2>4. Sane(ready)
    BY <2>1, <2>2 DEF Made, Sane
  <2>5. BackendOf(ready, "openvino") = OpenVINO(n)
    BY <2>2, DeviceFacts DEF BackendOf
  <2>6. /\ Made(r, s) /\ r.s.pending = acc.s.pending /\ r.s.provider \in {"openvino", acc.s.provider}
        /\ "openvino" \in w.builds /\ s.env = "up" /\ BackendOf(ready, "openvino") \in w.runs => r.sess # NoSession
    <3>1. acc.s.provider # "cpu" /\ "openvino" \in {"cuda", "openvino"}
      BY <2>1
    <3>2. Retried(r, acc, s, ready, "openvino", w)
      BY <1>3, <2>1, <2>2, <2>3, <2>4, <3>1, AttemptIs
    <3> QED
      BY <3>2 DEF Retried
  <2>7. ASSUME r.sess = NoSession, "openvino" \in w.builds, s.env = "up", NEW i \in DeviceIds, i < n + 1,
               i # AttemptedDevice(s)
        PROVE  OpenVINO(i) \notin w.runs
    <3>1. CASE i = n
      BY <2>5, <2>6, <2>7, <3>1
    <3>2. CASE i < n
      BY <1>3, <2>7, <3>2 DEF Tried
    <3> QED
      BY <1>1, <2>7, <3>1, <3>2
  <2> QED
    BY <2>1, <2>6, <2>7 DEF Tried
<1> QED
  BY <1>2, <1>3

(* The recursion over the devices is well defined: the partial runs exist,   *)
(* by least counterexample.                                                  *)
LEMMA DevicesRun ==
    ASSUME NEW s, NEW w
    PROVE  \E after : /\ after = [n \in 0 .. OpenVINODevices |->
                                   IF n = 0 THEN NoneYet(s)
                                   ELSE TryDevice(after[n - 1], n - 1, AttemptedDevice(s), w)]
                      /\ DevicesTried(s, w) = after[OpenVINODevices]
<1> DEFINE N == OpenVINODevices
           S(x, n) == TryDevice(x, n - 1, AttemptedDevice(s), w)
           F == NoneYet(s)
           Runs(m) == \E run : run = [n \in 0 .. m |-> IF n = 0 THEN F ELSE S(run[n - 1], n)]
           Bad == {m \in 0 .. N : ~ Runs(m)}
<1>1. N \in Nat
  BY EmbedderAssumption
<1>2. DevicesTried(s, w) = (CHOOSE run : run = [n \in 0 .. N |-> IF n = 0 THEN F ELSE S(run[n - 1], n)])[N]
  BY DEF DevicesTried
<1> HIDE DEF N, S, F
<1>3. Runs(0)
  <2> DEFINE run == [n \in 0 .. 0 |-> F]
  <2>1. run = [n \in 0 .. 0 |-> IF n = 0 THEN F ELSE S(run[n - 1], n)]
    OBVIOUS
  <2> QED
    BY <2>1
<1>4. ASSUME NEW m \in 1 .. N, Runs(m - 1) PROVE Runs(m)
  <2>1. PICK run : run = [n \in 0 .. m - 1 |-> IF n = 0 THEN F ELSE S(run[n - 1], n)]
    BY <1>4
  <2> DEFINE h == [n \in 0 .. m |-> IF n = m THEN S(run[m - 1], m) ELSE run[n]]
  <2>2. m \in Nat /\ m > 0
    BY <1>1
  <2>3. \A n \in 0 .. m - 1 : h[n] = run[n] /\ n \in 0 .. m
    BY <2>2
  <2>4. h[m] = S(run[m - 1], m) /\ h[m - 1] = run[m - 1]
    BY <2>2
  <2>5. ASSUME NEW n \in 0 .. m PROVE h[n] = IF n = 0 THEN F ELSE S(h[n - 1], n)
    <3>1. CASE n = m
      BY <2>2, <2>4, <3>1
    <3>2. CASE n = 0
      BY <2>1, <2>2, <2>3, <3>2
    <3>3. CASE n # m /\ n # 0
      <4>1. n \in 0 .. m - 1 /\ n - 1 \in 0 .. m - 1
        BY <2>2, <3>3
      <4>2. run[n] = S(run[n - 1], n)
        BY <2>1, <3>3, <4>1
      <4> QED
        BY <2>3, <3>3, <4>1, <4>2
    <3> QED
      BY <3>1, <3>2, <3>3
  <2>6. h = [n \in 0 .. m |-> h[n]]
    OBVIOUS
  <2> HIDE DEF h
  <2>7. h = [n \in 0 .. m |-> IF n = 0 THEN F ELSE S(h[n - 1], n)]
    BY <2>5, <2>6
  <2> QED
    BY <2>7
<1> HIDE DEF Runs
<1>5. Runs(N)
  <2>1. SUFFICES ASSUME Bad # {} PROVE FALSE
    BY <1>1
  <2>2. Bad \in SUBSET Nat
    BY <1>1
  <2>3. PICK n \in Bad : \A m \in Bad : n <= m
    BY <2>1, <2>2, FirstOf
  <2>4. n \in 1 .. N
    BY <1>1, <1>3, <2>3
  <2>5. n - 1 \notin Bad /\ n - 1 \in 0 .. N
    BY <1>1, <2>3, <2>4
  <2> QED
    BY <1>4, <2>3, <2>4, <2>5
<1>6. \E run : run = [n \in 0 .. N |-> IF n = 0 THEN F ELSE S(run[n - 1], n)]
  BY <1>5 DEF Runs
<1> QED
  BY <1>2, <1>6 DEF N, S, F

(* All devices have been tried.                                              *)
LEMMA DevicesTriedIs ==
    ASSUME NEW s, Sane(s), Fits(s), Threaded(s), s.provider = "openvino", NEW w
    PROVE  Tried(DevicesTried(s, w), s, w, OpenVINODevices)
<1>1. PICK after : /\ after = [n \in 0 .. OpenVINODevices |->
                                   IF n = 0 THEN NoneYet(s)
                                   ELSE TryDevice(after[n - 1], n - 1, AttemptedDevice(s), w)]
                   /\ DevicesTried(s, w) = after[OpenVINODevices]
  BY DevicesRun
<1>2. OpenVINODevices \in Nat /\ s.sessLive \in Int
  BY EmbedderAssumption DEF Sane, EmbedRecords
<1> DEFINE Good(n) == Tried(after[n], s, w, n)
           Bad == {n \in 0 .. OpenVINODevices : ~ Good(n)}
<1>3. Good(0)
  <2>1. after[0] = NoneYet(s)
    BY <1>1, <1>2
  <2>2. Made(NoneYet(s), s)
    BY NoneYetIs DEF Providers
  <2>3. NoneYet(s).s = s
    BY DEF NoneYet
  <2>4. \A i \in DeviceIds : ~ (i < 0)
    BY EmbedderAssumption DEF DeviceIds
  <2> QED
    BY <2>1, <2>2, <2>3, <2>4 DEF Tried
<1>4. ASSUME NEW n \in 1 .. OpenVINODevices, Good(n - 1) PROVE Good(n)
  <2>1. n - 1 \in DeviceIds /\ n \in 0 .. OpenVINODevices /\ n # 0 /\ (n - 1) + 1 = n
    BY <1>2 DEF DeviceIds
  <2>2. after[n] = TryDevice(after[n - 1], n - 1, AttemptedDevice(s), w)
    BY <1>1, <2>1
  <2>3. Tried(after[n - 1], s, w, n - 1)
    BY <1>4
  <2>4. Tried(after[n], s, w, (n - 1) + 1)
    BY <1>2, <2>1, <2>2, <2>3, TryDeviceIs
  <2> QED
    BY <2>1, <2>4
<1> HIDE DEF Good
<1>5. Good(OpenVINODevices)
  <2>1. SUFFICES ASSUME Bad # {} PROVE FALSE
    BY <1>2
  <2>2. Bad \in SUBSET Nat
    BY <1>2
  <2>3. PICK n \in Bad : \A m \in Bad : n <= m
    BY <2>1, <2>2, FirstOf
  <2>4. n \in 1 .. OpenVINODevices
    BY <1>2, <1>3, <2>3
  <2>5. n - 1 \notin Bad /\ n - 1 \in 0 .. OpenVINODevices
    BY <1>2, <2>3, <2>4
  <2> QED
    BY <1>4, <2>3, <2>4, <2>5
<1> QED
  BY <1>1, <1>5 DEF Good

(* What asking for a session on the provider's devices has come to.          *)
OnDevices(r, s, w) ==
    /\ Made(r, s) /\ r.s.provider = s.provider /\ r.s.pending = s.pending
    /\ r.sess = NoSession /\ s.env = "up" => Backend(s) \notin w.runs
    /\ r.sess = NoSession /\ s.env = "up" /\ s.provider = "openvino" /\ "openvino" \in w.builds =>
           \A i \in DeviceIds : i # AttemptedDevice(s) => OpenVINO(i) \notin w.runs

(* The session asked for, or one on another device.                          *)
LEMMA OnDevicesIs ==
    ASSUME NEW s, Sane(s), Fits(s), Threaded(s), s.provider \in Providers, NEW w
    PROVE  OnDevices(SessionOnSomeDevice(CreateSession(s, w), w), s, w)
<1> DEFINE first == CreateSession(s, w)
           t == first.s
           r == SessionOnSomeDevice(first, w)
<1>0. s.runner # "stopped" /\ s.provider # NoSession
  BY BackendFacts DEF Threaded
<1>1. Created(first, s, w)
  BY <1>0, CreateSessionIs
<1>2. r = IF first.sess # NoSession THEN first ELSE RetryOpenVINODeviceSession(t, w)
  BY DEF SessionOnSomeDevice
<1>3. AttemptedDevice(t) = AttemptedDevice(s)
  BY <1>1 DEF Created, AttemptedDevice
<1> SUFFICES OnDevices(r, s, w)
  OBVIOUS
<1> HIDE DEF first, r
<1>4. Made(first, s)
  BY <1>1 DEF Made, Created, Threaded
<1>5. Sane(t) /\ Fits(t) /\ Threaded(t) /\ t.provider = s.provider /\ t.pending = s.pending /\ Steady(t, s)
  BY <1>1 DEF Created, Threaded
<1>6. CASE first.sess # NoSession
  BY <1>1, <1>2, <1>4, <1>6 DEF OnDevices, Created
<1>7. CASE first.sess = NoSession
  <2>1. t.sessLive = s.sessLive /\ t.env = s.env /\ (s.env = "up" => Backend(s) \notin w.runs)
    <3>1. s.sessLive + 0 = s.sessLive
      BY DEF Sane, EmbedRecords
    <3> QED
      BY <1>0, <1>1, <1>7, <3>1 DEF Created, Steady
  <2>2. ASSUME NEW q, Made(q, t) PROVE Made(q, s)
    BY <1>5, <2>1, <2>2 DEF Made, Steady
  <2>3. CASE ~ (t.provider = "openvino" /\ OpenVINODevices > 1)
    <3>1. r = NoneYet(t)
      BY <1>2, <1>7, <2>3 DEF RetryOpenVINODeviceSession
    <3>2. Made(r, t)
      BY <1>5, <3>1, NoneYetIs
    <3>3. r.s = t
      BY <3>1 DEF NoneYet
    <3>4. t.provider = "openvino" => DeviceIds = {0}
      BY <2>3, EmbedderAssumption DEF DeviceIds
    <3>5. AttemptedDevice(s) \in DeviceIds
      BY DeviceFacts DEF Sane, EmbedRecords
    <3> QED
      BY <1>5, <2>1, <2>2, <3>2, <3>3, <3>4, <3>5 DEF OnDevices
  <2>4. CASE t.provider = "openvino" /\ OpenVINODevices > 1
    <3> DEFINE last == DevicesTried(t, w)
    <3>1. Tried(last, t, w, OpenVINODevices)
      BY <1>5, <2>4, DevicesTriedIs
    <3>2. r = IF last.sess # NoSession THEN last ELSE [last EXCEPT !.s.preferred = Unresolved]
      BY <1>2, <1>7, <2>4 DEF RetryOpenVINODeviceSession, RetryOpenVINODevices
    <3> HIDE DEF last
    <3>3. \A i \in DeviceIds : i < OpenVINODevices
      BY EmbedderAssumption DEF DeviceIds
    <3>4. CASE last.sess # NoSession
      BY <1>5, <2>1, <2>2, <3>1, <3>2, <3>4, <2>4 DEF OnDevices, Tried
    <3>5. CASE last.sess = NoSession
      <4> DEFINE u == [last.s EXCEPT !.preferred = Unresolved]
      <4>1. Made(last, t) /\ last.s \in EmbedRecords /\ DOMAIN last = {"sess", "s"}
        BY <3>1 DEF Tried, Made, Sane
      <4>2. /\ u \in EmbedRecords /\ u.panic = last.s.panic /\ u.optsLive = last.s.optsLive
            /\ u.opts = last.s.opts /\ u.runner = last.s.runner /\ u.pending = last.s.pending
            /\ u.sessLive = last.s.sessLive /\ u.provider = last.s.provider /\ Steady(u, last.s)
        BY <4>1 DEF EmbedRecords, Steady
      <4>3. r = [last EXCEPT !.s = u]
        BY <3>2, <3>5
      <4> HIDE DEF u
      <4>4. r.sess = NoSession /\ r.s = u /\ DOMAIN r = {"sess", "s"}
        BY <3>5, <4>1, <4>3
      <4>5. Sane(u) /\ Fits(u) /\ Threaded(u) /\ Steady(u, t)
        BY <4>1, <4>2 DEF Made, Sane, Fits, Threaded, Steady
      <4>6. Made(r, t)
        BY <3>5, <4>1, <4>2, <4>4, <4>5 DEF Made
      <4> QED
        BY <1>3, <1>5, <2>1, <2>2, <2>4, <3>1, <3>3, <3>5, <4>2, <4>4, <4>6 DEF OnDevices, Tried
    <3> QED
      BY <3>4, <3>5
  <2> QED
    BY <2>3, <2>4
<1> QED
  BY <1>6, <1>7


(* An attempt that made nothing may be followed by another.                  *)
LEMMA MadeAgain ==
    ASSUME NEW s, s.sessLive \in Int, NEW a, Made(a, s), a.sess = NoSession, NEW q, Made(q, a.s)
    PROVE  Made(q, s)
<1>1. a.s.sessLive = s.sessLive /\ Steady(a.s, s)
  BY DEF Made
<1> QED
  BY <1>1 DEF Made, Steady

(* The rungs of the ladder keep to hardware.                                 *)
Laddered(r, s) == Made(r, s) /\ r.s.provider # "cpu" /\ r.s.pending = s.pending

(* One rung.                                                                 *)
LEMMA RungIs ==
    ASSUME NEW s, s.sessLive \in Int, NEW acc, Laddered(acc, s), NEW rung \in {1, 2}, NEW from, NEW w,
           NEW r, r = TryRung(acc, rung, from, w)
    PROVE  Laddered(r, s)
<1>1. CASE acc.sess # NoSession \/ rung <= from
  BY <1>1 DEF TryRung
<1>2. CASE ~ (acc.sess # NoSession \/ rung <= from)
  <2> DEFINE p == AutoAttemptLadder[rung]
  <2>1. p \in {"cuda", "openvino"}
    BY DEF AutoAttemptLadder
  <2>2. r = Attempt(acc, acc.s, p, w)
    BY <1>2 DEF TryRung
  <2> HIDE DEF p
  <2>3. Made(acc, s) /\ Sane(acc.s) /\ Steady(acc.s, acc.s) /\ acc.s.provider # "cpu"
    BY DEF Laddered, Made, Steady
  <2>4. Retried(r, acc, s, acc.s, p, w)
    BY <1>2, <2>1, <2>2, <2>3, AttemptIs
  <2> QED
    BY <2>1, <2>4 DEF Retried, Laddered
<1> QED
  BY <1>1, <1>2

(* Both rungs.                                                               *)
LEMMA LadderIs ==
    ASSUME NEW s, Sane(s), Fits(s), Threaded(s), s.provider \in Providers, s.provider # "cpu", NEW from, NEW w
    PROVE  Laddered(AdvanceAutoLadder(s, from, w), s)
<1>1. Laddered(NoneYet(s), s)
  <2>1. Made(NoneYet(s), s)
    BY NoneYetIs
  <2> QED
    BY <2>1 DEF Laddered, NoneYet
<1>2. s.sessLive \in Int
  BY DEF Sane, EmbedRecords
<1> DEFINE one == TryRung(NoneYet(s), 1, from, w)
           two == TryRung(one, 2, from, w)
<1>3. Laddered(one, s)
  BY <1>1, <1>2, RungIs
<1> HIDE DEF one
<1>4. Laddered(two, s)
  BY <1>2, <1>3, RungIs
<1> QED
  BY <1>4 DEF one, AdvanceAutoLadder

(* The Embedder t, which is s with its options and its thread given back.    *)
Released(t, s) ==
    /\ Sane(t) /\ t.opts = NoOptions /\ t.provider = s.provider /\ t.preferred = s.preferred
    /\ t.pending = s.pending /\ t.sessLive = s.sessLive /\ Steady(t, s)

(* Options and their count keep the record a record.                         *)
LEMMA SetOpts ==
    ASSUME NEW s, s \in EmbedRecords, NEW n \in Int, NEW o \in Backends \cup {NoOptions},
           NEW t, t = [s EXCEPT !.optsLive = n, !.opts = o]
    PROVE  t \in EmbedRecords
  BY DEF EmbedRecords

(* Options are given back once.                                              *)
LEMMA DestroyOptsIs ==
    ASSUME NEW s, Sane(s), s.runner # "stopped", NEW t, t = DestroyOpts(s)
    PROVE  Released(t, s) /\ t.runner = s.runner
<1>1. OnORTThread(s) = s /\ s \in EmbedRecords /\ s.panic = FALSE /\ s.optsLive = (IF s.opts = NoOptions THEN 0 ELSE 1)
  BY OnThread DEF Sane
<1>2. CASE s.opts = NoOptions
  <2>1. t = s
    BY <1>1, <1>2 DEF DestroyOpts
  <2> QED
    BY <1>2, <2>1 DEF Released, Steady
<1>3. CASE s.opts # NoOptions
  <2>1. t = [s EXCEPT !.optsLive = @ - 1, !.opts = NoOptions]
    BY <1>1, <1>3 DEF DestroyOpts
  <2>a. s.optsLive - 1 = 0
    BY <1>1, <1>3
  <2>b. t = [s EXCEPT !.optsLive = 0, !.opts = NoOptions]
    BY <1>1, <2>1, <2>a DEF EmbedRecords
  <2>c. s \in EmbedRecords /\ s.panic = FALSE
    BY <1>1
  <2>d. t \in EmbedRecords
    <3>1. 0 \in Int /\ NoOptions \in Backends \cup {NoOptions}
      OBVIOUS
    <3> QED
      BY <2>b, <2>c, <3>1, SetOpts
  <2>2. /\ t \in EmbedRecords /\ t.panic = FALSE /\ t.optsLive = 0 /\ t.opts = NoOptions
        /\ t.runner = s.runner /\ t.pending = s.pending /\ t.preferred = s.preferred
        /\ t.sessLive = s.sessLive /\ t.provider = s.provider /\ Steady(t, s)
    BY <2>b, <2>c, <2>d DEF EmbedRecords, Steady
  <2> QED
    BY <2>2 DEF Released, Sane
<1> QED
  BY <1>2, <1>3

(* A thread that runs is stopped once.                                       *)
LEMMA StopRunnerIs ==
    ASSUME NEW s, Sane(s), s.runner # "stopped", NEW t, t = StopRunner(s)
    PROVE  t = [s EXCEPT !.runner = IF s.runner = "none" THEN "none" ELSE "stopped"]
<1>1. OnORTThread(s) = s /\ s \in EmbedRecords
  BY OnThread DEF Sane
<1>2. CASE s.runner = "none"
  <2>1. t = s
    BY <1>2 DEF StopRunner
  <2>2. s = [s EXCEPT !.runner = "none"]
    BY <1>1, <1>2 DEF EmbedRecords
  <2> QED
    BY <1>2, <2>1, <2>2
<1>3. CASE s.runner # "none"
  BY <1>1, <1>3 DEF StopRunner
<1> QED
  BY <1>2, <1>3

(* The thread is independent of everything else held.                        *)
LEMMA SetRunner ==
    ASSUME NEW s, Sane(s), NEW v \in {"none", "running", "stopped"}, NEW t, t = [s EXCEPT !.runner = v]
    PROVE  /\ Sane(t) /\ t.runner = v /\ t.opts = s.opts /\ t.provider = s.provider /\ t.preferred = s.preferred
           /\ t.pending = s.pending /\ t.sessLive = s.sessLive /\ Steady(t, s)
<1>1. s \in EmbedRecords /\ s.panic = FALSE /\ s.optsLive = (IF s.opts = NoOptions THEN 0 ELSE 1)
  BY DEF Sane
<1>2. /\ t \in EmbedRecords /\ t.panic = FALSE /\ t.optsLive = s.optsLive /\ t.opts = s.opts
      /\ t.runner = v /\ t.pending = s.pending /\ t.preferred = s.preferred
      /\ t.sessLive = s.sessLive /\ t.provider = s.provider /\ Steady(t, s)
  BY <1>1 DEF EmbedRecords, Steady
<1> QED
  BY <1>1, <1>2 DEF Sane

(* A cleanup leaves nothing held.                                            *)
LEMMA CleanupIs ==
    ASSUME NEW s, Sane(s), s.runner # "stopped", NEW t, t = Cleanup(s)
    PROVE  Released(t, s)
<1> DEFINE d == DestroyOpts(s)
           v == IF d.runner = "none" THEN "none" ELSE "stopped"
<1>1. Released(d, s) /\ d.runner = s.runner
  BY DestroyOptsIs
<1>2. t = StopRunner(d) /\ v \in {"none", "running", "stopped"}
  BY DEF Cleanup
<1> HIDE DEF d
<1>3. Sane(d) /\ d.runner # "stopped"
  BY <1>1 DEF Released
<1>4. t = [d EXCEPT !.runner = v]
  BY <1>2, <1>3, StopRunnerIs
<1> HIDE DEF v
<1>5. /\ Sane(t) /\ t.opts = d.opts /\ t.provider = d.provider /\ t.preferred = d.preferred
      /\ t.pending = d.pending /\ t.sessLive = d.sessLive /\ Steady(t, d)
  BY <1>2, <1>3, <1>4, SetRunner
<1> QED
  BY <1>1, <1>5 DEF Released, Steady

(* Options put where there were none.                                        *)
LEMMA HoldIs ==
    ASSUME NEW s, Sane(s), s.opts = NoOptions, NEW p \in Providers, s.provider = p, NEW w, NEW b, Built(b, s, p, w), b.ok,
           NEW t, t = [b.s EXCEPT !.opts = b.opts]
    PROVE  Installed(t, s, p)
<1>1. s \in EmbedRecords /\ s.panic = FALSE /\ s.optsLive = 0
  BY DEF Sane
<1>2. BackendOf(s, p) \in Backends /\ BackendOf(s, p)[1] = p /\ BackendOf(s, p) # NoOptions
  BY <1>1, BackendOfIs DEF EmbedRecords
<1>3. CASE b.opts = NoOptions
  <2>1. p = "cpu" /\ b.s = s
    BY <1>3 DEF Built
  <2>2. t = s
    BY <1>1, <1>3, <2>1 DEF EmbedRecords
  <2> QED
    BY <1>3, <2>1, <2>2 DEF Installed, Fits, Steady
<1>4. CASE b.opts # NoOptions
  <2>1. b.opts = BackendOf(s, p) /\ b.s = [s EXCEPT !.optsLive = @ + 1]
    BY <1>4 DEF Built
  <2> DEFINE k == BackendOf(s, p)
  <2>a. k \in Backends /\ s.optsLive + 1 = 1
    BY <1>1, <1>2
  <2>b. t = [s EXCEPT !.optsLive = 1, !.opts = k]
    BY <1>1, <2>1, <2>a DEF EmbedRecords
  <2> HIDE DEF k
  <2>d. t \in EmbedRecords
    <3>1. 1 \in Int /\ k \in Backends \cup {NoOptions}
      BY <2>a
    <3>2. s \in EmbedRecords
      BY <1>1
    <3>3. [s EXCEPT !.optsLive = 1, !.opts = k] \in EmbedRecords
      BY <3>1, <3>2, SetOpts
    <3> QED
      BY <2>b, <3>3, Zenon
  <2>2. /\ t \in EmbedRecords /\ t.panic = FALSE /\ t.optsLive = 1 /\ t.opts = k
        /\ t.runner = s.runner /\ t.pending = s.pending /\ t.preferred = s.preferred
        /\ t.sessLive = s.sessLive /\ t.provider = s.provider /\ Steady(t, s)
    BY <1>1, <2>b, <2>d DEF EmbedRecords, Steady
  <2> QED
    BY <1>2, <2>2 DEF Installed, Sane, Fits, k
<1> QED
  BY <1>3, <1>4

(* The CPU, after the hardware has been let go.                              *)
LEMMA CPUBaseIs ==
    ASSUME NEW s, Sane(s), s.opts = NoOptions, NEW w, NEW base, base = [s EXCEPT !.runner = "none", !.provider = "cpu"]
    PROVE  /\ Sane(base) /\ base.opts = NoOptions /\ base.runner = "none" /\ base.provider = "cpu"
           /\ base.preferred = s.preferred /\ base.pending = s.pending /\ base.sessLive = s.sessLive /\ Steady(base, s)
           /\ Built(FallBackToCPU(s, w), base, "cpu", w)
<1>1. s \in EmbedRecords /\ s.panic = FALSE /\ s.optsLive = 0
  BY DEF Sane
<1>2. /\ base \in EmbedRecords /\ base.panic = FALSE /\ base.optsLive = 0 /\ base.opts = NoOptions
      /\ base.runner = "none" /\ base.pending = s.pending /\ base.preferred = s.preferred
      /\ base.sessLive = s.sessLive /\ base.provider = "cpu" /\ Steady(base, s)
  BY <1>1 DEF EmbedRecords, Steady, Providers
<1>3. Sane(base)
  BY <1>2 DEF Sane
<1>4. FallBackToCPU(s, w) = BuildOpts(base, "cpu", w) /\ "cpu" \in Providers /\ base.runner # "stopped"
  BY <1>2 DEF FallBackToCPU, Providers
<1>5. Built(FallBackToCPU(s, w), base, "cpu", w)
  BY <1>3, <1>4, BuildOptsIs
<1> QED
  BY <1>2, <1>3, <1>5

(* What the CPU gives.                                                       *)
OnCPU(f, base, w) ==
    /\ Made(f, base) /\ f.s.provider = "cpu" /\ f.s.pending = base.pending
    /\ base.env = "up" /\ CPUWorks(base, w) => f.sess # NoSession

(* The first session on the CPU.                                             *)
LEMMA OnCPUIs ==
    ASSUME NEW base, Sane(base), base.opts = NoOptions, base.runner = "none", base.provider = "cpu", NEW w,
           NEW cpu, Built(cpu, base, "cpu", w), NEW f, f = FirstOnCPU(cpu, w)
    PROVE  OnCPU(f, base, w)
<1>1. CPUWorks(base, w) /\ base.env = "up" => cpu.ok
  BY DEF CPUWorks, Built, Sane, EmbedRecords
<1>2. CASE ~ cpu.ok
  <2>1. f = NoneYet(base)
    BY <1>2 DEF FirstOnCPU, NoneYet, Built
  <2>2. Made(f, base)
    BY <2>1, NoneYetIs DEF Fits, Threaded, Providers
  <2> QED
    BY <1>1, <1>2, <2>1, <2>2 DEF OnCPU, NoneYet
<1>3. CASE cpu.ok
  <2> DEFINE t == [cpu.s EXCEPT !.opts = cpu.opts]
  <2>0. "cpu" \in Providers /\ "cpu" # NoSession
    BY DEF Providers, NoSession
  <2>1. Installed(t, base, "cpu")
    BY <1>3, <2>0, HoldIs
  <2>2. f = CreateSession(t, w)
    BY <1>3 DEF FirstOnCPU
  <2> HIDE DEF t
  <2>3. Sane(t) /\ Fits(t) /\ t.runner = "none" /\ t.provider = "cpu"
    BY <2>1 DEF Installed
  <2>4. Created(f, t, w)
    BY <2>0, <2>2, <2>3, CreateSessionIs
  <2>5. Backend(t) = CPU
    BY <2>1 DEF Backend, Installed, BackendOf, CPU
  <2>6. Made(f, base)
    BY <2>0, <2>1, <2>3, <2>4 DEF Made, Created, Installed, Threaded, Steady
  <2>7. base.env = "up" /\ CPUWorks(base, w) => f.sess # NoSession
    BY <2>0, <2>1, <2>3, <2>4, <2>5 DEF Created, CPUWorks, Installed, Steady
  <2> QED
    BY <2>1, <2>3, <2>4, <2>6, <2>7 DEF OnCPU, Created, Installed
<1> QED
  BY <1>2, <1>3


(* A new Embedder before its options: nothing held, a thread when the        *)
(* request may end on hardware.                                              *)
Blank(s) ==
    /\ Sane(s) /\ s.opts = NoOptions /\ s.provider = s.request /\ s.pending = FALSE
    /\ s.runner = IF s.request = "cpu" THEN "none" ELSE "running"

(* The options stage.                                                        *)
Opted(o, s, w) ==
    /\ Sane(o.s) /\ o.s.runner # "stopped" /\ Steady(o.s, s) /\ o.s.sessLive = s.sessLive
    /\ o.s.preferred = s.preferred /\ o.s.pending = FALSE
    /\ o.ok => /\ Fits(o.s) /\ Threaded(o.s) /\ o.s.provider \in Providers
               /\ s.request # "auto" => o.s.provider = s.request
               /\ o.s.provider # "cpu" => o.s.opts = BackendOf(s, o.s.provider)
    /\ s.env = "up" /\ s.request \in {"cpu", "auto"} /\ (s.threads => "cpu" \in w.builds) => o.ok
    /\ s.env = "up" /\ s.request \in w.builds => o.ok

(* The options b of provider p, built for base.                              *)
LEMMA OptedFrom ==
    ASSUME NEW s, NEW w, NEW base, Sane(base), base.opts = NoOptions, Threaded(base), Steady(base, s),
           base.sessLive = s.sessLive, base.preferred = s.preferred, base.pending = FALSE,
           NEW p \in Providers, base.provider = p, s.request # "auto" => p = s.request,
           NEW b, Built(b, base, p, w), NEW o, o = [ok |-> b.ok, s |-> [b.s EXCEPT !.opts = b.opts]],
           s.env = "up" /\ s.request \in {"cpu", "auto"} /\ (s.threads => "cpu" \in w.builds) => b.ok,
           s.env = "up" /\ s.request \in w.builds => b.ok
    PROVE  Opted(o, s, w)
<1> DEFINE t == [b.s EXCEPT !.opts = b.opts]
<1>1. o.ok = b.ok /\ o.s = t
  OBVIOUS
<1>2. CASE ~ b.ok
  <2>1. b.s = base /\ b.opts = NoOptions
    BY <1>2 DEF Built
  <2>2. t = base
    BY <2>1 DEF Sane, EmbedRecords
  <2> HIDE DEF t
  <2>3. base.runner # "stopped"
    BY DEF Threaded
  <2> QED
    BY <1>1, <1>2, <2>2, <2>3 DEF Opted
<1>3. CASE b.ok
  <2>1. Installed(t, base, p)
    BY <1>3, HoldIs
  <2> HIDE DEF t
  <2>2. Sane(t) /\ Fits(t) /\ Threaded(t) /\ t.runner # "stopped" /\ t.provider = p
    BY <2>1 DEF Installed, Threaded
  <2>3. Steady(t, s) /\ t.sessLive = s.sessLive /\ t.preferred = s.preferred /\ t.pending = FALSE
    BY <2>1 DEF Installed, Steady
  <2>4. p # "cpu" => t.opts = BackendOf(s, p)
    BY <2>1 DEF Installed, BackendOf, AttemptedDevice
  <2> QED
    BY <1>1, <1>3, <2>2, <2>3, <2>4 DEF Opted
<1> QED
  BY <1>2, <1>3

(* The options stage, for an explicit request, without hardware, and for the *)
(* first rung that builds.                                                   *)
LEMMA FirstOptionsIs ==
    ASSUME NEW s, Blank(s), NEW w \in Worlds, NEW o, o = FirstOptions(s, w)
    PROVE  Opted(o, s, w)
<1>1. s \in EmbedRecords /\ s.panic = FALSE /\ s.optsLive = 0 /\ s.request \in Providers \cup {"auto"}
  BY DEF Blank, Sane, EmbedRecords
<1>2. s.runner # "stopped" /\ Sane(s) /\ Steady(s, s)
  BY DEF Blank, Steady
<1> DEFINE rungs == {i \in 1..2 : AutoAttemptLadder[i] \in w.builds /\ s.env = "up"}
<1>3. CASE s.request # "auto"
  <2> DEFINE b == BuildOpts(s, s.request, w)
  <2>1. o = [ok |-> b.ok, s |-> [b.s EXCEPT !.opts = b.opts]]
    BY <1>3 DEF FirstOptions
  <2>2. s.request \in Providers /\ Threaded(s) /\ s.provider = s.request
    BY <1>1, <1>3 DEF Blank, Threaded
  <2>3. Built(b, s, s.request, w)
    BY <1>2, <2>2, BuildOptsIs
  <2> HIDE DEF b
  <2>4. /\ s.env = "up" /\ s.request \in {"cpu", "auto"} /\ (s.threads => "cpu" \in w.builds) => b.ok
        /\ s.env = "up" /\ s.request \in w.builds => b.ok
    BY <1>1, <1>3, <2>3 DEF Built, EmbedRecords
  <2>5. s.opts = NoOptions /\ s.pending = FALSE
    BY DEF Blank
  <2> DEFINE p == s.request
  <2>6. p \in Providers /\ s.provider = p /\ (s.request # "auto" => p = s.request) /\ Built(b, s, p, w)
    BY <2>2, <2>3
  <2> HIDE DEF p
  <2> QED
    BY <1>2, <2>1, <2>2, <2>4, <2>5, <2>6, OptedFrom
<1>4. CASE s.request = "auto" /\ rungs = {}
  <2> DEFINE stopped == StopRunner(s)
             b == FallBackToCPU(stopped, w)
             base == [stopped EXCEPT !.runner = "none", !.provider = "cpu"]
  <2>1. o = [ok |-> b.ok, s |-> [b.s EXCEPT !.opts = b.opts]]
    BY <1>4 DEF FirstOptions
  <2>2. stopped = [s EXCEPT !.runner = "stopped"]
    <3>1. s.runner = "running"
      BY <1>4 DEF Blank
    <3> QED
      BY <1>2, <3>1, StopRunnerIs
  <2>3. /\ Sane(stopped) /\ stopped.opts = s.opts /\ stopped.pending = s.pending /\ stopped.preferred = s.preferred
        /\ stopped.sessLive = s.sessLive /\ Steady(stopped, s)
    BY <1>2, <2>2, SetRunner
  <2> HIDE DEF stopped
  <2>4. stopped.opts = NoOptions
    BY <2>3 DEF Blank
  <2>5. /\ Sane(base) /\ base.opts = NoOptions /\ base.runner = "none" /\ base.provider = "cpu"
        /\ base.preferred = stopped.preferred /\ base.pending = stopped.pending /\ base.sessLive = stopped.sessLive
        /\ Steady(base, stopped) /\ Built(b, base, "cpu", w)
    BY <2>3, <2>4, CPUBaseIs
  <2> HIDE DEF b, base
  <2>6. /\ Threaded(base) /\ Steady(base, s) /\ base.sessLive = s.sessLive /\ base.preferred = s.preferred
        /\ base.pending = FALSE
    BY <2>3, <2>5 DEF Threaded, Steady, Blank
  <2>7. base.threads = s.threads /\ base.env = s.env /\ s.threads \in BOOLEAN
    BY <1>1, <2>6 DEF Steady, EmbedRecords
  <2>8. "cpu" \in Providers /\ (s.request # "auto" => "cpu" = s.request)
    BY <1>4 DEF Providers
  <2>9. s.env = "up" /\ s.request \in {"cpu", "auto"} /\ (s.threads => "cpu" \in w.builds) => b.ok
    BY <2>5, <2>7 DEF Built
  <2>10. ~ (s.env = "up" /\ s.request \in w.builds)
    BY <1>4 DEF Worlds, Providers
  <2> QED
    BY <2>1, <2>5, <2>6, <2>8, <2>9, <2>10, OptedFrom
<1>5. CASE s.request = "auto" /\ rungs # {}
  <2> DEFINE i == CHOOSE i \in rungs : \A j \in rungs : i <= j
             p == AutoAttemptLadder[i]
             base == [s EXCEPT !.provider = p]
             b == BuildOpts(base, p, w)
  <2>1. o = [ok |-> b.ok, s |-> [b.s EXCEPT !.opts = b.opts]]
    BY <1>5 DEF FirstOptions
  <2>2. i \in rungs
    <3>1. \E k \in rungs : \A j \in rungs : k <= j
      <4>1. CASE 1 \in rungs
        BY <4>1
      <4>2. CASE 1 \notin rungs
        <5>1. rungs = {2}
          BY <1>5, <4>2
        <5> QED
          BY <5>1
      <4> QED
        BY <4>1, <4>2
    <3> QED
      BY <3>1
  <2> HIDE DEF i
  <2>3. p \in {"cuda", "openvino"} /\ p \in w.builds /\ s.env = "up"
    <3>1. i \in {1, 2} /\ AutoAttemptLadder[i] \in w.builds /\ s.env = "up"
      BY <2>2
    <3> QED
      BY <3>1 DEF AutoAttemptLadder
  <2> HIDE DEF p
  <2>4. /\ base \in EmbedRecords /\ base.panic = FALSE /\ base.optsLive = 0 /\ base.opts = s.opts
        /\ base.runner = s.runner /\ base.pending = s.pending /\ base.preferred = s.preferred
        /\ base.sessLive = s.sessLive /\ base.provider = p /\ Steady(base, s)
    BY <1>1, <2>3 DEF EmbedRecords, Steady, Providers
  <2>5. p \in Providers /\ (s.request # "auto" => p = s.request)
    BY <1>5, <2>3 DEF Providers
  <2>6. b = BuildOpts(base, p, w)
    OBVIOUS
  <2> HIDE DEF base, b
  <2>7. /\ Sane(base) /\ base.opts = NoOptions /\ base.pending = FALSE /\ base.runner = "running" /\ Threaded(base)
        /\ base.env = "up"
    BY <1>5, <2>3, <2>4 DEF Blank, Sane, Threaded, Steady
  <2>8. Built(b, base, p, w)
    BY <2>5, <2>6, <2>7, BuildOptsIs
  <2>9. b.ok
    BY <2>3, <2>7, <2>8 DEF Built
  <2> QED
    BY <2>1, <2>4, <2>5, <2>7, <2>8, <2>9, OptedFrom
<1> QED
  BY <1>3, <1>4, <1>5

(* The eager session of fixed mode.                                          *)
Opened(f, s, w) ==
    /\ Made(f, s) /\ f.s.pending = s.pending
    /\ s.request # "auto" => OnDevices(f, s, w)
    /\ s.request = "auto" /\ s.env = "up" /\ CPUWorks(s, w) => f.sess # NoSession

(* The devices, the ladder and the CPU have each had their turn.             *)
LEMMA FirstSessionIs ==
    ASSUME NEW s, Sane(s), Fits(s), Threaded(s), s.provider \in Providers, NEW w, NEW f, f = FirstSession(s, w)
    PROVE  Opened(f, s, w)
<1> DEFINE device == SessionOnSomeDevice(CreateSession(s, w), w)
<1>1. OnDevices(device, s, w)
  BY OnDevicesIs
<1>2. f = FirstAfterDevices(device, s, w)
  BY DEF FirstSession
<1> HIDE DEF device
<1>3. CASE device.sess # NoSession \/ s.request # "auto" \/ s.provider = "cpu"
  <2>1. f = device
    BY <1>2, <1>3 DEF FirstAfterDevices
  <2>2. s.provider = "cpu" => Backend(s) = CPU
    BY BackendFacts DEF Fits, Backend
  <2> QED
    BY <1>1, <1>3, <2>1, <2>2 DEF Opened, OnDevices, CPUWorks
<1>4. CASE ~ (device.sess # NoSession \/ s.request # "auto" \/ s.provider = "cpu")
  <2> DEFINE d == device.s
             from == LadderIndex(d.provider)
             ladder == AdvanceAutoLadder(d, from, w)
  <2>1. f = FirstAfterLadder(ladder, w)
    BY <1>2, <1>4 DEF FirstAfterDevices
  <2>2. Made(device, s) /\ d.provider = s.provider /\ d.pending = s.pending /\ s.sessLive \in Int
    BY <1>1 DEF OnDevices, Sane, EmbedRecords
  <2>3. Sane(d) /\ Fits(d) /\ Threaded(d) /\ d.provider \in Providers /\ d.provider # "cpu"
    BY <1>4, <2>2 DEF Made
  <2> HIDE DEF from
  <2>4. Laddered(ladder, d)
    BY <2>3, LadderIs
  <2> HIDE DEF ladder
  <2>5. Made(ladder, s) /\ ladder.s.pending = s.pending
    BY <1>4, <2>2, <2>4, MadeAgain DEF Laddered
  <2>6. CASE ladder.sess # NoSession
    BY <1>4, <2>1, <2>5, <2>6 DEF FirstAfterLadder, Opened
  <2>7. CASE ladder.sess = NoSession
    <3> DEFINE c == Cleanup(ladder.s)
               cpu == FallBackToCPU(c, w)
               base == [c EXCEPT !.runner = "none", !.provider = "cpu"]
    <3>1. f = FirstOnCPU(cpu, w)
      BY <2>1, <2>7 DEF FirstAfterLadder
    <3>2. Sane(ladder.s) /\ ladder.s.runner # "stopped" /\ ladder.s.sessLive = s.sessLive /\ Steady(ladder.s, s)
      BY <2>2, <2>5, <2>7 DEF Made, Threaded
    <3>3. Released(c, ladder.s)
      BY <3>2, CleanupIs
    <3> HIDE DEF c
    <3>4. Sane(c) /\ c.opts = NoOptions
      BY <3>3 DEF Released
    <3>5. /\ Sane(base) /\ base.opts = NoOptions /\ base.runner = "none" /\ base.provider = "cpu"
          /\ base.pending = c.pending /\ base.sessLive = c.sessLive /\ Steady(base, c) /\ Built(cpu, base, "cpu", w)
      BY <3>4, CPUBaseIs
    <3> HIDE DEF base, cpu
    <3>6. OnCPU(f, base, w)
      BY <3>1, <3>5, OnCPUIs
    <3>7. base.sessLive = s.sessLive /\ base.pending = s.pending /\ Steady(base, s)
      BY <2>5, <3>2, <3>3, <3>5 DEF Released, Steady
    <3>8. CPUWorks(s, w) => CPUWorks(base, w)
      BY <3>7 DEF CPUWorks, Steady
    <3>9. Made(f, s)
      BY <3>6, <3>7 DEF OnCPU, Made, Steady
    <3> QED
      BY <1>4, <3>6, <3>7, <3>8, <3>9 DEF Opened, OnCPU, Steady
  <2> QED
    BY <2>6, <2>7
<1> QED
  BY <1>3, <1>4


(* The Embedder between two operations.                                      *)
Owned(s) ==
    /\ Sane(s) /\ s.sessLive = Cardinality(Live(s))
    /\ s.state # "ready" => s.opts = NoOptions /\ Live(s) = {} /\ s.runner = "none"
    /\ s.state = "ready" =>
           /\ Fits(s) /\ Threaded(s) /\ s.provider \in Providers
           /\ \A slot \in Live(s) : s.sessions[slot] = s.provider
           /\ s.request # "auto" => s.provider = s.request
           /\ s.pending => s.request = "auto" /\ s.provider # "cpu"

EmbedInv == Owned(embed) /\ LandsWhenItCan

(* The slots are finite, and the live ones depend on the sessions alone.     *)
LEMMA LiveFacts ==
    /\ IsFiniteSet(Slots)
    /\ \A s : IsFiniteSet(Live(s)) /\ Cardinality(Live(s)) \in Nat
    /\ \A t, s : t.sessions = s.sessions => Live(t) = Live(s)
    /\ \A t : t.sessions = Unopened => Live(t) = {}
<1>1. IsFiniteSet({"sess"}) /\ IsFiniteSet({"batch"})
  BY FS_Singleton
<1>2. IsFiniteSet({"sess"} \cup {"batch"})
  BY <1>1, FS_Union
<1>3. IsFiniteSet(({"sess"} \cup {"batch"}) \cup LengthBuckets)
  BY <1>2, EmbedderAssumption, FS_Union
<1>4. Slots = ({"sess"} \cup {"batch"}) \cup LengthBuckets
  BY DEF Slots
<1>5. IsFiniteSet(Slots)
  BY <1>3, <1>4
<1>6. \A s : Live(s) \subseteq Slots
  BY DEF Live
<1>7. \A s : IsFiniteSet(Live(s))
  BY <1>5, <1>6, FS_Subset
<1>8. \A s : Cardinality(Live(s)) \in Nat
  BY <1>7, FS_CardinalityType
<1>9. \A t, s : t.sessions = s.sessions => Live(t) = Live(s)
  BY DEF Live
<1>10. \A t : t.sessions = Unopened => Live(t) = {}
  BY DEF Live, Unopened
<1> QED
  BY <1>5, <1>7, <1>8, <1>9, <1>10

(* A failed NewEmbedder.                                                     *)
LEMMA FailedIs ==
    ASSUME NEW t, Sane(t), t.opts = NoOptions, t.sessLive = 0, Live(t) = {}, NEW e, e = Failed(t)
    PROVE  Owned(e) /\ e.state = "none"
<1>1. t \in EmbedRecords /\ t.panic = FALSE /\ t.optsLive = 0
  BY DEF Sane
<1>2. /\ e \in EmbedRecords /\ e.panic = FALSE /\ e.optsLive = 0 /\ e.opts = NoOptions /\ e.state = "none"
      /\ e.runner = "none" /\ e.sessions = t.sessions /\ e.sessLive = 0
  BY <1>1 DEF EmbedRecords, Failed
<1>3. Live(e) = {}
  BY <1>2, LiveFacts
<1>4. Cardinality(Live(e)) = 0
  BY <1>3, FS_EmptySet
<1> QED
  BY <1>2, <1>3, <1>4 DEF Owned, Sane

(* A NewEmbedder that worked out.                                            *)
LEMMA ReadyIs ==
    ASSUME NEW t, Sane(t), Fits(t), Threaded(t), t.provider \in Providers, NEW sess \in {NoSession, t.provider},
           t.sessLive = (IF sess = NoSession THEN 0 ELSE 1), t.request # "auto" => t.provider = t.request,
           NEW e, e = Ready(t, sess)
    PROVE  Owned(e) /\ e.state = "ready"
<1> DEFINE held == [Unopened EXCEPT !["sess"] = sess]
           pend == t.request = "auto" /\ t.provider # "cpu"
<1>1. t \in EmbedRecords /\ t.panic = FALSE /\ t.optsLive = (IF t.opts = NoOptions THEN 0 ELSE 1)
  BY DEF Sane
<1>2. "sess" \in Slots /\ sess \in Providers \cup {NoSession}
  BY DEF Slots
<1>3. held \in [Slots -> Providers \cup {NoSession}] /\ pend \in BOOLEAN
  BY <1>2 DEF Unopened
<1>4. e = [t EXCEPT !.state = "ready", !.sessions = held, !.pending = pend]
  BY DEF Ready
<1>5. \A slot \in Slots : held[slot] = IF slot = "sess" THEN sess ELSE NoSession
  BY <1>2 DEF Unopened
<1> HIDE DEF held, pend
<1>6. /\ e \in EmbedRecords /\ e.panic = FALSE /\ e.optsLive = t.optsLive /\ e.opts = t.opts /\ e.state = "ready"
      /\ e.runner = t.runner /\ e.sessions = held /\ e.sessLive = t.sessLive /\ e.provider = t.provider
      /\ e.request = t.request /\ e.pending = pend
  BY <1>1, <1>3, <1>4 DEF EmbedRecords
<1>7. Live(e) = IF sess = NoSession THEN {} ELSE {"sess"}
  BY <1>2, <1>5, <1>6 DEF Live
<1>8. e.sessLive = Cardinality(Live(e))
  <2>1. Cardinality({}) = 0
    BY FS_EmptySet
  <2>2. Cardinality({"sess"}) = 1
    BY FS_Singleton
  <2> QED
    BY <1>6, <1>7, <2>1, <2>2
<1>9. \A slot \in Live(e) : e.sessions[slot] = e.provider
  BY <1>2, <1>5, <1>6, <1>7
<1>10. Sane(e) /\ Fits(e) /\ Threaded(e)
  BY <1>1, <1>6 DEF Sane, Fits, Threaded
<1>11. e.pending => e.request = "auto" /\ e.provider # "cpu"
  BY <1>6 DEF pend
<1> QED
  BY <1>6, <1>8, <1>9, <1>10, <1>11 DEF Owned

(* What it takes for NewEmbedder to have no excuse.                          *)
CouldOpen(r, w) ==
    \/ r.provider \in {"cpu", "auto"} /\ CPUWorks(r, w)
    \/ r.provider = "openvino" /\ "openvino" \in w.builds /\ \E i \in DeviceIds : OpenVINO(i) \in w.runs

(* A request keeps the record a record.                                      *)
LEMMA RequestedType ==
    ASSUME NEW s, s \in EmbedRecords, NEW r \in Requests, NEW v \in {"none", "running", "stopped"},
           NEW t, t = [s EXCEPT !.request = r.provider, !.provider = r.provider, !.buckets = r.buckets,
                                !.threads = r.threads, !.opts = NoOptions, !.pending = FALSE, !.runner = v]
    PROVE  t \in EmbedRecords
<1> DEFINE p == r.provider
           lengths == r.buckets
           many == r.threads
           o == NoOptions
           pend == FALSE
           one == [s EXCEPT !.request = p, !.provider = p]
           two == [one EXCEPT !.buckets = lengths, !.threads = many]
           three == [two EXCEPT !.opts = o]
           four == [three EXCEPT !.pending = pend]
           five == [four EXCEPT !.runner = v]
<1>1. t = five
  BY DEF EmbedRecords
<1>2. p \in Providers \cup {"auto"} /\ lengths \in BOOLEAN /\ many \in BOOLEAN
  BY DEF Requests
<1>3. o \in Backends \cup {NoOptions} /\ pend \in BOOLEAN
  OBVIOUS
<1> HIDE DEF p, lengths, many, o, pend
<1>4. one \in EmbedRecords
  BY <1>2 DEF EmbedRecords
<1> HIDE DEF one
<1>5. two \in EmbedRecords
  BY <1>2, <1>4 DEF EmbedRecords
<1> HIDE DEF two
<1>6. three \in EmbedRecords
  BY <1>3, <1>5 DEF EmbedRecords
<1> HIDE DEF three
<1>7. four \in EmbedRecords
  BY <1>3, <1>6 DEF EmbedRecords
<1> HIDE DEF four
<1>8. five \in EmbedRecords
  BY <1>7 DEF EmbedRecords
<1> HIDE DEF five
<1> QED
  BY <1>1, <1>8

(* A new request starts from nothing held.                                   *)
LEMMA BlankIs ==
    ASSUME NEW s, Owned(s), s.state # "ready", NEW r \in Requests, NEW fault \in Faults,
           NEW q, q = InitONNXRuntime(Requested(s, r), fault)
    PROVE  /\ Blank(q) /\ q.request = r.provider /\ q.threads = r.threads /\ q.sessLive = 0 /\ Live(q) = {}
           /\ s.env \in {"fresh", "up"} /\ fault = "none" => q.env = "up"
<1> DEFINE a == Requested(s, r)
           thread == IF UsesDedicatedThread(r.provider) THEN "running" ELSE "none"
           env == IF fault = "library" THEN "failed" ELSE "up"
<1>1. s \in EmbedRecords /\ s.panic = FALSE /\ s.optsLive = 0 /\ s.opts = NoOptions /\ Live(s) = {} /\ s.sessLive = 0
  <2>1. Cardinality({}) = 0
    BY FS_EmptySet
  <2> QED
    BY <2>1 DEF Owned, Sane
<1>2. r.provider \in Providers \cup {"auto"} /\ r.buckets \in BOOLEAN /\ r.threads \in BOOLEAN
  BY DEF Requests
<1>3. thread = (IF r.provider = "cpu" THEN "none" ELSE "running") /\ thread \in {"none", "running", "stopped"}
  BY <1>2 DEF UsesDedicatedThread, Providers
<1>4. a = [s EXCEPT !.request = r.provider, !.provider = r.provider, !.buckets = r.buckets,
                    !.threads = r.threads, !.opts = NoOptions, !.pending = FALSE, !.runner = thread]
  BY DEF Requested
<1>5. q = IF a.env # "fresh" THEN a ELSE [OnORTThread(a) EXCEPT !.env = env]
  BY DEF InitONNXRuntime
<1>6. env \in {"failed", "up"} /\ (fault = "none" => env = "up")
  OBVIOUS
<1> HIDE DEF a, thread, env
<1>7. a \in EmbedRecords
  <2>1. s \in EmbedRecords
    BY <1>1
  <2> QED
    BY <1>3, <1>4, <2>1, RequestedType
<1>8. /\ a.panic = FALSE /\ a.optsLive = 0 /\ a.opts = NoOptions /\ a.runner = thread /\ a.sessions = s.sessions
      /\ a.sessLive = 0 /\ a.env = s.env /\ a.request = r.provider /\ a.provider = r.provider /\ a.threads = r.threads
      /\ a.pending = FALSE
  BY <1>1, <1>4 DEF EmbedRecords
<1>9. Live(a) = {}
  BY <1>1, <1>8, LiveFacts
<1>10. Blank(a)
  BY <1>3, <1>7, <1>8 DEF Blank, Sane
<1>11. CASE a.env # "fresh"
  BY <1>5, <1>8, <1>9, <1>10, <1>11
<1>12. CASE a.env = "fresh"
  <2>1. OnORTThread(a) = a
    BY <1>3, <1>8, <1>10, OnThread DEF Blank
  <2>2. q = [a EXCEPT !.env = env]
    BY <1>5, <1>12, <2>1
  <2>3. q \in EmbedRecords
    BY <1>6, <1>7, <2>2 DEF EmbedRecords
  <2>4. /\ q.panic = FALSE /\ q.optsLive = 0 /\ q.opts = NoOptions /\ q.runner = thread /\ q.sessions = a.sessions
        /\ q.sessLive = 0 /\ q.env = env /\ q.request = r.provider /\ q.provider = r.provider /\ q.threads = r.threads
        /\ q.pending = FALSE
    BY <1>7, <1>8, <2>2 DEF EmbedRecords
  <2>5. Live(q) = {}
    BY <1>9, <2>4, LiveFacts
  <2> QED
    BY <1>3, <1>6, <2>3, <2>4, <2>5 DEF Blank, Sane
<1> QED
  BY <1>11, <1>12

(* NewEmbedder fails without leaving anything, or delivers an Embedder.      *)
LEMMA NewEmbedderIs ==
    ASSUME NEW s, Owned(s), s.state # "ready", NEW r \in Requests, NEW w \in Worlds, NEW fault \in Faults,
           NEW e, e = NewEmbedderOf(s, r, w, fault)
    PROVE  Owned(e) /\ (CouldOpen(r, w) /\ fault = "none" /\ s.env \in {"fresh", "up"} => e.state = "ready")
<1> DEFINE q == InitONNXRuntime(Requested(s, r), fault)
           o == FirstOptions(q, w)
           f == FirstSession(o.s, w)
           Able == CouldOpen(r, w) /\ fault = "none" /\ s.env \in {"fresh", "up"}
<1>1. /\ Blank(q) /\ q.request = r.provider /\ q.threads = r.threads /\ q.sessLive = 0 /\ Live(q) = {}
      /\ Able => q.env = "up"
  BY BlankIs
<1>2. e = IF q.env = "failed" THEN Failed(StopRunner(q)) ELSE WithOptions(o, r, w, fault)
  BY DEF NewEmbedderOf, Started
<1>3. fault = "none" \/ ~ Able
  OBVIOUS
<1>4. Able => CouldOpen(r, w)
  OBVIOUS
<1> SUFFICES Owned(e) /\ (Able => e.state = "ready")
  OBVIOUS
<1> HIDE DEF q, Able
<1>5. Opted(o, q, w)
  BY <1>1, FirstOptionsIs
<1>6. CASE q.env = "failed"
  <2> DEFINE t == StopRunner(q)
             v == IF q.runner = "none" THEN "none" ELSE "stopped"
  <2>1. Sane(q) /\ q.runner # "stopped" /\ q.opts = NoOptions /\ v \in {"none", "running", "stopped"}
    BY <1>1 DEF Blank
  <2>2. t = [q EXCEPT !.runner = v]
    BY <2>1, StopRunnerIs
  <2>3. e = Failed(t)
    BY <1>2, <1>6
  <2> HIDE DEF t, v
  <2>4. Sane(t) /\ t.opts = q.opts /\ t.sessLive = q.sessLive /\ Steady(t, q)
    BY <2>1, <2>2, SetRunner
  <2>5. Live(t) = {}
    BY <1>1, <2>4, LiveFacts DEF Steady
  <2>6. Owned(e)
    BY <1>1, <2>1, <2>3, <2>4, <2>5, FailedIs
  <2> QED
    BY <1>1, <1>6, <2>6
<1> HIDE DEF o
<1>7. CASE q.env # "failed" /\ (~ o.ok \/ fault = "tokenizer")
  <2> DEFINE t == Cleanup(o.s)
  <2>1. e = Failed(t)
    BY <1>2, <1>7 DEF WithOptions
  <2>2. Sane(o.s) /\ o.s.runner # "stopped" /\ o.s.sessLive = 0 /\ o.s.sessions = q.sessions
    BY <1>1, <1>5 DEF Opted, Steady
  <2>3. Released(t, o.s)
    BY <2>2, CleanupIs
  <2> HIDE DEF t
  <2>4. Sane(t) /\ t.opts = NoOptions /\ t.sessLive = 0 /\ t.sessions = q.sessions
    BY <2>2, <2>3 DEF Released, Steady
  <2>5. Live(t) = {}
    BY <1>1, <2>4, LiveFacts
  <2>6. Owned(e)
    BY <2>1, <2>4, <2>5, FailedIs
  <2>7. Able => o.ok
    <3>1. q.request = r.provider /\ q.threads = r.threads
      BY <1>1
    <3> QED
      BY <1>1, <1>4, <1>5, <3>1 DEF Opted, CouldOpen, CPUWorks
  <2>8. fault = "tokenizer" => ~ Able
    BY <1>3
  <2> QED
    BY <1>7, <2>6, <2>7, <2>8
<1>8. CASE q.env # "failed" /\ o.ok /\ fault # "tokenizer"
  <2>1. /\ Sane(o.s) /\ Fits(o.s) /\ Threaded(o.s) /\ o.s.provider \in Providers /\ o.s.sessLive = 0
        /\ o.s.request = q.request /\ o.s.threads = q.threads /\ o.s.env = q.env /\ o.s.sessions = q.sessions
        /\ (q.request # "auto" => o.s.provider = q.request)
        /\ (o.s.provider # "cpu" => o.s.opts = BackendOf(q, o.s.provider)) /\ o.s.preferred = q.preferred
    BY <1>1, <1>5, <1>8 DEF Opted, Steady
  <2>2. CASE r.buckets
    <3>1. e = Ready(o.s, NoSession)
      BY <1>2, <1>8, <2>2 DEF WithOptions
    <3>2. Owned(e) /\ e.state = "ready"
      BY <2>1, <3>1, ReadyIs
    <3> QED
      BY <3>2
  <2>3. CASE ~ r.buckets
    <3>1. e = WithSession(f)
      BY <1>2, <1>8, <2>3 DEF WithOptions
    <3>2. Opened(f, o.s, w)
      BY <2>1, FirstSessionIs
    <3> HIDE DEF f
    <3>3. /\ Sane(f.s) /\ Fits(f.s) /\ Threaded(f.s) /\ f.s.provider \in Providers /\ Steady(f.s, o.s)
          /\ f.sess \in {NoSession, f.s.provider} /\ f.s.sessLive = (IF f.sess = NoSession THEN 0 ELSE 1)
      <4>1. Made(f, o.s)
        BY <3>2 DEF Opened
      <4>2. f.s.sessLive = (IF f.sess = NoSession THEN 0 ELSE 1)
        BY <2>1, <4>1 DEF Made
      <4> QED
        BY <4>1, <4>2 DEF Made
    <3>4. f.s.request # "auto" => f.s.provider = f.s.request
      BY <2>1, <3>2, <3>3 DEF Opened, OnDevices, Steady
    <3>5. CASE f.sess # NoSession
      <4>1. e = Ready(f.s, f.sess)
        BY <3>1, <3>5 DEF WithSession
      <4>2. Owned(e) /\ e.state = "ready"
        BY <3>3, <3>4, <4>1, ReadyIs
      <4> QED
        BY <4>2
    <3>6. CASE f.sess = NoSession
      <4> DEFINE t == Cleanup(f.s)
      <4>1. e = Failed(t)
        BY <3>1, <3>6 DEF WithSession
      <4>2. f.s.runner # "stopped" /\ f.s.sessLive = 0 /\ f.s.sessions = q.sessions
        BY <2>1, <3>3, <3>6 DEF Threaded, Steady
      <4>3. Released(t, f.s)
        BY <3>3, <4>2, CleanupIs
      <4> HIDE DEF t
      <4>4. Sane(t) /\ t.opts = NoOptions /\ t.sessLive = 0 /\ t.sessions = q.sessions
        BY <4>2, <4>3 DEF Released, Steady
      <4>5. Live(t) = {}
        BY <1>1, <4>4, LiveFacts
      <4>6. Owned(e)
        BY <4>1, <4>4, <4>5, FailedIs
      <4>7. ~ Able
        <5> SUFFICES ASSUME Able PROVE FALSE
          OBVIOUS
        <5>1. o.s.env = "up" /\ o.s.request = r.provider /\ CouldOpen(r, w)
          BY <1>1, <1>4, <2>1
        <5>2. CPUWorks(r, w) => CPUWorks(o.s, w)
          BY <1>1, <2>1 DEF CPUWorks
        <5>3. CASE r.provider = "auto"
          BY <3>2, <3>6, <5>1, <5>2, <5>3 DEF Opened, CouldOpen
        <5>4. CASE r.provider = "cpu"
          <6>1. o.s.provider = "cpu" /\ CPU \in w.runs
            BY <1>1, <2>1, <5>1, <5>4 DEF CouldOpen, CPUWorks
          <6>2. Backend(o.s) = CPU
            BY <2>1, <6>1, BackendFacts DEF Fits, Backend
          <6>3. OnDevices(f, o.s, w)
            BY <3>2, <5>1, <5>4 DEF Opened
          <6> QED
            BY <3>6, <5>1, <6>1, <6>2, <6>3 DEF OnDevices
        <5>5. CASE r.provider = "openvino"
          <6>1. o.s.provider = "openvino" /\ "openvino" \in w.builds
            BY <1>1, <2>1, <5>1, <5>5 DEF CouldOpen
          <6>2. PICK i \in DeviceIds : OpenVINO(i) \in w.runs
            BY <5>1, <5>5 DEF CouldOpen
          <6>3. OnDevices(f, o.s, w)
            BY <3>2, <5>1, <5>5 DEF Opened
          <6>4. i = AttemptedDevice(o.s)
            BY <3>6, <5>1, <6>1, <6>2, <6>3 DEF OnDevices
          <6>5. AttemptedDevice(o.s) = AttemptedDevice(q)
            BY <2>1 DEF AttemptedDevice
          <6>6. o.s.opts = OpenVINO(i)
            BY <2>1, <6>1, <6>4, <6>5 DEF BackendOf
          <6>7. Backend(o.s) = OpenVINO(i)
            BY <6>6, BackendFacts DEF Backend
          <6> QED
            BY <3>6, <5>1, <6>2, <6>3, <6>7 DEF OnDevices
        <5> QED
          BY <5>1, <5>3, <5>4, <5>5 DEF CouldOpen
      <4> QED
        BY <4>6, <4>7
    <3> QED
      BY <3>5, <3>6
  <2> QED
    BY <2>2, <2>3
<1> QED
  BY <1>6, <1>7, <1>8


(* Hardware given up for the CPU, or kept because the CPU has no options.    *)
Degraded(d, s, w) ==
    /\ Sane(d.s) /\ Fits(d.s) /\ Threaded(d.s) /\ d.s.provider \in Providers
    /\ Steady(d.s, s) /\ d.s.sessLive = s.sessLive
    /\ ~ d.ok => d.s = s
    /\ d.ok => d.s.provider = "cpu" /\ d.s.pending = FALSE /\ Backend(d.s) = CPU
    /\ s.env = "up" /\ CPUWorks(s, w) => d.ok

(* The CPU takes over only once its options are built.                       *)
LEMMA DegradeIs ==
    ASSUME NEW s, Sane(s), Fits(s), Threaded(s), s.provider \in Providers, s.provider # "cpu", NEW w,
           NEW d, d = DegradeToCPU(s, w)
    PROVE  Degraded(d, s, w)
<1> DEFINE b == BuildOpts(s, "cpu", w)
           new == ReplaceOpts(b.s, b.opts)
           t == Install(b.s, "cpu", b.opts)
           u == [StopRunner(new) EXCEPT !.runner = "none", !.provider = "cpu", !.pending = FALSE]
<1>1. s.runner = "running" /\ "cpu" \in Providers
  BY DEF Threaded, Providers
<1>2. Built(b, s, "cpu", w)
  BY <1>1, BuildOptsIs
<1>3. CPUWorks(s, w) /\ s.env = "up" => b.ok
  BY <1>2 DEF CPUWorks, Built, Sane, EmbedRecords
<1>4. d = IF ~ b.ok THEN [ok |-> FALSE, s |-> b.s] ELSE [ok |-> TRUE, s |-> u]
  BY DEF DegradeToCPU
<1>5. t = [new EXCEPT !.provider = "cpu"] /\ b = BuildOpts(s, "cpu", w)
  BY DEF Install
<1>6. b.ok => Installed(t, s, "cpu")
  <2> HAVE b.ok
  <2> QED
    BY <1>1, <1>5, InstallIs
<1>a. b.ok => b.s.runner = "running" /\ b.s.panic = FALSE /\ b.s \in EmbedRecords /\ b.opts \in Backends \cup {NoOptions}
  <2> HAVE b.ok
  <2>1. s \in EmbedRecords /\ s.panic = FALSE /\ BackendOf(s, "cpu") \in Backends
    BY <1>1, BackendOfIs DEF Sane, EmbedRecords
  <2> HIDE DEF b
  <2>2. CASE b.opts = NoOptions
    BY <1>1, <1>2, <2>1, <2>2 DEF Built
  <2>3. CASE b.opts # NoOptions
    <3>1. b.opts = BackendOf(s, "cpu") /\ b.s = [s EXCEPT !.optsLive = @ + 1]
      BY <1>2, <2>3 DEF Built
    <3>2. b.s.runner = "running" /\ b.s.panic = FALSE /\ b.s \in EmbedRecords
      BY <1>1, <2>1, <3>1 DEF EmbedRecords
    <3> QED
      BY <2>1, <3>1, <3>2
  <2> QED
    BY <2>2, <2>3
<1> HIDE DEF b
<1>7. CASE ~ b.ok
  <2>1. b.s = s
    BY <1>2, <1>7 DEF Built
  <2>2. d.ok = FALSE /\ d.s = s
    BY <1>4, <1>7, <2>1
  <2> QED
    BY <1>3, <1>7, <2>2 DEF Degraded, Steady
<1>8. CASE b.ok
  <2>1. OnORTThread(b.s) = b.s
    <3>1. (FALSE \/ b.s.runner = "stopped") = FALSE
      BY <1>8, <1>a
    <3>2. OnORTThread(b.s) = [b.s EXCEPT !.panic = FALSE]
      BY <1>8, <1>a, <3>1 DEF OnORTThread
    <3>3. b.s \in EmbedRecords /\ b.s.panic = FALSE
      BY <1>8, <1>a
    <3>4. [b.s EXCEPT !.panic = FALSE] = b.s
      BY <3>3 DEF EmbedRecords
    <3> QED
      BY <3>2, <3>4
  <2> DEFINE left == IF b.s.opts = NoOptions THEN b.s.optsLive ELSE b.s.optsLive - 1
  <2>2. new = [b.s EXCEPT !.optsLive = left, !.opts = b.opts]
    <3>1. CASE b.s.opts = NoOptions
      BY <1>8, <1>a, <2>1, <3>1 DEF ReplaceOpts, DestroyOpts, EmbedRecords
    <3>2. CASE b.s.opts # NoOptions
      BY <1>8, <1>a, <2>1, <3>2 DEF ReplaceOpts, DestroyOpts, EmbedRecords
    <3> QED
      BY <3>1, <3>2
  <2>3. left \in Int /\ b.s \in EmbedRecords /\ b.opts \in Backends \cup {NoOptions}
    BY <1>8, <1>a DEF EmbedRecords
  <2> HIDE DEF left
  <2>4. new \in EmbedRecords
    BY <2>2, <2>3, SetOpts
  <2>5. new.runner = "running" /\ new.panic = FALSE
    BY <1>8, <1>a, <2>2 DEF EmbedRecords
  <2>6. u = [StopRunner(new) EXCEPT !.runner = "none", !.provider = "cpu", !.pending = FALSE]
    OBVIOUS
  <2> HIDE DEF new, u
  <2>7. StopRunner(new) = [new EXCEPT !.runner = "stopped"]
    <3>1. (FALSE \/ new.runner = "stopped") = FALSE
      BY <2>5
    <3>2. OnORTThread(new) = [new EXCEPT !.panic = FALSE]
      BY <2>5, <3>1 DEF OnORTThread
    <3>3. OnORTThread(new) = new
      BY <2>4, <2>5, <3>2 DEF EmbedRecords
    <3> QED
      BY <2>5, <3>3 DEF StopRunner
  <2>8. u = [t EXCEPT !.runner = "none", !.pending = FALSE]
    BY <1>5, <2>4, <2>6, <2>7 DEF EmbedRecords
  <2>9. Installed(t, s, "cpu")
    BY <1>6, <1>8
  <2>a. d.ok = TRUE /\ d.s = u
    BY <1>4, <1>8
  <2> HIDE DEF t
  <2>10. t \in EmbedRecords /\ t.panic = FALSE /\ t.optsLive = (IF t.opts = NoOptions THEN 0 ELSE 1)
    BY <2>9 DEF Installed, Sane
  <2>11. u \in EmbedRecords
    <3> DEFINE one == [t EXCEPT !.runner = "none"]
    <3>1. u = [one EXCEPT !.pending = FALSE]
      BY <2>8, <2>10 DEF EmbedRecords
    <3>2. one \in EmbedRecords
      BY <2>10 DEF EmbedRecords
    <3> HIDE DEF one
    <3> QED
      BY <3>1, <3>2 DEF EmbedRecords
  <2>12. /\ u.panic = FALSE /\ u.optsLive = t.optsLive /\ u.opts = t.opts /\ u.runner = "none"
         /\ u.pending = FALSE /\ u.sessLive = t.sessLive /\ u.provider = t.provider /\ Steady(u, t)
    BY <2>8, <2>10 DEF EmbedRecords, Steady
  <2>13. Sane(u) /\ Fits(u) /\ u.provider = "cpu" /\ Threaded(u) /\ Steady(u, s) /\ u.sessLive = s.sessLive
    BY <2>9, <2>10, <2>11, <2>12 DEF Sane, Fits, Threaded, Steady, Installed
  <2>14. Backend(u) = CPU
    BY <2>13, BackendFacts DEF Fits, Backend
  <2> QED
    BY <1>1, <1>3, <2>a, <2>12, <2>13, <2>14 DEF Degraded
<1> QED
  BY <1>7, <1>8

(* A lazy session, with its fallbacks.                                       *)
Fallen(n, s, w) ==
    /\ Made(n, s)
    /\ ~ CanDegradeToCPU(s) => n.s.provider = s.provider /\ n.s.pending = s.pending
    /\ n.s.pending => s.pending /\ n.s.provider # "cpu"
    /\ s.env = "up" /\ CPUWorks(s, w) /\ (CanDegradeToCPU(s) \/ s.provider = "cpu") => n.sess # NoSession

(* A lazy session reaches the CPU only while no session is live.             *)
LEMMA FallbackIs ==
    ASSUME NEW s, Sane(s), Fits(s), Threaded(s), s.provider \in Providers, s.pending => s.provider # "cpu", NEW w,
           NEW n, n = NewSessionWithFallback(s, w)
    PROVE  Fallen(n, s, w)
<1> DEFINE device == SessionOnSomeDevice(CreateSession(s, w), w)
<1>1. OnDevices(device, s, w)
  BY OnDevicesIs
<1>2. n = AfterDevices(device, s, w)
  BY DEF NewSessionWithFallback
<1> HIDE DEF device
<1>3. s.provider = "cpu" => Backend(s) = CPU
  BY BackendFacts DEF Fits, Backend
<1>4. s.provider = "cpu" => ~ CanDegradeToCPU(s)
  BY DEF CanDegradeToCPU
<1>5. CASE device.sess # NoSession \/ ~ CanDegradeToCPU(s)
  <2>1. n = device
    BY <1>2, <1>5 DEF AfterDevices
  <2> QED
    BY <1>1, <1>3, <1>5, <2>1 DEF Fallen, OnDevices, CPUWorks
<1>6. CASE ~ (device.sess # NoSession \/ ~ CanDegradeToCPU(s))
  <2> DEFINE d == device.s
             from == LadderIndex(d.provider)
             ladder == AdvanceAutoLadder(d, from, w)
             cpu == DegradeToCPU(ladder.s, w)
  <2>1. n = AfterLadder(ladder, w)
    BY <1>2, <1>6 DEF AfterDevices
  <2>2. Made(device, s) /\ d.provider = s.provider /\ d.pending = s.pending /\ s.sessLive \in Int /\ s.pending
    BY <1>1, <1>6 DEF OnDevices, Sane, EmbedRecords, CanDegradeToCPU
  <2>3. Sane(d) /\ Fits(d) /\ Threaded(d) /\ d.provider \in Providers /\ d.provider # "cpu"
    BY <1>6, <2>2 DEF Made
  <2> HIDE DEF from
  <2>4. Laddered(ladder, d)
    BY <2>3, LadderIs
  <2>5. n = IF ladder.sess # NoSession THEN ladder ELSE DegradedSession(cpu, w)
    BY <2>1 DEF AfterLadder
  <2> HIDE DEF ladder
  <2>6. Made(ladder, s) /\ ladder.s.pending = s.pending /\ ladder.s.provider # "cpu"
    BY <1>6, <2>2, <2>4, MadeAgain DEF Laddered
  <2>7. CASE ladder.sess # NoSession
    BY <1>6, <2>2, <2>5, <2>6, <2>7 DEF Fallen
  <2>8. CASE ladder.sess = NoSession
    <3>1. /\ Sane(ladder.s) /\ Fits(ladder.s) /\ Threaded(ladder.s) /\ ladder.s.provider \in Providers
          /\ Steady(ladder.s, s) /\ ladder.s.sessLive = s.sessLive
      BY <2>2, <2>6, <2>8 DEF Made
    <3>2. Degraded(cpu, ladder.s, w)
      BY <2>6, <3>1, DegradeIs
    <3>3. n = DegradedSession(cpu, w)
      BY <2>5, <2>8
    <3> HIDE DEF cpu
    <3>4. s.env = "up" /\ CPUWorks(s, w) => cpu.ok
      BY <3>1, <3>2 DEF Degraded, Steady, CPUWorks
    <3>5. CASE ~ cpu.ok
      <4>1. n = NoneYet(ladder.s)
        BY <3>2, <3>3, <3>5 DEF DegradedSession, NoneYet, Degraded
      <4>2. n.s = ladder.s
        BY <4>1 DEF NoneYet
      <4>3. Made(n, ladder.s)
        BY <3>1, <4>1, NoneYetIs
      <4>4. Made(n, s)
        BY <2>2, <2>6, <2>8, <4>3, MadeAgain
      <4> QED
        BY <1>6, <2>2, <2>6, <3>4, <3>5, <4>2, <4>4 DEF Fallen
    <3>6. CASE cpu.ok
      <4>1. n = CreateSession(cpu.s, w)
        BY <3>3, <3>6 DEF DegradedSession
      <4>2. /\ Sane(cpu.s) /\ Fits(cpu.s) /\ Threaded(cpu.s) /\ cpu.s.provider = "cpu" /\ cpu.s.provider \in Providers
            /\ cpu.s.pending = FALSE /\ Steady(cpu.s, s) /\ cpu.s.sessLive = s.sessLive /\ Backend(cpu.s) = CPU
        BY <3>1, <3>2, <3>6 DEF Degraded, Steady
      <4>3. cpu.s.runner # "stopped" /\ "cpu" # NoSession
        BY <4>2 DEF Threaded, NoSession
      <4>4. Created(n, cpu.s, w)
        BY <4>1, <4>2, <4>3, CreateSessionIs
      <4>5. Made(n, s) /\ n.s.pending = FALSE
        BY <4>2, <4>4 DEF Created, Made, Steady, Threaded
      <4>6. s.env = "up" /\ CPUWorks(s, w) => n.sess # NoSession
        BY <4>2, <4>3, <4>4 DEF Created, CPUWorks, Steady
      <4> QED
        BY <1>6, <4>5, <4>6 DEF Fallen
    <3> QED
      BY <3>5, <3>6
  <2> QED
    BY <2>7, <2>8
<1> QED
  BY <1>5, <1>6

(* One slot of an Embedder that is ready.                                    *)
Ensured(e, s, slot, w) ==
    /\ Owned(e) /\ e.state = "ready" /\ Live(s) \subseteq Live(e)
    /\ (Live(s) = {} /\ s.env = "up" /\ CPUWorks(s, w) /\ (s.pending \/ s.provider = "cpu")) => slot \in Live(e)

(* One more session keeps all of them on one provider.                       *)
LEMMA EnsureIs ==
    ASSUME NEW s, Owned(s), s.state = "ready", NEW slot \in Slots, NEW w, NEW e, e = EnsureSession(s, slot, w)
    PROVE  Ensured(e, s, slot, w)
<1>1. /\ Sane(s) /\ Fits(s) /\ Threaded(s) /\ s.provider \in Providers /\ s.sessLive = Cardinality(Live(s))
      /\ (\A x \in Live(s) : s.sessions[x] = s.provider) /\ (s.request # "auto" => s.provider = s.request)
      /\ (s.pending => s.request = "auto" /\ s.provider # "cpu")
  BY DEF Owned
<1>2. s.sessions \in [Slots -> Providers \cup {NoSession}]
  BY <1>1 DEF Sane, EmbedRecords
<1>3. CASE s.sessions[slot] # NoSession
  <2>1. e = s /\ slot \in Live(s)
    BY <1>3 DEF EnsureSession, Live
  <2> QED
    BY <2>1 DEF Ensured
<1>4. CASE s.sessions[slot] = NoSession
  <2> DEFINE n == NewSessionWithFallback(s, w)
  <2>1. Fallen(n, s, w)
    BY <1>1, FallbackIs
  <2>2. e = [n.s EXCEPT !.sessions[slot] = n.sess]
    BY <1>4 DEF EnsureSession, Keep
  <2> HIDE DEF n
  <2>3. /\ Sane(n.s) /\ Fits(n.s) /\ Threaded(n.s) /\ Steady(n.s, s) /\ n.sess \in {NoSession, n.s.provider}
        /\ n.s.provider \in Providers /\ n.s.sessLive = s.sessLive + (IF n.sess = NoSession THEN 0 ELSE 1)
    BY <2>1 DEF Fallen, Made
  <2>4. n.s \in EmbedRecords /\ n.s.panic = FALSE /\ n.s.sessions = s.sessions /\ n.s.request = s.request
        /\ n.s.state = "ready"
    BY <2>3 DEF Sane, Steady
  <2> DEFINE held == [s.sessions EXCEPT ![slot] = n.sess]
  <2>5. e = [n.s EXCEPT !.sessions = held]
    BY <2>2, <2>4 DEF EmbedRecords
  <2>6. held \in [Slots -> Providers \cup {NoSession}]
    BY <1>2, <2>3
  <2>7. \A x \in Slots : held[x] = IF x = slot THEN n.sess ELSE s.sessions[x]
    BY <1>2
  <2> HIDE DEF held
  <2>8. e \in EmbedRecords
    BY <2>4, <2>5, <2>6 DEF EmbedRecords
  <2>9. /\ e.panic = FALSE /\ e.optsLive = n.s.optsLive /\ e.opts = n.s.opts /\ e.state = "ready"
        /\ e.runner = n.s.runner /\ e.sessions = held /\ e.sessLive = n.s.sessLive /\ e.provider = n.s.provider
        /\ e.request = s.request /\ e.pending = n.s.pending
    BY <2>4, <2>5 DEF EmbedRecords
  <2>10. Sane(e) /\ Fits(e) /\ Threaded(e)
    BY <2>3, <2>8, <2>9 DEF Sane, Fits, Threaded
  <2>11. n.sess = NoSession \/ n.sess = n.s.provider
    BY <2>3
  <2>12. Live(e) = IF n.sess = NoSession THEN Live(s) ELSE Live(s) \cup {slot}
    <3>1. Live(e) = {x \in Slots : (IF x = slot THEN n.sess ELSE s.sessions[x]) # NoSession}
      BY <2>7, <2>9 DEF Live
    <3> QED
      BY <1>4, <3>1 DEF Live
  <2>13. e.sessLive = Cardinality(Live(e))
    <3>1. IsFiniteSet(Live(s)) /\ slot \notin Live(s) /\ Cardinality(Live(s)) \in Nat
      BY <1>4, LiveFacts DEF Live
    <3>2. Cardinality(Live(s) \cup {slot}) = Cardinality(Live(s)) + 1
      BY <3>1, FS_AddElement
    <3> QED
      BY <1>1, <2>3, <2>9, <2>12, <3>1, <3>2
  <2>14. CanDegradeToCPU(s) => Live(s) = {} /\ s.pending
    BY DEF CanDegradeToCPU
  <2>15. \A x \in Live(e) : e.sessions[x] = e.provider
    <3> SUFFICES ASSUME NEW x \in Live(e) PROVE e.sessions[x] = e.provider
      OBVIOUS
    <3>1. x \in Slots /\ e.sessions[x] = (IF x = slot THEN n.sess ELSE s.sessions[x]) /\ e.sessions[x] # NoSession
      BY <2>7, <2>9 DEF Live
    <3>2. CASE x = slot
      BY <2>9, <2>11, <3>1, <3>2
    <3>3. CASE x # slot
      <4>1. x \in Live(s) /\ e.sessions[x] = s.sessions[x]
        BY <3>1, <3>3 DEF Live
      <4>2. n.s.provider = s.provider
        BY <2>1, <2>14, <4>1 DEF Fallen
      <4> QED
        BY <1>1, <2>9, <4>1, <4>2
    <3> QED
      BY <3>2, <3>3
  <2>16. e.request # "auto" => e.provider = e.request
    BY <1>1, <2>1, <2>9, <2>14 DEF Fallen
  <2>17. e.pending => e.request = "auto" /\ e.provider # "cpu"
    BY <1>1, <2>1, <2>9 DEF Fallen
  <2>18. Owned(e)
    BY <2>3, <2>9, <2>10, <2>13, <2>15, <2>16, <2>17 DEF Owned
  <2>19. Live(s) = {} /\ s.env = "up" /\ CPUWorks(s, w) /\ (s.pending \/ s.provider = "cpu") => slot \in Live(e)
    BY <2>1, <2>12 DEF Fallen, CanDegradeToCPU
  <2> QED
    BY <2>9, <2>12, <2>18, <2>19 DEF Ensured
<1> QED
  BY <1>3, <1>4

(* A call asks for slots the Embedder has.                                   *)
LEMMA CallSlots ==
    ASSUME NEW s, NEW call \in EmbedCalls(s)
    PROVE  call[1] \in Slots /\ call[Len(call)] \in Slots
<1>1. CASE call \in {<<x>> : x \in LengthBuckets}
  BY <1>1 DEF Slots
<1>2. CASE call \in {<<x, y>> : x, y \in LengthBuckets}
  BY <1>2 DEF Slots
<1>3. CASE call \in {<<"sess">>, <<"batch">>}
  BY <1>3 DEF Slots
<1> QED
  BY <1>1, <1>2, <1>3 DEF EmbedCalls

(* Close gives everything back.                                              *)
LEMMA CloseIs ==
    ASSUME NEW s, Owned(s), s.state = "ready",
           NEW e, e = [StopRunner(CloseSessions(DestroyOpts(s))) EXCEPT !.state = "closed", !.env = "destroyed", !.runner = "none"]
    PROVE  Owned(e)
<1> DEFINE d == DestroyOpts(s)
           c == CloseSessions(d)
           left == d.sessLive - Cardinality(Live(d))
<1>1. Sane(s) /\ s.runner # "stopped" /\ s.sessLive = Cardinality(Live(s))
  BY DEF Owned, Threaded
<1>2. Released(d, s) /\ d.runner = s.runner
  BY <1>1, DestroyOptsIs
<1>3. c = [d EXCEPT !.sessLive = left, !.sessions = Unopened]
  BY DEF CloseSessions
<1>4. e = [StopRunner(c) EXCEPT !.state = "closed", !.env = "destroyed", !.runner = "none"]
  OBVIOUS
<1> HIDE DEF d
<1>5. left = 0 /\ left \in Int
  <2>1. Live(d) = Live(s) /\ d.sessLive = s.sessLive
    BY <1>2, LiveFacts DEF Released, Steady
  <2>2. Cardinality(Live(s)) \in Nat
    BY LiveFacts
  <2> QED
    BY <1>1, <2>1, <2>2
<1> HIDE DEF c, left
<1>6. d \in EmbedRecords /\ d.panic = FALSE /\ d.optsLive = 0 /\ d.opts = NoOptions /\ d.runner # "stopped"
  BY <1>1, <1>2 DEF Released, Sane
<1>7. Unopened \in [Slots -> Providers \cup {NoSession}]
  BY DEF Unopened
<1>8. c \in EmbedRecords
  BY <1>3, <1>5, <1>6, <1>7 DEF EmbedRecords
<1>9. c.panic = FALSE /\ c.optsLive = 0 /\ c.opts = NoOptions /\ c.runner # "stopped" /\ c.sessLive = left /\ c.sessions = Unopened
  BY <1>3, <1>6 DEF EmbedRecords
<1>10. Sane(c)
  BY <1>8, <1>9 DEF Sane
<1> DEFINE v == IF c.runner = "none" THEN "none" ELSE "stopped"
<1>11. StopRunner(c) = [c EXCEPT !.runner = v]
  BY <1>9, <1>10, StopRunnerIs
<1>12. e = [c EXCEPT !.runner = "none", !.state = "closed", !.env = "destroyed"]
  BY <1>4, <1>8, <1>11 DEF EmbedRecords
<1>13. e \in EmbedRecords
  BY <1>8, <1>12 DEF EmbedRecords
<1>14. /\ e.panic = FALSE /\ e.optsLive = 0 /\ e.opts = NoOptions /\ e.runner = "none" /\ e.sessLive = 0
       /\ e.sessions = Unopened /\ e.state = "closed"
  BY <1>5, <1>8, <1>9, <1>12 DEF EmbedRecords
<1>15. Live(e) = {}
  BY <1>14, LiveFacts
<1>16. Cardinality(Live(e)) = 0
  BY <1>15, FS_EmptySet
<1> QED
  BY <1>13, <1>14, <1>15, <1>16 DEF Owned, Sane

(* For any number of OpenVINO devices and any length buckets, through every  *)
(* failing native call of NewEmbedder, EmbedDocuments and Close: the handles *)
(* are owned, all sessions run on the provider reported, an explicit choice  *)
(* is kept, and no construction or first lazy session fails while the CPU    *)
(* works for cpu and auto, or any device for openvino (embedder.go:375-1094).*)
THEOREM EmbedderCorrect == EmbedSpec => []EmbedderSound
<1>1. EmbedInit => EmbedInv
  <2> SUFFICES ASSUME EmbedInit PROVE EmbedInv
    OBVIOUS
  <2>1. Unopened \in [Slots -> Providers \cup {NoSession}]
    BY DEF Unopened
  <2> DEFINE unopened == Unopened
             none == NoOptions
             device == Unresolved
  <2>2. embed = [state |-> "none", request |-> "cpu", buckets |-> FALSE, threads |-> FALSE,
                provider |-> "cpu", pending |-> FALSE, runner |-> "none", opts |-> none,
                sessions |-> unopened, optsLive |-> 0, sessLive |-> 0, panic |-> FALSE,
                env |-> "fresh", preferred |-> device]
    BY DEF EmbedInit
  <2>3. unopened \in [Slots -> Providers \cup {NoSession}] /\ none \in Backends \cup {NoOptions}
        /\ device \in DeviceIds \cup {Unresolved} /\ none = NoOptions /\ unopened = Unopened
    BY <2>1
  <2> HIDE DEF unopened, none, device
  <2>4. embed \in EmbedRecords
    BY <2>2, <2>3 DEF EmbedRecords, Providers
  <2>5. /\ embed.panic = FALSE /\ embed.optsLive = 0 /\ embed.opts = NoOptions /\ embed.runner = "none"
        /\ embed.sessLive = 0 /\ embed.sessions = Unopened /\ embed.state = "none"
    BY <2>2, <2>3
  <2>6. Live(embed) = {}
    BY <2>5, LiveFacts
  <2>7. Cardinality(Live(embed)) = 0
    BY <2>6, FS_EmptySet
  <2>8. Owned(embed)
    BY <2>4, <2>5, <2>6, <2>7 DEF Owned, Sane
  <2> QED
    BY <2>8 DEF EmbedInv, LandsWhenItCan, EmbedInit
<1>2. EmbedInv /\ [EmbedNext]_embedVars => EmbedInv'
  <2> SUFFICES ASSUME EmbedInv, [EmbedNext]_embedVars PROVE EmbedInv'
    OBVIOUS
  <2>0. Owned(embed)
    BY DEF EmbedInv
  <2>1. ASSUME NEW r \in Requests, NEW w \in Worlds, NEW fault \in Faults, NewEmbedder(r, w, fault) PROVE EmbedInv'
    <3>1. embed.state # "ready" /\ embed' = NewEmbedderOf(embed, r, w, fault)
      BY <2>1 DEF NewEmbedder
    <3>2. fit' = IF CouldOpen(r, w) /\ fault = "none" /\ embed.env \in {"fresh", "up"} THEN "open" ELSE "no"
      BY <2>1 DEF NewEmbedder, CouldOpen
    <3> DEFINE e == NewEmbedderOf(embed, r, w, fault)
    <3>3. Owned(e) /\ (CouldOpen(r, w) /\ fault = "none" /\ embed.env \in {"fresh", "up"} => e.state = "ready")
      BY <2>0, <3>1, NewEmbedderIs
    <3> HIDE DEF e
    <3>4. embed' = e
      BY <3>1 DEF e
    <3>5. Owned(embed)' /\ (fit' = "open" => embed'.state = "ready") /\ fit' # "serve"
      <4>1. Owned(embed')
        BY <3>3, <3>4
      <4>2. Owned(embed)' <=> Owned(embed')
        BY DEF Owned, Sane, Live, Fits, Threaded
      <4> QED
        BY <3>2, <3>3, <3>4, <4>1, <4>2
    <3> QED
      BY <3>5 DEF EmbedInv, LandsWhenItCan
  <2>2. ASSUME NEW w \in Worlds, NEW call \in EmbedCalls(embed), EmbedDocuments(call, w) PROVE EmbedInv'
    <3> DEFINE first == EnsureSession(embed, call[1], w)
               second == EnsureSession(first, call[Len(call)], w)
               e == IF call[1] \in Live(first) THEN second ELSE first
               Able == Live(embed) = {} /\ embed.env = "up" /\ CPUWorks(embed, w) /\ (embed.pending \/ embed.provider = "cpu")
    <3>1. embed.state = "ready" /\ embed' = OnORTThread(e) /\ fit' = IF Able THEN "serve" ELSE "no"
      BY <2>2 DEF EmbedDocuments
    <3>2. call[1] \in Slots /\ call[Len(call)] \in Slots
      BY CallSlots
    <3>3. Ensured(first, embed, call[1], w)
      BY <2>0, <3>1, <3>2, EnsureIs
    <3>4. Able => (Live(embed) = {} /\ embed.env = "up" /\ CPUWorks(embed, w) /\ (embed.pending \/ embed.provider = "cpu"))
      OBVIOUS
    <3>5. e = IF call[1] \in Live(first) THEN second ELSE first
      OBVIOUS
    <3> HIDE DEF first, Able
    <3>6. Owned(first) /\ first.state = "ready" /\ (Able => call[1] \in Live(first))
      BY <3>3, <3>4 DEF Ensured
    <3>7. Ensured(second, first, call[Len(call)], w)
      BY <3>2, <3>6, EnsureIs
    <3> HIDE DEF second, e
    <3>8. Owned(e) /\ e.state = "ready" /\ (Able => Live(e) # {})
      BY <3>5, <3>6, <3>7 DEF Ensured
    <3>9. OnORTThread(e) = e
      <4>1. Sane(e) /\ e.runner # "stopped"
        BY <3>8 DEF Owned, Threaded
      <4> QED
        BY <4>1, OnThread
    <3>10. embed' = e
      BY <3>1, <3>9
    <3>11. Owned(embed)' /\ embed'.state = "ready" /\ (fit' = "serve" => Live(embed)' # {})
      <4>1. Owned(embed') /\ (Able => Live(embed') # {}) /\ embed'.state = "ready"
        BY <3>8, <3>10
      <4>2. (Owned(embed)' <=> Owned(embed')) /\ (Live(embed)' = Live(embed'))
        BY DEF Owned, Sane, Live, Fits, Threaded
      <4> QED
        BY <3>1, <4>1, <4>2
    <3> QED
      BY <3>11 DEF EmbedInv, LandsWhenItCan
  <2>3. CASE Close
    <3> DEFINE e == [StopRunner(CloseSessions(DestroyOpts(embed)))
                        EXCEPT !.state = "closed", !.env = "destroyed", !.runner = "none"]
    <3>1. embed.state = "ready" /\ embed' = e /\ fit' = "no"
      BY <2>3 DEF Close
    <3>2. Owned(e)
      BY <2>0, <3>1, CloseIs
    <3> HIDE DEF e
    <3>3. Owned(embed)'
      <4>1. Owned(embed)' <=> Owned(embed')
        BY DEF Owned, Sane, Live, Fits, Threaded
      <4> QED
        BY <3>1, <3>2, <4>1
    <3> QED
      BY <3>1, <3>3 DEF EmbedInv, LandsWhenItCan
  <2>4. CASE UNCHANGED embedVars
    BY <2>4 DEF embedVars, EmbedInv, LandsWhenItCan, Owned, Sane, Live, Fits, Threaded
  <2> QED
    BY <2>1, <2>2, <2>3, <2>4 DEF EmbedNext
<1>3. EmbedInv => EmbedderSound
  <2> SUFFICES ASSUME EmbedInv PROVE EmbedderSound
    OBVIOUS
  <2>1. Owned(embed) /\ LandsWhenItCan
    BY DEF EmbedInv
  <2>2. Sane(embed) /\ embed \in EmbedRecords /\ embed.runner \in {"none", "running"}
    BY <2>1 DEF Owned, Sane, Threaded
  <2>3. EmbedTypeOK
    BY <2>2 DEF EmbedTypeOK, EmbedRecords
  <2>4. NativeHandlesOwned
    BY <2>1 DEF NativeHandlesOwned, Owned, Sane
  <2>5. SessionsOnTheirProvider
    BY <2>1 DEF SessionsOnTheirProvider, Owned, Sane, Threaded
  <2>6. ExplicitProviderKept
    BY <2>1 DEF ExplicitProviderKept, Owned
  <2> QED
    BY <2>1, <2>3, <2>4, <2>5, <2>6 DEF EmbedderSound
<1> QED
  BY <1>1, <1>2, <1>3, PTL DEF EmbedSpec
=============================================================================
