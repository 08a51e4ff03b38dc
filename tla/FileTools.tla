----------------------------- MODULE FileTools -----------------------------
(***************************************************************************)
(* The file tools (tools/builtins/file_*.go) on one path, called by        *)
(* several sessions of one process.  The application supplies a coherence  *)
(* checker (tools/coherence.go): per path a mutex, and per session the     *)
(* signature of the file it last read or wrote.  A write goes to a         *)
(* temporary file that is renamed over the target.  delete_directory takes *)
(* part without lock or record; the process may crash between two steps;   *)
(* and an editor outside the process may replace the file.                 *)
(***************************************************************************)
EXTENDS Integers, FiniteSets

CONSTANTS Sessions,
          MaxVersions,  \* bound: contents the path ever holds
          SigOf,        \* FileSig of each of them: time and size, which two may share;
                        \* 0 is the absent file
          MaxOutside,   \* bound: changes by an outside editor
          MaxCrashes    \* bound: crashes of the process

ASSUME FileToolsAssumption ==
    /\ IsFiniteSet(Sessions) /\ Sessions # {}
    /\ {"none", "outside"} \intersect Sessions = {}  \* marks, no session IDs
    /\ MaxVersions \in Nat \ {0} /\ SigOf \in [0..MaxVersions -> 0..MaxVersions]
    /\ {MaxOutside, MaxCrashes} \subseteq Nat

VARIABLES disk,     \* what the path holds; ver tells its contents apart
          parent,   \* the parent directory exists
          temp,     \* temporary file of each session: "none", "partial", "full"
          lock,     \* holder of the path's mutex, or "none"
          snap,     \* the checker's signature per session; -1 = never read
          op,       \* the tool call of each session
          versions, outside, crashes,
          knows,    \* history: content seen by each session's last registered read
                    \* or write; -1 = none
          kept,     \* history: edits made since the file was last replaced
          lost      \* history: contents of other sessions that a session which had
                    \* read the file replaced without having seen them

fileVars == <<disk, parent, temp, lock, snap, op, versions, outside, crashes,
              knows, kept, lost>>

Absent == [kind |-> "absent", ver |-> 0, by |-> "none", whole |-> TRUE, edits |-> {}]
Idle   == [tool |-> "none", at |-> "idle", base |-> Absent]
Tools  == {"read_file", "write_file", "edit_file", "delete_file", "delete_directory"}

FilesInit ==
    /\ disk = [Absent EXCEPT !.kind = "regular", !.ver = 1, !.by = "outside"]
    /\ parent = TRUE /\ lock = "none" /\ versions = 1
    /\ temp = [s \in Sessions |-> "none"]
    /\ snap = [s \in Sessions |-> -1] /\ knows = [s \in Sessions |-> -1]
    /\ op = [s \in Sessions |-> Idle]
    /\ outside = 0 /\ crashes = 0 /\ kept = {} /\ lost = {}

bounds == <<versions, outside, crashes>>
history == <<knows, kept, lost>>

At(s, pc) == op[s].at = pc
Goto(s, pc) == op' = [op EXCEPT ![s].at = pc]

\* Bound: no replacement starts once the contents are used up.
Call(s, tool) ==
    /\ At(s, "idle")
    /\ tool \in {"write_file", "edit_file"} => versions < MaxVersions
    /\ op' = [op EXCEPT ![s] = [tool |-> tool, at |-> "begin", base |-> Absent]]
    /\ UNCHANGED <<disk, parent, temp, lock, snap, bounds, history>>

-----------------------------------------------------------------------------
(* read_file *)

\* CheckRead and its lock: the snapshot is taken before the content.
CheckRead(s) ==
    /\ At(s, "begin") /\ op[s].tool = "read_file" /\ lock = "none"
    /\ snap' = [snap EXCEPT ![s] = SigOf[disk.ver]]
    /\ Goto(s, "content")
    /\ UNCHANGED <<disk, parent, temp, lock, bounds, history>>

\* ReadFileRange opens the file once; a rename under it does not disturb it.
\* What is not a regular file is refused.  A delete_file in between has made
\* the checker forget the read: then it counts as none.
ReadContent(s) ==
    /\ At(s, "content")
    /\ knows' = [knows EXCEPT ![s] = IF disk.kind = "regular" /\ snap[s] # -1
                                         THEN disk.ver ELSE @]
    /\ op' = [op EXCEPT ![s] = Idle]
    /\ UNCHANGED <<disk, parent, temp, lock, snap, bounds, kept, lost>>

\* Mutants: the content is read first and the snapshot is taken afterwards.
ContentFirst(s) ==
    /\ At(s, "begin") /\ op[s].tool = "read_file" /\ lock = "none"
    /\ knows' = [knows EXCEPT ![s] = IF disk.kind = "regular" THEN disk.ver ELSE @]
    /\ Goto(s, "content")
    /\ UNCHANGED <<disk, parent, temp, lock, snap, bounds, kept, lost>>
SnapshotAfterwards(s) ==
    /\ At(s, "content")
    /\ snap' = [snap EXCEPT ![s] = SigOf[disk.ver]]
    /\ op' = [op EXCEPT ![s] = Idle]
    /\ UNCHANGED <<disk, parent, temp, lock, bounds, history>>
ReadFileUnordered(s) == ContentFirst(s) \/ SnapshotAfterwards(s)

ReadFile(s) == CheckRead(s) \/ ReadContent(s)

-----------------------------------------------------------------------------
(* write_file, edit_file, delete_file: the locked section *)

\* The checker's contract: a session that has read the path conflicts when
\* the signature is not the one it saw; a session that has not never does.
CheckWrite(s) == snap[s] = -1 \/ snap[s] = SigOf[disk.ver]

\* os.Stat before the lock: write_file refuses what is not a regular file.
StatTarget(s) ==
    /\ At(s, "begin") /\ op[s].tool = "write_file"
    /\ op' = [op EXCEPT ![s] = IF disk.kind \in {"regular", "absent"}
                               THEN [@ EXCEPT !.at = "enter"] ELSE Idle]
    /\ UNCHANGED <<disk, parent, temp, lock, snap, bounds, history>>

\* Mutant: the conflict path returns without Unlock.
EnterKeepingLock(s) ==
    /\ \/ At(s, "enter")
       \/ At(s, "begin") /\ op[s].tool \in {"edit_file", "delete_file"}
    /\ lock = "none" /\ lock' = s
    /\ IF CheckWrite(s) THEN Goto(s, IF op[s].tool = "write_file" THEN "mkdir" ELSE "look")
                        ELSE op' = [op EXCEPT ![s] = Idle]
    /\ UNCHANGED <<disk, parent, temp, snap, bounds, history>>

Enter(s) ==
    /\ \/ At(s, "enter")
       \/ At(s, "begin") /\ op[s].tool \in {"edit_file", "delete_file"}
    /\ lock = "none"
    /\ IF CheckWrite(s)
       THEN lock' = s /\ Goto(s, IF op[s].tool = "write_file" THEN "mkdir" ELSE "look")
       ELSE lock' = lock /\ op' = [op EXCEPT ![s] = Idle]
    /\ UNCHANGED <<disk, parent, temp, snap, bounds, history>>

\* The deferred calls of an early return: Unlock, and the temporary file of
\* atomicWriteFile is removed.
Leave(s) == /\ lock' = "none" /\ op' = [op EXCEPT ![s] = Idle]
            /\ temp' = [temp EXCEPT ![s] = "none"]
LeaveTemp(s) == lock' = "none" /\ op' = [op EXCEPT ![s] = Idle] /\ temp' = temp

\* MkdirAll
MakeParent(s) ==
    /\ At(s, "mkdir") /\ parent' = TRUE /\ Goto(s, "create")
    /\ UNCHANGED <<disk, temp, lock, snap, bounds, history>>

\* Mutant: the mutex covers the check and the read only.
ReadThenUnlock(s) ==
    /\ At(s, "look") /\ op[s].tool = "edit_file"
    /\ \/ /\ disk.kind = "regular" /\ lock' = "none"
          /\ op' = [op EXCEPT ![s].at = "create", ![s].base = disk]
          /\ UNCHANGED temp
       \/ Leave(s)
    /\ UNCHANGED <<disk, parent, snap, bounds, history>>

\* edit_file: size guard, bounded read, one occurrence of old_string.  Any
\* of them may refuse, and what is not a regular file is refused.
ReadForEdit(s) ==
    /\ At(s, "look") /\ op[s].tool = "edit_file"
    /\ \/ /\ disk.kind = "regular"
          /\ op' = [op EXCEPT ![s].at = "create", ![s].base = disk]
          /\ UNCHANGED <<lock, temp>>
       \/ Leave(s)
    /\ UNCHANGED <<disk, parent, snap, bounds, history>>

-----------------------------------------------------------------------------
(* atomicWriteFile: CreateTemp in the target's directory, Write, Chmod,    *)
(* Close, Rename; each step may fail.                                      *)

CreateTemp(s) ==
    /\ At(s, "create")
    /\ \/ parent /\ temp' = [temp EXCEPT ![s] = "partial"] /\ Goto(s, "fill")
                 /\ UNCHANGED lock
       \/ Leave(s)
    /\ UNCHANGED <<disk, parent, snap, bounds, history>>

\* Mutants: an error of Write is not looked at; the deferred Remove is
\* missing.
FillUnchecked(s) ==
    /\ At(s, "fill") /\ Goto(s, "rename")
    /\ \E t \in {"partial", "full"} : temp' = [temp EXCEPT ![s] = IF @ = "none" THEN @ ELSE t]
    /\ UNCHANGED <<disk, parent, lock, snap, bounds, history>>

FillTemp(s) ==
    /\ At(s, "fill")
    /\ \/ /\ temp' = [temp EXCEPT ![s] = IF @ = "none" THEN @ ELSE "full"]
          /\ Goto(s, "rename") /\ UNCHANGED lock
       \/ Leave(s)
    /\ UNCHANGED <<disk, parent, snap, bounds, history>>

FillNoRemove(s) ==
    /\ At(s, "fill")
    /\ \/ temp' = [temp EXCEPT ![s] = IF @ = "none" THEN @ ELSE "full"]
          /\ Goto(s, "rename") /\ UNCHANGED lock
       \/ LeaveTemp(s)
    /\ UNCHANGED <<disk, parent, snap, bounds, history>>

\* What the session may replace: what it read under the lock (edit), or what
\* it has seen, if it has seen the file at all (write).  Contents of an
\* outside editor are no session's.
Unseen(s) == /\ disk.kind = "regular" /\ disk.by \in Sessions \ {s}
             /\ IF op[s].tool = "edit_file" THEN op[s].base.ver # disk.ver
                ELSE knows[s] # -1 /\ knows[s] # disk.ver

\* A temporary file removed with its directory cannot be renamed, nor can
\* one be renamed over a directory.
Rename(s) ==
    /\ At(s, "rename")
    /\ \/ /\ temp[s] # "none" /\ disk.kind # "dir" /\ versions < MaxVersions
          /\ versions' = versions + 1
          /\ disk' = [kind |-> "regular", ver |-> versions', by |-> s,
                      whole |-> temp[s] = "full",
                      edits |-> IF op[s].tool = "edit_file"
                                THEN op[s].base.edits \cup {versions'} ELSE {}]
          /\ temp' = [temp EXCEPT ![s] = "none"]
          /\ lost' = IF Unseen(s) THEN lost \cup {disk.ver} ELSE lost
          /\ kept' = IF op[s].tool = "edit_file" THEN kept \cup {versions'} ELSE {}
          /\ knows' = [knows EXCEPT ![s] = versions']
          /\ Goto(s, "record") /\ UNCHANGED lock
       \/ /\ Leave(s) /\ UNCHANGED <<disk, versions, history>>
    /\ UNCHANGED <<parent, snap, outside, crashes>>

\* RecordWrite takes the signature that is on disk now; then Unlock.
RecordWrite(s) ==
    /\ At(s, "record")
    /\ snap' = [snap EXCEPT ![s] = SigOf[disk.ver]]
    /\ Leave(s)
    /\ UNCHANGED <<disk, parent, bounds, history>>

\* Mutant: the write is not recorded.
RecordNothing(s) ==
    /\ At(s, "record") /\ Leave(s)
    /\ UNCHANGED <<disk, parent, snap, bounds, history>>

-----------------------------------------------------------------------------
(* delete_file and delete_directory *)

Gone == disk' = Absent /\ kept' = {}

\* Mutant: the session's own entry is removed from the checker's table, the
\* others are reset.
DeleteFileDropsEntry(s) ==
    /\ At(s, "look") /\ op[s].tool = "delete_file"
    /\ \/ /\ disk.kind = "regular" /\ Gone
          /\ snap' = [t \in Sessions \ {s} |-> -1] /\ knows' = [t \in Sessions |-> -1]
       \/ UNCHANGED <<disk, kept, snap, knows>>
    /\ Leave(s)
    /\ UNCHANGED <<parent, bounds, lost>>

\* Lstat; Remove a symbolic link or a regular file; RecordDelete drops every
\* session's snapshot, and with it what the checker knows of earlier reads.
DeleteFile(s) ==
    /\ At(s, "look") /\ op[s].tool = "delete_file"
    /\ \/ /\ disk.kind = "regular" /\ Gone
          /\ snap' = [t \in Sessions |-> -1] /\ knows' = [t \in Sessions |-> -1]
       \/ UNCHANGED <<disk, kept, snap, knows>>
    /\ Leave(s)
    /\ UNCHANGED <<parent, bounds, lost>>

\* RemoveAll of the parent directory takes the file and every temporary file
\* with it; no lock is taken and nothing is recorded.
DeleteDirectory(s) ==
    /\ At(s, "begin") /\ op[s].tool = "delete_directory"
    /\ \/ /\ parent /\ parent' = FALSE /\ Gone
          /\ temp' = [t \in Sessions |-> "none"]
       \/ UNCHANGED <<disk, kept, parent, temp>>
    /\ op' = [op EXCEPT ![s] = Idle]
    /\ UNCHANGED <<lock, snap, bounds, knows, lost>>

-----------------------------------------------------------------------------
(* The environment *)

OutsideEdit ==
    /\ outside < MaxOutside /\ outside' = outside + 1
    /\ parent /\ versions < MaxVersions /\ versions' = versions + 1
    /\ \E k \in {"regular", "fifo", "dir"} :
           disk' = [Absent EXCEPT !.kind = k, !.ver = versions', !.by = "outside"]
    /\ kept' = {}
    /\ UNCHANGED <<parent, temp, lock, snap, op, crashes, knows, lost>>

\* The process and its checker start anew; files stay.  A temporary file is
\* left behind under a name no later call uses.
Crash ==
    /\ crashes < MaxCrashes /\ crashes' = crashes + 1
    /\ lock' = "none" /\ op' = [s \in Sessions |-> Idle]
    /\ temp' = [s \in Sessions |-> "none"]
    /\ snap' = [s \in Sessions |-> -1] /\ knows' = [s \in Sessions |-> -1]
    /\ UNCHANGED <<disk, parent, versions, outside, kept, lost>>

FilesNext ==
    \/ \E s \in Sessions :
         \/ \E tool \in Tools : Call(s, tool)
         \/ ReadFile(s)
         \/ StatTarget(s) \/ Enter(s) \/ MakeParent(s) \/ ReadForEdit(s)
         \/ CreateTemp(s) \/ FillTemp(s) \/ Rename(s) \/ RecordWrite(s)
         \/ DeleteFile(s) \/ DeleteDirectory(s)
    \/ OutsideEdit
    \/ Crash

-----------------------------------------------------------------------------
(* Properties *)

FileStates == [kind : {"absent", "regular", "fifo", "dir"}, ver : 0..MaxVersions,
             by : Sessions \cup {"none", "outside"}, whole : BOOLEAN,
             edits : SUBSET (1..MaxVersions)]

Locked == {"mkdir", "look", "create", "fill", "rename", "record"}

FileCalls == [tool : Tools \cup {"none"}, base : FileStates,
              at : {"idle", "begin", "content", "enter"} \cup Locked]

FilesTypeOK ==
    /\ disk \in FileStates
    /\ parent \in BOOLEAN /\ lost \subseteq 0..MaxVersions
    /\ temp \in [Sessions -> {"none", "partial", "full"}]
    /\ lock \in Sessions \cup {"none"}
    /\ snap \in [Sessions -> -1..MaxVersions] /\ knows \in [Sessions -> -1..MaxVersions]
    /\ op \in [Sessions -> FileCalls]
    /\ kept \subseteq 1..MaxVersions

\* A reader, and a restart after a crash, find a complete content at the
\* path: no interleaving, failed write or crash inside atomicWriteFile leaves
\* a partial one.
WholeContent == disk.whole

\* The signature of content v differs from that of every earlier one.
Distinct(v) == \A w \in 0..(v - 1) : SigOf[w] # SigOf[v]

\* A session that has read the file replaces a content of another session
\* that it has not seen only when that content has the time and size of an
\* earlier one: the check, the write and its record are one locked section,
\* and read_file snapshots before it reads.  A session that has not read the
\* file may replace anything (coherence.go:8, :34).
NoLostUpdate == \A v \in lost : ~Distinct(v)

\* Edits of several sessions compose: what an edit put into the file stays
\* there until the file is replaced as a whole or deleted.
EditsCompose == disk.kind = "regular" => kept \subseteq disk.edits

\* On every return path the mutex is free again and the temporary file is
\* gone: only a call inside its locked section holds either.
NothingLeftBehind ==
    \A s \in Sessions :
        /\ lock = s => op[s].at \in Locked
        /\ temp[s] # "none" => op[s].at \in {"fill", "rename"}

(* Sessions that share a file never damage it: it is whole at every instant, *)
(* a crash included; edits compose; and a session that has read the file     *)
(* overwrites nothing another has written since, as far as the signature     *)
(* tells contents apart (file_edit.go:98, :172, file_write.go:88).           *)
FilesSafe ==
    /\ FilesTypeOK
    /\ WholeContent
    /\ NoLostUpdate
    /\ EditsCompose
    /\ NothingLeftBehind
=============================================================================
