------------------------- MODULE CheckpointedBlackboard -------------------------
(***************************************************************************)
(* orchestration/persistent_blackboard.go: the blackboard that persists     *)
(* every write through a Checkpointer.                                      *)
(*                                                                          *)
(* Goroutines calling the write methods (Writers) update the in-memory      *)
(* board, append a save operation to a capped queue under queueMu, wake     *)
(* the single worker through a one-slot channel and wait for the result or  *)
(* for the operation timeout.  Every save operation stores the LIVE board,  *)
(* read field by field through separately locked getters, not a copy taken  *)
(* when the operation was queued.  Goroutines calling Shutdown (Stoppers)   *)
(* close the channel and wait for the worker, or for the grace timer.       *)
(*                                                                          *)
(* The content of a field is the number of the last write to it: write v    *)
(* is the v-th write to the board, and log[v] is the field it wrote.        *)
(***************************************************************************)
EXTENDS Naturals, Sequences, FiniteSets

CONSTANTS
    Writers,              \* goroutines that call write methods
    Stoppers,             \* goroutines that call Shutdown
    Fields,               \* parts of the board: plan, step results, facts, ...
    MaxPersistenceQueue,  \* maxPersistenceQueue
    MaxWrites             \* bound of the model on the number of writes

ASSUME QueueAssumption == MaxPersistenceQueue \in Nat \ {0}
ASSUME WritesAssumption == MaxWrites \in Nat

VARIABLES
    log,        \* the writes so far: log[v] is the field of write v
    mem,        \* MapBlackboard: the last write of each field
    store,      \* what LoadCheckpoint(id) would return
    queue,      \* pb.queue: the writes whose save is pending
    queueCh,    \* pb.queueCh holds its one wake-up token
    chClosed,   \* close(pb.queueCh) has happened
    closed,     \* pb.closed
    worker,     \* the persistence worker: "recv", "pop", "save", "exited"
    cur,        \* the operation the worker runs
    unread,     \* fields SaveCheckpoint has still to read
    snap,       \* the field values it has read
    done,       \* the operations' done channels (buffered, one send each)
    pc,         \* writers: "idle", "enqueue", "wait"
    op,         \* the write each writer is in
    stop,       \* stoppers: "idle", "once", "closing", "waiting", "returned"
    panicked,   \* a send on, or a second close of, the closed channel
    lastOk,     \* the last finished save succeeded
    skipped     \* some write was refused because of closed

vars == <<log, mem, store, queue, queueCh, chClosed, closed, worker, cur, unread,
          snap, done, pc, op, stop, panicked, lastOk, skipped>>

workerVars == <<worker, cur, unread, snap>>
callerVars == <<pc, op>>
channelVars == <<queueCh, chClosed>>

Writes == 1 .. MaxWrites

TypeOK ==
    /\ log \in Seq(Fields) /\ Len(log) <= MaxWrites
    /\ mem \in [Fields -> Nat]
    /\ store \in [Fields -> Nat]
    /\ queue \in Seq(Writes) /\ Len(queue) <= MaxPersistenceQueue
    /\ queueCh \in BOOLEAN /\ chClosed \in BOOLEAN /\ closed \in BOOLEAN
    /\ worker \in {"recv", "pop", "save", "exited"}
    /\ cur \in Nat
    /\ unread \in SUBSET Fields
    /\ snap \in [Fields -> Nat]
    /\ done \in [Writes -> {"none", "ok", "err"}]
    /\ pc \in [Writers -> {"idle", "enqueue", "wait"}]
    /\ op \in [Writers -> Nat]
    /\ stop \in [Stoppers -> {"idle", "once", "closing", "waiting", "returned"}]
    /\ panicked \in BOOLEAN /\ lastOk \in BOOLEAN /\ skipped \in BOOLEAN

-----------------------------------------------------------------------------
(* A board whose content is b, with its worker just started: what            *)
(* NewCheckpointedBlackboard (b all zero) and RestoreBlackboard (b loaded)   *)
(* return.                                                                   *)
Started(b) ==
    /\ mem = b
    /\ queue = <<>> /\ queueCh = FALSE /\ chClosed = FALSE /\ closed = FALSE
    /\ worker = "recv" /\ cur = 0 /\ unread = {} /\ snap = [f \in Fields |-> 0]
    /\ done = [v \in Writes |-> "none"]
    /\ pc = [w \in Writers |-> "idle"] /\ op = [w \in Writers |-> 0]
    /\ stop = [s \in Stoppers |-> "idle"]
    /\ panicked = FALSE /\ lastOk = TRUE /\ skipped = FALSE

Init ==
    /\ log = <<>>
    /\ store = [f \in Fields |-> 0]
    /\ Started([f \in Fields |-> 0])

-----------------------------------------------------------------------------
(* Writers                                                                   *)

(* The first half of a write method (SetPlan, SetStepResult, AddReflection,  *)
(* StoreFact, AddAttachment, a RemoveAttachment that removed something, ...): *)
(* the embedded MapBlackboard is updated under its own mutex.                *)
Write(w, f) ==
    /\ pc[w] = "idle"
    /\ Len(log) < MaxWrites
    /\ log' = Append(log, f)
    /\ mem' = [mem EXCEPT ![f] = Len(log) + 1]
    /\ pc' = [pc EXCEPT ![w] = "enqueue"]
    /\ op' = [op EXCEPT ![w] = Len(log) + 1]
    /\ UNCHANGED <<store, queue, channelVars, closed, workerVars, done, stop,
                   panicked, lastOk, skipped>>

(* persistSafe, the section under queueMu, when the board is shut down: the  *)
(* write stays in memory only.                                               *)
PersistSkip(w) ==
    /\ pc[w] = "enqueue"
    /\ closed
    /\ skipped' = TRUE
    /\ pc' = [pc EXCEPT ![w] = "idle"]
    /\ UNCHANGED <<log, mem, store, queue, channelVars, closed, workerVars, done,
                   op, stop, panicked, lastOk>>

(* Mutant: a running save is taken to cover the new write.                   *)
PersistDropWhileSaving(w) ==
    /\ pc[w] = "enqueue"
    /\ ~closed
    /\ Len(queue) >= MaxPersistenceQueue \/ worker = "save"
    /\ pc' = [pc EXCEPT ![w] = "idle"]
    /\ UNCHANGED <<log, mem, store, queue, channelVars, closed, workerVars, done,
                   op, stop, panicked, lastOk, skipped>>

(* ... when the queue is at its cap: the operation is dropped.               *)
PersistDrop(w) ==
    /\ pc[w] = "enqueue"
    /\ ~closed
    /\ Len(queue) >= MaxPersistenceQueue
    /\ pc' = [pc EXCEPT ![w] = "idle"]
    /\ UNCHANGED <<log, mem, store, queue, channelVars, closed, workerVars, done,
                   op, stop, panicked, lastOk, skipped>>

(* Mutants: the cap compared with <=; closed not looked at.                  *)
PersistEnqueueOverCap(w) ==
    /\ pc[w] = "enqueue"
    /\ ~closed
    /\ Len(queue) <= MaxPersistenceQueue
    /\ queue' = Append(queue, op[w])
    /\ queueCh' = TRUE
    /\ panicked' = (panicked \/ chClosed)
    /\ pc' = [pc EXCEPT ![w] = "wait"]
    /\ UNCHANGED <<log, mem, store, chClosed, closed, workerVars, done, op, stop,
                   lastOk, skipped>>

PersistEnqueueUnchecked(w) ==
    /\ pc[w] = "enqueue"
    /\ Len(queue) < MaxPersistenceQueue
    /\ queue' = Append(queue, op[w])
    /\ queueCh' = TRUE
    /\ panicked' = (panicked \/ chClosed)
    /\ pc' = [pc EXCEPT ![w] = "wait"]
    /\ UNCHANGED <<log, mem, store, chClosed, closed, workerVars, done, op, stop,
                   lastOk, skipped>>

(* Mutant: the worker is signalled only behind an operation already queued.  *)
PersistEnqueueSilent(w) ==
    /\ pc[w] = "enqueue"
    /\ ~closed
    /\ Len(queue) < MaxPersistenceQueue
    /\ queue' = Append(queue, op[w])
    /\ queueCh' = (queueCh \/ queue # <<>>)
    /\ panicked' = (panicked \/ chClosed)
    /\ pc' = [pc EXCEPT ![w] = "wait"]
    /\ UNCHANGED <<log, mem, store, chClosed, closed, workerVars, done, op, stop,
                   lastOk, skipped>>

(* ... and otherwise: append, and a send on queueCh that never blocks.       *)
PersistEnqueue(w) ==
    /\ pc[w] = "enqueue"
    /\ ~closed
    /\ Len(queue) < MaxPersistenceQueue
    /\ queue' = Append(queue, op[w])
    /\ queueCh' = TRUE
    /\ panicked' = (panicked \/ chClosed)
    /\ pc' = [pc EXCEPT ![w] = "wait"]
    /\ UNCHANGED <<log, mem, store, chClosed, closed, workerVars, done, op, stop,
                   lastOk, skipped>>

(* waitPersistenceResult: the result arrives, or the timer does.  An error   *)
(* and a timeout are only logged; the write method then calls notifyChanged  *)
(* and returns.                                                              *)
WaitDone(w) ==
    /\ pc[w] = "wait"
    /\ done[op[w]] # "none"
    /\ pc' = [pc EXCEPT ![w] = "idle"]
    /\ UNCHANGED <<log, mem, store, queue, channelVars, closed, workerVars, done,
                   op, stop, panicked, lastOk, skipped>>

(* Mutant: a wait without a timer.                                           *)
WaitForever(w) ==
    /\ pc[w] = "wait"
    /\ FALSE
    /\ UNCHANGED vars

WaitTimeout(w) ==
    /\ pc[w] = "wait"
    /\ done[op[w]] = "none"
    /\ pc' = [pc EXCEPT ![w] = "idle"]
    /\ UNCHANGED <<log, mem, store, queue, channelVars, closed, workerVars, done,
                   op, stop, panicked, lastOk, skipped>>

-----------------------------------------------------------------------------
(* The persistence worker                                                    *)

(* for range pb.queueCh: a buffered token is received even after close.      *)
WorkerReceive ==
    /\ worker = "recv"
    /\ queueCh
    /\ queueCh' = FALSE
    /\ worker' = "pop"
    /\ UNCHANGED <<log, mem, store, queue, chClosed, closed, cur, unread, snap,
                   done, callerVars, stop, panicked, lastOk, skipped>>

(* Mutant: the close is noticed before the buffered token.                   *)
WorkerExitAtOnce ==
    /\ worker = "recv"
    /\ chClosed
    /\ worker' = "exited"
    /\ UNCHANGED <<log, mem, store, queue, channelVars, closed, cur, unread, snap,
                   done, callerVars, stop, panicked, lastOk, skipped>>

(* The range loop ends: close(pb.workerDone).                                *)
WorkerExit ==
    /\ worker = "recv"
    /\ ~queueCh
    /\ chClosed
    /\ worker' = "exited"
    /\ UNCHANGED <<log, mem, store, queue, channelVars, closed, cur, unread, snap,
                   done, callerVars, stop, panicked, lastOk, skipped>>

(* The drain loop, under queueMu: nothing left, or take the head.            *)
WorkerDrained ==
    /\ worker = "pop"
    /\ queue = <<>>
    /\ worker' = "recv"
    /\ UNCHANGED <<log, mem, store, queue, channelVars, closed, cur, unread, snap,
                   done, callerVars, stop, panicked, lastOk, skipped>>

WorkerPop ==
    /\ worker = "pop"
    /\ queue # <<>>
    /\ cur' = Head(queue)
    /\ queue' = Tail(queue)
    /\ worker' = "save"
    /\ unread' = Fields
    /\ UNCHANGED <<log, mem, store, channelVars, closed, snap, done, callerVars,
                   stop, panicked, lastOk, skipped>>

(* SaveCheckpoint(ctx, id, pb.MapBlackboard): the Checkpointer reads the     *)
(* live board through its getters, each under the board's lock ...           *)
SaveRead(f) ==
    /\ worker = "save"
    /\ f \in unread
    /\ unread' = unread \ {f}
    /\ snap' = [snap EXCEPT ![f] = mem[f]]
    /\ UNCHANGED <<log, mem, store, queue, channelVars, closed, worker, cur, done,
                   callerVars, stop, panicked, lastOk, skipped>>

(* ... and replaces the checkpoint.                                          *)
SaveCommit ==
    /\ worker = "save"
    /\ unread = {}
    /\ store' = snap
    /\ done' = [done EXCEPT ![cur] = "ok"]
    /\ lastOk' = TRUE
    /\ worker' = "pop"
    /\ UNCHANGED <<log, mem, queue, channelVars, closed, cur, unread, snap,
                   callerVars, stop, panicked, skipped>>

(* Mutant: the recovered panic is not reported as an error.                  *)
SaveFailSwallowed ==
    /\ worker = "save"
    /\ done' = [done EXCEPT ![cur] = "ok"]
    /\ lastOk' = FALSE
    /\ worker' = "pop"
    /\ unread' = {}
    /\ UNCHANGED <<log, mem, store, queue, channelVars, closed, cur, snap,
                   callerVars, stop, panicked, skipped>>

(* Mutant: a failed save leaves a truncated checkpoint behind.               *)
SaveFailTruncated ==
    /\ worker = "save"
    /\ store' = [f \in Fields |-> IF f \in unread THEN 0 ELSE snap[f]]
    /\ done' = [done EXCEPT ![cur] = "err"]
    /\ lastOk' = FALSE
    /\ worker' = "pop"
    /\ unread' = {}
    /\ UNCHANGED <<log, mem, queue, channelVars, closed, cur, snap,
                   callerVars, stop, panicked, skipped>>

(* Mutant: the recovered panic is never sent on the done channel.            *)
SaveFailSilent ==
    /\ worker = "save"
    /\ lastOk' = FALSE
    /\ worker' = "pop"
    /\ unread' = {}
    /\ UNCHANGED <<log, mem, store, queue, channelVars, closed, cur, snap, done,
                   callerVars, stop, panicked, skipped>>

(* It returns an error (its context's deadline included) or panics; recover  *)
(* turns a panic into an error on the same done channel.                     *)
SaveFail ==
    /\ worker = "save"
    /\ done' = [done EXCEPT ![cur] = "err"]
    /\ lastOk' = FALSE
    /\ worker' = "pop"
    /\ unread' = {}
    /\ UNCHANGED <<log, mem, store, queue, channelVars, closed, cur, snap,
                   callerVars, stop, panicked, skipped>>

-----------------------------------------------------------------------------
(* Shutdown                                                                  *)

ShutdownCall(s) ==
    /\ stop[s] = "idle"
    /\ stop' = [stop EXCEPT ![s] = "once"]
    /\ UNCHANGED <<log, mem, store, queue, channelVars, closed, workerVars, done,
                   callerVars, panicked, lastOk, skipped>>

(* shutdownOnce.Do: the first caller runs the body, which starts by setting  *)
(* closed under queueMu.                                                     *)
ShutdownBegin(s) ==
    /\ stop[s] = "once"
    /\ \A t \in Stoppers : stop[t] \in {"idle", "once"}
    /\ closed' = TRUE
    /\ stop' = [stop EXCEPT ![s] = "closing"]
    /\ UNCHANGED <<log, mem, store, queue, channelVars, workerVars, done,
                   callerVars, panicked, lastOk, skipped>>

(* close(pb.queueCh), outside the lock.                                      *)
ShutdownClose(s) ==
    /\ stop[s] = "closing"
    /\ chClosed' = TRUE
    /\ panicked' = (panicked \/ chClosed)
    /\ stop' = [stop EXCEPT ![s] = "waiting"]
    /\ UNCHANGED <<log, mem, store, queue, queueCh, closed, workerVars, done,
                   callerVars, lastOk, skipped>>

ShutdownDone(s) ==
    /\ stop[s] = "waiting"
    /\ worker = "exited"
    /\ stop' = [stop EXCEPT ![s] = "returned"]
    /\ UNCHANGED <<log, mem, store, queue, channelVars, closed, workerVars, done,
                   callerVars, panicked, lastOk, skipped>>

(* Mutant: Shutdown without the grace timer.                                 *)
ShutdownNoGrace(s) ==
    /\ stop[s] = "waiting"
    /\ FALSE
    /\ UNCHANGED vars

(* The grace timer fires first: the worker is abandoned, still running.      *)
ShutdownAbandon(s) ==
    /\ stop[s] = "waiting"
    /\ worker # "exited"
    /\ stop' = [stop EXCEPT ![s] = "returned"]
    /\ UNCHANGED <<log, mem, store, queue, channelVars, closed, workerVars, done,
                   callerVars, panicked, lastOk, skipped>>

(* A later or concurrent caller: Once.Do returns when the body has returned. *)
ShutdownAgain(s) ==
    /\ stop[s] = "once"
    /\ \E t \in Stoppers : stop[t] = "returned"
    /\ stop' = [stop EXCEPT ![s] = "returned"]
    /\ UNCHANGED <<log, mem, store, queue, channelVars, closed, workerVars, done,
                   callerVars, panicked, lastOk, skipped>>

-----------------------------------------------------------------------------
WriterNext(w) ==
    \/ \E f \in Fields : Write(w, f)
    \/ PersistSkip(w)
    \/ PersistDrop(w)
    \/ PersistEnqueue(w)
    \/ WaitDone(w)
    \/ WaitTimeout(w)

BackendNext ==
    \/ \E f \in Fields : SaveRead(f)
    \/ SaveCommit
    \/ SaveFail

WorkerNext ==
    \/ WorkerReceive
    \/ WorkerExit
    \/ WorkerDrained
    \/ WorkerPop
    \/ BackendNext

StopperNext(s) ==
    \/ ShutdownCall(s)
    \/ ShutdownBegin(s)
    \/ ShutdownClose(s)
    \/ ShutdownDone(s)
    \/ ShutdownAbandon(s)
    \/ ShutdownAgain(s)

(* Nothing is left to do: every call has returned and the worker is gone.    *)
Terminated ==
    /\ Len(log) = MaxWrites
    /\ \A w \in Writers : pc[w] = "idle"
    /\ \A s \in Stoppers : stop[s] = "returned"
    /\ worker = "exited"
    /\ UNCHANGED vars

Next ==
    \/ \E w \in Writers : WriterNext(w)
    \/ WorkerNext
    \/ \E s \in Stoppers : StopperNext(s)
    \/ Terminated

Spec == Init /\ [][Next]_vars

(* What the code's scheduling gives: a goroutine that can run runs, and the   *)
(* operation and grace timers fire.  Nothing is assumed of the backend.       *)
SchedulerFairness ==
    /\ \A w \in Writers : WF_vars(PersistSkip(w) \/ PersistDrop(w) \/ PersistEnqueue(w))
    /\ \A w \in Writers : WF_vars(WaitDone(w) \/ WaitTimeout(w))
    /\ WF_vars(WorkerReceive \/ WorkerExit \/ WorkerDrained \/ WorkerPop)
    /\ \A s \in Stoppers :
          WF_vars(ShutdownBegin(s) \/ ShutdownClose(s) \/ ShutdownDone(s)
                    \/ ShutdownAbandon(s) \/ ShutdownAgain(s))

LiveSpec == Spec /\ SchedulerFairness

(* A backend that honours the deadline of its context ends every save.        *)
BackendAnswers == WF_vars(BackendNext)

-----------------------------------------------------------------------------
(* Properties                                                                *)

(* The worker is never asleep on a non-empty queue: whenever an operation is *)
(* queued, a wake-up token is in queueCh or the worker is in its drain loop. *)
(* persistSafe appends and signals under queueMu, the worker drains until    *)
(* empty under the same lock, and a token sent while it drains is kept.      *)
NoLostWakeup ==
    queue # <<>> => queueCh \/ worker \in {"pop", "save"}

(* Shutdown never cuts the queue: when the worker closes workerDone, every   *)
(* operation it accepted has run.                                            *)
DrainedOnExit ==
    worker = "exited" => queue = <<>>

(* persistSafe never sends on a closed queueCh and Shutdown never closes it  *)
(* twice, although close happens outside queueMu.                            *)
NoPanic == ~panicked

(* A save that was reported successful covers the write it was queued for,   *)
(* although it stores the board as it is when it runs, read field by field   *)
(* while other writers go on.                                                *)
AckedDurable ==
    \A v \in Writes : done[v] = "ok" => store[log[v]] >= v

(* No update is lost to a full queue: once no save is pending and no writer  *)
(* is between its write and its enqueue, the checkpoint equals the board     *)
(* unless the last save failed or a write came after Shutdown.  A dropped    *)
(* operation is covered by the queued ones because they save the live board. *)
QuiescentDurability ==
    (/\ queue = <<>> /\ worker # "save"
     /\ \A w \in Writers : pc[w] # "enqueue"
     /\ lastOk /\ ~skipped) => store = mem

(* The checkpoint implements the abstract durable board: it never goes back  *)
(* and never runs ahead of the board, torn reads, failures and a shutdown    *)
(* in the middle of a save included.                                         *)
Durable == INSTANCE DurableBoard WITH board <- mem, saved <- store

Refines == Durable!Spec

(* A write method returns even when the backend never does: the caller's     *)
(* wait is bounded by the operation timeout.                                 *)
WriteReturns == \A w \in Writers : pc[w] # "idle" ~> pc[w] = "idle"

(* Shutdown returns for every caller, the concurrent ones blocked in         *)
(* sync.Once included, even when the worker is stuck in the backend.         *)
ShutdownReturns == \A s \in Stoppers : stop[s] = "once" ~> stop[s] = "returned"

(* With a backend that honours its deadline, every accepted operation runs,  *)
(* whether or not Shutdown comes in between.                                 *)
AcceptedRuns ==
    BackendAnswers =>
        \A v \in Writes : (\E i \in DOMAIN queue : queue[i] = v) ~> done[v] # "none"

(* The persistence queue is served to the end: it stays within its cap, no   *)
(* save waits for a worker that sleeps or has left, and the channel that     *)
(* wakes the worker is never misused, however writers, worker and Shutdown   *)
(* callers interleave.                                                       *)
QueueSafe ==
    /\ TypeOK
    /\ NoLostWakeup
    /\ DrainedOnExit
    /\ NoPanic

(* What a caller may rely on after a crash: a save it was told of is in the  *)
(* checkpoint, and at rest the checkpoint is the board, dropped operations   *)
(* included.                                                                 *)
Durability ==
    /\ AckedDurable
    /\ QuiescentDurability

(* Nobody waits for ever on persistence: write methods and every Shutdown    *)
(* return whatever the backend does, and no accepted save is forgotten when  *)
(* the backend answers.                                                      *)
CallersReturn ==
    /\ WriteReturns
    /\ ShutdownReturns
    /\ AcceptedRuns
=============================================================================
