--------------------- MODULE CheckpointedBlackboard_proofs ---------------------
(***************************************************************************)
(* Proofs about CheckpointedBlackboard for any number of writers, stoppers, *)
(* fields and writes and any queue cap of at least one.                     *)
(***************************************************************************)
EXTENDS CheckpointedBlackboard, SequenceTheorems, TLAPS

(* The operation numbers in use are numbers of writes that have happened.   *)
OpsInv ==
    /\ \A w \in Writers : pc[w] # "idle" => op[w] \in 1 .. Len(log)
    /\ \A i \in 1 .. Len(queue) : queue[i] \in 1 .. Len(log)
    /\ worker = "save" => cur \in 1 .. Len(log)

(* Shutdown's body runs once, closed goes before close(queueCh), and the    *)
(* worker only leaves through the closed channel.                           *)
ShutdownInv ==
    /\ chClosed => closed
    /\ worker = "exited" => chClosed
    /\ chClosed => \E s \in Stoppers : stop[s] \in {"waiting", "returned"}
    /\ \A s \in Stoppers : stop[s] = "closing" => closed /\ ~chClosed
    /\ \A s, t \in Stoppers :
          stop[s] = "closing" /\ stop[t] \notin {"idle", "once"} => s = t

(* The wake-up argument: a queued operation has a token or an awake worker, *)
(* and a worker that left has left nothing behind.                          *)
WakeInv == NoLostWakeup /\ DrainedOnExit /\ NoPanic

(* The board is at least as new as every write to it, the checkpoint is no  *)
(* newer than the board, and a save in progress lies between the two.       *)
OrderInv ==
    /\ \A v \in 1 .. Len(log) : mem[log[v]] >= v
    /\ \A f \in Fields : store[f] <= mem[f] /\ mem[f] <= Len(log)
    /\ worker = "save" =>
          \A f \in Fields \ unread : store[f] <= snap[f] /\ snap[f] <= mem[f]

(* The operation in progress will cover the write it was queued for.        *)
AckInv ==
    /\ worker = "save" => log[cur] \in unread \/ snap[log[cur]] >= cur
    /\ \A v \in Writes : done[v] = "ok" => v <= Len(log) /\ store[log[v]] >= v

(* A later save, a refused write or a writer about to enqueue accounts for  *)
(* a field that is newer than what has been read or stored.                 *)
Covered(f) ==
    \/ queue # <<>>
    \/ skipped
    \/ \E w \in Writers : pc[w] = "enqueue" /\ log[op[w]] = f

CoverInv ==
    \A f \in Fields :
        /\ worker # "save" => store[f] = mem[f] \/ ~lastOk \/ Covered(f)
        /\ worker = "save" => f \in unread \/ snap[f] = mem[f] \/ Covered(f)

IInv ==
    /\ TypeOK /\ OpsInv /\ ShutdownInv /\ WakeInv /\ OrderInv /\ AckInv /\ CoverInv

-----------------------------------------------------------------------------
(* Operation numbers stay numbers of past writes.                            *)
LEMMA OpsStep ==
    ASSUME TypeOK, OpsInv, [Next]_vars
    PROVE  OpsInv'
<1> USE QueueAssumption, WritesAssumption
<1>1. ASSUME NEW w \in Writers, NEW f \in Fields, Write(w, f)
      PROVE  OpsInv'
  BY <1>1, SMTT(30) DEF Write, TypeOK, OpsInv, Writes, channelVars, workerVars, callerVars
<1>2. ASSUME NEW w \in Writers, PersistSkip(w)
      PROVE  OpsInv'
  BY <1>2 DEF PersistSkip, TypeOK, OpsInv, Writes, channelVars, workerVars, callerVars
<1>3. ASSUME NEW w \in Writers, PersistDrop(w)
      PROVE  OpsInv'
  BY <1>3 DEF PersistDrop, TypeOK, OpsInv, Writes, channelVars, workerVars, callerVars
<1>4. ASSUME NEW w \in Writers, PersistEnqueue(w)
      PROVE  OpsInv'
  BY <1>4, SMTT(30) DEF PersistEnqueue, TypeOK, OpsInv, Writes, channelVars, workerVars, callerVars
<1>5. ASSUME NEW w \in Writers, WaitDone(w)
      PROVE  OpsInv'
  BY <1>5 DEF WaitDone, TypeOK, OpsInv, Writes, channelVars, workerVars, callerVars
<1>6. ASSUME NEW w \in Writers, WaitTimeout(w)
      PROVE  OpsInv'
  BY <1>6 DEF WaitTimeout, TypeOK, OpsInv, Writes, channelVars, workerVars, callerVars
<1>7. CASE WorkerReceive
  BY <1>7 DEF WorkerReceive, TypeOK, OpsInv, Writes, channelVars, workerVars, callerVars
<1>8. CASE WorkerExit
  BY <1>8 DEF WorkerExit, TypeOK, OpsInv, Writes, channelVars, workerVars, callerVars
<1>9. CASE WorkerDrained
  BY <1>9 DEF WorkerDrained, TypeOK, OpsInv, Writes, channelVars, workerVars, callerVars
<1>10. CASE WorkerPop
  BY <1>10 DEF WorkerPop, TypeOK, OpsInv, Writes, channelVars, workerVars, callerVars
<1>11. ASSUME NEW f \in Fields, SaveRead(f)
      PROVE  OpsInv'
  BY <1>11 DEF SaveRead, TypeOK, OpsInv, Writes, channelVars, workerVars, callerVars
<1>12. CASE SaveCommit
  BY <1>12 DEF SaveCommit, TypeOK, OpsInv, Writes, channelVars, workerVars, callerVars
<1>13. CASE SaveFail
  BY <1>13 DEF SaveFail, TypeOK, OpsInv, Writes, channelVars, workerVars, callerVars
<1>14. ASSUME NEW s \in Stoppers, ShutdownCall(s)
      PROVE  OpsInv'
  BY <1>14 DEF ShutdownCall, TypeOK, OpsInv, Writes, channelVars, workerVars, callerVars
<1>15. ASSUME NEW s \in Stoppers, ShutdownBegin(s)
      PROVE  OpsInv'
  BY <1>15 DEF ShutdownBegin, TypeOK, OpsInv, Writes, channelVars, workerVars, callerVars
<1>16. ASSUME NEW s \in Stoppers, ShutdownClose(s)
      PROVE  OpsInv'
  BY <1>16 DEF ShutdownClose, TypeOK, OpsInv, Writes, channelVars, workerVars, callerVars
<1>17. ASSUME NEW s \in Stoppers, ShutdownDone(s)
      PROVE  OpsInv'
  BY <1>17 DEF ShutdownDone, TypeOK, OpsInv, Writes, channelVars, workerVars, callerVars
<1>18. ASSUME NEW s \in Stoppers, ShutdownAbandon(s)
      PROVE  OpsInv'
  BY <1>18 DEF ShutdownAbandon, TypeOK, OpsInv, Writes, channelVars, workerVars, callerVars
<1>19. ASSUME NEW s \in Stoppers, ShutdownAgain(s)
      PROVE  OpsInv'
  BY <1>19 DEF ShutdownAgain, TypeOK, OpsInv, Writes, channelVars, workerVars, callerVars
<1>20. CASE Terminated
  BY <1>20 DEF Terminated, vars, TypeOK, OpsInv, Writes, channelVars, workerVars, callerVars
<1>21. CASE UNCHANGED vars
  BY <1>21 DEF vars, TypeOK, OpsInv, Writes, channelVars, workerVars, callerVars
<1> QED
  BY <1>1, <1>2, <1>3, <1>4, <1>5, <1>6, <1>7, <1>8, <1>9, <1>10, <1>11, <1>12, <1>13, <1>14, <1>15, <1>16, <1>17, <1>18, <1>19, <1>20, <1>21
     DEF Next, WriterNext, WorkerNext, BackendNext, StopperNext

(* Type correctness needs OpsInv: done is indexed by, and the queue holds,  *)
(* numbers of past writes.                                                   *)
LEMMA TypeStep ==
    ASSUME TypeOK, OpsInv, [Next]_vars
    PROVE  TypeOK'
<1> USE QueueAssumption, WritesAssumption
<1>1. ASSUME NEW w \in Writers, NEW f \in Fields, Write(w, f)
      PROVE  TypeOK'
  BY <1>1 DEF Write, TypeOK, OpsInv, Writes, channelVars, workerVars, callerVars
<1>2. ASSUME NEW w \in Writers, PersistSkip(w)
      PROVE  TypeOK'
  BY <1>2 DEF PersistSkip, TypeOK, OpsInv, Writes, channelVars, workerVars, callerVars
<1>3. ASSUME NEW w \in Writers, PersistDrop(w)
      PROVE  TypeOK'
  BY <1>3 DEF PersistDrop, TypeOK, OpsInv, Writes, channelVars, workerVars, callerVars
<1>4. ASSUME NEW w \in Writers, PersistEnqueue(w)
      PROVE  TypeOK'
  BY <1>4, SMTT(30) DEF PersistEnqueue, TypeOK, OpsInv, Writes, channelVars, workerVars, callerVars
<1>5. ASSUME NEW w \in Writers, WaitDone(w)
      PROVE  TypeOK'
  BY <1>5 DEF WaitDone, TypeOK, OpsInv, Writes, channelVars, workerVars, callerVars
<1>6. ASSUME NEW w \in Writers, WaitTimeout(w)
      PROVE  TypeOK'
  BY <1>6 DEF WaitTimeout, TypeOK, OpsInv, Writes, channelVars, workerVars, callerVars
<1>7. CASE WorkerReceive
  BY <1>7 DEF WorkerReceive, TypeOK, OpsInv, Writes, channelVars, workerVars, callerVars
<1>8. CASE WorkerExit
  BY <1>8 DEF WorkerExit, TypeOK, OpsInv, Writes, channelVars, workerVars, callerVars
<1>9. CASE WorkerDrained
  BY <1>9 DEF WorkerDrained, TypeOK, OpsInv, Writes, channelVars, workerVars, callerVars
<1>10. CASE WorkerPop
  <2>1. /\ Head(queue) \in Writes
        /\ Tail(queue) \in Seq(Writes)
        /\ Len(Tail(queue)) = Len(queue) - 1
    BY <1>10 DEF WorkerPop, TypeOK
  <2> QED
    BY <1>10, <2>1 DEF WorkerPop, TypeOK, Writes, channelVars, callerVars
<1>11. ASSUME NEW f \in Fields, SaveRead(f)
      PROVE  TypeOK'
  BY <1>11 DEF SaveRead, TypeOK, OpsInv, Writes, channelVars, workerVars, callerVars
<1>12. CASE SaveCommit
  BY <1>12 DEF SaveCommit, TypeOK, OpsInv, Writes, channelVars, workerVars, callerVars
<1>13. CASE SaveFail
  BY <1>13 DEF SaveFail, TypeOK, OpsInv, Writes, channelVars, workerVars, callerVars
<1>14. ASSUME NEW s \in Stoppers, ShutdownCall(s)
      PROVE  TypeOK'
  BY <1>14 DEF ShutdownCall, TypeOK, OpsInv, Writes, channelVars, workerVars, callerVars
<1>15. ASSUME NEW s \in Stoppers, ShutdownBegin(s)
      PROVE  TypeOK'
  BY <1>15 DEF ShutdownBegin, TypeOK, OpsInv, Writes, channelVars, workerVars, callerVars
<1>16. ASSUME NEW s \in Stoppers, ShutdownClose(s)
      PROVE  TypeOK'
  BY <1>16 DEF ShutdownClose, TypeOK, OpsInv, Writes, channelVars, workerVars, callerVars
<1>17. ASSUME NEW s \in Stoppers, ShutdownDone(s)
      PROVE  TypeOK'
  BY <1>17 DEF ShutdownDone, TypeOK, OpsInv, Writes, channelVars, workerVars, callerVars
<1>18. ASSUME NEW s \in Stoppers, ShutdownAbandon(s)
      PROVE  TypeOK'
  BY <1>18 DEF ShutdownAbandon, TypeOK, OpsInv, Writes, channelVars, workerVars, callerVars
<1>19. ASSUME NEW s \in Stoppers, ShutdownAgain(s)
      PROVE  TypeOK'
  BY <1>19 DEF ShutdownAgain, TypeOK, OpsInv, Writes, channelVars, workerVars, callerVars
<1>20. CASE Terminated
  BY <1>20 DEF Terminated, vars, TypeOK, OpsInv, Writes, channelVars, workerVars, callerVars
<1>21. CASE UNCHANGED vars
  BY <1>21 DEF vars, TypeOK, OpsInv, Writes, channelVars, workerVars, callerVars
<1> QED
  BY <1>1, <1>2, <1>3, <1>4, <1>5, <1>6, <1>7, <1>8, <1>9, <1>10, <1>11, <1>12, <1>13, <1>14, <1>15, <1>16, <1>17, <1>18, <1>19, <1>20, <1>21
     DEF Next, WriterNext, WorkerNext, BackendNext, StopperNext

(* Shutdown's body is run by one caller, once.                              *)
LEMMA ShutdownStep ==
    ASSUME TypeOK, ShutdownInv, [Next]_vars
    PROVE  ShutdownInv'
<1> USE QueueAssumption, WritesAssumption
<1>1. ASSUME NEW w \in Writers, NEW f \in Fields, Write(w, f)
      PROVE  ShutdownInv'
  BY <1>1 DEF Write, TypeOK, ShutdownInv, channelVars, workerVars, callerVars
<1>2. ASSUME NEW w \in Writers, PersistSkip(w)
      PROVE  ShutdownInv'
  BY <1>2 DEF PersistSkip, TypeOK, ShutdownInv, channelVars, workerVars, callerVars
<1>3. ASSUME NEW w \in Writers, PersistDrop(w)
      PROVE  ShutdownInv'
  BY <1>3 DEF PersistDrop, TypeOK, ShutdownInv, channelVars, workerVars, callerVars
<1>4. ASSUME NEW w \in Writers, PersistEnqueue(w)
      PROVE  ShutdownInv'
  BY <1>4 DEF PersistEnqueue, TypeOK, ShutdownInv, channelVars, workerVars, callerVars
<1>5. ASSUME NEW w \in Writers, WaitDone(w)
      PROVE  ShutdownInv'
  BY <1>5 DEF WaitDone, TypeOK, ShutdownInv, channelVars, workerVars, callerVars
<1>6. ASSUME NEW w \in Writers, WaitTimeout(w)
      PROVE  ShutdownInv'
  BY <1>6 DEF WaitTimeout, TypeOK, ShutdownInv, channelVars, workerVars, callerVars
<1>7. CASE WorkerReceive
  BY <1>7 DEF WorkerReceive, TypeOK, ShutdownInv, channelVars, workerVars, callerVars
<1>8. CASE WorkerExit
  BY <1>8 DEF WorkerExit, TypeOK, ShutdownInv, channelVars, workerVars, callerVars
<1>9. CASE WorkerDrained
  BY <1>9 DEF WorkerDrained, TypeOK, ShutdownInv, channelVars, workerVars, callerVars
<1>10. CASE WorkerPop
  BY <1>10 DEF WorkerPop, TypeOK, ShutdownInv, channelVars, workerVars, callerVars
<1>11. ASSUME NEW f \in Fields, SaveRead(f)
      PROVE  ShutdownInv'
  BY <1>11 DEF SaveRead, TypeOK, ShutdownInv, channelVars, workerVars, callerVars
<1>12. CASE SaveCommit
  BY <1>12 DEF SaveCommit, TypeOK, ShutdownInv, channelVars, workerVars, callerVars
<1>13. CASE SaveFail
  BY <1>13 DEF SaveFail, TypeOK, ShutdownInv, channelVars, workerVars, callerVars
<1>14. ASSUME NEW s \in Stoppers, ShutdownCall(s)
      PROVE  ShutdownInv'
  BY <1>14 DEF ShutdownCall, TypeOK, ShutdownInv, channelVars, workerVars, callerVars
<1>15. ASSUME NEW s \in Stoppers, ShutdownBegin(s)
      PROVE  ShutdownInv'
  BY <1>15 DEF ShutdownBegin, TypeOK, ShutdownInv, channelVars, workerVars, callerVars
<1>16. ASSUME NEW s \in Stoppers, ShutdownClose(s)
      PROVE  ShutdownInv'
  BY <1>16 DEF ShutdownClose, TypeOK, ShutdownInv, channelVars, workerVars, callerVars
<1>17. ASSUME NEW s \in Stoppers, ShutdownDone(s)
      PROVE  ShutdownInv'
  BY <1>17 DEF ShutdownDone, TypeOK, ShutdownInv, channelVars, workerVars, callerVars
<1>18. ASSUME NEW s \in Stoppers, ShutdownAbandon(s)
      PROVE  ShutdownInv'
  BY <1>18 DEF ShutdownAbandon, TypeOK, ShutdownInv, channelVars, workerVars, callerVars
<1>19. ASSUME NEW s \in Stoppers, ShutdownAgain(s)
      PROVE  ShutdownInv'
  BY <1>19 DEF ShutdownAgain, TypeOK, ShutdownInv, channelVars, workerVars, callerVars
<1>20. CASE Terminated
  BY <1>20 DEF Terminated, vars, TypeOK, ShutdownInv, channelVars, workerVars, callerVars
<1>21. CASE UNCHANGED vars
  BY <1>21 DEF vars, TypeOK, ShutdownInv, channelVars, workerVars, callerVars
<1> QED
  BY <1>1, <1>2, <1>3, <1>4, <1>5, <1>6, <1>7, <1>8, <1>9, <1>10, <1>11, <1>12, <1>13, <1>14, <1>15, <1>16, <1>17, <1>18, <1>19, <1>20, <1>21
     DEF Next, WriterNext, WorkerNext, BackendNext, StopperNext

(* No wake-up is lost, and the channel is neither sent on nor closed twice. *)
LEMMA WakeStep ==
    ASSUME TypeOK, ShutdownInv, WakeInv, [Next]_vars
    PROVE  WakeInv'
<1> USE QueueAssumption, WritesAssumption
<1>1. ASSUME NEW w \in Writers, NEW f \in Fields, Write(w, f)
      PROVE  WakeInv'
  BY <1>1 DEF Write, TypeOK, ShutdownInv, WakeInv, NoLostWakeup, DrainedOnExit, NoPanic, channelVars, workerVars, callerVars
<1>2. ASSUME NEW w \in Writers, PersistSkip(w)
      PROVE  WakeInv'
  BY <1>2 DEF PersistSkip, TypeOK, ShutdownInv, WakeInv, NoLostWakeup, DrainedOnExit, NoPanic, channelVars, workerVars, callerVars
<1>3. ASSUME NEW w \in Writers, PersistDrop(w)
      PROVE  WakeInv'
  BY <1>3 DEF PersistDrop, TypeOK, ShutdownInv, WakeInv, NoLostWakeup, DrainedOnExit, NoPanic, channelVars, workerVars, callerVars
<1>4. ASSUME NEW w \in Writers, PersistEnqueue(w)
      PROVE  WakeInv'
  BY <1>4 DEF PersistEnqueue, TypeOK, ShutdownInv, WakeInv, NoLostWakeup, DrainedOnExit, NoPanic, channelVars, workerVars, callerVars
<1>5. ASSUME NEW w \in Writers, WaitDone(w)
      PROVE  WakeInv'
  BY <1>5 DEF WaitDone, TypeOK, ShutdownInv, WakeInv, NoLostWakeup, DrainedOnExit, NoPanic, channelVars, workerVars, callerVars
<1>6. ASSUME NEW w \in Writers, WaitTimeout(w)
      PROVE  WakeInv'
  BY <1>6 DEF WaitTimeout, TypeOK, ShutdownInv, WakeInv, NoLostWakeup, DrainedOnExit, NoPanic, channelVars, workerVars, callerVars
<1>7. CASE WorkerReceive
  BY <1>7 DEF WorkerReceive, TypeOK, ShutdownInv, WakeInv, NoLostWakeup, DrainedOnExit, NoPanic, channelVars, workerVars, callerVars
<1>8. CASE WorkerExit
  BY <1>8 DEF WorkerExit, TypeOK, ShutdownInv, WakeInv, NoLostWakeup, DrainedOnExit, NoPanic, channelVars, workerVars, callerVars
<1>9. CASE WorkerDrained
  BY <1>9 DEF WorkerDrained, TypeOK, ShutdownInv, WakeInv, NoLostWakeup, DrainedOnExit, NoPanic, channelVars, workerVars, callerVars
<1>10. CASE WorkerPop
  BY <1>10 DEF WorkerPop, TypeOK, ShutdownInv, WakeInv, NoLostWakeup, DrainedOnExit, NoPanic, channelVars, workerVars, callerVars
<1>11. ASSUME NEW f \in Fields, SaveRead(f)
      PROVE  WakeInv'
  BY <1>11 DEF SaveRead, TypeOK, ShutdownInv, WakeInv, NoLostWakeup, DrainedOnExit, NoPanic, channelVars, workerVars, callerVars
<1>12. CASE SaveCommit
  BY <1>12 DEF SaveCommit, TypeOK, ShutdownInv, WakeInv, NoLostWakeup, DrainedOnExit, NoPanic, channelVars, workerVars, callerVars
<1>13. CASE SaveFail
  BY <1>13 DEF SaveFail, TypeOK, ShutdownInv, WakeInv, NoLostWakeup, DrainedOnExit, NoPanic, channelVars, workerVars, callerVars
<1>14. ASSUME NEW s \in Stoppers, ShutdownCall(s)
      PROVE  WakeInv'
  BY <1>14 DEF ShutdownCall, TypeOK, ShutdownInv, WakeInv, NoLostWakeup, DrainedOnExit, NoPanic, channelVars, workerVars, callerVars
<1>15. ASSUME NEW s \in Stoppers, ShutdownBegin(s)
      PROVE  WakeInv'
  BY <1>15 DEF ShutdownBegin, TypeOK, ShutdownInv, WakeInv, NoLostWakeup, DrainedOnExit, NoPanic, channelVars, workerVars, callerVars
<1>16. ASSUME NEW s \in Stoppers, ShutdownClose(s)
      PROVE  WakeInv'
  BY <1>16 DEF ShutdownClose, TypeOK, ShutdownInv, WakeInv, NoLostWakeup, DrainedOnExit, NoPanic, channelVars, workerVars, callerVars
<1>17. ASSUME NEW s \in Stoppers, ShutdownDone(s)
      PROVE  WakeInv'
  BY <1>17 DEF ShutdownDone, TypeOK, ShutdownInv, WakeInv, NoLostWakeup, DrainedOnExit, NoPanic, channelVars, workerVars, callerVars
<1>18. ASSUME NEW s \in Stoppers, ShutdownAbandon(s)
      PROVE  WakeInv'
  BY <1>18 DEF ShutdownAbandon, TypeOK, ShutdownInv, WakeInv, NoLostWakeup, DrainedOnExit, NoPanic, channelVars, workerVars, callerVars
<1>19. ASSUME NEW s \in Stoppers, ShutdownAgain(s)
      PROVE  WakeInv'
  BY <1>19 DEF ShutdownAgain, TypeOK, ShutdownInv, WakeInv, NoLostWakeup, DrainedOnExit, NoPanic, channelVars, workerVars, callerVars
<1>20. CASE Terminated
  BY <1>20 DEF Terminated, vars, TypeOK, ShutdownInv, WakeInv, NoLostWakeup, DrainedOnExit, NoPanic, channelVars, workerVars, callerVars
<1>21. CASE UNCHANGED vars
  BY <1>21 DEF vars, TypeOK, ShutdownInv, WakeInv, NoLostWakeup, DrainedOnExit, NoPanic, channelVars, workerVars, callerVars
<1> QED
  BY <1>1, <1>2, <1>3, <1>4, <1>5, <1>6, <1>7, <1>8, <1>9, <1>10, <1>11, <1>12, <1>13, <1>14, <1>15, <1>16, <1>17, <1>18, <1>19, <1>20, <1>21
     DEF Next, WriterNext, WorkerNext, BackendNext, StopperNext

(* Board, save in progress and checkpoint stay ordered.                      *)
LEMMA OrderStep ==
    ASSUME TypeOK, OpsInv, OrderInv, [Next]_vars
    PROVE  OrderInv'
<1> USE QueueAssumption, WritesAssumption
<1>1. ASSUME NEW w \in Writers, NEW f \in Fields, Write(w, f)
      PROVE  OrderInv'
  <2>1. /\ Len(log') = Len(log) + 1
        /\ \A v \in 1 .. Len(log) : log'[v] = log[v]
        /\ log'[Len(log) + 1] = f
    BY <1>1 DEF Write, TypeOK
  <2>2. \A v \in 1 .. Len(log') : mem'[log'[v]] >= v
    <3> TAKE v \in 1 .. Len(log')
    <3>1. CASE v = Len(log) + 1
      BY <1>1, <2>1, <3>1 DEF Write, TypeOK
    <3>2. CASE v \in 1 .. Len(log)
      <4> DEFINE g == log[v]
      <4>1. g \in Fields
        BY <3>2 DEF TypeOK
      <4>2. mem[g] >= v
        BY <3>2 DEF OrderInv
      <4>3. log'[v] = g
        BY <2>1, <3>2
      <4>4. mem'[g] = mem[g] \/ mem'[g] = Len(log) + 1
        BY <1>1, <4>1 DEF Write, TypeOK
      <4>5. v <= Len(log) /\ v \in Nat /\ Len(log) \in Nat
        BY <3>2 DEF TypeOK
      <4> HIDE DEF g
      <4> QED
        BY <4>2, <4>3, <4>4, <4>5
    <3> QED
      BY <2>1, <3>1, <3>2 DEF TypeOK
  <2>3. \A g \in Fields : store'[g] <= mem'[g] /\ mem'[g] <= Len(log')
    BY <1>1, <2>1 DEF Write, TypeOK, OrderInv
  <2>4. worker' = "save" =>
           \A g \in Fields \ unread' : store'[g] <= snap'[g] /\ snap'[g] <= mem'[g]
    BY <1>1 DEF Write, TypeOK, OrderInv, workerVars
  <2> QED
    BY <2>2, <2>3, <2>4 DEF OrderInv
<1>2. ASSUME NEW w \in Writers, PersistSkip(w)
      PROVE  OrderInv'
  BY <1>2 DEF PersistSkip, TypeOK, OpsInv, OrderInv, channelVars, workerVars, callerVars
<1>3. ASSUME NEW w \in Writers, PersistDrop(w)
      PROVE  OrderInv'
  BY <1>3 DEF PersistDrop, TypeOK, OpsInv, OrderInv, channelVars, workerVars, callerVars
<1>4. ASSUME NEW w \in Writers, PersistEnqueue(w)
      PROVE  OrderInv'
  BY <1>4 DEF PersistEnqueue, TypeOK, OpsInv, OrderInv, channelVars, workerVars, callerVars
<1>5. ASSUME NEW w \in Writers, WaitDone(w)
      PROVE  OrderInv'
  BY <1>5 DEF WaitDone, TypeOK, OpsInv, OrderInv, channelVars, workerVars, callerVars
<1>6. ASSUME NEW w \in Writers, WaitTimeout(w)
      PROVE  OrderInv'
  BY <1>6 DEF WaitTimeout, TypeOK, OpsInv, OrderInv, channelVars, workerVars, callerVars
<1>7. CASE WorkerReceive
  BY <1>7 DEF WorkerReceive, TypeOK, OpsInv, OrderInv, channelVars, workerVars, callerVars
<1>8. CASE WorkerExit
  BY <1>8 DEF WorkerExit, TypeOK, OpsInv, OrderInv, channelVars, workerVars, callerVars
<1>9. CASE WorkerDrained
  BY <1>9 DEF WorkerDrained, TypeOK, OpsInv, OrderInv, channelVars, workerVars, callerVars
<1>10. CASE WorkerPop
  BY <1>10 DEF WorkerPop, TypeOK, OpsInv, OrderInv, channelVars, workerVars, callerVars
<1>11. ASSUME NEW f \in Fields, SaveRead(f)
      PROVE  OrderInv'
  BY <1>11, SMTT(30) DEF SaveRead, TypeOK, OpsInv, OrderInv, channelVars, workerVars, callerVars
<1>12. CASE SaveCommit
  BY <1>12 DEF SaveCommit, TypeOK, OpsInv, OrderInv, channelVars, workerVars, callerVars
<1>13. CASE SaveFail
  BY <1>13 DEF SaveFail, TypeOK, OpsInv, OrderInv, channelVars, workerVars, callerVars
<1>14. ASSUME NEW s \in Stoppers, ShutdownCall(s)
      PROVE  OrderInv'
  BY <1>14 DEF ShutdownCall, TypeOK, OpsInv, OrderInv, channelVars, workerVars, callerVars
<1>15. ASSUME NEW s \in Stoppers, ShutdownBegin(s)
      PROVE  OrderInv'
  BY <1>15 DEF ShutdownBegin, TypeOK, OpsInv, OrderInv, channelVars, workerVars, callerVars
<1>16. ASSUME NEW s \in Stoppers, ShutdownClose(s)
      PROVE  OrderInv'
  BY <1>16 DEF ShutdownClose, TypeOK, OpsInv, OrderInv, channelVars, workerVars, callerVars
<1>17. ASSUME NEW s \in Stoppers, ShutdownDone(s)
      PROVE  OrderInv'
  BY <1>17 DEF ShutdownDone, TypeOK, OpsInv, OrderInv, channelVars, workerVars, callerVars
<1>18. ASSUME NEW s \in Stoppers, ShutdownAbandon(s)
      PROVE  OrderInv'
  BY <1>18 DEF ShutdownAbandon, TypeOK, OpsInv, OrderInv, channelVars, workerVars, callerVars
<1>19. ASSUME NEW s \in Stoppers, ShutdownAgain(s)
      PROVE  OrderInv'
  BY <1>19 DEF ShutdownAgain, TypeOK, OpsInv, OrderInv, channelVars, workerVars, callerVars
<1>20. CASE Terminated
  BY <1>20 DEF Terminated, vars, TypeOK, OpsInv, OrderInv, channelVars, workerVars, callerVars
<1>21. CASE UNCHANGED vars
  BY <1>21 DEF vars, TypeOK, OpsInv, OrderInv, channelVars, workerVars, callerVars
<1> QED
  BY <1>1, <1>2, <1>3, <1>4, <1>5, <1>6, <1>7, <1>8, <1>9, <1>10, <1>11, <1>12, <1>13, <1>14, <1>15, <1>16, <1>17, <1>18, <1>19, <1>20, <1>21
     DEF Next, WriterNext, WorkerNext, BackendNext, StopperNext

(* A reported success covers its write.                                      *)
LEMMA AckStep ==
    ASSUME TypeOK, OpsInv, OrderInv, AckInv, [Next]_vars
    PROVE  AckInv'
<1> USE QueueAssumption, WritesAssumption
<1>1. ASSUME NEW w \in Writers, NEW f \in Fields, Write(w, f)
      PROVE  AckInv'
  <2>1. /\ Len(log') = Len(log) + 1
        /\ \A v \in 1 .. Len(log) : log'[v] = log[v]
        /\ log'[Len(log) + 1] = f
    BY <1>1 DEF Write, TypeOK
  <2>2. worker' = "save" => log'[cur'] \in unread' \/ snap'[log'[cur']] >= cur'
    BY <1>1, <2>1 DEF Write, TypeOK, OpsInv, AckInv, workerVars
  <2>3. ASSUME NEW v \in Writes, done'[v] = "ok"
        PROVE  v <= Len(log') /\ store'[log'[v]] >= v
    <3>1. v \in 1 .. Len(log) /\ store[log[v]] >= v
      BY <1>1, <2>3 DEF Write, TypeOK, AckInv, Writes
    <3> QED
      BY <1>1, <2>1, <3>1 DEF Write, TypeOK
  <2> QED
    BY <2>2, <2>3 DEF AckInv
<1>2. ASSUME NEW w \in Writers, PersistSkip(w)
      PROVE  AckInv'
  BY <1>2 DEF PersistSkip, TypeOK, OpsInv, OrderInv, AckInv, Writes, channelVars, workerVars, callerVars
<1>3. ASSUME NEW w \in Writers, PersistDrop(w)
      PROVE  AckInv'
  BY <1>3 DEF PersistDrop, TypeOK, OpsInv, OrderInv, AckInv, Writes, channelVars, workerVars, callerVars
<1>4. ASSUME NEW w \in Writers, PersistEnqueue(w)
      PROVE  AckInv'
  BY <1>4 DEF PersistEnqueue, TypeOK, OpsInv, OrderInv, AckInv, Writes, channelVars, workerVars, callerVars
<1>5. ASSUME NEW w \in Writers, WaitDone(w)
      PROVE  AckInv'
  BY <1>5 DEF WaitDone, TypeOK, OpsInv, OrderInv, AckInv, Writes, channelVars, workerVars, callerVars
<1>6. ASSUME NEW w \in Writers, WaitTimeout(w)
      PROVE  AckInv'
  BY <1>6 DEF WaitTimeout, TypeOK, OpsInv, OrderInv, AckInv, Writes, channelVars, workerVars, callerVars
<1>7. CASE WorkerReceive
  BY <1>7 DEF WorkerReceive, TypeOK, OpsInv, OrderInv, AckInv, Writes, channelVars, workerVars, callerVars
<1>8. CASE WorkerExit
  BY <1>8 DEF WorkerExit, TypeOK, OpsInv, OrderInv, AckInv, Writes, channelVars, workerVars, callerVars
<1>9. CASE WorkerDrained
  BY <1>9 DEF WorkerDrained, TypeOK, OpsInv, OrderInv, AckInv, Writes, channelVars, workerVars, callerVars
<1>10. CASE WorkerPop
  <2>1. Head(queue) \in 1 .. Len(log)
    BY <1>10 DEF WorkerPop, TypeOK, OpsInv
  <2>2. log[Head(queue)] \in Fields
    BY <2>1 DEF TypeOK
  <2> QED
    BY <1>10, <2>1, <2>2 DEF WorkerPop, TypeOK, AckInv
<1>11. ASSUME NEW f \in Fields, SaveRead(f)
      PROVE  AckInv'
  BY <1>11, SMTT(30) DEF SaveRead, TypeOK, OpsInv, OrderInv, AckInv, Writes, channelVars, workerVars, callerVars
<1>12. CASE SaveCommit
  BY <1>12, SMTT(30) DEF SaveCommit, TypeOK, OpsInv, OrderInv, AckInv, Writes, channelVars, workerVars, callerVars
<1>13. CASE SaveFail
  BY <1>13 DEF SaveFail, TypeOK, OpsInv, OrderInv, AckInv, Writes, channelVars, workerVars, callerVars
<1>14. ASSUME NEW s \in Stoppers, ShutdownCall(s)
      PROVE  AckInv'
  BY <1>14 DEF ShutdownCall, TypeOK, OpsInv, OrderInv, AckInv, Writes, channelVars, workerVars, callerVars
<1>15. ASSUME NEW s \in Stoppers, ShutdownBegin(s)
      PROVE  AckInv'
  BY <1>15 DEF ShutdownBegin, TypeOK, OpsInv, OrderInv, AckInv, Writes, channelVars, workerVars, callerVars
<1>16. ASSUME NEW s \in Stoppers, ShutdownClose(s)
      PROVE  AckInv'
  BY <1>16 DEF ShutdownClose, TypeOK, OpsInv, OrderInv, AckInv, Writes, channelVars, workerVars, callerVars
<1>17. ASSUME NEW s \in Stoppers, ShutdownDone(s)
      PROVE  AckInv'
  BY <1>17 DEF ShutdownDone, TypeOK, OpsInv, OrderInv, AckInv, Writes, channelVars, workerVars, callerVars
<1>18. ASSUME NEW s \in Stoppers, ShutdownAbandon(s)
      PROVE  AckInv'
  BY <1>18 DEF ShutdownAbandon, TypeOK, OpsInv, OrderInv, AckInv, Writes, channelVars, workerVars, callerVars
<1>19. ASSUME NEW s \in Stoppers, ShutdownAgain(s)
      PROVE  AckInv'
  BY <1>19 DEF ShutdownAgain, TypeOK, OpsInv, OrderInv, AckInv, Writes, channelVars, workerVars, callerVars
<1>20. CASE Terminated
  BY <1>20 DEF Terminated, vars, TypeOK, OpsInv, OrderInv, AckInv, Writes, channelVars, workerVars, callerVars
<1>21. CASE UNCHANGED vars
  BY <1>21 DEF vars, TypeOK, OpsInv, OrderInv, AckInv, Writes, channelVars, workerVars, callerVars
<1> QED
  BY <1>1, <1>2, <1>3, <1>4, <1>5, <1>6, <1>7, <1>8, <1>9, <1>10, <1>11, <1>12, <1>13, <1>14, <1>15, <1>16, <1>17, <1>18, <1>19, <1>20, <1>21
     DEF Next, WriterNext, WorkerNext, BackendNext, StopperNext

(* Every newer field stays accounted for.                                    *)
LEMMA CoverStep ==
    ASSUME TypeOK, OpsInv, CoverInv, [Next]_vars
    PROVE  CoverInv'
<1> USE QueueAssumption, WritesAssumption
<1>1. ASSUME NEW w \in Writers, NEW f \in Fields, Write(w, f)
      PROVE  CoverInv'
  <2>1. /\ Len(log') = Len(log) + 1
        /\ \A v \in 1 .. Len(log) : log'[v] = log[v]
        /\ log'[Len(log) + 1] = f
    BY <1>1 DEF Write, TypeOK
  <2>2. Covered(f)'
    BY <1>1, <2>1 DEF Write, TypeOK, Covered
  <2>3. ASSUME NEW g \in Fields, g # f
        PROVE  mem'[g] = mem[g] /\ (Covered(g) => Covered(g)')
    <3>1. ASSUME NEW u \in Writers, pc[u] = "enqueue", log[op[u]] = g
          PROVE  pc'[u] = "enqueue" /\ log'[op'[u]] = g
      BY <1>1, <2>1, <3>1 DEF Write, TypeOK, OpsInv
    <3> QED
      BY <1>1, <2>3, <3>1 DEF Write, TypeOK, Covered
  <2> QED
    BY <1>1, <2>2, <2>3 DEF Write, CoverInv, workerVars
<1>2. ASSUME NEW w \in Writers, PersistSkip(w)
      PROVE  CoverInv'
  BY <1>2 DEF PersistSkip, TypeOK, OpsInv, CoverInv, Covered, channelVars, workerVars, callerVars
<1>3. ASSUME NEW w \in Writers, PersistDrop(w)
      PROVE  CoverInv'
  BY <1>3 DEF PersistDrop, TypeOK, OpsInv, CoverInv, Covered, channelVars, workerVars, callerVars
<1>4. ASSUME NEW w \in Writers, PersistEnqueue(w)
      PROVE  CoverInv'
  BY <1>4, SMTT(30) DEF PersistEnqueue, TypeOK, OpsInv, CoverInv, Covered, channelVars, workerVars, callerVars
<1>5. ASSUME NEW w \in Writers, WaitDone(w)
      PROVE  CoverInv'
  BY <1>5 DEF WaitDone, TypeOK, OpsInv, CoverInv, Covered, channelVars, workerVars, callerVars
<1>6. ASSUME NEW w \in Writers, WaitTimeout(w)
      PROVE  CoverInv'
  BY <1>6, ZenonT(60) DEF WaitTimeout, TypeOK, OpsInv, CoverInv, Covered, channelVars, workerVars, callerVars
<1>7. CASE WorkerReceive
  BY <1>7 DEF WorkerReceive, TypeOK, OpsInv, CoverInv, Covered, channelVars, workerVars, callerVars
<1>8. CASE WorkerExit
  BY <1>8 DEF WorkerExit, TypeOK, OpsInv, CoverInv, Covered, channelVars, workerVars, callerVars
<1>9. CASE WorkerDrained
  BY <1>9 DEF WorkerDrained, TypeOK, OpsInv, CoverInv, Covered, channelVars, workerVars, callerVars
<1>10. CASE WorkerPop
  BY <1>10 DEF WorkerPop, TypeOK, OpsInv, CoverInv, Covered, channelVars, workerVars, callerVars
<1>11. ASSUME NEW f \in Fields, SaveRead(f)
      PROVE  CoverInv'
  <2>1. \A g \in Fields : Covered(g)' <=> Covered(g)
    BY <1>11 DEF SaveRead, Covered, callerVars
  <2> QED
    BY <1>11, <2>1 DEF SaveRead, TypeOK, CoverInv
<1>12. CASE SaveCommit
  BY <1>12 DEF SaveCommit, TypeOK, OpsInv, CoverInv, Covered, channelVars, workerVars, callerVars
<1>13. CASE SaveFail
  BY <1>13 DEF SaveFail, TypeOK, OpsInv, CoverInv, Covered, channelVars, workerVars, callerVars
<1>14. ASSUME NEW s \in Stoppers, ShutdownCall(s)
      PROVE  CoverInv'
  BY <1>14 DEF ShutdownCall, TypeOK, OpsInv, CoverInv, Covered, channelVars, workerVars, callerVars
<1>15. ASSUME NEW s \in Stoppers, ShutdownBegin(s)
      PROVE  CoverInv'
  BY <1>15 DEF ShutdownBegin, TypeOK, OpsInv, CoverInv, Covered, channelVars, workerVars, callerVars
<1>16. ASSUME NEW s \in Stoppers, ShutdownClose(s)
      PROVE  CoverInv'
  BY <1>16 DEF ShutdownClose, TypeOK, OpsInv, CoverInv, Covered, channelVars, workerVars, callerVars
<1>17. ASSUME NEW s \in Stoppers, ShutdownDone(s)
      PROVE  CoverInv'
  BY <1>17 DEF ShutdownDone, TypeOK, OpsInv, CoverInv, Covered, channelVars, workerVars, callerVars
<1>18. ASSUME NEW s \in Stoppers, ShutdownAbandon(s)
      PROVE  CoverInv'
  BY <1>18 DEF ShutdownAbandon, TypeOK, OpsInv, CoverInv, Covered, channelVars, workerVars, callerVars
<1>19. ASSUME NEW s \in Stoppers, ShutdownAgain(s)
      PROVE  CoverInv'
  BY <1>19 DEF ShutdownAgain, TypeOK, OpsInv, CoverInv, Covered, channelVars, workerVars, callerVars
<1>20. CASE Terminated
  BY <1>20 DEF Terminated, vars, TypeOK, OpsInv, CoverInv, Covered, channelVars, workerVars, callerVars
<1>21. CASE UNCHANGED vars
  BY <1>21 DEF vars, TypeOK, OpsInv, CoverInv, Covered, channelVars, workerVars, callerVars
<1> QED
  BY <1>1, <1>2, <1>3, <1>4, <1>5, <1>6, <1>7, <1>8, <1>9, <1>10, <1>11, <1>12, <1>13, <1>14, <1>15, <1>16, <1>17, <1>18, <1>19, <1>20, <1>21
     DEF Next, WriterNext, WorkerNext, BackendNext, StopperNext

(* A fresh board satisfies the inductive invariant.                          *)
LEMMA IInvInit == Init => IInv
<1> SUFFICES ASSUME Init PROVE IInv
  OBVIOUS
<1> USE QueueAssumption, WritesAssumption
<1>1. TypeOK
  <2>1. log \in Seq(Fields) /\ Len(log) <= MaxWrites
    BY DEF Init
  <2>2. queue \in Seq(Writes) /\ Len(queue) <= MaxPersistenceQueue
    BY DEF Init, Started
  <2> QED
    BY <2>1, <2>2 DEF Init, Started, TypeOK
<1>2. OpsInv /\ ShutdownInv /\ WakeInv
  BY DEF Init, Started, OpsInv, ShutdownInv, WakeInv, NoLostWakeup, DrainedOnExit, NoPanic
<1>3. OrderInv /\ AckInv /\ CoverInv
  BY DEF Init, Started, OrderInv, AckInv, CoverInv, Covered
<1> QED
  BY <1>1, <1>2, <1>3 DEF IInv

(* Every step of a writer, of the worker and of Shutdown preserves it.       *)
LEMMA IInvStep == IInv /\ [Next]_vars => IInv'
<1> SUFFICES ASSUME IInv, [Next]_vars PROVE IInv'
  OBVIOUS
<1> USE DEF IInv
<1>1. TypeOK' /\ OpsInv'
  BY TypeStep, OpsStep
<1>2. ShutdownInv' /\ WakeInv'
  BY ShutdownStep, WakeStep
<1>3. OrderInv' /\ AckInv' /\ CoverInv'
  BY OrderStep, AckStep, CoverStep
<1> QED
  BY <1>1, <1>2, <1>3

(* IInv is an inductive invariant of the specification.                      *)
THEOREM Invariance == Spec => []IInv
  BY IInvInit, IInvStep, PTL DEF Spec

(* Every variable keeps its type: the queue of pending saves never exceeds   *)
(* its cap, whatever the writers and the backend do.                         *)
THEOREM TypeCorrect == Spec => []TypeOK
<1>1. IInv => TypeOK
  BY DEF IInv
<1> QED
  BY Invariance, <1>1, PTL

(* persistSafe and the worker never lose a wake-up.                          *)
THEOREM WakeupCorrect == Spec => []NoLostWakeup
<1>1. IInv => NoLostWakeup
  BY DEF IInv, WakeInv
<1> QED
  BY Invariance, <1>1, PTL

(* A worker that has exited has run every operation persistSafe accepted.    *)
THEOREM DrainCorrect == Spec => []DrainedOnExit
<1>1. IInv => DrainedOnExit
  BY DEF IInv, WakeInv
<1> QED
  BY Invariance, <1>1, PTL

(* The wake-up channel is never sent on after close and never closed twice.  *)
THEOREM ChannelCorrect == Spec => []NoPanic
<1>1. IInv => NoPanic
  BY DEF IInv, WakeInv
<1> QED
  BY Invariance, <1>1, PTL

(* A write whose save was reported successful is in the checkpoint, and      *)
(* stays there: a crash at any later point cannot lose it.                   *)
THEOREM AckCorrect == Spec => []AckedDurable
<1>1. IInv => AckedDurable
  BY DEF IInv, AckInv, AckedDurable
<1> QED
  BY Invariance, <1>1, PTL

(* At rest the checkpoint equals the board unless the last save failed or a  *)
(* write came after Shutdown: operations dropped at the cap lose nothing.    *)
THEOREM DurabilityCorrect == Spec => []QuiescentDurability
<1>1. IInv => QuiescentDurability
  <2> SUFFICES ASSUME IInv, queue = <<>>, worker # "save",
                      \A w \in Writers : pc[w] # "enqueue", lastOk, ~skipped
               PROVE  store = mem
    BY DEF QuiescentDurability
  <2>1. \A f \in Fields : store[f] = mem[f]
    BY DEF IInv, CoverInv, Covered
  <2> QED
    BY <2>1 DEF IInv, TypeOK
<1> QED
  BY Invariance, <1>1, PTL

(* The component implements the abstract durable board: every step is a      *)
(* write of one field, a save that moves the checkpoint forward within the   *)
(* board, or leaves both unchanged.                                          *)
THEOREM Refinement == Spec => Refines
<1>1. Init => Durable!Init
  BY DEF Init, Started, Durable!Init
<1>2. IInv /\ [Next]_vars => [Durable!Next]_<<mem, store>>
  <2> SUFFICES ASSUME IInv, [Next]_vars, <<mem, store>>' # <<mem, store>>
               PROVE  Durable!Next
    OBVIOUS
  <2>1. ASSUME NEW w \in Writers, NEW f \in Fields, Write(w, f)
        PROVE  Durable!Next
    <3>1. Durable!Write(f)
      BY <2>1 DEF Write, Durable!Write, IInv, TypeOK, OrderInv
    <3> QED
      BY <3>1 DEF Durable!Next
  <2>2. CASE SaveCommit
    <3>1. \A f \in Fields : store[f] <= snap[f] /\ snap[f] <= mem[f]
      BY <2>2 DEF SaveCommit, IInv, OrderInv
    <3>2. Durable!Save
      BY <2>2, <3>1 DEF SaveCommit, Durable!Save
    <3> QED
      BY <3>2 DEF Durable!Next
  <2> QED
    BY <2>1, <2>2 DEF Next, vars, WriterNext, WorkerNext, BackendNext, StopperNext, Terminated,
       PersistSkip, PersistDrop, PersistEnqueue, WaitDone, WaitTimeout, WorkerReceive,
       WorkerExit, WorkerDrained, WorkerPop, SaveRead, SaveFail, ShutdownCall,
       ShutdownBegin, ShutdownClose, ShutdownDone, ShutdownAbandon, ShutdownAgain
<1> QED
  BY Invariance, <1>1, <1>2, PTL DEF Spec, Refines, Durable!Spec

(* The persistence queue is served to the end and its channel never misused: *)
(* persistSafe, the worker and Shutdown keep QueueSafe.                      *)
THEOREM QueueCorrect == Spec => []QueueSafe
<1>1. TypeOK /\ NoLostWakeup /\ DrainedOnExit /\ NoPanic => QueueSafe
  BY DEF QueueSafe
<1> QED
  BY TypeCorrect, WakeupCorrect, DrainCorrect, ChannelCorrect, <1>1, PTL

(* Acknowledged saves are in the checkpoint, and at rest it is the board.    *)
THEOREM DurableCorrect == Spec => []Durability
<1>1. AckedDurable /\ QuiescentDurability => Durability
  BY DEF Durability
<1> QED
  BY AckCorrect, DurabilityCorrect, <1>1, PTL
=============================================================================
