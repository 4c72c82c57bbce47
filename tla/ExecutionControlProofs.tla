----------------------- MODULE ExecutionControlProofs -----------------------
(***************************************************************************)
(* The execution control plane for every set of tickets and every choice   *)
(* of requests, stops and bounds: who has the channel, what the rows       *)
(* promise, and that it implements the ledger of tickets.                  *)
(***************************************************************************)
EXTENDS ExecutionControl, TLAPS

(* A coroutine that is past the point where it chose an execution names    *)
(* one, and a task that ends knows how.                                    *)
Naming ==
  /\ ctl.pc \in {"attach", "ensure", "supersede", "superseded", "signal",
                 "note", "finalize", "claim", "claimed"} => ctl.x \in Ids
  /\ ctl.pc = "stop" => StopTarget \in Ids
  /\ IF task.pc = "none" THEN task.id = NoId ELSE task.id \in Ids
  /\ task.pc \in {"tell", "mark", "close"} => task.out # "NONE"

(* Before start-up recovery is over there are no coroutines.               *)
Waiting ==
  phase # "up" => /\ ctl.pc = "free" /\ task.pc = "none" /\ disp = "off"
                  /\ leaving = 0 /\ leavingSeen = 0

(* Who has the channel: a claim keeps the lock, its task waits for it, and *)
(* only the dispatcher that waits for a task has one.                      *)
Holding ==
  /\ runSlot # NoId => refresh = "none"
  /\ disp # "wait" => task.pc = "none"
  /\ ctl.pc \in {"claim", "claimed"} =>
       task.pc = "promote" /\ task.id = ctl.x /\ runSlot = ctl.x
  /\ ctl.pc = "claimed" => status[ctl.x] \in Running
  /\ task.pc = "work" => runSlot = task.id /\ status[task.id] \in Running

IInv == TypeOK /\ Naming /\ Waiting /\ Holding

-----------------------------------------------------------------------------
(* The rows that a coroutine finds are rows, or None.                      *)
LEMMA RowsTyped == DbQueued \in MaybeId /\ DbRunning \in MaybeId
  BY DEF DbQueued, DbRunning, MaybeId

(* A fresh id has no row.                                                  *)
LEMMA FreshTyped == Fresh \subseteq Ids /\ \A x \in Fresh : status[x] = "NONE"
  BY DEF Fresh

(* A free lock and a missing task have the shape of held and live ones.    *)
LEMMA NoneTyped == NoCtl \in CtlType /\ NoTask \in TaskType
  BY DEF NoCtl, NoTask, CtlType, CtlPcs, Kinds, TaskType, TaskPcs, MaybeId

USE DEF dbVars, memVars, slotVars, dispVars, lifeVars

(* A submission starts with the lock free, so it disturbs nobody's claim.  *)
LEMMA SubmitBeginKeeps ==
  ASSUME IInv, NEW r \in Asks, SubmitBegin(r[1], r[2])
  PROVE  IInv'
<1> USE ControlAssumption, RowsTyped, NoneTyped, FreshTyped DEF IInv,
  SubmitBegin, Requests
<1>1. DbType' /\ RegistryType' /\ task' \in TaskType /\ DispType' /\ LifeType'
  <2>1. LifeType'  BY Zenon DEF TypeOK, LifeType
  <2>2. QED
    BY <2>1 DEF TypeOK, DbType, RegistryType, DispType
<1>2. ctl' \in CtlType
  <2>1. r[1] \in Kinds /\ r[2] \in {"request", "step"}
    BY DEF Kinds, ControlAssumption
  <2>2. QED  BY <2>1 DEF NoCtl, CtlType, CtlPcs
<1>3. Naming'
  BY SMTT(30) DEF TypeOK, Naming, CtlType, StopTarget
<1>4. Waiting'
  BY SMTT(30) DEF Waiting, NoCtl, NoTask
<1>5. Holding'
  BY SMTT(30) DEF Holding, NoCtl, NoTask
<1> QED  BY <1>1, <1>2, <1>3, <1>4, <1>5 DEF TypeOK

(* A refused submission only lets go of the lock.                          *)
LEMMA SubmitConflictKeeps ==
  ASSUME IInv, SubmitConflict
  PROVE  IInv'
<1> USE NoneTyped DEF IInv, SubmitConflict
<1>1. DbType' /\ RegistryType' /\ task' \in TaskType /\ DispType' /\ LifeType'
  <2>1. LifeType'  BY Zenon DEF TypeOK, LifeType
  <2>2. QED
    BY <2>1 DEF TypeOK, DbType, RegistryType, DispType
<1>2. ctl' \in CtlType
  BY DEF TypeOK, CtlType, CtlPcs
<1>3. Naming'
  BY SMTT(30) DEF TypeOK, Naming, CtlType, RegistryType, MaybeId, NoCtl,
    StopTarget
<1>4. Waiting'
  BY SMTT(30) DEF Waiting, NoCtl, NoTask
<1>5. Holding'
  BY SMTT(30) DEF Holding, NoCtl, NoTask
<1> QED  BY <1>1, <1>2, <1>3, <1>4, <1>5 DEF TypeOK

(* The ticket to share is named by a row or by the queued slot.            *)
LEMMA SubmitCoalesceKeeps ==
  ASSUME IInv, SubmitCoalesce
  PROVE  IInv'
<1> USE ControlAssumption, RowsTyped, NoneTyped, FreshTyped DEF IInv,
  SubmitCoalesce, SeenQue, SeenKind, QueKind, Coalesces, Supersedes
<1>1. DbType' /\ RegistryType' /\ task' \in TaskType /\ DispType' /\ LifeType'
  <2>1. LifeType'  BY Zenon DEF TypeOK, LifeType
  <2>2. QED
    BY <2>1 DEF TypeOK, DbType, RegistryType, DispType
<1>2. ctl' \in CtlType
  BY DEF TypeOK, CtlType, CtlPcs, Kinds, Naming, DbType, RegistryType,
    DispType, MaybeId, NoCtl
<1>3. Naming'
  BY SMTT(30) DEF TypeOK, Naming, CtlType, RegistryType, MaybeId, NoCtl,
    StopTarget
<1>4. Waiting'
  BY SMTT(30) DEF Waiting, NoCtl, NoTask
<1>5. Holding'
  BY SMTT(30) DEF Holding, NoCtl, NoTask
<1> QED  BY <1>1, <1>2, <1>3, <1>4, <1>5 DEF TypeOK

(* The ticket to supersede is named by a row or by the queued slot.        *)
LEMMA SubmitReplaceKeeps ==
  ASSUME IInv, SubmitReplace
  PROVE  IInv'
<1> USE ControlAssumption, RowsTyped, NoneTyped, FreshTyped DEF IInv,
  SubmitReplace, SeenQue, SeenKind, QueKind, Supersedes
<1>1. DbType' /\ RegistryType' /\ task' \in TaskType /\ DispType' /\ LifeType'
  <2>1. LifeType'  BY Zenon DEF TypeOK, LifeType
  <2>2. QED
    BY <2>1 DEF TypeOK, DbType, RegistryType, DispType
<1>2. ctl' \in CtlType
  BY DEF TypeOK, CtlType, CtlPcs, Kinds, Naming, DbType, RegistryType,
    DispType, MaybeId, NoCtl
<1>3. Naming'
  BY SMTT(30) DEF TypeOK, Naming, CtlType, RegistryType, MaybeId, NoCtl,
    StopTarget
<1>4. Waiting'
  BY SMTT(30) DEF Waiting, NoCtl, NoTask
<1>5. Holding'
  BY SMTT(30) DEF Holding, NoCtl, NoTask
<1> QED  BY <1>1, <1>2, <1>3, <1>4, <1>5 DEF TypeOK

(* The decision to insert names no ticket yet.                             *)
LEMMA SubmitCreateKeeps ==
  ASSUME IInv, SubmitCreate
  PROVE  IInv'
<1> USE ControlAssumption, RowsTyped, NoneTyped, FreshTyped DEF IInv,
  SubmitCreate, SeenRun
<1>1. DbType' /\ RegistryType' /\ task' \in TaskType /\ DispType' /\ LifeType'
  <2>1. LifeType'  BY Zenon DEF TypeOK, LifeType
  <2>2. QED
    BY <2>1 DEF TypeOK, DbType, RegistryType, DispType
<1>2. ctl' \in CtlType
  BY DEF TypeOK, CtlType, CtlPcs, Kinds, Naming, DbType, RegistryType,
    DispType, MaybeId, NoCtl
<1>3. Naming'
  BY SMTT(30) DEF TypeOK, Naming, CtlType, StopTarget
<1>4. Waiting'
  BY SMTT(30) DEF Waiting, NoCtl, NoTask
<1>5. Holding'
  BY SMTT(30) DEF Holding, NoCtl, NoTask
<1> QED  BY <1>1, <1>2, <1>3, <1>4, <1>5 DEF TypeOK

(* Sharing a ticket changes who asked for it and nothing else.             *)
LEMMA SubmitAttachKeeps ==
  ASSUME IInv, SubmitAttach
  PROVE  IInv'
<1> USE NoneTyped DEF IInv, SubmitAttach
<1>1. RegistryType' /\ task' \in TaskType /\ DispType' /\ LifeType'
  <2>1. LifeType'  BY Zenon DEF TypeOK, LifeType
  <2>2. QED
    BY <2>1 DEF TypeOK, RegistryType, DispType
<1>2. DbType'
  BY SMTT(30) DEF TypeOK, DbType
<1>3. ctl' \in CtlType
  BY DEF TypeOK, CtlType, CtlPcs
<1>4. Naming'
  BY SMTT(30) DEF TypeOK, Naming, CtlType, RegistryType, MaybeId, NoCtl,
    StopTarget
<1>5. Waiting'
  BY SMTT(30) DEF Waiting, NoCtl, NoTask
<1>6. Holding'
  BY SMTT(30) DEF Holding, NoCtl, NoTask
<1> QED  BY <1>1, <1>2, <1>3, <1>4, <1>5, <1>6 DEF TypeOK

(* The new row takes an id that had no row, so no run is disturbed.        *)
LEMMA SubmitInsertKeeps ==
  ASSUME IInv, SubmitInsert
  PROVE  IInv'
<1> USE ControlAssumption, RowsTyped, NoneTyped, FreshTyped DEF IInv,
  SubmitInsert
<1>1. RegistryType' /\ task' \in TaskType /\ DispType' /\ LifeType'
  <2>1. LifeType'  BY Zenon DEF TypeOK, LifeType
  <2>2. QED
    BY <2>1 DEF TypeOK, RegistryType, DispType
<1>2. DbType'
  BY SMTT(30) DEF TypeOK, Naming, Holding, CtlType, TaskType, DbType,
    RegistryType, DispType, LifeType, MaybeId, Kinds, Status, Terminal,
    Completion, Running
<1>3. ctl' \in CtlType
  <2>1. PICK x \in Fresh : ctl' = [ctl EXCEPT !.pc = "ensure", !.x = x]
    OBVIOUS
  <2>2. x \in MaybeId  BY DEF MaybeId
  <2>3. QED  BY <2>1, <2>2 DEF TypeOK, CtlType, CtlPcs
<1>4. Naming'
  BY SMTT(30) DEF TypeOK, Naming, CtlType, StopTarget
<1>5. Waiting'
  BY SMTT(30) DEF Waiting, NoCtl, NoTask
<1>6. Holding'
  BY SMTT(30) DEF TypeOK, Naming, Waiting, Holding, CtlType, TaskType, DbType,
    NoCtl, Running, Terminal, Completion
<1> QED  BY <1>1, <1>2, <1>3, <1>4, <1>5, <1>6 DEF TypeOK

(* A refused step leaves no row.                                           *)
LEMMA SubmitRefuseStepKeeps ==
  ASSUME IInv, SubmitRefuseStep
  PROVE  IInv'
<1> USE NoneTyped DEF IInv, SubmitRefuseStep
<1>1. DbType' /\ RegistryType' /\ task' \in TaskType /\ DispType' /\ LifeType'
  <2>1. LifeType'  BY Zenon DEF TypeOK, LifeType
  <2>2. QED
    BY <2>1 DEF TypeOK, DbType, RegistryType, DispType
<1>2. ctl' \in CtlType
  BY DEF TypeOK, CtlType, CtlPcs
<1>3. Naming'
  BY SMTT(30) DEF TypeOK, Naming, CtlType, RegistryType, MaybeId, NoCtl,
    StopTarget
<1>4. Waiting'
  BY SMTT(30) DEF Waiting, NoCtl, NoTask
<1>5. Holding'
  BY SMTT(30) DEF Holding, NoCtl, NoTask
<1> QED  BY <1>1, <1>2, <1>3, <1>4, <1>5 DEF TypeOK

(* The registry learns of the new ticket and may start a dispatcher.       *)
LEMMA SubmitEnsureKeeps ==
  ASSUME IInv, SubmitEnsure
  PROVE  IInv'
<1> USE NoneTyped DEF IInv, SubmitEnsure, Wake
<1>1. DbType' /\ task' \in TaskType /\ LifeType'
  <2>1. LifeType'  BY Zenon DEF TypeOK, LifeType
  <2>2. QED
    BY <2>1 DEF TypeOK, DbType
<1>2. RegistryType'
  BY SMTT(30) DEF TypeOK, Naming, DbType, RegistryType, CtlType, TaskType,
    MaybeId, Status, Terminal, Completion, Running
<1>3. ctl' \in CtlType
  BY DEF TypeOK, CtlType, CtlPcs
<1>4. DispType'
  BY DEF TypeOK, DispType
<1>5. Naming'
  BY SMTT(30) DEF TypeOK, Naming, CtlType, RegistryType, MaybeId, NoCtl,
    StopTarget
<1>6. Waiting'
  BY SMTT(30) DEF Waiting, NoCtl, NoTask
<1>7. Holding'
  BY SMTT(30) DEF Holding, NoCtl, NoTask
<1> QED  BY <1>1, <1>2, <1>3, <1>4, <1>5, <1>6, <1>7 DEF TypeOK

(* The row that is closed was queued, so it is not the row of a run.       *)
LEMMA SubmitSupersedeKeeps ==
  ASSUME IInv, SubmitSupersede
  PROVE  IInv'
<1> USE DEF IInv, SubmitSupersede
<1>1. RegistryType' /\ task' \in TaskType /\ DispType' /\ LifeType'
  <2>1. LifeType'  BY Zenon DEF TypeOK, LifeType
  <2>2. QED
    BY <2>1 DEF TypeOK, RegistryType, DispType
<1>2. DbType'
  BY SMTT(30) DEF TypeOK, Naming, TaskType, DbType, Kinds, Status, Terminal,
    Completion, Running
<1>3. ctl' \in CtlType
  BY DEF TypeOK, CtlType, CtlPcs
<1>4. Naming'
  BY SMTT(30) DEF TypeOK, Naming, CtlType, StopTarget
<1>5. Waiting'
  BY SMTT(30) DEF Waiting, NoCtl, NoTask
<1>6. Holding'
  BY SMTT(30) DEF TypeOK, Naming, Waiting, Holding, CtlType, TaskType, DbType,
    NoCtl, Running, Terminal, Completion
<1> QED  BY <1>1, <1>2, <1>3, <1>4, <1>5, <1>6 DEF TypeOK

(* A lost supersede starts over from fresh rows.                           *)
LEMMA SubmitSupersedeLostKeeps ==
  ASSUME IInv, SubmitSupersedeLost
  PROVE  IInv'
<1> USE ControlAssumption, RowsTyped, NoneTyped, FreshTyped DEF IInv,
  SubmitSupersedeLost
<1>1. DbType' /\ RegistryType' /\ task' \in TaskType /\ DispType' /\ LifeType'
  <2>1. LifeType'  BY Zenon DEF TypeOK, LifeType
  <2>2. QED
    BY <2>1 DEF TypeOK, DbType, RegistryType, DispType
<1>2. ctl' \in CtlType
  BY DEF TypeOK, CtlType, CtlPcs, Kinds, Naming, DbType, RegistryType,
    DispType, MaybeId, NoCtl
<1>3. Naming'
  BY SMTT(30) DEF TypeOK, Naming, CtlType, StopTarget
<1>4. Waiting'
  BY SMTT(30) DEF Waiting, NoCtl, NoTask
<1>5. Holding'
  BY SMTT(30) DEF Holding, NoCtl, NoTask
<1> QED  BY <1>1, <1>2, <1>3, <1>4, <1>5 DEF TypeOK

(* The superseded entry is stopped in memory.                              *)
LEMMA SubmitSupersededKeeps ==
  ASSUME IInv, SubmitSuperseded
  PROVE  IInv'
<1> USE ControlAssumption, RowsTyped, NoneTyped, FreshTyped DEF IInv,
  SubmitSuperseded, Requested, Cleared, Inserting
<1>1. DbType' /\ task' \in TaskType /\ DispType' /\ LifeType'
  <2>1. LifeType'  BY Zenon DEF TypeOK, LifeType
  <2>2. QED
    BY <2>1 DEF TypeOK, DbType, DispType
<1>2. RegistryType'
  BY SMTT(30) DEF TypeOK, Naming, DbType, RegistryType, CtlType, TaskType,
    MaybeId, Status, Terminal, Completion, Running
<1>3. ctl' \in CtlType
  BY DEF TypeOK, CtlType, CtlPcs, Kinds, Naming, DbType, RegistryType,
    DispType, MaybeId, NoCtl
<1>4. Naming'
  BY SMTT(30) DEF TypeOK, Naming, CtlType, StopTarget
<1>5. Waiting'
  BY SMTT(30) DEF Waiting, NoCtl, NoTask
<1>6. Holding'
  BY SMTT(30) DEF Holding, NoCtl, NoTask
<1> QED  BY <1>1, <1>2, <1>3, <1>4, <1>5, <1>6 DEF TypeOK

(* Revoking touches queued rows only.                                      *)
LEMMA StopBeginKeeps ==
  ASSUME IInv, NEW op \in {"cancel", "terminate"}, StopBegin(op)
  PROVE  IInv'
<1> USE ControlAssumption, RowsTyped, NoneTyped, FreshTyped DEF IInv,
  StopBegin, Revoked
<1>1. RegistryType' /\ task' \in TaskType /\ DispType' /\ LifeType'
  <2>1. LifeType'  BY Zenon DEF TypeOK, LifeType
  <2>2. QED
    BY <2>1 DEF TypeOK, RegistryType, DispType
<1>2. DbType'
  BY SMTT(30) DEF TypeOK, DbType, Status, Terminal, Completion, Running
<1>3. ctl' \in CtlType
  BY DEF TypeOK, CtlType, CtlPcs, Kinds, Naming, DbType, RegistryType,
    DispType, MaybeId, NoCtl
<1>4. Naming'
  BY SMTT(30) DEF TypeOK, Naming, CtlType, StopTarget
<1>5. Waiting'
  BY SMTT(30) DEF Waiting, NoCtl, NoTask
<1>6. Holding'
  BY SMTT(30) DEF TypeOK, Naming, Waiting, Holding, CtlType, TaskType, DbType,
    NoCtl, Running, Terminal, Completion
<1> QED  BY <1>1, <1>2, <1>3, <1>4, <1>5, <1>6 DEF TypeOK

(* The route picks its targets from the slots or the rows.                 *)
LEMMA StopReapKeeps ==
  ASSUME IInv, StopReap
  PROVE  IInv'
<1> USE ControlAssumption, RowsTyped DEF IInv, StopReap, ReapedMem, ReapedSlot,
  ReapWanted
<1>1. DbType' /\ task' \in TaskType /\ DispType' /\ LifeType'
  <2>1. LifeType'  BY Zenon DEF TypeOK, LifeType
  <2>2. QED
    BY <2>1 DEF TypeOK, DbType, DispType
<1>2. RegistryType'
  BY SMTT(30) DEF TypeOK, Naming, DbType, RegistryType, CtlType, TaskType,
    MaybeId, Status, Terminal, Completion, Running
<1>3. ctl' \in CtlType
  <2>1. ReapedSlot \in MaybeId /\ runSlot \in MaybeId
    BY DEF TypeOK, RegistryType, MaybeId
  <2>2. QED  BY <2>1 DEF NoCtl, CtlType, CtlPcs, Kinds, MaybeId
<1>4. Naming'
  BY SMTT(30) DEF TypeOK, Naming, CtlType, RegistryType, MaybeId, NoCtl,
    StopTarget
<1>5. Waiting'
  BY SMTT(30) DEF Waiting, NoCtl, NoTask
<1>6. Holding'
  BY SMTT(30) DEF Holding, NoCtl, NoTask
<1> QED  BY <1>1, <1>2, <1>3, <1>4, <1>5, <1>6 DEF TypeOK

(* The row that is closed was queued, so it is not the row of a run.       *)
LEMMA StopQueuedKeeps ==
  ASSUME IInv, StopQueued
  PROVE  IInv'
<1> USE DEF IInv, StopQueued
<1>1. RegistryType' /\ task' \in TaskType /\ DispType' /\ LifeType'
  <2>1. LifeType'  BY Zenon DEF TypeOK, LifeType
  <2>2. QED
    BY <2>1 DEF TypeOK, RegistryType, DispType
<1>2. DbType'
  BY SMTT(30) DEF TypeOK, Naming, TaskType, DbType, Kinds, Status, Terminal,
    Completion, Running
<1>3. ctl' \in CtlType
  <2>1. StopTarget \in MaybeId  BY DEF Naming, MaybeId
  <2>2. QED  BY <2>1 DEF TypeOK, CtlType, CtlPcs
<1>4. Naming'
  BY SMTT(30) DEF TypeOK, Naming, CtlType, StopTarget
<1>5. Waiting'
  BY SMTT(30) DEF Waiting, NoCtl, NoTask
<1>6. Holding'
  BY SMTT(30) DEF TypeOK, Naming, Waiting, Holding, CtlType, TaskType, DbType,
    NoCtl, Running, Terminal, Completion
<1> QED  BY <1>1, <1>2, <1>3, <1>4, <1>5, <1>6 DEF TypeOK

(* A run that is asked to stop goes on running.                            *)
LEMMA StopRunningKeeps ==
  ASSUME IInv, StopRunning
  PROVE  IInv'
<1> USE ControlAssumption, RowsTyped, NoneTyped, FreshTyped DEF IInv,
  StopRunning
<1>1. RegistryType' /\ task' \in TaskType /\ DispType' /\ LifeType'
  <2>1. LifeType'  BY Zenon DEF TypeOK, LifeType
  <2>2. QED
    BY <2>1 DEF TypeOK, RegistryType, DispType
<1>2. DbType'
  BY SMTT(30) DEF TypeOK, Naming, TaskType, DbType, Kinds, Status, Terminal,
    Completion, Running
<1>3. ctl' \in CtlType
  BY DEF TypeOK, CtlType, CtlPcs, Kinds, Naming, DbType, RegistryType,
    DispType, MaybeId, NoCtl
<1>4. Naming'
  BY SMTT(30) DEF TypeOK, Naming, CtlType, StopTarget
<1>5. Waiting'
  BY SMTT(30) DEF Waiting, NoCtl, NoTask
<1>6. Holding'
  BY SMTT(30) DEF TypeOK, Naming, Waiting, Holding, CtlType, TaskType, DbType,
    NoCtl, Running, Terminal, Completion
<1> QED  BY <1>1, <1>2, <1>3, <1>4, <1>5, <1>6 DEF TypeOK

(* Nothing is left to stop.                                                *)
LEMMA StopTooLateKeeps ==
  ASSUME IInv, StopTooLate
  PROVE  IInv'
<1> USE ControlAssumption, RowsTyped, NoneTyped, FreshTyped DEF IInv,
  StopTooLate
<1>1. DbType' /\ RegistryType' /\ task' \in TaskType /\ DispType' /\ LifeType'
  <2>1. LifeType'  BY Zenon DEF TypeOK, LifeType
  <2>2. QED
    BY <2>1 DEF TypeOK, DbType, RegistryType, DispType
<1>2. ctl' \in CtlType
  BY DEF TypeOK, CtlType, CtlPcs, Kinds, Naming, DbType, RegistryType,
    DispType, MaybeId, NoCtl
<1>3. Naming'
  BY SMTT(30) DEF TypeOK, Naming, CtlType, StopTarget
<1>4. Waiting'
  BY SMTT(30) DEF Waiting, NoCtl, NoTask
<1>5. Holding'
  BY SMTT(30) DEF Holding, NoCtl, NoTask
<1> QED  BY <1>1, <1>2, <1>3, <1>4, <1>5 DEF TypeOK

(* A run hydrated from its row takes the channel only when it is free.     *)
LEMMA StopSignalKeeps ==
  ASSUME IInv, StopSignal
  PROVE  IInv'
<1> USE ControlAssumption, RowsTyped, NoneTyped, FreshTyped DEF IInv,
  StopSignal, Requested, Cleared, TryRegister, StopRest
<1>1. DbType' /\ task' \in TaskType /\ DispType' /\ LifeType'
  <2>1. LifeType'  BY Zenon DEF TypeOK, LifeType
  <2>2. QED
    BY <2>1 DEF TypeOK, DbType, DispType
<1>2. RegistryType'
  BY SMTT(30) DEF TypeOK, Naming, DbType, RegistryType, CtlType, TaskType,
    MaybeId, Status, Terminal, Completion, Running
<1>3. ctl' \in CtlType
  BY ZenonT(60) DEF TypeOK, CtlType, CtlPcs, Kinds, Naming, DbType,
    RegistryType, DispType, MaybeId, NoCtl
<1>4. Naming'
  BY SMTT(30) DEF TypeOK, Naming, CtlType, RegistryType, MaybeId, NoCtl,
    StopTarget
<1>5. Waiting'
  BY SMTT(30) DEF Waiting, NoCtl, NoTask
<1>6. Holding'
  BY SMTT(30) DEF TypeOK, Naming, Waiting, Holding, CtlType, TaskType, DbType,
    NoCtl, Running, Terminal, Completion
<1> QED  BY <1>1, <1>2, <1>3, <1>4, <1>5, <1>6 DEF TypeOK

(* The entry of a closed row is filled in.                                 *)
LEMMA StopNoteKeeps ==
  ASSUME IInv, StopNote
  PROVE  IInv'
<1> USE ControlAssumption, RowsTyped, NoneTyped, FreshTyped DEF IInv, StopNote,
  Requested, StopRest
<1>1. DbType' /\ task' \in TaskType /\ DispType' /\ LifeType'
  <2>1. LifeType'  BY Zenon DEF TypeOK, LifeType
  <2>2. QED
    BY <2>1 DEF TypeOK, DbType, DispType
<1>2. RegistryType'
  BY SMTT(30) DEF TypeOK, Naming, DbType, RegistryType, CtlType, TaskType,
    MaybeId, Status, Terminal, Completion, Running
<1>3. ctl' \in CtlType
  BY DEF TypeOK, CtlType, CtlPcs, Kinds, Naming, DbType, RegistryType,
    DispType, MaybeId, NoCtl
<1>4. Naming'
  BY SMTT(30) DEF TypeOK, Naming, CtlType, RegistryType, MaybeId, NoCtl,
    StopTarget
<1>5. Waiting'
  BY SMTT(30) DEF Waiting, NoCtl, NoTask
<1>6. Holding'
  BY SMTT(30) DEF Holding, NoCtl, NoTask
<1> QED  BY <1>1, <1>2, <1>3, <1>4, <1>5, <1>6 DEF TypeOK

(* Cancelling the task can only move it out of its work.                   *)
LEMMA StopFinalizeKeeps ==
  ASSUME IInv, StopFinalize
  PROVE  IInv'
<1> USE ControlAssumption, RowsTyped, NoneTyped, FreshTyped DEF IInv,
  StopFinalize, Cancelled, Recorded, StopRest, Inserting
<1>1. RegistryType' /\ DispType' /\ LifeType'
  <2>1. LifeType'  BY Zenon DEF TypeOK, LifeType
  <2>2. QED
    BY <2>1 DEF TypeOK, RegistryType, DispType
<1>2. DbType'
  BY SMTT(30) DEF TypeOK, Naming, TaskType, DbType, Kinds, Status, Terminal,
    Completion, Running
<1>3. ctl' \in CtlType
  BY ZenonT(60) DEF TypeOK, CtlType, CtlPcs, Kinds, Naming, DbType,
    RegistryType, DispType, MaybeId, NoCtl
<1>4. task' \in TaskType
  BY ZenonT(60) DEF TypeOK, TaskType, TaskPcs, Terminal, Completion, Naming,
    Holding, DbType, RegistryType, DispType, MaybeId, NoTask
<1>5. Naming'
  BY SMTT(30) DEF TypeOK, Naming, CtlType, RegistryType, MaybeId, NoCtl,
    StopTarget
<1>6. Waiting'
  BY SMTT(30) DEF Waiting, NoCtl, NoTask
<1>7. Holding'
  BY SMTT(30) DEF TypeOK, Naming, Waiting, Holding, CtlType, TaskType, DbType,
    NoCtl, Running, Terminal, Completion
<1> QED  BY <1>1, <1>2, <1>3, <1>4, <1>5, <1>6, <1>7 DEF TypeOK

(* Revoking touches queued rows only.                                      *)
LEMMA RevokeUnlockedKeeps ==
  ASSUME IInv, RevokeUnlocked
  PROVE  IInv'
<1> USE DEF IInv, RevokeUnlocked, Revoked
<1>1. RegistryType' /\ ctl' \in CtlType /\ task' \in TaskType /\ DispType' /\
  Naming' /\ Waiting'
  BY DEF TypeOK, RegistryType, DispType, Naming, Waiting, StopTarget
<1>2. DbType'
  BY SMTT(30) DEF TypeOK, DbType, Status, Terminal, Completion, Running
<1>3. LifeType'
  BY Zenon DEF TypeOK, LifeType
<1>4. Holding'
  BY SMTT(30) DEF TypeOK, Naming, Waiting, Holding, CtlType, TaskType, DbType,
    NoCtl, Running, Terminal, Completion
<1> QED  BY <1>1, <1>2, <1>3, <1>4 DEF TypeOK

(* The dispatcher looks at the rows.                                       *)
LEMMA DispLoadKeeps ==
  ASSUME IInv, DispLoad
  PROVE  IInv'
<1> USE ControlAssumption, RowsTyped DEF IInv, DispLoad
<1>1. DbType' /\ RegistryType' /\ ctl' \in CtlType /\ task' \in TaskType /\
  LifeType' /\ Naming'
  <2>1. LifeType'  BY Zenon DEF TypeOK, LifeType
  <2>2. QED
    BY <2>1 DEF TypeOK, DbType, RegistryType, Naming, StopTarget
<1>2. DispType'
  BY DEF TypeOK, DispType
<1>3. Waiting'
  BY SMTT(30) DEF Waiting, NoCtl, NoTask
<1>4. Holding'
  BY SMTT(30) DEF Holding, NoCtl, NoTask
<1> QED  BY <1>1, <1>2, <1>3, <1>4 DEF TypeOK

(* A dispatcher leaves when it has no task.                                *)
LEMMA DispExitKeeps ==
  ASSUME IInv, DispExit
  PROVE  IInv'
<1> USE DEF IInv, DispExit, NothingToRun
<1>1. DbType' /\ RegistryType' /\ ctl' \in CtlType /\ task' \in TaskType /\
  LifeType' /\ Naming'
  <2>1. LifeType'  BY Zenon DEF TypeOK, LifeType
  <2>2. QED
    BY <2>1 DEF TypeOK, DbType, RegistryType, Naming, StopTarget
<1>2. DispType'
  BY DEF TypeOK, DispType, MaybeId
<1>3. Waiting'
  BY SMTT(30) DEF Waiting, NoCtl, NoTask
<1>4. Holding'
  BY SMTT(30) DEF Holding, NoCtl, NoTask
<1> QED  BY <1>1, <1>2, <1>3, <1>4 DEF TypeOK

(* A ticket that was stopped early is dropped.                             *)
LEMMA DispDropKeeps ==
  ASSUME IInv, DispDrop
  PROVE  IInv'
<1> USE DEF IInv, DispDrop, NothingToRun, Cleared
<1>1. DbType' /\ ctl' \in CtlType /\ task' \in TaskType /\ LifeType' /\ Naming'
  <2>1. LifeType'  BY Zenon DEF TypeOK, LifeType
  <2>2. QED
    BY <2>1 DEF TypeOK, DbType, Naming, StopTarget
<1>2. RegistryType'
  BY SMTT(30) DEF TypeOK, RegistryType, MaybeId
<1>3. DispType'
  BY DEF TypeOK, DispType, MaybeId
<1>4. Waiting'
  BY SMTT(30) DEF Waiting, NoCtl, NoTask
<1>5. Holding'
  BY SMTT(30) DEF Holding, NoCtl, NoTask
<1> QED  BY <1>1, <1>2, <1>3, <1>4, <1>5 DEF TypeOK

(* The dispatcher that had no task now waits for one.                      *)
LEMMA DispLaunchKeeps ==
  ASSUME IInv, DispLaunch
  PROVE  IInv'
<1> USE ControlAssumption, RowsTyped, NoneTyped, FreshTyped DEF IInv,
  DispLaunch, NothingToRun
<1>1. DbType' /\ ctl' \in CtlType /\ LifeType'
  <2>1. LifeType'  BY Zenon DEF TypeOK, LifeType
  <2>2. QED
    BY <2>1 DEF TypeOK, DbType
<1>2. RegistryType'
  BY SMTT(30) DEF TypeOK, Naming, Holding, CtlType, TaskType, DbType,
    RegistryType, DispType, LifeType, MaybeId, Status, Terminal, Completion,
    Running
<1>3. task' \in TaskType
  BY DEF TypeOK, TaskType, TaskPcs, Terminal, Completion, Naming, Holding,
    DbType, RegistryType, DispType, MaybeId, NoTask
<1>4. DispType'
  BY DEF TypeOK, DispType, MaybeId
<1>5. Naming'
  BY SMTT(30) DEF TypeOK, Naming, Holding, TaskType, DispType, NoCtl, NoTask,
    StopTarget, MaybeId
<1>6. Waiting'
  BY SMTT(30) DEF Waiting, NoCtl, NoTask
<1>7. Holding'
  BY SMTT(30) DEF Holding, NoCtl, NoTask
<1> QED  BY <1>1, <1>2, <1>3, <1>4, <1>5, <1>6, <1>7 DEF TypeOK

(* The task is over, so the row it closes is not the row of a run.         *)
LEMMA DispCollectKeeps ==
  ASSUME IInv, DispCollect
  PROVE  IInv'
<1> USE ControlAssumption, RowsTyped, NoneTyped, FreshTyped DEF IInv,
  DispCollect, Finished
<1>1. RegistryType' /\ ctl' \in CtlType /\ LifeType'
  <2>1. LifeType'  BY Zenon DEF TypeOK, LifeType
  <2>2. QED
    BY <2>1 DEF TypeOK, RegistryType
<1>2. DbType'
  BY SMTT(30) DEF TypeOK, Naming, TaskType, DbType, Kinds, Status, Terminal,
    Completion, Running
<1>3. task' \in TaskType
  BY DEF TypeOK, TaskType, TaskPcs
<1>4. DispType'
  BY DEF TypeOK, DispType
<1>5. Naming'
  BY SMTT(30) DEF TypeOK, Naming, Holding, TaskType, NoCtl, NoTask, StopTarget
<1>6. Waiting'
  BY SMTT(30) DEF Waiting, NoCtl, NoTask
<1>7. Holding'
  BY SMTT(30) DEF Holding, NoCtl, NoTask
<1> QED  BY <1>1, <1>2, <1>3, <1>4, <1>5, <1>6, <1>7 DEF TypeOK

(* A dispatcher that leaves looks once more.                               *)
LEMMA LeaveLoadKeeps ==
  ASSUME IInv, LeaveLoad
  PROVE  IInv'
<1> USE DEF IInv, LeaveLoad
<1>1. DbType' /\ RegistryType' /\ ctl' \in CtlType /\ task' \in TaskType /\
  LifeType' /\ Naming' /\ Holding'
  <2>1. LifeType'  BY Zenon DEF TypeOK, LifeType
  <2>2. QED
    BY <2>1 DEF TypeOK, DbType, RegistryType, Naming, Holding, StopTarget
<1>2. DispType'
  BY DEF TypeOK, DispType
<1>3. Waiting'
  BY SMTT(30) DEF Waiting, NoCtl, NoTask
<1> QED  BY <1>1, <1>2, <1>3 DEF TypeOK

(* It may hand over to a new dispatcher, which has no task yet.            *)
LEMMA LeaveDecideKeeps ==
  ASSUME IInv, LeaveDecide
  PROVE  IInv'
<1> USE DEF IInv, LeaveDecide, Wake
<1>1. DbType' /\ RegistryType' /\ ctl' \in CtlType /\ task' \in TaskType /\
  LifeType' /\ Naming'
  <2>1. LifeType'  BY Zenon DEF TypeOK, LifeType
  <2>2. QED
    BY <2>1 DEF TypeOK, DbType, RegistryType, Naming, StopTarget
<1>2. DispType'
  BY DEF TypeOK, DispType
<1>3. Waiting'
  BY SMTT(30) DEF Waiting, NoCtl, NoTask
<1>4. Holding'
  BY SMTT(30) DEF Holding, NoCtl, NoTask
<1> QED  BY <1>1, <1>2, <1>3, <1>4 DEF TypeOK

(* A task that binds is not the one that holds the channel.                *)
LEMMA TaskBindKeeps ==
  ASSUME IInv, TaskBind
  PROVE  IInv'
<1> USE DEF IInv, TaskBind, ReleaseSlots, Finalized, Cleared, TaskTo
<1>1. DbType' /\ ctl' \in CtlType /\ DispType' /\ LifeType'
  <2>1. LifeType'  BY Zenon DEF TypeOK, LifeType
  <2>2. QED
    BY <2>1 DEF TypeOK, DbType, DispType
<1>2. RegistryType'
  BY SMTT(30) DEF TypeOK, Naming, RegistryType, MaybeId
<1>3. task' \in TaskType
  BY DEF TypeOK, TaskType, TaskPcs
<1>4. Naming'
  BY SMTT(30) DEF TypeOK, Naming, TaskType, StopTarget
<1>5. Waiting'
  BY SMTT(30) DEF Waiting, NoCtl, NoTask
<1>6. Holding'
  BY SMTT(30) DEF TypeOK, Holding, CtlType, TaskType, NoCtl
<1> QED  BY <1>1, <1>2, <1>3, <1>4, <1>5, <1>6 DEF TypeOK

(* It may have to read its row to know its ticket.                         *)
LEMMA TaskBindReadKeeps ==
  ASSUME IInv, TaskBindRead
  PROVE  IInv'
<1> USE DEF IInv, TaskBindRead, ReleaseSlots, Finalized, Cleared, TaskTo
<1>1. DbType' /\ ctl' \in CtlType /\ DispType' /\ LifeType'
  <2>1. LifeType'  BY Zenon DEF TypeOK, LifeType
  <2>2. QED
    BY <2>1 DEF TypeOK, DbType, DispType
<1>2. RegistryType'
  BY SMTT(30) DEF TypeOK, Naming, DbType, RegistryType, CtlType, TaskType,
    MaybeId, Status, Terminal, Completion, Running
<1>3. task' \in TaskType
  BY DEF TypeOK, TaskType, TaskPcs
<1>4. Naming'
  BY SMTT(30) DEF TypeOK, Naming, TaskType, StopTarget
<1>5. Waiting'
  BY SMTT(30) DEF Waiting, NoCtl, NoTask
<1>6. Holding'
  BY SMTT(30) DEF TypeOK, Holding, CtlType, TaskType, NoCtl
<1> QED  BY <1>1, <1>2, <1>3, <1>4, <1>5, <1>6 DEF TypeOK

(* It closes its own row, which does not work yet.                         *)
LEMMA TaskBindMarkKeeps ==
  ASSUME IInv, TaskBindMark
  PROVE  IInv'
<1> USE DEF IInv, TaskBindMark, Finished, TaskTo
<1>1. RegistryType' /\ ctl' \in CtlType /\ DispType' /\ LifeType'
  <2>1. LifeType'  BY Zenon DEF TypeOK, LifeType
  <2>2. QED
    BY <2>1 DEF TypeOK, RegistryType, DispType
<1>2. DbType'
  BY SMTT(30) DEF TypeOK, Naming, TaskType, DbType, Kinds, Status, Terminal,
    Completion, Running
<1>3. task' \in TaskType
  BY DEF TypeOK, TaskType, TaskPcs
<1>4. Naming'
  BY SMTT(30) DEF TypeOK, Naming, CtlType, StopTarget
<1>5. Waiting'
  BY SMTT(30) DEF Waiting, NoCtl, NoTask
<1>6. Holding'
  BY SMTT(30) DEF Holding, NoCtl, NoTask
<1> QED  BY <1>1, <1>2, <1>3, <1>4, <1>5, <1>6 DEF TypeOK

(* A calculated task waits for its promotion.                              *)
LEMMA TaskCalculateKeeps ==
  ASSUME IInv, TaskCalculate
  PROVE  IInv'
<1> USE DEF IInv, TaskCalculate, TaskTo
<1>1. DbType' /\ RegistryType' /\ ctl' \in CtlType /\ DispType' /\ LifeType'
  <2>1. LifeType'  BY Zenon DEF TypeOK, LifeType
  <2>2. QED
    BY <2>1 DEF TypeOK, DbType, RegistryType, DispType
<1>2. task' \in TaskType
  BY DEF TypeOK, TaskType, TaskPcs
<1>3. Naming'
  BY SMTT(30) DEF TypeOK, Naming, CtlType, StopTarget
<1>4. Waiting'
  BY SMTT(30) DEF Waiting, NoCtl, NoTask
<1>5. Holding'
  BY SMTT(30) DEF Holding, NoCtl, NoTask
<1> QED  BY <1>1, <1>2, <1>3, <1>4, <1>5 DEF TypeOK

(* A refused ticket is closed before it ever ran.                          *)
LEMMA TaskRefusedKeeps ==
  ASSUME IInv, TaskRefused
  PROVE  IInv'
<1> USE ControlAssumption, RowsTyped, NoneTyped, FreshTyped DEF IInv,
  TaskRefused, Finished, Cleared, TaskEnds
<1>1. ctl' \in CtlType /\ DispType' /\ LifeType'
  <2>1. LifeType'  BY Zenon DEF TypeOK, LifeType
  <2>2. QED
    BY <2>1 DEF TypeOK, DispType
<1>2. DbType'
  BY SMTT(30) DEF TypeOK, Naming, TaskType, DbType, Kinds, Status, Terminal,
    Completion, Running
<1>3. RegistryType'
  BY SMTT(30) DEF TypeOK, RegistryType, MaybeId
<1>4. task' \in TaskType
  BY DEF TypeOK, TaskType, TaskPcs, Terminal, Completion, Naming, Holding,
    DbType, RegistryType, DispType, MaybeId, NoTask
<1>5. Naming'
  BY SMTT(30) DEF TypeOK, Naming, CtlType, StopTarget
<1>6. Waiting'
  BY SMTT(30) DEF Waiting, NoCtl, NoTask
<1>7. Holding'
  BY SMTT(30) DEF Holding, NoCtl, NoTask
<1> QED  BY <1>1, <1>2, <1>3, <1>4, <1>5, <1>6, <1>7 DEF TypeOK

(* The channel is free when the promotion takes it.                        *)
LEMMA TaskPromoteKeeps ==
  ASSUME IInv, TaskPromote
  PROVE  IInv'
<1> USE ControlAssumption, RowsTyped, NoneTyped, FreshTyped DEF IInv,
  TaskPromote, TryRegister
<1>1. DbType' /\ task' \in TaskType /\ DispType' /\ LifeType'
  <2>1. LifeType'  BY Zenon DEF TypeOK, LifeType
  <2>2. QED
    BY <2>1 DEF TypeOK, DbType, DispType
<1>2. RegistryType'
  BY SMTT(30) DEF TypeOK, Naming, RegistryType, MaybeId
<1>3. ctl' \in CtlType
  BY DEF TypeOK, CtlType, CtlPcs, Kinds, Naming, DbType, RegistryType,
    DispType, MaybeId, NoCtl
<1>4. Naming'
  BY SMTT(30) DEF TypeOK, Naming, CtlType, StopTarget
<1>5. Waiting'
  BY SMTT(30) DEF Waiting, NoCtl, NoTask
<1>6. Holding'
  BY SMTT(30) DEF Holding, NoCtl, NoTask
<1> QED  BY <1>1, <1>2, <1>3, <1>4, <1>5, <1>6 DEF TypeOK

(* A task that is not promoted goes away or is tried again.                *)
LEMMA TaskNotPromotedKeeps ==
  ASSUME IInv, TaskNotPromoted
  PROVE  IInv'
<1> USE ControlAssumption, RowsTyped, NoneTyped, FreshTyped DEF IInv,
  TaskNotPromoted, TaskEnds
<1>1. DbType' /\ RegistryType' /\ ctl' \in CtlType /\ DispType' /\ LifeType'
  <2>1. LifeType'  BY Zenon DEF TypeOK, LifeType
  <2>2. QED
    BY <2>1 DEF TypeOK, DbType, RegistryType, DispType
<1>2. task' \in TaskType
  BY DEF TypeOK, TaskType, TaskPcs, Terminal, Completion, Naming, Holding,
    DbType, RegistryType, DispType, MaybeId, NoTask
<1>3. Naming'
  BY SMTT(30) DEF TypeOK, Naming, CtlType, StopTarget
<1>4. Waiting'
  BY SMTT(30) DEF Waiting, NoCtl, NoTask
<1>5. Holding'
  BY SMTT(30) DEF Holding, NoCtl, NoTask
<1> QED  BY <1>1, <1>2, <1>3, <1>4, <1>5 DEF TypeOK

(* The claim makes the row run; the lock and the channel are held.         *)
LEMMA TaskClaimKeeps ==
  ASSUME IInv, TaskClaim
  PROVE  IInv'
<1> USE DEF IInv, TaskClaim
<1>1. RegistryType' /\ task' \in TaskType /\ DispType' /\ LifeType'
  <2>1. LifeType'  BY Zenon DEF TypeOK, LifeType
  <2>2. QED
    BY <2>1 DEF TypeOK, RegistryType, DispType
<1>2. DbType'
  BY SMTT(30) DEF TypeOK, Naming, TaskType, DbType, Kinds, Status, Terminal,
    Completion, Running
<1>3. ctl' \in CtlType
  BY DEF TypeOK, CtlType, CtlPcs
<1>4. Naming'
  BY SMTT(30) DEF TypeOK, Naming, CtlType, StopTarget
<1>5. Waiting'
  BY SMTT(30) DEF Waiting, NoCtl, NoTask
<1>6. Holding'
  BY SMTT(30) DEF TypeOK, Naming, Waiting, Holding, CtlType, TaskType, DbType,
    NoCtl, Running, Terminal, Completion
<1> QED  BY <1>1, <1>2, <1>3, <1>4, <1>5, <1>6 DEF TypeOK

(* A lost claim gives the channel back.                                    *)
LEMMA TaskClaimLostKeeps ==
  ASSUME IInv, TaskClaimLost
  PROVE  IInv'
<1> USE ControlAssumption, RowsTyped, NoneTyped, FreshTyped DEF IInv,
  TaskClaimLost, Cleared, TaskEnds
<1>1. DbType' /\ DispType' /\ LifeType'
  <2>1. LifeType'  BY Zenon DEF TypeOK, LifeType
  <2>2. QED
    BY <2>1 DEF TypeOK, DbType, DispType
<1>2. RegistryType'
  BY SMTT(30) DEF TypeOK, RegistryType, MaybeId
<1>3. ctl' \in CtlType
  BY DEF TypeOK, CtlType, CtlPcs
<1>4. task' \in TaskType
  BY DEF TypeOK, TaskType, TaskPcs, Terminal, Completion, Naming, Holding,
    DbType, RegistryType, DispType, MaybeId, NoTask
<1>5. Naming'
  BY SMTT(30) DEF TypeOK, Naming, Holding, TaskType, NoCtl, NoTask, StopTarget
<1>6. Waiting'
  BY SMTT(30) DEF Waiting, NoCtl, NoTask
<1>7. Holding'
  BY SMTT(30) DEF Holding, NoCtl, NoTask
<1> QED  BY <1>1, <1>2, <1>3, <1>4, <1>5, <1>6, <1>7 DEF TypeOK

(* Only a claimed ticket starts to work.                                   *)
LEMMA TaskClaimedKeeps ==
  ASSUME IInv, TaskClaimed
  PROVE  IInv'
<1> USE ControlAssumption, RowsTyped, NoneTyped, FreshTyped DEF IInv,
  TaskClaimed, Cleared, TaskTo
<1>1. DbType' /\ DispType' /\ LifeType'
  <2>1. LifeType'  BY Zenon DEF TypeOK, LifeType
  <2>2. QED
    BY <2>1 DEF TypeOK, DbType, DispType
<1>2. RegistryType'
  BY SMTT(30) DEF TypeOK, Naming, DbType, RegistryType, CtlType, TaskType,
    MaybeId, Status, Terminal, Completion, Running
<1>3. ctl' \in CtlType
  BY DEF TypeOK, CtlType, CtlPcs
<1>4. task' \in TaskType
  BY DEF TypeOK, TaskType, TaskPcs
<1>5. Naming'
  BY SMTT(30) DEF TypeOK, Naming, Holding, TaskType, NoCtl, NoTask, StopTarget
<1>6. Waiting'
  BY SMTT(30) DEF Waiting, NoCtl, NoTask
<1>7. Holding'
  BY SMTT(30) DEF Holding, NoCtl, NoTask
<1> QED  BY <1>1, <1>2, <1>3, <1>4, <1>5, <1>6, <1>7 DEF TypeOK

(* The end of a run knows with which status it closes.                     *)
LEMMA TaskRecordKeeps ==
  ASSUME IInv, NEW o \in Results, TaskRecord(o)
  PROVE  IInv'
<1> USE ControlAssumption DEF IInv, TaskRecord, Results, Recorded, EndOf,
  Resolved
<1>1. RegistryType' /\ ctl' \in CtlType /\ DispType' /\ LifeType'
  <2>1. LifeType'  BY Zenon DEF TypeOK, LifeType
  <2>2. QED
    BY <2>1 DEF TypeOK, RegistryType, DispType
<1>2. DbType'
  BY SMTT(30) DEF TypeOK, Naming, TaskType, DbType, Kinds, Status, Terminal,
    Completion, Running
<1>3. task' \in TaskType
  <2>1. PICK out : task' = [task EXCEPT !.pc = "tell",
                                !.out = IF task.pc = "calc" THEN "FAILED" ELSE out]
                 /\ out \in {EndOf(task.id, o), "FAILED"}
    OBVIOUS
  <2>2. out \in Terminal
    BY <2>1 DEF TypeOK, DbType, Naming, Terminal, Completion
  <2>3. QED  BY <2>1, <2>2 DEF TypeOK, TaskType, TaskPcs, Terminal, Completion
<1>4. Naming'
  <2>1. PICK out : task' = [task EXCEPT !.pc = "tell",
                                !.out = IF task.pc = "calc" THEN "FAILED" ELSE out]
                 /\ out \in {EndOf(task.id, o), "FAILED"}
    OBVIOUS
  <2>2. out \in Terminal
    BY <2>1 DEF TypeOK, DbType, Naming, Terminal, Completion
  <2>3. QED  BY <2>1, <2>2 DEF TypeOK, Naming, TaskType, StopTarget, Terminal, Completion
<1>5. Waiting'
  BY SMTT(30) DEF Waiting, NoCtl, NoTask
<1>6. Holding'
  BY SMTT(30) DEF Holding, NoCtl, NoTask
<1> QED  BY <1>1, <1>2, <1>3, <1>4, <1>5, <1>6 DEF TypeOK

(* The registry learns the end of the run.                                 *)
LEMMA TaskTellKeeps ==
  ASSUME IInv, TaskTell
  PROVE  IInv'
<1> USE DEF IInv, TaskTell, TaskTo
<1>1. DbType' /\ ctl' \in CtlType /\ DispType' /\ LifeType'
  <2>1. LifeType'  BY Zenon DEF TypeOK, LifeType
  <2>2. QED
    BY <2>1 DEF TypeOK, DbType, DispType
<1>2. RegistryType'
  BY SMTT(30) DEF TypeOK, Naming, DbType, RegistryType, CtlType, TaskType,
    MaybeId, Status, Terminal, Completion, Running
<1>3. task' \in TaskType
  BY DEF TypeOK, TaskType, TaskPcs
<1>4. Naming'
  BY SMTT(30) DEF TypeOK, Naming, CtlType, StopTarget
<1>5. Waiting'
  BY SMTT(30) DEF Waiting, NoCtl, NoTask
<1>6. Holding'
  BY SMTT(30) DEF Holding, NoCtl, NoTask
<1> QED  BY <1>1, <1>2, <1>3, <1>4, <1>5, <1>6 DEF TypeOK

(* The row is looked at after the work.                                    *)
LEMMA TaskLookKeeps ==
  ASSUME IInv, TaskLook
  PROVE  IInv'
<1> USE ControlAssumption, RowsTyped, NoneTyped, FreshTyped DEF IInv, TaskLook
<1>1. DbType' /\ RegistryType' /\ ctl' \in CtlType /\ DispType' /\ LifeType'
  <2>1. LifeType'  BY Zenon DEF TypeOK, LifeType
  <2>2. QED
    BY <2>1 DEF TypeOK, DbType, RegistryType, DispType
<1>2. task' \in TaskType
  BY DEF TypeOK, TaskType, TaskPcs, Terminal, Completion, Naming, Holding,
    DbType, RegistryType, DispType, MaybeId, NoTask
<1>3. Naming'
  BY SMTT(30) DEF TypeOK, Naming, CtlType, StopTarget
<1>4. Waiting'
  BY SMTT(30) DEF Waiting, NoCtl, NoTask
<1>5. Holding'
  BY SMTT(30) DEF Holding, NoCtl, NoTask
<1> QED  BY <1>1, <1>2, <1>3, <1>4, <1>5 DEF TypeOK

(* The row is closed when the task no longer works.                        *)
LEMMA TaskMarkKeeps ==
  ASSUME IInv, TaskMark
  PROVE  IInv'
<1> USE DEF IInv, TaskMark, TaskTo
<1>1. RegistryType' /\ ctl' \in CtlType /\ DispType' /\ LifeType'
  <2>1. LifeType'  BY Zenon DEF TypeOK, LifeType
  <2>2. QED
    BY <2>1 DEF TypeOK, RegistryType, DispType
<1>2. DbType'
  BY SMTT(30) DEF TypeOK, Naming, TaskType, DbType, Kinds, Status, Terminal,
    Completion, Running
<1>3. task' \in TaskType
  BY DEF TypeOK, TaskType, TaskPcs
<1>4. Naming'
  BY SMTT(30) DEF TypeOK, Naming, CtlType, StopTarget
<1>5. Waiting'
  BY SMTT(30) DEF Waiting, NoCtl, NoTask
<1>6. Holding'
  BY SMTT(30) DEF Holding, NoCtl, NoTask
<1> QED  BY <1>1, <1>2, <1>3, <1>4, <1>5, <1>6 DEF TypeOK

(* The slots are given back when the task no longer works.                 *)
LEMMA TaskUnwindKeeps ==
  ASSUME IInv, TaskUnwind
  PROVE  IInv'
<1> USE DEF IInv, TaskUnwind, ReleaseSlots, Finalized, Cleared, TaskTo
<1>1. DbType' /\ ctl' \in CtlType /\ DispType' /\ LifeType'
  <2>1. LifeType'  BY Zenon DEF TypeOK, LifeType
  <2>2. QED
    BY <2>1 DEF TypeOK, DbType, DispType
<1>2. RegistryType'
  BY SMTT(30) DEF TypeOK, Naming, RegistryType, MaybeId
<1>3. task' \in TaskType
  BY DEF TypeOK, TaskType, TaskPcs
<1>4. Naming'
  BY SMTT(30) DEF TypeOK, Naming, CtlType, StopTarget
<1>5. Waiting'
  BY SMTT(30) DEF Waiting, NoCtl, NoTask
<1>6. Holding'
  BY SMTT(30) DEF Holding, NoCtl, NoTask
<1> QED  BY <1>1, <1>2, <1>3, <1>4, <1>5, <1>6 DEF TypeOK

(* A refresh takes the channel only when it is free.                       *)
LEMMA RefreshBeginKeeps ==
  ASSUME IInv, NEW r \in {"asset", "target"}, RefreshBegin(r)
  PROVE  IInv'
<1> USE DEF IInv, RefreshBegin, TryRegister
<1>1. DbType' /\ ctl' \in CtlType /\ task' \in TaskType /\ DispType' /\ Naming'
  /\ Waiting'
  BY DEF TypeOK, DbType, DispType, Naming, Waiting, StopTarget
<1>2. RegistryType'
  BY SMTT(30) DEF TypeOK, RegistryType, MaybeId
<1>3. LifeType'
  BY DEF TypeOK, LifeType
<1>4. Holding'
  BY SMTT(30) DEF Holding, NoCtl, NoTask
<1> QED  BY <1>1, <1>2, <1>3, <1>4 DEF TypeOK

(* The refresh gives the channel back.                                     *)
LEMMA RefreshEndKeeps ==
  ASSUME IInv, RefreshEnd
  PROVE  IInv'
<1> USE DEF IInv, RefreshEnd
<1>1. DbType' /\ ctl' \in CtlType /\ task' \in TaskType /\ DispType' /\
  LifeType' /\ Naming' /\ Waiting'
  <2>1. LifeType'  BY Zenon DEF TypeOK, LifeType
  <2>2. QED
    BY <2>1 DEF TypeOK, DbType, DispType, Naming, Waiting, StopTarget
<1>2. RegistryType'
  BY SMTT(30) DEF TypeOK, RegistryType, MaybeId
<1>3. Holding'
  BY SMTT(30) DEF Holding, NoCtl, NoTask
<1> QED  BY <1>1, <1>2, <1>3 DEF TypeOK

(* Only an entry of the registry goes.                                     *)
LEMMA EvictKeeps ==
  ASSUME IInv, NEW x \in Ids, Evict(x)
  PROVE  IInv'
<1> USE DEF IInv, Evict
<1>1. DbType' /\ ctl' \in CtlType /\ task' \in TaskType /\ DispType' /\
  LifeType' /\ Naming' /\ Waiting' /\ Holding'
  <2>1. LifeType'  BY Zenon DEF TypeOK, LifeType
  <2>2. QED
    BY <2>1 DEF TypeOK, DbType, DispType, Naming, Waiting, Holding, StopTarget
<1>2. RegistryType'
  BY SMTT(30) DEF TypeOK, RegistryType, MaybeId
<1> QED  BY <1>1, <1>2 DEF TypeOK

(* A crash leaves no coroutine and an empty registry.                      *)
LEMMA CrashKeeps ==
  ASSUME IInv, Crash
  PROVE  IInv'
<1> USE ControlAssumption, RowsTyped, NoneTyped, FreshTyped DEF IInv, Crash
<1>1. DbType'
  BY DEF TypeOK, DbType
<1>2. RegistryType'
  BY SMTT(30) DEF TypeOK, RegistryType, MaybeId
<1>3. ctl' \in CtlType
  BY DEF TypeOK, CtlType, CtlPcs
<1>4. task' \in TaskType
  BY DEF TypeOK, TaskType, TaskPcs
<1>5. DispType'
  BY DEF TypeOK, DispType, MaybeId
<1>6. LifeType'
  BY DEF TypeOK, LifeType, MaybeId
<1>7. Naming'
  BY SMTT(30) DEF TypeOK, Naming, Holding, TaskType, NoCtl, NoTask, StopTarget
<1>8. Waiting'
  BY SMTT(30) DEF Waiting, NoCtl, NoTask
<1>9. Holding'
  BY SMTT(30) DEF Holding, NoCtl, NoTask
<1> QED  BY <1>1, <1>2, <1>3, <1>4, <1>5, <1>6, <1>7, <1>8, <1>9 DEF TypeOK

(* Recovery revokes queued rows while nothing runs.                        *)
LEMMA RecoverSupplementsKeeps ==
  ASSUME IInv, RecoverSupplements
  PROVE  IInv'
<1> USE DEF IInv, RecoverSupplements, Revoked
<1>1. RegistryType' /\ ctl' \in CtlType /\ task' \in TaskType /\ DispType' /\
  Naming'
  BY DEF TypeOK, RegistryType, DispType, Naming, StopTarget
<1>2. DbType'
  BY SMTT(30) DEF TypeOK, DbType, Status, Terminal, Completion, Running
<1>3. LifeType'
  BY DEF TypeOK, LifeType
<1>4. Waiting'
  BY SMTT(30) DEF Waiting, NoCtl, NoTask
<1>5. Holding'
  BY SMTT(30) DEF TypeOK, Naming, Waiting, Holding, CtlType, TaskType, DbType,
    NoCtl, Running, Terminal, Completion
<1> QED  BY <1>1, <1>2, <1>3, <1>4, <1>5 DEF TypeOK

(* Recovery closes a row while nothing runs.                               *)
LEMMA RecoverInterruptedKeeps ==
  ASSUME IInv, RecoverInterrupted
  PROVE  IInv'
<1> USE DEF IInv, RecoverInterrupted, Finished
<1>1. RegistryType' /\ ctl' \in CtlType /\ task' \in TaskType /\ DispType' /\
  Naming' /\ Waiting'
  BY DEF TypeOK, RegistryType, DispType, Naming, Waiting, StopTarget
<1>2. DbType'
  BY SMTT(30) DEF TypeOK, DbType, Status, Terminal, Completion, Running
<1>3. LifeType'
  BY DEF TypeOK, LifeType, MaybeId
<1>4. Holding'
  BY SMTT(30) DEF TypeOK, Naming, Waiting, Holding, CtlType, TaskType, DbType,
    NoCtl, Running, Terminal, Completion
<1> QED  BY <1>1, <1>2, <1>3, <1>4 DEF TypeOK

(* Recovery records a closed row.                                          *)
LEMMA RecoverRecordKeeps ==
  ASSUME IInv, RecoverRecord
  PROVE  IInv'
<1> USE ControlAssumption, RowsTyped DEF IInv, RecoverRecord, Recorded, Cleared
<1>1. ctl' \in CtlType /\ task' \in TaskType /\ DispType' /\ Naming' /\
  Waiting'
  BY DEF TypeOK, DispType, Naming, Waiting, StopTarget
<1>2. DbType'
  BY SMTT(30) DEF TypeOK, Naming, Holding, CtlType, TaskType, DbType,
    RegistryType, DispType, LifeType, MaybeId, Kinds, Status, Terminal,
    Completion, Running
<1>3. RegistryType'
  BY SMTT(30) DEF TypeOK, RegistryType, MaybeId
<1>4. LifeType'
  BY DEF TypeOK, LifeType, MaybeId
<1>5. Holding'
  BY SMTT(30) DEF TypeOK, Naming, Waiting, Holding, CtlType, TaskType, DbType,
    NoCtl, Running, Terminal, Completion
<1> QED  BY <1>1, <1>2, <1>3, <1>4, <1>5 DEF TypeOK

(* The queued ticket is handed to a dispatcher.                            *)
LEMMA RecoverQueuedKeeps ==
  ASSUME IInv, RecoverQueued
  PROVE  IInv'
<1> USE ControlAssumption, RowsTyped DEF IInv, RecoverQueued, Wake
<1>1. DbType' /\ ctl' \in CtlType /\ task' \in TaskType /\ Naming'
  BY DEF TypeOK, DbType, Naming, StopTarget
<1>2. RegistryType'
  BY SMTT(30) DEF TypeOK, Naming, DbType, RegistryType, CtlType, TaskType,
    MaybeId, Status, Terminal, Completion, Running
<1>3. DispType'
  BY DEF TypeOK, DispType
<1>4. LifeType'
  BY DEF TypeOK, LifeType
<1>5. Waiting'
  BY SMTT(30) DEF Waiting, NoCtl, NoTask
<1>6. Holding'
  BY SMTT(30) DEF Holding, NoCtl, NoTask
<1> QED  BY <1>1, <1>2, <1>3, <1>4, <1>5, <1>6 DEF TypeOK

-----------------------------------------------------------------------------
(* A server that was never started has no coroutines and no rows.          *)
LEMMA InitHolds == Init => IInv
<1> SUFFICES ASSUME Init PROVE IInv
  OBVIOUS
<1> USE DEF Init
<1>1. DbType /\ RegistryType /\ DispType
  BY DEF DbType, RegistryType, DispType, MaybeId
<1>2. ctl \in CtlType /\ task \in TaskType
  BY DEF NoCtl, NoTask, CtlType, TaskType, CtlPcs, TaskPcs, MaybeId
<1>3. LifeType
  BY DEF LifeType, MaybeId
<1>4. Naming /\ Waiting /\ Holding
  BY DEF Naming, Waiting, Holding, NoCtl, NoTask
<1> QED  BY <1>1, <1>2, <1>3, <1>4 DEF IInv, TypeOK

(* The invariant is inductive.                                             *)
LEMMA StepKeeps == IInv /\ [Next]_vars => IInv'
<1> SUFFICES ASSUME IInv, [Next]_vars PROVE IInv'
  OBVIOUS
<1>1. CASE Requesting
  BY <1>1, SubmitBeginKeeps, StopBeginKeeps, RevokeUnlockedKeeps,
     RefreshBeginKeeps DEF Requesting
<1>2. CASE Admission
  BY <1>2, SubmitConflictKeeps, SubmitCoalesceKeeps, SubmitReplaceKeeps,
     SubmitCreateKeeps, SubmitAttachKeeps, SubmitInsertKeeps,
     SubmitRefuseStepKeeps, SubmitEnsureKeeps, SubmitSupersedeKeeps,
     SubmitSupersedeLostKeeps, SubmitSupersededKeeps DEF Admission
<1>3. CASE Stopping
  BY <1>3, StopReapKeeps, StopQueuedKeeps, StopRunningKeeps,
     StopTooLateKeeps, StopSignalKeeps, StopNoteKeeps, StopFinalizeKeeps
     DEF Stopping
<1>4. CASE Dispatching \/ Leaving
  BY <1>4, DispLoadKeeps, DispExitKeeps, DispDropKeeps, DispLaunchKeeps,
     DispCollectKeeps, LeaveLoadKeeps, LeaveDecideKeeps
     DEF Dispatching, Leaving
<1>5. CASE Promoting \/ Claiming
  BY <1>5, TaskRefusedKeeps, TaskPromoteKeeps, TaskNotPromotedKeeps,
     TaskClaimKeeps, TaskClaimLostKeeps, TaskClaimedKeeps
     DEF Promoting, Claiming
<1>6. CASE Executing
  BY <1>6, TaskBindKeeps, TaskBindReadKeeps, TaskBindMarkKeeps,
     TaskCalculateKeeps, TaskRecordKeeps, TaskTellKeeps, TaskLookKeeps,
     TaskMarkKeeps, TaskUnwindKeeps DEF Executing
<1>7. CASE RefreshEnd \/ Crash \/ \E x \in Ids : Evict(x)
  BY <1>7, RefreshEndKeeps, CrashKeeps, EvictKeeps
<1>8. CASE Recovering
  BY <1>8, RecoverSupplementsKeeps, RecoverInterruptedKeeps,
     RecoverRecordKeeps, RecoverQueuedKeeps DEF Recovering
<1>9. CASE UNCHANGED vars
  <2> USE <1>9 DEF IInv, TypeOK, vars
  <2>1. LifeType'
    BY Zenon DEF LifeType
  <2>2. DbType' /\ RegistryType' /\ DispType'
    BY DEF DbType, RegistryType, DispType
  <2>3. ctl' \in CtlType /\ task' \in TaskType
    OBVIOUS
  <2>4. Naming' /\ Waiting' /\ Holding'
    BY DEF Naming, Waiting, Holding, StopTarget
  <2> QED  BY <2>1, <2>2, <2>3, <2>4
<1> QED
  BY <1>1, <1>2, <1>3, <1>4, <1>5, <1>6, <1>7, <1>8, <1>9 DEF Next

(* The inductive invariant holds in every behaviour.                       *)
LEMMA Invariance == Spec => []IInv
  BY InitHolds, StepKeeps, PTL DEF Spec

(* The rows, the registry and the coroutines keep their types, whatever is *)
(* asked for and whenever the server dies.                                 *)
THEOREM TypeCorrect == Spec => []TypeOK
<1>1. IInv => TypeOK
  BY DEF IInv
<1> QED  BY Invariance, <1>1, PTL

(* Orders are placed only while the execution has the channel of the       *)
(* account and its row says that it runs (try_register_running_execution,  *)
(* promote_intent_to_running): a claim keeps the lock from the moment it   *)
(* takes the channel, so neither a refresh, nor a second dispatcher, nor a *)
(* termination that hydrates a lost entry can come between.                *)
THEOREM ChannelIsExclusive == Spec => []ChannelExclusive
<1>1. IInv => ChannelExclusive
  BY ControlAssumption DEF IInv, Naming, Holding, ChannelExclusive
<1> QED  BY Invariance, <1>1, PTL

(* A row that is closed stays closed, and its ticket never starts: a row   *)
(* moves on by compare-and-set from QUEUED or from a running status, and   *)
(* what is written without one (mark_intent_finished, which looks at the   *)
(* row in another transaction) is itself a final status.                   *)
THEOREM ClosedStaysClosed == Spec => NeverReopened
<1> DEFINE Stays ==
      \A x \in Ids : status[x] \in Terminal =>
        status'[x] \in Terminal /\ x \notin started' \ started
<1>1. IInv /\ [Next]_vars => [Stays]_vars
  <2> SUFFICES ASSUME IInv, Next PROVE Stays
    OBVIOUS
  <2> USE DEF IInv, TypeOK, DbType
  <2>1. CASE UNCHANGED <<status, started>>
    BY <2>1
  <2>2. CASE SubmitInsert
    BY <2>2 DEF SubmitInsert, Fresh, Terminal, Completion
  <2>3. CASE SubmitSupersede \/ StopQueued
    BY <2>3 DEF SubmitSupersede, StopQueued, Terminal, Completion
  <2>4. CASE StopRunning
    BY <2>4 DEF StopRunning, Terminal, Completion, Running
  <2>5. CASE UNCHANGED started /\ status' \in {status, Revoked}
    BY <2>5 DEF Revoked, Terminal
  <2>6. CASE /\ UNCHANGED started
             /\ \E x \in Ids, s \in Terminal : status' = Finished(x, s)
    BY <2>6 DEF Finished
  <2>7. CASE TaskClaim
    BY <2>7 DEF TaskClaim, Naming, Terminal, Completion
  <2>8. CASE TaskMark
    <3>1. task.out \in Terminal
      BY <2>8 DEF TaskMark, Naming, TaskType
    <3> QED  BY <2>8, <3>1 DEF TaskMark
  <2>9. CASE Dispatching \/ Leaving
    <3>1. CASE DispCollect
      <4>1. task.id \in Ids
        BY <3>1 DEF DispCollect, Naming
      <4> QED  BY <3>1, <4>1, <2>1, <2>6 DEF DispCollect, Terminal
    <3> QED
      BY <2>1, <2>9, <3>1 DEF Dispatching, DispLoad, DispExit,
         DispDrop, DispLaunch, Leaving, LeaveLoad, LeaveDecide
  <2>10. CASE Requesting
    <3>1. CASE \/ \E r \in Asks : SubmitBegin(r[1], r[2])
               \/ \E r \in {"asset", "target"} : RefreshBegin(r)
      BY <2>1, <3>1, Zenon DEF SubmitBegin, RefreshBegin
    <3>2. CASE \/ \E op \in {"cancel", "terminate"} : StopBegin(op)
               \/ RevokeUnlocked
      BY <2>5, <3>2, Zenon DEF StopBegin, RevokeUnlocked
    <3> QED  BY <2>10, <3>1, <3>2 DEF Requesting
  <2>11. CASE Admission \/ Stopping
    <3>1. \/ SubmitInsert \/ SubmitSupersede \/ StopQueued \/ StopRunning
          \/ UNCHANGED <<status, started>>
      <4>1. CASE Admission
        BY <4>1 DEF Admission, SubmitConflict, SubmitCoalesce, SubmitReplace,
           SubmitCreate, SubmitAttach, SubmitRefuseStep, SubmitEnsure,
           SubmitSupersedeLost, SubmitSuperseded
      <4>2. CASE Stopping
        BY <4>2 DEF Stopping, StopReap, StopTooLate, StopSignal, StopNote,
           StopFinalize
      <4> QED  BY <2>11, <4>1, <4>2
    <3> QED  BY <2>1, <2>2, <2>3, <2>4, <3>1
  <2>12. CASE Promoting \/ Claiming
    <3>1. CASE TaskRefused
      <4>1. task.id \in Ids
        BY <3>1 DEF TaskRefused, Naming
      <4> QED  BY <3>1, <4>1, <2>6 DEF TaskRefused, Terminal
    <3> QED
      BY <2>1, <2>7, <2>12, <3>1 DEF Promoting, TaskPromote, TaskNotPromoted,
         Claiming, TaskClaimLost, TaskClaimed
  <2>13. CASE Executing
    <3>1. CASE TaskBindMark
      <4>1. task.id \in Ids
        BY <3>1 DEF TaskBindMark, Naming
      <4> QED  BY <3>1, <4>1, <2>6 DEF TaskBindMark, Terminal
    <3>2. CASE TaskBind \/ TaskBindRead \/ TaskCalculate
      BY <2>1, <3>2 DEF TaskBind, TaskBindRead, TaskCalculate
    <3>3. CASE \E o \in Results : TaskRecord(o)
      BY <2>1, <3>3, Zenon DEF TaskRecord
    <3>4. CASE TaskTell \/ TaskLook \/ TaskUnwind
      BY <2>1, <3>4 DEF TaskTell, TaskLook, TaskUnwind
    <3> QED  BY <2>8, <2>13, <3>1, <3>2, <3>3, <3>4 DEF Executing
  <2>14. CASE RefreshEnd \/ Crash \/ \E x \in Ids : Evict(x)
    BY <2>1, <2>14 DEF RefreshEnd, Crash, Evict
  <2>15. CASE Recovering
    <3>1. CASE RecoverInterrupted
      BY <3>1, <2>6 DEF RecoverInterrupted, Terminal, Completion
    <3> QED
      BY <2>1, <2>5, <2>15, <3>1 DEF Recovering, RecoverSupplements,
         RecoverRecord, RecoverQueued
  <2> QED
    BY <2>9, <2>10, <2>11, <2>12, <2>13, <2>14, <2>15 DEF Next
<1> QED  BY Invariance, <1>1, PTL DEF Spec, NeverReopened

-----------------------------------------------------------------------------
(***************************************************************************)
(* The rows: the indexes of the database never bite, a run hears its stop, *)
(* the ticket agrees with the record of its run, and the whole of it       *)
(* implements the ledger of tickets.                                       *)
(***************************************************************************)

(* Who may wait: nobody, or at most one ticket.                            *)
OnlyWaits(y) == \A x \in Ids : status[x] = "QUEUED" => x = y
NobodyWaits  == \A x \in Ids : status[x] # "QUEUED"

(* Where the task of a ticket that runs may be.                            *)
Ending == {"work", "tell", "mark", "close"}

(* A row has a kind, and runs or has run once it has started.              *)
Rows ==
  /\ IndexesNeverBite
  /\ \A x \in Ids :
       /\ status[x] # "NONE" => kind[x] # "NONE"
       /\ status[x] \in {"NONE", "QUEUED"} => x \notin started
       /\ status[x] \in Running => x \in started

(* What a submission has seen of the rows stays true while it has the      *)
(* lock: nobody else makes a row wait.                                     *)
Deciding ==
  /\ ctl.pc = "decide" =>
       OnlyWaits(ctl.que) /\ (ctl.que # NoId => status[ctl.que] # "NONE")
  /\ ctl.pc = "supersede" => OnlyWaits(ctl.x)
  /\ ctl.pc \in {"superseded", "insert"} => NobodyWaits
  /\ ctl.pc = "finalize" /\ ctl.kind # "NONE" => NobodyWaits
  /\ ctl.pc \in {"decide", "supersede", "superseded", "insert"} =>
       ctl.kind # "NONE"
  /\ ctl.pc \in {"reap", "stop", "signal", "note"} => ctl.kind = "NONE"
  /\ ctl.pc = "ensure" => ctl.x \notin started

(* A row runs while its execution has the channel, and its task is at work *)
(* or on its way out, or was claimed a moment ago.  A task that ends       *)
(* closes a row of its own.                                                *)
Occupying ==
  /\ phase = "up" => \A x \in Ids : status[x] \in Running =>
       /\ runSlot = x
       /\ \/ task.id = x /\ task.pc \in Ending
          \/ ctl.pc = "claimed" /\ ctl.x = x
  /\ task.pc # "none" => status[task.id] # "NONE"
  /\ dseen # NoId => status[dseen] # "NONE"
  /\ task.pc \in {"tell", "mark", "close"} =>
       task.id \in started \/ task.out = "FAILED"
  /\ task.pc = "close" =>
       \/ status[task.id] \in Running
       \/ status[task.id] \in {"QUEUED", "TERMINATED"} /\ task.out = "FAILED"

(* A stop that found its ticket is in the registry, and no entry of the    *)
(* registry says more than the rows.                                       *)
Signalling ==
  /\ StopIsHeard
  /\ \A x \in Ids :
       /\ x \in started =>
            mem[x] # "QUEUED" \/ (ctl.pc = "claimed" /\ ctl.x = x)
       /\ mem[x] = "TERMINATING" => x \in signalled
  /\ ctl.pc = "signal" /\ ctl.src = "queued" => status[ctl.x] \in Terminal
  /\ ctl.pc = "superseded" => status[ctl.x] \in Terminal
  /\ ctl.pc \in {"finalize", "note"} => status[ctl.x] \notin Running
  /\ ctl.pc = "claim" => \/ mem[ctl.x] \notin Terminal \cup {"TERMINATING"}
                         \/ status[ctl.x] \in Terminal
  /\ ctl.pc = "claimed" => mem[ctl.x] \notin Terminal \cup {"TERMINATING"}
  /\ ctl.pc = "claimed" => status[ctl.x] = "RUNNING"
  /\ task.pc = "work" => mem[task.id] \in {"RUNNING", "TERMINATING", "ABSENT"}

(* A record says that a run succeeded once that run is past its work, and  *)
(* the task then closes the row as the record says.                        *)
Recording ==
  /\ LedgerAgrees
  /\ \A x \in Ids : status[x] = "NONE" => record[x] # "SUCCEEDED"
  /\ ctl.pc = "claimed" => record[ctl.x] # "SUCCEEDED"
  /\ task.pc = "work" => record[task.id] # "SUCCEEDED"
  /\ task.pc \in {"tell", "mark", "close"} =>
       /\ task.out = "SUCCEEDED" => record[task.id] = "SUCCEEDED"
       /\ record[task.id] = "SUCCEEDED" => task.out # "TERMINATED"

LInv == Rows /\ Deciding /\ Occupying /\ Signalling /\ Recording

-----------------------------------------------------------------------------
(* What the queries find: a row that waits, which is the only one while    *)
(* the indexes hold, and a row that runs whenever there is one.            *)
LEMMA QueuedFound ==
  /\ IndexesNeverBite => OnlyWaits(DbQueued)
  /\ DbQueued # NoId => DbQueued \in Ids /\ status[DbQueued] = "QUEUED"
  /\ DbRunning # NoId => DbRunning \in Ids /\ status[DbRunning] \in Running
  /\ (\E x \in Ids : status[x] \in Running) => DbRunning # NoId
  BY ControlAssumption DEF DbQueued, DbRunning, IndexesNeverBite, OnlyWaits

(* What it sees of the rows is what is there: one row waits at most.       *)
LEMMA SubmitBeginKeepsLInv ==
  ASSUME IInv, LInv, NEW r \in Asks, SubmitBegin(r[1], r[2])
  PROVE  LInv'
<1>0. IInv'
  BY SubmitBeginKeeps
<1> USE DEF IInv, LInv, SubmitBegin
<1>1. Rows' /\ Occupying'
  BY DEF Rows, IndexesNeverBite, Fresh, Occupying
<1>2. Signalling' /\ Recording'
  BY DEF Signalling, StopIsHeard, Fresh, Recording, LedgerAgrees
<1>3. r[1] # "NONE" /\ r[2] # "queued"
  BY ControlAssumption DEF Requests
<1>4. Deciding'
  BY <1>3, QueuedFound, SMTT(30) DEF Deciding, OnlyWaits, NobodyWaits,
     NoCtl, Rows, IndexesNeverBite, Running
<1> QED  BY <1>1, <1>2, <1>4

(* Stops revoke rows that wait, and none of them has started.              *)
LEMMA StopBeginKeepsLInv ==
  ASSUME IInv, LInv, NEW op \in {"cancel", "terminate"}, StopBegin(op)
  PROVE  LInv'
<1>0. IInv'
  BY StopBeginKeeps
<1> USE DEF IInv, LInv, StopBegin
<1>1. Rows' /\ Deciding'
  BY DEF Rows, IndexesNeverBite, Revoked, Running, Deciding, NoCtl
<1>2. Signalling' /\ Recording'
  BY DEF Signalling, StopIsHeard, Revoked, Recording, LedgerAgrees
<1>3. Occupying'
  BY <1>0, SMTT(30) DEF Occupying, Ending, Revoked, TypeOK, DispType, MaybeId,
     Running, Naming, Waiting, Holding, Rows, IndexesNeverBite, Deciding,
     OnlyWaits, NobodyWaits, Signalling, Recording
<1> QED  BY <1>1, <1>2, <1>3

(* Revoking takes rows out of the queue; nobody is told about a run.       *)
LEMMA RevokeUnlockedKeepsLInv ==
  ASSUME IInv, LInv, RevokeUnlocked
  PROVE  LInv'
<1>0. IInv'
  BY RevokeUnlockedKeeps
<1> USE DEF IInv, LInv, RevokeUnlocked
<1>1. Rows' /\ Recording'
  BY DEF Rows, IndexesNeverBite, Revoked, Running, Recording, LedgerAgrees
<1>2. Deciding'
  BY <1>0, SMTT(30) DEF Deciding, OnlyWaits, NobodyWaits, Revoked, TypeOK,
     DbType
<1>3. Occupying'
  BY <1>0, SMTT(30) DEF Occupying, Ending, Revoked, TypeOK, DispType, MaybeId,
     Running, Naming, Waiting, Holding, Rows, IndexesNeverBite, Deciding,
     OnlyWaits, NobodyWaits, Signalling, Recording
<1>4. Signalling'
  BY <1>0, SMTT(30) DEF Signalling, StopIsHeard, Revoked, Running, Terminal,
     Naming, Holding, IndexesNeverBite, OnlyWaits, NobodyWaits, Ending
<1> QED  BY <1>1, <1>2, <1>3, <1>4

(* A refresh leaves the rows alone.                                        *)
LEMMA RefreshBeginKeepsLInv ==
  ASSUME IInv, LInv, NEW r \in {"asset", "target"}, RefreshBegin(r)
  PROVE  LInv'
<1> USE DEF LInv, RefreshBegin
<1>1. Rows' /\ Deciding'
  BY DEF Rows, IndexesNeverBite, TryRegister, Deciding, OnlyWaits, NobodyWaits
<1>2. Occupying' /\ Signalling'
  BY DEF Occupying, TryRegister, Signalling, StopIsHeard
<1>3. Recording'
  BY DEF Recording, LedgerAgrees, TryRegister
<1> QED  BY <1>1, <1>2, <1>3

(* The record of the run is written once, when the work is over.           *)
LEMMA TaskRecordKeepsLInv ==
  ASSUME IInv, LInv, NEW o \in Results, TaskRecord(o)
  PROVE  LInv'
<1>0. IInv'
  BY TaskRecordKeeps
<1> USE DEF IInv, LInv, TaskRecord
<1>1. Rows'
  BY SMTT(30) DEF Rows, IndexesNeverBite, Recorded, EndOf, Resolved
<1>2. Deciding'
  BY SMTT(30) DEF Deciding, OnlyWaits, NobodyWaits, Recorded, EndOf, Resolved
<1>3. Occupying'
  BY <1>0, SMTT(30) DEF Occupying, Ending, Recorded, EndOf, Resolved, Naming,
     Holding, Rows
<1>4. Signalling'
  BY SMTT(30) DEF Signalling, StopIsHeard, Recorded, EndOf, Resolved
<1>5. Recording'
  BY <1>0, SMTT(30) DEF Recording, LedgerAgrees, Recorded, EndOf, Resolved,
     TypeOK, DbType, Running, Holding, IndexesNeverBite, OnlyWaits,
     NobodyWaits, Ending
<1> QED  BY <1>1, <1>2, <1>3, <1>4, <1>5

(* An entry that is evicted belongs to no task.                            *)
LEMMA EvictKeepsLInv ==
  ASSUME IInv, LInv, NEW x \in Ids, Evict(x)
  PROVE  LInv'
<1> USE DEF LInv, Evict
<1>1. Rows' /\ Deciding'
  BY DEF Rows, IndexesNeverBite, Deciding, OnlyWaits, NobodyWaits
<1>2. Occupying' /\ Signalling'
  BY DEF Occupying, Signalling, StopIsHeard
<1>3. Recording'
  BY DEF Recording, LedgerAgrees
<1> QED  BY <1>1, <1>2, <1>3

(* A refusal leaves the rows alone.                                        *)
LEMMA SubmitConflictKeepsLInv ==
  ASSUME IInv, LInv, SubmitConflict
  PROVE  LInv'
<1> USE DEF LInv, SubmitConflict
<1>1. Rows'
  BY SMTT(30) DEF Rows, IndexesNeverBite, Busy, RunKind, SeenKind, SeenRun,
     QueKind, SeenQue
<1>2. Deciding'
  BY SMTT(30) DEF Deciding, Busy, RunKind, SeenKind, SeenRun, QueKind,
     SeenQue, NoCtl
<1>3. Occupying'
  BY SMTT(30) DEF Occupying, Busy, RunKind, SeenKind, SeenRun, QueKind,
     SeenQue
<1>4. Signalling'
  BY SMTT(30) DEF Signalling, StopIsHeard, Busy, RunKind, SeenKind, SeenRun,
     QueKind, SeenQue, NoCtl
<1>5. Recording'
  BY SMTT(30) DEF Recording, LedgerAgrees, Busy, RunKind, SeenKind, SeenRun,
     QueKind, SeenQue, NoCtl
<1> QED  BY <1>1, <1>2, <1>3, <1>4, <1>5

(* The row to share was there when the rows were looked at.                *)
LEMMA SubmitCoalesceKeepsLInv ==
  ASSUME IInv, LInv, SubmitCoalesce
  PROVE  LInv'
<1> USE DEF LInv, SubmitCoalesce
<1>1. Rows'
  BY SMTT(30) DEF Rows, IndexesNeverBite, Busy, RunKind, SeenKind, SeenRun,
     QueKind, SeenQue, Coalesces, Supersedes
<1>2. Deciding'
  BY SMTT(30) DEF Deciding, Busy, RunKind, SeenKind, SeenRun, QueKind,
     SeenQue, Coalesces, Supersedes
<1>3. Occupying'
  BY SMTT(30) DEF Occupying, Busy, RunKind, SeenKind, SeenRun, QueKind,
     SeenQue, Coalesces, Supersedes
<1>4. Signalling'
  BY SMTT(30) DEF Signalling, StopIsHeard, Busy, RunKind, SeenKind, SeenRun,
     QueKind, SeenQue, Coalesces, Supersedes
<1>5. Recording'
  BY SMTT(30) DEF Recording, LedgerAgrees, Busy, RunKind, SeenKind, SeenRun,
     QueKind, SeenQue, Coalesces, Supersedes
<1> QED  BY <1>1, <1>2, <1>3, <1>4, <1>5

(* The row to supersede is the only one that may wait.                     *)
LEMMA SubmitReplaceKeepsLInv ==
  ASSUME IInv, LInv, SubmitReplace
  PROVE  LInv'
<1> USE DEF LInv, SubmitReplace
<1>1. Rows'
  BY SMTT(30) DEF Rows, IndexesNeverBite, Busy, RunKind, SeenKind, SeenRun,
     QueKind, SeenQue, Supersedes
<1>2. Deciding'
  BY SMTT(30) DEF Deciding, OnlyWaits, Busy, RunKind, SeenKind, SeenRun,
     QueKind, SeenQue, Supersedes
<1>3. Occupying'
  BY SMTT(30) DEF Occupying, Busy, RunKind, SeenKind, SeenRun, QueKind,
     SeenQue, Supersedes
<1>4. Signalling'
  BY SMTT(30) DEF Signalling, StopIsHeard, Busy, RunKind, SeenKind, SeenRun,
     QueKind, SeenQue, Supersedes
<1>5. Recording'
  BY SMTT(30) DEF Recording, LedgerAgrees, Busy, RunKind, SeenKind, SeenRun,
     QueKind, SeenQue, Supersedes
<1> QED  BY <1>1, <1>2, <1>3, <1>4, <1>5

(* No row waited at the look, so nobody waits at the insert.               *)
LEMMA SubmitCreateKeepsLInv ==
  ASSUME IInv, LInv, SubmitCreate
  PROVE  LInv'
<1> USE DEF LInv, SubmitCreate
<1>1. Rows'
  BY SMTT(30) DEF Rows, IndexesNeverBite, Busy, RunKind, SeenKind, SeenRun,
     QueKind, SeenQue
<1>2. Deciding'
  BY ControlAssumption, SMTT(30) DEF Deciding, OnlyWaits, NobodyWaits, Busy,
     RunKind, SeenKind, SeenRun, QueKind, SeenQue, Rows
<1>3. Occupying'
  BY SMTT(30) DEF Occupying, Busy, RunKind, SeenKind, SeenRun, QueKind,
     SeenQue
<1>4. Signalling'
  BY SMTT(30) DEF Signalling, StopIsHeard, Busy, RunKind, SeenKind, SeenRun,
     QueKind, SeenQue
<1>5. Recording'
  BY SMTT(30) DEF Recording, LedgerAgrees, Busy, RunKind, SeenKind, SeenRun,
     QueKind, SeenQue
<1> QED  BY <1>1, <1>2, <1>3, <1>4, <1>5

(* Sharing a ticket changes who asked for it and no row.                   *)
LEMMA SubmitAttachKeepsLInv ==
  ASSUME IInv, LInv, SubmitAttach
  PROVE  LInv'
<1> USE DEF LInv, SubmitAttach
<1>1. Rows' /\ Deciding'
  BY DEF Rows, IndexesNeverBite, Deciding, NoCtl
<1>2. Occupying' /\ Signalling'
  BY DEF Occupying, Signalling, StopIsHeard, NoCtl
<1>3. Recording'
  BY DEF Recording, LedgerAgrees, NoCtl
<1> QED  BY <1>1, <1>2, <1>3

(* Nobody waits, so the new row is the only one that does.                 *)
LEMMA SubmitInsertKeepsLInv ==
  ASSUME IInv, LInv, SubmitInsert
  PROVE  LInv'
<1>0. IInv'
  BY SubmitInsertKeeps
<1> USE DEF IInv, LInv, SubmitInsert
<1>1. Deciding' /\ Occupying'
  BY DEF Deciding, Fresh, Rows, Occupying, Running
<1>2. Signalling' /\ Recording'
  BY DEF Signalling, StopIsHeard, Fresh, Recording, LedgerAgrees
<1>3. Rows'
  BY <1>0, SMTT(30) DEF Rows, IndexesNeverBite, Fresh, TypeOK, DbType,
     Running, Holding, Deciding, OnlyWaits, NobodyWaits, Occupying, Ending,
     Signalling, Recording
<1> QED  BY <1>1, <1>2, <1>3

(* A refused step leaves the rows alone.                                   *)
LEMMA SubmitRefuseStepKeepsLInv ==
  ASSUME IInv, LInv, SubmitRefuseStep
  PROVE  LInv'
<1> USE DEF LInv, SubmitRefuseStep
<1>1. Rows' /\ Deciding'
  BY DEF Rows, IndexesNeverBite, Deciding, NoCtl
<1>2. Occupying' /\ Signalling'
  BY DEF Occupying, Signalling, StopIsHeard, NoCtl
<1>3. Recording'
  BY DEF Recording, LedgerAgrees, NoCtl
<1> QED  BY <1>1, <1>2, <1>3

(* The ticket that is registered has not started.                          *)
LEMMA SubmitEnsureKeepsLInv ==
  ASSUME IInv, LInv, SubmitEnsure
  PROVE  LInv'
<1>0. IInv'
  BY SubmitEnsureKeeps
<1> USE DEF IInv, LInv, SubmitEnsure
<1>1. Rows' /\ Deciding'
  BY DEF Rows, IndexesNeverBite, Wake, Deciding, NoCtl
<1>2. Occupying' /\ Recording'
  BY DEF Occupying, Wake, Recording, LedgerAgrees, NoCtl
<1>3. Signalling'
  BY <1>0, SMTT(30) DEF Signalling, StopIsHeard, Wake, NoCtl, TypeOK,
     RegistryType, Naming, Waiting, Holding, Rows, IndexesNeverBite, Deciding,
     OnlyWaits, NobodyWaits, Occupying, Ending, Recording
<1> QED  BY <1>1, <1>2, <1>3

(* The row that waited was the only one: now nobody waits.                 *)
LEMMA SubmitSupersedeKeepsLInv ==
  ASSUME IInv, LInv, SubmitSupersede
  PROVE  LInv'
<1>0. IInv'
  BY SubmitSupersedeKeeps
<1> USE DEF IInv, LInv, SubmitSupersede
<1>1. Rows' /\ Occupying'
  BY DEF Rows, IndexesNeverBite, Running, Occupying
<1>2. Recording'
  BY DEF Recording, LedgerAgrees
<1>3. Deciding'
  BY <1>0, SMTT(30) DEF Deciding, OnlyWaits, NobodyWaits, TypeOK, DbType
<1>4. Signalling'
  BY <1>0, SMTT(30) DEF Signalling, StopIsHeard, TypeOK, DbType, Terminal,
     OnlyWaits
<1> QED  BY <1>1, <1>2, <1>3, <1>4

(* A submission that starts over looks at the rows again.                  *)
LEMMA SubmitSupersedeLostKeepsLInv ==
  ASSUME IInv, LInv, SubmitSupersedeLost
  PROVE  LInv'
<1> USE DEF LInv, SubmitSupersedeLost
<1>1. Rows' /\ Occupying'
  BY DEF Rows, IndexesNeverBite, Occupying
<1>2. Signalling' /\ Recording'
  BY DEF Signalling, StopIsHeard, Recording, LedgerAgrees
<1>3. Deciding'
  BY QueuedFound, SMTT(30) DEF Deciding, OnlyWaits
<1> QED  BY <1>1, <1>2, <1>3

(* The entry of a closed row is stopped; its row does not run.             *)
LEMMA SubmitSupersededKeepsLInv ==
  ASSUME IInv, LInv, SubmitSuperseded
  PROVE  LInv'
<1>0. IInv'
  BY SubmitSupersededKeeps
<1> USE DEF IInv, LInv, SubmitSuperseded
<1>1. Occupying'
  BY DEF Occupying, Requested, Cleared, Inserting
<1>2. Rows'
  BY SMTT(30) DEF Rows, IndexesNeverBite, Requested, Cleared, Inserting
<1>3. Deciding'
  BY SMTT(30) DEF Deciding, NobodyWaits, Requested, Cleared, Inserting
<1>4. Signalling'
  BY <1>0, SMTT(30) DEF Signalling, StopIsHeard, Requested, Cleared,
     Inserting, Running, Terminal, Completion, OnlyWaits, NobodyWaits
<1>5. Recording'
  BY SMTT(30) DEF Recording, LedgerAgrees, Requested, Cleared, Inserting
<1> QED  BY <1>1, <1>2, <1>3, <1>4, <1>5

(* The lock is held for a stop, which admits nothing.                      *)
LEMMA StopReapKeepsLInv ==
  ASSUME IInv, LInv, StopReap
  PROVE  LInv'
<1>0. IInv'
  BY StopReapKeeps
<1> USE DEF IInv, LInv, StopReap
<1>1. Occupying'
  BY DEF Occupying, ReapedMem, ReapWanted, ReapedSlot
<1>2. Rows'
  BY SMTT(30) DEF Rows, IndexesNeverBite, ReapedMem, ReapWanted, ReapedSlot
<1>3. Deciding'
  BY SMTT(30) DEF Deciding, ReapedMem, ReapWanted, ReapedSlot, NoCtl
<1>4. Signalling'
  BY <1>0, SMTT(30) DEF Signalling, StopIsHeard, ReapedMem, ReapWanted,
     ReapedSlot, Running, NoCtl, Holding, IndexesNeverBite, OnlyWaits,
     NobodyWaits
<1>5. Recording'
  BY SMTT(30) DEF Recording, LedgerAgrees, ReapedMem, ReapWanted, ReapedSlot,
     NoCtl
<1> QED  BY <1>1, <1>2, <1>3, <1>4, <1>5

(* The row that waited is closed, so signalling it harms no run.           *)
LEMMA StopQueuedKeepsLInv ==
  ASSUME IInv, LInv, StopQueued
  PROVE  LInv'
<1>0. IInv'
  BY StopQueuedKeeps
<1> USE DEF IInv, LInv, StopQueued
<1>1. Rows' /\ Deciding'
  BY DEF Rows, IndexesNeverBite, StopTarget, Running, Deciding
<1>2. Occupying' /\ Recording'
  BY DEF Occupying, StopTarget, Running, Recording, LedgerAgrees
<1>3. Signalling'
  BY <1>0, SMTT(30) DEF Signalling, StopIsHeard, StopTarget, TypeOK, DbType,
     Terminal, OnlyWaits
<1> QED  BY <1>1, <1>2, <1>3

(* The route that writes TERMINATING has the lock and signals next.        *)
LEMMA StopRunningKeepsLInv ==
  ASSUME IInv, LInv, StopRunning
  PROVE  LInv'
<1> USE DEF LInv, StopRunning
<1>1. Rows' /\ Deciding'
  BY DEF Rows, IndexesNeverBite, StopTarget, Deciding
<1>2. Occupying' /\ Signalling'
  BY DEF Occupying, StopTarget, Running, Signalling, StopIsHeard
<1>3. Recording'
  BY DEF Recording, LedgerAgrees, StopTarget
<1> QED  BY <1>1, <1>2, <1>3

(* Nothing is left to stop.                                                *)
LEMMA StopTooLateKeepsLInv ==
  ASSUME IInv, LInv, StopTooLate
  PROVE  LInv'
<1> USE DEF LInv, StopTooLate
<1>1. Rows' /\ Deciding'
  BY DEF Rows, IndexesNeverBite, StopTarget, Deciding
<1>2. Occupying' /\ Signalling'
  BY DEF Occupying, StopTarget, Signalling, StopIsHeard
<1>3. Recording'
  BY DEF Recording, LedgerAgrees, StopTarget
<1> QED  BY <1>1, <1>2, <1>3

(* A run that is signalled is told so; a closed row does not run.          *)
LEMMA StopSignalKeepsLInv ==
  ASSUME IInv, LInv, StopSignal
  PROVE  LInv'
<1>0. IInv'
  BY StopSignalKeeps
<1> USE DEF IInv, LInv, StopSignal
<1>1. Rows'
  BY SMTT(30) DEF Rows, IndexesNeverBite, Requested, TryRegister, Cleared,
     StopRest
<1>2. Deciding'
  BY SMTT(30) DEF Deciding, Requested, TryRegister, Cleared, StopRest, NoCtl
<1>3. Occupying'
  BY QueuedFound, SMTT(30) DEF Occupying, Requested, TryRegister, Cleared,
     StopRest
<1>4. Signalling'
  BY <1>0, SMTT(30) DEF Signalling, StopIsHeard, Requested, TryRegister,
     Cleared, StopRest, NoCtl, TypeOK, RegistryType, Running, Terminal,
     Completion, Waiting, Holding, Rows, IndexesNeverBite, Deciding,
     OnlyWaits, NobodyWaits, Occupying, Ending, Recording
<1>5. Recording'
  BY SMTT(30) DEF Recording, LedgerAgrees, Requested, TryRegister, Cleared,
     StopRest, NoCtl
<1> QED  BY <1>1, <1>2, <1>3, <1>4, <1>5

(* The entry of a closed row is written; its row does not run.             *)
LEMMA StopNoteKeepsLInv ==
  ASSUME IInv, LInv, StopNote
  PROVE  LInv'
<1>0. IInv'
  BY StopNoteKeeps
<1> USE DEF IInv, LInv, StopNote
<1>1. Rows' /\ Deciding'
  BY DEF Rows, IndexesNeverBite, Requested, StopRest, Deciding, NoCtl
<1>2. Occupying'
  BY DEF Occupying, Requested, StopRest
<1>3. Signalling'
  BY <1>0, SMTT(30) DEF Signalling, StopIsHeard, Requested, StopRest, NoCtl,
     Running, Holding, Rows, IndexesNeverBite, OnlyWaits, NobodyWaits, Ending
<1>4. Recording'
  BY SMTT(30) DEF Recording, LedgerAgrees, Requested, StopRest, NoCtl
<1> QED  BY <1>1, <1>2, <1>3, <1>4

(* The task of a row that does not run may be cancelled: it closes nothing *)
(* that its record contradicts.                                            *)
LEMMA StopFinalizeKeepsLInv ==
  ASSUME IInv, LInv, StopFinalize
  PROVE  LInv'
<1>0. IInv'
  BY StopFinalizeKeeps
<1> USE DEF IInv, LInv, StopFinalize
<1>1. Rows'
  BY SMTT(30) DEF Rows, IndexesNeverBite, Cancelled, Recorded, Inserting,
     StopRest
<1>2. Deciding'
  BY SMTT(30) DEF Deciding, NobodyWaits, Cancelled, Recorded, Inserting,
     StopRest, NoCtl
<1>3. Occupying'
  BY <1>0, ControlAssumption, SMTT(30) DEF Occupying, Cancelled, Recorded,
     Inserting, StopRest, Naming, Signalling
<1>4. Signalling'
  BY SMTT(30) DEF Signalling, StopIsHeard, Cancelled, Recorded, Inserting,
     StopRest, NoCtl
<1>5. Recording'
  BY SMTT(30) DEF Recording, LedgerAgrees, Cancelled, Recorded, Inserting,
     StopRest, NoCtl
<1> QED  BY <1>1, <1>2, <1>3, <1>4, <1>5

(* The dispatcher looks at the row that waits.                             *)
LEMMA DispLoadKeepsLInv ==
  ASSUME IInv, LInv, DispLoad
  PROVE  LInv'
<1> USE DEF LInv, DispLoad
<1>1. Rows' /\ Deciding'
  BY DEF Rows, IndexesNeverBite, Deciding, OnlyWaits, NobodyWaits
<1>2. Signalling' /\ Recording'
  BY DEF Signalling, StopIsHeard, Recording, LedgerAgrees
<1>3. Occupying'
  BY QueuedFound, SMTT(30) DEF Occupying
<1> QED  BY <1>1, <1>2, <1>3

(* The dispatcher leaves; the rows stay.                                   *)
LEMMA DispExitKeepsLInv ==
  ASSUME IInv, LInv, DispExit
  PROVE  LInv'
<1> USE DEF LInv, DispExit
<1>1. Rows' /\ Deciding'
  BY DEF Rows, IndexesNeverBite, NothingToRun, Deciding, OnlyWaits,
     NobodyWaits
<1>2. Occupying' /\ Signalling'
  BY DEF Occupying, NothingToRun, Signalling, StopIsHeard
<1>3. Recording'
  BY DEF Recording, LedgerAgrees, NothingToRun
<1> QED  BY <1>1, <1>2, <1>3

(* The dispatcher forgets a ticket that was stopped early.                 *)
LEMMA DispDropKeepsLInv ==
  ASSUME IInv, LInv, DispDrop
  PROVE  LInv'
<1> USE DEF LInv, DispDrop
<1>1. Rows' /\ Occupying'
  BY DEF Rows, IndexesNeverBite, NothingToRun, Cleared, Occupying
<1>2. Signalling' /\ Recording'
  BY DEF Signalling, StopIsHeard, NothingToRun, Cleared, Recording,
     LedgerAgrees
<1>3. Deciding'
  BY SMTT(30) DEF Deciding, OnlyWaits, NobodyWaits, NothingToRun, Cleared
<1> QED  BY <1>1, <1>2, <1>3

(* The new task has a row: the dispatcher saw it.                          *)
LEMMA DispLaunchKeepsLInv ==
  ASSUME IInv, LInv, DispLaunch
  PROVE  LInv'
<1>0. IInv'
  BY DispLaunchKeeps
<1> USE DEF IInv, LInv, DispLaunch
<1>1. Rows' /\ Deciding'
  BY DEF Rows, IndexesNeverBite, NothingToRun, Deciding, OnlyWaits,
     NobodyWaits
<1>2. Signalling' /\ Recording'
  BY DEF Signalling, StopIsHeard, NothingToRun, Recording, LedgerAgrees
<1>3. Occupying'
  BY <1>0, SMTT(30) DEF Occupying, Ending, NothingToRun, Holding
<1> QED  BY <1>1, <1>2, <1>3

(* A task that is over does not run, and its row may only be closed as     *)
(* failed.                                                                 *)
LEMMA DispCollectKeepsLInv ==
  ASSUME IInv, LInv, DispCollect
  PROVE  LInv'
<1>0. IInv'
  BY DispCollectKeeps
<1> USE DEF IInv, LInv, DispCollect
<1>1. Deciding'
  BY DEF Deciding, OnlyWaits, NobodyWaits, Finished
<1>2. Rows'
  BY SMTT(30) DEF Rows, IndexesNeverBite, Finished, Running, Occupying
<1>3. Occupying'
  BY <1>0, SMTT(30) DEF Occupying, Ending, Finished, Running, Holding
<1>4. Signalling'
  BY <1>0, SMTT(30) DEF Signalling, StopIsHeard, Finished, Running, Holding
<1>5. Recording'
  BY <1>0, SMTT(30) DEF Recording, LedgerAgrees, Finished, TypeOK, DbType,
     Status, Waiting, Holding, Rows, IndexesNeverBite, OnlyWaits, NobodyWaits,
     Occupying, Ending, Signalling
<1> QED  BY <1>1, <1>2, <1>3, <1>4, <1>5

(* A dispatcher that leaves looks at the rows.                             *)
LEMMA LeaveLoadKeepsLInv ==
  ASSUME IInv, LInv, LeaveLoad
  PROVE  LInv'
<1> USE DEF LInv, LeaveLoad
<1>1. Rows' /\ Deciding'
  BY DEF Rows, IndexesNeverBite, Deciding, OnlyWaits, NobodyWaits
<1>2. Occupying' /\ Signalling'
  BY DEF Occupying, Signalling, StopIsHeard
<1>3. Recording'
  BY DEF Recording, LedgerAgrees
<1> QED  BY <1>1, <1>2, <1>3

(* A dispatcher hands over; the rows stay.                                 *)
LEMMA LeaveDecideKeepsLInv ==
  ASSUME IInv, LInv, LeaveDecide
  PROVE  LInv'
<1> USE DEF LInv, LeaveDecide
<1>1. Rows' /\ Deciding'
  BY DEF Rows, IndexesNeverBite, Wake, Deciding, OnlyWaits, NobodyWaits
<1>2. Occupying' /\ Signalling'
  BY DEF Occupying, Wake, Signalling, StopIsHeard
<1>3. Recording'
  BY DEF Recording, LedgerAgrees, Wake
<1> QED  BY <1>1, <1>2, <1>3

(* A ticket that is refused has not started.                               *)
LEMMA TaskRefusedKeepsLInv ==
  ASSUME IInv, LInv, TaskRefused
  PROVE  LInv'
<1>0. IInv'
  BY TaskRefusedKeeps
<1> USE DEF IInv, LInv, TaskRefused
<1>1. Rows'
  BY SMTT(30) DEF Rows, IndexesNeverBite, MayBeInvalid, Finished, Cleared,
     TaskEnds, Running, Occupying
<1>2. Deciding'
  BY SMTT(30) DEF Deciding, MayBeInvalid, Finished, Cleared, TaskEnds
<1>3. Occupying'
  BY SMTT(30) DEF Occupying, Ending, MayBeInvalid, Finished, Cleared,
     TaskEnds, Running
<1>4. Signalling'
  BY SMTT(30) DEF Signalling, StopIsHeard, MayBeInvalid, Finished, Cleared,
     TaskEnds
<1>5. Recording'
  BY <1>0, SMTT(30) DEF Recording, LedgerAgrees, MayBeInvalid, Finished,
     Cleared, TaskEnds, TypeOK, DbType, Status, Waiting, Holding, Rows,
     IndexesNeverBite, OnlyWaits, NobodyWaits, Occupying, Ending, Signalling
<1> QED  BY <1>1, <1>2, <1>3, <1>4, <1>5

(* The channel is taken; no row runs yet.                                  *)
LEMMA TaskPromoteKeepsLInv ==
  ASSUME IInv, LInv, TaskPromote
  PROVE  LInv'
<1> USE DEF LInv, TaskPromote
<1>1. Deciding' /\ Occupying'
  BY DEF Deciding, MayBeValid, Promotable, TryRegister, Occupying
<1>2. Rows'
  BY SMTT(30) DEF Rows, IndexesNeverBite, MayBeValid, Promotable, TryRegister
<1>3. Signalling'
  BY SMTT(30) DEF Signalling, StopIsHeard, MayBeValid, Promotable, TryRegister
<1>4. Recording'
  BY SMTT(30) DEF Recording, LedgerAgrees, MayBeValid, Promotable, TryRegister
<1> QED  BY <1>1, <1>2, <1>3, <1>4

(* The channel was busy; the rows stay.                                    *)
LEMMA TaskNotPromotedKeepsLInv ==
  ASSUME IInv, LInv, TaskNotPromoted
  PROVE  LInv'
<1> USE DEF LInv, TaskNotPromoted
<1>1. Rows'
  BY SMTT(30) DEF Rows, IndexesNeverBite, MayBeValid, Promotable, TryRegister,
     TaskEnds
<1>2. Deciding'
  BY SMTT(30) DEF Deciding, MayBeValid, Promotable, TryRegister, TaskEnds
<1>3. Occupying'
  BY SMTT(30) DEF Occupying, Ending, MayBeValid, Promotable, TryRegister,
     TaskEnds
<1>4. Signalling'
  BY SMTT(30) DEF Signalling, StopIsHeard, MayBeValid, Promotable,
     TryRegister, TaskEnds
<1>5. Recording'
  BY SMTT(30) DEF Recording, LedgerAgrees, MayBeValid, Promotable,
     TryRegister, TaskEnds
<1> QED  BY <1>1, <1>2, <1>3, <1>4, <1>5

(* The execution of the row has the channel, so no other row runs.         *)
LEMMA TaskClaimKeepsLInv ==
  ASSUME IInv, LInv, TaskClaim
  PROVE  LInv'
<1>0. IInv'
  BY TaskClaimKeeps
<1> USE DEF IInv, LInv, TaskClaim
<1>1. Deciding'
  BY DEF Deciding
<1>2. Rows'
  BY <1>0, SMTT(30) DEF Rows, IndexesNeverBite, Waiting, Holding, OnlyWaits,
     NobodyWaits, Occupying
<1>3. Occupying'
  BY <1>0, SMTT(30) DEF Occupying, Holding
<1>4. Signalling'
  BY <1>0, SMTT(30) DEF Signalling, StopIsHeard, Running, Terminal,
     Completion, Holding, IndexesNeverBite, OnlyWaits, NobodyWaits, Ending
<1>5. Recording'
  BY <1>0, SMTT(30) DEF Recording, LedgerAgrees, Naming
<1> QED  BY <1>1, <1>2, <1>3, <1>4, <1>5

(* The row was closed meanwhile; it does not run.                          *)
LEMMA TaskClaimLostKeepsLInv ==
  ASSUME IInv, LInv, TaskClaimLost
  PROVE  LInv'
<1>0. IInv'
  BY TaskClaimLostKeeps
<1> USE DEF IInv, LInv, TaskClaimLost
<1>1. Rows' /\ Deciding'
  BY DEF Rows, IndexesNeverBite, Cleared, TaskEnds, Deciding, NoCtl
<1>2. Occupying'
  BY <1>0, SMTT(30) DEF Occupying, Ending, Cleared, TaskEnds, Holding
<1>3. Signalling'
  BY SMTT(30) DEF Signalling, StopIsHeard, Cleared, TaskEnds, NoCtl
<1>4. Recording'
  BY <1>0, SMTT(30) DEF Recording, LedgerAgrees, Cleared, TaskEnds, Holding
<1> QED  BY <1>1, <1>2, <1>3, <1>4

(* The task of the row is at work, and its entry says so.                  *)
LEMMA TaskClaimedKeepsLInv ==
  ASSUME IInv, LInv, TaskClaimed
  PROVE  LInv'
<1>0. IInv'
  BY TaskClaimedKeeps
<1> USE DEF IInv, LInv, TaskClaimed
<1>1. Rows' /\ Deciding'
  BY DEF Rows, IndexesNeverBite, Cleared, TaskTo, Deciding, NoCtl
<1>2. Occupying'
  BY <1>0, SMTT(30) DEF Occupying, Ending, Cleared, TaskTo, Holding
<1>3. Signalling'
  BY <1>0, SMTT(30) DEF Signalling, StopIsHeard, Cleared, TaskTo, NoCtl,
     TypeOK, RegistryType, Status, Running, Waiting, Holding, Rows,
     IndexesNeverBite, Deciding, OnlyWaits, NobodyWaits, Occupying, Ending,
     Recording
<1>4. Recording'
  BY <1>0, SMTT(30) DEF Recording, LedgerAgrees, Cleared, TaskTo, Holding
<1> QED  BY <1>1, <1>2, <1>3, <1>4

(* The task learns its ticket; the rows stay.                              *)
LEMMA TaskBindKeepsLInv ==
  ASSUME IInv, LInv, TaskBind
  PROVE  LInv'
<1>0. IInv'
  BY TaskBindKeeps
<1> USE DEF IInv, LInv, TaskBind
<1>1. Rows'
  BY SMTT(30) DEF Rows, IndexesNeverBite, ReleaseSlots, Cleared, Finalized,
     TaskTo
<1>2. Deciding'
  BY SMTT(30) DEF Deciding, OnlyWaits, NobodyWaits, ReleaseSlots, Cleared,
     Finalized, TaskTo
<1>3. Occupying'
  BY <1>0, SMTT(30) DEF Occupying, Ending, ReleaseSlots, Cleared, Finalized,
     TaskTo, TypeOK, TaskType, Holding
<1>4. Signalling'
  BY <1>0, SMTT(30) DEF Signalling, StopIsHeard, ReleaseSlots, Cleared,
     Finalized, TaskTo, TypeOK, TaskType
<1>5. Recording'
  BY <1>0, SMTT(30) DEF Recording, LedgerAgrees, ReleaseSlots, Cleared,
     Finalized, TaskTo, TypeOK, TaskType
<1> QED  BY <1>1, <1>2, <1>3, <1>4, <1>5

(* The task may have to read its row; the rows stay.                       *)
LEMMA TaskBindReadKeepsLInv ==
  ASSUME IInv, LInv, TaskBindRead
  PROVE  LInv'
<1>0. IInv'
  BY TaskBindReadKeeps
<1> USE DEF IInv, LInv, TaskBindRead
<1>1. Rows'
  BY SMTT(30) DEF Rows, IndexesNeverBite, TaskTo, ReleaseSlots, Cleared,
     Finalized
<1>2. Deciding'
  BY SMTT(30) DEF Deciding, OnlyWaits, NobodyWaits, TaskTo, ReleaseSlots,
     Cleared, Finalized
<1>3. Occupying'
  BY <1>0, SMTT(30) DEF Occupying, Ending, TaskTo, ReleaseSlots, Cleared,
     Finalized, TypeOK, TaskType, Holding
<1>4. Signalling'
  BY <1>0, SMTT(30) DEF Signalling, StopIsHeard, TaskTo, ReleaseSlots,
     Cleared, Finalized, Terminal, Completion, TypeOK, RegistryType, TaskType,
     Waiting, Holding, Rows, IndexesNeverBite, Deciding, OnlyWaits,
     NobodyWaits, Occupying, Ending, Recording
<1>5. Recording'
  BY <1>0, SMTT(30) DEF Recording, LedgerAgrees, TaskTo, ReleaseSlots,
     Cleared, Finalized, TypeOK, TaskType
<1> QED  BY <1>1, <1>2, <1>3, <1>4, <1>5

(* The row is closed before it ever ran.                                   *)
LEMMA TaskBindMarkKeepsLInv ==
  ASSUME IInv, LInv, TaskBindMark
  PROVE  LInv'
<1>0. IInv'
  BY TaskBindMarkKeeps
<1> USE DEF IInv, LInv, TaskBindMark
<1>1. Rows'
  BY SMTT(30) DEF Rows, IndexesNeverBite, Finished, TaskTo, Running, Occupying
<1>2. Deciding'
  BY SMTT(30) DEF Deciding, OnlyWaits, NobodyWaits, Finished, TaskTo
<1>3. Occupying'
  BY SMTT(30) DEF Occupying, Ending, Finished, TaskTo, Running
<1>4. Signalling'
  BY <1>0, SMTT(30) DEF Signalling, StopIsHeard, Finished, TaskTo, Running,
     Holding
<1>5. Recording'
  BY <1>0, SMTT(30) DEF Recording, LedgerAgrees, Finished, TaskTo, TypeOK,
     DbType, Status, Waiting, Holding, Rows, IndexesNeverBite, OnlyWaits,
     NobodyWaits, Occupying, Ending, Signalling
<1> QED  BY <1>1, <1>2, <1>3, <1>4, <1>5

(* The task waits for its promotion; the rows stay.                        *)
LEMMA TaskCalculateKeepsLInv ==
  ASSUME IInv, LInv, TaskCalculate
  PROVE  LInv'
<1> USE DEF LInv, TaskCalculate
<1>1. Rows' /\ Deciding'
  BY DEF Rows, IndexesNeverBite, TaskTo, Deciding, OnlyWaits, NobodyWaits
<1>2. Occupying' /\ Signalling'
  BY DEF Occupying, Ending, TaskTo, Signalling, StopIsHeard
<1>3. Recording'
  BY DEF Recording, LedgerAgrees, TaskTo
<1> QED  BY <1>1, <1>2, <1>3

(* The registry learns the end that the record has.                        *)
LEMMA TaskTellKeepsLInv ==
  ASSUME IInv, LInv, TaskTell
  PROVE  LInv'
<1>0. IInv'
  BY TaskTellKeeps
<1> USE DEF IInv, LInv, TaskTell
<1>1. Rows' /\ Deciding'
  BY DEF Rows, IndexesNeverBite, TaskTo, Deciding, OnlyWaits, NobodyWaits
<1>2. Occupying' /\ Recording'
  BY DEF Occupying, Ending, TaskTo, Recording, LedgerAgrees
<1>3. Signalling'
  BY <1>0, SMTT(30) DEF Signalling, StopIsHeard, TaskTo, TypeOK, TaskType,
     Terminal, Completion, Holding, IndexesNeverBite, OnlyWaits, NobodyWaits,
     Ending
<1> QED  BY <1>1, <1>2, <1>3

(* The row is looked at; it runs, or was closed as stopped.                *)
LEMMA TaskLookKeepsLInv ==
  ASSUME IInv, LInv, TaskLook
  PROVE  LInv'
<1>0. IInv'
  BY TaskLookKeeps
<1> USE DEF IInv, LInv, TaskLook
<1>1. Rows' /\ Deciding'
  BY DEF Rows, IndexesNeverBite, Deciding, OnlyWaits, NobodyWaits
<1>2. Signalling' /\ Recording'
  BY DEF Signalling, StopIsHeard, Recording, LedgerAgrees
<1>3. Occupying'
  BY <1>0, SMTT(30) DEF Occupying, Ending, Terminal, Completion, TypeOK,
     DbType, TaskType, Status, Running, Naming, Waiting, Holding, Rows,
     IndexesNeverBite, Deciding, OnlyWaits, NobodyWaits, Signalling, Recording
<1> QED  BY <1>1, <1>2, <1>3

(* The row is closed with the end that the record has.                     *)
LEMMA TaskMarkKeepsLInv ==
  ASSUME IInv, LInv, TaskMark
  PROVE  LInv'
<1>0. IInv'
  BY TaskMarkKeeps
<1> USE DEF IInv, LInv, TaskMark
<1>1. Rows'
  BY <1>0, SMTT(30) DEF Rows, IndexesNeverBite, TaskTo, TypeOK, TaskType,
     Status, Running, Terminal, Completion, Naming, Waiting, Holding,
     Deciding, OnlyWaits, NobodyWaits, Occupying, Ending, Signalling,
     Recording
<1>2. Deciding'
  BY <1>0, SMTT(30) DEF Deciding, OnlyWaits, NobodyWaits, TaskTo, TypeOK,
     TaskType, Terminal, Completion, Naming, Waiting, Holding, Rows,
     IndexesNeverBite, Occupying, Ending, Signalling, Recording
<1>3. Occupying'
  BY <1>0, SMTT(30) DEF Occupying, Ending, TaskTo, TypeOK, DbType, TaskType,
     Status, Running, Terminal, Completion, Naming, Waiting, Holding, Rows,
     IndexesNeverBite, Deciding, OnlyWaits, NobodyWaits, Signalling, Recording
<1>4. Signalling'
  BY <1>0, SMTT(30) DEF Signalling, StopIsHeard, TaskTo, TypeOK, TaskType,
     Running, Naming, Waiting, Holding, Rows, IndexesNeverBite, Deciding,
     OnlyWaits, NobodyWaits, Occupying, Ending, Recording
<1>5. Recording'
  BY <1>0, SMTT(30) DEF Recording, LedgerAgrees, TaskTo, TypeOK, TaskType,
     Terminal, Completion, Naming, Waiting, Holding, Rows, IndexesNeverBite,
     Deciding, OnlyWaits, NobodyWaits, Occupying, Ending, Signalling
<1> QED  BY <1>1, <1>2, <1>3, <1>4, <1>5

(* The channel is given back when the row is closed.                       *)
LEMMA TaskUnwindKeepsLInv ==
  ASSUME IInv, LInv, TaskUnwind
  PROVE  LInv'
<1>0. IInv'
  BY TaskUnwindKeeps
<1> USE DEF IInv, LInv, TaskUnwind
<1>1. Rows'
  BY SMTT(30) DEF Rows, IndexesNeverBite, TaskTo, ReleaseSlots, Cleared,
     Finalized
<1>2. Deciding'
  BY SMTT(30) DEF Deciding, OnlyWaits, NobodyWaits, TaskTo, ReleaseSlots,
     Cleared, Finalized
<1>3. Occupying'
  BY <1>0, SMTT(30) DEF Occupying, Ending, TaskTo, ReleaseSlots, Cleared,
     Finalized, Holding
<1>4. Signalling'
  BY <1>0, SMTT(30) DEF Signalling, StopIsHeard, TaskTo, ReleaseSlots,
     Cleared, Finalized, Terminal, Completion
<1>5. Recording'
  BY SMTT(30) DEF Recording, LedgerAgrees, TaskTo, ReleaseSlots, Cleared,
     Finalized
<1> QED  BY <1>1, <1>2, <1>3, <1>4, <1>5

(* The end of a refresh leaves the rows alone.                             *)
LEMMA RefreshEndKeepsLInv ==
  ASSUME IInv, LInv, RefreshEnd
  PROVE  LInv'
<1> USE DEF LInv, RefreshEnd
<1>1. Rows' /\ Deciding'
  BY DEF Rows, IndexesNeverBite, Deciding, OnlyWaits, NobodyWaits
<1>2. Occupying' /\ Signalling'
  BY DEF Occupying, Signalling, StopIsHeard
<1>3. Recording'
  BY DEF Recording, LedgerAgrees
<1> QED  BY <1>1, <1>2, <1>3

(* No coroutine is left that could have seen the rows.                     *)
LEMMA CrashKeepsLInv ==
  ASSUME IInv, LInv, Crash
  PROVE  LInv'
<1>0. IInv'
  BY CrashKeeps
<1> USE DEF IInv, LInv, Crash
<1>1. Rows'
  BY DEF Rows, IndexesNeverBite
<1>2. Deciding'
  BY <1>0, SMTT(30) DEF Deciding, Waiting
<1>3. Occupying'
  BY <1>0, SMTT(30) DEF Occupying, Holding
<1>4. Signalling'
  BY <1>0, SMTT(30) DEF Signalling, StopIsHeard, Waiting
<1>5. Recording'
  BY <1>0, SMTT(30) DEF Recording, LedgerAgrees, Holding
<1> QED  BY <1>1, <1>2, <1>3, <1>4, <1>5

(* Recovery takes rows out of the queue.                                   *)
LEMMA RecoverSupplementsKeepsLInv ==
  ASSUME IInv, LInv, RecoverSupplements
  PROVE  LInv'
<1>0. IInv'
  BY RecoverSupplementsKeeps
<1> USE DEF IInv, LInv, RecoverSupplements
<1>1. Rows' /\ Recording'
  BY DEF Rows, IndexesNeverBite, Revoked, Running, Recording, LedgerAgrees
<1>2. Deciding'
  BY <1>0, SMTT(30) DEF Deciding, Revoked, Waiting
<1>3. Occupying'
  BY <1>0, SMTT(30) DEF Occupying, Revoked, TypeOK, DispType, MaybeId, Waiting
<1>4. Signalling'
  BY <1>0, SMTT(30) DEF Signalling, StopIsHeard, Revoked, Waiting
<1> QED  BY <1>1, <1>2, <1>3, <1>4

(* Recovery closes the rows that ran as failed: their record may say more, *)
(* and never less.                                                         *)
LEMMA RecoverInterruptedKeepsLInv ==
  ASSUME IInv, LInv, RecoverInterrupted
  PROVE  LInv'
<1>0. IInv'
  BY RecoverInterruptedKeeps
<1> USE DEF IInv, LInv, RecoverInterrupted
<1>1. Rows' /\ Deciding'
  BY DEF Rows, IndexesNeverBite, Finished, Deciding, OnlyWaits, NobodyWaits
<1>2. Recording'
  BY DEF Recording, LedgerAgrees, Finished
<1>3. Occupying'
  BY <1>0, SMTT(30) DEF Occupying, Finished, Waiting
<1>4. Signalling'
  BY <1>0, SMTT(30) DEF Signalling, StopIsHeard, Finished, Waiting
<1> QED  BY <1>1, <1>2, <1>3, <1>4

(* The record of an interrupted run is written when its row is closed.     *)
LEMMA RecoverRecordKeepsLInv ==
  ASSUME IInv, LInv, RecoverRecord
  PROVE  LInv'
<1> USE DEF LInv, RecoverRecord
<1>1. Rows' /\ Occupying'
  BY DEF Rows, IndexesNeverBite, Recorded, Cleared, Occupying
<1>2. Signalling' /\ Recording'
  BY DEF Signalling, StopIsHeard, Recorded, Cleared, Recording, LedgerAgrees
<1>3. Deciding'
  BY SMTT(30) DEF Deciding, OnlyWaits, NobodyWaits, Recorded, Cleared
<1> QED  BY <1>1, <1>2, <1>3

(* The row that waits is handed to a dispatcher; no row runs.              *)
LEMMA RecoverQueuedKeepsLInv ==
  ASSUME IInv, LInv, RecoverQueued
  PROVE  LInv'
<1>0. IInv'
  BY RecoverQueuedKeeps
<1> USE DEF IInv, LInv, RecoverQueued
<1>1. Rows' /\ Deciding'
  BY DEF Rows, IndexesNeverBite, Wake, Deciding, OnlyWaits, NobodyWaits
<1>2. Recording'
  BY DEF Recording, LedgerAgrees, Wake
<1>3. Occupying'
  BY QueuedFound, SMTT(30) DEF Occupying, Wake
<1>4. Signalling'
  BY <1>0, QueuedFound, SMTT(30) DEF Signalling, StopIsHeard, Wake, TypeOK,
     RegistryType, Waiting, Holding, Rows, IndexesNeverBite, OnlyWaits,
     NobodyWaits, Ending
<1> QED  BY <1>1, <1>2, <1>3, <1>4

-----------------------------------------------------------------------------
(* A server that was never started has no rows.                            *)
LEMMA InitHoldsLInv == Init => LInv
<1> SUFFICES ASSUME Init PROVE LInv
  OBVIOUS
<1> USE DEF Init, NoCtl, NoTask
<1>1. Rows
  BY DEF Rows, IndexesNeverBite, Running
<1>2. Deciding
  BY DEF Deciding
<1>3. Occupying
  BY DEF Occupying, Running
<1>4. Signalling
  BY DEF Signalling, StopIsHeard
<1>5. Recording
  BY DEF Recording, LedgerAgrees
<1> QED  BY <1>1, <1>2, <1>3, <1>4, <1>5 DEF LInv

(* The invariant of the rows is inductive beside that of the channel.      *)
LEMMA StepKeepsLInv == IInv /\ LInv /\ [Next]_vars => LInv'
<1> SUFFICES ASSUME IInv, LInv, [Next]_vars PROVE LInv'
  OBVIOUS
<1>1. CASE Requesting
  BY <1>1, SubmitBeginKeepsLInv, StopBeginKeepsLInv, RevokeUnlockedKeepsLInv,
     RefreshBeginKeepsLInv DEF Requesting
<1>2. CASE Admission
  BY <1>2, SubmitConflictKeepsLInv, SubmitCoalesceKeepsLInv,
     SubmitReplaceKeepsLInv, SubmitCreateKeepsLInv, SubmitAttachKeepsLInv,
     SubmitInsertKeepsLInv, SubmitRefuseStepKeepsLInv,
     SubmitEnsureKeepsLInv, SubmitSupersedeKeepsLInv,
     SubmitSupersedeLostKeepsLInv, SubmitSupersededKeepsLInv DEF Admission
<1>3. CASE Stopping
  BY <1>3, StopReapKeepsLInv, StopQueuedKeepsLInv, StopRunningKeepsLInv,
     StopTooLateKeepsLInv, StopSignalKeepsLInv, StopNoteKeepsLInv,
     StopFinalizeKeepsLInv DEF Stopping
<1>4. CASE Dispatching \/ Leaving
  BY <1>4, DispLoadKeepsLInv, DispExitKeepsLInv, DispDropKeepsLInv,
     DispLaunchKeepsLInv, DispCollectKeepsLInv, LeaveLoadKeepsLInv,
     LeaveDecideKeepsLInv DEF Dispatching, Leaving
<1>5. CASE Promoting \/ Claiming
  BY <1>5, TaskRefusedKeepsLInv, TaskPromoteKeepsLInv,
     TaskNotPromotedKeepsLInv, TaskClaimKeepsLInv, TaskClaimLostKeepsLInv,
     TaskClaimedKeepsLInv DEF Promoting, Claiming
<1>6. CASE Executing
  BY <1>6, TaskBindKeepsLInv, TaskBindReadKeepsLInv,
     TaskBindMarkKeepsLInv, TaskCalculateKeepsLInv, TaskRecordKeepsLInv,
     TaskTellKeepsLInv, TaskLookKeepsLInv, TaskMarkKeepsLInv,
     TaskUnwindKeepsLInv DEF Executing
<1>7. CASE RefreshEnd \/ Crash \/ \E x \in Ids : Evict(x)
  BY <1>7, RefreshEndKeepsLInv, CrashKeepsLInv, EvictKeepsLInv
<1>8. CASE Recovering
  BY <1>8, RecoverSupplementsKeepsLInv, RecoverInterruptedKeepsLInv,
     RecoverRecordKeepsLInv, RecoverQueuedKeepsLInv DEF Recovering
<1>9. CASE UNCHANGED vars
  <2> USE <1>9 DEF LInv, vars
  <2>1. Rows' /\ Deciding'
    BY DEF Rows, IndexesNeverBite, Deciding, OnlyWaits, NobodyWaits
  <2>2. Occupying' /\ Recording'
    BY DEF Occupying, Recording, LedgerAgrees
  <2>3. Signalling'
    BY DEF Signalling, StopIsHeard
  <2> QED  BY <2>1, <2>2, <2>3
<1> QED
  BY <1>1, <1>2, <1>3, <1>4, <1>5, <1>6, <1>7, <1>8, <1>9 DEF Next

(* Both invariants hold in every behaviour.                                *)
LEMMA LedgerInvariance == Spec => [](IInv /\ LInv)
<1>1. Init => IInv /\ LInv
  BY InitHolds, InitHoldsLInv
<1>2. IInv /\ LInv /\ [Next]_vars => (IInv /\ LInv)'
  BY StepKeeps, StepKeepsLInv
<1> QED  BY <1>1, <1>2, PTL DEF Spec

(* The unique indexes of execution_intent never refuse an insert or a      *)
(* claim.  Between the look at the rows and the insert of a submission     *)
(* stands the lock of the account, and no other coroutine makes a row wait *)
(* (Deciding); a row is claimed when its execution has the channel, and    *)
(* the row that ran before it was closed before the channel was given back *)
(* (Occupying), recovery included, which closes it before anybody may run. *)
THEOREM IndexesAreEnough == Spec => []IndexesNeverBite
<1>1. LInv => IndexesNeverBite
  BY DEF LInv, Rows
<1> QED  BY LedgerInvariance, <1>1, PTL

(* Nobody writes TERMINATING without stopping the worker: the terminate    *)
(* route that wrote it still has the lock and signals next, or finds the   *)
(* execution in the registry and has signalled it already.                 *)
THEOREM StopsAreHeard == Spec => []StopIsHeard
<1>1. LInv => StopIsHeard
  BY DEF LInv, Signalling
<1> QED  BY LedgerInvariance, <1>1, PTL

(* The two tables that say how a run ended, execution_intent and           *)
(* execute_record, do not contradict each other although they are written  *)
(* in separate transactions, and although a crash may come between.        *)
THEOREM TicketAndRecordAgree == Spec => []LedgerAgrees
<1>1. LInv => LedgerAgrees
  BY DEF LInv, Recording
<1> QED  BY LedgerInvariance, <1>1, PTL

-----------------------------------------------------------------------------

(* A step of the ledger, or one that it does not see.                      *)
LedgerSteps == [Ledger!Next]_<<status, refresh>>

(* Closing a ticket that waits or runs is a withdrawal or the end of a run.*)
LEMMA CloseRefines ==
  ASSUME IInv, NEW x \in Ids, NEW s \in {"TERMINATED", "FAILED"},
         status[x] # "NONE", status' = Finished(x, s), UNCHANGED refresh
  PROVE  LedgerSteps
<1> USE DEF IInv, TypeOK, DbType
<1>1. CASE status[x] \in Terminal
  BY <1>1 DEF Finished, LedgerSteps
<1>2. CASE status[x] = "QUEUED"
  <2>1. Ledger!Withdraw(x)
    BY <1>2 DEF Finished, Terminal, Completion, Ledger!Withdraw, Ledger!Move
  <2> QED  BY <2>1 DEF LedgerSteps, Ledger!Next
<1>3. CASE status[x] \in Running
  <2>1. Ledger!Close(x)
    BY <1>3 DEF Finished, Running, Terminal, Completion, Ledger!Close,
       Ledger!Move, Ledger!Running, Ledger!Terminal
  <2> QED  BY <2>1 DEF LedgerSteps, Ledger!Next
<1> QED  BY <1>1, <1>2, <1>3 DEF Status

(* A revocation finds at most one waiting ticket and withdraws it.         *)
LEMMA RevokeRefines ==
  ASSUME IInv, IndexesNeverBite, status' \in {status, Revoked},
         UNCHANGED refresh
  PROVE  LedgerSteps
<1> USE DEF IInv, TypeOK, DbType
<1>1. CASE status' = status
  BY <1>1 DEF LedgerSteps
<1>2. CASE \E x \in Ids : status[x] = "QUEUED" /\ x \in stepOnly
  <2>1. PICK x \in Ids : status[x] = "QUEUED" /\ x \in stepOnly
    BY <1>2
  <2>2. Revoked = [status EXCEPT ![x] = "TERMINATED"]
    BY <2>1 DEF Revoked, IndexesNeverBite
  <2>3. CASE status' = Revoked
    <3>1. Ledger!Withdraw(x)
      BY <2>1, <2>2, <2>3 DEF Ledger!Withdraw, Ledger!Move
    <3> QED  BY <3>1 DEF LedgerSteps, Ledger!Next
  <2> QED  BY <1>1, <2>3
<1>3. CASE \A x \in Ids : ~(status[x] = "QUEUED" /\ x \in stepOnly)
  <2>1. Revoked = status
    BY <1>3 DEF Revoked
  <2> QED  BY <1>1, <2>1
<1> QED  BY <1>2, <1>3

(* A row runs only while its execution has the channel.                    *)
LEMMA FreeMeansIdle ==
  ASSUME LInv, phase = "up", runSlot = NoId, NEW x \in Ids
  PROVE  status[x] \notin Running
  BY ControlAssumption DEF LInv, Occupying

(* Every step of the control plane is a step of the ledger or a stutter.   *)
LEMMA StepRefines ==
  ASSUME IInv, IInv', LInv, [Next]_vars
  PROVE  LedgerSteps
<1> USE DEF IInv, LInv
<1>1. CASE UNCHANGED <<status, refresh>>
  BY <1>1 DEF LedgerSteps
<1>2. CASE Requesting
  <2>1. CASE \E r \in Asks : SubmitBegin(r[1], r[2])
    BY <2>1, <1>1, Zenon DEF SubmitBegin
  <2>2. CASE \/ \E op \in {"cancel", "terminate"} : StopBegin(op)
             \/ RevokeUnlocked
    BY <2>2, RevokeRefines DEF Rows, StopBegin, RevokeUnlocked
  <2>3. CASE \E r \in {"asset", "target"} : RefreshBegin(r)
    <3>1. Ledger!BeginRefresh
      BY <2>3, FreeMeansIdle DEF RefreshBegin, TryRegister, Running,
         Ledger!BeginRefresh, Ledger!ChannelFree, Ledger!Running
    <3> QED  BY <3>1 DEF LedgerSteps, Ledger!Next
  <2> QED  BY <1>2, <2>1, <2>2, <2>3 DEF Requesting
<1>3. CASE Admission
  <2>1. CASE SubmitInsert
    <3>1. PICK x \in Fresh : status' = [status EXCEPT ![x] = "QUEUED"]
      BY <2>1 DEF SubmitInsert
    <3>2. Ledger!Admit(x)
      BY <2>1, <3>1 DEF SubmitInsert, Fresh, Deciding, NobodyWaits,
         Ledger!Admit, Ledger!Move
    <3> QED  BY <3>2, FreshTyped DEF LedgerSteps, Ledger!Next
  <2>2. CASE SubmitSupersede
    <3>1. ctl.x \in Ids /\ Ledger!Withdraw(ctl.x)
      BY <2>2 DEF SubmitSupersede, Naming, Ledger!Withdraw, Ledger!Move
    <3> QED  BY <3>1 DEF LedgerSteps, Ledger!Next
  <2> QED
    BY <1>1, <1>3, <2>1, <2>2 DEF Admission, SubmitConflict, SubmitCoalesce,
       SubmitReplace, SubmitCreate, SubmitAttach, SubmitRefuseStep,
       SubmitEnsure, SubmitSupersedeLost, SubmitSuperseded
<1>4. CASE Stopping
  <2>1. CASE StopQueued
    <3>1. StopTarget \in Ids /\ Ledger!Withdraw(StopTarget)
      BY <2>1 DEF StopQueued, Naming, Ledger!Withdraw, Ledger!Move
    <3> QED  BY <3>1 DEF LedgerSteps, Ledger!Next
  <2>2. CASE StopRunning
    <3>1. StopTarget \in Ids
      BY <2>2 DEF StopRunning, Naming
    <3>2. status' = status \/ Ledger!RequestStop(StopTarget)
      BY <2>2, <3>1 DEF StopRunning, TypeOK, DbType, Running,
         Ledger!RequestStop, Ledger!Move
    <3>3. UNCHANGED refresh
      BY <2>2 DEF StopRunning
    <3> QED  BY <1>1, <3>1, <3>2, <3>3 DEF LedgerSteps, Ledger!Next
  <2> QED
    BY <1>1, <1>4, <2>1, <2>2 DEF Stopping, StopReap, StopTooLate,
       StopSignal, StopNote, StopFinalize
<1>5. CASE Dispatching \/ Leaving
  <2>1. CASE DispCollect
    <3>1. task.id \in Ids /\ status[task.id] # "NONE"
      BY <2>1 DEF DispCollect, Naming, Occupying
    <3> QED  BY <1>1, <2>1, <3>1, CloseRefines DEF DispCollect
  <2> QED
    BY <1>1, <1>5, <2>1 DEF Dispatching, DispLoad, DispExit,
       DispDrop, DispLaunch, Leaving, LeaveLoad, LeaveDecide
<1>6. CASE Promoting \/ Claiming
  <2>1. CASE TaskRefused
    <3>1. task.id \in Ids /\ status[task.id] # "NONE"
      BY <2>1 DEF TaskRefused, Naming, Occupying
    <3> QED  BY <2>1, <3>1, CloseRefines DEF TaskRefused
  <2>2. CASE TaskClaim
    <3>1. ctl.x \in Ids /\ runSlot = ctl.x /\ task.pc = "promote"
      BY <2>2 DEF TaskClaim, Naming, Holding
    <3>2. phase = "up" /\ refresh = "none"
      BY <2>2, <3>1, ControlAssumption DEF TaskClaim, Waiting, Holding
    <3>3. \A y \in Ids : status[y] \notin Running
      BY <2>2, <3>1, <3>2 DEF TaskClaim, Occupying, Ending
    <3>4. Ledger!Start(ctl.x)
      BY <2>2, <3>2, <3>3 DEF TaskClaim, Running, Ledger!Start, Ledger!Move,
         Ledger!ChannelFree, Ledger!Running
    <3> QED  BY <3>1, <3>4 DEF LedgerSteps, Ledger!Next
  <2> QED
    BY <1>1, <1>6, <2>1, <2>2 DEF Promoting, Claiming, TaskPromote,
       TaskNotPromoted, TaskClaimLost, TaskClaimed
<1>7. CASE Executing
  <2>1. CASE TaskBindMark
    <3>1. task.id \in Ids /\ status[task.id] # "NONE"
      BY <2>1 DEF TaskBindMark, Naming, Occupying
    <3> QED  BY <2>1, <3>1, CloseRefines DEF TaskBindMark
  <2>2. CASE TaskMark
    <3>1. /\ task.id \in Ids /\ task.out \in Terminal
          /\ status' = [status EXCEPT ![task.id] = task.out]
          /\ UNCHANGED refresh
      BY <2>2 DEF TaskMark, Naming, TypeOK, TaskType
    <3>2. CASE status[task.id] \in Running
      <4>1. Ledger!Close(task.id)
        BY <3>1, <3>2 DEF Running, Terminal, Completion, Ledger!Close,
           Ledger!Move, Ledger!Running, Ledger!Terminal
      <4> QED  BY <3>1, <4>1 DEF LedgerSteps, Ledger!Next
    <3>3. CASE status[task.id] = "QUEUED" /\ task.out = "FAILED"
      <4>1. Ledger!Withdraw(task.id)
        BY <3>1, <3>3 DEF Ledger!Withdraw, Ledger!Move
      <4> QED  BY <3>1, <4>1 DEF LedgerSteps, Ledger!Next
    <3>4. CASE status[task.id] = "TERMINATED" /\ task.out = "FAILED"
      <4>1. Ledger!Amend(task.id)
        BY <3>1, <3>4 DEF Ledger!Amend, Ledger!Move
      <4> QED  BY <3>1, <4>1 DEF LedgerSteps, Ledger!Next
    <3> QED  BY <2>2, <3>2, <3>3, <3>4 DEF TaskMark, Occupying
  <2>3. CASE \E o \in Results : TaskRecord(o)
    BY <2>3, <1>1, Zenon DEF TaskRecord
  <2> QED
    BY <1>1, <1>7, <2>1, <2>2, <2>3 DEF Executing, TaskBind, TaskBindRead,
       TaskCalculate, TaskTell, TaskLook, TaskUnwind
<1>8. CASE RefreshEnd \/ Crash \/ \E x \in Ids : Evict(x)
  <2>1. CASE UNCHANGED status /\ refresh # "none" /\ refresh' = "none"
    <3>1. Ledger!EndRefresh
      BY <2>1 DEF Ledger!EndRefresh
    <3> QED  BY <3>1 DEF LedgerSteps, Ledger!Next
  <2> QED  BY <1>1, <1>8, <2>1 DEF RefreshEnd, Crash, Evict
<1>9. CASE Recovering
  <2>1. CASE RecoverInterrupted
    <3>1. PICK x \in Ids :
            status[x] \in Running /\ status' = Finished(x, "FAILED")
      BY <2>1 DEF RecoverInterrupted
    <3>2. UNCHANGED refresh
      BY <2>1 DEF RecoverInterrupted
    <3> QED  BY <3>1, <3>2, CloseRefines DEF Running
  <2>2. CASE RecoverSupplements
    BY <2>2, RevokeRefines DEF Rows, RecoverSupplements
  <2> QED
    BY <1>1, <1>9, <2>1, <2>2 DEF Recovering, RecoverRecord, RecoverQueued
<1> QED
  BY <1>1, <1>2, <1>3, <1>4, <1>5, <1>6, <1>7, <1>8, <1>9 DEF Next, vars

(* The control plane implements the ledger of tickets: rows that wait are  *)
(* admitted one at a time, a run starts when no other run and no refresh   *)
(* has the channel, and each row ends once, whoever asks for what and      *)
(* whenever the server dies (submit_intent, promote_intent_to_running,     *)
(* mark_intent_finished, recover_intents).                                 *)
THEOREM ControlRefinesLedger == Spec => RefinesLedger
<1>1. Init => Ledger!Init
  BY DEF Init, Ledger!Init
<1>2. /\ IInv /\ LInv /\ [Next]_vars
      => [Ledger!Next]_<<status, refresh>>
  BY StepKeeps, StepRefines DEF LedgerSteps
<1> QED
  BY <1>1, <1>2, LedgerInvariance, PTL
     DEF Spec, RefinesLedger, Ledger!Spec

-----------------------------------------------------------------------------
(* The ledger on its own, of which the rows of the control plane are an    *)
(* instance: its statuses, and a move of one ticket that brings in a       *)
(* second queued or running one only into a place that was free.           *)
LedgerTyped ==
  status \in [Ids -> Ledger!Running \cup Ledger!Terminal \cup {"NONE", "QUEUED"}]
LedgerOrder == LedgerTyped /\ Ledger!OneAtATime

LEMMA MoveKeepsOrder ==
  ASSUME LedgerOrder, NEW x \in Ids, NEW from, NEW to, Ledger!Move(x, from, to),
         to \in Ledger!Running \cup Ledger!Terminal \cup {"QUEUED"},
         to = "QUEUED" => \A y \in Ids : status[y] # "QUEUED",
         to \in Ledger!Running => from \in Ledger!Running \/ Ledger!ChannelFree
  PROVE  LedgerOrder'
<1> USE DEF LedgerOrder, LedgerTyped, Ledger!Move, Ledger!Running, Ledger!Terminal
<1>1. LedgerTyped'
  OBVIOUS
<1>2. \A y, z \in Ids :
        status'[y] \in Ledger!Running /\ status'[z] \in Ledger!Running => y = z
  BY DEF Ledger!OneAtATime, Ledger!ChannelFree
<1>3. \A y, z \in Ids :
        status'[y] = "QUEUED" /\ status'[z] = "QUEUED" => y = z
  BY DEF Ledger!OneAtATime
<1>4. refresh' # "none" => \A y \in Ids : status'[y] \notin Ledger!Running
  BY DEF Ledger!OneAtATime, Ledger!ChannelFree
<1> QED  BY <1>1, <1>2, <1>3, <1>4 DEF Ledger!OneAtATime

(* Whatever order tickets come, start, are stopped and end in: one waits,  *)
(* one runs, and a refresh never shares the channel with a run.            *)
THEOREM LedgerInOrder == Ledger!Spec => []Ledger!OneAtATime
<1>1. Ledger!Init => LedgerOrder
  BY DEF Ledger!Init, LedgerOrder, LedgerTyped, Ledger!OneAtATime, Ledger!Running,
     Ledger!Terminal
<1>2. LedgerOrder /\ [Ledger!Next]_<<status, refresh>> => LedgerOrder'
  <2> SUFFICES ASSUME LedgerOrder, [Ledger!Next]_<<status, refresh>>
               PROVE  LedgerOrder'
    OBVIOUS
  <2>1. CASE \E x \in Ids : Ledger!Admit(x)
    BY <2>1, MoveKeepsOrder DEF Ledger!Admit, Ledger!Running
  <2>2. CASE \E x \in Ids : Ledger!Start(x)
    BY <2>2, MoveKeepsOrder DEF Ledger!Start, Ledger!Running
  <2>3. CASE \E x \in Ids : Ledger!RequestStop(x)
    BY <2>3, MoveKeepsOrder DEF Ledger!RequestStop, Ledger!Running
  <2>4. CASE \E x \in Ids : Ledger!Withdraw(x) \/ Ledger!Amend(x) \/ Ledger!Close(x)
    BY <2>4, MoveKeepsOrder DEF Ledger!Withdraw, Ledger!Amend, Ledger!Close,
       Ledger!Running, Ledger!Terminal
  <2>5. CASE Ledger!BeginRefresh \/ Ledger!EndRefresh
    BY <2>5 DEF Ledger!BeginRefresh, Ledger!EndRefresh, Ledger!ChannelFree, LedgerOrder,
       LedgerTyped, Ledger!OneAtATime
  <2>6. CASE UNCHANGED <<status, refresh>>
    BY <2>6 DEF LedgerOrder, LedgerTyped, Ledger!OneAtATime
  <2> QED  BY <2>1, <2>2, <2>3, <2>4, <2>5, <2>6 DEF Ledger!Next
<1>3. LedgerOrder => Ledger!OneAtATime
  BY DEF LedgerOrder
<1> QED  BY <1>1, <1>2, <1>3, PTL DEF Ledger!Spec

(* So the tickets of an account are in order: the promise of the ledger is *)
(* one of the control plane, because the control plane implements it.      *)
THEOREM TicketsInOrder == Spec => []Ledger!OneAtATime
  BY ControlRefinesLedger, LedgerInOrder, PTL DEF RefinesLedger
-----------------------------------------------------------------------------
(***************************************************************************)
(* The queued slot: a slot that names no waiting ticket is about to be     *)
(* given back, or its ticket was revoked without the lock.                 *)
(***************************************************************************)

(* A row that was closed, or has started.                                  *)
Gone(x) == status[x] \notin {"NONE", "QUEUED"}

(* Who is about to give the slot back: the coroutine that has just closed  *)
(* or claimed its ticket, still under the lock, or the finally clause.     *)
Cleaning ==
  \/ ctl.pc \in {"superseded", "claimed"} /\ ctl.x = queSlot
  \/ ctl.pc = "signal" /\ ctl.src = "queued" /\ ctl.x = queSlot
  \/ ctl.pc = "reap" /\ status[queSlot] = "TERMINATED"
  \/ task.pc = "unwind" /\ task.end # "retry" /\ task.id = queSlot

Slotted ==
  /\ queSlot # NoId =>
       status[queSlot] = "QUEUED" \/ Cleaning \/ Stranded(queSlot)
  /\ phase # "up" => queSlot = NoId

(* The slot is entered with the entry of its ticket.  A submission between *)
(* its commit and that still has a waiting ticket, unless this was revoked *)
(* without the lock or a dispatcher was faster, whose task then made the   *)
(* entry; a task keeps its entry.                                          *)
Entered ==
  /\ ctl.pc = "ensure" =>
       mem[ctl.x] # "ABSENT" \/ status[ctl.x] = "QUEUED" \/ Stranded(ctl.x)
  /\ task.pc \notin {"none", "bind", "bindRead", "done"} =>
       mem[task.id] # "ABSENT"
  /\ task.pc = "bindMark" => queSlot # task.id

(* What is being withdrawn does not wait any more, so that a cancelled     *)
(* task, which ends without its finally clause, leaves no slot behind.     *)
Withdrawn ==
  /\ ctl.pc \in {"superseded", "signal", "finalize"} => Gone(ctl.x)
  /\ task.pc # "none" /\ task.end = "cancelled" => Gone(task.id)
  /\ task.pc = "close" => task.end = "normal"

(* A ticket that may still wait has not started, nor has a stop of it been *)
(* recorded; what is being recorded as stopped has lost its slot.          *)
Unmarked ==
  /\ \A x \in Ids : ~Gone(x) => x \notin started /\ record[x] # "TERMINATED"
  /\ ctl.pc = "finalize" => queSlot # ctl.x

QInv == Slotted /\ Entered /\ Withdrawn /\ Unmarked

(* Whoever leaves rows, entries, the slot, the lock and the task alone.    *)
LEMMA OthersKeepQInv ==
  ASSUME QInv, UNCHANGED <<status, started, record, mem, queSlot, ctl, task, phase>>
  PROVE  QInv'
  BY DEF QInv, Slotted, Cleaning, Stranded, Entered, Withdrawn, Unmarked, Gone

(* A submission starts with the lock free.                                 *)
LEMMA SubmitBeginKeepsQInv ==
  ASSUME IInv, QInv, NEW r \in Asks, SubmitBegin(r[1], r[2])
  PROVE  QInv'
<1> USE DEF IInv, QInv, SubmitBegin, NoCtl
<1>1. Slotted'
  BY DEF Slotted, Cleaning, Stranded
<1>2. Entered'
  BY DEF Entered, Stranded
<1>3. Withdrawn'
  BY DEF Withdrawn, Gone
<1>4. Unmarked'
  BY DEF Unmarked, Gone
<1> QED  BY <1>1, <1>2, <1>3, <1>4

(* What a cancellation revokes it also reaps, still under the lock.        *)
LEMMA StopBeginKeepsQInv ==
  ASSUME IInv, QInv, NEW op \in {"cancel", "terminate"}, StopBegin(op)
  PROVE  QInv'
<1> USE DEF IInv, QInv, StopBegin, Revoked, NoCtl
<1>1. Slotted'
  BY DEF Slotted, Cleaning, Stranded, TypeOK, RegistryType, MaybeId
<1>2. Entered'
  BY DEF Entered, Stranded
<1>3. Withdrawn'
  BY DEF Withdrawn, Gone, Naming
<1>4. Unmarked'
  BY DEF Unmarked, Gone
<1> QED  BY <1>1, <1>2, <1>3, <1>4

(* What is revoked without the lock is stranded at worst.                  *)
LEMMA RevokeUnlockedKeepsQInv ==
  ASSUME IInv, QInv, "unlocked" \in Stops, RevokeUnlocked
  PROVE  QInv'
<1> USE DEF IInv, QInv, RevokeUnlocked, Revoked
<1>1. Slotted'
  BY DEF Slotted, Cleaning, Stranded, Unmarked, Gone, TypeOK, RegistryType, MaybeId
<1>2. Entered'
  BY DEF Entered, Stranded, Unmarked, Gone, Naming
<1>3. Withdrawn'
  BY DEF Withdrawn, Gone, Naming
<1>4. Unmarked'
  BY DEF Unmarked, Gone
<1> QED  BY <1>1, <1>2, <1>3, <1>4

(* A refused submission lets go of the lock.                               *)
LEMMA SubmitConflictKeepsQInv ==
  ASSUME IInv, QInv, SubmitConflict
  PROVE  QInv'
<1> USE DEF IInv, QInv, SubmitConflict, NoCtl
<1>1. Slotted'
  BY DEF Slotted, Cleaning, Stranded
<1>2. Entered'
  BY DEF Entered, Stranded
<1>3. Withdrawn'
  BY DEF Withdrawn, Gone
<1>4. Unmarked'
  BY DEF Unmarked, Gone
<1> QED  BY <1>1, <1>2, <1>3, <1>4

(* The submission goes on with the ticket that waits,                      *)
LEMMA SubmitCoalesceKeepsQInv ==
  ASSUME IInv, QInv, SubmitCoalesce
  PROVE  QInv'
<1> USE DEF IInv, QInv, SubmitCoalesce
<1>1. Slotted'
  BY DEF Slotted, Cleaning, Stranded
<1>2. Entered'
  BY DEF Entered, Stranded
<1>3. Withdrawn'
  BY DEF Withdrawn, Gone
<1>4. Unmarked'
  BY DEF Unmarked, Gone
<1> QED  BY <1>1, <1>2, <1>3, <1>4

(* or is going to replace it,                                              *)
LEMMA SubmitReplaceKeepsQInv ==
  ASSUME IInv, QInv, SubmitReplace
  PROVE  QInv'
<1> USE DEF IInv, QInv, SubmitReplace
<1>1. Slotted'
  BY DEF Slotted, Cleaning, Stranded
<1>2. Entered'
  BY DEF Entered, Stranded
<1>3. Withdrawn'
  BY DEF Withdrawn, Gone
<1>4. Unmarked'
  BY DEF Unmarked, Gone
<1> QED  BY <1>1, <1>2, <1>3, <1>4

(* or makes a new one.                                                     *)
LEMMA SubmitCreateKeepsQInv ==
  ASSUME IInv, QInv, SubmitCreate
  PROVE  QInv'
<1> USE DEF IInv, QInv, SubmitCreate
<1>1. Slotted'
  BY DEF Slotted, Cleaning, Stranded
<1>2. Entered'
  BY DEF Entered, Stranded
<1>3. Withdrawn'
  BY DEF Withdrawn, Gone
<1>4. Unmarked'
  BY DEF Unmarked, Gone
<1> QED  BY <1>1, <1>2, <1>3, <1>4

(* A shared ticket changes hands, not its slot.                            *)
LEMMA SubmitAttachKeepsQInv ==
  ASSUME IInv, QInv, SubmitAttach
  PROVE  QInv'
<1> USE DEF IInv, QInv, SubmitAttach, NoCtl
<1>1. Slotted'
  BY DEF Slotted, Cleaning, Stranded
<1>2. Entered'
  BY DEF Entered, Stranded
<1>3. Withdrawn'
  BY DEF Withdrawn, Gone
<1>4. Unmarked'
  BY DEF Unmarked, Gone
<1> QED  BY <1>1, <1>2, <1>3, <1>4

(* The new row waits.                                                      *)
LEMMA SubmitInsertKeepsQInv ==
  ASSUME IInv, QInv, SubmitInsert
  PROVE  QInv'
<1> USE DEF IInv, QInv, SubmitInsert, Fresh
<1>1. Slotted'
  BY DEF Slotted, Cleaning, Stranded
<1>2. Entered'
  BY DEF Entered, Stranded, TypeOK, DbType
<1>3. Withdrawn'
  BY DEF Withdrawn, Gone
<1>4. Unmarked'
  BY DEF Unmarked, Gone
<1> QED  BY <1>1, <1>2, <1>3, <1>4

(* A refused step leaves nothing.                                          *)
LEMMA SubmitRefuseStepKeepsQInv ==
  ASSUME IInv, QInv, SubmitRefuseStep
  PROVE  QInv'
<1> USE DEF IInv, QInv, SubmitRefuseStep, NoCtl
<1>1. Slotted'
  BY DEF Slotted, Cleaning, Stranded
<1>2. Entered'
  BY DEF Entered, Stranded
<1>3. Withdrawn'
  BY DEF Withdrawn, Gone
<1>4. Unmarked'
  BY DEF Unmarked, Gone
<1> QED  BY <1>1, <1>2, <1>3, <1>4

(* The slot gets a ticket that nobody but a task that entered it first can *)
(* have ended.                                                             *)
LEMMA SubmitEnsureKeepsQInv ==
  ASSUME IInv, QInv, SubmitEnsure
  PROVE  QInv'
<1> USE DEF IInv, QInv, SubmitEnsure, NoCtl
<1>1. CASE mem[ctl.x] = "ABSENT"
  <2>1. Slotted'
    BY <1>1 DEF Slotted, Entered, Stranded, Naming, Waiting
  <2>2. Entered'
    BY <1>1 DEF Entered, TypeOK, RegistryType, Naming, Withdrawn, Gone
  <2> QED  BY <1>1, <2>1, <2>2 DEF Withdrawn, Unmarked, Gone
<1>2. CASE mem[ctl.x] # "ABSENT"
  <2>1. UNCHANGED <<mem, queSlot>>
    BY <1>2
  <2>2. Slotted'
    BY <2>1 DEF Slotted, Cleaning, Stranded, Waiting
  <2> QED  BY <2>1, <2>2 DEF Entered, Withdrawn, Unmarked, Gone
<1> QED  BY <1>1, <1>2

(* The replaced ticket is about to lose its slot,                          *)
LEMMA SubmitSupersedeKeepsQInv ==
  ASSUME IInv, QInv, SubmitSupersede
  PROVE  QInv'
<1> USE DEF IInv, QInv, SubmitSupersede, Terminal, Completion
<1>1. Slotted'
  BY DEF Slotted, Cleaning, Stranded
<1>2. Entered'
  BY DEF Entered, Stranded
<1>3. Withdrawn'
  BY DEF Withdrawn, Gone, TypeOK, DbType, Naming
<1>4. Unmarked'
  BY DEF Unmarked, Gone
<1> QED  BY <1>1, <1>2, <1>3, <1>4

(* or is looked at again.                                                  *)
LEMMA SubmitSupersedeLostKeepsQInv ==
  ASSUME IInv, QInv, SubmitSupersedeLost
  PROVE  QInv'
<1> USE DEF IInv, QInv, SubmitSupersedeLost
<1>1. Slotted'
  BY DEF Slotted, Cleaning, Stranded
<1>2. Entered'
  BY DEF Entered, Stranded
<1>3. Withdrawn'
  BY DEF Withdrawn, Gone
<1>4. Unmarked'
  BY DEF Unmarked, Gone
<1> QED  BY <1>1, <1>2, <1>3, <1>4

(* It loses it.                                                            *)
LEMMA SubmitSupersededKeepsQInv ==
  ASSUME IInv, QInv, SubmitSuperseded
  PROVE  QInv'
<1> USE ControlAssumption DEF IInv, QInv, SubmitSuperseded, Requested,
  Cleared, Inserting
<1>1. Slotted'
  BY DEF Slotted, Cleaning, Stranded
<1>2. Entered'
  BY DEF Entered, Stranded, Naming
<1>3. Withdrawn'
  BY DEF Withdrawn, Gone
<1>4. Unmarked'
  BY DEF Unmarked, Gone, TypeOK, CtlType, Naming
<1> QED  BY <1>1, <1>2, <1>3, <1>4

(* The slot of a revoked ticket is dropped.                                *)
LEMMA StopReapKeepsQInv ==
  ASSUME IInv, QInv, StopReap
  PROVE  QInv'
<1> USE ControlAssumption DEF IInv, QInv, StopReap, ReapedMem, ReapedSlot,
  ReapWanted, NoCtl, DbRunning, DbQueued
<1>1. Slotted'
  BY DEF Slotted, Cleaning, Stranded
<1>2. Entered'
  BY DEF Entered, Stranded, Naming
<1>3. Withdrawn'
  BY DEF Withdrawn, Gone
<1>4. Unmarked'
  BY DEF Unmarked, Gone
<1> QED  BY <1>1, <1>2, <1>3, <1>4

(* A stopped ticket is about to lose its slot.                             *)
LEMMA StopQueuedKeepsQInv ==
  ASSUME IInv, QInv, StopQueued
  PROVE  QInv'
<1> USE DEF IInv, QInv, StopQueued, StopTarget
<1>1. Slotted'
  BY DEF Slotted, Cleaning, Stranded
<1>2. Entered'
  BY DEF Entered, Stranded
<1>3. Withdrawn'
  BY DEF Withdrawn, Gone, TypeOK, DbType, Naming
<1>4. Unmarked'
  BY DEF Unmarked, Gone
<1> QED  BY <1>1, <1>2, <1>3, <1>4

(* A run has no queued slot any more.                                      *)
LEMMA StopRunningKeepsQInv ==
  ASSUME IInv, QInv, StopRunning
  PROVE  QInv'
<1> USE DEF IInv, QInv, StopRunning, StopTarget, Running
<1>1. Slotted'
  BY DEF Slotted, Cleaning, Stranded
<1>2. Entered'
  BY DEF Entered, Stranded
<1>3. Withdrawn'
  BY DEF Withdrawn, Gone
<1>4. Unmarked'
  BY DEF Unmarked, Gone
<1> QED  BY <1>1, <1>2, <1>3, <1>4

(* Somebody else ends the ticket.                                          *)
LEMMA StopTooLateKeepsQInv ==
  ASSUME IInv, QInv, StopTooLate
  PROVE  QInv'
<1> USE DEF IInv, QInv, StopTooLate, StopTarget
<1>1. Slotted'
  BY DEF Slotted, Cleaning, Stranded
<1>2. Entered'
  BY DEF Entered, Stranded
<1>3. Withdrawn'
  BY DEF Withdrawn, Gone
<1>4. Unmarked'
  BY DEF Unmarked, Gone
<1> QED  BY <1>1, <1>2, <1>3, <1>4

(* It loses it.                                                            *)
LEMMA StopSignalKeepsQInv ==
  ASSUME IInv, QInv, StopSignal
  PROVE  QInv'
<1> USE ControlAssumption DEF IInv, QInv, StopSignal, Requested, Cleared,
  StopRest, NoCtl, TryRegister
<1>1. Slotted'
  BY DEF Slotted, Cleaning, Stranded
<1>2. Entered'
  BY DEF Entered, Stranded, Naming
<1>3. Withdrawn'
  BY DEF Withdrawn, Gone
<1>4. Unmarked'
  BY DEF Unmarked, Gone, TypeOK, CtlType, Naming
<1> QED  BY <1>1, <1>2, <1>3, <1>4

(* An entry is filled in.                                                  *)
LEMMA StopNoteKeepsQInv ==
  ASSUME IInv, QInv, StopNote
  PROVE  QInv'
<1> USE DEF IInv, QInv, StopNote, Requested, StopRest, NoCtl
<1>1. Slotted'
  BY DEF Slotted, Cleaning, Stranded
<1>2. Entered'
  BY DEF Entered, Stranded
<1>3. Withdrawn'
  BY DEF Withdrawn, Gone
<1>4. Unmarked'
  BY DEF Unmarked, Gone
<1> QED  BY <1>1, <1>2, <1>3, <1>4

(* The task of a ticket that has ended is cancelled.                       *)
LEMMA StopFinalizeKeepsQInv ==
  ASSUME IInv, QInv, StopFinalize
  PROVE  QInv'
<1> USE ControlAssumption DEF IInv, QInv, StopFinalize, Cancelled, Inserting,
  StopRest, NoCtl
<1>1. Slotted'
  BY DEF Slotted, Cleaning, Stranded, Unmarked, Recorded, Naming, TypeOK, DbType,
     RegistryType, MaybeId
<1>2. Entered'
  BY DEF Entered, Stranded, Naming
<1>3. Withdrawn'
  BY DEF Withdrawn, Gone
<1>4. Unmarked'
  BY DEF Unmarked, Gone, Withdrawn, Recorded, Naming, TypeOK, DbType
<1> QED  BY <1>1, <1>2, <1>3, <1>4

(* The dispatcher drops a slot.                                            *)
LEMMA DispDropKeepsQInv ==
  ASSUME IInv, QInv, DispDrop
  PROVE  QInv'
<1> USE DEF IInv, QInv, DispDrop, Cleared
<1>1. Slotted'
  BY DEF Slotted, Cleaning, Stranded
<1>2. Entered'
  BY DEF Entered, Stranded, Holding
<1>3. Withdrawn'
  BY DEF Withdrawn, Gone
<1>4. Unmarked'
  BY ControlAssumption DEF Unmarked, Gone, Naming
<1> QED  BY <1>1, <1>2, <1>3, <1>4

(* A new task has done nothing yet.                                        *)
LEMMA DispLaunchKeepsQInv ==
  ASSUME IInv, QInv, DispLaunch
  PROVE  QInv'
<1> USE DEF IInv, QInv, DispLaunch, NoTask, NothingToRun
<1>1. Slotted'
  BY DEF Slotted, Cleaning, Stranded, Holding
<1>2. Entered'
  BY DEF Entered, Stranded
<1>3. Withdrawn'
  BY DEF Withdrawn, Gone
<1>4. Unmarked'
  BY DEF Unmarked, Gone
<1> QED  BY <1>1, <1>2, <1>3, <1>4

(* A cancelled task belonged to a ticket that had ended.                   *)
LEMMA DispCollectKeepsQInv ==
  ASSUME IInv, QInv, DispCollect
  PROVE  QInv'
<1> USE DEF IInv, QInv, DispCollect, Finished, NoTask
<1>1. Slotted'
  BY DEF Slotted, Cleaning, Stranded, Withdrawn, Gone
<1>2. Entered'
  BY DEF Entered, Stranded, Withdrawn, Gone
<1>3. Withdrawn'
  BY DEF Withdrawn, Gone
<1>4. Unmarked'
  BY DEF Unmarked, Gone
<1> QED  BY <1>1, <1>2, <1>3, <1>4

(* A refused ticket loses its slot with its row.                           *)
LEMMA TaskRefusedKeepsQInv ==
  ASSUME IInv, QInv, TaskRefused
  PROVE  QInv'
<1> USE DEF IInv, QInv, TaskRefused, Finished, Cleared, TaskEnds
<1>1. Slotted'
  BY DEF Slotted, Cleaning, Stranded
<1>2. Entered'
  BY DEF Entered, Stranded
<1>3. Withdrawn'
  BY DEF Withdrawn
<1>4. Unmarked'
  BY DEF Unmarked, Gone
<1> QED  BY <1>1, <1>2, <1>3, <1>4

(* The claim takes the lock.                                               *)
LEMMA TaskPromoteKeepsQInv ==
  ASSUME IInv, QInv, TaskPromote
  PROVE  QInv'
<1> USE DEF IInv, QInv, TaskPromote, NoCtl
<1>1. Slotted'
  BY DEF Slotted, Cleaning, Stranded
<1>2. Entered'
  BY DEF Entered, Stranded
<1>3. Withdrawn'
  BY DEF Withdrawn, Gone
<1>4. Unmarked'
  BY DEF Unmarked, Gone
<1> QED  BY <1>1, <1>2, <1>3, <1>4

(* The task gives up or comes back later.                                  *)
LEMMA TaskNotPromotedKeepsQInv ==
  ASSUME IInv, QInv, TaskNotPromoted
  PROVE  QInv'
<1> USE DEF IInv, QInv, TaskNotPromoted, TaskEnds
<1>1. Slotted'
  BY DEF Slotted, Cleaning, Stranded
<1>2. Entered'
  BY DEF Entered, Stranded
<1>3. Withdrawn'
  BY DEF Withdrawn
<1>4. Unmarked'
  BY DEF Unmarked, Gone
<1> QED  BY <1>1, <1>2, <1>3, <1>4

(* The run is about to leave the queued slot.                              *)
LEMMA TaskClaimKeepsQInv ==
  ASSUME IInv, QInv, TaskClaim
  PROVE  QInv'
<1> USE DEF IInv, QInv, TaskClaim
<1>1. Slotted'
  BY DEF Slotted, Cleaning, Stranded
<1>2. Entered'
  BY DEF Entered, Stranded
<1>3. Withdrawn'
  BY DEF Withdrawn, Gone
<1>4. Unmarked'
  BY DEF Unmarked, Gone, TypeOK, DbType, Naming
<1> QED  BY <1>1, <1>2, <1>3, <1>4

(* A lost claim ends the task.                                             *)
LEMMA TaskClaimLostKeepsQInv ==
  ASSUME IInv, QInv, TaskClaimLost
  PROVE  QInv'
<1> USE DEF IInv, QInv, TaskClaimLost, TaskEnds, NoCtl
<1>1. Slotted'
  BY DEF Slotted, Cleaning, Stranded
<1>2. Entered'
  BY DEF Entered, Stranded, Holding
<1>3. Withdrawn'
  BY DEF Withdrawn
<1>4. Unmarked'
  BY DEF Unmarked, Gone
<1> QED  BY <1>1, <1>2, <1>3, <1>4

(* It leaves it.                                                           *)
LEMMA TaskClaimedKeepsQInv ==
  ASSUME IInv, QInv, TaskClaimed
  PROVE  QInv'
<1> USE DEF IInv, QInv, TaskClaimed, Cleared, TaskTo, NoCtl
<1>1. Slotted'
  BY DEF Slotted, Cleaning, Stranded, Holding
<1>2. Entered'
  BY DEF Entered, Stranded, Holding
<1>3. Withdrawn'
  BY DEF Withdrawn, Gone, Holding
<1>4. Unmarked'
  BY DEF Unmarked, Gone
<1> QED  BY <1>1, <1>2, <1>3, <1>4

(* A task whose ticket was stopped gives the slot back before it closes    *)
(* the row.                                                                *)
LEMMA TaskBindKeepsQInv ==
  ASSUME IInv, QInv, TaskBind
  PROVE  QInv'
<1> USE ControlAssumption DEF IInv, QInv, TaskBind, ReleaseSlots, Finalized,
  Cleared, TaskTo
<1>0. task.id \in Ids /\ UNCHANGED <<status, started, record, mem, ctl, phase>>
      /\ task'.id = task.id
      /\ task' = [task EXCEPT !.pc = task'.pc] /\ task'.end = task.end
  BY DEF TypeOK, TaskType, Naming
<1>1. CASE mem[task.id] = "TERMINATED"
  <2>1. task'.pc = "bindMark" /\ queSlot' = Cleared(queSlot, task.id)
    BY <1>1 DEF TypeOK, TaskType
  <2>2. queSlot' # task.id
    BY <2>1, <1>0
  <2>3. Slotted'
    BY <1>0, <2>1 DEF Slotted, Cleaning, Stranded
  <2>4. Entered'
    BY <1>0, <1>1, <2>1, <2>2 DEF Entered, Stranded
  <2>5. Withdrawn'
    BY <1>0, <2>1 DEF Withdrawn, Gone
  <2>6. Unmarked'
    BY <1>0, <2>1 DEF Unmarked, Gone, Naming
  <2> QED  BY <2>3, <2>4, <2>5, <2>6
<1>2. CASE mem[task.id] # "TERMINATED"
  <2>1. UNCHANGED queSlot /\ task'.pc \in {"calc", "bindRead"}
        /\ (task'.pc = "calc" => mem[task.id] # "ABSENT")
    BY <1>2 DEF TypeOK, TaskType
  <2>2. Slotted'
    BY <1>0, <2>1 DEF Slotted, Cleaning, Stranded
  <2>3. Entered'
    BY <1>0, <2>1 DEF Entered, Stranded
  <2>4. Withdrawn'
    BY <1>0, <2>1 DEF Withdrawn, Gone
  <2>5. Unmarked'
    BY <1>0, <2>1 DEF Unmarked, Gone
  <2> QED  BY <2>2, <2>3, <2>4, <2>5
<1> QED  BY <1>1, <1>2

(* A task enters its ticket if that still waits.                           *)
LEMMA TaskBindReadKeepsQInv ==
  ASSUME IInv, QInv, TaskBindRead
  PROVE  QInv'
<1> USE DEF IInv, QInv, TaskBindRead, ReleaseSlots, Finalized, Cleared, TaskTo
<1>0. task.id \in Ids /\ UNCHANGED <<status, started, record, ctl, phase>>
      /\ task'.id = task.id
      /\ task'.end = task.end
  BY DEF TypeOK, TaskType, Naming
<1>1. CASE status[task.id] = "QUEUED"
  <2>1. task'.pc = "calc"
    BY <1>1 DEF TypeOK, TaskType
  <2>2. Withdrawn'
    BY <1>0, <2>1 DEF Withdrawn, Gone
  <2>3. CASE mem[task.id] = "ABSENT"
    <3>1. mem' = [mem EXCEPT ![task.id] = "QUEUED"] /\ queSlot' = task.id
      BY <1>1, <2>3
    <3>2. Slotted'
      BY <1>0, <1>1, <3>1 DEF Slotted, Waiting, Cleaning
    <3>3. Entered'
      BY <1>0, <2>1, <3>1 DEF Entered, Stranded, TypeOK, RegistryType, Naming
    <3>4. Unmarked'
      BY <1>0, <1>1, <3>1 DEF Unmarked, Gone, Withdrawn
    <3> QED  BY <2>2, <3>2, <3>3, <3>4
  <2>4. CASE mem[task.id] # "ABSENT"
    <3>1. mem' = mem /\ queSlot' = queSlot
      BY <1>1, <2>4, Zenon
    <3> QED  BY <1>0, <2>1, <2>4, <2>2, <3>1 DEF Slotted, Cleaning, Stranded, Entered,
              Unmarked, Gone
  <2> QED  BY <2>3, <2>4
<1>2. CASE status[task.id] # "QUEUED"
  <2>1. task'.pc = "done" /\ UNCHANGED mem /\ queSlot' = Cleared(queSlot,
        task.id)
    BY <1>2 DEF TypeOK, TaskType
  <2>2. Slotted'
    BY <1>0, <2>1 DEF Slotted, Cleaning, Stranded
  <2>3. Entered'
    BY <1>0, <2>1 DEF Entered, Stranded
  <2>4. Withdrawn'
    BY <1>0, <2>1 DEF Withdrawn, Gone
  <2>5. Unmarked'
    BY ControlAssumption, <1>0, <2>1 DEF Unmarked, Gone, Naming
  <2> QED  BY <2>2, <2>3, <2>4, <2>5
<1> QED  BY <1>1, <1>2

(* It closes the row.                                                      *)
LEMMA TaskBindMarkKeepsQInv ==
  ASSUME IInv, QInv, TaskBindMark
  PROVE  QInv'
<1> USE DEF IInv, QInv, TaskBindMark, Finished, TaskTo
<1>1. Slotted'
  BY DEF Slotted, Cleaning, Stranded, Entered
<1>2. Entered'
  BY DEF Entered, Stranded
<1>3. Withdrawn'
  BY DEF Withdrawn, Gone
<1>4. Unmarked'
  BY DEF Unmarked, Gone
<1> QED  BY <1>1, <1>2, <1>3, <1>4

(* Computing touches neither.                                              *)
LEMMA TaskCalculateKeepsQInv ==
  ASSUME IInv, QInv, TaskCalculate
  PROVE  QInv'
<1> USE DEF IInv, QInv, TaskCalculate, TaskTo
<1>1. Slotted'
  BY DEF Slotted, Cleaning, Stranded
<1>2. Entered'
  BY DEF Entered, Stranded
<1>3. Withdrawn'
  BY DEF Withdrawn, Gone
<1>4. Unmarked'
  BY DEF Unmarked, Gone
<1> QED  BY <1>1, <1>2, <1>3, <1>4

(* The record is written,                                                  *)
LEMMA TaskRecordKeepsQInv ==
  ASSUME IInv, QInv, NEW o \in Results, TaskRecord(o)
  PROVE  QInv'
<1> USE DEF IInv, QInv, TaskRecord, Results
<1>1. Slotted'
  BY DEF Slotted, Cleaning, Stranded, Recorded, Naming, Holding, Running,
     TypeOK, DbType, RegistryType, MaybeId
<1>2. Entered'
  BY DEF Entered, Stranded, Recorded, Naming, Holding, Running, TypeOK, DbType
<1>3. Withdrawn'
  BY DEF Withdrawn, Gone
<1>4. Unmarked'
  BY DEF Unmarked, Gone, Recorded, Naming, Holding, Running, TypeOK, DbType
<1> QED  BY <1>1, <1>2, <1>3, <1>4

(* then the registry is told,                                              *)
LEMMA TaskTellKeepsQInv ==
  ASSUME IInv, QInv, TaskTell
  PROVE  QInv'
<1> USE DEF IInv, QInv, TaskTell, TaskTo
<1>1. Slotted'
  BY DEF Slotted, Cleaning, Stranded
<1>2. Entered'
  BY DEF Entered, Stranded, TypeOK, TaskType, Terminal, Completion
<1>3. Withdrawn'
  BY DEF Withdrawn, Gone
<1>4. Unmarked'
  BY DEF Unmarked, Gone
<1> QED  BY <1>1, <1>2, <1>3, <1>4

(* then the row is looked at,                                              *)
LEMMA TaskLookKeepsQInv ==
  ASSUME IInv, QInv, TaskLook
  PROVE  QInv'
<1> USE DEF IInv, QInv, TaskLook
<1>1. Slotted'
  BY DEF Slotted, Cleaning, Stranded
<1>2. Entered'
  BY DEF Entered, Stranded
<1>3. Withdrawn'
  BY DEF Withdrawn, Gone
<1>4. Unmarked'
  BY DEF Unmarked, Gone
<1> QED  BY <1>1, <1>2, <1>3, <1>4

(* then it is closed, and the finally clause comes next.                   *)
LEMMA TaskMarkKeepsQInv ==
  ASSUME IInv, QInv, TaskMark
  PROVE  QInv'
<1> USE DEF IInv, QInv, TaskMark, TaskTo
<1>1. Slotted'
  BY DEF Slotted, Cleaning, Stranded, Withdrawn
<1>2. Entered'
  BY DEF Entered, Stranded
<1>3. Withdrawn'
  BY DEF Withdrawn, Gone, TypeOK, Naming, TaskType, Terminal, Completion
<1>4. Unmarked'
  BY DEF Unmarked, Gone, TypeOK, DbType, Naming, TaskType, Terminal, Completion
<1> QED  BY <1>1, <1>2, <1>3, <1>4

(* The finally clause gives the slot back.                                 *)
LEMMA TaskUnwindKeepsQInv ==
  ASSUME IInv, QInv, TaskUnwind
  PROVE  QInv'
<1> USE DEF IInv, QInv, TaskUnwind, ReleaseSlots, Finalized, Cleared, TaskTo
<1>1. Slotted'
  BY DEF Slotted, Cleaning, Stranded
<1>2. Entered'
  BY DEF Entered, Stranded
<1>3. Withdrawn'
  BY DEF Withdrawn, Gone
<1>4. Unmarked'
  BY ControlAssumption DEF Unmarked, Gone, Naming
<1> QED  BY <1>1, <1>2, <1>3, <1>4

(* A timer never takes the entry of a ticket in somebody's hands.          *)
LEMMA EvictKeepsQInv ==
  ASSUME IInv, QInv, NEW x \in Ids, Evict(x)
  PROVE  QInv'
<1> USE DEF IInv, QInv, Evict, Terminal, Completion
<1>1. Slotted'
  BY DEF Slotted, Cleaning, Stranded
<1>2. Entered'
  BY DEF Entered, Stranded
<1>3. Withdrawn'
  BY DEF Withdrawn, Gone
<1>4. Unmarked'
  BY DEF Unmarked, Gone
<1> QED  BY <1>1, <1>2, <1>3, <1>4

(* A crash empties the registry.                                           *)
LEMMA CrashKeepsQInv ==
  ASSUME IInv, QInv, Crash
  PROVE  QInv'
<1> USE DEF IInv, QInv, Crash, NoCtl, NoTask
<1>1. Slotted'
  BY DEF Slotted, Stranded
<1>2. Entered'
  BY DEF Entered, Stranded
<1>3. Withdrawn'
  BY DEF Withdrawn
<1>4. Unmarked'
  BY DEF Unmarked, Gone
<1> QED  BY <1>1, <1>2, <1>3, <1>4

(* Recovery starts without slots,                                          *)
LEMMA RecoverSupplementsKeepsQInv ==
  ASSUME IInv, QInv, RecoverSupplements
  PROVE  QInv'
<1> USE DEF IInv, QInv, RecoverSupplements, Revoked
<1>1. Slotted'
  BY DEF Slotted, Stranded
<1>2. Entered'
  BY DEF Entered, Stranded, Waiting
<1>3. Withdrawn'
  BY DEF Withdrawn, Waiting
<1>4. Unmarked'
  BY DEF Unmarked, Gone
<1> QED  BY <1>1, <1>2, <1>3, <1>4

(* closes what ran,                                                        *)
LEMMA RecoverInterruptedKeepsQInv ==
  ASSUME IInv, QInv, RecoverInterrupted
  PROVE  QInv'
<1> USE DEF IInv, QInv, RecoverInterrupted, Finished
<1>1. Slotted'
  BY DEF Slotted, Stranded
<1>2. Entered'
  BY DEF Entered, Stranded, Waiting
<1>3. Withdrawn'
  BY DEF Withdrawn, Gone
<1>4. Unmarked'
  BY DEF Unmarked, Gone
<1> QED  BY <1>1, <1>2, <1>3, <1>4

(* records it,                                                             *)
LEMMA RecoverRecordKeepsQInv ==
  ASSUME IInv, QInv, RecoverRecord
  PROVE  QInv'
<1> USE DEF IInv, QInv, RecoverRecord, Cleared
<1>1. Slotted'
  BY DEF Slotted, Stranded
<1>2. Entered'
  BY DEF Entered, Stranded, Waiting
<1>3. Withdrawn'
  BY DEF Withdrawn, Gone
<1>4. Unmarked'
  BY DEF Unmarked, Gone, Recorded, Waiting, TypeOK, DbType, LifeType, MaybeId
<1> QED  BY <1>1, <1>2, <1>3, <1>4

(* and enters the ticket that waits.                                       *)
LEMMA RecoverQueuedKeepsQInv ==
  ASSUME IInv, QInv, RecoverQueued
  PROVE  QInv'
<1> USE ControlAssumption, QueuedFound DEF IInv, QInv, RecoverQueued
<1>1. Slotted'
  BY DEF Slotted, Stranded
<1>2. Entered'
  BY DEF Entered, Stranded, Waiting
<1>3. Withdrawn'
  BY DEF Withdrawn, Gone
<1>4. Unmarked'
  BY DEF Unmarked, Gone, Waiting
<1> QED  BY <1>1, <1>2, <1>3, <1>4

(* So the invariant of the slot is inductive.                              *)
LEMMA StepKeepsQInv == IInv /\ QInv /\ [Next]_vars => QInv'
<1> SUFFICES ASSUME IInv, QInv, [Next]_vars PROVE QInv'
  OBVIOUS
<1>1. CASE Requesting
  <2>1. CASE \E r \in {"asset", "target"} : RefreshBegin(r)
    BY <2>1, OthersKeepQInv DEF RefreshBegin
  <2> QED
    BY <1>1, <2>1, SubmitBeginKeepsQInv, StopBeginKeepsQInv,
       RevokeUnlockedKeepsQInv DEF Requesting
<1>2. CASE Admission
  BY <1>2, SubmitConflictKeepsQInv, SubmitCoalesceKeepsQInv,
     SubmitReplaceKeepsQInv, SubmitCreateKeepsQInv, SubmitAttachKeepsQInv,
     SubmitInsertKeepsQInv, SubmitRefuseStepKeepsQInv,
     SubmitEnsureKeepsQInv, SubmitSupersedeKeepsQInv,
     SubmitSupersedeLostKeepsQInv, SubmitSupersededKeepsQInv DEF Admission
<1>3. CASE Stopping
  BY <1>3, StopReapKeepsQInv, StopQueuedKeepsQInv, StopRunningKeepsQInv,
     StopTooLateKeepsQInv, StopSignalKeepsQInv, StopNoteKeepsQInv,
     StopFinalizeKeepsQInv DEF Stopping
<1>4. CASE Dispatching \/ Leaving
  <2>1. CASE DispLoad \/ DispExit \/ Leaving
    BY <2>1, OthersKeepQInv DEF DispLoad, DispExit, Leaving, LeaveLoad,
       LeaveDecide
  <2> QED
    BY <1>4, <2>1, DispDropKeepsQInv, DispLaunchKeepsQInv,
       DispCollectKeepsQInv DEF Dispatching
<1>5. CASE Promoting \/ Claiming
  BY <1>5, TaskRefusedKeepsQInv, TaskPromoteKeepsQInv,
     TaskNotPromotedKeepsQInv, TaskClaimKeepsQInv, TaskClaimLostKeepsQInv,
     TaskClaimedKeepsQInv DEF Promoting, Claiming
<1>6. CASE Executing
  BY <1>6, TaskBindKeepsQInv, TaskBindReadKeepsQInv, TaskBindMarkKeepsQInv,
     TaskCalculateKeepsQInv, TaskRecordKeepsQInv, TaskTellKeepsQInv,
     TaskLookKeepsQInv, TaskMarkKeepsQInv, TaskUnwindKeepsQInv DEF Executing
<1>7. CASE RefreshEnd \/ (\E x \in Ids : Evict(x)) \/ Crash
  <2>1. CASE RefreshEnd
    BY <2>1, OthersKeepQInv DEF RefreshEnd
  <2> QED  BY <1>7, <2>1, EvictKeepsQInv, CrashKeepsQInv
<1>8. CASE Recovering
  BY <1>8, RecoverSupplementsKeepsQInv, RecoverInterruptedKeepsQInv,
     RecoverRecordKeepsQInv, RecoverQueuedKeepsQInv DEF Recovering
<1>9. CASE UNCHANGED vars
  BY <1>9, OthersKeepQInv DEF vars
<1> QED
  BY <1>1, <1>2, <1>3, <1>4, <1>5, <1>6, <1>7, <1>8, <1>9 DEF Next

(* The queued slot of an idle account names a ticket that waits, whatever  *)
(* is submitted, stopped, replaced or interrupted before, unless its       *)
(* ticket was revoked without account_lock, before it started and without  *)
(* having been stopped or replaced (the one-click clear and the close of   *)
(* an over session do that, and leave the slot).                           *)
THEOREM QueuedSlotIsRight == Spec => []QueuedSlotIsReal
<1>1. Init => QInv
  BY DEF Init, QInv, Slotted, Entered, Withdrawn, Unmarked, NoCtl, NoTask
<1>2. IInv /\ QInv /\ [Next]_vars => QInv'
  BY StepKeepsQInv
<1>3. QInv => QueuedSlotIsReal
  BY DEF QInv, Slotted, Cleaning, QueuedSlotIsReal, Quiet
<1> QED  BY Invariance, <1>1, <1>2, <1>3, PTL DEF Spec
=============================================================================
