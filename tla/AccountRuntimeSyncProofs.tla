----------------------- MODULE AccountRuntimeSyncProofs -----------------------
(***************************************************************************)
(* What "synchronized" means, for any cron expressions and channels and    *)
(* any number of changes, clears and crashes.                              *)
(***************************************************************************)
EXTENDS AccountRuntimeSync, TLAPS

(* An attempt that has begun.                                              *)
Begun == Attempting /\ run.pc # "begin"

(* Each kind of holder has steps of its own.                               *)
Steps ==
  /\ Attempting => run.pc \in {"begin", "apply", "drop", "prepare", "finish"}
  /\ run.kind = "delete" => run.pc \in {"begin", "job", "worker"}
  /\ run.pc = "finish" => run.result \in Results
  /\ clears = 0 => clear = NoClear

(* Revisions only grow while the account exists, and a rebuild that was    *)
(* not done is still asked for.                                            *)
Numbers ==
  /\ ~alive => rev = 0
  /\ alive => need <= rev /\ dropped <= rev
  /\ alive => reset \/ need <= dropped

(* While an attempt is on its way the row is pending; as long as nothing   *)
(* was registered since, its snapshot is what the account is.              *)
Held ==
  Begun =>
    /\ alive /\ state = "pending" /\ rev # 0
    /\ run.rev <= rev /\ dropped <= run.rev
    /\ run.rev = rev /\ clears = 0 => run.sched = sched
    /\ run.rev = rev /\ reset => run.reset

(* What the steps of such an attempt have achieved so far.                 *)
Succeeding == run.pc = "finish" /\ run.result = "synchronized"
Achieved ==
  Begun /\ run.rev = rev =>
    /\ (run.pc \in {"drop", "prepare"} \/ Succeeding) /\ clears = 0
         => job = JobOf(sched)
    /\ run.pc = "prepare" \/ Succeeding => need <= dropped

(* The deletion holds the lock until nothing is left.                      *)
Deleting(pcs) == run.kind = "delete" /\ run.pc \in pcs
Gone ==
  /\ Deleting({"job", "worker"}) => ~alive
  /\ ~alive => /\ job = NoJob \/ Deleting({"job"})
               /\ ~worker \/ Deleting({"job", "worker"})

SyncInv ==
  /\ TypeOK /\ Steps /\ Numbers /\ Held /\ Achieved /\ Gone
  /\ SyncedJob /\ RebuildDone

USE RuntimeAssumption DEF dbVars, rowVars, liveVars, histVars

(* A merged schedule is a schedule.                                        *)
LEMMA MergedTyped ==
  ASSUME NEW s \in Schedules, NEW ask \in Asks
  PROVE  Merged(s, ask) \in Schedules
<1>1. ask.to = "cron" => ask.cron \in Crons
  BY DEF Asks
<1> QED  BY <1>1 DEF Merged, Schedules

(* A request changes nothing yet.                                          *)
LEMMA RetryKeeps ==
  ASSUME SyncInv, Retry
  PROVE  SyncInv'
<1> USE DEF SyncInv, Retry, Attempting, At, Free, Begun, Succeeding, Deleting
<1>1. TypeOK'
  BY DEF TypeOK, RowType, RunType
<1>2. Steps'
  BY DEF Steps
<1>3. Numbers' /\ Held'
  BY DEF Numbers, Held
<1>4. Achieved'
  BY DEF Achieved
<1>5. Gone'
  BY DEF Gone
<1>6. SyncedJob' /\ RebuildDone'
  BY DEF SyncedJob, RebuildDone, JobOf
<1> QED  BY <1>1, <1>2, <1>3, <1>4, <1>5, <1>6

(* A new holder has not begun.                                             *)
LEMMA LockTakeKeeps ==
  ASSUME SyncInv, NEW k \in Requests, LockTake(k)
  PROVE  SyncInv'
<1> USE DEF SyncInv, LockTake, Attempting, At, Free, Begun, Succeeding,
             Deleting
<1>1. TypeOK'
  <2>1. RowType'
    BY DEF TypeOK, RowType
  <2>2. RunType'
    BY DEF RunType, Schedules
  <2>3. /\ job' \in Crons /\ worker' \in BOOLEAN
        /\ recovering' \in BOOLEAN /\ waiting' \in BOOLEAN
    BY DEF TypeOK
  <2>4. patch' \in {NoPatch}
                     \cup [pc : {"commit"}, ask : Asks, seen : Schedules]
    BY DEF TypeOK
  <2>5. clear' \in {NoClear, [pc |-> "job"]}
                     \cup [pc : {"commit"}, seen : Schedules]
    BY DEF TypeOK
  <2>6. need' \in Nat /\ dropped' \in Nat /\ clears' \in Nat /\ crashes' \in Nat
    BY DEF TypeOK
  <2> QED  BY <2>1, <2>2, <2>3, <2>4, <2>5, <2>6 DEF TypeOK
<1>2. Steps'
  BY DEF Steps
<1>3. Numbers' /\ Held'
  BY DEF Numbers, Held
<1>4. Achieved'
  BY DEF Achieved
<1>5. Gone'
  BY DEF Gone
<1>6. SyncedJob' /\ RebuildDone'
  BY DEF SyncedJob, RebuildDone, JobOf
<1> QED  BY <1>1, <1>2, <1>3, <1>4, <1>5, <1>6

(* The snapshot is the account.                                            *)
LEMMA BeginKeeps ==
  ASSUME SyncInv, Begin
  PROVE  SyncInv'
<1> USE DEF SyncInv, Begin, Snapshot, Attempting, At, Free, Begun, Succeeding,
             Deleting
<1>1. TypeOK'
  <2>1. RowType'
    BY DEF TypeOK, RowType, Results
  <2>2. RunType'
    BY DEF TypeOK, RowType, RunType
  <2>3. /\ job' \in Crons /\ worker' \in BOOLEAN
        /\ recovering' \in BOOLEAN /\ waiting' \in BOOLEAN
    BY DEF TypeOK
  <2>4. patch' \in {NoPatch}
                     \cup [pc : {"commit"}, ask : Asks, seen : Schedules]
    BY DEF TypeOK
  <2>5. clear' \in {NoClear, [pc |-> "job"]}
                     \cup [pc : {"commit"}, seen : Schedules]
    BY DEF TypeOK
  <2>6. need' \in Nat /\ dropped' \in Nat /\ clears' \in Nat /\ crashes' \in Nat
    BY DEF TypeOK
  <2> QED  BY <2>1, <2>2, <2>3, <2>4, <2>5, <2>6 DEF TypeOK
<1>2. Steps'
  BY DEF Steps
<1>3. Numbers' /\ Held'
  BY DEF TypeOK, RowType, Numbers, Held
<1>4. Achieved'
  BY DEF Achieved
<1>5. Gone'
  BY DEF Gone
<1>6. SyncedJob' /\ RebuildDone'
  BY DEF SyncedJob, RebuildDone, JobOf
<1> QED  BY <1>1, <1>2, <1>3, <1>4, <1>5, <1>6

(* The lock is given back.                                                 *)
LEMMA BeginSkipKeeps ==
  ASSUME SyncInv, BeginSkip
  PROVE  SyncInv'
<1> USE DEF SyncInv, BeginSkip, Attempting, At, Free, Begun, Succeeding,
             Deleting
<1>1. TypeOK'
  BY DEF TypeOK, RowType, RunType, Schedules
<1>2. Steps'
  BY DEF Steps
<1>3. Numbers' /\ Held'
  BY DEF Numbers, Held
<1>4. Achieved'
  BY DEF Achieved
<1>5. Gone'
  BY DEF Gone
<1>6. SyncedJob' /\ RebuildDone'
  BY DEF SyncedJob, RebuildDone, JobOf
<1> QED  BY <1>1, <1>2, <1>3, <1>4, <1>5, <1>6

(* The job of the snapshot is in the scheduler.                            *)
LEMMA ApplyKeeps ==
  ASSUME SyncInv, Apply
  PROVE  SyncInv'
<1> USE DEF SyncInv, Apply, Attempting, At, Free, Begun, Succeeding, Deleting
<1>1. TypeOK'
  BY DEF TypeOK, RowType, RunType, Schedules, JobOf
<1>2. Steps'
  BY DEF Steps
<1>3. Numbers' /\ Held'
  BY DEF Numbers, Held
<1>4. Achieved'
  BY DEF Held, Achieved
<1>5. Gone'
  BY DEF Held, Gone
<1>6. SyncedJob' /\ RebuildDone'
  BY DEF Held, SyncedJob, RebuildDone, JobOf
<1> QED  BY <1>1, <1>2, <1>3, <1>4, <1>5, <1>6

(* A failed attempt claims nothing.                                        *)
LEMMA ApplyFailsKeeps ==
  ASSUME SyncInv, ApplyFails
  PROVE  SyncInv'
<1> USE DEF SyncInv, ApplyFails, Failing, Attempting, At, Free, Begun,
             Succeeding, Deleting
<1>1. TypeOK'
  <2>1. RowType'
    BY DEF TypeOK, RowType
  <2>2. RunType'
    BY DEF TypeOK, RunType, Results
  <2>3. /\ job' \in Crons /\ worker' \in BOOLEAN
        /\ recovering' \in BOOLEAN /\ waiting' \in BOOLEAN
    BY DEF TypeOK
  <2>4. patch' \in {NoPatch}
                     \cup [pc : {"commit"}, ask : Asks, seen : Schedules]
    BY DEF TypeOK
  <2>5. clear' \in {NoClear, [pc |-> "job"]}
                     \cup [pc : {"commit"}, seen : Schedules]
    BY DEF TypeOK
  <2>6. need' \in Nat /\ dropped' \in Nat /\ clears' \in Nat /\ crashes' \in Nat
    BY DEF TypeOK
  <2> QED  BY <2>1, <2>2, <2>3, <2>4, <2>5, <2>6 DEF TypeOK
<1>2. Steps'
  BY DEF Steps, Results
<1>3. Numbers' /\ Held'
  BY DEF Numbers, Held
<1>4. Achieved'
  BY DEF Achieved
<1>5. Gone'
  BY DEF Gone
<1>6. SyncedJob' /\ RebuildDone'
  BY DEF Held, SyncedJob, RebuildDone, JobOf
<1> QED  BY <1>1, <1>2, <1>3, <1>4, <1>5, <1>6

(* The worker of before is gone if a rebuild is still asked for.           *)
LEMMA DropKeeps ==
  ASSUME SyncInv, Drop
  PROVE  SyncInv'
<1> USE DEF SyncInv, Drop, Rebuild, Attempting, At, Free, Begun, Succeeding,
             Deleting
<1>1. TypeOK'
  <2>1. RowType'
    BY DEF TypeOK, RowType
  <2>2. RunType'
    BY DEF TypeOK, RunType
  <2>3. /\ job' \in Crons /\ worker' \in BOOLEAN
        /\ recovering' \in BOOLEAN /\ waiting' \in BOOLEAN
    BY DEF TypeOK
  <2>4. patch' \in {NoPatch}
                     \cup [pc : {"commit"}, ask : Asks, seen : Schedules]
    BY DEF TypeOK
  <2>5. clear' \in {NoClear, [pc |-> "job"]}
                     \cup [pc : {"commit"}, seen : Schedules]
    BY DEF TypeOK
  <2>6. need' \in Nat /\ dropped' \in Nat /\ clears' \in Nat /\ crashes' \in Nat
    BY DEF TypeOK, RunType
  <2> QED  BY <2>1, <2>2, <2>3, <2>4, <2>5, <2>6 DEF TypeOK
<1>2. Steps'
  BY DEF Steps
<1>3. Numbers' /\ Held'
  BY DEF TypeOK, RunType, Numbers, Held
<1>4. Achieved'
  BY DEF Numbers, Held, Achieved
<1>5. Gone'
  BY DEF Gone
<1>6. SyncedJob' /\ RebuildDone'
  BY DEF Held, SyncedJob, RebuildDone, JobOf
<1> QED  BY <1>1, <1>2, <1>3, <1>4, <1>5, <1>6

(* Connecting does not disturb what was achieved.                          *)
LEMMA PrepareKeeps ==
  ASSUME SyncInv, Prepare
  PROVE  SyncInv'
<1> USE DEF SyncInv, Prepare, Prepares, Attempting, At, Free, Begun,
             Succeeding, Deleting
<1>1. TypeOK'
  <2>1. RowType'
    BY DEF TypeOK, RowType
  <2>2. RunType'
    BY DEF TypeOK, RunType, Results
  <2>3. /\ job' \in Crons /\ worker' \in BOOLEAN
        /\ recovering' \in BOOLEAN /\ waiting' \in BOOLEAN
    BY DEF TypeOK
  <2>4. patch' \in {NoPatch}
                     \cup [pc : {"commit"}, ask : Asks, seen : Schedules]
    BY DEF TypeOK
  <2>5. clear' \in {NoClear, [pc |-> "job"]}
                     \cup [pc : {"commit"}, seen : Schedules]
    BY DEF TypeOK
  <2>6. need' \in Nat /\ dropped' \in Nat /\ clears' \in Nat /\ crashes' \in Nat
    BY DEF TypeOK
  <2> QED  BY <2>1, <2>2, <2>3, <2>4, <2>5, <2>6 DEF TypeOK
<1>2. Steps'
  BY DEF Steps, Results
<1>3. Numbers' /\ Held'
  BY DEF Numbers, Held
<1>4. Achieved'
  BY DEF Achieved
<1>5. Gone'
  BY DEF Held, Gone
<1>6. SyncedJob' /\ RebuildDone'
  BY DEF SyncedJob, RebuildDone, JobOf
<1> QED  BY <1>1, <1>2, <1>3, <1>4, <1>5, <1>6

(* A failed attempt claims nothing.                                        *)
LEMMA PrepareFailsKeeps ==
  ASSUME SyncInv, PrepareFails
  PROVE  SyncInv'
<1> USE DEF SyncInv, PrepareFails, Prepares, Attempting, At, Free, Begun,
             Succeeding, Deleting
<1>1. TypeOK'
  <2>1. RowType'
    BY DEF TypeOK, RowType
  <2>2. RunType'
    <3>1. PICK r \in {"failed", "pending"} : run' = [run EXCEPT !.pc = "finish", !.result = r]
      OBVIOUS
    <3>2. QED  BY <3>1 DEF TypeOK, RunType, Results
  <2>3. /\ job' \in Crons /\ worker' \in BOOLEAN
        /\ recovering' \in BOOLEAN /\ waiting' \in BOOLEAN
    BY DEF TypeOK
  <2>4. patch' \in {NoPatch}
                     \cup [pc : {"commit"}, ask : Asks, seen : Schedules]
    BY DEF TypeOK
  <2>5. clear' \in {NoClear, [pc |-> "job"]}
                     \cup [pc : {"commit"}, seen : Schedules]
    BY DEF TypeOK
  <2>6. need' \in Nat /\ dropped' \in Nat /\ clears' \in Nat /\ crashes' \in Nat
    BY DEF TypeOK
  <2> QED  BY <2>1, <2>2, <2>3, <2>4, <2>5, <2>6 DEF TypeOK
<1>2. Steps'
  BY DEF Steps, Results
<1>3. Numbers' /\ Held'
  BY DEF Numbers, Held
<1>4. Achieved'
  BY DEF Achieved
<1>5. Gone'
  BY DEF Held, Gone
<1>6. SyncedJob' /\ RebuildDone'
  BY DEF SyncedJob, RebuildDone, JobOf
<1> QED  BY <1>1, <1>2, <1>3, <1>4, <1>5, <1>6

(* Only an attempt of the current revision reports success.                *)
LEMMA FinishKeeps ==
  ASSUME SyncInv, Finish
  PROVE  SyncInv'
<1> USE DEF SyncInv, Finish, WriteBack, Attempting, At, Free, Begun,
             Succeeding, Deleting
<1>1. TypeOK'
  <2>1. RowType'
    BY DEF TypeOK, RowType, RunType, Results, Steps, Held
  <2>2. RunType'
    BY DEF RunType, Requests, Schedules
  <2>3. /\ job' \in Crons /\ worker' \in BOOLEAN
        /\ recovering' \in BOOLEAN /\ waiting' \in BOOLEAN
    BY DEF TypeOK
  <2>4. patch' \in {NoPatch}
                     \cup [pc : {"commit"}, ask : Asks, seen : Schedules]
    BY DEF TypeOK
  <2>5. clear' \in {NoClear, [pc |-> "job"]}
                     \cup [pc : {"commit"}, seen : Schedules]
    BY DEF TypeOK
  <2>6. need' \in Nat /\ dropped' \in Nat /\ clears' \in Nat /\ crashes' \in Nat
    BY DEF TypeOK
  <2> QED  BY <2>1, <2>2, <2>3, <2>4, <2>5, <2>6 DEF TypeOK
<1>2. Steps'
  BY DEF Steps
<1>3. Numbers' /\ Held'
  BY DEF Numbers, Held, Achieved
<1>4. Achieved'
  BY DEF Achieved
<1>5. Gone'
  BY DEF Gone
<1>6. SyncedJob' /\ RebuildDone'
  BY DEF Achieved, SyncedJob, RebuildDone, JobOf
<1> QED  BY <1>1, <1>2, <1>3, <1>4, <1>5, <1>6

(* A deleted account is not connected.                                     *)
LEMMA ConnectKeeps ==
  ASSUME SyncInv, Connect
  PROVE  SyncInv'
<1> USE DEF SyncInv, Connect, Attempting, At, Free, Begun, Succeeding, Deleting
<1>1. TypeOK'
  BY DEF TypeOK, RowType, RunType, Schedules
<1>2. Steps'
  BY DEF Steps
<1>3. Numbers' /\ Held'
  BY DEF Numbers, Held
<1>4. Achieved'
  BY DEF Achieved
<1>5. Gone'
  BY DEF Gone
<1>6. SyncedJob' /\ RebuildDone'
  BY DEF SyncedJob, RebuildDone, JobOf
<1> QED  BY <1>1, <1>2, <1>3, <1>4, <1>5, <1>6

(* From here on the deletion holds the lock.                               *)
LEMMA DeleteRowKeeps ==
  ASSUME SyncInv, DeleteRow
  PROVE  SyncInv'
<1> USE DEF SyncInv, DeleteRow, Attempting, At, Free, Begun, Succeeding,
             Deleting
<1>1. TypeOK'
  <2>1. RowType'
    <3>1. CASE alive
      <4>1. alive' = FALSE /\ rev' = 0 /\ state' = "none" /\ reset' = FALSE
        BY <3>1
      <4>2. UNCHANGED <<sched, channel, tried>>
        OBVIOUS
      <4> QED  BY <4>1, <4>2 DEF TypeOK, RowType, Results
    <3>2. CASE ~alive
      <4>1. UNCHANGED <<alive, rev, state, reset, sched, channel, tried>>
        BY <3>2
      <4> QED  BY <4>1 DEF TypeOK, RowType, Results
    <3>3. QED  BY <3>1, <3>2
  <2>2. RunType'
    <3>1. CASE alive
      BY <3>1 DEF TypeOK, RunType
    <3>2. CASE ~alive
      <4>1. run' = Free
        BY <3>2
      <4> QED  BY <4>1 DEF RunType, Results, Requests, Schedules
    <3>3. QED  BY <3>1, <3>2
  <2>3. /\ job' \in Crons /\ worker' \in BOOLEAN
        /\ recovering' \in BOOLEAN /\ waiting' \in BOOLEAN
    BY DEF TypeOK
  <2>4. patch' \in {NoPatch}
                     \cup [pc : {"commit"}, ask : Asks, seen : Schedules]
    BY DEF TypeOK
  <2>5. clear' \in {NoClear, [pc |-> "job"]}
                     \cup [pc : {"commit"}, seen : Schedules]
    BY DEF TypeOK
  <2>6. need' \in Nat /\ dropped' \in Nat /\ clears' \in Nat /\ crashes' \in Nat
    BY DEF TypeOK
  <2> QED  BY <2>1, <2>2, <2>3, <2>4, <2>5, <2>6 DEF TypeOK
<1>2. Steps'
  BY DEF TypeOK, RunType, Steps
<1>3. Numbers' /\ Held'
  BY DEF TypeOK, RunType, Numbers, Held
<1>4. Achieved'
  BY DEF TypeOK, RunType, Achieved
<1>5. Gone'
  BY DEF TypeOK, RunType, Gone
<1>6. SyncedJob' /\ RebuildDone'
  BY DEF SyncedJob, RebuildDone, JobOf
<1> QED  BY <1>1, <1>2, <1>3, <1>4, <1>5, <1>6

(* The job is gone.                                                        *)
LEMMA DeleteJobKeeps ==
  ASSUME SyncInv, DeleteJob
  PROVE  SyncInv'
<1> USE DEF SyncInv, DeleteJob, Attempting, At, Free, Begun, Succeeding,
             Deleting
<1>1. TypeOK'
  BY DEF TypeOK, RowType, RunType
<1>2. Steps'
  BY DEF Steps
<1>3. Numbers' /\ Held'
  BY DEF Numbers, Held
<1>4. Achieved'
  BY DEF Achieved
<1>5. Gone'
  BY DEF Gone
<1>6. SyncedJob' /\ RebuildDone'
  BY DEF TypeOK, RowType, Numbers, Gone, SyncedJob, RebuildDone, JobOf
<1> QED  BY <1>1, <1>2, <1>3, <1>4, <1>5, <1>6

(* The worker is gone.                                                     *)
LEMMA DeleteWorkerKeeps ==
  ASSUME SyncInv, DeleteWorker
  PROVE  SyncInv'
<1> USE DEF SyncInv, DeleteWorker, Attempting, At, Free, Begun, Succeeding,
             Deleting
<1>1. TypeOK'
  <2>1. RowType'
    BY DEF TypeOK, RowType
  <2>2. RunType'
    BY DEF RunType, Results, Requests, Schedules
  <2>3. /\ job' \in Crons /\ worker' \in BOOLEAN
        /\ recovering' \in BOOLEAN /\ waiting' \in BOOLEAN
    BY DEF TypeOK
  <2>4. /\ patch' \in {NoPatch}
                      \cup [pc : {"commit"}, ask : Asks, seen : Schedules]
        /\ clear' \in {NoClear, [pc |-> "job"]}
                      \cup [pc : {"commit"}, seen : Schedules]
    BY DEF TypeOK
  <2>5. need' \in Nat /\ dropped' \in Nat /\ clears' \in Nat /\ crashes' \in Nat
    BY DEF TypeOK
  <2> QED  BY <2>1, <2>2, <2>3, <2>4, <2>5 DEF TypeOK
<1>2. Steps'
  BY DEF Steps
<1>3. Numbers' /\ Held'
  BY DEF Numbers, Held
<1>4. Achieved'
  BY DEF Achieved
<1>5. Gone'
  BY DEF Gone
<1>6. SyncedJob' /\ RebuildDone'
  BY DEF SyncedJob, RebuildDone, JobOf
<1> QED  BY <1>1, <1>2, <1>3, <1>4, <1>5, <1>6

(* Reading changes nothing.                                                *)
LEMMA PatchReadKeeps ==
  ASSUME SyncInv, NEW ask \in Asks, PatchRead(ask)
  PROVE  SyncInv'
<1> USE DEF SyncInv, PatchRead, Attempting, At, Free, Begun, Succeeding,
             Deleting
<1>1. TypeOK'
  BY DEF TypeOK, RowType, RunType
<1>2. Steps'
  BY DEF Steps
<1>3. Numbers' /\ Held'
  BY DEF Numbers, Held
<1>4. Achieved'
  BY DEF Achieved
<1>5. Gone'
  BY DEF Gone
<1>6. SyncedJob' /\ RebuildDone'
  BY DEF SyncedJob, RebuildDone, JobOf
<1> QED  BY <1>1, <1>2, <1>3, <1>4, <1>5, <1>6

(* A new revision invalidates the snapshot of a running attempt.           *)
LEMMA PatchCommitKeeps ==
  ASSUME SyncInv, PatchCommit
  PROVE  SyncInv'
<1> USE DEF SyncInv, PatchCommit, Register, Attempting, At, Free, Begun,
             Succeeding, Deleting
<1>1. TypeOK'
  <2>1. RowType'
    <3>1. patch.ask \in Asks /\ patch.seen \in Schedules
      BY DEF TypeOK, NoPatch
    <3>2. sched' \in Schedules
      BY <3>1, MergedTyped DEF TypeOK, RowType, Stored
    <3>3. patch.ask.to = "connection" => patch.ask.channel \in Channels
      BY <3>1 DEF Asks
    <3>4. channel' \in Channels
      BY <3>3 DEF TypeOK, RowType
    <3>5. reset' \in BOOLEAN
      BY Zenon
    <3>6. QED  BY <3>2, <3>4, <3>5 DEF TypeOK, RowType, Results
  <2>2. RunType'
    BY DEF TypeOK, RunType
  <2>3. /\ job' \in Crons /\ worker' \in BOOLEAN
        /\ recovering' \in BOOLEAN /\ waiting' \in BOOLEAN
    BY DEF TypeOK
  <2>4. patch' \in {NoPatch}
                     \cup [pc : {"commit"}, ask : Asks, seen : Schedules]
    OBVIOUS
  <2>5. clear' \in {NoClear, [pc |-> "job"]}
                     \cup [pc : {"commit"}, seen : Schedules]
    BY DEF TypeOK
  <2>6. need' \in Nat /\ dropped' \in Nat /\ clears' \in Nat /\ crashes' \in Nat
    BY DEF TypeOK, RowType
  <2> QED  BY <2>1, <2>2, <2>3, <2>4, <2>5, <2>6 DEF TypeOK
<1>2. Steps'
  BY DEF Steps
<1>3. Numbers' /\ Held'
  <2>1. Numbers'
    <3>1. /\ alive /\ alive' = alive /\ rev' = rev + 1 /\ dropped' = dropped
          /\ need <= rev /\ dropped <= rev
          /\ rev \in Nat /\ need \in Nat /\ dropped \in Nat
      BY DEF TypeOK, RowType, Numbers
    <3>2. CASE patch.ask.to = "connection"
      <4>1. reset' /\ need' = rev + 1
        BY <3>2
      <4> QED  BY <3>1, <4>1 DEF Numbers
    <3>3. CASE patch.ask.to # "connection"
      <4>1. need' = need
        BY <3>3
      <4>2. reset => reset'
        BY Zenon
      <4> QED  BY <3>1, <4>1, <4>2 DEF Numbers
    <3> QED  BY <3>2, <3>3
  <2>2. Held'
    BY DEF TypeOK, RowType, RunType, Held
  <2> QED  BY <2>1, <2>2
<1>4. Achieved'
  BY DEF TypeOK, RowType, Held, Achieved
<1>5. Gone'
  BY DEF Gone
<1>6. SyncedJob' /\ RebuildDone'
  BY DEF SyncedJob, RebuildDone, JobOf
<1> QED  BY <1>1, <1>2, <1>3, <1>4, <1>5, <1>6

(* A change of a deleted account is refused.                               *)
LEMMA PatchGoneKeeps ==
  ASSUME SyncInv, PatchGone
  PROVE  SyncInv'
<1> USE DEF SyncInv, PatchGone, Attempting, At, Free, Begun, Succeeding,
             Deleting
<1>1. TypeOK'
  BY DEF TypeOK, RowType, RunType
<1>2. Steps'
  BY DEF Steps
<1>3. Numbers' /\ Held'
  BY DEF Numbers, Held
<1>4. Achieved'
  BY DEF Achieved
<1>5. Gone'
  BY DEF Gone
<1>6. SyncedJob' /\ RebuildDone'
  BY DEF SyncedJob, RebuildDone, JobOf
<1> QED  BY <1>1, <1>2, <1>3, <1>4, <1>5, <1>6

(* A clear ends what is claimed of the job.                                *)
LEMMA ClearReadKeeps ==
  ASSUME SyncInv, ClearRead
  PROVE  SyncInv'
<1> USE DEF SyncInv, ClearRead, Attempting, At, Free, Begun, Succeeding,
             Deleting
<1>1. TypeOK'
  BY DEF TypeOK, RowType, RunType
<1>2. Steps'
  BY DEF TypeOK, Steps
<1>3. Numbers' /\ Held'
  BY DEF TypeOK, Numbers, Held
<1>4. Achieved'
  BY DEF TypeOK, Achieved
<1>5. Gone'
  BY DEF Gone
<1>6. SyncedJob' /\ RebuildDone'
  BY DEF TypeOK, SyncedJob, RebuildDone, JobOf
<1> QED  BY <1>1, <1>2, <1>3, <1>4, <1>5, <1>6

(* It changes the schedule behind the attempts.                            *)
LEMMA ClearCommitKeeps ==
  ASSUME SyncInv, ClearCommit
  PROVE  SyncInv'
<1> USE DEF SyncInv, ClearCommit, NoClear, Attempting, At, Free, Begun,
             Succeeding, Deleting
<1>1. TypeOK'
  <2>1. RowType'
    <3>1. clear.seen \in Schedules
      BY DEF TypeOK
    <3>2. sched' \in Schedules
      BY <3>1 DEF TypeOK, RowType, Stored, Schedules
    <3>3. QED  BY <3>2 DEF TypeOK, RowType
  <2>2. RunType'
    BY DEF TypeOK, RunType
  <2>3. /\ job' \in Crons /\ worker' \in BOOLEAN
        /\ recovering' \in BOOLEAN /\ waiting' \in BOOLEAN
    BY DEF TypeOK
  <2>4. patch' \in {NoPatch}
                     \cup [pc : {"commit"}, ask : Asks, seen : Schedules]
    BY DEF TypeOK
  <2>5. clear' \in {NoClear, [pc |-> "job"]}
                     \cup [pc : {"commit"}, seen : Schedules]
    OBVIOUS
  <2>6. need' \in Nat /\ dropped' \in Nat /\ clears' \in Nat /\ crashes' \in Nat
    BY DEF TypeOK
  <2> QED  BY <2>1, <2>2, <2>3, <2>4, <2>5, <2>6 DEF TypeOK
<1>2. Steps'
  BY DEF Steps
<1>3. Numbers' /\ Held'
  BY DEF Steps, Numbers, Held
<1>4. Achieved'
  BY DEF Steps, Achieved
<1>5. Gone'
  BY DEF Gone
<1>6. SyncedJob' /\ RebuildDone'
  BY DEF Steps, SyncedJob, RebuildDone, JobOf
<1> QED  BY <1>1, <1>2, <1>3, <1>4, <1>5, <1>6

(* A clear of a deleted account is refused.                                *)
LEMMA ClearGoneKeeps ==
  ASSUME SyncInv, ClearGone
  PROVE  SyncInv'
<1> USE DEF SyncInv, ClearGone, Attempting, At, Free, Begun, Succeeding,
             Deleting
<1>1. TypeOK'
  BY DEF TypeOK, RowType, RunType
<1>2. Steps'
  BY DEF Steps
<1>3. Numbers' /\ Held'
  BY DEF Numbers, Held
<1>4. Achieved'
  BY DEF Achieved
<1>5. Gone'
  BY DEF Gone
<1>6. SyncedJob' /\ RebuildDone'
  BY DEF SyncedJob, RebuildDone, JobOf
<1> QED  BY <1>1, <1>2, <1>3, <1>4, <1>5, <1>6

(* It removes the job, whatever the lock says.                             *)
LEMMA ClearJobKeeps ==
  ASSUME SyncInv, ClearJob
  PROVE  SyncInv'
<1> USE DEF SyncInv, ClearJob, NoClear, Attempting, At, Free, Begun,
             Succeeding, Deleting
<1>1. TypeOK'
  BY DEF TypeOK, RowType, RunType
<1>2. Steps'
  BY DEF Steps
<1>3. Numbers' /\ Held'
  BY DEF Numbers, Held
<1>4. Achieved'
  BY DEF Steps, Achieved
<1>5. Gone'
  BY DEF Gone
<1>6. SyncedJob' /\ RebuildDone'
  BY DEF Steps, SyncedJob, RebuildDone, JobOf
<1> QED  BY <1>1, <1>2, <1>3, <1>4, <1>5, <1>6

(* Nothing depends on a worker being there.                                *)
LEMMA WorkerDiesKeeps ==
  ASSUME SyncInv, WorkerDies
  PROVE  SyncInv'
<1> USE DEF SyncInv, WorkerDies, Attempting, At, Free, Begun, Succeeding,
             Deleting
<1>1. TypeOK'
  <2>1. RowType'
    BY DEF TypeOK, RowType
  <2>2. RunType'
    BY DEF TypeOK, RunType
  <2>3. /\ job' \in Crons /\ worker' \in BOOLEAN
        /\ recovering' \in BOOLEAN /\ waiting' \in BOOLEAN
    BY DEF TypeOK
  <2>4. patch' \in {NoPatch}
                     \cup [pc : {"commit"}, ask : Asks, seen : Schedules]
    BY DEF TypeOK
  <2>5. clear' \in {NoClear, [pc |-> "job"]}
                     \cup [pc : {"commit"}, seen : Schedules]
    BY DEF TypeOK
  <2>6. need' \in Nat /\ dropped' \in Nat /\ clears' \in Nat /\ crashes' \in Nat
    BY DEF TypeOK
  <2> QED  BY <2>1, <2>2, <2>3, <2>4, <2>5, <2>6 DEF TypeOK
<1>2. Steps'
  BY DEF Steps
<1>3. Numbers' /\ Held'
  BY DEF Numbers, Held
<1>4. Achieved'
  BY DEF Achieved
<1>5. Gone'
  BY DEF Gone
<1>6. SyncedJob' /\ RebuildDone'
  BY DEF SyncedJob, RebuildDone, JobOf
<1> QED  BY <1>1, <1>2, <1>3, <1>4, <1>5, <1>6

(* Nothing in memory survives.                                             *)
LEMMA CrashKeeps ==
  ASSUME SyncInv, Crash
  PROVE  SyncInv'
<1> USE DEF SyncInv, Crash, Attempting, At, Free, Begun, Succeeding, Deleting
<1>1. TypeOK'
  <2>1. RowType'
    BY DEF TypeOK, RowType
  <2>2. RunType'
    BY DEF RunType, Schedules
  <2>3. /\ job' \in Crons /\ worker' \in BOOLEAN
        /\ recovering' \in BOOLEAN /\ waiting' \in BOOLEAN
    BY DEF TypeOK, RowType
  <2>4. patch' \in {NoPatch}
                     \cup [pc : {"commit"}, ask : Asks, seen : Schedules]
    OBVIOUS
  <2>5. clear' \in {NoClear, [pc |-> "job"]}
                     \cup [pc : {"commit"}, seen : Schedules]
    OBVIOUS
  <2>6. need' \in Nat /\ dropped' \in Nat /\ clears' \in Nat /\ crashes' \in Nat
    BY DEF TypeOK, RowType
  <2> QED  BY <2>1, <2>2, <2>3, <2>4, <2>5, <2>6 DEF TypeOK
<1>2. Steps'
  BY DEF Steps
<1>3. Numbers' /\ Held'
  BY DEF TypeOK, RowType, Numbers, Held
<1>4. Achieved'
  BY DEF Achieved
<1>5. Gone'
  BY DEF Gone
<1>6. SyncedJob' /\ RebuildDone'
  BY DEF TypeOK, RowType, Numbers, SyncedJob, RebuildDone, JobOf
<1> QED  BY <1>1, <1>2, <1>3, <1>4, <1>5, <1>6

(* Recovery asks for an attempt.                                           *)
LEMMA RecoverKeeps ==
  ASSUME SyncInv, Recover
  PROVE  SyncInv'
<1> USE DEF SyncInv, Recover, Recovering, Attempting, At, Free, Begun,
             Succeeding, Deleting
<1>1. TypeOK'
  BY DEF TypeOK, RowType, RunType
<1>2. Steps'
  BY DEF Steps
<1>3. Numbers' /\ Held'
  BY DEF Numbers, Held
<1>4. Achieved'
  BY DEF Achieved
<1>5. Gone'
  BY DEF Gone
<1>6. SyncedJob' /\ RebuildDone'
  BY DEF SyncedJob, RebuildDone, JobOf
<1> QED  BY <1>1, <1>2, <1>3, <1>4, <1>5, <1>6

(* The account was just created, or has not been reconciled yet.           *)
LEMMA InitHolds == Init => SyncInv
<1> SUFFICES ASSUME Init  PROVE SyncInv
  OBVIOUS
<1> USE DEF Init, Free, Attempting, Begun, Succeeding, Deleting
<1>1. TypeOK
  <2>1. RowType
    <3>1. alive = TRUE /\ reset = FALSE /\ tried = 0
      OBVIOUS
    <3>2. sched \in Schedules /\ channel \in Channels
      OBVIOUS
    <3>3. \/ rev = 1 /\ state = "pending"
          \/ rev = 0 /\ state = "none"
      OBVIOUS
    <3>4. rev \in Nat /\ state \in Results \cup {"none"} /\ (state = "none" <=> rev = 0)
      BY ONLY <3>3 DEF Results
    <3>5. alive \in BOOLEAN /\ reset \in BOOLEAN /\ tried \in Nat
      BY ONLY <3>1
    <3> QED  BY ONLY <3>2, <3>4, <3>5 DEF RowType
  <2>2. RunType
    BY DEF RunType, Schedules
  <2> QED  BY <2>1, <2>2 DEF TypeOK
<1>2. Steps /\ Numbers /\ Held /\ Achieved /\ Gone
  BY DEF Steps, Numbers, Held, Achieved, Gone
<1>3. SyncedJob /\ RebuildDone
  BY DEF SyncedJob, RebuildDone
<1> QED  BY <1>1, <1>2, <1>3 DEF SyncInv

(* A step that changes nothing.                                            *)
LEMMA StutterKeeps ==
  ASSUME SyncInv, UNCHANGED vars
  PROVE  SyncInv'
<1> USE DEF SyncInv, vars, Attempting, Begun, Succeeding, Deleting
<1>1. TypeOK' /\ Steps' /\ Numbers'
  BY DEF TypeOK, RowType, RunType, Steps, Numbers
<1>2. Held' /\ Achieved' /\ Gone'
  BY DEF Held, Achieved, Gone
<1>3. SyncedJob' /\ RebuildDone'
  BY DEF SyncedJob, RebuildDone
<1> QED  BY <1>1, <1>2, <1>3

(* One step, whoever takes it.                                             *)
LEMMA StepKeeps == SyncInv /\ [Next]_vars => SyncInv'
<1> SUFFICES ASSUME SyncInv, [Next]_vars  PROVE SyncInv'
  OBVIOUS
<1>1. CASE Retry
  BY <1>1, RetryKeeps
<1>2. CASE \E k \in Requests : LockTake(k)
  BY <1>2, LockTakeKeeps
<1>3. CASE Attempt
  BY <1>3, BeginKeeps, BeginSkipKeeps, ApplyKeeps, ApplyFailsKeeps, DropKeeps,
     PrepareKeeps, PrepareFailsKeeps, FinishKeeps DEF Attempt
<1>4. CASE Connect \/ Deletion
  BY <1>4, ConnectKeeps, DeleteRowKeeps, DeleteJobKeeps, DeleteWorkerKeeps
     DEF Deletion
<1>5. CASE \E ask \in Asks : PatchRead(ask)
  BY <1>5, PatchReadKeeps
<1>6. CASE PatchCommit \/ PatchGone
  BY <1>6, PatchCommitKeeps, PatchGoneKeeps
<1>7. CASE Clear
  BY <1>7, ClearReadKeeps, ClearCommitKeeps, ClearGoneKeeps, ClearJobKeeps
     DEF Clear
<1>8. CASE WorkerDies \/ Crash \/ Recover
  BY <1>8, WorkerDiesKeeps, CrashKeeps, RecoverKeeps
<1>9. CASE UNCHANGED vars
  BY <1>9, StutterKeeps
<1> QED
  BY <1>1, <1>2, <1>3, <1>4, <1>5, <1>6, <1>7, <1>8, <1>9 DEF Next

LEMMA Invariance == Spec => []SyncInv
<1>1. QED  BY InitHolds, StepKeeps, PTL DEF Spec

(* The rows, the snapshot of the lock's holder and the changes on their    *)
(* way have their types: no snapshot carries a value no account had.       *)
THEOREM SyncTyped == Spec => []TypeOK
<1>1. SyncInv => TypeOK
  BY DEF SyncInv
<1> QED  BY <1>1, Invariance, PTL

(* Until the schedule is changed behind the attempts by a one-click clear, *)
(* synchronized means that the scheduler has the job of the account as it  *)
(* is now, whatever was changed while an attempt was on its way.           *)
THEOREM SynchronizedIsCurrent == Spec => []SyncedJob
<1>1. SyncInv => SyncedJob
  BY DEF SyncInv
<1> QED  BY <1>1, Invariance, PTL

(* No request for a new worker is lost between other changes, failed       *)
(* attempts and crashes.                                                   *)
THEOREM RebuildNotLost == Spec => []RebuildDone
<1>1. SyncInv => RebuildDone
  BY DEF SyncInv
<1> QED  BY <1>1, Invariance, PTL

(* Once its deletion has given the lock back, nothing brings the job or    *)
(* the worker of an account back.                                          *)
THEOREM DeletedIsGone == Spec => []DeletedLeavesNothing
<1>1. SyncInv => DeletedLeavesNothing
  BY DEF SyncInv, Gone, Deleting, DeletedLeavesNothing
<1> QED  BY <1>1, Invariance, PTL
=============================================================================
