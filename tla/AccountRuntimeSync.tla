-------------------------- MODULE AccountRuntimeSync --------------------------
(* How the runtime of one account (its cron job and its worker) is brought *)
(* into line with the persisted account: execution/account_runtime_sync.py *)
(* with the account routes that change, clear, connect or delete it.       *)
(*                                                                         *)
(* Every change of the account registers a target revision in its own      *)
(* transaction; an attempt takes a snapshot of account and revision, acts  *)
(* on scheduler and worker without a transaction, and writes its result    *)
(* back only to the revision it read.  One lock per account serializes     *)
(* attempts, connection requests and the deletion, but not the changes.    *)
EXTENDS Integers, FiniteSets

CONSTANTS
  Crons,        \* cron expressions; NoJob is the empty one
  NoJob,
  Channels,     \* the trade channels an account may be given
  MaxRev, MaxClears, MaxCrashes

ASSUME RuntimeAssumption ==
  /\ NoJob \in Crons
  /\ Channels \subseteq {"CTP", "TQ", "OTHER"}
  /\ MaxRev \in Nat /\ MaxClears \in Nat /\ MaxCrashes \in Nat

VARIABLES
  alive,        \* the account exists
  sched,        \* account_settings.schedule, one JSON column
  channel,      \* its trade channel, part of its connection settings
  rev, state, reset,    \* account_runtime_sync; rev = 0: there is no row
  tried,        \* revision of the newest attempt record
  job,          \* the job in the scheduler, by its cron expression
  worker,       \* the manager has a worker for the account
  waiting,      \* a reconciliation waits for account_runtime_lock
  run,          \* the holder of the lock and its snapshot
  patch,        \* a PATCH of the account between its read and its commit
  clear,        \* a one-click clear between its read and its delete_job
  recovering,   \* start-up has not begun an attempt for the account
  need, dropped, \* history: revision of the last rebuild request, of the last drop
  clears, crashes

rowVars  == <<rev, state, reset, tried>>
dbVars   == <<alive, sched, channel, rowVars>>
liveVars == <<job, worker>>
histVars == <<need, dropped>>
vars == <<dbVars, liveVars, waiting, run, patch, clear, recovering, histVars,
          clears, crashes>>

Schedules == [started : BOOLEAN, cron : Crons]
Requests  == {"sync", "day", "delete", "connect"}
Results   == {"pending", "synchronized", "failed"}
Asks == [to : {"start", "stop"}] \cup [to : {"cron"}, cron : Crons]
          \cup [to : {"connection"}, channel : Channels]

JobOf(s) == IF s.started THEN s.cron ELSE NoJob
Resident(c) == c \in {"CTP", "TQ"}

Free == [kind |-> "none", pc |-> "none", rev |-> 0, reset |-> FALSE,
         sched |-> [started |-> FALSE, cron |-> NoJob], channel |-> "OTHER",
         result |-> "none"]
NoPatch == [pc |-> "none"]
NoClear == [pc |-> "none"]

Attempting == run.kind \in {"sync", "day"}
At(pc) == Attempting /\ run.pc = pc

-----------------------------------------------------------------------------
(* account_runtime_lock.  Reconciliations that wait together are one: each *)
(* takes its snapshot when it has the lock.  The other requests look at    *)
(* nothing, or look again (the candidates of a session), once they have it.*)

(* POST /runtime-sync/retry.                                               *)
Retry ==
  /\ alive /\ waiting' = TRUE
  /\ UNCHANGED <<dbVars, liveVars, run, patch, clear, recovering, histVars,
                 clears, crashes>>

LockTake(k) ==
  /\ run.kind = "none"
  /\ k = "sync" => waiting
  /\ waiting' = (waiting /\ k # "sync")
  /\ run' = [Free EXCEPT !.kind = k, !.pc = "begin"]
  /\ UNCHANGED <<dbVars, liveVars, patch, clear, recovering, histVars,
                 clears, crashes>>

-----------------------------------------------------------------------------
(* An attempt: _reconcile_locked.                                          *)

(* _begin_attempt is one write transaction, from its first insert on.      *)
(* Mutant: the deleted account is not noticed.                             *)
Snapshot ==
  LET r == IF rev = 0 THEN 1 ELSE rev IN
  /\ rev' = r /\ state' = "pending"
  /\ run' = [run EXCEPT !.pc = "apply", !.rev = r, !.reset = reset,
                        !.sched = sched, !.channel = channel]
  /\ recovering' = FALSE
  /\ UNCHANGED <<alive, sched, channel, reset, tried, liveVars, waiting, patch,
                 clear, histVars, clears, crashes>>
BeginBlind == At("begin") /\ Snapshot

Begin ==
  /\ At("begin") /\ alive
  /\ run.kind = "day" => sched.started /\ Resident(channel)
  /\ Snapshot

(* LookupError, or _ScheduledAccountSkipped with the insert rolled back.   *)
BeginSkip ==
  /\ At("begin")
  /\ ~alive \/ (run.kind = "day" /\ ~(sched.started /\ Resident(channel)))
  /\ run' = Free
  /\ UNCHANGED <<dbVars, liveVars, waiting, patch, clear, recovering, histVars,
                 clears, crashes>>

(* _apply_account_job from the snapshot; it acts without an await.         *)
Apply ==
  /\ At("apply")
  /\ job' = JobOf(run.sched)
  /\ run' = [run EXCEPT !.pc = "drop"]
  /\ UNCHANGED <<dbVars, worker, waiting, patch, clear, recovering, histVars,
                 clears, crashes>>

(* create_job raises; a job that was to be replaced is already deleted.    *)
(* Mutant: the failure is not given a result.                              *)
Failing(r) ==
  /\ At("apply") /\ JobOf(run.sched) # NoJob
  /\ job' \in {job, NoJob}
  /\ run' = [run EXCEPT !.pc = "finish", !.result = r]
  /\ UNCHANGED <<dbVars, worker, waiting, patch, clear, recovering, histVars,
                 clears, crashes>>
ApplyFailsMute == Failing("none")
ApplyFails == Failing("failed")

(* reconcile_china_channel_account: drop_account when a rebuild was asked  *)
(* for, and always for TQ before a session.                                *)
Rebuild == run.reset \/ (run.channel = "TQ" /\ run.kind = "day")
Drop ==
  /\ At("drop")
  /\ IF Rebuild THEN worker' = FALSE /\ dropped' = run.rev
                ELSE UNCHANGED <<worker, dropped>>
  /\ run' = [run EXCEPT !.pc = "prepare"]
  /\ UNCHANGED <<dbVars, job, waiting, patch, clear, recovering, need,
                 clears, crashes>>

(* prepare_account connects through the worker; it may take minutes.       *)
Prepares == Resident(run.channel) /\ run.sched.started
Prepare ==
  /\ At("prepare")
  /\ worker' = (worker \/ Prepares)
  /\ run' = [run EXCEPT !.pc = "finish", !.result = "synchronized"]
  /\ UNCHANGED <<dbVars, job, waiting, patch, clear, recovering, histVars,
                 clears, crashes>>

(* It fails; a CTP counter that is not initialized yet is not a failure.   *)
PrepareFails ==
  /\ At("prepare") /\ Prepares
  /\ worker' \in BOOLEAN
  /\ \E r \in {"failed"} \cup (IF run.channel = "CTP" THEN {"pending"} ELSE {}) :
        run' = [run EXCEPT !.pc = "finish", !.result = r]
  /\ UNCHANGED <<dbVars, job, waiting, patch, clear, recovering, histVars,
                 clears, crashes>>

(* _finish_attempt records the attempt and writes the row if it still has  *)
(* the revision of the snapshot; otherwise the holder starts over.         *)
(* Mutant: the write-back does not look at the revision.                   *)
WriteBack(same) ==
  /\ At("finish")
  /\ state' = IF same THEN run.result ELSE state
  /\ reset' = (reset /\ ~(same /\ run.result = "synchronized"))
  /\ tried' = run.rev
  /\ run' = IF same THEN Free
            ELSE [Free EXCEPT !.kind = run.kind, !.pc = "begin"]
  /\ UNCHANGED <<alive, sched, channel, rev, liveVars, waiting, patch, clear,
                 recovering, histVars, clears, crashes>>
FinishBlind == WriteBack(TRUE)
Finish == WriteBack(rev = run.rev)

-----------------------------------------------------------------------------
(* The other holders of the lock.                                          *)

(* reconnect and disconnect; a deleted account is refused.                 *)
Connect ==
  /\ run.kind = "connect"
  /\ IF alive THEN worker' \in BOOLEAN ELSE UNCHANGED worker
  /\ run' = Free
  /\ UNCHANGED <<dbVars, job, waiting, patch, clear, recovering, histVars,
                 clears, crashes>>

(* delete_account: the row, then the job, then the worker.                 *)
DeleteRow ==
  /\ run.kind = "delete" /\ run.pc = "begin"
  /\ IF alive
     THEN /\ alive' = FALSE /\ rev' = 0 /\ state' = "none" /\ reset' = FALSE
          /\ run' = [run EXCEPT !.pc = "job"]
     ELSE /\ run' = Free
          /\ UNCHANGED <<alive, rev, state, reset>>
  /\ UNCHANGED <<sched, channel, tried, liveVars, waiting, patch, clear,
                 recovering, histVars, clears, crashes>>
DeleteJob ==
  /\ run.kind = "delete" /\ run.pc = "job"
  /\ job' = NoJob
  /\ run' = [run EXCEPT !.pc = "worker"]
  /\ UNCHANGED <<dbVars, worker, waiting, patch, clear, recovering, histVars,
                 clears, crashes>>
DeleteWorker ==
  /\ run.kind = "delete" /\ run.pc = "worker"
  /\ worker' = FALSE
  /\ run' = Free
  /\ UNCHANGED <<dbVars, job, waiting, patch, clear, recovering, histVars,
                 clears, crashes>>

-----------------------------------------------------------------------------
(* Changes of the account; none of them holds account_runtime_lock.        *)

(* update_account reads the account and validates the target state.        *)
PatchRead(ask) ==
  /\ alive /\ patch.pc = "none" /\ rev < MaxRev
  /\ patch' = [pc |-> "commit", ask |-> ask, seen |-> sched]
  /\ UNCHANGED <<dbVars, liveVars, waiting, run, clear, recovering, histVars,
                 clears, crashes>>

(* apply_patch merges the request into the schedule that was read; the     *)
(* column is written as a whole, and only if that changes it.              *)
Merged(s, ask) ==
  CASE ask.to = "start" -> [s EXCEPT !.started = TRUE]
    [] ask.to = "stop"  -> [s EXCEPT !.started = FALSE]
    [] ask.to = "cron"  -> [s EXCEPT !.cron = ask.cron]
    [] OTHER            -> s
Stored(seen, s) == IF s = seen THEN sched ELSE s

(* enqueue_account_runtime_sync, in the transaction of the change.  A      *)
(* change of the connection settings asks for a new worker.                *)
(* Mutant: the request of an earlier change is overwritten.                *)
Register(flag) ==
  /\ patch.pc = "commit" /\ alive
  /\ LET ask == patch.ask
         rebuild == ask.to = "connection" IN
     /\ sched' = Stored(patch.seen, Merged(patch.seen, ask))
     /\ channel' = IF rebuild THEN ask.channel ELSE channel
     /\ rev' = rev + 1 /\ state' = "pending"
     /\ reset' = (flag \/ rebuild)
     /\ need' = IF rebuild THEN rev + 1 ELSE need
  /\ patch' = NoPatch
  /\ waiting' = TRUE
  /\ UNCHANGED <<alive, tried, liveVars, run, clear, recovering, dropped,
                 clears, crashes>>
PatchForgetful == Register(FALSE)
PatchCommit == Register(reset)

PatchGone ==
  /\ patch.pc = "commit" /\ ~alive
  /\ patch' = NoPatch
  /\ UNCHANGED <<dbVars, liveVars, waiting, run, clear, recovering, histVars,
                 clears, crashes>>

(* empty_all_positions stops the schedule in a transaction of its own, in  *)
(* which it registers no revision, and then deletes the job.               *)
ClearRead ==
  /\ alive /\ clear.pc = "none" /\ clears < MaxClears
  /\ clear' = [pc |-> "commit", seen |-> sched]
  /\ clears' = clears + 1
  /\ UNCHANGED <<dbVars, liveVars, waiting, run, patch, recovering, histVars,
                 crashes>>
ClearCommit ==
  /\ clear.pc = "commit" /\ alive
  /\ sched' = Stored(clear.seen, [clear.seen EXCEPT !.started = FALSE])
  /\ clear' = [pc |-> "job"]
  /\ UNCHANGED <<alive, channel, rowVars, liveVars, waiting, run, patch,
                 recovering, histVars, clears, crashes>>
ClearGone ==
  /\ clear.pc = "commit" /\ ~alive
  /\ clear' = NoClear
  /\ UNCHANGED <<dbVars, liveVars, waiting, run, patch, recovering, histVars,
                 clears, crashes>>
ClearJob ==
  /\ clear.pc = "job"
  /\ job' = NoJob
  /\ clear' = NoClear
  /\ UNCHANGED <<dbVars, worker, waiting, run, patch, recovering, histVars,
                 clears, crashes>>

-----------------------------------------------------------------------------
(* The worker process dies by itself.                                      *)
WorkerDies ==
  /\ worker /\ worker' = FALSE
  /\ UNCHANGED <<dbVars, job, waiting, run, patch, clear, recovering, histVars,
                 clears, crashes>>

(* The server dies, and with it the scheduler and every worker.            *)
Crash ==
  /\ crashes < MaxCrashes
  /\ crashes' = crashes + 1
  /\ job' = NoJob /\ worker' = FALSE /\ dropped' = rev
  /\ waiting' = FALSE /\ run' = Free /\ patch' = NoPatch /\ clear' = NoClear
  /\ recovering' = alive
  /\ UNCHANGED <<dbVars, need, clears>>

(* recover_account_runtime_on_startup reconciles every account, also one   *)
(* whose row says synchronized.  Mutant: only one that failed.             *)
Recovering(due) ==
  /\ recovering /\ alive /\ due /\ ~waiting /\ run.kind # "sync"
  /\ waiting' = TRUE
  /\ UNCHANGED <<dbVars, liveVars, run, patch, clear, recovering, histVars,
                 clears, crashes>>
RecoverFailed == Recovering(state = "failed")
Recover == Recovering(TRUE)

-----------------------------------------------------------------------------
(* An account that was created, with its first revision registered in the  *)
(* same transaction, or one from before there were revisions.              *)
Init ==
  /\ alive = TRUE /\ sched \in Schedules /\ channel \in Channels
  /\ \/ rev = 1 /\ state = "pending" /\ waiting = TRUE /\ recovering = FALSE
     \/ rev = 0 /\ state = "none" /\ waiting = FALSE /\ recovering = TRUE
  /\ reset = FALSE /\ tried = 0
  /\ job = NoJob /\ worker = FALSE
  /\ run = Free /\ patch = NoPatch /\ clear = NoClear
  /\ need = 0 /\ dropped = 0 /\ clears = 0 /\ crashes = 0

Attempt == Begin \/ BeginSkip \/ Apply \/ ApplyFails \/ Drop \/ Prepare
             \/ PrepareFails \/ Finish
Deletion == DeleteRow \/ DeleteJob \/ DeleteWorker
Clear == ClearRead \/ ClearCommit \/ ClearGone \/ ClearJob

Next ==
  \/ Retry
  \/ \E k \in Requests : LockTake(k)
  \/ Attempt \/ Connect \/ Deletion
  \/ \E ask \in Asks : PatchRead(ask)
  \/ PatchCommit \/ PatchGone
  \/ Clear
  \/ WorkerDies \/ Crash \/ Recover

Spec == Init /\ [][Next]_vars

(* Coroutines run; the lock is an asyncio.Lock, which serves its waiters   *)
(* in the order in which they came.                                        *)
FairSpec ==
  /\ Spec
  /\ WF_vars(Attempt) /\ WF_vars(Connect) /\ WF_vars(Deletion)
  /\ SF_vars(LockTake("sync")) /\ WF_vars(Recover)
-----------------------------------------------------------------------------
(* What must hold.                                                         *)

RowType ==
  /\ alive \in BOOLEAN /\ sched \in Schedules /\ channel \in Channels
  /\ rev \in Nat /\ tried \in Nat /\ reset \in BOOLEAN
  /\ state \in Results \cup {"none"}
  /\ state = "none" <=> rev = 0
RunType ==
  run \in [kind : Requests \cup {"none"},
           pc : {"none", "begin", "apply", "drop", "prepare", "finish", "job",
                 "worker"},
           rev : Nat, reset : BOOLEAN, sched : Schedules,
           channel : Channels \cup {"OTHER"}, result : Results \cup {"none"}]
TypeOK ==
  /\ RowType /\ RunType
  /\ job \in Crons /\ worker \in BOOLEAN /\ recovering \in BOOLEAN
  /\ waiting \in BOOLEAN
  /\ patch \in {NoPatch} \cup [pc : {"commit"}, ask : Asks, seen : Schedules]
  /\ clear \in {NoClear, [pc |-> "job"]}
                \cup [pc : {"commit"}, seen : Schedules]
  /\ need \in Nat /\ dropped \in Nat /\ clears \in Nat /\ crashes \in Nat

(* A row that says synchronized means the account as it is now: whatever   *)
(* changes during an attempt, the scheduler has the job of the current     *)
(* settings.  A one-click clear changes them without registering it, so    *)
(* nothing is claimed after one.                                           *)
SyncedJob ==
  state = "synchronized" /\ ~recovering /\ clears = 0 => job = JobOf(sched)

(* A request for a new worker outlives other changes, failed attempts and  *)
(* crashes: synchronized means that the worker of before is gone.          *)
RebuildDone == state = "synchronized" => need <= dropped

(* The lock keeps an attempt from bringing a deleted account back to life  *)
(* ("prevents an old alignment from rebuilding the worker during the       *)
(* deletion", account_crud.py:612).                                        *)
DeletedLeavesNothing ==
  ~alive /\ run.kind # "delete" => job = NoJob /\ ~worker

(* Every registered revision is attempted, or a later one is; no crash and *)
(* no stream of other requests can keep it pending untried.                *)
EveryTargetTried ==
  \A r \in 1 .. MaxRev : rev = r /\ alive ~> tried >= r \/ ~alive

(* A schedule that was stopped starts again only when somebody asks for    *)
(* that: the one-click clear stops it first, "so that cron does not start  *)
(* executions during the manual clear" (account_execution.py:585).         *)
StopSticks ==
  [][~sched.started /\ sched'.started => patch.ask.to = "start"]_vars
=============================================================================
