-------------------------- MODULE ExecutionControl --------------------------
(***************************************************************************)
(* The execution control plane of ONE trading account                      *)
(* (src/axile/server/execution): admission of tickets (intents.py), the    *)
(* in-memory registry (registry.py), the account dispatcher                *)
(* (dispatcher.py), the life of one execution (lifecycle.py), termination, *)
(* and start-up recovery.  Slots, unique indexes, the asyncio lock and the *)
(* dispatcher are all keyed by account id, so accounts do not interact     *)
(* here and one account is the whole story.                                *)
(*                                                                         *)
(* asyncio interleaves coroutines only at awaits.  An action is therefore  *)
(* a run of code between two awaits, or one database transaction.  Every   *)
(* snapshot that the code keeps across an await is kept in the state.      *)
(*                                                                         *)
(* Supplement plans are seen here only through what they do to a ticket: a *)
(* ticket demanded by nothing but supplement steps (stepOnly) can be       *)
(* revoked by a cancellation.                                              *)
(***************************************************************************)
EXTENDS Naturals, FiniteSets

CONSTANTS
  Ids,          \* execution ids (uuids): the tickets that can ever exist
  NoId,         \* Python's None where an execution id is expected
  Outcomes,     \* statuses a finished trade can be recorded with
  Asks,         \* <<kind, source>> of the tickets that are requested
  Stops,        \* ways in which tickets and runs are stopped
  MaxRefreshes, \* bound: how often a refresh occupies the account
  MaxCrashes    \* bound: how often the server process may die

Completion == {"SUCCEEDED", "FAILED", "SKIPPED", "PARTIAL"}
Terminal   == Completion \cup {"TERMINATED"}
Running    == {"RUNNING", "TERMINATING"}
Status     == Terminal \cup Running \cup {"QUEUED"}
Kinds      == {"REBALANCE", "CLEAR_POSITIONS"}
Requests   == {<<"REBALANCE", "request">>, <<"REBALANCE", "step">>,
               <<"CLEAR_POSITIONS", "request">>}
MaybeId    == Ids \cup {NoId}

ASSUME ControlAssumption ==
  /\ NoId \notin Ids
  /\ Outcomes \subseteq Completion
  /\ Asks \subseteq Requests
  /\ Stops \subseteq {"cancel", "terminate", "unlocked"}
  /\ MaxRefreshes \in Nat /\ MaxCrashes \in Nat

VARIABLES
  \* --- the database, which survives a crash
  status,       \* execution_intent.status; "NONE" before the row exists
  kind,         \* execution_intent.kind
  stepOnly,     \* rows of supplement steps without independent_request
  started,      \* rows with started_at set
  record,       \* status told by the row of execute_record, "NONE" if none
  \* --- the registry, lost in a crash
  mem,          \* _execution_tasks[id].status, "ABSENT" if there is no entry
  signalled,    \* ids whose cancel_event is set
  owned,        \* ids whose entry holds the asyncio task
  evicting,     \* ids with an eviction timer running
  runSlot,      \* _running_account_executions
  queSlot,      \* _account_queued_executions
  refresh,      \* the asset or target refresh that occupies the account
  \* --- coroutines
  ctl,          \* the holder of account_lock and its locals
  disp,         \* the registered dispatcher of the account
  dseen,        \* the queued row it last loaded
  leaving,      \* dispatchers past their loop, before their last load
  leavingSeen,  \* dispatchers whose last load found a queued row
  task,         \* the execution task the dispatcher waits for
  \* --- process life
  phase,        \* "up", or the stage of start-up recovery
  unrecorded,   \* interrupted row already FAILED but not yet recorded
  crashes,      \* number of crashes so far
  refreshes     \* number of refreshes so far

dbVars   == <<status, kind, stepOnly, started, record>>
slotVars == <<runSlot, queSlot, refresh>>
memVars  == <<mem, signalled, owned, evicting>>
dispVars == <<disp, dseen, leaving, leavingSeen>>
lifeVars == <<phase, unrecorded, crashes, refreshes>>
vars == <<dbVars, memVars, slotVars, ctl, dispVars, task, lifeVars>>

-----------------------------------------------------------------------------
(* Reading the state.                                                      *)

Fresh     == {x \in Ids : status[x] = "NONE"}
DbQueued  == IF \E x \in Ids : status[x] = "QUEUED"
             THEN CHOOSE x \in Ids : status[x] = "QUEUED" ELSE NoId
DbRunning == IF \E x \in Ids : status[x] \in Running
             THEN CHOOSE x \in Ids : status[x] \in Running ELSE NoId
Cleared(slot, x) == IF slot = x THEN NoId ELSE slot

NoCtl  == [pc |-> "free", kind |-> "NONE", src |-> "NONE",
           run |-> NoId, que |-> NoId, x |-> NoId]
NoTask == [id |-> NoId, pc |-> "none", out |-> "NONE", end |-> "none"]

(* Mutant: only executions are looked at.                                  *)
TryRegisterBlind == runSlot = NoId

TryRegister == runSlot = NoId /\ refresh = "none"

(* The status request_execution_termination leaves for an entry.           *)
Requested(s) == CASE s = "QUEUED"  -> "TERMINATED"
                  [] s = "RUNNING" -> "TERMINATING"
                  [] OTHER         -> s

(* The first execute_record of an execution id stays.                      *)
Recorded(x, s) == IF record[x] = "NONE" THEN [record EXCEPT ![x] = s]
                  ELSE record

(* mark_intent_finished, where nothing can come between its look at the    *)
(* row and its update, or would write the same: a closed row is left alone.*)
Finished(x, s) == IF status[x] \in Terminal THEN status
                  ELSE [status EXCEPT ![x] = s]

(* revoke_cancelled_intents: queued rows nobody but steps asked for.       *)
Revoked == [x \in Ids |-> IF status[x] = "QUEUED" /\ x \in stepOnly
                          THEN "TERMINATED" ELSE status[x]]

(* asyncio.Task.cancel: before its try block a task just ends; inside it   *)
(* the finally clause still runs.                                          *)
Cancelled(x) ==
  IF x \notin owned \/ task.id # x \/ task.pc = "done" THEN task
  ELSE [task EXCEPT !.pc = IF @ \in {"bind", "bindRead", "bindMark"}
                           THEN "done" ELSE "unwind",
                    !.end = "cancelled"]

(* wake_account_dispatcher.                                                *)
Wake == disp' = IF disp = "off" THEN "load" ELSE disp

-----------------------------------------------------------------------------
(* Admission: submit_intent, under account_lock.                           *)

SubmitBegin(k, s) ==
  /\ phase = "up" /\ ctl.pc = "free" /\ Fresh # {}
  /\ ctl' = [NoCtl EXCEPT !.pc = "decide", !.kind = k, !.src = s,
                          !.run = DbRunning, !.que = DbQueued]
  /\ UNCHANGED <<dbVars, memVars, slotVars, dispVars, task, lifeVars>>

(* The conflict table reads the database rows loaded before the await and  *)
(* the memory slots as they are now.                                       *)
SeenRun == IF ctl.run # NoId THEN ctl.run ELSE runSlot
SeenQue == IF ctl.que # NoId THEN ctl.que ELSE queSlot
SeenKind(row, slot) ==
  CASE row # NoId                          -> kind[row]
    [] row = NoId /\ slot # NoId /\ mem[slot] # "ABSENT" -> kind[slot]
    [] OTHER                               -> "NONE"
RunKind == SeenKind(ctl.run, runSlot)
QueKind == SeenKind(ctl.que, queSlot)

Busy ==
  \/ RunKind = "CLEAR_POSITIONS"
  \/ ctl.kind = "CLEAR_POSITIONS" /\ SeenRun # NoId
  \/ ctl.kind = "REBALANCE" /\ QueKind = "CLEAR_POSITIONS"
  \/ /\ ctl.kind = "CLEAR_POSITIONS" /\ QueKind = "REBALANCE"
     /\ ctl.que = NoId
  \/ SeenRun # NoId /\ SeenQue # NoId /\ QueKind = "NONE"

Supersedes == ctl.kind = "CLEAR_POSITIONS" /\ QueKind = "REBALANCE"
Coalesces  == ~Supersedes /\ QueKind # "NONE"

SubmitConflict ==
  /\ ctl.pc = "decide" /\ Busy
  /\ ctl' = NoCtl
  /\ UNCHANGED <<dbVars, memVars, slotVars, dispVars, task, lifeVars>>

SubmitCoalesce ==
  /\ ctl.pc = "decide" /\ ~Busy /\ Coalesces
  /\ ctl' = [ctl EXCEPT !.pc = "attach", !.x = SeenQue]
  /\ UNCHANGED <<dbVars, memVars, slotVars, dispVars, task, lifeVars>>

SubmitReplace ==
  /\ ctl.pc = "decide" /\ ~Busy /\ Supersedes
  /\ ctl' = [ctl EXCEPT !.pc = "supersede", !.x = SeenQue]
  /\ UNCHANGED <<dbVars, memVars, slotVars, dispVars, task, lifeVars>>

SubmitCreate ==
  /\ ctl.pc = "decide" /\ ~Busy /\ QueKind = "NONE"
  /\ ctl' = [ctl EXCEPT !.pc = "insert", !.run = SeenRun]
  /\ UNCHANGED <<dbVars, memVars, slotVars, dispVars, task, lifeVars>>

(* _coalesce: a request makes the shared ticket independent of the steps.  *)
SubmitAttach ==
  /\ ctl.pc = "attach"
  /\ stepOnly' = IF ctl.src = "request" THEN stepOnly \ {ctl.x} ELSE stepOnly
  /\ ctl' = NoCtl
  /\ UNCHANGED <<status, kind, started, record, memVars, slotVars, dispVars,
                 task, lifeVars>>

(* _insert_intent up to its commit,                                        *)
SubmitInsert ==
  /\ ctl.pc = "insert"
  /\ \E x \in Fresh :
        /\ status' = [status EXCEPT ![x] = "QUEUED"]
        /\ kind' = [kind EXCEPT ![x] = ctl.kind]
        /\ stepOnly' = IF ctl.src = "step" THEN stepOnly \cup {x} ELSE stepOnly
        /\ ctl' = [ctl EXCEPT !.pc = "ensure", !.x = x]
  /\ UNCHANGED <<started, record, memVars, slotVars, dispVars, task, lifeVars>>

(* unless attach_step raises because the step is no longer wanted.         *)
SubmitRefuseStep ==
  /\ ctl.pc = "insert" /\ ctl.src = "step"
  /\ ctl' = NoCtl
  /\ UNCHANGED <<dbVars, memVars, slotVars, dispVars, task, lifeVars>>

(* ensure_memory_from_intent with status QUEUED, then the wake that only   *)
(* the branch without a running execution performs.                        *)
SubmitEnsure ==
  /\ ctl.pc = "ensure"
  /\ LET x == ctl.x IN
       /\ IF mem[x] = "ABSENT"
          THEN mem' = [mem EXCEPT ![x] = "QUEUED"] /\ queSlot' = x
          ELSE UNCHANGED <<mem, queSlot>>
       /\ IF ctl.run = NoId THEN Wake ELSE UNCHANGED disp
  /\ ctl' = NoCtl
  /\ UNCHANGED <<dbVars, signalled, owned, evicting, runSlot, refresh, dseen,
                 leaving, leavingSeen, task, lifeVars>>

(* _supersede_queued_with_clear: the CAS; when it is lost the submission   *)
(* starts over from fresh rows.                                            *)
Inserting == [ctl EXCEPT !.pc = "insert", !.x = NoId, !.run = NoId]

(* Mutant: the old ticket is not closed in the database.                   *)
SubmitSupersedeInMemory ==
  /\ ctl.pc = "supersede"
  /\ ctl' = [ctl EXCEPT !.pc = "superseded"]
  /\ UNCHANGED <<dbVars, memVars, slotVars, dispVars, task, lifeVars>>

SubmitSupersede ==
  /\ ctl.pc = "supersede" /\ status[ctl.x] = "QUEUED"
  /\ status' = [status EXCEPT ![ctl.x] = "TERMINATED"]
  /\ ctl' = [ctl EXCEPT !.pc = "superseded"]
  /\ UNCHANGED <<kind, stepOnly, started, record, memVars, slotVars, dispVars,
                 task, lifeVars>>

SubmitSupersedeLost ==
  /\ ctl.pc = "supersede" /\ status[ctl.x] # "QUEUED"
  /\ ctl' = [ctl EXCEPT !.pc = "decide", !.x = NoId,
                        !.run = DbRunning, !.que = DbQueued]
  /\ UNCHANGED <<dbVars, memVars, slotVars, dispVars, task, lifeVars>>

SubmitSuperseded ==
  /\ ctl.pc = "superseded"
  /\ LET x == ctl.x IN
       /\ mem' = [mem EXCEPT ![x] = Requested(@)]
       /\ signalled' = IF mem[x] = "RUNNING" THEN signalled \cup {x}
                       ELSE signalled
       /\ queSlot' = Cleared(queSlot, x)
       /\ ctl' = IF mem[x] = "ABSENT" THEN Inserting
                 ELSE [ctl EXCEPT !.pc = "finalize"]
  /\ UNCHANGED <<dbVars, owned, evicting, runSlot, refresh, dispVars, task,
                 lifeVars>>

-----------------------------------------------------------------------------
(* Cancellation of supplement groups and the terminate route.              *)

(* cancel_groups_locked up to its commit; op is "terminate", or "cancel",  *)
(* which is also what an account update does that changes the schedule.    *)
StopBegin(op) ==
  /\ phase = "up" /\ ctl.pc = "free"
  /\ op = "cancel" => Revoked # status
  /\ status' = Revoked
  /\ ctl' = [NoCtl EXCEPT !.pc = "reap", !.src = op]
  /\ UNCHANGED <<kind, stepOnly, started, record, memVars, slotVars, dispVars,
                 task, lifeVars>>

(* reap_cancelled_queue: drop the queued slot of a revoked ticket.         *)
ReapWanted == queSlot # NoId /\ status[queSlot] = "TERMINATED"
ReapedSlot == IF ReapWanted THEN NoId ELSE queSlot
ReapedMem  == IF ReapWanted /\ mem[queSlot] # "ABSENT"
              THEN [mem EXCEPT ![queSlot] = "TERMINATED"] ELSE mem

(* After the reap, terminate_running_account_execution picks the ids of    *)
(* the slots, or of the rows when both slots are empty.                    *)
StopReap ==
  /\ ctl.pc = "reap"
  /\ mem' = ReapedMem
  /\ queSlot' = ReapedSlot
  /\ LET empty == runSlot = NoId /\ ReapedSlot = NoId
         run   == IF empty THEN DbRunning ELSE runSlot
         que   == IF empty THEN DbQueued ELSE ReapedSlot
     IN  ctl' = IF ctl.src = "cancel" \/ (run = NoId /\ que = NoId) THEN NoCtl
                ELSE [NoCtl EXCEPT !.pc = "stop", !.run = run, !.que = que]
  /\ UNCHANGED <<dbVars, signalled, owned, evicting, runSlot, refresh,
                 dispVars, task, lifeVars>>

StopTarget == IF ctl.run # NoId THEN ctl.run ELSE ctl.que
StopRest   == IF ctl.run # NoId /\ ctl.que # NoId
              THEN [NoCtl EXCEPT !.pc = "stop", !.que = ctl.que] ELSE NoCtl

(* _terminate_one_execution: the CAS and its fallbacks.  The running slot  *)
(* expects RUNNING, the queued slot QUEUED.                                *)
StopQueued ==
  /\ ctl.pc = "stop"
  /\ ctl.run = NoId /\ status[StopTarget] = "QUEUED"
  /\ status' = [status EXCEPT ![StopTarget] = "TERMINATED"]
  /\ ctl' = [ctl EXCEPT !.pc = "signal", !.src = "queued", !.x = StopTarget]
  /\ UNCHANGED <<kind, stepOnly, started, record, memVars, slotVars, dispVars,
                 task, lifeVars>>

StopRunning ==
  /\ ctl.pc = "stop"
  /\ status[StopTarget] \in Running
  /\ status' = [status EXCEPT ![StopTarget] = "TERMINATING"]
  /\ ctl' = [ctl EXCEPT !.pc = "signal", !.src = "running", !.x = StopTarget]
  /\ UNCHANGED <<kind, stepOnly, started, record, memVars, slotVars, dispVars,
                 task, lifeVars>>

StopTooLate ==
  /\ ctl.pc = "stop"
  /\ status[StopTarget] \notin Running
  /\ ~(ctl.run = NoId /\ status[StopTarget] = "QUEUED")
  /\ ctl' = [ctl EXCEPT !.pc = "note", !.x = StopTarget]
  /\ UNCHANGED <<dbVars, memVars, slotVars, dispVars, task, lifeVars>>

(* The row was updated: signal the memory entry, hydrating a missing one.  *)
StopSignal ==
  /\ ctl.pc = "signal"
  /\ LET x     == ctl.x
         entry == IF mem[x] # "ABSENT" THEN mem[x]
                  ELSE IF ctl.src = "queued" THEN "QUEUED" ELSE "RUNNING"
         early == entry = "QUEUED"
     IN  /\ mem' = [mem EXCEPT ![x] = Requested(entry)]
         /\ signalled' = IF entry = "RUNNING" THEN signalled \cup {x}
                         ELSE signalled
         /\ runSlot' = IF mem[x] = "ABSENT" /\ ctl.src = "running" /\ TryRegister
                       THEN x ELSE runSlot
         /\ queSlot' = IF ctl.src = "queued" \/ early THEN Cleared(queSlot, x)
                       ELSE queSlot
         /\ ctl' = IF early THEN [ctl EXCEPT !.pc = "finalize"] ELSE StopRest
  /\ UNCHANGED <<dbVars, owned, evicting, refresh, dispVars, task, lifeVars>>

(* The row was already closed: only fill in the memory entry.              *)
StopNote ==
  /\ ctl.pc = "note"
  /\ LET x == ctl.x IN
       /\ mem' = [mem EXCEPT ![x] =
                    IF @ = "ABSENT" /\ status[x] \in Terminal THEN status[x]
                    ELSE Requested(@)]
       /\ signalled' = IF mem[x] = "RUNNING" THEN signalled \cup {x}
                       ELSE signalled
  /\ ctl' = StopRest
  /\ UNCHANGED <<dbVars, owned, evicting, slotVars, dispVars, task, lifeVars>>

(* _finalize_terminated_queued_execution, for both callers.                *)
StopFinalize ==
  /\ ctl.pc = "finalize"
  /\ task' = Cancelled(ctl.x)
  /\ record' = Recorded(ctl.x, "TERMINATED")
  /\ ctl' = IF ctl.kind # "NONE" THEN Inserting ELSE StopRest
  /\ UNCHANGED <<status, kind, stepOnly, started, memVars, slotVars, dispVars,
                 lifeVars>>

(* Who revokes without the account lock, and drops no slot: the one-click  *)
(* clear, and the close of a run that found the whole session over.        *)
RevokeUnlocked ==
  /\ phase = "up"
  /\ Revoked # status
  /\ status' = Revoked
  /\ UNCHANGED <<kind, stepOnly, started, record, memVars, slotVars, ctl,
                 dispVars, task, lifeVars>>
-----------------------------------------------------------------------------
(* The dispatcher of the account: _dispatch_account and                    *)
(* _run_claimed_intent.  The part of the finally clause that awaits runs   *)
(* after the dispatcher has been deregistered, so several dispatchers may  *)
(* be leaving while a new one works.                                       *)

DispLoad ==
  /\ disp = "load"
  /\ dseen' = DbQueued
  /\ disp' = "decide"
  /\ UNCHANGED <<dbVars, memVars, slotVars, ctl, leaving, leavingSeen, task,
                 lifeVars>>

NothingToRun ==
  \/ dseen = NoId
  \/ runSlot # NoId
  \/ queSlot # NoId /\ queSlot # dseen

DispExit ==
  /\ disp = "decide" /\ NothingToRun
  /\ disp' = "off"
  /\ dseen' = NoId
  /\ leaving' = leaving + 1
  /\ UNCHANGED <<dbVars, memVars, slotVars, ctl, leavingSeen, task, lifeVars>>

DispDrop ==
  /\ disp = "decide" /\ ~NothingToRun
  /\ mem[dseen] = "TERMINATED"
  /\ queSlot' = Cleared(queSlot, dseen)
  /\ disp' = "load" /\ dseen' = NoId
  /\ UNCHANGED <<dbVars, memVars, runSlot, refresh, ctl, leaving, leavingSeen,
                 task, lifeVars>>

(* The entry learns of the task only when it exists already.               *)
DispLaunch ==
  /\ disp = "decide" /\ ~NothingToRun
  /\ mem[dseen] # "TERMINATED"
  /\ task' = [NoTask EXCEPT !.id = dseen, !.pc = "bind"]
  /\ owned' = IF mem[dseen] = "ABSENT" THEN owned ELSE owned \cup {dseen}
  /\ disp' = "wait" /\ dseen' = NoId
  /\ UNCHANGED <<dbVars, mem, signalled, evicting, slotVars, ctl, leaving,
                 leavingSeen, lifeVars>>

(* The task is over.  A retry sleeps first, which changes nothing.         *)
DispCollect ==
  /\ disp = "wait" /\ task.pc = "done"
  /\ status' = IF task.end = "cancelled" THEN Finished(task.id, "TERMINATED")
               ELSE status
  /\ task' = NoTask
  /\ disp' = "load"
  /\ UNCHANGED <<kind, stepOnly, started, record, memVars, slotVars, ctl,
                 dseen, leaving, leavingSeen, lifeVars>>

LeaveLoad ==
  /\ leaving > 0
  /\ leaving' = leaving - 1
  /\ leavingSeen' = IF DbQueued # NoId THEN leavingSeen + 1 ELSE leavingSeen
  /\ UNCHANGED <<dbVars, memVars, slotVars, ctl, disp, dseen, task, lifeVars>>

(* Mutant: the leaving dispatcher does not look again.                     *)
LeaveForGood ==
  /\ leavingSeen > 0
  /\ leavingSeen' = leavingSeen - 1
  /\ UNCHANGED <<dbVars, memVars, slotVars, ctl, disp, dseen, leaving, task,
                 lifeVars>>

LeaveDecide ==
  /\ leavingSeen > 0
  /\ leavingSeen' = leavingSeen - 1
  /\ IF runSlot = NoId THEN Wake ELSE UNCHANGED disp
  /\ UNCHANGED <<dbVars, memVars, slotVars, ctl, dseen, leaving, task, lifeVars>>

-----------------------------------------------------------------------------
(* The execution task: _run_execution_task.                                *)

TaskTo(pc) == task' = [task EXCEPT !.pc = pc]
TaskEnds(end) == task' = [task EXCEPT !.pc = "unwind", !.end = end]

(* finalize_execution_task_state on an entry with status s.                *)
Finalized(x, s) ==
  IF s \in Terminal
  THEN /\ owned' = owned \ {x}
       /\ signalled' = signalled \ {x}
       /\ evicting' = evicting \cup {x}
  ELSE UNCHANGED <<owned, signalled, evicting>>

(* Mutants: one of the two slots is forgotten.                             *)
ReleaseRunSlot(x) ==
  /\ runSlot' = Cleared(runSlot, x)
  /\ UNCHANGED queSlot
  /\ Finalized(x, mem[x])
ReleaseQueSlot(x) ==
  /\ queSlot' = Cleared(queSlot, x)
  /\ UNCHANGED runSlot
  /\ Finalized(x, mem[x])

ReleaseSlots(x) ==
  /\ queSlot' = Cleared(queSlot, x)
  /\ runSlot' = Cleared(runSlot, x)
  /\ Finalized(x, mem[x])

TaskBind ==
  /\ task.pc = "bind"
  /\ \/ /\ mem[task.id] = "TERMINATED"
        /\ ReleaseSlots(task.id)
        /\ TaskTo("bindMark")
     \/ /\ mem[task.id] \notin {"TERMINATED", "ABSENT"}
        /\ TaskTo("calc")
        /\ UNCHANGED <<queSlot, runSlot, owned, signalled, evicting>>
     \/ /\ mem[task.id] = "ABSENT"
        /\ TaskTo("bindRead")
        /\ UNCHANGED <<queSlot, runSlot, owned, signalled, evicting>>
  /\ UNCHANGED <<dbVars, mem, refresh, ctl, dispVars, lifeVars>>

TaskBindRead ==
  /\ task.pc = "bindRead"
  /\ LET x == task.id IN
     \/ /\ status[x] = "QUEUED"
        /\ TaskTo("calc")
        /\ IF mem[x] = "ABSENT"
           THEN mem' = [mem EXCEPT ![x] = "QUEUED"] /\ queSlot' = x
           ELSE UNCHANGED <<mem, queSlot>>
        /\ UNCHANGED <<runSlot, owned, signalled, evicting>>
     \/ /\ status[x] # "QUEUED"
        /\ TaskTo("done")
        /\ ReleaseSlots(x)
        /\ UNCHANGED mem
  /\ UNCHANGED <<dbVars, refresh, ctl, dispVars, lifeVars>>

TaskBindMark ==
  /\ task.pc = "bindMark"
  /\ status' = Finished(task.id, "TERMINATED")
  /\ TaskTo("done")
  /\ UNCHANGED <<kind, stepOnly, started, record, memVars, slotVars, ctl,
                 dispVars, lifeVars>>

(* Computing the target, checking the channel, building the request.       *)
TaskCalculate ==
  /\ task.pc = "calc"
  /\ TaskTo("promote")
  /\ UNCHANGED <<dbVars, memVars, slotVars, ctl, dispVars, lifeVars>>

(* promote_intent_to_running takes account_lock and asks                   *)
(* validate_execution_requests, which only a ticket of steps can fail.     *)
MayBeValid(x)   == x \in stepOnly => status[x] = "QUEUED"
MayBeInvalid(x) == x \in stepOnly
Promotable(x)   == status[x] = "QUEUED"
                   /\ mem[x] \notin Terminal \cup {"TERMINATING"}

TaskRefused ==
  /\ task.pc = "promote" /\ ctl.pc = "free"
  /\ MayBeInvalid(task.id)
  /\ status' = Finished(task.id, "TERMINATED")
  /\ queSlot' = Cleared(queSlot, task.id)
  /\ TaskEnds("skip")
  /\ UNCHANGED <<kind, stepOnly, started, record, memVars, runSlot, refresh,
                 ctl, dispVars, lifeVars>>

TaskPromote ==
  /\ task.pc = "promote" /\ ctl.pc = "free"
  /\ MayBeValid(task.id) /\ Promotable(task.id) /\ TryRegister
  /\ runSlot' = task.id
  /\ ctl' = [NoCtl EXCEPT !.pc = "claim", !.x = task.id]
  /\ UNCHANGED <<dbVars, memVars, queSlot, refresh, dispVars, task, lifeVars>>

(* The ticket is closed already, or a refresh has the channel for now.     *)
TaskNotPromoted ==
  /\ task.pc = "promote" /\ ctl.pc = "free"
  /\ MayBeValid(task.id) /\ ~(Promotable(task.id) /\ TryRegister)
  /\ TaskEnds(IF Promotable(task.id) THEN "retry" ELSE "skip")
  /\ UNCHANGED <<dbVars, memVars, slotVars, ctl, dispVars, lifeVars>>

(* The CAS from QUEUED to RUNNING, under the lock taken above.             *)
(* Mutant: the row is updated whatever it says.                            *)
TaskClaimBlind ==
  /\ ctl.pc = "claim"
  /\ status' = [status EXCEPT ![ctl.x] = "RUNNING"]
  /\ started' = started \cup {ctl.x}
  /\ ctl' = [ctl EXCEPT !.pc = "claimed"]
  /\ UNCHANGED <<kind, stepOnly, record, memVars, slotVars, dispVars, task,
                 lifeVars>>

TaskClaim ==
  /\ ctl.pc = "claim" /\ status[ctl.x] = "QUEUED"
  /\ status' = [status EXCEPT ![ctl.x] = "RUNNING"]
  /\ started' = started \cup {ctl.x}
  /\ ctl' = [ctl EXCEPT !.pc = "claimed"]
  /\ UNCHANGED <<kind, stepOnly, record, memVars, slotVars, dispVars, task,
                 lifeVars>>

TaskClaimLost ==
  /\ ctl.pc = "claim" /\ status[ctl.x] # "QUEUED"
  /\ runSlot' = Cleared(runSlot, ctl.x)
  /\ TaskEnds("skip")
  /\ ctl' = NoCtl
  /\ UNCHANGED <<dbVars, memVars, queSlot, refresh, dispVars, lifeVars>>

(* Mutant: the registry entry is not moved to RUNNING.                     *)
TaskClaimedSilently ==
  /\ ctl.pc = "claimed"
  /\ queSlot' = Cleared(queSlot, ctl.x)
  /\ TaskTo("work")
  /\ ctl' = NoCtl
  /\ UNCHANGED <<dbVars, memVars, runSlot, refresh, dispVars, lifeVars>>

TaskClaimed ==
  /\ ctl.pc = "claimed"
  /\ queSlot' = Cleared(queSlot, ctl.x)
  /\ mem' = [mem EXCEPT ![ctl.x] = IF @ = "QUEUED" THEN "RUNNING" ELSE @]
  /\ TaskTo("work")
  /\ ctl' = NoCtl
  /\ UNCHANGED <<dbVars, signalled, owned, evicting, runSlot, refresh,
                 dispVars, lifeVars>>

(* The end of the run is first told to execute_record: an exception before *)
(* the promotion (o is FAILED), a result o of the worker, or a run that    *)
(* raises once it wrote its record.  A normal end is read back from the    *)
(* record that was kept, which is an earlier one if there is one.          *)
Resolved(s) == IF s = "TERMINATED" THEN "FAILED" ELSE s
(* Mutants: the kept record is ignored; nothing but the record is read.    *)
EndOfResult(x, o) == o
EndOfRecord(x, o) == record[x]
EndOf(x, o) ==
  IF o = "TERMINATED" \/ record[x] = "NONE" THEN o ELSE Resolved(record[x])

TaskRecord(o) ==
  /\ \/ task.pc = "calc" /\ o = "FAILED"
     \/ task.pc = "work"
  /\ record' = Recorded(task.id, o)
  /\ \E out \in {EndOf(task.id, o)}
               \cup (IF o = "TERMINATED" THEN {} ELSE {"FAILED"}) :
        task' = [task EXCEPT !.pc = "tell",
                             !.out = IF task.pc = "calc" THEN "FAILED" ELSE out]
  /\ UNCHANGED <<status, kind, stepOnly, started, memVars, slotVars, ctl,
                 dispVars, lifeVars>>

(* then to the registry,                                                   *)
TaskTell ==
  /\ task.pc = "tell"
  /\ mem' = [mem EXCEPT ![task.id] = IF @ = "ABSENT" THEN @ ELSE task.out]
  /\ TaskTo("mark")
  /\ UNCHANGED <<dbVars, signalled, owned, evicting, slotVars, ctl, dispVars,
                 lifeVars>>

(* then to the row.  mark_intent_finished looks at the row first and leaves *)
(* a closed one alone, but its session has not begun a transaction when it *)
(* looks: another close may be committed before the update.                *)
TaskLook ==
  /\ task.pc = "mark"
  /\ task' = [task EXCEPT !.end = "normal",
                          !.pc = IF status[task.id] \in Terminal THEN "unwind"
                                 ELSE "close"]
  /\ UNCHANGED <<dbVars, memVars, slotVars, ctl, dispVars, lifeVars>>

TaskMark ==
  /\ task.pc = "close"
  /\ status' = [status EXCEPT ![task.id] = task.out]
  /\ TaskTo("unwind")
  /\ UNCHANGED <<kind, stepOnly, started, record, memVars, slotVars, ctl,
                 dispVars, lifeVars>>

(* The finally clause gives the slots back, unless it will be retried.     *)
TaskUnwind ==
  /\ task.pc = "unwind"
  /\ TaskTo("done")
  /\ IF task.end = "retry"
     THEN UNCHANGED <<queSlot, runSlot, owned, signalled, evicting>>
     ELSE ReleaseSlots(task.id)
  /\ UNCHANGED <<dbVars, mem, refresh, ctl, dispVars, lifeVars>>

-----------------------------------------------------------------------------
(* Refreshes, eviction timers, crashes and start-up recovery.              *)

RefreshBegin(r) ==
  /\ phase = "up" /\ TryRegister
  /\ refreshes < MaxRefreshes
  /\ refreshes' = refreshes + 1
  /\ refresh' = r
  /\ UNCHANGED <<dbVars, memVars, runSlot, queSlot, ctl, dispVars, task,
                 phase, unrecorded, crashes>>

RefreshEnd ==
  /\ refresh # "none"
  /\ refresh' = "none"
  /\ UNCHANGED <<dbVars, memVars, runSlot, queSlot, ctl, dispVars, task,
                 lifeVars>>

(* The delay of the eviction timer is minutes, longer than a request or    *)
(* the end of a task that still deals with the entry takes.                *)
Evict(x) ==
  /\ x \in evicting
  /\ x \notin {ctl.run, ctl.que, ctl.x, task.id}
  /\ evicting' = evicting \ {x}
  /\ mem' = [mem EXCEPT ![x] = IF @ \in Terminal THEN "ABSENT" ELSE @]
  /\ UNCHANGED <<dbVars, signalled, owned, slotVars, ctl, dispVars, task,
                 lifeVars>>

Crash ==
  /\ crashes < MaxCrashes
  /\ crashes' = crashes + 1
  /\ phase' = "supplements"
  /\ unrecorded' = NoId
  /\ mem' = [x \in Ids |-> "ABSENT"]
  /\ signalled' = {} /\ owned' = {} /\ evicting' = {}
  /\ runSlot' = NoId /\ queSlot' = NoId /\ refresh' = "none"
  /\ ctl' = NoCtl /\ task' = NoTask
  /\ disp' = "off" /\ dseen' = NoId /\ leaving' = 0 /\ leavingSeen' = 0
  /\ UNCHANGED <<dbVars, refreshes>>

(* recover_supplements may revoke the queued ticket of an expired group.   *)
RecoverSupplements ==
  /\ phase = "supplements"
  /\ phase' = "interrupted"
  /\ status' \in {status, Revoked}
  /\ UNCHANGED <<kind, stepOnly, started, record, memVars, slotVars, ctl,
                 dispVars, task, unrecorded, crashes, refreshes>>

(* recover_intents_on_startup: an interrupted row is closed, then recorded.*)
(* Mutant: an interrupted run is queued again.                             *)
RecoverByRerun ==
  /\ phase = "interrupted" /\ unrecorded = NoId
  /\ \E x \in Ids :
        /\ status[x] \in Running
        /\ status' = [status EXCEPT ![x] = "QUEUED"]
  /\ UNCHANGED <<kind, stepOnly, started, record, memVars, slotVars, ctl,
                 dispVars, task, lifeVars>>
RecoverInterrupted ==
  /\ phase = "interrupted" /\ unrecorded = NoId
  /\ \E x \in Ids :
        /\ status[x] \in Running
        /\ status' = Finished(x, "FAILED")
        /\ unrecorded' = x
  /\ UNCHANGED <<kind, stepOnly, started, record, memVars, slotVars, ctl,
                 dispVars, task, phase, crashes, refreshes>>

RecoverRecord ==
  /\ phase = "interrupted" /\ unrecorded # NoId
  /\ record' = Recorded(unrecorded, "FAILED")
  /\ runSlot' = Cleared(runSlot, unrecorded)
  /\ queSlot' = Cleared(queSlot, unrecorded)
  /\ unrecorded' = NoId
  /\ UNCHANGED <<status, kind, stepOnly, started, memVars, refresh, ctl,
                 dispVars, task, phase, crashes, refreshes>>

RecoverQueued ==
  /\ phase = "interrupted" /\ unrecorded = NoId /\ DbRunning = NoId
  /\ phase' = "up"
  /\ IF DbQueued = NoId THEN UNCHANGED <<mem, queSlot, disp>>
     ELSE /\ mem' = [mem EXCEPT ![DbQueued] = "QUEUED"]
          /\ queSlot' = DbQueued
          /\ Wake
  /\ UNCHANGED <<dbVars, signalled, owned, evicting, runSlot, refresh, ctl,
                 dseen, leaving, leavingSeen, task, unrecorded,
                 crashes, refreshes>>

-----------------------------------------------------------------------------
Init ==
  /\ status = [x \in Ids |-> "NONE"] /\ kind = [x \in Ids |-> "NONE"]
  /\ record = [x \in Ids |-> "NONE"]
  /\ stepOnly = {} /\ started = {}
  /\ mem = [x \in Ids |-> "ABSENT"]
  /\ signalled = {} /\ owned = {} /\ evicting = {}
  /\ runSlot = NoId /\ queSlot = NoId /\ refresh = "none"
  /\ ctl = NoCtl /\ task = NoTask
  /\ disp = "off" /\ dseen = NoId /\ leaving = 0 /\ leavingSeen = 0
  /\ phase = "up" /\ unrecorded = NoId
  /\ crashes = 0 /\ refreshes = 0

Admission ==
  \/ SubmitConflict \/ SubmitCoalesce \/ SubmitReplace \/ SubmitCreate
  \/ SubmitAttach \/ SubmitInsert \/ SubmitRefuseStep
  \/ SubmitEnsure \/ SubmitSupersede \/ SubmitSupersedeLost
  \/ SubmitSuperseded
Stopping ==
  \/ StopReap \/ StopQueued \/ StopRunning \/ StopTooLate
  \/ StopSignal \/ StopNote \/ StopFinalize
Dispatching ==
  DispLoad \/ DispExit \/ DispDrop \/ DispLaunch \/ DispCollect
Leaving == LeaveLoad \/ LeaveDecide
Promoting == TaskRefused \/ TaskPromote \/ TaskNotPromoted
Claiming == TaskClaim \/ TaskClaimLost \/ TaskClaimed
Results == Outcomes \cup {"FAILED", "TERMINATED"}
Executing ==
  \/ TaskBind \/ TaskBindRead \/ TaskBindMark \/ TaskCalculate
  \/ \E o \in Results : TaskRecord(o)
  \/ TaskTell \/ TaskLook \/ TaskMark \/ TaskUnwind
Recovering ==
  RecoverSupplements \/ RecoverInterrupted \/ RecoverRecord \/ RecoverQueued
Requesting ==
  \/ \E r \in Asks : SubmitBegin(r[1], r[2])
  \/ \E op \in Stops \cap {"cancel", "terminate"} : StopBegin(op)
  \/ "unlocked" \in Stops /\ RevokeUnlocked
  \/ \E r \in {"asset", "target"} : RefreshBegin(r)

Next ==
  \/ Requesting \/ Admission \/ Stopping
  \/ Dispatching \/ Leaving \/ Promoting \/ Claiming \/ Executing
  \/ RefreshEnd \/ (\E x \in Ids : Evict(x))
  \/ Crash \/ Recovering

Spec == Init /\ [][Next]_vars

(* The event loop runs every ready coroutine, timers fire, the worker ends *)
(* every run (its own time limit), and asyncio.Lock is first come, first   *)
(* served, so a promotion that keeps waiting for it gets it.  Nothing is   *)
(* assumed of requests, refreshes and crashes.                             *)
Fairness ==
  /\ WF_vars(Admission) /\ WF_vars(Stopping)
  /\ WF_vars(Dispatching) /\ WF_vars(LeaveLoad) /\ WF_vars(LeaveDecide)
  /\ SF_vars(Promoting) /\ WF_vars(Claiming) /\ WF_vars(Executing)
  /\ WF_vars(RefreshEnd) /\ \A x \in Ids : WF_vars(Evict(x))
  /\ WF_vars(Recovering)

FairSpec == Spec /\ Fairness

-----------------------------------------------------------------------------
(* What must hold.                                                         *)

CtlPcs == {"free", "decide", "attach", "insert", "ensure", "supersede",
           "superseded", "reap", "stop", "signal", "note", "finalize",
           "claim", "claimed"}
TaskPcs == {"none", "bind", "bindRead", "bindMark", "calc", "promote", "work",
            "tell", "mark", "close", "unwind", "done"}
CtlType == [pc : CtlPcs, kind : Kinds \cup {"NONE"},
            src : {"NONE", "request", "step", "cancel", "terminate",
                   "queued", "running"},
            run : MaybeId, que : MaybeId, x : MaybeId]
TaskType == [id : MaybeId, pc : TaskPcs, out : Terminal \cup {"NONE"},
             end : {"none", "normal", "skip", "retry", "cancelled"}]

DbType ==
  /\ status \in [Ids -> Status \cup {"NONE"}]
  /\ kind \in [Ids -> Kinds \cup {"NONE"}]
  /\ stepOnly \subseteq Ids /\ started \subseteq Ids
  /\ record \in [Ids -> Terminal \cup {"NONE"}]
RegistryType ==
  /\ mem \in [Ids -> Status \cup {"ABSENT"}]
  /\ signalled \subseteq Ids /\ owned \subseteq Ids /\ evicting \subseteq Ids
  /\ runSlot \in MaybeId /\ queSlot \in MaybeId
  /\ refresh \in {"none", "asset", "target"}
DispType ==
  /\ disp \in {"off", "load", "decide", "wait"} /\ dseen \in MaybeId
  /\ leaving \in Nat /\ leavingSeen \in Nat
LifeType ==
  /\ phase \in {"up", "supplements", "interrupted"}
  /\ unrecorded \in MaybeId
  /\ crashes \in Nat /\ refreshes \in Nat

TypeOK ==
  DbType /\ RegistryType /\ ctl \in CtlType /\ task \in TaskType
    /\ DispType /\ LifeType

(* Orders are placed only while the execution occupies the channel of the  *)
(* account (try_register_running_execution): no refresh and no other       *)
(* execution can hold it, and the row says that it runs.                   *)
ChannelExclusive ==
  task.pc = "work" => /\ runSlot = task.id /\ refresh = "none"
                      /\ status[task.id] \in Running

(* The unique indexes of execution_intent (one queued and one running row  *)
(* per account) never have to refuse an insert or a claim: the lock and    *)
(* the conflict table of submit_intent suffice.                            *)
IndexesNeverBite ==
  \A x, y \in Ids : x # y =>
    /\ ~(status[x] = "QUEUED" /\ status[y] = "QUEUED")
    /\ ~(status[x] \in Running /\ status[y] \in Running)

(* The row and execute_record do not contradict each other: a row that     *)
(* succeeded has a record of success, and a recorded success is never      *)
(* left waiting, nor closed as stopped.                                    *)
LedgerAgrees ==
  \A x \in Ids :
    /\ status[x] = "SUCCEEDED" => record[x] = "SUCCEEDED"
    /\ record[x] = "SUCCEEDED" => status[x] \notin {"QUEUED", "TERMINATED"}

(* A row that says TERMINATING is not just a promise: its worker has been  *)
(* signalled, or the terminate route that wrote it is about to do so.      *)
StopIsHeard ==
  \A x \in Ids :
    status[x] = "TERMINATING" /\ task.id = x /\ task.pc = "work" =>
      \/ x \in signalled
      \/ ctl.pc = "signal" /\ ctl.x = x

(* When nothing is going on, the slot that says which ticket waits names   *)
(* a ticket that does wait; a stale one would refuse every one-click clear.*)
(* Only who revokes without the lock leaves one, and only of a ticket that *)
(* never started and that nobody stopped or replaced: the slot of a ticket *)
(* that ran, failed, was refused, stopped or superseded is given back.     *)
Quiet ==
  /\ phase = "up" /\ ctl.pc = "free" /\ disp = "off" /\ task.pc = "none"
  /\ leaving = 0 /\ leavingSeen = 0
Stranded(x) ==
  /\ "unlocked" \in Stops
  /\ status[x] = "TERMINATED" /\ x \notin started /\ record[x] # "TERMINATED"
QueuedSlotIsReal ==
  Quiet /\ queSlot # NoId => status[queSlot] = "QUEUED" \/ Stranded(queSlot)

(* A closed row is never reopened and a ticket closed before it started    *)
(* never starts, whatever races with the close.                            *)
NeverReopened ==
  [][\A x \in Ids : status[x] \in Terminal =>
       status'[x] \in Terminal /\ x \notin started' \ started]_vars

(* Every execution that starts is closed and gives the channel back, by    *)
(* its task, a termination or start-up recovery, whatever it ends with     *)
(* (_run_execution_task, recover_intents_on_startup).                      *)
Occupied == \E x \in Ids : status[x] \in Running \/ runSlot = x
EveryRunEnds == Occupied ~> ~Occupied

(* A ticket that waits while a dispatcher is registered is not forgotten   *)
(* by it, even when the dispatcher is just about to leave.                 *)
DispatcherServes ==
  \A x \in Ids : status[x] = "QUEUED" /\ disp # "off" ~> status[x] # "QUEUED"

(* Every step of the control plane is a step of the ledger or leaves it    *)
(* alone: the registry, the lock and the dispatcher add nothing to what    *)
(* can happen to the tickets of an account.                                *)
Ledger == INSTANCE TicketLedger WITH Ids <- Ids, status <- status, refresh <- refresh
RefinesLedger == Ledger!Spec
=============================================================================
