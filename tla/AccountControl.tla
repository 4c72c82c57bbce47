--------------------------- MODULE AccountControl ---------------------------
(***************************************************************************)
(* The account control of one account: who may place an order, cancel or   *)
(* query, and how often (executor/account_control, and under server/       *)
(* execution_account_control.py, account_control and the worker).          *)
(*                                                                         *)
(* Work is done in contexts: a run of the algorithm, an order command of   *)
(* the pages, a catalog query in the background.  Each has a guard with a  *)
(* baseline read from the database, counts what it permits, and writes its *)
(* counts when it ends; a row in the database says whether it has.  Guards *)
(* of CTP share the counts and the queue of their process.  A worker may   *)
(* be lost with everything it has not written, and so may the server.      *)
(*                                                                         *)
(* Time is relative: buckets are named for the current minute and the      *)
(* current day, since no other bucket is read again, and the end of one    *)
(* empties them.  Rules by symbol and minimal intervals are left out.      *)
(***************************************************************************)
EXTENDS Integers, Sequences, SequencesExt

CONSTANTS
    Ops,          \* operations that are controlled
    Risk,         \* those that open a new position
    Priority,     \* of each operation, 0 is served first
    Rules,        \* limits on how often a set of operations may be done
    Sharings,     \* whether guards share their counts (TRUE for CTP)
    Kinds,        \* the contexts that may be begun, by their order
    MaxAsks,      \* bound: operations of a context
    MaxFaults     \* bound: workers lost, writes failed, restarts

Spans == {"minute", "day"}
ContextKinds == {"run", "order", "catalog"}

ASSUME ControlAssumption ==
    /\ IsFiniteSet(Ops) /\ Risk \subseteq Ops
    /\ Priority \in [Ops -> Nat]
    /\ \A r \in Rules :
        /\ r.ops \subseteq Ops /\ r.span \in Spans
        /\ r.limit \in Nat \ {0} /\ r.waits \in BOOLEAN
    /\ Sharings \subseteq BOOLEAN
    /\ IsFiniteSet(Kinds) /\ \A k \in Kinds : k \in Seq(ContextKinds)
    /\ MaxAsks \in Nat
    /\ MaxFaults \in Nat

VARIABLES
    plan,       \* the kinds of the contexts, in their order; never changed
    shared,     \* the guards share their counts; never changed
    worker,     \* "up", "spoiled" when it is to be replaced, or "gone"
    ctx,        \* the contexts and their guards
    lock,       \* the context that holds the worker's resource lock, or 0
    active,     \* the registered guard, or 0
    quota,      \* the counts that the process shares
    queue,      \* the requests that wait for a permit, in their order
    saved,      \* counts in the database, by the context that wrote them
    row,        \* the row of each context
    seen,       \* the run whose row the sampling has read, or 0
    faults,     \* what failed so far
    sent        \* history: what was permitted in this minute and this day

vars == <<plan, shared, worker, ctx, lock, active, quota, queue, saved, row, seen, faults, sent>>

Contexts == 1..Max({Len(k) : k \in Kinds})
Ids == 1..Len(plan)
Nothing == [b \in Ops \X Spans |-> 0]
NoContext == [st |-> "none", guard |-> 0, base |-> Nothing, own |-> Nothing,
              today |-> FALSE, bad |-> FALSE, broken |-> FALSE, op |-> "none", left |-> 0]

Init ==
    /\ plan \in Kinds
    /\ shared \in Sharings
    /\ worker = "up"
    /\ ctx = [c \in Contexts |-> NoContext]
    /\ lock = 0
    /\ active = 0
    /\ quota = Nothing
    /\ queue = <<>>
    /\ saved = [c \in Contexts |-> Nothing]
    /\ row = [c \in Contexts |-> [st |-> "none", end |-> "open"]]
    /\ seen = 0
    /\ faults = 0
    /\ sent = Nothing

-----------------------------------------------------------------------------
(* Counts.                                                                 *)
Plus(x, y) == [b \in Ops \X Spans |-> x[b] + y[b]]
Larger(x, y) == [b \in Ops \X Spans |-> IF x[b] >= y[b] THEN x[b] ELSE y[b]]
Incremented(x, op) == [b \in Ops \X Spans |-> IF b[1] = op THEN x[b] + 1 ELSE x[b]]
Emptied(x, spans) == [b \in Ops \X Spans |-> IF b[2] \in spans THEN 0 ELSE x[b]]
Count(r, x) == SumFunction([o \in r.ops |-> x[<<o, r.span>>]])
Reached(r, x) == Count(r, x) >= r.limit

(* What is in the database, over all contexts.                             *)
DailyCounters == FoldFunction(Plus, Nothing, saved)

Guard(c) == ctx[c].guard
View(c) == IF shared THEN quota ELSE Plus(ctx[Guard(c)].base, ctx[Guard(c)].own)

Live(c) == ctx[c].st \in {"loaded", "checked", "live"}
OwnsGuard(c) == Guard(c) = c

(* The head of the queue of a guard, or of all guards that share: the most *)
(* urgent request, and of those the oldest.                                *)
Waits(c) == \E i \in DOMAIN queue : queue[i].of = c
Before(i, j) ==
    \/ Priority[queue[i].op] < Priority[queue[j].op]
    \/ Priority[queue[i].op] = Priority[queue[j].op] /\ i <= j
HeadOf(c) ==
    /\ ctx[c].op # "none"
    /\ \E i \in DOMAIN queue :
        /\ queue[i].of = c
        /\ \A j \in DOMAIN queue :
            shared \/ Guard(queue[j].of) = Guard(c) => Before(i, j)

-----------------------------------------------------------------------------
(* A context begins.  A run and an order command hold the resource lock    *)
(* while they prepare, an order command until it ends; contexts begin in   *)
(* the order of their plan.                                                *)
Turn(c) == \A d \in Ids : d < c => ctx[d].st # "none"
NoRun == \A c \in Ids : plan[c] = "run" => ~Live(c)
(* Mutant: an order command does not wait for a run that prepares.         *)
MayBeginUnlocked(c) ==
    /\ ctx[c].st = "none" /\ Turn(c)
    /\ plan[c] = "run" => worker = "up" /\ NoRun
    /\ plan[c] = "order" => worker # "gone"
    /\ plan[c] = "catalog" => worker # "gone" /\ shared
MayBegin(c) ==
    /\ ctx[c].st = "none" /\ Turn(c)
    /\ plan[c] = "run" => worker = "up" /\ lock = 0 /\ NoRun
    /\ plan[c] = "order" => worker # "gone" /\ lock = 0
    /\ plan[c] = "catalog" => worker # "gone" /\ shared

Locked(c) == IF plan[c] = "catalog" THEN lock ELSE c

(* An order command during a run uses the guard of the run.                *)
Borrow(c) ==
    /\ MayBegin(c) /\ plan[c] = "order" /\ active # 0
    /\ ctx' = [ctx EXCEPT ![c] = [NoContext EXCEPT !.st = "live", !.guard = active,
                                                   !.left = MaxAsks]]
    /\ lock' = Locked(c)
    /\ UNCHANGED <<plan, shared, worker, active, quota, queue, saved, row, seen, faults, sent>>

LoadCounters(c) ==
    /\ MayBegin(c) /\ (plan[c] = "order" => active = 0)
    /\ ctx' = [ctx EXCEPT ![c] = [NoContext EXCEPT !.st = "loaded", !.guard = c, !.today = TRUE,
                                                   !.base = DailyCounters, !.left = MaxAsks]]
    /\ lock' = Locked(c)
    /\ UNCHANGED <<plan, shared, worker, active, quota, queue, saved, row, seen, faults, sent>>

(* A row that was not closed hides counts, unless it ended before today,   *)
(* belongs to the registered guard or opens no position.                   *)
HidesCounts(d) ==
    /\ row[d].st \in {"active", "incomplete"}
    /\ row[d].end # "earlier"
    /\ ~(row[d].st = "active" /\ d = active)
    /\ plan[d] # "catalog"
(* Mutant: only rows that somebody marked count.                           *)
IncompleteHistoryMarked == \E d \in Ids : HidesCounts(d) /\ row[d].st = "incomplete"
IncompleteHistory == \E d \in Ids : HidesCounts(d)

CheckHistory(c) ==
    /\ ctx[c].st = "loaded"
    /\ ctx' = [ctx EXCEPT ![c].st = "checked",
                          ![c].bad = IncompleteHistory /\ ctx[c].today]
    /\ UNCHANGED <<plan, shared, worker, lock, active, quota, queue, saved, row, seen, faults, sent>>

(* The guard is ready: a run registers it and gives the lock back, and a   *)
(* guard that shares brings its baseline into the shared counts.           *)
Ready(c, broken) ==
    /\ ctx' = [ctx EXCEPT ![c].st = "live", ![c].broken = broken]
    /\ active' = IF plan[c] = "run" THEN c ELSE active
    /\ lock' = IF plan[c] = "run" THEN 0 ELSE lock
    /\ quota' = IF shared THEN Larger(quota, ctx[c].base) ELSE quota

InsertRow(c) ==
    /\ ctx[c].st = "checked"
    /\ row' = [row EXCEPT ![c].st = "active"]
    /\ Ready(c, FALSE)
    /\ UNCHANGED <<plan, shared, worker, queue, saved, seen, faults, sent>>

InsertFails(c) ==
    /\ ctx[c].st = "checked" /\ faults < MaxFaults
    /\ faults' = faults + 1
    /\ Ready(c, TRUE)
    /\ UNCHANGED <<plan, shared, worker, queue, saved, row, seen, sent>>

-----------------------------------------------------------------------------
(* begin_operation: a request waits in the queue, and only its head may be *)
(* measured against the rules.                                             *)
MayAsk(c) == IF plan[c] = "run" THEN Ops ELSE Ops \ Risk

Ask(c, op) ==
    /\ ctx[c].st = "live" /\ ctx[c].op = "none" /\ ctx[c].left > 0
    /\ op \in MayAsk(c)
    /\ ctx' = [ctx EXCEPT ![c].op = op, ![c].left = @ - 1]
    /\ queue' = Append(queue, [of |-> c, op |-> op])
    /\ UNCHANGED <<plan, shared, worker, lock, active, quota, saved, row, seen, faults, sent>>

Unsafe(c) ==
    /\ ctx[c].op \in Risk
    /\ ctx[Guard(c)].bad \/ ctx[Guard(c)].broken
Hit(c) == {r \in Rules : ctx[c].op \in r.ops /\ Reached(r, View(c))}

Dequeued(c) == SelectSeq(queue, LAMBDA q : q.of # c)

Block(c) ==
    /\ HeadOf(c)
    /\ Unsafe(c) \/ \E r \in Hit(c) : ~r.waits
    /\ ctx' = [ctx EXCEPT ![c].op = "none"]
    /\ queue' = Dequeued(c)
    /\ UNCHANGED <<plan, shared, worker, lock, active, quota, saved, row, seen, faults, sent>>

Allow(c) ==
    /\ HeadOf(c)
    /\ ~Unsafe(c) /\ Hit(c) = {}
    /\ ctx' = [ctx EXCEPT ![Guard(c)].own = Incremented(@, ctx[c].op), ![c].op = "none"]
    /\ quota' = IF shared THEN Incremented(quota, ctx[c].op) ELSE quota
    /\ sent' = Incremented(sent, ctx[c].op)
    /\ queue' = Dequeued(c)
    /\ UNCHANGED <<plan, shared, worker, lock, active, saved, row, seen, faults>>

(* Mutant: who gives up stays in the queue.                                *)
QuitQueued(c) ==
    /\ Waits(c)
    /\ ctx' = [ctx EXCEPT ![c].op = "none", ![c].left = 0]
    /\ UNCHANGED <<plan, shared, worker, lock, active, quota, queue, saved, row, seen, faults, sent>>

(* A termination, a deadline or a lost session ends the wait.              *)
Quit(c) ==
    /\ Waits(c)
    /\ ctx' = [ctx EXCEPT ![c].op = "none", ![c].left = 0]
    /\ queue' = Dequeued(c)
    /\ UNCHANGED <<plan, shared, worker, lock, active, quota, saved, row, seen, faults, sent>>

-----------------------------------------------------------------------------
(* A context ends.  The counts, the row and the guard's registration go    *)
(* together, and a run waits for the lock.  A count that was written for   *)
(* the same guard and bucket before stays as it is.                        *)
Done(c) == ctx[c].st = "live" /\ ctx[c].op = "none"
MayEnd(c) == Done(c) /\ OwnsGuard(c) /\ (plan[c] = "run" => lock = 0)
Freed(c) == IF lock = c THEN 0 ELSE lock
Ended(st) == [NoContext EXCEPT !.st = st]

Merged(c) == [b \in Ops \X Spans |-> IF saved[c][b] > 0 THEN saved[c][b] ELSE ctx[c].own[b]]

Flush(c) ==
    /\ MayEnd(c)
    /\ saved' = [saved EXCEPT ![c] = Merged(c)]
    /\ row' = [row EXCEPT ![c] = IF @.st = "none" THEN @ ELSE [st |-> "closed", end |-> "today"]]
    /\ active' = IF active = c THEN 0 ELSE active
    /\ lock' = Freed(c)
    /\ ctx' = [ctx EXCEPT ![c] = Ended("done")]
    /\ UNCHANGED <<plan, shared, worker, quota, queue, seen, faults, sent>>

(* Nothing is written, and a run asks for a new worker.                    *)
FlushFails(c) ==
    /\ MayEnd(c) /\ faults < MaxFaults
    /\ faults' = faults + 1
    /\ active' = IF active = c THEN 0 ELSE active
    /\ lock' = Freed(c)
    /\ worker' = IF plan[c] = "run" THEN "spoiled" ELSE worker
    /\ ctx' = [ctx EXCEPT ![c] = Ended("failed")]
    /\ UNCHANGED <<plan, shared, quota, queue, saved, row, seen, sent>>

(* Mutant: a borrowed guard writes its counts, too.                        *)
FlushBorrowedCounts(c) ==
    /\ Done(c) /\ ~OwnsGuard(c)
    /\ lock' = Freed(c)
    /\ saved' = [saved EXCEPT ![Guard(c)] = ctx[Guard(c)].own]
    /\ ctx' = [ctx EXCEPT ![c] = Ended("done")]
    /\ UNCHANGED <<plan, shared, worker, active, quota, queue, row, seen, faults, sent>>

(* A borrowed guard writes its events only; its counts wait for the run.   *)
FlushBorrowed(c) ==
    /\ Done(c) /\ ~OwnsGuard(c)
    /\ lock' = Freed(c)
    /\ ctx' = [ctx EXCEPT ![c] = Ended("done")]
    /\ UNCHANGED <<plan, shared, worker, active, quota, queue, saved, row, seen, faults, sent>>

-----------------------------------------------------------------------------
(* Everything in the process is lost; the rows stay as they are.           *)
ProcessEnds ==
    /\ ctx' = [c \in Contexts |-> IF Live(c) THEN Ended("lost") ELSE ctx[c]]
    /\ lock' = 0
    /\ active' = 0
    /\ quota' = Nothing
    /\ queue' = <<>>
    /\ worker' = "gone"

(* A worker dies, is killed because a request hangs, or was to be          *)
(* replaced after a failed flush.                                          *)
LoseWorker ==
    /\ worker # "gone"
    /\ worker = "up" => faults < MaxFaults
    /\ faults' = IF worker = "up" THEN faults + 1 ELSE faults
    /\ ProcessEnds
    /\ UNCHANGED <<plan, shared, saved, row, seen, sent>>

NewWorker ==
    /\ worker = "gone"
    /\ worker' = "up"
    /\ UNCHANGED <<plan, shared, ctx, lock, active, quota, queue, saved, row, seen, faults, sent>>

(* The row is marked as one that hides counts, and as ended by now.        *)
Marked(c) == [row[c] EXCEPT !.st = "incomplete", !.end = "today"]

(* The sampling of the server reads the rows, then asks every worker, and  *)
(* marks the latest run while its worker is gone or shows its failed       *)
(* flush.  It writes to the row as it was read, and to no other context's. *)
LatestRun == Max({0} \cup {c \in Ids : plan[c] = "run" /\ row[c].st # "none"})
MonitorReads ==
    /\ seen = 0
    /\ LatestRun # 0 /\ row[LatestRun].st = "active"
    /\ seen' = LatestRun
    /\ UNCHANGED <<plan, shared, worker, ctx, lock, active, quota, queue, saved, row, faults, sent>>

ShowsFailure(c) == worker = "gone" \/ (active = 0 /\ ctx[c].st = "failed")
MonitorMarks ==
    /\ seen # 0
    /\ seen' = 0
    /\ row' = IF ShowsFailure(seen) THEN [row EXCEPT ![seen] = Marked(seen)] ELSE row
    /\ UNCHANGED <<plan, shared, worker, ctx, lock, active, quota, queue, saved, faults, sent>>

RestartServer ==
    /\ faults < MaxFaults
    /\ faults' = faults + 1
    /\ ProcessEnds
    /\ seen' = 0
    /\ row' = [c \in Contexts |-> IF row[c].st = "active" THEN Marked(c) ELSE row[c]]
    /\ UNCHANGED <<plan, shared, saved, sent>>

-----------------------------------------------------------------------------
(* A minute ends, or a day with its last minute.  A guard's baseline and   *)
(* its doubts are those of the day it was made.                            *)
Forgets(spans) ==
    /\ quota' = Emptied(quota, spans)
    /\ saved' = [c \in Contexts |-> Emptied(saved[c], spans)]
    /\ sent' = Emptied(sent, spans)

NextMinute ==
    /\ Forgets({"minute"})
    /\ ctx' = [c \in Contexts |-> [ctx[c] EXCEPT !.own = Emptied(@, {"minute"}),
                                                 !.base = Emptied(@, {"minute"})]]
    /\ UNCHANGED <<plan, shared, worker, lock, active, queue, row, seen, faults>>

NextDay ==
    /\ Forgets(Spans)
    /\ ctx' = [c \in Contexts |-> [ctx[c] EXCEPT !.own = Nothing, !.base = Nothing,
                                                 !.today = FALSE, !.bad = FALSE]]
    /\ row' = [c \in Contexts |->
                 IF row[c].end = "today" THEN [row[c] EXCEPT !.end = "earlier"] ELSE row[c]]
    /\ UNCHANGED <<plan, shared, worker, lock, active, queue, seen, faults>>

-----------------------------------------------------------------------------
Next ==
    \/ \E c \in Ids :
        \/ Borrow(c) \/ LoadCounters(c) \/ CheckHistory(c)
        \/ InsertRow(c) \/ InsertFails(c)
        \/ \E op \in Ops : Ask(c, op)
        \/ Block(c) \/ Allow(c) \/ Quit(c)
        \/ Flush(c) \/ FlushFails(c) \/ FlushBorrowed(c)
    \/ LoseWorker \/ NewWorker \/ RestartServer
    \/ MonitorReads \/ MonitorMarks
    \/ NextMinute \/ NextDay

Spec == Init /\ [][Next]_vars

(* A request polls its queue, and a day ends with its last minute.         *)
Fairness ==
    /\ \A c \in Contexts : WF_vars(c \in Ids /\ (Block(c) \/ Allow(c)))
    /\ WF_vars(NextDay)

FairSpec == Spec /\ Fairness

-----------------------------------------------------------------------------
TypeOK ==
    /\ worker \in {"up", "spoiled", "gone"}
    /\ \A c \in Contexts :
        /\ ctx[c].st \in {"none", "loaded", "checked", "live", "done", "failed", "lost"}
        /\ ctx[c].guard \in Contexts \cup {0}
        /\ ctx[c].op \in Ops \cup {"none"}
        /\ row[c].st \in {"none", "active", "incomplete", "closed"}
        /\ row[c].end \in {"open", "today", "earlier"}
        /\ row[c].st = "active" <=> row[c].st # "none" /\ row[c].end = "open"
    /\ lock \in Contexts \cup {0}
    /\ seen # 0 => plan[seen] = "run" /\ row[seen].st # "none"
    /\ active # 0 => plan[active] = "run" /\ ctx[active].st = "live"

Lost == \E c \in Contexts : ctx[c].st \in {"failed", "lost"} \/ ctx[c].broken

(* Whatever runs at once, dies, fails to write or crosses the end of a     *)
(* minute or a day: no more orders are sent in a minute or in a day than   *)
(* the rules allow, and no more of anything while no count was lost        *)
(* (begin_operation, has_incomplete_risk_history).                         *)
QuotaKept ==
    \A r \in Rules :
        r.ops \subseteq Risk \/ ~Lost =>
            Count(r, sent) <= r.limit

(* As long as no write failed and no worker was lost, no run is refused    *)
(* its orders because of what other contexts have not written yet          *)
(* (has_incomplete_risk_history).                                          *)
NoFalseAlarm ==
    faults = 0 => \A c \in Ids : plan[c] = "run" => ~ctx[c].bad

(* When every context has ended and none was lost, the database has every  *)
(* operation that was permitted, once (flush_account_control_records).     *)
RecordsComplete ==
    (~Lost /\ \A c \in Contexts : ~Live(c)) => DailyCounters = sent

(* A request that waits is answered: others that go away in the middle of  *)
(* their wait do not stand in its way (begin_operation).                   *)
Served == \A c \in Contexts : ctx[c].op # "none" ~> ctx[c].op = "none"
=============================================================================
