---------------------------- MODULE Supplements ----------------------------
(***************************************************************************)
(* Supplement plans of one account (server/execution/supplements.py,       *)
(* supplement_notifications.py and their part of intents.py).              *)
(*                                                                         *)
(* A base trigger makes a group of steps that ask for executions at later  *)
(* times.  A step rides on a ticket, which it may share with steps of      *)
(* other groups and with requests of its own right.  Whatever changes the  *)
(* account, stops it or misses a time cancels the group; the end of a      *)
(* ticket finishes its steps.  Most of this holds the lock of the account; *)
(* the end of a task and the one-click clear do not.                       *)
(*                                                                         *)
(* What a ticket does until it ends is in ExecutionControl; here it waits, *)
(* runs and ends, and the queued slot in memory still names it until its   *)
(* task has cleared up.                                                    *)
(***************************************************************************)
EXTENDS Integers, Sequences, FiniteSets, FiniteSetsExt

CONSTANTS
    Plan,         \* bound: the supplements of each base trigger
    NTickets,     \* bound: tickets
    MaxRequests,  \* bound: requests in their own right
    MaxRoutes,    \* bound: requests to terminate, clear, change
    MaxCrashes    \* bound

ASSUME SupplementAssumption ==
    /\ Plan \in Seq(Nat) /\ Plan # <<>>
    /\ NTickets \in Nat \ {0}
    /\ {MaxRequests, MaxRoutes, MaxCrashes} \subseteq Nat

Groups == DOMAIN Plan
Last(g) == <<g, Plan[g]>>
Steps == {s \in Groups \X (0..Max({Plan[g] : g \in Groups})) : s[2] <= Plan[s[1]]}
Tickets == 1..NTickets
StepsOf(g) == {s \in Steps : s[1] = g}

(* A step has a time, the base trigger is the first, and a group lasts     *)
(* until the next base trigger.                                            *)
Expiry(g) == Cardinality({s \in Steps : s[1] <= g})
Due(s) == Cardinality({r \in Steps : r[1] < s[1]}) + s[2]
End == Cardinality(Steps)

VARIABLES
    now,        \* the time, in steps of the plan
    phase,      \* "up", or "groups" and "tickets" while the server recovers
    todo,       \* the groups that start-up has still to look at
    started,    \* the account's switch
    config,     \* what the fingerprint is made of
    group,      \* rows of supplement_group
    step,       \* rows of supplement_step
    row,        \* rows of execution_intent
    own,        \* tickets that carry a request of its own right
    slot,       \* the queued slot in memory, or 0
    doomed,     \* groups that somebody waits to cancel
    due,        \* groups whose expiry has not been looked at
    busy,       \* what holds the account lock over an await
    clear,      \* the one-click clear and the groups it has read
    asked,      \* requests so far
    routes,     \* requests to terminate, clear, change so far
    crashes     \* crashes so far

vars == <<now, phase, todo, started, config, group, step, row, own, slot,
          doomed, due, busy, clear, asked, routes, crashes>>
memory == <<doomed, due, busy, clear>>
account == <<started, config>>
bounds == <<asked, routes, crashes>>

Free == [by |-> "nobody"]
NoClear == [pc |-> "idle", read |-> {}]

Init ==
    /\ now = 0 /\ phase = "up" /\ todo = {}
    /\ started = TRUE /\ config = 0
    /\ group = [g \in Groups |-> [st |-> "none", print |-> 0]]
    /\ step = [s \in Steps |-> [st |-> "none", ticket |-> 0]]
    /\ row = [t \in Tickets |-> "none"]
    /\ own = {} /\ slot = 0
    /\ doomed = {} /\ due = {}
    /\ busy = Free /\ clear = NoClear
    /\ asked = 0 /\ routes = 0 /\ crashes = 0

-----------------------------------------------------------------------------
Active == {g \in Groups : group[g].st = "active"}
Riders(t) == {s \in Steps : step[s].ticket = t}
Waiting(s) == step[s].st \in {"pending", "queued"}
Running == {t \in Tickets : row[t] = "running"}
Queued == {t \in Tickets : row[t] = "queued"}
LockFree == phase = "up" /\ busy = Free

IsValid(g) ==
    /\ group[g].st = "active" /\ group[g].print = config
    /\ started /\ now < Expiry(g)
IsRunnable(s) == IsValid(s[1]) /\ step[s].st = "pending"

(* Groups whose steps have all ended are completed, or, when they were     *)
(* being cancelled, cancelled and reported.                                *)
Settled(gr, st) ==
    [g \in Groups |->
        IF gr[g].st \in {"active", "cancelling"}
           /\ \A s \in StepsOf(g) : st[s].st \notin {"pending", "queued"}
        THEN [gr[g] EXCEPT !.st = IF @ = "active" THEN "completed" ELSE "cancelled"]
        ELSE gr[g]]

(* The steps of cancelled groups that are not at a running ticket.         *)
Struck(gs, st) ==
    [s \in Steps |->
        IF s[1] \in gs /\ \/ st[s].st = "pending"
                          \/ st[s].st = "queued" /\ row[st[s].ticket] = "queued"
        THEN [st[s] EXCEPT !.st = "cancelled"] ELSE st[s]]

(* Tickets that wait and have only cancelled steps.                        *)
Revoked(st) ==
    [t \in Tickets |->
        IF row[t] = "queued" /\ t \notin own /\ Riders(t) # {}
           /\ \A s \in Riders(t) : st[s].st = "cancelled"
        THEN "ended" ELSE row[t]]

(* cancel_groups_in_session: one transaction.                              *)
Cancel(gs) ==
    LET st == Struck(gs, step)
        gr == [g \in Groups |-> IF g \in gs THEN [group[g] EXCEPT !.st = "cancelling"]
                                            ELSE group[g]]
    IN  /\ step' = st
        /\ row' = Revoked(st)
        /\ group' = Settled(gr, st)

(* reap_cancelled_queue, by those that hold the lock.                      *)
Reap == slot' = IF slot # 0 /\ row'[slot] = "ended" THEN 0 ELSE slot

(* finish_supplement_execution: a ticket ends with its steps.              *)
Finished(t, st) ==
    [s \in Steps |-> IF s \in Riders(t) /\ st[s].st # "cancelled"
                     THEN [st[s] EXCEPT !.st = "finished"] ELSE st[s]]
Finish(t) ==
    /\ row' = [row EXCEPT ![t] = "ended"]
    /\ step' = Finished(t, step)
    /\ group' = Settled(group, step')

-----------------------------------------------------------------------------
(* Time passes, and a step that was not fired at its time is missed; the   *)
(* job of an expiry is not.                                                *)
Tick ==
    /\ now < End
    /\ \A g \in due : now < Expiry(g)
    /\ now' = now + 1
    /\ UNCHANGED <<phase, todo, account, group, step, row, own, slot, memory, bounds>>

CreateGroup(g) ==
    /\ LockFree /\ now = Due(<<g, 0>>) /\ group[g].st = "none" /\ started
    /\ group' = [group EXCEPT ![g] = [st |-> "active", print |-> config]]
    /\ step' = [s \in Steps |-> IF s[1] = g THEN [step[s] EXCEPT !.st = "pending"] ELSE step[s]]
    /\ due' = due \cup {g}
    /\ UNCHANGED <<now, phase, todo, account, row, own, slot, doomed, busy, clear, bounds>>

(* Steps that wait for a time or for a ticket that has not begun.          *)
Unfinished(g) ==
    \E s \in StepsOf(g) :
        \/ step[s].st = "pending"
        \/ step[s].st = "queued" /\ row[step[s].ticket] = "queued"

ExpireGroup(g) ==
    /\ phase = "up" /\ g \in due /\ now = Expiry(g)
    /\ due' = due \ {g}
    /\ doomed' = IF g \in Active /\ Unfinished(g) THEN doomed \cup {g} ELSE doomed
    /\ UNCHANGED <<now, phase, todo, account, group, step, row, own, slot, busy, clear, bounds>>

CancelGroup(g) ==
    /\ LockFree /\ g \in doomed
    /\ doomed' = doomed \ {g}
    /\ Cancel({g} \cap Active) /\ Reap
    /\ UNCHANGED <<now, phase, todo, account, own, due, busy, clear, bounds>>

-----------------------------------------------------------------------------
(* fire_step and submit_intent.  "req" is a step, at its time or, when it  *)
(* had to wait for the lock, later, but not after a later one; or <<>> for *)
(* a request in its own right.  A queued row, or else the slot, takes the  *)
(* request; the step is read before and written after an await.            *)
Target == IF Queued # {} THEN CHOOSE t \in Queued : TRUE ELSE slot
Unused == {t \in Tickets : row[t] = "none"}
Fires(s) ==
    /\ now >= Due(s) /\ step[s].st = "pending" /\ s[1] \in Active \ doomed
    /\ s[2] > 0 => step[<<s[1], 0>>].st # "pending"
    /\ \A r \in StepsOf(s[1]) : r[2] > s[2] => step[r].st = "pending"
MayAsk(req) == IF req = <<>> THEN asked < MaxRequests ELSE Fires(req)
Asks(req) == asked' = IF req = <<>> THEN asked + 1 ELSE asked
Refused(req) == doomed' = IF req = <<>> THEN doomed ELSE doomed \cup {req[1]}

(* A clear is queued or runs, or the step is no longer valid.              *)
SubmitRefused(req) ==
    /\ LockFree /\ MayAsk(req)
    /\ \/ clear.pc = "runs"
       \/ req # <<>> /\ ~IsRunnable(req)
    /\ Asks(req) /\ Refused(req)
    /\ UNCHANGED <<now, phase, todo, account, group, step, row, own, slot, due, busy, clear, routes, crashes>>

Insert(req, t) ==
    /\ LockFree /\ MayAsk(req) /\ clear.pc # "runs" /\ Target = 0
    /\ t \in Unused /\ \A u \in Unused : t <= u
    /\ row' = [row EXCEPT ![t] = "queued"] /\ slot' = t
    /\ IF req = <<>>
       THEN own' = own \cup {t} /\ step' = step
       ELSE IsRunnable(req) /\ own' = own /\ step' = [step EXCEPT ![req] = [st |-> "queued", ticket |-> t]]
    /\ Asks(req)
    /\ UNCHANGED <<now, phase, todo, account, group, doomed, due, busy, clear, routes, crashes>>

Coalesce(req) ==
    /\ LockFree /\ MayAsk(req) /\ clear.pc # "runs" /\ Target # 0
    /\ req # <<>> => IsRunnable(req)
    /\ busy' = [by |-> "submit", req |-> req, to |-> Target]
    /\ Asks(req)
    /\ UNCHANGED <<now, phase, todo, account, group, step, row, own, slot, doomed, due, clear, routes, crashes>>

Attach ==
    /\ busy.by = "submit"
    /\ IF busy.req = <<>>
       THEN own' = own \cup {busy.to} /\ step' = step
       ELSE own' = own /\ step' = [step EXCEPT ![busy.req] = [st |-> "queued", ticket |-> busy.to]]
    /\ busy' = Free
    /\ UNCHANGED <<now, phase, todo, account, group, row, slot, doomed, due, clear, bounds>>

-----------------------------------------------------------------------------
(* A ticket begins: its steps are checked, the others struck and their     *)
(* groups cancelled, and only then is its row claimed.                     *)
Kept(t) == {s \in Riders(t) : step[s].st # "cancelled" /\ IsValid(s[1])}
Checked(t) ==
    [s \in Steps |-> IF s \notin Riders(t) THEN step[s]
                     ELSE [step[s] EXCEPT !.st = IF s \in Kept(t) THEN "queued" ELSE "cancelled"]]
HasRequest(t) == t \in own \/ Riders(t) = {} \/ Kept(t) # {}

Validate(t) ==
    /\ LockFree /\ row[t] = "queued" /\ Running = {} /\ clear.pc # "runs"
    /\ LET gs == {s[1] : s \in Riders(t) \ Kept(t)} \cap Active
           st == Struck(gs, Checked(t))
           gr == [g \in Groups |-> IF g \in gs THEN [group[g] EXCEPT !.st = "cancelling"]
                                               ELSE group[g]]
       IN  /\ step' = st
           /\ group' = IF gs = {} /\ HasRequest(t) THEN group ELSE Settled(gr, st)
           /\ IF HasRequest(t)
              THEN row' = (IF gs = {} THEN row ELSE Revoked(st)) /\ slot' = slot
                   /\ busy' = [by |-> "promote", ticket |-> t]
              ELSE row' = [row EXCEPT ![t] = "ended"] /\ busy' = busy
                   /\ slot' = (IF slot = t THEN 0 ELSE slot)
    /\ UNCHANGED <<now, phase, todo, account, own, doomed, due, clear, bounds>>

(* Mutant: the row is written without a look at its status.                *)
ClaimBlind ==
    /\ busy.by = "promote"
    /\ row' = [row EXCEPT ![busy.ticket] = "running"]
    /\ slot' = IF slot = busy.ticket THEN 0 ELSE slot
    /\ busy' = Free
    /\ UNCHANGED <<now, phase, todo, account, group, step, own, doomed, due, clear, bounds>>
Claim ==
    /\ busy.by = "promote"
    /\ row' = IF row[busy.ticket] = "queued" THEN [row EXCEPT ![busy.ticket] = "running"] ELSE row
    /\ slot' = IF slot = busy.ticket THEN 0 ELSE slot
    /\ busy' = Free
    /\ UNCHANGED <<now, phase, todo, account, group, step, own, doomed, due, clear, bounds>>

(* A task fails before it claims its row; nobody holds the lock for that.  *)
FailEarly(t) ==
    /\ phase = "up" /\ row[t] = "queued" /\ slot = t /\ Running = {} /\ clear.pc # "runs"
    /\ busy.by = "promote" => busy.ticket # t
    /\ Finish(t)
    /\ UNCHANGED <<now, phase, todo, account, own, slot, memory, bounds>>

EndRun(t) ==
    /\ phase = "up" /\ row[t] = "running"
    /\ Finish(t)
    /\ UNCHANGED <<now, phase, todo, account, own, slot, memory, bounds>>

(* The market was closed for all: the groups of the ticket are cancelled.  *)
EndClosed(t) ==
    /\ phase = "up" /\ row[t] = "running"
    /\ LET st == Finished(t, step)
           mid == Settled(group, st)
           gs == {g \in {s[1] : s \in Riders(t)} : mid[g].st = "active"}
           all == Struck(gs, st)
       IN  /\ step' = all
           /\ row' = [Revoked(all) EXCEPT ![t] = "ended"]
           /\ group' = Settled([g \in Groups |-> IF g \in gs THEN [mid[g] EXCEPT !.st = "cancelling"]
                                                             ELSE mid[g]], all)
    /\ UNCHANGED <<now, phase, todo, account, own, slot, memory, bounds>>

(* The task of a ticket that ended clears the slot that names it.          *)
ReleaseSlot ==
    /\ phase = "up" /\ slot # 0 /\ row[slot] = "ended"
    /\ slot' = 0
    /\ UNCHANGED <<now, phase, todo, account, group, step, row, own, memory, bounds>>

-----------------------------------------------------------------------------
(* The routes.                                                             *)
Route == routes < MaxRoutes /\ routes' = routes + 1

(* Terminate cancels the groups and stops what waits or runs.              *)
Terminate ==
    /\ LockFree /\ Route
    /\ Active # {} \/ Queued # {}
    /\ LET st == Struck(Active, step)
           left == {t \in Queued : Revoked(st)[t] = "queued"}
           fin == [s \in Steps |-> IF step[s].ticket \in left /\ st[s].st # "cancelled"
                                   THEN [st[s] EXCEPT !.st = "finished"] ELSE st[s]]
           gr == [g \in Groups |-> IF g \in Active THEN [group[g] EXCEPT !.st = "cancelling"]
                                                   ELSE group[g]]
       IN  /\ step' = fin
           /\ row' = [t \in Tickets |-> IF t \in left THEN "ended" ELSE Revoked(st)[t]]
           /\ group' = Settled(gr, fin)
    /\ Reap
    /\ UNCHANGED <<now, phase, todo, account, own, memory, asked, crashes>>

(* A change of schedule, portfolio or channel, or a stop.                  *)
Update(on, c) ==
    /\ LockFree /\ Route
    /\ on # started \/ c # config
    /\ started' = on /\ config' = c
    /\ Cancel(IF c # config \/ ~on THEN Active ELSE {}) /\ Reap
    /\ UNCHANGED <<now, phase, todo, own, memory, asked, crashes>>

(* The one-click clear reads the groups and writes them without the lock,  *)
(* and submits its own ticket under it.                                    *)
ClearReads ==
    /\ phase = "up" /\ clear.pc = "idle" /\ Route
    /\ clear' = [pc |-> "read", read |-> Active]
    /\ UNCHANGED <<now, phase, todo, account, group, step, row, own, slot, doomed, due, busy, asked, crashes>>

ClearCommits ==
    /\ clear.pc = "read"
    /\ Cancel(clear.read)
    /\ started' = FALSE
    /\ clear' = [pc |-> "submit", read |-> {}]
    /\ UNCHANGED <<now, phase, todo, config, own, slot, doomed, due, busy, bounds>>

(* It is refused behind a running execution and supersedes a queued one.   *)
ClearSubmits ==
    /\ LockFree /\ clear.pc = "submit"
    /\ IF Running # {} \/ (Queued = {} /\ slot # 0)
       THEN clear' = NoClear /\ UNCHANGED <<row, step, group, slot>>
       ELSE /\ clear' = [NoClear EXCEPT !.pc = "runs"]
            /\ IF Queued = {} THEN UNCHANGED <<row, step, group>> ELSE Finish(Target)
            /\ slot' = 0
    /\ UNCHANGED <<now, phase, todo, account, own, doomed, due, busy, bounds>>

ClearEnds ==
    /\ phase = "up" /\ clear.pc = "runs"
    /\ clear' = NoClear
    /\ UNCHANGED <<now, phase, todo, account, group, step, row, own, slot, doomed, due, busy, bounds>>

-----------------------------------------------------------------------------
Crash ==
    /\ crashes < MaxCrashes /\ crashes' = crashes + 1
    /\ phase' = "groups"
    /\ todo' = {g \in Groups : group[g].st \in {"active", "cancelling"}}
    /\ slot' = 0 /\ doomed' = {} /\ due' = {}
    /\ busy' = Free /\ clear' = NoClear
    /\ UNCHANGED <<now, account, group, step, row, own, asked, routes>>

(* Mutant: the expiry of a recovered group is not scheduled again.         *)
RearmedNot(g) == due
Rearmed(g) == due \cup {g}
(* Steps whose time has passed are not made up for.                        *)
Missed(g) == {s \in StepsOf(g) : Waiting(s) /\ Due(s) <= now}

RecoverGroup(g) ==
    /\ phase = "groups" /\ g \in todo
    /\ todo' = todo \ {g}
    /\ LET past == {s \in Missed(g) : step[s].st = "pending" \/ row[step[s].ticket] = "queued"}
           st == [s \in Steps |-> IF s \in past THEN [step[s] EXCEPT !.st = "cancelled"] ELSE step[s]]
           over == Last(g) \in Missed(g) \/ Expiry(g) <= now
           gs == IF over /\ g \in Active THEN {g} ELSE {}
           all == Struck(gs, st)
           gr == [h \in Groups |-> IF h \in gs THEN [group[h] EXCEPT !.st = "cancelling"]
                                               ELSE group[h]]
       IN  /\ step' = all
           /\ row' = Revoked(all)
           /\ group' = IF g \in Active /\ ~over THEN group ELSE Settled(gr, all)
           /\ due' = IF g \in Active /\ ~over THEN Rearmed(g) ELSE due
    /\ UNCHANGED <<now, phase, account, own, slot, doomed, busy, clear, bounds>>

RecoverIntents ==
    /\ phase = "groups" /\ todo = {}
    /\ phase' = "up"
    /\ IF Running = {} THEN UNCHANGED <<row, step, group>>
       ELSE Finish(CHOOSE t \in Running : TRUE)
    /\ slot' = IF Queued = {} THEN 0 ELSE Target
    /\ UNCHANGED <<now, todo, account, own, memory, bounds>>

-----------------------------------------------------------------------------
Requests == Steps \cup {<<>>}

Next ==
    \/ Tick
    \/ \E g \in Groups : CreateGroup(g) \/ ExpireGroup(g) \/ CancelGroup(g) \/ RecoverGroup(g)
    \/ \E req \in Requests :
        SubmitRefused(req) \/ Coalesce(req) \/ \E t \in Tickets : Insert(req, t)
    \/ Attach
    \/ \E t \in Tickets : Validate(t) \/ FailEarly(t) \/ EndRun(t) \/ EndClosed(t)
    \/ Claim \/ ReleaseSlot
    \/ Terminate
    \/ \E on \in BOOLEAN, c \in {0, 1} : Update(on, c)
    \/ ClearReads \/ ClearCommits \/ ClearSubmits \/ ClearEnds
    \/ Crash \/ RecoverIntents

Spec == Init /\ [][Next]_vars

(* Jobs fire, the lock is handed on in turn, tasks and routes go on, and   *)
(* start-up gets through.                                                  *)
Fairness ==
    /\ WF_vars(Tick)
    /\ \A g \in Groups : WF_vars(ExpireGroup(g)) /\ WF_vars(CancelGroup(g))
    /\ WF_vars(\E g \in Groups : RecoverGroup(g)) /\ WF_vars(RecoverIntents)
    /\ \A t \in Tickets : WF_vars(Validate(t) \/ EndRun(t))
    /\ WF_vars(Attach \/ Claim \/ ClearCommits \/ ClearSubmits \/ ClearEnds)
    /\ WF_vars(ReleaseSlot)

FairSpec == Spec /\ Fairness

-----------------------------------------------------------------------------
TypeOK ==
    /\ now \in 0..End
    /\ phase \in {"up", "groups"}
    /\ started \in BOOLEAN /\ config \in {0, 1}
    /\ \A g \in Groups : group[g].st \in {"none", "active", "cancelling", "cancelled", "completed"}
    /\ \A s \in Steps :
        /\ step[s].st \in {"none", "pending", "queued", "finished", "cancelled"}
        /\ step[s].st \in {"queued", "finished"} => step[s].ticket \in Tickets
    /\ \A t \in Tickets : row[t] \in {"none", "queued", "running", "ended"}
    /\ own \subseteq Tickets /\ slot \in Tickets \cup {0}
    /\ Cardinality(Running) <= 1 /\ Cardinality(Queued) <= 1
    /\ clear.read \subseteq Groups /\ doomed \subseteq Groups /\ due \subseteq Groups

(* What runs was asked for: by a request in its own right, or by a step    *)
(* that was not cancelled (promote_intent_to_running).                     *)
CancelledNeverRuns ==
    \A t \in Running : t \in own \/ \E s \in Riders(t) : step[s].st = "queued"

(* Once steps wait, a time comes when all have ended, however their group, *)
(* their ticket, the account and the server fare (fire_step, expire_group, *)
(* settle_groups, _recover_group): but for those that were attached to a   *)
(* ticket that had ended, whose end is over.                               *)
Stranded(s) == step[s].st = "queued" /\ row[step[s].ticket] = "ended"
StepsEnd ==
    (\E s \in Steps : Waiting(s)) ~> \A s \in Steps : ~Waiting(s) \/ Stranded(s)
=============================================================================
