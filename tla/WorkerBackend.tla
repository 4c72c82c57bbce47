--------------------------- MODULE WorkerBackend ---------------------------
(***************************************************************************)
(* The worker backend of one account: the threads of the server that ask   *)
(* something of the account's worker process (manager.py), the handles     *)
(* through which they do, and the command loop of each worker (worker.py,  *)
(* worker_state.py), with the pipe for commands and the pipe for stops;    *)
(* and the channel of the order commands (orders.py), which has a pipe of  *)
(* its own and a thread of its own in the worker.                          *)
(*                                                                         *)
(* A thread works off a plan: a run may compute its targets, prepares its  *)
(* worker and then executes on it, a page reads assets or sends an order   *)
(* command, a synchronisation drops the worker and prepares a new one, the *)
(* end of the service closes it, and a run whose portfolio function failed *)
(* drops the worker it was computed on.  Time is abstract: a wait that has *)
(* a limit may reach it at any moment.  A worker may hang, so nothing is   *)
(* assumed of its progress, and it may die or ask for its own replacement  *)
(* MaxFaults times.                                                        *)
(***************************************************************************)
EXTENDS Integers, Sequences, FiniteSets, Functions

CONSTANTS
    Threads,      \* threads of the server that use the account's worker
    NoThread,     \* nobody holds a lock
    Plans,        \* what the threads may ask for, one request after the other
    MaxAsks,      \* bound: requests in a plan
    MaxHandles,   \* bound: workers spawned for the account
    MaxFaults     \* bound: deaths and requested replacements of workers

Asks == {"compute", "prepare", "execute", "read", "order", "drop", "shutdown"}

ASSUME PlanAssumption ==
    /\ NoThread \notin Threads
    /\ Plans \subseteq [Threads -> Seq(Asks)]
    /\ \A p \in Plans, t \in Threads : Len(p[t]) <= MaxAsks
    /\ MaxAsks \in Nat
    /\ MaxHandles \in Nat
    /\ MaxFaults \in Nat

Handles == 1..MaxHandles
NoHandle == 0
(* A request is named by its thread and its place in the plan; a shutdown  *)
(* of a worker is a request of place 0.                                    *)
Request == Threads \X (1..MaxAsks)
NoRequest == <<NoThread, 0>>

VARIABLES
    plan,       \* what each thread asks for, never changed
    workers,    \* the handle the account is registered with, or NoHandle
    made,       \* handles made so far
    handle,     \* lock, retired, open, bound of each handle
    pipe,       \* commands, answers and stops under way for each handle
    orders,     \* the channel of the order commands of each handle
    worker,     \* the process behind each handle
    session,    \* the account's live session, as the pages see it
    call,       \* where each thread is
    result,     \* how each request ended, "none" before
    stopped,    \* runs somebody asked to stop
    faults,     \* deaths and replacements so far
    begun,      \* history: how often a worker started on a request
    carried     \* history: <<request, how>> a worker came to the end of

history == <<begun, carried>>
vars == <<plan, workers, made, handle, pipe, orders, worker, session, call,
          result, stopped, faults, begun, carried>>

NoSession == [inst |-> 0, on |-> NoHandle, ended |-> FALSE, ready |-> FALSE]

Emptied == [to |-> <<>>, from |-> <<>>, ctl |-> <<>>]

(* An order command is pending from the moment it is sent until its answer *)
(* was received; serving is what the worker's order thread is at.          *)
Unused == [open |-> FALSE, lock |-> NoThread, pending |-> NoRequest,
           to |-> <<>>, from |-> <<>>, serving |-> NoRequest]

Init ==
    /\ plan \in Plans
    /\ workers = NoHandle
    /\ made = 0
    /\ handle = [h \in Handles |-> [lock |-> NoThread, retired |-> FALSE,
                                    open |-> FALSE, bound |-> 0]]
    /\ pipe = [h \in Handles |-> Emptied]
    /\ orders = [h \in Handles |-> Unused]
    /\ worker = [h \in Handles |-> [up |-> FALSE, req |-> NoRequest,
                                    active |-> NoThread, stop |-> FALSE,
                                    pending |-> {}, ready |-> FALSE]]
    /\ session = NoSession
    /\ call = [t \in Threads |-> [pc |-> "idle", at |-> 1, h |-> NoHandle,
                                  told |-> FALSE, end |-> "none"]]
    /\ result = [r \in Request |-> "none"]
    /\ stopped = {}
    /\ faults = 0
    /\ begun = [r \in Request |-> 0] /\ carried = {}

-----------------------------------------------------------------------------
Runs == {t \in Threads : Range(plan[t]) \cap {"compute", "execute"} # {}}
Finished(t) == call[t].at > Len(plan[t])
Ask(t) == plan[t][call[t].at]
Id(t) == <<t, call[t].at>>
On(t) == call[t].h

(* The commands that activate the stop of their run.  The computation of a *)
(* run's targets does not: a stop that comes meanwhile is only noted, and  *)
(* the thread that waits for it drops the worker after a while.            *)
Stoppable(r) ==
    r[1] \in Runs /\ r[2] # 0 /\ plan[r[1]][r[2]] \in {"prepare", "execute"}

(* A run holds the account's execution slot from its first step to its     *)
(* last one; the registry lets one run do so at a time.                    *)
InProgress(t) == t \in Runs /\ ~Finished(t) /\ (call[t].at > 1 \/ call[t].pc # "idle")

Healthy(h) == h # NoHandle /\ ~handle[h].retired /\ worker[h].up /\ handle[h].open
Alive(s) == ~s.ended /\ ~handle[s.on].retired /\ worker[s.on].up
Readable == session.inst # 0 /\ session.ready /\ Alive(session)

(* end_session: ends the session of this instance and no other one.        *)
EndedSession(inst) ==
    IF inst # 0 /\ session.inst = inst
    THEN [session EXCEPT !.ended = TRUE, !.ready = FALSE] ELSE session

(* observe_session: what a worker says of its connection counts while its  *)
(* instance is the current one and has not been ended.                     *)
Observed(inst, ready) ==
    IF session.inst = inst /\ inst # 0 /\ ~session.ended
    THEN [session EXCEPT !.ready = ready] ELSE session

Go(t, pc) == call' = [call EXCEPT ![t].pc = pc]

(* The request of t ends; the rest of the plan of a run is given up when   *)
(* one of its requests fails.                                              *)
End(t, how) ==
    /\ result' = [result EXCEPT ![Id(t)] = how]
    /\ call' = [call EXCEPT ![t] =
          [pc |-> "idle", h |-> NoHandle, told |-> FALSE, end |-> "none",
           at |-> IF t \in Runs /\ how # "answered" THEN Len(plan[t]) + 1 ELSE @.at + 1]]

Release(h) == handle' = [handle EXCEPT ![h].lock = NoThread]

(* The request of t has failed; its worker is going to be dropped.         *)
Fail(t) ==
    /\ Release(On(t))
    /\ call' = [call EXCEPT ![t].pc = "kill_end", ![t].end = "failed"]

-----------------------------------------------------------------------------
(* The start of a request: reads and order commands want a session that is *)
(* ready, a run wants the account's slot.                                  *)
Begin(t) ==
    /\ call[t].pc = "idle" /\ ~Finished(t) /\ Ask(t) \notin {"drop", "shutdown"}
    /\ t \in Runs => \A u \in Runs \ {t} : ~InProgress(u)
    /\ IF Ask(t) \in {"read", "order"} /\ ~Readable
       THEN End(t, "refused")
       ELSE Go(t, "get") /\ UNCHANGED result
    /\ UNCHANGED <<plan, workers, made, handle, pipe, orders, worker, session, stopped, faults, history>>

(* _get_or_create_worker, under the manager's lock.                        *)
Get(t) ==
    /\ call[t].pc = "get"
    /\ LET pc == IF Ask(t) = "order" THEN "order_bind" ELSE "lock"
           old == workers
       IN  \/ /\ Healthy(old)
              /\ call' = [call EXCEPT ![t].pc = pc, ![t].h = old]
              /\ UNCHANGED <<workers, made, handle, orders, worker, session>>
           \/ /\ ~Healthy(old)
              /\ made < MaxHandles
              /\ made' = made + 1 /\ workers' = made + 1
              /\ session' = IF old = NoHandle THEN session ELSE EndedSession(handle[old].bound)
              /\ handle' = [h \in Handles |->
                    IF h = old THEN [handle[h] EXCEPT !.open = FALSE]
                    ELSE IF h = made + 1 THEN [handle[h] EXCEPT !.open = TRUE]
                    ELSE handle[h]]
              /\ orders' = [h \in Handles |->
                    IF h = old THEN [orders[h] EXCEPT !.open = FALSE]
                    ELSE IF h = made + 1 THEN [orders[h] EXCEPT !.open = TRUE]
                    ELSE orders[h]]
              /\ worker' = [worker EXCEPT ![made + 1].up = TRUE]
              /\ call' = [call EXCEPT ![t].pc = pc, ![t].h = made + 1]
    /\ UNCHANGED <<plan, pipe, result, stopped, faults, history>>

(* _bind_connection_request: the first request of a handle registers a new *)
(* instance, which becomes the account's session.                          *)
BoundHandle(h) == [handle[h] EXCEPT !.bound = h]
BoundSession(h) ==
    IF handle[h].bound = 0 THEN [inst |-> h, on |-> h, ended |-> FALSE, ready |-> FALSE]
    ELSE session

(* The request lock of the handle; a retired handle sends the thread back  *)
(* to look for another one, under the lock of any other the request is     *)
(* bound to the session.                                                   *)
Lock(t) ==
    LET h == On(t)
    IN  /\ call[t].pc = "lock" /\ handle[h].lock = NoThread
        /\ IF handle[h].retired
           THEN /\ call' = [call EXCEPT ![t].pc = "get", ![t].h = NoHandle]
                /\ UNCHANGED <<handle, session>>
           ELSE /\ Go(t, "send")
                /\ handle' = [handle EXCEPT ![h] = [BoundHandle(h) EXCEPT !.lock = t]]
                /\ session' = BoundSession(h)
        /\ UNCHANGED <<plan, workers, made, pipe, orders, worker, result, stopped, faults, history>>

(* An order command binds to the session without the request lock.         *)
OrderBind(t) ==
    /\ call[t].pc = "order_bind"
    /\ handle' = [handle EXCEPT ![On(t)] = BoundHandle(On(t))]
    /\ session' = BoundSession(On(t))
    /\ Go(t, "order_lock")
    /\ UNCHANGED <<plan, workers, made, pipe, orders, worker, result, stopped, faults, history>>

Send(t) ==
    /\ call[t].pc = "send"
    /\ IF handle[On(t)].open /\ worker[On(t)].up
       THEN /\ pipe' = [pipe EXCEPT ![On(t)].to = Append(@, Id(t))]
            /\ Go(t, "wait") /\ UNCHANGED handle
       ELSE Fail(t) /\ UNCHANGED pipe
    /\ UNCHANGED <<plan, workers, made, orders, worker, session, result, stopped, faults, history>>

(* Mutant: whatever answer comes is taken for the one that is waited for.  *)
ReceiveAny(t) ==
    /\ call[t].pc = "wait" /\ handle[On(t)].open /\ pipe[On(t)].from # <<>>
    /\ LET a == Head(pipe[On(t)].from)
       IN  /\ pipe' = [pipe EXCEPT ![On(t)].from = Tail(@)]
           /\ session' = Observed(handle[On(t)].bound, a.ready)
           /\ Release(On(t)) /\ End(t, a.how)
    /\ UNCHANGED <<plan, workers, made, orders, worker, stopped, faults, history>>

(* recv: an answer that names another request is an error of this one.     *)
Receive(t) ==
    /\ call[t].pc = "wait" /\ handle[On(t)].open /\ pipe[On(t)].from # <<>>
    /\ LET a == Head(pipe[On(t)].from)
       IN  /\ pipe' = [pipe EXCEPT ![On(t)].from = Tail(@)]
           /\ IF a.id # Id(t)
              THEN Release(On(t)) /\ End(t, "mismatch") /\ UNCHANGED session
              ELSE /\ session' = Observed(handle[On(t)].bound, a.ready)
                   /\ IF a.restart
                      THEN /\ call' = [call EXCEPT ![t].pc = "kill_end", ![t].end = "answered"]
                           /\ UNCHANGED <<handle, result>>
                      ELSE Release(On(t)) /\ End(t, a.how)
    /\ UNCHANGED <<plan, workers, made, orders, worker, stopped, faults, history>>

TimeOut(t) ==
    /\ call[t].pc = "wait"
    /\ Fail(t)
    /\ UNCHANGED <<plan, workers, made, pipe, orders, worker, session, result, stopped, faults, history>>

(* The pipe is closed on this side, or its other end is and it is empty.   *)
Broken(t) ==
    /\ call[t].pc = "wait"
    /\ ~handle[On(t)].open \/ (~worker[On(t)].up /\ pipe[On(t)].from = <<>>)
    /\ Fail(t)
    /\ UNCHANGED <<plan, workers, made, pipe, orders, worker, session, result, stopped, faults, history>>

(* The waiting thread of a run passes the wish to stop on, once, and gives *)
(* the worker a while to follow it.                                        *)
PassStop(t) ==
    /\ call[t].pc = "wait" /\ t \in stopped /\ ~call[t].told
    /\ Ask(t) \in {"compute", "prepare", "execute"}
    /\ IF handle[On(t)].open /\ worker[On(t)].up
       THEN /\ pipe' = [pipe EXCEPT ![On(t)].ctl = Append(@, t)]
            /\ call' = [call EXCEPT ![t].told = TRUE]
            /\ UNCHANGED handle
       ELSE Fail(t) /\ UNCHANGED pipe
    /\ UNCHANGED <<plan, workers, made, orders, worker, session, result, stopped, faults, history>>

ForceStop(t) ==
    /\ call[t].pc = "wait" /\ call[t].told
    /\ Fail(t)
    /\ UNCHANGED <<plan, workers, made, pipe, orders, worker, session, result, stopped, faults, history>>

-----------------------------------------------------------------------------
(* _force_drop_worker: the session ends, the handle retires and leaves the *)
(* table if it is still the one in it, the process is killed.              *)
KillEnd(t) ==
    /\ call[t].pc = "kill_end"
    /\ session' = EndedSession(handle[On(t)].bound)
    /\ Go(t, "kill_pop")
    /\ UNCHANGED <<plan, workers, made, handle, pipe, orders, worker, result, stopped, faults, history>>

KillPop(t) ==
    /\ call[t].pc = "kill_pop"
    /\ handle' = [handle EXCEPT ![On(t)].retired = TRUE]
    /\ workers' = IF workers = On(t) THEN NoHandle ELSE workers
    /\ Go(t, "kill")
    /\ UNCHANGED <<plan, made, pipe, orders, worker, session, result, stopped, faults, history>>

Gone(w) == [w EXCEPT !.up = FALSE, !.req = NoRequest, !.active = NoThread,
                     !.stop = FALSE, !.pending = {}, !.ready = FALSE]

(* Mutant: the request lock an idle worker was dropped under stays taken.  *)
KillHolding(t) ==
    /\ call[t].pc = "kill"
    /\ handle' = [handle EXCEPT ![On(t)].open = FALSE]
    /\ worker' = [worker EXCEPT ![On(t)] = Gone(@)]
    /\ pipe' = [pipe EXCEPT ![On(t)] = Emptied]
    /\ orders' = [orders EXCEPT ![On(t)].open = FALSE]
    /\ End(t, call[t].end)
    /\ UNCHANGED <<plan, workers, made, session, stopped, faults, history>>

Kill(t) ==
    /\ call[t].pc = "kill"
    /\ handle' = [handle EXCEPT ![On(t)].open = FALSE,
                                ![On(t)].lock = IF @ = t THEN NoThread ELSE @]
    /\ worker' = [worker EXCEPT ![On(t)] = Gone(@)]
    /\ pipe' = [pipe EXCEPT ![On(t)] = Emptied]
    /\ orders' = [orders EXCEPT ![On(t)].open = FALSE]
    /\ End(t, call[t].end)
    /\ UNCHANGED <<plan, workers, made, session, stopped, faults, history>>

(* Mutant: a command is sent although the last one's answer is not there.  *)
OrderLockOnly(t) ==
    /\ call[t].pc = "order_lock" /\ orders[On(t)].lock = NoThread
    /\ orders' = [orders EXCEPT ![On(t)].lock = t]
    /\ Go(t, "order_send")
    /\ UNCHANGED <<plan, workers, made, handle, pipe, worker, session, result, stopped, faults, history>>

-----------------------------------------------------------------------------
(* OrdersChannel.request: one order command is under way at a time.  The   *)
(* channel's lock is waited for with a limit.  A command that timed out    *)
(* stays pending and is not taken back: the next one first receives its    *)
(* answer.                                                                 *)
OrderLock(t) ==
    /\ call[t].pc = "order_lock" /\ orders[On(t)].lock = NoThread
    /\ orders' = [orders EXCEPT ![On(t)].lock = t]
    /\ Go(t, IF orders[On(t)].pending = NoRequest THEN "order_send" ELSE "order_drain")
    /\ UNCHANGED <<plan, workers, made, handle, pipe, worker, session, result, stopped, faults, history>>

OrderBusy(t) ==
    /\ call[t].pc = "order_lock" /\ orders[On(t)].lock # NoThread
    /\ Go(t, "order_late")
    /\ UNCHANGED <<plan, workers, made, handle, pipe, orders, worker, session, result, stopped, faults, history>>

OrderSend(t) ==
    LET h == On(t)
    IN  /\ call[t].pc = "order_send"
        /\ IF orders[h].open /\ worker[h].up
           THEN /\ orders' = [orders EXCEPT ![h].pending = Id(t), ![h].to = Append(@, Id(t))]
                /\ Go(t, "order_wait") /\ UNCHANGED result
           ELSE /\ orders' = [orders EXCEPT ![h].pending = Id(t), ![h].lock = NoThread]
                /\ End(t, "failed")
        /\ UNCHANGED <<plan, workers, made, handle, pipe, worker, session, stopped, faults, history>>

(* _receive, of the answer that is pending, be it this command's or that   *)
(* of an earlier one; any other answer closes the channel.                 *)
OrderReceive(t) ==
    LET h == On(t)
        o == orders[h]
    IN  /\ call[t].pc \in {"order_drain", "order_wait"} /\ o.open /\ o.from # <<>>
        /\ IF Head(o.from) # o.pending
           THEN /\ orders' = [orders EXCEPT ![h].from = Tail(@), ![h].pending = NoRequest,
                                            ![h].open = FALSE, ![h].lock = NoThread]
                /\ End(t, "failed")
           ELSE IF call[t].pc = "order_drain"
           THEN /\ orders' = [orders EXCEPT ![h].from = Tail(@), ![h].pending = NoRequest]
                /\ Go(t, "order_send") /\ UNCHANGED result
           ELSE /\ orders' = [orders EXCEPT ![h].from = Tail(@), ![h].pending = NoRequest,
                                            ![h].lock = NoThread]
                /\ End(t, "answered")
        /\ UNCHANGED <<plan, workers, made, handle, pipe, worker, session, stopped, faults, history>>

OrderBroken(t) ==
    LET h == On(t)
    IN  /\ call[t].pc \in {"order_drain", "order_wait"}
        /\ ~orders[h].open \/ (~worker[h].up /\ orders[h].from = <<>>)
        /\ orders' = [orders EXCEPT ![h].lock = NoThread]
        /\ End(t, "failed")
        /\ UNCHANGED <<plan, workers, made, handle, pipe, worker, session, stopped, faults, history>>

OrderTimeOut(t) ==
    LET h == On(t)
    IN  /\ call[t].pc \in {"order_drain", "order_wait"}
        /\ orders[h].open /\ worker[h].up /\ orders[h].from = <<>>
        /\ orders' = [orders EXCEPT ![h].lock = NoThread]
        /\ Go(t, "order_late")
        /\ UNCHANGED <<plan, workers, made, handle, pipe, worker, session, result, stopped, faults, history>>

(* Mutant: an order command that timed out drops the worker while no run   *)
(* is registered, without trying the request lock.                         *)
RetireUnlocked(t) ==
    /\ call[t].pc = "order_late"
    /\ IF \A u \in Runs : ~InProgress(u)
       THEN /\ call' = [call EXCEPT ![t].pc = "kill_end", ![t].end = "unconfirmed"]
            /\ UNCHANGED <<handle, result>>
       ELSE End(t, "unconfirmed") /\ UNCHANGED handle
    /\ UNCHANGED <<plan, workers, made, pipe, orders, worker, session, stopped, faults, history>>

(* _retire_idle_order_timeout: only a worker nobody uses is dropped; any   *)
(* other one is kept, with the command that is pending.  The asker hears   *)
(* that the outcome has yet to be confirmed.                               *)
RetireIdle(t) ==
    /\ call[t].pc = "order_late"
    /\ IF handle[On(t)].lock = NoThread /\ \A u \in Runs : ~InProgress(u)
       THEN /\ handle' = [handle EXCEPT ![On(t)].lock = t]
            /\ call' = [call EXCEPT ![t].pc = "kill_end", ![t].end = "unconfirmed"]
            /\ UNCHANGED result
       ELSE End(t, "unconfirmed") /\ UNCHANGED handle
    /\ UNCHANGED <<plan, workers, made, pipe, orders, worker, session, stopped, faults, history>>

-----------------------------------------------------------------------------
(* drop_account and shutdown_all: the handle leaves the table first, then  *)
(* it is disposed of.  A drop waits for the request in flight, the end of  *)
(* the service only for a while.                                           *)
Unregister(t) ==
    /\ call[t].pc = "idle" /\ ~Finished(t) /\ Ask(t) \in {"drop", "shutdown"}
    /\ workers' = NoHandle
    /\ IF workers = NoHandle
       THEN End(t, "done")
       ELSE /\ call' = [call EXCEPT ![t].pc = "dispose", ![t].h = workers]
            /\ UNCHANGED result
    /\ UNCHANGED <<plan, made, handle, pipe, orders, worker, session, stopped, faults, history>>

Dispose(t) ==
    /\ call[t].pc = "dispose"
    /\ session' = EndedSession(handle[On(t)].bound)
    /\ Go(t, IF handle[On(t)].open /\ worker[On(t)].up THEN "dispose_lock" ELSE "dispose_close")
    /\ UNCHANGED <<plan, workers, made, handle, pipe, orders, worker, result, stopped, faults, history>>

DisposeLock(t) ==
    /\ call[t].pc = "dispose_lock"
    /\ \/ /\ handle[On(t)].lock = NoThread
          /\ IF handle[On(t)].open /\ worker[On(t)].up
             THEN /\ handle' = [handle EXCEPT ![On(t)].lock = t]
                  /\ pipe' = [pipe EXCEPT ![On(t)].to = Append(@, <<t, 0>>)]
                  /\ Go(t, "dispose_wait")
             ELSE Go(t, "dispose_close") /\ UNCHANGED <<handle, pipe>>
       \/ /\ Ask(t) = "shutdown"
          /\ Go(t, "dispose_close") /\ UNCHANGED <<handle, pipe>>
    /\ UNCHANGED <<plan, workers, made, orders, worker, session, result, stopped, faults, history>>

(* The next answer, its absence and a dead pipe all lead on.               *)
DisposeWait(t) ==
    /\ call[t].pc = "dispose_wait"
    /\ Release(On(t)) /\ Go(t, "dispose_close")
    /\ \/ UNCHANGED pipe
       \/ /\ pipe[On(t)].from # <<>>
          /\ pipe' = [pipe EXCEPT ![On(t)].from = Tail(@)]
    /\ UNCHANGED <<plan, workers, made, orders, worker, session, result, stopped, faults, history>>

DisposeClose(t) ==
    /\ call[t].pc = "dispose_close"
    /\ handle' = [handle EXCEPT ![On(t)].open = FALSE]
    /\ Go(t, "dispose_join")
    /\ UNCHANGED <<plan, workers, made, pipe, orders, worker, session, result, stopped, faults, history>>

DisposeJoin(t) ==
    /\ call[t].pc = "dispose_join"
    /\ worker' = [worker EXCEPT ![On(t)] = Gone(@)]
    /\ pipe' = [pipe EXCEPT ![On(t)] = Emptied]
    /\ orders' = [orders EXCEPT ![On(t)].open = FALSE]
    /\ End(t, "done")
    /\ UNCHANGED <<plan, workers, made, handle, session, stopped, faults, history>>

-----------------------------------------------------------------------------
(* Somebody asks a run to stop.                                            *)
AskStop(t) ==
    /\ t \in Runs /\ InProgress(t) /\ t \notin stopped
    /\ stopped' = stopped \cup {t}
    /\ UNCHANGED <<plan, workers, made, handle, pipe, orders, worker, session, call, result, faults, history>>

-----------------------------------------------------------------------------
(* Mutant: the command of a run forgets the stops that came before it.     *)
TakeDeaf(h) ==
    LET r == Head(pipe[h].to)
    IN  /\ worker[h].up /\ worker[h].req = NoRequest /\ pipe[h].to # <<>>
        /\ pipe' = [pipe EXCEPT ![h].to = Tail(@)]
        /\ worker' = [worker EXCEPT ![h] =
              IF Stoppable(r)
              THEN [@ EXCEPT !.req = r, !.active = r[1], !.stop = FALSE]
              ELSE [@ EXCEPT !.req = r]]
        /\ begun' = IF r \in Request THEN [begun EXCEPT ![r] = @ + 1] ELSE begun
        /\ UNCHANGED <<plan, workers, made, handle, orders, session, call, result, stopped, faults, carried>>

(* The worker process.  Preparing and executing activate the run's stop:   *)
(* the event is cleared, and set again when its stop came before.          *)
Take(h) ==
    LET w == worker[h]
        r == Head(pipe[h].to)
    IN  /\ w.up /\ w.req = NoRequest /\ pipe[h].to # <<>>
        /\ pipe' = [pipe EXCEPT ![h].to = Tail(@)]
        /\ worker' = [worker EXCEPT ![h] =
              IF Stoppable(r)
              THEN [w EXCEPT !.req = r, !.active = r[1],
                             !.stop = r[1] \in w.pending,
                             !.pending = @ \ {r[1]}]
              ELSE [w EXCEPT !.req = r]]
        /\ begun' = IF r \in Request THEN [begun EXCEPT ![r] = @ + 1] ELSE begun
        /\ UNCHANGED <<plan, workers, made, handle, orders, session, call, result, stopped, faults, carried>>

(* The control thread of the worker hears a stop.                          *)
Hear(h) ==
    LET t == Head(pipe[h].ctl)
    IN  /\ worker[h].up /\ pipe[h].ctl # <<>>
        /\ pipe' = [pipe EXCEPT ![h].ctl = Tail(@)]
        /\ worker' = [worker EXCEPT ![h] =
              IF @.active = t THEN [@ EXCEPT !.stop = TRUE]
              ELSE [@ EXCEPT !.pending = worker[h].pending \cup {t}]]
        /\ UNCHANGED <<plan, workers, made, handle, orders, session, call, result, stopped, faults, history>>

(* The command of a request is over: the run's stop is cleared, the answer *)
(* is sent, and a worker that was shut down or must be replaced exits.     *)
Carried(h, how, ready, restart) ==
    LET r == worker[h].req
    IN  /\ worker[h].up /\ r # NoRequest
        /\ IF handle[h].open
           THEN pipe' = [pipe EXCEPT ![h].from =
                            Append(@, [id |-> r, how |-> how, ready |-> ready,
                                       restart |-> restart])]
           ELSE pipe' = [pipe EXCEPT ![h] = Emptied]
        /\ worker' = [worker EXCEPT ![h] =
              IF r[2] = 0 \/ restart \/ ~handle[h].open THEN Gone(@)
              ELSE [@ EXCEPT !.req = NoRequest, !.active = NoThread,
                             !.stop = FALSE, !.ready = ready]]
        /\ carried' = IF r \in Request THEN carried \cup {<<r, how>>} ELSE carried
        /\ UNCHANGED <<plan, workers, made, handle, orders, session, call, result, stopped, begun>>

Connects(r) == r[1] \in Threads /\ r[2] # 0 /\ plan[r[1]][r[2]] \in {"compute", "prepare", "execute"}

Answer(h) ==
    /\ Carried(h, "answered", worker[h].ready \/ Connects(worker[h].req), FALSE)
    /\ UNCHANGED faults

(* A checkpoint of the algorithm sees the event.                           *)
Obey(h) ==
    /\ worker[h].stop
    /\ Carried(h, "terminated", worker[h].ready, FALSE)
    /\ UNCHANGED faults

AskReplacement(h) ==
    /\ faults < MaxFaults /\ worker[h].req[2] # 0
    /\ faults' = faults + 1
    /\ Carried(h, "answered", FALSE, TRUE)

(* The server's end of the pipe is closed: an idle worker exits.           *)
Leave(h) ==
    /\ worker[h].up /\ worker[h].req = NoRequest
    /\ pipe[h].to = <<>> /\ ~handle[h].open
    /\ worker' = [worker EXCEPT ![h] = Gone(@)]
    /\ pipe' = [pipe EXCEPT ![h] = Emptied]
    /\ UNCHANGED <<plan, workers, made, handle, orders, session, call, result, stopped, faults, history>>

(* The order thread of the worker, beside its command loop: it takes the   *)
(* commands one by one, whoever may still wait for them, and answers.      *)
OrderTake(h) ==
    LET o == orders[h]
    IN  /\ worker[h].up /\ o.serving = NoRequest /\ o.to # <<>>
        /\ orders' = [orders EXCEPT ![h].to = Tail(@), ![h].serving = Head(o.to)]
        /\ begun' = [begun EXCEPT ![Head(o.to)] = @ + 1]
        /\ UNCHANGED <<plan, workers, made, handle, pipe, worker, session, call, result, stopped, faults, carried>>

OrderCarried(h) ==
    LET r == orders[h].serving
    IN  /\ worker[h].up /\ r # NoRequest
        /\ orders' = [orders EXCEPT ![h].serving = NoRequest,
                         ![h].from = IF orders[h].open THEN Append(@, r) ELSE @]
        /\ carried' = carried \cup {<<r, "answered">>}
        /\ UNCHANGED <<plan, workers, made, handle, pipe, worker, session, call, result, stopped, faults, begun>>

Die(h) ==
    /\ worker[h].up /\ faults < MaxFaults
    /\ faults' = faults + 1
    /\ worker' = [worker EXCEPT ![h] = Gone(@)]
    /\ pipe' = [pipe EXCEPT ![h].to = <<>>, ![h].ctl = <<>>]
    /\ UNCHANGED <<plan, workers, made, handle, orders, session, call, result, stopped, history>>

-----------------------------------------------------------------------------
Step(t) ==
    \/ Begin(t) \/ Get(t) \/ Lock(t) \/ Send(t) \/ Receive(t)
    \/ TimeOut(t) \/ Broken(t) \/ PassStop(t) \/ ForceStop(t)
    \/ KillEnd(t) \/ KillPop(t) \/ Kill(t)
    \/ OrderBind(t) \/ OrderLock(t) \/ OrderBusy(t) \/ OrderSend(t)
    \/ OrderReceive(t) \/ OrderBroken(t) \/ OrderTimeOut(t) \/ RetireIdle(t)
    \/ Unregister(t) \/ Dispose(t) \/ DisposeLock(t) \/ DisposeWait(t)
    \/ DisposeClose(t) \/ DisposeJoin(t)

WorkerStep(h) ==
    \/ Take(h) \/ Hear(h) \/ Answer(h) \/ Obey(h) \/ AskReplacement(h)
    \/ Leave(h) \/ Die(h) \/ OrderTake(h) \/ OrderCarried(h)

Next ==
    \/ \E t \in Threads : Step(t) \/ AskStop(t)
    \/ \E h \in Handles : WorkerStep(h)

Spec == Init /\ [][Next]_vars

(* The threads of the server go on, and a wait with a limit reaches it;    *)
(* nothing is promised of the workers.                                     *)
FairSpec == Spec /\ \A t \in Threads : WF_vars(Step(t))

-----------------------------------------------------------------------------
TypeOK ==
    /\ plan \in Plans
    /\ workers \in 0..MaxHandles /\ made \in 0..MaxHandles
    /\ handle \in [Handles -> [lock : Threads \cup {NoThread}, retired : BOOLEAN,
                               open : BOOLEAN, bound : 0..MaxHandles]]
    /\ \A h \in Handles :
          /\ worker[h].up \in BOOLEAN /\ worker[h].stop \in BOOLEAN
          /\ worker[h].ready \in BOOLEAN
          /\ worker[h].active \in Runs \cup {NoThread}
          /\ worker[h].pending \subseteq Runs
    /\ orders \in [Handles ->
          [open : BOOLEAN, lock : Threads \cup {NoThread},
           pending : Request \cup {NoRequest}, to : Seq(Request),
           from : Seq(Request), serving : Request \cup {NoRequest}]]
    /\ session \in [inst : 0..MaxHandles, on : 0..MaxHandles, ended : BOOLEAN, ready : BOOLEAN]
    /\ stopped \subseteq Runs
    /\ faults \in 0..MaxFaults

(* An order command that timed out takes its worker down only when nobody  *)
(* uses it: no request is on its way or being carried out, and a run that  *)
(* starts meanwhile finds the handle retired before it has sent anything.  *)
IdleIsIdle ==
    \A t, u \in Threads :
        (/\ call[t].pc \in {"kill_end", "kill_pop", "kill"} /\ Ask(t) = "order"
         /\ u # t /\ On(u) = On(t))
        => /\ call[u].pc \notin {"send", "wait", "dispose_wait"}
           /\ u \in Runs => worker[On(t)].req # Id(u)

(* A worker is only ever stopped by the stop of the run it carries out,    *)
(* and a stop that was passed on reaches the command of its run, also when *)
(* it overtakes the command on the way to the worker.  The computation of  *)
(* the targets is the exception: it hears no stop, see Stoppable.          *)
StopIsOwn ==
    \A h \in Handles :
        worker[h].stop => worker[h].active \in stopped /\ worker[h].req[1] = worker[h].active
StopArrives ==
    \A t \in Threads :
        LET w == worker[On(t)]
        IN  (/\ call[t].pc = "wait" /\ call[t].told
             /\ w.req = Id(t) /\ Stoppable(Id(t)) /\ pipe[On(t)].ctl = <<>>)
            => w.stop
StopReachesItsRun == StopIsOwn /\ StopArrives

(* Every request comes back although workers may hang, die and lose their  *)
(* pipe, and a drop waits for the request in flight without a limit.       *)
EveryRequestEnds == \A t \in Threads : <>Finished(t)

Ledger == INSTANCE RequestLedger WITH
    Requests <- Request, starts <- begun, done <- carried, outcome <- result

(* The threads, pipes and processes implement a ledger of requests: late   *)
(* answers, and answers to the requests of others on the same pipe, never  *)
(* pass for an answer, no worker does anything for a request that was      *)
(* reported as failed, and an order command that is still carried out      *)
(* after its time-out was reported as unconfirmed and is carried out once. *)
RefinesLedger == Ledger!Spec

=============================================================================
