--------------------------- MODULE AccountConnection ---------------------------
(***************************************************************************)
(* The one trading connection of an account inside its worker process:     *)
(* the resident executor (server/execution/resident_connection.py), the    *)
(* account's order book (executor/account_orders.py), the CTP session      *)
(* under it (executor/ctp/ctp_execute.py) and the monitor that samples the *)
(* book and repairs the connection (worker_backend/order_monitor.py).      *)
(*                                                                         *)
(* Three threads take the resource lock in turn: the request loop ("main": *)
(* runs, reconnects, page reads, manual disconnects), the order commands   *)
(* and the recovery thread.  The monitor only tries the lock.  The SDK's   *)
(* callbacks never take it: order pushes and a broken front arrive between *)
(* any two steps, and a run queries and places orders outside the lock.    *)
(*                                                                         *)
(* A CTP session that breaks is never repaired in place; the executor is   *)
(* closed and a new one, with an empty book, is built.                     *)
(***************************************************************************)
EXTENDS Naturals, Sequences, FiniteSets, SequencesExt

CONSTANTS
    Orders,       \* the orders of the account
    MaxFaults,    \* bound: broken fronts and failed attempts
    MaxRequests   \* bound: requests of users and of the scheduler

ASSUME BoundsAssumption == MaxFaults \in Nat /\ MaxRequests \in Nat

VARIABLES
    market,    \* the exchange's state of each order
    wire,      \* order pushes of the current session on their way
    phase,     \* the resident executor's session
    book,      \* its AccountOrderBook
    syncs,     \* the two possible order queries: mark, and rows once answered
    placed,    \* orders the run has sent whose place_order has not returned
    lock,      \* holder of resource_lock
    pc,        \* what each thread is doing
    kind,      \* the request main is serving
    moved,     \* attempt_revision has changed since main read it
    once,      \* connected_once
    tried,     \* connection_attempted
    error,     \* connection_error is set
    hot,       \* now < next_connect_at
    off,       \* disconnected
    status,    \* the session's last observation in the ConnectionCollector
    adopted,   \* orders_executor is executor
    enabled,   \* orders_recovery_enabled
    due,       \* now >= orders_retry_at
    owed,      \* history: an attempt has failed; no cooldown and no user's
               \* request to reconnect has arrived since
    faults, requests

exchange == <<market, wire, placed>>
host     == <<once, tried, error, hot, off, status, moved>>
monitor  == <<adopted, enabled, due>>
vars == <<exchange, phase, book, syncs, lock, pc, kind, host, monitor, owed,
          faults, requests>>

Threads == {"main", "command", "recovery"}
Readers == {"host", "run"}   \* host: whoever holds the lock
Kinds   == {"run", "connect", "read", "disconnect"}
Holding == {"connects", "confirms", "settles", "reports", "queries"}
NoSync  == [mark |-> 0, asked |-> FALSE, got |-> FALSE,
            rows |-> [o \in Orders |-> "absent"]]

-----------------------------------------------------------------------------
(* The order book.                                                           *)

NewBook == [st |-> [o \in Orders |-> "absent"], changed |-> [o \in Orders |-> 0],
            version |-> 0, invalid |-> 0, base |-> 0, error |-> "unsynced"]

\* Mutant: losing the connection is not given a version of its own.
InvalidateUnmarked(b) == [b EXCEPT !.error = "lost"]

\* The texts of the reasons are one value.
Invalidate(b) ==
    IF b.error = "lost" THEN b
    ELSE [b EXCEPT !.error = "lost", !.version = @ + 1, !.invalid = b.version + 1]

Apply(b, o, s) ==
    IF b.st[o] = s \/ b.st[o] = "done" THEN b
    ELSE [b EXCEPT !.st[o] = s, !.version = @ + 1, !.changed[o] = b.version + 1]

\* rows: the queried state of the orders; "absent" is a row that is missing.
Replace(b, rows, mark) ==
    LET Kept(o) == b.st[o] # "absent" /\ (b.changed[o] > mark \/ b.st[o] = "done")
        New(o)  == IF Kept(o) THEN b.st[o]
                   ELSE IF rows[o] # "absent" THEN rows[o]
                   ELSE IF b.st[o] = "absent" THEN "absent" ELSE "unknown"
    IN  IF mark < b.base THEN b
        ELSE [st |-> [o \in Orders |-> New(o)],
              changed |-> [o \in Orders |->
                  IF New(o) = "absent" THEN 0
                  ELSE IF b.st[o] = "absent" THEN b.version + 1 ELSE b.changed[o]],
              version |-> b.version + 1, base |-> b.version + 1,
              invalid |-> b.invalid,
              error |-> IF b.invalid <= mark THEN "none" ELSE b.error]

\* The snapshot's "complete": synchronised, and every open order is known.
Complete == book.error = "none" /\ \A o \in Orders : book.st[o] # "unknown"

-----------------------------------------------------------------------------
(* The host's record of the connection.                                      *)

Connected  == phase = "ready"
Suspect    == status \in {"error", "recovering"}     \* needs_reconciliation
Requesting == pc["main"] # "idle"                    \* request_active
Spend      == faults < MaxFaults /\ faults' = faults + 1

\* _check_attempt for the callers that may recover
Barred(force, err, cooling) == ~force /\ (off \/ (err /\ cooling))

\* _failed
MarkFailed ==
    /\ error' = TRUE /\ hot' = TRUE /\ tried' = TRUE /\ moved' = TRUE
    /\ status' = "cooldown"

Leave(t, next) == lock' = "free" /\ pc' = [pc EXCEPT ![t] = next]

Init ==
    /\ market = [o \in Orders |-> "absent"] /\ wire = <<>> /\ placed = {}
    /\ phase = "none" /\ book = NewBook /\ syncs = [r \in Readers |-> NoSync]
    /\ lock = "free" /\ pc = [t \in Threads |-> "idle"] /\ kind = "none"
    /\ once = FALSE /\ tried = FALSE /\ error = FALSE /\ hot = FALSE
    /\ off = FALSE /\ status = "none" /\ moved = FALSE
    /\ adopted = FALSE /\ enabled = FALSE /\ due = TRUE
    /\ owed = FALSE /\ faults = 0 /\ requests = 0

-----------------------------------------------------------------------------
(* The exchange and the SDK's callbacks.  They take no lock of the host.     *)

Streaming == phase \in {"logged", "ready"}
Sent(o, s) == IF Streaming THEN Append(wire, <<o, s>>) ELSE wire

\* An order of the account appears at the exchange from elsewhere, or ends.
OrderAppears(o) ==
    /\ market[o] = "absent" /\ market' = [market EXCEPT ![o] = "live"]
    /\ wire' = Sent(o, "live")
    /\ UNCHANGED <<placed, phase, book, syncs, lock, pc, kind, host, monitor,
                   owed, faults, requests>>

OrderEnds(o) ==
    /\ market[o] = "live" /\ market' = [market EXCEPT ![o] = "done"]
    /\ wire' = Sent(o, "done")
    /\ UNCHANGED <<placed, phase, book, syncs, lock, pc, kind, host, monitor,
                   owed, faults, requests>>

OnOrder ==
    /\ wire # <<>> /\ wire' = Tail(wire)
    /\ book' = Apply(book, Head(wire)[1], Head(wire)[2])
    /\ UNCHANGED <<market, placed, phase, syncs, lock, pc, kind, host, monitor,
                   owed, faults, requests>>

\* A front breaks: the instance is invalid for good, the observation reaches
\* the collector and the book, waiting queries fail.
Disconnected ==
    /\ Spend /\ phase \in {"connecting", "logged", "ready"}
    /\ phase' = "dead" /\ wire' = <<>> /\ book' = Invalidate(book)
    /\ status' = IF status \in {"ok", "recovering"} THEN "error" ELSE status
    /\ UNCHANGED <<market, placed, syncs, lock, pc, kind, once, tried, error, hot,
                   off, moved, monitor, owed, requests>>

-----------------------------------------------------------------------------
(* A complete query of the orders: begin_sync, the exchange's answer,        *)
(* replace.                                                                  *)

Asks(r) == syncs' = [syncs EXCEPT ![r].mark = book.version, ![r].asked = TRUE]

\* The start-up query returns every row of the day, get_pending_orders the
\* active ones.
Rows(all) == [o \in Orders |->
                 IF market[o] = "done" /\ ~all THEN "absent" ELSE market[o]]

Answer(r) ==
    /\ syncs[r].asked /\ ~syncs[r].got /\ Streaming
    /\ syncs' = [syncs EXCEPT ![r].rows = Rows(phase = "logged"),
                              ![r].got = TRUE]
    /\ UNCHANGED <<exchange, phase, book, lock, pc, kind, host, monitor, owed,
                   faults, requests>>

\* Mutant: the watermark is read when the rows are installed.
InstallLate(r) ==
    /\ syncs[r].got
    /\ book' = Replace(book, syncs[r].rows, book.version)
    /\ syncs' = [syncs EXCEPT ![r] = NoSync]

\* The rows were returned to the caller before the session broke, if it did.
Install(r) ==
    /\ syncs[r].got
    /\ book' = Replace(book, syncs[r].rows, syncs[r].mark)
    /\ syncs' = [syncs EXCEPT ![r] = NoSync]

\* Whoever holds the lock queries for the start-up, the confirmation or a
\* command.
HostAsks(t) ==
    /\ lock = t /\ ~syncs["host"].asked /\ Asks("host")
    /\ \/ pc[t] = "connects" /\ phase = "logged" /\ book.base = 0
       \/ pc[t] = "confirms" /\ Connected /\ ~Complete
       \/ pc[t] = "queries" /\ Connected
    /\ UNCHANGED <<exchange, phase, book, lock, pc, kind, host, monitor, owed,
                   faults, requests>>

HostInstalls(t) ==
    /\ lock = t /\ Install("host")
    /\ \/ pc[t] = "connects" /\ UNCHANGED <<lock, pc>>
       \/ pc[t] \in {"confirms", "queries"} /\ pc' = [pc EXCEPT ![t] = "settles"]
          /\ UNCHANGED lock
    /\ UNCHANGED <<exchange, phase, kind, host, monitor, owed, faults, requests>>

-----------------------------------------------------------------------------
(* ensure_resident_connection, by the thread that holds the lock.            *)

\* Building a new executor closes the old one; its book and pushes are gone.
Build(t) ==
    /\ phase' = "connecting" /\ wire' = <<>> /\ book' = NewBook
    /\ once' = FALSE /\ off' = FALSE /\ tried' = TRUE
    /\ status' = IF tried THEN "recovering" ELSE "connecting"
    /\ adopted' = FALSE
    /\ lock' = t /\ pc' = [pc EXCEPT ![t] = "connects"]

Refuse(t) == Leave(t, "idle") /\ UNCHANGED <<phase, wire, book, off, adopted>>

\* known: connected_once as the caller leaves it
Ensure(t, known, force) ==
    \/ /\ Connected /\ known /\ ~error
       /\ Leave(t, IF t = "main" /\ kind = "run" THEN "runs" ELSE "idle")
       /\ once' = known /\ adopted' = TRUE /\ enabled' = TRUE
       /\ UNCHANGED <<phase, wire, book, tried, error, hot, off, status, moved>>
    \/ /\ Connected /\ (~known \/ error)
       /\ once' = known
       /\ IF ~known /\ Barred(force, error, hot) THEN Refuse(t)
          ELSE /\ lock' = t /\ pc' = [pc EXCEPT ![t] = "confirms"]
               /\ UNCHANGED <<phase, wire, book, off, adopted>>
       /\ UNCHANGED <<tried, error, hot, status, moved, enabled>>
    \/ /\ ~Connected /\ known /\ ~error
       /\ IF force
          THEN Build(t) /\ error' = TRUE /\ hot' = TRUE /\ moved' = TRUE
          ELSE MarkFailed /\ once' = known /\ Refuse(t)
       /\ UNCHANGED enabled
    \/ /\ ~Connected /\ (~known \/ error)
       /\ IF Barred(force, error, hot)
          THEN Refuse(t) /\ once' = known /\ UNCHANGED <<tried, status>>
          ELSE Build(t)
       /\ UNCHANGED <<error, hot, moved, enabled>>

\* Front, authentication, login and settlement: pushes flow from here on.
LogIn(t) ==
    /\ lock = t /\ pc[t] = "connects" /\ phase = "connecting" /\ phase' = "logged"
    /\ UNCHANGED <<exchange, book, syncs, lock, pc, kind, host, monitor, owed,
                   faults, requests>>

\* _reconcile_session is through: the session is ready.
BecomeReady(t) ==
    /\ lock = t /\ pc[t] = "connects" /\ phase = "logged"
    /\ book.base # 0 /\ ~syncs["host"].asked
    /\ phase' = "ready" /\ pc' = [pc EXCEPT ![t] = "confirms"]
    /\ UNCHANGED <<exchange, book, syncs, lock, kind, host, monitor, owed,
                   faults, requests>>

\* The start-up stops at any stage; a failing constructor leaves no executor.
ConnectFails(t) ==
    /\ lock = t /\ pc[t] = "connects"
    /\ IF phase = "dead" THEN UNCHANGED faults ELSE Spend
    /\ phase' \in {"dead"} \cup (IF phase = "connecting" THEN {"none"} ELSE {})
    /\ wire' = <<>> /\ syncs' = [syncs EXCEPT !["host"] = NoSync]
    /\ MarkFailed /\ Leave(t, "idle") /\ owed' = TRUE
    /\ UNCHANGED <<market, placed, book, kind, once, off, monitor, requests>>

\* A query of the confirmation times out or meets a dead session.
ConfirmFails(t) ==
    /\ lock = t /\ t # "command"
    /\ \/ pc[t] = "confirms" /\ ~Complete
       \/ pc[t] = "settles" /\ \E o \in Orders : book.st[o] = "unknown"
    /\ IF Connected THEN Spend ELSE UNCHANGED faults
    /\ syncs' = [syncs EXCEPT !["host"] = NoSync]
    /\ MarkFailed /\ Leave(t, "idle") /\ owed' = TRUE
    /\ UNCHANGED <<exchange, phase, book, kind, once, off, monitor, requests>>

\* terminal_order: a missing order is asked for by itself, by a confirmation
\* always, by a command for the orders its page tracks.
Settle(t, o) ==
    /\ lock = t /\ pc[t] = "settles" /\ Connected
    /\ book.st[o] = "unknown" /\ market[o] = "done"
    /\ book' = Apply(book, o, "done")
    /\ UNCHANGED <<exchange, phase, syncs, lock, pc, kind, host, monitor, owed,
                   faults, requests>>

\* _confirm_ready after the reconciliation; the observation comes after.
Confirm(t) ==
    /\ lock = t /\ t # "command"
    /\ \/ pc[t] = "confirms" /\ Complete /\ ~syncs["host"].asked
       \/ pc[t] = "settles" /\ \A o \in Orders : book.st[o] # "unknown" \/ market[o] # "done"
    /\ once' = TRUE /\ tried' = TRUE /\ moved' = TRUE /\ off' = FALSE
    /\ error' = FALSE /\ hot' = FALSE /\ owed' = FALSE
    /\ pc' = [pc EXCEPT ![t] = "reports"]
    /\ UNCHANGED <<exchange, phase, book, syncs, lock, kind, status, monitor,
                   faults, requests>>

Report(t) ==
    /\ lock = t /\ pc[t] = "reports"
    /\ status' = "ok" /\ adopted' = TRUE /\ enabled' = TRUE
    /\ Leave(t, IF t = "main" /\ kind = "run" THEN "runs" ELSE "idle")
    /\ UNCHANGED <<exchange, phase, book, syncs, kind, once, tried, error, hot, off,
                   moved, due, owed, faults, requests>>

-----------------------------------------------------------------------------
(* The request loop.                                                         *)

MainAsked(k) ==
    /\ pc["main"] = "idle" /\ requests < MaxRequests /\ requests' = requests + 1
    /\ kind' = k /\ pc' = [pc EXCEPT !["main"] = "arrives"]
    /\ UNCHANGED <<exchange, phase, book, syncs, lock, host, monitor, owed, faults>>

\* Before the lock: the collector is looked at, the revision is noted.
MainArrives ==
    /\ pc["main"] = "arrives" /\ pc' = [pc EXCEPT !["main"] = "waits"]
    /\ once' = (once /\ (kind = "disconnect" \/ ~Suspect)) /\ moved' = FALSE
    /\ owed' = (owed /\ kind # "connect")
    /\ UNCHANGED <<exchange, phase, book, syncs, lock, kind, tried, error, hot, off,
                   status, monitor, faults, requests>>

\* Mutant: a reconnect that waited for an attempt makes its own.
MainEntersAgain ==
    /\ pc["main"] = "waits" /\ lock = "free" /\ kind \in {"run", "connect"}
    /\ Ensure("main", once, kind = "connect")
    /\ UNCHANGED <<market, placed, syncs, kind, due, owed, faults, requests>>

\* Reconnects that meet share the result of the first.
MainEnters ==
    /\ pc["main"] = "waits" /\ lock = "free" /\ kind \in {"run", "connect"}
    /\ Ensure("main", once, kind = "connect" /\ ~moved)
    /\ UNCHANGED <<market, placed, syncs, kind, due, owed, faults, requests>>

\* reuse_resident_connection: nothing is built; a loss found here is noted.
Reuse(known) ==
    IF known /\ ~error /\ ~off /\ phase # "none" /\ ~Connected
    THEN MarkFailed ELSE UNCHANGED <<error, hot, tried, moved, status>>

Usable(known) == Connected /\ known /\ ~error /\ ~off

MainReads ==
    /\ pc["main"] = "waits" /\ lock = "free" /\ kind = "read"
    /\ Reuse(once) /\ Leave("main", "idle")
    /\ UNCHANGED <<exchange, phase, book, syncs, kind, once, off, monitor, owed,
                   faults, requests>>

MainDisconnects ==
    /\ pc["main"] = "waits" /\ lock = "free" /\ kind = "disconnect"
    /\ phase' = "none" /\ wire' = <<>> /\ book' = NewBook
    /\ once' = FALSE /\ off' = TRUE /\ tried' = TRUE
    /\ error' = FALSE /\ hot' = FALSE /\ status' = "disconnected"
    /\ adopted' = FALSE /\ Leave("main", "idle")
    /\ UNCHANGED <<market, placed, syncs, kind, moved, enabled, due, owed, faults,
                   requests>>

\* The run itself uses the executor outside the lock.
RunAsks ==
    /\ pc["main"] = "runs" /\ Connected /\ ~syncs["run"].asked /\ Asks("run")
    /\ requests < MaxRequests /\ requests' = requests + 1
    /\ UNCHANGED <<exchange, phase, book, lock, pc, kind, host, monitor, owed,
                   faults>>

RunInstalls ==
    /\ Install("run")
    /\ UNCHANGED <<exchange, phase, lock, pc, kind, host, monitor, owed, faults,
                   requests>>

RunQueryFails ==
    /\ syncs["run"].asked /\ ~Connected
    /\ syncs' = [syncs EXCEPT !["run"] = NoSync]
    /\ UNCHANGED <<exchange, phase, book, lock, pc, kind, host, monitor, owed,
                   faults, requests>>

\* place_order: the exchange has the order before the call returns.
RunPlaces(o) ==
    /\ pc["main"] = "runs" /\ Connected /\ market[o] = "absent"
    /\ market' = [market EXCEPT ![o] = "live"] /\ wire' = Sent(o, "live")
    /\ placed' = placed \cup {o}
    /\ UNCHANGED <<phase, book, syncs, lock, pc, kind, host, monitor, owed, faults,
                   requests>>

RunPlaced(o) ==
    /\ o \in placed /\ placed' = placed \ {o} /\ book' = Apply(book, o, "live")
    /\ UNCHANGED <<market, wire, phase, syncs, lock, pc, kind, host, monitor, owed,
                   faults, requests>>

RunEnds ==
    /\ pc["main"] = "runs" /\ lock = "free" /\ placed = {} /\ ~syncs["run"].asked
    /\ pc' = [pc EXCEPT !["main"] = "idle"]
    /\ UNCHANGED <<exchange, phase, book, syncs, lock, kind, host, monitor, owed,
                   faults, requests>>

-----------------------------------------------------------------------------
(* Order commands.                                                           *)

CommandAsked ==
    /\ pc["command"] = "idle" /\ requests < MaxRequests /\ requests' = requests + 1
    /\ pc' = [pc EXCEPT !["command"] = "waits"]
    /\ UNCHANGED <<exchange, phase, book, syncs, lock, kind, host, monitor, owed,
                   faults>>

CommandEnters ==
    /\ pc["command"] = "waits" /\ lock = "free"
    /\ LET known == once /\ ~Suspect
           served == IF Requesting THEN Connected ELSE Usable(known)
       IN  /\ IF Requesting THEN UNCHANGED <<once, error, hot, tried, moved, status>>
              ELSE once' = known /\ Reuse(known)
           /\ IF served
              THEN lock' = "command" /\ pc' = [pc EXCEPT !["command"] = "queries"]
              ELSE Leave("command", "idle")
    /\ UNCHANGED <<exchange, phase, book, syncs, kind, off, monitor, owed, faults,
                   requests>>

CommandEnds ==
    /\ lock = "command"
    /\ \/ pc["command"] = "settles" /\ UNCHANGED faults
       \/ pc["command"] = "queries" /\ ~Connected /\ UNCHANGED faults
       \/ pc["command"] = "queries" /\ Connected /\ Spend
    /\ syncs' = [syncs EXCEPT !["host"] = NoSync] /\ Leave("command", "idle")
    /\ UNCHANGED <<exchange, phase, book, kind, host, monitor, owed, requests>>

-----------------------------------------------------------------------------
(* The monitor and the recovery thread.                                      *)

MayRecover == enabled /\ ~off /\ ~Requesting

\* The sample of every second; it is skipped while the lock is held.
Sample ==
    /\ lock = "free"
    /\ book' = IF adopted /\ (off \/ Suspect) THEN Invalidate(book) ELSE book
    /\ IF (~adopted \/ book'.error # "none") /\ MayRecover /\ ~hot /\ due
          /\ pc["recovery"] = "idle"
       THEN due' = FALSE /\ pc' = [pc EXCEPT !["recovery"] = "waits"]
       ELSE UNCHANGED <<due, pc>>
    /\ UNCHANGED <<exchange, phase, syncs, lock, kind, host, adopted, enabled, owed,
                   faults, requests>>

\* Mutant: what held when the thread was started is not looked at again.
RecoveryEntersBlind ==
    /\ pc["recovery"] = "waits" /\ lock = "free"
    /\ Ensure("recovery", FALSE, FALSE)
    /\ UNCHANGED <<market, placed, syncs, kind, due, owed, faults, requests>>

RecoveryEnters ==
    /\ pc["recovery"] = "waits" /\ lock = "free"
    /\ IF MayRecover THEN Ensure("recovery", FALSE, FALSE)
       ELSE pc' = [pc EXCEPT !["recovery"] = "idle"]
            /\ UNCHANGED <<wire, phase, book, lock, host, adopted, enabled>>
    /\ UNCHANGED <<market, placed, syncs, kind, due, owed, faults, requests>>

\* Thirty seconds pass since the latest failure, or the latest recovery.
CoolDown ==
    /\ hot /\ hot' = FALSE /\ owed' = FALSE
    /\ UNCHANGED <<exchange, phase, book, syncs, lock, pc, kind, once, tried, error,
                   off, status, moved, monitor, faults, requests>>

RetryDue ==
    /\ ~due /\ due' = TRUE
    /\ UNCHANGED <<exchange, phase, book, syncs, lock, pc, kind, host, adopted,
                   enabled, owed, faults, requests>>

-----------------------------------------------------------------------------
Held(t) ==
    \/ LogIn(t) \/ HostAsks(t) \/ HostInstalls(t) \/ BecomeReady(t)
    \/ \E o \in Orders : Settle(t, o)
    \/ Confirm(t) \/ Report(t)

Fails(t) == ConnectFails(t) \/ ConfirmFails(t)

Next ==
    \/ \E o \in Orders : OrderAppears(o) \/ OrderEnds(o) \/ RunPlaces(o) \/ RunPlaced(o)
    \/ OnOrder \/ Disconnected
    \/ \E r \in Readers : Answer(r)
    \/ \E t \in Threads : Held(t) \/ Fails(t)
    \/ \E k \in Kinds : MainAsked(k)
    \/ MainArrives \/ MainEnters \/ MainReads \/ MainDisconnects
    \/ RunAsks \/ RunInstalls \/ RunQueryFails \/ RunEnds
    \/ CommandAsked \/ CommandEnters \/ CommandEnds
    \/ Sample \/ RecoveryEnters \/ CoolDown \/ RetryDue

Spec == Init /\ [][Next]_vars

Lively ==
    \/ OnOrder \/ \E o \in Orders : RunPlaced(o)
    \/ \E r \in Readers : Answer(r)
    \/ \E t \in Threads : Held(t)
    \/ (phase = "dead" /\ \E t \in Threads : Fails(t))
    \/ MainArrives \/ MainEnters \/ MainReads \/ MainDisconnects
    \/ RunInstalls \/ RunQueryFails \/ RunEnds
    \/ CommandEnters
    \/ ((pc["command"] = "settles" \/ ~Connected) /\ CommandEnds)
    \/ RecoveryEnters

FairSpec == Spec /\ WF_vars(Lively) /\ WF_vars(Sample) /\ WF_vars(CoolDown)
                 /\ WF_vars(RetryDue)

-----------------------------------------------------------------------------
TypeOK ==
    /\ market \in [Orders -> {"absent", "live", "done"}]
    /\ wire \in Seq(Orders \X {"live", "done"})
    /\ phase \in {"none", "connecting", "logged", "ready", "dead"}
    /\ book.st \in [Orders -> {"absent", "live", "done", "unknown"}]
    /\ book.error \in {"unsynced", "lost", "none"}
    /\ lock \in Threads \cup {"free"}
    /\ \A t \in Threads : (lock = t) <=> (pc[t] \in Holding)
    /\ kind \in Kinds \cup {"none"} /\ placed \subseteq Orders
    /\ {once, tried, error, hot, off, moved, adopted, enabled, due, owed} \subseteq BOOLEAN

\* A list of orders that is shown as complete belongs to a session that is up
\* and, but for pushes still on their way, shows what is open at the exchange.
CompleteIsCurrent ==
    (lock = "free" /\ adopted /\ Complete) =>
        /\ Connected
        /\ (wire = <<>> /\ placed = {}) =>
              \A o \in Orders : (book.st[o] = "live") <=> (market[o] = "live")

\* Nothing replaces the executor under a run.
RunKeepsItsSession ==
    [][pc["main"] = "runs" => phase' \in {phase, "dead"} /\ adopted' = adopted]_vars

\* After a failed attempt nobody logs in before the cooldown is over, except
\* for a user who asks after the failure.
LoginsAreSpaced ==
    [][phase # "connecting" /\ phase' = "connecting" => ~owed]_vars

\* Once connected, an account that nobody disconnects comes back to a complete
\* list of its orders.
BookHeals == (enabled /\ ~off) ~> (off \/ (adopted /\ Complete))
=============================================================================
