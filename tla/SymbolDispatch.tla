--------------------------- MODULE SymbolDispatch ---------------------------
(***************************************************************************)
(* One run inside the executor (execution_engine.py): the symbols are      *)
(* planned, those that reduce a position run first, those that increase    *)
(* one follow when every reduction succeeded, each symbol in a thread of   *)
(* its own; the results are merged into the status of the run.  A thread   *)
(* is the algorithm SINGLE-MAKER without chasing, on a channel whose       *)
(* orders open or close (CTP, TQ): a few orders one after the other, each  *)
(* sized from the position that is read before it.  Meanwhile an operator  *)
(* may stop the run or its time may be up; whoever passes a checkpoint     *)
(* ends, a session withdraws the orders of its symbol first when the       *)
(* operator asked for that, and the engine merges what the sessions say.   *)
(*                                                                         *)
(* Volumes are small integers, a fill is one lot.  Prices, sizes and       *)
(* quotes only decide whether a symbol can be planned and whether a book   *)
(* is usable: free choices, the bad ones counted by MaxFaults.  The        *)
(* tracker (OrderTracker.tla) is reduced to what it has seen of the order  *)
(* it waits for, the guard (AccountControl.tla) to waiting as long as it   *)
(* likes at every call that needs quota.  Orders of earlier runs, fills    *)
(* by hand and degraded snapshots (no channel returns one) are left out.   *)
(***************************************************************************)
EXTENDS Integers, FiniteSets

CONSTANTS
    Symbols,
    Worlds,     \* positions and targets a run may start with
    Modes,      \* ways in which the operator may stop the run
    MaxLegs,    \* bound: orders of one algorithm (four in the code)
    MaxFaults,  \* bound: calls that fail
    NoSymbol

ASSUME DispatchAssumption ==
    /\ Worlds \subseteq [Symbols -> [pos : Int, target : Int]]
    /\ Modes \subseteq {"graceful", "cancel_pending"}
    /\ MaxLegs \in Nat \ {0} /\ MaxFaults \in Nat
    /\ NoSymbol \notin Symbols

VARIABLES
    pos, target,    \* position of a symbol, volume it is to have
    ord,            \* its latest order, as the exchange has it
    asked, expired, \* what the operator asked for; the end of the time
    main, one, two, \* the engine and the symbols of its two phases
    got,            \* statuses of the results of a symbol
    th,             \* the thread of a symbol
    first,          \* the first thread that ended by the stop
    rec,            \* what is recorded of the run
    faults

account == <<pos, target, ord>>
stop == <<asked, expired>>
engine == <<main, one, two, got, rec>>
vars == <<account, stop, engine, th, first, faults>>

NoOrder == [st |-> "none", side |-> "none", vol |-> 0, left |-> 0, known |-> FALSE]
NoStop == [trigger |-> "none", mode |-> "none"]
NoRecord == [status |-> "none", by |-> NoStop, tried |-> "none", failed |-> {}, unsure |-> FALSE]
NoThread == [pc |-> "idle", goal |-> 0, start |-> 0, need |-> 0, legs |-> 0, gave |-> 0,
             err |-> "none", bad |-> FALSE, filled |-> FALSE, seen |-> TRUE, res |-> "none",
             by |-> NoStop, tried |-> "none", failed |-> FALSE, unsure |-> FALSE]

Success == {"succeeded", "noop"}
Guarded == {"read", "place", "giveup", "confirm", "final"}
Ended == {"done", "terminated", "failed"}

Init ==
    /\ \E w \in Worlds : /\ pos = [s \in Symbols |-> w[s].pos]
                         /\ target = [s \in Symbols |-> w[s].target]
    /\ ord = [s \in Symbols |-> NoOrder]
    /\ asked = "none" /\ expired = "no"
    /\ main = "plan" /\ one = {} /\ two = {}
    /\ got = [s \in Symbols |-> {}]
    /\ th = [s \in Symbols |-> NoThread]
    /\ first = NoSymbol
    /\ rec = NoRecord
    /\ faults = 0

-----------------------------------------------------------------------------
Fine == UNCHANGED faults
Faulty == faults < MaxFaults /\ faults' = faults + 1

Live(s) == ord[s].st \in {"open", "cancelling"}

(* Mutant: the deadline goes before what the operator asked for.           *)
DeadlineFirst ==
    IF expired # "no" THEN [trigger |-> "timeout", mode |-> "graceful"]
    ELSE IF asked # "none" THEN [trigger |-> "operator", mode |-> asked] ELSE NoStop

(* _current_termination: the operator goes before the deadline, which      *)
(* never withdraws orders.                                                 *)
Current ==
    IF asked # "none" THEN [trigger |-> "operator", mode |-> asked]
    ELSE IF expired # "no" THEN [trigger |-> "timeout", mode |-> "graceful"] ELSE NoStop

Stopped == Current # NoStop

(* _classify_symbol_dispatch_phases: what brings a position nearer to zero *)
(* belongs to phase one, what leads away from it to phase two, a change of *)
(* side to both.                                                           *)
Size(v) == IF v < 0 THEN -v ELSE v
Reduces(s) == pos[s] # 0 /\ (pos[s] * target[s] <= 0 \/ Size(target[s]) < Size(pos[s]))
Opens(s) == target[s] # 0 /\ (pos[s] * target[s] <= 0 \/ Size(target[s]) > Size(pos[s]))
FirstGoal(s) == IF pos[s] * target[s] > 0 THEN target[s] ELSE 0

(* _derive_symbol_result_status, the results of one symbol.  A closed      *)
(* market ("closed") is a block that is told apart below.                  *)
SymbolStatus(R) ==
    IF "failed" \in R THEN IF R \cap Success # {} THEN "partial" ELSE "failed"
    ELSE IF "partial" \in R THEN "partial"
    ELSE IF "blocked" \in R THEN IF R \cap Success # {} THEN "partial" ELSE "blocked"
    ELSE IF "closed" \in R THEN "closed"
    ELSE IF R \subseteq {"noop"} THEN "noop" ELSE "succeeded"

(* Mutant: a run has failed when every symbol has.                         *)
RunStatusLenient(S) ==
    IF "partial" \in S THEN "partial"
    ELSE IF S \subseteq {"failed"} THEN "failed"
    ELSE IF S \cap {"blocked", "closed"} # {} THEN "blocked"
    ELSE IF S \subseteq {"noop"} THEN "noop" ELSE "succeeded"

(* _derive_dispatch_status, the run.                                       *)
RunStatus(S) ==
    IF "partial" \in S THEN "partial"
    ELSE IF "failed" \in S THEN IF "succeeded" \in S THEN "partial" ELSE "failed"
    ELSE IF S \cap {"blocked", "closed"} # {}
         THEN IF "succeeded" \in S \/ ("noop" \in S /\ "blocked" \notin S) THEN "partial" ELSE "blocked"
    ELSE IF S \subseteq {"noop"} THEN "noop" ELSE "succeeded"

Statuses == {SymbolStatus(got[s]) : s \in Symbols}

-----------------------------------------------------------------------------
(* The operator, the clock and the exchange.                               *)

Ask ==
    /\ asked = "none" /\ main \notin Ended
    /\ asked' \in Modes
    /\ UNCHANGED <<account, expired, engine, th, first, faults>>

Expire ==
    /\ expired = "no" /\ main \notin Ended
    /\ expired' = IF asked = "none" THEN "first" ELSE "later"
    /\ UNCHANGED <<account, asked, engine, th, first, faults>>

Fill(s) ==
    /\ Live(s)
    /\ LET lot == IF ord[s].left > 0 THEN 1 ELSE -1
       IN  /\ pos' = [pos EXCEPT ![s] = @ + lot]
           /\ ord' = [ord EXCEPT ![s].left = @ - lot,
                                 ![s].st = IF ord[s].left = lot THEN "filled" ELSE @]
    /\ UNCHANGED <<target, stop, engine, th, first, faults>>

(* The exchange cancels an order, asked to or not, or rejects it.          *)
EndOrder(s) ==
    /\ Live(s)
    /\ \E st \in {"cancelled", "rejected"} :
        /\ st = "rejected" => ord[s].st = "open" /\ ord[s].left = ord[s].vol
        /\ ord' = [ord EXCEPT ![s].st = st]
    /\ UNCHANGED <<pos, target, stop, engine, th, first, faults>>

(* What became of an order reaches the tracker: whether any of it was      *)
(* filled, and a rejection, which is an error of the result.               *)
See(r, o) == [r EXCEPT !.seen = TRUE, !.filled = @ \/ o.left # o.vol,
                       !.err = IF o.st = "rejected" THEN "error" ELSE @]

Report(s) ==
    /\ ord[s].known /\ ~Live(s) /\ ~th[s].seen
    /\ th[s].pc \in {"wait", "giveup", "confirm"}
    /\ th' = [th EXCEPT ![s] = See(@, ord[s])]
    /\ UNCHANGED <<account, stop, engine, first, faults>>

-----------------------------------------------------------------------------
(* The thread of a symbol.                                                 *)

Moves(s, r) == th' = [th EXCEPT ![s] = r]
Goes(s, at) == Moves(s, [th[s] EXCEPT !.pc = at])
Results(s, status) == Moves(s, [NoThread EXCEPT !.pc = "result", !.res = status])

(* ExecutionTerminated leaves the thread; the engine merges the exceptions *)
(* in the order in which the threads ended.                                *)
Terminates(s, r) ==
    /\ Moves(s, [NoThread EXCEPT !.pc = "terminated", !.by = r.by, !.tried = r.tried,
                                 !.failed = r.failed, !.unsure = r.unsure])
    /\ first' = IF first = NoSymbol THEN s ELSE first

Elsewhere == UNCHANGED <<stop, engine, target>>

(* An exception that asks for a new session goes through every handler.    *)
Recovery(s) ==
    /\ th[s].pc \in Guarded \cup {"clean", "withdraw", "verify"}
    /\ Faulty /\ Moves(s, [NoThread EXCEPT !.pc = "recovery"])
    /\ Elsewhere /\ UNCHANGED <<pos, ord, first>>

(* handle_termination_checkpoint of the session: it withdraws what its     *)
(* symbol has open before it raises.                                       *)
SessionStop(s) ==
    /\ th[s].pc \in {"queued", "submit", "wait", "giveup", "confirm"} /\ Stopped
    /\ LET r == [NoThread EXCEPT !.pc = "clean", !.by = Current]
       IN  IF Current.mode = "cancel_pending" THEN Moves(s, r) /\ UNCHANGED first
           ELSE Terminates(s, r)
    /\ Elsewhere /\ Fine /\ UNCHANGED <<pos, ord>>

(* Mutant: a call that places an order waits for quota without looking up. *)
GuardDeaf(s) ==
    /\ th[s].pc \in Guarded \ {"place"} /\ Stopped
    /\ Terminates(s, [th[s] EXCEPT !.by = Current])
    /\ Elsewhere /\ Fine /\ UNCHANGED <<pos, ord>>

(* A call that waits for quota polls the checkpoint of the owner, which    *)
(* withdraws nothing.                                                      *)
GuardStop(s) ==
    /\ th[s].pc \in Guarded /\ Stopped
    /\ Terminates(s, [th[s] EXCEPT !.by = Current])
    /\ Elsewhere /\ Fine /\ UNCHANGED <<pos, ord>>

(* _cancel_pending_orders_before_termination, in the four seconds it has:  *)
(* the query, the request and the check that the order really ended.       *)
CleanQuery(s) ==
    /\ th[s].pc = "clean"
    /\ \/ Fine /\ Live(s) /\ Goes(s, "withdraw") /\ UNCHANGED first
       \/ Fine /\ ~Live(s) /\ Terminates(s, [th[s] EXCEPT !.tried = "no"])
       \/ Faulty /\ Terminates(s, [th[s] EXCEPT !.tried = "no", !.unsure = TRUE])
    /\ Elsewhere /\ UNCHANGED <<pos, ord>>

Asking(s) == ord' = IF Live(s) THEN [ord EXCEPT ![s].st = "cancelling"] ELSE ord

CleanCancel(s) ==
    /\ th[s].pc = "withdraw"
    /\ LET r == [th[s] EXCEPT !.tried = "yes"]
       IN  \/ Fine /\ Asking(s) /\ Moves(s, [r EXCEPT !.pc = "verify"]) /\ UNCHANGED first
           \/ /\ IF Live(s) THEN Faulty ELSE Fine
              /\ Terminates(s, [r EXCEPT !.failed = TRUE, !.unsure = TRUE]) /\ UNCHANGED ord
    /\ Elsewhere /\ UNCHANGED pos

(* The order is found cancelled, found ended otherwise, or not found ended *)
(* (not yet, the query fails, the channel cannot tell).                    *)
CleanVerify(s) ==
    /\ th[s].pc = "verify"
    /\ \/ ord[s].st = "cancelled" /\ Terminates(s, th[s])
       \/ ord[s].st \in {"filled", "rejected"}
          /\ Terminates(s, [th[s] EXCEPT !.failed = TRUE, !.unsure = TRUE])
       \/ Terminates(s, [th[s] EXCEPT !.unsure = TRUE])
    /\ Elsewhere /\ Fine /\ UNCHANGED <<pos, ord>>

Begin(s) ==
    /\ th[s].pc = "queued" /\ ~Stopped
    /\ Goes(s, "read")
    /\ Elsewhere /\ Fine /\ UNCHANGED <<pos, ord, first>>

(* The position is read before every order, the first time twice: what     *)
(* fails at the first reading is the result of the thread, what fails      *)
(* later an error in it.                                                   *)
Read(s) ==
    /\ th[s].pc = "read"
    /\ LET r == [th[s] EXCEPT !.need = th[s].goal - pos[s],
                              !.start = IF th[s].legs = 0 THEN pos[s] ELSE @]
       IN  \/ Fine /\ Moves(s, [r EXCEPT !.pc = IF r.need = 0 \/ r.legs = MaxLegs
                                                THEN "final" ELSE "submit"])
           \/ Faulty /\ Moves(s, [r EXCEPT !.pc = "final", !.err = "error"])
           \/ Faulty /\ r.legs = 0 /\ Results(s, "failed")
           \/ Faulty /\ r.legs = 0 /\ Results(s, "blocked")   \* no usable book, no quota
    /\ Elsewhere /\ UNCHANGED <<pos, ord, first>>

(* The checkpoint before an order, unless the time for it is over.         *)
Submit(s) ==
    /\ th[s].pc = "submit"
    /\ \/ ~Stopped /\ Goes(s, "place")
       \/ Goes(s, "final")
    /\ Elsewhere /\ Fine /\ UNCHANGED <<pos, ord, first>>

Side(s) == IF pos[s] * th[s].need < 0 THEN "reduce" ELSE "increase"

(* place_order: accepted, not placed (too small), refused by the guard,    *)
(* failed, or failed although the exchange has the order.  A refusal does  *)
(* not make up for an earlier error, see Outcome.                          *)
Place(s) ==
    /\ th[s].pc = "place"
    /\ LET o == [st |-> "open", side |-> Side(s), vol |-> th[s].need, left |-> th[s].need, known |-> TRUE]
           r == [th[s] EXCEPT !.pc = "final"]
       IN  \/ /\ Fine /\ ord' = [ord EXCEPT ![s] = o]
              /\ Moves(s, [r EXCEPT !.pc = "wait", !.legs = @ + 1, !.seen = FALSE])
           \/ Fine /\ Moves(s, r) /\ UNCHANGED ord
           \/ /\ Faulty /\ UNCHANGED ord
              /\ Moves(s, [r EXCEPT !.err = IF r.err = "error" THEN "error" ELSE "blocked"])
           \/ /\ Faulty /\ Moves(s, [r EXCEPT !.err = "error"])
              /\ \/ UNCHANGED ord
                 \/ ord' = [ord EXCEPT ![s] = [o EXCEPT !.known = FALSE]]
    /\ Elsewhere /\ UNCHANGED <<pos, first>>

(* The wait ends with the order, and what is left is ordered again; or     *)
(* with its time.                                                          *)
Wait(s) ==
    /\ th[s].pc = "wait"
    /\ \/ th[s].seen /\ Goes(s, "read")
       \/ ~Stopped /\ ~th[s].seen /\ Goes(s, "giveup")
    /\ Elsewhere /\ Fine /\ UNCHANGED <<pos, ord, first>>

(* The wait is followed by another one without time, which gives up in its *)
(* turn while the order is not seen to have ended.                         *)
GaveUp(r) ==
    [r EXCEPT !.pc = IF r.seen \/ r.gave = 1 THEN "final" ELSE "giveup", !.gave = 1, !.bad = FALSE,
              !.err = IF r.bad /\ ~r.seen THEN "error" ELSE @]

GiveUp(s) ==
    /\ th[s].pc = "giveup" /\ ~Stopped
    /\ \/ Fine /\ Asking(s) /\ Goes(s, "confirm")
       \/ /\ Faulty /\ Live(s) /\ UNCHANGED ord
          /\ Moves(s, [th[s] EXCEPT !.pc = "confirm", !.bad = TRUE])
       \/ /\ Faulty /\ UNCHANGED ord
          /\ Moves(s, GaveUp([th[s] EXCEPT !.err = "error"]))
    /\ Elsewhere /\ UNCHANGED <<pos, first>>

(* _reconcile_timeout_cancellations: the end of the order is found, or not *)
(* (the channel may not be able to tell).                                  *)
Confirm(s) ==
    /\ th[s].pc = "confirm" /\ ~Stopped
    /\ \/ Moves(s, GaveUp(th[s]))
       \/ ~Live(s) /\ Moves(s, GaveUp(See(th[s], ord[s])))
    /\ Elsewhere /\ Fine /\ UNCHANGED <<pos, ord, first>>

(* summarize_outcome: the position that was read and the ends of the       *)
(* orders decide together.                                                 *)
Outcome(r, final, known) ==
    LET error == r.err = "error" \/ ~r.seen \/ ~known
        progress == r.filled \/ (known /\ final # r.start) \/ ~r.seen
    IN  IF known /\ final = r.goal /\ ~error
        THEN IF r.start = r.goal /\ r.legs = 0 THEN "noop" ELSE "succeeded"
        ELSE IF r.err = "blocked" /\ ~error /\ ~progress /\ r.legs = 0 THEN "blocked"
        ELSE IF progress THEN "partial" ELSE "failed"

Final(s) ==
    /\ th[s].pc = "final"
    /\ \/ Fine /\ Results(s, Outcome(th[s], pos[s], TRUE))
       \/ Faulty /\ Results(s, Outcome(th[s], 0, FALSE))
    /\ Elsewhere /\ UNCHANGED <<pos, ord, first>>

-----------------------------------------------------------------------------
(* The engine.                                                             *)

EngineOnly == UNCHANGED <<account, stop, th, first>>
Thread(goal) == [NoThread EXCEPT !.pc = "queued", !.goal = goal]
Threads(S, goal) == th' = [s \in Symbols |-> IF s \in S THEN Thread(goal[s]) ELSE th[s]]

(* lifecycle.py: the record of a terminated run; where no session says     *)
(* whether it tried to withdraw, the mode answers.                         *)
Terminated(by, tried, failed, unsure) ==
    [status |-> "terminated", by |-> by, failed |-> failed, unsure |-> unsure,
     tried |-> IF tried # "none" THEN tried
               ELSE IF by.mode = "cancel_pending" THEN "yes" ELSE "no"]

(* Mutant: only a plain failure keeps phase two from running.              *)
OneFailedOnly == \E s \in one : th[s].res = "failed"

OneFailed == \E s \in one : th[s].res \notin Success

(* The engine is about to run a phase, or to plan, withdraw or look.       *)
Calling ==
    /\ main \in {"plan", "prepare", "one", "two", "output"}
    /\ main = "one" => one # {}
    /\ main = "two" => two # {} /\ ~OneFailed

(* The engine's own checkpoints, and the queries of a planning or of the   *)
(* result that wait for quota.                                             *)
EngineStop ==
    /\ Calling /\ Stopped
    /\ main' = "terminated"
    /\ rec' = Terminated(Current, "none", {}, FALSE)
    /\ UNCHANGED <<one, two, got>> /\ EngineOnly /\ Fine

(* Planning, withdrawing old orders or subscribing fails, or a call asks   *)
(* for a new session.                                                      *)
EngineFails ==
    /\ Calling /\ Faulty
    /\ main' = "failed" /\ rec' = [NoRecord EXCEPT !.status = "failed"]
    /\ UNCHANGED <<one, two, got>> /\ EngineOnly

(* A symbol whose market is closed, or which cannot be sized, gets its     *)
(* result here; so does one that is where it shall be.                     *)
Plan ==
    /\ main = "plan" /\ ~Stopped
    /\ \E out \in SUBSET Symbols, result \in {"closed", "failed"} :
        /\ Cardinality(out) <= 1
        /\ IF out = {} THEN Fine ELSE Faulty
        /\ one' = {s \in Symbols \ out : Reduces(s)}
        /\ two' = {s \in Symbols \ out : Opens(s)}
        /\ got' = [s \in Symbols |-> IF s \in out THEN {result}
                                     ELSE IF Reduces(s) \/ Opens(s) THEN {} ELSE {"noop"}]
    /\ main' = IF one' \cup two' = {} THEN "output" ELSE "prepare"
    /\ UNCHANGED rec /\ EngineOnly

Prepare ==
    /\ main = "prepare" /\ ~Stopped
    /\ main' = "one"
    /\ UNCHANGED <<one, two, got, rec>> /\ EngineOnly /\ Fine

PhaseOne ==
    /\ main = "one"
    /\ IF one = {} THEN main' = "two" /\ UNCHANGED th
       ELSE ~Stopped /\ main' = "reducing" /\ Threads(one, [s \in one |-> FirstGoal(s)])
    /\ UNCHANGED <<account, stop, one, two, got, rec, first>> /\ Fine

At(S, pc) == {s \in S : th[s].pc = pc}

(* Mutant: only the first exception is kept.                               *)
MergeFirst(T) ==
    Terminated(th[first].by, th[first].tried,
               {s \in {first} : th[s].failed}, th[first].unsure)

(* _merge_symbol_terminations.                                             *)
Merge(T) ==
    Terminated(th[first].by,
               IF \E s \in T : th[s].tried = "yes" THEN "yes"
               ELSE IF \A s \in T : th[s].tried = "no" THEN "no" ELSE "none",
               {s \in T : th[s].failed},
               \E s \in T : th[s].unsure)

(* The pool is left when every thread has ended: by an exception that asks *)
(* for a new session, by the merged terminations, or with the results.     *)
Join ==
    \E at \in {"reducing", "increasing"} :
        LET S == IF at = "reducing" THEN one ELSE two
            T == {s \in S : th[s].pc # "idle"}
        IN  /\ main = at
            /\ T = At(T, "result") \cup At(T, "terminated") \cup At(T, "recovery")
            /\ IF At(T, "recovery") # {}
               THEN main' = "failed" /\ rec' = [NoRecord EXCEPT !.status = "failed"] /\ UNCHANGED got
               ELSE IF At(T, "terminated") # {}
               THEN main' = "terminated" /\ rec' = Merge(At(T, "terminated")) /\ UNCHANGED got
               ELSE /\ main' = IF at = "reducing" THEN "two" ELSE "output"
                    /\ got' = [s \in Symbols |-> got[s] \cup IF s \in T THEN {th[s].res} ELSE {}]
                    /\ UNCHANGED rec
            /\ UNCHANGED <<one, two>> /\ EngineOnly /\ Fine

SkipTwo ==
    /\ main = "two" /\ (two = {} \/ OneFailed)
    /\ main' = "output"
    /\ got' = [s \in Symbols |-> got[s] \cup IF s \in two THEN {"blocked"} ELSE {}]
    /\ UNCHANGED <<one, two, rec>> /\ EngineOnly /\ Fine

(* Phase two; after a phase one it is planned anew, where a symbol may     *)
(* turn out too small to trade or impossible to size.                      *)
PhaseTwo ==
    /\ main = "two" /\ two # {} /\ ~OneFailed /\ ~Stopped
    /\ \E lost, small \in SUBSET two :
        /\ one = {} => lost = {} /\ small = {}
        /\ Cardinality(lost) <= 1 /\ lost \cap small = {}
        /\ IF lost = {} THEN Fine ELSE Faulty
        /\ target' = [s \in Symbols |-> IF s \in small THEN 0 ELSE target[s]]
        /\ got' = [s \in Symbols |-> got[s] \cup IF s \in lost THEN {"failed"} ELSE {}]
        /\ th' = [s \in Symbols |-> IF s \in two \ lost THEN Thread(target'[s])
                                    ELSE IF s \in lost THEN NoThread ELSE th[s]]
        /\ main' = IF two \subseteq lost THEN "output" ELSE "increasing"
    /\ UNCHANGED <<pos, ord, stop, one, two, rec, first>>

(* The status of the run; if the last look at the account fails, nothing   *)
(* that rests on positions is claimed.                                     *)
Output ==
    /\ main = "output"
    /\ main' = "done"
    /\ LET status == RunStatus(Statuses)
       IN  \/ Fine /\ rec' = [NoRecord EXCEPT !.status = status]
           \/ /\ Faulty
              /\ rec' = [NoRecord EXCEPT !.status =
                            IF status \notin Success \cup {"partial"} THEN status
                            ELSE IF Statuses \cap {"partial", "succeeded"} # {} THEN "partial" ELSE "failed"]
    /\ UNCHANGED <<one, two, got>> /\ EngineOnly

-----------------------------------------------------------------------------
Stops(s) == SessionStop(s) \/ GuardStop(s) \/ CleanQuery(s) \/ CleanCancel(s) \/ CleanVerify(s)

ThreadNext(s) ==
    \/ Begin(s) \/ Read(s) \/ Submit(s) \/ Place(s) \/ Wait(s) \/ GiveUp(s) \/ Confirm(s)
    \/ Final(s) \/ Stops(s) \/ Recovery(s)

Next ==
    \/ Ask \/ Expire
    \/ \E s \in Symbols : Fill(s) \/ EndOrder(s) \/ Report(s) \/ ThreadNext(s)
    \/ Plan \/ Prepare \/ PhaseOne \/ SkipTwo \/ PhaseTwo \/ Join \/ Output
    \/ EngineStop \/ EngineFails

Spec == Init /\ [][Next]_vars

(* What follows a stop goes on by itself: checkpoints are polled at least  *)
(* once a second, the withdrawal has four seconds.  Nothing else need      *)
(* happen: orders may rest, limits of time and of quota may be far away.   *)
FairSpec ==
    /\ Spec
    /\ \A s \in Symbols : WF_vars(Stops(s))
    /\ WF_vars(EngineStop \/ PhaseOne \/ SkipTwo \/ Join)

-----------------------------------------------------------------------------
TypeOK ==
    /\ pos \in [Symbols -> Int] /\ target \in [Symbols -> Int]
    /\ ord \in [Symbols -> [st : {"none", "open", "cancelling", "filled", "cancelled", "rejected"},
                            side : {"none", "reduce", "increase"}, vol : Int, left : Int, known : BOOLEAN]]
    /\ asked \in {"none", "graceful", "cancel_pending"} /\ expired \in {"no", "first", "later"}
    /\ main \in Ended \cup {"plan", "prepare", "one", "reducing", "two", "increasing", "output"}
    /\ one \subseteq Symbols /\ two \subseteq Symbols
    /\ got \in [Symbols -> SUBSET {"succeeded", "noop", "partial", "failed", "blocked", "closed"}]
    /\ first \in Symbols \cup {NoSymbol}
    /\ faults \in 0..MaxFaults

(* While the run increases a position, everything it had to reduce has     *)
(* been reduced, as far as the exchange is concerned: no reducing order of *)
(* the run can still be filled and every symbol that was only to be        *)
(* reduced stands at its target (_run_phase_two_dispatch with              *)
(* summarize_outcome).                                                     *)
ReducedFirst ==
    (\E s \in Symbols : ord[s].side = "increase") =>
        \A r \in one : /\ Live(r) => ord[r].side = "increase"
                       /\ r \notin two => pos[r] = target[r]

(* A run that is recorded as successful has every symbol at the volume it  *)
(* was last sized to, and none of its orders can change that any more      *)
(* (summarize_outcome, the merges and the last look at the account).       *)
SuccessIsTrue ==
    main = "done" /\ rec.status \in Success =>
        \A s \in Symbols : pos[s] = target[s] /\ ~Live(s)

(* A symbol whose session went through its withdrawal and whose order can  *)
(* still be filled is found in the record of the terminated run: its order *)
(* among the failed ones, or the withdrawals as unconfirmed                *)
(* (_merge_symbol_terminations).                                           *)
CleanedIsReported ==
    main = "terminated" =>
        \A s \in Symbols : th[s].tried # "none" /\ Live(s) => s \in rec.failed \/ rec.unsure

(* A stop that reached a thread is never swallowed by the results of the   *)
(* other symbols, and the run is recorded as ended by whoever asked for it *)
(* first, unless the operator asks after the time was up.                  *)
StopIsRecorded ==
    /\ main = "done" => At(Symbols, "terminated") = {}
    /\ main = "terminated" =>
        /\ asked = "none" => expired # "no" /\ rec.by.trigger = "timeout"
        /\ asked # "none" /\ expired # "first" => rec.by = [trigger |-> "operator", mode |-> asked]

(* A run that is asked to stop, or whose time is up, ends, however long    *)
(* its orders rest, its waits last and its calls wait for quota.           *)
StopEndsTheRun == (asked # "none" \/ expired # "no") ~> main \in Ended
=============================================================================
