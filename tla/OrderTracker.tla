---------------------------- MODULE OrderTracker ----------------------------
(***************************************************************************)
(* The order tracker of one algorithm run (order_tracker.py): the thread   *)
(* of the algorithm submits an order per line, waits, replaces an order    *)
(* that the market has left behind (a chase) and gives up with market      *)
(* orders; the callback thread of the channel reports what becomes of the  *)
(* orders and places the market orders of a fallback itself.               *)
(*                                                                         *)
(* An order is named by its line and its number: 0 is the first one, then  *)
(* the chases, then the market orders of the fallback.  Volumes are small  *)
(* numbers.  Prices, ticks and intervals only decide whether an order is   *)
(* chased and whether a market order is safe: both are free choices.       *)
(* Trade records are left out, the last report of an order carries all of  *)
(* its fill.  Of the clock only the deadline for submissions remains, and  *)
(* the end of the wait may come whenever the waiting thread looks.         *)
(***************************************************************************)
EXTENDS Integers, Sequences, FiniteSets, FiniteSetsExt, Functions

CONSTANTS
    Lines,      \* orders the algorithm submits
    Volumes,    \* the volumes it may submit them with, per line
    MaxVolume,  \* bound: volume of a line
    MaxChase,   \* max_count of the chase configuration
    MaxEnds,    \* bound: orders that end without being cancelled by us
    Resident,   \* a resident account relies on reports, another one queries
    NoOrder

ASSUME TrackerAssumption ==
    /\ IsFiniteSet(Lines)
    /\ MaxVolume \in Nat /\ MaxChase \in Nat /\ MaxEnds \in Nat
    /\ Volumes \subseteq [Lines -> 0..MaxVolume]
    /\ Resident \in BOOLEAN
    /\ NoOrder \notin Lines \X Nat

Ids == Lines \X (0..(MaxChase + MaxVolume))
Threads == {"waiter", "callback"}
Ends == {"filled", "canceled"}

VARIABLES
    volume,     \* what each line is to trade, never changed
    exch,       \* the orders as the exchange has them
    cancelling, \* orders whose cancellation was accepted
    reports,    \* reports on their way to the callback thread
    book,       \* the state under the tracker's lock
    pc, todo, cur, failed, result,      \* the thread of the algorithm
    job,        \* fallback batch each thread is submitting
    replay,     \* early reports each thread still has to replay
    expired,    \* the deadline for submissions has passed
    lost        \* history: lines with a replacement nobody tracks

main == <<pc, todo, cur, failed, result>>
vars == <<volume, exch, cancelling, reports, book, main, job, replay, expired, lost>>

NoJob     == [of |-> NoOrder, at |-> "none", left |-> 0, next |-> 0]
NewJob(o) == [of |-> o, at |-> "start", left |-> 0, next |-> 0]

Init ==
    /\ volume \in Volumes
    /\ exch = [o \in Ids |-> [st |-> "none", vol |-> 0, filled |-> 0]]
    /\ cancelling = {} /\ reports = <<>>
    /\ book = [pending |-> {}, completed |-> {}, filled |-> [o \in Ids |-> 0],
               chase |-> {}, leaving |-> {}, given |-> {}, chasing |-> NoOrder,
               submitting |-> {}, started |-> {}, event |-> FALSE,
               early |-> [o \in Ids |-> <<>>]]
    /\ pc = "submit" /\ todo = {} /\ cur = NoOrder /\ failed = {} /\ result = "none"
    /\ job = [t \in Threads |-> NoJob]
    /\ replay = [t \in Threads |-> <<>>]
    /\ expired = FALSE
    /\ lost = {}

-----------------------------------------------------------------------------
First(l) == <<l, 0>>
Open == {o \in Ids : exch[o].st = "open"}
Report(o) == [id |-> o, st |-> exch[o].st, filled |-> exch[o].filled]
Remaining(b, o) == exch[o].vol - b.filled[o]

(* Mutant: a replacement on its way does not hold the signal back.         *)
QuietSoon(b) == b.pending = {} /\ b.submitting = {}

Quiet(b) == b.pending = {} /\ b.chasing = NoOrder /\ b.submitting = {}
Signalled(b) == [b EXCEPT !.event = @ \/ Quiet(b)]

(* place_order: the exchange has the order before the caller knows of it.  *)
Placed(o, v) == exch' = [exch EXCEPT ![o] = [st |-> "open", vol |-> v, filled |-> 0]]

(* Mutant: the fill an order was last reported with, without looking back. *)
OnReportRaw(b, r) ==
    LET o == r.id
        seen == [b EXCEPT !.filled[o] = r.filled]
    IN  IF o \notin b.pending
        THEN IF o \in b.completed \/ r \in Range(b.early[o]) THEN b
             ELSE [b EXCEPT !.early[o] = Append(@, r)]
        ELSE IF r.st \notin Ends THEN seen
        ELSE Signalled([seen EXCEPT !.pending = @ \ {o}, !.completed = @ \cup {o},
                                    !.chase = IF o = b.chasing THEN @ ELSE @ \ {o}])

(* on_order_update, all that happens under the lock.  A report of an order *)
(* that is neither pending nor completed is kept for its registration (one *)
(* that is kept already is not kept twice, replaying it changes nothing);  *)
(* the fill of an order never goes back; one that ends loses its chase     *)
(* context unless it is just being chased; one that ends on its way to the *)
(* fallback with something left keeps the tracker busy.                    *)
OnReport(b, r) ==
    LET o == r.id
        seen == [b EXCEPT !.filled[o] = Max({@, r.filled})]
        ended == [seen EXCEPT !.pending = @ \ {o}, !.completed = @ \cup {o}]
        freed == [ended EXCEPT !.chase = @ \ {o}]
        falls == o \in b.chase \cap b.leaving
    IN  IF o \notin b.pending
        THEN IF o \in b.completed \/ r \in Range(b.early[o]) THEN b
             ELSE [b EXCEPT !.early[o] = Append(@, r)]
        ELSE IF r.st \notin Ends THEN seen
        ELSE IF falls
        THEN IF Remaining(seen, o) > 0
             THEN [freed EXCEPT !.submitting = @ \cup {o}]
             ELSE Signalled(freed)
        ELSE Signalled(IF o = b.chasing THEN ended ELSE freed)

(* The thread that made an order the tracker waits for goes on to submit   *)
(* its market orders.                                                      *)
Falls(b, r) == OnReport(b, r).submitting # b.submitting
JobOf(t, r) == IF Falls(book, r) THEN [job EXCEPT ![t] = NewJob(r.id)] ELSE job

(* add_order: the order is pending, the signal is withdrawn, and the early *)
(* reports of the order come back to the thread that registers it.         *)
Added(b, o, chased) ==
    [b EXCEPT !.pending = @ \cup {o}, !.event = FALSE,
              !.chase = IF chased THEN @ \cup {o} ELSE @,
              !.early[o] = <<>>]
EarlyOf(o) == book.early[o]

Goto(where) == pc' = where
Free(t) == job[t] = NoJob /\ replay[t] = <<>>
AtWork(where) == pc = where /\ Free("waiter")

-----------------------------------------------------------------------------
(* The exchange fills, cancels what it was asked to cancel, and ends an    *)
(* order on its own: rejected, expired, or cancelled by the user.          *)
Fill(o) ==
    /\ exch[o].st = "open"
    /\ LET n == exch[o].filled + 1
           st == IF n = exch[o].vol THEN "filled" ELSE "open"
       IN  /\ exch' = [exch EXCEPT ![o].filled = n, ![o].st = st]
           /\ reports' = Append(reports, [id |-> o, st |-> st, filled |-> n])
    /\ UNCHANGED <<volume, cancelling, book, main, job, replay, expired, lost>>

EndedAlone == {o \in Ids \ cancelling : exch[o].st = "canceled"}

EndAtExchange(o) ==
    /\ exch[o].st = "open"
    /\ o \in cancelling \/ Cardinality(EndedAlone) < MaxEnds
    /\ exch' = [exch EXCEPT ![o].st = "canceled"]
    /\ reports' = Append(reports, [id |-> o, st |-> "canceled", filled |-> exch[o].filled])
    /\ UNCHANGED <<volume, cancelling, book, main, job, replay, expired, lost>>

(* The callback thread.                                                    *)
Deliver ==
    /\ Free("callback") /\ pc # "end" /\ reports # <<>>
    /\ reports' = Tail(reports)
    /\ book' = OnReport(book, Head(reports))
    /\ job' = JobOf("callback", Head(reports))
    /\ UNCHANGED <<volume, exch, cancelling, main, replay, expired, lost>>

(* The deadline of the submissions comes before the wait ends, or with it. *)
Expire ==
    /\ ~expired /\ pc # "end"
    /\ expired' = TRUE
    /\ UNCHANGED <<volume, exch, cancelling, reports, book, main, job, replay, lost>>

-----------------------------------------------------------------------------
(* submit_and_track_order: an order of each line, then it is registered.   *)
Submit(l) ==
    /\ AtWork("submit") /\ volume[l] > 0 /\ exch[First(l)].st = "none" /\ ~expired
    /\ Placed(First(l), volume[l])
    /\ cur' = First(l) /\ Goto("add")
    /\ UNCHANGED <<volume, cancelling, reports, book, todo, failed, result, job, replay, expired, lost>>

Add ==
    /\ AtWork("add")
    /\ book' = Added(book, cur, TRUE)
    /\ replay' = [replay EXCEPT !["waiter"] = EarlyOf(cur)]
    /\ Goto("submit")
    /\ UNCHANGED <<volume, exch, cancelling, reports, todo, cur, failed, result, job, expired, lost>>

(* Early reports, and those of a query, are applied one by one; none that  *)
(* was kept for an order of the fallback can start another fallback.       *)
Replay(t) ==
    /\ replay[t] # <<>> /\ job[t].at \in {"none", "place"}
    /\ book' = OnReport(book, Head(replay[t]))
    /\ replay' = [replay EXCEPT ![t] = Tail(@)]
    /\ job' = IF job[t] = NoJob THEN JobOf(t, Head(replay[t])) ELSE job
    /\ UNCHANGED <<volume, exch, cancelling, reports, main, expired, lost>>

-----------------------------------------------------------------------------
(* wait_for_completion.                                                    *)
BeginWait ==
    /\ AtWork("submit")
    /\ \A l \in Lines : volume[l] > 0 => exch[First(l)].st # "none" \/ expired
    /\ IF Quiet(book) THEN Goto("end") /\ result' = "done"
                      ELSE Goto("loop") /\ UNCHANGED result
    /\ UNCHANGED <<volume, exch, cancelling, reports, book, todo, cur, failed, job, replay, expired, lost>>

SeeDone ==
    /\ AtWork("loop") /\ book.event
    /\ Goto("end") /\ result' = "done"
    /\ UNCHANGED <<volume, exch, cancelling, reports, book, todo, cur, failed, job, replay, expired, lost>>

(* The time to wait has passed, whatever the signal says.                  *)
GiveUp ==
    /\ AtWork("loop")
    /\ Goto("sweep") /\ todo' = Open /\ result' = "late" /\ expired' = TRUE
    /\ UNCHANGED <<volume, exch, cancelling, reports, book, cur, failed, job, replay, lost>>

(* handle_termination_checkpoint.                                          *)
Terminate ==
    /\ AtWork("loop")
    /\ Goto("end") /\ result' = "terminated"
    /\ UNCHANGED <<volume, exch, cancelling, reports, book, todo, cur, failed, job, replay, expired, lost>>

-----------------------------------------------------------------------------
(* _check_and_chase: the orders the market has left behind are chosen      *)
(* under the lock, then they are chased one after the other.               *)
Chaseable ==
    {o \in book.pending \cap book.chase : ~expired /\ o[2] < MaxChase}

ChooseChases ==
    /\ AtWork("loop") /\ ~book.event
    /\ \E chosen \in SUBSET Chaseable : todo' = chosen
    /\ Goto("chase")
    /\ UNCHANGED <<volume, exch, cancelling, reports, book, cur, failed, result, job, replay, expired, lost>>

SkipChase(o) ==
    /\ AtWork("chase") /\ o \in todo /\ expired
    /\ todo' = todo \ {o}
    /\ UNCHANGED <<volume, exch, cancelling, reports, book, pc, cur, failed, result, job, replay, expired, lost>>

Claim(o) ==
    /\ AtWork("chase") /\ o \in todo /\ ~expired
    /\ book' = [book EXCEPT !.chasing = o]
    /\ cur' = o /\ todo' = todo \ {o} /\ Goto("cancel")
    /\ UNCHANGED <<volume, exch, cancelling, reports, failed, result, job, replay, expired, lost>>

Unclaim ==
    /\ book' = [book EXCEPT !.chasing = NoOrder]
    /\ Goto("chase")

(* cancel_order: what it returns is not looked at, what it raises is.      *)
Cancel ==
    /\ AtWork("cancel")
    /\ \/ /\ cancelling' = IF cur \in Open THEN cancelling \cup {cur} ELSE cancelling
          /\ Goto("confirm") /\ UNCHANGED book
       \/ Unclaim /\ UNCHANGED cancelling
    /\ UNCHANGED <<volume, exch, reports, todo, cur, failed, result, job, replay, expired, lost>>

(* Mutant: the cancellation that was accepted counts as confirmed.         *)
ConfirmBlind ==
    /\ AtWork("confirm")
    /\ Goto("replace")
    /\ UNCHANGED <<volume, exch, cancelling, reports, book, todo, cur, failed, result, job, replay, expired, lost>>

(* _await_cancel_confirmed: an order that is still pending after a while   *)
(* is kept as it is.                                                       *)
Confirm ==
    /\ AtWork("confirm")
    /\ Goto(IF cur \in book.pending THEN "unclaim" ELSE "replace")
    /\ UNCHANGED <<volume, exch, cancelling, reports, book, todo, cur, failed, result, job, replay, expired, lost>>

Drop ==
    /\ AtWork("unclaim")
    /\ Unclaim
    /\ UNCHANGED <<volume, exch, cancelling, reports, todo, cur, failed, result, job, replay, expired, lost>>

Next1(o) == <<o[1], o[2] + 1>>

(* The replacement is for what the order that ended has left.              *)
Replace ==
    /\ AtWork("replace")
    /\ IF Remaining(book, cur) > 0 /\ ~expired
       THEN \/ Placed(Next1(cur), Remaining(book, cur)) /\ Goto("register") /\ UNCHANGED book
            \/ Unclaim /\ UNCHANGED exch
       ELSE Goto("unclaim") /\ UNCHANGED <<exch, book>>
    /\ UNCHANGED <<volume, cancelling, reports, todo, cur, failed, result, job, replay, expired, lost>>

(* _update_chase_info: the context moves to the replacement, if the order  *)
(* that was replaced still has one.                                        *)
Register ==
    /\ AtWork("register")
    /\ IF cur \in book.chase
       THEN /\ book' = [book EXCEPT !.pending = (@ \ {cur}) \cup {Next1(cur)},
                                    !.chase = (@ \ {cur}) \cup {Next1(cur)}]
            /\ UNCHANGED lost
       ELSE lost' = lost \cup {cur[1]} /\ UNCHANGED book
    /\ Goto("unclaim")
    /\ UNCHANGED <<volume, exch, cancelling, reports, todo, cur, failed, result, job, replay, expired>>

-----------------------------------------------------------------------------
(* _fallback_to_market_order: orders that were chased often enough are     *)
(* marked under the lock, then their cancellation is asked for.            *)
Spent == {o \in book.pending \cap book.chase :
             o[2] >= MaxChase /\ ~expired /\ o \notin book.leaving \cup book.given}

ChooseFallbacks ==
    /\ AtWork("chase") /\ todo = {}
    /\ todo' = Spent
    /\ book' = [book EXCEPT !.leaving = @ \cup Spent]
    /\ Goto("fallback")
    /\ UNCHANGED <<volume, exch, cancelling, reports, cur, failed, result, job, replay, expired, lost>>

Given(b, o) ==
    [b EXCEPT !.given = IF o \in b.chase THEN @ \cup {o} ELSE @,
              !.leaving = IF o \in b.chase THEN @ \ {o} ELSE @]

AskFallback(o) ==
    /\ AtWork("fallback") /\ o \in todo
    /\ todo' = todo \ {o}
    /\ \/ expired /\ UNCHANGED <<book, cancelling>>
       \/ /\ ~expired /\ Remaining(book, o) <= 0
          /\ book' = [book EXCEPT !.chase = @ \ {o}]
          /\ UNCHANGED cancelling
       \/ /\ ~expired /\ Remaining(book, o) > 0
          /\ \/ o \in Open /\ cancelling' = cancelling \cup {o} /\ UNCHANGED book
             \/ book' = Given(book, o) /\ UNCHANGED cancelling
    /\ UNCHANGED <<volume, exch, reports, pc, cur, failed, result, job, replay, expired, lost>>

(* A tracker without a resident account asks the channel now and then.     *)
EndRound ==
    /\ AtWork("fallback") /\ todo = {}
    /\ \/ Goto("loop")
       \/ ~Resident /\ book.pending # {} /\ Goto("query")
    /\ UNCHANGED <<volume, exch, cancelling, reports, book, todo, cur, failed, result, job, replay, expired, lost>>

-----------------------------------------------------------------------------
(* The batch of market orders of an order that ended on its way to the     *)
(* fallback, by the thread that was told of its end: at most one batch per *)
(* order, one chunk after the other, each of them registered at once.      *)
Does(t, at) == job[t].at = at /\ replay[t] = <<>>

StartBatch(t) ==
    LET o == job[t].of
    IN  /\ Does(t, "start")
        /\ IF o \in book.started
           THEN job' = [job EXCEPT ![t] = NoJob] /\ UNCHANGED book
           ELSE /\ book' = [book EXCEPT !.started = @ \cup {o},
                                        !.submitting = @ \cup {o}, !.event = FALSE]
                /\ job' = [job EXCEPT ![t].at = "price"]
        /\ UNCHANGED <<volume, exch, cancelling, reports, main, replay, expired, lost>>

(* Nothing left, too late, or a price that is not safe ends the batch.     *)
Price(t) ==
    /\ Does(t, "price")
    /\ \/ /\ Remaining(book, job[t].of) > 0 /\ ~expired
          /\ job' = [job EXCEPT ![t].at = "place", ![t].left = Remaining(book, job[t].of)]
       \/ job' = [job EXCEPT ![t].at = "end"]
    /\ UNCHANGED <<volume, exch, cancelling, reports, book, main, replay, expired, lost>>

Child(t) == <<job[t].of[1], MaxChase + job[t].next + 1>>

PlaceChild(t) ==
    /\ Does(t, "place")
    /\ IF job[t].left > 0 /\ ~expired
       THEN \/ \E chunk \in 1..job[t].left :
                  /\ Placed(Child(t), chunk)
                  /\ job' = [job EXCEPT ![t].at = "add", ![t].left = @ - chunk]
            \/ job' = [job EXCEPT ![t].at = "end"] /\ UNCHANGED exch
       ELSE job' = [job EXCEPT ![t].at = "end"] /\ UNCHANGED exch
    /\ UNCHANGED <<volume, cancelling, reports, book, main, replay, expired, lost>>

AddChild(t) ==
    /\ Does(t, "add")
    /\ book' = Added(book, Child(t), FALSE)
    /\ replay' = [replay EXCEPT ![t] = EarlyOf(Child(t))]
    /\ job' = [job EXCEPT ![t].at = "place", ![t].next = @ + 1]
    /\ UNCHANGED <<volume, exch, cancelling, reports, main, expired, lost>>

EndBatch(t) ==
    /\ Does(t, "end")
    /\ book' = Signalled([book EXCEPT !.submitting = @ \ {job[t].of}])
    /\ job' = [job EXCEPT ![t] = NoJob]
    /\ UNCHANGED <<volume, exch, cancelling, reports, main, replay, expired, lost>>

-----------------------------------------------------------------------------
(* _query_pending_orders: the open orders are reported once more, then the *)
(* pending orders that were not among them are asked for one by one.       *)
InSomeOrder(S) == {s \in [1..Cardinality(S) -> S] : Range(s) = S}

Query ==
    /\ AtWork("query")
    /\ IF book.pending = {}
       THEN Goto(IF result = "late" THEN "judge" ELSE "loop") /\ UNCHANGED <<todo, replay>>
       ELSE /\ \E s \in InSomeOrder(Open) :
                  replay' = [replay EXCEPT !["waiter"] = [i \in DOMAIN s |-> Report(s[i])]]
            /\ todo' = Open /\ Goto("missing")
    /\ UNCHANGED <<volume, exch, cancelling, reports, book, cur, failed, result, job, expired, lost>>

Missing ==
    /\ AtWork("missing")
    /\ todo' = book.pending \ todo /\ Goto("reconcile")
    /\ UNCHANGED <<volume, exch, cancelling, reports, book, cur, failed, result, job, replay, expired, lost>>

Reconcile(o) ==
    /\ AtWork("reconcile") /\ o \in todo
    /\ todo' = todo \ {o}
    /\ IF exch[o].st \in Ends
       THEN book' = OnReport(book, Report(o)) /\ job' = JobOf("waiter", Report(o))
       ELSE UNCHANGED <<book, job>>
    /\ UNCHANGED <<volume, exch, cancelling, reports, pc, cur, failed, result, replay, expired, lost>>

EndQuery ==
    /\ AtWork("reconcile") /\ todo = {}
    /\ Goto(IF result = "late" THEN "judge" ELSE "loop")
    /\ UNCHANGED <<volume, exch, cancelling, reports, book, todo, cur, failed, result, job, replay, expired, lost>>

(* cancel_pending_orders_via_query, when the time is up.                   *)
Sweep(o) ==
    /\ AtWork("sweep") /\ o \in todo
    /\ todo' = todo \ {o}
    /\ \/ o \in Open /\ cancelling' = cancelling \cup {o} /\ UNCHANGED failed
       \/ failed' = failed \cup {o} /\ UNCHANGED cancelling
    /\ UNCHANGED <<volume, exch, reports, book, pc, cur, result, job, replay, expired, lost>>

EndSweep ==
    /\ AtWork("sweep") /\ todo = {}
    /\ Goto("query")
    /\ UNCHANGED <<volume, exch, cancelling, reports, book, todo, cur, failed, result, job, replay, expired, lost>>

(* Only an end that was reported makes up for a cancellation that failed.  *)
Judge ==
    /\ AtWork("judge")
    /\ Goto("end")
    /\ result' = IF failed \subseteq book.completed THEN "timeout" ELSE "error"
    /\ UNCHANGED <<volume, exch, cancelling, reports, book, todo, cur, failed, job, replay, expired, lost>>

-----------------------------------------------------------------------------
Waiter ==
    \/ \E l \in Lines : Submit(l)
    \/ Add \/ BeginWait \/ SeeDone \/ GiveUp
    \/ ChooseChases \/ Cancel \/ Confirm \/ Drop \/ Replace \/ Register
    \/ ChooseFallbacks \/ EndRound \/ Query \/ Missing \/ EndQuery \/ EndSweep \/ Judge
    \/ \E o \in Ids : SkipChase(o) \/ Claim(o) \/ AskFallback(o) \/ Reconcile(o) \/ Sweep(o)

Work(t) ==
    \/ Replay(t) \/ StartBatch(t) \/ Price(t) \/ PlaceChild(t)
    \/ AddChild(t) \/ EndBatch(t)

Next ==
    \/ Waiter \/ Terminate \/ Deliver \/ Expire
    \/ \E t \in Threads : Work(t)
    \/ \E o \in Ids : Fill(o) \/ EndAtExchange(o)

Spec == Init /\ [][Next]_vars

-----------------------------------------------------------------------------
TypeOK ==
    /\ volume \in Volumes
    /\ cancelling \subseteq Ids /\ todo \subseteq Ids /\ failed \subseteq Ids
    /\ book.pending \subseteq Ids /\ book.completed \subseteq Ids
    /\ book.chase \subseteq Ids /\ book.leaving \subseteq Ids /\ book.given \subseteq Ids
    /\ book.chasing \in Ids \cup {NoOrder}
    /\ book.submitting \subseteq Ids /\ book.started \subseteq Ids
    /\ book.event \in BOOLEAN
    /\ book.filled \in [Ids -> 0..MaxVolume]
    /\ \A o \in Ids : exch[o].filled \in 0..exch[o].vol /\ exch[o].vol \in 0..MaxVolume
    /\ result \in {"none", "late", "done", "timeout", "error", "terminated"}

OrdersOf(l) == {o \in Ids : o[1] = l}
Exposure(o) == IF exch[o].st = "open" THEN exch[o].vol ELSE exch[o].filled

(* One pair for each lot that an order has traded or may still trade.      *)
AtStake(l) == {p \in OrdersOf(l) \X (1..MaxVolume) : p[2] <= Exposure(p[1])}

(* What a line has traded and what it still has at the exchange never      *)
(* exceed what was asked for: an order is replaced, by a chase or by the   *)
(* market, only when it is certain to have ended, and only by the rest.    *)
NoDoubleExposure ==
    \A l \in Lines : Cardinality(AtStake(l)) <= volume[l]

(* A wait that says that all is done leaves nothing at the exchange, other *)
(* than a replacement nobody tracks.                                       *)
DoneMeansDone ==
    result = "done" => \A o \in Open : o[1] \in lost

(* What ended is never pending again, and no fill is ever taken back.      *)
NeverRevived ==
    [][/\ book.completed \subseteq book'.completed
       /\ book'.completed \cap book'.pending = {}
       /\ \A o \in Ids : book.filled[o] <= book'.filled[o]]_vars
=============================================================================
