------------------------ MODULE SymbolDispatchProofs ------------------------
(***************************************************************************)
(* One run of the executor, for every set of symbols, every position and   *)
(* target, every number of orders and of faults: reductions come first, a  *)
(* run recorded as successful stands where it was to stand, and a stop is  *)
(* recorded with what the sessions could not withdraw.                     *)
(***************************************************************************)
EXTENDS SymbolDispatch, TLAPS

-----------------------------------------------------------------------------
(* Where a thread may be: it trades, withdraws, or is over.                *)
Busy    == {"queued", "read", "submit", "place", "wait", "giveup", "confirm", "final"}
Leaving == {"clean", "withdraw", "verify"}
Over    == {"idle", "result", "terminated", "recovery"}
Early   == {"plan", "prepare", "one"}
Answers == Success \cup {"partial", "failed", "blocked", "closed"}
Trigger == [trigger : {"none", "operator", "timeout"},
            mode : {"none", "graceful", "cancel_pending"}]
ThreadType ==
  [pc : Busy \cup Leaving \cup Over, goal : Int, start : Int, need : Int,
   legs : Nat, gave : {0, 1}, err : {"none", "error", "blocked"},
   bad : BOOLEAN, filled : BOOLEAN, seen : BOOLEAN, res : Answers \cup {"none"},
   by : Trigger, tried : {"none", "yes", "no"}, failed : BOOLEAN, unsure : BOOLEAN]
RecordType ==
  [status : Answers \cup {"none", "terminated"}, by : Trigger,
   tried : {"none", "yes", "no"}, failed : SUBSET Symbols, unsure : BOOLEAN]

Typed == TypeOK /\ th \in [Symbols -> ThreadType] /\ rec \in RecordType

(* x lies between nothing and y.                                           *)
Within(x, y) == (0 <= x /\ x <= y) \/ (y <= x /\ x <= 0)

(* Where a symbol is to stand after the phase that the run is in: one that *)
(* changes its side stops at nothing first.                                *)
Aim(s) == IF s \in two /\ main \in Early \cup {"reducing", "two"} THEN 0 ELSE target[s]

(* Who has a thread, and where it may be, in each phase.                   *)
Pooled(s) ==
  /\ main \in Early => th[s].pc = "idle"
  /\ main = "reducing" => (s \in one <=> th[s].pc # "idle")
  /\ main = "two" => /\ s \in one => th[s].pc = "result"
                     /\ s \notin one => th[s].pc = "idle"
  /\ main = "increasing" =>
       /\ s \in one \ two => th[s].pc = "result"
       /\ s \notin one \cup two => th[s].pc = "idle"
       /\ s \in two /\ th[s].pc = "idle" => "failed" \in got[s]
  /\ main \in {"output", "done"} => th[s].pc \in {"idle", "result"}
  /\ main \in Ended => th[s].pc \in Over

(* What a thread knows while it trades: the position does not move under   *)
(* it unless its own order lives, and that order leads to the goal.        *)
Trading(s) ==
  th[s].pc \in Busy =>
    /\ th[s].goal = Aim(s)
    /\ th[s].pc \in {"queued", "read", "submit", "place"} => th[s].seen
    /\ th[s].seen /\ Live(s) => th[s].pc = "final" /\ th[s].err = "error"
    /\ th[s].pc \in {"submit", "place"} =>
         th[s].need = th[s].goal - pos[s] /\ th[s].need # 0
    /\ Live(s) => pos[s] + ord[s].left = th[s].goal /\ ord[s].left # 0

(* A reduction never crosses its goal, nor does a change of side on its    *)
(* way out.                                                                *)
Nearing(s) ==
  /\ main \in {"prepare", "one"} /\ s \in one =>
       FirstGoal(s) = Aim(s) /\ Within(Aim(s), pos[s])
  /\ th[s].pc \in Busy /\ main = "reducing" => Within(th[s].goal, pos[s])
  /\ th[s].pc \in Busy /\ main = "increasing" /\ s \in one =>
       Within(pos[s], th[s].goal)

(* The orders of a symbol, phase by phase.                                 *)
Ordered(s) ==
  /\ main \in Early => ord[s].st = "none"
  /\ main \in {"reducing", "two"} /\ s \notin one => ord[s].st = "none"
  /\ main \in Early \cup {"reducing", "two"} => ord[s].side # "increase"
  /\ main = "increasing" /\ s \in one /\ Live(s) => ord[s].side = "increase"
  /\ main = "increasing" /\ s \in one \ two => pos[s] = target[s] /\ ~Live(s)

(* A symbol with nothing but successes stands where it was to stand.       *)
Settled(s) == got[s] \subseteq Success => pos[s] = target[s] /\ ~Live(s)

Answering(s) ==
  /\ th[s].pc = "result" => th[s].res \in Answers
  /\ th[s].pc = "result" /\ th[s].res \in Success
     /\ main \in {"reducing", "two", "increasing"} => pos[s] = Aim(s) /\ ~Live(s)
  /\ main = "two" /\ s \in one => th[s].res \in got[s]
  /\ main \in {"prepare", "one", "reducing"} /\ s \notin one \cup two => Settled(s)
  /\ main \in {"two", "increasing"} /\ s \notin two => Settled(s)
  /\ main \in {"output", "done"} => Settled(s)

(* What stopped a thread or the run: the operator, or the time when it was *)
(* up before the operator asked.                                           *)
Due(d) ==
  \/ asked # "none" /\ d = [trigger |-> "operator", mode |-> asked]
  \/ expired = "first" /\ d = [trigger |-> "timeout", mode |-> "graceful"]

Stopping(s) ==
  /\ th[s].pc \in Leaving \cup {"terminated"} => Due(th[s].by)
  /\ th[s].pc = "terminated" => first # NoSymbol

(* What a session says of its withdrawal.                                  *)
Tidying(s) ==
  /\ th[s].tried # "none" => th[s].pc \in {"verify", "terminated"}
  /\ th[s].tried # "none" /\ th[s].pc = "terminated" /\ Live(s) =>
       th[s].failed \/ th[s].unsure

Sound(s) ==
  /\ Pooled(s) /\ Trading(s) /\ Nearing(s) /\ Ordered(s)
  /\ Answering(s) /\ Stopping(s) /\ Tidying(s)

(* The run as a whole.                                                     *)
Merging ==
  /\ expired = "later" => asked # "none"
  /\ first # NoSymbol => th[first].pc = "terminated"
  /\ main = "terminated" => Due(rec.by)
  /\ CleanedIsReported

Reducing ==
  /\ ReducedFirst
  /\ (\E s \in Symbols : ord[s].side = "increase") =>
        \A r \in one \ two : ~Live(r)

Claiming ==
  main = "done" /\ rec.status \in Success =>
    \A s \in Symbols : got[s] \subseteq Success

DInv ==
  /\ Typed /\ Merging /\ Reducing /\ Claiming
  /\ \A s \in Symbols : Sound(s)

-----------------------------------------------------------------------------
(* A symbol that nothing happens to keeps what is said of it.              *)
LEMMA OthersKeep ==
  ASSUME NEW u \in Symbols, Sound(u), UNCHANGED <<stop, engine, target>>,
         th'[u] = th[u], pos'[u] = pos[u], ord'[u] = ord[u],
         first # NoSymbol => first' # NoSymbol
  PROVE  Sound(u)'
<1> USE DEF stop, engine
<1>1. Pooled(u)' /\ Trading(u)'
  BY DEF Sound, Pooled, Trading, Aim, Live
<1>2. Nearing(u)' /\ Ordered(u)'
  BY DEF Sound, Nearing, Ordered, Aim, Live, FirstGoal
<1>3. Answering(u)' /\ Stopping(u)' /\ Tidying(u)'
  BY DEF Sound, Answering, Stopping, Tidying, Aim, Live, Settled, Due
<1> QED  BY <1>1, <1>2, <1>3 DEF Sound

(* What a step of one thread leaves alone.                                 *)
Alone(s) ==
  /\ Elsewhere
  /\ \A u \in Symbols \ {s} :
       th'[u] = th[u] /\ pos'[u] = pos[u] /\ ord'[u] = ord[u]

(* While threads run it is enough that a step is right for its symbol.     *)
LEMMA ThreadKeeps ==
  ASSUME DInv, NEW s \in Symbols, main \in {"reducing", "increasing"},
         Alone(s), Typed', Sound(s)',
         first # NoSymbol => first' # NoSymbol,
         first' # NoSymbol => th'[first'].pc = "terminated"
  PROVE  DInv'
<1> USE DEF Alone, Elsewhere
<1>1. \A u \in Symbols : Sound(u)'
  BY OthersKeep DEF DInv
<1>2. Merging'
  BY DEF DInv, Merging, Due, CleanedIsReported, stop, engine
<1>3. Reducing'
  BY <1>1 DEF DInv, Typed, TypeOK, Reducing, ReducedFirst, Sound, Ordered, Live,
     Early, engine
<1>4. Claiming'
  BY DEF Claiming, engine
<1> QED  BY <1>1, <1>2, <1>3, <1>4 DEF DInv

(* A thread that trades or withdraws runs in one of the two phases.        *)
LEMMA Working ==
  ASSUME DInv, NEW s \in Symbols, th[s].pc \in Busy \cup Leaving
  PROVE  /\ main \in {"reducing", "increasing"}
         /\ s \in IF main = "reducing" THEN one ELSE two
  BY DEF DInv, Typed, TypeOK, Sound, Pooled, Busy, Leaving, Early, Ended, Over

(* A thread that goes on, with a result, or by the stop.                   *)
LEMMA GoesTurn ==
  ASSUME Typed, NEW s \in Symbols, NEW at \in Busy \cup Leaving, Goes(s, at)
  PROVE  /\ th' \in [Symbols -> ThreadType]
         /\ \A u \in Symbols \ {s} : th'[u] = th[u]
         /\ th'[s] = [th[s] EXCEPT !.pc = at]
  BY DEF Typed, Goes, Moves, ThreadType

(* A symbol without a thread.                                              *)
LEMMA NoThreadTyped == NoThread \in ThreadType
  BY DEF NoThread, ThreadType, Busy, Over, Answers, Success, Trigger, NoStop

(* A thread that ends with a result has nothing else to say.               *)
LEMMA ResultsTurn ==
  ASSUME Typed, NEW s \in Symbols, NEW a \in Answers, Results(s, a)
  PROVE  /\ th' \in [Symbols -> ThreadType]
         /\ \A u \in Symbols \ {s} : th'[u] = th[u]
         /\ th'[s] = [NoThread EXCEPT !.pc = "result", !.res = a]
  BY NoThreadTyped DEF Typed, Results, Moves, ThreadType, Over

(* A thread that ends by the stop keeps what its session did; the first of *)
(* them is remembered.                                                     *)
LEMMA TerminatesTurn ==
  ASSUME Typed, NEW s \in Symbols, NEW r \in ThreadType, Terminates(s, r)
  PROVE  /\ th' \in [Symbols -> ThreadType]
         /\ \A u \in Symbols \ {s} : th'[u] = th[u]
         /\ th'[s].pc = "terminated"
         /\ th'[s].by = r.by /\ th'[s].tried = r.tried
         /\ th'[s].failed = r.failed /\ th'[s].unsure = r.unsure
         /\ first' \in Symbols
         /\ first # NoSymbol => first' = first
         /\ first = NoSymbol => first' = s
  BY NoThreadTyped DEF Typed, TypeOK, Terminates, Moves, ThreadType, Over

-----------------------------------------------------------------------------
OrderType ==
  [st : {"none", "open", "cancelling", "filled", "cancelled", "rejected"},
   side : {"none", "reduce", "increase"}, vol : Int, left : Int, known : BOOLEAN]

(* The types, once the thread, the orders and the first one are typed.     *)
LEMMA StepTyped ==
  ASSUME Typed, Elsewhere, Fine \/ Faulty, UNCHANGED pos,
         th' \in [Symbols -> ThreadType], ord' \in [Symbols -> OrderType],
         first' \in Symbols \cup {NoSymbol}
  PROVE  Typed'
  BY DispatchAssumption
  DEF Typed, TypeOK, OrderType, Elsewhere, Fine, Faulty, stop, engine

(* Orders as a type of their own.                                          *)
LEMMA OrdersTyped == Typed => ord \in [Symbols -> OrderType]
  BY DEF Typed, TypeOK, OrderType

(* A thread that goes on trading need only know its goal still and order   *)
(* on the right side.                                                      *)
LEMMA TradesKeeps ==
  ASSUME DInv, NEW s \in Symbols, th[s].pc \in Busy, Alone(s), UNCHANGED <<pos, first>>,
         Typed', th'[s].pc \in Busy, th'[s].goal = th[s].goal,
         th'[s].tried = th[s].tried, Trading(s)', Ordered(s)'
  PROVE  DInv'
<1>1. main \in {"reducing", "increasing"}
  BY Working
<1>2. Sound(s)'
  <2> USE <1>1 DEF Alone, Elsewhere, stop, engine
  <2>1. Pooled(s)' /\ Nearing(s)'
    BY DEF DInv, Sound, Pooled, Nearing, Busy, Early, Ended
  <2>2. Answering(s)' /\ Stopping(s)' /\ Tidying(s)'
    BY Working DEF DInv, Sound, Answering, Stopping, Tidying, Busy, Leaving
  <2> QED  BY <2>1, <2>2 DEF Sound
<1>3. first # NoSymbol => th'[first].pc = "terminated"
  BY DEF DInv, Typed, TypeOK, Merging, Alone, Busy
<1> QED  BY <1>1, <1>2, <1>3, ThreadKeeps

(* A thread that leaves by the stop knows who stopped it, and says so when *)
(* its order may still be filled.                                          *)
LEMMA TerminatesKeeps ==
  ASSUME DInv, NEW s \in Symbols, th[s].pc \in Busy \cup Leaving,
         NEW r \in ThreadType, Terminates(s, r),
         Elsewhere, Fine \/ Faulty, UNCHANGED <<pos, ord>>, Due(r.by),
         r.tried # "none" /\ Live(s) => r.failed \/ r.unsure
  PROVE  DInv'
<1>1. /\ th' \in [Symbols -> ThreadType]
      /\ \A u \in Symbols \ {s} : th'[u] = th[u]
      /\ th'[s].pc = "terminated"
      /\ th'[s].by = r.by /\ th'[s].tried = r.tried
      /\ th'[s].failed = r.failed /\ th'[s].unsure = r.unsure
      /\ first' \in Symbols
      /\ first # NoSymbol => first' = first
      /\ first = NoSymbol => first' = s
  BY TerminatesTurn DEF DInv
<1>2. Alone(s)
  BY <1>1 DEF Alone
<1>3. Typed'
  BY <1>1, StepTyped, OrdersTyped DEF DInv
<1>4. Sound(s)'
  <2> USE Working, <1>1 DEF Elsewhere, stop, engine
  <2>1. Pooled(s)' /\ Trading(s)' /\ Nearing(s)'
    BY DEF DInv, Sound, Pooled, Trading, Nearing, Aim, Live, Busy, Early, Ended
  <2>2. Ordered(s)' /\ Answering(s)'
    BY DEF DInv, Sound, Ordered, Answering, Settled, Aim, Live, Success
  <2>3. Stopping(s)' /\ Tidying(s)'
    BY DispatchAssumption DEF Stopping, Tidying, Leaving, Due, Live
  <2> QED  BY <2>1, <2>2, <2>3 DEF Sound
<1>5. first' # NoSymbol => th'[first'].pc = "terminated"
  BY <1>1 DEF DInv, Typed, TypeOK, Merging, Busy, Leaving
<1>6. first # NoSymbol => first' # NoSymbol
  BY <1>1
<1> QED  BY <1>2, <1>3, <1>4, <1>5, <1>6, Working, ThreadKeeps

(* A thread that ends well stands at its goal and has no order left.       *)
LEMMA ResultsKeeps ==
  ASSUME DInv, NEW s \in Symbols, th[s].pc \in Busy, NEW a \in Answers, Results(s, a),
         Elsewhere, Fine \/ Faulty, UNCHANGED <<pos, ord, first>>,
         a \in Success => pos[s] = th[s].goal /\ ~Live(s)
  PROVE  DInv'
<1>1. /\ th' \in [Symbols -> ThreadType]
      /\ \A u \in Symbols \ {s} : th'[u] = th[u]
      /\ th'[s] = [NoThread EXCEPT !.pc = "result", !.res = a]
  BY ResultsTurn DEF DInv
<1>2. Alone(s)
  BY <1>1 DEF Alone
<1>3. Typed'
  BY <1>1, StepTyped, OrdersTyped DEF DInv, Typed, TypeOK
<1>4. Sound(s)'
  <2> USE Working, <1>1 DEF Elsewhere, stop, engine, NoThread
  <2>1. Pooled(s)' /\ Trading(s)' /\ Nearing(s)'
    BY DEF DInv, Sound, Pooled, Trading, Nearing, Aim, Live, Busy, Early, Ended
  <2>2. Ordered(s)'
    BY DEF DInv, Sound, Ordered, Live
  <2>3. Answering(s)'
    BY DEF DInv, Sound, Trading, Answering, Settled, Aim, Live
  <2>4. Stopping(s)' /\ Tidying(s)'
    BY DEF Stopping, Tidying, Leaving
  <2> QED  BY <2>1, <2>2, <2>3, <2>4 DEF Sound
<1>5. first # NoSymbol => th'[first].pc = "terminated"
  BY <1>1 DEF DInv, Typed, TypeOK, Merging, Busy
<1> QED  BY <1>2, <1>3, <1>4, <1>5, Working, ThreadKeeps

(* What stops a thread or the run is due.                                  *)
LEMMA CurrentDue ==
  ASSUME DInv, Stopped
  PROVE  Due(Current) /\ Current \in Trigger
  BY DEF DInv, Typed, TypeOK, Merging, Stopped, Current, Due, Trigger

-----------------------------------------------------------------------------
(* An exception that asks for a new session claims nothing.                *)
LEMMA RecoveryKeeps ==
  ASSUME DInv, NEW s \in Symbols, Recovery(s)
  PROVE  DInv'
<1>1. th[s].pc \in Busy \cup Leaving
  BY DEF Recovery, Guarded, Busy, Leaving
<1>2. /\ th' \in [Symbols -> ThreadType]
      /\ \A u \in Symbols \ {s} : th'[u] = th[u]
      /\ th'[s] = [NoThread EXCEPT !.pc = "recovery"]
  BY NoThreadTyped DEF DInv, Typed, Recovery, Moves, ThreadType, Over
<1>3. Alone(s) /\ first' = first
  BY <1>2 DEF Alone, Recovery
<1>4. Typed'
  BY <1>2, StepTyped, OrdersTyped DEF DInv, Typed, TypeOK, Recovery
<1>5. Sound(s)'
  <2> USE Working, <1>1, <1>2 DEF Recovery, Elsewhere, stop, engine, NoThread
  <2>1. Pooled(s)' /\ Trading(s)' /\ Nearing(s)'
    BY DEF DInv, Sound, Pooled, Trading, Nearing, Aim, Live, Busy, Early, Ended
  <2>2. Ordered(s)' /\ Answering(s)'
    BY DEF DInv, Sound, Ordered, Answering, Settled, Aim, Live, Success
  <2>3. Stopping(s)' /\ Tidying(s)'
    BY DEF Stopping, Tidying, Leaving
  <2> QED  BY <2>1, <2>2, <2>3 DEF Sound
<1>6. first # NoSymbol => th'[first].pc = "terminated"
  BY <1>1, <1>2 DEF DInv, Typed, TypeOK, Merging, Busy, Leaving
<1> QED  BY <1>1, <1>3, <1>4, <1>5, <1>6, Working, ThreadKeeps

(* A session that is stopped knows by whom, before it withdraws.           *)
LEMMA SessionStopKeeps ==
  ASSUME DInv, NEW s \in Symbols, SessionStop(s)
  PROVE  DInv'
<1> DEFINE r == [NoThread EXCEPT !.pc = "clean", !.by = Current]
<1>1. th[s].pc \in Busy /\ Due(Current) /\ Current \in Trigger
  BY CurrentDue DEF SessionStop, Busy
<1>2. r \in ThreadType /\ r.pc = "clean" /\ r.by = Current /\ r.tried = "none"
  BY <1>1, NoThreadTyped DEF ThreadType, NoThread, Leaving
<1>3. CASE Terminates(s, r)
  <2> HIDE DEF r
  <2> QED  BY <1>1, <1>2, <1>3, TerminatesKeeps DEF SessionStop
<1>4. CASE Moves(s, r) /\ UNCHANGED first
  <2> HIDE DEF r
  <2>1. /\ th' \in [Symbols -> ThreadType]
        /\ \A u \in Symbols \ {s} : th'[u] = th[u]
        /\ th'[s] = r
    BY <1>2, <1>4 DEF DInv, Typed, Moves
  <2>2. Alone(s)
    BY <2>1 DEF Alone, SessionStop
  <2>3. Typed'
    BY <1>4, <2>1, StepTyped, OrdersTyped DEF DInv, Typed, TypeOK, SessionStop
  <2>4. Sound(s)'
    <3> USE Working, <1>1, <1>2, <1>4, <2>1 DEF SessionStop, Elsewhere, stop, engine
    <3>1. Pooled(s)' /\ Trading(s)' /\ Nearing(s)'
      BY DEF DInv, Sound, Pooled, Trading, Nearing, Busy, Early, Ended
    <3>2. Ordered(s)' /\ Answering(s)'
      BY DEF DInv, Sound, Ordered, Answering, Settled, Aim, Live
    <3>3. Stopping(s)' /\ Tidying(s)'
      BY DEF Stopping, Tidying, Due
    <3> QED  BY <3>1, <3>2, <3>3 DEF Sound
  <2>5. first # NoSymbol => th'[first].pc = "terminated"
    BY <1>1, <2>1 DEF DInv, Typed, TypeOK, Merging, Busy
  <2> QED  BY <1>1, <1>4, <2>2, <2>3, <2>4, <2>5, Working, ThreadKeeps
<1> QED  BY <1>3, <1>4 DEF SessionStop

(* A call that waits for quota is stopped without a word on withdrawals.   *)
LEMMA GuardStopKeeps ==
  ASSUME DInv, NEW s \in Symbols, GuardStop(s)
  PROVE  DInv'
<1> DEFINE r == [th[s] EXCEPT !.by = Current]
<1>1. th[s].pc \in Busy /\ Due(Current) /\ Current \in Trigger
  BY CurrentDue DEF GuardStop, Guarded, Busy
<1>2. th[s] \in ThreadType
  BY DEF DInv, Typed
<1>3. r \in ThreadType /\ r.by = Current /\ r.tried = th[s].tried
  BY <1>1, <1>2 DEF ThreadType
<1>4. th[s].tried = "none"
  BY <1>1 DEF DInv, Sound, Tidying, Busy
<1>5. Terminates(s, r)
  BY DEF GuardStop
<1> HIDE DEF r
<1> QED  BY <1>1, <1>3, <1>4, <1>5, TerminatesKeeps DEF GuardStop

(* A session that goes on withdrawing; its order does not come to life.    *)
LEMMA WithdrawsKeeps ==
  ASSUME DInv, NEW s \in Symbols, th[s].pc \in Leaving,
         Alone(s), UNCHANGED <<pos, first>>, Typed',
         th'[s].pc \in Leaving, th'[s].by = th[s].by,
         th'[s].tried # "none" => th'[s].pc = "verify",
         Live(s)' => Live(s), ord'[s].side = ord[s].side
  PROVE  DInv'
<1>1. Sound(s)'
  <2> USE Working DEF Alone, Elsewhere, stop, engine, Leaving
  <2>1. Pooled(s)' /\ Trading(s)' /\ Nearing(s)'
    BY DEF DInv, Sound, Pooled, Trading, Nearing, Busy, Early, Ended
  <2>2. Ordered(s)' /\ Answering(s)'
    BY DEF DInv, Sound, Ordered, Answering, Settled, Aim, Early
  <2>3. Stopping(s)' /\ Tidying(s)'
    BY DEF DInv, Sound, Stopping, Tidying, Due
  <2> QED  BY <2>1, <2>2, <2>3 DEF Sound
<1>2. first # NoSymbol => th'[first].pc = "terminated"
  BY DEF DInv, Typed, TypeOK, Merging, Alone, Leaving
<1> QED  BY <1>1, <1>2, Working, ThreadKeeps

(* The query of the withdrawal finds no order, or is not sure.             *)
LEMMA CleanQueryKeeps ==
  ASSUME DInv, NEW s \in Symbols, CleanQuery(s)
  PROVE  DInv'
<1>1. th[s].pc = "clean" /\ th[s] \in ThreadType /\ th[s].tried = "none"
  BY DEF CleanQuery, DInv, Typed, Sound, Tidying
<1>2. Due(th[s].by)
  BY <1>1 DEF DInv, Sound, Stopping, Leaving
<1>3. CASE Fine /\ Live(s) /\ Goes(s, "withdraw") /\ UNCHANGED first
  <2>1. /\ th' \in [Symbols -> ThreadType]
        /\ \A u \in Symbols \ {s} : th'[u] = th[u]
        /\ th'[s] = [th[s] EXCEPT !.pc = "withdraw"]
    BY <1>3, GoesTurn DEF DInv, Leaving
  <2>2. /\ th'[s].pc = "withdraw" /\ th'[s].by = th[s].by
        /\ th'[s].tried = "none"
    BY <1>1, <2>1 DEF ThreadType
  <2>3. Alone(s)
    BY <2>1 DEF Alone, CleanQuery
  <2>4. Typed'
    BY <1>3, <2>1, StepTyped, OrdersTyped DEF DInv, Typed, TypeOK, CleanQuery
  <2> QED
    BY <1>1, <1>3, <2>2, <2>3, <2>4, WithdrawsKeeps DEF CleanQuery, Leaving, Live
<1>4. CASE Fine /\ ~Live(s) /\ Terminates(s, [th[s] EXCEPT !.tried = "no"])
  <2> DEFINE r == [th[s] EXCEPT !.tried = "no"]
  <2>1. r \in ThreadType /\ r.by = th[s].by
    BY <1>1 DEF ThreadType
  <2> HIDE DEF r
  <2>2. Terminates(s, r)
    BY <1>4 DEF r
  <2> QED
    BY <1>1, <1>2, <1>4, <2>1, <2>2, TerminatesKeeps DEF CleanQuery, Leaving
<1>5. CASE Faulty /\ Terminates(s, [th[s] EXCEPT !.tried = "no", !.unsure = TRUE])
  <2> DEFINE r == [th[s] EXCEPT !.tried = "no", !.unsure = TRUE]
  <2>1. r \in ThreadType /\ r.by = th[s].by /\ r.unsure
    BY <1>1 DEF ThreadType
  <2> HIDE DEF r
  <2>2. Terminates(s, r)
    BY <1>5 DEF r
  <2> QED
    BY <1>1, <1>2, <1>5, <2>1, <2>2, TerminatesKeeps DEF CleanQuery, Leaving
<1> QED  BY <1>3, <1>4, <1>5 DEF CleanQuery

(* A request to withdraw leaves the order as it is but for its state.      *)
LEMMA AskingKeeps ==
  ASSUME Typed, NEW s \in Symbols, Asking(s)
  PROVE  /\ ord' \in [Symbols -> OrderType]
         /\ \A u \in Symbols \ {s} : ord'[u] = ord[u]
         /\ Live(s)' <=> Live(s)
         /\ ord'[s].side = ord[s].side /\ ord'[s].left = ord[s].left
  BY OrdersTyped DEF Asking, OrderType, Live

(* The request to withdraw is made, or fails and is reported so.           *)
LEMMA CleanCancelKeeps ==
  ASSUME DInv, NEW s \in Symbols, CleanCancel(s)
  PROVE  DInv'
<1>1. th[s].pc = "withdraw" /\ th[s] \in ThreadType /\ Due(th[s].by)
  BY DEF CleanCancel, DInv, Typed, Sound, Stopping, Leaving
<1> DEFINE r == [th[s] EXCEPT !.tried = "yes"]
           v == [r EXCEPT !.pc = "verify"]
           f == [r EXCEPT !.failed = TRUE, !.unsure = TRUE]
<1>2. v \in ThreadType /\ v.pc = "verify" /\ v.by = th[s].by
  BY <1>1 DEF ThreadType, Leaving
<1>3. f \in ThreadType /\ f.by = th[s].by /\ f.unsure
  BY <1>1 DEF ThreadType
<1>4. CASE Fine /\ Asking(s) /\ Moves(s, v) /\ UNCHANGED first
  <2> HIDE DEF v
  <2>1. /\ th' \in [Symbols -> ThreadType]
        /\ \A u \in Symbols \ {s} : th'[u] = th[u]
        /\ th'[s] = v
    BY <1>2, <1>4 DEF DInv, Typed, Moves
  <2>2. Alone(s)
    BY <1>4, <2>1, AskingKeeps DEF Alone, CleanCancel, DInv
  <2>3. Typed'
    BY <1>4, <2>1, StepTyped, AskingKeeps DEF DInv, Typed, TypeOK, CleanCancel
  <2> QED
    BY <1>1, <1>2, <1>4, <2>1, <2>2, <2>3, WithdrawsKeeps, AskingKeeps
       DEF CleanCancel, Leaving, DInv
<1>5. CASE /\ (IF Live(s) THEN Faulty ELSE Fine)
           /\ Terminates(s, f) /\ UNCHANGED ord
  <2> HIDE DEF f
  <2> QED  BY <1>1, <1>3, <1>5, TerminatesKeeps DEF CleanCancel, Leaving
<1> QED  BY <1>4, <1>5 DEF CleanCancel

(* The check says whether the order ended as it was asked to.              *)
LEMMA CleanVerifyKeeps ==
  ASSUME DInv, NEW s \in Symbols, CleanVerify(s)
  PROVE  DInv'
<1>1. th[s].pc = "verify" /\ th[s] \in ThreadType /\ Due(th[s].by)
  BY DEF CleanVerify, DInv, Typed, Sound, Stopping, Leaving
<1> USE <1>1, TerminatesKeeps DEF CleanVerify, Leaving
<1>2. CASE ord[s].st = "cancelled" /\ Terminates(s, th[s])
  BY <1>2 DEF Live
<1>3. CASE Terminates(s, [th[s] EXCEPT !.failed = TRUE, !.unsure = TRUE])
  <2> DEFINE r == [th[s] EXCEPT !.failed = TRUE, !.unsure = TRUE]
  <2>1. r \in ThreadType /\ r.by = th[s].by /\ r.unsure
    BY DEF ThreadType
  <2> HIDE DEF r
  <2>2. Terminates(s, r)
    BY <1>3 DEF r
  <2> QED  BY <2>1, <2>2
<1>4. CASE Terminates(s, [th[s] EXCEPT !.unsure = TRUE])
  <2> DEFINE r == [th[s] EXCEPT !.unsure = TRUE]
  <2>1. r \in ThreadType /\ r.by = th[s].by /\ r.unsure
    BY DEF ThreadType
  <2> HIDE DEF r
  <2>2. Terminates(s, r)
    BY <1>4 DEF r
  <2> QED  BY <2>1, <2>2
<1> QED  BY <1>2, <1>3, <1>4

-----------------------------------------------------------------------------
(* A thread that goes to another place, its order left as it is.           *)
LEMMA GoesKeeps ==
  ASSUME DInv, NEW s \in Symbols, th[s].pc \in Busy, NEW at \in Busy, Goes(s, at),
         Elsewhere, Fine \/ Faulty, UNCHANGED <<pos, ord, first>>,
         [th[s] EXCEPT !.pc = at] = th'[s] => Trading(s)'
  PROVE  DInv'
<1>1. /\ th' \in [Symbols -> ThreadType]
      /\ \A u \in Symbols \ {s} : th'[u] = th[u]
      /\ th'[s] = [th[s] EXCEPT !.pc = at]
  BY GoesTurn DEF DInv
<1>2. Alone(s)
  BY <1>1 DEF Alone
<1>3. Typed'
  BY <1>1, StepTyped, OrdersTyped DEF DInv, Typed, TypeOK
<1>4. th'[s].pc \in Busy /\ th'[s].goal = th[s].goal /\ th'[s].tried = th[s].tried
  BY <1>1 DEF DInv, Typed, ThreadType
<1>5. Ordered(s)'
  BY DEF DInv, Sound, Ordered, Live, Elsewhere, engine
<1> QED  BY <1>1, <1>2, <1>3, <1>4, <1>5, TradesKeeps

(* The first look at the position.                                         *)
LEMMA BeginKeeps ==
  ASSUME DInv, NEW s \in Symbols, Begin(s)
  PROVE  DInv'
<1>1. ASSUME [th[s] EXCEPT !.pc = "read"] = th'[s]  PROVE Trading(s)'
  BY <1>1 DEF DInv, Typed, ThreadType, Sound, Trading, Begin, Aim, Live, Busy,
     Elsewhere, stop, engine
<1> QED  BY <1>1, GoesKeeps DEF Begin, Busy

(* The checkpoint before an order.                                         *)
LEMMA SubmitKeeps ==
  ASSUME DInv, NEW s \in Symbols, Submit(s)
  PROVE  DInv'
<1>1. ASSUME NEW at \in {"place", "final"}, [th[s] EXCEPT !.pc = at] = th'[s]
      PROVE  Trading(s)'
  BY <1>1 DEF DInv, Typed, ThreadType, Sound, Trading, Submit, Aim, Live, Busy,
     Elsewhere, stop, engine
<1>2. CASE Goes(s, "place")
  BY <1>1, <1>2, GoesKeeps DEF Submit, Busy
<1>3. CASE Goes(s, "final")
  BY <1>1, <1>3, GoesKeeps DEF Submit, Busy
<1> QED  BY <1>2, <1>3 DEF Submit

(* The wait ends with the order or without it.                             *)
LEMMA WaitKeeps ==
  ASSUME DInv, NEW s \in Symbols, Wait(s)
  PROVE  DInv'
<1>1. ASSUME NEW at \in {"read", "giveup"}, at = "read" => th[s].seen,
             [th[s] EXCEPT !.pc = at] = th'[s]
      PROVE  Trading(s)'
  BY <1>1 DEF DInv, Typed, ThreadType, Sound, Trading, Wait, Aim, Live, Busy,
     Elsewhere, stop, engine
<1>2. CASE th[s].seen /\ Goes(s, "read")
  BY <1>1, <1>2, GoesKeeps DEF Wait, Busy
<1>3. CASE Goes(s, "giveup")
  BY <1>1, <1>3, GoesKeeps DEF Wait, Busy
<1> QED  BY <1>2, <1>3 DEF Wait

(* A thread that has read the position knows how far it is from its goal.  *)
LEMMA ReadKeeps ==
  ASSUME DInv, NEW s \in Symbols, Read(s)
  PROVE  DInv'
<1> DEFINE r == [th[s] EXCEPT !.need = th[s].goal - pos[s],
                              !.start = IF th[s].legs = 0 THEN pos[s] ELSE @]
           g == [r EXCEPT !.pc = IF r.need = 0 \/ r.legs = MaxLegs
                                 THEN "final" ELSE "submit"]
           e == [r EXCEPT !.pc = "final", !.err = "error"]
<1>1. th[s].pc = "read" /\ th[s] \in ThreadType /\ th[s].seen /\ pos[s] \in Int
  BY DEF Read, DInv, Typed, TypeOK, Sound, Trading, Busy
<1>2. /\ r \in ThreadType /\ r.need = th[s].goal - pos[s]
      /\ r.goal = th[s].goal /\ r.tried = th[s].tried /\ r.seen = th[s].seen
  <2>1. PICK b \in Int : b = IF th[s].legs = 0 THEN pos[s] ELSE th[s].start
    BY <1>1 DEF ThreadType
  <2>2. PICK n \in Int : n = th[s].goal - pos[s]
    BY <1>1 DEF ThreadType
  <2> DEFINE q == [th[s] EXCEPT !.need = n, !.start = b]
  <2>3. q \in ThreadType
    BY <1>1 DEF ThreadType
  <2>4. /\ q.need = n /\ q.goal = th[s].goal /\ q.tried = th[s].tried
        /\ q.seen = th[s].seen
    BY <1>1 DEF ThreadType
  <2>5. r = q
    BY <2>1, <2>2, Zenon
  <2> HIDE DEF q, r
  <2> QED  BY <2>2, <2>3, <2>4, <2>5
<1>3. CASE \/ Fine /\ Moves(s, g)
           \/ Faulty /\ Moves(s, e)
  <2>1. ASSUME NEW m \in {g, e}
        PROVE  /\ m \in ThreadType /\ m.goal = th[s].goal /\ m.tried = th[s].tried
               /\ m.seen = th[s].seen /\ m.need = th[s].goal - pos[s]
               /\ m.pc \in {"submit", "final"} /\ (m.pc = "submit" => m.need # 0)
    <3>1. CASE m = g
      <4> HIDE DEF r
      <4> QED  BY <1>2, <3>1 DEF ThreadType, Busy
    <3>2. CASE m = e
      <4> HIDE DEF r
      <4> QED  BY <1>2, <3>2 DEF ThreadType, Busy
    <3> QED  BY <2>1, <3>1, <3>2
  <2>2. PICK m \in {g, e} : Moves(s, m) /\ (Fine \/ Faulty)
    BY <1>3
  <2> HIDE DEF g, e, r
  <2>3. /\ th' \in [Symbols -> ThreadType]
        /\ \A u \in Symbols \ {s} : th'[u] = th[u]
        /\ th'[s] = m
    BY <2>1, <2>2 DEF DInv, Typed, Moves
  <2>4. Alone(s)
    BY <2>3 DEF Alone, Read
  <2>5. Typed'
    BY <2>2, <2>3, StepTyped, OrdersTyped DEF DInv, Typed, TypeOK, Read
  <2>6. ~Live(s)' /\ Aim(s)' = Aim(s) /\ th[s].goal = Aim(s)
    BY <1>1 DEF DInv, Sound, Trading, Aim, Live, Read, Busy, Elsewhere, engine
  <2>7. Trading(s)'
    BY <1>1, <2>1, <2>3, <2>6 DEF Trading, Read
  <2>8. Ordered(s)'
    BY DEF DInv, Sound, Ordered, Live, Read, Elsewhere, engine
  <2> QED
    BY <1>1, <2>1, <2>3, <2>4, <2>5, <2>7, <2>8, TradesKeeps DEF Read, Busy
<1>4. CASE Faulty /\ \E a \in {"failed", "blocked"} : Results(s, a)
  BY <1>1, <1>4, ResultsKeeps DEF Read, Busy, Answers, Success
<1> HIDE DEF g, e, r
<1>5. \/ Fine /\ Moves(s, g)
      \/ Faulty /\ Moves(s, e)
      \/ Faulty /\ \E a \in {"failed", "blocked"} : Results(s, a)
  BY DEF Read, g, e, r
<1> QED  BY <1>3, <1>4, <1>5

(* A run is said to have succeeded at the goal only, with every end of an  *)
(* order seen.                                                             *)
LEMMA FinalKeeps ==
  ASSUME DInv, NEW s \in Symbols, Final(s)
  PROVE  DInv'
<1>1. \A v, k : Outcome(th[s], v, k) \in Answers
  BY DEF Outcome, Answers, Success
<1>2. Outcome(th[s], pos[s], TRUE) \in Success =>
        pos[s] = th[s].goal /\ ~Live(s)
  BY DEF Outcome, Success, Final, DInv, Sound, Trading, Busy, Typed, ThreadType
<1>3. Outcome(th[s], 0, FALSE) \notin Success
  BY DEF Outcome, Success
<1> QED  BY <1>1, <1>2, <1>3, ResultsKeeps DEF Final, Busy

(* An order on the way to the goal of a reduction reduces, one on the way  *)
(* out increases.                                                          *)
LEMMA SidesOfGoals ==
  ASSUME NEW p \in Int, NEW g \in Int, g # p
  PROVE  /\ Within(g, p) => p * (g - p) < 0
         /\ Within(p, g) => ~(p * (g - p) < 0)
<1>1. ASSUME NEW a \in Int, NEW c \in Int
      PROVE  /\ a > 0 /\ c < 0 => a * c < 0
             /\ a < 0 /\ c > 0 => a * c < 0
             /\ a >= 0 /\ c >= 0 => a * c >= 0
             /\ a <= 0 /\ c <= 0 => a * c >= 0
  OBVIOUS
<1>2. g - p \in Int /\ (g - p > 0 <=> g > p) /\ (g - p < 0 <=> g < p)
  OBVIOUS
<1>3. p * (g - p) \in Int
  OBVIOUS
<1> DEFINE d == g - p
<1> HIDE DEF d
<1> QED  BY <1>1, <1>2, <1>3 DEF Within, d

(* An order that is placed leads to the goal.                              *)
LEMMA PlaceKeeps ==
  ASSUME DInv, NEW s \in Symbols, Place(s)
  PROVE  DInv'
<1> DEFINE o == [st |-> "open", side |-> Side(s), vol |-> th[s].need,
                 left |-> th[s].need, known |-> TRUE]
           r == [th[s] EXCEPT !.pc = "final"]
           w == [r EXCEPT !.pc = "wait", !.legs = @ + 1, !.seen = FALSE]
           x == [o EXCEPT !.known = FALSE]
<1>1. th[s].pc = "place" /\ th[s] \in ThreadType /\ pos[s] \in Int
  BY DEF Place, DInv, Typed, TypeOK
<1>2. /\ th[s].seen /\ ~Live(s) /\ th[s].goal = Aim(s)
      /\ th[s].need = th[s].goal - pos[s] /\ th[s].need # 0
  BY <1>1 DEF DInv, Sound, Trading, Busy
<1>3. th[s].need \in Int /\ th[s].goal \in Int /\ th[s].goal # pos[s]
  BY <1>1, <1>2 DEF ThreadType
<1>4. Side(s) \in {"reduce", "increase"}
  BY DEF Side
<1>5. /\ main = "reducing" => Side(s) = "reduce"
      /\ main = "increasing" /\ s \in one => Side(s) = "increase"
  <2>1. /\ main = "reducing" => Within(th[s].goal, pos[s])
        /\ main = "increasing" /\ s \in one => Within(pos[s], th[s].goal)
    BY <1>1 DEF DInv, Sound, Nearing, Busy
  <2> QED  BY <1>1, <1>2, <1>3, <2>1, SidesOfGoals DEF Side
<1>6. \A e \in {"error", "blocked"} :
        /\ [r EXCEPT !.err = e] \in ThreadType
        /\ [r EXCEPT !.err = e].pc = "final" /\ [r EXCEPT !.err = e].err = e
        /\ [r EXCEPT !.err = e].goal = th[s].goal
        /\ [r EXCEPT !.err = e].tried = th[s].tried
        /\ [r EXCEPT !.err = e].seen = th[s].seen
  BY <1>1 DEF ThreadType, Busy
<1>7. /\ r \in ThreadType /\ r.pc = "final" /\ r.goal = th[s].goal
      /\ r.tried = th[s].tried /\ r.seen = th[s].seen
  BY <1>1 DEF ThreadType, Busy
<1>8. /\ w \in ThreadType /\ w.pc = "wait" /\ w.goal = th[s].goal
      /\ w.tried = th[s].tried /\ ~w.seen
  <2>1. PICK n \in Nat : n = r.legs + 1
    BY <1>1 DEF ThreadType
  <2> DEFINE q == [r EXCEPT !.pc = "wait", !.legs = n, !.seen = FALSE]
  <2>2. /\ q \in ThreadType /\ q.pc = "wait" /\ q.goal = r.goal
        /\ q.tried = r.tried /\ ~q.seen
    <3> HIDE DEF r
    <3> QED  BY <1>7 DEF ThreadType, Busy
  <2>3. w = q
    BY <2>1, Zenon
  <2> HIDE DEF q, r, w
  <2> QED  BY <1>7, <2>2, <2>3
<1>9. /\ o \in OrderType /\ o.left = th[s].need /\ o.side = Side(s)
      /\ x \in OrderType /\ x.left = th[s].need /\ x.side = Side(s)
  BY <1>3, <1>4 DEF OrderType
<1>10. \/ Fine /\ ord' = [ord EXCEPT ![s] = o] /\ Moves(s, w)
       \/ Fine /\ Moves(s, r) /\ UNCHANGED ord
       \/ /\ Faulty /\ UNCHANGED ord
          /\ \E e \in {"error", "blocked"} : Moves(s, [r EXCEPT !.err = e])
       \/ /\ Faulty /\ Moves(s, [r EXCEPT !.err = "error"])
          /\ UNCHANGED ord \/ ord' = [ord EXCEPT ![s] = x]
  BY DEF Place
<1>11. PICK m \in ThreadType :
         /\ Moves(s, m) /\ (Fine \/ Faulty)
         /\ m.goal = th[s].goal /\ m.tried = th[s].tried
         /\ m.pc \in {"wait", "final"}
         /\ \/ UNCHANGED ord
            \/ \E n \in {o, x} : ord' = [ord EXCEPT ![s] = n] /\ (m.seen => m.pc = "final" /\ m.err = "error")
  <2> HIDE DEF o, x, w, r
  <2> QED  BY <1>6, <1>7, <1>8, <1>10
<1>12. /\ th' \in [Symbols -> ThreadType] /\ th'[s] = m
       /\ \A u \in Symbols \ {s} : th'[u] = th[u]
  BY <1>11 DEF DInv, Typed, Moves
<1>13. /\ ord' \in [Symbols -> OrderType]
       /\ \A u \in Symbols \ {s} : ord'[u] = ord[u]
       /\ \/ ord'[s] = ord[s]
          \/ /\ ord'[s].left = th[s].need /\ ord'[s].side = Side(s)
             /\ m.seen => m.pc = "final" /\ m.err = "error"
  <2> HIDE DEF o, x, w, r
  <2> QED  BY <1>9, <1>11, OrdersTyped DEF DInv
<1> HIDE DEF o, x, w, r
<1>14. Alone(s)
  BY <1>12, <1>13 DEF Alone, Place
<1>15. Typed'
  BY <1>11, <1>12, <1>13, StepTyped DEF DInv, Typed, TypeOK, Place
<1>16. Trading(s)'
  <2>1. pos' = pos /\ Aim(s)' = Aim(s)
    BY DEF Place, Elsewhere, Aim, engine
  <2>2. pos[s] + th[s].need = th[s].goal
    BY <1>1, <1>2, <1>3
  <2>3. CASE ord'[s] = ord[s]
    BY <1>2, <1>11, <1>12, <2>1, <2>3 DEF Trading, Live
  <2>4. CASE /\ ord'[s].left = th[s].need
             /\ m.seen => m.pc = "final" /\ m.err = "error"
    BY <1>2, <1>11, <1>12, <2>1, <2>2, <2>4 DEF Trading
  <2> QED  BY <1>13, <2>3, <2>4
<1>17. Ordered(s)'
  BY <1>1, <1>5, <1>13, Working
  DEF DInv, Sound, Ordered, Pooled, Live, Place, Elsewhere, engine, Early, Busy
<1> QED
  BY <1>1, <1>11, <1>12, <1>14, <1>15, <1>16, <1>17, TradesKeeps DEF Place, Busy

(* Giving up and seeing the end of an order leave the goal alone.          *)
LEMMA GaveUpShape ==
  ASSUME NEW r \in ThreadType
  PROVE  /\ GaveUp(r) \in ThreadType /\ GaveUp(r).pc \in {"final", "giveup"}
         /\ GaveUp(r).goal = r.goal /\ GaveUp(r).tried = r.tried
         /\ GaveUp(r).seen = r.seen
<1>1. PICK p \in {"final", "giveup"} :
        p = IF r.seen \/ r.gave = 1 THEN "final" ELSE "giveup"
  OBVIOUS
<1>2. PICK e \in {"none", "error", "blocked"} :
        e = IF r.bad /\ ~r.seen THEN "error" ELSE r.err
  BY DEF ThreadType
<1> DEFINE q == [r EXCEPT !.pc = p, !.gave = 1, !.bad = FALSE, !.err = e]
<1>3. /\ q \in ThreadType /\ q.pc = p /\ q.goal = r.goal
      /\ q.tried = r.tried /\ q.seen = r.seen
  BY DEF ThreadType, Busy
<1>4. GaveUp(r) = q
  BY <1>1, <1>2, Zenon DEF GaveUp
<1> HIDE DEF q
<1> QED  BY <1>3, <1>4

(* A thread that sees the end of an order.                                 *)
LEMMA SeeShape ==
  ASSUME NEW r \in ThreadType, NEW d
  PROVE  /\ See(r, d) \in ThreadType /\ See(r, d).pc = r.pc
         /\ See(r, d).goal = r.goal /\ See(r, d).tried = r.tried
<1>1. PICK f \in BOOLEAN : f = (r.filled \/ d.left # d.vol)
  BY DEF ThreadType
<1>2. PICK e \in {"none", "error", "blocked"} :
        e = IF d.st = "rejected" THEN "error" ELSE r.err
  BY DEF ThreadType
<1> DEFINE q == [r EXCEPT !.seen = TRUE, !.filled = f, !.err = e]
<1>3. /\ q \in ThreadType /\ q.pc = r.pc /\ q.goal = r.goal
      /\ q.tried = r.tried
  BY DEF ThreadType
<1>4. See(r, d) = q
  BY <1>1, <1>2, Zenon DEF See
<1> HIDE DEF q
<1> QED  BY <1>3, <1>4

(* A thread that waits for its order and goes on waiting, or gives up, as  *)
(* long as it says that it has seen the end of no order that lives.        *)
LEMMA WaitingKeeps ==
  ASSUME DInv, NEW s \in Symbols, th[s].pc \in {"wait", "giveup", "confirm"},
         NEW m \in ThreadType, Moves(s, m),
         m.pc \in {"wait", "giveup", "confirm", "final"},
         m.goal = th[s].goal, m.tried = th[s].tried,
         m.seen => th[s].seen \/ ~Live(s),
         Elsewhere, Fine \/ Faulty, UNCHANGED <<pos, first>>,
         Asking(s) \/ UNCHANGED ord
  PROVE  DInv'
<1>1. /\ th' \in [Symbols -> ThreadType] /\ th'[s] = m
      /\ \A u \in Symbols \ {s} : th'[u] = th[u]
  BY DEF DInv, Typed, Moves
<1>2. /\ ord' \in [Symbols -> OrderType]
      /\ \A u \in Symbols \ {s} : ord'[u] = ord[u]
      /\ Live(s)' <=> Live(s)
      /\ ord'[s].side = ord[s].side /\ ord'[s].left = ord[s].left
  BY AskingKeeps, OrdersTyped DEF DInv, Live
<1>3. Alone(s)
  BY <1>1, <1>2 DEF Alone
<1>4. Typed'
  BY <1>1, <1>2, StepTyped DEF DInv, Typed, TypeOK
<1>5. Trading(s)'
  BY <1>1, <1>2 DEF DInv, Sound, Trading, Aim, Busy, Elsewhere, engine
<1>6. Ordered(s)'
  BY <1>2, Working DEF DInv, Sound, Ordered, Early, Elsewhere, engine, Busy
<1> QED
  BY <1>1, <1>3, <1>4, <1>5, <1>6, TradesKeeps DEF Busy

(* A thread gives its order up: it is asked to be withdrawn, or not.       *)
LEMMA GiveUpKeeps ==
  ASSUME DInv, NEW s \in Symbols, GiveUp(s)
  PROVE  DInv'
<1>1. th[s] \in ThreadType /\ th[s].pc = "giveup"
  BY DEF DInv, Typed, GiveUp
<1> DEFINE c == [th[s] EXCEPT !.pc = "confirm"]
           d == [th[s] EXCEPT !.pc = "confirm", !.bad = TRUE]
           e == [th[s] EXCEPT !.err = "error"]
<1>2. /\ c \in ThreadType /\ c.pc = "confirm" /\ c.goal = th[s].goal
      /\ c.tried = th[s].tried /\ c.seen = th[s].seen
  BY <1>1 DEF ThreadType, Busy
<1>3. /\ d \in ThreadType /\ d.pc = "confirm" /\ d.goal = th[s].goal
      /\ d.tried = th[s].tried /\ d.seen = th[s].seen
  BY <1>1 DEF ThreadType, Busy
<1>4. /\ e \in ThreadType /\ e.goal = th[s].goal
      /\ e.tried = th[s].tried /\ e.seen = th[s].seen
  BY <1>1 DEF ThreadType
<1>5. \/ Fine /\ Asking(s) /\ Moves(s, c)
      \/ Faulty /\ UNCHANGED ord /\ Moves(s, d)
      \/ Faulty /\ UNCHANGED ord /\ Moves(s, GaveUp(e))
  BY DEF GiveUp, Goes
<1> HIDE DEF c, d, e
<1> QED
  BY <1>1, <1>2, <1>3, <1>4, <1>5, GaveUpShape, WaitingKeeps DEF GiveUp

(* The end of the order is found, or not.                                  *)
LEMMA ConfirmKeeps ==
  ASSUME DInv, NEW s \in Symbols, Confirm(s)
  PROVE  DInv'
<1>1. th[s] \in ThreadType /\ th[s].pc = "confirm"
  BY DEF DInv, Typed, Confirm
<1>2. \/ Moves(s, GaveUp(th[s]))
      \/ ~Live(s) /\ Moves(s, GaveUp(See(th[s], ord[s])))
  BY DEF Confirm
<1> QED
  BY <1>1, <1>2, GaveUpShape, SeeShape, WaitingKeeps DEF Confirm

(* The end of an order reaches the thread once the order has ended.        *)
LEMMA ReportKeeps ==
  ASSUME DInv, NEW s \in Symbols, Report(s)
  PROVE  DInv'
<1>1. th[s] \in ThreadType /\ th[s].pc \in {"wait", "giveup", "confirm"}
  BY DEF DInv, Typed, Report
<1>2. Moves(s, See(th[s], ord[s])) /\ ~Live(s)
  BY DEF Report, Moves
<1>3. Elsewhere /\ Fine /\ UNCHANGED <<pos, first, ord>>
  BY DEF Report, Elsewhere, Fine, account
<1> QED
  BY <1>1, <1>2, <1>3, SeeShape, WaitingKeeps

-----------------------------------------------------------------------------
(* A live order moves at the exchange, in whatever phase the run is: a     *)
(* symbol that was said to be where it should has no such order.           *)
LEMMA ExchangeKeeps ==
  ASSUME DInv, NEW s \in Symbols, Live(s), Typed',
         UNCHANGED <<target, stop, engine, th, first, faults>>,
         \A u \in Symbols \ {s} : pos'[u] = pos[u] /\ ord'[u] = ord[u],
         ord'[s].side = ord[s].side,
         th[s].pc \in Busy =>
           /\ pos[s]' + ord[s]'.left = pos[s] + ord[s].left
           /\ Live(s)' => ord[s]'.left # 0
           /\ Within(th[s].goal, pos[s]) => Within(th[s].goal, pos[s]')
           /\ Within(pos[s], th[s].goal) => Within(pos[s]', th[s].goal)
  PROVE  DInv'
<1> USE DEF stop, engine
<1>1. main \notin Early
  BY DEF DInv, Sound, Ordered, Live
<1>2. Sound(s)'
  <2>1. Pooled(s)' /\ Stopping(s)' /\ Tidying(s)'
    BY DEF DInv, Sound, Pooled, Stopping, Tidying, Due
  <2>2. Trading(s)'
    BY DEF DInv, Sound, Trading, Aim
  <2>3. Nearing(s)'
    BY <1>1 DEF DInv, Sound, Nearing, Early
  <2>4. Ordered(s)'
    BY <1>1 DEF DInv, Sound, Ordered, Live
  <2>5. Answering(s)'
    BY <1>1 DEF DInv, Sound, Answering, Settled
  <2> QED  BY <2>1, <2>2, <2>3, <2>4, <2>5 DEF Sound
<1>3. \A u \in Symbols : Sound(u)'
  BY <1>2, OthersKeep DEF DInv
<1>4. \A u \in Symbols : ord'[u].side = ord[u].side /\ (Live(u)' => Live(u))
  BY DEF Live
<1>5. Merging'
  BY <1>4 DEF DInv, Merging, Due, CleanedIsReported
<1>6. Reducing'
  <2>1. CASE \A u \in Symbols : ord[u].side # "increase"
    BY <1>4, <2>1 DEF Reducing, ReducedFirst
  <2>2. CASE \E u \in Symbols : ord[u].side = "increase"
    <3>1. one \subseteq Symbols /\ \A r \in one \ two : r # s
      BY <2>2 DEF DInv, Typed, TypeOK, Reducing
    <3> QED
      BY <1>4, <2>2, <3>1 DEF DInv, Reducing, ReducedFirst
  <2> QED  BY <2>1, <2>2
<1>7. Claiming'
  BY DEF DInv, Claiming
<1> QED  BY <1>3, <1>5, <1>6, <1>7 DEF DInv

(* A fill brings the position nearer to the goal by a lot.                 *)
LEMMA FillKeeps ==
  ASSUME DInv, NEW s \in Symbols, Fill(s)
  PROVE  DInv'
<1>1. pos[s] \in Int /\ ord[s] \in OrderType /\ ord[s].left \in Int /\ Live(s)
  BY OrdersTyped DEF Fill, DInv, Typed, TypeOK, OrderType
<1>2. PICK lot \in {1, -1} : lot = IF ord[s].left > 0 THEN 1 ELSE -1
  OBVIOUS
<1>3. PICK p \in Int : p = pos[s] + lot
  BY <1>1
<1>4. PICK l \in Int : l = ord[s].left - lot
  BY <1>1
<1>5. PICK e \in {"filled", ord[s].st} : e = IF ord[s].left = lot THEN "filled" ELSE ord[s].st
  OBVIOUS
<1> DEFINE o == [ord[s] EXCEPT !.left = l, !.st = e]
<1>6. o \in OrderType /\ o.left = l /\ o.st = e /\ o.side = ord[s].side
  BY <1>1, <1>5 DEF OrderType
<1>7. pos' = [pos EXCEPT ![s] = p] /\ ord' = [ord EXCEPT ![s] = o]
  BY <1>2, <1>3, <1>4, <1>5, Zenon DEF Fill
<1> HIDE DEF o
<1>8. /\ pos' \in [Symbols -> Int] /\ pos'[s] = p
      /\ ord' \in [Symbols -> OrderType] /\ ord'[s] = o
      /\ \A u \in Symbols \ {s} : pos'[u] = pos[u] /\ ord'[u] = ord[u]
  BY <1>6, <1>7, OrdersTyped DEF DInv, Typed, TypeOK
<1>9. UNCHANGED <<target, stop, engine, th, first, faults>>
  BY DEF Fill
<1>10. Typed'
  BY <1>8, <1>9 DEF DInv, Typed, TypeOK, OrderType, stop, engine
<1>11. ASSUME th[s].pc \in Busy
       PROVE  /\ p + l = pos[s] + ord[s].left
              /\ Live(s)' => l # 0
              /\ Within(th[s].goal, pos[s]) => Within(th[s].goal, p)
              /\ Within(pos[s], th[s].goal) => Within(p, th[s].goal)
  <2>1. pos[s] + ord[s].left = th[s].goal /\ ord[s].left # 0
    BY <1>1, <1>11 DEF DInv, Sound, Trading
  <2>2. p + l = pos[s] + ord[s].left
    BY <1>1, <1>2, <1>3, <1>4
  <2>3. Live(s)' => l # 0
    BY <1>1, <1>2, <1>4, <1>5, <1>6, <1>8 DEF Live
  <2>4. \E q \in Int : q = th[s].goal
    BY <1>1, <2>1
  <2>5. /\ Within(th[s].goal, pos[s]) => Within(th[s].goal, p)
        /\ Within(pos[s], th[s].goal) => Within(p, th[s].goal)
    BY <1>1, <1>2, <1>3, <2>1, <2>4 DEF Within
  <2> QED  BY <2>2, <2>3, <2>5
<1> QED
  BY <1>1, <1>6, <1>8, <1>9, <1>10, <1>11, ExchangeKeeps

(* An order that ends moves nothing.                                       *)
LEMMA EndOrderKeeps ==
  ASSUME DInv, NEW s \in Symbols, EndOrder(s)
  PROVE  DInv'
<1>1. PICK st \in {"cancelled", "rejected"} : ord' = [ord EXCEPT ![s].st = st]
  BY DEF EndOrder
<1>2. /\ ord' \in [Symbols -> OrderType]
      /\ \A u \in Symbols \ {s} : ord'[u] = ord[u]
      /\ ord'[s].st = st /\ ord'[s].side = ord[s].side /\ ord'[s].left = ord[s].left
  BY <1>1, OrdersTyped DEF DInv, OrderType
<1>3. Typed'
  BY <1>2 DEF EndOrder, DInv, Typed, TypeOK, OrderType, stop, engine
<1>4. ~Live(s)'
  BY <1>2 DEF Live
<1> QED
  BY <1>2, <1>3, <1>4, ExchangeKeeps DEF EndOrder

-----------------------------------------------------------------------------
(* Who asks first stays first.                                             *)
LEMMA AskingStays ==
  ASSUME DInv, Typed', UNCHANGED <<account, engine, th, first>>, main \notin Ended,
         expired' = "later" => asked' # "none",
         \A d : Due(d) => Due(d)'
  PROVE  DInv'
<1> USE DEF account, engine
<1>1. ASSUME NEW u \in Symbols
      PROVE  Sound(u)'
  <2>1. Pooled(u)' /\ Trading(u)' /\ Tidying(u)'
    BY DEF DInv, Sound, Pooled, Trading, Tidying, Aim, Live
  <2>2. Nearing(u)' /\ Ordered(u)' /\ Answering(u)'
    BY DEF DInv, Sound, Nearing, Ordered, Answering, Settled, Aim, Live, FirstGoal
  <2>3. Stopping(u)'
    BY DEF DInv, Sound, Stopping
  <2> QED  BY <2>1, <2>2, <2>3 DEF Sound
<1>2. Merging'
  BY DEF DInv, Merging, CleanedIsReported, Live, Ended
<1>3. Reducing' /\ Claiming'
  BY DEF DInv, Reducing, ReducedFirst, Claiming, Live
<1> QED  BY <1>1, <1>2, <1>3 DEF DInv

(* The operator asks once.                                                 *)
LEMMA AskKeeps ==
  ASSUME DInv, Ask
  PROVE  DInv'
<1>1. Typed'
  BY DispatchAssumption DEF Ask, DInv, Typed, TypeOK, account, engine
<1>2. \A d : Due(d) => Due(d)'
  BY DEF Ask, Due
<1>3. asked' # "none"
  BY DispatchAssumption DEF Ask
<1> QED  BY <1>1, <1>2, <1>3, AskingStays DEF Ask

(* The time is up once, before the operator asks or later.                 *)
LEMMA ExpireKeeps ==
  ASSUME DInv, Expire
  PROVE  DInv'
<1>1. Typed'
  BY DEF Expire, DInv, Typed, TypeOK, account, engine
<1>2. \A d : Due(d) => Due(d)'
  BY DEF Expire, Due
<1>3. expired' = "later" => asked' # "none"
  BY DEF Expire
<1> QED  BY <1>1, <1>2, <1>3, AskingStays DEF Expire

-----------------------------------------------------------------------------
(* Steps of the engine that end the run.                                   *)
LEMMA EndsKeep ==
  ASSUME DInv, Typed', UNCHANGED <<account, stop, th, first, one, two, got>>,
         \A s \in Symbols : th[s].pc \in Over,
         \/ main' = "failed"
         \/ main' = "terminated" /\ Due(rec.by)' /\ CleanedIsReported'
         \/ main = "output" /\ main' = "done"
            /\ (rec'.status \in Success => \A s \in Symbols : got[s] \subseteq Success)
  PROVE  DInv'
<1> USE DEF account, stop
<1>1. ASSUME NEW u \in Symbols
      PROVE  Sound(u)'
  <2>1. Pooled(u)' /\ Trading(u)' /\ Tidying(u)'
    BY DEF DInv, Sound, Pooled, Trading, Tidying, Live, Ended, Early, Over, Busy
  <2>2. Nearing(u)' /\ Ordered(u)' /\ Answering(u)'
    BY DEF DInv, Sound, Nearing, Ordered, Answering, Settled, Live, Early, Busy, Over
  <2>3. Stopping(u)'
    BY DEF DInv, Sound, Stopping, Due
  <2> QED  BY <2>1, <2>2, <2>3 DEF Sound
<1>2. Merging'
  BY DEF DInv, Merging, CleanedIsReported
<1>3. Reducing' /\ Claiming'
  BY DEF DInv, Reducing, ReducedFirst, Claiming, Live
<1> QED  BY <1>1, <1>2, <1>3 DEF DInv

(* Outside the two phases no thread is at work.                            *)
LEMMA CallingOver ==
  ASSUME DInv, main \in Early \cup {"two", "output"}, NEW s \in Symbols
  PROVE  th[s].pc \in {"idle", "result"} /\ th[s].tried = "none"
  BY DEF DInv, Typed, TypeOK, Sound, Pooled, Tidying, Early

(* The record of a terminated run.                                         *)
LEMMA TerminatedTyped ==
  ASSUME NEW b \in Trigger, NEW t \in {"none", "yes", "no"},
         NEW F \in SUBSET Symbols, NEW q \in BOOLEAN
  PROVE  /\ Terminated(b, t, F, q) \in RecordType
         /\ Terminated(b, t, F, q).by = b
         /\ Terminated(b, t, F, q).failed = F /\ Terminated(b, t, F, q).unsure = q
  BY DEF Terminated, RecordType

(* Records without a stop.                                                 *)
LEMMA NoRecordTyped ==
  ASSUME NEW a \in Answers
  PROVE  /\ [NoRecord EXCEPT !.status = a] \in RecordType
         /\ [NoRecord EXCEPT !.status = a].status = a
  BY DEF NoRecord, NoStop, RecordType, Trigger

(* The types, after a step of the engine.                                  *)
LEMMA EngineTyped ==
  ASSUME Typed, UNCHANGED <<pos, ord, stop, first>>, Fine \/ Faulty,
         target' \in [Symbols -> Int], th' \in [Symbols -> ThreadType],
         main' \in Ended \cup {"plan", "prepare", "one", "reducing", "two", "increasing", "output"},
         one' \subseteq Symbols, two' \subseteq Symbols,
         got' \in [Symbols -> SUBSET Answers], rec' \in RecordType
  PROVE  Typed'
  BY DispatchAssumption DEF Typed, TypeOK, Fine, Faulty, stop, Answers, Success

(* The engine stops between two calls, when no thread is at work.          *)
LEMMA EngineStopKeeps ==
  ASSUME DInv, EngineStop
  PROVE  DInv'
<1>1. Due(Current) /\ Current \in Trigger
  BY CurrentDue DEF EngineStop
<1>2. /\ rec' \in RecordType /\ rec'.by = Current
  <2>1. {} \in SUBSET Symbols /\ "none" \in {"none", "yes", "no"} /\ FALSE \in BOOLEAN
    OBVIOUS
  <2>2. /\ Terminated(Current, "none", {}, FALSE) \in RecordType
        /\ Terminated(Current, "none", {}, FALSE).by = Current
    BY <1>1, <2>1, TerminatedTyped, Zenon
  <2> QED  BY <2>2 DEF EngineStop
<1>3. \A s \in Symbols : th[s].pc \in {"idle", "result"} /\ th[s].tried = "none"
  BY CallingOver DEF EngineStop, Calling, Early
<1>4. Typed'
  BY <1>2, EngineTyped
     DEF DInv, Typed, TypeOK, EngineStop, EngineOnly, account, Answers, Success, Ended
<1>5. CleanedIsReported' /\ Due(rec.by)'
  BY <1>1, <1>2, <1>3 DEF CleanedIsReported, Due, EngineStop, EngineOnly, stop
<1> QED
  BY <1>3, <1>4, <1>5, EndsKeep DEF EngineStop, EngineOnly, Over

(* A failure of the engine claims nothing.                                 *)
LEMMA EngineFailsKeeps ==
  ASSUME DInv, EngineFails
  PROVE  DInv'
<1>1. \A s \in Symbols : th[s].pc \in Over
  BY CallingOver DEF EngineFails, Calling, Early, Over
<1>2. rec' \in RecordType
  BY NoRecordTyped DEF EngineFails, Answers
<1>3. Typed'
  BY <1>2, EngineTyped
     DEF DInv, Typed, TypeOK, EngineFails, EngineOnly, account, Answers, Success, Ended
<1> QED
  BY <1>1, <1>3, EndsKeep DEF EngineFails, EngineOnly

(* A run succeeds when each of its symbols does.                           *)
LEMMA StatusOfSuccess ==
  ASSUME DInv
  PROVE  /\ RunStatus(Statuses) \in Answers
         /\ RunStatus(Statuses) \in Success =>
              \A s \in Symbols : got[s] \subseteq Success
<1>1. \A R \in SUBSET Answers : SymbolStatus(R) \in Success => R \subseteq Success
  BY DEF SymbolStatus, Answers, Success
<1>2. \A R \in SUBSET Answers : SymbolStatus(R) \in Answers
  BY DEF SymbolStatus, Answers, Success
<1>3. \A s \in Symbols : got[s] \in SUBSET Answers
  BY DEF DInv, Typed, TypeOK, Answers, Success
<1>4. Statuses \subseteq Answers
  BY <1>2, <1>3 DEF Statuses
<1>5. RunStatus(Statuses) \in Success => Statuses \subseteq Success
  BY <1>4 DEF RunStatus, Answers, Success
<1>6. RunStatus(Statuses) \in Answers
  BY DEF RunStatus, Answers, Success
<1>7. ASSUME Statuses \subseteq Success, NEW s \in Symbols
      PROVE  got[s] \subseteq Success
  BY <1>1, <1>3, <1>7 DEF Statuses
<1> QED  BY <1>5, <1>6, <1>7

(* The status of the run is that of its symbols, or a worse one.           *)
LEMMA OutputKeeps ==
  ASSUME DInv, Output
  PROVE  DInv'
<1>1. PICK a \in Answers :
        /\ rec' = [NoRecord EXCEPT !.status = a]
        /\ a \in Success => a = RunStatus(Statuses)
        /\ Fine \/ Faulty
  <2>1. CASE Fine /\ rec' = [NoRecord EXCEPT !.status = RunStatus(Statuses)]
    BY <2>1, StatusOfSuccess
  <2>2. CASE Faulty /\ rec' = [NoRecord EXCEPT !.status = RunStatus(Statuses)]
             /\ RunStatus(Statuses) \notin Success
    BY <2>2, StatusOfSuccess
  <2>3. CASE Faulty /\ \E a \in {"partial", "failed"} : rec' = [NoRecord EXCEPT !.status = a]
    BY <2>3 DEF Answers, Success
  <2> QED  BY <2>1, <2>2, <2>3 DEF Output
<1>2. rec' \in RecordType /\ rec'.status = a
  BY <1>1, NoRecordTyped
<1>3. \A s \in Symbols : th[s].pc \in Over
  BY CallingOver DEF Output, Over
<1>4. Typed'
  BY <1>1, <1>2, EngineTyped
     DEF DInv, Typed, TypeOK, Output, EngineOnly, account, Answers, Success, Ended
<1> QED
  BY <1>1, <1>2, <1>3, <1>4, StatusOfSuccess, EndsKeep DEF Output, EngineOnly

-----------------------------------------------------------------------------
(* Steps of the engine that go on.                                         *)

(* A symbol that neither reduces nor opens is where it shall be, and one   *)
(* that reduces first goes to its target, or to nothing.                   *)
LEMMA Classes ==
  ASSUME Typed, NEW s \in Symbols
  PROVE  /\ ~Reduces(s) /\ ~Opens(s) => pos[s] = target[s]
         /\ Reduces(s) =>
              /\ FirstGoal(s) = IF Opens(s) THEN 0 ELSE target[s]
              /\ Within(FirstGoal(s), pos[s])
<1>1. ASSUME NEW p \in Int, NEW t \in Int
      PROVE  /\ p > 0 /\ t > 0 => p * t > 0
             /\ p < 0 /\ t < 0 => p * t > 0
             /\ p >= 0 /\ t <= 0 => p * t <= 0
             /\ p <= 0 /\ t >= 0 => p * t <= 0
             /\ p * t \in Int
  OBVIOUS
<1>2. PICK p \in Int, t \in Int : p = pos[s] /\ t = target[s]
  BY DEF Typed, TypeOK
<1>3. PICK q \in Int : q = p * t
  BY <1>1
<1>4. /\ q > 0 => (p > 0 /\ t > 0) \/ (p < 0 /\ t < 0)
      /\ q <= 0 => (p >= 0 /\ t <= 0) \/ (p <= 0 /\ t >= 0)
  BY <1>1, <1>3
<1>5. /\ Reduces(s) <=> p # 0 /\ (q <= 0 \/ Size(t) < Size(p))
      /\ Opens(s) <=> t # 0 /\ (q <= 0 \/ Size(t) > Size(p))
      /\ FirstGoal(s) = IF q > 0 THEN t ELSE 0
  BY <1>2, <1>3 DEF Reduces, Opens, FirstGoal
<1>6. ~Reduces(s) /\ ~Opens(s) => p = t
  BY <1>4, <1>5 DEF Size
<1>7. Reduces(s) => FirstGoal(s) = IF Opens(s) THEN 0 ELSE t
  BY <1>4, <1>5 DEF Size
<1>8. Reduces(s) => Within(FirstGoal(s), p)
  BY <1>4, <1>5 DEF Size, Within
<1> QED  BY <1>2, <1>6, <1>7, <1>8

(* Every phase of the planning.                                            *)
LEMMA PlanKeeps ==
  ASSUME DInv, Plan
  PROVE  DInv'
<1> USE DEF EngineOnly, account, stop
<1>1. PICK out \in SUBSET Symbols, result \in {"closed", "failed"} :
        /\ one' = {s \in Symbols \ out : Reduces(s)}
        /\ two' = {s \in Symbols \ out : Opens(s)}
        /\ got' = [s \in Symbols |->
                     IF s \in out THEN {result}
                     ELSE IF Reduces(s) \/ Opens(s) THEN {} ELSE {"noop"}]
        /\ Fine \/ Faulty
  BY DEF Plan
<1>2. /\ main = "plan" /\ UNCHANGED <<pos, target, ord, asked, expired, th, first, rec>>
      /\ main' \in {"output", "prepare"}
      /\ main' = "output" => one' = {} /\ two' = {}
  BY DEF Plan
<1>3. Typed'
  <2>1. got' \in [Symbols -> SUBSET Answers]
    BY <1>1 DEF Answers, Success
  <2> QED
    BY <1>1, <1>2, <2>1, EngineTyped DEF DInv, Typed, TypeOK, Ended
<1>4. ASSUME NEW u \in Symbols
      PROVE  Sound(u)'
  <2>1. th[u].pc = "idle" /\ ord[u].st = "none" /\ ord[u].side # "increase"
    BY <1>2 DEF DInv, Sound, Pooled, Ordered, Early
  <2>2. Pooled(u)' /\ Trading(u)' /\ Ordered(u)'
    BY <1>2, <2>1 DEF Pooled, Trading, Ordered, Early, Busy, Ended, Live
  <2>3. Nearing(u)'
    <3>1. u \in one' => Reduces(u) /\ (u \in two' <=> Opens(u))
      BY <1>1
    <3>2. Typed
      BY DEF DInv
    <3>3. u \in one' => FirstGoal(u)' = Aim(u)' /\ Within(Aim(u)', pos[u])
      <4>1. FirstGoal(u)' = FirstGoal(u)
        BY <1>2 DEF FirstGoal
      <4>2. CASE main' = "prepare"
        <5>1. Aim(u)' = IF u \in two' THEN 0 ELSE target[u]
          BY <1>2, <4>2 DEF Aim, Early
        <5> QED  BY <3>1, <3>2, <4>1, <5>1, Classes
      <4>3. CASE main' = "output"
        BY <1>2, <4>3
      <4> QED  BY <1>2, <4>2, <4>3
    <3> QED  BY <1>2, <2>1, <3>3 DEF Nearing, Busy
  <2>4. Answering(u)'
    <3>1. u \notin one' \cup two' => Settled(u)'
      <4>1. CASE u \in out
        BY <1>1, <4>1 DEF Settled, Success
      <4>2. CASE u \notin out /\ ~Reduces(u) /\ ~Opens(u)
        BY <1>2, <2>1, <4>2, Classes DEF Settled, Live, DInv
      <4> QED  BY <1>1, <4>1, <4>2
    <3> QED  BY <1>2, <2>1, <3>1 DEF Answering
  <2>5. Stopping(u)' /\ Tidying(u)'
    BY <1>2, <2>1 DEF DInv, Sound, Stopping, Tidying, Leaving
  <2> QED  BY <2>2, <2>3, <2>4, <2>5 DEF Sound
<1>5. Merging'
  BY <1>2 DEF DInv, Merging, CleanedIsReported, Due
<1>6. Reducing'
  BY <1>2 DEF DInv, Sound, Ordered, Reducing, ReducedFirst, Early
<1>7. Claiming'
  BY <1>2 DEF Claiming
<1> QED  BY <1>3, <1>4, <1>5, <1>6, <1>7 DEF DInv

(* Nothing happens to positions while old orders are withdrawn and quotes  *)
(* subscribed.                                                             *)
LEMMA PrepareKeeps ==
  ASSUME DInv, Prepare
  PROVE  DInv'
<1> USE DEF EngineOnly, account, stop
<1>1. /\ main = "prepare" /\ main' = "one" /\ Fine
      /\ UNCHANGED <<pos, target, ord, asked, expired, th, first, rec, one, two, got>>
  BY DEF Prepare
<1>2. Typed'
  BY <1>1, EngineTyped DEF DInv, Typed, TypeOK, Ended, Answers, Success
<1>3. ASSUME NEW u \in Symbols
      PROVE  Sound(u)'
  <2>1. Pooled(u)' /\ Trading(u)' /\ Ordered(u)'
    BY <1>1 DEF DInv, Sound, Pooled, Trading, Ordered, Early, Busy, Ended, Live
  <2>2. Nearing(u)'
    BY <1>1 DEF DInv, Sound, Pooled, Nearing, Early, Busy, Aim, FirstGoal
  <2>3. Answering(u)'
    BY <1>1 DEF DInv, Sound, Pooled, Answering, Settled, Live, Early
  <2>4. Stopping(u)' /\ Tidying(u)'
    BY <1>1 DEF DInv, Sound, Stopping, Tidying, Due, Live
  <2> QED  BY <2>1, <2>2, <2>3, <2>4 DEF Sound
<1>4. Merging' /\ Reducing' /\ Claiming'
  BY <1>1 DEF DInv, Merging, CleanedIsReported, Due, Reducing, ReducedFirst,
     Claiming, Live
<1> QED  BY <1>2, <1>3, <1>4 DEF DInv

(* A new thread is at rest.                                                *)
LEMMA ThreadTyped ==
  ASSUME NEW g \in Int
  PROVE  /\ Thread(g) \in ThreadType /\ Thread(g).pc = "queued" /\ Thread(g).goal = g
         /\ Thread(g).seen /\ Thread(g).tried = "none"
<1>1. NoThread \in ThreadType /\ NoThread.seen /\ NoThread.tried = "none"
  BY NoThreadTyped DEF NoThread
<1> QED  BY <1>1 DEF Thread, ThreadType, Busy

(* Phase one starts every thread at rest and between nothing and the       *)
(* position.                                                               *)
LEMMA PhaseOneKeeps ==
  ASSUME DInv, PhaseOne
  PROVE  DInv'
<1>1. /\ main = "one" /\ Fine
      /\ UNCHANGED <<pos, target, ord, asked, expired, first, rec, one, two, got>>
  BY DEF PhaseOne, account, stop
<1>2. \A u \in Symbols : /\ th[u].pc = "idle" /\ th[u].tried = "none"
                         /\ ord[u].st = "none" /\ ord[u].side # "increase"
                         /\ FirstGoal(u) \in Int
                         /\ u \in one => FirstGoal(u) = Aim(u) /\ Within(Aim(u), pos[u])
                         /\ u \notin one \cup two => Settled(u)
  BY <1>1 DEF DInv, Typed, TypeOK, Sound, Pooled, Ordered, Nearing, Answering,
     Tidying, Early, FirstGoal
<1>3. /\ th' \in [Symbols -> ThreadType]
      /\ \/ main' = "two" /\ one = {} /\ th' = th
         \/ /\ main' = "reducing"
            /\ \A u \in Symbols :
                 /\ u \in one => /\ th'[u].pc = "queued" /\ th'[u].goal = FirstGoal(u)
                                 /\ th'[u].seen /\ th'[u].tried = "none"
                 /\ u \notin one => th'[u] = th[u]
  <2>1. CASE one = {}
    BY <2>1 DEF PhaseOne, DInv, Typed
  <2>2. CASE one # {}
    <3>1. one \subseteq Symbols /\ th \in [Symbols -> ThreadType]
      BY DEF DInv, Typed, TypeOK
    <3>2. /\ main' = "reducing"
          /\ th' = [s \in Symbols |-> IF s \in one THEN Thread(FirstGoal(s)) ELSE th[s]]
      BY <2>2 DEF PhaseOne, Threads
    <3> QED  BY <1>2, <3>1, <3>2, ThreadTyped
  <2> QED  BY <2>1, <2>2
<1>4. Typed'
  BY <1>1, <1>3, EngineTyped DEF DInv, Typed, TypeOK, Ended, Answers, Success, stop
<1>5. ASSUME NEW u \in Symbols
      PROVE  Sound(u)'
  <2>1. Pooled(u)' /\ Stopping(u)' /\ Tidying(u)'
    BY <1>1, <1>2, <1>3 DEF Pooled, Stopping, Tidying, Early, Ended, Leaving
  <2>2. Aim(u)' = Aim(u) /\ ~Live(u)'
    BY <1>1, <1>2, <1>3 DEF Aim, Early, Live
  <2>3. Trading(u)' /\ Nearing(u)'
    BY <1>1, <1>2, <1>3, <2>2 DEF Trading, Nearing, Busy
  <2>4. Ordered(u)' /\ Answering(u)'
    BY <1>1, <1>2, <1>3, <2>2 DEF Ordered, Answering, Settled, Early
  <2> QED  BY <2>1, <2>3, <2>4 DEF Sound
<1>6. Merging' /\ Reducing' /\ Claiming'
  <2>1. first = NoSymbol
    BY <1>2 DEF DInv, Typed, TypeOK, Merging
  <2> QED
    BY <1>1, <1>2, <1>3, <2>1 DEF DInv, Merging, CleanedIsReported, Reducing,
       ReducedFirst, Claiming
<1> QED  BY <1>4, <1>5, <1>6 DEF DInv

(* The pool is left when every thread has ended, and the first stop speaks *)
(* for all.                                                                *)
LEMMA JoinKeeps ==
  ASSUME DInv, Join
  PROVE  DInv'
<1> DEFINE S == IF main = "reducing" THEN one ELSE two
           T == {s \in S : th[s].pc # "idle"}
<1>1. /\ main \in {"reducing", "increasing"} /\ Fine
      /\ UNCHANGED <<pos, target, ord, asked, expired, th, first, one, two>>
      /\ T = At(T, "result") \cup At(T, "terminated") \cup At(T, "recovery")
      /\ \/ main' = "failed" /\ rec' = [NoRecord EXCEPT !.status = "failed"]
            /\ UNCHANGED got
         \/ /\ At(T, "terminated") # {} /\ main' = "terminated"
            /\ rec' = Merge(At(T, "terminated")) /\ UNCHANGED got
         \/ /\ At(T, "terminated") = {} /\ At(T, "recovery") = {}
            /\ main' = IF main = "reducing" THEN "two" ELSE "output"
            /\ got' = [s \in Symbols |-> got[s] \cup IF s \in T THEN {th[s].res} ELSE {}]
            /\ UNCHANGED rec
  BY DEF Join, EngineOnly, account, stop
<1>2. /\ \A s \in Symbols : th[s] \in ThreadType
      /\ one \subseteq Symbols /\ two \subseteq Symbols /\ S \subseteq Symbols
      /\ got \in [Symbols -> SUBSET Answers] /\ rec \in RecordType
  BY DEF DInv, Typed, TypeOK, Answers, Success
<1>3. \A s \in Symbols : th[s].pc \in Over /\ (s \notin S => th[s].pc \in {"idle", "result"})
  <2>1. ASSUME NEW s \in Symbols, s \in T
        PROVE  th[s].pc \in Over
    BY <1>1, <2>1 DEF At, Over
  <2>2. ASSUME NEW s \in Symbols, s \notin T
        PROVE  th[s].pc \in Over /\ (s \notin S => th[s].pc \in {"idle", "result"})
    BY <1>1, <2>2 DEF DInv, Sound, Pooled, Over
  <2>3. T \subseteq S
    OBVIOUS
  <2> QED  BY <2>1, <2>2, <2>3
<1> HIDE DEF S
<1>4. CASE main' = "failed" /\ rec' = [NoRecord EXCEPT !.status = "failed"] /\ UNCHANGED got
  <2>1. rec' \in RecordType
    BY <1>4, NoRecordTyped DEF Answers
  <2>2. Typed'
    BY <1>1, <1>2, <1>4, <2>1, EngineTyped DEF DInv, Typed, TypeOK, Ended, stop
  <2> QED  BY <1>1, <1>3, <1>4, <2>2, EndsKeep DEF account, stop
<1>5. CASE /\ At(T, "terminated") # {} /\ main' = "terminated"
           /\ rec' = Merge(At(T, "terminated")) /\ UNCHANGED got
  <2> DEFINE R == At(T, "terminated")
  <2>1. first \in Symbols /\ th[first].pc = "terminated" /\ R \subseteq Symbols
        /\ R = {s \in Symbols : th[s].pc = "terminated"}
    <3>1. R = {s \in Symbols : th[s].pc = "terminated"}
      BY <1>2, <1>3 DEF At
    <3>2. PICK s \in Symbols : th[s].pc = "terminated"
      BY <1>5, <3>1
    <3>3. first # NoSymbol
      BY <3>2 DEF DInv, Sound, Stopping
    <3> QED  BY <3>1, <3>3 DEF DInv, Typed, TypeOK, Merging
  <2> DEFINE t == IF \E s \in R : th[s].tried = "yes" THEN "yes"
                  ELSE IF \A s \in R : th[s].tried = "no" THEN "no" ELSE "none"
             F == {s \in R : th[s].failed}
             q == \E s \in R : th[s].unsure
  <2>2. Merge(R) = Terminated(th[first].by, t, F, q)
    BY DEF Merge
  <2>3. /\ t \in {"none", "yes", "no"} /\ F \in SUBSET Symbols /\ q \in BOOLEAN
        /\ th[first].by \in Trigger
    BY <1>2, <2>1 DEF ThreadType
  <2>4. F = {s \in R : th[s].failed} /\ q = (\E s \in R : th[s].unsure)
    OBVIOUS
  <2> HIDE DEF t, F, q
  <2>5. /\ rec' \in RecordType /\ rec'.by = th[first].by
        /\ rec'.failed = F /\ rec'.unsure = q
    BY <1>5, <2>2, <2>3, TerminatedTyped
  <2>6. Typed'
    BY <1>1, <1>2, <1>5, <2>5, EngineTyped DEF DInv, Typed, TypeOK, Ended, stop
  <2>7. Due(rec.by)'
    BY <1>1, <2>1, <2>5 DEF DInv, Sound, Stopping, Due
  <2>8. CleanedIsReported'
    <3> SUFFICES ASSUME NEW s \in Symbols, th[s].tried # "none", Live(s)
                 PROVE  s \in rec'.failed \/ rec'.unsure
      BY <1>1 DEF CleanedIsReported, Live
    <3>1. th[s].pc = "terminated" /\ (th[s].failed \/ th[s].unsure)
      BY <1>3 DEF DInv, Sound, Tidying, Over
    <3> QED  BY <2>1, <2>4, <2>5, <3>1
  <2> QED  BY <1>1, <1>3, <1>5, <2>6, <2>7, <2>8, EndsKeep DEF account, stop
<1>6. CASE /\ At(T, "terminated") = {} /\ At(T, "recovery") = {}
           /\ main' = IF main = "reducing" THEN "two" ELSE "output"
           /\ got' = [s \in Symbols |-> got[s] \cup IF s \in T THEN {th[s].res} ELSE {}]
           /\ UNCHANGED rec
  <2>1. \A s \in T : s \in Symbols /\ th[s].pc = "result"
    BY <1>1, <1>2, <1>6 DEF At
  <2>2. \A s \in Symbols : /\ th[s].pc \in {"idle", "result"}
                           /\ s \in T <=> s \in S /\ th[s].pc = "result"
    BY <1>3, <2>1
  <2>3. th[first].pc \in {"idle", "result"} \/ first = NoSymbol
    BY <2>2 DEF DInv, Typed, TypeOK
  <2>4. first = NoSymbol
    BY <2>3 DEF DInv, Merging
  <2>5. got' \in [Symbols -> SUBSET Answers]
    <3>1. \A s \in T : th[s].res \in Answers
      BY <2>1 DEF DInv, Sound, Answering
    <3> QED  BY <1>2, <1>6, <3>1
  <2>6. Typed'
    BY <1>1, <1>2, <1>6, <2>5, EngineTyped DEF DInv, Typed, TypeOK, Ended, stop
  <2>7. ASSUME NEW u \in Symbols
        PROVE  Sound(u)'
    <3>1. CASE main = "reducing"
      <4>1. main' = "two" /\ S = one
        BY <1>6, <3>1 DEF S
      <4>2. u \in one <=> th[u].pc = "result"
        BY <2>2, <3>1, <4>1 DEF DInv, Sound, Pooled
      <4>3. Aim(u)' = Aim(u) /\ Live(u)' = Live(u)
        BY <1>1, <3>1, <4>1 DEF Aim, Live
      <4>4. got'[u] = got[u] \cup IF u \in T THEN {th[u].res} ELSE {}
        BY <1>6
      <4>5. Pooled(u)' /\ Trading(u)' /\ Nearing(u)'
        BY <1>1, <2>2, <4>1, <4>2 DEF Pooled, Trading, Nearing, Early, Ended, Busy
      <4>6. Ordered(u)'
        BY <1>1, <3>1, <4>1, <4>3 DEF DInv, Sound, Ordered, Early
      <4>7. Stopping(u)' /\ Tidying(u)'
        BY <1>1, <2>2, <4>1 DEF DInv, Sound, Stopping, Tidying, Leaving
      <4>8. u \notin two => Settled(u)'
        <5>1. CASE u \in one
          <6>1. th[u].res \in got'[u]
            BY <2>2, <4>1, <4>2, <4>4, <5>1
          <6>2. u \notin two => Aim(u) = target[u]
            BY DEF Aim
          <6>3. th[u].res \in Success => pos[u] = Aim(u) /\ ~Live(u)
            BY <3>1, <4>2, <5>1 DEF DInv, Sound, Answering
          <6> QED  BY <1>1, <4>3, <6>1, <6>2, <6>3 DEF Settled
        <5>2. CASE u \notin one
          <6>1. u \notin T
            BY <2>2, <4>2, <5>2
          <6> QED
            BY <1>1, <3>1, <4>3, <4>4, <5>2, <6>1 DEF DInv, Sound, Answering, Settled
        <5> QED  BY <5>1, <5>2
      <4>9. Answering(u)'
        BY <1>1, <2>2, <3>1, <4>1, <4>2, <4>3, <4>4, <4>8
        DEF DInv, Sound, Answering
      <4> QED  BY <4>5, <4>6, <4>7, <4>9 DEF Sound
    <3>2. CASE main = "increasing"
      <4>1. main' = "output" /\ S = two
        BY <1>6, <3>2 DEF S
      <4>2. Live(u)' = Live(u)
        BY <1>1 DEF Live
      <4>3. got'[u] = got[u] \cup IF u \in T THEN {th[u].res} ELSE {}
        BY <1>6
      <4>4. Pooled(u)' /\ Trading(u)' /\ Nearing(u)'
        BY <1>1, <2>2, <4>1 DEF Pooled, Trading, Nearing, Early, Ended, Busy
      <4>5. Ordered(u)' /\ Stopping(u)' /\ Tidying(u)'
        BY <1>1, <2>2, <4>1 DEF DInv, Sound, Ordered, Stopping, Tidying, Leaving, Early
      <4>6. Settled(u)'
        <5>1. CASE u \in two /\ th[u].pc = "result"
          <6>1. th[u].res \in got'[u]
            BY <2>2, <4>1, <4>3, <5>1
          <6>2. th[u].res \in Success => pos[u] = target[u] /\ ~Live(u)
            BY <3>2, <5>1 DEF DInv, Sound, Answering, Aim, Early
          <6> QED  BY <1>1, <4>2, <6>1, <6>2 DEF Settled
        <5>2. CASE u \in two /\ th[u].pc = "idle"
          <6>1. "failed" \in got'[u]
            BY <3>2, <4>3, <5>2 DEF DInv, Sound, Pooled
          <6> QED  BY <6>1 DEF Settled, Success
        <5>3. CASE u \notin two
          <6>1. u \notin T
            BY <2>2, <4>1, <5>3
          <6> QED
            BY <1>1, <3>2, <4>2, <4>3, <5>3, <6>1 DEF DInv, Sound, Answering, Settled
        <5> QED  BY <2>2, <5>1, <5>2, <5>3
      <4>7. Answering(u)'
        BY <1>1, <4>1, <4>6 DEF DInv, Sound, Answering
      <4> QED  BY <4>4, <4>5, <4>7 DEF Sound
    <3> QED  BY <1>1, <3>1, <3>2
  <2>8. Merging' /\ Reducing' /\ Claiming'
    BY <1>1, <1>6, <2>4 DEF DInv, Merging, CleanedIsReported, Reducing,
       ReducedFirst, Claiming, Live
  <2> QED  BY <2>6, <2>7, <2>8 DEF DInv
<1> QED  BY <1>1, <1>4, <1>5, <1>6

(* Before phase two: every symbol of phase one has its result, and no      *)
(* order of the run is alive where all went well.                          *)
LEMMA BetweenPhases ==
  ASSUME DInv, main = "two"
  PROVE  /\ first = NoSymbol
         /\ \A u \in Symbols :
              /\ th[u].pc \in {"idle", "result"} /\ th[u].tried = "none"
              /\ u \in one <=> th[u].pc = "result"
              /\ ord[u].side # "increase"
              /\ u \in one => th[u].res \in got[u]
              /\ u \notin two => Settled(u)
              /\ ~OneFailed => ~Live(u) /\ (u \in one => pos[u] = Aim(u))
<1>1. ASSUME NEW u \in Symbols
      PROVE  /\ th[u].pc \in {"idle", "result"} /\ th[u].tried = "none"
             /\ u \in one <=> th[u].pc = "result"
             /\ ord[u].side # "increase"
             /\ u \in one => th[u].res \in got[u]
             /\ u \notin two => Settled(u)
  BY CallingOver DEF DInv, Sound, Pooled, Ordered, Answering
<1>2. ASSUME NEW u \in Symbols, ~OneFailed
      PROVE  ~Live(u) /\ (u \in one => pos[u] = Aim(u))
  <2>1. CASE u \in one
    BY <1>1, <1>2, <2>1 DEF OneFailed, DInv, Sound, Answering
  <2>2. CASE u \notin one
    BY <2>2 DEF DInv, Sound, Ordered, Live
  <2> QED  BY <2>1, <2>2
<1>3. first = NoSymbol
  <2>1. first \in Symbols => th[first].pc # "terminated"
    BY <1>1
  <2> QED  BY <2>1 DEF DInv, Typed, TypeOK, Merging
<1> QED  BY <1>1, <1>2, <1>3

(* A phase two that is skipped blocks its symbols.                         *)
LEMMA SkipTwoKeeps ==
  ASSUME DInv, SkipTwo
  PROVE  DInv'
<1>1. /\ main = "two" /\ main' = "output" /\ Fine /\ (two = {} \/ OneFailed)
      /\ UNCHANGED <<pos, target, ord, asked, expired, th, first, one, two, rec>>
      /\ got' = [s \in Symbols |-> got[s] \cup IF s \in two THEN {"blocked"} ELSE {}]
  BY DEF SkipTwo, EngineOnly, account, stop
<1>2. got' \in [Symbols -> SUBSET Answers]
  BY <1>1 DEF DInv, Typed, TypeOK, Answers, Success
<1>3. Typed'
  BY <1>1, <1>2, EngineTyped DEF DInv, Typed, TypeOK, Ended, stop
<1>4. ASSUME NEW u \in Symbols
      PROVE  Sound(u)'
  <2>1. Pooled(u)' /\ Trading(u)' /\ Nearing(u)' /\ Ordered(u)'
    BY <1>1, BetweenPhases DEF Pooled, Trading, Nearing, Ordered, Early, Ended, Busy
  <2>2. Settled(u)'
    <3>1. got'[u] = got[u] \cup IF u \in two THEN {"blocked"} ELSE {}
      BY <1>1
    <3>2. CASE u \in two
      BY <3>1, <3>2 DEF Settled, Success
    <3>3. CASE u \notin two
      BY <1>1, <3>1, <3>3, BetweenPhases DEF Settled, Live
    <3> QED  BY <3>2, <3>3
  <2>3. Answering(u)'
    BY <1>1, <2>2 DEF DInv, Sound, Answering
  <2>4. Stopping(u)' /\ Tidying(u)'
    BY <1>1, BetweenPhases DEF Stopping, Tidying, Leaving
  <2> QED  BY <2>1, <2>3, <2>4 DEF Sound
<1>5. Merging' /\ Reducing' /\ Claiming'
  BY <1>1, BetweenPhases DEF DInv, Merging, CleanedIsReported, Reducing,
     ReducedFirst, Claiming
<1> QED  BY <1>3, <1>4, <1>5 DEF DInv

(* Phase two starts with every reduction at its target and a change of     *)
(* side at nothing.                                                        *)
LEMMA PhaseTwoKeeps ==
  ASSUME DInv, PhaseTwo
  PROVE  DInv'
<1>1. PICK lost \in SUBSET two, small \in SUBSET two :
        /\ Fine \/ Faulty
        /\ target' = [s \in Symbols |-> IF s \in small THEN 0 ELSE target[s]]
        /\ got' = [s \in Symbols |-> got[s] \cup IF s \in lost THEN {"failed"} ELSE {}]
        /\ th' = [s \in Symbols |-> IF s \in two \ lost THEN Thread(target'[s])
                                    ELSE IF s \in lost THEN NoThread ELSE th[s]]
        /\ main' = IF two \subseteq lost THEN "output" ELSE "increasing"
  BY DEF PhaseTwo
<1>2. /\ main = "two" /\ ~OneFailed
      /\ UNCHANGED <<pos, ord, asked, expired, first, one, two, rec>>
  BY DEF PhaseTwo, stop
<1>3. target' \in [Symbols -> Int] /\ got' \in [Symbols -> SUBSET Answers]
  BY <1>1 DEF DInv, Typed, TypeOK, Answers, Success
<1>4. /\ th' \in [Symbols -> ThreadType]
      /\ \A u \in Symbols :
           /\ u \in two \ lost => /\ th'[u].pc = "queued" /\ th'[u].goal = target'[u]
                                  /\ th'[u].seen /\ th'[u].tried = "none"
           /\ u \in lost => th'[u].pc = "idle" /\ th'[u].tried = "none"
           /\ u \notin two => th'[u] = th[u] /\ target'[u] = target[u]
                              /\ got'[u] = got[u]
           /\ u \in lost => "failed" \in got'[u]
  <2>1. NoThread.pc = "idle" /\ NoThread.tried = "none"
    BY DEF NoThread
  <2> QED
    BY <1>1, <1>3, <2>1, ThreadTyped, NoThreadTyped DEF DInv, Typed
<1>5. Typed'
  BY <1>1, <1>2, <1>3, <1>4, EngineTyped DEF DInv, Typed, TypeOK, Ended, stop
<1>6. ASSUME NEW u \in Symbols
      PROVE  Sound(u)'
  <2>1. ~Live(u)' /\ ~Live(u)
    BY <1>2, BetweenPhases DEF Live
  <2>2. /\ th[u].pc \in {"idle", "result"} /\ (u \in one <=> th[u].pc = "result")
        /\ th[u].tried = "none"
    BY <1>2, BetweenPhases
  <2>3. u \in one => pos[u] = IF u \in two THEN 0 ELSE target[u]
    BY <1>2, BetweenPhases DEF Aim
  <2>4. main' \in {"output", "increasing"} /\ Aim(u)' = target'[u]
    BY <1>1 DEF Aim, Early
  <2>5. main' = "output" => two \subseteq lost
    BY <1>1
  <2>6. Pooled(u)'
    BY <1>2, <1>4, <2>2, <2>4, <2>5 DEF Pooled, Early, Ended
  <2>7. Trading(u)'
    BY <1>4, <2>1, <2>2, <2>4 DEF Trading, Busy
  <2>8. Nearing(u)'
    <3>1. target'[u] \in Int
      BY <1>3
    <3> QED
      BY <1>2, <1>4, <2>2, <2>3, <2>4, <3>1 DEF Nearing, Within, Busy
  <2>9. Ordered(u)'
    BY <1>2, <1>4, <2>1, <2>3, <2>4 DEF Ordered, Early
  <2>10. u \notin two => Settled(u)'
    BY <1>2, <1>4, <2>1, BetweenPhases DEF Settled
  <2>11. u \in lost => Settled(u)'
    BY <1>4 DEF Settled, Success
  <2>12. Answering(u)'
    <3>1. th'[u].pc = "result" => u \in one /\ u \notin two /\ th'[u] = th[u]
      BY <1>4, <2>2
    <3>2. th[u].pc = "result" => th[u].res \in Answers
      BY DEF DInv, Sound, Answering
    <3> QED
      BY <1>2, <1>4, <2>1, <2>3, <2>4, <2>5, <2>10, <2>11, <3>1, <3>2 DEF Answering
  <2>13. Stopping(u)' /\ Tidying(u)'
    BY <1>2, <1>4, <2>2 DEF Stopping, Tidying, Leaving
  <2> QED  BY <2>6, <2>7, <2>8, <2>9, <2>12, <2>13 DEF Sound
<1>7. Merging' /\ Reducing' /\ Claiming'
  BY <1>1, <1>2, BetweenPhases DEF DInv, Merging, CleanedIsReported, Reducing,
     ReducedFirst, Claiming
<1> QED  BY <1>5, <1>6, <1>7 DEF DInv

-----------------------------------------------------------------------------
(* A run starts without orders, threads or stops.                          *)
LEMMA InitHoldsDInv == Init => DInv
<1> SUFFICES ASSUME Init PROVE DInv
  OBVIOUS
<1>1. PICK w \in Worlds : /\ pos = [s \in Symbols |-> w[s].pos]
                          /\ target = [s \in Symbols |-> w[s].target]
  BY DEF Init
<1>2. pos \in [Symbols -> Int] /\ target \in [Symbols -> Int]
  BY <1>1, DispatchAssumption
<1>3. NoThread.pc = "idle" /\ NoThread.tried = "none"
  BY DEF NoThread
<1>4. NoOrder \in OrderType /\ NoOrder.st = "none" /\ NoOrder.side = "none"
  BY DEF NoOrder, OrderType
<1>5. NoRecord \in RecordType
  BY DEF NoRecord, NoStop, RecordType, Trigger
<1>6. TypeOK
  BY <1>2, <1>4, DispatchAssumption DEF Init, TypeOK, OrderType, Ended
<1>7. Typed
  BY <1>5, <1>6, NoThreadTyped DEF Init, Typed
<1>8. ASSUME NEW u \in Symbols
      PROVE  Sound(u)
  <2>1. th[u] = NoThread /\ ord[u] = NoOrder /\ main = "plan"
    BY DEF Init
  <2>2. Pooled(u) /\ Trading(u) /\ Nearing(u) /\ Ordered(u)
    BY <1>3, <1>4, <2>1
    DEF Pooled, Trading, Nearing, Ordered, Early, Busy, Ended, Live
  <2>3. Answering(u) /\ Stopping(u) /\ Tidying(u)
    BY <1>3, <2>1 DEF Answering, Stopping, Tidying, Leaving
  <2> QED  BY <2>2, <2>3 DEF Sound
<1>9. Merging /\ Reducing /\ Claiming
  BY <1>4 DEF Init, Merging, CleanedIsReported, Reducing, ReducedFirst, Claiming
<1> QED  BY <1>7, <1>8, <1>9 DEF DInv

(* The invariant is inductive.                                             *)
LEMMA StepKeepsDInv == DInv /\ [Next]_vars => DInv'
<1> SUFFICES ASSUME DInv, [Next]_vars PROVE DInv'
  OBVIOUS
<1>1. CASE Ask \/ Expire
  BY <1>1, AskKeeps, ExpireKeeps
<1>2. ASSUME NEW s \in Symbols, Fill(s) \/ EndOrder(s) \/ Report(s)
      PROVE  DInv'
  BY <1>2, FillKeeps, EndOrderKeeps, ReportKeeps
<1>3. ASSUME NEW s \in Symbols, ThreadNext(s)
      PROVE  DInv'
  <2>1. CASE Begin(s) \/ Read(s) \/ Submit(s) \/ Place(s) \/ Wait(s)
    BY <2>1, BeginKeeps, ReadKeeps, SubmitKeeps, PlaceKeeps, WaitKeeps
  <2>2. CASE GiveUp(s) \/ Confirm(s) \/ Final(s) \/ Recovery(s)
    BY <2>2, GiveUpKeeps, ConfirmKeeps, FinalKeeps, RecoveryKeeps
  <2>3. CASE Stops(s)
    BY <2>3, SessionStopKeeps, GuardStopKeeps, CleanQueryKeeps,
       CleanCancelKeeps, CleanVerifyKeeps DEF Stops
  <2> QED  BY <1>3, <2>1, <2>2, <2>3 DEF ThreadNext
<1>4. CASE Plan \/ Prepare \/ PhaseOne \/ SkipTwo \/ PhaseTwo
  BY <1>4, PlanKeeps, PrepareKeeps, PhaseOneKeeps, SkipTwoKeeps, PhaseTwoKeeps
<1>5. CASE Join \/ Output \/ EngineStop \/ EngineFails
  BY <1>5, JoinKeeps, OutputKeeps, EngineStopKeeps, EngineFailsKeeps
<1>6. CASE UNCHANGED vars
  <2> USE <1>6 DEF vars, account, stop, engine
  <2>1. Typed' /\ Merging' /\ Reducing' /\ Claiming'
    BY DEF DInv, Typed, TypeOK, Merging, CleanedIsReported, Due, Reducing,
       ReducedFirst, Claiming, Live
  <2>2. \A u \in Symbols : Sound(u)'
    BY OthersKeep DEF DInv
  <2> QED  BY <2>1, <2>2 DEF DInv
<1> QED  BY <1>1, <1>2, <1>3, <1>4, <1>5, <1>6 DEF Next

(* The invariant holds in every behaviour.                                 *)
LEMMA DispatchInvariance == Spec => []DInv
  BY InitHoldsDInv, StepKeepsDInv, PTL DEF Spec

(* Every value the run keeps is one that the code may have there, its      *)
(* threads and its record included.                                        *)
THEOREM TypeCorrect == Spec => []TypeOK
<1>1. DInv => TypeOK
  BY DEF DInv, Typed
<1> QED  BY DispatchInvariance, <1>1, PTL

(* No order that increases a position is placed before everything that was *)
(* to be reduced has been, whatever fills, fails and stops meanwhile: a    *)
(* thread of phase one never crosses its goal (Nearing), it says that it   *)
(* succeeded only at that goal and without a live order (Trading), and the *)
(* engine enters phase two only when each of them says so.                 *)
THEOREM ReductionsComeFirst == Spec => []ReducedFirst
<1>1. DInv => ReducedFirst
  BY DEF DInv, Reducing
<1> QED  BY DispatchInvariance, <1>1, PTL

(* A run that is recorded as successful stands at its targets, and nothing *)
(* of it is left at the exchange that could change that.                   *)
THEOREM SuccessesAreTrue == Spec => []SuccessIsTrue
<1>1. DInv => SuccessIsTrue
  BY DEF DInv, Sound, Answering, Settled, Claiming, SuccessIsTrue
<1> QED  BY DispatchInvariance, <1>1, PTL

(* The record of a terminated run names each order that a withdrawal left  *)
(* alive, or calls its withdrawals unconfirmed, however many sessions were *)
(* stopped and in whatever order they ended.                               *)
THEOREM WithdrawalsAreReported == Spec => []CleanedIsReported
<1>1. DInv => CleanedIsReported
  BY DEF DInv, Merging
<1> QED  BY DispatchInvariance, <1>1, PTL

(* A stop is neither swallowed by results nor ascribed to somebody else.   *)
THEOREM StopsAreRecorded == Spec => []StopIsRecorded
<1>1. DInv => StopIsRecorded
  <2> SUFFICES ASSUME DInv PROVE StopIsRecorded
    OBVIOUS
  <2>1. main = "done" => At(Symbols, "terminated") = {}
    BY DEF DInv, Sound, Pooled, At
  <2>2. main = "terminated" =>
          /\ asked = "none" => expired # "no" /\ rec.by.trigger = "timeout"
          /\ asked # "none" /\ expired # "first" =>
               rec.by = [trigger |-> "operator", mode |-> asked]
    BY DEF DInv, Merging, Due
  <2> QED  BY <2>1, <2>2 DEF StopIsRecorded
<1> QED  BY DispatchInvariance, <1>1, PTL

=============================================================================
