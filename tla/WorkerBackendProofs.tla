------------------------- MODULE WorkerBackendProofs -------------------------
(***************************************************************************)
(* The worker backend, for every set of threads and every choice of plans  *)
(* and bounds: a request is under way in one place at a time and is        *)
(* carried out at most once, an order command that timed out drops no      *)
(* worker under another request, a stop reaches the run it was meant for,  *)
(* and the whole of it implements the ledger of requests.                  *)
(*                                                                         *)
(* The invariant has two layers.  WInv is about the commands of the two    *)
(* pipes of a handle: a step of a thread either goes on with its request   *)
(* (Moves) or ends it (Concludes), what every such step does to the        *)
(* requests of the others is proved once, in the lemmas on Around, and     *)
(* cited by the actions.  OInv is about the channel of the order commands: *)
(* a step either leaves what is on it alone (Aside), or is the exchange of *)
(* the thread that has its lock (Exchanges), or is one of the worker's     *)
(* order thread (OrderThreadKeeps).                                        *)
(***************************************************************************)
EXTENDS WorkerBackend, TLAPS

-----------------------------------------------------------------------------
(* What is under way on the three pipes of a handle.                       *)
Sent(h)     == Range(pipe[h].to)
Answered(h) == Range(pipe[h].from)
Wishes(h)   == Range(pipe[h].ctl)

Killing == {"kill_end", "kill_pop", "kill"}
Pcs == Killing \cup
  {"idle", "get", "lock", "send", "wait", "order_bind", "order_lock",
   "order_drain", "order_send", "order_wait", "order_late", "dispose",
   "dispose_lock", "dispose_wait", "dispose_close", "dispose_join"}

Place == 1..MaxAsks
AnyRequest == Threads \X (0..MaxAsks)
Ways == {"answered", "terminated"}
Ends == {"answered", "terminated", "done", "failed", "mismatch", "refused",
         "unconfirmed"}
AnswerType == [id : AnyRequest, how : Ways, ready : BOOLEAN, restart : BOOLEAN]

WorkerType ==
  worker \in [Handles -> [up : BOOLEAN, req : AnyRequest \cup {NoRequest},
                          active : Threads \cup {NoThread}, stop : BOOLEAN,
                          pending : SUBSET Threads, ready : BOOLEAN]]
PipeType ==
  pipe \in [Handles -> [to : Seq(AnyRequest), from : Seq(AnswerType),
                        ctl : Seq(Threads)]]
CallType ==
  call \in [Threads -> [pc : Pcs, at : Nat \ {0}, h : 0..MaxHandles,
                        told : BOOLEAN,
                        end : {"none", "failed", "answered", "unconfirmed"}]]
ResultType ==
  /\ result \in [Request -> Ends \cup {"none"}]
  /\ begun \in [Request -> Nat]
  /\ carried \subseteq Request \X Ways
TableType ==
  /\ plan \in Plans /\ workers \in 0..MaxHandles /\ made \in 0..MaxHandles
  /\ stopped \subseteq Runs /\ faults \in 0..MaxFaults
HandleType ==
  handle \in [Handles -> [lock : Threads \cup {NoThread}, retired : BOOLEAN,
                          open : BOOLEAN, bound : 0..MaxHandles]]
SessionType ==
  session \in [inst : 0..MaxHandles, on : 0..MaxHandles, ended : BOOLEAN,
               ready : BOOLEAN]
Typed ==
  /\ TableType /\ HandleType /\ SessionType /\ WorkerType /\ PipeType
  /\ CallType /\ ResultType

(* The request of t is on its way, or its worker is being dropped for it.  *)
Out(t) == call[t].pc \in Killing \cup {"wait"}

(* Nothing is under way on a handle that was not made yet.                 *)
Unmade ==
  /\ workers <= made
  /\ \A t \in Threads : On(t) <= made
  /\ \A h \in Handles :
       h > made => Sent(h) = {} /\ ~worker[h].up /\ worker[h].req = NoRequest

(* Where a thread is says what it asks, and how its requests so far ended. *)
PlacedAt(t) ==
  /\ call[t].pc # "idle" => ~Finished(t)
  /\ call[t].pc \notin {"idle", "get"} => On(t) \in Handles
  /\ call[t].pc \in {"lock", "send", "wait"} => Ask(t) # "order"
  /\ call[t].told => Out(t)
  /\ call[t].end = "answered" =>
       call[t].pc \in Killing /\ <<Id(t), "answered">> \in carried
  /\ call[t].pc \in Killing => call[t].end # "none"
  /\ \A k \in Place : result[<<t, k>>] # "none" => k < call[t].at
  /\ t \in Runs => \A k \in Place :
       result[<<t, k>>] \notin {"none", "answered"} => Finished(t)
Placed == \A t \in Threads : PlacedAt(t)

(* Who has the request lock of a handle.                                   *)
Late(t) == call[t].pc \in Killing /\ Ask(t) = "order"
Locks(t) == call[t].pc \in {"send", "wait", "dispose_wait"} \/ Late(t)
Locking ==
  /\ \A t \in Threads : Locks(t) => handle[On(t)].lock = t
  /\ \A t \in Threads, u \in Runs :
       Late(t) /\ u # t /\ On(u) = On(t) => call[u].pc \notin Killing

(* The order commands have a channel of their own.                         *)
ForOrder(r) == r[2] <= Len(plan[r[1]]) /\ plan[r[1]][r[2]] = "order"

(* A request reaches one worker, once, and is answered after it came to    *)
(* its end there; one that outlives its thread was reported as mismatched. *)
Underway(r, h) == r \in Sent(h) \/ worker[h].req = r
Carries(r) == \E how \in Ways : <<r, how>> \in carried
OnceFor(t, k) ==
  /\ begun[<<t, k>>] = 0 => ~Carries(<<t, k>>)
  /\ begun[<<t, k>>] # 0 /\ ~ForOrder(<<t, k>>) =>
       k < call[t].at \/ (k = call[t].at /\ Out(t))
  /\ \A h \in Handles : Underway(<<t, k>>, h) =>
       /\ ~ForOrder(<<t, k>>)
       /\ k < call[t].at => result[<<t, k>>] = "mismatch"
       /\ k >= call[t].at => k = call[t].at /\ On(t) = h /\ Out(t)
       /\ ~Carries(<<t, k>>)
       /\ \A g \in Handles : Underway(<<t, k>>, g) => g = h
       /\ <<t, k>> \in Sent(h) => begun[<<t, k>>] = 0
       /\ worker[h].req = <<t, k>> => begun[<<t, k>>] = 1
Once == \A t \in Threads, k \in Place : OnceFor(t, k)

NoRepeats(s) ==
  \A i, j \in 1..Len(s) : s[i] = s[j] /\ s[i] \in Request => i = j
Answering ==
  \A h \in Handles :
    /\ NoRepeats(pipe[h].to)
    /\ \A a \in Answered(h) :
         /\ a.id \in Request => <<a.id, a.how>> \in carried
         /\ a.restart => a.how = "answered"

(* A worker that is stopped carries out the run that was asked to stop.    *)
StopsOwn(h) ==
  LET w == worker[h]
  IN  /\ w.req # NoRequest => w.up
      /\ w.active # NoThread =>
           w.active \in Runs /\ \E k \in Place : w.req = <<w.active, k>>
      /\ \A t \in Runs, k \in Place :
           w.req = <<t, k>> /\ Stoppable(<<t, k>>) => w.active = t
      /\ w.stop => w.active \in stopped
      /\ w.pending \subseteq stopped
      /\ Wishes(h) \subseteq stopped
Stopping == \A h \in Handles : StopsOwn(h)

(* A wish to stop that was passed on is on the pipe, or kept by the worker *)
(* until the command of its run comes, or has set the event of the run.    *)
Heard(t) ==
  LET h == On(t)
      w == worker[h]
  IN  t \in Wishes(h) \/
      /\ t \in stopped
      /\ Id(t) \in Sent(h) /\ w.up => t \in w.pending
      /\ w.req = Id(t) /\ Stoppable(Id(t)) => w.stop
PassedOn ==
  \A t \in Threads : call[t].pc = "wait" /\ call[t].told => Heard(t)

WInv ==
  /\ Typed /\ Unmade /\ Placed /\ Locking /\ Once /\ Answering
  /\ Stopping /\ PassedOn

-----------------------------------------------------------------------------
(* The channel of the order commands.                                      *)
Channel == [open : BOOLEAN, lock : Threads \cup {NoThread},
            pending : Request \cup {NoRequest}, to : Seq(Request),
            from : Seq(Request), serving : Request \cup {NoRequest}]
OrdersType == orders \in [Handles -> Channel]

AtOrders == {"order_drain", "order_send", "order_wait"}
OrderPcs == AtOrders \cup {"order_bind", "order_lock", "order_late"}
Sending(t) == call[t].pc \in Killing \cup {"order_wait", "order_late"}
Disposing == {"dispose", "dispose_lock", "dispose_wait", "dispose_close",
              "dispose_join"}

(* The handle in the table can be used, unless its worker died; and a      *)
(* worker that is up has its channel open.                                 *)
Tabled ==
  /\ workers # NoHandle => handle[workers].open /\ ~handle[workers].retired
  /\ \A t \in Threads :
       call[t].pc \in Disposing \cup {"kill"} => On(t) # workers
  /\ \A h \in Handles :
       /\ h > made => ~handle[h].retired
       /\ worker[h].up => orders[h].open

(* On its channel there is nothing but the command that is pending: on its *)
(* way, at the worker, or on its way back.                                 *)
Empty(h) ==
  /\ orders[h].to = <<>> /\ orders[h].from = <<>>
  /\ orders[h].serving = NoRequest
OnTheWay(h) ==
  /\ orders[h].to = <<orders[h].pending>> /\ orders[h].from = <<>>
  /\ orders[h].serving = NoRequest
  /\ begun[orders[h].pending] = 0
AtWork(h) ==
  /\ orders[h].to = <<>> /\ orders[h].from = <<>>
  /\ orders[h].serving = orders[h].pending
  /\ begun[orders[h].pending] = 1 /\ ~Carries(orders[h].pending)
Back(h) ==
  /\ orders[h].to = <<>> /\ orders[h].from = <<orders[h].pending>>
  /\ orders[h].serving = NoRequest
  /\ <<orders[h].pending, "answered">> \in carried

(* The command that is pending was sent on one channel, and whoever sent   *)
(* it waits, or was told that it is unconfirmed as long as the worker may  *)
(* still carry it out.                                                     *)
PendingAt(h, t, k) ==
  /\ h <= made /\ ForOrder(<<t, k>>) /\ k <= call[t].at
  /\ k = call[t].at => On(t) = h /\ Sending(t)
  /\ k < call[t].at /\ worker[h].up /\ ~Empty(h) =>
       result[<<t, k>>] = "unconfirmed"
  /\ \A g \in Handles : orders[g].pending = <<t, k>> => g = h
Pending ==
  \A h \in Handles :
    /\ Empty(h) \/ ( orders[h].pending # NoRequest
                     /\ (OnTheWay(h) \/ AtWork(h) \/ Back(h)) )
    /\ \A t \in Threads, k \in Place :
         orders[h].pending = <<t, k>> => PendingAt(h, t, k)

(* Who has the lock of a channel, and what is pending then.                *)
Seat(t) ==
  /\ call[t].pc \in OrderPcs => Ask(t) = "order"
  /\ call[t].pc \in AtOrders => orders[On(t)].lock = t
  /\ call[t].pc = "order_send" => orders[On(t)].pending = NoRequest
  /\ call[t].pc = "order_wait" => orders[On(t)].pending = Id(t)
Seats == \A t \in Threads : Seat(t)

(* No worker has started on an order command that was not sent.            *)
Unsent(t, k) ==
  ForOrder(<<t, k>>) /\ (k > call[t].at \/ (k = call[t].at /\ ~Sending(t)))
    => begun[<<t, k>>] = 0
Fresh == \A t \in Threads, k \in Place : Unsent(t, k)

OInv == OrdersType /\ Tabled /\ Pending /\ Seats /\ Fresh

BInv == WInv /\ OInv

-----------------------------------------------------------------------------
(* What is on a pipe after a message was put at its end.                   *)
LEMMA RangeOfAppend ==
  ASSUME NEW S, NEW s \in Seq(S), NEW e \in S
  PROVE  Append(s, e) \in Seq(S) /\ Range(Append(s, e)) = Range(s) \cup {e}
<1> DEFINE a == Append(s, e)
<1>1. /\ Len(s) \in Nat /\ Len(a) = Len(s) + 1
      /\ DOMAIN a = 1..Len(a) /\ DOMAIN s = 1..Len(s)
  OBVIOUS
<1>2. \A i \in 1..Len(s) : a[i] = s[i]
  OBVIOUS
<1>3. a[Len(s) + 1] = e /\ a \in Seq(S)
  OBVIOUS
<1> HIDE DEF a
<1>4. Range(a) = Range(s) \cup {e}
  BY <1>1, <1>2, <1>3 DEF Range
<1> QED  BY <1>3, <1>4 DEF a

(* The first message of a pipe, and what is on the pipe without it.        *)
LEMMA RangeOfTail ==
  ASSUME NEW S, NEW s \in Seq(S), s # <<>>
  PROVE  /\ Head(s) \in S /\ Tail(s) \in Seq(S)
         /\ Range(s) = Range(Tail(s)) \cup {Head(s)}
<1> DEFINE u == Tail(s)
<1>1. /\ u \in Seq(S) /\ Len(u) = Len(s) - 1 /\ Len(s) \in Nat \ {0}
      /\ DOMAIN u = 1..Len(u) /\ DOMAIN s = 1..Len(s)
  OBVIOUS
<1>2. \A i \in 1..Len(u) : u[i] = s[i + 1]
  OBVIOUS
<1>3. Head(s) = s[1] /\ s[1] \in S
  OBVIOUS
<1>4. \A i \in 1..Len(s) : i = 1 \/ i - 1 \in 1..Len(u)
  BY <1>1
<1>5. \A i \in 1..Len(s) : i = 1 \/ s[i] = u[i - 1]
  BY <1>1, <1>2, <1>4
<1> HIDE DEF u
<1>6. Range(s) \subseteq Range(u) \cup {Head(s)}
  <2> SUFFICES ASSUME NEW x \in Range(s)
               PROVE  x \in Range(u) \/ x = Head(s)
    OBVIOUS
  <2>1. PICK i \in 1..Len(s) : x = s[i]
    BY <1>1 DEF Range
  <2>2. CASE i = 1
    BY <2>1, <2>2, <1>3
  <2>3. CASE i # 1
    <3>1. i - 1 \in 1..Len(u) /\ x = u[i - 1]
      BY <2>1, <2>3, <1>4, <1>5
    <3> QED  BY <3>1, <1>1 DEF Range
  <2> QED  BY <2>2, <2>3
<1>7. Range(u) \subseteq Range(s) /\ Head(s) \in Range(s)
  BY <1>1, <1>2, <1>3 DEF Range
<1> QED  BY <1>1, <1>3, <1>6, <1>7 DEF u

(* An empty pipe carries nothing.                                          *)
LEMMA RangeOfEmpty == Range(<<>>) = {} /\ \A S : <<>> \in Seq(S)
  BY DEF Range

(* No request is sent twice when one is sent that is not on its way.       *)
LEMMA RepeatsAppend ==
  ASSUME NEW s \in Seq(AnyRequest), NEW e \in AnyRequest, NoRepeats(s),
         e \notin Range(s)
  PROVE  NoRepeats(Append(s, e))
<1> DEFINE a == Append(s, e)
<1>1. Len(a) = Len(s) + 1 /\ DOMAIN s = 1..Len(s) /\ Len(s) \in Nat
  OBVIOUS
<1>2. \A i \in 1..Len(s) : a[i] = s[i]
  OBVIOUS
<1>3. a[Len(s) + 1] = e
  OBVIOUS
<1>4. \A i \in 1..Len(s) : s[i] # e
  BY <1>1 DEF Range
<1> HIDE DEF a
<1>5. NoRepeats(a)
  BY <1>1, <1>2, <1>3, <1>4 DEF NoRepeats
<1> QED  BY <1>5 DEF a

(* A shutdown may be sent as often as anybody likes: it is no request.     *)
LEMMA RepeatsAppendOther ==
  ASSUME NEW s \in Seq(AnyRequest), NEW e \in AnyRequest \ Request,
         NoRepeats(s)
  PROVE  NoRepeats(Append(s, e))
<1> DEFINE a == Append(s, e)
<1>1. Len(a) = Len(s) + 1 /\ Len(s) \in Nat
  OBVIOUS
<1>2. \A i \in 1..Len(s) : a[i] = s[i]
  OBVIOUS
<1>3. a[Len(s) + 1] = e
  OBVIOUS
<1> HIDE DEF a
<1>4. NoRepeats(a)
  BY <1>1, <1>2, <1>3 DEF NoRepeats
<1> QED  BY <1>4 DEF a

(* A request that was taken from the pipe is not on it any more.           *)
LEMMA RepeatsTail ==
  ASSUME NEW s \in Seq(AnyRequest), s # <<>>, NoRepeats(s)
  PROVE  /\ NoRepeats(Tail(s))
         /\ Head(s) \in Request => Head(s) \notin Range(Tail(s))
<1> DEFINE u == Tail(s)
<1>1. /\ Len(u) = Len(s) - 1 /\ DOMAIN u = 1..Len(u)
      /\ Len(s) \in Nat \ {0} /\ Head(s) = s[1]
  OBVIOUS
<1>2. \A i \in 1..Len(u) : u[i] = s[i + 1]
  OBVIOUS
<1> HIDE DEF u
<1>3. NoRepeats(u)
  BY <1>1, <1>2 DEF NoRepeats
<1>4. Head(s) \in Request => Head(s) \notin Range(u)
  BY <1>1, <1>2 DEF NoRepeats, Range
<1> QED  BY <1>3, <1>4 DEF u

(* A pipe with no messages repeats none.                                   *)
LEMMA RepeatsEmpty == NoRepeats(<<>>)
  BY DEF NoRepeats

-----------------------------------------------------------------------------
(* The pipes of a handle keep what they carry.                             *)
SamePipe(h) ==
  /\ Sent(h)' = Sent(h) /\ Answered(h)' = Answered(h)
  /\ Wishes(h)' = Wishes(h) /\ pipe'[h].to = pipe[h].to

(* A command is put on its pipe.                                           *)
LEMMA PutTo ==
  ASSUME PipeType, NEW h \in Handles, NEW e \in AnyRequest,
         pipe' = [pipe EXCEPT ![h].to = Append(@, e)]
  PROVE  /\ PipeType' /\ \A g \in Handles \ {h} : SamePipe(g)
         /\ Sent(h)' = Sent(h) \cup {e}
         /\ Answered(h)' = Answered(h) /\ Wishes(h)' = Wishes(h)
         /\ NoRepeats(pipe[h].to) /\ (e \notin Sent(h) \/ e \notin Request)
              => NoRepeats(pipe'[h].to)
<1>1. pipe[h].to \in Seq(AnyRequest)
  BY DEF PipeType
<1>2. /\ pipe'[h].to = Append(pipe[h].to, e)
      /\ pipe'[h].from = pipe[h].from /\ pipe'[h].ctl = pipe[h].ctl
      /\ \A g \in Handles \ {h} : pipe'[g] = pipe[g]
  BY DEF PipeType
<1>3. Append(pipe[h].to, e) \in Seq(AnyRequest)
  BY <1>1
<1>4. PipeType'
  BY <1>3 DEF PipeType
<1>5. Sent(h)' = Sent(h) \cup {e}
  BY <1>1, <1>2, RangeOfAppend DEF Sent
<1>6. NoRepeats(pipe[h].to) /\ (e \notin Sent(h) \/ e \notin Request)
        => NoRepeats(pipe'[h].to)
  BY <1>1, <1>2, RepeatsAppend, RepeatsAppendOther DEF Sent
<1> QED
  BY <1>2, <1>4, <1>5, <1>6 DEF SamePipe, Sent, Answered, Wishes

(* A command is taken from its pipe.                                       *)
LEMMA TakeTo ==
  ASSUME PipeType, NEW h \in Handles, pipe[h].to # <<>>,
         pipe' = [pipe EXCEPT ![h].to = Tail(@)]
  PROVE  /\ PipeType' /\ \A g \in Handles \ {h} : SamePipe(g)
         /\ Head(pipe[h].to) \in AnyRequest
         /\ Sent(h) = Sent(h)' \cup {Head(pipe[h].to)}
         /\ Answered(h)' = Answered(h) /\ Wishes(h)' = Wishes(h)
         /\ NoRepeats(pipe[h].to) =>
              /\ NoRepeats(pipe'[h].to)
              /\ Head(pipe[h].to) \in Request => Head(pipe[h].to) \notin Sent(h)'
<1>1. pipe[h].to \in Seq(AnyRequest)
  BY DEF PipeType
<1>2. /\ pipe'[h].to = Tail(pipe[h].to)
      /\ pipe'[h].from = pipe[h].from /\ pipe'[h].ctl = pipe[h].ctl
      /\ \A g \in Handles \ {h} : pipe'[g] = pipe[g]
  BY DEF PipeType
<1>3. /\ Tail(pipe[h].to) \in Seq(AnyRequest)
      /\ Head(pipe[h].to) \in AnyRequest
      /\ Range(pipe[h].to) = Range(Tail(pipe[h].to)) \cup {Head(pipe[h].to)}
  BY <1>1, RangeOfTail
<1>4. PipeType'
  BY <1>3 DEF PipeType
<1>5. NoRepeats(pipe[h].to) =>
              /\ NoRepeats(Tail(pipe[h].to))
              /\ Head(pipe[h].to) \in Request =>
                   Head(pipe[h].to) \notin Range(Tail(pipe[h].to))
  BY <1>1, RepeatsTail
<1> QED
  BY <1>2, <1>3, <1>4, <1>5 DEF SamePipe, Sent, Answered, Wishes

(* An answer is put on its pipe.                                           *)
LEMMA PutFrom ==
  ASSUME PipeType, NEW h \in Handles, NEW a \in AnswerType,
         pipe' = [pipe EXCEPT ![h].from = Append(@, a)]
  PROVE  /\ PipeType' /\ \A g \in Handles \ {h} : SamePipe(g)
         /\ Answered(h)' = Answered(h) \cup {a}
         /\ Sent(h)' = Sent(h) /\ Wishes(h)' = Wishes(h)
         /\ pipe'[h].to = pipe[h].to
<1>1. pipe[h].from \in Seq(AnswerType)
  BY DEF PipeType
<1>2. /\ pipe'[h].from = Append(pipe[h].from, a)
      /\ pipe'[h].to = pipe[h].to /\ pipe'[h].ctl = pipe[h].ctl
      /\ \A g \in Handles \ {h} : pipe'[g] = pipe[g]
  BY DEF PipeType
<1>3. /\ Append(pipe[h].from, a) \in Seq(AnswerType)
      /\ Range(Append(pipe[h].from, a)) = Range(pipe[h].from) \cup {a}
  BY <1>1, RangeOfAppend
<1>4. PipeType'
  BY <1>3 DEF PipeType
<1> QED  BY <1>2, <1>3, <1>4 DEF SamePipe, Sent, Answered, Wishes

(* An answer is taken from its pipe.                                       *)
LEMMA TakeFrom ==
  ASSUME PipeType, NEW h \in Handles, pipe[h].from # <<>>,
         pipe' = [pipe EXCEPT ![h].from = Tail(@)]
  PROVE  /\ PipeType' /\ \A g \in Handles \ {h} : SamePipe(g)
         /\ Head(pipe[h].from) \in AnswerType
         /\ Answered(h) = Answered(h)' \cup {Head(pipe[h].from)}
         /\ Sent(h)' = Sent(h) /\ Wishes(h)' = Wishes(h)
         /\ pipe'[h].to = pipe[h].to
<1>1. pipe[h].from \in Seq(AnswerType)
  BY DEF PipeType
<1>2. /\ pipe'[h].from = Tail(pipe[h].from)
      /\ pipe'[h].to = pipe[h].to /\ pipe'[h].ctl = pipe[h].ctl
      /\ \A g \in Handles \ {h} : pipe'[g] = pipe[g]
  BY DEF PipeType
<1>3. /\ Tail(pipe[h].from) \in Seq(AnswerType)
      /\ Head(pipe[h].from) \in AnswerType
      /\ Range(pipe[h].from) =
           Range(Tail(pipe[h].from)) \cup {Head(pipe[h].from)}
  BY <1>1, RangeOfTail
<1>4. PipeType'
  BY <1>3 DEF PipeType
<1> QED  BY <1>2, <1>3, <1>4 DEF SamePipe, Sent, Answered, Wishes

(* A wish to stop is put on its pipe.                                      *)
LEMMA PutCtl ==
  ASSUME PipeType, NEW h \in Handles, NEW t \in Threads,
         pipe' = [pipe EXCEPT ![h].ctl = Append(@, t)]
  PROVE  /\ PipeType' /\ \A g \in Handles \ {h} : SamePipe(g)
         /\ Wishes(h)' = Wishes(h) \cup {t}
         /\ Sent(h)' = Sent(h) /\ Answered(h)' = Answered(h)
         /\ pipe'[h].to = pipe[h].to
<1>1. pipe[h].ctl \in Seq(Threads)
  BY DEF PipeType
<1>2. /\ pipe'[h].ctl = Append(pipe[h].ctl, t)
      /\ pipe'[h].to = pipe[h].to /\ pipe'[h].from = pipe[h].from
      /\ \A g \in Handles \ {h} : pipe'[g] = pipe[g]
  BY DEF PipeType
<1>3. /\ Append(pipe[h].ctl, t) \in Seq(Threads)
      /\ Range(Append(pipe[h].ctl, t)) = Range(pipe[h].ctl) \cup {t}
  BY <1>1, RangeOfAppend
<1>4. PipeType'
  BY <1>3 DEF PipeType
<1> QED  BY <1>2, <1>3, <1>4 DEF SamePipe, Sent, Answered, Wishes

(* A wish to stop is taken from its pipe.                                  *)
LEMMA TakeCtl ==
  ASSUME PipeType, NEW h \in Handles, pipe[h].ctl # <<>>,
         pipe' = [pipe EXCEPT ![h].ctl = Tail(@)]
  PROVE  /\ PipeType' /\ \A g \in Handles \ {h} : SamePipe(g)
         /\ Head(pipe[h].ctl) \in Threads
         /\ Wishes(h) = Wishes(h)' \cup {Head(pipe[h].ctl)}
         /\ Sent(h)' = Sent(h) /\ Answered(h)' = Answered(h)
         /\ pipe'[h].to = pipe[h].to
<1>1. pipe[h].ctl \in Seq(Threads)
  BY DEF PipeType
<1>2. /\ pipe'[h].ctl = Tail(pipe[h].ctl)
      /\ pipe'[h].to = pipe[h].to /\ pipe'[h].from = pipe[h].from
      /\ \A g \in Handles \ {h} : pipe'[g] = pipe[g]
  BY DEF PipeType
<1>3. /\ Tail(pipe[h].ctl) \in Seq(Threads)
      /\ Head(pipe[h].ctl) \in Threads
      /\ Range(pipe[h].ctl) =
           Range(Tail(pipe[h].ctl)) \cup {Head(pipe[h].ctl)}
  BY <1>1, RangeOfTail
<1>4. PipeType'
  BY <1>3 DEF PipeType
<1> QED  BY <1>2, <1>3, <1>4 DEF SamePipe, Sent, Answered, Wishes

(* The pipes of a worker that is gone are empty.                           *)
LEMMA PipeEmptied ==
  ASSUME PipeType, NEW h \in Handles, pipe' = [pipe EXCEPT ![h] = Emptied]
  PROVE  /\ PipeType' /\ \A g \in Handles \ {h} : SamePipe(g)
         /\ Sent(h)' = {} /\ Answered(h)' = {} /\ Wishes(h)' = {}
         /\ NoRepeats(pipe'[h].to)
<1>1. /\ pipe'[h].to = <<>> /\ pipe'[h].from = <<>> /\ pipe'[h].ctl = <<>>
      /\ \A g \in Handles \ {h} : pipe'[g] = pipe[g]
  BY DEF PipeType, Emptied
<1>2. PipeType'
  BY RangeOfEmpty DEF PipeType, Emptied
<1> QED
  BY <1>1, <1>2, RangeOfEmpty, RepeatsEmpty DEF SamePipe, Sent, Answered,
     Wishes

(* What was on its way to a worker that died is lost.                      *)
LEMMA PipeLost ==
  ASSUME PipeType, NEW h \in Handles,
         pipe' = [pipe EXCEPT ![h].to = <<>>, ![h].ctl = <<>>]
  PROVE  /\ PipeType' /\ \A g \in Handles \ {h} : SamePipe(g)
         /\ Sent(h)' = {} /\ Answered(h)' = Answered(h) /\ Wishes(h)' = {}
         /\ NoRepeats(pipe'[h].to)
<1>1. /\ pipe'[h].to = <<>> /\ pipe'[h].from = pipe[h].from
      /\ pipe'[h].ctl = <<>>
      /\ \A g \in Handles \ {h} : pipe'[g] = pipe[g]
  BY DEF PipeType
<1>2. PipeType'
  BY RangeOfEmpty DEF PipeType
<1> QED
  BY <1>1, <1>2, RangeOfEmpty, RepeatsEmpty DEF SamePipe, Sent, Answered,
     Wishes

(* Pipes that nobody touches.                                              *)
LEMMA PipeSame ==
  ASSUME pipe' = pipe
  PROVE  (PipeType => PipeType') /\ \A g \in Handles : SamePipe(g)
  BY DEF PipeType, SamePipe, Sent, Answered, Wishes

-----------------------------------------------------------------------------
(* A thread that is not done asks something, by a name of its own.         *)
LEMMA PlanFacts ==
  ASSUME Typed, NEW t \in Threads, ~Finished(t)
  PROVE  /\ call[t].at \in Place /\ Ask(t) \in Asks
         /\ Id(t) = <<t, call[t].at>> /\ Id(t) \in Request
         /\ Len(plan[t]) \in Nat
<1>1. plan[t] \in Seq(Asks) /\ Len(plan[t]) \in Nat /\ Len(plan[t]) <= MaxAsks
  BY PlanAssumption DEF Typed, TableType
<1>2. call[t].at \in 1..Len(plan[t])
  BY <1>1 DEF Typed, CallType, Finished
<1>3. call[t].at \in Place
  BY <1>1, <1>2, PlanAssumption DEF Place
<1>4. Ask(t) \in Asks
  BY <1>1, <1>2 DEF Ask
<1> QED  BY <1>1, <1>3, <1>4 DEF Id, Request, Place

(* A thread is where it was.                                               *)
SameThread(u) ==
  /\ On(u)' = On(u) /\ Ask(u)' = Ask(u) /\ Id(u)' = Id(u)
  /\ Finished(u)' = Finished(u) /\ Out(u)' = Out(u)
  /\ Late(u)' = Late(u) /\ Locks(u)' = Locks(u)

(* What is said of a thread rests on its plan and on its call.             *)
LEMMA ThreadSame ==
  ASSUME plan' = plan
  PROVE  /\ Runs' = Runs
         /\ \A r : /\ Stoppable(r)' <=> Stoppable(r)
                   /\ ForOrder(r)' <=> ForOrder(r)
         /\ \A u : call'[u] = call[u] => SameThread(u)
         /\ \A u : call'[u].at = call[u].at =>
              Ask(u)' = Ask(u) /\ Id(u)' = Id(u) /\ Finished(u)' = Finished(u)
<1>1. Runs' = Runs
  BY DEF Runs
<1>2. \A r : /\ Stoppable(r)' <=> Stoppable(r)
             /\ ForOrder(r)' <=> ForOrder(r)
  BY <1>1 DEF Stoppable, ForOrder
<1>3. /\ \A u : call'[u] = call[u] => SameThread(u)
      /\ \A u : call'[u].at = call[u].at =>
           Ask(u)' = Ask(u) /\ Id(u)' = Id(u) /\ Finished(u)' = Finished(u)
  BY DEF SameThread, On, Ask, Id, Finished, Out, Late, Locks
<1> QED  BY <1>1, <1>2, <1>3

(* A handle keeps its worker and what is on its way to it, or loses both,  *)
(* or gets its worker; answers may be taken.                               *)
Kept(h) ==
  /\ worker'[h] = worker[h]
  /\ Sent(h)' = Sent(h) /\ Wishes(h)' = Wishes(h)
Lost(h) ==
  /\ worker'[h] = Gone(worker[h])
  /\ Sent(h)' = {} /\ Wishes(h)' = {}
Woken(h) ==
  /\ worker[h].req = NoRequest /\ Sent(h) = {}
  /\ worker'[h] = [worker[h] EXCEPT !.up = TRUE]
  /\ Sent(h)' = {} /\ Wishes(h)' = Wishes(h)
Quiet(h) ==
  /\ Kept(h) \/ Lost(h) \/ (Woken(h) /\ h <= made')
  /\ Answered(h)' \subseteq Answered(h)
  /\ NoRepeats(pipe[h].to) => NoRepeats(pipe'[h].to)

(* Nothing but t moves, and no worker goes on.                             *)
Others(t) == plan' = plan /\ \A u \in Threads \ {t} : call'[u] = call[u]
Around(t) ==
  /\ Others(t) /\ stopped' = stopped
  /\ made' \in Nat /\ made <= made' /\ workers' <= made'
  /\ t \in Threads => On(t)' <= made'
  /\ \A h \in Handles : Quiet(h)

(* t goes on with its request.                                             *)
Moves(t) ==
  /\ Around(t)
  /\ call'[t].at = call[t].at
  /\ result' = result /\ begun' = begun /\ carried' = carried
  /\ Out(t) => Out(t)' /\ On(t)' = On(t)
  /\ call'[t].pc = "wait" /\ call'[t].told =>
       call[t].pc = "wait" /\ call[t].told

(* A worker that is gone does nothing.                                     *)
LEMMA GoneFacts ==
  ASSUME WorkerType, NEW h \in Handles, Lost(h)
  PROVE  /\ ~worker'[h].up /\ worker'[h].req = NoRequest
         /\ worker'[h].active = NoThread /\ ~worker'[h].stop
         /\ worker'[h].pending = {}
  BY DEF WorkerType, Lost, Gone

(* A worker that is started has nothing to do.                             *)
LEMMA WokenFacts ==
  ASSUME WorkerType, NEW h \in Handles, Woken(h)
  PROVE  /\ worker'[h].up /\ worker'[h].req = NoRequest
         /\ worker'[h].active = worker[h].active
         /\ worker'[h].stop = worker[h].stop
         /\ worker'[h].pending = worker[h].pending
  BY DEF WorkerType, Woken

(* Nothing is put on a handle that was not made yet.                       *)
LEMMA AroundUnmade ==
  ASSUME WInv, NEW t, Around(t)
  PROVE  Unmade'
<1> USE DEF WInv, Typed, Around, Others, Unmade
<1>0. made \in Nat /\ made' \in Nat /\ made <= made' /\ Handles \subseteq Nat
  BY PlanAssumption DEF TableType, Handles
<1>1. \A u \in Threads : On(u)' <= made'
  BY <1>0, PlanAssumption DEF On, CallType
<1>2. ASSUME NEW h \in Handles, h > made'
      PROVE  Sent(h)' = {} /\ ~worker'[h].up /\ worker'[h].req = NoRequest
  <2>1. h > made /\ ~(h <= made')
    BY <1>0, <1>2
  <2> QED  BY <2>1, GoneFacts DEF Quiet, Kept, Lost
<1> QED  BY <1>1, <1>2

(* No answer is made up, and no command doubled.                           *)
LEMMA AroundAnswering ==
  ASSUME WInv, NEW t, Around(t), carried \subseteq carried'
  PROVE  Answering'
  BY DEF WInv, Around, Answering, Quiet

(* The workers know of no other stops than before.                         *)
LEMMA AroundStopping ==
  ASSUME WInv, NEW t, Around(t)
  PROVE  Stopping'
<1> USE DEF WInv, Typed, Around, Others
<1>0. Runs' = Runs /\ \A r : Stoppable(r)' <=> Stoppable(r)
  BY ThreadSame
<1>1. ASSUME NEW h \in Handles, Kept(h) PROVE StopsOwn(h)'
  BY <1>0, <1>1 DEF Kept, Stopping, StopsOwn
<1>2. ASSUME NEW h \in Handles, Lost(h) PROVE StopsOwn(h)'
  BY <1>2, GoneFacts, PlanAssumption DEF Lost, StopsOwn, NoRequest
<1>3. ASSUME NEW h \in Handles, Woken(h) PROVE StopsOwn(h)'
  BY <1>0, <1>3, WokenFacts DEF Woken, Stopping, StopsOwn
<1> QED  BY <1>1, <1>2, <1>3 DEF Quiet, Stopping

(* No request comes on its way, or to a worker, that was not there.        *)
LEMMA AroundUnderway ==
  ASSUME WInv, NEW t, Around(t), NEW u \in Threads,
         NEW k \in Place, NEW h \in Handles
  PROVE  /\ Underway(<<u, k>>, h)' => Underway(<<u, k>>, h)
         /\ <<u, k>> \in Sent(h)' => <<u, k>> \in Sent(h)
         /\ worker'[h].req = <<u, k>> => worker[h].req = <<u, k>>
<1> USE DEF WInv, Typed, Around, Quiet, Underway
<1>1. CASE Kept(h)
  BY <1>1 DEF Kept
<1>2. CASE Lost(h)
  BY <1>2, GoneFacts, PlanAssumption DEF Lost, NoRequest
<1>3. CASE Woken(h)
  BY <1>3, WokenFacts DEF Woken
<1> QED  BY <1>1, <1>2, <1>3

(* A stop that reached the worker of u is still there when t moves.        *)
LEMMA AroundHeard ==
  ASSUME WInv, NEW t, Around(t), NEW u \in Threads,
         On(u)' = On(u), Id(u)' = Id(u), On(u) \in Handles, Heard(u)
  PROVE  Heard(u)'
<1> DEFINE h == On(u)
<1> USE DEF WInv, Typed, Around, Others
<1>0. /\ u \in stopped /\ Id(u) # NoRequest
      /\ Stoppable(Id(u))' <=> Stoppable(Id(u))
  BY PlanAssumption, ThreadSame DEF Heard, Stopping, StopsOwn, Id, NoRequest,
     Stoppable
<1>1. CASE Kept(h)
  BY <1>0, <1>1 DEF Heard, Kept
<1>2. CASE Lost(h)
  BY <1>0, <1>2, GoneFacts DEF Heard, Lost
<1>3. CASE Woken(h)
  BY <1>0, <1>3, WokenFacts DEF Heard, Woken
<1> QED  BY <1>1, <1>2, <1>3 DEF Quiet

(* A request of t stays what it was when t goes on with it.                *)
LEMMA MovesOnce ==
  ASSUME WInv, NEW t, Moves(t)
  PROVE  Once'
<1> SUFFICES ASSUME NEW u \in Threads, NEW k \in Place
             PROVE  OnceFor(u, k)'
  BY DEF Once
<1>0. OnceFor(u, k)
  BY DEF WInv, Once
<1>1. /\ call'[u].at = call[u].at /\ (Out(u) => Out(u)' /\ On(u)' = On(u))
      /\ result' = result /\ begun' = begun
      /\ Carries(<<u, k>>)' = Carries(<<u, k>>)
      /\ ForOrder(<<u, k>>)' <=> ForOrder(<<u, k>>)
  BY ThreadSame DEF Moves, Around, Others, Out, On, Carries
<1>2. \A h \in Handles :
        /\ Underway(<<u, k>>, h)' => Underway(<<u, k>>, h)
        /\ <<u, k>> \in Sent(h)' => <<u, k>> \in Sent(h)
        /\ worker'[h].req = <<u, k>> => worker[h].req = <<u, k>>
  BY AroundUnderway DEF Moves
<1> QED  BY <1>0, <1>1, <1>2 DEF OnceFor

(* So does a stop that was passed on.                                      *)
LEMMA MovesPassedOn ==
  ASSUME WInv, NEW t, Moves(t)
  PROVE  PassedOn'
<1> SUFFICES ASSUME NEW u \in Threads, call'[u].pc = "wait", call'[u].told
             PROVE  Heard(u)'
  BY DEF PassedOn
<1>1. call[u].pc = "wait" /\ call[u].told
  BY DEF Moves, Around, Others
<1>2. On(u)' = On(u) /\ Id(u)' = Id(u)
  BY <1>1 DEF Moves, Around, Others, Out, On, Id
<1>3. On(u) \in Handles /\ Heard(u)
  BY <1>1 DEF WInv, Placed, PlacedAt, PassedOn
<1> QED  BY <1>2, <1>3, AroundHeard DEF Moves

(* The other threads stay where they are.                                  *)
LEMMA OthersPlaced ==
  ASSUME WInv, NEW t \in Threads, Others(t), PlacedAt(t)',
         carried \subseteq carried',
         \A u \in Threads \ {t}, k \in Place :
           result'[<<u, k>>] = result[<<u, k>>]
  PROVE  Placed'
<1> SUFFICES ASSUME NEW u \in Threads \ {t} PROVE PlacedAt(u)'
  BY DEF Placed
<1>1. Runs' = Runs /\ SameThread(u) /\ call'[u] = call[u]
  BY ThreadSame DEF Others
<1>2. PlacedAt(u)
  BY DEF WInv, Placed
<1> QED  BY <1>1, <1>2 DEF PlacedAt, SameThread

(* Nobody loses a lock to t, and no run starts to drop a worker that an    *)
(* order command drops.                                                    *)
LEMMA OthersLocking ==
  ASSUME WInv, NEW t \in Threads, Others(t),
         \A h \in Handles : \/ handle'[h].lock = handle[h].lock
                            \/ handle[h].lock \in {t, NoThread},
         Locks(t)' => handle'[On(t)'].lock = t,
         Late(t)' => \A u \in Runs \ {t} :
                       On(u) = On(t)' => call[u].pc \notin Killing,
         t \in Runs /\ call'[t].pc \in Killing =>
            /\ On(t)' = On(t)
            /\ Locks(t) \/ call[t].pc \in Killing
            \/ handle[On(t)'].lock = NoThread
  PROVE  Locking'
<1> USE DEF WInv, Locking
<1>1. Runs' = Runs /\ Runs \subseteq Threads
  BY ThreadSame DEF Others, Runs
<1>2. \A u \in Threads \ {t} : SameThread(u) /\ call'[u] = call[u]
  BY ThreadSame DEF Others
<1>3. \A u \in Threads : Locks(u) => On(u) \in Handles
  BY DEF Placed, PlacedAt, Locks, Late, Killing
<1>4. ASSUME NEW u \in Threads, Locks(u)' PROVE handle'[On(u)'].lock = u
  <2>1. CASE u # t
    <3>1. Locks(u) /\ On(u)' = On(u)
      BY <1>2, <1>4, <2>1 DEF SameThread
    <3> QED  BY <1>3, <2>1, <3>1, PlanAssumption
  <2> QED  BY <1>4, <2>1
<1>5. ASSUME NEW u \in Threads, NEW v \in Runs, Late(u)', v # u,
             On(v)' = On(u)'
      PROVE  call'[v].pc \notin Killing
  <2>1. CASE u = t
    BY <1>1, <1>2, <1>5, <2>1 DEF SameThread
  <2>2. CASE u # t /\ v # t
    BY <1>1, <1>2, <1>5, <2>2 DEF SameThread
  <2>3. CASE v = t
    <3>1. Late(u) /\ On(u)' = On(u) /\ Locks(u)
      BY <1>2, <1>5, <2>3 DEF SameThread, Locks
    <3>2. handle[On(u)].lock = u
      BY <3>1
    <3> QED  BY <1>5, <2>3, <3>1, <3>2, PlanAssumption
  <2> QED  BY <2>1, <2>2, <2>3
<1> QED  BY <1>1, <1>4, <1>5

(* What holds when t goes on with its request, given where it is then and  *)
(* who has the locks.                                                      *)
LEMMA MovesKeep ==
  ASSUME WInv, NEW t \in Threads, Moves(t), Typed', PlacedAt(t)', Locking'
  PROVE  WInv'
<1>1. Unmade' /\ Answering' /\ Stopping'
  BY AroundUnmade, AroundAnswering, AroundStopping DEF Moves
<1>2. Once' /\ PassedOn'
  BY MovesOnce, MovesPassedOn
<1>3. Placed'
  BY OthersPlaced DEF Moves, Around
<1> QED  BY <1>1, <1>2, <1>3 DEF WInv

-----------------------------------------------------------------------------
(* t has its answer, or will not get one.                                  *)
Concludes(t, how) ==
  Around(t) /\ ~Finished(t) /\ how \in Ends /\ End(t, how)

(* Where a thread is that has done with a request.                         *)
LEMMA EndFacts ==
  ASSUME WInv, NEW t \in Threads, NEW how \in Ends, ~Finished(t),
         End(t, how), plan' = plan
  PROVE  /\ call'[t].pc = "idle" /\ On(t)' = NoHandle /\ ~call'[t].told
         /\ call'[t].end = "none" /\ call'[t].at \in Nat
         /\ call'[t].at > call[t].at
         /\ t \in Runs /\ how # "answered" => Finished(t)'
         /\ result'[Id(t)] = how
         /\ \A r \in Request \ {Id(t)} : result'[r] = result[r]
         /\ \A u \in Threads \ {t} : call'[u] = call[u]
         /\ CallType' /\ result' \in [Request -> Ends \cup {"none"}]
<1>1. /\ Len(plan[t]) \in Nat /\ call[t].at \in Nat \ {0}
      /\ call[t].at <= Len(plan[t])
      /\ Id(t) \in Request
  BY PlanFacts DEF WInv, Typed, CallType, Finished
<1>2. /\ call' = [call EXCEPT ![t] =
            [pc |-> "idle", h |-> NoHandle, told |-> FALSE, end |-> "none",
             at |-> IF t \in Runs /\ how # "answered"
                    THEN Len(plan[t]) + 1 ELSE call[t].at + 1]]
      /\ result' = [result EXCEPT ![Id(t)] = how]
  BY DEF WInv, Typed, CallType, End
<1>3. /\ call'[t] =
            [pc |-> "idle", h |-> NoHandle, told |-> FALSE, end |-> "none",
             at |-> IF t \in Runs /\ how # "answered"
                    THEN Len(plan[t]) + 1 ELSE call[t].at + 1]
  BY <1>2 DEF WInv, Typed, CallType
<1>4. CallType'
  <2>1. call'[t] \in [pc : Pcs, at : Nat \ {0}, h : 0..MaxHandles,
                      told : BOOLEAN,
                      end : {"none", "failed", "answered", "unconfirmed"}]
    BY <1>1, <1>3, PlanAssumption DEF Pcs, NoHandle
  <2> QED  BY <1>2, <2>1 DEF WInv, Typed, CallType
<1>5. t \in Runs /\ how # "answered" => Finished(t)'
  BY <1>1, <1>3 DEF Finished
<1>6. /\ result'[Id(t)] = how
      /\ \A r \in Request \ {Id(t)} : result'[r] = result[r]
      /\ result' \in [Request -> Ends \cup {"none"}]
  BY <1>1, <1>2 DEF WInv, Typed, ResultType
<1>7. \A u \in Threads \ {t} : call'[u] = call[u]
  BY <1>2 DEF WInv, Typed, CallType
<1> QED  BY <1>1, <1>3, <1>4, <1>5, <1>6, <1>7 DEF On

(* The same of a step that ends a request.                                 *)
LEMMA ConcludesFacts ==
  ASSUME WInv, NEW t \in Threads, NEW how, Concludes(t, how)
  PROVE  /\ call'[t].pc = "idle" /\ On(t)' = NoHandle /\ ~call'[t].told
         /\ call'[t].end = "none" /\ call'[t].at \in Nat
         /\ call'[t].at > call[t].at
         /\ t \in Runs /\ how # "answered" => Finished(t)'
         /\ result'[Id(t)] = how
         /\ \A r \in Request \ {Id(t)} : result'[r] = result[r]
         /\ CallType' /\ result' \in [Request -> Ends \cup {"none"}]
  BY EndFacts DEF Concludes, Around, Others

(* A request that is over has its end in the result, and no other.         *)
LEMMA ConcludesPlaced ==
  ASSUME WInv, NEW t \in Threads, NEW how, Concludes(t, how),
         carried \subseteq carried'
  PROVE  Placed'
<1>1. Id(t) = <<t, call[t].at>> /\ Id(t) \in Request /\ call[t].at \in Place
  BY PlanFacts DEF WInv, Concludes
<1>2. /\ \A u \in Threads, k \in Place : <<u, k>> \in Request
      /\ Runs' = Runs
  BY ThreadSame DEF Request, Place, Concludes, Around, Others
<1>3. \A u \in Threads \ {t}, k \in Place :
        result'[<<u, k>>] = result[<<u, k>>]
  <2> TAKE u \in Threads \ {t}, k \in Place
  <2>1. <<u, k>> \in Request \ {Id(t)}
    BY <1>1, <1>2
  <2> QED  BY <2>1, ConcludesFacts
<1>4. PlacedAt(t) /\ ~Finished(t)
  BY DEF WInv, Placed, Concludes
<1>5. ASSUME NEW k \in Place
      PROVE  /\ result'[<<t, k>>] # "none" => k < call'[t].at
             /\ t \in Runs /\ result'[<<t, k>>] \notin {"none", "answered"} =>
                  Finished(t)'
  <2>1. CASE k = call[t].at
    BY <1>1, <2>1, ConcludesFacts
  <2>2. CASE k # call[t].at
    <3>1. result'[<<t, k>>] = result[<<t, k>>]
      BY <1>1, <1>2, <2>2, ConcludesFacts
    <3>2. call[t].at \in Nat /\ call'[t].at \in Nat /\ k \in Nat
      BY ConcludesFacts, <1>1, PlanAssumption DEF Place
    <3> QED  BY <3>1, <3>2, <1>4, ConcludesFacts DEF PlacedAt
  <2> QED  BY <2>1, <2>2
<1>6. PlacedAt(t)'
  <2>1. call'[t].pc = "idle" /\ ~call'[t].told /\ call'[t].end = "none"
    BY ConcludesFacts
  <2> QED  BY <2>1, <1>2, <1>5, ConcludesFacts DEF PlacedAt, Killing
<1> QED  BY <1>3, <1>6, OthersPlaced DEF Concludes, Around

(* A request is on its way, or at its worker, after a step.                *)
Remains(r, h) == r \in Sent(h)' \/ worker'[h].req = r

(* A request that is over is not on its way, unless an answer to another   *)
(* one was taken for its failure.                                          *)
LEMMA ConcludesOnce ==
  ASSUME WInv, NEW t \in Threads, NEW how, Concludes(t, how),
         begun' = begun, carried' = carried,
         \A h \in Handles : Remains(Id(t), h) => how = "mismatch"
  PROVE  Once'
<1> SUFFICES ASSUME NEW u \in Threads, NEW k \in Place
             PROVE  OnceFor(u, k)'
  BY DEF Once
<1>0. OnceFor(u, k)
  BY DEF WInv, Once
<1>1. Id(t) = <<t, call[t].at>> /\ Id(t) \in Request /\ call[t].at \in Place
  BY PlanFacts DEF WInv, Concludes
<1>2. \A h \in Handles :
        /\ Underway(<<u, k>>, h)' => Underway(<<u, k>>, h)
        /\ <<u, k>> \in Sent(h)' => <<u, k>> \in Sent(h)
        /\ worker'[h].req = <<u, k>> => worker[h].req = <<u, k>>
  BY AroundUnderway DEF Concludes
<1>3. /\ Carries(<<u, k>>)' = Carries(<<u, k>>)
      /\ ForOrder(<<u, k>>)' <=> ForOrder(<<u, k>>)
  BY ThreadSame DEF Carries, Concludes, Around, Others
<1>4. <<u, k>> \in Request /\ k \in Nat
  BY PlanAssumption DEF Request, Place
<1>5. CASE u # t
  <2>1. call'[u] = call[u] /\ Out(u)' = Out(u) /\ On(u)' = On(u)
    BY <1>5 DEF Concludes, Around, Others, Out, On
  <2>2. result'[<<u, k>>] = result[<<u, k>>]
    BY <1>1, <1>4, <1>5, ConcludesFacts
  <2> QED  BY <1>0, <1>2, <1>3, <2>1, <2>2 DEF OnceFor
<1>6. CASE u = t /\ k # call[t].at
  <2>1. result'[<<u, k>>] = result[<<u, k>>]
    BY <1>1, <1>4, <1>6, ConcludesFacts
  <2>2. /\ call[t].at \in Nat /\ call'[t].at \in Nat
        /\ call'[t].at > call[t].at
    BY <1>1, PlanAssumption, ConcludesFacts DEF Place
  <2>3. \A h \in Handles : Underway(<<u, k>>, h) => k < call[t].at
    BY <1>0, <1>4, <1>6, <2>2 DEF OnceFor
  <2>4. begun[<<u, k>>] # 0 /\ ~ForOrder(<<u, k>>) => k < call[t].at
    BY <1>0, <1>6 DEF OnceFor
  <2> QED
    BY <1>0, <1>2, <1>3, <1>4, <1>6, <2>1, <2>2, <2>3, <2>4 DEF OnceFor
<1>7. CASE u = t /\ k = call[t].at
  <2>1. <<u, k>> = Id(t)
    BY <1>1, <1>7
  <2>2. call'[t].at \in Nat /\ call'[t].at > k /\ result'[<<u, k>>] = how
    BY <1>7, <2>1, ConcludesFacts
  <2>3. \A h \in Handles : Underway(<<u, k>>, h)' => how = "mismatch"
    BY <2>1 DEF Remains, Underway
  <2> QED  BY <1>0, <1>2, <1>3, <1>4, <1>7, <2>2, <2>3 DEF OnceFor
<1> QED  BY <1>5, <1>6, <1>7

(* The stops of the others are where they were.                            *)
LEMMA ConcludesPassedOn ==
  ASSUME WInv, NEW t \in Threads, NEW how, Concludes(t, how)
  PROVE  PassedOn'
<1> SUFFICES ASSUME NEW u \in Threads, call'[u].pc = "wait", call'[u].told
             PROVE  Heard(u)'
  BY DEF PassedOn
<1>1. u # t
  BY ConcludesFacts
<1>2. call'[u] = call[u] /\ On(u)' = On(u) /\ Id(u)' = Id(u)
  BY <1>1 DEF Concludes, Around, Others, On, Id
<1>3. On(u) \in Handles /\ Heard(u)
  BY <1>2 DEF WInv, Placed, PlacedAt, PassedOn
<1> QED  BY <1>2, <1>3, AroundHeard DEF Concludes

(* What holds when t has done with a request.                              *)
LEMMA ConcludesKeep ==
  ASSUME WInv, NEW t \in Threads, NEW how, Concludes(t, how), Typed',
         begun' = begun, carried' = carried,
         \A h \in Handles : Remains(Id(t), h) => how = "mismatch",
         \A h \in Handles : \/ handle'[h].lock = handle[h].lock
                            \/ handle[h].lock \in {t, NoThread}
  PROVE  WInv'
<1>1. Unmade' /\ Answering' /\ Stopping'
  BY AroundUnmade, AroundAnswering, AroundStopping DEF Concludes
<1>2. Placed' /\ Once' /\ PassedOn'
  BY ConcludesPlaced, ConcludesOnce, ConcludesPassedOn
<1>3. Locking'
  <2>1. ~Locks(t)' /\ ~Late(t)' /\ call'[t].pc \notin Killing
    BY ConcludesFacts DEF Locks, Late, Killing
  <2> QED  BY <2>1, OthersLocking DEF Concludes, Around
<1> QED  BY <1>1, <1>2, <1>3 DEF WInv

-----------------------------------------------------------------------------
(* What the requests do to the account's session.                          *)
LEMMA SessionFacts ==
  ASSUME SessionType
  PROVE  /\ \A i : session' = EndedSession(i) => SessionType'
         /\ \A b \in BOOLEAN : \A i : session' = Observed(i, b) => SessionType'
         /\ \A h \in Handles : session' = BoundSession(h) => SessionType'
         /\ session' = session => SessionType'
<1>1. \A h \in Handles : h \in 0..MaxHandles
  BY PlanAssumption DEF Handles
<1>2. ASSUME NEW h \in Handles, session' = BoundSession(h)
      PROVE  SessionType'
  BY <1>1, <1>2 DEF SessionType, BoundSession
<1> QED  BY <1>2 DEF SessionType, EndedSession, Observed

(* A thread goes to another step.                                          *)
LEMMA GoFacts ==
  ASSUME CallType, NEW t \in Threads, NEW pc \in Pcs, Go(t, pc)
  PROVE  /\ CallType' /\ \A u \in Threads \ {t} : call'[u] = call[u]
         /\ call'[t].pc = pc /\ call'[t].at = call[t].at
         /\ On(t)' = On(t) /\ call'[t].told = call[t].told
         /\ call'[t].end = call[t].end
  BY DEF CallType, Go, On

(* A step that leaves the pipes, the workers and the outcomes alone.       *)
Quietly == UNCHANGED <<plan, made, pipe, worker, result, stopped, history>>

(* With such a step a thread goes on with its request.                     *)
LEMMA MovesQuietly ==
  ASSUME WInv, NEW t \in Threads, Quietly,
         \A u \in Threads \ {t} : call'[u] = call[u],
         call'[t].at = call[t].at,
         workers' \in {workers, NoHandle},
         On(t)' \in {On(t), workers, NoHandle},
         Out(t) => Out(t)' /\ On(t)' = On(t),
         call'[t].pc = "wait" /\ call'[t].told =>
           call[t].pc = "wait" /\ call[t].told
  PROVE  Moves(t)
<1>1. \A h \in Handles : Quiet(h)
  BY PipeSame DEF Quietly, Quiet, Kept, SamePipe
<1>2. /\ workers' <= made /\ On(t)' <= made
      /\ made' = made /\ made \in Nat /\ made <= made
  BY PlanAssumption DEF WInv, Unmade, Typed, TableType, NoHandle, Quietly
<1> QED  BY <1>1, <1>2 DEF Quietly, Moves, Around, Others, history

(* The tables and types that such a step leaves alone.                     *)
LEMMA TypedQuietly ==
  ASSUME WInv, Quietly, workers' \in {workers, NoHandle}, faults' = faults,
         HandleType', SessionType', CallType'
  PROVE  Typed'
<1>1. TableType'
  BY PlanAssumption, ThreadSame DEF WInv, Typed, TableType, Quietly, NoHandle
<1>2. PipeType' /\ WorkerType' /\ ResultType'
  BY DEF WInv, Typed, PipeType, WorkerType, ResultType, Quietly, history
<1> QED  BY <1>1, <1>2 DEF Typed

(* The same for one whose place in the plan does not change.               *)
LEMMA PlacedSame ==
  ASSUME WInv, NEW t \in Threads, plan' = plan, call'[t].at = call[t].at,
         result' = result, carried' = carried,
         ~Finished(t),
         call'[t].pc \notin {"idle", "get"} => On(t)' \in Handles,
         call'[t].pc \in {"lock", "send", "wait"} => Ask(t) # "order",
         call'[t].told => Out(t)',
         call'[t].end = "answered" =>
           call'[t].pc \in Killing /\ <<Id(t), "answered">> \in carried,
         call'[t].pc \in Killing => call'[t].end # "none"
  PROVE  PlacedAt(t)'
<1>1. /\ Runs' = Runs /\ Finished(t)' = Finished(t) /\ Id(t)' = Id(t)
      /\ Ask(t)' = Ask(t)
  BY ThreadSame
<1>2. PlacedAt(t)
  BY DEF WInv, Placed
<1> QED  BY <1>1, <1>2 DEF PlacedAt

(* A handle that a thread had the lock of is free again.                   *)
LEMMA ReleaseFacts ==
  ASSUME HandleType, NEW h \in Handles, Release(h)
  PROVE  /\ HandleType' /\ handle'[h].lock = NoThread
         /\ \A g \in Handles \ {h} : handle'[g] = handle[g]
  BY DEF HandleType, Release

-----------------------------------------------------------------------------
(* A request that fails gives the lock of its handle back and has its      *)
(* worker dropped.                                                         *)
LEMMA FailKeeps ==
  ASSUME WInv, NEW t \in Threads, call[t].pc \in {"send", "wait"}, Fail(t),
         UNCHANGED <<plan, workers, made, pipe, worker, session, result,
                     stopped, faults, history>>
  PROVE  WInv'
<1> USE DEF WInv
<1>1. /\ PlacedAt(t) /\ ~Finished(t) /\ On(t) \in Handles
      /\ Ask(t) # "order" /\ Locks(t) /\ handle[On(t)].lock = t
  BY DEF Placed, PlacedAt, Locking, Locks
<1>2. /\ HandleType' /\ handle'[On(t)].lock = NoThread
      /\ \A g \in Handles \ {On(t)} : handle'[g] = handle[g]
  BY <1>1, ReleaseFacts DEF Fail, Typed
<1>3. /\ CallType' /\ \A u \in Threads \ {t} : call'[u] = call[u]
      /\ call'[t].pc = "kill_end" /\ call'[t].end = "failed"
      /\ call'[t].at = call[t].at /\ On(t)' = On(t)
      /\ call'[t].told = call[t].told
  BY DEF Typed, CallType, Fail, On, Pcs, Killing
<1>4. Out(t)'
  BY <1>3 DEF Out, Killing
<1>5. Quietly
  BY DEF Quietly
<1>6. Moves(t)
  BY <1>3, <1>4, <1>5, MovesQuietly
<1>7. Typed'
  BY <1>2, <1>3, <1>5, SessionFacts, TypedQuietly DEF Typed
<1>8. PlacedAt(t)'
  BY <1>1, <1>3, <1>4, <1>5, PlacedSame DEF Quietly, history
<1>9. Locking'
  <2>1. Ask(t)' = Ask(t)
    BY <1>3, <1>5, ThreadSame DEF Quietly
  <2>2. ~Late(t)' /\ ~Locks(t)'
    BY <1>1, <1>3, <2>1 DEF Late, Locks
  <2> QED  BY <1>1, <1>2, <1>3, <1>6, <2>2, OthersLocking DEF Moves, Around
<1> QED  BY <1>6, <1>7, <1>8, <1>9, MovesKeep

(* The wait is over, without an answer.                                    *)
LEMMA TimeOutKeeps ==
  ASSUME WInv, NEW t \in Threads, TimeOut(t) \/ Broken(t) \/ ForceStop(t)
  PROVE  WInv'
  BY FailKeeps DEF TimeOut, Broken, ForceStop

-----------------------------------------------------------------------------
(* A thread that goes one step on with its request, without beginning or   *)
(* ending the time in which the request is out.                            *)
LEMMA GoKeeps ==
  ASSUME WInv, NEW t \in Threads, NEW pc \in Pcs \ {"idle", "get", "wait"},
         Go(t, pc), Quietly, workers' \in {workers, NoHandle},
         faults' = faults, HandleType', SessionType',
         call[t].pc # "idle", On(t) \in Handles,
         pc \in {"lock", "send"} => Ask(t) # "order",
         pc \in Killing <=> Out(t),
         pc \in Killing <=> call[t].pc \in Killing,
         \A h \in Handles : \/ handle'[h].lock = handle[h].lock
                            \/ handle[h].lock \in {t, NoThread},
         pc \in {"send", "dispose_wait"} => handle'[On(t)].lock = t,
         Late(t) => handle'[On(t)].lock = handle[On(t)].lock
  PROVE  WInv'
<1> USE DEF WInv
<1>1. /\ CallType' /\ \A u \in Threads \ {t} : call'[u] = call[u]
      /\ call'[t].pc = pc /\ call'[t].at = call[t].at
      /\ On(t)' = On(t) /\ call'[t].told = call[t].told
      /\ call'[t].end = call[t].end
  BY GoFacts DEF Typed
<1>2. PlacedAt(t) /\ ~Finished(t) /\ Ask(t)' = Ask(t) /\ Runs' = Runs
  BY <1>1, ThreadSame DEF Placed, PlacedAt, Quietly
<1>3. Out(t)' <=> Out(t)
  BY <1>1 DEF Out, Killing
<1>4. Moves(t)
  BY <1>1, <1>3, MovesQuietly
<1>5. Typed'
  BY <1>1, TypedQuietly
<1>6. PlacedAt(t)'
  BY <1>1, <1>2, <1>3, PlacedSame DEF PlacedAt, Quietly, history, Out
<1>7. Locking'
  <2>1. Late(t)' <=> Late(t)
    BY <1>1, <1>2 DEF Late
  <2>2. Late(t) => handle[On(t)].lock = t
    BY DEF Locking, Locks
  <2>3. Locks(t)' => handle'[On(t)'].lock = t
    BY <1>1, <2>1, <2>2 DEF Locks
  <2>4. Late(t)' => \A u \in Runs \ {t} :
          On(u) = On(t)' => call[u].pc \notin Killing
    BY <1>1, <2>1 DEF Locking
  <2> QED  BY <1>1, <1>4, <2>3, <2>4, OthersLocking DEF Moves, Around
<1> QED  BY <1>4, <1>5, <1>6, <1>7, MovesKeep

(* The steps of dropping a worker for a request.                           *)
LEMMA KillEndKeeps ==
  ASSUME WInv, NEW t \in Threads, KillEnd(t) \/ KillPop(t)
  PROVE  WInv'
<1>1. /\ On(t) \in Handles /\ Out(t) /\ call[t].pc \in Killing
      /\ HandleType /\ SessionType
  BY DEF WInv, Typed, Placed, PlacedAt, KillEnd, KillPop, Out, Killing
<1>2. Quietly /\ workers' \in {workers, NoHandle} /\ faults' = faults
  BY DEF KillEnd, KillPop, Quietly
<1>3. HandleType' /\ \A h \in Handles : handle'[h].lock = handle[h].lock
  <2>1. CASE handle' = handle
    BY <1>1, <2>1 DEF HandleType
  <2>2. CASE handle' = [handle EXCEPT ![On(t)].retired = TRUE]
    BY <1>1, <2>2 DEF HandleType
  <2> QED  BY <2>1, <2>2 DEF KillEnd, KillPop
<1>5. SessionType'
  BY <1>1, SessionFacts DEF KillEnd, KillPop
<1>4. PICK pc \in {"kill_pop", "kill"} : Go(t, pc)
  BY DEF KillEnd, KillPop
<1> QED
  BY <1>1, <1>2, <1>3, <1>4, <1>5, GoKeeps DEF Pcs, Killing

(* An order command on its way.                                            *)
LEMMA OrderGoKeeps ==
  ASSUME WInv, NEW t \in Threads,
         NEW pc \in AtOrders \cup {"order_lock", "order_late"}, Go(t, pc),
         call[t].pc \in OrderPcs, Quietly, UNCHANGED <<workers, faults>>,
         \/ UNCHANGED <<handle, session>>
         \/ /\ handle' = [handle EXCEPT ![On(t)] = BoundHandle(On(t))]
            /\ session' = BoundSession(On(t))
  PROVE  WInv'
<1>1. /\ On(t) \in Handles /\ ~Out(t) /\ call[t].pc \notin Killing
      /\ HandleType /\ SessionType
      /\ call[t].pc # "idle" /\ ~Late(t)
  BY DEF WInv, Typed, Placed, PlacedAt, OrderPcs, AtOrders, Out, Killing, Late
<1>2. HandleType' /\ \A h \in Handles : handle'[h].lock = handle[h].lock
  <2>1. CASE handle' = handle
    BY <1>1, <2>1 DEF HandleType
  <2>2. CASE handle' = [handle EXCEPT ![On(t)].bound = On(t)]
    BY <1>1, <2>2 DEF HandleType, Handles
  <2>3. [handle EXCEPT ![On(t)] = BoundHandle(On(t))]
          = [handle EXCEPT ![On(t)].bound = On(t)]
    BY DEF BoundHandle
  <2> QED  BY <2>1, <2>2, <2>3
<1>3. SessionType'
  BY <1>1, SessionFacts
<1>4. /\ pc \in Pcs \ {"idle", "get", "wait"} /\ pc \notin Killing
      /\ pc \notin {"lock", "send", "dispose_wait"}
  BY DEF Pcs, Killing, AtOrders
<1> QED
  BY <1>1, <1>2, <1>3, <1>4, GoKeeps

(* An order command that is bound, waits for its turn, or was sent, and    *)
(* one whose wait is over.                                                 *)
LEMMA OrderMovesKeep ==
  ASSUME WInv, NEW t \in Threads,
         \/ OrderBind(t) \/ OrderLock(t) \/ OrderBusy(t) \/ OrderTimeOut(t)
  PROVE  WInv'
<1>1. PICK pc \in AtOrders \cup {"order_lock", "order_late"} : Go(t, pc)
  BY DEF OrderBind, OrderLock, OrderBusy, OrderTimeOut, AtOrders
<1>2. Quietly /\ UNCHANGED <<workers, faults>> /\ call[t].pc \in OrderPcs
  BY DEF OrderBind, OrderLock, OrderBusy, OrderTimeOut, Quietly, OrderPcs,
     AtOrders
<1>3. \/ UNCHANGED <<handle, session>>
      \/ /\ handle' = [handle EXCEPT ![On(t)] = BoundHandle(On(t))]
         /\ session' = BoundSession(On(t))
  BY DEF OrderBind, OrderLock, OrderBusy, OrderTimeOut
<1> QED  BY <1>1, <1>2, <1>3, OrderGoKeeps

(* Disposing of a worker: its session ends, and its pipe is closed.        *)
LEMMA DisposeKeeps ==
  ASSUME WInv, NEW t \in Threads, Dispose(t) \/ DisposeClose(t)
  PROVE  WInv'
<1>1. /\ On(t) \in Handles /\ ~Out(t) /\ call[t].pc \notin Killing
      /\ HandleType /\ SessionType
      /\ call[t].pc # "idle" /\ ~Late(t)
  BY DEF WInv, Typed, Placed, PlacedAt, Dispose, DisposeClose, Out,
     Killing, Late
<1>2. Quietly /\ workers' = workers /\ faults' = faults
  BY DEF Dispose, DisposeClose, Quietly
<1>3. HandleType' /\ \A h \in Handles : handle'[h].lock = handle[h].lock
  <2>1. CASE handle' = handle
    BY <1>1, <2>1 DEF HandleType
  <2>2. CASE handle' = [handle EXCEPT ![On(t)].open = FALSE]
    BY <1>1, <2>2 DEF HandleType
  <2> QED  BY <2>1, <2>2 DEF Dispose, DisposeClose
<1>5. SessionType'
  BY <1>1, SessionFacts DEF Dispose, DisposeClose
<1>4. PICK pc \in {"dispose_lock", "dispose_close", "dispose_join"} : Go(t, pc)
  BY DEF Dispose, DisposeClose
<1> QED
  BY <1>1, <1>2, <1>3, <1>4, <1>5, GoKeeps DEF Pcs, Killing

(* The lock of a handle is taken, or the thread looks for another handle.  *)
LEMMA LockKeeps ==
  ASSUME WInv, NEW t \in Threads, Lock(t)
  PROVE  WInv'
<1> USE DEF WInv
<1>1. /\ On(t) \in Handles /\ ~Out(t) /\ call[t].pc \notin Killing
      /\ HandleType /\ SessionType /\ CallType /\ Ask(t) # "order"
      /\ call[t].pc # "idle" /\ ~Late(t) /\ ~Locks(t) /\ PlacedAt(t)
      /\ handle[On(t)].lock = NoThread /\ ~Finished(t)
  BY DEF Typed, Placed, PlacedAt, Lock, Out, Killing, Late, Locks
<1>2. Quietly /\ workers' = workers /\ faults' = faults
  BY DEF Lock, Quietly
<1>3. CASE handle[On(t)].retired
  <2>0. "get" \in Pcs
    BY DEF Pcs
  <2>1. /\ CallType' /\ \A u \in Threads \ {t} : call'[u] = call[u]
        /\ call'[t].pc = "get" /\ call'[t].at = call[t].at
        /\ On(t)' = NoHandle /\ call'[t].told = call[t].told
        /\ call'[t].end = call[t].end
    <3> HIDE DEF WInv
    <3> DEFINE C == [pc : Pcs, at : Nat \ {0}, h : 0..MaxHandles, told : BOOLEAN,
                     end : {"none", "failed", "answered", "unconfirmed"}]
               c == [call[t] EXCEPT !.pc = "get", !.h = NoHandle]
    <3>1. call' = [call EXCEPT ![t] = c]
      BY <1>1, <1>3 DEF Lock
    <3>0. call[t] \in C /\ NoHandle \in 0..MaxHandles
      BY <1>1, PlanAssumption DEF CallType, NoHandle
    <3>2. /\ c.pc = "get" /\ c.at = call[t].at /\ c.h = NoHandle
          /\ c.told = call[t].told /\ c.end = call[t].end
          /\ c \in C
      BY <2>0, <3>0
    <3> HIDE DEF c
    <3> QED  BY <1>1, <3>1, <3>2 DEF CallType, On
  <2>2. UNCHANGED <<handle, session>>
    BY <1>3 DEF Lock
  <2>3. Moves(t)
    BY <1>1, <1>2, <2>1, MovesQuietly
  <2>4. Typed'
    BY <1>1, <1>2, <2>1, <2>2, TypedQuietly DEF HandleType, SessionType
  <2>5. PlacedAt(t)'
    BY <1>1, <1>2, <2>1, PlacedSame DEF PlacedAt, Quietly, history, Killing
  <2>6. Locking'
    <3>1. ~Late(t)' /\ ~Locks(t)' /\ call'[t].pc \notin Killing
      BY <2>1 DEF Late, Locks, Killing
    <3> QED  BY <2>2, <2>3, <3>1, OthersLocking DEF Moves, Around
  <2> QED  BY <2>3, <2>4, <2>5, <2>6, MovesKeep
<1>4. CASE ~handle[On(t)].retired
  <2>1. /\ Go(t, "send") /\ session' = BoundSession(On(t))
        /\ handle' = [handle EXCEPT ![On(t)] = [BoundHandle(On(t)) EXCEPT !.lock = t]]
    BY <1>4 DEF Lock
  <2>2. /\ HandleType' /\ handle'[On(t)].lock = t
        /\ \A g \in Handles \ {On(t)} : handle'[g] = handle[g]
    <3> DEFINE b == [BoundHandle(On(t)) EXCEPT !.lock = t]
    <3>1. /\ b \in [lock : Threads \cup {NoThread}, retired : BOOLEAN,
                     open : BOOLEAN, bound : 0..MaxHandles]
          /\ b.lock = t
      <4>1. /\ handle[On(t)] \in [lock : Threads \cup {NoThread},
                retired : BOOLEAN, open : BOOLEAN, bound : 0..MaxHandles]
            /\ On(t) \in 0..MaxHandles
        BY <1>1 DEF HandleType, Handles
      <4>2. BoundHandle(On(t)) \in [lock : Threads \cup {NoThread},
                retired : BOOLEAN, open : BOOLEAN, bound : 0..MaxHandles]
        BY <4>1 DEF BoundHandle
      <4> QED  BY <4>2
    <3>2. handle' = [handle EXCEPT ![On(t)] = b]
      BY <2>1
    <3> HIDE DEF b
    <3> QED  BY <1>1, <3>1, <3>2 DEF HandleType
  <2>3. SessionType'
    BY <1>1, <2>1, SessionFacts
  <2> QED
    BY <1>1, <1>2, <2>1, <2>2, <2>3, GoKeeps DEF Pcs, Killing
<1> QED  BY <1>3, <1>4

-----------------------------------------------------------------------------
(* A request that is not out yet has reached nobody.                       *)
LEMMA NotOutYet ==
  ASSUME WInv, NEW t \in Threads, ~Finished(t), ~Out(t)
  PROVE  /\ Ask(t) # "order" =>
              begun[Id(t)] = 0 /\ ~Carries(Id(t)) /\ ~ForOrder(Id(t))
         /\ \A h \in Handles : ~Underway(Id(t), h)
<1>1. Id(t) = <<t, call[t].at>> /\ call[t].at \in Place
  BY PlanFacts DEF WInv
<1>2. OnceFor(t, call[t].at) /\ call[t].at \in Nat
  BY <1>1, PlanAssumption DEF WInv, Once, Place
<1>3. Ask(t) # "order" => ~ForOrder(Id(t))
  BY <1>1 DEF Ask, ForOrder
<1> QED  BY <1>1, <1>2, <1>3 DEF OnceFor

(* A thread that has done without a worker's help.                         *)
LEMMA ConcludesQuietly ==
  ASSUME WInv, NEW t \in Threads, NEW how \in Ends, ~Finished(t), ~Out(t),
         End(t, how), workers' \in {workers, NoHandle},
         UNCHANGED <<plan, made, handle, pipe, worker, session, stopped,
                     faults, history>>
  PROVE  WInv'
<1> USE DEF WInv
<1>1. \A h \in Handles : Quiet(h)
  BY PipeSame DEF Quiet, Kept, SamePipe
<1>2. /\ \A u \in Threads \ {t} : call'[u] = call[u]
      /\ On(t)' = NoHandle
  BY DEF End, Typed, CallType, On
<1>3. Concludes(t, how)
  <2>1. /\ made \in Nat /\ made <= made /\ workers' <= made /\ NoHandle <= made
        /\ made' = made
    BY PlanAssumption DEF Unmade, Typed, TableType, NoHandle
  <2> QED  BY <1>1, <1>2, <2>1 DEF Concludes, Around, Others
<1>4. Typed'
  <2>1. CallType' /\ result' \in [Request -> Ends \cup {"none"}]
    BY <1>3, ConcludesFacts
  <2>2. TableType'
    BY PlanAssumption, ThreadSame DEF Typed, TableType, NoHandle
  <2>3. HandleType' /\ SessionType' /\ WorkerType' /\ PipeType'
    BY DEF Typed, HandleType, SessionType, WorkerType, PipeType
  <2> QED  BY <2>1, <2>2, <2>3 DEF Typed, ResultType, history
<1>5. ASSUME NEW h \in Handles PROVE ~Remains(Id(t), h)
  <2>1. ~Underway(Id(t), h)
    BY NotOutYet
  <2> QED  BY <2>1, PipeSame DEF Remains, Underway, SamePipe
<1> QED  BY <1>3, <1>4, <1>5, ConcludesKeep DEF history

(* A request that starts, or is refused at once.                           *)
LEMMA BeginKeeps ==
  ASSUME WInv, NEW t \in Threads, Begin(t)
  PROVE  WInv'
<1> USE DEF WInv
<1>1. /\ PlacedAt(t) /\ ~Finished(t) /\ call[t].pc = "idle" /\ ~Out(t)
      /\ ~Locks(t)
  BY DEF Placed, Begin, Out, Killing, Locks, Late
<1>2. CASE End(t, "refused")
  BY <1>1, <1>2, ConcludesQuietly DEF Begin, Ends
<1>3. CASE Go(t, "get") /\ UNCHANGED result
  <2>1. /\ CallType' /\ \A u \in Threads \ {t} : call'[u] = call[u]
        /\ call'[t].pc = "get" /\ call'[t].at = call[t].at
        /\ On(t)' = On(t) /\ call'[t].told = call[t].told
        /\ call'[t].end = call[t].end
    BY <1>3, GoFacts DEF Typed, Pcs
  <2>2. Quietly
    BY <1>3 DEF Begin, Quietly
  <2>3. Moves(t)
    BY <1>1, <2>1, <2>2, MovesQuietly DEF Begin
  <2>4. Typed'
    BY <2>1, <2>2, SessionFacts, TypedQuietly DEF Begin, Typed, HandleType
  <2>5. PlacedAt(t)'
    BY <1>1, <2>1, <2>2, PlacedSame DEF PlacedAt, Quietly, history, Killing
  <2>6. Locking'
    <3>1. ~Late(t)' /\ ~Locks(t)' /\ call'[t].pc \notin Killing
      BY <2>1 DEF Late, Locks, Killing
    <3> QED  BY <2>3, <3>1, OthersLocking DEF Moves, Around, Begin
  <2> QED  BY <2>3, <2>4, <2>5, <2>6, MovesKeep
<1> QED  BY <1>2, <1>3 DEF Begin

(* An order command that finds its channel broken, or has its answer.      *)
LEMMA OrderEndsKeeps ==
  ASSUME WInv, NEW t \in Threads,
         OrderSend(t) \/ OrderReceive(t) \/ OrderBroken(t)
  PROVE  WInv'
<1>1. ~Finished(t) /\ ~Out(t) /\ call[t].pc \in OrderPcs
  BY DEF WInv, Placed, PlacedAt, OrderSend, OrderReceive, OrderBroken, Out,
     Killing, OrderPcs, AtOrders
<1>2. /\ UNCHANGED <<plan, workers, made, handle, pipe, worker, session,
                     stopped, faults, history>>
      /\ \/ \E how \in {"failed", "answered"} : End(t, how)
         \/ /\ UNCHANGED result
            /\ \E pc \in {"order_send", "order_wait"} : Go(t, pc)
  BY DEF OrderSend, OrderReceive, OrderBroken
<1>3. CASE \E how \in {"failed", "answered"} : End(t, how)
  BY <1>1, <1>2, <1>3, ConcludesQuietly DEF Ends
<1>4. CASE /\ UNCHANGED result
           /\ \E pc \in {"order_send", "order_wait"} : Go(t, pc)
  BY <1>1, <1>2, <1>4, OrderGoKeeps DEF Quietly, AtOrders
<1> QED  BY <1>2, <1>3, <1>4

(* The worker leaves the table before it is disposed of.                   *)
LEMMA UnregisterKeeps ==
  ASSUME WInv, NEW t \in Threads, Unregister(t)
  PROVE  WInv'
<1> USE DEF WInv
<1>1. /\ PlacedAt(t) /\ ~Finished(t) /\ ~Out(t) /\ call[t].pc = "idle"
      /\ HandleType /\ SessionType /\ CallType
  BY DEF Typed, Placed, PlacedAt, Unregister, Out, Killing
<1>2. CASE workers = NoHandle
  BY <1>1, <1>2, ConcludesQuietly DEF Unregister, Ends
<1>3. CASE workers # NoHandle
  <2>1. /\ CallType' /\ \A u \in Threads \ {t} : call'[u] = call[u]
        /\ call'[t].pc = "dispose" /\ call'[t].at = call[t].at
        /\ On(t)' = workers /\ call'[t].told = call[t].told
        /\ call'[t].end = call[t].end
    BY <1>1, <1>3 DEF Unregister, CallType, Pcs, On, Typed, TableType
  <2>2. Quietly /\ UNCHANGED <<handle, session, faults>> /\ workers' = NoHandle
    BY <1>3 DEF Unregister, Quietly
  <2>3. Moves(t)
    BY <1>1, <2>1, <2>2, MovesQuietly
  <2>4. Typed'
    BY <1>1, <2>1, <2>2, TypedQuietly DEF HandleType, SessionType
  <2>5. workers \in Handles
    BY <1>3, PlanAssumption DEF Typed, TableType, Handles, NoHandle
  <2>6. PlacedAt(t)'
    BY <1>1, <2>1, <2>2, <2>5, PlacedSame DEF PlacedAt, Quietly, history,
       Killing
  <2>7. Locking'
    <3>1. ~Late(t)' /\ ~Locks(t)' /\ call'[t].pc \notin Killing
      BY <2>1 DEF Late, Locks, Killing
    <3> QED  BY <2>2, <2>3, <3>1, OthersLocking DEF Moves, Around
  <2> QED  BY <2>3, <2>4, <2>6, <2>7, MovesKeep
<1> QED  BY <1>2, <1>3

(* A late order command drops a worker that nobody uses.                   *)
LEMMA RetireIdleKeeps ==
  ASSUME WInv, NEW t \in Threads, RetireIdle(t)
  PROVE  WInv'
<1> USE DEF WInv
<1>1. /\ PlacedAt(t) /\ ~Finished(t) /\ ~Out(t) /\ On(t) \in Handles
      /\ HandleType /\ SessionType /\ CallType
  BY DEF Typed, Placed, PlacedAt, RetireIdle, Out, Killing
<1>2. CASE End(t, "unconfirmed") /\ UNCHANGED handle
  BY <1>1, <1>2, ConcludesQuietly DEF RetireIdle, Ends
<1>3. CASE /\ handle[On(t)].lock = NoThread /\ \A u \in Runs : ~InProgress(u)
           /\ handle' = [handle EXCEPT ![On(t)].lock = t]
           /\ call' = [call EXCEPT ![t].pc = "kill_end", ![t].end = "unconfirmed"]
           /\ UNCHANGED result
  <2>1. /\ CallType' /\ \A u \in Threads \ {t} : call'[u] = call[u]
        /\ call'[t].pc = "kill_end" /\ call'[t].at = call[t].at
        /\ On(t)' = On(t) /\ call'[t].told = call[t].told
        /\ call'[t].end = "unconfirmed"
    BY <1>1, <1>3 DEF CallType, Pcs, Killing, On
  <2>2. Quietly /\ UNCHANGED <<workers, session, faults>>
    BY <1>3 DEF RetireIdle, Quietly
  <2>3. /\ HandleType' /\ handle'[On(t)].lock = t
        /\ \A g \in Handles \ {On(t)} : handle'[g] = handle[g]
    BY <1>1, <1>3 DEF HandleType
  <2>4. Moves(t)
    BY <1>1, <2>1, <2>2, MovesQuietly
  <2>5. Typed'
    BY <1>1, <2>1, <2>2, <2>3, TypedQuietly DEF SessionType
  <2>6. PlacedAt(t)'
    <3>1. ~call[t].told
      BY <1>1 DEF PlacedAt
    <3> QED
      BY <1>1, <2>1, <2>2, <3>1, PlacedSame DEF Quietly, history, Killing
  <2>7. Locking'
    <3>1. \A u \in Runs : call[u].pc \notin Killing
      BY <1>3 DEF InProgress, Placed, PlacedAt, Killing, Runs
    <3> QED
      BY <1>1, <1>3, <2>1, <2>3, <2>4, <3>1, OthersLocking DEF Moves, Around
  <2> QED  BY <2>4, <2>5, <2>6, <2>7, MovesKeep
<1> QED  BY <1>2, <1>3 DEF RetireIdle

-----------------------------------------------------------------------------
(* A handle is found in the table, or made.                                *)
LEMMA GetKeeps ==
  ASSUME WInv, NEW t \in Threads, Get(t)
  PROVE  WInv'
<1> USE DEF WInv
<1>1. /\ PlacedAt(t) /\ ~Finished(t) /\ ~Out(t) /\ call[t].pc = "get"
      /\ HandleType /\ SessionType /\ CallType /\ WorkerType
  BY DEF Typed, Placed, PlacedAt, Get, Out, Killing
<1>2. PICK pc \in {"order_bind", "lock"}, h \in {workers, made + 1} :
        /\ pc = "lock" => Ask(t) # "order"
        /\ call' = [call EXCEPT ![t].pc = pc, ![t].h = h]
        /\ \/ /\ h = workers /\ Healthy(workers)
              /\ UNCHANGED <<workers, made, handle, worker, session>>
           \/ /\ h = made + 1 /\ made < MaxHandles
              /\ made' = made + 1 /\ workers' = made + 1
              /\ session' = IF workers = NoHandle THEN session
                            ELSE EndedSession(handle[workers].bound)
              /\ handle' = [g \in Handles |->
                    IF g = workers THEN [handle[g] EXCEPT !.open = FALSE]
                    ELSE IF g = made + 1 THEN [handle[g] EXCEPT !.open = TRUE]
                    ELSE handle[g]]
              /\ worker' = [worker EXCEPT ![made + 1].up = TRUE]
  BY DEF Get
<1>3. UNCHANGED <<plan, pipe, result, stopped, faults, history>>
  BY DEF Get
<1>4. made \in Nat /\ workers \in 0..MaxHandles /\ made \in 0..MaxHandles
  BY PlanAssumption DEF Typed, TableType
<1>5. h \in Handles
  BY <1>2, <1>4, PlanAssumption DEF Healthy, NoHandle, Handles
<1>6. /\ CallType' /\ \A u \in Threads \ {t} : call'[u] = call[u]
      /\ call'[t].pc = pc /\ call'[t].at = call[t].at
      /\ On(t)' = h /\ call'[t].told = call[t].told
      /\ call'[t].end = call[t].end
  <2>1. /\ h \in 0..MaxHandles /\ pc \in Pcs
        /\ call' = [call EXCEPT ![t].pc = pc, ![t].h = h]
    BY <1>2, <1>5, PlanAssumption DEF Pcs, Handles
  <2> HIDE DEF WInv
  <2> QED  BY <1>1, <2>1 DEF CallType, On
<1>7. \A g \in Handles : handle'[g].lock = handle[g].lock
  BY <1>1, <1>2 DEF HandleType
<1>8. Moves(t)
  <2>1. CASE UNCHANGED <<workers, made, worker>> /\ h = workers
    BY <1>1, <1>3, <1>6, <2>1, MovesQuietly DEF Quietly
  <2>2. CASE /\ h = made + 1 /\ made' = made + 1 /\ workers' = made + 1
             /\ worker' = [worker EXCEPT ![made + 1].up = TRUE]
    <3>1. ASSUME NEW g \in Handles PROVE Quiet(g)
      <4>1. SamePipe(g)
        BY <1>3, PipeSame
      <4>2. CASE g = h
        <5>1. g > made
          BY <1>4, <2>2, <4>2
        <5>2. Woken(g)
          BY <1>1, <2>2, <4>1, <4>2, <5>1 DEF Unmade, Woken, SamePipe,
             WorkerType
        <5>3. g <= made'
          BY <1>4, <2>2, <4>2
        <5> QED  BY <4>1, <5>2, <5>3 DEF Quiet, SamePipe
      <4>3. CASE g # h
        BY <1>1, <2>2, <4>1, <4>3 DEF Quiet, Kept, SamePipe, WorkerType
      <4> QED  BY <4>2, <4>3
    <3>2. made' \in Nat /\ made <= made' /\ workers' <= made' /\ On(t)' <= made'
      BY <1>4, <1>6, <2>2
    <3> QED
      BY <1>1, <1>3, <1>6, <3>1, <3>2 DEF Moves, Around, Others, history
  <2> QED  BY <1>2, <2>1, <2>2
<1>9. Typed'
  <2>1. TableType'
    BY <1>2, <1>3, <1>4, PlanAssumption, ThreadSame DEF Typed, TableType
  <2>2. HandleType'
    <3>1. ASSUME NEW g \in Handles
          PROVE  handle'[g] \in [lock : Threads \cup {NoThread},
                   retired : BOOLEAN, open : BOOLEAN, bound : 0..MaxHandles]
      <4>1. handle[g] \in [lock : Threads \cup {NoThread},
                   retired : BOOLEAN, open : BOOLEAN, bound : 0..MaxHandles]
        BY <1>1 DEF HandleType
      <4>2. handle'[g] \in {handle[g], [handle[g] EXCEPT !.open = FALSE],
                            [handle[g] EXCEPT !.open = TRUE]}
        BY <1>2
      <4> HIDE DEF WInv
      <4> QED  BY <4>1, <4>2
    <3>2. handle' = [g \in Handles |-> handle'[g]]
      BY <1>1, <1>2 DEF HandleType
    <3> QED  BY <3>1, <3>2 DEF HandleType
  <2>3. SessionType'
    BY <1>1, <1>2, SessionFacts
  <2>4. WorkerType'
    <3>1. CASE worker' = worker
      BY <1>1, <3>1 DEF WorkerType
    <3>2. CASE worker' = [worker EXCEPT ![made + 1].up = TRUE]
      BY <1>1, <3>2 DEF WorkerType
    <3> QED  BY <1>2, <3>1, <3>2
  <2>5. PipeType' /\ ResultType'
    BY <1>3 DEF Typed, PipeType, ResultType, history
  <2> QED  BY <1>6, <2>1, <2>2, <2>3, <2>4, <2>5 DEF Typed
<1>10. PlacedAt(t)'
  <2>1. ~call[t].told /\ call[t].end # "answered"
    BY <1>1 DEF PlacedAt, Killing
  <2> QED
    BY <1>1, <1>2, <1>3, <1>5, <1>6, <2>1, PlacedSame DEF history, Killing
<1>11. Locking'
  <2>1. ~Late(t)' /\ ~Locks(t)' /\ call'[t].pc \notin Killing
    BY <1>2, <1>6 DEF Late, Locks, Killing
  <2> QED  BY <1>7, <1>8, <2>1, OthersLocking DEF Moves, Around
<1> QED  BY <1>8, <1>9, <1>10, <1>11, MovesKeep

(* A request is sent under the lock of its handle, by a thread whose       *)
(* request has reached nobody.                                             *)
LEMMA SendKeeps ==
  ASSUME WInv, NEW t \in Threads, Send(t)
  PROVE  WInv'
<1> USE DEF WInv
<1>0. PICK h \in Handles : h = On(t)
  BY DEF Placed, PlacedAt, Send
<1>1. /\ PlacedAt(t) /\ ~Finished(t) /\ ~Out(t) /\ On(t) = h
      /\ Ask(t) # "order" /\ call[t].pc = "send" /\ ~call[t].told
      /\ handle[h].lock = t /\ CallType /\ PipeType
  BY <1>0 DEF Typed, Placed, PlacedAt, Locking, Locks, Send, Out, Killing
<1>2. CASE Fail(t) /\ UNCHANGED pipe
  BY <1>1, <1>2, FailKeeps DEF Send
<1>3. CASE /\ pipe' = [pipe EXCEPT ![h].to = Append(@, Id(t))]
           /\ Go(t, "wait") /\ UNCHANGED handle
  <2>1. UNCHANGED <<plan, workers, made, worker, session, result, stopped,
                    faults, history>> /\ UNCHANGED handle
    BY <1>3 DEF Send
  <2>2. Id(t) = <<t, call[t].at>> /\ Id(t) \in Request /\ Id(t) \in AnyRequest
    BY <1>1, PlanFacts DEF Request, AnyRequest
  <2>3. \A g \in Handles : ~Underway(Id(t), g)
    BY <1>1, NotOutYet
  <2>4. /\ PipeType' /\ \A g \in Handles \ {h} : SamePipe(g)
        /\ Sent(h)' = Sent(h) \cup {Id(t)}
        /\ Answered(h)' = Answered(h) /\ Wishes(h)' = Wishes(h)
        /\ NoRepeats(pipe[h].to) => NoRepeats(pipe'[h].to)
    BY <1>1, <1>3, <2>2, <2>3, PutTo DEF Underway
  <2>5. /\ CallType' /\ \A u \in Threads \ {t} : call'[u] = call[u]
        /\ call'[t].pc = "wait" /\ call'[t].at = call[t].at
        /\ On(t)' = h /\ ~call'[t].told
        /\ call'[t].end = call[t].end
    BY <1>1, <1>3, GoFacts DEF Pcs
  <2>6. Others(t)
    BY <2>1, <2>5 DEF Others
  <2>7. Typed'
    BY <2>1, <2>4, <2>5, ThreadSame DEF Typed, TableType, HandleType,
       SessionType, WorkerType, ResultType, history
  <2>8. Placed'
    <3>1. PlacedAt(t)'
      BY <1>1, <2>1, <2>5, PlacedSame DEF PlacedAt, Killing, history
    <3> QED  BY <2>1, <2>6, <3>1, OthersPlaced DEF history
  <2>9. Locking'
    <3>1. ~Late(t)' /\ call'[t].pc \notin Killing
      BY <2>5 DEF Late, Killing
    <3> QED  BY <1>1, <2>1, <2>5, <2>6, <3>1, OthersLocking
  <2>10. Unmade'
    <3>1. \A u \in Threads : On(u)' <= made
      BY <1>1, <2>5 DEF Unmade, On
    <3>2. ~(h > made)
      BY PlanAssumption, <1>1 DEF Unmade, Typed, TableType, Handles
    <3> QED  BY <2>1, <2>4, <3>1, <3>2 DEF Unmade, SamePipe
  <2>11. Answering'
    BY <2>1, <2>4 DEF Answering, SamePipe, history
  <2>12. Stopping'
    <3>1. Runs' = Runs /\ \A r : Stoppable(r)' <=> Stoppable(r)
      BY <2>1, ThreadSame
    <3>2. \A g \in Handles : Wishes(g)' = Wishes(g)
      BY <2>4 DEF SamePipe
    <3> QED  BY <2>1, <3>1, <3>2 DEF Stopping, StopsOwn
  <2>13. PassedOn'
    <3> SUFFICES ASSUME NEW u \in Threads, call'[u].pc = "wait", call'[u].told
                 PROVE  Heard(u)'
      BY DEF PassedOn
    <3>1. /\ u # t /\ call'[u] = call[u] /\ On(u)' = On(u) /\ Id(u)' = Id(u)
          /\ Id(u) # Id(t)
      BY <2>5 DEF On, Id
    <3>2. Heard(u) /\ On(u) \in Handles
      BY <3>1 DEF PassedOn, Placed, PlacedAt
    <3>3. /\ Wishes(On(u))' = Wishes(On(u))
          /\ Id(u) \in Sent(On(u))' => Id(u) \in Sent(On(u))
      BY <2>4, <3>1, <3>2 DEF SamePipe
    <3>4. Stoppable(Id(u))' <=> Stoppable(Id(u))
      BY <2>1, <3>1, ThreadSame DEF Stoppable
    <3> QED  BY <2>1, <3>1, <3>2, <3>3, <3>4 DEF Heard
  <2>14. Once'
    <3> SUFFICES ASSUME NEW u \in Threads, NEW k \in Place
                 PROVE  OnceFor(u, k)'
      BY DEF Once
    <3>0. OnceFor(u, k)
      BY DEF Once
    <3>1. /\ result' = result /\ begun' = begun /\ worker' = worker
          /\ Carries(<<u, k>>)' = Carries(<<u, k>>)
          /\ ForOrder(<<u, k>>)' <=> ForOrder(<<u, k>>)
      BY <2>1, ThreadSame DEF Carries, history
    <3>2. CASE <<u, k>> = Id(t)
      <4>1. /\ u = t /\ k = call[t].at /\ k = call'[t].at /\ Out(t)'
            /\ On(t)' = h /\ k \in Nat
        BY <2>2, <2>5, <3>2, PlanAssumption DEF Out, Place
      <4>2. /\ begun[<<u, k>>] = 0 /\ ~Carries(<<u, k>>)
            /\ ~ForOrder(<<u, k>>)
        BY <1>1, <3>2, NotOutYet
      <4>3. \A g \in Handles : worker[g].req # <<u, k>> /\ <<u, k>> \notin Sent(g)
        BY <2>3, <3>2 DEF Underway
      <4>4. \A g \in Handles \ {h} : ~Underway(<<u, k>>, g)'
        BY <2>4, <3>1, <4>3 DEF Underway, SamePipe
      <4> QED  BY <3>1, <4>1, <4>2, <4>3, <4>4 DEF OnceFor
    <3>3. CASE <<u, k>> # Id(t)
      <4>1. \A g \in Handles :
              /\ <<u, k>> \in Sent(g)' <=> <<u, k>> \in Sent(g)
              /\ Underway(<<u, k>>, g)' <=> Underway(<<u, k>>, g)
        BY <2>4, <3>1, <3>3 DEF Underway, SamePipe
      <4>2. /\ call'[u].at = call[u].at /\ On(u)' = On(u)
            /\ Out(u) => Out(u)'
        BY <1>1, <2>5 DEF On, Out
      <4> QED  BY <3>0, <3>1, <4>1, <4>2 DEF OnceFor
    <3> QED  BY <3>2, <3>3
  <2> QED
    BY <2>7, <2>8, <2>9, <2>10, <2>11, <2>12, <2>13, <2>14
<1> QED  BY <1>1, <1>2, <1>3 DEF Send

-----------------------------------------------------------------------------
(* The wish to stop is put on the pipe for stops, where the worker hears   *)
(* it, or the worker of the run is dropped.                                *)
LEMMA PassStopKeeps ==
  ASSUME WInv, NEW t \in Threads, PassStop(t)
  PROVE  WInv'
<1> USE DEF WInv
<1>0. PICK h \in Handles : h = On(t)
  BY DEF Placed, PlacedAt, PassStop
<1>1. /\ PlacedAt(t) /\ ~Finished(t) /\ Out(t) /\ On(t) = h
      /\ Ask(t) # "order" /\ call[t].pc = "wait" /\ t \in stopped
      /\ handle[h].lock = t /\ CallType /\ PipeType
  BY <1>0 DEF Typed, Placed, PlacedAt, Locking, Locks, PassStop, Out
<1>2. CASE Fail(t) /\ UNCHANGED pipe
  BY <1>1, <1>2, FailKeeps DEF PassStop
<1>3. CASE /\ pipe' = [pipe EXCEPT ![h].ctl = Append(@, t)]
           /\ call' = [call EXCEPT ![t].told = TRUE] /\ UNCHANGED handle
  <2>1. UNCHANGED <<plan, workers, made, handle, worker, session, result,
                    stopped, faults, history>>
    BY <1>3 DEF PassStop
  <2>2. /\ PipeType' /\ \A g \in Handles \ {h} : SamePipe(g)
        /\ Wishes(h)' = Wishes(h) \cup {t}
        /\ Sent(h)' = Sent(h) /\ Answered(h)' = Answered(h)
        /\ pipe'[h].to = pipe[h].to
    BY <1>1, <1>3, PutCtl
  <2>3. /\ CallType' /\ \A u \in Threads \ {t} : call'[u] = call[u]
        /\ call'[t].pc = "wait" /\ call'[t].at = call[t].at
        /\ On(t)' = h /\ call'[t].end = call[t].end
    BY <1>1, <1>3 DEF CallType, On
  <2>4. \A u \in Threads : /\ call'[u].at = call[u].at /\ On(u)' = On(u)
                           /\ Out(u)' = Out(u) /\ Id(u)' = Id(u)
    BY <1>1, <2>3 DEF On, Out, Id
  <2>5. \A g \in Handles :
          /\ Sent(g)' = Sent(g) /\ Answered(g)' = Answered(g)
          /\ Wishes(g) \subseteq Wishes(g)'
          /\ Wishes(g)' \subseteq Wishes(g) \cup {t}
          /\ pipe'[g].to = pipe[g].to
    BY <2>2 DEF SamePipe
  <2>6. Others(t)
    BY <2>1, <2>3 DEF Others
  <2>7. Typed'
    BY <2>1, <2>2, <2>3, ThreadSame DEF Typed, TableType, HandleType,
       SessionType, WorkerType, ResultType, history
  <2>8. Placed'
    <3>1. PlacedAt(t)'
      BY <1>1, <2>1, <2>3, <2>4, PlacedSame DEF PlacedAt, Killing, history
    <3> QED  BY <2>1, <2>6, <3>1, OthersPlaced DEF history
  <2>9. Locking'
    <3>1. ~Late(t)' /\ call'[t].pc \notin Killing
      BY <2>3 DEF Late, Killing
    <3> QED  BY <1>1, <2>1, <2>3, <2>6, <3>1, OthersLocking
  <2>10. Unmade' /\ Answering'
    BY <2>1, <2>4, <2>5 DEF Unmade, Answering, history
  <2>11. Stopping'
    <3>1. Runs' = Runs /\ \A r : Stoppable(r)' <=> Stoppable(r)
      BY <2>1, ThreadSame
    <3> QED  BY <1>1, <2>1, <2>5, <3>1 DEF Stopping, StopsOwn
  <2>12. PassedOn'
    <3> SUFFICES ASSUME NEW u \in Threads, call'[u].pc = "wait", call'[u].told
                 PROVE  Heard(u)'
      BY DEF PassedOn
    <3>1. CASE u = t
      BY <2>2, <2>3, <3>1 DEF Heard
    <3>2. CASE u # t
      <4>1. call'[u] = call[u] /\ Heard(u) /\ On(u) \in Handles
        BY <2>3, <3>2 DEF PassedOn, Placed, PlacedAt
      <4>2. Stoppable(Id(u))' <=> Stoppable(Id(u))
        BY <2>1, <2>4, ThreadSame DEF Stoppable
      <4> QED  BY <2>1, <2>4, <2>5, <4>1, <4>2 DEF Heard
    <3> QED  BY <3>1, <3>2
  <2>13. Once'
    <3> SUFFICES ASSUME NEW u \in Threads, NEW k \in Place
                 PROVE  OnceFor(u, k)'
      BY DEF Once
    <3>1. \A g \in Handles :
            /\ <<u, k>> \in Sent(g)' <=> <<u, k>> \in Sent(g)
            /\ Underway(<<u, k>>, g)' <=> Underway(<<u, k>>, g)
      BY <2>1, <2>5 DEF Underway
    <3>2. /\ Carries(<<u, k>>)' <=> Carries(<<u, k>>)
          /\ ForOrder(<<u, k>>)' <=> ForOrder(<<u, k>>)
      BY <2>1, ThreadSame DEF Carries, history
    <3>3. OnceFor(u, k)
      BY DEF Once
    <3> QED  BY <2>1, <2>4, <3>1, <3>2, <3>3 DEF OnceFor, history
  <2> QED
    BY <2>7, <2>8, <2>9, <2>10, <2>11, <2>12, <2>13
<1> QED  BY <1>1, <1>2, <1>3 DEF PassStop

(* A shutdown is sent under the lock of the handle; it is no request that  *)
(* anybody waits for.                                                      *)
LEMMA DisposeLockKeeps ==
  ASSUME WInv, NEW t \in Threads, DisposeLock(t)
  PROVE  WInv'
<1> USE DEF WInv
<1>0. PICK h \in Handles : h = On(t)
  BY DEF Placed, PlacedAt, DisposeLock
<1>1. /\ PlacedAt(t) /\ ~Finished(t) /\ ~Out(t) /\ On(t) = h
      /\ call[t].pc = "dispose_lock" /\ CallType /\ PipeType
      /\ HandleType /\ SessionType /\ ~Late(t) /\ call[t].pc \notin Killing
  BY <1>0 DEF Typed, Placed, PlacedAt, DisposeLock, Out, Killing, Late
<1>2. CASE Go(t, "dispose_close") /\ UNCHANGED <<handle, pipe>>
  <2>1. Quietly /\ workers' = workers /\ faults' = faults
    BY <1>2 DEF DisposeLock, Quietly
  <2>2. HandleType' /\ SessionType'
    BY <1>1, <1>2, SessionFacts DEF DisposeLock, HandleType
  <2> QED
    BY <1>1, <1>2, <2>1, <2>2, GoKeeps DEF Pcs, Killing
<1>3. CASE /\ handle[h].lock = NoThread /\ Go(t, "dispose_wait")
           /\ handle' = [handle EXCEPT ![h].lock = t]
           /\ pipe' = [pipe EXCEPT ![h].to = Append(@, <<t, 0>>)]
  <2>1. UNCHANGED <<plan, workers, made, worker, session, result, stopped,
                    faults, history>>
    BY <1>3 DEF DisposeLock
  <2>2. <<t, 0>> \in AnyRequest \ Request
    BY PlanAssumption DEF Request, AnyRequest
  <2>3. /\ PipeType' /\ \A g \in Handles \ {h} : SamePipe(g)
        /\ Sent(h)' = Sent(h) \cup {<<t, 0>>}
        /\ Answered(h)' = Answered(h) /\ Wishes(h)' = Wishes(h)
        /\ NoRepeats(pipe[h].to) => NoRepeats(pipe'[h].to)
    BY <1>1, <1>3, <2>2, PutTo
  <2>4. /\ CallType' /\ \A u \in Threads \ {t} : call'[u] = call[u]
        /\ call'[t].pc = "dispose_wait" /\ call'[t].at = call[t].at
        /\ On(t)' = h /\ call'[t].told = call[t].told
        /\ call'[t].end = call[t].end
    BY <1>1, <1>3, GoFacts DEF Pcs
  <2>5. \A u \in Threads : /\ call'[u].at = call[u].at /\ On(u)' = On(u)
                           /\ Out(u)' = Out(u) /\ Id(u)' = Id(u)
                           /\ call'[u].told = call[u].told
    BY <1>1, <2>4 DEF On, Out, Id, Killing
  <2>6. \A g \in Handles :
          /\ Sent(g) \subseteq Sent(g)'
          /\ Sent(g)' \subseteq Sent(g) \cup {<<t, 0>>}
          /\ g # h => Sent(g)' = Sent(g)
          /\ Answered(g)' = Answered(g) /\ Wishes(g)' = Wishes(g)
          /\ NoRepeats(pipe[g].to) => NoRepeats(pipe'[g].to)
    BY <2>3 DEF SamePipe
  <2>7. /\ HandleType' /\ handle'[h].lock = t
        /\ \A g \in Handles \ {h} : handle'[g] = handle[g]
    BY <1>1, <1>3 DEF HandleType
  <2>8. Others(t)
    BY <2>1, <2>4 DEF Others
  <2>9. Typed'
    BY <2>1, <2>3, <2>4, <2>7, ThreadSame DEF Typed, TableType,
       SessionType, WorkerType, ResultType, history
  <2>10. Placed'
    <3>1. PlacedAt(t)'
      BY <1>1, <2>1, <2>4, PlacedSame DEF PlacedAt, Killing, history
    <3> QED  BY <2>1, <2>8, <3>1, OthersPlaced DEF history
  <2>11. Locking'
    <3>1. ~Late(t)' /\ call'[t].pc \notin Killing
      BY <2>4 DEF Late, Killing
    <3> QED  BY <1>1, <1>3, <2>4, <2>7, <2>8, <3>1, OthersLocking
  <2>12. Unmade'
    <3>1. ~(h > made)
      BY PlanAssumption, <1>1 DEF Unmade, Typed, TableType, Handles
    <3> QED  BY <2>1, <2>5, <2>6, <3>1 DEF Unmade
  <2>13. Answering' /\ Stopping'
    <3>1. Runs' = Runs /\ \A r : Stoppable(r)' <=> Stoppable(r)
      BY <2>1, ThreadSame
    <3> QED
      BY <2>1, <2>6, <3>1 DEF Answering, Stopping, StopsOwn, history
  <2>14. PassedOn'
    <3> SUFFICES ASSUME NEW u \in Threads, call'[u].pc = "wait", call'[u].told
                 PROVE  Heard(u)'
      BY DEF PassedOn
    <3>1. call[u].pc = "wait" /\ call[u].told
      BY <1>1, <2>4, <2>5
    <3>2. Heard(u) /\ On(u) \in Handles /\ Id(u) \in Request
      BY <3>1, PlanFacts DEF PassedOn, Placed, PlacedAt
    <3>3. Id(u) # <<t, 0>> /\ (Stoppable(Id(u))' <=> Stoppable(Id(u)))
      BY <2>1, <2>2, <2>5, <3>2, ThreadSame DEF Stoppable
    <3> QED  BY <2>1, <2>5, <2>6, <3>2, <3>3 DEF Heard
  <2>15. Once'
    <3> SUFFICES ASSUME NEW u \in Threads, NEW k \in Place
                 PROVE  OnceFor(u, k)'
      BY DEF Once
    <3>1. <<u, k>> # <<t, 0>>
      BY PlanAssumption DEF Place
    <3>2. \A g \in Handles :
            /\ <<u, k>> \in Sent(g)' <=> <<u, k>> \in Sent(g)
            /\ Underway(<<u, k>>, g)' <=> Underway(<<u, k>>, g)
      BY <2>1, <2>6, <3>1 DEF Underway
    <3>3. /\ Carries(<<u, k>>)' <=> Carries(<<u, k>>)
          /\ ForOrder(<<u, k>>)' <=> ForOrder(<<u, k>>)
      BY <2>1, ThreadSame DEF Carries, history
    <3>4. OnceFor(u, k)
      BY DEF Once
    <3> QED  BY <2>1, <2>5, <3>2, <3>3, <3>4 DEF OnceFor, history
  <2> QED
    BY <2>9, <2>10, <2>11, <2>12, <2>13, <2>14, <2>15
<1> QED  BY <1>1, <1>2, <1>3 DEF DisposeLock

(* An answer that is taken from the pipe disturbs nobody.                  *)
LEMMA TakenFacts ==
  ASSUME WInv, NEW h \in Handles, worker' = worker,
         pipe' = pipe \/ ( /\ pipe[h].from # <<>>
                           /\ pipe' = [pipe EXCEPT ![h].from = Tail(@)] )
  PROVE  PipeType' /\ WorkerType' /\ \A g \in Handles : Quiet(g) /\ Kept(g)
<1>1. PipeType /\ WorkerType
  BY DEF WInv, Typed
<1>2. CASE pipe' = pipe
  BY <1>1, <1>2, PipeSame DEF Quiet, Kept, SamePipe, WorkerType
<1>3. CASE /\ pipe[h].from # <<>>
           /\ pipe' = [pipe EXCEPT ![h].from = Tail(@)]
  <2>1. /\ PipeType' /\ \A g \in Handles \ {h} : SamePipe(g)
        /\ Answered(h)' \subseteq Answered(h)
        /\ Sent(h)' = Sent(h) /\ Wishes(h)' = Wishes(h)
        /\ pipe'[h].to = pipe[h].to
    BY <1>1, <1>3, TakeFrom
  <2> QED  BY <1>1, <2>1 DEF Quiet, Kept, SamePipe, WorkerType
<1> QED  BY <1>2, <1>3

(* The wait of a shutdown is over.                                         *)
LEMMA DisposeWaitKeeps ==
  ASSUME WInv, NEW t \in Threads, DisposeWait(t)
  PROVE  WInv'
<1> USE DEF WInv
<1>0. PICK h \in Handles : h = On(t)
  BY DEF Placed, PlacedAt, DisposeWait
<1>1. /\ PlacedAt(t) /\ ~Finished(t) /\ ~Out(t) /\ On(t) = h
      /\ call[t].pc = "dispose_wait" /\ CallType /\ handle[h].lock = t
      /\ HandleType /\ ~Late(t) /\ call[t].pc \notin Killing
  BY <1>0 DEF Typed, Placed, PlacedAt, DisposeWait, Out, Killing, Late,
     Locking, Locks
<1>2. UNCHANGED <<plan, workers, made, worker, session, result, stopped,
                  faults, history>>
  BY DEF DisposeWait
<1>3. PipeType' /\ WorkerType' /\ \A g \in Handles : Quiet(g)
  BY <1>1, <1>2, TakenFacts DEF DisposeWait
<1>4. /\ CallType' /\ \A u \in Threads \ {t} : call'[u] = call[u]
      /\ call'[t].pc = "dispose_close" /\ call'[t].at = call[t].at
      /\ On(t)' = h /\ call'[t].told = call[t].told
      /\ call'[t].end = call[t].end
  BY <1>1, GoFacts DEF DisposeWait, Pcs
<1>5. /\ HandleType' /\ handle'[h].lock = NoThread
      /\ \A g \in Handles \ {h} : handle'[g] = handle[g]
  BY <1>1, ReleaseFacts DEF DisposeWait
<1>6. Moves(t)
  <2>1. made \in Nat /\ made <= made /\ workers <= made /\ h <= made
    BY <1>1, PlanAssumption DEF Typed, TableType, Unmade
  <2> QED  BY <1>1, <1>2, <1>3, <1>4, <2>1 DEF Moves, Around, Others, history
<1>7. Typed'
  BY <1>2, <1>3, <1>4, <1>5, ThreadSame DEF Typed, TableType, SessionType,
     ResultType, history
<1>8. PlacedAt(t)'
  BY <1>1, <1>2, <1>4, PlacedSame DEF PlacedAt, Killing, history
<1>9. Locking'
  <2>1. ~Late(t)' /\ ~Locks(t)' /\ call'[t].pc \notin Killing
    BY <1>4 DEF Late, Locks, Killing
  <2> QED  BY <1>1, <1>5, <1>6, <2>1, OthersLocking DEF Moves, Around
<1> QED  BY <1>6, <1>7, <1>8, <1>9, MovesKeep

-----------------------------------------------------------------------------
(* The answer ends the request it names: it was carried out.  An answer    *)
(* that names another one fails this one, whose own answer may come later. *)
LEMMA ReceiveKeeps ==
  ASSUME WInv, NEW t \in Threads, Receive(t)
  PROVE  WInv'
<1> USE DEF WInv
<1>0. PICK h \in Handles : h = On(t)
  BY DEF Placed, PlacedAt, Receive
<1>1. /\ PlacedAt(t) /\ ~Finished(t) /\ Out(t) /\ On(t) = h
      /\ Ask(t) # "order" /\ call[t].pc = "wait" /\ CallType
      /\ handle[h].lock = t /\ HandleType /\ SessionType /\ PipeType
  BY <1>0 DEF Typed, Placed, PlacedAt, Locking, Locks, Receive, Out
<1>2. UNCHANGED <<plan, workers, made, worker, stopped, faults, history>>
  BY DEF Receive
<1>3. PICK a \in Answered(h) :
        /\ a \in AnswerType
        /\ \/ /\ a.id # Id(t)
              /\ Release(h) /\ End(t, "mismatch") /\ UNCHANGED session
           \/ /\ a.id = Id(t) /\ a.restart
              /\ session' = Observed(handle[h].bound, a.ready)
              /\ call' = [call EXCEPT ![t].pc = "kill_end", ![t].end = "answered"]
              /\ UNCHANGED <<handle, result>>
           \/ /\ a.id = Id(t)
              /\ session' = Observed(handle[h].bound, a.ready)
              /\ Release(h) /\ End(t, a.how)
  <2>1. pipe[h].from # <<>>
    BY <1>1 DEF Receive
  <2>2. pipe' = [pipe EXCEPT ![h].from = Tail(@)]
    BY <1>1 DEF Receive
  <2>3. Head(pipe[h].from) \in Answered(h) /\ Head(pipe[h].from) \in AnswerType
    BY <1>1, <2>1, <2>2, TakeFrom
  <2> QED  BY <1>1, <2>3 DEF Receive
<1>4. PipeType' /\ WorkerType' /\ \A g \in Handles : Quiet(g) /\ Kept(g)
  BY <1>1, <1>2, TakenFacts DEF Receive
<1>5. made \in Nat /\ made <= made /\ workers <= made /\ h <= made /\ NoHandle <= made
  BY <1>1, PlanAssumption DEF Typed, TableType, Unmade, NoHandle
<1>6. /\ Id(t) = <<t, call[t].at>> /\ Id(t) \in Request /\ call[t].at \in Place
  BY <1>1, PlanFacts
<1>7. a.id = Id(t) => /\ <<Id(t), a.how>> \in carried /\ Carries(Id(t))
                      /\ a.restart => a.how = "answered"
  BY <1>3, <1>6 DEF Answering, Carries, AnswerType
<1>8. Carries(Id(t)) => \A g \in Handles : ~Underway(Id(t), g)
  BY <1>6 DEF Once, OnceFor
<1>9. TableType' /\ begun' \in [Request -> Nat] /\ carried' \subseteq Request \X Ways
  BY <1>2, ThreadSame DEF Typed, TableType, ResultType, history
<1>10. SessionType'
  <2>1. a.ready \in BOOLEAN
    BY <1>3 DEF AnswerType
  <2>2. session' = session \/ session' = Observed(handle[h].bound, a.ready)
    BY <1>3
  <2> QED  BY <1>1, <2>1, <2>2, SessionFacts
<1>11. ASSUME NEW how \in Ends, Release(h), End(t, how),
              Carries(Id(t)) \/ how = "mismatch"
       PROVE  WInv'
  <2>1. \A u \in Threads \ {t} : call'[u] = call[u]
    BY <1>1, <1>11 DEF End, CallType
  <2>2. On(t)' = NoHandle
    BY <1>1, <1>11 DEF End, CallType, On
  <2>3. Concludes(t, how)
    BY <1>1, <1>2, <1>4, <1>5, <1>11, <2>1, <2>2 DEF Concludes, Around, Others
  <2>4. CallType' /\ result' \in [Request -> Ends \cup {"none"}]
    BY <2>3, ConcludesFacts
  <2>5. /\ HandleType' /\ handle'[h].lock = NoThread
        /\ \A g \in Handles \ {h} : handle'[g] = handle[g]
    BY <1>1, <1>11, ReleaseFacts
  <2>6. Typed'
    BY <1>4, <1>9, <1>10, <2>4, <2>5 DEF Typed, ResultType
  <2>7. \A g \in Handles : Remains(Id(t), g) => how = "mismatch"
    BY <1>4, <1>8, <1>11 DEF Remains, Underway, Kept
  <2>8. \A g \in Handles : \/ handle'[g].lock = handle[g].lock
                           \/ handle[g].lock \in {t, NoThread}
    BY <1>1, <2>5
  <2> QED  BY <1>2, <2>3, <2>6, <2>7, <2>8, ConcludesKeep DEF history
<1>12. CASE a.id = Id(t) /\ a.restart /\ UNCHANGED <<handle, result>>
            /\ call' = [call EXCEPT ![t].pc = "kill_end", ![t].end = "answered"]
  <2>0. "kill_end" \in Pcs
    BY DEF Pcs, Killing
  <2>1. /\ CallType' /\ \A u \in Threads \ {t} : call'[u] = call[u]
        /\ call'[t].pc = "kill_end" /\ call'[t].end = "answered"
        /\ call'[t].at = call[t].at /\ On(t)' = h
        /\ call'[t].told = call[t].told
    BY <1>1, <1>12, <2>0 DEF CallType, On
  <2>2. Moves(t)
    BY <1>1, <1>2, <1>4, <1>5, <1>12, <2>1 DEF Moves, Around, Others, Out,
       Killing, history
  <2>3. Typed'
    BY <1>1, <1>2, <1>4, <1>9, <1>10, <1>12, <2>1 DEF Typed, HandleType,
       ResultType
  <2>4. PlacedAt(t)'
    BY <1>1, <1>2, <1>7, <1>12, <2>1, PlacedSame DEF history, Killing, Out
  <2>5. Locking'
    <3>1. Ask(t)' = Ask(t)
      BY <1>2, <2>1, ThreadSame
    <3>2. ~Late(t)' /\ ~Locks(t)'
      BY <1>1, <2>1, <3>1 DEF Late, Locks
    <3> QED
      BY <1>1, <1>12, <2>1, <2>2, <3>2, OthersLocking DEF Moves, Around,
         Locks
  <2> QED  BY <2>2, <2>3, <2>4, <2>5, MovesKeep
<1> QED
  BY <1>3, <1>7, <1>11, <1>12 DEF Ends, AnswerType, Ways

(* The process of a handle and all that was on its pipes are gone.         *)
LEMMA DroppedFacts ==
  ASSUME WInv, NEW h \in Handles,
         worker' = [worker EXCEPT ![h] = Gone(@)],
         pipe' = [pipe EXCEPT ![h] = Emptied]
  PROVE  /\ PipeType' /\ WorkerType' /\ Lost(h)
         /\ \A g \in Handles \ {h} : Kept(g)
         /\ \A g \in Handles : Quiet(g)
<1>1. PipeType /\ WorkerType
  BY DEF WInv, Typed
<1>2. /\ PipeType' /\ \A g \in Handles \ {h} : SamePipe(g)
      /\ Sent(h)' = {} /\ Answered(h)' = {} /\ Wishes(h)' = {}
      /\ NoRepeats(pipe'[h].to)
  BY <1>1, PipeEmptied
<1>3. WorkerType' /\ worker'[h] = Gone(worker[h])
  BY <1>1 DEF WorkerType, Gone
<1>4. \A g \in Handles \ {h} : worker'[g] = worker[g]
  BY <1>1 DEF WorkerType
<1>5. Lost(h) /\ \A g \in Handles \ {h} : Kept(g)
  BY <1>2, <1>3, <1>4 DEF Lost, Kept, SamePipe
<1> QED  BY <1>2, <1>3, <1>5 DEF Quiet, SamePipe

(* A thread that drops its worker has nothing more on its way there.       *)
LEMMA DropKeeps ==
  ASSUME WInv, NEW t \in Threads, NEW how \in Ends, NEW h \in Handles,
         h = On(t), ~Finished(t),
         worker' = [worker EXCEPT ![h] = Gone(@)],
         pipe' = [pipe EXCEPT ![h] = Emptied],
         End(t, how), HandleType',
         \A g \in Handles : \/ handle'[g].lock = handle[g].lock
                            \/ handle[g].lock \in {t, NoThread},
         UNCHANGED <<plan, workers, made, session, stopped, faults, history>>
  PROVE  WInv'
<1> USE DEF WInv
<1>1. /\ PipeType' /\ WorkerType' /\ Lost(h)
      /\ \A g \in Handles \ {h} : Kept(g)
      /\ \A g \in Handles : Quiet(g)
  BY DroppedFacts
<1>2. /\ \A u \in Threads \ {t} : call'[u] = call[u]
      /\ On(t)' = NoHandle
  BY DEF End, Typed, CallType, On
<1>3. Concludes(t, how)
  <2>1. made \in Nat /\ made <= made /\ workers <= made /\ NoHandle <= made
    BY PlanAssumption DEF Typed, TableType, Unmade, NoHandle
  <2> QED  BY <1>1, <1>2, <2>1 DEF Concludes, Around, Others
<1>4. Typed'
  <2>1. CallType' /\ result' \in [Request -> Ends \cup {"none"}]
    BY <1>3, ConcludesFacts
  <2> QED
    BY <1>1, <2>1, ThreadSame DEF Typed, TableType, SessionType, ResultType,
       history
<1>5. ASSUME NEW g \in Handles PROVE ~Remains(Id(t), g)
  <2>1. /\ Id(t) = <<t, call[t].at>> /\ call[t].at \in Place
        /\ call[t].at \in Nat /\ Id(t) # NoRequest
    BY PlanFacts, PlanAssumption DEF Place, NoRequest
  <2>2. CASE g = h
    BY <1>1, <2>1, <2>2, GoneFacts DEF Remains, Lost, Typed
  <2>3. CASE g # h
    <3>1. ~Underway(Id(t), g)
      BY <2>1, <2>3 DEF Once, OnceFor
    <3> QED  BY <1>1, <2>3, <3>1 DEF Remains, Underway, Kept
  <2> QED  BY <2>2, <2>3
<1> QED  BY <1>3, <1>4, <1>5, ConcludesKeep DEF history

(* The worker of a request that failed, or that must be replaced, is gone  *)
(* before the request is reported.                                         *)
LEMMA KillKeeps ==
  ASSUME WInv, NEW t \in Threads, Kill(t)
  PROVE  WInv'
<1> USE DEF WInv
<1>0. PICK h \in Handles : h = On(t)
  BY DEF Placed, PlacedAt, Kill
<1>1. /\ PlacedAt(t) /\ ~Finished(t) /\ CallType /\ HandleType
      /\ call[t].end \in Ends
  BY DEF Typed, Placed, PlacedAt, Kill, Killing, CallType, Ends
<1>2. HandleType' /\ \A g \in Handles : \/ handle'[g].lock = handle[g].lock
                                        \/ handle[g].lock \in {t, NoThread}
  <2>1. handle' = [handle EXCEPT ![h].open = FALSE,
                                 ![h].lock = IF @ = t THEN NoThread ELSE @]
    BY <1>0 DEF Kill
  <2>2. \/ handle' = [handle EXCEPT ![h].open = FALSE, ![h].lock = NoThread]
           /\ handle[h].lock = t
        \/ handle' = [handle EXCEPT ![h].open = FALSE,
                                    ![h].lock = handle[h].lock]
    BY <1>1, <2>1 DEF HandleType
  <2>3. PICK l \in {NoThread, handle[h].lock} :
          /\ handle' = [handle EXCEPT ![h].open = FALSE, ![h].lock = l]
          /\ l = handle[h].lock \/ handle[h].lock = t
    BY <2>2
  <2>4. l \in Threads \cup {NoThread}
    BY <1>1, <2>3 DEF HandleType
  <2>5. /\ handle'[h] = [lock |-> l, retired |-> handle[h].retired,
                         open |-> FALSE, bound |-> handle[h].bound]
        /\ \A g \in Handles \ {h} : handle'[g] = handle[g]
    BY <1>1, <2>3 DEF HandleType
  <2>6. \A g \in Handles :
          handle'[g] \in [lock : Threads \cup {NoThread}, retired : BOOLEAN,
                          open : BOOLEAN, bound : 0..MaxHandles]
    <3> TAKE g \in Handles
    <3>1. handle[g] \in [lock : Threads \cup {NoThread}, retired : BOOLEAN,
                         open : BOOLEAN, bound : 0..MaxHandles]
      BY <1>1 DEF HandleType
    <3>2. CASE g = h
      <4>1. handle[h].retired \in BOOLEAN /\ handle[h].bound \in 0..MaxHandles
        BY <3>1, <3>2
      <4>2. [lock |-> l, retired |-> handle[h].retired, open |-> FALSE,
             bound |-> handle[h].bound]
              \in [lock : Threads \cup {NoThread}, retired : BOOLEAN,
                   open : BOOLEAN, bound : 0..MaxHandles]
        BY <2>4, <4>1
      <4> QED  BY <2>5, <3>2, <4>2
    <3>3. CASE g # h
      BY <2>5, <3>1, <3>3
    <3> QED  BY <3>2, <3>3
  <2>7. HandleType'
    <3>1. handle' = [g \in Handles |-> handle'[g]]
      BY <1>1, <2>3 DEF HandleType
    <3> QED  BY <2>6, <3>1 DEF HandleType
  <2>8. handle'[h].lock = l
    BY <2>5
  <2> QED  BY <2>3, <2>5, <2>7, <2>8
<1> QED  BY <1>0, <1>1, <1>2, DropKeeps DEF Kill

(* So is the worker that a drop or the end of the service waited for.      *)
LEMMA DisposeJoinKeeps ==
  ASSUME WInv, NEW t \in Threads, DisposeJoin(t)
  PROVE  WInv'
<1> USE DEF WInv
<1>0. PICK h \in Handles : h = On(t)
  BY DEF Placed, PlacedAt, DisposeJoin
<1>1. ~Finished(t) /\ HandleType' /\ handle' = handle
  BY DEF Typed, HandleType, Placed, PlacedAt, DisposeJoin
<1> QED  BY <1>0, <1>1, DropKeeps DEF DisposeJoin, Ends

-----------------------------------------------------------------------------
(* Somebody wants a run to stop.                                           *)
LEMMA AskStopKeeps ==
  ASSUME WInv, NEW t \in Threads, AskStop(t)
  PROVE  WInv'
<1> USE DEF WInv
<1>1. /\ stopped' = stopped \cup {t} /\ t \in Runs
      /\ UNCHANGED <<plan, workers, made, handle, pipe, worker, session, call,
                     result, faults, history>>
  BY DEF AskStop
<1>2. /\ Runs' = Runs /\ \A u : SameThread(u)
      /\ \A r : Stoppable(r)' <=> Stoppable(r)
  BY <1>1, ThreadSame
<1>3. \A g \in Handles : SamePipe(g)
  BY <1>1, PipeSame
<1>4. Typed'
  BY <1>1, <1>2 DEF Typed, TableType, HandleType, SessionType, WorkerType,
     PipeType, CallType, ResultType, history
<1>5. Placed' /\ Locking'
  <2>1. Placed'
    BY <1>1, <1>2 DEF Placed, PlacedAt, SameThread, history
  <2>2. Locking'
    BY <1>1, <1>2 DEF Locking, SameThread
  <2> QED  BY <2>1, <2>2
<1>6. Unmade' /\ Answering'
  BY <1>1, <1>2, <1>3 DEF Unmade, Answering, SamePipe, SameThread, history
<1>7. Once'
  <2> SUFFICES ASSUME NEW u \in Threads, NEW k \in Place
               PROVE  OnceFor(u, k)'
    BY DEF Once
  <2>1. \A g \in Handles :
          /\ <<u, k>> \in Sent(g)' <=> <<u, k>> \in Sent(g)
          /\ Underway(<<u, k>>, g)' <=> Underway(<<u, k>>, g)
    BY <1>1, <1>3 DEF Underway, SamePipe
  <2>2. /\ Carries(<<u, k>>)' <=> Carries(<<u, k>>)
        /\ ForOrder(<<u, k>>)' <=> ForOrder(<<u, k>>)
    BY <1>1, ThreadSame DEF Carries, history
  <2>3. OnceFor(u, k)
    BY DEF Once
  <2> QED  BY <1>1, <1>2, <2>1, <2>2, <2>3 DEF OnceFor, SameThread, history
<1>8. Stopping' /\ PassedOn'
  <2>1. Stopping'
    BY <1>1, <1>2, <1>3 DEF Stopping, StopsOwn, SamePipe
  <2>2. ASSUME NEW u \in Threads, call[u].pc = "wait", call[u].told
        PROVE  Heard(u)'
    <3>1. Heard(u) /\ On(u) \in Handles
      BY <2>2 DEF PassedOn, Placed, PlacedAt
    <3> QED  BY <1>1, <1>2, <1>3, <3>1 DEF Heard, SamePipe, SameThread
  <2> QED  BY <1>1, <2>1, <2>2 DEF PassedOn
<1> QED  BY <1>4, <1>5, <1>6, <1>7, <1>8

-----------------------------------------------------------------------------
(* A run that waits and was asked to stop has one request under way, the   *)
(* one it waits for: a run that had another one's answer is over.          *)
LEMMA WaitingRun ==
  ASSUME WInv, NEW u \in Threads, call[u].pc = "wait", u \in stopped,
         NEW k \in Place, NEW h \in Handles, Underway(<<u, k>>, h)
  PROVE  <<u, k>> = Id(u)
<1>1. /\ OnceFor(u, k) /\ PlacedAt(u) /\ u \in Runs /\ call[u].at \in Nat
      /\ k \in Nat
  BY PlanAssumption DEF WInv, Once, Placed, Typed, TableType, CallType, Place
<1>2. ~(k < call[u].at)
  BY <1>1 DEF OnceFor, PlacedAt
<1> QED  BY <1>1, <1>2 DEF OnceFor, Id

(* What the worker does moves no thread.                                   *)
LEMMA WorkerPlaces ==
  ASSUME WInv, UNCHANGED <<plan, handle, call, result>>,
         carried \subseteq carried'
  PROVE  Placed' /\ Locking' /\ HandleType' /\ CallType'
<1>1. Runs' = Runs /\ \A u : SameThread(u)
  BY ThreadSame
<1>2. Placed'
  <2> SUFFICES ASSUME NEW u \in Threads PROVE PlacedAt(u)'
    BY DEF Placed
  <2>1. PlacedAt(u)
    BY DEF WInv, Placed
  <2> QED  BY <1>1, <2>1 DEF PlacedAt, SameThread
<1>3. Locking'
  BY <1>1 DEF WInv, Locking, SameThread
<1> QED  BY <1>2, <1>3 DEF WInv, Typed, HandleType, CallType

(* A worker that goes while no thread moves.                               *)
LEMMA WorkerGoes ==
  ASSUME WInv, UNCHANGED <<plan, workers, made, handle, session, call,
                           result, stopped, history>>,
         faults' \in 0..MaxFaults, PipeType', WorkerType',
         \A g \in Handles : Quiet(g)
  PROVE  WInv'
<1> USE DEF WInv
<1>1. Moves(NoThread)
  <2>1. made \in Nat /\ made <= made
    BY PlanAssumption DEF Typed, TableType
  <2> QED
    BY <2>1, PlanAssumption DEF Moves, Around, Others, Unmade, Out, On,
       history
<1>2. Unmade' /\ Answering' /\ Stopping' /\ Once' /\ PassedOn'
  BY <1>1, AroundUnmade, AroundAnswering, AroundStopping, MovesOnce,
     MovesPassedOn DEF Moves
<1>3. Placed' /\ Locking' /\ HandleType' /\ CallType'
  BY WorkerPlaces DEF history
<1>4. Typed'
  BY <1>3, ThreadSame DEF Typed, TableType, SessionType, ResultType, history
<1> QED  BY <1>2, <1>3, <1>4

(* A worker exits when its pipe is closed, or dies.                        *)
LEMMA LeaveKeeps ==
  ASSUME WInv, NEW h \in Handles, Leave(h)
  PROVE  WInv'
<1>1. PipeType' /\ WorkerType' /\ \A g \in Handles : Quiet(g)
  BY DroppedFacts DEF Leave
<1>2. faults' \in 0..MaxFaults
  BY DEF WInv, Typed, TableType, Leave
<1> QED  BY <1>1, <1>2, WorkerGoes DEF Leave

(* What was on its way to a worker that dies is lost.                      *)
LEMMA DieKeeps ==
  ASSUME WInv, NEW h \in Handles, Die(h)
  PROVE  WInv'
<1>1. PipeType /\ WorkerType
  BY DEF WInv, Typed
<1>2. /\ PipeType' /\ \A g \in Handles \ {h} : SamePipe(g)
      /\ Sent(h)' = {} /\ Answered(h)' = Answered(h) /\ Wishes(h)' = {}
      /\ NoRepeats(pipe'[h].to)
  BY <1>1, PipeLost DEF Die
<1>3. WorkerType' /\ worker'[h] = Gone(worker[h])
  BY <1>1 DEF WorkerType, Gone, Die
<1>4. \A g \in Handles \ {h} : worker'[g] = worker[g]
  BY <1>1 DEF WorkerType, Die
<1>5. Lost(h) /\ \A g \in Handles \ {h} : Kept(g)
  BY <1>2, <1>3, <1>4 DEF Lost, Kept, SamePipe
<1>6. \A g \in Handles : Quiet(g)
  BY <1>2, <1>5 DEF Quiet, SamePipe
<1>7. faults' \in 0..MaxFaults
  BY PlanAssumption DEF WInv, Typed, TableType, Die
<1> QED  BY <1>2, <1>3, <1>6, <1>7, WorkerGoes DEF Die

(* The worker starts on the request that came first: it was never started  *)
(* on before.  A run that was asked to stop finds its stop set.            *)
LEMMA TakeKeeps ==
  ASSUME WInv, NEW h \in Handles, Take(h)
  PROVE  WInv'
<1> USE DEF WInv
<1>0. PICK r \in AnyRequest : r = Head(pipe[h].to)
  BY TakeTo DEF Take, Typed
<1>1. /\ UNCHANGED <<plan, workers, made, handle, session, call, result,
                     stopped, faults, carried>>
      /\ worker[h].up /\ worker[h].req = NoRequest
      /\ begun' = IF r \in Request THEN [begun EXCEPT ![r] = begun[r] + 1]
                  ELSE begun
  BY <1>0 DEF Take, Typed, ResultType
<1>2. /\ PipeType' /\ \A g \in Handles \ {h} : SamePipe(g)
      /\ Sent(h) = Sent(h)' \cup {r}
      /\ Answered(h)' = Answered(h) /\ Wishes(h)' = Wishes(h)
      /\ NoRepeats(pipe[h].to) =>
           NoRepeats(pipe'[h].to) /\ (r \in Request => r \notin Sent(h)')
  BY <1>0, TakeTo DEF Take, Typed
<1>3. /\ worker' = [worker EXCEPT ![h] =
            IF Stoppable(r)
            THEN [worker[h] EXCEPT !.req = r, !.active = r[1],
                     !.stop = r[1] \in worker[h].pending,
                     !.pending = worker[h].pending \ {r[1]}]
            ELSE [worker[h] EXCEPT !.req = r]]
      /\ WorkerType
  BY <1>0 DEF Take, Typed, WorkerType
<1>4. /\ worker'[h].up /\ worker'[h].req = r
      /\ Stoppable(r) =>
           /\ worker'[h].active = r[1]
           /\ worker'[h].stop <=> r[1] \in worker[h].pending
           /\ worker'[h].pending = worker[h].pending \ {r[1]}
      /\ ~Stoppable(r) =>
           /\ worker'[h].active = worker[h].active
           /\ worker'[h].stop = worker[h].stop
           /\ worker'[h].pending = worker[h].pending
      /\ \A g \in Handles \ {h} : worker'[g] = worker[g]
  BY <1>1, <1>3 DEF WorkerType
<1>5. /\ r[1] \in Threads /\ r[2] \in 0..MaxAsks
      /\ r = <<r[1], r[2]>>
      /\ r[2] # 0 <=> r[2] \in Place
      /\ r[2] # 0 <=> r \in Request
      /\ Stoppable(r) => r[1] \in Runs /\ r[2] # 0
  BY PlanAssumption DEF AnyRequest, Request, Place, Stoppable
<1>6. WorkerType'
  <2>1. r[1] \in Threads /\ worker[h].pending \ {r[1]} \subseteq Threads
    BY <1>3, <1>5 DEF WorkerType
  <2> DEFINE P == [up : BOOLEAN, req : AnyRequest \cup {NoRequest},
                   active : Threads \cup {NoThread}, stop : BOOLEAN,
                   pending : SUBSET Threads, ready : BOOLEAN]
             e == IF Stoppable(r)
                  THEN [worker[h] EXCEPT !.req = r, !.active = r[1],
                     !.stop = r[1] \in worker[h].pending,
                     !.pending = worker[h].pending \ {r[1]}]
                  ELSE [worker[h] EXCEPT !.req = r]
  <2>2. worker[h] \in P
    BY <1>3 DEF WorkerType
  <2>3. e \in P
    <3> HIDE DEF WInv
    <3>1. [worker[h] EXCEPT !.req = r] \in P
      BY <2>2
    <3>2. [worker[h] EXCEPT !.req = r, !.active = r[1],
                     !.stop = r[1] \in worker[h].pending,
                     !.pending = worker[h].pending \ {r[1]}] \in P
      <4> DEFINE b == r[1] \in worker[h].pending
                 d == worker[h].pending \ {r[1]}
      <4>1. b \in BOOLEAN /\ d \in SUBSET Threads
        BY <2>1
      <4> HIDE DEF b, d
      <4>2. [worker[h] EXCEPT !.req = r, !.active = r[1], !.stop = b,
                              !.pending = d] \in P
        BY <2>1, <2>2, <4>1
      <4> QED  BY <4>2 DEF b, d
    <3> QED  BY <3>1, <3>2
  <2>4. worker \in [Handles -> P] /\ worker' = [worker EXCEPT ![h] = e]
    BY <1>3 DEF WorkerType
  <2>5. worker' \in [Handles -> P]
    <3> HIDE DEF P, e
    <3> QED  BY <2>3, <2>4
  <2> QED  BY <2>5 DEF WorkerType
<1>7. Typed'
  <2>1. begun' \in [Request -> Nat]
    BY <1>1 DEF Typed, ResultType
  <2> QED
    BY <1>1, <1>2, <1>6, <2>1, ThreadSame, WorkerPlaces
       DEF Typed, TableType, SessionType, ResultType
<1>8. Placed' /\ Locking'
  BY <1>1, WorkerPlaces
<1>9. /\ Runs' = Runs /\ \A q : Stoppable(q)' <=> Stoppable(q)
      /\ \A u : On(u)' = On(u) /\ Id(u)' = Id(u) /\ Out(u)' = Out(u)
  BY <1>1, ThreadSame DEF SameThread
<1>10. r \in Sent(h) /\ \A g \in Handles : Sent(g)' \subseteq Sent(g)
  BY <1>2 DEF SamePipe
<1>11. Unmade'
  <2>1. ~(h > made)
    BY <1>10 DEF Unmade
  <2> QED  BY <1>1, <1>4, <1>9, <1>10, <2>1 DEF Unmade
<1>12. Answering'
  BY <1>1, <1>2 DEF Answering, SamePipe
<1>13. Stopping'
  <2>1. ASSUME NEW g \in Handles \ {h} PROVE StopsOwn(g)'
    BY <1>1, <1>2, <1>4, <1>9 DEF Stopping, StopsOwn, SamePipe
  <2>2. worker[h].active = NoThread
    BY <1>1, PlanAssumption DEF Stopping, StopsOwn, NoRequest, Runs
  <2>3. /\ ~worker[h].stop /\ worker[h].pending \subseteq stopped
        /\ Wishes(h) \subseteq stopped
    BY <2>2, PlanAssumption DEF Stopping, StopsOwn, Typed, TableType, Runs
  <2>4. ASSUME Stoppable(r) PROVE StopsOwn(h)'
    <3>1. \A t \in Runs, k \in Place : r = <<t, k>> => t = r[1]
      OBVIOUS
    <3>2. r[1] \in Runs /\ r[2] \in Place /\ r = <<r[1], r[2]>>
      BY <1>5, <2>4
    <3>3. /\ worker'[h].up /\ worker'[h].req = r /\ worker'[h].active = r[1]
          /\ worker'[h].stop => r[1] \in stopped
          /\ worker'[h].pending \subseteq stopped
          /\ Wishes(h)' \subseteq stopped /\ stopped' = stopped
      BY <1>1, <1>2, <1>4, <2>3, <2>4
    <3>4. /\ worker'[h].req # NoRequest => worker'[h].up
          /\ worker'[h].active # NoThread =>
               /\ worker'[h].active \in Runs
               /\ \E k \in Place : worker'[h].req = <<worker'[h].active, k>>
          /\ \A t \in Runs, k \in Place :
               worker'[h].req = <<t, k>> /\ Stoppable(<<t, k>>) =>
                 worker'[h].active = t
          /\ worker'[h].stop => worker'[h].active \in stopped
      BY <3>1, <3>2, <3>3
    <3> QED  BY <1>9, <3>3, <3>4 DEF StopsOwn
  <2>5. ASSUME ~Stoppable(r) PROVE StopsOwn(h)'
    <3>1. \A t \in Runs, k \in Place : Stoppable(<<t, k>>) => r # <<t, k>>
      BY <2>5
    <3>2. /\ worker'[h].up /\ worker'[h].req = r
          /\ worker'[h].active = NoThread /\ ~worker'[h].stop
          /\ worker'[h].pending \subseteq stopped
          /\ Wishes(h)' \subseteq stopped /\ stopped' = stopped
      BY <1>1, <1>2, <1>4, <2>2, <2>3, <2>5
    <3>3. \A t \in Runs, k \in Place :
            worker'[h].req = <<t, k>> /\ Stoppable(<<t, k>>) =>
              worker'[h].active = t
      BY <3>1, <3>2
    <3> QED  BY <1>9, <3>2, <3>3 DEF StopsOwn
  <2> QED  BY <2>1, <2>4, <2>5 DEF Stopping
<1>14. PassedOn'
  <2> SUFFICES ASSUME NEW u \in Threads, call[u].pc = "wait", call[u].told
               PROVE  Heard(u)'
    BY <1>1 DEF PassedOn
  <2>1. Heard(u) /\ On(u) \in Handles /\ Id(u) \in Request
    BY PlanFacts DEF PassedOn, Placed, PlacedAt
  <2>2. CASE On(u) # h
    BY <1>1, <1>2, <1>4, <1>9, <2>1, <2>2 DEF Heard, SamePipe
  <2>3. CASE On(u) = h
    <3>1. CASE u \in Wishes(h)
      BY <1>2, <1>9, <2>3, <3>1 DEF Heard
    <3>2. CASE u \notin Wishes(h)
      <4>1. /\ u \in stopped /\ u \in Runs
            /\ Id(u) \in Sent(h) => u \in worker[h].pending
        BY <1>1, <2>1, <2>3, <3>2 DEF Heard, Typed, TableType
      <4>2. CASE r = Id(u)
        <5>1. r[1] = u /\ r[2] # 0
          BY <1>5, <2>1, <4>2 DEF Id
        <5>2. (Stoppable(Id(u)) => worker'[h].stop) /\ Id(u) \notin Sent(h)'
          BY <1>2, <1>4, <1>10, <2>1, <4>1, <4>2, <5>1 DEF Answering
        <5> QED  BY <1>1, <1>9, <2>3, <4>1, <5>2 DEF Heard
      <4>3. CASE r # Id(u)
        <5>1. r[2] # 0 => r[1] # u
          <6> SUFFICES ASSUME r[2] \in Place, r[1] = u PROVE FALSE
            BY <1>5
          <6>1. Underway(<<u, r[2]>>, h)
            BY <1>5, <1>10 DEF Underway
          <6> QED  BY <1>5, <4>1, <4>3, <6>1, WaitingRun
        <5>2. Id(u) \in Sent(h)' => u \in worker'[h].pending
          BY <1>4, <1>5, <1>10, <4>1, <5>1
        <5> QED  BY <1>1, <1>4, <1>9, <2>3, <4>1, <4>3, <5>2 DEF Heard
      <4> QED  BY <4>2, <4>3
    <3> QED  BY <3>1, <3>2
  <2> QED  BY <2>2, <2>3
<1>15. Once'
  <2> SUFFICES ASSUME NEW u \in Threads, NEW k \in Place
               PROVE  OnceFor(u, k)'
    BY DEF Once
  <2>0. /\ OnceFor(u, k) /\ Carries(<<u, k>>)' = Carries(<<u, k>>)
        /\ ForOrder(<<u, k>>)' <=> ForOrder(<<u, k>>)
        /\ <<u, k>> \in Request
    BY <1>1, ThreadSame DEF Once, Carries, Request, Place
  <2>1. CASE <<u, k>> # r
    <3>1. begun'[<<u, k>>] = begun[<<u, k>>]
      BY <1>1, <2>0, <2>1 DEF Typed, ResultType
    <3>2. \A g \in Handles :
            /\ Underway(<<u, k>>, g)' => Underway(<<u, k>>, g)
            /\ <<u, k>> \in Sent(g)' => <<u, k>> \in Sent(g)
            /\ worker'[g].req = <<u, k>> => worker[g].req = <<u, k>>
      BY <1>4, <1>10, <2>1 DEF Underway
    <3> QED  BY <1>1, <1>9, <2>0, <3>1, <3>2 DEF OnceFor
  <2>2. CASE <<u, k>> = r
    <3>1. Underway(<<u, k>>, h) /\ <<u, k>> \in Sent(h)
      BY <1>10, <2>2 DEF Underway
    <3>2. /\ k < call[u].at => result[<<u, k>>] = "mismatch"
          /\ k >= call[u].at => k = call[u].at /\ On(u) = h /\ Out(u)
          /\ ~Carries(<<u, k>>) /\ begun[<<u, k>>] = 0
          /\ ~ForOrder(<<u, k>>)
          /\ \A g \in Handles : Underway(<<u, k>>, g) => g = h
      BY <2>0, <3>1 DEF OnceFor
    <3>3. begun'[<<u, k>>] = 1
      BY <1>1, <2>0, <2>2, <3>2 DEF Typed, ResultType
    <3>4. \A g \in Handles : Underway(<<u, k>>, g)' => g = h
      BY <1>4, <1>10, <3>2 DEF Underway
    <3>5. \A g \in Handles : <<u, k>> \notin Sent(g)'
      BY <1>2, <1>10, <2>0, <2>2, <3>2 DEF Underway, Answering
    <3>6. k < call[u].at \/ k >= call[u].at
      BY PlanAssumption DEF Typed, CallType, Place
    <3> QED
      BY <1>1, <1>9, <2>0, <3>2, <3>3, <3>4, <3>5, <3>6 DEF OnceFor
  <2> QED  BY <2>1, <2>2
<1> QED  BY <1>7, <1>8, <1>11, <1>12, <1>13, <1>14, <1>15

(* A stop that is heard stops the run at work, or waits for its command.   *)
LEMMA HearKeeps ==
  ASSUME WInv, NEW h \in Handles, Hear(h)
  PROVE  WInv'
<1> USE DEF WInv
<1>0. PICK t \in Threads : t = Head(pipe[h].ctl)
  BY TakeCtl DEF Hear, Typed
<1>1. /\ UNCHANGED <<plan, workers, made, handle, session, call, result,
                     stopped, faults, history>>
      /\ worker[h].up /\ WorkerType
      /\ worker' = [worker EXCEPT ![h] =
              IF worker[h].active = t THEN [worker[h] EXCEPT !.stop = TRUE]
              ELSE [worker[h] EXCEPT !.pending = worker[h].pending \cup {t}]]
  <2>1. WorkerType /\ worker[h].up
    BY DEF Hear, Typed
  <2>2. worker' = [worker EXCEPT ![h] =
              IF @.active = t THEN [@ EXCEPT !.stop = TRUE]
              ELSE [@ EXCEPT !.pending = worker[h].pending \cup {t}]]
    BY <1>0 DEF Hear
  <2> HIDE DEF WInv
  <2>3. worker' = [worker EXCEPT ![h] =
              IF worker[h].active = t THEN [worker[h] EXCEPT !.stop = TRUE]
              ELSE [worker[h] EXCEPT !.pending = worker[h].pending \cup {t}]]
    <3>1. CASE worker[h].active = t
      BY <2>1, <2>2, <3>1 DEF WorkerType
    <3>2. CASE worker[h].active # t
      BY <2>1, <2>2, <3>2 DEF WorkerType
    <3> QED  BY <3>1, <3>2
  <2> QED  BY <2>1, <2>3 DEF Hear
<1>2. /\ PipeType' /\ \A g \in Handles \ {h} : SamePipe(g)
      /\ Wishes(h) = Wishes(h)' \cup {t}
      /\ Sent(h)' = Sent(h) /\ Answered(h)' = Answered(h)
      /\ pipe'[h].to = pipe[h].to
  BY <1>0, TakeCtl DEF Hear, Typed
<1>3. /\ worker'[h].up /\ worker'[h].req = worker[h].req
      /\ worker'[h].active = worker[h].active
      /\ worker'[h].stop <=> worker[h].stop \/ worker[h].active = t
      /\ worker[h].active = t => worker'[h].pending = worker[h].pending
      /\ worker[h].active # t => worker'[h].pending = worker[h].pending \cup {t}
      /\ \A g \in Handles \ {h} : worker'[g] = worker[g]
  BY <1>1 DEF WorkerType
<1>4. WorkerType'
  <2>1. CASE worker[h].active = t
    BY <1>1, <2>1 DEF WorkerType
  <2>2. CASE worker[h].active # t
    <3> DEFINE d == worker[h].pending \cup {t}
    <3>1. worker' = [worker EXCEPT ![h] = [worker[h] EXCEPT !.pending = d]]
      BY <1>1, <2>2
    <3>2. d \in SUBSET Threads
      BY <1>1 DEF WorkerType
    <3> HIDE DEF d, WInv
    <3> QED  BY <1>1, <3>1, <3>2 DEF WorkerType
  <2> QED  BY <2>1, <2>2
<1>5. \A g \in Handles :
        /\ Sent(g)' = Sent(g) /\ Answered(g)' = Answered(g)
        /\ pipe'[g].to = pipe[g].to /\ worker'[g].req = worker[g].req
        /\ worker'[g].up = worker[g].up
        /\ g # h => Wishes(g)' = Wishes(g)
  BY <1>1, <1>2, <1>3 DEF SamePipe, WorkerType
<1>6. /\ Runs' = Runs /\ \A q : Stoppable(q)' <=> Stoppable(q)
      /\ \A u : On(u)' = On(u) /\ Id(u)' = Id(u) /\ Out(u)' = Out(u)
  BY <1>1, ThreadSame DEF SameThread
<1>7. Placed' /\ Locking' /\ HandleType' /\ CallType'
  BY <1>1, WorkerPlaces DEF history
<1>8. Typed'
  BY <1>1, <1>2, <1>4, <1>7, ThreadSame DEF Typed, TableType, SessionType,
     ResultType, history
<1>9. Unmade' /\ Answering'
  BY <1>1, <1>5, <1>6 DEF Unmade, Answering, history
<1>10. Once'
  <2> SUFFICES ASSUME NEW u \in Threads, NEW k \in Place
               PROVE  OnceFor(u, k)'
    BY DEF Once
  <2>1. \A g \in Handles :
          /\ <<u, k>> \in Sent(g)' <=> <<u, k>> \in Sent(g)
          /\ Underway(<<u, k>>, g)' <=> Underway(<<u, k>>, g)
    BY <1>5 DEF Underway
  <2>2. /\ Carries(<<u, k>>)' <=> Carries(<<u, k>>)
        /\ ForOrder(<<u, k>>)' <=> ForOrder(<<u, k>>)
    BY <1>1, ThreadSame DEF Carries, history
  <2>3. OnceFor(u, k)
    BY DEF Once
  <2> QED  BY <1>1, <1>5, <1>6, <2>1, <2>2, <2>3 DEF OnceFor, history
<1>11. Stopping'
  <2>1. ASSUME NEW g \in Handles \ {h} PROVE StopsOwn(g)'
    BY <1>1, <1>3, <1>5, <1>6 DEF Stopping, StopsOwn
  <2>2. StopsOwn(h)'
    <3>1. StopsOwn(h) /\ t \in stopped
      BY <1>2 DEF Stopping, StopsOwn
    <3> QED  BY <1>1, <1>2, <1>3, <1>6, <3>1 DEF StopsOwn
  <2> QED  BY <2>1, <2>2 DEF Stopping
<1>12. PassedOn'
  <2> SUFFICES ASSUME NEW u \in Threads, call[u].pc = "wait", call[u].told
               PROVE  Heard(u)'
    BY <1>1 DEF PassedOn
  <2>1. /\ Heard(u) /\ On(u) \in Handles /\ Id(u) \in Request
        /\ call[u].at \in Place /\ Id(u) = <<u, call[u].at>>
    BY PlanFacts DEF PassedOn, Placed, PlacedAt
  <2>2. CASE On(u) # h \/ u # t \/ u \notin Wishes(h)
    BY <1>1, <1>2, <1>3, <1>5, <1>6, <2>1, <2>2 DEF Heard
  <2>3. CASE On(u) = h /\ u = t /\ u \in Wishes(h)
    <3>1. u \in stopped /\ u \in Runs /\ StopsOwn(h)
      BY <2>3 DEF Stopping, StopsOwn, Typed, TableType
    <3>2. worker[h].req = Id(u) /\ Stoppable(Id(u)) => worker[h].active = u
      BY <2>1, <3>1 DEF StopsOwn
    <3>3. ASSUME Id(u) \in Sent(h) PROVE worker[h].active # u
      <4> SUFFICES ASSUME worker[h].active = u PROVE FALSE
        OBVIOUS
      <4>1. PICK k \in Place : worker[h].req = <<u, k>>
        BY <3>1, PlanAssumption DEF StopsOwn, Runs
      <4>2. <<u, k>> = Id(u)
        BY <3>1, <4>1, WaitingRun DEF Underway
      <4>3. OnceFor(u, call[u].at) /\ Underway(Id(u), h)
        BY <2>1, <3>3 DEF Once, Underway
      <4> QED  BY <2>1, <3>3, <4>1, <4>2, <4>3 DEF OnceFor
    <3> QED
      BY <1>1, <1>3, <1>5, <1>6, <2>3, <3>1, <3>2, <3>3 DEF Heard
  <2> QED  BY <2>2, <2>3
<1> QED  BY <1>7, <1>8, <1>9, <1>10, <1>11, <1>12

(* A worker that has come to the end of a request knows it no more, and    *)
(* what it says of it is what became of it.                                *)
LEMMA CarriedKeeps ==
  ASSUME WInv, NEW h \in Handles, NEW how \in Ways, NEW ready \in BOOLEAN,
         NEW restart \in BOOLEAN, Carried(h, how, ready, restart),
         restart => how = "answered", faults' \in 0..MaxFaults
  PROVE  WInv'
<1> USE DEF WInv
<1>0. PICK r \in AnyRequest : r = worker[h].req
  BY DEF Carried, Typed, WorkerType
<1> DEFINE a == [id |-> r, how |-> how, ready |-> ready, restart |-> restart]
<1>1. /\ UNCHANGED <<plan, workers, made, handle, session, call, result,
                     stopped, begun>>
      /\ worker[h].up /\ r # NoRequest /\ WorkerType /\ PipeType
      /\ carried' = IF r \in Request THEN carried \cup {<<r, how>>} ELSE carried
  BY <1>0 DEF Carried, Typed
<1>2. /\ PipeType' /\ \A g \in Handles \ {h} : SamePipe(g)
      /\ Answered(h)' \subseteq Answered(h) \cup {a}
      /\ \/ Sent(h)' = Sent(h) /\ Wishes(h)' = Wishes(h)
         \/ Sent(h)' = {} /\ Wishes(h)' = {} /\ worker'[h] = Gone(worker[h])
      /\ NoRepeats(pipe[h].to) => NoRepeats(pipe'[h].to)
  <2>1. CASE handle[h].open
    <3>1. a \in AnswerType
      BY DEF AnswerType
    <3>2. pipe' = [pipe EXCEPT ![h].from = Append(@, a)]
      BY <1>0, <2>1 DEF Carried
    <3> HIDE DEF a
    <3> QED  BY <1>1, <3>1, <3>2, PutFrom
  <2>2. CASE ~handle[h].open
    <3>1. pipe' = [pipe EXCEPT ![h] = Emptied]
      BY <2>2 DEF Carried
    <3>2. worker'[h] = Gone(worker[h])
      BY <1>1, <2>2 DEF Carried, WorkerType
    <3> QED  BY <1>1, <3>1, <3>2, PipeEmptied
  <2> QED  BY <2>1, <2>2
<1>3. /\ worker'[h].req = NoRequest /\ worker'[h].active = NoThread
      /\ ~worker'[h].stop
      /\ worker'[h].pending = worker[h].pending \/
           (worker'[h].pending = {} /\ ~worker'[h].up)
      /\ \A g \in Handles \ {h} : worker'[g] = worker[g]
      /\ WorkerType'
  <2>1. PICK w \in {Gone(worker[h]),
                    [worker[h] EXCEPT !.req = NoRequest, !.active = NoThread,
                                      !.stop = FALSE, !.ready = ready]} :
          worker' = [worker EXCEPT ![h] = w]
    BY DEF Carried
  <2>2. /\ w \in [up : BOOLEAN, req : AnyRequest \cup {NoRequest},
                   active : Threads \cup {NoThread}, stop : BOOLEAN,
                   pending : SUBSET Threads, ready : BOOLEAN]
        /\ w.req = NoRequest /\ w.active = NoThread /\ ~w.stop
        /\ w.pending = worker[h].pending \/ (w.pending = {} /\ ~w.up)
    BY <1>1, <2>1 DEF Gone, WorkerType
  <2> QED  BY <1>1, <2>1, <2>2 DEF WorkerType
<1>4. /\ Runs' = Runs /\ \A q : Stoppable(q)' <=> Stoppable(q)
      /\ \A u : On(u)' = On(u) /\ Id(u)' = Id(u) /\ Out(u)' = Out(u)
  BY <1>1, ThreadSame DEF SameThread
<1>5. carried \subseteq carried' /\ carried' \subseteq Request \X Ways
  BY <1>1 DEF Typed, ResultType
<1>6. Placed' /\ Locking' /\ HandleType' /\ CallType'
  BY <1>1, <1>5, WorkerPlaces
<1>7. Typed'
  BY <1>1, <1>2, <1>3, <1>5, <1>6, ThreadSame DEF Typed, TableType,
     SessionType, ResultType
<1>8. \A g \in Handles : Sent(g)' \subseteq Sent(g)
  BY <1>2 DEF SamePipe
<1>9. Unmade'
  <2>1. ASSUME NEW g \in Handles, g > made
        PROVE  Sent(g)' = {} /\ ~worker'[g].up /\ worker'[g].req = NoRequest
    <3>1. g # h
      BY <1>1, <2>1 DEF Unmade
    <3> QED  BY <1>2, <1>3, <2>1, <3>1 DEF Unmade, SamePipe
  <2> QED  BY <1>1, <1>4, <2>1 DEF Unmade
<1>10. Answering'
  <2>1. ASSUME NEW g \in Handles \ {h}
        PROVE  /\ NoRepeats(pipe'[g].to)
               /\ \A b \in Answered(g)' :
                    /\ b.id \in Request => <<b.id, b.how>> \in carried'
                    /\ b.restart => b.how = "answered"
    BY <1>2, <1>5 DEF Answering, SamePipe
  <2>2. ASSUME NEW b \in Answered(h)'
        PROVE  /\ b.id \in Request => <<b.id, b.how>> \in carried'
               /\ b.restart => b.how = "answered"
    <3>1. CASE b \in Answered(h)
      BY <1>5, <3>1 DEF Answering
    <3>2. CASE b = a
      BY <1>1, <3>2
    <3> HIDE DEF a
    <3> QED  BY <1>2, <3>1, <3>2
  <2>3. NoRepeats(pipe'[h].to)
    BY <1>2 DEF Answering
  <2> QED  BY <2>1, <2>2, <2>3 DEF Answering
<1>11. Stopping'
  <2>1. ASSUME NEW g \in Handles \ {h} PROVE StopsOwn(g)'
    BY <1>1, <1>2, <1>3, <1>4 DEF Stopping, StopsOwn, SamePipe
  <2>2. StopsOwn(h)'
    <3>1. StopsOwn(h)
      BY DEF Stopping
    <3>2. \A t \in Runs, k \in Place : worker'[h].req # <<t, k>>
      BY <1>3, PlanAssumption DEF Place, NoRequest
    <3>3. worker'[h].pending \subseteq stopped /\ Wishes(h)' \subseteq stopped
      BY <1>2, <1>3, <3>1 DEF StopsOwn
    <3> QED  BY <1>1, <1>3, <1>4, <3>2, <3>3 DEF StopsOwn
  <2> QED  BY <2>1, <2>2 DEF Stopping
<1>12. PassedOn'
  <2> SUFFICES ASSUME NEW u \in Threads, call[u].pc = "wait", call[u].told
               PROVE  Heard(u)'
    BY <1>1 DEF PassedOn
  <2>1. Heard(u) /\ On(u) \in Handles /\ Id(u) # NoRequest
    BY PlanAssumption DEF PassedOn, Placed, PlacedAt, Id, NoRequest
  <2>2. CASE On(u) # h
    BY <1>1, <1>2, <1>3, <1>4, <2>1, <2>2 DEF Heard, SamePipe
  <2>3. CASE On(u) = h
    <3>1. u \in stopped
      BY <2>1, <2>3 DEF Heard, Stopping, StopsOwn
    <3>2. CASE Sent(h)' = {} /\ Wishes(h)' = {}
      BY <1>1, <1>3, <1>4, <2>1, <2>3, <3>1, <3>2 DEF Heard
    <3>3. CASE Sent(h)' = Sent(h) /\ Wishes(h)' = Wishes(h)
      BY <1>1, <1>3, <1>4, <2>1, <2>3, <3>1, <3>3 DEF Heard
    <3> QED  BY <1>2, <3>2, <3>3
  <2> QED  BY <2>2, <2>3
<1>13. Once'
  <2> SUFFICES ASSUME NEW u \in Threads, NEW k \in Place
               PROVE  OnceFor(u, k)'
    BY DEF Once
  <2>0. /\ OnceFor(u, k) /\ <<u, k>> \in Request /\ <<u, k>> # NoRequest
    BY PlanAssumption DEF Once, Request, Place, NoRequest
  <2>1. \A g \in Handles :
          /\ Underway(<<u, k>>, g)' => Underway(<<u, k>>, g)
          /\ <<u, k>> \in Sent(g)' => <<u, k>> \in Sent(g)
          /\ worker'[g].req = <<u, k>> => worker[g].req = <<u, k>>
    BY <1>3, <1>8, <2>0 DEF Underway
  <2>2. CASE <<u, k>> # r
    <3>1. /\ Carries(<<u, k>>)' <=> Carries(<<u, k>>)
          /\ ForOrder(<<u, k>>)' <=> ForOrder(<<u, k>>)
      BY <1>1, <2>2, ThreadSame DEF Carries
    <3> QED  BY <1>1, <1>4, <2>0, <2>1, <3>1 DEF OnceFor
  <2>3. CASE <<u, k>> = r
    <3>1. Underway(<<u, k>>, h) /\ begun[<<u, k>>] = 1 /\ worker[h].req = <<u, k>>
      BY <1>0, <2>0, <2>3 DEF Underway, OnceFor
    <3>2. \A g \in Handles : ~Underway(<<u, k>>, g)'
      BY <1>3, <1>8, <2>0, <3>1 DEF Underway, OnceFor
    <3> QED  BY <1>1, <1>4, <2>0, <3>1, <3>2 DEF OnceFor
  <2> QED  BY <2>2, <2>3
<1> QED
  BY <1>6, <1>7, <1>9, <1>10, <1>11, <1>12, <1>13

(* It answers, obeys, or asks to be replaced.                              *)
LEMMA AnswerKeeps ==
  ASSUME WInv, NEW h \in Handles, Answer(h) \/ Obey(h) \/ AskReplacement(h)
  PROVE  WInv'
<1>1. faults \in 0..MaxFaults /\ worker[h].ready \in BOOLEAN
  BY DEF WInv, Typed, TableType, WorkerType
<1>2. CASE Answer(h)
  BY <1>1, <1>2, CarriedKeeps DEF Answer, Ways, Connects
<1>3. CASE Obey(h)
  BY <1>1, <1>3, CarriedKeeps DEF Obey, Ways
<1>4. CASE AskReplacement(h)
  <2>1. faults' \in 0..MaxFaults
    BY <1>1, <1>4, PlanAssumption DEF AskReplacement
  <2> QED  BY <1>4, <2>1, CarriedKeeps DEF AskReplacement, Ways
<1> QED  BY <1>2, <1>3, <1>4

-----------------------------------------------------------------------------
(* A channel of order commands is what the type says.                      *)
LEMMA ChannelPut ==
  ASSUME OrdersType, NEW h \in Handles, NEW c \in Channel,
         orders' = [orders EXCEPT ![h] = c]
  PROVE  /\ OrdersType' /\ orders'[h] = c
         /\ \A g \in Handles \ {h} : orders'[g] = orders[g]
  BY DEF OrdersType

(* A step that touches no command on a channel: t may take or free a lock, *)
(* and nobody starts on an order command or comes to its end.              *)
Aside(t) ==
  /\ plan' = plan /\ \A u \in Threads \ {t} : call'[u] = call[u]
  /\ made' \in Nat /\ made <= made'
  /\ \A h \in Handles :
       /\ orders'[h].to = orders[h].to /\ orders'[h].from = orders[h].from
       /\ orders'[h].pending = orders[h].pending
       /\ orders'[h].serving = orders[h].serving
       /\ orders'[h].lock = orders[h].lock \/ orders[h].lock \in {t, NoThread}
       /\ worker'[h].up => worker[h].up \/ h > made
  /\ carried \subseteq carried'
  /\ \A r \in Request : ForOrder(r) =>
       begun'[r] = begun[r] /\ (Carries(r)' => Carries(r))

(* The command that is pending was sent by somebody, over this channel.    *)
LEMMA PendingFacts ==
  ASSUME BInv, NEW h \in Handles, orders[h].pending # NoRequest
  PROVE  /\ orders[h].pending \in Request /\ ForOrder(orders[h].pending)
         /\ \E t \in Threads, k \in Place :
              orders[h].pending = <<t, k>> /\ PendingAt(h, t, k)
<1>1. orders[h].pending \in Request
  BY DEF BInv, OInv, OrdersType, Channel
<1>2. PICK t \in Threads, k \in Place : orders[h].pending = <<t, k>>
  BY <1>1 DEF Request, Place
<1>3. PendingAt(h, t, k)
  BY <1>2 DEF BInv, OInv, Pending
<1> QED  BY <1>1, <1>2, <1>3 DEF PendingAt

(* So a command that was not sent, or is none, is pending nowhere.         *)
LEMMA NotPending ==
  ASSUME BInv, NEW t \in Threads, ~Finished(t),
         Ask(t) # "order" \/ ~Sending(t), NEW h \in Handles
  PROVE  orders[h].pending # Id(t)
<1>1. Id(t) = <<t, call[t].at>> /\ call[t].at \in Place
  BY PlanFacts DEF BInv, WInv
<1>2. SUFFICES ASSUME orders[h].pending = <<t, call[t].at>> PROVE FALSE
  BY <1>1
<1>3. PendingAt(h, t, call[t].at)
  BY <1>1, <1>2 DEF BInv, OInv, Pending
<1> QED  BY <1>3 DEF PendingAt, ForOrder, Ask

(* Such a step leaves what is pending where it is.                         *)
LEMMA AsideContents ==
  ASSUME BInv, NEW t, Aside(t), NEW h \in Handles
  PROVE  /\ Empty(h)' <=> Empty(h)
         /\ orders'[h].pending = orders[h].pending
         /\ \/ Empty(h)'
            \/ ( /\ orders'[h].pending # NoRequest
                 /\ (OnTheWay(h)' \/ AtWork(h)' \/ Back(h)') )
<1> DEFINE p == orders[h].pending
<1>1. /\ orders'[h].to = orders[h].to /\ orders'[h].from = orders[h].from
      /\ orders'[h].pending = p /\ orders'[h].serving = orders[h].serving
  BY DEF Aside
<1>2. Empty(h)' <=> Empty(h)
  BY <1>1 DEF Empty
<1>3. CASE Empty(h)
  BY <1>1, <1>2, <1>3
<1>4. CASE p # NoRequest /\ (OnTheWay(h) \/ AtWork(h) \/ Back(h))
  <2>1. p \in Request /\ ForOrder(p)
    BY <1>4, PendingFacts
  <2>2. /\ begun'[p] = begun[p] /\ (Carries(p)' => Carries(p))
        /\ carried \subseteq carried'
    BY <2>1 DEF Aside
  <2>3. OnTheWay(h) => OnTheWay(h)'
    BY <1>1, <2>2 DEF OnTheWay
  <2>4. AtWork(h) => AtWork(h)'
    <3> SUFFICES ASSUME AtWork(h) PROVE AtWork(h)'
      OBVIOUS
    <3>1. begun'[orders'[h].pending] = 1
      BY <1>1, <2>2 DEF AtWork
    <3>2. ~Carries(orders[h].pending)'
      BY <1>1, <2>2 DEF AtWork, Carries
    <3> QED  BY <1>1, <3>1, <3>2 DEF AtWork
  <2>5. Back(h) => Back(h)'
    BY <1>1, <2>2 DEF Back
  <2> QED  BY <1>1, <1>2, <1>4, <2>3, <2>4, <2>5
<1> QED  BY <1>2, <1>3, <1>4 DEF BInv, OInv, Pending

(* It keeps what is said of the channels, as long as those that end their  *)
(* command tell that it is unconfirmed, or lost the worker.                *)
LEMMA AsideKeeps ==
  ASSUME BInv, NEW t, Aside(t), OrdersType', Tabled', t \in Threads => Seat(t)',
         \A u \in Threads :
           /\ call'[u].at \in Nat /\ call[u].at <= call'[u].at
           /\ call'[u].at = call[u].at /\ Sending(u) =>
                Sending(u)' /\ On(u)' = On(u)
           /\ \A k \in Place :
                /\ k < call[u].at => result'[<<u, k>>] = result[<<u, k>>]
                /\ k = call[u].at /\ k < call'[u].at =>
                     \A h \in Handles :
                       orders[h].pending = <<u, k>> /\ worker'[h].up =>
                         result'[<<u, k>>] = "unconfirmed"
  PROVE  OInv'
<1> USE DEF BInv, OInv
<1>0. /\ made \in Nat /\ made' \in Nat /\ made <= made'
      /\ Handles \subseteq Nat /\ Place \subseteq Nat
      /\ \A u \in Threads : call[u].at \in Nat
  BY PlanAssumption DEF Aside, WInv, Typed, TableType, Handles, Place,
     CallType
<1>1. \A r : ForOrder(r)' <=> ForOrder(r)
  BY ThreadSame DEF Aside
<1>2. Pending'
  <2> SUFFICES ASSUME NEW h \in Handles, NEW u \in Threads, NEW k \in Place,
                      orders'[h].pending = <<u, k>>
               PROVE  PendingAt(h, u, k)'
    BY AsideContents DEF Pending
  <2>1. orders[h].pending = <<u, k>> /\ PendingAt(h, u, k)
    BY DEF Aside, Pending
  <2>2. h <= made'
    BY <1>0, <2>1 DEF PendingAt
  <2>3. worker'[h].up => worker[h].up
    BY <1>0, <2>1 DEF Aside, PendingAt
  <2>4. Empty(h)' <=> Empty(h)
    BY AsideContents
  <2>5. k <= call'[u].at
    BY <1>0, <2>1 DEF PendingAt
  <2>6. k = call'[u].at => On(u)' = h /\ Sending(u)'
    BY <1>0, <2>1 DEF PendingAt
  <2>7. k < call'[u].at /\ worker'[h].up /\ ~Empty(h)' =>
          result'[<<u, k>>] = "unconfirmed"
    BY <1>0, <2>1, <2>3, <2>4 DEF PendingAt
  <2>8. \A g \in Handles : orders'[g].pending = <<u, k>> => g = h
    BY <2>1 DEF PendingAt, Aside
  <2> QED  BY <1>1, <2>1, <2>2, <2>5, <2>6, <2>7, <2>8 DEF PendingAt
<1>3. Seats'
  <2> SUFFICES ASSUME NEW u \in Threads \ {t} PROVE Seat(u)'
    BY DEF Seats
  <2>1. /\ call'[u] = call[u] /\ On(u)' = On(u) /\ Ask(u)' = Ask(u)
        /\ Id(u)' = Id(u) /\ Seat(u)
    BY ThreadSame DEF Aside, SameThread, Seats
  <2>2. call[u].pc \in AtOrders => On(u) \in Handles
    BY DEF WInv, Placed, PlacedAt, AtOrders
  <2>3. u # NoThread
    BY PlanAssumption
  <2>4. call[u].pc \in AtOrders => orders'[On(u)].lock = u
    BY <2>1, <2>2, <2>3 DEF Aside, Seat
  <2>5. /\ call[u].pc = "order_send" => orders'[On(u)].pending = NoRequest
        /\ call[u].pc = "order_wait" => orders'[On(u)].pending = Id(u)
    BY <2>1, <2>2 DEF Aside, Seat, AtOrders
  <2> QED  BY <2>1, <2>4, <2>5 DEF Seat
<1>4. Fresh'
  <2> SUFFICES ASSUME NEW u \in Threads, NEW k \in Place, ForOrder(<<u, k>>),
                      k > call'[u].at \/ (k = call'[u].at /\ ~Sending(u)')
               PROVE  begun'[<<u, k>>] = 0
    BY <1>1 DEF Fresh, Unsent
  <2>1. k > call[u].at \/ (k = call[u].at /\ ~Sending(u))
    BY <1>0
  <2>2. begun[<<u, k>>] = 0
    BY <2>1 DEF Fresh, Unsent
  <2>3. <<u, k>> \in Request
    BY DEF Request, Place
  <2> QED  BY <2>2, <2>3 DEF Aside
<1> QED  BY <1>2, <1>3, <1>4

(* No worker is made, and only a handle that is in the table no longer is  *)
(* retired or closed.                                                      *)
Settled(t) ==
  /\ workers' \in {workers, NoHandle} /\ made' = made
  /\ \A u \in Threads \ {t} : call'[u] = call[u]
  /\ t \in Threads /\ call'[t].pc \in Disposing \cup {"kill"} =>
       On(t)' # workers'
  /\ \A h \in Handles :
       /\ \/ handle'[h].retired = handle[h].retired
          \/ h # workers' /\ h <= made
       /\ handle'[h].open = handle[h].open \/ h # workers'
       /\ worker'[h].up => worker[h].up /\ orders'[h].open = orders[h].open

(* Then the table stays as it should be.                                   *)
LEMMA TabledKeeps ==
  ASSUME BInv, NEW t, Settled(t)
  PROVE  Tabled'
<1> USE DEF BInv, OInv, Tabled, Settled
<1>0. /\ workers' # NoHandle => workers' = workers /\ workers \in Handles
      /\ made \in Nat /\ Handles \subseteq Nat
  BY PlanAssumption DEF WInv, Typed, TableType, Handles, NoHandle
<1>1. workers' # NoHandle => handle'[workers'].open /\ ~handle'[workers'].retired
  BY <1>0
<1>2. ASSUME NEW u \in Threads, call'[u].pc \in Disposing \cup {"kill"}
      PROVE  On(u)' # workers'
  <2>1. CASE u = t
    BY <1>2, <2>1
  <2>2. CASE u # t
    <3>1. call'[u] = call[u] /\ On(u)' = On(u) /\ On(u) # workers
      BY <1>2, <2>2 DEF On
    <3>2. On(u) \in Handles
      BY <1>2, <3>1 DEF WInv, Placed, PlacedAt, Disposing
    <3>3. On(u) # NoHandle
      BY <3>2, PlanAssumption DEF Handles, NoHandle
    <3> QED  BY <3>1, <3>3
  <2> QED  BY <2>1, <2>2
<1>3. ASSUME NEW h \in Handles
      PROVE  /\ h > made' => ~handle'[h].retired
             /\ worker'[h].up => orders'[h].open
  <2>1. ~(h > made /\ h <= made)
    BY <1>0
  <2> QED  BY <2>1
<1> QED  BY <1>1, <1>2, <1>3

(* The handles in the table and their channels are left alone.             *)
Unmoved ==
  /\ UNCHANGED <<plan, workers, made, orders, history>>
  /\ \A h \in Handles :
       /\ handle'[h].retired = handle[h].retired
       /\ handle'[h].open = handle[h].open
       /\ worker'[h].up => worker[h].up

(* Such a step is one beside the channels.                                 *)
LEMMA UnmovedAside ==
  ASSUME BInv, NEW t, Unmoved, \A u \in Threads \ {t} : call'[u] = call[u]
  PROVE  Aside(t) /\ OrdersType'
<1>1. made \in Nat /\ made <= made
  BY PlanAssumption DEF BInv, WInv, Typed, TableType
<1> QED
  BY <1>1 DEF Aside, Unmoved, history, Carries, BInv, OInv, OrdersType

(* A step of t with a request, before or after it was at the channel.      *)
LEMMA PlainKeeps ==
  ASSUME BInv, NEW t \in Threads, Unmoved, result' = result,
         \A u \in Threads \ {t} : call'[u] = call[u],
         call'[t].at = call[t].at, call'[t].pc # "kill",
         call'[t].pc \notin AtOrders,
         call'[t].pc \in OrderPcs => Ask(t) = "order",
         call'[t].pc \in Disposing =>
           call[t].pc \in Disposing /\ On(t)' = On(t),
         Sending(t) => Sending(t)' /\ On(t)' = On(t)
  PROVE  OInv'
<1>1. Aside(t) /\ OrdersType'
  BY UnmovedAside
<1>2. Tabled'
  <2>1. call'[t].pc \in Disposing \cup {"kill"} => On(t)' # workers
    BY DEF BInv, OInv, Tabled
  <2>2. Settled(t)
    BY <2>1 DEF Unmoved, Settled
  <2> QED  BY <2>2, TabledKeeps
<1>3. Seat(t)'
  <2>1. Ask(t)' = Ask(t)
    BY ThreadSame DEF Unmoved
  <2> QED  BY <2>1 DEF Seat, AtOrders
<1>4. \A u \in Threads : /\ call'[u].at = call[u].at /\ call[u].at \in Nat
                         /\ Sending(u) => Sending(u)' /\ On(u)' = On(u)
  BY DEF Sending, On, BInv, WInv, Typed, CallType
<1> QED  BY <1>1, <1>2, <1>3, <1>4, AsideKeeps

(* A request of t that ends without a word of the channel, or is told to   *)
(* be unconfirmed.                                                         *)
LEMMA EndsAside ==
  ASSUME BInv, NEW t \in Threads, NEW how \in Ends, ~Finished(t), End(t, how),
         Aside(t), OrdersType', Tabled',
         \A h \in Handles : orders[h].pending = Id(t) =>
            how = "unconfirmed" \/ ~worker'[h].up
  PROVE  OInv'
<1>0. WInv /\ plan' = plan
  BY DEF BInv, Aside
<1>1. /\ call'[t].pc = "idle" /\ call'[t].at \in Nat
      /\ call'[t].at > call[t].at /\ result'[Id(t)] = how
      /\ \A r \in Request \ {Id(t)} : result'[r] = result[r]
      /\ \A u \in Threads \ {t} : call'[u] = call[u]
  BY <1>0, EndFacts
<1>2. Id(t) = <<t, call[t].at>> /\ Id(t) \in Request
  BY <1>0, PlanFacts DEF WInv
<1>3. Seat(t)'
  BY <1>1 DEF Seat, AtOrders, OrderPcs
<1>4. \A u \in Threads : call[u].at \in Nat /\ Place \subseteq Nat
  BY <1>0, PlanAssumption DEF WInv, Typed, CallType, Place
<1>5. \A u \in Threads \ {t} : Sending(u) => Sending(u)' /\ On(u)' = On(u)
  BY <1>1 DEF Sending, On
<1>6. \A u \in Threads, k \in Place :
        k < call[u].at => result'[<<u, k>>] = result[<<u, k>>]
  <2> TAKE u \in Threads, k \in Place
  <2>1. <<u, k>> \in Request
    BY DEF Request, Place
  <2> QED  BY <1>1, <1>2, <1>4, <2>1
<1> QED  BY <1>1, <1>2, <1>3, <1>4, <1>5, <1>6, AsideKeeps

(* So does a request that ends while the table and the channels stay.      *)
LEMMA PlainEnds ==
  ASSUME BInv, NEW t \in Threads, NEW how \in Ends, ~Finished(t), End(t, how),
         Unmoved,
         how = "unconfirmed" \/ Ask(t) # "order" \/ ~Sending(t)
  PROVE  OInv'
<1>1. WInv /\ plan' = plan
  BY DEF BInv, Unmoved
<1>2. call'[t].pc = "idle" /\ \A u \in Threads \ {t} : call'[u] = call[u]
  BY <1>1, EndFacts
<1>3. Aside(t) /\ OrdersType'
  BY <1>2, UnmovedAside
<1>4. Tabled'
  <2>1. Settled(t)
    BY <1>2 DEF Unmoved, Disposing, Settled
  <2> QED  BY <2>1, TabledKeeps
<1>5. \A h \in Handles : orders[h].pending = Id(t) => how = "unconfirmed"
  BY NotPending
<1> QED  BY <1>3, <1>4, <1>5, EndsAside

(* What a worker does with the other requests.                             *)
LEMMA WorkerAside ==
  ASSUME BInv, UNCHANGED <<plan, workers, made, handle, orders, call, result>>,
         \A h \in Handles : worker'[h].up => worker[h].up,
         carried \subseteq carried',
         \A r \in Request : ForOrder(r) =>
           begun'[r] = begun[r] /\ (Carries(r)' => Carries(r))
  PROVE  OInv'
<1>1. made \in Nat /\ made <= made
  BY PlanAssumption DEF BInv, WInv, Typed, TableType
<1>2. Aside(NoThread) /\ OrdersType'
  BY <1>1 DEF Aside, BInv, OInv, OrdersType
<1>3. Tabled'
  <2>1. Settled(NoThread)
    BY PlanAssumption DEF Settled
  <2> QED  BY <2>1, TabledKeeps
<1>4. \A u \in Threads : /\ call'[u].at = call[u].at /\ call[u].at \in Nat
                         /\ Sending(u) => Sending(u)' /\ On(u)' = On(u)
  BY DEF Sending, On, BInv, WInv, Typed, CallType
<1> QED  BY <1>2, <1>3, <1>4, AsideKeeps, PlanAssumption

(* What the worker's order thread does with the command that is pending,   *)
(* beside everybody else.                                                  *)
LEMMA OrderThreadKeeps ==
  ASSUME BInv, NEW h \in Handles, NEW r \in Request,
         r = orders[h].pending, ~Empty(h),
         UNCHANGED <<plan, workers, made, handle, pipe, worker, session, call,
                     result, stopped, faults>>,
         NEW c \in Channel, orders' = [orders EXCEPT ![h] = c],
         c.open = orders[h].open, c.lock = orders[h].lock, c.pending = r,
         Empty(h)' \/ AtWork(h)' \/ Back(h)',
         ResultType', carried \subseteq carried', begun'[r] # 0,
         \A q \in Request \ {r} :
           begun'[q] = begun[q] /\ (Carries(q)' => Carries(q))
  PROVE  BInv'
<1> USE DEF BInv, OInv
<1>1. /\ OrdersType' /\ orders'[h] = c
      /\ \A g \in Handles \ {h} : orders'[g] = orders[g]
  BY ChannelPut
<1>2. PICK t \in Threads, k \in Place : r = <<t, k>>
  BY DEF Request, Place
<1>3. PendingAt(h, t, k) /\ ForOrder(r)
  <2>1. PendingAt(h, t, k)
    BY <1>2 DEF Pending
  <2> QED  BY <1>2, <2>1 DEF PendingAt
<1>4. /\ Runs' = Runs /\ \A q : ForOrder(q)' <=> ForOrder(q)
      /\ \A u : SameThread(u)
  BY ThreadSame
<1>5. r # NoRequest
  BY <1>2, PlanAssumption DEF NoRequest
<1>6. WInv'
  <2>1. Placed' /\ Locking' /\ HandleType' /\ CallType'
    BY WorkerPlaces
  <2>2. Typed'
    BY <1>4, <2>1 DEF WInv, Typed, TableType, SessionType, WorkerType, PipeType
  <2>3. Once'
    <3> SUFFICES ASSUME NEW u \in Threads, NEW j \in Place
                 PROVE  OnceFor(u, j)'
      BY DEF Once
    <3>1. OnceFor(u, j) /\ <<u, j>> \in Request
      BY DEF WInv, Once, Request, Place
    <3>2. \A g \in Handles : /\ Underway(<<u, j>>, g)' <=> Underway(<<u, j>>, g)
                             /\ Sent(g)' = Sent(g)
      BY DEF Underway, Sent
    <3>3. CASE <<u, j>> # r
      <4>1. begun'[<<u, j>>] = begun[<<u, j>>]
        BY <3>1, <3>3
      <4>2. Carries(<<u, j>>)' <=> Carries(<<u, j>>)
        BY <3>1, <3>3 DEF Carries
      <4>3. (ForOrder(<<u, j>>)' <=> ForOrder(<<u, j>>)) /\ (Out(u)' <=> Out(u)) /\ On(u)' = On(u)
        BY <1>4 DEF SameThread
      <4> QED  BY <3>1, <3>2, <4>1, <4>2, <4>3 DEF OnceFor
    <3>4. CASE <<u, j>> = r
      <4>1. \A g \in Handles : ~Underway(<<u, j>>, g)'
        BY <1>3, <3>1, <3>2, <3>4 DEF OnceFor
      <4> QED  BY <1>3, <1>4, <3>4, <4>1 DEF OnceFor
    <3> QED  BY <3>3, <3>4
  <2>4. Answering' /\ Unmade'
    BY <1>4 DEF WInv, Answering, Answered, Unmade, Sent, On
  <2>5. Stopping' /\ PassedOn'
    BY <1>4, ThreadSame DEF WInv, Stopping, StopsOwn, PassedOn, Heard, Wishes, Sent,
       SameThread
  <2> QED  BY <2>1, <2>2, <2>3, <2>4, <2>5 DEF WInv
<1>7. Tabled'
  BY <1>1 DEF Tabled, On
<1>8. Pending'
  <2>1. ASSUME NEW g \in Handles
        PROVE  /\ orders'[g].pending = orders[g].pending
               /\ ~Empty(g)' => ~Empty(g)
               /\ \/ Empty(g)'
                  \/ ( /\ orders'[g].pending # NoRequest
                       /\ (OnTheWay(g)' \/ AtWork(g)' \/ Back(g)') )
    <3>1. CASE g = h
      BY <1>1, <1>5, <3>1
    <3>2. CASE g # h
      <4> DEFINE p == orders[g].pending
      <4>1. orders'[g] = orders[g] /\ p # r
        BY <1>1, <1>2, <1>3, <3>2 DEF PendingAt
      <4>2. Empty(g)' <=> Empty(g)
        BY <4>1 DEF Empty
      <4>3. CASE Empty(g)
        BY <4>1, <4>2, <4>3
      <4>4. CASE p # NoRequest /\ (OnTheWay(g) \/ AtWork(g) \/ Back(g))
        <5>1. p \in Request \ {r}
          BY <4>1, <4>4, PendingFacts
        <5>2. begun'[p] = begun[p] /\ (Carries(p)' => Carries(p))
          BY <5>1
        <5>3. OnTheWay(g) => OnTheWay(g)'
          BY <4>1, <5>2 DEF OnTheWay
        <5>4. Back(g) => Back(g)'
          BY <4>1 DEF Back
        <5>5. AtWork(g) => AtWork(g)'
          <6> SUFFICES ASSUME AtWork(g) PROVE AtWork(g)'
            OBVIOUS
          <6>1. ~Carries(p)' /\ begun'[p] = 1
            BY <5>2 DEF AtWork
          <6>2. ~Carries(orders[g].pending)'
            BY <4>1, <6>1 DEF Carries
          <6> QED  BY <4>1, <6>1, <6>2 DEF AtWork
        <5> QED  BY <4>1, <4>2, <4>4, <5>3, <5>4, <5>5
      <4> QED  BY <4>3, <4>4 DEF Pending
    <3> QED  BY <3>1, <3>2
  <2>2. ASSUME NEW g \in Handles, NEW u \in Threads, NEW j \in Place,
               orders'[g].pending = <<u, j>>
        PROVE  PendingAt(g, u, j)'
    <3>1. PendingAt(g, u, j)
      BY <2>1, <2>2 DEF Pending
    <3>2. Sending(u)' <=> Sending(u)
      BY DEF Sending
    <3> QED  BY <1>4, <2>1, <3>1, <3>2 DEF PendingAt, SameThread
  <2> QED  BY <2>1, <2>2 DEF Pending
<1>9. Seats'
  <2> SUFFICES ASSUME NEW u \in Threads PROVE Seat(u)'
    BY DEF Seats
  <2>1. Seat(u) /\ SameThread(u)
    BY <1>4 DEF Seats
  <2>2. \A g \in Handles : /\ orders'[g].pending = orders[g].pending
                           /\ orders'[g].lock = orders[g].lock
    BY <1>1
  <2>3. call[u].pc \in AtOrders => On(u) \in Handles
    BY DEF WInv, Placed, PlacedAt, AtOrders
  <2> QED  BY <2>1, <2>2, <2>3 DEF Seat, SameThread, AtOrders
<1>10. Fresh'
  <2> SUFFICES ASSUME NEW u \in Threads, NEW j \in Place, ForOrder(<<u, j>>),
                      j > call[u].at \/ (j = call[u].at /\ ~Sending(u))
               PROVE  begun'[<<u, j>>] = 0
    BY <1>4 DEF Fresh, Unsent, Sending
  <2>1. <<u, j>> \in Request /\ begun[<<u, j>>] = 0
    BY DEF Fresh, Unsent, Request, Place
  <2>2. call[u].at \in Nat /\ j \in Nat
    BY PlanAssumption DEF WInv, Typed, CallType, Place
  <2>3. <<u, j>> # r
    BY <1>2, <1>3, <2>2 DEF PendingAt
  <2> QED  BY <2>1, <2>3
<1> QED  BY <1>1, <1>6, <1>7, <1>8, <1>9, <1>10

(* The order thread takes the command that was sent.                       *)
LEMMA OrderTakeKeeps ==
  ASSUME BInv, NEW h \in Handles, OrderTake(h)
  PROVE  /\ BInv'
         /\ \E r \in Request : /\ r = orders[h].pending /\ ~Empty(h)
                               /\ begun[r] = 0 /\ begun' = [begun EXCEPT ![r] = 1]
<1> DEFINE r == orders[h].pending
           c == [orders[h] EXCEPT !.to = <<>>, !.serving = r]
<1>0. orders[h] \in Channel /\ ResultType
  BY DEF BInv, OInv, OrdersType, WInv, Typed
<1>1. r # NoRequest /\ OnTheWay(h) /\ ~Empty(h)
  BY DEF OrderTake, BInv, OInv, Pending, Empty, AtWork, Back
<1>2. r \in Request
  BY <1>0, <1>1 DEF Channel
<1>3. /\ orders[h].to = <<r>> /\ Head(orders[h].to) = r
      /\ Tail(orders[h].to) = <<>> /\ orders[h].from = <<>> /\ begun[r] = 0
  BY <1>1, <1>2 DEF OnTheWay
<1>4. orders' = [orders EXCEPT ![h] = c]
  BY <1>3 DEF OrderTake
<1>5. begun' = [begun EXCEPT ![r] = 1] /\ carried' = carried
  <2>1. begun' = [begun EXCEPT ![Head(orders[h].to)] = @ + 1] /\ carried' = carried
    BY DEF OrderTake
  <2> HIDE DEF r
  <2>2. begun' = [begun EXCEPT ![r] = begun[r] + 1]
    BY <1>3, <2>1
  <2>3. begun[r] + 1 = 1
    BY <1>3
  <2> QED  BY <2>1, <2>2, <2>3
<1>6. /\ c \in Channel /\ c.open = orders[h].open /\ c.lock = orders[h].lock
      /\ c.pending = r /\ c.to = <<>> /\ c.from = <<>> /\ c.serving = r
  BY <1>0, <1>2, <1>3 DEF Channel
<1>7. orders'[h] = c
  BY <1>4, <1>6, ChannelPut DEF BInv, OInv
<1>8. /\ begun'[r] = 1 /\ ResultType'
      /\ \A q \in Request \ {r} : begun'[q] = begun[q]
  <2> HIDE DEF r
  <2>1. begun \in [Request -> Nat] /\ 1 \in Nat
    BY <1>0 DEF ResultType
  <2>2. /\ begun'[r] = 1 /\ begun' \in [Request -> Nat]
        /\ \A q \in Request \ {r} : begun'[q] = begun[q]
    BY <1>2, <1>5, <2>1
  <2>3. UNCHANGED <<result, carried>>
    BY DEF OrderTake
  <2> QED  BY <1>0, <2>2, <2>3 DEF ResultType
<1>9. ~Carries(r)
  <2>1. PICK t \in Threads, k \in Place : r = <<t, k>>
    BY <1>2 DEF Request, Place
  <2> QED  BY <1>3, <2>1 DEF BInv, WInv, Once, OnceFor
<1>10. ~Carries(orders[h].pending)'
  BY <1>4, <1>5, <1>6, <1>7, <1>9 DEF Carries
<1> HIDE DEF c
<1>11. AtWork(h)'
  BY <1>6, <1>7, <1>8, <1>10 DEF AtWork
<1>12. /\ UNCHANGED <<plan, workers, made, handle, pipe, worker, session, call,
                       result, stopped, faults>>
       /\ carried \subseteq carried' /\ begun'[r] # 0
       /\ \A q \in Request : Carries(q)' => Carries(q)
  BY <1>5, <1>8 DEF OrderTake, Carries
<1> HIDE DEF r
<1>13. BInv'
  BY <1>1, <1>2, <1>4, <1>6, <1>8, <1>11, <1>12, OrderThreadKeeps DEF r
<1> QED  BY <1>1, <1>2, <1>3, <1>5, <1>13 DEF r

(* The order thread has carried out the command it took, and answers it    *)
(* when the channel is open.                                               *)
LEMMA OrderCarriedKeeps ==
  ASSUME BInv, NEW h \in Handles, OrderCarried(h)
  PROVE  /\ BInv'
         /\ \E r \in Request :
              /\ r = orders[h].pending /\ ~Empty(h)
              /\ begun[r] = 1 /\ ~Carries(r) /\ begun' = begun
              /\ carried' = carried \cup {<<r, "answered">>}
<1> DEFINE r == orders[h].pending
           c == [orders[h] EXCEPT !.serving = NoRequest,
                   !.from = IF orders[h].open THEN <<r>> ELSE <<>>]
<1>0. orders[h] \in Channel /\ ResultType
  BY DEF BInv, OInv, OrdersType, WInv, Typed
<1>1. r # NoRequest /\ AtWork(h) /\ ~Empty(h)
  BY DEF OrderCarried, BInv, OInv, Pending, Empty, OnTheWay, Back
<1>2. r \in Request
  BY <1>0, <1>1 DEF Channel
<1>3. /\ orders[h].to = <<>> /\ orders[h].serving = r
      /\ orders[h].from = <<>> /\ begun[r] = 1 /\ ~Carries(r)
  BY <1>1 DEF AtWork
<1>4. orders' = [orders EXCEPT ![h] = c]
  <2>1. Append(orders[h].from, orders[h].serving) = <<r>>
    BY <1>3
  <2> QED  BY <1>3, <2>1 DEF OrderCarried
<1>5. begun' = begun /\ carried' = carried \cup {<<r, "answered">>}
  BY <1>3 DEF OrderCarried
<1>6. /\ c \in Channel /\ c.open = orders[h].open /\ c.lock = orders[h].lock
      /\ c.pending = r /\ c.to = <<>> /\ c.serving = NoRequest
      /\ c.from \in {<<>>, <<r>>}
  <2>1. <<r>> \in Seq(Request) /\ <<>> \in Seq(Request)
    BY <1>2
  <2>2. /\ c.from \in {<<>>, <<r>>} /\ c.serving = NoRequest
        /\ c.open = orders[h].open /\ c.lock = orders[h].lock
        /\ c.pending = r /\ c.to = <<>>
    BY <1>0, <1>3 DEF Channel
  <2>3. c.from \in Seq(Request)
    BY <2>1, <2>2
  <2> QED  BY <1>0, <2>1, <2>2, <2>3 DEF Channel
<1>7. orders'[h] = c
  BY <1>4, <1>6, ChannelPut DEF BInv, OInv
<1>8. ResultType'
  BY <1>0, <1>2, <1>5 DEF ResultType, OrderCarried, Ways
<1> HIDE DEF c
<1>9. Empty(h)' \/ Back(h)'
  BY <1>5, <1>6, <1>7 DEF Empty, Back
<1>10. \A q \in Request \ {r} : Carries(q)' => Carries(q)
  BY <1>5 DEF Carries
<1>11. /\ UNCHANGED <<plan, workers, made, handle, pipe, worker, session, call,
                       result, stopped, faults>>
       /\ carried \subseteq carried' /\ begun'[r] # 0
       /\ \A q \in Request : begun'[q] = begun[q]
  BY <1>3, <1>5 DEF OrderCarried
<1> HIDE DEF r
<1>12. BInv'
  BY <1>1, <1>2, <1>4, <1>6, <1>8, <1>9, <1>10, <1>11, OrderThreadKeeps DEF r
<1> QED  BY <1>1, <1>2, <1>3, <1>5, <1>12 DEF r

(* A step of the thread that has the lock of a channel: its command is     *)
(* pending on the channel then, or nothing is.                             *)
Exchanges(t, h, c) ==
  /\ h = On(t) /\ call[t].pc \in AtOrders
  /\ UNCHANGED <<plan, workers, made, handle, worker, history>>
  /\ orders' = [orders EXCEPT ![h] = c]
  /\ c.open = orders[h].open /\ c.pending \in {NoRequest, Id(t)}
  /\ Empty(h)' \/ OnTheWay(h)'
  /\ c.pending = NoRequest => Empty(h)'
  /\ \A u \in Threads \ {t} : call'[u] = call[u]
  /\ call'[t].at \in Nat /\ call[t].at <= call'[t].at
  /\ call'[t].pc \notin Disposing \cup {"kill"}
  /\ \A q \in Request \ {Id(t)} : result'[q] = result[q]
  /\ \A g \in Handles \ {h} : orders[g].pending # Id(t)
  /\ c.pending = Id(t) =>
       \/ call'[t].at = call[t].at /\ Sending(t)' /\ On(t)' = h
       \/ call'[t].at > call[t].at /\ Empty(h)'
  /\ call'[t].at = call[t].at /\ Sending(t) => Sending(t)'
  /\ Seat(t)'

(* It keeps what is said of the channels.                                  *)
LEMMA AtChannel ==
  ASSUME BInv, NEW t \in Threads, NEW h \in Handles, NEW c \in Channel,
         Exchanges(t, h, c)
  PROVE  OInv'
<1> USE DEF Exchanges
<1>1. /\ OrdersType' /\ orders'[h] = c
      /\ \A g \in Handles \ {h} : orders'[g] = orders[g]
  BY DEF BInv, OInv, OrdersType
<1> USE DEF BInv, OInv
<1>2. /\ Id(t) = <<t, call[t].at>> /\ call[t].at \in Place
      /\ ForOrder(Id(t)) /\ Id(t) \in Request /\ h <= made
      /\ Place \subseteq Nat /\ \A u \in Threads : call[u].at \in Nat
  <2>1. ~Finished(t) /\ Ask(t) = "order" /\ h <= made
    BY DEF WInv, Placed, PlacedAt, Unmade, Seats, Seat, AtOrders, OrderPcs
  <2>2. /\ Id(t) = <<t, call[t].at>> /\ call[t].at \in Place
        /\ Id(t) \in Request
    BY <2>1, PlanFacts DEF WInv
  <2>3. plan[t] \in Seq(Asks) /\ call[t].at <= Len(plan[t])
    BY <2>1, PlanAssumption DEF WInv, Typed, TableType, CallType, Finished
  <2>4. ForOrder(Id(t))
    BY <2>1, <2>2, <2>3 DEF ForOrder, Ask
  <2> QED
    BY <2>1, <2>2, <2>4, PlanAssumption DEF Place, WInv, Typed, CallType
<1>3. /\ \A q : ForOrder(q)' <=> ForOrder(q)
      /\ \A u \in Threads \ {t} : SameThread(u)
  BY ThreadSame
<1>4. UNCHANGED <<begun, carried>> /\ \A q : Carries(q)' <=> Carries(q)
  BY DEF history, Carries
<1>5. Tabled'
  <2>1. \A g \in Handles : orders'[g].open = orders[g].open
    BY <1>1
  <2>2. Settled(t)
    BY <2>1 DEF Settled
  <2> QED  BY <2>2, TabledKeeps
<1>6. Pending'
  <2>1. ASSUME NEW g \in Handles \ {h}
        PROVE  /\ Empty(g)' <=> Empty(g)
               /\ OnTheWay(g) \/ AtWork(g) \/ Back(g) =>
                    OnTheWay(g)' \/ AtWork(g)' \/ Back(g)'
    BY <1>1, <1>4 DEF Empty, OnTheWay, AtWork, Back, Carries
  <2>2. ASSUME NEW g \in Handles
        PROVE  \/ Empty(g)'
               \/ ( /\ orders'[g].pending # NoRequest
                    /\ (OnTheWay(g)' \/ AtWork(g)' \/ Back(g)') )
    <3>1. CASE g = h
      BY <1>1, <3>1
    <3>2. CASE g # h
      <4>1. /\ Empty(g) \/ ( orders[g].pending # NoRequest
                             /\ (OnTheWay(g) \/ AtWork(g) \/ Back(g)) )
            /\ orders'[g] = orders[g]
        BY <1>1, <3>2 DEF Pending
      <4> QED  BY <2>1, <3>2, <4>1
    <3> QED  BY <3>1, <3>2
  <2>3. ASSUME NEW g \in Handles \ {h}, NEW u \in Threads, NEW k \in Place,
               orders'[g].pending = <<u, k>>
        PROVE  PendingAt(g, u, k)'
    <3>1. PendingAt(g, u, k) /\ <<u, k>> # Id(t) /\ orders[g].pending = <<u, k>>
      BY <1>1, <2>3 DEF Pending
    <3>2. <<u, k>> \in Request
      BY DEF Request, Place
    <3>3. result'[<<u, k>>] = result[<<u, k>>]
      BY <3>1, <3>2
    <3>4. \A f \in Handles : orders'[f].pending = <<u, k>> => f = g
      <4>1. NoRequest # <<u, k>>
        BY PlanAssumption DEF NoRequest
      <4>2. orders'[h].pending # <<u, k>>
        BY <1>1, <3>1, <4>1
      <4> QED  BY <1>1, <3>1, <4>2 DEF PendingAt
    <3>5. CASE u = t
      <4>1. k < call[t].at /\ k < call'[t].at
        BY <1>2, <3>1, <3>5 DEF PendingAt
      <4>2. k # call'[t].at /\ k <= call'[t].at
        BY <1>2, <4>1
      <4> QED  BY <1>3, <2>1, <3>1, <3>3, <3>4, <3>5, <4>1, <4>2 DEF PendingAt
    <3>6. CASE u # t
      <4>1. call'[u] = call[u] /\ On(u)' = On(u) /\ (Sending(u)' <=> Sending(u))
        BY <3>6 DEF On, Sending
      <4> QED  BY <1>3, <2>1, <3>1, <3>3, <3>4, <4>1 DEF PendingAt
    <3> QED  BY <3>5, <3>6
  <2>4. ASSUME NEW u \in Threads, NEW k \in Place, orders'[h].pending = <<u, k>>
        PROVE  PendingAt(h, u, k)'
    <3>1. u = t /\ k = call[t].at /\ c.pending = Id(t)
      BY <1>1, <1>2, <2>4, PlanAssumption DEF NoRequest
    <3>2. \A f \in Handles : orders'[f].pending = <<u, k>> => f = h
      BY <1>1, <1>2, <3>1
    <3>3. ForOrder(<<u, k>>)' /\ h <= made'
      BY <1>2, <1>3, <3>1
    <3>4. CASE call'[t].at = call[t].at
      <4>1. ~(k < call'[t].at) /\ k <= call'[t].at /\ Sending(t)' /\ On(t)' = h
        BY <1>2, <3>1, <3>4
      <4> QED  BY <3>1, <3>2, <3>3, <4>1 DEF PendingAt
    <3>5. CASE call'[t].at # call[t].at
      <4>1. k # call'[t].at /\ k <= call'[t].at /\ Empty(h)'
        BY <1>2, <3>1, <3>5
      <4> QED  BY <3>1, <3>2, <3>3, <4>1 DEF PendingAt
    <3> QED  BY <3>4, <3>5
  <2> QED  BY <2>2, <2>3, <2>4 DEF Pending
<1>7. Seats'
  <2> SUFFICES ASSUME NEW u \in Threads \ {t} PROVE Seat(u)'
    BY DEF Seats
  <2>1. Seat(u) /\ SameThread(u) /\ call'[u] = call[u]
    BY <1>3 DEF Seats
  <2>2. orders[h].lock = t
    BY DEF Seats, Seat
  <2>3. call[u].pc \in AtOrders => On(u) \in Handles \ {h}
    BY <2>1, <2>2 DEF Seat, WInv, Placed, PlacedAt, AtOrders
  <2>4. call[u].pc \in AtOrders => orders'[On(u)] = orders[On(u)]
    BY <1>1, <2>3
  <2> QED  BY <2>1, <2>4 DEF Seat, SameThread, AtOrders
<1>8. Fresh'
  <2> SUFFICES ASSUME NEW u \in Threads, NEW k \in Place, ForOrder(<<u, k>>),
                      k > call'[u].at \/ (k = call'[u].at /\ ~Sending(u)')
               PROVE  begun'[<<u, k>>] = 0
    BY <1>3 DEF Fresh, Unsent
  <2>1. k > call[u].at \/ (k = call[u].at /\ ~Sending(u))
    <3>1. CASE u = t
      BY <1>2, <3>1
    <3>2. CASE u # t
      BY <3>2 DEF Sending
    <3> QED  BY <3>1, <3>2
  <2> QED  BY <1>4, <2>1 DEF Fresh, Unsent
<1> QED  BY <1>1, <1>5, <1>6, <1>7, <1>8

(* A handle that is bound and locked is neither retired nor closed by it.  *)
LEMMA BoundFields ==
  ASSUME HandleType, NEW h \in Handles
  PROVE  /\ BoundHandle(h).retired = handle[h].retired
         /\ BoundHandle(h).open = handle[h].open
         /\ \A l : /\ [BoundHandle(h) EXCEPT !.lock = l].retired = handle[h].retired
                   /\ [BoundHandle(h) EXCEPT !.lock = l].open = handle[h].open
<1>1. handle[h] \in [lock : Threads \cup {NoThread}, retired : BOOLEAN,
                     open : BOOLEAN, bound : 0..MaxHandles]
  BY DEF HandleType
<1>2. h \in 0..MaxHandles
  BY DEF Handles
<1>3. BoundHandle(h) \in [lock : Threads \cup {NoThread}, retired : BOOLEAN,
                          open : BOOLEAN, bound : 0..MaxHandles]
  BY <1>1, <1>2 DEF BoundHandle
<1>4. /\ BoundHandle(h).retired = handle[h].retired
      /\ BoundHandle(h).open = handle[h].open
  BY <1>1 DEF BoundHandle
<1> QED  BY <1>3, <1>4

(* The requests' lock and the session of a handle are no matter of the     *)
(* table.                                                                  *)
LEMMA HandleFields ==
  ASSUME HandleType, NEW h \in Handles,
         \/ handle' = handle
         \/ \E l \in Threads \cup {NoThread} : handle' = [handle EXCEPT ![h].lock = l]
         \/ handle' = [handle EXCEPT ![h] = BoundHandle(h)]
         \/ \E l \in Threads \cup {NoThread} :
              handle' = [handle EXCEPT ![h] = [BoundHandle(h) EXCEPT !.lock = l]]
  PROVE  \A g \in Handles : /\ handle'[g].retired = handle[g].retired
                            /\ handle'[g].open = handle[g].open
<1>1. CASE \E l \in Threads \cup {NoThread} : handle' = [handle EXCEPT ![h].lock = l]
  BY <1>1 DEF HandleType
<1>2. CASE handle' = [handle EXCEPT ![h] = BoundHandle(h)]
  BY <1>2 DEF HandleType, BoundHandle
<1>3. CASE \E l \in Threads \cup {NoThread} :
             handle' = [handle EXCEPT ![h] = [BoundHandle(h) EXCEPT !.lock = l]]
  <2>1. PICK l \in Threads \cup {NoThread} :
          handle' = [handle EXCEPT ![h] = [BoundHandle(h) EXCEPT !.lock = l]]
    BY <1>3
  <2> DEFINE b == [BoundHandle(h) EXCEPT !.lock = l]
  <2>2. b.retired = handle[h].retired /\ b.open = handle[h].open
    BY BoundFields
  <2> HIDE DEF b
  <2> QED  BY <2>1, <2>2 DEF HandleType, b
<1> QED  BY <1>1, <1>2, <1>3

(* A thread goes on with its request, and nobody's channel is touched.     *)
LEMMA PlainGo ==
  ASSUME BInv, NEW t \in Threads, NEW pc \in Pcs, Go(t, pc), Unmoved,
         result' = result, pc # "kill", pc \notin AtOrders,
         pc \in OrderPcs => call[t].pc \in OrderPcs,
         pc \in Disposing => call[t].pc \in Disposing,
         Sending(t) => pc \in Killing \cup {"order_late"}
  PROVE  OInv'
<1>1. /\ \A u \in Threads \ {t} : call'[u] = call[u]
      /\ call'[t].pc = pc /\ call'[t].at = call[t].at /\ On(t)' = On(t)
  BY GoFacts DEF BInv, WInv, Typed
<1>2. pc \in OrderPcs => Ask(t) = "order"
  BY DEF BInv, OInv, Seats, Seat
<1>3. Sending(t) => Sending(t)'
  BY <1>1 DEF Sending
<1> QED  BY <1>1, <1>2, <1>3, PlainKeeps

(* A request fails, and its worker is going to be dropped.                 *)
LEMMA PlainFail ==
  ASSUME BInv, NEW t \in Threads, Fail(t), call[t].pc \in {"send", "wait"},
         UNCHANGED <<plan, workers, made, orders, worker, history, result>>
  PROVE  OInv'
<1>1. CallType /\ HandleType /\ On(t) \in Handles
  BY DEF BInv, WInv, Typed, Placed, PlacedAt
<1>2. Unmoved
  BY <1>1, HandleFields DEF Unmoved, Fail, Release
<1>3. /\ \A u \in Threads \ {t} : call'[u] = call[u]
      /\ call'[t].pc = "kill_end" /\ call'[t].at = call[t].at
  BY <1>1 DEF CallType, Fail
<1> QED
  BY <1>2, <1>3, PlainKeeps DEF AtOrders, OrderPcs, Disposing, Sending, Killing

(* The steps of a request on the way to its worker and of its failure, of  *)
(* an order command that waits, and of a worker that is disposed of.       *)
LEMMA PlainSteps ==
  ASSUME BInv, NEW t \in Threads,
         \/ Lock(t) \/ Send(t) \/ TimeOut(t) \/ Broken(t) \/ PassStop(t)
         \/ ForceStop(t) \/ KillEnd(t) \/ OrderBind(t) \/ OrderBusy(t)
         \/ Dispose(t) \/ DisposeLock(t) \/ DisposeWait(t)
  PROVE  OInv'
<1>1. CallType /\ HandleType /\ On(t) \in Handles
  BY DEF BInv, WInv, Typed, Placed, PlacedAt, Lock, Send, TimeOut, Broken,
     PassStop, ForceStop, KillEnd, OrderBind, OrderBusy, Dispose, DisposeLock,
     DisposeWait
<1>2. UNCHANGED <<plan, workers, made, orders, worker, history, result>>
  BY DEF Lock, Send, TimeOut, Broken, PassStop, ForceStop, KillEnd, OrderBind,
     OrderBusy, Dispose, DisposeLock, DisposeWait
<1>3. CASE Fail(t) /\ call[t].pc \in {"send", "wait"}
  BY <1>2, <1>3, PlainFail
<1>4. ASSUME \A g \in Handles : /\ handle'[g].retired = handle[g].retired
                                /\ handle'[g].open = handle[g].open
      PROVE  Unmoved
  BY <1>2, <1>4 DEF Unmoved
<1>5. CASE Lock(t)
  <2>1. CASE handle[On(t)].retired
    <3>1. /\ call' = [call EXCEPT ![t].pc = "get", ![t].h = NoHandle]
          /\ handle' = handle /\ call[t].pc = "lock"
      BY <1>5, <2>1 DEF Lock
    <3>2. /\ \A u \in Threads \ {t} : call'[u] = call[u]
          /\ call'[t].pc = "get" /\ call'[t].at = call[t].at
      BY <1>1, <3>1 DEF CallType
    <3> QED
      BY <1>2, <1>4, <3>1, <3>2, PlainKeeps DEF AtOrders, OrderPcs, Disposing,
         Sending, Killing
  <2>2. CASE ~handle[On(t)].retired
    <3>1. /\ Go(t, "send") /\ call[t].pc = "lock"
          /\ handle' = [handle EXCEPT ![On(t)] = [BoundHandle(On(t)) EXCEPT !.lock = t]]
      BY <1>5, <2>2 DEF Lock
    <3>2. Unmoved
      BY <1>1, <1>4, <3>1, HandleFields
    <3> QED
      BY <1>2, <3>1, <3>2, PlainGo DEF Pcs, AtOrders, OrderPcs, Disposing,
         Sending, Killing
  <2> QED  BY <2>1, <2>2
<1>6. CASE Send(t)
  <2>1. CASE Go(t, "wait") /\ handle' = handle
    BY <1>2, <1>4, <1>6, <2>1, PlainGo DEF Send, Pcs, AtOrders, OrderPcs,
       Disposing, Sending, Killing
  <2> QED  BY <1>3, <1>6, <2>1 DEF Send
<1>7. CASE PassStop(t)
  <2>1. CASE call' = [call EXCEPT ![t].told = TRUE] /\ handle' = handle
    <3>1. /\ \A u \in Threads \ {t} : call'[u] = call[u]
          /\ call'[t].pc = call[t].pc /\ call'[t].at = call[t].at
      BY <1>1, <2>1 DEF CallType
    <3> QED
      BY <1>2, <1>4, <1>7, <2>1, <3>1, PlainKeeps DEF PassStop, AtOrders,
         OrderPcs, Disposing, Sending, Killing
  <2> QED  BY <1>3, <1>7, <2>1 DEF PassStop
<1>8. CASE KillEnd(t)
  BY <1>2, <1>4, <1>8, PlainGo DEF KillEnd, Pcs, AtOrders, OrderPcs, Disposing,
     Killing
<1>9. CASE OrderBind(t)
  <2>1. Unmoved
    BY <1>1, <1>4, <1>9, HandleFields DEF OrderBind
  <2> QED
    BY <1>2, <1>9, <2>1, PlainGo DEF OrderBind, Pcs, AtOrders, OrderPcs,
       Disposing, Sending, Killing
<1>10. CASE OrderBusy(t)
  BY <1>2, <1>4, <1>10, PlainGo DEF OrderBusy, Pcs, AtOrders, OrderPcs,
     Disposing, Sending, Killing
<1>11. CASE Dispose(t) \/ DisposeLock(t) \/ DisposeWait(t)
  <2>1. Unmoved
    BY <1>1, <1>4, <1>11, HandleFields DEF Dispose, DisposeLock, DisposeWait,
       Release
  <2>2. PICK pc \in Disposing : Go(t, pc)
    BY <1>11 DEF Dispose, DisposeLock, DisposeWait, Disposing
  <2>3. call[t].pc \in Disposing
    BY <1>11 DEF Dispose, DisposeLock, DisposeWait, Disposing
  <2>4. pc \in Pcs /\ pc # "kill" /\ pc \notin OrderPcs /\ pc \notin AtOrders
    BY DEF Disposing, Pcs, OrderPcs, AtOrders
  <2>5. ~Sending(t)
    BY <2>3 DEF Disposing, Sending, Killing
  <2> QED  BY <1>2, <2>1, <2>2, <2>3, <2>4, <2>5, PlainGo
<1> QED
  BY <1>3, <1>5, <1>6, <1>7, <1>8, <1>9, <1>10, <1>11 DEF TimeOut, Broken,
     ForceStop

(* A request ends beside the channels: it is refused, answered, or told to *)
(* be unconfirmed.                                                         *)
LEMMA PlainEndSteps ==
  ASSUME BInv, NEW t \in Threads, Begin(t) \/ Receive(t) \/ RetireIdle(t)
  PROVE  OInv'
<1>1. CallType /\ HandleType /\ ~Finished(t)
  BY DEF BInv, WInv, Typed, Placed, PlacedAt, Begin, Receive, RetireIdle
<1>2. UNCHANGED <<plan, workers, made, orders, worker, history>>
  BY DEF Begin, Receive, RetireIdle
<1>3. ASSUME \A g \in Handles : /\ handle'[g].retired = handle[g].retired
                                /\ handle'[g].open = handle[g].open
      PROVE  Unmoved
  BY <1>2, <1>3 DEF Unmoved
<1>4. CASE Begin(t)
  <2>1. handle' = handle /\ call[t].pc = "idle"
    BY <1>4 DEF Begin
  <2>2. CASE End(t, "refused")
    BY <1>1, <1>3, <2>1, <2>2, PlainEnds DEF Ends, Sending, Killing
  <2>3. CASE Go(t, "get") /\ result' = result
    BY <1>3, <2>1, <2>3, PlainGo DEF Pcs, AtOrders, OrderPcs, Disposing,
       Sending, Killing
  <2> QED  BY <1>4, <2>2, <2>3 DEF Begin
<1>5. CASE Receive(t)
  <2>1. On(t) \in Handles /\ Ask(t) # "order" /\ call[t].pc = "wait"
    BY <1>5 DEF BInv, WInv, Placed, PlacedAt, Receive
  <2>2. CASE /\ call' = [call EXCEPT ![t].pc = "kill_end", ![t].end = "answered"]
             /\ UNCHANGED <<handle, result>>
    <3>1. /\ \A u \in Threads \ {t} : call'[u] = call[u]
          /\ call'[t].pc = "kill_end" /\ call'[t].at = call[t].at
      BY <1>1, <2>2 DEF CallType
    <3> QED
      BY <1>3, <2>1, <2>2, <3>1, PlainKeeps DEF AtOrders, OrderPcs, Disposing,
         Sending, Killing
  <2>3. CASE Release(On(t)) /\ \E how \in Ends : End(t, how)
    <3>1. Unmoved
      BY <1>1, <1>3, <2>1, <2>3, HandleFields DEF Release
    <3> QED  BY <1>1, <2>1, <2>3, <3>1, PlainEnds
  <2>4. Head(pipe[On(t)].from).how \in Ends /\ "mismatch" \in Ends
    <3>1. pipe[On(t)].from # <<>>
      BY <1>5 DEF Receive
    <3>2. pipe[On(t)].from \in Seq(AnswerType)
      BY <2>1 DEF BInv, WInv, Typed, PipeType
    <3>3. Head(pipe[On(t)].from) \in AnswerType
      BY <3>1, <3>2, RangeOfTail
    <3> QED  BY <3>3 DEF AnswerType, Ways, Ends
  <2> QED  BY <1>5, <2>2, <2>3, <2>4 DEF Receive
<1>6. CASE RetireIdle(t)
  <2>1. call[t].pc = "order_late" /\ On(t) \in Handles
    BY <1>6 DEF RetireIdle, BInv, WInv, Placed, PlacedAt
  <2>2. CASE End(t, "unconfirmed") /\ handle' = handle
    BY <1>1, <1>3, <2>2, PlainEnds DEF Ends
  <2>3. CASE /\ call' = [call EXCEPT ![t].pc = "kill_end", ![t].end = "unconfirmed"]
             /\ handle' = [handle EXCEPT ![On(t)].lock = t]
             /\ result' = result
    <3>1. /\ \A u \in Threads \ {t} : call'[u] = call[u]
          /\ call'[t].pc = "kill_end" /\ call'[t].at = call[t].at
          /\ On(t)' = On(t)
      BY <1>1, <2>3 DEF CallType, On
    <3>2. Unmoved
      BY <1>1, <1>3, <2>1, <2>3, HandleFields
    <3> QED
      BY <2>3, <3>1, <3>2, PlainKeeps DEF AtOrders, OrderPcs, Disposing,
         Sending, Killing
  <2> QED  BY <1>6, <2>2, <2>3 DEF RetireIdle
<1> QED  BY <1>4, <1>5, <1>6

(* A channel that is closed keeps what is on it.                           *)
LEMMA ChannelClosed ==
  ASSUME OrdersType, NEW h \in Handles,
         orders' = [orders EXCEPT ![h].open = FALSE]
  PROVE  /\ OrdersType'
         /\ \A g \in Handles :
              /\ orders'[g].to = orders[g].to /\ orders'[g].from = orders[g].from
              /\ orders'[g].pending = orders[g].pending
              /\ orders'[g].serving = orders[g].serving
              /\ orders'[g].lock = orders[g].lock
              /\ g # h => orders'[g].open = orders[g].open
<1> DEFINE c == [orders[h] EXCEPT !.open = FALSE]
<1>1. orders[h] \in Channel
  BY DEF OrdersType
<1>2. /\ c \in Channel /\ c.to = orders[h].to /\ c.from = orders[h].from
      /\ c.pending = orders[h].pending /\ c.serving = orders[h].serving
      /\ c.lock = orders[h].lock
  BY <1>1 DEF Channel
<1>3. orders' = [orders EXCEPT ![h] = c]
  OBVIOUS
<1> HIDE DEF c
<1>4. /\ OrdersType' /\ orders'[h] = c
      /\ \A g \in Handles \ {h} : orders'[g] = orders[g]
  BY <1>2, <1>3, ChannelPut
<1> QED  BY <1>2, <1>4

(* The worker of a request that ends is killed, and its channel closed.    *)
LEMMA DroppedAside ==
  ASSUME BInv, NEW t \in Threads, NEW h \in Handles, h = On(t),
         call[t].pc \in {"kill", "dispose_join"}, ~Finished(t),
         NEW how \in Ends, End(t, how),
         UNCHANGED <<plan, workers, made, history>>,
         orders' = [orders EXCEPT ![h].open = FALSE],
         worker' = [worker EXCEPT ![h] = Gone(@)],
         \A g \in Handles : /\ handle'[g].retired = handle[g].retired
                            /\ g # h => handle'[g].open = handle[g].open
  PROVE  OInv'
<1>1. OrdersType /\ WorkerType /\ made \in Nat /\ WInv
  BY PlanAssumption DEF BInv, OInv, WInv, Typed, TableType
<1>2. /\ call'[t].pc = "idle"
      /\ \A u \in Threads \ {t} : call'[u] = call[u]
  BY <1>1, EndFacts
<1>3. /\ OrdersType'
      /\ \A g \in Handles :
           /\ orders'[g].to = orders[g].to /\ orders'[g].from = orders[g].from
           /\ orders'[g].pending = orders[g].pending
           /\ orders'[g].serving = orders[g].serving
           /\ orders'[g].lock = orders[g].lock
           /\ g # h => orders'[g].open = orders[g].open
  BY <1>1, ChannelClosed
<1>4. \A g \in Handles : worker'[g].up => worker[g].up /\ g # h
  BY <1>1 DEF WorkerType, Gone
<1>5. Aside(t)
  BY <1>1, <1>2, <1>3, <1>4 DEF Aside, history, Carries
<1>6. Tabled'
  <2>1. h # workers
    BY DEF BInv, OInv, Tabled, Disposing
  <2>2. \A g \in Handles :
          /\ \/ handle'[g].retired = handle[g].retired
             \/ g # workers' /\ g <= made
          /\ handle'[g].open = handle[g].open \/ g # workers'
          /\ worker'[g].up =>
               worker[g].up /\ orders'[g].open = orders[g].open
    BY <1>3, <1>4, <2>1
  <2>3. t \in Threads /\ call'[t].pc \in Disposing \cup {"kill"} =>
          On(t)' # workers'
    BY <1>2 DEF Disposing
  <2>4. workers' \in {workers, NoHandle} /\ made' = made
    OBVIOUS
  <2>5. Settled(t)
    BY <1>2, <2>2, <2>3, <2>4 DEF Settled
  <2> QED  BY <2>5, TabledKeeps
<1>7. \A g \in Handles : orders[g].pending = Id(t) => ~worker'[g].up
  <2> SUFFICES ASSUME NEW g \in Handles, orders[g].pending = Id(t)
               PROVE  g = h
    BY <1>4
  <2>1. Id(t) = <<t, call[t].at>> /\ call[t].at \in Place
    BY <1>1, PlanFacts DEF WInv
  <2>2. PendingAt(g, t, call[t].at)
    BY <2>1 DEF BInv, OInv, Pending
  <2> QED  BY <2>2 DEF PendingAt
<1> QED  BY <1>3, <1>5, <1>6, <1>7, EndsAside

(* A worker is killed for a request, or disposed of.                       *)
LEMMA DropSteps ==
  ASSUME BInv, NEW t \in Threads, Kill(t) \/ DisposeJoin(t)
  PROVE  OInv'
<1>1. /\ On(t) \in Handles /\ ~Finished(t) /\ HandleType
      /\ call[t].pc \in {"kill", "dispose_join"}
  BY DEF BInv, WInv, Typed, Placed, PlacedAt, Kill, DisposeJoin
<1>2. PICK how \in Ends : End(t, how)
  <2>1. CASE Kill(t)
    <3>1. call[t].end \in Ends
      BY <2>1 DEF Kill, BInv, WInv, Placed, PlacedAt, Typed, CallType, Killing,
         Ends
    <3> QED  BY <2>1, <3>1 DEF Kill
  <2> QED  BY <2>1 DEF DisposeJoin, Ends
<1>3. /\ UNCHANGED <<plan, workers, made, history>>
      /\ orders' = [orders EXCEPT ![On(t)].open = FALSE]
      /\ worker' = [worker EXCEPT ![On(t)] = Gone(@)]
  BY DEF Kill, DisposeJoin
<1>4. \A g \in Handles : /\ handle'[g].retired = handle[g].retired
                         /\ g # On(t) => handle'[g].open = handle[g].open
  BY <1>1 DEF HandleType, Kill, DisposeJoin
<1> QED  BY <1>1, <1>2, <1>3, <1>4, DroppedAside

(* A worker leaves the table, or a handle that has left it is closed.      *)
LEMMA LeaveTable ==
  ASSUME BInv, NEW t \in Threads, KillPop(t) \/ Unregister(t) \/ DisposeClose(t)
  PROVE  OInv'
<1>1. /\ CallType /\ HandleType /\ OrdersType /\ ~Finished(t) /\ WInv
      /\ call[t].pc # "idle" => On(t) \in Handles /\ On(t) <= made
      /\ Tabled /\ made \in Nat /\ workers \in 0..MaxHandles
  <2>1. /\ CallType /\ HandleType /\ OrdersType /\ WInv /\ Tabled
        /\ made \in Nat /\ workers \in 0..MaxHandles
    BY PlanAssumption DEF BInv, OInv, WInv, Typed, TableType
  <2>2. call[t].pc \in {"kill_pop", "idle", "dispose_close"} /\ ~Finished(t)
    BY <2>1 DEF WInv, Placed, PlacedAt, KillPop, Unregister, DisposeClose
  <2>3. call[t].pc # "idle" => On(t) \in Handles
    BY <2>1, <2>2 DEF WInv, Placed, PlacedAt
  <2>4. On(t) <= made
    BY <2>1 DEF WInv, Unmade
  <2> QED  BY <2>1, <2>2, <2>3, <2>4
<1>2. UNCHANGED <<plan, made, orders, worker, history>>
  BY DEF KillPop, Unregister, DisposeClose
<1>3. CASE Unregister(t) /\ workers = NoHandle
  <2>1. End(t, "done") /\ call[t].pc = "idle" /\ Unmoved
    BY <1>2, <1>3 DEF Unregister, Unmoved
  <2> QED  BY <1>1, <2>1, PlainEnds DEF Ends, Sending, Killing
<1>4. CASE ~(Unregister(t) /\ workers = NoHandle)
  <2>1. /\ result' = result /\ call'[t].at = call[t].at
        /\ \A u \in Threads \ {t} : call'[u] = call[u]
        /\ \/ /\ KillPop(t) /\ call'[t].pc = "kill" /\ On(t)' = On(t)
           \/ /\ Unregister(t) /\ call'[t].pc = "dispose" /\ On(t)' = workers
              /\ workers # NoHandle
           \/ /\ DisposeClose(t) /\ call'[t].pc = "dispose_join" /\ On(t)' = On(t)
    BY <1>1, <1>4 DEF CallType, KillPop, Unregister, DisposeClose, Go, On
  <2>2. Aside(t) /\ OrdersType'
    BY <1>1, <1>2, <2>1 DEF Aside, history, Carries, OrdersType
  <2>3. Tabled'
    <3>1. /\ workers' \in {workers, NoHandle}
          /\ call'[t].pc \in Disposing \cup {"kill"} => On(t)' # workers'
      BY <1>1, <2>1, PlanAssumption DEF KillPop, Unregister, DisposeClose,
         Tabled, Disposing, Handles, NoHandle
    <3>2. ASSUME NEW h \in Handles
          PROVE  /\ \/ handle'[h].retired = handle[h].retired
                    \/ h # workers' /\ h <= made
                 /\ handle'[h].open = handle[h].open \/ h # workers'
      <4>1. CASE KillPop(t)
        <5>1. /\ handle' = [handle EXCEPT ![On(t)].retired = TRUE]
              /\ workers' = IF workers = On(t) THEN NoHandle ELSE workers
              /\ On(t) \in Handles /\ On(t) <= made
          BY <1>1, <4>1 DEF KillPop
        <5>2. On(t) # workers'
          BY <5>1, PlanAssumption DEF Handles, NoHandle
        <5>3. /\ h # On(t) => handle'[h].retired = handle[h].retired
              /\ handle'[h].open = handle[h].open
          BY <1>1, <5>1 DEF HandleType
        <5> QED  BY <5>1, <5>2, <5>3
      <4>2. CASE Unregister(t)
        BY <4>2 DEF Unregister
      <4>3. CASE DisposeClose(t)
        BY <1>1, <4>3 DEF DisposeClose, HandleType, Tabled, Disposing
      <4> QED  BY <2>1, <4>1, <4>2, <4>3
    <3>3. Settled(t)
      BY <1>2, <2>1, <3>1, <3>2 DEF Settled
    <3> QED  BY <3>3, TabledKeeps
  <2>4. Seat(t)' /\ (Sending(t) => Sending(t)' /\ On(t)' = On(t))
    BY <2>1 DEF Seat, AtOrders, OrderPcs, Sending, Killing, KillPop,
       Unregister, DisposeClose
  <2>5. \A u \in Threads : /\ call'[u].at = call[u].at /\ call[u].at \in Nat
                           /\ Sending(u) => Sending(u)' /\ On(u)' = On(u)
    BY <1>1, <2>1, <2>4 DEF CallType, Sending, On
  <2> QED  BY <2>1, <2>2, <2>3, <2>4, <2>5, AsideKeeps
<1> QED  BY <1>3, <1>4

(* A worker is spawned: the one before it can no longer be used.           *)
LEMMA GetSteps ==
  ASSUME BInv, NEW t \in Threads, Get(t)
  PROVE  OInv'
<1>1. /\ CallType /\ HandleType /\ OrdersType /\ WorkerType /\ WInv
      /\ Tabled /\ made \in Nat /\ workers \in 0..MaxHandles
      /\ call[t].pc = "get" /\ workers <= made
  BY PlanAssumption DEF BInv, OInv, WInv, Typed, Unmade, TableType, Get
<1>2. UNCHANGED <<plan, result, history>>
  BY DEF Get
<1>3. PICK pc \in {"order_bind", "lock"}, h \in {workers, made + 1} :
        /\ call' = [call EXCEPT ![t].pc = pc, ![t].h = h]
        /\ pc = "order_bind" => Ask(t) = "order"
  BY DEF Get
<1>4. /\ \A u \in Threads \ {t} : call'[u] = call[u]
      /\ call'[t].pc = pc /\ call'[t].at = call[t].at
  BY <1>1, <1>3 DEF CallType
<1>5. CASE Healthy(workers) /\ UNCHANGED <<workers, made, handle, orders, worker>>
  <2>1. Unmoved
    BY <1>2, <1>5 DEF Unmoved
  <2> QED
    BY <1>1, <1>2, <1>3, <1>4, <2>1, PlainKeeps DEF AtOrders, OrderPcs,
       Disposing, Sending, Killing
<1>6. CASE ~(Healthy(workers) /\ UNCHANGED <<workers, made, handle, orders, worker>>)
  <2> DEFINE old == workers
             n == made + 1
  <2>1. /\ ~Healthy(old) /\ made < MaxHandles /\ made' = n /\ workers' = n
        /\ handle' = [g \in Handles |->
             IF g = old THEN [handle[g] EXCEPT !.open = FALSE]
             ELSE IF g = n THEN [handle[g] EXCEPT !.open = TRUE]
             ELSE handle[g]]
        /\ orders' = [g \in Handles |->
             IF g = old THEN [orders[g] EXCEPT !.open = FALSE]
             ELSE IF g = n THEN [orders[g] EXCEPT !.open = TRUE]
             ELSE orders[g]]
        /\ worker' = [worker EXCEPT ![n].up = TRUE]
    BY <1>6 DEF Get
  <2>2. n \in Handles /\ n # old /\ made < n /\ n \in Nat /\ Handles \subseteq Nat
    BY <1>1, <2>1, PlanAssumption DEF Handles
  <2> HIDE DEF n
  <2>3. /\ OrdersType'
        /\ \A g \in Handles :
             /\ orders'[g].to = orders[g].to /\ orders'[g].from = orders[g].from
             /\ orders'[g].pending = orders[g].pending
             /\ orders'[g].serving = orders[g].serving
             /\ orders'[g].lock = orders[g].lock
             /\ g \notin {old, n} => orders'[g].open = orders[g].open
        /\ orders'[n].open
    <3>1. \A g \in Handles : orders[g] \in Channel
      BY <1>1 DEF OrdersType
    <3>2. \A g \in Handles : orders'[g] \in Channel
      BY <2>1, <3>1 DEF Channel
    <3>3. OrdersType'
      BY <2>1, <3>2 DEF OrdersType
    <3>4. \A g \in Handles :
             /\ orders'[g].to = orders[g].to /\ orders'[g].from = orders[g].from
             /\ orders'[g].pending = orders[g].pending
             /\ orders'[g].serving = orders[g].serving
             /\ orders'[g].lock = orders[g].lock
      BY <2>1, <3>1 DEF Channel
    <3>5. /\ \A g \in Handles : g \notin {old, n} => orders'[g].open = orders[g].open
          /\ orders'[n].open
      BY <2>1, <2>2, <3>1 DEF Channel
    <3> QED  BY <3>3, <3>4, <3>5
  <2>4. \A g \in Handles : worker'[g].up => worker[g].up \/ g = n
    BY <1>1, <2>1, <2>2 DEF WorkerType
  <2>5. Aside(t)
    BY <1>1, <1>2, <1>4, <2>1, <2>2, <2>3, <2>4 DEF Aside, history, Carries
  <2>6. Tabled'
    <3>1. \A g \in Handles : handle[g] \in [lock : Threads \cup {NoThread},
             retired : BOOLEAN, open : BOOLEAN, bound : 0..MaxHandles]
      BY <1>1 DEF HandleType
    <3>2. /\ \A g \in Handles : handle'[g].retired = handle[g].retired
          /\ handle'[n].open
      BY <2>1, <2>2, <3>1
    <3>3. ~handle'[n].retired
      BY <1>1, <2>2, <3>2 DEF Tabled
    <3>4. \A u \in Threads :
            call'[u].pc \in Disposing \cup {"kill"} => On(u)' # n
      <4> SUFFICES ASSUME NEW u \in Threads,
                          call'[u].pc \in Disposing \cup {"kill"}
                   PROVE  On(u)' # n
        OBVIOUS
      <4>1. u # t
        BY <1>3, <1>4 DEF Disposing
      <4>2. On(u)' = On(u) /\ On(u) <= made
        BY <1>1, <1>4, <4>1 DEF On, WInv, Unmade
      <4>3. On(u) \in 0..MaxHandles
        BY <1>1 DEF CallType, On
      <4> QED  BY <1>1, <2>2, <4>2, <4>3
    <3>5. \A g \in Handles : g > n => ~handle'[g].retired
      BY <1>1, <2>2, <3>2 DEF Tabled
    <3>6. ASSUME NEW g \in Handles, worker'[g].up PROVE orders'[g].open
      <4>1. CASE g = n
        BY <2>3, <4>1
      <4>2. CASE g = old /\ g # n
        <5>1. worker[g].up /\ old # NoHandle
          BY <2>4, <3>6, <4>2, PlanAssumption DEF Handles, NoHandle
        <5> QED  BY <1>1, <2>1, <4>2, <5>1 DEF Tabled, Healthy
      <4>3. CASE g \notin {old, n}
        BY <1>1, <2>3, <2>4, <3>6, <4>3 DEF Tabled
      <4> QED  BY <4>1, <4>2, <4>3
    <3> QED  BY <2>1, <3>2, <3>3, <3>4, <3>5, <3>6 DEF Tabled
  <2>7. Seat(t)' /\ ~Sending(t)
    <3>1. Ask(t)' = Ask(t)
      BY <1>2, <1>4, ThreadSame
    <3> QED
      BY <1>1, <1>3, <1>4, <3>1 DEF Seat, AtOrders, OrderPcs, Sending, Killing
  <2>8. \A u \in Threads : /\ call'[u].at = call[u].at /\ call[u].at \in Nat
                           /\ Sending(u) => Sending(u)' /\ On(u)' = On(u)
    BY <1>1, <1>4, <2>7 DEF CallType, Sending, On
  <2> QED  BY <1>2, <2>3, <2>5, <2>6, <2>7, <2>8, AsideKeeps
<1> QED  BY <1>5, <1>6

(* A channel whose lock is taken or given back keeps what is on it.        *)
LEMMA ChannelLocked ==
  ASSUME OrdersType, NEW h \in Handles, NEW l \in Threads \cup {NoThread},
         orders' = [orders EXCEPT ![h].lock = l]
  PROVE  /\ OrdersType' /\ orders'[h].lock = l
         /\ \A g \in Handles :
              /\ orders'[g].to = orders[g].to /\ orders'[g].from = orders[g].from
              /\ orders'[g].pending = orders[g].pending
              /\ orders'[g].serving = orders[g].serving
              /\ orders'[g].open = orders[g].open
              /\ g # h => orders'[g].lock = orders[g].lock
<1> DEFINE c == [orders[h] EXCEPT !.lock = l]
<1>1. orders[h] \in Channel
  BY DEF OrdersType
<1>2. /\ c \in Channel /\ c.to = orders[h].to /\ c.from = orders[h].from
      /\ c.pending = orders[h].pending /\ c.serving = orders[h].serving
      /\ c.open = orders[h].open /\ c.lock = l
  BY <1>1 DEF Channel
<1>3. orders' = [orders EXCEPT ![h] = c]
  OBVIOUS
<1> HIDE DEF c
<1>4. /\ OrdersType' /\ orders'[h] = c
      /\ \A g \in Handles \ {h} : orders'[g] = orders[g]
  BY <1>2, <1>3, ChannelPut
<1> QED  BY <1>2, <1>4

(* A thread takes the lock of a channel, or gives it back.                 *)
LEMMA LockAside ==
  ASSUME BInv, NEW t \in Threads, NEW h \in Handles, NEW l \in {t, NoThread},
         orders[h].lock \in {t, NoThread},
         orders' = [orders EXCEPT ![h].lock = l],
         UNCHANGED <<plan, workers, made, handle, worker, history>>,
         \A u \in Threads \ {t} : call'[u] = call[u],
         call'[t].pc \notin Disposing \cup {"kill"}
  PROVE  /\ Aside(t) /\ OrdersType' /\ Tabled' /\ orders'[h].lock = l
         /\ orders'[h].pending = orders[h].pending
<1>1. OrdersType /\ made \in Nat
  BY PlanAssumption DEF BInv, OInv, WInv, Typed, TableType
<1>2. /\ OrdersType' /\ orders'[h].lock = l
      /\ \A g \in Handles :
           /\ orders'[g].to = orders[g].to /\ orders'[g].from = orders[g].from
           /\ orders'[g].pending = orders[g].pending
           /\ orders'[g].serving = orders[g].serving
           /\ orders'[g].open = orders[g].open
           /\ g # h => orders'[g].lock = orders[g].lock
  BY <1>1, ChannelLocked
<1>3. Aside(t)
  BY <1>1, <1>2 DEF Aside, history, Carries
<1>4. Settled(t)
  BY <1>2 DEF Settled
<1> QED  BY <1>2, <1>3, <1>4, TabledKeeps

(* An order command gets its turn on the channel, or gives it up.          *)
LEMMA OrderTurns ==
  ASSUME BInv, NEW t \in Threads, OrderLock(t) \/ OrderTimeOut(t)
  PROVE  OInv'
<1>1. /\ CallType /\ On(t) \in Handles /\ Seat(t)
      /\ UNCHANGED <<plan, workers, made, handle, worker, history, result>>
  BY DEF BInv, OInv, WInv, Typed, Placed, PlacedAt, Seats, OrderLock,
     OrderTimeOut
<1>2. PICK pc \in {"order_send", "order_drain", "order_late"} :
        /\ Go(t, pc)
        /\ \/ /\ OrderLock(t) /\ call[t].pc = "order_lock"
              /\ orders' = [orders EXCEPT ![On(t)].lock = t]
              /\ pc \in AtOrders
              /\ pc = "order_send" => orders[On(t)].pending = NoRequest
           \/ /\ OrderTimeOut(t) /\ call[t].pc \in {"order_drain", "order_wait"}
              /\ orders' = [orders EXCEPT ![On(t)].lock = NoThread]
              /\ pc = "order_late"
  BY DEF OrderLock, OrderTimeOut, AtOrders
<1>3. /\ \A u \in Threads \ {t} : call'[u] = call[u]
      /\ call'[t].pc = pc /\ call'[t].at = call[t].at /\ On(t)' = On(t)
      /\ Ask(t)' = Ask(t) /\ Id(t)' = Id(t)
  <2>1. pc \in Pcs
    BY DEF Pcs
  <2>2. /\ \A u \in Threads \ {t} : call'[u] = call[u]
        /\ call'[t].pc = pc /\ call'[t].at = call[t].at /\ On(t)' = On(t)
    BY <1>1, <1>2, <2>1, GoFacts
  <2> QED  BY <1>1, <2>2, ThreadSame
<1>4. Ask(t) = "order"
  BY <1>1, <1>2 DEF Seat, OrderPcs, AtOrders
<1>5. PICK l \in {t, NoThread} :
        /\ orders' = [orders EXCEPT ![On(t)].lock = l]
        /\ pc \in AtOrders => l = t
  BY <1>2 DEF AtOrders
<1>6. /\ Aside(t) /\ OrdersType' /\ Tabled' /\ orders'[On(t)].lock = l
      /\ orders'[On(t)].pending = orders[On(t)].pending
  <2>1. orders[On(t)].lock \in {t, NoThread}
    BY <1>1, <1>2 DEF Seat, AtOrders, OrderLock
  <2>2. call'[t].pc \notin Disposing \cup {"kill"}
    BY <1>3 DEF Disposing
  <2>3. /\ orders' = [orders EXCEPT ![On(t)].lock = l] /\ On(t) \in Handles
        /\ UNCHANGED <<plan, workers, made, handle, worker, history>>
        /\ \A u \in Threads \ {t} : call'[u] = call[u]
    BY <1>1, <1>3, <1>5
  <2> QED  BY <2>1, <2>2, <2>3, LockAside
<1>7. Seat(t)'
  BY <1>2, <1>3, <1>4, <1>5, <1>6 DEF Seat, AtOrders
<1>8. \A u \in Threads : /\ call'[u].at = call[u].at /\ call[u].at \in Nat
                         /\ Sending(u) => Sending(u)' /\ On(u)' = On(u)
  <2>1. Sending(t) => Sending(t)'
    BY <1>2, <1>3 DEF Sending, Killing
  <2> QED  BY <1>1, <1>3, <2>1 DEF CallType, Sending, On
<1> QED  BY <1>1, <1>6, <1>7, <1>8, AsideKeeps

(* An order command fails when its channel is closed or its worker is gone.*)
LEMMA OrderBreaks ==
  ASSUME BInv, NEW t \in Threads, OrderBroken(t)
  PROVE  OInv'
<1>1. /\ WInv /\ On(t) \in Handles /\ ~Finished(t) /\ End(t, "failed")
      /\ UNCHANGED <<plan, workers, made, handle, worker, history>>
      /\ orders' = [orders EXCEPT ![On(t)].lock = NoThread]
      /\ "failed" \in Ends
  BY DEF BInv, WInv, Placed, PlacedAt, OrderBroken, Ends
<1>2. /\ call'[t].pc = "idle"
      /\ \A u \in Threads \ {t} : call'[u] = call[u]
  BY <1>1, EndFacts
<1>3. Aside(t) /\ OrdersType' /\ Tabled'
  <2>1. orders[On(t)].lock = t
    BY DEF BInv, OInv, Seats, Seat, AtOrders, OrderBroken
  <2>2. call'[t].pc \notin Disposing \cup {"kill"}
    BY <1>2 DEF Disposing
  <2> QED  BY <1>1, <1>2, <2>1, <2>2, LockAside
<1>4. ~worker'[On(t)].up
  BY <1>1 DEF OrderBroken, BInv, OInv, Tabled
<1>5. \A h \in Handles : orders[h].pending = Id(t) => h = On(t)
  <2> SUFFICES ASSUME NEW h \in Handles, orders[h].pending = Id(t)
               PROVE  h = On(t)
    OBVIOUS
  <2>1. Id(t) = <<t, call[t].at>> /\ call[t].at \in Place
    BY <1>1, PlanFacts DEF WInv
  <2>2. PendingAt(h, t, call[t].at)
    BY <2>1 DEF BInv, OInv, Pending
  <2> QED  BY <2>2 DEF PendingAt
<1> QED  BY <1>1, <1>3, <1>4, <1>5, EndsAside

(* An order command is sent on a channel on which nothing is pending.      *)
LEMMA OrderSends ==
  ASSUME BInv, NEW t \in Threads, OrderSend(t)
  PROVE  OInv'
<1>0. PICK h \in Handles : h = On(t)
  BY DEF BInv, WInv, Placed, PlacedAt, OrderSend
<1> DEFINE r == <<t, call[t].at>>
<1>1. /\ CallType /\ WInv /\ h \in Handles /\ ~Finished(t) /\ Seat(t)
      /\ call[t].pc = "order_send" /\ orders[h] \in Channel
      /\ UNCHANGED <<plan, workers, made, handle, worker, history>>
  BY <1>0 DEF BInv, OInv, WInv, Typed, Placed, PlacedAt, Seats, OrdersType,
     OrderSend
<1>2. /\ r \in Request /\ r # NoRequest /\ r = Id(t)
      /\ call[t].at \in Place /\ call[t].at \in Nat /\ ~Sending(t)
      /\ Ask(t) = "order" /\ orders[h].lock = t
  BY <1>0, <1>1, PlanFacts, PlanAssumption DEF WInv, NoRequest, Sending,
     Killing, Seat, OrderPcs, AtOrders, CallType
<1>3. orders[h].pending = NoRequest /\ Empty(h)
  BY <1>0, <1>1 DEF Seat, BInv, OInv, Pending
<1>4. begun[r] = 0
  <2>1. ForOrder(r)
    <3>1. plan[t] \in Seq(Asks) /\ call[t].at <= Len(plan[t])
      BY <1>1, PlanAssumption DEF WInv, Typed, TableType, CallType, Finished
    <3> QED  BY <1>2, <3>1 DEF ForOrder, Ask
  <2>2. Unsent(t, call[t].at)
    BY <1>2 DEF BInv, OInv, Fresh
  <2> QED  BY <1>2, <2>1, <2>2 DEF Unsent
<1>5. \A g \in Handles : orders[g].pending # r
  BY <1>1, <1>2, NotPending
<1>6. CASE orders[h].open /\ worker[h].up
  <2> DEFINE c == [orders[h] EXCEPT !.pending = r, !.to = <<r>>]
  <2>1. /\ orders' = [orders EXCEPT ![h] = c] /\ Go(t, "order_wait")
        /\ result' = result
    <3>1. Append(orders[h].to, Id(t)) = <<r>> /\ r = Id(t)
      BY <1>2, <1>3 DEF Empty
    <3> QED  BY <1>0, <1>6, <3>1 DEF OrderSend
  <2>2. /\ c \in Channel /\ c.open = orders[h].open /\ c.pending = r
        /\ c.lock = t /\ c.to = <<r>> /\ c.from = <<>>
        /\ c.serving = NoRequest
    <3>1. <<r>> \in Seq(Request)
      BY <1>2
    <3> QED  BY <1>1, <1>2, <1>3, <3>1 DEF Channel, Empty
  <2> HIDE DEF c, r
  <2>3. orders'[h] = c
    BY <1>1, <2>1, <2>2, ChannelPut DEF BInv, OInv
  <2>4. OnTheWay(h)'
    <3>1. begun' = begun
      BY <1>1 DEF history
    <3> QED  BY <1>4, <2>2, <2>3, <3>1 DEF OnTheWay
  <2>5. /\ \A u \in Threads \ {t} : call'[u] = call[u]
        /\ call'[t].pc = "order_wait" /\ call'[t].at = call[t].at
        /\ On(t)' = h /\ Ask(t)' = Ask(t) /\ Id(t)' = Id(t)
    <3>1. "order_wait" \in Pcs
      BY DEF Pcs
    <3>2. /\ \A u \in Threads \ {t} : call'[u] = call[u]
          /\ call'[t].pc = "order_wait" /\ call'[t].at = call[t].at
          /\ On(t)' = h
      BY <1>0, <1>1, <2>1, <3>1, GoFacts
    <3> QED  BY <1>1, <3>2, ThreadSame
  <2>6. Seat(t)' /\ Sending(t)'
    BY <1>2, <2>2, <2>3, <2>5 DEF Seat, Sending
  <2>7. call'[t].pc \notin Disposing \cup {"kill"} /\ call[t].pc \in AtOrders
    BY <1>1, <2>5 DEF Disposing, AtOrders
  <2>8. Exchanges(t, h, c)
    BY <1>0, <1>1, <1>2, <1>5, <2>1, <2>2, <2>4, <2>5, <2>6, <2>7 DEF Exchanges
  <2> QED  BY <2>2, <2>8, AtChannel
<1>7. CASE ~(orders[h].open /\ worker[h].up)
  <2> DEFINE c == [orders[h] EXCEPT !.pending = r, !.lock = NoThread]
  <2>1. orders' = [orders EXCEPT ![h] = c] /\ End(t, "failed")
    BY <1>0, <1>2, <1>7 DEF OrderSend
  <2>2. /\ c \in Channel /\ c.open = orders[h].open /\ c.pending = r
        /\ c.to = <<>> /\ c.from = <<>> /\ c.serving = NoRequest
    BY <1>1, <1>2, <1>3 DEF Channel, Empty
  <2> HIDE DEF c, r
  <2>3. orders'[h] = c
    BY <1>1, <2>1, <2>2, ChannelPut DEF BInv, OInv
  <2>4. Empty(h)'
    BY <2>2, <2>3 DEF Empty
  <2>5. /\ \A u \in Threads \ {t} : call'[u] = call[u]
        /\ call'[t].pc = "idle" /\ call'[t].at > call[t].at
        /\ call'[t].at \in Nat
        /\ \A q \in Request \ {r} : result'[q] = result[q]
    BY <1>1, <1>2, <2>1, EndFacts DEF Ends
  <2>6. Seat(t)' /\ call'[t].at >= call[t].at /\ call'[t].at # call[t].at
    BY <1>2, <2>5 DEF Seat, AtOrders, OrderPcs
  <2>7. call'[t].pc \notin Disposing \cup {"kill"} /\ call[t].pc \in AtOrders
    BY <1>1, <2>5 DEF Disposing, AtOrders
  <2>8. Exchanges(t, h, c)
    BY <1>0, <1>1, <1>2, <1>5, <2>1, <2>2, <2>4, <2>5, <2>6, <2>7 DEF Exchanges
  <2> QED  BY <2>2, <2>8, AtChannel
<1> QED  BY <1>6, <1>7

(* The answer that comes is that of the command that is pending.           *)
LEMMA OrderAnswer ==
  ASSUME BInv, NEW t \in Threads, OrderReceive(t)
  PROVE  /\ On(t) \in Handles
         /\ orders[On(t)].pending # NoRequest
         /\ orders[On(t)].from = <<orders[On(t)].pending>>
         /\ orders[On(t)].to = <<>> /\ orders[On(t)].serving = NoRequest
         /\ <<orders[On(t)].pending, "answered">> \in carried
         /\ call[t].pc = "order_wait" => orders[On(t)].pending = Id(t)
<1>1. On(t) \in Handles /\ orders[On(t)].from # <<>> /\ Seat(t)
  BY DEF BInv, OInv, WInv, Placed, PlacedAt, Seats, OrderReceive
<1>2. orders[On(t)].pending # NoRequest /\ Back(On(t))
  BY <1>1 DEF BInv, OInv, Pending, Empty, OnTheWay, AtWork
<1> QED  BY <1>1, <1>2 DEF Back, Seat

(* An answer is received: the asker's, or that of the command before.      *)
LEMMA OrderReceives ==
  ASSUME BInv, NEW t \in Threads, OrderReceive(t)
  PROVE  OInv'
<1>0. PICK h \in Handles : h = On(t)
  BY OrderAnswer
<1> DEFINE r == <<t, call[t].at>>
<1>1. /\ CallType /\ WInv /\ h \in Handles /\ ~Finished(t) /\ Seat(t)
      /\ call[t].pc \in {"order_drain", "order_wait"} /\ orders[h] \in Channel
      /\ UNCHANGED <<plan, workers, made, handle, worker, history>>
  BY <1>0 DEF BInv, OInv, WInv, Typed, Placed, PlacedAt, Seats, OrdersType,
     OrderReceive
<1>2. /\ r \in Request /\ r = Id(t) /\ call[t].at \in Place
      /\ call[t].at \in Nat /\ Ask(t) = "order" /\ orders[h].lock = t
      /\ call[t].pc \in AtOrders
  BY <1>0, <1>1, PlanFacts DEF WInv, Seat, OrderPcs, AtOrders, CallType
<1>3. /\ orders[h].from = <<orders[h].pending>> /\ orders[h].to = <<>>
      /\ orders[h].serving = NoRequest
      /\ Head(orders[h].from) = orders[h].pending /\ Tail(orders[h].from) = <<>>
      /\ call[t].pc = "order_wait" => orders[h].pending = r
  <2>1. /\ orders[h].from = <<orders[h].pending>> /\ orders[h].to = <<>>
        /\ orders[h].serving = NoRequest
        /\ call[t].pc = "order_wait" => orders[h].pending = r
    BY <1>0, <1>2, OrderAnswer
  <2>2. /\ Head(<<orders[h].pending>>) = orders[h].pending
        /\ Tail(<<orders[h].pending>>) = <<>>
    OBVIOUS
  <2> QED  BY <2>1, <2>2
<1>4. NoRequest # r /\ NoRequest \in Request \cup {NoRequest} /\ NoThread # t
  BY <1>2, PlanAssumption DEF NoRequest
<1>5. CASE call[t].pc = "order_drain"
  <2> DEFINE c == [orders[h] EXCEPT !.from = <<>>, !.pending = NoRequest]
  <2>1. /\ orders' = [orders EXCEPT ![h] = c] /\ Go(t, "order_send")
        /\ result' = result
    BY <1>0, <1>3, <1>5 DEF OrderReceive
  <2>2. /\ c \in Channel /\ c.open = orders[h].open /\ c.pending = NoRequest
        /\ c.lock = t /\ c.to = <<>> /\ c.from = <<>>
        /\ c.serving = NoRequest
    BY <1>1, <1>2, <1>3 DEF Channel
  <2> HIDE DEF c, r
  <2>3. orders'[h] = c
    BY <1>1, <2>1, <2>2, ChannelPut DEF BInv, OInv
  <2>4. Empty(h)'
    BY <2>2, <2>3 DEF Empty
  <2>5. /\ \A u \in Threads \ {t} : call'[u] = call[u]
        /\ call'[t].pc = "order_send" /\ call'[t].at = call[t].at
        /\ On(t)' = h /\ Ask(t)' = Ask(t)
    <3>1. "order_send" \in Pcs
      BY DEF Pcs
    <3>2. /\ \A u \in Threads \ {t} : call'[u] = call[u]
          /\ call'[t].pc = "order_send" /\ call'[t].at = call[t].at
          /\ On(t)' = h
      BY <1>0, <1>1, <2>1, <3>1, GoFacts
    <3> QED  BY <1>1, <3>2, ThreadSame
  <2>6. Seat(t)' /\ ~Sending(t)
    BY <1>2, <1>5, <2>2, <2>3, <2>5 DEF Seat, Sending, Killing
  <2>7. call'[t].pc \notin Disposing \cup {"kill"}
    BY <2>5 DEF Disposing
  <2>8. \A g \in Handles : orders[g].pending # r
    BY <1>1, <1>2, <2>6, NotPending
  <2>9. Exchanges(t, h, c)
    BY <1>0, <1>1, <1>2, <1>4, <2>1, <2>2, <2>4, <2>5, <2>6, <2>7, <2>8
       DEF Exchanges
  <2> QED  BY <2>2, <2>9, AtChannel
<1>6. CASE call[t].pc = "order_wait"
  <2> DEFINE c == [orders[h] EXCEPT !.from = <<>>, !.pending = NoRequest,
                                    !.lock = NoThread]
  <2>1. orders' = [orders EXCEPT ![h] = c] /\ End(t, "answered")
    <3>1. /\ orders' = [orders EXCEPT ![h].from = Tail(@), ![h].pending = NoRequest,
                                      ![h].lock = NoThread]
          /\ End(t, "answered")
      BY <1>0, <1>3, <1>6 DEF OrderReceive
    <3> QED  BY <1>3, <3>1
  <2>2. /\ c \in Channel /\ c.open = orders[h].open /\ c.pending = NoRequest
        /\ c.to = <<>> /\ c.from = <<>> /\ c.serving = NoRequest
    BY <1>1, <1>2, <1>3 DEF Channel
  <2> HIDE DEF c, r
  <2>3. orders'[h] = c
    BY <1>1, <2>1, <2>2, ChannelPut DEF BInv, OInv
  <2>4. Empty(h)'
    BY <2>2, <2>3 DEF Empty
  <2>5. /\ \A u \in Threads \ {t} : call'[u] = call[u]
        /\ call'[t].pc = "idle" /\ call'[t].at > call[t].at
        /\ call'[t].at \in Nat
        /\ \A q \in Request \ {r} : result'[q] = result[q]
    BY <1>1, <1>2, <2>1, EndFacts DEF Ends
  <2>6. Seat(t)' /\ call'[t].at >= call[t].at /\ call'[t].at # call[t].at
    BY <1>2, <2>5 DEF Seat, AtOrders, OrderPcs
  <2>7. call'[t].pc \notin Disposing \cup {"kill"}
    BY <2>5 DEF Disposing
  <2>8. \A g \in Handles \ {h} : orders[g].pending # r
    <3>1. PendingAt(h, t, call[t].at)
      BY <1>1, <1>2, <1>3, <1>6 DEF BInv, OInv, Pending, r
    <3> QED  BY <1>2, <3>1 DEF PendingAt, r
  <2>9. Exchanges(t, h, c)
    BY <1>0, <1>1, <1>2, <1>4, <2>1, <2>2, <2>4, <2>5, <2>6, <2>7, <2>8
       DEF Exchanges
  <2> QED  BY <2>2, <2>9, AtChannel
<1> QED  BY <1>1, <1>5, <1>6

(* The command loop of a worker takes no order command.                    *)
LEMMA LoopSteps ==
  ASSUME BInv, NEW h \in Handles, Take(h) \/ Answer(h) \/ Obey(h) \/ AskReplacement(h)
  PROVE  OInv'
<1>1. WInv /\ WorkerType /\ ResultType /\ PipeType
  BY DEF BInv, WInv, Typed
<1>2. \A r \in Request : Underway(r, h) => ~ForOrder(r)
  <2> SUFFICES ASSUME NEW r \in Request, Underway(r, h) PROVE ~ForOrder(r)
    OBVIOUS
  <2>1. PICK t \in Threads, k \in Place : r = <<t, k>>
    BY DEF Request, Place
  <2> QED  BY <1>1, <2>1 DEF WInv, Once, OnceFor
<1>3. CASE Take(h)
  <2>1. PICK r : r = Head(pipe[h].to)
    OBVIOUS
  <2>2. r \in Sent(h)
    BY <1>1, <1>3, <2>1, TakeTo DEF Take
  <2>3. /\ \A g \in Handles : worker'[g].up => worker[g].up
        /\ carried' = carried
        /\ UNCHANGED <<plan, workers, made, handle, orders, call, result>>
    BY <1>1, <1>3 DEF Take, WorkerType
  <2>4. \A q \in Request : ForOrder(q) => begun'[q] = begun[q]
    <3>1. r \in Request => ~ForOrder(r)
      BY <1>2, <2>2 DEF Underway
    <3>2. \A q \in Request : q # r => begun'[q] = begun[q]
      BY <1>1, <1>3, <2>1 DEF Take, ResultType
    <3> QED  BY <3>1, <3>2
  <2> QED  BY <2>3, <2>4, WorkerAside DEF Carries
<1>4. CASE Answer(h) \/ Obey(h) \/ AskReplacement(h)
  <2>0. worker[h].ready \in BOOLEAN
    BY <1>1 DEF WorkerType
  <2>1. PICK how \in Ways, ready \in BOOLEAN, restart \in BOOLEAN :
          Carried(h, how, ready, restart)
    BY <1>4, <2>0 DEF Answer, Obey, AskReplacement, Ways, Connects
  <2>2. PICK r : r = worker[h].req
    OBVIOUS
  <2>3. /\ UNCHANGED <<plan, workers, made, handle, orders, call, result, begun>>
        /\ carried' = IF r \in Request THEN carried \cup {<<r, how>>} ELSE carried
    BY <2>1, <2>2 DEF Carried
  <2>4. \A g \in Handles : worker'[g].up => worker[g].up
    BY <1>1, <2>1 DEF Carried, WorkerType
  <2>5. r \in Request => ~ForOrder(r)
    BY <1>2, <2>2 DEF Underway
  <2>6. \A q \in Request : ForOrder(q) => (Carries(q)' => Carries(q))
    BY <2>3, <2>5 DEF Carries
  <2> QED  BY <2>3, <2>4, <2>6, WorkerAside
<1> QED  BY <1>3, <1>4

(* A worker that hears a stop, exits or dies, somebody who wants a run to  *)
(* stop, and a step of nobody.                                             *)
LEMMA OtherSteps ==
  ASSUME BInv,
         \/ \E h \in Handles : Hear(h) \/ Leave(h) \/ Die(h)
         \/ \E t \in Threads : AskStop(t)
         \/ UNCHANGED vars
  PROVE  OInv'
<1>1. /\ UNCHANGED <<plan, workers, made, handle, orders, call, result>>
      /\ begun' = begun /\ carried' = carried
  BY DEF Hear, Leave, Die, AskStop, vars, history
<1>2. \A g \in Handles : worker'[g].up => worker[g].up
  <2>1. WorkerType
    BY DEF BInv, WInv, Typed
  <2>2. CASE worker' = worker
    BY <2>2
  <2>3. CASE \E h \in Handles : Hear(h)
    BY <2>1, <2>3 DEF Hear, WorkerType
  <2>4. CASE \E h \in Handles : worker' = [worker EXCEPT ![h] = Gone(@)]
    BY <2>1, <2>4 DEF WorkerType, Gone
  <2> QED  BY <2>2, <2>3, <2>4 DEF Leave, Die, AskStop, vars
<1> QED  BY <1>1, <1>2, WorkerAside DEF Carries

-----------------------------------------------------------------------------
(* Nobody has asked anything yet.                                          *)
LEMMA InitHolds == Init => WInv
<1> SUFFICES ASSUME Init PROVE WInv
  OBVIOUS
<1> USE DEF Init
<1>1. Runs \subseteq Threads /\ NoRequest \notin Threads \X Place
  BY PlanAssumption DEF Runs, Place, NoRequest
<1>2. \A h \in Handles :
        /\ pipe[h].to = <<>> /\ Sent(h) = {} /\ Answered(h) = {}
        /\ Wishes(h) = {} /\ NoRepeats(pipe[h].to)
  BY RangeOfEmpty, RepeatsEmpty DEF Emptied, Sent, Answered, Wishes
<1>3. Typed
  <2>1. TableType
    BY PlanAssumption DEF TableType, NoHandle
  <2>2. HandleType /\ SessionType
    BY PlanAssumption DEF HandleType, SessionType, NoSession, NoHandle
  <2>3. WorkerType /\ PipeType
    BY RangeOfEmpty DEF WorkerType, PipeType, Emptied
  <2>4. CallType /\ ResultType
    BY PlanAssumption DEF CallType, ResultType, Pcs, Killing, NoHandle
  <2> QED  BY <2>1, <2>2, <2>3, <2>4 DEF Typed
<1>4. Unmade
  BY <1>2, PlanAssumption DEF Unmade, On, NoHandle
<1>5. Placed
  <2> SUFFICES ASSUME NEW t \in Threads PROVE PlacedAt(t)
    BY DEF Placed
  <2>1. \A k \in Place : result[<<t, k>>] = "none"
    BY DEF Request, Place
  <2> QED  BY <2>1 DEF PlacedAt, Killing
<1>6. Locking
  BY DEF Locking, Locks, Late, Killing
<1>7. Once
  <2> SUFFICES ASSUME NEW t \in Threads, NEW k \in Place PROVE OnceFor(t, k)
    BY DEF Once
  <2>1. /\ begun[<<t, k>>] = 0 /\ ~Carries(<<t, k>>)
        /\ \A h \in Handles : ~Underway(<<t, k>>, h)
    BY <1>1, <1>2 DEF Carries, Underway, Request, Place
  <2> QED  BY <2>1 DEF OnceFor
<1>8. Answering
  BY <1>2 DEF Answering
<1>9. Stopping
  <2> SUFFICES ASSUME NEW h \in Handles PROVE StopsOwn(h)
    BY DEF Stopping
  <2> QED  BY <1>1, <1>2 DEF StopsOwn
<1>10. PassedOn
  BY DEF PassedOn
<1> QED
  BY <1>3, <1>4, <1>5, <1>6, <1>7, <1>8, <1>9, <1>10 DEF WInv

(* And nothing was sent on any channel.                                    *)
LEMMA InitOrders == Init => OInv
<1> SUFFICES ASSUME Init PROVE OInv
  OBVIOUS
<1> USE DEF Init
<1>1. \A h \in Handles : orders[h] = Unused
  OBVIOUS
<1>2. OrdersType
  <2>1. Unused \in Channel
    BY RangeOfEmpty DEF Unused, Channel
  <2> QED  BY <2>1 DEF OrdersType
<1>3. Tabled
  BY DEF Tabled, Disposing
<1>4. Pending
  <2>1. \A t \in Threads, k \in Place : NoRequest # <<t, k>>
    BY PlanAssumption DEF NoRequest
  <2> QED  BY <1>1, <2>1 DEF Pending, Empty, Unused
<1>5. Seats
  BY DEF Seats, Seat, OrderPcs, AtOrders
<1>6. Fresh
  BY DEF Fresh, Unsent, Request, Place
<1> QED  BY <1>2, <1>3, <1>4, <1>5, <1>6 DEF OInv

(* What is said of the pipes and the workers is kept.                      *)
LEMMA WorkersKeep == BInv /\ [Next]_vars => WInv'
<1> SUFFICES ASSUME BInv, [Next]_vars PROVE WInv'
  OBVIOUS
<1>0. WInv
  BY DEF BInv
<1>1. ASSUME NEW t \in Threads, Step(t) PROVE WInv'
  BY <1>0, <1>1, BeginKeeps, GetKeeps, LockKeeps, SendKeeps, ReceiveKeeps,
     TimeOutKeeps, PassStopKeeps, KillEndKeeps, KillKeeps, OrderMovesKeep,
     OrderEndsKeeps, RetireIdleKeeps, UnregisterKeeps, DisposeKeeps,
     DisposeLockKeeps, DisposeWaitKeeps, DisposeJoinKeeps DEF Step
<1>2. ASSUME NEW h \in Handles, WorkerStep(h) PROVE WInv'
  <2>1. CASE OrderTake(h) \/ OrderCarried(h)
    BY <2>1, OrderTakeKeeps, OrderCarriedKeeps DEF BInv
  <2>2. CASE ~(OrderTake(h) \/ OrderCarried(h))
    BY <1>0, <1>2, <2>2, TakeKeeps, HearKeeps, AnswerKeeps, LeaveKeeps, DieKeeps
       DEF WorkerStep
  <2> QED  BY <2>1, <2>2
<1>3. CASE UNCHANGED vars
  <2>1. PipeType' /\ WorkerType' /\ \A g \in Handles : Quiet(g)
    BY <1>0, <1>3, PipeSame DEF vars, WInv, Typed, WorkerType, Quiet, Kept,
       SamePipe
  <2>2. faults' \in 0..MaxFaults
    BY <1>0, <1>3 DEF vars, WInv, Typed, TableType
  <2> QED  BY <1>0, <1>3, <2>1, <2>2, WorkerGoes DEF vars, history
<1> QED  BY <1>0, <1>1, <1>2, <1>3, AskStopKeeps DEF Next

(* And so is what is said of the channels.                                 *)
LEMMA ChannelsKeep == BInv /\ [Next]_vars => OInv'
<1> SUFFICES ASSUME BInv, [Next]_vars PROVE OInv'
  OBVIOUS
<1>1. ASSUME NEW t \in Threads, Step(t) PROVE OInv'
  BY <1>1, PlainSteps, PlainEndSteps, DropSteps, LeaveTable, GetSteps,
     OrderTurns, OrderBreaks, OrderSends, OrderReceives DEF Step
<1>2. ASSUME NEW h \in Handles, WorkerStep(h) PROVE OInv'
  BY <1>2, LoopSteps, OtherSteps, OrderTakeKeeps, OrderCarriedKeeps
     DEF WorkerStep, BInv
<1> QED  BY <1>1, <1>2, OtherSteps DEF Next

(* The invariant of the backend holds in every behaviour.                  *)
LEMMA Invariance == Spec => []BInv
<1>1. Init => BInv
  BY InitHolds, InitOrders DEF BInv
<1>2. BInv /\ [Next]_vars => BInv'
  BY WorkersKeep, ChannelsKeep DEF BInv
<1> QED  BY <1>1, <1>2, PTL DEF Spec

(* Every variable stays in its type, and workers know of runs only as runs *)
(* they carry out or will be asked to stop (worker_state).                 *)
THEOREM TypeCorrect == Spec => []TypeOK
<1>1. BInv => TypeOK
  <2> SUFFICES ASSUME BInv PROVE TypeOK
    OBVIOUS
  <2> USE DEF BInv
  <2>1. ASSUME NEW h \in Handles
        PROVE  /\ worker[h].up \in BOOLEAN /\ worker[h].stop \in BOOLEAN
               /\ worker[h].ready \in BOOLEAN
               /\ worker[h].active \in Runs \cup {NoThread}
               /\ worker[h].pending \subseteq Runs
    BY DEF WInv, Typed, TableType, WorkerType, Stopping, StopsOwn
  <2>2. orders \in [Handles -> Channel]
    BY DEF OInv, OrdersType
  <2> QED
    BY <2>1, <2>2 DEF TypeOK, WInv, Typed, TableType, HandleType, SessionType,
       Channel
<1> QED  BY <1>1, Invariance, PTL

(* An order command that timed out never takes a worker down under another *)
(* request (_retire_idle_order_timeout tries the request lock and asks     *)
(* whether a run is in progress).  The lock alone does not carry this: a   *)
(* run whose request failed gives it back before its worker is dropped, so *)
(* the invariant also says that no run drops a handle that an order        *)
(* command drops (Locking).                                                *)
THEOREM OrdersSpareOthers == Spec => []IdleIsIdle
<1>1. WInv => IdleIsIdle
  <2> SUFFICES ASSUME WInv, NEW t \in Threads, NEW u \in Threads,
                      Late(t), u # t, On(u) = On(t)
               PROVE  /\ call[u].pc \notin {"send", "wait", "dispose_wait"}
                      /\ u \in Runs => worker[On(t)].req # Id(u)
    BY DEF IdleIsIdle, Late, Killing
  <2>1. /\ call[u].pc \notin {"send", "wait", "dispose_wait"}
        /\ u \in Runs => call[u].pc \notin Killing
    BY DEF WInv, Locking, Locks
  <2>2. On(t) \in Handles
    BY DEF WInv, Placed, PlacedAt, Late, Killing
  <2>3. ASSUME u \in Runs, worker[On(t)].req = Id(u) PROVE FALSE
    <3>1. /\ call[u].at \in Nat \ {0}
          /\ Id(u) \in AnyRequest \cup {NoRequest}
      BY <2>2, <2>3 DEF WInv, Typed, WorkerType, CallType
    <3>2. call[u].at \in Place
      BY <3>1, PlanAssumption DEF Id, AnyRequest, NoRequest, Place
    <3>3. Underway(<<u, call[u].at>>, On(t))
      BY <2>3 DEF Underway, Id
    <3>4. Out(u)
      BY <2>2, <3>1, <3>2, <3>3 DEF WInv, Once, OnceFor
    <3> QED  BY <2>1, <2>3, <3>4 DEF Out
  <2> QED  BY <2>1, <2>3
<1>2. BInv => WInv
  BY DEF BInv
<1> QED  BY <1>1, <1>2, Invariance, PTL

(* A worker is stopped by the stop of the run it carries out and by no     *)
(* other, and the stop of a run that waits arrives although it travels on  *)
(* a pipe of its own and may overtake the command it is meant for          *)
(* (worker_state keeps the stops of runs it has not seen yet).             *)
THEOREM StopsReachTheirRun == Spec => []StopReachesItsRun
<1>1. WInv => StopIsOwn
  <2> SUFFICES ASSUME WInv, NEW h \in Handles, worker[h].stop
               PROVE  /\ worker[h].active \in stopped
                      /\ worker[h].req[1] = worker[h].active
    BY DEF StopIsOwn
  <2>1. worker[h].active \in stopped /\ worker[h].active # NoThread
    BY PlanAssumption DEF WInv, Stopping, StopsOwn, Typed, TableType, Runs
  <2>2. PICK k \in Place : worker[h].req = <<worker[h].active, k>>
    BY <2>1 DEF WInv, Stopping, StopsOwn
  <2> QED  BY <2>1, <2>2
<1>2. WInv => StopArrives
  <2> SUFFICES ASSUME WInv, NEW t \in Threads, call[t].pc = "wait",
                      call[t].told, worker[On(t)].req = Id(t),
                      Stoppable(Id(t)), pipe[On(t)].ctl = <<>>
               PROVE  worker[On(t)].stop
    BY DEF StopArrives
  <2>1. Wishes(On(t)) = {}
    BY RangeOfEmpty DEF Wishes
  <2> QED  BY <2>1 DEF WInv, PassedOn, Heard
<1>3. BInv => WInv
  BY DEF BInv
<1> QED  BY <1>1, <1>2, <1>3, Invariance, PTL DEF StopReachesItsRun

-----------------------------------------------------------------------------
(* A step of the ledger of requests, or one that it does not see.          *)
RequestSteps == [Ledger!Next]_<<begun, carried, result>>

(* The end of a request is reported once, and with nothing that did not    *)
(* become of it.                                                           *)
LEMMA EndRefines ==
  ASSUME WInv, NEW t \in Threads, ~Finished(t), NEW how \in Ends,
         End(t, how), how \in Ways => <<Id(t), how>> \in carried,
         UNCHANGED history
  PROVE  RequestSteps
<1>1. /\ Id(t) = <<t, call[t].at>> /\ Id(t) \in Request
      /\ call[t].at \in Place /\ call[t].at \in Nat
  BY PlanFacts, PlanAssumption DEF WInv, Place
<1>2. result[Id(t)] = "none"
  <2>1. PlacedAt(t) /\ ~(call[t].at < call[t].at)
    BY <1>1 DEF WInv, Placed
  <2> QED  BY <1>1, <2>1 DEF PlacedAt
<1>3. how \in Ledger!Told
  BY DEF Ends, Ledger!Told, Ledger!Ways
<1>4. Ledger!Report(Id(t), how)
  BY <1>2 DEF Ledger!Report, Ledger!Ways, Ways, End, history
<1> QED  BY <1>1, <1>3, <1>4 DEF RequestSteps, Ledger!Next

(* The request of a worker was started on once, has not come to its end,   *)
(* and was not reported as answered, stopped or failed.                    *)
LEMMA UnderwayIsOpen ==
  ASSUME WInv, NEW r \in Request, NEW h \in Handles, Underway(r, h)
  PROVE  /\ Ledger!Open(r) /\ ~Carries(r)
         /\ r \in Sent(h) => begun[r] = 0
         /\ worker[h].req = r => begun[r] = 1
<1>1. PICK t \in Threads, k \in Place : r = <<t, k>>
  BY DEF Request, Place
<1>2. OnceFor(t, k) /\ PlacedAt(t) /\ call[t].at \in Nat /\ k \in Nat
  BY PlanAssumption DEF WInv, Once, Placed, Typed, CallType, Place
<1>3. k < call[t].at => result[r] = "mismatch"
  BY <1>1, <1>2 DEF OnceFor
<1>4. ~(k < call[t].at) => result[r] = "none"
  BY <1>1, <1>2 DEF PlacedAt
<1> QED  BY <1>1, <1>2, <1>3, <1>4 DEF OnceFor, Ledger!Open

(* A worker that takes a request starts on it.                             *)
LEMMA TakeRefines ==
  ASSUME WInv, NEW h \in Handles, Take(h)
  PROVE  RequestSteps
<1>1. PICK r \in AnyRequest : r = Head(pipe[h].to) /\ r \in Sent(h)
  BY TakeTo DEF WInv, Typed, Take
<1>2. CASE r \in Request
  <2>1. Ledger!Open(r) /\ begun[r] = 0
    BY <1>1, <1>2, UnderwayIsOpen DEF Underway
  <2>2. begun' = [begun EXCEPT ![r] = 1] /\ UNCHANGED <<carried, result>>
    BY <1>1, <1>2, <2>1 DEF Take
  <2>3. Ledger!Start(r)
    BY <2>1, <2>2 DEF Ledger!Start
  <2> QED  BY <1>2, <2>3 DEF RequestSteps, Ledger!Next
<1>3. CASE r \notin Request
  BY <1>1, <1>3 DEF Take, RequestSteps
<1> QED  BY <1>2, <1>3

(* A worker that comes to the end of a request carries it out.             *)
LEMMA CarriedRefines ==
  ASSUME WInv, NEW h \in Handles, NEW how \in Ways, NEW ready, NEW restart,
         Carried(h, how, ready, restart)
  PROVE  RequestSteps
<1>1. UNCHANGED <<begun, result>>
  BY DEF Carried
<1>2. CASE worker[h].req \in Request
  <2>1. /\ Ledger!Open(worker[h].req) /\ begun[worker[h].req] = 1
        /\ ~Carries(worker[h].req)
    BY <1>2, UnderwayIsOpen DEF Underway
  <2>2. carried' = carried \cup {<<worker[h].req, how>>}
    BY <1>2 DEF Carried
  <2>3. \A d \in carried : d[1] # worker[h].req
    BY <2>1 DEF Carries, WInv, Typed, ResultType
  <2>4. Ledger!CarryOut(worker[h].req, how)
    BY <1>1, <2>1, <2>2, <2>3 DEF Ledger!CarryOut
  <2> QED
    BY <1>2, <2>4 DEF RequestSteps, Ledger!Next, Ledger!Ways, Ways
<1>3. CASE worker[h].req \notin Request
  BY <1>1, <1>3 DEF Carried, RequestSteps
<1> QED  BY <1>2, <1>3

(* An answer that names the request was given when it had been carried out.*)
LEMMA ReceiveRefines ==
  ASSUME WInv, NEW t \in Threads, Receive(t)
  PROVE  RequestSteps
<1>0. PICK h \in Handles : h = On(t)
  BY DEF WInv, Placed, PlacedAt, Receive
<1>1. ~Finished(t) /\ Id(t) \in Request
  BY PlanFacts DEF WInv, Placed, PlacedAt, Receive
<1>2. UNCHANGED history
  BY DEF Receive
<1>3. PICK a \in Answered(h) :
        /\ a \in AnswerType
        /\ \/ End(t, "mismatch")
           \/ result' = result
           \/ a.id = Id(t) /\ End(t, a.how)
  <2>1. pipe[h].from # <<>>
    BY <1>0 DEF Receive
  <2>2. pipe' = [pipe EXCEPT ![h].from = Tail(@)]
    BY <1>0 DEF Receive
  <2>3. Head(pipe[h].from) \in Answered(h) /\ Head(pipe[h].from) \in AnswerType
    BY <2>1, <2>2, TakeFrom DEF WInv, Typed
  <2> QED  BY <1>0, <2>3 DEF Receive
<1>4. CASE End(t, "mismatch")
  BY <1>1, <1>2, <1>4, EndRefines DEF Ends, Ways
<1>5. CASE result' = result
  BY <1>2, <1>5 DEF RequestSteps, history
<1>6. CASE a.id = Id(t) /\ End(t, a.how)
  <2>1. <<Id(t), a.how>> \in carried /\ a.how \in Ends
    BY <1>1, <1>3, <1>6 DEF WInv, Answering, AnswerType, Ends, Ways
  <2> QED  BY <1>1, <1>2, <1>6, <2>1, EndRefines
<1> QED  BY <1>3, <1>4, <1>5, <1>6

(* An order command is reported as answered when the answer that came is   *)
(* that of the command: the channel holds no other.                        *)
LEMMA OrderReceiveRefines ==
  ASSUME BInv, NEW t \in Threads, OrderReceive(t)
  PROVE  RequestSteps
<1>1. WInv /\ ~Finished(t) /\ UNCHANGED history
  BY DEF BInv, WInv, Placed, PlacedAt, OrderReceive
<1>2. /\ orders[On(t)].from = <<orders[On(t)].pending>>
      /\ <<orders[On(t)].pending, "answered">> \in carried
      /\ call[t].pc = "order_wait" => orders[On(t)].pending = Id(t)
  BY OrderAnswer
<1>3. Head(orders[On(t)].from) = orders[On(t)].pending
  BY <1>2
<1>4. CASE call[t].pc = "order_drain"
  BY <1>1, <1>3, <1>4 DEF OrderReceive, RequestSteps, history
<1>5. CASE call[t].pc = "order_wait"
  <2>1. End(t, "answered")
    BY <1>3, <1>5 DEF OrderReceive
  <2>2. <<Id(t), "answered">> \in carried
    BY <1>2, <1>5
  <2> QED  BY <1>1, <2>1, <2>2, EndRefines DEF Ends
<1> QED  BY <1>4, <1>5 DEF OrderReceive

(* The command that the order thread starts on or comes to the end of may  *)
(* still be carried out: whoever sent it waits, or was told that it is     *)
(* unconfirmed.                                                            *)
LEMMA PendingIsOpen ==
  ASSUME BInv, NEW h \in Handles, worker[h].up, ~Empty(h)
  PROVE  Ledger!Open(orders[h].pending)
<1>1. orders[h].pending # NoRequest
  BY DEF BInv, OInv, Pending
<1>2. PICK t \in Threads, k \in Place :
        orders[h].pending = <<t, k>> /\ PendingAt(h, t, k)
  BY <1>1, PendingFacts
<1>3. PlacedAt(t) /\ call[t].at \in Nat /\ k \in Nat
  BY PlanAssumption DEF BInv, WInv, Placed, Typed, CallType, Place
<1>4. CASE k < call[t].at
  BY <1>2, <1>4 DEF PendingAt, Ledger!Open
<1>5. CASE ~(k < call[t].at)
  BY <1>2, <1>3, <1>5 DEF PlacedAt, Ledger!Open
<1> QED  BY <1>4, <1>5

(* The order thread starts on a command once, and carries it out once.     *)
LEMMA OrderThreadRefines ==
  ASSUME BInv, NEW h \in Handles, OrderTake(h) \/ OrderCarried(h)
  PROVE  RequestSteps
<1>1. CASE OrderTake(h)
  <2>1. PICK r \in Request : /\ r = orders[h].pending /\ ~Empty(h)
                             /\ begun[r] = 0 /\ begun' = [begun EXCEPT ![r] = 1]
    BY <1>1, OrderTakeKeeps
  <2>2. Ledger!Open(r) /\ UNCHANGED <<carried, result>>
    BY <1>1, <2>1, PendingIsOpen DEF OrderTake
  <2>3. Ledger!Start(r)
    BY <2>1, <2>2 DEF Ledger!Start
  <2> QED  BY <2>3 DEF RequestSteps, Ledger!Next
<1>2. CASE OrderCarried(h)
  <2>1. PICK r \in Request :
          /\ r = orders[h].pending /\ ~Empty(h)
          /\ begun[r] = 1 /\ ~Carries(r) /\ begun' = begun
          /\ carried' = carried \cup {<<r, "answered">>}
    BY <1>2, OrderCarriedKeeps
  <2>2. Ledger!Open(r) /\ result' = result
    BY <1>2, <2>1, PendingIsOpen DEF OrderCarried
  <2>3. \A d \in carried : d[1] # r
    BY <2>1 DEF Carries, BInv, WInv, Typed, ResultType
  <2>4. Ledger!CarryOut(r, "answered")
    BY <2>1, <2>2, <2>3 DEF Ledger!CarryOut
  <2> QED  BY <2>4 DEF RequestSteps, Ledger!Next, Ledger!Ways
<1> QED  BY <1>1, <1>2

(* The other threads' steps report a request, or leave the ledger alone.   *)
LEMMA StepRefines ==
  ASSUME BInv, NEW t \in Threads, Step(t)
  PROVE  RequestSteps
<1>0. WInv
  BY DEF BInv
<1>1. CASE UNCHANGED <<begun, carried, result>>
  BY <1>1 DEF RequestSteps
<1>2. CASE \/ Begin(t) \/ OrderSend(t) \/ OrderBroken(t) \/ RetireIdle(t)
           \/ Unregister(t)
  <2>1. ~Finished(t)
    BY <1>0, <1>2 DEF Begin, OrderSend, OrderBroken, RetireIdle, Unregister,
       WInv, Placed, PlacedAt
  <2>2. UNCHANGED history
    BY <1>2 DEF Begin, OrderSend, OrderBroken, RetireIdle, Unregister
  <2>3. \/ result' = result
        \/ \E how \in {"refused", "failed", "done", "unconfirmed"} : End(t, how)
    BY <1>2 DEF Begin, OrderSend, OrderBroken, RetireIdle, Unregister
  <2> QED
    BY <1>0, <1>1, <2>1, <2>2, <2>3, EndRefines DEF Ends, Ways, history
<1>3. CASE Kill(t) \/ DisposeJoin(t)
  <2>1. ~Finished(t) /\ PlacedAt(t)
    BY <1>0, <1>3 DEF Kill, DisposeJoin, WInv, Placed, PlacedAt
  <2>2. UNCHANGED history
    BY <1>3 DEF Kill, DisposeJoin
  <2>3. PICK how \in {"answered", "failed", "done", "unconfirmed"} :
          End(t, how) /\ (how = "answered" => call[t].end = how)
    BY <1>0, <1>3, <2>1 DEF Kill, DisposeJoin, PlacedAt, Killing, WInv, Typed,
       CallType
  <2> QED
    BY <1>0, <2>1, <2>2, <2>3, EndRefines DEF PlacedAt, Ends, Ways
<1>5. CASE Get(t) \/ Lock(t) \/ Send(t) \/ TimeOut(t) \/ Broken(t)
  BY <1>1, <1>5 DEF Get, Lock, Send, TimeOut, Broken, history
<1>6. CASE \/ PassStop(t) \/ ForceStop(t) \/ KillEnd(t) \/ KillPop(t)
           \/ OrderBind(t) \/ OrderLock(t) \/ OrderBusy(t) \/ OrderTimeOut(t)
  BY <1>1, <1>6 DEF PassStop, ForceStop, KillEnd, KillPop, OrderBind,
     OrderLock, OrderBusy, OrderTimeOut, history
<1>7. CASE \/ Dispose(t) \/ DisposeLock(t) \/ DisposeWait(t)
           \/ DisposeClose(t)
  BY <1>1, <1>7 DEF Dispose, DisposeLock, DisposeWait, DisposeClose, history
<1> QED
  BY <1>0, <1>2, <1>3, <1>5, <1>6, <1>7, ReceiveRefines, OrderReceiveRefines
     DEF Step

(* The threads, the pipes and the processes implement the ledger of        *)
(* requests (send_request, recv, the command loop of the worker,           *)
(* OrdersChannel.request and the worker's order thread): a worker starts   *)
(* on a request once, and only while nobody was told that it failed, and   *)
(* an answer that came late or named another request never passes for the  *)
(* one that is waited for.  That a dropped worker is gone before its       *)
(* request is reported (Kill), that a request has one place at a time, on  *)
(* one pipe or at one worker (Once), and that a channel holds nothing but  *)
(* the command that is pending (Pending), carry it.  An order command      *)
(* whose time-out is over can still be carried out, once: its asker was    *)
(* told that it is unconfirmed, and never that it failed.                  *)
THEOREM BackendRefinesLedger == Spec => RefinesLedger
<1>1. Init => Ledger!Init
  BY DEF Init, Ledger!Init
<1>2. BInv /\ [Next]_vars => [Ledger!Next]_<<begun, carried, result>>
  <2> SUFFICES ASSUME BInv, [Next]_vars PROVE RequestSteps
    BY DEF RequestSteps
  <2>0. WInv
    BY DEF BInv
  <2>1. ASSUME NEW h \in Handles, WorkerStep(h) PROVE RequestSteps
    <3>1. CASE Answer(h) \/ Obey(h) \/ AskReplacement(h)
      BY <2>0, <3>1, CarriedRefines DEF Answer, Obey, AskReplacement, Ways
    <3>2. CASE Hear(h) \/ Leave(h) \/ Die(h)
      BY <3>2 DEF Hear, Leave, Die, history, RequestSteps
    <3> QED
      BY <2>0, <2>1, <3>1, <3>2, TakeRefines, OrderThreadRefines DEF WorkerStep
  <2>2. CASE (\E t \in Threads : AskStop(t)) \/ UNCHANGED vars
    BY <2>2 DEF AskStop, vars, history, RequestSteps
  <2> QED  BY <2>1, <2>2, StepRefines DEF Next
<1> QED
  BY <1>1, <1>2, Invariance, PTL DEF Spec, RefinesLedger, Ledger!Spec,
     Ledger!vars

=============================================================================
