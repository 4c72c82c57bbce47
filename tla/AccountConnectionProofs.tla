----------------------- MODULE AccountConnectionProofs -----------------------
(***************************************************************************)
(* The connection of an account, for every set of orders and all bounds:   *)
(* a list that is shown as complete is current, nothing replaces the       *)
(* executor under a run, and after a failure nobody logs in before it is   *)
(* time.                                                                   *)
(*                                                                         *)
(* The order book is where the argument is: what it says of an order may   *)
(* differ from the exchange only while a push that will set it right is on *)
(* its way, and the mark that a query took when it began tells which of    *)
(* its rows are older than what the pushes have said since.                *)
(***************************************************************************)
EXTENDS AccountConnection, TLAPS

-----------------------------------------------------------------------------
Market == {"absent", "live", "done"}
Shown == {"absent", "live", "done", "unknown"}
BookType == [st : [Orders -> Shown], changed : [Orders -> Nat], version : Nat,
             invalid : Nat, base : Nat, error : {"unsynced", "lost", "none"}]
SyncType == [mark : Nat, asked : BOOLEAN, got : BOOLEAN, rows : [Orders -> Market]]
Pushes == Orders \X {"live", "done"}
Doing == Holding \cup {"idle", "arrives", "waits", "runs"}

Records ==
  /\ market \in [Orders -> Market] /\ wire \in Seq(Pushes)
  /\ book \in BookType /\ syncs \in [Readers -> SyncType]
  /\ placed \subseteq Orders
Positions ==
  /\ phase \in {"none", "connecting", "logged", "ready", "dead"}
  /\ lock \in Threads \cup {"free"} /\ pc \in [Threads -> Doing]
  /\ kind \in Kinds \cup {"none"}
Switches ==
  /\ once \in BOOLEAN /\ tried \in BOOLEAN /\ error \in BOOLEAN /\ hot \in BOOLEAN
  /\ off \in BOOLEAN /\ moved \in BOOLEAN /\ adopted \in BOOLEAN
  /\ enabled \in BOOLEAN /\ due \in BOOLEAN /\ owed \in BOOLEAN
Typed == Records /\ Positions /\ Switches

(* Who may do what: a thread that holds the lock works on the executor, an *)
(* order command builds none, and no recovery begins under a run.          *)
Turns ==
  /\ \A t \in Threads : (lock = t) <=> (pc[t] \in Holding)
  /\ pc["command"] \notin {"arrives", "runs", "connects", "confirms", "reports"}
  /\ pc["recovery"] \notin {"arrives", "runs", "queries"}
  /\ pc["main"] # "queries"
  /\ pc["main"] = "runs" => lock # "recovery"

(* A query belongs to the thread that began it.                            *)
Asking ==
  /\ \A r \in Readers : syncs[r].got => syncs[r].asked
  /\ syncs["host"].asked =>
       \E t \in Threads : lock = t /\ pc[t] \in {"connects", "confirms", "queries"}
  /\ syncs["run"].asked \/ placed # {} => pc["main"] = "runs"

(* How far the session is, by what the threads do with it.                 *)
Starting == \E t \in Threads : lock = t /\ pc[t] = "connects"
Checking ==
  \E t \in {"main", "recovery"} : lock = t /\ pc[t] \in {"confirms", "settles", "reports"}
Using == adopted \/ pc["main"] = "runs" \/ (lock # "free" /\ ~Starting)
Alive == phase \in {"connecting", "logged", "ready"}
Sessions ==
  /\ phase \in {"connecting", "logged"} => Starting
  /\ phase = "connecting" => book = NewBook /\ ~syncs["host"].asked
  /\ Starting => phase \in {"connecting", "logged", "dead"} /\ ~adopted
  /\ Using => phase \in {"ready", "dead"}
  /\ wire # <<>> => Streaming
  /\ off => phase = "none"
  /\ phase = "ready" /\ Suspect => Checking

(* An instance that is up has a book that was never lost, and one that     *)
(* broke under its user has a book that no query begun before makes good.  *)
Versions ==
  /\ book.base <= book.version
  /\ \A o \in Orders : book.changed[o] <= book.version
  /\ \A r \in Readers : syncs[r].asked => syncs[r].mark <= book.version
  /\ Alive => /\ book.invalid = 0
              /\ book.error = IF book.base = 0 THEN "unsynced" ELSE "none"
  /\ phase = "ready" => book.base # 0
  /\ phase = "dead" /\ Using =>
       /\ book.error = "lost"
       /\ \A r \in Readers : syncs[r].asked => syncs[r].mark < book.invalid

(* After a failure the connection may not be tried, but by a user who has  *)
(* asked since.                                                            *)
Spaced ==
  /\ owed => off \/ (error /\ hot)
  /\ pc["main"] = "waits" /\ kind = "connect" /\ ~moved => ~owed

(* What a push, an answer and a finished call say is true or was true, and *)
(* then the push of the end comes after.                                   *)
Coming(o, s) == \E i \in 1..Len(wire) : wire[i] = <<o, s>>
Over(o) == book.st[o] = "done" \/ Coming(o, "done")

Pushed(o) ==
  \A i \in 1..Len(wire) :
    /\ wire[i] = <<o, "live">> => market[o] # "absent"
    /\ wire[i] = <<o, "done">> => market[o] = "done"
    /\ wire[i] = <<o, "live">> /\ market[o] = "done" =>
         \E j \in 1..Len(wire) : i < j /\ wire[j] = <<o, "done">>

(* The book.                                                               *)
Booked(o) ==
  /\ book.st[o] # "absent" => market[o] # "absent"
  /\ book.st[o] \in {"done", "unknown"} => market[o] = "done"
  /\ book.st[o] = "live" /\ market[o] = "done" => Coming(o, "done")
  /\ book.st[o] = "absent" /\ market[o] = "live" /\ book.base # 0 =>
       Coming(o, "live")

(* The rows of a query that was answered.                                  *)
Answered(o, r) ==
  syncs[r].got =>
    /\ syncs[r].rows[o] # "absent" => market[o] # "absent"
    /\ syncs[r].rows[o] = "done" => market[o] = "done"
    /\ syncs[r].rows[o] = "live" /\ market[o] = "done" => Over(o)
    /\ syncs[r].rows[o] = "absent" /\ book.st[o] = "absent" /\ market[o] = "live" =>
         Coming(o, "live")
    /\ syncs[r].rows[o] = "absent" /\ book.st[o] \in {"live", "unknown"}
       /\ book.changed[o] <= syncs[r].mark => market[o] = "done"

(* A call to place an order that has not returned.                         *)
Placing(o) ==
  o \in placed => market[o] # "absent" /\ (market[o] = "done" => Over(o))

Sound(o) ==
  /\ Pushed(o) /\ Booked(o) /\ Placing(o)
  /\ \A r \in Readers : Answered(o, r)
Truthful == Streaming => \A o \in Orders : Sound(o)

CInv == Typed /\ Turns /\ Asking /\ Sessions /\ Versions /\ Spaced /\ Truthful

-----------------------------------------------------------------------------
(* The order book.                                                          *)

(* A push changes one order and is the latest change of it, or nothing.    *)
LEMMA AppliedBook ==
  ASSUME NEW b \in BookType, NEW o \in Orders, NEW s \in {"live", "done"},
         NEW x, x = Apply(b, o, s)
  PROVE  /\ x \in BookType
         /\ x.invalid = b.invalid /\ x.base = b.base /\ x.error = b.error
         /\ x.version >= b.version
         /\ x = b \/ /\ x.st[o] = s /\ b.st[o] # "done" /\ b.st[o] # s
                     /\ x.changed[o] = x.version
                     /\ x.version = b.version + 1
         /\ x.st[o] \in {s, "done"} /\ (x.st[o] = "done" => "done" \in {s, b.st[o]})
         /\ b.st[o] = s \/ b.st[o] = "done" => x = b
<1> DEFINE v == b.version + 1
           a == [b EXCEPT !.st[o] = s, !.version = v, !.changed[o] = v]
<1>1. CASE b.st[o] = s \/ b.st[o] = "done"
  <2>1. Apply(b, o, s) = b
    BY <1>1 DEF Apply
  <2> QED
    BY <1>1, <2>1 DEF BookType
<1>2. CASE ~(b.st[o] = s \/ b.st[o] = "done")
  <2>1. Apply(b, o, s) = a
    BY <1>2, Zenon DEF Apply
  <2>2. v \in Nat
    BY DEF BookType
  <2>3. a \in BookType
    BY <2>2 DEF BookType, Shown
  <2>4. /\ a.invalid = b.invalid /\ a.base = b.base /\ a.error = b.error
        /\ a.version = v
    BY DEF BookType
  <2>5. /\ a.st = [b.st EXCEPT ![o] = s] /\ a.changed = [b.changed EXCEPT ![o] = v]
    BY DEF BookType
  <2>6. a.st[o] = s /\ a.changed[o] = v
    BY <2>5 DEF BookType
  <2> HIDE DEF a
  <2>8. v > b.version /\ v = b.version + 1
    BY DEF BookType
  <2> QED
    BY <1>2, <2>1, <2>3, <2>4, <2>6, <2>8 DEF BookType
<1> QED
  BY <1>1, <1>2

LEMMA AppliedOthers ==
  ASSUME NEW b \in BookType, NEW o \in Orders, NEW s \in {"live", "done"},
         NEW p \in Orders, p # o
  PROVE  /\ Apply(b, o, s).st[p] = b.st[p]
         /\ Apply(b, o, s).changed[p] = b.changed[p]
<1> DEFINE v == b.version + 1
           a == [b EXCEPT !.st[o] = s, !.version = v, !.changed[o] = v]
<1>1. Apply(b, o, s) = b \/ Apply(b, o, s) = a
  BY Zenon DEF Apply
<1>2. /\ a.st = [b.st EXCEPT ![o] = s] /\ a.changed = [b.changed EXCEPT ![o] = v]
  BY DEF BookType
<1>3. a.st[p] = b.st[p] /\ a.changed[p] = b.changed[p]
  BY <1>2 DEF BookType
<1> QED
  BY <1>1, <1>3

(* The loss of the connection has a version of its own.                    *)
LEMMA InvalidatedBook ==
  ASSUME NEW b \in BookType
  PROVE  /\ Invalidate(b) \in BookType
         /\ Invalidate(b).error = "lost"
         /\ Invalidate(b).st = b.st /\ Invalidate(b).changed = b.changed
         /\ Invalidate(b).base = b.base
         /\ Invalidate(b).version >= b.version
         /\ b.error = "lost" => Invalidate(b) = b
         /\ b.error # "lost" => Invalidate(b).invalid > b.version
<1> DEFINE v == b.version + 1
           a == [b EXCEPT !.error = "lost", !.version = v, !.invalid = v]
<1>1. CASE b.error = "lost"
  BY <1>1 DEF Invalidate, BookType
<1>2. CASE b.error # "lost"
  <2>1. Invalidate(b) = a
    BY <1>2, Zenon DEF Invalidate
  <2>2. v \in Nat /\ v > b.version
    BY DEF BookType
  <2>3. a \in BookType
    BY <2>2 DEF BookType
  <2>4. /\ a.error = "lost" /\ a.st = b.st /\ a.changed = b.changed
        /\ a.base = b.base /\ a.version = v /\ a.invalid = v
    BY DEF BookType
  <2> HIDE DEF a
  <2> QED
    BY <1>2, <2>1, <2>2, <2>3, <2>4 DEF BookType
<1> QED
  BY <1>1, <1>2

(* A complete query takes the place of what is older than its mark.        *)
Keeps(b, mark, o) == b.st[o] # "absent" /\ (b.changed[o] > mark \/ b.st[o] = "done")

LEMMA ReplacedBook ==
  ASSUME NEW b \in BookType, NEW rows \in [Orders -> Market], NEW mark \in Nat,
         mark >= b.base, \A o \in Orders : b.changed[o] <= b.version,
         NEW x, x = Replace(b, rows, mark)
  PROVE  /\ x \in BookType
         /\ x.version = b.version + 1 /\ x.base = b.version + 1
         /\ x.invalid = b.invalid
         /\ b.invalid <= mark => x.error = "none"
         /\ b.invalid > mark => x.error = b.error
         /\ \A o \in Orders :
              /\ x.changed[o] <= x.version
              /\ b.st[o] # "absent" => x.changed[o] = b.changed[o]
              /\ b.st[o] = "absent" /\ x.st[o] # "absent" => x.changed[o] = x.version
              /\ Keeps(b, mark, o) => x.st[o] = b.st[o]
              /\ ~Keeps(b, mark, o) /\ rows[o] # "absent" => x.st[o] = rows[o]
              /\ ~Keeps(b, mark, o) /\ rows[o] = "absent" =>
                   x.st[o] = IF b.st[o] = "absent" THEN "absent" ELSE "unknown"
<1> DEFINE v == b.version + 1
           New(o) == IF Keeps(b, mark, o) THEN b.st[o]
                     ELSE IF rows[o] # "absent" THEN rows[o]
                     ELSE IF b.st[o] = "absent" THEN "absent" ELSE "unknown"
           Change(o) == IF New(o) = "absent" THEN 0
                        ELSE IF b.st[o] = "absent" THEN v ELSE b.changed[o]
           e == IF b.invalid <= mark THEN "none" ELSE b.error
           a == [st |-> [o \in Orders |-> New(o)],
                 changed |-> [o \in Orders |-> Change(o)],
                 version |-> v, base |-> v, invalid |-> b.invalid, error |-> e]
<1>1. ~(mark < b.base)
  BY DEF BookType
<1>2. Replace(b, rows, mark) = a
  BY <1>1, Zenon DEF Replace, Keeps
<1>3. v \in Nat /\ e \in {"unsynced", "lost", "none"}
  BY DEF BookType
<1>4. \A o \in Orders : New(o) \in Shown
  BY DEF BookType, Shown, Market
<1>5. \A o \in Orders : Change(o) \in Nat /\ Change(o) <= v
  <2> TAKE o \in Orders
  <2>1. b.changed[o] \in Nat /\ b.changed[o] <= b.version /\ b.version \in Nat
    BY DEF BookType
  <2> QED
    BY <2>1
<1>6. \A o \in Orders : b.st[o] # "absent" => Change(o) = b.changed[o]
  <2> TAKE o \in Orders
  <2> HAVE b.st[o] # "absent"
  <2>1. New(o) # "absent"
    BY DEF Keeps
  <2> QED
    BY <2>1
<1>13. \A o \in Orders : b.st[o] = "absent" /\ New(o) # "absent" => Change(o) = v
  OBVIOUS
<1> HIDE DEF New, Change
<1>7. a \in BookType
  BY <1>3, <1>4, <1>5 DEF BookType
<1>8. \A o \in Orders : a.st[o] = New(o) /\ a.changed[o] = Change(o)
  OBVIOUS
<1>9. a.version = v /\ a.base = v /\ a.invalid = b.invalid /\ a.error = e
  OBVIOUS
<1> HIDE DEF a
<1>10. b.invalid <= mark => e = "none"
  OBVIOUS
<1>11. b.invalid > mark => e = b.error
  BY DEF BookType
<1>12. \A o \in Orders :
         /\ Keeps(b, mark, o) => New(o) = b.st[o]
         /\ ~Keeps(b, mark, o) /\ rows[o] # "absent" => New(o) = rows[o]
         /\ ~Keeps(b, mark, o) /\ rows[o] = "absent" =>
              New(o) = IF b.st[o] = "absent" THEN "absent" ELSE "unknown"
  BY DEF New
<1> QED
  BY <1>2, <1>5, <1>6, <1>7, <1>8, <1>9, <1>10, <1>11, <1>12, <1>13

LEMMA StaleBook ==
  ASSUME NEW b, NEW rows, NEW mark, mark < b.base
  PROVE  Replace(b, rows, mark) = b
BY DEF Replace

LEMMA NewBookTyped == NewBook \in BookType
BY DEF NewBook, BookType, Shown

-----------------------------------------------------------------------------
(* Queries and pushes.                                                      *)

LEMMA NoSyncTyped == NoSync \in SyncType /\ ~NoSync.asked /\ ~NoSync.got
BY DEF NoSync, SyncType, Market

(* The beginning of a query, and its end, change one of the two queries.   *)
LEMMA SyncBegun ==
  ASSUME Typed, NEW r \in Readers, Asks(r)
  PROVE  /\ syncs' \in [Readers -> SyncType]
         /\ syncs'[r].mark = book.version /\ syncs'[r].asked
         /\ syncs'[r].got = syncs[r].got /\ syncs'[r].rows = syncs[r].rows
         /\ \A q \in Readers : q # r => syncs'[q] = syncs[q]
<1> DEFINE s == [syncs[r] EXCEPT !.mark = book.version, !.asked = TRUE]
<1>1. syncs' = [syncs EXCEPT ![r] = s]
  BY Zenon DEF Asks
<1>2. /\ s \in SyncType /\ s.mark = book.version /\ s.asked
      /\ s.got = syncs[r].got /\ s.rows = syncs[r].rows
  BY DEF Typed, Records, SyncType, BookType
<1> HIDE DEF s
<1> QED
  BY <1>1, <1>2 DEF Typed, Records

LEMMA SyncDropped ==
  ASSUME Typed, NEW r \in Readers, syncs' = [syncs EXCEPT ![r] = NoSync]
  PROVE  /\ syncs' \in [Readers -> SyncType]
         /\ ~syncs'[r].asked /\ ~syncs'[r].got
         /\ \A q \in Readers : q # r => syncs'[q] = syncs[q]
BY NoSyncTyped DEF Typed, Records

(* Both readers are there.                                                 *)
LEMMA HostAndRun == "host" \in Readers /\ "run" \in Readers
BY DEF Readers

LEMMA PushSent ==
  ASSUME wire \in Seq(Pushes), NEW o \in Orders, NEW s \in {"live", "done"},
         wire' = Append(wire, <<o, s>>)
  PROVE  /\ wire' \in Seq(Pushes) /\ wire' # <<>>
         /\ Len(wire') = Len(wire) + 1
         /\ \A i \in 1..Len(wire) : wire'[i] = wire[i]
         /\ wire'[Len(wire')] = <<o, s>>
         /\ Coming(o, s)'
         /\ \A p, e : Coming(p, e) => Coming(p, e)'
<1>1. <<o, s>> \in Pushes
  BY DEF Pushes
<1>2. /\ wire' \in Seq(Pushes) /\ wire' # <<>> /\ Len(wire') = Len(wire) + 1
      /\ \A i \in 1..Len(wire) : wire'[i] = wire[i]
      /\ wire'[Len(wire) + 1] = <<o, s>>
  BY <1>1
<1>3. Len(wire) \in Nat
  OBVIOUS
<1>4. Coming(o, s)'
  BY <1>2, <1>3 DEF Coming
<1>5. ASSUME NEW p, NEW e, Coming(p, e)
      PROVE  Coming(p, e)'
  <2>1. PICK i \in 1..Len(wire) : wire[i] = <<p, e>>
    BY <1>5 DEF Coming
  <2>2. i \in 1..Len(wire') /\ wire'[i] = <<p, e>>
    BY <1>2, <1>3, <2>1
  <2> QED
    BY <2>2 DEF Coming
<1> QED
  BY <1>2, <1>4, <1>5

LEMMA PushTaken ==
  ASSUME wire \in Seq(Pushes), wire # <<>>, wire' = Tail(wire)
  PROVE  /\ wire' \in Seq(Pushes) /\ Len(wire') = Len(wire) - 1
         /\ \A i \in 1..Len(wire') : i + 1 \in 1..Len(wire) /\ wire'[i] = wire[i + 1]
         /\ \A p, e : Coming(p, e) => Coming(p, e)' \/ wire[1] = <<p, e>>
<1>1. /\ wire' \in Seq(Pushes) /\ Len(wire') = Len(wire) - 1
      /\ \A i \in 1..Len(wire') : i + 1 \in 1..Len(wire) /\ wire'[i] = wire[i + 1]
  OBVIOUS
<1>2. Len(wire) \in Nat
  OBVIOUS
<1>3. ASSUME NEW p, NEW e, Coming(p, e), wire[1] # <<p, e>>
      PROVE  Coming(p, e)'
  <2>1. PICK i \in 1..Len(wire) : wire[i] = <<p, e>>
    BY <1>3 DEF Coming
  <2>2. i - 1 \in 1..Len(wire') /\ i = (i - 1) + 1
    BY <1>1, <1>2, <1>3, <2>1
  <2>3. wire'[i - 1] = <<p, e>>
    BY <1>1, <2>1, <2>2
  <2> QED
    BY <2>2, <2>3 DEF Coming
<1> QED
  BY <1>1, <1>3

-----------------------------------------------------------------------------
(* What is true stays true when nothing it is about changes.                *)

LEMMA TruthKeeps ==
  ASSUME Truthful, UNCHANGED <<market, wire, placed, book>>,
         Streaming' => Streaming,
         \A r \in Readers : syncs'[r].got => syncs'[r] = syncs[r]
  PROVE  Truthful'
<1> SUFFICES ASSUME Streaming', NEW o \in Orders
             PROVE  Sound(o)'
  BY DEF Truthful
<1>1. Sound(o)
  BY DEF Truthful
<1>2. \A e : Coming(o, e) <=> Coming(o, e)'
  BY DEF Coming
<1>3. Pushed(o)' /\ Booked(o)' /\ Placing(o)'
  BY <1>1, <1>2 DEF Sound, Pushed, Booked, Placing, Over
<1>4. ASSUME NEW r \in Readers
      PROVE  Answered(o, r)'
  BY <1>1, <1>2 DEF Sound, Answered, Over
<1> QED
  BY <1>3, <1>4 DEF Sound

LEMMA SilentIsTrue ==
  ASSUME ~Streaming'
  PROVE  Truthful'
BY DEF Truthful

LEMMA VersionsKeep ==
  ASSUME Versions, UNCHANGED <<book, syncs>>, Alive' => Alive,
         phase' = "ready" => phase = "ready",
         phase' = "dead" /\ Using' => phase = "dead" /\ Using
  PROVE  Versions'
BY DEF Versions

-----------------------------------------------------------------------------
(* What is true of the orders, by what can happen to it.                    *)

(* The exchange goes on with an order and pushes it.                       *)
LEMMA MarketMoves ==
  ASSUME Typed, Truthful, NEW o \in Orders, NEW s \in {"live", "done"},
         s = "live" => market[o] = "absent",
         s = "done" => market[o] = "live",
         market' = [market EXCEPT ![o] = s], wire' = Sent(o, s),
         placed' = placed \/ (s = "live" /\ placed' = placed \cup {o}),
         UNCHANGED <<book, syncs, phase>>
  PROVE  Truthful'
<1> SUFFICES ASSUME Streaming, NEW p \in Orders
             PROVE  Sound(p)'
  BY DEF Truthful, Streaming
<1>1. Sound(p) /\ Sound(o)
  BY DEF Truthful
<1>2. wire' = Append(wire, <<o, s>>)
  BY DEF Sent
<1>3. /\ wire' \in Seq(Pushes) /\ Len(wire') = Len(wire) + 1
      /\ \A i \in 1..Len(wire) : wire'[i] = wire[i]
      /\ wire'[Len(wire')] = <<o, s>>
      /\ Coming(o, s)'
      /\ \A q, e : Coming(q, e) => Coming(q, e)'
  BY <1>2, PushSent DEF Typed, Records
<1>4. \A i \in 1..Len(wire') : i \in 1..Len(wire) \/ i = Len(wire')
  BY <1>3 DEF Typed, Records
<1>5. Len(wire) \in Nat /\ \A j \in 1..Len(wire) : j \in 1..Len(wire')
  BY <1>3 DEF Typed, Records
<1>6. market'[p] = IF p = o THEN s ELSE market[p]
  BY DEF Typed, Records
<1>7. CASE p # o
  <2>1. Pushed(p)'
    <3> SUFFICES ASSUME NEW i \in 1..Len(wire'), wire'[i] \in {<<p, "live">>, <<p, "done">>}
                 PROVE  /\ wire'[i] = <<p, "live">> => market'[p] # "absent"
                        /\ wire'[i] = <<p, "done">> => market'[p] = "done"
                        /\ wire'[i] = <<p, "live">> /\ market'[p] = "done" =>
                             \E j \in 1..Len(wire') : i < j /\ wire'[j] = <<p, "done">>
      BY DEF Pushed
    <3>1. i \in 1..Len(wire) /\ wire[i] = wire'[i]
      BY <1>3, <1>4, <1>7
    <3>2. /\ wire[i] = <<p, "live">> => market[p] # "absent"
          /\ wire[i] = <<p, "done">> => market[p] = "done"
          /\ wire[i] = <<p, "live">> /\ market[p] = "done" =>
               \E j \in 1..Len(wire) : i < j /\ wire[j] = <<p, "done">>
      BY <1>1, <3>1 DEF Sound, Pushed
    <3>3. ASSUME wire[i] = <<p, "live">>, market[p] = "done"
          PROVE  \E j \in 1..Len(wire') : i < j /\ wire'[j] = <<p, "done">>
      <4>1. PICK j \in 1..Len(wire) : i < j /\ wire[j] = <<p, "done">>
        BY <3>2, <3>3
      <4> QED
        BY <1>3, <1>5, <4>1
    <3> QED
      BY <1>6, <1>7, <3>1, <3>2, <3>3
  <2>2. Booked(p)' /\ Placing(p)'
    BY <1>1, <1>3, <1>6, <1>7 DEF Sound, Booked, Placing, Over
  <2>3. \A r \in Readers : Answered(p, r)'
    BY <1>1, <1>3, <1>6, <1>7 DEF Sound, Answered, Over
  <2> QED
    BY <2>1, <2>2, <2>3 DEF Sound
<1>8. CASE p = o /\ s = "live"
  <2>1. market[o] = "absent" /\ market'[o] = "live" /\ book.st[o] = "absent"
    BY <1>1, <1>6, <1>8 DEF Sound, Booked
  <2>2. Pushed(o)'
    <3>1. \A i \in 1..Len(wire') : wire'[i] # <<o, "done">>
      BY <1>1, <1>3, <1>4, <1>8, <2>1 DEF Sound, Pushed
    <3> QED
      BY <2>1, <3>1 DEF Pushed
  <2>3. Booked(o)' /\ Placing(o)'
    BY <1>3, <1>8, <2>1 DEF Booked, Placing
  <2>4. \A r \in Readers : Answered(o, r)'
    BY <1>1, <1>3, <1>8, <2>1 DEF Sound, Answered
  <2> QED
    BY <1>8, <2>2, <2>3, <2>4 DEF Sound
<1>9. CASE p = o /\ s = "done"
  <2>1. market[o] = "live" /\ market'[o] = "done"
    BY <1>6, <1>9
  <2>2. Pushed(o)'
    <3>1. Len(wire') \in 1..Len(wire') /\ wire'[Len(wire')] = <<o, "done">>
      BY <1>3, <1>5, <1>9
    <3>2. \A i \in 1..Len(wire') : wire'[i] = <<o, "live">> => i < Len(wire')
      BY <1>3, <1>4, <1>5, <1>9
    <3> QED
      BY <2>1, <3>1, <3>2 DEF Pushed
  <2>3. Booked(o)' /\ Placing(o)'
    BY <1>3, <1>9, <2>1 DEF Booked, Placing, Over
  <2>4. \A r \in Readers : Answered(o, r)'
    BY <1>3, <1>9, <2>1 DEF Answered, Over
  <2> QED
    BY <1>9, <2>2, <2>3, <2>4 DEF Sound
<1> QED
  BY <1>7, <1>8, <1>9

(* The book hears of an order, from a push or from a call that returns.    *)
LEMMA BookHears ==
  ASSUME Typed, Versions, Asking, Truthful, Streaming,
         NEW o \in Orders, NEW s \in {"live", "done"},
         book' = Apply(book, o, s), UNCHANGED <<market, syncs>>,
         placed' \subseteq placed,
         \A p \in Orders : Pushed(p)',
         \A p \in Orders, e \in {"live", "done"} :
            Coming(p, e) => Coming(p, e)' \/ (p = o /\ e = s),
         market[o] # "absent", s = "done" => market[o] = "done",
         s = "live" /\ market[o] = "done" /\ book.st[o] # "done" => Coming(o, "done")'
  PROVE  Truthful'
<1> SUFFICES ASSUME NEW p \in Orders
             PROVE  Sound(p)'
  BY DEF Truthful
<1>1. Sound(p)
  BY DEF Truthful
<1>2. /\ book' \in BookType /\ book'.base = book.base /\ book'.version >= book.version
      /\ \A q \in Orders : q # o => book'.st[q] = book.st[q] /\ book'.changed[q] = book.changed[q]
      /\ book' = book \/ /\ book'.st[o] = s /\ book.st[o] # "done" /\ book.st[o] # s
                         /\ book'.changed[o] = book'.version
                         /\ book'.version = book.version + 1
      /\ book'.st[o] \in {s, "done"}
      /\ book'.st[o] = "done" => "done" \in {s, book.st[o]}
      /\ book.st[o] = s \/ book.st[o] = "done" => book' = book
  <2>1. book \in BookType
    BY DEF Typed, Records
  <2>2. /\ book' \in BookType /\ book'.base = book.base /\ book'.version >= book.version
        /\ book' = book \/ /\ book'.st[o] = s /\ book.st[o] # "done" /\ book.st[o] # s
                           /\ book'.changed[o] = book'.version
                           /\ book'.version = book.version + 1
        /\ book'.st[o] \in {s, "done"}
        /\ book'.st[o] = "done" => "done" \in {s, book.st[o]}
        /\ book.st[o] = s \/ book.st[o] = "done" => book' = book
    BY <2>1, AppliedBook
  <2>3. ASSUME NEW q \in Orders, q # o
        PROVE  book'.st[q] = book.st[q] /\ book'.changed[q] = book.changed[q]
    BY <2>1, <2>3, AppliedOthers
  <2> QED
    BY <2>2, <2>3
<1>3. Over(p) => Over(p)'
  <2>1. CASE book.st[p] = "done"
    BY <1>2, <2>1 DEF Over
  <2>2. CASE Coming(p, "done") /\ ~Coming(p, "done")'
    <3>1. p = o /\ s = "done"
      BY <2>2
    <3>2. book'.st[o] = "done"
      BY <1>2, <3>1
    <3> QED
      BY <3>1, <3>2 DEF Over
  <2> QED
    BY <2>1, <2>2 DEF Over
<1>4. CASE p # o
  <2>1. Booked(p)' /\ Placing(p)'
    BY <1>1, <1>2, <1>3, <1>4 DEF Sound, Booked, Placing
  <2>2. \A r \in Readers : Answered(p, r)'
    BY <1>1, <1>2, <1>3, <1>4 DEF Sound, Answered
  <2> QED
    BY <2>1, <2>2 DEF Sound
<1>5. CASE p = o
  <2>1. book'.st[o] \in {s, "done"} /\ (book'.st[o] = "done" => market[o] = "done")
    <3>1. book.st[o] = "done" => market[o] = "done"
      BY <1>1, <1>5 DEF Sound, Booked
    <3> QED
      BY <1>2, <3>1
  <2>2. book'.st[o] = "live" => s = "live" /\ book.st[o] # "done"
    BY <1>2, <2>1
  <2>3. Booked(o)' /\ Placing(o)'
    BY <1>1, <1>3, <1>5, <2>1, <2>2 DEF Sound, Booked, Placing
  <2>4. ASSUME NEW r \in Readers, syncs[r].got
        PROVE  Answered(o, r)'
    <3>1. Answered(o, r)
      BY <1>1, <1>5 DEF Sound
    <3>2. syncs[r].mark <= book.version /\ syncs[r].mark \in Nat /\ book.version \in Nat
      BY <2>4 DEF Versions, Asking, Typed, Records, SyncType, BookType
    <3>3. book' # book => ~(book'.changed[o] <= syncs[r].mark)
      BY <1>2, <3>2
    <3>4. CASE book' = book
      BY <1>3, <1>5, <2>1, <3>1, <3>4 DEF Answered
    <3>5. CASE book' # book
      BY <1>3, <1>5, <2>1, <2>4, <3>1, <3>3, <3>5 DEF Answered
    <3> QED
      BY <3>4, <3>5
  <2>5. \A r \in Readers : Answered(o, r)'
    BY <2>4 DEF Answered
  <2> QED
    BY <1>5, <2>3, <2>5 DEF Sound
<1> QED
  BY <1>4, <1>5

(* The rows of a query are installed over what is older than its mark.     *)
LEMMA RowsInstalled ==
  ASSUME Typed, Versions, Asking, Truthful, NEW r \in Readers, Install(r),
         UNCHANGED <<market, wire, placed, phase>>
  PROVE  Truthful'
<1> DEFINE rows == syncs[r].rows
           mark == syncs[r].mark
<1>1. syncs[r].got /\ book' = Replace(book, rows, mark)
      /\ syncs' = [syncs EXCEPT ![r] = NoSync]
  BY DEF Install
<1>2. /\ ~syncs'[r].got /\ \A q \in Readers : q # r => syncs'[q] = syncs[q]
  BY <1>1, SyncDropped
<1>3. book \in BookType /\ rows \in [Orders -> Market] /\ mark \in Nat /\ book.version \in Nat
  BY DEF Typed, Records, SyncType, BookType
<1>4. \A q \in Readers : syncs[q].got => syncs[q].mark <= book.version /\ syncs[q].mark \in Nat
  BY DEF Typed, Records, SyncType, Asking, Versions
<1>5. CASE mark < book.base
  <2>1. book' = book
    BY <1>1, <1>5, StaleBook
  <2> QED
    BY <1>2, <2>1, TruthKeeps DEF Streaming
<1>6. CASE mark >= book.base
  <2> SUFFICES ASSUME Streaming, NEW p \in Orders
               PROVE  Sound(p)'
    BY DEF Truthful, Streaming
  <2>1. Sound(p)
    BY DEF Truthful
  <2>2. \A o \in Orders : book.changed[o] <= book.version
    BY DEF Versions
  <2>3. /\ book'.version = book.version + 1
        /\ book.st[p] # "absent" => book'.changed[p] = book.changed[p]
        /\ Keeps(book, mark, p) => book'.st[p] = book.st[p]
        /\ ~Keeps(book, mark, p) /\ rows[p] # "absent" => book'.st[p] = rows[p]
        /\ ~Keeps(book, mark, p) /\ rows[p] = "absent" =>
             book'.st[p] = IF book.st[p] = "absent" THEN "absent" ELSE "unknown"
        /\ book.st[p] = "absent" /\ book'.st[p] # "absent" =>
             book'.changed[p] = book'.version
    BY <1>1, <1>3, <1>6, <2>2, ReplacedBook
  <2>4. \A e : Coming(p, e) <=> Coming(p, e)'
    BY DEF Coming
  <2>5. Pushed(p)'
    BY <2>1 DEF Sound, Pushed
  <2>6. book.st[p] \in Shown /\ rows[p] \in Market /\ book.changed[p] \in Nat
    BY <1>3 DEF BookType
  <2>7. Answered(p, r)
    BY <2>1 DEF Sound
  <2>8. Over(p) => Over(p)'
    <3>1. CASE book.st[p] = "done"
      BY <2>3, <3>1 DEF Over, Keeps
    <3>2. CASE Coming(p, "done")
      BY <2>4, <3>2 DEF Over
    <3> QED
      BY <3>1, <3>2 DEF Over
  <2>9. Booked(p)'
    <3>1. CASE Keeps(book, mark, p)
      BY <2>1, <2>3, <2>4, <3>1 DEF Sound, Booked, Keeps
    <3>2. CASE ~Keeps(book, mark, p) /\ rows[p] # "absent"
      <4>1. book.st[p] # "done"
        BY <3>2 DEF Keeps
      <4> QED
        BY <1>1, <2>3, <2>4, <2>6, <2>7, <3>2, <4>1 DEF Booked, Answered, Over,
           Market
    <3>3. CASE ~Keeps(book, mark, p) /\ rows[p] = "absent" /\ book.st[p] = "absent"
      BY <1>1, <2>3, <2>4, <2>7, <3>3 DEF Booked, Answered
    <3>4. CASE ~Keeps(book, mark, p) /\ rows[p] = "absent" /\ book.st[p] # "absent"
      <4>1. book.changed[p] <= mark /\ book.st[p] \in {"live", "unknown"}
        BY <1>3, <2>6, <3>4 DEF Keeps, Shown
      <4>2. market[p] = "done" /\ book'.st[p] = "unknown"
        BY <1>1, <2>3, <2>7, <3>4, <4>1 DEF Answered
      <4> QED
        BY <4>2 DEF Booked
    <3> QED
      BY <3>1, <3>2, <3>3, <3>4
  <2>10. Placing(p)'
    BY <2>1, <2>8 DEF Sound, Placing
  <2>11. ASSUME NEW q \in Readers, q # r, syncs[q].got
         PROVE  Answered(p, q)'
    <3>1. Answered(p, q)
      BY <2>1 DEF Sound
    <3>2. syncs'[q] = syncs[q]
      BY <1>2, <2>11
    <3>3. book'.st[p] = "absent" => book.st[p] = "absent"
      BY <2>3, <2>6
    <3>4. ASSUME syncs[q].rows[p] = "absent", book'.st[p] \in {"live", "unknown"},
                 book'.changed[p] <= syncs[q].mark
          PROVE  market[p] = "done"
      <4>1. book.st[p] # "absent"
        BY <1>3, <1>4, <2>3, <2>11, <3>4
      <4>2. CASE book.st[p] \in {"live", "unknown"}
        BY <2>3, <2>11, <3>1, <3>4, <4>1, <4>2 DEF Answered
      <4>3. CASE book.st[p] = "done"
        BY <2>1, <4>3 DEF Sound, Booked
      <4> QED
        BY <2>6, <4>1, <4>2, <4>3 DEF Shown
    <3> QED
      BY <2>4, <2>8, <2>11, <3>1, <3>2, <3>3, <3>4 DEF Answered
  <2>12. \A q \in Readers : Answered(p, q)'
    BY <1>2, <2>11 DEF Answered
  <2> QED
    BY <2>5, <2>9, <2>10, <2>12 DEF Sound
<1> QED
  BY <1>3, <1>5, <1>6 DEF BookType

(* A query is answered from what the exchange has now.                     *)
LEMMA RowsAnswered ==
  ASSUME Typed, NEW r \in Readers, Truthful, Streaming,
         syncs' = [syncs EXCEPT ![r].rows = Rows(phase = "logged"), ![r].got = TRUE],
         UNCHANGED <<market, wire, book, placed, phase>>
  PROVE  /\ syncs' \in [Readers -> SyncType]
         /\ \A q \in Readers : syncs'[q].mark = syncs[q].mark /\ syncs'[q].asked = syncs[q].asked
         /\ \A q \in Readers : q # r => syncs'[q] = syncs[q]
         /\ Truthful'
<1> DEFINE rows == Rows(phase = "logged")
           s == [syncs[r] EXCEPT !.rows = rows, !.got = TRUE]
<1>1. syncs' = [syncs EXCEPT ![r] = s]
  BY Zenon
<1>2. rows \in [Orders -> Market]
  BY DEF Rows, Typed, Records, Market
<1>3. \A o \in Orders : rows[o] = market[o] \/ (rows[o] = "absent" /\ market[o] = "done")
  BY DEF Rows, Typed, Records
<1> HIDE DEF rows
<1>4. /\ s \in SyncType /\ s.mark = syncs[r].mark /\ s.asked = syncs[r].asked
      /\ s.rows = rows
  BY <1>2 DEF Typed, Records, SyncType
<1> HIDE DEF s
<1>5. /\ syncs' \in [Readers -> SyncType] /\ syncs'[r] = s
      /\ \A q \in Readers : q # r => syncs'[q] = syncs[q]
  BY <1>1, <1>4 DEF Typed, Records
<1>6. ASSUME NEW o \in Orders
      PROVE  Sound(o)'
  <2>1. Sound(o)
    BY DEF Truthful
  <2>2. \A e : Coming(o, e) <=> Coming(o, e)'
    BY DEF Coming
  <2>3. Pushed(o)' /\ Booked(o)' /\ Placing(o)'
    BY <2>1, <2>2 DEF Sound, Pushed, Booked, Placing, Over
  <2>4. \A q \in Readers : q # r => Answered(o, q)'
    BY <1>5, <2>1, <2>2 DEF Sound, Answered, Over
  <2>5. Answered(o, r)'
    BY <1>3, <1>4, <1>5, <2>1 DEF Sound, Booked, Answered
  <2> QED
    BY <2>3, <2>4, <2>5 DEF Sound
<1> QED
  BY <1>4, <1>5, <1>6 DEF Truthful

(* Nothing is known of a session that has just logged in.                  *)
LEMMA FreshIsTrue ==
  ASSUME wire' = <<>>, placed' = {}, book' = NewBook, \A r \in Readers : ~syncs'[r].got
  PROVE  Truthful'
<1> SUFFICES ASSUME NEW o \in Orders
             PROVE  Sound(o)'
  BY DEF Truthful
<1>1. book'.st[o] = "absent" /\ book'.base = 0
  BY DEF NewBook
<1>2. Pushed(o)'
  BY DEF Pushed
<1>3. Booked(o)' /\ Placing(o)' /\ \A r \in Readers : Answered(o, r)'
  BY <1>1 DEF Booked, Placing, Answered
<1> QED
  BY <1>2, <1>3 DEF Sound

(* What the versions say, when the book hears of an order, when the rows   *)
(* of a query are installed, and when a query begins or ends.              *)
LEMMA HeardVersions ==
  ASSUME Typed, Versions, NEW o \in Orders, NEW s \in {"live", "done"},
         book' = Apply(book, o, s), UNCHANGED <<syncs, phase>>, Using' => Using
  PROVE  book' \in BookType /\ Versions'
<1>1. book \in BookType
  BY DEF Typed, Records
<1>2. /\ book' \in BookType /\ book'.base = book.base /\ book'.version >= book.version
      /\ book'.invalid = book.invalid /\ book'.error = book.error
      /\ book' = book \/ book'.changed[o] = book'.version
  BY <1>1, AppliedBook
<1>3. ASSUME NEW p \in Orders
      PROVE  book'.changed[p] <= book'.version
  <2>1. CASE p # o
    <3>1. book'.changed[p] = book.changed[p]
      BY <1>1, <2>1, AppliedOthers
    <3> QED
      BY <1>1, <1>2, <3>1 DEF Versions, BookType
  <2>2. CASE p = o
    BY <1>1, <1>2, <2>2 DEF Versions, BookType
  <2> QED
    BY <2>1, <2>2
<1>4. \A r \in Readers : syncs[r].asked => syncs[r].mark <= book'.version
  BY <1>1, <1>2 DEF Versions, Typed, Records, SyncType, BookType
<1>5. book'.base <= book'.version
  BY <1>1, <1>2 DEF Versions, BookType
<1> QED
  BY <1>2, <1>3, <1>4, <1>5 DEF Versions, Alive

LEMMA InstalledVersions ==
  ASSUME Typed, Versions, Asking, NEW r \in Readers, Install(r), UNCHANGED phase,
         Using' => Using
  PROVE  book' \in BookType /\ Versions'
<1> DEFINE rows == syncs[r].rows
           mark == syncs[r].mark
<1>1. /\ syncs[r].got /\ syncs[r].asked /\ book' = Replace(book, rows, mark)
      /\ syncs' = [syncs EXCEPT ![r] = NoSync]
  BY DEF Install, Asking
<1>2. \A q \in Readers : syncs'[q].asked => syncs'[q] = syncs[q] /\ syncs[q].asked
  BY <1>1, SyncDropped
<1>3. book \in BookType /\ rows \in [Orders -> Market] /\ mark \in Nat
  BY DEF Typed, Records, SyncType, BookType
<1>4. CASE mark < book.base
  <2>1. book' = book
    BY <1>1, <1>4, StaleBook
  <2> QED
    BY <1>2, <1>3, <2>1 DEF Versions, Alive
<1>5. CASE mark >= book.base
  <2>1. \A o \in Orders : book.changed[o] <= book.version
    BY DEF Versions
  <2>2. /\ book' \in BookType
        /\ book'.version = book.version + 1 /\ book'.base = book.version + 1
        /\ book'.invalid = book.invalid
        /\ book.invalid <= mark => book'.error = "none"
        /\ book.invalid > mark => book'.error = book.error
        /\ \A o \in Orders : book'.changed[o] <= book'.version
    BY <1>1, <1>3, <1>5, <2>1, ReplacedBook
  <2>3. book.version \in Nat /\ book.invalid \in Nat
    BY <1>3 DEF BookType
  <2>4. \A q \in Readers : syncs'[q].asked => syncs'[q].mark <= book'.version
    BY <1>2, <2>2, <2>3 DEF Versions, Typed, Records, SyncType
  <2>5. book'.base <= book'.version /\ book'.base # 0
    BY <2>2, <2>3
  <2>6. Alive' => book'.invalid = 0 /\ book'.error = "none"
    BY <1>3, <2>2 DEF Versions, Alive
  <2>7. phase' = "dead" /\ Using' =>
          /\ book'.error = "lost"
          /\ \A q \in Readers : syncs'[q].asked => syncs'[q].mark < book'.invalid
    BY <1>1, <1>2, <1>3, <2>2, <2>3 DEF Versions
  <2> QED
    BY <2>2, <2>4, <2>5, <2>6, <2>7 DEF Versions
<1> QED
  BY <1>3, <1>4, <1>5 DEF BookType

LEMMA BegunVersions ==
  ASSUME Typed, Versions, NEW r \in Readers, Asks(r), UNCHANGED <<book, phase>>,
         phase = "ready" \/ phase = "logged"
  PROVE  Versions'
<1>1. /\ syncs'[r].mark = book.version
      /\ \A q \in Readers : q # r => syncs'[q] = syncs[q]
  BY SyncBegun
<1> QED
  BY <1>1 DEF Versions, Alive, Typed, Records, BookType

LEMMA DroppedVersions ==
  ASSUME Typed, Versions, NEW r \in Readers, syncs' = [syncs EXCEPT ![r] = NoSync],
         UNCHANGED book, Alive' => Alive, phase' = "ready" => phase = "ready",
         phase' = "dead" /\ Using' => phase = "dead" /\ Using
  PROVE  Versions'
<1>1. \A q \in Readers : syncs'[q].asked => syncs'[q] = syncs[q] /\ syncs[q].asked
  BY SyncDropped
<1> QED
  BY <1>1 DEF Versions

-----------------------------------------------------------------------------
(* The steps.                                                              *)

LEMMA OrderAppearsKeeps ==
  ASSUME CInv, NEW o \in Orders, OrderAppears(o)
  PROVE  CInv'
<1>1. Records'
  <2>1. wire' \in Seq(Pushes)
    BY PushSent DEF CInv, Typed, Records, Sent, OrderAppears
  <2> QED
    BY <2>1 DEF CInv, Typed, Records, Market, OrderAppears, exchange, host, monitor
<1>2. Positions'
  BY DEF CInv, Typed, Positions, OrderAppears
<1>3. Switches'
  BY DEF CInv, Typed, Switches, OrderAppears, Sent, exchange, host, monitor
<1>4. Turns'
  BY DEF CInv, Turns, OrderAppears
<1>5. Asking'
  BY DEF CInv, Asking, OrderAppears
<1>6. Sessions'
  BY DEF CInv, Sessions, Using, Starting, Checking, Streaming, Suspect,
     OrderAppears, Sent, host, monitor
<1>7. Versions'
  BY VersionsKeep DEF CInv, Alive, Using, Starting, OrderAppears, monitor
<1>8. Spaced'
  BY DEF CInv, Spaced, OrderAppears, host
<1>9. Truthful'
  BY MarketMoves DEF CInv, OrderAppears
<1> QED
  BY <1>1, <1>2, <1>3, <1>4, <1>5, <1>6, <1>7, <1>8, <1>9 DEF CInv, Typed

LEMMA OrderEndsKeeps ==
  ASSUME CInv, NEW o \in Orders, OrderEnds(o)
  PROVE  CInv'
<1>1. Records'
  <2>1. wire' \in Seq(Pushes)
    BY PushSent DEF CInv, Typed, Records, Sent, OrderEnds
  <2> QED
    BY <2>1 DEF CInv, Typed, Records, Market, OrderEnds, exchange, host, monitor
<1>2. Positions'
  BY DEF CInv, Typed, Positions, OrderEnds
<1>3. Switches'
  BY DEF CInv, Typed, Switches, OrderEnds, Sent, exchange, host, monitor
<1>4. Turns'
  BY DEF CInv, Turns, OrderEnds
<1>5. Asking'
  BY DEF CInv, Asking, OrderEnds
<1>6. Sessions'
  BY DEF CInv, Sessions, Using, Starting, Checking, Streaming, Suspect, OrderEnds,
     Sent, host, monitor
<1>7. Versions'
  BY VersionsKeep DEF CInv, Alive, Using, Starting, OrderEnds, monitor
<1>8. Spaced'
  BY DEF CInv, Typed, Positions, Spaced, Turns, OrderEnds, Sent, exchange, host,
     monitor
<1>9. Truthful'
  BY MarketMoves DEF CInv, OrderEnds
<1> QED
  BY <1>1, <1>2, <1>3, <1>4, <1>5, <1>6, <1>7, <1>8, <1>9 DEF CInv, Typed

LEMMA RunPlacesKeeps ==
  ASSUME CInv, NEW o \in Orders, RunPlaces(o)
  PROVE  CInv'
<1>1. Records'
  <2>1. wire' \in Seq(Pushes)
    BY PushSent DEF CInv, Typed, Records, Sent, RunPlaces
  <2> QED
    BY <2>1 DEF CInv, Typed, Records, Market, RunPlaces, exchange, host, monitor
<1>2. Positions'
  BY DEF CInv, Typed, Positions, RunPlaces
<1>3. Switches'
  BY DEF CInv, Typed, Switches, RunPlaces, Sent, Connected, exchange, host, monitor
<1>4. Turns'
  BY DEF CInv, Turns, RunPlaces
<1>5. Asking'
  BY DEF CInv, Asking, RunPlaces
<1>6. Sessions'
  BY DEF CInv, Sessions, Starting, Checking, Streaming, Suspect, Connected,
     RunPlaces, host
<1>7. Versions'
  BY VersionsKeep DEF CInv, Alive, Connected, RunPlaces
<1>8. Spaced'
  BY DEF CInv, Spaced, RunPlaces, host
<1>9. Truthful'
  BY MarketMoves DEF CInv, RunPlaces
<1> QED
  BY <1>1, <1>2, <1>3, <1>4, <1>5, <1>6, <1>7, <1>8, <1>9 DEF CInv, Typed

LEMMA RunPlacedKeeps ==
  ASSUME CInv, NEW o \in Orders, RunPlaced(o)
  PROVE  CInv'
<1>0. book' \in BookType /\ Versions'
  <2>1. book' = Apply(book, o, "live") /\ UNCHANGED <<syncs, phase, adopted, pc, lock>>
    BY DEF RunPlaced, monitor
  <2> QED
    BY <2>1, HeardVersions DEF CInv, Using, Starting
<1>1. Records'
  BY <1>0 DEF CInv, Typed, Records, RunPlaced
<1>2. Positions'
  BY DEF CInv, Typed, Positions, RunPlaced
<1>3. Switches'
  BY DEF CInv, Typed, Switches, RunPlaced, exchange, host, monitor
<1>4. Turns'
  BY DEF CInv, Turns, RunPlaced
<1>5. Asking'
  BY DEF CInv, Asking, RunPlaced
<1>6. Sessions'
  BY DEF CInv, Turns, Asking, Sessions, Using, Starting, Checking, Streaming,
     Suspect, Threads, RunPlaced, host
<1>7. Versions'
  BY <1>0
<1>8. Spaced'
  BY DEF CInv, Typed, Positions, Spaced, Turns, RunPlaced, exchange, host, monitor
<1>9. Truthful'
  <2>1. CASE ~Streaming
    BY <2>1, SilentIsTrue DEF RunPlaced, Streaming
  <2>2. CASE Streaming
    <3>1. Sound(o) /\ \A p \in Orders : Pushed(p)
      BY <2>2 DEF CInv, Truthful, Sound
    <3>2. /\ \A p \in Orders : Pushed(p)'
          /\ \A p, e : Coming(p, e) <=> Coming(p, e)'
      BY <3>1 DEF RunPlaced, Pushed, Coming
    <3>3. /\ market[o] # "absent"
          /\ market[o] = "done" /\ book.st[o] # "done" => Coming(o, "done")'
      BY <3>1, <3>2 DEF Sound, Placing, Over, RunPlaced
    <3> QED
      BY <2>2, <3>2, <3>3, BookHears DEF CInv, RunPlaced
  <2> QED
    BY <2>1, <2>2
<1> QED
  BY <1>1, <1>2, <1>3, <1>4, <1>5, <1>6, <1>7, <1>8, <1>9 DEF CInv, Typed

LEMMA SettleKeeps ==
  ASSUME CInv, NEW t \in Threads, NEW o \in Orders, Settle(t, o)
  PROVE  CInv'
<1>0. book' \in BookType /\ Versions'
  <2>1. book' = Apply(book, o, "done") /\ UNCHANGED <<syncs, phase, adopted, pc, lock>>
    BY DEF Settle, monitor
  <2> QED
    BY <2>1, HeardVersions DEF CInv, Using, Starting
<1>1. Records'
  BY <1>0 DEF CInv, Typed, Records, Settle, exchange
<1>2. Positions'
  BY DEF CInv, Typed, Positions, Settle
<1>3. Switches'
  BY DEF CInv, Typed, Switches, Settle, Connected, exchange, host, monitor
<1>4. Turns'
  BY DEF CInv, Turns, Settle
<1>5. Asking'
  BY DEF CInv, Asking, Settle, exchange
<1>6. Sessions'
  BY DEF CInv, Sessions, Starting, Checking, Streaming, Suspect, Connected,
     Settle, host
<1>7. Versions'
  BY <1>0
<1>8. Spaced'
  BY DEF CInv, Typed, Positions, Spaced, Turns, Settle, Connected, exchange, host,
     monitor
<1>9. Truthful'
  <2>1. Streaming /\ market[o] = "done" /\ UNCHANGED <<market, wire, placed, syncs>>
    BY DEF Settle, Streaming, Connected, exchange
  <2>2. \A p \in Orders : Pushed(p)
    BY <2>1 DEF CInv, Truthful, Sound
  <2>3. /\ \A p \in Orders : Pushed(p)'
        /\ \A p, e : Coming(p, e) <=> Coming(p, e)'
    BY <2>1, <2>2 DEF Pushed, Coming
  <2> QED
    BY <2>1, <2>3, BookHears DEF CInv, Settle
<1> QED
  BY <1>1, <1>2, <1>3, <1>4, <1>5, <1>6, <1>7, <1>8, <1>9 DEF CInv, Typed

LEMMA OnOrderKeeps ==
  ASSUME CInv, OnOrder
  PROVE  CInv'
<1>a. PICK o \in Orders, s \in {"live", "done"} :
        /\ wire # <<>> /\ wire' = Tail(wire) /\ Streaming /\ wire[1] = <<o, s>>
        /\ book' = Apply(book, o, s)
        /\ UNCHANGED <<market, placed, syncs, phase, adopted, pc, lock>>
  <2>1. wire \in Seq(Pushes) /\ wire # <<>> /\ Streaming
    BY DEF CInv, Typed, Records, Sessions, OnOrder
  <2>2. wire[1] \in Pushes /\ Head(wire) = wire[1]
    BY <2>1
  <2>3. PICK o \in Orders, s \in {"live", "done"} : wire[1] = <<o, s>>
    BY <2>2 DEF Pushes
  <2>4. book' = Apply(book, o, s)
    BY <2>2, <2>3 DEF OnOrder
  <2> QED
    BY <2>1, <2>3, <2>4 DEF OnOrder, monitor
<1>0. book' \in BookType /\ Versions'
  BY <1>a, HeardVersions DEF CInv, Using, Starting
<1>b. /\ wire' \in Seq(Pushes)
      /\ Len(wire') = Len(wire) - 1
      /\ \A i \in 1..Len(wire') : i + 1 \in 1..Len(wire) /\ wire'[i] = wire[i + 1]
      /\ \A p, e : Coming(p, e) => Coming(p, e)' \/ wire[1] = <<p, e>>
  BY <1>a, PushTaken DEF CInv, Typed, Records
<1>1. Records'
  BY <1>0, <1>b DEF CInv, Typed, Records, OnOrder
<1>2. Positions'
  BY DEF CInv, Typed, Positions, Doing, Holding, Threads, OnOrder, exchange, host,
     monitor
<1>3. Switches'
  BY DEF CInv, Typed, Switches, OnOrder, exchange, host, monitor
<1>4. Turns'
  BY DEF CInv, Turns, OnOrder
<1>5. Asking'
  BY DEF CInv, Asking, OnOrder
<1>6. Sessions'
  BY DEF CInv, Sessions, Using, Starting, Checking, Streaming, Suspect, OnOrder,
     host, monitor
<1>7. Versions'
  BY <1>0
<1>8. Spaced'
  BY DEF CInv, Typed, Positions, Spaced, Turns, OnOrder, exchange, host, monitor
<1>9. Truthful'
  <2>1. ASSUME NEW p \in Orders
        PROVE  Pushed(p)'
    <3>1. Pushed(p)
      BY <1>a DEF CInv, Truthful, Sound
    <3>2. ASSUME NEW i \in 1..Len(wire'), wire'[i] = <<p, "live">>, market[p] = "done"
          PROVE  \E j \in 1..Len(wire') : i < j /\ wire'[j] = <<p, "done">>
      <4>1. PICK j \in 1..Len(wire) : i + 1 < j /\ wire[j] = <<p, "done">>
        BY <1>a, <1>b, <3>1, <3>2 DEF Pushed
      <4>2. Len(wire) \in Nat
        BY DEF CInv, Typed, Records
      <4>3. j - 1 \in 1..Len(wire') /\ i < j - 1 /\ (j - 1) + 1 = j
        BY <1>b, <4>1, <4>2
      <4>4. wire'[j - 1] = <<p, "done">>
        BY <1>b, <4>1, <4>3
      <4> QED
        BY <4>3, <4>4
    <3> QED
      BY <1>a, <1>b, <3>1, <3>2 DEF Pushed
  <2>2. /\ market[o] # "absent" /\ (s = "done" => market[o] = "done")
        /\ s = "live" /\ market[o] = "done" => Coming(o, "done")'
    <3>1. Pushed(o)
      BY <1>a DEF CInv, Truthful, Sound
    <3>2. 1 \in 1..Len(wire)
      BY <1>a DEF CInv, Typed, Records
    <3>3. s = "live" /\ market[o] = "done" => Coming(o, "done")
      BY <1>a, <3>1, <3>2 DEF Pushed, Coming
    <3>4. s = "live" => wire[1] # <<o, "done">>
      BY <1>a
    <3>5. s = "live" /\ market[o] = "done" => Coming(o, "done")'
      BY <1>b, <3>3, <3>4
    <3> QED
      BY <1>a, <3>1, <3>2, <3>5 DEF Pushed
  <2>3. \A p \in Orders, e \in {"live", "done"} :
          Coming(p, e) => Coming(p, e)' \/ (p = o /\ e = s)
    BY <1>a, <1>b
  <2> QED
    BY <1>a, <2>1, <2>2, <2>3, BookHears DEF CInv
<1> QED
  BY <1>1, <1>2, <1>3, <1>4, <1>5, <1>6, <1>7, <1>8, <1>9 DEF CInv, Typed

LEMMA DisconnectedKeeps ==
  ASSUME CInv, Disconnected
  PROVE  CInv'
<1>0. /\ book' \in BookType /\ book'.error = "lost"
      /\ book'.st = book.st /\ book'.changed = book.changed /\ book'.base = book.base
      /\ book'.version >= book.version /\ book'.invalid > book.version
  <2>1. book \in BookType /\ book.error # "lost"
    BY DEF CInv, Typed, Records, Versions, Alive, Disconnected
  <2> QED
    BY <2>1, InvalidatedBook DEF Disconnected
<1>1. Records'
  BY <1>0 DEF CInv, Typed, Records, Disconnected
<1>2. Positions'
  BY DEF CInv, Typed, Positions, Disconnected
<1>3. Switches'
  BY DEF CInv, Typed, Switches, Disconnected, Spend, exchange, host, monitor
<1>4. Turns'
  BY DEF CInv, Turns, Disconnected
<1>5. Asking'
  BY DEF CInv, Asking, Disconnected
<1>6. Sessions'
  BY DEF CInv, Sessions, Starting, Disconnected, monitor
<1>7. Versions'
  <2>1. /\ book.version \in Nat /\ book'.version \in Nat /\ book'.invalid \in Nat
        /\ book.base \in Nat /\ \A o \in Orders : book.changed[o] \in Nat
        /\ \A r \in Readers : syncs[r].mark \in Nat
    BY <1>0 DEF CInv, Typed, Records, BookType, SyncType
  <2> QED
    BY <1>0, <2>1 DEF CInv, Versions, Alive, Disconnected
<1>8. Spaced'
  BY DEF CInv, Spaced, Disconnected
<1>9. Truthful'
  BY SilentIsTrue DEF Disconnected, Streaming
<1> QED
  BY <1>1, <1>2, <1>3, <1>4, <1>5, <1>6, <1>7, <1>8, <1>9 DEF CInv, Typed

LEMMA AnswerKeeps ==
  ASSUME CInv, NEW r \in Readers, Answer(r)
  PROVE  CInv'
<1>0. /\ syncs' \in [Readers -> SyncType] /\ Truthful'
      /\ \A q \in Readers : syncs'[q].mark = syncs[q].mark /\ syncs'[q].asked = syncs[q].asked
      /\ \A q \in Readers : q # r => syncs'[q] = syncs[q]
  BY RowsAnswered DEF CInv, Answer, exchange
<1>1. Records'
  BY <1>0 DEF CInv, Typed, Records, Answer, exchange
<1>2. Positions'
  BY DEF CInv, Typed, Positions, Doing, Holding, Threads, Answer, exchange, host,
     monitor
<1>3. Switches'
  BY DEF CInv, Typed, Switches, Answer, exchange, host, monitor
<1>4. Turns'
  BY DEF CInv, Turns, Answer
<1>5. Asking'
  BY <1>0, HostAndRun DEF CInv, Asking, Answer, exchange
<1>6. Sessions'
  BY <1>0, HostAndRun DEF CInv, Sessions, Using, Starting, Checking, Streaming,
        Suspect, Answer, exchange, host, monitor
<1>7. Versions'
  BY <1>0 DEF CInv, Versions, Answer, monitor, Alive, Using, Starting
<1>8. Spaced'
  BY DEF CInv, Typed, Positions, Spaced, Turns, Answer, exchange, host, monitor
<1>9. Truthful'
  BY <1>0
<1> QED
  BY <1>1, <1>2, <1>3, <1>4, <1>5, <1>6, <1>7, <1>8, <1>9 DEF CInv, Typed

LEMMA HostAsksKeeps ==
  ASSUME CInv, NEW t \in Threads, HostAsks(t)
  PROVE  CInv'
<1>0. /\ syncs' \in [Readers -> SyncType]
      /\ syncs'["host"].mark = book.version /\ syncs'["host"].asked
      /\ syncs'["host"].got = syncs["host"].got /\ syncs'["host"].rows = syncs["host"].rows
      /\ \A q \in Readers : q # "host" => syncs'[q] = syncs[q]
      /\ ~syncs["host"].got
  BY SyncBegun, HostAndRun DEF CInv, Asking, HostAsks
<1>1. Records'
  BY <1>0 DEF CInv, Typed, Records, HostAsks, exchange
<1>2. Positions'
  BY DEF CInv, Typed, Positions, HostAsks
<1>3. Switches'
  BY DEF CInv, Typed, Switches, HostAsks, Connected, exchange, host, monitor
<1>4. Turns'
  BY DEF CInv, Turns, HostAsks
<1>5. Asking'
  BY <1>0, HostAndRun DEF CInv, Asking, HostAsks, exchange, Threads, Readers
<1>6. Sessions'
  BY <1>0, HostAndRun DEF CInv, Sessions, Using, Starting, Checking, Streaming,
     Suspect, Connected, HostAsks, host, monitor
<1>7. Versions'
  BY <1>0, HostAndRun, BegunVersions DEF CInv, HostAsks, Connected
<1>8. Spaced'
  BY DEF CInv, Spaced, HostAsks, host
<1>9. Truthful'
  BY <1>0, TruthKeeps, HostAndRun DEF CInv, HostAsks, Streaming, exchange
<1> QED
  BY <1>1, <1>2, <1>3, <1>4, <1>5, <1>6, <1>7, <1>8, <1>9 DEF CInv, Typed

LEMMA RunAsksKeeps ==
  ASSUME CInv, RunAsks
  PROVE  CInv'
<1>0. /\ syncs' \in [Readers -> SyncType]
      /\ syncs'["run"].mark = book.version /\ syncs'["run"].asked
      /\ syncs'["run"].got = syncs["run"].got /\ syncs'["run"].rows = syncs["run"].rows
      /\ \A q \in Readers : q # "run" => syncs'[q] = syncs[q]
      /\ ~syncs["run"].got
  BY SyncBegun, HostAndRun DEF CInv, Asking, RunAsks
<1>1. Records'
  BY <1>0 DEF CInv, Typed, Records, RunAsks, exchange
<1>2. Positions'
  BY DEF CInv, Typed, Positions, RunAsks
<1>3. Switches'
  BY DEF CInv, Typed, Switches, RunAsks, Connected, exchange, host, monitor
<1>4. Turns'
  BY DEF CInv, Turns, RunAsks
<1>5. Asking'
  BY <1>0, HostAndRun DEF CInv, Asking, RunAsks, exchange, Threads, Readers
<1>6. Sessions'
  BY <1>0, HostAndRun DEF CInv, Sessions, Starting, Checking, Streaming, Suspect,
     Connected, RunAsks, host
<1>7. Versions'
  BY <1>0, HostAndRun, BegunVersions DEF CInv, RunAsks, Connected
<1>8. Spaced'
  BY DEF CInv, Spaced, RunAsks, host
<1>9. Truthful'
  BY <1>0, TruthKeeps, HostAndRun DEF CInv, RunAsks, Streaming, exchange
<1> QED
  BY <1>1, <1>2, <1>3, <1>4, <1>5, <1>6, <1>7, <1>8, <1>9 DEF CInv, Typed

LEMMA HostInstallsKeeps ==
  ASSUME CInv, NEW t \in Threads, HostInstalls(t)
  PROVE  CInv'
<1>a. Install("host") /\ UNCHANGED <<phase, market, wire, placed, lock, adopted>>
  BY DEF HostInstalls, exchange, monitor
<1>b. Using' => Using
  BY DEF CInv, HostInstalls, Using, Starting, monitor, Threads
<1>0. book' \in BookType /\ Versions'
  BY <1>a, <1>b, InstalledVersions, HostAndRun DEF CInv
<1>c. syncs["host"].got /\ syncs' = [syncs EXCEPT !["host"] = NoSync]
  BY <1>a DEF Install
<1>d. /\ syncs' \in [Readers -> SyncType]
      /\ ~syncs'["host"].asked /\ ~syncs'["host"].got
      /\ \A q \in Readers : q # "host" => syncs'[q] = syncs[q]
  BY <1>c, SyncDropped, HostAndRun DEF CInv
<1>1. Records'
  BY <1>0, <1>a, <1>d DEF CInv, Typed, Records
<1>2. Positions'
  BY DEF CInv, Typed, Positions, Doing, Holding, HostInstalls
<1>3. Switches'
  BY DEF CInv, Typed, Switches, HostInstalls, exchange, host, monitor
<1>4. Turns'
  BY DEF CInv, Typed, Positions, Turns, Holding, Threads, HostInstalls
<1>5. Asking'
  BY <1>c, <1>d, HostAndRun DEF CInv, Typed, Positions, Asking, Threads,
     HostInstalls, exchange
<1>6. Sessions'
  BY <1>a, <1>b, <1>c, <1>d, HostAndRun DEF CInv, Typed, Positions, Asking,
     Sessions, Starting, Checking, Streaming, Suspect, HostInstalls, host
<1>7. Versions'
  BY <1>0
<1>8. Spaced'
  BY DEF CInv, Spaced, Typed, Positions, Threads, HostInstalls, host
<1>9. Truthful'
  BY <1>a, RowsInstalled, HostAndRun DEF CInv
<1> QED
  BY <1>1, <1>2, <1>3, <1>4, <1>5, <1>6, <1>7, <1>8, <1>9 DEF CInv, Typed

LEMMA RunInstallsKeeps ==
  ASSUME CInv, RunInstalls
  PROVE  CInv'
<1>a. Install("run") /\ UNCHANGED <<phase, market, wire, placed, lock, adopted>>
  BY DEF RunInstalls, exchange, monitor
<1>b. Using' => Using
  BY DEF CInv, RunInstalls, Using, Starting, monitor
<1>0. book' \in BookType /\ Versions'
  BY <1>a, <1>b, InstalledVersions, HostAndRun DEF CInv
<1>c. syncs["run"].got /\ syncs' = [syncs EXCEPT !["run"] = NoSync]
  BY <1>a DEF Install
<1>d. /\ syncs' \in [Readers -> SyncType]
      /\ ~syncs'["run"].asked /\ ~syncs'["run"].got
      /\ \A q \in Readers : q # "run" => syncs'[q] = syncs[q]
  BY <1>c, SyncDropped, HostAndRun DEF CInv
<1>1. Records'
  BY <1>0, <1>a, <1>d DEF CInv, Typed, Records
<1>2. Positions'
  BY DEF CInv, Typed, Positions, RunInstalls
<1>3. Switches'
  BY DEF CInv, Typed, Switches, RunInstalls, exchange, host, monitor
<1>4. Turns'
  BY DEF CInv, Turns, RunInstalls
<1>5. Asking'
  BY <1>c, <1>d, HostAndRun DEF CInv, Asking, RunInstalls
<1>6. Sessions'
  BY <1>a, <1>b, <1>c, <1>d, HostAndRun DEF CInv, Asking, Sessions, Using,
     Starting, Checking, Streaming, Suspect, RunInstalls, host
<1>7. Versions'
  BY <1>0
<1>8. Spaced'
  BY DEF CInv, Spaced, RunInstalls, host
<1>9. Truthful'
  BY <1>a, RowsInstalled, HostAndRun DEF CInv
<1> QED
  BY <1>1, <1>2, <1>3, <1>4, <1>5, <1>6, <1>7, <1>8, <1>9 DEF CInv, Typed

LEMMA LogInKeeps ==
  ASSUME CInv, NEW t \in Threads, LogIn(t)
  PROVE  CInv'
<1>1. Records'
  BY DEF CInv, Typed, Records, LogIn, exchange, host, monitor
<1>2. Positions'
  BY DEF CInv, Typed, Positions, Doing, Holding, Threads, LogIn, exchange, host,
     monitor
<1>3. Switches'
  BY DEF CInv, Typed, Switches, LogIn, exchange, host, monitor
<1>4. Turns'
  BY DEF CInv, Turns, LogIn
<1>5. Asking'
  BY DEF CInv, Asking, LogIn, exchange
<1>6. Sessions'
  BY DEF CInv, Sessions, Using, Starting, Streaming, LogIn, host, monitor
<1>7. Versions'
  BY VersionsKeep DEF CInv, Alive, LogIn
<1>8. Spaced'
  BY DEF CInv, Typed, Positions, Spaced, Turns, LogIn, exchange, host, monitor
<1>9. Truthful'
  <2>1. /\ wire = <<>> /\ book = NewBook /\ ~syncs["host"].asked
        /\ UNCHANGED <<wire, placed, book, syncs>>
    BY DEF CInv, Sessions, LogIn, Streaming, exchange
  <2>2. ~syncs["run"].asked /\ placed = {}
    BY DEF CInv, Asking, Sessions, Turns, Using, Starting, LogIn, Threads
  <2>3. \A r \in Readers : ~syncs'[r].got
    BY <2>1, <2>2 DEF CInv, Asking, Readers
  <2> QED
    BY <2>1, <2>2, <2>3, FreshIsTrue
<1> QED
  BY <1>1, <1>2, <1>3, <1>4, <1>5, <1>6, <1>7, <1>8, <1>9 DEF CInv, Typed

LEMMA BecomeReadyKeeps ==
  ASSUME CInv, NEW t \in Threads, BecomeReady(t)
  PROVE  CInv'
<1>1. Records'
  BY DEF CInv, Typed, Records, BecomeReady, exchange, host, monitor
<1>2. Positions'
  BY DEF CInv, Typed, Positions, Doing, Holding, BecomeReady
<1>3. Switches'
  BY DEF CInv, Typed, Switches, BecomeReady, exchange, host, monitor
<1>4. Turns'
  BY DEF CInv, Turns, Holding, BecomeReady
<1>5. Asking'
  BY DEF CInv, Asking, BecomeReady, exchange
<1>6. Sessions'
  BY DEF CInv, Typed, Positions, Turns, Sessions, Starting, Checking, Streaming,
     Threads, BecomeReady, host
<1>7. Versions'
  BY VersionsKeep DEF CInv, Versions, Alive, BecomeReady
<1>8. Spaced'
  BY DEF CInv, Typed, Positions, Spaced, Turns, BecomeReady, exchange, host, monitor
<1>9. Truthful'
  BY TruthKeeps DEF CInv, Streaming, BecomeReady, exchange
<1> QED
  BY <1>1, <1>2, <1>3, <1>4, <1>5, <1>6, <1>7, <1>8, <1>9 DEF CInv, Typed

LEMMA ConnectFailsKeeps ==
  ASSUME CInv, NEW t \in Threads, ConnectFails(t)
  PROVE  CInv'
<1>0. /\ syncs' \in [Readers -> SyncType]
      /\ ~syncs'["host"].asked /\ ~syncs'["host"].got
      /\ \A q \in Readers : q # "host" => syncs'[q] = syncs[q]
  BY SyncDropped, HostAndRun DEF CInv, ConnectFails
<1>1. Records'
  BY <1>0 DEF CInv, Typed, Records, ConnectFails, exchange
<1>2. Positions'
  BY DEF CInv, Typed, Positions, Doing, ConnectFails, Leave
<1>3. Switches'
  BY DEF CInv, Typed, Switches, ConnectFails, MarkFailed, monitor
<1>4. Turns'
  BY DEF CInv, Typed, Positions, Turns, Holding, Threads, ConnectFails, Leave
<1>5. Asking'
  BY <1>0, HostAndRun DEF CInv, Asking, ConnectFails, Leave
<1>6. Sessions'
  BY <1>0, HostAndRun DEF CInv, Typed, Positions, Turns, Sessions, Using,
     Starting, ConnectFails, Leave, monitor
<1>7. Versions'
  <2>1. /\ Alive' => Alive
        /\ phase' = "ready" => phase = "ready"
        /\ phase' = "dead" /\ Using' => phase = "dead" /\ Using
    BY DEF CInv, Sessions, Alive, Using, Starting, ConnectFails, Leave, monitor
  <2> QED
    BY <2>1, DroppedVersions, HostAndRun DEF CInv, ConnectFails
<1>8. Spaced'
  BY DEF CInv, Spaced, ConnectFails, MarkFailed
<1>9. Truthful'
  BY SilentIsTrue DEF ConnectFails, Streaming
<1> QED
  BY <1>1, <1>2, <1>3, <1>4, <1>5, <1>6, <1>7, <1>8, <1>9 DEF CInv, Typed

LEMMA ConfirmFailsKeeps ==
  ASSUME CInv, NEW t \in Threads, ConfirmFails(t)
  PROVE  CInv'
<1>0. /\ syncs' \in [Readers -> SyncType]
      /\ ~syncs'["host"].asked /\ ~syncs'["host"].got
      /\ \A q \in Readers : q # "host" => syncs'[q] = syncs[q]
  BY SyncDropped, HostAndRun DEF CInv, ConfirmFails
<1>1. Records'
  BY <1>0 DEF CInv, Typed, Records, ConfirmFails, exchange
<1>2. Positions'
  BY DEF CInv, Typed, Positions, Doing, ConfirmFails, Leave
<1>3. Switches'
  BY DEF CInv, Typed, Switches, ConfirmFails, MarkFailed, monitor
<1>4. Turns'
  BY DEF CInv, Typed, Positions, Turns, Holding, Threads, ConfirmFails, Leave
<1>5. Asking'
  BY <1>0, HostAndRun DEF CInv, Asking, ConfirmFails, Leave, exchange
<1>6. Sessions'
  BY <1>0, HostAndRun DEF CInv, Sessions, Using, Starting, Streaming, Suspect,
     Threads, ConfirmFails, MarkFailed, Leave, exchange
<1>7. Versions'
  <2>1. /\ Alive' => Alive
        /\ phase' = "ready" => phase = "ready"
        /\ phase' = "dead" /\ Using' => phase = "dead" /\ Using
    BY DEF CInv, Alive, Using, Starting, Threads, ConfirmFails
  <2> QED
    BY <2>1, DroppedVersions, HostAndRun DEF CInv, ConfirmFails
<1>8. Spaced'
  BY DEF CInv, Spaced, ConfirmFails, MarkFailed
<1>9. Truthful'
  BY <1>0, TruthKeeps, HostAndRun DEF CInv, ConfirmFails, Streaming, exchange
<1> QED
  BY <1>1, <1>2, <1>3, <1>4, <1>5, <1>6, <1>7, <1>8, <1>9 DEF CInv, Typed

LEMMA CommandEndsKeeps ==
  ASSUME CInv, CommandEnds
  PROVE  CInv'
<1>0. /\ syncs' \in [Readers -> SyncType]
      /\ ~syncs'["host"].asked /\ ~syncs'["host"].got
      /\ \A q \in Readers : q # "host" => syncs'[q] = syncs[q]
  BY SyncDropped, HostAndRun DEF CInv, CommandEnds
<1>1. Records'
  BY <1>0 DEF CInv, Typed, Records, CommandEnds, exchange
<1>2. Positions'
  BY DEF CInv, Typed, Positions, Doing, CommandEnds, Leave
<1>3. Switches'
  BY DEF CInv, Typed, Switches, CommandEnds, Leave, Spend, exchange, host, monitor
<1>4. Turns'
  BY DEF CInv, Typed, Positions, Turns, Holding, Threads, CommandEnds, Leave
<1>5. Asking'
  BY <1>0, HostAndRun DEF CInv, Asking, CommandEnds, Leave, exchange
<1>6. Sessions'
  <2>1. /\ lock = "command" /\ lock' = "free"
        /\ UNCHANGED <<phase, book, wire, off, status, adopted>>
    BY DEF CommandEnds, Leave, exchange, host, monitor
  <2>2. pc'["main"] = pc["main"]
    BY DEF CInv, Typed, Positions, CommandEnds, Leave
  <2>3. ~Starting /\ ~Checking
    BY <2>1 DEF CInv, Turns, Starting, Checking, Threads
  <2>4. ~Starting' /\ ~Checking' /\ (Using' => Using)
    BY <2>1, <2>2 DEF Starting, Checking, Using, Threads
  <2> QED
    BY <2>1, <2>3, <2>4 DEF CInv, Sessions, Streaming, Suspect
<1>7. Versions'
  <2>1. /\ Alive' => Alive
        /\ phase' = "ready" => phase = "ready"
        /\ phase' = "dead" /\ Using' => phase = "dead" /\ Using
    BY DEF CInv, Alive, Using, Starting, CommandEnds
  <2> QED
    BY <2>1, DroppedVersions, HostAndRun DEF CInv, CommandEnds
<1>8. Spaced'
  BY DEF CInv, Spaced, CommandEnds, Leave, host
<1>9. Truthful'
  BY <1>0, TruthKeeps, HostAndRun DEF CInv, CommandEnds, Streaming, exchange
<1> QED
  BY <1>1, <1>2, <1>3, <1>4, <1>5, <1>6, <1>7, <1>8, <1>9 DEF CInv, Typed

LEMMA RunQueryFailsKeeps ==
  ASSUME CInv, RunQueryFails
  PROVE  CInv'
<1>0. /\ syncs' \in [Readers -> SyncType]
      /\ ~syncs'["run"].asked /\ ~syncs'["run"].got
      /\ \A q \in Readers : q # "run" => syncs'[q] = syncs[q]
  BY SyncDropped, HostAndRun DEF CInv, RunQueryFails
<1>1. Records'
  BY <1>0 DEF CInv, Typed, Records, RunQueryFails, exchange
<1>2. Positions'
  BY DEF CInv, Typed, Positions, RunQueryFails
<1>3. Switches'
  BY DEF CInv, Typed, Switches, RunQueryFails, Connected, exchange, host, monitor
<1>4. Turns'
  BY DEF CInv, Turns, RunQueryFails
<1>5. Asking'
  BY <1>0, HostAndRun DEF CInv, Asking, RunQueryFails
<1>6. Sessions'
  BY <1>0, HostAndRun DEF CInv, Turns, Asking, Sessions, Using, Starting,
     Streaming, Connected, Threads, RunQueryFails, Connected, exchange, host
<1>7. Versions'
  <2>1. /\ Alive' => Alive
        /\ phase' = "ready" => phase = "ready"
        /\ phase' = "dead" /\ Using' => phase = "dead" /\ Using
    BY DEF CInv, Asking, Alive, Using, RunQueryFails
  <2> QED
    BY <2>1, DroppedVersions, HostAndRun DEF CInv, RunQueryFails
<1>8. Spaced'
  BY DEF CInv, Spaced, RunQueryFails, host
<1>9. Truthful'
  BY <1>0, TruthKeeps, HostAndRun DEF CInv, RunQueryFails, Streaming, exchange
<1> QED
  BY <1>1, <1>2, <1>3, <1>4, <1>5, <1>6, <1>7, <1>8, <1>9 DEF CInv, Typed

LEMMA ConfirmKeeps ==
  ASSUME CInv, NEW t \in Threads, Confirm(t)
  PROVE  CInv'
<1>1. Records'
  BY DEF CInv, Typed, Records, Confirm, exchange, host, monitor
<1>2. Positions'
  BY DEF CInv, Typed, Positions, Doing, Holding, Threads, Confirm, exchange, host,
     monitor
<1>3. Switches'
  BY DEF CInv, Typed, Switches, Confirm, exchange, host, monitor
<1>4. Turns'
  BY DEF CInv, Turns, Holding, Confirm
<1>5. Asking'
  BY DEF CInv, Asking, Confirm, exchange
<1>6. Sessions'
  BY DEF CInv, Sessions, Using, Starting, Checking, Streaming, Threads, Confirm,
     exchange
<1>7. Versions'
  BY VersionsKeep DEF CInv, Alive, Using, Starting, Threads, Confirm
<1>8. Spaced'
  BY DEF CInv, Typed, Positions, Spaced, Turns, Confirm, exchange, host, monitor
<1>9. Truthful'
  BY TruthKeeps DEF CInv, Streaming, Confirm, exchange
<1> QED
  BY <1>1, <1>2, <1>3, <1>4, <1>5, <1>6, <1>7, <1>8, <1>9 DEF CInv, Typed

LEMMA ReportKeeps ==
  ASSUME CInv, NEW t \in Threads, Report(t)
  PROVE  CInv'
<1>1. Records'
  BY DEF CInv, Typed, Records, Report, Leave, exchange, host, monitor
<1>2. Positions'
  BY DEF CInv, Typed, Positions, Doing, Report, Leave
<1>3. Switches'
  BY DEF CInv, Typed, Switches, Report, Leave, exchange, host, monitor
<1>4. Turns'
  BY DEF CInv, Typed, Positions, Turns, Holding, Threads, Report, Leave
<1>5. Asking'
  BY DEF CInv, Asking, Report, Leave, exchange
<1>6. Sessions'
  BY DEF CInv, Sessions, Using, Starting, Streaming, Suspect, Threads, Report,
     Leave, exchange
<1>7. Versions'
  BY VersionsKeep DEF CInv, Alive, Using, Starting, Threads, Report
<1>8. Spaced'
  BY DEF CInv, Typed, Positions, Spaced, Turns, Report, Leave, exchange, host,
     monitor
<1>9. Truthful'
  BY TruthKeeps DEF CInv, Streaming, Report, exchange
<1> QED
  BY <1>1, <1>2, <1>3, <1>4, <1>5, <1>6, <1>7, <1>8, <1>9 DEF CInv, Typed

LEMMA MainAskedKeeps ==
  ASSUME CInv, NEW k \in Kinds, MainAsked(k)
  PROVE  CInv'
<1>1. Records'
  BY DEF CInv, Typed, Records, MainAsked, Kinds, exchange, host, monitor
<1>2. Positions'
  BY DEF CInv, Typed, Positions, Doing, Threads, MainAsked
<1>3. Switches'
  BY DEF CInv, Typed, Switches, MainAsked, Kinds, exchange, host, monitor
<1>4. Turns'
  BY DEF CInv, Turns, Holding, MainAsked
<1>5. Asking'
  BY DEF CInv, Asking, MainAsked, exchange
<1>6. Sessions'
  BY DEF CInv, Sessions, Using, Starting, Checking, Streaming, Suspect, MainAsked,
     exchange, host, monitor
<1>7. Versions'
  BY VersionsKeep DEF CInv, Alive, Using, Starting, MainAsked, monitor
<1>8. Spaced'
  BY DEF CInv, Typed, Positions, Spaced, Turns, MainAsked, Kinds, exchange, host,
     monitor
<1>9. Truthful'
  BY TruthKeeps DEF CInv, Streaming, MainAsked, exchange
<1> QED
  BY <1>1, <1>2, <1>3, <1>4, <1>5, <1>6, <1>7, <1>8, <1>9 DEF CInv, Typed

LEMMA MainArrivesKeeps ==
  ASSUME CInv, MainArrives
  PROVE  CInv'
<1>1. Records'
  BY DEF CInv, Typed, Records, MainArrives, Suspect, exchange, host, monitor
<1>2. Positions'
  BY DEF CInv, Typed, Positions, Doing, Threads, MainArrives
<1>3. Switches'
  BY DEF CInv, Typed, Switches, MainArrives, Suspect, exchange, host, monitor
<1>4. Turns'
  BY DEF CInv, Turns, Holding, MainArrives
<1>5. Asking'
  BY DEF CInv, Asking, MainArrives, exchange
<1>6. Sessions'
  BY DEF CInv, Sessions, Using, Starting, Checking, Streaming, Suspect,
     MainArrives, exchange, monitor
<1>7. Versions'
  BY VersionsKeep DEF CInv, Alive, Using, Starting, MainArrives, monitor
<1>8. Spaced'
  BY DEF CInv, Typed, Positions, Spaced, Turns, MainArrives, Suspect, exchange,
     host, monitor
<1>9. Truthful'
  BY TruthKeeps DEF CInv, Streaming, MainArrives, exchange
<1> QED
  BY <1>1, <1>2, <1>3, <1>4, <1>5, <1>6, <1>7, <1>8, <1>9 DEF CInv, Typed

LEMMA MainReadsKeeps ==
  ASSUME CInv, MainReads
  PROVE  CInv'
<1>1. Records'
  BY DEF CInv, Typed, Records, MainReads, exchange
<1>2. Positions'
  BY DEF CInv, Typed, Positions, Doing, Threads, MainReads, Leave
<1>3. Switches'
  BY DEF CInv, Typed, Switches, MainReads, Reuse, MarkFailed, Leave, exchange,
     host, monitor
<1>4. Turns'
  BY DEF CInv, Turns, Holding, MainReads, Leave
<1>5. Asking'
  BY DEF CInv, Asking, MainReads, Leave, exchange
<1>6. Sessions'
  BY DEF CInv, Sessions, Using, Starting, Checking, Streaming, Suspect, MainReads,
     Reuse, MarkFailed, Leave, exchange, monitor
<1>7. Versions'
  BY VersionsKeep DEF CInv, Alive, Using, MainReads, Leave, monitor
<1>8. Spaced'
  BY DEF CInv, Spaced, MainReads, Reuse
<1>9. Truthful'
  BY TruthKeeps DEF CInv, Streaming, MainReads, exchange
<1> QED
  BY <1>1, <1>2, <1>3, <1>4, <1>5, <1>6, <1>7, <1>8, <1>9 DEF CInv, Typed

LEMMA MainDisconnectsKeeps ==
  ASSUME CInv, MainDisconnects
  PROVE  CInv'
<1>0. ~syncs["host"].asked /\ ~syncs["run"].asked
  BY DEF CInv, Turns, Asking, MainDisconnects, Holding, Threads
<1>1. Records'
  BY NewBookTyped DEF CInv, Typed, Records, MainDisconnects, Leave
<1>2. Positions'
  BY DEF CInv, Typed, Positions, Doing, Threads, MainDisconnects, Leave
<1>3. Switches'
  BY DEF CInv, Typed, Switches, MainDisconnects, Leave, exchange, host, monitor
<1>4. Turns'
  BY DEF CInv, Turns, Holding, MainDisconnects, Leave
<1>5. Asking'
  BY DEF CInv, Asking, MainDisconnects, Leave
<1>6. Sessions'
  BY DEF CInv, Sessions, Using, Starting, Threads, MainDisconnects, Leave
<1>7. Versions'
  BY <1>0 DEF CInv, Versions, NewBook, Alive, MainDisconnects, Readers
<1>8. Spaced'
  BY DEF CInv, Spaced, MainDisconnects
<1>9. Truthful'
  BY SilentIsTrue DEF MainDisconnects, Streaming
<1> QED
  BY <1>1, <1>2, <1>3, <1>4, <1>5, <1>6, <1>7, <1>8, <1>9 DEF CInv, Typed

LEMMA RunEndsKeeps ==
  ASSUME CInv, RunEnds
  PROVE  CInv'
<1>1. Records'
  BY DEF CInv, Typed, Records, RunEnds, exchange, host, monitor
<1>2. Positions'
  BY DEF CInv, Typed, Positions, Doing, Holding, Threads, RunEnds, exchange, host,
     monitor
<1>3. Switches'
  BY DEF CInv, Typed, Switches, RunEnds, exchange, host, monitor
<1>4. Turns'
  BY DEF CInv, Turns, Holding, RunEnds
<1>5. Asking'
  BY DEF CInv, Asking, RunEnds, exchange
<1>6. Sessions'
  BY DEF CInv, Sessions, Using, Starting, Checking, Streaming, Suspect, Threads,
     RunEnds, exchange, host
<1>7. Versions'
  BY VersionsKeep DEF CInv, Alive, Using, RunEnds
<1>8. Spaced'
  BY DEF CInv, Typed, Positions, Spaced, Turns, RunEnds, exchange, host, monitor
<1>9. Truthful'
  BY TruthKeeps DEF CInv, Streaming, RunEnds, exchange
<1> QED
  BY <1>1, <1>2, <1>3, <1>4, <1>5, <1>6, <1>7, <1>8, <1>9 DEF CInv, Typed

LEMMA CommandAskedKeeps ==
  ASSUME CInv, CommandAsked
  PROVE  CInv'
<1>1. Records'
  BY DEF CInv, Typed, Records, CommandAsked, exchange, host, monitor
<1>2. Positions'
  BY DEF CInv, Typed, Positions, Doing, Threads, CommandAsked
<1>3. Switches'
  BY DEF CInv, Typed, Switches, CommandAsked, exchange, host, monitor
<1>4. Turns'
  BY DEF CInv, Turns, Holding, CommandAsked
<1>5. Asking'
  BY DEF CInv, Asking, CommandAsked, exchange
<1>6. Sessions'
  BY DEF CInv, Sessions, Using, Starting, Checking, Streaming, Suspect,
     CommandAsked, exchange, host, monitor
<1>7. Versions'
  BY VersionsKeep DEF CInv, Alive, Using, Starting, CommandAsked, monitor
<1>8. Spaced'
  BY DEF CInv, Typed, Positions, Spaced, Turns, CommandAsked, exchange, host,
     monitor
<1>9. Truthful'
  BY TruthKeeps DEF CInv, Streaming, CommandAsked, exchange
<1> QED
  BY <1>1, <1>2, <1>3, <1>4, <1>5, <1>6, <1>7, <1>8, <1>9 DEF CInv, Typed

LEMMA CommandEntersKeeps ==
  ASSUME CInv, CommandEnters
  PROVE  CInv'
<1>1. Records'
  BY DEF CInv, Typed, Records, CommandEnters, exchange
<1>2. Positions'
  BY DEF CInv, Typed, Positions, Doing, Holding, Threads, CommandEnters, Leave
<1>3. Switches'
  BY DEF CInv, Typed, Switches, CommandEnters, Reuse, MarkFailed, Leave, Usable,
     Connected, Suspect, Requesting, exchange, host, monitor
<1>4. Turns'
  BY DEF CInv, Typed, Positions, Turns, Holding, Threads, CommandEnters, Leave
<1>5. Asking'
  BY DEF CInv, Typed, Positions, Asking, Threads, CommandEnters, Leave, exchange
<1>6. Sessions'
  BY DEF CInv, Typed, Positions, Sessions, Using, Starting, Checking, Streaming,
     Suspect, Connected, Threads, CommandEnters, Reuse, Leave, Usable, exchange,
     monitor
<1>7. Versions'
  BY VersionsKeep DEF CInv, Typed, Positions, Alive, Using, Connected, Threads,
     CommandEnters, Leave, Usable, monitor
<1>8. Spaced'
  <2>1. UNCHANGED <<error, hot, moved>> \/ (error' /\ hot' /\ moved')
    BY DEF CommandEnters, Reuse, MarkFailed
  <2>2. pc'["main"] = pc["main"] /\ UNCHANGED <<owed, off, kind>>
    BY DEF CInv, Typed, Positions, CommandEnters, Leave, Threads, host, monitor
  <2> QED
    BY <2>1, <2>2 DEF CInv, Spaced
<1>9. Truthful'
  BY TruthKeeps DEF CInv, Streaming, CommandEnters, exchange
<1> QED
  BY <1>1, <1>2, <1>3, <1>4, <1>5, <1>6, <1>7, <1>8, <1>9 DEF CInv, Typed

LEMMA SampleKeeps ==
  ASSUME CInv, Sample
  PROVE  CInv'
<1>0. book' = book
  <2>1. CASE adopted /\ (off \/ Suspect)
    <3>1. phase = "dead" /\ Using
      BY <2>1 DEF CInv, Sessions, Using, Checking, Sample, Threads
    <3>2. book.error = "lost"
      BY <3>1 DEF CInv, Versions
    <3> QED
      BY <2>1, <3>2 DEF Sample, Invalidate
  <2>2. CASE ~(adopted /\ (off \/ Suspect))
    BY <2>2 DEF Sample
  <2> QED
    BY <2>1, <2>2
<1>1. Records'
  BY <1>0 DEF CInv, Typed, Records, Sample, exchange
<1>2. Positions'
  BY DEF CInv, Typed, Positions, Doing, Sample
<1>3. Switches'
  BY DEF CInv, Typed, Switches, Sample, MayRecover, Requesting, exchange, host,
     monitor
<1>4. Turns'
  BY DEF CInv, Typed, Positions, Turns, Holding, Threads, Sample
<1>5. Asking'
  BY DEF CInv, Typed, Positions, Asking, Sample, MayRecover, Requesting, exchange
<1>6. Sessions'
  BY <1>0 DEF CInv, Typed, Positions, Sessions, Using, Starting, Checking,
     Streaming, Suspect, Threads, Sample, exchange, host
<1>7. Versions'
  BY <1>0, VersionsKeep DEF CInv, Typed, Positions, Alive, Using, Threads, Sample
<1>8. Spaced'
  BY DEF CInv, Spaced, Sample, MayRecover, host
<1>9. Truthful'
  BY <1>0, TruthKeeps DEF CInv, Sample, Streaming, exchange
<1> QED
  BY <1>1, <1>2, <1>3, <1>4, <1>5, <1>6, <1>7, <1>8, <1>9 DEF CInv, Typed

LEMMA CoolDownKeeps ==
  ASSUME CInv, CoolDown
  PROVE  CInv'
<1>1. Records'
  BY DEF CInv, Typed, Records, CoolDown, exchange, host, monitor
<1>2. Positions'
  BY DEF CInv, Typed, Positions, CoolDown
<1>3. Switches'
  BY DEF CInv, Typed, Switches, CoolDown, exchange, host, monitor
<1>4. Turns'
  BY DEF CInv, Turns, CoolDown
<1>5. Asking'
  BY DEF CInv, Asking, CoolDown, exchange
<1>6. Sessions'
  BY DEF CInv, Sessions, Using, Starting, Checking, Streaming, Suspect, CoolDown,
     exchange, monitor
<1>7. Versions'
  BY VersionsKeep DEF CInv, Alive, Using, Starting, CoolDown, monitor
<1>8. Spaced'
  BY DEF CInv, Typed, Positions, Spaced, Turns, CoolDown, exchange, host, monitor
<1>9. Truthful'
  BY TruthKeeps DEF CInv, Streaming, CoolDown, exchange
<1> QED
  BY <1>1, <1>2, <1>3, <1>4, <1>5, <1>6, <1>7, <1>8, <1>9 DEF CInv, Typed

LEMMA RetryDueKeeps ==
  ASSUME CInv, RetryDue
  PROVE  CInv'
<1>1. Records'
  BY DEF CInv, Typed, Records, RetryDue, exchange, host, monitor
<1>2. Positions'
  BY DEF CInv, Typed, Positions, RetryDue
<1>3. Switches'
  BY DEF CInv, Typed, Switches, RetryDue, exchange, host, monitor
<1>4. Turns'
  BY DEF CInv, Turns, RetryDue
<1>5. Asking'
  BY DEF CInv, Asking, RetryDue, exchange
<1>6. Sessions'
  BY DEF CInv, Sessions, Using, Starting, Checking, Streaming, Suspect, RetryDue,
     exchange, host
<1>7. Versions'
  BY VersionsKeep DEF CInv, Alive, Using, Starting, RetryDue
<1>8. Spaced'
  BY DEF CInv, Typed, Positions, Spaced, Turns, RetryDue, exchange, host, monitor
<1>9. Truthful'
  BY TruthKeeps DEF CInv, Streaming, RetryDue, exchange
<1> QED
  BY <1>1, <1>2, <1>3, <1>4, <1>5, <1>6, <1>7, <1>8, <1>9 DEF CInv, Typed


LEMMA UsedKeeps ==
  ASSUME CInv, NEW t \in {"main", "recovery"}, lock = "free", pc[t] = "waits",
         NEW known \in BOOLEAN,
         t = "recovery" => pc["main"] = "idle",
         Connected,
         Leave(t, IF t = "main" /\ kind = "run" THEN "runs" ELSE "idle"),
         once' = known,
         adopted' = TRUE,
         enabled' = TRUE,
         UNCHANGED <<phase, wire, book, tried, error, hot, off, status, moved>>,
         UNCHANGED <<market, placed, syncs, kind, due, owed>>
  PROVE  CInv'
<1>1. Records'
  BY DEF CInv, Typed, Records, Leave, Connected
<1>2. Positions'
  BY DEF CInv, Typed, Positions, Doing, Holding, Threads, Leave, Connected
<1>3. Switches'
  BY DEF CInv, Typed, Switches, Leave, Connected
<1>4. Turns'
  BY DEF CInv, Typed, Positions, Turns, Doing, Holding, Threads, Leave, Connected
<1>5. Asking'
  BY DEF CInv, Asking, Leave
<1>6. Sessions'
  BY DEF CInv, Sessions, Starting, Checking, Streaming, Suspect, Connected, Leave
<1>7. Versions'
  BY VersionsKeep DEF CInv, Alive, Connected
<1>8. Spaced'
  BY DEF CInv, Typed, Positions, Spaced, Turns, Leave, Connected
<1>9. Truthful'
  BY TruthKeeps DEF CInv, Streaming, Connected, Sessions, Alive, Leave
<1> QED
  BY <1>1, <1>2, <1>3, <1>4, <1>5, <1>6, <1>7, <1>8, <1>9 DEF CInv, Typed

LEMMA CheckedKeeps ==
  ASSUME CInv, NEW t \in {"main", "recovery"}, lock = "free", pc[t] = "waits",
         NEW known \in BOOLEAN,
         t = "recovery" => pc["main"] = "idle",
         Connected,
         lock' = t,
         pc' = [pc EXCEPT ![t] = "confirms"],
         once' = known,
         UNCHANGED <<phase, wire, book, off, adopted, tried, error, hot, status, moved, enabled>>,
         UNCHANGED <<market, placed, syncs, kind, due, owed>>
  PROVE  CInv'
<1>1. Records'
  BY DEF CInv, Typed, Records, Connected
<1>2. Positions'
  BY DEF CInv, Typed, Positions, Doing, Holding, Threads, Connected
<1>3. Switches'
  BY DEF CInv, Typed, Switches, Connected
<1>4. Turns'
  BY DEF CInv, Typed, Positions, Turns, Doing, Holding, Threads, Connected
<1>5. Asking'
  BY DEF CInv, Asking, Threads
<1>6. Sessions'
  BY DEF CInv, Sessions, Starting, Checking, Streaming, Suspect, Connected
<1>7. Versions'
  BY VersionsKeep DEF CInv, Alive, Connected
<1>8. Spaced'
  BY DEF CInv, Typed, Positions, Spaced, Turns, Connected
<1>9. Truthful'
  BY TruthKeeps DEF CInv, Streaming, Connected, Sessions, Alive
<1> QED
  BY <1>1, <1>2, <1>3, <1>4, <1>5, <1>6, <1>7, <1>8, <1>9 DEF CInv, Typed

LEMMA RefusedKeeps ==
  ASSUME CInv, NEW t \in {"main", "recovery"}, lock = "free", pc[t] = "waits",
         Refuse(t),
         once' \in BOOLEAN,
         UNCHANGED enabled,
         MarkFailed \/ UNCHANGED <<error, hot, tried, moved, status>>,
         UNCHANGED <<market, placed, syncs, kind, due, owed>>
  PROVE  CInv'
<1>1. Records'
  BY DEF CInv, Typed, Records, Refuse, Leave, MarkFailed
<1>2. Positions'
  BY DEF CInv, Typed, Positions, Doing, Holding, Threads, Refuse, Leave, MarkFailed
<1>3. Switches'
  BY DEF CInv, Typed, Switches, Refuse, Leave, MarkFailed
<1>4. Turns'
  BY DEF CInv, Typed, Positions, Turns, Doing, Holding, Threads, Refuse, Leave,
     MarkFailed
<1>5. Asking'
  BY DEF CInv, Asking, Refuse, Leave
<1>6. Sessions'
  BY DEF CInv, Sessions, Using, Starting, Checking, Streaming, Suspect, Refuse,
     Leave, MarkFailed
<1>7. Versions'
  BY VersionsKeep DEF CInv, Alive, Using, Refuse, Leave
<1>8. Spaced'
  BY DEF CInv, Typed, Positions, Spaced, Turns, Refuse, Leave, MarkFailed
<1>9. Truthful'
  BY TruthKeeps DEF CInv, Streaming, Connected, Sessions, Alive, Refuse, Leave,
     MarkFailed
<1> QED
  BY <1>1, <1>2, <1>3, <1>4, <1>5, <1>6, <1>7, <1>8, <1>9 DEF CInv, Typed

LEMMA BuiltKeeps ==
  ASSUME CInv, NEW t \in {"main", "recovery"}, lock = "free", pc[t] = "waits",
         t = "recovery" => pc["main"] = "idle",
         ~owed,
         Build(t),
         error' \in BOOLEAN,
         hot' \in BOOLEAN,
         moved' \in BOOLEAN,
         UNCHANGED enabled,
         UNCHANGED <<market, placed, syncs, kind, due, owed>>
  PROVE  CInv'
<1>0. ~syncs["host"].asked /\ ~syncs["run"].asked
  BY DEF CInv, Turns, Asking, Holding, Threads
<1>1. Records'
  BY NewBookTyped DEF CInv, Typed, Records, Build
<1>2. Positions'
  BY DEF CInv, Typed, Positions, Doing, Holding, Threads, Build
<1>3. Switches'
  BY DEF CInv, Typed, Switches, Build
<1>4. Turns'
  BY DEF CInv, Typed, Positions, Turns, Doing, Holding, Threads, Build
<1>5. Asking'
  BY DEF CInv, Asking, Threads
<1>6. Sessions'
  BY <1>0 DEF CInv, Typed, Positions, Sessions, Using, Starting, Threads, Build
<1>7. Versions'
  BY <1>0 DEF CInv, Versions, NewBook, Alive, Build, Readers
<1>8. Spaced'
  BY DEF CInv, Typed, Positions, Spaced, Turns, Build
<1>9. Truthful'
  BY SilentIsTrue DEF Build, Streaming
<1> QED
  BY <1>1, <1>2, <1>3, <1>4, <1>5, <1>6, <1>7, <1>8, <1>9 DEF CInv, Typed


LEMMA EnsureKeeps ==
  ASSUME CInv, NEW t \in {"main", "recovery"}, lock = "free", pc[t] = "waits",
         NEW known \in BOOLEAN, NEW force \in BOOLEAN, Ensure(t, known, force),
         t = "recovery" => pc["main"] = "idle",
         force => t = "main" /\ kind = "connect" /\ ~moved,
         UNCHANGED <<market, placed, syncs, kind, due, owed>>
  PROVE  CInv'
<1>1. error \in BOOLEAN /\ hot \in BOOLEAN /\ moved \in BOOLEAN /\ once \in BOOLEAN
  BY DEF CInv, Typed, Switches
<1>2. CASE Connected /\ known /\ ~error
  BY <1>2, UsedKeeps DEF Ensure
<1>3. CASE Connected /\ (~known \/ error)
  <2>1. CASE ~known /\ Barred(force, error, hot)
    BY <1>1, <1>3, <2>1, RefusedKeeps DEF Ensure
  <2>2. CASE ~(~known /\ Barred(force, error, hot))
    BY <1>3, <2>2, CheckedKeeps DEF Ensure
  <2> QED
    BY <2>1, <2>2
<1>4. CASE ~Connected /\ known /\ ~error
  <2>1. CASE force
    <3>1. ~owed
      BY <2>1 DEF CInv, Spaced
    <3> QED
      BY <1>4, <2>1, <3>1, BuiltKeeps DEF Ensure
  <2>2. CASE ~force
    BY <1>1, <1>4, <2>2, RefusedKeeps DEF Ensure
  <2> QED
    BY <2>1, <2>2
<1>5. CASE ~Connected /\ (~known \/ error)
  <2>1. CASE Barred(force, error, hot)
    BY <1>1, <1>5, <2>1, RefusedKeeps DEF Ensure
  <2>2. CASE ~Barred(force, error, hot)
    <3>1. ~owed
      BY <2>2 DEF CInv, Spaced, Barred
    <3> QED
      BY <1>1, <1>5, <2>2, <3>1, BuiltKeeps DEF Ensure
  <2> QED
    BY <2>1, <2>2
<1> QED
  BY <1>2, <1>3, <1>4, <1>5

LEMMA MainEntersKeeps ==
  ASSUME CInv, MainEnters
  PROVE  CInv'
<1>1. once \in BOOLEAN /\ (kind = "connect" /\ ~moved) \in BOOLEAN
  BY DEF CInv, Typed, Switches
<1> QED
  BY <1>1, EnsureKeeps DEF MainEnters

LEMMA RecoveryEntersKeeps ==
  ASSUME CInv, RecoveryEnters
  PROVE  CInv'
<1>1. CASE MayRecover
  BY <1>1, EnsureKeeps DEF RecoveryEnters, MayRecover, Requesting
<1>2. CASE ~MayRecover
  <2>1. /\ pc["recovery"] = "waits" /\ lock = "free" /\ Leave("recovery", "idle")
        /\ UNCHANGED <<wire, phase, book, host, adopted, enabled>>
        /\ UNCHANGED <<market, placed, syncs, kind, due, owed>>
    BY <1>2 DEF RecoveryEnters, Leave
  <2>2. Refuse("recovery") /\ UNCHANGED <<once, enabled, error, hot, tried, moved, status>>
    BY <2>1 DEF Refuse, host
  <2>3. once' \in BOOLEAN
    BY <2>2 DEF CInv, Typed, Switches
  <2> QED
    BY <2>1, <2>2, <2>3, RefusedKeeps
<1> QED
  BY <1>1, <1>2

-----------------------------------------------------------------------------
LEMMA InitInv == Init => CInv
<1> SUFFICES ASSUME Init
             PROVE  CInv
  OBVIOUS
<1>1. Typed
  <2>1. Records
    BY NewBookTyped, NoSyncTyped DEF Init, Records, Market
  <2>2. Positions
    BY DEF Init, Positions, Doing, Threads
  <2>3. Switches
    BY DEF Init, Switches
  <2> QED
    BY <2>1, <2>2, <2>3 DEF Typed
<1>2. Turns /\ Spaced
  BY DEF Init, Turns, Spaced, Threads, Holding
<1>3. Asking
  BY NoSyncTyped DEF Init, Asking, Readers
<1>4. Sessions
  BY DEF Init, Sessions, Starting, Using, Checking, Streaming, Suspect, Threads
<1>5. Versions
  BY NoSyncTyped DEF Init, Versions, NewBook, Alive
<1>6. Truthful
  BY DEF Init, Truthful, Streaming
<1> QED
  BY <1>1, <1>2, <1>3, <1>4, <1>5, <1>6 DEF CInv

LEMMA StutterKeeps ==
  ASSUME CInv, UNCHANGED vars
  PROVE  CInv'
<1>1. /\ Typed' /\ Turns' /\ Asking' /\ Spaced'
  BY DEF CInv, Typed, Records, Positions, Switches, Turns, Asking, Spaced, vars,
     exchange, host, monitor
<1>2. Sessions'
  BY DEF CInv, Sessions, Using, Starting, Checking, Streaming, Suspect, vars,
     exchange, host, monitor
<1>3. Versions'
  BY VersionsKeep DEF CInv, Alive, Using, Starting, vars, monitor
<1>4. Truthful'
  BY TruthKeeps DEF CInv, Streaming, vars, exchange
<1> QED
  BY <1>1, <1>2, <1>3, <1>4 DEF CInv

LEMMA NextKeeps ==
  ASSUME CInv, Next
  PROVE  CInv'
<1>1. CASE \E o \in Orders : OrderAppears(o) \/ OrderEnds(o) \/ RunPlaces(o) \/ RunPlaced(o)
  BY <1>1, OrderAppearsKeeps, OrderEndsKeeps, RunPlacesKeeps, RunPlacedKeeps
<1>2. CASE OnOrder \/ Disconnected \/ \E r \in Readers : Answer(r)
  BY <1>2, OnOrderKeeps, DisconnectedKeeps, AnswerKeeps
<1>3. CASE \E t \in Threads : Held(t)
  <2>1. PICK t \in Threads : Held(t)
    BY <1>3
  <2>2. CASE LogIn(t) \/ HostAsks(t) \/ HostInstalls(t) \/ BecomeReady(t)
    BY <2>2, LogInKeeps, HostAsksKeeps, HostInstallsKeeps, BecomeReadyKeeps
  <2>3. CASE (\E o \in Orders : Settle(t, o)) \/ Confirm(t) \/ Report(t)
    BY <2>3, SettleKeeps, ConfirmKeeps, ReportKeeps
  <2> QED
    BY <2>1, <2>2, <2>3 DEF Held
<1>4. CASE \E t \in Threads : Fails(t)
  BY <1>4, ConnectFailsKeeps, ConfirmFailsKeeps DEF Fails
<1>5. CASE (\E k \in Kinds : MainAsked(k)) \/ MainArrives \/ MainEnters \/ MainReads \/ MainDisconnects
  BY <1>5, MainAskedKeeps, MainArrivesKeeps, MainEntersKeeps, MainReadsKeeps,
     MainDisconnectsKeeps
<1>6. CASE RunAsks \/ RunInstalls \/ RunQueryFails \/ RunEnds
  BY <1>6, RunAsksKeeps, RunInstallsKeeps, RunQueryFailsKeeps, RunEndsKeeps
<1>7. CASE CommandAsked \/ CommandEnters \/ CommandEnds
  BY <1>7, CommandAskedKeeps, CommandEntersKeeps, CommandEndsKeeps
<1>8. CASE Sample \/ RecoveryEnters \/ CoolDown \/ RetryDue
  BY <1>8, SampleKeeps, RecoveryEntersKeeps, CoolDownKeeps, RetryDueKeeps
<1> QED
  BY <1>1, <1>2, <1>3, <1>4, <1>5, <1>6, <1>7, <1>8 DEF Next

(* The invariant, of every behaviour.                                      *)
THEOREM Invariant == Spec => []CInv
<1>1. CInv /\ [Next]_vars => CInv'
  BY NextKeeps, StutterKeeps
<1> QED
  BY InitInv, <1>1, PTL DEF Spec

-----------------------------------------------------------------------------
(* The types, and that a thread has the lock while it works on the         *)
(* executor.                                                               *)
THEOREM TypeCorrect == Spec => []TypeOK
<1>1. CInv => TypeOK
  <2> SUFFICES ASSUME CInv
               PROVE  TypeOK
    OBVIOUS
  <2>1. /\ book.st \in [Orders -> {"absent", "live", "done", "unknown"}]
        /\ book.error \in {"unsynced", "lost", "none"}
    BY DEF CInv, Typed, Records, BookType, Shown
  <2>2. {once, tried, error, hot, off, moved, adopted, enabled, due, owed} \subseteq BOOLEAN
    BY DEF CInv, Typed, Switches
  <2>3. /\ market \in [Orders -> {"absent", "live", "done"}]
        /\ wire \in Seq(Orders \X {"live", "done"}) /\ placed \subseteq Orders
    BY DEF CInv, Typed, Records, Market, Pushes
  <2>4. /\ phase \in {"none", "connecting", "logged", "ready", "dead"}
        /\ lock \in Threads \cup {"free"} /\ kind \in Kinds \cup {"none"}
        /\ \A t \in Threads : (lock = t) <=> (pc[t] \in Holding)
    BY DEF CInv, Typed, Positions, Turns
  <2> QED
    BY <2>1, <2>2, <2>3, <2>4 DEF TypeOK
<1> QED
  BY Invariant, <1>1, PTL

(* A list of orders that is shown as complete belongs to a session that is *)
(* up, and says what is open at the exchange but for pushes on their way:  *)
(* begin_sync, replace, apply and invalidate of account_orders.py under    *)
(* the adoption of resident_connection.py.                                 *)
THEOREM CompleteListsAreCurrent == Spec => []CompleteIsCurrent
<1>1. ASSUME CInv, lock = "free", adopted, Complete
      PROVE  Connected
  <2>1. phase \in {"ready", "dead"} /\ Using
    BY <1>1 DEF CInv, Sessions, Using
  <2>2. phase # "dead"
    BY <1>1, <2>1 DEF CInv, Versions, Complete
  <2> QED
    BY <2>1, <2>2 DEF Connected
<1>2. ASSUME CInv, Connected, Complete, wire = <<>>, placed = {}, NEW o \in Orders
      PROVE  (book.st[o] = "live") <=> (market[o] = "live")
  <2>1. Booked(o) /\ book.base # 0
    BY <1>2 DEF CInv, Truthful, Sound, Streaming, Versions, Connected
  <2>2. \A e : ~Coming(o, e)
    BY <1>2 DEF Coming
  <2>3. book.st[o] \in {"absent", "live", "done"} /\ market[o] \in Market
    BY <1>2 DEF CInv, Typed, Records, BookType, Shown, Complete
  <2> QED
    BY <2>1, <2>2, <2>3 DEF Booked, Market
<1>3. CInv => CompleteIsCurrent
  BY <1>1, <1>2 DEF CompleteIsCurrent
<1> QED
  BY Invariant, <1>3, PTL

(* Nothing replaces or adopts an executor under a run: the request loop    *)
(* serves one request, an order command builds none, and the recovery      *)
(* looks again at what is going on once it has the lock.                   *)
THEOREM RunsKeepTheirSession == Spec => RunKeepsItsSession
<1>1. ASSUME CInv, Next, pc["main"] = "runs"
      PROVE  phase' \in {phase, "dead"} /\ adopted' = adopted
  <2>1. ASSUME NEW t \in Threads, lock = t
        PROVE  pc[t] \in {"queries", "settles"}
    BY <1>1, <2>1 DEF CInv, Typed, Positions, Turns, Threads, Holding, Doing
  <2>2. CASE \E o \in Orders : OrderAppears(o) \/ OrderEnds(o) \/ RunPlaces(o) \/ RunPlaced(o)
    BY <2>2 DEF OrderAppears, OrderEnds, RunPlaces, RunPlaced, monitor
  <2>3. CASE OnOrder \/ Disconnected \/ \E r \in Readers : Answer(r)
    BY <2>3 DEF OnOrder, Disconnected, Answer, monitor
  <2>4. CASE \E t \in Threads : Held(t)
    <3>1. PICK t \in Threads : Held(t)
      BY <2>4
    <3>2. ~LogIn(t) /\ ~BecomeReady(t) /\ ~Report(t)
      BY <2>1 DEF LogIn, BecomeReady, Report
    <3>3. CASE HostAsks(t) \/ HostInstalls(t) \/ \E o \in Orders : Settle(t, o)
      BY <3>3 DEF HostAsks, HostInstalls, Settle, monitor
    <3>4. CASE Confirm(t)
      BY <3>4 DEF Confirm, monitor
    <3> QED
      BY <3>1, <3>2, <3>3, <3>4 DEF Held
  <2>5. CASE \E t \in Threads : Fails(t)
    <3>1. PICK t \in Threads : ConnectFails(t) \/ ConfirmFails(t)
      BY <2>5 DEF Fails
    <3>2. ~ConnectFails(t)
      BY <2>1 DEF ConnectFails
    <3> QED
      BY <3>1, <3>2 DEF ConfirmFails, monitor
  <2>6. CASE (\E k \in Kinds : MainAsked(k)) \/ MainArrives \/ MainEnters \/ MainReads \/ MainDisconnects
    BY <1>1, <2>6 DEF MainAsked, MainArrives, MainEnters, MainReads, MainDisconnects
  <2>7. CASE RunAsks \/ RunInstalls \/ RunQueryFails \/ RunEnds
    BY <2>7 DEF RunAsks, RunInstalls, RunQueryFails, RunEnds, monitor
  <2>8. CASE CommandAsked \/ CommandEnters \/ CommandEnds
    BY <2>8 DEF CommandAsked, CommandEnters, CommandEnds, monitor
  <2>9. CASE Sample \/ RecoveryEnters \/ CoolDown \/ RetryDue
    <3>1. ~MayRecover
      BY <1>1 DEF MayRecover, Requesting
    <3> QED
      BY <2>9, <3>1 DEF Sample, RecoveryEnters, CoolDown, RetryDue, monitor
  <2> QED
    BY <1>1, <2>2, <2>3, <2>4, <2>5, <2>6, <2>7, <2>8, <2>9 DEF Next
<1>2. CInv /\ [Next]_vars => [pc["main"] = "runs" => phase' \in {phase, "dead"} /\ adopted' = adopted]_vars
  BY <1>1
<1> QED
  BY Invariant, <1>2, PTL DEF Spec, RunKeepsItsSession

(* After a failed attempt nobody logs in before the cooldown is over, but  *)
(* for a user who asks after the failure: _check_attempt, and the          *)
(* revision that a waiting request compares.                               *)
LEMMA EnsureIsSpaced ==
  ASSUME CInv, NEW t \in {"main", "recovery"}, NEW known \in BOOLEAN,
         NEW force \in BOOLEAN, Ensure(t, known, force), pc[t] = "waits",
         force => t = "main" /\ kind = "connect" /\ ~moved,
         phase # "connecting", phase' = "connecting"
  PROVE  ~owed
<1>1. force => ~owed
  BY DEF CInv, Spaced
<1>2. ~Barred(force, error, hot) => ~owed
  BY DEF CInv, Spaced, Barred
<1>3. force \/ ~Barred(force, error, hot)
  BY DEF Ensure, Refuse
<1> QED
  BY <1>1, <1>2, <1>3

(* After a failed attempt nobody logs in before the cooldown is over or a  *)
(* user asked for it (_ensure_resident_connection): whoever opens a        *)
(* session looked at the cooldown with the lock in its hand, and a user    *)
(* who forces it asked after the last failure (Spaced).                    *)
THEOREM LoginsComeSpaced == Spec => LoginsAreSpaced
<1>1. ASSUME CInv, Next, phase # "connecting", phase' = "connecting"
      PROVE  ~owed
  <2>1. CASE MainEnters
    <3>1. once \in BOOLEAN /\ (kind = "connect" /\ ~moved) \in BOOLEAN
      BY <1>1 DEF CInv, Typed, Switches
    <3> QED
      BY <1>1, <2>1, <3>1, EnsureIsSpaced DEF MainEnters
  <2>2. CASE RecoveryEnters
    <3>1. Ensure("recovery", FALSE, FALSE)
      BY <1>1, <2>2 DEF RecoveryEnters
    <3> QED
      BY <1>1, <2>2, <3>1, EnsureIsSpaced DEF RecoveryEnters
  <2>3. CASE ~MainEnters /\ ~RecoveryEnters
    <3>1. ASSUME NEW t \in Threads
          PROVE  ~Held(t) /\ ~Fails(t)
      BY <1>1 DEF Held, Fails, LogIn, HostAsks, HostInstalls, BecomeReady, Settle,
         Confirm, Report,
           ConnectFails, ConfirmFails, exchange
    <3>2. \A o \in Orders : ~(OrderAppears(o) \/ OrderEnds(o) \/ RunPlaces(o) \/ RunPlaced(o))
      BY <1>1 DEF OrderAppears, OrderEnds, RunPlaces, RunPlaced
    <3>3. ~OnOrder /\ ~Disconnected /\ \A r \in Readers : ~Answer(r)
      BY <1>1 DEF OnOrder, Disconnected, Answer
    <3>4. ~MainArrives /\ ~MainReads /\ ~MainDisconnects /\ \A k \in Kinds : ~MainAsked(k)
      BY <1>1 DEF MainAsked, MainArrives, MainReads, MainDisconnects
    <3>5. ~RunAsks /\ ~RunInstalls /\ ~RunQueryFails /\ ~RunEnds
      BY <1>1 DEF RunAsks, RunInstalls, RunQueryFails, RunEnds
    <3>6. ~CommandAsked /\ ~CommandEnters /\ ~CommandEnds
      BY <1>1 DEF CommandAsked, CommandEnters, CommandEnds
    <3>7. ~Sample /\ ~CoolDown /\ ~RetryDue
      BY <1>1 DEF Sample, CoolDown, RetryDue
    <3> QED
      BY <1>1, <2>3, <3>1, <3>2, <3>3, <3>4, <3>5, <3>6, <3>7 DEF Next
  <2> QED
    BY <2>1, <2>2, <2>3
<1>2. CInv /\ [Next]_vars => [phase # "connecting" /\ phase' = "connecting" => ~owed]_vars
  BY <1>1
<1> QED
  BY Invariant, <1>2, PTL DEF Spec, LoginsAreSpaced

=============================================================================
