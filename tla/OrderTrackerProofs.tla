------------------------- MODULE OrderTrackerProofs -------------------------
(***************************************************************************)
(* The orders of one algorithm run, for any lines and volumes, any number  *)
(* of chases and any behaviour of the exchange: a line never trades more   *)
(* than it was asked to, a wait that says all is done leaves nothing open, *)
(* and what ended stays ended.                                             *)
(***************************************************************************)
EXTENDS OrderTracker, FiniteSetTheorems, TLAPS

-----------------------------------------------------------------------------
Stages  == {"none", "start", "price", "place", "add", "end"}
Row     == [st : {"none", "open"} \cup Ends, vol : 0..MaxVolume, filled : 0..MaxVolume]
Reports == [id : Ids, st : {"open"} \cup Ends, filled : 0..MaxVolume]
Book    == [pending : SUBSET Ids, completed : SUBSET Ids, filled : [Ids -> 0..MaxVolume],
            chase : SUBSET Ids, leaving : SUBSET Ids, given : SUBSET Ids,
            chasing : Ids \cup {NoOrder}, submitting : SUBSET Ids, started : SUBSET Ids,
            event : BOOLEAN, early : [Ids -> Seq(Reports)]]
Job     == [of : Ids \cup {NoOrder}, at : Stages, left : 0..MaxVolume, next : 0..MaxVolume]
Claimed == {"cancel", "confirm", "replace", "register", "unclaim"}
Chasing == Claimed \cup {"chase"}
Places  == Chasing \cup {"submit", "add", "loop", "fallback", "query", "missing",
                         "reconcile", "sweep", "judge", "end"}

Typed ==
    /\ volume \in Volumes
    /\ exch \in [Ids -> Row]
    /\ cancelling \subseteq Ids
    /\ reports \in Seq(Reports)
    /\ book \in Book
    /\ pc \in Places /\ todo \subseteq Ids /\ cur \in Ids \cup {NoOrder} /\ failed \subseteq Ids
    /\ result \in {"none", "late", "done", "timeout", "error", "terminated"}
    /\ job \in [Threads -> Job]
    /\ replay \in [Threads -> Seq(Reports)]
    /\ expired \in BOOLEAN
    /\ lost \subseteq Lines

(* The exchange: orders that exist, and the numbers it keeps of them.      *)
Made  == {o \in Ids : exch[o].st # "none"}
Known == book.pending \cup book.completed
Sums(o) ==
    /\ exch[o].filled <= exch[o].vol
    /\ exch[o].st = "open" => exch[o].filled < exch[o].vol
    /\ exch[o].st = "none" => exch[o].vol = 0

(* Reports say what was true when they were sent, and an end is for good.  *)
Honest(r) ==
    /\ r.id \in Made
    /\ r.filled <= exch[r.id].filled
    /\ r.st \in Ends => exch[r.id].st = r.st /\ r.filled = exch[r.id].filled
HonestReports == {r \in Reports : Honest(r)}
Reported ==
    /\ reports \in Seq(HonestReports)
    /\ \A o \in Ids : book.early[o] \in Seq({r \in HonestReports : r.id = o})
    /\ \A t \in Threads : replay[t] \in Seq(HonestReports)

Booked ==
    /\ \A o \in Ids : Sums(o) /\ book.filled[o] <= exch[o].filled
    /\ Known \subseteq Made /\ book.pending \cap book.completed = {}
    /\ \A o \in book.completed :
          exch[o].st \in Ends /\ book.filled[o] = exch[o].filled
    /\ \A o \in book.chase : o[2] <= MaxChase
    /\ \A o \in book.leaving : o[2] = MaxChase

(* Of the orders of a line all but the last have ended and are known to.   *)
Chained ==
    \A o \in Made, j \in 0..MaxChase : j < o[2] => <<o[1], j>> \in book.completed

(* The thread of the algorithm: what it has in hand.                       *)
Fresh(o) == o[2] < MaxChase /\ o \in Known /\ Next1(o) \notin Made
InHand ==
    /\ pc = "add" => cur \in Made \ Known /\ cur[2] = 0
    /\ pc \in Claimed => cur \in Ids /\ book.chasing = cur
    /\ pc \notin Claimed => book.chasing = NoOrder
    /\ pc \in {"cancel", "confirm", "replace"} => Fresh(cur)
    /\ pc \in {"replace", "register"} => cur \in book.completed /\ cur[2] < MaxChase
    /\ pc = "register" => Next1(cur) \in Made \ Known
    /\ pc \in Chasing =>
          \A o \in todo : Fresh(o) /\ (o \in book.chase => o \in book.pending)
    /\ pc \in Claimed => cur \notin todo

(* A batch: of an order that ended for good, by one thread, with numbers   *)
(* nobody used.                                                            *)
Spread(t) == job[t].next + (IF job[t].at = "add" THEN 1 ELSE 0)
Batch(t) ==
    LET o == job[t].of
    IN  /\ job[t].at = "none" => job[t] = NoJob
        /\ job[t].at # "none" =>
              /\ o \in book.completed \cap book.submitting /\ o[2] = MaxChase
              /\ job[t].at # "end" =>
                    \A p \in Made : p[1] = o[1] => p[2] <= MaxChase + Spread(t)
        /\ job[t].at \in {"start", "price"} => job[t].next = 0
        /\ job[t].at \in {"place", "add"} =>
              /\ Spread(t) + job[t].left <= MaxVolume
              /\ Spread(t) > 0 => <<o[1], MaxChase + 1>> \in Made
        /\ job[t].at = "add" => Child(t) \in Made \ Known
Batches ==
    /\ \A t \in Threads : Batch(t)
    /\ \A s, t \in Threads : job[s].at # "none" /\ job[s].of = job[t].of => s = t

(* The room of a line: what is at stake, and what may still be asked for   *)
(* instead of an order that ended.                                         *)
N(l) == Cardinality(AtStake(l))
Room ==
    /\ \A l \in Lines : N(l) <= volume[l]
    /\ \A o \in Made : o[2] <= MaxChase /\ Next1(o) \notin Made =>
          N(o[1]) + exch[o].vol - Exposure(o) <= volume[o[1]]
    /\ \A t \in Threads : job[t].at \in {"place", "add"} =>
          N(job[t].of[1]) + job[t].left <= volume[job[t].of[1]]

(* Nothing open is forgotten, and a signal means that nothing is left.     *)
Watched ==
    \A o \in Open :
       \/ o \in book.pending \/ o[1] \in lost
       \/ pc = "add" /\ o = cur
       \/ pc = "register" /\ o = Next1(cur)
       \/ \E t \in Threads : job[t].at = "add" /\ o = Child(t)
Calm ==
    /\ book.event => /\ book.pending = {} /\ book.submitting = {}
                     /\ pc \in Claimed => cur \notin book.chase
    /\ result = "done" => pc = "end" /\ book.pending = {} /\ book.submitting = {}

OInv == Typed /\ Reported /\ Booked /\ Chained /\ InHand /\ Batches /\ Room /\ Watched /\ Calm

-----------------------------------------------------------------------------
(* Orders and numbers.                                                     *)
LEMMA IdFacts ==
  ASSUME NEW o \in Ids
  PROVE  /\ o[1] \in Lines /\ o[2] \in 0..(MaxChase + MaxVolume) /\ o = <<o[1], o[2]>>
         /\ o[2] < MaxChase => /\ Next1(o) \in Ids /\ Next1(o) # o
                               /\ Next1(o)[1] = o[1] /\ Next1(o)[2] = o[2] + 1
  BY TrackerAssumption DEF Ids, Next1

LEMMA FirstFacts ==
  ASSUME NEW l \in Lines
  PROVE  First(l) \in Ids /\ First(l)[1] = l /\ First(l)[2] = 0
  BY TrackerAssumption DEF Ids, First

LEMMA NoOrderIsNone == NoOrder \notin Ids
  BY TrackerAssumption DEF Ids

LEMMA MaxOfTwo ==
  ASSUME NEW x \in Nat, NEW y \in Nat
  PROVE  Max({x, y}) = IF x >= y THEN x ELSE y
<1>1. \E z \in {x, y} : \A w \in {x, y} : z >= w
  BY x >= y \/ y >= x
<1> QED  BY <1>1 DEF Max

LEMMA IdsAreFinite == IsFiniteSet(Ids) /\ \A l \in Lines : IsFiniteSet(OrdersOf(l))
<1>1. IsFiniteSet(0..(MaxChase + MaxVolume))
  BY FS_Interval, TrackerAssumption
<1>2. IsFiniteSet(Ids)
  BY <1>1, FS_Product, TrackerAssumption DEF Ids
<1> QED  BY <1>2, FS_Subset DEF OrdersOf

-----------------------------------------------------------------------------
(* What is at stake on a line, as a number: one order that grows adds what *)
(* it grows by.                                                            *)
Lots(f, l) == {p \in OrdersOf(l) \X (1..MaxVolume) : p[2] <= f[p[1]]}

LEMMA LotsAreFinite ==
  ASSUME NEW f, NEW l \in Lines
  PROVE  IsFiniteSet(Lots(f, l)) /\ Cardinality(Lots(f, l)) \in Nat
<1>1. IsFiniteSet(1..MaxVolume)
  BY FS_Interval, TrackerAssumption
<1>2. IsFiniteSet(OrdersOf(l) \X (1..MaxVolume))
  BY <1>1, IdsAreFinite, FS_Product
<1>3. Lots(f, l) \subseteq OrdersOf(l) \X (1..MaxVolume)
  BY DEF Lots
<1> QED  BY <1>2, <1>3, FS_Subset, FS_CardinalityType

LEMMA LotsGrow ==
  ASSUME NEW f \in [Ids -> 0..MaxVolume], NEW g \in [Ids -> 0..MaxVolume], NEW o \in Ids,
         \A p \in Ids : p # o => g[p] = f[p], f[o] <= g[o]
  PROVE  Cardinality(Lots(g, o[1])) = Cardinality(Lots(f, o[1])) + (g[o] - f[o])
<1> DEFINE D == (f[o] + 1)..g[o]
           E == {o} \X D
<1>0. f[o] \in Nat /\ g[o] \in Nat /\ f[o] \in Int /\ g[o] \in Int /\ o[1] \in Lines
  BY TrackerAssumption, IdFacts
<1>1. IsFiniteSet(D) /\ Cardinality(D) = g[o] - f[o]
  <2>1. f[o] + 1 \in Int
    BY <1>0
  <2>2. /\ IsFiniteSet((f[o] + 1)..g[o])
        /\ Cardinality((f[o] + 1)..g[o]) = IF f[o] + 1 > g[o] THEN 0 ELSE g[o] - (f[o] + 1) + 1
    BY <1>0, <2>1, FS_Interval
  <2> QED  BY <1>0, <2>2
<1>2. IsFiniteSet({o}) /\ Cardinality({o}) = 1
  BY FS_Singleton
<1>3. IsFiniteSet(E) /\ Cardinality(E) = g[o] - f[o]
  <2> HIDE DEF D
  <2>1. IsFiniteSet(E) /\ Cardinality(E) = Cardinality({o}) * Cardinality(D)
    BY <1>1, <1>2, FS_Product
  <2> QED  BY <1>0, <1>1, <1>2, <2>1
<1>4. Lots(g, o[1]) = Lots(f, o[1]) \cup E
  BY <1>0, TrackerAssumption DEF Lots, OrdersOf
<1>5. Lots(f, o[1]) \cap E = {}
  BY <1>0 DEF Lots, OrdersOf
<1>6. IsFiniteSet(Lots(f, o[1])) /\ Cardinality(Lots(f, o[1])) \in Nat
  BY <1>0, LotsAreFinite
<1>7. Cardinality(Lots(f, o[1]) \cap E) = 0
  BY <1>5, FS_EmptySet
<1>8. Cardinality(Lots(g, o[1]))
        = Cardinality(Lots(f, o[1])) + Cardinality(E) - Cardinality(Lots(f, o[1]) \cap E)
  <2> HIDE DEF E
  <2> QED  BY <1>3, <1>4, <1>6, FS_Union
<1> QED  BY <1>0, <1>3, <1>6, <1>7, <1>8

LEMMA LotsStay ==
  ASSUME NEW f, NEW g, NEW o \in Ids, \A p \in Ids : p # o => g[p] = f[p],
         NEW l \in Lines, l # o[1]
  PROVE  Lots(g, l) = Lots(f, l)
  BY DEF Lots, OrdersOf

Stake(row)   == IF row.st = "open" THEN row.vol ELSE row.filled
StakesIn(e) == [o \in Ids |-> Stake(e[o])]

LEMMA StakesAreNumbers ==
  ASSUME NEW e \in [Ids -> Row]
  PROVE  /\ StakesIn(e) \in [Ids -> 0..MaxVolume]
         /\ \A o \in Ids : StakesIn(e)[o] = Stake(e[o]) /\ Stake(e[o]) \in Nat
         /\ \A l \in Lines : Cardinality(Lots(StakesIn(e), l)) \in Nat
<1>1. \A o \in Ids : Stake(e[o]) \in 0..MaxVolume
  BY DEF Stake, Row
<1>2. StakesIn(e) \in [Ids -> 0..MaxVolume] /\ \A o \in Ids : StakesIn(e)[o] = Stake(e[o])
  BY <1>1 DEF StakesIn
<1> QED  BY <1>1, <1>2, LotsAreFinite, TrackerAssumption

(* An order that moves takes the room of its line with it.                 *)
LEMMA RoomMoves ==
  ASSUME exch \in [Ids -> Row], (exch \in [Ids -> Row])', NEW o \in Ids,
         \A p \in Ids : p # o => exch'[p] = exch[p]
  PROVE  /\ N(o[1])' + Exposure(o) = N(o[1]) + Exposure(o)'
         /\ \A l \in Lines : l # o[1] => N(l)' = N(l)
         /\ \A p \in Ids : p # o => Exposure(p)' = Exposure(p)
         /\ \A l \in Lines : N(l) \in Nat /\ N(l)' \in Nat
         /\ Exposure(o) \in Nat /\ Exposure(o)' \in Nat
<1> DEFINE F == StakesIn(exch)
           G == StakesIn(exch')
<1>1. /\ F \in [Ids -> 0..MaxVolume] /\ G \in [Ids -> 0..MaxVolume]
      /\ \A p \in Ids : /\ F[p] = Exposure(p) /\ Exposure(p) \in Nat
                        /\ G[p] = Exposure(p)' /\ Exposure(p)' \in Nat
      /\ \A l \in Lines : /\ Cardinality(Lots(F, l)) \in Nat
                          /\ Cardinality(Lots(G, l)) \in Nat
  BY StakesAreNumbers DEF Stake, Exposure
<1>2. \A l \in Lines : AtStake(l) = Lots(F, l) /\ AtStake(l)' = Lots(G, l)
  BY <1>1 DEF AtStake, Lots, OrdersOf
<1>3. \A l \in Lines : N(l) = Cardinality(Lots(F, l)) /\ N(l)' = Cardinality(Lots(G, l))
  BY <1>2 DEF N
<1>4. \A p \in Ids : p # o => Exposure(p)' = Exposure(p)
  BY DEF Exposure
<1>5. o[1] \in Lines
  BY IdFacts
<1> HIDE DEF F, G
<1>6. F[o] <= G[o] => Cardinality(Lots(G, o[1])) = Cardinality(Lots(F, o[1])) + (G[o] - F[o])
  BY <1>1, <1>4, LotsGrow
<1>7. G[o] <= F[o] => Cardinality(Lots(F, o[1])) = Cardinality(Lots(G, o[1])) + (F[o] - G[o])
  BY <1>1, <1>4, LotsGrow
<1>8. \A l \in Lines : l # o[1] => Lots(G, l) = Lots(F, l)
  BY <1>1, <1>4, LotsStay
<1> QED  BY <1>1, <1>3, <1>4, <1>5, <1>6, <1>7, <1>8

-----------------------------------------------------------------------------
(* What an order may do at the exchange, and what that means for reports.  *)
Onward ==
    \A o \in Ids :
       /\ exch[o].st # "none" => /\ exch'[o].st # "none"
                                 /\ exch'[o].filled >= exch[o].filled
       /\ exch[o].st \in Ends => exch'[o] = exch[o]

LEMMA HonestStay ==
  ASSUME exch \in [Ids -> Row], (exch \in [Ids -> Row])', Onward
  PROVE  /\ HonestReports \subseteq HonestReports'
         /\ Made \subseteq Made'
<1>1. Made \subseteq Made'
  BY DEF Onward, Made
<1>2. ASSUME NEW r \in Reports, Honest(r)
      PROVE  Honest(r)'
  <2>1. r.id \in Ids /\ r.filled \in Nat /\ exch[r.id].filled \in Nat /\ exch'[r.id].filled \in Nat
    BY TrackerAssumption DEF Reports, Row
  <2>2. r.id \in Made'
    BY <1>1, <1>2 DEF Honest
  <2>3. r.filled <= exch'[r.id].filled
    BY <1>2, <2>1 DEF Honest, Onward, Made
  <2>4. r.st \in Ends => exch'[r.id].st = r.st /\ r.filled = exch'[r.id].filled
    BY <1>2, <2>1 DEF Honest, Onward
  <2> QED  BY <2>2, <2>3, <2>4 DEF Honest
<1> QED  BY <1>1, <1>2 DEF HonestReports

LEMMA SeqWider ==
  ASSUME NEW S, NEW T, S \subseteq T, NEW s \in Seq(S)
  PROVE  s \in Seq(T)
  OBVIOUS

(* Reports that are neither made nor moved stay honest.                    *)
LEMMA ReportedStays ==
  ASSUME OInv, (exch \in [Ids -> Row])', Onward,
         UNCHANGED <<reports, book.early, replay>>
  PROVE  Reported'
<1>1. HonestReports \subseteq HonestReports'
  BY HonestStay DEF OInv, Typed
<1>2. reports' \in Seq(HonestReports')
  BY <1>1, SeqWider DEF OInv, Reported
<1>3. ASSUME NEW o \in Ids
      PROVE  book'.early[o] \in Seq({r \in HonestReports' : r.id = o})
  <2>1. {r \in HonestReports : r.id = o} \subseteq {r \in HonestReports' : r.id = o}
    BY <1>1
  <2>2. book.early[o] \in Seq({r \in HonestReports : r.id = o})
    BY DEF OInv, Reported
  <2> QED  BY <2>1, <2>2, SeqWider
<1>4. ASSUME NEW t \in Threads
      PROVE  replay'[t] \in Seq(HonestReports')
  BY <1>1, SeqWider DEF OInv, Reported
<1> QED  BY <1>2, <1>3, <1>4 DEF Reported

LEMMA ReportedSame ==
  ASSUME OInv, UNCHANGED <<exch, reports, book.early, replay>>
  PROVE  Reported' /\ HonestReports' = HonestReports
<1>1. \A r \in Reports : Honest(r)' <=> Honest(r)
  BY DEF Honest, Made
<1>2. HonestReports' = HonestReports
  BY <1>1 DEF HonestReports
<1> QED  BY <1>2 DEF OInv, Reported

(* What a step that leaves an area alone need not prove.                   *)
LEMMA BookedStays ==
  ASSUME OInv, UNCHANGED <<exch, book.pending, book.completed, book.filled>>,
         \A o \in book'.chase : o[2] <= MaxChase, \A o \in book'.leaving : o[2] = MaxChase
  PROVE  Booked' /\ Chained'
  BY DEF OInv, Booked, Chained, Sums, Known, Made

LEMMA BatchesStay ==
  ASSUME OInv, UNCHANGED <<exch, book.pending, book.completed, book.submitting, job>>
  PROVE  Batches'
  BY DEF OInv, Batches, Batch, Spread, Child, Known, Made

LEMMA RoomStays ==
  ASSUME OInv, UNCHANGED <<volume, exch, job>>
  PROVE  Room'
  BY DEF OInv, Room, N, AtStake, OrdersOf, Exposure, Made

LEMMA WatchedStays ==
  ASSUME OInv, UNCHANGED <<exch, book.pending, job, lost>>, pc \notin {"add", "register"}
  PROVE  Watched'
  BY DEF OInv, Watched, Open, Child

(* The thread of the algorithm moves on, and touches neither orders nor    *)
(* the book.                                                               *)
LEMMA Walks ==
  ASSUME OInv, UNCHANGED <<volume, exch, book, job, lost>>,
         pc \notin {"add", "register"}
  PROVE  Booked' /\ Chained' /\ Batches' /\ Room' /\ Watched'
<1>1. \A o \in book'.chase : o[2] <= MaxChase
  BY DEF OInv, Booked
<1>2. \A o \in book'.leaving : o[2] = MaxChase
  BY DEF OInv, Booked
<1> QED  BY <1>1, <1>2, BookedStays, BatchesStay, RoomStays, WatchedStays

-----------------------------------------------------------------------------
(* What a report makes of the book, by whether its order is waited for and *)
(* whether it says that the order has ended.                               *)
LEMMA UnknownReport ==
  ASSUME NEW b \in Book, NEW r \in Reports, r.id \notin b.pending
  PROVE  LET c == OnReport(b, r)
         IN  /\ c \in Book
             /\ c.pending = b.pending /\ c.completed = b.completed /\ c.filled = b.filled
             /\ c.chase = b.chase /\ c.leaving = b.leaving /\ c.chasing = b.chasing
             /\ c.submitting = b.submitting /\ c.started = b.started /\ c.event = b.event
             /\ \A p \in Ids : \/ c.early[p] = b.early[p]
                               \/ p = r.id /\ c.early[p] = Append(b.early[p], r)
<1>1. r.id \in Ids /\ b.early \in [Ids -> Seq(Reports)]
  BY DEF Reports, Book
<1>2. CASE OnReport(b, r) = b
  BY <1>2
<1>3. CASE OnReport(b, r) = [b EXCEPT !.early[r.id] = Append(@, r)]
  <2> DEFINE e == [b.early EXCEPT ![r.id] = Append(@, r)]
  <2>1. /\ e \in [Ids -> Seq(Reports)] /\ e[r.id] = Append(b.early[r.id], r)
        /\ \A p \in Ids : p # r.id => e[p] = b.early[p]
    BY <1>1
  <2>2. OnReport(b, r) = [b EXCEPT !.early = e]
    BY <1>3
  <2> HIDE DEF e
  <2> QED  BY <2>1, <2>2 DEF Book
<1> QED  BY <1>2, <1>3 DEF OnReport

LEMMA SeenFills ==
  ASSUME NEW b \in Book, NEW r \in Reports
  PROVE  LET f == [b.filled EXCEPT ![r.id] = Max({@, r.filled})]
         IN  /\ f \in [Ids -> 0..MaxVolume]
             /\ f[r.id] = IF b.filled[r.id] >= r.filled THEN b.filled[r.id] ELSE r.filled
             /\ \A p \in Ids : p # r.id => f[p] = b.filled[p]
<1>1. /\ r.id \in Ids /\ b.filled \in [Ids -> 0..MaxVolume]
      /\ r.filled \in 0..MaxVolume /\ r.filled \in Nat /\ b.filled[r.id] \in Nat
      /\ b.filled[r.id] \in 0..MaxVolume
  BY TrackerAssumption DEF Reports, Book
<1>2. Max({b.filled[r.id], r.filled})
        = IF b.filled[r.id] >= r.filled THEN b.filled[r.id] ELSE r.filled
  BY <1>1, MaxOfTwo
<1> QED  BY <1>1, <1>2

LEMMA OpenReport ==
  ASSUME NEW b \in Book, NEW r \in Reports, r.id \in b.pending, r.st \notin Ends
  PROVE  LET c == OnReport(b, r)
         IN  /\ c \in Book
             /\ c.pending = b.pending /\ c.completed = b.completed
             /\ c.chase = b.chase /\ c.leaving = b.leaving /\ c.chasing = b.chasing
             /\ c.submitting = b.submitting /\ c.started = b.started /\ c.event = b.event
             /\ c.early = b.early
             /\ c.filled[r.id] = IF b.filled[r.id] >= r.filled THEN b.filled[r.id] ELSE r.filled
             /\ \A p \in Ids : p # r.id => c.filled[p] = b.filled[p]
<1> DEFINE f == [b.filled EXCEPT ![r.id] = Max({@, r.filled})]
<1>1. /\ f \in [Ids -> 0..MaxVolume]
      /\ f[r.id] = IF b.filled[r.id] >= r.filled THEN b.filled[r.id] ELSE r.filled
      /\ \A p \in Ids : p # r.id => f[p] = b.filled[p]
  BY SeenFills
<1>2. OnReport(b, r) = [b EXCEPT !.filled = f]
  BY DEF OnReport
<1> HIDE DEF f
<1>3. LET c == OnReport(b, r)
      IN  /\ c \in Book
          /\ c.pending = b.pending /\ c.completed = b.completed
          /\ c.chase = b.chase /\ c.leaving = b.leaving /\ c.chasing = b.chasing
          /\ c.submitting = b.submitting /\ c.started = b.started /\ c.event = b.event
          /\ c.early = b.early /\ c.filled = f
  BY <1>1, <1>2 DEF Book
<1> QED  BY <1>1, <1>3

LEMMA EndReport ==
  ASSUME NEW b \in Book, NEW r \in Reports, r.id \in b.pending, r.st \in Ends
  PROVE  LET c == OnReport(b, r)
             o == r.id
         IN  /\ c \in Book
             /\ c.pending = b.pending \ {o} /\ c.completed = b.completed \cup {o}
             /\ c.chase \subseteq b.chase
             /\ o \in c.chase => o = b.chasing
             /\ c.leaving = b.leaving /\ c.chasing = b.chasing /\ c.started = b.started
             /\ c.early = b.early
             /\ \/ c.submitting = b.submitting
                \/ /\ c.submitting = b.submitting \cup {o} /\ c.event = b.event
                   /\ o \in b.chase \cap b.leaving
             /\ c.event => \/ b.event
                           \/ c.pending = {} /\ c.chasing = NoOrder /\ c.submitting = {}
             /\ c.filled[o] = IF b.filled[o] >= r.filled THEN b.filled[o] ELSE r.filled
             /\ \A p \in Ids : p # o => c.filled[p] = b.filled[p]
<1> DEFINE o == r.id
           f == [b.filled EXCEPT ![o] = Max({@, r.filled})]
           ended == [b EXCEPT !.filled = f, !.pending = @ \ {o}, !.completed = @ \cup {o}]
<1>1. /\ f \in [Ids -> 0..MaxVolume]
      /\ f[o] = IF b.filled[o] >= r.filled THEN b.filled[o] ELSE r.filled
      /\ \A p \in Ids : p # o => f[p] = b.filled[p]
  BY SeenFills
<1>2. o \in Ids
  BY DEF Reports
<1> DEFINE freed == [ended EXCEPT !.chase = @ \ {o}]
<1>3. \/ /\ OnReport(b, r) = [freed EXCEPT !.submitting = @ \cup {o}]
         /\ o \in b.chase \cap b.leaving
      \/ OnReport(b, r) = Signalled(freed)
      \/ OnReport(b, r) = Signalled(ended) /\ o = b.chasing
  BY DEF OnReport
<1> HIDE DEF f
<1>4. /\ ended \in Book /\ ended.pending = b.pending \ {o}
      /\ ended.completed = b.completed \cup {o}
      /\ ended.chase = b.chase /\ ended.leaving = b.leaving /\ ended.chasing = b.chasing
      /\ ended.started = b.started /\ ended.early = b.early
      /\ ended.submitting = b.submitting /\ ended.filled = f /\ ended.event = b.event
  BY <1>1, <1>2 DEF Book
<1> HIDE DEF ended
<1>5. /\ freed \in Book /\ freed.pending = ended.pending /\ freed.completed = ended.completed
      /\ freed.chase = ended.chase \ {o} /\ freed.leaving = ended.leaving
      /\ freed.chasing = ended.chasing
      /\ freed.started = ended.started /\ freed.early = ended.early
      /\ freed.submitting = ended.submitting /\ freed.filled = ended.filled
      /\ freed.event = ended.event
  BY <1>2, <1>4 DEF Book
<1> HIDE DEF freed
<1>6. CASE /\ OnReport(b, r) = [freed EXCEPT !.submitting = @ \cup {o}]
           /\ o \in b.chase \cap b.leaving
  <2> DEFINE su == freed.submitting \cup {o}
  <2>a. su \subseteq Ids
    BY <1>2, <1>5 DEF Book
  <2>b. OnReport(b, r) = [freed EXCEPT !.submitting = su]
    BY <1>6
  <2> HIDE DEF su
  <2>1. LET c == OnReport(b, r)
        IN  /\ c \in Book /\ c.pending = freed.pending /\ c.completed = freed.completed
            /\ c.chase = freed.chase /\ c.leaving = freed.leaving /\ c.chasing = freed.chasing
            /\ c.started = freed.started /\ c.early = freed.early
            /\ c.submitting = su /\ c.filled = freed.filled
            /\ c.event = freed.event
    BY <1>5, <2>a, <2>b DEF Book
  <2> QED  BY <1>1, <1>4, <1>5, <1>6, <2>1 DEF su
<1>7. ASSUME NEW g \in Book, OnReport(b, r) = Signalled(g)
      PROVE  LET c == OnReport(b, r)
             IN  /\ c \in Book /\ c.pending = g.pending /\ c.completed = g.completed
                 /\ c.chase = g.chase /\ c.leaving = g.leaving /\ c.chasing = g.chasing
                 /\ c.started = g.started /\ c.early = g.early
                 /\ c.submitting = g.submitting /\ c.filled = g.filled
                 /\ c.event => g.event \/ Quiet(g)
  <2>1. OnReport(b, r) = [g EXCEPT !.event = g.event \/ Quiet(g)]
    BY <1>7 DEF Signalled
  <2>2. Quiet(g) \in BOOLEAN
    BY DEF Quiet
  <2> QED  BY <2>1, <2>2 DEF Book
<1>8. CASE OnReport(b, r) = Signalled(freed)
  BY <1>1, <1>4, <1>5, <1>7, <1>8 DEF Quiet
<1>9. CASE OnReport(b, r) = Signalled(ended) /\ o = b.chasing
  BY <1>1, <1>4, <1>7, <1>9 DEF Quiet
<1> QED  BY <1>3, <1>6, <1>8, <1>9

-----------------------------------------------------------------------------
(* What a report that is true makes of the book.                           *)
Taken(r) ==
    /\ book' \in Book
    /\ book'.pending \subseteq book.pending /\ Known' = Known
    /\ book.completed \subseteq book'.completed /\ book'.pending \cap book'.completed = {}
    /\ \A p \in Ids : /\ book.filled[p] <= book'.filled[p]
                      /\ book'.filled[p] <= exch[p].filled
    /\ \A p \in book'.completed :
          exch[p].st \in Ends /\ book'.filled[p] = exch[p].filled
    /\ book'.chase \subseteq book.chase /\ book'.leaving = book.leaving
    /\ book'.chasing = book.chasing
    /\ \A p \in book'.chase : p \in book.pending => p \in book'.pending \/ p = book.chasing
    /\ \/ book'.submitting = book.submitting
       \/ /\ book'.submitting = book.submitting \cup {r.id} /\ book'.event = book.event
          /\ r.id \in book.pending /\ r.id \in book'.completed /\ r.id[2] = MaxChase
    /\ book'.event => \/ book.event
                      \/ /\ book'.pending = {} /\ book.chasing = NoOrder
                         /\ book'.submitting = {}
    /\ \A o \in Ids : book'.early[o] \in Seq({q \in HonestReports : q.id = o})

LEMMA ReportIsTaken ==
  ASSUME OInv, NEW r \in HonestReports, book' = OnReport(book, r)
  PROVE  Taken(r)
<1>0. /\ book \in Book /\ exch \in [Ids -> Row] /\ r \in Reports /\ r.id \in Ids
      /\ r.filled \in Nat
  BY TrackerAssumption DEF OInv, Typed, HonestReports, Reports
<1>1. /\ \A p \in Ids : book.filled[p] \in Nat /\ exch[p].filled \in Nat
      /\ book.pending \subseteq Ids /\ book.completed \subseteq Ids
  BY <1>0, TrackerAssumption DEF Book, Row
<1>2. /\ \A p \in Ids : book.filled[p] <= exch[p].filled
      /\ book.pending \cap book.completed = {}
      /\ \A p \in book.completed : exch[p].st \in Ends /\ book.filled[p] = exch[p].filled
      /\ \A p \in book.leaving : p[2] = MaxChase
  BY DEF OInv, Booked
<1>3. /\ r.filled <= exch[r.id].filled
      /\ r.st \in Ends => exch[r.id].st = r.st /\ r.filled = exch[r.id].filled
  BY DEF HonestReports, Honest
<1>4. \A o \in Ids : book.early[o] \in Seq({q \in HonestReports : q.id = o})
  BY DEF OInv, Reported
<1>5. CASE r.id \notin book.pending
  <2>1. /\ book' \in Book
        /\ book'.pending = book.pending /\ book'.completed = book.completed
        /\ book'.filled = book.filled
        /\ book'.chase = book.chase /\ book'.leaving = book.leaving
        /\ book'.chasing = book.chasing
        /\ book'.submitting = book.submitting /\ book'.event = book.event
        /\ \A p \in Ids : \/ book'.early[p] = book.early[p]
                          \/ p = r.id /\ book'.early[p] = Append(book.early[p], r)
    BY <1>0, <1>5, UnknownReport
  <2>2. \A o \in Ids : book'.early[o] \in Seq({q \in HonestReports : q.id = o})
    <3> SUFFICES ASSUME NEW o \in Ids
                 PROVE  book'.early[o] \in Seq({q \in HonestReports : q.id = o})
      OBVIOUS
    <3>1. CASE book'.early[o] = book.early[o]
      BY <1>4, <3>1
    <3>2. CASE o = r.id /\ book'.early[o] = Append(book.early[o], r)
      <4>1. r \in {q \in HonestReports : q.id = o}
        BY <3>2
      <4> QED  BY <1>4, <3>2, <4>1
    <3> QED  BY <2>1, <3>1, <3>2
  <2> QED  BY <1>1, <1>2, <2>1, <2>2 DEF Taken, Known
<1>6. CASE r.id \in book.pending /\ r.st \notin Ends
  <2>1. /\ book' \in Book
        /\ book'.pending = book.pending /\ book'.completed = book.completed
        /\ book'.chase = book.chase /\ book'.leaving = book.leaving
        /\ book'.chasing = book.chasing
        /\ book'.submitting = book.submitting /\ book'.event = book.event
        /\ book'.early = book.early
        /\ book'.filled[r.id] = IF book.filled[r.id] >= r.filled
                                THEN book.filled[r.id] ELSE r.filled
        /\ \A p \in Ids : p # r.id => book'.filled[p] = book.filled[p]
    BY <1>0, <1>6, OpenReport
  <2>2. \A p \in Ids : /\ book.filled[p] <= book'.filled[p]
                       /\ book'.filled[p] <= exch[p].filled
    BY <1>0, <1>1, <1>2, <1>3, <2>1
  <2>3. \A p \in book'.completed : book'.filled[p] = book.filled[p]
    BY <1>1, <1>2, <1>6, <2>1
  <2> QED  BY <1>2, <1>4, <2>1, <2>2, <2>3 DEF Taken, Known
<1>7. CASE r.id \in book.pending /\ r.st \in Ends
  <2> DEFINE o == r.id
  <2>1. /\ book' \in Book
        /\ book'.pending = book.pending \ {o} /\ book'.completed = book.completed \cup {o}
        /\ book'.chase \subseteq book.chase
        /\ o \in book'.chase => o = book.chasing
        /\ book'.leaving = book.leaving /\ book'.chasing = book.chasing
        /\ book'.early = book.early
        /\ \/ book'.submitting = book.submitting
           \/ /\ book'.submitting = book.submitting \cup {o} /\ book'.event = book.event
              /\ o \in book.chase \cap book.leaving
        /\ book'.event => \/ book.event
                          \/ /\ book'.pending = {} /\ book'.chasing = NoOrder
                             /\ book'.submitting = {}
        /\ book'.filled[o] = IF book.filled[o] >= r.filled THEN book.filled[o] ELSE r.filled
        /\ \A p \in Ids : p # o => book'.filled[p] = book.filled[p]
    BY <1>0, <1>7, EndReport
  <2>2. \A p \in Ids : /\ book.filled[p] <= book'.filled[p]
                       /\ book'.filled[p] <= exch[p].filled
    BY <1>0, <1>1, <1>2, <1>3, <2>1
  <2>3. \A p \in book'.completed : exch[p].st \in Ends /\ book'.filled[p] = exch[p].filled
    <3>1. exch[o].st \in Ends /\ book'.filled[o] = exch[o].filled
      BY <1>0, <1>1, <1>2, <1>3, <1>7, <2>1
    <3>2. \A p \in book.completed : p # o
      BY <1>2, <1>7
    <3> QED  BY <1>1, <1>2, <2>1, <3>1, <3>2
  <2> QED  BY <1>2, <1>4, <1>7, <2>1, <2>2, <2>3 DEF Taken, Known
<1> QED  BY <1>5, <1>6, <1>7

(* A report that starts a fallback gives the thread its batch.             *)
LEMMA JobIsTaken ==
  ASSUME OInv, NEW t \in Threads, NEW r \in HonestReports, book' = OnReport(book, r),
         job' = job \/ (job[t] = NoJob /\ job' = JobOf(t, r))
  PROVE  \/ job' = job
         \/ /\ job[t] = NoJob
            /\ job' = [job EXCEPT ![t] = NewJob(r.id)]
            /\ book'.submitting = book.submitting \cup {r.id}
            /\ r.id \in book.pending /\ r.id \in book'.completed /\ r.id[2] = MaxChase
<1>1. Taken(r)
  BY ReportIsTaken
<1>2. Falls(book, r) => book'.submitting # book.submitting
  BY DEF Falls
<1> QED  BY <1>1, <1>2 DEF JobOf, Taken

LEMMA ReportKeeps ==
  ASSUME OInv, NEW t \in Threads, NEW r \in HonestReports, book' = OnReport(book, r),
         job' = job \/ (job[t] = NoJob /\ job' = JobOf(t, r)),
         UNCHANGED <<volume, exch, pc, cur, result, lost>>, todo' \subseteq todo
  PROVE  /\ book' \in Book /\ job' \in [Threads -> Job]
         /\ \A o \in Ids : book'.early[o] \in Seq({q \in HonestReports' : q.id = o})
         /\ Booked' /\ Chained' /\ InHand' /\ Batches' /\ Room' /\ Watched' /\ Calm'
<1>0. /\ Taken(r) /\ Made' = Made
      /\ book \in Book /\ exch \in [Ids -> Row] /\ job \in [Threads -> Job] /\ r.id \in Ids
  BY ReportIsTaken DEF OInv, Typed, HonestReports, Reports, Made
<1>1. \/ job' = job
      \/ /\ job[t] = NoJob
         /\ job' = [job EXCEPT ![t] = NewJob(r.id)]
         /\ book'.submitting = book.submitting \cup {r.id}
         /\ r.id \in book.pending /\ r.id \in book'.completed /\ r.id[2] = MaxChase
  BY JobIsTaken
<1>2. \/ job' = job
      \/ /\ job[t] = NoJob /\ job' \in [Threads -> Job]
         /\ job'[t] = [of |-> r.id, at |-> "start", left |-> 0, next |-> 0]
         /\ \A s \in Threads : s # t => job'[s] = job[s]
         /\ book'.submitting = book.submitting \cup {r.id}
         /\ r.id \in book.pending /\ r.id \in book'.completed /\ r.id[2] = MaxChase
  <2>1. NewJob(r.id) \in Job
    BY <1>0, TrackerAssumption DEF Job, Stages, NewJob
  <2> QED  BY <1>0, <1>1, <2>1 DEF NewJob
<1>3. job' \in [Threads -> Job]
  BY <1>0, <1>2
<1>4. \A o \in Ids : book'.early[o] \in Seq({q \in HonestReports' : q.id = o})
  <2>1. \A q \in Reports : Honest(q)' <=> Honest(q)
    BY <1>0 DEF Honest
  <2>2. HonestReports' = HonestReports
    BY <2>1 DEF HonestReports
  <2> QED  BY <1>0, <2>2 DEF Taken
<1>5. Booked'
  BY <1>0 DEF OInv, Booked, Taken, Sums, Known
<1>6. Chained'
  BY <1>0 DEF OInv, Chained, Taken
<1>7. InHand'
  <2>1. /\ pc' = pc /\ cur' = cur /\ Known' = Known /\ Made' = Made
        /\ book'.chasing = book.chasing
        /\ \A o : Fresh(o)' <=> Fresh(o)
    BY <1>0 DEF Taken, Fresh
  <2>2. /\ pc = "add" => cur \in Made \ Known /\ cur[2] = 0
        /\ pc \in Claimed => cur \in Ids /\ book.chasing = cur
        /\ pc \notin Claimed => book.chasing = NoOrder
        /\ pc \in {"cancel", "confirm", "replace"} => Fresh(cur)
        /\ pc \in {"replace", "register"} => cur \in book'.completed /\ cur[2] < MaxChase
        /\ pc = "register" => Next1(cur) \in Made \ Known
        /\ pc \in Claimed => cur \notin todo'
    BY <1>0 DEF OInv, InHand, Taken
  <2>3. ASSUME pc \in Chasing, NEW o \in todo'
        PROVE  Fresh(o) /\ (o \in book'.chase => o \in book'.pending)
    <3>1. o \in todo /\ Fresh(o) /\ (o \in book.chase => o \in book.pending) /\ o \in Ids
      BY <2>3 DEF OInv, Typed, InHand
    <3>2. o # book.chasing
      BY <2>3, <3>1, NoOrderIsNone DEF OInv, InHand
    <3> QED  BY <1>0, <3>1, <3>2 DEF Taken
  <2> QED  BY <2>1, <2>2, <2>3 DEF InHand
<1>8. Batches'
  <2>1. ASSUME NEW s \in Threads, job'[s] = job[s]
        PROVE  Batch(s)'
    BY <1>0, <2>1 DEF OInv, Batches, Batch, Taken, Spread, Child
  <2>2. ASSUME job' # job
        PROVE  Batch(t)' /\ \A s \in Threads : s # t /\ job[s].at # "none" => job[s].of # r.id
    <3>1. \A p \in Made : p[1] = r.id[1] => p[2] <= MaxChase
      <4> SUFFICES ASSUME NEW p \in Made, p[1] = r.id[1], ~(p[2] <= MaxChase)
                   PROVE  FALSE
        OBVIOUS
      <4>1. p \in Ids /\ p[2] \in Nat /\ MaxChase \in 0..MaxChase /\ MaxChase < p[2]
        BY IdFacts, TrackerAssumption DEF Made
      <4>2. <<p[1], MaxChase>> \in book.completed
        BY <4>1 DEF OInv, Chained
      <4>3. r.id = <<p[1], MaxChase>>
        BY <1>0, <1>2, <2>2, IdFacts
      <4> QED  BY <1>2, <2>2, <4>2, <4>3 DEF OInv, Booked
    <3>2. Batch(t)'
      BY <1>0, <1>2, <2>2, <3>1, TrackerAssumption DEF Batch, Spread
    <3>3. \A s \in Threads : job[s].at # "none" => job[s].of # r.id
      BY <1>2, <2>2 DEF OInv, Batches, Batch, Booked
    <3> QED  BY <3>2, <3>3
  <2>3. CASE job' = job
    BY <2>1, <2>3 DEF OInv, Batches
  <2>4. CASE job' # job
    <3>1. \A s \in Threads : Batch(s)'
      BY <1>2, <2>1, <2>2, <2>4
    <3>2. ASSUME NEW x \in Threads, NEW y \in Threads,
                 job'[x].at # "none", job'[x].of = job'[y].of
          PROVE  x = y
      <4>1. \A s \in Threads : job[s].at = "none" => job[s].of = NoOrder
        <5>1. \A s \in Threads : job[s].at = "none" => job[s] = NoJob
          BY DEF OInv, Batches, Batch
        <5> QED  BY <5>1 DEF NoJob
      <4> QED  BY <1>0, <1>2, <2>2, <2>4, <3>2, <4>1, NoOrderIsNone DEF OInv, Batches
    <3> QED  BY <3>1, <3>2 DEF Batches
  <2> QED  BY <2>3, <2>4
<1>9. Room'
  <2>1. N(1)' = N(1) /\ \A l : N(l)' = N(l)
    BY DEF N, AtStake, OrdersOf, Exposure
  <2> QED  BY <1>0, <1>2, <2>1 DEF OInv, Room, Exposure
<1>10. Watched'
  <2> SUFFICES ASSUME NEW o \in Open, o \notin book'.pending, o[1] \notin lost,
                      ~(pc = "add" /\ o = cur), ~(pc = "register" /\ o = Next1(cur))
               PROVE  \E s \in Threads : job'[s].at = "add" /\ o = Child(s)'
    BY DEF Watched, Open
  <2>1. o \notin book.pending
    BY <1>0 DEF Taken, Known, Open, Ends, OInv, Booked
  <2>2. PICK s \in Threads : job[s].at = "add" /\ o = Child(s)
    BY <2>1 DEF OInv, Watched
  <2> QED  BY <1>2, <2>2 DEF Child, NoJob
<1>11. Calm'
  <2>1. ASSUME book'.event
        PROVE  /\ book'.pending = {} /\ book'.submitting = {}
               /\ pc \in Claimed => cur \notin book'.chase
    BY <1>0, <2>1, NoOrderIsNone DEF OInv, Calm, Taken, InHand
  <2>2. ASSUME result = "done"
        PROVE  pc = "end" /\ book'.pending = {} /\ book'.submitting = {}
    BY <1>0, <2>2 DEF OInv, Calm, Taken
  <2> QED  BY <2>1, <2>2 DEF Calm
<1> QED  BY <1>0, <1>3, <1>4, <1>5, <1>6, <1>7, <1>8, <1>9, <1>10, <1>11 DEF Taken

-----------------------------------------------------------------------------
(* The thread of the algorithm goes from one place to another.             *)
LEMMA FreeMeans ==
  ASSUME NEW where, AtWork(where)
  PROVE  pc = where /\ job["waiter"] = NoJob /\ job["waiter"].at = "none"
  BY DEF AtWork, Free, NoJob

LEMMA SaysDone ==
  ASSUME OInv, BeginWait \/ SeeDone, result' = "done", result # "done"
  PROVE  pc' = "end" /\ book.pending = {} /\ book.submitting = {}
<1>1. CASE BeginWait
  BY <1>1 DEF BeginWait, Quiet, Goto
<1>2. CASE SeeDone
  BY <1>2 DEF SeeDone, Goto, OInv, Calm
<1> QED  BY <1>1, <1>2

Strolls ==
    \/ BeginWait \/ SeeDone \/ GiveUp \/ Terminate \/ EndRound \/ Missing \/ EndQuery
    \/ EndSweep \/ Judge \/ \E o \in Ids : Sweep(o)

LEMMA StrollKeeps ==
  ASSUME OInv, Strolls
  PROVE  OInv'
<1> USE DEF Strolls
<1>1. /\ UNCHANGED <<volume, exch, reports, book, job, replay, lost, cur>>
      /\ pc \in Places \ (Chasing \cup {"add", "end"})
      /\ pc' \in Places \ (Chasing \cup {"add"})
  BY DEF BeginWait, SeeDone, GiveUp, Terminate, EndRound, Missing, EndQuery, EndSweep, Judge,
         Sweep, AtWork, Goto, Places, Chasing, Claimed
<1>2. /\ todo' \subseteq Ids /\ failed' \subseteq Ids /\ cancelling' \subseteq Ids
      /\ expired' \in BOOLEAN
      /\ result' \in {"none", "late", "done", "timeout", "error", "terminated"}
  BY DEF OInv, Typed, Book, BeginWait, SeeDone, GiveUp, Terminate, EndRound, Missing, EndQuery,
         EndSweep, Judge, Sweep, Open
<1>3. result' = "done" => pc' = "end" /\ book.pending = {} /\ book.submitting = {}
  <2>1. result # "done"
    BY <1>1 DEF OInv, Calm
  <2>2. CASE BeginWait \/ SeeDone
    BY <2>1, <2>2, SaysDone
  <2>3. CASE ~(BeginWait \/ SeeDone)
    BY <2>1, <2>3 DEF GiveUp, Terminate, EndRound, Missing, EndQuery, EndSweep, Judge, Sweep
  <2> QED  BY <2>2, <2>3
<1>4. Typed'
  BY <1>1, <1>2 DEF OInv, Typed
<1>5. Reported'
  BY <1>1, ReportedSame
<1>6. Booked' /\ Chained' /\ Batches' /\ Room' /\ Watched'
  BY <1>1, Walks DEF Chasing, Claimed
<1>7. InHand'
  BY <1>1 DEF OInv, InHand, Chasing, Claimed
<1>8. Calm'
  BY <1>1, <1>3 DEF OInv, Calm, Chasing
<1> QED  BY <1>4, <1>5, <1>6, <1>7, <1>8 DEF OInv

LEMMA ExpireKeeps ==
  ASSUME OInv, Expire
  PROVE  OInv'
<1> USE DEF Expire, main
<1>1. Typed' /\ Reported'
  <2>1. Typed'
    BY DEF OInv, Typed
  <2> QED  BY <2>1, ReportedSame
<1>2. Booked' /\ Chained' /\ Batches' /\ Room'
  BY BookedStays, BatchesStay, RoomStays DEF OInv, Booked
<1>3. InHand' /\ Watched' /\ Calm'
  BY DEF OInv, InHand, Watched, Calm, Fresh, Known, Made, Open, Child
<1> QED  BY <1>1, <1>2, <1>3 DEF OInv

(* A query that finds orders open gives their reports to the thread.       *)
LEMMA QueryReplays ==
  ASSUME OInv, NEW s \in InSomeOrder(Open)
  PROVE  [i \in DOMAIN s |-> Report(s[i])] \in Seq(HonestReports)
<1>1. IsFiniteSet(Open) /\ Cardinality(Open) \in Nat
  BY IdsAreFinite, FS_Subset, FS_CardinalityType DEF Open
<1>2. s \in [1..Cardinality(Open) -> Open]
  BY DEF InSomeOrder
<1>3. \A o \in Open : Report(o) \in HonestReports
  BY DEF OInv, Typed, Row, Open, Report, HonestReports, Reports, Honest, Made, Ends
<1> QED  BY <1>1, <1>2, <1>3

LEMMA QueryKeeps ==
  ASSUME OInv, Query
  PROVE  OInv'
<1>1. /\ UNCHANGED <<volume, exch, reports, book, job, lost, cur, result, failed, cancelling, expired>>
      /\ pc = "query" /\ pc' \in {"judge", "loop", "missing"} /\ todo' \subseteq Ids
  BY DEF Query, AtWork, Goto, Open, OInv, Typed
<1>2. replay' \in [Threads -> Seq(HonestReports)]
  <2>1. replay \in [Threads -> Seq(HonestReports)]
    BY DEF OInv, Typed, Reported
  <2>2. CASE UNCHANGED replay
    BY <2>1, <2>2
  <2>3. CASE \E s \in InSomeOrder(Open) :
               replay' = [replay EXCEPT !["waiter"] = [i \in DOMAIN s |-> Report(s[i])]]
    BY <2>1, <2>3, QueryReplays
  <2> QED  BY <2>2, <2>3 DEF Query
<1>3. Typed'
  <2>1. replay' \in [Threads -> Seq(Reports)]
    BY <1>2, SeqWider DEF HonestReports
  <2> QED  BY <1>1, <2>1 DEF OInv, Typed, Places
<1>4. Reported'
  <2>1. HonestReports' = HonestReports
    BY <1>1 DEF HonestReports, Honest, Made
  <2> QED  BY <1>1, <1>2, <2>1 DEF OInv, Reported
<1>5. Booked' /\ Chained' /\ Batches' /\ Room' /\ Watched'
  BY <1>1, Walks
<1>6. InHand' /\ Calm'
  BY <1>1 DEF OInv, InHand, Calm, Chasing, Claimed
<1> QED  BY <1>3, <1>4, <1>5, <1>6 DEF OInv

-----------------------------------------------------------------------------
(* Chases.                                                                 *)
LEMMA ChooseChasesKeeps ==
  ASSUME OInv, ChooseChases
  PROVE  OInv'
<1>1. /\ UNCHANGED <<volume, exch, cancelling, reports, book, cur, failed, result, job, replay,
                     expired, lost>>
      /\ pc = "loop" /\ pc' = "chase" /\ todo' \subseteq Chaseable
  BY DEF ChooseChases, AtWork, Goto
<1>2. Typed' /\ Reported'
  <2>1. Typed'
    BY <1>1 DEF OInv, Typed, Chaseable, Places, Chasing, Book
  <2> QED  BY <1>1, <2>1, ReportedSame
<1>3. Booked' /\ Chained' /\ Batches' /\ Room' /\ Watched'
  BY <1>1, Walks
<1>4. InHand'
  <2>1. ASSUME NEW o \in Chaseable PROVE Fresh(o) /\ o \in book.pending
    <3>1. o \in Ids /\ o[2] < MaxChase /\ o \in book.pending
      BY DEF Chaseable, OInv, Typed, Book
    <3>2. Next1(o) \notin Made
      <4> SUFFICES ASSUME Next1(o) \in Made PROVE FALSE
        OBVIOUS
      <4>1. o[2] \in 0..MaxChase /\ o[2] < Next1(o)[2] /\ o = <<Next1(o)[1], o[2]>>
        BY <3>1, IdFacts, TrackerAssumption DEF Next1
      <4>2. o \in book.completed
        BY <4>1 DEF OInv, Chained
      <4> QED  BY <3>1, <4>2 DEF OInv, Booked
    <3> QED  BY <3>1, <3>2 DEF Fresh, Known
  <2> QED  BY <1>1, <2>1 DEF OInv, InHand, Claimed, Fresh, Known, Made
<1>5. Calm'
  BY <1>1 DEF OInv, Calm, Claimed
<1> QED  BY <1>2, <1>3, <1>4, <1>5 DEF OInv

LEMMA SkipChaseKeeps ==
  ASSUME OInv, NEW x \in Ids, SkipChase(x)
  PROVE  OInv'
<1>1. /\ UNCHANGED <<volume, exch, cancelling, reports, book, pc, cur, failed, result, job,
                     replay, expired, lost>>
      /\ pc = "chase" /\ todo' \subseteq todo
  BY DEF SkipChase, AtWork
<1>2. Typed' /\ Reported'
  <2>1. Typed'
    BY <1>1 DEF OInv, Typed
  <2> QED  BY <1>1, <2>1, ReportedSame
<1>3. Booked' /\ Chained' /\ Batches' /\ Room' /\ Watched'
  BY <1>1, Walks
<1>4. InHand' /\ Calm'
  BY <1>1 DEF OInv, InHand, Calm, Claimed, Fresh, Known, Made
<1> QED  BY <1>2, <1>3, <1>4 DEF OInv

LEMMA ConfirmKeeps ==
  ASSUME OInv, Confirm
  PROVE  OInv'
<1>1. /\ UNCHANGED <<volume, exch, cancelling, reports, book, todo, cur, failed, result, job,
                     replay, expired, lost>>
      /\ pc = "confirm" /\ pc' = IF cur \in book.pending THEN "unclaim" ELSE "replace"
  BY DEF Confirm, AtWork, Goto
<1>2. Typed' /\ Reported'
  <2>1. Typed'
    BY <1>1 DEF OInv, Typed, Places, Chasing, Claimed
  <2> QED  BY <1>1, <2>1, ReportedSame
<1>3. Booked' /\ Chained' /\ Batches' /\ Room' /\ Watched'
  BY <1>1, Walks
<1>4. InHand' /\ Calm'
  BY <1>1 DEF OInv, InHand, Calm, Claimed, Chasing, Fresh, Known, Made
<1> QED  BY <1>2, <1>3, <1>4 DEF OInv

-----------------------------------------------------------------------------
(* Reports, as they come, as they were kept, and as they are asked for.    *)
LEMMA SeqEnds ==
  ASSUME NEW S, NEW s \in Seq(S), s # <<>>
  PROVE  Head(s) \in S /\ Tail(s) \in Seq(S)
  OBVIOUS

LEMMA DeliverKeeps ==
  ASSUME OInv, Deliver
  PROVE  OInv'
<1> DEFINE r == Head(reports)
<1>1. /\ UNCHANGED <<volume, exch, cancelling, pc, todo, cur, failed, result, replay, expired, lost>>
      /\ job["callback"] = NoJob /\ reports # <<>> /\ reports' = Tail(reports)
      /\ book' = OnReport(book, r) /\ job' = JobOf("callback", r)
  BY DEF Deliver, Free, main
<1>2. r \in HonestReports /\ reports' \in Seq(HonestReports)
  BY <1>1, SeqEnds DEF OInv, Reported
<1> HIDE DEF r
<1>3. /\ book' \in Book /\ job' \in [Threads -> Job]
      /\ \A o \in Ids : book'.early[o] \in Seq({q \in HonestReports' : q.id = o})
      /\ Booked' /\ Chained' /\ InHand' /\ Batches' /\ Room' /\ Watched' /\ Calm'
  BY <1>1, <1>2, ReportKeeps, "callback" \in Threads DEF Threads
<1>4. HonestReports' = HonestReports
  <2>1. \A q \in Reports : Honest(q)' <=> Honest(q)
    BY <1>1 DEF Honest, Made
  <2> QED  BY <2>1 DEF HonestReports
<1>5. Typed'
  <2>1. reports' \in Seq(Reports)
    BY <1>2, SeqWider DEF HonestReports
  <2> QED  BY <1>1, <1>3, <2>1 DEF OInv, Typed
<1>6. Reported'
  BY <1>1, <1>2, <1>3, <1>4 DEF OInv, Reported
<1> QED  BY <1>3, <1>5, <1>6 DEF OInv

LEMMA ReplayKeeps ==
  ASSUME OInv, NEW t \in Threads, Replay(t)
  PROVE  OInv'
<1> DEFINE r == Head(replay[t])
<1>1. /\ UNCHANGED <<volume, exch, cancelling, reports, pc, todo, cur, failed, result, expired, lost>>
      /\ replay[t] # <<>> /\ replay' = [replay EXCEPT ![t] = Tail(@)]
      /\ book' = OnReport(book, r)
      /\ job' = job \/ (job[t] = NoJob /\ job' = JobOf(t, r))
  BY DEF Replay, main
<1>2. r \in HonestReports /\ replay' \in [Threads -> Seq(HonestReports)]
  <2>1. replay \in [Threads -> Seq(HonestReports)]
    BY DEF OInv, Typed, Reported
  <2>2. Head(replay[t]) \in HonestReports /\ Tail(replay[t]) \in Seq(HonestReports)
    BY <1>1, <2>1, SeqEnds
  <2> QED  BY <1>1, <2>1, <2>2
<1> HIDE DEF r
<1>3. /\ book' \in Book /\ job' \in [Threads -> Job]
      /\ \A o \in Ids : book'.early[o] \in Seq({q \in HonestReports' : q.id = o})
      /\ Booked' /\ Chained' /\ InHand' /\ Batches' /\ Room' /\ Watched' /\ Calm'
  BY <1>1, <1>2, ReportKeeps
<1>4. HonestReports' = HonestReports
  <2>1. \A q \in Reports : Honest(q)' <=> Honest(q)
    BY <1>1 DEF Honest, Made
  <2> QED  BY <2>1 DEF HonestReports
<1>5. Typed'
  <2>1. replay' \in [Threads -> Seq(Reports)]
    BY <1>2, SeqWider DEF HonestReports
  <2> QED  BY <1>1, <1>3, <2>1 DEF OInv, Typed
<1>6. Reported'
  BY <1>1, <1>2, <1>3, <1>4 DEF OInv, Reported
<1> QED  BY <1>3, <1>5, <1>6 DEF OInv

LEMMA ReconcileKeeps ==
  ASSUME OInv, NEW x \in Ids, Reconcile(x)
  PROVE  OInv'
<1>1. /\ UNCHANGED <<volume, exch, cancelling, reports, pc, cur, failed, result, replay, expired, lost>>
      /\ pc = "reconcile" /\ todo' \subseteq todo /\ job["waiter"] = NoJob
  BY DEF Reconcile, AtWork, Free
<1>2. CASE UNCHANGED <<book, job>>
  <2>1. Typed' /\ Reported'
    <3>1. Typed'
      BY <1>1, <1>2 DEF OInv, Typed
    <3> QED  BY <1>1, <1>2, <3>1, ReportedSame
  <2>2. Booked' /\ Chained' /\ Batches' /\ Room' /\ Watched'
    BY <1>1, <1>2, Walks
  <2>3. InHand' /\ Calm'
    BY <1>1, <1>2 DEF OInv, InHand, Calm, Claimed, Chasing
  <2> QED  BY <2>1, <2>2, <2>3 DEF OInv
<1>3. CASE /\ exch[x].st \in Ends
           /\ book' = OnReport(book, Report(x)) /\ job' = JobOf("waiter", Report(x))
  <2>1. Report(x) \in HonestReports
    BY <1>3, TrackerAssumption DEF OInv, Typed, Row, Report, HonestReports, Reports, Honest, Made, Ends
  <2>2. /\ book' \in Book /\ job' \in [Threads -> Job]
        /\ \A o \in Ids : book'.early[o] \in Seq({q \in HonestReports' : q.id = o})
        /\ Booked' /\ Chained' /\ InHand' /\ Batches' /\ Room' /\ Watched' /\ Calm'
    BY <1>1, <1>3, <2>1, ReportKeeps, "waiter" \in Threads DEF Threads
  <2>3. HonestReports' = HonestReports
    <3>1. \A q \in Reports : Honest(q)' <=> Honest(q)
      BY <1>1 DEF Honest, Made
    <3> QED  BY <3>1 DEF HonestReports
  <2>4. Typed' /\ Reported'
    BY <1>1, <2>2, <2>3 DEF OInv, Typed, Reported
  <2> QED  BY <2>2, <2>4 DEF OInv
<1> QED  BY <1>2, <1>3 DEF Reconcile

-----------------------------------------------------------------------------
(* A chase: the order is claimed, cancelled, confirmed and replaced.       *)
LEMMA ClaimKeeps ==
  ASSUME OInv, NEW x \in Ids, Claim(x)
  PROVE  OInv'
<1>1. /\ UNCHANGED <<volume, exch, cancelling, reports, failed, result, job, replay, expired, lost>>
      /\ pc = "chase" /\ pc' = "cancel" /\ x \in todo /\ cur' = x /\ todo' = todo \ {x}
  BY DEF Claim, AtWork, Goto
<1>2. /\ book' \in Book /\ book'.chasing = x
      /\ UNCHANGED <<book.pending, book.completed, book.filled, book.chase, book.leaving,
                     book.submitting, book.started, book.event, book.early>>
  BY DEF Claim, OInv, Typed, Book
<1>3. Typed' /\ Reported'
  <2>1. Typed'
    BY <1>1, <1>2 DEF OInv, Typed, Places, Chasing, Claimed
  <2> QED  BY <1>1, <1>2, <2>1, ReportedSame
<1>4. Booked' /\ Chained' /\ Batches' /\ Room' /\ Watched'
  BY <1>1, <1>2, BookedStays, BatchesStay, RoomStays, WatchedStays DEF OInv, Booked
<1>5. InHand'
  BY <1>1, <1>2 DEF OInv, InHand, Chasing, Claimed, Fresh, Known, Made
<1>6. Calm'
  BY <1>1, <1>2 DEF OInv, Calm, InHand, Chasing
<1> QED  BY <1>3, <1>4, <1>5, <1>6 DEF OInv

(* A chase that is over, or given up.                                      *)
LEMMA UnclaimKeeps ==
  ASSUME OInv, Unclaim, pc \in Claimed \ {"register"}, cancelling' \subseteq Ids,
         UNCHANGED <<volume, exch, reports, todo, cur, failed, result, job, replay,
                     expired, lost>>
  PROVE  OInv'
<1>1. pc' = "chase"
  BY DEF Unclaim, Goto
<1>2. /\ book' \in Book /\ book'.chasing = NoOrder
      /\ UNCHANGED <<book.pending, book.completed, book.filled, book.chase, book.leaving,
                     book.submitting, book.started, book.event, book.early>>
  BY DEF Unclaim, OInv, Typed, Book
<1>3. Typed' /\ Reported'
  <2>1. Typed'
    BY <1>1, <1>2 DEF OInv, Typed, Places, Chasing, Claimed
  <2> QED  BY <1>1, <1>2, <2>1, ReportedSame
<1>4. Booked' /\ Chained' /\ Batches' /\ Room' /\ Watched'
  BY <1>1, <1>2, BookedStays, BatchesStay, RoomStays, WatchedStays DEF OInv, Booked, Claimed
<1>5. InHand' /\ Calm'
  BY <1>1, <1>2 DEF OInv, InHand, Calm, Chasing, Claimed, Fresh, Known, Made
<1> QED  BY <1>3, <1>4, <1>5 DEF OInv

LEMMA CancelKeeps ==
  ASSUME OInv, Cancel
  PROVE  OInv'
<1>1. /\ UNCHANGED <<volume, exch, reports, todo, cur, failed, result, job, replay, expired, lost>>
      /\ pc = "cancel" /\ cancelling' \subseteq Ids
  BY DEF Cancel, AtWork, Open, OInv, Typed
<1>2. CASE Unclaim
  BY <1>1, <1>2, UnclaimKeeps DEF Claimed
<1>3. CASE pc' = "confirm" /\ UNCHANGED book
  <2>1. Typed' /\ Reported'
    <3>1. Typed'
      BY <1>1, <1>3 DEF OInv, Typed, Places, Chasing, Claimed
    <3> QED  BY <1>1, <1>3, <3>1, ReportedSame
  <2>2. Booked' /\ Chained' /\ Batches' /\ Room' /\ Watched'
    BY <1>1, <1>3, Walks
  <2>3. InHand' /\ Calm'
    BY <1>1, <1>3 DEF OInv, InHand, Calm, Chasing, Claimed, Fresh, Known, Made
  <2> QED  BY <2>1, <2>2, <2>3 DEF OInv
<1> QED  BY <1>2, <1>3 DEF Cancel, Goto

LEMMA DropKeeps ==
  ASSUME OInv, Drop
  PROVE  OInv'
<1>1. pc = "unclaim" /\ cancelling' \subseteq Ids
  BY DEF Drop, AtWork, OInv, Typed
<1> QED  BY <1>1, UnclaimKeeps DEF Drop, Claimed

(* The replacement is registered, if its order still has its context.      *)
LEMMA RegisterKeeps ==
  ASSUME OInv, Register
  PROVE  OInv'
<1> DEFINE n == Next1(cur)
<1>1. /\ UNCHANGED <<volume, exch, cancelling, reports, todo, cur, failed, result, job, replay, expired>>
      /\ pc = "register" /\ pc' = "unclaim" /\ cur \in Ids
  BY DEF Register, AtWork, Goto, OInv, InHand, Claimed
<1>2. /\ cur \in book.completed /\ cur \notin book.pending /\ cur[2] < MaxChase
      /\ n \in Ids /\ n[1] = cur[1] /\ n[2] = cur[2] + 1 /\ n \in Made \ Known
  BY <1>1, IdFacts DEF OInv, InHand, Booked
<1>3. cur[1] \in Lines /\ n[2] <= MaxChase
  BY <1>1, <1>2, IdFacts, TrackerAssumption
<1> HIDE DEF n
<1>4. CASE cur \notin book.chase /\ lost' = lost \cup {cur[1]} /\ UNCHANGED book
  <2>1. Typed' /\ Reported'
    <3>1. Typed'
      BY <1>1, <1>3, <1>4 DEF OInv, Typed, Places, Chasing, Claimed
    <3> QED  BY <1>1, <1>4, <3>1, ReportedSame
  <2>2. Booked' /\ Chained' /\ Batches' /\ Room'
    BY <1>1, <1>4, BookedStays, BatchesStay, RoomStays DEF OInv, Booked
  <2>3. Watched'
    BY <1>1, <1>2, <1>4 DEF OInv, Watched, Open, Child, n
  <2>4. InHand' /\ Calm'
    BY <1>1, <1>4 DEF OInv, InHand, Calm, Chasing, Claimed, Fresh, Known, Made
  <2> QED  BY <2>1, <2>2, <2>3, <2>4 DEF OInv
<1>5. CASE /\ cur \in book.chase /\ UNCHANGED lost
           /\ book' = [book EXCEPT !.pending = (@ \ {cur}) \cup {n},
                                   !.chase = (@ \ {cur}) \cup {n}]
  <2> DEFINE pe == (book.pending \ {cur}) \cup {n}
             ch == (book.chase \ {cur}) \cup {n}
  <2>1. pe \subseteq Ids /\ ch \subseteq Ids /\ book \in Book
    BY <1>2 DEF OInv, Typed, Book
  <2>2. book' = [book EXCEPT !.pending = pe, !.chase = ch]
    BY <1>5
  <2> HIDE DEF pe, ch
  <2>3. /\ book' \in Book /\ book'.pending = pe /\ book'.chase = ch
        /\ UNCHANGED <<book.completed, book.filled, book.leaving, book.chasing,
                       book.submitting, book.started, book.event, book.early>>
    BY <2>1, <2>2 DEF Book
  <2>4. pe = book.pending \cup {n} /\ Known' = Known \cup {n} /\ Made' = Made
    BY <1>1, <1>2, <2>3 DEF pe, Known, Made
  <2>5. Typed' /\ Reported'
    <3>1. Typed'
      BY <1>1, <1>5, <2>3 DEF OInv, Typed, Places, Chasing, Claimed
    <3> QED  BY <1>1, <2>3, <3>1, ReportedSame
  <2>6. Booked'
    BY <1>1, <1>2, <1>3, <2>3, <2>4 DEF OInv, Booked, Sums, ch, Known
  <2>7. Chained'
    BY <1>1, <2>3, <2>4 DEF OInv, Chained
  <2>8. Batches'
    <3>1. \A t \in Threads : job[t].at = "add" => Child(t) # n
      <4> SUFFICES ASSUME NEW t \in Threads, job[t].at = "add", Child(t) = n PROVE FALSE
        OBVIOUS
      <4>1. Child(t)[2] = MaxChase + job[t].next + 1 /\ job[t].next \in Nat
        BY TrackerAssumption DEF Child, OInv, Typed, Job
      <4> QED  BY <1>3, <4>1, TrackerAssumption
    <3> QED  BY <1>1, <2>3, <2>4, <3>1 DEF OInv, Batches, Batch, Spread, Child
  <2>9. Room'
    BY <1>1, RoomStays
  <2>10. Watched'
    BY <1>1, <1>2, <1>5, <2>3, <2>4 DEF OInv, Watched, Open, Child, n
  <2>11. InHand'
    BY <1>1, <1>2, <2>3, <2>4 DEF OInv, InHand, Chasing, Claimed, Fresh, ch
  <2>12. Calm'
    BY <1>1, <1>5, <2>3 DEF OInv, Calm, Claimed
  <2> QED  BY <2>5, <2>6, <2>7, <2>8, <2>9, <2>10, <2>11, <2>12 DEF OInv
<1> QED  BY <1>4, <1>5 DEF Register, n

-----------------------------------------------------------------------------
(* Orders on their way to the market.                                      *)
LEMMA ChooseFallbacksKeeps ==
  ASSUME OInv, ChooseFallbacks
  PROVE  OInv'
<1>1. /\ UNCHANGED <<volume, exch, cancelling, reports, cur, failed, result, job, replay, expired, lost>>
      /\ pc = "chase" /\ pc' = "fallback" /\ todo' = Spent
  BY DEF ChooseFallbacks, AtWork, Goto
<1>2. /\ Spent \subseteq Ids
      /\ \A o \in Spent : o[2] = MaxChase
  BY IdFacts, TrackerAssumption DEF Spent, OInv, Typed, Book, Booked
<1>3. /\ book' \in Book /\ book'.leaving = book.leaving \cup Spent
      /\ UNCHANGED <<book.pending, book.completed, book.filled, book.chase, book.chasing,
                     book.submitting, book.started, book.event, book.early>>
  BY <1>2 DEF ChooseFallbacks, OInv, Typed, Book
<1>4. Typed' /\ Reported'
  <2>1. Typed'
    BY <1>1, <1>2, <1>3 DEF OInv, Typed, Places
  <2> QED  BY <1>1, <1>3, <2>1, ReportedSame
<1>5. Booked' /\ Chained' /\ Batches' /\ Room' /\ Watched'
  BY <1>1, <1>2, <1>3, BookedStays, BatchesStay, RoomStays, WatchedStays DEF OInv, Booked
<1>6. InHand' /\ Calm'
  BY <1>1, <1>3 DEF OInv, InHand, Calm, Chasing, Claimed
<1> QED  BY <1>4, <1>5, <1>6 DEF OInv

LEMMA AskFallbackKeeps ==
  ASSUME OInv, NEW x \in Ids, AskFallback(x)
  PROVE  OInv'
<1>1. /\ UNCHANGED <<volume, exch, reports, pc, cur, failed, result, job, replay, expired, lost>>
      /\ pc = "fallback" /\ todo' \subseteq Ids /\ cancelling' \subseteq Ids
  BY DEF AskFallback, AtWork, OInv, Typed, Open
<1>2. /\ book' \in Book /\ book'.chase \subseteq book.chase /\ book'.leaving \subseteq book.leaving
      /\ UNCHANGED <<book.pending, book.completed, book.filled, book.chasing,
                     book.submitting, book.started, book.event, book.early>>
  <2>0. book \in Book
    BY DEF OInv, Typed
  <2>1. CASE UNCHANGED book
    BY <2>0, <2>1
  <2>2. CASE book' = [book EXCEPT !.chase = @ \ {x}]
    BY <2>0, <2>2 DEF Book
  <2>3. CASE book' = Given(book, x) /\ x \in book.chase
    <3> DEFINE gi == book.given \cup {x}
               le == book.leaving \ {x}
    <3>1. gi \subseteq Ids /\ le \subseteq Ids
      BY <2>0 DEF Book
    <3>2. book' = [book EXCEPT !.given = gi, !.leaving = le]
      BY <2>3 DEF Given
    <3> HIDE DEF gi, le
    <3>3. /\ book' \in Book /\ book'.chase = book.chase /\ book'.leaving = le
          /\ UNCHANGED <<book.pending, book.completed, book.filled, book.chasing,
                         book.submitting, book.started, book.event, book.early>>
      BY <2>0, <3>1, <3>2 DEF Book
    <3> QED  BY <3>3 DEF le
  <2>4. CASE book' = Given(book, x) /\ x \notin book.chase
    <3>1. book' = [book EXCEPT !.given = book.given, !.leaving = book.leaving]
      BY <2>4 DEF Given
    <3> QED  BY <2>0, <3>1 DEF Book
  <2> QED  BY <2>1, <2>2, <2>3, <2>4 DEF AskFallback
<1>3. Typed' /\ Reported'
  <2>1. Typed'
    BY <1>1, <1>2 DEF OInv, Typed
  <2> QED  BY <1>1, <1>2, <2>1, ReportedSame
<1>4. Booked' /\ Chained' /\ Batches' /\ Room' /\ Watched'
  BY <1>1, <1>2, BookedStays, BatchesStay, RoomStays, WatchedStays DEF OInv, Booked
<1>5. InHand' /\ Calm'
  BY <1>1, <1>2 DEF OInv, InHand, Calm, Chasing, Claimed
<1> QED  BY <1>3, <1>4, <1>5 DEF OInv

-----------------------------------------------------------------------------
(* An order is registered: it is waited for, and its early reports come    *)
(* back to the thread.                                                     *)
LEMMA AddedFields ==
  ASSUME NEW b \in Book, NEW o \in Ids, NEW chased \in BOOLEAN
  PROVE  LET c == Added(b, o, chased)
         IN  /\ c \in Book
             /\ c.pending = b.pending \cup {o} /\ c.completed = b.completed
             /\ c.filled = b.filled /\ c.chase = (IF chased THEN b.chase \cup {o} ELSE b.chase)
             /\ c.leaving = b.leaving /\ c.chasing = b.chasing
             /\ c.submitting = b.submitting /\ c.started = b.started /\ ~c.event
             /\ c.early = [b.early EXCEPT ![o] = <<>>]
<1> DEFINE pe == b.pending \cup {o}
           ch == IF chased THEN b.chase \cup {o} ELSE b.chase
           ea == [b.early EXCEPT ![o] = <<>>]
<1>1. pe \subseteq Ids /\ ch \subseteq Ids /\ ea \in [Ids -> Seq(Reports)]
  BY DEF Book
<1>2. Added(b, o, chased) = [b EXCEPT !.pending = pe, !.event = FALSE, !.chase = ch, !.early = ea]
  BY DEF Added
<1> HIDE DEF pe, ch, ea
<1>3. LET c == Added(b, o, chased)
      IN  /\ c \in Book
          /\ c.pending = pe /\ c.completed = b.completed
          /\ c.filled = b.filled /\ c.chase = ch
          /\ c.leaving = b.leaving /\ c.chasing = b.chasing
          /\ c.submitting = b.submitting /\ c.started = b.started /\ ~c.event
          /\ c.early = ea
  BY <1>1, <1>2 DEF Book
<1> QED  BY <1>3 DEF pe, ch, ea

LEMMA AddedReports ==
  ASSUME OInv, NEW o \in Ids, NEW t \in Threads, UNCHANGED <<exch, reports>>,
         book'.early = [book.early EXCEPT ![o] = <<>>],
         replay' = [replay EXCEPT ![t] = EarlyOf(o)]
  PROVE  Reported' /\ replay' \in [Threads -> Seq(Reports)]
<1>1. HonestReports' = HonestReports
  <2>1. \A q \in Reports : Honest(q)' <=> Honest(q)
    BY DEF Honest, Made
  <2> QED  BY <2>1 DEF HonestReports
<1>2. /\ reports \in Seq(HonestReports) /\ replay \in [Threads -> Seq(HonestReports)]
      /\ book.early \in [Ids -> Seq(Reports)]
      /\ \A p \in Ids : book.early[p] \in Seq({r \in HonestReports : r.id = p})
  BY DEF OInv, Reported, Typed, Book
<1>3. book.early[o] \in Seq(HonestReports)
  <2>1. {r \in HonestReports : r.id = o} \subseteq HonestReports
    OBVIOUS
  <2> QED  BY <1>2, <2>1, SeqWider
<1>4. replay' \in [Threads -> Seq(HonestReports)]
  BY <1>2, <1>3 DEF EarlyOf
<1>5. ASSUME NEW p \in Ids
      PROVE  book'.early[p] \in Seq({r \in HonestReports : r.id = p})
  <2>1. CASE p = o
    BY <1>2, <2>1
  <2>2. CASE p # o
    BY <1>2, <2>2
  <2> QED  BY <2>1, <2>2
<1>6. replay' \in [Threads -> Seq(Reports)]
  BY <1>4, SeqWider DEF HonestReports
<1> QED  BY <1>1, <1>2, <1>4, <1>5, <1>6 DEF Reported

LEMMA AddKeeps ==
  ASSUME OInv, Add
  PROVE  OInv'
<1>1. /\ UNCHANGED <<volume, exch, cancelling, reports, todo, cur, failed, result, job, expired, lost>>
      /\ pc = "add" /\ pc' = "submit"
      /\ replay' = [replay EXCEPT !["waiter"] = EarlyOf(cur)]
      /\ book' = Added(book, cur, TRUE)
  BY DEF Add, AtWork, Goto
<1>2. /\ cur \in Ids /\ cur \in Made \ Known /\ cur[2] = 0 /\ job["waiter"].at = "none"
  BY <1>1, FreeMeans DEF Add, OInv, InHand, Made
<1>3. /\ book' \in Book
      /\ book'.pending = book.pending \cup {cur} /\ book'.chase = book.chase \cup {cur}
      /\ UNCHANGED <<book.completed, book.filled, book.leaving, book.chasing,
                     book.submitting, book.started>>
      /\ ~book'.event /\ book'.early = [book.early EXCEPT ![cur] = <<>>]
  BY <1>1, <1>2, AddedFields DEF OInv, Typed
<1>4. Known' = Known \cup {cur} /\ Made' = Made
  BY <1>1, <1>3 DEF Known, Made
<1>5. Reported' /\ replay' \in [Threads -> Seq(Reports)]
  BY <1>1, <1>2, <1>3, AddedReports DEF Threads
<1>6. Typed'
  BY <1>1, <1>3, <1>5 DEF OInv, Typed, Places
<1>7. Booked' /\ Chained'
  <2>1. Booked'
    <3>1. \A o \in Ids : Sums(o)' /\ book'.filled[o] <= exch'[o].filled
      BY <1>1, <1>3 DEF OInv, Booked, Sums
    <3>2. Known' \subseteq Made' /\ book'.pending \cap book'.completed = {}
      BY <1>2, <1>3, <1>4 DEF OInv, Booked, Known
    <3>3. \A o \in book'.completed : exch'[o].st \in Ends /\ book'.filled[o] = exch'[o].filled
      BY <1>1, <1>3 DEF OInv, Booked
    <3>4. \A o \in book'.chase : o[2] <= MaxChase
      BY <1>2, <1>3, TrackerAssumption DEF OInv, Booked
    <3>5. \A o \in book'.leaving : o[2] = MaxChase
      BY <1>3 DEF OInv, Booked
    <3> QED  BY <3>1, <3>2, <3>3, <3>4, <3>5 DEF Booked
  <2> QED  BY <1>1, <1>3, <1>4, <2>1 DEF OInv, Chained
<1>8. Batches'
  <2>1. ASSUME NEW t \in Threads, job[t].at = "add", Child(t) = cur PROVE FALSE
    <3>1. Child(t)[2] = MaxChase + job[t].next + 1 /\ job[t].next \in Nat
      BY TrackerAssumption DEF Child, OInv, Typed, Job
    <3> QED  BY <1>2, <2>1, <3>1, TrackerAssumption
  <2> QED  BY <1>1, <1>3, <1>4, <2>1 DEF OInv, Batches, Batch, Spread, Child
<1>9. Room'
  BY <1>1, RoomStays
<1>10. Watched'
  <2> SUFFICES ASSUME NEW o \in Open, o \notin book.pending, o # cur, o[1] \notin lost
               PROVE  \E t \in Threads : job[t].at = "add" /\ o = Child(t)
    <3>1. Open' = Open /\ \A t \in Threads : Child(t)' = Child(t)
      BY <1>1 DEF Open, Child
    <3> QED  BY <1>1, <1>3, <3>1 DEF Watched
  <2> QED  BY <1>1 DEF OInv, Watched
<1>11. InHand' /\ Calm'
  BY <1>1, <1>3 DEF OInv, InHand, Calm, Chasing, Claimed
<1> QED  BY <1>5, <1>6, <1>7, <1>8, <1>9, <1>10, <1>11 DEF OInv

-----------------------------------------------------------------------------
(* The exchange.  An order that moves there takes its reports, its place   *)
(* in the chain and the room of its line along.                            *)
LEMMA OrderMoves ==
  ASSUME OInv, NEW o \in Ids, exch[o].st = "open",
         NEW row \in Row, exch' = [exch EXCEPT ![o] = row],
         row.st # "none", row.vol = exch[o].vol,
         row.filled >= exch[o].filled, row.filled <= row.vol,
         row.st = "open" => row.filled < row.vol,
         UNCHANGED <<volume, cancelling, book, main, job, replay, expired, lost>>
  PROVE  /\ (exch \in [Ids -> Row])' /\ Onward
         /\ Booked' /\ Chained' /\ InHand' /\ Batches' /\ Room' /\ Watched' /\ Calm'
<1> USE DEF main
<1>1. /\ exch \in [Ids -> Row] /\ exch' \in [Ids -> Row] /\ exch'[o] = row
      /\ \A p \in Ids : p # o => exch'[p] = exch[p]
  BY DEF OInv, Typed
<1>2. /\ exch[o].filled \in Nat /\ row.filled \in Nat /\ row.vol \in Nat
      /\ \A p \in Ids : book.filled[p] \in Nat /\ exch[p].filled \in Nat
  BY <1>1, TrackerAssumption DEF Row, OInv, Typed, Book
<1>3. Onward /\ Made' = Made
  BY <1>1, <1>2 DEF Onward, Made, Ends
<1>4. o \notin book.completed
  BY DEF OInv, Booked, Ends
<1>5. Booked'
  <2>1. \A p \in Ids : Sums(p)' /\ book.filled[p] <= exch'[p].filled
    BY <1>1, <1>2 DEF OInv, Booked, Sums
  <2>2. \A p \in book.completed : exch'[p].st \in Ends /\ book.filled[p] = exch'[p].filled
    BY <1>1, <1>4 DEF OInv, Booked, Known, Made
  <2> QED  BY <1>3, <2>1, <2>2 DEF OInv, Booked, Known
<1>6. Chained' /\ InHand' /\ Batches' /\ Calm'
  BY <1>3 DEF OInv, Chained, InHand, Batches, Batch, Spread, Child, Calm, Fresh, Known
<1>7. Watched'
  <2>1. Open' \subseteq Open
    BY <1>1 DEF Open
  <2> QED  BY <2>1 DEF OInv, Watched, Child
<1>8. Room'
  <2>1. /\ N(o[1])' + Exposure(o) = N(o[1]) + Exposure(o)'
        /\ \A l \in Lines : l # o[1] => N(l)' = N(l)
        /\ \A p \in Ids : p # o => Exposure(p)' = Exposure(p)
        /\ \A l \in Lines : N(l) \in Nat /\ N(l)' \in Nat
        /\ Exposure(o) \in Nat /\ Exposure(o)' \in Nat
    BY <1>1, RoomMoves
  <2>2. Exposure(o)' <= Exposure(o) /\ exch'[o].vol = exch[o].vol
    BY <1>1, <1>2 DEF Exposure
  <2>3. \A l \in Lines : N(l)' <= N(l)
    BY <2>1, <2>2
  <2>4. /\ \A l \in Lines : volume[l] \in Nat
        /\ \A p \in Made : /\ p \in Ids /\ p[1] \in Lines /\ exch[p].vol \in Nat
                           /\ Exposure(p) \in Nat /\ Exposure(p)' \in Nat
        /\ \A t \in Threads : job[t].left \in Nat
    <3>1. \A l \in Lines : volume[l] \in Nat
      BY TrackerAssumption DEF OInv, Typed
    <3>2. \A p \in Made : /\ p \in Ids /\ p[1] \in Lines /\ exch[p].vol \in Nat
                          /\ Exposure(p) \in Nat /\ Exposure(p)' \in Nat
      BY <1>1, IdFacts, TrackerAssumption DEF Made, Row, Exposure
    <3>3. \A t \in Threads : job[t].left \in Nat
      BY TrackerAssumption DEF OInv, Typed, Job
    <3> QED  BY <3>1, <3>2, <3>3
  <2>5. \A l \in Lines : N(l)' <= volume[l]
    BY <2>1, <2>3, <2>4 DEF OInv, Room
  <2>6. ASSUME NEW p \in Made, p[2] <= MaxChase, Next1(p) \notin Made
        PROVE  N(p[1])' + exch'[p].vol - Exposure(p)' <= volume[p[1]]
    <3>1. N(p[1]) + exch[p].vol - Exposure(p) <= volume[p[1]]
      BY <2>6 DEF OInv, Room
    <3>2. CASE p = o
      BY <2>1, <2>2, <2>4, <3>1, <3>2
    <3>3. CASE p # o
      <4>1. exch'[p].vol = exch[p].vol /\ Exposure(p)' = Exposure(p)
        BY <1>1, <2>1, <2>4, <3>3
      <4>2. p[1] \in Lines /\ N(p[1])' <= N(p[1]) /\ N(p[1]) \in Nat /\ N(p[1])' \in Nat
        BY <2>1, <2>3, <2>4
      <4> QED  BY <2>4, <3>1, <4>1, <4>2
    <3> QED  BY <3>2, <3>3
  <2>7. ASSUME NEW t \in Threads, job[t].at \in {"place", "add"}
        PROVE  N(job[t].of[1])' + job[t].left <= volume[job[t].of[1]]
    <3>1. N(job[t].of[1]) + job[t].left <= volume[job[t].of[1]]
      BY <2>7 DEF OInv, Room
    <3>2. job[t].of[1] \in Lines
      BY <2>4, <2>7 DEF OInv, Batches, Batch, Booked, Known
    <3> QED  BY <2>1, <2>3, <2>4, <3>1, <3>2
  <2> QED  BY <1>3, <2>5, <2>6, <2>7 DEF Room
<1> QED  BY <1>1, <1>3, <1>5, <1>6, <1>7, <1>8

LEMMA ExchangeKeeps ==
  ASSUME OInv, NEW o \in Ids, exch[o].st = "open",
         NEW row \in Row, exch' = [exch EXCEPT ![o] = row],
         row.st # "none", row.vol = exch[o].vol,
         row.filled >= exch[o].filled, row.filled <= row.vol,
         row.st = "open" => row.filled < row.vol,
         UNCHANGED <<volume, cancelling, book, main, job, replay, expired, lost>>,
         reports' = Append(reports, [id |-> o, st |-> row.st, filled |-> row.filled])
  PROVE  OInv'
<1>1. /\ exch' \in [Ids -> Row] /\ Onward /\ exch'[o] = row
      /\ Booked' /\ Chained' /\ InHand' /\ Batches' /\ Room' /\ Watched' /\ Calm'
  BY OrderMoves DEF OInv, Typed
<1>2. HonestReports \subseteq HonestReports' /\ Made \subseteq Made'
  BY <1>1, HonestStay DEF OInv, Typed
<1> DEFINE r == [id |-> o, st |-> row.st, filled |-> row.filled]
<1>3. r \in HonestReports'
  <2>1. r \in Reports
    BY DEF Reports, Row
  <2>2. r.id = o /\ r.st = row.st /\ r.filled = row.filled
    OBVIOUS
  <2>3. o \in Made' /\ row.filled <= row.filled
    BY <1>1, TrackerAssumption DEF Made, Row
  <2> HIDE DEF r
  <2>4. Honest(r)'
    BY <1>1, <2>2, <2>3 DEF Honest
  <2> QED  BY <2>1, <2>4 DEF HonestReports
<1> HIDE DEF r
<1>4. reports' = Append(reports, r)
  BY DEF r
<1>5. reports' \in Seq(HonestReports')
  <2>1. reports \in Seq(HonestReports')
    BY <1>2, SeqWider DEF OInv, Reported
  <2> QED  BY <1>3, <1>4, <2>1
<1>6. Reported'
  <2>1. ASSUME NEW p \in Ids
        PROVE  book.early[p] \in Seq({q \in HonestReports' : q.id = p})
    <3>1. {q \in HonestReports : q.id = p} \subseteq {q \in HonestReports' : q.id = p}
      BY <1>2
    <3>2. book.early[p] \in Seq({q \in HonestReports : q.id = p})
      BY DEF OInv, Reported
    <3> QED  BY <3>1, <3>2, SeqWider
  <2>2. \A t \in Threads : replay[t] \in Seq(HonestReports')
    BY <1>2, SeqWider DEF OInv, Reported
  <2> QED  BY <1>5, <2>1, <2>2 DEF Reported
<1>7. Typed'
  <2>1. reports' \in Seq(Reports)
    BY <1>5, SeqWider DEF HonestReports
  <2> QED  BY <1>1, <2>1 DEF OInv, Typed, main
<1> QED  BY <1>1, <1>6, <1>7 DEF OInv

LEMMA FillKeeps ==
  ASSUME OInv, NEW o \in Ids, Fill(o)
  PROVE  OInv'
<1> DEFINE n == exch[o].filled + 1
           st == IF n = exch[o].vol THEN "filled" ELSE "open"
           row == [st |-> st, vol |-> exch[o].vol, filled |-> n]
<1>1. /\ exch \in [Ids -> Row] /\ exch[o] \in Row
      /\ exch[o].filled \in Nat /\ exch[o].vol \in Nat /\ exch[o].vol \in 0..MaxVolume
      /\ exch[o].st = "open" /\ exch[o].filled < exch[o].vol
  BY TrackerAssumption DEF OInv, Typed, Row, Booked, Sums, Fill
<1>2. /\ n \in 0..MaxVolume /\ n <= exch[o].vol /\ n >= exch[o].filled
      /\ st = "open" => n < exch[o].vol
      /\ st \in {"filled", "open"}
  BY <1>1, TrackerAssumption
<1>3. /\ row \in Row /\ row.st = st /\ row.vol = exch[o].vol /\ row.filled = n
  BY <1>1, <1>2 DEF Row, Ends
<1>4. exch' = [exch EXCEPT ![o] = row]
  <2>1. exch' = [exch EXCEPT ![o].filled = n, ![o].st = st]
    BY DEF Fill
  <2> HIDE DEF n, st
  <2>2. exch' = [exch EXCEPT ![o] = [[@ EXCEPT !.filled = n] EXCEPT !.st = st]]
    BY <1>1, <2>1
  <2>3. [[exch[o] EXCEPT !.filled = n] EXCEPT !.st = st] = row
    <3>1. PICK e \in Row : e = exch[o]
      BY <1>1
    <3>2. PICK x : x = [e EXCEPT !.filled = n]
      OBVIOUS
    <3>3. x = [st |-> e.st, vol |-> e.vol, filled |-> n]
      BY <3>2 DEF Row
    <3>4. [x EXCEPT !.st = st] = [st |-> st, vol |-> e.vol, filled |-> n]
      BY <3>3
    <3> QED  BY <3>1, <3>2, <3>4
  <2> QED  BY <2>2, <2>3
<1>5. reports' = Append(reports, [id |-> o, st |-> st, filled |-> n])
  BY DEF Fill
<1>6. UNCHANGED <<volume, cancelling, book, main, job, replay, expired, lost>>
  BY DEF Fill
<1> HIDE DEF n, st, row
<1>7. reports' = Append(reports, [id |-> o, st |-> row.st, filled |-> row.filled])
  BY <1>3, <1>5
<1> QED  BY <1>1, <1>2, <1>3, <1>4, <1>6, <1>7, ExchangeKeeps

LEMMA EndAtExchangeKeeps ==
  ASSUME OInv, NEW o \in Ids, EndAtExchange(o)
  PROVE  OInv'
<1> DEFINE row == [st |-> "canceled", vol |-> exch[o].vol, filled |-> exch[o].filled]
<1>1. /\ exch \in [Ids -> Row] /\ exch[o] \in Row
      /\ exch[o].filled \in Nat /\ exch[o].vol \in Nat
      /\ exch[o].st = "open" /\ exch[o].filled <= exch[o].vol
  BY TrackerAssumption DEF OInv, Typed, Row, Booked, Sums, EndAtExchange
<1>2. /\ row \in Row /\ row.st = "canceled" /\ row.vol = exch[o].vol
      /\ row.filled = exch[o].filled
  BY <1>1 DEF Row, Ends
<1>3. exch' = [exch EXCEPT ![o] = row]
  <2>1. exch' = [exch EXCEPT ![o] = [@ EXCEPT !.st = "canceled"]]
    BY <1>1 DEF EndAtExchange
  <2>2. [exch[o] EXCEPT !.st = "canceled"] = row
    BY <1>1 DEF Row
  <2> QED  BY <2>1, <2>2
<1>4. /\ reports' = Append(reports, [id |-> o, st |-> "canceled", filled |-> exch[o].filled])
      /\ UNCHANGED <<volume, cancelling, book, main, job, replay, expired, lost>>
  BY DEF EndAtExchange
<1> HIDE DEF row
<1>5. reports' = Append(reports, [id |-> o, st |-> row.st, filled |-> row.filled])
  BY <1>2, <1>4
<1>6. row.filled >= exch[o].filled /\ row.filled <= row.vol /\ row.st # "none" /\ row.st # "open"
  BY <1>1, <1>2
<1> QED  BY <1>1, <1>2, <1>3, <1>4, <1>5, <1>6, ExchangeKeeps

-----------------------------------------------------------------------------
(* A new order at the exchange, before its caller knows of it.             *)
LEMMA OrderPlaced ==
  ASSUME OInv, NEW o \in Ids, o \notin Made, NEW v \in 1..MaxVolume, Placed(o, v),
         UNCHANGED <<volume, book, reports, replay>>
  PROVE  /\ exch' \in [Ids -> Row] /\ Made' = Made \cup {o} /\ Open' = Open \cup {o}
         /\ exch'[o].vol = v /\ Exposure(o)' = v
         /\ \A p \in Ids : p # o => exch'[p] = exch[p] /\ Exposure(p)' = Exposure(p)
         /\ N(o[1])' = N(o[1]) + v
         /\ \A l \in Lines : /\ N(l) \in Nat /\ N(l)' \in Nat
                             /\ l # o[1] => N(l)' = N(l)
         /\ Reported' /\ Booked'
<1> DEFINE row == [st |-> "open", vol |-> v, filled |-> 0]
<1>1. exch \in [Ids -> Row] /\ row \in Row /\ v \in Nat /\ v # 0
  BY TrackerAssumption DEF OInv, Typed, Row
<1>2. /\ exch' \in [Ids -> Row] /\ exch'[o] = row
      /\ \A p \in Ids : p # o => exch'[p] = exch[p]
  BY <1>1 DEF Placed
<1>3. row.st = "open" /\ row.vol = v /\ row.filled = 0
  OBVIOUS
<1> HIDE DEF row
<1>4. exch[o].st = "none" /\ exch[o].vol = 0 /\ exch[o].filled = 0 /\ book.filled[o] = 0
  <2>1. exch[o].st = "none"
    BY DEF Made
  <2>2. /\ exch[o].filled \in Nat /\ exch[o].vol \in Nat /\ book.filled[o] \in Nat
    BY <1>1, TrackerAssumption DEF OInv, Typed, Book, Row
  <2>3. exch[o].filled <= exch[o].vol /\ exch[o].vol = 0 /\ book.filled[o] <= exch[o].filled
    BY <2>1 DEF OInv, Booked, Sums
  <2> QED  BY <2>1, <2>2, <2>3
<1>5. Made' = Made \cup {o} /\ Open' = Open \cup {o}
  BY <1>2, <1>3 DEF Made, Open
<1>6. Exposure(o) = 0 /\ Exposure(o)' = v
  BY <1>2, <1>3, <1>4 DEF Exposure
<1>7. /\ N(o[1])' + Exposure(o) = N(o[1]) + Exposure(o)'
      /\ \A l \in Lines : l # o[1] => N(l)' = N(l)
      /\ \A p \in Ids : p # o => Exposure(p)' = Exposure(p)
      /\ \A l \in Lines : N(l) \in Nat /\ N(l)' \in Nat
  BY <1>1, <1>2, RoomMoves
<1>8. N(o[1])' = N(o[1]) + v
  BY <1>1, <1>6, <1>7, IdFacts
<1>9. Onward
  <2>1. \A p \in Ids : exch[p].filled \in Nat
    BY <1>1, TrackerAssumption DEF Row
  <2> QED  BY <1>2, <1>4, <2>1 DEF Onward, Ends
<1>10. Reported'
  BY <1>2, <1>9, ReportedStays
<1>11. Booked'
  <2>1. \A p \in Ids : Sums(p)' /\ book.filled[p] <= exch'[p].filled
    BY <1>1, <1>2, <1>3, <1>4 DEF OInv, Booked, Sums
  <2>2. Known \subseteq Made' /\ o \notin book.completed /\ book.completed \subseteq Ids
    BY <1>5 DEF OInv, Booked, Known, Typed, Book
  <2>3. \A p \in book.completed : exch'[p].st \in Ends /\ book.filled[p] = exch'[p].filled
    BY <1>2, <2>2 DEF OInv, Booked
  <2> QED  BY <2>1, <2>2, <2>3 DEF OInv, Booked, Known
<1> QED  BY <1>2, <1>3, <1>5, <1>6, <1>7, <1>8, <1>10, <1>11

(* Only the last order of a chain has not been replaced.                   *)
LEMMA TipIsOne ==
  ASSUME OInv, NEW p \in Made, NEW q \in Made, p[1] = q[1], p[2] < q[2], q[2] <= MaxChase
  PROVE  Next1(p) \in Made
<1>1. p \in Ids /\ q \in Ids /\ p[2] \in Nat /\ q[2] \in Nat /\ q = <<q[1], q[2]>>
  BY IdFacts, TrackerAssumption DEF Made
<1>2. CASE p[2] + 1 = q[2]
  BY <1>1, <1>2 DEF Next1
<1>3. CASE p[2] + 1 < q[2]
  <2>1. p[2] + 1 \in 0..MaxChase
    BY <1>1, <1>3, TrackerAssumption
  <2>2. <<q[1], p[2] + 1>> \in book.completed
    BY <1>3, <2>1 DEF OInv, Chained
  <2> QED  BY <2>2 DEF Next1, OInv, Booked, Known
<1> QED  BY <1>1, <1>2, <1>3

(* A line without its first order has no order, and nothing at stake.      *)
LEMMA NothingYet ==
  ASSUME OInv, NEW l \in Lines, First(l) \notin Made
  PROVE  (\A p \in Made : p[1] # l) /\ N(l) = 0
<1>1. ASSUME NEW p \in Made, p[1] = l PROVE FALSE
  <2>1. p \in Ids /\ p[2] \in Nat /\ p = <<l, p[2]>> /\ 0 \in 0..MaxChase
    BY <1>1, IdFacts, TrackerAssumption DEF Made
  <2>2. CASE p[2] = 0
    BY <2>1, <2>2 DEF First
  <2>3. CASE 0 < p[2]
    <3>1. <<l, 0>> \in book.completed
      BY <1>1, <2>1, <2>3 DEF OInv, Chained
    <3> QED  BY <3>1 DEF First, OInv, Booked, Known
  <2> QED  BY <2>1, <2>2, <2>3
<1>2. ASSUME NEW p \in OrdersOf(l), NEW k \in 1..MaxVolume PROVE ~(k <= Exposure(p))
  <2>1. p \in Ids /\ exch[p].st = "none"
    BY <1>1 DEF OrdersOf, Made
  <2>2. Exposure(p) = exch[p].filled /\ exch[p].filled \in Nat /\ exch[p].vol \in Nat
    BY <2>1, TrackerAssumption DEF Exposure, OInv, Typed, Row
  <2>3. exch[p].filled <= exch[p].vol /\ exch[p].vol = 0
    BY <2>1 DEF OInv, Booked, Sums
  <2> QED  BY <2>2, <2>3, TrackerAssumption
<1>3. AtStake(l) = {}
  BY <1>2 DEF AtStake
<1> QED  BY <1>1, <1>3, FS_EmptySet DEF N

LEMMA SubmitKeeps ==
  ASSUME OInv, NEW l \in Lines, Submit(l)
  PROVE  OInv'
<1> DEFINE o == First(l)
<1>1. /\ UNCHANGED <<volume, cancelling, reports, book, todo, failed, result, job, replay, expired, lost>>
      /\ pc = "submit" /\ pc' = "add" /\ cur' = o
      /\ Placed(o, volume[l]) /\ exch[o].st = "none" /\ volume[l] > 0
  BY DEF Submit, AtWork, Goto
<1>2. o \in Ids /\ o[1] = l /\ o[2] = 0
  BY FirstFacts
<1>3. o \notin Made /\ volume[l] \in 1..MaxVolume /\ volume[l] \in Nat
  BY <1>1, TrackerAssumption DEF Made, OInv, Typed
<1>4. (\A p \in Made : p[1] # l) /\ N(l) = 0
  BY <1>3, NothingYet
<1> HIDE DEF o
<1>5. /\ exch' \in [Ids -> Row] /\ Made' = Made \cup {o} /\ Open' = Open \cup {o}
      /\ exch'[o].vol = volume[l] /\ Exposure(o)' = volume[l]
      /\ \A p \in Ids : p # o => exch'[p] = exch[p] /\ Exposure(p)' = Exposure(p)
      /\ N(l)' = N(l) + volume[l]
      /\ \A k \in Lines : /\ N(k) \in Nat /\ N(k)' \in Nat
                          /\ k # l => N(k)' = N(k)
      /\ Reported' /\ Booked'
  BY <1>1, <1>2, <1>3, OrderPlaced
<1>6. Typed'
  BY <1>1, <1>2, <1>5 DEF OInv, Typed, Places
<1>7. Chained'
  BY <1>1, <1>2, <1>5, TrackerAssumption DEF OInv, Chained
<1>8. InHand'
  BY <1>1, <1>2, <1>3, <1>5 DEF OInv, InHand, Chasing, Claimed, Booked, Known
<1>9. Batches'
  <2>1. ASSUME NEW t \in Threads PROVE job[t].at # "none" => job[t].of[1] # l
    BY <1>4 DEF OInv, Batches, Batch, Booked, Known
  <2> QED  BY <1>1, <1>2, <1>5, <2>1 DEF OInv, Batches, Batch, Spread, Child, Known
<1>10. Room'
  <2>1. \A k \in Lines : N(k)' <= volume[k]
    BY <1>3, <1>4, <1>5 DEF OInv, Room
  <2>2. ASSUME NEW p \in Made', p[2] <= MaxChase, Next1(p) \notin Made'
        PROVE  N(p[1])' + exch'[p].vol - Exposure(p)' <= volume[p[1]]
    <3>1. CASE p = o
      BY <1>2, <1>3, <1>4, <1>5, <3>1
    <3>2. CASE p \in Made
      <4>1. p \in Ids /\ p # o /\ p[1] # l /\ p[1] \in Lines
        BY <1>3, <1>4, <3>2, IdFacts DEF Made
      <4> QED  BY <1>5, <2>2, <3>2, <4>1 DEF OInv, Room
    <3> QED  BY <1>5, <3>1, <3>2
  <2>3. ASSUME NEW t \in Threads, job[t].at \in {"place", "add"}
        PROVE  N(job[t].of[1])' + job[t].left <= volume[job[t].of[1]]
    <3>1. job[t].of \in Made
      BY <2>3 DEF OInv, Batches, Batch, Booked, Known
    <3>2. job[t].of[1] \in Lines /\ job[t].of[1] # l
      BY <1>4, <3>1, IdFacts DEF Made
    <3>3. N(job[t].of[1]) + job[t].left <= volume[job[t].of[1]]
      BY <2>3 DEF OInv, Room
    <3>4. N(job[t].of[1])' = N(job[t].of[1])
      BY <1>1, <1>5, <3>2
    <3> QED  BY <1>1, <3>3, <3>4
  <2> QED  BY <1>1, <2>1, <2>2, <2>3 DEF Room
<1>11. Watched'
  BY <1>1, <1>5 DEF OInv, Watched, Child
<1>12. Calm'
  BY <1>1 DEF OInv, Calm, Claimed
<1> QED  BY <1>5, <1>6, <1>7, <1>8, <1>9, <1>10, <1>11, <1>12 DEF OInv

(* The replacement of an order that ended takes the room that it left, and *)
(* nobody else is at work on its line.                                     *)
LEMMA ReplacementPlaced ==
  ASSUME OInv, pc = "replace", NEW o, NEW l, NEW v,
         o = Next1(cur), l = cur[1], v = Remaining(book, cur), v > 0,
         Placed(o, v), pc' = "register",
         UNCHANGED <<volume, cancelling, reports, book, todo, cur, failed, result, job, replay, expired, lost>>
  PROVE  OInv'
<1>1. /\ cur \in Ids /\ cur \in book.completed /\ cur[2] < MaxChase /\ o \notin Made
      /\ cur \in Made /\ cur \notin todo /\ book.chasing = cur /\ Fresh(cur)
      /\ exch[cur].st \in Ends /\ book.filled[cur] = exch[cur].filled
  BY DEF OInv, InHand, Claimed, Fresh, Booked, Known
<1>2. /\ o \in Ids /\ o # cur /\ o[1] = l /\ o[2] = cur[2] + 1
      /\ l \in Lines /\ cur[2] \in Nat /\ cur = <<l, cur[2]>>
  BY <1>1, IdFacts
<1>3. /\ exch[cur].vol \in 0..MaxVolume /\ exch[cur].filled \in 0..MaxVolume
      /\ v = exch[cur].vol - exch[cur].filled
  BY <1>1 DEF OInv, Typed, Row, Remaining
<1>4. v \in 1..MaxVolume /\ v \in Nat
  BY <1>3, TrackerAssumption DEF Remaining
<1>5. ASSUME NEW p \in Made, p[1] = l, p[2] <= MaxChase, Next1(p) \notin Made
      PROVE  p = cur
  <2>1. p \in Ids /\ p[2] \in Nat /\ p = <<p[1], p[2]>>
    BY IdFacts, TrackerAssumption DEF Made
  <2>2. ~(p[2] < cur[2])
    BY <1>1, <1>2, <1>5, <2>1, TipIsOne, TrackerAssumption
  <2>3. ~(cur[2] < p[2])
    BY <1>1, <1>2, <1>5, <2>1, TipIsOne, TrackerAssumption
  <2> QED  BY <1>2, <1>5, <2>1, <2>2, <2>3
<1>6. ASSUME NEW t \in Threads, job[t].at # "none"
      PROVE  job[t].of \in Made /\ job[t].of[1] # l /\ job[t].of[1] \in Lines
  <2>1. job[t].of \in Made /\ job[t].of[2] = MaxChase
    BY <1>6 DEF OInv, Batches, Batch, Booked, Known
  <2>2. job[t].of \in Ids
    BY <2>1 DEF Made
  <2>3. ASSUME job[t].of[1] = l PROVE FALSE
    BY <1>1, <1>2, <2>1, <2>3, TipIsOne, TrackerAssumption
  <2> QED  BY <2>1, <2>2, <2>3, IdFacts
<1>8. /\ exch' \in [Ids -> Row] /\ Made' = Made \cup {o} /\ Open' = Open \cup {o}
      /\ exch'[o].vol = v /\ Exposure(o)' = v
      /\ \A p \in Ids : p # o => exch'[p] = exch[p] /\ Exposure(p)' = Exposure(p)
      /\ N(l)' = N(l) + v
      /\ \A k \in Lines : /\ N(k) \in Nat /\ N(k)' \in Nat
                          /\ k # l => N(k)' = N(k)
      /\ Reported' /\ Booked'
  BY <1>1, <1>2, <1>4, OrderPlaced
<1>9. Typed'
  BY <1>8 DEF OInv, Typed, Places, Chasing, Claimed
<1>10. Chained'
  <2> SUFFICES ASSUME NEW p \in Made', NEW j \in 0..MaxChase, j < p[2]
               PROVE  <<p[1], j>> \in book.completed
    BY DEF Chained
  <2>1. CASE p \in Made
    BY <2>1 DEF OInv, Chained
  <2>2. CASE p = o
    <3>1. CASE j < cur[2]
      BY <1>1, <1>2, <2>2, <3>1 DEF OInv, Chained
    <3>2. CASE j = cur[2]
      BY <1>1, <1>2, <2>2, <3>2
    <3> QED  BY <1>2, <2>2, <3>1, <3>2, TrackerAssumption
  <2> QED  BY <1>8, <2>1, <2>2
<1>11. InHand'
  <2>1. Known' = Known /\ Known \subseteq Made /\ o \in Made' \ Known'
    BY <1>1, <1>8 DEF Known, OInv, Booked
  <2>2. ASSUME NEW x \in todo
        PROVE  Fresh(x)' /\ (x \in book.chase => x \in book.pending)
    <3>1. /\ x \in Ids /\ x # cur /\ Fresh(x)
          /\ (x \in book.chase => x \in book.pending)
      BY <1>1 DEF OInv, Typed, InHand, Chasing, Claimed
    <3>2. x[2] \in Nat /\ x = <<x[1], x[2]>>
      BY <3>1, IdFacts, TrackerAssumption
    <3>3. Next1(x) # o
      BY <1>2, <3>1, <3>2 DEF Next1
    <3> QED  BY <1>8, <2>1, <3>1, <3>3 DEF Fresh
  <2> QED  BY <1>1, <2>1, <2>2 DEF InHand, Claimed, Chasing
<1>12. Batches'
  <2>1. \A t \in Threads : job[t].at # "none" => job[t].of[1] # o[1]
    BY <1>2, <1>6
  <2> QED  BY <1>8, <2>1 DEF OInv, Batches, Batch, Spread, Child, Known
<1>13. Room'
  <2>1. N(l) + v <= volume[l] /\ \A k \in Lines : volume[k] \in Nat
    <3>1. N(cur[1]) + exch[cur].vol - Exposure(cur) <= volume[cur[1]]
      BY <1>1, <1>2, TrackerAssumption DEF OInv, Room
    <3>2. Exposure(cur) = exch[cur].filled
      BY <1>1 DEF Exposure, Ends
    <3>3. \A k \in Lines : volume[k] \in Nat
      BY TrackerAssumption DEF OInv, Typed
    <3>4. N(cur[1]) + exch[cur].vol - exch[cur].filled <= volume[cur[1]]
      BY <3>1, <3>2
    <3>5. cur[1] = l /\ N(l) \in Nat /\ volume[l] \in Nat
      BY <1>2, <1>8, <3>3
    <3> QED  BY <1>3, <3>3, <3>4, <3>5, TrackerAssumption
  <2>2. \A k \in Lines : N(k)' <= volume[k]
    BY <1>8, <2>1 DEF OInv, Room
  <2>3. ASSUME NEW p \in Made', p[2] <= MaxChase, Next1(p) \notin Made'
        PROVE  N(p[1])' + exch'[p].vol - Exposure(p)' <= volume[p[1]]
    <3>1. CASE p = o
      BY <1>2, <1>4, <1>8, <2>1, <3>1
    <3>2. CASE p \in Made
      <4>1. p \in Ids /\ p # o /\ p[1] \in Lines /\ p # cur
        BY <1>1, <1>8, <2>3, <3>2, IdFacts DEF Made
      <4>2. p[1] # l
        BY <1>5, <1>8, <2>3, <3>2, <4>1
      <4>3. N(p[1]) + exch[p].vol - Exposure(p) <= volume[p[1]]
        BY <1>8, <2>3, <3>2 DEF OInv, Room
      <4>4. N(p[1])' = N(p[1]) /\ exch'[p] = exch[p] /\ Exposure(p)' = Exposure(p)
        BY <1>8, <4>1, <4>2
      <4> QED  BY <4>3, <4>4
    <3> QED  BY <1>8, <3>1, <3>2
  <2>4. ASSUME NEW t \in Threads, job[t].at \in {"place", "add"}
        PROVE  N(job[t].of[1])' + job[t].left <= volume[job[t].of[1]]
    <3>1. N(job[t].of[1]) + job[t].left <= volume[job[t].of[1]]
      BY <2>4 DEF OInv, Room
    <3>2. job[t].of[1] \in Lines /\ job[t].of[1] # l
      BY <1>6, <2>4
    <3>3. N(job[t].of[1])' = N(job[t].of[1])
      BY <1>8, <3>2
    <3> QED  BY <3>1, <3>3
  <2> QED  BY <2>2, <2>3, <2>4 DEF Room
<1>14. Watched'
  BY <1>8 DEF OInv, Watched, Child
<1>15. Calm'
  BY DEF OInv, Calm, Claimed
<1> QED  BY <1>8, <1>9, <1>10, <1>11, <1>12, <1>13, <1>14, <1>15 DEF OInv

LEMMA ReplaceKeeps ==
  ASSUME OInv, Replace
  PROVE  OInv'
<1>1. /\ pc = "replace"
      /\ UNCHANGED <<volume, cancelling, reports, todo, cur, failed, result, job, replay, expired, lost>>
  BY DEF Replace, AtWork
<1>2. CASE /\ Remaining(book, cur) > 0 /\ Placed(Next1(cur), Remaining(book, cur))
           /\ pc' = "register" /\ UNCHANGED book
  BY <1>1, <1>2, ReplacementPlaced
<1>3. CASE Unclaim /\ UNCHANGED exch
  BY <1>1, <1>3, UnclaimKeeps DEF Claimed, OInv, Typed
<1>4. CASE pc' = "unclaim" /\ UNCHANGED <<exch, book>>
  <2>1. Booked' /\ Chained' /\ Batches' /\ Room' /\ Watched'
    BY <1>1, <1>4, Walks
  <2>2. Typed' /\ Reported'
    BY <1>1, <1>4, ReportedSame DEF OInv, Typed, Places, Chasing, Claimed
  <2>3. InHand' /\ Calm'
    BY <1>1, <1>4 DEF OInv, InHand, Calm, Chasing, Claimed, Fresh, Known, Made
  <2> QED  BY <2>1, <2>2, <2>3 DEF OInv
<1> QED  BY <1>2, <1>3, <1>4 DEF Replace, Goto

-----------------------------------------------------------------------------
(* Batches.                                                                *)
Going(j, t, a)       == [j EXCEPT ![t].at = a]
Taking(j, t, a, n)   == [j EXCEPT ![t].at = a, ![t].left = n]
Counting(j, t, a, m) == [j EXCEPT ![t].at = a, ![t].next = m]

LEMMA JobGoes ==
  ASSUME NEW j \in [Threads -> Job], NEW t \in Threads, NEW a \in Stages,
         NEW k, k = Going(j, t, a)
  PROVE  /\ k \in [Threads -> Job] /\ \A s \in Threads : s # t => k[s] = j[s]
         /\ k[t].of = j[t].of /\ k[t].at = a /\ k[t].left = j[t].left /\ k[t].next = j[t].next
<1>1. PICK e \in Job : e = j[t]
  OBVIOUS
<1>2. e = [of |-> e.of, at |-> e.at, left |-> e.left, next |-> e.next]
  BY DEF Job
<1>3. PICK x : x = [e EXCEPT !.at = a]
  OBVIOUS
<1>4. x = [of |-> e.of, at |-> a, left |-> e.left, next |-> e.next]
  BY <1>2, <1>3
<1>5. k = [j EXCEPT ![t] = x]
  BY <1>1, <1>3 DEF Going
<1>6. x \in Job
  BY <1>4 DEF Job
<1>7. x.of = e.of /\ x.at = a /\ x.left = e.left /\ x.next = e.next
  BY <1>4
<1> QED  BY <1>1, <1>5, <1>6, <1>7

LEMMA JobTakes ==
  ASSUME NEW j \in [Threads -> Job], NEW t \in Threads, NEW a \in Stages, NEW n \in 0..MaxVolume,
         NEW k, k = Taking(j, t, a, n)
  PROVE  /\ k \in [Threads -> Job] /\ \A s \in Threads : s # t => k[s] = j[s]
         /\ k[t].of = j[t].of /\ k[t].at = a /\ k[t].left = n /\ k[t].next = j[t].next
<1>1. PICK e \in Job : e = j[t]
  OBVIOUS
<1>2. e = [of |-> e.of, at |-> e.at, left |-> e.left, next |-> e.next]
  BY DEF Job
<1>3. PICK x : x = [e EXCEPT !.at = a]
  OBVIOUS
<1>4. x = [of |-> e.of, at |-> a, left |-> e.left, next |-> e.next]
  BY <1>2, <1>3
<1>5. PICK y : y = [x EXCEPT !.left = n]
  OBVIOUS
<1>6. y = [of |-> e.of, at |-> a, left |-> n, next |-> e.next]
  BY <1>4, <1>5
<1>7. k = [j EXCEPT ![t] = y]
  <2>1. k = [j EXCEPT ![t] = [[@ EXCEPT !.at = a] EXCEPT !.left = n]]
    BY DEF Taking
  <2> QED  BY <1>1, <1>3, <1>5, <2>1
<1>8. y \in Job
  BY <1>6 DEF Job
<1>9. y.of = e.of /\ y.at = a /\ y.left = n /\ y.next = e.next
  BY <1>6
<1> QED  BY <1>1, <1>7, <1>8, <1>9

LEMMA JobCounts ==
  ASSUME NEW j \in [Threads -> Job], NEW t \in Threads, NEW a \in Stages, NEW m \in 0..MaxVolume,
         NEW k, k = Counting(j, t, a, m)
  PROVE  /\ k \in [Threads -> Job] /\ \A s \in Threads : s # t => k[s] = j[s]
         /\ k[t].of = j[t].of /\ k[t].at = a /\ k[t].left = j[t].left /\ k[t].next = m
<1>1. PICK e \in Job : e = j[t]
  OBVIOUS
<1>2. e = [of |-> e.of, at |-> e.at, left |-> e.left, next |-> e.next]
  BY DEF Job
<1>3. PICK x : x = [e EXCEPT !.at = a]
  OBVIOUS
<1>4. x = [of |-> e.of, at |-> a, left |-> e.left, next |-> e.next]
  BY <1>2, <1>3
<1>5. PICK y : y = [x EXCEPT !.next = m]
  OBVIOUS
<1>6. y = [of |-> e.of, at |-> a, left |-> e.left, next |-> m]
  BY <1>4, <1>5
<1>7. k = [j EXCEPT ![t] = y]
  <2>1. k = [j EXCEPT ![t] = [[@ EXCEPT !.at = a] EXCEPT !.next = m]]
    BY DEF Counting
  <2> QED  BY <1>1, <1>3, <1>5, <2>1
<1>8. y \in Job
  BY <1>6 DEF Job
<1>9. y.of = e.of /\ y.at = a /\ y.left = e.left /\ y.next = m
  BY <1>6
<1> QED  BY <1>1, <1>7, <1>8, <1>9

(* The order of a batch ended as the last of its chain, and no other       *)
(* thread is at work on its line.                                          *)
LEMMA BatchFacts ==
  ASSUME OInv, NEW t \in Threads, job[t].at # "none"
  PROVE  /\ job[t] \in Job /\ job[t].of \in Ids /\ job[t].of[1] \in Lines /\ job[t].of[2] = MaxChase
         /\ job[t].of = <<job[t].of[1], MaxChase>>
         /\ job[t].of \in Made \cap book.completed \cap book.submitting
         /\ job[t].left \in Nat /\ job[t].next \in Nat
         /\ \A s \in Threads : s # t /\ job[s].at # "none" =>
               job[s].of # job[t].of /\ job[s].of[1] # job[t].of[1]
         /\ result # "done" /\ ~book.event
<1>1. \A s \in Threads : job[s].at # "none" =>
         /\ job[s].of \in book.completed \cap book.submitting /\ job[s].of[2] = MaxChase
         /\ job[s].of \in Ids /\ job[s].of = <<job[s].of[1], MaxChase>> /\ job[s].of \in Made
  <2>1. \A s \in Threads : job[s].at # "none" =>
           job[s].of \in book.completed \cap book.submitting /\ job[s].of[2] = MaxChase
    BY DEF OInv, Batches, Batch
  <2>2. book.completed \subseteq Made /\ Made \subseteq Ids
    BY DEF OInv, Booked, Known, Made
  <2> QED  BY <2>1, <2>2, IdFacts
<1>2. job[t] \in Job /\ job[t].left \in Nat /\ job[t].next \in Nat
  BY TrackerAssumption DEF OInv, Typed, Job
<1>3. \A s \in Threads : s # t /\ job[s].at # "none" => job[s].of # job[t].of
  BY DEF OInv, Batches
<1>4. result # "done" /\ ~book.event
  BY <1>1 DEF OInv, Calm
<1> QED  BY <1>1, <1>2, <1>3, <1>4, IdFacts

(* A batch that goes on, or ends, without an order.                        *)
LEMMA BatchTurns ==
  ASSUME OInv, NEW t \in Threads, job[t].at \notin {"none", "add"},
         job' \in [Threads -> Job], \A s \in Threads : s # t => job'[s] = job[s],
         job'[t].at # "add", Batch(t)',
         job'[t].at # "none" => job'[t].of = job[t].of,
         job'[t].at = "place" =>
            N(job[t].of[1]) + job'[t].left <= volume[job[t].of[1]],
         UNCHANGED <<volume, exch, pc, todo, cur, result, lost, book.pending, book.completed,
                     book.filled, book.chase, book.leaving, book.chasing>>,
         \A o \in book.submitting : o # job[t].of => o \in book'.submitting
  PROVE  Booked' /\ Chained' /\ InHand' /\ Batches' /\ Room' /\ Watched'
<1>1. Booked' /\ Chained'
  BY BookedStays DEF OInv, Booked
<1>2. InHand'
  BY DEF OInv, InHand, Fresh, Known, Made
<1>3. Batches'
  <2>1. \A s \in Threads : s # t /\ job[s].at # "none" => job[s].of # job[t].of
    BY BatchFacts
  <2>2. ASSUME NEW s \in Threads, s # t PROVE Batch(s)'
    BY <2>1, <2>2 DEF OInv, Batches, Batch, Spread, Child, Known, Made
  <2>3. job'[t].at = "none" => job'[t].of = NoOrder
    BY DEF Batch, NoJob
  <2>4. \A s \in Threads : job[s].at # "none" => job[s].of # NoOrder
    BY BatchFacts, NoOrderIsNone
  <2>5. ASSUME NEW x \in Threads, NEW y \in Threads,
               job'[x].at # "none", job'[x].of = job'[y].of
        PROVE  x = y
    <3>1. CASE x # t /\ y # t
      BY <2>5, <3>1 DEF OInv, Batches
    <3>2. CASE x = t /\ y # t
      <4>1. job'[t].of = job[t].of /\ job[y].of = job[t].of /\ job[t].of # NoOrder
        BY <2>4, <2>5, <3>2
      <4> QED  BY <4>1, <3>2 DEF OInv, Batches
    <3>3. CASE x # t /\ y = t
      <4>1. job[x].at # "none" /\ job[x].of # job[t].of /\ job[x].of # NoOrder
        BY <2>1, <2>4, <2>5, <3>3
      <4> QED  BY <2>3, <2>5, <3>3, <4>1
    <3> QED  BY <3>1, <3>2, <3>3
  <2>6. \A s \in Threads : Batch(s)'
    BY <2>2
  <2> QED  BY <2>5, <2>6 DEF Batches
<1>4. Room'
  <2>1. \A l : N(l)' = N(l)
    BY DEF N, AtStake, OrdersOf, Exposure
  <2>2. \A l \in Lines : N(l)' <= volume[l]
    BY <2>1 DEF OInv, Room
  <2>3. ASSUME NEW o \in Made, o[2] <= MaxChase, Next1(o) \notin Made
        PROVE  N(o[1])' + exch[o].vol - Exposure(o) <= volume[o[1]]
    BY <2>1, <2>3 DEF OInv, Room
  <2>4. ASSUME NEW s \in Threads, job'[s].at \in {"place", "add"}
        PROVE  N(job'[s].of[1]) + job'[s].left <= volume[job'[s].of[1]]
    BY <2>4 DEF OInv, Room
  <2>5. ASSUME NEW s \in Threads, job'[s].at \in {"place", "add"}
        PROVE  N(job[s].of[1])' + job'[s].left <= volume[job'[s].of[1]]
    BY <2>1, <2>4, <2>5
  <2> QED  BY <2>2, <2>3, <2>5 DEF Room, Made, Exposure
<1>5. Watched'
  <2> SUFFICES ASSUME NEW o \in Open, o \notin book.pending, o[1] \notin lost,
                      ~(pc = "add" /\ o = cur), ~(pc = "register" /\ o = Next1(cur))
               PROVE  \E s \in Threads : job'[s].at = "add" /\ o = Child(s)'
    BY DEF Watched, Open
  <2>1. PICK s \in Threads : job[s].at = "add" /\ o = Child(s)
    BY DEF OInv, Watched
  <2> QED  BY <2>1 DEF Child
<1> QED  BY <1>1, <1>2, <1>3, <1>4, <1>5

LEMMA StartBatchKeeps ==
  ASSUME OInv, NEW t \in Threads, StartBatch(t)
  PROVE  OInv'
<1> DEFINE o == job[t].of
<1>1. /\ job[t].at = "start" /\ job \in [Threads -> Job] /\ book \in Book
      /\ UNCHANGED <<volume, exch, cancelling, reports, pc, todo, cur, failed, result, replay,
                     expired, lost>>
  BY DEF StartBatch, Does, main, OInv, Typed
<1>2. /\ o \in Ids /\ result # "done" /\ ~book.event /\ job[t] \in Job
      /\ o \in book.submitting
  BY <1>1, BatchFacts
<1>3. /\ o \in book.completed /\ o[2] = MaxChase /\ job[t].next = 0
      /\ \A p \in Made : p[1] = o[1] => p[2] <= MaxChase + Spread(t)
  BY <1>1 DEF OInv, Batches, Batch
<1> HIDE DEF o
<1>4. CASE o \in book.started /\ job' = [job EXCEPT ![t] = NoJob] /\ UNCHANGED book
  <2>1. NoJob \in Job /\ NoJob.at = "none"
    BY TrackerAssumption DEF NoJob, Job, Stages
  <2>2. /\ job' \in [Threads -> Job] /\ job'[t] = NoJob
        /\ \A s \in Threads : s # t => job'[s] = job[s]
    BY <1>1, <1>4, <2>1
  <2>3. Batch(t)'
    BY <2>1, <2>2 DEF Batch, Spread, NoJob
  <2>4. Booked' /\ Chained' /\ InHand' /\ Batches' /\ Room' /\ Watched'
    BY <1>1, <1>4, <2>1, <2>2, <2>3, BatchTurns
  <2>5. Typed' /\ Reported' /\ Calm'
    BY <1>1, <1>4, <2>2, ReportedSame DEF OInv, Typed, Calm
  <2> QED  BY <2>4, <2>5 DEF OInv
<1>5. CASE /\ book' = [book EXCEPT !.started = @ \cup {o},
                                   !.submitting = @ \cup {o}, !.event = FALSE]
           /\ job' = [job EXCEPT ![t].at = "price"]
  <2> DEFINE st == book.started \cup {o}
             su == book.submitting \cup {o}
  <2>1. st \subseteq Ids /\ su \subseteq Ids
    BY <1>1, <1>2 DEF Book
  <2>2. book' = [book EXCEPT !.started = st, !.submitting = su, !.event = FALSE]
    BY <1>5
  <2> HIDE DEF st, su
  <2>3. /\ book' \in Book /\ book'.submitting = su /\ ~book'.event
        /\ UNCHANGED <<book.pending, book.completed, book.filled, book.chase, book.leaving,
                       book.chasing, book.early>>
    BY <1>1, <2>1, <2>2 DEF Book
  <2>4. /\ job' \in [Threads -> Job] /\ \A s \in Threads : s # t => job'[s] = job[s]
        /\ job'[t].of = job[t].of /\ job'[t].at = "price" /\ job'[t].next = job[t].next
    <3>1. "price" \in Stages
      BY DEF Stages
    <3>2. job' = Going(job, t, "price")
      BY <1>5 DEF Going
    <3> QED  BY <1>1, <3>1, <3>2, JobGoes
  <2>5. Batch(t)'
    <3>1. Made' = Made /\ Spread(t)' = Spread(t)
      BY <1>1, <2>4 DEF Made, Spread
    <3> QED  BY <1>2, <1>3, <2>3, <2>4, <3>1 DEF Batch, su, o
  <2>6. Booked' /\ Chained' /\ InHand' /\ Batches' /\ Room' /\ Watched'
    <3>1. \A x \in book.submitting : x \in book'.submitting
      BY <2>3 DEF su
    <3> QED  BY <1>1, <2>3, <2>4, <2>5, <3>1, BatchTurns
  <2>7. Typed' /\ Reported' /\ Calm'
    <3>1. Typed'
      BY <1>1, <2>3, <2>4 DEF OInv, Typed
    <3> QED  BY <1>1, <1>2, <2>3, <3>1, ReportedSame DEF Calm
  <2> QED  BY <2>6, <2>7 DEF OInv
<1> QED  BY <1>4, <1>5 DEF StartBatch, o

(* A batch that is over withdraws what held the signal back.               *)
LEMMA EndBatchKeeps ==
  ASSUME OInv, NEW t \in Threads, EndBatch(t)
  PROVE  OInv'
<1> DEFINE o == job[t].of
           su == book.submitting \ {o}
           b == [book EXCEPT !.submitting = su]
<1>1. /\ job[t].at = "end" /\ job \in [Threads -> Job] /\ book \in Book
      /\ job' = [job EXCEPT ![t] = NoJob] /\ book' = Signalled(b)
      /\ UNCHANGED <<volume, exch, cancelling, reports, pc, todo, cur, failed, result, replay,
                     expired, lost>>
  BY DEF EndBatch, Does, main, OInv, Typed
<1>2. result # "done" /\ ~book.event
  BY <1>1, BatchFacts
<1>3. su \subseteq Ids /\ (\A x \in book.submitting : x # o => x \in su)
  BY <1>1 DEF Book
<1> HIDE DEF o, su
<1>4. /\ b \in Book /\ b.submitting = su /\ b.event = book.event
      /\ b.pending = book.pending /\ b.completed = book.completed /\ b.filled = book.filled
      /\ b.chase = book.chase /\ b.leaving = book.leaving /\ b.chasing = book.chasing
      /\ b.early = book.early
  BY <1>1, <1>3 DEF Book
<1> HIDE DEF b
<1>5. /\ book' \in Book /\ book'.submitting = su /\ (book'.event => Quiet(b))
      /\ UNCHANGED <<book.pending, book.completed, book.filled, book.chase, book.leaving,
                     book.chasing, book.early>>
  <2>1. book' = [b EXCEPT !.event = b.event \/ Quiet(b)]
    BY <1>1 DEF Signalled
  <2>2. Quiet(b) \in BOOLEAN
    BY DEF Quiet
  <2> QED  BY <1>2, <1>4, <2>1, <2>2 DEF Book
<1>6. /\ job' \in [Threads -> Job] /\ job'[t] = NoJob /\ NoJob.at = "none"
      /\ \A s \in Threads : s # t => job'[s] = job[s]
  <2>1. NoJob \in Job /\ NoJob.at = "none"
    BY TrackerAssumption DEF NoJob, Job, Stages
  <2> QED  BY <1>1, <2>1
<1>7. Booked' /\ Chained' /\ InHand' /\ Batches' /\ Room' /\ Watched'
  <2>1. Batch(t)'
    BY <1>6 DEF Batch, Spread, NoJob
  <2> QED  BY <1>1, <1>3, <1>5, <1>6, <2>1, BatchTurns DEF o
<1>8. Typed' /\ Reported'
  <2>1. Typed'
    BY <1>1, <1>5, <1>6 DEF OInv, Typed
  <2> QED  BY <1>1, <1>5, <2>1, ReportedSame
<1>9. Calm'
  <2>1. ASSUME book'.event
        PROVE  book'.pending = {} /\ book'.submitting = {} /\ pc' \notin Claimed
    <3>1. book.pending = {} /\ su = {} /\ book.chasing = NoOrder
      BY <1>4, <1>5, <2>1 DEF Quiet
    <3> QED  BY <1>1, <1>5, <3>1, NoOrderIsNone DEF OInv, InHand
  <2> QED  BY <1>1, <1>2, <2>1 DEF Calm
<1> QED  BY <1>7, <1>8, <1>9 DEF OInv

LEMMA AtStakeIsFinite ==
  ASSUME NEW l \in Lines
  PROVE  N(l) \in Nat
<1>1. IsFiniteSet(1..MaxVolume)
  BY FS_Interval, TrackerAssumption
<1>2. IsFiniteSet(OrdersOf(l) \X (1..MaxVolume))
  BY <1>1, IdsAreFinite, FS_Product
<1>3. AtStake(l) \subseteq OrdersOf(l) \X (1..MaxVolume)
  BY DEF AtStake
<1> QED  BY <1>2, <1>3, FS_Subset, FS_CardinalityType DEF N

(* A batch that submits nothing more.                                      *)
LEMMA BatchStops ==
  ASSUME OInv, NEW t \in Threads, job[t].at \in {"price", "place"},
         job' = Going(job, t, "end"),
         UNCHANGED <<volume, exch, cancelling, reports, book, pc, todo, cur, failed, result,
                     replay, expired, lost>>
  PROVE  OInv'
<1>1. job \in [Threads -> Job] /\ job[t] \in Job
  BY DEF OInv, Typed
<1>2. /\ job' \in [Threads -> Job] /\ \A s \in Threads : s # t => job'[s] = job[s]
      /\ job'[t].of = job[t].of /\ job'[t].at = "end"
  <2>1. "end" \in Stages
    BY DEF Stages
  <2> QED  BY <1>1, <2>1, JobGoes
<1>3. Batch(t)'
  BY <1>2, BatchFacts DEF Batch
<1>4. Booked' /\ Chained' /\ InHand' /\ Batches' /\ Room' /\ Watched'
  BY <1>2, <1>3, BatchTurns
<1>5. Typed' /\ Reported' /\ Calm'
  BY <1>2, ReportedSame DEF OInv, Typed, Calm
<1> QED  BY <1>4, <1>5 DEF OInv

LEMMA PriceKeeps ==
  ASSUME OInv, NEW t \in Threads, Price(t)
  PROVE  OInv'
<1> DEFINE o == job[t].of
<1>1. /\ job[t].at = "price" /\ job \in [Threads -> Job] /\ book \in Book
      /\ UNCHANGED <<volume, exch, cancelling, reports, book, pc, todo, cur, failed, result,
                     replay, expired, lost>>
  BY DEF Price, Does, main, OInv, Typed
<1>2. /\ o \in Ids /\ o[1] \in Lines /\ o[2] = MaxChase /\ o \in Made
      /\ job[t].next \in 0..MaxVolume /\ job[t].left \in 0..MaxVolume
      /\ o \in book.completed \cap book.submitting
  <2>1. job[t] \in Job
    BY <1>1
  <2> QED  BY <1>1, <2>1, BatchFacts DEF Job
<1>3. /\ job[t].next = 0 /\ Spread(t) = 0
      /\ \A p \in Made : p[1] = o[1] => p[2] <= MaxChase
  <2>1. job[t].next = 0
    BY <1>1 DEF OInv, Batches, Batch
  <2>2. Spread(t) = 0
    BY <1>1, <2>1 DEF Spread
  <2>3. \A p \in Made : p[1] = o[1] => p[2] <= MaxChase + 0
    BY <1>1, <2>2 DEF OInv, Batches, Batch
  <2> QED  BY <2>1, <2>2, <2>3, TrackerAssumption
<1>4. Made' = Made
  BY <1>1 DEF Made
<1>5. Typed' /\ Reported' /\ Calm' <=> job' \in [Threads -> Job]
  <2>1. Reported'
    BY <1>1, ReportedSame
  <2> QED  BY <1>1, <2>1 DEF OInv, Typed, Calm
<1>6. CASE /\ Remaining(book, o) > 0
           /\ job' = [job EXCEPT ![t].at = "place", ![t].left = Remaining(book, o)]
  <2> DEFINE n == Remaining(book, o)
  <2>1. /\ exch[o] \in Row /\ exch[o].st \in Ends /\ book.filled[o] = exch[o].filled
        /\ exch[o].vol \in 0..MaxVolume /\ exch[o].filled \in 0..MaxVolume
    BY <1>2 DEF OInv, Typed, Booked, Row
  <2>2. n = exch[o].vol - exch[o].filled /\ n \in 0..MaxVolume /\ n \in Nat
    BY <1>6, <2>1, TrackerAssumption DEF Remaining
  <2>3. job' = [job EXCEPT ![t].at = "place", ![t].left = n]
    BY <1>6
  <2> HIDE DEF n
  <2>4. /\ job' \in [Threads -> Job] /\ \A s \in Threads : s # t => job'[s] = job[s]
        /\ job'[t].of = o /\ job'[t].at = "place" /\ job'[t].left = n
        /\ job'[t].next = job[t].next
    <3>1. "place" \in Stages
      BY DEF Stages
    <3>2. job' = Taking(job, t, "place", n)
      BY <2>3 DEF Taking
    <3> QED  BY <1>1, <2>2, <3>1, <3>2, JobTakes
  <2>5. Batch(t)'
    <3>1. Spread(t)' = 0
      BY <1>3, <2>4 DEF Spread
    <3> QED  BY <1>1, <1>2, <1>3, <1>4, <2>2, <2>4, <3>1, TrackerAssumption DEF Batch
  <2>6. N(o[1]) + n <= volume[o[1]]
    <3>1. Next1(o) \notin Made
      BY <1>2, <1>3, TrackerAssumption DEF Next1
    <3>2. N(o[1]) + exch[o].vol - Exposure(o) <= volume[o[1]]
      BY <1>2, <3>1, TrackerAssumption DEF OInv, Room
    <3>3. Exposure(o) = exch[o].filled
      BY <2>1 DEF Exposure, Ends
    <3>4. N(o[1]) \in Nat /\ volume[o[1]] \in Nat
      <4>1. N(o[1]) \in Nat
        BY <1>2, AtStakeIsFinite
      <4> QED  BY <1>2, <4>1, TrackerAssumption DEF OInv, Typed
    <3> QED  BY <2>1, <2>2, <3>2, <3>3, <3>4, TrackerAssumption
  <2>7. Booked' /\ Chained' /\ InHand' /\ Batches' /\ Room' /\ Watched'
    BY <1>1, <2>4, <2>5, <2>6, BatchTurns
  <2> QED  BY <1>5, <2>4, <2>7 DEF OInv
<1>7. CASE job' = [job EXCEPT ![t].at = "end"]
  <2>1. job' = Going(job, t, "end")
    BY <1>7 DEF Going
  <2> QED  BY <1>1, <2>1, BatchStops
<1> QED  BY <1>6, <1>7 DEF Price

(* A market order of a batch: it takes of the room what it asks for, and   *)
(* its number follows all the others of the line.                          *)
LEMMA ChildPlaced ==
  ASSUME OInv, NEW t \in Threads, job[t].at = "place",
         NEW c \in 1..job[t].left, NEW o, o = Child(t), NEW l, l = job[t].of[1],
         Placed(o, c),
         job' = Taking(job, t, "add", job[t].left - c),
         UNCHANGED <<volume, cancelling, reports, book, pc, todo, cur, failed, result, replay,
                     expired, lost>>
  PROVE  OInv'
<1> DEFINE f == job[t].of
           n == job[t].next
           m == job[t].left - c
<1>1. /\ f \in Ids /\ l \in Lines /\ f = <<l, MaxChase>> /\ f[1] = l /\ f[2] = MaxChase
      /\ f \in Made \cap book.completed \cap book.submitting
      /\ n \in Nat /\ job[t].left \in Nat /\ job[t].left \in 0..MaxVolume /\ n \in 0..MaxVolume
      /\ \A s \in Threads : s # t /\ job[s].at # "none" => job[s].of # f /\ job[s].of[1] # l
      /\ result # "done"
  <2>1. job[t] \in Job
    BY BatchFacts
  <2> QED  BY <2>1, BatchFacts DEF Job
<1>2. c \in Nat /\ c >= 1 /\ m \in Nat /\ m \in 0..MaxVolume /\ c \in 1..MaxVolume
  BY <1>1, TrackerAssumption
<1>3. /\ \A p \in Made : p[1] = l => p[2] <= MaxChase + n
      /\ n + job[t].left <= MaxVolume
      /\ n > 0 => <<l, MaxChase + 1>> \in Made
  <2>1. Spread(t) = n
    BY <1>1 DEF Spread
  <2>2. Batch(t)
    BY DEF OInv, Batches
  <2>3. /\ \A p \in Made : p[1] = l => p[2] <= MaxChase + Spread(t)
        /\ Spread(t) + job[t].left <= MaxVolume
        /\ Spread(t) > 0 => <<l, MaxChase + 1>> \in Made
    BY <2>2 DEF Batch
  <2> QED  BY <2>1, <2>3
<1>4. /\ job' \in [Threads -> Job] /\ \A s \in Threads : s # t => job'[s] = job[s]
      /\ job'[t].of = f /\ job'[t].at = "add" /\ job'[t].left = m /\ job'[t].next = n
  <2>1. "add" \in Stages /\ job \in [Threads -> Job]
    BY DEF Stages, OInv, Typed
  <2>2. job' = Taking(job, t, "add", m)
    OBVIOUS
  <2> HIDE DEF m
  <2> QED  BY <1>2, <2>1, <2>2, JobTakes
<1>5. /\ o = <<l, MaxChase + n + 1>> /\ o[1] = l /\ o[2] = MaxChase + n + 1 /\ o[2] \in Nat
      /\ o[2] > MaxChase /\ o \in Ids /\ o \notin Made
  <2>1. o = <<l, MaxChase + n + 1>> /\ MaxChase + n + 1 \in 0..(MaxChase + MaxVolume)
    BY <1>1, <1>2, <1>3, TrackerAssumption DEF Child
  <2>2. o \in Ids /\ o[1] = l /\ o[2] = MaxChase + n + 1 /\ o[2] > MaxChase /\ o[2] \in Nat
    BY <1>1, <2>1, TrackerAssumption DEF Ids
  <2> QED  BY <1>1, <1>3, <2>1, <2>2, TrackerAssumption
<1>6. m = job[t].left - c
  OBVIOUS
<1> HIDE DEF f, n, m
<1>7. /\ exch' \in [Ids -> Row] /\ Made' = Made \cup {o} /\ Open' = Open \cup {o}
      /\ exch'[o].vol = c /\ Exposure(o)' = c
      /\ \A p \in Ids : p # o => exch'[p] = exch[p] /\ Exposure(p)' = Exposure(p)
      /\ N(l)' = N(l) + c
      /\ \A k \in Lines : /\ N(k) \in Nat /\ N(k)' \in Nat
                          /\ k # l => N(k)' = N(k)
      /\ Reported' /\ Booked'
  BY <1>2, <1>5, OrderPlaced
<1>8. Child(t)' = o /\ \A s \in Threads : s # t => Child(s)' = Child(s)
  BY <1>1, <1>4, <1>5 DEF Child
<1>9. Known' = Known /\ Known \subseteq Made /\ o \in Made' \ Known'
  BY <1>5, <1>7 DEF Known, OInv, Booked
<1>10. Typed'
  BY <1>4, <1>7 DEF OInv, Typed
<1>11. Chained'
  <2> SUFFICES ASSUME NEW p \in Made', NEW j \in 0..MaxChase, j < p[2]
               PROVE  <<p[1], j>> \in book.completed
    BY DEF Chained
  <2>1. CASE p \in Made
    BY <2>1 DEF OInv, Chained
  <2>2. CASE p = o
    <3>1. CASE j < MaxChase
      BY <1>1, <1>5, <2>2, <3>1 DEF OInv, Chained
    <3>2. CASE j = MaxChase
      BY <1>1, <1>5, <2>2, <3>2
    <3> QED  BY <3>1, <3>2, TrackerAssumption
  <2> QED  BY <1>7, <2>1, <2>2
<1>12. InHand'
  <2>1. ASSUME NEW x, x \in Ids, Fresh(x) PROVE Fresh(x)'
    <3>1. Next1(x) # o
      BY <1>5, <2>1, IdFacts, TrackerAssumption DEF Fresh
    <3> QED  BY <1>7, <1>9, <2>1, <3>1 DEF Fresh
  <2>2. todo \subseteq Ids
    BY DEF OInv, Typed
  <2> QED  BY <1>7, <1>9, <2>1, <2>2 DEF OInv, InHand, Claimed
<1>13. Batches'
  <2>1. Batch(t)'
    <3>1. Spread(t)' = n + 1
      BY <1>4 DEF Spread
    <3>2. \A p \in Made' : p[1] = l => p[2] <= MaxChase + (n + 1)
      <4> SUFFICES ASSUME NEW p \in Made', p[1] = l PROVE p[2] <= MaxChase + (n + 1)
        OBVIOUS
      <4>1. CASE p = o
        BY <1>1, <1>5, <4>1, TrackerAssumption
      <4>2. CASE p \in Made
        <5>1. p[2] \in Nat /\ p[2] <= MaxChase + n
          BY <1>3, <4>2, IdFacts, TrackerAssumption DEF Made
        <5> QED  BY <1>1, <5>1, TrackerAssumption
      <4> QED  BY <1>7, <4>1, <4>2
    <3>3. (n + 1) + m <= MaxVolume
      BY <1>1, <1>2, <1>3, <1>6, TrackerAssumption
    <3>4. <<l, MaxChase + 1>> \in Made'
      <4>1. CASE n = 0
        BY <1>5, <1>7, <4>1, TrackerAssumption
      <4>2. CASE n > 0
        BY <1>3, <1>7, <4>2
      <4> QED  BY <1>1, <4>1, <4>2
    <3> QED  BY <1>1, <1>4, <1>8, <1>9, <3>1, <3>2, <3>3, <3>4 DEF Batch
  <2>2. ASSUME NEW s \in Threads, s # t PROVE Batch(s)'
    <3>1. job'[s] = job[s] /\ Child(s)' = Child(s) /\ Spread(s)' = Spread(s)
      BY <1>4, <1>8, <2>2 DEF Spread
    <3>2. Batch(s)
      BY DEF OInv, Batches
    <3>3. job[s].at # "none" => job[s].of[1] # o[1]
      BY <1>1, <1>5, <2>2
    <3>4. CASE job[s].at = "none"
      BY <3>1, <3>2, <3>4 DEF Batch, Spread
    <3>5. CASE job[s].at # "none"
      <4>1. \A p \in Made' : p[1] = job[s].of[1] => p \in Made
        BY <1>7, <3>3, <3>5
      <4>2. Child(s) \in Made \ Known => Child(s) \in Made' \ Known'
        BY <1>7, <1>9
      <4>3. Made \subseteq Made' /\ UNCHANGED book
        BY <1>7
      <4> QED  BY <3>1, <3>2, <3>5, <4>1, <4>2, <4>3 DEF Batch
    <3> QED  BY <3>4, <3>5
  <2>3. \A s \in Threads : Batch(s)'
    BY <2>1, <2>2
  <2>4. \A s \in Threads : job'[s].of = job[s].of /\ (job'[s].at # "none" => job[s].at # "none")
    BY <1>4 DEF f
  <2> QED  BY <2>3, <2>4 DEF Batches, OInv
<1>14. Room'
  <2>1. N(l) + job[t].left <= volume[l] /\ \A k \in Lines : volume[k] \in Nat
    BY TrackerAssumption DEF OInv, Room, Typed
  <2>2. N(l)' + m <= volume[l] /\ N(l)' <= volume[l]
    BY <1>1, <1>2, <1>6, <1>7, <2>1
  <2>3. \A k \in Lines : N(k)' <= volume[k]
    BY <1>7, <2>2 DEF OInv, Room
  <2>4. ASSUME NEW p \in Made', p[2] <= MaxChase, Next1(p) \notin Made'
        PROVE  N(p[1])' + exch'[p].vol - Exposure(p)' <= volume[p[1]]
    <3>1. p \in Made /\ p # o /\ Next1(p) # o
      BY <1>5, <1>7, <2>4, TrackerAssumption
    <3>2. p \in Ids /\ p[1] \in Lines /\ p[2] \in Nat /\ p = <<p[1], p[2]>>
      BY <3>1, IdFacts, TrackerAssumption DEF Made
    <3>3. p[1] # l
      <4> SUFFICES ASSUME p[1] = l PROVE FALSE
        OBVIOUS
      <4>1. CASE p[2] < MaxChase
        <5>1. Next1(p) \in Made
          BY <1>1, <3>1, <4>1, TipIsOne, TrackerAssumption
        <5> QED  BY <1>7, <2>4, <5>1
      <4>2. CASE p[2] = MaxChase
        <5>1. Next1(p) = <<l, MaxChase + 1>>
          BY <4>2 DEF Next1
        <5>2. CASE n = 0
          BY <1>5, <3>1, <5>1, <5>2, TrackerAssumption
        <5>3. CASE n > 0
          BY <1>3, <1>7, <2>4, <5>1, <5>3
        <5> QED  BY <1>1, <5>2, <5>3
      <4> QED  BY <2>4, <3>2, <4>1, <4>2, TrackerAssumption
    <3>4. N(p[1]) + exch[p].vol - Exposure(p) <= volume[p[1]]
      BY <1>7, <2>4, <3>1 DEF OInv, Room
    <3>5. N(p[1])' = N(p[1]) /\ exch'[p] = exch[p] /\ Exposure(p)' = Exposure(p)
      BY <1>7, <3>1, <3>2, <3>3
    <3> QED  BY <3>4, <3>5
  <2>5. ASSUME NEW s \in Threads, s # t, job[s].at \in {"place", "add"}, NEW k, k = job[s].of[1]
        PROVE  N(k)' + job[s].left <= volume[k]
    <3>1. N(k) + job[s].left <= volume[k]
      BY <2>5 DEF OInv, Room
    <3>2. k \in Lines /\ k # l
      BY <1>1, <2>5, BatchFacts
    <3> QED  BY <1>7, <3>1, <3>2
  <2>6. ASSUME NEW s \in Threads, job'[s].at \in {"place", "add"}
        PROVE  (N(job[s].of[1]) + job[s].left <= volume[job[s].of[1]])'
    <3>1. CASE s = t
      BY <1>1, <1>4, <2>2, <3>1
    <3>2. CASE s # t
      BY <1>4, <2>5, <2>6, <3>2
    <3> QED  BY <3>1, <3>2
  <2> QED  BY <2>3, <2>4, <2>6 DEF Room
<1>15. Watched'
  <2> SUFFICES ASSUME NEW x \in Open', x \notin book.pending, x[1] \notin lost,
                      ~(pc = "add" /\ x = cur), ~(pc = "register" /\ x = Next1(cur))
               PROVE  \E s \in Threads : job'[s].at = "add" /\ x = Child(s)'
    BY DEF Watched
  <2>1. CASE x = o
    BY <1>4, <1>8, <2>1
  <2>2. CASE x \in Open
    <3>1. PICK s \in Threads : job[s].at = "add" /\ x = Child(s)
      BY <2>2 DEF OInv, Watched
    <3>2. s # t
      BY <3>1
    <3> QED  BY <1>4, <1>8, <3>1, <3>2
  <2> QED  BY <1>7, <2>1, <2>2
<1>16. Calm'
  BY DEF OInv, Calm, Claimed
<1> QED  BY <1>7, <1>10, <1>11, <1>12, <1>13, <1>14, <1>15, <1>16 DEF OInv

LEMMA PlaceChildKeeps ==
  ASSUME OInv, NEW t \in Threads, PlaceChild(t)
  PROVE  OInv'
<1>1. /\ job[t].at = "place"
      /\ UNCHANGED <<volume, cancelling, reports, book, pc, todo, cur, failed, result, replay,
                     expired, lost>>
  BY DEF PlaceChild, Does, main
<1>2. CASE \E c \in 1..job[t].left :
              /\ Placed(Child(t), c)
              /\ job' = [job EXCEPT ![t].at = "add", ![t].left = @ - c]
  <2>1. PICK c \in 1..job[t].left :
              /\ Placed(Child(t), c)
              /\ job' = [job EXCEPT ![t].at = "add", ![t].left = @ - c]
    BY <1>2
  <2>2. job' = Taking(job, t, "add", job[t].left - c)
    BY <2>1 DEF Taking
  <2> QED  BY <1>1, <2>1, <2>2, ChildPlaced
<1>3. CASE job' = [job EXCEPT ![t].at = "end"] /\ UNCHANGED exch
  <2>1. job' = Going(job, t, "end")
    BY <1>3 DEF Going
  <2> QED  BY <1>1, <1>3, <2>1, BatchStops
<1> QED  BY <1>2, <1>3 DEF PlaceChild

(* A market order is registered: the thread goes on with the next one.     *)
LEMMA AddChildKeeps ==
  ASSUME OInv, NEW t \in Threads, AddChild(t)
  PROVE  OInv'
<1> DEFINE f == job[t].of
           n == job[t].next
           o == Child(t)
<1>1. /\ UNCHANGED <<volume, exch, cancelling, reports, pc, todo, cur, failed, result, expired, lost>>
      /\ job[t].at = "add" /\ book' = Added(book, o, FALSE)
      /\ replay' = [replay EXCEPT ![t] = EarlyOf(o)]
      /\ job' = [job EXCEPT ![t].at = "place", ![t].next = n + 1]
  BY DEF AddChild, Does, main
<1>2. /\ f \in Ids /\ f[1] \in Lines /\ f[2] = MaxChase
      /\ f \in book.completed \cap book.submitting
      /\ n \in Nat /\ job[t].left \in Nat
      /\ \A s \in Threads : s # t /\ job[s].at # "none" => job[s].of # f /\ job[s].of[1] # f[1]
      /\ result # "done"
  BY <1>1, BatchFacts
<1>3. Batch(t) /\ Spread(t) = n + 1
  BY <1>1 DEF OInv, Batches, Spread
<1>4. /\ o \in Made \ Known /\ (n + 1) + job[t].left <= MaxVolume
      /\ \A p \in Made : p[1] = f[1] => p[2] <= MaxChase + (n + 1)
      /\ <<f[1], MaxChase + 1>> \in Made
  <2>1. o \in Made \ Known
    BY <1>1, <1>3 DEF Batch
  <2>2. /\ Spread(t) + job[t].left <= MaxVolume
        /\ \A p \in Made : p[1] = f[1] => p[2] <= MaxChase + Spread(t)
        /\ Spread(t) > 0 => <<f[1], MaxChase + 1>> \in Made
    BY <1>1, <1>3 DEF Batch
  <2>3. n + 1 > 0
    BY <1>2
  <2> QED  BY <1>3, <2>1, <2>2, <2>3
<1>5. o \in Ids /\ o[1] = f[1] /\ o[2] > MaxChase /\ o[2] \in Nat
  <2>1. o \in Ids
    BY <1>4 DEF Made
  <2> QED  BY <1>2, <2>1, TrackerAssumption DEF Child
<1>6. \A s \in Threads : s # t /\ job[s].at # "none" => Child(s) # o
  BY <1>2, <1>5 DEF Child
<1> HIDE DEF f, o
<1>7. /\ book' \in Book
      /\ book'.pending = book.pending \cup {o}
      /\ UNCHANGED <<book.completed, book.filled, book.chase, book.leaving, book.chasing,
                     book.submitting, book.started>>
      /\ ~book'.event /\ book'.early = [book.early EXCEPT ![o] = <<>>]
  BY <1>1, <1>5, AddedFields DEF OInv, Typed
<1>8. Known' = Known \cup {o} /\ Made' = Made /\ Open' = Open
  BY <1>1, <1>7 DEF Known, Made, Open
<1>9. /\ job' \in [Threads -> Job] /\ \A s \in Threads : s # t => job'[s] = job[s]
      /\ job'[t].of = f /\ job'[t].at = "place" /\ job'[t].left = job[t].left
      /\ job'[t].next = n + 1
  <2>1. "place" \in Stages /\ job \in [Threads -> Job]
    BY DEF Stages, OInv, Typed
  <2>2. n + 1 \in 0..MaxVolume
    BY <1>2, <1>4, TrackerAssumption
  <2> HIDE DEF n
  <2>3. PICK m \in 0..MaxVolume : m = n + 1
    BY <2>2
  <2>4. job' = Counting(job, t, "place", m)
    BY <1>1, <2>3 DEF Counting
  <2>5. /\ job' \in [Threads -> Job] /\ \A s \in Threads : s # t => job'[s] = job[s]
        /\ job'[t].of = job[t].of /\ job'[t].at = "place" /\ job'[t].left = job[t].left
        /\ job'[t].next = m
    BY <2>1, <2>4, JobCounts
  <2> QED  BY <2>3, <2>5 DEF f
<1>10. Reported' /\ replay' \in [Threads -> Seq(Reports)]
  BY <1>1, <1>5, <1>7, AddedReports
<1>11. Typed'
  BY <1>1, <1>7, <1>9, <1>10 DEF OInv, Typed
<1>12. Booked' /\ Chained'
  <2>1. Booked'
    <3>1. \A p \in Ids : Sums(p)' /\ book'.filled[p] <= exch'[p].filled
      BY <1>1, <1>7 DEF OInv, Booked, Sums
    <3>2. Known' \subseteq Made' /\ book'.pending \cap book'.completed = {}
      BY <1>4, <1>7, <1>8 DEF OInv, Booked, Known
    <3>3. \A p \in book'.completed : exch'[p].st \in Ends /\ book'.filled[p] = exch'[p].filled
      BY <1>1, <1>7 DEF OInv, Booked
    <3>4. \A p \in book'.chase : p[2] <= MaxChase
      BY <1>7 DEF OInv, Booked
    <3>5. \A p \in book'.leaving : p[2] = MaxChase
      BY <1>7 DEF OInv, Booked
    <3> QED  BY <3>1, <3>2, <3>3, <3>4, <3>5 DEF Booked
  <2> QED  BY <1>1, <1>7, <1>8, <2>1 DEF OInv, Chained
<1>13. InHand'
  <2>1. \A x : Fresh(x) => Fresh(x)'
    BY <1>8 DEF Fresh
  <2>2. pc = "add" => cur # o
    BY <1>5, TrackerAssumption DEF OInv, InHand
  <2>3. pc = "register" => Next1(cur) # o
    <3> SUFFICES ASSUME pc = "register", Next1(cur) = o PROVE FALSE
      OBVIOUS
    <3>1. cur \in Ids /\ cur[2] < MaxChase
      BY DEF OInv, InHand, Claimed
    <3> QED  BY <1>5, <3>1, IdFacts, TrackerAssumption
  <2> QED  BY <1>1, <1>7, <1>8, <2>1, <2>2, <2>3 DEF OInv, InHand
<1>14. Batches'
  <2>1. Batch(t)'
    <3>1. Spread(t)' = n + 1
      BY <1>2, <1>9 DEF Spread
    <3> QED  BY <1>2, <1>4, <1>7, <1>8, <1>9, <3>1 DEF Batch
  <2>2. ASSUME NEW s \in Threads, s # t PROVE Batch(s)'
    <3>1. job'[s] = job[s] /\ Child(s)' = Child(s) /\ Spread(s)' = Spread(s)
      BY <1>9, <2>2 DEF Spread, Child
    <3>2. Batch(s)
      BY DEF OInv, Batches
    <3>3. job[s].at = "add" => Child(s) # o
      BY <1>6, <2>2
    <3> QED  BY <1>7, <1>8, <3>1, <3>2, <3>3 DEF Batch
  <2>3. \A s \in Threads : Batch(s)'
    BY <2>1, <2>2
  <2>4. \A s \in Threads : job'[s].of = job[s].of /\ (job'[s].at # "none" => job[s].at # "none")
    BY <1>1, <1>9 DEF f
  <2> QED  BY <2>3, <2>4 DEF Batches, OInv
<1>15. Room'
  <2>1. \A l : N(l)' = N(l)
    BY <1>1 DEF N, AtStake, OrdersOf, Exposure
  <2>2. \A l \in Lines : N(l)' <= volume[l]
    BY <2>1 DEF OInv, Room
  <2>3. ASSUME NEW p \in Made, p[2] <= MaxChase, Next1(p) \notin Made
        PROVE  N(p[1])' + exch[p].vol - Exposure(p) <= volume[p[1]]
    BY <2>1, <2>3 DEF OInv, Room
  <2>4. ASSUME NEW s \in Threads, job'[s].at \in {"place", "add"}, NEW k, k = job[s].of[1]
        PROVE  N(k)' + job[s].left <= volume[k]
    BY <1>1, <1>9, <2>1, <2>4 DEF OInv, Room
  <2>5. ASSUME NEW s \in Threads, job'[s].at \in {"place", "add"}
        PROVE  (N(job[s].of[1]) + job[s].left <= volume[job[s].of[1]])'
    <3>1. job'[s].of = job[s].of /\ job'[s].left = job[s].left
      BY <1>9 DEF f
    <3> QED  BY <1>1, <2>4, <2>5, <3>1
  <2> QED  BY <1>1, <1>8, <2>2, <2>3, <2>5 DEF Room, Exposure
<1>16. Watched'
  <2> SUFFICES ASSUME NEW x \in Open, x \notin book.pending, x # o, x[1] \notin lost,
                      ~(pc = "add" /\ x = cur), ~(pc = "register" /\ x = Next1(cur))
               PROVE  \E s \in Threads : job'[s].at = "add" /\ x = Child(s)'
    BY <1>1, <1>7, <1>8 DEF Watched
  <2>1. PICK s \in Threads : job[s].at = "add" /\ x = Child(s)
    BY DEF OInv, Watched
  <2>2. s # t
    BY <2>1 DEF o
  <2> QED  BY <1>9, <2>1, <2>2 DEF Child
<1>17. Calm'
  BY <1>1, <1>2, <1>7 DEF Calm
<1> QED  BY <1>10, <1>11, <1>12, <1>13, <1>14, <1>15, <1>16, <1>17 DEF OInv

-----------------------------------------------------------------------------
LEMMA StartHolds == Init => OInv
<1> SUFFICES ASSUME Init PROVE OInv
  OBVIOUS
<1>0. USE DEF Init
<1>1. /\ \A o \in Ids : exch[o].st = "none" /\ exch[o].vol = 0 /\ exch[o].filled = 0
      /\ Made = {} /\ Open = {} /\ Known = {}
  BY DEF Made, Open, Known
<1>2. Typed
  <2>1. 0 \in 0..MaxVolume /\ NoJob \in Job
    BY TrackerAssumption DEF NoJob, Job, Stages
  <2>2. exch \in [Ids -> Row]
    BY <2>1 DEF Row
  <2>3. book \in Book
    BY <2>1 DEF Book
  <2>4. /\ job \in [Threads -> Job] /\ replay \in [Threads -> Seq(Reports)]
        /\ reports \in Seq(Reports)
    BY <2>1
  <2>5. /\ volume \in Volumes /\ cancelling \subseteq Ids /\ todo \subseteq Ids
        /\ failed \subseteq Ids /\ cur \in Ids \cup {NoOrder} /\ pc \in Places
        /\ result = "none" /\ expired \in BOOLEAN /\ lost \subseteq Lines
    BY DEF Places
  <2> QED  BY <2>2, <2>3, <2>4, <2>5 DEF Typed
<1>3. Reported
  BY DEF Reported
<1>4. Booked
  <2>1. \A o \in Ids : book.filled[o] = 0
    OBVIOUS
  <2> QED  BY <1>1, <2>1 DEF Booked, Sums, Known
<1>5. Chained /\ InHand
  BY <1>1 DEF Chained, InHand, Chasing, Claimed
<1>6. Batches
  BY DEF Batches, Batch, NoJob
<1>7. Room
  <2>1. ASSUME NEW l \in Lines PROVE N(l) = 0 /\ volume[l] \in Nat
    <3>1. \A p \in OrdersOf(l), k \in 1..MaxVolume : ~(k <= Exposure(p))
      BY <1>1, TrackerAssumption DEF OrdersOf, Exposure
    <3>2. AtStake(l) = {}
      BY <3>1 DEF AtStake
    <3> QED  BY <3>2, FS_EmptySet, TrackerAssumption DEF N
  <2>2. \A t \in Threads : job[t].at = "none"
    BY DEF NoJob
  <2> QED  BY <1>1, <2>1, <2>2 DEF Room
<1>8. Watched /\ Calm
  BY <1>1 DEF Watched, Calm
<1> QED  BY <1>2, <1>3, <1>4, <1>5, <1>6, <1>7, <1>8 DEF OInv

LEMMA StepKeeps == OInv /\ [Next]_vars => OInv'
<1> SUFFICES ASSUME OInv, [Next]_vars PROVE OInv'
  OBVIOUS
<1>1. CASE \E l \in Lines : Submit(l)
  BY <1>1, SubmitKeeps
<1>2. CASE Add
  BY <1>2, AddKeeps
<1>3. CASE Strolls
  BY <1>3, StrollKeeps
<1>4. CASE ChooseChases \/ \E o \in Ids : SkipChase(o) \/ Claim(o)
  BY <1>4, ChooseChasesKeeps, SkipChaseKeeps, ClaimKeeps
<1>5. CASE Cancel \/ Confirm \/ Drop \/ Replace \/ Register
  BY <1>5, CancelKeeps, ConfirmKeeps, DropKeeps, ReplaceKeeps, RegisterKeeps
<1>6. CASE ChooseFallbacks \/ \E o \in Ids : AskFallback(o)
  BY <1>6, ChooseFallbacksKeeps, AskFallbackKeeps
<1>7. CASE Query \/ \E o \in Ids : Reconcile(o)
  BY <1>7, QueryKeeps, ReconcileKeeps
<1>8. CASE Deliver
  BY <1>8, DeliverKeeps
<1>9. CASE Expire
  BY <1>9, ExpireKeeps
<1>10. CASE \E t \in Threads : Work(t)
  BY <1>10, ReplayKeeps, StartBatchKeeps, PriceKeeps, PlaceChildKeeps, AddChildKeeps,
     EndBatchKeeps DEF Work
<1>11. CASE \E o \in Ids : Fill(o) \/ EndAtExchange(o)
  BY <1>11, FillKeeps, EndAtExchangeKeeps
<1>12. CASE UNCHANGED vars
  <2> USE <1>12 DEF vars, main
  <2>1. Typed' /\ Reported'
    BY ReportedSame DEF OInv, Typed
  <2>2. Booked' /\ Chained' /\ Batches' /\ Room'
    BY BookedStays, BatchesStay, RoomStays DEF OInv, Booked
  <2>3. InHand' /\ Watched' /\ Calm'
    BY DEF OInv, InHand, Watched, Calm, Fresh, Known, Made, Open, Child
  <2> QED  BY <2>1, <2>2, <2>3 DEF OInv
<1> QED
  BY <1>1, <1>2, <1>3, <1>4, <1>5, <1>6, <1>7, <1>8, <1>9, <1>10, <1>11, <1>12
  DEF Next, Waiter, Strolls

(* The invariant of the tracker holds in every state it can reach.         *)
THEOREM Invariant == Spec => []OInv
  BY StartHolds, StepKeeps, PTL DEF Spec

(* The state has its types: above all, what an order has filled stays      *)
(* within its volume.                                                      *)
THEOREM TypeCorrect == Spec => []TypeOK
<1>1. OInv => TypeOK
  <2> SUFFICES ASSUME OInv PROVE TypeOK
    OBVIOUS
  <2>1. ASSUME NEW o \in Ids
        PROVE  exch[o].filled \in 0..exch[o].vol /\ exch[o].vol \in 0..MaxVolume
    <3>1. /\ exch[o].filled \in 0..MaxVolume /\ exch[o].vol \in 0..MaxVolume
          /\ exch[o].filled <= exch[o].vol
      BY DEF OInv, Typed, Row, Booked, Sums
    <3> QED  BY <3>1, TrackerAssumption
  <2> QED  BY <2>1 DEF OInv, Typed, Book, TypeOK
<1> QED  BY <1>1, Invariant, PTL

(* NoDoubleExposure: replaced by chases or by market orders, and whatever  *)
(* is filled meanwhile, a line never trades and never risks more than was  *)
(* asked for.                                                              *)
THEOREM LinesAreNotOverdone == Spec => []NoDoubleExposure
<1>1. OInv => NoDoubleExposure
  BY DEF OInv, Room, N, NoDoubleExposure
<1> QED  BY <1>1, Invariant, PTL

(* DoneMeansDone: a wait that ends because all is done leaves no order at  *)
(* the exchange but the replacement that _update_chase_info dropped.       *)
THEOREM DoneIsDone == Spec => []DoneMeansDone
<1>1. OInv => DoneMeansDone
  <2> SUFFICES ASSUME OInv, result = "done", NEW o \in Open
               PROVE  o[1] \in lost
    BY DEF DoneMeansDone
  <2>1. pc = "end" /\ o \notin book.pending
    BY DEF OInv, Calm
  <2>2. \A t \in Threads : job[t].at # "add"
    BY BatchFacts
  <2> QED  BY <2>1, <2>2 DEF OInv, Watched
<1> QED  BY <1>1, Invariant, PTL

-----------------------------------------------------------------------------
(* What a step does to the books: orders that ended, and fills.            *)
Onwards ==
    /\ book.completed \subseteq book'.completed
    /\ \A o \in Ids : book.filled[o] <= book'.filled[o]

LEMMA ReportsGoOn ==
  ASSUME OInv, NEW r \in HonestReports, book' = OnReport(book, r)
  PROVE  Onwards
  BY ReportIsTaken DEF Taken, Onwards

LEMMA StepGoesOn ==
  ASSUME OInv, [Next]_vars
  PROVE  Onwards
<1>1. /\ book \in Book /\ book.filled \in [Ids -> 0..MaxVolume]
      /\ \A o \in Ids : book.filled[o] <= book.filled[o]
  BY TrackerAssumption DEF OInv, Typed, Book
<1>2. ASSUME UNCHANGED <<book.completed, book.filled>> PROVE Onwards
  BY <1>1, <1>2 DEF Onwards
<1>3. CASE UNCHANGED book
  BY <1>2, <1>3
<1>4. CASE Add \/ \E t \in Threads : AddChild(t)
  <2>1. PICK o : book' = Added(book, o, TRUE) \/ book' = Added(book, o, FALSE)
    BY <1>4 DEF Add, AddChild
  <2>2. book'.completed = book.completed /\ book'.filled = book.filled
    BY <1>1, <2>1 DEF Added, Book
  <2> QED  BY <1>2, <2>2
<1>5. CASE Deliver
  <2>1. Head(reports) \in HonestReports /\ book' = OnReport(book, Head(reports))
    BY <1>5, SeqEnds DEF Deliver, OInv, Reported
  <2> QED  BY <2>1, ReportsGoOn
<1>6. CASE \E t \in Threads : Replay(t)
  <2>1. PICK t \in Threads : replay[t] # <<>> /\ book' = OnReport(book, Head(replay[t]))
    BY <1>6 DEF Replay
  <2>2. Head(replay[t]) \in HonestReports
    BY <2>1, SeqEnds DEF OInv, Reported
  <2> QED  BY <2>1, <2>2, ReportsGoOn
<1>7. CASE \E o \in Ids : Reconcile(o)
  <2>1. PICK o \in Ids : Reconcile(o)
    BY <1>7
  <2>2. CASE exch[o].st \in Ends /\ book' = OnReport(book, Report(o))
    <3>1. Report(o) \in HonestReports
      BY <2>2, TrackerAssumption
      DEF OInv, Typed, Row, Report, HonestReports, Reports, Honest, Made, Ends
    <3> QED  BY <2>2, <3>1, ReportsGoOn
  <2> QED  BY <1>3, <2>1, <2>2 DEF Reconcile
<1>8. CASE \/ Cancel \/ Drop \/ Replace \/ Register \/ ChooseFallbacks
           \/ \E o \in Ids : Claim(o)
  BY <1>1, <1>2, <1>8
  DEF Cancel, Drop, Replace, Register, ChooseFallbacks, Claim, Unclaim, Book
<1>9. CASE \E o \in Ids : AskFallback(o)
  BY <1>1, <1>2, <1>9 DEF AskFallback, Given, Book
<1>10. CASE \E t \in Threads : StartBatch(t)
  BY <1>1, <1>2, <1>10 DEF StartBatch, Book
<1>11. CASE \E t \in Threads : EndBatch(t)
  BY <1>1, <1>2, <1>11 DEF EndBatch, Signalled, Book
<1>12. CASE \/ \E l \in Lines : Submit(l)
            \/ Strolls \/ ChooseChases \/ Confirm \/ Query \/ Expire
            \/ \E o \in Ids : SkipChase(o) \/ Fill(o) \/ EndAtExchange(o)
            \/ \E t \in Threads : Price(t) \/ PlaceChild(t)
            \/ UNCHANGED vars
  <2>1. UNCHANGED book
    BY <1>12
    DEF Submit, Strolls, BeginWait, SeeDone, GiveUp, Terminate, EndRound, Missing, EndQuery,
        EndSweep, Judge, Sweep, ChooseChases, Confirm, Query, Expire, SkipChase, Fill,
        EndAtExchange, Price, PlaceChild, vars
  <2> QED  BY <1>3, <2>1
<1> QED
  BY <1>4, <1>5, <1>6, <1>7, <1>8, <1>9, <1>10, <1>11, <1>12 DEF Next, Waiter, Work, Strolls

(* NeverRevived: an order that ended stays ended, whichever thread hears   *)
(* of it again, and a fill that was reported is never taken back.          *)
THEOREM EndedStaysEnded == Spec => NeverRevived
<1>1. OInv /\ OInv' /\ [Next]_vars =>
         [/\ book.completed \subseteq book'.completed
          /\ book'.completed \cap book'.pending = {}
          /\ \A o \in Ids : book.filled[o] <= book'.filled[o]]_vars
  BY StepGoesOn DEF Onwards, OInv, Booked
<1> QED  BY <1>1, Invariant, PTL DEF Spec, NeverRevived

=============================================================================
