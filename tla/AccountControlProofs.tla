------------------------ MODULE AccountControlProofs ------------------------
(***************************************************************************)
(* Account control, for any operations, rules and plans of contexts, and   *)
(* any number of losses, minutes and days: the limits are kept, no run is  *)
(* refused without a reason, and no count that was not lost is missing.    *)
(* The last part is about the outbox that its warnings go through.         *)
(*                                                                         *)
(* The invariant comes in layers, each of which uses the ones before:      *)
(*   Shape      who is at work, with which guard, beside whom;             *)
(*   Holdings   who may hold counts, and of what;                          *)
(*   Exact      the sum of what is saved and held is what was permitted,   *)
(*              or a row tells of the loss;                                *)
(*   Based      what guards have read and what they share covers that sum; *)
(*   Limited    so nobody permits too much;                                *)
(*   Faultless  while nothing has failed, there is nothing to tell.        *)
(* Sums are over contexts and over the operations of a rule, so they need  *)
(* an induction over finite sets, with which the module begins.            *)
(***************************************************************************)
EXTENDS AccountControl, NotificationOutbox, FiniteSetTheorems, TLAPS

-----------------------------------------------------------------------------
(* Folds.  A fold takes the elements of a set in the order in which CHOOSE *)
(* gives them; two folds over the same set take them in the same order.    *)
Pick(s) == CHOOSE e \in s : TRUE

(* Induction over a finite set, with the claim as the set of the subsets   *)
(* for which it holds.                                                     *)
LEMMA SubsetInduction ==
  ASSUME NEW S, IsFiniteSet(S), NEW Good,
         {} \in Good,
         \A t \in SUBSET S : t # {} /\ t \ {Pick(t)} \in Good => t \in Good
  PROVE  SUBSET S \subseteq Good
<1> DEFINE Bad == (SUBSET S) \ Good
<1> SUFFICES ASSUME Bad # {} PROVE FALSE
  OBVIOUS
<1>1. IsWellFoundedOn(StrictSubsetOrdering(S), SUBSET S)
  BY FS_StrictSubsetOrderingWellFounded, FS_FiniteSubsetsOfFinite
<1>2. PICK t \in Bad : \A u \in Bad : ~ (<<u, t>> \in StrictSubsetOrdering(S))
  BY <1>1, WFMin
<1>3. t \in SUBSET S /\ t # {} /\ t \ {Pick(t)} \notin Good
  BY <1>2
<1>4. Pick(t) \in t
  BY <1>3 DEF Pick
<1>5. <<t \ {Pick(t)}, t>> \in StrictSubsetOrdering(S)
  BY <1>3, <1>4 DEF StrictSubsetOrdering
<1> QED  BY <1>2, <1>3, <1>5

(* A recursion over the subsets of a finite set has a solution.            *)
SolvesFold(g, S, base, F) ==
  \A t \in SUBSET S : g[t] = IF t = {} THEN base ELSE F[t][g[t \ {Pick(t)}]]

(* What takes one element after another from a finite set, as the folds    *)
(* do, comes to an end: with a starting value and a step of the right      *)
(* types the recursion has a solution.                                     *)
LEMMA FoldExists ==
  ASSUME NEW S, IsFiniteSet(S), NEW V, NEW base \in V,
         NEW F \in [SUBSET S -> [V -> V]]
  PROVE  \E g \in [SUBSET S -> V] : SolvesFold(g, S, base, F)
<1> DEFINE Solves(g, n) ==
      \A t \in SUBSET S : Cardinality(t) <= n =>
        g[t] = IF t = {} THEN base ELSE F[t][g[t \ {Pick(t)}]]
    Good == {t \in SUBSET S : \E g \in [SUBSET S -> V] : Solves(g, Cardinality(t))}
<1>1. \A t \in SUBSET S : IsFiniteSet(t) /\ Cardinality(t) \in Nat
  BY FS_Subset, FS_CardinalityType
<1>2. \A t \in SUBSET S : t # {} =>
        /\ Pick(t) \in t /\ t \ {Pick(t)} \in SUBSET S
        /\ Cardinality(t \ {Pick(t)}) = Cardinality(t) - 1
  BY <1>1, FS_RemoveElement DEF Pick
<1>3. {} \in Good
  <2> DEFINE g == [t \in SUBSET S |-> base]
  <2>1. g \in [SUBSET S -> V]
    OBVIOUS
  <2>2. \A t \in SUBSET S : Cardinality(t) <= Cardinality({}) => t = {}
    BY <1>1, FS_EmptySet
  <2>3. Solves(g, Cardinality({}))
    BY <2>2
  <2> QED  BY <2>1, <2>3
<1>4. ASSUME NEW t \in SUBSET S, t # {}, t \ {Pick(t)} \in Good
      PROVE  t \in Good
  <2> DEFINE u == t \ {Pick(t)}
  <2>1. PICK g \in [SUBSET S -> V] : Solves(g, Cardinality(u))
    BY <1>4
  <2> DEFINE h == [w \in SUBSET S |-> IF w = {} THEN base ELSE F[w][g[w \ {Pick(w)}]]]
  <2>2. \A w \in SUBSET S : w # {} => w \ {Pick(w)} \in SUBSET S
    OBVIOUS
  <2>3. h \in [SUBSET S -> V]
    <3>1. ASSUME NEW w \in SUBSET S
          PROVE  (IF w = {} THEN base ELSE F[w][g[w \ {Pick(w)}]]) \in V
      <4>1. g[w \ {Pick(w)}] \in V
        BY <2>2
      <4>2. F[w] \in [V -> V]
        OBVIOUS
      <4>3. F[w][g[w \ {Pick(w)}]] \in V
        BY <4>1, <4>2
      <4> QED  BY <4>3
    <3> QED  BY <3>1
  <2>4. ASSUME NEW w \in SUBSET S, Cardinality(w) <= Cardinality(t)
        PROVE  h[w] = IF w = {} THEN base ELSE F[w][h[w \ {Pick(w)}]]
    <3>1. CASE w = {}
      BY <3>1
    <3>2. CASE w # {}
      <4> DEFINE v == w \ {Pick(w)}
      <4>1. v \in SUBSET S /\ Cardinality(v) <= Cardinality(u)
        BY <1>1, <1>2, <1>4, <2>4, <3>2
      <4>2. g[v] = IF v = {} THEN base ELSE F[v][g[v \ {Pick(v)}]]
        BY <2>1, <4>1
      <4>3. h[v] = g[v]
        BY <4>1, <4>2
      <4> QED  BY <3>2, <4>3
    <3> QED  BY <3>1, <3>2
  <2>5. Solves(h, Cardinality(t))
    BY <2>4
  <2> QED  BY <2>3, <2>5
<1> HIDE DEF Good
<1>5. S \in Good
  BY <1>3, <1>4, SubsetInduction
<1>6. PICK g \in [SUBSET S -> V] : Solves(g, Cardinality(S))
  BY <1>5 DEF Good
<1>7. \A t \in SUBSET S : Cardinality(t) <= Cardinality(S)
  BY FS_Subset
<1> QED  BY <1>6, <1>7 DEF SolvesFold

-----------------------------------------------------------------------------
(* Sums of numbers.                                                        *)
SumOver(x, S) ==
  CHOOSE h : h = [t \in SUBSET S |-> IF t = {} THEN 0 ELSE x[Pick(t)] + h[t \ {Pick(t)}]]

(* The sum of the values of a function (SumFunction) is such a recursion.  *)
LEMMA SumIsFold ==
  ASSUME NEW x
  PROVE  SumFunction(x) = SumOver(x, DOMAIN x)[DOMAIN x]
  BY DEF SumFunction, SumFunctionOnSet, FoldFunctionOnSet, MapThenFoldSet, Pick, SumOver

(* The equation and the type of a sum of numbers.                          *)
LEMMA SumSteps ==
  ASSUME NEW S, IsFiniteSet(S), NEW x \in [S -> Nat]
  PROVE  \A t \in SUBSET S :
           /\ SumOver(x, S)[t] \in Nat
           /\ SumOver(x, S)[t] = IF t = {} THEN 0 ELSE x[Pick(t)] + SumOver(x, S)[t \ {Pick(t)}]
<1> DEFINE F == [t \in SUBSET S |-> [v \in Nat |-> IF t = {} THEN 0 ELSE x[Pick(t)] + v]]
           sum == SumOver(x, S)
           Good == {t \in SUBSET S : sum[t] \in Nat}
<1>1. \A t \in SUBSET S : t # {} => Pick(t) \in t
  BY DEF Pick
<1>2. F \in [SUBSET S -> [Nat -> Nat]]
  BY <1>1
<1>3. \E g \in [SUBSET S -> Nat] : SolvesFold(g, S, 0, F)
  <2> HIDE DEF F
  <2>1. 0 \in Nat
    OBVIOUS
  <2> QED  BY <1>2, <2>1, FoldExists
<1> PICK g \in [SUBSET S -> Nat] : SolvesFold(g, S, 0, F)
  BY <1>3
<1>4. ASSUME NEW t \in SUBSET S
      PROVE  g[t] = IF t = {} THEN 0 ELSE x[Pick(t)] + g[t \ {Pick(t)}]
  BY DEF SolvesFold
<1>5. g = [t \in SUBSET S |-> IF t = {} THEN 0 ELSE x[Pick(t)] + g[t \ {Pick(t)}]]
  BY <1>4
<1>6. sum = [t \in SUBSET S |-> IF t = {} THEN 0 ELSE x[Pick(t)] + sum[t \ {Pick(t)}]]
  BY <1>5 DEF SumOver
<1> HIDE DEF sum
<1>7. {} \in Good
  BY <1>6
<1>8. ASSUME NEW t \in SUBSET S, t # {}, t \ {Pick(t)} \in Good
      PROVE  t \in Good
  <2>1. sum[t] = x[Pick(t)] + sum[t \ {Pick(t)}]
    BY <1>6, <1>8
  <2>2. x[Pick(t)] \in Nat /\ sum[t \ {Pick(t)}] \in Nat
    BY <1>1, <1>8
  <2> QED  BY <2>1, <2>2
<1> HIDE DEF Good
<1>9. SUBSET S \subseteq Good
  BY <1>7, <1>8, SubsetInduction
<1> QED  BY <1>6, <1>9 DEF Good, sum

(* A sum of zeros is zero.                                                 *)
LEMMA SumNothing ==
  ASSUME NEW S, IsFiniteSet(S), NEW x \in [S -> Nat], \A p \in S : x[p] = 0
  PROVE  SumFunction(x) = 0
<1> DEFINE sx == SumOver(x, S)
           Good == {t \in SUBSET S : sx[t] = 0}
<1>1. \A t \in SUBSET S : sx[t] = IF t = {} THEN 0 ELSE x[Pick(t)] + sx[t \ {Pick(t)}]
  BY SumSteps
<1>2. \A t \in SUBSET S : t # {} => Pick(t) \in t
  BY DEF Pick
<1> HIDE DEF sx
<1>3. {} \in Good
  BY <1>1
<1>4. ASSUME NEW t \in SUBSET S, t # {}, t \ {Pick(t)} \in Good
      PROVE  t \in Good
  <2>1. sx[t] = x[Pick(t)] + sx[t \ {Pick(t)}] /\ x[Pick(t)] = 0 /\ sx[t \ {Pick(t)}] = 0
    BY <1>1, <1>2, <1>4
  <2> QED  BY <2>1
<1> HIDE DEF Good
<1>5. S \in Good
  BY <1>3, <1>4, SubsetInduction
<1> QED  BY <1>5, SumIsFold DEF Good, sx

(* A sum is not larger than another but for one element that is.           *)
LEMMA SumCompare ==
  ASSUME NEW S, IsFiniteSet(S), NEW x \in [S -> Nat], NEW y \in [S -> Nat],
         NEW O, \A p, q \in O : p = q,
         \A p \in S : x[p] <= y[p] + (IF p \in O THEN 1 ELSE 0)
  PROVE  SumFunction(x) <= SumFunction(y) + (IF O = {} THEN 0 ELSE 1)
<1> DEFINE sx == SumOver(x, S)  sy == SumOver(y, S)
           extra(t) == IF O \cap t = {} THEN 0 ELSE 1
           Good == {t \in SUBSET S : sx[t] <= sy[t] + extra(t)}
<1>1. \A t \in SUBSET S :
        /\ sx[t] \in Nat /\ sy[t] \in Nat
        /\ sx[t] = IF t = {} THEN 0 ELSE x[Pick(t)] + sx[t \ {Pick(t)}]
        /\ sy[t] = IF t = {} THEN 0 ELSE y[Pick(t)] + sy[t \ {Pick(t)}]
  BY SumSteps
<1>2. \A t \in SUBSET S : t # {} => Pick(t) \in t
  BY DEF Pick
<1> HIDE DEF sx, sy
<1>3. {} \in Good
  <2>1. sx[{}] = 0 /\ sy[{}] = 0 /\ extra({}) = 0
    BY <1>1
  <2> QED  BY <2>1
<1>4. ASSUME NEW t \in SUBSET S, t # {}, t \ {Pick(t)} \in Good
      PROVE  t \in Good
  <2> DEFINE e == Pick(t)  u == t \ {e}
  <2>1. e \in t /\ e \in S /\ u \in SUBSET S
    BY <1>2, <1>4
  <2>2. sx[t] = x[e] + sx[u] /\ sy[t] = y[e] + sy[u]
    BY <1>1, <1>4
  <2>3. x[e] <= y[e] + (IF e \in O THEN 1 ELSE 0) /\ sx[u] <= sy[u] + extra(u)
    BY <1>4, <2>1
  <2>4. extra(u) + (IF e \in O THEN 1 ELSE 0) <= extra(t)
    <3>1. CASE e \in O
      <4>1. O \cap u = {} /\ O \cap t # {}
        BY <2>1, <3>1
      <4> QED  BY <3>1, <4>1
    <3>2. CASE e \notin O
      <4>1. O \cap u = O \cap t
        BY <3>2
      <4> QED  BY <3>2, <4>1
    <3> QED  BY <3>1, <3>2
  <2>5. /\ x[e] \in Nat /\ y[e] \in Nat /\ extra(u) \in Nat /\ extra(t) \in Nat
        /\ sx[u] \in Nat /\ sy[u] \in Nat
    BY <1>1, <2>1
  <2> HIDE DEF e, u, extra
  <2>6. sx[t] <= sy[t] + extra(t)
    BY <2>2, <2>3, <2>4, <2>5
  <2> QED  BY <2>6 DEF extra
<1> HIDE DEF Good
<1>5. S \in Good
  BY <1>3, <1>4, SubsetInduction
<1>6. sx[S] <= sy[S] + extra(S) /\ extra(S) <= IF O = {} THEN 0 ELSE 1
  BY <1>5 DEF Good
<1>7. SumFunction(x) = sx[S] /\ SumFunction(y) = sy[S]
  BY SumIsFold DEF sx, sy
<1>8. sx[S] \in Nat /\ sy[S] \in Nat
  BY <1>1
<1> QED  BY <1>6, <1>7, <1>8

-----------------------------------------------------------------------------
(* Sums of counts, bucket by bucket.                                       *)
Buckets == Ops \X Spans
Counts == [Buckets -> Nat]

(* Adding counts and taking the larger of two gives counts.                *)
LEMMA CountFacts ==
  /\ Nothing \in Counts /\ \A b \in Buckets : Nothing[b] = 0
  /\ \A x, y \in Counts :
       /\ Plus(x, y) \in Counts /\ \A b \in Buckets : Plus(x, y)[b] = x[b] + y[b]
       /\ Larger(x, y) \in Counts
       /\ \A b \in Buckets : x[b] <= Larger(x, y)[b] /\ y[b] <= Larger(x, y)[b]
  BY DEF Nothing, Plus, Larger, Counts, Buckets

CountsOver(x, S) ==
  CHOOSE h : h = [t \in SUBSET S |->
    IF t = {} THEN Nothing ELSE Plus(x[Pick(t)], h[t \ {Pick(t)}])]

CountSum(x) == FoldFunction(Plus, Nothing, x)

(* The sum of counts (FoldFunction with Plus, DailyCounters) is a          *)
(* recursion of the same kind.                                             *)
LEMMA CountsAreFold ==
  ASSUME NEW x
  PROVE  CountSum(x) = CountsOver(x, DOMAIN x)[DOMAIN x]
  BY DEF CountSum, FoldFunction, FoldFunctionOnSet, MapThenFoldSet, Pick, CountsOver

(* The equation and the type of a sum of counts.                           *)
LEMMA CountSteps ==
  ASSUME NEW S, IsFiniteSet(S), NEW x \in [S -> Counts]
  PROVE  \A t \in SUBSET S :
           /\ CountsOver(x, S)[t] \in Counts
           /\ CountsOver(x, S)[t] =
                IF t = {} THEN Nothing ELSE Plus(x[Pick(t)], CountsOver(x, S)[t \ {Pick(t)}])
<1> DEFINE F == [t \in SUBSET S |->
                   [v \in Counts |-> IF t = {} THEN Nothing ELSE Plus(x[Pick(t)], v)]]
           sum == CountsOver(x, S)
           Good == {t \in SUBSET S : sum[t] \in Counts}
<1>1. \A t \in SUBSET S : t # {} => Pick(t) \in t
  BY DEF Pick
<1>2. F \in [SUBSET S -> [Counts -> Counts]]
  BY <1>1, CountFacts
<1>3. \E g \in [SUBSET S -> Counts] : SolvesFold(g, S, Nothing, F)
  <2> HIDE DEF F
  <2> QED  BY <1>2, CountFacts, FoldExists
<1> PICK g \in [SUBSET S -> Counts] : SolvesFold(g, S, Nothing, F)
  BY <1>3
<1>4. ASSUME NEW t \in SUBSET S
      PROVE  g[t] = IF t = {} THEN Nothing ELSE Plus(x[Pick(t)], g[t \ {Pick(t)}])
  <2>1. g[t \ {Pick(t)}] \in Counts
    OBVIOUS
  <2> QED  BY <2>1 DEF SolvesFold
<1>5. g = [t \in SUBSET S |-> IF t = {} THEN Nothing ELSE Plus(x[Pick(t)], g[t \ {Pick(t)}])]
  BY <1>4
<1>6. sum = [t \in SUBSET S |->
               IF t = {} THEN Nothing ELSE Plus(x[Pick(t)], sum[t \ {Pick(t)}])]
  BY <1>5 DEF CountsOver
<1> HIDE DEF sum
<1>7. {} \in Good
  BY <1>6, CountFacts
<1>8. ASSUME NEW t \in SUBSET S, t # {}, t \ {Pick(t)} \in Good
      PROVE  t \in Good
  <2>1. sum[t] = Plus(x[Pick(t)], sum[t \ {Pick(t)}])
    BY <1>6, <1>8
  <2>2. x[Pick(t)] \in Counts /\ sum[t \ {Pick(t)}] \in Counts
    BY <1>1, <1>8
  <2> QED  BY <2>1, <2>2, CountFacts
<1> HIDE DEF Good
<1>9. SUBSET S \subseteq Good
  BY <1>7, <1>8, SubsetInduction
<1> QED  BY <1>6, <1>9 DEF Good, sum

(* A sum of counts is counts.                                              *)
LEMMA FoldType ==
  ASSUME NEW S, IsFiniteSet(S), NEW x \in [S -> Counts]
  PROVE  CountSum(x) \in Counts
<1>1. CountsOver(x, S)[S] \in Counts
  BY CountSteps
<1>2. DOMAIN x = S
  OBVIOUS
<1> QED  BY <1>1, <1>2, CountsAreFold

(* Two sums differ in a bucket by as much as their one element that does.  *)
LEMMA FoldCompare ==
  ASSUME NEW S, IsFiniteSet(S), NEW x \in [S -> Counts], NEW y \in [S -> Counts],
         NEW b \in Buckets, NEW c \in S, \A d \in S : d # c => x[d][b] = y[d][b]
  PROVE  CountSum(y)[b] + x[c][b] =
           CountSum(x)[b] + y[c][b]
<1> DEFINE sx == CountsOver(x, S)  sy == CountsOver(y, S)
           Good == {t \in SUBSET S :
                      IF c \in t THEN sy[t][b] + x[c][b] = sx[t][b] + y[c][b]
                                 ELSE sy[t][b] = sx[t][b]}
<1>1. \A t \in SUBSET S :
        /\ sx[t] \in Counts /\ sy[t] \in Counts
        /\ sx[t] = IF t = {} THEN Nothing ELSE Plus(x[Pick(t)], sx[t \ {Pick(t)}])
        /\ sy[t] = IF t = {} THEN Nothing ELSE Plus(y[Pick(t)], sy[t \ {Pick(t)}])
  BY CountSteps
<1>2. \A t \in SUBSET S : t # {} => Pick(t) \in t
  BY DEF Pick
<1> HIDE DEF sx, sy
<1>3. {} \in Good
  <2>1. sx[{}] = Nothing /\ sy[{}] = Nothing
    BY <1>1
  <2> QED  BY <2>1
<1>4. ASSUME NEW t \in SUBSET S, t # {}, t \ {Pick(t)} \in Good
      PROVE  t \in Good
  <2> DEFINE e == Pick(t)  u == t \ {e}
  <2>1. e \in t /\ e \in S /\ u \in SUBSET S
    BY <1>2, <1>4
  <2>2. sx[t][b] = x[e][b] + sx[u][b] /\ sy[t][b] = y[e][b] + sy[u][b]
    <3>1. sx[t] = Plus(x[e], sx[u]) /\ sy[t] = Plus(y[e], sy[u])
      BY <1>1, <1>4
    <3>2. x[e] \in Counts /\ y[e] \in Counts /\ sx[u] \in Counts /\ sy[u] \in Counts
      BY <1>1, <2>1
    <3> HIDE DEF e, u
    <3> QED  BY <3>1, <3>2, CountFacts
  <2>3. /\ x[e][b] \in Nat /\ y[e][b] \in Nat /\ x[c][b] \in Nat /\ y[c][b] \in Nat
        /\ sx[u][b] \in Nat /\ sy[u][b] \in Nat
    <3>1. /\ x[e] \in Counts /\ y[e] \in Counts /\ x[c] \in Counts /\ y[c] \in Counts
          /\ sx[u] \in Counts /\ sy[u] \in Counts
      BY <1>1, <2>1
    <3> HIDE DEF e, u
    <3> QED  BY <3>1 DEF Counts
  <2>4. CASE c = e
    <3>1. c \in t /\ c \notin u /\ sy[u][b] = sx[u][b]
      BY <1>4, <2>1, <2>4
    <3>2. sy[t][b] + x[c][b] = sx[t][b] + y[c][b]
      BY <2>2, <2>3, <2>4, <3>1
    <3> QED  BY <3>1, <3>2
  <2>5. CASE c # e
    <3>1. (c \in t <=> c \in u) /\ x[e][b] = y[e][b]
      BY <2>1, <2>5
    <3>2. CASE c \in u
      <4>1. sy[u][b] + x[c][b] = sx[u][b] + y[c][b]
        BY <1>4, <3>2
      <4>2. sy[t][b] + x[c][b] = sx[t][b] + y[c][b]
        BY <2>2, <2>3, <3>1, <4>1
      <4> QED  BY <3>1, <3>2, <4>2
    <3>3. CASE c \notin u
      <4>1. sy[u][b] = sx[u][b]
        BY <1>4, <3>3
      <4>2. sy[t][b] = sx[t][b]
        BY <2>2, <2>3, <3>1, <4>1
      <4> QED  BY <3>1, <3>3, <4>2
    <3> QED  BY <3>2, <3>3
  <2> QED  BY <2>4, <2>5
<1> HIDE DEF Good
<1>5. S \in Good
  BY <1>3, <1>4, SubsetInduction
<1>6. CountSum(x) = sx[S] /\ CountSum(y) = sy[S]
  BY CountsAreFold DEF sx, sy
<1> QED  BY <1>5, <1>6 DEF Good

(* Sums that agree in a bucket element by element agree in it.             *)
LEMMA FoldSame ==
  ASSUME NEW S, IsFiniteSet(S), NEW x \in [S -> Counts], NEW y \in [S -> Counts],
         NEW b \in Buckets, \A d \in S : x[d][b] = y[d][b]
  PROVE  CountSum(y)[b] = CountSum(x)[b]
<1> DEFINE fx == CountSum(x)  fy == CountSum(y)
<1>1. CASE S = {}
  <2>1. x = y
    BY <1>1
  <2> QED  BY <2>1
<1>2. CASE S # {}
  <2>1. PICK c \in S : TRUE
    BY <1>2
  <2>2. fy[b] + x[c][b] = fx[b] + y[c][b]
    BY <2>1, FoldCompare
  <2>3. fx[b] \in Nat /\ fy[b] \in Nat /\ x[c][b] \in Nat /\ x[c][b] = y[c][b]
    BY <2>1, FoldType DEF Counts
  <2> HIDE DEF fx, fy
  <2> QED  BY <2>2, <2>3 DEF fx, fy
<1> QED  BY <1>1, <1>2

(* A sum of nothing is nothing.                                            *)
LEMMA FoldNothing ==
  ASSUME NEW S, IsFiniteSet(S), NEW x \in [S -> Counts],
         NEW b \in Buckets, \A d \in S : x[d][b] = 0
  PROVE  CountSum(x)[b] = 0
<1> DEFINE sx == CountsOver(x, S)
           Good == {t \in SUBSET S : sx[t][b] = 0}
<1>1. \A t \in SUBSET S :
        /\ sx[t] \in Counts
        /\ sx[t] = IF t = {} THEN Nothing ELSE Plus(x[Pick(t)], sx[t \ {Pick(t)}])
  BY CountSteps
<1>2. \A t \in SUBSET S : t # {} => Pick(t) \in t
  BY DEF Pick
<1> HIDE DEF sx
<1>3. {} \in Good
  BY <1>1, CountFacts
<1>4. ASSUME NEW t \in SUBSET S, t # {}, t \ {Pick(t)} \in Good
      PROVE  t \in Good
  <2>1. sx[t] = Plus(x[Pick(t)], sx[t \ {Pick(t)}])
    BY <1>1, <1>4
  <2>2. /\ x[Pick(t)] \in Counts /\ sx[t \ {Pick(t)}] \in Counts
        /\ x[Pick(t)][b] = 0 /\ sx[t \ {Pick(t)}][b] = 0
    BY <1>1, <1>2, <1>4
  <2>3. sx[t][b] = 0
    BY <2>1, <2>2, CountFacts
  <2> QED  BY <2>3
<1> HIDE DEF Good
<1>5. S \in Good
  BY <1>3, <1>4, SubsetInduction
<1> QED  BY <1>5, CountsAreFold DEF Good, sx

-----------------------------------------------------------------------------
(* The operators of the model.                                             *)

(* A finite set of numbers has a largest, which is what Max chooses.       *)
LEMMA MaxFacts ==
  ASSUME NEW S, S \subseteq Nat, IsFiniteSet(S), S # {}
  PROVE  Max(S) \in S /\ \A e \in S : e <= Max(S)
<1> DEFINE Good == {t \in SUBSET S : t = {} \/ \E m \in t : \A e \in t : e <= m}
<1>1. {} \in Good
  OBVIOUS
<1>2. ASSUME NEW t \in SUBSET S, t # {}, t \ {Pick(t)} \in Good
      PROVE  t \in Good
  <2>1. Pick(t) \in t /\ t \subseteq Nat
    BY <1>2 DEF Pick
  <2>2. CASE t \ {Pick(t)} = {}
    <3>1. \A e \in t : e = Pick(t)
      BY <2>2
    <3> QED  BY <2>1, <3>1
  <2>3. CASE t \ {Pick(t)} # {}
    <3>1. PICK m \in t \ {Pick(t)} : \A e \in t \ {Pick(t)} : e <= m
      BY <1>2, <2>3
    <3>2. CASE Pick(t) <= m
      <4>1. \A e \in t : e <= m
        BY <3>1, <3>2
      <4> QED  BY <3>1, <4>1
    <3>3. CASE ~ (Pick(t) <= m)
      <4>1. m \in Nat /\ Pick(t) \in Nat
        BY <2>1, <3>1
      <4>2. ASSUME NEW e \in t
            PROVE  e <= Pick(t)
        <5>1. CASE e = Pick(t)
          BY <4>1, <5>1
        <5>2. CASE e # Pick(t)
          <6>1. e \in Nat /\ e <= m
            BY <2>1, <3>1, <5>2
          <6> QED  BY <3>3, <4>1, <6>1
        <5> QED  BY <5>1, <5>2
      <4> QED  BY <2>1, <4>2
    <3> QED  BY <3>2, <3>3
  <2> QED  BY <2>2, <2>3
<1> HIDE DEF Good
<1>3. S \in Good
  BY <1>1, <1>2, SubsetInduction
<1>4. \E m \in S : \A e \in S : m >= e
  <2>1. PICK m \in S : \A e \in S : e <= m
    BY <1>3 DEF Good
  <2>2. \A e \in S : m >= e
    BY <2>1
  <2> QED  BY <2>2
<1>5. Max(S) \in S /\ \A e \in S : Max(S) >= e
  BY <1>4 DEF Max
<1> QED  BY <1>5

(* There are finitely many contexts, whatever the plans are; 0 is none.    *)
LEMMA ContextFacts ==
  ASSUME plan \in Kinds
  PROVE  /\ IsFiniteSet(Contexts) /\ Contexts \subseteq Nat /\ 0 \notin Contexts
         /\ IsFiniteSet(Ids) /\ Ids \subseteq Contexts
<1> DEFINE L == {Len(k) : k \in Kinds}
           Good == {t \in SUBSET Kinds : IsFiniteSet({Len(k) : k \in t})}
<1>1. \A k \in Kinds : Len(k) \in Nat
  BY ControlAssumption
<1>2. {} \in Good
  <2>1. {Len(k) : k \in {}} = {}
    OBVIOUS
  <2> QED  BY <2>1, FS_EmptySet
<1>3. ASSUME NEW t \in SUBSET Kinds, t # {}, t \ {Pick(t)} \in Good
      PROVE  t \in Good
  <2>1. {Len(k) : k \in t} = {Len(k) : k \in t \ {Pick(t)}} \cup {Len(Pick(t))}
    BY <1>3 DEF Pick
  <2>2. IsFiniteSet({Len(k) : k \in t \ {Pick(t)}})
    BY <1>3
  <2>3. IsFiniteSet({Len(k) : k \in t \ {Pick(t)}} \cup {Len(Pick(t))})
    BY <2>2, FS_AddElement
  <2> QED  BY <2>1, <2>3
<1> HIDE DEF Good
<1>4. Kinds \in Good
  BY <1>2, <1>3, SubsetInduction, ControlAssumption
<1>5. IsFiniteSet(L) /\ L \subseteq Nat /\ Len(plan) \in L
  BY <1>1, <1>4 DEF Good
<1>6. Max(L) \in Nat /\ Len(plan) \in Nat /\ Len(plan) <= Max(L)
  BY <1>5, MaxFacts
<1>7. Contexts = 1..Max(L) /\ Ids = 1..Len(plan)
  BY DEF Contexts, Ids
<1> HIDE DEF L
<1>8. IsFiniteSet(Contexts) /\ IsFiniteSet(Ids)
  BY <1>6, <1>7, FS_Interval
<1> QED  BY <1>6, <1>7, <1>8

(* Counting an operation adds one to its buckets and leaves the others.    *)
LEMMA IncrementedFacts ==
  ASSUME NEW x \in Counts, NEW op \in Ops
  PROVE  /\ Incremented(x, op) \in Counts
         /\ \A b \in Buckets : Incremented(x, op)[b] = IF b[1] = op THEN x[b] + 1 ELSE x[b]
  BY DEF Incremented, Counts, Buckets

(* What the end of a span does to counts.                                  *)
LEMMA EmptiedFacts ==
  ASSUME NEW x \in Counts, NEW spans
  PROVE  /\ Emptied(x, spans) \in Counts
         /\ \A b \in Buckets : Emptied(x, spans)[b] = IF b[2] \in spans THEN 0 ELSE x[b]
  BY DEF Emptied, Counts, Buckets

(* What a rule counts grows with the counts, and by at most one with an    *)
(* operation that it is about.                                             *)
LEMMA CountGrows ==
  ASSUME NEW r \in Rules, NEW x \in Counts, NEW y \in Counts,
         \A o \in r.ops : x[<<o, r.span>>] <= y[<<o, r.span>>]
  PROVE  Count(r, x) \in Nat /\ Count(r, y) \in Nat /\ Count(r, x) <= Count(r, y)
<1> DEFINE fx == [o \in r.ops |-> x[<<o, r.span>>]]
           fy == [o \in r.ops |-> y[<<o, r.span>>]]
<1>1. /\ r.ops \subseteq Ops /\ r.span \in Spans /\ IsFiniteSet(r.ops)
      /\ \A o \in r.ops : <<o, r.span>> \in Buckets
  BY FS_Subset, ControlAssumption DEF Buckets
<1>2. fx \in [r.ops -> Nat] /\ fy \in [r.ops -> Nat]
  BY <1>1 DEF Counts
<1>3. Count(r, x) = SumFunction(fx) /\ Count(r, y) = SumFunction(fy)
  BY DEF Count
<1>4. \A p \in r.ops : fx[p] <= fy[p] + (IF p \in {} THEN 1 ELSE 0)
  BY <1>2
<1> HIDE DEF fx, fy
<1>5. SumFunction(fx) \in Nat /\ SumFunction(fy) \in Nat
  BY <1>1, <1>2, SumSteps, SumIsFold
<1>6. SumFunction(fx) <= SumFunction(fy) + (IF {} = {} THEN 0 ELSE 1)
  BY <1>1, <1>2, <1>4, SumCompare
<1> QED  BY <1>3, <1>5, <1>6

(* Counting an operation adds at most one to what a rule counts, and       *)
(* nothing when the rule is not about it.                                  *)
LEMMA CountStep ==
  ASSUME NEW r \in Rules, NEW x \in Counts, NEW op \in Ops
  PROVE  /\ Count(r, x) \in Nat /\ Count(r, Incremented(x, op)) \in Nat
         /\ Count(r, Incremented(x, op)) <= Count(r, x) + 1
         /\ op \notin r.ops => Count(r, Incremented(x, op)) <= Count(r, x)
<1> DEFINE y == Incremented(x, op)
           fx == [o \in r.ops |-> x[<<o, r.span>>]]
           fy == [o \in r.ops |-> y[<<o, r.span>>]]
<1>1. /\ r.ops \subseteq Ops /\ r.span \in Spans /\ IsFiniteSet(r.ops)
      /\ \A o \in r.ops : <<o, r.span>> \in Buckets
  BY FS_Subset, ControlAssumption DEF Buckets
<1>2. y \in Counts /\ \A b \in Buckets : y[b] = IF b[1] = op THEN x[b] + 1 ELSE x[b]
  BY IncrementedFacts
<1> HIDE DEF y
<1>3. fx \in [r.ops -> Nat] /\ fy \in [r.ops -> Nat]
  BY <1>1, <1>2 DEF Counts
<1>4. Count(r, x) = SumFunction(fx) /\ Count(r, y) = SumFunction(fy)
  BY DEF Count
<1>5. \A p \in r.ops : fy[p] = IF p = op THEN fx[p] + 1 ELSE fx[p]
  BY <1>1, <1>2
<1> HIDE DEF fx, fy
<1>6. SumFunction(fx) \in Nat /\ SumFunction(fy) \in Nat
  BY <1>1, <1>3, SumSteps, SumIsFold
<1>7. SumFunction(fy) <= SumFunction(fx) + (IF {op} = {} THEN 0 ELSE 1)
  <2> DEFINE O == {op}
  <2>1. (\A p, q \in O : p = q) /\ O # {}
    OBVIOUS
  <2>2. \A p \in r.ops : fy[p] <= fx[p] + (IF p \in O THEN 1 ELSE 0)
    BY <1>3, <1>5
  <2> HIDE DEF O
  <2>3. SumFunction(fy) <= SumFunction(fx) + (IF O = {} THEN 0 ELSE 1)
    BY <1>1, <1>3, <2>1, <2>2, SumCompare
  <2> QED  BY <2>1, <2>3
<1>8. ASSUME op \notin r.ops
      PROVE  SumFunction(fy) <= SumFunction(fx) + (IF {} = {} THEN 0 ELSE 1)
  <2>1. \A p \in r.ops : fy[p] <= fx[p] + (IF p \in {} THEN 1 ELSE 0)
    BY <1>3, <1>5, <1>8
  <2> QED  BY <1>1, <1>3, <2>1, SumCompare
<1> QED  BY <1>4, <1>6, <1>7, <1>8 DEF y

-----------------------------------------------------------------------------
(* The invariant: types.                                                   *)
CtxStates == {"none", "loaded", "checked", "live", "done", "failed", "lost"}
CtxRecords ==
  [st : CtxStates, guard : Contexts \cup {0}, base : Counts, own : Counts,
   today : BOOLEAN, bad : BOOLEAN, broken : BOOLEAN, op : Ops \cup {"none"}, left : Nat]
RowRecords ==
  [st : {"none", "active", "incomplete", "closed"}, end : {"open", "today", "earlier"}]

IsRun(c) == c \in Ids /\ plan[c] = "run"
IsOrder(c) == c \in Ids /\ plan[c] = "order"
IsCatalog(c) == c \in Ids /\ plan[c] = "catalog"
Owner(c) == Live(c) /\ OwnsGuard(c)

Typed ==
  /\ plan \in Kinds /\ shared \in BOOLEAN
  /\ worker \in {"up", "spoiled", "gone"}
  /\ ctx \in [Contexts -> CtxRecords]
  /\ lock \in Contexts \cup {0} /\ active \in Contexts \cup {0}
  /\ quota \in Counts /\ sent \in Counts
  /\ saved \in [Contexts -> Counts]
  /\ row \in [Contexts -> RowRecords]
  /\ \A c \in Contexts : row[c].st = "active" <=> row[c].st # "none" /\ row[c].end = "open"
  /\ seen \in Contexts \cup {0}
  /\ seen # 0 => IsRun(seen) /\ row[seen].st # "none"
  /\ faults \in Nat

(* What a context is allowed to be in each of its states.                  *)
Placed(c) ==
  /\ Live(c) => c \in Ids
  /\ Live(c) /\ ~OwnsGuard(c) =>
       IsOrder(c) /\ ctx[c].st = "live" /\ active # 0 /\ ctx[c].guard = active
  /\ ctx[c].op # "none" => ctx[c].st = "live"
  /\ ctx[c].op \in Risk => IsRun(c) \/ ctx[c].op = "none"
  /\ ~shared /\ IsCatalog(c) => ctx[c].st = "none"

(* Who is at work beside whom.                                             *)
Beside(c) ==
  /\ IsRun(c) /\ ctx[c].st = "live" => active = c
  /\ IsRun(c) /\ ctx[c].st \in {"loaded", "checked"} => lock = c
  /\ IsOrder(c) /\ Live(c) => lock = c
  /\ IsOrder(c) /\ Owner(c) => active = 0
  /\ worker = "gone" => ~Live(c)
  /\ IsRun(c) /\ ctx[c].st = "live" /\ ~ctx[c].broken => row[c].st = "active"
  /\ ctx[c].st \in {"none", "loaded", "checked"} => row[c].st = "none" /\ row[c].end = "open"

Registered == active # 0 => IsRun(active) /\ ctx[active].st = "live"
OneRun ==
  \A c, d \in Contexts : IsRun(c) /\ IsRun(d) /\ Live(c) /\ Live(d) => c = d

Shape ==
  /\ Typed
  /\ \A c \in Contexts : Placed(c) /\ Beside(c)
  /\ Registered /\ OneRun

(* Contexts keep their kinds.                                              *)
LEMMA SameRoles ==
  ASSUME plan' = plan
  PROVE  /\ Ids' = Ids
         /\ \A c : IsRun(c)' = IsRun(c) /\ IsOrder(c)' = IsOrder(c)
                   /\ IsCatalog(c)' = IsCatalog(c)
  BY DEF Ids, IsRun, IsOrder, IsCatalog

(* An order command that begins during a run takes the lock and uses the   *)
(* registered guard.                                                       *)
LEMMA BorrowShape ==
  ASSUME Shape, NEW c \in Ids, Borrow(c)
  PROVE  Shape'
<1> USE DEF Shape
<1>1. c \in Contexts /\ 0 \notin Contexts /\ Nothing \in Counts
  BY ContextFacts, CountFacts DEF Typed
<1>2. /\ Ids' = Ids
      /\ \A d : IsRun(d)' = IsRun(d) /\ IsOrder(d)' = IsOrder(d) /\ IsCatalog(d)' = IsCatalog(d)
  BY SameRoles DEF Borrow
<1>3. /\ ctx' \in [Contexts -> CtxRecords]
      /\ ctx'[c].st = "live" /\ ctx'[c].guard = active /\ ctx'[c].op = "none"
      /\ \A d \in Contexts : d # c => ctx'[d] = ctx[d]
  BY <1>1, ControlAssumption DEF Borrow, Typed, NoContext, CtxRecords, CtxStates
<1>4. /\ IsOrder(c) /\ ~IsRun(c) /\ active # 0 /\ lock' = c /\ lock = 0 /\ worker # "gone"
      /\ ctx[c].st = "none" /\ active \in Contexts /\ IsRun(active)
      /\ UNCHANGED <<plan, shared, worker, active, quota, saved, row, seen, faults, sent>>
  BY <1>1 DEF Borrow, MayBegin, Locked, Typed, Registered, IsOrder, IsRun
<1>5. Typed'
  BY <1>1, <1>2, <1>3, <1>4 DEF Typed
<1>6. ASSUME NEW d \in Contexts
      PROVE  Placed(d)' /\ Beside(d)'
  <2>1. CASE d = c
    BY <1>1, <1>2, <1>3, <1>4, <2>1 DEF Placed, Beside, Live, OwnsGuard, Owner, Guard, IsCatalog, IsOrder
  <2>2. CASE d # c
    BY <1>1, <1>2, <1>3, <1>4, <2>2 DEF Placed, Beside, Live, OwnsGuard, Owner, Guard
  <2> QED  BY <2>1, <2>2
<1>7. Registered'
  BY <1>1, <1>2, <1>3, <1>4 DEF Registered
<1>8. OneRun'
  BY <1>1, <1>2, <1>3, <1>4 DEF OneRun, Live
<1> QED  BY <1>5, <1>6, <1>7, <1>8

(* A context that begins with a guard of its own: a run finds no other     *)
(* run, a run and an order command find the lock free, and the latter no   *)
(* registered guard.                                                       *)
LEMMA LoadShape ==
  ASSUME Shape, NEW c \in Ids, LoadCounters(c)
  PROVE  Shape'
<1> USE DEF Shape
<1>1. c \in Contexts /\ 0 \notin Contexts /\ Nothing \in Counts /\ DailyCounters \in Counts
  BY ContextFacts, CountFacts, FoldType DEF Typed, DailyCounters, CountSum
<1>2. /\ Ids' = Ids
      /\ \A d : IsRun(d)' = IsRun(d) /\ IsOrder(d)' = IsOrder(d) /\ IsCatalog(d)' = IsCatalog(d)
  BY SameRoles DEF LoadCounters
<1>3. /\ ctx' \in [Contexts -> CtxRecords]
      /\ ctx'[c].st = "loaded" /\ ctx'[c].guard = c /\ ctx'[c].op = "none"
      /\ \A d \in Contexts : d # c => ctx'[d] = ctx[d]
  BY <1>1, ControlAssumption DEF LoadCounters, Typed, NoContext, CtxRecords, CtxStates
<1>4. /\ lock' = (IF IsCatalog(c) THEN lock ELSE c)
      /\ IsRun(c) => worker = "up" /\ lock = 0 /\ \A d \in Contexts : IsRun(d) => ~Live(d)
      /\ IsOrder(c) => worker # "gone" /\ lock = 0 /\ active = 0
      /\ IsCatalog(c) => worker # "gone" /\ shared
      /\ IsRun(c) => ~IsOrder(c) /\ ~IsCatalog(c)
      /\ IsOrder(c) => ~IsCatalog(c)
      /\ IsRun(c) \/ IsOrder(c) \/ IsCatalog(c)
      /\ ctx[c].st = "none"
      /\ UNCHANGED <<plan, shared, worker, active, quota, saved, row, seen, faults, sent>>
  <2>1. plan[c] \in ContextKinds
    BY ControlAssumption DEF Typed, Ids
  <2> QED  BY <1>1, <2>1 DEF LoadCounters, MayBegin, NoRun, Locked, IsOrder, IsRun, IsCatalog, ContextKinds
<1>5. Typed'
  BY <1>1, <1>2, <1>3, <1>4 DEF Typed
<1>6. ASSUME NEW d \in Contexts
      PROVE  Placed(d)' /\ Beside(d)'
  <2>1. CASE d = c
    BY <1>1, <1>2, <1>3, <1>4, <2>1 DEF Placed, Beside, Live, OwnsGuard, Owner, Guard
  <2>2. CASE d # c
    BY <1>1, <1>2, <1>3, <1>4, <2>2 DEF Placed, Beside, Live, OwnsGuard, Owner, Guard
  <2> QED  BY <2>1, <2>2
<1>7. Registered'
  BY <1>1, <1>2, <1>3, <1>4 DEF Registered, Typed
<1>8. OneRun'
  BY <1>1, <1>2, <1>3, <1>4 DEF OneRun, Live
<1> QED  BY <1>5, <1>6, <1>7, <1>8

(* A guard that has checked the history is at work as before.              *)
LEMMA CheckShape ==
  ASSUME Shape, NEW c \in Ids, CheckHistory(c)
  PROVE  Shape'
<1> USE DEF Shape
<1>1. c \in Contexts /\ 0 \notin Contexts
  BY ContextFacts DEF Typed
<1>2. /\ Ids' = Ids
      /\ \A d : IsRun(d)' = IsRun(d) /\ IsOrder(d)' = IsOrder(d) /\ IsCatalog(d)' = IsCatalog(d)
  BY SameRoles DEF CheckHistory
<1>3. /\ ctx' \in [Contexts -> CtxRecords]
      /\ ctx'[c].st = "checked" /\ ctx'[c].guard = ctx[c].guard /\ ctx'[c].op = ctx[c].op
      /\ \A d \in Contexts : d # c => ctx'[d] = ctx[d]
  <2>1. (IncompleteHistory /\ ctx[c].today) \in BOOLEAN
    OBVIOUS
  <2>2. ctx[c] \in CtxRecords
    BY <1>1 DEF Typed
  <2> QED  BY <1>1, <2>1, <2>2 DEF CheckHistory, Typed, CtxRecords, CtxStates
<1>4. /\ ctx[c].st = "loaded"
      /\ UNCHANGED <<plan, shared, worker, lock, active, quota, saved, row, seen, faults, sent>>
  BY DEF CheckHistory
<1>5. Typed'
  BY <1>1, <1>2, <1>3, <1>4 DEF Typed
<1>6. ASSUME NEW d \in Contexts
      PROVE  Placed(d)' /\ Beside(d)'
  <2>1. CASE d = c
    BY <1>1, <1>2, <1>3, <1>4, <2>1 DEF Placed, Beside, Live, OwnsGuard, Owner, Guard
  <2>2. CASE d # c
    BY <1>1, <1>2, <1>3, <1>4, <2>2 DEF Placed, Beside, Live, OwnsGuard, Owner, Guard
  <2> QED  BY <2>1, <2>2
<1>7. Registered'
  BY <1>1, <1>2, <1>3, <1>4 DEF Registered, Typed
<1>8. OneRun'
  BY <1>1, <1>2, <1>3, <1>4 DEF OneRun, Live
<1> QED  BY <1>5, <1>6, <1>7, <1>8

(* A run that is ready gives the lock to its registration. Nobody else     *)
(* had either: it held the lock, and no other run is at work.              *)
LEMMA ReadyShape ==
  ASSUME Shape, NEW c \in Ids, InsertRow(c) \/ InsertFails(c)
  PROVE  Shape'
<1> USE DEF Shape
<1>1. c \in Contexts /\ 0 \notin Contexts
  BY ContextFacts DEF Typed
<1>2. UNCHANGED <<plan, shared, worker, saved, seen, sent>> /\ ctx[c].st = "checked"
  BY DEF InsertRow, InsertFails
<1>3. /\ Ids' = Ids
      /\ \A d : IsRun(d)' = IsRun(d) /\ IsOrder(d)' = IsOrder(d) /\ IsCatalog(d)' = IsCatalog(d)
  BY <1>2, SameRoles
<1>4. PICK broken \in BOOLEAN :
        /\ Ready(c, broken)
        /\ row' = (IF broken THEN row ELSE [row EXCEPT ![c].st = "active"])
        /\ faults' \in Nat
  <2>1. CASE InsertRow(c)
    <3>1. Ready(c, FALSE) /\ row' = [row EXCEPT ![c].st = "active"]
      BY <2>1 DEF InsertRow
    <3>2. faults' \in Nat
      BY <2>1 DEF InsertRow, Typed
    <3>3. row' = IF FALSE THEN row ELSE [row EXCEPT ![c].st = "active"]
      BY <3>1
    <3> WITNESS FALSE \in BOOLEAN
    <3> HIDE DEF Ready
    <3> QED  BY ONLY <3>1, <3>2, <3>3
  <2>2. CASE InsertFails(c)
    <3>1. Ready(c, TRUE) /\ row' = row
      BY <2>2 DEF InsertFails
    <3>2. faults' \in Nat
      BY <2>2 DEF InsertFails, Typed
    <3>3. row' = IF TRUE THEN row ELSE [row EXCEPT ![c].st = "active"]
      BY <3>1
    <3> WITNESS TRUE \in BOOLEAN
    <3> HIDE DEF Ready
    <3> QED  BY ONLY <3>1, <3>2, <3>3
  <2> QED  BY <2>1, <2>2
<1>5. /\ ctx' \in [Contexts -> CtxRecords]
      /\ ctx'[c].st = "live" /\ ctx'[c].guard = ctx[c].guard /\ ctx'[c].op = ctx[c].op
      /\ ctx'[c].broken = broken
      /\ \A d \in Contexts : d # c => ctx'[d] = ctx[d]
  <2>1. ctx[c] \in CtxRecords
    BY <1>1 DEF Typed
  <2> QED  BY <1>1, <1>4, <2>1 DEF Ready, Typed, CtxRecords, CtxStates
<1>6. /\ active' = (IF IsRun(c) THEN c ELSE active) /\ lock' = (IF IsRun(c) THEN 0 ELSE lock)
      /\ quota' \in Counts
  <2>1. ctx[c].base \in Counts /\ quota \in Counts
    BY <1>1 DEF Typed, CtxRecords
  <2>2. Larger(quota, ctx[c].base) \in Counts
    BY <2>1, CountFacts
  <2> QED  BY <1>4, <2>1, <2>2 DEF Ready, IsRun
<1>7. /\ row' \in [Contexts -> RowRecords]
      /\ \A d \in Contexts : d # c => row'[d] = row[d]
      /\ ~broken => row'[c].st = "active"
      /\ broken => row'[c] = row[c]
      /\ row[c].st = "none" /\ row[c].end = "open" /\ row'[c].end = "open"
  BY <1>1, <1>2, <1>4 DEF Typed, RowRecords, Beside
<1>8. Typed'
  <2>1. \A d \in Contexts : row'[d].st = "active" <=> row'[d].st # "none" /\ row'[d].end = "open"
    BY <1>1, <1>7 DEF Typed
  <2> QED  BY <1>1, <1>2, <1>3, <1>4, <1>5, <1>6, <1>7, <2>1 DEF Typed
<1>9. ASSUME NEW d \in Contexts
      PROVE  Placed(d)' /\ Beside(d)'
  <2>1. CASE d = c
    BY <1>1, <1>2, <1>3, <1>5, <1>6, <1>7, <2>1
    DEF Placed, Beside, Live, OwnsGuard, Owner, Guard, IsRun, IsOrder
  <2>2. CASE d # c
    BY <1>1, <1>2, <1>3, <1>5, <1>6, <1>7, <2>2
    DEF Placed, Beside, OneRun, Live, OwnsGuard, Owner, Guard, IsRun, IsOrder
  <2> QED  BY <2>1, <2>2
<1>10. Registered'
  BY <1>1, <1>2, <1>3, <1>5, <1>6 DEF Registered, Typed
<1>11. OneRun'
  BY <1>1, <1>2, <1>3, <1>5 DEF OneRun, Live
<1> QED  BY <1>8, <1>9, <1>10, <1>11

(* Steps after which every context is in the state it was in.              *)
LEMMA ShapeKept ==
  ASSUME Shape, Typed', UNCHANGED <<plan, shared, lock, active>>,
         worker' = worker \/ worker' # "gone",
         \A d \in Contexts :
           /\ ctx'[d].st = ctx[d].st /\ ctx'[d].guard = ctx[d].guard
           /\ ctx'[d].broken = ctx[d].broken
           /\ ctx'[d].op \in {"none", ctx[d].op}
              \/ (ctx[d].st = "live" /\ (ctx'[d].op \in Risk => IsRun(d)))
           /\ ctx[d].st = "live" => row'[d].st = row[d].st
           /\ ctx[d].st \in {"none", "loaded", "checked"} => row'[d] = row[d]
  PROVE  Shape'
<1> USE DEF Shape
<1>1. 0 \notin Contexts /\ Ids \subseteq Contexts
  BY ContextFacts DEF Typed
<1>2. /\ Ids' = Ids
      /\ \A d : IsRun(d)' = IsRun(d) /\ IsOrder(d)' = IsOrder(d) /\ IsCatalog(d)' = IsCatalog(d)
  BY SameRoles
<1>3. ASSUME NEW d \in Contexts
      PROVE  Placed(d)' /\ Beside(d)'
  BY <1>1, <1>2 DEF Placed, Beside, Live, OwnsGuard, Owner, Guard
<1>4. Registered'
  BY <1>1, <1>2 DEF Registered, Typed
<1>5. OneRun'
  BY <1>1, <1>2 DEF OneRun, Live
<1> QED  BY <1>3, <1>4, <1>5

(* A request: orders are asked for by runs only.                           *)
LEMMA AskShape ==
  ASSUME Shape, NEW c \in Ids, NEW op \in Ops, Ask(c, op)
  PROVE  Shape'
<1>1. c \in Contexts /\ Ids' = Ids
  BY ContextFacts DEF Typed, Shape, Ids, Ask
<1>2. /\ UNCHANGED <<plan, shared, worker, lock, active, quota, saved, row, seen, faults, sent>>
      /\ ctx[c].st = "live" /\ (op \in Risk => IsRun(c))
  BY DEF Ask, MayAsk, IsRun
<1>3. /\ ctx' \in [Contexts -> CtxRecords]
      /\ ctx'[c].st = ctx[c].st /\ ctx'[c].guard = ctx[c].guard
      /\ ctx'[c].broken = ctx[c].broken /\ ctx'[c].op = op
      /\ \A d \in Contexts : d # c => ctx'[d] = ctx[d]
  <2>1. ctx[c] \in CtxRecords
    BY <1>1 DEF Typed, Shape
  <2>2. ctx[c].left \in Nat /\ ctx[c].left > 0
    BY <2>1 DEF CtxRecords, Ask
  <2>3. ctx[c].left - 1 \in Nat
    BY <2>2
  <2> QED  BY <1>1, <2>1, <2>3 DEF Ask, Typed, Shape, CtxRecords
<1>4. Typed'
  BY <1>1, <1>2, <1>3 DEF Typed, Shape, IsRun
<1> QED  BY <1>1, <1>2, <1>3, <1>4, ShapeKept

(* A request that is refused or given up.                                  *)
LEMMA WaitShape ==
  ASSUME Shape, NEW c \in Ids, Block(c) \/ Quit(c)
  PROVE  Shape'
<1>1. c \in Contexts /\ Ids' = Ids
  BY ContextFacts DEF Typed, Shape, Ids, Block, Quit
<1>2. UNCHANGED <<plan, shared, worker, lock, active, quota, saved, row, seen, faults, sent>>
  BY DEF Block, Quit
<1>3. /\ ctx' \in [Contexts -> CtxRecords]
      /\ ctx'[c].st = ctx[c].st /\ ctx'[c].guard = ctx[c].guard
      /\ ctx'[c].broken = ctx[c].broken /\ ctx'[c].op = "none"
      /\ \A d \in Contexts : d # c => ctx'[d] = ctx[d]
  <2>1. ctx[c] \in CtxRecords
    BY <1>1 DEF Typed, Shape
  <2>2. CASE Block(c)
    BY <1>1, <2>1, <2>2 DEF Block, Typed, Shape, CtxRecords
  <2>3. CASE Quit(c)
    BY <1>1, <2>1, <2>3 DEF Quit, Typed, Shape, CtxRecords
  <2> QED  BY <2>2, <2>3
<1>4. Typed'
  BY <1>1, <1>2, <1>3 DEF Typed, Shape, IsRun
<1> QED  BY <1>1, <1>2, <1>3, <1>4, ShapeKept

(* A permit is counted where the request's guard is, which is at work.     *)
LEMMA AllowFacts ==
  ASSUME Shape, NEW c \in Ids, Allow(c)
  PROVE  /\ c \in Contexts /\ ctx[c].st = "live" /\ ctx[c].op \in Ops
         /\ (ctx[c].op \in Risk => IsRun(c))
         /\ Guard(c) \in Ids /\ Guard(c) \in Contexts /\ ctx[Guard(c)].st = "live"
         /\ OwnsGuard(Guard(c)) /\ (IsRun(c) => Guard(c) = c)
         /\ \A d \in Contexts :
              /\ ctx'[d].st = ctx[d].st /\ ctx'[d].guard = ctx[d].guard
              /\ ctx'[d].broken = ctx[d].broken /\ ctx'[d].base = ctx[d].base
              /\ ctx'[d].today = ctx[d].today /\ ctx'[d].bad = ctx[d].bad
              /\ ctx'[d].op \in {"none", ctx[d].op}
              /\ ctx'[d].own =
                   IF d = Guard(c) THEN Incremented(ctx[d].own, ctx[c].op) ELSE ctx[d].own
         /\ ctx' \in [Contexts -> CtxRecords]
<1>1. c \in Contexts /\ 0 \notin Contexts /\ ctx[c] \in CtxRecords
  BY ContextFacts DEF Typed, Shape
<1>2. ctx[c].op # "none" /\ ctx[c].st = "live" /\ ctx[c].op \in Ops /\ (ctx[c].op \in Risk => IsRun(c))
  BY <1>1 DEF Allow, HeadOf, Shape, Placed, CtxRecords
<1>3. /\ Guard(c) \in Ids /\ Guard(c) \in Contexts /\ ctx[Guard(c)].st = "live"
      /\ OwnsGuard(Guard(c)) /\ (IsRun(c) => Guard(c) = c)
  <2>1. CASE OwnsGuard(c)
    BY <1>1, <1>2, <2>1 DEF OwnsGuard, Guard
  <2>2. CASE ~OwnsGuard(c)
    <3>1. IsOrder(c) /\ active # 0 /\ Guard(c) = active
      BY <1>1, <1>2, <2>2 DEF Shape, Placed, Live, Guard
    <3>2. IsRun(active) /\ ctx[active].st = "live" /\ active \in Contexts
      BY <3>1 DEF Shape, Registered, Typed
    <3>3. OwnsGuard(active)
      BY <3>2 DEF Shape, Placed, Live, IsRun, IsOrder
    <3> QED  BY <3>1, <3>2, <3>3 DEF IsRun, IsOrder
  <2> QED  BY <2>1, <2>2
<1>4. Incremented(ctx[Guard(c)].own, ctx[c].op) \in Counts
  <2>1. ctx[Guard(c)].own \in Counts
    BY <1>3 DEF Shape, Typed, CtxRecords
  <2> QED  BY <1>2, <2>1, IncrementedFacts
<1>5. ctx' = [ctx EXCEPT ![Guard(c)].own = Incremented(@, ctx[c].op), ![c].op = "none"]
  BY DEF Allow
<1>6. \A d \in Contexts :
        /\ ctx'[d].st = ctx[d].st /\ ctx'[d].guard = ctx[d].guard
        /\ ctx'[d].broken = ctx[d].broken /\ ctx'[d].base = ctx[d].base
        /\ ctx'[d].today = ctx[d].today /\ ctx'[d].bad = ctx[d].bad
        /\ ctx'[d].op \in {"none", ctx[d].op}
        /\ ctx'[d].own =
             IF d = Guard(c) THEN Incremented(ctx[d].own, ctx[c].op) ELSE ctx[d].own
  BY <1>1, <1>3, <1>5 DEF Shape, Typed, CtxRecords
<1>7. ctx' \in [Contexts -> CtxRecords]
  BY <1>1, <1>3, <1>4, <1>5 DEF Shape, Typed, CtxRecords
<1> QED  BY <1>1, <1>2, <1>3, <1>6, <1>7

(* A permit leaves everybody in place.                                     *)
LEMMA AllowShape ==
  ASSUME Shape, NEW c \in Ids, Allow(c)
  PROVE  Shape'
<1>1. /\ UNCHANGED <<plan, shared, worker, lock, active, saved, row, seen, faults>>
      /\ Ids' = Ids /\ c \in Contexts /\ ctx[c].op \in Ops
  BY AllowFacts DEF Allow, Ids
<1>2. quota' \in Counts /\ sent' \in Counts
  <2>1. Incremented(quota, ctx[c].op) \in Counts /\ Incremented(sent, ctx[c].op) \in Counts
    BY <1>1, IncrementedFacts DEF Shape, Typed
  <2> QED  BY <2>1 DEF Allow, Shape, Typed
<1>3. ctx' \in [Contexts -> CtxRecords]
  BY AllowFacts
<1>4. Typed'
  BY <1>1, <1>2, <1>3 DEF Typed, Shape, IsRun
<1> QED  BY <1>1, <1>4, AllowFacts, ShapeKept

(* The sampling marks no row of a run that is at work.                     *)
LEMMA MonitorShape ==
  ASSUME Shape, MonitorReads \/ MonitorMarks
  PROVE  Shape'
<1>1. UNCHANGED <<plan, shared, worker, ctx, lock, active, quota, saved, faults, sent>>
  BY DEF MonitorReads, MonitorMarks
<1>2. 0 \notin Contexts /\ Ids \subseteq Contexts /\ IsFiniteSet(Ids) /\ Contexts \subseteq Nat
  BY ContextFacts DEF Typed, Shape
<1>3. Ids' = Ids
  BY <1>1 DEF Ids
<1>4. CASE MonitorReads
  <2> DEFINE S == {0} \cup {c \in Ids : plan[c] = "run" /\ row[c].st # "none"}
  <2>1. S \subseteq Nat /\ IsFiniteSet(S) /\ S # {}
    <3>1. IsFiniteSet({c \in Ids : plan[c] = "run" /\ row[c].st # "none"})
      BY <1>2, FS_Subset
    <3>2. S = {c \in Ids : plan[c] = "run" /\ row[c].st # "none"} \cup {0}
      OBVIOUS
    <3>3. IsFiniteSet(S)
      BY <3>1, <3>2, FS_AddElement
    <3>4. 0 \in S
      OBVIOUS
    <3>5. ASSUME NEW s \in S
          PROVE  s \in Nat
      <4>1. s = 0 \/ s \in Ids
        OBVIOUS
      <4>2. s \in Ids => s \in Nat
        BY <1>2
      <4> QED  BY <4>1, <4>2
    <3> QED  BY <3>3, <3>4, <3>5
  <2>2. LatestRun \in S
    BY <2>1, MaxFacts DEF LatestRun
  <2>3. seen' = LatestRun /\ LatestRun # 0 /\ row' = row
    BY <1>4 DEF MonitorReads
  <2>4. seen' \in Contexts /\ IsRun(seen') /\ row[seen'].st # "none"
    BY <1>2, <2>2, <2>3 DEF IsRun
  <2>5. Typed'
    BY <1>1, <1>3, <2>3, <2>4 DEF Typed, Shape, IsRun
  <2> QED  BY <1>1, <2>3, <2>5, ShapeKept
<1>5. CASE MonitorMarks
  <2>1. seen \in Contexts /\ IsRun(seen) /\ row[seen].st # "none" /\ seen' = 0
    BY <1>5 DEF MonitorMarks, Shape, Typed
  <2>2. row' \in [Contexts -> RowRecords]
    BY <1>5, <2>1 DEF MonitorMarks, Marked, Shape, Typed, RowRecords
  <2>3. \A d \in Contexts :
          \/ row'[d] = row[d]
          \/ d = seen /\ ShowsFailure(d) /\ row'[d].st = "incomplete" /\ row'[d].end = "today"
    BY <1>5, <2>1 DEF MonitorMarks, Marked, Shape, Typed, RowRecords
  <2>4. \A d \in Contexts : IsRun(d) /\ ShowsFailure(d) => ctx[d].st # "live"
    BY <1>2 DEF Shape, Beside, ShowsFailure, Live
  <2>5. \A d \in Contexts : ctx[d].st \in {"none", "loaded", "checked"} => row'[d] = row[d]
    BY <2>1, <2>3 DEF Shape, Beside
  <2>6. Typed'
    BY <1>1, <1>2, <2>1, <2>2, <2>3 DEF Typed, Shape
  <2> QED  BY <1>1, <2>1, <2>3, <2>4, <2>5, <2>6, ShapeKept
<1> QED  BY <1>4, <1>5

(* A new worker has no contexts.                                           *)
LEMMA NewWorkerShape ==
  ASSUME Shape, NewWorker
  PROVE  Shape'
<1>1. /\ UNCHANGED <<plan, shared, ctx, lock, active, quota, saved, row, seen, faults, sent>>
      /\ worker' = "up"
  BY DEF NewWorker
<1>2. Typed'
  BY <1>1 DEF Typed, Shape, IsRun, Ids
<1> QED  BY <1>1, <1>2, ShapeKept

(* What the end of a minute does, bucket by bucket.                        *)
LEMMA MinuteFacts ==
  ASSUME Shape, NextMinute
  PROVE  /\ UNCHANGED <<plan, shared, worker, lock, active, row, seen, faults>>
         /\ quota' \in Counts /\ sent' \in Counts /\ saved' \in [Contexts -> Counts]
         /\ ctx' \in [Contexts -> CtxRecords]
         /\ \A b \in Buckets :
              /\ quota'[b] = IF b[2] = "minute" THEN 0 ELSE quota[b]
              /\ sent'[b] = IF b[2] = "minute" THEN 0 ELSE sent[b]
         /\ \A d \in Contexts :
              /\ ctx'[d].st = ctx[d].st /\ ctx'[d].guard = ctx[d].guard
              /\ ctx'[d].broken = ctx[d].broken /\ ctx'[d].op = ctx[d].op
              /\ ctx'[d].today = ctx[d].today /\ ctx'[d].bad = ctx[d].bad
              /\ \A b \in Buckets :
                   /\ ctx'[d].own[b] = IF b[2] = "minute" THEN 0 ELSE ctx[d].own[b]
                   /\ ctx'[d].base[b] = IF b[2] = "minute" THEN 0 ELSE ctx[d].base[b]
                   /\ saved'[d][b] = IF b[2] = "minute" THEN 0 ELSE saved[d][b]
<1> DEFINE spans == {"minute"}
<1>1. \A x \in Counts :
        /\ Emptied(x, spans) \in Counts
        /\ \A b \in Buckets : Emptied(x, spans)[b] = IF b[2] \in spans THEN 0 ELSE x[b]
  BY EmptiedFacts
<1>2. /\ quota' = Emptied(quota, spans) /\ sent' = Emptied(sent, spans)
      /\ saved' = [d \in Contexts |-> Emptied(saved[d], spans)]
      /\ ctx' = [d \in Contexts |-> [ctx[d] EXCEPT !.own = Emptied(@, spans),
                                                   !.base = Emptied(@, spans)]]
      /\ UNCHANGED <<plan, shared, worker, lock, active, row, seen, faults>>
  BY DEF NextMinute, Forgets
<1>3. \A s : s \in spans <=> s = "minute"
  OBVIOUS
<1> HIDE DEF spans
<1>4. ASSUME NEW d \in Contexts
      PROVE  /\ ctx[d] \in CtxRecords /\ ctx[d].own \in Counts /\ ctx[d].base \in Counts
             /\ saved[d] \in Counts
  BY DEF Shape, Typed, CtxRecords
<1>5. \A d \in Contexts :
        /\ ctx'[d] = [ctx[d] EXCEPT !.own = Emptied(ctx[d].own, spans),
                                    !.base = Emptied(ctx[d].base, spans)]
        /\ saved'[d] = Emptied(saved[d], spans)
  BY <1>2, <1>4 DEF CtxRecords
<1>6. ASSUME NEW d \in Contexts
      PROVE  ctx'[d] \in CtxRecords /\ saved'[d] \in Counts
  <2>1. /\ Emptied(ctx[d].own, spans) \in Counts /\ Emptied(ctx[d].base, spans) \in Counts
        /\ Emptied(saved[d], spans) \in Counts
    BY <1>1, <1>4
  <2> QED  BY <1>4, <1>5, <2>1 DEF CtxRecords
<1>7. ctx' \in [Contexts -> CtxRecords] /\ saved' \in [Contexts -> Counts]
  BY <1>2, <1>6
<1>8. quota \in Counts /\ sent \in Counts
  BY DEF Shape, Typed
<1>9. ASSUME NEW d \in Contexts
      PROVE  /\ ctx'[d].st = ctx[d].st /\ ctx'[d].guard = ctx[d].guard
             /\ ctx'[d].broken = ctx[d].broken /\ ctx'[d].op = ctx[d].op
             /\ ctx'[d].today = ctx[d].today /\ ctx'[d].bad = ctx[d].bad
             /\ ctx'[d].own = Emptied(ctx[d].own, spans)
             /\ ctx'[d].base = Emptied(ctx[d].base, spans)
  BY <1>4, <1>5 DEF CtxRecords
<1>10. ASSUME NEW d \in Contexts, NEW b \in Buckets
       PROVE  /\ ctx'[d].own[b] = IF b[2] = "minute" THEN 0 ELSE ctx[d].own[b]
              /\ ctx'[d].base[b] = IF b[2] = "minute" THEN 0 ELSE ctx[d].base[b]
              /\ saved'[d][b] = IF b[2] = "minute" THEN 0 ELSE saved[d][b]
  <2>1. ctx[d].own \in Counts /\ ctx[d].base \in Counts /\ saved[d] \in Counts
    BY <1>4
  <2>2. /\ Emptied(ctx[d].own, spans)[b] = IF b[2] \in spans THEN 0 ELSE ctx[d].own[b]
        /\ Emptied(ctx[d].base, spans)[b] = IF b[2] \in spans THEN 0 ELSE ctx[d].base[b]
        /\ Emptied(saved[d], spans)[b] = IF b[2] \in spans THEN 0 ELSE saved[d][b]
    BY <1>1, <2>1
  <2>3. /\ ctx'[d].own = Emptied(ctx[d].own, spans) /\ ctx'[d].base = Emptied(ctx[d].base, spans)
        /\ saved'[d] = Emptied(saved[d], spans)
    BY <1>5, <1>9
  <2> QED  BY <1>3, <2>2, <2>3
<1>11. /\ quota' \in Counts /\ sent' \in Counts
       /\ \A b \in Buckets :
            /\ quota'[b] = IF b[2] = "minute" THEN 0 ELSE quota[b]
            /\ sent'[b] = IF b[2] = "minute" THEN 0 ELSE sent[b]
  BY <1>1, <1>2, <1>3, <1>8
<1> QED  BY <1>2, <1>7, <1>9, <1>10, <1>11

(* The end of a minute leaves everybody in place.                          *)
LEMMA MinuteShape ==
  ASSUME Shape, NextMinute
  PROVE  Shape'
<1>1. Typed'
  BY MinuteFacts DEF Typed, Shape, IsRun, Ids
<1> QED  BY <1>1, MinuteFacts, ShapeKept

(* What the end of a day does, bucket by bucket.                           *)
LEMMA DayFacts ==
  ASSUME Shape, NextDay
  PROVE  /\ UNCHANGED <<plan, shared, worker, lock, active, seen, faults>>
         /\ quota' \in Counts /\ sent' \in Counts /\ saved' \in [Contexts -> Counts]
         /\ ctx' \in [Contexts -> CtxRecords]
         /\ row' \in [Contexts -> RowRecords]
         /\ \A b \in Buckets : quota'[b] = 0 /\ sent'[b] = 0
         /\ \A d \in Contexts :
              /\ ctx'[d].st = ctx[d].st /\ ctx'[d].guard = ctx[d].guard
              /\ ctx'[d].broken = ctx[d].broken /\ ctx'[d].op = ctx[d].op
              /\ ~ctx'[d].today /\ ~ctx'[d].bad
              /\ \A b \in Buckets :
                   ctx'[d].own[b] = 0 /\ ctx'[d].base[b] = 0 /\ saved'[d][b] = 0
              /\ row'[d].st = row[d].st
              /\ row'[d].end = IF row[d].end = "today" THEN "earlier" ELSE row[d].end
<1>1. \A x \in Counts :
        /\ Emptied(x, Spans) \in Counts
        /\ \A b \in Buckets : Emptied(x, Spans)[b] = 0
  BY EmptiedFacts DEF Buckets
<1>2. /\ quota' = Emptied(quota, Spans) /\ sent' = Emptied(sent, Spans)
      /\ saved' = [d \in Contexts |-> Emptied(saved[d], Spans)]
      /\ ctx' = [d \in Contexts |-> [ctx[d] EXCEPT !.own = Nothing, !.base = Nothing,
                                                   !.today = FALSE, !.bad = FALSE]]
      /\ row' = [d \in Contexts |->
                   IF row[d].end = "today" THEN [row[d] EXCEPT !.end = "earlier"] ELSE row[d]]
      /\ UNCHANGED <<plan, shared, worker, lock, active, seen, faults>>
  BY DEF NextDay, Forgets
<1>3. ASSUME NEW d \in Contexts
      PROVE  ctx[d] \in CtxRecords /\ saved[d] \in Counts /\ row[d] \in RowRecords
  BY DEF Shape, Typed
<1>4. Nothing \in Counts /\ (\A b \in Buckets : Nothing[b] = 0) /\ quota \in Counts /\ sent \in Counts
  BY CountFacts DEF Shape, Typed
<1>5. ASSUME NEW d \in Contexts
      PROVE  /\ ctx'[d] \in CtxRecords
             /\ ctx'[d].st = ctx[d].st /\ ctx'[d].guard = ctx[d].guard
             /\ ctx'[d].broken = ctx[d].broken /\ ctx'[d].op = ctx[d].op
             /\ ~ctx'[d].today /\ ~ctx'[d].bad
             /\ ctx'[d].own = Nothing /\ ctx'[d].base = Nothing
  BY <1>2, <1>3, <1>4 DEF CtxRecords
<1>6. ASSUME NEW d \in Contexts
      PROVE  /\ row'[d] \in RowRecords /\ row'[d].st = row[d].st
             /\ row'[d].end = IF row[d].end = "today" THEN "earlier" ELSE row[d].end
  BY <1>2, <1>3 DEF RowRecords
<1>7. ASSUME NEW d \in Contexts
      PROVE  saved'[d] \in Counts /\ \A b \in Buckets : saved'[d][b] = 0
  BY <1>1, <1>2, <1>3
<1>8. /\ ctx' \in [Contexts -> CtxRecords] /\ saved' \in [Contexts -> Counts]
      /\ row' \in [Contexts -> RowRecords]
  BY <1>2, <1>5, <1>6, <1>7
<1>9. /\ quota' \in Counts /\ sent' \in Counts
      /\ \A b \in Buckets : quota'[b] = 0 /\ sent'[b] = 0
  BY <1>1, <1>2, <1>4
<1>10. ASSUME NEW d \in Contexts, NEW b \in Buckets
       PROVE  ctx'[d].own[b] = 0 /\ ctx'[d].base[b] = 0 /\ saved'[d][b] = 0
  BY <1>4, <1>5, <1>7
<1> QED  BY <1>2, <1>5, <1>6, <1>8, <1>9, <1>10

(* The end of a day leaves everybody in place; rows age.                   *)
LEMMA DayShape ==
  ASSUME Shape, NextDay
  PROVE  Shape'
<1>1. Typed'
  <2>1. \A d \in Contexts : row'[d].st = "active" <=> row'[d].st # "none" /\ row'[d].end = "open"
    BY DayFacts DEF Typed, Shape
  <2>2. seen' # 0 => IsRun(seen)' /\ row'[seen'].st # "none"
    BY DayFacts DEF Typed, Shape, IsRun, Ids
  <2> QED  BY <2>1, <2>2, DayFacts DEF Typed, Shape, IsRun
<1>2. \A d \in Contexts : row[d].end = "open" => row'[d] = row[d]
  BY DEF NextDay, Forgets
<1>3. \A d \in Contexts : ctx[d].st \in {"none", "loaded", "checked"} => row'[d] = row[d]
  BY <1>2 DEF Shape, Beside
<1> QED  BY <1>1, <1>3, DayFacts, ShapeKept

(* A context ends, and takes the lock and its registration with it.        *)
EndsIn(c, st) ==
  /\ ctx[c].st = "live" /\ st \in {"done", "failed"}
  /\ ctx' = [ctx EXCEPT ![c] = Ended(st)]
  /\ lock' = Freed(c)
  /\ active' = IF active = c THEN 0 ELSE active
  /\ worker' \in {worker, "spoiled"}
  /\ IsRun(c) => lock = 0 /\ OwnsGuard(c)
  /\ row' = row \/ row' = [row EXCEPT ![c] = IF @.st = "none" THEN @ ELSE [st |-> "closed", end |-> "today"]]
  /\ UNCHANGED <<plan, shared, quota, seen, sent>>

(* The three ways to end have this in common.                              *)
LEMMA EndFacts ==
  ASSUME Shape, NEW c \in Ids, Flush(c) \/ FlushFails(c) \/ FlushBorrowed(c)
  PROVE  /\ EndsIn(c, "done") \/ EndsIn(c, "failed")
         /\ saved' \in [Contexts -> Counts] /\ faults' \in Nat
<1>1. c \in Contexts /\ Ids \subseteq Contexts /\ 0 \notin Contexts
  BY ContextFacts DEF Shape, Typed
<1>2. ctx[c].own \in Counts /\ saved[c] \in Counts /\ saved \in [Contexts -> Counts] /\ faults \in Nat
  BY <1>1 DEF Shape, Typed, CtxRecords
<1>3. CASE Flush(c)
  <2>1. Merged(c) \in Counts
    BY <1>2 DEF Merged, Counts, Buckets
  <2>2. saved' \in [Contexts -> Counts] /\ faults' \in Nat
    BY <1>1, <1>2, <1>3, <2>1 DEF Flush
  <2>3. EndsIn(c, "done")
    BY <1>1, <1>3 DEF Flush, MayEnd, Done, EndsIn, IsRun
  <2> QED  BY <2>2, <2>3
<1>4. CASE FlushFails(c)
  <2>1. EndsIn(c, "failed")
    BY <1>1, <1>4 DEF FlushFails, MayEnd, Done, EndsIn, IsRun
  <2>2. saved' \in [Contexts -> Counts] /\ faults' \in Nat
    BY <1>2, <1>4 DEF FlushFails
  <2> QED  BY <2>1, <2>2
<1>5. CASE FlushBorrowed(c)
  <2>1. IsOrder(c) /\ ctx[c].st = "live" /\ active # c
    BY <1>1, <1>5 DEF FlushBorrowed, Done, Shape, Placed, Registered, Live, IsOrder, IsRun
  <2>2. ~IsRun(c)
    BY <2>1 DEF IsOrder, IsRun
  <2>3. EndsIn(c, "done")
    BY <1>5, <2>1, <2>2 DEF FlushBorrowed, EndsIn
  <2>4. saved' \in [Contexts -> Counts] /\ faults' \in Nat
    BY <1>2, <1>5 DEF FlushBorrowed
  <2> QED  BY <2>3, <2>4
<1> QED  BY <1>3, <1>4, <1>5

(* When a run ends the lock is free, so no order command is using its      *)
(* guard.                                                                  *)
LEMMA EndShape ==
  ASSUME Shape, NEW c \in Ids, NEW st, EndsIn(c, st),
         saved' \in [Contexts -> Counts], faults' \in Nat
  PROVE  Shape'
<1>1. c \in Contexts /\ Ids \subseteq Contexts /\ 0 \notin Contexts /\ Nothing \in Counts
  BY ContextFacts, CountFacts DEF Shape, Typed
<1>2. /\ Ids' = Ids
      /\ \A d : IsRun(d)' = IsRun(d) /\ IsOrder(d)' = IsOrder(d) /\ IsCatalog(d)' = IsCatalog(d)
  BY SameRoles DEF EndsIn
<1>3. /\ ctx' \in [Contexts -> CtxRecords]
      /\ ctx'[c].st = st /\ ctx'[c].op = "none"
      /\ \A d \in Contexts : d # c => ctx'[d] = ctx[d]
  <2>1. Ended(st) \in CtxRecords /\ Ended(st).st = st /\ Ended(st).op = "none"
    BY <1>1 DEF EndsIn, Ended, NoContext, CtxRecords, CtxStates
  <2> QED  BY <1>1, <2>1 DEF EndsIn, Shape, Typed
<1>4. /\ ctx[c].st = "live" /\ st \in {"done", "failed"}
      /\ lock' = (IF lock = c THEN 0 ELSE lock)
      /\ active' = IF active = c THEN 0 ELSE active
      /\ worker' \in {worker, "spoiled"}
      /\ IsRun(c) => lock = 0 /\ OwnsGuard(c)
      /\ UNCHANGED <<plan, shared, quota, seen, sent>>
  BY DEF EndsIn, Freed
<1>5. /\ row' \in [Contexts -> RowRecords]
      /\ \A d \in Contexts : d # c => row'[d] = row[d]
      /\ \/ row'[c] = row[c]
         \/ row'[c] = [st |-> "closed", end |-> "today"] /\ row[c].st # "none"
  <2> DEFINE closed == [st |-> "closed", end |-> "today"]
  <2>3. row \in [Contexts -> RowRecords] /\ closed \in RowRecords
    BY DEF Shape, Typed, RowRecords
  <2> HIDE DEF closed
  <2>1. CASE row' = row
    BY <2>1, <2>3
  <2>2. CASE row' = [row EXCEPT ![c] = IF @.st = "none" THEN @ ELSE closed]
    BY <1>1, <2>2, <2>3 DEF closed
  <2> QED  BY <2>1, <2>2 DEF EndsIn, closed
<1>6. Typed'
  BY <1>1, <1>2, <1>3, <1>4, <1>5 DEF Shape, Typed
<1>7. ASSUME NEW d \in Contexts
      PROVE  Placed(d)' /\ Beside(d)'
  <2>1. CASE d = c
    BY <1>1, <1>2, <1>3, <1>4, <1>5, <2>1
    DEF Shape, Placed, Beside, Live, OwnsGuard, Owner, Guard, IsRun, IsCatalog
  <2>2. CASE d # c
    <3>1. ctx'[d] = ctx[d] /\ row'[d] = row[d]
      BY <1>3, <1>5, <2>2
    <3>2. lock = d => lock' = d
      BY <1>4, <2>2
    <3>3. active = c => IsRun(c) /\ lock = 0
      BY <1>1, <1>4 DEF Shape, Registered
    <3> QED  BY <1>1, <1>2, <1>4, <2>2, <3>1, <3>2, <3>3
             DEF Shape, Placed, Beside, Live, OwnsGuard, Owner, Guard
  <2> QED  BY <2>1, <2>2
<1>8. Registered'
  BY <1>1, <1>2, <1>3, <1>4 DEF Shape, Registered, Typed
<1>9. OneRun'
  BY <1>1, <1>2, <1>3, <1>4 DEF Shape, OneRun, Live
<1> QED  BY <1>6, <1>7, <1>8, <1>9 DEF Shape

(* A context that ends keeps the invariant.                                *)
LEMMA EndedShape ==
  ASSUME Shape, NEW c \in Ids, Flush(c) \/ FlushFails(c) \/ FlushBorrowed(c)
  PROVE  Shape'
  BY EndFacts, EndShape

(* What is left when the process is gone.                                  *)
LEMMA LossFacts ==
  ASSUME Shape, LoseWorker \/ RestartServer
  PROVE  /\ UNCHANGED <<plan, shared, saved, sent>>
         /\ lock' = 0 /\ active' = 0 /\ quota' = Nothing /\ worker' = "gone"
         /\ ctx' \in [Contexts -> CtxRecords]
         /\ \A d \in Contexts :
              IF Live(d) THEN /\ ctx'[d].st = "lost" /\ ctx'[d].op = "none"
                              /\ ctx'[d].own = Nothing /\ ~ctx'[d].broken /\ ~ctx'[d].bad
                         ELSE ctx'[d] = ctx[d]
         /\ row' \in [Contexts -> RowRecords]
         /\ \A d \in Contexts :
              \/ row'[d] = row[d]
              \/ row[d].st = "active" /\ row'[d] = [st |-> "incomplete", end |-> "today"]
         /\ seen' \in {0, seen} /\ faults' \in Nat
<1>1. ProcessEnds /\ UNCHANGED <<plan, shared, saved, sent>>
  BY DEF LoseWorker, RestartServer
<1>2. Ended("lost") \in CtxRecords
  BY CountFacts DEF Ended, NoContext, CtxRecords, CtxStates
<1>3. /\ ctx' \in [Contexts -> CtxRecords]
      /\ \A d \in Contexts : ctx'[d] = IF Live(d) THEN Ended("lost") ELSE ctx[d]
  BY <1>1, <1>2 DEF ProcessEnds, Shape, Typed
<1>4. /\ Ended("lost").st = "lost" /\ Ended("lost").op = "none" /\ Ended("lost").own = Nothing
      /\ ~Ended("lost").broken /\ ~Ended("lost").bad
  BY DEF Ended, NoContext
<1>5. /\ row' \in [Contexts -> RowRecords]
      /\ \A d \in Contexts :
           \/ row'[d] = row[d]
           \/ row[d].st = "active" /\ row'[d] = [st |-> "incomplete", end |-> "today"]
      /\ seen' \in {0, seen} /\ faults' \in Nat
  <2>1. CASE LoseWorker
    BY <2>1 DEF LoseWorker, Shape, Typed
  <2>2. CASE RestartServer
    <3>1. ASSUME NEW d \in Contexts
          PROVE  /\ row'[d] \in RowRecords
                 /\ \/ row'[d] = row[d]
                    \/ row[d].st = "active" /\ row'[d] = [st |-> "incomplete", end |-> "today"]
      BY <2>2 DEF RestartServer, Marked, Shape, Typed, RowRecords
    <3>2. row' \in [Contexts -> RowRecords]
      BY <2>2, <3>1 DEF RestartServer
    <3> QED  BY <2>2, <3>1, <3>2 DEF RestartServer, Shape, Typed
  <2> QED  BY <2>1, <2>2
<1> QED  BY <1>1, <1>3, <1>4, <1>5 DEF ProcessEnds

(* Nobody is at work after the process is gone.                            *)
LEMMA LossShape ==
  ASSUME Shape, LoseWorker \/ RestartServer
  PROVE  Shape'
<1>1. Ids \subseteq Contexts /\ 0 \notin Contexts /\ Nothing \in Counts
  BY ContextFacts, CountFacts DEF Shape, Typed
<1>2. /\ Ids' = Ids
      /\ \A d : IsRun(d)' = IsRun(d) /\ IsOrder(d)' = IsOrder(d) /\ IsCatalog(d)' = IsCatalog(d)
  BY SameRoles, LossFacts
<1>3. Typed'
  BY <1>1, <1>2, LossFacts DEF Shape, Typed
<1>4. \A d \in Contexts : ~Live(d)' /\ (ctx'[d].st = ctx[d].st \/ ctx'[d].st = "lost")
                          /\ ctx'[d].op = "none"
  BY LossFacts DEF Live, Shape, Placed
<1>5. ASSUME NEW d \in Contexts
      PROVE  Placed(d)' /\ Beside(d)'
  <2>1. ctx'[d].st \in {"none", "loaded", "checked"} => ctx'[d].st = "none" /\ row'[d] = row[d]
    BY <1>4, LossFacts DEF Shape, Beside, Live
  <2>2. ~shared /\ IsCatalog(d) => ctx'[d].st = "none"
    BY LossFacts DEF Shape, Placed, Live
  <2> QED  BY <1>2, <1>4, <2>1, <2>2, LossFacts DEF Shape, Placed, Beside, Live, Owner
<1>6. Registered' /\ OneRun'
  BY <1>4, LossFacts DEF Registered, OneRun
<1> QED  BY <1>3, <1>5, <1>6 DEF Shape

(* At first no context has begun.                                          *)
LEMMA InitShape ==
  ASSUME Init
  PROVE  Shape
<1>1. plan \in Kinds /\ Nothing \in Counts
  BY CountFacts DEF Init
<1>2. Ids \subseteq Contexts /\ 0 \notin Contexts
  BY <1>1, ContextFacts
<1>3. NoContext \in CtxRecords
  BY <1>1 DEF NoContext, CtxRecords, CtxStates
<1>4. Typed
  BY <1>1, <1>3, ControlAssumption DEF Init, Typed, RowRecords
<1>5. \A c \in Contexts : ctx[c].st = "none" /\ ctx[c].op = "none" /\ row[c].st = "none"
                          /\ row[c].end = "open"
  BY DEF Init, NoContext
<1>6. \A c \in Contexts : Placed(c) /\ Beside(c)
  BY <1>5 DEF Placed, Beside, Live, Owner
<1>7. Registered /\ OneRun
  BY <1>5 DEF Registered, OneRun, Live, Init
<1> QED  BY <1>4, <1>6, <1>7 DEF Shape

(* Every step keeps contexts in their places.                              *)
LEMMA NextShape ==
  ASSUME Shape, [Next]_vars
  PROVE  Shape'
<1>1. ASSUME NEW c \in Ids,
             \/ Borrow(c) \/ LoadCounters(c) \/ CheckHistory(c)
             \/ InsertRow(c) \/ InsertFails(c)
             \/ \E op \in Ops : Ask(c, op)
             \/ Block(c) \/ Allow(c) \/ Quit(c)
             \/ Flush(c) \/ FlushFails(c) \/ FlushBorrowed(c)
      PROVE  Shape'
  BY <1>1, BorrowShape, LoadShape, CheckShape, ReadyShape, AskShape, WaitShape, AllowShape,
     EndedShape
<1>2. CASE LoseWorker \/ NewWorker \/ RestartServer \/ MonitorReads \/ MonitorMarks
           \/ NextMinute \/ NextDay
  BY <1>2, LossShape, NewWorkerShape, MonitorShape, MinuteShape, DayShape
<1>3. CASE UNCHANGED vars
  <2>1. UNCHANGED <<plan, shared, worker, ctx, lock, active, quota, saved, row, seen, faults, sent>>
    BY <1>3 DEF vars
  <2>2. Typed'
    BY <2>1 DEF Shape, Typed, IsRun, Ids
  <2> QED  BY <2>1, <2>2, ShapeKept
<1> QED  BY <1>1, <1>2, <1>3 DEF Next

-----------------------------------------------------------------------------
(* The invariant: what contexts hold.  Only a guard that is at work has    *)
(* counts of its own, only a context that has ended has saved any; only    *)
(* runs open positions, and none whose row could not be written.           *)
RiskBuckets == Risk \X Spans
Empty(x) == \A b \in Buckets : x[b] = 0
Held(c) ==
  /\ (ctx[c].st = "live" /\ OwnsGuard(c)) \/ Empty(ctx[c].own)
  /\ ctx[c].st = "done" \/ Empty(saved[c])
  /\ \A b \in RiskBuckets :
       /\ IsRun(c) \/ (ctx[c].own[b] = 0 /\ saved[c][b] = 0)
       /\ ctx[c].broken => ctx[c].own[b] = 0
Holdings == \A c \in Contexts : Held(c)

(* The buckets of orders are buckets; no counts are empty.                 *)
LEMMA RiskFacts ==
  /\ RiskBuckets \subseteq Buckets
  /\ \A b \in Buckets : b \in RiskBuckets <=> b[1] \in Risk
  /\ Empty(Nothing)
  BY ControlAssumption, CountFacts DEF RiskBuckets, Buckets, Empty

(* Steps that add no counts.                                               *)
LEMMA HoldingsKept ==
  ASSUME Shape, Holdings, plan' = plan,
         \A d \in Contexts :
           /\ \/ Empty(ctx'[d].own)
              \/ /\ ctx'[d].st = ctx[d].st /\ ctx'[d].guard = ctx[d].guard
                 /\ ctx'[d].broken = ctx[d].broken
                 /\ \A b \in Buckets : ctx'[d].own[b] \in {0, ctx[d].own[b]}
           /\ ctx[d].st = "done" => ctx'[d].st = "done"
           /\ \A b \in Buckets : saved'[d][b] \in {0, saved[d][b]}
  PROVE  Holdings'
<1>1. \A d : IsRun(d)' = IsRun(d)
  BY SameRoles
<1>2. ASSUME NEW d \in Contexts
      PROVE  Held(d)'
  <2>1. Held(d)
    BY DEF Holdings
  <2>2. ((ctx[d].st = "live" /\ OwnsGuard(d)) \/ Empty(ctx[d].own))'
    BY <2>1 DEF Held, Empty, OwnsGuard, Guard
  <2>3. (ctx[d].st = "done" \/ Empty(saved[d]))'
    BY <2>1 DEF Held, Empty
  <2>4. ASSUME NEW b \in RiskBuckets
        PROVE  /\ IsRun(d)' \/ (ctx'[d].own[b] = 0 /\ saved'[d][b] = 0)
               /\ ctx'[d].broken => ctx'[d].own[b] = 0
    <3>1. b \in Buckets
      BY RiskFacts
    <3>2. /\ IsRun(d) \/ (ctx[d].own[b] = 0 /\ saved[d][b] = 0)
          /\ ctx[d].broken => ctx[d].own[b] = 0
      BY <2>1 DEF Held
    <3>3. saved'[d][b] \in {0, saved[d][b]}
      BY <3>1
    <3>4. CASE Empty(ctx'[d].own)
      <4>1. ctx'[d].own[b] = 0
        BY <3>1, <3>4 DEF Empty
      <4> QED  BY <1>1, <3>2, <3>3, <4>1
    <3>5. CASE ~Empty(ctx'[d].own)
      <4>1. ctx'[d].own[b] \in {0, ctx[d].own[b]} /\ ctx'[d].broken = ctx[d].broken
        BY <3>1, <3>5
      <4> QED  BY <1>1, <3>2, <3>3, <4>1
    <3> QED  BY <3>4, <3>5
  <2> QED  BY <2>2, <2>3, <2>4 DEF Held, RiskBuckets
<1> QED  BY <1>2 DEF Holdings

(* What the steps of one context do to the counts that it holds.           *)
LEMMA BeginFacts ==
  ASSUME Shape, NEW c \in Ids, Borrow(c) \/ LoadCounters(c)
  PROVE  /\ c \in Contexts /\ ctx[c].st = "none" /\ ctx'[c].own = Nothing
         /\ ctx'[c].st \in {"live", "loaded"}
         /\ \A d \in Contexts : d # c => ctx'[d] = ctx[d]
         /\ UNCHANGED <<plan, shared, worker, active, quota, saved, row, seen, faults, sent>>
<1>1. c \in Contexts
  BY ContextFacts DEF Shape, Typed
<1>2. CASE Borrow(c)
  BY <1>1, <1>2 DEF Borrow, MayBegin, Shape, Typed, NoContext
<1>3. CASE LoadCounters(c)
  BY <1>1, <1>3 DEF LoadCounters, MayBegin, Shape, Typed, NoContext
<1> QED  BY <1>2, <1>3

(* What the check of the history changes.                                  *)
LEMMA CheckFacts ==
  ASSUME Shape, NEW c \in Ids, CheckHistory(c)
  PROVE  /\ c \in Contexts /\ ctx[c].st = "loaded" /\ ctx'[c].st = "checked"
         /\ ctx'[c].own = ctx[c].own /\ ctx'[c].base = ctx[c].base /\ ctx'[c].guard = ctx[c].guard
         /\ ctx'[c].today = ctx[c].today /\ ctx'[c].broken = ctx[c].broken
         /\ ctx'[c].bad = (IncompleteHistory /\ ctx[c].today)
         /\ \A d \in Contexts : d # c => ctx'[d] = ctx[d]
         /\ UNCHANGED <<plan, shared, worker, lock, active, quota, saved, row, seen, faults, sent>>
<1>1. c \in Contexts /\ ctx[c] \in CtxRecords
  BY ContextFacts DEF Shape, Typed
<1> QED  BY <1>1 DEF CheckHistory, Shape, Typed, CtxRecords

(* What getting ready changes.                                             *)
LEMMA ReadyFacts ==
  ASSUME Shape, NEW c \in Ids, InsertRow(c) \/ InsertFails(c)
  PROVE  /\ c \in Contexts /\ ctx[c].st = "checked" /\ ctx'[c].st = "live"
         /\ ctx'[c].own = ctx[c].own /\ ctx'[c].base = ctx[c].base /\ ctx'[c].guard = ctx[c].guard
         /\ ctx'[c].today = ctx[c].today /\ ctx'[c].bad = ctx[c].bad
         /\ \A d \in Contexts : d # c => ctx'[d] = ctx[d]
         /\ quota' = IF shared THEN Larger(quota, ctx[c].base) ELSE quota
         /\ \A d \in Contexts : d # c => row'[d] = row[d]
         /\ UNCHANGED <<plan, shared, worker, saved, seen, sent>>
<1>1. c \in Contexts /\ ctx[c] \in CtxRecords
  BY ContextFacts DEF Shape, Typed
<1>2. CASE InsertRow(c)
  BY <1>1, <1>2 DEF InsertRow, Ready, Shape, Typed, CtxRecords
<1>3. CASE InsertFails(c)
  BY <1>1, <1>3 DEF InsertFails, Ready, Shape, Typed, CtxRecords
<1> QED  BY <1>2, <1>3

(* A request that is made, refused or given up changes no counts.          *)
LEMMA WaitFacts ==
  ASSUME Shape, NEW c \in Ids, (\E op \in Ops : Ask(c, op)) \/ Block(c) \/ Quit(c)
  PROVE  /\ \A d \in Contexts :
              /\ ctx'[d].st = ctx[d].st /\ ctx'[d].guard = ctx[d].guard
              /\ ctx'[d].own = ctx[d].own /\ ctx'[d].base = ctx[d].base
              /\ ctx'[d].today = ctx[d].today /\ ctx'[d].bad = ctx[d].bad
              /\ ctx'[d].broken = ctx[d].broken
         /\ UNCHANGED <<plan, shared, worker, lock, active, quota, saved, row, seen, faults, sent>>
<1>1. c \in Contexts /\ \A d \in Contexts : ctx[d] \in CtxRecords
  BY ContextFacts DEF Shape, Typed
<1>2. CASE \E op \in Ops : Ask(c, op)
  <2>1. PICK op \in Ops : Ask(c, op)
    BY <1>2
  <2>2. /\ ctx' = [ctx EXCEPT ![c].op = op, ![c].left = @ - 1]
        /\ UNCHANGED <<plan, shared, worker, lock, active, quota, saved, row, seen, faults, sent>>
    BY <2>1 DEF Ask
  <2> QED  BY <1>1, <2>2 DEF Shape, Typed, CtxRecords
<1>3. CASE Block(c)
  BY <1>1, <1>3 DEF Block, Shape, Typed, CtxRecords
<1>4. CASE Quit(c)
  BY <1>1, <1>4 DEF Quit, Shape, Typed, CtxRecords
<1> QED  BY <1>2, <1>3, <1>4

(* A context that ends without writing has nothing any more.               *)
LEMMA LeaveFacts ==
  ASSUME Shape, NEW c \in Ids, FlushFails(c) \/ FlushBorrowed(c)
  PROVE  /\ c \in Contexts /\ ctx[c].st = "live" /\ ctx'[c].st \in {"failed", "done"}
         /\ (ctx'[c].st = "done" => ~OwnsGuard(c))
         /\ ctx'[c].own = Nothing /\ ~ctx'[c].broken /\ ~ctx'[c].bad
         /\ \A d \in Contexts : d # c => ctx'[d] = ctx[d]
         /\ UNCHANGED <<plan, shared, quota, saved, row, seen, sent>>
<1>1. c \in Contexts
  BY ContextFacts DEF Shape, Typed
<1>2. \A st : /\ Ended(st).st = st /\ Ended(st).own = Nothing
              /\ ~Ended(st).broken /\ ~Ended(st).bad
  BY DEF Ended, NoContext
<1>3. CASE FlushFails(c)
  <2>1. /\ ctx' = [ctx EXCEPT ![c] = Ended("failed")] /\ ctx[c].st = "live"
        /\ UNCHANGED <<plan, shared, quota, saved, row, seen, sent>>
    BY <1>3 DEF FlushFails, MayEnd, Done
  <2> QED  BY <1>1, <1>2, <2>1 DEF Shape, Typed
<1>4. CASE FlushBorrowed(c)
  <2>1. /\ ctx' = [ctx EXCEPT ![c] = Ended("done")] /\ ctx[c].st = "live" /\ ~OwnsGuard(c)
        /\ UNCHANGED <<plan, shared, quota, saved, row, seen, sent>>
    BY <1>4 DEF FlushBorrowed, Done
  <2> QED  BY <1>1, <1>2, <2>1 DEF Shape, Typed
<1> QED  BY <1>3, <1>4

(* A flush moves the counts of the guard to the database. It has written   *)
(* none before, so nothing there stands in the way.                        *)
LEMMA FlushFacts ==
  ASSUME Shape, Holdings, NEW c \in Ids, Flush(c)
  PROVE  /\ c \in Contexts /\ ctx[c].st = "live" /\ ctx'[c].st = "done" /\ OwnsGuard(c)
         /\ ctx'[c].own = Nothing /\ ~ctx'[c].broken /\ ~ctx'[c].bad
         /\ \A d \in Contexts : d # c => ctx'[d] = ctx[d] /\ saved'[d] = saved[d] /\ row'[d] = row[d]
         /\ \A b \in Buckets : saved'[c][b] = ctx[c].own[b] /\ saved[c][b] = 0
         /\ row'[c].st # "active" /\ (row'[c].st = "incomplete" => row[c].st = "incomplete")
         /\ UNCHANGED <<plan, shared, quota, worker, seen, faults, sent>>
<1>1. c \in Contexts
  BY ContextFacts DEF Shape, Typed
<1>2. /\ Ended("done").st = "done" /\ Ended("done").own = Nothing
      /\ ~Ended("done").broken /\ ~Ended("done").bad
  BY DEF Ended, NoContext
<1>3. /\ ctx' = [ctx EXCEPT ![c] = Ended("done")] /\ ctx[c].st = "live" /\ OwnsGuard(c)
      /\ saved' = [saved EXCEPT ![c] = Merged(c)]
      /\ UNCHANGED <<plan, shared, quota, worker, seen, faults, sent>>
  BY DEF Flush, MayEnd, Done
<1>4. row' = [row EXCEPT ![c] = IF @.st = "none" THEN @ ELSE [st |-> "closed", end |-> "today"]]
  BY DEF Flush
<1>5. /\ row'[c].st # "active" /\ (row'[c].st = "incomplete" => row[c].st = "incomplete")
      /\ \A d \in Contexts : d # c => row'[d] = row[d]
  BY <1>1, <1>4 DEF Shape, Typed
<1>6. \A b \in Buckets : saved[c][b] = 0
  BY <1>1, <1>3 DEF Holdings, Held, Empty
<1>7. \A b \in Buckets : Merged(c)[b] = ctx[c].own[b]
  BY <1>6 DEF Merged, Buckets
<1>8. \A b \in Buckets : saved'[c][b] = ctx[c].own[b]
  BY <1>1, <1>3, <1>7 DEF Shape, Typed
<1>9. \A d \in Contexts : d # c => ctx'[d] = ctx[d] /\ saved'[d] = saved[d]
  BY <1>1, <1>3 DEF Shape, Typed
<1>10. ctx'[c] = Ended("done")
  BY <1>1, <1>3 DEF Shape, Typed
<1> QED  BY <1>1, <1>2, <1>3, <1>5, <1>6, <1>8, <1>9, <1>10

(* The sampling and a new worker change no counts, and at most the row of  *)
(* a context that is not at work.                                          *)
LEMMA MonitorFacts ==
  ASSUME Shape, MonitorReads \/ MonitorMarks \/ NewWorker
  PROVE  /\ UNCHANGED <<plan, shared, ctx, lock, active, quota, saved, faults, sent>>
         /\ \A d \in Contexts :
              \/ row'[d] = row[d]
              \/ ctx[d].st # "live" /\ row'[d].st = "incomplete" /\ row'[d].end = "today"
                 /\ (worker = "gone" \/ ctx[d].st = "failed")
<1>1. CASE MonitorReads \/ NewWorker
  BY <1>1 DEF MonitorReads, NewWorker
<1>2. CASE MonitorMarks
  <2>1. seen \in Contexts /\ IsRun(seen)
    BY <1>2 DEF MonitorMarks, Shape, Typed
  <2>2. UNCHANGED <<plan, shared, ctx, lock, active, quota, saved, faults, sent>>
    BY <1>2 DEF MonitorMarks
  <2>3. \A d \in Contexts :
          \/ row'[d] = row[d]
          \/ d = seen /\ ShowsFailure(d) /\ row'[d].st = "incomplete" /\ row'[d].end = "today"
    BY <1>2, <2>1 DEF MonitorMarks, Marked, Shape, Typed, RowRecords
  <2>4. \A d \in Contexts : IsRun(d) /\ ShowsFailure(d) =>
          ctx[d].st # "live" /\ (worker = "gone" \/ ctx[d].st = "failed")
    BY DEF Shape, Beside, ShowsFailure, Live
  <2> QED  BY <2>1, <2>2, <2>3, <2>4
<1> QED  BY <1>1, <1>2

(* A permit is counted by a guard that is at work, and one for an order    *)
(* by a run whose row was written.                                         *)
LEMMA AllowHoldings ==
  ASSUME Shape, Holdings, NEW c \in Ids, Allow(c)
  PROVE  Holdings'
<1>1. saved' = saved /\ plan' = plan /\ ~Unsafe(c)
  BY DEF Allow
<1>2. \A d : IsRun(d)' = IsRun(d)
  BY <1>1, SameRoles
<1>3. ASSUME NEW d \in Contexts
      PROVE  Held(d)'
  <2>1. Held(d)
    BY DEF Holdings
  <2>2. /\ ctx'[d].st = ctx[d].st /\ ctx'[d].guard = ctx[d].guard /\ ctx'[d].broken = ctx[d].broken
        /\ ctx'[d].own = IF d = Guard(c) THEN Incremented(ctx[d].own, ctx[c].op) ELSE ctx[d].own
    BY AllowFacts
  <2>3. CASE d # Guard(c)
    BY <1>1, <1>2, <2>1, <2>2, <2>3 DEF Held, OwnsGuard, Guard, Empty, RiskBuckets
  <2>4. CASE d = Guard(c)
    <3>1. /\ ctx[d].st = "live" /\ OwnsGuard(d) /\ ctx[c].op \in Ops
          /\ (ctx[c].op \in Risk => IsRun(d) /\ d = c)
          /\ ctx[d].own \in Counts
      BY <2>4, AllowFacts DEF Shape, Typed, CtxRecords
    <3>2. \A b \in Buckets :
            ctx'[d].own[b] = IF b[1] = ctx[c].op THEN ctx[d].own[b] + 1 ELSE ctx[d].own[b]
      BY <2>2, <2>4, <3>1, IncrementedFacts
    <3>3. ctx[c].op \in Risk => ~ctx[d].broken
      BY <1>1, <2>4, <3>1 DEF Unsafe
    <3>4. (ctx[d].st = "live" /\ OwnsGuard(d))'
      BY <2>2, <3>1 DEF OwnsGuard, Guard
    <3>5. (ctx[d].st = "done" \/ Empty(saved[d]))'
      BY <1>1, <2>1, <2>2 DEF Held, Empty
    <3>6. ASSUME NEW b \in RiskBuckets
          PROVE  /\ IsRun(d)' \/ (ctx'[d].own[b] = 0 /\ saved'[d][b] = 0)
                 /\ ctx'[d].broken => ctx'[d].own[b] = 0
      <4>1. b \in Buckets /\ b[1] \in Risk
        BY RiskFacts
      <4>2. /\ IsRun(d) \/ (ctx[d].own[b] = 0 /\ saved[d][b] = 0)
            /\ ctx[d].broken => ctx[d].own[b] = 0
        BY <2>1 DEF Held
      <4> QED  BY <1>1, <1>2, <2>2, <3>1, <3>2, <3>3, <4>1, <4>2
    <3> QED  BY <3>4, <3>5, <3>6 DEF Held, RiskBuckets
  <2> QED  BY <2>3, <2>4
<1> QED  BY <1>3 DEF Holdings

(* What a flush writes is of a context that has ended.                     *)
LEMMA FlushHoldings ==
  ASSUME Shape, Holdings, NEW c \in Ids, Flush(c)
  PROVE  Holdings'
<1>1. \A d : IsRun(d)' = IsRun(d)
  BY SameRoles, FlushFacts
<1>2. ASSUME NEW d \in Contexts
      PROVE  Held(d)'
  <2>1. Held(d)
    BY DEF Holdings
  <2>2. CASE d # c
    <3>1. ctx'[d] = ctx[d] /\ saved'[d] = saved[d]
      BY <2>2, FlushFacts
    <3> QED  BY <1>1, <2>1, <3>1 DEF Held, OwnsGuard, Guard, Empty, RiskBuckets
  <2>3. CASE d = c
    <3>1. ctx'[d].st = "done" /\ Empty(ctx'[d].own) /\ ~ctx'[d].broken
      BY <2>3, FlushFacts, RiskFacts
    <3>2. ASSUME NEW b \in RiskBuckets
          PROVE  IsRun(d)' \/ (ctx'[d].own[b] = 0 /\ saved'[d][b] = 0)
      <4>1. b \in Buckets
        BY RiskFacts
      <4>2. IsRun(d) \/ ctx[d].own[b] = 0
        BY <2>1 DEF Held
      <4>3. saved'[d][b] = ctx[d].own[b]
        BY <2>3, <4>1, FlushFacts
      <4> QED  BY <1>1, <3>1, <4>1, <4>2, <4>3 DEF Empty
    <3> QED  BY <3>1, <3>2 DEF Held, Empty, RiskBuckets
  <2> QED  BY <2>2, <2>3
<1> QED  BY <1>2 DEF Holdings

(* Every step keeps what contexts hold.                                    *)
LEMMA NextHoldings ==
  ASSUME Shape, Holdings, [Next]_vars
  PROVE  Holdings'
<1>1. ASSUME NEW c \in Ids, Borrow(c) \/ LoadCounters(c)
      PROVE  Holdings'
  BY <1>1, BeginFacts, RiskFacts, HoldingsKept
<1>2. ASSUME NEW c \in Ids, CheckHistory(c)
      PROVE  Holdings'
  <2>1. c \in Contexts /\ Empty(ctx[c].own)
    BY <1>2, CheckFacts DEF Holdings, Held
  <2> QED  BY <1>2, <2>1, CheckFacts, HoldingsKept
<1>3. ASSUME NEW c \in Ids, InsertRow(c) \/ InsertFails(c)
      PROVE  Holdings'
  <2>1. c \in Contexts /\ Empty(ctx[c].own)
    BY <1>3, ReadyFacts DEF Holdings, Held
  <2> QED  BY <1>3, <2>1, ReadyFacts, HoldingsKept
<1>4. ASSUME NEW c \in Ids, (\E op \in Ops : Ask(c, op)) \/ Block(c) \/ Quit(c)
      PROVE  Holdings'
  BY <1>4, WaitFacts, HoldingsKept
<1>5. ASSUME NEW c \in Ids, FlushFails(c) \/ FlushBorrowed(c)
      PROVE  Holdings'
  BY <1>5, LeaveFacts, RiskFacts, HoldingsKept
<1>6. CASE LoseWorker \/ RestartServer
  <2>1. \A d \in Contexts : ctx[d].st = "done" => ctx'[d].st = "done"
    BY <1>6, LossFacts DEF Live
  <2> QED  BY <1>6, <2>1, LossFacts, RiskFacts, HoldingsKept
<1>7. CASE MonitorReads \/ MonitorMarks \/ NewWorker
  BY <1>7, MonitorFacts, HoldingsKept
<1>8. CASE NextMinute
  BY <1>8, MinuteFacts, HoldingsKept
<1>9. CASE NextDay
  BY <1>9, DayFacts, HoldingsKept DEF Empty
<1>10. CASE UNCHANGED vars
  BY <1>10, HoldingsKept DEF vars
<1>11. ASSUME NEW c \in Ids, Allow(c) \/ Flush(c)
      PROVE  Holdings'
  BY <1>11, AllowHoldings, FlushHoldings
<1> QED  BY <1>1, <1>2, <1>3, <1>4, <1>5, <1>6, <1>7, <1>8, <1>9, <1>10, <1>11 DEF Next

(* At first nobody holds anything.                                         *)
LEMMA InitHoldings ==
  ASSUME Init
  PROVE  Holdings
<1>1. \A c \in Contexts : Empty(ctx[c].own) /\ Empty(saved[c])
  BY RiskFacts DEF Init, NoContext
<1> QED  BY <1>1, RiskFacts DEF Holdings, Held, Empty

-----------------------------------------------------------------------------
(* The invariant: what was permitted is saved, held or lost.               *)
Together == [c \in Contexts |-> Plus(saved[c], ctx[c].own)]
Total == CountSum(Together)
NoneLost == \A c \in Contexts : ctx[c].st \notin {"failed", "lost"}
RiskExact == \A b \in RiskBuckets : sent[b] = Total[b]

(* A row tells of counts that were lost today.                             *)
Tells(d) ==
  /\ IsRun(d) /\ ctx[d].st \in {"failed", "lost"}
  /\ row[d].st \in {"active", "incomplete"} /\ row[d].end # "earlier"
Hiding == \E d \in Contexts : Tells(d)

(* A run that trusts what it read: nobody told of lost counts, or they are *)
(* those of a day before.                                                  *)
Trusts(c) ==
  /\ IsRun(c) /\ Live(c)
  /\ ctx[c].today => ctx[c].st # "loaded" /\ ~ctx[c].bad

Exact ==
  /\ NoneLost => \A b \in Buckets : sent[b] = Total[b]
  /\ Hiding \/ RiskExact
  /\ \A c \in Contexts : Trusts(c) => RiskExact

(* The types of the sums.                                                  *)
LEMMA TotalFacts ==
  ASSUME Shape
  PROVE  /\ Together \in [Contexts -> Counts] /\ Total \in Counts /\ DailyCounters \in Counts
         /\ IsFiniteSet(Contexts)
         /\ \A d \in Contexts : \A b \in Buckets :
              /\ saved[d][b] \in Nat /\ ctx[d].own[b] \in Nat
              /\ ctx[d].base[b] \in Nat /\ Together[d][b] = saved[d][b] + ctx[d].own[b]
<1>1. IsFiniteSet(Contexts)
  BY ContextFacts DEF Shape, Typed
<1>2. ASSUME NEW d \in Contexts
      PROVE  saved[d] \in Counts /\ ctx[d].own \in Counts /\ ctx[d].base \in Counts
  BY DEF Shape, Typed, CtxRecords
<1>3. Together \in [Contexts -> Counts]
  BY <1>2, CountFacts DEF Together
<1>4. Total \in Counts /\ DailyCounters \in Counts
  <2>1. saved \in [Contexts -> Counts]
    BY DEF Shape, Typed
  <2>2. CountSum(saved) \in Counts /\ CountSum(Together) \in Counts
    BY <1>1, <1>3, <2>1, FoldType
  <2> QED  BY <2>2 DEF Total, DailyCounters, CountSum
<1>5. ASSUME NEW d \in Contexts, NEW b \in Buckets
      PROVE  /\ saved[d][b] \in Nat /\ ctx[d].own[b] \in Nat
             /\ ctx[d].base[b] \in Nat /\ Together[d][b] = saved[d][b] + ctx[d].own[b]
  <2>1. saved[d][b] \in Nat /\ ctx[d].own[b] \in Nat /\ ctx[d].base[b] \in Nat
    BY <1>2 DEF Counts
  <2>2. Together[d] = Plus(saved[d], ctx[d].own)
    BY DEF Together
  <2> QED  BY <1>2, <2>1, <2>2, CountFacts
<1> QED  BY <1>1, <1>3, <1>4, <1>5

(* The total in a bucket of which at most one context holds any.           *)
LEMMA TotalOfOne ==
  ASSUME Shape, NEW c \in Contexts, NEW b \in Buckets,
         \A d \in Contexts : d # c => ctx[d].own[b] = 0
  PROVE  Total[b] = DailyCounters[b] + ctx[c].own[b]
<1>1. /\ saved \in [Contexts -> Counts] /\ Together \in [Contexts -> Counts]
      /\ IsFiniteSet(Contexts)
  BY TotalFacts DEF Shape, Typed
<1>2. ASSUME NEW d \in Contexts
      PROVE  /\ Together[d][b] = saved[d][b] + ctx[d].own[b]
             /\ saved[d][b] \in Nat /\ ctx[d].own[b] \in Nat
  BY TotalFacts
<1>3. \A d \in Contexts : d # c => saved[d][b] = Together[d][b]
  BY <1>2
<1>4. CountSum(Together)[b] + saved[c][b] = CountSum(saved)[b] + Together[c][b]
  BY <1>1, <1>3, FoldCompare
<1>5. Total[b] + saved[c][b] = DailyCounters[b] + Together[c][b]
  BY <1>4 DEF Total, DailyCounters, CountSum
<1>6. Total[b] \in Nat /\ DailyCounters[b] \in Nat
  BY TotalFacts DEF Counts
<1> QED  BY <1>2, <1>5, <1>6

(* The types of the sums after a step.                                     *)
LEMMA TotalFactsNext ==
  ASSUME Shape, Shape'
  PROVE  /\ Together' \in [Contexts -> Counts] /\ Total' \in Counts
         /\ \A d \in Contexts : \A b \in Buckets :
              /\ saved'[d][b] \in Nat /\ ctx'[d].own[b] \in Nat
              /\ Together'[d][b] = saved'[d][b] + ctx'[d].own[b]
<1>1. /\ Together' = [d \in Contexts |-> Plus(saved'[d], ctx'[d].own)]
      /\ Total' = CountSum(Together')
  BY DEF Together, Total, CountSum
<1>2. ASSUME NEW d \in Contexts
      PROVE  saved'[d] \in Counts /\ ctx'[d].own \in Counts
  BY DEF Shape, Typed, CtxRecords
<1>3. Together' \in [Contexts -> Counts]
  BY <1>1, <1>2, CountFacts
<1>4. IsFiniteSet(Contexts)
  BY TotalFacts
<1>5. Total' \in Counts
  BY <1>1, <1>3, <1>4, FoldType
<1>6. ASSUME NEW d \in Contexts, NEW b \in Buckets
      PROVE  /\ saved'[d][b] \in Nat /\ ctx'[d].own[b] \in Nat
             /\ Together'[d][b] = saved'[d][b] + ctx'[d].own[b]
  <2>1. Together'[d] = Plus(saved'[d], ctx'[d].own)
    BY <1>1
  <2> QED  BY <1>2, <2>1, CountFacts DEF Counts
<1> QED  BY <1>3, <1>5, <1>6

(* What a step leaves in the saved counts and those held.                  *)
LEMMA TotalSame ==
  ASSUME Shape, Shape', plan' = plan, NEW b \in Buckets,
         \A d \in Contexts : saved'[d][b] + ctx'[d].own[b] = saved[d][b] + ctx[d].own[b]
  PROVE  Total'[b] = Total[b]
<1>1. /\ Together \in [Contexts -> Counts] /\ IsFiniteSet(Contexts)
      /\ \A d \in Contexts : Together[d][b] = saved[d][b] + ctx[d].own[b]
  BY TotalFacts
<1>2. /\ Together' \in [Contexts -> Counts]
      /\ \A d \in Contexts : Together'[d][b] = saved'[d][b] + ctx'[d].own[b]
  BY TotalFactsNext
<1>3. \A d \in Contexts : Together[d][b] = Together'[d][b]
  BY <1>1, <1>2
<1>4. CountSum(Together')[b] = CountSum(Together)[b]
  BY <1>1, <1>2, <1>3, FoldSame
<1> QED  BY <1>4 DEF Total, CountSum

(* Steps that permit nothing and lose nothing.                             *)
LEMMA ExactKept ==
  ASSUME Shape, Shape', Exact, plan' = plan, sent' = sent,
         NoneLost' => NoneLost,
         Hiding => Hiding',
         \A c \in Contexts : Trusts(c)' => RiskExact,
         \A d \in Contexts : \A b \in Buckets :
           saved'[d][b] + ctx'[d].own[b] = saved[d][b] + ctx[d].own[b]
  PROVE  Exact'
<1>1. \A b \in Buckets : Total'[b] = Total[b]
  BY TotalSame
<1>2. RiskExact => RiskExact'
  BY <1>1, RiskFacts DEF RiskExact, RiskBuckets
<1>3. NoneLost' => \A b \in Buckets : sent'[b] = Total'[b]
  BY <1>1 DEF Exact
<1>4. Hiding' \/ RiskExact'
  BY <1>2 DEF Exact
<1>5. \A c \in Contexts : Trusts(c)' => RiskExact'
  BY <1>2
<1> QED  BY <1>3, <1>4, <1>5 DEF Exact

(* A run that checks the history and finds no row that tells of lost       *)
(* counts has reason to trust what it read: if there was anything, a row   *)
(* would tell.                                                             *)
LEMMA CheckExact ==
  ASSUME Shape, Shape', Exact, NEW c \in Ids, CheckHistory(c)
  PROVE  Exact'
<1>1. \A d : IsRun(d)' = IsRun(d)
  BY CheckFacts, SameRoles
<1>2. NoneLost' => NoneLost
  BY CheckFacts DEF NoneLost
<1>3. Hiding => Hiding'
  <2>1. \A d \in Contexts : Tells(d) => Tells(d)'
    BY <1>1, CheckFacts DEF Tells
  <2> QED  BY <2>1 DEF Hiding
<1>4. ASSUME NEW e \in Contexts, Trusts(e)'
      PROVE  RiskExact
  <2>1. CASE e # c
    <3>1. Trusts(e)
      BY <1>1, <1>4, <2>1, CheckFacts DEF Trusts, Live
    <3> QED  BY <3>1 DEF Exact
  <2>2. CASE e = c /\ ~ctx[c].today
    <3>1. Trusts(c)
      BY <1>1, <1>4, <2>2, CheckFacts DEF Trusts, Live
    <3> QED  BY <2>2, <3>1 DEF Exact
  <2>3. CASE e = c /\ ctx[c].today
    <3>1. ~IncompleteHistory
      BY <1>4, <2>3, CheckFacts DEF Trusts
    <3>2. ~Hiding
      <4>1. ASSUME NEW d \in Contexts, Tells(d)
            PROVE  FALSE
        <5>1. d \in Ids /\ plan[d] = "run" /\ d # active
          BY <4>1, ContextFacts DEF Tells, IsRun, Shape, Registered, Typed
        <5>2. HidesCounts(d)
          BY <4>1, <5>1 DEF Tells, HidesCounts
        <5> QED  BY <3>1, <5>1, <5>2 DEF IncompleteHistory
      <4> QED  BY <4>1 DEF Hiding
    <3> QED  BY <3>2 DEF Exact
  <2> QED  BY <2>1, <2>2, <2>3
<1> QED  BY <1>2, <1>3, <1>4, CheckFacts, ExactKept

(* Steps that may lose what a context holds: nothing can be trusted after  *)
(* them, and where a run held something its row tells.                     *)
LEMMA LossExact ==
  ASSUME Shape, Shape', Holdings, Exact, plan' = plan, sent' = sent, saved' = saved,
         \A d \in Contexts :
           \/ ctx'[d] = ctx[d]
           \/ Live(d) /\ ctx'[d].st \in {"failed", "lost"} /\ ctx'[d].own = Nothing,
         \A d \in Contexts :
           \/ row'[d] = row[d]
           \/ row[d].st = "active" /\ row'[d] = [st |-> "incomplete", end |-> "today"],
         \A c \in Contexts : Trusts(c)' => RiskExact /\ \A d \in Contexts : IsRun(d) => ctx'[d] = ctx[d]
  PROVE  Exact'
<1>1. \A d : IsRun(d)' = IsRun(d)
  BY SameRoles
<1>2. NoneLost' => NoneLost /\ \A d \in Contexts : ctx'[d] = ctx[d]
  BY DEF NoneLost, Live
<1>3. Hiding => Hiding'
  <2>1. ASSUME NEW d \in Contexts, Tells(d)
        PROVE  Tells(d)'
    <3>1. ctx'[d] = ctx[d]
      BY <2>1 DEF Tells, Live
    <3>2. row'[d].st \in {"active", "incomplete"} /\ row'[d].end # "earlier"
      BY <2>1 DEF Tells
    <3> QED  BY <1>1, <2>1, <3>1, <3>2 DEF Tells
  <2> QED  BY <2>1 DEF Hiding
<1>4. NoneLost' => \A b \in Buckets : sent'[b] = Total'[b]
  <2>1. SUFFICES ASSUME NoneLost', NEW b \in Buckets
                 PROVE  sent'[b] = Total'[b]
    OBVIOUS
  <2>2. sent[b] = Total[b]
    BY <1>2, <2>1 DEF Exact
  <2>3. Total'[b] = Total[b]
    BY <1>2, <2>1, TotalSame
  <2> QED  BY <2>2, <2>3
<1>5. ASSUME RiskExact,
             \A d \in Contexts : \A b \in RiskBuckets : ctx'[d].own[b] = ctx[d].own[b]
      PROVE  RiskExact'
  <2>1. ASSUME NEW b \in RiskBuckets
        PROVE  sent'[b] = Total'[b]
    <3>1. b \in Buckets
      BY RiskFacts
    <3>2. Total'[b] = Total[b]
      BY <1>5, <3>1, TotalSame
    <3> QED  BY <1>5, <3>2 DEF RiskExact
  <2> QED  BY <2>1 DEF RiskExact, RiskBuckets
<1>6. ASSUME NEW d \in Contexts, ~Tells(d)', NEW b \in RiskBuckets
      PROVE  ctx'[d].own[b] = ctx[d].own[b]
  <2>1. b \in Buckets
    BY RiskFacts
  <2>2. CASE ctx'[d] = ctx[d]
    BY <2>2
  <2>3. CASE Live(d) /\ ctx'[d].st \in {"failed", "lost"} /\ ctx'[d].own = Nothing
    <3>1. ctx'[d].own[b] = 0
      BY <2>1, <2>3, CountFacts
    <3>2. CASE ~IsRun(d) \/ ctx[d].broken
      BY <3>1, <3>2 DEF Holdings, Held
    <3>3. CASE ctx[d].st \in {"loaded", "checked"}
      BY <2>1, <3>1, <3>3 DEF Holdings, Held, Empty
    <3>4. CASE IsRun(d) /\ ~ctx[d].broken /\ ctx[d].st = "live"
      <4>1. row[d].st = "active" /\ row[d].end = "open"
        BY <3>4 DEF Shape, Beside, Typed
      <4>2. row'[d].st \in {"active", "incomplete"} /\ row'[d].end # "earlier"
        BY <4>1
      <4> QED  BY <1>1, <1>6, <2>3, <3>4, <4>2 DEF Tells
    <3> QED  BY <2>3, <3>2, <3>3, <3>4 DEF Live
  <2> QED  BY <2>2, <2>3
<1>7. Hiding' \/ RiskExact'
  <2>1. SUFFICES ASSUME ~Hiding'
                 PROVE  RiskExact'
    OBVIOUS
  <2>2. \A d \in Contexts : ~Tells(d)'
    BY <2>1 DEF Hiding
  <2>3. RiskExact
    BY <1>3, <2>1 DEF Exact
  <2> QED  BY <1>5, <1>6, <2>2, <2>3
<1>8. ASSUME NEW c \in Contexts, Trusts(c)'
      PROVE  RiskExact'
  <2>1. RiskExact /\ \A d \in Contexts : IsRun(d) => ctx'[d] = ctx[d]
    BY <1>8
  <2>2. ASSUME NEW d \in Contexts, NEW b \in RiskBuckets
        PROVE  ctx'[d].own[b] = ctx[d].own[b]
    <3>1. CASE IsRun(d)
      BY <2>1, <3>1
    <3>2. CASE ~IsRun(d)
      <4>1. ctx[d].own[b] = 0 /\ b \in Buckets
        BY <3>2, RiskFacts DEF Holdings, Held
      <4>2. ctx'[d] = ctx[d] \/ ctx'[d].own[b] = 0
        BY <4>1, CountFacts
      <4> QED  BY <4>1, <4>2
    <3> QED  BY <3>1, <3>2
  <2> QED  BY <1>5, <2>1, <2>2
<1> QED  BY <1>4, <1>7, <1>8 DEF Exact

(* A permit adds the same to what was permitted and to what is held.       *)
LEMMA AllowExact ==
  ASSUME Shape, Shape', Exact, NEW c \in Ids, Allow(c)
  PROVE  Exact'
<1> DEFINE g == Guard(c)  op == ctx[c].op
<1>1. /\ saved' = saved /\ plan' = plan /\ row' = row /\ sent' = Incremented(sent, op)
      /\ g \in Contexts /\ op \in Ops /\ sent \in Counts /\ ctx[g].own \in Counts
      /\ \A d \in Contexts :
           ctx'[d].own = IF d = g THEN Incremented(ctx[d].own, op) ELSE ctx[d].own
  <2>1. saved' = saved /\ plan' = plan /\ row' = row /\ sent' = Incremented(sent, op)
    BY DEF Allow
  <2>2. /\ g \in Contexts /\ op \in Ops
        /\ \A d \in Contexts :
             ctx'[d].own = IF d = g THEN Incremented(ctx[d].own, op) ELSE ctx[d].own
    BY AllowFacts
  <2>3. sent \in Counts /\ ctx[g].own \in Counts
    BY <2>2 DEF Shape, Typed, CtxRecords
  <2> QED  BY <2>1, <2>2, <2>3
<1>2. \A d : IsRun(d)' = IsRun(d)
  BY <1>1, SameRoles
<1> HIDE DEF g, op
<1>3. ASSUME NEW b \in Buckets, sent[b] = Total[b]
      PROVE  sent'[b] = Total'[b]
  <2>1. /\ sent'[b] = IF b[1] = op THEN sent[b] + 1 ELSE sent[b]
        /\ ctx'[g].own[b] = IF b[1] = op THEN ctx[g].own[b] + 1 ELSE ctx[g].own[b]
    BY <1>1, IncrementedFacts
  <2>2. \A d \in Contexts : d # g => ctx'[d].own[b] = ctx[d].own[b]
    BY <1>1
  <2>3. /\ Together \in [Contexts -> Counts] /\ IsFiniteSet(Contexts) /\ Total \in Counts
        /\ \A d \in Contexts : /\ Together[d][b] = saved[d][b] + ctx[d].own[b]
                               /\ saved[d][b] \in Nat /\ ctx[d].own[b] \in Nat
    BY TotalFacts
  <2>4. /\ Together' \in [Contexts -> Counts] /\ Total' \in Counts
        /\ \A d \in Contexts : Together'[d][b] = saved'[d][b] + ctx'[d].own[b]
    BY TotalFactsNext
  <2>5. \A d \in Contexts : d # g => Together[d][b] = Together'[d][b]
    BY <1>1, <2>2, <2>3, <2>4
  <2>6. CountSum(Together')[b] + Together[g][b] = CountSum(Together)[b] + Together'[g][b]
    BY <1>1, <2>3, <2>4, <2>5, FoldCompare
  <2>7. Total'[b] + Together[g][b] = Total[b] + Together'[g][b]
    BY <2>6 DEF Total, CountSum
  <2>8. Total[b] \in Nat /\ Total'[b] \in Nat
    BY <2>3, <2>4 DEF Counts
  <2>9. Together'[g][b] = Together[g][b] + (IF b[1] = op THEN 1 ELSE 0) /\ Together[g][b] \in Nat
    BY <1>1, <2>1, <2>3, <2>4
  <2> QED  BY <1>3, <2>1, <2>7, <2>8, <2>9
<1>4. RiskExact => RiskExact'
  BY <1>3, RiskFacts DEF RiskExact, RiskBuckets
<1>5. NoneLost' => \A b \in Buckets : sent'[b] = Total'[b]
  BY <1>3, AllowFacts DEF NoneLost, Exact
<1>6. Hiding' \/ RiskExact'
  <2>1. \A d \in Contexts : Tells(d) => Tells(d)'
    BY <1>1, <1>2, AllowFacts DEF Tells
  <2> QED  BY <1>4, <2>1 DEF Exact, Hiding
<1>7. \A d \in Contexts : Trusts(d)' => RiskExact'
  <2>1. \A d \in Contexts : Trusts(d)' => Trusts(d)
    BY <1>2, AllowFacts DEF Trusts, Live
  <2> QED  BY <1>4, <2>1 DEF Exact
<1> QED  BY <1>5, <1>6, <1>7 DEF Exact

(* At the end of a minute or of a day a bucket is kept as it is or empty   *)
(* everywhere.                                                             *)
LEMMA MinuteExact ==
  ASSUME Shape, Shape', Exact, NextMinute
  PROVE  Exact'
<1>1. plan' = plan /\ row' = row
  BY MinuteFacts
<1>2. \A d : IsRun(d)' = IsRun(d)
  BY <1>1, SameRoles
<1>3. ASSUME NEW b \in Buckets, sent[b] = Total[b]
      PROVE  sent'[b] = Total'[b]
  <2>1. CASE b[2] = "minute"
    <3>1. sent'[b] = 0 /\ \A d \in Contexts : saved'[d][b] = 0 /\ ctx'[d].own[b] = 0
      BY <2>1, MinuteFacts
    <3>2. Together' \in [Contexts -> Counts] /\ \A d \in Contexts : Together'[d][b] = 0
      BY <3>1, TotalFactsNext
    <3>3. IsFiniteSet(Contexts)
      BY TotalFacts
    <3>4. CountSum(Together')[b] = 0
      BY <3>2, <3>3, FoldNothing
    <3> QED  BY <3>1, <3>4 DEF Total, CountSum
  <2>2. CASE b[2] # "minute"
    <3>1. /\ sent'[b] = sent[b]
          /\ \A d \in Contexts : saved'[d][b] = saved[d][b] /\ ctx'[d].own[b] = ctx[d].own[b]
      BY <2>2, MinuteFacts
    <3>2. Total'[b] = Total[b]
      BY <1>1, <3>1, TotalSame
    <3> QED  BY <1>3, <3>1, <3>2
  <2> QED  BY <2>1, <2>2
<1>4. RiskExact => RiskExact'
  BY <1>3, RiskFacts DEF RiskExact, RiskBuckets
<1>5. NoneLost' => \A b \in Buckets : sent'[b] = Total'[b]
  BY <1>3, MinuteFacts DEF NoneLost, Exact
<1>6. Hiding' \/ RiskExact'
  <2>1. \A d \in Contexts : Tells(d) => Tells(d)'
    BY <1>1, <1>2, MinuteFacts DEF Tells
  <2> QED  BY <1>4, <2>1 DEF Exact, Hiding
<1>7. \A d \in Contexts : Trusts(d)' => RiskExact'
  <2>1. \A d \in Contexts : Trusts(d)' => Trusts(d)
    BY <1>2, MinuteFacts DEF Trusts, Live
  <2> QED  BY <1>4, <2>1 DEF Exact
<1> QED  BY <1>5, <1>6, <1>7 DEF Exact

(* At the end of a day everything is forgotten, what was lost as well.     *)
LEMMA DayExact ==
  ASSUME Shape, Shape', NextDay
  PROVE  Exact'
<1>1. ASSUME NEW b \in Buckets
      PROVE  sent'[b] = Total'[b]
  <2>1. sent'[b] = 0 /\ \A d \in Contexts : saved'[d][b] = 0 /\ ctx'[d].own[b] = 0
    BY DayFacts
  <2>2. Together' \in [Contexts -> Counts] /\ \A d \in Contexts : Together'[d][b] = 0
    BY <2>1, TotalFactsNext
  <2>3. IsFiniteSet(Contexts)
    BY TotalFacts
  <2>4. CountSum(Together')[b] = 0
    BY <2>2, <2>3, FoldNothing
  <2> QED  BY <2>1, <2>4 DEF Total, CountSum
<1>2. RiskExact'
  BY <1>1, RiskFacts DEF RiskExact, RiskBuckets
<1> QED  BY <1>1, <1>2 DEF Exact

(* Every step keeps the sums exact, or leaves a row that tells.            *)
LEMMA NextExact ==
  ASSUME Shape, Shape', Holdings, Exact, [Next]_vars
  PROVE  Exact'
<1>1. ASSUME NEW c \in Ids, Borrow(c) \/ LoadCounters(c)
      PROVE  Exact'
  <2>1. Empty(ctx[c].own) /\ Empty(ctx'[c].own) /\ c \in Contexts
    BY <1>1, BeginFacts, RiskFacts DEF Holdings, Held
  <2>2. ~Trusts(c)'
    <3>1. CASE Borrow(c)
      BY <3>1, SameRoles DEF Borrow, Trusts, IsRun
    <3>2. CASE LoadCounters(c)
      <4>1. ctx'[c].today /\ ctx'[c].st = "loaded"
        BY <2>1, <3>2 DEF LoadCounters, NoContext, Shape, Typed
      <4> QED  BY <4>1 DEF Trusts
    <3> QED  BY <1>1, <3>1, <3>2
  <2>3. \A d \in Contexts : d # c => ctx'[d] = ctx[d]
    BY <1>1, BeginFacts
  <2>4. /\ plan' = plan /\ saved' = saved /\ row' = row /\ sent' = sent
        /\ ctx[c].st = "none" /\ ctx'[c].st \in {"live", "loaded"}
    BY <1>1, BeginFacts
  <2>5. \A d : IsRun(d)' = IsRun(d)
    BY <2>4, SameRoles
  <2>6. \A d \in Contexts : Trusts(d)' => Trusts(d)
    BY <2>2, <2>3, <2>5 DEF Trusts, Live
  <2>7. (NoneLost' => NoneLost) /\ (Hiding => Hiding')
    BY <2>3, <2>4, <2>5 DEF NoneLost, Hiding, Tells
  <2>8. \A d \in Contexts : \A b \in Buckets :
          saved'[d][b] + ctx'[d].own[b] = saved[d][b] + ctx[d].own[b]
    BY <2>1, <2>3, <2>4 DEF Empty
  <2> QED  BY <2>4, <2>6, <2>7, <2>8, ExactKept DEF Exact
<1>2. ASSUME NEW c \in Ids, CheckHistory(c)
      PROVE  Exact'
  BY <1>2, CheckExact
<1>3. ASSUME NEW c \in Ids, InsertRow(c) \/ InsertFails(c)
      PROVE  Exact'
  <2>1. /\ plan' = plan /\ saved' = saved /\ sent' = sent /\ c \in Contexts
        /\ ctx[c].st = "checked" /\ ctx'[c].st = "live"
        /\ \A d \in Contexts : /\ ctx'[d].own = ctx[d].own /\ ctx'[d].today = ctx[d].today
                               /\ ctx'[d].bad = ctx[d].bad
                               /\ d # c => ctx'[d] = ctx[d] /\ row'[d] = row[d]
    BY <1>3, ReadyFacts
  <2>2. \A d : IsRun(d)' = IsRun(d)
    BY <2>1, SameRoles
  <2>3. \A d \in Contexts : Trusts(d)' => Trusts(d)
    BY <2>1, <2>2 DEF Trusts, Live
  <2>4. (NoneLost' => NoneLost) /\ (Hiding => Hiding')
    BY <2>1, <2>2 DEF NoneLost, Hiding, Tells
  <2> QED  BY <2>1, <2>3, <2>4, ExactKept DEF Exact
<1>4. ASSUME NEW c \in Ids, (\E op \in Ops : Ask(c, op)) \/ Block(c) \/ Quit(c)
      PROVE  Exact'
  <2>1. /\ plan' = plan /\ saved' = saved /\ sent' = sent /\ row' = row
        /\ \A d \in Contexts : /\ ctx'[d].st = ctx[d].st /\ ctx'[d].own = ctx[d].own
                               /\ ctx'[d].today = ctx[d].today /\ ctx'[d].bad = ctx[d].bad
    BY <1>4, WaitFacts
  <2>2. \A d : IsRun(d)' = IsRun(d)
    BY <2>1, SameRoles
  <2>3. \A d \in Contexts : Trusts(d)' => Trusts(d)
    BY <2>1, <2>2 DEF Trusts, Live
  <2>4. (NoneLost' => NoneLost) /\ (Hiding => Hiding')
    BY <2>1, <2>2 DEF NoneLost, Hiding, Tells
  <2> QED  BY <2>1, <2>3, <2>4, ExactKept DEF Exact
<1>5. ASSUME NEW c \in Ids, Allow(c)
      PROVE  Exact'
  BY <1>5, AllowExact
<1>6. ASSUME NEW c \in Ids, Flush(c)
      PROVE  Exact'
  <2>1. /\ plan' = plan /\ sent' = sent /\ c \in Contexts
        /\ ctx[c].st = "live" /\ ctx'[c].st = "done" /\ Empty(ctx'[c].own)
        /\ \A d \in Contexts : d # c => ctx'[d] = ctx[d] /\ saved'[d] = saved[d] /\ row'[d] = row[d]
        /\ \A b \in Buckets : saved'[c][b] = ctx[c].own[b] /\ saved[c][b] = 0
    BY <1>6, FlushFacts, RiskFacts
  <2>2. \A d : IsRun(d)' = IsRun(d)
    BY <2>1, SameRoles
  <2>3. \A d \in Contexts : Trusts(d)' => Trusts(d)
    BY <2>1, <2>2 DEF Trusts, Live
  <2>4. (NoneLost' => NoneLost) /\ (Hiding => Hiding')
    BY <2>1, <2>2 DEF NoneLost, Hiding, Tells
  <2>5. ASSUME NEW d \in Contexts, NEW b \in Buckets
        PROVE  saved'[d][b] + ctx'[d].own[b] = saved[d][b] + ctx[d].own[b]
    <3>1. CASE d = c
      <4>1. saved'[c][b] = ctx[c].own[b] /\ saved[c][b] = 0 /\ ctx'[c].own[b] = 0
        BY <2>1 DEF Empty
      <4>2. ctx[c].own[b] \in Nat
        BY <2>1, TotalFacts
      <4> QED  BY <3>1, <4>1, <4>2
    <3>2. CASE d # c
      BY <2>1, <3>2
    <3> QED  BY <3>1, <3>2
  <2> QED  BY <2>1, <2>3, <2>4, <2>5, ExactKept DEF Exact
<1>7. ASSUME NEW c \in Ids, FlushFails(c)
      PROVE  Exact'
  <2>1. /\ plan' = plan /\ saved' = saved /\ sent' = sent /\ row' = row /\ c \in Contexts
        /\ ctx[c].st = "live" /\ ctx'[c].st = "failed" /\ ctx'[c].own = Nothing
        /\ OwnsGuard(c)
        /\ \A d \in Contexts : d # c => ctx'[d] = ctx[d]
    BY <1>7, LeaveFacts DEF FlushFails, MayEnd
  <2>2. \A d : IsRun(d)' = IsRun(d)
    BY <2>1, SameRoles
  <2>3. ASSUME NEW e \in Contexts, Trusts(e)'
        PROVE  RiskExact /\ \A d \in Contexts : IsRun(d) => ctx'[d] = ctx[d]
    <3>1. e # c /\ Trusts(e)
      BY <2>1, <2>2, <2>3 DEF Trusts, Live
    <3>2. ~IsRun(c)
      BY <2>1, <3>1 DEF Shape, OneRun, Trusts, Live
    <3> QED  BY <2>1, <3>1, <3>2 DEF Exact
  <2> QED  BY <2>1, <2>3, LossExact DEF Live
<1>8. ASSUME NEW c \in Ids, FlushBorrowed(c)
      PROVE  Exact'
  <2>1. /\ plan' = plan /\ saved' = saved /\ sent' = sent /\ row' = row /\ c \in Contexts
        /\ ctx[c].st = "live" /\ ctx'[c].st \in {"done", "failed"} /\ ctx'[c].own = Nothing
        /\ ~OwnsGuard(c)
        /\ \A d \in Contexts : d # c => ctx'[d] = ctx[d]
    BY <1>8, LeaveFacts DEF FlushBorrowed
  <2>2. Empty(ctx[c].own) /\ Empty(ctx'[c].own)
    BY <2>1, RiskFacts DEF Holdings, Held
  <2>3. \A d : IsRun(d)' = IsRun(d)
    BY <2>1, SameRoles
  <2>4. \A d \in Contexts : Trusts(d)' => Trusts(d)
    BY <2>1, <2>3 DEF Trusts, Live
  <2>5. (NoneLost' => NoneLost) /\ (Hiding => Hiding')
    BY <2>1, <2>3 DEF NoneLost, Hiding, Tells
  <2>6. \A d \in Contexts : \A b \in Buckets :
          saved'[d][b] + ctx'[d].own[b] = saved[d][b] + ctx[d].own[b]
    BY <2>1, <2>2 DEF Empty
  <2> QED  BY <2>1, <2>4, <2>5, <2>6, ExactKept DEF Exact
<1>9. CASE LoseWorker \/ RestartServer
  <2>1. /\ plan' = plan /\ saved' = saved /\ sent' = sent
        /\ \A d \in Contexts :
             \/ ctx'[d] = ctx[d]
             \/ Live(d) /\ ctx'[d].st \in {"failed", "lost"} /\ ctx'[d].own = Nothing
        /\ \A d \in Contexts :
             \/ row'[d] = row[d]
             \/ row[d].st = "active" /\ row'[d] = [st |-> "incomplete", end |-> "today"]
    BY <1>9, LossFacts
  <2>2. \A d \in Contexts : ~Live(d)'
    BY <1>9, LossFacts DEF Live
  <2> QED  BY <2>1, <2>2, LossExact DEF Trusts
<1>10. CASE MonitorReads \/ MonitorMarks \/ NewWorker
  <2>1. /\ plan' = plan /\ saved' = saved /\ sent' = sent /\ ctx' = ctx
        /\ \A d \in Contexts :
             row'[d] = row[d] \/ (row'[d].st = "incomplete" /\ row'[d].end = "today")
    BY <1>10, MonitorFacts
  <2>2. \A d : IsRun(d)' = IsRun(d)
    BY <2>1, SameRoles
  <2>3. \A d \in Contexts : Trusts(d)' => Trusts(d)
    BY <2>1, <2>2 DEF Trusts, Live
  <2>4. (NoneLost' => NoneLost) /\ (Hiding => Hiding')
    BY <2>1, <2>2 DEF NoneLost, Hiding, Tells
  <2> QED  BY <2>1, <2>3, <2>4, ExactKept DEF Exact
<1>11. CASE NextMinute
  BY <1>11, MinuteExact
<1>12. CASE NextDay
  BY <1>12, DayExact
<1>13. CASE UNCHANGED vars
  <2>1. /\ plan' = plan /\ saved' = saved /\ sent' = sent /\ ctx' = ctx /\ row' = row
    BY <1>13 DEF vars
  <2>2. \A d : IsRun(d)' = IsRun(d)
    BY <2>1, SameRoles
  <2>3. \A d \in Contexts : Trusts(d)' => Trusts(d)
    BY <2>1, <2>2 DEF Trusts, Live
  <2>4. (NoneLost' => NoneLost) /\ (Hiding => Hiding')
    BY <2>1, <2>2 DEF NoneLost, Hiding, Tells
  <2> QED  BY <2>1, <2>3, <2>4, ExactKept DEF Exact
<1> QED  BY <1>1, <1>2, <1>3, <1>4, <1>5, <1>6, <1>7, <1>8, <1>9, <1>10, <1>11, <1>12, <1>13
         DEF Next

-----------------------------------------------------------------------------
(* The invariant: what a guard has read and what guards share covers what  *)
(* was permitted.                                                          *)
Reads(c) ==
  /\ IsRun(c) => \A b \in RiskBuckets : ctx[c].base[b] = DailyCounters[b]
  /\ ~shared => \A b \in Buckets : ctx[c].base[b] = DailyCounters[b]
Covers(c) ==
  /\ ctx[c].st = "live" => \A b \in Buckets : ctx[c].base[b] + ctx[c].own[b] <= quota[b]
  /\ NoneLost =>
       \A b \in Buckets :
         sent[b] <= quota[b] \/ (ctx[c].st # "live" /\ sent[b] <= ctx[c].base[b])
Based == \A c \in Contexts : Owner(c) => Reads(c) /\ (shared => Covers(c))

(* What no context changes in the database is not changed there.           *)
LEMMA DailySame ==
  ASSUME Shape, Shape', plan' = plan, NEW b \in Buckets,
         \A d \in Contexts : saved'[d][b] = saved[d][b]
  PROVE  DailyCounters'[b] = DailyCounters[b]
<1>1. saved \in [Contexts -> Counts] /\ saved' \in [Contexts -> Counts] /\ IsFiniteSet(Contexts)
  BY TotalFacts DEF Shape, Typed
<1>2. CountSum(saved')[b] = CountSum(saved)[b]
  BY <1>1, FoldSame
<1> QED  BY <1>2 DEF DailyCounters, CountSum

(* When no context has any saved, there is nothing.                        *)
LEMMA DailyNothing ==
  ASSUME Shape, Shape', NEW b \in Buckets, \A d \in Contexts : saved'[d][b] = 0
  PROVE  DailyCounters'[b] = 0
<1>1. saved' \in [Contexts -> Counts] /\ IsFiniteSet(Contexts)
  BY TotalFacts DEF Shape, Typed
<1>2. CountSum(saved')[b] = 0
  BY <1>1, FoldNothing
<1> QED  BY <1>2 DEF DailyCounters, CountSum

(* Guards that do not share their counts are at work one at a time.        *)
LEMMA OneOwner ==
  ASSUME Shape, ~shared, NEW c \in Contexts, NEW d \in Contexts, Owner(c), Owner(d)
  PROVE  c = d
<1>1. ASSUME NEW e \in Contexts, Owner(e)
      PROVE  IsRun(e) \/ IsOrder(e)
  <2>1. e \in Ids /\ ~IsCatalog(e)
    BY <1>1 DEF Shape, Placed, Owner, Live
  <2>2. plan[e] \in ContextKinds
    BY <2>1, ControlAssumption DEF Shape, Typed, Ids
  <2> QED  BY <2>1, <2>2 DEF IsRun, IsOrder, IsCatalog, ContextKinds
<1>2. (IsRun(c) \/ IsOrder(c)) /\ (IsRun(d) \/ IsOrder(d)) /\ 0 \notin Contexts
  BY <1>1, ContextFacts DEF Shape, Typed
<1>3. ASSUME NEW e \in Contexts, NEW f \in Contexts, IsRun(e), IsOrder(f), Owner(e), Owner(f)
      PROVE  e = f
  BY <1>2, <1>3 DEF Shape, Beside, Owner, Live
<1>4. CASE IsRun(c) /\ IsRun(d)
  BY <1>4 DEF Shape, OneRun, Owner
<1>5. CASE IsOrder(c) /\ IsOrder(d)
  BY <1>5 DEF Shape, Beside, Owner
<1> QED  BY <1>2, <1>3, <1>4, <1>5

(* Steps that change no counts and make no guard.                          *)
LEMMA BasedKept ==
  ASSUME Based, plan' = plan, shared' = shared, quota' = quota, saved' = saved, sent' = sent,
         NoneLost' => NoneLost,
         \A d \in Contexts : Owner(d)' =>
           /\ Owner(d) /\ ctx'[d].base = ctx[d].base /\ ctx'[d].own = ctx[d].own
           /\ ctx'[d].st = "live" <=> ctx[d].st = "live"
  PROVE  Based'
<1>1. (\A d : IsRun(d)' = IsRun(d)) /\ DailyCounters' = DailyCounters
  BY SameRoles DEF DailyCounters
<1>2. ASSUME NEW d \in Contexts, Owner(d)'
      PROVE  Reads(d)' /\ (shared' => Covers(d)')
  <2>1. /\ Reads(d) /\ (shared => Covers(d))
        /\ ctx'[d].base = ctx[d].base /\ ctx'[d].own = ctx[d].own
        /\ ctx'[d].st = "live" <=> ctx[d].st = "live"
    BY <1>2 DEF Based
  <2>2. Reads(d)'
    BY <1>1, <2>1 DEF Reads, Buckets, RiskBuckets
  <2>3. shared' => Covers(d)'
    BY <2>1 DEF Covers, Buckets
  <2> QED  BY <2>2, <2>3
<1> QED  BY <1>2 DEF Based

(* A guard reads its baseline. Either no guard has counts of its own, and  *)
(* the database has everything, or one is at work, and what is shared      *)
(* covers all.                                                             *)
LEMMA LoadBased ==
  ASSUME Shape, Shape', Holdings, Exact, Based, NEW c \in Ids, LoadCounters(c)
  PROVE  Based'
<1>1. /\ c \in Contexts /\ plan' = plan /\ shared' = shared /\ quota' = quota /\ saved' = saved
      /\ sent' = sent /\ ctx[c].st = "none"
      /\ \A d \in Contexts : d # c => ctx'[d] = ctx[d]
  BY BeginFacts
<1>2. ctx'[c].st = "loaded" /\ ctx'[c].base = DailyCounters
  BY <1>1 DEF LoadCounters, NoContext, Shape, Typed
<1>3. (\A d : IsRun(d)' = IsRun(d)) /\ DailyCounters' = DailyCounters
  BY <1>1, SameRoles DEF DailyCounters
<1>4. NoneLost' => NoneLost
  BY <1>1 DEF NoneLost
<1>5. ASSUME NEW d \in Contexts, Owner(d)', d # c
      PROVE  Reads(d)' /\ (shared' => Covers(d)')
  <2>1. Owner(d) /\ ctx'[d] = ctx[d]
    BY <1>1, <1>5 DEF Owner, Live, OwnsGuard, Guard
  <2>2. Reads(d)'
    BY <1>1, <1>3, <2>1 DEF Based, Reads, Buckets, RiskBuckets
  <2>3. shared' => Covers(d)'
    BY <1>1, <1>4, <2>1 DEF Based, Covers, Buckets
  <2> QED  BY <2>2, <2>3
<1>6. Reads(c)'
  BY <1>2, <1>3 DEF Reads
<1>7. ASSUME shared, NoneLost, NEW b \in Buckets
      PROVE  sent[b] <= quota[b] \/ sent[b] <= DailyCounters[b]
  <2>1. sent[b] = Total[b]
    BY <1>7 DEF Exact
  <2>2. CASE \E d \in Contexts : ctx[d].own[b] # 0
    <3>1. PICK d \in Contexts : ctx[d].own[b] # 0
      BY <2>2
    <3>2. ctx[d].st = "live" /\ Owner(d)
      BY <3>1 DEF Holdings, Held, Empty, Owner, Live
    <3> QED  BY <1>7, <3>2 DEF Based, Covers
  <2>3. CASE \A d \in Contexts : ctx[d].own[b] = 0
    <3>1. Total[b] = DailyCounters[b] + ctx[c].own[b]
      BY <1>1, <2>3, TotalOfOne
    <3>2. DailyCounters[b] \in Nat /\ ctx[c].own[b] = 0
      BY <1>1, <2>3, TotalFacts DEF Counts
    <3>3. sent[b] = DailyCounters[b]
      BY <2>1, <3>1, <3>2
    <3> QED  BY <3>2, <3>3
  <2> QED  BY <2>2, <2>3
<1>8. shared' => Covers(c)'
  BY <1>1, <1>2, <1>4, <1>7 DEF Covers, Buckets
<1> QED  BY <1>5, <1>6, <1>8 DEF Based

(* The baseline is brought into what is shared before the guard permits    *)
(* anything.                                                               *)
LEMMA ReadyBased ==
  ASSUME Shape, Shape', Holdings, Based, NEW c \in Ids, InsertRow(c) \/ InsertFails(c)
  PROVE  Based'
<1>1. /\ c \in Contexts /\ plan' = plan /\ shared' = shared /\ saved' = saved /\ sent' = sent
      /\ ctx[c].st = "checked" /\ ctx'[c].st = "live"
      /\ quota' = IF shared THEN Larger(quota, ctx[c].base) ELSE quota
      /\ \A d \in Contexts : /\ ctx'[d].base = ctx[d].base /\ ctx'[d].own = ctx[d].own
                             /\ ctx'[d].guard = ctx[d].guard
                             /\ d # c => ctx'[d] = ctx[d]
  BY ReadyFacts
<1>2. (\A d : IsRun(d)' = IsRun(d)) /\ DailyCounters' = DailyCounters
  BY <1>1, SameRoles DEF DailyCounters
<1>3. NoneLost' => NoneLost
  BY <1>1 DEF NoneLost
<1>4. shared => \A b \in Buckets : quota[b] <= quota'[b] /\ ctx[c].base[b] <= quota'[b]
  <2>1. quota \in Counts /\ ctx[c].base \in Counts
    BY <1>1 DEF Shape, Typed, CtxRecords
  <2> QED  BY <1>1, <2>1, CountFacts
<1>5. \A b \in Buckets : sent[b] \in Nat /\ quota[b] \in Nat /\ quota'[b] \in Nat
  BY DEF Shape, Typed, Counts
<1>6. ASSUME NEW d \in Contexts, Owner(d)'
      PROVE  Reads(d)' /\ (shared' => Covers(d)')
  <2>1. Owner(d)
    BY <1>1, <1>6 DEF Owner, Live, OwnsGuard, Guard
  <2>2. Reads(d)'
    BY <1>1, <1>2, <2>1 DEF Based, Reads, Buckets, RiskBuckets
  <2>3. ASSUME shared, NEW b \in Buckets
        PROVE  /\ ctx'[d].st = "live" => ctx'[d].base[b] + ctx'[d].own[b] <= quota'[b]
               /\ NoneLost' =>
                    sent'[b] <= quota'[b] \/ (ctx'[d].st # "live" /\ sent'[b] <= ctx'[d].base[b])
    <3>1. /\ ctx[d].st = "live" => ctx[d].base[b] + ctx[d].own[b] <= quota[b]
          /\ NoneLost =>
               sent[b] <= quota[b] \/ (ctx[d].st # "live" /\ sent[b] <= ctx[d].base[b])
      BY <2>1, <2>3 DEF Based, Covers
    <3>2. ctx[d].base[b] \in Nat /\ ctx[d].own[b] \in Nat
      BY TotalFacts
    <3>3. quota[b] <= quota'[b] /\ ctx[c].base[b] <= quota'[b]
      BY <1>4, <2>3
    <3>4. CASE d = c
      <4>1. ctx[c].own[b] = 0
        BY <1>1 DEF Holdings, Held, Empty
      <4> QED  BY <1>1, <1>3, <1>5, <3>1, <3>2, <3>3, <3>4, <4>1
    <3>5. CASE d # c
      <4>1. ctx'[d] = ctx[d]
        BY <1>1, <3>5
      <4> QED  BY <1>1, <1>3, <1>5, <3>1, <3>2, <3>3, <4>1
    <3> QED  BY <3>4, <3>5
  <2>4. shared' => Covers(d)'
    BY <1>1, <2>3 DEF Covers, Buckets
  <2> QED  BY <2>2, <2>4
<1> QED  BY <1>6 DEF Based

(* A permit is counted in what is shared as well.                          *)
LEMMA AllowBased ==
  ASSUME Shape, Shape', Based, NEW c \in Ids, Allow(c)
  PROVE  Based'
<1> DEFINE g == Guard(c)  op == ctx[c].op
<1>1. /\ plan' = plan /\ shared' = shared /\ saved' = saved
      /\ sent' = Incremented(sent, op)
      /\ quota' = IF shared THEN Incremented(quota, op) ELSE quota
  BY DEF Allow
<1>2. /\ g \in Contexts /\ op \in Ops /\ ctx[g].st = "live" /\ Owner(g)
      /\ \A d \in Contexts :
           /\ ctx'[d].st = ctx[d].st /\ ctx'[d].guard = ctx[d].guard /\ ctx'[d].base = ctx[d].base
           /\ ctx'[d].own = IF d = g THEN Incremented(ctx[d].own, op) ELSE ctx[d].own
  BY AllowFacts DEF Owner, Live
<1> HIDE DEF g, op
<1>3. (\A d : IsRun(d)' = IsRun(d)) /\ DailyCounters' = DailyCounters
  BY <1>1, SameRoles DEF DailyCounters
<1>4. NoneLost' => NoneLost
  BY <1>2 DEF NoneLost
<1>5. ASSUME NEW b \in Buckets
      PROVE  /\ sent[b] \in Nat /\ quota[b] \in Nat
             /\ sent'[b] = IF b[1] = op THEN sent[b] + 1 ELSE sent[b]
             /\ shared => quota'[b] = IF b[1] = op THEN quota[b] + 1 ELSE quota[b]
  <2>1. sent \in Counts /\ quota \in Counts
    BY DEF Shape, Typed
  <2>2. sent[b] \in Nat /\ quota[b] \in Nat
    BY <2>1 DEF Counts
  <2> QED  BY <1>1, <1>2, <2>1, <2>2, IncrementedFacts
<1>6. ASSUME NEW d \in Contexts, Owner(d)'
      PROVE  Reads(d)' /\ (shared' => Covers(d)')
  <2>1. Owner(d)
    BY <1>2, <1>6 DEF Owner, Live, OwnsGuard, Guard
  <2>2. Reads(d)'
    BY <1>1, <1>2, <1>3, <2>1 DEF Based, Reads, Buckets, RiskBuckets
  <2>3. ASSUME shared, NEW b \in Buckets
        PROVE  /\ ctx'[d].st = "live" => ctx'[d].base[b] + ctx'[d].own[b] <= quota'[b]
               /\ NoneLost' => sent'[b] <= quota'[b]
    <3>1. ctx[d].st = "live" => ctx[d].base[b] + ctx[d].own[b] <= quota[b]
      BY <2>1, <2>3 DEF Based, Covers
    <3>2. ctx[d].base[b] \in Nat /\ ctx[d].own[b] \in Nat /\ ctx[d].own \in Counts
      BY TotalFacts DEF Shape, Typed, CtxRecords
    <3>3. ctx'[d].own[b] = ctx[d].own[b] \/ (b[1] = op /\ ctx'[d].own[b] = ctx[d].own[b] + 1)
      BY <1>2, <3>2, IncrementedFacts
    <3>4. NoneLost' => sent[b] <= quota[b]
      BY <1>2, <1>4, <2>3 DEF Based, Covers
    <3>5. ctx'[d].st = ctx[d].st /\ ctx'[d].base = ctx[d].base
      BY <1>2
    <3> QED  BY <1>5, <2>3, <3>1, <3>2, <3>3, <3>4, <3>5
  <2>4. shared' => Covers(d)'
    BY <1>1, <2>3 DEF Covers, Buckets
  <2> QED  BY <2>2, <2>4
<1> QED  BY <1>6 DEF Based

(* A flush changes no baseline that matters: without sharing nobody else   *)
(* is at work, and with it only a run looks at the counts of orders.       *)
LEMMA FlushBased ==
  ASSUME Shape, Shape', Holdings, Based, NEW c \in Ids, Flush(c)
  PROVE  Based'
<1>1. /\ plan' = plan /\ shared' = shared /\ quota' = quota /\ sent' = sent /\ c \in Contexts
      /\ ctx[c].st = "live" /\ OwnsGuard(c) /\ ctx'[c].st = "done"
      /\ \A d \in Contexts : d # c => ctx'[d] = ctx[d] /\ saved'[d] = saved[d]
      /\ \A b \in Buckets : saved'[c][b] = ctx[c].own[b] /\ saved[c][b] = 0
  BY FlushFacts
<1>2. \A d : IsRun(d)' = IsRun(d)
  BY <1>1, SameRoles
<1>3. NoneLost' => NoneLost
  BY <1>1 DEF NoneLost
<1>4. ASSUME NEW d \in Contexts, Owner(d)'
      PROVE  Reads(d)' /\ (shared' => Covers(d)')
  <2>1. d # c /\ Owner(d) /\ ctx'[d] = ctx[d] /\ Owner(c)
    BY <1>1, <1>4 DEF Owner, Live, OwnsGuard, Guard
  <2>2. shared
    BY <1>1, <2>1, OneOwner
  <2>3. ASSUME IsRun(d), NEW b \in RiskBuckets
        PROVE  ctx'[d].base[b] = DailyCounters'[b]
    <3>1. ~IsRun(c) /\ b \in Buckets
      BY <1>1, <2>1, <2>3, RiskFacts DEF Shape, OneRun, Owner
    <3>2. ctx[c].own[b] = 0
      BY <1>1, <3>1 DEF Holdings, Held
    <3>3. \A e \in Contexts : saved'[e][b] = saved[e][b]
      BY <1>1, <3>1, <3>2
    <3>4. DailyCounters'[b] = DailyCounters[b]
      BY <1>1, <3>1, <3>3, DailySame
    <3> QED  BY <2>1, <2>3, <3>4 DEF Based, Reads
  <2>4. Reads(d)'
    BY <1>1, <1>2, <2>2, <2>3 DEF Reads, RiskBuckets
  <2>5. Covers(d)'
    BY <1>1, <1>3, <2>1, <2>2 DEF Based, Covers, Buckets
  <2> QED  BY <2>4, <2>5
<1> QED  BY <1>4 DEF Based

(* The end of a minute empties the same buckets everywhere.                *)
LEMMA MinuteBased ==
  ASSUME Shape, Shape', Based, NextMinute
  PROVE  Based'
<1>1. (\A d : IsRun(d)' = IsRun(d)) /\ plan' = plan /\ shared' = shared
  BY MinuteFacts, SameRoles
<1>2. NoneLost' => NoneLost
  BY MinuteFacts DEF NoneLost
<1>3. ASSUME NEW b \in Buckets
      PROVE  DailyCounters'[b] = IF b[2] = "minute" THEN 0 ELSE DailyCounters[b]
  <2>1. CASE b[2] = "minute"
    BY <2>1, MinuteFacts, DailyNothing
  <2>2. CASE b[2] # "minute"
    BY <2>2, MinuteFacts, DailySame
  <2> QED  BY <2>1, <2>2
<1>4. ASSUME NEW d \in Contexts, Owner(d)'
      PROVE  Reads(d)' /\ (shared' => Covers(d)')
  <2>1. Owner(d)
    BY <1>4, MinuteFacts DEF Owner, Live, OwnsGuard, Guard
  <2>2. ASSUME NEW b \in Buckets
        PROVE  ctx[d].base[b] = DailyCounters[b] => ctx'[d].base[b] = DailyCounters'[b]
    BY <1>3, MinuteFacts
  <2>3. Reads(d)'
    BY <1>1, <2>1, <2>2, RiskFacts DEF Based, Reads, Buckets, RiskBuckets
  <2>4. ASSUME shared, NEW b \in Buckets
        PROVE  /\ ctx'[d].st = "live" => ctx'[d].base[b] + ctx'[d].own[b] <= quota'[b]
               /\ NoneLost' =>
                    sent'[b] <= quota'[b] \/ (ctx'[d].st # "live" /\ sent'[b] <= ctx'[d].base[b])
    <3>1. /\ ctx[d].st = "live" => ctx[d].base[b] + ctx[d].own[b] <= quota[b]
          /\ NoneLost =>
               sent[b] <= quota[b] \/ (ctx[d].st # "live" /\ sent[b] <= ctx[d].base[b])
      BY <2>1, <2>4 DEF Based, Covers
    <3> QED  BY <1>2, <3>1, MinuteFacts
  <2>5. shared' => Covers(d)'
    BY <1>1, <2>4 DEF Covers, Buckets
  <2> QED  BY <2>3, <2>5
<1> QED  BY <1>4 DEF Based

(* The end of a day empties everything everywhere.                         *)
LEMMA DayBased ==
  ASSUME Shape, Shape', NextDay
  PROVE  Based'
<1>1. ASSUME NEW b \in Buckets
      PROVE  /\ DailyCounters'[b] = 0 /\ quota'[b] = 0 /\ sent'[b] = 0
             /\ \A d \in Contexts : ctx'[d].base[b] = 0 /\ ctx'[d].own[b] = 0
  BY DayFacts, DailyNothing
<1>2. \A d \in Contexts : Reads(d)' /\ Covers(d)'
  BY <1>1, RiskFacts DEF Reads, Covers, Buckets, RiskBuckets
<1> QED  BY <1>2 DEF Based

(* Every step keeps guards covered.                                        *)
LEMMA NextBased ==
  ASSUME Shape, Shape', Holdings, Exact, Based, [Next]_vars
  PROVE  Based'
<1>1. ASSUME NEW c \in Ids, Borrow(c)
      PROVE  Based'
  <2>1. active \in Contexts /\ ctx[active].st = "live" /\ ctx[c].st = "none"
    BY <1>1, ContextFacts, BeginFacts DEF Borrow, Shape, Registered, Typed
  <2>2. ctx'[c].guard = active /\ active # c
    BY <1>1, <2>1, BeginFacts DEF Borrow, NoContext, Shape, Typed
  <2>3. ~Owner(c)'
    BY <2>2 DEF Owner, OwnsGuard, Guard
  <2>4. \A d \in Contexts : d # c => ctx'[d] = ctx[d]
    BY <1>1, BeginFacts
  <2>5. (NoneLost' => NoneLost) /\ \A d \in Contexts : Owner(d)' => Owner(d) /\ ctx'[d] = ctx[d]
    BY <1>1, <2>1, <2>3, <2>4 DEF NoneLost, Owner, Live, OwnsGuard, Guard
  <2> QED  BY <1>1, <2>5, BeginFacts, BasedKept
<1>2. ASSUME NEW c \in Ids, LoadCounters(c)
      PROVE  Based'
  BY <1>2, LoadBased
<1>3. ASSUME NEW c \in Ids, CheckHistory(c)
      PROVE  Based'
  <2>1. (NoneLost' => NoneLost) /\ \A d \in Contexts : Owner(d)' =>
          /\ Owner(d) /\ ctx'[d].base = ctx[d].base /\ ctx'[d].own = ctx[d].own
          /\ ctx'[d].st = "live" <=> ctx[d].st = "live"
    BY <1>3, CheckFacts DEF NoneLost, Owner, Live, OwnsGuard, Guard
  <2> QED  BY <1>3, <2>1, CheckFacts, BasedKept
<1>4. ASSUME NEW c \in Ids, InsertRow(c) \/ InsertFails(c)
      PROVE  Based'
  BY <1>4, ReadyBased
<1>5. ASSUME NEW c \in Ids, (\E op \in Ops : Ask(c, op)) \/ Block(c) \/ Quit(c)
      PROVE  Based'
  <2>1. (NoneLost' => NoneLost) /\ \A d \in Contexts : Owner(d)' =>
          /\ Owner(d) /\ ctx'[d].base = ctx[d].base /\ ctx'[d].own = ctx[d].own
          /\ ctx'[d].st = "live" <=> ctx[d].st = "live"
    BY <1>5, WaitFacts DEF NoneLost, Owner, Live, OwnsGuard, Guard
  <2> QED  BY <1>5, <2>1, WaitFacts, BasedKept
<1>6. ASSUME NEW c \in Ids, Allow(c)
      PROVE  Based'
  BY <1>6, AllowBased
<1>7. ASSUME NEW c \in Ids, Flush(c)
      PROVE  Based'
  BY <1>7, FlushBased
<1>8. ASSUME NEW c \in Ids, FlushFails(c) \/ FlushBorrowed(c)
      PROVE  Based'
  <2>1. (NoneLost' => NoneLost) /\ \A d \in Contexts : Owner(d)' =>
          /\ Owner(d) /\ ctx'[d].base = ctx[d].base /\ ctx'[d].own = ctx[d].own
          /\ ctx'[d].st = "live" <=> ctx[d].st = "live"
    BY <1>8, LeaveFacts DEF NoneLost, Owner, Live, OwnsGuard, Guard
  <2> QED  BY <1>8, <2>1, LeaveFacts, BasedKept
<1>9. CASE LoseWorker \/ RestartServer
  <2>1. \A d \in Contexts : ~Live(d)'
    BY <1>9, LossFacts DEF Live
  <2> QED  BY <2>1 DEF Based, Owner
<1>10. CASE MonitorReads \/ MonitorMarks \/ NewWorker
  <2>1. /\ UNCHANGED <<plan, shared, ctx, quota, saved>>
        /\ sent' = sent
    BY <1>10, MonitorFacts
  <2> QED  BY <2>1, BasedKept DEF NoneLost, Owner, Live, OwnsGuard, Guard
<1>11. CASE NextMinute
  BY <1>11, MinuteBased
<1>12. CASE NextDay
  BY <1>12, DayBased
<1>13. CASE UNCHANGED vars
  BY <1>13, BasedKept DEF vars, NoneLost, Owner, Live, OwnsGuard, Guard
<1> QED  BY <1>1, <1>2, <1>3, <1>4, <1>5, <1>6, <1>7, <1>8, <1>9, <1>10, <1>11, <1>12, <1>13
         DEF Next

-----------------------------------------------------------------------------
(* The invariant: the limits.                                              *)
Limited ==
  \A r \in Rules : r.ops \subseteq Risk \/ NoneLost => Count(r, sent) <= r.limit

(* Steps after which no more is counted than before.                       *)
LEMMA LimitedKept ==
  ASSUME Shape, Shape', Limited, NoneLost' => NoneLost,
         \A b \in Buckets : sent'[b] <= sent[b]
  PROVE  Limited'
<1>1. ASSUME NEW r \in Rules, r.ops \subseteq Risk \/ NoneLost'
      PROVE  Count(r, sent') <= r.limit
  <2>1. Count(r, sent) <= r.limit
    BY <1>1 DEF Limited
  <2>2. sent \in Counts /\ sent' \in Counts
    BY DEF Shape, Typed
  <2>3. \A o \in r.ops : sent'[<<o, r.span>>] <= sent[<<o, r.span>>]
    BY ControlAssumption DEF Buckets
  <2>4. /\ Count(r, sent') \in Nat /\ Count(r, sent) \in Nat
        /\ Count(r, sent') <= Count(r, sent)
    BY <2>2, <2>3, CountGrows
  <2>5. r.limit \in Nat
    BY ControlAssumption
  <2> QED  BY <2>1, <2>4, <2>5
<1> QED  BY <1>1 DEF Limited

(* What a guard that permits compares with the rules is no less than what  *)
(* was permitted: of orders, if it trusts what it read; of everything,     *)
(* while nothing was lost.                                                 *)
LEMMA ViewCovers ==
  ASSUME Shape, Holdings, Exact, Based, NEW c \in Ids, Allow(c), NEW b \in Buckets,
         NoneLost \/ (ctx[c].op \in Risk /\ b \in RiskBuckets)
  PROVE  sent[b] <= View(c)[b]
<1> DEFINE g == Guard(c)
<1>1. /\ c \in Contexts /\ g \in Contexts /\ ctx[g].st = "live" /\ Owner(g)
      /\ (ctx[c].op \in Risk => IsRun(c) /\ g = c)
  BY AllowFacts DEF Owner, Live
<1>2. /\ ctx[g].base \in Counts /\ ctx[g].own \in Counts /\ sent \in Counts /\ quota \in Counts
      /\ DailyCounters \in Counts
  BY <1>1, TotalFacts DEF Shape, Typed, CtxRecords
<1>3. /\ ctx[g].base[b] \in Nat /\ ctx[g].own[b] \in Nat /\ sent[b] \in Nat /\ quota[b] \in Nat
      /\ DailyCounters[b] \in Nat
  BY <1>2 DEF Counts
<1>4. View(c)[b] = IF shared THEN quota[b] ELSE ctx[g].base[b] + ctx[g].own[b]
  BY <1>2, CountFacts DEF View
<1>5. Reads(g) /\ (shared => Covers(g))
  BY <1>1 DEF Based
<1> HIDE DEF g
<1>6. shared => ctx[g].base[b] + ctx[g].own[b] <= quota[b]
  BY <1>1, <1>5 DEF Covers
<1>7. CASE NoneLost /\ shared
  <2>1. sent[b] <= quota[b]
    BY <1>1, <1>5, <1>7 DEF Covers
  <2> QED  BY <1>4, <1>7, <2>1
<1>8. CASE NoneLost /\ ~shared
  <2>1. \A d \in Contexts : d # g => ctx[d].own[b] = 0
    BY <1>1, <1>8, OneOwner DEF Holdings, Held, Empty, Owner, Live
  <2>2. Total[b] = DailyCounters[b] + ctx[g].own[b]
    BY <1>1, <2>1, TotalOfOne
  <2>3. sent[b] = Total[b] /\ ctx[g].base[b] = DailyCounters[b]
    BY <1>5, <1>8 DEF Exact, Reads
  <2> QED  BY <1>3, <1>4, <1>8, <2>2, <2>3
<1>9. CASE ctx[c].op \in Risk /\ b \in RiskBuckets
  <2>1. IsRun(c) /\ g = c
    BY <1>1, <1>9
  <2>2. ~ctx[c].bad
    BY <1>9, <2>1 DEF Allow, Unsafe, g
  <2>3. sent[b] = Total[b]
    BY <1>1, <1>9, <2>1, <2>2 DEF Exact, Trusts, RiskExact, Live
  <2>4. \A d \in Contexts : d # c => ctx[d].own[b] = 0
    <3>1. ASSUME NEW d \in Contexts, d # c
          PROVE  ctx[d].own[b] = 0
      <4>1. CASE IsRun(d)
        <5>1. ~Live(d)
          BY <1>1, <2>1, <3>1, <4>1 DEF Shape, OneRun, Owner
        <5> QED  BY <5>1 DEF Holdings, Held, Empty, Live
      <4>2. CASE ~IsRun(d)
        BY <1>9, <4>2 DEF Holdings, Held
      <4> QED  BY <4>1, <4>2
    <3> QED  BY <3>1
  <2>5. Total[b] = DailyCounters[b] + ctx[c].own[b]
    BY <1>1, <2>4, TotalOfOne
  <2>6. ctx[g].base[b] = DailyCounters[b]
    BY <1>5, <1>9, <2>1 DEF Reads
  <2>7. sent[b] = ctx[g].base[b] + ctx[g].own[b]
    BY <2>1, <2>3, <2>5, <2>6
  <2> QED  BY <1>3, <1>4, <1>6, <2>7
<1> QED  BY <1>7, <1>8, <1>9

(* A permit is given below the limit only, as far as the guard sees, and   *)
(* it sees everything that the rule is about.                              *)
LEMMA AllowLimited ==
  ASSUME Shape, Shape', Holdings, Exact, Based, Limited, NEW c \in Ids, Allow(c)
  PROVE  Limited'
<1>1. /\ sent' = Incremented(sent, ctx[c].op) /\ Hit(c) = {} /\ ctx[c].op \in Ops
      /\ sent \in Counts
  BY AllowFacts DEF Allow, Shape, Typed
<1>2. NoneLost' => NoneLost
  BY AllowFacts DEF NoneLost
<1>3. ASSUME NEW r \in Rules, r.ops \subseteq Risk \/ NoneLost'
      PROVE  Count(r, sent') <= r.limit
  <2>1. /\ r.limit \in Nat /\ r.ops \subseteq Ops /\ r.span \in Spans
        /\ \A o \in r.ops : <<o, r.span>> \in Buckets
    BY ControlAssumption DEF Buckets
  <2>2. /\ Count(r, sent) \in Nat /\ Count(r, sent') \in Nat
        /\ Count(r, sent') <= Count(r, sent) + 1
        /\ ctx[c].op \notin r.ops => Count(r, sent') <= Count(r, sent)
    BY <1>1, CountStep
  <2>3. CASE ctx[c].op \notin r.ops
    <3>1. Count(r, sent) <= r.limit
      BY <1>2, <1>3 DEF Limited
    <3> QED  BY <2>1, <2>2, <2>3, <3>1
  <2>4. CASE ctx[c].op \in r.ops
    <3>1. ~Reached(r, View(c))
      BY <1>1, <2>4 DEF Hit
    <3>2. View(c) \in Counts
      <4>1. Guard(c) \in Contexts
        BY AllowFacts
      <4>2. ctx[Guard(c)].base \in Counts /\ ctx[Guard(c)].own \in Counts /\ quota \in Counts
        BY <4>1 DEF Shape, Typed, CtxRecords
      <4> QED  BY <4>2, CountFacts DEF View
    <3>3. ASSUME NEW o \in r.ops
          PROVE  sent[<<o, r.span>>] <= View(c)[<<o, r.span>>]
      <4>1. <<o, r.span>> \in Buckets
        BY <2>1
      <4>2. NoneLost \/ (ctx[c].op \in Risk /\ <<o, r.span>> \in RiskBuckets)
        BY <1>2, <1>3, <2>1, <2>4 DEF RiskBuckets
      <4> QED  BY <4>1, <4>2, ViewCovers
    <3>4. Count(r, View(c)) \in Nat /\ Count(r, sent) <= Count(r, View(c))
      BY <1>1, <3>2, <3>3, CountGrows
    <3>5. Count(r, View(c)) < r.limit
      BY <2>1, <3>1, <3>4 DEF Reached
    <3> QED  BY <2>1, <2>2, <3>4, <3>5
  <2> QED  BY <2>3, <2>4
<1> QED  BY <1>3 DEF Limited

(* Every step keeps the limits.                                            *)
LEMMA NextLimited ==
  ASSUME Shape, Shape', Holdings, Exact, Based, Limited, [Next]_vars
  PROVE  Limited'
<1>1. \A b \in Buckets : sent[b] \in Nat
  BY DEF Shape, Typed, Counts
<1>2. ASSUME sent' = sent, NoneLost' => NoneLost
      PROVE  Limited'
  BY <1>1, <1>2, LimitedKept
<1>3. ASSUME NEW c \in Ids, Borrow(c) \/ LoadCounters(c)
      PROVE  Limited'
  BY <1>2, <1>3, BeginFacts DEF NoneLost
<1>4. ASSUME NEW c \in Ids, CheckHistory(c)
      PROVE  Limited'
  BY <1>2, <1>4, CheckFacts DEF NoneLost
<1>5. ASSUME NEW c \in Ids, InsertRow(c) \/ InsertFails(c)
      PROVE  Limited'
  BY <1>2, <1>5, ReadyFacts DEF NoneLost
<1>6. ASSUME NEW c \in Ids, (\E op \in Ops : Ask(c, op)) \/ Block(c) \/ Quit(c)
      PROVE  Limited'
  BY <1>2, <1>6, WaitFacts DEF NoneLost
<1>7. ASSUME NEW c \in Ids, Allow(c)
      PROVE  Limited'
  BY <1>7, AllowLimited
<1>8. ASSUME NEW c \in Ids, Flush(c)
      PROVE  Limited'
  BY <1>2, <1>8, FlushFacts DEF NoneLost
<1>9. ASSUME NEW c \in Ids, FlushFails(c) \/ FlushBorrowed(c)
      PROVE  Limited'
  BY <1>2, <1>9, LeaveFacts DEF NoneLost
<1>10. CASE LoseWorker \/ RestartServer
  <2>1. NoneLost' => NoneLost
    BY <1>10, LossFacts DEF NoneLost, Live
  <2> QED  BY <1>2, <1>10, <2>1, LossFacts
<1>11. CASE MonitorReads \/ MonitorMarks \/ NewWorker
  BY <1>2, <1>11, MonitorFacts DEF NoneLost
<1>12. CASE NextMinute
  <2>1. (NoneLost' => NoneLost) /\ \A b \in Buckets : sent'[b] <= sent[b]
    BY <1>1, <1>12, MinuteFacts DEF NoneLost
  <2> QED  BY <2>1, LimitedKept
<1>13. CASE NextDay
  <2>1. (NoneLost' => NoneLost) /\ \A b \in Buckets : sent'[b] <= sent[b]
    BY <1>1, <1>13, DayFacts DEF NoneLost
  <2> QED  BY <2>1, LimitedKept
<1>14. CASE UNCHANGED vars
  BY <1>2, <1>14 DEF vars, NoneLost
<1> QED  BY <1>3, <1>4, <1>5, <1>6, <1>7, <1>8, <1>9, <1>10, <1>11, <1>12, <1>13, <1>14
         DEF Next

-----------------------------------------------------------------------------
(* The invariant: while nothing has failed.                                *)
Faultless ==
  faults = 0 =>
    /\ worker = "up" /\ NoneLost
    /\ \A c \in Contexts :
         /\ ~ctx[c].broken
         /\ row[c].st # "incomplete"
         /\ row[c].st = "active" => c \in Ids /\ ctx[c].st = "live" /\ OwnsGuard(c)
         /\ IsRun(c) => ~ctx[c].bad

(* A run that checks the history before anything failed finds nothing: a   *)
(* row that is open is of somebody at work, who is neither another run     *)
(* nor an order command, since the run holds the lock.                     *)
LEMMA NoAlarm ==
  ASSUME Shape, Faultless, faults = 0, NEW c \in Ids, IsRun(c), CheckHistory(c)
  PROVE  ~IncompleteHistory
<1>1. ASSUME NEW d \in Ids, HidesCounts(d)
      PROVE  FALSE
  <2>1. c \in Contexts /\ d \in Contexts /\ ctx[c].st = "loaded" /\ 0 \notin Contexts
    BY CheckFacts, ContextFacts DEF Shape, Typed
  <2>2. row[d].st = "active" /\ d # active /\ ctx[d].st = "live" /\ OwnsGuard(d) /\ ~IsCatalog(d)
    BY <1>1, <2>1 DEF HidesCounts, Faultless, IsCatalog
  <2>3. IsRun(d) \/ IsOrder(d)
    BY <2>2, ControlAssumption DEF Shape, Typed, Ids, IsRun, IsOrder, IsCatalog, ContextKinds
  <2>4. CASE IsRun(d)
    BY <2>1, <2>2, <2>4 DEF Shape, Beside
  <2>5. CASE IsOrder(d)
    <3>1. lock = d /\ lock = c /\ ~IsRun(d)
      BY <2>1, <2>2, <2>5 DEF Shape, Beside, Live, IsRun, IsOrder
    <3> QED  BY <3>1
  <2> QED  BY <2>3, <2>4, <2>5
<1> QED  BY <1>1 DEF IncompleteHistory

(* Every step that does not fail leaves no trace of a failure.             *)
LEMMA NextFaultless ==
  ASSUME Shape, Shape', Faultless, [Next]_vars
  PROVE  Faultless'
<1>1. faults \in Nat
  BY DEF Shape, Typed
<1>2. ASSUME NEW c \in Ids, Borrow(c) \/ LoadCounters(c)
      PROVE  Faultless'
  <2>1. ctx'[c].st # "lost" /\ ~ctx'[c].broken /\ ~ctx'[c].bad /\ ctx'[c].st # "failed"
    <3>1. c \in Contexts
      BY <1>2, BeginFacts
    <3>2. CASE Borrow(c)
      <4>1. ctx' = [ctx EXCEPT ![c] = [NoContext EXCEPT !.st = "live", !.guard = active,
                                                        !.left = MaxAsks]]
        BY <3>2 DEF Borrow
      <4> QED  BY <3>1, <4>1 DEF NoContext, Shape, Typed
    <3>3. CASE LoadCounters(c)
      <4>1. ctx' = [ctx EXCEPT ![c] = [NoContext EXCEPT !.st = "loaded", !.guard = c,
                                                        !.today = TRUE, !.base = DailyCounters,
                                                        !.left = MaxAsks]]
        BY <3>3 DEF LoadCounters
      <4> QED  BY <3>1, <4>1 DEF NoContext, Shape, Typed
    <3> QED  BY <1>2, <3>2, <3>3
  <2>2. row[c].st = "none"
    BY <1>2, BeginFacts DEF Shape, Beside
  <2>3. \A d : IsRun(d)' = IsRun(d)
    BY <1>2, BeginFacts, SameRoles
  <2>4. Ids' = Ids
    BY <1>2, BeginFacts, SameRoles
  <2> QED  BY <1>2, <2>1, <2>2, <2>3, <2>4, BeginFacts DEF Faultless, NoneLost, OwnsGuard, Guard
<1>3. ASSUME NEW c \in Ids, CheckHistory(c)
      PROVE  Faultless'
  <2>1. Ids' = Ids /\ \A d : IsRun(d)' = IsRun(d)
    BY <1>3, CheckFacts, SameRoles
  <2>2. faults = 0 /\ IsRun(c) => ~ctx'[c].bad
    BY <1>3, CheckFacts, NoAlarm
  <2>3. row[c].st = "none"
    BY <1>3, CheckFacts DEF Shape, Beside
  <2> QED  BY <1>3, <2>1, <2>2, <2>3, CheckFacts DEF Faultless, NoneLost, OwnsGuard, Guard
<1>4. ASSUME NEW c \in Ids, InsertRow(c)
      PROVE  Faultless'
  <2>1. Ids' = Ids /\ \A d : IsRun(d)' = IsRun(d)
    BY <1>4, ReadyFacts, SameRoles
  <2>2. ~ctx'[c].broken /\ row'[c].st = "active" /\ faults' = faults
    BY <1>4, ReadyFacts DEF InsertRow, Ready, Shape, Typed, CtxRecords, RowRecords
  <2>3. OwnsGuard(c)
    BY <1>4, ReadyFacts DEF Shape, Placed, Live
  <2> QED  BY <1>4, <2>1, <2>2, <2>3, ReadyFacts DEF Faultless, NoneLost, OwnsGuard, Guard
<1>5. ASSUME NEW c \in Ids, InsertFails(c) \/ FlushFails(c)
      PROVE  Faultless'
  <2>1. faults' = faults + 1
    BY <1>5 DEF InsertFails, FlushFails
  <2>2. faults' # 0
    BY <1>1, <2>1
  <2> QED  BY <2>2 DEF Faultless
<1>6. ASSUME NEW c \in Ids, (\E op \in Ops : Ask(c, op)) \/ Block(c) \/ Quit(c)
      PROVE  Faultless'
  <2>1. Ids' = Ids /\ \A d : IsRun(d)' = IsRun(d)
    BY <1>6, WaitFacts, SameRoles
  <2> QED  BY <1>6, <2>1, WaitFacts DEF Faultless, NoneLost, OwnsGuard, Guard
<1>7. ASSUME NEW c \in Ids, Allow(c)
      PROVE  Faultless'
  <2>1. UNCHANGED <<plan, worker, row, faults>>
    BY <1>7 DEF Allow
  <2>2. Ids' = Ids /\ \A d : IsRun(d)' = IsRun(d)
    BY <2>1, SameRoles
  <2> QED  BY <1>7, <2>1, <2>2, AllowFacts DEF Faultless, NoneLost, OwnsGuard, Guard
<1>8. ASSUME NEW c \in Ids, Flush(c)
      PROVE  Faultless'
  <2>1. Ids' = Ids /\ \A d : IsRun(d)' = IsRun(d)
    BY <1>8, SameRoles DEF Flush
  <2>2. /\ c \in Contexts /\ ctx'[c].st = "done" /\ ~ctx'[c].broken /\ ~ctx'[c].bad
        /\ UNCHANGED <<worker, faults>>
        /\ \A d \in Contexts : d # c => ctx'[d] = ctx[d] /\ row'[d] = row[d]
        /\ row'[c].st # "active" /\ (row'[c].st = "incomplete" => row[c].st = "incomplete")
    <3>1. c \in Contexts
      BY ContextFacts DEF Shape, Typed
    <3>2. /\ ctx' = [ctx EXCEPT ![c] = Ended("done")] /\ UNCHANGED <<worker, faults>>
          /\ row' = [row EXCEPT ![c] = IF @.st = "none" THEN @ ELSE [st |-> "closed", end |-> "today"]]
      BY <1>8 DEF Flush
    <3>3. Ended("done").st = "done" /\ ~Ended("done").broken /\ ~Ended("done").bad
      BY DEF Ended, NoContext
    <3>4. ctx'[c] = Ended("done") /\ \A d \in Contexts : d # c => ctx'[d] = ctx[d] /\ row'[d] = row[d]
      BY <3>1, <3>2 DEF Shape, Typed
    <3>5. row'[c].st # "active" /\ (row'[c].st = "incomplete" => row[c].st = "incomplete")
      BY <3>1, <3>2 DEF Shape, Typed
    <3> QED  BY <3>1, <3>2, <3>3, <3>4, <3>5
  <2> QED  BY <2>1, <2>2 DEF Faultless, NoneLost, OwnsGuard, Guard
<1>9. ASSUME NEW c \in Ids, FlushBorrowed(c)
      PROVE  Faultless'
  <2>1. UNCHANGED <<plan, worker, row, faults>> /\ ~OwnsGuard(c) /\ ctx' = [ctx EXCEPT ![c] = Ended("done")]
    BY <1>9 DEF FlushBorrowed
  <2>2. Ended("done").st = "done" /\ ~Ended("done").broken /\ ~Ended("done").bad
    BY DEF Ended, NoContext
  <2>3. ctx'[c] = Ended("done")
    BY <1>9, <2>1, LeaveFacts DEF Shape, Typed
  <2>4. Ids' = Ids /\ \A d : IsRun(d)' = IsRun(d)
    BY <2>1, SameRoles
  <2> QED  BY <1>9, <2>1, <2>2, <2>3, <2>4, LeaveFacts DEF Faultless, NoneLost, OwnsGuard, Guard
<1>10. CASE LoseWorker
  <2>1. worker = "up" => faults' = faults + 1
    BY <1>10 DEF LoseWorker
  <2>2. faults = 0 => worker = "up"
    BY DEF Faultless
  <2>3. worker # "up" => faults' = faults
    BY <1>10 DEF LoseWorker
  <2>4. faults' # 0
    BY <1>1, <2>1, <2>2, <2>3
  <2> QED  BY <2>4 DEF Faultless
<1>11. CASE RestartServer
  <2>1. faults' # 0
    BY <1>1, <1>11 DEF RestartServer
  <2> QED  BY <2>1 DEF Faultless
<1>12. CASE NewWorker
  <2>1. faults' = faults /\ faults # 0
    BY <1>12 DEF NewWorker, Faultless
  <2> QED  BY <2>1 DEF Faultless
<1>13. CASE MonitorReads \/ MonitorMarks
  <2>1. UNCHANGED <<plan, ctx, worker, faults>>
    BY <1>13 DEF MonitorReads, MonitorMarks
  <2>2. faults = 0 => \A d \in Contexts : row'[d] = row[d]
    BY <1>13, MonitorFacts DEF Faultless, NoneLost
  <2>3. Ids' = Ids /\ \A d : IsRun(d)' = IsRun(d)
    BY <2>1, SameRoles
  <2> QED  BY <2>1, <2>2, <2>3 DEF Faultless, NoneLost, OwnsGuard, Guard
<1>14. CASE NextMinute
  <2>1. Ids' = Ids /\ \A d : IsRun(d)' = IsRun(d)
    BY <1>14, MinuteFacts, SameRoles
  <2> QED  BY <1>14, <2>1, MinuteFacts DEF Faultless, NoneLost, OwnsGuard, Guard
<1>15. CASE NextDay
  <2>1. Ids' = Ids /\ \A d : IsRun(d)' = IsRun(d)
    BY <1>15, DayFacts, SameRoles
  <2> QED  BY <1>15, <2>1, DayFacts DEF Faultless, NoneLost, OwnsGuard, Guard
<1>16. CASE UNCHANGED vars
  <2>1. UNCHANGED <<plan, ctx, worker, row, faults>>
    BY <1>16 DEF vars
  <2>2. Ids' = Ids /\ \A d : IsRun(d)' = IsRun(d)
    BY <2>1, SameRoles
  <2> QED  BY <2>1, <2>2 DEF Faultless, NoneLost, OwnsGuard, Guard
<1> QED  BY <1>2, <1>3, <1>4, <1>5, <1>6, <1>7, <1>8, <1>9, <1>10, <1>11, <1>12, <1>13, <1>14,
            <1>15, <1>16
         DEF Next

-----------------------------------------------------------------------------
(* The theorems.                                                           *)
AccountInv ==
  /\ Shape /\ Holdings
  /\ Exact /\ Based /\ Limited
  /\ Faultless

(* The invariant holds at first.                                           *)
LEMMA InitInv ==
  ASSUME Init
  PROVE  AccountInv
<1>1. Shape /\ Holdings
  BY InitShape, InitHoldings
<1>2. \A c \in Contexts : /\ ctx[c].st = "none" /\ ~ctx[c].bad /\ ~ctx[c].broken
                          /\ row[c].st = "none"
                          /\ \A b \in Buckets : saved[c][b] = 0 /\ ctx[c].own[b] = 0
  BY CountFacts DEF Init, NoContext
<1>3. \A b \in Buckets : sent[b] = 0
  BY CountFacts DEF Init
<1>4. \A b \in Buckets : Total[b] = 0
  <2>1. ASSUME NEW b \in Buckets
        PROVE  Total[b] = 0
    <3>1. /\ Together \in [Contexts -> Counts] /\ IsFiniteSet(Contexts)
          /\ \A c \in Contexts : Together[c][b] = saved[c][b] + ctx[c].own[b]
      BY <1>1, TotalFacts
    <3>2. \A c \in Contexts : Together[c][b] = 0
      BY <1>2, <3>1
    <3>3. CountSum(Together)[b] = 0
      BY <3>1, <3>2, FoldNothing
    <3> QED  BY <3>3 DEF Total
  <2> QED  BY <2>1
<1>5. Exact
  BY <1>2, <1>3, <1>4, RiskFacts DEF Exact, RiskExact, Trusts, Live
<1>6. Based
  BY <1>2 DEF Based, Owner, Live
<1>7. Limited
  <2>1. ASSUME NEW r \in Rules
        PROVE  Count(r, sent) <= r.limit
    <3> DEFINE f == [o \in r.ops |-> sent[<<o, r.span>>]]
    <3>1. /\ r.limit \in Nat /\ r.ops \subseteq Ops /\ IsFiniteSet(r.ops)
          /\ \A o \in r.ops : <<o, r.span>> \in Buckets
      BY FS_Subset, ControlAssumption DEF Buckets
    <3>2. f \in [r.ops -> Nat] /\ \A o \in r.ops : f[o] = 0
      BY <1>3, <3>1
    <3>3. Count(r, sent) = SumFunction(f)
      BY DEF Count
    <3> HIDE DEF f
    <3>4. SumFunction(f) = 0
      BY <3>1, <3>2, SumNothing
    <3> QED  BY <3>1, <3>3, <3>4
  <2> QED  BY <2>1 DEF Limited
<1>8. Faultless
  BY <1>2 DEF Faultless, NoneLost, Init
<1> QED  BY <1>1, <1>5, <1>6, <1>7, <1>8 DEF AccountInv

(* Every step keeps the invariant.                                         *)
LEMMA NextInv ==
  ASSUME AccountInv, [Next]_vars
  PROVE  AccountInv'
<1>1. Shape'
  BY NextShape DEF AccountInv
<1>2. Holdings'
  BY NextHoldings DEF AccountInv
<1>3. Exact'
  BY <1>1, NextExact DEF AccountInv
<1>4. Based'
  BY <1>1, NextBased DEF AccountInv
<1>5. Limited'
  BY <1>1, NextLimited DEF AccountInv
<1>6. Faultless'
  BY <1>1, NextFaultless DEF AccountInv
<1> QED  BY <1>1, <1>2, <1>3, <1>4, <1>5, <1>6 DEF AccountInv

(* The invariant holds in every reachable state.                           *)
LEMMA AlwaysInv == Spec => []AccountInv
<1>1. Init => AccountInv
  BY InitInv
<1>2. AccountInv /\ [Next]_vars => AccountInv'
  BY NextInv
<1> QED  BY <1>1, <1>2, PTL DEF Spec

(* The rows, contexts and the lock keep their types, a row is open for as  *)
(* long as it is active, and the registered guard is of a run at work.     *)
THEOREM AccountTyped == Spec => []TypeOK
<1>1. ASSUME AccountInv
      PROVE  TypeOK
  <2>1. Typed /\ Registered
    BY <1>1 DEF AccountInv, Shape
  <2>2. /\ worker \in {"up", "spoiled", "gone"} /\ lock \in Contexts \cup {0}
        /\ seen # 0 => plan[seen] = "run" /\ row[seen].st # "none"
        /\ active # 0 => plan[active] = "run" /\ ctx[active].st = "live"
    BY <2>1 DEF Typed, Registered, IsRun
  <2>3. ASSUME NEW c \in Contexts
        PROVE  /\ ctx[c].st \in CtxStates
               /\ ctx[c].guard \in Contexts \cup {0}
               /\ ctx[c].op \in Ops \cup {"none"}
               /\ row[c].st \in {"none", "active", "incomplete", "closed"}
               /\ row[c].end \in {"open", "today", "earlier"}
               /\ row[c].st = "active" <=> row[c].st # "none" /\ row[c].end = "open"
    BY <2>1 DEF Typed, CtxRecords, RowRecords
  <2> QED  BY <2>2, <2>3 DEF TypeOK, CtxStates
<1>2. AccountInv => TypeOK
  BY <1>1
<1> QED  BY <1>2, AlwaysInv, PTL

(* In every reachable state, whatever ran at once, was lost or failed to   *)
(* be written, however minutes and days ended: what was permitted is       *)
(* within each rule about orders, and within every rule while no count was *)
(* lost (begin_operation, has_incomplete_risk_history).                    *)
THEOREM QuotaIsKept == Spec => []QuotaKept
<1>1. AccountInv => QuotaKept
  BY DEF AccountInv, Limited, QuotaKept, NoneLost, Lost
<1> QED  BY <1>1, AlwaysInv, PTL

(* In every reachable state before the first failure, no run is refused    *)
(* its orders (has_incomplete_risk_history).                               *)
THEOREM NoFalseAlarms == Spec => []NoFalseAlarm
<1>1. ASSUME AccountInv
      PROVE  NoFalseAlarm
  BY <1>1, ContextFacts DEF AccountInv, Shape, Typed, Faultless, NoFalseAlarm, IsRun
<1>2. AccountInv => NoFalseAlarm
  BY <1>1
<1> QED  BY <1>2, AlwaysInv, PTL

(* Whenever every context has ended and none was lost, the database has    *)
(* every operation that was permitted, once                                *)
(* (flush_account_control_records).                                        *)
THEOREM RecordsAreComplete == Spec => []RecordsComplete
<1>1. ASSUME AccountInv, ~Lost, \A c \in Contexts : ~Live(c)
      PROVE  DailyCounters = sent
  <2>1. \A c \in Contexts : \A b \in Buckets : ctx[c].own[b] = 0
    BY <1>1 DEF AccountInv, Holdings, Held, Empty, Live
  <2>2. \A b \in Buckets : sent[b] = Total[b]
    BY <1>1 DEF AccountInv, Exact, Lost, NoneLost
  <2>3. \A b \in Buckets : Total[b] = DailyCounters[b]
    <3>1. /\ saved \in [Contexts -> Counts] /\ Together \in [Contexts -> Counts]
          /\ IsFiniteSet(Contexts)
          /\ \A d \in Contexts : \A b \in Buckets :
               Together[d][b] = saved[d][b] + ctx[d].own[b] /\ saved[d][b] \in Nat
      BY <1>1, TotalFacts DEF AccountInv, Shape, Typed
    <3>2. ASSUME NEW b \in Buckets
          PROVE  Total[b] = DailyCounters[b]
      <4>1. \A d \in Contexts : saved[d][b] = Together[d][b]
        BY <2>1, <3>1
      <4>2. CountSum(Together)[b] = CountSum(saved)[b]
        BY <3>1, <4>1, FoldSame
      <4> QED  BY <4>2 DEF Total, DailyCounters, CountSum
    <3> QED  BY <3>2
  <2>4. DailyCounters \in Counts /\ sent \in Counts
    BY <1>1, TotalFacts DEF AccountInv, Shape, Typed
  <2> QED  BY <2>2, <2>3, <2>4 DEF Counts
<1>2. AccountInv => RecordsComplete
  BY <1>1 DEF RecordsComplete
<1> QED  BY <1>2, AlwaysInv, PTL

-----------------------------------------------------------------------------
(* The outbox: at most one delivery, in order, for every set of events and *)
(* any number of faults and crashes.                                       *)

(* Sequences are given in increasing order and kept below the counter.     *)
Numbered == \A e \in Events : seq[e] <= last

(* An event is called only after it was committed as taken.                *)
Untouched ==
  \A e \in Events : status[e] \in {"none", "pending"} => calls[e] = 0

(* What the runner holds has left the queue, has not been called before it *)
(* calls it, and has nothing older waiting behind it.                      *)
InHand ==
  /\ runner \in {"call", "store"} =>
       event \in Events /\ status[event] \notin {"none", "pending"}
  /\ runner = "call" =>
       /\ calls[event] = 0
       /\ \A f \in Events : status[f] = "pending" => seq[event] <= seq[f]

(* Recovery only closes events that have been taken.                       *)
SeenTaken == \A e \in unsure : status[e] \notin {"none", "pending"}

OutboxInv ==
  OutboxTypeOK /\ AtMostOnce /\ Numbered /\ Untouched /\ InHand /\ SeenTaken

USE DEF dbVars, runVars, lifeVars

-----------------------------------------------------------------------------
(* The outbox starts empty.                                                *)
LEMMA InitHolds == OutboxInit => OutboxInv
<1> SUFFICES ASSUME OutboxInit PROVE OutboxInv
  OBVIOUS
<1>1. rerun \in BOOLEAN /\ soon \in BOOLEAN
  BY Zenon DEF OutboxInit
<1>2. OutboxTypeOK
  BY <1>1 DEF OutboxInit, OutboxTypeOK
<1> QED
  BY <1>2 DEF OutboxInit, OutboxInv, AtMostOnce, Numbered, Untouched, InHand,
              SeenTaken

(* A wake only starts the runner or asks it to run again.                  *)
LEMMA WakeTyped ==
  ASSUME OutboxTypeOK, Wake
  PROVE  /\ runner' \in {"off", "load", "call", "store", "leave"}
         /\ rerun' \in BOOLEAN
         /\ runner' \in {"call", "store"} => runner' = runner
<1>1. runner' \in {"off", "load", "call", "store", "leave"}
  BY SMT DEF OutboxTypeOK, Wake
<1>2. rerun' \in BOOLEAN
  BY Zenon DEF OutboxTypeOK, Wake
<1>3. runner' \in {"call", "store"} => runner' = runner
  BY SMT DEF OutboxTypeOK, Wake
<1> QED  BY <1>1, <1>2, <1>3

(* A new event comes after all others.                                   *)
LEMMA EnqueueKeeps ==
  ASSUME OutboxInv, NEW e \in Events, Enqueue(e)
  PROVE  OutboxInv'
<1> USE OutboxAssumption DEF OutboxInv, Enqueue
<1>1. OutboxTypeOK'
  <2>1. rerun' \in BOOLEAN /\ soon' \in BOOLEAN
    BY Zenon DEF OutboxTypeOK
  <2>2. QED  BY <2>1 DEF OutboxTypeOK, Final
<1>2. AtMostOnce' /\ Numbered' /\ Untouched'
  BY DEF OutboxTypeOK, AtMostOnce, Numbered, Untouched, InHand, SeenTaken
<1>3. InHand' /\ SeenTaken'
  BY DEF OutboxTypeOK, Numbered, Untouched, InHand, SeenTaken
<1> QED  BY <1>1, <1>2, <1>3

(* A wake does not touch the event in hand.                              *)
LEMMA WakeUpKeeps ==
  ASSUME OutboxInv, NEW e \in Events, WakeUp(e)
  PROVE  OutboxInv'
<1> USE OutboxAssumption DEF OutboxInv, WakeUp
<1>1. OutboxTypeOK'
  <2>1. rerun' \in BOOLEAN /\ soon' \in BOOLEAN
    BY Zenon, WakeTyped DEF OutboxTypeOK
  <2>2. QED  BY <2>1, WakeTyped DEF OutboxTypeOK, Final
<1>2. AtMostOnce' /\ Numbered' /\ Untouched'
  BY DEF OutboxTypeOK, AtMostOnce, Numbered, Untouched, InHand, SeenTaken
<1>3. InHand' /\ SeenTaken'
  BY WakeTyped DEF OutboxTypeOK, Numbered, Untouched, InHand, SeenTaken
<1> QED  BY <1>1, <1>2, <1>3

(* Nor does the monitor.                                                 *)
LEMMA PollWarningsKeeps ==
  ASSUME OutboxInv, PollWarnings
  PROVE  OutboxInv'
<1> USE OutboxAssumption DEF OutboxInv, PollWarnings
<1>1. OutboxTypeOK'
  <2>1. rerun' \in BOOLEAN /\ soon' \in BOOLEAN
    BY Zenon DEF OutboxTypeOK
  <2>2. QED  BY <2>1 DEF OutboxTypeOK, Final
<1>2. AtMostOnce' /\ Numbered' /\ Untouched'
  BY DEF OutboxTypeOK, AtMostOnce, Numbered, Untouched, InHand, SeenTaken
<1>3. InHand' /\ SeenTaken'
  BY DEF OutboxTypeOK, Numbered, Untouched, InHand, SeenTaken
<1> QED  BY <1>1, <1>2, <1>3

(* The oldest pending event is taken: it has not been called.            *)
LEMMA RunTakeKeeps ==
  ASSUME OutboxInv, RunTake
  PROVE  OutboxInv'
<1> USE OutboxAssumption DEF OutboxInv, RunTake, Oldest, Pending
<1>1. OutboxTypeOK'
  <2>1. rerun' \in BOOLEAN /\ soon' \in BOOLEAN
    BY Zenon DEF OutboxTypeOK
  <2>2. QED  BY <2>1 DEF OutboxTypeOK, Final
<1>2. AtMostOnce' /\ Numbered' /\ Untouched'
  BY DEF OutboxTypeOK, AtMostOnce, Numbered, Untouched, InHand, SeenTaken
<1>3. InHand' /\ SeenTaken'
  BY DEF OutboxTypeOK, Numbered, Untouched, InHand, SeenTaken
<1> QED  BY <1>1, <1>2, <1>3

(* Leaving an empty queue.                                               *)
LEMMA RunIdleKeeps ==
  ASSUME OutboxInv, RunIdle
  PROVE  OutboxInv'
<1> USE OutboxAssumption DEF OutboxInv, RunIdle
<1>1. OutboxTypeOK'
  <2>1. rerun' \in BOOLEAN /\ soon' \in BOOLEAN
    BY Zenon DEF OutboxTypeOK
  <2>2. QED  BY <2>1 DEF OutboxTypeOK, Final
<1>2. AtMostOnce' /\ Numbered' /\ Untouched'
  BY DEF OutboxTypeOK, AtMostOnce, Numbered, Untouched, InHand, SeenTaken
<1>3. InHand' /\ SeenTaken'
  BY DEF OutboxTypeOK, Numbered, Untouched, InHand, SeenTaken
<1> QED  BY <1>1, <1>2, <1>3

(* The only call of the event: it was taken, so it is not taken again.   *)
LEMMA RunCallKeeps ==
  ASSUME OutboxInv, RunCall
  PROVE  OutboxInv'
<1> USE OutboxAssumption DEF OutboxInv, RunCall
<1>1. OutboxTypeOK'
  <2>1. rerun' \in BOOLEAN /\ soon' \in BOOLEAN
    BY Zenon DEF OutboxTypeOK
  <2>2. QED  BY <2>1 DEF OutboxTypeOK, InHand
<1>2. AtMostOnce' /\ Numbered' /\ Untouched'
  BY DEF OutboxTypeOK, AtMostOnce, Numbered, Untouched, InHand, SeenTaken
<1>3. InHand' /\ SeenTaken'
  BY DEF OutboxTypeOK, Numbered, Untouched, InHand, SeenTaken
<1> QED  BY <1>1, <1>2, <1>3

(* No call at all.                                                       *)
LEMMA RunSkipKeeps ==
  ASSUME OutboxInv, RunSkip
  PROVE  OutboxInv'
<1> USE OutboxAssumption DEF OutboxInv, RunSkip
<1>1. OutboxTypeOK'
  <2>1. rerun' \in BOOLEAN /\ soon' \in BOOLEAN
    BY Zenon DEF OutboxTypeOK
  <2>2. QED  BY <2>1 DEF OutboxTypeOK, Final
<1>2. AtMostOnce' /\ Numbered' /\ Untouched'
  BY DEF OutboxTypeOK, AtMostOnce, Numbered, Untouched, InHand, SeenTaken
<1>3. InHand' /\ SeenTaken'
  BY DEF OutboxTypeOK, Numbered, Untouched, InHand, SeenTaken
<1> QED  BY <1>1, <1>2, <1>3

(* A result closes the event.                                            *)
LEMMA RunStoreKeeps ==
  ASSUME OutboxInv, RunStore
  PROVE  OutboxInv'
<1> USE OutboxAssumption DEF OutboxInv, RunStore
<1>1. OutboxTypeOK'
  <2>1. rerun' \in BOOLEAN /\ soon' \in BOOLEAN
    BY Zenon DEF OutboxTypeOK
  <2>2. QED  BY <2>1 DEF OutboxTypeOK, Final
<1>2. AtMostOnce' /\ Numbered' /\ Untouched'
  BY DEF OutboxTypeOK, AtMostOnce, Numbered, Untouched, InHand, SeenTaken
<1>3. InHand' /\ SeenTaken'
  BY DEF OutboxTypeOK, Numbered, Untouched, InHand, SeenTaken
<1> QED  BY <1>1, <1>2, <1>3

(* A fault leaves the event as taken.                                    *)
LEMMA RunFaultKeeps ==
  ASSUME OutboxInv, RunFault
  PROVE  OutboxInv'
<1> USE OutboxAssumption DEF OutboxInv, RunFault
<1>1. OutboxTypeOK'
  <2>1. rerun' \in BOOLEAN /\ soon' \in BOOLEAN
    BY Zenon DEF OutboxTypeOK
  <2>2. QED  BY <2>1 DEF OutboxTypeOK, Final
<1>2. AtMostOnce' /\ Numbered' /\ Untouched'
  BY DEF OutboxTypeOK, AtMostOnce, Numbered, Untouched, InHand, SeenTaken
<1>3. InHand' /\ SeenTaken'
  BY DEF OutboxTypeOK, Numbered, Untouched, InHand, SeenTaken
<1> QED  BY <1>1, <1>2, <1>3

(* The runner ends.                                                      *)
LEMMA RunLeaveKeeps ==
  ASSUME OutboxInv, RunLeave
  PROVE  OutboxInv'
<1> USE OutboxAssumption DEF OutboxInv, RunLeave
<1>1. OutboxTypeOK'
  <2>1. rerun' \in BOOLEAN /\ soon' \in BOOLEAN
    BY Zenon DEF OutboxTypeOK
  <2>2. QED  BY <2>1 DEF OutboxTypeOK, Final
<1>2. AtMostOnce' /\ Numbered' /\ Untouched'
  BY DEF OutboxTypeOK, AtMostOnce, Numbered, Untouched, InHand, SeenTaken
<1>3. InHand' /\ SeenTaken'
  BY DEF OutboxTypeOK, Numbered, Untouched, InHand, SeenTaken
<1> QED  BY <1>1, <1>2, <1>3

(* The wakes that met it are repeated.                                   *)
LEMMA RunAgainKeeps ==
  ASSUME OutboxInv, RunAgain
  PROVE  OutboxInv'
<1> USE OutboxAssumption DEF OutboxInv, RunAgain
<1>1. OutboxTypeOK'
  <2>1. rerun' \in BOOLEAN /\ soon' \in BOOLEAN
    BY Zenon, WakeTyped DEF OutboxTypeOK
  <2>2. QED  BY <2>1, WakeTyped DEF OutboxTypeOK, Final
<1>2. AtMostOnce' /\ Numbered' /\ Untouched'
  BY DEF OutboxTypeOK, AtMostOnce, Numbered, Untouched, InHand, SeenTaken
<1>3. InHand' /\ SeenTaken'
  BY WakeTyped DEF OutboxTypeOK, Numbered, Untouched, InHand, SeenTaken
<1> QED  BY <1>1, <1>2, <1>3

(* A crash keeps the rows, hence what has been taken.                    *)
LEMMA CrashKeeps ==
  ASSUME OutboxInv, Crash
  PROVE  OutboxInv'
<1> USE OutboxAssumption DEF OutboxInv, Crash
<1>1. OutboxTypeOK'
  <2>1. rerun' \in BOOLEAN /\ soon' \in BOOLEAN
    BY Zenon DEF OutboxTypeOK
  <2>2. QED  BY <2>1 DEF OutboxTypeOK, Final
<1>2. AtMostOnce' /\ Numbered' /\ Untouched'
  BY DEF OutboxTypeOK, AtMostOnce, Numbered, Untouched, InHand, SeenTaken
<1>3. InHand' /\ SeenTaken'
  BY DEF OutboxTypeOK, Numbered, Untouched, InHand, SeenTaken
<1> QED  BY <1>1, <1>2, <1>3

(* Recovery of tickets only moves on.                                    *)
LEMMA RecoverTicketsKeeps ==
  ASSUME OutboxInv, RecoverTickets
  PROVE  OutboxInv'
<1> USE OutboxAssumption DEF OutboxInv, RecoverTickets
<1>1. OutboxTypeOK'
  <2>1. rerun' \in BOOLEAN /\ soon' \in BOOLEAN
    BY Zenon DEF OutboxTypeOK
  <2>2. QED  BY <2>1 DEF OutboxTypeOK, Final
<1>2. AtMostOnce' /\ Numbered' /\ Untouched'
  BY DEF OutboxTypeOK, AtMostOnce, Numbered, Untouched, InHand, SeenTaken
<1>3. InHand' /\ SeenTaken'
  BY DEF OutboxTypeOK, Numbered, Untouched, InHand, SeenTaken
<1> QED  BY <1>1, <1>2, <1>3

(* What is calling has been taken.                                       *)
LEMMA RecoverScanKeeps ==
  ASSUME OutboxInv, RecoverScan
  PROVE  OutboxInv'
<1> USE OutboxAssumption DEF OutboxInv, RecoverScan, Pending
<1>1. OutboxTypeOK'
  <2>1. rerun' \in BOOLEAN /\ soon' \in BOOLEAN
    BY Zenon DEF OutboxTypeOK
  <2>2. QED  BY <2>1 DEF OutboxTypeOK, Final
<1>2. AtMostOnce' /\ Numbered' /\ Untouched'
  BY DEF OutboxTypeOK, AtMostOnce, Numbered, Untouched, InHand, SeenTaken
<1>3. InHand' /\ SeenTaken'
  BY DEF OutboxTypeOK, Numbered, Untouched, InHand, SeenTaken
<1> QED  BY <1>1, <1>2, <1>3

(* Events seen calling are closed and do not return to the queue.        *)
LEMMA RecoverUnknownKeeps ==
  ASSUME OutboxInv, RecoverUnknown
  PROVE  OutboxInv'
<1> USE OutboxAssumption DEF OutboxInv, RecoverUnknown
<1>1. OutboxTypeOK'
  <2>1. rerun' \in BOOLEAN /\ soon' \in BOOLEAN
    BY Zenon DEF OutboxTypeOK
  <2>2. QED  BY <2>1 DEF OutboxTypeOK, Final
<1>2. AtMostOnce' /\ Numbered' /\ Untouched'
  BY DEF OutboxTypeOK, AtMostOnce, Numbered, Untouched, InHand, SeenTaken
<1>3. InHand' /\ SeenTaken'
  BY DEF OutboxTypeOK, Numbered, Untouched, InHand, SeenTaken
<1> QED  BY <1>1, <1>2, <1>3

-----------------------------------------------------------------------------
(* The invariant is inductive.                                             *)
LEMMA StepKeeps == OutboxInv /\ [OutboxNext]_outboxVars => OutboxInv'
<1> SUFFICES ASSUME OutboxInv, [OutboxNext]_outboxVars PROVE OutboxInv'
  OBVIOUS
<1>1. CASE \E e \in Events : Enqueue(e) \/ WakeUp(e)
  BY <1>1, EnqueueKeeps, WakeUpKeeps
<1>2. CASE PollWarnings \/ RunFault \/ Crash
  BY <1>2, PollWarningsKeeps, RunFaultKeeps, CrashKeeps
<1>3. CASE Running
  BY <1>3, RunTakeKeeps, RunIdleKeeps, RunCallKeeps, RunSkipKeeps,
     RunStoreKeeps, RunLeaveKeeps, RunAgainKeeps DEF Running
<1>4. CASE Recovering
  BY <1>4, RecoverTicketsKeeps, RecoverScanKeeps, RecoverUnknownKeeps
     DEF Recovering
<1>5. CASE UNCHANGED outboxVars
  <2>1. OutboxTypeOK'
    BY <1>5, Zenon DEF OutboxInv, OutboxTypeOK, outboxVars
  <2>2. AtMostOnce' /\ Numbered' /\ Untouched' /\ InHand' /\ SeenTaken'
    BY <1>5 DEF OutboxInv, AtMostOnce, Numbered, Untouched, InHand, SeenTaken,
                outboxVars
  <2> QED  BY <2>1, <2>2 DEF OutboxInv
<1> QED  BY <1>1, <1>2, <1>3, <1>4, <1>5 DEF OutboxNext

(* The inductive invariant holds in every behaviour.                       *)
LEMMA Invariance == OutboxSpec => []OutboxInv
  BY InitHolds, StepKeeps, PTL DEF OutboxSpec

(* At-most-once delivery: "calling" is committed before the function is    *)
(* called, and nothing returns an event to "pending", so neither a fault   *)
(* nor a crash at any point makes a second call.                           *)
THEOREM DeliveredAtMostOnce == OutboxSpec => []AtMostOnce
<1>1. OutboxInv => AtMostOnce
  BY DEF OutboxInv
<1> QED  BY Invariance, <1>1, PTL

(* The rows, the runner and the recovery keep their types.                 *)
THEOREM OutboxTyped == OutboxSpec => []OutboxTypeOK
<1>1. OutboxInv => OutboxTypeOK
  BY DEF OutboxInv
<1> QED  BY Invariance, <1>1, PTL

(* Delivery in the persisted order: only RunCall calls, what the runner    *)
(* holds was the oldest when it was taken, and what comes later is numbered*)
(* higher.                                                                 *)
THEOREM DeliveredInOrder == OutboxSpec => InOrder
<1> DEFINE Ordered ==
      \A e, f \in Events :
        calls'[e] > calls[e] /\ seq[f] < seq[e] => status[f] # "pending"
<1>1. OutboxInv /\ [OutboxNext]_outboxVars => [Ordered]_outboxVars
  <2> SUFFICES ASSUME OutboxInv, OutboxNext PROVE Ordered
    OBVIOUS
  <2> USE DEF OutboxInv, OutboxTypeOK
  <2>1. CASE RunCall
    BY <2>1 DEF RunCall, InHand
  <2>2. CASE calls' = calls
    BY <2>2
  <2>3. RunCall \/ calls' = calls
    BY DEF OutboxNext, Running, Recovering, Enqueue, WakeUp, PollWarnings, RunTake,
           RunIdle, RunSkip, RunStore, RunFault, RunLeave, RunAgain, Crash,
           RecoverTickets, RecoverScan, RecoverUnknown
  <2> QED  BY <2>1, <2>2, <2>3
<1> QED  BY Invariance, <1>1, PTL DEF OutboxSpec, InOrder
=============================================================================
