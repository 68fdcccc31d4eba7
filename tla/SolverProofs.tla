---------------------------- MODULE SolverProofs ----------------------------
(***************************************************************************)
(* Proofs about module Solver, for any variables, query and forward        *)
(* function: neither the cache of runs nor the screen costs Optimum or     *)
(* Pareto a node of the grid, and the sweep over the axes finds a solution *)
(* at every boundary between two neighbours.                               *)
(***************************************************************************)
EXTENDS Solver, Facts

Points == [AxisSet -> Int]

(* The objectives are numbers.                                             *)
Measured ==
  \A q \in Queries, m \in Models : \A x \in Points : \A i \in DOMAIN q.objectives :
    Y(m, x)[q.objectives[i]] \in Int

(* The screen is optimistic: what meets the targets passes it, as far as   *)
(* it gives their metrics.                                                 *)
Optimistic ==
  \A q \in Queries, m \in Models : \A x \in Points :
    MeetsTargets(Y(m, x)) => MeetsTargets([t \in q.screen |-> Screen(m, x)[t]])

-----------------------------------------------------------------------------
(* The inductive invariants behind NoneBetter and BoundaryFound.           *)

Indices == {i \in [AxisSet -> Int] : \A a \in AxisSet : i[a] \in 0 .. Shape(a) - 1}

PhaseOK ==
  /\ query \in Queries /\ model \in Models
  /\ phase \in {"grid", "candidates", "axis", "pairs", "sense", "done", "refused", "failed"}
  /\ phase # "refused" => Accepted(query)
  /\ k \in Nat /\ axis \in Nat \ {0}
  /\ phase = "pairs" => axis \in Continuous
  /\ \/ bis = NoBisection
     \/ bis \in [on : {TRUE}, f : Points, b : Int] /\ phase = "pairs"

(* What is recorded of a node: that a constraint rules it out, or its run. *)
GridOK ==
  /\ evaluated \in Seq(Points)
  /\ phase \in {"grid", "candidates"} => cand \subseteq Indices /\ IsFiniteSet(cand)
  /\ \A i \in DOMAIN node :
       /\ i \in Indices
       /\ \/ node[i] = Out /\ ~ Within(Point(i))
          \/ node[i] = Point(i) /\ Contains(evaluated, Point(i))

(* A visited node is recorded; of those that a screen is used on, the ones *)
(* that meet the query are, or are candidates, with their neighbours.      *)
Waiting == IF phase \in {"grid", "candidates"} THEN cand ELSE {}

Reached(i) ==
  IF query.screen = {} THEN i \in DOMAIN node
  ELSE Feasible(Point(i)) => {i} \cup Neighbours(i) \subseteq DOMAIN node \cup Waiting

Covered == \A n \in 0 .. Size(AxisSet) - 1 : (phase = "grid" => n < k) => Reached(Index(n))

Searching == phase \in {"grid", "candidates", "axis", "pairs"}

GridInv == PhaseOK /\ (Searching => GridOK /\ Covered)

(* Where the sweep starts.                                                 *)
StartOK ==
  /\ phase \in {"grid", "candidates"} => axis = 1 /\ sol = {}
  /\ phase \in {"candidates", "axis"} => k = 0

(* There is a solution between the n-th pair of neighbours along a.        *)
Found(a, n) ==
  \E x \in sol :
    /\ Between(x, Point(PairLow(a, n)), Point(PairHigh(a, n)), a)
    /\ monotone => AtEdge(x, a)

(* What the loops over the axes and the pairs have passed.                 *)
Swept ==
  \A a \in Continuous : \A n \in 0 .. Size(AxisSet) - 1 :
    (a < axis \/ (a = axis /\ phase = "pairs" /\ n < k)) /\ Differs(a, n) => Found(a, n)

(* The bisection keeps a point that meets the query and one that does not, *)
(* both between the neighbours it started from.                            *)
Bisected ==
  LET lo == Point(PairLow(axis, k))
      hi == Point(PairHigh(axis, k))
      other == [bis.f EXCEPT ![axis] = bis.b]
  IN
  /\ lo \in Points /\ hi \in Points
  /\ Feasible(bis.f) /\ Contains(evaluated, bis.f) /\ ~ Feasible(other)
  /\ Between(bis.f, lo, hi, axis) /\ Between(other, lo, hi, axis)

SweepInv ==
  /\ StartOK /\ BoundaryFound
  /\ phase \in {"axis", "pairs"} => Swept
  /\ phase = "pairs" /\ monotone => MonotoneAxis(axis)
  /\ bis.on => Bisected
  /\ ~ Solved => \A x \in sol : x \in Points /\ Feasible(x) /\ Contains(evaluated, x)
  /\ phase = "sense" /\ query.kind = "feasible" => cand \subseteq Points /\ evaluated \in Seq(Points)

-----------------------------------------------------------------------------
(* The axes and the nodes of the grid.                                     *)

(* Every axis of the grid has a node.                                      *)
LEMMA ShapeIs ==
  ASSUME query \in Queries, NEW a \in AxisSet
  PROVE  /\ Shape(a) \in Nat \ {0}
         /\ \A i \in 0 .. Shape(a) - 1 : GridValue(a, i) \in Int
PROOF
  <1>1. /\ query.per_axis \in Nat \ {0}
        /\ Axes[a] \in [choices : Seq(Int), lo : Int, hi : Int]
    <2>1. query.per_axis \in Nat \ {0}
      BY SolverAssumption
    <2>2. Axes \in Seq([choices : Seq(Int), lo : Int, hi : Int]) /\ a \in 1 .. Len(Axes)
      BY SolverAssumption, LenProperties DEF AxisSet
    <2>3. Axes[a] \in [choices : Seq(Int), lo : Int, hi : Int]
      BY <2>2, ElementOfSeq
    <2> QED
      BY <2>1, <2>3
  <1>2. Axes[a].choices \in Seq(Int) /\ Axes[a].lo \in Int /\ Axes[a].hi \in Int
    BY <1>1
  <1>3. CASE Discrete(a)
    <2>1. Len(Axes[a].choices) \in Nat \ {0} /\ Shape(a) = Len(Axes[a].choices)
      BY <1>2, <1>3, LenProperties, EmptySeq DEF Discrete, Shape
    <2>2. \A i \in 0 .. Shape(a) - 1 : Axes[a].choices[i + 1] \in Int
      BY <1>2, <2>1, ElementOfSeq
    <2> QED
      BY <1>3, <2>1, <2>2 DEF GridValue
  <1>4. CASE ~ Discrete(a)
    <2>1. Shape(a) \in Nat \ {0}
      <3>1. Shape(a) = 4 * query.per_axis \/ Shape(a) = query.per_axis
        BY <1>1, <1>4 DEF Shape
      <3> QED
        BY <1>1, <3>1
    <2>2. ASSUME NEW i \in 0 .. Shape(a) - 1
          PROVE  GridValue(a, i) \in Int
      <3>1. CASE Shape(a) = 1
        BY <1>2, <1>4, <3>1 DEF GridValue
      <3>2. CASE Shape(a) # 1
        <4>1. PICK m, d : m = Shape(a) - 1 /\ d = (Axes[a].hi - Axes[a].lo) * i
          OBVIOUS
        <4>2. m \in Nat \ {0} /\ d \in Int
          BY <1>2, <2>1, <3>2, <4>1
        <4>3. d \div m \in Int
          BY <4>2
        <4>4. GridValue(a, i) = Axes[a].lo + (d \div m)
          BY <1>4, <3>2, <4>1 DEF GridValue
        <4> QED
          BY <1>2, <4>3, <4>4
      <3> QED
        BY <3>1, <3>2
    <2> QED
      BY <2>1, <2>2
  <1> QED
    BY <1>3, <1>4

(* The axes are finitely many, and numbered.                               *)
LEMMA AxesAre ==
  /\ IsFiniteSet(AxisSet) /\ AxisSet = 1 .. Len(Axes) /\ Len(Axes) \in Nat
  /\ \A b \in AxisSet : b \in Nat
PROOF
  <1>1. AxisSet = 1 .. Len(Axes) /\ Len(Axes) \in Nat
    BY SolverAssumption, LenProperties DEF AxisSet
  <1> QED
    BY <1>1, FS_Interval

(* The number of the nodes on some axes.                                   *)
LEMMA SizeIs ==
  ASSUME query \in Queries, NEW S \in SUBSET AxisSet
  PROVE  Size(S) \in Nat \ {0}
PROOF
  <1> DEFINE w == [a \in AxisSet |-> Shape(a)]
  <1>1. \A x \in S : w[x] \in Nat \ {0}
    BY ShapeIs
  <1>2. IsFiniteSet(S)
    BY AxesAre, FS_Subset
  <1>3. ProductOver(w, S) \in Nat \ {0}
    <2> HIDE DEF w
    <2> QED
      BY <1>1, <1>2, ProductPositive
  <1>4. Size(S) = ProductOver(w, S)
    BY DEF Size, ProductOver
  <1> QED
    BY <1>3, <1>4

(* The n-th node of the grid.                                              *)
LEMMA IndexIs ==
  ASSUME query \in Queries, NEW n \in Nat
  PROVE  Index(n) \in Indices
PROOF
  <1>1. ASSUME NEW a \in AxisSet
        PROVE  (n \div Size({b \in AxisSet : b < a})) % Shape(a) \in 0 .. Shape(a) - 1
    <2>1. PICK s, m : s = Size({b \in AxisSet : b < a}) /\ m = Shape(a)
      OBVIOUS
    <2>2. s \in Nat \ {0} /\ m \in Nat \ {0}
      BY <2>1, SizeIs, ShapeIs
    <2>3. n \div s \in Int
      BY <2>2
    <2>4. (n \div s) % m \in 0 .. m - 1
      BY <2>2, <2>3
    <2> QED
      BY <2>1, <2>4
  <1>2. \A a \in AxisSet : Index(n)[a] \in 0 .. Shape(a) - 1
    BY <1>1 DEF Index
  <1>3. Index(n) \in [AxisSet -> Int]
    <2>1. \A a \in AxisSet : (n \div Size({b \in AxisSet : b < a})) % Shape(a) \in Int
      BY <1>1, ShapeIs
    <2> QED
      BY <2>1 DEF Index
  <1> QED
    BY <1>2, <1>3 DEF Indices

(* A node of the grid is a point.                                          *)
LEMMA PointIs ==
  ASSUME query \in Queries, NEW i \in Indices
  PROVE  Point(i) \in Points
PROOF
  BY ShapeIs DEF Indices, Point, Points

(* One step away from i, along one of the axes S.                          *)
Steps(i, S) == {[i EXCEPT ![a] = @ + d] : a \in S, d \in {-1, 1}}

(* These are finitely many.                                                *)
LEMMA StepsFinite ==
  ASSUME NEW i, NEW S, IsFiniteSet(S)
  PROVE  IsFiniteSet(Steps(i, S))
PROOF
  <1> DEFINE M == S \X {-1, 1}
             f == [m \in M |-> [i EXCEPT ![m[1]] = @ + m[2]]]
             All == {f[m] : m \in M}
  <1>1. Steps(i, S) \subseteq All
    <2> SUFFICES ASSUME NEW x \in Steps(i, S)
                 PROVE  x \in All
      OBVIOUS
    <2>1. PICK a \in S, d \in {-1, 1} : x = [i EXCEPT ![a] = @ + d]
      BY DEF Steps
    <2>2. <<a, d>> \in M /\ f[<<a, d>>] = x
      BY <2>1
    <2> QED
      BY <2>2
  <1>2. IsFiniteSet(M)
    <2>1. PICK u, v : u = -1 /\ v = 1
      OBVIOUS
    <2>2. IsFiniteSet({u} \cup {v}) /\ {-1, 1} = {u} \cup {v}
      BY <2>1, FS_Singleton, FS_Union
    <2> QED
      BY <2>2, FS_Product
  <1>3. IsFiniteSet(All)
    <2>1. f \in Surjection(M, All)
      <3>1. f \in [M -> All]
        <4> HIDE DEF M
        <4> QED
          OBVIOUS
      <3> HIDE DEF M, f
      <3> QED
        BY <3>1 DEF Surjection
    <2> HIDE DEF M, f
    <2> QED
      BY <1>2, <2>1, FS_Surjection
  <1> QED
    BY <1>1, <1>3, FS_Subset

(* The neighbours of a node are nodes, and finitely many.                  *)
LEMMA NeighboursAre ==
  ASSUME query \in Queries, NEW i \in Indices
  PROVE  Neighbours(i) \subseteq Indices /\ IsFiniteSet(Neighbours(i))
PROOF
  <1>1. Neighbours(i) \subseteq Steps(i, AxisSet)
    BY DEF Neighbours, Steps
  <1>2. IsFiniteSet(Steps(i, AxisSet))
    BY AxesAre, StepsFinite
  <1>3. ASSUME NEW nb \in Neighbours(i)
        PROVE  nb \in Indices
    <2>1. PICK a \in AxisSet, d \in {-1, 1} : nb = [i EXCEPT ![a] = @ + d]
      BY DEF Neighbours
    <2>2. i \in [AxisSet -> Int] /\ d \in Int
      BY DEF Indices
    <2>3. nb \in [AxisSet -> Int]
      BY <2>1, <2>2
    <2>4. \A b \in AxisSet : nb[b] \in 0 .. Shape(b) - 1
      BY DEF Neighbours
    <2> QED
      BY <2>3, <2>4 DEF Indices
  <1> QED
    BY <1>1, <1>2, <1>3, FS_Subset

-----------------------------------------------------------------------------
(* The order of the candidates.                                            *)

(* Of two different nodes one comes first.                                 *)
LEMMA BeforeTotal ==
  ASSUME NEW i \in [AxisSet -> Int], NEW j \in [AxisSet -> Int], i # j
  PROVE  Before(i, j) \/ Before(j, i)
PROOF
  <1> DEFINE D == {a \in AxisSet : i[a] # j[a]}
             a == Min(D)
  <1>1. D \in SUBSET Int /\ IsFiniteSet(D) /\ D # {}
    <2>1. D # {}
      OBVIOUS
    <2> QED
      BY <2>1, AxesAre, FS_Subset
  <1>2. a \in D /\ \A b \in D : a <= b
    <2> HIDE DEF D
    <2> QED
      BY <1>1, LeastGreatest
  <1>3. a \in AxisSet /\ i[a] # j[a] /\ i[a] \in Int /\ j[a] \in Int
    BY <1>2
  <1>4. \A b \in AxisSet : b < a => i[b] = j[b]
    BY <1>2, <1>3, AxesAre
  <1> HIDE DEF a
  <1>5. i[a] < j[a] \/ j[a] < i[a]
    BY <1>3
  <1> QED
    BY <1>3, <1>4, <1>5 DEF Before

(* What comes before what comes before.                                    *)
LEMMA BeforeTransitive ==
  ASSUME NEW i \in [AxisSet -> Int], NEW j \in [AxisSet -> Int], NEW l \in [AxisSet -> Int],
         Before(i, j), Before(j, l)
  PROVE  Before(i, l)
PROOF
  <1>1. PICK a \in AxisSet : i[a] < j[a] /\ \A b \in AxisSet : b < a => i[b] = j[b]
    BY DEF Before
  <1>2. PICK c \in AxisSet : j[c] < l[c] /\ \A b \in AxisSet : b < c => j[b] = l[b]
    BY DEF Before
  <1>3. a \in Nat /\ c \in Nat /\ \A b \in AxisSet : b \in Nat
    BY AxesAre
  <1>4. \A b \in AxisSet : i[b] \in Int /\ j[b] \in Int /\ l[b] \in Int
    OBVIOUS
  <1>5. CASE a < c
    <2>1. i[a] < l[a] /\ \A b \in AxisSet : b < a => i[b] = l[b]
      BY <1>1, <1>2, <1>3, <1>4, <1>5
    <2> QED
      BY <2>1 DEF Before
  <1>6. CASE c < a
    <2>1. i[c] < l[c] /\ \A b \in AxisSet : b < c => i[b] = l[b]
      BY <1>1, <1>2, <1>3, <1>4, <1>6
    <2> QED
      BY <2>1 DEF Before
  <1>7. CASE a = c
    <2>1. i[a] < l[a] /\ \A b \in AxisSet : b < a => i[b] = l[b]
      BY <1>1, <1>2, <1>3, <1>4, <1>7
    <2> QED
      BY <2>1 DEF Before
  <1> QED
    BY <1>3, <1>5, <1>6, <1>7

(* The first of the candidates is one of them.                             *)
LEMMA FirstIs ==
  ASSUME NEW S \in SUBSET [AxisSet -> Int], IsFiniteSet(S), S # {}
  PROVE  \E i \in S : \A j \in S \ {i} : Before(i, j)
PROOF
  <1> DEFINE Has(s) == \E i \in s : \A j \in s \ {i} : Before(i, j)
             K == {s \in FiniteSubsetsOf([AxisSet -> Int]) : s # {} /\ ~ Has(s)}
  <1>1. K = {}
    <2>1. SUFFICES ASSUME K # {} PROVE FALSE
      OBVIOUS
    <2>2. PICK s \in K : \A t \in K : t \subseteq s => t = s
      <3>1. K \subseteq FiniteSubsetsOf([AxisSet -> Int])
        OBVIOUS
      <3> HIDE DEF K
      <3> QED
        BY <2>1, <3>1, SmallestSet
    <2>3. PICK x \in s : TRUE
      OBVIOUS
    <2> DEFINE t == s \ {x}
    <2>4. s \in SUBSET [AxisSet -> Int] /\ IsFiniteSet(s) /\ ~ Has(s)
      BY DEF FiniteSubsetsOf
    <2>5. IsFiniteSet(t) /\ t \in SUBSET [AxisSet -> Int] /\ t # s /\ t \subseteq s
      BY <2>3, <2>4, FS_RemoveElement
    <2>6. t = {} \/ Has(t)
      <3>1. t \notin K
        BY <2>2, <2>5
      <3> QED
        BY <2>5, <3>1 DEF FiniteSubsetsOf
    <2>7. Has(s)
      <3>1. CASE t = {}
        <4>1. s = {x}
          BY <3>1
        <4> QED
          BY <4>1
      <3>2. CASE Has(t)
        <4>1. PICK m \in t : \A j \in t \ {m} : Before(m, j)
          BY <3>2
        <4>2. m # x /\ m \in [AxisSet -> Int] /\ x \in [AxisSet -> Int] /\ s = t \cup {x}
          BY <2>4, <2>5
        <4>3. CASE Before(m, x)
          <5>1. \A j \in s \ {m} : Before(m, j)
            BY <4>1, <4>2, <4>3
          <5> QED
            BY <4>2, <5>1
        <4>4. CASE Before(x, m)
          <5>1. \A j \in s \ {x} : j = m \/ j \in t \ {m}
            OBVIOUS
          <5>2. \A j \in t \ {m} : Before(x, j)
            BY <2>5, <4>1, <4>2, <4>4, BeforeTransitive
          <5>3. \A j \in s \ {x} : Before(x, j)
            BY <4>4, <5>1, <5>2
          <5> QED
            BY <4>2, <5>3
        <4> QED
          BY <4>2, <4>3, <4>4, BeforeTotal
      <3> QED
        BY <2>6, <3>1, <3>2
    <2> QED
      BY <2>4, <2>7
  <1>2. Has(S)
    BY <1>1 DEF FiniteSubsetsOf
  <1> QED
    BY <1>2

-----------------------------------------------------------------------------
(* The runs.                                                               *)

(* A point that is run is in the cache, with those that were before.       *)
LEMMA RunKept ==
  ASSUME NEW runs \in Seq(Points), NEW x \in Points
  PROVE  /\ WithRun(runs, x) \in Seq(Points)
         /\ Contains(WithRun(runs, x), x)
         /\ \A y : Contains(runs, y) => Contains(WithRun(runs, x), y)
PROOF
  <1>1. CASE Contains(runs, x)
    BY <1>1 DEF WithRun
  <1>2. CASE ~ Contains(runs, x)
    <2>1. WithRun(runs, x) = Append(runs, x)
      BY <1>2 DEF WithRun
    <2>2. /\ Append(runs, x) \in Seq(Points) /\ Len(Append(runs, x)) = Len(runs) + 1
          /\ Append(runs, x)[Len(runs) + 1] = x
          /\ \A i \in 1 .. Len(runs) : Append(runs, x)[i] = runs[i]
      BY AppendProperties
    <2>3. /\ Len(runs) \in Nat /\ DOMAIN runs = 1 .. Len(runs)
          /\ DOMAIN Append(runs, x) = 1 .. Len(runs) + 1
      BY <2>2, LenProperties
    <2>4. Len(runs) + 1 \in 1 .. Len(runs) + 1 /\ \A i \in 1 .. Len(runs) : i \in 1 .. Len(runs) + 1
      BY <2>3
    <2> QED
      BY <2>1, <2>2, <2>3, <2>4 DEF Contains
  <1> QED
    BY <1>1, <1>2

(* What stands for the grid and for the query stays as long as they do.    *)
LEMMA InputsStay ==
  ASSUME UNCHANGED inputs
  PROVE  /\ \A i : Point(i)' = Point(i)
         /\ \A x : (Within(x)' <=> Within(x)) /\ (Feasible(x)' <=> Feasible(x)) /\ Value(x)' = Value(x)
         /\ \A n : Index(n)' = Index(n)
         /\ Size(AxisSet)' = Size(AxisSet) /\ Indices' = Indices /\ Nodes' = Nodes
         /\ \A i : Neighbours(i)' = Neighbours(i)
         /\ \A a : Shape(a)' = Shape(a)
         /\ \A a, n : PairLow(a, n)' = PairLow(a, n) /\ PairHigh(a, n)' = PairHigh(a, n)
PROOF
  <1>1. query' = query /\ model' = model
    BY DEF inputs
  <1>2. \A a : Shape(a)' = Shape(a)
    BY <1>1 DEF Shape
  <1>3. \A a, i : GridValue(a, i)' = GridValue(a, i)
    BY <1>2 DEF GridValue
  <1>4. \A i : Point(i)' = Point(i)
    BY <1>3 DEF Point
  <1>5. \A x : Within(x)' <=> Within(x)
    BY <1>1 DEF Within
  <1>6. \A x : Feasible(x)' <=> Feasible(x)
    BY <1>1, <1>5 DEF Feasible
  <1>7. \A x : Value(x)' = Value(x)
    BY <1>1 DEF Value
  <1>8. \A S : Size(S)' = Size(S)
    <2> SUFFICES ASSUME NEW S
                 PROVE  Size(S)' = Size(S)
      OBVIOUS
    <2>1. Size(S) = ProductOver([a \in AxisSet |-> Shape(a)], S)
      BY DEF Size, ProductOver
    <2>2. (Size(S) = ProductOver([a \in AxisSet |-> Shape(a)], S))'
      BY DEF Size, ProductOver
    <2>3. [a \in AxisSet |-> Shape(a)'] = [a \in AxisSet |-> Shape(a)]
      BY <1>2
    <2> QED
      BY <2>1, <2>2, <2>3
  <1>9. \A n : Index(n)' = Index(n)
    BY <1>2, <1>8 DEF Index
  <1>10. Indices' = Indices
    BY <1>2 DEF Indices
  <1>11. Nodes' = Nodes
    BY <1>8, <1>9 DEF Nodes
  <1>12. \A i : Neighbours(i)' = Neighbours(i)
    BY <1>2 DEF Neighbours
  <1>13. \A a, n : PairLow(a, n)' = PairLow(a, n)
    BY <1>2, <1>8 DEF PairLow
  <1>14. \A a, n : PairHigh(a, n)' = PairHigh(a, n)
    BY <1>13 DEF PairHigh
  <1> QED
    BY <1>2, <1>4, <1>5, <1>6, <1>7, <1>8, <1>9, <1>10, <1>11, <1>12, <1>13, <1>14

(* NoneBetter says nothing before there are solutions, and rests on them   *)
(* from then on.                                                           *)
LEMMA NoneBetterStays ==
  ASSUME NoneBetter, UNCHANGED inputs, ~ Solved' \/ (Solved /\ UNCHANGED solutions)
  PROVE  NoneBetter'
PROOF
  <1>1. CASE ~ Solved'
    BY <1>1 DEF NoneBetter
  <1>2. CASE Solved /\ UNCHANGED solutions
    <2>1. query' = query /\ {Point(i) : i \in Nodes}' = {Point(i) : i \in Nodes}
      BY InputsStay DEF inputs
    <2>2. {x \in {Point(i) : i \in Nodes} : Feasible(x)}' = {x \in {Point(i) : i \in Nodes} : Feasible(x)}
      BY <2>1, InputsStay
    <2> QED
      BY <1>2, <2>1, <2>2, InputsStay DEF NoneBetter, Dominates
  <1> QED
    BY <1>1, <1>2

(* A sequence of points has finitely many.                                 *)
LEMMA PoolIs ==
  ASSUME evaluated \in Seq(Points)
  PROVE  /\ IsFiniteSet(Pool) /\ Pool \subseteq Points
         /\ \A x : x \in Pool <=> Contains(evaluated, x) /\ Feasible(x)
PROOF
  <1>1. DOMAIN evaluated = 1 .. Len(evaluated) /\ Len(evaluated) \in Nat
        /\ evaluated \in [1 .. Len(evaluated) -> Points]
    BY LenProperties
  <1>2. ToSet(evaluated) = {evaluated[i] : i \in DOMAIN evaluated}
    BY DEF ToSet
  <1>3. IsFiniteSet(ToSet(evaluated))
    <2>1. IsFiniteSet(DOMAIN evaluated)
      BY <1>1, FS_Interval
    <2>2. evaluated \in Surjection(DOMAIN evaluated, ToSet(evaluated))
      BY <1>1, <1>2 DEF Surjection
    <2> QED
      BY <2>1, <2>2, FS_Surjection
  <1>4. \A x : x \in ToSet(evaluated) <=> Contains(evaluated, x)
    BY <1>2 DEF Contains
  <1> QED
    BY <1>1, <1>2, <1>3, <1>4, FS_Subset DEF Pool

-----------------------------------------------------------------------------
(* The choice of the solutions.                                            *)

(* The objectives of a point.                                              *)
LEMMA ValueIs ==
  ASSUME Measured, PhaseOK, NEW x \in Points
  PROVE  DOMAIN Value(x) = DOMAIN query.objectives /\ \A i \in DOMAIN query.objectives : Value(x)[i] \in Int
PROOF
  BY DEF Value, Measured, PhaseOK

(* Optimum: none that was run and meets the query is better.               *)
LEMMA OptimumIs ==
  ASSUME Measured, PhaseOK, query.kind = "optimum", phase # "refused", evaluated \in Seq(Points),
         NEW x \in Pool
  PROVE  \E s \in Optimum : Value(s)[1] <= Value(x)[1]
PROOF
  <1> DEFINE f == [y \in Pool |-> Value(y)[1]]
             V == {f[y] : y \in Pool}
             best == {i \in DOMAIN evaluated :
                        /\ evaluated[i] \in Pool
                        /\ \A y \in Pool : Value(evaluated[i])[1] <= Value(y)[1]}
  <1>1. IsFiniteSet(Pool) /\ Pool \subseteq Points /\ \A y \in Pool : Contains(evaluated, y)
    BY PoolIs
  <1>2. 1 \in DOMAIN query.objectives
    <2>1. query.objectives \in Seq(STRING) /\ Len(query.objectives) = 1
      BY SolverAssumption DEF PhaseOK, Accepted
    <2> QED
      BY <2>1, LenProperties
  <1>3. \A y \in Pool : f[y] \in Int
    BY <1>1, <1>2, ValueIs
  <1>4. V \in SUBSET Int /\ V # {}
    <2> HIDE DEF f
    <2> QED
      BY <1>3
  <1>5. IsFiniteSet(V)
    <2>1. f \in Surjection(Pool, V)
      BY DEF Surjection
    <2> HIDE DEF f
    <2> QED
      BY <1>1, <2>1, FS_Surjection
  <1>6. PICK y \in Pool : \A z \in Pool : Value(y)[1] <= Value(z)[1]
    <2>1. Min(V) \in V /\ \A v \in V : Min(V) <= v
      <3> HIDE DEF V
      <3> QED
        BY <1>4, <1>5, LeastGreatest
    <2>2. PICK y \in Pool : f[y] = Min(V)
      <3> HIDE DEF f
      <3> QED
        BY <2>1
    <2>3. \A z \in Pool : f[y] <= f[z]
      <3> HIDE DEF f
      <3> QED
        BY <2>1, <2>2
    <2> QED
      BY <2>3
  <1>7. PICK i \in DOMAIN evaluated : evaluated[i] = y
    BY <1>1, <1>6 DEF Contains
  <1>8. i \in best
    BY <1>6, <1>7
  <1>9. DOMAIN evaluated = 1 .. Len(evaluated) /\ Len(evaluated) \in Nat
    BY LenProperties
  <1>10. best \in SUBSET Int /\ IsFiniteSet(best)
    <2>1. best \subseteq DOMAIN evaluated
      OBVIOUS
    <2>2. IsFiniteSet(DOMAIN evaluated)
      BY <1>9, FS_Interval
    <2> HIDE DEF best
    <2> QED
      BY <1>9, <2>1, <2>2, FS_Subset
  <1>11. Min(best) \in best
    <2> HIDE DEF best
    <2> QED
      BY <1>8, <1>10, LeastGreatest
  <1>12. Optimum = {evaluated[Min(best)]}
    <2>1. best # {}
      BY <1>8
    <2> QED
      BY <2>1 DEF Optimum
  <1>13. Value(evaluated[Min(best)])[1] <= Value(x)[1]
    BY <1>11
  <1> HIDE DEF best
  <1> QED
    BY <1>12, <1>13

(* To dominate is a strict order.                                          *)
LEMMA DominatesIs ==
  ASSUME Measured, PhaseOK, NEW x \in Points, NEW y \in Points, NEW z \in Points
  PROVE  /\ ~ Dominates(Value(x), Value(x))
         /\ Dominates(Value(x), Value(y)) /\ Dominates(Value(y), Value(z)) => Dominates(Value(x), Value(z))
         /\ Dominates(Value(x), Value(y)) => \A i \in DOMAIN query.objectives : Value(x)[i] <= Value(y)[i]
PROOF
  <1>1. /\ DOMAIN Value(x) = DOMAIN query.objectives /\ \A i \in DOMAIN query.objectives : Value(x)[i] \in Int
        /\ DOMAIN Value(y) = DOMAIN query.objectives /\ \A i \in DOMAIN query.objectives : Value(y)[i] \in Int
        /\ DOMAIN Value(z) = DOMAIN query.objectives /\ \A i \in DOMAIN query.objectives : Value(z)[i] \in Int
    BY ValueIs
  <1>2. PICK u, v, w : u = Value(x) /\ v = Value(y) /\ w = Value(z)
    OBVIOUS
  <1>3. Dominates(u, v) /\ Dominates(v, w) => Dominates(u, w)
    <2> SUFFICES ASSUME Dominates(u, v), Dominates(v, w)
                 PROVE  Dominates(u, w)
      OBVIOUS
    <2>1. /\ \A i \in DOMAIN query.objectives : u[i] <= v[i] /\ v[i] <= w[i]
          /\ u # v
      BY <1>1, <1>2 DEF Dominates
    <2>2. \A i \in DOMAIN query.objectives : u[i] <= w[i]
      BY <1>1, <1>2, <2>1
    <2>3. u # w
      <3> SUFFICES ASSUME u = w PROVE FALSE
        OBVIOUS
      <3>1. \A i \in DOMAIN query.objectives : u[i] = v[i]
        BY <1>1, <1>2, <2>1
      <3>2. u = [i \in DOMAIN query.objectives |-> u[i]] /\ v = [i \in DOMAIN query.objectives |-> v[i]]
        BY <1>2 DEF Value
      <3> QED
        BY <2>1, <3>1, <3>2
    <2> QED
      BY <1>1, <1>2, <2>2, <2>3 DEF Dominates
  <1> QED
    BY <1>1, <1>2, <1>3 DEF Dominates

(* Pareto: whatever was run and meets the query, a point of the front is   *)
(* at least as good.                                                       *)
LEMMA FrontIs ==
  ASSUME Measured, PhaseOK, evaluated \in Seq(Points), NEW x \in Pool
  PROVE  \E s \in ParetoFront : \A i \in DOMAIN query.objectives : Value(s)[i] <= Value(x)[i]
PROOF
  <1> DEFINE Over(y) == {z \in Pool : Dominates(Value(z), Value(y))}
             K == {Over(y) : y \in {z \in Pool : z = x \/ Dominates(Value(z), Value(x))}}
  <1>1. IsFiniteSet(Pool) /\ Pool \subseteq Points
    BY PoolIs
  <1>2. K \subseteq FiniteSubsetsOf(Pool) /\ K # {}
    <2>1. \A y : Over(y) \in FiniteSubsetsOf(Pool)
      BY <1>1, FS_Subset DEF FiniteSubsetsOf
    <2>2. Over(x) \in K
      OBVIOUS
    <2> QED
      BY <2>1, <2>2
  <1>3. PICK m \in K : \A t \in K : t \subseteq m => t = m
    <2> HIDE DEF K
    <2> QED
      BY <1>2, SmallestSet
  <1>4. PICK y \in Pool : m = Over(y) /\ (y = x \/ Dominates(Value(y), Value(x)))
    OBVIOUS
  <1>5. ASSUME NEW z \in Pool, Dominates(Value(z), Value(y))
        PROVE  FALSE
    <2>1. Dominates(Value(z), Value(x))
      BY <1>1, <1>4, <1>5, DominatesIs
    <2>2. Over(z) \in K
      BY <2>1
    <2>3. \A u \in Over(z) : u \in Over(y)
      BY <1>1, <1>5, DominatesIs
    <2>4. Over(z) = Over(y)
      BY <1>3, <1>4, <2>2, <2>3
    <2>5. z \in Over(z)
      BY <1>5, <2>4
    <2> QED
      BY <1>1, <2>5, DominatesIs
  <1>6. y \in ParetoFront
    BY <1>5 DEF ParetoFront
  <1>7. \A i \in DOMAIN query.objectives : Value(y)[i] <= Value(x)[i]
    <2>1. CASE y = x
      BY <1>1, <2>1, ValueIs
    <2>2. CASE Dominates(Value(y), Value(x))
      BY <1>1, <2>2, DominatesIs
    <2> QED
      BY <1>4, <2>1, <2>2
  <1> QED
    BY <1>6, <1>7

-----------------------------------------------------------------------------
(* Every node is counted.                                                  *)

(* The digits of a node on some axes are counted.                          *)
LEMMA Counted ==
  ASSUME query \in Queries, NEW i \in Indices, NEW S \in SUBSET AxisSet
  PROVE  \E n \in 0 .. Size(S) - 1 :
           \A b \in S : (n \div Size({c \in S : c < b})) % Shape(b) = i[b]
PROOF
  <1> DEFINE w == [a \in AxisSet |-> Shape(a)]
  <1>1. S \in SUBSET Nat /\ IsFiniteSet(S)
    BY AxesAre, FS_Subset
  <1>2. /\ \A x \in S : w[x] = Shape(x)
        /\ \A x \in S : w[x] \in Nat \ {0}
        /\ \A x \in S : i[x] \in 0 .. w[x] - 1
    BY ShapeIs DEF Indices
  <1>3. \A T : Size(T) = ProductOver(w, T)
    BY DEF Size, ProductOver
  <1> HIDE DEF w
  <1>4. PICK n \in 0 .. ProductOver(w, S) - 1 :
          \A b \in S : (n \div ProductOver(w, {c \in S : c < b})) % w[b] = i[b]
    BY <1>1, <1>2, AllCounted
  <1>5. \A b \in S : (n \div Size({c \in S : c < b})) % Shape(b) = i[b]
    BY <1>2, <1>3, <1>4
  <1> QED
    BY <1>3, <1>4, <1>5

(* Search::next comes to every node of the grid.                           *)
LEMMA NodesAre ==
  ASSUME query \in Queries
  PROVE  /\ Nodes = Indices
         /\ \A i \in Indices : \E n \in 0 .. Size(AxisSet) - 1 : Index(n) = i
PROOF
  <1>1. ASSUME NEW i \in Indices
        PROVE  \E n \in 0 .. Size(AxisSet) - 1 : Index(n) = i
    <2>1. PICK n \in 0 .. Size(AxisSet) - 1 :
            \A b \in AxisSet : (n \div Size({c \in AxisSet : c < b})) % Shape(b) = i[b]
      BY Counted
    <2>2. Index(n) = [b \in AxisSet |-> i[b]]
      BY <2>1 DEF Index
    <2>3. i = [b \in AxisSet |-> i[b]]
      BY DEF Indices
    <2> QED
      BY <2>2, <2>3
  <1>2. \A n \in 0 .. Size(AxisSet) - 1 : Index(n) \in Indices
    <2>1. Size(AxisSet) \in Nat
      BY SizeIs
    <2> QED
      BY <2>1, IndexIs
  <1> QED
    BY <1>1, <1>2 DEF Nodes

(* adjacent_pairs comes to every node, on every axis.                      *)
LEMMA PairCounted ==
  ASSUME query \in Queries, NEW a \in AxisSet, NEW i \in Indices
  PROVE  \E n \in 0 .. Size(AxisSet) - 1 : PairLow(a, n) = i
PROOF
  <1>1. PICK line \in 0 .. Size(Others(a)) - 1 :
          \A b \in Others(a) : (line \div Size({c \in Others(a) : c < b})) % Shape(b) = i[b]
    <2>1. Others(a) \in SUBSET AxisSet
      BY DEF Others
    <2> QED
      BY <2>1, Counted
  <1>2. PICK q, s, r, n : /\ q = Shape(a) /\ s = Size(Others(a)) /\ r = i[a]
                          /\ n = q * line + r
    OBVIOUS
  <1>3. q \in Nat \ {0} /\ s \in Nat \ {0} /\ r \in 0 .. q - 1 /\ line \in 0 .. s - 1
    <2>1. Others(a) \in SUBSET AxisSet
      BY DEF Others
    <2> QED
      BY <1>1, <1>2, <2>1, ShapeIs, SizeIs DEF Indices
  <1>4. Size(AxisSet) = s * q
    <2> DEFINE w == [b \in AxisSet |-> Shape(b)]
    <2>1. \A T : Size(T) = ProductOver(w, T)
      BY DEF Size, ProductOver
    <2>2. IsFiniteSet(AxisSet) /\ \A b \in AxisSet : w[b] \in Nat \ {0}
      BY AxesAre, ShapeIs
    <2>3. w[a] = q
      BY <1>2
    <2>4. AxisSet \ {a} = Others(a)
      BY DEF Others
    <2> HIDE DEF w
    <2>5. ProductOver(w, AxisSet) = ProductOver(w, AxisSet \ {a}) * w[a]
      BY <2>2, ProductTakeOut
    <2> QED
      BY <1>2, <2>1, <2>3, <2>4, <2>5
  <1>5. n \in 0 .. s * q - 1
    <2>1. PICK u, z : u = q * line /\ z = s * q
      OBVIOUS
    <2>2. u <= q * (s - 1)
      BY <1>3, <2>1
    <2>3. q * (s - 1) = z - q
      BY <1>3, <2>1
    <2>4. u \in Nat /\ z \in Nat /\ q \in Nat /\ r \in Nat /\ r < q
      BY <1>3, <2>1
    <2>5. n = u + r /\ u <= z - q
      BY <1>2, <2>1, <2>2, <2>3
    <2>6. n \in 0 .. z - 1
      BY <2>4, <2>5
    <2> QED
      BY <2>1, <2>6
  <1>6. n \div q = line /\ n % q = r
    <2>1. line \in Nat
      BY <1>3
    <2>2. (q * line + r) \div q = line /\ (q * line + r) % q = r
      BY <1>3, <2>1, DivUnique
    <2> QED
      BY <1>2, <2>2
  <1>7. PairLow(a, n) = [b \in AxisSet |-> i[b]]
    <2>1. \A b \in AxisSet : b # a => b \in Others(a)
      BY DEF Others
    <2>2. PairLow(a, n) =
            [b \in AxisSet |-> IF b = a THEN r ELSE (line \div Size({c \in Others(a) : c < b})) % Shape(b)]
      BY <1>2, <1>6 DEF PairLow
    <2> QED
      BY <1>1, <1>2, <2>1, <2>2
  <1>8. i = [b \in AxisSet |-> i[b]]
    BY DEF Indices
  <1> QED
    BY <1>4, <1>5, <1>7, <1>8

(* The points of two neighbours differ in one coordinate.                  *)
LEMMA NeighbourPoints ==
  ASSUME query \in Queries, NEW a \in AxisSet, NEW l \in Indices, NEW h \in Indices,
         \A b \in Others(a) : h[b] = l[b]
  PROVE  /\ Point(l) \in Points /\ Point(h) \in Points
         /\ Point(h) = [Point(l) EXCEPT ![a] = GridValue(a, h[a])]
         /\ Point(l) = [Point(h) EXCEPT ![a] = GridValue(a, l[a])]
         /\ \A b \in Others(a) : Point(h)[b] = Point(l)[b]
         /\ Point(h)[a] = GridValue(a, h[a]) /\ Point(l)[a] = GridValue(a, l[a])
PROOF
  <1>1. Point(l) \in Points /\ Point(h) \in Points
    BY PointIs
  <1>2. \A b \in AxisSet : b # a => h[b] = l[b]
    BY DEF Others
  <1>3. \A b \in AxisSet : b # a => Point(h)[b] = Point(l)[b]
    BY <1>2 DEF Point
  <1>4. Point(h)[a] = GridValue(a, h[a]) /\ Point(l)[a] = GridValue(a, l[a])
    BY DEF Point
  <1>5. Point(h) = [Point(l) EXCEPT ![a] = GridValue(a, h[a])]
    BY <1>1, <1>3, <1>4 DEF Points
  <1>6. Point(l) = [Point(h) EXCEPT ![a] = GridValue(a, l[a])]
    BY <1>1, <1>3, <1>4 DEF Points
  <1> QED
    BY <1>1, <1>3, <1>4, <1>5, <1>6 DEF Others

(* What is recorded of a node tells whether it meets the query.            *)
LEMMA NodeTells ==
  ASSUME GridOK, NEW i \in DOMAIN node
  PROVE  /\ i \in Indices
         /\ Feasible(node[i]) <=> Feasible(Point(i))
         /\ Feasible(Point(i)) => node[i] = Point(i) /\ Contains(evaluated, Point(i))
PROOF
  <1>1. /\ i \in Indices
        /\ \/ node[i] = Out /\ ~ Within(Point(i))
           \/ node[i] = Point(i) /\ Contains(evaluated, Point(i))
    BY DEF GridOK
  <1>2. ~ Feasible(Out)
    BY DEF Feasible
  <1>3. ~ Within(Point(i)) => ~ Feasible(Point(i))
    BY DEF Feasible
  <1> QED
    BY <1>1, <1>2, <1>3

-----------------------------------------------------------------------------
(* The steps and the grid.                                                 *)

(* Once the grid is run, more runs change nothing about it.                *)
LEMMA GridStays ==
  ASSUME GridOK, Covered, UNCHANGED <<query, model, node>>,
         phase \in {"axis", "pairs"}, phase' \in {"axis", "pairs"},
         evaluated' \in Seq(Points), \A y : Contains(evaluated, y) => Contains(evaluated', y)
  PROVE  GridOK' /\ Covered'
PROOF
  <1>1. UNCHANGED inputs
    BY DEF inputs
  <1>2. GridOK'
    BY <1>1, InputsStay DEF GridOK
  <1>3. Waiting' = Waiting
    BY DEF Waiting
  <1>4. \A n : Reached(Index(n))' <=> Reached(Index(n))
    BY <1>1, <1>3, InputsStay DEF Reached
  <1>5. Covered'
    BY <1>1, <1>4, InputsStay DEF Covered
  <1> QED
    BY <1>2, <1>5

(* While the grid is run, what is recorded or waits stays so.              *)
LEMMA ReachedStays ==
  ASSUME UNCHANGED inputs, query' = query, DOMAIN node \cup Waiting \subseteq DOMAIN node' \cup Waiting',
         DOMAIN node \subseteq DOMAIN node', NEW n, Reached(Index(n))
  PROVE  Reached(Index(n))'
PROOF
  <1>1. PICK i : i = Index(n)
    OBVIOUS
  <1>2. Index(n)' = i
    BY <1>1, InputsStay
  <1>3. /\ Point(i)' = Point(i) /\ Neighbours(i)' = Neighbours(i)
        /\ \A x : Feasible(x)' <=> Feasible(x)
    BY InputsStay
  <1> QED
    BY <1>1, <1>2, <1>3 DEF Reached

(* evaluate_grid: a node is ruled out, run, or left to the screen, which   *)
(* drops none that meets the targets.                                      *)
LEMMA VisitSafe ==
  ASSUME Optimistic, GridInv, VisitNode
  PROVE  GridInv'
PROOF
  <1> DEFINE idx == Index(k)
             x == Point(idx)
  <1>1. /\ PhaseOK /\ GridOK /\ Covered /\ phase = "grid"
    BY DEF GridInv, VisitNode, Searching
  <1>2. /\ query \in Queries /\ model \in Models /\ k \in Nat /\ evaluated \in Seq(Points)
        /\ cand \subseteq Indices /\ IsFiniteSet(cand)
    BY <1>1 DEF PhaseOK, GridOK
  <1>3. idx \in Indices /\ x \in Points
    BY <1>2, IndexIs, PointIs
  <1>4. /\ UNCHANGED inputs /\ query' = query /\ model' = model
        /\ UNCHANGED <<axis, bis, result>> /\ UNCHANGED solutions
    BY DEF VisitNode, inputs, result
  <1>5. /\ k' \in Nat /\ phase' \in {"grid", "candidates"}
        /\ \A n \in 0 .. Size(AxisSet) - 1 : (phase' = "grid" => n < k') => n < k \/ n = k
    <2>1. Size(AxisSet) \in Nat
      BY <1>2, SizeIs
    <2>2. \/ k' = k + 1 /\ phase' = phase
          \/ ~ k + 1 < Size(AxisSet) /\ k' = 0 /\ phase' = "candidates"
      BY DEF VisitNode, NextNode
    <2> QED
      BY <1>1, <1>2, <2>1, <2>2
  <1>6. PhaseOK'
    BY <1>1, <1>4, <1>5 DEF PhaseOK
  <1>8. /\ cand' \subseteq Indices /\ IsFiniteSet(cand') /\ cand \subseteq cand'
        /\ evaluated' \in Seq(Points) /\ \A y : Contains(evaluated, y) => Contains(evaluated', y)
        /\ (idx \in DOMAIN node' /\ (query.screen = {} \/ ~ Feasible(x)))
              \/ (query.screen # {} /\ (Feasible(x) => {idx} \cup Neighbours(idx) \subseteq cand'))
        /\ \/ UNCHANGED node
           \/ AddNode(idx, Out) /\ ~ Within(x)
           \/ AddNode(idx, x) /\ Contains(evaluated', x)
    <2>1. CASE ~ Within(x) /\ AddNode(idx, Out) /\ UNCHANGED <<cand, evaluated>>
      BY <1>2, <2>1 DEF AddNode, Feasible
    <2>2. CASE AddNode(idx, x) /\ evaluated' = WithRun(evaluated, x) /\ UNCHANGED cand /\ query.screen = {}
      BY <1>2, <1>3, <2>2, RunKept DEF AddNode
    <2>3. CASE /\ UNCHANGED <<node, evaluated>> /\ query.screen # {}
               /\ cand' = IF MeetsTargets(Estimate(x)) THEN cand \cup {idx} \cup Neighbours(idx) ELSE cand
      <3>1. Feasible(x) => MeetsTargets(Estimate(x))
        BY <1>2, <1>3 DEF Feasible, Estimate, Optimistic
      <3>2. Neighbours(idx) \subseteq Indices /\ IsFiniteSet(Neighbours(idx))
        BY <1>2, <1>3, NeighboursAre
      <3>3. IsFiniteSet(cand \cup {idx} \cup Neighbours(idx))
        BY <1>2, <3>2, FS_Singleton, FS_Union
      <3> HIDE DEF idx, x
      <3> QED
        BY <1>2, <1>3, <2>3, <3>1, <3>2, <3>3
    <2> QED
      BY <2>1, <2>2, <2>3 DEF VisitNode
  <1>9. \A i \in DOMAIN node' :
          /\ i \in Indices
          /\ \/ node'[i] = Out /\ ~ Within(Point(i))
             \/ node'[i] = Point(i) /\ Contains(evaluated', Point(i))
    <2>1. \A i \in DOMAIN node :
            /\ i \in Indices
            /\ \/ node[i] = Out /\ ~ Within(Point(i))
               \/ node[i] = Point(i) /\ Contains(evaluated', Point(i))
      BY <1>1, <1>8 DEF GridOK
    <2>2. CASE UNCHANGED node
      BY <2>1, <2>2
    <2>3. CASE AddNode(idx, Out) /\ ~ Within(x)
      <3>1. DOMAIN node' = DOMAIN node \cup {idx} /\ node'[idx] = Out
            /\ \A i \in DOMAIN node : i # idx => node'[i] = node[i]
        <4> HIDE DEF idx
        <4> QED
          BY <2>3 DEF AddNode
      <3> QED
        BY <1>3, <2>1, <2>3, <3>1
    <2>4. CASE AddNode(idx, x) /\ Contains(evaluated', x)
      <3>1. DOMAIN node' = DOMAIN node \cup {idx} /\ node'[idx] = x
            /\ \A i \in DOMAIN node : i # idx => node'[i] = node[i]
        <4> HIDE DEF idx, x
        <4> QED
          BY <2>4 DEF AddNode
      <3> QED
        BY <1>3, <2>1, <2>4, <3>1
    <2> QED
      BY <1>8, <2>2, <2>3, <2>4
  <1>10. GridOK'
    <2>1. cand' \subseteq Indices'
      BY <1>4, <1>8, InputsStay
    <2>2. \A i \in DOMAIN node' :
            /\ i \in Indices'
            /\ \/ node'[i] = Out /\ ~ Within(Point(i))'
               \/ node'[i] = Point(i)' /\ Contains(evaluated', Point(i)')
      BY <1>4, <1>9, InputsStay
    <2> QED
      BY <1>8, <2>1, <2>2 DEF GridOK
  <1>11. Covered'
    <2>1. /\ DOMAIN node \subseteq DOMAIN node' /\ Waiting = cand /\ Waiting' = cand'
      BY <1>1, <1>5, <1>8 DEF Waiting, AddNode
    <2> SUFFICES ASSUME NEW n \in 0 .. Size(AxisSet) - 1, phase' = "grid" => n < k'
                 PROVE  Reached(Index(n))'
      BY <1>4, InputsStay DEF Covered
    <2>2. CASE n < k
      <3>1. Reached(Index(n))
        BY <1>1, <2>2 DEF Covered
      <3> QED
        BY <1>4, <1>8, <2>1, <3>1, ReachedStays
    <2>3. CASE n = k
      <3>1. PICK i : i = Index(n)
        OBVIOUS
      <3>2. /\ Index(n)' = i /\ Point(i)' = Point(i) /\ Neighbours(i)' = Neighbours(i)
            /\ \A y : Feasible(y)' <=> Feasible(y)
        BY <1>4, <3>1, InputsStay
      <3>3. (i \in DOMAIN node' /\ (query.screen = {} \/ ~ Feasible(Point(i))))
            \/ (query.screen # {} /\ (Feasible(Point(i)) => {i} \cup Neighbours(i) \subseteq cand'))
        BY <1>8, <2>3, <3>1
      <3> QED
        BY <1>4, <2>1, <3>2, <3>3 DEF Reached
    <2> QED
      BY <1>5, <2>2, <2>3
  <1> QED
    BY <1>6, <1>10, <1>11 DEF GridInv

(* evaluate_grid: a candidate is run, unless its node has been.            *)
LEMMA CandidateSafe ==
  ASSUME GridInv, RunCandidate
  PROVE  GridInv'
PROOF
  <1>1. /\ PhaseOK /\ GridOK /\ Covered /\ phase = "candidates" /\ cand # {}
    BY DEF GridInv, RunCandidate, Searching
  <1>2. /\ query \in Queries /\ evaluated \in Seq(Points)
        /\ cand \subseteq Indices /\ IsFiniteSet(cand)
    BY <1>1 DEF PhaseOK, GridOK
  <1>3. PICK c : c = CHOOSE i \in cand : \A j \in cand \ {i} : Before(i, j)
    OBVIOUS
  <1>4. c \in cand
    <2>1. cand \in SUBSET [AxisSet -> Int]
      BY <1>2 DEF Indices
    <2>2. \E i \in cand : \A j \in cand \ {i} : Before(i, j)
      BY <1>1, <1>2, <2>1, FirstIs
    <2> QED
      BY <1>3, <2>2
  <1>5. /\ UNCHANGED inputs /\ query' = query /\ model' = model
        /\ UNCHANGED <<phase, axis, k, bis, result>> /\ UNCHANGED solutions
        /\ cand' = cand \ {c}
        /\ \/ c \in DOMAIN node /\ UNCHANGED <<node, evaluated>>
           \/ AddNode(c, Point(c)) /\ evaluated' = WithRun(evaluated, Point(c))
    BY <1>3 DEF RunCandidate, inputs, result
  <1>6. PhaseOK'
    BY <1>1, <1>5 DEF PhaseOK
  <1>7. c \in Indices /\ Point(c) \in Points
    BY <1>2, <1>4, PointIs
  <1>8. /\ cand' \subseteq Indices /\ IsFiniteSet(cand')
        /\ evaluated' \in Seq(Points) /\ \A y : Contains(evaluated, y) => Contains(evaluated', y)
        /\ c \in DOMAIN node' /\ DOMAIN node \subseteq DOMAIN node'
    <2>1. IsFiniteSet(cand')
      BY <1>2, <1>5, FS_Subset
    <2>2. CASE c \in DOMAIN node /\ UNCHANGED <<node, evaluated>>
      BY <1>2, <1>5, <2>1, <2>2
    <2>3. CASE AddNode(c, Point(c)) /\ evaluated' = WithRun(evaluated, Point(c))
      BY <1>2, <1>5, <1>7, <2>1, <2>3, RunKept DEF AddNode
    <2> QED
      BY <1>5, <2>2, <2>3
  <1>9. \A i \in DOMAIN node' :
          /\ i \in Indices
          /\ \/ node'[i] = Out /\ ~ Within(Point(i))
             \/ node'[i] = Point(i) /\ Contains(evaluated', Point(i))
    <2>1. \A i \in DOMAIN node :
            /\ i \in Indices
            /\ \/ node[i] = Out /\ ~ Within(Point(i))
               \/ node[i] = Point(i) /\ Contains(evaluated', Point(i))
      BY <1>1, <1>8 DEF GridOK
    <2>2. CASE UNCHANGED node
      BY <2>1, <2>2
    <2>3. CASE AddNode(c, Point(c)) /\ evaluated' = WithRun(evaluated, Point(c))
      <3>1. DOMAIN node' = DOMAIN node \cup {c} /\ node'[c] = Point(c)
            /\ \A i \in DOMAIN node : i # c => node'[i] = node[i]
        BY <2>3 DEF AddNode
      <3>2. Contains(evaluated', Point(c))
        BY <1>2, <1>7, <2>3, RunKept
      <3> QED
        BY <1>7, <2>1, <3>1, <3>2
    <2> QED
      BY <1>5, <2>2, <2>3
  <1>10. GridOK'
    <2>1. cand' \subseteq Indices'
      BY <1>5, <1>8, InputsStay
    <2>2. \A i \in DOMAIN node' :
            /\ i \in Indices'
            /\ \/ node'[i] = Out /\ ~ Within(Point(i))'
               \/ node'[i] = Point(i)' /\ Contains(evaluated', Point(i)')
      BY <1>5, <1>9, InputsStay
    <2> QED
      BY <1>8, <2>1, <2>2 DEF GridOK
  <1>11. Covered'
    <2>1. Waiting = cand /\ Waiting' = cand'
      BY <1>1, <1>5 DEF Waiting
    <2>2. DOMAIN node \cup Waiting \subseteq DOMAIN node' \cup Waiting'
      BY <1>5, <1>8, <2>1
    <2>3. \A n \in 0 .. Size(AxisSet) - 1 : Reached(Index(n))'
      BY <1>1, <1>5, <1>8, <2>2, ReachedStays DEF Covered
    <2> QED
      BY <1>5, <2>3, InputsStay DEF Covered
  <1> QED
    BY <1>6, <1>10, <1>11 DEF GridInv

(* The ends of a pair of neighbours that differ.                           *)
LEMMA PairIs ==
  ASSUME GridInv, phase = "pairs", NEW a \in AxisSet, NEW n, Differs(a, n)
  PROVE  LET l == PairLow(a, n)
             h == PairHigh(a, n)
         IN /\ l \in Indices /\ h \in Indices /\ h = [l EXCEPT ![a] = @ + 1]
            /\ Feasible(node[l]) <=> Feasible(Point(l))
            /\ Feasible(node[h]) <=> Feasible(Point(h))
            /\ Feasible(Point(l)) <=> ~ Feasible(Point(h))
            /\ Feasible(Point(l)) => node[l] = Point(l) /\ Contains(evaluated, Point(l))
            /\ Feasible(Point(h)) => node[h] = Point(h) /\ Contains(evaluated, Point(h))
PROOF
  <1>1. GridOK
    BY DEF GridInv, Searching
  <1>2. PICK l, h : l = PairLow(a, n) /\ h = PairHigh(a, n)
    OBVIOUS
  <1>3. l \in DOMAIN node /\ h \in DOMAIN node /\ h = [l EXCEPT ![a] = @ + 1]
    BY <1>2 DEF Differs, IsPair, PairHigh
  <1>4. /\ l \in Indices /\ h \in Indices
        /\ Feasible(node[l]) <=> Feasible(Point(l))
        /\ Feasible(node[h]) <=> Feasible(Point(h))
        /\ Feasible(Point(l)) => node[l] = Point(l) /\ Contains(evaluated, Point(l))
        /\ Feasible(Point(h)) => node[h] = Point(h) /\ Contains(evaluated, Point(h))
    BY <1>1, <1>3, NodeTells
  <1>5. Feasible(node[l]) <=> ~ Feasible(node[h])
    <2>1. Feasible(node[l]) # Feasible(node[h])
      BY <1>2 DEF Differs
    <2>2. Feasible(node[l]) \in BOOLEAN /\ Feasible(node[h]) \in BOOLEAN
      BY DEF Feasible
    <2> QED
      BY <2>1, <2>2
  <1> QED
    BY <1>2, <1>3, <1>4, <1>5

(* A bisection is under way on an axis only.                               *)
LEMMA BisectionIs ==
  ASSUME PhaseOK
  PROVE  /\ bis.on => bis \in [on : {TRUE}, f : Points, b : Int] /\ phase = "pairs"
         /\ ~ bis.on => bis = NoBisection
PROOF
  <1>1. CASE bis = NoBisection
    <2>1. bis.on = FALSE
      BY <1>1 DEF NoBisection
    <2> QED
      BY <1>1, <2>1
  <1>2. CASE bis \in [on : {TRUE}, f : Points, b : Int] /\ phase = "pairs"
    <2>1. bis.on = TRUE
      BY <1>2
    <2> QED
      BY <1>2, <2>1
  <1> QED
    BY <1>1, <1>2 DEF PhaseOK

(* sweep_axes, bisect: no step takes back a run.                           *)
LEMMA SweepSafe ==
  ASSUME GridInv, GridDone \/ SweepAxis \/ SkipPair \/ TakeNode \/ BisectStart \/ Bisect \/ BisectEnd
  PROVE  GridInv'
PROOF
  <1>1. /\ PhaseOK /\ GridOK /\ Covered
        /\ phase \in {"candidates", "axis", "pairs"}
    <2>1. PhaseOK
      BY DEF GridInv
    <2>2. ASSUME bis.on
          PROVE  phase = "pairs"
      BY <2>1, <2>2, BisectionIs
    <2>3. ASSUME Bisect \/ BisectEnd
          PROVE  phase \in {"candidates", "axis", "pairs"}
      BY <2>2, <2>3 DEF Bisect, BisectEnd
    <2>4. ASSUME GridDone \/ SweepAxis \/ SkipPair \/ TakeNode \/ BisectStart
          PROVE  phase \in {"candidates", "axis", "pairs"}
      BY <2>4 DEF GridDone, SweepAxis, SkipPair, TakeNode, BisectStart
    <2>5. phase \in {"candidates", "axis", "pairs"}
      BY <2>3, <2>4
    <2> QED
      BY <2>1, <2>5 DEF GridInv, Searching
  <1>2. /\ query \in Queries /\ evaluated \in Seq(Points) /\ k \in Nat /\ axis \in Nat \ {0}
        /\ phase = "pairs" => axis \in Continuous
    BY <1>1 DEF PhaseOK, GridOK
  <1>3. /\ UNCHANGED inputs /\ query' = query /\ model' = model /\ UNCHANGED <<node, solutions>>
        /\ phase' \in {"axis", "pairs"}
    <2>1. CASE GridDone
      BY <2>1 DEF GridDone, inputs, result, grid
    <2>2. CASE SweepAxis
      BY <2>2 DEF SweepAxis, inputs, result, grid
    <2>3. CASE SkipPair
      BY <1>2, <2>3 DEF SkipPair, inputs, result, grid, NextPair
    <2>4. CASE TakeNode
      BY <1>2, <2>4 DEF TakeNode, inputs, result, grid, NextPair
    <2>5. CASE BisectStart
      BY <2>5 DEF BisectStart, inputs, result, grid
    <2>6. CASE Bisect
      BY <1>1, <2>6, BisectionIs DEF Bisect, inputs, result, grid
    <2>7. CASE BisectEnd
      BY <1>1, <2>7, BisectionIs DEF BisectEnd, inputs, result, grid, NextPair
    <2> QED
      BY <2>1, <2>2, <2>3, <2>4, <2>5, <2>6, <2>7
  <1>5. CASE GridDone
    <2>1. phase = "candidates" /\ cand = {} /\ phase' = "axis" /\ UNCHANGED <<axis, k, cand, evaluated, bis>>
      BY <1>5 DEF GridDone, grid
    <2>2. PhaseOK'
      BY <1>1, <1>3, <2>1 DEF PhaseOK
    <2>3. GridOK'
      BY <1>1, <1>3, <2>1, InputsStay DEF GridOK
    <2>4. Waiting' = Waiting
      BY <2>1 DEF Waiting
    <2>5. DOMAIN node \cup Waiting = DOMAIN node' \cup Waiting'
      BY <1>3, <2>4
    <2>6. Covered'
      BY <1>1, <1>3, <2>1, <2>5, InputsStay, ReachedStays DEF Covered
    <2> QED
      BY <2>2, <2>3, <2>6 DEF GridInv
  <1>6. CASE ~ GridDone
    <2>1. phase \in {"axis", "pairs"}
      <3>1. CASE Bisect \/ BisectEnd
        BY <1>1, <3>1, BisectionIs DEF Bisect, BisectEnd
      <3>2. CASE SweepAxis \/ SkipPair \/ TakeNode \/ BisectStart
        BY <3>2 DEF SweepAxis, SkipPair, TakeNode, BisectStart
      <3> QED
        BY <1>6, <3>1, <3>2
    <2>2. ASSUME UNCHANGED evaluated
          PROVE  GridOK' /\ Covered'
      BY <1>1, <1>2, <1>3, <2>1, <2>2, GridStays
    <2>3. CASE SweepAxis
      <3>1. /\ phase = "axis" /\ UNCHANGED <<k, evaluated, bis>>
            /\ \/ axis' = axis + 1 /\ phase' = "axis"
               \/ phase' = "pairs" /\ axis' = axis /\ axis \in Continuous
        BY <1>2, <2>3, AxesAre DEF SweepAxis, Continuous
      <3>2. PhaseOK'
        BY <1>1, <1>2, <1>3, <3>1 DEF PhaseOK
      <3> QED
        BY <2>2, <3>1, <3>2 DEF GridInv
    <2>4. CASE SkipPair \/ TakeNode \/ BisectEnd
      <3>1. /\ phase = "pairs" /\ UNCHANGED evaluated
            /\ bis' = NoBisection
            /\ \/ k' = k + 1 /\ UNCHANGED <<phase, axis>>
               \/ k' = 0 /\ phase' = "axis" /\ axis' = axis + 1
        <4>1. CASE SkipPair
          BY <1>1, <4>1, BisectionIs DEF SkipPair, NextPair
        <4>2. CASE TakeNode
          BY <1>1, <4>2, BisectionIs DEF TakeNode, NextPair
        <4>3. CASE BisectEnd
          BY <1>1, <4>3, BisectionIs DEF BisectEnd, NextPair
        <4> QED
          BY <2>4, <4>1, <4>2, <4>3
      <3>2. PhaseOK'
        BY <1>1, <1>2, <1>3, <3>1 DEF PhaseOK
      <3> QED
        BY <2>2, <3>1, <3>2 DEF GridInv
    <2>5. CASE BisectStart
      <3>1. /\ phase = "pairs" /\ UNCHANGED <<phase, axis, k, evaluated>> /\ Differs(axis, k)
        BY <2>5 DEF BisectStart
      <3>2. bis' \in [on : {TRUE}, f : Points, b : Int]
        <4>1. axis \in AxisSet
          BY <1>2, <3>1 DEF Continuous
        <4>2. PICK l, h : l = PairLow(axis, k) /\ h = PairHigh(axis, k)
          OBVIOUS
        <4>3. /\ l \in Indices /\ h \in Indices
              /\ Feasible(node[l]) => node[l] \in Points
              /\ ~ Feasible(node[l]) => node[h] \in Points
          BY <1>2, <3>1, <4>1, <4>2, PairIs, PointIs
        <4>4. GridValue(axis, l[axis]) \in Int /\ GridValue(axis, h[axis]) \in Int
          BY <1>2, <4>1, <4>3, ShapeIs DEF Indices
        <4> QED
          BY <2>5, <4>2, <4>3, <4>4 DEF BisectStart
      <3>3. PhaseOK'
        BY <1>1, <1>2, <1>3, <3>1, <3>2 DEF PhaseOK
      <3> QED
        BY <2>2, <3>1, <3>3 DEF GridInv
    <2>6. CASE Bisect
      <3>1. /\ bis \in [on : {TRUE}, f : Points, b : Int] /\ phase = "pairs" /\ axis \in AxisSet
        <4>1. bis.on
          BY <2>6 DEF Bisect
        <4> QED
          BY <1>1, <1>2, <4>1, BisectionIs DEF Continuous
      <3>2. PICK m : m = (bis.f[axis] + bis.b) \div 2
        OBVIOUS
      <3>3. PICK x : x = [bis.f EXCEPT ![axis] = m]
        OBVIOUS
      <3>4. bis.f \in Points /\ bis.b \in Int /\ m \in Int /\ x \in Points
        BY <3>1, <3>2, <3>3 DEF Points
      <3>5. /\ evaluated' = IF Within(x) THEN WithRun(evaluated, x) ELSE evaluated
            /\ bis' = IF Feasible(x) THEN [bis EXCEPT !.f = x] ELSE [bis EXCEPT !.b = m]
            /\ UNCHANGED <<phase, axis, k>>
        BY <2>6, <3>2, <3>3 DEF Bisect, Halved
      <3>6. bis' \in [on : {TRUE}, f : Points, b : Int]
        BY <3>1, <3>4, <3>5
      <3>7. PhaseOK'
        BY <1>1, <1>3, <3>1, <3>5, <3>6 DEF PhaseOK
      <3>8. GridOK' /\ Covered'
        <4>1. evaluated' \in Seq(Points) /\ \A y : Contains(evaluated, y) => Contains(evaluated', y)
          BY <1>2, <3>4, <3>5, RunKept
        <4> QED
          BY <1>1, <1>3, <2>1, <4>1, GridStays
      <3> QED
        BY <3>7, <3>8 DEF GridInv
    <2> QED
      BY <1>6, <2>3, <2>4, <2>5, <2>6
  <1> QED
    BY <1>5, <1>6

(* The choice and the runs around it come after the grid.                  *)
LEMMA EndSafe ==
  ASSUME GridInv, Select \/ Sense \/ Finish
  PROVE  GridInv'
PROOF
  <1>1. /\ UNCHANGED inputs /\ query' = query /\ model' = model /\ UNCHANGED <<axis, k, bis>>
        /\ phase \in {"axis", "sense"} /\ phase' \in {"sense", "done"}
    BY DEF Select, Sense, Finish, inputs
  <1>2. PhaseOK'
    BY <1>1 DEF GridInv, PhaseOK
  <1> QED
    BY <1>1, <1>2 DEF GridInv, Searching

(* An exception of the screen leaves nothing to be claimed.                *)
LEMMA ThrowSafe ==
  ASSUME GridInv, ScreenThrows
  PROVE  GridInv'
PROOF
  <1>1. /\ query' = query /\ model' = model /\ UNCHANGED <<axis, k, bis>>
        /\ phase = "grid" /\ phase' = "failed"
    BY DEF ScreenThrows, inputs
  <1>2. PhaseOK'
    BY <1>1 DEF GridInv, PhaseOK
  <1> QED
    BY <1>1, <1>2 DEF GridInv, Searching

(* Every step keeps the invariant of the grid.                             *)
LEMMA GridStep ==
  ASSUME Optimistic, GridInv, [SolverNext]_solvervars
  PROVE  GridInv'
PROOF
  <1>1. CASE UNCHANGED solvervars
    <2>1. /\ UNCHANGED inputs /\ query' = query /\ model' = model
          /\ UNCHANGED <<phase, axis, k, cand, node, evaluated, bis>>
      BY <1>1 DEF solvervars, inputs, grid
    <2>2. PhaseOK'
      BY <2>1 DEF GridInv, PhaseOK
    <2>3. Waiting' = Waiting
      BY <2>1 DEF Waiting
    <2>4. DOMAIN node \cup Waiting = DOMAIN node' \cup Waiting'
      BY <2>1, <2>3
    <2>5. Searching => GridOK'
      BY <2>1, InputsStay DEF GridInv, GridOK
    <2>6. Searching => Covered'
      BY <2>1, <2>4, InputsStay, ReachedStays DEF GridInv, Covered
    <2> QED
      BY <2>1, <2>2, <2>5, <2>6 DEF GridInv, Searching
  <1> QED
    BY <1>1, VisitSafe, ThrowSafe, CandidateSafe, SweepSafe, EndSafe DEF SolverNext

(* The screen and the sweep lose no node that meets the query.             *)
THEOREM GridInvariant ==
  ASSUME Optimistic
  PROVE  SolverSpec => []GridInv
PROOF
  <1>1. SolverInit => GridInv
    <2> SUFFICES ASSUME SolverInit
                 PROVE  GridInv
      OBVIOUS
    <2>1. /\ query \in Queries /\ model \in Models /\ axis = 1 /\ k = 0
          /\ phase = (IF Accepted(query) THEN "grid" ELSE "refused")
          /\ cand = {} /\ node = <<>> /\ evaluated = <<>> /\ bis = NoBisection
      BY DEF SolverInit
    <2>2. evaluated \in Seq(Points) /\ DOMAIN node = {}
      BY <2>1, EmptySeq
    <2>3. PhaseOK
      BY <2>1 DEF PhaseOK
    <2>4. GridOK
      BY <2>1, <2>2, FS_EmptySet DEF GridOK
    <2>5. phase = "grid" => Covered
      BY <2>1, SizeIs DEF Covered
    <2> QED
      BY <2>1, <2>3, <2>4, <2>5 DEF GridInv, Searching
  <1> QED
    BY <1>1, GridStep, PTL DEF SolverSpec

-----------------------------------------------------------------------------
(* The steps and NoneBetter.                                               *)

(* solve: all of the grid is run or known not to meet the query.           *)
LEMMA SelectBest ==
  ASSUME Measured, GridInv, Select
  PROVE  NoneBetter'
PROOF
  <1>1. /\ PhaseOK /\ GridOK /\ Covered /\ phase = "axis"
    BY DEF GridInv, Select, Searching
  <1>2. /\ UNCHANGED inputs /\ query' = query /\ model' = model /\ UNCHANGED <<k, axis, bis>> /\ phase' = "sense"
        /\ query.kind = "optimum" => solutions' = Optimum
        /\ query.kind = "pareto" => solutions' = ParetoFront
    BY DEF Select, inputs
  <1>4. evaluated \in Seq(Points)
    BY <1>1 DEF GridOK
  <1>5. ASSUME NEW x \in {Point(i) : i \in Nodes}, Feasible(x)
        PROVE  x \in Pool
    <2>1. PICK n \in 0 .. Size(AxisSet) - 1 : x = Point(Index(n))
      BY DEF Nodes
    <2>2. Index(n) \in DOMAIN node
      <3>1. Reached(Index(n)) /\ Waiting = {}
        BY <1>1, <2>1 DEF Covered, Waiting
      <3> QED
        BY <1>5, <2>1, <3>1 DEF Reached
    <2>3. Contains(evaluated, x)
      BY <1>1, <1>5, <2>1, <2>2, NodeTells
    <2> QED
      BY <1>4, <1>5, <2>3, PoolIs
  <1>6. query.kind = "optimum" =>
          \A x \in {Point(i) : i \in Nodes} : Feasible(x) => \E s \in solutions' : Value(s)[1] <= Value(x)[1]
    BY <1>1, <1>2, <1>4, <1>5, OptimumIs
  <1>7. query.kind = "pareto" =>
          \A x \in {Point(i) : i \in Nodes} : Feasible(x) =>
            \E s \in solutions' : \A i \in DOMAIN query.objectives : Value(s)[i] <= Value(x)[i]
    BY <1>1, <1>2, <1>4, <1>5, FrontIs
  <1>8. query.kind = "pareto" => \A s, t \in solutions' : ~ Dominates(Value(s), Value(t))
    BY <1>2 DEF ParetoFront
  <1>9. {Point(i) : i \in Nodes}' = {Point(i) : i \in Nodes}
    BY <1>2, InputsStay
  <1>10. {x \in {Point(i) : i \in Nodes} : Feasible(x)}' = {x \in {Point(i) : i \in Nodes} : Feasible(x)}
    BY <1>2, <1>9, InputsStay
  <1> QED
    BY <1>2, <1>6, <1>7, <1>8, <1>10, InputsStay DEF NoneBetter, Dominates

(* Every step keeps NoneBetter.                                            *)
LEMMA NoneBetterStep ==
  ASSUME Measured, GridInv, NoneBetter, [SolverNext]_solvervars
  PROVE  NoneBetter'
PROOF
  <1>1. UNCHANGED inputs
    BY DEF SolverNext, VisitNode, ScreenThrows, RunCandidate, GridDone, SweepAxis, SkipPair, TakeNode, BisectStart,
           Bisect, BisectEnd, Select, Sense, Finish, solvervars
  <1>2. CASE Select
    BY <1>2, SelectBest
  <1>3. CASE Sense \/ Finish \/ UNCHANGED solvervars
    <2>1. UNCHANGED solutions /\ (Solved' => Solved)
      BY <1>3 DEF Sense, Finish, solvervars, result, Solved
    <2> QED
      BY <1>1, <2>1, NoneBetterStays
  <1>4. CASE \/ VisitNode \/ ScreenThrows \/ RunCandidate \/ GridDone \/ SweepAxis
             \/ SkipPair \/ TakeNode \/ BisectStart \/ Bisect \/ BisectEnd
    <2>1. bis.on => phase = "pairs"
      BY BisectionIs DEF GridInv
    <2>2. ~ Solved'
      BY <1>4, <2>1 DEF VisitNode, ScreenThrows, RunCandidate, GridDone, SweepAxis, SkipPair,
             TakeNode, BisectStart, Bisect, BisectEnd, NextNode, NextPair, Solved
    <2> QED
      BY <1>1, <2>2, NoneBetterStays
  <1> QED
    BY <1>2, <1>3, <1>4 DEF SolverNext

(* No node of the grid that meets the query is better than what Optimum or *)
(* Pareto returns, whether it was run or screened out, and no solution is  *)
(* worse than another one (NoneBetter): for any variables, grid,           *)
(* constraint and forward function whose objectives are numbers, and any   *)
(* screen that is optimistic.                                              *)
THEOREM NoneBetterTheorem ==
  ASSUME Measured, Optimistic
  PROVE  SolverSpec => []NoneBetter
PROOF
  <1>1. SolverInit => NoneBetter
    BY DEF SolverInit, NoneBetter, Solved
  <1> QED
    BY <1>1, GridInvariant, NoneBetterStep, PTL DEF SolverSpec

-----------------------------------------------------------------------------
(* The steps and BoundaryFound.                                            *)

(* More runs, and solutions, undo no boundary that was found.              *)
LEMMA FoundStays ==
  ASSUME UNCHANGED inputs, UNCHANGED node, monotone' => monotone, sol \subseteq sol'
  PROVE  \A a, n : /\ Found(a, n) => Found(a, n)'
                   /\ Differs(a, n)' <=> Differs(a, n)
PROOF
  <1>1. \A x, a : AtEdge(x, a)' <=> AtEdge(x, a)
    BY InputsStay DEF AtEdge
  <1>2. ASSUME NEW a, NEW n, Found(a, n)
        PROVE  Found(a, n)'
    <2>1. PICK x \in sol : /\ Between(x, Point(PairLow(a, n)), Point(PairHigh(a, n)), a)
                           /\ monotone => AtEdge(x, a)
      BY <1>2 DEF Found
    <2>2. PICK l, h : l = PairLow(a, n) /\ h = PairHigh(a, n)
      OBVIOUS
    <2>3. PairLow(a, n)' = l /\ PairHigh(a, n)' = h /\ Point(l)' = Point(l) /\ Point(h)' = Point(h)
      BY <2>2, InputsStay
    <2>4. Between(x, Point(l)', Point(h)', a)
      BY <2>1, <2>2, <2>3
    <2> QED
      BY <1>1, <2>1, <2>3, <2>4 DEF Found
  <1>3. ASSUME NEW a, NEW n
        PROVE  Differs(a, n)' <=> Differs(a, n)
    <2>1. PICK l, h : l = PairLow(a, n) /\ h = PairHigh(a, n)
      OBVIOUS
    <2>2. PairLow(a, n)' = l /\ PairHigh(a, n)' = h
      BY <2>1, InputsStay
    <2>3. \A x : Feasible(x)' = Feasible(x)
      BY InputsStay DEF Feasible
    <2> QED
      BY <2>1, <2>2, <2>3 DEF Differs, IsPair
  <1> QED
    BY <1>2, <1>3

(* The metrics of the grid stay as they were.                              *)
LEMMA MonotoneStays ==
  ASSUME UNCHANGED inputs, UNCHANGED node
  PROVE  \A a : MonotoneAxis(a)' <=> MonotoneAxis(a)
PROOF
  <1>1. model' = model /\ \A a, n : PairLow(a, n)' = PairLow(a, n) /\ PairHigh(a, n)' = PairHigh(a, n)
    BY InputsStay DEF inputs
  <1>2. Size(AxisSet)' = Size(AxisSet)
    BY InputsStay
  <1>3. \A a, n : IsPair(a, n)' <=> IsPair(a, n)
    BY <1>1 DEF IsPair
  <1>4. \A a, t : (Rises(a, t)' <=> Rises(a, t)) /\ (Falls(a, t)' <=> Falls(a, t))
    BY <1>1, <1>2, <1>3 DEF Rises, Falls
  <1> QED
    BY <1>4 DEF MonotoneAxis

(* sweep_axes: a pair that differs is passed once it has its solution.     *)
LEMMA SweptOn ==
  ASSUME GridInv, Swept, phase = "pairs", NextPair,
         UNCHANGED inputs, UNCHANGED node, monotone' => monotone, sol \subseteq sol',
         NEW c, NEW m, c = axis, m = k, Differs(c, m) => Found(c, m)'
  PROVE  Swept' /\ (phase' = "axis" => k' = 0) /\ phase' \in {"axis", "pairs"}
PROOF
  <1>1. query \in Queries /\ k \in Nat /\ axis \in AxisSet /\ axis \in Nat
    BY AxesAre DEF GridInv, PhaseOK, Continuous
  <1>2. Size(AxisSet) \in Nat /\ \A a \in Continuous : a \in Nat
    BY <1>1, SizeIs, AxesAre DEF Continuous
  <1>3. \/ k' = k + 1 /\ phase' = "pairs" /\ axis' = axis
        \/ ~ k + 1 < Size(AxisSet) /\ k' = 0 /\ phase' = "axis" /\ axis' = axis + 1
    BY DEF NextPair
  <1>4. ASSUME NEW a \in Continuous, NEW n \in 0 .. Size(AxisSet) - 1,
               a < axis' \/ (a = axis' /\ phase' = "pairs" /\ n < k'), Differs(a, n)
        PROVE  Found(a, n)'
    <2>1. a < axis \/ (a = axis /\ n < k) \/ (a = axis /\ n = k)
      BY <1>1, <1>2, <1>3, <1>4
    <2>2. CASE a < axis \/ (a = axis /\ n < k)
      <3>1. Found(a, n)
        BY <1>4, <2>2 DEF Swept
      <3> QED
        BY <3>1, FoundStays
    <2>3. CASE a = axis /\ n = k
      BY <1>4, <2>3
    <2> QED
      BY <2>1, <2>2, <2>3
  <1>5. Size(AxisSet)' = Size(AxisSet) /\ \A a, n : Differs(a, n)' <=> Differs(a, n)
    BY InputsStay, FoundStays
  <1>6. Swept'
    BY <1>4, <1>5 DEF Swept
  <1> QED
    BY <1>3, <1>6

(* evaluate_grid finds no solution yet.                                    *)
LEMMA GridSweepSafe ==
  ASSUME GridInv, SweepInv, VisitNode \/ RunCandidate \/ GridDone
  PROVE  SweepInv'
PROOF
  <1>1. /\ phase \in {"grid", "candidates"} /\ axis = 1 /\ sol = {} /\ (phase = "candidates" => k = 0)
    BY DEF SweepInv, StartOK, VisitNode, RunCandidate, GridDone
  <1>2. ~ bis.on /\ UNCHANGED <<axis, bis, sol>>
    BY <1>1, BisectionIs DEF GridInv, VisitNode, RunCandidate, GridDone, result
  <1>3. /\ phase' \in {"grid", "candidates", "axis"}
        /\ phase' \in {"candidates", "axis"} => k' = 0
    BY <1>1 DEF VisitNode, RunCandidate, GridDone, NextNode
  <1>4. Swept'
    <2>1. \A a \in Continuous : ~ a < 1 /\ a \in Nat
      BY AxesAre DEF Continuous
    <2> QED
      BY <1>1, <1>2, <1>3, <2>1 DEF Swept
  <1>5. StartOK'
    BY <1>1, <1>2, <1>3 DEF StartOK
  <1>6. BoundaryFound'
    BY <1>3 DEF BoundaryFound, Solved
  <1> QED
    BY <1>1, <1>2, <1>3, <1>4, <1>5, <1>6 DEF SweepInv

(* An exception of the screen comes before there are any.                  *)
LEMMA ThrowSweep ==
  ASSUME GridInv, SweepInv, ScreenThrows
  PROVE  SweepInv'
PROOF
  <1>1. /\ phase = "grid" /\ sol = {} /\ phase' = "failed" /\ UNCHANGED <<bis, sol>>
    BY DEF SweepInv, StartOK, ScreenThrows, result
  <1>2. ~ bis.on
    BY <1>1, BisectionIs DEF GridInv
  <1>3. StartOK' /\ BoundaryFound'
    BY <1>1 DEF StartOK, BoundaryFound, Solved
  <1> QED
    BY <1>1, <1>2, <1>3 DEF SweepInv

(* What SweepInv says before there are solutions.                          *)
LEMMA SweepParts ==
  ASSUME phase' \in {"axis", "pairs"}, phase' = "axis" => k' = 0, Swept',
         phase' = "pairs" /\ monotone' => MonotoneAxis(axis)', bis'.on => Bisected',
         \A x \in sol' : x \in Points /\ Feasible(x)' /\ Contains(evaluated', x)
  PROVE  SweepInv'
PROOF
  <1>1. StartOK'
    BY DEF StartOK
  <1>2. BoundaryFound'
    BY DEF BoundaryFound, Solved
  <1> QED
    BY <1>1, <1>2 DEF SweepInv

(* sweep_axes: the next axis, or the next pair.                            *)
LEMMA AxisSafe ==
  ASSUME GridInv, SweepInv, SweepAxis
  PROVE  SweepInv'
PROOF
  <1>1. phase = "axis" /\ k = 0 /\ axis \in Nat \ {0} /\ Swept
    BY DEF SweepAxis, SweepInv, StartOK, GridInv, PhaseOK
  <1>2. /\ UNCHANGED inputs /\ UNCHANGED node /\ UNCHANGED <<k, evaluated, bis, sol>>
        /\ \/ Discrete(axis) /\ axis' = axis + 1 /\ phase' = "axis" /\ monotone' = monotone
           \/ phase' = "pairs" /\ axis' = axis /\ monotone' = (monotone /\ MonotoneAxis(axis))
    BY <1>1 DEF SweepAxis, grid
  <1>3. ~ bis.on
    BY <1>1, BisectionIs DEF GridInv
  <1>4. \A a, n : (Found(a, n) => Found(a, n)') /\ (Differs(a, n)' <=> Differs(a, n))
    <2>1. sol \subseteq sol'
      BY <1>2
    <2>2. monotone' => monotone
      BY <1>2
    <2> QED
      BY <1>2, <2>1, <2>2, FoundStays
  <1>5. ASSUME NEW a \in Continuous, NEW n \in 0 .. Size(AxisSet) - 1,
               a < axis' \/ (a = axis' /\ phase' = "pairs" /\ n < k'), Differs(a, n)
        PROVE  Found(a, n)'
    <2>1. a \in Nat /\ ~ Discrete(a)
      BY AxesAre DEF Continuous
    <2>2. ~ n < 0 /\ k' = 0
      BY <1>1, <1>2
    <2>3. a < axis
      BY <1>1, <1>2, <1>5, <2>1, <2>2
    <2>4. Found(a, n)
      BY <1>1, <1>5, <2>3 DEF Swept
    <2> QED
      BY <1>4, <2>4
  <1>6. Swept'
    <2>1. Size(AxisSet)' = Size(AxisSet)
      BY <1>2, InputsStay
    <2> QED
      BY <1>5, <1>4, <2>1 DEF Swept
  <1>7. phase' = "pairs" /\ monotone' => MonotoneAxis(axis)'
    BY <1>2, MonotoneStays
  <1>8. \A x \in sol' : x \in Points /\ Feasible(x)' /\ Contains(evaluated', x)
    BY <1>1, <1>2, InputsStay DEF SweepInv, Solved
  <1> QED
    BY <1>1, <1>2, <1>3, <1>6, <1>7, <1>8, SweepParts

(* A pair of which both ends meet the query, or none does, needs nothing.  *)
LEMMA SkipSafe ==
  ASSUME GridInv, SweepInv, SkipPair
  PROVE  SweepInv'
PROOF
  <1>1. /\ phase = "pairs" /\ ~ bis.on /\ ~ Differs(axis, k) /\ NextPair
        /\ UNCHANGED inputs /\ UNCHANGED node /\ UNCHANGED <<evaluated, bis, sol, monotone>>
    BY DEF SkipPair, grid, result
  <1>2. Swept /\ (monotone => MonotoneAxis(axis)) /\ \A x \in sol : x \in Points /\ Feasible(x) /\ Contains(evaluated, x)
    BY <1>1 DEF SweepInv, Solved
  <1>3. Swept' /\ (phase' = "axis" => k' = 0) /\ phase' \in {"axis", "pairs"}
    BY <1>1, <1>2, SweptOn
  <1>4. phase' = "pairs" => axis' = axis
    BY <1>1 DEF NextPair
  <1>5. phase' = "pairs" /\ monotone' => MonotoneAxis(axis)'
    BY <1>1, <1>2, <1>4, MonotoneStays
  <1> QED
    BY <1>1, <1>2, <1>3, <1>5, InputsStay, SweepParts

(* A solution for the pair of the loop.                                    *)
LEMMA SolutionSafe ==
  ASSUME GridInv, SweepInv, phase = "pairs", NextPair, UNCHANGED inputs, UNCHANGED <<node, evaluated, monotone>>,
         ~ bis'.on, NEW x \in Points, sol' = sol \cup {x}, Feasible(x), Contains(evaluated, x),
         Between(x, Point(PairLow(axis, k)), Point(PairHigh(axis, k)), axis),
         monotone => AtEdge(x, axis)
  PROVE  SweepInv'
PROOF
  <1>1. Swept /\ (monotone => MonotoneAxis(axis)) /\ \A y \in sol : y \in Points /\ Feasible(y) /\ Contains(evaluated, y)
    BY DEF SweepInv, Solved
  <1>2. PICK a, n, l, h : a = axis /\ n = k /\ l = PairLow(a, n) /\ h = PairHigh(a, n)
    OBVIOUS
  <1>3. Found(a, n)'
    <2>1. PairLow(a, n)' = l /\ PairHigh(a, n)' = h /\ Point(l)' = Point(l) /\ Point(h)' = Point(h)
      BY <1>2, InputsStay
    <2>2. AtEdge(x, a)' <=> AtEdge(x, a)
      BY InputsStay DEF AtEdge
    <2>3. Between(x, Point(l)', Point(h)', a) /\ x \in sol' /\ (monotone' => AtEdge(x, a)')
      BY <1>2, <2>1, <2>2
    <2> QED
      BY <2>1, <2>3 DEF Found
  <1>4. Swept' /\ (phase' = "axis" => k' = 0) /\ phase' \in {"axis", "pairs"}
    BY <1>1, <1>2, <1>3, SweptOn
  <1>5. phase' = "pairs" => axis' = axis
    BY DEF NextPair
  <1>6. phase' = "pairs" /\ monotone' => MonotoneAxis(axis)'
    BY <1>1, <1>5, MonotoneStays
  <1>7. \A y \in sol' : y \in Points /\ Feasible(y)' /\ Contains(evaluated', y)
    BY <1>1, InputsStay
  <1> QED
    BY <1>4, <1>6, <1>7, SweepParts

(* On an axis that is not monotone the end that meets the query is taken.  *)
LEMMA TakeSafe ==
  ASSUME GridInv, SweepInv, TakeNode
  PROVE  SweepInv'
PROOF
  <1>1. PICK a, n, l, h : a = axis /\ n = k /\ l = PairLow(a, n) /\ h = PairHigh(a, n)
    OBVIOUS
  <1>2. PICK x : x = IF Feasible(node[l]) THEN node[l] ELSE node[h]
    OBVIOUS
  <1>3. /\ phase = "pairs" /\ ~ bis.on /\ Differs(a, n) /\ ~ MonotoneAxis(axis) /\ NextPair
        /\ UNCHANGED inputs /\ UNCHANGED <<node, evaluated, monotone, bis>> /\ sol' = sol \cup {x}
    BY <1>1, <1>2 DEF TakeNode, grid
  <1>4. query \in Queries /\ a \in AxisSet
    BY <1>1, <1>3 DEF GridInv, PhaseOK, Continuous
  <1>5. /\ l \in Indices /\ h \in Indices /\ h = [l EXCEPT ![a] = @ + 1]
        /\ Feasible(x) /\ Contains(evaluated, x) /\ (x = Point(l) \/ x = Point(h))
    BY <1>1, <1>2, <1>3, <1>4, PairIs
  <1>6. x \in Points /\ Between(x, Point(l), Point(h), a)
    <2>1. /\ Point(l) \in Points /\ Point(h) \in Points
          /\ \A b \in Others(a) : Point(h)[b] = Point(l)[b]
      <3>1. query \in Queries /\ a \in AxisSet /\ l \in Indices /\ h \in Indices
        BY <1>4, <1>5
      <3>2. \A b \in Others(a) : h[b] = l[b]
        BY <1>5 DEF Indices, Others
      <3> QED
        BY <3>1, <3>2, NeighbourPoints
    <2>2. PICK u, v : u = Point(l)[a] /\ v = Point(h)[a]
      OBVIOUS
    <2>3. u \in Int /\ v \in Int
      BY <1>4, <2>1, <2>2 DEF Points
    <2>4. u \in (u .. v) \cup (v .. u) /\ v \in (u .. v) \cup (v .. u)
      BY <2>3
    <2> QED
      BY <1>5, <2>1, <2>2, <2>4 DEF Between
  <1>7. ~ monotone
    BY <1>3 DEF SweepInv
  <1> QED
    BY <1>1, <1>3, <1>5, <1>6, <1>7, SolutionSafe

(* What a bisection is on.                                                 *)
LEMMA BisectedIs ==
  ASSUME GridInv, SweepInv, bis.on
  PROVE  /\ bis \in [on : {TRUE}, f : Points, b : Int] /\ phase = "pairs" /\ axis \in AxisSet
         /\ bis.f \in Points /\ bis.b \in Int /\ bis.f[axis] \in Int
         /\ Bisected
PROOF
  <1>1. bis \in [on : {TRUE}, f : Points, b : Int] /\ phase = "pairs" /\ axis \in AxisSet
    BY BisectionIs DEF GridInv, PhaseOK, Continuous
  <1> QED
    BY <1>1 DEF SweepInv, Points

(* bisect starts from the ends of the pair.                                *)
LEMMA StartSafe ==
  ASSUME GridInv, SweepInv, BisectStart
  PROVE  SweepInv'
PROOF
  <1>1. PICK a, n, l, h : a = axis /\ n = k /\ l = PairLow(a, n) /\ h = PairHigh(a, n)
    OBVIOUS
  <1>2. PICK f, o : /\ f = IF Feasible(node[l]) THEN node[l] ELSE node[h]
                    /\ o = IF Feasible(node[l]) THEN h ELSE l
    OBVIOUS
  <1>3. /\ phase = "pairs" /\ ~ bis.on /\ Differs(a, n)
        /\ UNCHANGED inputs /\ UNCHANGED <<phase, axis, k, node, evaluated, sol, monotone>>
        /\ bis' = [on |-> TRUE, f |-> f, b |-> GridValue(a, o[a])]
    BY <1>1, <1>2 DEF BisectStart, grid, result
  <1>4. query \in Queries /\ a \in AxisSet /\ Swept
        /\ (monotone => MonotoneAxis(axis)) /\ \A x \in sol : x \in Points /\ Feasible(x) /\ Contains(evaluated, x)
    BY <1>1, <1>3 DEF GridInv, SweepInv, PhaseOK, Continuous, Solved, Searching
  <1>5. /\ l \in Indices /\ h \in Indices /\ h = [l EXCEPT ![a] = @ + 1]
        /\ Feasible(f) /\ Contains(evaluated, f) /\ ~ Feasible(Point(o))
        /\ (f = Point(l) /\ o = h) \/ (f = Point(h) /\ o = l)
    BY <1>1, <1>2, <1>3, <1>4, PairIs
  <1>6. /\ Point(l) \in Points /\ Point(h) \in Points
        /\ Point(h) = [Point(l) EXCEPT ![a] = GridValue(a, h[a])]
        /\ Point(l) = [Point(h) EXCEPT ![a] = GridValue(a, l[a])]
        /\ \A b \in Others(a) : Point(h)[b] = Point(l)[b]
    <2>1. query \in Queries /\ a \in AxisSet /\ l \in Indices /\ h \in Indices
      BY <1>4, <1>5
    <2>2. \A b \in Others(a) : h[b] = l[b]
      BY <1>5 DEF Indices, Others
    <2> QED
      BY <2>1, <2>2, NeighbourPoints
  <1>7. bis'.on /\ bis'.f = f /\ [bis'.f EXCEPT ![a] = bis'.b] = Point(o)
    BY <1>3, <1>5, <1>6
  <1>8. Between(f, Point(l), Point(h), a) /\ Between(Point(o), Point(l), Point(h), a)
    <2>1. PICK u, v : u = Point(l)[a] /\ v = Point(h)[a]
      OBVIOUS
    <2>2. u \in Int /\ v \in Int
      BY <1>4, <1>6, <2>1 DEF Points
    <2>3. u \in (u .. v) \cup (v .. u) /\ v \in (u .. v) \cup (v .. u)
      BY <2>2
    <2> QED
      BY <1>5, <1>6, <2>1, <2>3 DEF Between
  <1>9. Bisected'
    <2>1. /\ axis' = a /\ k' = n /\ PairLow(a, n)' = l /\ PairHigh(a, n)' = h
          /\ Point(l)' = Point(l) /\ Point(h)' = Point(h) /\ \A x : Feasible(x)' <=> Feasible(x)
      BY <1>1, <1>3, InputsStay
    <2>2. PairLow(axis, k)' = l /\ PairHigh(axis, k)' = h
      BY <2>1 DEF PairLow, PairHigh
    <2>3. Point(PairLow(axis, k))' = Point(l) /\ Point(PairHigh(axis, k))' = Point(h)
      BY <2>1, <2>2 DEF Point
    <2>4. PICK g, e : g = bis'.f /\ e = bis'.b
      OBVIOUS
    <2>5. g = f /\ [g EXCEPT ![a] = e] = Point(o)
      BY <1>7, <2>4
    <2>6. Feasible(g) /\ Contains(evaluated', g) /\ ~ Feasible([g EXCEPT ![a] = e])
      BY <1>3, <1>5, <2>5
    <2>7. Between(g, Point(l), Point(h), a) /\ Between([g EXCEPT ![a] = e], Point(l), Point(h), a)
      BY <1>8, <2>5
    <2> QED
      BY <1>6, <2>1, <2>3, <2>4, <2>6, <2>7 DEF Bisected
  <1>10. Swept'
    <2>1. \A c, m : Found(c, m) => Found(c, m)' /\ (Differs(c, m)' <=> Differs(c, m))
      BY <1>3, FoundStays
    <2> QED
      BY <1>3, <1>4, FoundStays, InputsStay DEF Swept
  <1>11. MonotoneAxis(axis)' <=> MonotoneAxis(axis)
    BY <1>3, MonotoneStays
  <1> QED
    BY <1>3, <1>4, <1>9, <1>10, <1>11, InputsStay, SweepParts

(* bisect: the middle replaces the end of its kind.                        *)
LEMMA BisectSafe ==
  ASSUME GridInv, SweepInv, Bisect
  PROVE  SweepInv'
PROOF
  <1>1. PICK a, n, f, b, m, x, l, h :
          /\ a = axis /\ n = k /\ f = bis.f /\ b = bis.b
          /\ m = (f[a] + b) \div 2 /\ x = [f EXCEPT ![a] = m]
          /\ l = Point(PairLow(a, n)) /\ h = Point(PairHigh(a, n))
    OBVIOUS
  <1>2. bis.on /\ Abs(f[a] - b) > 1
    BY <1>1 DEF Bisect
  <1>3. /\ bis \in [on : {TRUE}, f : Points, b : Int] /\ phase = "pairs" /\ a \in AxisSet
        /\ f \in Points /\ b \in Int /\ f[a] \in Int
        /\ Feasible(f) /\ Contains(evaluated, f) /\ ~ Feasible([f EXCEPT ![a] = b])
        /\ Between(f, l, h, a) /\ Between([f EXCEPT ![a] = b], l, h, a)
        /\ l \in Points /\ h \in Points
    BY <1>1, <1>2, BisectedIs DEF Bisected
  <1>4. /\ UNCHANGED inputs /\ UNCHANGED <<phase, axis, k, node, sol, monotone>>
        /\ evaluated' = IF Within(x) THEN WithRun(evaluated, x) ELSE evaluated
        /\ bis' = IF Feasible(x) THEN [bis EXCEPT !.f = x] ELSE [bis EXCEPT !.b = m]
    BY <1>1 DEF Bisect, Halved, grid, result
  <1>5. /\ Swept /\ (monotone => MonotoneAxis(axis)) /\ evaluated \in Seq(Points)
        /\ \A y \in sol : y \in Points /\ Feasible(y) /\ Contains(evaluated, y)
    BY <1>3 DEF GridInv, GridOK, SweepInv, Solved, Searching
  <1>6. m \in Int /\ x \in Points /\ x[a] = m /\ \A c \in AxisSet : c # a => x[c] = f[c]
    <2>1. m \in Int
      BY <1>1, <1>3
    <2> QED
      BY <1>1, <1>3, <2>1 DEF Points
  <1>7. [x EXCEPT ![a] = b] = [f EXCEPT ![a] = b]
    BY <1>1, <1>3, <1>6 DEF Points
  <1>8. Between(x, l, h, a)
    <2>1. PICK u, v, w : u = f[a] /\ v = l[a] /\ w = h[a]
      OBVIOUS
    <2>2. [f EXCEPT ![a] = b][a] = b
      BY <1>3 DEF Points
    <2>3. u \in (v .. w) \cup (w .. v) /\ b \in (v .. w) \cup (w .. v)
      BY <1>3, <2>1, <2>2 DEF Between
    <2>4. u \in Int /\ b \in Int /\ v \in Int /\ w \in Int
      BY <1>3, <2>1 DEF Points
    <2>5. (u <= m /\ m <= b) \/ (b <= m /\ m <= u)
      BY <1>1, <2>1, <2>4
    <2>6. m \in (v .. w) \cup (w .. v)
      BY <1>6, <2>3, <2>4, <2>5
    <2>7. \A c \in Others(a) : x[c] = l[c]
      BY <1>3, <1>6 DEF Between, Others
    <2> QED
      BY <1>6, <2>1, <2>6, <2>7 DEF Between
  <1>9. evaluated' \in Seq(Points) /\ \A y : Contains(evaluated, y) => Contains(evaluated', y)
    BY <1>4, <1>5, <1>6, RunKept
  <1>10. Feasible(x) => Contains(evaluated', x)
    BY <1>4, <1>5, <1>6, RunKept DEF Feasible
  <1>11. PICK g, e : g = bis'.f /\ e = bis'.b
    OBVIOUS
  <1>12. /\ Feasible(g) /\ Contains(evaluated', g) /\ ~ Feasible([g EXCEPT ![a] = e])
         /\ Between(g, l, h, a) /\ Between([g EXCEPT ![a] = e], l, h, a)
    <2>1. CASE Feasible(x)
      <3>1. g = x /\ e = b
        BY <1>1, <1>3, <1>4, <1>11, <2>1
      <3> QED
        BY <1>3, <1>7, <1>8, <1>10, <2>1, <3>1
    <2>2. CASE ~ Feasible(x)
      <3>1. g = f /\ e = m
        BY <1>1, <1>3, <1>4, <1>11, <2>2
      <3> QED
        BY <1>1, <1>3, <1>8, <1>9, <2>2, <3>1
    <2> QED
      BY <2>1, <2>2
  <1>13. Bisected'
    <2>1. PICK i, j : i = PairLow(a, n) /\ j = PairHigh(a, n)
      OBVIOUS
    <2>2. /\ axis' = a /\ k' = n /\ PairLow(a, n)' = i /\ PairHigh(a, n)' = j
          /\ Point(i)' = Point(i) /\ Point(j)' = Point(j) /\ \A y : Feasible(y)' <=> Feasible(y)
      BY <1>1, <1>4, <2>1, InputsStay
    <2>3. PairLow(axis, k)' = i /\ PairHigh(axis, k)' = j
      BY <2>2 DEF PairLow, PairHigh
    <2>4. Point(PairLow(axis, k))' = l /\ Point(PairHigh(axis, k))' = h
      BY <1>1, <2>1, <2>2, <2>3 DEF Point
    <2> QED
      BY <1>3, <1>11, <1>12, <2>2, <2>4 DEF Bisected
  <1>14. Swept'
    BY <1>4, <1>5, FoundStays, InputsStay DEF Swept
  <1>15. MonotoneAxis(axis)' <=> MonotoneAxis(axis)
    BY <1>4, MonotoneStays
  <1>16. \A y \in sol' : y \in Points /\ Feasible(y)' /\ Contains(evaluated', y)
    BY <1>4, <1>5, <1>9, InputsStay
  <1> QED
    BY <1>3, <1>4, <1>5, <1>13, <1>14, <1>15, <1>16, SweepParts

(* bisect ends a tolerance away from a point that does not meet the query. *)
LEMMA BisectEndSafe ==
  ASSUME GridInv, SweepInv, BisectEnd
  PROVE  SweepInv'
PROOF
  <1>1. PICK a, f, b : a = axis /\ f = bis.f /\ b = bis.b
    OBVIOUS
  <1>2. /\ bis.on /\ Abs(f[a] - b) <= 1 /\ NextPair /\ sol' = sol \cup {f} /\ bis' = NoBisection
        /\ UNCHANGED inputs /\ UNCHANGED <<node, evaluated, monotone>>
    BY <1>1 DEF BisectEnd, grid
  <1>3. /\ phase = "pairs" /\ a \in AxisSet /\ f \in Points /\ b \in Int /\ f[a] \in Int
        /\ Feasible(f) /\ Contains(evaluated, f) /\ ~ Feasible([f EXCEPT ![a] = b])
        /\ Between(f, Point(PairLow(axis, k)), Point(PairHigh(axis, k)), axis)
    BY <1>1, <1>2, BisectedIs DEF Bisected
  <1>4. AtEdge(f, a)
    <2>1. f[a] # b
      <3>1. f[a] = b => [f EXCEPT ![a] = b] = f
        BY <1>3 DEF Points
      <3> QED
        BY <1>3, <3>1
    <2>2. PICK u : u = f[a]
      OBVIOUS
    <2>3. b = u + 1 \/ b = u + (-1)
      BY <1>2, <1>3, <2>1, <2>2 DEF Abs
    <2>4. PICK d \in {-1, 1} : b = f[a] + d
      BY <2>2, <2>3
    <2>5. [f EXCEPT ![a] = @ + d] = [f EXCEPT ![a] = b]
      BY <2>4
    <2> QED
      BY <1>3, <2>5 DEF AtEdge
  <1>5. ~ bis'.on
    BY <1>2 DEF NoBisection
  <1> QED
    BY <1>1, <1>2, <1>3, <1>4, <1>5, SolutionSafe

(* solve: every pair that differs has its solution.                        *)
LEMMA SelectSweep ==
  ASSUME GridInv, SweepInv, Select
  PROVE  SweepInv'
PROOF
  <1>1. /\ phase = "axis" /\ axis > Len(Axes) /\ phase' = "sense" /\ cand' = solutions'
        /\ UNCHANGED inputs /\ UNCHANGED <<axis, k, node, evaluated, bis, sol, monotone>>
        /\ query.kind = "feasible" => solutions' = sol
    BY DEF Select
  <1>2. /\ query \in Queries /\ GridOK /\ Covered /\ Swept /\ ~ bis.on /\ axis \in Nat
        /\ \A x \in sol : x \in Points /\ Feasible(x) /\ Contains(evaluated, x)
    BY <1>1, BisectionIs DEF GridInv, PhaseOK, SweepInv, Solved, Searching
  <1>3. ASSUME NEW a \in Continuous, NEW i \in Nodes, i[a] + 1 < Shape(a), NEW j, j = [i EXCEPT ![a] = @ + 1],
               Feasible(Point(i)) # Feasible(Point(j))
        PROVE  \E x \in sol : Between(x, Point(i), Point(j), a) /\ (monotone => AtEdge(x, a))
    <2>1. a \in AxisSet /\ a < axis
      BY <1>1, <1>2, AxesAre DEF Continuous
    <2>2. i \in Indices /\ j \in Indices /\ i \in Neighbours(j) /\ j \in Neighbours(i)
      <3>1. i \in Indices
        BY <1>2, NodesAre
      <3>2. /\ i \in [AxisSet -> Int] /\ j \in [AxisSet -> Int] /\ j[a] = i[a] + 1
            /\ \A b \in AxisSet : b # a => j[b] = i[b]
        BY <1>3, <2>1, <3>1 DEF Indices
      <3>3. \A b \in AxisSet : i[b] \in 0 .. Shape(b) - 1
        BY <3>1 DEF Indices
      <3>4. \A b \in AxisSet : j[b] \in 0 .. Shape(b) - 1
        <4>1. Shape(a) \in Nat
          BY <1>2, <2>1, ShapeIs
        <4>2. j[a] \in 0 .. Shape(a) - 1
          BY <1>3, <2>1, <3>2, <3>3, <4>1
        <4> QED
          BY <3>2, <3>3, <4>2
      <3>5. i = [j EXCEPT ![a] = @ + (-1)]
        BY <2>1, <3>2
      <3> QED
        BY <1>3, <2>1, <3>1, <3>2, <3>3, <3>4, <3>5 DEF Indices, Neighbours
    <2>3. Feasible(Point(i)) <=> ~ Feasible(Point(j))
      BY <1>3 DEF Feasible
    <2>4. i \in DOMAIN node /\ j \in DOMAIN node
      <3>1. \A e \in Indices : Reached(e)
        BY <1>1, <1>2, NodesAre DEF Covered
      <3>2. Waiting = {}
        BY <1>1 DEF Waiting
      <3> QED
        BY <2>2, <2>3, <3>1, <3>2 DEF Reached
    <2>5. PICK n \in 0 .. Size(AxisSet) - 1 : PairLow(a, n) = i
      BY <1>2, <2>1, <2>2, PairCounted
    <2>6. PairHigh(a, n) = j
      BY <1>3, <2>5 DEF PairHigh
    <2>7. Differs(a, n)
      <3>1. (Feasible(node[i]) <=> Feasible(Point(i))) /\ (Feasible(node[j]) <=> Feasible(Point(j)))
        BY <1>2, <2>4, NodeTells
      <3>2. Feasible(node[i]) # Feasible(node[j])
        BY <2>3, <3>1
      <3> QED
        BY <2>4, <2>5, <2>6, <3>2 DEF Differs, IsPair
    <2>8. Found(a, n)
      BY <1>2, <2>1, <2>7 DEF Swept
    <2> QED
      BY <2>5, <2>6, <2>8 DEF Found
  <1>4. BoundaryFound'
    <2> SUFFICES ASSUME query.kind = "feasible"
                 PROVE  BoundaryFound'
      BY <1>1 DEF BoundaryFound, inputs
    <2>1. solutions' = sol
      BY <1>1
    <2>2. \A x \in solutions' : Feasible(x)' /\ Contains(evaluated', x)
      BY <1>1, <1>2, <2>1, InputsStay
    <2>3. /\ \A x, a : AtEdge(x, a)' <=> AtEdge(x, a)
          /\ \A x : Feasible(x)' = Feasible(x)
          /\ \A i : Point(i)' = Point(i)
          /\ \A a : Shape(a)' = Shape(a)
          /\ Nodes' = Nodes
      BY <1>1, InputsStay DEF AtEdge, Feasible
    <2>4. ASSUME NEW a \in Continuous, NEW i \in Nodes, i[a] + 1 < Shape(a), NEW j, j = [i EXCEPT ![a] = @ + 1],
                 Feasible(Point(i)) # Feasible(Point(j))
          PROVE  \E x \in solutions' : Between(x, Point(i), Point(j), a) /\ (monotone' => AtEdge(x, a)')
      <3>1. PICK x \in sol : Between(x, Point(i), Point(j), a) /\ (monotone => AtEdge(x, a))
        BY <1>3, <2>4
      <3> QED
        BY <1>1, <2>1, <2>3, <3>1
    <2> QED
      BY <2>2, <2>3, <2>4 DEF BoundaryFound
  <1>5. query.kind = "feasible" => cand' \subseteq Points /\ evaluated' \in Seq(Points) /\ query' = query
    BY <1>1, <1>2 DEF GridOK, inputs
  <1> QED
    BY <1>1, <1>2, <1>4, <1>5 DEF SweepInv, StartOK, Solved, inputs

(* More runs undo nothing of what was found.                               *)
LEMMA BoundaryStays ==
  ASSUME BoundaryFound, UNCHANGED inputs, UNCHANGED <<solutions, monotone>>, Solved' => Solved,
         query.kind = "feasible" => \A y : Contains(evaluated, y) => Contains(evaluated', y)
  PROVE  BoundaryFound'
PROOF
  <1> SUFFICES ASSUME Solved, query.kind = "feasible"
               PROVE  BoundaryFound'
    BY DEF BoundaryFound, inputs
  <1>1. /\ \A x, a : AtEdge(x, a)' <=> AtEdge(x, a)
        /\ \A x : Feasible(x)' = Feasible(x)
        /\ \A i : Point(i)' = Point(i)
        /\ \A a : Shape(a)' = Shape(a)
        /\ Nodes' = Nodes
    BY InputsStay DEF AtEdge, Feasible
  <1>2. \A x \in solutions' : Feasible(x)' /\ Contains(evaluated', x)
    BY <1>1 DEF BoundaryFound
  <1>3. ASSUME NEW a \in Continuous, NEW i \in Nodes, i[a] + 1 < Shape(a), NEW j, j = [i EXCEPT ![a] = @ + 1],
               Feasible(Point(i)) # Feasible(Point(j))
        PROVE  \E x \in solutions' : Between(x, Point(i), Point(j), a) /\ (monotone' => AtEdge(x, a)')
    <2>1. PICK x \in solutions : Between(x, Point(i), Point(j), a) /\ (monotone => AtEdge(x, a))
      BY <1>3 DEF BoundaryFound
    <2> QED
      BY <1>1, <2>1
  <1> QED
    BY <1>1, <1>2, <1>3 DEF BoundaryFound

(* Search::run, for a set of points.                                       *)
LEMMA RunsKept ==
  ASSUME NEW runs \in Seq(Points), NEW S \in SUBSET Points, IsFiniteSet(S)
  PROVE  LET t == FoldSet(LAMBDA x, s : WithRun(s, x), runs, S) IN
         t \in Seq(Points) /\ \A y : Contains(runs, y) => Contains(t, y)
PROOF
  <1> DEFINE f == CHOOSE iter : iter = [s \in SUBSET S |->
                    IF s = {} THEN runs
                    ELSE IF Contains(iter[s \ {CHOOSE x \in s : TRUE}], CHOOSE x \in s : TRUE)
                           THEN iter[s \ {CHOOSE x \in s : TRUE}]
                         ELSE Append(iter[s \ {CHOOSE x \in s : TRUE}], CHOOSE x \in s : TRUE)]
  <1>1. FoldSet(LAMBDA x, s : WithRun(s, x), runs, S) = f[S]
    BY DEF FoldSet, MapThenFoldSet, WithRun
  <1>2. AppendsOnce(f, runs, S)
    <2>1. \E g : AppendsOnce(g, runs, S)
      BY AppendsExist
    <2> QED
      BY <2>1, Zenon DEF AppendsOnce, Pick
  <1> HIDE DEF f
  <1> DEFINE Kept(t) == t \in Seq(Points) /\ \A y : Contains(runs, y) => Contains(t, y)
             K == {s \in FiniteSubsetsOf(S) : ~ Kept(f[s])}
  <1>3. SUFFICES ASSUME K # {} PROVE FALSE
    <2>1. S \in FiniteSubsetsOf(S)
      BY DEF FiniteSubsetsOf
    <2>2. Kept(f[S])
      BY <2>1
    <2> QED
      BY <1>1, <2>2
  <1>4. PICK s \in K : \A t \in K : t \subseteq s => t = s
    <2>1. K \subseteq FiniteSubsetsOf(S)
      OBVIOUS
    <2> HIDE DEF K
    <2> QED
      BY <1>3, <2>1, SmallestSet
  <1>5. s \in SUBSET S /\ IsFiniteSet(s) /\ ~ Kept(f[s])
    BY DEF FiniteSubsetsOf
  <1>6. s # {}
    <2>1. s = {} => f[s] = runs
      BY <1>2, <1>5 DEF AppendsOnce
    <2> QED
      BY <1>5, <2>1
  <1>7. PICK x, t : x = Pick(s) /\ t = s \ {x}
    OBVIOUS
  <1>8. x \in S /\ t \in FiniteSubsetsOf(S) /\ t \subseteq s /\ t # s
    BY <1>5, <1>6, <1>7, PickIn, FS_Subset DEF FiniteSubsetsOf
  <1>9. Kept(f[t])
    BY <1>4, <1>8
  <1>10. f[s] = WithRun(f[t], x)
    BY <1>2, <1>5, <1>6, <1>7 DEF AppendsOnce, WithRun
  <1>11. Kept(WithRun(f[t], x))
    <2>1. x \in Points
      BY <1>8
    <2> QED
      BY <1>9, <2>1, RunKept
  <1> QED
    BY <1>5, <1>10, <1>11

(* sensitivity: the runs around a point are points, and finitely many.     *)
LEMMA AroundIs ==
  ASSUME NEW x \in Points
  PROVE  Around(x) \subseteq Points /\ IsFiniteSet(Around(x))
PROOF
  <1>1. ASSUME NEW a \in Continuous, NEW d \in {-1, 1}
        PROVE  [x EXCEPT ![a] = @ + d] \in Points
    <2>1. x \in [AxisSet -> Int] /\ d \in Int
      BY DEF Points
    <2>2. a \in AxisSet
      BY DEF Continuous
    <2>3. x[a] + d \in Int
      BY <2>1, <2>2
    <2> QED
      BY <2>1, <2>2, <2>3 DEF Points
  <1>2. ASSUME NEW p \in Around(x)
        PROVE  p \in Points
    <2>1. PICK a \in Continuous, d \in {-1, 1} : p = [x EXCEPT ![a] = @ + d]
      BY DEF Around
    <2> QED
      BY <1>1, <2>1
  <1>3. IsFiniteSet(Continuous)
    BY AxesAre, FS_Subset DEF Continuous
  <1>4. Around(x) = Steps(x, Continuous)
    BY DEF Around, Steps
  <1> QED
    BY <1>2, <1>3, <1>4, StepsFinite

(* sensitivity: the runs around a solution are only added.                 *)
LEMMA SenseSweep ==
  ASSUME GridInv, SweepInv, Sense \/ Finish \/ UNCHANGED solvervars
  PROVE  SweepInv'
PROOF
  <1>1. CASE Sense
    <2>1. PICK x : x = CHOOSE y \in cand : TRUE
      OBVIOUS
    <2>2. /\ phase = "sense" /\ x \in cand /\ cand' = cand \ {x} /\ UNCHANGED <<query, model, phase, axis, k, bis, sol>>
          /\ UNCHANGED inputs /\ UNCHANGED <<solutions, monotone>>
          /\ evaluated' = FoldSet(LAMBDA p, runs : WithRun(runs, p), evaluated, Around(x))
      BY <1>1, <2>1 DEF Sense, inputs, result
    <2>3. ~ bis.on
      BY <2>2, BisectionIs DEF GridInv
    <2>4. query.kind = "feasible" => /\ evaluated' \in Seq(Points)
                                     /\ \A y : Contains(evaluated, y) => Contains(evaluated', y)
      <3> SUFFICES ASSUME query.kind = "feasible"
                   PROVE  /\ evaluated' \in Seq(Points)
                          /\ \A y : Contains(evaluated, y) => Contains(evaluated', y)
        OBVIOUS
      <3>1. x \in Points /\ evaluated \in Seq(Points)
        BY <2>2 DEF SweepInv
      <3>2. Around(x) \in SUBSET Points /\ IsFiniteSet(Around(x))
        BY <3>1, AroundIs
      <3> QED
        BY <2>2, <3>1, <3>2, RunsKept
    <2>5. BoundaryFound'
      BY <2>2, <2>4, BoundaryStays DEF SweepInv, Solved
    <2> QED
      BY <2>2, <2>3, <2>4, <2>5 DEF SweepInv, StartOK, Solved
  <1>2. CASE Finish
    <2>1. /\ phase = "sense" /\ phase' = "done" /\ UNCHANGED inputs /\ UNCHANGED <<solutions, monotone, evaluated, bis>>
      BY <1>2 DEF Finish, result
    <2>2. ~ bis.on
      BY <2>1, BisectionIs DEF GridInv
    <2>3. BoundaryFound'
      BY <2>1, BoundaryStays DEF SweepInv, Solved
    <2> QED
      BY <2>1, <2>2, <2>3 DEF SweepInv, StartOK, Solved
  <1>3. CASE UNCHANGED solvervars
    <2>1. /\ UNCHANGED inputs /\ UNCHANGED node /\ UNCHANGED <<solutions, monotone>>
          /\ UNCHANGED <<query, phase, axis, k, cand, evaluated, bis, sol>>
      BY <1>3 DEF solvervars, inputs, grid, result
    <2>2. BoundaryFound'
      BY <2>1, BoundaryStays DEF SweepInv, Solved
    <2>3. Swept => Swept'
      <3>1. \A a, n : (Found(a, n) => Found(a, n)') /\ (Differs(a, n)' <=> Differs(a, n))
        BY <2>1, FoundStays
      <3>2. Size(AxisSet)' = Size(AxisSet)
        BY <2>1, InputsStay
      <3> QED
        BY <2>1, <3>1, <3>2 DEF Swept
    <2>4. MonotoneAxis(axis)' <=> MonotoneAxis(axis)
      BY <2>1, MonotoneStays
    <2>5. bis.on => Bisected'
      <3> SUFFICES ASSUME bis.on
                   PROVE  Bisected'
        OBVIOUS
      <3>1. PICK a, n, i, j : a = axis /\ n = k /\ i = PairLow(a, n) /\ j = PairHigh(a, n)
        OBVIOUS
      <3>2. /\ axis' = a /\ k' = n /\ PairLow(a, n)' = i /\ PairHigh(a, n)' = j
            /\ Point(i)' = Point(i) /\ Point(j)' = Point(j) /\ \A y : Feasible(y)' <=> Feasible(y)
        BY <2>1, <3>1, InputsStay
      <3>3. PairLow(axis, k)' = i /\ PairHigh(axis, k)' = j
        BY <3>2 DEF PairLow, PairHigh
      <3>4. Point(PairLow(axis, k))' = Point(i) /\ Point(PairHigh(axis, k))' = Point(j)
        BY <3>2, <3>3 DEF Point
      <3>5. Bisected
        BY DEF SweepInv
      <3> QED
        BY <2>1, <3>1, <3>2, <3>4, <3>5 DEF Bisected
    <2> QED
      BY <2>1, <2>2, <2>3, <2>4, <2>5, InputsStay DEF SweepInv, StartOK, Solved
  <1> QED
    BY <1>1, <1>2, <1>3

(* Every step keeps the invariant of the sweep.                            *)
LEMMA SweepStep ==
  ASSUME GridInv, SweepInv, [SolverNext]_solvervars
  PROVE  SweepInv'
PROOF
  <1>1. CASE VisitNode \/ RunCandidate \/ GridDone
    BY <1>1, GridSweepSafe
  <1>2. CASE SweepAxis
    BY <1>2, AxisSafe
  <1>3. CASE SkipPair
    BY <1>3, SkipSafe
  <1>4. CASE TakeNode
    BY <1>4, TakeSafe
  <1>5. CASE BisectStart
    BY <1>5, StartSafe
  <1>6. CASE Bisect
    BY <1>6, BisectSafe
  <1>7. CASE BisectEnd
    BY <1>7, BisectEndSafe
  <1>8. CASE Select
    BY <1>8, SelectSweep
  <1>9. CASE Sense \/ Finish \/ UNCHANGED solvervars
    BY <1>9, SenseSweep
  <1>10. CASE ScreenThrows
    BY <1>10, ThrowSweep
  <1> QED
    BY <1>1, <1>2, <1>3, <1>4, <1>5, <1>6, <1>7, <1>8, <1>9, <1>10 DEF SolverNext

(* Whatever pair the sweep over the axes has passed has its solution if    *)
(* one of the two meets the query and the other does not, and a bisection  *)
(* keeps the boundary between its ends.                                    *)
THEOREM SweepInvariant ==
  ASSUME Optimistic
  PROVE  SolverSpec => []SweepInv
PROOF
  <1>1. SolverInit => SweepInv
    BY DEF SolverInit, SweepInv, StartOK, BoundaryFound, Solved, NoBisection
  <1> QED
    BY <1>1, GridInvariant, SweepStep, PTL DEF SolverSpec

(* Between two neighbours of the grid of which one meets the query and the *)
(* other does not there is a solution (BoundaryFound): for any variables,  *)
(* grid, constraint and forward function, and any screen that is           *)
(* optimistic.                                                             *)
THEOREM BoundaryTheorem ==
  ASSUME Optimistic
  PROVE  SolverSpec => []BoundaryFound
PROOF
  <1>1. SweepInv => BoundaryFound
    BY DEF SweepInv
  <1> QED
    BY <1>1, SweepInvariant, PTL

=============================================================================
