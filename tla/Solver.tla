--------------------------------- MODULE Solver ---------------------------------
(***************************************************************************)
(* Inverse solving (solver.cpp): a grid over the design variables, the     *)
(* screening of its nodes, a bisection between neighbours of which one     *)
(* meets the targets, the choice of the solutions, and the runs around     *)
(* each of them for the sensitivities.                                     *)
(*                                                                         *)
(* A forward run is a function of the point (run_point with a fixed seed,  *)
(* or the mean over the seeds); `model`, chosen at the start, says which.  *)
(* The coordinate of a continuous variable, its value or the logarithm of  *)
(* it, is an integer: one unit is the tolerance of the bisection, and what *)
(* the relative step of a sensitivity moves it by.  A run gives every      *)
(* metric that the query names; a screen need not.  The Jacobian and what  *)
(* is read from it are left out.                                           *)
(***************************************************************************)
EXTENDS Integers, Sequences, FiniteSets, FiniteSetsExt, SequencesExt

CONSTANTS
  Axes,          \* Query::variables: [choices |-> a sequence, lo, hi |-> coordinates]
  Queries,       \* kind, per_axis (grid_per_axis), objectives, each to be minimized,
                 \* screen: the metrics that the screen gives, {} where there is none,
                 \* bound of the constraint
  Models,        \* the forward functions
  Y(_, _),       \* metrics of a point under a model
  Screen(_, _),  \* what the closed-form screen says of them
  Targets,       \* Query::targets: a sequence of [metric, min_value]
  Weights        \* LinearConstraint::weights, one per axis

(* A grid has at least one node per axis.                                  *)
ASSUME SolverAssumption ==
  /\ Axes \in Seq([choices : Seq(Int), lo : Int, hi : Int])
  /\ \A q \in Queries : q.per_axis \in Nat \ {0} /\ q.objectives \in Seq(STRING)

VARIABLES
  query, model,
  phase,      \* which loop of solve() runs; "refused" or "failed" if it throws
  axis, k,    \* ... and how far it got
  cand,       \* candidates: nodes the screen keeps, and their neighbours
  node,       \* grid index -> its point, or Out if a constraint rules it out
  evaluated,  \* Result::evaluated, the points in the order they were run
  bis,        \* the bisection under way
  sol,        \* boundary points found
  monotone,   \* Result::monotone
  solutions,  \* Result::solutions
  threshold   \* Result::thresholds, of the only continuous variable

inputs == <<query, model>>
grid == <<cand, node>>
result == <<sol, monotone, solutions, threshold>>
solvervars == <<inputs, phase, axis, k, grid, evaluated, bis, result>>

Out == <<>>
NoBisection == [on |-> FALSE]
NoThreshold == -100

AxisSet == DOMAIN Axes

Discrete(a) == Axes[a].choices # <<>>
Continuous == {a \in AxisSet : ~ Discrete(a)}

(* The screen allows a grid that is four times as fine. *)
Shape(a) ==
  IF Discrete(a) THEN Len(Axes[a].choices)
  ELSE (IF query.screen # {} THEN 4 ELSE 1) * query.per_axis

GridValue(a, i) ==
  IF Discrete(a) THEN Axes[a].choices[i + 1]
  ELSE IF Shape(a) = 1 THEN Axes[a].lo
  ELSE Axes[a].lo + ((Axes[a].hi - Axes[a].lo) * i) \div (Shape(a) - 1)

Point(idx) == [a \in AxisSet |-> GridValue(a, idx[a])]

weighted_sum(x) == FoldFunctionOnSet(+, 0, [a \in AxisSet |-> Weights[a] * x[a]], AxisSet)

Within(x) == weighted_sum(x) <= query.bound

(* The targets that the metrics y miss, and those whose metric they lack.  *)
Missed(y) ==
  {i \in DOMAIN Targets :
     Targets[i].metric \in DOMAIN y /\ y[Targets[i].metric] < Targets[i].min_value}
Unknown(y) == {i \in DOMAIN Targets : Targets[i].metric \notin DOMAIN y}

(* meets_targets looks at one target after the other until one is missed;  *)
(* a metric that it does not find (y.at) is an out_of_range.               *)
Throws(y) == \E i \in Unknown(y) : \A j \in Missed(y) : i < j
MeetsTargets(y) == Missed(y) = {}

(* Search::feasible *)
Feasible(x) == x # Out /\ Within(x) /\ MeetsTargets(Y(model, x))

(* Search::run: a point that was run before is taken from the cache.       *)
WithRun(runs, x) == IF Contains(runs, x) THEN runs ELSE Append(runs, x)

-----------------------------------------------------------------------------
(* evaluate_grid.                                                          *)

(* The number of the nodes on the axes S. *)
Size(S) == FoldFunctionOnSet(LAMBDA n, m : n * m, 1, [a \in AxisSet |-> Shape(a)], S)

(* Search::next counts the first axis fastest. *)
Index(n) == [a \in AxisSet |-> (n \div Size({b \in AxisSet : b < a})) % Shape(a)]

Neighbours(idx) ==
  {nb \in {[idx EXCEPT ![a] = @ + d] : a \in AxisSet, d \in {-1, 1}} :
     \A a \in AxisSet : nb[a] \in 0 .. Shape(a) - 1}

AddNode(idx, p) == node' = [i \in DOMAIN node \cup {idx} |-> IF i = idx THEN p ELSE node[i]]

Estimate(x) == [t \in query.screen |-> Screen(model, x)[t]]

NextNode ==
  IF k + 1 < Size(AxisSet) THEN k' = k + 1 /\ UNCHANGED phase
  ELSE k' = 0 /\ phase' = "candidates"

VisitNode ==
  LET idx == Index(k)
      x == Point(idx)
  IN
  /\ phase = "grid"
  /\ \/ /\ ~ Within(x)
        /\ AddNode(idx, Out)
        /\ UNCHANGED <<cand, evaluated>>
     \/ /\ Within(x) /\ query.screen = {}
        /\ AddNode(idx, x)
        /\ evaluated' = WithRun(evaluated, x)
        /\ UNCHANGED cand
     \/ /\ Within(x) /\ query.screen # {} /\ ~ Throws(Estimate(x))
        /\ cand' = IF MeetsTargets(Estimate(x)) THEN cand \cup {idx} \cup Neighbours(idx) ELSE cand
        /\ UNCHANGED <<node, evaluated>>
  /\ NextNode
  /\ UNCHANGED <<inputs, axis, bis, result>>

(* The screen lacks a metric that meets_targets asks it for: the whole     *)
(* solve is lost.                                                          *)
ScreenThrows ==
  LET x == Point(Index(k)) IN
  /\ phase = "grid" /\ Within(x)
  /\ query.screen # {} /\ Throws(Estimate(x))
  /\ phase' = "failed"
  /\ UNCHANGED <<inputs, axis, k, grid, evaluated, bis, result>>

(* The candidates in the order of a std::set<std::vector<int>>. *)
Before(i, j) == \E a \in AxisSet : i[a] < j[a] /\ \A b \in AxisSet : b < a => i[b] = j[b]

RunCandidate ==
  LET c == CHOOSE i \in cand : \A j \in cand \ {i} : Before(i, j) IN
  /\ phase = "candidates" /\ cand # {}
  /\ cand' = cand \ {c}
  /\ IF c \in DOMAIN node THEN UNCHANGED <<node, evaluated>>
     ELSE /\ AddNode(c, Point(c))
          /\ evaluated' = WithRun(evaluated, Point(c))
  /\ UNCHANGED <<inputs, phase, axis, k, bis, result>>

GridDone ==
  /\ phase = "candidates" /\ cand = {}
  /\ phase' = "axis"
  /\ UNCHANGED <<inputs, axis, k, grid, evaluated, bis, result>>

-----------------------------------------------------------------------------
(* sweep_axes.                                                             *)

(* adjacent_pairs(a): line after line, along each line from its start. The *)
(* n-th node of that order, and the node behind it.                        *)
Others(a) == {b \in AxisSet : b # a}

PairLow(a, n) ==
  LET line == n \div Shape(a) IN
  [b \in AxisSet |-> IF b = a THEN n % Shape(a)
                     ELSE (line \div Size({c \in Others(a) : c < b})) % Shape(b)]

PairHigh(a, n) == [PairLow(a, n) EXCEPT ![a] = @ + 1]

IsPair(a, n) == {PairLow(a, n), PairHigh(a, n)} \subseteq DOMAIN node

(* monotone_axis: no metric of a target rises between two neighbours and   *)
(* falls between two others.                                               *)
Rises(a, t) ==
  \E n \in 0 .. Size(AxisSet) - 1 :
    /\ IsPair(a, n) /\ node[PairLow(a, n)] # Out /\ node[PairHigh(a, n)] # Out
    /\ Y(model, node[PairLow(a, n)])[t] < Y(model, node[PairHigh(a, n)])[t]

Falls(a, t) ==
  \E n \in 0 .. Size(AxisSet) - 1 :
    /\ IsPair(a, n) /\ node[PairLow(a, n)] # Out /\ node[PairHigh(a, n)] # Out
    /\ Y(model, node[PairLow(a, n)])[t] > Y(model, node[PairHigh(a, n)])[t]

MonotoneAxis(a) ==
  \A i \in DOMAIN Targets : ~ (Rises(a, Targets[i].metric) /\ Falls(a, Targets[i].metric))

SweepAxis ==
  /\ phase = "axis" /\ axis <= Len(Axes)
  /\ IF Discrete(axis)
       THEN axis' = axis + 1 /\ UNCHANGED <<phase, monotone>>
       ELSE /\ phase' = "pairs"
            /\ monotone' = (monotone /\ MonotoneAxis(axis))
            /\ UNCHANGED axis
  /\ UNCHANGED <<inputs, k, grid, evaluated, bis, sol, solutions, threshold>>

NextPair ==
  IF k + 1 < Size(AxisSet) THEN k' = k + 1 /\ UNCHANGED <<phase, axis>>
  ELSE k' = 0 /\ phase' = "axis" /\ axis' = axis + 1

Differs(a, n) == IsPair(a, n) /\ Feasible(node[PairLow(a, n)]) # Feasible(node[PairHigh(a, n)])

SkipPair ==
  /\ phase = "pairs" /\ ~ bis.on /\ ~ Differs(axis, k)
  /\ NextPair
  /\ UNCHANGED <<inputs, grid, evaluated, bis, result>>

(* On an axis that is not monotone the node of the grid stands. *)
TakeNode ==
  LET lo == node[PairLow(axis, k)]
      hi == node[PairHigh(axis, k)]
  IN
  /\ phase = "pairs" /\ ~ bis.on /\ Differs(axis, k) /\ ~ MonotoneAxis(axis)
  /\ sol' = sol \cup {IF Feasible(lo) THEN lo ELSE hi}
  /\ NextPair
  /\ UNCHANGED <<inputs, grid, evaluated, bis, monotone, solutions, threshold>>

BisectStart ==
  LET lo == node[PairLow(axis, k)]
      hi == node[PairHigh(axis, k)]
      f == IF Feasible(lo) THEN lo ELSE hi
      other == IF Feasible(lo) THEN PairHigh(axis, k) ELSE PairLow(axis, k)
  IN
  /\ phase = "pairs" /\ ~ bis.on /\ Differs(axis, k) /\ MonotoneAxis(axis)
  /\ bis' = [on |-> TRUE, f |-> f, b |-> GridValue(axis, other[axis])]
  /\ UNCHANGED <<inputs, phase, axis, k, grid, evaluated, result>>

Abs(n) == IF n < 0 THEN -n ELSE n

(* Mutant: the search goes on from the wrong end. *)
HalvedSwapped(x, m) == IF Feasible(x) THEN [bis EXCEPT !.b = m] ELSE [bis EXCEPT !.f = x]

Halved(x, m) == IF Feasible(x) THEN [bis EXCEPT !.f = x] ELSE [bis EXCEPT !.b = m]

(* A probe that breaks a constraint is not run. *)
Bisect ==
  LET m == (bis.f[axis] + bis.b) \div 2
      x == [bis.f EXCEPT ![axis] = m]
  IN
  /\ bis.on /\ Abs(bis.f[axis] - bis.b) > 1
  /\ evaluated' = IF Within(x) THEN WithRun(evaluated, x) ELSE evaluated
  /\ bis' = Halved(x, m)
  /\ UNCHANGED <<inputs, phase, axis, k, grid, result>>

BisectEnd ==
  /\ bis.on /\ Abs(bis.f[axis] - bis.b) <= 1
  /\ sol' = sol \cup {bis.f}
  /\ bis' = NoBisection
  /\ NextPair
  /\ UNCHANGED <<inputs, grid, evaluated, monotone, solutions, threshold>>

-----------------------------------------------------------------------------
(* solve.                                                                  *)

Value(x) == [i \in DOMAIN query.objectives |-> Y(model, x)[query.objectives[i]]]

Dominates(u, v) == (\A i \in DOMAIN u : u[i] <= v[i]) /\ u # v

(* Mutant: Optimum and Pareto look at the boundary only. *)
PoolBoundary == {x \in sol : Feasible(x)}

Pool == {x \in ToSet(evaluated) : Feasible(x)}

(* The first of the best points, in the order they were run. *)
Optimum ==
  LET best == {i \in DOMAIN evaluated :
                 /\ evaluated[i] \in Pool
                 /\ \A x \in Pool : Value(evaluated[i])[1] <= Value(x)[1]}
  IN IF best = {} THEN {} ELSE {evaluated[Min(best)]}

ParetoFront == {x \in Pool : ~ \E y \in Pool : Dominates(Value(y), Value(x))}

Threshold ==
  IF Cardinality(Continuous) = 1 /\ sol # {}
    THEN LET a == CHOOSE c \in Continuous : TRUE IN Min({x[a] : x \in sol})
  ELSE NoThreshold

Select ==
  /\ phase = "axis" /\ axis > Len(Axes)
  /\ threshold' = Threshold
  /\ solutions' = CASE query.kind = "feasible" -> sol
                    [] query.kind = "optimum" -> Optimum
                    [] query.kind = "pareto" -> ParetoFront
  /\ phase' = "sense"
  /\ cand' = solutions'
  /\ UNCHANGED <<inputs, axis, k, node, evaluated, bis, sol, monotone>>

(* sensitivity: two more runs per continuous variable and solution, beyond *)
(* the bounds and the constraints where it comes to that.                  *)
Around(x) == {[x EXCEPT ![a] = @ + d] : a \in Continuous, d \in {-1, 1}}

Sense ==
  LET x == CHOOSE y \in cand : TRUE IN
  /\ phase = "sense" /\ cand # {}
  /\ cand' = cand \ {x}
  /\ evaluated' = FoldSet(LAMBDA p, runs : WithRun(runs, p), evaluated, Around(x))
  /\ UNCHANGED <<inputs, phase, axis, k, node, bis, result>>

Finish ==
  /\ phase = "sense" /\ cand = {}
  /\ phase' = "done"
  /\ UNCHANGED <<inputs, axis, k, grid, evaluated, bis, result>>

-----------------------------------------------------------------------------

(* Optimum takes one objective, Pareto two or more. *)
Accepted(q) ==
  /\ q.kind = "optimum" => Len(q.objectives) = 1
  /\ q.kind = "pareto" => Len(q.objectives) >= 2

(* Any other query is an invalid_argument, before anything is run. *)
SolverInit ==
  /\ query \in Queries /\ model \in Models
  /\ phase = IF Accepted(query) THEN "grid" ELSE "refused"
  /\ axis = 1 /\ k = 0
  /\ cand = {} /\ node = <<>>
  /\ evaluated = <<>>
  /\ bis = NoBisection
  /\ sol = {} /\ monotone = TRUE
  /\ solutions = {} /\ threshold = NoThreshold

SolverNext ==
  \/ VisitNode \/ ScreenThrows \/ RunCandidate \/ GridDone
  \/ SweepAxis \/ SkipPair \/ TakeNode \/ BisectStart \/ Bisect \/ BisectEnd
  \/ Select \/ Sense \/ Finish

SolverSpec == SolverInit /\ [][SolverNext]_solvervars

-----------------------------------------------------------------------------
(* Properties.                                                             *)

Solved == phase \in {"sense", "done"}

Nodes == {Index(n) : n \in 0 .. Size(AxisSet) - 1}

Between(x, lo, hi, a) ==
  /\ \A b \in Others(a) : x[b] = lo[b]
  /\ x[a] \in (lo[a] .. hi[a]) \cup (hi[a] .. lo[a])

AtEdge(x, a) == \E d \in {-1, 1} : ~ Feasible([x EXCEPT ![a] = @ + d])

(* Between two neighbours of the grid of which one meets the query and the *)
(* other does not there is a solution: a point that meets it, and, unless  *)
(* some axis is not monotone, within the tolerance of one that does not.   *)
(* The screen, if it is optimistic, loses none of these boundaries.        *)
BoundaryFound ==
  Solved /\ query.kind = "feasible" =>
    /\ \A x \in solutions : Feasible(x) /\ Contains(evaluated, x)
    /\ \A a \in Continuous : \A i \in {n \in Nodes : n[a] + 1 < Shape(a)} :
         LET lo == Point(i)
             hi == Point([i EXCEPT ![a] = @ + 1])
         IN Feasible(lo) # Feasible(hi) =>
              \E x \in solutions :
                /\ Between(x, lo, hi, a)
                /\ monotone => AtEdge(x, a)

(* No node of the grid that meets the query is better than what Optimum or *)
(* Pareto returns, whether it was run or screened out, and no solution is  *)
(* worse than another one.                                                 *)
NoneBetter ==
  LET met == {x \in {Point(i) : i \in Nodes} : Feasible(x)} IN
  /\ Solved /\ query.kind = "optimum" =>
       \A x \in met : \E s \in solutions : Value(s)[1] <= Value(x)[1]
  /\ Solved /\ query.kind = "pareto" =>
       /\ \A x \in met : \E s \in solutions :
            \A i \in DOMAIN query.objectives : Value(s)[i] <= Value(x)[i]
       /\ \A s, t \in solutions : ~ Dominates(Value(s), Value(t))

=============================================================================
