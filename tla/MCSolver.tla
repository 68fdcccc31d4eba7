-------------------------------- MODULE MCSolver --------------------------------
(* Two continuous variables and a choice.  The targets are met in a box,   *)
(* which the choice may move: by two metrics that are monotone, one that   *)
(* grows and one that shrinks, or by a single one that is not.             *)
EXTENDS Solver, TLC

Bandwidth == [choices |-> <<>>, lo |-> 0, hi |-> 9]
Capacity == [choices |-> <<>>, lo |-> 0, hi |-> 6]
Mapping == [choices |-> <<0, 2>>, lo |-> 0, hi |-> 0]

ThreeAxes == <<Bandwidth, Capacity, Mapping>>

(* What is asked for, one query with an objective too many and one with    *)
(* one too few.                                                            *)
Goals ==
  {<<"feasible", <<>>>>, <<"optimum", <<"cost">>>>, <<"pareto", <<"cost", "area">>>>,
   <<"optimum", <<"cost", "area">>>>, <<"pareto", <<"cost">>>>}

(* Grids of 3 nodes, or of 4 behind a screen, which may lack a metric.     *)
Screens == {{}, {"rate", "slack"}, {"rate"}}

Asked ==
  {[kind |-> g[1], objectives |-> g[2], per_axis |-> IF s = {} THEN 3 ELSE 1, screen |-> s,
    bound |-> b] : g \in Goals, s \in Screens, b \in {9, 99}}

Boxes == [lo1 : {-1, 1, 4, 5}, hi1 : {6, 9}, lo2 : {0, 3}, hi2 : {4, 7}, one : BOOLEAN]

AtLeast(x, y) == IF x >= y THEN 1 ELSE 0

(* The metrics, if the box is larger by e in the first variable.           *)
Lower(m, x, e) == AtLeast(x[1] + e, m.lo1 + x[3]) + AtLeast(x[2], m.lo2)
Upper(m, x, e) == AtLeast(m.hi1 + e, x[1]) + AtLeast(m.hi2, x[2])

Boxed(m, x, e) ==
  [rate |-> IF m.one THEN Lower(m, x, e) + Upper(m, x, e) - 2 ELSE Lower(m, x, e),
   slack |-> IF m.one THEN 2 ELSE Upper(m, x, e),
   cost |-> x[1] + 2 * x[2] - x[3], area |-> 9 - x[1]]

Metrics(m, x) == Boxed(m, x, 0)

(* An optimistic estimate: a little beyond the box. *)
Roughly(m, x) == Boxed(m, x, 1)

Slo == <<[metric |-> "rate", min_value |-> 2], [metric |-> "slack", min_value |-> 2]>>
Edge == <<1, 1, 0>>
=============================================================================
