SPECIFICATION SolverSpec
CONSTANTS
  Axes <- ThreeAxes
  Queries <- Asked
  Models <- Boxes
  Y <- Metrics
  Screen <- Roughly
  Targets <- Slo
  Weights <- Edge
INVARIANTS BoundaryFound NoneBetter
CHECK_DEADLOCK FALSE
