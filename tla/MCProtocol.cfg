SPECIFICATION Spec
CONSTANTS
  None = None
  NotText = NotText
  Plan <- Plans
  Model = "model"
INVARIANTS
  AssembledMatchesServer EndsClosedWithOneOutcome ChatMatchesAggregate ReplayReproducesHistory
CHECK_DEADLOCK FALSE
