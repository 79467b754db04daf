SPECIFICATION Spec
CONSTANTS
  Caller = {c1, c2}
  None = None
  Empty = Empty
  Torn = Torn
  MaxIssued = 4
  MaxRetries = 2
  MaxRetryDelay = 4
  Status <- Statuses
  Header <- Headers
  MaxRegistry = 2
SYMMETRY Symmetry
INVARIANT OnlyCodexErrors
