\* A file beside one that the store cannot delete, which comes first.
SPECIFICATION Spec
CONSTANTS
  Files = {1, 2}
  Thumbed = {2}
  Stuck = {1}
  Handlers = {h1}
  h1 = h1
  h2 = h2
  BatchSize = 1
  MaxTransfers = 2
  MaxFaults = 1
PROPERTY SweptInTheEnd
CHECK_DEADLOCK FALSE
