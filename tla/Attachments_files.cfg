\* One file in two parts, transferred by two requests that race, fail and die.
SPECIFICATION Spec
CONSTANTS
  Files = {1}
  Thumbed = {1}
  Stuck = {}
  Handlers = {h1, h2}
  h1 = h1
  h2 = h2
  BatchSize = 1
  MaxTransfers = 3
  MaxFaults = 2
SYMMETRY Alike
INVARIANTS KeptHasBlob OrphansNeedAFault
PROPERTY NoWayBack
CHECK_DEADLOCK FALSE
