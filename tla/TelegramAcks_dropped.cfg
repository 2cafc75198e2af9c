SPECIFICATION Spec
CONSTANTS
  r1 = r1
  r2 = r2
  t1 = t1
  t2 = t2
  Tokens = {t1}
  NoToken = NoToken
  Handlers = {r1, r2}
  NoReplica = NoReplica
  MaxFaults = 1
  MaxTaps = 1
  Batch = 2
INVARIANT FailedTapIsRecovered
CHECK_DEADLOCK FALSE
