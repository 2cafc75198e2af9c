SPECIFICATION Spec
CONSTANTS
  r1 = r1
  r2 = r2
  t1 = t1
  t2 = t2
  Tokens = {t1}
  NoToken = NoToken
  Handlers = {r1, r2}
  NoReplica = NoReplica
  MaxFaults = 1
  MaxTaps = 2
  Batch = 2
INVARIANTS TypeOK OnlyThePollerDrops
PROPERTY EveryTapIsConfirmed
CHECK_DEADLOCK FALSE
