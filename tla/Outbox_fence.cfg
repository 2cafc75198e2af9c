\* One row, two replicas that crash, hang and race for it: safety, the promise, and the end of every row.
SPECIFICATION FairSpec
CONSTANTS
  k1 = k1
  k2 = k2
  k3 = k3
  k4 = k4
  k5 = k5
  u1 = u1
  r1 = r1
  r2 = r2
  NoReplica = NoReplica
  NoKey = NoKey
  Owner <- OneOwner
  Ids = {i1}
  Keys = {k1}
  Users = {u1}
  Replicas = {r1, r2}
  Enqueuers = {e1}
  Results = {"ok", "email_budget", "client", "throttled"}
  RowsPerTransaction = 1
  MAX_ATTEMPTS = 2
  MaxQueuedPerUser = 2
  BatchSize = 2
  SendConcurrency = 1
  Lease = 1
  Retention = 1
  MaxDelay = 1
  DeferDelay = 1
  MaxLag = 0
  MaxDefers = 1
INVARIANTS
  TypeOK
  LogMatchesAttempts
  OneRequestPerAttempt
PROPERTIES
  TerminalIsFinal
  HealthFollowsVerdict
  ImplementsDelivery
  DeliveredOrGivenUp
