\* Two concurrent transactions of several rows at the cap of one user; no worker runs.
SPECIFICATION Spec
CONSTANTS
  k1 = k1
  k2 = k2
  k3 = k3
  k4 = k4
  k5 = k5
  u1 = u1
  r1 = r1
  r2 = r2
  NoReplica = NoReplica
  NoKey = NoKey
  Owner <- OneOwner
  Ids = {i1, i2, i3, i4, i5}
  Keys = {k1, k2, k3, k4, k5}
  Users = {u1}
  Replicas = {}
  Enqueuers = {e1, e2}
  Results = {"ok"}
  RowsPerTransaction = 2
  MAX_ATTEMPTS = 1
  MaxQueuedPerUser = 2
  BatchSize = 2
  SendConcurrency = 1
  Lease = 0
  Retention = 0
  MaxDelay = 1
  DeferDelay = 1
  MaxLag = 0
  MaxDefers = 0
SYMMETRY Symmetry
INVARIANTS
  CapOvershootBounded
