\* Every interleaving of the scan with edits, leavers and acknowledgements.
SPECIFICATION Spec
CONSTANTS
  a = a
  b = b
  NoUser = NoUser
  Inherit = Inherit
  Users = {a, b}
  Creator = b
  FirstAssignees = {a}
  FirstPolicy <- HandToB
  FirstDefaults <- NoDefaults
  TaskPolicies <- SomePolicies
  UserDefaults <- SomeDefaults
  DEFAULT_MAX_REPEATS = 3
  MAX_REPEATS_CAP = 2
  Reachable = {a, b}
  Viewers = {b}
  Edits = {"done", "assign", "policy", "defaults", "schedule", "member"}
  MaxEdits = 2
INVARIANTS
  TypeOK
  TimersFitStatus
  StatusTellsQueue
PROPERTIES
  TimerFollowsPolicy
  NoRepeatSwallowed
  OnlyWaitingRemindersFire
  ChainHasOneLink
  AckStopsEverybody
  ImplementsLadder
