\* Two users are the default fallback of each other, and nothing is edited.
SPECIFICATION FairSpec
CONSTANTS
  a = a
  b = b
  NoUser = NoUser
  Inherit = Inherit
  Users = {a, b}
  Creator = b
  FirstAssignees = {a}
  FirstPolicy <- NoPolicy
  FirstDefaults <- EachOther
  TaskPolicies = {}
  UserDefaults = {}
  DEFAULT_MAX_REPEATS = 3
  MAX_REPEATS_CAP = 2
  Reachable = {a, b}
  Viewers = {b}
  Edits = {}
  MaxEdits = 0
PROPERTIES
  SpentRemindersEnd
