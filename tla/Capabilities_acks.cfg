SPECIFICATION Spec
CONSTANTS
  u1 = u1
  u2 = u2
  a1 = a1
  h1 = h1
  h2 = h2
  a2 = a2
  v1 = v1
  c1 = c1
  c2 = c2
  Users = {u1, u2}
  Tokens = {a1, a2, v1}
  NoToken = NoToken
  To <- MC_To
  VerifyTokens = {v1}
  Handlers = {h1, h2}
  Chats = {c1, c2}
  NoChat = NoChat
  FirstChat <- MC_FirstChat
  Viewers = {}
  HabitKinds = {TRUE, FALSE}
  MaxMinted = 2
  LocalDay <- MC_LocalDay
  MaxEdits = 1
SYMMETRY MC_Symmetry
INVARIANTS TypeOK SingleUse AwardedOnce BurnedOnlyWhereUnbound AckVerifiedIsCurrent
PROPERTY ImplementsRedemption
CHECK_DEADLOCK FALSE
