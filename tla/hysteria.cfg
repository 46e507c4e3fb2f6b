\* One user with two passwords, two connections.
SPECIFICATION HSpec
CONSTANTS
  u1 = u1
  p1 = p1
  p2 = p2
  c1 = c1
  c2 = c2
  Ids = {u1}
  Passwords = {p1, p2}
  Enables = {TRUE}
  Keys = {p1, p2}
  PasswordKey <- IdentityKey
  HasPasswordMap = TRUE
  Hooks = {"update", "remove"}
  NumTags = 1
  AllowHandover = FALSE
  NoUser = NoUser
  NoId = NoId
  NoKey = NoKey
  Clients = {c1, c2}
INVARIANTS RunningUnlessMissed OnlyMissedKeepOldPassword OnlyMissedOutliveRemoval
PROPERTIES HooksAreFinite LeakedSessionsEnd
