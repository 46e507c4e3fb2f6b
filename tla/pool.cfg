\* Two users, three passwords that never change hands, all hooks and two tags.
SPECIFICATION Spec
CONSTANTS
  u1 = u1
  u2 = u2
  p1 = p1
  p2 = p2
  p3 = p3
  Ids = {u1, u2}
  Passwords = {p1, p2, p3}
  Enables = {TRUE, FALSE}
  Keys = {p1, p2, p3}
  PasswordKey <- IdentityKey
  HasPasswordMap = TRUE
  Hooks = {"add", "update", "remove"}
  NumTags = 2
  AllowHandover = FALSE
  NoUser = NoUser
  NoId = NoId
INVARIANTS TypeOK IndexSound IndexComplete PoolMatchesResponse
PROPERTIES CycleIsFinite SettledIsQuiet Converges StopTerminates
