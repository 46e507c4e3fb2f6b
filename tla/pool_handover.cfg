\* The endpoint may give one user's password to the other.
SPECIFICATION Spec
CONSTANTS
  u1 = u1
  u2 = u2
  p1 = p1
  p2 = p2
  Ids = {u1, u2}
  Passwords = {p1, p2}
  Enables = {TRUE}
  Keys = {p1, p2}
  PasswordKey <- IdentityKey
  HasPasswordMap = TRUE
  Hooks = {"add", "update", "remove"}
  NumTags = 1
  AllowHandover = TRUE
  NoUser = NoUser
  NoId = NoId
INVARIANT FoundAfterSync
