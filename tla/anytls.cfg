\* One user with two passwords, enabled or not; one connection.
SPECIFICATION ASpec
CONSTANTS
  u1 = u1
  p1 = p1
  p2 = p2
  c1 = c1
  Ids = {u1}
  Passwords = {p1, p2}
  Enables = {TRUE, FALSE}
  Keys = {p1, p2}
  PasswordKey <- IdentityKey
  HasPasswordMap = TRUE
  Hooks = {}
  NumTags = 1
  AllowHandover = FALSE
  NoUser = NoUser
  NoId = NoId
  NoKey = NoKey
  Clients = {c1}
PROPERTIES AdmissionIsCurrent RevokedShutOut
