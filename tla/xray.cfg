\* One user with two passwords, enabled or not, and two tags.
SPECIFICATION XSpec
CONSTANTS
  u1 = u1
  u2 = u2
  p1 = p1
  p2 = p2
  Ids = {u1}
  Passwords = {p1, p2}
  Enables = {TRUE, FALSE}
  Keys = {p1, p2}
  PasswordKey <- NoKeys
  HasPasswordMap = FALSE
  Hooks = {"add", "update", "remove"}
  NumTags = 2
  AllowHandover = TRUE
  NoUser = NoUser
  NoId = NoId
  None = None
INVARIANTS InboundWithinPool RunningIsServed
PROPERTIES HooksAreFinite DroppedUsersLeave
