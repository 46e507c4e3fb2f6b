\* One user with one password, enabled or not, and one tag.
SPECIFICATION RSpec
CONSTANTS
  u1 = u1
  p1 = p1
  Ids = {u1}
  Passwords = {p1}
  Enables = {TRUE, FALSE}
  Keys = {p1}
  PasswordKey <- NoKeys
  HasPasswordMap = FALSE
  Hooks = {"add", "update", "remove"}
  NumTags = 1
  AllowHandover = TRUE
  NoUser = NoUser
  NoId = NoId
  None = None
INVARIANTS UntouchedIsExact StrangersAreOld
PROPERTIES StrangersLeave
