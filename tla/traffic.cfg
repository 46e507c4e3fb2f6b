\* Two users that move at most three bytes each, every tunnel.
SPECIFICATION Spec
CONSTANTS
  Ids = {"u1", "u2"}
  Sources = {"xray", "hysteria", "anytls"}
  MaxUse = 3
  NoId = NoId
INVARIANTS TypeOK NothingLost
PROPERTIES Charged EventuallySettled
