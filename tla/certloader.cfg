\* Two handshakes against three writes of two key pairs.
SPECIFICATION Spec
CONSTANTS
  Handshakes = {h1, h2}
  Pairs = {p1, p2}
  MaxWrites = 3
  NoFile = NoFile
  NoHandshake = NoHandshake
INVARIANTS TypeOK UpToDateIsCurrent
PROPERTIES CacheNeverOlder UpdateReachesClients
