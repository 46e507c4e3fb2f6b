\* Six pairs: two halves on disk, two in xray, one being read, one new.
SPECIFICATION Spec
CONSTANTS
  Pairs = {c1, c2, c3, c4, c5, c6}
  None = None
INVARIANTS TypeOK HandshakesHaveCertificate SelfSignedIsShared NoSilentFallback SnapshotIsAPair
PROPERTIES FallbackBoots
