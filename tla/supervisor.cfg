\* All three tunnels; xray and hysteria change their sockets, anytls its scheme.
SPECIFICATION Spec
CONSTANTS
  a = a
  b = b
  api = api
  x = x
  Order <- AllTunnels
  ListenSets <- Listens
  Options <- Opts
  NoScheme = NoScheme
  BadScheme = BadScheme
  Default = Default
  Off = Off
INVARIANTS TypeOK ConfiguredIsServed PaddingApplied
PROPERTIES Recovers
