\* Does a reload of hysteria leave the agent alive?
SPECIFICATION Spec
CONSTANTS
  a = a
  b = b
  api = api
  x = x
  Order <- OnlyHysteria
  ListenSets <- Listens
  Options <- Opts
  NoScheme = NoScheme
  BadScheme = BadScheme
  Default = Default
  Off = Off
PROPERTY ReloadSurvives
