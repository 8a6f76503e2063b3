SPECIFICATION Spec
CONSTANTS
  e1 = e1
  e2 = e2
  a = a
  b = b
  pack = pack
  None = None
  Episode = {e1, e2}
  Result = {a, b, pack}
  EpisodesOf <- MCEpisodesOf
  NameOf <- MCNameOf
  SizeOf <- MCSizeOf
  ProviderOf <- MCProviderOf
  Best = {pack}
  MaxSnatches = 2
PROPERTIES
  OnlyFailedIsRecorded
CHECK_DEADLOCK FALSE
