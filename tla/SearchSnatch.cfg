SPECIFICATION FairSpec
CONSTANTS
  e1 = e1
  e2 = e2
  a = a
  b = b
  pack = pack
  None = None
  Episode = {e1, e2}
  Result = {a, pack}
  EpisodesOf <- MCEpisodesOf
  NameOf <- MCNameOf
  SizeOf <- MCSizeOf
  ProviderOf <- MCProviderOf
  Best = {pack}
  MaxSnatches = 2
INVARIANTS
  TypeOK
  ImportedIsForgotten
  NoOrphan
  ImportedIsNotWanted
PROPERTIES
  LoggedIsRejected
  FailureIsHandled
CHECK_DEADLOCK FALSE
