SPECIFICATION Spec
CONSTANTS
  t = t
  n = n
  p = p
  q = q
  None = None
  NotListed = NotListed
  Download = {t}
  ClientOf <- MCClientOf
  Reports <- MCSingleReports
  Place = {p, q}
  PlacesOf <- MCPlacesOf
  SeedActions = {"remove"}
  MaxJobs = 3
  MaxSnatches = 1
  MaxRestarts = 1
INVARIANTS
  TypeOK
  JobsAreFinished
  NoDuplicateJobs
PROPERTIES
  SeedActionOnlyAfterImport
  RemovedIsFinal
