SPECIFICATION FairSpec
CONSTANTS
  t = t
  n = n
  p = p
  q = q
  None = None
  NotListed = NotListed
  Download = {t,n}
  ClientOf <- MCClientOf
  Reports <- MCDoneReports
  Place = {p, q}
  PlacesOf <- MCOwnPlace
  SeedActions = {"pause", "unsupported"}
  MaxJobs = 0
  MaxSnatches = 0
  MaxRestarts = 1
PROPERTIES
  FinishedIsSettled
  GoneIsRemoved
