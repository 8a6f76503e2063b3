SPECIFICATION Spec
CONSTANTS
  t = t
  n = n
  p = p
  q = q
  None = None
  NotListed = NotListed
  Download = {t}
  ClientOf <- MCClientOf
  Reports <- MCReports
  Place = {p, q}
  PlacesOf <- MCOwnPlace
  SeedActions = {"none"}
  MaxJobs = 2
  MaxSnatches = 0
  MaxRestarts = 0
PROPERTIES
  PostprocessedIsReserved
