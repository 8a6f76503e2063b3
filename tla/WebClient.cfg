SPECIFICATION MCSpec
CONSTANTS
  a = a
  b = b
  c = c
  r1 = r1
  r2 = r2
  r3 = r3
  p1 = p1
  p2 = p2
  tv = tv
  anime = anime
  old = old
  c1 = c1
  c2 = c2
  imdb = imdb
  trakt = trakt
  None = None
  Titles <- MCTitles
  NumberOf <- MCNumberOf
  Libraries = {{c}}
  Stores <- MCStores
  Limit = 1
  Visited = {c}
  MaxChanges = 2
  MaxGaps = 1
  MaxRequests = 1
  Results <- MCResults
  ProviderOf <- MCProviderOf
  Providers <- MCProviders
  OfEpisode = {r1, r2}
  Packs = {r2, r3}
  Kinds = {"episode", "season"}
  ResultsPerPage = 2
  Tables = {{}, {r1}}
  MaxSearches = 1
  MaxFetches = 2
  MaxSearchGaps = 1
  MaxOthers = 1
  Counts <- MCCounts
  PerPageDropdown = {2, 3}
  EpisodeLimit = 4
  Absent = Absent
  MaxLoads = 2
  MaxMessages = 1
  MaxReloads = 1
  Client = {c1, c2}
  Path = {tv, anime, old}
  Lists <- MCLists
  MaxEdits = 2
  Sources <- MCSources
  All = All
  MaxSize = 4
  ShowsPerPage = 2
  MaxUpdates = 1
  MaxClicks = 3
CHECK_DEADLOCK FALSE
INVARIANTS
  AllTypeOK
  InSync
  ShownOnce
  ResultsShown
  PagesBringEverything
  ListAsMade
  NothingSkipped
PROPERTIES
  DetailsKept
  LibraryArrives
  LoadingEnds
