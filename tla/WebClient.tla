------------------------------ MODULE WebClient ------------------------------
(***************************************************************************)
(* The web client: its list of shows (ShowStore), the manual search page,  *)
(* the episodes of a show, the root directories and the recommended shows, *)
(* side by side.  They share no state, so a step of the client is a step   *)
(* of one of them.                                                         *)
(***************************************************************************)
EXTENDS ShowStore

CONSTANTS
  \* ManualSearch
  Results, ProviderOf, Providers, OfEpisode, Packs, Kinds, ResultsPerPage, Tables,
  MaxSearches, MaxFetches, MaxSearchGaps, MaxOthers,
  \* ShowEpisodes
  Counts, PerPageDropdown, EpisodeLimit, Absent, MaxLoads, MaxMessages, MaxReloads,
  \* RootDirs
  Client, Path, Lists, MaxEdits,
  \* Recommended
  Sources, All, MaxSize, ShowsPerPage, MaxUpdates, MaxClicks

VARIABLES
  kind, table, found, waiting, running, left, searches, open, searchGaps, known, cache,
  mount, put, fetchOf, fetches, histories, item, snatched, others, loading, timers, unsure, broken,
  seasonCount, paged, seasons, perPage, current, opened, chains, visited, messages, reloads,
  early, failed,
  raw, dirs, dialog, patches, pushes, edits, wanted, gone, chosen, unsavedDirs, crossed,
  defaultless,
  size, pageOf, recommended, todo, loadingShows, asked, updates, clicks, skipped, shifted

storeVars == vars
searchVars ==
  <<kind, table, found, waiting, running, left, searches, open, searchGaps, known, cache,
    mount, put, fetchOf, fetches, histories, item, snatched, others, loading, timers, unsure, broken>>
episodeVars ==
  <<seasonCount, paged, seasons, perPage, current, opened, chains, visited, messages, reloads,
    early, failed>>
dirVars ==
  <<raw, dirs, dialog, patches, pushes, edits, wanted, gone, chosen, unsavedDirs, crossed,
    defaultless>>
recommendedVars ==
  <<size, pageOf, recommended, todo, loadingShows, asked, updates, clicks, skipped, shifted>>
clientVars == <<storeVars, searchVars, episodeVars, dirVars, recommendedVars>>

Search == INSTANCE ManualSearch WITH
  PageSize <- ResultsPerPage, MaxGaps <- MaxSearchGaps, gaps <- searchGaps, fetch <- fetchOf

Episodes == INSTANCE ShowEpisodes WITH Limit <- EpisodeLimit

Dirs == INSTANCE RootDirs WITH unsaved <- unsavedDirs

Shows == INSTANCE Recommended WITH
  PageSize <- ShowsPerPage,
  page <- pageOf, shows <- recommended, loading <- loadingShows, requests <- asked

\* What the parameters of the pages are; those of the list are ShowStore's.
ASSUME SearchAssumption ==
  /\ Results \in Seq(Search!Result) /\ IsInjective(Results)
  /\ ProviderOf \in [Search!Result -> Search!Provider]
  /\ Providers \in Seq(Search!Provider) /\ Providers # <<>>
  /\ ResultsPerPage \in Nat \ {0}
  /\ Tables \subseteq SUBSET Search!Result
  /\ None \notin Seq(Search!Result)
  /\ MaxSearches \in Nat /\ MaxFetches \in Nat \ {0} /\ {MaxSearchGaps, MaxOthers} \subseteq Nat

ASSUME EpisodesAssumption ==
  /\ Counts \subseteq Seq([season : Nat, episodes : Nat \ {0}])
  /\ \A counts \in Counts :
       /\ \A j, k \in DOMAIN counts : /\ counts[j].season = counts[k].season => j = k
                                      /\ counts[k].season = 0 => k = 1
       /\ \A S \in SUBSET {counts[k].season : k \in DOMAIN counts} : Absent \notin [S -> Seq(Nat)]
  /\ PerPageDropdown \subseteq Nat \ {0} /\ EpisodeLimit \in Nat \ {0}
  /\ {MaxLoads, MaxMessages, MaxReloads} \subseteq Nat

ASSUME DirsAssumption ==
  /\ None \notin Path /\ Path \cap Nat = {}
  /\ Lists \subseteq Dirs!RawList
  /\ MaxEdits \in Nat

ASSUME RecommendedAssumption ==
  /\ Sources \in Seq(Shows!Source)
  /\ ShowsPerPage \in Nat \ {0}
  /\ {MaxSize, MaxUpdates, MaxClicks} \subseteq Nat

ClientInit == Init /\ Search!Init /\ Episodes!Init /\ Dirs!Init /\ Shows!Init

\* What a step of a part leaves alone.
StoreRuns == UNCHANGED <<searchVars, episodeVars, dirVars, recommendedVars>>
SearchRuns == UNCHANGED <<storeVars, episodeVars, dirVars, recommendedVars>>
EpisodesRun == UNCHANGED <<storeVars, searchVars, dirVars, recommendedVars>>
DirsRun == UNCHANGED <<storeVars, searchVars, episodeVars, recommendedVars>>
RecommendedRun == UNCHANGED <<storeVars, searchVars, episodeVars, dirVars>>

ClientNext ==
  \/ Next /\ StoreRuns
  \/ Search!Next /\ SearchRuns
  \/ Episodes!Next /\ EpisodesRun
  \/ Dirs!Next /\ DirsRun
  \/ Shows!Next /\ RecommendedRun
ClientSpec == ClientInit /\ [][ClientNext]_clientVars
-----------------------------------------------------------------------------
\* Type invariant of all parts.
AllTypeOK == TypeOK /\ Search!TypeOK /\ Episodes!TypeOK /\ Dirs!TypeOK /\ Shows!TypeOK

\* ManualSearch: a result is one row of the page.
ShownOnce == Search!ShownOnce

\* ManualSearch: the page shows the results.
ResultsShown == Search!ResultsShown

\* ManualSearch: the page does not go on loading.
LoadingEnds == Search!LoadingEnds

\* ShowEpisodes: the pages of the table bring all episodes.
PagesBringEverything == Episodes!PagesBringEverything

\* RootDirs: the list is what the users made of it.
ListAsMade == Dirs!ListAsMade

\* Recommended: no shows are passed over.
NothingSkipped == Shows!NothingSkipped
=============================================================================
