---------------------------- MODULE ShowEpisodes ----------------------------
(***************************************************************************)
(* The episodes of a show in the web client: components/display-show.vue   *)
(* with ADD_SHOW_EPISODE, getEpisodes and updateEpisode of                 *)
(* store/modules/shows.js.                                                 *)
(*                                                                         *)
(* The page asks for the seasons that the current page of its table needs, *)
(* the last season first, one request after the other.  A table has the    *)
(* pages that its rows fill, so a user gets on only if a page brings more  *)
(* rows than it shows.  Messages about single episodes come in between.    *)
(*                                                                         *)
(* The user may set the rows per page, which goes back to the first page   *)
(* and loads nothing: only the change of the page loads.                   *)
(***************************************************************************)
EXTENDS Naturals, Sequences, SequencesExt, FiniteSets, Subsequences

CONSTANTS
  Counts,       \* the season counts to look at: sequences of season and episodes
  PerPageDropdown, \* the rows per page to choose from
  Limit,        \* the episodes that an answer holds at most
  Absent,       \* show.seasons of a show whose episodes were never stored
  MaxLoads,     \* bound on the loads in progress
  MaxMessages,  \* bound on the messages about episodes
  MaxReloads    \* bound on the returns from the rename page

VARIABLES
  seasonCount,  \* show.seasonCount, from the first season on
  paged,        \* layout.show.pagination.enable
  seasons,      \* show.seasons: season -> the episodes of its children
  perPage,      \* paginationPerPage
  current,      \* the page of the table
  opened,       \* whether the page was opened
  chains,       \* the loads in progress: the seasons each has still to ask for
  visited,      \* the pages opened since the rows per page were set
  messages,     \* the messages so far
  reloads,      \* the returns from the rename page so far
  early,        \* whether the store had episodes before the page (history variable)
  failed        \* whether a request failed (history variable)

shown == <<seasonCount, paged>>
pagination == <<perPage, current>>
bounds == <<messages, reloads>>
vars == <<shown, seasons, pagination, opened, chains, visited, bounds, early, failed>>

Season == {seasonCount[k].season : k \in DOMAIN seasonCount}
EpisodesOf(s) == (CHOOSE c \in ToSet(seasonCount) : c.season = s).episodes
HasSpecials == seasonCount # <<>> /\ seasonCount[1].season = 0

----------------------------------------------------------------------------
\* neededSeasons.

\* The seasons in the order the code looks at them, specials left out.
Backwards ==
  LET counts == Reverse(seasonCount)
  IN  Chosen(counts, {k \in DOMAIN counts : counts[k].season # 0})

\* The sums of the first numbers of a sequence.
Sums(numbers) ==
  LET sum[k \in 0 .. Len(numbers)] == IF k = 0 THEN 0 ELSE sum[k - 1] + numbers[k]
  IN  sum

\* Defect: a page that is just full counts as one that has more.
GrowsEarly(episodes, page) == episodes >= page * perPage

\* The page that follows the first k of them: it grows by one at most, however
\* many pages a season fills.
Grows(episodes, page) == episodes > page * perPage
PagesCount ==
  LET episodes == Sums([k \in DOMAIN Backwards |-> Backwards[k].episodes])
      count[k \in 0 .. Len(Backwards)] ==
        IF k = 0 THEN 1
        ELSE IF Grows(episodes[k], count[k - 1]) THEN count[k - 1] + 1 ELSE count[k - 1]
  IN  count

\* A season belongs to the page it was reached on and to the one it began.
NeededSeasons(page) ==
  LET needed == Chosen(Backwards, {k \in DOMAIN Backwards :
                                     ~paged \/ page \in {PagesCount[k - 1], PagesCount[k]}})
  IN  [k \in DOMAIN needed |-> needed[k].season]

----------------------------------------------------------------------------
\* ADD_SHOW_EPISODE: an episode replaces the one with its slug or is one more.
Children(s) == IF seasons # Absent /\ s \in DOMAIN seasons THEN seasons[s] ELSE <<>>
AddEpisode(list, e) == IF e \in ToSet(list) THEN list ELSE Append(list, e)
WithEpisodes(list, episodes) ==
  LET with[k \in 0 .. Len(episodes)] ==
        IF k = 0 THEN list ELSE AddEpisode(with[k - 1], episodes[k])
  IN  with[Len(episodes)]
AddEpisodes(s, episodes) ==
  LET stored == IF seasons = Absent THEN {} ELSE DOMAIN seasons
  IN  [t \in stored \cup {s} |-> IF t = s THEN WithEpisodes(Children(s), episodes) ELSE seasons[t]]

----------------------------------------------------------------------------
\* loadEpisodes: one request after the other, for the seasons of a page.
Loads(new) ==
  /\ chains' = chains \cup (new \ {<<>>})
  /\ Cardinality(chains') <= MaxLoads

\* initializeEpisodes: the first page and the specials, unless the show has episodes.
InitializeEpisodes(force) ==
  IF (force \/ seasons = Absent) /\ seasonCount # <<>>
    THEN /\ Loads({NeededSeasons(1), IF HasSpecials THEN <<0>> ELSE <<>>})
         /\ visited' = visited \cup {1}
    ELSE UNCHANGED <<chains, visited>>

\* The show arrives with its details (loadShow).
PageOpened ==
  /\ ~opened
  /\ opened' = TRUE
  /\ early' = (seasons # Absent)
  /\ InitializeEpisodes(FALSE)
  /\ UNCHANGED <<shown, seasons, pagination, bounds, failed>>

\* The way back from the page that tests the renaming.
Reloaded ==
  /\ opened /\ reloads < MaxReloads
  /\ reloads' = reloads + 1
  /\ InitializeEpisodes(TRUE)
  /\ UNCHANGED <<shown, seasons, pagination, opened, messages, early, failed>>

Rows == Sums([k \in DOMAIN Backwards |-> Len(Children(Backwards[k].season))])[Len(Backwards)]
TablePages == IF seasons = Absent THEN {} ELSE 1 .. (Rows + perPage - 1) \div perPage

\* onPageChange.
PageChanged(page) ==
  /\ opened /\ paged /\ page # current
  /\ current' = page
  /\ visited' = visited \cup {page}
  /\ Loads({NeededSeasons(page)})
  /\ UNCHANGED <<shown, seasons, perPage, opened, bounds, early, failed>>

\* updatePaginationPerPage: the table goes back to its first page and tells only
\* the rows per page.
PerPageChanged(rows) ==
  /\ opened /\ paged /\ rows # perPage
  /\ perPage' = rows
  /\ current' = 1
  /\ visited' = {}
  /\ UNCHANGED <<shown, seasons, opened, chains, bounds, early, failed>>

\* getEpisodes: the answer about the season that a load waits for.
EpisodesArrive(chain) ==
  LET s == Head(chain)
      last == IF EpisodesOf(s) < Limit THEN EpisodesOf(s) ELSE Limit
  IN  /\ seasons' = AddEpisodes(s, [e \in 1 .. last |-> e])
      /\ chains' = (chains \ {chain}) \cup ({Tail(chain)} \ {<<>>})
      /\ UNCHANGED <<shown, pagination, opened, visited, bounds, early, failed>>

RequestFails(chain) ==
  /\ chains' = chains \ {chain}
  /\ failed' = TRUE
  /\ UNCHANGED <<shown, seasons, pagination, opened, visited, bounds, early>>

\* episodeUpdated: the status of an episode changed, a search snatched it.
EpisodeUpdated(s, e) ==
  /\ messages < MaxMessages
  /\ messages' = messages + 1
  /\ seasons' = AddEpisodes(s, <<e>>)
  /\ UNCHANGED <<shown, pagination, opened, chains, visited, reloads, early, failed>>

Init ==
  /\ seasonCount \in Counts
  /\ paged \in BOOLEAN
  /\ seasons = Absent
  /\ perPage \in PerPageDropdown /\ current = 1
  /\ opened = FALSE /\ chains = {} /\ visited = {}
  /\ messages = 0 /\ reloads = 0
  /\ early = FALSE /\ failed = FALSE

Next ==
  \/ PageOpened \/ Reloaded
  \/ \E page \in TablePages : PageChanged(page)
  \/ \E rows \in PerPageDropdown : PerPageChanged(rows)
  \/ \E chain \in chains : EpisodesArrive(chain) \/ RequestFails(chain)
  \/ \E s \in Season : \E e \in 1 .. EpisodesOf(s) : EpisodeUpdated(s, e)

Spec == Init /\ [][Next]_vars
----------------------------------------------------------------------------
\* Type invariant.
TypeOK ==
  /\ seasonCount \in Counts
  /\ seasons = Absent \/ (DOMAIN seasons \subseteq Season /\ \A s \in DOMAIN seasons : seasons[s] \in Seq(Nat))
  /\ \A chain \in chains : ToSet(chain) \subseteq Season
  /\ perPage \in PerPageDropdown /\ current \in Nat
  /\ visited \subseteq Nat
  /\ {paged, opened, early, failed} \subseteq BOOLEAN
  /\ messages \in 0 .. MaxMessages /\ reloads \in 0 .. MaxReloads

\* Every episode of the season is one row.
Loaded(s) ==
  /\ seasons # Absent /\ s \in DOMAIN seasons
  /\ IsInjective(seasons[s]) /\ ToSet(seasons[s]) = 1 .. EpisodesOf(s)

\* A user who has opened every page that the table has since the rows per page
\* were set, the first one too, has every episode of the show on it.  It may lack
\* some if a request failed, if the store had episodes before the page, or if a
\* season is longer than an answer.
PagesBringEverything ==
  /\ opened /\ chains = {}
  /\ TablePages \cup {1} \subseteq visited \/ ~paged
  => \/ early \/ failed
     \/ \E s \in Season : EpisodesOf(s) > Limit
     \/ \A s \in Season : Loaded(s)
=============================================================================
