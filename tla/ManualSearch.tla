---------------------------- MODULE ManualSearch ----------------------------
(***************************************************************************)
(* The manual search page of the web client: components/show-results.vue   *)
(* with store/modules/provider.js and queue.js, against the manual search  *)
(* of the server and its table of results.                                 *)
(*                                                                         *)
(* The page shows, of the results that the store holds for each provider,  *)
(* those for its episode or, for a season, the packs.  They come two ways: *)
(* from the table, page by page and one provider after the other, and by   *)
(* the websocket as a search finds them, which is before the search writes *)
(* them to the table.  Each page of a fetch replaces what the store holds  *)
(* for its provider.  As long as the store has no providers, there is      *)
(* nothing to fetch from and no place for what a message brings.           *)
(*                                                                         *)
(* A message reaches the client when it is sent or, without a connection,  *)
(* never; the answers of the server take their time.                       *)
(***************************************************************************)
EXTENDS Naturals, Sequences, SequencesExt, FiniteSets, Subsequences

CONSTANTS
  Results,      \* the results of all providers, in the order of their tables
  ProviderOf,   \* result -> its provider
  Providers,    \* the enabled providers, in their order
  OfEpisode,    \* the results whose episodes include the one of the page
  Packs,        \* the results with several episodes, or without any
  Kinds,        \* the searches the page may be for: "episode", "season"
  PageSize,     \* the results of a page
  None,
  MaxSearches,  \* bound on the searches
  MaxFetches,   \* bound on the fetches, the one of mounted included
  Tables,       \* the results an earlier search may have left in the tables
  MaxGaps,      \* bound on the losses of the connection
  MaxOthers     \* bound on the messages about other items of the queue

Result == ToSet(Results)
Provider == ToSet(Providers)
Fetch == 1 .. MaxFetches

VARIABLES
  kind,      \* whether the page is for an episode or a season
  table,     \* the results in the provider tables
  found,     \* the results sent to the clients and not written yet
  waiting,   \* whether a manual search is in the queue
  running,   \* whether one runs
  left,      \* the results it may still find
  searches,  \* the searches asked for so far
  open,      \* whether the websocket is open
  gaps,      \* the losses of the connection so far
  known,     \* whether the store has the providers
  cache,     \* provider -> the results in the store
  mount,     \* what mounted() waits for
  put,       \* whether a PUT search/manual is on its way
  fetch,     \* fetch -> where getProviderCacheResults is
  fetches,   \* the fetches so far; the first is the one of mounted
  item,      \* the state of the last MANUAL-SEARCH item in state.queueitems
  snatched,  \* whether the last SNATCH-RESULT item succeeded
  others,    \* the messages about other items so far
  histories, \* the requests for the history of the episode on their way
  loading,   \* whether the page shows that it loads
  timers,    \* the timers that will end that
  unsure,    \* results the page need not show (history variable)
  broken     \* whether the end of a search was not told or not asked for (history variable)

search == <<table, found, waiting, running, left>>
socket == <<open, gaps>>
queueitems == <<item, snatched, others>>
spinner == <<loading, timers>>
store == <<known, cache>>
fetching == <<fetch, fetches, histories>>
vars == <<kind, search, searches, socket, store, mount, put, fetching,
          queueitems, spinner, unsure, broken>>

Idle == [at |-> 0, page |-> 0, total |-> 0, answer |-> None, button |-> FALSE]
Of(p) == {r \in Result : ProviderOf[r] = p}

----------------------------------------------------------------------------
\* The store.

\* Defect: a result that is there is added again.
Appended(list, r) == Append(list, r)

\* ADD_SEARCH_RESULTS: an update of a result that is there, or one more.
AddSearchResult(list, r) == IF r \in ToSet(list) THEN list ELSE Append(list, r)

\* ADD_PROVIDER_CACHE: the answer instead of what was there.
AddProviderCache(list, answer) == answer

\* combinedResults: of what is stored, the page shows what it is for.
Stored == UNION {ToSet(cache[p]) : p \in Provider}
Asked == IF kind = "episode" THEN OfEpisode ELSE Packs
Shown == Stored \cap Asked

\* The answers on their way to the client that replace the results of p.
Answers(p) == {f \in Fetch : fetch[f].answer # None /\ Providers[fetch[f].at] = p}

\* Whether all of them bring the result r.
Brought(r) == \A f \in Answers(ProviderOf[r]) : r \in ToSet(fetch[f].answer)

----------------------------------------------------------------------------
\* getProviderCacheResults.

Began(f, button) ==
  [fetch EXCEPT ![f] = [at |-> 1, page |-> 1, total |-> 0, answer |-> None, button |-> button]]

\* A free fetch, if the bound allows one more; without providers it has nothing to do.
Begins(button) ==
  IF fetches < MaxFetches
    THEN /\ fetches' = fetches + 1
         /\ fetch' = IF known THEN Began(fetches + 1, button) ELSE fetch
    ELSE UNCHANGED <<fetches, fetch>>

\* The table answers for one episode with the results of just that episode.
Single == OfEpisode \ Packs
Returned(r) == r \in table /\ (kind = "episode" => r \in Single)
TableOf(p) ==
  Chosen(Results, {k \in DOMAIN Results : ProviderOf[Results[k]] = p /\ Returned(Results[k])})

\* Defect: the pages are counted from zero.
PageFromZero(list, page) ==
  LET last == IF (page + 1) * PageSize < Len(list) THEN (page + 1) * PageSize ELSE Len(list)
  IN  SubSeq(list, page * PageSize + 1, last)

PageOf(list, page) ==
  LET first == (page - 1) * PageSize
      last == IF first + PageSize < Len(list) THEN first + PageSize ELSE Len(list)
  IN  SubSeq(list, first + 1, last)

Reading(f) == fetch[f].at # 0 /\ fetch[f].answer = None

\* The server answers a page; a table without results answers 404 (PageFails).
\* The page owes what the table has now, and no more what is not written yet.
PageRead(f) ==
  LET p == Providers[fetch[f].at]
  IN  /\ Reading(f)
      /\ TableOf(p) # <<>>
      /\ fetch' = [fetch EXCEPT ![f].answer = PageOf(TableOf(p), fetch[f].page)]
      /\ unsure' = (unsure \ {r \in Of(p) \cap table : Brought(r)}) \cup (Of(p) \cap (found \ table))
      /\ UNCHANGED <<kind, search, searches, socket, store, mount, put, fetches, histories,
                     queueitems, spinner, broken>>

LastProvider(f) == fetch[f].at = Len(Providers)

\* What follows the last page of a provider: the next one, or the end.
NextProvider(f, total) ==
  IF ~LastProvider(f)
    THEN /\ fetch' = [fetch EXCEPT ![f].at = @ + 1, ![f].page = 1,
                                   ![f].total = total, ![f].answer = None]
         /\ UNCHANGED <<mount, timers>>
    ELSE /\ fetch' = [fetch EXCEPT ![f] = Idle]
         /\ timers' = IF fetch[f].button THEN timers + 1 ELSE timers
         /\ mount' = IF f # 1 THEN mount ELSE IF total = 0 THEN "empty" ELSE "done"

PageArrives(f) ==
  LET p == Providers[fetch[f].at]
      answer == fetch[f].answer
      total == fetch[f].total + Len(answer)
  IN  /\ fetch[f].at # 0 /\ answer # None
      /\ cache' = [cache EXCEPT ![p] = AddProviderCache(@, answer)]
      /\ unsure' = unsure \ {r \in ToSet(answer) : Brought(r)}
      /\ IF Len(answer) < PageSize
           THEN NextProvider(f, total)
           ELSE /\ fetch' = [fetch EXCEPT ![f].page = @ + 1, ![f].total = total, ![f].answer = None]
                /\ UNCHANGED <<mount, timers>>
      /\ UNCHANGED <<kind, search, searches, socket, known, put, fetches, histories, queueitems,
                     loading, broken>>

PageFails(f) ==
  /\ Reading(f)
  /\ NextProvider(f, fetch[f].total)
  /\ UNCHANGED <<kind, search, searches, socket, store, put, fetches, histories, queueitems,
                 loading, unsure, broken>>

----------------------------------------------------------------------------
\* The page.

\* mounted: getProviders, whose answer replaces the providers and what they hold.
ProvidersArrive ==
  /\ mount = "providers"
  /\ mount' = "cache"
  /\ known' = TRUE
  /\ cache' = [p \in Provider |-> <<>>]
  /\ unsure' = unsure \cup Stored
  /\ fetch' = Began(1, FALSE)
  /\ UNCHANGED <<kind, search, searches, socket, put, fetches, histories, queueitems, spinner,
                 broken>>

\* mounted ends there: it neither reads the tables nor forces a search.
ProvidersFail ==
  /\ mount = "providers"
  /\ mount' = "done"
  /\ UNCHANGED <<kind, search, searches, socket, store, put, fetching, queueitems, spinner,
                 unsure, broken>>

\* forceSearch, by the button or when mounted found nothing.
ForceSearch ==
  /\ ~put /\ searches < MaxSearches
  /\ searches' = searches + 1
  /\ put' = TRUE
  /\ loading' = TRUE
  /\ UNCHANGED <<kind, search, socket, store, fetching, queueitems, timers, unsure, broken>>

ForcedByUser == ForceSearch /\ UNCHANGED mount
ForcedByMounted == mount = "empty" /\ mount' = "done" /\ ForceSearch

\* getProviderResults, the button that reads the tables again.
Refresh ==
  /\ fetches < MaxFetches
  /\ loading' = TRUE
  /\ Begins(TRUE)
  /\ timers' = IF known THEN timers ELSE timers + 1
  /\ UNCHANGED <<kind, search, searches, socket, store, mount, put, histories, queueitems,
                 unsure, broken>>

TimerEnds ==
  /\ timers > 0
  /\ timers' = timers - 1
  /\ loading' = FALSE
  /\ UNCHANGED <<kind, search, searches, socket, store, mount, put, fetching, queueitems,
                 unsure, broken>>

\* Defect: the end of the search does not start the timer.
OnRunningItems ==
  /\ IF item' = "running" THEN loading' = TRUE ELSE UNCHANGED loading
  /\ histories' = IF snatched' THEN histories + 1 ELSE histories
  /\ UNCHANGED timers

\* The watcher of the queue items, which any of them calls.  Those of a season
\* search have episodes, and the page has none to find them by.
OnQueueItems ==
  /\ IF item' = "running" THEN loading' = TRUE ELSE UNCHANGED loading
  /\ IF item' = "finished" THEN timers' = timers + 1 ELSE UNCHANGED timers
  /\ histories' = IF snatched' THEN histories + 1 ELSE histories

\* The history of the episode is there, and the tables are read again.
HistoryArrives ==
  /\ histories > 0
  /\ histories' = histories - 1
  /\ Begins(FALSE)
  /\ UNCHANGED <<kind, search, searches, socket, store, mount, put, queueitems, spinner,
                 unsure, broken>>

\* getShowEpisodeHistory never settles when the request fails.
HistoryFails ==
  /\ histories > 0
  /\ histories' = histories - 1
  /\ UNCHANGED <<kind, search, searches, socket, store, mount, put, fetch, fetches, queueitems,
                 spinner, unsure, broken>>

\* updateQueueItem, for the search of this page.
SearchMessage(status) ==
  IF open
    THEN /\ item' = IF kind = "episode" THEN status ELSE item
         /\ UNCHANGED <<snatched, others>>
         /\ OnQueueItems
         /\ broken' = (broken \/ kind = "season")
    ELSE /\ broken' = TRUE
         /\ UNCHANGED <<queueitems, spinner, histories>>

----------------------------------------------------------------------------
\* The server.

PutArrives ==
  /\ put
  /\ put' = FALSE
  /\ waiting' = TRUE
  /\ UNCHANGED <<kind, table, found, running, left, searches, socket, store, mount, fetching,
                 queueitems, spinner, unsure, broken>>

PutFails ==
  /\ put
  /\ put' = FALSE
  /\ broken' = TRUE
  /\ UNCHANGED <<kind, search, searches, socket, store, mount, fetching, queueitems,
                 spinner, unsure>>

\* ManualSearchQueueItem.run.
SearchStarts ==
  /\ waiting /\ ~running
  /\ waiting' = FALSE /\ running' = TRUE /\ left' = Result
  /\ SearchMessage("running")
  /\ UNCHANGED <<kind, table, found, searches, socket, store, mount, put, fetch, fetches, unsure>>

\* add_result_to_cache: the result is sent, and kept to be written.  What the
\* client gets of a provider that its store does not have is dropped.
SearchFinds(r) ==
  LET p == ProviderOf[r]
  IN  /\ running /\ r \in left
      /\ left' = left \ {r}
      /\ found' = found \cup {r}
      /\ IF open /\ known
           THEN /\ cache' = [cache EXCEPT ![p] = AddSearchResult(@, r)]
                /\ unsure' = IF Brought(r) THEN unsure \ {r} ELSE unsure \cup {r}
           ELSE /\ unsure' = unsure \cup ({r} \ table)
                /\ UNCHANGED cache
      /\ UNCHANGED <<kind, table, waiting, running, searches, socket, known, mount, put, fetching,
                     queueitems, spinner, broken>>

\* db.mass_action at the end of a provider.
SearchWrites(p) ==
  /\ running /\ found \cap Of(p) # {}
  /\ table' = table \cup (found \cap Of(p))
  /\ found' = found \ Of(p)
  /\ UNCHANGED <<kind, waiting, running, left, searches, socket, store, mount, put, fetching,
                 queueitems, spinner, unsure, broken>>

SearchEnds ==
  /\ running /\ found = {}
  /\ running' = FALSE
  /\ SearchMessage("finished")
  /\ UNCHANGED <<kind, table, found, waiting, left, searches, socket, store, mount, put, fetch,
                 fetches, unsure>>

\* A message about another item of the queue; with none of this page the watcher
\* finds nothing.
OtherMessage ==
  /\ open /\ others < MaxOthers
  /\ item # None \/ snatched \/ snatched'
  /\ others' = others + 1
  /\ UNCHANGED item
  /\ OnQueueItems
  /\ UNCHANGED <<kind, search, searches, socket, store, mount, put, fetch, fetches, unsure, broken>>

\* It may be the snatch of a result that the user picked, as it begins and as it ends.
SnatchMessage ==
  /\ kind = "episode" /\ Shown # {}
  /\ snatched' \in BOOLEAN
  /\ OtherMessage

ForeignMessage == UNCHANGED snatched /\ OtherMessage

ConnectionLost ==
  /\ open /\ gaps < MaxGaps
  /\ open' = FALSE /\ gaps' = gaps + 1
  /\ UNCHANGED <<kind, search, searches, store, mount, put, fetching, queueitems,
                 spinner, unsure, broken>>

Reconnected ==
  /\ ~open
  /\ open' = TRUE
  /\ UNCHANGED <<kind, search, searches, gaps, store, mount, put, fetching, queueitems,
                 spinner, unsure, broken>>

----------------------------------------------------------------------------
Init ==
  /\ kind \in Kinds
  /\ table \in Tables /\ found = {}
  /\ waiting = FALSE /\ running = FALSE /\ left = {} /\ searches = 0
  /\ open = TRUE /\ gaps = 0
  /\ known \in BOOLEAN  \* another page may have asked for them
  /\ cache = [p \in Provider |-> <<>>]
  /\ mount = "providers" /\ put = FALSE
  /\ fetch = [f \in Fetch |-> Idle] /\ fetches = 1 /\ histories = 0
  /\ item = None /\ snatched = FALSE /\ others = 0
  /\ loading = FALSE /\ timers = 0
  /\ unsure = table /\ broken = FALSE

Mounted == ProvidersArrive \/ ProvidersFail
Fetching == \E f \in Fetch : PageRead(f) \/ PageArrives(f) \/ PageFails(f)
History == HistoryArrives \/ HistoryFails
Queue == PutArrives \/ PutFails \/ SearchStarts \/ SearchEnds
Finding == \E r \in Result : SearchFinds(r)
Writing == \E p \in Provider : SearchWrites(p)
User == ForcedByUser \/ ForcedByMounted \/ Refresh
Others == SnatchMessage \/ ForeignMessage
Connection == ConnectionLost \/ Reconnected

Next ==
  \/ Mounted \/ Fetching \/ History \/ Queue \/ Finding \/ Writing
  \/ User \/ Others \/ TimerEnds \/ Connection
Spec == Init /\ [][Next]_vars
\* The server answers, the search gets on, the timers run out.
Progress == TimerEnds \/ Queue \/ Mounted \/ Writing \/ Fetching
FairSpec == Spec /\ WF_vars(Progress)

----------------------------------------------------------------------------
\* Type invariant.
TypeOK ==
  /\ kind \in Kinds
  /\ table \cup found \cup left \cup unsure \subseteq Result
  /\ {waiting, running, open, known, put, snatched, loading, broken} \subseteq BOOLEAN
  /\ searches \in 0 .. MaxSearches /\ gaps \in 0 .. MaxGaps /\ fetches \in Fetch
  /\ cache \in [Provider -> Seq(Result)]
  /\ mount \in {"providers", "cache", "empty", "done"}
  /\ \A f \in Fetch : /\ fetch[f].at \in 0 .. Len(Providers)
                      /\ fetch[f].answer = None \/ fetch[f].answer \in Seq(Result)
  /\ item \in {None, "running", "finished"}
  /\ others \in 0 .. MaxOthers /\ {histories, timers} \subseteq Nat

\* Whichever way a result comes, and however often, it is one row of the page.
ShownOnce ==
  \A p \in Provider : IsInjective(cache[p]) /\ ToSet(cache[p]) \subseteq Of(p)

\* When no answer is on its way, the page shows every result of the searches
\* that is for it.  It need not show those that the table has and no answer
\* since, those that were sent without a connection or before the store had the
\* providers, dropped by an answer that was read before they were written, packs
\* on the page of an episode, or those of a provider with a page full of results.
ResultsShown ==
  (\A f \in Fetch : fetch[f].answer = None)
  => \A r \in (table \ unsure) \cap Asked :
       \/ r \in Shown
       \/ kind = "episode" /\ r \in Packs
       \/ Len(TableOf(ProviderOf[r])) >= PageSize

\* A search whose end is told to the page does not leave it loading.
LoadingEnds == loading ~> (~loading \/ broken)
=============================================================================
