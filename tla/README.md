# TLA+ models of Medusa

Medusa watches series: it searches providers for episodes, snatches releases (sends
them to a torrent or nzb client), follows their download, post-processes what was
downloaded into the library, and searches again when a download failed. All of that is
done by threads of one process that share queues, objects in memory and sqlite tables.
Its web client, a Vue application, keeps a copy of what the server has: it fetches lists
page by page and follows the messages that the server pushes over a websocket.

This directory holds TLA+ modules of both, TLC configurations that check them on
small instances, and proofs that TLAPS checks for instances of any size.
`PROJECT.json` lists the components, the runs, the lines that each definition stands
for, the hazards of the code and the properties that cover them.

    tlc -workers 2 -config GenericQueue.cfg MCGenericQueue.tla     # check a model
    tlapm GenericQueueProofs.tla                                    # check the proofs

## 1. The system

| component | state it keeps | operations | modelled in |
|---|---|---|---|
| Job queues, `queues/generic_queue.py` | list of items, current item, history, minimum priority, each item's thread | `add_item`, `run`, `pause`, `pause_backlog`, `unpause`, item `run`/`finish` | GenericQueue, JobQueue |
| Post-processing job, `process_tv.py` | flags of `ProcessResult`, files of the download, status in the history | `run`, `process`, `process_files`, `process_media`, `process_failed`, `unrar`, `delete_files`, `update_history_processed`, the scheduled `PostProcessorRunner` | PostProcess, DownloadJob |
| Download handler, `schedulers/download_handler.py` | `history.client_status`, the rows in hand | `run` and its phases for torrents and nzbs | DownloadHandler |
| Search and snatch queues, `search/queue.py` | three queues, the items of each | daily, backlog, manual, failed, proper searches; snatches; `add_item` of each queue | GenericQueue, DownloadHandler, SearchSnatch |
| Search core, `search/core.py` | status of the episodes, in memory and in `tv_episodes` | `search_providers`, `filter_results`, `combine_results`, `snatch_result` | SearchSnatch |
| Snatch records, `failed_history.py` | `failed.db`: tables `history` and `failed` | `log_snatch`, `log_success`, `log_failed`, `find_release`, `mark_failed`, `revert_episode`, `has_failed` | FailedHistory, SearchSnatch |
| Failed download processor | none | `process` | SearchSnatch |
| Post-processor of one video | status of the episode, files | `process` | its results in PostProcess, its status writes in SearchSnatch |
| Series and episodes, `tv/` | all data of a show | status writes, `want_episode` | the status, in SearchSnatch |
| Client: list of shows, `store/modules/shows.js`, `store/index.js`, `home.vue`, `app.js` | `state.shows`, local storage, the fetch in progress | mutations of the list, `getShows`, `getShow`, `getEpisodes`, the websocket handler | ShowStore |
| Client: manual search, `provider.js`, `queue.js`, `show-results.vue` | results per provider, queue items, `loading` | `mounted`, fetches, `forceSearch`, messages, timers | ManualSearch |
| Client: episodes of a show, `display-show.vue` | `show.seasons`, the page of the table | `neededSeasons`, `loadEpisodes`, `initializeEpisodes`, page changes | ShowEpisodes |
| Client: root directories, `root-dirs.vue` | the list, its default, a dialog | add, edit, remove, set default, save, take what is pushed | RootDirs |
| Client: recommended shows, `recommended.js`, `recommended.vue` | list, next page of each source | `mounted`, `getMore`, updates of a source | Recommended |
| Web server and API | the library, the tables | pages, single shows, PATCH, messages | what the client sees, in the modules above |
| Show queue, `queues/show_queue.py` | `app.showList`, the running item | additions, changes, replacements and removals of shows, and what is pushed about them | ShowStore; the queue itself is not modelled |
| Update queues, schedulers, quality rules | | | not modelled (section 8) |
| Indexers, providers, name parser, databases, subtitles, metadata, notifiers, updater, start-up; other pages of the client, bundles, vendored scripts | | | not modelled (section 8) |

How they interact. A `Scheduler` thread calls `run()` of each queue and of the download
handler every few seconds. `SearchQueue` and `ForcedSearchQueue` run searches, whose
results become `SnatchQueueItem`s of the snatch queue. A snatch sends the release to a
client, logs it in `failed.db` and in the history, and sets the status of its episodes.
The download handler polls the clients, writes their answers to the history, and adds a
`PostProcessQueueItem` for what is finished. That job imports the videos, writes the
final status to the history, and starts a `FailedQueueItem` when the download failed:
it marks the episodes as failed, records the release, reverts the status, and searches
again.

The client reads a list when a page needs it (`GET` of pages with a limit) and learns of
later changes by messages: a show that was updated or is being removed, a result that a
search found, the state of a queue item, a configuration that was saved. Not every change
has its message: updates and refreshes of a show tell their queue item only. A message goes to
the clients that are connected at that moment; it is never repeated, and nothing is
fetched again after a reconnection. Edits are `PATCH`es of whole values, which the server
pushes to all clients.

What is hard about it:

- queues are read without the lock by any thread, while `run()` sorts and pops;
- the tests for duplicates are not one step with the insertion, and look at the queue
  but not at the running item;
- what a job checks is not what it processes: the check looks at the whole save path,
  with other downloads in it, and stops at the first thing to process; the walk goes over
  the resource;
- the download handler and the jobs write the same column; rows are selected once and
  written back after calls to a client;
- a job runs again and again until it has written a status, over files that arrive and
  are deleted meanwhile;
- the status of an episode is written in memory under a lock, and in the database later,
  by SQL built before or after the slow part;
- failed handling works in steps on tables that other threads change;
- the queues are lost in a restart, the tables are not; clients do not answer, or forget;
  an exception ends a job, or all phases of a client;
- pages are read at different times of a list that changes, and the answers come in any
  order, between messages about the same shows;
- a result of a search comes by message before it is in the table, and by a page of the
  table that replaces what is there; the end of loading hangs on one message;
- the number of pages a table needs is computed from seasons, but shown from rows, and
  the user sets how many rows a page has;
- two clients edit one list, and a dialog works on the list as it was when it was opened.

What makes the components correct:

- queues: one job at a time, each accepted job once, by priority and then age, none
  waits for ever;
- post-processing: a postponed download is taken up again, a completed one was seen
  completely, nothing that is needed is deleted, every download settles;
- download handler: a finished download is queued, once, and settles; seed action only
  after the import; a removed row stays removed;
- searching and snatching: no episode is left snatched with nothing on its way, failures
  reach their episodes and are not charged to imports, rejected releases stay rejected;
- client: when nothing is on its way, the list of shows is the library as told; a result is one
  row, and every result has its row; the pages of a table bring all episodes; root
  directories are as the users made them; no recommended show is passed over; loading ends.

## 2. The modules

**JobQueue** is the abstract specification of a queue: jobs are accepted, started, ended;
at most one is active; the next is the oldest of the highest priority.

**GenericQueue** is `generic_queue.py`. `add_item` of the subclasses is two steps, `Offer`
(the look for an equal item) and `AddItem` (the append under the lock). `run()` holds the
lock but other threads see inside it, so it is `RunBegin` (reap the finished item, test
the priority), `RunSort`, `RunPop`, `RunLaunch`. A thread goes `WorkBegin`, `WorkFinish`
(the item's `finish()`), `WorkExit`, or leaves without `finish()`. `Pause`,
`PauseBacklog` and `Unpause` set the minimum priority. The list that Python empties while
sorting is seen as empty by `Offer`. `Shadow` gives, for each item, the equal ones.

**PostProcess** is one `PostProcessQueueItem` that is run until its history row has a
status, or a manual run, or a run of `PostProcessorRunner` (`Scheduled`). What a job is for
is its `Kind`: a resource that is a folder of the save path, the save path itself ("same"),
one file of it, or no resource ("all"), where each subfolder is a path of its own.
`should_process` and `_get_files` are two walks, as in the code: `Looks`, `Bad` and
`HasMedia` say which folders the check of a path may come upon before it stops at the
first bad name or the first thing to process, in any order of the listings (for a resource
that is the whole save path, the folders of other downloads too); `Folders` says what is
then processed (the tree of the resource, or the top folder only when the path is the
directory). Then come passes of `process_media` over the videos of a folder, with the flags
of `ProcessResult` (`result`, `failed`, `succeeded`, `postpone_processing`, `postpone_any`,
`processed_items`) assigned where the code assigns them. `PostProcessor.process` is one of
four results. `Start` may find no directory, which leaves `process` at once with the result
it began with (`process_tv.py:391`); `Abandon` is the catch-all of `run` (`:203`), at any
step. Beside the job the world moves: syncing ends, unpacking ends, subtitles arrive.
`outcome`, `held`, `blamed` and `abandoned` are history variables for the properties.

**DownloadJob** is the abstract specification of such a job, what the download handler
relies on: a run that comes to its end leaves the history alone exactly when it postponed
something (the mapping takes that from `held` and `outcome`, not from the flags), and
otherwise records once how the download ended, as failed if the client said so. A run that
an exception ends records nothing (`Abandon`).

**DownloadHandler** is `run()` with its phases in the order of the code (`Plan`). A phase
selects its rows (`Begin`, `Select`), polls a client about one row (`Poll`), writes it
(`Save`, `UpdateStatus`, `CheckPostprocess`, `SeedAction...`). A status is a set of
flags, the code's bit set. A download has the statuses of its rows: a release that is
snatched again (`Snatched`) gets a new row, and an UPDATE writes all of them. `Abort` is
any exception, at any moment, which leaves all phases of the client, and `SeedActionRaises`
the `NotImplementedError` of a client without the seed action. What keeps two jobs apart is
their `Place`, the pair of path and resource that the client reports, which may change
between two reports. `add_item` is two steps, `CheckPostprocess` (`is_in_queue` and
`is_running`, without the lock) and `AddItem` (the append, with it); the queue sorts, pops
and starts in three (`RunBegin`, `RunPop`, `RunLaunch`). A check that falls between two of
them does not see a job the queue holds: `missed` is the history variable that notes its
place. Of a job the module has the two ends that DownloadJob allows, `JobWrites`
(`Settle`) and `JobLeavesStatus` (`Leave`, or an exception).

**FailedHistory** has the operations on the two tables of `failed.db` as operators, each
from its SQL: what is deleted by name, by name and size and provider, by date.

**SearchSnatch** composes them: the workers of the two search queues, the snatch queue and
its item, the post-processing and failed handling, at the steps where they touch what
they share. `status` is the attribute in memory, `stored` the database. A snatch is
`SnatchSend`, `SnatchLog`, `SnatchMark` (memory, SQL built), `SnatchSave` (SQL run). A
retry is, for each episode, `RetryMark`, `RetryFind`, `RetryLog`, `RetryRevert`. An import
sets the status and calls `log_success` (`ImportVideo`) before it moves the file
(`ImportMoved`, `ImportMoveFails`). `blamed` and `logged` are history variables.

**ShowStore** is the list of shows against the library of the server. `getShows` asks for
the first page, then for the others at once (`PageRead` at the server, `PageArrives`,
`PageFails`), and commits the whole (`ShowsCommitted`). Messages go through a channel that a
lost connection empties. `HomeOpened` takes the list from the local storage.

The server changes its library as the show queue does, one item at a time (`job`). An
addition puts the show into the library (`ShowAppended`) and tells it later
(`ShowAnnounced`); a removal is told first (`RemovalAnnounced`) and done later
(`ShowDeleted`); a change of the indexer deletes first (`ShowReplaced`) and tells
afterwards (`ReplacementAnnounced`); an exception leaves the item in between
(`ItemFails`). Edits of the settings are pushed with the change (`ShowUpdated`), while
updates and refreshes push no show (`ShowChanged`). So the client cannot have the library
itself. What it can have is what was told: `word` says for each show whether the last
thing told about it still holds, and `told` which version it had. Each action that makes
the client miss a message, or mix up two shows of one number, adds the show to `missed` or
`mixed`, history variables that `InSync` excuses; `unsaved` says what changed since the
storage was written. The storage may start with any list, also one that an earlier session
muddled: its shows start `mixed`.

**ManualSearch** is the page of a manual search, for an episode or a season (`kind`), with
the provider tables and the search at the server. A search finds a result (message), and
writes those of a provider later. `mounted` waits for providers, then for the cache, then
may force a search; each fetch goes provider by provider, page by page. Without the
providers in the store (`known`) a message has no place and is dropped, and a fetch has
nothing to ask. The table answers for an episode with the results of just that episode
(`Returned`), and the page shows, of what is stored, the results of its episode or the
packs (`Asked`, `Shown`). The watcher of the queue items is called by every message of the
queue; after a snatch it waits for the history of the episode and then fetches again
(`SnatchMessage`, `HistoryArrives`). `unsure` are the results the page need not show: those
of which an answer that is on its way, read before they were written, will take the row
away again, or that were sent before the store had a place for them. `broken` is set where
the end of a search is not told.

**ShowEpisodes** is the table of one show. `NeededSeasons` is the code's computation of the
seasons a page needs; the user opens a page only if the table has it, that is, if the rows
loaded so far fill it. `PerPageChanged` sets the rows per page, which goes back to the first
page and loads nothing; `visited` are the pages opened since. `AddEpisode` is one episode of
`ADD_SHOW_EPISODE`, `WithEpisodes` its loop. `early` and `failed` are history variables.

**RootDirs** is `root-dirs.vue` in two browsers, with saves and pushes on their way. The
history variables hold what the users meant: `wanted`, `gone`, `chosen`, `unsaved`; and when
the list owes them nothing: `crossed` (edits overlapped), `defaultless` (the default was
removed or edited away, or the server started with a list that a save would write
differently).

**Recommended** is the paging of the recommended shows: a page is counted before it
arrives, and an update starts its source again. `skipped` and `shifted` are history
variables.

**WebClient** puts the five parts of the client side by side. They share no state, so a
step of the client is a step of one of them that leaves the others alone, and the
parameters that they call by the same name get names of their own. **MCWebClient** chooses
one part at the start (`part`), which runs while the others stay at a fixed initial state:
one run checks the states of all parts one after the other instead of their product.

**Subsequences** has the one operator that filters, sorted lists and pages of the client's
modules are made of, `Chosen(list, places)`: the elements at some places, in their order. It
and the loops of the code (`Sums`, `PagesCount`, `WithEpisodes`) are recursive functions,
which proofs can expand.

The definitions marked `Defect:` are faulty variants of the definition that follows them.
No specification uses them; they record which bug each property catches (`mutants` in
`PROJECT.json`).

## 3. What is done and what is left

The order was that of the importance for the user, losing or repeating work first: the
queue, its abstract specification and the refinement; the post-processing job, in the same
way; the download handler; snatch records, searching and snatching; then the web client,
whose state nobody but its store looks after. Proofs followed the models: every safety
property that a run checks is proved, of the server and of the client.

Left, in the order in which they would add most:

1. User edits of the status (`mass_update_episode_status`, whose SQL is built under the
   lock and run later) and the loop in which a search waits for its snatch, in SearchSnatch.
2. ShowQueue: its guards on the current item and the removal of queued items, on top of
   GenericQueue (ShowStore has what its items do to the library and tell of it);
   Scheduler: `forceRun` against a run that ends.
3. `Quality.should_search`, `should_replace`, `is_higher_quality` and `combine_results` as
   operators against reference definitions.

## 4. The runs

| run | checks | shows |
|---|---|---|
| GenericQueue | six invariants, `ImplementsJobQueue` (which has the order of the starts), two liveness properties | the queue keeps its promise with two adders and pauses |
| GenericQueueShadow | `NoShadowedItemQueued` | violated: two threads queue equal items at once |
| PostProcess | postponing, completeness, failed handling, deletion, `ImplementsDownloadJob`, settling | the job over all kinds of resource and run, beside another download in its save path |
| PostProcessLost | `OnlyUnneededIsDeleted` | violated: a moving job deletes an archive that is needed again |
| PostProcessUnseen | `OnlyProcessedCompletes` | violated: a download whose directory is not found is recorded as completed |
| DownloadHandler | `JobsAreFinished`, `NoDuplicateJobs`, `SeedActionOnlyAfterImport`, `RemovedIsFinal` | rows in hand that get stale, checks beside a running queue, exceptions and second snatches do no harm to these |
| DownloadHandlerLive | `FinishedIsSettled`, `GoneIsRemoved` | the handler gets there through postponing, restart, silent clients, seed actions that raise |
| DownloadHandlerReserved | `PostprocessedIsReserved` | violated: a stale row overwrites the job's status, the download is processed twice |
| SearchSnatch | `ImportedIsForgotten`, `NoOrphan`, `ImportedIsNotWanted`, `LoggedIsRejected`, `FailureIsHandled` | what the searching, snatching, importing and retrying threads leave behind agrees |
| SearchSnatchRevert | `RevertRestores` | violated: a failed episode goes to WANTED and not to its earlier status |
| SearchSnatchBlame | `OnlyFailedIsRecorded` | violated: a release that still loads is recorded as the failed one |
| WebClient | `InSync`, `DetailsKept`, `LibraryArrives`; `ShownOnce`, `ResultsShown`, `LoadingEnds`; `PagesBringEverything`; `ListAsMade`; `NothingSkipped` | the client has what the server told, but for the cases its history variables name |

The violated properties are statements of the repository (comments, docstrings, log
messages) that the code does not meet; `findings` in `PROJECT.json` quotes each of them.

The type invariant of each component is checked too, in the run named after it (that of
the client's parts as `AllTypeOK`).

What the models also contain, without a run of its own:

- a release that two providers have is recorded as failed with provider `''`, which no
  later search matches (`LoggedIsRejected` is stated for rows that agree); after a retry
  or an import that overlaps a snatch of the same episode, `status` and `stored` can
  differ, or the episode stays FAILED; a result found before its failure was logged can be
  snatched again;
- a download of which a video failed is recorded as completed when the flags of the last
  folder say so (`process_tv.py:126`), and `imported` of DownloadHandler means only that a
  job recorded so; the first `_FAILED_` folder of a path hides the folders after it
  (`process_tv.py:515`), and one of another download in the save path makes this job fail:
  `FailedHandlingJustified` allows such names;
- an exception after failed handling (`process_tv.py:203`) leaves the history alone, and the
  next run blames the same download again;
- a check that falls into a step of the queue queues a place a second time (`missed`), and
  so `NoDuplicateJobs` says of all other places that they are not;
- the excuses of the client are cases a user can see. `missed`: a message lost in a gap of
  the connection, or overtaken by a fetch, by the answer for one show or by the end of a
  removal; what was read of a show while it was being removed; pages that failed. `mixed`:
  two shows with one number at different indexers, which the store takes for one another;
  pages that shifted; a home page opened after the list had changed, which takes the old one
  from the local storage. A show whose addition or replacement ended half-way is one that
  nothing was told of (`word`). `unsure`: results that an answer, read before they were
  written, drops, and those of a time without providers in the store, which after a failed
  `getProviders` is for good. `broken`: a search of a season, whose end the page does not
  recognise, a failed `PUT`, a lost message. `early`: a message about an episode before the
  page is opened, after which neither its first page nor the specials are loaded
  (`display-show.vue:971-974`). A table with one page, which is open, loads nothing when
  more rows are put on a page: it has no page to change to, and `PagesBringEverything`
  speaks of the pages that were opened since. Removing the default root directory picks it
  again and saves the list without its index (`root-dirs.vue:211`), and a dialog saves the
  list as it was when it was opened: `ListAsMade` is about lists that keep a default and
  edits that do not overlap. All of these are in `hazards` of `PROJECT.json`, with a note
  that says which property excuses them; none is claimed to be caught.

## 5. Bounds

- GenericQueue: four items (two equal backlog items, a daily, a manual of high priority),
  two adders, a history of two, two time stamps. Equal and different priorities, equal
  stamps, and a full history all occur. `CanPause` allows any sequence of pauses.
- PostProcess: a save path with a release in it, a subfolder of the release, and another
  download of which only the name matters; four videos, one in the save path, one in the
  subfolder and two that are packed in the release; every marking and syncing that a setup
  allows, broken archives and missing subtitles. The seven setups are jobs for a folder that
  link, copy and move, for the whole directory and for one file, a manual run over the
  directory and a scheduled one. Two videos in one folder and folders before and after one
  another are what the flags mix up; the names of the path, the release, its subfolder and the
  other download are what the two walks treat differently.
- DownloadHandler: the safety run has one torrent with two places, three reports, the seed
  action that removes, one second snatch, one restart, and up to three jobs when a check has
  missed one (`MaxJobs`; otherwise the length of the queue is not bounded). A second download
  would add states and no hazard, since downloads meet only in the queue, where what counts
  is the place. The live run has a torrent and an nzb with a place each, the reports that
  end (a sum of three flags, Failed, Aborted), a seed action that is done and one that
  raises, and one restart: a download that shares its place with another can wait behind it
  for ever, as nothing in the code is fair between them. DownloadHandlerReserved has all
  reports of a torrent, Paused and the sums of flags among them.
- SearchSnatch: two episodes that are wanted or there, a single release and a pack of a
  preferred quality, two snatches (`MaxSnatches`). Two snatches give a first one that
  fails or is imported while the second is at any step; the pack gives partial imports
  and retries of several episodes. The violations have a second provider for the single.
  CHECK_DEADLOCK is off: when the snatches are used up and nothing is wanted the system
  stops. PostProcess stops when the history row is settled.
- WebClient: three shows, two of them with one number at different indexers, of which one
  is in the library at the start, an old list in the storage, pages of one show (two
  additions make three pages, so pages shift and arrive in any order), two changes, each
  told at once, later, not at all or left half-way, one gap, one request for a single
  show. Three results of two providers, pages of two (a full and a short one), of which
  one is for the episode only, one for the season only and one for both; an episode whose
  table is filled and whose providers are known, a season with neither; one search, two
  fetches, one gap, one message about another item: a fetch before, during and after the
  search. Up to three seasons of one to five episodes with and without specials, two or
  three rows a page, changed at any time, at most four episodes an answer, two loads at a
  time, one message, one return to the page. Two clients, three directories, two edits.
  Two sources of up to four shows in pages of two (none, a short, a full, two full pages),
  one update, three clicks. CHECK_DEADLOCK is off: the client stops when users and server
  have used their bounds.

## 6. Fairness

- GenericQueue: weak fairness of `run()` and of a started thread. A scheduler calls
  `run()` in a loop, and threads are scheduled; that an item's `run` ends is an assumption
  (it calls clients and providers with timeouts). Strong fairness of an append: a thread
  that waits for the lock gets it, since `run()` never keeps it. Nobody has to add or to
  unpause, so `EveryItemRuns` assumes that the queue is in the end not paused.
- PostProcess: weak fairness of the job. The download handler queues it again as long as
  the row is unsettled. The world is not fair: `EveryDownloadSettles` assumes that
  syncing ends, subtitles arrive, and exceptions (`Abandon`) do not end run after run: a job
  that always raises is queued for ever by the code too.
- DownloadHandler: weak fairness of the handler, the queue, and the end of a job; strong
  fairness of a job that writes a status, i.e. a download is not postponed for ever, which
  is `EveryDownloadSettles` of PostProcess. Clients owe nothing: the properties assume a
  report that stays, and that failures (`Fails`: a client that does not answer about the
  row, an exception that leaves a phase which the property needs) do not go on for ever.
  They may begin again any number of times before that, and a phase that is not needed may
  always fail: the settling of a download needs the first two, the removal all four.
- SearchSnatch: weak fairness of each thread (snatch, import, retry, and each search
  worker submitting what it found). No search has to start, no download has to end.
- Web client: weak fairness of the requests of `getShows` (a request is answered or runs
  into its time limit, and a failure is an outcome), and of `Progress` of ManualSearch:
  answers, the search of the server, the timers of the browser. No user, no message and no
  connection is fair, and a search need not find anything.

## 7. What is proved

The assumptions are those named in the modules. `ItemAssumption`: any sets of items and
adders, priorities below `Paused`, any relation `Shadow`, any history length and number of
time stamps. `PostProcessAssumption`: any tree of folders, any videos and archives, and
any settings; the release is a subfolder of the directory, the resource that is a file
lies in it, and a job of the download handler is for a resource and is not scheduled;
"download", which stands for the client's word among the reasons of a failure, is no
video. `DownloadHandlerAssumption`: any downloads, clients, reports, places and seed
actions; `None` is no download and no job, `NotListed` no report.
`FailedHistoryAssumption` and `SearchSnatchAssumption`: any episodes and releases, each
for some episodes, and a release's name determines its episodes (the code finds them by
parsing the name). `ShowStoreAssumption`: any shows, each once in the order of the titles,
any numbers (also equal ones), any first library, and any list in the storage.
`SearchAssumption`: any results, each once and of one provider, at least one provider, any
table, any division of the results into those of the episode and packs.
`EpisodesAssumption`: any season counts in which a season comes once and the specials come
first, with one episode at least: the server counts with `GROUP BY season`
(`series.py:817`). `DirsAssumption`: any paths and clients, any list that the server may
hold. `RecommendedAssumption`: any sources. Of all: a page has at least one row, bounds
are numbers.

`GenericQueueProofs` proves the type invariant and the safety properties of GenericQueue:

- `TypeCorrect`, `OneJob`, `NothingLost` rest on the inductive invariant `PlaceInv`.
  None of them is inductive alone: that `RunLaunch` starts an item once needs to know that
  the popped item is not in the queue and that `current` is None once `run()` got past
  reaping (`RunInv`), and that an append makes no duplicate needs that two adders never
  hold the same item (`OfferInv`).
- `ArrivalOrder` and `StartOrder` add `OrderInv`: no stamp is in the future, after the
  sort nothing comes before the head, and after the pop nothing comes before the popped
  item. An append needs the lock, so that it cannot come between the sort and the pop.
  `StartsInOrder` is no property of a run of its own, since `ImplementsJobQueue` has it.
  `SortFacts` says what a stable sort by `Before` yields; `AppendFacts` and `TailFacts` are
  the lemmas on sequences.
- `Reaped` and `History` have small invariants of their own on top of `PlaceInv`.
- `Implementation`, the refinement of JobQueue: the mapping of the stages of a thread to
  out, waiting, active, done takes the initial states to those of JobQueue, an append to
  `Accept`, a launch to `Start` (with `OrderInv` for the choice), the end of a thread to
  `End`, and everything else to a stutter.

`PostProcessProofs` rests on `PlaceInv`: the types, where the walk is (`WalkInv`), which
videos the passes over a folder have still to show (`PassInv`), and that no video is taken
twice in a run (`OnceInv`), so that an outcome is never overwritten. On top of it, for one
property each, what the flags still tell of the whole run, which later folders set and
reset:

- `PostponedKeeps`: `PostponedInv`, `postpone_any` remembers what `postpone_processing`
  forgets, and no status is written before the end of a run that postponed nothing;
- `Justified`: `BlameInv`, each flag that starts failed handling has its reason;
- `Unmarked`: `MarkInv`, the folders that are walked lie in no directory or subfolder of it
  that is marked. `PathFacts` is what makes it hold although the check stops early: the
  names of the first level are all looked at before any file is;
- `SawEverything`: `SeenInv`, what the run has not looked at it will look at, or cannot
  unpack, or something was postponed, or nothing was processed and the result is bad. It
  needs that the directory was found (the run PostProcessUnseen is the other case);
- `JobImplemented`, the refinement of DownloadJob: `FinalInv`, the converse of
  `PostponedInv` (`postpone_any` is set with a reason only, and whenever
  `postpone_processing` is) and that the client's word is not forgotten. `PostponedSteps`
  and `RunSteps` say that between `Start` and `Finish` the handler sees at most the first
  folder or video that is postponed, or that the run was abandoned;
- `NeededStays`: `ArchiveInv`, what was unpacked is packed still or gone with its archive,
  and the lemmas `FailedDeletes` and `VideoDeletes`, what the two clean-ups can reach.

`DownloadHandlerProofs`: the rows in hand were selected before others changed what they
were read from. `TypeInv` has the types with `HandInv`, what a row in hand can be.
`NoDuplicates` is inductive on top of it: `CheckFacts` says what a check that found no job
knows, or that its place is `missed`, and `QueueSteps` that between the check and the append
the worker adds no job, for the handler is one thread. `OnlyFinished` needs `EndedInv`:
whatever looks finished, in the history, in an answer, in a row in hand or in the job that
is being added, was reported as finished. `SeedAfterImport` needs the same of imported
(`ImportedInv`). `RemovedStays` needs that before the last phase the handler holds no row of
a download all of whose rows are removed (`RemovedInv`), also when a second snatch adds one.

`SearchSnatchProofs`: `PlaceInv` says that what each thread holds fits the tables and the
downloads (`SnatchInv`, `RetryInv`, `ImportInv`, `RowInv`). `Forgotten` adds
`ForgottenInv`: a download of which a video was imported has no rows, also while it is
still processed. `NoOrphans` adds `CoverInv`: an episode with a snatched status has a
download that did not fail, or a failure still to be handled, also in the steps of the
retry that reads the status to go back to. It is for this that a name must determine the
episodes. `NotWanted` adds `SavedInv`, by what an import that is not in the database yet
is excused. `CommonFacts`, `LogFailedFacts` and `FindFacts` are the lemmas on the tables;
`Rejected` needs only `PlaceInv` beside them.

`SubsequencesProofs` has lemmas only: what `Chosen` yields, for sequences of any length
(`ChosenFacts`, `ChosenOnce`, `ChosenGrows`), that a function by recursion over numbers
exists (`RecursionExists`), and induction without an operator parameter: a set that has 0
and with each number the next one is Nat, since the numbers it lacks would have a least
one (`Induction`, `UpToInduction`). The proofs about the client rest on it.

`ShowStoreProofs` looks at a list one show at a time: what it says of a show (`About`) and
that it says it in one entry with no details but its own (`Clean`). The lemmas tell what a
mutation of the store does to both. `InSync` alone says nothing before the end of all
traffic; the inductive invariant `IInv` says why each show will be as it was told (`Due`
and `Over`: the shows of which what was told still holds, whatever changed silently):

- `ListInv`: after the fetch, what the list has wrong a message on its way will put right,
  and `LastInv`: the last message about a show tells the truth, however many precede it;
- `FirstInv`, `PagesInv`, `ComingInv`, `NewInv` for the fetch: its pages are due, on their
  way or collected, none twice; a show is on one page, which is still to be read or has
  brought it; what was read of a show holds, or a message about it is on its way;
- `ReqInv`, the same for the answer about one show; `SavedInv`: the storage has what the
  list has, of the shows that did not change since, for the home page takes it from there;
- `CleanInv`: each show is in the list once, but for those that a number mixes up.

From it follow `ListInSync` and, step by step, `DetailsStay`. `TypeCorrect` needs less.

`ManualSearchProofs`: `Once` needs `CacheInv` and `FetchInv`, that every list of rows, in the
store and in the answers on their way, has rows of its provider once. `Complete` needs
`KnownInv`: a result that the page owes is in the store or in an answer, and every answer on
its way that will replace the rows of its provider brings it; and `FreshInv`, a fetch that
begins has no answer on its way. What is dropped for want of its provider is not owed, and
what the store has passes the filter of the page if the page asks for it.

`WebClientProofs`: what is proved of a part holds of the client, of which a step is a step
of that part or leaves it alone (`StoreAlone`, `SearchAlone`, `EpisodesAlone`, `DirsAlone`,
`RecommendedAlone`). So `ClientTyped`, `ShowsInSync`, `ResultsOnce` and `ResultsStay` follow
from the two modules above; the other three parts are proved here.

- `NoShowSkipped` needs `AwaitedInv`: up to the last page that was ever asked for, each show
  is in the list, in a request, or on the first page that `mounted()` will ask for.
  `MountInv` says that the button comes after the requests of `mounted()`. So an update that
  goes back to the first page, or a page that is counted before it arrives, loses none.
- `RootDirsAsMade`: a client edits its own copy and sends all of it, so what it saves is
  right only if the copy is. While no edits overlap, one client at a time has a dialog open
  or a save on its way (`OneInv`, `DialogInv`); the last list pushed to a client is the
  server's (`NewestInv`); so a client that waits for nothing has the server's list, or its
  own edits (`ClientsInv`), and the list that is saved last is what the users made of it
  (`ServerInv`). The lemmas on single lists say what `transformRaw`, `saveRootDirs` and the
  edits do to paths and marks.
- `EveryEpisodeComes`: `VisitedInv`, the seasons of an opened page are there or asked for,
  and `OpenedInv`, the first page and the specials are opened with the page. Take the first
  season, from the last one back, that lacks episodes. The seasons before it are rows of the
  table, and by `CountFacts` more rows than the pages before the one it begins on show; so
  the table has that page, the user opened it, and the season was asked for. This is where a
  page that is just full must not count as one that has more. Without a failed request
  every answer brings its season (`SeasonAddedFacts`). New rows per page leave the seasons
  as they are and make all pages unopened (`PerPageChangedStep`); the argument speaks of the
  rows per page in force at the end.

Only model-checked: all liveness properties (`EveryItemRuns`, `CurrentItemIsCleared`,
`EveryDownloadSettles`, `FinishedIsSettled`, `GoneIsRemoved`, `FailureIsHandled`,
`LibraryArrives`, `LoadingEnds`), since fairness and ENABLED are out of the prover's reach,
and the six violated properties, which no proof can have.

## 8. Not modelled, and assumed

- The content of messages: names, qualities beyond "preferred or not", sizes, words that
  filter, the ranking of results. Parsing is regular expressions on strings.
- Files of the library (`PostProcessor` replaces the old file before it moves the new one)
  and the crash of the program inside one step.
- The handlers of the web server beyond those the client's modules use: each calls an
  operation modelled here, or reads a table. The providers, indexers, notifiers,
  subtitles, metadata, updater: I/O without a protocol between threads.
- The bundles under `themes/` and the scripts in `vender.js` and `vendors.js`: built from
  the sources that are modelled, and third-party code. They are most of the lines of
  JavaScript, so the modelled share of all lines is small whatever is modelled.
- The other pages of the client (settings of notifiers and search, history, schedule,
  status, logs, adding shows): forms that are sent as they are, and tables. What a page
  shows and how is left out everywhere.
- ShowQueue as a queue, and the queues of updates: GenericQueues, whose items do I/O. What
  the items of ShowQueue do to the library and tell of it is in ShowStore. Schedulers are the
  fairness of `run()`. The quality rules are tables of decisions without state, which the
  tests of the repository enumerate.
- The walk of a job: names that `should_process` ignores (hidden folders, `@eaDir`), a manual
  run with `delete_on` that deletes whole folders, a path that is given as a file, and a
  listing of `os.walk` that is older than a folder's name. Deletions succeed or raise. A
  deleted folder keeps its name in the model, and has no videos.
- Of the post-processing queue: jobs that manual and web runs add for a place that the
  handler adds too, and a client that reports neither a path nor a resource, for which no
  job is queued.
- Hazards that no property covers, and which `PROJECT.json` leaves out. Of the
  job: a postponed run that ends without an update of the client status
  (`process_tv.py:279`), a folder that is being unpacked and makes its path be skipped
  (`:520`), a crash between import and history (`post_processor.py:1221`), the old file
  deleted before the move of the new one (`:1172`). Of the download handler: the seed
  action that is recorded whatever the client answered (`download_handler.py:331`), a
  torrent just sent and not yet listed (`:375`). Of the rest: a search that waits for a
  snatch that never succeeds (`search/queue.py:332`), SQL built under the lock and run
  later (`search/core.py:254`), of which SearchSnatch models the effect, `forceRun` lost
  at the end of a run (`scheduler.py:82`), the show queue changed while it is iterated
  over (`show_queue.py:264`).
- The seasons of a show are in the list of shows. ShowStore follows them as one thing
  (`details`), ShowEpisodes by episode; that the messages about the show leave them there,
  which ShowEpisodes takes for granted, is `DetailsKept` of ShowStore.
- The client's modules assume that the messages of one connection arrive in order, that the
  server handles a request in one step, and one page open at a time in a browser. A source of
  recommended shows only grows; that a show may come twice when pages shift is not looked at.
- SearchSnatch assumes that the dates of snatches differ (the code has a resolution of one
  second), that a snatch takes longer than its adder takes to look at it, that a download
  takes longer than the rest of `snatch_result`, and that a client that accepts a release
  again downloads it again. Of three or more packs, `combine_results` can let some
  overlap; the instances have one. Failed download handling is switched on. Proper
  searches, user edits of a status, `trim_history`, and an exception in a retry that has
  marked some of its episodes are left out. That the status is
  written to memory for all episodes of a snatch in one step is coarser than the code,
  which takes one lock after the other.
