------------------------------ MODULE ShowStore ------------------------------
(***************************************************************************)
(* The list of shows of the web client: store/modules/shows.js, with the   *)
(* websocket handler of store/index.js, the bootstrap of app.js and the    *)
(* home page, against the library of the server.                           *)
(*                                                                         *)
(* The client reads the library once, page by page, when it starts; after  *)
(* that it only follows the messages that the server pushes.  The server   *)
(* does not push every change: the updates, refreshes and renames of the   *)
(* show queue tell their queue item only, and an addition tells the show   *)
(* long after it is in the library, if at all.  A message goes to the      *)
(* clients that are connected at that moment and is never repeated.  The   *)
(* list is kept in the local storage of the browser, from which the home   *)
(* page takes it the first time it is opened.                              *)
(*                                                                         *)
(* An entry of the list is a show as the client has it: its slug, the      *)
(* version of its data, and the show whose details (seasons) it carries.   *)
(***************************************************************************)
EXTENDS Integers, Sequences, SequencesExt, FiniteSets, Subsequences

CONSTANTS
  Titles,       \* the slugs of all shows, in the order of their titles
  NumberOf,     \* slug -> the number of the show at its indexer
  Limit,        \* the shows of a page
  Libraries,    \* the libraries the server may start with
  Stores,       \* the lists an earlier session may have left in the storage
  Visited,      \* the shows whose page the user opens
  None,
  MaxChanges,   \* bound on the changes of the library
  MaxGaps,      \* bound on the losses of the connection
  MaxRequests   \* bound on the requests for one show

Slug == ToSet(Titles)
Events == {"updated", "removed"}
Job == [step : {"adding", "removing", "deleted"}, show : Slug]

Entry == [slug : Slug, ver : 0 .. MaxChanges, details : Slug \cup {None}]

ASSUME ShowStoreAssumption ==
  /\ Titles \in Seq(Slug) /\ Cardinality(Slug) = Len(Titles)
  /\ NumberOf \in [Slug -> Nat]
  /\ Limit \in Nat \ {0}
  /\ Libraries \subseteq SUBSET Slug
  /\ Stores \subseteq Seq(Entry) \cup {None}
  /\ Visited \subseteq Slug /\ None \notin Slug \cup Job
  /\ {MaxChanges, MaxGaps, MaxRequests} \subseteq Nat

VARIABLES
  library,    \* app.showList
  ver,        \* slug -> the version of its data
  job,        \* what the show queue, which runs one item at a time, is in the middle of
  changes,    \* the changes so far
  connected,  \* whether the websocket is open
  channel,    \* the messages on their way
  gaps,       \* the losses of the connection so far
  shows,      \* state.shows
  storage,    \* localStorage 'shows'
  home,       \* whether the home page was opened
  boot,       \* where getShows is
  due,        \* the pages asked for and not answered
  answers,    \* the answers on their way: page, data, total
  newShows,   \* what getShows has collected
  request,    \* the request for one show: what it asks, its show, its answer
  requests,   \* the requests for one show so far
  word,       \* slug -> what the server told that still holds: it is there, it is gone (history variable)
  told,       \* slug -> the version last told (history variable)
  unsaved,    \* shows that changed in the list since it was stored (history variable)
  missed,     \* shows about which the client missed something (history variable)
  mixed       \* shows that the client may have twice or mixed up (history variable)

server == <<library, ver, job, changes, word, told>>
socket == <<connected, channel, gaps>>
fetch == <<boot, due, answers, newShows>>
detail == <<request, requests>>
excuses == <<missed, mixed>>
vars == <<server, socket, shows, storage, home, fetch, detail, unsaved, excuses>>

Entries(slugs) ==
  [k \in DOMAIN slugs |-> [slug |-> slugs[k], ver |-> ver[slugs[k]], details |-> None]]

----------------------------------------------------------------------------
\* The mutations of the store.

\* ADD_SHOW looks a show up by its number, whatever its indexer.
PlaceOf(list, s) == SelectInSeq(list, LAMBDA e : NumberOf[e.slug] = NumberOf[s])

AddShow(list, show) ==
  LET i == PlaceOf(list, show.slug)
  IN  IF i = 0 THEN Append(list, show)
      ELSE [list EXCEPT ![i] =
              IF show.details = None THEN [show EXCEPT !.details = list[i].details] ELSE show]

\* Defect: the fetched show replaces the one in the store.
Replaced(list, show) == show

\* ADD_SHOWS takes the fetched list, with what the store has on the same slugs.
Merged(list, show) ==
  LET i == SelectInSeq(list, LAMBDA e : e.slug = show.slug)
  IN  IF i = 0 THEN show ELSE [show EXCEPT !.details = list[i].details]

AddShows(list, fetched) == [k \in DOMAIN fetched |-> Merged(list, fetched[k])]

RemoveShow(list, s) == Chosen(list, {k \in DOMAIN list : list[k].slug # s})

\* ADD_SHOW_EPISODE puts the seasons into the entry with that number, if any.
AddEpisodes(list, s) ==
  LET i == PlaceOf(list, s)
  IN  IF i = 0 THEN list ELSE [list EXCEPT ![i].details = s]

\* The shows that a list has twice, or with the details of another one.
Muddled(list) ==
  {list[k].slug : k \in {i \in DOMAIN list : \/ list[i].details \notin {None, list[i].slug}
                                            \/ \E j \in DOMAIN list \ {i} : list[j].slug = list[i].slug}}

\* The shows that an ADD_SHOW of s mixes up.
Confused(list, s) ==
  LET i == PlaceOf(list, s)
  IN  IF i = 0 \/ list[i].slug = s THEN {} ELSE {s, list[i].slug}

----------------------------------------------------------------------------
\* The server: the library changes and the clients are told.

Message(event, s, late) == [event |-> event, show |-> s, ver |-> ver'[s], late |-> late]

Push(event, s, late) ==
  IF connected
    THEN /\ channel' = Append(channel, Message(event, s, late))
         /\ UNCHANGED missed
    ELSE /\ missed' = missed \cup {s}
         /\ UNCHANGED channel

At(step, s) == [step |-> step, show |-> s]

\* The show of which the clients were told that it is gone, and which still is there.
Leaving(s) == job = At("removing", s)

\* What is told of a show that leaves comes too late: the removal was told before.
Announce(s) ==
  /\ Push("updated", s, Leaving(s))
  /\ word' = IF Leaving(s) THEN word ELSE [word EXCEPT ![s] = "there"]
  /\ told' = IF Leaving(s) THEN told ELSE [told EXCEPT ![s] = ver'[s]]

Withdraw(s) ==
  /\ Push("removed", s, FALSE)
  /\ word' = [word EXCEPT ![s] = "gone"]
  /\ UNCHANGED told

Silent == UNCHANGED <<channel, missed>>

Fetching == boot \in {"first", "pages"}

\* The pages shift under a fetch that has read some of them.
Shifts == IF boot = "pages" \/ answers # {} THEN Slug ELSE {}

Changed(s) ==
  /\ changes < MaxChanges
  /\ changes' = changes + 1
  /\ ver' = [ver EXCEPT ![s] = @ + 1]

Untouched == UNCHANGED <<connected, gaps, shows, storage, home, fetch, detail, unsaved>>

\* The pages of a fetch that has read some shift when the library changes.
Shifted == mixed' = mixed \cup (IF Fetching THEN Shifts ELSE {})

\* QueueItemAdd, and QueueItemChangeIndexer for the new show: the show is in the
\* library, and its episodes are loaded before the clients are told.
ShowAppended(s) ==
  /\ s \notin library /\ job = None
  /\ Changed(s)
  /\ job' = At("adding", s)
  /\ library' = library \cup {s}
  /\ word' = [word EXCEPT ![s] = "nothing"]
  /\ Shifted /\ Silent
  /\ UNCHANGED told
  /\ Untouched

\* showAdded, also after a SaveSeriesException, which queues the removal.
ShowAnnounced(s) ==
  /\ job = At("adding", s)
  /\ job' = None
  /\ UNCHANGED <<library, ver, changes, mixed>>
  /\ Announce(s)
  /\ Untouched

\* A change of the settings or the exceptions of a show, a snatch: showUpdated.
ShowUpdated(s) ==
  /\ s \in library
  /\ Changed(s)
  /\ Announce(s)
  /\ UNCHANGED <<library, job, mixed>>
  /\ Untouched

\* The other changes, QueueItemUpdate and QueueItemRefresh among them, push no show.
ShowChanged(s) ==
  /\ s \in library
  /\ Changed(s)
  /\ Silent
  /\ UNCHANGED <<library, job, word, told, mixed>>
  /\ Untouched

\* QueueItemRemove tells the clients (REMOVE-SHOW) before it deletes the show.
RemovalAnnounced(s) ==
  /\ s \in library /\ job = None
  /\ Changed(s)
  /\ job' = At("removing", s)
  /\ Withdraw(s)
  /\ UNCHANGED <<library, mixed>>
  /\ Untouched

ShowDeleted(s) ==
  /\ Leaving(s)
  /\ library' = library \ {s}
  /\ job' = None
  /\ Shifted /\ Silent
  /\ UNCHANGED <<ver, changes, word, told>>
  /\ Untouched

\* QueueItemChangeIndexer deletes the old show first, then comes showRemoved.
ShowReplaced(s) ==
  /\ s \in library /\ job = None
  /\ Changed(s)
  /\ job' = At("deleted", s)
  /\ library' = library \ {s}
  /\ Shifted /\ Silent
  /\ UNCHANGED <<word, told>>
  /\ Untouched

ReplacementAnnounced(s) ==
  /\ job = At("deleted", s)
  /\ job' = None
  /\ UNCHANGED <<library, ver, changes, mixed>>
  /\ Withdraw(s)
  /\ Untouched

\* An exception leaves the item where it is; nothing more is told.
ItemFails ==
  /\ job # None
  /\ job' = None
  /\ word' = [word EXCEPT ![job.show] = "nothing"]
  /\ Silent
  /\ UNCHANGED <<library, ver, changes, told, mixed>>
  /\ Untouched

----------------------------------------------------------------------------
\* The websocket of the client.

\* localStorage.setItem may throw, which is only logged.
Save(list) ==
  \/ /\ storage' = list
     /\ unsaved' = {}
  \/ /\ unsaved' = Slug
     /\ UNCHANGED storage

\* The answer in hand is older than what the client knows about the show now.
Overtaken(s) ==
  request' = IF request # None /\ request.show = s /\ request.what = "show"
               THEN [request EXCEPT !.stale = TRUE] ELSE request

\* What a message tells is kept if no fetch is going on and the show stays.
Lasts(m) == ~Fetching /\ ~m.late

Updated ==
  LET m == Head(channel)
      show == [slug |-> m.show, ver |-> m.ver, details |-> None]
  IN  /\ channel # <<>> /\ m.event = "updated"
      /\ channel' = Tail(channel)
      /\ shows' = AddShow(shows, show)
      /\ unsaved' = unsaved \cup {m.show} \cup Confused(shows, m.show)
      /\ missed' = IF Lasts(m) THEN missed \ {m.show} ELSE missed \cup {m.show}
      /\ mixed' = mixed \cup Confused(shows, m.show)
      /\ Overtaken(m.show)
      /\ UNCHANGED <<server, connected, gaps, storage, home, fetch, requests>>

Removed ==
  LET m == Head(channel)
  IN  /\ channel # <<>> /\ m.event = "removed"
      /\ channel' = Tail(channel)
      /\ shows' = RemoveShow(shows, m.show)
      /\ Save(shows')
      /\ missed' = IF Lasts(m) THEN missed \ {m.show} ELSE missed \cup {m.show}
      /\ mixed' = IF Lasts(m) THEN mixed \ {m.show} ELSE mixed
      /\ Overtaken(m.show)
      /\ UNCHANGED <<server, connected, gaps, home, fetch, requests>>

\* What is on its way when the connection breaks is lost.
ConnectionLost ==
  /\ connected /\ gaps < MaxGaps
  /\ connected' = FALSE
  /\ gaps' = gaps + 1
  /\ channel' = <<>>
  /\ missed' = missed \cup {channel[k].show : k \in DOMAIN channel}
  /\ UNCHANGED <<server, shows, storage, home, fetch, detail, unsaved, mixed>>

\* The client reconnects, and asks for nothing.
Reconnected ==
  /\ ~connected
  /\ connected' = TRUE
  /\ UNCHANGED <<server, channel, gaps, shows, storage, home, fetch, detail, unsaved, excuses>>

----------------------------------------------------------------------------
\* getShows.

InLibrary == Chosen(Titles, {k \in DOMAIN Titles : Titles[k] \in library})
PageAt(k) == (k - 1) \div Limit + 1
PageCount == PageAt(Len(InLibrary))
DataOf(p) ==
  Entries(Chosen(InLibrary, {k \in DOMAIN InLibrary : PageAt(k) = p}))

\* The server answers a page; of a show that is being removed it tells what will not last.
PageRead(p) ==
  /\ p \in due
  /\ due' = due \ {p}
  /\ answers' = answers \cup {[page |-> p, data |-> DataOf(p), total |-> PageCount]}
  /\ missed' = missed \cup {s \in Slug : Leaving(s)}
  /\ UNCHANGED <<server, socket, shows, storage, home, boot, newShows, detail, unsaved, mixed>>

\* Defect: the last page is taken for the end of the range.
PagesBeforeLast(total) == 2 .. total - 1

PagesAfterFirst(total) == 2 .. total

FirstPageArrives(a) ==
  /\ boot = "first" /\ a \in answers
  /\ boot' = "pages"
  /\ answers' = answers \ {a}
  /\ newShows' = a.data
  /\ due' = PagesAfterFirst(a.total)
  /\ UNCHANGED <<server, socket, shows, storage, home, detail, unsaved, excuses>>

PageArrives(a) ==
  /\ boot = "pages" /\ a \in answers
  /\ answers' = answers \ {a}
  /\ newShows' = newShows \o a.data
  /\ UNCHANGED <<server, socket, shows, storage, home, boot, due, detail, unsaved, excuses>>

\* Defect: the error leaves getShows before it commits anything.
FirstPageLost ==
  /\ boot = "first" /\ due # {}
  /\ due' = {} /\ answers' = {}
  /\ missed' = Slug
  /\ UNCHANGED <<server, socket, shows, storage, home, boot, newShows, detail, unsaved, mixed>>

\* Without a first page the list is committed all the same, empty.
FirstPageFails ==
  /\ boot = "first"
  /\ boot' = "pages"
  /\ due' = {} /\ answers' = {} /\ newShows' = <<>>
  /\ missed' = Slug
  /\ UNCHANGED <<server, socket, shows, storage, home, detail, unsaved, mixed>>

\* Without another page nothing is committed and the promise stays open.
PageFails ==
  /\ boot = "pages" /\ due # {}
  /\ boot' = "failed"
  /\ due' = {} /\ answers' = {} /\ newShows' = <<>>
  /\ missed' = Slug
  /\ UNCHANGED <<server, socket, shows, storage, home, detail, unsaved, mixed>>

ShowsCommitted ==
  /\ boot = "pages" /\ due = {} /\ answers = {}
  /\ boot' = "done"
  /\ shows' = AddShows(shows, newShows)
  /\ newShows' = <<>>
  /\ Save(shows')
  /\ UNCHANGED <<server, socket, home, due, answers, detail, excuses>>

----------------------------------------------------------------------------
\* The pages.

\* home.vue, mounted: loadShowsFromStore.
HomeOpened ==
  /\ ~home
  /\ home' = TRUE
  /\ shows' = IF storage = None THEN shows ELSE storage
  /\ mixed' = IF storage = None \/ Fetching THEN mixed ELSE mixed \cup unsaved
  /\ UNCHANGED <<server, socket, storage, fetch, detail, unsaved, missed>>

\* display-show.vue asks for a show (getShow) and for its episodes (getEpisodes).
ShowAsked(what, s) ==
  /\ request = None /\ requests < MaxRequests
  /\ requests' = requests + 1
  /\ request' = [what |-> what, show |-> s, ver |-> None, stale |-> FALSE]
  /\ UNCHANGED <<server, socket, shows, storage, home, fetch, unsaved, excuses>>

ShowRead ==
  /\ request # None /\ request.ver = None
  /\ request' = IF request.show \notin library THEN None
                ELSE [request EXCEPT !.ver = ver[request.show],
                                     !.stale = Leaving(request.show)]
  /\ UNCHANGED <<server, socket, shows, storage, home, fetch, requests, unsaved, excuses>>

ShowArrives ==
  LET s == request.show
      show == [slug |-> s, ver |-> request.ver, details |-> s]
  IN  /\ request # None /\ request.ver # None /\ request.what = "show"
      /\ request' = None
      /\ shows' = AddShow(shows, show)
      /\ unsaved' = unsaved \cup {s} \cup Confused(shows, s)
      /\ missed' = IF request.stale \/ Fetching THEN missed \cup {s} ELSE missed
      /\ mixed' = mixed \cup Confused(shows, s)
      /\ UNCHANGED <<server, socket, storage, home, fetch, requests>>

EpisodesArrive ==
  LET s == request.show
  IN  /\ request # None /\ request.ver # None /\ request.what = "episodes"
      /\ request' = None
      /\ shows' = AddEpisodes(shows, s)
      /\ unsaved' = unsaved \cup {s} \cup Confused(shows, s)
      /\ mixed' = mixed \cup Confused(shows, s)
      /\ UNCHANGED <<server, socket, storage, home, fetch, requests, missed>>

RequestFails ==
  /\ request # None
  /\ request' = None
  /\ UNCHANGED <<server, socket, shows, storage, home, fetch, requests, unsaved, excuses>>

----------------------------------------------------------------------------
Init ==
  /\ library \in Libraries
  /\ ver = [s \in Slug |-> 0]
  /\ job = None /\ changes = 0
  /\ word = [s \in Slug |-> IF s \in library THEN "there" ELSE "gone"] /\ told = ver
  /\ connected = TRUE /\ channel = <<>> /\ gaps = 0
  /\ shows = <<>> /\ storage \in Stores /\ home = FALSE
  /\ boot = "first" /\ due = {1} /\ answers = {} /\ newShows = <<>>
  /\ request = None /\ requests = 0
  /\ unsaved = Slug /\ missed = {}
  /\ mixed = IF storage = None THEN {} ELSE Muddled(storage)

ServerNext ==
  \/ \E s \in Slug :
       \/ ShowAppended(s) \/ ShowAnnounced(s) \/ ShowUpdated(s) \/ ShowChanged(s)
       \/ RemovalAnnounced(s) \/ ShowDeleted(s) \/ ShowReplaced(s) \/ ReplacementAnnounced(s)
  \/ ItemFails
SocketNext == Updated \/ Removed \/ ConnectionLost \/ Reconnected
FetchNext ==
  \/ \E p \in due : PageRead(p)
  \/ \E a \in answers : FirstPageArrives(a) \/ PageArrives(a)
  \/ FirstPageFails \/ PageFails \/ ShowsCommitted
PageNext ==
  \/ HomeOpened
  \/ \E s \in Visited, what \in {"show", "episodes"} : ShowAsked(what, s)
  \/ ShowRead \/ ShowArrives \/ EpisodesArrive \/ RequestFails

Next == ServerNext \/ SocketNext \/ FetchNext \/ PageNext

Spec == Init /\ [][Next]_vars
\* Requests are answered or fail; they have time limits.
FairSpec == Spec /\ WF_vars(FetchNext)
----------------------------------------------------------------------------
\* Type invariant.
TypeOK ==
  /\ library \subseteq Slug
  /\ ver \in [Slug -> 0 .. MaxChanges]
  /\ job \in Job \cup {None}
  /\ word \in [Slug -> {"there", "gone", "nothing"}] /\ told \in [Slug -> 0 .. MaxChanges]
  /\ changes \in 0 .. MaxChanges /\ gaps \in 0 .. MaxGaps /\ requests \in 0 .. MaxRequests
  /\ {connected, home} \subseteq BOOLEAN
  /\ channel \in Seq([event : Events, show : Slug, ver : 0 .. MaxChanges, late : BOOLEAN])
  /\ shows \in Seq(Entry) /\ newShows \in Seq(Entry)
  /\ storage = None \/ storage \in Seq(Entry)
  /\ boot \in {"first", "pages", "done", "failed"}
  /\ due \subseteq Nat
  /\ answers \subseteq [page : Nat, data : Seq(Entry), total : Nat]
  /\ request = None \/ request \in [what : {"show", "episodes"}, show : Slug,
                                    ver : 0 .. MaxChanges \cup {None}, stale : BOOLEAN]
  /\ unsaved \cup missed \cup mixed \subseteq Slug

Quiet ==
  /\ ~Fetching /\ channel = <<>> /\ job = None
  /\ request = None

Stored(s) == {k \in DOMAIN shows : shows[k].slug = s}

\* When nothing is on its way, the list has each show at most once, with no
\* details but its own, and in a version no older than the last one told.  It has
\* every show that is in the library as the server told, and none that is gone as
\* the server told.  (Of a show whose addition, removal or replacement failed
\* half-way it told nothing that holds.)  The excuses are named at the actions: a
\* list that the storage had muddled, a message lost in a gap or delivered under
\* a fetch or before the end of a removal, pages that shifted or failed, two shows
\* with one number, an answer that a message overtook, and a home page opened
\* after the list had changed.
InSync ==
  Quiet => \A s \in Slug \ (missed \cup mixed) :
             /\ Cardinality(Stored(s)) <= 1
             /\ s \in library /\ word[s] = "there" => Stored(s) # {}
             /\ s \notin library /\ word[s] = "gone" => Stored(s) = {}
             /\ \A k \in Stored(s) : /\ shows[k].ver >= told[s]
                                     /\ shows[k].details \in {None, s}

\* A message and a fetched list leave the details of the shows they bring alone.
DetailsKept ==
  [][~(~home /\ home') =>
       \A k \in DOMAIN shows, j \in DOMAIN shows' :
         /\ shows[k].slug = shows'[j].slug
         /\ shows[k].details = shows[k].slug
         /\ shows[k].slug \notin mixed'
         => shows'[j].details = shows[k].details]_vars

\* The fetch of the library ends, unless a page after the first fails.
BootEnds == <>(boot = "done" \/ boot = "failed")
=============================================================================
