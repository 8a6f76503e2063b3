----------------------------- MODULE Recommended -----------------------------
(***************************************************************************)
(* The recommended shows of the web client: store/modules/recommended.js   *)
(* and components/recommended.vue.                                         *)
(*                                                                         *)
(* The shows of a source come page by page: the first page of every source *)
(* when the page is opened, one source after the other, the others by the  *)
(* button.  What arrives is appended to the list, and a short page ends    *)
(* the paging of its source.  When the server has updated a source, the    *)
(* client starts again at the first page of it.                            *)
(***************************************************************************)
EXTENDS Integers, Sequences, SequencesExt

CONSTANTS
  Sources,    \* the sources in their order
  All,        \* the choice of all sources, which is no list of the server
  MaxSize,    \* bound on the length of the list of a source
  PageSize,   \* state.limit
  MaxUpdates, \* bound on the updates of a source
  MaxClicks   \* bound on the clicks for more

Source == ToSet(Sources)
NoMore == -1   \* the page after the last one

VARIABLES
  size,     \* source -> the length of the list of the server
  page,     \* state.page
  shows,    \* state.shows: source and place in the list
  todo,     \* the sources that mounted() has still to ask for
  loading,  \* loadingShows
  requests, \* the requests on their way: source, page, who waits for them
  updates,  \* the updates so far
  clicks,   \* the clicks for more so far
  skipped,  \* the sources of which a request failed (history variable)
  shifted   \* the sources that changed after a page was read (history variable)

bounds == <<updates, clicks>>
vars == <<size, page, shows, todo, loading, requests, bounds, skipped, shifted>>

\* getRecommendedShows, for a page that is there.
Asked(s, by) == requests' = requests \cup {[source |-> s, page |-> page'[s], by |-> by]}

\* mounted() waits for the answer of a source before it asks for the next one.
MountedAsks ==
  /\ todo # <<>>
  /\ \A r \in requests : r.by # "mounted"
  /\ todo' = Tail(todo)
  /\ UNCHANGED page
  /\ IF page[Head(todo)] = NoMore THEN UNCHANGED requests ELSE Asked(Head(todo), "mounted")
  /\ UNCHANGED <<size, shows, loading, bounds, skipped, shifted>>

MountedEnds ==
  /\ todo = <<>> /\ loading = "mounted"
  /\ \A r \in requests : r.by # "mounted"
  /\ loading' = "no"
  /\ UNCHANGED <<size, page, shows, todo, requests, bounds, skipped, shifted>>

\* Defect: the button is there after the last page, too.
GetMoreAlways(s) ==
  /\ loading = "no"
  /\ clicks < MaxClicks
  /\ clicks' = clicks + 1
  /\ page' = [page EXCEPT ![s] = @ + 1]
  /\ loading' = "more"
  /\ Asked(s, "more")
  /\ UNCHANGED <<size, shows, todo, updates, skipped, shifted>>

\* getMore: the page is counted before it has arrived.
GetMore(s) ==
  /\ loading = "no" /\ page[s] # NoMore
  /\ clicks < MaxClicks
  /\ clicks' = clicks + 1
  /\ page' = [page EXCEPT ![s] = @ + 1]
  /\ loading' = "more"
  /\ Asked(s, "more")
  /\ UNCHANGED <<size, shows, todo, updates, skipped, shifted>>

\* Defect: a page ends before its last show.
PageShort(s, p) == {k \in 1 .. size[s] : (p - 1) * PageSize < k /\ k < p * PageSize}

\* The page of the list, as long as it is when the server answers.
PageOf(s, p) == {k \in 1 .. size[s] : (p - 1) * PageSize < k /\ k <= p * PageSize}

Finished(r) ==
  /\ requests' = requests \ {r}
  /\ loading' = IF r.by = "more" THEN "no" ELSE loading

\* SET_RECOMMENDED_SHOWS.
PageArrives(r) ==
  LET fetched == PageOf(r.source, r.page)
      full == \E k \in fetched : k = r.page * PageSize
  IN  /\ r.source # All
      /\ page' = IF full THEN page ELSE [page EXCEPT ![r.source] = NoMore]
      /\ shows' = shows \cup {<<r.source, k>> : k \in fetched}
      /\ Finished(r)
      /\ UNCHANGED <<size, todo, bounds, skipped, shifted>>

\* The server does not know a list of all sources.
PageFails(r) ==
  /\ skipped' = skipped \cup {r.source}
  /\ Finished(r)
  /\ UNCHANGED <<size, page, shows, todo, bounds, shifted>>

\* UPDATE-RECOMMENDED ended with success: resetPage and the first page.
Updated(s) ==
  /\ updates < MaxUpdates
  /\ updates' = updates + 1
  /\ \E n \in size[s] .. MaxSize :
       /\ size' = [size EXCEPT ![s] = n]
       /\ shifted' = IF n = size[s] THEN shifted ELSE shifted \cup {s}
  /\ page' = [page EXCEPT ![s] = 1]
  /\ Asked(s, "update")
  /\ UNCHANGED <<shows, todo, loading, clicks, skipped>>

Init ==
  /\ size \in [Source -> 0 .. MaxSize]
  /\ page = [s \in Source \cup {All} |-> 1]
  /\ shows = {} /\ requests = {}
  /\ todo = Sources /\ loading = "mounted"
  /\ updates = 0 /\ clicks = 0 /\ skipped = {} /\ shifted = {}

Next ==
  \/ MountedAsks \/ MountedEnds
  \/ \E s \in Source \cup {All} : GetMore(s)
  \/ \E r \in requests : PageArrives(r) \/ PageFails(r)
  \/ \E s \in Source : Updated(s)

Spec == Init /\ [][Next]_vars
----------------------------------------------------------------------------
\* Type invariant.
TypeOK ==
  /\ size \in [Source -> 0 .. MaxSize]
  /\ page \in [Source \cup {All} -> {NoMore} \cup 1 .. MaxClicks + 1]
  /\ shows \subseteq Source \X (1 .. MaxSize)
  /\ ToSet(todo) \subseteq Source
  /\ loading \in {"mounted", "more", "no"}
  /\ \A r \in requests : r.source \in Source \cup {All} /\ r.page \in Nat
  /\ updates \in 0 .. MaxUpdates /\ clicks \in 0 .. MaxClicks
  /\ skipped \cup shifted \subseteq Source \cup {All}

\* When the button for more of a source is gone, all its shows are there,
\* although updates start the paging again in the middle of a request.  Those
\* of a page that did not arrive are passed over, and an update that found
\* shows moves the pages.
NothingSkipped ==
  \A s \in Source \ (skipped \cup shifted) :
    page[s] = NoMore /\ (\A r \in requests : r.source # s)
    => \A k \in 1 .. size[s] : <<s, k>> \in shows
=============================================================================
