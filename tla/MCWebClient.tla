----------------------------- MODULE MCWebClient -----------------------------
(***************************************************************************)
(* Model-checking instance of the web client.  One of its parts runs,      *)
(* chosen at the start, and the others stay as they are: the states of the *)
(* parts, which share none, are checked one after the other.               *)
(***************************************************************************)
EXTENDS WebClient

CONSTANTS
  a, b, c,           \* shows: a and c have the same number at different indexers
  r1, r2, r3, p1, p2, \* results of two providers
  tv, anime, old,    \* directories
  c1, c2,            \* clients
  imdb, trakt        \* sources of recommended shows

MCTitles == <<a, b, c>>
MCNumberOf == [s \in {a, b, c} |-> IF s = b THEN 2 ELSE 1]
MCStores == {None, <<[slug |-> c, ver |-> 0, details |-> c]>>}

MCResults == <<r1, r2, r3>>
MCProviderOf == [r \in {r1, r2, r3} |-> IF r = r3 THEN p2 ELSE p1]
MCProviders == <<p1, p2>>

Numbered(counts) == [k \in DOMAIN counts |-> [season |-> k, episodes |-> counts[k]]]
MCCounts ==
  {<<>>} \cup {Numbered(counts) : counts \in [1 .. 2 -> {1, 2, 5}] \cup {<<2, 1, 3>>, <<1, 3, 2>>, <<3, 2, 2>>}}
  \cup {<<[season |-> 0, episodes |-> 2]>> \o Numbered(<<3, 1>>)}

MCLists == {<<>>, <<1, tv, anime>>}
MCSources == <<imdb, trakt>>

VARIABLE part  \* the part that runs

MCInit ==
  /\ ClientInit
  /\ part \in {"store", "search", "episodes", "dirs", "recommended"}
  /\ (part = "store") = (storage # None)
  \* The page of an episode comes after one that searched, that of a season comes first.
  /\ part = "search" => known = (table # {}) /\ known = (kind = "episode")
  /\ part # "search" => kind = "episode" /\ table = {} /\ known
  /\ part # "episodes" => seasonCount = <<>> /\ ~paged
  /\ perPage = 2  \* until the user sets it
  /\ part # "dirs" => raw = <<>>
  /\ part # "recommended" => size = [s \in {imdb, trakt} |-> 0]

allVars == <<part, clientVars>>

MCNext ==
  \/ part = "store" /\ Next /\ StoreRuns /\ UNCHANGED part
  \/ part = "search" /\ Search!Next /\ SearchRuns /\ UNCHANGED part
  \/ part = "episodes" /\ Episodes!Next /\ EpisodesRun /\ UNCHANGED part
  \/ part = "dirs" /\ Dirs!Next /\ DirsRun /\ UNCHANGED part
  \/ part = "recommended" /\ Shows!Next /\ RecommendedRun /\ UNCHANGED part

\* The fairness of ShowStore and of ManualSearch.
Progress ==
  \/ part = "store" /\ FetchNext /\ StoreRuns /\ UNCHANGED part
  \/ part = "search" /\ Search!Progress /\ SearchRuns /\ UNCHANGED part
MCSpec == MCInit /\ [][MCNext]_allVars /\ WF_allVars(Progress)
----------------------------------------------------------------------------
\* The fetch of the library ends: ShowStore, where that part runs.
LibraryArrives == part = "store" => BootEnds
=============================================================================
