---------------------------- MODULE FailedHistory ----------------------------
(***************************************************************************)
(* medusa/failed_history.py: the two tables of failed.db, as operators on  *)
(* their contents.  "history" has one row for each episode of a snatch,    *)
(* with the status that the episode had before; "failed" holds the         *)
(* releases that searches must reject.                                     *)
(***************************************************************************)
EXTENDS Integers, FiniteSets

CONSTANTS
  Episode,
  Result,      \* the search results: a release at a provider
  EpisodesOf,  \* result -> the episodes that it covers
  NameOf,      \* result -> the name of the release, as prepare_failed_name returns it
  SizeOf,      \* result -> its size
  ProviderOf   \* result -> its provider

\* The name parser takes the episodes of a release from its name.
ASSUME FailedHistoryAssumption ==
  /\ EpisodesOf \in [Result -> (SUBSET Episode) \ {{}}]
  /\ SizeOf \in [Result -> Nat]
  /\ DOMAIN NameOf = Result
  /\ DOMAIN ProviderOf = Result
  /\ \A r \in Result : ProviderOf[r] # ""
  /\ \A r, s \in Result : NameOf[r] = NameOf[s] => EpisodesOf[r] = EpisodesOf[s]

\* The status of an episode, with whether its quality is a preferred one.
Statuses == {"WANTED", "FAILED", "SNATCHED", "SNATCHED_BEST", "DOWNLOADED",
             "DOWNLOADED_BEST"}

\* A row of "history" and a row of "failed".
Row == [result : Result, episode : Episode, date : Nat, status : Statuses]

Record == [name : {NameOf[r] : r \in Result},
           size : {SizeOf[r] : r \in Result} \cup {-1},
           provider : {ProviderOf[r] : r \in Result} \cup {""}]

\* log_snatch: status is that of the episodes before they are set to snatched.
LogSnatch(rows, r, date, status) ==
  rows \cup {[result |-> r, episode |-> e, date |-> date, status |-> status[e]] :
               e \in EpisodesOf[r]}

\* Defect: only the row of one episode is deleted.
LogSuccessOfEpisode(rows, r) ==
  {x \in rows : NameOf[x.result] = NameOf[r] => x.episode # CHOOSE e \in EpisodesOf[r] : TRUE}

\* log_success: by name, for all episodes and providers.
LogSuccess(rows, r) == {x \in rows : NameOf[x.result] # NameOf[r]}

RowsOf(rows, e) == {x \in rows : x.episode = e}

\* find_release: the rows that may come first for the episode.  Older ones are
\* deleted before.
Found(rows, e) ==
  {x \in RowsOf(rows, e) : \A y \in RowsOf(rows, e) : y.date <= x.date}

\* find_release: what it leaves after it found x, rows of the same name with
\* another date being deleted too.
AfterFind(rows, e, x) ==
  {y \in rows : /\ y.episode = e => y.date >= x.date
                /\ NameOf[y.result] = NameOf[x.result] => y.date = x.date}

\* The value that all rows share, or the other one.
Common(values, other) ==
  IF Cardinality(values) = 1 THEN CHOOSE v \in values : TRUE ELSE other

\* Defect: the size and provider of a release with more than one row are not used.
RecordOfSingle(rows, name) ==
  LET same == {x \in rows : NameOf[x.result] = name}
  IN  [name |-> name,
       size |-> IF Cardinality(same) = 1 THEN Common({SizeOf[x.result] : x \in same}, -1) ELSE -1,
       provider |-> Common({ProviderOf[x.result] : x \in same}, "")]

\* log_failed: what it inserts for a name.
RecordOf(rows, name) ==
  LET same == {x \in rows : NameOf[x.result] = name}
  IN  [name |-> name,
       size |-> Common({SizeOf[x.result] : x \in same}, -1),
       provider |-> Common({ProviderOf[x.result] : x \in same}, "")]

\* delete_logged_snatch
Matches(x, record) ==
  /\ NameOf[x.result] = record.name
  /\ SizeOf[x.result] = record.size
  /\ ProviderOf[x.result] = record.provider

\* log_failed: the rows that it leaves.  If the sizes vary all rows of the name go.
AfterLogFailed(rows, name) ==
  LET record == RecordOf(rows, name)
  IN  {x \in rows : /\ ~Matches(x, record)
                    /\ record.size = -1 => NameOf[x.result] # name}

\* has_failed, as the filter of the search results calls it.
HasFailed(records, r) ==
  [name |-> NameOf[r], size |-> SizeOf[r], provider |-> ProviderOf[r]] \in records

\* Defect: an episode without rows gets no status.
RevertStatusesOfRows(rows, e) ==
  IF RowsOf(rows, e) = {} THEN {""} ELSE {x.status : x \in RowsOf(rows, e)}

\* revert_episode: the status to go back to, one of the rows of the episode being taken.
RevertStatuses(rows, e) ==
  IF RowsOf(rows, e) = {} THEN {"WANTED"} ELSE {x.status : x \in RowsOf(rows, e)}
=============================================================================
