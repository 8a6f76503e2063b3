---------------------------- MODULE SearchSnatch ----------------------------
(***************************************************************************)
(* From a search to a snatch, its download, and the search for another     *)
(* release when it fails: the workers of SearchQueue and ForcedSearchQueue *)
(* and SnatchQueueItem (medusa/search/queue.py), snatch_result             *)
(* (medusa/search/core.py), the tables of failed.db (FailedHistory), the   *)
(* import of the videos (medusa/post_processor.py) and the failed download *)
(* processor.  They share the status of the episodes, in memory and in the *)
(* database, and run in threads of their own.                              *)
(*                                                                         *)
(* The queues are those of GenericQueue: one worker each.  The dates of    *)
(* the logged snatches differ: the numbers of the downloads stand for them.*)
(* A snatch takes longer than its adder takes to look at it, so that the   *)
(* adder's loop `while success is False` ends at once, and a download      *)
(* longer than the rest of snatch_result.  A client that accepts a release *)
(* again downloads it again.                                               *)
(***************************************************************************)
EXTENDS FailedHistory, Sequences, SequencesExt

CONSTANTS
  Best,         \* the results of a preferred quality
  None,
  MaxSnatches   \* bound on the snatches

ASSUME SearchSnatchAssumption ==
  /\ Best \subseteq Result
  /\ None \notin Result \cup Episode \cup Range(NameOf)
  /\ MaxSnatches \in Nat

VARIABLES
  status,     \* episode -> Episode.status
  stored,     \* episode -> its status in the table tv_episodes
  rows,       \* failed.db: history
  records,    \* failed.db: failed
  found,      \* worker -> the results that it has still to submit
  forced,     \* ForcedSearchQueue.queue: the segments to search again
  retry,      \* the FailedQueueItem that runs
  snatchq,    \* SnatchQueue.queue
  snatch,     \* the SnatchQueueItem that runs
  download,   \* the downloads at the client, in order, and what became of them
  import,     \* the post-processing of a download
  logged,     \* the status that the history has for the episode being handled (history variable)
  blamed      \* the episodes of failed downloads that no retry marked since (history variable)

db == <<rows, records>>
ghosts == <<logged, blamed>>
vars == <<status, stored, db, found, forced, retry, snatchq, snatch, download,
          import, ghosts>>

\* The queue of scheduled searches and the one of forced searches and retries.
Worker == {"search", "forced"}

NoRetry == [stage |-> "idle", segment |-> {}, left |-> {}, at |-> None, release |-> None]
NoSnatch == [stage |-> "idle", result |-> None]
NoImport == [stage |-> "idle", of |-> 0, left |-> {}, at |-> None, end |-> "kept"]

TypeOK ==
  /\ status \in [Episode -> Statuses]
  /\ stored \in [Episode -> Statuses]
  /\ rows \subseteq Row
  /\ records \subseteq Record
  /\ found \in [Worker -> SUBSET Result]
  /\ forced \in Seq(SUBSET Episode)
  /\ retry \in [stage : {"idle", "marking", "finding", "logging", "reverting", "searching"},
                segment : SUBSET Episode, left : SUBSET Episode, at : Episode \cup {None},
                release : Range(NameOf) \cup {None}]
  /\ snatchq \in Seq(Result)
  /\ snatch \in [stage : {"idle", "sending", "logging", "marking", "saving"},
                 result : Result \cup {None}]
  /\ download \in Seq([result : Result, state : {"loading", "failed", "imported", "kept"}])
  /\ Len(download) <= MaxSnatches
  /\ import \in [stage : {"idle", "next", "moving"}, of : 0..MaxSnatches,
                 left : SUBSET Episode, at : Episode \cup {None},
                 end : {"kept", "imported", "failed"}]
  /\ logged \in Statuses \cup {None}
  /\ blamed \subseteq Episode

\* The episodes are wanted, or there in a quality that may be replaced.
Init ==
  /\ status \in [Episode -> {"WANTED", "DOWNLOADED"}]
  /\ stored = status
  /\ rows = {} /\ records = {}
  /\ found = [w \in Worker |-> {}]
  /\ forced = <<>> /\ retry = NoRetry
  /\ snatchq = <<>> /\ snatch = NoSnatch
  /\ download = <<>>
  /\ import = NoImport
  /\ logged = None
  /\ blamed = {}

-----------------------------------------------------------------------------
\* Searching: search_providers, filter_results, combine_results

\* want_episode reads the database.  A retry is a forced search, which does not
\* look at the status; the quality of a failed episode may be any.
Wants(w, r, e) ==
  \/ stored[e] = "WANTED"
  \/ r \in Best /\ stored[e] \in {"SNATCHED", "DOWNLOADED"}
  \/ r \in Best /\ stored[e] = "FAILED" /\ w = "forced"

\* want_episodes: one of two is enough.
WantsSome(w, r) ==
  LET wanted == {e \in EpisodesOf[r] : Wants(w, r, e)}
  IN  wanted = EpisodesOf[r] \/ (wanted # {} /\ Cardinality(EpisodesOf[r]) = 2)

Candidates(w) == {r \in Result : WantsSome(w, r) /\ ~HasFailed(records, r)}

\* What a search returns: no result covers the episodes of another one.  (Of three and
\* more packs combine_results can let some overlap; the instances have one.)
Picks(w) ==
  {S \in SUBSET Candidates(w) :
     \A r, s \in S : r # s => ~(EpisodesOf[r] \subseteq EpisodesOf[s])}

\* A daily or backlog search, which goes on with whatever it found.
Search ==
  /\ found["search"] = {}
  /\ \E S \in Picks("search") \ {{}} : found' = [found EXCEPT !["search"] = S]
  /\ UNCHANGED <<status, stored, db, forced, retry, snatchq, snatch, download,
                 import, ghosts>>

\* A SnatchQueueItem for each result.  SnatchQueue.is_in_queue looks at the
\* segments of the queue, not at the running snatch.
Submit(w, r) ==
  /\ r \in found[w]
  /\ found' = [found EXCEPT ![w] = @ \ {r}]
  /\ snatchq' = IF \E k \in DOMAIN snatchq : EpisodesOf[snatchq[k]] = EpisodesOf[r]
                  THEN snatchq ELSE Append(snatchq, r)
  /\ UNCHANGED <<status, stored, db, forced, retry, snatch, download, import,
                 ghosts>>

-----------------------------------------------------------------------------
\* SnatchQueueItem.run and snatch_result

SnatchStart ==
  /\ snatch = NoSnatch
  /\ snatchq # <<>>
  /\ snatch' = [stage |-> "sending", result |-> Head(snatchq)]
  /\ snatchq' = Tail(snatchq)
  /\ UNCHANGED <<status, stored, db, found, forced, retry, download, import, ghosts>>

\* Defect: the episodes are set to snatched whether or not the client accepts.
SnatchSendAnyway ==
  /\ snatch.stage = "sending"
  /\ snatch' = [snatch EXCEPT !.stage = "logging"]
  /\ download' \in {download, Append(download, [result |-> snatch.result, state |-> "loading"])}
  /\ Len(download') <= MaxSnatches
  /\ UNCHANGED <<status, stored, db, found, forced, retry, snatchq, import, ghosts>>

\* The client accepts the result, or does not.
SnatchSend ==
  /\ snatch.stage = "sending"
  /\ \/ /\ Len(download) < MaxSnatches
        /\ snatch' = [snatch EXCEPT !.stage = "logging"]
        /\ download' = Append(download, [result |-> snatch.result, state |-> "loading"])
     \/ /\ snatch' = NoSnatch
        /\ UNCHANGED download
  /\ UNCHANGED <<status, stored, db, found, forced, retry, snatchq, import, ghosts>>

SnatchLog ==
  /\ snatch.stage = "logging"
  /\ rows' = LogSnatch(rows, snatch.result, Len(download), status)
  /\ snatch' = [snatch EXCEPT !.stage = "marking"]
  /\ UNCHANGED <<status, stored, records, found, forced, retry, snatchq, download,
                 import, ghosts>>

SnatchStatus == IF snatch.result \in Best THEN "SNATCHED_BEST" ELSE "SNATCHED"

\* The episodes get their status in memory, under one lock after the other; the SQL is
\* built and kept for later.
SnatchMark ==
  /\ snatch.stage = "marking"
  /\ status' = [e \in Episode |-> IF e \in EpisodesOf[snatch.result]
                                    THEN SnatchStatus ELSE status[e]]
  /\ snatch' = [snatch EXCEPT !.stage = "saving"]
  /\ UNCHANGED <<stored, db, found, forced, retry, snatchq, download, import, ghosts>>

SnatchSave ==
  /\ snatch.stage = "saving"
  /\ stored' = [e \in Episode |-> IF e \in EpisodesOf[snatch.result]
                                    THEN SnatchStatus ELSE stored[e]]
  /\ snatch' = NoSnatch
  /\ UNCHANGED <<status, db, found, forced, retry, snatchq, download, import, ghosts>>

-----------------------------------------------------------------------------
\* The download ends, and is post-processed

\* Defect: a segment that is being searched right now is not added.
AddForcedUnlessCurrent(segment) ==
  forced' = IF segment \in Range(forced) \/ segment = retry.segment
              THEN forced ELSE Append(forced, segment)

\* ForcedSearchQueue.add_item: a segment that waits already is not added.
AddForced(segment) ==
  forced' = IF segment \in Range(forced) THEN forced ELSE Append(forced, segment)

\* The k-th download is at the client, its snatch is over and nothing processes it.
Loaded(k) ==
  /\ k \in DOMAIN download
  /\ download[k].state = "loading"
  /\ k # import.of
  /\ snatch.stage \in {"logging", "marking", "saving"} => k # Len(download)

\* The client says that it failed: FailedProcessor.process for all its episodes.
DownloadFails(k) ==
  /\ Loaded(k)
  /\ download' = [download EXCEPT ![k].state = "failed"]
  /\ AddForced(EpisodesOf[download[k].result])
  /\ blamed' = blamed \cup EpisodesOf[download[k].result]
  /\ UNCHANGED <<status, stored, db, found, retry, snatchq, snatch, import, logged>>

ImportStart(k) ==
  /\ Loaded(k)
  /\ import = NoImport
  /\ import' = [NoImport EXCEPT !.stage = "next", !.of = k,
                                !.left = EpisodesOf[download[k].result]]
  /\ UNCHANGED <<status, stored, db, found, forced, retry, snatchq, snatch, download,
                 ghosts>>

Imported == download[import.of].result

DownloadStatus == IF Imported \in Best THEN "DOWNLOADED_BEST" ELSE "DOWNLOADED"

\* PostProcessor.process of one video: the status in memory and log_success come
\* before the file is moved.
ImportVideo(e) ==
  /\ import.stage = "next"
  /\ e \in import.left
  /\ status' = [status EXCEPT ![e] = DownloadStatus]
  /\ rows' = LogSuccess(rows, Imported)
  /\ import' = [import EXCEPT !.stage = "moving", !.left = @ \ {e}, !.at = e]
  /\ UNCHANGED <<stored, records, found, forced, retry, snatchq, snatch, download,
                 ghosts>>

\* Defect: the SQL is built from the status that the database has.
ImportMovedUnsaved ==
  /\ import.stage = "moving"
  /\ import' = [import EXCEPT !.stage = "next", !.at = None,
                              !.end = IF @ = "failed" THEN @ ELSE "imported"]
  /\ UNCHANGED <<status, stored, db, found, forced, retry, snatchq, snatch, download, ghosts>>

\* The SQL is built after the move, from what the status is then.
ImportMoved ==
  /\ import.stage = "moving"
  /\ stored' = [stored EXCEPT ![import.at] = status[import.at]]
  /\ import' = [import EXCEPT !.stage = "next", !.at = None,
                              !.end = IF @ = "failed" THEN @ ELSE "imported"]
  /\ UNCHANGED <<status, db, found, forced, retry, snatchq, snatch, download, ghosts>>

ImportMoveFails ==
  /\ import.stage = "moving"
  /\ import' = [import EXCEPT !.stage = "next", !.at = None, !.end = "failed"]
  /\ UNCHANGED <<status, stored, db, found, forced, retry, snatchq, snatch, download,
                 ghosts>>

\* The video fails, or is aborted, before anything is written.
ImportLeaves(e) ==
  /\ import.stage = "next"
  /\ e \in import.left
  /\ import' \in {[import EXCEPT !.left = @ \ {e}],
                  [import EXCEPT !.left = @ \ {e}, !.end = "failed"]}
  /\ UNCHANGED <<status, stored, db, found, forced, retry, snatchq, snatch, download,
                 ghosts>>

\* All videos were seen.  If one failed the download as a whole is a failed one.
ImportEnds ==
  /\ import.stage = "next" /\ import.left = {}
  /\ download' = [download EXCEPT ![import.of].state = import.end]
  /\ IF import.end = "failed"
       THEN /\ AddForced(EpisodesOf[Imported])
            /\ blamed' = blamed \cup EpisodesOf[Imported]
       ELSE UNCHANGED <<forced, blamed>>
  /\ import' = NoImport
  /\ UNCHANGED <<status, stored, db, found, retry, snatchq, snatch, logged>>

-----------------------------------------------------------------------------
\* FailedQueueItem.run

RetryStart ==
  /\ retry = NoRetry /\ found["forced"] = {}
  /\ forced # <<>>
  /\ retry' = [NoRetry EXCEPT !.stage = "marking", !.segment = Head(forced), !.left = Head(forced)]
  /\ forced' = Tail(forced)
  /\ UNCHANGED <<status, stored, db, found, snatchq, snatch, download, import, ghosts>>

\* mark_failed
RetryMark(e) ==
  /\ retry.stage = "marking"
  /\ e \in retry.left
  /\ status' = [status EXCEPT ![e] = "FAILED"]
  /\ stored' = [stored EXCEPT ![e] = "FAILED"]
  /\ blamed' = blamed \ {e}
  /\ retry' = [retry EXCEPT !.stage = "finding", !.left = @ \ {e}, !.at = e]
  /\ UNCHANGED <<db, found, forced, snatchq, snatch, download, import, logged>>

\* find_release
RetryFind ==
  /\ retry.stage = "finding"
  /\ \/ /\ RowsOf(rows, retry.at) = {}
        /\ retry' = [retry EXCEPT !.stage = "reverting"]
        /\ UNCHANGED <<rows, logged>>
     \/ \E x \in Found(rows, retry.at) :
          /\ rows' = AfterFind(rows, retry.at, x)
          /\ retry' = [retry EXCEPT !.stage = "logging", !.release = NameOf[x.result]]
          /\ logged' = x.status
  /\ UNCHANGED <<status, stored, records, found, forced, snatchq, snatch, download,
                 import, blamed>>

\* log_failed
RetryLog ==
  /\ retry.stage = "logging"
  /\ records' = records \cup {RecordOf(rows, retry.release)}
  /\ rows' = AfterLogFailed(rows, retry.release)
  /\ retry' = [retry EXCEPT !.stage = "reverting", !.release = None]
  /\ UNCHANGED <<status, stored, found, forced, snatchq, snatch, download, import,
                 ghosts>>

\* revert_episode
RetryRevert ==
  /\ retry.stage = "reverting"
  /\ \E s \in RevertStatuses(rows, retry.at) :
       /\ status' = [status EXCEPT ![retry.at] = s]
       /\ stored' = [stored EXCEPT ![retry.at] = s]
  /\ retry' = [retry EXCEPT !.stage = IF retry.left = {} THEN "searching" ELSE "marking",
                            !.at = None]
  /\ logged' = None
  /\ UNCHANGED <<db, found, forced, snatchq, snatch, download, import, blamed>>

RetrySearch ==
  /\ retry.stage = "searching"
  /\ \E S \in Picks("forced") :
       /\ \A r \in S : EpisodesOf[r] \cap retry.segment # {}
       /\ found' = [found EXCEPT !["forced"] = S]
  /\ retry' = NoRetry
  /\ UNCHANGED <<status, stored, db, forced, snatchq, snatch, download, import, ghosts>>

-----------------------------------------------------------------------------
Snatching == SnatchStart \/ SnatchSend \/ SnatchLog \/ SnatchMark \/ SnatchSave

Importing ==
  \/ \E e \in Episode : ImportVideo(e) \/ ImportLeaves(e)
  \/ ImportMoved
  \/ ImportMoveFails
  \/ ImportEnds

Retrying ==
  \/ RetryStart
  \/ \E e \in Episode : RetryMark(e)
  \/ RetryFind
  \/ RetryLog
  \/ RetryRevert
  \/ RetrySearch

Submitting(w) == \E r \in Result : Submit(w, r)

Next ==
  \/ Search
  \/ \E w \in Worker : Submitting(w)
  \/ Snatching
  \/ \E k \in 1..MaxSnatches : DownloadFails(k) \/ ImportStart(k)
  \/ Importing
  \/ Retrying

Spec == Init /\ [][Next]_vars

\* The threads go on.  Nothing makes a search find anything, or a download end.
FairSpec ==
  /\ Spec
  /\ WF_vars(Snatching) /\ WF_vars(Importing) /\ WF_vars(Retrying)
  /\ \A w \in Worker : WF_vars(Submitting(w))

-----------------------------------------------------------------------------
\* Properties

\* Once the failure of a release is logged, searches reject it, whatever the number
\* of its rows: what log_failed makes of them is what has_failed looks for.  The
\* rows of the name must agree in size and provider.
LoggedIsRejected ==
  [][\A x \in rows :
       /\ retry.stage = "logging" /\ retry'.stage # "logging"
       /\ NameOf[x.result] = retry.release
       /\ \A y \in rows : NameOf[y.result] = retry.release =>
            SizeOf[y.result] = SizeOf[x.result] /\ ProviderOf[y.result] = ProviderOf[x.result]
       => HasFailed(records', x.result)]_vars

\* The failure of a download reaches each of its episodes, also when it comes while
\* an earlier failure of theirs is being handled.
FailureIsHandled ==
  \A e \in Episode : e \in blamed ~> e \notin blamed

\* No failure can be charged to a download that was imported: nothing remembers it.
ImportedIsForgotten ==
  \A x \in rows : download[x.date].state # "imported"

\* No episode is left snatched by nothing: a download that covers it goes on, or was
\* processed, or its failure is still to be handled.
NoOrphan ==
  \A e \in Episode : status[e] \in {"SNATCHED", "SNATCHED_BEST"} =>
    \/ \E k \in DOMAIN download : /\ e \in EpisodesOf[download[k].result]
                                 /\ download[k].state # "failed"
    \/ e \in blamed

\* Searches, which read the database, do not want an episode that was imported: if
\* the SQL of its import was not run, a failure is still to be handled.
ImportedIsNotWanted ==
  \A e \in Episode :
    status[e] \in {"DOWNLOADED", "DOWNLOADED_BEST"} /\ stored[e] = "WANTED" =>
      \/ import.at = e
      \/ import.stage # "idle" /\ import.end = "failed"
      \/ e \in blamed

\* "Restore the episodes of a failed download to their original state."
\* (failed_history.py:142)
RevertRestores ==
  [][\A e \in Episode :
       retry.stage = "reverting" /\ retry.at = e /\ logged # None /\ retry'.stage # "reverting"
         => status'[e] = logged]_vars

\* "Return None for release if multiple found or no release found."
\* (failed_history.py:262): only a release that failed is recorded as failed.
OnlyFailedIsRecorded ==
  [][\A q \in records' \ records :
       \E k \in DOMAIN download : /\ NameOf[download[k].result] = q.name
                                 /\ download[k].state = "failed"]_vars
=============================================================================
