-------------------------- MODULE SearchSnatchProofs --------------------------
(***************************************************************************)
(* Proofs about SearchSnatch, for any episodes, results and packs, and any *)
(* number of snatches.                                                     *)
(*                                                                         *)
(* The threads meet in the tables and in the statuses, each with what it   *)
(* read some steps before.  PlaceInv says what the worker of each thread   *)
(* has in hand and that a row belongs to a download; on top of it          *)
(* ForgottenInv, CoverInv and SavedInv say what the properties need of the *)
(* steps that are still to come.                                           *)
(***************************************************************************)
EXTENDS SearchSnatch, SequenceTheorems, FiniteSetTheorems, TLAPS

\* The running snatch is at the client, and not yet at its end.
Sent == snatch.stage \in {"logging", "marking", "saving"}

SnatchInv ==
  /\ snatch.stage # "idle" => snatch.result \in Result
  /\ Sent => /\ Len(download) > 0
             /\ download[Len(download)] = [result |-> snatch.result, state |-> "loading"]

RetryInv ==
  /\ retry.stage \in {"finding", "logging", "reverting"} => retry.at \in Episode
  /\ retry.stage = "logging" => retry.release \in Range(NameOf)

\* A download that is processed is not the one that is being snatched.
ImportInv ==
  /\ import.stage # "idle" =>
       /\ import.of \in DOMAIN download
       /\ import.left \subseteq EpisodesOf[Imported]
       /\ Sent => import.of # Len(download)
  /\ import.stage = "moving" => import.at \in EpisodesOf[Imported]
  /\ import.stage # "moving" => import.at = None
  /\ import.stage = "idle" => import = NoImport

\* A row is about an episode of its download.
RowInv ==
  \A x \in rows : /\ x.date \in DOMAIN download
                  /\ x.result = download[x.date].result
                  /\ x.episode \in EpisodesOf[x.result]

PlaceInv == TypeOK /\ SnatchInv /\ RetryInv /\ ImportInv /\ RowInv

\* What a download that was imported, or of which a video was, leaves in the table.
ForgottenInv ==
  /\ ImportedIsForgotten
  /\ import.stage = "moving" \/ import.end = "imported" =>
       \A x \in rows : x.date # import.of

\* A download of the episode goes on, or its failure is still to be handled.
Covered(e) ==
  \/ \E k \in DOMAIN download : e \in EpisodesOf[download[k].result] /\ download[k].state # "failed"
  \/ e \in blamed

\* A status that a retry goes back to is the one before a download that goes on.
CoverInv ==
  /\ \A e \in Episode : status[e] \in {"SNATCHED", "SNATCHED_BEST"} => Covered(e)
  /\ retry.stage = "logging" =>
       \/ Covered(retry.at)
       \/ \E r \in Result :
            /\ NameOf[r] = retry.release /\ retry.at \in EpisodesOf[r]
            /\ \A x \in rows : x.episode = retry.at \/ NameOf[x.result] = retry.release
                                 => x.result = r
  /\ retry.stage = "reverting" => Covered(retry.at) \/ RowsOf(rows, retry.at) = {}

\* What excuses a status that was not saved.
Unsaved(e) ==
  \/ import.at = e
  \/ import.stage # "idle" /\ import.end = "failed" /\ e \in EpisodesOf[Imported]
  \/ e \in blamed

SavedInv ==
  \A e \in Episode :
    status[e] \in {"DOWNLOADED", "DOWNLOADED_BEST"} /\ stored[e] = "WANTED" => Unsaved(e)

Retry == [stage : {"idle", "marking", "finding", "logging", "reverting", "searching"},
          segment : SUBSET Episode, left : SUBSET Episode, at : Episode \cup {None},
          release : Range(NameOf) \cup {None}]
Snatch == [stage : {"idle", "sending", "logging", "marking", "saving"},
           result : Result \cup {None}]
Load == [result : Result, state : {"loading", "failed", "imported", "kept"}]
Import == [stage : {"idle", "next", "moving"}, of : 0..MaxSnatches,
           left : SUBSET Episode, at : Episode \cup {None},
           end : {"kept", "imported", "failed"}]

Typed ==
  /\ status \in [Episode -> Statuses] /\ stored \in [Episode -> Statuses]
  /\ rows \subseteq Row /\ records \subseteq Record
  /\ found \in [Worker -> SUBSET Result]
  /\ forced \in Seq(SUBSET Episode)
  /\ retry \in Retry
  /\ snatchq \in Seq(Result) /\ snatch \in Snatch
  /\ download \in Seq(Load) /\ Len(download) <= MaxSnatches
  /\ import \in Import
  /\ logged \in Statuses \cup {None} /\ blamed \subseteq Episode

LEMMA TypeFacts == TypeOK <=> Typed
BY DEF TypeOK, Typed, Retry, Snatch, Load, Import

-----------------------------------------------------------------------------
\* The operators on sequences and tables

LEMMA EpisodesFacts ==
  ASSUME NEW r \in Result
  PROVE  EpisodesOf[r] \subseteq Episode /\ NameOf[r] \in Range(NameOf)
BY FailedHistoryAssumption DEF Range

\* The episodes that wait to be searched again.
LEMMA ForcedFacts ==
  ASSUME forced \in Seq(SUBSET Episode), NEW segment \in SUBSET Episode, AddForced(segment)
  PROVE  forced' \in Seq(SUBSET Episode)
BY AppendProperties DEF AddForced

\* A download that ends keeps its place and its result.
LEMMA EndFacts ==
  ASSUME download \in Seq(Load), NEW k \in DOMAIN download,
         NEW s \in {"loading", "failed", "imported", "kept"},
         download' = [download EXCEPT ![k].state = s]
  PROVE  /\ download' \in Seq(Load) /\ Len(download') = Len(download)
         /\ DOMAIN download' = DOMAIN download
         /\ \A j \in DOMAIN download :
              /\ download'[j].result = download[j].result
              /\ download'[j].state = IF j = k THEN s ELSE download[j].state
<1>1. DOMAIN download = 1..Len(download) /\ Len(download) \in Nat
  BY LenProperties
<1>2. download[k] \in Load
  BY <1>1, ElementOfSeq
<1>3. [download[k] EXCEPT !.state = s] \in Load
  BY <1>2 DEF Load
<1>4. download' = [download EXCEPT ![k] = [download[k] EXCEPT !.state = s]]
  OBVIOUS
<1>5. download' \in Seq(Load) /\ Len(download') = Len(download)
  BY <1>1, <1>3, <1>4, ExceptSeq
<1>6. DOMAIN download' = DOMAIN download
  BY <1>4
<1>7. ASSUME NEW j \in DOMAIN download
      PROVE  /\ download'[j].result = download[j].result
             /\ download'[j].state = IF j = k THEN s ELSE download[j].state
  <2>1. CASE j = k
    BY <1>2, <1>4, <2>1 DEF Load
  <2>2. CASE j # k
    BY <1>4, <2>2
  <2> QED
    BY <2>1, <2>2
<1> QED
  BY <1>5, <1>6, <1>7

\* A download that begins comes last.
LEMMA BeginFacts ==
  ASSUME download \in Seq(Load), NEW r \in Result,
         download' = Append(download, [result |-> r, state |-> "loading"])
  PROVE  /\ download' \in Seq(Load) /\ Len(download) \in Nat /\ Len(download') = Len(download) + 1
         /\ DOMAIN download \subseteq DOMAIN download'
         /\ DOMAIN download = 1..Len(download) /\ Len(download') \in DOMAIN download'
         /\ download'[Len(download')] = [result |-> r, state |-> "loading"]
         /\ \A k \in DOMAIN download : download'[k] = download[k]
<1>1. [result |-> r, state |-> "loading"] \in Load
  BY DEF Load
<1>2. /\ download' \in Seq(Load) /\ Len(download') = Len(download) + 1
      /\ \A k \in 1..Len(download) : download'[k] = download[k]
      /\ download'[Len(download) + 1] = [result |-> r, state |-> "loading"]
  BY <1>1, AppendProperties
<1>3. /\ DOMAIN download = 1..Len(download) /\ Len(download) \in Nat
      /\ DOMAIN download' = 1..Len(download')
  BY <1>2, LenProperties
<1> QED
  BY <1>2, <1>3

LEMMA LogSnatchFacts ==
  ASSUME NEW R, NEW r, NEW d, NEW s, NEW x \in LogSnatch(R, r, d, s)
  PROVE  x \in R \/ (/\ x.result = r /\ x.date = d /\ x.episode \in EpisodesOf[r]
                     /\ x = [result |-> r, episode |-> x.episode, date |-> d,
                             status |-> s[x.episode]])
BY DEF LogSnatch

\* The value that all rows share is one of theirs.
LEMMA CommonFacts ==
  ASSUME NEW V, NEW other
  PROVE  /\ Common(V, other) \in V \cup {other}
         /\ \A v : V = {v} => Common(V, other) = v
<1>1. CASE Cardinality(V) = 1
  <2>1. V # {}
    BY <1>1, FS_EmptySet
  <2>2. Common(V, other) = CHOOSE v \in V : TRUE
    BY <1>1 DEF Common
  <2> QED
    BY <2>1, <2>2
<1>2. CASE Cardinality(V) # 1
  <2>1. Common(V, other) = other
    BY <1>2 DEF Common
  <2>2. \A v : V # {v}
    BY <1>2, FS_Singleton
  <2> QED
    BY <2>1, <2>2
<1> QED
  BY <1>1, <1>2

LEMMA RecordFacts ==
  ASSUME NEW R \in SUBSET Row, NEW name \in Range(NameOf)
  PROVE  RecordOf(R, name) \in Record
<1> DEFINE same == {x \in R : NameOf[x.result] = name}
           sizes == {SizeOf[x.result] : x \in same}
           providers == {ProviderOf[x.result] : x \in same}
<1>1. \A x \in same : x.result \in Result
  BY DEF Row
<1>2. sizes \subseteq {SizeOf[r] : r \in Result} /\ providers \subseteq {ProviderOf[r] : r \in Result}
  BY <1>1
<1>3. Common(sizes, -1) \in sizes \cup {-1} /\ Common(providers, "") \in providers \cup {""}
  BY CommonFacts
<1>4. name \in {NameOf[r] : r \in Result}
  BY FailedHistoryAssumption DEF Range
<1>5. RecordOf(R, name) = [name |-> name, size |-> Common(sizes, -1),
                           provider |-> Common(providers, "")]
  BY DEF RecordOf
<1> DEFINE size == Common(sizes, -1)
           provider == Common(providers, "")
           Names == {NameOf[r] : r \in Result}
           Sizes == {SizeOf[r] : r \in Result} \cup {-1}
           Providers == {ProviderOf[r] : r \in Result} \cup {""}
<1>6. size \in Sizes /\ provider \in Providers /\ name \in Names
  BY <1>2, <1>3, <1>4
<1>7. RecordOf(R, name) = [name |-> name, size |-> size, provider |-> provider]
  BY <1>5
<1>8. Record = [name : Names, size : Sizes, provider : Providers]
  BY DEF Record
<1> HIDE DEF size, provider, Names, Sizes, Providers
<1> QED
  BY <1>6, <1>7, <1>8

-----------------------------------------------------------------------------
\* The steps

\* All the steps, for the case distinctions below.
LEMMA NextCases ==
  ASSUME [Next]_vars
  PROVE  \/ Search \/ \E w \in Worker, r \in Result : Submit(w, r)
         \/ SnatchStart \/ SnatchSend \/ SnatchLog \/ SnatchMark \/ SnatchSave
         \/ \E k \in 1..MaxSnatches : DownloadFails(k) \/ ImportStart(k)
         \/ \E e \in Episode : ImportVideo(e) \/ ImportLeaves(e)
         \/ ImportMoved \/ ImportMoveFails \/ ImportEnds
         \/ RetryStart \/ \E e \in Episode : RetryMark(e)
         \/ RetryFind \/ RetryLog \/ RetryRevert \/ RetrySearch
         \/ UNCHANGED vars
BY DEF Next, Submitting, Snatching, Importing, Retrying

\* Searches find results, and hand them over to the snatch queue.
LEMMA SearchType ==
  ASSUME Typed,
         Search \/ \E w \in Worker, r \in Result : Submit(w, r)
  PROVE  Typed' /\ UNCHANGED <<rows, retry, snatch, download, import>>
<1>1. CASE Search
  <2>1. PICK S \in SUBSET Result : found' = [found EXCEPT !["search"] = S]
    BY <1>1 DEF Search, Picks, Candidates
  <2>2. found' \in [Worker -> SUBSET Result]
    BY <2>1 DEF Typed
  <2> QED
    BY <1>1, <2>2 DEF Search, Typed, db, ghosts
<1>2. ASSUME NEW w \in Worker, NEW r \in Result, Submit(w, r)
      PROVE  Typed' /\ UNCHANGED <<rows, retry, snatch, download, import>>
  <2>1. found' \in [Worker -> SUBSET Result]
    BY <1>2 DEF Submit, Typed
  <2>2. snatchq' \in Seq(Result)
    BY <1>2, AppendProperties DEF Submit, Typed
  <2> QED
    BY <1>2, <2>1, <2>2 DEF Submit, Typed, db, ghosts
<1> QED
  BY <1>1, <1>2

LEMMA SnatchType ==
  ASSUME Typed, SnatchInv, Snatching
  PROVE  Typed' /\ UNCHANGED <<retry, import>>
<1>1. CASE SnatchStart
  <2>1. Head(snatchq) \in Result /\ snatchq' \in Seq(Result)
    BY <1>1, HeadTailProperties DEF SnatchStart, Typed
  <2>2. snatch' \in Snatch
    BY <1>1, <2>1 DEF SnatchStart, Snatch
  <2> QED
    BY <1>1, <2>1, <2>2 DEF SnatchStart, Typed, db, ghosts
<1>2. CASE SnatchSend
  <2>1. \/ /\ Len(download) < MaxSnatches /\ snatch' = [snatch EXCEPT !.stage = "logging"]
           /\ download' = Append(download, [result |-> snatch.result, state |-> "loading"])
        \/ snatch' = NoSnatch /\ UNCHANGED download
    BY <1>2 DEF SnatchSend
  <2>2. snatch' \in Snatch
    BY <2>1 DEF Snatch, NoSnatch, Typed
  <2>3. snatch.result \in Result
    BY <1>2 DEF SnatchSend, SnatchInv
  <2>4. download' \in Seq(Load) /\ Len(download') <= MaxSnatches
    BY <2>1, <2>3, BeginFacts, SearchSnatchAssumption DEF Typed
  <2> QED
    BY <1>2, <2>2, <2>4 DEF SnatchSend, Typed, db, ghosts
<1>3. CASE SnatchLog
  <2>1. snatch.stage = "logging" /\ snatch.result \in Result
    BY <1>3 DEF SnatchLog, SnatchInv
  <2>2. snatch' \in Snatch
    BY <1>3 DEF SnatchLog, Snatch, Typed
  <2>3. rows' = LogSnatch(rows, snatch.result, Len(download), status)
    BY <1>3 DEF SnatchLog
  <2>4. Len(download) \in Nat
    BY LenProperties DEF Typed
  <2>5. ASSUME NEW x \in rows'
        PROVE  x \in Row
    <3>1. CASE x \in rows
      BY <3>1 DEF Typed
    <3>2. CASE x \notin rows
      <4>1. /\ x.episode \in EpisodesOf[snatch.result]
            /\ x = [result |-> snatch.result, episode |-> x.episode, date |-> Len(download),
                    status |-> status[x.episode]]
        BY <2>3, <2>5, <3>2, LogSnatchFacts
      <4>2. x.episode \in Episode
        BY <2>1, <4>1, EpisodesFacts
      <4>3. status[x.episode] \in Statuses
        BY <4>2 DEF Typed
      <4> QED
        BY <2>1, <2>4, <4>1, <4>2, <4>3 DEF Row
    <3> QED
      BY <3>1, <3>2
  <2> QED
    BY <1>3, <2>2, <2>5 DEF SnatchLog, Typed, ghosts
<1>4. CASE SnatchMark \/ SnatchSave
  <2>1. SnatchStatus \in Statuses
    BY DEF SnatchStatus, Statuses
  <2>2. status' \in [Episode -> Statuses] /\ stored' \in [Episode -> Statuses]
    BY <1>4, <2>1 DEF SnatchMark, SnatchSave, Typed
  <2>3. snatch' \in Snatch
    BY <1>4 DEF SnatchMark, SnatchSave, NoSnatch, Snatch, Typed
  <2> QED
    BY <1>4, <2>2, <2>3 DEF SnatchMark, SnatchSave, Typed, db, ghosts
<1>5. UNCHANGED <<retry, import>>
  BY DEF Snatching, SnatchStart, SnatchSend, SnatchLog, SnatchMark, SnatchSave
<1> QED
  BY <1>1, <1>2, <1>3, <1>4, <1>5 DEF Snatching

LEMMA DownloadType ==
  ASSUME Typed, NEW k \in 1..MaxSnatches, DownloadFails(k) \/ ImportStart(k)
  PROVE  Typed' /\ UNCHANGED <<rows, retry, snatch>>
<1>1. k \in DOMAIN download
  BY DEF DownloadFails, ImportStart, Loaded
<1>2. download[k] \in Load
  BY <1>1, LenProperties, ElementOfSeq DEF Typed
<1>3. EpisodesOf[download[k].result] \in SUBSET Episode
  BY <1>2, EpisodesFacts DEF Load
<1>4. CASE DownloadFails(k)
  <2>1. /\ download' = [download EXCEPT ![k].state = "failed"]
        /\ AddForced(EpisodesOf[download[k].result])
        /\ blamed' = blamed \cup EpisodesOf[download[k].result]
        /\ UNCHANGED <<status, stored, db, found, retry, snatchq, snatch, import, logged>>
    BY <1>4 DEF DownloadFails
  <2>2. download' \in Seq(Load) /\ Len(download') <= MaxSnatches
    BY <1>1, <2>1, EndFacts DEF Typed
  <2>3. forced' \in Seq(SUBSET Episode)
    BY <1>3, <2>1, ForcedFacts DEF Typed
  <2>4. blamed' \subseteq Episode
    BY <1>3, <2>1 DEF Typed
  <2> QED
    BY <2>1, <2>2, <2>3, <2>4 DEF Typed, db
<1>5. CASE ImportStart(k)
  <2>1. import' = [NoImport EXCEPT !.stage = "next", !.of = k,
                                   !.left = EpisodesOf[download[k].result]]
    BY <1>5 DEF ImportStart
  <2>2. k \in 0..MaxSnatches
    BY SearchSnatchAssumption
  <2>3. import' \in Import
    BY <1>3, <2>1, <2>2 DEF NoImport, Import
  <2> QED
    BY <1>5, <2>3 DEF ImportStart, Typed, db, ghosts
<1> QED
  BY <1>4, <1>5

\* What an import does to the record of it.
LEMMA ImportType ==
  ASSUME Typed, ImportInv, Importing
  PROVE  /\ Typed' /\ UNCHANGED <<retry, snatch>> /\ rows' \subseteq rows
         /\ import.stage # "idle" /\ import.of \in DOMAIN download
         /\ Imported \in Result
<1>0. import \in Import
  BY DEF Typed
<1>1. import.stage # "idle" /\ import.of \in DOMAIN download
  BY DEF Importing, ImportVideo, ImportLeaves, ImportMoved, ImportMoveFails, ImportEnds, ImportInv
<1>2. download[import.of] \in Load
  BY <1>1, LenProperties, ElementOfSeq DEF Typed
<1>3. Imported \in Result /\ EpisodesOf[Imported] \in SUBSET Episode
  BY <1>2, EpisodesFacts DEF Load, Imported
<1>4. ASSUME NEW e \in Episode, ImportVideo(e)
      PROVE  Typed' /\ UNCHANGED <<retry, snatch>> /\ rows' \subseteq rows
  <2>1. DownloadStatus \in Statuses
    BY DEF DownloadStatus, Statuses
  <2>2. status' \in [Episode -> Statuses]
    BY <1>4, <2>1 DEF ImportVideo, Typed
  <2>3. import' \in Import
    BY <1>0, <1>4 DEF ImportVideo, Import
  <2>4. rows' \subseteq rows
    BY <1>4 DEF ImportVideo, LogSuccess
  <2> QED
    BY <1>4, <2>2, <2>3, <2>4 DEF ImportVideo, Typed, ghosts
<1>5. ASSUME NEW e \in Episode, ImportLeaves(e)
      PROVE  Typed' /\ UNCHANGED <<retry, snatch, rows>>
  <2>1. import' \in Import
    BY <1>0, <1>5 DEF ImportLeaves, Import
  <2> QED
    BY <1>5, <2>1 DEF ImportLeaves, Typed, db, ghosts
<1>6. ASSUME ImportMoved \/ ImportMoveFails
      PROVE  Typed' /\ UNCHANGED <<retry, snatch, rows>>
  <2>1. import' \in Import
    BY <1>0, <1>6 DEF ImportMoved, ImportMoveFails, Import
  <2>2. stored' \in [Episode -> Statuses]
    <3>1. CASE ImportMoved
      <4>1. import.at \in Episode
        BY <1>3, <3>1 DEF ImportMoved, ImportInv
      <4> QED
        BY <3>1, <4>1 DEF ImportMoved, Typed
    <3>2. CASE ImportMoveFails
      BY <3>2 DEF ImportMoveFails, Typed
    <3> QED
      BY <1>6, <3>1, <3>2
  <2> QED
    BY <1>6, <2>1, <2>2 DEF ImportMoved, ImportMoveFails, Typed, db, ghosts
<1>7. ASSUME ImportEnds
      PROVE  Typed' /\ UNCHANGED <<retry, snatch, rows>>
  <2>1. import' \in Import
    BY <1>7, SearchSnatchAssumption DEF ImportEnds, NoImport, Import
  <2>2. download' \in Seq(Load) /\ Len(download') <= MaxSnatches
    <3>1. import.end \in {"loading", "failed", "imported", "kept"}
      BY <1>0 DEF Import
    <3>2. download' = [download EXCEPT ![import.of].state = import.end]
      BY <1>7 DEF ImportEnds
    <3> QED
      BY <1>1, <3>1, <3>2, EndFacts DEF Typed
  <2>3. forced' \in Seq(SUBSET Episode) /\ blamed' \subseteq Episode
    <3>1. CASE import.end = "failed"
      <4>1. AddForced(EpisodesOf[Imported]) /\ blamed' = blamed \cup EpisodesOf[Imported]
        BY <1>7, <3>1 DEF ImportEnds
      <4> QED
        BY <1>3, <4>1, ForcedFacts DEF Typed
    <3>2. CASE import.end # "failed"
      BY <1>7, <3>2 DEF ImportEnds, Typed
    <3> QED
      BY <3>1, <3>2
  <2> QED
    BY <1>7, <2>1, <2>2, <2>3 DEF ImportEnds, Typed, db
<1> QED
  BY <1>1, <1>3, <1>4, <1>5, <1>6, <1>7 DEF Importing

LEMMA RetryType ==
  ASSUME Typed, RetryInv, Retrying
  PROVE  Typed' /\ UNCHANGED <<snatch, download, import>> /\ rows' \subseteq rows
<1>0. retry \in Retry /\ rows \subseteq Row
  BY DEF Typed
<1>1. CASE RetryStart
  <2>1. Head(forced) \in SUBSET Episode /\ forced' \in Seq(SUBSET Episode)
    BY <1>1, HeadTailProperties DEF RetryStart, Typed
  <2>2. retry' \in Retry
    BY <1>1, <2>1 DEF RetryStart, NoRetry, Retry
  <2> QED
    BY <1>1, <2>1, <2>2 DEF RetryStart, Typed, db, ghosts
<1>2. ASSUME NEW e \in Episode, RetryMark(e)
      PROVE  Typed' /\ UNCHANGED <<snatch, download, import, rows>>
  <2>1. retry' \in Retry
    BY <1>0, <1>2 DEF RetryMark, Retry
  <2>2. status' \in [Episode -> Statuses] /\ stored' \in [Episode -> Statuses]
    BY <1>2 DEF RetryMark, Typed, Statuses
  <2> QED
    BY <1>2, <2>1, <2>2 DEF RetryMark, Typed, db
<1>3. CASE RetryFind
  <2>1. retry.at \in Episode
    BY <1>3 DEF RetryFind, RetryInv
  <2>2. CASE RowsOf(rows, retry.at) = {} /\ retry' = [retry EXCEPT !.stage = "reverting"]
             /\ UNCHANGED <<rows, logged>>
    <3>1. retry' \in Retry
      BY <1>0, <2>2 DEF Retry
    <3> QED
      BY <1>3, <2>2, <3>1 DEF RetryFind, Typed
  <2>3. ASSUME NEW x \in Found(rows, retry.at), rows' = AfterFind(rows, retry.at, x),
               retry' = [retry EXCEPT !.stage = "logging", !.release = NameOf[x.result]],
               logged' = x.status
        PROVE  Typed' /\ UNCHANGED <<snatch, download, import>> /\ rows' \subseteq rows
    <3>1. x \in Row
      BY <1>0 DEF Found, RowsOf
    <3>2. NameOf[x.result] \in Range(NameOf)
      BY <3>1, EpisodesFacts DEF Row
    <3>3. retry' \in Retry
      BY <1>0, <2>3, <3>2 DEF Retry
    <3>4. rows' \subseteq rows /\ logged' \in Statuses
      BY <2>3, <3>1 DEF AfterFind, Row
    <3> QED
      BY <1>3, <3>3, <3>4 DEF RetryFind, Typed
  <2> QED
    BY <1>3, <2>2, <2>3 DEF RetryFind
<1>4. CASE RetryLog
  <2>1. retry.release \in Range(NameOf)
    BY <1>4 DEF RetryLog, RetryInv
  <2>2. records' \subseteq Record
    BY <1>0, <1>4, <2>1, RecordFacts DEF RetryLog, Typed
  <2>3. rows' \subseteq rows
    BY <1>4 DEF RetryLog, AfterLogFailed
  <2>4. retry' \in Retry
    BY <1>0, <1>4 DEF RetryLog, Retry
  <2> QED
    BY <1>4, <2>2, <2>3, <2>4 DEF RetryLog, Typed, ghosts
<1>5. CASE RetryRevert
  <2>1. PICK s \in RevertStatuses(rows, retry.at) :
          /\ status' = [status EXCEPT ![retry.at] = s]
          /\ stored' = [stored EXCEPT ![retry.at] = s]
    BY <1>5 DEF RetryRevert
  <2>2. s \in Statuses
    BY <1>0 DEF RevertStatuses, RowsOf, Row, Statuses
  <2>3. status' \in [Episode -> Statuses] /\ stored' \in [Episode -> Statuses]
    BY <2>1, <2>2 DEF Typed
  <2>4. retry' \in Retry
    BY <1>0, <1>5 DEF RetryRevert, Retry
  <2> QED
    BY <1>5, <2>3, <2>4 DEF RetryRevert, Typed, db
<1>6. CASE RetrySearch
  <2>1. PICK S \in Picks("forced") : found' = [found EXCEPT !["forced"] = S]
    BY <1>6 DEF RetrySearch
  <2>2. S \in SUBSET Result
    BY DEF Picks, Candidates
  <2>3. found' \in [Worker -> SUBSET Result]
    BY <2>1, <2>2 DEF Typed
  <2>4. retry' \in Retry
    BY <1>6 DEF RetrySearch, NoRetry, Retry
  <2> QED
    BY <1>6, <2>3, <2>4 DEF RetrySearch, Typed, db, ghosts
<1> QED
  BY <1>1, <1>2, <1>3, <1>4, <1>5, <1>6 DEF Retrying, RetryStart, RetryRevert, RetrySearch, db

-----------------------------------------------------------------------------
\* What the threads have in hand

LEMMA PlaceInit == Init => PlaceInv
<1> SUFFICES ASSUME Init PROVE PlaceInv
  OBVIOUS
<1>1. Typed
  <2>1. 0 \in 0..MaxSnatches
    BY SearchSnatchAssumption
  <2>2. import \in Import /\ retry \in Retry /\ snatch \in Snatch
    BY <2>1 DEF Init, NoImport, NoRetry, NoSnatch, Import, Retry, Snatch
  <2>3. /\ forced \in Seq(SUBSET Episode) /\ snatchq \in Seq(Result)
        /\ download \in Seq(Load) /\ Len(download) <= MaxSnatches
    BY EmptySeq, SearchSnatchAssumption DEF Init
  <2>4. status \in [Episode -> Statuses] /\ stored \in [Episode -> Statuses]
    BY DEF Init, Statuses
  <2> QED
    BY <2>2, <2>3, <2>4 DEF Init, Typed
<1> QED
  BY <1>1, TypeFacts DEF Init, PlaceInv, SnatchInv, Sent, RetryInv, ImportInv, RowInv,
     NoImport, NoRetry, NoSnatch

LEMMA PlaceFrame ==
  ASSUME PlaceInv, Typed', UNCHANGED <<rows, retry, snatch, download, import>>
  PROVE  PlaceInv'
<1>1. TypeOK'
  BY TypeFacts, PTL
<1> QED
  BY <1>1 DEF PlaceInv, SnatchInv, Sent, RetryInv, ImportInv, Imported, RowInv

LEMMA SnatchPlace ==
  ASSUME PlaceInv, Snatching
  PROVE  PlaceInv'
<1>0. Typed /\ download \in Seq(Load)
  BY TypeFacts DEF PlaceInv, Typed
<1>1. Typed' /\ UNCHANGED <<retry, import>>
  BY <1>0, SnatchType DEF PlaceInv
<1>2. TypeOK' /\ RetryInv'
  <2>1. TypeOK'
    BY <1>1, TypeFacts, PTL
  <2> QED
    BY <1>1, <2>1 DEF PlaceInv, RetryInv
<1>3. CASE SnatchStart
  <2>1. UNCHANGED <<rows, download>> /\ snatch' = [stage |-> "sending", result |-> Head(snatchq)]
    BY <1>3 DEF SnatchStart, db
  <2>2. Head(snatchq) \in Result
    BY <1>0, <1>3, HeadTailProperties DEF SnatchStart, Typed
  <2> QED
    BY <1>1, <1>2, <2>1, <2>2 DEF PlaceInv, SnatchInv, Sent, ImportInv, Imported, RowInv
<1>4. CASE SnatchSend
  <2>1. CASE snatch' = NoSnatch /\ UNCHANGED download
    BY <1>1, <1>2, <1>4, <2>1
       DEF SnatchSend, db, NoSnatch, PlaceInv, SnatchInv, Sent, ImportInv, Imported, RowInv
  <2>2. CASE /\ snatch' = [snatch EXCEPT !.stage = "logging"]
             /\ download' = Append(download, [result |-> snatch.result, state |-> "loading"])
    <3>1. snatch.result \in Result /\ snatch \in Snatch /\ snatch.stage = "sending"
      BY <1>0, <1>4 DEF SnatchSend, PlaceInv, SnatchInv, Typed
    <3>2. snatch'.result = snatch.result /\ snatch'.stage = "logging"
      BY <2>2, <3>1 DEF Snatch
    <3>3. /\ Len(download) \in Nat /\ Len(download') = Len(download) + 1
          /\ DOMAIN download \subseteq DOMAIN download'
          /\ DOMAIN download = 1..Len(download) /\ Len(download') \in DOMAIN download'
          /\ download'[Len(download')] = [result |-> snatch.result, state |-> "loading"]
          /\ \A k \in DOMAIN download : download'[k] = download[k]
      BY <1>0, <2>2, <3>1, BeginFacts
    <3>4. SnatchInv'
      BY <3>1, <3>2, <3>3 DEF SnatchInv, Sent
    <3>5. ImportInv'
      BY <1>1, <3>3 DEF PlaceInv, ImportInv, Imported
    <3>6. RowInv'
      BY <1>4, <3>3 DEF SnatchSend, db, PlaceInv, RowInv
    <3> QED
      BY <1>2, <3>4, <3>5, <3>6 DEF PlaceInv
  <2> QED
    BY <1>4, <2>1, <2>2 DEF SnatchSend
<1>5. CASE SnatchLog
  <2>1. snatch \in Snatch /\ snatch.stage = "logging" /\ Sent
    BY <1>0, <1>5 DEF SnatchLog, Typed, Sent
  <2>2. /\ snatch.result \in Result /\ Len(download) > 0
        /\ download[Len(download)].result = snatch.result
        /\ download[Len(download)] = [result |-> snatch.result, state |-> "loading"]
    BY <2>1 DEF PlaceInv, SnatchInv
  <2>3. snatch'.result = snatch.result /\ snatch'.stage = "marking" /\ UNCHANGED download
    BY <1>5, <2>1 DEF SnatchLog, Snatch
  <2>4. Len(download) \in DOMAIN download
    BY <1>0, <2>2, LenProperties
  <2>5. SnatchInv' /\ ImportInv'
    BY <1>1, <2>1, <2>2, <2>3 DEF PlaceInv, SnatchInv, Sent, ImportInv, Imported
  <2>6. RowInv'
    <3> SUFFICES ASSUME NEW x \in rows'
                 PROVE  /\ x.date \in DOMAIN download /\ x.result = download[x.date].result
                        /\ x.episode \in EpisodesOf[x.result]
      BY <2>3 DEF RowInv
    <3>1. CASE x \in rows
      BY <3>1 DEF PlaceInv, RowInv
    <3>2. CASE x \notin rows
      <4>1. rows' = LogSnatch(rows, snatch.result, Len(download), status)
        BY <1>5 DEF SnatchLog
      <4> QED
        BY <2>2, <2>4, <3>2, <4>1, LogSnatchFacts
    <3> QED
      BY <3>1, <3>2
  <2> QED
    BY <1>2, <2>5, <2>6 DEF PlaceInv
<1>6. CASE SnatchMark \/ SnatchSave
  <2>1. snatch \in Snatch /\ UNCHANGED <<rows, download>> /\ Sent
    BY <1>0, <1>6 DEF SnatchMark, SnatchSave, db, Sent, Typed
  <2>2. snatch' = NoSnatch \/ snatch' = [snatch EXCEPT !.stage = "saving"]
    BY <1>6 DEF SnatchMark, SnatchSave
  <2>3. SnatchInv'
    BY <2>1, <2>2 DEF PlaceInv, SnatchInv, Sent, NoSnatch, Snatch
  <2> QED
    BY <1>1, <1>2, <2>1, <2>3 DEF PlaceInv, ImportInv, Imported, RowInv
<1> QED
  BY <1>3, <1>4, <1>5, <1>6 DEF Snatching

LEMMA DownloadPlace ==
  ASSUME PlaceInv, NEW k \in 1..MaxSnatches, DownloadFails(k) \/ ImportStart(k)
  PROVE  PlaceInv'
<1>0. Typed /\ download \in Seq(Load)
  BY TypeFacts DEF PlaceInv, Typed
<1>1. Typed' /\ UNCHANGED <<rows, retry, snatch>>
  BY <1>0, DownloadType
<1>2. TypeOK' /\ RetryInv'
  <2>1. TypeOK'
    BY <1>1, TypeFacts, PTL
  <2> QED
    BY <1>1, <2>1 DEF PlaceInv, RetryInv
<1>3. k \in DOMAIN download /\ k # import.of /\ (Sent => k # Len(download))
  BY DEF DownloadFails, ImportStart, Loaded, Sent
<1>4. CASE DownloadFails(k)
  <2>1. download' = [download EXCEPT ![k].state = "failed"] /\ UNCHANGED import
    BY <1>4 DEF DownloadFails
  <2>2. /\ Len(download') = Len(download) /\ DOMAIN download' = DOMAIN download
        /\ \A j \in DOMAIN download : download'[j].result = download[j].result
    BY <1>0, <1>3, <2>1, EndFacts
  <2>3. Sent => download'[Len(download)] = download[Len(download)]
    BY <1>3, <2>1
  <2>4. SnatchInv'
    BY <1>1, <2>2, <2>3 DEF PlaceInv, SnatchInv, Sent
  <2>5. ImportInv'
    BY <1>1, <2>1, <2>2 DEF PlaceInv, ImportInv, Imported, Sent
  <2>6. RowInv'
    BY <1>1, <2>2 DEF PlaceInv, RowInv
  <2> QED
    BY <1>2, <2>4, <2>5, <2>6 DEF PlaceInv
<1>5. CASE ImportStart(k)
  <2>1. /\ import' = [NoImport EXCEPT !.stage = "next", !.of = k,
                                      !.left = EpisodesOf[download[k].result]]
        /\ UNCHANGED download
    BY <1>5 DEF ImportStart
  <2>2. ImportInv'
    BY <1>1, <1>3, <2>1 DEF ImportInv, Imported, NoImport, Sent
  <2> QED
    BY <1>1, <1>2, <2>1, <2>2 DEF PlaceInv, SnatchInv, Sent, RowInv
<1> QED
  BY <1>4, <1>5

LEMMA ImportPlace ==
  ASSUME PlaceInv, Importing
  PROVE  PlaceInv'
<1>0. Typed /\ download \in Seq(Load) /\ import \in Import
  BY TypeFacts DEF PlaceInv, Typed
<1>1. /\ Typed' /\ UNCHANGED <<retry, snatch>> /\ rows' \subseteq rows
      /\ import.stage # "idle" /\ import.of \in DOMAIN download
  BY <1>0, ImportType DEF PlaceInv
<1>2. TypeOK' /\ RetryInv'
  <2>1. TypeOK'
    BY <1>1, TypeFacts, PTL
  <2> QED
    BY <1>1, <2>1 DEF PlaceInv, RetryInv
<1>3. /\ import.left \subseteq EpisodesOf[Imported] /\ (Sent => import.of # Len(download))
      /\ SnatchInv /\ RowInv
  BY <1>1 DEF PlaceInv, ImportInv
<1>4. ASSUME ~ImportEnds
      PROVE  PlaceInv'
  <2>1. UNCHANGED download
    BY <1>4 DEF Importing, ImportVideo, ImportLeaves, ImportMoved, ImportMoveFails
  <2>2. ImportInv'
    <3>1. CASE \E e \in Episode : ImportVideo(e)
      BY <1>0, <1>1, <1>3, <2>1, <3>1 DEF ImportVideo, ImportInv, Imported, Import, Sent
    <3>2. CASE \E e \in Episode : ImportLeaves(e)
      <4>1. import.at = None /\ import.stage = "next"
        BY <3>2 DEF ImportLeaves, PlaceInv, ImportInv
      <4> QED
        BY <1>0, <1>1, <1>3, <2>1, <3>2, <4>1 DEF ImportLeaves, ImportInv, Imported, Import, Sent
    <3>3. CASE ImportMoved \/ ImportMoveFails
      BY <1>0, <1>1, <1>3, <2>1, <3>3
         DEF ImportMoved, ImportMoveFails, ImportInv, Imported, Import, Sent
    <3> QED
      BY <1>4, <3>1, <3>2, <3>3 DEF Importing
  <2> QED
    BY <1>1, <1>2, <1>3, <2>1, <2>2 DEF PlaceInv, SnatchInv, Sent, RowInv
<1>5. ASSUME ImportEnds
      PROVE  PlaceInv'
  <2>1. import.end \in {"loading", "failed", "imported", "kept"}
    BY <1>0 DEF Import
  <2>2. download' = [download EXCEPT ![import.of].state = import.end] /\ import' = NoImport
    BY <1>5 DEF ImportEnds
  <2>3. /\ Len(download') = Len(download) /\ DOMAIN download' = DOMAIN download
        /\ \A j \in DOMAIN download : download'[j].result = download[j].result
    BY <1>0, <1>1, <2>1, <2>2, EndFacts
  <2>4. Sent => download'[Len(download)] = download[Len(download)]
    BY <1>3, <2>2
  <2>5. SnatchInv'
    BY <1>1, <1>3, <2>3, <2>4 DEF SnatchInv, Sent
  <2>6. ImportInv'
    BY <2>2 DEF ImportInv, NoImport
  <2>7. RowInv'
    BY <1>1, <1>3, <2>3 DEF RowInv
  <2> QED
    BY <1>2, <2>5, <2>6, <2>7 DEF PlaceInv
<1> QED
  BY <1>4, <1>5

LEMMA RetryPlace ==
  ASSUME PlaceInv, Retrying
  PROVE  PlaceInv'
<1>0. Typed /\ retry \in Retry
  BY TypeFacts DEF PlaceInv, Typed
<1>1. Typed' /\ UNCHANGED <<snatch, download, import>> /\ rows' \subseteq rows
  BY <1>0, RetryType DEF PlaceInv
<1>2. TypeOK'
  BY <1>1, TypeFacts, PTL
<1>3. RetryInv'
  <2>1. CASE RetryStart \/ RetrySearch
    <3>1. retry'.stage \in {"marking", "idle"}
      <4>1. CASE RetryStart
        <5>1. PICK h : retry' = [NoRetry EXCEPT !.stage = "marking", !.segment = h, !.left = h]
          BY <4>1 DEF RetryStart
        <5>2. retry' = [stage |-> "marking", segment |-> h, left |-> h, at |-> None,
                        release |-> None]
          BY <5>1, Zenon DEF NoRetry
        <5> QED
          BY <5>2
      <4>2. CASE RetrySearch
        BY <4>2 DEF RetrySearch, NoRetry
      <4> QED
        BY <2>1, <4>1, <4>2
    <3> QED
      BY <3>1 DEF RetryInv
  <2>2. CASE \E e \in Episode : RetryMark(e)
    BY <1>0, <2>2 DEF RetryMark, RetryInv, Retry
  <2>3. CASE RetryFind
    <3>1. retry.at \in Episode /\ rows \subseteq Row
      BY <1>0, <2>3 DEF RetryFind, PlaceInv, RetryInv, Typed
    <3>2. CASE retry' = [retry EXCEPT !.stage = "reverting"]
      BY <1>0, <3>1, <3>2 DEF RetryInv, Retry
    <3>3. ASSUME NEW x \in Found(rows, retry.at),
                 retry' = [retry EXCEPT !.stage = "logging", !.release = NameOf[x.result]]
          PROVE  RetryInv'
      <4>1. x.result \in Result
        BY <3>1 DEF Found, RowsOf, Row
      <4> QED
        BY <1>0, <3>1, <3>3, <4>1, EpisodesFacts DEF RetryInv, Retry
    <3> QED
      BY <2>3, <3>2, <3>3 DEF RetryFind
  <2>4. CASE RetryLog
    BY <1>0, <2>4 DEF RetryLog, PlaceInv, RetryInv, Retry
  <2>5. CASE RetryRevert
    BY <1>0, <2>5 DEF RetryRevert, RetryInv, Retry
  <2> QED
    BY <2>1, <2>2, <2>3, <2>4, <2>5 DEF Retrying
<1> QED
  BY <1>1, <1>2, <1>3 DEF PlaceInv, SnatchInv, Sent, ImportInv, Imported, RowInv

LEMMA PlaceStep == PlaceInv /\ [Next]_vars => PlaceInv'
<1> SUFFICES ASSUME PlaceInv, [Next]_vars PROVE PlaceInv'
  OBVIOUS
<1>0. Typed
  BY TypeFacts DEF PlaceInv
<1>1. CASE Search \/ \E w \in Worker, r \in Result : Submit(w, r)
  BY <1>0, <1>1, SearchType, PlaceFrame
<1>2. CASE UNCHANGED vars
  <2>1. Typed'
    BY <1>0, <1>2 DEF Typed, vars, db, ghosts
  <2> QED
    BY <1>2, <2>1, PlaceFrame DEF vars, db
<1> QED
  BY <1>1, <1>2, SnatchPlace, DownloadPlace, ImportPlace, RetryPlace
     DEF Next, Submitting

\* TypeOK holds: what each thread has in hand fits the tables and the downloads
\* that the others work on.
THEOREM TypeCorrect == Spec => []TypeOK
<1>1. Spec => []PlaceInv
  BY PlaceInit, PlaceStep, PTL DEF Spec
<1>2. PlaceInv => TypeOK
  BY DEF PlaceInv
<1> QED
  BY <1>1, <1>2, PTL

-----------------------------------------------------------------------------
\* The downloads that were imported

\* Rows that go, whatever deletes them, do no harm.
LEMMA ForgottenFrame ==
  ASSUME ForgottenInv, rows' \subseteq rows, UNCHANGED <<download, import>>
  PROVE  ForgottenInv'
BY DEF ForgottenInv, ImportedIsForgotten

LEMMA ForgottenSnatch ==
  ASSUME PlaceInv, ForgottenInv, Snatching
  PROVE  ForgottenInv'
<1>0. Typed /\ download \in Seq(Load)
  BY TypeFacts DEF PlaceInv, Typed
<1>1. UNCHANGED import
  BY DEF Snatching, SnatchStart, SnatchSend, SnatchLog, SnatchMark, SnatchSave
<1>2. CASE SnatchStart \/ SnatchMark \/ SnatchSave
  BY <1>2, ForgottenFrame DEF SnatchStart, SnatchMark, SnatchSave, db
<1>3. CASE SnatchSend
  <2>1. CASE UNCHANGED download
    BY <1>1, <1>3, <2>1, ForgottenFrame DEF SnatchSend, db
  <2>2. CASE download' = Append(download, [result |-> snatch.result, state |-> "loading"])
    <3>1. snatch.result \in Result
      BY <1>3 DEF SnatchSend, PlaceInv, SnatchInv
    <3>2. \A k \in DOMAIN download : download'[k] = download[k]
      BY <1>0, <2>2, <3>1, BeginFacts
    <3> QED
      BY <1>1, <1>3, <3>2
         DEF SnatchSend, db, PlaceInv, RowInv, ForgottenInv, ImportedIsForgotten
  <2> QED
    BY <1>3, <2>1, <2>2 DEF SnatchSend
<1>4. CASE SnatchLog
  <2>1. Sent /\ UNCHANGED download /\ rows' = LogSnatch(rows, snatch.result, Len(download), status)
    BY <1>4 DEF SnatchLog, Sent
  <2>2. download[Len(download)].state = "loading"
    BY <2>1 DEF PlaceInv, SnatchInv
  <2>3. \A x \in rows' : x \in rows \/ x.date = Len(download)
    BY <2>1, LogSnatchFacts
  <2>4. import.stage = "moving" \/ import.end = "imported" => import.of # Len(download)
    BY <2>1 DEF PlaceInv, ImportInv, NoImport
  <2> QED
    BY <1>1, <2>1, <2>2, <2>3, <2>4 DEF ForgottenInv, ImportedIsForgotten
<1> QED
  BY <1>2, <1>3, <1>4 DEF Snatching

LEMMA ForgottenDownload ==
  ASSUME PlaceInv, ForgottenInv, NEW k \in 1..MaxSnatches, DownloadFails(k) \/ ImportStart(k)
  PROVE  ForgottenInv'
<1>0. Typed /\ download \in Seq(Load)
  BY TypeFacts DEF PlaceInv, Typed
<1>1. CASE DownloadFails(k)
  <2>1. /\ k \in DOMAIN download /\ download' = [download EXCEPT ![k].state = "failed"]
        /\ UNCHANGED <<rows, import>>
    BY <1>1 DEF DownloadFails, Loaded, db
  <2>2. \A j \in DOMAIN download : download'[j].state \in {download[j].state, "failed"}
    BY <1>0, <2>1, EndFacts
  <2> QED
    BY <2>1, <2>2 DEF PlaceInv, RowInv, ForgottenInv, ImportedIsForgotten
<1>2. CASE ImportStart(k)
  <2>1. import'.stage = "next" /\ import'.end = "kept" /\ UNCHANGED <<rows, download>>
    BY <1>2 DEF ImportStart, NoImport, db
  <2> QED
    BY <2>1 DEF ForgottenInv, ImportedIsForgotten
<1> QED
  BY <1>1, <1>2

LEMMA ForgottenImport ==
  ASSUME PlaceInv, ForgottenInv, Importing
  PROVE  ForgottenInv'
<1>0. Typed /\ download \in Seq(Load) /\ import \in Import
  BY TypeFacts DEF PlaceInv, Typed
<1>1. rows' \subseteq rows /\ import.of \in DOMAIN download
  BY <1>0, ImportType DEF PlaceInv
<1>2. ASSUME NEW e \in Episode, ImportVideo(e)
      PROVE  ForgottenInv'
  <2>1. rows' = LogSuccess(rows, Imported) /\ UNCHANGED download
    BY <1>2 DEF ImportVideo
  <2>2. import'.of = import.of
    BY <1>0, <1>2 DEF ImportVideo, Import
  <2>3. \A x \in rows' : x.date # import.of
    BY <2>1 DEF LogSuccess, PlaceInv, RowInv, Imported
  <2> QED
    BY <1>1, <2>1, <2>2, <2>3 DEF ForgottenInv, ImportedIsForgotten
<1>3. ASSUME NEW e \in Episode, ImportLeaves(e)
      PROVE  ForgottenInv'
  <2>1. /\ import'.of = import.of /\ import'.stage = "next"
        /\ import'.end \in {import.end, "failed"} /\ UNCHANGED <<rows, download>>
    BY <1>0, <1>3 DEF ImportLeaves, Import, db
  <2> QED
    BY <2>1 DEF ForgottenInv, ImportedIsForgotten
<1>4. CASE ImportMoved \/ ImportMoveFails
  <2>1. import.stage = "moving" /\ import'.of = import.of /\ UNCHANGED <<rows, download>>
    BY <1>0, <1>4 DEF ImportMoved, ImportMoveFails, Import, db
  <2> QED
    BY <2>1 DEF ForgottenInv, ImportedIsForgotten
<1>5. CASE ImportEnds
  <2>1. /\ download' = [download EXCEPT ![import.of].state = import.end]
        /\ import' = NoImport /\ UNCHANGED rows
    BY <1>5 DEF ImportEnds, db
  <2>2. import.end \in {"loading", "failed", "imported", "kept"}
    BY <1>0 DEF Import
  <2>3. \A j \in DOMAIN download :
          download'[j].state = IF j = import.of THEN import.end ELSE download[j].state
    BY <1>0, <1>1, <2>1, <2>2, EndFacts
  <2>4. import'.stage = "idle" /\ import'.end = "kept"
    BY <2>1 DEF NoImport
  <2> QED
    BY <2>1, <2>3, <2>4 DEF PlaceInv, RowInv, ForgottenInv, ImportedIsForgotten
<1> QED
  BY <1>2, <1>3, <1>4, <1>5 DEF Importing

LEMMA ForgottenStep == PlaceInv /\ ForgottenInv /\ [Next]_vars => ForgottenInv'
<1> SUFFICES ASSUME PlaceInv, ForgottenInv, [Next]_vars PROVE ForgottenInv'
  OBVIOUS
<1>0. Typed
  BY TypeFacts DEF PlaceInv
<1>1. CASE Search \/ \E w \in Worker, r \in Result : Submit(w, r)
  BY <1>0, <1>1, SearchType, ForgottenFrame
<1>2. CASE Retrying
  BY <1>0, <1>2, RetryType, ForgottenFrame DEF PlaceInv
<1>3. CASE UNCHANGED vars
  BY <1>3, ForgottenFrame DEF vars, db
<1> QED
  BY <1>1, <1>2, <1>3, ForgottenSnatch, ForgottenDownload, ForgottenImport
     DEF Next, Submitting

\* ImportedIsForgotten holds: neither the snatch of a release, logged some time after
\* the client accepted it, nor its retry leaves a row of a download that was imported.
THEOREM Forgotten == Spec => []ImportedIsForgotten
<1>1. Init => ForgottenInv
  BY DEF Init, ForgottenInv, ImportedIsForgotten, NoImport
<1>2. Spec => []ForgottenInv
  BY <1>1, PlaceInit, PlaceStep, ForgottenStep, PTL DEF Spec
<1>3. ForgottenInv => ImportedIsForgotten
  BY DEF ForgottenInv
<1> QED
  BY <1>2, <1>3, PTL

-----------------------------------------------------------------------------
\* The episodes that are snatched

LEMMA CoveredSame ==
  ASSUME UNCHANGED download, blamed \subseteq blamed', NEW e, Covered(e)
  PROVE  Covered(e)'
BY DEF Covered

\* A download that ends badly leaves its episodes to the retry.
LEMMA CoveredEnd ==
  ASSUME download \in Seq(Load), NEW k \in DOMAIN download,
         NEW s \in {"failed", "imported", "kept"},
         download' = [download EXCEPT ![k].state = s],
         blamed \subseteq blamed',
         s = "failed" => EpisodesOf[download[k].result] \subseteq blamed',
         NEW e, Covered(e)
  PROVE  Covered(e)'
<1>1. /\ DOMAIN download' = DOMAIN download
      /\ \A j \in DOMAIN download : /\ download'[j].result = download[j].result
                                    /\ download'[j].state = IF j = k THEN s ELSE download[j].state
  BY EndFacts
<1>2. CASE e \in blamed
  BY <1>2 DEF Covered
<1>3. ASSUME NEW j \in DOMAIN download,
             e \in EpisodesOf[download[j].result], download[j].state # "failed"
      PROVE  Covered(e)'
  <2>1. CASE j # k \/ s # "failed"
    <3>1. download'[j].state # "failed"
      BY <1>1, <1>3, <2>1
    <3> QED
      BY <1>1, <1>3, <3>1 DEF Covered
  <2>2. CASE j = k /\ s = "failed"
    BY <1>3, <2>2 DEF Covered
  <2> QED
    BY <2>1, <2>2
<1> QED
  BY <1>2, <1>3 DEF Covered

\* A step that gives no episode the status of a snatch, and adds no row.
LEMMA CoverFrame ==
  ASSUME CoverInv, rows' \subseteq rows, UNCHANGED retry,
         \A e : Covered(e) => Covered(e)',
         \A e \in Episode : status'[e] \in {"SNATCHED", "SNATCHED_BEST"} =>
                              status[e] \in {"SNATCHED", "SNATCHED_BEST"}
  PROVE  CoverInv'
<1>1. (\A e \in Episode : status[e] \in {"SNATCHED", "SNATCHED_BEST"} => Covered(e))'
  BY DEF CoverInv
<1>2. (retry.stage = "logging" =>
         \/ Covered(retry.at)
         \/ \E r \in Result :
              /\ NameOf[r] = retry.release /\ retry.at \in EpisodesOf[r]
              /\ \A x \in rows : x.episode = retry.at \/ NameOf[x.result] = retry.release
                                   => x.result = r)'
  <2> SUFFICES ASSUME retry.stage = "logging", ~Covered(retry.at)'
               PROVE  \E r \in Result :
                        /\ NameOf[r] = retry.release /\ retry.at \in EpisodesOf[r]
                        /\ \A x \in rows' : x.episode = retry.at \/ NameOf[x.result] = retry.release
                                              => x.result = r
    BY Zenon
  <2>1. ~Covered(retry.at)
    BY DEF Covered
  <2> QED
    BY <2>1 DEF CoverInv
<1>3. (retry.stage = "reverting" => Covered(retry.at) \/ RowsOf(rows, retry.at) = {})'
  <2>1. Covered(retry.at) => Covered(retry.at)'
    BY DEF Covered
  <2> QED
    BY <2>1 DEF CoverInv, RowsOf
<1> QED
  BY <1>1, <1>2, <1>3 DEF CoverInv

LEMMA CoverSnatch ==
  ASSUME PlaceInv, CoverInv, Snatching
  PROVE  CoverInv'
<1>0. Typed /\ download \in Seq(Load)
  BY TypeFacts DEF PlaceInv, Typed
<1>1. UNCHANGED <<retry, blamed>>
  BY DEF Snatching, SnatchStart, SnatchSend, SnatchLog, SnatchMark, SnatchSave, ghosts
<1>2. CASE SnatchStart \/ SnatchSave
  <2>1. UNCHANGED <<status, rows, download>>
    BY <1>2 DEF SnatchStart, SnatchSave, db
  <2> QED
    BY <1>1, <2>1, CoveredSame, CoverFrame
<1>3. CASE SnatchSend
  <2>1. UNCHANGED <<status, rows>>
    BY <1>3 DEF SnatchSend, db
  <2>2. ASSUME NEW e, Covered(e)
        PROVE  Covered(e)'
    <3>1. CASE UNCHANGED download
      BY <1>1, <2>2, <3>1, CoveredSame
    <3>2. CASE download' = Append(download, [result |-> snatch.result, state |-> "loading"])
      <4>1. snatch.result \in Result
        BY <1>3 DEF SnatchSend, PlaceInv, SnatchInv
      <4>2. /\ DOMAIN download \subseteq DOMAIN download'
            /\ \A k \in DOMAIN download : download'[k] = download[k]
        BY <1>0, <3>2, <4>1, BeginFacts
      <4> QED
        BY <1>1, <2>2, <4>2 DEF Covered
    <3> QED
      BY <1>3, <3>1, <3>2 DEF SnatchSend
  <2> QED
    BY <1>1, <2>1, <2>2, CoverFrame
<1>4. ASSUME Sent, NEW e \in EpisodesOf[snatch.result]
      PROVE  Covered(e)
  <2>1. Len(download) \in DOMAIN download
    BY <1>0, <1>4, LenProperties DEF PlaceInv, SnatchInv
  <2> QED
    BY <1>4, <2>1 DEF PlaceInv, SnatchInv, Covered
<1>5. CASE SnatchMark
  <2>1. Sent /\ UNCHANGED <<rows, download>>
    BY <1>5 DEF SnatchMark, Sent, db
  <2>2. status' = [e \in Episode |-> IF e \in EpisodesOf[snatch.result] THEN SnatchStatus
                                                                      ELSE status[e]]
    BY <1>5 DEF SnatchMark
  <2>3. \A e : Covered(e) => Covered(e)'
    BY <1>1, <2>1, CoveredSame
  <2>4. ASSUME NEW e \in Episode, status'[e] \in {"SNATCHED", "SNATCHED_BEST"}
        PROVE  Covered(e)
    <3>1. CASE e \in EpisodesOf[snatch.result]
      BY <1>4, <2>1, <3>1
    <3>2. CASE e \notin EpisodesOf[snatch.result]
      BY <2>2, <2>4, <3>2 DEF CoverInv
    <3> QED
      BY <3>1, <3>2
  <2>5. (\A e \in Episode : status[e] \in {"SNATCHED", "SNATCHED_BEST"} => Covered(e))'
    BY <2>3, <2>4
  <2> QED
    BY <1>1, <2>1, <2>5 DEF CoverInv, RowsOf, Covered
<1>6. CASE SnatchLog
  <2>1. Sent /\ UNCHANGED <<status, download>>
    BY <1>6 DEF SnatchLog, Sent
  <2>2. rows' = LogSnatch(rows, snatch.result, Len(download), status) /\ snatch.result \in Result
    BY <1>6, <2>1 DEF SnatchLog, PlaceInv, SnatchInv, Sent
  <2>3. \A e : Covered(e) => Covered(e)'
    BY <1>1, <2>1, CoveredSame
  <2>4. ASSUME NEW y \in rows', y \notin rows
        PROVE  /\ y.result = snatch.result /\ y.episode \in EpisodesOf[snatch.result]
               /\ Covered(y.episode)'
    BY <1>4, <2>1, <2>2, <2>3, <2>4, LogSnatchFacts
  <2>5. ASSUME retry.stage = "logging", ~Covered(retry.at)'
        PROVE  \E r \in Result :
                 /\ NameOf[r] = retry.release /\ retry.at \in EpisodesOf[r]
                 /\ \A x \in rows' : x.episode = retry.at \/ NameOf[x.result] = retry.release
                                       => x.result = r
    <3>1. ~Covered(retry.at)
      BY <1>1, <2>1, <2>5 DEF Covered
    <3>2. PICK r \in Result :
            /\ NameOf[r] = retry.release /\ retry.at \in EpisodesOf[r]
            /\ \A x \in rows : x.episode = retry.at \/ NameOf[x.result] = retry.release
                                 => x.result = r
      BY <2>5, <3>1 DEF CoverInv
    <3>3. retry.at \notin EpisodesOf[snatch.result]
      BY <1>4, <2>1, <3>1
    <3>4. NameOf[snatch.result] # retry.release
      BY <2>2, <3>2, <3>3, FailedHistoryAssumption
    <3>5. \A y \in rows' : y.episode = retry.at \/ NameOf[y.result] = retry.release => y \in rows
      BY <2>4, <3>3, <3>4
    <3> QED
      BY <3>2, <3>5
  <2>6. ASSUME retry.stage = "reverting", ~Covered(retry.at)'
        PROVE  RowsOf(rows', retry.at) = {}
    <3>1. ~Covered(retry.at)
      BY <1>1, <2>1, <2>6 DEF Covered
    <3>2. RowsOf(rows, retry.at) = {}
      BY <2>6, <3>1 DEF CoverInv
    <3>3. retry.at \notin EpisodesOf[snatch.result]
      BY <1>4, <2>1, <3>1
    <3> QED
      BY <2>4, <3>2, <3>3 DEF RowsOf
  <2>7. (\A e \in Episode : status[e] \in {"SNATCHED", "SNATCHED_BEST"} => Covered(e))'
    BY <2>1, <2>3 DEF CoverInv
  <2>8. (retry.stage = "logging" =>
           \/ Covered(retry.at)
           \/ \E r \in Result :
                /\ NameOf[r] = retry.release /\ retry.at \in EpisodesOf[r]
                /\ \A x \in rows : x.episode = retry.at \/ NameOf[x.result] = retry.release
                                     => x.result = r)'
    BY <1>1, <2>5
  <2>9. (retry.stage = "reverting" => Covered(retry.at) \/ RowsOf(rows, retry.at) = {})'
    BY <1>1, <2>6
  <2> QED
    BY <2>7, <2>8, <2>9 DEF CoverInv
<1> QED
  BY <1>2, <1>3, <1>5, <1>6 DEF Snatching

LEMMA CoverDownload ==
  ASSUME PlaceInv, CoverInv, NEW k \in 1..MaxSnatches, DownloadFails(k) \/ ImportStart(k)
  PROVE  CoverInv'
<1>0. Typed /\ download \in Seq(Load)
  BY TypeFacts DEF PlaceInv, Typed
<1>1. UNCHANGED <<retry, rows, status>>
  BY DEF DownloadFails, ImportStart, db
<1>2. CASE DownloadFails(k)
  <2>1. /\ k \in DOMAIN download /\ download' = [download EXCEPT ![k].state = "failed"]
        /\ blamed' = blamed \cup EpisodesOf[download[k].result]
    BY <1>2 DEF DownloadFails, Loaded
  <2>2. \A e : Covered(e) => Covered(e)'
    BY <1>0, <2>1, CoveredEnd
  <2> QED
    BY <1>1, <2>2, CoverFrame
<1>3. CASE ImportStart(k)
  <2>1. UNCHANGED <<download, blamed>>
    BY <1>3 DEF ImportStart, ghosts
  <2> QED
    BY <1>1, <2>1, CoveredSame, CoverFrame
<1> QED
  BY <1>2, <1>3

LEMMA CoverImport ==
  ASSUME PlaceInv, CoverInv, Importing
  PROVE  CoverInv'
<1>0. Typed /\ download \in Seq(Load) /\ import \in Import
  BY TypeFacts DEF PlaceInv, Typed
<1>1. UNCHANGED retry /\ rows' \subseteq rows /\ import.of \in DOMAIN download
  BY <1>0, ImportType DEF PlaceInv
<1>2. ASSUME NEW e \in Episode, ImportVideo(e)
      PROVE  CoverInv'
  <2>1. status' = [status EXCEPT ![e] = DownloadStatus] /\ UNCHANGED <<download, blamed>>
    BY <1>2 DEF ImportVideo, ghosts
  <2>2. DownloadStatus \notin {"SNATCHED", "SNATCHED_BEST"}
    BY DEF DownloadStatus
  <2>3. \A d \in Episode : status'[d] \in {"SNATCHED", "SNATCHED_BEST"} =>
                             status[d] \in {"SNATCHED", "SNATCHED_BEST"}
    BY <1>0, <2>1, <2>2 DEF Typed
  <2> QED
    BY <1>1, <2>1, <2>3, CoveredSame, CoverFrame
<1>3. CASE (\E e \in Episode : ImportLeaves(e)) \/ ImportMoved \/ ImportMoveFails
  <2>1. UNCHANGED <<status, download, blamed>>
    BY <1>3 DEF ImportLeaves, ImportMoved, ImportMoveFails, ghosts
  <2> QED
    BY <1>1, <2>1, CoveredSame, CoverFrame
<1>4. CASE ImportEnds
  <2>1. download' = [download EXCEPT ![import.of].state = import.end] /\ UNCHANGED status
    BY <1>4 DEF ImportEnds
  <2>2. /\ blamed \subseteq blamed'
        /\ import.end = "failed" => EpisodesOf[download[import.of].result] \subseteq blamed'
    <3>1. CASE import.end = "failed"
      BY <1>4, <3>1 DEF ImportEnds, Imported
    <3>2. CASE import.end # "failed"
      BY <1>4, <3>2 DEF ImportEnds
    <3> QED
      BY <3>1, <3>2
  <2>3. import.end \in {"failed", "imported", "kept"}
    BY <1>0 DEF Import
  <2>4. \A e : Covered(e) => Covered(e)'
    BY <1>0, <1>1, <2>1, <2>2, <2>3, CoveredEnd
  <2> QED
    BY <1>1, <2>1, <2>4, CoverFrame
<1> QED
  BY <1>2, <1>3, <1>4 DEF Importing

\* The row that is found is of a release all of whose rows have one result.
LEMMA FindFacts ==
  ASSUME PlaceInv, NEW e \in Episode, NEW x \in Found(rows, e),
         NEW y \in AfterFind(rows, e, x),
         y.episode = e \/ NameOf[y.result] = NameOf[x.result]
  PROVE  y.result = x.result
<1>1. x \in rows /\ x.episode = e /\ y \in rows
  BY DEF Found, RowsOf, AfterFind
<1>2. rows \subseteq Row
  BY TypeFacts DEF PlaceInv, Typed
<1>3. x.date \in Nat /\ y.date \in Nat
  BY <1>1, <1>2 DEF Row
<1>4. y.date = x.date
  <2>1. CASE y.episode = e
    <3>1. y.date <= x.date
      BY <1>1, <2>1 DEF Found, RowsOf
    <3>2. y.date >= x.date
      BY <2>1 DEF AfterFind
    <3> QED
      BY <1>3, <3>1, <3>2
  <2>2. CASE NameOf[y.result] = NameOf[x.result]
    BY <2>2 DEF AfterFind
  <2> QED
    BY <2>1, <2>2
<1> QED
  BY <1>1, <1>4 DEF PlaceInv, RowInv

\* The rows of a release that all have one result go when its failure is logged.
LEMMA LogFailedFacts ==
  ASSUME NEW R \in SUBSET Row, NEW r \in Result,
         \A x \in R : NameOf[x.result] = NameOf[r] => x.result = r,
         NEW y \in AfterLogFailed(R, NameOf[r])
  PROVE  y.result # r
<1> DEFINE same == {x \in R : NameOf[x.result] = NameOf[r]}
           sizes == {SizeOf[x.result] : x \in same}
           providers == {ProviderOf[x.result] : x \in same}
<1> SUFFICES ASSUME y.result = r PROVE FALSE
  OBVIOUS
<1>1. y \in same /\ \A x \in same : x.result = r
  BY DEF AfterLogFailed
<1>2. sizes = {SizeOf[r]} /\ providers = {ProviderOf[r]}
  BY <1>1
<1>3. Common(sizes, -1) = SizeOf[r] /\ Common(providers, "") = ProviderOf[r]
  BY <1>2, CommonFacts
<1>4. RecordOf(R, NameOf[r]) = [name |-> NameOf[r], size |-> Common(sizes, -1),
                                provider |-> Common(providers, "")]
  BY DEF RecordOf
<1> DEFINE record == RecordOf(R, NameOf[r])
<1>5. record = [name |-> NameOf[r], size |-> SizeOf[r], provider |-> ProviderOf[r]]
  BY <1>3, <1>4, Zenon
<1> HIDE DEF record
<1>6. /\ record.name = NameOf[r] /\ record.size = SizeOf[r]
      /\ record.provider = ProviderOf[r]
  BY <1>5, Zenon
<1>7. Matches(y, record)
  BY <1>6 DEF Matches
<1> QED
  BY <1>7 DEF AfterLogFailed, record

LEMMA CoverRetry ==
  ASSUME PlaceInv, CoverInv, Retrying
  PROVE  CoverInv'
<1>0. Typed /\ retry \in Retry /\ rows \subseteq Row
  BY TypeFacts DEF PlaceInv, Typed
<1>1. rows' \subseteq rows /\ UNCHANGED download
  BY <1>0, RetryType DEF PlaceInv
<1>2. CASE RetryStart \/ RetrySearch
  <2>1. UNCHANGED <<status, blamed>>
    BY <1>2 DEF RetryStart, RetrySearch, ghosts
  <2>2. retry'.stage \notin {"logging", "reverting"}
    <3>1. CASE RetryStart
      <4>1. PICK h : retry' = [NoRetry EXCEPT !.stage = "marking", !.segment = h, !.left = h]
        BY <3>1 DEF RetryStart
      <4>2. retry' = [stage |-> "marking", segment |-> h, left |-> h, at |-> None,
                      release |-> None]
        BY <4>1, Zenon DEF NoRetry
      <4> QED
        BY <4>2
    <3>2. CASE RetrySearch
      BY <3>2 DEF RetrySearch, NoRetry
    <3> QED
      BY <1>2, <3>1, <3>2
  <2> QED
    BY <1>1, <2>1, <2>2 DEF CoverInv, Covered
<1>3. ASSUME NEW e \in Episode, RetryMark(e)
      PROVE  CoverInv'
  <2>1. status' = [status EXCEPT ![e] = "FAILED"] /\ blamed' = blamed \ {e}
    BY <1>3 DEF RetryMark
  <2>2. retry'.stage = "finding"
    BY <1>0, <1>3 DEF RetryMark, Retry
  <2>3. \A d \in Episode : d # e /\ Covered(d) => Covered(d)'
    BY <1>1, <2>1 DEF Covered
  <2>4. \A d \in Episode : status'[d] \in {"SNATCHED", "SNATCHED_BEST"} =>
          d # e /\ status[d] \in {"SNATCHED", "SNATCHED_BEST"}
    BY <1>0, <2>1 DEF Typed
  <2>5. (\A d \in Episode : status[d] \in {"SNATCHED", "SNATCHED_BEST"} => Covered(d))'
    BY <2>3, <2>4 DEF CoverInv
  <2> QED
    BY <2>2, <2>5 DEF CoverInv
<1>4. CASE RetryFind
  <2>1. UNCHANGED <<status, blamed>> /\ retry.at \in Episode
    BY <1>4 DEF RetryFind, PlaceInv, RetryInv
  <2>2. \A e : Covered(e) => Covered(e)'
    BY <1>1, <2>1, CoveredSame
  <2>3. (\A e \in Episode : status[e] \in {"SNATCHED", "SNATCHED_BEST"} => Covered(e))'
    BY <2>1, <2>2 DEF CoverInv
  <2>4. CASE RowsOf(rows, retry.at) = {} /\ retry' = [retry EXCEPT !.stage = "reverting"]
    <3>1. retry'.stage = "reverting" /\ retry'.at = retry.at
      BY <1>0, <2>4 DEF Retry
    <3>2. RowsOf(rows', retry'.at) = {}
      BY <1>1, <2>4, <3>1 DEF RowsOf
    <3> QED
      BY <2>3, <3>1, <3>2 DEF CoverInv
  <2>5. ASSUME NEW x \in Found(rows, retry.at), rows' = AfterFind(rows, retry.at, x),
               retry' = [retry EXCEPT !.stage = "logging", !.release = NameOf[x.result]]
        PROVE  CoverInv'
    <3>1. /\ retry'.stage = "logging" /\ retry'.at = retry.at
          /\ retry'.release = NameOf[x.result]
      BY <1>0, <2>5 DEF Retry
    <3>2. x.result \in Result /\ retry.at \in EpisodesOf[x.result]
      BY <1>0 DEF Found, RowsOf, Row, PlaceInv, RowInv
    <3>3. \A y \in rows' : y.episode = retry.at \/ NameOf[y.result] = NameOf[x.result]
                             => y.result = x.result
      BY <2>1, <2>5, FindFacts
    <3>4. \E r \in Result :
            /\ NameOf[r] = retry'.release /\ retry'.at \in EpisodesOf[r]
            /\ \A y \in rows' : y.episode = retry'.at \/ NameOf[y.result] = retry'.release
                                  => y.result = r
      BY <3>1, <3>2, <3>3
    <3>5. retry'.stage # "reverting"
      BY <3>1
    <3> QED
      BY <2>3, <3>4, <3>5 DEF CoverInv
  <2> QED
    BY <1>4, <2>4, <2>5 DEF RetryFind
<1>5. CASE RetryLog
  <2>1. /\ UNCHANGED <<status, blamed>> /\ retry.stage = "logging"
        /\ rows' = AfterLogFailed(rows, retry.release)
    BY <1>5 DEF RetryLog, ghosts
  <2>2. retry'.stage = "reverting" /\ retry'.at = retry.at
    BY <1>0, <1>5 DEF RetryLog, Retry
  <2>3. \A e : Covered(e) => Covered(e)'
    BY <1>1, <2>1, CoveredSame
  <2>4. ASSUME ~Covered(retry.at)
        PROVE  RowsOf(rows', retry.at) = {}
    <3>1. PICK r \in Result :
            /\ NameOf[r] = retry.release /\ retry.at \in EpisodesOf[r]
            /\ \A x \in rows : x.episode = retry.at \/ NameOf[x.result] = retry.release
                                 => x.result = r
      BY <2>1, <2>4 DEF CoverInv
    <3>2. \A y \in rows' : y.result # r
      BY <1>0, <2>1, <3>1, LogFailedFacts
    <3> QED
      BY <1>1, <3>1, <3>2 DEF RowsOf
  <2>5. Covered(retry.at)' \/ RowsOf(rows', retry'.at) = {}
    BY <2>2, <2>3, <2>4
  <2>6. (\A e \in Episode : status[e] \in {"SNATCHED", "SNATCHED_BEST"} => Covered(e))'
    BY <2>1, <2>3 DEF CoverInv
  <2>7. retry'.stage # "logging"
    BY <2>2
  <2> QED
    BY <2>5, <2>6, <2>7 DEF CoverInv
<1>6. CASE RetryRevert
  <2>1. UNCHANGED <<rows, blamed>> /\ retry.stage = "reverting"
    BY <1>6 DEF RetryRevert, db
  <2>2. PICK s \in RevertStatuses(rows, retry.at) : status' = [status EXCEPT ![retry.at] = s]
    BY <1>6 DEF RetryRevert
  <2>3. retry'.stage \in {"searching", "marking"}
    BY <1>0, <1>6 DEF RetryRevert, Retry
  <2>4. \A e : Covered(e) => Covered(e)'
    BY <1>1, <2>1, CoveredSame
  <2>5. ASSUME NEW e \in Episode, status'[e] \in {"SNATCHED", "SNATCHED_BEST"}
        PROVE  Covered(e)
    <3>1. CASE e # retry.at
      <4>1. status'[e] = status[e]
        BY <2>2, <3>1, <1>0 DEF Typed
      <4> QED
        BY <2>5, <4>1 DEF CoverInv
    <3>2. CASE e = retry.at
      <4>1. s \in {"SNATCHED", "SNATCHED_BEST"}
        BY <1>0, <2>2, <2>5, <3>2 DEF Typed
      <4>2. RowsOf(rows, retry.at) # {}
        BY <4>1, <2>2 DEF RevertStatuses
      <4> QED
        BY <2>1, <3>2, <4>2 DEF CoverInv
    <3> QED
      BY <3>1, <3>2
  <2>6. (\A e \in Episode : status[e] \in {"SNATCHED", "SNATCHED_BEST"} => Covered(e))'
    BY <2>4, <2>5
  <2> QED
    BY <2>3, <2>6 DEF CoverInv
<1> QED
  BY <1>2, <1>3, <1>4, <1>5, <1>6 DEF Retrying

LEMMA CoverStep == PlaceInv /\ CoverInv /\ [Next]_vars => CoverInv'
<1> SUFFICES ASSUME PlaceInv, CoverInv, [Next]_vars PROVE CoverInv'
  OBVIOUS
<1>0. Typed
  BY TypeFacts DEF PlaceInv
<1>1. CASE Search \/ \E w \in Worker, r \in Result : Submit(w, r)
  <2>1. UNCHANGED <<status, blamed>>
    BY <1>1 DEF Search, Submit, ghosts
  <2> QED
    BY <1>0, <1>1, <2>1, SearchType, CoveredSame, CoverFrame
<1>2. CASE UNCHANGED vars
  BY <1>2, CoveredSame, CoverFrame DEF vars, db, ghosts
<1> QED
  BY <1>1, <1>2, CoverSnatch, CoverDownload, CoverImport, CoverRetry DEF Next, Submitting

\* NoOrphan holds: whatever the order in which a snatch, a failure and its retry
\* write the status of an episode, a snatched episode has a download that goes on,
\* or a retry that is still to come.
THEOREM NoOrphans == Spec => []NoOrphan
<1>1. Init => CoverInv
  BY DEF Init, CoverInv, NoRetry
<1>2. Spec => []CoverInv
  BY <1>1, PlaceInit, PlaceStep, CoverStep, PTL DEF Spec
<1>3. CoverInv => NoOrphan
  BY DEF CoverInv, Covered, NoOrphan
<1> QED
  BY <1>2, <1>3, PTL

-----------------------------------------------------------------------------
\* The episodes that were imported

LEMMA SavedFrame ==
  ASSUME SavedInv, UNCHANGED import, import.stage # "idle" => Imported' = Imported,
         blamed \subseteq blamed',
         \A e \in Episode : /\ status'[e] \in {"DOWNLOADED", "DOWNLOADED_BEST"}
                            /\ stored'[e] = "WANTED"
                            => /\ status[e] \in {"DOWNLOADED", "DOWNLOADED_BEST"}
                               /\ stored[e] = "WANTED"
  PROVE  SavedInv'
<1>1. \A e \in Episode : Unsaved(e) => Unsaved(e)'
  BY DEF Unsaved
<1> QED
  BY <1>1 DEF SavedInv

LEMMA SavedSnatch ==
  ASSUME PlaceInv, SavedInv, Snatching
  PROVE  SavedInv'
<1>0. Typed /\ download \in Seq(Load)
  BY TypeFacts DEF PlaceInv, Typed
<1>1. UNCHANGED <<import, blamed>>
  BY DEF Snatching, SnatchStart, SnatchSend, SnatchLog, SnatchMark, SnatchSave, ghosts
<1>2. import.stage # "idle" => Imported' = Imported
  <2>1. CASE UNCHANGED download
    BY <1>1, <2>1 DEF Imported
  <2>2. CASE SnatchSend /\ download' = Append(download, [result |-> snatch.result, state |-> "loading"])
    <3>1. snatch.result \in Result
      BY <2>2 DEF SnatchSend, PlaceInv, SnatchInv
    <3>2. \A k \in DOMAIN download : download'[k] = download[k]
      BY <1>0, <2>2, <3>1, BeginFacts
    <3> QED
      BY <1>1, <3>2 DEF Imported, PlaceInv, ImportInv
  <2> QED
    BY <2>1, <2>2 DEF Snatching, SnatchStart, SnatchSend, SnatchLog, SnatchMark, SnatchSave
<1>3. SnatchStatus \notin {"DOWNLOADED", "DOWNLOADED_BEST", "WANTED"}
  BY DEF SnatchStatus
<1>4. \A e \in Episode : /\ status'[e] \in {"DOWNLOADED", "DOWNLOADED_BEST"}
                         /\ stored'[e] = "WANTED"
                         => /\ status[e] \in {"DOWNLOADED", "DOWNLOADED_BEST"}
                            /\ stored[e] = "WANTED"
  <2>1. CASE SnatchMark
    BY <1>3, <2>1 DEF SnatchMark
  <2>2. CASE SnatchSave
    BY <1>3, <2>2 DEF SnatchSave
  <2>3. CASE SnatchStart \/ SnatchSend \/ SnatchLog
    BY <2>3 DEF SnatchStart, SnatchSend, SnatchLog
  <2> QED
    BY <2>1, <2>2, <2>3 DEF Snatching
<1> QED
  BY <1>1, <1>2, <1>4, SavedFrame

LEMMA SavedDownload ==
  ASSUME PlaceInv, SavedInv, NEW k \in 1..MaxSnatches, DownloadFails(k) \/ ImportStart(k)
  PROVE  SavedInv'
<1>0. Typed /\ download \in Seq(Load)
  BY TypeFacts DEF PlaceInv, Typed
<1>1. UNCHANGED <<status, stored>>
  BY DEF DownloadFails, ImportStart
<1>2. CASE DownloadFails(k)
  <2>1. /\ k \in DOMAIN download /\ download' = [download EXCEPT ![k].state = "failed"]
        /\ blamed \subseteq blamed' /\ UNCHANGED import
    BY <1>2 DEF DownloadFails, Loaded
  <2>2. \A j \in DOMAIN download : download'[j].result = download[j].result
    BY <1>0, <2>1, EndFacts
  <2>3. import.stage # "idle" => Imported' = Imported
    BY <2>1, <2>2 DEF Imported, PlaceInv, ImportInv
  <2> QED
    BY <1>1, <2>1, <2>3, SavedFrame
<1>3. CASE ImportStart(k)
  <2>1. import = NoImport /\ UNCHANGED blamed
    BY <1>3 DEF ImportStart, ghosts
  <2>2. \A e \in Episode : Unsaved(e) => e \in blamed
    BY <2>1, SearchSnatchAssumption DEF Unsaved, NoImport
  <2> QED
    BY <1>1, <2>1, <2>2 DEF SavedInv, Unsaved
<1> QED
  BY <1>2, <1>3

LEMMA SavedImport ==
  ASSUME PlaceInv, SavedInv, Importing
  PROVE  SavedInv'
<1>0. Typed /\ import \in Import
  BY TypeFacts DEF PlaceInv, Typed
<1>1. import.stage # "moving" => \A e \in Episode : e # import.at
  BY SearchSnatchAssumption DEF PlaceInv, ImportInv
<1>2. ASSUME NEW e \in Episode, ImportVideo(e)
      PROVE  SavedInv'
  <2>1. /\ import.stage = "next" /\ UNCHANGED <<stored, download, blamed>>
        /\ status' = [status EXCEPT ![e] = DownloadStatus]
    BY <1>2 DEF ImportVideo, ghosts
  <2>2. /\ import'.of = import.of /\ import'.end = import.end /\ import'.at = e
        /\ import'.stage = "moving"
    BY <1>0, <1>2 DEF ImportVideo, Import
  <2>3. Unsaved(e)'
    BY <2>2 DEF Unsaved
  <2>4. \A d \in Episode : Unsaved(d) => Unsaved(d)'
    BY <1>1, <2>1, <2>2 DEF Unsaved, Imported
  <2>5. \A d \in Episode : d # e => status'[d] = status[d]
    BY <1>0, <2>1 DEF Typed
  <2> QED
    BY <2>1, <2>3, <2>4, <2>5 DEF SavedInv
<1>3. ASSUME NEW e \in Episode, ImportLeaves(e)
      PROVE  SavedInv'
  <2>1. import.stage = "next" /\ UNCHANGED <<status, stored, download, blamed>>
    BY <1>3 DEF ImportLeaves, ghosts
  <2>2. /\ import'.of = import.of /\ import'.end \in {import.end, "failed"}
        /\ import'.stage = "next"
    BY <1>0, <1>3 DEF ImportLeaves, Import
  <2>3. \A d \in Episode : Unsaved(d) => Unsaved(d)'
    BY <1>1, <2>1, <2>2 DEF Unsaved, Imported
  <2> QED
    BY <2>1, <2>3 DEF SavedInv
<1>4. CASE ImportMoved
  <2>1. /\ stored' = [stored EXCEPT ![import.at] = status[import.at]]
        /\ UNCHANGED <<status, download, blamed>>
    BY <1>4 DEF ImportMoved, ghosts
  <2>2. /\ import'.of = import.of /\ import'.stage = "next"
        /\ import.end = "failed" => import'.end = "failed"
    BY <1>0, <1>4 DEF ImportMoved, Import
  <2>3. \A d \in Episode : d # import.at => (Unsaved(d) => Unsaved(d)')
    BY <2>1, <2>2 DEF Unsaved, Imported
  <2>4. \A d \in Episode : stored'[d] = IF d = import.at THEN status[d] ELSE stored[d]
    BY <1>0, <2>1 DEF Typed
  <2> QED
    BY <2>1, <2>3, <2>4 DEF SavedInv
<1>5. CASE ImportMoveFails
  <2>1. import.stage = "moving" /\ UNCHANGED <<status, stored, download, blamed>>
    BY <1>5 DEF ImportMoveFails, ghosts
  <2>2. import'.of = import.of /\ import'.stage = "next" /\ import'.end = "failed"
    BY <1>0, <1>5 DEF ImportMoveFails, Import
  <2>3. import.at \in EpisodesOf[Imported]
    BY <2>1 DEF PlaceInv, ImportInv
  <2>4. \A d \in Episode : Unsaved(d) => Unsaved(d)'
    BY <2>1, <2>2, <2>3 DEF Unsaved, Imported
  <2> QED
    BY <2>1, <2>4 DEF SavedInv
<1>6. CASE ImportEnds
  <2>1. import.stage = "next" /\ UNCHANGED <<status, stored>>
    BY <1>6 DEF ImportEnds
  <2>2. \A d \in Episode : Unsaved(d) => d \in blamed'
    <3>1. CASE import.end = "failed"
      BY <1>1, <1>6, <2>1, <3>1 DEF ImportEnds, Unsaved
    <3>2. CASE import.end # "failed"
      BY <1>1, <1>6, <2>1, <3>2 DEF ImportEnds, Unsaved
    <3> QED
      BY <3>1, <3>2
  <2> QED
    BY <2>1, <2>2 DEF SavedInv, Unsaved
<1> QED
  BY <1>2, <1>3, <1>4, <1>5, <1>6 DEF Importing

LEMMA SavedRetry ==
  ASSUME PlaceInv, SavedInv, Retrying
  PROVE  SavedInv'
<1>0. Typed
  BY TypeFacts DEF PlaceInv
<1>1. UNCHANGED <<import, download>> /\ Imported' = Imported
  BY <1>0, RetryType DEF PlaceInv, Imported
<1>2. CASE RetryStart \/ RetryFind \/ RetryLog \/ RetrySearch
  <2>1. UNCHANGED <<status, stored, blamed>>
    BY <1>2 DEF RetryStart, RetryFind, RetryLog, RetrySearch, ghosts
  <2> QED
    BY <1>1, <2>1, SavedFrame
<1>3. ASSUME NEW e \in Episode, RetryMark(e)
      PROVE  SavedInv'
  <2>1. status' = [status EXCEPT ![e] = "FAILED"] /\ stored' = [stored EXCEPT ![e] = "FAILED"]
        /\ blamed' = blamed \ {e}
    BY <1>3 DEF RetryMark
  <2>2. status'[e] = "FAILED"
    BY <1>0, <2>1 DEF Typed
  <2>3. \A d \in Episode : d # e => /\ status'[d] = status[d] /\ stored'[d] = stored[d]
                                    /\ (Unsaved(d) => Unsaved(d)')
    BY <1>0, <1>1, <2>1 DEF Typed, Unsaved
  <2> QED
    BY <2>2, <2>3 DEF SavedInv
<1>4. CASE RetryRevert
  <2>1. PICK s : /\ status' = [status EXCEPT ![retry.at] = s]
                 /\ stored' = [stored EXCEPT ![retry.at] = s]
    BY <1>4 DEF RetryRevert
  <2>2. \A d \in Episode : \/ status'[d] = stored'[d]
                           \/ status'[d] = status[d] /\ stored'[d] = stored[d]
    BY <1>0, <2>1 DEF Typed
  <2>3. UNCHANGED blamed
    BY <1>4 DEF RetryRevert
  <2> QED
    BY <1>1, <2>2, <2>3, SavedFrame
<1> QED
  BY <1>2, <1>3, <1>4 DEF Retrying

LEMMA SavedStep == PlaceInv /\ SavedInv /\ [Next]_vars => SavedInv'
<1> SUFFICES ASSUME PlaceInv, SavedInv, [Next]_vars PROVE SavedInv'
  OBVIOUS
<1>0. Typed
  BY TypeFacts DEF PlaceInv
<1>1. CASE Search \/ \E w \in Worker, r \in Result : Submit(w, r)
  <2>1. UNCHANGED <<status, stored, blamed>>
    BY <1>1 DEF Search, Submit, ghosts
  <2> QED
    BY <1>0, <1>1, <2>1, SearchType, SavedFrame DEF Imported
<1>2. CASE UNCHANGED vars
  BY <1>2, SavedFrame DEF vars, ghosts, Imported
<1> QED
  BY <1>1, <1>2, SavedSnatch, SavedDownload, SavedImport, SavedRetry DEF Next, Submitting

\* ImportedIsNotWanted holds: the database lags behind the memory for an imported
\* episode only while its video is moved, or if a failure of it is still to be handled.
THEOREM NotWanted == Spec => []ImportedIsNotWanted
<1>1. Init => SavedInv
  BY DEF Init, SavedInv
<1>2. Spec => []SavedInv
  BY <1>1, PlaceInit, PlaceStep, SavedStep, PTL DEF Spec
<1>3. SavedInv => ImportedIsNotWanted
  BY DEF SavedInv, Unsaved, ImportedIsNotWanted
<1> QED
  BY <1>2, <1>3, PTL

-----------------------------------------------------------------------------
\* The releases that failed

\* The step of log_failed.
Rejection ==
  \A x \in rows :
    /\ retry.stage = "logging" /\ retry'.stage # "logging"
    /\ NameOf[x.result] = retry.release
    /\ \A y \in rows : NameOf[y.result] = retry.release =>
         SizeOf[y.result] = SizeOf[x.result] /\ ProviderOf[y.result] = ProviderOf[x.result]
    => HasFailed(records', x.result)

LEMMA RejectionStep == PlaceInv /\ [Next]_vars => Rejection
<1> SUFFICES ASSUME PlaceInv, [Next]_vars, NEW x \in rows,
                    retry.stage = "logging", retry'.stage # "logging",
                    NameOf[x.result] = retry.release,
                    \A y \in rows : NameOf[y.result] = retry.release =>
                      /\ SizeOf[y.result] = SizeOf[x.result]
                      /\ ProviderOf[y.result] = ProviderOf[x.result]
             PROVE  HasFailed(records', x.result)
  BY DEF Rejection
<1>0. Typed
  BY TypeFacts DEF PlaceInv
<1>1. RetryLog
  <2>1. CASE Search \/ \E w \in Worker, r \in Result : Submit(w, r)
    BY <1>0, <2>1, SearchType
  <2>2. CASE Snatching
    BY <1>0, <2>2, SnatchType DEF PlaceInv
  <2>3. CASE \E k \in 1..MaxSnatches : DownloadFails(k) \/ ImportStart(k)
    BY <1>0, <2>3, DownloadType
  <2>4. CASE Importing
    BY <1>0, <2>4, ImportType DEF PlaceInv
  <2>5. CASE Retrying
    BY <2>5 DEF Retrying, RetryStart, NoRetry, RetryMark, RetryFind, RetryRevert, RetrySearch
  <2> QED
    BY <2>1, <2>2, <2>3, <2>4, <2>5 DEF Next, Submitting, vars
<1> DEFINE name == retry.release
           same == {y \in rows : NameOf[y.result] = name}
           sizes == {SizeOf[y.result] : y \in same}
           providers == {ProviderOf[y.result] : y \in same}
<1>2. x \in same
  OBVIOUS
<1>3. sizes = {SizeOf[x.result]} /\ providers = {ProviderOf[x.result]}
  BY <1>2
<1>4. Common(sizes, -1) = SizeOf[x.result] /\ Common(providers, "") = ProviderOf[x.result]
  BY <1>3, CommonFacts
<1>5. RecordOf(rows, name) = [name |-> name, size |-> Common(sizes, -1),
                              provider |-> Common(providers, "")]
  BY DEF RecordOf
<1>6. RecordOf(rows, name) = [name |-> NameOf[x.result], size |-> SizeOf[x.result],
                              provider |-> ProviderOf[x.result]]
  BY <1>4, <1>5, Zenon
<1> QED
  BY <1>1, <1>6, Zenon DEF RetryLog, HasFailed

\* LoggedIsRejected holds, whatever the number of rows of the release.
THEOREM Rejected == Spec => LoggedIsRejected
<1>1. Spec => []PlaceInv
  BY PlaceInit, PlaceStep, PTL DEF Spec
<1>2. LoggedIsRejected <=> [][Rejection]_vars
  BY DEF LoggedIsRejected, Rejection
<1> QED
  BY <1>1, <1>2, RejectionStep, PTL DEF Spec
=============================================================================
