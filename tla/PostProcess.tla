----------------------------- MODULE PostProcess -----------------------------
(***************************************************************************)
(* medusa/process_tv.py: a post-processing job over a directory, run again *)
(* and again by the download handler until the job has written the status  *)
(* of the download to the history.                                         *)
(*                                                                         *)
(* With SingleResource the job was queued by the download handler, with a  *)
(* directory and the name of a resource, and there is a history row.  The  *)
(* resource is a folder of the directory (a torrent in a save path where   *)
(* other downloads lie too), the directory itself (it bears the same name, *)
(* or the resource is an nzb), or one file of it.  Without a resource (a   *)
(* scheduled or a manual run) the directory and each of its subfolders are *)
(* paths of their own.  What should_process looks at, the whole directory, *)
(* is not what _get_files lists.                                           *)
(*                                                                         *)
(* Folders hold videos, an archive with videos, files that are still being *)
(* synced, and others, which only make a folder be listed.  What           *)
(* PostProcessor.process does with one video is one of its results: it     *)
(* imports it, keeps the equal file it has, aborts, or fails (it raises,   *)
(* or returns False).                                                      *)
(***************************************************************************)
EXTENDS FiniteSets, Sequences

CONSTANTS
  Folder, Root,       \* the folders, and the one that is the directory
  Tree,               \* what lies under each folder, itself among it
  Release,            \* the subfolder that bears the name of the resource
  Video, FolderOf,    \* the videos, and the folder of each
  File,               \* the video that bears the name of the resource
  Packed,             \* the videos that are in the archive of their folder
  None,
  Setup               \* the kinds of job, and the settings they run with

\* The subfolders of a folder.
Children(f) ==
  {c \in Tree[f] \ {f} : \A g \in Tree[f] : c \in Tree[g] => g \in {f, c}}

ASSUME PostProcessAssumption ==
  /\ Tree \in [Folder -> SUBSET Folder]
  /\ Root \in Folder /\ Tree[Root] = Folder
  /\ \A f \in Folder : f \in Tree[f]
  /\ \A f, g \in Folder : /\ g \in Tree[f] => Tree[g] \subseteq Tree[f]
                          /\ f \in Tree[g] /\ g \in Tree[f] => f = g
                          /\ f \in Tree[g] \/ g \in Tree[f] \/ Tree[f] \cap Tree[g] = {}
  /\ Release \in Children(Root)
  /\ None \notin Folder
  /\ "download" \notin Video
  /\ FolderOf \in [Video -> Folder]
  /\ Packed \subseteq Video
  /\ File \in Video \ Packed /\ FolderOf[File] = Root
  /\ Setup \subseteq [single : BOOLEAN, runner : BOOLEAN,
                      kind : {"folder", "same", "file", "all"},
                      method : {"move", "copy", "link"}, has : SUBSET (Video \ Packed),
                      mayMark : SUBSET Folder, maySync : SUBSET Folder,
                      protected : BOOLEAN, unpack : BOOLEAN, postponeIfNoSubs : BOOLEAN,
                      useFailedDownloads : BOOLEAN, deleteFailed : BOOLEAN,
                      delRarContents : BOOLEAN]
  /\ \A s \in Setup : s.single => s.kind # "all" /\ ~s.runner

VARIABLES
  setup,        \* the one of this behaviour
  broken,       \* the folders whose archive cannot be unpacked
  status,       \* client_status of the download in the history
  clientFailed, \* whether the client reported the download as failed
  mark,         \* what the name of a folder says: _FAILED_, _UNPACK_, or nothing
  syncing,      \* the folders that hold sync files
  unsubbed,     \* the videos without the subtitles they need
  disk,         \* the videos that are files of their folder
  archives,     \* the folders that still hold their archive
  library,      \* the videos that were imported
  stage,        \* where the job is
  paths,        \* the paths still to be visited
  folders,      \* the folders of the current path still to be visited
  here,         \* the folder being processed
  unpacked,     \* rar_content: the videos listed by the archive of this folder
  passes,       \* the videos left for each call of process_media in this folder
  pr,           \* the flags of the ProcessResult object
  outcome,      \* what this run did with each video
  held,         \* the folders that this run skipped because of sync files
  blamed,       \* what this run passed to failed download handling
  abandoned     \* this run ended without an end: by an exception, or without a path

world == <<setup, broken, clientFailed, mark, syncing, unsubbed>>
files == <<disk, archives, library>>
walk == <<paths, folders, here, unpacked, passes>>
ghosts == <<outcome, held, blamed, abandoned>>
vars == <<status, world, files, stage, walk, pr, ghosts>>

SingleResource == setup.single                  \* process_single_resource, with an info_hash
Scheduled == setup.runner                       \* a run of PostProcessorRunner
Kind == setup.kind                              \* what the resource is: "all" if there is none
Protected == setup.protected                    \* delete_folder leaves the directory alone
Unpack == setup.unpack                          \* app.UNPACK
Method == setup.method                          \* process_method: "link" for all links
PostponeIfNoSubs == setup.postponeIfNoSubs      \* app.POSTPONE_IF_NO_SUBS
UseFailedDownloads == setup.useFailedDownloads  \* app.USE_FAILED_DOWNLOADS
DeleteFailed == setup.deleteFailed              \* app.DELETE_FAILED
DelRarContents == setup.delRarContents          \* app.DELRARCONTENTS

Outcomes == {"unseen", "already", "imported", "kept", "aborted", "failed", "postponed"}

\* The failed download as a whole, for the set blamed.
Download == "download"

TypeOK ==
  /\ setup \in Setup
  /\ broken \subseteq Folder
  /\ status \in {"Completed", "Postprocessed Completed", "Postprocessed Failed"}
  /\ clientFailed \in BOOLEAN
  /\ mark \in [Folder -> {"none", "failed", "unpacking"}]
  /\ syncing \subseteq Folder
  /\ unsubbed \subseteq Video
  /\ disk \subseteq Video
  /\ archives \subseteq Folder
  /\ library \subseteq Video
  /\ stage \in {"idle", "paths", "folders", "media", "end", "history"}
  /\ paths \subseteq Folder
  /\ folders \subseteq Folder
  /\ here \in Folder \cup {None}
  /\ unpacked \subseteq Packed
  /\ passes \in Seq(SUBSET Video)
  /\ pr \in [result : BOOLEAN, failed : BOOLEAN, succeeded : BOOLEAN,
             postpone_processing : BOOLEAN, postpone_any : BOOLEAN,
             processed_items : BOOLEAN, directory : BOOLEAN]
  /\ outcome \in [Video -> Outcomes]
  /\ held \subseteq Folder
  /\ blamed \subseteq Video \cup {Download}
  /\ abandoned \in BOOLEAN

\* Defect: the client's word that the download failed is not passed on.
FreshUnfailed(found) ==
  [result |-> TRUE, failed |-> FALSE, succeeded |-> TRUE, postpone_processing |-> FALSE,
   postpone_any |-> FALSE, processed_items |-> FALSE, directory |-> found]

\* A new ProcessResult, and whether it found the directory.
Fresh(found) ==
  [result |-> TRUE, failed |-> clientFailed, succeeded |-> TRUE,
   postpone_processing |-> FALSE, postpone_any |-> FALSE, processed_items |-> FALSE,
   directory |-> found]

\* A setup says which videos there are, besides those in archives, and which of the
\* folders the clients may have marked or may be syncing.
Init ==
  /\ setup \in Setup
  /\ broken \in SUBSET {FolderOf[v] : v \in Packed}
  /\ status = "Completed"
  /\ clientFailed \in (IF SingleResource THEN BOOLEAN ELSE {FALSE})
  /\ \E m \in [setup.mayMark -> {"none", "failed", "unpacking"}] :
       mark = [f \in Folder |-> IF f \in setup.mayMark THEN m[f] ELSE "none"]
  /\ syncing \in SUBSET setup.maySync
  /\ unsubbed \in (IF PostponeIfNoSubs THEN SUBSET Video ELSE {{}})
  /\ disk = setup.has
  /\ archives = {FolderOf[v] : v \in Packed}
  /\ library = {}
  /\ stage = "idle"
  /\ paths = {} /\ folders = {} /\ here = None /\ unpacked = {} /\ passes = <<>>
  /\ pr = Fresh(TRUE)
  /\ outcome = [v \in Video |-> "unseen"]
  /\ held = {}
  /\ blamed = {}
  /\ abandoned = FALSE

-----------------------------------------------------------------------------
In(f) == {v \in Video : FolderOf[v] = f}

Present(v) == v \in disk \/ (v \in Packed /\ FolderOf[v] \in archives)

Media(f) == \E v \in In(f) : Present(v)

\* What the world does meanwhile.

SyncEnds(f) ==
  /\ f \in syncing
  /\ syncing' = syncing \ {f}
  /\ UNCHANGED <<status, setup, broken, clientFailed, mark, unsubbed, files, stage, walk, pr, ghosts>>

SubtitlesArrive(v) ==
  /\ v \in unsubbed
  /\ unsubbed' = unsubbed \ {v}
  /\ UNCHANGED <<status, setup, broken, clientFailed, mark, syncing, files, stage, walk, pr, ghosts>>

UnpackingEnds(f) ==
  /\ mark[f] = "unpacking"
  /\ mark' = [mark EXCEPT ![f] = "none"]
  /\ UNCHANGED <<status, setup, broken, clientFailed, syncing, unsubbed, files, stage, walk, pr, ghosts>>

-----------------------------------------------------------------------------
\* PostProcessQueueItem.run and process_path, and PostProcessorRunner.run, up to
\* ProcessResult.process

Paths == IF Kind = "all" THEN {Root} \cup Children(Root) ELSE {Root}

\* A directory that is not found has no paths, and a result that stays true.
Start ==
  /\ stage = "idle"
  /\ SingleResource => status = "Completed"
  /\ \E found \in IF Scheduled THEN {TRUE} ELSE BOOLEAN :
       /\ pr' = Fresh(found)
       /\ paths' = IF found THEN Paths ELSE {}
       /\ stage' = IF found THEN "paths" ELSE "end"
  /\ outcome' = [v \in Video |-> "unseen"]
  /\ held' = {}
  /\ blamed' = {}
  /\ abandoned' = FALSE
  /\ UNCHANGED <<status, world, files, folders, here, unpacked, passes>>

\* The catch-all of run, and the finally of the scheduled one: an exception of any
\* of the calls, the database and the file system among them, ends the run.
Abandon ==
  /\ stage # "idle"
  /\ stage' = "idle"
  /\ paths' = {} /\ folders' = {} /\ here' = None /\ unpacked' = {} /\ passes' = <<>>
  /\ abandoned' = TRUE
  /\ UNCHANGED <<status, world, files, pr, outcome, held, blamed>>

-----------------------------------------------------------------------------
\* ProcessResult.process: the paths and their folders

\* The folders that should_process visits: without a resource it stops after those
\* of the directory itself.
Looks(p) == IF p = Root /\ Kind = "all" THEN {Root} ELSE Tree[p]

\* Defect: folders that are being unpacked pass.
ValidUnfailed(f) == mark[f] # "failed"

\* _is_valid_folder: what the name of a folder says.
Valid(f) == mark[f] = "none"

\* It goes on below a folder that has no bad subfolder and nothing to process.
Passed(f) == (\A c \in Children(f) : Valid(c)) /\ ~Media(f)

\* It stops at the first folder that is not like this, in any order of the listings
\* that has the folder come after those it lies in.
Reached(p, f) == f \in Looks(p) /\ \A g \in Looks(p) \ {f} : f \in Tree[g] => Passed(g)

\* The folders whose name may be the first bad one: _is_valid_folder looks at the
\* name of the path, then at those of the subfolders of each folder visited.
Bad(p) ==
  IF ~Valid(p) THEN {p}
  ELSE {f \in UNION {Children(g) : g \in {h \in Folder : Reached(p, h)}} : ~Valid(f)}

\* A folder with something to process comes first.
HasMedia(p) ==
  \E f \in Folder : /\ Reached(p, f) /\ Media(f)
                    /\ \A c \in Children(f) : Valid(c)

NextPath(p) == stage = "paths" /\ p \in paths /\ (p = Root \/ Root \notin paths)

\* should_process says no: the path is skipped.  A bad folder that is marked as
\* failed sets the flag of the whole run.
SkipPath(p) ==
  /\ NextPath(p)
  /\ \/ /\ ~pr.failed
        /\ \E f \in Bad(p) : pr' = [pr EXCEPT !.failed = (mark[f] = "failed")]
     \/ /\ pr.failed \/ (Bad(p) = {} /\ ~HasMedia(p))
        /\ UNCHANGED pr
  /\ paths' = paths \ {p}
  /\ UNCHANGED <<status, world, files, stage, folders, here, unpacked, passes, ghosts>>

\* The folders that _get_files walks: the tree of a resource that is a folder, or of a
\* path that is not the directory, and else the directory alone.
Folders(p) == IF Kind = "folder" THEN Tree[Release]
              ELSE IF p = Root THEN {Root} ELSE Tree[p]

EnterPath(p) ==
  /\ NextPath(p)
  /\ ~pr.failed /\ Valid(p) /\ HasMedia(p)
  /\ pr' = [pr EXCEPT !.result = TRUE]
  /\ paths' = paths \ {p}
  /\ folders' = Folders(p)
  /\ stage' = "folders"
  /\ UNCHANGED <<status, world, files, here, unpacked, passes, ghosts>>

\* _get_files walks bottom up.
Turn(f) ==
  stage = "folders" /\ f \in folders /\ \A g \in folders : g \in Tree[f] => g = f

\* What it lists of a folder: a resource that is a file is listed alone.
Listed(f) == IF Kind = "file" THEN In(f) \cap {File} ELSE In(f)
Syncs(f) == Kind # "file" /\ f \in syncing
Archive(f) == Kind # "file" /\ Unpack /\ f \in archives

\* An empty folder is not listed, nor is a file that is not there.
SkipFolder(f) ==
  /\ Turn(f)
  /\ ~Syncs(f) /\ \A v \in Listed(f) : ~Present(v)
  /\ folders' = folders \ {f}
  /\ UNCHANGED <<status, world, files, stage, paths, here, unpacked, passes, pr, ghosts>>

PostponeFolder(f) ==
  /\ Turn(f)
  /\ Syncs(f)
  /\ pr' = [pr EXCEPT !.postpone_processing = TRUE, !.postpone_any = TRUE]
  /\ held' = held \cup {f}
  /\ folders' = folders \ {f}
  /\ UNCHANGED <<status, world, files, stage, paths, here, unpacked, passes, outcome, blamed,
                 abandoned>>

\* unrar leaves an archive packed when one of its videos was imported or, with
\* PostponeIfNoSubs, lies beside it.
Unpacks(f) ==
  LET inside == In(f) \cap Packed
  IN  inside \cap library = {} /\ (PostponeIfNoSubs => inside \cap disk = {})

\* prepare_files: unpack, list the videos, and start the first process_media,
\* which resets postpone_processing.  A folder may be listed for other files.
EnterFolder(f) ==
  /\ Turn(f)
  /\ ~Syncs(f) /\ (Kind = "file" => File \in disk)
  /\ here' = f
  /\ unpacked' = IF Archive(f) /\ f \notin broken THEN In(f) \cap Packed ELSE {}
  /\ disk' = IF unpacked' # {} /\ Unpacks(f) THEN disk \cup unpacked' ELSE disk
  /\ LET listed == (Listed(f) \cap disk) \cup unpacked'
     IN  passes' = IF Method = "link" /\ unpacked' # {}
                     THEN <<unpacked', listed \ unpacked'>> ELSE <<listed>>
  /\ pr' = [pr EXCEPT !.postpone_processing = FALSE,
                      !.result = @ /\ ~(Archive(f) /\ f \in broken)]
  /\ folders' = folders \ {f}
  /\ stage' = "media"
  /\ UNCHANGED <<status, world, archives, library, paths, ghosts>>

-----------------------------------------------------------------------------
\* process_media: one step for each video

\* The loop over the videos; the outcome is noted.
Take(v, o) ==
  /\ stage = "media"
  /\ v \in passes[1]
  /\ passes' = [passes EXCEPT ![1] = @ \ {v}]
  /\ outcome' = [outcome EXCEPT ![v] = o]
  /\ UNCHANGED <<status, world, archives, stage, paths, folders, here, unpacked, held, abandoned>>

SkipProcessed(v) ==
  /\ Take(v, "already")
  /\ v \in library
  /\ UNCHANGED <<disk, library, pr, blamed>>

\* _process_postponed, for jobs of the download handler.
Waits(v) == SingleResource /\ v \in unsubbed

PostponeVideo(v) ==
  /\ Take(v, "postponed")
  /\ v \notin library
  /\ Waits(v)
  /\ pr' = [pr EXCEPT !.result = TRUE, !.postpone_processing = TRUE, !.postpone_any = TRUE]
  /\ UNCHANGED <<disk, library, blamed>>

Ready(v) == v \notin library /\ ~Waits(v)

\* Videos that came out of the archive are moved even when others are linked.
Import(v) ==
  /\ Take(v, "imported")
  /\ Ready(v)
  /\ v \in disk
  /\ library' = library \cup {v}
  /\ disk' = IF Method = "move" \/ Len(passes) = 2 THEN disk \ {v} ELSE disk
  /\ pr' = [pr EXCEPT !.result = TRUE]
  /\ UNCHANGED blamed

\* process_failed(what) in the folder f: what FailedProcessor answers, and the
\* files that are gone if it deletes the folder.
ProcessFailed(what, f, ok) ==
  LET deletes == ok /\ DeleteFailed /\ pr.directory /\ ~(f = Root /\ Protected)
  IN  IF UseFailedDownloads
        THEN /\ blamed' = blamed \cup {what}
             /\ disk' = IF deletes THEN {v \in disk : FolderOf[v] \notin Tree[f]} ELSE disk
             /\ archives' = IF deletes THEN archives \ Tree[f] ELSE archives
        ELSE UNCHANGED <<blamed, disk, archives>>

\* Defect: an aborted video is treated as a failed download.
LeaveBlaming(v) ==
  /\ \E o \in {"kept", "aborted"} : Take(v, o)
  /\ Ready(v)
  /\ v \in disk
  /\ pr' = [pr EXCEPT !.result = TRUE]
  /\ blamed' = blamed \cup {v}
  /\ UNCHANGED <<disk, library>>

\* The library has a file of the same size, or the episode is archived.
Leave(v) ==
  /\ \E o \in {"kept", "aborted"} : Take(v, o)
  /\ Ready(v)
  /\ v \in disk
  /\ pr' = [pr EXCEPT !.result = TRUE]
  /\ UNCHANGED <<disk, library, blamed>>

\* Without a single resource the video is handled as a failed download here.
Fail(v) ==
  /\ stage = "media"
  /\ v \in passes[1]
  /\ Ready(v)
  /\ passes' = [passes EXCEPT ![1] = @ \ {v}]
  /\ outcome' = [outcome EXCEPT ![v] = "failed"]
  /\ \E ok \in BOOLEAN :
       /\ pr' = [pr EXCEPT !.result = ok /\ UseFailedDownloads /\ ~SingleResource,
                           !.succeeded = FALSE]
       /\ IF SingleResource THEN UNCHANGED <<blamed, disk, archives>>
                            ELSE ProcessFailed(v, here, ok)
  /\ UNCHANGED <<status, world, library, stage, paths, folders, here, unpacked, held, abandoned>>

-----------------------------------------------------------------------------
\* After process_media: delete what is not needed, go on

\* The linked case: the archive's videos are done, the others follow.
NextPass ==
  /\ stage = "media"
  /\ Len(passes) = 2 /\ passes[1] = {}
  /\ disk' = IF ~pr.postpone_processing /\ pr.result THEN disk \ unpacked ELSE disk
  /\ passes' = Tail(passes)
  /\ pr' = [pr EXCEPT !.postpone_processing = FALSE]
  /\ UNCHANGED <<status, world, archives, library, stage, paths, folders, here, unpacked, ghosts>>

\* Defect: the archive is deleted whatever the process method is.
LeaveFolderClean ==
  /\ stage = "media"
  /\ passes = <<{}>>
  /\ disk' = IF Method # "link" /\ DelRarContents /\ ~pr.postpone_processing /\ pr.result
               THEN disk \ unpacked ELSE disk
  /\ archives' = IF pr.result THEN archives \ {here} ELSE archives
  /\ pr' = [pr EXCEPT !.processed_items = TRUE]
  /\ here' = None /\ unpacked' = {} /\ passes' = <<>>
  /\ stage' = "folders"
  /\ UNCHANGED <<status, world, library, paths, folders, ghosts>>

\* The end of process_files, and _clean_up: moving also deletes the archive.
LeaveFolder ==
  /\ stage = "media"
  /\ passes = <<{}>>
  /\ disk' = IF Method # "link" /\ DelRarContents /\ ~pr.postpone_processing /\ pr.result
               THEN disk \ unpacked ELSE disk
  /\ archives' = IF Method = "move" /\ pr.result THEN archives \ {here} ELSE archives
  /\ pr' = [pr EXCEPT !.processed_items = TRUE]
  /\ here' = None /\ unpacked' = {} /\ passes' = <<>>
  /\ stage' = "folders"
  /\ UNCHANGED <<status, world, library, paths, folders, ghosts>>

LeavePath ==
  /\ stage = "folders"
  /\ folders = {}
  /\ stage' = "paths"
  /\ UNCHANGED <<status, world, files, walk, pr, ghosts>>

\* Defect: a run that processed nothing keeps its result.
EndProcessAnyway ==
  /\ stage = "paths"
  /\ paths = {}
  /\ stage' = "end"
  /\ UNCHANGED <<status, world, files, walk, pr, ghosts>>

EndProcess ==
  /\ stage = "paths"
  /\ paths = {}
  /\ pr' = [pr EXCEPT !.result = @ /\ pr.processed_items]
  /\ stage' = "end"
  /\ UNCHANGED <<status, world, files, walk, ghosts>>

\* Defect: the last result decides.
HandlesBadResult ==
  \/ SingleResource /\ (pr.failed \/ ~pr.result) /\ ~pr.postpone_processing
  \/ Scheduled /\ pr.failed

\* After process: the job of the download handler looks at all the flags, the
\* scheduled run at one.
HandlesFailure ==
  \/ SingleResource /\ (pr.failed \/ ~pr.succeeded) /\ ~pr.postpone_processing
  \/ Scheduled /\ pr.failed

\* Failed download handling, which looks for another release; the folder is the path
\* of the job, whatever the resource is.
HandleFailure ==
  /\ stage = "end"
  /\ IF HandlesFailure
       THEN \E ok \in BOOLEAN :
              /\ ProcessFailed(Download, Root, ok)
              /\ pr' = [pr EXCEPT !.result = IF UseFailedDownloads THEN ok ELSE @]
       ELSE UNCHANGED <<blamed, disk, archives, pr>>
  /\ stage' = "history"
  /\ UNCHANGED <<status, world, library, walk, outcome, held, abandoned>>

\* Defect: only the flag of the last folder is looked at.
HistoryStatusOfLast ==
  IF ~SingleResource \/ pr.postpone_processing THEN status
  ELSE IF pr.result /\ ~pr.failed THEN "Postprocessed Completed"
  ELSE "Postprocessed Failed"

\* Defect: the flag Postprocessed is not added to Failed.
HistoryStatusBare ==
  IF ~SingleResource \/ pr.postpone_processing \/ pr.postpone_any THEN status
  ELSE IF pr.result /\ ~pr.failed THEN "Postprocessed Completed"
  ELSE "Failed"

\* Defect: only a success is written.
HistoryStatusOfSuccess ==
  IF SingleResource /\ ~pr.postpone_any /\ pr.result /\ ~pr.failed
    THEN "Postprocessed Completed" ELSE status

\* update_history_processed
HistoryStatus ==
  IF ~SingleResource \/ pr.postpone_processing \/ pr.postpone_any THEN status
  ELSE IF pr.result /\ ~pr.failed THEN "Postprocessed Completed"
  ELSE "Postprocessed Failed"

Finish ==
  /\ stage = "history"
  /\ status' = HistoryStatus
  /\ stage' = "idle"
  /\ UNCHANGED <<world, files, walk, pr, ghosts>>

-----------------------------------------------------------------------------
ProcessVideo(v) ==
  SkipProcessed(v) \/ PostponeVideo(v) \/ Import(v) \/ Leave(v) \/ Fail(v)

Job ==
  \/ Start
  \/ \E p \in Folder : SkipPath(p) \/ EnterPath(p)
  \/ \E f \in Folder : SkipFolder(f) \/ PostponeFolder(f) \/ EnterFolder(f)
  \/ \E v \in Video : ProcessVideo(v)
  \/ NextPass
  \/ LeaveFolder
  \/ LeavePath
  \/ EndProcess
  \/ HandleFailure
  \/ Finish

World ==
  \/ \E f \in Folder : SyncEnds(f) \/ UnpackingEnds(f)
  \/ \E v \in Video : SubtitlesArrive(v)

Next == Job \/ Abandon \/ World

Spec == Init /\ [][Next]_vars

\* The download handler queues the job again as long as the history says
\* Completed, and a job that runs goes on.
FairSpec == Spec /\ WF_vars(Job)

-----------------------------------------------------------------------------
\* Properties

\* A run that postponed a folder (sync files) or a video (subtitles) leaves the
\* history alone, whatever the later folders and videos of the run did to the
\* flags: the download handler will queue the job again.
PostponedKeepsStatus ==
  status # "Completed" => held = {} /\ \A v \in Video : outcome[v] # "postponed"

\* The run postponed a folder or a video.
Postponed == held # {} \/ \E v \in Video : outcome[v] = "postponed"

DJ == INSTANCE DownloadJob WITH
        queued <- SingleResource, failed <- clientFailed,
        running <- stage # "idle", postponed <- Postponed

\* What the download handler relies on, whatever the folders and videos of a run do
\* to the flags one after the other: a run that came to its end leaves the history
\* alone if it postponed something, and only then, and a download that the client
\* called failed never ends as completed.
ImplementsDownloadJob == DJ!Spec

\* The videos that a job of the download handler is to process: those of the folders
\* that _get_files walks, or the one file.
Mine(v) == FolderOf[v] \in Folders(Root) /\ (Kind = "file" => v = File)

\* A download whose directory was found and that ends as completed has no video left,
\* on disk or in a readable archive of the folders that the job walks, that the last
\* run did not look at: no skipped path or folder is taken for a processed one.
CompletedSawEverything ==
  status = "Postprocessed Completed" /\ pr.directory =>
    \A v \in Video : Mine(v) /\ Present(v) /\ outcome[v] = "unseen" =>
                       v \in Packed /\ (FolderOf[v] \in broken \/ ~Unpack)

\* A name that should_process may come upon says failed.
NameFailed ==
  \E p \in Paths : \E f \in {p} \cup UNION {Children(g) : g \in Looks(p)} : mark[f] = "failed"

\* Failed download handling, which snatches another release, is never started
\* because of aborted, kept, postponed or skipped videos: only for a download the
\* client calls failed, for a video that failed in this run, or for the name of a
\* folder that should_process comes upon.  For a resource that is a folder these are
\* all the folders of the directory, those of other downloads among them.
FailedHandlingJustified ==
  /\ \A v \in Video \cap blamed : outcome[v] = "failed"
  /\ Download \in blamed =>
       \/ clientFailed
       \/ NameFailed
       \/ \E v \in Video : outcome[v] = "failed"

\* Nothing is imported out of the directory, or out of anything under one of its
\* subfolders, while the name of that folder says that it failed or is being unpacked,
\* although should_process stops at the first thing to process, and a folder is walked
\* after the check of its path.  The names of deeper folders may not have been looked
\* at, and without a resource the name of the directory counts for its own files only.
OnlyUnmarkedImported ==
  \A v \in library : \A f \in {Root} \cup Children(Root) :
    FolderOf[v] \in Looks(f) => mark[f] = "none"

\* The videos (with the archives they can be unpacked from) that this step takes
\* out of the download although they were neither imported nor left because the
\* library needs no other.
Lost(v) == /\ Present(v) /\ ~Present(v)'
           /\ v \notin library' /\ outcome[v] \notin {"kept", "aborted"}

\* A job that copies or links, and is told to clean up what it unpacked, loses no
\* video by it: a postponed or failed one can be unpacked again.  Only the
\* configured removal of failed downloads deletes more.
NeededFileIsNotDeleted ==
  [][\A v \in Video : Method # "move" /\ Lost(v) => DeleteFailed /\ blamed' # {}]_vars

\* Once nothing makes the job wait any more, and its runs are not ended by exceptions,
\* the download gets its final status.
EveryDownloadSettles ==
  SingleResource /\ <>[](syncing = {} /\ unsubbed = {}) /\ <>[][~Abandon]_vars
    => <>(status # "Completed")

\* "Delete all file not needed" (process_tv.py:744): a job that moves deletes the
\* archive only when the videos in it are not needed any more.
OnlyUnneededIsDeleted ==
  [][\A v \in Video : ~DeleteFailed => ~Lost(v)]_vars

\* "Update the history table when we have a processed path + resource"
\* (process_tv.py:116): a download ends as completed only after a run that processed
\* something.
OnlyProcessedCompletes ==
  status = "Postprocessed Completed" => pr.processed_items
=============================================================================
