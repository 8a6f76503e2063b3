-------------------------- MODULE PostProcessProofs --------------------------
(***************************************************************************)
(* Proofs about PostProcess, for any folders, videos and archives, and any *)
(* settings.                                                               *)
(*                                                                         *)
(* The flags of ProcessResult are set, reset and overwritten all along the *)
(* walk, so that what they say at the end depends on the walk: WalkInv and *)
(* PassInv say where it is, OnceInv that it takes no video twice, so that  *)
(* an outcome is never overwritten.  On top of them PostponedInv, BlameInv *)
(* and SeenInv say what the flags that decide at the end still tell of the *)
(* whole run, and MarkInv what the check of a path says of its folders.    *)
(***************************************************************************)
EXTENDS PostProcess, SequenceTheorems, TLAPS

Running == stage \in {"folders", "media"}

\* Where the walk is.
WalkInv ==
  /\ stage = "media" <=> passes # <<>>
  /\ stage = "media" => here \in Folder
  /\ stage # "media" => here = None /\ unpacked = {}
  /\ ~Running => folders = {}
  /\ stage \notin {"paths", "folders", "media"} => paths = {}
  /\ paths \subseteq Paths
  /\ Kind # "all" /\ Running => paths = {}
  /\ \A p \in paths : Folders(p) \cap (folders \cup {here}) = {}
  /\ here \notin folders

\* The videos that this folder has still to show.
PassInv ==
  /\ Len(passes) <= 2
  /\ \A k \in DOMAIN passes : passes[k] \subseteq In(here)
  /\ \A j, k \in DOMAIN passes : j # k => passes[j] \cap passes[k] = {}
  /\ unpacked \subseteq In(here)

Ahead(f) == f \in folders \/ \E p \in paths : f \in Folders(p)
Waiting(v) == \E k \in DOMAIN passes : v \in passes[k]

\* No video is taken twice in a run.
OnceInv ==
  \A v \in Video : Ahead(FolderOf[v]) \/ Waiting(v) => outcome[v] = "unseen"

\* The flag postpone_any remembers what postpone_processing forgets.
PostponedInv ==
  /\ held # {} \/ (\E v \in Video : outcome[v] = "postponed") => pr.postpone_any
  /\ status # "Completed" => stage = "idle" /\ SingleResource /\ ~pr.postpone_any

\* Each of the flags that start failed download handling has its reason.
BlameInv ==
  /\ pr.failed => clientFailed \/ NameFailed
  /\ ~pr.succeeded => \E v \in Video : outcome[v] = "failed"

\* The folders that are walked lie in no directory or subfolder of it that is marked.
MarkInv ==
  Running => \A f \in {Root} \cup Children(Root) :
               (folders \cup {here}) \cap Looks(f) # {} => mark[f] = "none"

Unreadable(v) == v \in Packed /\ (FolderOf[v] \in broken \/ ~Unpack)

\* What the run has not looked at it will look at, unless it is postponed, or the
\* path was not entered, so that the result of the run is bad.
Accounted(v) ==
  \/ Unreadable(v) \/ Ahead(FolderOf[v]) \/ Waiting(v)
  \/ pr.postpone_any
  \/ stage \in {"paths", "end", "history"} /\ ~pr.processed_items

SeenInv ==
  /\ ~pr.processed_items /\ stage \notin {"media", "idle"} => pr.succeeded
  /\ stage \in {"end", "history"} /\ ~pr.processed_items /\ pr.directory
       => ~pr.result \/ pr.failed
  /\ stage = "end" /\ ~pr.processed_items /\ pr.directory => ~pr.result
  /\ SingleResource /\ paths # {} => ~pr.processed_items
  /\ SingleResource /\ stage # "idle" /\ pr.directory =>
       \A v \in Video : Mine(v) /\ Present(v) /\ outcome[v] = "unseen" => Accounted(v)

Flag == [result : BOOLEAN, failed : BOOLEAN, succeeded : BOOLEAN,
         postpone_processing : BOOLEAN, postpone_any : BOOLEAN,
         processed_items : BOOLEAN, directory : BOOLEAN]

-----------------------------------------------------------------------------
\* The steps

\* Sequences of one and two elements.
LEMMA TupleFacts ==
  ASSUME NEW S, NEW a \in S, NEW b \in S
  PROVE  <<a>> \in Seq(S) /\ <<a, b>> \in Seq(S)
OBVIOUS

LEMMA TailFacts ==
  ASSUME NEW S, NEW s \in Seq(S), Len(s) = 2
  PROVE  /\ s # <<>> /\ Tail(s) \in Seq(S) /\ Len(Tail(s)) = 1
         /\ DOMAIN s = {1, 2} /\ DOMAIN Tail(s) = {1} /\ Tail(s)[1] = s[2]
<1>1. s # <<>>
  BY EmptySeq
<1>2. /\ Tail(s) \in Seq(S) /\ Len(Tail(s)) = 1 /\ \A k \in 1..Len(Tail(s)) : Tail(s)[k] = s[k + 1]
  BY <1>1, HeadTailProperties
<1>3. DOMAIN s = 1..2 /\ DOMAIN Tail(s) = 1..1
  BY <1>2, LenProperties
<1> QED
  BY <1>1, <1>2, <1>3

\* The fields of a ProcessResult that was changed in some.
LEMMA FlagFacts ==
  ASSUME pr \in Flag
  PROVE  /\ {pr.result, pr.failed, pr.succeeded, pr.postpone_processing, pr.postpone_any,
             pr.processed_items, pr.directory} \subseteq BOOLEAN
BY DEF Flag

\* Failed download handling only deletes files, and records what it was called for.
LEMMA FailedFacts ==
  ASSUME NEW what, NEW f, NEW ok, ProcessFailed(what, f, ok)
  PROVE  /\ disk' \subseteq disk /\ archives' \subseteq archives
         /\ blamed' \subseteq blamed \cup {what}
<1>1. CASE UseFailedDownloads
  <2>1. blamed' = blamed \cup {what}
    BY <1>1 DEF ProcessFailed
  <2>2. disk' = {v \in disk : FolderOf[v] \notin Tree[f]} \/ disk' = disk
    BY <1>1 DEF ProcessFailed
  <2>3. archives' = archives \ Tree[f] \/ archives' = archives
    BY <1>1 DEF ProcessFailed
  <2> QED
    BY <2>1, <2>2, <2>3
<1>2. CASE ~UseFailedDownloads
  BY <1>2 DEF ProcessFailed
<1> QED
  BY <1>1, <1>2

\* Every step of process_media takes one video off the first pass and notes its
\* outcome; the flags that decide at the end only change as the outcome says.
LEMMA VideoFacts ==
  ASSUME TypeOK, NEW v \in Video, ProcessVideo(v)
  PROVE  \E o \in Outcomes \ {"unseen"} :
           /\ stage = "media" /\ v \in passes[1]
           /\ passes' = [passes EXCEPT ![1] = @ \ {v}]
           /\ outcome' = [outcome EXCEPT ![v] = o]
           /\ UNCHANGED <<status, world, stage, paths, folders, here, unpacked, held, abandoned>>
           /\ pr' \in Flag /\ pr'.directory = pr.directory
           /\ pr'.failed = pr.failed /\ pr'.processed_items = pr.processed_items
           /\ pr'.postpone_any = pr.postpone_any \/ pr'.postpone_any = TRUE
           /\ o = "postponed" => pr'.postpone_any = TRUE
           /\ pr'.succeeded = pr.succeeded \/ o = "failed"
           /\ disk' \subseteq disk /\ archives' \subseteq archives
           /\ library \subseteq library' /\ library' \subseteq library \cup {v}
           /\ blamed' = blamed \/ (blamed' \subseteq blamed \cup {v} /\ o = "failed")
<1>0. pr \in Flag
  BY DEF TypeOK, Flag
<1>1. CASE SkipProcessed(v)
  <2>1. Take(v, "already") /\ UNCHANGED <<disk, library, pr, blamed>>
    BY <1>1 DEF SkipProcessed
  <2> QED
    BY <1>0, <2>1 DEF Take, Outcomes
<1>2. CASE PostponeVideo(v)
  <2>1. /\ Take(v, "postponed") /\ UNCHANGED <<disk, library, blamed>>
        /\ pr' = [pr EXCEPT !.result = TRUE, !.postpone_processing = TRUE, !.postpone_any = TRUE]
    BY <1>2 DEF PostponeVideo
  <2>2. /\ pr' \in Flag /\ pr'.failed = pr.failed /\ pr'.processed_items = pr.processed_items
        /\ pr'.directory = pr.directory /\ pr'.postpone_any = TRUE /\ pr'.succeeded = pr.succeeded
    BY <1>0, <2>1 DEF Flag
  <2> QED
    BY <2>1, <2>2 DEF Take, Outcomes
<1>3. CASE Import(v)
  <2>1. /\ Take(v, "imported") /\ UNCHANGED blamed /\ library' = library \cup {v}
        /\ disk' \subseteq disk /\ pr' = [pr EXCEPT !.result = TRUE]
    BY <1>3 DEF Import
  <2>2. /\ pr' \in Flag /\ pr'.failed = pr.failed /\ pr'.processed_items = pr.processed_items
        /\ pr'.directory = pr.directory /\ pr'.postpone_any = pr.postpone_any /\ pr'.succeeded = pr.succeeded
    BY <1>0, <2>1 DEF Flag
  <2> QED
    BY <2>1, <2>2 DEF Take, Outcomes
<1>4. CASE Leave(v)
  <2>1. PICK o \in {"kept", "aborted"} : Take(v, o)
    BY <1>4 DEF Leave
  <2>2. UNCHANGED <<disk, library, blamed>> /\ pr' = [pr EXCEPT !.result = TRUE]
    BY <1>4 DEF Leave
  <2>3. /\ pr' \in Flag /\ pr'.failed = pr.failed /\ pr'.processed_items = pr.processed_items
        /\ pr'.directory = pr.directory /\ pr'.postpone_any = pr.postpone_any /\ pr'.succeeded = pr.succeeded
    BY <1>0, <2>2 DEF Flag
  <2> QED
    BY <2>1, <2>2, <2>3 DEF Take, Outcomes
<1>5. CASE Fail(v)
  <2>1. /\ stage = "media" /\ v \in passes[1]
        /\ passes' = [passes EXCEPT ![1] = @ \ {v}]
        /\ outcome' = [outcome EXCEPT ![v] = "failed"]
        /\ UNCHANGED <<status, world, library, stage, paths, folders, here, unpacked, held, abandoned>>
    BY <1>5 DEF Fail
  <2>2. PICK ok \in BOOLEAN :
          /\ pr' = [pr EXCEPT !.result = ok /\ UseFailedDownloads /\ ~SingleResource,
                              !.succeeded = FALSE]
          /\ UNCHANGED <<blamed, disk, archives>> \/ ProcessFailed(v, here, ok)
    BY <1>5 DEF Fail
  <2>3. /\ pr' \in Flag /\ pr'.failed = pr.failed /\ pr'.processed_items = pr.processed_items
        /\ pr'.directory = pr.directory /\ pr'.postpone_any = pr.postpone_any
    BY <1>0, <2>2 DEF Flag
  <2>4. /\ disk' \subseteq disk /\ archives' \subseteq archives
        /\ blamed' \subseteq blamed \cup {v}
    BY <2>2, FailedFacts
  <2> QED
    BY <2>1, <2>3, <2>4 DEF Outcomes
<1> QED
  BY <1>1, <1>2, <1>3, <1>4, <1>5 DEF ProcessVideo

WorldStep == (\E f \in Folder : SyncEnds(f) \/ UnpackingEnds(f)) \/ \E v \in Video : SubtitlesArrive(v)

\* All the steps, for the case distinctions below.
LEMMA NextCases ==
  ASSUME [Next]_vars
  PROVE  \/ WorldStep \/ Start
         \/ \E p \in Folder : SkipPath(p) \/ EnterPath(p)
         \/ \E f \in Folder : SkipFolder(f) \/ PostponeFolder(f) \/ EnterFolder(f)
         \/ \E v \in Video : ProcessVideo(v)
         \/ NextPass \/ LeaveFolder \/ LeavePath \/ EndProcess \/ HandleFailure \/ Finish
         \/ Abandon \/ UNCHANGED vars
BY DEF Next, Job, World, WorldStep

\* What the world does only ends a wait.
LEMMA WorldFacts ==
  ASSUME TypeOK, WorldStep
  PROVE  /\ UNCHANGED <<status, setup, broken, clientFailed, files, stage, walk, pr, ghosts>>
         /\ syncing' \subseteq syncing /\ unsubbed' \subseteq unsubbed
         /\ mark' \in [Folder -> {"none", "failed", "unpacking"}]
         /\ \A f \in Folder : /\ mark[f] = "failed" <=> mark'[f] = "failed"
                              /\ mark[f] = "none" => mark'[f] = "none"
<1>0. mark \in [Folder -> {"none", "failed", "unpacking"}]
  BY DEF TypeOK
<1>1. ASSUME NEW f \in Folder, SyncEnds(f)
      PROVE  /\ UNCHANGED <<status, setup, broken, clientFailed, files, stage, walk, pr, ghosts>>
             /\ syncing' \subseteq syncing /\ UNCHANGED <<unsubbed, mark>>
  BY <1>1 DEF SyncEnds
<1>2. ASSUME NEW v \in Video, SubtitlesArrive(v)
      PROVE  /\ UNCHANGED <<status, setup, broken, clientFailed, files, stage, walk, pr, ghosts>>
             /\ unsubbed' \subseteq unsubbed /\ UNCHANGED <<syncing, mark>>
  BY <1>2 DEF SubtitlesArrive
<1>3. ASSUME NEW f \in Folder, UnpackingEnds(f)
      PROVE  /\ UNCHANGED <<status, setup, broken, clientFailed, files, stage, walk, pr, ghosts>>
             /\ UNCHANGED <<syncing, unsubbed>>
             /\ mark' \in [Folder -> {"none", "failed", "unpacking"}]
             /\ \A g \in Folder : /\ mark[g] = "failed" <=> mark'[g] = "failed"
                                  /\ mark[g] = "none" => mark'[g] = "none"
  <2>1. /\ mark[f] = "unpacking" /\ mark' = [mark EXCEPT ![f] = "none"]
        /\ UNCHANGED <<status, setup, broken, clientFailed, syncing, unsubbed, files, stage,
                       walk, pr, ghosts>>
    BY <1>3 DEF UnpackingEnds
  <2> QED
    BY <1>0, <2>1
<1> QED
  BY <1>0, <1>1, <1>2, <1>3 DEF WorldStep

-----------------------------------------------------------------------------
\* The folders

LEMMA ChildFacts ==
  /\ Children(Root) \subseteq Folder \ {Root}
  /\ \A c \in Children(Root) : Root \notin Tree[c] /\ c \in Tree[c] /\ Tree[c] \subseteq Folder
  /\ \A c, d \in Children(Root) : c # d => Tree[c] \cap Tree[d] = {}
<1> USE PostProcessAssumption
<1>1. Children(Root) \subseteq Folder \ {Root}
  BY DEF Children
<1>2. ASSUME NEW c \in Children(Root)
      PROVE  Root \notin Tree[c] /\ c \in Tree[c] /\ Tree[c] \subseteq Folder
  BY <1>1, <1>2
<1>3. ASSUME NEW c \in Children(Root), NEW d \in Children(Root), c # d
      PROVE  Tree[c] \cap Tree[d] = {}
  <2>1. c \notin Tree[d] /\ d \notin Tree[c]
    BY <1>1, <1>3 DEF Children
  <2> QED
    BY <1>1, <2>1
<1> QED
  BY <1>1, <1>2, <1>3

\* The folders of the paths, and of those listed for different paths none is the same.
LEMMA PathFacts ==
  /\ Paths \subseteq Folder /\ (Kind # "all" => Paths = {Root})
  /\ Paths \subseteq {Root} \cup Children(Root)
  /\ \A p \in Folder : Folders(p) \subseteq Folder /\ Looks(p) \subseteq Folder
  /\ \A p, q \in Paths : p # q => Folders(p) \cap Folders(q) = {}
<1> USE PostProcessAssumption
<1>1. Release \in Folder
  BY ChildFacts
<1>2. /\ Paths \subseteq Folder /\ (Kind # "all" => Paths = {Root})
      /\ Paths \subseteq {Root} \cup Children(Root)
  BY ChildFacts DEF Paths
<1>3. \A p \in Folder : Folders(p) \subseteq Folder /\ Looks(p) \subseteq Folder
  BY <1>1 DEF Folders, Looks
<1>4. ASSUME NEW p \in Paths, NEW q \in Paths, p # q
      PROVE  Folders(p) \cap Folders(q) = {}
  <2>1. Kind = "all"
    BY <1>2, <1>4
  <2>2. p \in {Root} \cup Children(Root) /\ q \in {Root} \cup Children(Root)
    BY <1>2
  <2> QED
    BY <1>4, <2>1, <2>2, ChildFacts DEF Folders
<1> QED
  BY <1>2, <1>3, <1>4

-----------------------------------------------------------------------------
\* Type correctness

LEMMA TypeInit ==
  ASSUME Init
  PROVE  TypeOK
<1> USE PostProcessAssumption
<1>1. setup \in Setup /\ clientFailed \in BOOLEAN
  BY DEF Init
<1>2. pr \in Flag
  BY <1>1 DEF Init, Fresh, Flag
<1>3. passes \in Seq(SUBSET Video)
  BY EmptySeq DEF Init
<1>4. /\ broken \subseteq Folder /\ archives \subseteq Folder
      /\ disk \subseteq Video /\ unsubbed \subseteq Video
  BY DEF Init
<1>5. /\ mark \in [Folder -> {"none", "failed", "unpacking"}] /\ syncing \subseteq Folder
      /\ status = "Completed" /\ stage = "idle" /\ here = None
      /\ library = {} /\ paths = {} /\ folders = {} /\ unpacked = {} /\ held = {} /\ blamed = {}
      /\ abandoned = FALSE
  BY DEF Init
<1>6. outcome \in [Video -> Outcomes]
  BY DEF Init, Outcomes
<1> QED
  BY <1>1, <1>2, <1>3, <1>4, <1>5, <1>6 DEF TypeOK, Flag

\* A step that at most takes folders off the walk.
LEMMA TypeStutter ==
  ASSUME TypeOK, folders' \subseteq Folder,
         UNCHANGED <<status, world, files, stage, paths, here, unpacked, passes, pr, ghosts>>
  PROVE  TypeOK'
<1>1. UNCHANGED <<status, stage, paths, here, unpacked, passes, pr>>
  OBVIOUS
<1>2. UNCHANGED <<setup, broken, clientFailed, mark, syncing, unsubbed>>
  BY DEF world
<1>3. UNCHANGED <<disk, archives, library>>
  BY DEF files
<1>4. UNCHANGED <<outcome, held, blamed, abandoned>>
  BY DEF ghosts
<1> QED
  BY <1>1, <1>2, <1>3, <1>4 DEF TypeOK

LEMMA TypeStep ==
  ASSUME TypeOK, [Next]_vars
  PROVE  TypeOK'
<1>1. CASE WorldStep
  <2>1. syncing' \subseteq Folder /\ unsubbed' \subseteq Video
        /\ mark' \in [Folder -> {"none", "failed", "unpacking"}]
    BY <1>1, WorldFacts DEF TypeOK
  <2> QED
    BY <1>1, <2>1, WorldFacts DEF TypeOK, files, walk, ghosts
<1>2. CASE Start
  <2>1. pr' \in Flag
    <3>1. PICK found \in BOOLEAN : pr' = Fresh(found)
      BY <1>2 DEF Start
    <3> QED
      BY <3>1 DEF Fresh, Flag, TypeOK
  <2>2. /\ paths' \subseteq Folder /\ stage' \in {"paths", "end"} /\ abandoned' = FALSE
        /\ outcome' \in [Video -> Outcomes] /\ held' = {} /\ blamed' = {}
    BY <1>2, PathFacts DEF Start, Outcomes
  <2> QED
    BY <1>2, <2>1, <2>2 DEF Start, TypeOK, Flag, world, files
<1>3. ASSUME NEW p \in Folder, SkipPath(p)
      PROVE  TypeOK'
  <2>1. pr' \in Flag
    <3>1. pr' = pr \/ \E f : pr' = [pr EXCEPT !.failed = (mark[f] = "failed")]
      BY <1>3 DEF SkipPath
    <3>2. ASSUME NEW b \in BOOLEAN, pr' = [pr EXCEPT !.failed = b]
          PROVE  pr' \in Flag
      BY <3>2 DEF Flag, TypeOK
    <3> QED
      BY <3>1, <3>2 DEF Flag, TypeOK
  <2>2. paths' \subseteq Folder
    BY <1>3 DEF SkipPath, TypeOK
  <2> QED
    BY <1>3, <2>1, <2>2 DEF SkipPath, TypeOK, Flag, world, files, ghosts
<1>4. ASSUME NEW p \in Folder, EnterPath(p)
      PROVE  TypeOK'
  <2>1. pr' \in Flag
    BY <1>4 DEF EnterPath, Flag, TypeOK
  <2>2. paths' \subseteq Folder /\ folders' \subseteq Folder /\ stage' = "folders"
    BY <1>4, PathFacts DEF EnterPath, TypeOK
  <2> QED
    BY <1>4, <2>1, <2>2 DEF EnterPath, TypeOK, Flag, world, files, ghosts
<1>5. ASSUME NEW f \in Folder, SkipFolder(f)
      PROVE  TypeOK'
  <2>1. folders' \subseteq Folder
    BY <1>5 DEF SkipFolder, TypeOK
  <2>2. UNCHANGED <<status, world, files, stage, paths, here, unpacked, passes, pr, ghosts>>
    BY <1>5 DEF SkipFolder
  <2> QED
    BY <2>1, <2>2, TypeStutter
<1>6. ASSUME NEW f \in Folder, PostponeFolder(f)
      PROVE  TypeOK'
  <2>1. pr' \in Flag
    BY <1>6 DEF PostponeFolder, Flag, TypeOK
  <2>2. folders' \subseteq Folder /\ held' \subseteq Folder
    BY <1>6 DEF PostponeFolder, TypeOK
  <2> QED
    BY <1>6, <2>1, <2>2 DEF PostponeFolder, TypeOK, Flag, world, files
<1>7. ASSUME NEW f \in Folder, EnterFolder(f)
      PROVE  TypeOK'
  <2>1. pr' \in Flag
    <3>1. pr' = [pr EXCEPT !.postpone_processing = FALSE,
                           !.result = @ /\ ~(Archive(f) /\ f \in broken)]
      BY <1>7 DEF EnterFolder
    <3> QED
      BY <3>1 DEF Flag, TypeOK
  <2>2. /\ here' = f /\ unpacked' \subseteq In(f) \cap Packed /\ disk' \subseteq disk \cup unpacked'
        /\ folders' \subseteq folders /\ stage' = "media"
    BY <1>7 DEF EnterFolder
  <2>3. passes' \in Seq(SUBSET Video)
    <3>1. (Listed(f) \cap disk) \cup unpacked' \in SUBSET Video /\ unpacked' \in SUBSET Video
      BY <2>2 DEF In, Listed
    <3>2. PICK A \in SUBSET Video, B \in SUBSET Video : passes' = <<A, B>> \/ passes' = <<A>>
      <4>1. passes' = <<unpacked', ((Listed(f) \cap disk) \cup unpacked') \ unpacked'>>
            \/ passes' = <<(Listed(f) \cap disk) \cup unpacked'>>
        BY <1>7 DEF EnterFolder
      <4> QED
        BY <3>1, <4>1
    <3> DEFINE S == SUBSET Video
    <3>3. A \in S /\ B \in S
      OBVIOUS
    <3> HIDE DEF S
    <3>4. <<A>> \in Seq(S) /\ <<A, B>> \in Seq(S)
      BY <3>3, TupleFacts
    <3>5. passes' \in Seq(S)
      BY <3>2, <3>4
    <3> QED
      BY <3>5 DEF S
  <2>4. unpacked' \subseteq Packed /\ disk' \subseteq Video
    BY <2>2 DEF In, TypeOK
  <2> QED
    BY <1>7, <2>1, <2>2, <2>3, <2>4 DEF EnterFolder, TypeOK, Flag, world, ghosts
<1>8. ASSUME NEW v \in Video, ProcessVideo(v)
      PROVE  TypeOK'
  <2>1. PICK o \in Outcomes \ {"unseen"} :
           /\ stage = "media" /\ v \in passes[1]
           /\ passes' = [passes EXCEPT ![1] = @ \ {v}]
           /\ outcome' = [outcome EXCEPT ![v] = o]
           /\ UNCHANGED <<status, world, stage, paths, folders, here, unpacked, held, abandoned>>
           /\ pr' \in Flag
           /\ disk' \subseteq disk /\ archives' \subseteq archives
           /\ library' \subseteq library \cup {v}
           /\ blamed' \subseteq blamed \cup {v}
    BY <1>8, VideoFacts
  <2>2. passes' \in Seq(SUBSET Video)
    <3>1. passes \in Seq(SUBSET Video)
      BY DEF TypeOK
    <3>2. \A k \in DOMAIN passes : passes[k] \in SUBSET Video
      BY <3>1, ElementOfSeq, LenProperties
    <3>3. CASE 1 \in DOMAIN passes
      <4>1. passes[1] \ {v} \in SUBSET Video
        BY <3>2, <3>3
      <4> QED
        BY <2>1, <3>1, <3>3, <4>1, ExceptSeq, LenProperties
    <3>4. CASE 1 \notin DOMAIN passes
      <4>1. passes' = passes
        BY <2>1, <3>1, <3>4, LenProperties
      <4> QED
        BY <3>1, <4>1
    <3> QED
      BY <3>3, <3>4
  <2>3. outcome' \in [Video -> Outcomes]
    BY <2>1 DEF TypeOK
  <2>4. /\ disk' \subseteq Video /\ archives' \subseteq Folder /\ library' \subseteq Video
        /\ blamed' \subseteq Video \cup {Download}
    BY <2>1 DEF TypeOK
  <2> QED
    BY <2>1, <2>2, <2>3, <2>4 DEF TypeOK, Flag, world
<1>9. CASE NextPass
  <2>1. pr' \in Flag /\ disk' \subseteq Video
    BY <1>9 DEF NextPass, Flag, TypeOK
  <2>2. passes' \in Seq(SUBSET Video)
    <3>1. passes \in Seq(SUBSET Video) /\ Len(passes) = 2 /\ passes' = Tail(passes)
      BY <1>9 DEF NextPass, TypeOK
    <3> QED
      BY <3>1, TailFacts
  <2> QED
    BY <1>9, <2>1, <2>2 DEF NextPass, TypeOK, Flag, world, ghosts
<1>10. CASE LeaveFolder
  <2>1. pr' \in Flag /\ disk' \subseteq Video /\ archives' \subseteq Folder
    BY <1>10 DEF LeaveFolder, Flag, TypeOK
  <2>2. passes' \in Seq(SUBSET Video) /\ here' = None /\ unpacked' = {} /\ stage' = "folders"
    BY <1>10, EmptySeq DEF LeaveFolder
  <2> QED
    BY <1>10, <2>1, <2>2 DEF LeaveFolder, TypeOK, Flag, world, ghosts
<1>11. CASE LeavePath
  BY <1>11 DEF LeavePath, TypeOK, world, files, walk, ghosts
<1>12. CASE EndProcess
  <2>1. pr' \in Flag /\ stage' = "end"
    BY <1>12 DEF EndProcess, Flag, TypeOK
  <2> QED
    BY <1>12, <2>1 DEF EndProcess, TypeOK, Flag, world, files, walk, ghosts
<1>13. CASE HandleFailure
  <2>1. CASE HandlesFailure
    <3>1. PICK ok \in BOOLEAN :
            /\ ProcessFailed(Download, Root, ok)
            /\ pr' = [pr EXCEPT !.result = IF UseFailedDownloads THEN ok ELSE @]
      BY <1>13, <2>1 DEF HandleFailure
    <3>2. /\ disk' \subseteq disk /\ archives' \subseteq archives
          /\ blamed' \subseteq blamed \cup {Download}
      BY <3>1, FailedFacts
    <3>3. pr' \in Flag
      BY <3>1 DEF Flag, TypeOK
    <3> QED
      BY <1>13, <3>2, <3>3 DEF HandleFailure, TypeOK, Flag, world, walk
  <2>2. CASE ~HandlesFailure
    BY <1>13, <2>2 DEF HandleFailure, TypeOK, world, walk
  <2> QED
    BY <2>1, <2>2
<1>14. CASE Finish
  <2>1. status' \in {"Completed", "Postprocessed Completed", "Postprocessed Failed"}
    BY <1>14 DEF Finish, HistoryStatus, TypeOK
  <2> QED
    BY <1>14, <2>1 DEF Finish, TypeOK, world, files, walk, ghosts
<1>15. CASE Abandon
  <2>1. passes' \in Seq(SUBSET Video)
    BY <1>15, EmptySeq DEF Abandon
  <2> QED
    BY <1>15, <2>1 DEF Abandon, TypeOK, world, files
<1>16. CASE UNCHANGED vars
  <2>1. /\ UNCHANGED <<status, world, files, stage, pr, ghosts>> /\ folders' \subseteq Folder
        /\ UNCHANGED <<paths, here, unpacked, passes>>
    BY <1>16 DEF vars, walk, TypeOK
  <2> QED
    BY <2>1, TypeStutter
<1> QED
  BY <1>1, <1>2, <1>3, <1>4, <1>5, <1>6, <1>7, <1>8, <1>9, <1>10, <1>11, <1>12, <1>13, <1>14, <1>15,
     <1>16, NextCases

\* The variables keep their types.
THEOREM TypeCorrect == Spec => []TypeOK
BY TypeInit, TypeStep, PTL DEF Spec

-----------------------------------------------------------------------------
\* The walk

PlaceInv == TypeOK /\ WalkInv /\ PassInv /\ OnceInv

\* The settings of a job and the archives do not change.
LEMMA SetupFacts ==
  ASSUME TypeOK, [Next]_vars
  PROVE  /\ UNCHANGED <<setup, broken, clientFailed>>
         /\ SingleResource' = SingleResource
         /\ Kind' = Kind /\ Unpack' = Unpack /\ Paths' = Paths
         /\ \A p : Folders(p)' = Folders(p) /\ Looks(p)' = Looks(p)
         /\ \A v : Mine(v)' = Mine(v)
<1>1. UNCHANGED <<setup, broken, clientFailed>>
  <2>1. ASSUME NEW v \in Video, ProcessVideo(v)
        PROVE  UNCHANGED <<setup, broken, clientFailed>>
    BY <2>1, VideoFacts DEF world
  <2>2. CASE WorldStep
    BY <2>2, WorldFacts
  <2>3. CASE Start \/ NextPass \/ LeaveFolder \/ LeavePath \/ EndProcess \/ HandleFailure
             \/ Finish \/ Abandon \/ UNCHANGED vars
    BY <2>3 DEF Start, NextPass, LeaveFolder, LeavePath, EndProcess, HandleFailure, Finish, Abandon,
                vars, world
  <2>4. ASSUME NEW p \in Folder, SkipPath(p) \/ EnterPath(p) \/ SkipFolder(p) \/ PostponeFolder(p)
                                 \/ EnterFolder(p)
        PROVE  UNCHANGED <<setup, broken, clientFailed>>
    BY <2>4 DEF SkipPath, EnterPath, SkipFolder, PostponeFolder, EnterFolder, world
  <2> QED
    BY <2>1, <2>2, <2>3, <2>4, NextCases
<1> QED
  BY <1>1 DEF SingleResource, Kind, Unpack, Paths, Folders, Looks, Mine

\* Taking a video off the first pass.
LEMMA TakeFacts ==
  ASSUME NEW S, NEW s \in Seq(SUBSET S), NEW t, NEW v, v \in s[1], s # <<>>,
         t = [s EXCEPT ![1] = @ \ {v}]
  PROVE  /\ t # <<>> /\ Len(t) = Len(s) /\ DOMAIN t = DOMAIN s
         /\ \A k \in DOMAIN s : t[k] = IF k = 1 THEN s[1] \ {v} ELSE s[k]
<1>1. DOMAIN s = 1..Len(s) /\ Len(s) \in Nat
  BY LenProperties
<1>2. DOMAIN t = DOMAIN s /\ \A k \in DOMAIN s : t[k] = IF k = 1 THEN s[1] \ {v} ELSE s[k]
  BY <1>1
<1>3. 1 \in DOMAIN s
  BY <1>1, EmptySeq
<1>4. \A k \in DOMAIN s : s[k] \in SUBSET S
  BY ElementOfSeq, <1>1
<1>5. s[1] \ {v} \in SUBSET S
  BY <1>3, <1>4
<1>6. t \in Seq(SUBSET S) /\ Len(t) = Len(s)
  BY <1>1, <1>3, <1>5, ExceptSeq
<1>7. t # <<>>
  BY <1>2, <1>3, EmptySeq
<1> QED
  BY <1>2, <1>6, <1>7

LEMMA PlaceInit ==
  ASSUME Init
  PROVE  PlaceInv
<1>1. /\ stage = "idle" /\ paths = {} /\ folders = {} /\ here = None /\ unpacked = {}
      /\ passes = <<>> /\ \A v \in Video : outcome[v] = "unseen"
  BY DEF Init
<1>2. WalkInv
  BY <1>1 DEF WalkInv, Running
<1>3. PassInv
  BY <1>1, EmptySeq DEF PassInv
<1>4. OnceInv
  BY <1>1 DEF OnceInv
<1> QED
  BY <1>2, <1>3, <1>4, TypeInit DEF PlaceInv

\* What is taken for a video when the walk is as it should be.
LEMMA VideoPlace ==
  ASSUME PlaceInv, NEW v \in Video, ProcessVideo(v)
  PROVE  /\ stage = "media" /\ here \in Folder /\ passes # <<>>
         /\ 1 \in DOMAIN passes /\ v \in passes[1] /\ FolderOf[v] = here
         /\ ~Ahead(here)
         /\ passes' # <<>> /\ Len(passes') = Len(passes) /\ DOMAIN passes' = DOMAIN passes
         /\ \A k \in DOMAIN passes : passes'[k] = IF k = 1 THEN passes[1] \ {v} ELSE passes[k]
         /\ \A k \in DOMAIN passes : v \notin passes'[k]
<1>1. stage = "media" /\ v \in passes[1] /\ passes' = [passes EXCEPT ![1] = @ \ {v}]
  BY VideoFacts DEF PlaceInv
<1>2. here \in Folder /\ passes # <<>> /\ passes \in Seq(SUBSET Video)
  BY <1>1 DEF PlaceInv, WalkInv, TypeOK
<1>3. 1 \in DOMAIN passes
  BY <1>2, EmptySeq, LenProperties
<1>4. FolderOf[v] = here
  BY <1>1, <1>3 DEF PlaceInv, PassInv, In
<1>5. ~Ahead(here)
  BY DEF Ahead, PlaceInv, WalkInv
<1>6. /\ passes' # <<>> /\ Len(passes') = Len(passes) /\ DOMAIN passes' = DOMAIN passes
      /\ \A k \in DOMAIN passes : passes'[k] = IF k = 1 THEN passes[1] \ {v} ELSE passes[k]
  BY <1>1, <1>2, TakeFacts
<1>7. ASSUME NEW k \in DOMAIN passes
      PROVE  v \notin passes'[k]
  <2>1. CASE k = 1
    BY <1>6, <2>1
  <2>2. CASE k # 1
    <3>1. passes[k] \cap passes[1] = {}
      BY <1>3, <2>2 DEF PlaceInv, PassInv
    <3> QED
      BY <1>1, <1>6, <2>2, <3>1
  <2> QED
    BY <2>1, <2>2
<1> QED
  BY <1>1, <1>2, <1>3, <1>4, <1>5, <1>6, <1>7

\* The passes over a folder that is entered: its videos, those of the archive
\* first if they are handled apart.
LEMMA EnterFacts ==
  ASSUME TypeOK, NEW f \in Folder, EnterFolder(f)
  PROVE  /\ passes' # <<>> /\ Len(passes') <= 2
         /\ \A k \in DOMAIN passes' : passes'[k] \subseteq In(f)
         /\ \A j, k \in DOMAIN passes' : j # k => passes'[j] \cap passes'[k] = {}
         /\ unpacked' \subseteq In(f) \cap Packed
         /\ \A v \in (Listed(f) \cap disk) \cup unpacked' :
              \E k \in DOMAIN passes' : v \in passes'[k]
<1> DEFINE listed == (Listed(f) \cap disk) \cup unpacked'
<1>1. unpacked' \subseteq In(f) \cap Packed
  BY DEF EnterFolder
<1>2. listed \subseteq In(f)
  BY <1>1 DEF Listed
<1>3. passes' = <<unpacked', listed \ unpacked'>> \/ passes' = <<listed>>
  BY DEF EnterFolder
<1> HIDE DEF listed
<1>4. CASE passes' = <<listed>>
  <2>1. Len(passes') = 1 /\ DOMAIN passes' = {1} /\ passes'[1] = listed /\ passes' # <<>>
    BY <1>4
  <2> QED
    BY <1>1, <1>2, <2>1 DEF listed
<1>5. CASE passes' = <<unpacked', listed \ unpacked'>>
  <2>1. /\ Len(passes') = 2 /\ DOMAIN passes' = {1, 2} /\ passes' # <<>>
        /\ passes'[1] = unpacked' /\ passes'[2] = listed \ unpacked'
    BY <1>5
  <2>2. \A v \in listed : v \in passes'[1] \/ v \in passes'[2]
    BY <2>1
  <2>3. \A k \in DOMAIN passes' : passes'[k] \subseteq In(f)
    BY <1>1, <1>2, <2>1
  <2>4. \A j, k \in DOMAIN passes' : j # k => passes'[j] \cap passes'[k] = {}
    BY <2>1
  <2> QED
    BY <1>1, <2>1, <2>2, <2>3, <2>4 DEF listed
<1> QED
  BY <1>3, <1>4, <1>5

\* A step that leaves the walk alone.
LEMMA PlaceStutter ==
  ASSUME PlaceInv, [Next]_vars, UNCHANGED <<stage, walk, outcome>>
  PROVE  WalkInv' /\ PassInv' /\ OnceInv'
<1>1. Kind' = Kind /\ Paths' = Paths /\ \A p : Folders(p)' = Folders(p)
  BY SetupFacts DEF PlaceInv
<1>2. WalkInv'
  BY <1>1 DEF PlaceInv, WalkInv, Running, walk
<1>3. PassInv'
  BY DEF PlaceInv, PassInv, walk
<1>4. OnceInv'
  BY <1>1 DEF PlaceInv, OnceInv, Ahead, Waiting, walk
<1> QED
  BY <1>2, <1>3, <1>4

LEMMA PlaceStep ==
  ASSUME PlaceInv, [Next]_vars
  PROVE  PlaceInv'
<1>0. /\ TypeOK /\ WalkInv /\ PassInv /\ OnceInv
      /\ Kind' = Kind /\ Paths' = Paths /\ (\A p : Folders(p)' = Folders(p))
      /\ None \notin Folder
  BY SetupFacts, PostProcessAssumption DEF PlaceInv
<1>1. CASE WorldStep \/ UNCHANGED vars
  <2>1. UNCHANGED <<stage, walk, outcome>>
    BY <1>0, <1>1, WorldFacts DEF vars, ghosts
  <2> QED
    BY <1>0, <2>1, PlaceStutter, TypeStep DEF PlaceInv
<1>2. CASE Start
  <2>1. /\ stage = "idle" /\ stage' \in {"paths", "end"} /\ paths' \subseteq Paths
        /\ stage' = "end" => paths' = {}
        /\ UNCHANGED <<folders, here, unpacked, passes>>
        /\ \A v \in Video : outcome'[v] = "unseen"
    BY <1>2 DEF Start
  <2>2. folders = {} /\ here = None /\ passes = <<>> /\ unpacked = {}
    BY <1>0, <2>1 DEF WalkInv, Running
  <2>3. WalkInv'
    <3>1. \A p \in paths' : None \notin Folders(p)
      BY <1>0, <2>1, PathFacts
    <3> QED
      BY <1>0, <2>1, <2>2, <3>1 DEF WalkInv, Running
  <2>4. PassInv'
    BY <1>0, <2>1 DEF PassInv
  <2>5. OnceInv'
    BY <2>1 DEF OnceInv
  <2> QED
    BY <1>0, <2>3, <2>4, <2>5, TypeStep DEF PlaceInv
<1>3. ASSUME NEW p \in Folder, SkipPath(p)
      PROVE  PlaceInv'
  <2>1. /\ stage = "paths" /\ paths' = paths \ {p}
        /\ UNCHANGED <<stage, folders, here, unpacked, passes, outcome>>
    BY <1>3 DEF SkipPath, NextPath, ghosts
  <2>2. WalkInv'
    BY <1>0, <2>1 DEF WalkInv, Running
  <2>3. PassInv'
    BY <1>0, <2>1 DEF PassInv
  <2>4. OnceInv'
    BY <1>0, <2>1 DEF OnceInv, Ahead, Waiting
  <2> QED
    BY <1>0, <2>2, <2>3, <2>4, TypeStep DEF PlaceInv
<1>4. ASSUME NEW p \in Folder, EnterPath(p)
      PROVE  PlaceInv'
  <2>1. /\ stage = "paths" /\ p \in paths /\ paths' = paths \ {p} /\ folders' = Folders(p)
        /\ stage' = "folders" /\ UNCHANGED <<here, unpacked, passes, outcome>>
    BY <1>4 DEF EnterPath, NextPath, ghosts
  <2>2. here = None /\ folders = {} /\ passes = <<>> /\ unpacked = {}
    BY <1>0, <2>1 DEF WalkInv, Running
  <2>3. None \notin Folders(p) /\ (Kind # "all" => paths' = {})
    BY <1>0, <2>1, PathFacts DEF WalkInv
  <2>4. WalkInv'
    <3>1. \A q \in paths' : Folders(q) \cap (folders' \cup {here'}) = {}
      <4>1. ASSUME NEW q \in paths'
            PROVE  Folders(q) \cap (folders' \cup {here'}) = {}
        <5>1. q \in Paths /\ p \in Paths /\ p # q
          BY <1>0, <2>1, <4>1 DEF WalkInv
        <5>2. Folders(q) \cap Folders(p) = {} /\ None \notin Folders(q)
          BY <1>0, <5>1, PathFacts
        <5> QED
          BY <2>1, <2>2, <5>2
      <4> QED
        BY <4>1
    <3> QED
      BY <1>0, <2>1, <2>2, <2>3, <3>1 DEF WalkInv, Running, TypeOK
  <2>5. PassInv'
    BY <1>0, <2>1 DEF PassInv
  <2>6. OnceInv'
    BY <1>0, <2>1 DEF OnceInv, Ahead, Waiting
  <2> QED
    BY <1>0, <2>4, <2>5, <2>6, TypeStep DEF PlaceInv
<1>5. ASSUME NEW f \in Folder, SkipFolder(f) \/ PostponeFolder(f)
      PROVE  PlaceInv'
  <2>1. /\ stage = "folders" /\ folders' = folders \ {f}
        /\ UNCHANGED <<stage, paths, here, unpacked, passes, outcome>>
    BY <1>5 DEF SkipFolder, PostponeFolder, Turn, ghosts
  <2>2. WalkInv'
    BY <1>0, <2>1 DEF WalkInv, Running
  <2>3. PassInv'
    BY <1>0, <2>1 DEF PassInv
  <2>4. OnceInv'
    BY <1>0, <2>1 DEF OnceInv, Ahead, Waiting
  <2> QED
    BY <1>0, <2>2, <2>3, <2>4, TypeStep DEF PlaceInv
<1>6. ASSUME NEW f \in Folder, EnterFolder(f)
      PROVE  PlaceInv'
  <2>1. /\ stage = "folders" /\ f \in folders /\ folders' = folders \ {f} /\ here' = f
        /\ stage' = "media" /\ UNCHANGED <<paths, outcome>>
    BY <1>6 DEF EnterFolder, Turn, ghosts
  <2>2. /\ passes' # <<>> /\ Len(passes') <= 2
        /\ \A k \in DOMAIN passes' : passes'[k] \subseteq In(f)
        /\ \A j, k \in DOMAIN passes' : j # k => passes'[j] \cap passes'[k] = {}
        /\ unpacked' \subseteq In(f)
    BY <1>0, <1>6, EnterFacts
  <2>3. \A p \in paths : Folders(p) \cap (folders' \cup {here'}) = {}
    BY <1>0, <2>1 DEF WalkInv
  <2>4. Kind # "all" => paths = {}
    BY <1>0, <2>1 DEF WalkInv, Running
  <2>5. WalkInv'
    BY <1>0, <2>1, <2>2, <2>3, <2>4 DEF WalkInv, Running
  <2>6. PassInv'
    BY <2>1, <2>2 DEF PassInv
  <2>7. OnceInv'
    <3>1. ASSUME NEW v \in Video, Ahead(FolderOf[v])' \/ Waiting(v)'
          PROVE  Ahead(FolderOf[v])
      <4>1. CASE Ahead(FolderOf[v])'
        BY <1>0, <2>1, <4>1 DEF Ahead
      <4>2. CASE Waiting(v)'
        <5>1. FolderOf[v] = f
          BY <2>2, <4>2 DEF Waiting, In
        <5> QED
          BY <2>1, <5>1 DEF Ahead
      <4> QED
        BY <3>1, <4>1, <4>2
    <3> QED
      BY <1>0, <2>1, <3>1 DEF OnceInv
  <2> QED
    BY <1>0, <2>5, <2>6, <2>7, TypeStep DEF PlaceInv
<1>7. ASSUME NEW v \in Video, ProcessVideo(v)
      PROVE  PlaceInv'
  <2>1. PICK o \in Outcomes \ {"unseen"} :
          /\ outcome' = [outcome EXCEPT ![v] = o]
          /\ UNCHANGED <<stage, paths, folders, here, unpacked>>
    BY <1>0, <1>7, VideoFacts
  <2>2. /\ stage = "media" /\ here \in Folder /\ passes # <<>>
        /\ 1 \in DOMAIN passes /\ FolderOf[v] = here /\ ~Ahead(here)
        /\ passes' # <<>> /\ Len(passes') = Len(passes) /\ DOMAIN passes' = DOMAIN passes
        /\ \A k \in DOMAIN passes : passes'[k] = IF k = 1 THEN passes[1] \ {v} ELSE passes[k]
        /\ \A k \in DOMAIN passes : v \notin passes'[k]
    BY <1>7, VideoPlace
  <2>3. \A k \in DOMAIN passes : passes'[k] \subseteq passes[k]
    BY <2>2
  <2>4. WalkInv'
    BY <1>0, <2>1, <2>2 DEF WalkInv, Running
  <2>5. PassInv'
    <3>1. Len(passes') <= 2
      BY <1>0, <2>2 DEF PassInv
    <3>2. \A k \in DOMAIN passes' : passes'[k] \subseteq In(here)
      BY <1>0, <2>2, <2>3 DEF PassInv
    <3>3. \A j, k \in DOMAIN passes' : j # k => passes'[j] \cap passes'[k] = {}
      <4>1. ASSUME NEW j \in DOMAIN passes, NEW k \in DOMAIN passes, j # k
            PROVE  passes'[j] \cap passes'[k] = {}
        <5>1. passes[j] \cap passes[k] = {}
          BY <1>0, <4>1 DEF PassInv
        <5>2. passes'[j] \subseteq passes[j] /\ passes'[k] \subseteq passes[k]
          BY <2>3
        <5> QED
          BY <5>1, <5>2
      <4> QED
        BY <2>2, <4>1
    <3>4. unpacked' \subseteq In(here)
      BY <1>0, <2>1 DEF PassInv
    <3> QED
      BY <2>1, <3>1, <3>2, <3>3, <3>4 DEF PassInv
  <2>6. OnceInv'
    <3>1. ASSUME NEW w \in Video, Ahead(FolderOf[w])' \/ Waiting(w)'
          PROVE  w # v /\ (Ahead(FolderOf[w]) \/ Waiting(w))
      <4>1. CASE Ahead(FolderOf[w])'
        <5>1. Ahead(FolderOf[w])
          BY <1>0, <2>1, <4>1 DEF Ahead
        <5> QED
          BY <2>2, <5>1
      <4>2. CASE Waiting(w)'
        BY <2>2, <2>3, <4>2 DEF Waiting
      <4> QED
        BY <3>1, <4>1, <4>2
    <3>2. ASSUME NEW w \in Video, w # v
          PROVE  outcome'[w] = outcome[w]
      BY <1>0, <2>1, <3>2 DEF TypeOK
    <3> QED
      BY <1>0, <3>1, <3>2 DEF OnceInv
  <2> QED
    BY <1>0, <2>4, <2>5, <2>6, TypeStep DEF PlaceInv
<1>8. CASE NextPass
  <2>1. /\ stage = "media" /\ Len(passes) = 2 /\ passes' = Tail(passes)
        /\ UNCHANGED <<stage, paths, folders, here, unpacked, outcome>>
    BY <1>8 DEF NextPass, ghosts
  <2>2. /\ passes # <<>> /\ Len(passes') = 1
        /\ DOMAIN passes = {1, 2} /\ DOMAIN passes' = {1} /\ passes'[1] = passes[2]
    BY <1>0, <2>1, TailFacts DEF TypeOK
  <2>3. passes' # <<>>
    BY <2>2, EmptySeq
  <2>4. WalkInv'
    BY <1>0, <2>1, <2>3 DEF WalkInv, Running
  <2>5. PassInv'
    BY <1>0, <2>1, <2>2 DEF PassInv
  <2>6. OnceInv'
    BY <1>0, <2>1, <2>2 DEF OnceInv, Ahead, Waiting
  <2> QED
    BY <1>0, <2>4, <2>5, <2>6, TypeStep DEF PlaceInv
<1>9. CASE LeaveFolder
  <2>1. /\ stage = "media" /\ stage' = "folders" /\ here' = None /\ unpacked' = {} /\ passes' = <<>>
        /\ UNCHANGED <<paths, folders, outcome>>
    BY <1>9 DEF LeaveFolder, ghosts
  <2>2. None \notin folders /\ \A p \in paths : None \notin Folders(p)
    BY <1>0, PathFacts DEF TypeOK
  <2>3. WalkInv'
    BY <1>0, <2>1, <2>2 DEF WalkInv, Running
  <2>4. PassInv'
    BY <2>1, EmptySeq DEF PassInv
  <2>5. OnceInv'
    BY <1>0, <2>1 DEF OnceInv, Ahead, Waiting
  <2> QED
    BY <1>0, <2>3, <2>4, <2>5, TypeStep DEF PlaceInv
<1>10. CASE LeavePath
  <2>1. /\ stage = "folders" /\ folders = {} /\ stage' = "paths"
        /\ UNCHANGED <<walk, outcome>>
    BY <1>10 DEF LeavePath, ghosts
  <2>2. WalkInv'
    BY <1>0, <2>1 DEF WalkInv, Running, walk
  <2>3. PassInv'
    BY <1>0, <2>1 DEF PassInv, walk
  <2>4. OnceInv'
    BY <1>0, <2>1 DEF OnceInv, Ahead, Waiting, walk
  <2> QED
    BY <1>0, <2>2, <2>3, <2>4, TypeStep DEF PlaceInv
<1>11. CASE EndProcess \/ HandleFailure \/ Finish
  <2>1. /\ stage \in {"paths", "end", "history"} /\ stage' \in {"end", "history", "idle"}
        /\ paths = {} /\ UNCHANGED <<walk, outcome>>
    BY <1>0, <1>11 DEF EndProcess, HandleFailure, Finish, ghosts, WalkInv
  <2>2. WalkInv'
    BY <1>0, <2>1 DEF WalkInv, Running, walk
  <2>3. PassInv'
    BY <1>0, <2>1 DEF PassInv, walk
  <2>4. OnceInv'
    BY <1>0, <2>1 DEF OnceInv, Ahead, Waiting, walk
  <2> QED
    BY <1>0, <2>2, <2>3, <2>4, TypeStep DEF PlaceInv
<1>12. CASE Abandon
  <2>1. /\ stage' = "idle" /\ paths' = {} /\ folders' = {} /\ here' = None /\ unpacked' = {}
        /\ passes' = <<>>
    BY <1>12 DEF Abandon
  <2>2. WalkInv'
    BY <2>1 DEF WalkInv, Running
  <2>3. PassInv'
    BY <2>1, EmptySeq DEF PassInv
  <2>4. OnceInv'
    BY <2>1 DEF OnceInv, Ahead, Waiting
  <2> QED
    BY <1>0, <2>2, <2>3, <2>4, TypeStep DEF PlaceInv
<1> QED
  BY <1>0, <1>1, <1>2, <1>3, <1>4, <1>5, <1>6, <1>7, <1>8, <1>9, <1>10, <1>11, <1>12, NextCases

LEMMA PlaceInvariant == Spec => []PlaceInv
BY PlaceInit, PlaceStep, PTL DEF Spec

-----------------------------------------------------------------------------
\* Postponed downloads

\* What the steps other than those of process_media do to the flags.
LEMMA FlagSteps ==
  ASSUME TypeOK, [Next]_vars
  PROVE  \/ \E v \in Video : ProcessVideo(v)
         \/ Start
         \/ /\ UNCHANGED outcome
            /\ pr'.succeeded = pr.succeeded
            /\ pr'.failed = pr.failed \/ \E p \in Folder : SkipPath(p)
            /\ \/ pr'.postpone_any = pr.postpone_any /\ UNCHANGED held
               \/ pr'.postpone_any = TRUE /\ stage = "folders"
            /\ pr'.processed_items = pr.processed_items \/ LeaveFolder
            /\ pr'.directory = pr.directory
            /\ blamed' = blamed \/ HandleFailure
<1>0. pr \in Flag
  BY DEF TypeOK, Flag
<1>1. CASE WorldStep
  BY <1>1, WorldFacts DEF ghosts
<1>2. ASSUME NEW p \in Folder, SkipPath(p)
      PROVE  /\ UNCHANGED <<outcome, held, blamed>>
             /\ pr'.directory = pr.directory
             /\ pr'.succeeded = pr.succeeded /\ pr'.postpone_any = pr.postpone_any
             /\ pr'.processed_items = pr.processed_items
  <2>1. pr' = pr \/ \E f : pr' = [pr EXCEPT !.failed = (mark[f] = "failed")]
    BY <1>2 DEF SkipPath
  <2> QED
    BY <1>0, <1>2, <2>1 DEF SkipPath, ghosts, Flag
<1>3. ASSUME NEW p \in Folder, EnterPath(p)
      PROVE  /\ UNCHANGED <<outcome, held, blamed>>
             /\ pr'.directory = pr.directory
             /\ pr'.succeeded = pr.succeeded /\ pr'.postpone_any = pr.postpone_any
             /\ pr'.failed = pr.failed /\ pr'.processed_items = pr.processed_items
  BY <1>0, <1>3 DEF EnterPath, ghosts, Flag
<1>4. ASSUME NEW f \in Folder, PostponeFolder(f)
      PROVE  /\ UNCHANGED <<outcome, blamed>> /\ stage = "folders"
             /\ pr'.directory = pr.directory
             /\ pr'.succeeded = pr.succeeded /\ pr'.postpone_any = TRUE
             /\ pr'.failed = pr.failed /\ pr'.processed_items = pr.processed_items
  BY <1>0, <1>4 DEF PostponeFolder, Turn, Flag
<1>5. ASSUME NEW f \in Folder, EnterFolder(f)
      PROVE  /\ UNCHANGED <<outcome, held, blamed>>
             /\ pr'.directory = pr.directory
             /\ pr'.succeeded = pr.succeeded /\ pr'.postpone_any = pr.postpone_any
             /\ pr'.failed = pr.failed /\ pr'.processed_items = pr.processed_items
  <2>1. pr' = [pr EXCEPT !.postpone_processing = FALSE,
                         !.result = @ /\ ~(Archive(f) /\ f \in broken)]
    BY <1>5 DEF EnterFolder
  <2> QED
    BY <1>0, <1>5, <2>1 DEF EnterFolder, ghosts, Flag
<1>6. CASE NextPass
  BY <1>0, <1>6 DEF NextPass, ghosts, Flag
<1>7. CASE LeaveFolder
  <2>1. pr' = [pr EXCEPT !.processed_items = TRUE] /\ UNCHANGED ghosts
    BY <1>7 DEF LeaveFolder
  <2> QED
    BY <1>0, <1>7, <2>1 DEF ghosts, Flag
<1>8. CASE EndProcess
  BY <1>0, <1>8 DEF EndProcess, ghosts, Flag
<1>9. CASE HandleFailure
  <2>1. pr' = pr \/ \E result : pr' = [pr EXCEPT !.result = result]
    BY <1>9 DEF HandleFailure
  <2> QED
    BY <1>0, <1>9, <2>1 DEF HandleFailure, Flag
<1>10. CASE LeavePath \/ Finish \/ Abandon \/ UNCHANGED vars \/ \E f \in Folder : SkipFolder(f)
  BY <1>10 DEF LeavePath, Finish, Abandon, SkipFolder, vars, ghosts
<1> QED
  BY <1>1, <1>2, <1>3, <1>4, <1>5, <1>6, <1>7, <1>8, <1>9, <1>10, NextCases

\* The history is written at the end of a run that postponed nothing, and no run
\* starts afterwards.
LEMMA StatusSteps ==
  ASSUME TypeOK, [Next]_vars
  PROVE  \/ UNCHANGED status /\ (stage = "idle" => stage' = "idle" \/ Start)
         \/ /\ Finish /\ SingleResource /\ ~pr.postpone_any
            /\ stage' = "idle" /\ pr'.postpone_any = pr.postpone_any
<1>1. CASE Finish
  BY <1>1 DEF Finish, HistoryStatus
<1>2. ASSUME NEW v \in Video, ProcessVideo(v)
      PROVE  UNCHANGED status /\ stage = "media"
  BY <1>2, VideoFacts
<1>3. CASE WorldStep
  BY <1>3, WorldFacts
<1>4. ASSUME NEW p \in Folder, SkipPath(p) \/ EnterPath(p)
      PROVE  UNCHANGED status /\ stage = "paths"
  BY <1>4 DEF SkipPath, EnterPath, NextPath
<1>5. ASSUME NEW f \in Folder, SkipFolder(f) \/ PostponeFolder(f) \/ EnterFolder(f)
      PROVE  UNCHANGED status /\ stage = "folders"
  BY <1>5 DEF SkipFolder, PostponeFolder, EnterFolder, Turn
<1>6. CASE NextPass \/ LeaveFolder \/ LeavePath \/ EndProcess \/ HandleFailure \/ Abandon
  BY <1>6 DEF NextPass, LeaveFolder, LeavePath, EndProcess, HandleFailure, Abandon
<1>7. CASE Start \/ UNCHANGED vars
  BY <1>7 DEF Start, vars
<1> QED
  BY <1>1, <1>2, <1>3, <1>4, <1>5, <1>6, <1>7, NextCases

LEMMA PostponedInit ==
  ASSUME Init
  PROVE  PostponedInv
BY DEF Init, PostponedInv

LEMMA PostponedStep ==
  ASSUME PlaceInv, PostponedInv, [Next]_vars
  PROVE  PostponedInv'
<1>0. TypeOK /\ pr \in Flag /\ SingleResource' = SingleResource
  BY SetupFacts DEF PlaceInv, TypeOK, Flag
<1>1. held' # {} \/ (\E v \in Video : outcome'[v] = "postponed") => pr'.postpone_any
  <2>1. ASSUME NEW v \in Video, ProcessVideo(v),
               held' # {} \/ (\E w \in Video : outcome'[w] = "postponed")
        PROVE  pr'.postpone_any
    <3>1. PICK o \in Outcomes \ {"unseen"} :
            /\ outcome' = [outcome EXCEPT ![v] = o] /\ UNCHANGED held
            /\ pr'.postpone_any = pr.postpone_any \/ pr'.postpone_any = TRUE
            /\ o = "postponed" => pr'.postpone_any = TRUE
      BY <1>0, <2>1, VideoFacts
    <3>2. o = "postponed" \/ held # {} \/ \E w \in Video : outcome[w] = "postponed"
      BY <1>0, <2>1, <3>1 DEF TypeOK
    <3> QED
      BY <3>1, <3>2 DEF PostponedInv
  <2>2. CASE Start
    BY <2>2 DEF Start
  <2>3. ASSUME UNCHANGED outcome,
               (pr'.postpone_any = pr.postpone_any /\ UNCHANGED held) \/ pr'.postpone_any = TRUE,
               held' # {} \/ (\E w \in Video : outcome'[w] = "postponed")
        PROVE  pr'.postpone_any
    BY <2>3 DEF PostponedInv
  <2> QED
    BY <1>0, <2>1, <2>2, <2>3, FlagSteps
<1>2. ASSUME status' # "Completed"
      PROVE  stage' = "idle" /\ SingleResource /\ ~pr'.postpone_any
  <2>1. CASE Finish /\ SingleResource /\ ~pr.postpone_any
             /\ stage' = "idle" /\ pr'.postpone_any = pr.postpone_any
    BY <2>1
  <2>2. CASE UNCHANGED status /\ (stage = "idle" => stage' = "idle" \/ Start)
    <3>1. status # "Completed" /\ stage = "idle" /\ SingleResource /\ ~pr.postpone_any
      BY <1>2, <2>2 DEF PostponedInv
    <3>2. ~Start
      BY <3>1 DEF Start
    <3>3. \A v \in Video : ~ProcessVideo(v)
      BY <1>0, <3>1, VideoFacts
    <3>4. pr'.postpone_any = pr.postpone_any
      BY <1>0, <3>1, <3>2, <3>3, FlagSteps
    <3> QED
      BY <2>2, <3>1, <3>2, <3>4
  <2> QED
    BY <1>0, <2>1, <2>2, StatusSteps
<1> QED
  BY <1>0, <1>1, <1>2 DEF PostponedInv

\* A run that postponed a folder or a video leaves the history alone.
THEOREM PostponedKeeps == Spec => []PostponedKeepsStatus
<1>1. PostponedInv => PostponedKeepsStatus
  BY DEF PostponedInv, PostponedKeepsStatus
<1>2. PlaceInv /\ PostponedInv /\ [Next]_vars => PostponedInv'
  BY PostponedStep
<1>3. Init => PostponedInv
  BY PostponedInit
<1> QED
  BY <1>1, <1>2, <1>3, PlaceInvariant, PTL DEF Spec

-----------------------------------------------------------------------------
(***************************************************************************)
(* PostProcess implements DownloadJob.  A run begins with Start and ends   *)
(* with Finish, which writes the history if the flags say so, or Abandon;  *)
(* FinalInv is                                                             *)
(* what the flags say then, beside PostponedInv.  Between the two the only *)
(* thing that DownloadJob sees is the first folder or video postponed.     *)
(***************************************************************************)

\* postpone_any is set with a reason only, and whenever postpone_processing is;
\* what the client said of the download is not forgotten.
FinalInv ==
  /\ pr.postpone_processing => pr.postpone_any
  /\ pr.postpone_any => Postponed
  /\ clientFailed => pr.failed

\* A folder or a video that was postponed stays so for the rest of the run.
LEMMA PostponedSteps ==
  ASSUME PlaceInv, [Next]_vars
  PROVE  Start \/ (Postponed => Postponed')
<1>0. TypeOK /\ OnceInv
  BY DEF PlaceInv
<1>1. ASSUME NEW v \in Video, ProcessVideo(v), Postponed
      PROVE  Postponed'
  <2>1. PICK o : outcome' = [outcome EXCEPT ![v] = o] /\ UNCHANGED held
    BY <1>0, <1>1, VideoFacts
  <2>2. outcome[v] = "unseen"
    <3>1. 1 \in DOMAIN passes /\ v \in passes[1]
      BY <1>1, VideoPlace
    <3> QED
      BY <1>0, <3>1 DEF OnceInv, Waiting
  <2>3. CASE held # {}
    BY <2>1, <2>3 DEF Postponed
  <2>4. ASSUME NEW w \in Video, outcome[w] = "postponed"
        PROVE  Postponed'
    <3>1. w # v
      BY <2>2, <2>4
    <3>2. outcome'[w] = "postponed"
      BY <1>0, <2>1, <2>4, <3>1 DEF TypeOK
    <3> QED
      BY <3>2 DEF Postponed
  <2> QED
    BY <1>1, <2>3, <2>4 DEF Postponed
<1>2. ASSUME NEW f \in Folder, PostponeFolder(f)
      PROVE  Postponed'
  BY <1>2 DEF PostponeFolder, Postponed
<1>3. ASSUME UNCHANGED <<outcome, held>>
      PROVE  Postponed' <=> Postponed
  BY <1>3 DEF Postponed
<1>4. ASSUME NEW p \in Folder, SkipPath(p) \/ EnterPath(p) \/ SkipFolder(p) \/ EnterFolder(p)
      PROVE  UNCHANGED <<outcome, held>>
  BY <1>4 DEF SkipPath, EnterPath, SkipFolder, EnterFolder, ghosts
<1>5. CASE WorldStep
  BY <1>0, <1>3, <1>5, WorldFacts DEF ghosts
<1>6. CASE \/ NextPass \/ LeaveFolder \/ LeavePath \/ EndProcess \/ HandleFailure \/ Finish
           \/ Abandon \/ UNCHANGED vars
  BY <1>3, <1>6 DEF NextPass, LeaveFolder, LeavePath, EndProcess, HandleFailure, Finish, Abandon,
                    vars, ghosts
<1> QED
  BY <1>1, <1>2, <1>3, <1>4, <1>5, <1>6, NextCases

\* What a step does to the flags of FinalInv.
LEMMA FinalFlags ==
  ASSUME TypeOK, [Next]_vars
  PROVE  \/ Start
         \/ /\ pr'.failed = pr.failed \/ ~pr.failed
            /\ \/ /\ pr'.postpone_any = pr.postpone_any
                  /\ pr'.postpone_processing = pr.postpone_processing
                     \/ pr'.postpone_processing = FALSE
               \/ pr'.postpone_any = TRUE /\ Postponed'
<1>0. pr \in Flag
  BY DEF TypeOK, Flag
<1>1. CASE \/ WorldStep \/ LeavePath \/ Finish \/ Abandon \/ UNCHANGED vars
           \/ \E f \in Folder : SkipFolder(f)
  BY <1>1, WorldFacts DEF LeavePath, Finish, Abandon, vars, SkipFolder
<1>2. ASSUME NEW p \in Folder, SkipPath(p)
      PROVE  /\ pr'.failed = pr.failed \/ ~pr.failed
             /\ pr'.postpone_any = pr.postpone_any
             /\ pr'.postpone_processing = pr.postpone_processing
  <2>1. pr' = pr \/ (~pr.failed /\ \E f : pr' = [pr EXCEPT !.failed = (mark[f] = "failed")])
    BY <1>2 DEF SkipPath
  <2> QED
    BY <1>0, <2>1 DEF Flag
<1>3. ASSUME NEW f \in Folder, EnterPath(f) \/ EndProcess
      PROVE  /\ pr'.failed = pr.failed /\ pr'.postpone_any = pr.postpone_any
             /\ pr'.postpone_processing = pr.postpone_processing
  BY <1>0, <1>3 DEF EnterPath, EndProcess, Flag
<1>4. ASSUME NEW f \in Folder, PostponeFolder(f)
      PROVE  pr'.failed = pr.failed /\ pr'.postpone_any = TRUE /\ Postponed'
  BY <1>0, <1>4 DEF PostponeFolder, Postponed, Flag
<1>5. ASSUME NEW f \in Folder, EnterFolder(f)
      PROVE  /\ pr'.failed = pr.failed /\ pr'.postpone_any = pr.postpone_any
             /\ pr'.postpone_processing = FALSE
  <2>1. pr' = [pr EXCEPT !.postpone_processing = FALSE,
                         !.result = @ /\ ~(Archive(f) /\ f \in broken)]
    BY <1>5 DEF EnterFolder
  <2> QED
    BY <1>0, <2>1 DEF Flag
<1>6. ASSUME NEW v \in Video, PostponeVideo(v)
      PROVE  pr'.failed = pr.failed /\ pr'.postpone_any = TRUE /\ Postponed'
  <2>1. /\ Take(v, "postponed")
        /\ pr' = [pr EXCEPT !.result = TRUE, !.postpone_processing = TRUE, !.postpone_any = TRUE]
    BY <1>6 DEF PostponeVideo
  <2>2. outcome'[v] = "postponed"
    BY <2>1 DEF Take, TypeOK
  <2> QED
    BY <1>0, <2>1, <2>2 DEF Postponed, Flag
<1>7. ASSUME NEW v \in Video, SkipProcessed(v) \/ Import(v) \/ Leave(v)
      PROVE  /\ pr'.failed = pr.failed /\ pr'.postpone_any = pr.postpone_any
             /\ pr'.postpone_processing = pr.postpone_processing
  <2>1. pr' = pr \/ pr' = [pr EXCEPT !.result = TRUE]
    BY <1>7 DEF SkipProcessed, Import, Leave
  <2> QED
    BY <1>0, <2>1 DEF Flag
<1>8. ASSUME NEW v \in Video, Fail(v)
      PROVE  /\ pr'.failed = pr.failed /\ pr'.postpone_any = pr.postpone_any
             /\ pr'.postpone_processing = pr.postpone_processing
  <2>1. PICK result : pr' = [pr EXCEPT !.result = result, !.succeeded = FALSE]
    BY <1>8 DEF Fail
  <2> QED
    BY <1>0, <2>1 DEF Flag
<1>9. CASE NextPass
  BY <1>0, <1>9 DEF NextPass, Flag
<1>10. CASE LeaveFolder
  <2>1. pr' = [pr EXCEPT !.processed_items = TRUE]
    BY <1>10 DEF LeaveFolder
  <2> QED
    BY <1>0, <2>1 DEF Flag
<1>11. CASE HandleFailure
  <2>1. pr' = pr \/ \E result : pr' = [pr EXCEPT !.result = result]
    BY <1>11 DEF HandleFailure
  <2> QED
    BY <1>0, <2>1 DEF Flag
<1>12. CASE EndProcess
  BY <1>0, <1>12 DEF EndProcess, Flag
<1> QED
  BY <1>1, <1>2, <1>3, <1>4, <1>5, <1>6, <1>7, <1>8, <1>9, <1>10, <1>11, <1>12, NextCases
     DEF ProcessVideo

LEMMA FinalInit ==
  ASSUME Init
  PROVE  FinalInv
BY DEF Init, Fresh, FinalInv

LEMMA FinalStep ==
  ASSUME PlaceInv, FinalInv, [Next]_vars
  PROVE  FinalInv'
<1>1. TypeOK /\ clientFailed' = clientFailed
  BY SetupFacts DEF PlaceInv
<1>2. CASE Start
  BY <1>1, <1>2 DEF Start, Fresh, FinalInv
<1>3. CASE ~Start
  <2>1. Postponed => Postponed'
    BY <1>3, PostponedSteps
  <2> QED
    BY <1>1, <1>3, <2>1, FinalFlags DEF FinalInv
<1> QED
  BY <1>2, <1>3

\* A run begins and ends with these two steps, and is idle in between.
LEMMA RunSteps ==
  ASSUME TypeOK, [Next]_vars
  PROVE  \/ Start \/ Finish \/ Abandon
         \/ /\ UNCHANGED <<status, abandoned>>
            /\ stage = "idle" <=> stage' = "idle"
            /\ stage = "idle" => UNCHANGED <<outcome, held>>
<1>1. ASSUME NEW v \in Video, ProcessVideo(v)
      PROVE  UNCHANGED <<status, abandoned>> /\ stage = "media" /\ stage' = "media"
  BY <1>1, VideoFacts
<1>2. CASE WorldStep
  BY <1>2, WorldFacts DEF ghosts
<1>3. ASSUME NEW p \in Folder, SkipPath(p) \/ EnterPath(p)
      PROVE  UNCHANGED <<status, abandoned>> /\ stage = "paths" /\ stage' # "idle"
  BY <1>3 DEF SkipPath, EnterPath, NextPath, ghosts
<1>4. ASSUME NEW f \in Folder, SkipFolder(f) \/ PostponeFolder(f) \/ EnterFolder(f)
      PROVE  UNCHANGED <<status, abandoned>> /\ stage = "folders" /\ stage' # "idle"
  BY <1>4 DEF SkipFolder, PostponeFolder, EnterFolder, Turn, ghosts
<1>5. CASE NextPass \/ LeaveFolder \/ LeavePath \/ EndProcess \/ HandleFailure
  BY <1>5 DEF NextPass, LeaveFolder, LeavePath, EndProcess, HandleFailure, ghosts
<1>6. CASE UNCHANGED vars
  BY <1>6 DEF vars, ghosts
<1> QED
  BY <1>1, <1>2, <1>3, <1>4, <1>5, <1>6, NextCases

\* The end of a run: the row is settled unless something was postponed.
LEMMA RefineFinish ==
  ASSUME PlaceInv, PostponedInv, FinalInv, Finish
  PROVE  DJ!Leave \/ DJ!Settle
<1>1. /\ stage = "history" /\ stage' = "idle"
      /\ UNCHANGED <<setup, clientFailed, outcome, held, abandoned>>
  BY DEF Finish, world, ghosts
<1>2. SingleResource' = SingleResource /\ (Postponed' <=> Postponed)
  BY <1>1 DEF SingleResource, Postponed
<1>3. status' = HistoryStatus
  BY DEF Finish
<1>4. Postponed => pr.postpone_any
  BY DEF Postponed, PostponedInv
<1>5. CASE ~SingleResource \/ Postponed
  <2>1. status' = status
    BY <1>3, <1>4, <1>5 DEF HistoryStatus
  <2> QED
    BY <1>1, <1>2, <1>5, <2>1 DEF DJ!Leave
<1>6. CASE SingleResource /\ ~Postponed
  <2>1. ~pr.postpone_any /\ ~pr.postpone_processing
    BY <1>6 DEF FinalInv
  <2>2. status' \in {"Postprocessed Completed", "Postprocessed Failed"}
    BY <1>3, <1>6, <2>1 DEF HistoryStatus
  <2>3. clientFailed => status' = "Postprocessed Failed"
    BY <1>3, <1>6, <2>1 DEF HistoryStatus, FinalInv
  <2> QED
    BY <1>1, <1>2, <1>6, <2>2, <2>3 DEF DJ!Settle
<1> QED
  BY <1>5, <1>6

LEMMA RefineJob ==
  ASSUME PlaceInv, PostponedInv, FinalInv, [Next]_vars
  PROVE  DJ!Next \/ UNCHANGED DJ!vars
<1>1. TypeOK /\ UNCHANGED <<SingleResource, clientFailed>>
  BY SetupFacts DEF PlaceInv
<1>2. CASE Start
  <2>1. /\ stage = "idle" /\ stage' # "idle" /\ UNCHANGED status /\ abandoned' = FALSE
        /\ SingleResource => status = "Completed"
        /\ held' = {} /\ \A v \in Video : outcome'[v] = "unseen"
    BY <1>2 DEF Start
  <2>2. ~Postponed'
    BY <2>1 DEF Postponed
  <2> QED
    BY <1>1, <2>1, <2>2 DEF DJ!Begin, DJ!Next
<1>3. CASE Finish
  BY <1>3, RefineFinish DEF DJ!Next
<1>4. CASE Abandon
  <2>1. /\ stage # "idle" /\ stage' = "idle" /\ UNCHANGED <<status, outcome, held>>
        /\ abandoned' = TRUE
    BY <1>4 DEF Abandon
  <2>2. Postponed' <=> Postponed
    BY <2>1 DEF Postponed
  <2> QED
    BY <1>1, <2>1, <2>2 DEF DJ!Abandon, DJ!Next
<1>5. CASE ~Start /\ ~Finish /\ ~Abandon
  <2>1. /\ UNCHANGED <<status, abandoned>> /\ (stage = "idle" <=> stage' = "idle")
        /\ stage = "idle" => UNCHANGED <<outcome, held>>
    BY <1>1, <1>5, RunSteps
  <2>2. Postponed => Postponed'
    BY <1>5, PostponedSteps
  <2>3. CASE Postponed' <=> Postponed
    BY <1>1, <2>1, <2>3 DEF DJ!vars
  <2>4. CASE ~Postponed /\ Postponed'
    <3>1. stage # "idle"
      BY <2>1, <2>4 DEF Postponed
    <3> QED
      BY <1>1, <2>1, <2>4, <3>1 DEF DJ!Postpone, DJ!Next
  <2> QED
    BY <2>2, <2>3, <2>4
<1> QED
  BY <1>2, <1>3, <1>4, <1>5

\* Every behaviour of the job, seen by the download handler, is one of DownloadJob:
\* a run that comes to its end leaves the history alone exactly when it postponed
\* something, and else records once how the download ended.
THEOREM JobImplemented == Spec => ImplementsDownloadJob
<1>1. Init => PlaceInv /\ PostponedInv /\ FinalInv
  BY PlaceInit, PostponedInit, FinalInit
<1>2. PlaceInv /\ PostponedInv /\ FinalInv /\ [Next]_vars
        => PlaceInv' /\ PostponedInv' /\ FinalInv'
  BY PlaceStep, PostponedStep, FinalStep
<1>3. Init => DJ!Init
  <2> SUFFICES ASSUME Init
               PROVE  DJ!Init
    OBVIOUS
  <2>1. Postponed = FALSE
    BY DEF Init, Postponed
  <2>2. SingleResource \in BOOLEAN
    BY PostProcessAssumption DEF Init, SingleResource
  <2>3. /\ clientFailed \in (IF SingleResource THEN BOOLEAN ELSE {FALSE})
        /\ status = "Completed" /\ (stage # "idle") = FALSE /\ abandoned = FALSE
    BY DEF Init
  <2> QED
    BY <2>1, <2>2, <2>3 DEF DJ!Init
<1>4. PlaceInv /\ PostponedInv /\ FinalInv /\ [Next]_vars => [DJ!Next]_(DJ!vars)
  BY RefineJob
<1> QED
  BY <1>1, <1>2, <1>3, <1>4, PTL DEF Spec, DJ!Spec, ImplementsDownloadJob

-----------------------------------------------------------------------------
\* Failed download handling

\* A mark only ever ends an unpacking.
LEMMA MarkSteps ==
  ASSUME TypeOK, [Next]_vars
  PROVE  \A f \in Folder : /\ mark[f] = "failed" <=> mark'[f] = "failed"
                           /\ mark[f] = "none" => mark'[f] = "none"
<1>1. CASE WorldStep
  BY <1>1, WorldFacts
<1>2. CASE UNCHANGED mark
  BY <1>2
<1>3. CASE ~WorldStep
  <2>1. ASSUME NEW v \in Video, ProcessVideo(v)
        PROVE  UNCHANGED mark
    BY <2>1, VideoFacts DEF world
  <2>2. CASE \/ Start \/ NextPass \/ LeaveFolder \/ LeavePath \/ EndProcess \/ HandleFailure
             \/ Finish \/ Abandon \/ UNCHANGED vars
    BY <2>2 DEF Start, NextPass, LeaveFolder, LeavePath, EndProcess, HandleFailure, Finish, Abandon,
                vars, world
  <2>3. ASSUME NEW p \in Folder, SkipPath(p) \/ EnterPath(p) \/ SkipFolder(p) \/ PostponeFolder(p)
                                 \/ EnterFolder(p)
        PROVE  UNCHANGED mark
    BY <2>3 DEF SkipPath, EnterPath, SkipFolder, PostponeFolder, EnterFolder, world
  <2> QED
    BY <1>2, <1>3, <2>1, <2>2, <2>3, NextCases
<1> QED
  BY <1>1, <1>3

\* The outcome of a video stays what it is until the next run.
LEMMA OutcomeSteps ==
  ASSUME PlaceInv, [Next]_vars, ~Start
  PROVE  \A v \in Video : outcome[v] # "unseen" => outcome'[v] = outcome[v]
<1>1. ASSUME NEW v \in Video, ProcessVideo(v)
      PROVE  \A w \in Video : outcome[w] # "unseen" => outcome'[w] = outcome[w]
  <2>1. PICK o : outcome' = [outcome EXCEPT ![v] = o]
    BY <1>1, VideoFacts DEF PlaceInv
  <2>2. outcome[v] = "unseen"
    BY <1>1, VideoPlace DEF PlaceInv, OnceInv, Waiting
  <2> QED
    BY <2>1, <2>2 DEF PlaceInv, TypeOK
<1> QED
  BY <1>1, FlagSteps DEF PlaceInv

JustifiedInv == BlameInv /\ FailedHandlingJustified

LEMMA JustifiedInit ==
  ASSUME Init
  PROVE  JustifiedInv
BY DEF Init, Fresh, JustifiedInv, BlameInv, FailedHandlingJustified

LEMMA JustifiedStep ==
  ASSUME PlaceInv, JustifiedInv, [Next]_vars
  PROVE  JustifiedInv'
<1> DEFINE Marked == clientFailed \/ NameFailed
           Seen == \E v \in Video : outcome[v] = "failed"
<1>0. TypeOK /\ pr \in Flag /\ BlameInv /\ FailedHandlingJustified /\ Download \notin Video
  BY PostProcessAssumption DEF PlaceInv, TypeOK, Flag, JustifiedInv, Download
<1>1. Marked => Marked'
  <2>1. \A p \in Paths : \A f \in {p} \cup UNION {Children(g) : g \in Looks(p)} : f \in Folder
    <3>1. \A g \in Folder : Children(g) \subseteq Folder
      BY PostProcessAssumption DEF Children
    <3> QED
      BY <3>1, PathFacts
  <2> QED
    BY <1>0, <2>1, MarkSteps, SetupFacts DEF NameFailed
<1>2. Seen /\ ~Start => Seen'
  BY OutcomeSteps
<1>3. CASE Start
  <2>1. blamed' = {}
    BY <1>3 DEF Start
  <2>2. pr'.succeeded = TRUE /\ (pr'.failed = clientFailed)
    BY <1>3 DEF Start, Fresh
  <2>3. BlameInv'
    BY <1>1, <2>2 DEF BlameInv
  <2> QED
    BY <2>1, <2>3 DEF JustifiedInv, FailedHandlingJustified
<1>4. ASSUME NEW v \in Video, ProcessVideo(v)
      PROVE  JustifiedInv'
  <2>0. ~Start
    BY <1>0, <1>4, VideoFacts DEF Start
  <2>1. PICK o \in Outcomes \ {"unseen"} :
          /\ outcome' = [outcome EXCEPT ![v] = o]
          /\ pr'.failed = pr.failed
          /\ pr'.succeeded = pr.succeeded \/ o = "failed"
          /\ blamed' = blamed \/ (blamed' \subseteq blamed \cup {v} /\ o = "failed")
    BY <1>0, <1>4, VideoFacts
  <2>2. outcome'[v] = o
    BY <1>0, <2>1 DEF TypeOK
  <2>3. BlameInv'
    <3>1. pr'.failed => Marked'
      BY <1>0, <1>1, <2>1 DEF BlameInv
    <3>2. ~pr'.succeeded => Seen'
      <4>1. CASE o = "failed"
        BY <2>2, <4>1
      <4>2. CASE pr'.succeeded = pr.succeeded
        BY <1>0, <1>2, <2>0, <4>2 DEF BlameInv
      <4> QED
        BY <2>1, <4>1, <4>2
    <3> QED
      BY <3>1, <3>2 DEF BlameInv
  <2>4. \A w \in Video \cap blamed' : outcome'[w] = "failed"
    <3>1. ASSUME NEW w \in Video \cap blamed'
          PROVE  outcome'[w] = "failed"
      <4>1. CASE w \in blamed
        <5>1. outcome[w] = "failed"
          BY <1>0, <4>1 DEF FailedHandlingJustified
        <5> QED
          BY <2>0, <5>1, OutcomeSteps
      <4>2. CASE w \notin blamed
        BY <2>1, <2>2, <3>1, <4>2
      <4> QED
        BY <4>1, <4>2
    <3> QED
      BY <3>1
  <2>5. Download \in blamed' => Marked' \/ Seen'
    <3>1. Download \in blamed' => Download \in blamed
      BY <1>0, <2>1
    <3> QED
      BY <1>0, <1>1, <1>2, <2>0, <3>1 DEF FailedHandlingJustified
  <2> QED
    BY <2>3, <2>4, <2>5 DEF JustifiedInv, FailedHandlingJustified
<1>5. ASSUME ~Start, UNCHANGED outcome, pr'.succeeded = pr.succeeded,
             pr'.failed = pr.failed \/ \E p \in Folder : SkipPath(p),
             blamed' = blamed \/ HandleFailure
      PROVE  JustifiedInv'
  <2>1. pr'.failed => Marked'
    <3>1. CASE pr'.failed = pr.failed
      BY <1>0, <1>1, <3>1 DEF BlameInv
    <3>2. ASSUME NEW p \in Folder, SkipPath(p), pr'.failed # pr.failed
          PROVE  pr'.failed => Marked
      <4>1. PICK f \in Bad(p) : pr' = [pr EXCEPT !.failed = (mark[f] = "failed")]
        BY <3>2 DEF SkipPath
      <4>2. p \in Paths
        BY <3>2 DEF SkipPath, NextPath, PlaceInv, WalkInv
      <4>3. f \in {p} \cup UNION {Children(g) : g \in Looks(p)}
        BY <4>1 DEF Bad, Reached
      <4>4. pr'.failed = (mark[f] = "failed")
        BY <1>0, <4>1 DEF Flag
      <4> QED
        BY <4>2, <4>3, <4>4 DEF NameFailed
    <3> QED
      BY <1>1, <1>5, <3>1, <3>2
  <2>2. ~pr'.succeeded => Seen'
    BY <1>0, <1>5 DEF BlameInv
  <2>3. /\ \A v \in Video \cap blamed' : v \in blamed
        /\ Download \in blamed' => Download \in blamed \/ pr.failed \/ ~pr.succeeded
    <3>1. CASE blamed' = blamed
      BY <3>1
    <3>2. CASE HandleFailure
      <4>1. HandlesFailure \/ UNCHANGED blamed
        BY <3>2 DEF HandleFailure
      <4>2. CASE HandlesFailure
        <5>1. blamed' \subseteq blamed \cup {Download}
          BY <3>2, <4>2, FailedFacts DEF HandleFailure
        <5>2. pr.failed \/ ~pr.succeeded
          BY <4>2 DEF HandlesFailure
        <5> QED
          BY <1>0, <5>1, <5>2
      <4>3. CASE ~HandlesFailure
        BY <4>1, <4>3
      <4> QED
        BY <4>2, <4>3
    <3> QED
      BY <1>5, <3>1, <3>2
  <2>4. Download \in blamed' => Marked' \/ Seen'
    BY <1>0, <1>1, <1>5, <2>3 DEF BlameInv, FailedHandlingJustified
  <2>5. \A v \in Video \cap blamed' : outcome'[v] = "failed"
    BY <1>0, <1>5, <2>3 DEF FailedHandlingJustified
  <2> QED
    BY <2>1, <2>2, <2>4, <2>5 DEF JustifiedInv, BlameInv, FailedHandlingJustified
<1> QED
  BY <1>0, <1>3, <1>4, <1>5, FlagSteps

\* Failed download handling is started only for a download that the client or a
\* folder calls failed, or in which a video failed.
THEOREM Justified == Spec => []FailedHandlingJustified
<1>1. JustifiedInv => FailedHandlingJustified
  BY DEF JustifiedInv
<1>2. PlaceInv /\ JustifiedInv /\ [Next]_vars => JustifiedInv'
  BY JustifiedStep
<1>3. Init => JustifiedInv
  BY JustifiedInit
<1> QED
  BY <1>1, <1>2, <1>3, PlaceInvariant, PTL DEF Spec

-----------------------------------------------------------------------------
\* Marked folders

\* What happens to the files: an archive that is unpacked alone adds some.
LEMMA FileSteps ==
  ASSUME TypeOK, [Next]_vars
  PROVE  /\ archives' \subseteq archives
         /\ disk' \subseteq disk \/ \E f \in Folder : EnterFolder(f)
         /\ library' = library \/ \E v \in Video : ProcessVideo(v) /\ library' \subseteq library \cup {v}
<1>1. CASE WorldStep
  BY <1>1, WorldFacts DEF files
<1>2. ASSUME NEW v \in Video, ProcessVideo(v)
      PROVE  archives' \subseteq archives /\ disk' \subseteq disk /\ library' \subseteq library \cup {v}
  BY <1>2, VideoFacts
<1>3. ASSUME NEW f \in Folder, EnterFolder(f)
      PROVE  archives' \subseteq archives /\ library' = library
  BY <1>3 DEF EnterFolder
<1>4. ASSUME NEW p \in Folder, SkipPath(p) \/ EnterPath(p) \/ SkipFolder(p) \/ PostponeFolder(p)
      PROVE  UNCHANGED files
  BY <1>4 DEF SkipPath, EnterPath, SkipFolder, PostponeFolder
<1>5. CASE NextPass \/ LeaveFolder
  BY <1>5 DEF NextPass, LeaveFolder
<1>6. CASE Start \/ LeavePath \/ EndProcess \/ Finish \/ Abandon \/ UNCHANGED vars
  BY <1>6 DEF Start, LeavePath, EndProcess, Finish, Abandon, vars, files
<1>7. CASE HandleFailure
  BY <1>7, FailedFacts DEF HandleFailure
<1> QED
  BY <1>1, <1>2, <1>3, <1>4, <1>5, <1>6, <1>7, NextCases DEF files

\* Only EnterPath brings new folders into the walk.
LEMMA FolderSteps ==
  ASSUME PlaceInv, [Next]_vars
  PROVE  \/ \E p \in Folder : EnterPath(p)
         \/ Running' => Running /\ folders' \cup {here'} \subseteq folders \cup {here, None}
<1>1. ASSUME NEW v \in Video, ProcessVideo(v)
      PROVE  UNCHANGED <<stage, folders, here>>
  BY <1>1, VideoFacts DEF PlaceInv
<1>2. CASE WorldStep
  BY <1>2, WorldFacts DEF walk, PlaceInv, Running
<1>3. ASSUME NEW f \in Folder, SkipFolder(f) \/ PostponeFolder(f) \/ EnterFolder(f)
      PROVE  /\ stage = "folders"
             /\ folders' \cup {here'} \subseteq folders \cup {here}
  BY <1>3 DEF SkipFolder, PostponeFolder, EnterFolder, Turn
<1>4. CASE NextPass \/ LeaveFolder
  BY <1>4 DEF NextPass, LeaveFolder, Running
<1>5. CASE \/ Start \/ EndProcess \/ HandleFailure \/ Finish \/ Abandon \/ LeavePath
           \/ \E p \in Folder : SkipPath(p)
  BY <1>5 DEF Start, EndProcess, HandleFailure, Finish, Abandon, LeavePath, SkipPath, NextPath, Running
<1>6. CASE UNCHANGED vars
  BY <1>6 DEF vars, walk, Running
<1> QED
  BY <1>1, <1>2, <1>3, <1>4, <1>5, <1>6, NextCases DEF Running

UnmarkedInv == MarkInv /\ OnlyUnmarkedImported

LEMMA UnmarkedInit ==
  ASSUME Init
  PROVE  UnmarkedInv
BY DEF Init, UnmarkedInv, MarkInv, Running, OnlyUnmarkedImported

LEMMA UnmarkedStep ==
  ASSUME PlaceInv, UnmarkedInv, [Next]_vars
  PROVE  UnmarkedInv'
<1> USE PostProcessAssumption
<1>0. TypeOK /\ WalkInv /\ MarkInv /\ OnlyUnmarkedImported
  BY DEF PlaceInv, UnmarkedInv
<1>1. MarkInv'
  <2>1. ASSUME NEW p \in Folder, EnterPath(p)
        PROVE  MarkInv'
    <3>1. /\ p \in paths /\ stage = "paths" /\ Valid(p) /\ HasMedia(p) /\ folders' = Folders(p)
          /\ UNCHANGED here
      BY <2>1 DEF EnterPath, NextPath
    <3>2. here = None /\ p \in Paths
      BY <1>0, <3>1 DEF WalkInv
    <3>3. ASSUME NEW f \in {Root} \cup Children(Root), Folders(p) \cap Looks(f) # {}
          PROVE  mark[f] = "none"
      <4>1. CASE f = p
        BY <3>1, <4>1 DEF Valid
      <4>2. CASE f # p /\ p = Root
        <5>1. f \in Children(Root) /\ Root \notin Looks(f)
          BY <3>3, <4>2, ChildFacts DEF Looks
        <5>2. CASE Looks(Root) = Tree[Root]
          <6>1. PICK g \in Folder : Reached(Root, g) /\ \A c \in Children(g) : Valid(c)
            BY <3>1, <4>2 DEF HasMedia
          <6>2. g = Root \/ Passed(Root)
            BY <5>2, <6>1 DEF Reached
          <6> QED
            BY <5>1, <6>1, <6>2 DEF Passed, Valid
        <5>3. CASE Looks(Root) # Tree[Root]
          BY <3>3, <4>2, <5>1, <5>3 DEF Looks, Folders
        <5> QED
          BY <5>2, <5>3
      <4>3. CASE f # p /\ p # Root
        <5>1. Kind = "all" /\ p \in Children(Root) /\ Folders(p) = Tree[p]
          BY <3>2, <4>3, PathFacts DEF Folders
        <5>2. Looks(f) \cap Tree[p] = {}
          BY <3>3, <4>3, <5>1, ChildFacts DEF Looks
        <5> QED
          BY <3>3, <5>1, <5>2
      <4> QED
        BY <4>1, <4>2, <4>3
    <3>4. \A f \in {Root} \cup Children(Root) : None \notin Looks(f)
      BY ChildFacts, PathFacts
    <3>5. \A f \in {Root} \cup Children(Root) :
            (folders' \cup {here'}) \cap Looks(f) # {} => mark[f] = "none"
      BY <3>1, <3>2, <3>3, <3>4
    <3> QED
      BY <1>0, <3>5, MarkSteps, ChildFacts, SetupFacts DEF MarkInv
  <2>2. ASSUME Running' => Running /\ folders' \cup {here'} \subseteq folders \cup {here, None}
        PROVE  MarkInv'
    <3>1. \A f \in {Root} \cup Children(Root) : None \notin Looks(f) /\ Looks(f)' = Looks(f)
      BY <1>0, ChildFacts, PathFacts, SetupFacts
    <3> QED
      BY <1>0, <2>2, <3>1, MarkSteps, ChildFacts DEF MarkInv
  <2> QED
    BY <2>1, <2>2, FolderSteps
<1>2. OnlyUnmarkedImported'
  <2>1. ASSUME NEW v \in library', NEW f \in {Root} \cup Children(Root), FolderOf[v] \in Looks(f)
        PROVE  mark[f] = "none"
    <3>1. CASE v \in library
      BY <1>0, <2>1, <3>1 DEF OnlyUnmarkedImported
    <3>2. CASE v \notin library
      <4>1. v \in Video /\ ProcessVideo(v)
        BY <1>0, <2>1, <3>2, FileSteps
      <4>2. FolderOf[v] = here /\ stage = "media"
        BY <4>1, VideoPlace
      <4> QED
        BY <1>0, <2>1, <4>2 DEF MarkInv, Running
    <3> QED
      BY <3>1, <3>2
  <2>2. \A f : Looks(f)' = Looks(f)
    BY <1>0, SetupFacts
  <2> QED
    BY <1>0, <2>1, <2>2, MarkSteps, ChildFacts DEF OnlyUnmarkedImported
<1> QED
  BY <1>1, <1>2 DEF UnmarkedInv

\* Nothing is imported out of a folder that is marked.
THEOREM Unmarked == Spec => []OnlyUnmarkedImported
<1>1. UnmarkedInv => OnlyUnmarkedImported
  BY DEF UnmarkedInv
<1>2. PlaceInv /\ UnmarkedInv /\ [Next]_vars => UnmarkedInv'
  BY UnmarkedStep
<1>3. Init => UnmarkedInv
  BY UnmarkedInit
<1> QED
  BY <1>1, <1>2, <1>3, PlaceInvariant, PTL DEF Spec

-----------------------------------------------------------------------------
\* Completed downloads

\* A video that is there was there before, but for those that are unpacked.
LEMMA PresentSteps ==
  ASSUME TypeOK, [Next]_vars, NEW v \in Video, Present(v)'
  PROVE  Present(v) \/ \E f \in Folder : EnterFolder(f)
BY FileSteps DEF Present

LEMMA SeenInit ==
  ASSUME Init
  PROVE  SeenInv
BY DEF Init, Fresh, SeenInv

\* What was accounted for and is not looked at in this step still is.
LEMMA AccountedKept ==
  ASSUME PlaceInv, SeenInv, [Next]_vars, stage # "idle",
         UNCHANGED <<paths, folders, outcome>>,
         \A v \in Video : Waiting(v) => Waiting(v)',
         pr.postpone_any => pr'.postpone_any,
         \A f \in Folder : ~EnterFolder(f),
         stage \in {"paths", "end", "history"} /\ ~pr.processed_items =>
           stage' \in {"paths", "end", "history"} /\ ~pr'.processed_items,
         pr'.directory = pr.directory
  PROVE  SingleResource' /\ pr'.directory =>
           \A v \in Video : Mine(v)' /\ Present(v)' /\ outcome'[v] = "unseen" => Accounted(v)'
<1>1. /\ TypeOK /\ SingleResource' = SingleResource /\ broken' = broken /\ Unpack' = Unpack
      /\ \A p : Folders(p)' = Folders(p)
      /\ \A v : Mine(v)' = Mine(v)
  BY SetupFacts DEF PlaceInv
<1>2. ASSUME NEW v \in Video, SingleResource, pr.directory, Mine(v), Present(v)', outcome'[v] = "unseen"
      PROVE  Accounted(v)'
  <2>1. Present(v) /\ outcome[v] = "unseen"
    BY <1>1, <1>2, PresentSteps
  <2>2. Accounted(v)
    BY <1>2, <2>1 DEF SeenInv
  <2>3. Ahead(FolderOf[v]) => Ahead(FolderOf[v])'
    BY <1>1 DEF Ahead
  <2> QED
    BY <1>1, <2>2, <2>3 DEF Accounted, Unreadable
<1> QED
  BY <1>1, <1>2

LEMMA SeenStep ==
  ASSUME PlaceInv, SeenInv, [Next]_vars
  PROVE  SeenInv'
<1> DEFINE Open == SingleResource' /\ stage' # "idle" /\ pr'.directory =>
                     \A v \in Video : Mine(v)' /\ Present(v)' /\ outcome'[v] = "unseen" => Accounted(v)'
<1>0. /\ TypeOK /\ WalkInv /\ PassInv /\ pr \in Flag
      /\ SingleResource' = SingleResource /\ broken' = broken /\ Unpack' = Unpack
      /\ Kind' = Kind /\ (SingleResource => Kind # "all" /\ Paths = {Root})
      /\ (\A p : Folders(p)' = Folders(p)) /\ \A v : Mine(v)' = Mine(v)
  <2>1. SingleResource => Kind # "all"
    BY PostProcessAssumption DEF PlaceInv, TypeOK, SingleResource, Kind
  <2> QED
    BY <2>1, SetupFacts, PathFacts DEF PlaceInv, TypeOK, Flag
<1>1. CASE WorldStep \/ UNCHANGED vars
  <2>1. UNCHANGED <<stage, paths, folders, passes, outcome, pr>>
    BY <1>0, <1>1, WorldFacts DEF vars, walk, ghosts
  <2>2. \A f \in Folder : ~EnterFolder(f)
    BY <2>1 DEF EnterFolder, Turn
  <2>3. Open
    BY <2>1, <2>2, AccountedKept DEF Waiting
  <2> QED
    BY <1>0, <2>1, <2>3 DEF SeenInv
<1>2. CASE Start
  <2>1. /\ pr'.succeeded = TRUE /\ pr'.processed_items = FALSE
        /\ stage' = IF pr'.directory THEN "paths" ELSE "end"
    BY <1>2 DEF Start, Fresh
  <2>2. Open
    BY <2>1 DEF Accounted
  <2> QED
    BY <2>1, <2>2 DEF SeenInv
<1>3. ASSUME NEW p \in Folder, SkipPath(p)
      PROVE  SeenInv'
  <2>1. /\ stage = "paths" /\ p \in paths /\ paths' = paths \ {p} /\ UNCHANGED <<stage, outcome>>
    BY <1>3 DEF SkipPath, NextPath, ghosts
  <2>2. /\ pr'.succeeded = pr.succeeded /\ pr'.processed_items = pr.processed_items
        /\ pr'.directory = pr.directory
    <3>1. pr' = pr \/ \E f : pr' = [pr EXCEPT !.failed = (mark[f] = "failed")]
      BY <1>3 DEF SkipPath
    <3> QED
      BY <1>0, <3>1 DEF Flag
  <2>3. SingleResource => ~pr.processed_items
    BY <2>1 DEF SeenInv
  <2>4. Open
    BY <1>0, <2>1, <2>2, <2>3 DEF Accounted
  <2> QED
    BY <1>0, <2>1, <2>2, <2>3, <2>4 DEF SeenInv
<1>4. ASSUME NEW p \in Folder, EnterPath(p)
      PROVE  SeenInv'
  <2>1. /\ stage = "paths" /\ p \in paths /\ paths' = paths \ {p} /\ stage' = "folders"
        /\ folders' = Folders(p)
    BY <1>4 DEF EnterPath, NextPath
  <2>2. /\ pr'.succeeded = pr.succeeded /\ pr'.processed_items = pr.processed_items
        /\ pr'.directory = pr.directory
    BY <1>0, <1>4 DEF EnterPath, Flag
  <2>3. SingleResource => folders' = Folders(Root)
    BY <1>0, <2>1 DEF WalkInv
  <2>4. Open
    BY <1>0, <2>3 DEF Accounted, Ahead, Mine
  <2> QED
    BY <1>0, <2>1, <2>2, <2>4 DEF SeenInv
<1>5. ASSUME NEW f \in Folder, SkipFolder(f) \/ PostponeFolder(f)
      PROVE  SeenInv'
  <2>1. /\ stage = "folders" /\ folders' = folders \ {f}
        /\ UNCHANGED <<stage, paths, passes, outcome, files>>
    BY <1>5 DEF SkipFolder, PostponeFolder, Turn, ghosts
  <2>2. /\ pr'.succeeded = pr.succeeded /\ pr'.processed_items = pr.processed_items
        /\ pr'.directory = pr.directory
        /\ (UNCHANGED pr /\ \A v \in Listed(f) : ~Present(v)) \/ pr'.postpone_any = TRUE
    BY <1>0, <1>5 DEF SkipFolder, PostponeFolder, Flag
  <2>3. ASSUME NEW v \in Video, SingleResource, pr.directory, Mine(v), Present(v)', outcome'[v] = "unseen",
               ~pr'.postpone_any
        PROVE  Accounted(v)'
    <3>1. /\ Present(v) /\ outcome[v] = "unseen" /\ UNCHANGED pr
          /\ \A w \in Listed(f) : ~Present(w)
      BY <2>1, <2>2, <2>3 DEF Present, files
    <3>2. FolderOf[v] # f
      BY <2>3, <3>1 DEF Listed, In, Mine
    <3>3. Accounted(v)
      BY <2>1, <2>3, <3>1 DEF SeenInv
    <3> QED
      BY <1>0, <2>1, <3>1, <3>2, <3>3 DEF Accounted, Unreadable, Ahead, Waiting
  <2>4. Open
    BY <1>0, <2>2, <2>3 DEF Accounted
  <2> QED
    BY <1>0, <2>1, <2>2, <2>4 DEF SeenInv
<1>6. ASSUME NEW f \in Folder, EnterFolder(f)
      PROVE  SeenInv'
  <2>1. /\ stage = "folders" /\ folders' = folders \ {f} /\ stage' = "media"
        /\ UNCHANGED <<paths, outcome, archives>>
        /\ unpacked' = IF Archive(f) /\ f \notin broken THEN In(f) \cap Packed ELSE {}
        /\ disk' \subseteq disk \cup unpacked'
    BY <1>6 DEF EnterFolder, Turn, ghosts
  <2>2. pr'.succeeded = pr.succeeded /\ pr'.processed_items = pr.processed_items
        /\ pr'.postpone_any = pr.postpone_any /\ pr'.directory = pr.directory
    <3>1. pr' = [pr EXCEPT !.postpone_processing = FALSE,
                           !.result = @ /\ ~(Archive(f) /\ f \in broken)]
      BY <1>6 DEF EnterFolder
    <3> QED
      BY <1>0, <3>1 DEF Flag
  <2>3. /\ unpacked' \subseteq In(f) \cap Packed
        /\ \A v \in (Listed(f) \cap disk) \cup unpacked' : Waiting(v)'
    BY <1>0, <1>6, EnterFacts DEF Waiting
  <2>4. passes = <<>>
    BY <1>0, <2>1 DEF WalkInv
  <2>5. ASSUME NEW v \in Video, SingleResource, pr.directory, Mine(v), Present(v)', outcome'[v] = "unseen"
        PROVE  Accounted(v)'
    <3>1. CASE FolderOf[v] = f
      <4>1. CASE v \in disk'
        <5>1. v \in (Listed(f) \cap disk) \cup unpacked'
          BY <2>1, <2>5, <3>1, <4>1 DEF In, Listed, Mine
        <5> QED
          BY <2>3, <5>1 DEF Accounted
      <4>2. CASE v \in Packed /\ f \in archives
        <5>1. Unreadable(v) \/ v \in unpacked'
          BY <2>1, <2>5, <3>1, <4>2, PostProcessAssumption DEF In, Archive, Mine, Unreadable
        <5> QED
          BY <1>0, <2>3, <3>1, <4>2, <5>1 DEF Accounted, Unreadable
      <4> QED
        BY <2>1, <2>5, <3>1, <4>1, <4>2 DEF Present
    <3>2. CASE FolderOf[v] # f
      <4>1. Present(v) /\ outcome[v] = "unseen"
        BY <2>1, <2>3, <2>5, <3>2 DEF Present, In
      <4>2. Accounted(v)
        BY <2>1, <2>5, <4>1 DEF SeenInv
      <4>3. ~Waiting(v)
        BY <2>4, EmptySeq DEF Waiting
      <4> QED
        BY <1>0, <2>1, <2>2, <3>2, <4>2, <4>3 DEF Accounted, Unreadable, Ahead
    <3> QED
      BY <3>1, <3>2
  <2>6. Open
    BY <1>0, <2>2, <2>5
  <2> QED
    BY <1>0, <2>1, <2>2, <2>6 DEF SeenInv
<1>7. ASSUME NEW v \in Video, ProcessVideo(v)
      PROVE  SeenInv'
  <2>1. PICK o \in Outcomes \ {"unseen"} :
          /\ stage = "media" /\ outcome' = [outcome EXCEPT ![v] = o]
          /\ UNCHANGED <<stage, paths, folders>>
          /\ pr'.processed_items = pr.processed_items /\ pr'.directory = pr.directory
          /\ pr'.postpone_any = pr.postpone_any \/ pr'.postpone_any = TRUE
          /\ disk' \subseteq disk /\ archives' \subseteq archives
    BY <1>0, <1>7, VideoFacts
  <2>2. /\ DOMAIN passes' = DOMAIN passes
        /\ \A k \in DOMAIN passes : passes'[k] = IF k = 1 THEN passes[1] \ {v} ELSE passes[k]
    BY <1>7, VideoPlace
  <2>3. ASSUME NEW w \in Video, SingleResource, pr.directory, Mine(w), Present(w)', outcome'[w] = "unseen"
        PROVE  Accounted(w)'
    <3>1. w # v /\ outcome[w] = "unseen" /\ Present(w)
      BY <1>0, <2>1, <2>3 DEF TypeOK, Present
    <3>2. Accounted(w)
      BY <2>1, <2>3, <3>1 DEF SeenInv
    <3>3. Waiting(w) => Waiting(w)'
      BY <2>2, <3>1 DEF Waiting
    <3>4. Ahead(FolderOf[w]) => Ahead(FolderOf[w])'
      BY <1>0, <2>1 DEF Ahead
    <3> QED
      BY <1>0, <2>1, <3>2, <3>3, <3>4 DEF Accounted, Unreadable
  <2>4. Open
    BY <1>0, <2>1, <2>3
  <2> QED
    BY <1>0, <2>1, <2>4 DEF SeenInv
<1>8. CASE NextPass
  <2>1. /\ stage = "media" /\ UNCHANGED <<stage, paths, folders, outcome>>
        /\ Len(passes) = 2 /\ passes[1] = {} /\ passes' = Tail(passes)
    BY <1>8 DEF NextPass, ghosts
  <2>2. /\ pr'.processed_items = pr.processed_items /\ pr'.postpone_any = pr.postpone_any
        /\ pr'.directory = pr.directory
    BY <1>0, <1>8 DEF NextPass, Flag
  <2>3. DOMAIN passes = {1, 2} /\ DOMAIN passes' = {1} /\ passes'[1] = passes[2]
    BY <1>0, <2>1, TailFacts DEF TypeOK
  <2>4. \A v \in Video : Waiting(v) => Waiting(v)'
    BY <2>1, <2>3 DEF Waiting
  <2>5. \A f \in Folder : ~EnterFolder(f)
    BY <2>1 DEF EnterFolder, Turn
  <2>6. Open
    BY <2>1, <2>2, <2>4, <2>5, AccountedKept
  <2> QED
    BY <1>0, <2>1, <2>2, <2>6 DEF SeenInv
<1>9. CASE LeaveFolder
  <2>1. /\ stage = "media" /\ stage' = "folders" /\ UNCHANGED <<paths, folders, outcome>>
        /\ passes = <<{}>>
    BY <1>9 DEF LeaveFolder, ghosts
  <2>2. /\ pr'.processed_items = TRUE /\ pr'.postpone_any = pr.postpone_any
        /\ pr'.directory = pr.directory
    <3>1. pr' = [pr EXCEPT !.processed_items = TRUE]
      BY <1>9 DEF LeaveFolder
    <3> QED
      BY <1>0, <3>1 DEF Flag
  <2>3. \A v \in Video : ~Waiting(v)
    BY <2>1 DEF Waiting
  <2>4. \A f \in Folder : ~EnterFolder(f)
    BY <2>1 DEF EnterFolder, Turn
  <2>5. Open
    BY <2>1, <2>2, <2>3, <2>4, AccountedKept
  <2>6. SingleResource => paths = {}
    BY <1>0, <2>1 DEF WalkInv, Running
  <2> QED
    BY <1>0, <2>1, <2>2, <2>5, <2>6 DEF SeenInv
<1>10. CASE LeavePath
  <2>1. /\ stage = "folders" /\ stage' = "paths" /\ UNCHANGED <<paths, folders, passes, outcome, pr>>
    BY <1>10 DEF LeavePath, ghosts, walk
  <2>2. \A f \in Folder : ~EnterFolder(f)
    BY <2>1 DEF EnterFolder
  <2>3. Open
    BY <2>1, <2>2, AccountedKept DEF Waiting
  <2> QED
    BY <1>0, <2>1, <2>3 DEF SeenInv
<1>11. CASE EndProcess
  <2>1. /\ stage = "paths" /\ stage' = "end" /\ UNCHANGED <<paths, folders, passes, outcome>>
        /\ pr' = [pr EXCEPT !.result = @ /\ pr.processed_items]
    BY <1>11 DEF EndProcess, ghosts, walk
  <2>2. /\ pr'.succeeded = pr.succeeded /\ pr'.processed_items = pr.processed_items
        /\ pr'.postpone_any = pr.postpone_any /\ pr'.directory = pr.directory
        /\ ~pr.processed_items => ~pr'.result
    BY <1>0, <2>1 DEF Flag
  <2>3. \A f \in Folder : ~EnterFolder(f)
    BY <2>1 DEF EnterFolder, Turn
  <2>4. Open
    BY <2>1, <2>2, <2>3, AccountedKept DEF Waiting
  <2> QED
    BY <1>0, <2>1, <2>2, <2>4 DEF SeenInv
<1>12. CASE HandleFailure
  <2>1. /\ stage = "end" /\ stage' = "history" /\ UNCHANGED <<paths, folders, passes, outcome>>
        /\ pr' = pr \/ (HandlesFailure /\ \E result : pr' = [pr EXCEPT !.result = result])
    BY <1>12 DEF HandleFailure, walk
  <2>2. /\ pr'.succeeded = pr.succeeded /\ pr'.processed_items = pr.processed_items
        /\ pr'.postpone_any = pr.postpone_any /\ pr'.directory = pr.directory
        /\ pr'.failed = pr.failed
    BY <1>0, <2>1 DEF Flag
  <2>3. pr'.result = pr.result \/ HandlesFailure
    BY <2>1
  <2>4. HandlesFailure => pr.failed \/ ~pr.succeeded
    BY DEF HandlesFailure
  <2>5. \A f \in Folder : ~EnterFolder(f)
    BY <2>1 DEF EnterFolder, Turn
  <2>6. Open
    BY <2>1, <2>2, <2>5, AccountedKept DEF Waiting
  <2> QED
    BY <1>0, <2>1, <2>2, <2>3, <2>4, <2>6 DEF SeenInv
<1>13. CASE Finish \/ Abandon
  <2>1. stage' = "idle" /\ (stage = "media" => paths' = {}) /\ UNCHANGED pr
    BY <1>13 DEF Finish, Abandon
  <2>2. paths' = {}
    BY <1>0, <1>13 DEF WalkInv, Finish, Abandon, walk
  <2> QED
    BY <1>0, <2>1, <2>2 DEF SeenInv
<1> QED
  BY <1>1, <1>2, <1>3, <1>4, <1>5, <1>6, <1>7, <1>8, <1>9, <1>10, <1>11, <1>12, <1>13, NextCases

\* Without passes no video is waiting.
LEMMA NothingWaits ==
  ASSUME TypeOK, passes = <<>>
  PROVE  \A v \in Video : ~Waiting(v)
<1>1. Len(passes) = 0 /\ passes \in Seq(SUBSET Video)
  BY EmptySeq DEF TypeOK
<1>2. DOMAIN passes = 1..0
  BY <1>1, LenProperties
<1>3. \A k : k \notin DOMAIN passes
  BY <1>2
<1> QED
  BY <1>3 DEF Waiting

\* A run that ends as completed has looked at all it could.
LEMMA CompletedStep ==
  ASSUME PlaceInv, PostponedInv, SeenInv, CompletedSawEverything, [Next]_vars
  PROVE  CompletedSawEverything'
<1>0. /\ TypeOK /\ WalkInv /\ pr \in Flag /\ broken' = broken /\ Unpack' = Unpack
      /\ \A v : Mine(v)' = Mine(v)
  BY SetupFacts DEF PlaceInv, TypeOK, Flag
<1> SUFFICES ASSUME status' = "Postprocessed Completed", pr'.directory,
                    NEW v \in Video, Mine(v), Present(v)', outcome'[v] = "unseen"
             PROVE  Unreadable(v)
  BY <1>0 DEF CompletedSawEverything, Unreadable
<1>1. CASE Finish /\ SingleResource /\ ~pr.postpone_any
  <2>1. status' = HistoryStatus /\ UNCHANGED pr
    BY <1>1 DEF Finish
  <2>2. stage = "history" /\ UNCHANGED outcome
    BY <1>1 DEF Finish, ghosts
  <2>3. status = "Completed"
    BY <2>2 DEF PostponedInv
  <2>4. ~pr.failed /\ pr.result
    BY <2>1, <2>3 DEF HistoryStatus
  <2>5. pr.processed_items
    BY <2>1, <2>2, <2>4 DEF SeenInv
  <2>6. \A f \in Folder : ~EnterFolder(f)
    BY <2>2 DEF EnterFolder, Turn
  <2>7. Accounted(v)
    BY <1>0, <1>1, <2>1, <2>2, <2>6, PresentSteps DEF SeenInv
  <2>8. ~Ahead(FolderOf[v]) /\ ~Waiting(v)
    <3>1. folders = {} /\ paths = {}
      BY <1>0, <2>2 DEF WalkInv, Running
    <3>2. ~Waiting(v)
      BY <1>0, <2>2, NothingWaits DEF WalkInv
    <3>3. ~Ahead(FolderOf[v])
      BY <3>1 DEF Ahead
    <3> QED
      BY <3>2, <3>3
  <2> QED
    BY <1>1, <2>5, <2>7, <2>8 DEF Accounted
<1>2. CASE UNCHANGED status
  <2>1. stage = "idle" /\ SingleResource /\ status = "Postprocessed Completed"
    BY <1>2 DEF PostponedInv
  <2>2. ~Start
    BY <2>1 DEF Start
  <2>3. \A w \in Video : ~ProcessVideo(w)
    BY <1>0, <2>1, VideoFacts
  <2>4. UNCHANGED outcome /\ pr'.directory = pr.directory
    BY <1>0, <2>2, <2>3, FlagSteps
  <2>5. \A f \in Folder : ~EnterFolder(f)
    BY <2>1 DEF EnterFolder, Turn
  <2>6. Present(v) /\ outcome[v] = "unseen"
    BY <1>0, <2>4, <2>5, PresentSteps
  <2> QED
    BY <2>1, <2>4, <2>6 DEF CompletedSawEverything, Unreadable
<1> QED
  BY <1>0, <1>1, <1>2, StatusSteps

\* A download that ends as completed has no video left that the last run did not
\* look at and could have.
THEOREM SawEverything == Spec => []CompletedSawEverything
<1>1. Init => PostponedInv /\ SeenInv /\ CompletedSawEverything
  BY PostponedInit, SeenInit DEF Init, CompletedSawEverything
<1>2. PlaceInv /\ PostponedInv /\ SeenInv /\ CompletedSawEverything /\ [Next]_vars =>
        PostponedInv' /\ SeenInv' /\ CompletedSawEverything'
  BY PostponedStep, SeenStep, CompletedStep
<1> QED
  BY <1>1, <1>2, PlaceInvariant, PTL DEF Spec

-----------------------------------------------------------------------------
\* What is deleted

\* A video that was unpacked is packed still, or gone with its archive.
ArchiveInv ==
  \A v \in unpacked : v \in Packed /\ (here \in archives \/ v \notin disk)

\* What failed download handling takes away, if anything: whole folders.
LEMMA FailedDeletes ==
  ASSUME NEW what, NEW f, NEW ok, ProcessFailed(what, f, ok)
  PROVE  \/ UNCHANGED <<disk, archives>>
         \/ /\ DeleteFailed /\ blamed' # {}
            /\ disk' = {v \in disk : FolderOf[v] \notin Tree[f]}
            /\ archives' = archives \ Tree[f]
<1> DEFINE deletes == ok /\ DeleteFailed /\ pr.directory /\ ~(f = Root /\ Protected)
<1>1. CASE UseFailedDownloads /\ deletes
  BY <1>1 DEF ProcessFailed
<1>2. CASE UseFailedDownloads /\ ~deletes
  BY <1>2 DEF ProcessFailed
<1>3. CASE ~UseFailedDownloads
  BY <1>3 DEF ProcessFailed
<1> QED
  BY <1>1, <1>2, <1>3

\* The steps on a video: an import that moves it, and a failure.
LEMMA VideoDeletes ==
  ASSUME TypeOK, NEW v \in Video, ProcessVideo(v)
  PROVE  /\ UNCHANGED <<here, unpacked, setup>>
         /\ \/ UNCHANGED <<disk, archives>>
            \/ disk' = disk \ {v} /\ v \in library' /\ UNCHANGED archives
            \/ /\ DeleteFailed /\ blamed' # {}
               /\ disk' = {w \in disk : FolderOf[w] \notin Tree[here]}
               /\ archives' = archives \ Tree[here]
<1>1. CASE SkipProcessed(v) \/ PostponeVideo(v) \/ Leave(v)
  BY <1>1 DEF SkipProcessed, PostponeVideo, Leave, Take, world
<1>2. CASE Import(v)
  <2>1. UNCHANGED <<here, unpacked, setup, archives>> /\ v \in library'
    BY <1>2 DEF Import, Take, world
  <2>2. disk' = disk \ {v} \/ disk' = disk
    BY <1>2 DEF Import
  <2> QED
    BY <2>1, <2>2
<1>3. CASE Fail(v)
  <2>1. UNCHANGED <<here, unpacked, setup>>
    BY <1>3 DEF Fail, world
  <2>2. PICK ok \in BOOLEAN : IF SingleResource THEN UNCHANGED <<blamed, disk, archives>>
                                                ELSE ProcessFailed(v, here, ok)
    BY <1>3 DEF Fail
  <2> QED
    BY <2>1, <2>2, FailedDeletes
<1> QED
  BY <1>1, <1>2, <1>3 DEF ProcessVideo

LEMMA ArchiveStep ==
  ASSUME PlaceInv, ArchiveInv, [Next]_vars
  PROVE  ArchiveInv'
<1>0. TypeOK /\ WalkInv /\ PassInv
  BY DEF PlaceInv
<1>1. ASSUME NEW v \in Video, ProcessVideo(v)
      PROVE  ArchiveInv'
  <2>1. UNCHANGED <<here, unpacked>> /\ disk' \subseteq disk
    BY <1>0, <1>1, VideoDeletes
  <2>2. CASE UNCHANGED archives
    BY <2>1, <2>2 DEF ArchiveInv
  <2>3. CASE /\ disk' = {w \in disk : FolderOf[w] \notin Tree[here]}
             /\ archives' = archives \ Tree[here]
    <3>1. ASSUME NEW w \in unpacked
          PROVE  here \in Tree[here] /\ FolderOf[w] = here
      BY <1>0, PostProcessAssumption, VideoPlace, <1>1 DEF PassInv, In, PlaceInv
    <3> QED
      BY <2>1, <2>3, <3>1 DEF ArchiveInv
  <2> QED
    BY <1>0, <1>1, <2>2, <2>3, VideoDeletes
<1>2. ASSUME NEW f \in Folder, EnterFolder(f)
      PROVE  ArchiveInv'
  <2>1. /\ here' = f /\ unpacked' = IF Archive(f) /\ f \notin broken THEN In(f) \cap Packed ELSE {}
        /\ UNCHANGED archives
    BY <1>2 DEF EnterFolder
  <2> QED
    BY <2>1 DEF ArchiveInv, Archive
<1>3. CASE NextPass
  <2>1. UNCHANGED <<here, unpacked, archives>> /\ disk' \subseteq disk
    BY <1>3 DEF NextPass
  <2> QED
    BY <2>1 DEF ArchiveInv
<1>4. CASE LeaveFolder
  BY <1>4 DEF LeaveFolder, ArchiveInv
<1>5. CASE WorldStep \/ UNCHANGED vars
  <2>1. UNCHANGED <<here, unpacked, archives, disk>>
    BY <1>0, <1>5, WorldFacts DEF vars, walk, files
  <2> QED
    BY <2>1 DEF ArchiveInv
<1>6. ASSUME stage # "media", UNCHANGED unpacked
      PROVE  ArchiveInv'
  BY <1>0, <1>6 DEF ArchiveInv, WalkInv
<1>7. ASSUME NEW p \in Folder, SkipPath(p) \/ EnterPath(p) \/ SkipFolder(p) \/ PostponeFolder(p)
      PROVE  ArchiveInv'
  BY <1>6, <1>7 DEF SkipPath, EnterPath, NextPath, SkipFolder, PostponeFolder, Turn
<1>8. CASE Start \/ LeavePath \/ EndProcess \/ HandleFailure \/ Finish
  BY <1>6, <1>8 DEF Start, LeavePath, EndProcess, HandleFailure, Finish, walk
<1>9. CASE Abandon
  BY <1>9 DEF Abandon, ArchiveInv
<1> QED
  BY <1>1, <1>2, <1>3, <1>4, <1>5, <1>7, <1>8, <1>9, NextCases

\* The step that the property is about.
Deletion == \A v \in Video : Method # "move" /\ Lost(v) => DeleteFailed /\ blamed' # {}

LEMMA DeletionStep ==
  ASSUME PlaceInv, ArchiveInv, [Next]_vars
  PROVE  Deletion
<1>0. TypeOK /\ WalkInv /\ PassInv
  BY DEF PlaceInv
<1> SUFFICES ASSUME NEW v \in Video, Method # "move", Present(v), ~Present(v)', v \notin library'
             PROVE  DeleteFailed /\ blamed' # {}
  BY DEF Deletion, Lost
<1>1. ASSUME NEW w \in Video, ProcessVideo(w)
      PROVE  DeleteFailed /\ blamed' # {}
  <2>1. ~(UNCHANGED <<disk, archives>>)
    BY DEF Present
  <2>2. ~(disk' = disk \ {w} /\ w \in library' /\ UNCHANGED archives)
    BY DEF Present
  <2> QED
    BY <1>0, <1>1, <2>1, <2>2, VideoDeletes
<1>2. ~(disk \subseteq disk' /\ UNCHANGED archives)
  BY DEF Present
<1>3. ~(NextPass \/ LeaveFolder)
  <2> SUFFICES ASSUME NextPass \/ LeaveFolder PROVE FALSE
    OBVIOUS
  <2>1. disk \ unpacked \subseteq disk' /\ UNCHANGED archives
    <3>1. CASE NextPass
      BY <3>1 DEF NextPass
    <3>2. CASE LeaveFolder
      BY <3>2 DEF LeaveFolder
    <3> QED
      BY <3>1, <3>2
  <2>2. v \in unpacked /\ v \in disk
    BY <2>1 DEF Present
  <2>3. v \in Packed /\ FolderOf[v] \in archives
    BY <1>0, <2>2 DEF ArchiveInv, PassInv, In
  <2> QED
    BY <2>1, <2>3 DEF Present
<1>4. CASE HandleFailure
  <2>1. (\E ok \in BOOLEAN : ProcessFailed(Download, Root, ok)) \/ UNCHANGED <<disk, archives>>
    BY <1>4 DEF HandleFailure
  <2> QED
    BY <1>2, <2>1, FailedDeletes
<1>5. ASSUME NEW p \in Folder, SkipPath(p) \/ EnterPath(p) \/ SkipFolder(p) \/ PostponeFolder(p)
      PROVE  FALSE
  BY <1>2, <1>5 DEF SkipPath, EnterPath, SkipFolder, PostponeFolder, files
<1>6. ASSUME NEW f \in Folder, EnterFolder(f)
      PROVE  FALSE
  <2>1. disk \subseteq disk' /\ UNCHANGED archives
    BY <1>6 DEF EnterFolder
  <2> QED
    BY <1>2, <2>1
<1>7. ~(WorldStep \/ Start \/ LeavePath \/ EndProcess \/ Finish \/ Abandon \/ UNCHANGED vars)
  BY <1>0, <1>2, WorldFacts DEF Start, LeavePath, EndProcess, Finish, Abandon, vars, files
<1> QED
  BY <1>1, <1>3, <1>4, <1>5, <1>6, <1>7, NextCases

\* NeededFileIsNotDeleted holds: the clean-up of a job that does not move takes
\* nothing that cannot be unpacked again.
THEOREM NeededStays == Spec => NeededFileIsNotDeleted
<1>1. Init => ArchiveInv
  BY DEF Init, ArchiveInv
<1>2. Spec => []ArchiveInv
  BY <1>1, PlaceInvariant, ArchiveStep, PTL DEF Spec
<1>3. NeededFileIsNotDeleted <=> [][Deletion]_vars
  BY DEF NeededFileIsNotDeleted, Deletion
<1> QED
  BY <1>2, <1>3, PlaceInvariant, DeletionStep, PTL DEF Spec
=============================================================================
