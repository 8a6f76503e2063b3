----------------------------- MODULE DownloadJob -----------------------------
(***************************************************************************)
(* What the download handler (medusa/schedulers/download_handler.py)       *)
(* relies on when it queues a post-processing job for a download: a run    *)
(* that comes to its end leaves the history alone exactly when it          *)
(* postponed something, and then the job is queued again; otherwise it     *)
(* records how the download ended, once and for all, and as failed if the  *)
(* client called it failed.  A run may also be abandoned (an exception, or *)
(* no path to process), and the job is queued again as well.  A job that   *)
(* nobody queued for a download (a scheduled run) records nothing.         *)
(*                                                                         *)
(* PostProcess implements it (PostProcessProofs has the proof).  The steps *)
(* JobWrites and JobLeavesStatus of DownloadHandler are Settle and Leave.  *)
(***************************************************************************)

VARIABLES
  queued,     \* whether the job was queued by the download handler
  failed,     \* whether the client called the download failed
  status,     \* client_status of the download in the history
  running,    \* whether the job runs
  postponed,  \* whether this run, or the last one, postponed something
  abandoned   \* whether the last run did not come to its end

vars == <<queued, failed, status, running, postponed, abandoned>>

Init ==
  /\ queued \in BOOLEAN
  /\ failed \in (IF queued THEN BOOLEAN ELSE {FALSE})
  /\ status = "Completed"
  /\ running = FALSE
  /\ postponed = FALSE
  /\ abandoned = FALSE

\* A download that has its final status is not taken up again.
Begin ==
  /\ ~running
  /\ queued => status = "Completed"
  /\ running' = TRUE
  /\ postponed' = FALSE
  /\ abandoned' = FALSE
  /\ UNCHANGED <<queued, failed, status>>

Postpone ==
  /\ running
  /\ postponed' = TRUE
  /\ UNCHANGED <<queued, failed, status, running, abandoned>>

Leave ==
  /\ running
  /\ postponed \/ ~queued
  /\ running' = FALSE
  /\ UNCHANGED <<queued, failed, status, postponed, abandoned>>

Settle ==
  /\ running
  /\ queued /\ ~postponed
  /\ status' \in {"Postprocessed Completed", "Postprocessed Failed"}
  /\ failed => status' = "Postprocessed Failed"
  /\ running' = FALSE
  /\ UNCHANGED <<queued, failed, postponed, abandoned>>

Abandon ==
  /\ running
  /\ running' = FALSE
  /\ abandoned' = TRUE
  /\ UNCHANGED <<queued, failed, status, postponed>>

Next == Begin \/ Postpone \/ Leave \/ Settle \/ Abandon

Spec == Init /\ [][Next]_vars
=============================================================================
