--------------------------- MODULE DownloadHandler ---------------------------
(***************************************************************************)
(* medusa/schedulers/download_handler.py: a thread that polls the torrent  *)
(* client and the nzb client about the snatched downloads, keeps their     *)
(* status in the history table, queues the post-processing of finished     *)
(* ones, acts on seeded torrents and marks what the clients forgot.        *)
(*                                                                         *)
(* Each phase of a run selects its rows once and then polls the client     *)
(* about one row after the other.  Meanwhile the worker of the             *)
(* post-processing queue writes the same column, so a row in hand may be   *)
(* stale when the handler writes it back.  Every write is to all rows of   *)
(* the download: a release that is snatched again has a new one.           *)
(*                                                                         *)
(* The queue is the part of GenericQueue that the handler sees: add_item   *)
(* looks for a job of the same path and resource without the lock, while   *)
(* run() sorts, pops and starts, and appends with it.  The job is          *)
(* PostProcess, of which this module keeps that it ends by writing a final *)
(* status or by leaving the history alone (DownloadJob).                   *)
(* A status is the set of the flags of the code's bit set; {} is Snatched. *)
(***************************************************************************)
EXTENDS Naturals, Sequences, Functions

CONSTANTS
  Download,     \* the info_hashes of the history rows
  ClientOf,     \* download -> "torrent" or "nzb"
  Reports,      \* download -> the statuses that its client can report
  Place,        \* the pairs of a destination and a resource
  PlacesOf,     \* download -> those that its client can report
  NotListed,    \* the answer of a client that does not have the download
  None,
  SeedActions,  \* what TORRENT_SEED_ACTION may be
  MaxJobs,      \* bound on the jobs that wait when one too many is added
  MaxSnatches,  \* bound on the releases that are snatched again
  MaxRestarts   \* bound on the restarts of the program

Flags == {"Paused", "Downloading", "Downloaded", "Seeded", "Failed", "Aborted",
          "Extracting", "Completed", "Postprocessed", "SeededAction", "Removed"}

\* No seed action, or one that the client does not implement: it raises.
Actions == {"none", "pause", "remove", "unsupported"}

ASSUME DownloadHandlerAssumption ==
  /\ ClientOf \in [Download -> {"torrent", "nzb"}]
  /\ Reports \in [Download -> SUBSET SUBSET
                    (Flags \ {"Postprocessed", "SeededAction", "Removed"})]
  /\ \A d \in Download : NotListed \notin Reports[d]
  /\ PlacesOf \in [Download -> SUBSET Place]
  /\ None \notin Download
  /\ None \notin [download : Download, place : Place, failed : BOOLEAN]
  /\ SeedActions \subseteq Actions
  /\ {MaxJobs, MaxSnatches, MaxRestarts} \subseteq Nat

VARIABLES
  seedAction, \* TORRENT_SEED_ACTION
  hist,       \* download -> history.client_status of its rows
  report,     \* download -> what its client would answer now
  at,         \* the phase of run() in Plan, 0 when it is not running
  rows,       \* the rows this phase has still to look at: download, status
  polled,     \* the row in hand with the answer of the client
  acting,     \* the torrent the seed action was performed on, not saved yet
  adding,     \* the job that add_item has checked and not appended yet
  queue,      \* PostProcessQueue.queue: download, place, failed
  sorting,    \* whether run() holds the lock and sorts the queue
  popped,     \* the job that run() has popped and not started yet
  current,    \* PostProcessQueue.current_item
  alive,      \* whether its thread is alive
  ended,      \* the downloads that their client reported as finished or failed (history variable)
  imported,   \* the downloads that a job completed (history variable)
  missed,     \* the places of the jobs that a check did not see (history variable)
  snatches,   \* the releases snatched again so far
  restarts    \* the restarts so far

clients == <<seedAction, report>>
handler == <<at, rows, polled, acting>>
worker == <<adding, queue, sorting, popped, current, alive>>
ghosts == <<ended, imported, missed>>
bounds == <<snatches, restarts>>
vars == <<hist, clients, handler, worker, ghosts, bounds>>

Job == [download : Download, place : Place, failed : BOOLEAN]
Row == [download : Download, status : SUBSET Flags]

PPCompleted == {"Postprocessed", "Completed"}
PPFailed == {"Postprocessed", "Failed"}

\* A final status says how the job ended: completed or failed, never both.
TypeOK ==
  /\ seedAction \in SeedActions
  /\ hist \in [Download -> SUBSET SUBSET Flags]
  /\ \A d \in Download : \A s \in hist[d] :
       "Postprocessed" \in s => s \ {"Removed"} \in {PPCompleted, PPFailed}
  /\ report \in [Download -> (SUBSET Flags) \cup {NotListed}]
  /\ \A d \in Download : report[d] \in Reports[d] \cup {NotListed}
  /\ at \in 0..7
  /\ rows \subseteq Row
  /\ polled = None \/ polled.row \in Row
  /\ acting \in Download \cup {None}
  /\ adding \in Job \cup {None}
  /\ queue \in Seq(Job)
  /\ sorting \in BOOLEAN
  /\ popped \in Job \cup {None}
  /\ current \in Job \cup {None}
  /\ alive \in BOOLEAN
  /\ ended \subseteq Download
  /\ imported \subseteq Download
  /\ missed \subseteq Place
  /\ snatches \in 0..MaxSnatches
  /\ restarts \in 0..MaxRestarts

Init ==
  /\ seedAction \in SeedActions
  /\ hist = [d \in Download |-> {{}}]
  /\ report = [d \in Download |-> NotListed]
  /\ at = 0 /\ rows = {} /\ polled = None /\ acting = None
  /\ adding = None /\ queue = <<>> /\ sorting = FALSE /\ popped = None
  /\ current = None /\ alive = FALSE
  /\ ended = {} /\ imported = {} /\ missed = {}
  /\ snatches = 0 /\ restarts = 0

-----------------------------------------------------------------------------
\* The clients

\* _check_postprocess: include_status
Finished ==
  {{"Completed"}, {"Failed"}, {"Seeded"}, {"Completed", "Seeded"},
   {"Completed", "Paused"}, {"Completed", "Seeded", "Paused"}}

\* A client lists a snatched download after a while and then reports its state.
Reported(d) ==
  /\ \E r \in Reports[d] \ {report[d]} :
       /\ report' = [report EXCEPT ![d] = r]
       /\ ended' = IF r \in Finished THEN ended \cup {d} ELSE ended
  /\ UNCHANGED <<seedAction, hist, handler, worker, imported, missed, bounds>>

\* Somebody removes it from the client.
Forgotten(d) ==
  /\ report[d] # NotListed
  /\ report' = [report EXCEPT ![d] = NotListed]
  /\ UNCHANGED <<seedAction, hist, handler, worker, ghosts, bounds>>

\* The release is snatched again: log_snatch inserts a new row with its info_hash.
Snatched(d) ==
  /\ snatches < MaxSnatches
  /\ snatches' = snatches + 1
  /\ hist' = [hist EXCEPT ![d] = @ \cup {{}}]
  /\ UNCHANGED <<clients, handler, worker, ghosts, restarts>>

-----------------------------------------------------------------------------
\* run(): the phases and the rows they select

Plan == << <<"torrent", "update">>, <<"torrent", "check">>, <<"torrent", "ratio">>,
           <<"torrent", "clean">>, <<"nzb", "update">>, <<"nzb", "check">>,
           <<"nzb", "clean">> >>

\* _update_status: excluded
Settled == {PPCompleted, PPFailed, {"Postprocessed", "Seeded"}, {"Aborted"}, {"SeededAction"}}

\* Defect: _check_postprocess also takes a paused download.
WantedAlsoPaused(phase, status) ==
  CASE phase = "update" -> status \notin Settled
    [] phase = "check" -> status \in Finished \cup {{"Paused"}}
    [] phase = "ratio" -> seedAction # "none" /\ status = PPCompleted
    [] phase = "clean" -> TRUE

\* Defect: the seed action does not wait for the post-processing.
WantedAlsoCompleted(phase, status) ==
  CASE phase = "update" -> status \notin Settled
    [] phase = "check" -> status \in Finished
    [] phase = "ratio" -> seedAction # "none" /\ "Completed" \in status
    [] phase = "clean" -> TRUE

\* Defect: _clean leaves the settled rows out.
WantedNotSettled(phase, status) ==
  CASE phase = "update" -> status \notin Settled
    [] phase = "check" -> status \in Finished
    [] phase = "ratio" -> seedAction # "none" /\ status = PPCompleted
    [] phase = "clean" -> status \notin Settled

\* Defect: _check_postprocess looks for Completed alone.
WantedCompleted(phase, status) ==
  CASE phase = "update" -> status \notin Settled
    [] phase = "check" -> status = {"Completed"}
    [] phase = "ratio" -> seedAction # "none" /\ status = PPCompleted
    [] phase = "clean" -> TRUE

\* The conditions on client_status in the queries of the phases.
Wanted(phase, status) ==
  CASE phase = "update" -> status \notin Settled
    [] phase = "check" -> status \in Finished
    [] phase = "ratio" -> seedAction # "none" /\ status = PPCompleted
    [] phase = "clean" -> TRUE

RowsOf(k) ==
  {[download |-> d, status |-> s] :
     d \in {e \in Download : ClientOf[e] = Plan[k][1]}, s \in UNION Range(hist)}

\* Defect: removed rows are selected too.
SelectAll(k) ==
  {r \in RowsOf(k) : r.status \in hist[r.download] /\ Wanted(Plan[k][2], r.status)}

\* _get_history_results_from_db: client_status < 1024 leaves out the removed.
Select(k) ==
  {r \in RowsOf(k) : /\ r.status \in hist[r.download]
                     /\ "Removed" \notin r.status
                     /\ Wanted(Plan[k][2], r.status)}

GoTo(k) ==
  /\ at' = k
  /\ rows' = IF k = 0 THEN {} ELSE Select(k)
  /\ polled' = None
  /\ acting' = None
  /\ adding' = None
  /\ UNCHANGED <<hist, clients, queue, sorting, popped, current, alive, ghosts, bounds>>

Begin ==
  /\ at = 0
  /\ GoTo(1)

NextPhase ==
  /\ at # 0
  /\ rows = {} /\ polled = None /\ acting = None /\ adding = None
  /\ GoTo((at + 1) % 8)

\* The except clauses of run().
LeaveClient == GoTo(IF Plan[at][1] = "torrent" THEN 5 ELSE 0)

\* Any exception leaves all phases of this client: RequestException, and the
\* catch-all, whatever the call that raises it.
Abort ==
  /\ at # 0
  /\ LeaveClient

\* client.get_status, with the ratio it says and the place.
Poll(r) ==
  /\ r \in rows
  /\ polled = None /\ acting = None /\ adding = None
  /\ rows' = rows \ {r}
  /\ \E place \in PlacesOf[r.download], ratio \in BOOLEAN :
       polled' = [row |-> r, answer |-> report[r.download],
                  place |-> IF Plan[at][2] = "check" THEN place ELSE None,
                  reached |-> ratio /\ Plan[at][2] = "ratio"]
  /\ UNCHANGED <<hist, clients, at, acting, worker, ghosts, bounds>>

\* DownloadClientConnectionException: go on with the next row.
PollFails(r) ==
  /\ r \in rows
  /\ polled = None /\ acting = None /\ adding = None
  /\ rows' = rows \ {r}
  /\ UNCHANGED <<hist, clients, at, polled, acting, worker, ghosts, bounds>>

-----------------------------------------------------------------------------
\* What each phase does with the row in hand

InPhase(p) == at # 0 /\ polled # None /\ Plan[at][2] = p
row == polled.row
answer == polled.answer

\* save_status_to_history updates all rows of the info_hash and resource.
Save(d, s) == hist' = [hist EXCEPT ![d] = {s}]

UpdateStatus ==
  /\ InPhase("update")
  /\ IF answer # NotListed /\ answer # row.status
       THEN Save(row.download, answer) ELSE UNCHANGED hist
  /\ polled' = None
  /\ UNCHANGED <<clients, at, rows, acting, worker, ghosts, bounds>>

\* Defect: only the queue is looked at.
AddableIfNotQueued(p) == \A k \in DOMAIN queue : queue[k].place # p

\* PostProcessQueue.add_item: is_in_queue and is_running compare path and resource.
\* The list is empty while it is sorted, if there is something to sort, and
\* current_item may be a finished job that run() has not cleared yet.
Addable(p) ==
  /\ (\A k \in DOMAIN queue : queue[k].place # p) \/ (sorting /\ Len(queue) > 1)
  /\ current # None => current.place # p

\* A job of this place waits, or is about to start.
Unseen(p) == (\E k \in DOMAIN queue : queue[k].place = p) \/ (popped # None /\ popped.place = p)

\* The check of add_item, without the lock.
CheckPostprocess ==
  /\ InPhase("check")
  /\ IF answer # NotListed /\ Addable(polled.place) /\ (Unseen(polled.place) => Len(queue) < MaxJobs)
       THEN /\ adding' = [download |-> row.download, place |-> polled.place,
                          failed |-> answer = {"Failed"}]
            /\ missed' = IF Unseen(polled.place) THEN missed \cup {polled.place} ELSE missed
       ELSE UNCHANGED <<adding, missed>>
  /\ polled' = None
  /\ UNCHANGED <<hist, clients, at, rows, acting, queue, sorting, popped, current, alive,
                 ended, imported, bounds>>

\* GenericQueue.add_item, with the lock.
AddItem ==
  /\ adding # None
  /\ ~sorting /\ popped = None
  /\ queue' = Append(queue, adding)
  /\ adding' = None
  /\ UNCHANGED <<hist, clients, handler, sorting, popped, current, alive, ghosts, bounds>>

\* The client's answer to remove_torrent or pause_torrent is not looked at.
SeedActionStarts ==
  /\ InPhase("ratio")
  /\ LET d == row.download IN
       IF answer # NotListed /\ polled.reached
         THEN /\ seedAction # "unsupported"
              /\ acting' = d
              /\ report' \in {report, [report EXCEPT ![d] = IF seedAction = "remove" THEN NotListed
                                                            ELSE @]}
         ELSE UNCHANGED <<acting, report>>
  /\ polled' = None
  /\ UNCHANGED <<seedAction, hist, at, rows, worker, ghosts, bounds>>

\* NotImplementedError, for remove_torrent_data of most clients.
SeedActionRaises ==
  /\ InPhase("ratio")
  /\ answer # NotListed /\ polled.reached /\ seedAction = "unsupported"
  /\ LeaveClient

SeedActionSaved ==
  /\ acting # None
  /\ Save(acting, {"SeededAction"})
  /\ acting' = None
  /\ UNCHANGED <<clients, at, rows, polled, worker, ghosts, bounds>>

Clean ==
  /\ InPhase("clean")
  /\ IF answer = NotListed
       THEN Save(row.download, row.status \cup {"Removed"}) ELSE UNCHANGED hist
  /\ polled' = None
  /\ UNCHANGED <<clients, at, rows, acting, worker, ghosts, bounds>>

-----------------------------------------------------------------------------
\* The post-processing queue

\* GenericQueue.run takes the lock and clears a finished job.
RunBegin ==
  /\ ~alive /\ ~sorting /\ popped = None
  /\ current # None \/ queue # <<>>
  /\ current' = None
  /\ sorting' = (queue # <<>>)
  /\ UNCHANGED <<hist, clients, handler, adding, queue, popped, alive, ghosts, bounds>>

\* The jobs have one priority: the oldest is first.
RunPop ==
  /\ sorting
  /\ popped' = Head(queue)
  /\ queue' = Tail(queue)
  /\ sorting' = FALSE
  /\ UNCHANGED <<hist, clients, handler, adding, current, alive, ghosts, bounds>>

RunLaunch ==
  /\ popped # None
  /\ current' = popped
  /\ popped' = None
  /\ alive' = TRUE
  /\ UNCHANGED <<hist, clients, handler, adding, queue, sorting, ghosts, bounds>>

QueueRun == RunBegin \/ RunPop \/ RunLaunch

\* Defect: the new flags are added to those of the row.
OutcomeAdded(d, s) == UNION hist[d] \cup s

\* update_history_processed starts from an empty ClientStatus.
Outcome(d, s) == s

\* update_resource writes all rows of the info_hash, whatever they hold.
JobWrites(s) ==
  /\ alive
  /\ current.failed => s = PPFailed
  /\ LET d == current.download
     IN  /\ Save(d, Outcome(d, s))
         /\ imported' = IF s = PPCompleted THEN imported \cup {d} ELSE imported
  /\ alive' = FALSE
  /\ UNCHANGED <<clients, handler, adding, queue, sorting, popped, current, ended, missed, bounds>>

\* The job postponed something, or an exception ended it.
JobLeavesStatus ==
  /\ alive
  /\ alive' = FALSE
  /\ UNCHANGED <<hist, clients, handler, adding, queue, sorting, popped, current, ghosts, bounds>>

-----------------------------------------------------------------------------
\* The program stops, or crashes, and starts again with the history it saved.
Restart ==
  /\ restarts < MaxRestarts
  /\ restarts' = restarts + 1
  /\ at' = 0 /\ rows' = {} /\ polled' = None /\ acting' = None
  /\ adding' = None /\ queue' = <<>> /\ sorting' = FALSE /\ popped' = None
  /\ current' = None /\ alive' = FALSE
  /\ UNCHANGED <<hist, clients, ghosts, snatches>>

Handler ==
  \/ Begin
  \/ NextPhase
  \/ Abort
  \/ \E r \in rows : Poll(r)
  \/ \E r \in rows : PollFails(r)
  \/ UpdateStatus
  \/ CheckPostprocess
  \/ AddItem
  \/ SeedActionStarts
  \/ SeedActionRaises
  \/ SeedActionSaved
  \/ Clean

Finishes == \E s \in {PPCompleted, PPFailed} : JobWrites(s)

Clients ==
  \/ \E d \in Download : Reported(d)
  \/ \E d \in Download : Forgotten(d)
  \/ \E d \in Download : Snatched(d)

Next == Handler \/ QueueRun \/ Finishes \/ JobLeavesStatus \/ Clients \/ Restart

Spec == Init /\ [][Next]_vars

(***************************************************************************)
(* The scheduler runs the handler and the queue again and again, a run     *)
(* goes on, and a job ends; it is not postponed for ever.                  *)
(***************************************************************************)
Fairness ==
  /\ WF_vars(Handler)
  /\ WF_vars(QueueRun)
  /\ WF_vars(Finishes \/ JobLeavesStatus)
  /\ \A d \in Download : SF_vars(Finishes /\ current.download = d)

FairSpec == Spec /\ Fairness

-----------------------------------------------------------------------------
\* Properties

\* The torrent of a download is removed or paused only after a job completed it,
\* whatever stale rows the handler held in between.
SeedActionOnlyAfterImport ==
  [][acting' \notin {acting, None} => acting' \in imported]_vars

\* A job is queued only for a download that its client once reported as finished
\* or failed: the flags that the handler and the worker write into one column
\* never add up to a status that looks finished.
JobsAreFinished ==
  \A d \in Download :
    (\E k \in DOMAIN queue : queue[k].download = d) => d \in ended

\* However often the handler finds the row of a finished download again, and although
\* its check and its append are two steps beside those of the worker, at most one job
\* of a place waits, starts or runs, unless a check fell into the moments of a run()
\* in which the queue does not show a job that it holds.
NoDuplicateJobs ==
  \A p \in Place \ missed :
    /\ \A j, k \in DOMAIN queue : queue[j].place = p /\ queue[k].place = p => j = k
    /\ (\E k \in DOMAIN queue : queue[k].place = p)
         => /\ popped # None => popped.place # p
            /\ alive => current.place # p
    /\ adding # None /\ adding.place = p
         => /\ \A k \in DOMAIN queue : queue[k].place # p
            /\ popped # None => popped.place # p
            /\ alive => current.place # p

\* All rows of the download are marked as removed.
Gone(d) == \A s \in hist[d] : "Removed" \in s

\* "Adding status Removed, to prevent from future processing": once the rows of a
\* download are removed the handler leaves them so, whatever rows it still holds; only
\* a job that was already queued writes them, and a snatch adds one.
RemovedIsFinal ==
  [][\A d \in Download :
       Gone(d) /\ ~Gone(d)'
         => (alive /\ current.download = d) \/ hist'[d] = hist[d] \cup {{}}]_vars

\* What a client that is done says, in whatever combination of flags.
Done(r) == r # NotListed /\ ("Completed" \in r \/ "Failed" \in r \/ r = {"Seeded"})

\* The client of a download does not answer, or an exception leaves one of these phases of
\* it; one that strikes after the last row of the last phase leaves nothing undone.
Fails(d, phases) ==
  \/ \E r \in rows : r.download = d /\ PollFails(r)
  \/ /\ (Abort \/ SeedActionRaises) /\ ~NextPhase
     /\ Plan[at][1] = ClientOf[d] /\ Plan[at][2] \in phases

\* A download that its client goes on calling done is post-processed, or was given up
\* before, through restarts, postponed jobs and failures, unless these keep the handler
\* from looking at it for ever.
FinishedIsSettled ==
  \A d \in Download :
    <>[]Done(report[d]) /\ <>[][~Fails(d, {"update", "check"})]_vars
      => <>(\A s \in hist[d] :
              s \cap {"Postprocessed", "SeededAction", "Removed", "Aborted"} # {})

\* A download that its client does not list any more is not polled for ever, unless
\* failures keep the handler from the last phase.
GoneIsRemoved ==
  \A d \in Download :
    <>[](report[d] = NotListed) /\ <>[][~Fails(d, {"update", "check", "ratio", "clean"})]_vars
      => <>Gone(d)

\* "Reserved for the Medusa postprocessing (not that of the client!)"
\* (download_handler.py:73): a report of the client never wipes the flag out.
PostprocessedIsReserved ==
  [][\A d \in Download : \A s \in hist[d] :
       "Postprocessed" \in s /\ s \notin hist'[d]
         => \A u \in hist'[d] : u \cap {"Postprocessed", "SeededAction", "Removed"} # {}]_vars
=============================================================================
