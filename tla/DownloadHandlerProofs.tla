------------------------ MODULE DownloadHandlerProofs ------------------------
(***************************************************************************)
(* Proofs about DownloadHandler, for any downloads, any reports of their   *)
(* clients, any seed action, any places, and any number of snatches and of *)
(* restarts.                                                               *)
(*                                                                         *)
(* The rows the handler holds were selected before the worker, the clients *)
(* and the handler itself changed what they were read from.  The           *)
(* invariants say what stays true of a row in hand for all that: a         *)
(* condition it was selected by that nobody takes back (ended, imported),  *)
(* or that only the last phase takes back (Removed).                       *)
(***************************************************************************)
EXTENDS DownloadHandler, SequenceTheorems, TLAPS

StatusOK(s) == "Postprocessed" \in s => s \ {"Removed"} \in {PPCompleted, PPFailed}
HistOK(h) == h \in SUBSET SUBSET Flags /\ \A s \in h : StatusOK(s)

\* The rows of this phase, the one in hand included.
Held(r) == r \in rows \/ (polled # None /\ r = polled.row)

\* What the handler and the worker hold, and that a job that runs is one.
HandInv ==
  /\ \A r : Held(r) => r \in Row /\ StatusOK(r.status) /\ "Removed" \notin r.status
  /\ polled # None => polled.answer \in Reports[polled.row.download] \cup {NotListed}
  /\ polled # None /\ at # 0 /\ Plan[at][2] = "check" => polled.place \in Place
  /\ sorting => queue # <<>>
  /\ alive => current \in Job

TypeInv == TypeOK /\ HandInv

\* Whatever looks finished was once reported to be.
EndedInv ==
  /\ JobsAreFinished
  /\ \A d \in Download :
       /\ report[d] # NotListed /\ report[d] \in Finished => d \in ended
       /\ \A s \in hist[d] : s \in Finished => d \in ended
  /\ polled # None /\ polled.answer # NotListed /\ polled.answer \in Finished
       => polled.row.download \in ended
  /\ at # 0 /\ Plan[at][2] = "check" => \A r : Held(r) => r.download \in ended
  /\ adding # None => adding.download \in ended

\* Whatever looks imported was imported.
ImportedInv ==
  /\ \A d \in Download : \A s \in hist[d] : s = PPCompleted => d \in imported
  /\ at # 0 /\ Plan[at][2] = "ratio" => \A r : Held(r) => r.download \in imported

\* Before the last phase the handler holds a row of no download that is gone.
RemovedInv ==
  /\ at # 0 /\ Plan[at][2] # "clean" => \A r : Held(r) => ~Gone(r.download)
  /\ acting # None => at # 0 /\ Plan[at][2] # "clean" /\ ~Gone(acting)

-----------------------------------------------------------------------------
\* The statuses

\* The conditions of the queries that the invariants use.
LEMMA WantedFacts ==
  ASSUME NEW phase, NEW s, Wanted(phase, s)
  PROVE  /\ phase = "check" => s \in Finished
         /\ phase = "ratio" => s = PPCompleted
BY DEF Wanted

\* A report of a client has no flag that only the program sets.
LEMMA ReportFacts ==
  ASSUME NEW d \in Download, NEW s \in Reports[d]
  PROVE  /\ s \subseteq Flags
         /\ "Postprocessed" \notin s /\ "SeededAction" \notin s /\ "Removed" \notin s
         /\ StatusOK(s)
         /\ s # PPCompleted
<1>1. s \in SUBSET (Flags \ {"Postprocessed", "SeededAction", "Removed"})
  BY DownloadHandlerAssumption
<1> QED
  BY <1>1 DEF StatusOK, PPCompleted

\* What the program itself writes is a status and does not look finished.
LEMMA FlagFacts ==
  /\ PPCompleted \subseteq Flags /\ PPFailed \subseteq Flags /\ {"SeededAction"} \subseteq Flags
  /\ StatusOK(PPCompleted) /\ StatusOK(PPFailed) /\ StatusOK({"SeededAction"})
  /\ "Removed" \notin PPCompleted /\ "Removed" \notin PPFailed /\ "Removed" \notin {"SeededAction"}
  /\ PPCompleted \notin Finished /\ PPFailed \notin Finished /\ {"SeededAction"} \notin Finished
  /\ PPFailed # PPCompleted /\ {"SeededAction"} # PPCompleted
<1>1. \A s \in Finished : "Postprocessed" \notin s /\ "SeededAction" \notin s
  BY DEF Finished
<1>2. "Aborted" \notin PPCompleted /\ "Failed" \notin PPCompleted /\ "Failed" \in PPFailed
  BY DEF PPCompleted, PPFailed
<1>3. "SeededAction" \notin PPCompleted
  BY DEF PPCompleted
<1>4. "Removed" \notin PPCompleted /\ "Removed" \notin PPFailed
  BY DEF PPCompleted, PPFailed
<1>5. PPCompleted \ {"Removed"} = PPCompleted /\ PPFailed \ {"Removed"} = PPFailed
  BY <1>4
<1>6. PPCompleted \subseteq Flags /\ PPFailed \subseteq Flags /\ {"SeededAction"} \subseteq Flags
  BY DEF PPCompleted, PPFailed, Flags
<1>7. "Postprocessed" \in PPCompleted /\ "Postprocessed" \in PPFailed
  BY DEF PPCompleted, PPFailed
<1>8. StatusOK(PPCompleted) /\ StatusOK(PPFailed) /\ StatusOK({"SeededAction"})
  BY <1>5 DEF StatusOK
<1> QED
  BY <1>1, <1>2, <1>3, <1>4, <1>6, <1>7, <1>8

\* A removed status is still one, and looks neither finished nor imported.
LEMMA RemovedFacts ==
  ASSUME NEW s \in SUBSET Flags, StatusOK(s), "Removed" \notin s
  PROVE  /\ s \cup {"Removed"} \subseteq Flags
         /\ StatusOK(s \cup {"Removed"})
         /\ s \cup {"Removed"} \notin Finished
         /\ s \cup {"Removed"} # PPCompleted
<1>1. (s \cup {"Removed"}) \ {"Removed"} = s \ {"Removed"}
  OBVIOUS
<1>2. "Postprocessed" \in s \cup {"Removed"} => "Postprocessed" \in s
  OBVIOUS
<1>3. \A f \in Finished : "Removed" \notin f
  BY DEF Finished
<1>4. "Removed" \notin PPCompleted
  BY DEF PPCompleted
<1>5. "Removed" \in Flags
  BY DEF Flags
<1> QED
  BY <1>1, <1>2, <1>3, <1>4, <1>5 DEF StatusOK

\* The rows a phase selects.
LEMMA SelectFacts ==
  ASSUME TypeOK, NEW k, NEW r \in Select(k)
  PROVE  /\ r \in Row
         /\ r.status \in hist[r.download]
         /\ StatusOK(r.status)
         /\ "Removed" \notin r.status
         /\ Wanted(Plan[k][2], r.status)
<1>1. /\ r \in RowsOf(k) /\ r.status \in hist[r.download]
      /\ "Removed" \notin r.status /\ Wanted(Plan[k][2], r.status)
  BY DEF Select
<1>2. PICK d \in Download, s \in UNION Range(hist) : r = [download |-> d, status |-> s]
  BY <1>1 DEF RowsOf
<1>3. r.download = d /\ r.status = s
  BY <1>2
<1>4. s \in SUBSET Flags /\ StatusOK(s)
  BY <1>1, <1>3 DEF TypeOK, StatusOK
<1> QED
  BY <1>1, <1>2, <1>3, <1>4 DEF Row

-----------------------------------------------------------------------------
\* The steps, as far as the rows go

PhaseChange == Begin \/ NextPhase \/ Abort \/ SeedActionRaises

\* Every other step, with the actions spelled out.
RowStep ==
  \/ \E r \in rows : Poll(r) \/ PollFails(r)
  \/ UpdateStatus \/ CheckPostprocess \/ AddItem \/ SeedActionStarts \/ SeedActionSaved \/ Clean
WorkerStep == QueueRun \/ Finishes \/ JobLeavesStatus

LEMMA NextCases ==
  ASSUME [Next]_vars
  PROVE  PhaseChange \/ RowStep \/ WorkerStep \/ Clients \/ Restart \/ UNCHANGED vars
BY DEF Next, Handler, PhaseChange, RowStep, WorkerStep

\* A change of phase replaces the rows by a selection from the history.
LEMMA PhaseFacts ==
  ASSUME TypeOK, PhaseChange
  PROVE  /\ at' \in 0..7 /\ rows' \subseteq Row
         /\ polled' = None /\ acting' = None /\ adding' = None
         /\ \A r : Held(r)' => at' # 0 /\ r \in Select(at')
         /\ UNCHANGED <<hist, seedAction, report, queue, sorting, popped, current, alive,
                        ended, imported, missed, snatches, restarts>>
<1>1. ASSUME NEW k \in 0..7, GoTo(k)
      PROVE  /\ at' = k /\ polled' = None /\ acting' = None /\ adding' = None
             /\ rows' \subseteq Row
             /\ \A r : Held(r)' => at' # 0 /\ r \in Select(at')
             /\ UNCHANGED <<hist, seedAction, report, queue, sorting, popped, current, alive,
                            ended, imported, missed, snatches, restarts>>
  <2>1. at' = k /\ polled' = None /\ acting' = None /\ adding' = None
    BY <1>1 DEF GoTo
  <2>2. rows' \subseteq Select(k) /\ (k = 0 => rows' = {})
    BY <1>1 DEF GoTo
  <2>3. \A r : Held(r)' => at' # 0 /\ r \in Select(at')
    BY <2>1, <2>2 DEF Held
  <2>4. rows' \subseteq Row
    BY <2>2, SelectFacts
  <2>5. UNCHANGED <<hist, seedAction, report, queue, sorting, popped, current, alive,
                    ended, imported, missed, snatches, restarts>>
    BY <1>1 DEF GoTo, clients, ghosts, bounds
  <2> QED
    BY <2>1, <2>2, <2>3, <2>4, <2>5
<1>2. \E k \in 0..7 : GoTo(k)
  <2>1. CASE Begin
    BY <2>1 DEF Begin
  <2>2. CASE NextPhase
    <3>1. (at + 1) % 8 \in 0..7
      BY DEF TypeOK
    <3> QED
      BY <2>2, <3>1 DEF NextPhase
  <2>3. CASE Abort \/ SeedActionRaises
    BY <2>3 DEF Abort, SeedActionRaises, LeaveClient
  <2> QED
    BY <2>1, <2>2, <2>3 DEF PhaseChange
<1> QED
  BY <1>1, <1>2

\* No other step takes a row in hand that was not held.
LEMMA HeldFacts ==
  ASSUME RowStep \/ WorkerStep \/ Clients \/ Restart \/ UNCHANGED vars
  PROVE  /\ \A r : Held(r)' => Held(r) /\ at' = at
         /\ rows' \subseteq rows
<1>1. ASSUME NEW r \in rows, Poll(r)
      PROVE  rows' \subseteq rows /\ \A s : Held(s)' => Held(s) /\ at' = at
  <2>1. polled'.row = r /\ rows' = rows \ {r} /\ at' = at
    BY <1>1 DEF Poll
  <2> QED
    BY <2>1 DEF Held
<1>2. ASSUME NEW r \in rows, PollFails(r)
      PROVE  rows' \subseteq rows /\ \A s : Held(s)' => Held(s) /\ at' = at
  BY <1>2 DEF PollFails, Held
<1>3. CASE UpdateStatus \/ CheckPostprocess \/ AddItem \/ SeedActionStarts \/ SeedActionSaved \/ Clean
  <2>1. rows' = rows /\ at' = at /\ (polled' = None \/ polled' = polled)
    BY <1>3 DEF UpdateStatus, CheckPostprocess, AddItem, SeedActionStarts, SeedActionSaved, Clean, handler
  <2> QED
    BY <2>1 DEF Held
<1>4. CASE WorkerStep \/ Clients \/ UNCHANGED vars
  <2>1. UNCHANGED <<rows, at, polled>>
    BY <1>4 DEF WorkerStep, QueueRun, RunBegin, RunPop, RunLaunch, Finishes, JobWrites, JobLeavesStatus, Clients, Reported,
                Forgotten, Snatched, handler, vars
  <2> QED
    BY <2>1 DEF Held
<1>5. CASE Restart
  BY <1>5 DEF Restart, Held
<1> QED
  BY <1>1, <1>2, <1>3, <1>4, <1>5 DEF RowStep

-----------------------------------------------------------------------------
\* Type correctness

LEMMA TypeInit ==
  ASSUME Init
  PROVE  TypeInv
<1>1. /\ hist \in [Download -> SUBSET SUBSET Flags]
      /\ \A d \in Download : \A s \in hist[d] : s = {}
  BY DEF Init
<1>2. TypeOK
  <2>1. /\ hist \in [Download -> SUBSET SUBSET Flags]
        /\ \A d \in Download : \A s \in hist[d] :
             "Postprocessed" \in s => s \ {"Removed"} \in {PPCompleted, PPFailed}
    BY <1>1
  <2>2. /\ report \in [Download -> (SUBSET Flags) \cup {NotListed}]
        /\ \A d \in Download : report[d] \in Reports[d] \cup {NotListed}
    BY DEF Init
  <2>3. seedAction \in SeedActions /\ rows \subseteq Row /\ polled = None /\ missed \subseteq Place
    BY DEF Init
  <2>4. /\ acting \in Download \cup {None} /\ current \in Job \cup {None}
        /\ adding \in Job \cup {None} /\ popped \in Job \cup {None}
        /\ ended \subseteq Download /\ imported \subseteq Download
    BY DEF Init
  <2>5. queue \in Seq(Job)
    BY EmptySeq DEF Init
  <2>6. at \in 0..7 /\ snatches \in 0..MaxSnatches /\ restarts \in 0..MaxRestarts
    BY DownloadHandlerAssumption DEF Init
  <2>7. sorting \in BOOLEAN /\ alive \in BOOLEAN
    BY Zenon DEF Init
  <2> QED
    BY <2>1, <2>2, <2>3, <2>4, <2>5, <2>6, <2>7 DEF TypeOK
<1>3. HandInv
  BY DEF Init, HandInv, Held
<1> QED
  BY <1>2, <1>3 DEF TypeInv

\* A status written for one download keeps the type of the history.
LEMMA SaveFacts ==
  ASSUME TypeOK, NEW d, NEW s \in SUBSET Flags, StatusOK(s), Save(d, s)
  PROVE  /\ hist' \in [Download -> SUBSET SUBSET Flags]
         /\ \A e \in Download : HistOK(hist'[e])
         /\ \A e \in Download : hist'[e] = IF e = d THEN {s} ELSE hist[e]
<1>1. hist' = [hist EXCEPT ![d] = {s}] /\ hist \in [Download -> SUBSET SUBSET Flags]
  BY DEF Save, TypeOK
<1>2. hist' \in [Download -> SUBSET SUBSET Flags]
  BY <1>1
<1>3. \A e \in Download : hist'[e] = IF e = d THEN {s} ELSE hist[e]
  BY <1>1
<1>4. \A e \in Download : HistOK(hist[e])
  BY DEF TypeOK, StatusOK, HistOK
<1>5. HistOK({s})
  BY DEF HistOK
<1>6. \A e \in Download : HistOK(hist'[e])
  BY <1>3, <1>4, <1>5
<1> QED
  BY <1>2, <1>3, <1>6

\* What each step of the handler with a row in hand writes into the history.
LEMMA HandlerWrites ==
  ASSUME TypeInv, RowStep
  PROVE  \/ UNCHANGED hist
         \/ /\ polled # None /\ polled.row \in Row /\ at # 0 /\ UpdateStatus
            /\ polled.answer \in Reports[polled.row.download] /\ polled.answer # NotListed
            /\ Save(polled.row.download, polled.answer)
         \/ /\ acting # None /\ SeedActionSaved
            /\ Save(acting, {"SeededAction"})
         \/ /\ polled # None /\ polled.row \in Row /\ at # 0 /\ Clean
            /\ StatusOK(polled.row.status) /\ "Removed" \notin polled.row.status
            /\ Save(polled.row.download, polled.row.status \cup {"Removed"})
<1>1. polled # None => /\ polled.row \in Row /\ StatusOK(polled.row.status)
                       /\ "Removed" \notin polled.row.status
                       /\ polled.answer \in Reports[polled.row.download] \cup {NotListed}
  BY DEF TypeInv, HandInv, Held
<1>2. ASSUME NEW r \in rows, Poll(r) \/ PollFails(r)
      PROVE  UNCHANGED hist
  BY <1>2 DEF Poll, PollFails
<1>3. CASE UpdateStatus
  BY <1>1, <1>3 DEF UpdateStatus, InPhase, row, answer
<1>4. CASE CheckPostprocess \/ AddItem \/ SeedActionStarts
  BY <1>4 DEF CheckPostprocess, AddItem, SeedActionStarts
<1>5. CASE SeedActionSaved
  BY <1>5 DEF SeedActionSaved
<1>6. CASE Clean
  BY <1>1, <1>6 DEF Clean, InPhase, row, answer
<1> QED
  BY <1>2, <1>3, <1>4, <1>5, <1>6 DEF RowStep

\* What the worker writes into the history.
LEMMA WorkerWrites ==
  ASSUME TypeInv, WorkerStep
  PROVE  \/ UNCHANGED <<hist, imported>>
         \/ \E s \in {PPCompleted, PPFailed} :
              /\ alive /\ current \in Job /\ current.download \in Download
              /\ Save(current.download, s)
              /\ imported' = IF s = PPCompleted THEN imported \cup {current.download}
                                                ELSE imported
<1>1. CASE QueueRun \/ JobLeavesStatus
  BY <1>1 DEF QueueRun, RunBegin, RunPop, RunLaunch, JobLeavesStatus, ghosts
<1>2. ASSUME NEW s \in {PPCompleted, PPFailed}, JobWrites(s)
      PROVE  /\ alive /\ current \in Job /\ current.download \in Download
             /\ Save(current.download, s)
             /\ imported' = IF s = PPCompleted THEN imported \cup {current.download}
                                               ELSE imported
  <2>1. alive /\ current \in Job
    BY <1>2 DEF JobWrites, TypeInv, HandInv
  <2> QED
    BY <1>2, <2>1 DEF JobWrites, Outcome, Job
<1> QED
  BY <1>1, <1>2 DEF WorkerStep, Finishes

\* What the clients, a snatch, and a restart do to it.
LEMMA ClientWrites ==
  ASSUME TypeOK, Clients \/ Restart \/ UNCHANGED vars
  PROVE  \/ UNCHANGED hist
         \/ \E d \in Download : hist' = [hist EXCEPT ![d] = @ \cup {{}}]
BY DEF Clients, Reported, Forgotten, Snatched, Restart, vars

LEMMA HistType ==
  ASSUME TypeInv, [Next]_vars
  PROVE  /\ hist' \in [Download -> SUBSET SUBSET Flags]
         /\ \A d \in Download : HistOK(hist'[d])
<1>1. TypeOK
  BY DEF TypeInv
<1>2. CASE UNCHANGED hist
  BY <1>1, <1>2 DEF TypeOK, HistOK, StatusOK
<1>3. CASE RowStep
  <2>1. ASSUME polled.row \in Row, polled.answer \in Reports[polled.row.download],
               Save(polled.row.download, polled.answer)
        PROVE  \E d, s : s \in SUBSET Flags /\ StatusOK(s) /\ Save(d, s)
    <3>1. polled.row.download \in Download
      BY <2>1 DEF Row
    <3> QED
      BY <2>1, <3>1, ReportFacts
  <2>2. ASSUME polled.row \in Row, StatusOK(polled.row.status), "Removed" \notin polled.row.status,
               Save(polled.row.download, polled.row.status \cup {"Removed"})
        PROVE  \E d, s : s \in SUBSET Flags /\ StatusOK(s) /\ Save(d, s)
    <3>1. polled.row.status \in SUBSET Flags
      BY <2>2 DEF Row
    <3> QED
      BY <2>2, <3>1, RemovedFacts
  <2>3. UNCHANGED hist \/ \E d, s : s \in SUBSET Flags /\ StatusOK(s) /\ Save(d, s)
    BY <1>3, <2>1, <2>2, HandlerWrites, FlagFacts
  <2> QED
    BY <1>1, <1>2, <2>3, SaveFacts
<1>4. CASE WorkerStep
  <2>1. UNCHANGED hist \/ \E s \in {PPCompleted, PPFailed} : Save(current.download, s)
    BY <1>4, WorkerWrites
  <2> QED
    BY <1>1, <1>2, <2>1, SaveFacts, FlagFacts
<1>5. CASE PhaseChange
  BY <1>1, <1>2, <1>5, PhaseFacts
<1>6. CASE Clients \/ Restart \/ UNCHANGED vars
  <2>1. ASSUME NEW d \in Download, hist' = [hist EXCEPT ![d] = @ \cup {{}}]
        PROVE  /\ hist' \in [Download -> SUBSET SUBSET Flags]
               /\ \A e \in Download : HistOK(hist'[e])
    <3>1. hist \in [Download -> SUBSET SUBSET Flags]
      BY <1>1 DEF TypeOK
    <3>2. \A e \in Download : HistOK(hist[e])
      BY <1>1 DEF TypeOK, HistOK, StatusOK
    <3>3. hist' \in [Download -> SUBSET SUBSET Flags]
      BY <2>1, <3>1
    <3>4. \A e \in Download : hist'[e] = IF e = d THEN hist[e] \cup {{}} ELSE hist[e]
      BY <2>1, <3>1
    <3>5. HistOK({{}})
      BY DEF HistOK, StatusOK
    <3>6. \A e \in Download : HistOK(hist[e] \cup {{}})
      BY <3>2, <3>5 DEF HistOK
    <3> QED
      BY <3>2, <3>3, <3>4, <3>6
  <2> QED
    BY <1>1, <1>2, <1>6, <2>1, ClientWrites
<1> QED
  BY <1>3, <1>4, <1>5, <1>6, NextCases

LEMMA ClientsType ==
  ASSUME TypeInv, [Next]_vars
  PROVE  /\ seedAction' \in SeedActions
         /\ report' \in [Download -> (SUBSET Flags) \cup {NotListed}]
         /\ \A d \in Download : report'[d] \in Reports[d] \cup {NotListed}
         /\ ended' \subseteq Download /\ imported' \subseteq Download
         /\ snatches' \in 0..MaxSnatches /\ restarts' \in 0..MaxRestarts
<1>1. /\ seedAction \in SeedActions
      /\ report \in [Download -> (SUBSET Flags) \cup {NotListed}]
      /\ \A d \in Download : report[d] \in Reports[d] \cup {NotListed}
      /\ ended \subseteq Download /\ imported \subseteq Download
      /\ snatches \in 0..MaxSnatches /\ restarts \in 0..MaxRestarts
  BY DEF TypeInv, TypeOK
<1>2. CASE UNCHANGED <<seedAction, report, ended, imported, snatches, restarts>>
  BY <1>1, <1>2
<1>3. CASE RowStep
  <2>1. UNCHANGED <<seedAction, ended, imported, snatches, restarts>>
    BY <1>3 DEF RowStep, Poll, PollFails, UpdateStatus, CheckPostprocess, AddItem,
                SeedActionStarts, SeedActionSaved, Clean, clients, ghosts, bounds
  <2>2. UNCHANGED report \/ \E d : report' = [report EXCEPT ![d] = NotListed]
    <3>1. CASE SeedActionStarts
      <4>1. UNCHANGED report
            \/ report' \in {report, [report EXCEPT ![polled.row.download] =
                                       IF seedAction = "remove" THEN NotListed ELSE @]}
        BY <3>1 DEF SeedActionStarts, row
      <4>2. CASE seedAction = "remove"
        BY <4>1, <4>2
      <4>3. CASE seedAction # "remove"
        BY <1>1, <4>1, <4>3
      <4> QED
        BY <4>2, <4>3
    <3>2. CASE ~SeedActionStarts
      BY <1>3, <3>2 DEF RowStep, Poll, PollFails, UpdateStatus, CheckPostprocess, AddItem,
                        SeedActionSaved, Clean, clients
    <3> QED
      BY <3>1, <3>2
  <2> QED
    BY <1>1, <2>1, <2>2
<1>4. CASE WorkerStep
  <2>1. UNCHANGED <<seedAction, report, ended, snatches, restarts>>
    BY <1>4 DEF WorkerStep, QueueRun, RunBegin, RunPop, RunLaunch, Finishes, JobWrites,
                JobLeavesStatus, clients, ghosts, bounds
  <2> QED
    BY <1>1, <1>4, <2>1, WorkerWrites
<1>5. CASE PhaseChange
  BY <1>1, <1>5, PhaseFacts DEF TypeInv
<1>6. CASE Clients
  <2>1. ASSUME NEW d \in Download, Reported(d)
        PROVE  /\ report' \in [Download -> (SUBSET Flags) \cup {NotListed}]
               /\ \A e \in Download : report'[e] \in Reports[e] \cup {NotListed}
               /\ ended' \subseteq Download
    BY <1>1, <2>1, ReportFacts DEF Reported
  <2>2. ASSUME NEW d \in Download, Forgotten(d)
        PROVE  /\ report' \in [Download -> (SUBSET Flags) \cup {NotListed}]
               /\ \A e \in Download : report'[e] \in Reports[e] \cup {NotListed}
    BY <1>1, <2>2 DEF Forgotten
  <2>3. ASSUME NEW d \in Download, Snatched(d)
        PROVE  snatches' \in 0..MaxSnatches
    BY <1>1, <2>3, DownloadHandlerAssumption DEF Snatched
  <2> QED
    BY <1>1, <1>6, <2>1, <2>2, <2>3 DEF Clients, Reported, Forgotten, Snatched,
       clients, ghosts, bounds
<1>7. CASE Restart
  BY <1>1, <1>7, DownloadHandlerAssumption DEF Restart, clients, ghosts
<1>8. CASE UNCHANGED vars
  BY <1>2, <1>8 DEF vars, clients, ghosts, bounds
<1> QED
  BY <1>3, <1>4, <1>5, <1>6, <1>7, <1>8, NextCases

LEMMA HandlerType ==
  ASSUME TypeInv, [Next]_vars
  PROVE  /\ at' \in 0..7 /\ rows' \subseteq Row
         /\ polled' = None \/ polled'.row \in Row
         /\ acting' \in Download \cup {None}
<1>1. /\ at \in 0..7 /\ rows \subseteq Row
      /\ polled = None \/ polled.row \in Row
      /\ acting \in Download \cup {None}
  BY DEF TypeInv, TypeOK
<1>2. CASE PhaseChange
  BY <1>2, PhaseFacts DEF TypeInv
<1>3. ASSUME NEW r \in rows, Poll(r) \/ PollFails(r)
      PROVE  /\ at' = at /\ rows' \subseteq rows /\ acting' = acting
             /\ polled' = polled \/ polled'.row = r
  BY <1>3 DEF Poll, PollFails
<1>4. CASE UpdateStatus \/ CheckPostprocess \/ AddItem \/ SeedActionSaved \/ Clean
  BY <1>1, <1>4 DEF UpdateStatus, CheckPostprocess, AddItem, SeedActionSaved, Clean, handler
<1>5. CASE SeedActionStarts
  <2>1. polled # None /\ polled.row.download \in Download
    BY <1>1, <1>5 DEF SeedActionStarts, InPhase, Row
  <2> QED
    BY <1>1, <1>5, <2>1 DEF SeedActionStarts, row
<1>6. CASE WorkerStep \/ Clients \/ UNCHANGED vars
  <2>1. UNCHANGED <<at, rows, polled, acting>>
    BY <1>6 DEF WorkerStep, QueueRun, RunBegin, RunPop, RunLaunch, Finishes, JobWrites,
                JobLeavesStatus, Clients, Reported, Forgotten, Snatched, handler, vars
  <2> QED
    BY <1>1, <2>1
<1>7. CASE Restart
  BY <1>7 DEF Restart
<1> QED
  BY <1>1, <1>2, <1>3, <1>4, <1>5, <1>6, <1>7, NextCases DEF RowStep

-----------------------------------------------------------------------------
\* The queue

\* The check of add_item leaves the queue alone; what it lets through is a job for the
\* row in hand whose place was addable.
LEMMA CheckFacts ==
  ASSUME TypeInv, CheckPostprocess
  PROVE  /\ polled # None /\ at # 0 /\ Plan[at][2] = "check"
         /\ polled.row.download \in Download
         /\ UNCHANGED <<queue, sorting, popped, current, alive, ended>>
         /\ \/ UNCHANGED <<adding, missed>>
            \/ /\ adding' \in Job
               /\ adding'.download = polled.row.download /\ adding'.place = polled.place
               /\ Addable(polled.place)
               /\ missed' = IF Unseen(polled.place) THEN missed \cup {polled.place} ELSE missed
<1>1. /\ polled # None /\ at # 0 /\ Plan[at][2] = "check"
      /\ polled.row.download \in Download /\ polled.place \in Place
  BY DEF CheckPostprocess, InPhase, TypeInv, TypeOK, HandInv, Row
<1>2. UNCHANGED <<queue, sorting, popped, current, alive, ended>>
  BY DEF CheckPostprocess
<1>3. CASE UNCHANGED <<adding, missed>>
  BY <1>1, <1>2, <1>3
<1>4. CASE ~UNCHANGED <<adding, missed>>
  <2>1. /\ adding' = [download |-> polled.row.download, place |-> polled.place,
                      failed |-> answer = {"Failed"}]
        /\ Addable(polled.place)
        /\ missed' = IF Unseen(polled.place) THEN missed \cup {polled.place} ELSE missed
    BY <1>4 DEF CheckPostprocess, row
  <2>2. (answer = {"Failed"}) \in BOOLEAN
    OBVIOUS
  <2>3. adding' \in Job
    BY <1>1, <2>1, <2>2 DEF Job
  <2> QED
    BY <1>1, <1>2, <2>1, <2>3
<1> QED
  BY <1>3, <1>4

\* Everything that happens to the queue.
LEMMA QueueSteps ==
  ASSUME TypeOK, [Next]_vars
  PROVE  \/ CheckPostprocess \/ AddItem \/ RunBegin \/ RunPop \/ RunLaunch
         \/ /\ queue' = <<>> /\ sorting' = FALSE /\ popped' = None /\ current' = None
            /\ alive' = FALSE /\ adding' = None /\ missed' = missed
         \/ /\ UNCHANGED <<queue, sorting, popped, current, missed>>
            /\ alive' \in {alive, FALSE} /\ adding' \in {adding, None}
<1>1. CASE PhaseChange
  BY <1>1, PhaseFacts
<1>2. CASE RowStep
  BY <1>2 DEF RowStep, Poll, PollFails, UpdateStatus, SeedActionStarts, SeedActionSaved, Clean,
              worker, ghosts
<1>3. CASE WorkerStep
  BY <1>3 DEF WorkerStep, QueueRun, Finishes, JobWrites, JobLeavesStatus, ghosts
<1>4. CASE Clients \/ UNCHANGED vars
  BY <1>4 DEF Clients, Reported, Forgotten, Snatched, worker, ghosts, vars
<1>5. CASE Restart
  BY <1>5 DEF Restart, ghosts
<1> QED
  BY <1>1, <1>2, <1>3, <1>4, <1>5, NextCases

LEMMA WorkerType ==
  ASSUME TypeInv, [Next]_vars
  PROVE  /\ adding' \in Job \cup {None}
         /\ queue' \in Seq(Job)
         /\ sorting' \in BOOLEAN
         /\ popped' \in Job \cup {None}
         /\ current' \in Job \cup {None}
         /\ alive' \in BOOLEAN
         /\ missed' \subseteq Place
         /\ sorting' => queue' # <<>>
         /\ alive' => current' \in Job
<1>1. /\ queue \in Seq(Job) /\ adding \in Job \cup {None} /\ popped \in Job \cup {None}
      /\ current \in Job \cup {None} /\ alive \in BOOLEAN /\ sorting \in BOOLEAN
      /\ missed \subseteq Place
      /\ sorting => queue # <<>>
      /\ alive => current \in Job
      /\ TypeOK
  BY DEF TypeInv, TypeOK, HandInv
<1>2. CASE CheckPostprocess
  <2>1. UNCHANGED <<queue, sorting, popped, current, alive>>
    BY <1>2, CheckFacts
  <2>2. adding' \in Job \cup {None} /\ missed' \subseteq Place
    <3>1. CASE UNCHANGED <<adding, missed>>
      BY <1>1, <3>1
    <3>2. CASE /\ adding' \in Job /\ adding'.place = polled.place
               /\ missed' = IF Unseen(polled.place) THEN missed \cup {polled.place} ELSE missed
      <4>1. polled.place \in Place
        BY <3>2 DEF Job
      <4> QED
        BY <1>1, <3>2, <4>1
    <3> QED
      BY <1>2, <3>1, <3>2, CheckFacts
  <2> QED
    BY <1>1, <2>1, <2>2
<1>3. CASE AddItem
  <2>1. adding \in Job
    BY <1>1, <1>3 DEF AddItem
  <2>2. /\ queue' = Append(queue, adding) /\ adding' = None /\ sorting' = sorting
        /\ UNCHANGED <<popped, current, alive, missed>> /\ ~sorting
    BY <1>3 DEF AddItem, ghosts
  <2>3. queue' \in Seq(Job)
    BY <1>1, <2>1, <2>2, AppendProperties
  <2> QED
    BY <1>1, <2>2, <2>3
<1>4. CASE RunBegin
  <2>1. /\ ~alive /\ alive' = alive /\ current' = None /\ sorting' = (queue # <<>>)
        /\ UNCHANGED <<adding, queue, popped, missed>>
    BY <1>4 DEF RunBegin, ghosts
  <2>2. sorting' \in BOOLEAN /\ (sorting' => queue' # <<>>)
    BY <2>1
  <2> QED
    BY <1>1, <2>1, <2>2
<1>5. CASE RunPop
  <2>1. /\ queue # <<>> /\ popped' = Head(queue) /\ queue' = Tail(queue) /\ sorting' = FALSE
        /\ UNCHANGED <<adding, current, alive, missed>>
    BY <1>1, <1>5 DEF RunPop, ghosts
  <2>2. Head(queue) \in Job /\ Tail(queue) \in Seq(Job)
    BY <1>1, <2>1, HeadTailProperties
  <2> QED
    BY <1>1, <2>1, <2>2
<1>6. CASE RunLaunch
  BY <1>1, <1>6 DEF RunLaunch, ghosts
<1>7. CASE /\ queue' = <<>> /\ sorting' = FALSE /\ popped' = None /\ current' = None
           /\ alive' = FALSE /\ adding' = None /\ missed' = missed
  BY <1>1, <1>7, EmptySeq
<1>8. CASE /\ UNCHANGED <<queue, sorting, popped, current, missed>>
           /\ alive' \in {alive, FALSE} /\ adding' \in {adding, None}
  <2>1. adding' \in Job \cup {None}
    BY <1>1, <1>8
  <2>2. alive' \in BOOLEAN /\ (alive' => alive)
    <3>1. CASE alive' = alive
      BY <1>1, <3>1
    <3>2. CASE alive' = FALSE
      BY <3>2
    <3> QED
      BY <1>8, <3>1, <3>2
  <2> QED
    BY <1>1, <1>8, <2>1, <2>2
<1> QED
  BY <1>1, <1>2, <1>3, <1>4, <1>5, <1>6, <1>7, <1>8, QueueSteps

\* Poll alone takes a row in hand.
LEMMA PolledSteps ==
  ASSUME TypeInv, [Next]_vars
  PROVE  \/ polled' = None
         \/ polled' = polled /\ at' = at
         \/ \E r \in rows : Poll(r)
<1>1. CASE PhaseChange
  BY <1>1, PhaseFacts DEF TypeInv
<1>2. CASE RowStep
  BY <1>2 DEF RowStep, PollFails, UpdateStatus, CheckPostprocess, AddItem, SeedActionStarts,
              SeedActionSaved, Clean, handler
<1>3. CASE WorkerStep \/ Clients \/ UNCHANGED vars
  BY <1>3 DEF WorkerStep, QueueRun, RunBegin, RunPop, RunLaunch, Finishes, JobWrites,
              JobLeavesStatus, Clients, Reported, Forgotten, Snatched, handler, vars
<1>4. CASE Restart
  BY <1>4 DEF Restart
<1> QED
  BY <1>1, <1>2, <1>3, <1>4, NextCases

\* What the handler holds after a step it held before or has just selected, and
\* the answer in hand is the report of a client.
LEMMA HandStep ==
  ASSUME TypeInv, [Next]_vars
  PROVE  HandInv'
<1>1. TypeOK /\ HandInv
  BY DEF TypeInv
<1>2. ASSUME NEW r, Held(r)'
      PROVE  r \in Row /\ StatusOK(r.status) /\ "Removed" \notin r.status
  <2>1. CASE PhaseChange
    BY <1>1, <1>2, <2>1, PhaseFacts, SelectFacts
  <2>2. CASE ~PhaseChange
    <3>1. Held(r)
      BY <1>2, <2>2, HeldFacts, NextCases
    <3> QED
      BY <1>1, <3>1 DEF HandInv
  <2> QED
    BY <2>1, <2>2
<1>3. polled' # None
        => /\ polled'.answer \in Reports[polled'.row.download] \cup {NotListed}
           /\ at' # 0 /\ Plan[at'][2] = "check" => polled'.place \in Place
  <2>1. ASSUME NEW r \in rows, Poll(r)
        PROVE  /\ polled'.answer \in Reports[polled'.row.download] \cup {NotListed}
               /\ at' # 0 /\ Plan[at'][2] = "check" => polled'.place \in Place
    <3>1. PICK place \in PlacesOf[r.download] :
            /\ polled'.row = r /\ polled'.answer = report[r.download]
            /\ polled'.place = IF Plan[at][2] = "check" THEN place ELSE None
            /\ at' = at
      BY <2>1 DEF Poll
    <3>2. r.download \in Download
      BY <1>1 DEF TypeOK, Row
    <3>3. place \in Place
      BY <3>1, <3>2, DownloadHandlerAssumption
    <3>4. report[r.download] \in Reports[r.download] \cup {NotListed}
      BY <1>1, <3>2 DEF TypeOK
    <3> QED
      BY <3>1, <3>3, <3>4
  <2>2. CASE polled' = polled /\ at' = at
    BY <1>1, <2>2 DEF HandInv
  <2> QED
    BY <2>1, <2>2, PolledSteps
<1>4. (alive' => current' \in Job) /\ (sorting' => queue' # <<>>)
  BY WorkerType
<1> QED
  BY <1>2, <1>3, <1>4 DEF HandInv

LEMMA TypeStep ==
  ASSUME TypeInv, [Next]_vars
  PROVE  TypeInv'
<1>1. \A d \in Download : \A s \in hist'[d] :
        "Postprocessed" \in s => s \ {"Removed"} \in {PPCompleted, PPFailed}
  BY HistType DEF HistOK, StatusOK
<1>2. TypeOK'
  BY <1>1, HistType, ClientsType, HandlerType, WorkerType DEF TypeOK
<1> QED
  BY <1>2, HandStep DEF TypeInv

LEMMA TypeInvariant == Spec => []TypeInv
<1>1. Init => TypeInv
  BY TypeInit
<1>2. TypeInv /\ [Next]_vars => TypeInv'
  BY TypeStep
<1> QED
  BY <1>1, <1>2, PTL DEF Spec

\* The variables keep their types, and a final status says how the job ended.
THEOREM TypeCorrect == Spec => []TypeOK
<1>1. TypeInv => TypeOK
  BY DEF TypeInv
<1> QED
  BY <1>1, TypeInvariant, PTL

-----------------------------------------------------------------------------
\* At most one job for a place

\* What it says of one place.
OneJob(p) ==
  /\ \A j, k \in DOMAIN queue : queue[j].place = p /\ queue[k].place = p => j = k
  /\ (\E k \in DOMAIN queue : queue[k].place = p)
       => /\ popped # None => popped.place # p
          /\ alive => current.place # p
  /\ adding # None /\ adding.place = p
       => /\ \A k \in DOMAIN queue : queue[k].place # p
          /\ popped # None => popped.place # p
          /\ alive => current.place # p

LEMMA OneJobFacts == NoDuplicateJobs <=> \A p \in Place \ missed : OneJob(p)
BY DEF NoDuplicateJobs, OneJob

LEMMA NoDuplicatesInit ==
  ASSUME Init
  PROVE  NoDuplicateJobs
BY DEF Init, NoDuplicateJobs

\* The check finds no job of its place, unless it is noted as one that did not see it,
\* and until the append nobody else adds one.
LEMMA NoDuplicatesStep ==
  ASSUME TypeInv, NoDuplicateJobs, [Next]_vars
  PROVE  NoDuplicateJobs'
<1>1. /\ queue \in Seq(Job) /\ DOMAIN queue = 1..Len(queue) /\ Len(queue) \in Nat
      /\ adding \in Job \cup {None} /\ TypeOK
      /\ sorting => queue # <<>>
      /\ alive => current \in Job
  BY LenProperties DEF TypeInv, TypeOK, HandInv
<1>2. None \notin Job
  BY DownloadHandlerAssumption DEF Job
<1>3. missed \subseteq missed'
  BY <1>1, QueueSteps, CheckFacts DEF AddItem, RunBegin, RunPop, RunLaunch, ghosts
<1>4. SUFFICES ASSUME NEW p \in Place, p \notin missed', OneJob(p)
               PROVE  OneJob(p)'
  BY <1>3 DEF NoDuplicateJobs, OneJob
<1>5. CASE CheckPostprocess
  <2>1. UNCHANGED <<queue, sorting, popped, current, alive>>
    BY <1>5, CheckFacts
  <2>2. CASE UNCHANGED adding
    BY <1>4, <2>1, <2>2 DEF OneJob
  <2>3. CASE adding'.place # p
    BY <1>4, <2>1, <2>3 DEF OneJob
  <2>4. CASE ~UNCHANGED adding /\ adding'.place = p
    <3>1. /\ polled.place = p /\ Addable(p)
          /\ missed' = IF Unseen(p) THEN missed \cup {p} ELSE missed
      BY <1>5, <2>4, CheckFacts
    <3>2. ~Unseen(p)
      BY <1>4, <3>1
    <3>3. alive => current.place # p
      BY <1>1, <1>2, <3>1 DEF Addable
    <3> QED
      BY <1>4, <2>1, <3>2, <3>3 DEF OneJob, Unseen
  <2> QED
    BY <2>2, <2>3, <2>4
<1>6. CASE AddItem
  <2>1. /\ queue' = Append(queue, adding) /\ adding' = None /\ adding # None
        /\ UNCHANGED <<popped, current, alive>>
    BY <1>6 DEF AddItem
  <2>2. /\ DOMAIN queue' = 1..(Len(queue) + 1)
        /\ \A k \in 1..Len(queue) : queue'[k] = queue[k]
        /\ queue'[Len(queue) + 1] = adding
    BY <1>1, <2>1, AppendProperties
  <2>3. \A k \in DOMAIN queue' :
          \/ k \in DOMAIN queue /\ queue'[k] = queue[k]
          \/ k = Len(queue) + 1 /\ queue'[k] = adding
    BY <1>1, <2>2
  <2>4. CASE adding.place = p
    <3>1. /\ \A k \in DOMAIN queue : queue[k].place # p
          /\ popped # None => popped.place # p
          /\ alive => current.place # p
      BY <1>4, <2>1, <2>4 DEF OneJob
    <3>2. \A j, k \in DOMAIN queue' : queue'[j].place = p /\ queue'[k].place = p => j = k
      BY <2>3, <3>1
    <3> QED
      BY <2>1, <3>1, <3>2 DEF OneJob
  <2>5. CASE adding.place # p
    <3>1. \A k \in DOMAIN queue' : queue'[k].place = p
                                     => k \in DOMAIN queue /\ queue'[k] = queue[k]
      BY <2>3, <2>5
    <3> QED
      BY <1>4, <2>1, <3>1 DEF OneJob
  <2> QED
    BY <2>4, <2>5
<1>7. CASE RunBegin
  BY <1>4, <1>7 DEF RunBegin, OneJob
<1>8. CASE RunPop
  <2>1. /\ queue # <<>> /\ popped' = Head(queue) /\ queue' = Tail(queue)
        /\ UNCHANGED <<adding, current, alive>>
    BY <1>1, <1>8 DEF RunPop
  <2>2. /\ Head(queue) = queue[1] /\ 1 \in DOMAIN queue
        /\ DOMAIN Tail(queue) = 1..(Len(queue) - 1)
        /\ \A k \in 1..(Len(queue) - 1) : Tail(queue)[k] = queue[k + 1]
    BY <1>1, <2>1, HeadTailProperties, LenProperties, EmptySeq
  <2>3. \A k \in DOMAIN queue' :
          k + 1 \in DOMAIN queue /\ k + 1 # 1 /\ queue'[k] = queue[k + 1] /\ k \in Nat
    BY <1>1, <2>1, <2>2
  <2>4. \A j, k \in DOMAIN queue' : queue'[j].place = p /\ queue'[k].place = p => j = k
    <3>1. ASSUME NEW j \in DOMAIN queue', NEW k \in DOMAIN queue',
                 queue'[j].place = p, queue'[k].place = p
          PROVE  j = k
      <4>1. j + 1 = k + 1
        BY <1>4, <2>3, <3>1 DEF OneJob
      <4> QED
        BY <2>3, <4>1
    <3> QED
      BY <3>1
  <2>5. (\E k \in DOMAIN queue' : queue'[k].place = p)
          => popped'.place # p /\ (alive' => current'.place # p)
    <3>1. ASSUME NEW k \in DOMAIN queue', queue'[k].place = p
          PROVE  popped'.place # p /\ (alive' => current'.place # p)
      BY <1>4, <2>1, <2>2, <2>3, <3>1 DEF OneJob
    <3> QED
      BY <3>1
  <2>6. adding' # None /\ adding'.place = p
          => /\ \A k \in DOMAIN queue' : queue'[k].place # p
             /\ popped'.place # p
             /\ alive' => current'.place # p
    BY <1>4, <2>1, <2>2, <2>3 DEF OneJob
  <2> QED
    BY <2>4, <2>5, <2>6 DEF OneJob
<1>9. CASE RunLaunch
  BY <1>4, <1>9 DEF RunLaunch, OneJob
<1>10. CASE queue' = <<>> /\ popped' = None /\ alive' = FALSE /\ adding' = None
  BY <1>10 DEF OneJob
<1>11. CASE /\ UNCHANGED <<queue, sorting, popped, current>>
            /\ alive' \in {alive, FALSE} /\ adding' \in {adding, None}
  <2>1. alive' => alive
    <3>1. CASE alive' = alive
      BY <3>1
    <3>2. CASE alive' = FALSE
      BY <3>2
    <3> QED
      BY <1>11, <3>1, <3>2
  <2>2. UNCHANGED <<queue, popped, current>> /\ (adding' = adding \/ adding' = None)
    BY <1>11
  <2> QED
    BY <1>4, <2>1, <2>2 DEF OneJob
<1> QED
  BY <1>1, <1>5, <1>6, <1>7, <1>8, <1>9, <1>10, <1>11, QueueSteps

\* However often the handler finds the row of a finished download, one job of its
\* place waits, starts or runs, unless a check did not see the one that is held.
THEOREM NoDuplicates == Spec => []NoDuplicateJobs
<1>1. Init => NoDuplicateJobs
  BY NoDuplicatesInit
<1>2. TypeInv /\ NoDuplicateJobs /\ [Next]_vars => NoDuplicateJobs'
  BY NoDuplicatesStep
<1> QED
  BY <1>1, <1>2, TypeInvariant, PTL DEF Spec

-----------------------------------------------------------------------------
\* The statuses of one download

\* All that can happen to them in a step.
LEMMA StatusSteps ==
  ASSUME TypeInv, [Next]_vars, NEW d \in Download
  PROVE  \/ hist'[d] = hist[d]
         \/ hist'[d] = hist[d] \cup {{}}
         \/ /\ polled # None /\ d = polled.row.download /\ InPhase("update")
            /\ polled.answer \in Reports[d] /\ polled.answer # NotListed
            /\ hist'[d] = {polled.answer}
         \/ /\ acting # None /\ d = acting /\ acting' = None
            /\ hist'[d] = {{"SeededAction"}}
         \/ /\ polled # None /\ d = polled.row.download /\ InPhase("clean")
            /\ at' = at /\ acting' = acting
            /\ polled.row.status \in SUBSET Flags
            /\ StatusOK(polled.row.status) /\ "Removed" \notin polled.row.status
            /\ hist'[d] = {polled.row.status \cup {"Removed"}}
         \/ /\ alive /\ current.download = d
            /\ \E s \in {PPCompleted, PPFailed} :
                 hist'[d] = {s} /\ (s = PPCompleted => d \in imported')
<1>1. TypeOK
  BY DEF TypeInv
<1>2. CASE PhaseChange
  BY <1>1, <1>2, PhaseFacts
<1>3. CASE RowStep
  <2>1. CASE UNCHANGED hist
    BY <2>1
  <2>2. CASE /\ polled # None /\ polled.row \in Row /\ at # 0 /\ UpdateStatus
             /\ polled.answer \in Reports[polled.row.download] /\ polled.answer # NotListed
             /\ Save(polled.row.download, polled.answer)
    <3>1. polled.row.download \in Download
      BY <2>2 DEF Row
    <3>2. polled.answer \in SUBSET Flags /\ StatusOK(polled.answer)
      BY <2>2, <3>1, ReportFacts
    <3>3. hist'[d] = IF d = polled.row.download THEN {polled.answer} ELSE hist[d]
      BY <1>1, <2>2, <3>2, SaveFacts
    <3>4. InPhase("update")
      BY <2>2 DEF UpdateStatus
    <3> QED
      BY <2>2, <3>3, <3>4
  <2>3. CASE acting # None /\ SeedActionSaved /\ Save(acting, {"SeededAction"})
    <3>1. hist'[d] = IF d = acting THEN {{"SeededAction"}} ELSE hist[d]
      BY <1>1, <2>3, SaveFacts, FlagFacts
    <3>2. acting' = None
      BY <2>3 DEF SeedActionSaved
    <3> QED
      BY <2>3, <3>1, <3>2
  <2>4. CASE /\ polled # None /\ polled.row \in Row /\ at # 0 /\ Clean
             /\ StatusOK(polled.row.status) /\ "Removed" \notin polled.row.status
             /\ Save(polled.row.download, polled.row.status \cup {"Removed"})
    <3>1. polled.row.status \in SUBSET Flags
      BY <2>4 DEF Row
    <3>2. hist'[d] = IF d = polled.row.download THEN {polled.row.status \cup {"Removed"}}
                                                ELSE hist[d]
      BY <1>1, <2>4, <3>1, SaveFacts, RemovedFacts
    <3>3. InPhase("clean") /\ at' = at /\ acting' = acting
      BY <2>4 DEF Clean
    <3> QED
      BY <2>4, <3>1, <3>2, <3>3
  <2> QED
    BY <1>3, <2>1, <2>2, <2>3, <2>4, HandlerWrites
<1>4. CASE WorkerStep
  <2>1. ASSUME NEW s \in {PPCompleted, PPFailed},
               alive, current \in Job, current.download \in Download,
               Save(current.download, s),
               imported' = IF s = PPCompleted THEN imported \cup {current.download} ELSE imported
        PROVE  \/ hist'[d] = hist[d]
               \/ /\ alive /\ current.download = d
                  /\ hist'[d] = {s} /\ (s = PPCompleted => d \in imported')
    <3>1. hist'[d] = IF d = current.download THEN {s} ELSE hist[d]
      BY <1>1, <2>1, SaveFacts, FlagFacts
    <3> QED
      BY <2>1, <3>1
  <2>2. CASE UNCHANGED <<hist, imported>>
    BY <2>2
  <2> QED
    BY <1>4, <2>1, <2>2, WorkerWrites
<1>5. CASE Clients \/ Restart \/ UNCHANGED vars
  <2>1. ASSUME NEW e \in Download, hist' = [hist EXCEPT ![e] = @ \cup {{}}]
        PROVE  hist'[d] \in {hist[d], hist[d] \cup {{}}}
    BY <1>1, <2>1 DEF TypeOK
  <2> QED
    BY <1>1, <1>5, <2>1, ClientWrites
<1> QED
  BY <1>2, <1>3, <1>4, <1>5, NextCases

\* Nobody takes back that a download was reported finished or imported, and a
\* report that looks finished is noted.
LEMMA GhostSteps ==
  ASSUME TypeInv, [Next]_vars
  PROVE  /\ ended \subseteq ended' /\ imported \subseteq imported'
         /\ \A d \in Download :
              \/ report'[d] = report[d] \/ report'[d] = NotListed
              \/ report'[d] \in Finished => d \in ended'
<1>1. CASE PhaseChange
  BY <1>1, PhaseFacts DEF TypeInv
<1>2. CASE RowStep
  <2>1. UNCHANGED <<ended, imported>>
    BY <1>2 DEF RowStep, Poll, PollFails, UpdateStatus, CheckPostprocess, AddItem,
                SeedActionStarts, SeedActionSaved, Clean, ghosts
  <2>2. CASE SeedActionStarts
    <3>1. report \in [Download -> (SUBSET Flags) \cup {NotListed}]
      BY DEF TypeInv, TypeOK
    <3> QED
      BY <2>1, <2>2, <3>1 DEF SeedActionStarts
  <2>3. CASE ~SeedActionStarts
    <3>1. UNCHANGED report
      BY <1>2, <2>3 DEF RowStep, Poll, PollFails, UpdateStatus, CheckPostprocess, AddItem,
                        SeedActionSaved, Clean, clients
    <3> QED
      BY <2>1, <3>1
  <2> QED
    BY <2>2, <2>3
<1>3. CASE WorkerStep
  <2>1. UNCHANGED <<ended, report>>
    BY <1>3 DEF WorkerStep, QueueRun, RunBegin, RunPop, RunLaunch, Finishes, JobWrites,
                JobLeavesStatus, clients, ghosts
  <2>2. imported \subseteq imported'
    BY <1>3, WorkerWrites
  <2> QED
    BY <2>1, <2>2
<1>4. ASSUME NEW d \in Download, Reported(d)
      PROVE  /\ ended \subseteq ended' /\ imported \subseteq imported'
             /\ \A e \in Download :
                  report'[e] = report[e] \/ (report'[e] \in Finished => e \in ended')
  <2>1. report \in [Download -> (SUBSET Flags) \cup {NotListed}]
    BY DEF TypeInv, TypeOK
  <2> QED
    BY <1>4, <2>1 DEF Reported
<1>5. ASSUME NEW d \in Download, Forgotten(d)
      PROVE  /\ UNCHANGED <<ended, imported>>
             /\ \A e \in Download : report'[e] = report[e] \/ report'[e] = NotListed
  <2>1. report \in [Download -> (SUBSET Flags) \cup {NotListed}]
    BY DEF TypeInv, TypeOK
  <2> QED
    BY <1>5, <2>1 DEF Forgotten, ghosts
<1>6. CASE (\E d \in Download : Snatched(d)) \/ Restart \/ UNCHANGED vars
  BY <1>6 DEF Snatched, Restart, vars, ghosts, clients
<1> QED
  BY <1>1, <1>2, <1>3, <1>4, <1>5, <1>6, NextCases DEF Clients

-----------------------------------------------------------------------------
\* Jobs are for finished downloads

LEMMA EndedInit ==
  ASSUME Init
  PROVE  EndedInv
<1>1. \A d \in Download : report[d] = NotListed /\ \A s \in hist[d] : s = {}
  BY DEF Init
<1>2. {} \notin Finished
  BY DEF Finished
<1>3. queue = <<>> /\ at = 0 /\ polled = None /\ adding = None
  BY DEF Init
<1>4. JobsAreFinished
  BY <1>3 DEF JobsAreFinished
<1>5. \A d \in Download : report[d] = NotListed /\ \A s \in hist[d] : s \notin Finished
  BY <1>1, <1>2
<1> QED
  BY <1>3, <1>4, <1>5 DEF EndedInv

\* A row of the "check" phase was finished when it was selected: its download
\* ended, whatever the row holds by now.
LEMMA EndedStep ==
  ASSUME TypeInv, EndedInv, [Next]_vars
  PROVE  EndedInv'
<1>1. ended \subseteq ended' /\ TypeOK
  BY GhostSteps DEF TypeInv
<1>2. JobsAreFinished' /\ (adding' # None => adding'.download \in ended')
  <2>1. /\ \A k \in DOMAIN queue : \A d \in Download : queue[k].download = d => d \in ended
        /\ adding # None => adding.download \in ended
    BY DEF EndedInv, JobsAreFinished
  <2>2. /\ queue \in Seq(Job) /\ DOMAIN queue = 1..Len(queue) /\ Len(queue) \in Nat
        /\ adding \in Job \cup {None} /\ (sorting => queue # <<>>)
    BY LenProperties DEF TypeInv, TypeOK, HandInv
  <2>3. CASE CheckPostprocess
    <3>1. polled.row.download \in ended
      BY <2>3, CheckFacts DEF EndedInv, Held
    <3>2. UNCHANGED queue /\ (UNCHANGED adding \/ adding'.download = polled.row.download)
      BY <2>3, CheckFacts
    <3> QED
      BY <1>1, <2>1, <3>1, <3>2 DEF JobsAreFinished
  <2>4. CASE AddItem
    <3>1. adding \in Job /\ queue' = Append(queue, adding) /\ adding' = None /\ adding # None
      BY <2>2, <2>4 DEF AddItem
    <3>2. \A k \in DOMAIN queue' : \/ k \in DOMAIN queue /\ queue'[k] = queue[k]
                                   \/ queue'[k] = adding
      BY <2>2, <3>1, AppendProperties
    <3> QED
      BY <1>1, <2>1, <3>1, <3>2 DEF JobsAreFinished
  <2>5. CASE RunPop
    <3>1. queue # <<>> /\ queue' = Tail(queue) /\ adding' = adding
      BY <2>2, <2>5 DEF RunPop
    <3>2. \A k \in DOMAIN Tail(queue) : k + 1 \in DOMAIN queue /\ Tail(queue)[k] = queue[k + 1]
      BY <2>2, <3>1, HeadTailProperties, LenProperties
    <3> QED
      BY <1>1, <2>1, <3>1, <3>2 DEF JobsAreFinished
  <2>6. CASE queue' = <<>> /\ adding' = None
    BY <2>6 DEF JobsAreFinished
  <2>7. CASE UNCHANGED queue /\ adding' \in {adding, None}
    BY <1>1, <2>1, <2>7 DEF JobsAreFinished
  <2>8. CASE RunBegin \/ RunLaunch
    <3>1. UNCHANGED <<queue, adding>>
      BY <2>8 DEF RunBegin, RunLaunch
    <3> QED
      BY <2>7, <3>1
  <2> QED
    BY <1>1, <2>3, <2>4, <2>5, <2>6, <2>7, <2>8, QueueSteps
<1>3. ASSUME NEW d \in Download
      PROVE  /\ report'[d] # NotListed /\ report'[d] \in Finished => d \in ended'
             /\ \A s \in hist'[d] : s \in Finished => d \in ended'
  <2>1. /\ report[d] # NotListed /\ report[d] \in Finished => d \in ended
        /\ \A s \in hist[d] : s \in Finished => d \in ended
        /\ polled # None /\ polled.answer # NotListed /\ polled.answer \in Finished
             => polled.row.download \in ended
    BY DEF EndedInv
  <2>2. report'[d] # NotListed /\ report'[d] \in Finished => d \in ended'
    BY <1>1, <2>1, GhostSteps
  <2>3. ASSUME NEW s \in hist'[d], s \in Finished
        PROVE  d \in ended'
    <3>1. {} \notin Finished
      BY DEF Finished
    <3>2. \/ s \in hist[d]
          \/ /\ polled # None /\ d = polled.row.download
             /\ s = polled.answer /\ polled.answer # NotListed
          \/ s \notin Finished
      <4>1. ASSUME polled.row.status \in SUBSET Flags, StatusOK(polled.row.status),
                   "Removed" \notin polled.row.status,
                   hist'[d] = {polled.row.status \cup {"Removed"}}
            PROVE  s \notin Finished
        BY <2>3, <4>1, RemovedFacts
      <4>2. ASSUME hist'[d] = {{"SeededAction"}} \/ \E u \in {PPCompleted, PPFailed} : hist'[d] = {u}
            PROVE  s \notin Finished
        BY <2>3, <4>2, FlagFacts
      <4>3. \/ hist'[d] = hist[d]
            \/ hist'[d] = hist[d] \cup {{}}
            \/ /\ polled # None /\ d = polled.row.download
               /\ polled.answer # NotListed /\ hist'[d] = {polled.answer}
            \/ s \notin Finished
        BY <4>1, <4>2, StatusSteps
      <4> QED
        BY <2>3, <3>1, <4>3
    <3> QED
      BY <1>1, <2>1, <2>3, <3>2
  <2> QED
    BY <2>2, <2>3
<1>4. polled' # None /\ polled'.answer # NotListed /\ polled'.answer \in Finished
        => polled'.row.download \in ended'
  <2>1. ASSUME NEW r \in rows, Poll(r)
        PROVE  polled'.answer # NotListed /\ polled'.answer \in Finished
                 => polled'.row.download \in ended'
    <3>1. polled'.row = r /\ polled'.answer = report[r.download]
      BY <2>1 DEF Poll
    <3>2. r.download \in Download
      BY DEF TypeInv, TypeOK, Row
    <3> QED
      BY <1>1, <3>1, <3>2 DEF EndedInv
  <2>2. CASE polled' = polled
    BY <1>1, <2>2 DEF EndedInv
  <2> QED
    BY <2>1, <2>2, PolledSteps
<1>5. at' # 0 /\ Plan[at'][2] = "check" => \A r : Held(r)' => r.download \in ended'
  <2>1. CASE PhaseChange
    <3>1. ASSUME NEW r, Held(r)', Plan[at'][2] = "check"
          PROVE  r.download \in ended'
      <4>1. r \in Select(at')
        BY <1>1, <2>1, <3>1, PhaseFacts
      <4>2. r.download \in Download /\ r.status \in hist[r.download] /\ r.status \in Finished
        BY <1>1, <3>1, <4>1, SelectFacts, WantedFacts DEF Row
      <4> QED
        BY <1>1, <4>2 DEF EndedInv
    <3> QED
      BY <3>1
  <2>2. CASE ~PhaseChange
    <3>1. \A r : Held(r)' => Held(r) /\ at' = at
      BY <2>2, HeldFacts, NextCases
    <3> QED
      BY <1>1, <3>1 DEF EndedInv
  <2> QED
    BY <2>1, <2>2
<1> QED
  BY <1>2, <1>3, <1>4, <1>5 DEF EndedInv

\* A job is queued only for a download that its client reported as finished or
\* failed.
THEOREM OnlyFinished == Spec => []JobsAreFinished
<1>1. Init => EndedInv
  BY EndedInit
<1>2. TypeInv /\ EndedInv /\ [Next]_vars => EndedInv'
  BY EndedStep
<1>3. EndedInv => JobsAreFinished
  BY DEF EndedInv
<1> QED
  BY <1>1, <1>2, <1>3, TypeInvariant, PTL DEF Spec

-----------------------------------------------------------------------------
\* The seed action comes after the import

LEMMA ImportedInit ==
  ASSUME Init
  PROVE  ImportedInv
<1>1. at = 0 /\ \A d \in Download : \A s \in hist[d] : s # PPCompleted
  BY DEF Init, PPCompleted
<1> QED
  BY <1>1 DEF ImportedInv

\* Only a job that imported the download writes the status that the seed action
\* looks for: a client cannot report it and the other statuses differ.
LEMMA ImportedStep ==
  ASSUME TypeInv, ImportedInv, [Next]_vars
  PROVE  ImportedInv'
<1>1. imported \subseteq imported' /\ TypeOK
  BY GhostSteps DEF TypeInv
<1>2. ASSUME NEW d \in Download, PPCompleted \in hist'[d]
      PROVE  d \in imported'
  <2>1. PPCompleted # {}
    BY DEF PPCompleted
  <2>2. PPCompleted \in hist[d] \/ d \in imported'
    BY <1>2, <2>1, StatusSteps, ReportFacts, RemovedFacts, FlagFacts
  <2> QED
    BY <1>1, <2>2 DEF ImportedInv
<1>3. at' # 0 /\ Plan[at'][2] = "ratio" => \A r : Held(r)' => r.download \in imported'
  <2>1. CASE PhaseChange
    <3>1. ASSUME NEW r, Held(r)', Plan[at'][2] = "ratio"
          PROVE  r.download \in imported'
      <4>1. r \in Select(at')
        BY <1>1, <2>1, <3>1, PhaseFacts
      <4>2. r.download \in Download /\ r.status \in hist[r.download] /\ r.status = PPCompleted
        BY <1>1, <3>1, <4>1, SelectFacts, WantedFacts DEF Row
      <4> QED
        BY <1>1, <4>2 DEF ImportedInv
    <3> QED
      BY <3>1
  <2>2. CASE ~PhaseChange
    <3>1. \A r : Held(r)' => Held(r) /\ at' = at
      BY <2>2, HeldFacts, NextCases
    <3> QED
      BY <1>1, <3>1 DEF ImportedInv
  <2> QED
    BY <2>1, <2>2
<1> QED
  BY <1>2, <1>3 DEF ImportedInv

\* A torrent is acted on only in a row of the "ratio" phase, which goes on until the
\* action is saved.
LEMMA ActingSteps ==
  ASSUME TypeInv, [Next]_vars
  PROVE  \/ acting' = None
         \/ acting' = acting /\ at' = at
         \/ /\ InPhase("ratio") /\ acting' = polled.row.download
            /\ UNCHANGED <<hist, at>>
<1>1. CASE PhaseChange
  BY <1>1, PhaseFacts DEF TypeInv
<1>2. CASE RowStep
  <2>1. CASE SeedActionStarts
    BY <2>1 DEF SeedActionStarts, row
  <2> QED
    BY <1>2, <2>1 DEF RowStep, Poll, PollFails, UpdateStatus, CheckPostprocess, AddItem,
                      SeedActionSaved, Clean, handler
<1>3. CASE WorkerStep \/ Clients \/ UNCHANGED vars
  BY <1>3 DEF WorkerStep, QueueRun, RunBegin, RunPop, RunLaunch, Finishes, JobWrites,
              JobLeavesStatus, Clients, Reported, Forgotten, Snatched, handler, vars
<1>4. CASE Restart
  BY <1>4 DEF Restart
<1> QED
  BY <1>1, <1>2, <1>3, <1>4, NextCases

\* The torrent of a download is removed or paused only after a job completed it.
THEOREM SeedAfterImport == Spec => SeedActionOnlyAfterImport
<1>1. Init => ImportedInv
  BY ImportedInit
<1>2. TypeInv /\ ImportedInv /\ [Next]_vars => ImportedInv'
  BY ImportedStep
<1>3. TypeInv /\ ImportedInv /\ [Next]_vars
        => [acting' \notin {acting, None} => acting' \in imported]_vars
  <2>1. ASSUME TypeInv, ImportedInv, [Next]_vars, acting' \notin {acting, None}
        PROVE  acting' \in imported
    BY <2>1, ActingSteps DEF ImportedInv, InPhase, Held
  <2> QED
    BY <2>1
<1> QED
  BY <1>1, <1>2, <1>3, TypeInvariant, PTL DEF Spec, SeedActionOnlyAfterImport

-----------------------------------------------------------------------------
\* Removed rows

LEMMA RemovedInit ==
  ASSUME Init
  PROVE  RemovedInv
BY DEF Init, RemovedInv

\* Only the last phase makes a download go: every other write leaves a row of it that
\* is not removed.
LEMMA NotGoneStep ==
  ASSUME TypeInv, [Next]_vars, NEW d \in Download, ~Gone(d), Gone(d)'
  PROVE  InPhase("clean") /\ at' = at /\ acting' = acting
<1>1. ASSUME NEW s, "Removed" \notin s, s \in hist'[d]
      PROVE  FALSE
  BY <1>1 DEF Gone
<1>2. PICK u \in hist[d] : "Removed" \notin u
  BY DEF Gone
<1> QED
  BY <1>1, <1>2, StatusSteps, ReportFacts, FlagFacts

LEMMA RemovedStep ==
  ASSUME TypeInv, RemovedInv, [Next]_vars
  PROVE  RemovedInv'
<1>1. /\ \A r : Held(r) => r.download \in Download
      /\ acting \in Download \cup {None} /\ TypeOK
  BY DEF TypeInv, TypeOK, HandInv, Row
<1>2. at' # 0 /\ Plan[at'][2] # "clean" => \A r : Held(r)' => ~Gone(r.download)'
  <2>1. CASE PhaseChange
    <3>1. ASSUME NEW r, Held(r)'
          PROVE  ~Gone(r.download)'
      <4>1. r \in Select(at') /\ hist' = hist
        BY <1>1, <2>1, <3>1, PhaseFacts
      <4>2. r.status \in hist[r.download] /\ "Removed" \notin r.status
        BY <1>1, <4>1, SelectFacts
      <4> QED
        BY <4>1, <4>2 DEF Gone
    <3> QED
      BY <3>1
  <2>2. CASE ~PhaseChange
    <3>1. \A r : Held(r)' => Held(r) /\ at' = at
      BY <2>2, HeldFacts, NextCases
    <3>2. ASSUME at' # 0, Plan[at'][2] # "clean", NEW r, Held(r)'
          PROVE  ~Gone(r.download)'
      <4>1. ~Gone(r.download) /\ r.download \in Download /\ at' = at
        BY <1>1, <3>1, <3>2 DEF RemovedInv
      <4> QED
        BY <3>2, <4>1, NotGoneStep DEF InPhase
    <3> QED
      BY <3>2
  <2> QED
    BY <2>1, <2>2
<1>3. (acting # None => at # 0 /\ Plan[at][2] # "clean" /\ ~Gone(acting))'
  <2>1. CASE acting' = acting /\ at' = at /\ acting # None
    <3>1. at # 0 /\ Plan[at][2] # "clean" /\ ~Gone(acting) /\ acting \in Download
      BY <1>1, <2>1 DEF RemovedInv
    <3>2. ASSUME NEW d \in Download, ~Gone(d), d = acting
          PROVE  ~Gone(d)'
      BY <3>1, <3>2, NotGoneStep DEF InPhase
    <3>3. PICK d \in Download : d = acting
      BY <3>1
    <3>4. acting' = d /\ ~Gone(d)'
      BY <2>1, <3>1, <3>2, <3>3
    <3> QED
      BY <2>1, <3>1, <3>4 DEF Gone
  <2>2. CASE /\ InPhase("ratio") /\ acting' = polled.row.download
             /\ UNCHANGED <<hist, at>>
    <3>1. at # 0 /\ Plan[at][2] = "ratio" /\ ~Gone(polled.row.download)
      BY <2>2 DEF InPhase, RemovedInv, Held
    <3> QED
      BY <2>2, <3>1 DEF Gone
  <2>3. CASE acting' = None
    BY <2>3
  <2> QED
    BY <2>1, <2>2, <2>3, ActingSteps
<1> QED
  BY <1>2, <1>3 DEF RemovedInv

\* Once the rows of a download are removed only a job that was queued before, or a
\* snatch, writes one.
THEOREM RemovedStays == Spec => RemovedIsFinal
<1>1. Init => RemovedInv
  BY RemovedInit
<1>2. TypeInv /\ RemovedInv /\ [Next]_vars => RemovedInv'
  BY RemovedStep
<1>3. ASSUME TypeInv, RemovedInv, [Next]_vars, NEW d \in Download, Gone(d), ~Gone(d)'
      PROVE  (alive /\ current.download = d) \/ hist'[d] = hist[d] \cup {{}}
  <2>1. hist'[d] # hist[d]
    BY <1>3 DEF Gone
  <2>2. ~(polled # None /\ d = polled.row.download /\ InPhase("update"))
    BY <1>3 DEF RemovedInv, InPhase, Held
  <2>3. ~(acting # None /\ d = acting)
    BY <1>3 DEF RemovedInv
  <2>4. hist'[d] # {polled.row.status \cup {"Removed"}}
    BY <1>3 DEF Gone
  <2> QED
    BY <1>3, <2>1, <2>2, <2>3, <2>4, StatusSteps
<1>4. TypeInv /\ RemovedInv /\ [Next]_vars
        => [\A d \in Download :
              Gone(d) /\ ~Gone(d)'
                => (alive /\ current.download = d) \/ hist'[d] = hist[d] \cup {{}}]_vars
  BY <1>3
<1> QED
  BY <1>1, <1>2, <1>4, TypeInvariant, PTL DEF Spec, RemovedIsFinal
=============================================================================
