---------------------------- MODULE GenericQueue ----------------------------
(***************************************************************************)
(* medusa/queues/generic_queue.py: a priority queue of one-shot worker     *)
(* threads.  One scheduler thread calls run() every few seconds; any other *)
(* thread of the process (web handlers, searchers, workers of other        *)
(* queues) calls add_item() and the pause functions.                       *)
(*                                                                         *)
(* add_item() of the search and post-processing queues first looks for an  *)
(* equal item in the queue and only then takes the lock, so the look and   *)
(* the append are two steps here.  run() holds the lock from its first     *)
(* line to its last; what other threads can see of it without the lock     *)
(* (the list that Python empties while it sorts it, the item that is out   *)
(* of the queue and not yet the current item) is what splits it in steps.  *)
(***************************************************************************)
EXTENDS Integers, Sequences, Functions

CONSTANTS
  Item,        \* the QueueItem objects, each a thread that can start once
  Adder,       \* the threads that call add_item
  None,        \* Python's None
  PriorityOf,  \* item -> its priority
  Shadow,      \* item -> the items that, when queued, make add_item skip it
  MaxHistory,  \* max_history, the length of the fifo of started items
  Paused,      \* the minimum priority of a paused queue, 999999999999 in the code
  MaxTime,     \* bound on the clock that stamps item.added
  CanPause     \* whether pause, pause_backlog and unpause are called

LOW == 10
NORMAL == 20
HIGH == 30

ASSUME ItemAssumption ==
  /\ None \notin Item
  /\ PriorityOf \in [Item -> Nat]
  /\ Shadow \in [Item -> SUBSET Item]
  /\ MaxHistory \in Nat \ {0}
  /\ Paused \in Nat \ 0..HIGH
  /\ \A i \in Item : PriorityOf[i] < Paused
  /\ MaxTime \in Nat
  /\ CanPause \in BOOLEAN

VARIABLES
  queue,        \* GenericQueue.queue
  current,      \* GenericQueue.current_item
  history,      \* GenericQueue.history
  minPriority,  \* GenericQueue.min_priority
  run,          \* where the scheduler thread is in run(): it holds the lock unless "asleep"
  popped,       \* the item that run() took out of the queue and has not started
  life,         \* item -> the stage of its thread
  inProgress,   \* item -> QueueItem.inProgress
  added,        \* item -> QueueItem.added
  clock,        \* utcnow()
  adding        \* adder -> the item it passed as new and is about to append

vars == <<queue, current, history, minPriority, run, popped, life, inProgress,
          added, clock, adding>>

Stages == {"new", "offered", "skipped", "waiting", "started", "running",
           "leaving", "dead"}
Alive == {"started", "running", "leaving"}

TypeOK ==
  /\ queue \in Seq(Item)
  /\ current \in Item \cup {None}
  /\ history \in Seq(Item)
  /\ minPriority \in {0, HIGH, Paused}
  /\ run \in {"asleep", "sorting", "popping", "launching"}
  /\ popped \in Item \cup {None}
  /\ life \in [Item -> Stages]
  /\ inProgress \in [Item -> BOOLEAN]
  /\ added \in [Item -> Nat]
  /\ clock \in Nat
  /\ adding \in [Adder -> Item \cup {None}]

Init ==
  /\ queue = <<>>
  /\ current = None
  /\ history = <<>>
  /\ minPriority = 0
  /\ run = "asleep"
  /\ popped = None
  /\ life = [i \in Item |-> "new"]
  /\ inProgress = [i \in Item |-> FALSE]
  /\ added = [i \in Item |-> 0]
  /\ clock = 0
  /\ adding = [a \in Adder |-> None]

-----------------------------------------------------------------------------
\* Adding an item

\* What a thread without the lock finds when it iterates over the queue:
\* list.sort empties the list until it is done.
Visible == IF run = "sorting" THEN {} ELSE Range(queue)

\* is_in_queue and its variants, called by add_item before it takes the lock.
Offer(a, i) ==
  /\ adding[a] = None
  /\ life[i] = "new"
  /\ IF Shadow[i] \cap Visible = {}
       THEN /\ adding' = [adding EXCEPT ![a] = i]
            /\ life' = [life EXCEPT ![i] = "offered"]
       ELSE /\ life' = [life EXCEPT ![i] = "skipped"]
            /\ UNCHANGED adding
  /\ UNCHANGED <<queue, current, history, minPriority, run, popped, inProgress,
                 added, clock>>

\* GenericQueue.add_item: stamp and append under the lock.  Two items can get
\* the same stamp, and time passes between others.
AddItem(a) ==
  /\ run = "asleep"
  /\ adding[a] # None
  /\ clock' \in {t \in {clock, clock + 1} : t <= MaxTime}
  /\ added' = [added EXCEPT ![adding[a]] = clock']
  /\ queue' = Append(queue, adding[a])
  /\ life' = [life EXCEPT ![adding[a]] = "waiting"]
  /\ adding' = [adding EXCEPT ![a] = None]
  /\ UNCHANGED <<current, history, minPriority, run, popped, inProgress>>

-----------------------------------------------------------------------------
\* run(), called by the scheduler thread

\* Defect: the finished item is dropped without calling its finish().
ReapUnfinished ==
  /\ current' = None
  /\ UNCHANGED inProgress

\* The thread of the current item is gone, or there is none: clear it.
Reap ==
  /\ current' = None
  /\ inProgress' = IF current = None THEN inProgress
                                     ELSE [inProgress EXCEPT ![current] = FALSE]

\* Defect: the current thread is not looked at.
RunBeginAnyway ==
  /\ run = "asleep"
  /\ Reap
  /\ run' = IF queue = <<>> THEN "asleep" ELSE "sorting"
  /\ UNCHANGED <<queue, history, minPriority, popped, life, added, clock, adding>>

\* Defect: a current item counts as alive for ever.
RunBeginIfFree ==
  /\ run = "asleep"
  /\ current = None
  /\ Reap
  /\ run' = IF queue = <<>> THEN "asleep" ELSE "sorting"
  /\ UNCHANGED <<queue, history, minPriority, popped, life, added, clock, adding>>

\* Take the lock.  Nothing to do while the current thread is alive.
RunBegin ==
  /\ run = "asleep"
  /\ current # None => life[current] \notin Alive
  /\ Reap
  /\ run' = IF queue = <<>> THEN "asleep" ELSE "sorting"
  /\ UNCHANGED <<queue, history, minPriority, popped, life, added, clock, adding>>

\* Defect: the latest of the items of a priority comes first.
BeforeLatest(i, j) ==
  \/ PriorityOf[i] > PriorityOf[j]
  \/ PriorityOf[i] = PriorityOf[j] /\ added[i] > added[j]

\* sorter(x, y): priority descending, then time ascending.
Before(i, j) ==
  \/ PriorityOf[i] > PriorityOf[j]
  \/ PriorityOf[i] = PriorityOf[j] /\ added[i] < added[j]

\* s is the list q after list.sort, which is stable.
SortOf(s, q) ==
  \E p \in Bijection(DOMAIN q, DOMAIN q) :
    /\ s = [k \in DOMAIN q |-> q[p[k]]]
    /\ \A j, k \in DOMAIN q :
         j < k => Before(s[j], s[k]) \/ (~Before(s[k], s[j]) /\ p[j] < p[k])

Arrangements == {[k \in DOMAIN queue |-> queue[p[k]]] :
                   p \in Bijection(DOMAIN queue, DOMAIN queue)}

\* Sort, then leave if the first item is below the minimum priority.
RunSort ==
  /\ run = "sorting"
  /\ queue' \in Arrangements
  /\ SortOf(queue', queue)
  /\ run' = IF PriorityOf[queue'[1]] < minPriority THEN "asleep" ELSE "popping"
  /\ UNCHANGED <<current, history, minPriority, popped, life, inProgress, added,
                 clock, adding>>

\* Defect: pop() for pop(0).
RunPopLast ==
  /\ run = "popping"
  /\ popped' = queue[Len(queue)]
  /\ queue' = SubSeq(queue, 1, Len(queue) - 1)
  /\ run' = "launching"
  /\ UNCHANGED <<current, history, minPriority, life, inProgress, added, clock,
                 adding>>

\* Defect: the item stays in the queue.
RunPeek ==
  /\ run = "popping"
  /\ popped' = Head(queue)
  /\ run' = "launching"
  /\ UNCHANGED <<queue, current, history, minPriority, life, inProgress, added,
                 clock, adding>>

RunPop ==
  /\ run = "popping"
  /\ popped' = Head(queue)
  /\ queue' = Tail(queue)
  /\ run' = "launching"
  /\ UNCHANGED <<current, history, minPriority, life, inProgress, added, clock,
                 adding>>

\* Defect: off by one.
FifoOneMore(list, i) ==
  Append(IF Len(list) > MaxHistory THEN Tail(list) ELSE list, i)

\* fifo(): drop the oldest entry of a full list, append the new one.
Fifo(list, i) ==
  Append(IF Len(list) >= MaxHistory THEN Tail(list) ELSE list, i)

\* Defect: the thread is not started.
RunLaunchNoStart ==
  /\ run = "launching"
  /\ current' = popped
  /\ history' = Fifo(history, popped)
  /\ popped' = None
  /\ run' = "asleep"
  /\ UNCHANGED <<queue, minPriority, life, inProgress, added, clock, adding>>

\* Make the item current, start its thread, note it in the history, unlock.
RunLaunch ==
  /\ run = "launching"
  /\ current' = popped
  /\ life' = [life EXCEPT ![popped] = "started"]
  /\ history' = Fifo(history, popped)
  /\ popped' = None
  /\ run' = "asleep"
  /\ UNCHANGED <<queue, minPriority, inProgress, added, clock, adding>>

-----------------------------------------------------------------------------
\* The worker thread of an item: QueueItem.run, the work, QueueItem.finish

WorkBegin(i) ==
  /\ life[i] = "started"
  /\ life' = [life EXCEPT ![i] = "running"]
  /\ inProgress' = [inProgress EXCEPT ![i] = TRUE]
  /\ UNCHANGED <<queue, current, history, minPriority, run, popped, added, clock,
                 adding>>

WorkFinish(i) ==
  /\ life[i] = "running"
  /\ life' = [life EXCEPT ![i] = "leaving"]
  /\ inProgress' = [inProgress EXCEPT ![i] = FALSE]
  /\ UNCHANGED <<queue, current, history, minPriority, run, popped, added, clock,
                 adding>>

\* The thread ends.  From "running" it does so without having called finish(): an
\* exception left run(), or run() returned early as several items do.
WorkExit(i) ==
  /\ life[i] \in {"running", "leaving"}
  /\ life' = [life EXCEPT ![i] = "dead"]
  /\ UNCHANGED <<queue, current, history, minPriority, run, popped, inProgress,
                 added, clock, adding>>

-----------------------------------------------------------------------------
\* pause, SearchQueue.pause_backlog and unpause: assignments without the lock.

\* Defect: the new minimum is added to the old one.
RaiseMinPriority(p) ==
  /\ CanPause
  /\ minPriority # p
  /\ minPriority' = minPriority + p
  /\ UNCHANGED <<queue, current, history, run, popped, life, inProgress, added,
                 clock, adding>>

SetMinPriority(p) ==
  /\ CanPause
  /\ minPriority # p
  /\ minPriority' = p
  /\ UNCHANGED <<queue, current, history, run, popped, life, inProgress, added,
                 clock, adding>>

Pause == SetMinPriority(Paused)
PauseBacklog == SetMinPriority(HIGH)
Unpause == SetMinPriority(0)

-----------------------------------------------------------------------------
Run == RunBegin \/ RunSort \/ RunPop \/ RunLaunch
Work(i) == WorkBegin(i) \/ WorkFinish(i) \/ WorkExit(i)

Next ==
  \/ \E a \in Adder, i \in Item : Offer(a, i)
  \/ \E a \in Adder : AddItem(a)
  \/ RunBegin
  \/ RunSort
  \/ RunPop
  \/ RunLaunch
  \/ \E i \in Item : WorkBegin(i)
  \/ \E i \in Item : WorkFinish(i)
  \/ \E i \in Item : WorkExit(i)
  \/ Pause
  \/ PauseBacklog
  \/ Unpause

Spec == Init /\ [][Next]_vars

(***************************************************************************)
(* The scheduler thread wakes up every cycle, an adder that passed the     *)
(* test appends once the lock is free (run() never keeps it), and the jobs *)
(* terminate.                                                              *)
(***************************************************************************)
Fairness ==
  /\ WF_vars(Run)
  /\ \A a \in Adder : SF_vars(AddItem(a))
  /\ \A i \in Item : WF_vars(Work(i))

FairSpec == Spec /\ Fairness

-----------------------------------------------------------------------------
\* Properties

Running == {i \in Item : life[i] \in Alive}

\* A queue runs one job at a time, and it is the one current_item shows to the
\* rest of the program: run() never starts a thread while another is alive,
\* and never forgets one that is.
OneJobAtATime ==
  \A i \in Running : i = current

\* An accepted item is in exactly one place until it starts: once in the queue,
\* or in the hands of run().  None is lost by the pop, the sort or an early
\* return, and none is started twice (Thread.start would raise in the scheduler).
NothingLostOrDuplicated ==
  /\ \A j, k \in DOMAIN queue : queue[j] = queue[k] => j = k
  /\ popped \notin Range(queue)
  /\ \A i \in Item : life[i] = "waiting" <=> i \in Range(queue) \cup {popped}

\* Items of one priority stay in the order of arrival in every state, although
\* run() sorts the list again and again, also when it then leaves because of
\* the minimum priority.
ArrivalOrderKept ==
  \A j, k \in DOMAIN queue :
    j < k /\ PriorityOf[queue[j]] = PriorityOf[queue[k]]
      => added[queue[j]] <= added[queue[k]]

\* Whatever its thread did, an item that was reaped does not count as in progress
\* any more in the lists that the web interface shows.
ReapedNotInProgress ==
  \A i \in Item : inProgress[i] => i = current /\ life[i] # "leaving"

\* history lists the last started items: the newest is the current or the
\* last job, none appears twice, and it has started.
HistoryIsStarted ==
  /\ Len(history) <= MaxHistory
  /\ \A j, k \in DOMAIN history : history[j] = history[k] => j = k
  /\ \A k \in DOMAIN history : life[history[k]] \in Alive \cup {"dead"}
  /\ current # None => history # <<>> /\ history[Len(history)] = current

Starts(i) == life[i] \notin Alive /\ life'[i] \in Alive

\* No job starts while an item of a higher priority, or an older one of its
\* own, is in the queue.
StartsInOrder ==
  [][\A i \in Item : Starts(i) =>
       \A j \in Range(queue) :
         /\ PriorityOf[j] <= PriorityOf[i]
         /\ PriorityOf[j] = PriorityOf[i] => added[i] <= added[j]]_vars

\* The view of a queue that the rest of the program relies on.
PlaceOf(stage) ==
  IF stage \in {"new", "offered", "skipped"} THEN "out"
  ELSE IF stage \in Alive THEN "active"
  ELSE IF stage = "dead" THEN "done"
  ELSE "waiting"

Places == [i \in Item |-> PlaceOf(life[i])]

JQ == INSTANCE JobQueue WITH place <- Places, arrived <- added

\* Whatever the threads interleave, the queue behaves as JobQueue: one job at a
\* time, accepted once and run once, by priority and then by age.
ImplementsJobQueue == JQ!Spec

\* Unless the queue stays paused, every accepted item runs.
EveryItemRuns ==
  \A i \in Item :
    <>[](minPriority = 0) => ((life[i] = "waiting") ~> (life[i] = "dead"))

\* A finished job does not stay the current item: is_running and its variants,
\* which read current_item, tell the truth again after the next run().
CurrentItemIsCleared ==
  \A i \in Item : (current = i /\ life[i] = "dead") ~> (current # i)

\* "Item already in the queue, skipping" (search/queue.py:117): no item is queued
\* beside one that should have made add_item skip it.
NoShadowedItemQueued ==
  \A j, k \in DOMAIN queue : j < k => queue[j] \notin Shadow[queue[k]]
=============================================================================
