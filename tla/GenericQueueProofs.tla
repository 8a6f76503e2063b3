------------------------- MODULE GenericQueueProofs -------------------------
(***************************************************************************)
(* Proofs about GenericQueue, for every set of items and adders, every     *)
(* priority and every relation Shadow.                                     *)
(*                                                                         *)
(* The inductive invariant is built in two layers.  PlaceInv says where    *)
(* each item is: the type invariant, what the position of the scheduler    *)
(* thread in run() says about the other variables (RunInv), what an adder  *)
(* holds (OfferInv), and the properties OneJobAtATime and                  *)
(* NothingLostOrDuplicated, which need each other.  OrderInv, on top of    *)
(* it, says in which order run() finds the queue; with ArrivalOrderKept it *)
(* yields the order in which the jobs start.  Both are what the refinement *)
(* of JobQueue at the end needs.                                           *)
(***************************************************************************)
EXTENDS GenericQueue, SequenceTheorems, TLAPS

RunInv ==
  /\ popped # None <=> run = "launching"
  /\ run # "asleep" => current = None
  /\ run \in {"sorting", "popping"} => queue # <<>>

OfferInv ==
  /\ \A a \in Adder : adding[a] # None => life[adding[a]] = "offered"
  /\ \A a, b \in Adder : adding[a] # None /\ adding[a] = adding[b] => a = b

\* The order in which run() will find or has found the queue.
OrderInv ==
  /\ \A k \in DOMAIN queue : added[queue[k]] <= clock
  /\ run = "popping" => \A k \in DOMAIN queue : ~Before(queue[k], queue[1])
  /\ run = "launching" => \A k \in DOMAIN queue : ~Before(queue[k], popped)

-----------------------------------------------------------------------------
\* The sequence operators of the model

\* Append adds one position at the end.
LEMMA AppendFacts ==
  ASSUME NEW S, NEW s \in Seq(S), NEW e \in S
  PROVE  /\ Append(s, e) \in Seq(S)
         /\ Len(s) \in Nat
         /\ DOMAIN s = 1..Len(s)
         /\ DOMAIN Append(s, e) = 1..(Len(s) + 1)
         /\ \A k \in 1..Len(s) : Append(s, e)[k] = s[k]
         /\ Append(s, e)[Len(s) + 1] = e
         /\ Range(Append(s, e)) = Range(s) \cup {e}
<1>1. /\ Append(s, e) \in Seq(S)
      /\ Len(s) \in Nat
      /\ DOMAIN s = 1..Len(s)
      /\ DOMAIN Append(s, e) = 1..(Len(s) + 1)
      /\ \A k \in 1..Len(s) : Append(s, e)[k] = s[k]
      /\ Append(s, e)[Len(s) + 1] = e
  BY AppendProperties, LenProperties
<1>2. Range(Append(s, e)) = Range(s) \cup {e}
  BY <1>1 DEF Range
<1> QED
  BY <1>1, <1>2

\* Tail drops the first position.
LEMMA TailFacts ==
  ASSUME NEW S, NEW s \in Seq(S), s # <<>>
  PROVE  /\ Head(s) = s[1]
         /\ Head(s) \in S
         /\ Tail(s) \in Seq(S)
         /\ Len(s) \in Nat \ {0}
         /\ DOMAIN s = 1..Len(s)
         /\ DOMAIN Tail(s) = 1..(Len(s) - 1)
         /\ \A k \in 1..(Len(s) - 1) : Tail(s)[k] = s[k + 1]
         /\ Range(s) = Range(Tail(s)) \cup {Head(s)}
<1>1. /\ Head(s) = s[1]
      /\ Head(s) \in S
      /\ Tail(s) \in Seq(S)
      /\ Len(s) \in Nat \ {0}
      /\ DOMAIN s = 1..Len(s)
      /\ DOMAIN Tail(s) = 1..(Len(s) - 1)
      /\ \A k \in 1..(Len(s) - 1) : Tail(s)[k] = s[k + 1]
  BY HeadTailProperties, LenProperties, EmptySeq
<1>2. ASSUME NEW k \in 1..Len(s)
      PROVE  s[k] \in Range(Tail(s)) \cup {Head(s)}
  <2>1. CASE k = 1
    BY <1>1, <2>1
  <2>2. CASE k # 1
    <3>1. k - 1 \in DOMAIN Tail(s) /\ Tail(s)[k - 1] = s[k]
      BY <1>1, <2>2
    <3> QED
      BY <3>1 DEF Range
  <2> QED
    BY <2>1, <2>2
<1>3. ASSUME NEW k \in DOMAIN Tail(s)
      PROVE  Tail(s)[k] \in Range(s)
  BY <1>1 DEF Range
<1>4. Head(s) \in Range(s)
  BY <1>1 DEF Range
<1> QED
  BY <1>1, <1>2, <1>3, <1>4 DEF Range

\* What list.sort returns is the same items in another order, and sorted: no
\* item comes before its first one, equal items keep their order.
LEMMA SortFacts ==
  ASSUME NEW S, NEW q \in Seq(S), NEW s, SortOf(s, q)
  PROVE  /\ s \in Seq(S)
         /\ Len(s) = Len(q)
         /\ DOMAIN s = DOMAIN q
         /\ Range(s) = Range(q)
         /\ IsInjective(q) => IsInjective(s)
         /\ \A j, k \in DOMAIN q :
              j < k => Before(s[j], s[k]) \/ ~Before(s[k], s[j])
<1>1. PICK p \in Bijection(DOMAIN q, DOMAIN q) :
        /\ s = [k \in DOMAIN q |-> q[p[k]]]
        /\ \A j, k \in DOMAIN q :
             j < k => Before(s[j], s[k]) \/ (~Before(s[k], s[j]) /\ p[j] < p[k])
  BY DEF SortOf
<1>2. /\ p \in [DOMAIN q -> DOMAIN q]
      /\ \A j, k \in DOMAIN q : p[j] = p[k] => j = k
      /\ \A k \in DOMAIN q : \E j \in DOMAIN q : p[j] = k
  BY DEF Bijection, Injection, Surjection, IsInjective
<1>3. DOMAIN q = 1..Len(q) /\ Len(q) \in Nat /\ q \in [DOMAIN q -> S]
  BY LenProperties
<1>4. s \in [1..Len(q) -> S] /\ DOMAIN s = DOMAIN q
  BY <1>1, <1>2, <1>3
<1>5. s \in Seq(S) /\ Len(s) = Len(q)
  BY <1>3, <1>4, SeqDef
<1>6. Range(s) = Range(q)
  BY <1>1, <1>2 DEF Range
<1>7. IsInjective(q) => IsInjective(s)
  BY <1>1, <1>2 DEF IsInjective
<1> QED
  BY <1>1, <1>4, <1>5, <1>6, <1>7

-----------------------------------------------------------------------------
\* Where an item is: the part of the invariant that the others rest on

PlaceInv ==
  /\ TypeOK
  /\ RunInv
  /\ OfferInv
  /\ OneJobAtATime
  /\ NothingLostOrDuplicated

LEMMA PlaceInit == Init => PlaceInv
<1> SUFFICES ASSUME Init PROVE PlaceInv
  OBVIOUS
<1> USE ItemAssumption DEF Init
<1>1. TypeOK
  BY EmptySeq DEF TypeOK, Stages
<1>2. Range(queue) = {}
  BY DEF Range
<1>3. NothingLostOrDuplicated
  BY <1>2 DEF NothingLostOrDuplicated
<1>4. RunInv /\ OfferInv /\ OneJobAtATime
  BY DEF RunInv, OfferInv, OneJobAtATime, Running, Alive
<1> QED
  BY <1>1, <1>3, <1>4 DEF PlaceInv

LEMMA PlaceOffer ==
  ASSUME PlaceInv, NEW a \in Adder, NEW i \in Item, Offer(a, i)
  PROVE  PlaceInv'
<1> USE ItemAssumption DEF PlaceInv
<1>1. /\ queue' = queue /\ current' = current /\ history' = history
      /\ minPriority' = minPriority /\ run' = run /\ popped' = popped
      /\ inProgress' = inProgress /\ added' = added /\ clock' = clock
      /\ adding[a] = None
      /\ life[i] = "new"
  BY DEF Offer
<1>2. \/ /\ adding' = [adding EXCEPT ![a] = i]
         /\ life' = [life EXCEPT ![i] = "offered"]
      \/ /\ adding' = adding
         /\ life' = [life EXCEPT ![i] = "skipped"]
  BY DEF Offer
<1>3. /\ life' \in [Item -> Stages]
      /\ life'[i] \in {"offered", "skipped"}
      /\ \A j \in Item : j # i => life'[j] = life[j]
  BY <1>2 DEF TypeOK, Stages
<1>4. adding' \in [Adder -> Item \cup {None}]
  BY <1>2 DEF TypeOK
<1>5. TypeOK'
  BY <1>1, <1>3, <1>4 DEF TypeOK
<1>6. RunInv'
  BY <1>1 DEF RunInv
<1>7. OfferInv'
  <2>1. \A b \in Adder : adding[b] # i
    BY <1>1 DEF OfferInv
  <2>2. CASE adding' = adding
    BY <1>3, <2>1, <2>2 DEF OfferInv, TypeOK
  <2>3. CASE /\ adding' = [adding EXCEPT ![a] = i]
             /\ life' = [life EXCEPT ![i] = "offered"]
    <3>1. /\ adding'[a] = i /\ life'[i] = "offered"
          /\ \A b \in Adder : b # a => adding'[b] = adding[b]
      BY <2>3 DEF TypeOK
    <3>2. ASSUME NEW b \in Adder, adding'[b] # None
          PROVE  life'[adding'[b]] = "offered"
      <4>1. CASE b = a
        BY <3>1, <4>1
      <4>2. CASE b # a
        <5>1. adding[b] \in Item /\ life[adding[b]] = "offered"
          BY <3>1, <3>2, <4>2 DEF OfferInv, TypeOK
        <5> QED
          BY <1>3, <2>1, <3>1, <4>2, <5>1
      <4> QED
        BY <4>1, <4>2
    <3>3. ASSUME NEW b \in Adder, NEW c \in Adder,
                 adding'[b] # None, adding'[b] = adding'[c]
          PROVE  b = c
      BY <2>1, <3>1, <3>3 DEF OfferInv
    <3> QED
      BY <3>2, <3>3 DEF OfferInv
  <2> QED
    BY <1>2, <2>2, <2>3
<1>8. OneJobAtATime'
  BY <1>1, <1>3 DEF OneJobAtATime, Running, Alive
<1>9. NothingLostOrDuplicated'
  BY <1>1, <1>3 DEF NothingLostOrDuplicated
<1> QED
  BY <1>5, <1>6, <1>7, <1>8, <1>9

LEMMA PlaceAddItem ==
  ASSUME PlaceInv, NEW a \in Adder, AddItem(a)
  PROVE  PlaceInv'
<1> DEFINE i == adding[a]
<1> USE ItemAssumption DEF PlaceInv
<1>1. i \in Item /\ life[i] = "offered" /\ queue \in Seq(Item)
  BY DEF AddItem, TypeOK, OfferInv
<1>2. queue' = Append(queue, i)
  BY DEF AddItem
<1>3. /\ queue' \in Seq(Item)
      /\ Len(queue) \in Nat
      /\ DOMAIN queue = 1..Len(queue)
      /\ DOMAIN queue' = 1..(Len(queue) + 1)
      /\ \A k \in 1..Len(queue) : queue'[k] = queue[k]
      /\ queue'[Len(queue) + 1] = i
      /\ Range(queue') = Range(queue) \cup {i}
  BY <1>1, <1>2, AppendFacts
<1>4. clock' \in Nat
  BY DEF AddItem, TypeOK
<1>5. TypeOK'
  BY <1>1, <1>3, <1>4 DEF AddItem, TypeOK, Stages
<1>6. /\ life'[i] = "waiting"
      /\ \A j \in Item : j # i => life'[j] = life[j]
  BY <1>1 DEF AddItem, TypeOK
<1>7. popped = None /\ i \notin Range(queue)
  BY <1>1 DEF AddItem, RunInv, NothingLostOrDuplicated
<1>8. RunInv'
  BY DEF AddItem, RunInv
<1>9. OfferInv'
  BY <1>1, <1>6 DEF AddItem, OfferInv, TypeOK
<1>10. OneJobAtATime'
  BY <1>1, <1>6 DEF AddItem, OneJobAtATime, Running, Alive
<1>11. NothingLostOrDuplicated'
  <2>1. ASSUME NEW j \in DOMAIN queue', NEW k \in DOMAIN queue', queue'[j] = queue'[k]
        PROVE  j = k
    <3>1. ASSUME NEW n \in 1..Len(queue) PROVE queue[n] # i
      BY <1>3, <1>7 DEF Range
    <3> QED
      BY <1>3, <2>1, <3>1 DEF NothingLostOrDuplicated
  <2>2. popped' = None /\ None \notin Range(queue')
    BY <1>3, <1>7, RangeOfSeq DEF AddItem
  <2>3. \A j \in Item : life'[j] = "waiting" <=> j \in Range(queue') \cup {popped'}
    BY <1>1, <1>3, <1>6, <1>7 DEF AddItem, NothingLostOrDuplicated
  <2> QED
    BY <2>1, <2>2, <2>3 DEF NothingLostOrDuplicated
<1> QED
  BY <1>5, <1>8, <1>9, <1>10, <1>11

LEMMA PlaceRunBegin ==
  ASSUME PlaceInv, RunBegin
  PROVE  PlaceInv'
<1> USE ItemAssumption DEF PlaceInv, RunBegin, Reap
<1>1. TypeOK'
  BY DEF TypeOK
<1>2. RunInv'
  BY DEF RunInv
<1>3. OfferInv'
  BY DEF OfferInv
<1>4. Running = {}
  BY DEF OneJobAtATime, Running
<1>5. OneJobAtATime'
  BY <1>4 DEF OneJobAtATime, Running
<1>6. NothingLostOrDuplicated'
  BY DEF NothingLostOrDuplicated
<1> QED
  BY <1>1, <1>2, <1>3, <1>5, <1>6

LEMMA PlaceRunSort ==
  ASSUME PlaceInv, RunSort
  PROVE  PlaceInv'
<1> USE ItemAssumption DEF PlaceInv
<1>1. /\ queue' \in Seq(Item)
      /\ Len(queue') = Len(queue)
      /\ Range(queue') = Range(queue)
      /\ IsInjective(queue) => IsInjective(queue')
  BY SortFacts DEF RunSort, TypeOK
<1>2. TypeOK'
  BY <1>1 DEF RunSort, TypeOK
<1>3. queue' # <<>>
  <2>1. queue # <<>> /\ queue \in Seq(Item)
    BY DEF RunSort, RunInv, TypeOK
  <2> QED
    BY <1>1, <2>1, EmptySeq
<1>4. RunInv'
  BY <1>3 DEF RunSort, RunInv
<1>5. NothingLostOrDuplicated'
  BY <1>1 DEF RunSort, NothingLostOrDuplicated, IsInjective
<1>6. OfferInv' /\ OneJobAtATime'
  BY DEF RunSort, OfferInv, OneJobAtATime, Running
<1> QED
  BY <1>2, <1>4, <1>5, <1>6

LEMMA PlaceRunPop ==
  ASSUME PlaceInv, RunPop
  PROVE  PlaceInv'
<1> USE ItemAssumption DEF PlaceInv
<1>1. queue \in Seq(Item) /\ queue # <<>> /\ popped = None /\ current = None
  BY DEF RunPop, TypeOK, RunInv
<1>2. /\ queue' = Tail(queue)
      /\ popped' = queue[1]
      /\ popped' \in Item
      /\ queue' \in Seq(Item)
      /\ Len(queue) \in Nat \ {0}
      /\ DOMAIN queue = 1..Len(queue)
      /\ DOMAIN queue' = 1..(Len(queue) - 1)
      /\ \A k \in 1..(Len(queue) - 1) : queue'[k] = queue[k + 1]
      /\ Range(queue) = Range(queue') \cup {popped'}
  BY <1>1, TailFacts DEF RunPop
<1>3. TypeOK'
  BY <1>2 DEF RunPop, TypeOK
<1>4. RunInv'
  BY <1>1, <1>2 DEF RunPop, RunInv
<1>5. OfferInv' /\ OneJobAtATime'
  BY DEF RunPop, OfferInv, OneJobAtATime, Running
<1>6. NothingLostOrDuplicated'
  <2>1. ASSUME NEW j \in DOMAIN queue', NEW k \in DOMAIN queue', queue'[j] = queue'[k]
        PROVE  j = k
    BY <1>2, <2>1 DEF NothingLostOrDuplicated
  <2>2. ASSUME NEW k \in DOMAIN queue'
        PROVE  queue'[k] # popped'
    <3>1. /\ k + 1 \in DOMAIN queue
          /\ 1 \in DOMAIN queue
          /\ k + 1 # 1
          /\ queue'[k] = queue[k + 1]
          /\ popped' = queue[1]
      BY <1>2
    <3> QED
      BY <3>1 DEF NothingLostOrDuplicated
  <2>3. popped' \notin Range(queue')
    BY <2>2 DEF Range
  <2>4. \A j \in Item : life'[j] = "waiting" <=> j \in Range(queue') \cup {popped'}
    BY <1>1, <1>2 DEF RunPop, NothingLostOrDuplicated
  <2> QED
    BY <2>1, <2>3, <2>4 DEF NothingLostOrDuplicated
<1> QED
  BY <1>3, <1>4, <1>5, <1>6

LEMMA PlaceRunLaunch ==
  ASSUME PlaceInv, RunLaunch
  PROVE  PlaceInv'
<1> USE ItemAssumption DEF PlaceInv
<1>1. popped \in Item /\ current = None /\ life[popped] = "waiting"
  BY DEF RunLaunch, TypeOK, RunInv, NothingLostOrDuplicated
<1>2. history' \in Seq(Item)
  <2>1. CASE Len(history) >= MaxHistory
    <3>1. history # <<>>
      BY <2>1, EmptySeq
    <3> QED
      BY <1>1, <2>1, <3>1, TailFacts, AppendFacts DEF RunLaunch, Fifo, TypeOK
  <2>2. CASE ~(Len(history) >= MaxHistory)
    BY <1>1, <2>2, AppendFacts DEF RunLaunch, Fifo, TypeOK
  <2> QED
    BY <2>1, <2>2
<1>3. TypeOK'
  BY <1>1, <1>2 DEF RunLaunch, TypeOK, Stages
<1>4. RunInv'
  BY DEF RunLaunch, RunInv
<1>5. /\ life'[popped] = "started"
      /\ \A j \in Item : j # popped => life'[j] = life[j]
  BY <1>1 DEF RunLaunch, TypeOK
<1>6. OfferInv'
  BY <1>1, <1>5 DEF RunLaunch, OfferInv, TypeOK
<1>7. OneJobAtATime'
  BY <1>1, <1>5 DEF RunLaunch, OneJobAtATime, Running, Alive
<1>8. None \notin Range(queue)
  BY RangeOfSeq DEF TypeOK
<1>9. NothingLostOrDuplicated'
  BY <1>1, <1>5, <1>8 DEF RunLaunch, NothingLostOrDuplicated
<1> QED
  BY <1>3, <1>4, <1>6, <1>7, <1>9

LEMMA PlaceWork ==
  ASSUME PlaceInv, NEW i \in Item, Work(i)
  PROVE  PlaceInv'
<1> USE ItemAssumption DEF PlaceInv, Work, WorkBegin, WorkFinish, WorkExit
<1>1. TypeOK'
  BY DEF TypeOK, Stages
<1>2. /\ life[i] \in Alive
      /\ life'[i] \in Alive \cup {"dead"}
      /\ \A j \in Item : j # i => life'[j] = life[j]
  BY DEF TypeOK, Alive
<1>3. RunInv'
  BY DEF RunInv
<1>4. OfferInv'
  BY <1>2 DEF OfferInv, Alive, TypeOK
<1>5. OneJobAtATime'
  BY <1>2 DEF OneJobAtATime, Running
<1>6. NothingLostOrDuplicated'
  BY <1>2 DEF NothingLostOrDuplicated, Alive
<1> QED
  BY <1>1, <1>3, <1>4, <1>5, <1>6

LEMMA PlaceSetMinPriority ==
  ASSUME PlaceInv, NEW p \in {0, HIGH, Paused}, SetMinPriority(p)
  PROVE  PlaceInv'
BY DEF PlaceInv, SetMinPriority, TypeOK, RunInv, OfferInv, OneJobAtATime,
       Running, NothingLostOrDuplicated

LEMMA PlaceStutter ==
  ASSUME PlaceInv, UNCHANGED vars
  PROVE  PlaceInv'
BY DEF PlaceInv, vars, TypeOK, RunInv, OfferInv, OneJobAtATime, Running,
       NothingLostOrDuplicated

LEMMA PlaceNext ==
  ASSUME PlaceInv, [Next]_vars
  PROVE  PlaceInv'
BY PlaceOffer, PlaceAddItem, PlaceRunBegin, PlaceRunSort, PlaceRunPop,
   PlaceRunLaunch, PlaceWork, PlaceSetMinPriority, PlaceStutter
   DEF Next, Work, Pause, PauseBacklog, Unpause

\* Every variable keeps its type, whatever the adders, the jobs and the
\* pauses do.
THEOREM TypeCorrect == Spec => []TypeOK
<1>1. Spec => []PlaceInv
  BY PlaceInit, PlaceNext, PTL DEF Spec
<1>2. PlaceInv => TypeOK
  BY DEF PlaceInv
<1> QED
  BY <1>1, <1>2, PTL

\* A queue never has two live threads, and current_item is the live one.
THEOREM OneJob == Spec => []OneJobAtATime
<1>1. Spec => []PlaceInv
  BY PlaceInit, PlaceNext, PTL DEF Spec
<1>2. PlaceInv => OneJobAtATime
  BY DEF PlaceInv
<1> QED
  BY <1>1, <1>2, PTL

\* An accepted item is in the queue once or in the hands of run() until its
\* thread starts.
THEOREM NothingLost == Spec => []NothingLostOrDuplicated
<1>1. Spec => []PlaceInv
  BY PlaceInit, PlaceNext, PTL DEF Spec
<1>2. PlaceInv => NothingLostOrDuplicated
  BY DEF PlaceInv
<1> QED
  BY <1>1, <1>2, PTL

-----------------------------------------------------------------------------
\* The order of the starts

LEMMA OrderInit == Init => OrderInv /\ ArrivalOrderKept
BY DEF Init, OrderInv, ArrivalOrderKept

LEMMA OrderAddItem ==
  ASSUME PlaceInv, OrderInv, ArrivalOrderKept, NEW a \in Adder, AddItem(a)
  PROVE  OrderInv' /\ ArrivalOrderKept'
<1> DEFINE i == adding[a]
<1> USE ItemAssumption DEF PlaceInv
<1>1. i \in Item /\ life[i] = "offered" /\ queue \in Seq(Item)
  BY DEF AddItem, TypeOK, OfferInv
<1>2. /\ Len(queue) \in Nat
      /\ DOMAIN queue = 1..Len(queue)
      /\ DOMAIN queue' = 1..(Len(queue) + 1)
      /\ \A k \in 1..Len(queue) : queue'[k] = queue[k]
      /\ queue'[Len(queue) + 1] = i
  BY <1>1, AppendFacts DEF AddItem
<1>3. popped = None /\ i \notin Range(queue)
  BY <1>1 DEF AddItem, RunInv, NothingLostOrDuplicated
<1>4. /\ clock \in Nat /\ clock' \in Nat /\ clock <= clock'
      /\ added'[i] = clock'
      /\ \A j \in Item : j # i => added'[j] = added[j]
      /\ \A j \in Item : added[j] \in Nat
  BY <1>1 DEF AddItem, TypeOK
<1>5. \A k \in 1..Len(queue) : queue[k] \in Item /\ queue[k] # i
  BY <1>1, <1>2, <1>3, ElementOfSeq DEF Range
<1>6. \A k \in 1..Len(queue) : added'[queue[k]] = added[queue[k]]
  BY <1>4, <1>5
<1>7. \A k \in 1..Len(queue) : added[queue[k]] <= clock
  BY <1>2 DEF OrderInv
<1>8. \A k \in 1..Len(queue) : added'[queue[k]] <= clock'
  BY <1>4, <1>5, <1>6, <1>7
<1>9. \A k \in DOMAIN queue' : added'[queue'[k]] <= clock'
  BY <1>2, <1>4, <1>8
<1>10. run' = "asleep"
  BY DEF AddItem
<1>11. OrderInv'
  BY <1>9, <1>10 DEF OrderInv
<1>12. ASSUME NEW j \in DOMAIN queue', NEW k \in DOMAIN queue', j < k,
              PriorityOf[queue'[j]] = PriorityOf[queue'[k]]
       PROVE  added'[queue'[j]] <= added'[queue'[k]]
  <2>1. CASE k \in 1..Len(queue)
    <3>1. /\ j \in DOMAIN queue /\ k \in DOMAIN queue
          /\ queue'[j] = queue[j] /\ queue'[k] = queue[k]
      BY <1>2, <1>12, <2>1
    <3>2. added[queue[j]] <= added[queue[k]]
      BY <1>12, <3>1 DEF ArrivalOrderKept
    <3> QED
      BY <1>2, <1>6, <3>1, <3>2
  <2>2. CASE k = Len(queue) + 1
    BY <1>2, <1>4, <1>9, <2>2
  <2> QED
    BY <1>2, <2>1, <2>2
<1>13. ArrivalOrderKept'
  BY <1>12 DEF ArrivalOrderKept
<1> QED
  BY <1>11, <1>13

LEMMA OrderRunSort ==
  ASSUME PlaceInv, OrderInv, ArrivalOrderKept, RunSort
  PROVE  OrderInv' /\ ArrivalOrderKept'
<1> USE ItemAssumption DEF PlaceInv
<1>1. /\ queue \in Seq(Item)
      /\ queue' \in Seq(Item)
      /\ DOMAIN queue' = DOMAIN queue
      /\ Range(queue') = Range(queue)
      /\ \A j, k \in DOMAIN queue :
           j < k => Before(queue'[j], queue'[k]) \/ ~Before(queue'[k], queue'[j])
  BY SortFacts DEF RunSort, TypeOK
<1>2. \A k \in DOMAIN queue' :
        /\ queue'[k] \in Item
        /\ PriorityOf[queue'[k]] \in Nat
        /\ added[queue'[k]] \in Nat
  BY <1>1, ElementOfSeq, LenProperties DEF TypeOK
<1>3. ASSUME NEW j \in DOMAIN queue', NEW k \in DOMAIN queue', j < k
      PROVE  ~Before(queue'[k], queue'[j])
  <2>1. Before(queue'[j], queue'[k]) \/ ~Before(queue'[k], queue'[j])
    BY <1>1, <1>3
  <2>2. Before(queue'[j], queue'[k]) => ~Before(queue'[k], queue'[j])
    BY <1>2 DEF Before
  <2> QED
    BY <2>1, <2>2
<1>4. added' = added /\ clock' = clock /\ clock \in Nat
  BY DEF RunSort, TypeOK
<1>5. ASSUME NEW k \in DOMAIN queue'
      PROVE  added[queue'[k]] <= clock
  <2>1. queue'[k] \in Range(queue)
    BY <1>1 DEF Range
  <2>2. PICK j \in DOMAIN queue : queue[j] = queue'[k]
    BY <2>1 DEF Range
  <2> QED
    BY <2>2 DEF OrderInv
<1>6. ASSUME NEW k \in DOMAIN queue'
      PROVE  ~Before(queue'[k], queue'[1])
  <2>1. k \in Nat /\ k >= 1 /\ 1 \in DOMAIN queue'
    BY <1>1, LenProperties
  <2>2. CASE k = 1
    BY <1>2, <2>1, <2>2 DEF Before
  <2>3. CASE k # 1
    BY <1>3, <2>1, <2>3
  <2> QED
    BY <2>2, <2>3
<1>7. run' # "launching"
  BY DEF RunSort
<1>8. OrderInv'
  BY <1>4, <1>5, <1>6, <1>7 DEF OrderInv, Before
<1>9. ArrivalOrderKept'
  BY <1>2, <1>3, <1>4 DEF ArrivalOrderKept, Before
<1> QED
  BY <1>8, <1>9

LEMMA OrderRunPop ==
  ASSUME PlaceInv, OrderInv, ArrivalOrderKept, RunPop
  PROVE  OrderInv' /\ ArrivalOrderKept'
<1> USE ItemAssumption DEF PlaceInv
<1>1. /\ popped' = queue[1]
      /\ Len(queue) \in Nat \ {0}
      /\ DOMAIN queue = 1..Len(queue)
      /\ DOMAIN queue' = 1..(Len(queue) - 1)
      /\ \A k \in 1..(Len(queue) - 1) : queue'[k] = queue[k + 1]
  BY TailFacts DEF RunPop, TypeOK, RunInv
<1>2. added' = added /\ clock' = clock /\ run = "popping" /\ run' = "launching"
  BY DEF RunPop
<1>3. \A k \in DOMAIN queue' : k + 1 \in DOMAIN queue /\ queue'[k] = queue[k + 1]
  BY <1>1
<1>4. OrderInv'
  BY <1>1, <1>2, <1>3 DEF OrderInv, Before
<1>5. ASSUME NEW j \in DOMAIN queue', NEW k \in DOMAIN queue', j < k,
             PriorityOf[queue'[j]] = PriorityOf[queue'[k]]
      PROVE  added'[queue'[j]] <= added'[queue'[k]]
  <2>1. j + 1 < k + 1
    BY <1>1, <1>5
  <2> QED
    BY <1>2, <1>3, <1>5, <2>1 DEF ArrivalOrderKept
<1> QED
  BY <1>4, <1>5 DEF ArrivalOrderKept

LEMMA OrderNext ==
  ASSUME PlaceInv, OrderInv, ArrivalOrderKept, [Next]_vars
  PROVE  OrderInv' /\ ArrivalOrderKept'
<1>1. ASSUME UNCHANGED <<queue, added, clock>>,
             run' # run => run' \notin {"popping", "launching"},
             popped' # popped => run' # "launching"
      PROVE  OrderInv' /\ ArrivalOrderKept'
  BY <1>1 DEF OrderInv, ArrivalOrderKept, Before
<1>2. ASSUME NEW a \in Adder, NEW i \in Item, Offer(a, i)
      PROVE  OrderInv' /\ ArrivalOrderKept'
  BY <1>1, <1>2 DEF Offer
<1>3. CASE RunBegin
  BY <1>1, <1>3 DEF RunBegin
<1>4. CASE RunLaunch
  BY <1>1, <1>4 DEF RunLaunch
<1>5. ASSUME NEW i \in Item, Work(i)
      PROVE  OrderInv' /\ ArrivalOrderKept'
  BY <1>1, <1>5 DEF Work, WorkBegin, WorkFinish, WorkExit
<1>6. CASE Pause \/ PauseBacklog \/ Unpause
  BY <1>1, <1>6 DEF Pause, PauseBacklog, Unpause, SetMinPriority
<1>7. CASE UNCHANGED vars
  BY <1>1, <1>7 DEF vars
<1> QED
  BY <1>2, <1>3, <1>4, <1>5, <1>6, <1>7, OrderAddItem, OrderRunSort, OrderRunPop
     DEF Next, Work

\* Sorting again and again, and leaving after the sort, never turns two items
\* of one priority round.
THEOREM ArrivalOrder == Spec => []ArrivalOrderKept
<1>1. Init => PlaceInv /\ OrderInv /\ ArrivalOrderKept
  BY PlaceInit, OrderInit
<1>2. PlaceInv /\ OrderInv /\ ArrivalOrderKept /\ [Next]_vars
        => PlaceInv' /\ OrderInv' /\ ArrivalOrderKept'
  BY PlaceNext, OrderNext
<1> QED
  BY <1>1, <1>2, PTL DEF Spec

\* No step starts a job while a more urgent one, or an older one as urgent, is
\* queued: the lock that run() keeps between the sort and the start is enough.
THEOREM StartOrder == Spec => StartsInOrder
<1> DEFINE InOrder == \A i \in Item : Starts(i) =>
             \A j \in Range(queue) :
               /\ PriorityOf[j] <= PriorityOf[i]
               /\ PriorityOf[j] = PriorityOf[i] => added[i] <= added[j]
<1>1. Init => PlaceInv /\ OrderInv /\ ArrivalOrderKept
  BY PlaceInit, OrderInit
<1>2. PlaceInv /\ OrderInv /\ ArrivalOrderKept /\ [Next]_vars
        => PlaceInv' /\ OrderInv' /\ ArrivalOrderKept'
  BY PlaceNext, OrderNext
<1>3. PlaceInv /\ OrderInv /\ [Next]_vars => [InOrder]_vars
  <2> SUFFICES ASSUME PlaceInv, OrderInv, Next, NEW i \in Item, Starts(i),
                      NEW j \in Range(queue)
               PROVE  /\ PriorityOf[j] <= PriorityOf[i]
                      /\ PriorityOf[j] = PriorityOf[i] => added[i] <= added[j]
    OBVIOUS
  <2> USE ItemAssumption DEF PlaceInv
  <2>1. RunLaunch /\ i = popped
    <3>1. ASSUME NEW a \in Adder, NEW n \in Item, Offer(a, n) PROVE FALSE
      BY <3>1 DEF Offer, Starts, Alive, TypeOK
    <3>2. ASSUME NEW a \in Adder, AddItem(a) PROVE FALSE
      BY <3>2 DEF AddItem, Starts, Alive, TypeOK
    <3>3. ASSUME NEW n \in Item, Work(n) PROVE FALSE
      BY <3>3 DEF Work, WorkBegin, WorkFinish, WorkExit, Starts, Alive, TypeOK
    <3>4. ASSUME life' = life PROVE FALSE
      BY <3>4 DEF Starts
    <3>5. RunLaunch
      BY <3>1, <3>2, <3>3, <3>4
         DEF Next, Work, RunBegin, RunSort, RunPop, Pause, PauseBacklog, Unpause,
             SetMinPriority
    <3> QED
      BY <3>5 DEF RunLaunch, Starts, Alive, TypeOK
  <2>2. PICK k \in DOMAIN queue : queue[k] = j
    BY DEF Range
  <2>3. ~Before(j, i)
    BY <2>1, <2>2 DEF RunLaunch, OrderInv
  <2>4. j \in Item /\ PriorityOf[j] \in Nat /\ PriorityOf[i] \in Nat
        /\ added[i] \in Nat /\ added[j] \in Nat
    BY RangeOfSeq DEF TypeOK
  <2> QED
    BY <2>3, <2>4 DEF Before
<1>4. Spec => [][InOrder]_vars
  BY <1>1, <1>2, <1>3, PTL DEF Spec
<1> QED
  BY <1>4 DEF StartsInOrder

-----------------------------------------------------------------------------
\* What the web interface reads: inProgress and the history

LEMMA ReapedNext ==
  ASSUME PlaceInv, ReapedNotInProgress, [Next]_vars
  PROVE  ReapedNotInProgress'
<1> USE ItemAssumption DEF PlaceInv
<1>1. ASSUME NEW a \in Adder, NEW i \in Item, Offer(a, i)
      PROVE  ReapedNotInProgress'
  <2>1. \A j \in Item : j # i => life'[j] = life[j]
    BY <1>1 DEF Offer, TypeOK
  <2>2. life'[i] # "leaving"
    BY <1>1 DEF Offer, TypeOK
  <2> QED
    BY <1>1, <2>1, <2>2 DEF Offer, ReapedNotInProgress
<1>2. ASSUME NEW a \in Adder, AddItem(a)
      PROVE  ReapedNotInProgress'
  BY <1>2 DEF AddItem, ReapedNotInProgress, TypeOK
<1>3. CASE RunBegin
  <2>1. \A i \in Item : ~inProgress'[i]
    BY <1>3 DEF RunBegin, Reap, ReapedNotInProgress, TypeOK
  <2> QED
    BY <2>1 DEF ReapedNotInProgress
<1>4. CASE RunSort \/ RunPop \/ Pause \/ PauseBacklog \/ Unpause \/ UNCHANGED vars
  BY <1>4 DEF RunSort, RunPop, Pause, PauseBacklog, Unpause, SetMinPriority, vars,
              ReapedNotInProgress
<1>5. CASE RunLaunch
  <2>1. current = None
    BY <1>5 DEF RunLaunch, RunInv
  <2>2. \A i \in Item : ~inProgress[i]
    BY <2>1 DEF ReapedNotInProgress
  <2> QED
    BY <1>5, <2>2 DEF RunLaunch, ReapedNotInProgress
<1>6. ASSUME NEW i \in Item, Work(i)
      PROVE  ReapedNotInProgress'
  <2>1. i = current /\ current' = current
    BY <1>6 DEF Work, WorkBegin, WorkFinish, WorkExit, OneJobAtATime, Running, Alive
  <2>2. \A j \in Item : j # i => ~inProgress[j] /\ inProgress'[j] = inProgress[j]
    BY <1>6, <2>1
       DEF Work, WorkBegin, WorkFinish, WorkExit, ReapedNotInProgress, TypeOK
  <2>3. inProgress'[i] => life'[i] # "leaving"
    BY <1>6 DEF Work, WorkBegin, WorkFinish, WorkExit, ReapedNotInProgress, TypeOK
  <2> QED
    BY <2>1, <2>2, <2>3 DEF ReapedNotInProgress
<1> QED
  BY <1>1, <1>2, <1>3, <1>4, <1>5, <1>6 DEF Next, Work

\* A job whose thread died without finish() is shown as in progress only while
\* it is the current item; run() clears the flag when it reaps it.
THEOREM Reaped == Spec => []ReapedNotInProgress
<1>1. Init => PlaceInv /\ ReapedNotInProgress
  BY PlaceInit DEF Init, ReapedNotInProgress
<1>2. PlaceInv /\ ReapedNotInProgress /\ [Next]_vars
        => PlaceInv' /\ ReapedNotInProgress'
  BY PlaceNext, ReapedNext
<1> QED
  BY <1>1, <1>2, PTL DEF Spec

LEMMA HistoryRunLaunch ==
  ASSUME PlaceInv, HistoryIsStarted, RunLaunch
  PROVE  HistoryIsStarted'
<1> USE ItemAssumption DEF PlaceInv
<1> DEFINE old == IF Len(history) >= MaxHistory THEN Tail(history) ELSE history
<1>1. popped \in Item /\ life[popped] = "waiting" /\ history \in Seq(Item)
  BY DEF RunLaunch, TypeOK, RunInv, NothingLostOrDuplicated
<1>2. /\ old \in Seq(Item)
      /\ Len(old) < MaxHistory
      /\ Len(old) \in Nat
      /\ DOMAIN old = 1..Len(old)
      /\ \A j, k \in DOMAIN old : old[j] = old[k] => j = k
      /\ \A k \in DOMAIN old : old[k] \in Item /\ life[old[k]] \in Alive \cup {"dead"}
  <2>1. /\ Len(history) \in Nat
        /\ Len(history) <= MaxHistory
        /\ DOMAIN history = 1..Len(history)
        /\ \A k \in DOMAIN history : history[k] \in Item
    BY <1>1, LenProperties, ElementOfSeq DEF HistoryIsStarted
  <2>2. CASE Len(history) >= MaxHistory
    <3>1. history # <<>>
      BY <2>1, <2>2, EmptySeq
    <3>2. /\ old \in Seq(Item)
          /\ DOMAIN old = 1..(Len(history) - 1)
          /\ \A k \in 1..(Len(history) - 1) : old[k] = history[k + 1]
      BY <1>1, <2>2, <3>1, TailFacts
    <3>3. Len(old) = Len(history) - 1
      BY <1>1, <2>2, <3>1, HeadTailProperties
    <3> HIDE DEF old
    <3>4. \A k \in DOMAIN old : k + 1 \in DOMAIN history /\ old[k] = history[k + 1]
      BY <2>1, <3>2
    <3>5. \A j, k \in DOMAIN old : old[j] = old[k] => j = k
      <4> SUFFICES ASSUME NEW j \in DOMAIN old, NEW k \in DOMAIN old, old[j] = old[k]
                   PROVE  j = k
        OBVIOUS
      <4>1. j + 1 = k + 1
        BY <3>4 DEF HistoryIsStarted
      <4> QED
        BY <3>2, <4>1
    <3>6. \A k \in DOMAIN old : old[k] \in Item /\ life[old[k]] \in Alive \cup {"dead"}
      BY <2>1, <3>4 DEF HistoryIsStarted
    <3>7. Len(history) # 0
      BY <1>1, <3>1, EmptySeq
    <3>8. Len(old) \in Nat /\ Len(old) < MaxHistory
      BY <2>1, <3>3, <3>7
    <3>9. DOMAIN old = 1..Len(old)
      BY <3>2, <3>3
    <3> QED
      BY <3>2, <3>5, <3>6, <3>8, <3>9
  <2>3. CASE ~(Len(history) >= MaxHistory)
    BY <1>1, <2>1, <2>3 DEF HistoryIsStarted
  <2> QED
    BY <2>2, <2>3
<1>3. history' = Append(old, popped)
  BY DEF RunLaunch, Fifo
<1> HIDE DEF old
<1>4. /\ Len(history') = Len(old) + 1
      /\ DOMAIN history' = 1..(Len(old) + 1)
      /\ \A k \in 1..Len(old) : history'[k] = old[k]
      /\ history'[Len(old) + 1] = popped
      /\ history' # <<>>
  BY <1>1, <1>2, <1>3, AppendFacts, AppendProperties
<1>5. life'[popped] = "started" /\ \A j \in Item : j # popped => life'[j] = life[j]
  BY <1>1 DEF RunLaunch, TypeOK
<1>6. \A k \in 1..Len(old) : old[k] # popped
  BY <1>1, <1>2 DEF Alive
<1>7. ASSUME NEW k \in DOMAIN history'
      PROVE  life'[history'[k]] \in Alive \cup {"dead"}
  <2>1. CASE k \in 1..Len(old)
    BY <1>2, <1>4, <1>5, <1>6, <2>1
  <2>2. CASE k = Len(old) + 1
    BY <1>4, <1>5, <2>2 DEF Alive
  <2> QED
    BY <1>2, <1>4, <2>1, <2>2
<1>8. ASSUME NEW j \in DOMAIN history', NEW k \in DOMAIN history', history'[j] = history'[k]
      PROVE  j = k
  <2>1. j \in 1..Len(old) \/ j = Len(old) + 1
    BY <1>2, <1>4
  <2>2. k \in 1..Len(old) \/ k = Len(old) + 1
    BY <1>2, <1>4
  <2>3. CASE j \in 1..Len(old) /\ k \in 1..Len(old)
    BY <1>2, <1>4, <1>8, <2>3
  <2>4. CASE j = Len(old) + 1 /\ k \in 1..Len(old)
    BY <1>4, <1>6, <1>8, <2>4
  <2>5. CASE j \in 1..Len(old) /\ k = Len(old) + 1
    BY <1>4, <1>6, <1>8, <2>5
  <2> QED
    BY <2>1, <2>2, <2>3, <2>4, <2>5
<1>9. Len(history') <= MaxHistory
  BY <1>2, <1>4
<1>10. current' = popped
  BY DEF RunLaunch
<1> QED
  BY <1>4, <1>7, <1>8, <1>9, <1>10 DEF HistoryIsStarted

LEMMA HistoryNext ==
  ASSUME PlaceInv, HistoryIsStarted, [Next]_vars
  PROVE  HistoryIsStarted'
<1> USE ItemAssumption DEF PlaceInv
<1>1. \A k \in DOMAIN history : history[k] \in Item
  BY ElementOfSeq, LenProperties DEF TypeOK
<1>2. ASSUME UNCHANGED history, current' \in {current, None},
             \A i \in Item : life[i] \in Alive \cup {"dead"}
                             => life'[i] \in Alive \cup {"dead"}
      PROVE  HistoryIsStarted'
  BY <1>1, <1>2 DEF HistoryIsStarted
<1>3. ASSUME NEW a \in Adder, NEW i \in Item, Offer(a, i)
      PROVE  HistoryIsStarted'
  BY <1>2, <1>3 DEF Offer, Alive, TypeOK
<1>4. ASSUME NEW a \in Adder, AddItem(a)
      PROVE  HistoryIsStarted'
  <2>1. life[adding[a]] = "offered" /\ adding[a] \in Item
    BY <1>4 DEF AddItem, OfferInv, TypeOK
  <2> QED
    BY <1>2, <1>4, <2>1 DEF AddItem, Alive, TypeOK
<1>5. CASE RunBegin
  BY <1>2, <1>5 DEF RunBegin, Reap
<1>6. CASE RunSort \/ RunPop
  BY <1>2, <1>6 DEF RunSort, RunPop
<1>7. ASSUME NEW i \in Item, Work(i)
      PROVE  HistoryIsStarted'
  BY <1>2, <1>7 DEF Work, WorkBegin, WorkFinish, WorkExit, Alive, TypeOK
<1>8. CASE Pause \/ PauseBacklog \/ Unpause
  BY <1>2, <1>8 DEF Pause, PauseBacklog, Unpause, SetMinPriority
<1>9. CASE UNCHANGED vars
  BY <1>2, <1>9 DEF vars
<1> QED
  BY <1>3, <1>4, <1>5, <1>6, <1>7, <1>8, <1>9, HistoryRunLaunch DEF Next, Work

\* The history never outgrows its bound, lists no item twice and none that did not
\* start, and its newest entry is the current item.
THEOREM History == Spec => []HistoryIsStarted
<1>1. Init => PlaceInv /\ HistoryIsStarted
  BY PlaceInit, EmptySeq, ItemAssumption DEF Init, HistoryIsStarted
<1>2. PlaceInv /\ HistoryIsStarted /\ [Next]_vars => PlaceInv' /\ HistoryIsStarted'
  BY PlaceNext, HistoryNext
<1> QED
  BY <1>1, <1>2, PTL DEF Spec

-----------------------------------------------------------------------------
(***************************************************************************)
(* GenericQueue implements JobQueue.  A step of the queue that changes the *)
(* place of an item is a step of JobQueue about that item; all others are  *)
(* stutters.  Only two need the invariant: appending (no stamp in the      *)
(* queue is later than the clock) and starting (nothing runs, and nothing  *)
(* in the queue comes before the item in hand).                            *)
(***************************************************************************)

\* What JobQueue sees of a stage of an item.
LEMMA StageFacts ==
  ASSUME NEW stage \in Stages
  PROVE  /\ PlaceOf(stage) = "out" <=> stage \in {"new", "offered", "skipped"}
         /\ PlaceOf(stage) = "waiting" <=> stage = "waiting"
         /\ PlaceOf(stage) = "active" <=> stage \in Alive
         /\ PlaceOf(stage) = "done" <=> stage = "dead"
  BY DEF PlaceOf, Stages, Alive

LEMMA PlaceFacts ==
  ASSUME TypeOK, NEW i \in Item
  PROVE  /\ Places[i] = "out" <=> life[i] \in {"new", "offered", "skipped"}
         /\ Places[i] = "waiting" <=> life[i] = "waiting"
         /\ Places[i] = "active" <=> life[i] \in Alive
         /\ Places[i] = "done" <=> life[i] = "dead"
  BY StageFacts DEF TypeOK, Places

\* An action that moves one item moves it for JobQueue too, and no other.
LEMMA PlaceChange ==
  ASSUME NEW i \in Item, NEW s, life \in [Item -> Stages],
         life' = [life EXCEPT ![i] = s]
  PROVE  Places' = [Places EXCEPT ![i] = PlaceOf(s)]
  BY DEF Places

LEMMA RefineAddItem ==
  ASSUME PlaceInv, OrderInv, NEW a \in Adder, AddItem(a)
  PROVE  JQ!Next
<1> USE ItemAssumption DEF PlaceInv
<1> DEFINE i == adding[a]
<1>1. i \in Item /\ life[i] = "offered"
  BY DEF AddItem, OfferInv, TypeOK
<1>2. Places' = [Places EXCEPT ![i] = "waiting"]
  <2>1. PlaceOf("waiting") = "waiting"
    BY StageFacts DEF Stages
  <2> QED
    BY <1>1, <2>1, PlaceChange DEF AddItem, TypeOK
<1>3. Places[i] = "out"
  BY <1>1, PlaceFacts
<1>4. clock' >= clock /\ clock \in Nat /\ clock' \in Nat
  BY DEF AddItem, TypeOK
<1>5. added' = [added EXCEPT ![i] = added'[i]] /\ added'[i] = clock'
  BY <1>1 DEF AddItem, TypeOK
<1>6. ASSUME NEW j \in Item, Places[j] = "waiting"
      PROVE  added[j] <= added'[i]
  <2>1. j \in Range(queue)
    BY <1>6, PlaceFacts DEF NothingLostOrDuplicated, RunInv, AddItem
  <2>2. PICK k \in DOMAIN queue : queue[k] = j
    BY <2>1 DEF Range
  <2>3. added[j] <= clock /\ added[j] \in Nat
    BY <2>2 DEF OrderInv, TypeOK
  <2> QED
    BY <1>4, <1>5, <2>3
<1>7. JQ!Accept(i)
  BY <1>2, <1>3, <1>5, <1>6 DEF JQ!Accept
<1> QED
  BY <1>1, <1>7 DEF JQ!Next

LEMMA RefineRunLaunch ==
  ASSUME PlaceInv, OrderInv, RunLaunch
  PROVE  JQ!Next
<1> USE ItemAssumption DEF PlaceInv
<1>1. popped \in Item /\ life[popped] = "waiting" /\ current = None
  BY DEF RunLaunch, RunInv, NothingLostOrDuplicated, TypeOK
<1>2. Places' = [Places EXCEPT ![popped] = "active"]
  <2>1. PlaceOf("started") = "active"
    BY StageFacts DEF Stages, Alive
  <2> QED
    BY <1>1, <2>1, PlaceChange DEF RunLaunch, TypeOK
<1>3. Places[popped] = "waiting"
  BY <1>1, PlaceFacts
<1>4. ASSUME NEW j \in Item
      PROVE  Places[j] # "active"
  BY <1>1, PlaceFacts DEF OneJobAtATime, Running
<1>5. ASSUME NEW j \in Item, Places[j] = "waiting"
      PROVE  JQ!Precedes(popped, j)
  <2>1. j \in Range(queue) \cup {popped}
    BY <1>5, PlaceFacts DEF NothingLostOrDuplicated
  <2>2. /\ PriorityOf[j] \in Nat /\ PriorityOf[popped] \in Nat
        /\ added[j] \in Nat /\ added[popped] \in Nat
    BY <1>1 DEF TypeOK
  <2>3. CASE j = popped
    BY <2>2, <2>3 DEF JQ!Precedes
  <2>4. CASE j \in Range(queue)
    <3>1. PICK k \in DOMAIN queue : queue[k] = j
      BY <2>4 DEF Range
    <3>2. ~Before(j, popped)
      BY <3>1 DEF RunLaunch, OrderInv
    <3> QED
      BY <2>2, <3>2 DEF Before, JQ!Precedes
  <2> QED
    BY <2>1, <2>3, <2>4
<1>6. JQ!Start(popped)
  BY <1>2, <1>3, <1>4, <1>5 DEF JQ!Start, RunLaunch
<1> QED
  BY <1>1, <1>6 DEF JQ!Next

LEMMA RefineWork ==
  ASSUME PlaceInv, NEW i \in Item, Work(i)
  PROVE  JQ!Next \/ UNCHANGED <<Places, added>>
<1> USE DEF PlaceInv
<1>1. CASE WorkBegin(i) \/ WorkFinish(i)
  <2>1. PICK s \in {"running", "leaving"} : life' = [life EXCEPT ![i] = s]
    BY <1>1 DEF WorkBegin, WorkFinish
  <2>2. PlaceOf(s) = "active"
    BY StageFacts DEF Stages, Alive
  <2>3. Places[i] = "active"
    BY <1>1, PlaceFacts DEF WorkBegin, WorkFinish, Alive
  <2>4. Places' = [Places EXCEPT ![i] = "active"]
    BY <2>1, <2>2, PlaceChange DEF TypeOK
  <2>5. Places' = Places
    BY <2>3, <2>4 DEF Places
  <2> QED
    BY <1>1, <2>5 DEF WorkBegin, WorkFinish
<1>2. CASE WorkExit(i)
  <2>1. PlaceOf("dead") = "done"
    BY StageFacts DEF Stages
  <2>2. Places' = [Places EXCEPT ![i] = "done"]
    BY <1>2, <2>1, PlaceChange DEF WorkExit, TypeOK
  <2>3. Places[i] = "active"
    BY <1>2, PlaceFacts DEF WorkExit, Alive
  <2> QED
    BY <1>2, <2>2, <2>3 DEF WorkExit, JQ!End, JQ!Next
<1> QED
  BY <1>1, <1>2 DEF Work

LEMMA RefineNext ==
  ASSUME PlaceInv, OrderInv, [Next]_vars
  PROVE  JQ!Next \/ UNCHANGED <<Places, added>>
<1> USE DEF PlaceInv
<1>1. ASSUME NEW a \in Adder, NEW i \in Item, Offer(a, i)
      PROVE  UNCHANGED <<Places, added>>
  <2>1. life' = life \/ \E s \in {"offered", "skipped"} : life' = [life EXCEPT ![i] = s]
    BY <1>1 DEF Offer
  <2>2. CASE life' = life
    BY <1>1, <2>2 DEF Places, Offer
  <2>3. ASSUME NEW s \in {"offered", "skipped"}, life' = [life EXCEPT ![i] = s]
        PROVE  UNCHANGED <<Places, added>>
    <3>1. PlaceOf(s) = "out" /\ Places[i] = "out"
      BY <1>1, StageFacts, PlaceFacts DEF Stages, Offer
    <3>2. Places' = [Places EXCEPT ![i] = "out"]
      BY <2>3, <3>1, PlaceChange DEF TypeOK
    <3>3. Places' = Places
      BY <3>1, <3>2 DEF Places
    <3> QED
      BY <1>1, <3>3 DEF Offer
  <2> QED
    BY <2>1, <2>2, <2>3
<1>2. ASSUME life' = life, added' = added
      PROVE  UNCHANGED <<Places, added>>
  BY <1>2 DEF Places
<1>3. CASE RunBegin \/ RunSort \/ RunPop
  BY <1>2, <1>3 DEF RunBegin, RunSort, RunPop
<1>4. CASE Pause \/ PauseBacklog \/ Unpause
  BY <1>2, <1>4 DEF Pause, PauseBacklog, Unpause, SetMinPriority
<1>5. CASE UNCHANGED vars
  BY <1>2, <1>5 DEF vars
<1> QED
  BY <1>1, <1>3, <1>4, <1>5, RefineAddItem, RefineRunLaunch, RefineWork DEF Next, Work

\* Every behaviour of the queue, seen through the places of its items, is one of
\* JobQueue.
THEOREM Implementation == Spec => ImplementsJobQueue
<1>1. Init => PlaceInv /\ OrderInv /\ ArrivalOrderKept
  BY PlaceInit, OrderInit
<1>2. PlaceInv /\ OrderInv /\ ArrivalOrderKept /\ [Next]_vars
        => PlaceInv' /\ OrderInv' /\ ArrivalOrderKept'
  BY PlaceNext, OrderNext
<1>3. Init => JQ!Init
  <2>1. PlaceOf("new") = "out"
    BY StageFacts DEF Stages
  <2> QED
    BY <2>1 DEF Init, JQ!Init, Places
<1>4. PlaceInv /\ OrderInv /\ [Next]_vars => [JQ!Next]_<<Places, added>>
  BY RefineNext
<1> QED
  BY <1>1, <1>2, <1>3, <1>4, PTL DEF Spec, JQ!Spec, ImplementsJobQueue
=============================================================================
