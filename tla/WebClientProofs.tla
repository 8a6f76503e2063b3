--------------------------- MODULE WebClientProofs ---------------------------
(***************************************************************************)
(* Proofs about the web client, for any values of its parameters.          *)
(*                                                                         *)
(* A step of the client is a step of one of its parts or leaves that part  *)
(* alone, so what is proved of a part holds of the client.  The proofs     *)
(* about the list of shows are in ShowStoreProofs and those about the      *)
(* manual search in ManualSearchProofs; those about the recommended shows, *)
(* the root directories and the episodes of a show are here.               *)
(***************************************************************************)
EXTENDS WebClient, ShowStoreProofs

SearchPart == INSTANCE ManualSearchProofs WITH
  PageSize <- ResultsPerPage, MaxGaps <- MaxSearchGaps, gaps <- searchGaps, fetch <- fetchOf

-----------------------------------------------------------------------------
(***************************************************************************)
(* The recommended shows.                                                  *)
(*                                                                         *)
(* The page of a source goes back to the first one in the middle of        *)
(* requests for later ones, and a short page ends the paging whichever     *)
(* request it answers.  AwaitedInv says why no show is lost by that: up to  *)
(* the last page that was ever asked for each show is there, on its way,   *)
(* or will be asked for by mounted().                                      *)
(***************************************************************************)

ShowRequest == [source : Shows!Source \cup {All}, page : Nat \ {0}, by : {"mounted", "more", "update"}]

ShowsTyped ==
  /\ size \in [Shows!Source -> 0 .. MaxSize]
  /\ pageOf \in [Shows!Source \cup {All} -> {Shows!NoMore} \cup 1 .. clicks + 1]
  /\ recommended \subseteq Shows!Source \X (1 .. MaxSize)
  /\ todo \in Seq(Shows!Source)
  /\ loadingShows \in {"mounted", "more", "no"}
  /\ asked \subseteq ShowRequest
  /\ updates \in 0 .. MaxUpdates /\ clicks \in 0 .. MaxClicks
  /\ skipped \cup shifted \subseteq Shows!Source \cup {All}

\* The button comes after mounted() has asked for all first pages.
MountInv ==
  /\ todo # <<>> => loadingShows = "mounted"
  /\ loadingShows = "mounted" => /\ \A r \in asked : r.page = 1 /\ r.by # "more"
                                 /\ \A s \in Shows!Source : pageOf[s] \in {1, Shows!NoMore}

\* The k-th show of the source is on a page that was asked for, or before the last one.
Begun(s, k) ==
  \/ pageOf[s] = Shows!NoMore
  \/ k <= pageOf[s] * ShowsPerPage
  \/ \E r \in asked : r.source = s /\ k <= r.page * ShowsPerPage

Awaited(s, k) ==
  \/ <<s, k>> \in recommended
  \/ \E r \in asked : r.source = s /\ k \in Shows!PageOf(s, r.page)
  \/ pageOf[s] = 1 /\ s \in ToSet(todo) /\ k <= ShowsPerPage

AwaitedInv ==
  \A s \in Shows!Source \ (skipped \cup shifted) : \A k \in 1 .. size[s] : Begun(s, k) => Awaited(s, k)

ShowsInv == ShowsTyped /\ MountInv /\ AwaitedInv

-----------------------------------------------------------------------------
LEMMA TodoFacts ==
  ASSUME todo \in Seq(Shows!Source), todo # <<>>
  PROVE  /\ Head(todo) \in Shows!Source /\ Tail(todo) \in Seq(Shows!Source)
         /\ \A s \in ToSet(todo) : s = Head(todo) \/ s \in ToSet(Tail(todo))
<1>1. /\ Head(todo) \in Shows!Source /\ Tail(todo) \in Seq(Shows!Source)
      /\ Len(Tail(todo)) = Len(todo) - 1 /\ Len(todo) \in Nat
      /\ \A i \in 1 .. Len(Tail(todo)) : Tail(todo)[i] = todo[i + 1]
      /\ Head(todo) = todo[1]
  BY HeadTailProperties, LenProperties
<1>2. DOMAIN todo = 1 .. Len(todo) /\ DOMAIN Tail(todo) = 1 .. Len(Tail(todo))
  BY <1>1, LenProperties
<1>3. ASSUME NEW i \in DOMAIN todo, i # 1
      PROVE  todo[i] \in ToSet(Tail(todo))
  <2>1. i - 1 \in DOMAIN Tail(todo) /\ Tail(todo)[i - 1] = todo[i]
    BY <1>1, <1>2, <1>3
  <2> QED
    BY <2>1 DEF ToSet
<1>4. \A s \in ToSet(todo) : s = Head(todo) \/ s \in ToSet(Tail(todo))
  BY <1>1, <1>3 DEF ToSet
<1> QED
  BY <1>1, <1>4

\* The shows of the first page.
LEMMA FirstPage ==
  ASSUME NEW s, size[s] \in Nat, NEW k \in 1 .. size[s]
  PROVE  k \in Shows!PageOf(s, 1) <=> k <= ShowsPerPage
BY RecommendedAssumption DEF Shows!PageOf

\* A page that lacks its last place is the last one.
LEMMA LastPage ==
  ASSUME NEW s, size[s] \in Nat, NEW p \in Nat \ {0},
         ~(\E k \in Shows!PageOf(s, p) : k = p * ShowsPerPage), NEW k \in 1 .. size[s]
  PROVE  k <= p * ShowsPerPage
<1>1. ShowsPerPage \in Nat \ {0} /\ p * ShowsPerPage \in Nat /\ (p - 1) * ShowsPerPage \in Nat
  BY RecommendedAssumption
<1>2. p * ShowsPerPage = (p - 1) * ShowsPerPage + ShowsPerPage
  BY <1>1
<1>3. p * ShowsPerPage > 0 /\ (p - 1) * ShowsPerPage < p * ShowsPerPage
  BY <1>1, <1>2
<1>4. p * ShowsPerPage > size[s]
  BY <1>1, <1>3 DEF Shows!PageOf
<1> QED
  BY <1>1, <1>4

\* The shows that a page more adds.
LEMMA NextPage ==
  ASSUME NEW s, size[s] \in Nat, NEW p \in Nat \ {0}, NEW k \in 1 .. size[s],
         k <= (p + 1) * ShowsPerPage
  PROVE  k <= p * ShowsPerPage \/ k \in Shows!PageOf(s, p + 1)
<1>1. p * ShowsPerPage \in Nat /\ (p + 1) * ShowsPerPage \in Nat /\ (p + 1) - 1 = p
  BY RecommendedAssumption
<1> QED
  BY <1>1 DEF Shows!PageOf

LEMMA ShowsInitial == Shows!Init => ShowsInv
<1> SUFFICES ASSUME Shows!Init PROVE ShowsInv
  OBVIOUS
<1>1. ShowsTyped
  BY RecommendedAssumption DEF Shows!Init, ShowsTyped
<1>2. MountInv
  BY DEF Shows!Init, MountInv
<1>3. AwaitedInv
  <2> SUFFICES ASSUME NEW s \in Shows!Source, NEW k \in 1 .. size[s], Begun(s, k) PROVE Awaited(s, k)
    BY DEF AwaitedInv
  <2>1. pageOf[s] = 1 /\ s \in ToSet(todo) /\ asked = {}
    BY DEF Shows!Init, Shows!Source, Shows!ToSet, ToSet
  <2>2. k <= ShowsPerPage
    BY <2>1, RecommendedAssumption DEF Begun, Shows!NoMore
  <2> QED
    BY <2>1, <2>2 DEF Awaited
<1> QED
  BY <1>1, <1>2, <1>3 DEF ShowsInv

-----------------------------------------------------------------------------
LEMMA MountedStep ==
  ASSUME ShowsInv, Shows!MountedAsks \/ Shows!MountedEnds
  PROVE  ShowsInv'
<1>0. ShowsTyped /\ MountInv /\ AwaitedInv /\ \A s \in Shows!Source : size[s] \in Nat
  BY DEF ShowsInv, ShowsTyped
<1>1. CASE Shows!MountedEnds
  BY <1>0, <1>1 DEF Shows!MountedEnds, Shows!bounds, ShowsInv, ShowsTyped, MountInv, AwaitedInv, Begun, Awaited, Shows!PageOf
<1>2. CASE Shows!MountedAsks
  <2> DEFINE h == Head(todo)
             new == [source |-> h, page |-> pageOf[h], by |-> "mounted"]
  <2>1. /\ todo # <<>> /\ todo' = Tail(todo)
        /\ UNCHANGED <<pageOf, size, recommended, loadingShows, updates, clicks, skipped, shifted>>
        /\ loadingShows = "mounted"
    BY <1>0, <1>2 DEF Shows!MountedAsks, MountInv, Shows!bounds
  <2>2. /\ h \in Shows!Source /\ Tail(todo) \in Seq(Shows!Source)
        /\ \A s \in ToSet(todo) : s = h \/ s \in ToSet(Tail(todo))
    BY <1>0, <2>1, TodoFacts DEF ShowsTyped
  <2>3. pageOf[h] \in {1, Shows!NoMore}
    BY <1>0, <2>1, <2>2 DEF MountInv
  <2>4. CASE pageOf[h] = Shows!NoMore
    <3>1. UNCHANGED asked
      BY <1>2, <2>4 DEF Shows!MountedAsks
    <3>2. ShowsTyped' /\ MountInv'
      BY <1>0, <2>1, <2>2, <3>1 DEF ShowsTyped, MountInv
    <3>3. AwaitedInv'
      <4> SUFFICES ASSUME NEW s \in Shows!Source \ (skipped \cup shifted), NEW k \in 1 .. size[s],
                          Begun(s, k), Awaited(s, k)
                   PROVE  Awaited(s, k)'
        BY <1>0, <2>1, <3>1 DEF AwaitedInv, Begun
      <4>1. pageOf[s] = 1 /\ s \in ToSet(todo) => s \in ToSet(todo')
        BY <2>1, <2>2, <2>4 DEF Shows!NoMore
      <4> QED
        BY <2>1, <3>1, <4>1 DEF Awaited, Shows!PageOf
    <3> QED
      BY <3>2, <3>3 DEF ShowsInv
  <2>5. CASE pageOf[h] # Shows!NoMore
    <3>1. pageOf[h] = 1 /\ asked' = asked \cup {new}
      BY <1>2, <2>1, <2>3, <2>5 DEF Shows!MountedAsks, Shows!Asked
    <3>2. new \in ShowRequest /\ new.source = h /\ new.page = 1 /\ new.by = "mounted"
      BY <2>2, <3>1 DEF ShowRequest
    <3>3. ShowsTyped' /\ MountInv'
      BY <1>0, <2>1, <2>2, <3>1, <3>2 DEF ShowsTyped, MountInv
    <3>4. AwaitedInv'
      <4> SUFFICES ASSUME NEW s \in Shows!Source \ (skipped \cup shifted), NEW k \in 1 .. size[s],
                          Begun(s, k)'
                   PROVE  Awaited(s, k)'
        BY <2>1 DEF AwaitedInv
      <4>1. Begun(s, k)
        BY <2>1, <3>1, <3>2 DEF Begun
      <4>2. Awaited(s, k)
        BY <1>0, <4>1 DEF AwaitedInv
      <4>3. s = h /\ k <= ShowsPerPage => k \in Shows!PageOf(s, new.page)
        BY <1>0, <3>2, FirstPage
      <4>4. s \in ToSet(todo) => s = h \/ s \in ToSet(todo')
        BY <2>1, <2>2
      <4> QED
        BY <2>1, <3>1, <3>2, <4>2, <4>3, <4>4 DEF Awaited, Shows!PageOf
    <3> QED
      BY <3>3, <3>4 DEF ShowsInv
  <2> QED
    BY <2>4, <2>5
<1> QED
  BY <1>1, <1>2

LEMMA GetMoreStep ==
  ASSUME ShowsInv, NEW t \in Shows!Source \cup {All}, Shows!GetMore(t)
  PROVE  ShowsInv'
<1>0. ShowsTyped /\ MountInv /\ AwaitedInv /\ \A s \in Shows!Source : size[s] \in Nat
  BY DEF ShowsInv, ShowsTyped
<1> DEFINE new == [source |-> t, page |-> pageOf[t] + 1, by |-> "more"]
<1>1. /\ loadingShows = "no" /\ pageOf[t] # Shows!NoMore /\ clicks < MaxClicks /\ clicks' = clicks + 1
      /\ pageOf' = [pageOf EXCEPT ![t] = @ + 1] /\ loadingShows' = "more"
      /\ UNCHANGED <<size, recommended, todo, updates, skipped, shifted>>
  BY DEF Shows!GetMore
<1>2. pageOf[t] \in Nat \ {0} /\ pageOf[t] <= clicks + 1 /\ clicks \in Nat
  BY <1>0, <1>1 DEF ShowsTyped
<1>3. /\ pageOf'[t] = pageOf[t] + 1
      /\ \A s \in Shows!Source \cup {All} : s # t => pageOf'[s] = pageOf[s]
      /\ asked' = asked \cup {new}
  BY <1>0, <1>1 DEF ShowsTyped, Shows!GetMore, Shows!Asked
<1>4. new \in ShowRequest /\ new.source = t /\ new.page = pageOf[t] + 1
  BY <1>2 DEF ShowRequest
<1>5. todo = <<>> /\ ToSet(todo) = {}
  BY <1>0, <1>1 DEF MountInv, ToSet
<1>6. ShowsTyped'
  <2>1. pageOf' \in [Shows!Source \cup {All} -> {Shows!NoMore} \cup 1 .. clicks' + 1]
    BY <1>0, <1>1, <1>2 DEF ShowsTyped, Shows!NoMore
  <2> QED
    BY <1>0, <1>1, <1>2, <1>3, <1>4, <2>1, RecommendedAssumption DEF ShowsTyped
<1>7. MountInv'
  BY <1>1, <1>5 DEF MountInv
<1>8. AwaitedInv'
  <2> SUFFICES ASSUME NEW s \in Shows!Source \ (skipped \cup shifted), NEW k \in 1 .. size[s],
                      Begun(s, k)'
               PROVE  Awaited(s, k)'
    BY <1>1 DEF AwaitedInv
  <2>1. Awaited(s, k) => Awaited(s, k)'
    BY <1>1, <1>3, <1>5 DEF Awaited, Shows!PageOf
  <2>2. CASE Begun(s, k)
    BY <1>0, <2>1, <2>2 DEF AwaitedInv
  <2>3. CASE ~Begun(s, k)
    <3>1. s = t /\ k <= (pageOf[t] + 1) * ShowsPerPage
      BY <1>2, <1>3, <1>4, <2>3 DEF Begun, Shows!NoMore
    <3>2. k \in Shows!PageOf(s, pageOf[t] + 1)
      BY <1>0, <1>2, <2>3, <3>1, NextPage DEF Begun
    <3> QED
      BY <1>1, <1>3, <1>4, <3>1, <3>2 DEF Awaited, Shows!PageOf
  <2> QED
    BY <2>2, <2>3
<1> QED
  BY <1>6, <1>7, <1>8 DEF ShowsInv

LEMMA PageArrivesStep ==
  ASSUME ShowsInv, NEW r \in asked, Shows!PageArrives(r)
  PROVE  ShowsInv'
<1>0. /\ ShowsTyped /\ MountInv /\ AwaitedInv /\ \A s \in Shows!Source : size[s] \in Nat
      /\ r.source \in Shows!Source /\ r.page \in Nat \ {0}
  BY DEF ShowsInv, ShowsTyped, ShowRequest, Shows!PageArrives
<1> DEFINE t == r.source
           fetched == Shows!PageOf(t, r.page)
           full == \E k \in fetched : k = r.page * ShowsPerPage
<1>1. /\ pageOf' = IF full THEN pageOf ELSE [pageOf EXCEPT ![t] = Shows!NoMore]
      /\ recommended' = recommended \cup {<<t, k>> : k \in fetched}
      /\ asked' = asked \ {r}
      /\ loadingShows' = IF r.by = "more" THEN "no" ELSE loadingShows
      /\ UNCHANGED <<size, todo, updates, clicks, skipped, shifted>>
  BY DEF Shows!PageArrives, Shows!Finished, Shows!bounds
<1>2. /\ pageOf'[t] = pageOf[t] \/ (pageOf'[t] = Shows!NoMore /\ ~full)
      /\ \A s \in Shows!Source \cup {All} : s # t => pageOf'[s] = pageOf[s]
  BY <1>0, <1>1 DEF ShowsTyped
<1>3. ShowsTyped'
  <2>1. pageOf' \in [Shows!Source \cup {All} -> {Shows!NoMore} \cup 1 .. clicks' + 1]
    BY <1>0, <1>1 DEF ShowsTyped
  <2>2. fetched \subseteq 1 .. MaxSize
    <3>1. size[t] \in 0 .. MaxSize
      BY <1>0 DEF ShowsTyped
    <3> QED
      BY <3>1, RecommendedAssumption DEF Shows!PageOf
  <2>3. recommended' \subseteq Shows!Source \X (1 .. MaxSize)
    BY <1>0, <1>1, <2>2 DEF ShowsTyped
  <2> QED
    BY <1>0, <1>1, <2>1, <2>3 DEF ShowsTyped
<1>4. MountInv'
  <2>1. loadingShows = "mounted" => loadingShows' = "mounted"
    BY <1>0, <1>1 DEF MountInv
  <2>2. loadingShows' = "mounted" => loadingShows = "mounted"
    BY <1>1
  <2>3. \A s \in Shows!Source : pageOf'[s] \in {pageOf[s], Shows!NoMore}
    BY <1>2
  <2> QED
    BY <1>0, <1>1, <2>1, <2>2, <2>3 DEF MountInv
<1>5. AwaitedInv'
  <2> SUFFICES ASSUME NEW s \in Shows!Source \ (skipped \cup shifted), NEW k \in 1 .. size[s],
                      Begun(s, k)'
               PROVE  Awaited(s, k)'
    BY <1>1 DEF AwaitedInv
  <2>1. CASE s # t
    <3>1. Begun(s, k)
      BY <1>1, <1>2, <2>1 DEF Begun
    <3>2. Awaited(s, k)
      BY <1>0, <3>1 DEF AwaitedInv
    <3> QED
      BY <1>1, <1>2, <2>1, <3>2 DEF Awaited, Shows!PageOf
  <2>2. CASE s = t
    <3>1. Begun(s, k)
      <4>1. CASE pageOf'[t] = pageOf[t]
        BY <1>1, <2>2, <4>1 DEF Begun
      <4>2. CASE ~full
        <5>1. k <= r.page * ShowsPerPage
          BY <1>0, <2>2, <4>2, LastPage
        <5> QED
          BY <2>2, <5>1 DEF Begun
      <4> QED
        BY <1>2, <4>1, <4>2
    <3>2. Awaited(s, k)
      BY <1>0, <3>1 DEF AwaitedInv
    <3>3. k \in fetched => Awaited(s, k)'
      BY <1>1, <2>2 DEF Awaited
    <3>4. CASE <<s, k>> \in recommended
      BY <1>1, <3>4 DEF Awaited
    <3>5. CASE \E q \in asked : q.source = s /\ k \in Shows!PageOf(s, q.page)
      <4>1. PICK q \in asked : q.source = s /\ k \in Shows!PageOf(s, q.page)
        BY <3>5
      <4>2. CASE q = r
        BY <2>2, <3>3, <4>1, <4>2
      <4>3. CASE q # r
        BY <1>1, <4>1, <4>3 DEF Awaited, Shows!PageOf
      <4> QED
        BY <4>2, <4>3
    <3>6. CASE pageOf[s] = 1 /\ s \in ToSet(todo) /\ k <= ShowsPerPage
      <4>1. CASE pageOf'[s] = pageOf[s]
        BY <1>1, <3>6, <4>1 DEF Awaited
      <4>2. CASE pageOf'[s] # pageOf[s]
        <5>1. todo # <<>>
          BY <3>6 DEF ToSet
        <5>2. r.page = 1
          BY <1>0, <5>1 DEF MountInv
        <5>3. k \in fetched
          BY <1>0, <2>2, <3>6, <5>2, FirstPage
        <5> QED
          BY <3>3, <5>3
      <4> QED
        BY <4>1, <4>2
    <3> QED
      BY <3>2, <3>4, <3>5, <3>6 DEF Awaited
  <2> QED
    BY <2>1, <2>2
<1> QED
  BY <1>3, <1>4, <1>5 DEF ShowsInv

LEMMA PageFailsStep ==
  ASSUME ShowsInv, NEW r \in asked, Shows!PageFails(r)
  PROVE  ShowsInv'
<1>0. /\ ShowsTyped /\ MountInv /\ AwaitedInv /\ r.source \in Shows!Source \cup {All}
  BY DEF ShowsInv, ShowsTyped, ShowRequest
<1>1. /\ skipped' = skipped \cup {r.source} /\ asked' = asked \ {r}
      /\ loadingShows' = IF r.by = "more" THEN "no" ELSE loadingShows
      /\ UNCHANGED <<size, pageOf, recommended, todo, updates, clicks, shifted>>
  BY DEF Shows!PageFails, Shows!Finished, Shows!bounds
<1>2. ShowsTyped'
  BY <1>0, <1>1 DEF ShowsTyped
<1>3. MountInv'
  BY <1>0, <1>1 DEF MountInv
<1>4. AwaitedInv'
  <2> SUFFICES ASSUME NEW s \in Shows!Source \ (skipped \cup shifted), s # r.source,
                      NEW k \in 1 .. size[s], Begun(s, k)'
               PROVE  Awaited(s, k)'
    BY <1>1 DEF AwaitedInv
  <2>1. Awaited(s, k)
    BY <1>0, <1>1 DEF AwaitedInv, Begun
  <2> QED
    BY <1>1, <2>1 DEF Awaited, Shows!PageOf
<1> QED
  BY <1>2, <1>3, <1>4 DEF ShowsInv

LEMMA UpdateStep ==
  ASSUME ShowsInv, NEW t \in Shows!Source, Shows!Updated(t)
  PROVE  ShowsInv'
<1>0. /\ ShowsTyped /\ MountInv /\ AwaitedInv /\ \A s \in Shows!Source : size[s] \in Nat
  BY DEF ShowsInv, ShowsTyped
<1> DEFINE new == [source |-> t, page |-> 1, by |-> "update"]
<1>1. PICK n \in size[t] .. MaxSize :
        /\ size' = [size EXCEPT ![t] = n]
        /\ shifted' = IF n = size[t] THEN shifted ELSE shifted \cup {t}
  BY DEF Shows!Updated
<1>2. /\ updates < MaxUpdates /\ updates' = updates + 1
      /\ pageOf' = [pageOf EXCEPT ![t] = 1]
      /\ UNCHANGED <<recommended, todo, loadingShows, clicks, skipped>>
  BY DEF Shows!Updated
<1>3. pageOf'[t] = 1 /\ \A s \in Shows!Source \cup {All} : s # t => pageOf'[s] = pageOf[s]
  BY <1>0, <1>2 DEF ShowsTyped
<1>4. asked' = asked \cup {new}
  BY <1>3 DEF Shows!Updated, Shows!Asked
<1>5. new \in ShowRequest /\ new.source = t /\ new.page = 1 /\ new.by = "update"
  BY DEF ShowRequest
<1>6. ShowsTyped'
  <2>1. size' \in [Shows!Source -> 0 .. MaxSize]
    <3>1. n \in 0 .. MaxSize
      BY <1>0, RecommendedAssumption
    <3> QED
      BY <1>0, <1>1, <3>1 DEF ShowsTyped
  <2>2. pageOf' \in [Shows!Source \cup {All} -> {Shows!NoMore} \cup 1 .. clicks' + 1]
    BY <1>0, <1>2 DEF ShowsTyped
  <2>3. updates' \in 0 .. MaxUpdates
    BY <1>0, <1>2, RecommendedAssumption DEF ShowsTyped
  <2>4. skipped' \cup shifted' \subseteq Shows!Source \cup {All}
    BY <1>0, <1>1, <1>2 DEF ShowsTyped
  <2> QED
    BY <1>0, <1>2, <1>4, <1>5, <2>1, <2>2, <2>3, <2>4 DEF ShowsTyped
<1>7. MountInv'
  BY <1>0, <1>2, <1>3, <1>4, <1>5 DEF MountInv
<1>8. AwaitedInv'
  <2> SUFFICES ASSUME NEW s \in Shows!Source \ (skipped' \cup shifted'), NEW k \in 1 .. size'[s],
                      Begun(s, k)'
               PROVE  Awaited(s, k)'
    BY DEF AwaitedInv
  <2>1. s \notin skipped \cup shifted /\ size'[s] = size[s]
    BY <1>0, <1>1, <1>2 DEF ShowsTyped
  <2>2. Awaited(s, k) => Awaited(s, k)'
    BY <1>2, <1>3, <1>4, <2>1 DEF Awaited, Shows!PageOf
  <2>3. CASE Begun(s, k)
    BY <1>0, <2>1, <2>2, <2>3 DEF AwaitedInv
  <2>4. CASE ~Begun(s, k)
    <3>1. s = t /\ k <= ShowsPerPage
      BY <1>3, <1>4, <1>5, <2>4, RecommendedAssumption DEF Begun, Shows!NoMore
    <3>2. k \in Shows!PageOf(s, new.page)
      BY <1>0, <1>5, <2>1, <3>1, FirstPage
    <3> QED
      BY <1>4, <1>5, <2>1, <3>1, <3>2 DEF Awaited, Shows!PageOf
  <2> QED
    BY <2>3, <2>4
<1> QED
  BY <1>6, <1>7, <1>8 DEF ShowsInv

LEMMA ShowsInductive == ShowsInv /\ [Shows!Next]_(Shows!vars) => ShowsInv'
<1> SUFFICES ASSUME ShowsInv, [Shows!Next]_(Shows!vars) PROVE ShowsInv'
  OBVIOUS
<1>1. CASE UNCHANGED Shows!vars
  BY <1>1 DEF Shows!vars, Shows!bounds, ShowsInv, ShowsTyped, MountInv, AwaitedInv, Begun, Awaited, Shows!PageOf
<1> QED
  BY <1>1, MountedStep, GetMoreStep, PageArrivesStep, PageFailsStep, UpdateStep DEF Shows!Next

-----------------------------------------------------------------------------
(***************************************************************************)
(* The root directories.                                                   *)
(*                                                                         *)
(* A client edits its own copy of the list and sends all of it, so what    *)
(* it saves is right only if the copy is.  While no edits overlap, one     *)
(* client at a time has a dialog open or a save on its way (DialogInv,     *)
(* OneInv), the last list pushed to a client is the server's (NewestInv), so *)
(* a client that waits for nothing has the server's list or the edits that *)
(* it has not saved (ClientsInv), and the list that is saved last is what  *)
(* the users made of it (ServerInv).                                       *)
(***************************************************************************)

LEMMA DirFacts ==
  ASSUME NEW rd \in Dirs!Dir
  PROVE  rd.path \in Path /\ rd.default \in BOOLEAN /\ rd.selected \in BOOLEAN
BY DEF Dirs!Dir

\* The places of the root dirs with a mark, and that of the first of them.
Selected(list) == {k \in DOMAIN list : list[k].selected}
Defaults(list) == {k \in DOMAIN list : list[k].default}
IsFirst(k, S) == k \in S /\ \A j \in S : k <= j
Marked(path, list, S) ==
  \/ S = {} /\ path = None
  \/ \E k \in S : IsFirst(k, S) /\ path = list[k].path

LEMMA SelectedFacts ==
  ASSUME NEW list \in Seq(Dirs!Dir)
  PROVE  /\ Marked(Dirs!SelectedOf(list), list, Selected(list))
         /\ Selected(list) # {} => IsFirst(Dirs!SelectInSeq(list, LAMBDA rd : rd.selected), Selected(list))
<1> DEFINE i == Dirs!SelectInSeq(list, LAMBDA rd : rd.selected)
           I == {k \in 1 .. Len(list) : list[k].selected}
           S == Selected(list)
<1>0. S = I
  <2>1. DOMAIN list = 1 .. Len(list)
    OBVIOUS
  <2> QED
    BY <2>1, Zenon DEF Selected
<1>1. i = IF S # {} THEN CHOOSE x \in S : \A y \in S : x <= y ELSE 0
  <2>1. i = IF I # {} THEN CHOOSE x \in I : \A y \in I : x <= y ELSE 0
    BY Zenon DEF Dirs!SelectInSeq, Dirs!Min
  <2> HIDE DEF i, I, S
  <2> QED
    BY <1>0, <2>1
<1>2. S \in SUBSET Nat /\ 0 \notin S
  BY DEF Selected
<1>3. S # {} => IsFirst(i, S)
  BY <1>1, <1>2, LeastNumber DEF IsFirst
<1>4. Dirs!SelectedOf(list) = IF i = 0 THEN None ELSE list[i].path
  BY DEF Dirs!SelectedOf, Dirs!First
<1> HIDE DEF i, S
<1>5. S = {} => Dirs!SelectedOf(list) = None
  BY <1>1, <1>4
<1>6. S # {} => \E k \in S : IsFirst(k, S) /\ Dirs!SelectedOf(list) = list[k].path
  BY <1>2, <1>3, <1>4 DEF IsFirst
<1> QED
  BY <1>3, <1>5, <1>6, Zenon DEF i, S, Marked

LEMMA DefaultFacts ==
  ASSUME NEW list \in Seq(Dirs!Dir)
  PROVE  Marked(Dirs!DefaultOf(list), list, Defaults(list))
<1> DEFINE i == Dirs!SelectInSeq(list, LAMBDA rd : rd.default)
           I == {k \in 1 .. Len(list) : list[k].default}
           S == Defaults(list)
<1>0. S = I
  <2>1. DOMAIN list = 1 .. Len(list)
    OBVIOUS
  <2> QED
    BY <2>1, Zenon DEF Defaults
<1>1. i = IF S # {} THEN CHOOSE x \in S : \A y \in S : x <= y ELSE 0
  <2>1. i = IF I # {} THEN CHOOSE x \in I : \A y \in I : x <= y ELSE 0
    BY Zenon DEF Dirs!SelectInSeq, Dirs!Min
  <2> HIDE DEF i, I, S
  <2> QED
    BY <1>0, <2>1
<1>2. S \in SUBSET Nat /\ 0 \notin S
  BY DEF Defaults
<1>3. S # {} => IsFirst(i, S)
  BY <1>1, <1>2, LeastNumber DEF IsFirst
<1>4. Dirs!DefaultOf(list) = IF i = 0 THEN None ELSE list[i].path
  BY DEF Dirs!DefaultOf, Dirs!First
<1> HIDE DEF i, S
<1>5. S = {} => Dirs!DefaultOf(list) = None
  BY <1>1, <1>4
<1>6. S # {} => \E k \in S : IsFirst(k, S) /\ Dirs!DefaultOf(list) = list[k].path
  BY <1>2, <1>3, <1>4 DEF IsFirst
<1> QED
  BY <1>5, <1>6, Zenon DEF S, Marked

\* The paths of a list.
PathSet(list) == {list[k].path : k \in DOMAIN list}

LEMMA PathFacts ==
  ASSUME NEW list \in Seq(Dirs!Dir)
  PROVE  /\ Dirs!Paths(list) \in Seq(Path) /\ Len(Dirs!Paths(list)) = Len(list)
         /\ DOMAIN Dirs!Paths(list) = 1 .. Len(list) /\ DOMAIN list = 1 .. Len(list) /\ Len(list) \in Nat
         /\ \A k \in DOMAIN list : Dirs!Paths(list)[k] = list[k].path /\ list[k].path \in Path
         /\ PathSet(list) \subseteq Path
         /\ \A p : Dirs!Has(list, p) <=> p \in PathSet(list)
<1>1. \A k \in DOMAIN list : list[k].path \in Path
  BY DirFacts
<1>2. Dirs!Paths(list) \in Seq(Path) /\ Len(Dirs!Paths(list)) = Len(list)
  BY <1>1 DEF Dirs!Paths
<1>3. Dirs!ToSet(Dirs!Paths(list)) = PathSet(list)
  BY DEF Dirs!ToSet, Dirs!Paths, PathSet
<1> QED
  BY <1>1, <1>2, <1>3 DEF Dirs!Has, PathSet, Dirs!Paths

\* A default or a selection is the path of a root dir of the list.
LEMMA MarkedPath ==
  ASSUME NEW list \in Seq(Dirs!Dir)
  PROVE  /\ Dirs!DefaultOf(list) \in PathSet(list) \cup {None}
         /\ Dirs!SelectedOf(list) \in PathSet(list) \cup {None}
BY SelectedFacts, DefaultFacts DEF Marked, PathSet, Selected, Defaults

-----------------------------------------------------------------------------
\* A list that the page saves.
LEMMA SavedType ==
  ASSUME NEW list \in Seq(Dirs!Dir)
  PROVE  Dirs!ToSave(list) \in Dirs!RawList
<1> DEFINE paths == Dirs!Paths(list)
           i == Dirs!SelectInSeq(paths, LAMBDA p : p = Dirs!DefaultOf(list))
           S == {k \in 1 .. Len(paths) : paths[k] = Dirs!DefaultOf(list)}
<1>1. paths \in Seq(Path) /\ Len(paths) \in Nat
  BY PathFacts
<1>2. paths \in Seq(Path \cup Nat) /\ \A k \in DOMAIN paths : paths[k] \in Path
  BY <1>1
<1>3. CASE Dirs!DefaultOf(list) = None
  <2>1. Dirs!ToSave(list) = paths
    BY <1>3 DEF Dirs!ToSave
  <2> QED
    BY <2>1, <1>2 DEF Dirs!RawList
<1>4. CASE Dirs!DefaultOf(list) # None
  <2>1. Dirs!ToSave(list) = <<i - 1>> \o paths
    BY <1>4 DEF Dirs!ToSave
  <2>2. Dirs!DefaultOf(list) \in PathSet(list)
    BY <1>4, MarkedPath
  <2>3. S # {} /\ S \in SUBSET Nat
    BY <2>2, PathFacts DEF PathSet
  <2>4. i = CHOOSE x \in S : \A y \in S : x <= y
    BY <2>3 DEF Dirs!SelectInSeq, Dirs!Min
  <2>5. i \in S
    BY <2>3, <2>4, LeastNumber
  <2>6. i - 1 \in Nat
    BY <2>5
  <2> HIDE DEF i, paths
  <2>7. <<i - 1>> \in Seq(Path \cup Nat) /\ Len(<<i - 1>>) = 1
    BY <2>6
  <2>8. /\ <<i - 1>> \o paths \in Seq(Path \cup Nat)
        /\ \A k \in DOMAIN (<<i - 1>> \o paths) : k > 1 => (<<i - 1>> \o paths)[k] = paths[k - 1] /\ k - 1 \in DOMAIN paths
    BY <2>7, <1>1, <1>2
  <2> QED
    BY <2>1, <2>8, <1>2 DEF Dirs!RawList
<1> QED
  BY <1>3, <1>4

LEMMA TakenType ==
  ASSUME NEW list \in Dirs!RawList
  PROVE  Dirs!TransformRaw(list) \in Seq(Dirs!Dir)
<1>1. list \in Seq(Path \cup Nat) /\ Len(list) \in Nat /\ \A k \in 2 .. Len(list) : list[k] \in Path
  BY DEF Dirs!RawList
<1>2. CASE Len(list) < 2
  BY <1>2 DEF Dirs!TransformRaw
<1>3. CASE Len(list) >= 2
  <2>1. \A k \in 1 .. Len(list) - 1 : list[k + 1] \in Path
    BY <1>1
  <2>2. Dirs!TransformRaw(list) = [k \in 1 .. Len(list) - 1 |->
          [path |-> list[k + 1], default |-> list[1] = k - 1, selected |-> list[1] = k - 1]]
    BY <1>1, <1>3 DEF Dirs!TransformRaw
  <2>3. \A k \in 1 .. Len(list) - 1 :
          [path |-> list[k + 1], default |-> list[1] = k - 1, selected |-> list[1] = k - 1] \in Dirs!Dir
    BY <2>1 DEF Dirs!Dir
  <2>4. Len(list) - 1 \in Nat
    BY <1>1, <1>3
  <2> QED
    BY <2>2, <2>3, <2>4
<1> QED
  BY <1>1, <1>2, <1>3
-----------------------------------------------------------------------------
\* A list with its index, as the page saves it: that of the first place of a path.
Proper(l) ==
  \/ l = <<>>
  \/ \E n \in 1 .. Len(l) - 1 : l[1] = n - 1 /\ \A k \in 1 .. n - 1 : l[k + 1] # l[n + 1]

\* A mark is on root dirs of one path, the first of that path among them.
Marks(list, S) ==
  \A j \in S, i \in DOMAIN list :
    /\ i \in S => list[i].path = list[j].path
    /\ i < j /\ list[i].path = list[j].path => i \in S

\* A selection other than the default is on all root dirs of its path.
Shape(list) ==
  /\ Marks(list, Selected(list)) /\ Marks(list, Defaults(list))
  /\ \A j \in Selected(list), i \in DOMAIN list :
       list[i].path = list[j].path => i \in Selected(list) \/ list[j].path = Dirs!DefaultOf(list)

\* What is saved has the root dirs and the default of the list.
LEMMA SavedFacts ==
  ASSUME NEW list \in Seq(Dirs!Dir), Dirs!DefaultOf(list) # None \/ list = <<>>
  PROVE  LET saved == Dirs!ToSave(list) IN
         Proper(saved) /\ Dirs!PathsOf(saved) = PathSet(list) /\ Dirs!DefaultPath(saved) = Dirs!DefaultOf(list)
<1> DEFINE paths == Dirs!Paths(list)
           i == Dirs!SelectInSeq(paths, LAMBDA p : p = Dirs!DefaultOf(list))
           S == {k \in 1 .. Len(paths) : paths[k] = Dirs!DefaultOf(list)}
           saved == Dirs!ToSave(list)
<1>1. /\ paths \in Seq(Path) /\ Len(paths) \in Nat /\ Len(paths) = Len(list)
      /\ DOMAIN paths = 1 .. Len(paths) /\ DOMAIN list = 1 .. Len(paths)
      /\ \A k \in 1 .. Len(paths) : paths[k] = list[k].path /\ paths[k] \in Path
  BY PathFacts
<1>2. CASE list = <<>>
  <2>1. PathSet(list) = {} /\ paths = <<>>
    BY <1>2 DEF PathSet, Dirs!Paths
  <2>2. Dirs!DefaultOf(list) = None
    BY <2>1, MarkedPath
  <2>3. saved = <<>>
    BY <2>1, <2>2 DEF Dirs!ToSave
  <2> QED
    BY <2>1, <2>2, <2>3 DEF Proper, Dirs!PathsOf, Dirs!ToSet, Dirs!DefaultPath, Dirs!Indexed
<1>3. CASE Dirs!DefaultOf(list) # None
  <2>1. saved = <<i - 1>> \o paths
    BY <1>3 DEF Dirs!ToSave
  <2>2. S # {} /\ S \in SUBSET Nat
    BY <1>1, <1>3, MarkedPath DEF PathSet
  <2>3. i = CHOOSE x \in S : \A y \in S : x <= y
    BY <2>2 DEF Dirs!SelectInSeq, Dirs!Min
  <2>4. i \in S /\ \A y \in S : i <= y
    BY <2>2, <2>3, LeastNumber
  <2> HIDE DEF i, paths, saved
  <2>5. i \in 1 .. Len(paths) /\ paths[i] = Dirs!DefaultOf(list) /\ \A k \in 1 .. i - 1 : paths[k] # Dirs!DefaultOf(list)
    <3>1. i \in 1 .. Len(paths) /\ paths[i] = Dirs!DefaultOf(list)
      BY <2>4
    <3>2. \A k \in 1 .. i - 1 : k \in 1 .. Len(paths) /\ ~(i <= k)
      BY <3>1, <1>1
    <3> QED
      BY <2>4, <3>1, <3>2
  <2>6. <<i - 1>> \in Seq(Path \cup Nat) /\ Len(<<i - 1>>) = 1 /\ paths \in Seq(Path \cup Nat)
    BY <2>5, <1>1
  <2>7. /\ Len(saved) = Len(paths) + 1 /\ DOMAIN saved = 1 .. Len(paths) + 1
        /\ saved[1] = i - 1 /\ \A k \in 1 .. Len(paths) : saved[k + 1] = paths[k]
    BY <2>1, <2>6, <1>1
  <2>8. Proper(saved)
    <3>1. i \in 1 .. Len(saved) - 1 /\ saved[1] = i - 1 /\ \A k \in 1 .. i - 1 : saved[k + 1] # saved[i + 1]
      BY <2>5, <2>7, <1>1
    <3> QED
      BY <3>1 DEF Proper
  <2>9. Dirs!PathsOf(saved) = PathSet(list)
    <3>1. saved[1] \notin Path
      BY <2>5, <2>7, <1>1, DirsAssumption
    <3>2. ASSUME NEW x \in Dirs!PathsOf(saved) PROVE x \in PathSet(list)
      <4>1. x \in Path /\ \E k \in DOMAIN saved : saved[k] = x
        BY DEF Dirs!PathsOf, Dirs!ToSet
      <4>2. PICK k \in 1 .. Len(paths) + 1 : saved[k] = x /\ k # 1
        BY <4>1, <3>1, <2>7
      <4>3. k - 1 \in 1 .. Len(paths) /\ saved[k] = paths[k - 1]
        BY <4>2, <2>7, <1>1
      <4> QED
        BY <4>2, <4>3, <1>1 DEF PathSet
    <3>3. ASSUME NEW x \in PathSet(list) PROVE x \in Dirs!PathsOf(saved)
      <4>1. PICK k \in 1 .. Len(paths) : x = paths[k] /\ x \in Path
        BY <1>1 DEF PathSet
      <4>2. saved[k + 1] = x /\ k + 1 \in DOMAIN saved
        BY <4>1, <2>7, <1>1
      <4> QED
        BY <4>1, <4>2 DEF Dirs!PathsOf, Dirs!ToSet
    <3> QED
      BY <3>2, <3>3
  <2>10. Dirs!DefaultPath(saved) = Dirs!DefaultOf(list)
    <3>1. saved # <<>> /\ saved[1] \notin Path
      BY <2>5, <2>7, <1>1, DirsAssumption
    <3>2. saved[1] + 2 \in DOMAIN saved /\ saved[saved[1] + 2] = paths[i]
      BY <2>5, <2>7, <1>1
    <3> QED
      BY <3>1, <3>2, <2>5 DEF Dirs!DefaultPath, Dirs!Indexed
  <2> QED
    BY <2>8, <2>9, <2>10 DEF saved
<1> QED
  BY <1>2, <1>3

\* What a client takes has the paths and the default of the list.
LEMMA TakenInFacts ==
  ASSUME NEW l \in Dirs!RawList, Proper(l)
  PROVE  LET list == Dirs!TransformRaw(l) IN
         /\ Shape(list) /\ PathSet(list) = Dirs!PathsOf(l) /\ Dirs!DefaultOf(list) = Dirs!DefaultPath(l)
         /\ Dirs!DefaultOf(list) = None => list = <<>>
<1> DEFINE list == Dirs!TransformRaw(l)
<1>1. /\ l \in Seq(Path \cup Nat) /\ Len(l) \in Nat /\ DOMAIN l = 1 .. Len(l)
      /\ \A k \in 2 .. Len(l) : l[k] \in Path
  BY DEF Dirs!RawList
<1>0. list \in Seq(Dirs!Dir)
  BY TakenType
<1>2. CASE l = <<>>
  <2>1. list = <<>>
    BY <1>2 DEF Dirs!TransformRaw
  <2>2. PathSet(list) = {} /\ Selected(list) = {} /\ Defaults(list) = {}
    BY <2>1 DEF PathSet, Selected, Defaults
  <2>3. Dirs!DefaultOf(list) = None
    BY <1>0, <2>2, MarkedPath
  <2>4. Shape(list)
    BY <2>2 DEF Shape, Marks
  <2> QED
    BY <1>2, <2>1, <2>2, <2>3, <2>4 DEF Dirs!PathsOf, Dirs!ToSet, Dirs!DefaultPath, Dirs!Indexed
<1>3. CASE l # <<>>
  <2>1. PICK n \in 1 .. Len(l) - 1 : l[1] = n - 1 /\ \A k \in 1 .. n - 1 : l[k + 1] # l[n + 1]
    BY <1>3 DEF Proper
  <2>2. list = [k \in 1 .. Len(l) - 1 |->
          [path |-> l[k + 1], default |-> l[1] = k - 1, selected |-> l[1] = k - 1]]
    BY <1>1, <2>1 DEF Dirs!TransformRaw
  <2> HIDE DEF list
  <2>3. /\ DOMAIN list = 1 .. Len(l) - 1
        /\ \A k \in 1 .. Len(l) - 1 : list[k].path = l[k + 1] /\ list[k].path \in Path
    BY <2>2, <1>1
  <2>4. \A k \in 1 .. Len(l) - 1 : (list[k].default <=> k = n) /\ (list[k].selected <=> k = n)
    <3>1. \A k \in 1 .. Len(l) - 1 : l[1] = k - 1 <=> k = n
      BY <1>1, <2>1
    <3>2. \A k \in 1 .. Len(l) - 1 :
            list[k] = [path |-> l[k + 1], default |-> l[1] = k - 1, selected |-> l[1] = k - 1]
      BY <2>2, Zenon
    <3>3. ASSUME NEW k \in 1 .. Len(l) - 1 PROVE (list[k].default <=> k = n) /\ (list[k].selected <=> k = n)
      <4>1. CASE k = n
        <5>1. (l[1] = k - 1) = TRUE
          BY <3>1, <4>1
        <5>2. list[k] = [path |-> l[k + 1], default |-> TRUE, selected |-> TRUE]
          BY <3>2, <5>1, Zenon
        <5> QED
          BY <4>1, <5>2
      <4>2. CASE k # n
        <5>1. (l[1] = k - 1) = FALSE
          BY <3>1, <4>2
        <5>2. list[k] = [path |-> l[k + 1], default |-> FALSE, selected |-> FALSE]
          BY <3>2, <5>1, Zenon
        <5> QED
          BY <4>2, <5>2
      <4> QED
        BY <4>1, <4>2
    <3> QED
      BY <3>3
  <2>5. Selected(list) = {n} /\ Defaults(list) = {n}
    <3>1. n \in DOMAIN list
      BY <2>1, <2>3
    <3> QED
      BY <2>3, <2>4, <3>1, Zenon DEF Selected, Defaults
  <2>6. Dirs!DefaultOf(list) = list[n].path
    BY <1>0, <2>5, DefaultFacts DEF Marked
  <2>7. \A i \in DOMAIN list : i < n => list[i].path # list[n].path
    BY <1>1, <2>1, <2>3
  <2>8. Shape(list)
    BY <2>5, <2>6, <2>7 DEF Shape, Marks
  <2>9. l[1] \notin Path
    BY <1>1, <2>1, DirsAssumption
  <2>10. PathSet(list) = Dirs!PathsOf(l)
    <3>1. ASSUME NEW x \in Dirs!PathsOf(l) PROVE x \in PathSet(list)
      <4>1. PICK k \in 1 .. Len(l) : l[k] = x /\ x \in Path /\ k # 1
        BY <1>1, <2>9 DEF Dirs!PathsOf, Dirs!ToSet
      <4>2. k - 1 \in DOMAIN list /\ list[k - 1].path = x
        BY <4>1, <2>3, <1>1
      <4> QED
        BY <4>2 DEF PathSet
    <3>2. ASSUME NEW x \in PathSet(list) PROVE x \in Dirs!PathsOf(l)
      <4>1. PICK k \in 1 .. Len(l) - 1 : x = l[k + 1] /\ x \in Path
        BY <2>3 DEF PathSet
      <4>2. k + 1 \in DOMAIN l
        BY <1>1
      <4> QED
        BY <4>1, <4>2 DEF Dirs!PathsOf, Dirs!ToSet
    <3> QED
      BY <3>1, <3>2
  <2>11. Dirs!DefaultPath(l) = list[n].path
    <3>1. l[1] + 2 \in DOMAIN l /\ l[l[1] + 2] = l[n + 1]
      BY <1>1, <2>1
    <3> QED
      BY <1>3, <2>9, <3>1, <2>3, <2>1 DEF Dirs!DefaultPath, Dirs!Indexed
  <2>12. Dirs!DefaultOf(list) # None
    BY <2>6, <2>3, <2>1, DirsAssumption
  <2> QED
    BY <2>6, <2>8, <2>10, <2>11, <2>12 DEF list
<1> QED
  BY <1>2, <1>3

\* A list that the page would save as it is, is such a list.
LEMMA InitialProper ==
  ASSUME NEW l \in Dirs!RawList, Dirs!ToSave(Dirs!TransformRaw(l)) = l
  PROVE  Proper(l)
<1> DEFINE list == Dirs!TransformRaw(l)
<1>1. list \in Seq(Dirs!Dir) /\ Len(l) \in Nat
  BY TakenType DEF Dirs!RawList
<1>2. list = <<>> \/ Len(list) = Len(l) - 1
  BY <1>1 DEF Dirs!TransformRaw
<1> HIDE DEF list
<1>3. Dirs!DefaultOf(list) = None => Len(l) = Len(list)
  BY <1>1, PathFacts DEF Dirs!ToSave, list
<1>4. list = <<>> \/ Dirs!DefaultOf(list) # None
  BY <1>1, <1>2, <1>3
<1> QED
  BY <1>1, <1>4, SavedFacts DEF list
-----------------------------------------------------------------------------
\* Another selection leaves the paths and the default alone.
LEMMA WithSelectedFacts ==
  ASSUME NEW list \in Seq(Dirs!Dir), NEW path
  PROVE  LET new == Dirs!WithSelected(list, path) IN
         /\ new \in Seq(Dirs!Dir) /\ DOMAIN new = DOMAIN list /\ Dirs!Paths(new) = Dirs!Paths(list)
         /\ \A k \in DOMAIN list : new[k].path = list[k].path
         /\ PathSet(new) = PathSet(list) /\ Dirs!DefaultOf(new) = Dirs!DefaultOf(list)
         /\ Selected(new) = {k \in DOMAIN list : list[k].path = path}
         /\ Defaults(new) = Defaults(list)
         /\ list = <<>> => new = <<>>
<1> DEFINE new == Dirs!WithSelected(list, path)
<1>1. new = [k \in DOMAIN list |-> [list[k] EXCEPT !.selected = (list[k].path = path)]]
  BY DEF Dirs!WithSelected
<1>2. DOMAIN list = 1 .. Len(list) /\ Len(list) \in Nat /\ \A k \in DOMAIN list : list[k] \in Dirs!Dir
  OBVIOUS
<1> HIDE DEF new
<1>3. DOMAIN new = DOMAIN list
  BY <1>1
<1>4. ASSUME NEW k \in DOMAIN list
      PROVE  /\ new[k] \in Dirs!Dir /\ new[k].path = list[k].path
             /\ new[k].default <=> list[k].default
             /\ new[k].selected <=> list[k].path = path
  <2>1. new[k] = [list[k] EXCEPT !.selected = (list[k].path = path)]
    BY <1>1, Zenon
  <2>2. list[k] \in Dirs!Dir
    BY <1>2
  <2>3. PICK same \in BOOLEAN : same = (list[k].path = path)
    BY Zenon
  <2>4. new[k] = [list[k] EXCEPT !.selected = same]
    BY <2>1, <2>3, Zenon
  <2>5. /\ new[k] \in Dirs!Dir /\ new[k].path = list[k].path
        /\ new[k].default <=> list[k].default
        /\ new[k].selected <=> same
    BY <2>2, <2>4 DEF Dirs!Dir
  <2> QED
    BY <2>3, <2>5, Zenon
<1>5. new \in Seq(Dirs!Dir)
  <2>1. \A k \in 1 .. Len(list) : new[k] \in Dirs!Dir
    BY <1>2, <1>4
  <2>2. new = [k \in 1 .. Len(list) |-> new[k]]
    BY <1>1, <1>2
  <2> QED
    BY <1>2, <2>1, <2>2, IsASeq
<1>6. Selected(new) = {k \in DOMAIN list : list[k].path = path} /\ Defaults(new) = Defaults(list)
  BY <1>3, <1>4, Zenon DEF Selected, Defaults
<1>7. PathSet(new) = PathSet(list) /\ Dirs!Paths(new) = Dirs!Paths(list)
  <2>1. \A k \in DOMAIN list : new[k].path = list[k].path
    BY <1>4
  <2> QED
    BY <1>3, <2>1 DEF PathSet, Dirs!Paths
<1>8. Dirs!DefaultOf(new) = Dirs!DefaultOf(list)
  <2>1. Marked(Dirs!DefaultOf(list), list, Defaults(list)) /\ Marked(Dirs!DefaultOf(new), new, Defaults(list))
    BY <1>5, <1>6, DefaultFacts
  <2>2. Defaults(list) \subseteq DOMAIN list /\ \A j, k \in DOMAIN list : j <= k /\ k <= j => j = k
    BY <1>2 DEF Defaults
  <2>3. \A k \in Defaults(list) : new[k].path = list[k].path
    BY <2>2, <1>4
  <2> QED
    BY <2>1, <2>2, <2>3 DEF Marked, IsFirst
<1>9. list = <<>> => new = <<>>
  BY <1>1
<1> QED
  BY <1>3, <1>4, <1>5, <1>6, <1>7, <1>8, <1>9 DEF new

\* Another default leaves the paths alone.
LEMMA WithDefaultFacts ==
  ASSUME NEW list \in Seq(Dirs!Dir), NEW path
  PROVE  LET new == Dirs!WithDefault(list, path) IN
         /\ new \in Seq(Dirs!Dir) /\ DOMAIN new = DOMAIN list
         /\ PathSet(new) = PathSet(list)
         /\ path \in PathSet(list) => Dirs!DefaultOf(new) = path
         /\ list = <<>> => new = <<>>
<1> DEFINE new == Dirs!WithDefault(list, path)
<1>1. new = [k \in DOMAIN list |-> [list[k] EXCEPT !.default = (list[k].path = path)]]
  BY DEF Dirs!WithDefault
<1>2. DOMAIN list = 1 .. Len(list) /\ Len(list) \in Nat /\ \A k \in DOMAIN list : list[k] \in Dirs!Dir
  OBVIOUS
<1> HIDE DEF new
<1>3. DOMAIN new = DOMAIN list
  BY <1>1
<1>4. ASSUME NEW k \in DOMAIN list
      PROVE  /\ new[k] \in Dirs!Dir /\ new[k].path = list[k].path
             /\ new[k].default <=> list[k].path = path
  <2>1. new[k] = [list[k] EXCEPT !.default = (list[k].path = path)]
    BY <1>1, Zenon
  <2>2. list[k] \in Dirs!Dir
    BY <1>2
  <2>3. PICK same \in BOOLEAN : same = (list[k].path = path)
    BY Zenon
  <2>4. new[k] = [list[k] EXCEPT !.default = same]
    BY <2>1, <2>3, Zenon
  <2>5. /\ new[k] \in Dirs!Dir /\ new[k].path = list[k].path
        /\ new[k].default <=> same
    BY <2>2, <2>4 DEF Dirs!Dir
  <2> QED
    BY <2>3, <2>5, Zenon
<1>5. new \in Seq(Dirs!Dir)
  <2>1. \A k \in 1 .. Len(list) : new[k] \in Dirs!Dir
    BY <1>2, <1>4
  <2>2. new = [k \in 1 .. Len(list) |-> new[k]]
    BY <1>1, <1>2
  <2> QED
    BY <1>2, <2>1, <2>2, IsASeq
<1>6. Defaults(new) = {k \in DOMAIN list : list[k].path = path}
  BY <1>3, <1>4, Zenon DEF Defaults
<1>7. PathSet(new) = PathSet(list)
  <2>1. \A k \in DOMAIN list : new[k].path = list[k].path
    BY <1>4
  <2> QED
    BY <1>3, <2>1 DEF PathSet
<1>8. ASSUME path \in PathSet(list) PROVE Dirs!DefaultOf(new) = path
  <2>1. Defaults(new) # {}
    BY <1>6, <1>8 DEF PathSet
  <2>2. \A k \in Defaults(new) : new[k].path = path
    BY <1>4, <1>6
  <2> QED
    BY <1>5, <2>1, <2>2, DefaultFacts DEF Marked
<1>9. list = <<>> => new = <<>>
  BY <1>1
<1> QED
  BY <1>3, <1>5, <1>7, <1>8, <1>9 DEF new

\* The root dirs of a list at some places.
PartOf(part, list, places) ==
  /\ \A k \in DOMAIN part : \E i \in DOMAIN list : i \in places /\ part[k] = list[i]
  /\ \A i \in DOMAIN list : i \in places => \E k \in DOMAIN part : part[k] = list[i]

LEMMA ChosenDirs ==
  ASSUME NEW list \in Seq(Dirs!Dir), NEW places
  PROVE  Dirs!Chosen(list, places) \in Seq(Dirs!Dir) /\ PartOf(Dirs!Chosen(list, places), list, places)
<1> DEFINE part == Dirs!Chosen(list, places)
<1>1. part \in Seq(Dirs!Dir) /\ Collected(list, places, Len(list), part)
  BY ChosenFacts DEF Dirs!Chosen, Chosen
<1>2. DOMAIN list = 1 .. Len(list)
  OBVIOUS
<1> HIDE DEF part
<1>3. PICK at \in [DOMAIN part -> DOMAIN list \cap places] :
        /\ \A k \in DOMAIN part : part[k] = list[at[k]]
        /\ \A i \in DOMAIN list \cap places : \E k \in DOMAIN part : at[k] = i
  BY <1>1, <1>2 DEF Collected
<1>4. ASSUME NEW k \in DOMAIN part PROVE \E i \in DOMAIN list : i \in places /\ part[k] = list[i]
  BY <1>3
<1>5. ASSUME NEW i \in DOMAIN list, i \in places PROVE \E k \in DOMAIN part : part[k] = list[i]
  BY <1>3, <1>5
<1> QED
  BY <1>1, <1>4, <1>5 DEF part, PartOf
-----------------------------------------------------------------------------
DialogType == [what : {"add", "edit"}, list : Seq(Dirs!Dir), current : BOOLEAN]

DirsTyped ==
  /\ raw \in Dirs!RawList
  /\ dirs \in [Client -> Seq(Dirs!Dir)]
  /\ dialog \in [Client -> DialogType \cup {None}]
  /\ patches \in [Client -> Seq(Dirs!RawList)] /\ pushes \in [Client -> Seq(Dirs!RawList)]
  /\ edits \in 0 .. MaxEdits
  /\ wanted \subseteq Path /\ gone \subseteq Path /\ chosen \in Path \cup {None}
  /\ unsavedDirs \subseteq Client /\ crossed \in BOOLEAN /\ defaultless \in BOOLEAN

\* Nothing happened that excuses a list.
Fair == ~crossed /\ ~defaultless
NoPatches == \A c \in Client : patches[c] = <<>>

\* A list as the users want it, in a client and at the server.
Meant(paths, default) == wanted \subseteq paths /\ paths \cap gone = {} /\ default = chosen
Fits(list) ==
  /\ Meant(PathSet(list), Dirs!DefaultOf(list)) /\ Shape(list)
  /\ chosen = None => list = <<>>
SentOK(l) == Proper(l) /\ Meant(Dirs!PathsOf(l), Dirs!DefaultPath(l))

\* The last list on its way to a client is the one of the server.
NewestInv == \A c \in Client : pushes[c] # <<>> => pushes[c][Len(pushes[c])] = raw

\* The copy of a dialog is the list, if it was not replaced meanwhile, and one that
\* edits has a selection to edit.
DialogInv ==
  \A c \in Client : dialog[c] # None =>
    /\ dialog[c].current => dialog[c].list = dirs[c]
    /\ dialog[c].what = "edit" => Dirs!SelectedOf(dialog[c].list) # None

\* One save at a time, and no dialog meanwhile.
OneInv ==
  Fair => \A c \in Client : patches[c] # <<>> =>
    /\ Len(patches[c]) = 1
    /\ \A d \in Client : dialog[d] = None /\ (d # c => patches[d] = <<>>)

\* The list of the server will be as the users want it, and is if no save is on its way.
ServerInv ==
  Fair => /\ NoPatches => SentOK(raw)
          /\ \A c \in Client : patches[c] # <<>> => SentOK(patches[c][1])

\* So is the list of a client that no list is on its way to.
ClientsInv ==
  Fair /\ NoPatches => \A c \in Client : pushes[c] = <<>> =>
    /\ Fits(dirs[c])
    /\ c \notin unsavedDirs => Dirs!Paths(dirs[c]) = Dirs!Paths(Dirs!TransformRaw(raw))

DirsInv == DirsTyped /\ NewestInv /\ DialogInv /\ OneInv /\ ServerInv /\ ClientsInv

-----------------------------------------------------------------------------
\* What a client takes is as the users want it, if the server's list is.
LEMMA TakenFits ==
  ASSUME NEW l \in Dirs!RawList, SentOK(l)
  PROVE  Fits(Dirs!TransformRaw(l))
BY TakenInFacts DEF SentOK, Meant, Fits

\* The server starts with the list that the users want, if it is proper.
LEMMA DirsInitial == Dirs!Init => DirsInv
<1> SUFFICES ASSUME Dirs!Init PROVE DirsInv
  OBVIOUS
<1>1. raw \in Dirs!RawList /\ Dirs!TransformRaw(raw) \in Seq(Dirs!Dir)
  BY TakenType, DirsAssumption DEF Dirs!Init
<1>2. DirsTyped
  <2>1. Dirs!PathsOf(raw) \subseteq Path
    BY DEF Dirs!PathsOf
  <2>2. Dirs!DefaultPath(raw) \in Path \cup {None}
    <3>1. ASSUME Dirs!Indexed(raw), raw[1] + 2 \in DOMAIN raw PROVE raw[raw[1] + 2] \in Path
      <4>1. raw \in Seq(Path \cup Nat) /\ raw # <<>>
        BY <1>1, <3>1 DEF Dirs!RawList, Dirs!Indexed
      <4>2. raw[1] \in Nat
        BY <4>1, <3>1 DEF Dirs!Indexed
      <4>3. raw[1] + 2 > 1
        BY <4>2
      <4> QED
        BY <1>1, <3>1, <4>3 DEF Dirs!RawList
    <3> QED
      BY <3>1 DEF Dirs!DefaultPath
  <2>3. dirs \in [Client -> Seq(Dirs!Dir)]
    BY <1>1 DEF Dirs!Init
  <2>4. <<>> \in Seq(Dirs!RawList) /\ (Dirs!ToSave(Dirs!TransformRaw(raw)) # raw) \in BOOLEAN
    OBVIOUS
  <2>5. defaultless \in BOOLEAN
    BY <2>4, Zenon DEF Dirs!Init
  <2>6. /\ dialog \in [Client -> DialogType \cup {None}]
        /\ patches \in [Client -> Seq(Dirs!RawList)] /\ pushes \in [Client -> Seq(Dirs!RawList)]
    BY <2>4 DEF Dirs!Init
  <2>7. edits \in 0 .. MaxEdits /\ unsavedDirs \subseteq Client /\ crossed \in BOOLEAN
    <3>1. edits = 0 /\ unsavedDirs = {} /\ crossed = FALSE
      BY Zenon DEF Dirs!Init
    <3>2. edits \in 0 .. MaxEdits
      BY <3>1, DirsAssumption
    <3> QED
      BY <3>1, <3>2, Zenon
  <2>8. wanted \subseteq Path /\ gone \subseteq Path /\ chosen \in Path \cup {None}
    BY <2>1, <2>2, Zenon DEF Dirs!Init
  <2> QED
    BY <1>1, <2>3, <2>5, <2>6, <2>7, <2>8 DEF DirsTyped
<1>3. NewestInv /\ DialogInv /\ OneInv
  BY DEF Dirs!Init, NewestInv, DialogInv, OneInv
<1>4. ASSUME Fair PROVE SentOK(raw)
  <2>1. Dirs!ToSave(Dirs!TransformRaw(raw)) = raw
    BY <1>4 DEF Dirs!Init, Fair
  <2>2. Proper(raw)
    BY <1>1, <2>1, InitialProper
  <2> QED
    BY <2>2 DEF SentOK, Meant, Dirs!Init
<1>5. ASSUME Fair, NEW c \in Client PROVE Fits(dirs[c]) /\ dirs[c] = Dirs!TransformRaw(raw)
  BY <1>1, <1>4, <1>5, TakenFits DEF Dirs!Init
<1>6. ServerInv /\ ClientsInv
  BY <1>4, <1>5 DEF ServerInv, ClientsInv, Dirs!Init
<1> QED
  BY <1>2, <1>3, <1>6 DEF DirsInv

\* When nothing overlaps, the list of a client is as the users want it.
LEMMA AloneFits ==
  ASSUME DirsInv, NEW c \in Client, Fair, ~Dirs!Overlaps(c)
  PROVE  NoPatches /\ Fits(dirs[c])
<1>1. patches[c] = <<>> /\ pushes[c] = <<>> /\ \A d \in Client \ {c} : patches[d] = <<>>
  BY DEF Dirs!Overlaps, Dirs!Others
<1>2. NoPatches
  BY <1>1 DEF NoPatches
<1> QED
  BY <1>1, <1>2 DEF DirsInv, ClientsInv

\* A list that is saved while nothing overlaps.
LEMMA SaveStep ==
  ASSUME DirsInv, NEW c \in Client, NEW list \in Seq(Dirs!Dir),
         dirs' = [dirs EXCEPT ![c] = list], Dirs!Save(c, list),
         dialog' = [dialog EXCEPT ![c] = None], UNCHANGED <<raw, pushes>>,
         Fair' => /\ Fair /\ ~Dirs!Overlaps(c)
                  /\ Meant(PathSet(list), Dirs!DefaultOf(list))'
                  /\ chosen' = None => list = <<>>
  PROVE  NewestInv' /\ DialogInv' /\ OneInv' /\ ServerInv' /\ ClientsInv'
<1> DEFINE saved == Dirs!ToSave(list)
<1>0. DirsTyped /\ saved \in Dirs!RawList
  BY SavedType DEF DirsInv
<1>1. patches' = [patches EXCEPT ![c] = Append(@, saved)]
  BY DEF Dirs!Save
<1> HIDE DEF saved
<1>2. patches'[c] = Append(patches[c], saved) /\ patches[c] \in Seq(Dirs!RawList) /\ \A d \in Client \ {c} : patches'[d] = patches[d]
  BY <1>0, <1>1 DEF DirsTyped
<1>3. patches'[c] # <<>>
  BY <1>0, <1>2
<1>4. dialog'[c] = None /\ \A d \in Client \ {c} : dialog'[d] = dialog[d] /\ dirs'[d] = dirs[d]
  BY <1>0 DEF DirsTyped
<1>5. NewestInv'
  BY DEF NewestInv, DirsInv
<1>6. DialogInv'
  BY <1>4 DEF DirsInv, DialogInv
<1>7. ASSUME Fair'
      PROVE  /\ patches'[c] = <<saved>>
             /\ \A d \in Client : dialog'[d] = None /\ (d # c => patches'[d] = <<>>)
  <2>1. \A d \in Client \ {c} : dialog[d] = None /\ patches[d] = <<>>
    BY <1>7 DEF Dirs!Overlaps, Dirs!Others
  <2>2. patches[c] = <<>>
    BY <1>7 DEF Dirs!Overlaps
  <2> QED
    BY <1>2, <1>4, <2>1, <2>2, <1>0
<1>8. OneInv'
  <2> SUFFICES ASSUME Fair', NEW d \in Client, patches'[d] # <<>>
               PROVE  Len(patches'[d]) = 1 /\ \A e \in Client : dialog'[e] = None /\ (e # d => patches'[e] = <<>>)
    BY DEF OneInv
  <2>1. d = c
    BY <1>7
  <2> QED
    BY <1>7, <2>1
<1>9. ASSUME Fair' PROVE SentOK(saved)'
  <2>1. Dirs!DefaultOf(list) # None \/ list = <<>>
    BY <1>9 DEF Meant
  <2>2. Proper(saved) /\ Dirs!PathsOf(saved) = PathSet(list) /\ Dirs!DefaultPath(saved) = Dirs!DefaultOf(list)
    BY <2>1, SavedFacts DEF saved
  <2> QED
    BY <1>9, <2>2 DEF SentOK, Meant
<1>10. ~NoPatches'
  BY <1>3 DEF NoPatches
<1>11. ServerInv' /\ ClientsInv'
  BY <1>7, <1>9, <1>10 DEF ServerInv, ClientsInv
<1> QED
  BY <1>5, <1>6, <1>8, <1>11
\* The types after a save.
LEMMA SaveTyped ==
  ASSUME DirsTyped, NEW c \in Client, NEW list \in Seq(Dirs!Dir),
         dirs' = [dirs EXCEPT ![c] = list], Dirs!Save(c, list),
         dialog' = [dialog EXCEPT ![c] = None], UNCHANGED <<raw, pushes>>,
         edits' \in 0 .. MaxEdits, wanted' \subseteq Path, gone' \subseteq Path,
         chosen' \in Path \cup {None}, crossed' \in BOOLEAN, defaultless' \in BOOLEAN
  PROVE  DirsTyped'
<1> DEFINE saved == Dirs!ToSave(list)
<1>1. saved \in Dirs!RawList
  BY SavedType
<1>2. patches' = [patches EXCEPT ![c] = Append(@, saved)] /\ unsavedDirs' = unsavedDirs \ {c}
  BY DEF Dirs!Save
<1> HIDE DEF saved
<1>3. patches' \in [Client -> Seq(Dirs!RawList)] /\ unsavedDirs' \subseteq Client
  BY <1>1, <1>2 DEF DirsTyped
<1>4. dirs' \in [Client -> Seq(Dirs!Dir)] /\ dialog' \in [Client -> DialogType \cup {None}]
  BY DEF DirsTyped
<1>5. raw' \in Dirs!RawList /\ pushes' \in [Client -> Seq(Dirs!RawList)]
  BY DEF DirsTyped
<1> QED
  BY <1>3, <1>4, <1>5, Zenon DEF DirsTyped

-----------------------------------------------------------------------------
\* A selection is on all root dirs of its path.
LEMMA SelectedShape ==
  ASSUME NEW list \in Seq(Dirs!Dir), NEW path, Shape(list)
  PROVE  Shape(Dirs!WithSelected(list, path))
<1> DEFINE new == Dirs!WithSelected(list, path)
<1>1. /\ DOMAIN new = DOMAIN list /\ \A k \in DOMAIN list : new[k].path = list[k].path
      /\ Selected(new) = {k \in DOMAIN list : list[k].path = path}
      /\ Defaults(new) = Defaults(list)
  BY WithSelectedFacts
<1> HIDE DEF new
<1>2. Defaults(list) \subseteq DOMAIN list
  BY DEF Defaults
<1>3. Marks(new, Selected(new))
  BY <1>1 DEF Marks
<1>4. Marks(new, Defaults(new))
  BY <1>1, <1>2 DEF Marks, Shape
<1>5. \A j \in Selected(new), i \in DOMAIN new : new[i].path = new[j].path => i \in Selected(new)
  BY <1>1
<1> QED
  BY <1>3, <1>4, <1>5 DEF Shape, new

\* Another selection changes nothing else.
LEMMA SelectionStep ==
  ASSUME DirsInv, NEW c \in Client, NEW path,
         dirs' = [dirs EXCEPT ![c] = Dirs!WithSelected(@, path)],
         dialog' = [dialog EXCEPT ![c] = None],
         UNCHANGED <<raw, patches, pushes, edits, Dirs!intent>>
  PROVE  DirsInv'
<1>0. DirsTyped /\ dirs[c] \in Seq(Dirs!Dir)
  BY DEF DirsInv, DirsTyped
<1>1. PICK new \in Seq(Dirs!Dir) :
        /\ dirs' = [dirs EXCEPT ![c] = new]
        /\ Dirs!Paths(new) = Dirs!Paths(dirs[c]) /\ PathSet(new) = PathSet(dirs[c])
        /\ Dirs!DefaultOf(new) = Dirs!DefaultOf(dirs[c]) /\ (dirs[c] = <<>> => new = <<>>)
        /\ Shape(dirs[c]) => Shape(new)
  BY <1>0, WithSelectedFacts, SelectedShape
<1>3. DirsTyped'
  BY <1>0, <1>1 DEF DirsTyped, Dirs!intent
<1>4. \A d \in Client : (d = c /\ dialog'[d] = None /\ dirs'[d] = new) \/ (d # c /\ dialog'[d] = dialog[d] /\ dirs'[d] = dirs[d])
  BY <1>0, <1>1 DEF DirsTyped
<1>5. NewestInv' /\ DialogInv'
  BY <1>4 DEF DirsInv, NewestInv, DialogInv
<1>6. (Fair' <=> Fair) /\ (NoPatches' <=> NoPatches)
  BY DEF Fair, NoPatches, Dirs!intent
<1>7. OneInv'
  BY <1>4, <1>6 DEF DirsInv, OneInv
<1>8. ServerInv'
  BY <1>6 DEF DirsInv, ServerInv, SentOK, Meant, Dirs!intent
<1>9. Fits(dirs[c]) => Fits(new)'
  BY <1>1 DEF Fits, Meant, Dirs!intent
<1>10. \A d \in Client : Fits(dirs[d]) => Fits(dirs[d])'
  BY <1>4, <1>9 DEF Fits, Meant, Dirs!intent
<1>11. ClientsInv'
  BY <1>1, <1>4, <1>6, <1>10 DEF DirsInv, ClientsInv, Dirs!intent
<1> QED
  BY <1>3, <1>5, <1>7, <1>8, <1>11 DEF DirsInv

LEMMA SelectStep ==
  ASSUME DirsInv, NEW c \in Client, NEW path, Dirs!Select(c, path) \/ Dirs!AddKnown(c, path)
  PROVE  DirsInv'
<1>1. CASE Dirs!Select(c, path)
  <2>1. dialog' = [dialog EXCEPT ![c] = None]
    BY <1>1 DEF Dirs!Select, DirsInv, DirsTyped
  <2> QED
    BY <1>1, <2>1, SelectionStep DEF Dirs!Select
<1>2. CASE Dirs!AddKnown(c, path)
  BY <1>2, SelectionStep DEF Dirs!AddKnown, Dirs!Picked
<1> QED
  BY <1>1, <1>2

\* Dialogs open and close.
LEMMA DialogStep ==
  ASSUME DirsInv, NEW c \in Client, Dirs!Cancelled(c) \/ \E what \in {"add", "edit"} : Dirs!OpenDialog(c, what)
  PROVE  DirsInv'
<1>0. DirsTyped
  BY DEF DirsInv
<1>1. UNCHANGED <<raw, dirs, patches, pushes, wanted, gone, chosen, unsavedDirs, defaultless>>
  BY DEF Dirs!Cancelled, Dirs!OpenDialog, Dirs!intent
<1>2. /\ \A d \in Client \ {c} : dialog'[d] = dialog[d]
      /\ \/ dialog'[c] = None /\ crossed' = crossed /\ edits' = edits
         \/ /\ dialog'[c] \in DialogType /\ dialog'[c].list = dirs[c]
            /\ dialog'[c].what = "edit" => Dirs!SelectedOf(dirs[c]) # None
            /\ crossed' = (crossed \/ Dirs!Overlaps(c)) /\ edits < MaxEdits /\ edits' = edits + 1
  <2>1. CASE Dirs!Cancelled(c)
    BY <1>0, <2>1 DEF Dirs!Cancelled, DirsTyped, Dirs!intent
  <2>2. ASSUME NEW what \in {"add", "edit"}, Dirs!OpenDialog(c, what)
        PROVE  /\ \A d \in Client \ {c} : dialog'[d] = dialog[d]
               /\ dialog'[c] \in DialogType /\ dialog'[c].list = dirs[c]
               /\ dialog'[c].what = "edit" => Dirs!SelectedOf(dirs[c]) # None
               /\ crossed' = (crossed \/ Dirs!Overlaps(c)) /\ edits < MaxEdits /\ edits' = edits + 1
    <3>1. dialog' = [dialog EXCEPT ![c] = [what |-> what, list |-> dirs[c], current |-> TRUE]]
      BY <2>2 DEF Dirs!OpenDialog
    <3>2. [what |-> what, list |-> dirs[c], current |-> TRUE] \in DialogType
      BY <1>0 DEF DialogType, DirsTyped
    <3>3. crossed' = (crossed \/ Dirs!Overlaps(c)) /\ edits < MaxEdits /\ edits' = edits + 1
      BY <2>2, Zenon DEF Dirs!OpenDialog, Dirs!Edits
    <3>4. dialog'[c] = [what |-> what, list |-> dirs[c], current |-> TRUE]
      BY <1>0, <3>1 DEF DirsTyped
    <3>5. what = "edit" => Dirs!SelectedOf(dirs[c]) # None
      BY <2>2 DEF Dirs!OpenDialog
    <3> QED
      BY <1>0, <3>1, <3>2, <3>3, <3>4, <3>5 DEF DirsTyped
  <2> QED
    BY <2>1, <2>2
<1>3. (Fair' => Fair /\ (dialog'[c] = None \/ ~Dirs!Overlaps(c))) /\ crossed' \in BOOLEAN
  <2>1. \/ dialog'[c] = None /\ crossed' = crossed
        \/ crossed' = (crossed \/ Dirs!Overlaps(c))
    BY <1>2
  <2>2. crossed \in BOOLEAN /\ defaultless' = defaultless
    BY <1>0, <1>1 DEF DirsTyped
  <2>3. crossed' \in BOOLEAN
    BY <2>1, <2>2, Zenon
  <2>4. Fair' => ~crossed /\ ~defaultless
    BY <2>1, <2>2, Zenon DEF Fair
  <2>5. Fair' => dialog'[c] = None \/ ~Dirs!Overlaps(c)
    BY <2>1, Zenon DEF Fair
  <2> QED
    BY <2>3, <2>4, <2>5, Zenon DEF Fair
<1>4. dialog' \in [Client -> DialogType \cup {None}]
  <2>1. dialog' = [d \in Client |-> dialog'[d]]
    BY <1>0 DEF Dirs!Cancelled, Dirs!OpenDialog, DirsTyped
  <2>2. \A d \in Client : dialog'[d] \in DialogType \cup {None}
    BY <1>0, <1>2 DEF DirsTyped
  <2> QED
    BY <2>1, <2>2
<1>5. edits' \in 0 .. MaxEdits
  <2>1. edits' = edits \/ (edits < MaxEdits /\ edits' = edits + 1)
    BY <1>2
  <2> QED
    BY <1>0, <2>1, DirsAssumption DEF DirsTyped
<1>6. DirsTyped'
  BY <1>0, <1>1, <1>3, <1>4, <1>5 DEF DirsTyped
<1>7. NewestInv' /\ DialogInv'
  BY <1>1, <1>2 DEF DirsInv, NewestInv, DialogInv
<1>8. NoPatches' <=> NoPatches
  BY <1>1 DEF NoPatches
<1>9. OneInv'
  <2> SUFFICES ASSUME Fair', NEW e \in Client, patches'[e] # <<>>
               PROVE  Len(patches'[e]) = 1 /\ \A d \in Client : dialog'[d] = None /\ (d # e => patches'[d] = <<>>)
    BY DEF OneInv
  <2>1. ~NoPatches
    BY <1>1 DEF NoPatches
  <2>2. dialog'[c] = None
    BY <1>3, <2>1, AloneFits
  <2> QED
    BY <1>1, <1>2, <1>3, <2>2 DEF DirsInv, OneInv
<1>10. ServerInv'
  BY <1>1, <1>3, <1>8 DEF DirsInv, ServerInv, SentOK, Meant
<1>11. ClientsInv'
  BY <1>1, <1>3, <1>8 DEF DirsInv, ClientsInv, Fits, Meant
<1> QED
  BY <1>6, <1>7, <1>9, <1>10, <1>11 DEF DirsInv
-----------------------------------------------------------------------------
\* The list with one more root dir.
LEMMA AddedFacts ==
  ASSUME NEW list \in Seq(Dirs!Dir), NEW path \in Path
  PROVE  LET isFirst == Dirs!DefaultOf(list) = None
             added == Append(list, [path |-> path, default |-> isFirst, selected |-> isFirst])
         IN  /\ added \in Seq(Dirs!Dir) /\ PathSet(added) = PathSet(list) \cup {path}
             /\ Dirs!DefaultOf(added) = IF isFirst THEN path ELSE Dirs!DefaultOf(list)
<1>1. PICK isFirst \in BOOLEAN : isFirst = (Dirs!DefaultOf(list) = None)
  BY Zenon
<1> DEFINE rd == [path |-> path, default |-> isFirst, selected |-> isFirst]
           added == Append(list, rd)
<1>2. rd \in Dirs!Dir /\ rd.path = path /\ (rd.default <=> isFirst)
  BY DEF Dirs!Dir
<1>3. DOMAIN list = 1 .. Len(list) /\ Len(list) \in Nat
  OBVIOUS
<1> HIDE DEF rd
<1>4. /\ added \in Seq(Dirs!Dir) /\ DOMAIN added = 1 .. Len(list) + 1
      /\ added[Len(list) + 1] = rd /\ \A k \in 1 .. Len(list) : added[k] = list[k]
  BY <1>2, <1>3
<1> HIDE DEF added
<1>5. PathSet(added) = PathSet(list) \cup {path}
  <2>1. Len(list) + 1 \in DOMAIN added /\ DOMAIN list \subseteq DOMAIN added
    BY <1>3, <1>4
  <2>2. \A k \in DOMAIN added : k \in DOMAIN list \/ k = Len(list) + 1
    BY <1>3, <1>4
  <2> QED
    BY <1>2, <1>3, <1>4, <2>1, <2>2 DEF PathSet
<1>6. Dirs!DefaultOf(added) = IF isFirst THEN path ELSE Dirs!DefaultOf(list)
  <2>1. CASE isFirst
    <3>1. Defaults(list) = {}
      <4>1. Dirs!DefaultOf(list) = None
        BY <1>1, <2>1
      <4>2. \A k \in Defaults(list) : list[k].path \in Path
        BY PathFacts DEF Defaults
      <4> QED
        BY <4>1, <4>2, DefaultFacts, DirsAssumption DEF Marked
    <3>2. Defaults(added) = {Len(list) + 1}
      <4>1. \A k \in 1 .. Len(list) : ~added[k].default
        BY <1>3, <1>4, <3>1 DEF Defaults
      <4>2. added[Len(list) + 1].default
        BY <1>2, <1>4, <2>1
      <4> QED
        BY <1>3, <1>4, <4>1, <4>2 DEF Defaults
    <3> QED
      BY <1>2, <1>4, <2>1, <3>2, DefaultFacts DEF Marked
  <2>2. CASE ~isFirst
    <3>1. Defaults(added) = Defaults(list)
      <4>1. ~added[Len(list) + 1].default
        BY <1>2, <1>4, <2>2
      <4> QED
        BY <1>3, <1>4, <4>1 DEF Defaults
    <3>2. \A k \in Defaults(list) : added[k].path = list[k].path /\ k \in Nat
      BY <1>3, <1>4 DEF Defaults
    <3>3. Marked(Dirs!DefaultOf(list), list, Defaults(list)) /\ Marked(Dirs!DefaultOf(added), added, Defaults(list))
      BY <1>4, <3>1, DefaultFacts
    <3>4. Dirs!DefaultOf(added) = Dirs!DefaultOf(list)
      BY <3>2, <3>3 DEF Marked, IsFirst
    <3> QED
      BY <2>2, <3>4
  <2> QED
    BY <2>1, <2>2
<1> QED
  BY <1>1, <1>4, <1>5, <1>6 DEF added, rd

\* The list with another path for its selection.
LEMMA EditedFacts ==
  ASSUME NEW list \in Seq(Dirs!Dir), NEW path \in Path, Dirs!SelectedOf(list) # None
  PROVE  LET edited == Dirs!SelectedOf(list)
             k == Dirs!SelectInSeq(list, LAMBDA rd : rd.selected)
             renamed == Dirs!WithSelected([list EXCEPT ![k].path = path], path)
         IN  /\ renamed \in Seq(Dirs!Dir)
             /\ PathSet(list) \ {edited} \subseteq PathSet(renamed)
             /\ path \in PathSet(renamed) /\ PathSet(renamed) \subseteq PathSet(list) \cup {path}
             /\ Shape(list) =>
                  Dirs!DefaultOf(renamed) = IF Dirs!DefaultOf(list) = edited THEN path ELSE Dirs!DefaultOf(list)
<1> DEFINE edited == Dirs!SelectedOf(list)
           k == Dirs!SelectInSeq(list, LAMBDA rd : rd.selected)
           new == [list EXCEPT ![k].path = path]
           renamed == Dirs!WithSelected(new, path)
<1>1. DOMAIN list = 1 .. Len(list) /\ Len(list) \in Nat
  OBVIOUS
<1>2. IsFirst(k, Selected(list)) /\ edited = list[k].path
  <2>1. Selected(list) # {}
    BY SelectedFacts DEF Marked
  <2>2. IsFirst(k, Selected(list))
    BY <2>1, SelectedFacts
  <2>3. Selected(list) \subseteq Nat
    BY <1>1 DEF Selected
  <2> HIDE DEF k
  <2>4. \A j \in Selected(list) : IsFirst(j, Selected(list)) => j = k
    BY <2>2, <2>3 DEF IsFirst
  <2> QED
    BY <2>1, <2>2, <2>4, SelectedFacts DEF Marked
<1> HIDE DEF k
<1>3. k \in DOMAIN list /\ list[k] \in Dirs!Dir
  BY <1>2 DEF IsFirst, Selected
<1>4. /\ new \in Seq(Dirs!Dir) /\ DOMAIN new = DOMAIN list /\ new[k].path = path
      /\ new[k].default <=> list[k].default
      /\ \A i \in DOMAIN list \ {k} : new[i] = list[i]
  <2>1. [list[k] EXCEPT !.path = path] \in Dirs!Dir
    BY <1>3 DEF Dirs!Dir
  <2>2. new = [list EXCEPT ![k] = [list[k] EXCEPT !.path = path]]
    OBVIOUS
  <2> QED
    BY <1>1, <1>3, <2>1, <2>2 DEF Dirs!Dir
<1> HIDE DEF new
<1>5. renamed \in Seq(Dirs!Dir) /\ PathSet(renamed) = PathSet(new) /\ Dirs!DefaultOf(renamed) = Dirs!DefaultOf(new)
  BY <1>4, WithSelectedFacts
<1> HIDE DEF renamed
<1>6. /\ PathSet(list) \ {edited} \subseteq PathSet(new)
      /\ path \in PathSet(new) /\ PathSet(new) \subseteq PathSet(list) \cup {path}
  BY <1>2, <1>3, <1>4 DEF PathSet
<1>7. ASSUME Shape(list) PROVE Dirs!DefaultOf(new) = IF Dirs!DefaultOf(list) = edited THEN path ELSE Dirs!DefaultOf(list)
  <2>1. Defaults(new) = Defaults(list) /\ Defaults(list) \subseteq Nat
    BY <1>1, <1>4 DEF Defaults
  <2>2. Marked(Dirs!DefaultOf(list), list, Defaults(list)) /\ Marked(Dirs!DefaultOf(new), new, Defaults(list))
    BY <1>4, <2>1, DefaultFacts
  <2>3. CASE Defaults(list) = {}
    <3>1. edited # None
      OBVIOUS
    <3> QED
      BY <2>2, <2>3, <3>1 DEF Marked
  <2>4. CASE Defaults(list) # {}
    <3>1. PICK j \in Defaults(list) :
            IsFirst(j, Defaults(list)) /\ Dirs!DefaultOf(list) = list[j].path /\ Dirs!DefaultOf(new) = new[j].path
      BY <2>1, <2>2, <2>4 DEF Marked, IsFirst
    <3>2. j \in DOMAIN list
      BY DEF Defaults
    <3>3. ASSUME j # k PROVE list[j].path # edited
      <4>1. SUFFICES ASSUME list[j].path = list[k].path PROVE FALSE
        BY <1>2
      <4>2. k \in Selected(list) /\ (j \in Selected(list) => k <= j)
        BY <1>2 DEF IsFirst
      <4>3. k \in Defaults(list) => j <= k
        BY <3>1 DEF IsFirst
      <4>4. j < k => j \in Selected(list)
        BY <1>7, <3>2, <4>1, <4>2 DEF Shape, Marks
      <4>5. k < j => k \in Defaults(list)
        BY <1>7, <1>3, <3>1, <4>1 DEF Shape, Marks
      <4> QED
        BY <1>1, <1>3, <3>2, <3>3, <4>2, <4>3, <4>4, <4>5
    <3>4. CASE j = k
      BY <1>2, <1>4, <3>1, <3>4
    <3>5. CASE j # k
      BY <1>4, <3>1, <3>2, <3>3, <3>5
    <3> QED
      BY <3>4, <3>5
  <2> QED
    BY <2>3, <2>4
<1> QED
  BY <1>5, <1>6, <1>7 DEF renamed, new, k
\* Add saves the list with one more root dir.
LEMMA AddStep ==
  ASSUME DirsInv, NEW c \in Client, NEW path \in Path, Dirs!Add(c, path)
  PROVE  DirsInv'
<1> DEFINE list == dialog[c].list
           isFirst == Dirs!DefaultOf(list) = None
           added == Append(list, [path |-> path, default |-> isFirst, selected |-> isFirst])
<1>0. DirsTyped /\ dirs[c] \in Seq(Dirs!Dir)
  BY DEF DirsInv, DirsTyped
<1>1. dialog[c] # None /\ dialog[c] \in DialogType /\ list \in Seq(Dirs!Dir)
  BY <1>0 DEF Dirs!Add, Dirs!Picked, DirsTyped, DialogType
<1>2. /\ added \in Seq(Dirs!Dir) /\ PathSet(added) = PathSet(list) \cup {path}
      /\ Dirs!DefaultOf(added) = IF isFirst THEN path ELSE Dirs!DefaultOf(list)
  BY <1>1, AddedFacts
<1>3. /\ dirs' = IF dialog[c].current THEN [dirs EXCEPT ![c] = added] ELSE dirs
      /\ Dirs!Save(c, dirs'[c]) /\ dialog' = [dialog EXCEPT ![c] = None]
      /\ wanted' = wanted \cup {path} /\ gone' = gone \ {path}
      /\ chosen' = IF isFirst THEN path ELSE chosen
      /\ UNCHANGED <<raw, pushes, edits, defaultless>>
  BY DEF Dirs!Add, Dirs!Picked
<1>4. crossed' = (crossed \/ Dirs!Overlaps(c) \/ ~dialog[c].current)
  BY DEF Dirs!Add
<1> HIDE DEF added
<1>5. PICK new \in Seq(Dirs!Dir) : dirs' = [dirs EXCEPT ![c] = new] /\ (dialog[c].current => new = added)
  <2>1. CASE dialog[c].current
    BY <1>2, <1>3, <2>1
  <2>2. CASE ~dialog[c].current
    <3>1. dirs' = [dirs EXCEPT ![c] = dirs[c]]
      BY <1>0, <1>3, <2>2 DEF DirsTyped
    <3> QED
      BY <1>0, <2>2, <3>1
  <2> QED
    BY <2>1, <2>2
<1>6. Dirs!Save(c, new)
  <2>1. dirs'[c] = new
    BY <1>0, <1>5 DEF DirsTyped
  <2> QED
    BY <1>3, <2>1
<1>7. Fair' => Fair /\ ~Dirs!Overlaps(c) /\ dialog[c].current
  BY <1>3, <1>4, Zenon DEF Fair
<1>8. ASSUME Fair'
      PROVE  Meant(PathSet(new), Dirs!DefaultOf(new))' /\ (chosen' = None => new = <<>>)
  <2>1. Fits(dirs[c]) /\ list = dirs[c] /\ new = added
    BY <1>1, <1>5, <1>7, <1>8, AloneFits DEF DirsInv, DialogInv
  <2>2. wanted \subseteq PathSet(list) /\ PathSet(list) \cap gone = {} /\ Dirs!DefaultOf(list) = chosen
    BY <2>1 DEF Fits, Meant
  <2>3. wanted' \subseteq PathSet(new) /\ PathSet(new) \cap gone' = {} /\ Dirs!DefaultOf(new) = chosen'
    BY <1>2, <1>3, <2>1, <2>2
  <2>4. chosen' # None
    BY <1>3, <2>2, DirsAssumption
  <2> QED
    BY <2>3, <2>4 DEF Meant
<1>9. DirsTyped'
  <2>1. crossed' \in BOOLEAN /\ defaultless' \in BOOLEAN
    <3>1. crossed' \in BOOLEAN
      BY <1>4, Zenon
    <3> QED
      BY <1>0, <1>3, <3>1 DEF DirsTyped
  <2>2. edits' \in 0 .. MaxEdits /\ wanted' \subseteq Path /\ gone' \subseteq Path /\ chosen' \in Path \cup {None}
    BY <1>0, <1>3 DEF DirsTyped
  <2> QED
    BY <1>0, <1>3, <1>5, <1>6, <2>1, <2>2, SaveTyped
<1>10. NewestInv' /\ DialogInv' /\ OneInv' /\ ServerInv' /\ ClientsInv'
  BY <1>3, <1>5, <1>6, <1>7, <1>8, SaveStep
<1> QED
  BY <1>9, <1>10 DEF DirsInv

\* Edit saves the list with another path for the selection.
LEMMA EditStep ==
  ASSUME DirsInv, NEW c \in Client, NEW path \in Path, Dirs!Edit(c, path)
  PROVE  DirsInv'
<1> DEFINE list == dialog[c].list
           edited == Dirs!SelectedOf(list)
           k == Dirs!SelectInSeq(list, LAMBDA rd : rd.selected)
           renamed == Dirs!WithSelected([list EXCEPT ![k].path = path], path)
<1>0. DirsTyped /\ dirs[c] \in Seq(Dirs!Dir)
  BY DEF DirsInv, DirsTyped
<1>1. dialog[c] # None /\ dialog[c] \in DialogType /\ list \in Seq(Dirs!Dir) /\ dialog[c].what = "edit"
  BY <1>0 DEF Dirs!Edit, Dirs!Picked, DirsTyped, DialogType
<1>2. edited # None /\ edited \in Path
  <2>1. edited # None
    BY <1>1 DEF DirsInv, DialogInv
  <2> QED
    BY <1>1, <2>1, MarkedPath, PathFacts
<1>3. /\ renamed \in Seq(Dirs!Dir)
      /\ PathSet(list) \ {edited} \subseteq PathSet(renamed)
      /\ path \in PathSet(renamed) /\ PathSet(renamed) \subseteq PathSet(list) \cup {path}
      /\ Shape(list) => Dirs!DefaultOf(renamed) = IF Dirs!DefaultOf(list) = edited THEN path ELSE Dirs!DefaultOf(list)
  BY <1>1, <1>2, EditedFacts
<1>4. /\ dirs' = [dirs EXCEPT ![c] = IF dialog[c].current THEN renamed ELSE Dirs!WithSelected(@, path)]
      /\ Dirs!Save(c, dirs'[c]) /\ dialog' = [dialog EXCEPT ![c] = None]
      /\ wanted' = (wanted \ {edited}) \cup {path}
      /\ gone' = IF Dirs!Has(renamed, edited) THEN gone \ {path} ELSE (gone \cup {edited}) \ {path}
      /\ chosen' = IF Dirs!DefaultOf(list) = edited THEN path ELSE chosen
      /\ UNCHANGED <<raw, pushes, edits, defaultless>>
  BY DEF Dirs!Edit, Dirs!Picked
<1>5. crossed' = (crossed \/ Dirs!Overlaps(c) \/ ~dialog[c].current)
  BY DEF Dirs!Edit
<1> HIDE DEF renamed, edited
<1>6. PICK new \in Seq(Dirs!Dir) : dirs' = [dirs EXCEPT ![c] = new] /\ (dialog[c].current => new = renamed)
  <2>1. CASE dialog[c].current
    BY <1>3, <1>4, <2>1
  <2>2. CASE ~dialog[c].current
    <3>1. Dirs!WithSelected(dirs[c], path) \in Seq(Dirs!Dir)
      BY <1>0, WithSelectedFacts
    <3> QED
      BY <1>4, <2>2, <3>1
  <2> QED
    BY <2>1, <2>2
<1>7. Dirs!Save(c, new)
  <2>1. dirs'[c] = new
    BY <1>0, <1>6 DEF DirsTyped
  <2> QED
    BY <1>4, <2>1
<1>8. Fair' => Fair /\ ~Dirs!Overlaps(c) /\ dialog[c].current
  BY <1>4, <1>5, Zenon DEF Fair
<1>9. ASSUME Fair'
      PROVE  Meant(PathSet(new), Dirs!DefaultOf(new))' /\ (chosen' = None => new = <<>>)
  <2>1. Fits(dirs[c]) /\ list = dirs[c] /\ new = renamed
    BY <1>1, <1>6, <1>8, <1>9, AloneFits DEF DirsInv, DialogInv
  <2>2. /\ wanted \subseteq PathSet(list) /\ PathSet(list) \cap gone = {} /\ Dirs!DefaultOf(list) = chosen
        /\ Shape(list) /\ (chosen = None => list = <<>>)
    BY <2>1 DEF Fits, Meant
  <2>3. wanted' \subseteq PathSet(new)
    BY <1>3, <1>4, <2>1, <2>2
  <2>4. PathSet(new) \cap gone' = {}
    <3>1. Dirs!Has(renamed, edited) <=> edited \in PathSet(renamed)
      BY <1>3, PathFacts
    <3> QED
      BY <1>3, <1>4, <2>1, <2>2, <3>1
  <2>5. Dirs!DefaultOf(new) = chosen'
    BY <1>3, <1>4, <2>1, <2>2
  <2>6. chosen' # None
    <3>1. list # <<>>
      <4>1. edited \in PathSet(list)
        BY <1>1, <1>2, MarkedPath DEF edited
      <4> QED
        BY <4>1 DEF PathSet
    <3> QED
      BY <1>4, <2>2, <3>1, DirsAssumption
  <2> QED
    BY <2>3, <2>4, <2>5, <2>6 DEF Meant
<1>10. DirsTyped'
  <2>1. crossed' \in BOOLEAN /\ defaultless' \in BOOLEAN
    <3>1. crossed' \in BOOLEAN
      BY <1>5, Zenon
    <3> QED
      BY <1>0, <1>4, <3>1 DEF DirsTyped
  <2>2. edits' \in 0 .. MaxEdits /\ wanted' \subseteq Path /\ gone' \subseteq Path /\ chosen' \in Path \cup {None}
    BY <1>0, <1>2, <1>4 DEF DirsTyped
  <2> QED
    BY <1>0, <1>4, <1>6, <1>7, <2>1, <2>2, SaveTyped
<1>11. NewestInv' /\ DialogInv' /\ OneInv' /\ ServerInv' /\ ClientsInv'
  BY <1>4, <1>6, <1>7, <1>8, <1>9, SaveStep
<1> QED
  BY <1>10, <1>11 DEF DirsInv

\* SetDefault saves the list with the selection for its default.
LEMMA SetDefaultStep ==
  ASSUME DirsInv, NEW c \in Client, Dirs!SetDefault(c)
  PROVE  DirsInv'
<1> DEFINE list == dirs[c]
           selected == Dirs!SelectedOf(list)
<1>0. DirsTyped /\ list \in Seq(Dirs!Dir)
  BY DEF DirsInv, DirsTyped
<1>1. /\ dialog[c] = None /\ selected # None
      /\ dirs' = [dirs EXCEPT ![c] = Dirs!WithDefault(@, selected)]
      /\ Dirs!Save(c, dirs'[c]) /\ edits < MaxEdits /\ edits' = edits + 1
      /\ chosen' = selected
      /\ UNCHANGED <<raw, dialog, pushes, wanted, gone, defaultless>>
  BY DEF Dirs!SetDefault, Dirs!Edits
<1>2. crossed' = (crossed \/ Dirs!Overlaps(c))
  BY DEF Dirs!SetDefault
<1>3. selected \in PathSet(list) /\ selected \in Path
  BY <1>0, <1>1, MarkedPath, PathFacts
<1> HIDE DEF selected
<1>4. PICK new \in Seq(Dirs!Dir) : /\ dirs' = [dirs EXCEPT ![c] = new]
                                   /\ PathSet(new) = PathSet(list) /\ Dirs!DefaultOf(new) = selected
  <2>1. /\ Dirs!WithDefault(list, selected) \in Seq(Dirs!Dir)
        /\ PathSet(Dirs!WithDefault(list, selected)) = PathSet(list)
        /\ Dirs!DefaultOf(Dirs!WithDefault(list, selected)) = selected
    BY <1>0, <1>3, WithDefaultFacts
  <2> QED
    BY <1>1, <2>1
<1>5. Dirs!Save(c, new) /\ dialog' = [dialog EXCEPT ![c] = None]
  <2>1. dirs'[c] = new /\ dialog = [dialog EXCEPT ![c] = None]
    BY <1>0, <1>1, <1>4 DEF DirsTyped
  <2> QED
    BY <1>1, <2>1
<1>6. Fair' => Fair /\ ~Dirs!Overlaps(c)
  BY <1>1, <1>2, Zenon DEF Fair
<1>7. ASSUME Fair'
      PROVE  Meant(PathSet(new), Dirs!DefaultOf(new))' /\ (chosen' = None => new = <<>>)
  <2>1. Fits(list)
    BY <1>6, <1>7, AloneFits
  <2>2. wanted' \subseteq PathSet(new) /\ PathSet(new) \cap gone' = {} /\ Dirs!DefaultOf(new) = chosen'
    BY <1>1, <1>4, <2>1 DEF Fits, Meant
  <2> QED
    BY <1>1, <2>2 DEF Meant
<1>8. DirsTyped'
  <2>1. crossed' \in BOOLEAN
    BY <1>2, Zenon
  <2>2. /\ edits' \in 0 .. MaxEdits /\ wanted' \subseteq Path /\ gone' \subseteq Path
        /\ chosen' \in Path \cup {None} /\ defaultless' \in BOOLEAN
    BY <1>0, <1>1, <1>3, DirsAssumption DEF DirsTyped
  <2> QED
    BY <1>0, <1>1, <1>4, <1>5, <2>1, <2>2, SaveTyped
<1>9. NewestInv' /\ DialogInv' /\ OneInv' /\ ServerInv' /\ ClientsInv'
  BY <1>1, <1>4, <1>5, <1>6, <1>7, SaveStep
<1> QED
  BY <1>8, <1>9 DEF DirsInv
\* What is left without the selection.
LEMMA RestFacts ==
  ASSUME NEW list \in Seq(Dirs!Dir), Dirs!SelectedOf(list) # None
  PROVE  LET selected == Dirs!SelectedOf(list)
             rest == Dirs!Chosen(list, {k \in DOMAIN list : ~list[k].selected})
         IN  /\ rest \in Seq(Dirs!Dir) /\ PathSet(rest) \subseteq PathSet(list)
             /\ Shape(list) =>
                  /\ PathSet(list) \ {selected} \subseteq PathSet(rest)
                  /\ Dirs!DefaultOf(list) # selected =>
                       selected \notin PathSet(rest) /\ Dirs!DefaultOf(rest) = Dirs!DefaultOf(list)
<1> DEFINE selected == Dirs!SelectedOf(list)
           places == {k \in DOMAIN list : ~list[k].selected}
           rest == Dirs!Chosen(list, places)
<1>2. \A k \in DOMAIN list : k \in places <=> k \notin Selected(list)
  BY Zenon DEF Selected
<1> HIDE DEF places
<1>1. rest \in Seq(Dirs!Dir) /\ PartOf(rest, list, places)
  BY ChosenDirs
<1> HIDE DEF rest
<1>3. \A k \in DOMAIN rest : \E j \in DOMAIN list : j \in places /\ rest[k] = list[j]
  BY <1>1 DEF PartOf
<1>4. \A j \in DOMAIN list : j \in places => \E k \in DOMAIN rest : rest[k] = list[j]
  BY <1>1 DEF PartOf
<1>5. PathSet(rest) \subseteq PathSet(list)
  BY <1>3 DEF PathSet
<1>6. PICK s \in Selected(list) : selected = list[s].path
  BY SelectedFacts DEF Marked
<1>7. ASSUME Shape(list)
      PROVE  /\ PathSet(list) \ {selected} \subseteq PathSet(rest)
             /\ Dirs!DefaultOf(list) # selected =>
                  selected \notin PathSet(rest) /\ Dirs!DefaultOf(rest) = Dirs!DefaultOf(list)
  <2>1. \A j \in Selected(list) : list[j].path = selected
    BY <1>6, <1>7 DEF Shape, Marks, Selected
  <2>2. PathSet(list) \ {selected} \subseteq PathSet(rest)
    <3> SUFFICES ASSUME NEW j \in DOMAIN list, list[j].path # selected
                 PROVE  list[j].path \in PathSet(rest)
      BY DEF PathSet
    <3>1. j \in places
      BY <1>2, <2>1
    <3> QED
      BY <1>4, <3>1 DEF PathSet
  <2>3. ASSUME Dirs!DefaultOf(list) # selected PROVE selected \notin PathSet(rest)
    <3>1. \A j \in DOMAIN list : j \in places => list[j].path # selected
      BY <1>2, <1>6, <1>7, <2>3 DEF Shape
    <3> QED
      BY <1>3, <3>1 DEF PathSet
  <2>4. ASSUME Dirs!DefaultOf(list) # selected PROVE Dirs!DefaultOf(rest) = Dirs!DefaultOf(list)
    <3>1. \A k \in Defaults(rest) : \E j \in Defaults(list) : rest[k] = list[j]
      BY <1>3 DEF Defaults
    <3>2. CASE Defaults(list) = {}
      BY <1>1, <3>1, <3>2, DefaultFacts DEF Marked
    <3>3. CASE Defaults(list) # {}
      <4>1. PICK d \in Defaults(list) : Dirs!DefaultOf(list) = list[d].path
        BY <3>3, DefaultFacts DEF Marked
      <4>2. \A j \in Defaults(list) : list[j].path = Dirs!DefaultOf(list)
        BY <1>7, <4>1 DEF Shape, Marks, Defaults
      <4>3. d \in DOMAIN list /\ d \in places
        BY <1>2, <2>1, <2>4, <4>1 DEF Defaults
      <4>4. PICK k \in DOMAIN rest : rest[k] = list[d]
        BY <1>4, <4>3
      <4>5. k \in Defaults(rest)
        BY <4>4 DEF Defaults
      <4>6. \A i \in Defaults(rest) : rest[i].path = Dirs!DefaultOf(list)
        BY <3>1, <4>2
      <4> QED
        BY <1>1, <4>5, <4>6, DefaultFacts DEF Marked
    <3> QED
      BY <3>2, <3>3
  <2> QED
    BY <2>2, <2>3, <2>4
<1> QED
  BY <1>1, <1>5, <1>7 DEF rest, places

\* RemoveDir saves the list without the selection.
LEMMA RemoveDirStep ==
  ASSUME DirsInv, NEW c \in Client, Dirs!RemoveDir(c)
  PROVE  DirsInv'
<1> DEFINE list == dirs[c]
           selected == Dirs!SelectedOf(list)
           k == Dirs!SelectInSeq(list, LAMBDA rd : rd.selected)
           rest == Dirs!Chosen(list, {i \in DOMAIN list : ~list[i].selected})
           next == IF rest = <<>> THEN None ELSE rest[IF k > 1 THEN k - 1 ELSE 1].path
           kept == IF Dirs!DefaultOf(list) = selected THEN Dirs!WithDefault(rest, selected) ELSE rest
<1>0. DirsTyped /\ list \in Seq(Dirs!Dir)
  BY DEF DirsInv, DirsTyped
<1>1. /\ dialog[c] = None /\ selected # None
      /\ dirs' = [dirs EXCEPT ![c] = Dirs!WithSelected(kept, next)]
      /\ Dirs!Save(c, dirs'[c]) /\ edits < MaxEdits /\ edits' = edits + 1
      /\ wanted' = wanted \ {selected} /\ gone' = gone \cup {selected}
      /\ chosen' = IF rest = <<>> THEN None ELSE chosen
      /\ UNCHANGED <<raw, dialog, pushes>>
  BY DEF Dirs!RemoveDir, Dirs!Edits
<1>2. /\ defaultless' = (defaultless \/ (rest # <<>> /\ Dirs!DefaultOf(list) = selected))
      /\ crossed' = (crossed \/ Dirs!Overlaps(c))
  BY DEF Dirs!RemoveDir
<1>3. selected \in Path
  BY <1>0, <1>1, MarkedPath, PathFacts
<1>4. /\ rest \in Seq(Dirs!Dir) /\ PathSet(rest) \subseteq PathSet(list)
      /\ Shape(list) =>
           /\ PathSet(list) \ {selected} \subseteq PathSet(rest)
           /\ Dirs!DefaultOf(list) # selected =>
                selected \notin PathSet(rest) /\ Dirs!DefaultOf(rest) = Dirs!DefaultOf(list)
  BY <1>0, <1>1, RestFacts
<1> HIDE DEF selected, k, rest, next
<1>5. /\ kept \in Seq(Dirs!Dir) /\ (rest = <<>> => kept = <<>>)
      /\ Dirs!DefaultOf(list) # selected => kept = rest
  BY <1>4, WithDefaultFacts
<1> HIDE DEF kept
<1>6. PICK new \in Seq(Dirs!Dir) : /\ dirs' = [dirs EXCEPT ![c] = new]
                                   /\ PathSet(new) = PathSet(kept) /\ Dirs!DefaultOf(new) = Dirs!DefaultOf(kept)
                                   /\ kept = <<>> => new = <<>>
  BY <1>1, <1>5, WithSelectedFacts
<1>7. Dirs!Save(c, new) /\ dialog' = [dialog EXCEPT ![c] = None]
  <2>1. dirs' = [dirs EXCEPT ![c] = new] /\ dirs \in [Client -> Seq(Dirs!Dir)]
    BY <1>0, <1>6 DEF DirsTyped
  <2>2. dialog[c] = None /\ dialog \in [Client -> DialogType \cup {None}] /\ dialog' = dialog
    BY <1>0, <1>1 DEF DirsTyped
  <2>3. dirs'[c] = new
    BY <2>1
  <2>4. dialog = [dialog EXCEPT ![c] = None]
    BY <2>2
  <2> QED
    BY <1>1, <2>2, <2>3, <2>4
<1>8. Fair' => Fair /\ ~Dirs!Overlaps(c) /\ (rest = <<>> \/ Dirs!DefaultOf(list) # selected)
  BY <1>2, Zenon DEF Fair
<1>9. ASSUME Fair'
      PROVE  Meant(PathSet(new), Dirs!DefaultOf(new))' /\ (chosen' = None => new = <<>>)
  <2>1. Fits(list)
    BY <1>8, <1>9, AloneFits
  <2>2. /\ wanted \subseteq PathSet(list) /\ PathSet(list) \cap gone = {} /\ Dirs!DefaultOf(list) = chosen
        /\ Shape(list) /\ (chosen = None => list = <<>>)
    BY <2>1 DEF Fits, Meant
  <2>3. CASE rest = <<>>
    <3>1. new = <<>> /\ PathSet(new) = {} /\ PathSet(rest) = {}
      BY <1>5, <1>6, <2>3 DEF PathSet
    <3>2. Dirs!DefaultOf(new) = None
      BY <3>1, MarkedPath
    <3>3. wanted' \subseteq PathSet(new) /\ PathSet(new) \cap gone' = {}
      BY <1>1, <1>4, <2>2, <3>1
    <3> QED
      BY <1>1, <2>3, <3>1, <3>2, <3>3 DEF Meant
  <2>4. CASE rest # <<>>
    <3>1. Dirs!DefaultOf(list) # selected /\ kept = rest
      BY <1>5, <1>8, <1>9, <2>4
    <3>2. wanted' \subseteq PathSet(new) /\ PathSet(new) \cap gone' = {} /\ Dirs!DefaultOf(new) = chosen'
      BY <1>1, <1>4, <1>6, <2>2, <2>4, <3>1
    <3>3. list # <<>>
      BY <1>0, <1>1, MarkedPath DEF PathSet, selected
    <3>4. chosen' # None
      BY <1>1, <2>2, <2>4, <3>3
    <3> QED
      BY <3>2, <3>4 DEF Meant
  <2> QED
    BY <2>3, <2>4
<1>10. DirsTyped'
  <2>1. crossed' \in BOOLEAN /\ defaultless' \in BOOLEAN
    BY <1>2, Zenon
  <2>2. /\ edits' \in 0 .. MaxEdits /\ wanted' \subseteq Path /\ gone' \subseteq Path
        /\ chosen' \in Path \cup {None}
    BY <1>0, <1>1, <1>3, DirsAssumption DEF DirsTyped
  <2> QED
    BY <1>0, <1>1, <1>6, <1>7, <2>1, <2>2, SaveTyped
<1>11. NewestInv' /\ DialogInv' /\ OneInv' /\ ServerInv' /\ ClientsInv'
  BY <1>1, <1>6, <1>7, <1>8, <1>9, SaveStep
<1> QED
  BY <1>10, <1>11 DEF DirsInv

\* EditToKnown leaves the selection out of the list and saves nothing.
LEMMA EditToKnownStep ==
  ASSUME DirsInv, NEW c \in Client, NEW path \in Path, Dirs!EditToKnown(c, path)
  PROVE  DirsInv'
<1> DEFINE list == dialog[c].list
           edited == Dirs!SelectedOf(list)
           wasDefault == Dirs!DefaultOf(list) = path
           rest == Dirs!Chosen(list, {i \in DOMAIN list : list[i].path # edited})
           new == [k \in DOMAIN rest |-> [path |-> rest[k].path,
                                            selected |-> rest[k].path = path,
                                            default |-> wasDefault /\ rest[k].path = path]]
<1>0. DirsTyped /\ dirs[c] \in Seq(Dirs!Dir)
  BY DEF DirsInv, DirsTyped
<1>1. dialog[c] # None /\ dialog[c] \in DialogType /\ list \in Seq(Dirs!Dir)
  BY <1>0 DEF Dirs!EditToKnown, Dirs!Picked, DirsTyped, DialogType
<1>2. /\ dirs' = [dirs EXCEPT ![c] = new] /\ dialog' = [dialog EXCEPT ![c] = None]
      /\ wanted' = wanted \ {edited} /\ unsavedDirs' = unsavedDirs \cup {c}
      /\ path \in PathSet(list) /\ path # edited
      /\ UNCHANGED <<raw, patches, pushes, edits, gone, chosen>>
  BY <1>1, PathFacts DEF Dirs!EditToKnown, Dirs!Picked, Dirs!Known
<1>3. /\ defaultless' = (defaultless \/ Dirs!DefaultOf(dirs'[c]) = None)
      /\ crossed' = (crossed \/ ~dialog[c].current)
  BY DEF Dirs!EditToKnown
<1>4. /\ rest \in Seq(Dirs!Dir)
      /\ \A k \in DOMAIN rest : \E i \in DOMAIN list : list[i].path # edited /\ rest[k] = list[i]
      /\ \A i \in DOMAIN list : list[i].path # edited => \E k \in DOMAIN rest : rest[k] = list[i]
  <2> DEFINE places == {i \in DOMAIN list : list[i].path # edited}
  <2>1. rest \in Seq(Dirs!Dir) /\ PartOf(rest, list, places)
    BY <1>1, ChosenDirs
  <2> HIDE DEF edited, rest
  <2> QED
    BY <2>1 DEF PartOf
<1> HIDE DEF edited, rest, wasDefault
<1>5. DOMAIN rest = 1 .. Len(rest) /\ Len(rest) \in Nat /\ DOMAIN new = DOMAIN rest
  BY <1>4
<1>6. ASSUME NEW k \in DOMAIN rest
      PROVE  /\ new[k] \in Dirs!Dir /\ new[k].path = rest[k].path
             /\ new[k].selected <=> rest[k].path = path
             /\ new[k].default <=> wasDefault /\ rest[k].path = path
  <2>1. PICK same \in BOOLEAN, both \in BOOLEAN :
          same = (rest[k].path = path) /\ both = (wasDefault /\ rest[k].path = path)
    BY Zenon
  <2>2. new[k] = [path |-> rest[k].path, selected |-> same, default |-> both]
    BY <2>1, Zenon
  <2>3. rest[k].path \in Path
    BY <1>4, PathFacts
  <2>4. /\ new[k] \in Dirs!Dir /\ new[k].path = rest[k].path
        /\ (new[k].selected <=> same) /\ (new[k].default <=> both)
    BY <2>2, <2>3 DEF Dirs!Dir
  <2> QED
    BY <2>1, <2>4, Zenon
<1>7. new \in Seq(Dirs!Dir)
  <2>1. \A k \in 1 .. Len(rest) : new[k] \in Dirs!Dir
    BY <1>5, <1>6
  <2>2. new = [k \in 1 .. Len(rest) |-> new[k]]
    BY <1>5
  <2> QED
    BY <1>5, <2>1, <2>2, IsASeq
<1>8. /\ Selected(new) = {k \in DOMAIN rest : rest[k].path = path}
      /\ Defaults(new) = {k \in DOMAIN rest : wasDefault /\ rest[k].path = path}
  BY <1>5, <1>6, Zenon DEF Selected, Defaults
<1>9. \A k \in DOMAIN rest : new[k].path = rest[k].path
  BY <1>6
<1> HIDE DEF new
<1>10. PathSet(new) = PathSet(list) \ {edited}
  <2>1. PathSet(new) = PathSet(rest)
    BY <1>5, <1>9 DEF PathSet
  <2>2. ASSUME NEW k \in DOMAIN rest PROVE rest[k].path \in PathSet(list) \ {edited}
    <3>1. PICK i \in DOMAIN list : list[i].path # edited /\ list[i] = rest[k]
      BY <1>4
    <3> QED
      BY <3>1 DEF PathSet
  <2>3. ASSUME NEW i \in DOMAIN list, list[i].path # edited PROVE list[i].path \in PathSet(rest)
    <3>1. PICK k \in DOMAIN rest : rest[k] = list[i]
      BY <1>4, <2>3
    <3> QED
      BY <3>1 DEF PathSet
  <2> QED
    BY <2>1, <2>2, <2>3 DEF PathSet
<1>11. \A d \in Client : /\ d = c => dialog'[d] = None /\ dirs'[d] = new
                         /\ d # c => dialog'[d] = dialog[d] /\ dirs'[d] = dirs[d]
  BY <1>0, <1>2 DEF DirsTyped
<1>12. Fair' => Fair /\ dialog[c].current /\ Dirs!DefaultOf(new) # None
  <2>1. dirs'[c] = new
    BY <1>11
  <2> QED
    BY <1>3, <2>1, Zenon DEF Fair
<1>13. DirsTyped'
  <2>1. crossed' \in BOOLEAN /\ defaultless' \in BOOLEAN
    BY <1>3, Zenon
  <2>2. /\ dirs' \in [Client -> Seq(Dirs!Dir)] /\ dialog' \in [Client -> DialogType \cup {None}]
        /\ wanted' \subseteq Path /\ unsavedDirs' \subseteq Client
    BY <1>0, <1>2, <1>7 DEF DirsTyped
  <2> QED
    BY <1>0, <1>2, <2>1, <2>2 DEF DirsTyped
<1>14. NewestInv' /\ DialogInv'
  BY <1>2, <1>11 DEF DirsInv, NewestInv, DialogInv
<1>15. NoPatches' <=> NoPatches
  BY <1>2 DEF NoPatches
<1>16. OneInv'
  BY <1>2, <1>11, <1>12 DEF DirsInv, OneInv
<1>17. ServerInv'
  <2>1. \A l : SentOK(l) => SentOK(l)'
    BY <1>2 DEF SentOK, Meant
  <2>2. patches' = patches /\ raw' = raw
    BY <1>2
  <2> QED
    BY <1>12, <1>15, <2>1, <2>2 DEF DirsInv, ServerInv
<1>18. ASSUME Fair', NoPatches', pushes'[c] = <<>>
       PROVE  /\ Shape(new) /\ wanted' \subseteq PathSet(new) /\ PathSet(new) \cap gone' = {}
              /\ Dirs!DefaultOf(new) = chosen' /\ chosen' # None
  <2>1. Fits(list)
    BY <1>1, <1>2, <1>12, <1>15, <1>18 DEF DirsInv, ClientsInv, DialogInv
  <2>2. /\ wanted \subseteq PathSet(list) /\ PathSet(list) \cap gone = {} /\ Dirs!DefaultOf(list) = chosen
        /\ chosen = None => list = <<>>
    BY <2>1 DEF Fits, Meant
  <2>3. PICK k \in Defaults(new) : Dirs!DefaultOf(new) = new[k].path
    BY <1>7, <1>12, <1>18, DefaultFacts DEF Marked
  <2>4. wasDefault /\ Dirs!DefaultOf(new) = path
    BY <1>8, <1>9, <2>3
  <2>5. Dirs!DefaultOf(new) = chosen
    BY <2>2, <2>4 DEF wasDefault
  <2>6. Selected(new) = Defaults(new) /\ Selected(new) = {i \in DOMAIN new : new[i].path = path}
    BY <1>5, <1>8, <1>9, <2>4
  <2>7. Shape(new)
    BY <2>6 DEF Shape, Marks
  <2>8. wanted' \subseteq PathSet(new) /\ PathSet(new) \cap gone' = {} /\ Dirs!DefaultOf(new) = chosen' /\ chosen' # None
    BY <1>2, <1>10, <1>12, <1>18, <2>2, <2>5
  <2> QED
    BY <2>7, <2>8
<1>19. \A d \in Client : d # c /\ Fits(dirs[d]) => Fits(dirs[d])'
  BY <1>2, <1>11 DEF Fits, Meant
<1>20. ClientsInv'
  <2> SUFFICES ASSUME Fair', NoPatches', NEW d \in Client, pushes'[d] = <<>>
               PROVE  Fits(dirs[d])' /\ (d \notin unsavedDirs' => Dirs!Paths(dirs[d])' = Dirs!Paths(Dirs!TransformRaw(raw))')
    BY DEF ClientsInv
  <2>1. CASE d = c
    <3>1. dirs'[d] = new /\ d \in unsavedDirs'
      BY <1>2, <1>11, <2>1
    <3> QED
      BY <1>18, <2>1, <3>1 DEF Fits, Meant
  <2>2. CASE d # c
    BY <1>2, <1>11, <1>12, <1>15, <1>19, <2>2 DEF DirsInv, ClientsInv
  <2> QED
    BY <2>1, <2>2
<1> QED
  BY <1>13, <1>14, <1>16, <1>17, <1>20 DEF DirsInv
\* The server stores a list and pushes it, or pushes what it has.
LEMMA PushedType ==
  ASSUME DirsTyped, raw' \in Dirs!RawList, pushes' = [d \in Client |-> Append(pushes[d], raw')]
  PROVE  /\ pushes' \in [Client -> Seq(Dirs!RawList)] /\ NewestInv'
         /\ \A d \in Client : pushes'[d] # <<>>
<1>1. ASSUME NEW d \in Client
      PROVE  /\ pushes'[d] \in Seq(Dirs!RawList) /\ pushes'[d] # <<>>
             /\ pushes'[d][Len(pushes'[d])] = raw'
  <2>1. pushes'[d] = Append(pushes[d], raw') /\ pushes[d] \in Seq(Dirs!RawList)
    BY DEF DirsTyped
  <2> QED
    BY <2>1, AppendProperties
<1> QED
  BY <1>1 DEF NewestInv

LEMMA SavedStep ==
  ASSUME DirsInv, NEW c \in Client, NEW k \in DOMAIN patches[c], Dirs!Saved(c, k)
  PROVE  DirsInv'
<1>0. DirsTyped /\ patches[c] \in Seq(Dirs!RawList)
  BY DEF DirsInv, DirsTyped
<1>1. /\ raw' = patches[c][k] /\ patches' = [patches EXCEPT ![c] = Dirs!RemoveAt(@, k)]
      /\ pushes' = [d \in Client |-> Append(pushes[d], raw')]
      /\ UNCHANGED <<dirs, dialog, edits, Dirs!intent>>
  BY DEF Dirs!Saved
<1>2. raw' \in Dirs!RawList /\ Dirs!RemoveAt(patches[c], k) \in Seq(Dirs!RawList)
  BY <1>0, <1>1 DEF Dirs!RemoveAt
<1>3. /\ pushes' \in [Client -> Seq(Dirs!RawList)] /\ NewestInv'
      /\ \A d \in Client : pushes'[d] # <<>>
  BY <1>0, <1>1, <1>2, PushedType
<1>4. DirsTyped'
  BY <1>0, <1>1, <1>2, <1>3 DEF DirsTyped, Dirs!intent
<1>5. DialogInv'
  BY <1>1 DEF DirsInv, DialogInv
<1>6. ASSUME Fair' PROVE NoPatches' /\ SentOK(raw)'
  <2>1. Fair
    BY <1>1, <1>6 DEF Fair, Dirs!intent
  <2>2. patches[c] # <<>>
    BY <1>0
  <2>3. Len(patches[c]) = 1 /\ k = 1 /\ (\A d \in Client \ {c} : patches[d] = <<>>) /\ SentOK(patches[c][1])
    BY <1>0, <2>1, <2>2 DEF DirsInv, OneInv, ServerInv
  <2>4. Dirs!RemoveAt(patches[c], k) = <<>>
    BY <1>0, <2>3 DEF Dirs!RemoveAt
  <2>5. \A d \in Client : patches'[d] = <<>>
    BY <1>0, <1>1, <2>3, <2>4 DEF DirsTyped
  <2>6. SentOK(raw)'
    BY <1>1, <2>3 DEF SentOK, Meant, Dirs!intent
  <2> QED
    BY <2>5, <2>6 DEF NoPatches
<1>7. OneInv' /\ ServerInv'
  BY <1>6 DEF OneInv, ServerInv, NoPatches
<1>8. ClientsInv'
  BY <1>3 DEF ClientsInv
<1> QED
  BY <1>3, <1>4, <1>5, <1>7, <1>8 DEF DirsInv

LEMMA OtherSavedStep ==
  ASSUME DirsInv, Dirs!OtherSaved
  PROVE  DirsInv'
<1>0. DirsTyped
  BY DEF DirsInv
<1>1. /\ edits < MaxEdits /\ edits' = edits + 1
      /\ pushes' = [d \in Client |-> Append(pushes[d], raw')]
      /\ UNCHANGED <<raw, dirs, dialog, patches, Dirs!intent>>
  BY DEF Dirs!OtherSaved, Dirs!Edits
<1>2. /\ pushes' \in [Client -> Seq(Dirs!RawList)] /\ NewestInv'
      /\ \A d \in Client : pushes'[d] # <<>>
  BY <1>0, <1>1, PushedType DEF DirsTyped
<1>3. DirsTyped'
  BY <1>0, <1>1, <1>2, DirsAssumption DEF DirsTyped, Dirs!intent
<1>4. DialogInv'
  BY <1>1 DEF DirsInv, DialogInv
<1>5. (Fair' <=> Fair) /\ (NoPatches' <=> NoPatches)
  BY <1>1 DEF Fair, NoPatches, Dirs!intent
<1>6. OneInv'
  BY <1>1, <1>5 DEF DirsInv, OneInv
<1>7. ServerInv'
  BY <1>1, <1>5 DEF DirsInv, ServerInv, SentOK, Meant, Dirs!intent
<1>8. ClientsInv'
  BY <1>2 DEF ClientsInv
<1> QED
  BY <1>2, <1>3, <1>4, <1>6, <1>7, <1>8 DEF DirsInv

\* The copy of a dialog is not the list any more.
LEMMA ReplacedFacts ==
  ASSUME NEW d \in DialogType
  PROVE  LET e == [d EXCEPT !.current = FALSE] IN
         e \in DialogType /\ e.list = d.list /\ e.what = d.what /\ ~e.current
BY DEF DialogType

\* A client takes the list that was pushed first.
LEMMA PushedStep ==
  ASSUME DirsInv, NEW c \in Client, Dirs!Pushed(c)
  PROVE  DirsInv'
<1> DEFINE list == pushes[c]
<1>0. DirsTyped /\ list \in Seq(Dirs!RawList)
  BY DEF DirsInv, DirsTyped
<1>1. /\ list # <<>>
      /\ dirs' = [dirs EXCEPT ![c] = Dirs!TransformRaw(Head(list))]
      /\ pushes' = [pushes EXCEPT ![c] = Tail(@)]
      /\ dialog' = IF dialog[c] = None THEN dialog ELSE [dialog EXCEPT ![c].current = FALSE]
      /\ unsavedDirs' = unsavedDirs \ {c}
      /\ UNCHANGED <<raw, patches, edits, wanted, gone, chosen, crossed, defaultless>>
  BY DEF Dirs!Pushed
<1>2. Head(list) \in Dirs!RawList /\ Dirs!TransformRaw(Head(list)) \in Seq(Dirs!Dir) /\ Tail(list) \in Seq(Dirs!RawList)
  <2>1. Head(list) \in Dirs!RawList /\ Tail(list) \in Seq(Dirs!RawList)
    BY <1>0, <1>1, HeadTailProperties
  <2> QED
    BY <2>1, TakenType
<1>3. Tail(list) # <<>> => Tail(list)[Len(Tail(list))] = list[Len(list)]
  BY <1>0, <1>1
<1>4. Tail(list) = <<>> => Head(list) = list[Len(list)]
  <2>1. Len(Tail(list)) = Len(list) - 1 /\ Len(list) \in Nat
    BY <1>0, <1>1, HeadTailProperties
  <2>2. ASSUME Tail(list) = <<>> PROVE Len(list) = 1
    <3>1. Len(<<>>) = 0
      OBVIOUS
    <3>2. Len(Tail(list)) = 0
      BY <2>2, <3>1, Zenon
    <3> QED
      BY <2>1, <3>2
  <2> QED
    BY <1>0, <2>2
<1>5. list[Len(list)] = raw
  BY <1>1 DEF DirsInv, NewestInv
<1>6. ASSUME NEW d \in Client
      PROVE  /\ dialog[d] = None => dialog'[d] = None
             /\ dialog[d] \in DialogType => dialog'[d] \in DialogType
             /\ d = c => dialog[d] = None \/ ( /\ dialog'[d].list = dialog[d].list
                                               /\ dialog'[d].what = dialog[d].what
                                               /\ ~dialog'[d].current)
             /\ d # c => dialog'[d] = dialog[d]
  <2>1. CASE dialog[c] = None
    BY <1>1, <2>1
  <2>2. CASE dialog[c] # None
    <3>1. dialog[c] \in DialogType /\ dialog' = [dialog EXCEPT ![c].current = FALSE]
      BY <1>0, <1>1, <2>2 DEF DirsTyped
    <3>2. dialog'[c] = [dialog[c] EXCEPT !.current = FALSE] /\ \A e \in Client \ {c} : dialog'[e] = dialog[e]
      BY <1>0, <3>1 DEF DirsTyped
    <3>3. /\ dialog'[c] \in DialogType /\ dialog'[c].list = dialog[c].list
          /\ dialog'[c].what = dialog[c].what /\ ~dialog'[c].current
      BY <3>1, <3>2, ReplacedFacts
    <3> QED
      BY <2>2, <3>2, <3>3, Zenon
  <2> QED
    BY <2>1, <2>2
<1>7. DirsTyped'
  <2>1. dialog' \in [Client -> DialogType \cup {None}]
    <3>1. dialog' = [d \in Client |-> dialog'[d]]
      BY <1>0, <1>1 DEF DirsTyped
    <3>2. \A d \in Client : dialog'[d] \in DialogType \cup {None}
      BY <1>0, <1>6 DEF DirsTyped
    <3> QED
      BY <3>1, <3>2
  <2>2. dirs' \in [Client -> Seq(Dirs!Dir)] /\ pushes' \in [Client -> Seq(Dirs!RawList)]
    BY <1>0, <1>1, <1>2 DEF DirsTyped
  <2> QED
    BY <1>0, <1>1, <2>1, <2>2 DEF DirsTyped
<1>8. \A d \in Client : /\ d = c => pushes'[d] = Tail(list) /\ dirs'[d] = Dirs!TransformRaw(Head(list))
                        /\ d # c => pushes'[d] = pushes[d] /\ dirs'[d] = dirs[d]
  BY <1>0, <1>1 DEF DirsTyped
<1>9. NewestInv'
  BY <1>1, <1>3, <1>5, <1>8 DEF DirsInv, NewestInv
<1>10. DialogInv'
  BY <1>6, <1>8 DEF DirsInv, DialogInv
<1>11. (Fair' <=> Fair) /\ (NoPatches' <=> NoPatches)
  BY <1>1 DEF Fair, NoPatches
<1>12. OneInv'
  BY <1>1, <1>6, <1>11 DEF DirsInv, OneInv
<1>13. ServerInv'
  BY <1>1, <1>11 DEF DirsInv, ServerInv, SentOK, Meant
<1>14. ASSUME Fair, NoPatches, Tail(list) = <<>> PROVE Head(list) = raw /\ Fits(Dirs!TransformRaw(raw))
  <2>1. Head(list) = raw
    BY <1>4, <1>5, <1>14
  <2> QED
    BY <1>0, <1>14, <2>1, TakenFits DEF DirsInv, ServerInv, DirsTyped
<1>15. ClientsInv'
  <2> SUFFICES ASSUME Fair', NoPatches', NEW d \in Client, pushes'[d] = <<>>
               PROVE  Fits(dirs[d])' /\ (d \notin unsavedDirs' => Dirs!Paths(dirs[d])' = Dirs!Paths(Dirs!TransformRaw(raw))')
    BY DEF ClientsInv
  <2>1. CASE d = c
    <3>1. dirs'[d] = Dirs!TransformRaw(raw) /\ Fits(Dirs!TransformRaw(raw)) /\ raw' = raw
      BY <1>1, <1>8, <1>11, <1>14, <2>1
    <3> QED
      BY <1>1, <3>1 DEF Fits, Meant
  <2>2. CASE d # c
    <3>1. Fits(dirs[d]) /\ (d \notin unsavedDirs => Dirs!Paths(dirs[d]) = Dirs!Paths(Dirs!TransformRaw(raw)))
      BY <1>8, <1>11, <2>2 DEF DirsInv, ClientsInv
    <3> QED
      BY <1>1, <1>8, <2>2, <3>1 DEF Fits, Meant
  <2> QED
    BY <2>1, <2>2
<1> QED
  BY <1>7, <1>9, <1>10, <1>12, <1>13, <1>15 DEF DirsInv

-----------------------------------------------------------------------------
LEMMA DirsInductive == DirsInv /\ [Dirs!Next]_(Dirs!vars) => DirsInv'
<1> SUFFICES ASSUME DirsInv, [Dirs!Next]_(Dirs!vars) PROVE DirsInv'
  OBVIOUS
<1>1. CASE UNCHANGED Dirs!vars
  BY <1>1 DEF Dirs!vars, Dirs!intent, DirsInv, DirsTyped, NewestInv, DialogInv, OneInv, ServerInv, ClientsInv,
     Fair, NoPatches, SentOK, Fits, Meant
<1>2. CASE Dirs!OtherSaved
  BY <1>2, OtherSavedStep
<1>3. ASSUME NEW c \in Client, NEW path \in Path,
             Dirs!Select(c, path) \/ Dirs!AddKnown(c, path) \/ Dirs!Add(c, path) \/ Dirs!EditToKnown(c, path) \/ Dirs!Edit(c, path)
      PROVE  DirsInv'
  BY <1>3, SelectStep, AddStep, EditToKnownStep, EditStep
<1>4. ASSUME NEW c \in Client,
             \/ Dirs!Cancelled(c) \/ Dirs!RemoveDir(c) \/ Dirs!SetDefault(c) \/ Dirs!Pushed(c)
             \/ \E what \in {"add", "edit"} : Dirs!OpenDialog(c, what)
             \/ \E k \in DOMAIN patches[c] : Dirs!Saved(c, k)
      PROVE  DirsInv'
  <2>1. CASE Dirs!Cancelled(c) \/ \E what \in {"add", "edit"} : Dirs!OpenDialog(c, what)
    BY <2>1, DialogStep
  <2>2. CASE \E k \in DOMAIN patches[c] : Dirs!Saved(c, k)
    BY <2>2, SavedStep
  <2> QED
    BY <1>4, <2>1, <2>2, RemoveDirStep, SetDefaultStep, PushedStep
<1> QED
  BY <1>1, <1>2, <1>3, <1>4 DEF Dirs!Next

LEMMA DirsMade == DirsInv => Dirs!ListAsMade
<1> SUFFICES ASSUME DirsInv, Dirs!Quiet, Fair
             PROVE  /\ wanted \subseteq Dirs!PathsOf(raw) /\ Dirs!PathsOf(raw) \cap gone = {}
                    /\ Dirs!DefaultPath(raw) = chosen
                    /\ \A c \in Client \ unsavedDirs :
                         Dirs!Paths(dirs[c]) = Dirs!Paths(Dirs!TransformRaw(raw)) /\ Dirs!DefaultOf(dirs[c]) = chosen
  BY DEF Dirs!ListAsMade, Fair
<1>1. NoPatches /\ \A c \in Client : pushes[c] = <<>>
  BY DEF Dirs!Quiet, NoPatches
<1>2. SentOK(raw)
  BY <1>1 DEF DirsInv, ServerInv
<1>3. \A c \in Client : Fits(dirs[c]) /\ (c \notin unsavedDirs => Dirs!Paths(dirs[c]) = Dirs!Paths(Dirs!TransformRaw(raw)))
  BY <1>1 DEF DirsInv, ClientsInv
<1> QED
  BY <1>2, <1>3 DEF SentOK, Fits, Meant

-----------------------------------------------------------------------------
(***************************************************************************)
(* The episodes of a show.                                                 *)
(*                                                                         *)
(* The page asks for the seasons that the pages need which the user opens, *)
(* so a season of which no page is opened would never come.  The season    *)
(* that the k-th count is about begins on page PagesCount[k - 1].  If it   *)
(* is the first one that lacks episodes, those before it are rows of the   *)
(* table, and they are more than the pages before that one show, as        *)
(* CountFacts says; so the table has that page, the user opened it, and    *)
(* the season was asked for (VisitedInv).  The first page and the specials *)
(* are asked for when the page opens (OpenedInv).                          *)
(***************************************************************************)

LEMMA SumsFacts ==
  ASSUME NEW numbers \in Seq(Nat)
  PROVE  /\ \A k \in 0 .. Len(numbers) : Episodes!Sums(numbers)[k] \in Nat
         /\ Episodes!Sums(numbers)[0] = 0
         /\ \A k \in 1 .. Len(numbers) :
              Episodes!Sums(numbers)[k] = Episodes!Sums(numbers)[k - 1] + numbers[k]
<1> DEFINE n == Len(numbers)
           Is(f) == f = [k \in 0 .. n |-> IF k = 0 THEN 0 ELSE f[k - 1] + numbers[k]]
           F == CHOOSE f : Is(f)
           step == [k \in 1 .. n |-> [x \in Nat |-> x + numbers[k]]]
<1>1. n \in Nat /\ \A k \in 1 .. n : numbers[k] \in Nat
  OBVIOUS
<1>2. PICK T, zero : T = Nat /\ zero = 0
  OBVIOUS
<1>3. step \in [1 .. n -> [T -> T]]
  BY <1>1, <1>2
<1>4. \A k \in 1 .. n : \A x \in T : step[k][x] = x + numbers[k]
  BY <1>2
<1> HIDE DEF n, step, Is, F
<1>5. PICK f \in [0 .. n -> T] : Recurs(f, zero, n, step)
  <2>1. n \in Nat /\ zero \in T
    BY <1>1, <1>2
  <2> QED
    BY <1>3, <2>1, RecursionExists
<1>6. ASSUME NEW k \in 0 .. n PROVE f[k] = IF k = 0 THEN 0 ELSE f[k - 1] + numbers[k]
  <2>1. CASE k = 0
    BY <1>2, <1>5, <2>1 DEF Recurs
  <2>2. CASE k # 0
    <3>1. k \in 1 .. n /\ k - 1 \in 0 .. n
      BY <1>1, <2>2
    <3>2. f[k - 1] \in T
      BY <3>1
    <3> QED
      BY <1>4, <1>5, <2>2, <3>1, <3>2, Zenon DEF Recurs
  <2> QED
    BY <2>1, <2>2
<1>7. Is(f)
  <2>1. f = [k \in 0 .. n |-> f[k]]
    BY <1>5
  <2> QED
    BY <1>6, <2>1, Zenon DEF Is
<1>8. Episodes!Sums(numbers) = F /\ Is(F)
  BY <1>7, Zenon DEF F, Is, n, Episodes!Sums
<1>9. F = [k \in 0 .. n |-> IF k = 0 THEN 0 ELSE F[k - 1] + numbers[k]]
  BY <1>8 DEF Is
<1>10. F = [k \in 0 .. n |-> F[k]] /\ F[0] = 0
  BY <1>1, <1>9
<1>11. ASSUME NEW k \in 1 .. n PROVE F[k] = F[k - 1] + numbers[k]
  <2>1. k \in 0 .. n /\ k # 0
    BY <1>1
  <2> QED
    BY <1>9, <2>1, Zenon
<1> DEFINE P == {k \in Nat : F[k] \in Nat}
<1>12. ASSUME NEW k \in 1 .. n, k - 1 \in P PROVE k \in P
  <2>1. k \in Nat /\ numbers[k] \in Nat /\ F[k - 1] \in Nat
    BY <1>1, <1>12
  <2>2. F[k] \in Nat
    BY <1>11, <2>1
  <2> QED
    BY <2>1, <2>2
<1>13. 0 \in P
  BY <1>10
<1>14. 0 .. n \subseteq P
  <2> HIDE DEF P
  <2>1. P \in SUBSET Nat
    BY DEF P
  <2> QED
    BY <1>1, <1>12, <1>13, <2>1, UpToInduction
<1>15. \A k \in 0 .. n : F[k] \in Nat
  BY <1>14
<1> QED
  BY <1>8, <1>10, <1>11, <1>15 DEF n

\* The sums grow.
LEMMA SumsGrow ==
  ASSUME NEW numbers \in Seq(Nat), NEW j \in 0 .. Len(numbers), NEW k \in 0 .. Len(numbers), j <= k
  PROVE  Episodes!Sums(numbers)[j] <= Episodes!Sums(numbers)[k]
<1> DEFINE n == Len(numbers)
           F == Episodes!Sums(numbers)
           P == {i \in Nat : j <= i /\ i <= n => F[j] <= F[i]}
<1>1. /\ n \in Nat /\ \A i \in 0 .. n : F[i] \in Nat
      /\ \A i \in 1 .. n : F[i] = F[i - 1] + numbers[i] /\ numbers[i] \in Nat
  BY SumsFacts
<1> HIDE DEF n, F
<1>2. 0 \in P
  BY <1>1 DEF n
<1>3. ASSUME NEW i \in 1 .. n, i - 1 \in P PROVE i \in P
  <2>1. i \in Nat /\ i - 1 \in 0 .. n /\ i \in 0 .. n /\ j \in 0 .. n
    BY <1>1 DEF n
  <2>2. F[i - 1] \in Nat /\ F[i] \in Nat /\ F[j] \in Nat /\ numbers[i] \in Nat
    BY <1>1, <2>1
  <2>3. F[i - 1] <= F[i]
    BY <1>1, <2>2
  <2>4. CASE j = i
    BY <2>1, <2>2, <2>4
  <2>5. CASE j <= i - 1
    <3>1. F[j] <= F[i - 1]
      BY <1>3, <2>1, <2>5
    <3> QED
      BY <2>1, <2>2, <2>3, <3>1
  <2>6. CASE ~(j <= i)
    BY <2>1, <2>6
  <2> QED
    BY <2>1, <2>4, <2>5, <2>6
<1>4. 0 .. n \subseteq P
  <2> HIDE DEF P
  <2>1. P \in SUBSET Nat
    BY DEF P
  <2> QED
    BY <1>1, <1>2, <1>3, <2>1, UpToInduction
<1> QED
  BY <1>4 DEF n, F

\* Sums of larger numbers are larger.
LEMMA SumsCompare ==
  ASSUME NEW numbers \in Seq(Nat), NEW larger \in Seq(Nat),
         NEW m \in 0 .. Len(numbers), m <= Len(larger),
         \A k \in 1 .. m : numbers[k] <= larger[k]
  PROVE  Episodes!Sums(numbers)[m] <= Episodes!Sums(larger)[m]
<1> DEFINE F == Episodes!Sums(numbers)
           G == Episodes!Sums(larger)
           P == {k \in Nat : F[k] <= G[k]}
<1>1. /\ m \in Nat /\ F[0] = 0 /\ G[0] = 0
      /\ \A k \in 1 .. m : F[k] = F[k - 1] + numbers[k] /\ G[k] = G[k - 1] + larger[k]
  BY SumsFacts
<1>2. \A k \in 0 .. m : F[k] \in Nat /\ G[k] \in Nat
  <2>1. \A k \in 0 .. m : k \in 0 .. Len(numbers) /\ k \in 0 .. Len(larger)
    OBVIOUS
  <2> QED
    BY <2>1, SumsFacts
<1>3. \A k \in 1 .. m : numbers[k] \in Nat /\ larger[k] \in Nat
  OBVIOUS
<1> HIDE DEF F, G
<1>4. ASSUME NEW k \in 1 .. m, k - 1 \in P PROVE k \in P
  <2>1. k - 1 \in 0 .. m /\ k \in 0 .. m
    OBVIOUS
  <2>2. F[k - 1] \in Nat /\ G[k - 1] \in Nat /\ numbers[k] \in Nat /\ larger[k] \in Nat
    BY <1>2, <1>3, <2>1
  <2>3. F[k] = F[k - 1] + numbers[k] /\ G[k] = G[k - 1] + larger[k]
    BY <1>1
  <2>4. F[k - 1] <= G[k - 1] /\ numbers[k] <= larger[k]
    BY <1>4
  <2>5. F[k] <= G[k] /\ k \in Nat
    BY <2>2, <2>3, <2>4
  <2> QED
    BY <2>5
<1>5. 0 \in P
  BY <1>1
<1>6. 0 .. m \subseteq P
  <2> HIDE DEF P
  <2>1. P \in SUBSET Nat
    BY DEF P
  <2> QED
    BY <1>1, <1>4, <1>5, <2>1, UpToInduction
<1> QED
  BY <1>6 DEF F, G

-----------------------------------------------------------------------------
\* The count of a season.
Count == [season : Nat, episodes : Nat]

LEMMA CountFields ==
  ASSUME NEW c \in Count
  PROVE  c.season \in Nat /\ c.episodes \in Nat
BY DEF Count

\* The pages that the seasons begin: a page is reached when the pages before it are full.
Counted(f, sums, n) ==
  f = [k \in 0 .. n |-> IF k = 0 THEN 1
                        ELSE IF Episodes!Grows(sums[k], f[k - 1]) THEN f[k - 1] + 1 ELSE f[k - 1]]

LEMMA CountExists ==
  ASSUME NEW n \in Nat, NEW sums
  PROVE  \E f : Counted(f, sums, n)
<1> DEFINE step == [k \in 1 .. n |-> [x \in Nat |-> IF Episodes!Grows(sums[k], x) THEN x + 1 ELSE x]]
<1>1. PICK T, one : T = Nat /\ one = 1
  OBVIOUS
<1>2. step \in [1 .. n -> [T -> T]] /\ one \in T
  BY <1>1
<1>3. \A k \in 1 .. n : \A x \in T : step[k][x] = IF Episodes!Grows(sums[k], x) THEN x + 1 ELSE x
  BY <1>1
<1> HIDE DEF step
<1>4. PICK f \in [0 .. n -> T] : Recurs(f, one, n, step)
  BY <1>2, RecursionExists
<1>5. ASSUME NEW k \in 0 .. n
      PROVE  f[k] = IF k = 0 THEN 1
                    ELSE IF Episodes!Grows(sums[k], f[k - 1]) THEN f[k - 1] + 1 ELSE f[k - 1]
  <2>1. CASE k = 0
    BY <1>1, <1>4, <2>1 DEF Recurs
  <2>2. CASE k # 0
    <3>1. k \in 1 .. n /\ k - 1 \in 0 .. n
      BY <2>2
    <3>2. f[k - 1] \in T
      BY <3>1
    <3> QED
      BY <1>3, <1>4, <2>2, <3>1, <3>2, Zenon DEF Recurs
  <2> QED
    BY <2>1, <2>2
<1>6. Counted(f, sums, n)
  <2>1. f = [k \in 0 .. n |-> f[k]]
    BY <1>4
  <2> QED
    BY <1>5, <2>1, Zenon DEF Counted
<1> QED
  BY <1>6

\* The episodes of the first seasons that the code looks at.
FirstEpisodes == Episodes!Sums([k \in DOMAIN Episodes!Backwards |-> Episodes!Backwards[k].episodes])

LEMMA CountFacts ==
  ASSUME Episodes!Backwards \in Seq(Count), perPage \in Nat
  PROVE  /\ Episodes!PagesCount[0] = 1
         /\ \A k \in 0 .. Len(Episodes!Backwards) :
              /\ Episodes!PagesCount[k] \in Nat \ {0} /\ FirstEpisodes[k] \in Nat
              /\ Episodes!PagesCount[k] > 1 =>
                   FirstEpisodes[k] > (Episodes!PagesCount[k] - 1) * perPage
<1> DEFINE B == Episodes!Backwards
           n == Len(B)
           numbers == [k \in DOMAIN B |-> B[k].episodes]
           S == FirstEpisodes
           F == CHOOSE f : Counted(f, S, n)
           P == {k \in Nat : F[k] \in Nat \ {0} /\ (F[k] > 1 => S[k] > (F[k] - 1) * perPage)}
<1>1. n \in Nat /\ numbers \in Seq(Nat) /\ Len(numbers) = n
  <2> HIDE DEF B
  <2>1. B \in Seq(Count)
    BY DEF B
  <2>2. n \in Nat /\ DOMAIN B = 1 .. n /\ \A k \in 1 .. n : B[k] \in Count
    BY <2>1
  <2>3. \A k \in 1 .. n : B[k].episodes \in Nat
    BY <2>2, CountFields
  <2>4. numbers = [k \in 1 .. n |-> B[k].episodes]
    BY <2>2
  <2> HIDE DEF numbers, n
  <2>5. numbers \in [1 .. n -> Nat]
    BY <2>3, <2>4
  <2> QED
    BY <2>2, <2>5
<1>2. S = Episodes!Sums(numbers)
  BY DEF FirstEpisodes
<1>3. Episodes!PagesCount = F
  BY DEF Episodes!PagesCount, FirstEpisodes, Counted
<1> HIDE DEF B, n, numbers, S
<1>4. Counted(F, S, n)
  <2>1. \E f : Counted(f, S, n)
    BY <1>1, CountExists
  <2> HIDE DEF F
  <2> QED
    BY <2>1, Zenon DEF F
<1> HIDE DEF F
<1>5. F[0] = 1
  BY <1>1, <1>4 DEF Counted
<1>6. ASSUME NEW k \in 1 .. n
      PROVE  F[k] = IF Episodes!Grows(S[k], F[k - 1]) THEN F[k - 1] + 1 ELSE F[k - 1]
  <2>1. k \in 0 .. n /\ k # 0
    BY <1>1
  <2> QED
    BY <1>4, <2>1, Zenon DEF Counted
<1>7. \A k \in 0 .. n : S[k] \in Nat
  BY <1>1, <1>2, SumsFacts
<1>8. 0 \in P
  BY <1>5
<1>9. ASSUME NEW k \in 1 .. n, k - 1 \in P PROVE k \in P
  <2>1. k \in Nat /\ k - 1 \in 0 .. n /\ k \in 0 .. n /\ k - 1 <= k
    BY <1>1
  <2>2. PICK c \in Nat \ {0} : c = F[k - 1] /\ (c > 1 => S[k - 1] > (c - 1) * perPage)
    BY <1>9
  <2>3. S[k] \in Nat /\ S[k - 1] \in Nat /\ S[k - 1] <= S[k]
    BY <1>1, <1>2, <1>7, <2>1, SumsGrow
  <2>4. perPage \in Nat
    OBVIOUS
  <2>5. CASE Episodes!Grows(S[k], c)
    <3>1. F[k] = c + 1 /\ S[k] > c * perPage
      BY <1>6, <2>2, <2>5 DEF Episodes!Grows
    <3>2. F[k] \in Nat \ {0} /\ F[k] - 1 = c
      BY <3>1
    <3> QED
      BY <2>1, <3>1, <3>2
  <2>6. CASE ~Episodes!Grows(S[k], c)
    <3>1. F[k] = c
      BY <1>6, <2>2, <2>6
    <3>2. c > 1 => S[k] > (c - 1) * perPage
      <4>1. (c - 1) * perPage \in Int
        BY <2>4
      <4> QED
        BY <2>2, <2>3, <4>1
    <3> QED
      BY <2>1, <3>1, <3>2
  <2> QED
    BY <2>5, <2>6
<1>10. 0 .. n \subseteq P
  <2> HIDE DEF P
  <2>1. P \in SUBSET Nat
    BY DEF P
  <2> QED
    BY <1>1, <1>8, <1>9, <2>1, UpToInduction
<1> QED
  BY <1>3, <1>5, <1>7, <1>10 DEF n, B, S

-----------------------------------------------------------------------------
\* The children of a season, each episode once.
OnceIn(list, set) == list \in Seq(Nat) /\ Episodes!IsInjective(list) /\ Episodes!ToSet(list) \subseteq set

LEMMA AddEpisodeFacts ==
  ASSUME NEW list \in Seq(Nat), Episodes!IsInjective(list), NEW e \in Nat
  PROVE  /\ Episodes!AddEpisode(list, e) \in Seq(Nat)
         /\ Episodes!IsInjective(Episodes!AddEpisode(list, e))
         /\ Episodes!ToSet(Episodes!AddEpisode(list, e)) = Episodes!ToSet(list) \cup {e}
<1>1. CASE e \in Episodes!ToSet(list)
  BY <1>1 DEF Episodes!AddEpisode
<1>2. CASE e \notin Episodes!ToSet(list)
  <2> DEFINE more == Append(list, e)
  <2>1. Episodes!AddEpisode(list, e) = more
    BY <1>2 DEF Episodes!AddEpisode
  <2>2. /\ more \in Seq(Nat) /\ Len(list) \in Nat
        /\ DOMAIN list = 1 .. Len(list) /\ DOMAIN more = 1 .. Len(list) + 1
        /\ more[Len(list) + 1] = e
        /\ \A k \in DOMAIN list : more[k] = list[k]
    OBVIOUS
  <2> HIDE DEF more
  <2>3. \A k \in DOMAIN list : list[k] # e
    BY <1>2 DEF Episodes!ToSet
  <2>4. \A j, k \in DOMAIN list : list[j] = list[k] => j = k
    BY DEF Episodes!IsInjective
  <2>5. ASSUME NEW j \in DOMAIN more, NEW k \in DOMAIN more, more[j] = more[k] PROVE j = k
    <3>1. CASE j \in DOMAIN list /\ k \in DOMAIN list
      BY <2>2, <2>4, <2>5, <3>1
    <3>2. CASE j \notin DOMAIN list \/ k \notin DOMAIN list
      <4>1. \A i \in DOMAIN more : i \in DOMAIN list \/ i = Len(list) + 1
        BY <2>2
      <4> QED
        BY <2>2, <2>3, <2>5, <3>2, <4>1
    <3> QED
      BY <3>1, <3>2
  <2>6. Episodes!ToSet(more) = Episodes!ToSet(list) \cup {e}
    <3>1. Episodes!ToSet(more) \subseteq Episodes!ToSet(list) \cup {e}
      <4> SUFFICES ASSUME NEW k \in DOMAIN more PROVE more[k] \in Episodes!ToSet(list) \cup {e}
        BY DEF Episodes!ToSet
      <4>1. k \in DOMAIN list \/ k = Len(list) + 1
        BY <2>2
      <4> QED
        BY <2>2, <4>1 DEF Episodes!ToSet
    <3>2. e \in Episodes!ToSet(more)
      BY <2>2 DEF Episodes!ToSet
    <3>3. Episodes!ToSet(list) \subseteq Episodes!ToSet(more)
      <4>1. \A k \in DOMAIN list : k \in DOMAIN more /\ more[k] = list[k]
        BY <2>2
      <4> QED
        BY <4>1 DEF Episodes!ToSet
    <3> QED
      BY <3>1, <3>2, <3>3
  <2> QED
    BY <2>1, <2>2, <2>5, <2>6 DEF Episodes!IsInjective
<1> QED
  BY <1>1, <1>2

\* Episodes that come replace those with their slugs or are one more each.
Taken(f, list, episodes) ==
  f = [k \in 0 .. Len(episodes) |-> IF k = 0 THEN list ELSE Episodes!AddEpisode(f[k - 1], episodes[k])]

LEMMA TakenExists ==
  ASSUME NEW list \in Seq(Nat), NEW episodes \in Seq(Nat)
  PROVE  \E f : Taken(f, list, episodes)
<1> DEFINE n == Len(episodes)
           step == [k \in 1 .. n |-> [x \in Seq(Nat) |-> Episodes!AddEpisode(x, episodes[k])]]
<1>1. n \in Nat /\ \A k \in 1 .. n : episodes[k] \in Nat
  OBVIOUS
<1>2. \A x \in Seq(Nat) : \A e \in Nat : Episodes!AddEpisode(x, e) \in Seq(Nat)
  BY DEF Episodes!AddEpisode
<1>3. PICK T : T = Seq(Nat)
  OBVIOUS
<1>4. step \in [1 .. n -> [T -> T]] /\ list \in T
  BY <1>1, <1>2, <1>3
<1>5. \A k \in 1 .. n : \A x \in T : step[k][x] = Episodes!AddEpisode(x, episodes[k])
  BY <1>3
<1> HIDE DEF n, step
<1>6. PICK f \in [0 .. n -> T] : Recurs(f, list, n, step)
  BY <1>1, <1>4, RecursionExists
<1>7. ASSUME NEW k \in 0 .. n
      PROVE  f[k] = IF k = 0 THEN list ELSE Episodes!AddEpisode(f[k - 1], episodes[k])
  <2>1. CASE k = 0
    BY <1>6, <2>1 DEF Recurs
  <2>2. CASE k # 0
    <3>1. k \in 1 .. n /\ k - 1 \in 0 .. n
      BY <1>1, <2>2
    <3>2. f[k - 1] \in T
      BY <3>1
    <3> QED
      BY <1>5, <1>6, <2>2, <3>1, <3>2, Zenon DEF Recurs
  <2> QED
    BY <2>1, <2>2
<1>8. Taken(f, list, episodes)
  <2>1. f = [k \in 0 .. n |-> f[k]]
    BY <1>6
  <2> QED
    BY <1>7, <2>1, Zenon DEF Taken, n
<1> QED
  BY <1>8

LEMMA WithEpisodesFacts ==
  ASSUME NEW list \in Seq(Nat), Episodes!IsInjective(list), NEW episodes \in Seq(Nat)
  PROVE  /\ Episodes!WithEpisodes(list, episodes) \in Seq(Nat)
         /\ Episodes!IsInjective(Episodes!WithEpisodes(list, episodes))
         /\ Episodes!ToSet(Episodes!WithEpisodes(list, episodes)) =
              Episodes!ToSet(list) \cup {episodes[k] : k \in DOMAIN episodes}
<1> DEFINE n == Len(episodes)
           F == CHOOSE f : Taken(f, list, episodes)
           Good(x, k) == /\ x \in Seq(Nat) /\ Episodes!IsInjective(x)
                         /\ Episodes!ToSet(x) = Episodes!ToSet(list) \cup {episodes[i] : i \in 1 .. k}
           P == {k \in Nat : Good(F[k], k)}
<1>1. n \in Nat /\ DOMAIN episodes = 1 .. n /\ \A k \in 1 .. n : episodes[k] \in Nat
  OBVIOUS
<1>2. Episodes!WithEpisodes(list, episodes) = F[n]
  BY DEF Episodes!WithEpisodes, Taken
<1>3. Taken(F, list, episodes)
  <2>1. \E f : Taken(f, list, episodes)
    BY TakenExists
  <2> QED
    BY <2>1, Zenon
<1> HIDE DEF F, n
<1>4. F[0] = list
  <2>1. 0 \in 0 .. n
    BY <1>1
  <2> QED
    BY <1>3, <2>1 DEF Taken, n
<1>5. ASSUME NEW k \in 1 .. n PROVE F[k] = Episodes!AddEpisode(F[k - 1], episodes[k])
  <2>1. k \in 0 .. n /\ k # 0
    BY <1>1
  <2> QED
    BY <1>3, <2>1, Zenon DEF Taken, n
<1>6. 0 \in P
  <2>1. {episodes[i] : i \in 1 .. 0} = {}
    OBVIOUS
  <2>2. Good(list, 0)
    BY <2>1
  <2> QED
    BY <1>4, <2>2
<1>7. ASSUME NEW k \in 1 .. n, k - 1 \in P PROVE k \in P
  <2>1. Good(F[k - 1], k - 1) /\ k \in Nat /\ episodes[k] \in Nat
    BY <1>1, <1>7
  <2>2. {episodes[i] : i \in 1 .. k} = {episodes[i] : i \in 1 .. k - 1} \cup {episodes[k]}
    <3>1. 1 .. k = (1 .. k - 1) \cup {k}
      BY <2>1
    <3> QED
      BY <3>1
  <2>3. PICK x : x = F[k - 1]
    OBVIOUS
  <2>4. Good(Episodes!AddEpisode(x, episodes[k]), k)
    <3> DEFINE y == Episodes!AddEpisode(x, episodes[k])
    <3>1. x \in Seq(Nat) /\ Episodes!IsInjective(x)
      BY <2>1, <2>3
    <3>2. /\ y \in Seq(Nat) /\ Episodes!IsInjective(y)
          /\ Episodes!ToSet(y) = Episodes!ToSet(x) \cup {episodes[k]}
      BY <2>1, <3>1, AddEpisodeFacts
    <3>3. Episodes!ToSet(x) = Episodes!ToSet(list) \cup {episodes[i] : i \in 1 .. k - 1}
      BY <2>1, <2>3
    <3> HIDE DEF y
    <3>4. Episodes!ToSet(y) = Episodes!ToSet(list) \cup {episodes[i] : i \in 1 .. k}
      BY <2>2, <3>2, <3>3, Zenon
    <3> QED
      BY <3>2, <3>4 DEF y
  <2> HIDE DEF Good
  <2> QED
    BY <1>5, <2>1, <2>3, <2>4
<1>8. n \in P
  <2> HIDE DEF P
  <2>1. P \in SUBSET Nat
    BY DEF P
  <2>2. 0 .. n \subseteq P
    BY <1>1, <1>6, <1>7, <2>1, UpToInduction
  <2> QED
    BY <1>1, <2>2
<1> QED
  BY <1>1, <1>2, <1>8

-----------------------------------------------------------------------------
\* The counts of a show: each season once, the specials first.
LEMMA SeasonFacts ==
  ASSUME seasonCount \in Counts
  PROVE  /\ seasonCount \in Seq(Count)
         /\ \A k \in DOMAIN seasonCount :
              /\ seasonCount[k].season \in Episodes!Season
              /\ Episodes!EpisodesOf(seasonCount[k].season) = seasonCount[k].episodes
         /\ \A s \in Episodes!Season : s \in Nat /\ Episodes!EpisodesOf(s) \in Nat
         /\ 0 \in Episodes!Season => Episodes!HasSpecials
         /\ Episodes!HasSpecials => 0 \in Episodes!Season
         /\ \A S \in SUBSET Episodes!Season : Absent \notin [S -> Seq(Nat)]
<1>1. seasonCount \in Seq(Count)
  <2> DEFINE Full == [season : Nat, episodes : Nat \ {0}]
  <2>1. Full \subseteq Count
    BY DEF Count
  <2>2. seasonCount \in Seq(Full)
    BY EpisodesAssumption
  <2> HIDE DEF Full
  <2> QED
    BY <2>1, <2>2
<1>2. \A j, k \in DOMAIN seasonCount : /\ seasonCount[j].season = seasonCount[k].season => j = k
                                       /\ seasonCount[k].season = 0 => k = 1
  BY EpisodesAssumption
<1>3. \A S \in SUBSET Episodes!Season : Absent \notin [S -> Seq(Nat)]
  BY EpisodesAssumption DEF Episodes!Season
<1>4. \A k \in DOMAIN seasonCount : seasonCount[k] \in Count
  BY <1>1
<1>5. ASSUME NEW k \in DOMAIN seasonCount
      PROVE  /\ seasonCount[k].season \in Episodes!Season
             /\ Episodes!EpisodesOf(seasonCount[k].season) = seasonCount[k].episodes
  <2> DEFINE s == seasonCount[k].season
             Of(c) == c \in Episodes!ToSet(seasonCount) /\ c.season = s
  <2>1. s \in Episodes!Season
    BY DEF Episodes!Season
  <2>2. seasonCount[k] \in Episodes!ToSet(seasonCount)
    BY DEF Episodes!ToSet
  <2>3. ASSUME NEW c \in Episodes!ToSet(seasonCount), c.season = s PROVE c = seasonCount[k]
    <3>1. PICK j \in DOMAIN seasonCount : c = seasonCount[j]
      BY DEF Episodes!ToSet
    <3> QED
      BY <1>2, <2>3, <3>1
  <2>4. (CHOOSE c \in Episodes!ToSet(seasonCount) : c.season = s) = seasonCount[k]
    BY <2>2, <2>3
  <2> QED
    BY <2>1, <2>4 DEF Episodes!EpisodesOf
<1>6. ASSUME NEW s \in Episodes!Season PROVE s \in Nat /\ Episodes!EpisodesOf(s) \in Nat
  <2>1. PICK k \in DOMAIN seasonCount : s = seasonCount[k].season
    BY DEF Episodes!Season
  <2> QED
    BY <1>4, <1>5, <2>1, CountFields
<1>7. 0 \in Episodes!Season => Episodes!HasSpecials
  <2> SUFFICES ASSUME NEW k \in DOMAIN seasonCount, seasonCount[k].season = 0 PROVE Episodes!HasSpecials
    BY DEF Episodes!Season
  <2>1. k = 1 /\ seasonCount # <<>>
    BY <1>2
  <2> QED
    BY <2>1 DEF Episodes!HasSpecials
<1>8. Episodes!HasSpecials => 0 \in Episodes!Season
  <2> SUFFICES ASSUME seasonCount # <<>>, seasonCount[1].season = 0 PROVE 0 \in Episodes!Season
    BY DEF Episodes!HasSpecials
  <2>1. 1 \in DOMAIN seasonCount
    BY <1>1
  <2> QED
    BY <2>1 DEF Episodes!Season
<1> QED
  BY <1>1, <1>3, <1>5, <1>6, <1>7, <1>8

LEMMA BackwardsFacts ==
  ASSUME seasonCount \in Counts
  PROVE  /\ Episodes!Backwards \in Seq(Count)
         /\ \A k \in DOMAIN Episodes!Backwards :
              /\ Episodes!Backwards[k].season \in Episodes!Season
              /\ Episodes!EpisodesOf(Episodes!Backwards[k].season) = Episodes!Backwards[k].episodes
         /\ \A s \in Episodes!Season \ {0} : \E k \in DOMAIN Episodes!Backwards : Episodes!Backwards[k].season = s
<1> DEFINE counts == Episodes!Reverse(seasonCount)
           places == {k \in DOMAIN counts : counts[k].season # 0}
           B == Episodes!Backwards
           n == Len(seasonCount)
<1>1. n \in Nat /\ DOMAIN seasonCount = 1 .. n /\ \A k \in 1 .. n : seasonCount[k] \in Count
  BY SeasonFacts
<1>2. /\ counts \in Seq(Count) /\ DOMAIN counts = 1 .. n /\ Len(counts) = n
      /\ \A k \in 1 .. n : counts[k] = seasonCount[n - k + 1]
  <2>1. counts = [k \in 1 .. n |-> seasonCount[n - k + 1]]
    BY DEF Episodes!Reverse
  <2> HIDE DEF counts
  <2>2. \A k \in 1 .. n : n - k + 1 \in 1 .. n
    BY <1>1
  <2>3. counts \in [1 .. n -> Count]
    BY <1>1, <2>1, <2>2
  <2> HIDE DEF n
  <2> QED
    BY <1>1, <2>1, <2>3
<1>3. B \in Seq(Count) /\ Collected(counts, places, Len(counts), B)
  <2>1. B = Chosen(counts, places)
    BY DEF Episodes!Backwards, Episodes!Chosen, Chosen
  <2> HIDE DEF B, counts, places
  <2> QED
    BY <1>2, <2>1, ChosenFacts
<1> HIDE DEF B, counts, n
<1>4. PICK at \in [DOMAIN B -> (1 .. n) \cap places] :
        /\ \A k \in DOMAIN B : B[k] = counts[at[k]]
        /\ \A i \in (1 .. n) \cap places : \E k \in DOMAIN B : at[k] = i
  BY <1>2, <1>3 DEF Collected
<1>5. ASSUME NEW k \in DOMAIN B
      PROVE  B[k].season \in Episodes!Season /\ Episodes!EpisodesOf(B[k].season) = B[k].episodes
  <2>1. at[k] \in 1 .. n /\ B[k] = counts[at[k]]
    BY <1>4
  <2>2. n - at[k] + 1 \in DOMAIN seasonCount /\ B[k] = seasonCount[n - at[k] + 1]
    BY <1>1, <1>2, <2>1
  <2> QED
    BY <2>2, SeasonFacts
<1>6. ASSUME NEW s \in Episodes!Season, s # 0 PROVE \E k \in DOMAIN B : B[k].season = s
  <2>1. PICK j \in DOMAIN seasonCount : s = seasonCount[j].season
    BY DEF Episodes!Season
  <2>2. n - j + 1 \in 1 .. n /\ n - (n - j + 1) + 1 = j
    BY <1>1, <2>1
  <2>3. PICK i \in 1 .. n : counts[i] = seasonCount[j]
    BY <1>2, <2>2
  <2>4. i \in places
    BY <1>2, <1>6, <2>1, <2>3
  <2>5. PICK k \in DOMAIN B : at[k] = i
    BY <1>4, <2>4
  <2> QED
    BY <1>4, <2>1, <2>3, <2>5
<1> QED
  BY <1>3, <1>5, <1>6 DEF B

LEMMA NeededFacts ==
  ASSUME seasonCount \in Counts, NEW page
  PROVE  /\ Episodes!NeededSeasons(page) \in Seq(Episodes!Season)
         /\ \A k \in DOMAIN Episodes!Backwards :
              ~paged \/ page \in {Episodes!PagesCount[k - 1], Episodes!PagesCount[k]}
              => Episodes!Backwards[k].season \in Episodes!ToSet(Episodes!NeededSeasons(page))
<1> DEFINE B == Episodes!Backwards
           places == {k \in DOMAIN B : ~paged \/ page \in {Episodes!PagesCount[k - 1], Episodes!PagesCount[k]}}
           part == Episodes!Chosen(B, places)
           list == Episodes!NeededSeasons(page)
<1>1. list = [k \in DOMAIN part |-> part[k].season]
  BY DEF Episodes!NeededSeasons
<1>2. B \in Seq(Count) /\ \A k \in DOMAIN B : B[k].season \in Episodes!Season
  BY BackwardsFacts
<1> HIDE DEF B, list
<1>3. part \in Seq(Count) /\ Collected(B, places, Len(B), part)
  <2>1. part = Chosen(B, places)
    BY DEF Episodes!Chosen, Chosen
  <2> HIDE DEF part, places
  <2> QED
    BY <1>2, <2>1, ChosenFacts
<1>4. DOMAIN B = 1 .. Len(B) /\ Len(B) \in Nat /\ DOMAIN part = 1 .. Len(part) /\ Len(part) \in Nat
  BY <1>2, <1>3
<1> HIDE DEF part
<1>5. PICK at \in [DOMAIN part -> (1 .. Len(B)) \cap places] :
        /\ \A k \in DOMAIN part : part[k] = B[at[k]]
        /\ \A i \in (1 .. Len(B)) \cap places : \E k \in DOMAIN part : at[k] = i
  BY <1>3 DEF Collected
<1>6. \A k \in DOMAIN part : part[k].season \in Episodes!Season
  BY <1>2, <1>4, <1>5
<1>7. list \in Seq(Episodes!Season)
  BY <1>1, <1>4, <1>6
<1>8. ASSUME NEW k \in places PROVE B[k].season \in Episodes!ToSet(list)
  <2>1. PICK i \in DOMAIN part : at[i] = k
    BY <1>4, <1>5, <1>8
  <2>2. i \in DOMAIN list /\ list[i] = B[k].season
    BY <1>1, <1>5, <2>1
  <2> QED
    BY <2>2 DEF Episodes!ToSet
<1> QED
  BY <1>7, <1>8 DEF B, list

-----------------------------------------------------------------------------
\* What the store has of the show.
EpisodesTyped ==
  /\ seasonCount \in Counts /\ paged \in BOOLEAN
  /\ seasons = Absent \/ \E S \in SUBSET Episodes!Season : seasons \in [S -> Seq(Nat)]
  /\ \A s \in Episodes!Season : OnceIn(Episodes!Children(s), 1 .. Episodes!EpisodesOf(s))
  /\ perPage \in PerPageDropdown /\ current \in Nat
  /\ chains \subseteq Seq(Episodes!Season) \ {<<>>}
  /\ visited \subseteq Nat
  /\ opened \in BOOLEAN /\ early \in BOOLEAN /\ failed \in BOOLEAN
  /\ messages \in 0 .. MaxMessages /\ reloads \in 0 .. MaxReloads

\* Every answer comes, and brings all episodes of the season.
Answered == ~failed /\ \A s \in Episodes!Season : Episodes!EpisodesOf(s) <= EpisodeLimit

\* The season is there or a load will ask for it.
Comes(s) == Episodes!Loaded(s) \/ \E chain \in chains : s \in Episodes!ToSet(chain)

\* So it is with the seasons of all pages that were opened, ...
VisitedInv ==
  Answered => \A page \in visited : \A s \in Episodes!ToSet(Episodes!NeededSeasons(page)) : Comes(s)

\* ... which the only one of a table without pages is, and with the specials.
OpenedInv ==
  opened /\ ~early => /\ ~paged /\ seasonCount # <<>> => 1 \in visited
                      /\ Answered /\ Episodes!HasSpecials => Comes(0)

EpisodesInv == EpisodesTyped /\ VisitedInv /\ OpenedInv

LEMMA SameCounts ==
  ASSUME UNCHANGED Episodes!shown
  PROVE  /\ seasonCount' = seasonCount /\ paged' = paged
         /\ Episodes!Season' = Episodes!Season
         /\ \A s : (Episodes!EpisodesOf(s))' = Episodes!EpisodesOf(s)
         /\ Episodes!HasSpecials' = Episodes!HasSpecials
         /\ failed' = failed => (Answered' => Answered)
<1>1. seasonCount' = seasonCount /\ paged' = paged
  BY DEF Episodes!shown
<1>2. Episodes!Season' = Episodes!Season /\ \A s : (Episodes!EpisodesOf(s))' = Episodes!EpisodesOf(s)
  BY <1>1 DEF Episodes!Season, Episodes!EpisodesOf
<1>3. Episodes!HasSpecials' = Episodes!HasSpecials
  BY <1>1 DEF Episodes!HasSpecials
<1>4. failed' = failed => (Answered' => Answered)
  BY <1>1, <1>2 DEF Answered
<1> QED
  BY <1>1, <1>2, <1>3, <1>4

\* The pages need the seasons they needed, while the rows per page stay.
LEMMA SameNeeded ==
  ASSUME UNCHANGED Episodes!shown, perPage' = perPage
  PROVE  \A page : (Episodes!NeededSeasons(page))' = Episodes!NeededSeasons(page)
<1>1. seasonCount' = seasonCount /\ paged' = paged /\ perPage' = perPage
  BY DEF Episodes!shown
<1>2. Episodes!Backwards' = Episodes!Backwards
  BY <1>1 DEF Episodes!Backwards
<1>3. Episodes!PagesCount' = Episodes!PagesCount
  BY <1>1, <1>2 DEF Episodes!PagesCount, Episodes!Grows
<1> QED
  BY <1>1, <1>2, <1>3 DEF Episodes!NeededSeasons

LEMMA SameSeasons ==
  ASSUME UNCHANGED <<Episodes!shown, seasons>>
  PROVE  /\ \A s : (Episodes!Children(s))' = Episodes!Children(s)
         /\ \A s : (Episodes!Loaded(s))' <=> Episodes!Loaded(s)
<1>1. seasons' = seasons /\ \A s : (Episodes!EpisodesOf(s))' = Episodes!EpisodesOf(s)
  BY SameCounts
<1>2. \A s : (Episodes!Children(s))' = Episodes!Children(s)
  BY <1>1 DEF Episodes!Children
<1>3. \A s : (Episodes!Loaded(s))' <=> Episodes!Loaded(s)
  BY <1>1 DEF Episodes!Loaded
<1> QED
  BY <1>2, <1>3

-----------------------------------------------------------------------------
\* Loads of pages begin: of the first one, or of the one that the user turned to.
LoadsBegin ==
  /\ chains \subseteq chains' /\ chains' \subseteq Seq(Episodes!Season) \ {<<>>}
  /\ visited \subseteq visited' /\ visited' \subseteq Nat
  /\ \A page \in visited' \ visited : \A s \in Episodes!ToSet(Episodes!NeededSeasons(page)) :
       \E chain \in chains' : s \in Episodes!ToSet(chain)

LEMMA LoadsFacts ==
  ASSUME EpisodesTyped, NEW new, new \subseteq Seq(Episodes!Season), Episodes!Loads(new)
  PROVE  /\ chains \subseteq chains' /\ chains' \subseteq Seq(Episodes!Season) \ {<<>>}
         /\ \A list \in new : \A s \in Episodes!ToSet(list) : \E chain \in chains' : s \in Episodes!ToSet(chain)
<1>1. chains' = chains \cup (new \ {<<>>})
  BY DEF Episodes!Loads
<1>2. chains \subseteq chains' /\ chains' \subseteq Seq(Episodes!Season) \ {<<>>}
  BY <1>1 DEF EpisodesTyped
<1>3. ASSUME NEW list \in new, NEW s \in Episodes!ToSet(list) PROVE list \in chains'
  <2>1. list # <<>>
    BY <1>3 DEF Episodes!ToSet
  <2> QED
    BY <1>1, <2>1
<1> QED
  BY <1>2, <1>3

LEMMA InitializeFacts ==
  ASSUME EpisodesTyped, NEW force \in BOOLEAN, Episodes!InitializeEpisodes(force)
  PROVE  /\ LoadsBegin
         /\ (force \/ seasons = Absent) /\ seasonCount # <<>> =>
              /\ 1 \in visited'
              /\ Episodes!HasSpecials => \E chain \in chains' : 0 \in Episodes!ToSet(chain)
<1>0. seasonCount \in Counts
  BY DEF EpisodesTyped
<1>1. CASE (force \/ seasons = Absent) /\ seasonCount # <<>>
  <2> DEFINE specials == IF Episodes!HasSpecials THEN <<0>> ELSE <<>>
             new == {Episodes!NeededSeasons(1), specials}
  <2>1. Episodes!Loads(new) /\ visited' = visited \cup {1}
    BY <1>1 DEF Episodes!InitializeEpisodes
  <2>2. specials \in Seq(Episodes!Season)
    <3>1. Episodes!HasSpecials => 0 \in Episodes!Season
      BY <1>0, SeasonFacts
    <3> QED
      BY <3>1
  <2>3. new \subseteq Seq(Episodes!Season)
    BY <1>0, <2>2, NeededFacts
  <2> HIDE DEF specials
  <2>4. /\ chains \subseteq chains' /\ chains' \subseteq Seq(Episodes!Season) \ {<<>>}
        /\ \A list \in new : \A s \in Episodes!ToSet(list) : \E chain \in chains' : s \in Episodes!ToSet(chain)
    BY <2>1, <2>3, LoadsFacts
  <2>5. Episodes!HasSpecials => 0 \in Episodes!ToSet(specials)
    BY DEF specials, Episodes!ToSet
  <2>6. visited \subseteq visited' /\ visited' \subseteq Nat /\ 1 \in visited' /\ visited' \ visited \subseteq {1}
    BY <2>1 DEF EpisodesTyped
  <2>7. LoadsBegin
    BY <2>4, <2>6 DEF LoadsBegin
  <2> QED
    BY <2>4, <2>5, <2>6, <2>7
<1>2. CASE ~((force \/ seasons = Absent) /\ seasonCount # <<>>)
  <2>1. UNCHANGED <<chains, visited>>
    BY <1>2 DEF Episodes!InitializeEpisodes
  <2>2. LoadsBegin
    BY <2>1 DEF LoadsBegin, EpisodesTyped
  <2> QED
    BY <1>2, <2>2
<1> QED
  BY <1>1, <1>2

\* Loads that begin ask for what the pages need; those in progress go on.
LEMMA LoadsStep ==
  ASSUME EpisodesInv, LoadsBegin, UNCHANGED <<Episodes!shown, seasons, perPage, failed>>,
         current' \in Nat, opened' \in BOOLEAN, early' \in BOOLEAN,
         messages' \in 0 .. MaxMessages, reloads' \in 0 .. MaxReloads
  PROVE  /\ EpisodesTyped' /\ VisitedInv'
         /\ Answered' => \A s : Comes(s) => Comes(s)'
<1>0. EpisodesTyped /\ VisitedInv
  BY DEF EpisodesInv
<1>1. /\ Episodes!Season' = Episodes!Season
      /\ \A s : (Episodes!EpisodesOf(s))' = Episodes!EpisodesOf(s)
      /\ \A page : (Episodes!NeededSeasons(page))' = Episodes!NeededSeasons(page)
      /\ Answered' => Answered
  <2>1. UNCHANGED Episodes!shown /\ perPage' = perPage /\ failed' = failed
    OBVIOUS
  <2>2. \A page : (Episodes!NeededSeasons(page))' = Episodes!NeededSeasons(page)
    BY <2>1, SameNeeded
  <2>3. /\ Episodes!Season' = Episodes!Season
        /\ \A s : (Episodes!EpisodesOf(s))' = Episodes!EpisodesOf(s)
        /\ Answered' => Answered
    BY <2>1, SameCounts
  <2> QED
    BY <2>2, <2>3
<1>2. /\ \A s : (Episodes!Children(s))' = Episodes!Children(s)
      /\ \A s : (Episodes!Loaded(s))' <=> Episodes!Loaded(s)
  BY SameSeasons
<1>3. EpisodesTyped'
  <2>1. /\ seasonCount' = seasonCount /\ paged' = paged /\ seasons' = seasons /\ failed' = failed
        /\ perPage' = perPage
    BY DEF Episodes!shown
  <2> QED
    BY <1>0, <1>1, <1>2, <2>1, Zenon DEF EpisodesTyped, LoadsBegin, OnceIn
<1>4. \A s : Comes(s) => Comes(s)'
  BY <1>2 DEF Comes, LoadsBegin
<1>5. VisitedInv'
  <2> SUFFICES ASSUME Answered', NEW page \in visited', NEW s \in Episodes!ToSet(Episodes!NeededSeasons(page))
               PROVE  Comes(s)'
    BY <1>1 DEF VisitedInv, Episodes!ToSet
  <2>1. CASE page \in visited
    BY <1>0, <1>1, <1>4, <2>1 DEF VisitedInv
  <2>2. CASE page \notin visited
    BY <2>2 DEF LoadsBegin, Comes
  <2> QED
    BY <2>1, <2>2
<1> QED
  BY <1>3, <1>4, <1>5

LEMMA PageOpenedStep ==
  ASSUME EpisodesInv, Episodes!PageOpened
  PROVE  EpisodesInv'
<1>0. EpisodesTyped /\ OpenedInv
  BY DEF EpisodesInv
<1>1. /\ opened' = TRUE /\ Episodes!InitializeEpisodes(FALSE)
      /\ UNCHANGED <<Episodes!shown, seasons, perPage, current, messages, reloads, failed>>
  BY DEF Episodes!PageOpened, Episodes!pagination, Episodes!bounds
<1>2. early' = (seasons # Absent)
  BY DEF Episodes!PageOpened
<1>3. /\ LoadsBegin
      /\ seasons = Absent /\ seasonCount # <<>> =>
           /\ 1 \in visited'
           /\ Episodes!HasSpecials => \E chain \in chains' : 0 \in Episodes!ToSet(chain)
  BY <1>0, <1>1, InitializeFacts
<1>4. opened' \in BOOLEAN /\ early' \in BOOLEAN
  BY <1>1, <1>2, Zenon
<1>5. EpisodesTyped' /\ VisitedInv'
  BY <1>0, <1>1, <1>3, <1>4, LoadsStep DEF EpisodesTyped
<1>6. OpenedInv'
  <2> SUFFICES ASSUME ~early'
               PROVE  /\ seasonCount # <<>> => 1 \in visited'
                      /\ Episodes!HasSpecials => Comes(0)'
    BY <1>1, SameCounts DEF OpenedInv, Episodes!shown
  <2>1. seasons = Absent
    BY <1>2, Zenon
  <2>2. Episodes!HasSpecials => seasonCount # <<>>
    BY DEF Episodes!HasSpecials
  <2> QED
    BY <1>3, <2>1, <2>2 DEF Comes
<1> QED
  BY <1>5, <1>6 DEF EpisodesInv

LEMMA ReloadedStep ==
  ASSUME EpisodesInv, Episodes!Reloaded \/ \E page \in Episodes!TablePages : Episodes!PageChanged(page)
  PROVE  EpisodesInv'
<1>0. EpisodesTyped /\ OpenedInv
  BY DEF EpisodesInv
<1>1. /\ opened' = opened /\ early' = early /\ reloads' \in 0 .. MaxReloads /\ current' \in Nat
      /\ UNCHANGED <<Episodes!shown, seasons, perPage, messages, failed>>
  <2>1. reloads \in 0 .. MaxReloads /\ MaxReloads \in Nat /\ current \in Nat
    BY <1>0, EpisodesAssumption DEF EpisodesTyped
  <2>2. CASE Episodes!Reloaded
    <3>1. reloads < MaxReloads /\ reloads' = reloads + 1
      BY <2>2 DEF Episodes!Reloaded
    <3>2. reloads' \in 0 .. MaxReloads
      BY <2>1, <3>1
    <3> QED
      BY <2>1, <2>2, <3>2 DEF Episodes!Reloaded, Episodes!pagination
  <2>3. CASE \E page \in Episodes!TablePages : Episodes!PageChanged(page)
    BY <2>1, <2>3 DEF Episodes!PageChanged, Episodes!bounds, Episodes!TablePages
  <2> QED
    BY <2>2, <2>3
<1>2. LoadsBegin
  <2>1. CASE Episodes!Reloaded
    BY <1>0, <2>1, InitializeFacts DEF Episodes!Reloaded
  <2>2. ASSUME NEW page \in Episodes!TablePages, Episodes!PageChanged(page) PROVE LoadsBegin
    <3> DEFINE list == Episodes!NeededSeasons(page)
    <3>1. Episodes!Loads({list}) /\ visited' = visited \cup {page}
      BY <2>2 DEF Episodes!PageChanged
    <3>2. list \in Seq(Episodes!Season)
      BY <1>0, NeededFacts DEF EpisodesTyped
    <3>3. page \in Nat
      BY DEF Episodes!TablePages
    <3>4. /\ chains \subseteq chains' /\ chains' \subseteq Seq(Episodes!Season) \ {<<>>}
          /\ \A s \in Episodes!ToSet(list) : \E chain \in chains' : s \in Episodes!ToSet(chain)
      <4> HIDE DEF list
      <4>1. {list} \subseteq Seq(Episodes!Season) /\ list \in {list}
        BY <3>2
      <4> QED
        BY <1>0, <3>1, <4>1, LoadsFacts
    <3>5. visited \subseteq visited' /\ visited' \subseteq Nat /\ visited' \ visited \subseteq {page}
      BY <1>0, <3>1, <3>3 DEF EpisodesTyped
    <3> QED
      BY <3>4, <3>5 DEF LoadsBegin
  <2> QED
    BY <2>1, <2>2
<1>3. opened' \in BOOLEAN /\ early' \in BOOLEAN /\ messages' \in 0 .. MaxMessages
  BY <1>0, <1>1 DEF EpisodesTyped
<1>4. EpisodesTyped' /\ VisitedInv' /\ (Answered' => \A s : Comes(s) => Comes(s)')
  BY <1>1, <1>2, <1>3, LoadsStep
<1>5. OpenedInv'
  <2>1. /\ seasonCount' = seasonCount /\ paged' = paged /\ Episodes!HasSpecials' = Episodes!HasSpecials
        /\ Answered' => Answered
    BY <1>1, SameCounts
  <2>2. 1 \in visited => 1 \in visited'
    BY <1>2 DEF LoadsBegin
  <2> QED
    BY <1>0, <1>1, <1>4, <2>1, <2>2 DEF OpenedInv
<1> QED
  BY <1>4, <1>5 DEF EpisodesInv

-----------------------------------------------------------------------------
\* Episodes of a season come: it has them and what it had.
LEMMA SeasonAddedFacts ==
  ASSUME EpisodesTyped, NEW s \in Episodes!Season, NEW episodes \in Seq(Nat),
         NEW set, set = {episodes[k] : k \in DOMAIN episodes}, set \subseteq 1 .. Episodes!EpisodesOf(s),
         seasons' = Episodes!AddEpisodes(s, episodes), UNCHANGED Episodes!shown
  PROVE  /\ \E S \in SUBSET Episodes!Season : seasons' \in [S -> Seq(Nat)]
         /\ \A t \in Episodes!Season : OnceIn((Episodes!Children(t))', 1 .. Episodes!EpisodesOf(t))
         /\ \A t \in Episodes!Season : Episodes!Loaded(t) => (Episodes!Loaded(t))'
         /\ set = 1 .. Episodes!EpisodesOf(s) => (Episodes!Loaded(s))'
<1> DEFINE stored == IF seasons = Absent THEN {} ELSE DOMAIN seasons
           new == Episodes!WithEpisodes(Episodes!Children(s), episodes)
<1>0. /\ seasonCount \in Counts
      /\ \A t : (Episodes!EpisodesOf(t))' = Episodes!EpisodesOf(t)
      /\ \A t \in Episodes!Season : OnceIn(Episodes!Children(t), 1 .. Episodes!EpisodesOf(t))
  BY SameCounts DEF EpisodesTyped
<1>1. seasons' = [t \in stored \cup {s} |-> IF t = s THEN new ELSE seasons[t]]
  BY DEF Episodes!AddEpisodes
<1>2. stored \subseteq Episodes!Season /\ \A t \in stored : seasons[t] \in Seq(Nat) /\ seasons # Absent
  BY DEF EpisodesTyped
<1>3. /\ new \in Seq(Nat) /\ Episodes!IsInjective(new)
      /\ Episodes!ToSet(new) = Episodes!ToSet(Episodes!Children(s)) \cup set
  BY <1>0, WithEpisodesFacts DEF OnceIn
<1> HIDE DEF new
<1>4. seasons' \in [stored \cup {s} -> Seq(Nat)]
  BY <1>1, <1>2, <1>3
<1>5. seasons' # Absent
  <2>1. stored \cup {s} \in SUBSET Episodes!Season
    BY <1>2
  <2> HIDE DEF stored
  <2> QED
    BY <1>0, <1>4, <2>1, SeasonFacts
<1>6. \A t : (Episodes!Children(t))' = IF t \in stored \cup {s} THEN seasons'[t] ELSE <<>>
  BY <1>1, <1>5 DEF Episodes!Children
<1>7. \A t : Episodes!Children(t) = IF t \in stored THEN seasons[t] ELSE <<>>
  BY DEF Episodes!Children
<1>8. (Episodes!Children(s))' = new /\ \A t : t # s => (Episodes!Children(t))' = Episodes!Children(t)
  BY <1>1, <1>6, <1>7
<1>9. ASSUME NEW t \in Episodes!Season PROVE OnceIn((Episodes!Children(t))', 1 .. Episodes!EpisodesOf(t))
  <2>1. CASE t = s
    BY <1>0, <1>3, <1>8, <2>1 DEF OnceIn
  <2>2. CASE t # s
    BY <1>0, <1>8, <2>2
  <2> QED
    BY <2>1, <2>2
<1>10. ASSUME NEW t \in Episodes!Season, Episodes!Loaded(t) PROVE (Episodes!Loaded(t))'
  <2>1. t \in stored /\ Episodes!IsInjective(seasons[t]) /\ Episodes!ToSet(seasons[t]) = 1 .. Episodes!EpisodesOf(t)
    BY <1>10 DEF Episodes!Loaded
  <2>2. t \in DOMAIN seasons'
    BY <1>1, <2>1
  <2>3. CASE t = s
    <3>1. seasons'[t] = new /\ Episodes!ToSet(new) = 1 .. Episodes!EpisodesOf(t)
      BY <1>1, <1>3, <1>7, <2>1, <2>3
    <3> QED
      BY <1>0, <1>3, <1>5, <2>2, <3>1 DEF Episodes!Loaded
  <2>4. CASE t # s
    <3>1. seasons'[t] = seasons[t]
      BY <1>1, <2>1, <2>4
    <3> QED
      BY <1>0, <1>5, <2>1, <2>2, <3>1 DEF Episodes!Loaded
  <2> QED
    BY <2>3, <2>4
<1>11. ASSUME set = 1 .. Episodes!EpisodesOf(s) PROVE (Episodes!Loaded(s))'
  <2>1. s \in DOMAIN seasons' /\ seasons'[s] = new
    BY <1>1
  <2>2. Episodes!ToSet(new) = 1 .. Episodes!EpisodesOf(s)
    BY <1>0, <1>3, <1>11 DEF OnceIn
  <2> QED
    BY <1>0, <1>3, <1>5, <2>1, <2>2 DEF Episodes!Loaded
<1>12. \E S \in SUBSET Episodes!Season : seasons' \in [S -> Seq(Nat)]
  <2>1. stored \cup {s} \in SUBSET Episodes!Season
    BY <1>2
  <2> HIDE DEF stored
  <2> QED
    BY <1>4, <2>1
<1> QED
  BY <1>9, <1>10, <1>11, <1>12

LEMMA EpisodesArriveStep ==
  ASSUME EpisodesInv, NEW chain \in chains, Episodes!EpisodesArrive(chain)
  PROVE  EpisodesInv'
<1> DEFINE s == Head(chain)
           last == IF Episodes!EpisodesOf(s) < EpisodeLimit THEN Episodes!EpisodesOf(s) ELSE EpisodeLimit
           episodes == [e \in 1 .. last |-> e]
           set == {episodes[k] : k \in DOMAIN episodes}
<1>0. EpisodesTyped /\ VisitedInv /\ OpenedInv /\ seasonCount \in Counts
  BY DEF EpisodesInv, EpisodesTyped
<1>1. /\ seasons' = Episodes!AddEpisodes(s, episodes)
      /\ chains' = (chains \ {chain}) \cup ({Tail(chain)} \ {<<>>})
      /\ UNCHANGED <<Episodes!shown, perPage, current, opened, visited, messages, reloads, early, failed>>
  BY DEF Episodes!EpisodesArrive, Episodes!pagination, Episodes!bounds
<1>2. /\ s \in Episodes!Season /\ Tail(chain) \in Seq(Episodes!Season)
      /\ \A t \in Episodes!ToSet(chain) : t = s \/ t \in Episodes!ToSet(Tail(chain))
  <2>1. chain \in Seq(Episodes!Season) /\ chain # <<>>
    BY <1>0 DEF EpisodesTyped
  <2>2. /\ s \in Episodes!Season /\ Tail(chain) \in Seq(Episodes!Season)
        /\ Len(Tail(chain)) = Len(chain) - 1 /\ Len(chain) \in Nat
        /\ \A i \in 1 .. Len(Tail(chain)) : Tail(chain)[i] = chain[i + 1]
        /\ s = chain[1]
    BY <2>1, HeadTailProperties, LenProperties
  <2>3. DOMAIN chain = 1 .. Len(chain) /\ DOMAIN Tail(chain) = 1 .. Len(Tail(chain))
    BY <2>1, <2>2, LenProperties
  <2>4. ASSUME NEW i \in DOMAIN chain, i # 1 PROVE chain[i] \in Episodes!ToSet(Tail(chain))
    <3>1. i - 1 \in DOMAIN Tail(chain) /\ Tail(chain)[i - 1] = chain[i]
      BY <2>2, <2>3, <2>4
    <3> QED
      BY <3>1 DEF Episodes!ToSet
  <2>5. \A t \in Episodes!ToSet(chain) : t = s \/ t \in Episodes!ToSet(Tail(chain))
    BY <2>2, <2>4 DEF Episodes!ToSet
  <2> QED
    BY <2>2, <2>5
<1>3. Episodes!EpisodesOf(s) \in Nat /\ EpisodeLimit \in Nat
  BY <1>0, <1>2, SeasonFacts, EpisodesAssumption
<1>4. last \in Nat /\ last <= Episodes!EpisodesOf(s) /\ (Answered => last = Episodes!EpisodesOf(s))
  <2>1. Answered => Episodes!EpisodesOf(s) <= EpisodeLimit
    BY <1>2 DEF Answered
  <2> HIDE DEF s
  <2> QED
    BY <1>3, <2>1
<1> HIDE DEF s, last
<1>5. episodes \in Seq(Nat) /\ set = 1 .. last /\ set \subseteq 1 .. Episodes!EpisodesOf(s)
  <2>1. 1 .. last \subseteq Nat /\ 1 .. last \subseteq 1 .. Episodes!EpisodesOf(s)
    BY <1>3, <1>4
  <2>2. episodes \in Seq(Nat)
    BY <1>4
  <2>3. set = 1 .. last
    OBVIOUS
  <2> QED
    BY <2>1, <2>2, <2>3
<1> HIDE DEF episodes, set
<1>6. /\ \E S \in SUBSET Episodes!Season : seasons' \in [S -> Seq(Nat)]
      /\ \A t \in Episodes!Season : OnceIn((Episodes!Children(t))', 1 .. Episodes!EpisodesOf(t))
      /\ \A t \in Episodes!Season : Episodes!Loaded(t) => (Episodes!Loaded(t))'
      /\ set = 1 .. Episodes!EpisodesOf(s) => (Episodes!Loaded(s))'
  <2>1. set = {episodes[k] : k \in DOMAIN episodes} /\ UNCHANGED Episodes!shown
    BY <1>1 DEF set
  <2> QED
    BY <1>0, <1>1, <1>2, <1>5, <2>1, SeasonAddedFacts
<1>7. /\ Episodes!Season' = Episodes!Season
      /\ \A t : (Episodes!EpisodesOf(t))' = Episodes!EpisodesOf(t)
      /\ \A page : (Episodes!NeededSeasons(page))' = Episodes!NeededSeasons(page)
      /\ Episodes!HasSpecials' = Episodes!HasSpecials
      /\ Answered' => Answered
      /\ seasonCount' = seasonCount /\ paged' = paged
  <2>1. UNCHANGED Episodes!shown /\ perPage' = perPage /\ failed' = failed
    BY <1>1
  <2>2. \A page : (Episodes!NeededSeasons(page))' = Episodes!NeededSeasons(page)
    BY <2>1, SameNeeded
  <2>3. /\ Episodes!Season' = Episodes!Season
        /\ \A t : (Episodes!EpisodesOf(t))' = Episodes!EpisodesOf(t)
        /\ Episodes!HasSpecials' = Episodes!HasSpecials
        /\ Answered' => Answered
        /\ seasonCount' = seasonCount /\ paged' = paged
    BY <2>1, SameCounts
  <2> QED
    BY <2>2, <2>3
<1>8. ASSUME Answered', NEW t \in Episodes!Season, Comes(t) PROVE Comes(t)'
  <2>1. CASE Episodes!Loaded(t)
    BY <1>6, <2>1 DEF Comes
  <2>2. ASSUME NEW other \in chains, t \in Episodes!ToSet(other) PROVE Comes(t)'
    <3>1. CASE other # chain
      BY <1>1, <2>2, <3>1 DEF Comes
    <3>2. CASE t = s
      BY <1>4, <1>5, <1>6, <1>7, <1>8, <3>2 DEF Comes
    <3>3. CASE t \in Episodes!ToSet(Tail(chain))
      <4>1. Tail(chain) # <<>>
        BY <3>3 DEF Episodes!ToSet
      <4> QED
        BY <1>1, <3>3, <4>1 DEF Comes
    <3> QED
      BY <1>2, <2>2, <3>1, <3>2, <3>3
  <2> QED
    BY <1>8, <2>1, <2>2 DEF Comes
<1>9. EpisodesTyped'
  <2>1. chains' \subseteq Seq(Episodes!Season) \ {<<>>}
    BY <1>0, <1>1, <1>2 DEF EpisodesTyped
  <2> QED
    BY <1>0, <1>1, <1>6, <1>7, <2>1, Zenon DEF EpisodesTyped
<1>10. VisitedInv'
  <2> SUFFICES ASSUME Answered', NEW page \in visited, NEW t \in Episodes!ToSet(Episodes!NeededSeasons(page))
               PROVE  Comes(t)'
    BY <1>1, <1>7 DEF VisitedInv, Episodes!ToSet
  <2>1. Comes(t)
    BY <1>0, <1>7 DEF VisitedInv
  <2>2. t \in Episodes!Season
    <3>1. Episodes!NeededSeasons(page) \in Seq(Episodes!Season)
      BY <1>0, NeededFacts
    <3> QED
      BY <3>1 DEF Episodes!ToSet
  <2> QED
    BY <1>8, <2>1, <2>2
<1>11. OpenedInv'
  <2>1. Episodes!HasSpecials => 0 \in Episodes!Season
    BY <1>0, SeasonFacts
  <2> QED
    BY <1>0, <1>1, <1>7, <1>8, <2>1 DEF OpenedInv
<1> QED
  BY <1>9, <1>10, <1>11 DEF EpisodesInv

\* A message about an episode comes: one more episode, or the same again.
LEMMA EpisodeUpdatedStep ==
  ASSUME EpisodesInv, NEW s \in Episodes!Season, NEW e \in 1 .. Episodes!EpisodesOf(s),
         Episodes!EpisodeUpdated(s, e)
  PROVE  EpisodesInv'
<1> DEFINE episodes == <<e>>
           set == {episodes[k] : k \in DOMAIN episodes}
<1>0. EpisodesTyped /\ VisitedInv /\ OpenedInv /\ seasonCount \in Counts
  BY DEF EpisodesInv, EpisodesTyped
<1>1. /\ messages < MaxMessages /\ messages' = messages + 1
      /\ seasons' = Episodes!AddEpisodes(s, episodes)
      /\ UNCHANGED <<Episodes!shown, perPage, current, opened, chains, visited, reloads, early, failed>>
  BY DEF Episodes!EpisodeUpdated, Episodes!pagination
<1>2. messages' \in 0 .. MaxMessages
  BY <1>0, <1>1, EpisodesAssumption DEF EpisodesTyped
<1>3. e \in Nat
  BY <1>0, SeasonFacts
<1>4. episodes \in Seq(Nat) /\ set \subseteq 1 .. Episodes!EpisodesOf(s)
  BY <1>3
<1> HIDE DEF episodes, set
<1>5. /\ \E S \in SUBSET Episodes!Season : seasons' \in [S -> Seq(Nat)]
      /\ \A t \in Episodes!Season : OnceIn((Episodes!Children(t))', 1 .. Episodes!EpisodesOf(t))
      /\ \A t \in Episodes!Season : Episodes!Loaded(t) => (Episodes!Loaded(t))'
  <2>1. set = {episodes[k] : k \in DOMAIN episodes} /\ UNCHANGED Episodes!shown
    BY <1>1 DEF set
  <2> QED
    BY <1>0, <1>1, <1>4, <2>1, SeasonAddedFacts
<1>6. /\ Episodes!Season' = Episodes!Season
      /\ \A t : (Episodes!EpisodesOf(t))' = Episodes!EpisodesOf(t)
      /\ \A page : (Episodes!NeededSeasons(page))' = Episodes!NeededSeasons(page)
      /\ Episodes!HasSpecials' = Episodes!HasSpecials
      /\ Answered' => Answered
      /\ seasonCount' = seasonCount /\ paged' = paged
  <2>1. UNCHANGED Episodes!shown /\ perPage' = perPage /\ failed' = failed
    BY <1>1
  <2>2. \A page : (Episodes!NeededSeasons(page))' = Episodes!NeededSeasons(page)
    BY <2>1, SameNeeded
  <2>3. /\ Episodes!Season' = Episodes!Season
        /\ \A t : (Episodes!EpisodesOf(t))' = Episodes!EpisodesOf(t)
        /\ Episodes!HasSpecials' = Episodes!HasSpecials
        /\ Answered' => Answered
        /\ seasonCount' = seasonCount /\ paged' = paged
    BY <2>1, SameCounts
  <2> QED
    BY <2>2, <2>3
<1>7. \A t \in Episodes!Season : Comes(t) => Comes(t)'
  BY <1>1, <1>5 DEF Comes
<1>8. EpisodesTyped'
  BY <1>0, <1>1, <1>2, <1>5, <1>6, Zenon DEF EpisodesTyped
<1>9. VisitedInv'
  <2> SUFFICES ASSUME Answered', NEW page \in visited, NEW t \in Episodes!ToSet(Episodes!NeededSeasons(page))
               PROVE  Comes(t)'
    BY <1>1, <1>6 DEF VisitedInv, Episodes!ToSet
  <2>1. Comes(t)
    BY <1>0, <1>6 DEF VisitedInv
  <2>2. t \in Episodes!Season
    <3>1. Episodes!NeededSeasons(page) \in Seq(Episodes!Season)
      BY <1>0, NeededFacts
    <3> QED
      BY <3>1 DEF Episodes!ToSet
  <2> QED
    BY <1>7, <2>1, <2>2
<1>10. OpenedInv'
  <2>1. Episodes!HasSpecials => 0 \in Episodes!Season
    BY <1>0, SeasonFacts
  <2> QED
    BY <1>0, <1>1, <1>6, <1>7, <2>1 DEF OpenedInv
<1> QED
  BY <1>8, <1>9, <1>10 DEF EpisodesInv

\* A request fails: nothing is promised from here on.
LEMMA RequestFailsStep ==
  ASSUME EpisodesInv, NEW chain \in chains, Episodes!RequestFails(chain)
  PROVE  EpisodesInv'
<1>0. EpisodesTyped /\ OpenedInv
  BY DEF EpisodesInv
<1>1. /\ chains' = chains \ {chain} /\ failed' = TRUE
      /\ UNCHANGED <<Episodes!shown, seasons, perPage, current, opened, visited, messages, reloads,
                     early>>
  BY DEF Episodes!RequestFails, Episodes!pagination, Episodes!bounds
<1>2. ~Answered'
  BY <1>1 DEF Answered
<1>3. /\ Episodes!Season' = Episodes!Season
      /\ \A t : (Episodes!EpisodesOf(t))' = Episodes!EpisodesOf(t)
      /\ \A t : (Episodes!Children(t))' = Episodes!Children(t)
      /\ seasonCount' = seasonCount /\ paged' = paged
  BY <1>1, SameCounts, SameSeasons DEF Episodes!shown
<1>4. chains' \subseteq Seq(Episodes!Season) \ {<<>>}
  BY <1>0, <1>1 DEF EpisodesTyped
<1>5. EpisodesTyped'
  BY <1>0, <1>1, <1>3, <1>4, Zenon DEF EpisodesTyped, OnceIn
<1> QED
  BY <1>0, <1>1, <1>2, <1>3, <1>5 DEF EpisodesInv, VisitedInv, OpenedInv

\* The rows per page change: no page is known to be there by the new ones.
LEMMA PerPageChangedStep ==
  ASSUME EpisodesInv, NEW rows \in PerPageDropdown, Episodes!PerPageChanged(rows)
  PROVE  EpisodesInv'
<1>0. EpisodesTyped /\ OpenedInv
  BY DEF EpisodesInv
<1>1. /\ paged /\ perPage' = rows /\ current' = 1 /\ visited' = {}
      /\ UNCHANGED <<Episodes!shown, seasons, opened, chains, messages, reloads, early, failed>>
  BY DEF Episodes!PerPageChanged, Episodes!bounds
<1>2. /\ Episodes!Season' = Episodes!Season
      /\ \A t : (Episodes!EpisodesOf(t))' = Episodes!EpisodesOf(t)
      /\ \A t : (Episodes!Children(t))' = Episodes!Children(t)
      /\ \A t : (Episodes!Loaded(t))' <=> Episodes!Loaded(t)
      /\ seasonCount' = seasonCount /\ paged' = paged
      /\ Episodes!HasSpecials' = Episodes!HasSpecials /\ (Answered' => Answered)
  BY <1>1, SameCounts, SameSeasons
<1>3. EpisodesTyped'
  BY <1>0, <1>1, <1>2 DEF EpisodesTyped, OnceIn
<1>4. VisitedInv'
  BY <1>1 DEF VisitedInv
<1>5. OpenedInv'
  BY <1>0, <1>1, <1>2 DEF OpenedInv, Comes
<1> QED
  BY <1>3, <1>4, <1>5 DEF EpisodesInv

LEMMA EpisodesInitial == Episodes!Init => EpisodesInv
<1> SUFFICES ASSUME Episodes!Init PROVE EpisodesInv
  OBVIOUS
<1>1. /\ seasonCount \in Counts /\ paged \in BOOLEAN /\ seasons = Absent
      /\ perPage \in PerPageDropdown /\ current = 1
      /\ opened = FALSE /\ chains = {} /\ visited = {} /\ messages = 0 /\ reloads = 0
      /\ early = FALSE /\ failed = FALSE
  BY DEF Episodes!Init
<1>2. \A s : Episodes!Children(s) = <<>>
  BY <1>1 DEF Episodes!Children
<1>3. \A set : OnceIn(<<>>, set)
  BY DEF OnceIn, Episodes!IsInjective, Episodes!ToSet
<1>4. 0 \in 0 .. MaxMessages /\ 0 \in 0 .. MaxReloads
  BY EpisodesAssumption
<1>5. EpisodesTyped
  BY <1>1, <1>2, <1>3, <1>4 DEF EpisodesTyped
<1> QED
  BY <1>1, <1>5 DEF EpisodesInv, VisitedInv, OpenedInv

LEMMA EpisodesInductive == EpisodesInv /\ [Episodes!Next]_(Episodes!vars) => EpisodesInv'
<1> SUFFICES ASSUME EpisodesInv, [Episodes!Next]_(Episodes!vars) PROVE EpisodesInv'
  OBVIOUS
<1>1. CASE Episodes!PageOpened
  BY <1>1, PageOpenedStep
<1>2. CASE Episodes!Reloaded \/ \E page \in Episodes!TablePages : Episodes!PageChanged(page)
  BY <1>2, ReloadedStep
<1>3. ASSUME NEW chain \in chains, Episodes!EpisodesArrive(chain) PROVE EpisodesInv'
  BY <1>3, EpisodesArriveStep
<1>4. ASSUME NEW chain \in chains, Episodes!RequestFails(chain) PROVE EpisodesInv'
  BY <1>4, RequestFailsStep
<1>5. ASSUME NEW s \in Episodes!Season, NEW e \in 1 .. Episodes!EpisodesOf(s), Episodes!EpisodeUpdated(s, e)
      PROVE  EpisodesInv'
  BY <1>5, EpisodeUpdatedStep
<1>6. CASE UNCHANGED Episodes!vars
  <2>1. /\ UNCHANGED <<Episodes!shown, seasons>> /\ UNCHANGED Episodes!shown /\ perPage' = perPage /\ current' = current
        /\ opened' = opened /\ chains' = chains /\ visited' = visited /\ messages' = messages
        /\ reloads' = reloads /\ early' = early /\ failed' = failed
    BY <1>6 DEF Episodes!vars, Episodes!pagination, Episodes!bounds
  <2>2. seasonCount' = seasonCount /\ paged' = paged /\ seasons' = seasons
    BY <2>1 DEF Episodes!shown
  <2> QED
    <3>1. /\ Episodes!Season' = Episodes!Season
          /\ \A s : (Episodes!EpisodesOf(s))' = Episodes!EpisodesOf(s)
          /\ Episodes!HasSpecials' = Episodes!HasSpecials
          /\ Answered' => Answered
      BY <2>1, SameCounts
    <3>2. \A page : (Episodes!NeededSeasons(page))' = Episodes!NeededSeasons(page)
      BY <2>1, SameNeeded
    <3>3. /\ \A s : (Episodes!Children(s))' = Episodes!Children(s)
          /\ \A s : (Episodes!Loaded(s))' <=> Episodes!Loaded(s)
      BY <2>1, SameSeasons
    <3>4. EpisodesTyped'
      BY <2>1, <2>2, <3>1, <3>3 DEF EpisodesInv, EpisodesTyped, OnceIn
    <3>5. \A s : Comes(s) => Comes(s)'
      BY <2>1, <3>3 DEF Comes
    <3>6. VisitedInv'
      BY <2>1, <3>1, <3>2, <3>5 DEF EpisodesInv, VisitedInv, Episodes!ToSet
    <3>7. OpenedInv'
      BY <2>1, <2>2, <3>1, <3>5 DEF EpisodesInv, OpenedInv
    <3> QED
      BY <3>4, <3>6, <3>7 DEF EpisodesInv
<1>7. ASSUME NEW rows \in PerPageDropdown, Episodes!PerPageChanged(rows) PROVE EpisodesInv'
  BY <1>7, PerPageChangedStep
<1> QED
  BY <1>1, <1>2, <1>3, <1>4, <1>5, <1>6, <1>7 DEF Episodes!Next

-----------------------------------------------------------------------------
\* A list of all numbers up to n has n elements at least.
LEMMA AllListed ==
  ASSUME NEW n \in Nat, NEW list \in Seq(Nat), Episodes!ToSet(list) = 1 .. n
  PROVE  n <= Len(list)
<1>1. Len(list) \in Nat /\ DOMAIN list = 1 .. Len(list)
  OBVIOUS
<1>2. list \in Surjection(1 .. Len(list), 1 .. n)
  <2>1. \A k \in 1 .. Len(list) : list[k] \in 1 .. n
    BY <1>1 DEF Episodes!ToSet
  <2>2. list \in [1 .. Len(list) -> 1 .. n]
    BY <1>1, <2>1
  <2>3. \A e \in 1 .. n : \E k \in 1 .. Len(list) : list[k] = e
    BY <1>1 DEF Episodes!ToSet
  <2> QED
    BY <2>2, <2>3 DEF Surjection
<1>3. \A m \in Nat : IsFiniteSet(1 .. m) /\ Cardinality(1 .. m) = m
  <2> SUFFICES ASSUME NEW m \in Nat PROVE IsFiniteSet(1 .. m) /\ Cardinality(1 .. m) = m
    OBVIOUS
  <2>1. 1 \in Int /\ m \in Int
    OBVIOUS
  <2>2. IsFiniteSet(1 .. m) /\ Cardinality(1 .. m) = IF 1 > m THEN 0 ELSE m - 1 + 1
    BY <2>1, FS_Interval, Zenon
  <2> QED
    BY <2>2
<1>4. Cardinality(1 .. n) <= Cardinality(1 .. Len(list))
  BY <1>1, <1>2, <1>3, FS_Surjection
<1> QED
  BY <1>1, <1>3, <1>4

\* Rows that more than fill the pages before a page begin that page.
LEMMA PageReached ==
  ASSUME NEW rows \in Nat, NEW page \in Nat \ {0}, perPage \in Nat \ {0}, rows > (page - 1) * perPage
  PROVE  page \in 1 .. (rows + perPage - 1) \div perPage
<1> DEFINE d == perPage
           q == (rows + d - 1) \div d
<1>1. d \in Nat /\ d > 0
  OBVIOUS
<1>2. q \in Int /\ rows + d - 1 < (q + 1) * d
  <2> HIDE DEF d
  <2> QED
    BY <1>1
<1> HIDE DEF q, d
<1>3. page * d = (page - 1) * d + d /\ (page - 1) * d \in Int /\ page * d \in Int /\ (q + 1) * d \in Int
  BY <1>1, <1>2
<1>4. page * d < (q + 1) * d
  <2>1. rows > (page - 1) * d
    BY DEF d
  <2> QED
    BY <1>1, <1>2, <1>3, <2>1
<1>5. page < q + 1
  BY <1>1, <1>2, <1>4
<1> QED
  BY <1>2, <1>5 DEF q, d

\* The seasons before the first one that lacks episodes fill the pages before its page.
LEMMA EpisodesBrought == EpisodesInv => Episodes!PagesBringEverything
<1> SUFFICES ASSUME EpisodesInv, opened, chains = {},
                    Episodes!TablePages \cup {1} \subseteq visited \/ ~paged,
                    ~early, Answered, NEW s \in Episodes!Season, ~Episodes!Loaded(s)
             PROVE  FALSE
  <2>1. EpisodesInv => \A s \in Episodes!Season : Episodes!EpisodesOf(s) \in Nat /\ EpisodeLimit \in Nat
    BY SeasonFacts, EpisodesAssumption DEF EpisodesInv, EpisodesTyped
  <2> QED
    BY <2>1 DEF Episodes!PagesBringEverything, Answered
<1> DEFINE B == Episodes!Backwards
           n == Len(B)
           q(k) == Episodes!PagesCount[k - 1]
           Lacks == {k \in DOMAIN B : ~Episodes!Loaded(B[k].season)}
<1>1. EpisodesTyped /\ VisitedInv /\ OpenedInv /\ seasonCount \in Counts
  BY DEF EpisodesInv, EpisodesTyped
<1>2. \A t : Comes(t) <=> Episodes!Loaded(t)
  BY DEF Comes
<1>3. 1 \in visited /\ perPage \in Nat \ {0}
  <2>1. seasonCount # <<>>
    BY DEF Episodes!Season
  <2> QED
    BY <1>1, <2>1, EpisodesAssumption DEF OpenedInv, EpisodesTyped
<1>4. s # 0
  <2>1. 0 \in Episodes!Season => Episodes!HasSpecials
    BY <1>1, SeasonFacts
  <2> QED
    BY <1>1, <1>2, <2>1 DEF OpenedInv
<1>5. /\ B \in Seq(Count)
      /\ \A k \in DOMAIN B : /\ B[k].season \in Episodes!Season
                             /\ Episodes!EpisodesOf(B[k].season) = B[k].episodes
      /\ \E k \in DOMAIN B : B[k].season = s
  BY <1>1, <1>4, BackwardsFacts
<1>6. \A k \in DOMAIN B, page \in visited :
        ~paged \/ page = q(k) => Episodes!Loaded(B[k].season)
  BY <1>1, <1>2, NeededFacts DEF VisitedInv
<1>7. /\ Episodes!PagesCount[0] = 1
      /\ \A k \in 0 .. n : /\ Episodes!PagesCount[k] \in Nat \ {0} /\ FirstEpisodes[k] \in Nat
                           /\ Episodes!PagesCount[k] > 1 =>
                                FirstEpisodes[k] > (Episodes!PagesCount[k] - 1) * perPage
  BY <1>3, <1>5, CountFacts
<1> HIDE DEF B
<1>8. n \in Nat /\ DOMAIN B = 1 .. n /\ \A k \in 1 .. n : B[k].season \in Nat /\ B[k].episodes \in Nat
  <2>1. n \in Nat /\ DOMAIN B = 1 .. n /\ \A k \in 1 .. n : B[k] \in Count
    BY <1>5
  <2> QED
    BY <2>1, CountFields
<1> HIDE DEF n
<1>9. PICK k \in Lacks : \A i \in Lacks : k <= i
  <2>1. Lacks \in SUBSET Nat /\ Lacks # {}
    BY <1>5, <1>8
  <2> HIDE DEF Lacks
  <2> QED
    BY <2>1, LeastNumber
<1>10. paged /\ q(k) \notin visited /\ q(k) # 1 /\ k - 1 \in 0 .. n
  BY <1>3, <1>6, <1>8, <1>9
<1>11. q(k) \in Nat \ {0} /\ FirstEpisodes[k - 1] > (q(k) - 1) * perPage /\ k - 1 # 0
  <2>1. q(k) \in Nat \ {0} /\ q(k) > 1
    BY <1>7, <1>10
  <2> QED
    BY <1>7, <1>10, <2>1
<1>12. \A i \in 1 .. k - 1 : Episodes!Loaded(B[i].season)
  BY <1>8, <1>9
<1> DEFINE numbers == [i \in DOMAIN B |-> B[i].episodes]
           lens == [i \in DOMAIN B |-> Len(Episodes!Children(B[i].season))]
<1>13. ASSUME NEW i \in 1 .. n PROVE Len(Episodes!Children(B[i].season)) \in Nat
  <2>1. Episodes!Children(B[i].season) \in Seq(Nat)
    BY <1>1, <1>5, <1>8 DEF EpisodesTyped, OnceIn
  <2> QED
    BY <2>1, LenProperties
<1>14. numbers \in Seq(Nat) /\ Len(numbers) = n /\ lens \in Seq(Nat) /\ Len(lens) = n
  <2>1. numbers = [i \in 1 .. n |-> B[i].episodes]
    BY <1>8
  <2>2. lens = [i \in 1 .. n |-> Len(Episodes!Children(B[i].season))]
    BY <1>8
  <2> HIDE DEF numbers, lens
  <2>3. numbers \in Seq(Nat) /\ Len(numbers) = n
    BY <1>8, <2>1
  <2>4. lens \in Seq(Nat) /\ Len(lens) = n
    BY <1>8, <1>13, <2>2
  <2> QED
    BY <2>3, <2>4
<1>15. ASSUME NEW i \in 1 .. k - 1 PROVE numbers[i] <= lens[i]
  <2> DEFINE t == B[i].season
             list == Episodes!Children(t)
  <2>1. i \in DOMAIN B /\ Episodes!Loaded(t)
    BY <1>8, <1>10, <1>12
  <2>2. list = seasons[t] /\ Episodes!ToSet(list) = 1 .. Episodes!EpisodesOf(t)
    BY <2>1 DEF Episodes!Loaded, Episodes!Children
  <2>3. t \in Episodes!Season /\ Episodes!EpisodesOf(t) = B[i].episodes /\ B[i].episodes \in Nat
    BY <1>5, <1>8, <2>1
  <2>4. list \in Seq(Nat)
    BY <1>1, <2>3 DEF EpisodesTyped, OnceIn
  <2> HIDE DEF list
  <2>5. B[i].episodes <= Len(list)
    BY <2>2, <2>3, <2>4, AllListed
  <2> QED
    BY <2>1, <2>5 DEF list
<1>16. /\ FirstEpisodes = Episodes!Sums(numbers)
       /\ Episodes!Rows = Episodes!Sums(lens)[n]
  BY DEF FirstEpisodes, Episodes!Rows, B, n
<1> HIDE DEF numbers, lens
<1>17. Episodes!Rows \in Nat /\ FirstEpisodes[k - 1] <= Episodes!Rows
  <2>1. k - 1 \in 0 .. Len(numbers) /\ k - 1 \in 0 .. Len(lens) /\ n \in 0 .. Len(lens) /\ k - 1 <= n /\ k - 1 <= Len(lens)
    BY <1>8, <1>10, <1>14
  <2>2. Episodes!Sums(numbers)[k - 1] <= Episodes!Sums(lens)[k - 1]
    BY <1>14, <1>15, <2>1, SumsCompare
  <2>3. Episodes!Sums(lens)[k - 1] <= Episodes!Sums(lens)[n]
    BY <1>14, <2>1, SumsGrow
  <2>4. Episodes!Sums(numbers)[k - 1] \in Nat /\ Episodes!Sums(lens)[k - 1] \in Nat /\ Episodes!Sums(lens)[n] \in Nat
    BY <1>14, <2>1, SumsFacts
  <2> QED
    BY <1>16, <2>2, <2>3, <2>4
<1>18. q(k) \in 1 .. (Episodes!Rows + perPage - 1) \div perPage
  <2>1. PICK page : page = q(k)
    OBVIOUS
  <2>2. (page - 1) * perPage \in Int /\ FirstEpisodes[k - 1] \in Nat
    BY <1>3, <1>7, <1>10, <1>11, <2>1
  <2>3. Episodes!Rows > (page - 1) * perPage
    BY <1>11, <1>17, <2>1, <2>2
  <2> QED
    BY <1>3, <1>11, <1>17, <2>1, <2>3, PageReached
<1>19. seasons # Absent
  <2>1. 1 \in 1 .. k - 1
    BY <1>8, <1>10, <1>11
  <2> QED
    BY <1>12, <2>1 DEF Episodes!Loaded
<1> QED
  BY <1>10, <1>18, <1>19 DEF Episodes!TablePages

-----------------------------------------------------------------------------
(***************************************************************************)
(* The parts in the client.                                                *)
(***************************************************************************)

\* The manual search of the proofs is the one of the client.
LEMMA SameSearch ==
  /\ Search!Init => SearchPart!Init
  /\ Search!Next => SearchPart!Next
  /\ Search!ShownOnce <=> SearchPart!ShownOnce
  /\ Search!ResultsShown <=> SearchPart!ResultsShown
  /\ Search!TypeOK <=> SearchPart!TypeOK
<1> USE DEF
       Search!Result, SearchPart!Result, Search!Provider, SearchPart!Provider, Search!Fetch,
       SearchPart!Fetch, Search!search, SearchPart!search, Search!socket, SearchPart!socket,
       Search!queueitems, SearchPart!queueitems, Search!spinner, SearchPart!spinner,
       Search!store, SearchPart!store, Search!fetching, SearchPart!fetching, Search!Stored,
       SearchPart!Stored, Search!Asked, SearchPart!Asked, Search!Single, SearchPart!Single,
       Search!Idle, SearchPart!Idle, Search!Of, SearchPart!Of, Search!AddSearchResult,
       SearchPart!AddSearchResult, Search!AddProviderCache, SearchPart!AddProviderCache,
       Search!Shown, SearchPart!Shown, Search!Answers, SearchPart!Answers, Search!Brought,
       SearchPart!Brought, Search!Began, SearchPart!Began, Search!Begins, SearchPart!Begins,
       Search!Returned, SearchPart!Returned, Search!TableOf, SearchPart!TableOf, Search!PageOf,
       SearchPart!PageOf, Search!Reading, SearchPart!Reading, Search!PageRead,
       SearchPart!PageRead, Search!LastProvider, SearchPart!LastProvider, Search!NextProvider,
       SearchPart!NextProvider, Search!PageArrives, SearchPart!PageArrives, Search!PageFails,
       SearchPart!PageFails, Search!ProvidersArrive, SearchPart!ProvidersArrive,
       Search!ProvidersFail, SearchPart!ProvidersFail, Search!ForceSearch,
       SearchPart!ForceSearch, Search!ForcedByUser, SearchPart!ForcedByUser,
       Search!ForcedByMounted, SearchPart!ForcedByMounted, Search!Refresh, SearchPart!Refresh,
       Search!TimerEnds, SearchPart!TimerEnds, Search!OnQueueItems, SearchPart!OnQueueItems,
       Search!SearchMessage, SearchPart!SearchMessage, Search!PutArrives, SearchPart!PutArrives,
       Search!PutFails, SearchPart!PutFails, Search!SearchStarts, SearchPart!SearchStarts,
       Search!SearchFinds, SearchPart!SearchFinds, Search!SearchWrites, SearchPart!SearchWrites,
       Search!SearchEnds, SearchPart!SearchEnds, Search!SnatchMessage, SearchPart!SnatchMessage,
       Search!OtherMessage, SearchPart!OtherMessage, Search!ForeignMessage,
       SearchPart!ForeignMessage, Search!HistoryArrives, SearchPart!HistoryArrives,
       Search!HistoryFails, SearchPart!HistoryFails, Search!History, SearchPart!History,
       Search!Others, SearchPart!Others,
       Search!ConnectionLost, SearchPart!ConnectionLost, Search!Reconnected,
       SearchPart!Reconnected, Search!Init, SearchPart!Init, Search!Mounted, SearchPart!Mounted,
       Search!Fetching, SearchPart!Fetching, Search!Queue, SearchPart!Queue, Search!Finding,
       SearchPart!Finding, Search!Writing, SearchPart!Writing, Search!User, SearchPart!User,
       Search!Connection, SearchPart!Connection, Search!Next, SearchPart!Next, Search!ToSet,
       SearchPart!ToSet, Search!Chosen, SearchPart!Chosen
<1>1. Search!Init => SearchPart!Init
  OBVIOUS
<1>2. Search!Next => SearchPart!Next
  OBVIOUS
<1>3. Search!ShownOnce <=> SearchPart!ShownOnce
  BY DEF Search!ShownOnce, SearchPart!ShownOnce, Search!IsInjective, SearchPart!IsInjective
<1>4. Search!ResultsShown <=> SearchPart!ResultsShown
  BY DEF Search!ResultsShown, SearchPart!ResultsShown
<1>5. Search!TypeOK <=> SearchPart!TypeOK
  BY DEF Search!TypeOK, SearchPart!TypeOK
<1> QED
  BY <1>1, <1>2, <1>3, <1>4, <1>5

LEMMA SearchParameters == SearchPart!Parameters
BY SearchAssumption DEF SearchPart!Parameters, SearchPart!Result, SearchPart!Provider,
   Search!Result, Search!Provider, SearchPart!ToSet, Search!ToSet, SearchPart!IsInjective, IsInjective

\* The list of shows runs as it does alone.
LEMMA StoreAlone == ClientSpec => Spec
<1>1. ClientInit => Init
  BY DEF ClientInit
<1>2. [ClientNext]_clientVars => [Next]_vars
  BY DEF ClientNext, clientVars, storeVars, SearchRuns, EpisodesRun, DirsRun, RecommendedRun
<1> QED
  BY <1>1, <1>2, PTL DEF ClientSpec, Spec

\* The manual search runs as it does alone.
LEMMA SearchAlone == ClientSpec => SearchPart!Spec
<1>1. ClientInit => SearchPart!Init
  BY SameSearch DEF ClientInit
<1>2. [ClientNext]_clientVars => [SearchPart!Next]_(SearchPart!vars)
  <2>1. CASE Search!Next
    BY <2>1, SameSearch
  <2>2. CASE UNCHANGED searchVars
    BY <2>2 DEF searchVars, SearchPart!vars, SearchPart!search, SearchPart!socket, SearchPart!store, SearchPart!fetching,
       SearchPart!queueitems, SearchPart!spinner
  <2> QED
    BY <2>1, <2>2 DEF ClientNext, clientVars, StoreRuns, EpisodesRun, DirsRun, RecommendedRun
<1> QED
  BY <1>1, <1>2, PTL DEF ClientSpec, SearchPart!Spec

\* The recommended shows run as they do alone.
LEMMA RecommendedAlone == ClientSpec => []ShowsInv
<1>1. ClientInit => ShowsInv
  BY ShowsInitial DEF ClientInit
<1>2. ShowsInv /\ [ClientNext]_clientVars => ShowsInv'
  <2>1. CASE Shows!Next
    BY <2>1, ShowsInductive
  <2>2. CASE UNCHANGED recommendedVars
    <3>1. UNCHANGED Shows!vars
      BY <2>2 DEF recommendedVars, Shows!vars, Shows!bounds
    <3> QED
      BY <3>1, ShowsInductive
  <2> QED
    BY <2>1, <2>2 DEF ClientNext, clientVars, StoreRuns, SearchRuns, EpisodesRun, DirsRun
<1> QED
  BY <1>1, <1>2, PTL DEF ClientSpec

\* The root directories run as they do alone.
LEMMA DirsAlone == ClientSpec => []DirsInv
<1>1. ClientInit => DirsInv
  BY DirsInitial DEF ClientInit
<1>2. DirsInv /\ [ClientNext]_clientVars => DirsInv'
  <2>1. CASE Dirs!Next
    BY <2>1, DirsInductive
  <2>2. CASE UNCHANGED dirVars
    <3>1. UNCHANGED Dirs!vars
      BY <2>2 DEF dirVars, Dirs!vars, Dirs!intent
    <3> QED
      BY <3>1, DirsInductive
  <2> QED
    BY <2>1, <2>2 DEF ClientNext, clientVars, StoreRuns, SearchRuns, EpisodesRun, RecommendedRun
<1> QED
  BY <1>1, <1>2, PTL DEF ClientSpec

\* The episodes of a show run as they do alone.
LEMMA EpisodesAlone == ClientSpec => []EpisodesInv
<1>1. ClientInit => EpisodesInv
  BY EpisodesInitial DEF ClientInit
<1>2. EpisodesInv /\ [ClientNext]_clientVars => EpisodesInv'
  <2>1. CASE Episodes!Next
    BY <2>1, EpisodesInductive
  <2>2. CASE UNCHANGED episodeVars
    <3>1. UNCHANGED Episodes!vars
      BY <2>2 DEF episodeVars, Episodes!vars, Episodes!shown, Episodes!pagination, Episodes!bounds
    <3> QED
      BY <3>1, EpisodesInductive
  <2> QED
    BY <2>1, <2>2 DEF ClientNext, clientVars, StoreRuns, SearchRuns, DirsRun, RecommendedRun
<1> QED
  BY <1>1, <1>2, PTL DEF ClientSpec

LEMMA EpisodesTypeOK == EpisodesInv => Episodes!TypeOK
<1> SUFFICES ASSUME EpisodesTyped PROVE Episodes!TypeOK
  BY DEF EpisodesInv
<1>1. ASSUME NEW chain \in chains PROVE Episodes!ToSet(chain) \subseteq Episodes!Season
  <2>1. chain \in Seq(Episodes!Season)
    BY <1>1 DEF EpisodesTyped
  <2> QED
    BY <2>1 DEF Episodes!ToSet
<1>2. seasons = Absent \/ (DOMAIN seasons \subseteq Episodes!Season /\ \A s \in DOMAIN seasons : seasons[s] \in Seq(Nat))
  BY DEF EpisodesTyped
<1> QED
  BY <1>1, <1>2, Zenon DEF EpisodesTyped, Episodes!TypeOK

LEMMA DirsTypeOK == DirsInv => Dirs!TypeOK
<1> SUFFICES ASSUME DirsTyped PROVE Dirs!TypeOK
  BY DEF DirsInv
<1>1. ASSUME NEW c \in Client PROVE Dirs!ToSet(patches[c]) \cup Dirs!ToSet(pushes[c]) \subseteq Dirs!RawList
  <2>1. patches[c] \in Seq(Dirs!RawList) /\ pushes[c] \in Seq(Dirs!RawList)
    BY DEF DirsTyped
  <2>2. \A S : \A list \in Seq(S) : Dirs!ToSet(list) \subseteq S
    BY DEF Dirs!ToSet
  <2> QED
    BY <2>1, <2>2
<1>2. \A c \in Client : dialog[c] = None \/ dialog[c] \in DialogType
  BY DEF DirsTyped
<1> QED
  BY <1>1, <1>2 DEF DirsTyped, Dirs!TypeOK, DialogType

LEMMA ShowsTypeOK == ShowsInv => Shows!TypeOK
<1> SUFFICES ASSUME ShowsTyped PROVE Shows!TypeOK
  BY DEF ShowsInv
<1>1. Shows!ToSet(todo) \subseteq Shows!Source
  <2>1. todo \in Seq(Shows!Source)
    BY DEF ShowsTyped
  <2> QED
    BY <2>1 DEF Shows!ToSet
<1>2. pageOf \in [Shows!Source \cup {All} -> {Shows!NoMore} \cup 1 .. MaxClicks + 1]
  <2>1. clicks \in 0 .. MaxClicks /\ MaxClicks \in Nat
    BY RecommendedAssumption DEF ShowsTyped
  <2>2. 1 .. clicks + 1 \subseteq 1 .. MaxClicks + 1
    BY <2>1
  <2>3. pageOf \in [Shows!Source \cup {All} -> {Shows!NoMore} \cup 1 .. clicks + 1]
    BY DEF ShowsTyped
  <2>4. PICK small, large : /\ small = {Shows!NoMore} \cup 1 .. clicks + 1
                           /\ large = {Shows!NoMore} \cup 1 .. MaxClicks + 1
    OBVIOUS
  <2>5. small \subseteq large
    BY <2>2, <2>4, Zenon
  <2>6. pageOf \in [Shows!Source \cup {All} -> large]
    BY <2>3, <2>4, <2>5
  <2> QED
    BY <2>4, <2>6
<1>3. \A r \in asked : r.source \in Shows!Source \cup {All} /\ r.page \in Nat
  BY DEF ShowsTyped, ShowRequest
<1> QED
  BY <1>1, <1>2, <1>3, Zenon DEF ShowsTyped, Shows!TypeOK

\* Every variable of the web client keeps its type.
THEOREM ClientTyped == ClientSpec => []AllTypeOK
<1>1. SearchPart!Spec => []SearchPart!TypeOK
  BY SearchParameters, SearchPart!TypeCorrect
<1>2. /\ SearchPart!TypeOK => Search!TypeOK
      /\ TypeOK /\ Search!TypeOK /\ Episodes!TypeOK /\ Dirs!TypeOK /\ Shows!TypeOK => AllTypeOK
  BY SameSearch DEF AllTypeOK
<1> QED
  BY <1>1, <1>2, StoreAlone, TypeCorrect, SearchAlone, EpisodesAlone, EpisodesTypeOK, DirsAlone,
     DirsTypeOK, RecommendedAlone, ShowsTypeOK, PTL

\* When nothing is on its way, the list of shows of the client is the library of the server.
THEOREM ShowsInSync == ClientSpec => []InSync
BY StoreAlone, ListInSync, PTL

\* However a result of the manual search comes, by the websocket, a page or both, and in
\* whichever order, the page shows it in one row, and under its own provider.
THEOREM ResultsOnce == ClientSpec => []ShownOnce
<1>1. SearchPart!ShownOnce => ShownOnce
  BY SameSearch DEF ShownOnce
<1>2. SearchPart!Spec => []SearchPart!ShownOnce
  BY SearchParameters, SearchPart!Once
<1> QED
  BY <1>1, <1>2, SearchAlone, PTL

\* When no answer is on its way, the manual search page shows every result it owes.
THEOREM ResultsStay == ClientSpec => []ResultsShown
<1>1. SearchPart!ResultsShown => ResultsShown
  BY SameSearch DEF ResultsShown
<1>2. SearchPart!Spec => []SearchPart!ResultsShown
  BY SearchParameters, SearchPart!Complete
<1> QED
  BY <1>1, <1>2, SearchAlone, PTL

\* When the button for more of a source is gone, all its shows are there, however the
\* answers to mounted(), to the button and to the updates of a source overtake each other.
THEOREM NoShowSkipped == ClientSpec => []NothingSkipped
<1>1. ShowsInv => NothingSkipped
  BY DEF ShowsInv, AwaitedInv, Begun, Awaited, NothingSkipped, Shows!NothingSkipped, Shows!NoMore
<1> QED
  BY <1>1, RecommendedAlone, PTL

\* When every save is done and no edits overlapped, the server and the clients have the
\* directories and the default that the users made of the list, in whichever order the
\* saves, the pushes, the dialogs and the saves of other settings came.
THEOREM RootDirsAsMade == ClientSpec => []ListAsMade
<1>1. DirsInv => ListAsMade
  BY DirsMade DEF ListAsMade
<1> QED
  BY <1>1, DirsAlone, PTL

\* A user who has opened every page that the table of the episodes has, has every episode
\* of the show on it, whichever order the answers, the messages about single episodes and
\* the pages come in, unless a request failed, the store had episodes before the page, or a
\* season is longer than an answer.
THEOREM EveryEpisodeComes == ClientSpec => []PagesBringEverything
<1>1. EpisodesInv => PagesBringEverything
  BY EpisodesBrought DEF PagesBringEverything
<1> QED
  BY <1>1, EpisodesAlone, PTL
=============================================================================
