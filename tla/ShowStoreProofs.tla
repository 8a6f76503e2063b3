--------------------------- MODULE ShowStoreProofs ---------------------------
(***************************************************************************)
(* Proofs about ShowStore, for any shows, numbers, page size and bounds,   *)
(* and any list left in the storage.                                       *)
(*                                                                         *)
(* A list is looked at one show at a time: About(list, s) is what it says  *)
(* of s, and Once(list, s) that it says it in one entry.  The lemmas tell  *)
(* what a mutation of the store does to both; the invariants and the steps *)
(* of the proof are written in these terms.                                *)
(***************************************************************************)
EXTENDS ShowStore, SubsequencesProofs, SequenceTheorems, FiniteSetTheorems

Parameters ==
  /\ Titles \in Seq(Slug) /\ Cardinality(Slug) = Len(Titles)
  /\ NumberOf \in [Slug -> Nat]
  /\ Limit \in Nat \ {0}
  /\ Libraries \subseteq SUBSET Slug
  /\ Stores \subseteq Seq(Entry) \cup {None}
  /\ Visited \subseteq Slug /\ None \notin Slug /\ None \notin Job
  /\ MaxChanges \in Nat /\ MaxGaps \in Nat /\ MaxRequests \in Nat

\* The fields of an entry of the list.
LEMMA EntryFacts ==
  ASSUME NEW e \in Entry
  PROVE  e.slug \in Slug /\ e.ver \in 0 .. MaxChanges /\ e.details \in Slug \cup {None}
BY DEF Entry

\* The assumption on the parameters, one of them after the other.
LEMMA ParametersHold == Parameters
  BY ShowStoreAssumption DEF Parameters

Places(list, s) == {k \in DOMAIN list : list[k].slug = s}
About(list, s) == {list[k] : k \in Places(list, s)}
Once(list, s) == \A j, k \in Places(list, s) : j = k
OwnDetails(list, s) == \A e \in About(list, s) : e.details \in {None, s}
Clean(list, s) == Once(list, s) /\ OwnDetails(list, s)

-----------------------------------------------------------------------------
(***************************************************************************)
(* The mutations of the store.                                             *)
(***************************************************************************)

\* The first entry with the number of s, if any.
LEMMA PlaceFacts ==
  ASSUME NEW list \in Seq(Entry), NEW s \in Slug
  PROVE  /\ PlaceOf(list, s) \in 0 .. Len(list)
         /\ PlaceOf(list, s) # 0 => NumberOf[list[PlaceOf(list, s)].slug] = NumberOf[s]
         /\ PlaceOf(list, s) = 0 => \A k \in DOMAIN list : NumberOf[list[k].slug] # NumberOf[s]
<1> DEFINE I == {i \in 1 .. Len(list) : NumberOf[list[i].slug] = NumberOf[s]}
<1>1. PlaceOf(list, s) = IF I # {} THEN CHOOSE x \in I : \A y \in I : x <= y ELSE 0
  BY DEF PlaceOf, SelectInSeq, Min
<1>2. I # {} => \E x \in I : \A y \in I : x <= y
  <2>1. I \in SUBSET Nat
    OBVIOUS
  <2> QED
    BY <2>1, LeastNumber
<1>3. I # {} => PlaceOf(list, s) \in I
  BY <1>1, <1>2
<1>4. I = {} => PlaceOf(list, s) = 0
  BY <1>1
<1> QED
  BY <1>3, <1>4

\* The entry of the show itself, if its place is one of another.
LEMMA OwnPlace ==
  ASSUME NEW list \in Seq(Entry), NEW s \in Slug, Confused(list, s) = {}
  PROVE  \/ PlaceOf(list, s) = 0 /\ Places(list, s) = {}
         \/ PlaceOf(list, s) \in Places(list, s)
<1>1. PlaceOf(list, s) # 0 => list[PlaceOf(list, s)].slug = s
  BY DEF Confused
<1> QED
  BY <1>1, PlaceFacts DEF Places

\* ADD_SHOW leaves the other shows alone.
LEMMA AddShowOther ==
  ASSUME NEW list \in Seq(Entry), NEW show \in Entry, NEW s \in Slug,
         s # show.slug, s \notin Confused(list, show.slug)
  PROVE  About(AddShow(list, show), s) = About(list, s) /\ (Once(list, s) => Once(AddShow(list, show), s))
<1> DEFINE i == PlaceOf(list, show.slug)
<1>0. show.slug \in Slug
  BY DEF Entry
<1>1. i \in 0 .. Len(list)
  BY <1>0, PlaceFacts
<1> HIDE DEF i
<1>2. CASE i = 0
  <2>1. AddShow(list, show) = Append(list, show)
    BY <1>2 DEF AddShow, i
  <2>2. Places(Append(list, show), s) = Places(list, s)
    BY DEF Places
  <2> QED
    BY <2>1, <2>2 DEF About, Once, Places
<1>3. CASE i # 0
  <2> DEFINE e == IF show.details = None THEN [show EXCEPT !.details = list[i].details] ELSE show
  <2>1. AddShow(list, show) = [list EXCEPT ![i] = e]
    BY <1>3 DEF AddShow, i
  <2>2. list[i].slug # s
    BY <1>3, <1>0 DEF Confused, i
  <2>3. e.slug = show.slug
    BY DEF Entry
  <2> HIDE DEF e
  <2>4. DOMAIN [list EXCEPT ![i] = e] = DOMAIN list /\ i \in DOMAIN list
    BY <1>1, <1>3
  <2>5. Places([list EXCEPT ![i] = e], s) = Places(list, s) /\ i \notin Places(list, s)
    BY <2>2, <2>3, <2>4 DEF Places
  <2>6. \A k \in Places(list, s) : [list EXCEPT ![i] = e][k] = list[k]
    BY <2>5 DEF Places
  <2> QED
    BY <2>1, <2>5, <2>6 DEF About, Once
<1> QED
  BY <1>2, <1>3

\* ADD_SHOW of a show that the list has once, or not: its new version is
\* there, with the details that came or else with those it had.
LEMMA AddShowSelf ==
  ASSUME NEW list \in Seq(Entry), NEW show \in Entry,
         Confused(list, show.slug) = {}, Clean(list, show.slug), show.details \in {None, show.slug}
  PROVE  /\ Clean(AddShow(list, show), show.slug)
         /\ About(AddShow(list, show), show.slug) # {}
         /\ \A e \in About(AddShow(list, show), show.slug) :
              /\ e.ver = show.ver
              /\ show.details = show.slug => e.details = show.slug
              /\ \A f \in About(list, show.slug) : f.details = show.slug => e.details = show.slug
<1> DEFINE i == PlaceOf(list, show.slug)
           s == show.slug
<1>0. s \in Slug /\ DOMAIN list = 1 .. Len(list) /\ Len(list) \in Nat
  BY DEF Entry
<1>1. (i = 0 /\ Places(list, s) = {}) \/ i \in Places(list, s)
  BY <1>0, OwnPlace
<1> HIDE DEF i
<1>2. CASE i = 0
  <2>0. Places(list, s) = {}
    BY <1>0, <1>1, <1>2 DEF Places
  <2>1. AddShow(list, show) = Append(list, show)
    BY <1>2 DEF AddShow, i
  <2>2. Places(Append(list, show), s) = {Len(list) + 1}
    BY <2>0, <1>0 DEF Places
  <2>3. About(Append(list, show), s) = {show}
    BY <2>2, <1>0 DEF About
  <2>4. About(list, s) = {}
    BY <2>0 DEF About
  <2>5. Once(Append(list, show), s)
    BY <2>2 DEF Once
  <2> QED
    BY <2>1, <2>3, <2>4, <2>5 DEF Clean, OwnDetails
<1>3. CASE i # 0
  <2> DEFINE e == IF show.details = None THEN [show EXCEPT !.details = list[i].details] ELSE show
  <2>0. i \in DOMAIN list /\ Places(list, s) = {i} /\ list[i] \in Entry
    BY <1>0, <1>1, <1>3 DEF Clean, Once, Places
  <2>1. AddShow(list, show) = [list EXCEPT ![i] = e]
    BY <1>3 DEF AddShow, i
  <2>2. About(list, s) = {list[i]}
    BY <2>0 DEF About
  <2>3. e.slug = s /\ e.ver = show.ver /\ e.details = IF show.details = None THEN list[i].details ELSE show.details
    BY <2>0 DEF Entry
  <2>9. s # None
    BY <1>0, ParametersHold DEF Parameters
  <2> HIDE DEF e
  <2>4. Places([list EXCEPT ![i] = e], s) = {i}
    BY <2>0, <2>3 DEF Places
  <2>5. About([list EXCEPT ![i] = e], s) = {e}
    BY <2>4, <2>0 DEF About
  <2>6. Once([list EXCEPT ![i] = e], s)
    BY <2>4 DEF Once
  <2>7. list[i].details \in {None, s}
    BY <2>2 DEF Clean, OwnDetails
  <2> QED
    BY <2>1, <2>2, <2>3, <2>5, <2>6, <2>7, <2>9 DEF Clean, OwnDetails
<1> QED
  BY <1>2, <1>3

\* ADD_SHOW yields a list of entries, and mixes up known shows only.
LEMMA AddShowType ==
  ASSUME NEW list \in Seq(Entry), NEW show \in Entry
  PROVE  /\ AddShow(list, show) \in Seq(Entry)
         /\ Confused(list, show.slug) \subseteq Slug
<1>0. show.slug \in Slug
  BY DEF Entry
<1>1. PlaceOf(list, show.slug) \in 0 .. Len(list)
  BY <1>0, PlaceFacts
<1>2. \A k \in 1 .. Len(list) : list[k] \in Entry
  OBVIOUS
<1>3. ASSUME PlaceOf(list, show.slug) # 0, show.details = None
      PROVE  [show EXCEPT !.details = list[PlaceOf(list, show.slug)].details] \in Entry
  BY <1>1, <1>2, <1>3 DEF Entry
<1>4. Confused(list, show.slug) \subseteq Slug
  BY <1>0, <1>1, <1>2 DEF Confused, Entry
<1>5. CASE PlaceOf(list, show.slug) = 0
  BY <1>4, <1>5 DEF AddShow
<1>6. CASE PlaceOf(list, show.slug) # 0
  <2> DEFINE i == PlaceOf(list, show.slug)
             e == IF show.details = None THEN [show EXCEPT !.details = list[i].details] ELSE show
  <2>1. AddShow(list, show) = [list EXCEPT ![i] = e]
    BY <1>6 DEF AddShow
  <2>2. e \in Entry
    BY <1>3, <1>6
  <2>4. i \in 1 .. Len(list)
    BY <1>1, <1>6
  <2> HIDE DEF e, i
  <2>3. [list EXCEPT ![i] = e] \in Seq(Entry)
    BY <2>2, <2>4, ExceptSeq
  <2> QED
    BY <1>4, <2>1, <2>3
<1> QED
  BY <1>5, <1>6

\* REMOVE_SHOW takes out the entries of the show and no other.
LEMMA RemoveShowFacts ==
  ASSUME NEW list \in Seq(Entry), NEW s \in Slug
  PROVE  /\ RemoveShow(list, s) \in Seq(Entry)
         /\ About(RemoveShow(list, s), s) = {} /\ Clean(RemoveShow(list, s), s)
         /\ \A t \in Slug \ {s} : /\ About(RemoveShow(list, s), t) = About(list, t)
                                  /\ Once(list, t) => Once(RemoveShow(list, s), t)
<1> DEFINE rest == RemoveShow(list, s)
           kept == {k \in DOMAIN list : list[k].slug # s}
<1>1. rest \in Seq(Entry) /\ Collected(list, kept, Len(list), rest)
  BY ChosenFacts DEF RemoveShow
<1>2. DOMAIN list = 1 .. Len(list) /\ DOMAIN rest = 1 .. Len(rest) /\ Len(rest) \in Nat
  BY <1>1
<1> HIDE DEF rest
<1>3. PICK at \in [DOMAIN rest -> (1 .. Len(list)) \cap kept] :
        /\ \A k \in DOMAIN rest : rest[k] = list[at[k]]
        /\ \A j, k \in DOMAIN rest : j < k => at[j] < at[k]
        /\ \A i \in (1 .. Len(list)) \cap kept : \E k \in DOMAIN rest : at[k] = i
  BY <1>1 DEF Collected
<1>4. Places(rest, s) = {}
  BY <1>3 DEF Places
<1>5. ASSUME NEW t \in Slug \ {s}
      PROVE  About(rest, t) = About(list, t) /\ (Once(list, t) => Once(rest, t))
  <2>1. \A k \in Places(rest, t) : at[k] \in Places(list, t) /\ rest[k] = list[at[k]]
    BY <1>2, <1>3 DEF Places
  <2>2. \A i \in Places(list, t) : \E k \in Places(rest, t) : at[k] = i
    BY <1>2, <1>3 DEF Places
  <2>3. About(rest, t) = About(list, t)
    BY <2>1, <2>2 DEF About
  <2>4. ASSUME Once(list, t), NEW j \in Places(rest, t), NEW k \in Places(rest, t), j < k
        PROVE  FALSE
    <3>1. at[j] = at[k]
      BY <2>1, <2>4 DEF Once
    <3>2. at[j] < at[k] /\ at[j] \in Nat
      BY <1>2, <1>3, <2>4 DEF Places
    <3> QED
      BY <3>1, <3>2
  <2>5. \A j, k \in Places(rest, t) : j \in Nat /\ k \in Nat
    BY <1>2 DEF Places
  <2> QED
    BY <2>3, <2>4, <2>5 DEF Once
<1>6. About(rest, s) = {} /\ Clean(rest, s)
  BY <1>4 DEF About, Clean, Once, OwnDetails
<1> QED
  BY <1>1, <1>5, <1>6 DEF rest

\* ADD_SHOW_EPISODE leaves the other shows alone, and what it changes of its
\* own are the details.
LEMMA AddEpisodesFacts ==
  ASSUME NEW list \in Seq(Entry), NEW s \in Slug
  PROVE  /\ AddEpisodes(list, s) \in Seq(Entry)
         /\ \A t \in Slug \ {s} : t \notin Confused(list, s) =>
              /\ About(AddEpisodes(list, s), t) = About(list, t)
              /\ Once(list, t) => Once(AddEpisodes(list, s), t)
         /\ Confused(list, s) = {} /\ Clean(list, s) =>
              /\ Clean(AddEpisodes(list, s), s)
              /\ \A e \in About(AddEpisodes(list, s), s) :
                   e.details = s /\ \E f \in About(list, s) : e.ver = f.ver
              /\ About(list, s) # {} => About(AddEpisodes(list, s), s) # {}
<1> DEFINE i == PlaceOf(list, s)
<1>1. i \in 0 .. Len(list) /\ DOMAIN list = 1 .. Len(list)
  BY PlaceFacts
<1>2. CASE i = 0
  <2>1. AddEpisodes(list, s) = list
    BY <1>2 DEF AddEpisodes
  <2>2. Confused(list, s) = {} => Places(list, s) = {}
    BY <1>2, <1>1, OwnPlace DEF Places
  <2>3. Confused(list, s) = {} => About(list, s) = {}
    BY <2>2 DEF About
  <2> QED
    BY <2>1, <2>3
<1>3. CASE i # 0
  <2> DEFINE e == [list[i] EXCEPT !.details = s]
             new == [list EXCEPT ![i] = e]
  <2>1. AddEpisodes(list, s) = new
    BY <1>3 DEF AddEpisodes
  <2>2. i \in 1 .. Len(list) /\ list[i] \in Entry
    BY <1>1, <1>3
  <2>3. e \in Entry /\ e.slug = list[i].slug /\ e.ver = list[i].ver /\ e.details = s
    BY <2>2 DEF Entry
  <2>4. Confused(list, s) = IF list[i].slug = s THEN {} ELSE {s, list[i].slug}
    BY <1>3 DEF Confused
  <2> HIDE DEF i, e
  <2>5. new \in Seq(Entry)
    BY <2>2, <2>3, ExceptSeq
  <2>6. DOMAIN new = DOMAIN list /\ \A k \in DOMAIN list : new[k] = IF k = i THEN e ELSE list[k]
    OBVIOUS
  <2> HIDE DEF new
  <2>7. \A t \in Slug : Places(new, t) = Places(list, t)
    BY <2>3, <2>6 DEF Places
  <2>8. ASSUME NEW t \in Slug \ {s}, t \notin Confused(list, s)
        PROVE  About(new, t) = About(list, t) /\ (Once(list, t) => Once(new, t))
    <3>1. i \notin Places(list, t)
      BY <2>4, <2>8 DEF Places
    <3>2. \A k \in Places(list, t) : new[k] = list[k]
      BY <3>1, <2>6 DEF Places
    <3> QED
      BY <3>2, <2>7 DEF About, Once
  <2>9. ASSUME Confused(list, s) = {}, Clean(list, s)
        PROVE  About(new, s) = {e} /\ About(list, s) = {list[i]} /\ Once(new, s)
    <3>1. i \in Places(list, s)
      BY <2>2, <2>4, <2>9 DEF Places
    <3>2. Places(list, s) = {i}
      BY <3>1, <2>9 DEF Clean, Once
    <3>3. i \in DOMAIN list
      BY <3>1 DEF Places
    <3> QED
      BY <3>2, <3>3, <2>6, <2>7 DEF About, Once
  <2>10. Confused(list, s) = {} /\ Clean(list, s) =>
           /\ Clean(new, s)
           /\ \A x \in About(new, s) : x.details = s /\ \E f \in About(list, s) : x.ver = f.ver
           /\ About(new, s) # {}
    BY <2>3, <2>9 DEF Clean, OwnDetails
  <2> QED
    BY <2>1, <2>5, <2>8, <2>10
<1> QED
  BY <1>2, <1>3

\* ADD_SHOWS: the fetched shows, in their versions, with the details that the
\* list had of them.
LEMMA AddShowsFacts ==
  ASSUME NEW list \in Seq(Entry), NEW fetched \in Seq(Entry)
  PROVE  /\ AddShows(list, fetched) \in Seq(Entry)
         /\ \A s \in Slug :
              LET new == AddShows(list, fetched) IN
              /\ Clean(list, s) /\ Clean(fetched, s) => Clean(new, s)
              /\ About(new, s) = {} <=> About(fetched, s) = {}
              /\ \A e \in About(new, s) : \E f \in About(fetched, s) : e.ver = f.ver
              /\ Once(list, s) => \A e \in About(new, s), f \in About(list, s) : e.details = f.details
<1> DEFINE new == AddShows(list, fetched)
<1>1. ASSUME NEW show \in Entry
      PROVE  /\ Merged(list, show) \in Entry
             /\ Merged(list, show).slug = show.slug /\ Merged(list, show).ver = show.ver
             /\ Places(list, show.slug) = {} => Merged(list, show) = show
             /\ Places(list, show.slug) # {} =>
                  \E k \in Places(list, show.slug) : Merged(list, show).details = list[k].details
  <2> DEFINE I == {k \in 1 .. Len(list) : list[k].slug = show.slug}
             i == IF I # {} THEN CHOOSE x \in I : \A y \in I : x <= y ELSE 0
  <2>1. Merged(list, show) = IF i = 0 THEN show ELSE [show EXCEPT !.details = list[i].details]
    BY DEF Merged, SelectInSeq, Min
  <2>2. I # {} => \E x \in I : \A y \in I : x <= y
    <3>1. I \in SUBSET Nat
      OBVIOUS
    <3> QED
      BY <3>1, LeastNumber
  <2>3. I # {} => i \in I
    BY <2>2
  <2>4. I = Places(list, show.slug)
    BY DEF Places
  <2>5. I = {} => i = 0
    OBVIOUS
  <2> HIDE DEF i, I
  <2>6. i # 0 => i \in Places(list, show.slug)
    BY <2>3, <2>4, <2>5
  <2>7. \A k \in Places(list, show.slug) : k # 0 /\ list[k] \in Entry
    BY DEF Places
  <2>8. i # 0 => /\ [show EXCEPT !.details = list[i].details] \in Entry
                 /\ [show EXCEPT !.details = list[i].details].slug = show.slug
                 /\ [show EXCEPT !.details = list[i].details].ver = show.ver
                 /\ [show EXCEPT !.details = list[i].details].details = list[i].details
    BY <2>6, <2>7 DEF Entry
  <2> QED
    BY <2>1, <2>3, <2>4, <2>5, <2>6, <2>7, <2>8
<1>2. /\ DOMAIN new = DOMAIN fetched
      /\ \A k \in DOMAIN fetched : fetched[k] \in Entry /\ new[k] = Merged(list, fetched[k])
  BY DEF AddShows
<1>3. new \in Seq(Entry)
  <2>1. \A k \in 1 .. Len(fetched) : Merged(list, fetched[k]) \in Entry
    BY <1>1
  <2> QED
    BY <2>1 DEF AddShows
<1> HIDE DEF new
<1>4. ASSUME NEW s \in Slug
      PROVE  /\ Clean(list, s) /\ Clean(fetched, s) => Clean(new, s)
             /\ About(new, s) = {} <=> About(fetched, s) = {}
             /\ \A e \in About(new, s) : \E f \in About(fetched, s) : e.ver = f.ver
             /\ Once(list, s) => \A e \in About(new, s), f \in About(list, s) : e.details = f.details
  <2>1. Places(new, s) = Places(fetched, s)
    BY <1>1, <1>2 DEF Places
  <2>2. \A k \in Places(fetched, s) :
          /\ fetched[k] \in Entry /\ fetched[k].slug = s
          /\ new[k] = Merged(list, fetched[k])
    BY <1>2 DEF Places
  <2>3. \A k \in Places(fetched, s) :
          /\ new[k].ver = fetched[k].ver
          /\ Places(list, s) = {} => new[k] = fetched[k]
          /\ Places(list, s) # {} => \E i \in Places(list, s) : new[k].details = list[i].details
    <3> SUFFICES ASSUME NEW k \in Places(fetched, s)
                 PROVE  /\ new[k].ver = fetched[k].ver
                        /\ Places(list, s) = {} => new[k] = fetched[k]
                        /\ Places(list, s) # {} =>
                             \E i \in Places(list, s) : new[k].details = list[i].details
      OBVIOUS
    <3>1. PICK show \in Entry : show = fetched[k]
      BY <2>2
    <3>2. show.slug = s /\ new[k] = Merged(list, show)
      BY <2>2, <3>1
    <3> QED
      BY <1>1, <3>1, <3>2
  <2>4. \A e \in About(new, s) : \E f \in About(fetched, s) : e.ver = f.ver
    BY <2>1, <2>3 DEF About
  <2>5. Once(list, s) => \A e \in About(new, s), f \in About(list, s) : e.details = f.details
    BY <2>1, <2>3 DEF About, Once
  <2>6. Clean(list, s) /\ Clean(fetched, s) => OwnDetails(new, s)
    BY <2>1, <2>3 DEF About, Clean, OwnDetails
  <2>7. Once(fetched, s) => Once(new, s)
    BY <2>1 DEF Once
  <2>8. About(new, s) = {} <=> About(fetched, s) = {}
    BY <2>1 DEF About
  <2> QED
    BY <2>4, <2>5, <2>6, <2>7, <2>8 DEF Clean
<1> QED
  BY <1>3, <1>4 DEF new

\* One page after the other.
LEMMA ConcatFacts ==
  ASSUME NEW list \in Seq(Entry), NEW more \in Seq(Entry)
  PROVE  /\ list \o more \in Seq(Entry)
         /\ \A s \in Slug :
              /\ About(list \o more, s) = About(list, s) \cup About(more, s)
              /\ Clean(list, s) /\ Clean(more, s) /\ (About(list, s) = {} \/ About(more, s) = {})
                   => Clean(list \o more, s)
<1> DEFINE all == list \o more
<1>1. /\ all \in Seq(Entry) /\ Len(all) = Len(list) + Len(more)
      /\ Len(list) \in Nat /\ Len(more) \in Nat
      /\ DOMAIN all = 1 .. Len(list) + Len(more)
      /\ DOMAIN list = 1 .. Len(list) /\ DOMAIN more = 1 .. Len(more)
      /\ \A k \in DOMAIN list : all[k] = list[k]
      /\ \A k \in DOMAIN more : all[Len(list) + k] = more[k]
  OBVIOUS
<1> HIDE DEF all
<1>2. \A k \in DOMAIN all : k \in DOMAIN list \/ (k - Len(list) \in DOMAIN more /\ all[k] = more[k - Len(list)])
  <2> SUFFICES ASSUME NEW k \in DOMAIN all, k \notin DOMAIN list
               PROVE  k - Len(list) \in DOMAIN more /\ all[k] = more[k - Len(list)]
    OBVIOUS
  <2>1. k - Len(list) \in 1 .. Len(more) /\ k = Len(list) + (k - Len(list))
    BY <1>1
  <2> QED
    BY <1>1, <2>1
<1>3. ASSUME NEW s \in Slug
      PROVE  /\ About(all, s) = About(list, s) \cup About(more, s)
             /\ Clean(list, s) /\ Clean(more, s) /\ (About(list, s) = {} \/ About(more, s) = {})
                   => Clean(all, s)
  <2>1. \A k \in Places(list, s) : k \in Places(all, s) /\ all[k] = list[k]
    BY <1>1 DEF Places
  <2>2. \A k \in Places(more, s) : Len(list) + k \in Places(all, s) /\ all[Len(list) + k] = more[k]
    <3> SUFFICES ASSUME NEW k \in Places(more, s)
                 PROVE  Len(list) + k \in Places(all, s) /\ all[Len(list) + k] = more[k]
      OBVIOUS
    <3>1. k \in 1 .. Len(more) /\ more[k].slug = s
      BY <1>1 DEF Places
    <3> QED
      BY <1>1, <3>1 DEF Places
  <2>3. \A k \in Places(all, s) :
          \/ k \in Places(list, s) /\ all[k] = list[k]
          \/ k - Len(list) \in Places(more, s) /\ all[k] = more[k - Len(list)]
    BY <1>1, <1>2 DEF Places
  <2>4. About(all, s) = About(list, s) \cup About(more, s)
    BY <2>1, <2>2, <2>3 DEF About
  <2>5. OwnDetails(list, s) /\ OwnDetails(more, s) => OwnDetails(all, s)
    BY <2>4 DEF OwnDetails
  <2>6. About(list, s) = {} /\ Once(more, s) => Once(all, s)
    <3> SUFFICES ASSUME About(list, s) = {}, Once(more, s),
                        NEW j \in Places(all, s), NEW k \in Places(all, s)
                 PROVE  j = k
      BY DEF Once
    <3>1. Places(list, s) = {}
      BY DEF About
    <3>2. j - Len(list) = k - Len(list)
      BY <2>3, <3>1 DEF Once
    <3> QED
      BY <1>1, <3>2 DEF Places
  <2>7. About(more, s) = {} /\ Once(list, s) => Once(all, s)
    <3> SUFFICES ASSUME About(more, s) = {}, Once(list, s),
                        NEW j \in Places(all, s), NEW k \in Places(all, s)
                 PROVE  j = k
      BY DEF Once
    <3>1. Places(more, s) = {}
      BY DEF About
    <3> QED
      BY <2>3, <3>1 DEF Once
  <2> QED
    BY <2>4, <2>5, <2>6, <2>7 DEF Clean
<1> QED
  BY <1>1, <1>3 DEF all

-----------------------------------------------------------------------------
(***************************************************************************)
(* The library and its pages.                                              *)
(***************************************************************************)

\* The titles list each show once (the library of the server has no show twice).
LEMMA TitlesDiffer ==
  /\ Len(Titles) \in Nat /\ DOMAIN Titles = 1 .. Len(Titles)
  /\ \A k \in DOMAIN Titles : Titles[k] \in Slug
  /\ \A s \in Slug : \E k \in DOMAIN Titles : Titles[k] = s
  /\ \A j, k \in DOMAIN Titles : Titles[j] = Titles[k] => j = k
<1>1. Titles \in Seq(Slug) /\ Cardinality(Slug) = Len(Titles)
  BY ParametersHold DEF Parameters
<1>2. Len(Titles) \in Nat /\ DOMAIN Titles = 1 .. Len(Titles) /\ Titles \in [1 .. Len(Titles) -> Slug]
  BY <1>1
<1>3. \A s \in Slug : \E k \in DOMAIN Titles : Titles[k] = s
  BY DEF Slug, ToSet
<1>4. IsFiniteSet(1 .. Len(Titles)) /\ Cardinality(1 .. Len(Titles)) = Len(Titles)
  BY <1>2, FS_Interval
<1>5. Titles \in Surjection(1 .. Len(Titles), Slug)
  BY <1>2, <1>3 DEF Surjection
<1>6. Titles \in Injection(1 .. Len(Titles), Slug)
  <2>1. Cardinality(Slug) = Cardinality(1 .. Len(Titles))
    BY <1>1, <1>4
  <2> HIDE DEF Slug
  <2> DEFINE N == 1 .. Len(Titles)
  <2>3. IsFiniteSet(N) /\ Titles \in Surjection(N, Slug)
    BY <1>4, <1>5
  <2> HIDE DEF N
  <2>2. Cardinality(Slug) = Cardinality(N) <=> Titles \in Injection(N, Slug)
    BY <2>3, FS_Surjection
  <2> QED
    BY <2>1, <2>2 DEF N
<1>7. \A j, k \in DOMAIN Titles : Titles[j] = Titles[k] => j = k
  BY <1>2, <1>6 DEF Injection, IsInjective
<1> QED
  BY <1>2, <1>3, <1>7

\* The sorted library has each of its shows once.
LEMMA LibraryFacts ==
  ASSUME library \subseteq Slug
  PROVE  /\ InLibrary \in Seq(Slug)
         /\ Len(InLibrary) \in Nat /\ DOMAIN InLibrary = 1 .. Len(InLibrary)
         /\ \A s : (\E k \in DOMAIN InLibrary : InLibrary[k] = s) <=> s \in library
         /\ \A j, k \in DOMAIN InLibrary : InLibrary[j] = InLibrary[k] => j = k
<1> DEFINE places == {k \in DOMAIN Titles : Titles[k] \in library}
<1>1. Titles \in Seq(Slug)
  BY ParametersHold DEF Parameters
<1>2. /\ InLibrary \in Seq(Slug)
      /\ \A s : (\E k \in DOMAIN InLibrary : InLibrary[k] = s)
                  <=> (\E k \in DOMAIN Titles \cap places : Titles[k] = s)
      /\ \A j, k \in DOMAIN InLibrary : InLibrary[j] = InLibrary[k] => j = k
  BY <1>1, TitlesDiffer, ChosenOnce DEF InLibrary
<1>3. \A s : (\E k \in DOMAIN Titles \cap places : Titles[k] = s) <=> s \in library
  BY TitlesDiffer
<1>4. Len(InLibrary) \in Nat /\ DOMAIN InLibrary = 1 .. Len(InLibrary)
  BY <1>2
<1> QED
  BY <1>2, <1>3, <1>4

\* The place of a show among those of the library, and its page.
RankOf(s) == CHOOSE k \in DOMAIN InLibrary : InLibrary[k] = s
PageNo(s) == PageAt(RankOf(s))

\* The pages are numbered from one to the page of the last show.
LEMMA PageAtFacts ==
  ASSUME NEW n \in Nat
  PROVE  /\ PageAt(n) \in Nat
         /\ \A k \in 1 .. n : PageAt(k) \in 1 .. PageAt(n)
<1>1. Limit \in Nat /\ Limit > 0
  BY ParametersHold DEF Parameters
<1>2. ASSUME NEW a \in Int, NEW b \in Int, a <= b PROVE a \div Limit \in Int /\ a \div Limit <= b \div Limit
  BY <1>1, <1>2
<1>3. 0 \div Limit = 0 /\ (0 - 1) \div Limit = 0 - 1
  BY <1>1
<1>4. PageAt(n) \in Nat
  <2>1. 0 - 1 <= n - 1
    OBVIOUS
  <2>2. (0 - 1) \div Limit <= (n - 1) \div Limit /\ (n - 1) \div Limit \in Int
    BY <1>2, <2>1
  <2> QED
    BY <1>3, <2>2 DEF PageAt
<1>5. ASSUME NEW k \in 1 .. n PROVE PageAt(k) \in 1 .. PageAt(n)
  <2>1. 0 \div Limit <= (k - 1) \div Limit /\ (k - 1) \div Limit <= (n - 1) \div Limit
        /\ (k - 1) \div Limit \in Int /\ (n - 1) \div Limit \in Int
    BY <1>2
  <2> QED
    BY <1>3, <2>1 DEF PageAt
<1> QED
  BY <1>4, <1>5

\* Each show of the library is on one page, in its version and without details.
LEMMA PageFacts ==
  ASSUME library \subseteq Slug, ver \in [Slug -> 0 .. MaxChanges]
  PROVE  /\ PageCount \in Nat
         /\ \A s \in library : PageNo(s) \in 1 .. PageCount
         /\ \A p : /\ DataOf(p) \in Seq(Entry)
                   /\ \A s \in Slug :
                        /\ Clean(DataOf(p), s)
                        /\ About(DataOf(p), s) # {} <=> s \in library /\ PageNo(s) = p
                        /\ \A e \in About(DataOf(p), s) : e.ver = ver[s]
<1>1. Len(InLibrary) \in Nat /\ DOMAIN InLibrary = 1 .. Len(InLibrary) /\ InLibrary \in Seq(Slug)
  BY LibraryFacts
<1>2. PageCount \in Nat
  BY <1>1, PageAtFacts DEF PageCount
<1>3. ASSUME NEW s \in library
      PROVE  RankOf(s) \in DOMAIN InLibrary /\ InLibrary[RankOf(s)] = s
  <2>1. \E k \in DOMAIN InLibrary : InLibrary[k] = s
    BY LibraryFacts
  <2> QED
    BY <2>1 DEF RankOf
<1>4. ASSUME NEW s \in library PROVE PageNo(s) \in 1 .. PageCount
  BY <1>1, <1>3, PageAtFacts DEF PageCount, PageNo
<1>5. ASSUME NEW p
      PROVE  /\ DataOf(p) \in Seq(Entry)
             /\ \A s \in Slug :
                  /\ Clean(DataOf(p), s)
                  /\ About(DataOf(p), s) # {} <=> s \in library /\ PageNo(s) = p
                  /\ \A e \in About(DataOf(p), s) : e.ver = ver[s]
  <2> DEFINE places == {k \in DOMAIN InLibrary : PageAt(k) = p}
             slugs == Chosen(InLibrary, places)
  <2>1. /\ slugs \in Seq(Slug)
        /\ \A x : (\E k \in DOMAIN slugs : slugs[k] = x)
                    <=> (\E k \in DOMAIN InLibrary \cap places : InLibrary[k] = x)
        /\ \A j, k \in DOMAIN slugs : slugs[j] = slugs[k] => j = k
    <3>1. \A j, k \in DOMAIN InLibrary : InLibrary[j] = InLibrary[k] => j = k
      BY LibraryFacts
    <3> HIDE DEF places
    <3> QED
      BY <1>1, <3>1, ChosenOnce
  <2>2. DataOf(p) = Entries(slugs)
    BY DEF DataOf
  <2>3. ASSUME NEW s \in Slug
        PROVE  (\E k \in DOMAIN slugs : slugs[k] = s) <=> s \in library /\ PageNo(s) = p
    <3>1. ASSUME NEW k \in DOMAIN InLibrary \cap places, InLibrary[k] = s
          PROVE  s \in library /\ PageNo(s) = p
      <4>1. s \in library
        BY <3>1, LibraryFacts
      <4>2. RankOf(s) = k
        BY <1>3, <3>1, <4>1, LibraryFacts
      <4> QED
        BY <3>1, <4>1, <4>2 DEF PageNo
    <3>2. ASSUME s \in library, PageNo(s) = p
          PROVE  \E k \in DOMAIN InLibrary \cap places : InLibrary[k] = s
      BY <1>3, <3>2 DEF PageNo
    <3> QED
      BY <2>1, <3>1, <3>2
  <2> HIDE DEF slugs
  <2> DEFINE data == Entries(slugs)
  <2>4. /\ DOMAIN data = DOMAIN slugs /\ DOMAIN slugs = 1 .. Len(slugs) /\ Len(slugs) \in Nat
        /\ \A k \in DOMAIN slugs : data[k] = [slug |-> slugs[k], ver |-> ver[slugs[k]], details |-> None]
    BY <2>1 DEF Entries
  <2>5. \A k \in DOMAIN slugs : data[k] \in Entry /\ data[k].slug = slugs[k]
                                /\ data[k].ver = ver[slugs[k]] /\ data[k].details = None
    BY <2>1, <2>4 DEF Entry
  <2>6. data \in Seq(Entry)
    <3>1. \A k \in 1 .. Len(slugs) : [slug |-> slugs[k], ver |-> ver[slugs[k]], details |-> None] \in Entry
      BY <2>4, <2>5
    <3>2. data = [k \in 1 .. Len(slugs) |-> [slug |-> slugs[k], ver |-> ver[slugs[k]], details |-> None]]
      BY <2>4 DEF Entries
    <3> HIDE DEF data
    <3> QED
      BY <2>4, <3>1, <3>2
  <2> HIDE DEF data
  <2>7. ASSUME NEW s \in Slug
        PROVE  /\ Clean(data, s)
               /\ About(data, s) # {} <=> s \in library /\ PageNo(s) = p
               /\ \A e \in About(data, s) : e.ver = ver[s]
    <3>1. Places(data, s) = {k \in DOMAIN slugs : slugs[k] = s}
      BY <2>4, <2>5 DEF Places
    <3>2. Once(data, s)
      BY <2>1, <3>1 DEF Once
    <3>3. \A e \in About(data, s) : e.details = None /\ e.ver = ver[s]
      BY <2>5, <3>1 DEF About
    <3>4. About(data, s) # {} <=> \E k \in DOMAIN slugs : slugs[k] = s
      BY <3>1 DEF About
    <3> QED
      BY <2>3, <3>2, <3>3, <3>4 DEF Clean, OwnDetails
  <2> QED
    BY <2>2, <2>6, <2>7 DEF data
<1> QED
  BY <1>2, <1>4, <1>5

-----------------------------------------------------------------------------
(***************************************************************************)
(* The types.  A version is at most the number of the changes so far, and  *)
(* what was told of a show that it is gone is so or about to be.           *)
(***************************************************************************)

MessageType == [event : Events, show : Slug, ver : 0 .. MaxChanges, late : BOOLEAN]
AnswerType == [page : Nat, data : Seq(Entry), total : Nat]
RequestType == [what : {"show", "episodes"}, show : Slug,
                ver : 0 .. MaxChanges \cup {None}, stale : BOOLEAN]

ServerTyped ==
  /\ library \subseteq Slug /\ job \in Job \cup {None}
  /\ changes \in 0 .. MaxChanges
  /\ ver \in [Slug -> 0 .. MaxChanges] /\ \A s \in Slug : ver[s] <= changes
  /\ word \in [Slug -> {"there", "gone", "nothing"}]
  /\ told \in [Slug -> 0 .. MaxChanges] /\ \A s \in Slug : told[s] <= ver[s]
  /\ \A s \in Slug : Leaving(s) => word[s] = "gone"
  /\ \A s \in Slug : word[s] = "gone" /\ s \in library => Leaving(s)
  /\ \A s \in Slug : job = At("deleted", s) => s \notin library
SocketTyped ==
  /\ connected \in BOOLEAN /\ gaps \in 0 .. MaxGaps
  /\ channel \in Seq(MessageType)
ListTyped ==
  /\ shows \in Seq(Entry) /\ home \in BOOLEAN
  /\ storage = None \/ storage \in Seq(Entry)
FetchTyped ==
  /\ boot \in {"first", "pages", "done", "failed"}
  /\ due \subseteq Nat /\ answers \subseteq AnswerType /\ newShows \in Seq(Entry)
DetailTyped ==
  /\ requests \in 0 .. MaxRequests
  /\ request = None \/ request \in RequestType
ExcuseTyped == unsaved \subseteq Slug /\ missed \subseteq Slug /\ mixed \subseteq Slug

Typed == ServerTyped /\ SocketTyped /\ ListTyped /\ FetchTyped /\ DetailTyped /\ ExcuseTyped

\* The conjuncts of the type invariant, one group of variables after the other.
LEMMA TypedIsTypeOK == Typed => TypeOK
BY DEF Typed, ServerTyped, SocketTyped, ListTyped, FetchTyped, DetailTyped, ExcuseTyped,
       TypeOK, MessageType, AnswerType, RequestType

\* The fields of a message of the websocket.
LEMMA MessageTypeFacts ==
  ASSUME NEW m \in MessageType
  PROVE  m.event \in Events /\ m.show \in Slug /\ m.ver \in 0 .. MaxChanges /\ m.late \in BOOLEAN
BY DEF MessageType

\* The first message on its way and those behind it.
LEMMA MessageFacts ==
  ASSUME SocketTyped, channel # <<>>
  PROVE  /\ Head(channel) \in MessageType /\ Tail(channel) \in Seq(MessageType)
         /\ Head(channel) = channel[1] /\ 1 \in DOMAIN channel
         /\ Len(channel) \in Nat \ {0} /\ DOMAIN channel = 1 .. Len(channel)
         /\ Len(Tail(channel)) = Len(channel) - 1 /\ DOMAIN Tail(channel) = 1 .. Len(channel) - 1
         /\ \A k \in DOMAIN Tail(channel) : Tail(channel)[k] = channel[k + 1]
BY DEF SocketTyped

\* What a message or an answer brings is an entry.
LEMMA BroughtFacts ==
  /\ \A m \in MessageType : [slug |-> m.show, ver |-> m.ver, details |-> None] \in Entry
  /\ \A r \in RequestType : r.ver # None =>
       [slug |-> r.show, ver |-> r.ver, details |-> r.show] \in Entry
BY DEF MessageType, RequestType, Entry

\* The items of the show queue, one at a time.
LEMMA AtFacts ==
  /\ \A x \in {"adding", "removing", "deleted"}, s \in Slug : At(x, s) \in Job /\ At(x, s) # None
  /\ \A x, y \in {"adding", "removing", "deleted"} : \A s, t : At(x, s) = At(y, t) => x = y /\ s = t
  /\ \A s \in Slug : Leaving(s) => job # None
<1>1. None \notin Job
  BY ParametersHold DEF Parameters
<1>2. \A x \in {"adding", "removing", "deleted"}, s \in Slug : At(x, s) \in Job /\ At(x, s) # None
  BY <1>1 DEF At, Job
<1>3. ASSUME NEW x, NEW y, NEW s, NEW t, At(x, s) = At(y, t) PROVE x = y /\ s = t
  <2>1. At(x, s).step = x /\ At(x, s).show = s /\ At(y, t).step = y /\ At(y, t).show = t
    BY DEF At
  <2> QED
    BY <1>3, <2>1
<1> QED
  BY <1>2, <1>3 DEF Leaving

\* The types hold when the client starts.
LEMMA InitTyped == Init => Typed
<1> SUFFICES ASSUME Init PROVE Typed
  OBVIOUS
<1> USE DEF Init
<1>0. /\ Libraries \subseteq SUBSET Slug /\ Stores \subseteq Seq(Entry) \cup {None}
      /\ MaxChanges \in Nat /\ MaxGaps \in Nat /\ MaxRequests \in Nat
  BY ParametersHold DEF Parameters
<1>1. ServerTyped
  <2>1. \A s \in Slug : ~Leaving(s) /\ job # At("deleted", s)
    BY AtFacts
  <2> QED
    BY <1>0, <2>1 DEF ServerTyped
<1>2. SocketTyped
  BY <1>0 DEF SocketTyped
<1>3. ListTyped
  <2>1. storage = None \/ storage \in Seq(Entry)
    BY <1>0
  <2>2. shows \in Seq(Entry)
    OBVIOUS
  <2> QED
    BY <2>1, <2>2 DEF ListTyped
<1>4. FetchTyped
  BY <1>0 DEF FetchTyped
<1>5. DetailTyped
  BY <1>0 DEF DetailTyped
<1>6. ExcuseTyped
  <2>1. storage # None => Muddled(storage) \subseteq Slug
    <3>1. storage # None => storage \in Seq(Entry)
      BY <1>3 DEF ListTyped
    <3>2. \A list \in Seq(Entry) : \A k \in DOMAIN list : list[k].slug \in Slug
      BY EntryFacts
    <3> QED
      BY <3>1, <3>2 DEF Muddled
  <2> QED
    BY <2>1 DEF ExcuseTyped
<1> QED
  BY <1>1, <1>2, <1>3, <1>4, <1>5, <1>6 DEF Typed

\* A change of a show makes its version a new one.
LEMMA ChangeTyped ==
  ASSUME Typed, NEW s \in Slug, Changed(s)
  PROVE  /\ changes' \in 0 .. MaxChanges
         /\ ver' \in [Slug -> 0 .. MaxChanges] /\ \A t \in Slug : ver'[t] <= changes'
         /\ \A t \in Slug : ver[t] <= ver'[t] /\ told[t] <= ver'[t]
<1> USE DEF Typed, ServerTyped
<1>1. MaxChanges \in Nat
  BY ParametersHold DEF Parameters
<1>2. /\ changes' \in 0 .. MaxChanges
      /\ ver' \in [Slug -> 0 .. MaxChanges] /\ \A t \in Slug : ver'[t] <= changes'
  BY <1>1 DEF Changed
<1>3. \A t \in Slug : ver[t] <= ver'[t]
  BY DEF Changed
<1>4. \A t \in Slug : told[t] <= ver'[t]
  BY <1>2, <1>3
<1> QED
  BY <1>2, <1>3, <1>4

\* The message about a show.
LEMMA PushTyped ==
  ASSUME Typed, ver' \in [Slug -> 0 .. MaxChanges],
         NEW s \in Slug, NEW event \in Events, NEW late \in BOOLEAN,
         Push(event, s, late), UNCHANGED <<connected, gaps>>
  PROVE  SocketTyped' /\ missed' \subseteq Slug
<1> USE DEF Typed, SocketTyped, ExcuseTyped
<1>1. Message(event, s, late) \in MessageType
  BY DEF Message, MessageType
<1> QED
  BY <1>1 DEF Push

\* A change of the library keeps the types.
LEMMA ServerNextTyped ==
  ASSUME Typed, ServerNext
  PROVE  Typed'
<1> USE DEF Typed
<1>0. Untouched => /\ ListTyped' /\ FetchTyped' /\ DetailTyped' /\ unsaved' \subseteq Slug
                   /\ UNCHANGED <<connected, gaps>>
  BY DEF Untouched, ListTyped, FetchTyped, DetailTyped, ExcuseTyped, fetch, detail
<1>1. Silent /\ Untouched => SocketTyped' /\ missed' \subseteq Slug
  BY DEF Silent, Untouched, SocketTyped, ExcuseTyped
<1>2. Shifted => mixed' \subseteq Slug
  BY DEF Shifted, Shifts, ExcuseTyped
<1>3. mixed \subseteq Slug
  BY DEF ExcuseTyped
<1>4. Untouched /\ ServerTyped' /\ SocketTyped' /\ missed' \subseteq Slug /\ mixed' \subseteq Slug => Typed'
  BY <1>0 DEF ExcuseTyped
<1>5. \A s \in Slug : Leaving(s) \in BOOLEAN
  BY DEF Leaving
<1>6. {"updated", "removed"} \subseteq Events /\ FALSE \in BOOLEAN
  BY DEF Events
<1>7. ASSUME NEW s \in Slug, ShowAppended(s) PROVE Typed'
  <2>1. /\ changes' \in 0 .. MaxChanges
        /\ ver' \in [Slug -> 0 .. MaxChanges] /\ \A t \in Slug : ver'[t] <= changes'
        /\ \A t \in Slug : told[t] <= ver'[t]
    BY <1>7, ChangeTyped DEF ShowAppended
  <2>2. /\ job = None /\ job' = At("adding", s) /\ library' = library \cup {s}
        /\ word' = [word EXCEPT ![s] = "nothing"] /\ told' = told
    BY <1>7 DEF ShowAppended
  <2>3. \A t \in Slug : ~Leaving(t) /\ ~Leaving(t)' /\ job' # At("deleted", t) /\ job' \in Job
    BY <2>2, AtFacts DEF Leaving
  <2>4. ServerTyped'
    BY <2>1, <2>2, <2>3 DEF ServerTyped
  <2> QED
    BY <1>1, <1>2, <1>4, <1>7, <2>4 DEF ShowAppended
<1>8. ASSUME NEW s \in Slug, ShowAnnounced(s) PROVE Typed'
  <2>1. /\ job = At("adding", s) /\ job' = None /\ Announce(s)
        /\ UNCHANGED <<library, ver, changes, mixed>> /\ Untouched
    BY <1>8 DEF ShowAnnounced
  <2>2. \A t \in Slug : ~Leaving(t) /\ ~Leaving(t)' /\ job' # At("deleted", t)
    BY <2>1, AtFacts DEF Leaving
  <2>3. word' = [word EXCEPT ![s] = "there"] /\ told' = [told EXCEPT ![s] = ver'[s]]
    BY <2>1, <2>2 DEF Announce
  <2>4. ServerTyped'
    BY <2>1, <2>2, <2>3 DEF ServerTyped
  <2>5. SocketTyped' /\ missed' \subseteq Slug
    BY <1>0, <1>5, <1>6, <2>1, <2>4, PushTyped DEF Announce, ServerTyped
  <2> QED
    BY <1>3, <1>4, <2>1, <2>4, <2>5
<1>9. ASSUME NEW s \in Slug, ShowUpdated(s) PROVE Typed'
  <2>1. /\ changes' \in 0 .. MaxChanges
        /\ ver' \in [Slug -> 0 .. MaxChanges] /\ \A t \in Slug : ver'[t] <= changes'
        /\ \A t \in Slug : told[t] <= ver'[t]
    BY <1>9, ChangeTyped DEF ShowUpdated
  <2>2. Announce(s) /\ UNCHANGED <<library, job, mixed>> /\ Untouched
    BY <1>9 DEF ShowUpdated
  <2>3. \A t \in Slug : Leaving(t)' <=> Leaving(t)
    BY <2>2 DEF Leaving
  <2>4. ASSUME Leaving(s) PROVE ServerTyped'
    BY <2>1, <2>2, <2>3, <2>4 DEF Announce, ServerTyped
  <2>5. ASSUME ~Leaving(s) PROVE ServerTyped'
    <3>1. word' = [word EXCEPT ![s] = "there"] /\ told' = [told EXCEPT ![s] = ver'[s]]
      BY <2>2, <2>5 DEF Announce
    <3> QED
      BY <2>1, <2>2, <2>3, <2>5, <3>1 DEF ServerTyped
  <2>6. SocketTyped' /\ missed' \subseteq Slug
    BY <1>0, <1>5, <1>6, <2>1, <2>2, PushTyped DEF Announce
  <2> QED
    BY <1>3, <1>4, <2>2, <2>4, <2>5, <2>6
<1>10. ASSUME NEW s \in Slug, ShowChanged(s) PROVE Typed'
  <2>1. /\ changes' \in 0 .. MaxChanges
        /\ ver' \in [Slug -> 0 .. MaxChanges] /\ \A t \in Slug : ver'[t] <= changes'
        /\ \A t \in Slug : told[t] <= ver'[t]
    BY <1>10, ChangeTyped DEF ShowChanged
  <2>2. UNCHANGED <<library, job, word, told, mixed>> /\ Untouched /\ Silent
    BY <1>10 DEF ShowChanged
  <2>3. ServerTyped'
    BY <2>1, <2>2 DEF ServerTyped, Leaving
  <2> QED
    BY <1>1, <1>3, <1>4, <2>2, <2>3
<1>11. ASSUME NEW s \in Slug, RemovalAnnounced(s) PROVE Typed'
  <2>1. /\ changes' \in 0 .. MaxChanges
        /\ ver' \in [Slug -> 0 .. MaxChanges] /\ \A t \in Slug : ver'[t] <= changes'
        /\ \A t \in Slug : told[t] <= ver'[t]
    BY <1>11, ChangeTyped DEF RemovalAnnounced
  <2>2. /\ job = None /\ job' = At("removing", s) /\ Withdraw(s)
        /\ UNCHANGED <<library, mixed>> /\ Untouched
    BY <1>11 DEF RemovalAnnounced
  <2>3. \A t \in Slug : ~Leaving(t) /\ (Leaving(t)' <=> t = s) /\ job' # At("deleted", t) /\ job' \in Job
    BY <2>2, AtFacts DEF Leaving
  <2>4. ServerTyped'
    BY <2>1, <2>2, <2>3 DEF Withdraw, ServerTyped
  <2>5. SocketTyped' /\ missed' \subseteq Slug
    BY <1>0, <1>6, <2>1, <2>2, PushTyped DEF Withdraw
  <2> QED
    BY <1>3, <1>4, <2>2, <2>4, <2>5
<1>12. ASSUME NEW s \in Slug, ShowDeleted(s) PROVE Typed'
  <2>1. /\ Leaving(s) /\ library' = library \ {s} /\ job' = None /\ Shifted /\ Silent
        /\ UNCHANGED <<ver, changes, word, told>> /\ Untouched
    BY <1>12 DEF ShowDeleted
  <2>2. \A t \in Slug : ~Leaving(t)' /\ (Leaving(t) => t = s) /\ job' # At("deleted", t)
    BY <2>1, AtFacts DEF Leaving
  <2>3. ServerTyped'
    BY <2>1, <2>2 DEF ServerTyped
  <2> QED
    BY <1>1, <1>2, <1>4, <2>1, <2>3
<1>13. ASSUME NEW s \in Slug, ShowReplaced(s) PROVE Typed'
  <2>1. /\ changes' \in 0 .. MaxChanges
        /\ ver' \in [Slug -> 0 .. MaxChanges] /\ \A t \in Slug : ver'[t] <= changes'
        /\ \A t \in Slug : told[t] <= ver'[t]
    BY <1>13, ChangeTyped DEF ShowReplaced
  <2>2. /\ job = None /\ job' = At("deleted", s) /\ library' = library \ {s} /\ Shifted /\ Silent
        /\ UNCHANGED <<word, told>> /\ Untouched
    BY <1>13 DEF ShowReplaced
  <2>3. \A t \in Slug : ~Leaving(t) /\ ~Leaving(t)' /\ (job' = At("deleted", t) => t = s) /\ job' \in Job
    BY <2>2, AtFacts DEF Leaving
  <2>4. ServerTyped'
    BY <2>1, <2>2, <2>3 DEF ServerTyped
  <2> QED
    BY <1>1, <1>2, <1>4, <2>2, <2>4
<1>14. ASSUME NEW s \in Slug, ReplacementAnnounced(s) PROVE Typed'
  <2>1. /\ job = At("deleted", s) /\ job' = None /\ Withdraw(s)
        /\ UNCHANGED <<library, ver, changes, mixed>> /\ Untouched
    BY <1>14 DEF ReplacementAnnounced
  <2>2. \A t \in Slug : ~Leaving(t) /\ ~Leaving(t)' /\ job' # At("deleted", t)
    BY <2>1, AtFacts DEF Leaving
  <2>3. ServerTyped'
    BY <2>1, <2>2 DEF Withdraw, ServerTyped
  <2>4. SocketTyped' /\ missed' \subseteq Slug
    BY <1>0, <1>6, <2>1, <2>3, PushTyped DEF Withdraw, ServerTyped
  <2> QED
    BY <1>3, <1>4, <2>1, <2>3, <2>4
<1>15. ASSUME ItemFails PROVE Typed'
  <2>1. /\ job # None /\ job' = None /\ word' = [word EXCEPT ![job.show] = "nothing"] /\ Silent
        /\ UNCHANGED <<library, ver, changes, told, mixed>> /\ Untouched
    BY <1>15 DEF ItemFails
  <2>2. \A t \in Slug : ~Leaving(t)' /\ job' # At("deleted", t) /\ (Leaving(t) => t = job.show)
    BY <2>1, AtFacts DEF Leaving, At
  <2>3. ServerTyped'
    BY <2>1, <2>2 DEF ServerTyped
  <2> QED
    BY <1>1, <1>3, <1>4, <2>1, <2>3
<1> QED
  BY <1>7, <1>8, <1>9, <1>10, <1>11, <1>12, <1>13, <1>14, <1>15 DEF ServerNext

\* A message, a loss of the connection and a new one keep the types.
LEMMA SocketNextTyped ==
  ASSUME Typed, SocketNext
  PROVE  Typed'
<1> USE DEF Typed
<1>1. ASSUME NEW s, Overtaken(s), requests' = requests PROVE DetailTyped'
  BY <1>1 DEF Overtaken, DetailTyped, RequestType
<1>2. ASSUME Updated PROVE Typed'
  <2> DEFINE m == Head(channel)
             show == [slug |-> m.show, ver |-> m.ver, details |-> None]
  <2>1. channel # <<>>
    BY <1>2 DEF Updated
  <2>2. m \in MessageType /\ Tail(channel) \in Seq(MessageType)
    BY <2>1, MessageFacts
  <2>3. show \in Entry /\ show.slug = m.show /\ m.show \in Slug
    BY <2>2, BroughtFacts DEF MessageType
  <2>4. /\ shows' = AddShow(shows, show) /\ channel' = Tail(channel) /\ Overtaken(m.show)
        /\ unsaved' = unsaved \cup {m.show} \cup Confused(shows, m.show)
        /\ missed' = IF Lasts(m) THEN missed \ {m.show} ELSE missed \cup {m.show}
        /\ mixed' = mixed \cup Confused(shows, m.show)
        /\ UNCHANGED <<server, connected, gaps, storage, home, fetch, requests>>
    BY <1>2, Zenon DEF Updated
  <2> HIDE DEF m, show
  <2>5. shows' \in Seq(Entry) /\ Confused(shows, m.show) \subseteq Slug
    BY <2>3, <2>4, AddShowType DEF ListTyped
  <2>6. ServerTyped' /\ FetchTyped'
    BY <2>4 DEF ServerTyped, Leaving, FetchTyped, server, fetch
  <2>7. SocketTyped' /\ ListTyped' /\ ExcuseTyped'
    BY <2>2, <2>3, <2>4, <2>5 DEF SocketTyped, ListTyped, ExcuseTyped
  <2>8. DetailTyped'
    BY <1>1, <2>4
  <2> QED
    BY <2>6, <2>7, <2>8
<1>3. ASSUME Removed PROVE Typed'
  <2> DEFINE m == Head(channel)
  <2>1. channel # <<>>
    BY <1>3 DEF Removed
  <2>2. m \in MessageType /\ Tail(channel) \in Seq(MessageType) /\ m.show \in Slug
    BY <2>1, MessageFacts DEF MessageType
  <2>4. /\ shows' = RemoveShow(shows, m.show) /\ channel' = Tail(channel) /\ Overtaken(m.show)
        /\ Save(shows')
        /\ missed' = IF Lasts(m) THEN missed \ {m.show} ELSE missed \cup {m.show}
        /\ mixed' = IF Lasts(m) THEN mixed \ {m.show} ELSE mixed
        /\ UNCHANGED <<server, connected, gaps, home, fetch, requests>>
    BY <1>3, Zenon DEF Removed
  <2> HIDE DEF m
  <2>5. shows' \in Seq(Entry)
    BY <2>2, <2>4, RemoveShowFacts DEF ListTyped
  <2>6. ServerTyped' /\ FetchTyped'
    BY <2>4 DEF ServerTyped, Leaving, FetchTyped, server, fetch
  <2>7. SocketTyped' /\ ListTyped' /\ ExcuseTyped'
    BY <2>2, <2>4, <2>5 DEF SocketTyped, ListTyped, ExcuseTyped, Save
  <2>8. DetailTyped'
    BY <1>1, <2>4
  <2> QED
    BY <2>6, <2>7, <2>8
<1>4. ASSUME ConnectionLost PROVE Typed'
  <2>1. {channel[k].show : k \in DOMAIN channel} \subseteq Slug
    <3>1. \A k \in DOMAIN channel : channel[k] \in MessageType
      BY DEF SocketTyped
    <3>2. \A m \in MessageType : m.show \in Slug
      BY DEF MessageType
    <3> QED
      BY <3>1, <3>2
  <2>2. MaxGaps \in Nat /\ <<>> \in Seq(MessageType)
    BY ParametersHold DEF Parameters
  <2>3. SocketTyped'
    <3>1. channel' \in Seq(MessageType) /\ connected' \in BOOLEAN
      BY <1>4, <2>2, Zenon DEF ConnectionLost
    <3>2. gaps' \in 0 .. MaxGaps
      BY <1>4, <2>2 DEF ConnectionLost, SocketTyped
    <3> QED
      BY <3>1, <3>2 DEF SocketTyped
  <2>4. ServerTyped' /\ ListTyped' /\ FetchTyped' /\ DetailTyped'
    BY <1>4 DEF ConnectionLost, ServerTyped, Leaving, ListTyped, FetchTyped, DetailTyped, server, fetch, detail
  <2>5. ExcuseTyped'
    BY <1>4, <2>1 DEF ConnectionLost, ExcuseTyped
  <2> QED
    BY <2>3, <2>4, <2>5
<1>5. ASSUME Reconnected PROVE Typed'
  BY <1>5 DEF Reconnected, ServerTyped, Leaving, SocketTyped, ListTyped, FetchTyped, DetailTyped,
     ExcuseTyped, server, fetch, detail, excuses
<1> QED
  BY <1>2, <1>3, <1>4, <1>5 DEF SocketNext

\* getShows keeps the types: its pages bring entries.
LEMMA FetchNextTyped ==
  ASSUME Typed, FetchNext
  PROVE  Typed'
<1> USE DEF Typed
<1>0. UNCHANGED <<server, socket, home, detail>>
  BY DEF FetchNext, PageRead, FirstPageArrives, PageArrives, FirstPageFails, PageFails,
     ShowsCommitted
<1>1. ServerTyped' /\ SocketTyped' /\ DetailTyped' /\ home' \in BOOLEAN
  BY <1>0 DEF ServerTyped, Leaving, SocketTyped, ListTyped, DetailTyped, server, socket, detail
<1>2. ASSUME NEW p \in due, PageRead(p) PROVE Typed'
  <2>1. DataOf(p) \in Seq(Entry) /\ PageCount \in Nat
    BY PageFacts DEF ServerTyped
  <2>2. FetchTyped'
    BY <1>2, <2>1 DEF PageRead, FetchTyped, AnswerType
  <2>3. ListTyped' /\ ExcuseTyped'
    BY <1>2 DEF PageRead, ListTyped, ExcuseTyped
  <2> QED
    BY <1>1, <2>2, <2>3
<1>3. ASSUME NEW a \in answers, FirstPageArrives(a) \/ PageArrives(a) PROVE Typed'
  <2>1. a.data \in Seq(Entry) /\ a.total \in Nat
    BY DEF FetchTyped, AnswerType
  <2>2. newShows \o a.data \in Seq(Entry)
    BY <2>1, ConcatFacts DEF FetchTyped
  <2>3. FetchTyped'
    <3>1. 2 .. a.total \subseteq Nat /\ answers \ {a} \subseteq AnswerType
      BY <2>1 DEF FetchTyped
    <3> QED
      BY <1>3, <2>1, <2>2, <3>1, Zenon DEF FirstPageArrives, PageArrives, FetchTyped, PagesAfterFirst
  <2>4. ListTyped' /\ ExcuseTyped'
    BY <1>3 DEF FirstPageArrives, PageArrives, ListTyped, ExcuseTyped, excuses
  <2> QED
    BY <1>1, <2>3, <2>4
<1>4. ASSUME FirstPageFails \/ PageFails PROVE Typed'
  <2>1. FetchTyped'
    <3>1. <<>> \in Seq(Entry) /\ {} \subseteq Nat /\ {} \subseteq AnswerType
      OBVIOUS
    <3> QED
      BY <1>4, <3>1, Zenon DEF FirstPageFails, PageFails, FetchTyped
  <2>2. ListTyped' /\ ExcuseTyped'
    BY <1>4 DEF FirstPageFails, PageFails, ListTyped, ExcuseTyped
  <2> QED
    BY <1>1, <2>1, <2>2
<1>5. ASSUME ShowsCommitted PROVE Typed'
  <2>1. shows' \in Seq(Entry)
    BY <1>5, AddShowsFacts DEF ShowsCommitted, ListTyped, FetchTyped
  <2>2. FetchTyped'
    BY <1>5 DEF ShowsCommitted, FetchTyped
  <2>3. ListTyped' /\ ExcuseTyped'
    BY <1>5, <2>1 DEF ShowsCommitted, Save, ListTyped, ExcuseTyped, excuses
  <2> QED
    BY <1>1, <2>2, <2>3
<1> QED
  BY <1>2, <1>3, <1>4, <1>5 DEF FetchNext

\* What the pages of the client do keeps the types.
LEMMA PageNextTyped ==
  ASSUME Typed, PageNext
  PROVE  Typed'
<1> USE DEF Typed
<1>0. UNCHANGED <<server, socket, fetch>>
  BY DEF PageNext, HomeOpened, ShowAsked, ShowRead, ShowArrives, EpisodesArrive, RequestFails
<1>1. ServerTyped' /\ SocketTyped' /\ FetchTyped'
  BY <1>0 DEF ServerTyped, Leaving, SocketTyped, FetchTyped, server, socket, fetch
<1>2. ASSUME HomeOpened PROVE Typed'
  BY <1>1, <1>2 DEF HomeOpened, ListTyped, DetailTyped, ExcuseTyped, detail
<1>3. ASSUME NEW s \in Visited, NEW what \in {"show", "episodes"}, ShowAsked(what, s) PROVE Typed'
  <2>1. s \in Slug /\ MaxRequests \in Nat
    BY ParametersHold DEF Parameters
  <2> QED
    BY <1>1, <1>3, <2>1 DEF ShowAsked, ListTyped, DetailTyped, ExcuseTyped, RequestType, excuses
<1>4. ASSUME ShowRead PROVE Typed'
  <2>1. DetailTyped'
    BY <1>4 DEF ShowRead, DetailTyped, RequestType, ServerTyped, Leaving
  <2> QED
    BY <1>1, <1>4, <2>1 DEF ShowRead, ListTyped, ExcuseTyped, excuses
<1>5. ASSUME ShowArrives PROVE Typed'
  <2> DEFINE s == request.show
             show == [slug |-> s, ver |-> request.ver, details |-> s]
  <2>1. show \in Entry /\ show.slug = s /\ s \in Slug
    BY <1>5, BroughtFacts DEF ShowArrives, DetailTyped, RequestType
  <2>2. /\ shows' = AddShow(shows, show) /\ request' = None
        /\ unsaved' = unsaved \cup {s} \cup Confused(shows, s)
        /\ missed' = IF request.stale \/ Fetching THEN missed \cup {s} ELSE missed
        /\ mixed' = mixed \cup Confused(shows, s)
        /\ UNCHANGED <<server, socket, storage, home, fetch, requests>>
    BY <1>5, Zenon DEF ShowArrives
  <2> HIDE DEF s, show
  <2>3. shows' \in Seq(Entry) /\ Confused(shows, s) \subseteq Slug
    BY <2>1, <2>2, AddShowType DEF ListTyped
  <2> QED
    BY <1>1, <2>1, <2>2, <2>3 DEF ListTyped, DetailTyped, ExcuseTyped
<1>6. ASSUME EpisodesArrive PROVE Typed'
  <2> DEFINE s == request.show
  <2>1. s \in Slug
    BY <1>6 DEF EpisodesArrive, DetailTyped, RequestType
  <2>2. /\ shows' = AddEpisodes(shows, s) /\ request' = None
        /\ unsaved' = unsaved \cup {s} \cup Confused(shows, s)
        /\ mixed' = mixed \cup Confused(shows, s)
        /\ UNCHANGED <<server, socket, storage, home, fetch, requests, missed>>
    BY <1>6 DEF EpisodesArrive
  <2> HIDE DEF s
  <2>3. shows' \in Seq(Entry)
    BY <2>1, <2>2, AddEpisodesFacts DEF ListTyped
  <2>4. Confused(shows, s) \subseteq Slug
    <3>1. PlaceOf(shows, s) \in 0 .. Len(shows) /\ shows \in Seq(Entry)
      BY <2>1, PlaceFacts DEF ListTyped
    <3>2. \A k \in 1 .. Len(shows) : shows[k].slug \in Slug
      BY <3>1, EntryFacts
    <3> QED
      BY <2>1, <3>1, <3>2 DEF Confused
  <2> QED
    BY <1>1, <2>1, <2>2, <2>3, <2>4 DEF ListTyped, DetailTyped, ExcuseTyped
<1>7. ASSUME RequestFails PROVE Typed'
  BY <1>1, <1>7 DEF RequestFails, ListTyped, DetailTyped, ExcuseTyped, excuses
<1> QED
  BY <1>2, <1>3, <1>4, <1>5, <1>6, <1>7 DEF PageNext

\* So does a step that changes nothing.
LEMMA StutterTyped ==
  ASSUME Typed, UNCHANGED vars
  PROVE  Typed'
BY DEF Typed, ServerTyped, Leaving, SocketTyped, ListTyped, FetchTyped, DetailTyped, ExcuseTyped,
   vars, server, socket, fetch, detail, excuses

\* Every variable of the list of shows, its storage, its messages and its fetch
\* keeps its type, and a show that is being removed is one of the library.
THEOREM TypeCorrect == Spec => []TypeOK
<1>1. Init => Typed
  BY InitTyped
<1>2. Typed /\ [Next]_vars => Typed'
  BY ServerNextTyped, SocketNextTyped, FetchNextTyped, PageNextTyped, StutterTyped DEF Next
<1> QED
  BY <1>1, <1>2, TypedIsTypeOK, PTL DEF Spec
-----------------------------------------------------------------------------
(***************************************************************************)
(* The inductive invariant.                                                *)
(***************************************************************************)

\* A show that the list must have, and one that it must not have.
Due(s) == s \in library /\ word[s] = "there"
Over(s) == (s \notin library \/ Leaving(s)) /\ word[s] = "gone"
Told(s) == \E k \in DOMAIN channel : channel[k].show = s

\* The list says of the show what the server told.
Current(list, s) ==
  /\ Due(s) => About(list, s) # {}
  /\ Over(s) => About(list, s) = {}
  /\ \A e \in About(list, s) : e.ver >= told[s]

\* The last message about a show that is on its way tells the truth.
LastWord(k) ==
  /\ k \in DOMAIN channel /\ ~channel[k].late
  /\ \A j \in DOMAIN channel : j > k => channel[j].show # channel[k].show
Truthful(m) ==
  /\ m.event = "updated" => ~Over(m.show) /\ m.ver >= told[m.show]
  /\ m.event = "removed" => ~Due(m.show)
LastInv ==
  /\ ~connected => channel = <<>>
  /\ \A k \in DOMAIN channel : LastWord(k) => Truthful(channel[k])

\* What the storage has is what the list has, of the shows that did not change since.
SavedInv ==
  storage # None => \A s \in Slug \ mixed :
    /\ Fetching \/ s \notin unsaved => Clean(storage, s)
    /\ s \notin unsaved => About(storage, s) = About(shows, s)

CleanInv == \A s \in Slug \ mixed : Clean(shows, s)

\* Once the library was fetched, a show that the list does not have right is one
\* about which a message is on its way.
ListInv == ~Fetching => \A s \in Slug \ (missed \cup mixed) : Told(s) \/ Current(shows, s)

FirstInv ==
  /\ ~Fetching => due = {} /\ answers = {} /\ newShows = <<>>
  /\ boot = "first" => /\ newShows = <<>>
                       /\ \/ due = {1} /\ answers = {}
                          \/ due = {} /\ \E a \in answers : answers = {a} /\ a.page = 1

\* Each page is asked for, on its way or collected, and each of its shows is there once.
PagesOf(s) ==
  /\ \A a \in answers : /\ a.page \notin due
                        /\ Clean(a.data, s)
                        /\ a.total = PageCount
                        /\ About(a.data, s) # {} => s \in library /\ a.page = PageNo(s)
  /\ \A a, b \in answers : a.page = b.page => a = b
  /\ Clean(newShows, s)
  /\ About(newShows, s) # {} => /\ s \in library /\ PageNo(s) \notin due
                                /\ \A a \in answers : a.page # PageNo(s)
PagesInv == \A s \in Slug \ mixed : PagesOf(s)

\* The page of a show is still to be read, or the show is in an answer or collected.
Coming(s) ==
  \/ PageNo(s) \in due
  \/ boot = "first" /\ PageNo(s) # 1
  \/ \E a \in answers : About(a.data, s) # {}
  \/ About(newShows, s) # {}
ComingInv == Fetching => \A s \in library \ (missed \cup mixed) : Coming(s)

\* What was read of a show holds, or a message about the show is on its way.
Fresh(data, s) ==
  About(data, s) # {} => Told(s) \/ (~Over(s) /\ \A e \in About(data, s) : e.ver >= told[s])
NewInv ==
  \A s \in Slug \ (missed \cup mixed) :
    (\A a \in answers : Fresh(a.data, s)) /\ Fresh(newShows, s)

\* The same for the answer to a request for a show.
ReqInv ==
  request # None =>
    (/\ request.what = "show" /\ request.ver # None
     /\ ~request.stale /\ request.show \notin missed
     => Told(request.show) \/ (~Over(request.show) /\ request.ver >= told[request.show]))

IInv ==
  /\ Typed /\ LastInv /\ SavedInv /\ CleanInv /\ ListInv /\ FirstInv
  /\ PagesInv /\ ComingInv /\ NewInv /\ ReqInv

\* The parts of the inductive invariant.
LEMMA IInvParts ==
  ASSUME IInv
  PROVE  /\ Typed /\ LastInv /\ SavedInv /\ CleanInv /\ ListInv /\ FirstInv
         /\ PagesInv /\ ComingInv /\ NewInv /\ ReqInv
BY DEF IInv

-----------------------------------------------------------------------------
(***************************************************************************)
(* What keeps a part of the invariant.                                     *)
(***************************************************************************)

\* An empty list says nothing, of any show.
LEMMA EmptyList ==
  /\ <<>> \in Seq(Entry)
  /\ \A s : About(<<>>, s) = {} /\ Clean(<<>>, s)
<1>1. \A s : Places(<<>>, s) = {}
  BY DEF Places
<1> QED
  BY <1>1 DEF About, Clean, Once, OwnDetails

\* The pages change with the library only.
LEMMA SamePages ==
  ASSUME UNCHANGED library
  PROVE  PageCount' = PageCount /\ \A s : PageNo(s)' = PageNo(s)
<1>1. InLibrary' = InLibrary
  BY DEF InLibrary
<1> QED
  BY <1>1 DEF PageCount, PageNo, RankOf

\* A part of the invariant stays true when what it speaks of stays.
LEMMA Kept ==
  ASSUME mixed \subseteq mixed'
  PROVE  /\ LastInv /\ UNCHANGED <<server, connected, channel>> => LastInv'
         /\ SavedInv /\ UNCHANGED <<storage, shows, boot, unsaved>> => SavedInv'
         /\ CleanInv /\ UNCHANGED shows => CleanInv'
         /\ FirstInv /\ UNCHANGED fetch => FirstInv'
         /\ PagesInv /\ UNCHANGED <<library, fetch>> => PagesInv'
         /\ ComingInv /\ UNCHANGED <<library, fetch>> /\ missed \subseteq missed' => ComingInv'
<1>1. LastInv /\ UNCHANGED <<server, connected, channel>> => LastInv'
  BY DEF LastInv, LastWord, Truthful, Due, Over, Leaving, server
<1>2. SavedInv /\ UNCHANGED <<storage, shows, boot, unsaved>> => SavedInv'
  BY DEF SavedInv, Fetching
<1>3. CleanInv /\ UNCHANGED shows => CleanInv'
  BY DEF CleanInv
<1>4. FirstInv /\ UNCHANGED fetch => FirstInv'
  BY DEF FirstInv, Fetching, fetch
<1>5. PagesInv /\ UNCHANGED <<library, fetch>> => PagesInv'
  BY SamePages DEF PagesInv, PagesOf, fetch
<1>6. ComingInv /\ UNCHANGED <<library, fetch>> /\ missed \subseteq missed' => ComingInv'
  BY SamePages DEF ComingInv, Coming, Fetching, fetch
<1> QED
  BY <1>1, <1>2, <1>3, <1>4, <1>5, <1>6

\* Without a fetch there is nothing to say about one.
LEMMA Idle ==
  ASSUME ~Fetching', FirstInv'
  PROVE  PagesInv' /\ ComingInv' /\ NewInv'
<1>1. due' = {} /\ answers' = {} /\ newShows' = <<>>
  BY DEF FirstInv
<1>2. PagesInv'
  BY <1>1, EmptyList DEF PagesInv, PagesOf
<1>3. NewInv'
  BY <1>1, EmptyList DEF NewInv, Fresh
<1> QED
  BY <1>2, <1>3 DEF ComingInv

\* The same before anything was read.
LEMMA Unread ==
  ASSUME boot' = "first", due' = {1}, answers' = {}, newShows' = <<>>
  PROVE  PagesInv' /\ ComingInv' /\ NewInv'
<1>1. PagesInv'
  BY EmptyList DEF PagesInv, PagesOf
<1>2. NewInv'
  BY EmptyList DEF NewInv, Fresh
<1>3. ComingInv'
  BY DEF ComingInv, Coming
<1> QED
  BY <1>1, <1>2, <1>3

\* What was told of a show, and what the list owes it, does not grow.
Held(s) == (Due(s)' => Due(s)) /\ (Over(s)' => Over(s)) /\ told'[s] = told[s]

\* What a step leaves to a show: an excuse, a message on its way, or all as it was.
Steady(s) ==
  \/ s \in missed' \/ Told(s)'
  \/ s \notin missed /\ ~Told(s) /\ Held(s)

\* If every show is steady, the parts that excuse a show with a message on its way
\* stay true.
LEMMA SteadyStep ==
  ASSUME Typed, Typed', mixed \subseteq mixed', \A s \in Slug : Steady(s)
  PROVE  /\ ListInv /\ UNCHANGED <<boot, shows>> => ListInv'
         /\ NewInv /\ UNCHANGED <<answers, newShows>> => NewInv'
         /\ ReqInv /\ UNCHANGED request => ReqInv'
<1>1. ASSUME ListInv, UNCHANGED <<boot, shows>>, ~Fetching', NEW s \in Slug \ (missed' \cup mixed')
      PROVE  Told(s)' \/ Current(shows, s)'
  <2> SUFFICES ASSUME ~Told(s)' PROVE Current(shows, s)'
    OBVIOUS
  <2>1. s \notin missed /\ ~Told(s) /\ Held(s)
    BY DEF Steady
  <2>2. Current(shows, s)
    BY <1>1, <2>1 DEF ListInv, Fetching
  <2> QED
    BY <1>1, <2>1, <2>2 DEF Current, Held
<1>2. ASSUME NEW data, NEW s \in Slug \ (missed' \cup mixed'), Fresh(data, s)
      PROVE  /\ s \in Slug \ (missed \cup mixed) \/ Told(s)'
             /\ About(data, s) # {} => Told(s)' \/ (~Over(s)' /\ \A e \in About(data, s) : e.ver >= told'[s])
  BY <1>2 DEF Fresh, Steady, Held
<1>3. ASSUME NewInv, UNCHANGED <<answers, newShows>>, NEW s \in Slug \ (missed' \cup mixed')
      PROVE  (\A a \in answers' : Fresh(a.data, s)') /\ Fresh(newShows, s)'
  <2>1. CASE Told(s)'
    BY <2>1 DEF Fresh
  <2>2. CASE ~Told(s)'
    <3>1. s \in Slug \ (missed \cup mixed)
      BY <2>2 DEF Steady
    <3>2. (\A a \in answers : Fresh(a.data, s)) /\ Fresh(newShows, s)
      BY <1>3, <3>1 DEF NewInv
    <3> QED
      BY <1>2, <1>3, <3>2 DEF Fresh
  <2> QED
    BY <2>1, <2>2
<1>4. ASSUME ReqInv, UNCHANGED request PROVE ReqInv'
  <2>1. request # None => request.show \in Slug
    BY DEF Typed, DetailTyped, RequestType
  <2> SUFFICES ASSUME NEW r \in Slug, request # None, request.show = r, request.what = "show",
                      request.ver # None, ~request.stale, r \notin missed', ~Told(r)'
               PROVE  ~Over(r)' /\ request.ver >= told'[r]
    BY <1>4, <2>1 DEF ReqInv, Told, Over, Leaving, At
  <2>2. r \notin missed /\ ~Told(r) /\ Held(r)
    BY DEF Steady
  <2> QED
    BY <1>4, <2>2 DEF ReqInv, Held
<1> QED
  BY <1>1, <1>3, <1>4 DEF ListInv, NewInv

\* A step of the client leaves what the server told as it is.
LEMMA ServerHeld ==
  ASSUME UNCHANGED <<library, job, word, told>>, NEW s
  PROVE  Held(s) /\ (Due(s)' <=> Due(s)) /\ (Over(s)' <=> Over(s)) /\ (Leaving(s)' <=> Leaving(s))
BY DEF Held, Due, Over, Leaving

\* One that takes no message leaves every show steady.
LEMMA NothingTold ==
  ASSUME UNCHANGED <<server, channel>>, missed \subseteq missed', NEW s \in Slug
  PROVE  Steady(s)
<1>1. Held(s)
  BY ServerHeld DEF server
<1> QED
  BY <1>1 DEF Steady, Told

\* A message goes to the end of the channel, or the client misses it.
LEMMA PushFacts ==
  ASSUME Typed, LastInv, NEW s \in Slug, NEW event \in Events, NEW late \in BOOLEAN,
         Push(event, s, late), UNCHANGED connected,
         \A t \in Slug \ {s} : Held(t),
         ~late => (event = "updated" => ~Over(s)' /\ ver'[s] >= told'[s]) /\ (event = "removed" => ~Due(s)')
  PROVE  LastInv' /\ missed \subseteq missed' /\ \A t \in Slug : Steady(t)
<1> DEFINE m == Message(event, s, late)
<1>1. m.event = event /\ m.show = s /\ m.ver = ver'[s] /\ m.late = late
  BY DEF Message
<1>2. channel \in Seq(MessageType) /\ DOMAIN channel = 1 .. Len(channel) /\ Len(channel) \in Nat
  BY DEF Typed, SocketTyped
<1>3. \A k \in DOMAIN channel : channel[k].show \in Slug
  BY <1>2, MessageTypeFacts
<1> HIDE DEF m
<1>4. CASE connected
  <2>1. channel' = Append(channel, m) /\ missed' = missed
    BY <1>4 DEF Push, m
  <2>2. /\ DOMAIN channel' = 1 .. Len(channel) + 1 /\ channel'[Len(channel) + 1] = m
        /\ \A k \in DOMAIN channel : channel'[k] = channel[k]
    BY <1>2, <2>1
  <2>3. Told(s)' /\ \A t : Told(t) => Told(t)'
    BY <1>1, <1>2, <2>2 DEF Told
  <2>4. ASSUME NEW k \in DOMAIN channel', LastWord(k)' PROVE Truthful(channel[k])'
    <3>1. CASE k = Len(channel) + 1
      BY <1>1, <2>2, <2>4, <3>1 DEF LastWord, Truthful
    <3>2. CASE k # Len(channel) + 1
      <4>1. k \in DOMAIN channel /\ channel'[k] = channel[k] /\ channel[k].show # s
        BY <1>1, <1>2, <2>2, <2>4, <3>2 DEF LastWord
      <4>2. LastWord(k)
        BY <1>2, <2>2, <2>4, <4>1 DEF LastWord
      <4>3. Truthful(channel[k]) /\ Held(channel[k].show)
        BY <1>3, <4>1, <4>2 DEF LastInv
      <4> QED
        BY <4>1, <4>3 DEF Truthful, Held
    <3> QED
      BY <3>1, <3>2
  <2>5. LastInv'
    BY <1>4, <2>4 DEF LastInv
  <2>6. ASSUME NEW t \in Slug PROVE Steady(t)
    BY <2>1, <2>3 DEF Steady
  <2> QED
    BY <2>1, <2>5, <2>6
<1>5. CASE ~connected
  <2>1. missed' = missed \cup {s} /\ channel' = channel /\ channel = <<>>
    BY <1>5 DEF Push, LastInv
  <2>2. DOMAIN channel' = {}
    BY <2>1
  <2>3. LastInv'
    BY <2>1, <2>2 DEF LastInv
  <2>4. ASSUME NEW t \in Slug PROVE Steady(t)
    BY <2>1, <2>2 DEF Steady, Told
  <2> QED
    BY <2>1, <2>3, <2>4
<1> QED
  BY <1>4, <1>5 DEF Typed, SocketTyped

\* A change of which nothing is told.
LEMMA SilentFacts ==
  ASSUME Typed, LastInv, Silent, UNCHANGED connected, \A t \in Slug : Held(t)
  PROVE  LastInv' /\ missed \subseteq missed' /\ \A t \in Slug : Steady(t)
<1>1. channel' = channel /\ missed' = missed
  BY DEF Silent
<1>2. \A t \in Slug : Steady(t)
  BY <1>1 DEF Steady, Told
<1>3. ASSUME NEW k \in DOMAIN channel', LastWord(k)' PROVE Truthful(channel[k])'
  <2>1. LastWord(k) /\ channel[k].show \in Slug
    BY <1>1, <1>3, MessageTypeFacts DEF LastWord, Typed, SocketTyped
  <2>2. Truthful(channel[k]) /\ Held(channel[k].show)
    BY <2>1 DEF LastInv, LastWord
  <2> QED
    BY <1>1, <2>2 DEF Truthful, Held
<1> QED
  BY <1>1, <1>2, <1>3 DEF LastInv

\* The client takes the first message.
LEMMA TakenFacts ==
  ASSUME Typed, LastInv, channel # <<>>, channel' = Tail(channel),
         UNCHANGED <<server, connected>>, NEW m, m = Head(channel)
  PROVE  /\ LastInv'
         /\ m \in MessageType /\ m.show \in Slug /\ Told(m.show)
         /\ \A t : t # m.show => (Told(t)' <=> Told(t))
         /\ ~m.late /\ ~Told(m.show)' => Truthful(m)
<1>1. /\ m \in MessageType /\ m = channel[1] /\ 1 \in DOMAIN channel
      /\ Len(channel) \in Nat \ {0} /\ DOMAIN channel = 1 .. Len(channel)
      /\ DOMAIN channel' = 1 .. Len(channel) - 1
      /\ \A k \in DOMAIN channel' : channel'[k] = channel[k + 1]
  BY MessageFacts DEF Typed
<1>2. m.show \in Slug
  BY <1>1 DEF MessageType
<1>3. ASSUME NEW k \in DOMAIN channel, k # 1
      PROVE  k - 1 \in DOMAIN channel' /\ channel'[k - 1] = channel[k]
  <2>1. k - 1 \in 1 .. Len(channel) - 1 /\ (k - 1) + 1 = k
    BY <1>1, <1>3
  <2> QED
    BY <1>1, <2>1
<1>4. ASSUME NEW t, t # m.show PROVE Told(t)' <=> Told(t)
  <2>1. Told(t) => Told(t)'
    BY <1>1, <1>3, <1>4 DEF Told
  <2>2. ASSUME NEW k \in DOMAIN channel', channel'[k].show = t PROVE Told(t)
    <3>1. k + 1 \in DOMAIN channel
      BY <1>1
    <3> QED
      BY <1>1, <2>2, <3>1 DEF Told
  <2> QED
    BY <2>1, <2>2 DEF Told
<1>5. ASSUME ~m.late, ~Told(m.show)' PROVE Truthful(m)
  <2>1. ASSUME NEW j \in DOMAIN channel, j > 1 PROVE channel[j].show # m.show
    <3>1. j - 1 \in DOMAIN channel' /\ channel'[j - 1] = channel[j]
      BY <1>3, <2>1
    <3> QED
      BY <1>5, <3>1 DEF Told
  <2>2. LastWord(1)
    BY <1>1, <1>5, <2>1 DEF LastWord
  <2> QED
    BY <1>1, <2>2 DEF LastInv
<1>6. ASSUME NEW k \in DOMAIN channel', LastWord(k)' PROVE Truthful(channel[k])'
  <2>1. k + 1 \in DOMAIN channel /\ channel'[k] = channel[k + 1]
    BY <1>1
  <2>2. ASSUME NEW j \in DOMAIN channel, j > k + 1 PROVE channel[j].show # channel[k + 1].show
    <3>1. j - 1 \in DOMAIN channel' /\ channel'[j - 1] = channel[j] /\ j - 1 > k
      BY <1>1, <1>3, <2>2
    <3> QED
      BY <1>6, <2>1, <3>1 DEF LastWord
  <2>3. LastWord(k + 1)
    BY <1>6, <2>1, <2>2 DEF LastWord
  <2>4. Truthful(channel[k + 1])
    BY <2>1, <2>3 DEF LastInv
  <2> QED
    BY <2>1, <2>4, ServerHeld DEF Truthful, server
<1>7. LastInv'
  BY <1>6 DEF LastInv
<1>8. Told(m.show)
  BY <1>1 DEF Told
<1> QED
  BY <1>1, <1>2, <1>4, <1>5, <1>7, <1>8

-----------------------------------------------------------------------------
(***************************************************************************)
(* The server.                                                             *)
(***************************************************************************)

\* The pages of a library that changed are excused if some of them were read.
LEMMA LibraryChanges ==
  ASSUME Typed', FirstInv, FirstInv', UNCHANGED fetch,
         mixed' = mixed \cup (IF Fetching THEN Shifts ELSE {})
  PROVE  PagesInv' /\ ComingInv'
<1>1. UNCHANGED <<boot, due, answers, newShows>>
  BY DEF fetch
<1>2. CASE ~Fetching
  <2>1. ~Fetching'
    BY <1>1, <1>2 DEF Fetching
  <2> QED
    BY <2>1, Idle
<1>3. CASE Fetching /\ ~(boot = "pages" \/ answers # {})
  <2>1. boot = "first" /\ answers = {}
    BY <1>3 DEF Fetching
  <2>2. due = {1} /\ newShows = <<>>
    BY <2>1 DEF FirstInv
  <2> QED
    BY <1>1, <2>1, <2>2, Unread
<1>4. CASE Fetching /\ (boot = "pages" \/ answers # {})
  <2>1. Slug \ mixed' = {}
    BY <1>4 DEF Shifts
  <2>2. library' \ (missed' \cup mixed') = {}
    BY <2>1 DEF Typed, ServerTyped
  <2> QED
    BY <2>1, <2>2 DEF PagesInv, ComingInv
<1> QED
  BY <1>2, <1>3, <1>4

\* A change of the library: what is told of the show is on its way, or missed.
LEMMA ServerStep ==
  ASSUME IInv, ServerNext
  PROVE  IInv'
<1>0. /\ Typed /\ LastInv /\ SavedInv /\ CleanInv /\ ListInv /\ FirstInv
      /\ PagesInv /\ ComingInv /\ NewInv /\ ReqInv
  BY IInvParts
<1>1. Typed'
  BY <1>0, ServerNextTyped
<1>2. /\ Untouched /\ (Shifted \/ (library' = library /\ mixed' = mixed))
  BY DEF ServerNext, ShowAppended, ShowAnnounced, ShowUpdated, ShowChanged, RemovalAnnounced,
         ShowDeleted, ShowReplaced, ReplacementAnnounced, ItemFails
<1>3. mixed \subseteq mixed' /\ UNCHANGED <<connected, shows, storage, boot, unsaved, fetch, answers, newShows, request>>
  BY <1>2 DEF Untouched, Shifted, fetch, detail
<1>4. SavedInv' /\ CleanInv' /\ FirstInv'
  BY <1>0, <1>2, <1>3, Kept
<1>5. LastInv' /\ missed \subseteq missed' /\ \A s \in Slug : Steady(s)
  <2> DEFINE Goal == LastInv' /\ missed \subseteq missed' /\ \A t \in Slug : Steady(t)
  <2> USE <1>0, <1>1, <1>3 DEF Typed, ServerTyped
  <2>0. {"updated", "removed"} \subseteq Events /\ FALSE \in BOOLEAN /\ \A s : Leaving(s) \in BOOLEAN
    BY DEF Events, Leaving
  <2>1. ASSUME NEW s \in Slug, ShowAppended(s) PROVE Goal
    <3>1. /\ job = None /\ job' = At("adding", s) /\ library' = library \cup {s} /\ Silent
          /\ word' = [word EXCEPT ![s] = "nothing"] /\ told' = told
      BY <2>1 DEF ShowAppended
    <3>2. \A t \in Slug : ~Leaving(t)'
      BY <3>1, AtFacts DEF Leaving
    <3>3. \A t \in Slug : Held(t)
      BY <3>1, <3>2 DEF Held, Due, Over
    <3> QED
      BY <3>1, <3>3, SilentFacts
  <2>2. ASSUME NEW s \in Slug, ShowAnnounced(s) PROVE Goal
    <3>1. /\ job = At("adding", s) /\ job' = None /\ Announce(s) /\ UNCHANGED <<library, ver>>
      BY <2>2 DEF ShowAnnounced
    <3>2. \A t \in Slug : ~Leaving(t) /\ ~Leaving(t)'
      BY <3>1, AtFacts DEF Leaving
    <3>3. /\ Push("updated", s, Leaving(s))
          /\ word' = [word EXCEPT ![s] = "there"] /\ told' = [told EXCEPT ![s] = ver'[s]]
      BY <3>1, <3>2 DEF Announce
    <3>4. \A t \in Slug \ {s} : Held(t)
      BY <3>1, <3>2, <3>3 DEF Held, Due, Over
    <3>5. ~Over(s)' /\ ver'[s] >= told'[s]
      BY <3>3 DEF Over
    <3> QED
      BY <2>0, <3>3, <3>4, <3>5, PushFacts
  <2>3. ASSUME NEW s \in Slug, ShowUpdated(s) PROVE Goal
    <3>1. Announce(s) /\ UNCHANGED <<library, job>>
      BY <2>3 DEF ShowUpdated
    <3>2. \A t \in Slug : Leaving(t)' <=> Leaving(t)
      BY <3>1 DEF Leaving
    <3>3. Push("updated", s, Leaving(s))
      BY <3>1 DEF Announce
    <3>4. \A t \in Slug \ {s} : Held(t)
      BY <3>1, <3>2 DEF Announce, Held, Due, Over
    <3>5. ~Leaving(s) => ~Over(s)' /\ ver'[s] >= told'[s]
      BY <3>1 DEF Announce, Over
    <3> QED
      BY <2>0, <3>3, <3>4, <3>5, PushFacts
  <2>4. ASSUME NEW s \in Slug, ShowChanged(s) PROVE Goal
    <3>1. Silent /\ UNCHANGED <<library, job, word, told>>
      BY <2>4 DEF ShowChanged
    <3>2. \A t \in Slug : Held(t)
      BY <3>1, ServerHeld
    <3> QED
      BY <3>1, <3>2, SilentFacts
  <2>5. ASSUME NEW s \in Slug, RemovalAnnounced(s) PROVE Goal
    <3>1. job = None /\ job' = At("removing", s) /\ library' = library /\ Withdraw(s)
      BY <2>5 DEF RemovalAnnounced
    <3>2. \A t \in Slug : ~Leaving(t) /\ (Leaving(t)' => t = s)
      BY <3>1, AtFacts DEF Leaving
    <3>3. Push("removed", s, FALSE) /\ word' = [word EXCEPT ![s] = "gone"] /\ told' = told
      BY <3>1 DEF Withdraw
    <3>4. \A t \in Slug \ {s} : Held(t)
      BY <3>1, <3>2, <3>3 DEF Held, Due, Over
    <3>5. ~Due(s)'
      BY <3>3 DEF Due
    <3> QED
      BY <2>0, <3>3, <3>4, <3>5, PushFacts
  <2>6. ASSUME NEW s \in Slug, ShowDeleted(s) PROVE Goal
    <3>1. Leaving(s) /\ library' = library \ {s} /\ job' = None /\ Silent /\ UNCHANGED <<word, told>>
      BY <2>6 DEF ShowDeleted
    <3>2. \A t \in Slug : ~Leaving(t)'
      BY <3>1, AtFacts DEF Leaving
    <3>3. \A t \in Slug : Held(t)
      BY <3>1, <3>2 DEF Held, Due, Over
    <3> QED
      BY <3>1, <3>3, SilentFacts
  <2>7. ASSUME NEW s \in Slug, ShowReplaced(s) PROVE Goal
    <3>1. /\ s \in library /\ job = None /\ job' = At("deleted", s) /\ library' = library \ {s} /\ Silent
          /\ UNCHANGED <<word, told>>
      BY <2>7 DEF ShowReplaced
    <3>2. \A t \in Slug : ~Leaving(t) /\ ~Leaving(t)'
      BY <3>1, AtFacts DEF Leaving
    <3>3. \A t \in Slug : Held(t)
      BY <3>1, <3>2 DEF Held, Due, Over
    <3> QED
      BY <3>1, <3>3, SilentFacts
  <2>8. ASSUME NEW s \in Slug, ReplacementAnnounced(s) PROVE Goal
    <3>1. job = At("deleted", s) /\ job' = None /\ library' = library /\ Withdraw(s)
      BY <2>8 DEF ReplacementAnnounced
    <3>2. \A t \in Slug : ~Leaving(t) /\ ~Leaving(t)'
      BY <3>1, AtFacts DEF Leaving
    <3>3. Push("removed", s, FALSE) /\ word' = [word EXCEPT ![s] = "gone"] /\ told' = told
      BY <3>1 DEF Withdraw
    <3>4. \A t \in Slug \ {s} : Held(t)
      BY <3>1, <3>2, <3>3 DEF Held, Due, Over
    <3>5. ~Due(s)'
      BY <3>3 DEF Due
    <3> QED
      BY <2>0, <3>3, <3>4, <3>5, PushFacts
  <2>9. ASSUME ItemFails PROVE Goal
    <3>1. /\ job # None /\ job' = None /\ word' = [word EXCEPT ![job.show] = "nothing"] /\ Silent
          /\ UNCHANGED <<library, told>>
      BY <2>9 DEF ItemFails
    <3>2. \A t \in Slug : ~Leaving(t)' /\ (Leaving(t) => t = job.show)
      BY <3>1, AtFacts DEF Leaving, At
    <3>3. \A t \in Slug : Held(t)
      BY <3>1, <3>2 DEF Held, Due, Over
    <3> QED
      BY <3>1, <3>3, SilentFacts
  <2> QED
    BY <2>1, <2>2, <2>3, <2>4, <2>5, <2>6, <2>7, <2>8, <2>9 DEF ServerNext
<1>6. ListInv' /\ NewInv' /\ ReqInv'
  BY <1>0, <1>1, <1>3, <1>5, SteadyStep
<1>7. PagesInv' /\ ComingInv'
  <2>1. CASE library' = library /\ mixed' = mixed
    BY <1>0, <1>3, <1>5, <2>1, Kept
  <2>2. CASE Shifted
    BY <1>0, <1>1, <1>3, <1>4, <2>2, LibraryChanges DEF Shifted
  <2> QED
    BY <1>2, <2>1, <2>2
<1> QED
  BY <1>1, <1>4, <1>5, <1>6, <1>7 DEF IInv

-----------------------------------------------------------------------------
(***************************************************************************)
(* The websocket.                                                          *)
(***************************************************************************)

\* A show that is not mixed up by an ADD_SHOW is found in its place.
LEMMA ConfusedSelf ==
  ASSUME NEW list, NEW s, s \notin Confused(list, s)
  PROVE  Confused(list, s) = {}
BY DEF Confused

\* The answer to a request that a message has not overtaken is about another show.
LEMMA OvertakenFacts ==
  ASSUME Typed, NEW s, Overtaken(s), request' # None
  PROVE  /\ request # None
         /\ request'.show = request.show /\ request'.what = request.what /\ request'.ver = request.ver
         /\ ~request'.stale /\ request'.what = "show" => ~request.stale /\ request.show # s
<1>1. CASE request # None /\ request.show = s /\ request.what = "show"
  <2>1. request' = [request EXCEPT !.stale = TRUE] /\ request \in RequestType
    BY <1>1 DEF Overtaken, Typed, DetailTyped
  <2> QED
    BY <1>1, <2>1 DEF RequestType
<1>2. CASE ~(request # None /\ request.show = s /\ request.what = "show")
  BY <1>2 DEF Overtaken
<1> QED
  BY <1>1, <1>2

\* A message was taken: the messages that are left tell of the other shows what
\* they told, the fetch does not go on, and an answer about the show is stale.
LEMMA MessageStep ==
  ASSUME IInv, Typed', channel # <<>>, channel' = Tail(channel), NEW m, m = Head(channel),
         Overtaken(m.show),
         UNCHANGED <<server, connected, fetch>>,
         missed' = IF Lasts(m) THEN missed \ {m.show} ELSE missed \cup {m.show},
         mixed \ {m.show} \subseteq mixed', Fetching => mixed \subseteq mixed'
  PROVE  LastInv' /\ FirstInv' /\ PagesInv' /\ ComingInv' /\ NewInv' /\ ReqInv'
<1>0. /\ Typed /\ LastInv /\ SavedInv /\ CleanInv /\ ListInv /\ FirstInv
      /\ PagesInv /\ ComingInv /\ NewInv /\ ReqInv
  BY IInvParts
<1>1. /\ LastInv' /\ m.show \in Slug
      /\ \A t : t # m.show => (Told(t)' <=> Told(t))
  BY <1>0, TakenFacts
<1>2. UNCHANGED <<library, ver, job, word, told, boot, due, answers, newShows>>
  BY DEF server, fetch
<1>3. FirstInv'
  BY <1>0, <1>2 DEF FirstInv, Fetching
<1>4. \A t : Held(t) /\ (Over(t)' <=> Over(t))
  BY <1>2, ServerHeld
<1>5. ReqInv'
  <2> SUFFICES ASSUME NEW r \in Slug, request' # None, request'.show = r, request'.what = "show",
                      request'.ver # None, ~request'.stale, r \notin missed', ~Told(r)'
               PROVE  ~Over(r)' /\ request'.ver >= told'[r]
    <3>1. request' # None => request'.show \in Slug
      BY DEF Typed, DetailTyped, RequestType
    <3> QED
      BY <3>1 DEF ReqInv, Told, Over, Leaving
  <2>1. /\ request # None /\ request.show = r /\ request.what = "show"
        /\ request.ver = request'.ver /\ ~request.stale /\ r # m.show
    BY <1>0, OvertakenFacts
  <2>2. r \notin missed /\ ~Told(r)
    BY <1>1, <2>1
  <2> QED
    BY <1>0, <1>2, <1>4, <2>1, <2>2 DEF ReqInv
<1>6. PagesInv' /\ ComingInv' /\ NewInv'
  <2>1. CASE ~Fetching
    <3>1. ~Fetching'
      BY <1>2, <2>1 DEF Fetching
    <3> QED
      BY <1>3, <3>1, Idle
  <2>2. CASE Fetching
    <3>1. mixed \subseteq mixed' /\ missed \subseteq missed' /\ m.show \in missed'
      BY <2>2 DEF Lasts
    <3>2. PagesInv' /\ ComingInv'
      BY <1>0, <1>2, <3>1, Kept DEF fetch
    <3>3. \A t \in Slug : Steady(t)
      BY <1>1, <1>2, <1>4, <3>1 DEF Steady
    <3>4. NewInv'
      BY <1>0, <1>2, <3>1, <3>3, SteadyStep
    <3> QED
      BY <3>2, <3>4
  <2> QED
    BY <2>1, <2>2
<1> QED
  BY <1>1, <1>3, <1>5, <1>6

\* A showAdded or showUpdated message: ADD_SHOW.
LEMMA UpdatedStep ==
  ASSUME IInv, Updated
  PROVE  IInv'
<1>0. /\ Typed /\ LastInv /\ SavedInv /\ CleanInv /\ ListInv /\ FirstInv
      /\ PagesInv /\ ComingInv /\ NewInv /\ ReqInv
  BY IInvParts
<1>1. Typed'
  BY <1>0, SocketNextTyped DEF SocketNext
<1>2. PICK m : m = Head(channel)
  OBVIOUS
<1> DEFINE show == [slug |-> m.show, ver |-> m.ver, details |-> None]
<1>3. /\ channel # <<>> /\ m.event = "updated" /\ channel' = Tail(channel)
      /\ shows' = AddShow(shows, show)
      /\ unsaved' = unsaved \cup {m.show} \cup Confused(shows, m.show)
      /\ missed' = IF Lasts(m) THEN missed \ {m.show} ELSE missed \cup {m.show}
      /\ mixed' = mixed \cup Confused(shows, m.show)
      /\ Overtaken(m.show)
      /\ UNCHANGED <<server, connected, gaps, storage, home, fetch, requests>>
  BY <1>2, Zenon DEF Updated
<1>4. /\ LastInv' /\ m \in MessageType /\ m.show \in Slug
      /\ \A t : t # m.show => (Told(t)' <=> Told(t))
      /\ ~m.late /\ ~Told(m.show)' => Truthful(m)
  BY <1>0, <1>2, <1>3, TakenFacts
<1>5. show \in Entry /\ show.slug = m.show /\ show.ver = m.ver /\ show.details = None
  BY <1>4, BroughtFacts
<1>6. LastInv' /\ FirstInv' /\ PagesInv' /\ ComingInv' /\ NewInv' /\ ReqInv'
  BY <1>1, <1>2, <1>3, MessageStep
<1> HIDE DEF show
<1>7. shows \in Seq(Entry)
  BY <1>0 DEF Typed, ListTyped
<1>8. ASSUME NEW s \in Slug \ mixed', s # m.show
      PROVE  About(shows', s) = About(shows, s) /\ Clean(shows', s)
  <2>1. s \notin Confused(shows, m.show) /\ s \notin mixed
    BY <1>3, <1>8
  <2>2. About(shows', s) = About(shows, s) /\ (Once(shows, s) => Once(shows', s))
    BY <1>3, <1>5, <1>7, <1>8, <2>1, AddShowOther
  <2> QED
    BY <1>0, <2>1, <2>2 DEF CleanInv, Clean, OwnDetails
<1>9. ASSUME m.show \notin mixed'
      PROVE  /\ Clean(shows', m.show) /\ About(shows', m.show) # {}
             /\ \A e \in About(shows', m.show) : e.ver = m.ver
  <2>1. Confused(shows, m.show) = {} /\ m.show \notin mixed
    BY <1>3, <1>9, ConfusedSelf
  <2>2. Clean(shows, m.show)
    BY <1>0, <1>4, <2>1 DEF CleanInv
  <2> QED
    BY <1>3, <1>5, <1>7, <2>1, <2>2, AddShowSelf
<1>10. CleanInv'
  BY <1>8, <1>9 DEF CleanInv
<1>11. SavedInv'
  BY <1>0, <1>3, <1>8 DEF SavedInv, Fetching, fetch
<1>12. ListInv'
  <2> SUFFICES ASSUME ~Fetching, NEW s \in Slug \ (missed' \cup mixed'), ~Told(s)'
               PROVE  Current(shows, s)'
    BY <1>3 DEF ListInv, Fetching, fetch
  <2>1. (Due(s)' <=> Due(s)) /\ (Over(s)' <=> Over(s)) /\ told' = told
    BY <1>3, ServerHeld DEF server
  <2>2. CASE s # m.show
    <3>1. s \notin missed /\ s \notin mixed /\ ~Told(s)
      BY <1>3, <1>4, <2>2
    <3>2. Current(shows, s)
      BY <1>0, <3>1 DEF ListInv
    <3> QED
      BY <1>8, <2>1, <2>2, <3>2 DEF Current
  <2>3. CASE s = m.show
    <3>1. ~m.late
      BY <1>3, <2>3 DEF Lasts
    <3>2. ~Over(s) /\ m.ver >= told[s]
      BY <1>3, <1>4, <2>3, <3>1 DEF Truthful
    <3> QED
      BY <1>9, <2>1, <2>3, <3>2 DEF Current
  <2> QED
    BY <2>2, <2>3
<1> QED
  BY <1>1, <1>6, <1>10, <1>11, <1>12 DEF IInv

\* A showRemoved message: REMOVE_SHOW.
LEMMA RemovedStep ==
  ASSUME IInv, Removed
  PROVE  IInv'
<1>0. /\ Typed /\ LastInv /\ SavedInv /\ CleanInv /\ ListInv /\ FirstInv
      /\ PagesInv /\ ComingInv /\ NewInv /\ ReqInv
  BY IInvParts
<1>1. Typed'
  BY <1>0, SocketNextTyped DEF SocketNext
<1>2. PICK m : m = Head(channel)
  OBVIOUS
<1>3. /\ channel # <<>> /\ m.event = "removed" /\ channel' = Tail(channel)
      /\ shows' = RemoveShow(shows, m.show)
      /\ Save(shows')
      /\ missed' = IF Lasts(m) THEN missed \ {m.show} ELSE missed \cup {m.show}
      /\ mixed' = IF Lasts(m) THEN mixed \ {m.show} ELSE mixed
      /\ Overtaken(m.show)
      /\ UNCHANGED <<server, connected, gaps, home, fetch, requests>>
  BY <1>2, Zenon DEF Removed
<1>4. /\ LastInv' /\ m \in MessageType /\ m.show \in Slug
      /\ \A t : t # m.show => (Told(t)' <=> Told(t))
      /\ ~m.late /\ ~Told(m.show)' => Truthful(m)
  BY <1>0, <1>2, <1>3, TakenFacts
<1>5. mixed \ {m.show} \subseteq mixed' /\ (Fetching => mixed' = mixed)
  BY <1>3 DEF Lasts
<1>6. LastInv' /\ FirstInv' /\ PagesInv' /\ ComingInv' /\ NewInv' /\ ReqInv'
  BY <1>1, <1>2, <1>3, <1>5, MessageStep
<1>7. shows \in Seq(Entry)
  BY <1>0 DEF Typed, ListTyped
<1>8. /\ About(shows', m.show) = {} /\ Clean(shows', m.show)
      /\ \A t \in Slug \ {m.show} : /\ About(shows', t) = About(shows, t)
                                    /\ Once(shows, t) => Once(shows', t)
  BY <1>3, <1>4, <1>7, RemoveShowFacts
<1>9. CleanInv'
  <2>1. ASSUME NEW s \in Slug \ mixed', s # m.show PROVE Clean(shows', s)
    <3>1. Clean(shows, s)
      BY <1>0, <1>5, <2>1 DEF CleanInv
    <3> QED
      BY <1>8, <2>1, <3>1 DEF Clean, OwnDetails
  <2> QED
    BY <1>8, <2>1 DEF CleanInv
<1>10. SavedInv'
  <2>1. CASE storage' = shows' /\ unsaved' = {}
    BY <1>9, <2>1 DEF SavedInv, CleanInv
  <2>2. CASE storage' = storage /\ unsaved' = Slug
    BY <1>0, <1>3, <1>5, <2>2 DEF SavedInv, Fetching, fetch
  <2> QED
    BY <1>3, <2>1, <2>2 DEF Save
<1>11. ListInv'
  <2> SUFFICES ASSUME ~Fetching, NEW s \in Slug \ (missed' \cup mixed'), ~Told(s)'
               PROVE  Current(shows, s)'
    BY <1>3 DEF ListInv, Fetching, fetch
  <2>1. (Due(s)' <=> Due(s)) /\ (Over(s)' <=> Over(s)) /\ told' = told
    BY <1>3, ServerHeld DEF server
  <2>2. CASE s # m.show
    <3>1. s \notin missed /\ s \notin mixed /\ ~Told(s)
      BY <1>3, <1>4, <1>5, <2>2
    <3>2. Current(shows, s)
      BY <1>0, <3>1 DEF ListInv
    <3> QED
      BY <1>8, <2>1, <2>2, <3>2 DEF Current
  <2>3. CASE s = m.show
    <3>1. ~m.late
      BY <1>3, <2>3 DEF Lasts
    <3>2. ~Due(s)
      BY <1>3, <1>4, <2>3, <3>1 DEF Truthful
    <3> QED
      BY <1>8, <2>1, <2>3, <3>2 DEF Current
  <2> QED
    BY <2>2, <2>3
<1> QED
  BY <1>1, <1>6, <1>9, <1>10, <1>11 DEF IInv

\* A step of the websocket.
LEMMA SocketStep ==
  ASSUME IInv, SocketNext
  PROVE  IInv'
<1>0. /\ Typed /\ LastInv /\ SavedInv /\ CleanInv /\ ListInv /\ FirstInv
      /\ PagesInv /\ ComingInv /\ NewInv /\ ReqInv
  BY IInvParts
<1>1. Typed'
  BY <1>0, SocketNextTyped
<1>2. ASSUME ConnectionLost PROVE IInv'
  <2>1. /\ UNCHANGED <<server, shows, storage, boot, unsaved, fetch, answers, newShows, request, mixed, library, ver, job, word, told>>
        /\ channel' = <<>>
        /\ missed' = missed \cup {channel[k].show : k \in DOMAIN channel}
    BY <1>2 DEF ConnectionLost, fetch, detail, server
  <2>2. SavedInv' /\ CleanInv' /\ FirstInv' /\ PagesInv' /\ ComingInv'
    BY <1>0, <2>1, Kept
  <2>3. DOMAIN channel' = {}
    BY <2>1
  <2>4. LastInv'
    BY <2>1, <2>3 DEF LastInv
  <2>5. \A s \in Slug : Steady(s)
    BY <2>1, <2>3, ServerHeld DEF Steady, Told
  <2>6. ListInv' /\ NewInv' /\ ReqInv'
    BY <1>0, <1>1, <2>1, <2>5, SteadyStep
  <2> QED
    BY <1>1, <2>2, <2>4, <2>6 DEF IInv
<1>3. ASSUME Reconnected PROVE IInv'
  <2>1. /\ UNCHANGED <<server, channel, shows, storage, boot, unsaved, fetch, answers, newShows, request, missed, mixed, library, ver, job, word, told>>
        /\ connected'
    BY <1>3 DEF Reconnected, fetch, detail, excuses, server
  <2>2. SavedInv' /\ CleanInv' /\ FirstInv' /\ PagesInv' /\ ComingInv'
    BY <1>0, <2>1, Kept
  <2>3. \A s \in Slug : Steady(s)
    BY <2>1, NothingTold
  <2>4. LastInv'
    BY <1>0, <2>1, ServerHeld DEF LastInv, LastWord, Truthful
  <2>5. ListInv' /\ NewInv' /\ ReqInv'
    BY <1>0, <1>1, <2>1, <2>3, SteadyStep
  <2> QED
    BY <1>1, <2>2, <2>4, <2>5 DEF IInv
<1> QED
  BY <1>2, <1>3, UpdatedStep, RemovedStep DEF SocketNext

-----------------------------------------------------------------------------
(***************************************************************************)
(* getShows.                                                               *)
(***************************************************************************)

\* A step of the fetch that reads or collects changes nothing else.
LEMMA FetchKept ==
  ASSUME IInv, Typed', UNCHANGED <<server, socket, shows, storage, detail, unsaved, mixed>>,
         missed \subseteq missed', Fetching, Fetching'
  PROVE  LastInv' /\ SavedInv' /\ CleanInv' /\ ListInv' /\ ReqInv'
<1>0. /\ Typed /\ LastInv /\ SavedInv /\ CleanInv /\ ListInv /\ ReqInv
  BY IInvParts
<1>1. UNCHANGED <<connected, channel, library, job, word, told, ver, request>>
  BY DEF socket, server, detail
<1>2. LastInv' /\ CleanInv'
  BY <1>0, <1>1, Kept
<1>3. SavedInv'
  BY <1>0 DEF SavedInv
<1>4. ListInv'
  BY DEF ListInv
<1>5. ReqInv'
  BY <1>0, <1>1, NothingTold, SteadyStep
<1> QED
  BY <1>2, <1>3, <1>4, <1>5

\* The server answers a page of the library.
LEMMA PageReadStep ==
  ASSUME IInv, NEW p \in due, PageRead(p)
  PROVE  IInv'
<1>0. /\ Typed /\ FirstInv /\ PagesInv /\ ComingInv /\ NewInv
  BY IInvParts
<1>1. Typed'
  BY <1>0, FetchNextTyped DEF FetchNext
<1> DEFINE a == [page |-> p, data |-> DataOf(p), total |-> PageCount]
<1>2. /\ due' = due \ {p} /\ answers' = answers \cup {a}
      /\ missed' = missed \cup {s \in Slug : Leaving(s)}
      /\ UNCHANGED <<server, socket, shows, storage, home, boot, newShows, detail, unsaved, mixed>>
  BY DEF PageRead
<1>3. a.page = p /\ a.data = DataOf(p) /\ a.total = PageCount
  OBVIOUS
<1> HIDE DEF a
<1>4. \A s \in Slug : /\ Clean(a.data, s)
                      /\ About(a.data, s) # {} <=> s \in library /\ PageNo(s) = p
                      /\ \A e \in About(a.data, s) : e.ver = ver[s]
  BY <1>0, <1>3, PageFacts DEF Typed, ServerTyped
<1>5. UNCHANGED <<library, job, word, told, ver, channel>>
  BY <1>2 DEF server, socket
<1>6. Fetching /\ Fetching'
  BY <1>0, <1>2 DEF FirstInv, Fetching
<1>7. LastInv' /\ SavedInv' /\ CleanInv' /\ ListInv' /\ ReqInv'
  BY <1>1, <1>2, <1>6, FetchKept
<1>8. FirstInv'
  <2>1. ASSUME boot = "first" PROVE p = 1 /\ answers' = {a} /\ due' = {}
    BY <1>0, <1>2, <2>1 DEF FirstInv
  <2> QED
    BY <1>0, <1>2, <1>3, <1>6, <2>1 DEF FirstInv
<1>9. ASSUME NEW s \in Slug \ mixed' PROVE PagesOf(s)'
  <2>1. PagesOf(s)
    BY <1>0, <1>2, <1>9 DEF PagesInv
  <2>2. PageCount' = PageCount /\ PageNo(s)' = PageNo(s)
    BY <1>5, SamePages
  <2>3. \A b \in answers' : /\ b.page \notin due'
                            /\ Clean(b.data, s)
                            /\ b.total = PageCount
                            /\ About(b.data, s) # {} => s \in library /\ b.page = PageNo(s)
    BY <1>2, <1>3, <1>4, <2>1 DEF PagesOf
  <2>4. \A b, c \in answers' : b.page = c.page => b = c
    BY <1>2, <1>3, <2>1 DEF PagesOf
  <2>5. About(newShows, s) # {} => /\ s \in library /\ PageNo(s) \notin due'
                                   /\ \A b \in answers' : b.page # PageNo(s)
    BY <1>2, <1>3, <2>1 DEF PagesOf
  <2>6. Clean(newShows, s)
    BY <2>1 DEF PagesOf
  <2> QED
    BY <1>2, <1>5, <2>2, <2>3, <2>4, <2>5, <2>6 DEF PagesOf
<1>10. ASSUME NEW s \in library' \ (missed' \cup mixed') PROVE Coming(s)'
  <2>1. Coming(s) /\ s \in Slug /\ s \in library
    BY <1>0, <1>2, <1>5, <1>6, <1>10 DEF ComingInv, Typed, ServerTyped
  <2>2. PageNo(s)' = PageNo(s)
    BY <1>5, SamePages
  <2>3. PageNo(s) = p => About(a.data, s) # {}
    BY <1>4, <2>1
  <2> QED
    BY <1>2, <2>1, <2>2, <2>3 DEF Coming
<1>11. NewInv'
  <2>1. ASSUME NEW s \in Slug \ (missed' \cup mixed')
        PROVE  (\A b \in answers' : Fresh(b.data, s)') /\ Fresh(newShows, s)'
    <3>1. (\A b \in answers : Fresh(b.data, s)) /\ Fresh(newShows, s) /\ ~Leaving(s)
      BY <1>0, <1>2, <2>1 DEF NewInv
    <3>2. Fresh(a.data, s)
      <4>1. told[s] <= ver[s] /\ told[s] \in Int /\ ver[s] \in Int
        BY <1>0 DEF Typed, ServerTyped
      <4> QED
        BY <1>4, <3>1, <4>1 DEF Fresh, Over
    <3>3. \A b \in answers' : Fresh(b.data, s)
      BY <1>2, <3>1, <3>2
    <3> QED
      BY <1>2, <1>5, <3>1, <3>3 DEF Fresh, Told, Over, Leaving
  <2> QED
    BY <2>1 DEF NewInv
<1> QED
  BY <1>1, <1>7, <1>8, <1>9, <1>10, <1>11 DEF IInv, PagesInv, ComingInv

\* The first page arrives, and the others are asked for.
LEMMA FirstPageStep ==
  ASSUME IInv, NEW a \in answers, FirstPageArrives(a)
  PROVE  IInv'
<1>0. /\ Typed /\ FirstInv /\ PagesInv /\ ComingInv /\ NewInv
  BY IInvParts
<1>1. Typed'
  BY <1>0, FetchNextTyped DEF FetchNext
<1>2. /\ boot = "first" /\ boot' = "pages" /\ answers' = answers \ {a} /\ newShows' = a.data
      /\ due' = 2 .. a.total
      /\ UNCHANGED <<server, socket, shows, storage, home, detail, unsaved, missed, mixed>>
  BY DEF FirstPageArrives, PagesAfterFirst, excuses
<1>3. UNCHANGED <<library, job, word, told, ver, channel>>
  BY <1>2 DEF server, socket
<1>4. due = {} /\ newShows = <<>> /\ answers = {a} /\ answers' = {} /\ a.page = 1
  BY <1>0, <1>2 DEF FirstInv
<1>5. Fetching /\ Fetching'
  BY <1>2 DEF Fetching
<1>6. LastInv' /\ SavedInv' /\ CleanInv' /\ ListInv' /\ ReqInv'
  BY <1>1, <1>2, <1>5, FetchKept
<1>7. FirstInv'
  BY <1>2, <1>5 DEF FirstInv
<1>8. \A s \in Slug \ mixed : /\ Clean(a.data, s) /\ a.total = PageCount
                              /\ About(a.data, s) # {} => s \in library /\ PageNo(s) = 1
  BY <1>0, <1>4 DEF PagesInv, PagesOf
<1>9. PageCount' = PageCount /\ \A s : PageNo(s)' = PageNo(s)
  BY <1>3, SamePages
<1>10. \A s \in library : PageNo(s) \in 1 .. PageCount
  BY <1>0, PageFacts DEF Typed, ServerTyped
<1>11. PagesInv'
  <2>1. ASSUME NEW s \in Slug \ mixed' PROVE PagesOf(s)'
    <3>1. /\ Clean(a.data, s)
          /\ About(a.data, s) # {} => s \in library /\ PageNo(s) = 1
      BY <1>2, <1>8, <2>1
    <3>2. 1 \notin due'
      BY <1>0, <1>2 DEF Typed, FetchTyped, AnswerType
    <3> QED
      BY <1>2, <1>3, <1>4, <1>9, <3>1, <3>2 DEF PagesOf
  <2> QED
    BY <2>1 DEF PagesInv
<1>12. ComingInv'
  <2>1. ASSUME NEW s \in library' \ (missed' \cup mixed') PROVE Coming(s)'
    <3>1. s \in library /\ s \in Slug /\ s \notin missed /\ s \notin mixed
      BY <1>0, <1>2, <1>3, <2>1 DEF Typed, ServerTyped
    <3>2. Coming(s)
      BY <1>0, <1>5, <3>1 DEF ComingInv
    <3>3. CASE PageNo(s) # 1
      <4>1. PageNo(s) \in 2 .. PageCount /\ a.total = PageCount
        BY <1>8, <1>10, <3>1, <3>3, PageFacts, <1>0 DEF Typed, ServerTyped
      <4> QED
        BY <1>2, <1>9, <4>1 DEF Coming
    <3>4. CASE PageNo(s) = 1
      <4>1. About(a.data, s) # {}
        BY <1>4, <3>2, <3>4, EmptyList DEF Coming
      <4> QED
        BY <1>2, <4>1 DEF Coming
    <3> QED
      BY <3>3, <3>4
  <2> QED
    BY <2>1 DEF ComingInv
<1>13. NewInv'
  <2>1. ASSUME NEW s \in Slug \ (missed' \cup mixed') PROVE Fresh(newShows, s)'
    <3>1. Fresh(a.data, s)
      BY <1>0, <1>2, <2>1 DEF NewInv
    <3> QED
      BY <1>2, <1>3, <3>1 DEF Fresh, Told, Over, Leaving
  <2> QED
    BY <1>4, <2>1 DEF NewInv
<1> QED
  BY <1>1, <1>6, <1>7, <1>11, <1>12, <1>13 DEF IInv

\* Another page arrives and is collected.
LEMMA PageStep ==
  ASSUME IInv, NEW a \in answers, PageArrives(a)
  PROVE  IInv'
<1>0. /\ Typed /\ FirstInv /\ PagesInv /\ ComingInv /\ NewInv
  BY IInvParts
<1>1. Typed'
  BY <1>0, FetchNextTyped DEF FetchNext
<1>2. /\ boot = "pages" /\ answers' = answers \ {a} /\ newShows' = newShows \o a.data
      /\ UNCHANGED <<server, socket, shows, storage, home, boot, due, detail, unsaved, missed, mixed>>
  BY DEF PageArrives, excuses
<1>3. UNCHANGED <<library, job, word, told, ver, channel>>
  BY <1>2 DEF server, socket
<1>4. Fetching /\ Fetching'
  BY <1>2 DEF Fetching
<1>5. LastInv' /\ SavedInv' /\ CleanInv' /\ ListInv' /\ ReqInv'
  BY <1>1, <1>2, <1>4, FetchKept
<1>6. FirstInv'
  BY <1>2, <1>4 DEF FirstInv
<1>7. newShows \in Seq(Entry) /\ a.data \in Seq(Entry)
  BY <1>0 DEF Typed, FetchTyped, AnswerType
<1>8. \A s \in Slug : About(newShows', s) = About(newShows, s) \cup About(a.data, s)
  BY <1>2, <1>7, ConcatFacts
<1>9. PageCount' = PageCount /\ \A s : PageNo(s)' = PageNo(s)
  BY <1>3, SamePages
<1>10. ASSUME NEW s \in Slug \ mixed' PROVE PagesOf(s)'
  <2>1. PagesOf(s)
    BY <1>0, <1>2, <1>10 DEF PagesInv
  <2>2. About(newShows, s) = {} \/ About(a.data, s) = {}
    BY <2>1 DEF PagesOf
  <2>3. Clean(newShows', s)
    <3>1. Clean(newShows, s) /\ Clean(a.data, s)
      BY <2>1 DEF PagesOf
    <3> QED
      BY <1>2, <1>7, <2>2, <3>1, ConcatFacts
  <2>4. About(newShows', s) # {} => /\ s \in library /\ PageNo(s) \notin due
                                    /\ \A b \in answers' : b.page # PageNo(s)
    BY <1>2, <1>8, <2>1 DEF PagesOf
  <2>5. /\ \A b \in answers' : /\ b.page \notin due
                               /\ Clean(b.data, s)
                               /\ b.total = PageCount
                               /\ About(b.data, s) # {} => s \in library /\ b.page = PageNo(s)
        /\ \A b, c \in answers' : b.page = c.page => b = c
    BY <1>2, <2>1 DEF PagesOf
  <2> QED
    BY <1>2, <1>3, <1>9, <2>3, <2>4, <2>5 DEF PagesOf
<1>11. ASSUME NEW s \in library' \ (missed' \cup mixed') PROVE Coming(s)'
  <2>1. Coming(s) /\ s \in Slug
    BY <1>0, <1>2, <1>3, <1>4, <1>11 DEF ComingInv, Typed, ServerTyped
  <2> QED
    BY <1>2, <1>8, <1>9, <2>1 DEF Coming
<1>12. NewInv'
  <2>1. ASSUME NEW s \in Slug \ (missed' \cup mixed')
        PROVE  (\A b \in answers' : Fresh(b.data, s)') /\ Fresh(newShows, s)'
    <3>1. (\A b \in answers : Fresh(b.data, s)) /\ Fresh(newShows, s)
      BY <1>0, <1>2, <2>1 DEF NewInv
    <3>2. Fresh(newShows', s)
      BY <1>8, <3>1 DEF Fresh
    <3> QED
      BY <1>2, <1>3, <3>1, <3>2 DEF Fresh, Told, Over, Leaving
  <2> QED
    BY <2>1 DEF NewInv
<1> QED
  BY <1>1, <1>5, <1>6, <1>10, <1>11, <1>12 DEF IInv, PagesInv, ComingInv

\* Of a list without a page the client has missed all shows.
LEMMA FailStep ==
  ASSUME IInv, FirstPageFails \/ PageFails
  PROVE  IInv'
<1>0. /\ Typed /\ LastInv /\ SavedInv /\ CleanInv /\ ListInv /\ FirstInv
      /\ PagesInv /\ ComingInv /\ NewInv /\ ReqInv
  BY IInvParts
<1>1. Typed'
  BY <1>0, FetchNextTyped DEF FetchNext
<1>2. /\ boot \in {"first", "pages"} /\ boot' \in {"pages", "failed"}
      /\ due' = {} /\ answers' = {} /\ newShows' = <<>> /\ missed' = Slug
      /\ UNCHANGED <<server, socket, shows, storage, home, detail, unsaved, mixed>>
  BY DEF FirstPageFails, PageFails
<1>3. UNCHANGED <<connected, channel, library, job, word, told, ver, request>>
  BY <1>2 DEF socket, server, detail
<1>4. LastInv' /\ CleanInv'
  BY <1>0, <1>2, <1>3, Kept
<1>5. SavedInv'
  BY <1>0, <1>2 DEF SavedInv, Fetching
<1>6. FirstInv'
  BY <1>2 DEF FirstInv, Fetching
<1>7. PagesInv'
  BY <1>2, EmptyList DEF PagesInv, PagesOf
<1>8. ListInv' /\ NewInv' /\ ComingInv'
  <2>1. Slug \ (missed' \cup mixed') = {} /\ library' \ (missed' \cup mixed') = {}
    BY <1>1, <1>2 DEF Typed, ServerTyped
  <2> QED
    BY <2>1 DEF ListInv, NewInv, ComingInv
<1>9. ReqInv'
  <2>1. \A s \in Slug : Steady(s)
    BY <1>2 DEF Steady
  <2> QED
    BY <1>0, <1>1, <1>2, <1>3, <2>1, SteadyStep
<1> QED
  BY <1>1, <1>4, <1>5, <1>6, <1>7, <1>8, <1>9 DEF IInv

\* All pages were collected: ADD_SHOWS.
LEMMA CommitStep ==
  ASSUME IInv, ShowsCommitted
  PROVE  IInv'
<1>0. /\ Typed /\ LastInv /\ SavedInv /\ CleanInv /\ ListInv /\ FirstInv
      /\ PagesInv /\ ComingInv /\ NewInv /\ ReqInv
  BY IInvParts
<1>1. Typed'
  BY <1>0, FetchNextTyped DEF FetchNext
<1>2. /\ boot = "pages" /\ due = {} /\ answers = {} /\ boot' = "done"
      /\ shows' = AddShows(shows, newShows) /\ newShows' = <<>> /\ Save(shows')
      /\ UNCHANGED <<server, socket, home, due, answers, detail, missed, mixed>>
  BY DEF ShowsCommitted, excuses
<1>3. UNCHANGED <<connected, channel, library, job, word, told, ver, request>>
  BY <1>2 DEF socket, server, detail
<1>4. Fetching /\ ~Fetching'
  BY <1>2 DEF Fetching
<1>5. shows \in Seq(Entry) /\ newShows \in Seq(Entry)
  BY <1>0 DEF Typed, ListTyped, FetchTyped
<1>6. \A s \in Slug : /\ Clean(shows, s) /\ Clean(newShows, s) => Clean(shows', s)
                      /\ About(shows', s) = {} <=> About(newShows, s) = {}
                      /\ \A e \in About(shows', s) : \E f \in About(newShows, s) : e.ver = f.ver
  BY <1>2, <1>5, AddShowsFacts
<1>7. LastInv' /\ ReqInv'
  <2>1. \A s \in Slug : Steady(s)
    BY <1>2, <1>3, NothingTold
  <2> QED
    BY <1>0, <1>1, <1>2, <1>3, <2>1, Kept, SteadyStep
<1>8. CleanInv'
  <2>1. ASSUME NEW s \in Slug \ mixed' PROVE Clean(shows', s)
    <3>1. Clean(shows, s) /\ Clean(newShows, s)
      BY <1>0, <1>2, <2>1 DEF CleanInv, PagesInv, PagesOf
    <3> QED
      BY <1>6, <2>1, <3>1
  <2> QED
    BY <2>1 DEF CleanInv
<1>9. SavedInv'
  <2>1. CASE storage' = shows' /\ unsaved' = {}
    BY <1>8, <2>1 DEF SavedInv, CleanInv
  <2>2. CASE unsaved' = Slug
    BY <1>4, <2>2 DEF SavedInv
  <2> QED
    BY <1>2, <2>1, <2>2 DEF Save
<1>10. FirstInv'
  BY <1>2 DEF FirstInv
<1>11. PagesInv' /\ ComingInv' /\ NewInv'
  BY <1>4, <1>10, Idle
<1>12. ListInv'
  <2>1. ASSUME NEW s \in Slug \ (missed' \cup mixed'), ~Told(s)'
        PROVE  Current(shows, s)'
    <3>1. s \in Slug \ (missed \cup mixed) /\ ~Told(s)
      BY <1>2, <1>3, <2>1 DEF Told
    <3>2. About(newShows, s) # {} => s \in library
      BY <1>0, <3>1 DEF PagesInv, PagesOf
    <3>3. s \in library => About(newShows, s) # {}
      BY <1>0, <1>2, <1>4, <3>1 DEF ComingInv, Coming
    <3>4. About(newShows, s) # {} => ~Over(s) /\ \A e \in About(newShows, s) : e.ver >= told[s]
      BY <1>0, <3>1 DEF NewInv, Fresh
    <3>5. (Due(s) => About(shows', s) # {}) /\ (Over(s) => About(shows', s) = {})
      BY <1>6, <3>2, <3>3, <3>4 DEF Due
    <3>6. \A e \in About(shows', s) : e.ver >= told[s]
      BY <1>6, <3>4
    <3> QED
      BY <1>3, <3>5, <3>6, ServerHeld DEF Current
  <2> QED
    BY <2>1 DEF ListInv
<1> QED
  BY <1>1, <1>7, <1>8, <1>9, <1>10, <1>11, <1>12 DEF IInv

\* A step of getShows.
LEMMA FetchStep ==
  ASSUME IInv, FetchNext
  PROVE  IInv'
BY PageReadStep, FirstPageStep, PageStep, FailStep, CommitStep DEF FetchNext

-----------------------------------------------------------------------------
(***************************************************************************)
(* The pages of the client.                                                *)
(***************************************************************************)

\* The home page takes the list out of the storage.
LEMMA HomeStep ==
  ASSUME IInv, HomeOpened
  PROVE  IInv'
<1>0. /\ Typed /\ LastInv /\ SavedInv /\ CleanInv /\ ListInv /\ FirstInv
      /\ PagesInv /\ ComingInv /\ NewInv /\ ReqInv
  BY IInvParts
<1>1. Typed'
  BY <1>0, PageNextTyped DEF PageNext
<1>2. /\ shows' = IF storage = None THEN shows ELSE storage
      /\ mixed' = IF storage = None \/ Fetching THEN mixed ELSE mixed \cup unsaved
      /\ UNCHANGED <<server, socket, storage, fetch, detail, unsaved, missed>>
  BY DEF HomeOpened
<1>3. UNCHANGED <<connected, channel, library, job, word, told, ver, request, boot, due, answers, newShows>>
      /\ mixed \subseteq mixed'
  BY <1>2 DEF socket, server, detail, fetch
<1>4. \A s \in Slug : Steady(s)
  BY <1>2, <1>3, NothingTold
<1>5. LastInv' /\ FirstInv' /\ PagesInv' /\ ComingInv' /\ NewInv' /\ ReqInv'
  BY <1>0, <1>1, <1>2, <1>3, <1>4, Kept, SteadyStep
<1>6. ASSUME storage # None, NEW s \in Slug \ mixed'
      PROVE  /\ s \notin mixed /\ Clean(shows', s)
             /\ ~Fetching => About(shows', s) = About(shows, s)
  <2>1. s \notin mixed /\ (Fetching \/ s \notin unsaved)
    BY <1>2, <1>6
  <2> QED
    BY <1>0, <1>2, <1>6, <2>1 DEF SavedInv
<1>7. CleanInv' /\ SavedInv' /\ ListInv'
  <2>1. CASE storage = None
    <3>1. shows' = shows /\ mixed' = mixed
      BY <1>2, <2>1
    <3> QED
      BY <1>0, <1>1, <1>2, <1>3, <1>4, <3>1, Kept, SteadyStep
  <2>2. CASE storage # None
    <3>1. CleanInv'
      BY <1>6, <2>2 DEF CleanInv
    <3>2. SavedInv'
      BY <1>2, <1>6, <2>2, <3>1 DEF SavedInv, CleanInv
    <3>3. ListInv'
      BY <1>0, <1>2, <1>3, <1>6, <2>2 DEF ListInv, Current, Due, Over, Leaving, Told, Fetching
    <3> QED
      BY <3>1, <3>2, <3>3
  <2> QED
    BY <2>1, <2>2
<1> QED
  BY <1>1, <1>5, <1>7 DEF IInv

\* Asking for a show, the answer of the server, and a failure.
LEMMA RequestStep ==
  ASSUME IInv,
         (\E s \in Visited, what \in {"show", "episodes"} : ShowAsked(what, s)) \/ ShowRead \/ RequestFails
  PROVE  IInv'
<1>0. /\ Typed /\ LastInv /\ SavedInv /\ CleanInv /\ ListInv /\ FirstInv
      /\ PagesInv /\ ComingInv /\ NewInv /\ ReqInv
  BY IInvParts
<1>1. Typed'
  BY <1>0, PageNextTyped DEF PageNext
<1>2. UNCHANGED <<server, socket, shows, storage, home, fetch, unsaved, missed, mixed>>
  BY DEF ShowAsked, ShowRead, RequestFails, excuses
<1>3. UNCHANGED <<connected, channel, library, job, word, told, ver, boot, due, answers, newShows>>
  BY <1>2 DEF socket, server, fetch
<1>4. \A s \in Slug : Steady(s)
  BY <1>2, <1>3, NothingTold
<1>5. /\ LastInv' /\ SavedInv' /\ CleanInv' /\ ListInv' /\ FirstInv'
      /\ PagesInv' /\ ComingInv' /\ NewInv'
  BY <1>0, <1>1, <1>2, <1>3, <1>4, Kept, SteadyStep
<1>6. ReqInv'
  <2>1. ASSUME NEW s \in Visited, NEW what \in {"show", "episodes"}, ShowAsked(what, s) PROVE ReqInv'
    BY <2>1 DEF ShowAsked, ReqInv
  <2>2. ASSUME ShowRead PROVE ReqInv'
    <3>1. CASE request.show \notin library
      BY <2>2, <3>1 DEF ShowRead, ReqInv
    <3>2. CASE request.show \in library
      <4>1. request \in RequestType
        BY <1>0, <2>2 DEF ShowRead, Typed, DetailTyped
      <4>2. /\ request'.show = request.show /\ request'.ver = ver[request.show]
            /\ request'.stale <=> Leaving(request.show)
        BY <2>2, <3>2, <4>1 DEF ShowRead, RequestType
      <4>3. PICK r : r = request.show
        OBVIOUS
      <4>4. QED
        <5>1. r \in Slug /\ told[r] <= ver[r] /\ told[r] \in Int /\ ver[r] \in Int
          BY <1>0, <3>2, <4>3 DEF Typed, ServerTyped
        <5> QED
          BY <1>3, <3>2, <4>2, <4>3, <5>1 DEF ReqInv, Over, Leaving, Told
    <3> QED
      BY <3>1, <3>2
  <2>3. ASSUME RequestFails PROVE ReqInv'
    BY <2>3 DEF RequestFails, ReqInv
  <2> QED
    BY <2>1, <2>2, <2>3
<1> QED
  BY <1>1, <1>5, <1>6 DEF IInv

\* The list after an answer, which says of the other shows what it said.
LEMMA AnswerStep ==
  ASSUME IInv, Typed', request' = None, NEW s \in Slug,
         UNCHANGED <<server, socket, storage, fetch>>,
         unsaved' = unsaved \cup {s} \cup Confused(shows, s),
         mixed' = mixed \cup Confused(shows, s),
         missed \subseteq missed',
         \A t \in Slug \ {s} : t \notin Confused(shows, s) =>
           About(shows', t) = About(shows, t) /\ (Once(shows, t) => Once(shows', t)),
         s \notin mixed' => Clean(shows', s),
         ~Fetching /\ s \notin mixed' \cup missed' => Told(s) \/ Current(shows', s)
  PROVE  IInv'
<1>0. /\ Typed /\ LastInv /\ SavedInv /\ CleanInv /\ ListInv /\ FirstInv
      /\ PagesInv /\ ComingInv /\ NewInv /\ ReqInv
  BY IInvParts
<1>3. UNCHANGED <<connected, channel, library, job, word, told, ver, boot, due, answers, newShows>>
  BY DEF socket, server, fetch
<1>4. \A t \in Slug : Steady(t)
  BY <1>3, NothingTold
<1>5. /\ LastInv' /\ FirstInv' /\ PagesInv' /\ ComingInv' /\ NewInv'
  BY <1>0, <1>3, <1>4, Kept, SteadyStep
<1>6. ReqInv'
  BY DEF ReqInv
<1>7. ASSUME NEW t \in Slug \ mixed', t # s
      PROVE  About(shows', t) = About(shows, t) /\ Clean(shows', t) /\ t \notin mixed
  <2>1. t \notin Confused(shows, s) /\ t \notin mixed
    BY <1>7
  <2> QED
    BY <1>0, <1>7, <2>1 DEF CleanInv, Clean, OwnDetails
<1>8. CleanInv'
  BY <1>7 DEF CleanInv
<1>9. SavedInv'
  <2>1. ASSUME storage # None, NEW t \in Slug \ mixed'
        PROVE  /\ Fetching \/ t \notin unsaved' => Clean(storage, t)
               /\ t \notin unsaved' => About(storage, t) = About(shows', t)
    <3>1. t \notin mixed
      BY <2>1
    <3> QED
      BY <1>0, <1>7, <2>1, <3>1 DEF SavedInv
  <2> QED
    BY <1>3, <2>1 DEF SavedInv, Fetching
<1>10. ListInv'
  <2>1. ASSUME ~Fetching, NEW t \in Slug \ (missed' \cup mixed') PROVE Told(t) \/ Current(shows', t)
    <3>1. CASE t = s
      BY <2>1, <3>1
    <3>2. CASE t # s
      BY <1>0, <1>7, <2>1, <3>2 DEF ListInv, Current
    <3> QED
      BY <3>1, <3>2
  <2> QED
    BY <1>3, <2>1 DEF ListInv, Current, Due, Over, Leaving, Told, Fetching
<1> QED
  BY <1>5, <1>6, <1>8, <1>9, <1>10 DEF IInv

\* The answer to getShow: ADD_SHOW with the details.
LEMMA ShowStep ==
  ASSUME IInv, ShowArrives
  PROVE  IInv'
<1>0. Typed /\ CleanInv /\ ReqInv
  BY IInvParts
<1>1. Typed'
  BY <1>0, PageNextTyped DEF PageNext
<1>2. PICK s : s = request.show
  OBVIOUS
<1> DEFINE show == [slug |-> s, ver |-> request.ver, details |-> s]
<1>3. /\ request # None /\ request.ver # None /\ request.what = "show" /\ request' = None
      /\ shows' = AddShow(shows, show)
      /\ unsaved' = unsaved \cup {s} \cup Confused(shows, s)
      /\ missed' = IF request.stale \/ Fetching THEN missed \cup {s} ELSE missed
      /\ mixed' = mixed \cup Confused(shows, s)
      /\ UNCHANGED <<server, socket, storage, home, fetch, requests>>
  BY <1>2, Zenon DEF ShowArrives
<1>4. /\ show \in Entry /\ s \in Slug /\ show.slug = s /\ show.ver = request.ver /\ show.details = s
  BY <1>0, <1>2, <1>3, BroughtFacts DEF Typed, DetailTyped, RequestType
<1> HIDE DEF show
<1>5. shows \in Seq(Entry)
  BY <1>0 DEF Typed, ListTyped
<1>6. \A t \in Slug \ {s} : t \notin Confused(shows, s) =>
        About(shows', t) = About(shows, t) /\ (Once(shows, t) => Once(shows', t))
  BY <1>3, <1>4, <1>5, AddShowOther
<1>7. ASSUME s \notin mixed'
      PROVE  /\ Clean(shows', s) /\ About(shows', s) # {}
             /\ \A e \in About(shows', s) : e.ver = request.ver
  <2>1. Confused(shows, s) = {} /\ Clean(shows, s)
    BY <1>0, <1>3, <1>4, <1>7, ConfusedSelf DEF CleanInv
  <2> QED
    BY <1>3, <1>4, <1>5, <2>1, AddShowSelf
<1>8. ASSUME ~Fetching, s \notin mixed' \cup missed' PROVE Told(s) \/ Current(shows', s)
  <2>1. Told(s) \/ (~Over(s) /\ request.ver >= told[s])
    BY <1>0, <1>2, <1>3, <1>8 DEF ReqInv
  <2> QED
    BY <1>7, <1>8, <2>1 DEF Current
<1>9. missed \subseteq missed'
  BY <1>3
<1> QED
  BY <1>1, <1>3, <1>4, <1>6, <1>7, <1>8, <1>9, AnswerStep

\* The answer to getEpisodes: ADD_SHOW_EPISODE.
LEMMA EpisodesStep ==
  ASSUME IInv, EpisodesArrive
  PROVE  IInv'
<1>0. Typed /\ CleanInv /\ ListInv
  BY IInvParts
<1>1. Typed'
  BY <1>0, PageNextTyped DEF PageNext
<1>2. PICK s : s = request.show
  OBVIOUS
<1>3. /\ request # None /\ request' = None
      /\ shows' = AddEpisodes(shows, s)
      /\ unsaved' = unsaved \cup {s} \cup Confused(shows, s)
      /\ mixed' = mixed \cup Confused(shows, s)
      /\ UNCHANGED <<server, socket, storage, home, fetch, requests, missed>>
  BY <1>2, Zenon DEF EpisodesArrive
<1>4. s \in Slug
  BY <1>0, <1>2, <1>3 DEF Typed, DetailTyped, RequestType
<1>5. shows \in Seq(Entry)
  BY <1>0 DEF Typed, ListTyped
<1>6. \A t \in Slug \ {s} : t \notin Confused(shows, s) =>
        About(shows', t) = About(shows, t) /\ (Once(shows, t) => Once(shows', t))
  BY <1>3, <1>4, <1>5, AddEpisodesFacts
<1>7. ASSUME s \notin mixed'
      PROVE  /\ Clean(shows', s)
             /\ About(shows, s) # {} => About(shows', s) # {}
             /\ \A e \in About(shows', s) : \E f \in About(shows, s) : e.ver = f.ver
  <2>1. Confused(shows, s) = {} /\ Clean(shows, s)
    BY <1>0, <1>3, <1>4, <1>7, ConfusedSelf DEF CleanInv
  <2> QED
    BY <1>3, <1>4, <1>5, <2>1, AddEpisodesFacts
<1>8. ASSUME ~Fetching, s \notin mixed' \cup missed' PROVE Told(s) \/ Current(shows', s)
  <2>1. Told(s) \/ Current(shows, s)
    BY <1>0, <1>3, <1>4, <1>8 DEF ListInv
  <2>2. About(shows', s) # {} <=> About(shows, s) # {}
    <3>1. \A e : e \in About(shows', s) => \E f : f \in About(shows, s)
      BY <1>7, <1>8
    <3> QED
      BY <1>7, <1>8, <3>1
  <2> QED
    BY <1>7, <1>8, <2>1, <2>2 DEF Current
<1>9. missed \subseteq missed'
  BY <1>3
<1> QED
  BY <1>1, <1>3, <1>4, <1>6, <1>7, <1>8, <1>9, AnswerStep

\* A step of the pages of the client.
LEMMA ViewStep ==
  ASSUME IInv, PageNext
  PROVE  IInv'
BY HomeStep, RequestStep, ShowStep, EpisodesStep DEF PageNext

-----------------------------------------------------------------------------
\* The invariant holds when the client starts, whatever the storage has.
LEMMA InitIInv == Init => IInv
<1> SUFFICES ASSUME Init PROVE IInv
  OBVIOUS
<1>1. Typed
  BY InitTyped
<1>2. /\ connected /\ channel = <<>> /\ shows = <<>> /\ boot = "first" /\ due = {1} /\ answers = {}
      /\ newShows = <<>> /\ request = None /\ unsaved = Slug
      /\ mixed = IF storage = None THEN {} ELSE Muddled(storage)
  BY DEF Init
<1>3. DOMAIN channel = {}
  BY <1>2
<1>4. LastInv
  BY <1>2, <1>3 DEF LastInv
<1>5. ASSUME storage # None, NEW s \in Slug \ mixed PROVE Clean(storage, s)
  <2>1. s \notin Muddled(storage)
    BY <1>2, <1>5
  <2>2. \A k \in Places(storage, s) :
          /\ storage[k].details \in {None, s}
          /\ \A j \in Places(storage, s) : j = k
    BY <2>1 DEF Muddled, Places
  <2> QED
    BY <2>2 DEF Clean, Once, OwnDetails, About
<1>6. SavedInv
  BY <1>2, <1>5 DEF SavedInv
<1>7. CleanInv /\ ListInv
  BY <1>2, EmptyList DEF CleanInv, ListInv, Fetching
<1>8. FirstInv
  BY <1>2 DEF FirstInv, Fetching
<1>9. PagesInv
  BY <1>2, EmptyList DEF PagesInv, PagesOf
<1>10. NewInv
  BY <1>2, EmptyList DEF NewInv, Fresh
<1>11. ComingInv
  BY <1>2 DEF ComingInv, Coming
<1>12. ReqInv
  BY <1>2 DEF ReqInv
<1> QED
  BY <1>1, <1>4, <1>6, <1>7, <1>8, <1>9, <1>10, <1>11, <1>12 DEF IInv

\* A step that changes nothing keeps the invariant.
LEMMA StutterIInv ==
  ASSUME IInv, UNCHANGED vars
  PROVE  IInv'
<1>0. /\ Typed /\ LastInv /\ SavedInv /\ CleanInv /\ ListInv /\ FirstInv
      /\ PagesInv /\ ComingInv /\ NewInv /\ ReqInv
  BY IInvParts
<1>1. Typed'
  BY <1>0, StutterTyped
<1>2. /\ UNCHANGED <<server, connected, channel, library, boot, due, answers, newShows, fetch>>
      /\ UNCHANGED <<shows, storage, unsaved, missed, mixed, request>>
  BY DEF vars, server, socket, fetch, detail, excuses
<1>3. \A s \in Slug : Steady(s)
  BY <1>2, NothingTold
<1> QED
  BY <1>0, <1>1, <1>2, <1>3, Kept, SteadyStep DEF IInv

\* In every reachable state a show that the list does not have right is excused, or
\* its page is still to be collected, or a message about it is on its way.
THEOREM Invariance == Spec => []IInv
<1>1. IInv /\ [Next]_vars => IInv'
  BY ServerStep, SocketStep, FetchStep, ViewStep, StutterIInv DEF Next
<1> QED
  BY <1>1, InitIInv, PTL DEF Spec

\* When nothing is on its way, the list has each show once at most, in a version
\* no older than the last one told, every show that is in the library as the
\* server told, and none that is gone as the server told.
THEOREM ListInSync == Spec => []InSync
<1>1. IInv => InSync
  <2> SUFFICES ASSUME IInv, Quiet, NEW s \in Slug \ (missed \cup mixed)
               PROVE  /\ Cardinality(Stored(s)) <= 1
                      /\ s \in library /\ word[s] = "there" => Stored(s) # {}
                      /\ s \notin library /\ word[s] = "gone" => Stored(s) = {}
                      /\ \A k \in Stored(s) : shows[k].ver >= told[s] /\ shows[k].details \in {None, s}
    BY DEF InSync
  <2>1. Stored(s) = Places(shows, s)
    BY DEF Stored, Places
  <2>2. Clean(shows, s) /\ s \in Slug
    BY IInvParts DEF CleanInv
  <2>3. ~Told(s)
    BY DEF Quiet, Told
  <2>4. Current(shows, s)
    BY <2>3, IInvParts DEF Quiet, ListInv
  <2>5. ASSUME NEW k \in Stored(s) PROVE shows[k].ver >= told[s] /\ shows[k].details \in {None, s}
    BY <2>1, <2>2, <2>4 DEF About, Current, Clean, OwnDetails
  <2>6. /\ s \in library /\ word[s] = "there" => Stored(s) # {}
        /\ s \notin library /\ word[s] = "gone" => Stored(s) = {}
    BY <2>1, <2>4 DEF Current, Due, Over, About
  <2>7. Cardinality(Stored(s)) <= 1
    <3>1. CASE Stored(s) = {}
      BY <3>1, FS_EmptySet
    <3>2. CASE Stored(s) # {}
      <4>1. PICK k : k \in Stored(s)
        BY <3>2
      <4>2. Stored(s) = {k}
        BY <2>1, <2>2, <4>1 DEF Clean, Once
      <4> QED
        BY <4>2, FS_Singleton
    <3> QED
      BY <3>1, <3>2
  <2> QED
    BY <2>5, <2>6, <2>7
<1> QED
  BY <1>1, Invariance, PTL

-----------------------------------------------------------------------------
(***************************************************************************)
(* The details of the shows.                                               *)
(***************************************************************************)

Keeps(s) == \A e \in About(shows, s), f \in About(shows', s) : e.details = s => f.details = s

\* A list that says the same of a show keeps its details.
LEMMA SameKeeps ==
  ASSUME CleanInv, NEW s \in Slug \ mixed, About(shows', s) = About(shows, s)
  PROVE  Keeps(s)
BY DEF CleanInv, Clean, Once, About, Keeps

\* A step that opens no home page.
LEMMA KeepsStep ==
  ASSUME IInv, Next, ~HomeOpened, NEW s \in Slug \ mixed'
  PROVE  Keeps(s)
<1>0. Typed /\ CleanInv /\ LastInv
  BY IInvParts
<1>1. shows \in Seq(Entry) /\ newShows \in Seq(Entry)
  BY <1>0 DEF Typed, ListTyped, FetchTyped
<1>2. CASE UNCHANGED shows /\ mixed \subseteq mixed'
  BY <1>0, <1>2, SameKeeps
<1>3. CASE Updated
  <2>1. PICK m : m = Head(channel)
    OBVIOUS
  <2> DEFINE show == [slug |-> m.show, ver |-> m.ver, details |-> None]
  <2>2. /\ channel # <<>> /\ shows' = AddShow(shows, show)
        /\ mixed' = mixed \cup Confused(shows, m.show)
    BY <1>3, <2>1, Zenon DEF Updated
  <2>3. show \in Entry /\ show.slug = m.show /\ show.details = None /\ m.show \in Slug
    BY <1>0, <2>1, <2>2, MessageFacts, BroughtFacts, MessageTypeFacts DEF Typed
  <2> HIDE DEF show
  <2>4. s \notin mixed /\ s \notin Confused(shows, m.show)
    BY <2>2
  <2>5. CASE s # m.show
    BY <1>0, <1>1, <2>2, <2>3, <2>4, <2>5, AddShowOther, SameKeeps
  <2>6. CASE s = m.show
    <3>1. Confused(shows, s) = {} /\ Clean(shows, s)
      BY <1>0, <2>4, <2>6, ConfusedSelf DEF CleanInv
    <3> QED
      BY <1>1, <2>2, <2>3, <2>6, <3>1, AddShowSelf DEF Keeps
  <2> QED
    BY <2>5, <2>6
<1>4. CASE Removed
  <2>1. PICK m : m = Head(channel)
    OBVIOUS
  <2>2. /\ channel # <<>> /\ shows' = RemoveShow(shows, m.show)
        /\ mixed' = IF Lasts(m) THEN mixed \ {m.show} ELSE mixed
    BY <1>4, <2>1, Zenon DEF Removed
  <2>3. m.show \in Slug
    BY <1>0, <2>1, <2>2, MessageFacts, MessageTypeFacts DEF Typed
  <2>4. CASE s # m.show
    <3>1. s \notin mixed
      BY <2>2, <2>4
    <3> QED
      BY <1>0, <1>1, <2>2, <2>3, <2>4, <3>1, RemoveShowFacts, SameKeeps
  <2>5. CASE s = m.show
    BY <1>1, <2>2, <2>3, <2>5, RemoveShowFacts DEF Keeps
  <2> QED
    BY <2>4, <2>5
<1>5. CASE ShowsCommitted
  <2>1. shows' = AddShows(shows, newShows) /\ mixed' = mixed
    BY <1>5 DEF ShowsCommitted, excuses
  <2>2. Once(shows, s)
    BY <1>0, <2>1 DEF CleanInv, Clean
  <2> QED
    BY <1>1, <2>1, <2>2, AddShowsFacts DEF Keeps
<1>6. CASE ShowArrives
  <2>1. PICK t : t = request.show
    OBVIOUS
  <2> DEFINE show == [slug |-> t, ver |-> request.ver, details |-> t]
  <2>2. /\ request # None /\ request.ver # None /\ shows' = AddShow(shows, show)
        /\ mixed' = mixed \cup Confused(shows, t)
    BY <1>6, <2>1, Zenon DEF ShowArrives
  <2>3. show \in Entry /\ show.slug = t /\ show.details = t /\ t \in Slug
    BY <1>0, <2>1, <2>2, BroughtFacts DEF Typed, DetailTyped, RequestType
  <2> HIDE DEF show
  <2>4. s \notin mixed /\ s \notin Confused(shows, t)
    BY <2>2
  <2>5. CASE s # t
    BY <1>0, <1>1, <2>2, <2>3, <2>4, <2>5, AddShowOther, SameKeeps
  <2>6. CASE s = t
    <3>1. Confused(shows, s) = {} /\ Clean(shows, s)
      BY <1>0, <2>4, <2>6, ConfusedSelf DEF CleanInv
    <3> QED
      BY <1>1, <2>2, <2>3, <2>6, <3>1, AddShowSelf DEF Keeps
  <2> QED
    BY <2>5, <2>6
<1>7. CASE EpisodesArrive
  <2>1. PICK t : t = request.show
    OBVIOUS
  <2>2. request # None /\ shows' = AddEpisodes(shows, t) /\ mixed' = mixed \cup Confused(shows, t)
    BY <1>7, <2>1, Zenon DEF EpisodesArrive
  <2>3. t \in Slug
    BY <1>0, <2>1, <2>2 DEF Typed, DetailTyped, RequestType
  <2>4. s \notin mixed /\ s \notin Confused(shows, t)
    BY <2>2
  <2>5. CASE s # t
    BY <1>0, <1>1, <2>2, <2>3, <2>4, <2>5, AddEpisodesFacts, SameKeeps
  <2>6. CASE s = t
    <3>1. Confused(shows, s) = {} /\ Clean(shows, s)
      BY <1>0, <2>4, <2>6, ConfusedSelf DEF CleanInv
    <3> QED
      BY <1>1, <2>2, <2>3, <2>6, <3>1, AddEpisodesFacts DEF Keeps
  <2> QED
    BY <2>5, <2>6
<1>8. \/ Updated \/ Removed \/ ShowsCommitted \/ ShowArrives \/ EpisodesArrive
      \/ UNCHANGED shows /\ mixed \subseteq mixed'
  <2>1. ServerNext => UNCHANGED shows /\ mixed \subseteq mixed'
    BY DEF ServerNext, ShowAppended, ShowAnnounced, ShowUpdated, ShowChanged, RemovalAnnounced,
           ShowDeleted, ShowReplaced, ReplacementAnnounced, ItemFails, Shifted, Untouched
  <2>2. SocketNext => Updated \/ Removed \/ (UNCHANGED shows /\ mixed \subseteq mixed')
    BY DEF SocketNext, ConnectionLost, Reconnected, excuses
  <2>3. FetchNext => ShowsCommitted \/ (UNCHANGED shows /\ mixed \subseteq mixed')
    BY DEF FetchNext, PageRead, FirstPageArrives, PageArrives, FirstPageFails, PageFails, excuses
  <2>4. PageNext => ShowArrives \/ EpisodesArrive \/ (UNCHANGED shows /\ mixed \subseteq mixed')
    BY DEF PageNext, ShowAsked, ShowRead, RequestFails, excuses
  <2> QED
    BY <2>1, <2>2, <2>3, <2>4 DEF Next
<1> QED
  BY <1>2, <1>3, <1>4, <1>5, <1>6, <1>7, <1>8

\* A message and a fetched list leave the details of the shows they bring alone.
THEOREM DetailsStay == Spec => DetailsKept
<1> DEFINE A == ~(~home /\ home') =>
                  \A k \in DOMAIN shows, j \in DOMAIN shows' :
                    /\ shows[k].slug = shows'[j].slug
                    /\ shows[k].details = shows[k].slug
                    /\ shows[k].slug \notin mixed'
                    => shows'[j].details = shows[k].details
<1>1. IInv /\ [Next]_vars => [A]_vars
  <2> SUFFICES ASSUME IInv, Next, ~(~home /\ home'),
                      NEW k \in DOMAIN shows, NEW j \in DOMAIN shows',
                      shows[k].slug = shows'[j].slug, shows[k].details = shows[k].slug,
                      shows[k].slug \notin mixed'
               PROVE  shows'[j].details = shows[k].details
    OBVIOUS
  <2>1. ~HomeOpened
    BY DEF HomeOpened
  <2>2. shows[k] \in Entry
    BY IInvParts DEF Typed, ListTyped
  <2>3. PICK s \in Slug : s = shows[k].slug
    BY <2>2, EntryFacts
  <2>4. shows[k] \in About(shows, s) /\ shows'[j] \in About(shows', s)
    BY <2>3 DEF About, Places
  <2>5. Keeps(s)
    BY <2>1, <2>3, KeepsStep
  <2> QED
    BY <2>3, <2>4, <2>5 DEF Keeps
<1> QED
  BY <1>1, Invariance, PTL DEF Spec, DetailsKept
=============================================================================
