------------------------- MODULE ManualSearchProofs -------------------------
(***************************************************************************)
(* Proofs about ManualSearch, for any results, providers and page size,    *)
(* and any numbers of searches, fetches and losses of the connection.      *)
(*                                                                         *)
(* A result is shown once because every list of rows, in the store and in  *)
(* the answers on their way, has no row twice and only those of its        *)
(* provider.  It stays shown because each answer on its way that replaces  *)
(* the rows of its provider brings it, too: KnownInv.                      *)
(***************************************************************************)
EXTENDS ManualSearch, SubsequencesProofs, SequenceTheorems

\* What the parameters are.
Parameters ==
  /\ Results \in Seq(Result) /\ IsInjective(Results)
  /\ ProviderOf \in [Result -> Provider]
  /\ Providers \in Seq(Provider) /\ Providers # <<>>
  /\ PageSize \in Nat \ {0}
  /\ Tables \subseteq SUBSET Result
  /\ None \notin Seq(Result)
  /\ MaxSearches \in Nat /\ MaxFetches \in Nat \ {0} /\ {MaxGaps, MaxOthers} \subseteq Nat

FetchType ==
  [at : 0 .. Len(Providers), page : Nat, total : Nat, answer : Seq(Result) \cup {None},
   button : BOOLEAN]

Typed ==
  /\ kind \in Kinds
  /\ table \cup found \cup left \cup unsure \subseteq Result
  /\ {waiting, running, open, known, put, snatched, loading, broken} \subseteq BOOLEAN
  /\ searches \in 0 .. MaxSearches /\ gaps \in 0 .. MaxGaps /\ fetches \in Fetch
  /\ cache \in [Provider -> Seq(Result)]
  /\ mount \in {"providers", "cache", "empty", "done"}
  /\ fetch \in [Fetch -> FetchType]
  /\ item \in {None, "running", "finished"}
  /\ others \in 0 .. MaxOthers /\ {histories, timers} \subseteq Nat

-----------------------------------------------------------------------------
(***************************************************************************)
(* The rows of a provider, its table, and the pages of that.               *)
(***************************************************************************)

Rows(p, list) == list \in Seq(Of(p)) /\ IsInjective(list)
Full(p) == Len(TableOf(p)) >= PageSize

\* What is in a list of rows.
LEMMA RowFacts ==
  ASSUME NEW p, NEW list, Rows(p, list)
  PROVE  /\ list \in Seq(Result) /\ Len(list) \in Nat /\ DOMAIN list = 1 .. Len(list)
         /\ ToSet(list) \subseteq Of(p)
         /\ \A r : r \in ToSet(list) <=> \E k \in DOMAIN list : list[k] = r
<1>1. list \in Seq(Of(p)) /\ Of(p) \subseteq Result
  BY DEF Rows, Of
<1>2. Len(list) \in Nat /\ DOMAIN list = 1 .. Len(list) /\ \A k \in DOMAIN list : list[k] \in Of(p)
  BY <1>1
<1>3. list \in Seq(Result)
  BY <1>1
<1> QED
  BY <1>2, <1>3 DEF ToSet

\* The table has each of its results in one row, and they are of its provider.
LEMMA TableFacts ==
  ASSUME Parameters, NEW p \in Provider
  PROVE  /\ Rows(p, TableOf(p))
         /\ \A r \in Of(p) : Returned(r) => r \in ToSet(TableOf(p))
<1> DEFINE places == {k \in DOMAIN Results : ProviderOf[Results[k]] = p /\ Returned(Results[k])}
           list == TableOf(p)
<1>1. Results \in Seq(Result) /\ \A j, k \in DOMAIN Results : Results[j] = Results[k] => j = k
  BY DEF Parameters, IsInjective
<1>2. /\ list \in Seq(Result)
      /\ \A x : (\E k \in DOMAIN list : list[k] = x) <=> (\E k \in DOMAIN Results \cap places : Results[k] = x)
      /\ \A j, k \in DOMAIN list : list[j] = list[k] => j = k
  BY <1>1, ChosenOnce DEF TableOf
<1> HIDE DEF list
<1>3. \A k \in DOMAIN list : list[k] \in Of(p)
  <2> SUFFICES ASSUME NEW k \in DOMAIN list PROVE list[k] \in Of(p)
    OBVIOUS
  <2>1. PICK j \in DOMAIN Results \cap places : Results[j] = list[k]
    BY <1>2
  <2>2. list[k] \in Result /\ ProviderOf[list[k]] = p
    BY <1>2, <2>1
  <2> QED
    BY <2>2 DEF Of
<1>4. list \in Seq(Of(p))
  BY <1>2, <1>3
<1>5. ASSUME NEW r \in Of(p), Returned(r) PROVE r \in ToSet(list)
  <2>1. r \in Result /\ ProviderOf[r] = p
    BY DEF Of
  <2>2. PICK k \in DOMAIN Results : Results[k] = r
    BY <2>1 DEF Result, ToSet
  <2>3. \E j \in DOMAIN list : list[j] = r
    BY <1>2, <1>5, <2>1, <2>2
  <2> QED
    BY <2>3 DEF ToSet
<1> QED
  BY <1>2, <1>4, <1>5 DEF Rows, IsInjective, list

\* A table only grows, as long as its results are returned.
LEMMA TableGrows ==
  ASSUME Parameters, NEW p \in Provider, table \subseteq table', UNCHANGED kind
  PROVE  /\ Len(TableOf(p)) \in Nat /\ Len(TableOf(p))' \in Nat
         /\ Len(TableOf(p)) <= Len(TableOf(p))'
         /\ Full(p) => Full(p)'
<1> DEFINE places == {k \in DOMAIN Results : ProviderOf[Results[k]] = p /\ Returned(Results[k])}
<1>1. Results \in Seq(Result)
  BY DEF Parameters
<1>2. places \subseteq places'
  BY DEF Returned
<1>3. TableOf(p) = Chosen(Results, places) /\ TableOf(p)' = Chosen(Results, places')
  BY DEF TableOf
<1> HIDE DEF places
<1>4. Len(Chosen(Results, places)) <= Len(Chosen(Results, places'))
  BY <1>1, <1>2, ChosenGrows
<1>5. Chosen(Results, places) \in Seq(Result) /\ Chosen(Results, places') \in Seq(Result)
  BY <1>1, ChosenFacts
<1>6. Len(TableOf(p)) \in Nat /\ Len(TableOf(p))' \in Nat
  BY <1>3, <1>5
<1> QED
  BY <1>3, <1>4, <1>6 DEF Full, Parameters

\* A page has rows of the list; the first one has all, if it is not full.
LEMMA PageFacts ==
  ASSUME Parameters, NEW p, NEW list, Rows(p, list), NEW page \in Nat \ {0}
  PROVE  /\ Rows(p, PageOf(list, page)) /\ Len(PageOf(list, page)) <= Len(list)
         /\ page = 1 /\ Len(list) < PageSize => PageOf(list, page) = list
<1> DEFINE first == (page - 1) * PageSize
           last == IF first + PageSize < Len(list) THEN first + PageSize ELSE Len(list)
           part == PageOf(list, page)
<1>1. PageSize \in Nat \ {0} /\ page - 1 \in Nat
  BY DEF Parameters
<1>2. /\ list \in Seq(Of(p)) /\ Len(list) \in Nat /\ DOMAIN list = 1 .. Len(list)
      /\ \A j, k \in DOMAIN list : list[j] = list[k] => j = k
  BY RowFacts DEF Rows, IsInjective
<1>3. first \in Nat
  BY <1>1
<1>4. part = SubSeq(list, first + 1, last)
  BY DEF PageOf
<1>5. page = 1 => first = 0
  BY <1>1
<1> HIDE DEF first, part
<1>6. last \in Nat /\ last <= Len(list) /\ first + 1 \in Int
  BY <1>1, <1>2, <1>3
<1> HIDE DEF last
<1>7. \A i \in first + 1 .. last : list[i] \in Of(p)
  BY <1>2, <1>3, <1>6
<1>8. /\ part \in Seq(Of(p))
      /\ Len(part) = IF first + 1 <= last THEN last - (first + 1) + 1 ELSE 0
      /\ \A i \in 1 .. last - (first + 1) + 1 : part[i] = list[first + 1 + i - 1]
  BY <1>4, <1>6, <1>7, SubSeqProperties
<1>9. DOMAIN part = 1 .. Len(part)
  BY <1>8
<1>10. ASSUME NEW i \in DOMAIN part
       PROVE  first + i \in DOMAIN list /\ part[i] = list[first + i]
  <2>1. i \in Int /\ 1 <= i /\ i <= Len(part)
    BY <1>8, <1>9
  <2>2. first + 1 <= last /\ Len(part) = last - (first + 1) + 1
    BY <1>3, <1>6, <1>8, <2>1
  <2>3. i \in 1 .. last - (first + 1) + 1 /\ first + 1 + i - 1 = first + i
    BY <1>3, <1>6, <2>1, <2>2
  <2>4. part[i] = list[first + i]
    BY <1>8, <2>3
  <2>5. first + i \in 1 .. Len(list)
    BY <1>2, <1>3, <1>6, <2>3
  <2> QED
    BY <1>2, <2>4, <2>5
<1>11. Rows(p, part)
  <2>1. ASSUME NEW j \in DOMAIN part, NEW k \in DOMAIN part, part[j] = part[k] PROVE j = k
    <3>1. first + j = first + k
      BY <1>2, <1>10, <2>1
    <3> QED
      BY <1>3, <1>9, <3>1
  <2> QED
    BY <1>8, <2>1 DEF Rows, IsInjective
<1>12. Len(part) <= Len(list)
  BY <1>2, <1>3, <1>6, <1>8
<1>13. ASSUME page = 1, Len(list) < PageSize PROVE part = list
  <2>1. first = 0
    BY <1>5, <1>13
  <2>2. ~(first + PageSize < Len(list))
    BY <1>1, <1>2, <1>13, <2>1
  <2>3. last = Len(list)
    BY <2>2 DEF last
  <2>4. part = SubSeq(list, 1, Len(list))
    BY <1>4, <2>1, <2>3
  <2> QED
    BY <1>2, <2>4, SubSeqFull
<1> QED
  BY <1>11, <1>12, <1>13 DEF part

-----------------------------------------------------------------------------
(***************************************************************************)
(* The inductive invariant.                                                *)
(***************************************************************************)

\* What a fetch holds: a page after the first one was asked for because the
\* table had a full one, and an answer has rows of the table.
FetchOK(f) ==
  /\ fetch[f].at # 0 => /\ fetch[f].page >= 1
                        /\ fetch[f].page > 1 => Full(Providers[fetch[f].at])
  /\ fetch[f].answer # None =>
       /\ fetch[f].at # 0
       /\ Rows(Providers[fetch[f].at], fetch[f].answer)
       /\ Len(fetch[f].answer) <= Len(TableOf(Providers[fetch[f].at]))
FetchInv == \A f \in Fetch : FetchOK(f)

\* A fetch begins where none is.
FreshInv ==
  /\ \A f \in Fetch : f > fetches => fetch[f].at = 0
  /\ mount = "providers" => fetch[1].at = 0

CacheInv == \A p \in Provider : Rows(p, cache[p])

\* A result that the page owes is shown or on its way, and no answer on its way
\* drops it.
Excused(r) == (kind = "episode" /\ r \notin Single) \/ Full(ProviderOf[r])
Known(r) ==
  /\ Brought(r)
  /\ r \in ToSet(cache[ProviderOf[r]]) \/ Answers(ProviderOf[r]) # {}
KnownInv == \A r \in (table \cup found) \ unsure : Excused(r) \/ Known(r)

IInv == Typed /\ FetchInv /\ FreshInv /\ CacheInv /\ KnownInv

-----------------------------------------------------------------------------
\* Where a fetch is: at the provider of its answer.
LEMMA FetchFacts ==
  ASSUME Parameters, Typed, NEW f \in Fetch
  PROVE  /\ fetch[f] \in FetchType
         /\ fetch[f].at \in 0 .. Len(Providers) /\ fetch[f].page \in Nat /\ fetch[f].total \in Nat
         /\ fetch[f].answer \in Seq(Result) \cup {None} /\ fetch[f].button \in BOOLEAN
         /\ fetch[f].at # 0 => Providers[fetch[f].at] \in Provider
<1>1. fetch[f] \in FetchType
  BY DEF Typed
<1>2. Providers \in Seq(Provider)
  BY DEF Parameters
<1> QED
  BY <1>1, <1>2 DEF FetchType

\* The provider of a result.
LEMMA ResultFacts ==
  ASSUME Parameters, NEW r \in Result
  PROVE  ProviderOf[r] \in Provider /\ r \in Of(ProviderOf[r])
BY DEF Parameters, Of

\* getProviderCacheResults begins at the first page of the first provider.
LEMMA BeganFacts ==
  ASSUME Parameters, Typed, NEW f \in Fetch, NEW button \in BOOLEAN, fetch' = Began(f, button)
  PROVE  /\ fetch' \in [Fetch -> FetchType]
         /\ fetch'[f].at = 1 /\ fetch'[f].page = 1 /\ fetch'[f].answer = None
         /\ \A g \in Fetch \ {f} : fetch'[g] = fetch[g]
<1> DEFINE new == [at |-> 1, page |-> 1, total |-> 0, answer |-> None, button |-> button]
<1>1. fetch \in [Fetch -> FetchType] /\ fetch' = [fetch EXCEPT ![f] = new]
  BY DEF Typed, Began
<1>2. Len(Providers) \in Nat /\ Len(Providers) >= 1
  BY DEF Parameters
<1>3. new \in FetchType
  BY <1>2 DEF FetchType
<1> QED
  BY <1>1, <1>3

\* After the last page of a provider the fetch goes on to the next one or ends.
LEMMA NextFacts ==
  ASSUME Parameters, Typed, NEW f \in Fetch, fetch[f].at # 0, NEW total \in Nat,
         NextProvider(f, total)
  PROVE  /\ fetch' \in [Fetch -> FetchType]
         /\ fetch'[f].answer = None /\ (fetch'[f].at # 0 => fetch'[f].page = 1)
         /\ \A g \in Fetch \ {f} : fetch'[g] = fetch[g]
         /\ timers' \in Nat /\ mount' \in {"providers", "cache", "empty", "done"}
         /\ mount' = "providers" => mount = "providers"
<1>1. /\ fetch \in [Fetch -> FetchType] /\ timers \in Nat
      /\ mount \in {"providers", "cache", "empty", "done"}
  BY DEF Typed
<1>2. fetch[f].at \in 0 .. Len(Providers) /\ Len(Providers) \in Nat /\ fetch[f].button \in BOOLEAN
      /\ fetch[f] \in FetchType
  BY FetchFacts DEF Parameters
<1>3. CASE ~LastProvider(f)
  <2>1. /\ fetch' = [fetch EXCEPT ![f].at = @ + 1, ![f].page = 1,
                                  ![f].total = total, ![f].answer = None]
        /\ UNCHANGED <<mount, timers>>
    BY <1>3 DEF NextProvider
  <2>2. fetch[f].at + 1 \in 0 .. Len(Providers)
    BY <1>2, <1>3 DEF LastProvider
  <2>3. fetch' \in [Fetch -> FetchType]
    BY <1>1, <1>2, <2>1, <2>2 DEF FetchType
  <2>4. /\ fetch'[f].answer = None /\ fetch'[f].page = 1
        /\ \A g \in Fetch \ {f} : fetch'[g] = fetch[g]
    BY <1>1, <1>2, <2>1 DEF FetchType
  <2> QED
    BY <1>1, <2>1, <2>3, <2>4
<1>4. CASE LastProvider(f)
  <2>1. /\ fetch' = [fetch EXCEPT ![f] = Idle]
        /\ timers' = IF fetch[f].button THEN timers + 1 ELSE timers
        /\ mount' = IF f # 1 THEN mount ELSE IF total = 0 THEN "empty" ELSE "done"
    BY <1>4 DEF NextProvider
  <2>2. Idle \in FetchType /\ Idle.at = 0 /\ Idle.answer = None
    BY <1>2 DEF Idle, FetchType
  <2> QED
    BY <1>1, <2>1, <2>2
<1> QED
  BY <1>3, <1>4

-----------------------------------------------------------------------------
(***************************************************************************)
(* The steps that leave the table, the rows and the answers alone.         *)
(***************************************************************************)

\* A fetch that changes has no answer, and asks for a first page.
Calm ==
  /\ fetch' \in [Fetch -> FetchType] /\ fetches' \in Fetch
  /\ \A f \in Fetch : \/ fetch'[f] = fetch[f]
                      \/ /\ fetch[f].answer = None /\ fetch'[f].answer = None
                         /\ fetch'[f].at # 0 => fetch'[f].page = 1

\* A fetch keeps what it holds while the table grows.
LEMMA FetchKept ==
  ASSUME Parameters, Typed, NEW f \in Fetch, fetch'[f] = fetch[f], FetchOK(f),
         table \subseteq table', UNCHANGED kind
  PROVE  FetchOK(f)'
<1>1. CASE fetch[f].at = 0
  BY <1>1 DEF FetchOK
<1>2. CASE fetch[f].at # 0
  <2>1. Providers[fetch[f].at] \in Provider
    BY <1>2, FetchFacts
  <2>2. /\ Len(TableOf(Providers[fetch[f].at])) \in Nat
        /\ Len(TableOf(Providers[fetch[f].at]))' \in Nat
        /\ Len(TableOf(Providers[fetch[f].at])) <= Len(TableOf(Providers[fetch[f].at]))'
        /\ Full(Providers[fetch[f].at]) => Full(Providers[fetch[f].at])'
    <3> PICK p \in Provider : p = Providers[fetch[f].at]
      BY <2>1
    <3>1. /\ Len(TableOf(p)) \in Nat /\ Len(TableOf(p))' \in Nat
          /\ Len(TableOf(p)) <= Len(TableOf(p))' /\ (Full(p) => Full(p)')
      BY TableGrows
    <3>2. Providers[fetch[f].at]' = p
      OBVIOUS
    <3> QED
      BY <3>1, <3>2 DEF Full, TableOf, Returned
  <2> QED
    BY <2>2 DEF FetchOK, Rows, Of
<1> QED
  BY <1>1, <1>2

\* A first page, or none, promises nothing.
LEMMA FetchIdle ==
  ASSUME NEW f \in Fetch, fetch'[f].answer = None, fetch'[f].at # 0 => fetch'[f].page = 1
  PROVE  FetchOK(f)'
BY DEF FetchOK

\* The answers on their way are those of before.
LEMMA CalmAnswers ==
  ASSUME Calm
  PROVE  /\ \A p : Answers(p)' = Answers(p)
         /\ \A r : Brought(r)' <=> Brought(r)
<1>1. \A f \in Fetch : \/ fetch'[f] = fetch[f]
                       \/ fetch[f].answer = None /\ fetch'[f].answer = None
  BY DEF Calm
<1>2. \A p : Answers(p)' = Answers(p)
  BY <1>1 DEF Answers
<1>3. \A p : \A f \in Answers(p) : fetch'[f].answer = fetch[f].answer
  BY <1>1 DEF Answers
<1>4. \A r : Brought(r)' <=> Brought(r)
  BY <1>2, <1>3 DEF Brought
<1> QED
  BY <1>2, <1>4

\* The fetches keep what they hold.
LEMMA CalmFetches ==
  ASSUME Parameters, Typed, FetchInv, Calm, UNCHANGED <<kind, table>>
  PROVE  FetchInv'
<1> SUFFICES ASSUME NEW f \in Fetch PROVE FetchOK(f)'
  BY DEF FetchInv
<1>1. CASE fetch'[f] = fetch[f]
  BY <1>1, FetchKept DEF FetchInv
<1>2. CASE fetch'[f].answer = None /\ (fetch'[f].at # 0 => fetch'[f].page = 1)
  BY <1>2, FetchIdle
<1> QED
  BY <1>1, <1>2 DEF Calm

\* Such a step keeps the invariant.
LEMMA CalmStep ==
  ASSUME Parameters, IInv, Typed', FreshInv', Calm, UNCHANGED <<kind, table, found, cache, unsure>>
  PROVE  IInv'
<1>0. Typed /\ FetchInv /\ CacheInv /\ KnownInv
  BY DEF IInv
<1>1. FetchInv'
  BY <1>0, CalmFetches
<1>2. CacheInv'
  BY <1>0 DEF CacheInv, Rows, Of
<1>3. KnownInv'
  <2> SUFFICES ASSUME NEW r \in (table \cup found) \ unsure PROVE (Excused(r) \/ Known(r))'
    BY DEF KnownInv
  <2>1. Excused(r)' <=> Excused(r)
    BY DEF Excused, Full, TableOf, Returned
  <2>2. Known(r)' <=> Known(r)
    BY CalmAnswers DEF Known
  <2> QED
    BY <1>0, <2>1, <2>2 DEF KnownInv
<1> QED
  BY <1>1, <1>2, <1>3 DEF IInv

\* A fetch that begins is a new one.
LEMMA BeginsFacts ==
  ASSUME Parameters, Typed, FetchInv, FreshInv, NEW button \in BOOLEAN,
         Begins(button) \/ UNCHANGED <<fetch, fetches>>,
         mount' = "providers" => mount = "providers"
  PROVE  Calm /\ FreshInv'
<1>0. fetches \in Fetch /\ fetch \in [Fetch -> FetchType] /\ MaxFetches \in Nat
  BY DEF Typed, Parameters
<1>1. CASE UNCHANGED <<fetch, fetches>>
  BY <1>0, <1>1 DEF Calm, FreshInv
<1>2. CASE Begins(button) /\ fetches < MaxFetches /\ known
  <2>1. fetches' = fetches + 1 /\ fetch' = Began(fetches + 1, button)
    BY <1>2 DEF Begins
  <2>2. fetches + 1 \in Fetch /\ fetches + 1 # 1
    BY <1>0, <1>2 DEF Fetch
  <2>3. fetch[fetches + 1].at = 0 /\ fetch[fetches + 1].answer = None
    <3>1. fetches + 1 > fetches
      BY <1>0 DEF Fetch
    <3> QED
      BY <2>2, <3>1 DEF FreshInv, FetchInv, FetchOK
  <2>4. /\ fetch' \in [Fetch -> FetchType]
        /\ fetch'[fetches + 1].at = 1 /\ fetch'[fetches + 1].page = 1
        /\ fetch'[fetches + 1].answer = None
        /\ \A g \in Fetch \ {fetches + 1} : fetch'[g] = fetch[g]
    BY <2>1, <2>2, BeganFacts
  <2>5. Calm
    BY <2>1, <2>2, <2>3, <2>4 DEF Calm
  <2>6. \A f \in Fetch : f > fetches' => fetch'[f].at = 0
    BY <1>0, <2>1, <2>4 DEF FreshInv, Fetch
  <2>7. mount' = "providers" => fetch'[1].at = 0
    BY <1>0, <2>2, <2>4 DEF FreshInv, Fetch
  <2> QED
    BY <2>5, <2>6, <2>7 DEF FreshInv
<1>3. CASE Begins(button) /\ fetches < MaxFetches /\ ~known
  <2>1. fetches' = fetches + 1 /\ fetch' = fetch
    BY <1>3 DEF Begins
  <2>2. fetches' \in Fetch /\ \A f \in Fetch : f > fetches' => f > fetches
    BY <1>0, <1>3, <2>1 DEF Fetch
  <2> QED
    BY <1>0, <2>1, <2>2 DEF Calm, FreshInv
<1>4. CASE Begins(button) /\ ~(fetches < MaxFetches)
  BY <1>1, <1>4 DEF Begins
<1> QED
  BY <1>1, <1>2, <1>3, <1>4

\* Actions that touch no fetch: flags, timers and the connection.
LEMMA FlagStep ==
  ASSUME Parameters, IInv,
         \/ ProvidersFail \/ PutArrives \/ PutFails \/ ForcedByUser \/ ForcedByMounted
         \/ TimerEnds \/ HistoryFails \/ ConnectionLost \/ Reconnected
  PROVE  IInv'
<1>0. Typed /\ FetchInv /\ FreshInv
  BY DEF IInv
<1>1. /\ UNCHANGED <<kind, table, found, left, running, cache, unsure, fetch, fetches, item, snatched,
                     known, others>>
      /\ mount' \in {mount, "done"}
  BY DEF ProvidersFail, PutArrives, PutFails, ForcedByUser, ForcedByMounted, ForceSearch, TimerEnds, HistoryFails,
     ConnectionLost, Reconnected, search, socket, store, fetching, queueitems, spinner
<1>2. Typed'
  <2>1. searches' \in 0 .. MaxSearches /\ gaps' \in 0 .. MaxGaps /\ {histories', timers'} \subseteq Nat
    BY <1>0 DEF Typed, Parameters, ProvidersFail, PutArrives, PutFails, ForcedByUser, ForcedByMounted,
       ForceSearch, TimerEnds, HistoryFails, ConnectionLost, Reconnected, search, socket, store, fetching, queueitems, spinner
  <2>2. {waiting', running', open', put', snatched', loading', broken'} \subseteq BOOLEAN
    BY <1>0 DEF Typed, ProvidersFail, PutArrives, PutFails, ForcedByUser, ForcedByMounted,
       ForceSearch, TimerEnds, HistoryFails, ConnectionLost, Reconnected, search, socket, store, fetching, queueitems, spinner
  <2>3. mount' \in {"providers", "cache", "empty", "done"}
    BY <1>0, <1>1 DEF Typed
  <2> QED
    BY <1>0, <1>1, <2>1, <2>2, <2>3 DEF Typed, Fetch
<1>3. mount' = "providers" => mount = "providers"
  BY <1>1
<1>4. Calm /\ FreshInv'
  BY <1>0, <1>1, <1>3, BeginsFacts
<1> QED
  BY <1>1, <1>2, <1>4, CalmStep

\* Actions after which the page may read the tables again.
LEMMA MessageStep ==
  ASSUME Parameters, IInv,
         SearchStarts \/ SearchEnds \/ SnatchMessage \/ ForeignMessage \/ HistoryArrives \/ Refresh
  PROVE  IInv'
<1>0. Typed /\ FetchInv /\ FreshInv
  BY DEF IInv
<1> USE DEF SearchStarts, SearchEnds, SnatchMessage, ForeignMessage, OtherMessage, HistoryArrives,
      Refresh, search, socket, store, fetching
<1>1. UNCHANGED <<kind, table, found, searches, gaps, open, known, cache, mount, put, unsure>>
  OBVIOUS
<1>2. Begins(TRUE) \/ Begins(FALSE) \/ UNCHANGED <<fetch, fetches>>
  OBVIOUS
<1>3. Calm /\ FreshInv'
  BY <1>0, <1>1, <1>2, BeginsFacts
<1>4. Typed'
  <2>1. left' \subseteq Result /\ {waiting', running'} \subseteq BOOLEAN
    BY <1>0 DEF Typed
  <2>2. /\ {histories', timers'} \subseteq Nat /\ others' \in 0 .. MaxOthers
        /\ {snatched', loading', broken'} \subseteq BOOLEAN
    <3>1. /\ timers \in Nat /\ histories \in Nat /\ others \in 0 .. MaxOthers /\ MaxOthers \in Nat
          /\ snatched \in BOOLEAN /\ loading \in BOOLEAN /\ broken \in BOOLEAN
      BY <1>0 DEF Typed, Parameters
    <3>2. ASSUME OnQueueItems PROVE {histories', timers'} \subseteq Nat /\ loading' \in BOOLEAN
      <4>1. (timers' = timers + 1 \/ timers' = timers) /\ (histories' = histories + 1 \/ histories' = histories)
        BY <3>2 DEF OnQueueItems
      <4>2. loading' = TRUE \/ loading' = loading
        BY <3>2 DEF OnQueueItems
      <4>3. {histories', timers'} \subseteq Nat
        BY <3>1, <4>1
      <4>4. loading' \in BOOLEAN
        BY <3>1, <4>2, Zenon
      <4> QED
        BY <4>3, <4>4
    <3>3. ASSUME NEW status, SearchMessage(status)
          PROVE  /\ {histories', timers'} \subseteq Nat /\ others' \in 0 .. MaxOthers
                 /\ {snatched', loading', broken'} \subseteq BOOLEAN
      <4>1. CASE open
        BY <3>1, <3>2, <3>3, <4>1 DEF SearchMessage
      <4>2. CASE ~open
        BY <3>1, <3>3, <4>2 DEF SearchMessage, queueitems, spinner
      <4> QED
        BY <4>1, <4>2
    <3>4. ASSUME SnatchMessage \/ ForeignMessage
          PROVE  /\ {histories', timers'} \subseteq Nat /\ others' \in 0 .. MaxOthers
                 /\ {snatched', loading', broken'} \subseteq BOOLEAN
      <4>1. OnQueueItems /\ others < MaxOthers /\ others' = others + 1 /\ broken' = broken
        BY <3>4
      <4>2. others' \in 0 .. MaxOthers
        BY <3>1, <4>1
      <4>3. snatched' \in BOOLEAN
        BY <3>1, <3>4
      <4> QED
        BY <3>1, <3>2, <4>1, <4>2, <4>3
    <3>5. ASSUME Refresh
          PROVE  /\ {histories', timers'} \subseteq Nat /\ others' \in 0 .. MaxOthers
                 /\ {snatched', loading', broken'} \subseteq BOOLEAN
      <4>1. /\ timers' = timers + 1 \/ timers' = timers
            /\ loading' = TRUE
            /\ UNCHANGED <<histories, others, snatched, broken>>
        BY <3>5 DEF queueitems
      <4> QED
        BY <3>1, <4>1
    <3>6. ASSUME HistoryArrives
          PROVE  /\ {histories', timers'} \subseteq Nat /\ others' \in 0 .. MaxOthers
                 /\ {snatched', loading', broken'} \subseteq BOOLEAN
      <4>1. /\ histories > 0 /\ histories' = histories - 1
            /\ UNCHANGED <<timers, loading, others, snatched, broken>>
        BY <3>6 DEF queueitems, spinner
      <4> QED
        BY <3>1, <4>1
    <3> QED
      BY <3>3, <3>4, <3>5, <3>6
  <2>3. item' \in {None, "running", "finished"}
    BY <1>0 DEF Typed, SearchMessage, queueitems
  <2> QED
    BY <1>0, <1>1, <1>3, <2>1, <2>2, <2>3 DEF Typed, Calm, Fetch
<1> QED
  BY <1>1, <1>3, <1>4, CalmStep

\* A request that fails: the fetch goes on to the next provider.
LEMMA PageFailsStep ==
  ASSUME Parameters, IInv, NEW f \in Fetch, PageFails(f)
  PROVE  IInv'
<1>0. Typed /\ FetchInv /\ FreshInv
  BY DEF IInv
<1>1. /\ fetch[f].at # 0 /\ fetch[f].answer = None
      /\ NextProvider(f, fetch[f].total)
      /\ UNCHANGED <<kind, table, found, waiting, running, left, searches, open, gaps, known, cache, put,
                     fetches, histories, item, snatched, others, loading, unsure, broken>>
  BY DEF PageFails, Reading, search, socket, store, fetching, queueitems
<1>2. /\ fetch' \in [Fetch -> FetchType]
      /\ fetch'[f].answer = None /\ (fetch'[f].at # 0 => fetch'[f].page = 1)
      /\ \A g \in Fetch \ {f} : fetch'[g] = fetch[g]
      /\ timers' \in Nat /\ mount' \in {"providers", "cache", "empty", "done"}
      /\ mount' = "providers" => mount = "providers"
  <2>1. fetch[f].total \in Nat
    BY <1>0, FetchFacts
  <2> QED
    BY <1>0, <1>1, <2>1, NextFacts
<1>3. Typed'
  BY <1>0, <1>1, <1>2 DEF Typed, Fetch
<1>4. FreshInv'
  <2>1. 1 \in Fetch
    BY DEF Fetch, Parameters
  <2>2. \A g \in Fetch : fetch[g].at = 0 => fetch'[g].at = 0
    BY <1>1, <1>2
  <2> QED
    BY <1>0, <1>1, <1>2, <2>1, <2>2 DEF FreshInv
<1>5. Calm
  BY <1>0, <1>1, <1>2 DEF Calm, Typed
<1> QED
  BY <1>1, <1>3, <1>4, <1>5, CalmStep

-----------------------------------------------------------------------------
(***************************************************************************)
(* The answers.                                                            *)
(***************************************************************************)

\* The server answers a page: the answer has what the table has, if that is not a
\* page full, and the page owes it from now on.
LEMMA PageReadStep ==
  ASSUME Parameters, IInv, NEW f \in Fetch, PageRead(f)
  PROVE  IInv'
<1>0. Typed /\ FetchInv /\ FreshInv /\ CacheInv /\ KnownInv
  BY DEF IInv
<1>1. PICK p : p = Providers[fetch[f].at]
  OBVIOUS
<1> DEFINE answer == PageOf(TableOf(p), fetch[f].page)
<1>2. /\ fetch[f].at # 0 /\ fetch[f].answer = None
      /\ fetch' = [fetch EXCEPT ![f].answer = answer]
      /\ unsure' = (unsure \ {r \in Of(p) \cap table : Brought(r)}) \cup (Of(p) \cap (found \ table))
      /\ UNCHANGED <<kind, table, found, waiting, running, left, searches, open, gaps, known, cache,
                     mount, put, fetches, histories, item, snatched, others, loading, timers, broken>>
  BY <1>1 DEF PageRead, Reading, search, socket, store, fetching, queueitems, spinner
<1>3. /\ p \in Provider /\ fetch[f].page \in Nat \ {0}
      /\ fetch[f].page > 1 => Full(p)
  BY <1>0, <1>1, <1>2, FetchFacts DEF FetchInv, FetchOK
<1>4. Rows(p, TableOf(p)) /\ \A r \in Of(p) : Returned(r) => r \in ToSet(TableOf(p))
  BY <1>3, TableFacts
<1>5. /\ Rows(p, answer) /\ Len(answer) <= Len(TableOf(p))
      /\ fetch[f].page = 1 /\ Len(TableOf(p)) < PageSize => answer = TableOf(p)
  BY <1>3, <1>4, PageFacts
<1>6. answer \in Seq(Result) /\ answer # None
  BY <1>5, RowFacts DEF Parameters
<1> HIDE DEF answer
<1>7. /\ fetch \in [Fetch -> FetchType] /\ fetch[f] \in FetchType
      /\ fetch' \in [Fetch -> FetchType]
      /\ fetch'[f].answer = answer /\ fetch'[f].at = fetch[f].at /\ fetch'[f].page = fetch[f].page
      /\ \A g \in Fetch \ {f} : fetch'[g] = fetch[g]
  BY <1>0, <1>2, <1>6 DEF Typed, FetchType
<1>8. Typed'
  <2>1. unsure' \subseteq Result
    BY <1>0, <1>2 DEF Typed, Of
  <2> QED
    BY <1>0, <1>2, <1>7, <2>1 DEF Typed, Fetch
<1>9. FetchInv'
  <2>1. ASSUME NEW g \in Fetch \ {f} PROVE FetchOK(g)'
    BY <1>0, <1>2, <1>7, FetchKept DEF FetchInv
  <2>2. FetchOK(f)'
    <3>1. TableOf(p)' = TableOf(p) /\ (Full(p)' <=> Full(p)) /\ (Rows(p, answer)' <=> Rows(p, answer))
      BY <1>2 DEF TableOf, Returned, Full, Rows, Of, answer
    <3>2. Providers[fetch[f].at] = p /\ Providers[fetch'[f].at] = p
      BY <1>1, <1>7
    <3>3. /\ Rows(p, fetch'[f].answer) /\ Len(fetch'[f].answer) <= Len(TableOf(p))
          /\ fetch'[f].at # 0 /\ fetch'[f].page >= 1 /\ (fetch'[f].page > 1 => Full(p))
      BY <1>2, <1>3, <1>5, <1>7
    <3> QED
      BY <1>2, <3>1, <3>2, <3>3 DEF FetchOK, TableOf, Returned, Full, Rows, Of
  <2> QED
    BY <2>1, <2>2 DEF FetchInv
<1>10. FreshInv'
  BY <1>0, <1>2, <1>7 DEF FreshInv
<1>11. CacheInv'
  BY <1>0, <1>2 DEF CacheInv, Rows, Of
<1>12. KnownInv'
  <2> SUFFICES ASSUME NEW r \in (table \cup found) \ unsure', ~Excused(r) PROVE Known(r)'
    BY <1>2 DEF KnownInv, Excused, Full, TableOf, Returned
  <2>0. r \in Result
    BY <1>0 DEF Typed
  <2>1. \A g \in Fetch \ {f} : g \in Answers(ProviderOf[r])' <=> g \in Answers(ProviderOf[r])
    BY <1>7 DEF Answers
  <2>2. f \in Answers(ProviderOf[r])' <=> ProviderOf[r] = p
    BY <1>1, <1>6, <1>7 DEF Answers
  <2>3. f \notin Answers(ProviderOf[r])
    BY <1>2 DEF Answers
  <2>4. CASE ProviderOf[r] # p
    <3>1. Known(r)
      BY <1>0, <1>2, <2>4 DEF KnownInv, Of
    <3>2. Answers(ProviderOf[r])' = Answers(ProviderOf[r])
      BY <2>1, <2>2, <2>3, <2>4 DEF Answers
    <3>3. \A g \in Answers(ProviderOf[r]) : fetch'[g] = fetch[g]
      BY <1>7, <2>3 DEF Answers
    <3> QED
      BY <1>2, <3>1, <3>2, <3>3 DEF Known, Brought
  <2>5. CASE ProviderOf[r] = p
    <3>1. r \in Of(p) /\ r \in table
      BY <1>2, <2>0, <2>5 DEF Of
    <3>2. Brought(r)
      BY <1>0, <1>2, <3>1 DEF KnownInv, Known
    <3>3. r \in ToSet(answer)
      <4>1. Returned(r) /\ ~Full(p)
        BY <2>5, <3>1 DEF Excused, Returned
      <4>2. fetch[f].page = 1
        BY <1>3, <4>1
      <4>3. Len(TableOf(p)) < PageSize
        <5>1. Len(TableOf(p)) \in Nat
          BY <1>4, RowFacts
        <5> QED
          BY <4>1, <5>1 DEF Full, Parameters
      <4> QED
        BY <1>4, <1>5, <3>1, <4>1, <4>2, <4>3
    <3>4. \A g \in Answers(ProviderOf[r])' : r \in ToSet(fetch'[g].answer)
      <4> SUFFICES ASSUME NEW g \in Answers(ProviderOf[r])' PROVE r \in ToSet(fetch'[g].answer)
        OBVIOUS
      <4>1. CASE g = f
        BY <1>7, <3>3, <4>1
      <4>2. CASE g # f
        <5>1. g \in Fetch \ {f} /\ g \in Answers(ProviderOf[r])
          BY <2>1, <4>2 DEF Answers
        <5> QED
          BY <1>7, <3>2, <5>1 DEF Brought
      <4> QED
        BY <4>1, <4>2
    <3>5. Answers(ProviderOf[r])' # {}
      BY <2>2, <2>5
    <3> QED
      BY <3>4, <3>5 DEF Known, Brought
  <2> QED
    BY <2>4, <2>5
<1> QED
  BY <1>8, <1>9, <1>10, <1>11, <1>12 DEF IInv

\* An answer arrives and replaces the rows of its provider.
LEMMA PageArrivesStep ==
  ASSUME Parameters, IInv, NEW f \in Fetch, PageArrives(f)
  PROVE  IInv'
<1>0. Typed /\ FetchInv /\ FreshInv /\ CacheInv /\ KnownInv
  BY DEF IInv
<1>1. PICK p : p = Providers[fetch[f].at]
  OBVIOUS
<1>2. PICK answer : answer = fetch[f].answer
  OBVIOUS
<1>3. PICK total : total = fetch[f].total + Len(answer)
  OBVIOUS
<1>4. /\ fetch[f].at # 0 /\ answer # None
      /\ cache' = [cache EXCEPT ![p] = answer]
      /\ unsure' = unsure \ {r \in ToSet(answer) : Brought(r)}
      /\ UNCHANGED <<kind, table, found, waiting, running, left, searches, open, gaps, known, put,
                     fetches, histories, item, snatched, others, loading, broken>>
  BY <1>1, <1>2 DEF PageArrives, AddProviderCache, search, socket, store, fetching, queueitems
<1>5. /\ p \in Provider /\ fetch[f].page \in Nat /\ fetch[f].total \in Nat
      /\ fetch \in [Fetch -> FetchType] /\ fetch[f] \in FetchType
      /\ cache \in [Provider -> Seq(Result)]
  BY <1>0, <1>1, <1>4, FetchFacts DEF Typed
<1>6. Rows(p, answer) /\ Len(answer) <= Len(TableOf(p)) /\ fetch[f].page >= 1
  BY <1>0, <1>1, <1>2, <1>4 DEF FetchInv, FetchOK
<1>7. answer \in Seq(Result) /\ Len(answer) \in Nat /\ ToSet(answer) \subseteq Of(p)
  BY <1>6, RowFacts
<1>8. /\ fetch' \in [Fetch -> FetchType]
      /\ fetch'[f].answer = None /\ FetchOK(f)'
      /\ \A g \in Fetch \ {f} : fetch'[g] = fetch[g]
      /\ timers' \in Nat /\ mount' \in {"providers", "cache", "empty", "done"}
      /\ mount' = "providers" => mount = "providers"
  <2>1. total \in Nat
    BY <1>3, <1>5, <1>7
  <2>2. CASE Len(answer) < PageSize
    <3>1. NextProvider(f, total)
      BY <1>2, <1>3, <2>2 DEF PageArrives
    <3>2. /\ fetch' \in [Fetch -> FetchType]
          /\ fetch'[f].answer = None /\ (fetch'[f].at # 0 => fetch'[f].page = 1)
          /\ \A g \in Fetch \ {f} : fetch'[g] = fetch[g]
          /\ timers' \in Nat /\ mount' \in {"providers", "cache", "empty", "done"}
          /\ mount' = "providers" => mount = "providers"
      BY <1>0, <1>4, <2>1, <3>1, NextFacts
    <3> QED
      BY <3>2, FetchIdle
  <2>3. CASE ~(Len(answer) < PageSize)
    <3>1. /\ fetch' = [fetch EXCEPT ![f].page = @ + 1, ![f].total = total, ![f].answer = None]
          /\ UNCHANGED <<mount, timers>>
      BY <1>2, <1>3, <2>3 DEF PageArrives
    <3>2. fetch[f].page + 1 \in Nat /\ fetch[f].page + 1 >= 1
      BY <1>5
    <3>3. fetch' \in [Fetch -> FetchType]
      BY <1>5, <2>1, <3>1, <3>2 DEF FetchType
    <3>4. /\ fetch'[f].at = fetch[f].at /\ fetch'[f].page = fetch[f].page + 1
          /\ fetch'[f].answer = None
          /\ \A g \in Fetch \ {f} : fetch'[g] = fetch[g]
      BY <1>5, <3>1 DEF FetchType
    <3>5. Full(p)
      <4>1. Len(TableOf(p)) \in Nat
        BY <1>5, TableFacts, RowFacts
      <4> QED
        BY <1>6, <1>7, <2>3, <4>1 DEF Full, Parameters
    <3>6. Full(p)' <=> Full(p)
      BY <1>4 DEF Full, TableOf, Returned
    <3>7. Providers[fetch'[f].at] = p
      BY <1>1, <3>4
    <3>8. FetchOK(f)'
      BY <3>2, <3>4, <3>5, <3>6, <3>7 DEF FetchOK, Full, TableOf, Returned
    <3> QED
      BY <1>0, <3>1, <3>3, <3>4, <3>8 DEF Typed
  <2> QED
    BY <2>2, <2>3
<1>9. Typed'
  <2>1. cache' \in [Provider -> Seq(Result)]
    BY <1>4, <1>5, <1>7
  <2>2. unsure' \subseteq Result
    BY <1>0, <1>4 DEF Typed
  <2> QED
    BY <1>0, <1>4, <1>8, <2>1, <2>2 DEF Typed, Fetch
<1>10. FetchInv'
  <2>1. ASSUME NEW g \in Fetch \ {f} PROVE FetchOK(g)'
    BY <1>0, <1>4, <1>8, <2>1, FetchKept DEF FetchInv
  <2> QED
    BY <1>8, <2>1 DEF FetchInv
<1>11. FreshInv'
  <2>1. 1 \in Fetch
    BY DEF Fetch, Parameters
  <2>2. ASSUME NEW g \in Fetch, fetch[g].at = 0 PROVE fetch'[g].at = 0
    BY <1>4, <1>8, <2>2
  <2> QED
    BY <1>0, <1>4, <1>8, <2>1, <2>2 DEF FreshInv
<1>12. CacheInv'
  <2> SUFFICES ASSUME NEW q \in Provider PROVE Rows(q, cache'[q])
    BY DEF CacheInv, Rows, Of
  <2> QED
    BY <1>0, <1>4, <1>5, <1>6 DEF CacheInv
<1>13. KnownInv'
  <2> SUFFICES ASSUME NEW r \in (table \cup found) \ unsure', ~Excused(r) PROVE Known(r)'
    BY <1>4 DEF KnownInv, Excused, Full, TableOf, Returned
  <2>0. r \in Result /\ ProviderOf[r] \in Provider /\ r \in Of(ProviderOf[r])
    BY <1>0, ResultFacts DEF Typed
  <2>1. \A g \in Fetch \ {f} : g \in Answers(ProviderOf[r])' <=> g \in Answers(ProviderOf[r])
    BY <1>8 DEF Answers
  <2>2. f \notin Answers(ProviderOf[r])'
    BY <1>8 DEF Answers
  <2>3. Brought(r) => Brought(r)'
    <3> SUFFICES ASSUME Brought(r), NEW g \in Answers(ProviderOf[r])' PROVE r \in ToSet(fetch'[g].answer)
      BY DEF Brought
    <3>1. g \in Fetch \ {f} /\ g \in Answers(ProviderOf[r])
      BY <2>1, <2>2 DEF Answers
    <3> QED
      BY <1>8, <3>1 DEF Brought
  <2>4. CASE ProviderOf[r] # p
    <3>1. r \notin unsure
      BY <1>4, <1>7, <2>4 DEF Of
    <3>2. Known(r)
      BY <1>0, <3>1 DEF KnownInv
    <3>3. f \notin Answers(ProviderOf[r])
      BY <1>1, <2>4 DEF Answers
    <3>4. Answers(ProviderOf[r])' = Answers(ProviderOf[r])
      BY <2>1, <2>2, <3>3 DEF Answers
    <3>5. cache'[ProviderOf[r]] = cache[ProviderOf[r]]
      BY <1>4, <1>5, <2>0, <2>4
    <3> QED
      BY <2>3, <3>2, <3>4, <3>5 DEF Known
  <2>5. CASE ProviderOf[r] = p
    <3>1. Brought(r)
      BY <1>0, <1>4 DEF KnownInv, Known
    <3>2. f \in Answers(ProviderOf[r])
      BY <1>1, <1>2, <1>4, <2>5 DEF Answers
    <3>3. r \in ToSet(answer)
      BY <1>2, <3>1, <3>2 DEF Brought
    <3>4. cache'[ProviderOf[r]] = answer
      BY <1>4, <1>5, <2>5
    <3> QED
      BY <2>3, <3>1, <3>3, <3>4 DEF Known
  <2> QED
    BY <2>4, <2>5
<1> QED
  BY <1>9, <1>10, <1>11, <1>12, <1>13 DEF IInv

\* The providers arrive and empty the page; what it showed it need not show.
LEMMA ProvidersArriveStep ==
  ASSUME Parameters, IInv, ProvidersArrive
  PROVE  IInv'
<1>0. Typed /\ FetchInv /\ FreshInv /\ CacheInv /\ KnownInv
  BY DEF IInv
<1>1. /\ mount = "providers" /\ mount' = "cache"
      /\ cache' = [p \in Provider |-> <<>>]
      /\ known' = TRUE /\ unsure' = unsure \cup Stored
      /\ fetch' = Began(1, FALSE)
      /\ UNCHANGED <<kind, table, found, waiting, running, left, searches, open, gaps, put, fetches,
                     histories, item, snatched, others, loading, timers, broken>>
  BY DEF ProvidersArrive, search, socket, store, fetching, queueitems, spinner
<1>2. 1 \in Fetch /\ fetches \in Fetch
  BY <1>0 DEF Fetch, Parameters, Typed
<1>3. fetch[1].at = 0 /\ fetch[1].answer = None
  BY <1>0, <1>1, <1>2 DEF FreshInv, FetchInv, FetchOK
<1>4. /\ fetch' \in [Fetch -> FetchType]
      /\ fetch'[1].at = 1 /\ fetch'[1].page = 1 /\ fetch'[1].answer = None
      /\ \A g \in Fetch \ {1} : fetch'[g] = fetch[g]
  BY <1>0, <1>1, <1>2, BeganFacts
<1>5. Calm
  BY <1>1, <1>2, <1>3, <1>4 DEF Calm
<1>6. \A p \in Provider : cache[p] \in Seq(Result) /\ cache'[p] = <<>>
  BY <1>0, <1>1 DEF Typed
<1>7. Typed'
  <2>1. cache' \in [Provider -> Seq(Result)]
    BY <1>1
  <2>2. Stored \subseteq Result
    <3>1. \A p \in Provider : ToSet(cache[p]) \subseteq Result
      BY <1>0, RowFacts DEF CacheInv, Of
    <3> QED
      BY <3>1 DEF Stored
  <2>3. unsure' \subseteq Result
    BY <1>0, <1>1, <2>2 DEF Typed
  <2> QED
    BY <1>0, <1>1, <1>4, <2>1, <2>3 DEF Typed, Fetch
<1>8. FetchInv'
  BY <1>0, <1>1, <1>5, CalmFetches
<1>9. FreshInv'
  <2>1. \A f \in Fetch : f > fetches => f # 1
    BY <1>2 DEF Fetch
  <2> QED
    BY <1>0, <1>1, <1>4, <2>1 DEF FreshInv
<1>10. CacheInv'
  <2> SUFFICES ASSUME NEW p \in Provider PROVE Rows(p, cache'[p])
    BY DEF CacheInv, Rows, Of
  <2>1. cache'[p] \in Seq(Of(p))
    <3>1. cache'[p] = <<>>
      BY <1>6
    <3>2. <<>> \in Seq(Of(p))
      OBVIOUS
    <3> QED
      BY <3>1, <3>2
  <2>2. DOMAIN cache'[p] = {}
    BY <1>6
  <2> QED
    BY <2>1, <2>2 DEF Rows, IsInjective
<1>11. KnownInv'
  <2>0. \A r : Excused(r)' <=> Excused(r)
    BY <1>1 DEF Excused, Full, TableOf, Returned
  <2> SUFFICES ASSUME NEW r \in (table \cup found) \ unsure', ~Excused(r) PROVE Known(r)'
    BY <1>1, <2>0 DEF KnownInv
  <2>1. r \notin unsure /\ r \notin Stored /\ ProviderOf[r] \in Provider
    BY <1>0, <1>1, ResultFacts DEF Typed
  <2>2. Known(r)
    BY <1>0, <2>1 DEF KnownInv
  <2>3. Answers(ProviderOf[r]) # {}
    BY <2>1, <2>2 DEF Known, Stored
  <2> QED
    BY <1>5, <2>2, <2>3, CalmAnswers DEF Known
<1> QED
  BY <1>7, <1>8, <1>9, <1>10, <1>11 DEF IInv

-----------------------------------------------------------------------------
(***************************************************************************)
(* The search.                                                             *)
(***************************************************************************)

\* A result that is not there yet is one more row.
LEMMA RowAdded ==
  ASSUME NEW p, NEW r \in Of(p), NEW list, Rows(p, list)
  PROVE  /\ Rows(p, AddSearchResult(list, r))
         /\ ToSet(AddSearchResult(list, r)) = ToSet(list) \cup {r}
<1>1. CASE r \in ToSet(list)
  BY <1>1 DEF AddSearchResult
<1>2. CASE r \notin ToSet(list)
  <2> DEFINE more == Append(list, r)
  <2>1. /\ list \in Seq(Of(p)) /\ Len(list) \in Nat /\ DOMAIN list = 1 .. Len(list)
        /\ \A j, k \in DOMAIN list : list[j] = list[k] => j = k
        /\ \A k \in DOMAIN list : list[k] # r
    BY <1>2, RowFacts DEF Rows, IsInjective
  <2>2. /\ more \in Seq(Of(p)) /\ DOMAIN more = 1 .. Len(list) + 1
        /\ more[Len(list) + 1] = r
        /\ \A k \in DOMAIN list : more[k] = list[k]
    BY <2>1
  <2>3. DOMAIN more = DOMAIN list \cup {Len(list) + 1}
    BY <2>1, <2>2
  <2> HIDE DEF more
  <2>4. \A j, k \in DOMAIN more : more[j] = more[k] => j = k
    BY <2>1, <2>2, <2>3
  <2>5. ToSet(more) = ToSet(list) \cup {r}
    BY <2>1, <2>2, <2>3 DEF ToSet
  <2>6. AddSearchResult(list, r) = more
    BY <1>2 DEF AddSearchResult, more
  <2> QED
    BY <2>2, <2>4, <2>5, <2>6 DEF Rows, IsInjective
<1> QED
  BY <1>1, <1>2

\* The search finds a result: with a connection the page has it, and need not keep it
\* only if an answer on its way drops it.
LEMMA SearchFindsStep ==
  ASSUME Parameters, IInv, NEW r \in Result, SearchFinds(r)
  PROVE  IInv'
<1>0. Typed /\ FetchInv /\ FreshInv /\ CacheInv /\ KnownInv
  BY DEF IInv
<1>1. PICK p \in Provider : p = ProviderOf[r] /\ r \in Of(p)
  BY ResultFacts
<1>2. /\ left' = left \ {r} /\ found' = found \cup {r}
      /\ UNCHANGED <<kind, table, waiting, running, searches, open, gaps, known, mount, put,
                     fetch, fetches, histories, item, snatched, others, loading, timers, broken>>
  BY DEF SearchFinds, socket, store, fetching, queueitems, spinner
<1>3. CASE open /\ known
  <2>1. /\ cache' = [cache EXCEPT ![p] = AddSearchResult(@, r)]
        /\ unsure' = IF Brought(r) THEN unsure \ {r} ELSE unsure \cup {r}
    BY <1>1, <1>3 DEF SearchFinds
  <2>2. cache \in [Provider -> Seq(Result)] /\ Rows(p, cache[p])
    BY <1>0 DEF Typed, CacheInv
  <2>3. /\ Rows(p, cache'[p]) /\ ToSet(cache'[p]) = ToSet(cache[p]) \cup {r}
        /\ \A q \in Provider \ {p} : cache'[q] = cache[q]
    BY <1>1, <2>1, <2>2, RowAdded
  <2>4. Typed'
    <3>1. AddSearchResult(cache[p], r) \in Seq(Result)
      BY <1>1, <2>2, RowAdded, RowFacts
    <3>2. cache' \in [Provider -> Seq(Result)]
      BY <2>1, <2>2, <3>1
    <3>3. unsure' \subseteq Result /\ found' \subseteq Result /\ left' \subseteq Result
      BY <1>0, <1>2, <2>1 DEF Typed
    <3> QED
      BY <1>0, <1>2, <3>2, <3>3 DEF Typed, Fetch
  <2>5. CacheInv'
    <3> SUFFICES ASSUME NEW q \in Provider PROVE Rows(q, cache'[q])
      BY DEF CacheInv, Rows, Of
    <3> QED
      BY <1>0, <2>3 DEF CacheInv
  <2>6. KnownInv'
    <3> SUFFICES ASSUME NEW s \in (table \cup found') \ unsure', ~Excused(s) PROVE Known(s)'
      BY <1>2 DEF KnownInv, Excused, Full, TableOf, Returned
    <3>1. Answers(ProviderOf[s])' = Answers(ProviderOf[s]) /\ (Brought(s)' <=> Brought(s))
      BY <1>2 DEF Brought, Answers
    <3>2. CASE s = r
      BY <1>1, <2>1, <2>3, <3>1, <3>2 DEF Known
    <3>3. CASE s # r
      <4>1. s \in (table \cup found) \ unsure /\ ProviderOf[s] \in Provider
        BY <1>0, <1>2, <2>1, <3>3, ResultFacts DEF Typed
      <4>2. Known(s)
        BY <1>0, <4>1 DEF KnownInv
      <4>3. ToSet(cache[ProviderOf[s]]) \subseteq ToSet(cache'[ProviderOf[s]])
        BY <2>3, <4>1
      <4> QED
        BY <3>1, <4>2, <4>3 DEF Known
    <3> QED
      BY <3>2, <3>3
  <2> QED
    BY <1>0, <1>2, <2>4, <2>5, <2>6, CalmFetches DEF IInv, FreshInv, Calm, Typed
<1>4. CASE ~(open /\ known)
  <2>1. unsure' = unsure \cup ({r} \ table) /\ cache' = cache
    BY <1>4 DEF SearchFinds
  <2>2. Typed'
    <3>1. unsure' \subseteq Result /\ found' \subseteq Result /\ left' \subseteq Result
      BY <1>0, <1>2, <2>1 DEF Typed
    <3> QED
      BY <1>0, <1>2, <2>1, <3>1 DEF Typed, Fetch
  <2>3. CacheInv'
    BY <1>0, <2>1 DEF CacheInv, Rows, Of
  <2>4. KnownInv'
    <3> SUFFICES ASSUME NEW s \in (table \cup found') \ unsure', ~Excused(s) PROVE Known(s)'
      BY <1>2 DEF KnownInv, Excused, Full, TableOf, Returned
    <3>1. s \in (table \cup found) \ unsure
      BY <1>2, <2>1
    <3> QED
      BY <1>0, <1>2, <2>1, <3>1 DEF KnownInv, Known, Brought, Answers
  <2> QED
    BY <1>0, <1>2, <2>2, <2>3, <2>4, CalmFetches DEF IInv, FreshInv, Calm, Typed
<1> QED
  BY <1>3, <1>4

\* The search writes what it found of a provider to its table.
LEMMA SearchWritesStep ==
  ASSUME Parameters, IInv, NEW p \in Provider, SearchWrites(p)
  PROVE  IInv'
<1>0. Typed /\ FetchInv /\ FreshInv /\ CacheInv /\ KnownInv
  BY DEF IInv
<1>1. /\ table' = table \cup (found \cap Of(p)) /\ found' = found \ Of(p)
      /\ UNCHANGED <<kind, waiting, running, left, searches, open, gaps, known, cache, mount,
                     put, fetch, fetches, histories, item, snatched, others, loading, timers, unsure, broken>>
  BY DEF SearchWrites, socket, store, fetching, queueitems, spinner
<1>2. Typed'
  BY <1>0, <1>1 DEF Typed, Fetch
<1>3. FetchInv'
  BY <1>0, <1>1, FetchKept DEF FetchInv
<1>4. FreshInv' /\ CacheInv'
  BY <1>0, <1>1 DEF FreshInv, CacheInv, Rows, Of
<1>5. KnownInv'
  <2> SUFFICES ASSUME NEW r \in (table' \cup found') \ unsure PROVE (Excused(r) \/ Known(r))'
    BY <1>1 DEF KnownInv
  <2>1. r \in (table \cup found) \ unsure /\ ProviderOf[r] \in Provider
    BY <1>0, <1>1, ResultFacts DEF Typed
  <2>2. Excused(r) \/ Known(r)
    BY <1>0, <2>1 DEF KnownInv
  <2>3. Full(ProviderOf[r]) => Full(ProviderOf[r])'
    BY <1>1, <2>1, TableGrows
  <2>4. Excused(r) => Excused(r)'
    BY <1>1, <2>3 DEF Excused, Full, TableOf, Returned
  <2>5. Known(r) => Known(r)'
    BY <1>1 DEF Known, Brought, Answers
  <2> QED
    BY <2>2, <2>4, <2>5
<1> QED
  BY <1>2, <1>3, <1>4, <1>5 DEF IInv

-----------------------------------------------------------------------------
(***************************************************************************)
(* The theorems.                                                           *)
(***************************************************************************)

\* At the start nothing is shown, and the page owes nothing.
LEMMA Initial ==
  ASSUME Parameters, Init
  PROVE  IInv
<1>1. /\ kind \in Kinds /\ table \in Tables /\ found = {} /\ left = {} /\ unsure = table
      /\ waiting = FALSE /\ running = FALSE /\ open = TRUE /\ put = FALSE /\ snatched = FALSE
      /\ known \in BOOLEAN /\ others = 0 /\ histories = 0
      /\ loading = FALSE /\ broken = FALSE
      /\ searches = 0 /\ gaps = 0 /\ fetches = 1 /\ item = None /\ timers = 0 /\ mount = "providers"
      /\ cache = [p \in Provider |-> <<>>] /\ fetch = [f \in Fetch |-> Idle]
  BY DEF Init
<1>2. Idle \in FetchType /\ Idle.at = 0 /\ Idle.answer = None
  BY DEF Idle, FetchType, Parameters
<1>3. 1 \in Fetch
  BY DEF Fetch, Parameters
<1>4. Typed
  <2>1. table \cup found \cup left \cup unsure \subseteq Result
    BY <1>1 DEF Parameters
  <2>2. cache \in [Provider -> Seq(Result)] /\ fetch \in [Fetch -> FetchType]
    BY <1>1, <1>2
  <2>3. /\ searches \in 0 .. MaxSearches /\ gaps \in 0 .. MaxGaps /\ others \in 0 .. MaxOthers
        /\ {histories, timers} \subseteq Nat
    BY <1>1 DEF Parameters
  <2> QED
    BY <1>1, <1>3, <2>1, <2>2, <2>3 DEF Typed
<1>5. FetchInv /\ FreshInv
  BY <1>1, <1>2, <1>3 DEF FetchInv, FetchOK, FreshInv
<1>6. CacheInv
  BY <1>1 DEF CacheInv, Rows, IsInjective
<1>7. KnownInv
  BY <1>1 DEF KnownInv
<1> QED
  BY <1>4, <1>5, <1>6, <1>7 DEF IInv

\* Every step keeps the invariant.
LEMMA Inductive ==
  ASSUME Parameters, IInv, [Next]_vars
  PROVE  IInv'
<1>1. CASE UNCHANGED vars
  <2>1. UNCHANGED <<kind, table, found, waiting, running, left, searches, open, gaps, known, cache,
                    mount, put, fetch, fetches, histories, item, snatched, others, loading, timers,
                    unsure, broken>>
    BY <1>1 DEF vars, search, socket, store, fetching, queueitems, spinner
  <2>2. Typed' /\ FreshInv' /\ Calm
    BY <2>1 DEF IInv, Typed, FreshInv, Calm, Fetch
  <2> QED
    BY <2>1, <2>2, CalmStep
<1>2. CASE Mounted
  BY <1>2, ProvidersArriveStep, FlagStep DEF Mounted
<1>3. CASE Fetching
  BY <1>3, PageReadStep, PageArrivesStep, PageFailsStep DEF Fetching
<1>4. CASE Queue
  BY <1>4, FlagStep, MessageStep DEF Queue
<1>5. CASE Finding
  BY <1>5, SearchFindsStep DEF Finding
<1>6. CASE Writing
  BY <1>6, SearchWritesStep DEF Writing
<1>7. CASE User
  BY <1>7, FlagStep, MessageStep DEF User
<1>8. CASE TimerEnds \/ Connection
  BY <1>8, FlagStep DEF Connection
<1>9. CASE History
  BY <1>9, FlagStep, MessageStep DEF History
<1>10. CASE Others
  BY <1>10, MessageStep DEF Others
<1> QED
  BY <1>1, <1>2, <1>3, <1>4, <1>5, <1>6, <1>7, <1>8, <1>9, <1>10 DEF Next

\* The invariant holds, whatever the page, the server and the network do.
THEOREM Invariance ==
  ASSUME Parameters
  PROVE  Spec => []IInv
<1>1. Init => IInv
  BY Initial
<1>2. IInv /\ [Next]_vars => IInv'
  BY Inductive
<1> QED
  BY <1>1, <1>2, PTL DEF Spec

\* The page, its fetches and the search keep to their types.
THEOREM TypeCorrect ==
  ASSUME Parameters
  PROVE  Spec => []TypeOK
<1>1. IInv => TypeOK
  <2> SUFFICES ASSUME Typed PROVE TypeOK
    BY DEF IInv
  <2>1. ASSUME NEW f \in Fetch
        PROVE  fetch[f].at \in 0 .. Len(Providers)
               /\ (fetch[f].answer = None \/ fetch[f].answer \in Seq(Result))
    BY FetchFacts
  <2> QED
    BY <2>1 DEF Typed, TypeOK
<1> QED
  BY <1>1, Invariance, PTL

\* However a result comes, by the websocket, a page or both, and in whichever order,
\* the page shows it in one row, and under its own provider.
THEOREM Once ==
  ASSUME Parameters
  PROVE  Spec => []ShownOnce
<1>1. IInv => ShownOnce
  <2> SUFFICES ASSUME CacheInv, NEW p \in Provider
               PROVE  IsInjective(cache[p]) /\ ToSet(cache[p]) \subseteq Of(p)
    BY DEF IInv, ShownOnce
  <2> QED
    BY RowFacts DEF CacheInv, Rows
<1> QED
  BY <1>1, Invariance, PTL

\* When no answer is on its way, the page shows every result of the searches that is for
\* it and that it owes.
THEOREM Complete ==
  ASSUME Parameters
  PROVE  Spec => []ResultsShown
<1>1. IInv => ResultsShown
  <2> SUFFICES ASSUME IInv, \A f \in Fetch : fetch[f].answer = None,
                      NEW r \in (table \ unsure) \cap Asked
               PROVE  \/ r \in Shown
                      \/ kind = "episode" /\ r \in Packs
                      \/ Len(TableOf(ProviderOf[r])) >= PageSize
    BY DEF ResultsShown
  <2>1. Excused(r) \/ Known(r)
    BY DEF IInv, KnownInv
  <2>2. Answers(ProviderOf[r]) = {} /\ ProviderOf[r] \in Provider
    BY ResultFacts DEF Answers, IInv, Typed
  <2>3. Known(r) => r \in Shown
    BY <2>2 DEF Known, Shown, Stored
  <2> QED
    BY <2>1, <2>3 DEF Excused, Full, Asked, Single
<1> QED
  BY <1>1, Invariance, PTL
=============================================================================
