------------------------- MODULE SubsequencesProofs -------------------------
(***************************************************************************)
(* What Chosen takes out of a sequence, for sequences of any length.  The  *)
(* proofs go by induction over the length, in the form of sets of numbers: *)
(* one that has 0 and with each number the next one is Nat, since the      *)
(* numbers it lacks would have a least one.                                *)
(***************************************************************************)
EXTENDS Subsequences, Integers, WellFoundedInduction, FiniteSetTheorems, TLAPS

\* A set of numbers has a least one.
LEMMA LeastNumber ==
  ASSUME NEW S \in SUBSET Nat, S # {}
  PROVE  \E m \in S : \A k \in S : m <= k
<1>1. PICK m \in S : \A k \in S : ~(<<k, m>> \in OpToRel(<, Nat))
  BY WFMin, NatLessThanWellFounded, Zenon
<1>2. \A k \in S : ~(k < m)
  BY <1>1 DEF OpToRel
<1> QED
  BY <1>2

\* A set that has 0 and with each number the next one has all numbers.
LEMMA Induction ==
  ASSUME NEW P \in SUBSET Nat, 0 \in P, \A n \in P : n + 1 \in P
  PROVE  Nat \subseteq P
<1> SUFFICES ASSUME Nat \ P # {} PROVE FALSE
  OBVIOUS
<1>1. PICK m \in Nat \ P : \A k \in Nat \ P : m <= k
  BY LeastNumber
<1>2. m # 0 /\ m - 1 \in Nat /\ m - 1 \notin Nat \ P
  BY <1>1
<1> QED
  BY <1>1, <1>2

\* A function by recursion over the numbers up to n exists.
Recurs(f, a, n, step) == f[0] = a /\ \A k \in 1 .. n : f[k] = step[k][f[k - 1]]

LEMMA RecursionExists ==
  ASSUME NEW S, NEW a \in S, NEW n \in Nat, NEW step \in [1 .. n -> [S -> S]]
  PROVE  \E f \in [0 .. n -> S] : Recurs(f, a, n, step)
<1> DEFINE Fits(m, f) == Recurs(f, a, m, step)
           P == {m \in Nat : m <= n => \E f \in [0 .. m -> S] : Fits(m, f)}
<1>1. 0 \in P
  <2> DEFINE f == [k \in 0 .. 0 |-> a]
  <2>1. f \in [0 .. 0 -> S] /\ f[0] = a
    OBVIOUS
  <2>2. \A k \in 1 .. 0 : FALSE
    OBVIOUS
  <2> HIDE DEF f
  <2>3. Fits(0, f)
    BY <2>1, <2>2 DEF Recurs
  <2> QED
    BY <2>1, <2>3
<1>2. ASSUME NEW m \in Nat, m + 1 <= n, \E f \in [0 .. m -> S] : Fits(m, f)
      PROVE  \E f \in [0 .. m + 1 -> S] : Fits(m + 1, f)
  <2>1. PICK f \in [0 .. m -> S] : Fits(m, f)
    BY <1>2
  <2> DEFINE g == [k \in 0 .. m + 1 |-> IF k = m + 1 THEN step[k][f[k - 1]] ELSE f[k]]
  <2>2. step[m + 1] \in [S -> S] /\ f[m] \in S
    BY <1>2
  <2>3. g \in [0 .. m + 1 -> S]
    BY <2>2
  <2>4. Fits(m + 1, g)
    <3>1. g[0] = a
      BY <2>1 DEF Recurs
    <3>2. ASSUME NEW k \in 1 .. m + 1 PROVE g[k] = step[k][g[k - 1]]
      <4>1. k - 1 \in 0 .. m /\ g[k - 1] = f[k - 1]
        OBVIOUS
      <4>2. CASE k = m + 1
        BY <4>1, <4>2
      <4>3. CASE k # m + 1
        BY <2>1, <4>1, <4>3 DEF Recurs
      <4> QED
        BY <4>2, <4>3
    <3> QED
      BY <3>1, <3>2 DEF Recurs
  <2> QED
    BY <2>3, <2>4
<1>3. ASSUME NEW m \in P PROVE m + 1 \in P
  <2>1. m + 1 <= n => m <= n
    OBVIOUS
  <2> HIDE DEF Fits
  <2> QED
    BY <1>2, <2>1
<1> HIDE DEF P
<1>4. n \in P
  BY <1>1, <1>3, Induction DEF P
<1> QED
  BY <1>4 DEF P

\* What holds of 0 and is handed on to the next number holds of all up to n.
LEMMA UpToInduction ==
  ASSUME NEW n \in Nat, NEW P \in SUBSET Nat, 0 \in P, \A k \in 1 .. n : k - 1 \in P => k \in P
  PROVE  0 .. n \subseteq P
<1> DEFINE Q == {k \in Nat : k <= n => k \in P}
<1>1. 0 \in Q
  OBVIOUS
<1>2. ASSUME NEW k \in Q PROVE k + 1 \in Q
  <2>1. k + 1 <= n => k + 1 \in 1 .. n /\ (k + 1) - 1 = k
    OBVIOUS
  <2> QED
    BY <2>1
<1> HIDE DEF Q
<1>3. Nat \subseteq Q
  BY <1>1, <1>2, Induction DEF Q
<1> QED
  BY <1>3 DEF Q

-----------------------------------------------------------------------------
\* The function of Chosen, up to the n-th place.
Step(list, places, f, k) ==
  IF k = 0 THEN <<>> ELSE IF k \in places THEN Append(f[k - 1], list[k]) ELSE f[k - 1]

UpTo(list, places, n, f) == f = [k \in 0 .. n |-> Step(list, places, f, k)]

\* The function that Chosen recurs on exists.
LEMMA UpToExists ==
  ASSUME NEW S, NEW list \in Seq(S), NEW places, NEW n \in Nat
  PROVE  \E f : UpTo(list, places, n, f)
<1> DEFINE P == {k \in Nat : \E f : UpTo(list, places, k, f)}
<1>1. 0 \in P
  <2>1. UpTo(list, places, 0, [k \in 0 .. 0 |-> <<>>])
    BY DEF UpTo, Step
  <2> QED
    BY <2>1
<1>2. ASSUME NEW k \in P PROVE k + 1 \in P
  <2>1. PICK f : UpTo(list, places, k, f)
    OBVIOUS
  <2> DEFINE g == [i \in 0 .. k + 1 |-> IF i = k + 1 THEN Step(list, places, f, i) ELSE f[i]]
  <2>2. ASSUME NEW i \in 0 .. k + 1 PROVE g[i] = Step(list, places, g, i)
    <3>1. i # 0 => g[i - 1] = f[i - 1]
      OBVIOUS
    <3>2. i # k + 1 => f[i] = Step(list, places, f, i)
      BY <2>1 DEF UpTo
    <3>3. g[i] = Step(list, places, f, i)
      BY <3>2
    <3> QED
      BY <3>1, <3>3 DEF Step
  <2>3. UpTo(list, places, k + 1, g)
    <3> HIDE DEF g
    <3>1. g = [i \in 0 .. k + 1 |-> g[i]]
      BY DEF g
    <3> QED
      BY <2>2, <3>1 DEF UpTo
  <2> QED
    BY <2>3
<1> HIDE DEF P
<1>3. Nat \subseteq P
  BY <1>1, <1>2, Induction DEF P
<1> QED
  BY <1>3 DEF P

\* What the first n places give: their elements in order, each once.
Collected(list, places, n, part) ==
  \E at \in [DOMAIN part -> (1 .. n) \cap places] :
    /\ \A k \in DOMAIN part : part[k] = list[at[k]]
    /\ \A j, k \in DOMAIN part : j < k => at[j] < at[k]
    /\ \A i \in (1 .. n) \cap places : \E k \in DOMAIN part : at[k] = i

\* One more place: its element comes last, if it is chosen.
LEMMA CollectedStep ==
  ASSUME NEW S, NEW list \in Seq(S), NEW places, NEW n \in Nat, n < Len(list),
         NEW part \in Seq(S), Collected(list, places, n, part)
  PROVE  /\ n + 1 \in places => Collected(list, places, n + 1, Append(part, list[n + 1]))
         /\ n + 1 \notin places => Collected(list, places, n + 1, part)
<1>1. PICK at \in [DOMAIN part -> (1 .. n) \cap places] :
        /\ \A k \in DOMAIN part : part[k] = list[at[k]]
        /\ \A j, k \in DOMAIN part : j < k => at[j] < at[k]
        /\ \A i \in (1 .. n) \cap places : \E k \in DOMAIN part : at[k] = i
  BY DEF Collected
<1>2. ASSUME n + 1 \in places
      PROVE  Collected(list, places, n + 1, Append(part, list[n + 1]))
  <2> DEFINE more == Append(part, list[n + 1])
             to == [k \in DOMAIN more |-> IF k = Len(part) + 1 THEN n + 1 ELSE at[k]]
  <2>1. /\ DOMAIN part = 1 .. Len(part) /\ DOMAIN more = 1 .. Len(part) + 1
        /\ more[Len(part) + 1] = list[n + 1]
        /\ \A k \in DOMAIN part : more[k] = part[k]
    OBVIOUS
  <2> HIDE DEF more
  <2>2. to \in [DOMAIN more -> (1 .. n + 1) \cap places]
    BY <1>2, <2>1
  <2>3. \A k \in DOMAIN more : more[k] = list[to[k]]
    BY <1>1, <2>1
  <2>4. \A j, k \in DOMAIN more : j < k => to[j] < to[k]
    BY <1>1, <2>1
  <2>5. ASSUME NEW i \in (1 .. n + 1) \cap places PROVE \E k \in DOMAIN more : to[k] = i
    BY <1>1, <2>1
  <2> QED
    BY <2>2, <2>3, <2>4, <2>5 DEF Collected, more
<1>3. ASSUME n + 1 \notin places PROVE Collected(list, places, n + 1, part)
  <2>1. (1 .. n + 1) \cap places = (1 .. n) \cap places
    BY <1>3
  <2> QED
    BY <1>1, <2>1 DEF Collected
<1> QED
  BY <1>2, <1>3

\* Chosen yields the elements at the places of the set that the list has, in
\* their order.
LEMMA ChosenFacts ==
  ASSUME NEW S, NEW list \in Seq(S), NEW places
  PROVE  /\ Chosen(list, places) \in Seq(S)
         /\ Collected(list, places, Len(list), Chosen(list, places))
<1> DEFINE F == CHOOSE f : UpTo(list, places, Len(list), f)
<1>1. Len(list) \in Nat
  OBVIOUS
<1>2. UpTo(list, places, Len(list), F)
  BY <1>1, UpToExists, Zenon
<1>3. Chosen(list, places) = F[Len(list)]
  BY DEF Chosen, UpTo, Step
<1> HIDE DEF F
<1> DEFINE P == {n \in Nat : n <= Len(list) => F[n] \in Seq(S) /\ Collected(list, places, n, F[n])}
<1>4. \A n \in 0 .. Len(list) : F[n] = Step(list, places, F, n)
  BY <1>1, <1>2 DEF UpTo
<1>5. 0 \in P
  <2>1. F[0] = <<>>
    BY <1>1, <1>4 DEF Step
  <2>2. \A part \in Seq(S) : DOMAIN part = {} => Collected(list, places, 0, part)
    <3> SUFFICES ASSUME NEW part \in Seq(S), DOMAIN part = {}
                 PROVE  Collected(list, places, 0, part)
      OBVIOUS
    <3>1. part \in [DOMAIN part -> (1 .. 0) \cap places]
      OBVIOUS
    <3>2. \A i \in (1 .. 0) \cap places : FALSE
      OBVIOUS
    <3> QED
      BY <3>1, <3>2, Zenon DEF Collected
  <2>3. <<>> \in Seq(S) /\ DOMAIN <<>> = {}
    OBVIOUS
  <2>4. F[0] \in Seq(S) /\ Collected(list, places, 0, F[0])
    BY <2>1, <2>2, <2>3
  <2> QED
    BY <2>4
<1>6. ASSUME NEW n \in P PROVE n + 1 \in P
  <2> SUFFICES ASSUME n + 1 <= Len(list)
               PROVE  F[n + 1] \in Seq(S) /\ Collected(list, places, n + 1, F[n + 1])
    OBVIOUS
  <2>1. F[n] \in Seq(S) /\ Collected(list, places, n, F[n])
    BY <1>1
  <2>2. F[n + 1] = IF n + 1 \in places THEN Append(F[n], list[n + 1]) ELSE F[n]
    BY <1>1, <1>4 DEF Step
  <2>3. list[n + 1] \in S
    BY <1>1
  <2> HIDE DEF P
  <2>4. n \in Nat /\ n < Len(list)
    BY <1>1 DEF P
  <2> QED
    BY <2>1, <2>2, <2>3, <2>4, CollectedStep
<1> HIDE DEF P
<1>7. P \subseteq Nat
  BY DEF P
<1>8. Len(list) \in P
  BY <1>1, <1>5, <1>6, <1>7, Induction
<1> QED
  BY <1>1, <1>3, <1>8 DEF P

\* The places that Chosen takes are taken once each.
LEMMA ChosenOnce ==
  ASSUME NEW S, NEW list \in Seq(S), NEW places,
         \A j, k \in DOMAIN list : list[j] = list[k] => j = k
  PROVE  LET part == Chosen(list, places) IN
         /\ part \in Seq(S)
         /\ \A x : (\E k \in DOMAIN part : part[k] = x)
                     <=> (\E k \in DOMAIN list \cap places : list[k] = x)
         /\ \A j, k \in DOMAIN part : part[j] = part[k] => j = k
<1> DEFINE part == Chosen(list, places)
<1>1. part \in Seq(S) /\ Collected(list, places, Len(list), part)
  BY ChosenFacts
<1>2. DOMAIN list = 1 .. Len(list) /\ DOMAIN part = 1 .. Len(part) /\ Len(part) \in Nat
  BY <1>1
<1> HIDE DEF part
<1>3. PICK at \in [DOMAIN part -> (1 .. Len(list)) \cap places] :
        /\ \A k \in DOMAIN part : part[k] = list[at[k]]
        /\ \A j, k \in DOMAIN part : j < k => at[j] < at[k]
        /\ \A i \in (1 .. Len(list)) \cap places : \E k \in DOMAIN part : at[k] = i
  BY <1>1 DEF Collected
<1>4. ASSUME NEW x
      PROVE  (\E k \in DOMAIN part : part[k] = x) <=> (\E k \in DOMAIN list \cap places : list[k] = x)
  BY <1>2, <1>3
<1>5. ASSUME NEW j \in DOMAIN part, NEW k \in DOMAIN part, part[j] = part[k], j < k
      PROVE  FALSE
  <2>1. at[j] = at[k]
    BY <1>2, <1>3, <1>5
  <2>2. at[j] < at[k] /\ at[j] \in Nat
    BY <1>2, <1>3, <1>5
  <2> QED
    BY <2>1, <2>2
<1>6. \A j, k \in DOMAIN part : part[j] = part[k] => j = k
  BY <1>2, <1>5
<1> QED
  BY <1>1, <1>4, <1>6 DEF part

\* More places give no fewer elements: each element stands for its place.
LEMMA ChosenGrows ==
  ASSUME NEW S, NEW list \in Seq(S), NEW places, NEW more, places \subseteq more
  PROVE  Len(Chosen(list, places)) <= Len(Chosen(list, more))
<1> DEFINE part == Chosen(list, places)
           whole == Chosen(list, more)
<1>1. /\ part \in Seq(S) /\ Collected(list, places, Len(list), part)
      /\ whole \in Seq(S) /\ Collected(list, more, Len(list), whole)
  BY ChosenFacts
<1>2. /\ DOMAIN part = 1 .. Len(part) /\ Len(part) \in Nat
      /\ DOMAIN whole = 1 .. Len(whole) /\ Len(whole) \in Nat
  BY <1>1
<1> HIDE DEF part, whole
<1>3. PICK at \in [DOMAIN part -> (1 .. Len(list)) \cap places] :
        \A j, k \in DOMAIN part : j < k => at[j] < at[k]
  BY <1>1 DEF Collected
<1>4. PICK to \in [DOMAIN whole -> (1 .. Len(list)) \cap more] :
        \A i \in (1 .. Len(list)) \cap more : \E k \in DOMAIN whole : to[k] = i
  BY <1>1 DEF Collected
<1> DEFINE f == [k \in DOMAIN part |-> CHOOSE j \in DOMAIN whole : to[j] = at[k]]
<1>5. \A k \in DOMAIN part : f[k] \in DOMAIN whole /\ to[f[k]] = at[k]
  BY <1>3, <1>4
<1> SUFFICES ASSUME Len(whole) < Len(part) PROVE FALSE
  BY <1>2 DEF part, whole
<1>6. f \in [DOMAIN part -> DOMAIN whole]
  BY <1>5
<1> HIDE DEF f
<1>7. /\ IsFiniteSet(DOMAIN part) /\ Cardinality(DOMAIN part) = Len(part)
      /\ IsFiniteSet(DOMAIN whole) /\ Cardinality(DOMAIN whole) = Len(whole)
  <2>1. \A n \in Nat : IsFiniteSet(1 .. n) /\ Cardinality(1 .. n) = n
    <3> SUFFICES ASSUME NEW n \in Nat PROVE IsFiniteSet(1 .. n) /\ Cardinality(1 .. n) = n
      OBVIOUS
    <3>1. 1 \in Int /\ n \in Int
      OBVIOUS
    <3>2. IsFiniteSet(1 .. n) /\ Cardinality(1 .. n) = IF 1 > n THEN 0 ELSE n - 1 + 1
      BY <3>1, FS_Interval, Zenon
    <3> QED
      BY <3>2
  <2> QED
    BY <1>2, <2>1
<1>8. PICK j \in DOMAIN part, k \in DOMAIN part : j # k /\ f[j] = f[k]
  <2>1. Cardinality(DOMAIN whole) < Cardinality(DOMAIN part)
    BY <1>7
  <2>2. \E j, k \in DOMAIN part : j # k /\ f[j] = f[k]
    BY <1>6, <1>7, <2>1, FS_PigeonHole, Zenon
  <2> QED
    BY <2>2
<1>9. at[j] = at[k] /\ at[j] \in Int
  BY <1>3, <1>5, <1>8
<1>10. j < k \/ k < j
  BY <1>2, <1>8
<1> QED
  BY <1>3, <1>9, <1>10
=============================================================================
