----------------------------- MODULE ListFacts -----------------------------
(***************************************************************************)
(* Facts about lists that the proofs about the browsers share: how often   *)
(* something occurs in a list, what removing elements leaves, and how a    *)
(* queue of announcements leads from what has been heard to what is known. *)
(*                                                                         *)
(* What a recursive definition computes is proved by the least-number      *)
(* principle: of the numbers for which a statement fails there would be a  *)
(* least one.                                                              *)
(***************************************************************************)
EXTENDS QList, SequencesExt, FiniteSets, SequenceTheorems, FiniteSetTheorems, TLAPS

LEMMA LeastNumber ==
    ASSUME NEW T \in SUBSET Nat, T # {}
    PROVE  \E m \in T : \A k \in T : m <= k
<1> DEFINE R == {p \in Nat \X Nat : p[1] < p[2]}
<1>1. IsWellFoundedOn(R, Nat)
  BY NatLessThanWellFounded DEF OpToRel
<1>2. PICK m \in T : \A k \in T : <<k, m>> \notin R
  <2> HIDE DEF R
  <2> QED
    BY <1>1, WFMin
<1>3. \A k \in T : ~(k < m)
  BY <1>2
<1> QED
  BY <1>2, <1>3

-----------------------------------------------------------------------------
(***************************************************************************)
(* Elements and ends of a list.                                            *)
(***************************************************************************)
LEMMA ListBasics ==
    ASSUME NEW S, NEW list \in Seq(S)
    PROVE  /\ Len(list) \in Nat
           /\ DOMAIN list = 1..Len(list)
           /\ \A i \in DOMAIN list : list[i] \in S
           /\ list = << >> <=> DOMAIN list = {}
<1>1. Len(list) \in Nat /\ DOMAIN list = 1..Len(list)
  BY LenProperties
<1>2. \A i \in DOMAIN list : list[i] \in S
  BY <1>1, ElementOfSeq
<1>3. list # << >> => Len(list) \in Nat \ {0}
  BY EmptySeq
<1>4. list = << >> => Len(list) = 0
  BY EmptySeq
<1>5. list = << >> => 1..Len(list) = {}
  BY <1>4
<1>6. list # << >> => 1 \in 1..Len(list)
  BY <1>3
<1> QED
  BY <1>1, <1>2, <1>5, <1>6

LEMMA AppendFacts ==
    ASSUME NEW S, NEW list \in Seq(S), NEW e \in S
    PROVE  /\ Append(list, e) \in Seq(S)
           /\ Append(list, e) # << >>
           /\ Len(Append(list, e)) = Len(list) + 1
           /\ DOMAIN Append(list, e) = DOMAIN list \cup {Len(list) + 1}
           /\ Len(list) + 1 \notin DOMAIN list
           /\ \A i \in DOMAIN list : Append(list, e)[i] = list[i]
           /\ Append(list, e)[Len(list) + 1] = e
           /\ ToSet(Append(list, e)) = ToSet(list) \cup {e}
<1>1. /\ Append(list, e) \in Seq(S)
      /\ Append(list, e) # << >>
      /\ Len(Append(list, e)) = Len(list) + 1
      /\ \A i \in 1..Len(list) : Append(list, e)[i] = list[i]
      /\ Append(list, e)[Len(list) + 1] = e
  BY AppendProperties
<1>2. DOMAIN list = 1..Len(list) /\ Len(list) \in Nat
  BY LenProperties
<1>3. DOMAIN Append(list, e) = 1..(Len(list) + 1)
  BY <1>1, LenProperties
<1>4. DOMAIN Append(list, e) = DOMAIN list \cup {Len(list) + 1} /\ Len(list) + 1 \notin DOMAIN list
  BY <1>2, <1>3
<1>5. ToSet(Append(list, e)) = ToSet(list) \cup {e}
  BY <1>1, <1>2, <1>4 DEF ToSet
<1> QED
  BY <1>1, <1>2, <1>4, <1>5

LEMMA HeadTailFacts ==
    ASSUME NEW S, NEW list \in Seq(S), list # << >>
    PROVE  /\ Head(list) \in S /\ Head(list) = list[1] /\ 1 \in DOMAIN list
           /\ Tail(list) \in Seq(S)
           /\ Len(list) \in Nat \ {0}
           /\ Len(Tail(list)) = Len(list) - 1
           /\ DOMAIN Tail(list) = 1..(Len(list) - 1)
           /\ \A i \in DOMAIN Tail(list) : i + 1 \in DOMAIN list /\ Tail(list)[i] = list[i + 1]
<1>1. /\ Head(list) \in S /\ Tail(list) \in Seq(S) /\ Len(Tail(list)) = Len(list) - 1
      /\ \A i \in 1..Len(Tail(list)) : Tail(list)[i] = list[i + 1]
  BY HeadTailProperties
<1>2. Len(list) \in Nat \ {0} /\ DOMAIN list = 1..Len(list)
  BY EmptySeq, LenProperties
<1>3. Head(list) = list[1]
  OBVIOUS
<1>4. DOMAIN Tail(list) = 1..(Len(list) - 1)
  BY <1>1, LenProperties
<1> QED
  BY <1>1, <1>2, <1>3, <1>4

LEMMA TailNotEmpty ==
    ASSUME NEW S, NEW list \in Seq(S), list # << >>, Len(list) # 1
    PROVE  Tail(list) # << >>
<1>1. Tail(list) \in Seq(S) /\ DOMAIN Tail(list) = 1..(Len(list) - 1) /\ Len(list) \in Nat \ {0}
  BY HeadTailFacts
<1> DEFINE n == Len(list)
<1>2. n \in Nat \ {0} /\ n # 1
  BY <1>1
<1> HIDE DEF n
<1>3. 1 \in 1..(n - 1)
  BY <1>2
<1>4. DOMAIN Tail(list) # {}
  BY <1>1, <1>3 DEF n
<1> QED
  BY <1>1, <1>4, ListBasics

LEMMA FrontFacts ==
    ASSUME NEW S, NEW list \in Seq(S), list # << >>
    PROVE  /\ Front(list) \in Seq(S)
           /\ Len(list) \in Nat \ {0}
           /\ Len(Front(list)) = Len(list) - 1
           /\ DOMAIN Front(list) = DOMAIN list \ {Len(list)}
           /\ \A i \in DOMAIN Front(list) : Front(list)[i] = list[i]
           /\ Len(list) \in DOMAIN list /\ Last(list) = list[Len(list)] /\ Last(list) \in S
<1>1. Len(list) \in Nat \ {0} /\ DOMAIN list = 1..Len(list)
  BY EmptySeq, LenProperties
<1>2. \A i \in 1..(Len(list) - 1) : list[i] \in S
  BY <1>1, ElementOfSeq
<1>3. Front(list) = SubSeq(list, 1, Len(list) - 1)
  BY DEF Front
<1>4. /\ Front(list) \in Seq(S)
      /\ Len(Front(list)) = Len(list) - 1
      /\ \A i \in 1..(Len(list) - 1) : Front(list)[i] = list[1 + i - 1]
  BY <1>1, <1>2, <1>3, SubSeqProperties
<1>5. DOMAIN Front(list) = 1..(Len(list) - 1)
  BY <1>4, LenProperties
<1>6. Last(list) = list[Len(list)] /\ Last(list) \in S
  BY <1>1, ElementOfSeq DEF Last
<1> QED
  BY <1>1, <1>4, <1>5, <1>6

LEMMA RemoveAtFacts ==
    ASSUME NEW S, NEW list \in Seq(S), NEW i \in DOMAIN list
    PROVE  /\ RemoveAt(list, i) \in Seq(S)
           /\ DOMAIN RemoveAt(list, i) = 1..(Len(list) - 1)
           /\ Len(RemoveAt(list, i)) = Len(list) - 1
           /\ \A j \in 1..(Len(list) - 1) :
                 RemoveAt(list, i)[j] = IF j < i THEN list[j] ELSE list[j + 1]
<1> DEFINE before == SubSeq(list, 1, i - 1)
           behind == SubSeq(list, i + 1, Len(list))
<1>1. Len(list) \in Nat /\ i \in 1..Len(list) /\ i \in Int
  BY LenProperties
<1>2. \A j \in 1..(i - 1) : list[j] \in S
  BY <1>1, ElementOfSeq
<1>3. \A j \in (i + 1)..Len(list) : list[j] \in S
  BY <1>1, ElementOfSeq
<1>4. /\ before \in Seq(S)
      /\ Len(before) = i - 1
      /\ \A j \in 1..(i - 1) : before[j] = list[j]
  <2>1. /\ before \in Seq(S)
        /\ Len(before) = IF 1 <= i - 1 THEN (i - 1) - 1 + 1 ELSE 0
        /\ \A j \in 1..((i - 1) - 1 + 1) : before[j] = list[1 + j - 1]
    BY <1>1, <1>2, SubSeqProperties
  <2> QED
    BY <1>1, <2>1
<1>5. /\ behind \in Seq(S)
      /\ Len(behind) = Len(list) - i
      /\ \A j \in 1..(Len(list) - i) : behind[j] = list[j + i]
  <2>1. /\ behind \in Seq(S)
        /\ Len(behind) = IF i + 1 <= Len(list) THEN Len(list) - (i + 1) + 1 ELSE 0
        /\ \A j \in 1..(Len(list) - (i + 1) + 1) : behind[j] = list[(i + 1) + j - 1]
    BY <1>1, <1>3, SubSeqProperties
  <2> QED
    BY <1>1, <2>1
<1>6. RemoveAt(list, i) = before \o behind
  BY DEF RemoveAt
<1> HIDE DEF before, behind
<1>7. /\ RemoveAt(list, i) \in Seq(S)
      /\ Len(RemoveAt(list, i)) = Len(before) + Len(behind)
      /\ \A j \in 1..(Len(before) + Len(behind)) :
            RemoveAt(list, i)[j] = IF j <= Len(before) THEN before[j] ELSE behind[j - Len(before)]
  BY <1>4, <1>5, <1>6, ConcatProperties
<1>8. Len(RemoveAt(list, i)) = Len(list) - 1
  BY <1>1, <1>4, <1>5, <1>7
<1>9. DOMAIN RemoveAt(list, i) = 1..(Len(list) - 1)
  BY <1>7, <1>8, LenProperties
<1>10. ASSUME NEW j \in 1..(Len(list) - 1)
       PROVE  RemoveAt(list, i)[j] = IF j < i THEN list[j] ELSE list[j + 1]
  <2>1. j \in 1..(Len(before) + Len(behind))
    BY <1>1, <1>4, <1>5
  <2>2. CASE j < i
    BY <1>1, <1>4, <1>7, <2>1, <2>2
  <2>3. CASE ~(j < i)
    <3>1. j - (i - 1) \in 1..(Len(list) - i) /\ ~(j <= i - 1)
      BY <1>1, <2>3
    <3>2. behind[j - (i - 1)] = list[j + 1]
      BY <1>1, <1>5, <3>1
    <3> QED
      BY <1>4, <1>7, <2>1, <2>3, <3>1, <3>2
  <2> QED
    BY <2>2, <2>3
<1> QED
  BY <1>7, <1>8, <1>9, <1>10

-----------------------------------------------------------------------------
(***************************************************************************)
(* How often elements of a set occur in a list.                            *)
(***************************************************************************)
Places(list, X) == {i \in DOMAIN list : list[i] \in X}
Occurrences(list, X) == Cardinality(Places(list, X))

LEMMA PlacesFinite ==
    ASSUME NEW S, NEW list \in Seq(S), NEW X
    PROVE  /\ IsFiniteSet(Places(list, X))
           /\ Occurrences(list, X) \in Nat
           /\ Occurrences(list, X) = 0 <=> \A i \in DOMAIN list : list[i] \notin X
<1>1. IsFiniteSet(DOMAIN list)
  BY LenProperties, FS_Interval
<1>2. Places(list, X) \in SUBSET DOMAIN list
  BY DEF Places
<1>3. IsFiniteSet(Places(list, X))
  BY <1>1, <1>2, FS_Subset
<1>4. Occurrences(list, X) = 0 <=> Places(list, X) = {}
  BY <1>3, FS_EmptySet DEF Occurrences
<1> QED
  BY <1>3, <1>4, FS_CardinalityType DEF Occurrences, Places

LEMMA EmptyOccurrences ==
    ASSUME NEW X
    PROVE  Occurrences(<< >>, X) = 0
<1>1. Places(<< >>, X) = {}
  BY DEF Places
<1> QED
  BY <1>1, FS_EmptySet DEF Occurrences

LEMMA AppendOccurrences ==
    ASSUME NEW S, NEW list \in Seq(S), NEW e \in S, NEW X
    PROVE  Occurrences(Append(list, e), X) = Occurrences(list, X) + IF e \in X THEN 1 ELSE 0
<1> DEFINE end == Len(list) + 1
<1>1. /\ DOMAIN Append(list, e) = DOMAIN list \cup {end}
      /\ end \notin DOMAIN list
      /\ \A i \in DOMAIN list : Append(list, e)[i] = list[i]
      /\ Append(list, e)[end] = e
  BY AppendFacts
<1>2. IsFiniteSet(Places(list, X)) /\ Occurrences(list, X) \in Nat
  BY PlacesFinite
<1> HIDE DEF end
<1>3. CASE e \in X
  <2>1. Places(Append(list, e), X) = Places(list, X) \cup {end} /\ end \notin Places(list, X)
    BY <1>1, <1>3 DEF Places
  <2> QED
    BY <1>2, <1>3, <2>1, FS_AddElement DEF Occurrences
<1>4. CASE e \notin X
  <2>1. Places(Append(list, e), X) = Places(list, X)
    BY <1>1, <1>4 DEF Places
  <2> QED
    BY <1>2, <1>4, <2>1 DEF Occurrences
<1> QED
  BY <1>3, <1>4

LEMMA RemoveAtOccurrences ==
    ASSUME NEW S, NEW list \in Seq(S), NEW i \in DOMAIN list, NEW X
    PROVE  Occurrences(list, X)
               = Occurrences(RemoveAt(list, i), X) + IF list[i] \in X THEN 1 ELSE 0
<1> DEFINE less == RemoveAt(list, i)
           A == Places(list, X) \ {i}
           B == Places(less, X)
           f == [j \in B |-> IF j < i THEN j ELSE j + 1]
<1>1. /\ Len(list) \in Nat /\ DOMAIN list = 1..Len(list) /\ i \in 1..Len(list)
      /\ less \in Seq(S)
      /\ DOMAIN less = 1..(Len(list) - 1)
      /\ \A j \in 1..(Len(list) - 1) : less[j] = IF j < i THEN list[j] ELSE list[j + 1]
  BY RemoveAtFacts, LenProperties
<1> HIDE DEF less
<1>2. \A j \in B : f[j] \in A
  <2> TAKE j \in B
  <2>1. j \in 1..(Len(list) - 1) /\ less[j] \in X
    BY <1>1 DEF Places
  <2> QED
    BY <1>1, <2>1 DEF Places
<1>3. \A j, k \in B : f[j] = f[k] => j = k
  BY <1>1 DEF Places
<1>4. \A k \in A : \E j \in B : f[j] = k
  <2> TAKE k \in A
  <2>1. k \in 1..Len(list) /\ k # i /\ list[k] \in X
    BY <1>1 DEF Places
  <2>2. CASE k < i
    <3>1. k \in B /\ f[k] = k
      BY <1>1, <2>1, <2>2 DEF Places
    <3> QED
      BY <3>1
  <2>3. CASE ~(k < i)
    <3>1. k - 1 \in B /\ f[k - 1] = k
      BY <1>1, <2>1, <2>3 DEF Places
    <3> QED
      BY <3>1
  <2> QED
    BY <2>2, <2>3
<1>5. ExistsBijection(B, A)
  <2>1. f \in [B -> A]
    BY <1>2
  <2> HIDE DEF f, A, B
  <2>2. f \in Injection(B, A)
    BY <1>3, <2>1 DEF Injection, IsInjective
  <2>3. f \in Surjection(B, A)
    BY <1>4, <2>1 DEF Surjection
  <2> QED
    BY <2>2, <2>3 DEF ExistsBijection, Bijection
<1>6. IsFiniteSet(B) /\ IsFiniteSet(Places(list, X))
  BY <1>1, PlacesFinite
<1>7. Cardinality(A) = Cardinality(B)
  <2> HIDE DEF A, B
  <2> QED
    BY <1>5, <1>6, FS_Bijection
<1>8. Cardinality(A) = IF i \in Places(list, X) THEN Cardinality(Places(list, X)) - 1
                       ELSE Cardinality(Places(list, X))
  BY <1>6, FS_RemoveElement
<1>9. i \in Places(list, X) <=> list[i] \in X
  BY DEF Places
<1>10. Cardinality(Places(list, X)) \in Nat /\ Cardinality(B) \in Nat
  BY <1>6, FS_CardinalityType
<1> QED
  BY <1>7, <1>8, <1>9, <1>10 DEF Occurrences, less

\* Tail is the list without its first place.
LEMMA TailIsRemoveAt ==
    ASSUME NEW S, NEW list \in Seq(S), list # << >>
    PROVE  Tail(list) = RemoveAt(list, 1) /\ 1 \in DOMAIN list /\ Head(list) = list[1]
<1>1. /\ Tail(list) \in Seq(S) /\ Len(Tail(list)) = Len(list) - 1
      /\ DOMAIN Tail(list) = 1..(Len(list) - 1)
      /\ \A i \in DOMAIN Tail(list) : Tail(list)[i] = list[i + 1]
      /\ Head(list) = list[1] /\ 1 \in DOMAIN list
  BY HeadTailFacts
<1>2. /\ RemoveAt(list, 1) \in Seq(S)
      /\ Len(RemoveAt(list, 1)) = Len(list) - 1
      /\ \A j \in 1..(Len(list) - 1) :
            RemoveAt(list, 1)[j] = IF j < 1 THEN list[j] ELSE list[j + 1]
  BY <1>1, RemoveAtFacts
<1>3. \A j \in 1..Len(Tail(list)) : Tail(list)[j] = RemoveAt(list, 1)[j]
  BY <1>1, <1>2
<1>4. Tail(list) = RemoveAt(list, 1)
  BY <1>1, <1>2, <1>3, SeqEqual
<1> QED
  BY <1>1, <1>4

LEMMA TailOccurrences ==
    ASSUME NEW S, NEW list \in Seq(S), list # << >>, NEW X
    PROVE  Occurrences(list, X)
               = Occurrences(Tail(list), X) + IF Head(list) \in X THEN 1 ELSE 0
<1>1. Tail(list) = RemoveAt(list, 1) /\ 1 \in DOMAIN list /\ Head(list) = list[1]
  BY TailIsRemoveAt
<1>2. Occurrences(list, X)
          = Occurrences(RemoveAt(list, 1), X) + IF list[1] \in X THEN 1 ELSE 0
  BY <1>1, RemoveAtOccurrences
<1> QED
  BY <1>1, <1>2

\* Replacing an element by one of the same kind changes no number.
LEMMA ReplaceOccurrences ==
    ASSUME NEW S, NEW list \in Seq(S), NEW i \in DOMAIN list, NEW e \in S, NEW X,
           e \in X <=> list[i] \in X
    PROVE  Occurrences([list EXCEPT ![i] = e], X) = Occurrences(list, X)
<1>1. Places([list EXCEPT ![i] = e], X) = Places(list, X)
  BY DEF Places
<1> QED
  BY <1>1 DEF Occurrences

-----------------------------------------------------------------------------
(***************************************************************************)
(* QList::removeAll() and QSet::values().                                  *)
(***************************************************************************)
KeptAfter(list, equal, kept, n) == IF list[n] \in equal THEN kept ELSE Append(kept, list[n])
KeptTo(list, equal, m, f) ==
    f = [n \in 0..m |-> IF n = 0 THEN << >> ELSE KeptAfter(list, equal, f[n - 1], n)]

\* The function by which RemoveAll is defined exists.
LEMMA KeptExists ==
    ASSUME NEW list, NEW equal, NEW m \in Nat
    PROVE  \E f : KeptTo(list, equal, m, f)
<1> DEFINE T == {n \in Nat : ~ \E f : KeptTo(list, equal, n, f)}
<1> SUFFICES ASSUME T # {} PROVE FALSE
  OBVIOUS
<1>1. PICK n \in T : \A k \in T : n <= k
  BY LeastNumber
<1>2. n # 0
  <2>1. KeptTo(list, equal, 0, [i \in 0..0 |-> << >>])
    BY DEF KeptTo
  <2> QED
    BY <1>1, <2>1
<1>3. PICK f : KeptTo(list, equal, n - 1, f)
  BY <1>1, <1>2
<1> DEFINE g == [i \in 0..n |-> IF i < n THEN f[i] ELSE KeptAfter(list, equal, f[n - 1], n)]
<1>4. n \in Nat \ {0}
  BY <1>1, <1>2
<1>5. \A i \in 0..n : g[i] = IF i = 0 THEN << >> ELSE KeptAfter(list, equal, g[i - 1], i)
  <2> TAKE i \in 0..n
  <2>1. CASE i < n
    <3>1. f[i] = IF i = 0 THEN << >> ELSE KeptAfter(list, equal, f[i - 1], i)
      BY <1>3, <1>4, <2>1 DEF KeptTo
    <3> QED
      BY <1>4, <2>1, <3>1
  <2>2. CASE i = n
    BY <1>4, <2>2
  <2> QED
    BY <1>4, <2>1, <2>2
<1>6. KeptTo(list, equal, n, g)
  <2> HIDE DEF g
  <2>1. g = [i \in 0..n |-> g[i]]
    BY DEF g
  <2> QED
    BY <1>5, <2>1 DEF KeptTo
<1> QED
  BY <1>1, <1>6

LEMMA RemoveAllDef ==
    ASSUME NEW S, NEW list \in Seq(S), NEW equal
    PROVE  \E f : KeptTo(list, equal, Len(list), f) /\ RemoveAll(list, equal) = f[Len(list)]
<1> DEFINE f == CHOOSE f : KeptTo(list, equal, Len(list), f)
<1>1. Len(list) \in Nat
  BY LenProperties
<1>2. KeptTo(list, equal, Len(list), f)
  BY <1>1, KeptExists
<1>3. RemoveAll(list, equal) = f[Len(list)]
  BY DEF RemoveAll, KeptTo, KeptAfter
<1> QED
  BY <1>2, <1>3

\* What has been kept of the first n elements occurs as often as in them, but
\* for what is removed: so it does for all of them.
LEMMA RemoveAllFacts ==
    ASSUME NEW S, NEW list \in Seq(S), NEW equal
    PROVE  /\ RemoveAll(list, equal) \in Seq(S)
           /\ \A X : Occurrences(RemoveAll(list, equal), X) = Occurrences(list, X \ equal)
<1>1. Len(list) \in Nat /\ DOMAIN list = 1..Len(list) /\ \A i \in 1..Len(list) : list[i] \in S
  BY ListBasics
<1>2. PICK f : KeptTo(list, equal, Len(list), f) /\ RemoveAll(list, equal) = f[Len(list)]
  BY RemoveAllDef
<1> DEFINE Begin(n, X) == {i \in 1..n : list[i] \in X}
           Good(n) == /\ f[n] \in Seq(S)
                      /\ \A X : Occurrences(f[n], X) = Cardinality(Begin(n, X \ equal))
           T == {n \in 0..Len(list) : ~Good(n)}
<1>3. T = {}
  <2> SUFFICES ASSUME T # {} PROVE FALSE
    OBVIOUS
  <2>1. T \in SUBSET Nat
    BY <1>1
  <2>2. PICK n \in T : \A k \in T : n <= k
    <3> HIDE DEF T
    <3> QED
      BY <2>1, LeastNumber
  <2>3. n \in 0..Len(list) /\ ~Good(n) /\ n \in Nat
    BY <1>1, <2>2
  <2>4. CASE n = 0
    <3>1. f[0] = << >>
      BY <1>1, <1>2 DEF KeptTo
    <3>2. << >> \in Seq(S)
      OBVIOUS
    <3>3. \A X : Begin(0, X \ equal) = {}
      OBVIOUS
    <3> QED
      BY <2>3, <2>4, <3>1, <3>2, <3>3, EmptyOccurrences, FS_EmptySet
  <2>5. CASE n # 0
    <3>1. n - 1 \in 0..Len(list) /\ n \in 1..Len(list) /\ ~(n <= n - 1)
      BY <2>3, <2>5
    <3>2. Good(n - 1)
      BY <2>2, <3>1
    <3>3. f[n] = KeptAfter(list, equal, f[n - 1], n)
      BY <1>2, <2>3, <2>5 DEF KeptTo
    <3>4. list[n] \in S
      BY <1>1, <3>1
    <3>5. ASSUME NEW X
          PROVE  /\ IsFiniteSet(Begin(n - 1, X)) /\ n \notin Begin(n - 1, X)
                 /\ Begin(n, X) = IF list[n] \in X THEN Begin(n - 1, X) \cup {n} ELSE Begin(n - 1, X)
      <4>1. IsFiniteSet(1..(n - 1))
        BY <3>1, FS_Interval
      <4>2. Begin(n - 1, X) \subseteq 1..(n - 1)
        OBVIOUS
      <4>3. 1..n = (1..(n - 1)) \cup {n} /\ n \notin 1..(n - 1)
        BY <3>1
      <4>4. IsFiniteSet(Begin(n - 1, X))
        BY <4>1, <4>2, FS_Subset
      <4> QED
        BY <4>3, <4>4
    <3>6. CASE list[n] \in equal
      <4>1. f[n] = f[n - 1]
        BY <3>3, <3>6 DEF KeptAfter
      <4>2. \A X : Begin(n, X \ equal) = Begin(n - 1, X \ equal)
        <5> TAKE X
        <5> HIDE DEF Begin
        <5>1. Begin(n, X \ equal) = IF list[n] \in X \ equal THEN Begin(n - 1, X \ equal) \cup {n} ELSE Begin(n - 1, X \ equal)
          BY <3>5
        <5> QED
          BY <3>6, <5>1
      <4> HIDE DEF Begin
      <4> QED
        BY <2>3, <3>2, <4>1, <4>2
    <3>7. CASE list[n] \notin equal
      <4>1. f[n] = Append(f[n - 1], list[n])
        BY <3>3, <3>7 DEF KeptAfter
      <4>2. f[n] \in Seq(S)
        BY <3>2, <3>4, <4>1, AppendFacts
      <4>3. ASSUME NEW X
            PROVE  Occurrences(f[n], X) = Cardinality(Begin(n, X \ equal))
        <5>1. Occurrences(f[n], X) = Occurrences(f[n - 1], X) + IF list[n] \in X THEN 1 ELSE 0
          BY <3>2, <3>4, <4>1, AppendOccurrences
        <5>2. Occurrences(f[n - 1], X) = Cardinality(Begin(n - 1, X \ equal))
          BY <3>2
        <5>3. /\ IsFiniteSet(Begin(n - 1, X \ equal)) /\ n \notin Begin(n - 1, X \ equal)
              /\ Begin(n, X \ equal) = IF list[n] \in X \ equal THEN Begin(n - 1, X \ equal) \cup {n}
                                        ELSE Begin(n - 1, X \ equal)
          <6> HIDE DEF Begin
          <6> QED
            BY <3>5
        <5> HIDE DEF Begin
        <5>4. Cardinality(Begin(n - 1, X \ equal)) \in Nat
          BY <5>3, FS_CardinalityType
        <5>5. CASE list[n] \in X
          <6>1. Cardinality(Begin(n, X \ equal)) = Cardinality(Begin(n - 1, X \ equal)) + 1
            BY <3>7, <5>3, <5>5, FS_AddElement
          <6> QED
            BY <5>1, <5>2, <5>5, <6>1
        <5>6. CASE list[n] \notin X
          BY <5>1, <5>2, <5>3, <5>4, <5>6
        <5> QED
          BY <5>5, <5>6
      <4> HIDE DEF Begin
      <4> QED
        BY <2>3, <4>2, <4>3
    <3> QED
      BY <3>6, <3>7
  <2> QED
    BY <2>4, <2>5
<1>4. Good(Len(list))
  <2>1. Len(list) \in 0..Len(list)
    BY <1>1
  <2> QED
    BY <1>3, <2>1
<1>5. \A X : Begin(Len(list), X \ equal) = Places(list, X \ equal)
  BY <1>1 DEF Places
<1> HIDE DEF Begin
<1> QED
  BY <1>2, <1>4, <1>5 DEF Occurrences

Copies(list, e) == Occurrences(list, {e})

LEMMA ElementsOccur ==
    ASSUME NEW S, NEW list \in Seq(S)
    PROVE  /\ \A e : e \in ToSet(list) <=> Copies(list, e) # 0
           /\ IsInjective(list) <=> \A e : Copies(list, e) <= 1
           /\ \A e : Copies(list, e) \in Nat
           /\ ToSet(list) \subseteq S
<1>1. ASSUME NEW e
      PROVE  (e \in ToSet(list) <=> Copies(list, e) # 0) /\ Copies(list, e) \in Nat
  <2>1. /\ Occurrences(list, {e}) = 0 <=> \A i \in DOMAIN list : list[i] \notin {e}
        /\ Occurrences(list, {e}) \in Nat
    BY PlacesFinite
  <2> QED
    BY <2>1 DEF ToSet, Copies
<1>2. ASSUME IsInjective(list), NEW e
      PROVE  Copies(list, e) <= 1
  <2>1. CASE e \notin ToSet(list)
    BY <1>1, <2>1
  <2>2. CASE e \in ToSet(list)
    <3>1. PICK i : i \in Places(list, {e})
      BY <2>2 DEF Places, ToSet
    <3>2. Places(list, {e}) = {i}
      BY <1>2, <3>1 DEF Places, IsInjective
    <3>3. Cardinality({i}) = 1
      BY FS_Singleton
    <3>4. Copies(list, e) = 1
      BY <3>2, <3>3 DEF Occurrences, Copies
    <3> QED
      BY <3>4
  <2> QED
    BY <2>1, <2>2
<1>3. ASSUME \A e : Copies(list, e) <= 1, NEW i \in DOMAIN list, NEW j \in DOMAIN list,
             list[i] = list[j], i # j
      PROVE  FALSE
  <2> DEFINE P == Places(list, {list[i]})
  <2>1. IsFiniteSet(P) /\ Cardinality(P) <= 1
    BY <1>3, PlacesFinite DEF Occurrences, Copies
  <2>2. i \in P /\ j \in P \ {i}
    BY <1>3 DEF Places
  <2> HIDE DEF P
  <2>3. IsFiniteSet(P \ {i}) /\ Cardinality(P \ {i}) = Cardinality(P) - 1
    BY <2>1, <2>2, FS_RemoveElement
  <2>4. Cardinality(P) \in Nat /\ Cardinality(P \ {i}) \in Nat
    BY <2>1, <2>3, FS_CardinalityType
  <2>5. Cardinality(P \ {i}) = 0
    BY <2>1, <2>3, <2>4
  <2> QED
    BY <2>2, <2>3, <2>5, FS_EmptySet
<1>4. ToSet(list) \subseteq S
  BY ListBasics DEF ToSet
<1> QED
  BY <1>1, <1>2, <1>3, <1>4 DEF IsInjective

\* What removeAll() leaves, and how often.
LEMMA RemoveAllElements ==
    ASSUME NEW S, NEW list \in Seq(S), NEW equal
    PROVE  /\ RemoveAll(list, equal) \in Seq(S)
           /\ ToSet(RemoveAll(list, equal)) = ToSet(list) \ equal
           /\ IsInjective(list) => IsInjective(RemoveAll(list, equal))
<1> DEFINE less == RemoveAll(list, equal)
<1>1. less \in Seq(S) /\ \A X : Occurrences(less, X) = Occurrences(list, X \ equal)
  BY RemoveAllFacts
<1> HIDE DEF less
<1>2. ASSUME NEW e
      PROVE  Copies(less, e) = IF e \in equal THEN 0 ELSE Copies(list, e)
  <2>1. Copies(less, e) = Occurrences(list, {e} \ equal)
    BY <1>1 DEF Copies
  <2>2. CASE e \in equal
    <3>1. {e} \ equal = {}
      BY <2>2
    <3>2. Occurrences(list, {}) = 0
      BY PlacesFinite
    <3> QED
      BY <2>1, <2>2, <3>1, <3>2
  <2>3. CASE e \notin equal
    <3>1. {e} \ equal = {e}
      BY <2>3
    <3> QED
      BY <2>1, <2>3, <3>1 DEF Copies
  <2> QED
    BY <2>2, <2>3
<1>3. /\ \A e : e \in ToSet(list) <=> Copies(list, e) # 0
      /\ IsInjective(list) <=> \A e : Copies(list, e) <= 1
  BY ElementsOccur
<1>4. /\ \A e : e \in ToSet(less) <=> Copies(less, e) # 0
      /\ IsInjective(less) <=> \A e : Copies(less, e) <= 1
  BY <1>1, ElementsOccur
<1>5. ToSet(less) = ToSet(list) \ equal
  BY <1>2, <1>3, <1>4
<1>6. IsInjective(list) => IsInjective(less)
  BY <1>2, <1>3, <1>4
<1> QED
  BY <1>1, <1>5, <1>6 DEF less

LEMMA AppendElements ==
    ASSUME NEW S, NEW list \in Seq(S), NEW e \in S, e \notin ToSet(list), IsInjective(list)
    PROVE  IsInjective(Append(list, e))
<1>1. ASSUME NEW d
      PROVE  Copies(Append(list, e), d) = Copies(list, d) + (IF e = d THEN 1 ELSE 0)
  <2>1. Occurrences(Append(list, e), {d}) = Occurrences(list, {d}) + IF e \in {d} THEN 1 ELSE 0
    BY AppendOccurrences
  <2> QED
    BY <2>1 DEF Copies
<1>2. Copies(list, e) = 0 /\ \A d : Copies(list, d) <= 1 /\ Copies(list, d) \in Nat
  BY ElementsOccur
<1>3. Append(list, e) \in Seq(S)
  BY AppendFacts
<1>4. IsInjective(Append(list, e)) <=> \A d : Copies(Append(list, e), d) <= 1
  BY <1>3, ElementsOccur
<1>5. ASSUME NEW d PROVE Copies(Append(list, e), d) <= 1
  <2>1. CASE e = d
    <3>1. Copies(list, d) = 0
      BY <1>2, <2>1
    <3> QED
      BY <1>1, <2>1, <3>1
  <2>2. CASE e # d
    BY <1>1, <1>2, <2>2
  <2> QED
    BY <2>1, <2>2
<1> QED
  BY <1>4, <1>5

LEMMA RemoveAtElements ==
    ASSUME NEW S, NEW list \in Seq(S), NEW i \in DOMAIN list
    PROVE  /\ ToSet(RemoveAt(list, i)) \subseteq ToSet(list)
           /\ ToSet(list) = ToSet(RemoveAt(list, i)) \cup {list[i]}
           /\ IsInjective(list) => /\ IsInjective(RemoveAt(list, i))
                                  /\ ToSet(RemoveAt(list, i)) = ToSet(list) \ {list[i]}
<1> DEFINE less == RemoveAt(list, i)
           e == list[i]
<1>1. less \in Seq(S)
  BY RemoveAtFacts
<1>2. ASSUME NEW d
      PROVE  Copies(list, d) = Copies(less, d) + (IF e = d THEN 1 ELSE 0)
  <2>1. Occurrences(list, {d}) = Occurrences(less, {d}) + IF e \in {d} THEN 1 ELSE 0
    BY RemoveAtOccurrences
  <2> QED
    BY <2>1 DEF Copies
<1> HIDE DEF less, e
<1>3. /\ \A d : d \in ToSet(list) <=> Copies(list, d) # 0
      /\ IsInjective(list) <=> \A d : Copies(list, d) <= 1
      /\ \A d : Copies(list, d) \in Nat
  BY ElementsOccur
<1>4. /\ \A d : d \in ToSet(less) <=> Copies(less, d) # 0
      /\ IsInjective(less) <=> \A d : Copies(less, d) <= 1
      /\ \A d : Copies(less, d) \in Nat
  BY <1>1, ElementsOccur
<1>5. \A d : d \in ToSet(list) <=> d \in ToSet(less) \/ d = e
  BY <1>2, <1>3, <1>4
<1>6. IsInjective(list) => IsInjective(less)
  BY <1>2, <1>3, <1>4
<1>7. IsInjective(list) => e \notin ToSet(less)
  <2>1. Copies(list, e) = Copies(less, e) + 1
    BY <1>2
  <2> QED
    BY <1>3, <1>4, <2>1
<1> QED
  BY <1>5, <1>6, <1>7 DEF less, e

LEMMA FrontIsRemoveAt ==
    ASSUME NEW S, NEW list \in Seq(S), list # << >>
    PROVE  /\ Front(list) = RemoveAt(list, Len(list))
           /\ Len(list) \in DOMAIN list
           /\ Last(list) = list[Len(list)]
           /\ ToSet(list) = ToSet(Front(list)) \cup {Last(list)}
<1>1. /\ Front(list) \in Seq(S) /\ Len(list) \in Nat \ {0}
      /\ Len(Front(list)) = Len(list) - 1
      /\ DOMAIN Front(list) = DOMAIN list \ {Len(list)}
      /\ \A i \in DOMAIN Front(list) : Front(list)[i] = list[i]
      /\ Len(list) \in DOMAIN list /\ Last(list) = list[Len(list)]
  BY FrontFacts
<1>2. /\ RemoveAt(list, Len(list)) \in Seq(S)
      /\ Len(RemoveAt(list, Len(list))) = Len(list) - 1
      /\ \A j \in 1..(Len(list) - 1) :
            RemoveAt(list, Len(list))[j] = IF j < Len(list) THEN list[j] ELSE list[j + 1]
  BY <1>1, RemoveAtFacts
<1>3. DOMAIN Front(list) = 1..(Len(list) - 1)
  BY <1>1, LenProperties
<1>4. \A j \in 1..Len(Front(list)) : Front(list)[j] = RemoveAt(list, Len(list))[j]
  BY <1>1, <1>2, <1>3
<1>5. Front(list) = RemoveAt(list, Len(list))
  BY <1>1, <1>2, <1>4, SeqEqual
<1> QED
  BY <1>1, <1>5, RemoveAtElements

\* QSet::values() lists every element once.
LEMMA SetToSeqFacts ==
    ASSUME NEW S, IsFiniteSet(S)
    PROVE  SetToSeq(S) \in Seq(S) /\ ToSet(SetToSeq(S)) = S /\ IsInjective(SetToSeq(S))
<1>1. Cardinality(S) \in Nat /\ ExistsBijection(1..Cardinality(S), S)
  BY FS_CardinalityType
<1>2. \E f \in [1..Cardinality(S) -> S] : IsInjective(f)
  BY <1>1 DEF ExistsBijection, Bijection, Injection
<1>3. SetToSeq(S) \in [1..Cardinality(S) -> S] /\ IsInjective(SetToSeq(S))
  BY <1>2 DEF SetToSeq
<1>4. SetToSeq(S) \in Injection(1..Cardinality(S), S)
  BY <1>3 DEF Injection
<1>5. Cardinality(1..Cardinality(S)) = Cardinality(S)
  BY <1>1, FS_Interval
<1>6. SetToSeq(S) \in Surjection(1..Cardinality(S), S)
  BY <1>4, <1>5, FS_Injection
<1>7. ToSet(SetToSeq(S)) = S
  BY <1>3, <1>6 DEF ToSet, Surjection
<1> QED
  BY <1>1, <1>3, <1>7, IsASeq

-----------------------------------------------------------------------------
(***************************************************************************)
(* A queue of signals leads from what its reader has heard to what its     *)
(* writer knows: gains and loses say of each signal what it adds, which is *)
(* new to the reader then, and takes, which the reader has heard of.  h is *)
(* what the reader will have heard after each of them.                     *)
(***************************************************************************)
Leads(h, list, gains, loses, from, to) ==
    /\ h[0] = from /\ h[Len(list)] = to
    /\ \A i \in 1..Len(list) :
         /\ h[i] = (h[i - 1] \ loses[list[i]]) \cup gains[list[i]]
         /\ gains[list[i]] \cap h[i - 1] = {}
         /\ loses[list[i]] \subseteq h[i - 1]

Connects(list, gains, loses, from, to) == \E h : Leads(h, list, gains, loses, from, to)

LEMMA EmptyConnects ==
    ASSUME NEW gains, NEW loses, NEW from
    PROVE  Connects(<< >>, gains, loses, from, from)
<1>1. Len(<< >>) = 0
  OBVIOUS
<1>2. Leads([i \in 0..0 |-> from], << >>, gains, loses, from, from)
  BY <1>1 DEF Leads
<1> QED
  BY <1>2 DEF Connects

LEMMA AppendConnects ==
    ASSUME NEW S, NEW list \in Seq(S), NEW e \in S, NEW gains, NEW loses, NEW from, NEW to,
           Connects(list, gains, loses, from, to),
           gains[e] \cap to = {}, loses[e] \subseteq to
    PROVE  Connects(Append(list, e), gains, loses, from, (to \ loses[e]) \cup gains[e])
<1> DEFINE n == Len(list) + 1
           new == (to \ loses[e]) \cup gains[e]
<1>1. PICK h : Leads(h, list, gains, loses, from, to)
  BY DEF Connects
<1> DEFINE g == [i \in 0..n |-> IF i = n THEN new ELSE h[i]]
<1>2. /\ Len(list) \in Nat
      /\ Len(Append(list, e)) = n
      /\ \A i \in 1..Len(list) : Append(list, e)[i] = list[i]
      /\ Append(list, e)[n] = e
  BY AppendFacts, ListBasics
<1>3. g[0] = from /\ g[n] = new /\ g[n - 1] = to
  BY <1>1, <1>2 DEF Leads
<1>4. ASSUME NEW i \in 1..n
      PROVE  /\ g[i] = (g[i - 1] \ loses[Append(list, e)[i]]) \cup gains[Append(list, e)[i]]
             /\ gains[Append(list, e)[i]] \cap g[i - 1] = {}
             /\ loses[Append(list, e)[i]] \subseteq g[i - 1]
  <2>1. CASE i = n
    BY <1>2, <1>3, <2>1
  <2>2. CASE i # n
    <3>1. i \in 1..Len(list) /\ g[i] = h[i] /\ g[i - 1] = h[i - 1]
      BY <1>2, <2>2
    <3> QED
      BY <1>1, <1>2, <3>1 DEF Leads
  <2> QED
    BY <2>1, <2>2
<1> HIDE DEF g, new, n
<1>5. Leads(g, Append(list, e), gains, loses, from, new)
  BY <1>2, <1>3, <1>4 DEF Leads
<1> QED
  BY <1>5 DEF Connects, new

LEMMA TailConnects ==
    ASSUME NEW S, NEW list \in Seq(S), list # << >>, NEW gains, NEW loses, NEW from, NEW to,
           Connects(list, gains, loses, from, to)
    PROVE  /\ gains[Head(list)] \cap from = {}
           /\ loses[Head(list)] \subseteq from
           /\ Connects(Tail(list), gains, loses, (from \ loses[Head(list)]) \cup gains[Head(list)], to)
<1>1. PICK h : Leads(h, list, gains, loses, from, to)
  BY DEF Connects
<1> DEFINE g == [i \in 0..(Len(list) - 1) |-> h[i + 1]]
<1>2. /\ Head(list) = list[1] /\ Len(list) \in Nat \ {0}
      /\ Len(Tail(list)) = Len(list) - 1
      /\ DOMAIN Tail(list) = 1..(Len(list) - 1)
      /\ \A i \in DOMAIN Tail(list) : Tail(list)[i] = list[i + 1]
  BY HeadTailFacts
<1>3. /\ h[1] = (from \ loses[Head(list)]) \cup gains[Head(list)]
      /\ gains[Head(list)] \cap from = {}
      /\ loses[Head(list)] \subseteq from
  <2>1. 1 \in 1..Len(list) /\ 1 - 1 = 0
    BY <1>2
  <2> QED
    BY <1>1, <1>2, <2>1 DEF Leads
<1>4. g[0] = h[1] /\ g[Len(list) - 1] = to
  BY <1>1, <1>2 DEF Leads
<1>5. ASSUME NEW i \in 1..(Len(list) - 1)
      PROVE  /\ g[i] = (g[i - 1] \ loses[Tail(list)[i]]) \cup gains[Tail(list)[i]]
             /\ gains[Tail(list)[i]] \cap g[i - 1] = {}
             /\ loses[Tail(list)[i]] \subseteq g[i - 1]
  <2>1. i + 1 \in 1..Len(list) /\ g[i] = h[i + 1] /\ g[i - 1] = h[i] /\ (i + 1) - 1 = i
    BY <1>2
  <2> QED
    BY <1>1, <1>2, <2>1 DEF Leads
<1> HIDE DEF g
<1>6. Leads(g, Tail(list), gains, loses, h[1], to)
  BY <1>2, <1>4, <1>5 DEF Leads
<1> QED
  BY <1>3, <1>6 DEF Connects

\* Of what no signal speaks the reader has heard what the writer knows.
LEMMA UnmentionedIsHeard ==
    ASSUME NEW S, NEW list \in Seq(S), NEW gains, NEW loses, NEW from, NEW to,
           Connects(list, gains, loses, from, to), NEW x,
           \A i \in DOMAIN list : x \notin gains[list[i]] \cup loses[list[i]]
    PROVE  x \in from <=> x \in to
<1>1. PICK h : Leads(h, list, gains, loses, from, to)
  BY DEF Connects
<1>2. Len(list) \in Nat /\ DOMAIN list = 1..Len(list)
  BY ListBasics
<1> DEFINE T == {n \in 0..Len(list) : ~(x \in h[n] <=> x \in from)}
<1>3. T = {}
  <2> SUFFICES ASSUME T # {} PROVE FALSE
    OBVIOUS
  <2>1. T \in SUBSET Nat
    BY <1>2
  <2>2. PICK n \in T : \A k \in T : n <= k
    <3> HIDE DEF T
    <3> QED
      BY <2>1, LeastNumber
  <2>3. n \in 0..Len(list) /\ ~(x \in h[n] <=> x \in from)
    BY <2>2
  <2>4. n # 0
    BY <1>1, <2>3 DEF Leads
  <2>5. n \in 1..Len(list) /\ n - 1 \in 0..Len(list) /\ ~(n <= n - 1)
    BY <1>2, <2>3, <2>4
  <2>6. x \in h[n - 1] <=> x \in from
    BY <2>2, <2>5
  <2>7. h[n] = (h[n - 1] \ loses[list[n]]) \cup gains[list[n]]
    BY <1>1, <2>5 DEF Leads
  <2> QED
    BY <1>2, <2>3, <2>5, <2>6, <2>7
<1>4. Len(list) \in 0..Len(list)
  BY <1>2
<1> QED
  BY <1>1, <1>3, <1>4 DEF Leads

-----------------------------------------------------------------------------
\* The first place of a kind is a place of that kind.
LEMMA FirstPlace ==
    ASSUME NEW S, NEW list \in Seq(S), NEW X, NEW i \in DOMAIN list, list[i] \in X
    PROVE  /\ Min(Places(list, X)) \in DOMAIN list
           /\ list[Min(Places(list, X))] \in X
<1>1. Places(list, X) \in SUBSET Nat /\ Places(list, X) # {}
  BY ListBasics DEF Places
<1>2. \E m \in Places(list, X) : \A k \in Places(list, X) : m <= k
  BY <1>1, LeastNumber
<1>3. Min(Places(list, X)) \in Places(list, X)
  BY <1>2 DEF Min
<1> QED
  BY <1>3 DEF Places
=============================================================================
