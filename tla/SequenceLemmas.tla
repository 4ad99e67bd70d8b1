--------------------------- MODULE SequenceLemmas ---------------------------
(***************************************************************************)
(* What the list operations of the queue and the comprehensions over its   *)
(* lists do, for the proofs of more than one module.                       *)
(***************************************************************************)
EXTENDS Naturals, Sublists, SequencesExt, SequenceTheorems, FiniteSetTheorems,
        WellFoundedInduction, TLAPS

\* What removing one element of a list leaves behind.
LEMMA RemoveAtProperties ==
  ASSUME NEW S, NEW s \in Seq(S), NEW i \in 1..Len(s)
  PROVE  /\ RemoveAt(s, i) \in Seq(S)
         /\ Len(RemoveAt(s, i)) = Len(s) - 1
         /\ \A j \in 1..(Len(s) - 1) :
              RemoveAt(s, i)[j] = IF j < i THEN s[j] ELSE s[j + 1]
<1> DEFINE front == SubSeq(s, 1, i - 1)
           back  == SubSeq(s, i + 1, Len(s))
<1>1. \A j \in 1..Len(s) : s[j] \in S
  BY ElementOfSeq
<1>2. Len(s) \in Nat
  BY LenProperties
<1>3. /\ front \in Seq(S)
      /\ Len(front) = i - 1
      /\ \A j \in 1..(i - 1) : front[j] = s[j]
  <2>1. \A j \in 1..(i - 1) : s[j] \in S
    BY <1>1, <1>2
  <2>2. /\ front \in Seq(S)
        /\ Len(front) = IF 1 <= i - 1 THEN (i - 1) - 1 + 1 ELSE 0
        /\ \A j \in 1..((i - 1) - 1 + 1) : front[j] = s[1 + j - 1]
    BY <2>1, <1>2, SubSeqProperties
  <2> QED
    BY <2>2, <1>2
<1>4. /\ back \in Seq(S)
      /\ Len(back) = Len(s) - i
      /\ \A j \in 1..(Len(s) - i) : back[j] = s[i + j]
  <2>1. \A j \in (i + 1)..Len(s) : s[j] \in S
    BY <1>1, <1>2
  <2>2. /\ back \in Seq(S)
        /\ Len(back) = IF i + 1 <= Len(s) THEN Len(s) - (i + 1) + 1 ELSE 0
        /\ \A j \in 1..(Len(s) - (i + 1) + 1) : back[j] = s[(i + 1) + j - 1]
    BY <2>1, <1>2, SubSeqProperties
  <2> QED
    BY <2>2, <1>2
<1>5. /\ front \o back \in Seq(S)
      /\ Len(front \o back) = Len(front) + Len(back)
      /\ \A j \in 1..(Len(front) + Len(back)) :
           (front \o back)[j] = IF j <= Len(front) THEN front[j]
                                ELSE back[j - Len(front)]
  BY <1>3, <1>4, ConcatProperties
<1>6. RemoveAt(s, i) = front \o back
  BY DEF RemoveAt
<1> HIDE DEF front, back
<1>7. ASSUME NEW j \in 1..(Len(s) - 1)
      PROVE  (front \o back)[j] = IF j < i THEN s[j] ELSE s[j + 1]
  <2>1. CASE j < i
    BY <2>1, <1>2, <1>3, <1>4, <1>5
  <2>2. CASE ~(j < i)
    <3>1. j - (i - 1) \in 1..(Len(s) - i)
      BY <2>2, <1>2
    <3>2. back[j - (i - 1)] = s[j + 1]
      BY <3>1, <1>2, <1>4
    <3> QED
      BY <2>2, <3>2, <1>2, <1>3, <1>4, <1>5, SMTT(30)
  <2> QED
    BY <2>1, <2>2
<1> QED
  BY <1>2, <1>3, <1>4, <1>5, <1>6, <1>7

\* What Append keeps of a list.
LEMMA AppendKeeps ==
  ASSUME NEW S, NEW s \in Seq(S), NEW e \in S
  PROVE  /\ Append(s, e) \in Seq(S)
         /\ Range(s) \subseteq Range(Append(s, e))
<1>1. /\ Append(s, e) \in Seq(S) /\ Len(Append(s, e)) = Len(s) + 1 /\ Len(s) \in Nat
      /\ \A i \in 1..Len(s) : Append(s, e)[i] = s[i]
      /\ DOMAIN s = 1..Len(s) /\ DOMAIN Append(s, e) = 1..(Len(s) + 1)
  BY AppendProperties, LenProperties
<1> QED
  BY <1>1 DEF Range

\* What Append adds to a list.
LEMMA AppendRange ==
  ASSUME NEW S, NEW s \in Seq(S), NEW e \in S
  PROVE  Append(s, e) \in Seq(S) /\ Range(Append(s, e)) = Range(s) \cup {e}
<1>1. /\ Append(s, e) \in Seq(S) /\ Len(Append(s, e)) = Len(s) + 1 /\ Len(s) \in Nat
      /\ \A i \in 1..Len(s) : Append(s, e)[i] = s[i]
      /\ Append(s, e)[Len(s) + 1] = e
      /\ DOMAIN s = 1..Len(s) /\ DOMAIN Append(s, e) = 1..(Len(s) + 1)
  BY AppendProperties, LenProperties
<1>2. \A i \in 1..(Len(s) + 1) : Append(s, e)[i] \in Range(s) \cup {e}
  BY <1>1 DEF Range
<1>3. e \in Range(Append(s, e)) /\ Range(s) \subseteq Range(Append(s, e))
  BY <1>1 DEF Range
<1>4. Range(Append(s, e)) \subseteq Range(s) \cup {e}
  BY <1>1, <1>2 DEF Range
<1> QED
  BY <1>1, <1>3, <1>4

\* An element that is not in the list repeats nothing.
LEMMA AppendKeepsNoRepeat ==
  ASSUME NEW S, NEW s \in Seq(S), NEW e \in S \ Range(s), NoRepeat(s)
  PROVE  NoRepeat(Append(s, e))
<1> DEFINE r == Append(s, e)
<1>1. /\ Len(s) \in Nat /\ DOMAIN s = 1..Len(s) /\ DOMAIN r = 1..(Len(s) + 1)
      /\ \A i \in 1..Len(s) : r[i] = s[i]
      /\ r[Len(s) + 1] = e
  BY AppendProperties, LenProperties
<1> HIDE DEF r
<1>2. \A i \in 1..Len(s) : r[i] # e
  BY <1>1 DEF Range
<1>3. \A i, j \in DOMAIN r : r[i] = r[j] => i = j
  BY <1>1, <1>2 DEF NoRepeat
<1> QED
  BY <1>3 DEF NoRepeat, r

\* What RemoveAt keeps of a list: every other element.
LEMMA RemoveAtKeeps ==
  ASSUME NEW S, NEW s \in Seq(S), NEW i \in 1..Len(s)
  PROVE  Range(s) \ {s[i]} \subseteq Range(RemoveAt(s, i))
<1> DEFINE r == RemoveAt(s, i)
<1>1. Len(s) \in Nat /\ DOMAIN s = 1..Len(s)
  BY LenProperties
<1>2. /\ r \in Seq(S) /\ Len(r) = Len(s) - 1
      /\ \A j \in 1..(Len(s) - 1) : r[j] = IF j < i THEN s[j] ELSE s[j + 1]
  BY RemoveAtProperties
<1> HIDE DEF r
<1>3. DOMAIN r = 1..(Len(s) - 1)
  BY <1>2, LenProperties
<1>4. ASSUME NEW j \in 1..Len(s), j # i PROVE s[j] \in Range(r)
  <2>1. CASE j < i
    <3>1. j \in 1..(Len(s) - 1) /\ r[j] = s[j]
      BY <1>1, <1>2, <2>1
    <3> QED
      BY <1>3, <3>1 DEF Range
  <2>2. CASE j > i
    <3>1. j - 1 \in 1..(Len(s) - 1) /\ ~(j - 1 < i) /\ (j - 1) + 1 = j
      BY <1>1, <2>2
    <3>2. r[j - 1] = s[j]
      BY <1>2, <3>1
    <3> QED
      BY <1>3, <3>1, <3>2 DEF Range
  <2> QED
    BY <1>1, <1>4, <2>1, <2>2
<1> QED
  BY <1>1, <1>4 DEF Range, r

\* A list without repetitions has none without one of its entries, and that entry
\* is gone.
LEMMA RemoveAtOnce ==
  ASSUME NEW S, NEW s \in Seq(S), NEW i \in 1..Len(s), NoRepeat(s)
  PROVE  NoRepeat(RemoveAt(s, i)) /\ Range(RemoveAt(s, i)) = Range(s) \ {s[i]}
<1> DEFINE r == RemoveAt(s, i)
           From(j) == IF j < i THEN j ELSE j + 1
<1>1. Len(s) \in Nat /\ DOMAIN s = 1..Len(s)
  BY LenProperties
<1>2. /\ r \in Seq(S) /\ Len(r) = Len(s) - 1
      /\ \A j \in 1..(Len(s) - 1) : r[j] = IF j < i THEN s[j] ELSE s[j + 1]
  BY RemoveAtProperties
<1>3. Range(s) \ {s[i]} \subseteq Range(r)
  BY RemoveAtKeeps
<1> HIDE DEF r
<1>4. DOMAIN r = 1..(Len(s) - 1)
  BY <1>2, LenProperties
<1>5. ASSUME NEW j \in DOMAIN r
      PROVE  From(j) \in 1..Len(s) /\ From(j) # i /\ r[j] = s[From(j)]
  BY <1>1, <1>2, <1>4
<1>6. ASSUME NEW j \in DOMAIN r, NEW k \in DOMAIN r, r[j] = r[k] PROVE j = k
  <2>1. From(j) = From(k)
    BY <1>1, <1>5, <1>6 DEF NoRepeat
  <2>2. QED
    BY <1>1, <1>4, <2>1
<1>7. NoRepeat(r)
  BY <1>6 DEF NoRepeat
<1>8. \A j \in DOMAIN r : r[j] \in Range(s) \ {s[i]}
  BY <1>1, <1>5 DEF NoRepeat, Range
<1>9. Range(r) \subseteq Range(s) \ {s[i]}
  BY <1>8 DEF Range
<1> QED
  BY <1>3, <1>7, <1>9 DEF r

\* Two lists without repetitions and without a common entry make one.
LEMMA ConcatKeepsNoRepeat ==
  ASSUME NEW S, NEW s \in Seq(S), NEW t \in Seq(S), NoRepeat(s), NoRepeat(t),
         Range(s) \cap Range(t) = {}
  PROVE  s \o t \in Seq(S) /\ NoRepeat(s \o t) /\ Range(s \o t) = Range(s) \cup Range(t)
<1> DEFINE r == s \o t
<1>1. /\ r \in Seq(S) /\ Len(r) = Len(s) + Len(t)
      /\ \A i \in 1..(Len(s) + Len(t)) : r[i] = IF i <= Len(s) THEN s[i] ELSE t[i - Len(s)]
  BY ConcatProperties
<1> HIDE DEF r
<1>2. /\ Len(s) \in Nat /\ Len(t) \in Nat
      /\ DOMAIN s = 1..Len(s) /\ DOMAIN t = 1..Len(t) /\ DOMAIN r = 1..(Len(s) + Len(t))
  BY <1>1, LenProperties
<1>3. /\ \A i \in DOMAIN s : i \in DOMAIN r /\ r[i] = s[i]
      /\ \A i \in DOMAIN t : i + Len(s) \in DOMAIN r /\ r[i + Len(s)] = t[i]
  BY <1>1, <1>2
<1>4. ASSUME NEW i \in DOMAIN r
      PROVE  \/ i \in DOMAIN s /\ r[i] = s[i] /\ r[i] \in Range(s)
             \/ i > Len(s) /\ i - Len(s) \in DOMAIN t /\ r[i] = t[i - Len(s)] /\ r[i] \in Range(t)
  <2>1. CASE i <= Len(s)
    BY <1>1, <1>2, <2>1 DEF Range
  <2>2. CASE i > Len(s)
    <3>1. i - Len(s) \in DOMAIN t /\ r[i] = t[i - Len(s)]
      BY <1>1, <1>2, <2>2
    <3>2. QED
      BY <2>2, <3>1 DEF Range
  <2>3. QED
    BY <1>2, <2>1, <2>2
<1>5. Range(r) = Range(s) \cup Range(t)
  <2>1. Range(r) \subseteq Range(s) \cup Range(t)
    BY <1>4 DEF Range
  <2>2. Range(s) \subseteq Range(r) /\ Range(t) \subseteq Range(r)
    BY <1>3 DEF Range
  <2>3. QED
    BY <2>1, <2>2
<1>6. ASSUME NEW i \in DOMAIN r, NEW j \in DOMAIN r, r[i] = r[j] PROVE i = j
  <2>1. \/ i \in DOMAIN s /\ j \in DOMAIN s /\ s[i] = s[j]
        \/ /\ i - Len(s) \in DOMAIN t /\ j - Len(s) \in DOMAIN t
           /\ t[i - Len(s)] = t[j - Len(s)]
    BY <1>4, <1>6
  <2>2. \/ i = j
        \/ i - Len(s) = j - Len(s)
    BY <2>1 DEF NoRepeat
  <2>3. i \in Nat /\ j \in Nat
    BY <1>2
  <2>4. QED
    BY <1>2, <2>2, <2>3
<1>7. NoRepeat(r)
  BY <1>6 DEF NoRepeat
<1> QED
  BY <1>1, <1>5, <1>7 DEF r

\* The end of a list without repetitions has none.
LEMMA SuffixKeepsNoRepeat ==
  ASSUME NEW S, NEW s \in Seq(S), NEW k \in 1..(Len(s) + 1), NoRepeat(s)
  PROVE  /\ SubSeq(s, k, Len(s)) \in Seq(S) /\ NoRepeat(SubSeq(s, k, Len(s)))
         /\ Range(SubSeq(s, k, Len(s))) \subseteq Range(s)
<1> DEFINE r == SubSeq(s, k, Len(s))
<1>1. Len(s) \in Nat /\ DOMAIN s = 1..Len(s)
  BY LenProperties
<1>2. \A i \in k..Len(s) : s[i] \in S
  <2>1. \A i \in 1..Len(s) : s[i] \in S
    BY ElementOfSeq
  <2>2. QED
    BY <1>1, <2>1
<1>3. /\ r \in Seq(S)
      /\ Len(r) = IF k <= Len(s) THEN Len(s) - k + 1 ELSE 0
      /\ \A i \in 1..(Len(s) - k + 1) : r[i] = s[k + i - 1]
  BY <1>1, <1>2, SubSeqProperties
<1> HIDE DEF r
<1>4. DOMAIN r = 1..(Len(s) - k + 1)
  <2>1. Len(r) = Len(s) - k + 1
    BY <1>1, <1>3
  <2>2. QED
    BY <1>3, <2>1, LenProperties
<1>5. \A i \in DOMAIN r : k + i - 1 \in DOMAIN s /\ r[i] = s[k + i - 1]
  BY <1>1, <1>3, <1>4
<1>6. ASSUME NEW i \in DOMAIN r, NEW j \in DOMAIN r, r[i] = r[j] PROVE i = j
  <2>1. k + i - 1 = k + j - 1
    BY <1>5, <1>6 DEF NoRepeat
  <2>2. QED
    BY <1>1, <1>4, <2>1
<1>7. NoRepeat(r) /\ Range(r) \subseteq Range(s)
  BY <1>5, <1>6 DEF NoRepeat, Range
<1> QED
  BY <1>3, <1>7 DEF r

-----------------------------------------------------------------------------

\* Every set of numbers has a least one.
LEMMA LeastNumber ==
  ASSUME NEW S \in SUBSET Nat, S # {}
  PROVE  \E m \in S : \A n \in S : m <= n
<1> DEFINE R == OpToRel(<, Nat)
<1>1. IsWellFoundedOn(R, Nat)
  BY NatLessThanWellFounded
<1>2. \A m, n \in Nat : m < n => <<m, n>> \in R
  BY DEF OpToRel
<1> HIDE DEF R
<1>3. PICK m \in S : \A n \in S : ~ (<<n, m>> \in R)
  BY <1>1, WFMin
<1>4. \A n \in S : ~(n < m)
  BY <1>2, <1>3
<1> QED
  BY <1>4

\* The number of positions up to each one counts the positions through.
LEMMA Ranks ==
  ASSUME NEW m \in Nat, NEW P \in SUBSET (1..m)
  PROVE  /\ IsFiniteSet(P) /\ Cardinality(P) \in Nat /\ Cardinality(P) <= m
         /\ \A i \in P : Rank(P, i) \in 1..Cardinality(P)
         /\ \A i, k \in P : i < k => Rank(P, i) < Rank(P, k)
         /\ \A n \in 1..Cardinality(P) : \E i \in P : Rank(P, i) = n
<1> DEFINE UpTo(i) == {j \in P : j <= i}
           rank == [i \in P |-> Cardinality(UpTo(i))]
<1>1. IsFiniteSet(P) /\ Cardinality(P) \in Nat /\ Cardinality(P) <= m
  <2>1. IsFiniteSet(1..m) /\ Cardinality(1..m) = m
    BY FS_Interval
  <2>2. QED
    BY <2>1, FS_Subset, FS_CardinalityType
<1>2. ASSUME NEW i \in P
      PROVE  /\ IsFiniteSet(UpTo(i)) /\ Cardinality(UpTo(i)) \in Nat
             /\ Cardinality(UpTo(i)) \in 1..Cardinality(P)
  <2>1. UpTo(i) \in SUBSET P /\ i \in UpTo(i)
    OBVIOUS
  <2>2. IsFiniteSet(UpTo(i)) /\ Cardinality(UpTo(i)) <= Cardinality(P)
    BY <1>1, <2>1, FS_Subset
  <2>3. Cardinality(UpTo(i)) \in Nat /\ Cardinality(UpTo(i)) # 0
    BY <2>1, <2>2, FS_CardinalityType, FS_EmptySet
  <2>4. QED
    BY <1>1, <2>2, <2>3
<1>3. ASSUME NEW i \in P, NEW k \in P, i < k
      PROVE  Cardinality(UpTo(i)) < Cardinality(UpTo(k))
  <2>1. UpTo(i) \in SUBSET UpTo(k) /\ UpTo(i) # UpTo(k)
    <3>1. k \in UpTo(k) /\ k \notin UpTo(i)
      BY <1>3
    <3>2. \A j \in UpTo(i) : j \in UpTo(k)
      BY <1>3
    <3>3. QED
      BY <3>1, <3>2
  <2>2. QED
    BY <1>2, <2>1, FS_Subset
<1>4. rank \in Injection(P, 1..Cardinality(P))
  <2>1. rank \in [P -> 1..Cardinality(P)]
    BY <1>2
  <2>2. \A i, k \in P : rank[i] = rank[k] => i = k
    BY <1>2, <1>3
  <2>3. QED
    BY <2>1, <2>2 DEF Injection, IsInjective
<1>5. rank \in Surjection(P, 1..Cardinality(P))
  <2>1. IsFiniteSet(1..Cardinality(P)) /\ Cardinality(1..Cardinality(P)) = Cardinality(P)
    BY <1>1, FS_Interval
  <2>2. QED
    BY <1>4, <2>1, FS_Injection
<1>6. \A n \in 1..Cardinality(P) : \E i \in P : Cardinality(UpTo(i)) = n
  BY <1>5 DEF Surjection
<1> QED
  BY <1>1, <1>2, <1>3, <1>6 DEF Rank

\* What a comprehension keeps of a list.
LEMMA SublistProperties ==
  ASSUME NEW S, NEW s \in Seq(S), NEW P \in SUBSET (DOMAIN s)
  PROVE  /\ Sublist(s, P) \in Seq(S)
         /\ Len(Sublist(s, P)) = Cardinality(P) /\ Cardinality(P) <= Len(s)
         /\ \A i \in P : /\ Rank(P, i) \in 1..Cardinality(P)
                         /\ Sublist(s, P)[Rank(P, i)] = s[i]
         /\ \A n \in 1..Cardinality(P) : \E i \in P :
              n = Rank(P, i) /\ Sublist(s, P)[n] = s[i]
         /\ Range(Sublist(s, P)) = {s[i] : i \in P}
<1> DEFINE Nth(n) == CHOOSE i \in P : Rank(P, i) = n
           kept == [n \in 1..Cardinality(P) |-> s[Nth(n)]]
<1>1. Len(s) \in Nat /\ DOMAIN s = 1..Len(s) /\ P \in SUBSET (1..Len(s))
  BY LenProperties
<1>2. /\ Cardinality(P) \in Nat /\ Cardinality(P) <= Len(s)
      /\ \A i \in P : Rank(P, i) \in 1..Cardinality(P)
      /\ \A i, k \in P : i < k => Rank(P, i) < Rank(P, k)
      /\ \A n \in 1..Cardinality(P) : \E i \in P : Rank(P, i) = n
  BY <1>1, Ranks
<1>3. ASSUME NEW n \in 1..Cardinality(P) PROVE Nth(n) \in P /\ Rank(P, Nth(n)) = n
  BY <1>2
<1>4. ASSUME NEW i \in P, NEW k \in P, Rank(P, i) = Rank(P, k) PROVE i = k
  <2>1. ~(i < k) /\ ~(k < i)
    BY <1>2, <1>4
  <2>2. QED
    BY <1>1, <2>1
<1>5. ASSUME NEW i \in P PROVE Nth(Rank(P, i)) = i
  BY <1>2, <1>3, <1>4, <1>5
<1>6. Sublist(s, P) = kept
  BY DEF Sublist
<1> HIDE DEF Nth
<1>7. kept \in [1..Cardinality(P) -> S]
  BY <1>1, <1>3
<1>8. kept \in Seq(S) /\ Len(kept) = Cardinality(P) /\ DOMAIN kept = 1..Cardinality(P)
  <2>1. kept \in Seq(S)
    BY <1>2, <1>7, SeqDef
  <2>2. QED
    BY <1>2, <1>7, <2>1, LenProperties
<1>9. \A i \in P : kept[Rank(P, i)] = s[i]
  BY <1>2, <1>5
<1>10. \A n \in 1..Cardinality(P) : \E i \in P : n = Rank(P, i) /\ kept[n] = s[i]
  BY <1>3
<1> HIDE DEF kept
<1>11. Range(kept) = {s[i] : i \in P}
  <2>1. Range(kept) = {kept[n] : n \in 1..Cardinality(P)}
    BY <1>8 DEF Range
  <2>2. QED
    BY <1>2, <1>9, <1>10, <2>1
<1> QED
  BY <1>2, <1>6, <1>8, <1>9, <1>10, <1>11

\* A list without repetitions has none after a comprehension.
LEMMA SublistKeepsNoRepeat ==
  ASSUME NEW S, NEW s \in Seq(S), NEW P \in SUBSET (DOMAIN s), NoRepeat(s)
  PROVE  NoRepeat(Sublist(s, P))
<1> DEFINE o == Sublist(s, P)
<1>1. /\ o \in Seq(S) /\ Len(o) = Cardinality(P)
      /\ \A n \in 1..Cardinality(P) : \E i \in P :
           n = Rank(P, i) /\ o[n] = s[i]
  BY SublistProperties
<1> HIDE DEF o
<1>2. DOMAIN o = 1..Cardinality(P)
  BY <1>1, LenProperties
<1>3. ASSUME NEW k \in DOMAIN o, NEW n \in DOMAIN o, o[k] = o[n] PROVE k = n
  <2>1. PICK i \in P : k = Rank(P, i) /\ o[k] = s[i]
    BY <1>1, <1>2
  <2>2. PICK l \in P : n = Rank(P, l) /\ o[n] = s[l]
    BY <1>1, <1>2
  <2>3. i = l
    BY <1>3, <2>1, <2>2 DEF NoRepeat
  <2>4. QED
    BY <2>1, <2>2, <2>3
<1>4. NoRepeat(o)
  BY <1>3 DEF NoRepeat
<1>5. QED
  BY <1>4 DEF o

\* The same for the entries that are in a set.
LEMMA OnlyProperties ==
  ASSUME NEW S, NEW s \in Seq(S), NEW T
  PROVE  /\ Only(s, T) \in Seq(S)
         /\ Len(Only(s, T)) <= Len(s) /\ Len(Only(s, T)) \in Nat
         /\ Range(Only(s, T)) = Range(s) \cap T
         /\ NoRepeat(s) => NoRepeat(Only(s, T))
<1> DEFINE P == {i \in DOMAIN s : s[i] \in T}
           o == Sublist(s, P)
<1>1. Only(s, T) = o
  BY DEF Only
<1>2. P \in SUBSET (DOMAIN s)
  OBVIOUS
<1>3. Range(s) \cap T = {s[i] : i \in P}
  BY DEF Range
<1> HIDE DEF P
<1>4. /\ o \in Seq(S) /\ Len(o) <= Len(s) /\ Len(o) \in Nat
      /\ Range(o) = {s[i] : i \in P}
  <2>1. Sublist(s, P) \in Seq(S)
    BY <1>2, SublistProperties
  <2>2. Len(Sublist(s, P)) = Cardinality(P) /\ Cardinality(P) <= Len(s)
    BY <1>2, SublistProperties
  <2>3. Range(Sublist(s, P)) = {s[i] : i \in P}
    BY <1>2, SublistProperties
  <2>4. QED
    BY <2>1, <2>2, <2>3, LenProperties
<1>5. NoRepeat(s) => NoRepeat(o)
  BY <1>2, SublistKeepsNoRepeat
<1> HIDE DEF o
<1> QED
  BY <1>1, <1>3, <1>4, <1>5
-----------------------------------------------------------------------------

\* The numbers up to n are n.
LEMMA CountUpTo == \A n \in Nat : IsFiniteSet(1..n) /\ Cardinality(1..n) = n
<1> TAKE n \in Nat
<1>1. /\ IsFiniteSet(1..n)
      /\ Cardinality(1..n) = IF 1 > n THEN 0 ELSE n - 1 + 1
  BY FS_Interval
<1> QED
  BY <1>1

\* The first n entries of a list, picked out.
LEMMA FirstEntries ==
  ASSUME NEW S, NEW s \in Seq(S), NEW n \in 0..Len(s)
  PROVE  /\ Sublist(s, 1..n) \in Seq(S) /\ Len(Sublist(s, 1..n)) = n
         /\ \A i \in 1..n : Sublist(s, 1..n)[i] = s[i]
<1> DEFINE o == Sublist(s, 1..n)
<1>1. Len(s) \in Nat /\ DOMAIN s = 1..Len(s) /\ 1..n \in SUBSET (DOMAIN s)
  BY LenProperties
<1>2. Cardinality(1..n) = n /\ \A i \in 1..n : Cardinality(1..i) = i
  BY <1>1, CountUpTo
<1>3. /\ o \in Seq(S) /\ Len(o) = Cardinality(1..n)
      /\ \A i \in 1..n : o[Rank(1..n, i)] = s[i]
  BY <1>1, SublistProperties
<1> HIDE DEF o
<1>4. ASSUME NEW i \in 1..n PROVE Rank(1..n, i) = i
  <2>1. {j \in 1..n : j <= i} = 1..i
    BY <1>1
  <2>2. QED
    BY <1>2, <2>1 DEF Rank
<1> QED
  BY <1>2, <1>3, <1>4 DEF o

\* The first n entries and a later one.
LEMMA FirstEntriesAndOne ==
  ASSUME NEW S, NEW s \in Seq(S), NEW n \in Nat, NEW k \in Nat, n < k, k <= Len(s),
         NEW P, P = (1..n) \cup {k}
  PROVE  /\ Sublist(s, P) \in Seq(S)
         /\ Len(Sublist(s, P)) = n + 1
         /\ \A i \in 1..n : Sublist(s, P)[i] = s[i]
         /\ Sublist(s, P)[n + 1] = s[k]
<1> DEFINE o == Sublist(s, P)
<1>1. Len(s) \in Nat /\ DOMAIN s = 1..Len(s) /\ P \in SUBSET (DOMAIN s)
  BY LenProperties
<1>2. /\ IsFiniteSet(1..n) /\ Cardinality(1..n) = n
      /\ \A i \in 1..n : Cardinality(1..i) = i
  BY <1>1, CountUpTo
<1>3. Cardinality(P) = n + 1
  <2>1. k \notin 1..n
    BY <1>1
  <2>2. Cardinality((1..n) \cup {k}) = Cardinality(1..n) + 1
    BY <1>2, <2>1, FS_AddElement
  <2>3. QED
    BY <1>2, <2>2
<1>4. /\ o \in Seq(S) /\ Len(o) = Cardinality(P)
      /\ \A i \in P : o[Rank(P, i)] = s[i]
  BY <1>1, SublistProperties
<1> HIDE DEF o
<1>5. ASSUME NEW i \in 1..n PROVE Rank(P, i) = i
  <2>1. {j \in P : j <= i} = 1..i
    BY <1>1
  <2>2. QED
    BY <1>2, <2>1 DEF Rank
<1>6. Rank(P, k) = n + 1
  <2>1. {j \in P : j <= k} = P
    BY <1>1
  <2>2. QED
    BY <1>3, <2>1 DEF Rank
<1>7. \A i \in 1..n : o[i] = s[i]
  BY <1>4, <1>5
<1>8. o[n + 1] = s[k]
  BY <1>4, <1>6
<1> QED
  BY <1>3, <1>4, <1>7, <1>8 DEF o

\* What comes in front is what is left when everything behind it is left out.
LEMMA OnlyTheFront ==
  ASSUME NEW S, NEW d \in Seq(S), NEW p \in Seq(S), NEW T,
         Range(d) \subseteq T, Range(p) \cap T = {}
  PROVE  Only(d \o p, T) = d
<1> DEFINE s == d \o p
<1>1. /\ s \in Seq(S) /\ Len(s) = Len(d) + Len(p)
      /\ \A i \in 1..(Len(d) + Len(p)) : s[i] = IF i <= Len(d) THEN d[i] ELSE p[i - Len(d)]
  BY ConcatProperties
<1> HIDE DEF s
<1>2. /\ Len(d) \in Nat /\ Len(p) \in Nat
      /\ DOMAIN d = 1..Len(d) /\ DOMAIN p = 1..Len(p) /\ DOMAIN s = 1..(Len(d) + Len(p))
  BY <1>1, LenProperties
<1>3. ASSUME NEW i \in DOMAIN s PROVE s[i] \in T <=> i <= Len(d)
  <2>1. CASE i <= Len(d)
    BY <1>1, <1>2, <2>1 DEF Range
  <2>2. CASE i > Len(d)
    <3>1. i - Len(d) \in DOMAIN p /\ s[i] = p[i - Len(d)]
      BY <1>1, <1>2, <2>2
    <3>2. QED
      BY <2>2, <3>1, <1>2 DEF Range
  <2>3. QED
    BY <1>2, <2>1, <2>2
<1>4. {i \in DOMAIN s : s[i] \in T} = 1..Len(d)
  BY <1>2, <1>3
<1>5. Len(d) \in 0..Len(s)
  BY <1>1, <1>2
<1>6. /\ Sublist(s, 1..Len(d)) \in Seq(S) /\ Len(Sublist(s, 1..Len(d))) = Len(d)
      /\ \A i \in 1..Len(d) : Sublist(s, 1..Len(d))[i] = d[i]
  <2>1. s \in Seq(S)
    BY <1>1
  <2>2. /\ Sublist(s, 1..Len(d)) \in Seq(S) /\ Len(Sublist(s, 1..Len(d))) = Len(d)
        /\ \A i \in 1..Len(d) : Sublist(s, 1..Len(d))[i] = s[i]
    BY <1>5, <2>1, FirstEntries, Zenon
  <2>3. QED
    BY <1>1, <1>2, <2>2
<1>7. Sublist(s, 1..Len(d)) = d
  BY <1>6, SeqEqual
<1> QED
  BY <1>4, <1>7 DEF Only, s

\* The same when one entry behind is not left out: it comes next.
LEMMA OnlyTheFrontAndOne ==
  ASSUME NEW S, NEW d \in Seq(S), NEW p \in Seq(S), NEW T, NEW k \in 1..Len(p),
         Range(d) \subseteq T, \A i \in 1..Len(p) : p[i] \in T <=> i = k
  PROVE  Only(d \o p, T) = Append(d, p[k])
<1> DEFINE s == d \o p
<1>1. /\ s \in Seq(S) /\ Len(s) = Len(d) + Len(p)
      /\ \A i \in 1..(Len(d) + Len(p)) : s[i] = IF i <= Len(d) THEN d[i] ELSE p[i - Len(d)]
  BY ConcatProperties
<1> HIDE DEF s
<1>2. /\ Len(d) \in Nat /\ Len(p) \in Nat
      /\ DOMAIN d = 1..Len(d) /\ DOMAIN p = 1..Len(p) /\ DOMAIN s = 1..(Len(d) + Len(p))
  BY <1>1, LenProperties
<1>3. ASSUME NEW i \in DOMAIN s PROVE s[i] \in T <=> i <= Len(d) \/ i = Len(d) + k
  <2>1. CASE i <= Len(d)
    BY <1>1, <1>2, <2>1 DEF Range
  <2>2. CASE i > Len(d)
    <3>1. i - Len(d) \in 1..Len(p) /\ s[i] = p[i - Len(d)]
      BY <1>1, <1>2, <2>2
    <3>2. s[i] \in T <=> i - Len(d) = k
      BY <3>1
    <3>3. QED
      BY <2>2, <3>2, <1>2
  <2>3. QED
    BY <1>2, <2>1, <2>2
<1>4. {i \in DOMAIN s : s[i] \in T} = (1..Len(d)) \cup {Len(d) + k}
  BY <1>2, <1>3
<1> DEFINE P == (1..Len(d)) \cup {Len(d) + k}
           o == Sublist(s, P)
<1>5. Only(s, T) = o
  BY <1>4 DEF Only
<1>6. Len(d) + k \in Nat /\ Len(d) < Len(d) + k /\ Len(d) + k <= Len(s)
  BY <1>1, <1>2
<1> HIDE DEF P
<1>7. /\ o \in Seq(S) /\ Len(o) = Len(d) + 1
      /\ \A i \in 1..Len(d) : o[i] = s[i]
      /\ o[Len(d) + 1] = s[Len(d) + k]
  <2> DEFINE n == Len(d)
             m == Len(d) + k
  <2>1. s \in Seq(S) /\ n \in Nat /\ m \in Nat /\ n < m /\ m <= Len(s) /\ P = (1..n) \cup {m}
    BY <1>1, <1>2, <1>6 DEF P
  <2> HIDE DEF n, m, o
  <2>2. /\ Sublist(s, P) \in Seq(S) /\ Len(Sublist(s, P)) = n + 1
        /\ \A i \in 1..n : Sublist(s, P)[i] = s[i]
        /\ Sublist(s, P)[n + 1] = s[m]
    BY <2>1, FirstEntriesAndOne, SMTT(60)
  <2>3. QED
    BY <2>2 DEF n, m, o
<1> HIDE DEF o
<1>8. /\ \A i \in 1..Len(d) : s[i] = d[i]
      /\ s[Len(d) + k] = p[k] /\ p[k] \in S
  <2>1. ~(Len(d) + k <= Len(d)) /\ (Len(d) + k) - Len(d) = k
    BY <1>2
  <2>2. s[Len(d) + k] = p[(Len(d) + k) - Len(d)]
    BY <1>1, <1>2, <2>1
  <2>3. QED
    BY <1>1, <1>2, <2>1, <2>2, ElementOfSeq
<1> DEFINE a == Append(d, p[k])
<1>9. /\ a \in Seq(S) /\ Len(a) = Len(d) + 1
      /\ \A i \in 1..Len(d) : a[i] = d[i]
      /\ a[Len(d) + 1] = p[k]
  BY <1>8, AppendProperties
<1> HIDE DEF a
<1>10. \A i \in 1..Len(o) : o[i] = a[i]
  BY <1>2, <1>7, <1>8, <1>9
<1>11. o = a
  BY <1>7, <1>9, <1>10, SeqEqual
<1> QED
  BY <1>5, <1>11 DEF a, s
=============================================================================
