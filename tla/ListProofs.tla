----------------------------- MODULE ListProofs -----------------------------
(* Facts about linked lists (LIST_ENTRY), which the models represent by       *)
(* sequences: what InsertTailList, InsertHeadList, RemoveHeadList and         *)
(* RemoveEntryList do to the elements of a list and to their order.           *)
EXTENDS Integers, Sequences, FiniteSets, SequencesExt, TLAPS, SequenceTheorems,
        WellFoundedInduction

(* The elements of a list, and that none is linked twice.                     *)
Items(s) == {s[i] : i \in 1..Len(s)}
Once(s) == \A i, j \in 1..Len(s) : s[i] = s[j] => i = j

(* Unlinking the element at position k.                                       *)
LEMMA RemoveAtSeq ==
  ASSUME NEW T, NEW s \in Seq(T), NEW k \in 1..Len(s)
  PROVE  /\ RemoveAt(s, k) \in Seq(T)
         /\ Len(RemoveAt(s, k)) = Len(s) - 1
         /\ \A j \in 1..(Len(s) - 1) :
              RemoveAt(s, k)[j] = IF j < k THEN s[j] ELSE s[j + 1]
<1> DEFINE a == SubSeq(s, 1, k - 1)
           b == SubSeq(s, k + 1, Len(s))
<1>1. Len(s) \in Nat /\ s \in [1..Len(s) -> T]
  BY LenProperties
<1>2. k \in Int /\ 1 <= k /\ k <= Len(s) /\ k - 1 \in Int /\ k + 1 \in Int
  BY <1>1
<1>3. /\ \A i \in 1..(k - 1) : s[i] \in T
      /\ \A i \in (k + 1)..Len(s) : s[i] \in T
  BY <1>1, <1>2
<1>4. /\ a \in Seq(T)
      /\ Len(a) = IF 1 <= k - 1 THEN (k - 1) - 1 + 1 ELSE 0
      /\ \A i \in 1..((k - 1) - 1 + 1) : a[i] = s[1 + i - 1]
  BY <1>1, <1>2, <1>3, SubSeqProperties
<1>5. /\ b \in Seq(T)
      /\ Len(b) = IF k + 1 <= Len(s) THEN Len(s) - (k + 1) + 1 ELSE 0
      /\ \A i \in 1..(Len(s) - (k + 1) + 1) : b[i] = s[(k + 1) + i - 1]
  BY <1>1, <1>2, <1>3, SubSeqProperties
<1>6. RemoveAt(s, k) = a \o b
  BY DEF RemoveAt
<1> HIDE DEF a, b
<1>7. Len(a) = k - 1 /\ Len(b) = Len(s) - k
  <2>1. Len(a) = IF 1 <= k - 1 THEN (k - 1) - 1 + 1 ELSE 0
    BY <1>4
  <2>2. Len(b) = IF k + 1 <= Len(s) THEN Len(s) - (k + 1) + 1 ELSE 0
    BY <1>5
  <2>3. k \in Int /\ Len(s) \in Int /\ 1 <= k /\ k <= Len(s)
    BY <1>1, <1>2
  <2> QED BY <2>1, <2>2, <2>3
<1>8. /\ a \o b \in Seq(T)
      /\ Len(a \o b) = Len(a) + Len(b)
      /\ \A i \in 1..(Len(a) + Len(b)) :
           (a \o b)[i] = IF i <= Len(a) THEN a[i] ELSE b[i - Len(a)]
  BY <1>4, <1>5, ConcatProperties
<1>9. ASSUME NEW j \in 1..(Len(s) - 1)
      PROVE  (a \o b)[j] = IF j < k THEN s[j] ELSE s[j + 1]
  <2>1. j \in Int /\ 1 <= j /\ j <= Len(s) - 1 /\ j \in 1..(Len(a) + Len(b))
    BY <1>1, <1>2, <1>7
  <2>2. (a \o b)[j] = IF j <= k - 1 THEN a[j] ELSE b[j - (k - 1)]
    BY <1>7, <1>8, <2>1
  <2>3. CASE j < k
    <3>1. j <= k - 1 /\ j \in 1..((k - 1) - 1 + 1) /\ 1 + j - 1 = j
      BY <1>2, <2>1, <2>3
    <3> QED BY <1>4, <2>2, <2>3, <3>1
  <2>4. CASE ~(j < k)
    <3>1. /\ ~(j <= k - 1) /\ j - (k - 1) \in 1..(Len(s) - (k + 1) + 1)
          /\ (k + 1) + (j - (k - 1)) - 1 = j + 1
      BY <1>1, <1>2, <2>1, <2>4
    <3> QED BY <1>5, <2>2, <2>4, <3>1
  <2> QED BY <2>3, <2>4
<1>10. Len(a \o b) = Len(s) - 1
  BY <1>1, <1>2, <1>7, <1>8
<1> QED BY <1>6, <1>8, <1>9, <1>10

(* Linking an element before position k.                                      *)
LEMMA InsertAtSeq ==
  ASSUME NEW T, NEW s \in Seq(T), NEW e \in T, NEW k \in 1..(Len(s) + 1)
  PROVE  /\ InsertAt(s, k, e) \in Seq(T)
         /\ Len(InsertAt(s, k, e)) = Len(s) + 1
         /\ \A j \in 1..(Len(s) + 1) :
              InsertAt(s, k, e)[j] = IF j < k THEN s[j] ELSE IF j = k THEN e ELSE s[j - 1]
<1> DEFINE a == SubSeq(s, 1, k - 1)
           b == SubSeq(s, k, Len(s))
<1>1. Len(s) \in Nat /\ s \in [1..Len(s) -> T]
  BY LenProperties
<1>2. k \in Int /\ 1 <= k /\ k <= Len(s) + 1 /\ k - 1 \in Int
  BY <1>1
<1>3. /\ \A i \in 1..(k - 1) : s[i] \in T
      /\ \A i \in k..Len(s) : s[i] \in T
  BY <1>1, <1>2
<1>4. /\ a \in Seq(T)
      /\ Len(a) = IF 1 <= k - 1 THEN (k - 1) - 1 + 1 ELSE 0
      /\ \A i \in 1..((k - 1) - 1 + 1) : a[i] = s[1 + i - 1]
  BY <1>1, <1>2, <1>3, SubSeqProperties
<1>5. /\ b \in Seq(T)
      /\ Len(b) = IF k <= Len(s) THEN Len(s) - k + 1 ELSE 0
      /\ \A i \in 1..(Len(s) - k + 1) : b[i] = s[k + i - 1]
  BY <1>1, <1>2, <1>3, SubSeqProperties
<1>6. InsertAt(s, k, e) = (a \o <<e>>) \o b
  BY DEF InsertAt
<1> HIDE DEF a, b
<1>7. Len(a) = k - 1 /\ Len(b) = Len(s) - k + 1
  BY <1>1, <1>2, <1>4, <1>5
<1>8. <<e>> \in Seq(T) /\ Len(<<e>>) = 1 /\ <<e>>[1] = e
  OBVIOUS
<1> DEFINE c == a \o <<e>>
<1>9. /\ c \in Seq(T) /\ Len(c) = k
      /\ \A i \in 1..k : c[i] = IF i <= k - 1 THEN a[i] ELSE <<e>>[i - (k - 1)]
  <2>1. /\ c \in Seq(T) /\ Len(c) = Len(a) + 1
        /\ \A i \in 1..(Len(a) + 1) : c[i] = IF i <= Len(a) THEN a[i] ELSE <<e>>[i - Len(a)]
    BY <1>4, <1>8, ConcatProperties
  <2>2. Len(a) + 1 = k
    BY <1>2, <1>7
  <2> QED BY <1>7, <2>1, <2>2
<1> HIDE DEF c
<1>10. /\ c \o b \in Seq(T)
       /\ Len(c \o b) = Len(c) + Len(b)
       /\ \A i \in 1..(Len(c) + Len(b)) : (c \o b)[i] = IF i <= Len(c) THEN c[i] ELSE b[i - Len(c)]
  BY <1>5, <1>9, ConcatProperties
<1>11. Len(c) + Len(b) = Len(s) + 1
  BY <1>1, <1>2, <1>7, <1>9
<1>12. ASSUME NEW j \in 1..(Len(s) + 1)
       PROVE  (c \o b)[j] = IF j < k THEN s[j] ELSE IF j = k THEN e ELSE s[j - 1]
  <2>1. j \in Int /\ 1 <= j /\ j <= Len(s) + 1
    BY <1>1
  <2>2. (c \o b)[j] = IF j <= k THEN c[j] ELSE b[j - k]
    BY <1>9, <1>10, <1>11
  <2>3. CASE j < k
    <3>1. j <= k - 1 /\ j <= k /\ j \in 1..k /\ j \in 1..((k - 1) - 1 + 1) /\ 1 + j - 1 = j
      BY <1>2, <2>1, <2>3
    <3> QED BY <1>4, <1>9, <2>2, <2>3, <3>1
  <2>4. CASE j = k
    <3>1. ~(j <= k - 1) /\ j \in 1..k /\ j - (k - 1) = 1 /\ ~(j < k) /\ j <= k
      BY <1>2, <2>4
    <3> QED BY <1>8, <1>9, <2>2, <2>4, <3>1
  <2>5. CASE j > k
    <3>1. /\ ~(j <= k) /\ ~(j < k) /\ j # k /\ j - k \in 1..(Len(s) - k + 1)
          /\ k + (j - k) - 1 = j - 1
      BY <1>1, <1>2, <2>1, <2>5
    <3> QED BY <1>5, <2>2, <3>1
  <2>6. j < k \/ j = k \/ j > k
    BY <1>2, <2>1
  <2> QED BY <2>3, <2>4, <2>5, <2>6
<1>13. InsertAt(s, k, e) = c \o b
  BY <1>6 DEF c
<1> QED BY <1>10, <1>11, <1>12, <1>13

(* The same in terms of the elements.                                         *)
LEMMA RemoveAtItems ==
  ASSUME NEW T, NEW s \in Seq(T), NEW k \in 1..Len(s), Once(s)
  PROVE  /\ RemoveAt(s, k) \in Seq(T) /\ Once(RemoveAt(s, k))
         /\ Items(RemoveAt(s, k)) = Items(s) \ {s[k]}
<1> DEFINE r == RemoveAt(s, k)
           at(j) == IF j < k THEN j ELSE j + 1
<1>1. Len(s) \in Nat /\ k \in Int /\ 1 <= k /\ k <= Len(s)
  BY LenProperties
<1>2. r \in Seq(T) /\ Len(r) = Len(s) - 1 /\ \A j \in 1..Len(r) : r[j] = s[at(j)]
  <2>1. r \in Seq(T) /\ Len(r) = Len(s) - 1
    BY RemoveAtSeq
  <2>2. ASSUME NEW j \in 1..(Len(s) - 1) PROVE r[j] = s[at(j)]
    BY RemoveAtSeq
  <2> QED BY <2>1, <2>2
<1>3. ASSUME NEW j \in 1..Len(r) PROVE at(j) \in 1..Len(s) /\ at(j) # k
  <2>1. j \in Int /\ 1 <= j /\ j <= Len(s) - 1
    BY <1>1, <1>2
  <2> QED BY <1>1, <2>1
<1>4. ASSUME NEW i \in 1..Len(r), NEW j \in 1..Len(r), at(i) = at(j) PROVE i = j
  BY <1>1, <1>4
<1>5. ASSUME NEW i \in 1..Len(s), i # k PROVE \E j \in 1..Len(r) : at(j) = i
  <2>1. i \in Int /\ 1 <= i /\ i <= Len(s)
    BY <1>1
  <2>2. CASE i < k
    <3>1. i \in 1..Len(r) /\ at(i) = i
      BY <1>1, <1>2, <2>1, <2>2
    <3> QED BY <3>1
  <2>3. CASE ~(i < k)
    <3>1. i - 1 \in 1..Len(r) /\ at(i - 1) = i
      BY <1>1, <1>2, <1>5, <2>1, <2>3
    <3> QED BY <3>1
  <2> QED BY <2>2, <2>3
<1> HIDE DEF r, at
<1>6. Once(r)
  BY <1>2, <1>3, <1>4 DEF Once
<1>7. Items(r) = Items(s) \ {s[k]}
  <2>1. \A j \in 1..Len(r) : r[j] \in Items(s) /\ r[j] # s[k]
    BY <1>2, <1>3 DEF Items, Once
  <2>2. \A i \in 1..Len(s) : s[i] # s[k] => \E j \in 1..Len(r) : r[j] = s[i]
    BY <1>2, <1>5
  <2> QED BY <2>1, <2>2 DEF Items
<1> QED BY <1>2, <1>6, <1>7 DEF r

(* The elements after linking a new one at position k.                        *)
LEMMA InsertAtItems ==
  ASSUME NEW T, NEW s \in Seq(T), NEW e \in T, NEW k \in 1..(Len(s) + 1), Once(s), e \notin Items(s)
  PROVE  /\ InsertAt(s, k, e) \in Seq(T) /\ Once(InsertAt(s, k, e))
         /\ Items(InsertAt(s, k, e)) = Items(s) \cup {e}
<1> DEFINE r == InsertAt(s, k, e)
           at(j) == IF j < k THEN j ELSE j - 1
<1>1. Len(s) \in Nat /\ k \in Int /\ 1 <= k /\ k <= Len(s) + 1
  BY LenProperties
<1>2. /\ r \in Seq(T) /\ Len(r) = Len(s) + 1 /\ k \in 1..Len(r) /\ r[k] = e
      /\ \A j \in 1..Len(r) : j # k => r[j] = s[at(j)]
  <2>1. r \in Seq(T) /\ Len(r) = Len(s) + 1
    BY InsertAtSeq
  <2>2. ASSUME NEW j \in 1..(Len(s) + 1)
        PROVE  r[j] = IF j < k THEN s[j] ELSE IF j = k THEN e ELSE s[j - 1]
    BY InsertAtSeq
  <2>3. r[k] = e
    BY <1>1, <2>2
  <2> QED BY <1>1, <2>1, <2>2, <2>3
<1>3. ASSUME NEW j \in 1..Len(r), j # k PROVE at(j) \in 1..Len(s)
  <2>1. j \in Int /\ 1 <= j /\ j <= Len(s) + 1
    BY <1>1, <1>2
  <2> QED BY <1>1, <1>3, <2>1
<1>4. ASSUME NEW i \in 1..Len(r), NEW j \in 1..Len(r), i # k, j # k, at(i) = at(j) PROVE i = j
  BY <1>1, <1>4
<1>5. ASSUME NEW i \in 1..Len(s) PROVE \E j \in 1..Len(r) : at(j) = i /\ j # k
  <2>1. i \in Int /\ 1 <= i /\ i <= Len(s)
    BY <1>1
  <2>2. CASE i < k
    <3>1. i \in 1..Len(r) /\ at(i) = i /\ i # k
      BY <1>1, <1>2, <2>1, <2>2
    <3> QED BY <3>1
  <2>3. CASE ~(i < k)
    <3>1. i + 1 \in 1..Len(r) /\ at(i + 1) = i /\ i + 1 # k
      BY <1>1, <1>2, <2>1, <2>3
    <3> QED BY <3>1
  <2> QED BY <2>2, <2>3
<1> HIDE DEF r, at
<1>6. Once(r)
  <2> SUFFICES ASSUME NEW i \in 1..Len(r), NEW j \in 1..Len(r), r[i] = r[j] PROVE i = j
    BY DEF Once
  <2>1. CASE i # k /\ j # k
    BY <1>2, <1>3, <1>4, <2>1 DEF Once
  <2>2. CASE i = k \/ j = k
    BY <1>2, <1>3, <2>2 DEF Items
  <2> QED BY <2>1, <2>2
<1>7. Items(r) = Items(s) \cup {e}
  <2>1. \A j \in 1..Len(r) : r[j] \in Items(s) \cup {e}
    BY <1>2, <1>3 DEF Items
  <2>2. \A i \in 1..Len(s) : \E j \in 1..Len(r) : r[j] = s[i]
    BY <1>2, <1>5
  <2>3. \E j \in 1..Len(r) : r[j] = e
    BY <1>2
  <2> QED BY <2>1, <2>2, <2>3 DEF Items
<1> QED BY <1>2, <1>6, <1>7 DEF r

(* A set of positions has a first one.                                        *)
LEMMA LeastNatural ==
  ASSUME NEW S \in SUBSET Nat, S # {}
  PROVE  \E n \in S : \A m \in S : n <= m
<1> DEFINE R == {ss \in Nat \X Nat : ss[1] < ss[2]}
<1>1. IsWellFoundedOn(R, Nat)
  <2>1. R = OpToRel(<, Nat)
    BY Zenon DEF OpToRel
  <2> QED BY <2>1, NatLessThanWellFounded, Zenon
<1>2. \E n \in S : \A m \in S : ~(<<m, n>> \in R)
  BY <1>1, WFMin, Zenon
<1>3. PICK n \in S : \A m \in S : ~(<<m, n>> \in R)
  BY <1>2, Zenon
<1>4. ASSUME NEW m \in S PROVE n <= m
  <2>1. ~(m < n)
    BY <1>3
  <2>2. m \in Nat /\ n \in Nat
    BY <1>3
  <2> QED BY <2>1, <2>2
<1> QED BY <1>4

(* An item joins a list at its tail, joins it at its head, leaves it at its   *)
(* head.                                                                      *)
LEMMA AppendItems ==
  ASSUME NEW T, NEW s \in Seq(T), NEW e \in T, Once(s), e \notin Items(s)
  PROVE  /\ Append(s, e) \in Seq(T) /\ Once(Append(s, e))
         /\ Items(Append(s, e)) = Items(s) \cup {e} /\ Len(Append(s, e)) = Len(s) + 1
<1> DEFINE r == Append(s, e)
<1>1. /\ Len(s) \in Nat /\ r \in Seq(T) /\ Len(r) = Len(s) + 1
      /\ r[Len(s) + 1] = e /\ \A i \in 1..Len(s) : r[i] = s[i]
  BY LenProperties, AppendProperties
<1> HIDE DEF r
<1>2. \A i \in 1..Len(r) : i \in 1..Len(s) \/ i = Len(s) + 1
  BY <1>1
<1>3. Len(s) + 1 \in 1..Len(r) /\ \A i \in 1..Len(s) : i \in 1..Len(r)
  BY <1>1
<1>4. Once(r)
  BY <1>1, <1>2 DEF Once, Items
<1>5. Items(r) = Items(s) \cup {e}
  BY <1>1, <1>2, <1>3 DEF Items
<1> QED BY <1>1, <1>4, <1>5 DEF r

(* InsertHeadList links a new element before the others.                      *)
LEMMA PrependItems ==
  ASSUME NEW T, NEW s \in Seq(T), NEW e \in T, Once(s), e \notin Items(s)
  PROVE  /\ <<e>> \o s \in Seq(T) /\ Once(<<e>> \o s)
         /\ Items(<<e>> \o s) = Items(s) \cup {e} /\ Len(<<e>> \o s) = Len(s) + 1
<1> DEFINE r == <<e>> \o s
<1>1. <<e>> \in Seq(T) /\ Len(<<e>>) = 1 /\ <<e>>[1] = e /\ Len(s) \in Nat
  BY LenProperties
<1>2. /\ r \in Seq(T) /\ Len(r) = 1 + Len(s)
      /\ \A i \in 1..(1 + Len(s)) : r[i] = IF i <= 1 THEN <<e>>[i] ELSE s[i - 1]
  BY <1>1, ConcatProperties
<1>3. r[1] = e /\ \A i \in 1..Len(r) : i # 1 => r[i] = s[i - 1] /\ i - 1 \in 1..Len(s)
  BY <1>1, <1>2
<1> HIDE DEF r
<1>4. 1 \in 1..Len(r) /\ \A i \in 1..Len(s) : i + 1 \in 1..Len(r) /\ r[i + 1] = s[i]
  BY <1>1, <1>2, <1>3
<1>5. Once(r)
  <2> SUFFICES ASSUME NEW i \in 1..Len(r), NEW j \in 1..Len(r), r[i] = r[j] PROVE i = j
    BY DEF Once
  <2>1. CASE i = 1 \/ j = 1
    BY <1>3, <2>1 DEF Items
  <2>2. CASE i # 1 /\ j # 1
    <3>1. i - 1 = j - 1
      BY <1>3, <2>2 DEF Once
    <3> QED BY <1>1, <1>2, <3>1
  <2> QED BY <2>1, <2>2
<1>6. Items(r) = Items(s) \cup {e}
  <2>1. Items(r) \subseteq Items(s) \cup {e}
    BY <1>3 DEF Items
  <2>2. \A i \in 1..Len(s) : \E j \in 1..Len(r) : r[j] = s[i]
    BY <1>4
  <2>3. Items(s) \subseteq Items(r)
    BY <2>2 DEF Items
  <2>4. e \in Items(r)
    BY <1>3, <1>4 DEF Items
  <2> QED BY <2>1, <2>3, <2>4
<1> QED BY <1>1, <1>2, <1>5, <1>6 DEF r

(* RemoveHeadList unlinks the oldest element, and only that one.              *)
LEMMA TailItems ==
  ASSUME NEW T, NEW s \in Seq(T), s # <<>>, Once(s)
  PROVE  /\ Head(s) \in T /\ Head(s) \in Items(s) /\ Tail(s) \in Seq(T) /\ Once(Tail(s))
         /\ Items(Tail(s)) = Items(s) \ {Head(s)} /\ Len(Tail(s)) = Len(s) - 1
<1> DEFINE r == Tail(s)
<1>1. /\ Len(s) \in Nat \ {0} /\ r \in Seq(T) /\ Head(s) \in T /\ Head(s) = s[1]
      /\ Len(r) = Len(s) - 1 /\ \A i \in 1..Len(r) : r[i] = s[i + 1]
  BY EmptySeq, HeadTailProperties
<1> HIDE DEF r
<1>2. 1 \in 1..Len(s) /\ \A i \in 1..Len(r) : i + 1 \in 1..Len(s) /\ i + 1 # 1
  BY <1>1
<1>3. Once(r)
  <2> SUFFICES ASSUME NEW i \in 1..Len(r), NEW j \in 1..Len(r), r[i] = r[j] PROVE i = j
    BY DEF Once
  <2>1. i + 1 = j + 1
    BY <1>1, <1>2 DEF Once
  <2> QED BY <1>1, <2>1
<1>4. \A j \in 1..Len(s) : j # 1 => \E i \in 1..Len(r) : r[i] = s[j]
  <2> SUFFICES ASSUME NEW j \in 1..Len(s), j # 1 PROVE j - 1 \in 1..Len(r) /\ r[j - 1] = s[j]
    OBVIOUS
  <2>1. j - 1 \in 1..Len(r) /\ (j - 1) + 1 = j
    BY <1>1
  <2> QED BY <1>1, <2>1
<1>5. Items(r) = Items(s) \ {Head(s)}
  <2>1. \A i \in 1..Len(r) : r[i] \in Items(s) /\ r[i] # s[1]
    BY <1>1, <1>2 DEF Items, Once
  <2>2. \A j \in 1..Len(s) : s[j] # s[1] => s[j] \in Items(r)
    BY <1>4 DEF Items
  <2> QED BY <1>1, <2>1, <2>2 DEF Items
<1> QED BY <1>1, <1>2, <1>3, <1>5 DEF r, Items
=============================================================================
