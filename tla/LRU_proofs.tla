----------------------------- MODULE LRU_proofs -----------------------------
(***************************************************************************)
(* What the operations of the LRU cache do to its keys, for a cache in     *)
(* which no key occurs twice.  The proofs about krd's request table cite   *)
(* these facts and never look inside a sequence.                           *)
(***************************************************************************)
EXTENDS LRU, SequenceTheorems, TLAPS

LEMMA InjectiveIndices ==
  ASSUME NEW K, NEW c \in Seq(K)
  PROVE  IsInjective(c) <=> \A i, j \in 1..Len(c) : c[i] = c[j] => i = j
BY LenProperties DEF IsInjective

(* The keys of a cache as a set.                                           *)
LEMMA CacheKeys ==
  ASSUME NEW K, NEW c, IsCache(c, K)
  PROVE  ToSet(c) \subseteq K /\ \A x : x \in ToSet(c) <=> Contains(c, x)
<1>1. c \in Seq(K) /\ DOMAIN c = 1..Len(c) /\ \A i \in 1..Len(c) : c[i] \in K
  BY LenProperties, ElementOfSeq DEF IsCache
<1> QED BY <1>1 DEF ToSet, Contains

(* RemoveAt closes the gap.                                                *)
LEMMA RemoveAtElements ==
  ASSUME NEW K, NEW c \in Seq(K), NEW i \in 1..Len(c)
  PROVE  /\ RemoveAt(c, i) \in Seq(K)
         /\ Len(RemoveAt(c, i)) = Len(c) - 1
         /\ \A j \in 1..(Len(c)-1) : RemoveAt(c, i)[j] = IF j < i THEN c[j] ELSE c[j+1]
<1> DEFINE a == SubSeq(c, 1, i-1)
           b == SubSeq(c, i+1, Len(c))
<1>0. Len(c) \in Nat /\ i \in Nat /\ i >= 1 /\ i <= Len(c)
  BY LenProperties
<1>1. a \in Seq(K) /\ Len(a) = i - 1 /\ \A j \in 1..(i-1) : a[j] = c[j]
  BY <1>0, SubSeqProperties
<1>2. b \in Seq(K) /\ Len(b) = Len(c) - i /\ \A j \in 1..(Len(c)-i) : b[j] = c[i+j]
  BY <1>0, SubSeqProperties
<1>3. RemoveAt(c, i) = a \o b
  BY DEF RemoveAt
<1> HIDE DEF a, b
<1>4. /\ a \o b \in Seq(K) /\ Len(a \o b) = Len(a) + Len(b)
      /\ \A j \in 1..(Len(a) + Len(b)) :
            (a \o b)[j] = IF j <= Len(a) THEN a[j] ELSE b[j - Len(a)]
  BY <1>1, <1>2, ConcatProperties
<1>5. ASSUME NEW j \in 1..(Len(c)-1)
      PROVE  (a \o b)[j] = IF j < i THEN c[j] ELSE c[j+1]
  <2>1. CASE j < i
    BY <1>0, <1>1, <1>2, <1>4, <2>1
  <2>2. CASE ~(j < i)
    <3>1. j - Len(a) \in 1..(Len(c)-i) /\ i + (j - Len(a)) = j + 1
      BY <1>0, <1>1, <2>2
    <3>2. (a \o b)[j] = b[j - Len(a)]
      BY <1>0, <1>1, <1>2, <1>4, <2>2
    <3> QED BY <1>2, <2>2, <3>1, <3>2
  <2> QED BY <2>1, <2>2
<1> QED BY <1>0, <1>1, <1>2, <1>3, <1>4, <1>5

(* The cache without k, which it held or not.                              *)
LEMMA LruRemoveKeys ==
  ASSUME NEW K, NEW c, IsCache(c, K), NEW k
  PROVE  /\ IsCache(LruRemove(c, k), K)
         /\ \A x : Contains(LruRemove(c, k), x) <=> Contains(c, x) /\ x # k
         /\ Len(LruRemove(c, k)) = IF Contains(c, k) THEN Len(c) - 1 ELSE Len(c)
<1>0. c \in Seq(K) /\ Len(c) \in Nat
  BY LenProperties DEF IsCache
<1>1. \A i, j \in 1..Len(c) : c[i] = c[j] => i = j
  BY <1>0, InjectiveIndices DEF IsCache
<1>2. CASE ~Contains(c, k)
  BY <1>0, <1>2 DEF LruRemove, Contains
<1>3. CASE Contains(c, k)
  <2> DEFINE i == CHOOSE i \in 1..Len(c) : c[i] = k
             d == RemoveAt(c, i)
  <2>1. i \in 1..Len(c) /\ c[i] = k
    BY <1>3 DEF Contains
  <2>2. LruRemove(c, k) = d
    BY <1>3 DEF LruRemove
  <2> HIDE DEF i
  <2>3. /\ d \in Seq(K) /\ Len(d) = Len(c) - 1
        /\ \A j \in 1..(Len(c)-1) : d[j] = IF j < i THEN c[j] ELSE c[j+1]
    BY <1>0, <2>1, RemoveAtElements
  <2> HIDE DEF d
  <2>4. \A j, l \in 1..Len(d) : d[j] = d[l] => j = l
    BY <1>0, <1>1, <2>1, <2>3
  <2>5. IsInjective(d)
    BY <2>3, <2>4, InjectiveIndices
  <2>6. ASSUME NEW x PROVE Contains(d, x) <=> Contains(c, x) /\ x # k
    <3>1. ASSUME NEW j \in 1..Len(d), d[j] = x
          PROVE  Contains(c, x) /\ x # k
      <4>1. CASE j < i
        BY <1>0, <1>1, <2>1, <2>3, <3>1, <4>1 DEF Contains
      <4>2. CASE ~(j < i)
        <5>1. j + 1 \in 1..Len(c) /\ c[j + 1] = x /\ j + 1 # i
          BY <1>0, <2>1, <2>3, <3>1, <4>2
        <5> QED BY <1>1, <2>1, <5>1 DEF Contains
      <4> QED BY <4>1, <4>2
    <3>2. ASSUME NEW j \in 1..Len(c), c[j] = x, x # k
          PROVE  Contains(d, x)
      <4>1. CASE j < i
        <5>1. j \in 1..Len(d) /\ d[j] = x
          BY <1>0, <2>1, <2>3, <3>2, <4>1
        <5> QED BY <5>1 DEF Contains
      <4>2. CASE j > i
        <5>1. j - 1 \in 1..Len(d) /\ d[j - 1] = x
          BY <1>0, <2>1, <2>3, <3>2, <4>2
        <5> QED BY <5>1 DEF Contains
      <4> QED BY <2>1, <3>2, <4>1, <4>2
    <3> QED BY <3>1, <3>2 DEF Contains
  <2> QED BY <1>3, <2>2, <2>3, <2>5, <2>6 DEF IsCache
<1> QED BY <1>2, <1>3

(* A key put in front of a cache that does not hold it.                    *)
LEMMA PushFrontKeys ==
  ASSUME NEW K, NEW c, IsCache(c, K), NEW k \in K, ~Contains(c, k)
  PROVE  /\ IsCache(<<k>> \o c, K)
         /\ \A x : Contains(<<k>> \o c, x) <=> Contains(c, x) \/ x = k
         /\ Len(<<k>> \o c) = Len(c) + 1
<1> DEFINE d == <<k>> \o c
<1>0. c \in Seq(K) /\ Len(c) \in Nat /\ <<k>> \in Seq(K) /\ Len(<<k>>) = 1 /\ <<k>>[1] = k
  BY LenProperties DEF IsCache
<1>1. /\ d \in Seq(K) /\ Len(d) = Len(c) + 1
      /\ \A j \in 1..(Len(c)+1) : d[j] = IF j = 1 THEN k ELSE c[j-1]
  BY <1>0, ConcatProperties
<1> HIDE DEF d
<1>2. \A i, j \in 1..Len(c) : c[i] = c[j] => i = j
  BY <1>0, InjectiveIndices DEF IsCache
<1>3. ASSUME NEW i \in 1..Len(d), NEW j \in 1..Len(d), d[i] = d[j] PROVE i = j
  <2>1. ASSUME NEW l \in 2..Len(d)
        PROVE  l - 1 \in 1..Len(c) /\ d[l] = c[l - 1] /\ d[l] # k
    <3>1. l - 1 \in 1..Len(c) /\ l \in 1..(Len(c)+1) /\ l # 1
      BY <1>0, <1>1
    <3>2. d[l] = c[l - 1]
      BY <1>1, <3>1
    <3>3. c[l - 1] # k
      BY <3>1 DEF Contains
    <3> QED BY <3>1, <3>2, <3>3
  <2>2. d[1] = k
    BY <1>0, <1>1
  <2>3. CASE i = 1 \/ j = 1
    BY <1>0, <1>1, <1>3, <2>1, <2>2, <2>3
  <2>4. CASE i # 1 /\ j # 1
    <3>1. i \in 2..Len(d) /\ j \in 2..Len(d)
      BY <1>0, <1>1, <2>4
    <3>2. i - 1 = j - 1
      BY <1>2, <1>3, <2>1, <3>1
    <3> QED BY <3>1, <3>2
  <2> QED BY <2>3, <2>4
<1>4. IsInjective(d)
  BY <1>1, <1>3, InjectiveIndices
<1>5. ASSUME NEW x PROVE Contains(d, x) <=> Contains(c, x) \/ x = k
  <2>1. ASSUME NEW j \in 1..Len(d), d[j] = x PROVE Contains(c, x) \/ x = k
    BY <1>0, <1>1, <2>1 DEF Contains
  <2>2. ASSUME NEW j \in 1..Len(c), c[j] = x PROVE Contains(d, x)
    <3>1. j + 1 \in 1..Len(d) /\ d[j + 1] = x
      BY <1>0, <1>1, <2>2
    <3> QED BY <3>1 DEF Contains
  <2>3. Contains(d, k)
    BY <1>0, <1>1 DEF Contains
  <2> QED BY <2>1, <2>2, <2>3 DEF Contains
<1> QED BY <1>1, <1>4, <1>5 DEF IsCache, d

(* Looking a key up changes the order only.                                *)
LEMMA LruGetKeys ==
  ASSUME NEW K, NEW c, IsCache(c, K), NEW k \in K
  PROVE  /\ IsCache(LruGet(c, k), K)
         /\ \A x : Contains(LruGet(c, k), x) <=> Contains(c, x)
         /\ Len(LruGet(c, k)) = Len(c)
<1> DEFINE d == LruRemove(c, k)
<1>0. Len(c) \in Nat
  BY LenProperties DEF IsCache
<1>1. CASE Contains(c, k)
  <2>1. /\ IsCache(d, K) /\ Len(d) = Len(c) - 1
        /\ \A x : Contains(d, x) <=> Contains(c, x) /\ x # k
    BY <1>1, LruRemoveKeys
  <2> HIDE DEF d
  <2>2. /\ IsCache(<<k>> \o d, K) /\ Len(<<k>> \o d) = Len(d) + 1
        /\ \A x : Contains(<<k>> \o d, x) <=> Contains(d, x) \/ x = k
    BY <2>1, PushFrontKeys
  <2>3. LruGet(c, k) = <<k>> \o d
    BY <1>1 DEF LruGet, d
  <2> QED BY <1>0, <1>1, <2>1, <2>2, <2>3
<1>2. CASE ~Contains(c, k)
  BY <1>2 DEF LruGet
<1> QED BY <1>1, <1>2

(* RemoveOldest takes the last key away, and only that.                    *)
LEMMA LruRemoveOldestKeys ==
  ASSUME NEW K, NEW c, IsCache(c, K), c # <<>>
  PROVE  /\ IsCache(LruRemoveOldest(c), K)
         /\ Last(c) \in K /\ Contains(c, Last(c))
         /\ \A x : Contains(LruRemoveOldest(c), x) <=> Contains(c, x) /\ x # Last(c)
         /\ Len(LruRemoveOldest(c)) = Len(c) - 1
<1> DEFINE d == SubSeq(c, 1, Len(c) - 1)
<1>0. c \in Seq(K) /\ Len(c) \in Nat /\ Len(c) # 0
  BY LenProperties, EmptySeq DEF IsCache
<1>1. \A i, j \in 1..Len(c) : c[i] = c[j] => i = j
  BY <1>0, InjectiveIndices DEF IsCache
<1>2. /\ d \in Seq(K) /\ Len(d) = Len(c) - 1
      /\ \A j \in 1..(Len(c)-1) : d[j] = c[j]
  <2>1. \A j \in 1..(Len(c) - 1) : c[j] \in K
    BY <1>0, ElementOfSeq
  <2>2. /\ SubSeq(c, 1, Len(c) - 1) \in Seq(K)
        /\ Len(SubSeq(c, 1, Len(c) - 1)) =
              IF 1 <= Len(c) - 1 THEN Len(c) - 1 - 1 + 1 ELSE 0
        /\ \A j \in 1 .. Len(c) - 1 - 1 + 1 : SubSeq(c, 1, Len(c) - 1)[j] = c[1 + j - 1]
    BY <1>0, <2>1, SubSeqProperties
  <2>3. Len(c) - 1 - 1 + 1 = Len(c) - 1 /\ Len(c) - 1 \in Nat
    BY <1>0
  <2>4. Len(d) = Len(c) - 1
    BY <2>2, <2>3
  <2>5. ASSUME NEW j \in 1..(Len(c) - 1) PROVE d[j] = c[j]
    <3>1. 1 + j - 1 = j
      OBVIOUS
    <3> QED BY <2>2, <2>3, <3>1
  <2> QED BY <2>2, <2>4, <2>5
<1>3. LruRemoveOldest(c) = d
  BY DEF LruRemoveOldest, Front
<1> HIDE DEF d
<1>4. IsInjective(d)
  BY <1>0, <1>1, <1>2, InjectiveIndices
<1>5. Last(c) = c[Len(c)] /\ Last(c) \in K /\ Contains(c, Last(c))
  BY <1>0 DEF Last, Contains
<1>6. ASSUME NEW x PROVE Contains(d, x) <=> Contains(c, x) /\ x # Last(c)
  <2>1. ASSUME NEW j \in 1..Len(d), d[j] = x PROVE Contains(c, x) /\ x # Last(c)
    <3>1. j \in 1..Len(c) /\ j # Len(c) /\ c[j] = x /\ Len(c) \in 1..Len(c)
      BY <1>0, <1>2, <2>1
    <3> QED BY <1>1, <1>5, <3>1 DEF Contains
  <2>2. ASSUME NEW j \in 1..Len(c), c[j] = x, x # Last(c) PROVE Contains(d, x)
    <3>1. j \in 1..Len(d) /\ d[j] = x
      BY <1>0, <1>2, <1>5, <2>2
    <3> QED BY <3>1 DEF Contains
  <2> QED BY <2>1, <2>2 DEF Contains
<1> QED BY <1>2, <1>3, <1>4, <1>5, <1>6 DEF IsCache

(* Add never exceeds the limit, holds nothing but the old keys and the new *)
(* one, and holds the new one.                                             *)
THEOREM LruAddKeys ==
  ASSUME NEW K, NEW c, IsCache(c, K), NEW k \in K,
         NEW n \in Nat \ {0}, Len(c) <= n
  PROVE  /\ IsCache(LruAdd(c, k, n), K)
         /\ Len(LruAdd(c, k, n)) <= n
         /\ \A x : Contains(LruAdd(c, k, n), x) => Contains(c, x) \/ x = k
         /\ Contains(LruAdd(c, k, n), k)
<1> DEFINE d == LruRemove(c, k)
           e == <<k>> \o d
<1>0. Len(c) \in Nat
  BY LenProperties DEF IsCache
<1>1. /\ IsCache(d, K) /\ Len(d) \in Nat /\ Len(d) <= Len(c)
      /\ \A x : Contains(d, x) <=> Contains(c, x) /\ x # k
  BY <1>0, LruRemoveKeys, LenProperties DEF IsCache
<1> HIDE DEF d
<1>2. /\ IsCache(e, K) /\ Len(e) = Len(d) + 1
      /\ \A x : Contains(e, x) <=> Contains(d, x) \/ x = k
  BY <1>1, PushFrontKeys
<1>3. e[1] = k
  BY <1>1, ConcatProperties DEF IsCache
<1>4. LruAdd(c, k, n) = IF Len(e) > n THEN LruRemoveOldest(e) ELSE e
  BY DEF LruAdd, d
<1> HIDE DEF e
<1>5. CASE Len(e) > n
  <2>1. e # <<>>
    BY <1>1, <1>2, EmptySeq
  <2>2. /\ IsCache(LruRemoveOldest(e), K) /\ Len(LruRemoveOldest(e)) = Len(e) - 1
        /\ \A x : Contains(LruRemoveOldest(e), x) <=> Contains(e, x) /\ x # Last(e)
    BY <1>2, <2>1, LruRemoveOldestKeys
  <2>3. Last(e) # k
    <3>1. e \in Seq(K) /\ Len(e) \in 1..Len(e) /\ 1 \in 1..Len(e) /\ Len(e) # 1
      BY <1>0, <1>1, <1>2, <1>5 DEF IsCache
    <3>2. \A i, j \in 1..Len(e) : e[i] = e[j] => i = j
      BY <1>2, <3>1, InjectiveIndices DEF IsCache
    <3> QED BY <1>3, <3>1, <3>2 DEF Last
  <2> QED BY <1>0, <1>1, <1>2, <1>4, <1>5, <2>2, <2>3
<1>6. CASE ~(Len(e) > n)
  BY <1>0, <1>1, <1>2, <1>4, <1>6
<1> QED BY <1>5, <1>6
=============================================================================
