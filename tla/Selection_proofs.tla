-------------------------- MODULE Selection_proofs --------------------------
(***************************************************************************)
(* What Only keeps.  It is a recursive function: that it is defined, and   *)
(* what it computes, is shown with the least counterexample.               *)
(***************************************************************************)
EXTENDS Selection, SequenceTheorems, NaturalsInduction, WellFoundedInduction, TLAPS

LEMMA LeastNumber ==
  ASSUME NEW S \in SUBSET Nat, S # {}
  PROVE  \E n \in S : \A m \in S : n <= m
<1> DEFINE R == OpToRel(<, Nat)
<1>1. IsWellFoundedOn(R, Nat)
  BY NatLessThanWellFounded
<1>2. PICK n \in S : \A m \in S : ~ (<<m, n>> \in R)
  BY <1>1, WFMin
<1>3. \A m \in S : ~ (m < n)
  BY <1>2 DEF OpToRel
<1> QED BY <1>3

Body(s, S, f, i) ==
    IF i = 0 THEN <<>> ELSE IF s[i] \in S THEN Append(f[i - 1], s[i]) ELSE f[i - 1]

IsLoop(s, S, f, n) == f = [i \in 0..n |-> Body(s, S, f, i)]

LEMMA LoopExists ==
  ASSUME NEW s, NEW S, NEW n \in Nat
  PROVE  \E f : IsLoop(s, S, f, n)
<1> DEFINE Without == {m \in Nat : ~ \E f : IsLoop(s, S, f, m)}
<1> SUFFICES ASSUME Without # {} PROVE FALSE
  OBVIOUS
<1>1. PICK m \in Without : \A k \in Without : m <= k
  BY LeastNumber
<1>2. CASE m = 0
  <2> DEFINE g == [i \in 0..0 |-> <<>>]
  <2>1. g = [i \in 0..0 |-> Body(s, S, g, i)]
    BY DEF Body
  <2> QED BY <1>1, <1>2, <2>1 DEF IsLoop
<1>3. CASE m # 0
  <2>1. m \in Nat /\ m - 1 \in Nat /\ m - 1 \notin Without
    BY <1>1, <1>3
  <2>2. PICK f : IsLoop(s, S, f, m - 1)
    BY <2>1
  <2> DEFINE g == [i \in 0..m |-> IF i = m THEN Body(s, S, f, m) ELSE f[i]]
  <2>3. f = [i \in 0..(m - 1) |-> Body(s, S, f, i)]
    BY <2>2 DEF IsLoop
  <2>4. \A i \in 0..(m - 1) : f[i] = Body(s, S, f, i)
    BY <2>3
  <2>5. \A i \in 0..m : g[i] = Body(s, S, g, i)
    <3> SUFFICES ASSUME NEW i \in 0..m PROVE g[i] = Body(s, S, g, i)
      OBVIOUS
    <3>1. i # 0 => g[i - 1] = f[i - 1]
      BY <2>1
    <3>2. g[i] = Body(s, S, f, i)
      BY <2>1, <2>4
    <3> HIDE DEF g
    <3> QED BY <3>1, <3>2 DEF Body
  <2>6. g = [i \in 0..m |-> Body(s, S, g, i)]
    <3>1. g = [i \in 0..m |-> g[i]]
      OBVIOUS
    <3> HIDE DEF g
    <3> QED BY <2>5, <3>1
  <2>7. IsLoop(s, S, g, m)
    BY <2>6 DEF IsLoop
  <2> QED BY <1>1, <2>7
<1> QED BY <1>2, <1>3

LEMMA OnlyIsLoop ==
  ASSUME NEW s, NEW S, Len(s) \in Nat
  PROVE  \E f : IsLoop(s, S, f, Len(s)) /\ Only(s, S) = f[Len(s)]
<1> DEFINE Loop(f) == f = [i \in 0..Len(s) |->
                IF i = 0 THEN <<>>
                ELSE IF s[i] \in S THEN Append(f[i - 1], s[i]) ELSE f[i - 1]]
           h == CHOOSE f : Loop(f)
<1>1. \E f : Loop(f)
  <2>1. PICK f : IsLoop(s, S, f, Len(s))
    BY LoopExists
  <2>2. Loop(f)
    BY <2>1, Zenon DEF IsLoop, Body
  <2> QED BY <2>2, Zenon
<1>2. IsLoop(s, S, h, Len(s))
  BY <1>1, Zenon DEF IsLoop, Body
<1>3. Only(s, S) = h[Len(s)]
  BY Zenon DEF Only
<1> QED BY <1>2, <1>3

(* What the loop has after i members: some of them, each no further ahead  *)
(* than it was, and those that are in the set.                             *)
Selected(T, s, S, r, i) ==
    /\ r \in Seq(T) /\ Len(r) <= i
    /\ \A j \in 1..Len(r) : \E k \in j..i : r[j] = s[k] /\ s[k] \in S
    /\ \A k \in 1..i : s[k] \in S => \E j \in 1..Len(r) : r[j] = s[k]
    /\ (\E k \in 1..i : s[k] \notin S) => Len(r) < i

(* Members of B are as rare in what is kept as they were.                  *)
Rare(s, B, i) == \A j, k \in 1..i : s[j] \in B /\ s[k] \in B => j = k

LEMMA LoopSelects ==
  ASSUME NEW T, NEW s \in Seq(T), NEW S, NEW f, IsLoop(s, S, f, Len(s))
  PROVE  \A i \in 0..Len(s) : Selected(T, s, S, f[i], i)
<1> DEFINE n == Len(s)
           Bad == {i \in 0..n : ~Selected(T, s, S, f[i], i)}
<1> SUFFICES ASSUME Bad # {} PROVE FALSE
  OBVIOUS
<1>0. n \in Nat /\ Bad \in SUBSET Nat
  OBVIOUS
<1>1. PICK i \in Bad : \A k \in Bad : i <= k
  BY <1>0, LeastNumber
<1>2. i \in 0..n /\ f[i] = Body(s, S, f, i)
  BY <1>1 DEF IsLoop
<1>3. CASE i = 0
  <2>1. f[i] = <<>>
    BY <1>2, <1>3 DEF Body
  <2>2. Selected(T, s, S, f[i], i)
    BY <1>3, <2>1 DEF Selected
  <2> QED BY <1>1, <2>2
<1>4. CASE i # 0
  <2> DEFINE r == f[i - 1]
             q == f[i]
  <2>1. i - 1 \in 0..n /\ i - 1 \notin Bad /\ i \in 1..n
    BY <1>0, <1>1, <1>2, <1>4
  <2>2. Selected(T, s, S, r, i - 1)
    BY <2>1
  <2>3. s[i] \in T
    BY <2>1, ElementOfSeq
  <2>4. q = IF s[i] \in S THEN Append(r, s[i]) ELSE r
    BY <1>2, <1>4 DEF Body
  <2>5. r \in Seq(T) /\ Len(r) \in Nat /\ Len(r) <= i - 1
    BY <2>2 DEF Selected
  <2> HIDE DEF q, r
  <2>6. CASE s[i] \in S
    <3>1. /\ q \in Seq(T) /\ Len(q) = Len(r) + 1 /\ q[Len(q)] = s[i]
          /\ \A j \in 1..Len(r) : q[j] = r[j]
      BY <2>3, <2>4, <2>5, <2>6, AppendProperties
    <3>2. \A j \in 1..Len(q) : \E k \in j..i : q[j] = s[k] /\ s[k] \in S
      <4> SUFFICES ASSUME NEW j \in 1..Len(q) PROVE \E k \in j..i : q[j] = s[k] /\ s[k] \in S
        OBVIOUS
      <4>1. CASE j = Len(q)
        <5>1. i \in j..i
          BY <2>1, <2>5, <3>1, <4>1
        <5> QED BY <2>6, <3>1, <4>1, <5>1
      <4>2. CASE j # Len(q)
        <5>1. j \in 1..Len(r)
          BY <2>5, <3>1, <4>2
        <5>2. PICK k \in j..(i - 1) : r[j] = s[k] /\ s[k] \in S
          BY <2>2, <5>1 DEF Selected
        <5>3. k \in j..i
          BY <2>1
        <5> QED BY <3>1, <5>1, <5>2, <5>3
      <4> QED BY <4>1, <4>2
    <3>3. \A k \in 1..i : s[k] \in S => \E j \in 1..Len(q) : q[j] = s[k]
      <4> SUFFICES ASSUME NEW k \in 1..i, s[k] \in S PROVE \E j \in 1..Len(q) : q[j] = s[k]
        OBVIOUS
      <4>1. CASE k = i
        <5>1. Len(q) \in 1..Len(q)
          BY <2>5, <3>1
        <5> QED BY <3>1, <4>1, <5>1
      <4>2. CASE k # i
        <5>1. k \in 1..(i - 1)
          BY <2>1, <4>2
        <5>2. PICK j \in 1..Len(r) : r[j] = s[k]
          BY <2>2, <5>1 DEF Selected
        <5>3. j \in 1..Len(q)
          BY <2>5, <3>1
        <5> QED BY <3>1, <5>2, <5>3
      <4> QED BY <4>1, <4>2
    <3>4. (\E k \in 1..i : s[k] \notin S) => Len(q) < i
      <4> SUFFICES ASSUME NEW k \in 1..i, s[k] \notin S PROVE Len(q) < i
        OBVIOUS
      <4>1. k \in 1..(i - 1)
        BY <2>1, <2>6
      <4>2. Len(r) < i - 1
        BY <2>2, <4>1 DEF Selected
      <4> QED BY <2>1, <2>5, <3>1, <4>2
    <3>5. Len(q) <= i
      BY <2>1, <2>5, <3>1
    <3>6. Selected(T, s, S, q, i)
      BY <3>1, <3>2, <3>3, <3>4, <3>5 DEF Selected
    <3> QED BY <1>1, <3>6 DEF q
  <2>7. CASE s[i] \notin S
    <3>1. q = r
      BY <2>4, <2>7
    <3>2. Len(r) <= i /\ Len(r) < i
      BY <2>1, <2>5
    <3>3. \A j \in 1..Len(r) : \E k \in j..i : r[j] = s[k] /\ s[k] \in S
      <4> SUFFICES ASSUME NEW j \in 1..Len(r) PROVE \E k \in j..i : r[j] = s[k] /\ s[k] \in S
        OBVIOUS
      <4>1. PICK k \in j..(i - 1) : r[j] = s[k] /\ s[k] \in S
        BY <2>2 DEF Selected
      <4>2. k \in j..i
        BY <2>1
      <4> QED BY <4>1, <4>2
    <3>4. \A k \in 1..i : s[k] \in S => \E j \in 1..Len(r) : r[j] = s[k]
      <4> SUFFICES ASSUME NEW k \in 1..i, s[k] \in S PROVE \E j \in 1..Len(r) : r[j] = s[k]
        OBVIOUS
      <4>1. k \in 1..(i - 1)
        BY <2>1, <2>7
      <4> QED BY <2>2, <4>1 DEF Selected
    <3>5. Selected(T, s, S, r, i)
      BY <2>5, <3>2, <3>3, <3>4 DEF Selected
    <3> QED BY <1>1, <3>1, <3>5 DEF q
  <2> QED BY <2>6, <2>7
<1> QED BY <1>3, <1>4

LEMMA LoopKeepsRare ==
  ASSUME NEW T, NEW s \in Seq(T), NEW S, NEW B, NEW f, IsLoop(s, S, f, Len(s)),
         Rare(s, B, Len(s))
  PROVE  \A i \in 0..Len(s) : Rare(f[i], B, Len(f[i]))
<1> DEFINE n == Len(s)
           Bad == {i \in 0..n : ~Rare(f[i], B, Len(f[i]))}
<1> SUFFICES ASSUME Bad # {} PROVE FALSE
  OBVIOUS
<1>0. n \in Nat /\ Bad \in SUBSET Nat
  OBVIOUS
<1>1. PICK i \in Bad : \A k \in Bad : i <= k
  BY <1>0, LeastNumber
<1>2. i \in 0..n /\ f[i] = Body(s, S, f, i)
  BY <1>1 DEF IsLoop
<1>3. CASE i = 0
  <2>1. f[i] = <<>>
    BY <1>2, <1>3 DEF Body
  <2>2. Rare(f[i], B, Len(f[i]))
    BY <2>1 DEF Rare
  <2> QED BY <1>1, <2>2
<1>4. CASE i # 0
  <2> DEFINE r == f[i - 1]
             q == f[i]
  <2>1. i - 1 \in 0..n /\ i - 1 \notin Bad /\ i \in 1..n
    BY <1>0, <1>1, <1>2, <1>4
  <2>2. Selected(T, s, S, r, i - 1)
    BY <2>1, LoopSelects
  <2>3. s[i] \in T
    BY <2>1, ElementOfSeq
  <2>4. q = IF s[i] \in S THEN Append(r, s[i]) ELSE r
    BY <1>2, <1>4 DEF Body
  <2>5. r \in Seq(T) /\ Len(r) \in Nat /\ Rare(r, B, Len(r))
    BY <2>1, <2>2 DEF Selected
  <2> HIDE DEF q, r
  <2>6. CASE s[i] \in S
    <3>1. /\ q \in Seq(T) /\ Len(q) = Len(r) + 1 /\ q[Len(q)] = s[i]
          /\ \A j \in 1..Len(r) : q[j] = r[j]
      BY <2>3, <2>4, <2>5, <2>6, AppendProperties
    <3>2. s[i] \in B => \A j \in 1..Len(r) : r[j] \notin B
      <4> SUFFICES ASSUME s[i] \in B, NEW j \in 1..Len(r), r[j] \in B PROVE FALSE
        OBVIOUS
      <4>1. PICK k \in j..(i - 1) : r[j] = s[k]
        BY <2>2 DEF Selected
      <4>2. k \in 1..n /\ i \in 1..n /\ k # i
        BY <2>1, <1>0
      <4> QED BY <4>1, <4>2 DEF Rare
    <3>3. Rare(q, B, Len(q))
      <4> SUFFICES ASSUME NEW j \in 1..Len(q), NEW k \in 1..Len(q), q[j] \in B, q[k] \in B, j # k
                   PROVE  FALSE
        BY DEF Rare
      <4>1. \A l \in 1..Len(q) : l = Len(q) \/ l \in 1..Len(r)
        BY <2>5, <3>1
      <4>2. CASE j \in 1..Len(r) /\ k \in 1..Len(r)
        <5>1. r[j] \in B /\ r[k] \in B
          BY <3>1, <4>2
        <5> QED BY <2>5, <4>2, <5>1 DEF Rare
      <4>3. CASE j = Len(q) /\ k \in 1..Len(r)
        BY <3>1, <3>2, <4>3
      <4>4. CASE k = Len(q) /\ j \in 1..Len(r)
        BY <3>1, <3>2, <4>4
      <4> QED BY <4>1, <4>2, <4>3, <4>4
    <3> QED BY <1>1, <3>3 DEF q
  <2>7. CASE s[i] \notin S
    <3>1. q = r
      BY <2>4, <2>7
    <3> QED BY <1>1, <2>5, <3>1 DEF q
  <2> QED BY <2>6, <2>7
<1> QED BY <1>3, <1>4

(* What Only keeps: members of s that are in S and all of those, each no   *)
(* further from the front than it was; fewer, if one of them is not in S.  *)
LEMMA OnlySelects ==
  ASSUME NEW T, NEW s \in Seq(T), NEW S
  PROVE  Selected(T, s, S, Only(s, S), Len(s))
<1>1. PICK f : IsLoop(s, S, f, Len(s)) /\ Only(s, S) = f[Len(s)]
  BY OnlyIsLoop
<1>2. Selected(T, s, S, f[Len(s)], Len(s))
  BY <1>1, LoopSelects
<1> QED BY <1>1, <1>2

(* A kind of member of which there is at most one stays rare.              *)
LEMMA OnlyKeepsRare ==
  ASSUME NEW T, NEW s \in Seq(T), NEW S, NEW B, Rare(s, B, Len(s))
  PROVE  Rare(Only(s, S), B, Len(Only(s, S)))
<1>1. PICK f : IsLoop(s, S, f, Len(s)) /\ Only(s, S) = f[Len(s)]
  BY OnlyIsLoop
<1>2. Rare(f[Len(s)], B, Len(f[Len(s)]))
  BY <1>1, LoopKeepsRare
<1> QED BY <1>1, <1>2
=============================================================================
