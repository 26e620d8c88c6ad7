--------------------------- MODULE KrdUsers_proofs ---------------------------
(***************************************************************************)
(* krgpg takes apart what git hands to it so that the phone can put it     *)
(* together again, for objects of any length; and kr transfer, for any     *)
(* programs that call krd beside it and any lists of hosts: what is on     *)
(* disk and in krd at each of its steps.                                   *)
(***************************************************************************)
EXTENDS KrdUsers, Selection_proofs, SequenceTheorems, TLAPS

HeaderNames == {"tree", "parent", "author", "committer", "object", "type", "tag", "tagger"}

(* (The provers do not know that a name is a string.)                      *)
Lines == [token : STRING \cup HeaderNames, value : STRING, wide : BOOLEAN]

(* The loop over the parents ends at the first line that is none.          *)
LEMMA AuthorFound ==
  ASSUME NEW object \in Seq(Lines), object # <<>>
  PROVE  /\ AuthorAt(object) \in 2..(Len(object) + 1)
         /\ AuthorAt(object) <= Len(object) => object[AuthorAt(object)].token # "parent"
         /\ \A j \in 2..(AuthorAt(object) - 1) : object[j].token = "parent"
<1> DEFINE n == Len(object)
           No(i) == i <= n => object[i].token # "parent"
           S == {i \in 2..(n + 1) : No(i)}
<1>1. n \in Nat /\ n > 0
  BY LenProperties, EmptySeq
<1>2. n + 1 \in S /\ S \in SUBSET Nat
  BY <1>1
<1>3. PICK i \in S : \A m \in S : i <= m
  BY <1>2, LeastNumber
<1>4. \A j \in 2..(i - 1) : object[j].token = "parent"
  <2> SUFFICES ASSUME NEW j \in 2..(i - 1) PROVE object[j].token = "parent"
    OBVIOUS
  <2>1. j \in 2..(n + 1) /\ ~(i <= j)
    BY <1>1, <1>2, <1>3
  <2>2. ~No(j)
    BY <1>3, <2>1
  <2> QED BY <2>2
<1>5. i \in 2..(n + 1) /\ No(i)
  BY <1>3
<1> HIDE DEF S
<1>6. \E k \in 2..(n + 1) : No(k) /\ \A j \in 2..(k - 1) : object[j].token = "parent"
  BY <1>4, <1>5
<1> QED BY <1>6 DEF AuthorAt

-----------------------------------------------------------------------------
(* A header that the phone writes, for the line it stands for.             *)
HeaderFor(header, line) == header \in Lines /\ header.value = line.value /\ ~header.wide

LEMMA SameLine ==
  ASSUME NEW a \in Lines, NEW b \in Lines, a.token = b.token, a.value = b.value, ~a.wide, ~b.wide
  PROVE  a = b
<1>1. a.wide = b.wide
  BY DEF Lines
<1> QED BY <1>1 DEF Lines

Cat(s, t) == s \o t

LEMMA ConcatLines ==
  ASSUME NEW s \in Seq(Lines), NEW t \in Seq(Lines)
  PROVE  /\ Cat(s, t) \in Seq(Lines) /\ Len(Cat(s, t)) = Len(s) + Len(t)
         /\ \A i \in 1..(Len(s) + Len(t)) :
               Cat(s, t)[i] = IF i <= Len(s) THEN s[i] ELSE t[i - Len(s)]
<1>1. /\ s \o t \in Seq(Lines) /\ Len(s \o t) = Len(s) + Len(t)
      /\ \A i \in 1..(Len(s) + Len(t)) :
            (s \o t)[i] = IF i <= Len(s) THEN s[i] ELSE t[i - Len(s)]
  BY ConcatProperties
<1> QED BY <1>1 DEF Cat

(* The lines from the m-th on.                                             *)
LEMMA MessageLines ==
  ASSUME NEW object \in Seq(Lines), NEW m \in 1..(Len(object) + 1)
  PROVE  /\ SubSeq(object, m, Len(object)) \in Seq(Lines)
         /\ Len(SubSeq(object, m, Len(object))) = Len(object) - m + 1
         /\ \A i \in 1..(Len(object) - m + 1) :
               SubSeq(object, m, Len(object))[i] = object[m + i - 1]
<1>1. Len(object) \in Nat
  BY LenProperties
<1>2. \A i \in m..Len(object) : object[i] \in Lines
  <2> SUFFICES ASSUME NEW i \in m..Len(object) PROVE object[i] \in Lines
    OBVIOUS
  <2>1. i \in 1..Len(object)
    BY <1>1
  <2> QED BY <2>1, ElementOfSeq
<1>3. m \in Int /\ Len(object) \in Int
  BY <1>1
<1>4. /\ SubSeq(object, m, Len(object)) \in Seq(Lines)
      /\ Len(SubSeq(object, m, Len(object))) = IF m <= Len(object) THEN Len(object) - m + 1 ELSE 0
      /\ \A i \in 1..(Len(object) - m + 1) :
            SubSeq(object, m, Len(object))[i] = object[m + i - 1]
  BY <1>2, <1>3, SubSeqProperties
<1>5. (IF m <= Len(object) THEN Len(object) - m + 1 ELSE 0) = Len(object) - m + 1
  BY <1>1
<1> QED BY <1>4, <1>5

(* Headers before the rest of the object.                                  *)
LEMMA HeadersAndMessage ==
  ASSUME NEW object \in Seq(Lines), NEW h \in 0..Len(object), NEW headers \in Seq(Lines),
         Len(headers) = h
  PROVE  LET r == Cat(headers, SubSeq(object, h + 1, Len(object)))
         IN  /\ Len(r) = Len(object)
             /\ \A i \in 1..Len(object) : r[i] = IF i <= h THEN headers[i] ELSE object[i]
<1> DEFINE n == Len(object)
           t == SubSeq(object, h + 1, Len(object))
           r == Cat(headers, t)
<1>1. n \in Nat /\ h + 1 \in 1..(n + 1)
  BY LenProperties
<1>2. /\ t \in Seq(Lines) /\ Len(t) = n - (h + 1) + 1
      /\ \A i \in 1..(n - (h + 1) + 1) : t[i] = object[(h + 1) + i - 1]
  BY <1>1, MessageLines
<1> HIDE DEF t
<1>3. /\ r \in Seq(Lines) /\ Len(r) = Len(headers) + Len(t)
      /\ \A i \in 1..(Len(headers) + Len(t)) :
            r[i] = IF i <= Len(headers) THEN headers[i] ELSE t[i - Len(headers)]
  BY <1>2, ConcatLines, Zenon
<1> HIDE DEF r
<1>4. Len(r) = n
  BY <1>1, <1>2, <1>3
<1>5. \A i \in 1..n : r[i] = IF i <= h THEN headers[i] ELSE object[i]
  <2> SUFFICES ASSUME NEW i \in 1..n PROVE r[i] = IF i <= h THEN headers[i] ELSE object[i]
    OBVIOUS
  <2>1. Len(headers) + Len(t) = n
    BY <1>1, <1>2
  <2>2. r[i] = IF i <= h THEN headers[i] ELSE t[i - h]
    BY <1>3, <2>1
  <2>3. CASE i <= h
    BY <2>2, <2>3
  <2>4. CASE ~(i <= h)
    <3>1. i - h \in 1..(n - (h + 1) + 1) /\ (h + 1) + (i - h) - 1 = i
      BY <1>1, <2>4
    <3>2. t[i - h] = object[(h + 1) + (i - h) - 1]
      BY <1>2, <3>1
    <3> QED BY <2>2, <2>4, <3>1, <3>2
  <2> QED BY <2>3, <2>4
<1> QED BY <1>4, <1>5, Zenon DEF r, t

(* What the phone puts together is what git stores, if the headers have    *)
(* the values of the lines they stand for, and their names but for those   *)
(* that krgpg does not look at.                                            *)
LEMMA HeadersAsStored ==
  ASSUME NEW object \in Seq(Lines), NEW h \in 0..Len(object), NEW headers \in Seq(Lines),
         Len(headers) = h, NEW info, Len(info.message) = Len(object) - h,
         Assembled(info) = Cat(headers, SubSeq(object, h + 1, Len(object))),
         \A i \in 1..h : /\ headers[i].value = object[i].value /\ ~headers[i].wide
                         /\ headers[i].token = object[i].token \/ i \in NotNamed(info)
  PROVE  SignedAsStored(object, info)
<1> DEFINE n == Len(object)
           m == Len(info.message)
           N == NotNamed(info)
           signed == Assembled(info)
<1>1. n \in Nat /\ m = n - h /\ n - m = h
  BY LenProperties
<1>2. Len(signed) = n /\ \A i \in 1..n : signed[i] = IF i <= h THEN headers[i] ELSE object[i]
  <2> DEFINE r == Cat(headers, SubSeq(object, h + 1, Len(object)))
  <2>1. Len(r) = Len(object) /\ \A i \in 1..Len(object) : r[i] = IF i <= h THEN headers[i] ELSE object[i]
    BY HeadersAndMessage
  <2>2. signed = r
    OBVIOUS
  <2> HIDE DEF r, signed
  <2> QED BY <2>1, <2>2, Zenon
<1>3. \A i \in 1..h : /\ headers[i].value = object[i].value /\ ~headers[i].wide
                      /\ headers[i].token = object[i].token \/ i \in N
  OBVIOUS
<1> HIDE DEF signed, N, m
<1>4. ASSUME NEW i \in 1..n
      PROVE  \/ signed[i] = object[i]
             \/ /\ i <= n - m /\ signed[i].value = object[i].value
                /\ object[i].wide \/ i \in N
  <2>1. CASE i <= h
    <3>1. i \in 1..h /\ i \in 1..Len(headers) /\ signed[i] = headers[i]
      BY <1>1, <1>2, <2>1
    <3>2. object[i] \in Lines /\ headers[i] \in Lines
      BY <3>1, ElementOfSeq
    <3>3. ~object[i].wide /\ i \notin N => headers[i] = object[i]
      BY <1>3, <3>1, <3>2, SameLine
    <3> QED BY <1>1, <1>3, <2>1, <3>1, <3>3
  <2>2. CASE ~(i <= h)
    BY <1>2, <2>2
  <2> QED BY <2>1, <2>2
<1> QED BY <1>2, <1>4, Zenon DEF SignedAsStored, signed, N, m, n

LEMMA SeqOfFunction ==
  ASSUME NEW S, NEW n \in Nat, NEW f \in [1..n -> S]
  PROVE  f \in Seq(S) /\ Len(f) = n
<1>1. f \in Seq(S)
  BY SeqDef
<1>2. Len(f) \in Nat /\ 1..Len(f) = 1..n
  BY <1>1, LenProperties
<1>3. Len(f) = n
  <2>1. CASE n = 0
    BY <1>2, <2>1
  <2>2. CASE n > 0
    BY <1>2, <2>2
  <2> QED BY <2>1, <2>2
<1> QED BY <1>1, <1>3

(* What the phone puts together from the parts of a commit.                *)
LEMMA CommitAssembled ==
  ASSUME NEW object \in Seq(Lines), object # <<>>, object[1].token = "tree",
         ParseCommit(object) # Failure
  PROVE  SignedAsStored(object, ParseCommit(object))
<1> DEFINE i == AuthorAt(object)
           n == Len(object)
           tree == Contents(object[1])
           parents == [j \in 1..(i - 2) |-> Contents(object[j + 1])]
           author == Contents(object[i])
           committer == Contents(object[i + 1])
           message == SubSeq(object, i + 2, Len(object))
           info == [tree |-> tree, parents |-> parents, author |-> author,
                    committer |-> committer, message |-> message]
           named == [j \in 1..Len(parents) |-> Header("parent", parents[j])]
<1>1. n \in Nat /\ i \in 2..(n + 1) /\ \A j \in 2..(i - 1) : object[j].token = "parent"
  BY LenProperties, AuthorFound
<1>2. IsCommit(object) /\ i + 1 <= n /\ object[i].token = "author"
  BY DEF ParseCommit, IsCommit
<1>3. ParseCommit(object) = info
  BY <1>2 DEF ParseCommit
<1>4. \A j \in 1..n : object[j] \in Lines
  BY ElementOfSeq
<1>5. object[1] \in Lines /\ object[i] \in Lines /\ object[i + 1] \in Lines
  BY <1>1, <1>2, <1>4
<1> DEFINE t == Header("tree", tree)
           u == Header("author", author)
           v == Header("committer", committer)
<1>6. /\ t \in Lines /\ t.token = "tree" /\ t.value = object[1].value /\ ~t.wide
      /\ u \in Lines /\ u.token = "author" /\ u.value = object[i].value /\ ~u.wide
      /\ v \in Lines /\ v.value = object[i + 1].value /\ ~v.wide
  <2> DEFINE p == object[i]
             q == object[i + 1]
  <2>1. HeaderFor(t, object[1]) /\ t.token = "tree"
    BY <1>5 DEF HeaderFor, Header, Contents, Lines, HeaderNames
  <2>2. HeaderFor(u, p) /\ u.token = "author"
    <3>1. p \in Lines /\ u = Header("author", Contents(p))
      BY <1>5
    <3> HIDE DEF p, u
    <3> QED BY <3>1 DEF HeaderFor, Header, Contents, Lines, HeaderNames
  <2>3. HeaderFor(v, q)
    <3>1. q \in Lines /\ v = Header("committer", Contents(q))
      BY <1>5
    <3> HIDE DEF q, v
    <3> QED BY <3>1 DEF HeaderFor, Header, Contents, Lines, HeaderNames
  <2> QED BY <2>1, <2>2, <2>3, Zenon DEF HeaderFor
<1>7. /\ Len(parents) = i - 2 /\ named \in Seq(Lines) /\ Len(named) = i - 2
      /\ \A j \in 1..(i - 2) : /\ named[j].token = "parent" /\ ~named[j].wide
                               /\ named[j].value = object[j + 1].value
  <2>1. i - 2 \in Nat /\ \A j \in 1..(i - 2) : j + 1 \in 1..n
    BY <1>1, <1>2
  <2>2. parents \in [1..(i - 2) -> STRING]
    BY <1>4, <2>1 DEF Lines, Contents
  <2>3. Len(parents) = i - 2
    BY <2>1, <2>2, SeqOfFunction
  <2>4. \A j \in 1..(i - 2) : parents[j] = Contents(object[j + 1]) /\ object[j + 1] \in Lines
    BY <1>4, <2>1
  <2>5. named = [j \in 1..(i - 2) |-> Header("parent", parents[j])]
    BY <2>3, Zenon
  <2> HIDE DEF parents, named
  <2>6. \A j \in 1..(i - 2) : /\ named[j] \in Lines /\ named[j].token = "parent" /\ ~named[j].wide
                              /\ named[j].value = object[j + 1].value
    <3> SUFFICES ASSUME NEW j \in 1..(i - 2)
                 PROVE  /\ named[j] \in Lines /\ named[j].token = "parent" /\ ~named[j].wide
                        /\ named[j].value = object[j + 1].value
      OBVIOUS
    <3> DEFINE p == object[j + 1]
               q == named[j]
    <3>1. q = Header("parent", Contents(p)) /\ p \in Lines
      BY <2>4, <2>5
    <3> HIDE DEF p, q
    <3>2. HeaderFor(q, p) /\ q.token = "parent"
      BY <3>1 DEF HeaderFor, Header, Contents, Lines, HeaderNames
    <3> QED BY <3>2, Zenon DEF HeaderFor, p, q
  <2>7. named \in [1..(i - 2) -> Lines]
    BY <2>5, <2>6
  <2>8. named \in Seq(Lines) /\ Len(named) = i - 2
    BY <2>1, <2>7, SeqOfFunction
  <2> QED BY <2>3, <2>6, <2>8
<1>8. Len(message) = n - (i + 1)
  <2>1. i + 2 \in 1..(n + 1)
    BY <1>1, <1>2
  <2>2. Len(message) = n - (i + 2) + 1
    BY <2>1, MessageLines
  <2> QED BY <1>1, <2>2
<1> DEFINE a == <<t>>
           b == <<u, v>>
           c == Cat(a, named)
           headers == Cat(c, b)
<1> HIDE DEF t, u, v
<1>9. /\ a \in Seq(Lines) /\ Len(a) = 1 /\ a[1] = t
      /\ b \in Seq(Lines) /\ Len(b) = 2 /\ b[1] = u /\ b[2] = v
  BY <1>6
<1>10. /\ Assembled(info) = Cat(headers, message)
       /\ info.message = message /\ NotNamed(info) = {Len(parents) + 3}
  <2> HIDE DEF tree, parents, author, committer, message
  <2>1. /\ "tree" \in DOMAIN info /\ info.tree = tree /\ info.parents = parents
        /\ info.author = author /\ info.committer = committer /\ info.message = message
    OBVIOUS
  <2> HIDE DEF info
  <2> QED BY <2>1, Zenon DEF Assembled, NotNamed, Cat, t, u, v
<1> HIDE DEF info, parents, named, a, b
<1>11. /\ c \in Seq(Lines) /\ Len(c) = Len(a) + Len(named)
       /\ \A j \in 1..(Len(a) + Len(named)) :
             c[j] = IF j <= Len(a) THEN a[j] ELSE named[j - Len(a)]
  BY <1>7, <1>9, ConcatLines, Zenon
<1> HIDE DEF c
<1>12. /\ headers \in Seq(Lines) /\ Len(headers) = Len(c) + Len(b)
       /\ \A j \in 1..(Len(c) + Len(b)) :
             headers[j] = IF j <= Len(c) THEN c[j] ELSE b[j - Len(c)]
  BY <1>9, <1>11, ConcatLines, Zenon
<1> HIDE DEF headers
<1>13. Len(a) = 1 /\ Len(b) = 2 /\ Len(named) = i - 2
  BY <1>7, <1>9, Zenon
<1>14. /\ Len(c) = i - 1 /\ Len(headers) = i + 1 /\ Len(c) + Len(b) = i + 1
       /\ i + 1 \in 0..n /\ (i + 1) + 1 = i + 2 /\ NotNamed(info) = {i + 1}
  <2>1. Len(parents) + 3 = i + 1
    BY <1>1, <1>7
  <2>2. NotNamed(info) = {i + 1}
    BY <1>10, <2>1, Zenon
  <2>3. Len(c) = i - 1
    <3>1. Len(c) = Len(a) + Len(named)
      BY <1>11, Zenon
    <3> QED BY <1>1, <1>2, <1>13, <3>1
  <2>4. Len(headers) = i + 1 /\ Len(c) + Len(b) = i + 1
    <3>1. Len(headers) = Len(c) + Len(b)
      BY <1>12, Zenon
    <3> QED BY <1>1, <1>2, <1>13, <2>3, <3>1
  <2>5. i + 1 \in 0..n /\ (i + 1) + 1 = i + 2
    BY <1>1, <1>2
  <2> QED BY <2>2, <2>3, <2>4, <2>5, Zenon
<1>15. \A j \in 1..(i + 1) :
          /\ headers[j].value = object[j].value /\ ~headers[j].wide
          /\ headers[j].token = object[j].token \/ j \in NotNamed(info)
  <2> SUFFICES ASSUME NEW j \in 1..(i + 1)
               PROVE  /\ headers[j].value = object[j].value /\ ~headers[j].wide
                      /\ headers[j].token = object[j].token \/ j \in NotNamed(info)
    OBVIOUS
  <2>0. j \in 1..(Len(c) + Len(b))
    BY <1>14
  <2>1. headers[j] = IF j <= i - 1 THEN c[j] ELSE b[j - (i - 1)]
    BY <1>12, <1>14, <2>0, Zenon
  <2>2. CASE j = 1
    <3>1. j <= i - 1 /\ 1 \in 1..(Len(a) + Len(named)) /\ 1 <= Len(a)
      BY <1>1, <1>13, <2>2
    <3>2. c[1] = a[1]
      BY <1>11, <3>1
    <3> QED BY <1>6, <1>9, <2>1, <2>2, <3>1, <3>2
  <2>3. CASE j \in 2..(i - 1)
    <3>1. /\ j <= i - 1 /\ j \in 1..(Len(a) + Len(named)) /\ ~(j <= Len(a))
          /\ j - 1 \in 1..(i - 2) /\ (j - 1) + 1 = j /\ j - Len(a) = j - 1
      BY <1>1, <1>13, <2>3
    <3>2. c[j] = named[j - Len(a)]
      BY <1>11, <3>1
    <3>3. /\ named[j - 1].token = "parent" /\ ~named[j - 1].wide
          /\ named[j - 1].value = object[(j - 1) + 1].value
      BY <1>7, <3>1
    <3>4. headers[j] = named[j - 1]
      BY <2>1, <3>1, <3>2
    <3>5. object[j].token = "parent"
      BY <1>1, <2>3
    <3> QED BY <3>1, <3>3, <3>4, <3>5, Zenon
  <2>4. CASE j = i
    <3>1. ~(j <= i - 1) /\ j - (i - 1) = 1
      BY <1>1, <2>4
    <3>2. headers[j] = u
      BY <1>9, <2>1, <3>1, Zenon
    <3> QED BY <1>2, <1>6, <2>4, <3>2, Zenon
  <2>5. CASE j = i + 1
    <3>1. ~(j <= i - 1) /\ j - (i - 1) = 2
      BY <1>1, <2>5
    <3>2. headers[j] = v /\ j \in NotNamed(info)
      BY <1>9, <1>14, <2>1, <2>5, <3>1, Zenon
    <3> QED BY <1>6, <2>5, <3>2, Zenon
  <2>6. j = 1 \/ j \in 2..(i - 1) \/ j = i \/ j = i + 1
    BY <1>1
  <2> QED BY <2>2, <2>3, <2>4, <2>5, <2>6
<1>16. Assembled(info) = Cat(headers, SubSeq(object, (i + 1) + 1, Len(object)))
  BY <1>10, <1>14, Zenon
<1>17. Len(info.message) = n - (i + 1)
  BY <1>8, <1>10, Zenon
<1>18. SignedAsStored(object, info)
  <2> DEFINE h == i + 1
  <2>1. h \in 0..Len(object) /\ headers \in Seq(Lines) /\ Len(headers) = h
    BY <1>12, <1>14
  <2>2. \A j \in 1..h : /\ headers[j].value = object[j].value /\ ~headers[j].wide
                        /\ headers[j].token = object[j].token \/ j \in NotNamed(info)
    BY <1>15
  <2>3. Len(info.message) = Len(object) - h
    BY <1>17
  <2>4. Assembled(info) = Cat(headers, SubSeq(object, h + 1, Len(object)))
    BY <1>16
  <2> HIDE DEF h, i
  <2> QED BY <2>1, <2>2, <2>3, <2>4, HeadersAsStored
<1> QED BY <1>3, <1>18, Zenon

(* What the phone puts together from the parts of a tag.                   *)
LEMMA TagAssembled ==
  ASSUME NEW object \in Seq(Lines), object # <<>>, object[1].token = "object",
         ParseTag(object) # Failure
  PROVE  SignedAsStored(object, ParseTag(object))
<1> DEFINE n == Len(object)
           first == Contents(object[1])
           type == Contents(object[2])
           tag == Contents(object[3])
           tagger == Contents(object[4])
           message == SubSeq(object, 5, Len(object))
           info == [object |-> first, type |-> type, tag |-> tag, tagger |-> tagger,
                    message |-> message]
           w == Header("object", first)
           x == Header("type", type)
           y == Header("tag", tag)
           z == Header("tagger", tagger)
           headers == <<w, x, y, z>>
<1>1. n \in Nat /\ 4 <= n
  BY LenProperties DEF ParseTag
<1>2. ParseTag(object) = info
  BY DEF ParseTag
<1>3. object[1] \in Lines /\ object[2] \in Lines /\ object[3] \in Lines /\ object[4] \in Lines
  BY <1>1, ElementOfSeq
<1>4. /\ w \in Lines /\ w.token = "object" /\ w.value = object[1].value /\ ~w.wide
      /\ x \in Lines /\ x.value = object[2].value /\ ~x.wide
      /\ y \in Lines /\ y.value = object[3].value /\ ~y.wide
      /\ z \in Lines /\ z.value = object[4].value /\ ~z.wide
  <2>1. HeaderFor(w, object[1]) /\ w.token = "object"
    BY <1>3 DEF HeaderFor, Header, Contents, Lines, HeaderNames
  <2>2. HeaderFor(x, object[2]) /\ HeaderFor(y, object[3]) /\ HeaderFor(z, object[4])
    BY <1>3 DEF HeaderFor, Header, Contents, Lines, HeaderNames
  <2> QED BY <2>1, <2>2, Zenon DEF HeaderFor
<1>5. Len(message) = n - 4
  <2>1. 5 \in 1..(n + 1)
    BY <1>1
  <2>2. Len(message) = n - 5 + 1
    BY <2>1, MessageLines
  <2> QED BY <1>1, <2>2
<1>6. /\ info.message = message /\ Assembled(info) = Cat(headers, message) /\ NotNamed(info) = 2..4
  <2> HIDE DEF first, type, tag, tagger, message
  <2>1. /\ "tree" \notin DOMAIN info /\ info.object = first /\ info.type = type
        /\ info.tag = tag /\ info.tagger = tagger /\ info.message = message
    OBVIOUS
  <2> HIDE DEF info
  <2> QED BY <2>1, Zenon DEF Assembled, NotNamed, Cat
<1> HIDE DEF w, x, y, z
<1>7. /\ headers \in Seq(Lines) /\ Len(headers) = 4
      /\ headers[1] = w /\ headers[2] = x /\ headers[3] = y /\ headers[4] = z
  BY <1>4
<1> HIDE DEF headers, info
<1>8. \A j \in 1..4 : /\ headers[j].value = object[j].value /\ ~headers[j].wide
                      /\ headers[j].token = object[j].token \/ j \in NotNamed(info)
  <2>1. \A j \in 1..4 : j = 1 \/ j = 2 \/ j = 3 \/ j = 4
    OBVIOUS
  <2>2. 2 \in 2..4 /\ 3 \in 2..4 /\ 4 \in 2..4
    OBVIOUS
  <2> QED BY <1>4, <1>6, <1>7, <2>1, <2>2, Zenon
<1>9. 4 \in 0..n /\ 4 + 1 = 5
  BY <1>1
<1>10. Assembled(info) = Cat(headers, SubSeq(object, 4 + 1, Len(object)))
  BY <1>6, <1>9, Zenon
<1>11. Len(info.message) = n - 4
  BY <1>5, <1>6, Zenon
<1>12. SignedAsStored(object, info)
  BY <1>7, <1>8, <1>9, <1>10, <1>11, HeadersAsStored
<1> QED BY <1>2, <1>12, Zenon

(* The parts of an object that krgpg could parse give back the object, but *)
(* for the blanks it squeezed in the headers and the names it did not look *)
(* at: signGitCommit and signGitTag lose no line and no parent, of an      *)
(* object of any length.                                                   *)
THEOREM PartsGiveTheObject ==
  ASSUME NEW object \in Seq(Lines), Parse(object) # Failure
  PROVE  SignedAsStored(object, Parse(object))
<1>1. ~Unreadable(object) /\ object # <<>>
  BY DEF Parse, Unreadable
<1>2. CASE object[1].token = "tree"
  <2>1. Parse(object) = ParseCommit(object)
    BY <1>1, <1>2 DEF Parse
  <2> QED BY <1>1, <1>2, <2>1, CommitAssembled, Zenon
<1>3. CASE object[1].token = "object"
  <2>1. Parse(object) = ParseTag(object)
    BY <1>1, <1>3 DEF Parse
  <2> QED BY <1>1, <1>3, <2>1, TagAssembled, Zenon
<1> QED BY <1>1, <1>2, <1>3 DEF Parse

-----------------------------------------------------------------------------
(* krgpg keeps the object and its parts from the call to the signature,    *)
(* and has neither signature nor exit status before it is done.            *)
KrgpgInv ==
    /\ DOMAIN krgpg = {"pc", "object", "info", "signed", "exit"}
    /\ KrgpgTypeOK
    /\ krgpg.pc # "done" => krgpg.signed = None /\ krgpg.exit = None
    /\ krgpg.exit = 0 => krgpg.signed \in {"phone", "gpg"}
    /\ krgpg.pc = "call" \/ krgpg.signed = "phone" =>
          /\ krgpg.object \in Objects /\ Parse(krgpg.object) # Failure
          /\ krgpg.info = Parse(krgpg.object)

LEMMA NoneIsNoOutcome == None # "phone" /\ None # "nothing" /\ None # "gpg" /\ None # 0 /\ None # 1
BY KrgpgAssumption

LEMMA KrgpgInvInit == KrgpgInit => KrgpgInv
BY NoneIsNoOutcome DEF KrgpgInit, NoObject, KrgpgInv, KrgpgTypeOK

LEMMA KrgpgInvSignGit ==
  ASSUME KrgpgInv, NEW object \in Objects, SignGit(object)
  PROVE  KrgpgInv'
<1> DEFINE info == Parse(object)
<1>1. krgpg.pc = "idle" /\ krgpg.signed = None /\ krgpg.exit = None
  BY DEF SignGit, KrgpgInv
<1>2. CASE info = Failure
  <2>1. krgpg' = [krgpg EXCEPT !.object = object,
                  !.pc = IF Unreadable(object) THEN "done" ELSE "gpg",
                  !.exit = IF Unreadable(object) THEN 1 ELSE None]
    BY <1>2 DEF SignGit
  <2>2. /\ DOMAIN krgpg' = DOMAIN krgpg /\ krgpg'.signed = None
        /\ \/ krgpg'.pc = "done" /\ krgpg'.exit = 1
           \/ krgpg'.pc = "gpg" /\ krgpg'.exit = None
    <3>1. CASE Unreadable(object)
      <4>1. krgpg' = [krgpg EXCEPT !.object = object, !.pc = "done", !.exit = 1]
        BY <2>1, <3>1
      <4> QED BY <1>1, <4>1 DEF KrgpgInv
    <3>2. CASE ~Unreadable(object)
      <4>1. krgpg' = [krgpg EXCEPT !.object = object, !.pc = "gpg", !.exit = None]
        BY <2>1, <3>2
      <4> QED BY <1>1, <4>1 DEF KrgpgInv
    <3> QED BY <3>1, <3>2
  <2> QED BY <2>2, NoneIsNoOutcome DEF KrgpgInv, KrgpgTypeOK
<1>3. CASE info # Failure
  <2>1. krgpg' = [krgpg EXCEPT !.pc = "call", !.object = object, !.info = info]
    BY <1>3 DEF SignGit
  <2>2. info = Parse(object)
    OBVIOUS
  <2> HIDE DEF info
  <2>3. /\ DOMAIN krgpg' = DOMAIN krgpg /\ krgpg'.signed = None /\ krgpg'.exit = None
        /\ krgpg'.pc = "call" /\ krgpg'.object = object /\ krgpg'.info = info
    BY <1>1, <2>1 DEF KrgpgInv
  <2>4. /\ krgpg'.object \in Objects /\ Parse(krgpg'.object) # Failure
        /\ krgpg'.info = Parse(krgpg'.object)
    BY <1>3, <2>2, <2>3, Zenon
  <2> QED BY <2>3, <2>4, NoneIsNoOutcome DEF KrgpgInv, KrgpgTypeOK
<1> QED BY <1>2, <1>3

LEMMA KrgpgInvSignatureReturns ==
  ASSUME KrgpgInv, SignatureReturns
  PROVE  KrgpgInv'
<1>1. /\ krgpg.object \in Objects /\ Parse(krgpg.object) # Failure
      /\ krgpg.info = Parse(krgpg.object)
      /\ krgpg.pc = "call" /\ krgpg.signed = None /\ krgpg.exit = None
  BY DEF SignatureReturns, KrgpgInv
<1>2. /\ DOMAIN krgpg' = DOMAIN krgpg
      /\ krgpg'.object = krgpg.object /\ krgpg'.info = krgpg.info
      /\ \/ krgpg'.pc = "done" /\ krgpg'.exit = 0 /\ krgpg'.signed = "phone"
         \/ krgpg'.pc = "gpg" /\ krgpg'.exit = None /\ krgpg'.signed = None
  <2>1. CASE Err(Git) = "none" /\ AsciiArmorSignature(call[Git].body)
    <3>1. call[Git].body = "signature"
      BY <2>1 DEF AsciiArmorSignature
    <3>2. krgpg' = [krgpg EXCEPT !.pc = "done", !.exit = 0, !.signed = "phone"]
      BY <2>1, <3>1 DEF SignatureReturns
    <3> QED BY <3>2 DEF KrgpgInv
  <2>2. CASE ~(Err(Git) = "none" /\ AsciiArmorSignature(call[Git].body))
    <3>1. krgpg' = [krgpg EXCEPT !.pc = "gpg"]
      BY <2>2 DEF SignatureReturns
    <3> QED BY <1>1, <3>1 DEF KrgpgInv
  <2> QED BY <2>1, <2>2
<1>3. /\ krgpg'.object \in Objects /\ Parse(krgpg'.object) # Failure
      /\ krgpg'.info = Parse(krgpg'.object)
  BY <1>1, <1>2, Zenon
<1> QED BY <1>2, <1>3, NoneIsNoOutcome DEF KrgpgInv, KrgpgTypeOK

LEMMA KrgpgInvRedirectToGPG ==
  ASSUME KrgpgInv, NEW succeeds \in BOOLEAN, RedirectToGPG(succeeds)
  PROVE  KrgpgInv'
<1>1. /\ DOMAIN krgpg' = DOMAIN krgpg /\ krgpg'.pc = "done"
      /\ \/ krgpg'.exit = 0 /\ krgpg'.signed = "gpg"
         \/ krgpg'.exit = 1 /\ krgpg'.signed = None
  BY DEF RedirectToGPG, KrgpgInv
<1> QED BY <1>1, NoneIsNoOutcome DEF KrgpgInv, KrgpgTypeOK

LEMMA KrgpgInvEnded ==
  ASSUME KrgpgInv, Ended
  PROVE  KrgpgInv'
BY NoneIsNoOutcome DEF Ended, NoObject, KrgpgInv, KrgpgTypeOK

LEMMA KrgpgInvUnchanged ==
  ASSUME KrgpgInv, UNCHANGED krgpg
  PROVE  KrgpgInv'
BY DEF KrgpgInv, KrgpgTypeOK

(* What the phone signed is what git handed over, by PartsGiveTheObject.   *)
LEMMA KrgpgInvImplies ==
  ASSUME KrgpgInv
  PROVE  KrgpgTypeOK /\ ExitZeroMeansSigned /\ PhoneSignsTheObject
<1>1. KrgpgTypeOK /\ ExitZeroMeansSigned
  BY DEF KrgpgInv, ExitZeroMeansSigned
<1>2. ASSUME krgpg.signed = "phone" PROVE SignedAsStored(krgpg.object, krgpg.info)
  <2> DEFINE object == krgpg.object
             S == [token : STRING, value : STRING, wide : BOOLEAN]
  <2>1. object \in Seq(S) /\ Parse(object) # Failure /\ krgpg.info = Parse(object)
    BY <1>2, KrgpgAssumption DEF KrgpgInv
  <2>2. S \subseteq Lines
    BY DEF Lines
  <2> HIDE DEF S, object
  <2>3. object \in Seq(Lines)
    <3>1. \A i \in 1..Len(object) : object[i] \in Lines
      BY <2>1, <2>2, ElementOfSeq
    <3> QED BY <2>1, <3>1
  <2>4. SignedAsStored(object, krgpg.info)
    BY <2>1, <2>3, PartsGiveTheObject, Zenon
  <2> QED BY <2>4, Zenon DEF object
<1>3. PhoneSignsTheObject
  BY <1>2, Zenon DEF PhoneSignsTheObject
<1> QED BY <1>1, <1>3

-----------------------------------------------------------------------------
(* The steps of the commands of kr.                                        *)
Steps == {
    "putOld", "putNew", "getPair", "me", "hosts", "delete", "refresh", "kill", "start",
    "rename pairing old", "rename pairing new", "rename old pairing", "rename new pairing",
    "saveMe old", "saveMe new", "savePub old", "savePub new", "confirm", "authorize", "special"}

(* What kr transfer still has to do from its k-th step on.                 *)
Rest(k) == SubSeq(TransferAuthorityMain, k, 27)

HostNames == UNION {ToSet(hosts) : hosts \in HostLists}
Stored    == Pairings \cup {None}
CallState ==
    [pc : {"idle", "sent", "waiting", "replied"}, op : Ops \cup {"none"},
     pairing : Stored, status : Statuses, body : Stored \cup GitSignResponses]

ServerTypes ==
    /\ krd \in [up : BOOLEAN, pairing : Stored, me : Stored]
    /\ disk \in [{"pairing", "old", "new", "me", "pub"} -> Stored]
    /\ scanned \subseteq Pairings /\ unpaired \subseteq Pairings /\ forgotten \subseteq Pairings
    /\ saving \subseteq Pairings /\ unsaved \subseteq Pairings /\ late \in BOOLEAN
    /\ call \in [Callers -> CallState]

(* Only the answer to krgpg carries more than a profile.                   *)
BodyTypes == \A c \in Callers : call[c].op # "gitSign" => call[c].body \in Stored

Types == ServerTypes /\ BodyTypes

KrTypes ==
    /\ todo \in [{Kr} -> Seq(Steps)]
    /\ DOMAIN transfer = {"oldProfile", "newProfile", "left", "services", "due", "granted",
                          "asked", "ended"}
    /\ transfer.left \in Seq(HostNames)
    /\ transfer.granted \subseteq HostNames
    /\ transfer.ended \in {"not", "dry run", "failed", "done"}

ProfileTypes == transfer.oldProfile \in Stored /\ transfer.newProfile \in Stored

(* kr goes through the steps of its command one by one, until it ends.     *)
KrPath ==
    /\ \/ todo[Kr] \in {<<>>, <<"delete">>}
       \/ \E k \in 1..27 : todo[Kr] = Rest(k)
       \/ todo[Kr] = <<"refresh">> \o Rest(27)
    /\ todo[Kr] # <<>> => transfer.ended = "not"

(* Only kr changes the pairing, by the step it is at.                      *)
CallsByStep ==
    /\ \A c \in Callers \ {Kr} : call[c].op \in {"none", "me", "gitSign"}
    /\ call[Kr].pc # "idle" =>
          \/ At(Kr, call[Kr].op)
          \/ At(Kr, "refresh") /\ call[Kr].op = "getPair"

(* What holds whatever krd saves, and when.                                *)
Base == Types /\ KrTypes /\ ProfileTypes /\ KrPath /\ CallsByStep

-----------------------------------------------------------------------------
(* What holds as long as the transfer is undisturbed.                      *)
MovedFiles == disk.old \in {None, "old"} /\ disk.new \in {None, "new"}

(* A krd that does not run holds no call and no state.                     *)
DownIsDown ==
    ~krd.up => krd = Down /\ \A c \in Callers : call[c].pc \notin {"sent", "waiting"}

(* A profile under way comes from the phone that krd is paired with.       *)
Asking(c) == call[c].pc = "waiting" /\ call[c].op \in {"me", "getPair"}

ProfilesOnTheWay ==
    \A c \in Callers : Asking(c) => krd.pairing \in Pairings /\ call[c].pairing = krd.pairing

(* A call has no status before its answer, and pairing and unpairing are   *)
(* answered without a phone.                                               *)
WaitsForPhone ==
    \A c \in Callers :
        /\ call[c].pc \in {"sent", "waiting"} => call[c].status = 0
        /\ call[c].pc = "waiting" => call[c].op \in {"me", "getPair", "hosts", "gitSign"}

(* krd and its files, whatever kr is doing.                                *)
Core == Types /\ DownIsDown /\ ProfilesOnTheWay /\ WaitsForPhone

ServerInv == Core /\ CallsByStep

-----------------------------------------------------------------------------
OnDisk(p, o, n) == disk.pairing = p /\ disk.old = o /\ disk.new = n

PairingLoaded == krd.up => krd.pairing = disk.pairing
ProfileLoaded == krd.up => krd.me = disk.me
NoneAsking    == \A c \in Callers : ~Asking(c)

(* There is a profile wherever krd looks for one, so nobody asks a phone.  *)
Quiet == NoneAsking /\ disk.me # None /\ (krd.up => krd.me # None)

(* The call of kr's step has been answered.                                *)
Served == call[Kr].pc = "replied" /\ call[Kr].status = 200

Before ==
    /\ disk.old = None /\ disk.new = None
    /\ \/ disk.pairing = "prior" /\ disk.me = "prior"
       \/ disk.pairing = None /\ disk.me = None /\ "prior" \in unpaired \cup forgotten
    /\ PairingLoaded /\ ProfileLoaded /\ NoneAsking

WithOld ==
    /\ OnDisk("old", None, None) /\ PairingLoaded
    /\ disk.me \in {None, "old"} /\ krd.me \in {None, "old"}
Between  == OnDisk(None, "old", None) /\ PairingLoaded
WithNew  == OnDisk("new", "old", None) /\ PairingLoaded
NewKnown == WithNew /\ disk.me = "new" /\ ProfileLoaded
BackOnOld ==
    OnDisk("old", None, "new") /\ disk.me = "old" /\ Quiet /\ PairingLoaded /\ ProfileLoaded
OnNew ==
    /\ OnDisk("new", None, None) /\ disk.me = "new" /\ PairingLoaded /\ ProfileLoaded

(* What holds before the k-th step is over.                                *)
AtStep(k) ==
    /\ k = 1 => IF Served THEN WithOld ELSE Before
    /\ k \in 2..7 => WithOld
    /\ k = 8 => OnDisk(None, "old", None)
    /\ k = 9 => Between
    /\ k = 10 => IF Served THEN WithNew ELSE Between
    /\ k = 11 => WithNew /\ (Served => NewKnown)
    /\ k \in 12..13 => NewKnown
    /\ k = 14 => NewKnown /\ NoneAsking
    /\ k = 15 => OnDisk(None, "old", "new") /\ Quiet
    /\ k = 16 => OnDisk("old", None, "new") /\ Quiet
    /\ k = 17 => OnDisk("old", None, "new") /\ Quiet /\ disk.me = "old"
    /\ k \in 18..22 => BackOnOld
    /\ k \in 21..24 => transfer.left = <<>>
    /\ k = 23 => OnDisk("new", None, None) /\ Quiet
    /\ k = 24 => OnDisk("new", None, None) /\ Quiet /\ disk.me = "new"
    /\ k \in 25..26 => OnNew
    /\ k = 27 => OnNew /\ disk.pub = "new"

Running ==
    \/ todo[Kr] \in {<<>>, <<"delete">>} /\ Before
    \/ \E k \in 1..27 : todo[Kr] = Rest(k) /\ AtStep(k)
    \/ todo[Kr] = <<"refresh">> \o Rest(27) /\ AtStep(27)

Over ==
    /\ todo[Kr] = <<>>
    /\ transfer.ended = "done" => AtStep(27)

(* Also a pairing that nobody has scanned yet is kept, as long as krd may  *)
(* still have it scanned.                                                  *)
Kept(p) ==
    \/ p \in {disk.pairing, disk.old, disk.new}
    \/ p = "old" /\ disk.pairing = "new" /\ transfer.left = <<>>

AllKept ==
    /\ krd.pairing = "prior" => disk.pairing = "prior"
    /\ \A p \in Pairings \ (unpaired \cup forgotten) :
          p \in scanned \/ p = krd.pairing => Kept(p)

TransferInv ==
    /\ KrTypes /\ MovedFiles
    /\ IF transfer.ended = "not" THEN Running ELSE Over
    /\ AllKept
    /\ unpaired \subseteq {"prior"}

Inv == ServerInv /\ TransferInv

(* The profiles that kr has got from krd by its k-th step, and the one     *)
(* that is in the answer it has not read yet.                              *)
ProfilesAt(k) ==
    /\ k \in 1..3 => transfer.oldProfile = None
    /\ k \in 4..19 => transfer.oldProfile = "old"
    /\ k \in 13..26 => transfer.newProfile = "new"
    /\ k = 3 /\ Served => call[Kr].body = "old"
    /\ k = 12 /\ Served => call[Kr].body = "new"

ProfilesInv ==
    /\ todo[Kr] \in {<<>>, <<"delete">>} /\ transfer.ended = "not" => transfer.oldProfile = None
    /\ \A k \in 1..27 : todo[Kr] = Rest(k) => ProfilesAt(k)

InOrder == Inv /\ ProfilesInv

-----------------------------------------------------------------------------
(* The steps of kr transfer, one by one.                                   *)

LEMMA ConcatSteps ==
  ASSUME NEW s \in Seq(Steps), NEW t \in Seq(Steps)
  PROVE  /\ Cat(s, t) \in Seq(Steps) /\ Len(Cat(s, t)) = Len(s) + Len(t)
         /\ \A i \in 1..Len(s) : Cat(s, t)[i] = s[i]
         /\ \A i \in 1..Len(t) : Cat(s, t)[Len(s) + i] = t[i]
<1>1. /\ s \o t \in Seq(Steps) /\ Len(s \o t) = Len(s) + Len(t)
      /\ \A i \in 1..(Len(s) + Len(t)) :
            (s \o t)[i] = IF i <= Len(s) THEN s[i] ELSE t[i - Len(s)]
  BY ConcatProperties
<1> QED BY <1>1 DEF Cat

LEMMA MainSteps ==
  /\ TransferAuthorityMain \in Seq(Steps) /\ Len(TransferAuthorityMain) = 27
  /\ TransferAuthorityMain[1] = "putOld" /\ TransferAuthorityMain[2] = "getPair"
  /\ TransferAuthorityMain[3] = "me" /\ TransferAuthorityMain[4] = "hosts"
  /\ TransferAuthorityMain[5] = "confirm" /\ TransferAuthorityMain[6] = "kill"
  /\ TransferAuthorityMain[7] = "rename pairing old" /\ TransferAuthorityMain[8] = "kill"
  /\ TransferAuthorityMain[9] = "start" /\ TransferAuthorityMain[10] = "putNew"
  /\ TransferAuthorityMain[11] = "getPair" /\ TransferAuthorityMain[12] = "me"
  /\ TransferAuthorityMain[13] = "kill" /\ TransferAuthorityMain[14] = "rename pairing new"
  /\ TransferAuthorityMain[15] = "rename old pairing" /\ TransferAuthorityMain[16] = "saveMe old"
  /\ TransferAuthorityMain[17] = "kill" /\ TransferAuthorityMain[18] = "start"
  /\ TransferAuthorityMain[19] = "savePub old" /\ TransferAuthorityMain[20] = "authorize"
  /\ TransferAuthorityMain[21] = "kill" /\ TransferAuthorityMain[22] = "rename new pairing"
  /\ TransferAuthorityMain[23] = "saveMe new" /\ TransferAuthorityMain[24] = "kill"
  /\ TransferAuthorityMain[25] = "start" /\ TransferAuthorityMain[26] = "savePub new"
  /\ TransferAuthorityMain[27] = "special"
<1> DEFINE a == DoPairOldKryptonDevice
           b == Cat(a, <<"hosts", "confirm">>)
           c == Cat(b, DoPairNewKryptonDevice)
           d == Cat(c, DoManualRePairWithOldKrypton)
           e == Cat(d, <<"authorize">>)
           f == Cat(e, DoManualRePairWithNewKrypton)
           g == Cat(f, <<"special">>)
<1>a. a \in Seq(Steps) /\ Len(a) = 3
  BY DEF DoPairOldKryptonDevice, Steps
<1>a1. a[1] = "putOld" /\ a[2] = "getPair" /\ a[3] = "me"
  BY DEF DoPairOldKryptonDevice
<1> HIDE DEF a
<1>b. /\ b \in Seq(Steps) /\ Len(b) = 5
      /\ \A i \in 1..3 : b[i] = a[i]
      /\ b[4] = "hosts" /\ b[5] = "confirm"
  <2> DEFINE t == <<"hosts", "confirm">>
  <2>1. t \in Seq(Steps) /\ Len(t) = 2
    BY DEF Steps
  <2>2. /\ t[1] = "hosts" /\ t[2] = "confirm"
    OBVIOUS
  <2> HIDE DEF t
  <2>3. b = Cat(a, t)
    BY DEF t
  <2> HIDE DEF b
  <2>i. a \in Seq(Steps)
    BY <1>a, Zenon
  <2>c. /\ b \in Seq(Steps) /\ Len(b) = Len(a) + Len(t)
        /\ \A i \in 1..Len(a) : b[i] = a[i]
        /\ \A i \in 1..Len(t) : b[Len(a) + i] = t[i]
    BY <2>i, <2>1, <2>3, ConcatSteps, Zenon
  <2>l. Len(a) = 3 /\ Len(t) = 2
    BY <1>a, <2>1, Zenon
  <2>4. /\ b \in Seq(Steps) /\ Len(b) = 3 + 2
        /\ \A i \in 1..3 : b[i] = a[i]
        /\ \A i \in 1..2 : b[3 + i] = t[i]
    BY <2>c, <2>l, Zenon
  <2>5. /\ 3 + 2 = 5
        /\ 1 \in 1..2 /\ 3 + 1 = 4 /\ 2 \in 1..2 /\ 3 + 2 = 5
    OBVIOUS
  <2> QED BY <2>2, <2>4, <2>5, Zenon
<1> HIDE DEF b
<1>c. /\ c \in Seq(Steps) /\ Len(c) = 12
      /\ \A i \in 1..5 : c[i] = b[i]
      /\ c[6] = "kill" /\ c[7] = "rename pairing old" /\ c[8] = "kill"
      /\ c[9] = "start" /\ c[10] = "putNew" /\ c[11] = "getPair" /\ c[12] = "me"
  <2> DEFINE t == DoPairNewKryptonDevice
  <2>1. t \in Seq(Steps) /\ Len(t) = 7
    BY DEF DoPairNewKryptonDevice, Steps
  <2>2. /\ t[1] = "kill" /\ t[2] = "rename pairing old" /\ t[3] = "kill"
        /\ t[4] = "start" /\ t[5] = "putNew" /\ t[6] = "getPair" /\ t[7] = "me"
    BY DEF DoPairNewKryptonDevice
  <2> HIDE DEF t
  <2>3. c = Cat(b, t)
    BY DEF t
  <2> HIDE DEF c
  <2>i. b \in Seq(Steps)
    BY <1>b, Zenon
  <2>c. /\ c \in Seq(Steps) /\ Len(c) = Len(b) + Len(t)
        /\ \A i \in 1..Len(b) : c[i] = b[i]
        /\ \A i \in 1..Len(t) : c[Len(b) + i] = t[i]
    BY <2>i, <2>1, <2>3, ConcatSteps, Zenon
  <2>l. Len(b) = 5 /\ Len(t) = 7
    BY <1>b, <2>1, Zenon
  <2>4. /\ c \in Seq(Steps) /\ Len(c) = 5 + 7
        /\ \A i \in 1..5 : c[i] = b[i]
        /\ \A i \in 1..7 : c[5 + i] = t[i]
    BY <2>c, <2>l, Zenon
  <2>5. /\ 5 + 7 = 12
        /\ 1 \in 1..7 /\ 5 + 1 = 6 /\ 2 \in 1..7 /\ 5 + 2 = 7
        /\ 3 \in 1..7 /\ 5 + 3 = 8 /\ 4 \in 1..7 /\ 5 + 4 = 9
        /\ 5 \in 1..7 /\ 5 + 5 = 10 /\ 6 \in 1..7 /\ 5 + 6 = 11
        /\ 7 \in 1..7 /\ 5 + 7 = 12
    OBVIOUS
  <2> QED BY <2>2, <2>4, <2>5, Zenon
<1> HIDE DEF c
<1>d. /\ d \in Seq(Steps) /\ Len(d) = 19
      /\ \A i \in 1..12 : d[i] = c[i]
      /\ d[13] = "kill" /\ d[14] = "rename pairing new"
      /\ d[15] = "rename old pairing" /\ d[16] = "saveMe old" /\ d[17] = "kill"
      /\ d[18] = "start" /\ d[19] = "savePub old"
  <2> DEFINE t == DoManualRePairWithOldKrypton
  <2>1. t \in Seq(Steps) /\ Len(t) = 7
    BY DEF DoManualRePairWithOldKrypton, Steps
  <2>2. /\ t[1] = "kill" /\ t[2] = "rename pairing new"
        /\ t[3] = "rename old pairing" /\ t[4] = "saveMe old" /\ t[5] = "kill"
        /\ t[6] = "start" /\ t[7] = "savePub old"
    BY DEF DoManualRePairWithOldKrypton
  <2> HIDE DEF t
  <2>3. d = Cat(c, t)
    BY DEF t
  <2> HIDE DEF d
  <2>i. c \in Seq(Steps)
    BY <1>c, Zenon
  <2>c. /\ d \in Seq(Steps) /\ Len(d) = Len(c) + Len(t)
        /\ \A i \in 1..Len(c) : d[i] = c[i]
        /\ \A i \in 1..Len(t) : d[Len(c) + i] = t[i]
    BY <2>i, <2>1, <2>3, ConcatSteps, Zenon
  <2>l. Len(c) = 12 /\ Len(t) = 7
    BY <1>c, <2>1, Zenon
  <2>4. /\ d \in Seq(Steps) /\ Len(d) = 12 + 7
        /\ \A i \in 1..12 : d[i] = c[i]
        /\ \A i \in 1..7 : d[12 + i] = t[i]
    BY <2>c, <2>l, Zenon
  <2>5. /\ 12 + 7 = 19
        /\ 1 \in 1..7 /\ 12 + 1 = 13 /\ 2 \in 1..7 /\ 12 + 2 = 14
        /\ 3 \in 1..7 /\ 12 + 3 = 15 /\ 4 \in 1..7 /\ 12 + 4 = 16
        /\ 5 \in 1..7 /\ 12 + 5 = 17 /\ 6 \in 1..7 /\ 12 + 6 = 18
        /\ 7 \in 1..7 /\ 12 + 7 = 19
    OBVIOUS
  <2> QED BY <2>2, <2>4, <2>5, ZenonT(60)
<1> HIDE DEF d
<1>e. /\ e \in Seq(Steps) /\ Len(e) = 20
      /\ \A i \in 1..19 : e[i] = d[i]
      /\ e[20] = "authorize"
  <2> DEFINE t == <<"authorize">>
  <2>1. t \in Seq(Steps) /\ Len(t) = 1
    BY DEF Steps
  <2>2. /\ t[1] = "authorize"
    OBVIOUS
  <2> HIDE DEF t
  <2>3. e = Cat(d, t)
    BY DEF t
  <2> HIDE DEF e
  <2>i. d \in Seq(Steps)
    BY <1>d, Zenon
  <2>c. /\ e \in Seq(Steps) /\ Len(e) = Len(d) + Len(t)
        /\ \A i \in 1..Len(d) : e[i] = d[i]
        /\ \A i \in 1..Len(t) : e[Len(d) + i] = t[i]
    BY <2>i, <2>1, <2>3, ConcatSteps, Zenon
  <2>l. Len(d) = 19 /\ Len(t) = 1
    BY <1>d, <2>1, Zenon
  <2>4. /\ e \in Seq(Steps) /\ Len(e) = 19 + 1
        /\ \A i \in 1..19 : e[i] = d[i]
        /\ \A i \in 1..1 : e[19 + i] = t[i]
    BY <2>c, <2>l, Zenon
  <2>5. /\ 19 + 1 = 20
        /\ 1 \in 1..1 /\ 19 + 1 = 20
    OBVIOUS
  <2> QED BY <2>2, <2>4, <2>5, Zenon
<1> HIDE DEF e
<1>f. /\ f \in Seq(Steps) /\ Len(f) = 26
      /\ \A i \in 1..20 : f[i] = e[i]
      /\ f[21] = "kill" /\ f[22] = "rename new pairing" /\ f[23] = "saveMe new"
      /\ f[24] = "kill" /\ f[25] = "start" /\ f[26] = "savePub new"
  <2> DEFINE t == DoManualRePairWithNewKrypton
  <2>1. t \in Seq(Steps) /\ Len(t) = 6
    BY DEF DoManualRePairWithNewKrypton, Steps
  <2>2. /\ t[1] = "kill" /\ t[2] = "rename new pairing" /\ t[3] = "saveMe new"
        /\ t[4] = "kill" /\ t[5] = "start" /\ t[6] = "savePub new"
    BY DEF DoManualRePairWithNewKrypton
  <2> HIDE DEF t
  <2>3. f = Cat(e, t)
    BY DEF t
  <2> HIDE DEF f
  <2>i. e \in Seq(Steps)
    BY <1>e, Zenon
  <2>c. /\ f \in Seq(Steps) /\ Len(f) = Len(e) + Len(t)
        /\ \A i \in 1..Len(e) : f[i] = e[i]
        /\ \A i \in 1..Len(t) : f[Len(e) + i] = t[i]
    BY <2>i, <2>1, <2>3, ConcatSteps, Zenon
  <2>l. Len(e) = 20 /\ Len(t) = 6
    BY <1>e, <2>1, Zenon
  <2>4. /\ f \in Seq(Steps) /\ Len(f) = 20 + 6
        /\ \A i \in 1..20 : f[i] = e[i]
        /\ \A i \in 1..6 : f[20 + i] = t[i]
    BY <2>c, <2>l, Zenon
  <2>5. /\ 20 + 6 = 26
        /\ 1 \in 1..6 /\ 20 + 1 = 21 /\ 2 \in 1..6 /\ 20 + 2 = 22
        /\ 3 \in 1..6 /\ 20 + 3 = 23 /\ 4 \in 1..6 /\ 20 + 4 = 24
        /\ 5 \in 1..6 /\ 20 + 5 = 25 /\ 6 \in 1..6 /\ 20 + 6 = 26
    OBVIOUS
  <2> QED BY <2>2, <2>4, <2>5, ZenonT(60)
<1> HIDE DEF f
<1>g. /\ g \in Seq(Steps) /\ Len(g) = 27
      /\ \A i \in 1..26 : g[i] = f[i]
      /\ g[27] = "special"
  <2> DEFINE t == <<"special">>
  <2>1. t \in Seq(Steps) /\ Len(t) = 1
    BY DEF Steps
  <2>2. /\ t[1] = "special"
    OBVIOUS
  <2> HIDE DEF t
  <2>3. g = Cat(f, t)
    BY DEF t
  <2> HIDE DEF g
  <2>i. f \in Seq(Steps)
    BY <1>f, Zenon
  <2>c. /\ g \in Seq(Steps) /\ Len(g) = Len(f) + Len(t)
        /\ \A i \in 1..Len(f) : g[i] = f[i]
        /\ \A i \in 1..Len(t) : g[Len(f) + i] = t[i]
    BY <2>i, <2>1, <2>3, ConcatSteps, Zenon
  <2>l. Len(f) = 26 /\ Len(t) = 1
    BY <1>f, <2>1, Zenon
  <2>4. /\ g \in Seq(Steps) /\ Len(g) = 26 + 1
        /\ \A i \in 1..26 : g[i] = f[i]
        /\ \A i \in 1..1 : g[26 + i] = t[i]
    BY <2>c, <2>l, Zenon
  <2>5. /\ 26 + 1 = 27
        /\ 1 \in 1..1 /\ 26 + 1 = 27
    OBVIOUS
  <2> QED BY <2>2, <2>4, <2>5, Zenon
<1> HIDE DEF g
<1>m. TransferAuthorityMain = g
  BY DEF TransferAuthorityMain, Cat, a, b, c, d, e, f, g
<1>1. \A i \in 1..20 : i \in 1..26
  OBVIOUS
<1>2. \A i \in 1..12 : i \in 1..19 /\ i \in 1..20
  OBVIOUS
<1>3. \A i \in 1..3 : i \in 1..5 /\ i \in 1..12
  OBVIOUS
<1>4. \A i \in 1..20 : g[i] = e[i]
  BY <1>f, <1>g, <1>1, Zenon
<1>5. \A i \in 1..12 : g[i] = c[i]
  BY <1>d, <1>e, <1>2, <1>4, Zenon
<1>6. \A i \in 1..3 : g[i] = a[i]
  BY <1>b, <1>c, <1>3, <1>5, Zenon
<1>7. /\ g[1] = "putOld" /\ g[2] = "getPair" /\ g[3] = "me"
  <2>1. /\ 1 \in 1..3 /\ 2 \in 1..3 /\ 3 \in 1..3
    OBVIOUS
  <2> QED BY <1>a1, <1>6, <2>1, Zenon
<1>8. /\ g[4] = "hosts" /\ g[5] = "confirm"
  <2>1. /\ 4 \in 1..5 /\ 5 \in 1..5 /\ 4 \in 1..12 /\ 5 \in 1..12
    OBVIOUS
  <2> QED BY <1>b, <1>c, <1>5, <2>1, Zenon
<1>9. /\ g[6] = "kill" /\ g[7] = "rename pairing old" /\ g[8] = "kill"
      /\ g[9] = "start" /\ g[10] = "putNew" /\ g[11] = "getPair" /\ g[12] = "me"
  <2>1. /\ 6 \in 1..12 /\ 7 \in 1..12 /\ 8 \in 1..12 /\ 9 \in 1..12 /\ 10 \in 1..12
        /\ 11 \in 1..12 /\ 12 \in 1..12
    OBVIOUS
  <2> QED BY <1>c, <1>5, <2>1, Zenon
<1>10. /\ g[13] = "kill" /\ g[14] = "rename pairing new"
       /\ g[15] = "rename old pairing" /\ g[16] = "saveMe old" /\ g[17] = "kill"
       /\ g[18] = "start" /\ g[19] = "savePub old"
  <2>1. /\ 13 \in 1..19 /\ 14 \in 1..19 /\ 15 \in 1..19 /\ 16 \in 1..19
        /\ 17 \in 1..19 /\ 18 \in 1..19 /\ 19 \in 1..19 /\ 13 \in 1..20
        /\ 14 \in 1..20 /\ 15 \in 1..20 /\ 16 \in 1..20 /\ 17 \in 1..20
        /\ 18 \in 1..20 /\ 19 \in 1..20
    OBVIOUS
  <2>2. /\ d[13] = "kill" /\ d[14] = "rename pairing new"
        /\ d[15] = "rename old pairing" /\ d[16] = "saveMe old" /\ d[17] = "kill"
        /\ d[18] = "start" /\ d[19] = "savePub old"
    BY <1>d, Zenon
  <2>3. (\A i \in 1..19 : e[i] = d[i]) /\ \A i \in 1..20 : g[i] = e[i]
    BY <1>e, <1>4, Zenon
  <2> QED BY <2>1, <2>2, <2>3, ZenonT(60)
<1>11. /\ g[20] = "authorize"
  <2>1. /\ 20 \in 1..20
    OBVIOUS
  <2> QED BY <1>e, <1>4, <2>1, Zenon
<1>12. /\ g[21] = "kill" /\ g[22] = "rename new pairing" /\ g[23] = "saveMe new"
       /\ g[24] = "kill" /\ g[25] = "start" /\ g[26] = "savePub new"
  <2>1. /\ 21 \in 1..26 /\ 22 \in 1..26 /\ 23 \in 1..26 /\ 24 \in 1..26
        /\ 25 \in 1..26 /\ 26 \in 1..26
    OBVIOUS
  <2>2. /\ f[21] = "kill" /\ f[22] = "rename new pairing" /\ f[23] = "saveMe new"
        /\ f[24] = "kill" /\ f[25] = "start" /\ f[26] = "savePub new"
    BY <1>f, Zenon
  <2>3. \A i \in 1..26 : g[i] = f[i]
    BY <1>g, Zenon
  <2> QED BY <2>1, <2>2, <2>3, Zenon
<1> QED BY <1>g, <1>m, <1>7, <1>8, <1>9, <1>10, <1>11, <1>12, Zenon

LEMMA RestLength ==
  ASSUME NEW k \in 1..27
  PROVE  Rest(k) \in Seq(Steps) /\ Len(Rest(k)) = 27 - k + 1
<1>1. TransferAuthorityMain \in Seq(Steps) /\ Len(TransferAuthorityMain) = 27
  BY MainSteps
<1>2. \A i \in k..27 : TransferAuthorityMain[i] \in Steps
  <2> SUFFICES ASSUME NEW i \in k..27 PROVE TransferAuthorityMain[i] \in Steps
    OBVIOUS
  <2>1. i \in 1..Len(TransferAuthorityMain)
    BY <1>1
  <2> QED BY <1>1, <2>1, ElementOfSeq
<1> QED BY <1>2, SubSeqProperties DEF Rest

LEMMA RestSteps ==
  ASSUME NEW k \in 1..27
  PROVE  /\ Rest(k) \in Seq(Steps) /\ Rest(k) # <<>>
         /\ Head(Rest(k)) = TransferAuthorityMain[k]
         /\ Tail(Rest(k)) = Rest(k + 1)
<1>1. TransferAuthorityMain \in Seq(Steps) /\ Len(TransferAuthorityMain) = 27
  BY MainSteps
<1>2. Rest(k) \in Seq(Steps) /\ Len(Rest(k)) = 27 - k + 1
  BY RestLength
<1>3. Rest(k) # <<>>
  BY <1>2
<1>4. Head(Rest(k)) = TransferAuthorityMain[k] /\ Tail(Rest(k)) = Rest(k + 1)
  BY <1>1, HeadTailOfSubSeq DEF Rest
<1> QED BY <1>2, <1>3, <1>4

LEMMA RestEnds == Rest(1) = TransferAuthorityMain /\ Rest(28) = <<>>
<1>1. SubSeq(TransferAuthorityMain, 1, Len(TransferAuthorityMain)) = TransferAuthorityMain
  BY MainSteps, SubSeqFull
<1>2. SubSeq(TransferAuthorityMain, 28, 27) = <<>>
  BY SubSeqEmpty
<1> QED BY MainSteps, <1>1, <1>2 DEF Rest

(* HandleSpecialCase has the phone asked once more before it goes on.      *)
LEMMA RefreshSteps ==
  LET r == <<"refresh">> \o Rest(27)
  IN  /\ r \in Seq(Steps) /\ r # <<>>
      /\ Head(r) = "refresh" /\ Tail(r) = Rest(27)
<1> DEFINE h == <<"refresh">>
           t == Rest(27)
           r == Cat(h, t)
<1>1. h \in Seq(Steps) /\ Len(h) = 1 /\ h[1] = "refresh"
  BY DEF Steps
<1>2. t \in Seq(Steps)
  BY RestSteps
<1> HIDE DEF h, t
<1>3. /\ r \in Seq(Steps) /\ Len(r) = Len(h) + Len(t)
      /\ \A i \in 1..Len(h) : r[i] = h[i]
      /\ \A i \in 1..Len(t) : r[Len(h) + i] = t[i]
  BY <1>1, <1>2, ConcatSteps, Zenon
<1> HIDE DEF r
<1>4. Len(t) \in Nat /\ Len(r) \in Nat /\ 1 \in 1..Len(h)
  BY <1>1, <1>2, <1>3, LenProperties
<1>5. r # <<>> /\ r[1] = "refresh"
  BY <1>1, <1>3, <1>4
<1>6. Head(r) = "refresh"
  BY <1>3, <1>5
<1>7. /\ Tail(r) \in Seq(Steps) /\ Len(Tail(r)) = Len(r) - 1
      /\ \A i \in 1..Len(Tail(r)) : Tail(r)[i] = r[i + 1]
  BY <1>3, <1>5, HeadTailProperties
<1>8. Len(Tail(r)) = Len(t)
  BY <1>1, <1>3, <1>4, <1>7
<1>9. \A i \in 1..Len(Tail(r)) : Tail(r)[i] = t[i]
  <2> SUFFICES ASSUME NEW i \in 1..Len(Tail(r)) PROVE Tail(r)[i] = t[i]
    OBVIOUS
  <2>1. i \in 1..Len(t) /\ Len(h) + i = i + 1
    BY <1>1, <1>4, <1>8
  <2>2. Tail(r)[i] = r[i + 1] /\ r[Len(h) + i] = t[i]
    BY <1>3, <1>7, <2>1, Zenon
  <2> QED BY <2>1, <2>2, Zenon
<1>10. Tail(r) = t
  BY <1>2, <1>7, <1>8, <1>9, SeqEqual, Zenon
<1>11. r = <<"refresh">> \o Rest(27)
  BY DEF r, h, t, Cat
<1> QED BY <1>3, <1>5, <1>6, <1>10, <1>11, Zenon DEF t

LEMMA StepAt ==
  ASSUME NEW k \in 1..27, todo[Kr] = Rest(k), NEW step, At(Kr, step)
  PROVE  TransferAuthorityMain[k] = step
BY RestSteps DEF At

LEMMA StepsByName ==
  ASSUME NEW k \in 1..27
  PROVE  LET step == TransferAuthorityMain[k]
         IN  /\ step = "putOld" => k = 1
             /\ step = "getPair" => k \in {2, 11}
             /\ step = "me" => k \in {3, 12}
             /\ step = "hosts" => k = 4
             /\ step = "confirm" => k = 5
             /\ step = "kill" => k \in {6, 8, 13, 17, 21, 24}
             /\ step = "start" => k \in {9, 18, 25}
             /\ step = "putNew" => k = 10
             /\ step = "rename pairing old" => k = 7
             /\ step = "rename pairing new" => k = 14
             /\ step = "rename old pairing" => k = 15
             /\ step = "rename new pairing" => k = 22
             /\ step = "saveMe old" => k = 16
             /\ step = "saveMe new" => k = 23
             /\ step = "savePub old" => k = 19
             /\ step = "savePub new" => k = 26
             /\ step = "authorize" => k = 20
             /\ step = "special" => k = 27
             /\ step \notin {"delete", "gitSign", "refresh", "none"}
<1>1. \/ k = 1 \/ k = 2 \/ k = 3 \/ k = 4 \/ k = 5 \/ k = 6 \/ k = 7 \/ k = 8 \/ k = 9
      \/ k = 10 \/ k = 11 \/ k = 12 \/ k = 13 \/ k = 14 \/ k = 15 \/ k = 16 \/ k = 17 \/ k = 18
      \/ k = 19 \/ k = 20 \/ k = 21 \/ k = 22 \/ k = 23 \/ k = 24 \/ k = 25 \/ k = 26 \/ k = 27
  OBVIOUS
<1> QED BY <1>1, MainSteps, ZenonT(60)

(* No two of the lists that kr may have are the same.                      *)
LEMMA RestInjective ==
  ASSUME NEW k \in 1..27
  PROVE  /\ \A j \in 1..27 : Rest(j) = Rest(k) => j = k
         /\ Rest(k) # <<>> /\ Rest(k) # <<"delete">> /\ Rest(k) # <<"refresh">> \o Rest(27)
<1>1. \A j \in 1..27 : Rest(j) = Rest(k) => j = k
  <2> SUFFICES ASSUME NEW j \in 1..27, Rest(j) = Rest(k) PROVE j = k
    OBVIOUS
  <2>1. Len(Rest(j)) = 27 - j + 1 /\ Len(Rest(k)) = 27 - k + 1
    BY RestLength
  <2> QED BY <2>1
<1>2. Head(Rest(k)) = TransferAuthorityMain[k] /\ Rest(k) # <<>>
  BY RestSteps
<1>3. TransferAuthorityMain[k] # "delete" /\ TransferAuthorityMain[k] # "refresh"
  BY StepsByName
<1>4. Rest(k) # <<"delete">>
  <2>1. Head(<<"delete">>) = "delete"
    OBVIOUS
  <2> QED BY <1>2, <1>3, <2>1, Zenon
<1>5. Rest(k) # <<"refresh">> \o Rest(27)
  BY <1>2, <1>3, RefreshSteps, Zenon
<1> QED BY <1>1, <1>2, <1>4, <1>5, Zenon

-----------------------------------------------------------------------------
(* krd, the files and the calls keep their types, whatever krd saves.      *)
LEMMA PairingsOrNone == None \notin Pairings /\ "prior" # None /\ "old" # None /\ "new" # None
BY NoneAssumption DEF Pairings

LEMMA KrCalls == Kr \in Callers /\ Git \in Callers /\ Kr # Git
BY CallersAssumption

(* Start leaves the files alone but for the public key.                    *)
LEMMA StartKeeps ==
  ASSUME ServerTypes, Start
  PROVE  /\ disk' \in [{"pairing", "old", "new", "me", "pub"} -> Stored]
         /\ disk'.pairing = disk.pairing /\ disk'.old = disk.old /\ disk'.new = disk.new
         /\ disk'.me = disk.me
         /\ disk'.pub = IF disk.me = None THEN disk.pub ELSE disk.me
         /\ krd' \in [up : BOOLEAN, pairing : Stored, me : Stored]
         /\ krd'.up /\ krd'.pairing = disk.pairing /\ krd'.me = disk.me
BY DEF ServerTypes, Start

(* A reply.                                                                *)
LEMMA ReplyEffect ==
  ASSUME ServerTypes, NEW c \in Callers, NEW status \in Statuses,
         NEW body \in Stored \cup GitSignResponses, Reply(c, status, body)
  PROVE  /\ call' \in [Callers -> CallState]
         /\ call'[c].pc = "replied" /\ call'[c].op = call[c].op /\ call'[c].status = status
         /\ call'[c].pairing = call[c].pairing /\ call'[c].body = body
         /\ \A b \in Callers \ {c} : call'[b] = call[b]
<1> DEFINE r == [call[c] EXCEPT !.pc = "replied", !.status = status, !.body = body]
<1>1. call[c] \in CallState
  BY DEF ServerTypes
<1>2. /\ r \in CallState
      /\ r.pc = "replied" /\ r.op = call[c].op /\ r.status = status /\ r.pairing = call[c].pairing
      /\ r.body = body
  BY <1>1 DEF CallState
<1>3. call' = [call EXCEPT ![c] = r]
  BY <1>1 DEF ServerTypes, Reply, CallState
<1> HIDE DEF r
<1> QED BY <1>2, <1>3 DEF ServerTypes

LEMMA TypesReply ==
  ASSUME Types, NEW c \in Callers, NEW status \in Statuses,
         NEW body \in Stored \cup GitSignResponses, Reply(c, status, body),
         call[c].op # "gitSign" => body \in Stored
  PROVE  call' \in [Callers -> CallState] /\ BodyTypes'
<1>1. /\ call' \in [Callers -> CallState]
      /\ call'[c].op = call[c].op /\ call'[c].body = body
      /\ \A b \in Callers \ {c} : call'[b] = call[b]
  BY ReplyEffect DEF Types
<1>2. \A b \in Callers : call'[b].op # "gitSign" => call'[b].body \in Stored
  BY <1>1 DEF Types, BodyTypes
<1> QED BY <1>1, <1>2 DEF BodyTypes

(* The calls change, or krd and the files, and nothing else.               *)
LEMMA TypesCalls ==
  ASSUME Types, call' \in [Callers -> CallState], BodyTypes',
         UNCHANGED <<krd, disk, phoneVars, saveVars>>
  PROVE  Types'
BY DEF Types, ServerTypes, phoneVars, saveVars

LEMMA TypesFiles ==
  ASSUME Types, krd' \in [up : BOOLEAN, pairing : Stored, me : Stored],
         disk' \in [{"pairing", "old", "new", "me", "pub"} -> Stored],
         UNCHANGED <<phoneVars, saveVars, call>>
  PROVE  Types'
BY DEF Types, ServerTypes, BodyTypes, phoneVars, saveVars

LEMMA TypesUnchanged ==
  ASSUME Types, UNCHANGED serverVars
  PROVE  Types'
BY DEF Types, ServerTypes, BodyTypes, serverVars, phoneVars, saveVars

LEMMA TypesSend ==
  ASSUME Types, NEW c \in Callers, NEW op \in Ops, Send(c, op)
  PROVE  Types'
<1> DEFINE r == [Idle EXCEPT !.pc = "sent", !.op = op]
<1>1. r \in CallState /\ r.body \in Stored
  BY DEF CallState, Idle, Stored, Statuses
<1>2. call' = [call EXCEPT ![c] = r]
  BY DEF Send
<1> HIDE DEF r
<1>3. call' \in [Callers -> CallState] /\ BodyTypes'
  BY <1>1, <1>2 DEF Types, ServerTypes, BodyTypes
<1>4. /\ disk' \in [{"pairing", "old", "new", "me", "pub"} -> Stored]
      /\ krd' \in [up : BOOLEAN, pairing : Stored, me : Stored]
  BY StartKeeps DEF Send, Types, ServerTypes
<1> QED BY <1>3, <1>4 DEF Types, ServerTypes, Send, phoneVars, saveVars

LEMMA TypesHangUp ==
  ASSUME Types, NEW c \in Callers, HangUp(c)
  PROVE  Types'
<1>1. Idle \in CallState /\ Idle.body \in Stored
  BY DEF CallState, Idle, Stored, Statuses
<1>2. call' = [call EXCEPT ![c] = Idle] /\ UNCHANGED <<krd, disk, phoneVars, saveVars>>
  BY DEF HangUp
<1>3. call' \in [Callers -> CallState] /\ BodyTypes'
  BY <1>1, <1>2 DEF Types, ServerTypes, BodyTypes
<1> QED BY <1>2, <1>3, TypesCalls

LEMMA TypesKill ==
  ASSUME Types, Kill
  PROVE  Types'
<1>1. /\ call' \in [Callers -> CallState]
      /\ \A c \in Callers : call'[c].op = call[c].op /\ call'[c].body = call[c].body
  BY DEF Types, ServerTypes, Kill, CallState
<1>2. BodyTypes'
  BY <1>1 DEF Types, BodyTypes
<1> QED BY <1>1, <1>2 DEF Types, ServerTypes, Kill, Down, Stored

LEMMA TypesScan ==
  ASSUME Types, Scan
  PROVE  Types'
BY DEF Types, ServerTypes, BodyTypes, Scan

(* What SavePairing writes.                                                *)
LEMMA TypesSavePairing ==
  ASSUME ServerTypes, NEW p \in Pairings,
         NEW files \in [{"pairing", "old", "new", "me", "pub"} -> Stored],
         SavePairing(p, files)
  PROVE  /\ disk' \in [{"pairing", "old", "new", "me", "pub"} -> Stored]
         /\ unsaved' \subseteq Pairings /\ late' \in BOOLEAN
BY DEF ServerTypes, SavePairing, Stored

LEMMA TypesSaveScanned ==
  ASSUME Types, NEW p \in Pairings, SaveScanned(p)
  PROVE  Types'
<1>1. /\ disk' \in [{"pairing", "old", "new", "me", "pub"} -> Stored]
      /\ unsaved' \subseteq Pairings /\ late' \in BOOLEAN
  BY TypesSavePairing DEF SaveScanned, Types, ServerTypes
<1> QED BY <1>1 DEF Types, ServerTypes, BodyTypes, SaveScanned, phoneVars

LEMMA TypesAcknowledge ==
  ASSUME Types, Acknowledge
  PROVE  Types'
<1>1. krd.pairing \in Pairings
  BY DEF Acknowledge, Types, ServerTypes
<1>2. /\ disk' \in [{"pairing", "old", "new", "me", "pub"} -> Stored]
      /\ unsaved' \subseteq Pairings /\ late' \in BOOLEAN
  BY <1>1, TypesSavePairing DEF Acknowledge, Types, ServerTypes
<1> QED BY <1>2 DEF Types, ServerTypes, BodyTypes, Acknowledge, phoneVars

LEMMA AnsweredNotFound ==
  ASSUME NEW q \in CallState, NEW r, r = [q EXCEPT !.pc = "replied", !.status = 404]
  PROVE  r \in CallState /\ r.op = q.op /\ r.body = q.body
<1>1. r = [x \in DOMAIN q |-> CASE x = "pc"     -> "replied"
                               [] x = "status" -> 404
                               [] OTHER        -> q[x]]
  BY DEF CallState
<1>2. /\ DOMAIN q = {"pc", "op", "pairing", "status", "body"} /\ 404 \in Statuses
      /\ q.op \in Ops \cup {"none"} /\ q.pairing \in Stored
      /\ q.body \in Stored \cup GitSignResponses
  BY DEF CallState, Statuses
<1>3. /\ r.pc = "replied" /\ r.status = 404
      /\ r.op = q.op /\ r.pairing = q.pairing /\ r.body = q.body
  BY <1>1, <1>2
<1> QED BY <1>1, <1>2, <1>3 DEF CallState

LEMMA TypesPhoneUnpairs ==
  ASSUME Types, PhoneUnpairs
  PROVE  Types'
<1>1. krd.pairing \in Pairings
  BY DEF PhoneUnpairs, Types, ServerTypes
<1>2. /\ call' \in [Callers -> CallState]
      /\ \A c \in Callers : call'[c].op = call[c].op /\ call'[c].body = call[c].body
  <2> DEFINE r(c) == [call[c] EXCEPT !.pc = "replied", !.status = 404]
  <2>1. \A c \in Callers : call[c] \in CallState
    BY DEF Types, ServerTypes
  <2>2. \A c \in Callers : r(c) \in CallState /\ r(c).op = call[c].op /\ r(c).body = call[c].body
    <3> SUFFICES ASSUME NEW c \in Callers
                 PROVE  r(c) \in CallState /\ r(c).op = call[c].op /\ r(c).body = call[c].body
      OBVIOUS
    <3> QED BY <2>1, AnsweredNotFound
  <2>3. call' = [c \in Callers |-> IF call[c].pc = "waiting" THEN r(c) ELSE call[c]]
    BY DEF PhoneUnpairs
  <2> HIDE DEF r
  <2> QED BY <2>1, <2>2, <2>3
<1>3. BodyTypes'
  BY <1>2 DEF Types, BodyTypes
<1>4. /\ krd' \in [up : BOOLEAN, pairing : Stored, me : Stored]
      /\ disk' \in [{"pairing", "old", "new", "me", "pub"} -> Stored]
      /\ late' \in BOOLEAN
  BY DEF Types, ServerTypes, PhoneUnpairs, Stored
<1> QED BY <1>1, <1>2, <1>3, <1>4 DEF Types, ServerTypes, PhoneUnpairs

LEMMA TypesTimeOut ==
  ASSUME Types, NEW c \in Callers, TimeOut(c)
  PROVE  Types'
<1>1. \/ Reply(c, 404, None)
      \/ Reply(c, 500, None)
  BY DEF TimeOut
<1>2. 404 \in Statuses /\ 500 \in Statuses /\ None \in Stored
  BY DEF Statuses, Stored
<1>3. call' \in [Callers -> CallState] /\ BodyTypes'
  BY <1>1, <1>2, TypesReply
<1> QED BY <1>3, TypesCalls DEF TimeOut

(* The answer, by what is asked for.                                       *)
LEMMA AnswerCases ==
  ASSUME ServerTypes, NEW c \in Callers, NEW body \in GitSignResponses, Answer(c, body)
  PROVE  LET p     == call[c].pairing
             files == [disk EXCEPT !.me = p, !.pub = p]
         IN  /\ p \in Pairings /\ call[c].pc = "waiting" /\ UNCHANGED <<phoneVars, saving>>
             /\ call[c].op \in {"me", "getPair"} =>
                   /\ krd' = [krd EXCEPT !.me = p] /\ Reply(c, 200, p)
                   /\ \/ disk' = files /\ UNCHANGED <<unsaved, late>>
                      \/ krd.pairing = p /\ SavePairing(p, files)
             /\ call[c].op \notin {"me", "getPair"} =>
                   /\ krd' = krd /\ Reply(c, 200, IF call[c].op = "gitSign" THEN body ELSE None)
                   /\ \/ disk' = disk /\ UNCHANGED <<unsaved, late>>
                      \/ krd.pairing = p /\ SavePairing(p, disk)
<1> DEFINE p == call[c].pairing
           files == [disk EXCEPT !.me = p, !.pub = p]
<1>1. p \in Pairings /\ call[c].pc = "waiting" /\ UNCHANGED <<phoneVars, saving>>
  BY DEF Answer, ServerTypes
<1>2. CASE call[c].op \in {"me", "getPair"}
  <2>1. /\ krd' = [krd EXCEPT !.me = p] /\ Reply(c, 200, p)
        /\ \/ disk' = files /\ UNCHANGED <<unsaved, late>>
           \/ krd.pairing = p /\ SavePairing(p, files)
    BY <1>2 DEF Answer
  <2> QED BY <1>1, <1>2, <2>1
<1>3. CASE call[c].op \notin {"me", "getPair"}
  <2>1. /\ krd' = krd /\ Reply(c, 200, IF call[c].op = "gitSign" THEN body ELSE None)
        /\ \/ disk' = disk /\ UNCHANGED <<unsaved, late>>
           \/ krd.pairing = p /\ SavePairing(p, disk)
    BY <1>3 DEF Answer
  <2> QED BY <1>1, <1>3, <2>1
<1> QED BY <1>2, <1>3

LEMMA TypesAnswer ==
  ASSUME Types, NEW c \in Callers, NEW body \in GitSignResponses, Answer(c, body)
  PROVE  Types'
<1> DEFINE p == call[c].pairing
           files == [disk EXCEPT !.me = p, !.pub = p]
           b == IF call[c].op = "gitSign" THEN body ELSE None
<1>1. /\ p \in Pairings /\ p \in Stored /\ UNCHANGED <<phoneVars, saving>>
      /\ 200 \in Statuses /\ None \in Stored
  BY AnswerCases DEF Types, Stored, Statuses
<1>2. CASE call[c].op \in {"me", "getPair"}
  <2>1. /\ krd' = [krd EXCEPT !.me = p] /\ Reply(c, 200, p)
        /\ \/ disk' = files /\ UNCHANGED <<unsaved, late>>
           \/ SavePairing(p, files)
    BY <1>2, AnswerCases DEF Types
  <2>2. files \in [{"pairing", "old", "new", "me", "pub"} -> Stored]
    BY <1>1 DEF Types, ServerTypes
  <2> HIDE DEF files, p
  <2>3. krd' \in [up : BOOLEAN, pairing : Stored, me : Stored]
    BY <1>1, <2>1 DEF Types, ServerTypes
  <2>4. /\ disk' \in [{"pairing", "old", "new", "me", "pub"} -> Stored]
        /\ unsaved' \subseteq Pairings /\ late' \in BOOLEAN
    BY <1>1, <2>1, <2>2, TypesSavePairing DEF Types, ServerTypes
  <2>5. call' \in [Callers -> CallState] /\ BodyTypes'
    BY <1>1, <2>1, TypesReply
  <2> QED BY <1>1, <2>3, <2>4, <2>5 DEF Types, ServerTypes, phoneVars
<1>3. CASE call[c].op \notin {"me", "getPair"}
  <2>1. /\ krd' = krd /\ Reply(c, 200, b)
        /\ \/ disk' = disk /\ UNCHANGED <<unsaved, late>>
           \/ SavePairing(p, disk)
    BY <1>3, AnswerCases DEF Types
  <2>2. b \in Stored \cup GitSignResponses /\ (call[c].op # "gitSign" => b \in Stored)
    BY <1>1
  <2> HIDE DEF b, p
  <2>3. /\ disk' \in [{"pairing", "old", "new", "me", "pub"} -> Stored]
        /\ unsaved' \subseteq Pairings /\ late' \in BOOLEAN
    BY <1>1, <2>1, TypesSavePairing DEF Types, ServerTypes
  <2>4. call' \in [Callers -> CallState] /\ BodyTypes'
    BY <1>1, <2>1, <2>2, TypesReply
  <2> QED BY <1>1, <2>1, <2>3, <2>4 DEF Types, ServerTypes, phoneVars
<1> QED BY <1>2, <1>3

LEMMA TypesTryRequest ==
  ASSUME Types, NEW c \in Callers, TryRequest(c)
  PROVE  call' \in [Callers -> CallState] /\ BodyTypes'
<1>1. CASE krd.pairing = None
  <2>1. Reply(c, 404, None) /\ 404 \in Statuses /\ None \in Stored
    BY <1>1 DEF TryRequest, Statuses, Stored
  <2> QED BY <2>1, TypesReply
<1>2. CASE krd.pairing # None
  <2> DEFINE r == [call[c] EXCEPT !.pc = "waiting", !.pairing = krd.pairing]
  <2>1. krd.pairing \in Stored /\ call[c] \in CallState
    BY DEF Types, ServerTypes
  <2>2. r \in CallState /\ r.op = call[c].op /\ r.body = call[c].body
    BY <2>1 DEF CallState
  <2>3. call' = [call EXCEPT ![c] = r]
    BY <1>2, <2>1 DEF TryRequest, Types, ServerTypes, CallState
  <2> HIDE DEF r
  <2> QED BY <2>2, <2>3 DEF Types, ServerTypes, BodyTypes
<1> QED BY <1>1, <1>2

LEMMA TypesServe ==
  ASSUME Types, NEW c \in Callers, Serve(c)
  PROVE  Types'
<1>1. /\ UNCHANGED <<scanned, forgotten, saveVars>>
      /\ 200 \in Statuses /\ 404 \in Statuses /\ None \in Stored /\ Told \subseteq Pairings
  BY DEF Serve, Statuses, Stored, Types, ServerTypes, Told
<1>2. ASSUME NEW p \in {"old", "new"}, HandlePutPair(c, p) PROVE Types'
  <2>1. p \in Stored /\ Reply(c, 200, None) /\ unpaired' = Told
    BY <1>2 DEF HandlePutPair, Stored, Pairings
  <2>2. krd' \in [up : BOOLEAN, pairing : Stored, me : Stored]
    BY <1>1, <1>2, <2>1 DEF HandlePutPair, Types, ServerTypes
  <2>3. disk' \in [{"pairing", "old", "new", "me", "pub"} -> Stored]
    BY <1>1, <1>2, <2>1 DEF HandlePutPair, Types, ServerTypes
  <2>4. call' \in [Callers -> CallState] /\ BodyTypes'
    BY <1>1, <2>1, TypesReply
  <2> QED BY <1>1, <2>1, <2>2, <2>3, <2>4 DEF Types, ServerTypes, saveVars
<1>3. CASE HandleDeletePair(c)
  <2>1. Reply(c, 200, None) /\ unpaired' = Told
    BY <1>3 DEF HandleDeletePair
  <2>2. krd' \in [up : BOOLEAN, pairing : Stored, me : Stored]
    BY <1>1, <1>3 DEF HandleDeletePair, Types, ServerTypes
  <2>3. disk' \in [{"pairing", "old", "new", "me", "pub"} -> Stored]
    BY <1>1, <1>3 DEF HandleDeletePair, Types, ServerTypes
  <2>4. call' \in [Callers -> CallState] /\ BodyTypes'
    BY <1>1, <2>1, TypesReply
  <2> QED BY <1>1, <2>1, <2>2, <2>3, <2>4 DEF Types, ServerTypes, saveVars
<1>4. CASE HandleGetPair(c) \/ HandleEnclaveMe(c) \/ HandleEnclaveGeneric(c)
  <2>1. /\ UNCHANGED <<krd, disk, unpaired>>
        /\ TryRequest(c) \/ Reply(c, 404, None) \/ Reply(c, 200, krd.me)
    BY <1>4 DEF HandleGetPair, HandleEnclaveMe, HandleEnclaveGeneric
  <2>2. krd.me \in Stored
    BY DEF Types, ServerTypes
  <2>3. call' \in [Callers -> CallState] /\ BodyTypes'
    BY <1>1, <2>1, <2>2, TypesReply, TypesTryRequest
  <2>4. UNCHANGED <<krd, disk, phoneVars, saveVars>>
    BY <1>1, <2>1 DEF phoneVars
  <2> QED BY <2>3, <2>4, TypesCalls
<1> QED BY <1>2, <1>3, <1>4 DEF Serve

-----------------------------------------------------------------------------
(* kr keeps its types as well, and takes the steps of its command in turn. *)

(* What kr is at, by its todo list.                                        *)
LEMMA PathAt ==
  ASSUME KrPath, NEW step, At(Kr, step)
  PROVE  /\ transfer.ended = "not" /\ todo[Kr] # <<>>
         /\ \/ step = "delete" /\ todo[Kr] = <<"delete">>
            \/ \E k \in 1..27 : todo[Kr] = Rest(k) /\ step = TransferAuthorityMain[k]
            \/ step = "refresh" /\ todo[Kr] = <<"refresh">> \o Rest(27)
<1>1. todo[Kr] # <<>> /\ Head(todo[Kr]) = step
  BY DEF At
<1>2. transfer.ended = "not"
  BY <1>1 DEF KrPath
<1>3. ASSUME NEW k \in 1..27, todo[Kr] = Rest(k)
      PROVE  step = TransferAuthorityMain[k]
  BY <1>3, StepAt
<1>4. todo[Kr] = <<"delete">> => step = "delete"
  BY <1>1
<1>5. todo[Kr] = <<"refresh">> \o Rest(27) => step = "refresh"
  BY <1>1, RefreshSteps, Zenon
<1> QED BY <1>1, <1>2, <1>3, <1>4, <1>5 DEF KrPath

LEMMA DoneStep ==
  ASSUME KrTypes, NEW k \in 1..27, todo[Kr] = Rest(k), Done(Kr)
  PROVE  todo' \in [{Kr} -> Seq(Steps)] /\ todo'[Kr] = Rest(k + 1)
<1>1. Tail(Rest(k)) = Rest(k + 1)
  BY RestSteps
<1>2. Rest(k + 1) \in Seq(Steps)
  <2>1. CASE k = 27
    <3>1. k + 1 = 28 /\ Rest(28) = <<>>
      BY <2>1, RestEnds
    <3> QED BY <3>1, EmptySeq, Zenon
  <2>2. CASE k # 27
    <3>1. k + 1 \in 1..27
      BY <2>2
    <3> QED BY <3>1, RestSteps
  <2> QED BY <2>1, <2>2
<1>3. <<>> \o Rest(k + 1) = Rest(k + 1)
  BY <1>2, ConcatEmptySeq
<1>4. todo' = [todo EXCEPT ![Kr] = Rest(k + 1)]
  <2>1. todo' = [todo EXCEPT ![Kr] = <<>> \o Tail(todo[Kr])]
    BY DEF KrTypes, Done, Expand
  <2> QED BY <1>1, <1>3, <2>1, Zenon
<1> QED BY <1>2, <1>4 DEF KrTypes

(* The other lists that kr may have.                                       *)
LEMMA DoneOther ==
  ASSUME KrTypes, Done(Kr)
  PROVE  /\ todo[Kr] = <<"delete">> => todo' \in [{Kr} -> Seq(Steps)] /\ todo'[Kr] = <<>>
         /\ todo[Kr] = <<"refresh">> \o Rest(27) =>
               todo' \in [{Kr} -> Seq(Steps)] /\ todo'[Kr] = Rest(27)
<1>1. todo' = [todo EXCEPT ![Kr] = <<>> \o Tail(todo[Kr])]
  BY DEF KrTypes, Done, Expand
<1>2. ASSUME todo[Kr] = <<"delete">>
      PROVE  todo' \in [{Kr} -> Seq(Steps)] /\ todo'[Kr] = <<>>
  <2>1. Tail(<<"delete">>) = <<>>
    OBVIOUS
  <2>2. <<>> \o <<>> = <<>>
    OBVIOUS
  <2>3. todo' = [todo EXCEPT ![Kr] = <<>>]
    BY <1>1, <1>2, <2>1, <2>2, Zenon
  <2> QED BY <2>3, EmptySeq DEF KrTypes
<1>3. ASSUME todo[Kr] = <<"refresh">> \o Rest(27)
      PROVE  todo' \in [{Kr} -> Seq(Steps)] /\ todo'[Kr] = Rest(27)
  <2>1. Tail(todo[Kr]) = Rest(27)
    BY <1>3, RefreshSteps, Zenon
  <2>2. Rest(27) \in Seq(Steps)
    BY RestSteps
  <2>3. <<>> \o Rest(27) = Rest(27)
    BY <2>2, ConcatEmptySeq
  <2>4. todo' = [todo EXCEPT ![Kr] = Rest(27)]
    BY <1>1, <2>1, <2>3, Zenon
  <2> QED BY <2>2, <2>4 DEF KrTypes
<1> QED BY <1>2, <1>3

OnPath(q) ==
    \/ q \in {<<>>, <<"delete">>}
    \/ \E k \in 1..27 : q = Rest(k)
    \/ q = <<"refresh">> \o Rest(27)

LEMMA DonePath ==
  ASSUME KrTypes, KrPath, todo[Kr] # <<>>, Done(Kr)
  PROVE  todo' \in [{Kr} -> Seq(Steps)] /\ OnPath(todo'[Kr])
<1>1. CASE todo[Kr] = <<"delete">>
  BY <1>1, DoneOther DEF OnPath
<1>2. ASSUME NEW k \in 1..27, todo[Kr] = Rest(k)
      PROVE  todo' \in [{Kr} -> Seq(Steps)] /\ OnPath(todo'[Kr])
  <2>1. todo' \in [{Kr} -> Seq(Steps)] /\ todo'[Kr] = Rest(k + 1)
    BY <1>2, DoneStep
  <2>2. CASE k = 27
    <3>1. k + 1 = 28
      BY <2>2
    <3>2. todo'[Kr] = <<>>
      BY <2>1, <3>1, RestEnds, Zenon
    <3> QED BY <2>1, <3>2 DEF OnPath
  <2>3. CASE k # 27
    <3>1. k + 1 \in 1..27
      BY <2>3
    <3> QED BY <2>1, <3>1 DEF OnPath
  <2> QED BY <2>2, <2>3
<1>3. CASE todo[Kr] = <<"refresh">> \o Rest(27)
  <2>1. 27 \in 1..27
    OBVIOUS
  <2> QED BY <1>3, <2>1, DoneOther, Zenon DEF OnPath
<1> QED BY <1>1, <1>2, <1>3 DEF KrPath

(* The calls stay those they were.                                         *)
SameCalls ==
    /\ \A c \in Callers : call'[c].op = call[c].op
    /\ call'[Kr].pc # "idle" => call[Kr].pc # "idle"

LEMMA SameCallsByStep ==
  ASSUME CallsByStep, SameCalls, UNCHANGED todo
  PROVE  CallsByStep'
BY KrCalls DEF CallsByStep, SameCalls, At

LEMMA ReplySameCalls ==
  ASSUME ServerTypes, NEW c \in Callers, NEW status, NEW body, Reply(c, status, body),
         call[c].pc # "idle"
  PROVE  SameCalls
BY KrCalls DEF ServerTypes, Reply, CallState, SameCalls

LEMMA TryRequestSameCalls ==
  ASSUME ServerTypes, NEW c \in Callers, TryRequest(c), call[c].pc # "idle"
  PROVE  SameCalls
<1>1. CASE krd.pairing = None
  BY <1>1, ReplySameCalls DEF TryRequest
<1>2. CASE krd.pairing # None
  BY <1>2, KrCalls DEF ServerTypes, TryRequest, CallState, SameCalls
<1> QED BY <1>1, <1>2

(* Without a call of kr its steps are free.                                *)
LEMMA IdleCalls ==
  ASSUME CallsByStep, call'[Kr].pc = "idle", \A c \in Callers \ {Kr} : call'[c].op = call[c].op
  PROVE  CallsByStep'
BY DEF CallsByStep

(* A step that is no call finds no call under way.                         *)
LEMMA IdleAtStep ==
  ASSUME Types, CallsByStep, NEW step, At(Kr, step), step \notin Ops \cup {"none", "refresh"}
  PROVE  call[Kr].pc = "idle"
<1>1. call[Kr].op \in Ops \cup {"none"}
  BY KrCalls DEF Types, ServerTypes, CallState
<1>2. ~At(Kr, "refresh") /\ ~At(Kr, call[Kr].op)
  BY <1>1 DEF At
<1> QED BY <1>2 DEF CallsByStep

(* The fields of transfer that the types are about.                        *)
SameFields ==
    /\ DOMAIN transfer' = DOMAIN transfer
    /\ transfer'.left = transfer.left /\ transfer'.granted = transfer.granted
    /\ transfer'.oldProfile = transfer.oldProfile /\ transfer'.newProfile = transfer.newProfile

LEMMA BasePath ==
  ASSUME Base, Types', CallsByStep', todo' \in [{Kr} -> Seq(Steps)], OnPath(todo'[Kr]),
         transfer'.ended \in {"not", "dry run", "failed", "done"},
         todo'[Kr] # <<>> => transfer'.ended = "not", SameFields
  PROVE  Base'
<1>1. KrTypes' /\ ProfileTypes'
  BY DEF Base, KrTypes, ProfileTypes, SameFields
<1>2. KrPath'
  BY DEF KrPath, OnPath
<1> QED BY <1>1, <1>2 DEF Base

LEMMA BaseSame ==
  ASSUME Base, Types', CallsByStep', UNCHANGED <<todo, transfer>>
  PROVE  Base'
BY DEF Base, KrTypes, ProfileTypes, KrPath

LEMMA BaseDone ==
  ASSUME Base, Types', CallsByStep', todo[Kr] # <<>>, Done(Kr), UNCHANGED transfer
  PROVE  Base'
<1>1. todo' \in [{Kr} -> Seq(Steps)] /\ OnPath(todo'[Kr])
  BY DonePath DEF Base
<1>2. transfer'.ended = "not" /\ SameFields
  BY DEF Base, KrPath, SameFields
<1> QED BY <1>1, <1>2, BasePath

(* kr reads its answer, or takes a step that is no call.                   *)
LEMMA KrHangsUpCalls ==
  ASSUME Types, CallsByStep, HangUp(Kr)
  PROVE  Types' /\ CallsByStep'
<1>1. call'[Kr].pc = "idle" /\ \A c \in Callers \ {Kr} : call'[c].op = call[c].op
  BY KrCalls DEF HangUp, Types, ServerTypes, Idle
<1> QED BY <1>1, TypesHangUp, KrCalls, IdleCalls

LEMMA FreeStep ==
  ASSUME Types, CallsByStep, UNCHANGED serverVars, NEW step, At(Kr, step),
         step \notin Ops \cup {"none", "refresh"}
  PROVE  Types' /\ CallsByStep'
<1>1. call[Kr].pc = "idle"
  BY IdleAtStep
<1> QED BY <1>1, TypesUnchanged, IdleCalls DEF serverVars

LEMMA FreeFiles ==
  ASSUME Types, CallsByStep, NEW step, At(Kr, step), step \notin Ops \cup {"none", "refresh"},
         krd' \in [up : BOOLEAN, pairing : Stored, me : Stored],
         disk' \in [{"pairing", "old", "new", "me", "pub"} -> Stored],
         UNCHANGED <<phoneVars, saveVars, call>>
  PROVE  Types' /\ CallsByStep'
<1>1. call[Kr].pc = "idle"
  BY IdleAtStep
<1> QED BY <1>1, TypesFiles, IdleCalls

(* The special cases are kr's last step.                                   *)
LEMMA SpecialIsLast ==
  ASSUME KrPath, At(Kr, "special")
  PROVE  transfer.ended = "not" /\ todo[Kr] = Rest(27) /\ 27 \in 1..27
<1>1. PICK k \in 1..27 : todo[Kr] = Rest(k) /\ TransferAuthorityMain[k] = "special"
  <2>1. "special" # "delete" /\ "special" # "refresh"
    OBVIOUS
  <2>2. \/ "special" = "delete" /\ todo[Kr] = <<"delete">>
        \/ \E k \in 1..27 : todo[Kr] = Rest(k) /\ "special" = TransferAuthorityMain[k]
        \/ "special" = "refresh" /\ todo[Kr] = <<"refresh">> \o Rest(27)
    BY PathAt, Zenon
  <2> QED BY <2>1, <2>2, Zenon
<1>2. k = 27
  BY <1>1, StepsByName
<1> QED BY <1>1, <1>2, PathAt

(* kr calls krd, by the step it is at.                                     *)
LEMMA KrSendsCalls ==
  ASSUME Types, CallsByStep, NEW op \in Ops, Send(Kr, op), UNCHANGED todo,
         At(Kr, op) \/ (At(Kr, "refresh") /\ op = "getPair")
  PROVE  Types' /\ CallsByStep'
<1>1. call'[Kr].op = op /\ \A c \in Callers \ {Kr} : call'[c] = call[c]
  <2> DEFINE r == [Idle EXCEPT !.pc = "sent", !.op = op]
  <2>1. r.op = op
    BY DEF Idle
  <2>2. call' = [call EXCEPT ![Kr] = r]
    BY DEF Send
  <2> HIDE DEF r
  <2> QED BY <2>1, <2>2, KrCalls DEF Types, ServerTypes
<1>2. CallsByStep'
  BY <1>1 DEF CallsByStep, At
<1> QED BY <1>2, TypesSend, KrCalls

LEMMA BaseKrSends ==
  ASSUME Base, NEW op \in Ops, Send(Kr, op), UNCHANGED <<todo, transfer>>,
         At(Kr, op) \/ (At(Kr, "refresh") /\ op = "getPair")
  PROVE  Base'
<1>1. Types' /\ CallsByStep'
  BY KrSendsCalls DEF Base
<1> QED BY <1>1, BaseSame

LEMMA BaseRunKr ==
  ASSUME Base, NEW command \in DOMAIN Commands, RunKr(command)
  PROVE  Base'
<1>1. transfer.ended = "not" /\ transfer' = transfer /\ Types' /\ CallsByStep'
  BY TypesUnchanged, IdleCalls DEF RunKr, Base, serverVars
<1>2. todo' \in [{Kr} -> Seq(Steps)] /\ OnPath(todo'[Kr])
  <2>1. CASE command = "transfer"
    <3>1. todo' = [todo EXCEPT ![Kr] = Rest(1)]
      BY <2>1, RestEnds DEF RunKr, Commands
    <3>2. Rest(1) \in Seq(Steps) /\ 1 \in 1..27
      BY RestSteps
    <3>3. todo' \in [{Kr} -> Seq(Steps)] /\ todo'[Kr] = Rest(1)
      BY <3>1, <3>2 DEF Base, KrTypes
    <3> QED BY <3>2, <3>3 DEF OnPath
  <2>2. CASE command = "unpair"
    <3>1. todo' = [todo EXCEPT ![Kr] = <<"delete">>]
      BY <2>2 DEF RunKr, Commands
    <3>2. <<"delete">> \in Seq(Steps)
      BY DEF Steps
    <3>3. todo' \in [{Kr} -> Seq(Steps)] /\ todo'[Kr] = <<"delete">>
      BY <3>1, <3>2 DEF Base, KrTypes
    <3> QED BY <3>3 DEF OnPath
  <2> QED BY <2>1, <2>2 DEF Commands
<1>3. SameFields
  BY <1>1 DEF SameFields
<1> QED BY <1>1, <1>2, <1>3, BasePath

LEMMA BaseGiveUp ==
  ASSUME Base, GiveUp
  PROVE  Base'
<1>1. Types' /\ CallsByStep'
  BY KrHangsUpCalls DEF GiveUp, HangUp, Base
<1>2. todo' \in [{Kr} -> Seq(Steps)] /\ todo'[Kr] = <<>>
  BY EmptySeq DEF GiveUp, Base, KrTypes
<1>3. SameFields /\ transfer'.ended = "failed"
  BY DEF GiveUp, Base, KrTypes, SameFields
<1> QED BY <1>1, <1>2, <1>3, BasePath DEF OnPath

LEMMA BaseConfirm ==
  ASSUME Base, NEW pgp \in BOOLEAN, NEW continue \in BOOLEAN, Confirm(pgp, continue)
  PROVE  Base'
<1>1. /\ Types' /\ CallsByStep' /\ transfer.ended = "not" /\ todo[Kr] # <<>>
  BY FreeStep, PathAt DEF Confirm, Base, Ops
<1>2. SameFields /\ transfer'.ended = IF continue THEN "not" ELSE "dry run"
  BY <1>1 DEF Confirm, Base, KrTypes, SameFields
<1>3. CASE continue
  <2>1. todo' \in [{Kr} -> Seq(Steps)] /\ OnPath(todo'[Kr])
    BY <1>1, <1>3, DonePath DEF Confirm, Base
  <2> QED BY <1>1, <1>2, <1>3, <2>1, BasePath
<1>4. CASE ~continue
  <2>1. todo' = [todo EXCEPT ![Kr] = <<>>]
    BY <1>4 DEF Confirm
  <2>2. todo' \in [{Kr} -> Seq(Steps)] /\ todo'[Kr] = <<>>
    BY <2>1, EmptySeq DEF Base, KrTypes
  <2> QED BY <1>1, <1>2, <1>4, <2>2, BasePath DEF OnPath
<1> QED BY <1>3, <1>4

(* The renames and the saves, field by field.                              *)
LEMMA RenameFields ==
  ASSUME NEW r \in Renames
  PROVE  \/ r.step = "rename pairing old" /\ r.from = "pairing" /\ r.to = "old"
         \/ r.step = "rename pairing new" /\ r.from = "pairing" /\ r.to = "new"
         \/ r.step = "rename old pairing" /\ r.from = "old" /\ r.to = "pairing"
         \/ r.step = "rename new pairing" /\ r.from = "new" /\ r.to = "pairing"
<1>1. \/ r = [step |-> "rename pairing old", from |-> "pairing", to |-> "old"]
      \/ r = [step |-> "rename pairing new", from |-> "pairing", to |-> "new"]
      \/ r = [step |-> "rename old pairing", from |-> "old", to |-> "pairing"]
      \/ r = [step |-> "rename new pairing", from |-> "new", to |-> "pairing"]
  BY Zenon DEF Renames
<1>2. CASE r = [step |-> "rename pairing old", from |-> "pairing", to |-> "old"]
  BY <1>2
<1>3. CASE r = [step |-> "rename pairing new", from |-> "pairing", to |-> "new"]
  BY <1>3
<1>4. CASE r = [step |-> "rename old pairing", from |-> "old", to |-> "pairing"]
  BY <1>4
<1>5. CASE r = [step |-> "rename new pairing", from |-> "new", to |-> "pairing"]
  BY <1>5
<1> QED BY <1>1, <1>2, <1>3, <1>4, <1>5, Zenon

LEMMA SaveFields ==
  ASSUME NEW s \in Saves
  PROVE  \/ s.step = "saveMe old" /\ s.file = "me" /\ s.profile = "oldProfile"
         \/ s.step = "saveMe new" /\ s.file = "me" /\ s.profile = "newProfile"
         \/ s.step = "savePub old" /\ s.file = "pub" /\ s.profile = "oldProfile"
         \/ s.step = "savePub new" /\ s.file = "pub" /\ s.profile = "newProfile"
<1>1. \/ s = [step |-> "saveMe old", file |-> "me", profile |-> "oldProfile"]
      \/ s = [step |-> "saveMe new", file |-> "me", profile |-> "newProfile"]
      \/ s = [step |-> "savePub old", file |-> "pub", profile |-> "oldProfile"]
      \/ s = [step |-> "savePub new", file |-> "pub", profile |-> "newProfile"]
  BY Zenon DEF Saves
<1>2. CASE s = [step |-> "saveMe old", file |-> "me", profile |-> "oldProfile"]
  BY <1>2
<1>3. CASE s = [step |-> "saveMe new", file |-> "me", profile |-> "newProfile"]
  BY <1>3
<1>4. CASE s = [step |-> "savePub old", file |-> "pub", profile |-> "oldProfile"]
  BY <1>4
<1>5. CASE s = [step |-> "savePub new", file |-> "pub", profile |-> "newProfile"]
  BY <1>5
<1> QED BY <1>1, <1>2, <1>3, <1>4, <1>5, Zenon

(* The hosts still to handle are hosts of the lists.                       *)
LEMMA HostListed ==
  ASSUME NEW hosts \in HostLists
  PROVE  hosts \in Seq(HostNames)
<1>1. hosts \in Seq(STRING)
  BY HostListsAssumption
<1>2. \A i \in 1..Len(hosts) : hosts[i] \in HostNames
  <2> SUFFICES ASSUME NEW i \in 1..Len(hosts) PROVE hosts[i] \in HostNames
    OBVIOUS
  <2>1. hosts[i] \in ToSet(hosts)
    BY <1>1 DEF ToSet
  <2> QED BY <2>1 DEF HostNames
<1> QED BY <1>1, <1>2

LEMMA NextHost ==
  ASSUME KrTypes, transfer.left # <<>>
  PROVE  Head(transfer.left) \in HostNames /\ Tail(transfer.left) \in Seq(HostNames)
BY HeadTailProperties DEF KrTypes

LEMMA BaseCallReturns ==
  ASSUME Base, CallReturns
  PROVE  Base'
<1>1. Types' /\ CallsByStep' /\ Done(Kr)
  BY KrHangsUpCalls DEF CallReturns, Base
<1>2. todo[Kr] # <<>> /\ transfer.ended = "not"
  BY DEF CallReturns, Replied, Base, CallsByStep, KrPath, At
<1>3. /\ transfer'.left \in Seq(HostNames) /\ transfer'.granted = transfer.granted
      /\ transfer'.ended = transfer.ended /\ DOMAIN transfer' = DOMAIN transfer
      /\ transfer'.oldProfile \in Stored /\ transfer'.newProfile \in Stored
  <2>1. CASE call[Kr].op = "hosts"
    <3>1. PICK hosts \in HostLists : transfer' = [transfer EXCEPT !.left = hosts]
      BY <2>1 DEF CallReturns
    <3>2. hosts \in Seq(HostNames)
      BY HostListed
    <3> QED BY <3>1, <3>2 DEF Base, KrTypes, ProfileTypes
  <2>2. CASE call[Kr].op = "me"
    <3>1. call[Kr].body \in Stored
      BY <2>2, KrCalls DEF Base, Types, BodyTypes
    <3>2. \/ transfer' = [transfer EXCEPT !.oldProfile = call[Kr].body]
          \/ transfer' = [transfer EXCEPT !.newProfile = call[Kr].body]
      BY <2>2 DEF CallReturns
    <3> QED BY <3>1, <3>2 DEF Base, KrTypes, ProfileTypes
  <2>3. CASE call[Kr].op \notin {"hosts", "me"}
    <3>1. UNCHANGED transfer
      BY <2>3 DEF CallReturns
    <3> QED BY <3>1 DEF Base, KrTypes, ProfileTypes
  <2> QED BY <2>1, <2>2, <2>3
<1>4. todo' \in [{Kr} -> Seq(Steps)] /\ OnPath(todo'[Kr])
  BY <1>1, <1>2, DonePath DEF Base
<1>5. KrPath'
  BY <1>2, <1>3, <1>4 DEF KrPath, OnPath
<1>6. KrTypes' /\ ProfileTypes'
  BY <1>3, <1>4 DEF Base, KrTypes, ProfileTypes
<1> QED BY <1>1, <1>5, <1>6 DEF Base

LEMMA BaseKrFiles ==
  ASSUME Base, NEW step, At(Kr, step), step \notin Ops \cup {"none", "refresh"},
         krd' \in [up : BOOLEAN, pairing : Stored, me : Stored],
         disk' \in [{"pairing", "old", "new", "me", "pub"} -> Stored],
         UNCHANGED <<phoneVars, saveVars, call, transfer>>, Done(Kr)
  PROVE  Base'
<1>1. Types' /\ CallsByStep'
  BY FreeFiles DEF Base
<1> QED BY <1>1, BaseDone DEF At

LEMMA BaseRename ==
  ASSUME Base, NEW r \in Renames, Rename(r)
  PROVE  Base'
<1>1. r.step \notin Ops \cup {"none", "refresh"} /\ {r.from, r.to} \subseteq {"pairing", "old", "new"}
  BY RenameFields DEF Ops
<1>2. disk' \in [{"pairing", "old", "new", "me", "pub"} -> Stored]
  BY <1>1 DEF Rename, Base, Types, ServerTypes, Stored
<1>3. krd' \in [up : BOOLEAN, pairing : Stored, me : Stored]
  BY DEF Rename, Base, Types, ServerTypes
<1> QED BY <1>1, <1>2, <1>3, BaseKrFiles DEF Rename

LEMMA BaseSaveProfile ==
  ASSUME Base, NEW s \in Saves, SaveProfile(s)
  PROVE  Base'
<1>1. /\ s.step \notin Ops \cup {"none", "refresh"} /\ s.file \in {"me", "pub"}
      /\ s.profile \in {"oldProfile", "newProfile"}
  BY SaveFields DEF Ops
<1>2. transfer[s.profile] \in Stored
  BY <1>1 DEF Base, ProfileTypes
<1>3. disk' \in [{"pairing", "old", "new", "me", "pub"} -> Stored]
  BY <1>1, <1>2 DEF SaveProfile, Base, Types, ServerTypes
<1>4. krd' \in [up : BOOLEAN, pairing : Stored, me : Stored]
  BY DEF SaveProfile, Base, Types, ServerTypes
<1> QED BY <1>1, <1>3, <1>4, BaseKrFiles DEF SaveProfile

LEMMA BaseStartKrd ==
  ASSUME Base, StartKrd
  PROVE  Base'
<1>1. /\ disk' \in [{"pairing", "old", "new", "me", "pub"} -> Stored]
      /\ krd' \in [up : BOOLEAN, pairing : Stored, me : Stored]
  BY StartKeeps DEF StartKrd, Base, Types
<1>2. "start" \notin Ops \cup {"none", "refresh"}
  BY DEF Ops
<1> QED BY <1>1, <1>2, BaseKrFiles DEF StartKrd

LEMMA KillSameCalls ==
  ASSUME Types, Kill
  PROVE  SameCalls
BY KrCalls DEF SameCalls, Kill, Types, ServerTypes, CallState

LEMMA BaseKillKrd ==
  ASSUME Base, KillKrd
  PROVE  Base'
<1>1. Types' /\ call[Kr].pc = "idle" /\ SameCalls
  BY TypesKill, IdleAtStep, KillSameCalls DEF KillKrd, Base, Ops
<1>2. call'[Kr].pc = "idle"
  BY <1>1, KrCalls DEF KillKrd, Kill, Base, Types, ServerTypes
<1>3. CallsByStep'
  BY <1>1, <1>2, IdleCalls DEF SameCalls, Base
<1> QED BY <1>1, <1>3, BaseDone DEF KillKrd, At

LEMMA BaseAuthorizeHost ==
  ASSUME Base, NEW succeeds \in BOOLEAN, AuthorizeHost(succeeds)
  PROVE  Base'
<1>1. /\ disk' \in [{"pairing", "old", "new", "me", "pub"} -> Stored]
      /\ krd' \in [up : BOOLEAN, pairing : Stored, me : Stored]
  BY StartKeeps DEF AuthorizeHost, Base, Types, ServerTypes
<1>2. "authorize" \notin Ops \cup {"none", "refresh"}
  BY DEF Ops
<1>3. Types' /\ CallsByStep'
  BY <1>1, <1>2, FreeFiles DEF AuthorizeHost, Base
<1>4. /\ transfer'.left = Tail(transfer.left)
      /\ \/ transfer'.granted = transfer.granted \cup {Head(transfer.left)}
         \/ transfer'.granted = transfer.granted
      /\ DOMAIN transfer' = DOMAIN transfer /\ transfer'.ended = transfer.ended
      /\ transfer'.oldProfile = transfer.oldProfile /\ transfer'.newProfile = transfer.newProfile
      /\ transfer.left # <<>> /\ todo' = todo
  BY DEF AuthorizeHost, Base, KrTypes
<1>5. KrTypes'
  BY <1>4, NextHost DEF Base, KrTypes
<1>6. KrPath' /\ ProfileTypes'
  BY <1>4 DEF Base, KrPath, ProfileTypes
<1> QED BY <1>3, <1>5, <1>6 DEF Base

LEMMA BaseHostsHandled ==
  ASSUME Base, HostsHandled
  PROVE  Base'
<1>1. Types' /\ CallsByStep'
  BY FreeStep DEF HostsHandled, Base, Ops
<1> QED BY <1>1, BaseDone DEF HostsHandled, At

LEMMA BaseHandleSpecialCase ==
  ASSUME Base, NEW confirmed \in BOOLEAN, HandleSpecialCase(confirmed)
  PROVE  Base'
<1>1. Types' /\ CallsByStep'
  BY FreeStep DEF HandleSpecialCase, Base, Ops
<1>2. SameFields /\ transfer'.ended = transfer.ended
  BY DEF HandleSpecialCase, Base, KrTypes, SameFields
<1>3. transfer.ended = "not" /\ todo[Kr] = Rest(27) /\ 27 \in 1..27
  BY SpecialIsLast DEF HandleSpecialCase, Base
<1> DEFINE r == <<"refresh">> \o Rest(27)
<1>4. r \in Seq(Steps)
  BY RefreshSteps, Zenon
<1>5. todo' = todo \/ todo' = [todo EXCEPT ![Kr] = r]
  <2>1. \/ todo' = [todo EXCEPT ![Kr] = todo[Kr]]
        \/ todo' = [todo EXCEPT ![Kr] = <<"refresh">> \o todo[Kr]]
    BY DEF HandleSpecialCase
  <2>2. [todo EXCEPT ![Kr] = todo[Kr]] = todo
    BY DEF Base, KrTypes
  <2> QED BY <1>3, <2>1, <2>2, Zenon
<1>6. todo' \in [{Kr} -> Seq(Steps)] /\ (todo'[Kr] = Rest(27) \/ todo'[Kr] = r)
  <2> HIDE DEF r
  <2> QED BY <1>3, <1>4, <1>5 DEF Base, KrTypes
<1>7. OnPath(todo'[Kr])
  BY <1>3, <1>6, Zenon DEF OnPath
<1> QED BY <1>1, <1>2, <1>3, <1>6, <1>7, BasePath

LEMMA BaseRequestMeForceRefresh ==
  ASSUME Base, RequestMeForceRefresh
  PROVE  Base'
<1>1. At(Kr, "refresh") /\ UNCHANGED transfer
  BY DEF RequestMeForceRefresh
<1>2. CASE Send(Kr, "getPair") /\ UNCHANGED todo
  BY <1>1, <1>2, BaseKrSends DEF Ops
<1>3. CASE HangUp(Kr) /\ Done(Kr)
  <2>1. Types' /\ CallsByStep'
    BY <1>3, KrHangsUpCalls DEF Base
  <2> QED BY <1>1, <1>3, <2>1, BaseDone DEF At
<1> QED BY <1>2, <1>3 DEF RequestMeForceRefresh

LEMMA BaseTransferDone ==
  ASSUME Base, TransferDone
  PROVE  Base'
<1>1. Types' /\ CallsByStep'
  BY FreeStep DEF TransferDone, Base, Ops
<1>2. SameFields /\ transfer'.ended = "done"
  BY DEF TransferDone, Base, KrTypes, SameFields
<1>3. todo[Kr] = Rest(27) /\ 27 \in 1..27
  BY SpecialIsLast DEF TransferDone, Base
<1>4. todo' \in [{Kr} -> Seq(Steps)] /\ todo'[Kr] = <<>>
  <2>1. todo' \in [{Kr} -> Seq(Steps)] /\ todo'[Kr] = Rest(27 + 1)
    BY <1>3, DoneStep DEF TransferDone, Base
  <2>2. 27 + 1 = 28
    OBVIOUS
  <2> QED BY <2>1, <2>2, RestEnds, Zenon
<1> QED BY <1>1, <1>2, <1>4, BasePath DEF OnPath

LEMMA BaseKrStep ==
  ASSUME Base, KrStep
  PROVE  Base'
<1>1. ASSUME NEW op \in Ops, CallKrd(op) PROVE Base'
  BY <1>1, BaseKrSends DEF CallKrd
<1> QED BY <1>1, BaseCallReturns, BaseConfirm, BaseKillKrd, BaseStartKrd, BaseRename,
           BaseSaveProfile, BaseAuthorizeHost, BaseHandleSpecialCase, BaseHostsHandled,
           BaseRequestMeForceRefresh, BaseTransferDone DEF KrStep

(* The other programs, and krd.                                            *)
LEMMA OtherSends ==
  ASSUME Types, CallsByStep, NEW c \in Callers \ {Kr}, NEW op \in {"me", "gitSign"},
         Send(c, op) \/ HangUp(c), UNCHANGED todo
  PROVE  Types' /\ CallsByStep'
<1>1. op \in Ops /\ c \in Callers
  BY DEF Ops
<1>2. [Idle EXCEPT !.pc = "sent", !.op = op].op = op /\ Idle.op = "none"
  BY DEF Idle
<1>3. /\ \A b \in Callers \ {c} : call'[b] = call[b]
      /\ call'[c].op \in {op, "none"}
  <2> DEFINE r == [Idle EXCEPT !.pc = "sent", !.op = op]
  <2>1. call' = [call EXCEPT ![c] = r] \/ call' = [call EXCEPT ![c] = Idle]
    BY DEF Send, HangUp
  <2>2. r.op = op
    BY <1>2
  <2> HIDE DEF r
  <2> QED BY <1>1, <1>2, <2>1, <2>2 DEF Types, ServerTypes
<1>4. CallsByStep'
  BY <1>3, KrCalls DEF CallsByStep, At
<1> QED BY <1>1, <1>4, TypesSend, TypesHangUp

LEMMA BaseGitStep ==
  ASSUME Base, GitStep, UNCHANGED <<todo, transfer>>
  PROVE  Base'
<1>1. Git \in Callers \ {Kr}
  BY KrCalls
<1>2. UNCHANGED serverVars \/ Send(Git, "gitSign") \/ HangUp(Git)
  BY DEF GitStep, SignGit, SignatureReturns, RedirectToGPG, Ended
<1>3. UNCHANGED serverVars => Types' /\ CallsByStep'
  BY TypesUnchanged, SameCallsByStep DEF Base, serverVars, SameCalls
<1>4. Types' /\ CallsByStep'
  BY <1>1, <1>2, <1>3, OtherSends DEF Base
<1> QED BY <1>4, BaseSame

LEMMA BaseServe ==
  ASSUME Base, NEW c \in Callers, Serve(c) \/ TimeOut(c), UNCHANGED <<todo, transfer>>
  PROVE  Base'
<1>1. Types' /\ call[c].pc # "idle"
  BY TypesServe, TypesTimeOut DEF Base, Serve, TimeOut
<1>2. TryRequest(c) \/ \E status, body : Reply(c, status, body)
  BY DEF Serve, TimeOut, HandlePutPair, HandleDeletePair, HandleGetPair, HandleEnclaveMe,
         HandleEnclaveGeneric
<1>3. SameCalls
  BY <1>1, <1>2, ReplySameCalls, TryRequestSameCalls DEF Base, Types
<1> QED BY <1>1, <1>3, SameCallsByStep, BaseSame DEF Base

LEMMA BaseAnswer ==
  ASSUME Base, NEW c \in Callers, NEW body \in GitSignResponses, Answer(c, body),
         UNCHANGED <<todo, transfer>>
  PROVE  Base'
<1>1. Types' /\ call[c].pc # "idle" /\ \E b : Reply(c, 200, b)
  BY TypesAnswer, AnswerCases DEF Base, Types
<1>2. SameCalls
  BY <1>1, ReplySameCalls DEF Base, Types
<1> QED BY <1>1, <1>2, SameCallsByStep, BaseSame DEF Base

LEMMA UnpairsCalls ==
  ASSUME Types, PhoneUnpairs
  PROVE  /\ \A c \in Callers : call'[c].op = call[c].op /\ call'[c].pc # "waiting"
         /\ \A c \in Callers : call[c].pc # "waiting" => call'[c] = call[c]
         /\ \A c \in Callers : call[c].pc = "waiting" =>
               call'[c].status = 404 /\ call'[c].pc = "replied"
<1> DEFINE r(c) == [call[c] EXCEPT !.pc = "replied", !.status = 404]
<1>1. \A c \in Callers : r(c).op = call[c].op /\ r(c).pc = "replied" /\ r(c).status = 404
  <2> SUFFICES ASSUME NEW c \in Callers
               PROVE  r(c).op = call[c].op /\ r(c).pc = "replied" /\ r(c).status = 404
    OBVIOUS
  <2>1. call[c] \in CallState
    BY DEF Types, ServerTypes
  <2> QED BY <2>1 DEF CallState
<1>2. call' = [c \in Callers |-> IF call[c].pc = "waiting" THEN r(c) ELSE call[c]]
  BY DEF PhoneUnpairs
<1> HIDE DEF r
<1> QED BY <1>1, <1>2

LEMMA BasePhone ==
  ASSUME Base, UNCHANGED <<todo, transfer>>,
         Scan \/ (\E p \in Pairings : SaveScanned(p)) \/ Acknowledge \/ PhoneUnpairs \/ Crash
  PROVE  Base'
<1>1. Types'
  BY TypesScan, TypesSaveScanned, TypesAcknowledge, TypesPhoneUnpairs, TypesKill DEF Base, Crash
<1>2. SameCalls
  <2>1. UNCHANGED call => SameCalls
    BY DEF SameCalls
  <2>2. PhoneUnpairs => SameCalls
    BY UnpairsCalls, KrCalls DEF Base, SameCalls
  <2> QED BY <2>1, <2>2, KillSameCalls DEF Scan, SaveScanned, Acknowledge, Crash, Base
<1> QED BY <1>1, <1>2, SameCallsByStep, BaseSame DEF Base

LEMMA BaseStep ==
  ASSUME Base, [Next]_vars
  PROVE  Base'
<1>1. CASE \E command \in DOMAIN Commands : RunKr(command)
  BY <1>1, BaseRunKr
<1>2. CASE KrStep
  BY <1>2, BaseKrStep
<1>3. CASE GiveUp
  BY <1>3, BaseGiveUp
<1>4. CASE GitStep /\ UNCHANGED <<todo, transfer>>
  BY <1>4, BaseGitStep
<1>5. CASE (\E c \in Callers : Serve(c) \/ TimeOut(c)) /\ UNCHANGED <<todo, transfer>>
  BY <1>5, BaseServe
<1>6. CASE /\ \E c \in Callers, body \in GitSignResponses : Answer(c, body)
           /\ UNCHANGED <<todo, transfer>>
  BY <1>6, BaseAnswer
<1>7. CASE /\ Scan \/ (\E p \in Pairings : SaveScanned(p)) \/ Acknowledge \/ PhoneUnpairs \/ Crash
           /\ UNCHANGED <<todo, transfer>>
  BY <1>7, BasePhone
<1>8. CASE (\E c \in Others : RequestMe(c)) /\ UNCHANGED <<todo, transfer>>
  <2>1. PICK c \in Callers \ {Kr} : Send(c, "me") \/ HangUp(c)
    BY <1>8 DEF RequestMe, Others
  <2>2. Types' /\ CallsByStep'
    BY <1>8, <2>1, OtherSends DEF Base
  <2> QED BY <1>8, <2>2, BaseSame
<1>9. CASE UNCHANGED vars
  <2>1. UNCHANGED serverVars /\ UNCHANGED <<todo, transfer>>
    BY <1>9 DEF vars
  <2>2. Types' /\ CallsByStep'
    BY <2>1, TypesUnchanged, SameCallsByStep DEF Base, serverVars, SameCalls
  <2> QED BY <2>1, <2>2, BaseSame
<1> QED BY <1>1, <1>2, <1>3, <1>4, <1>5, <1>6, <1>7, <1>8, <1>9 DEF Next

-----------------------------------------------------------------------------
(* What a step of krd or of its other users does to krd and to the files:  *)
(* nothing, or it is started or killed, or the profile of the phone that   *)
(* krd is paired with arrives.                                             *)
ProfileArrives ==
    /\ krd.up /\ krd.pairing \in Pairings /\ ~NoneAsking
    /\ krd' = [krd EXCEPT !.me = krd.pairing]
    /\ disk' = [disk EXCEPT !.me = krd.pairing, !.pub = krd.pairing]

KrdChanges ==
    \/ UNCHANGED <<krd, disk>>
    \/ Start
    \/ krd' = Down /\ UNCHANGED disk
    \/ ProfileArrives

Refreshing(c) == c = Kr /\ call[Kr].pc = "sent" /\ call[Kr].op = "getPair"

Asks ==
    \A c \in Callers : Asking(c)' =>
        \/ Asking(c)
        \/ krd.up /\ krd.pairing # None /\ (krd.me = None \/ Refreshing(c))

KrServed ==
    /\ Served => Served' /\ call'[Kr].body = call[Kr].body
    /\ Served' /\ ~Served =>
          /\ call[Kr].pc # "idle"
          /\ call[Kr].op \in {"me", "getPair", "hosts", "gitSign"}
          /\ call[Kr].op = "getPair" => ProfileArrives
          /\ call[Kr].op = "me" => krd.up /\ call'[Kr].body \in {krd.me, krd.pairing} \ {None}

Upkeep ==
    /\ KrdChanges /\ Asks /\ KrServed
    /\ unpaired' = unpaired /\ forgotten' = forgotten
    /\ scanned' \subseteq scanned \cup {krd.pairing}

LEMMA CoreSend ==
  ASSUME Core, NEW c \in Callers, NEW op \in Ops, Send(c, op)
  PROVE  Core' /\ Upkeep
<1> USE DEF Core
<1>1. /\ call'[c].pc = "sent" /\ call'[c].op = op /\ call'[c].status = 0
      /\ \A b \in Callers \ {c} : call'[b] = call[b]
  <2> DEFINE r == [Idle EXCEPT !.pc = "sent", !.op = op]
  <2>1. r.pc = "sent" /\ r.op = op /\ r.status = 0
    BY DEF Idle
  <2>2. call' = [call EXCEPT ![c] = r]
    BY DEF Send
  <2> HIDE DEF r
  <2> QED BY <2>1, <2>2 DEF Types, ServerTypes
<1>2. krd'.up /\ (krd.up => krd' = krd)
  BY StartKeeps DEF Send, Types
<1>3. Types'
  BY TypesSend
<1>4. DownIsDown'
  BY <1>2 DEF DownIsDown
<1>5. \A b \in Callers : Asking(b)' => Asking(b) /\ krd.up
  BY <1>1 DEF Asking, DownIsDown
<1>6. ProfilesOnTheWay'
  BY <1>1, <1>2, <1>5 DEF ProfilesOnTheWay, Asking
<1>7. WaitsForPhone'
  BY <1>1 DEF WaitsForPhone
<1>8. Upkeep
  <2>1. KrdChanges
    BY DEF Send, KrdChanges
  <2>2. Asks
    BY <1>5 DEF Asks
  <2>3. KrServed
    BY <1>1, KrCalls DEF KrServed, Served, Send
  <2> QED BY <2>1, <2>2, <2>3 DEF Upkeep, Send, phoneVars
<1> QED BY <1>3, <1>4, <1>6, <1>7, <1>8

LEMMA CoreKill ==
  ASSUME Core, Kill
  PROVE  Core' /\ Upkeep /\ NoneAsking' /\ krd' = Down
<1> USE DEF Core
<1>1. /\ \A c \in Callers : call'[c].pc \notin {"sent", "waiting"} /\ call'[c].op = call[c].op
      /\ \A c \in Callers : call[c].pc \notin {"sent", "waiting"} => call'[c] = call[c]
      /\ \A c \in Callers : call'[c].status = call[c].status
  BY DEF Types, ServerTypes, Kill, CallState
<1>2. Types'
  BY TypesKill
<1>3. NoneAsking'
  BY <1>1 DEF NoneAsking, Asking
<1>4. DownIsDown' /\ ProfilesOnTheWay' /\ WaitsForPhone'
  BY <1>1, <1>3 DEF DownIsDown, ProfilesOnTheWay, WaitsForPhone, NoneAsking, Kill, Down
<1>5. KrServed
  BY <1>1, KrCalls DEF KrServed, Served, WaitsForPhone
<1> QED BY <1>2, <1>3, <1>4, <1>5 DEF Kill, Upkeep, KrdChanges, Asks, NoneAsking

LEMMA CoreHangUp ==
  ASSUME Core, NEW c \in Callers, HangUp(c)
  PROVE  Core' /\ KrdChanges /\ Asks /\ call'[c] = Idle /\ (c # Kr => Upkeep)
<1> USE DEF Core
<1>1. /\ call'[c] = Idle
      /\ \A b \in Callers \ {c} : call'[b] = call[b]
  BY DEF HangUp, Types, ServerTypes
<1>2. call'[c].pc = "idle"
  BY <1>1 DEF Idle
<1>3. Types'
  BY TypesHangUp
<1>4. \A b \in Callers : Asking(b)' => Asking(b)
  BY <1>1, <1>2 DEF Asking
<1>5. DownIsDown' /\ ProfilesOnTheWay' /\ WaitsForPhone'
  BY <1>1, <1>2, <1>4 DEF DownIsDown, ProfilesOnTheWay, WaitsForPhone, HangUp, Asking
<1>6. KrdChanges /\ Asks
  BY <1>4 DEF KrdChanges, Asks, HangUp
<1>7. c # Kr => Upkeep
  BY <1>1, <1>6, KrCalls DEF Upkeep, KrServed, Served, HangUp, phoneVars
<1> QED BY <1>1, <1>3, <1>5, <1>6, <1>7

(* krd, the files and the calls stay as they are.                          *)
LEMMA CoreSame ==
  ASSUME Core, UNCHANGED <<krd, disk, unpaired, forgotten, call>>, Types',
         scanned' \subseteq scanned \cup {krd.pairing}
  PROVE  Core' /\ Upkeep
<1>1. DownIsDown' /\ ProfilesOnTheWay' /\ WaitsForPhone'
  BY DEF Core, DownIsDown, ProfilesOnTheWay, WaitsForPhone, Asking
<1>2. KrdChanges /\ Asks /\ KrServed
  BY DEF KrdChanges, Asks, KrServed, Served, Asking
<1> QED BY <1>1, <1>2 DEF Core, Upkeep

LEMMA CoreScan ==
  ASSUME Core, Scan
  PROVE  Core' /\ Upkeep
<1>1. Types'
  BY TypesScan DEF Core
<1> QED BY <1>1, CoreSame DEF Scan

(* A save that finds the pairing in the file leaves the file alone.        *)
LEMMA SaveKeeps ==
  ASSUME NEW p \in Pairings, NEW files \in [{"pairing", "old", "new", "me", "pub"} -> Stored],
         files.pairing = disk.pairing, SavePairing(p, files), ~late'
  PROVE  disk' = files
<1>1. disk.pairing = p /\ disk' = [files EXCEPT !.pairing = p]
  BY DEF SavePairing
<1> QED BY <1>1

LEMMA CoreSaveScanned ==
  ASSUME Core, NEW p \in Pairings, SaveScanned(p), ~late'
  PROVE  Core' /\ Upkeep
<1>1. Types'
  BY TypesSaveScanned DEF Core
<1>2. disk \in [{"pairing", "old", "new", "me", "pub"} -> Stored] /\ SavePairing(p, disk)
  BY DEF Core, Types, ServerTypes, SaveScanned
<1>3. disk' = disk
  BY <1>2, SaveKeeps
<1> QED BY <1>1, <1>3, CoreSame DEF SaveScanned, phoneVars

LEMMA CoreAcknowledge ==
  ASSUME Core, Acknowledge, ~late'
  PROVE  Core' /\ Upkeep
<1>1. Types'
  BY TypesAcknowledge DEF Core
<1>2. /\ disk \in [{"pairing", "old", "new", "me", "pub"} -> Stored]
      /\ krd.pairing \in Pairings /\ SavePairing(krd.pairing, disk)
  BY DEF Core, Types, ServerTypes, Acknowledge
<1>3. disk' = disk
  BY <1>2, SaveKeeps
<1> QED BY <1>1, <1>3, CoreSame DEF Acknowledge, phoneVars

LEMMA ReplyKeeps ==
  ASSUME Core, NEW c \in Callers, NEW status \in Statuses,
         NEW body \in Stored \cup GitSignResponses, Reply(c, status, body),
         Types', krd'.up = krd.up, krd'.pairing = krd.pairing, krd.up
  PROVE  Core' /\ Asks
<1> USE DEF Core
<1>1. /\ call'[c].pc = "replied"
      /\ \A b \in Callers \ {c} : call'[b] = call[b]
  BY ReplyEffect DEF Types
<1>2. \A b \in Callers : Asking(b)' => Asking(b) /\ b # c
  BY <1>1 DEF Asking
<1>3. DownIsDown' /\ ProfilesOnTheWay' /\ WaitsForPhone'
  BY <1>1, <1>2 DEF DownIsDown, ProfilesOnTheWay, WaitsForPhone, Asking
<1> QED BY <1>2, <1>3 DEF Asks

LEMMA WaitingIsUp ==
  ASSUME Core, NEW c \in Callers, call[c].pc \in {"sent", "waiting"}
  PROVE  krd.up
BY DEF Core, DownIsDown

LEMMA CoreTimeOut ==
  ASSUME Core, NEW c \in Callers, TimeOut(c)
  PROVE  Core' /\ Upkeep
<1> DEFINE status == IF call[c].op = "getPair" \/ krd.pairing \notin scanned THEN 404 ELSE 500
<1>1. status \in Statuses /\ status # 200 /\ None \in Stored \cup GitSignResponses
  BY DEF Statuses, Stored
<1>2. Reply(c, status, None) /\ call[c].pc = "waiting" /\ UNCHANGED <<krd, disk, phoneVars>>
  BY DEF TimeOut
<1> HIDE DEF status
<1>3. /\ call'[c].pc = "replied" /\ call'[c].status = status
      /\ \A b \in Callers \ {c} : call'[b] = call[b]
  BY <1>1, <1>2, ReplyEffect DEF Core, Types
<1>4. Types'
  BY TypesTimeOut DEF Core
<1>5. Core' /\ Asks
  BY <1>1, <1>2, <1>4, ReplyKeeps, WaitingIsUp
<1>6. KrServed
  BY <1>1, <1>2, <1>3, KrCalls DEF KrServed, Served
<1> QED BY <1>2, <1>5, <1>6 DEF Upkeep, KrdChanges, phoneVars

LEMMA CoreAnswer ==
  ASSUME Core, NEW c \in Callers, NEW body \in GitSignResponses, Answer(c, body), ~late'
  PROVE  Core' /\ Upkeep
<1> USE DEF Core
<1> DEFINE p == call[c].pairing
           files == [disk EXCEPT !.me = p, !.pub = p]
           b == IF call[c].op = "gitSign" THEN body ELSE None
<1>1. /\ call[c].pc = "waiting" /\ UNCHANGED phoneVars /\ krd.up /\ 200 \in Statuses
      /\ p \in Pairings
  BY WaitingIsUp, AnswerCases DEF Types, Statuses
<1>2. Types'
  BY TypesAnswer
<1>3. CASE call[c].op \in {"me", "getPair"}
  <2>1. krd.pairing \in Pairings /\ p = krd.pairing /\ ~NoneAsking
    BY <1>1, <1>3 DEF ProfilesOnTheWay, Asking, NoneAsking
  <2>2. /\ files \in [{"pairing", "old", "new", "me", "pub"} -> Stored]
        /\ files.pairing = disk.pairing
    BY <1>1 DEF Types, ServerTypes, Stored
  <2>3. /\ krd' = [krd EXCEPT !.me = p] /\ Reply(c, 200, p)
        /\ disk' = files \/ SavePairing(p, files)
    BY <1>3, AnswerCases DEF Types
  <2>4. disk' = files
    <3> HIDE DEF files, p
    <3> QED BY <1>1, <2>2, <2>3, SaveKeeps
  <2>5. ProfileArrives /\ Reply(c, 200, krd.pairing) /\ krd.pairing \in Stored \cup GitSignResponses
    BY <1>1, <2>1, <2>3, <2>4 DEF ProfileArrives, Stored
  <2>6. /\ call'[c].pc = "replied" /\ call'[c].status = 200 /\ call'[c].body = krd.pairing
        /\ \A d \in Callers \ {c} : call'[d] = call[d]
    BY <1>1, <2>5, ReplyEffect DEF Types
  <2>7. krd'.up = krd.up /\ krd'.pairing = krd.pairing
    BY <2>3 DEF Types, ServerTypes
  <2>8. Core' /\ Asks
    BY <1>1, <1>2, <2>5, <2>7, ReplyKeeps
  <2>9. KrServed
    BY <1>1, <1>3, <2>1, <2>5, <2>6, KrCalls, PairingsOrNone DEF KrServed, Served
  <2> QED BY <1>1, <2>5, <2>8, <2>9 DEF Upkeep, KrdChanges, phoneVars
<1>4. CASE call[c].op \notin {"me", "getPair"}
  <2>1. /\ krd' = krd /\ Reply(c, 200, b)
        /\ disk' = disk \/ SavePairing(p, disk)
    BY <1>4, AnswerCases DEF Types
  <2>2. disk' = disk
    <3>1. disk \in [{"pairing", "old", "new", "me", "pub"} -> Stored]
      BY DEF Types, ServerTypes
    <3> HIDE DEF p
    <3> QED BY <1>1, <2>1, <3>1, SaveKeeps
  <2>3. b \in Stored \cup GitSignResponses
    BY DEF Stored
  <2> HIDE DEF b
  <2>4. /\ call'[c].pc = "replied" /\ call'[c].status = 200
        /\ \A d \in Callers \ {c} : call'[d] = call[d]
    BY <1>1, <2>1, <2>3, ReplyEffect DEF Types
  <2>5. Core' /\ Asks
    BY <1>1, <1>2, <2>1, <2>3, ReplyKeeps
  <2>6. KrServed
    BY <1>1, <1>4, <2>4, KrCalls DEF KrServed, Served, WaitsForPhone
  <2> QED BY <1>1, <2>1, <2>2, <2>5, <2>6 DEF Upkeep, KrdChanges, phoneVars
<1> QED BY <1>3, <1>4

(* krd serves a call that leaves its pairing alone.                        *)
LEMMA CoreReply ==
  ASSUME Core, NEW c \in Callers, NEW status \in Statuses, NEW body \in Stored,
         call[c].pc = "sent", Reply(c, status, body), UNCHANGED <<krd, disk, phoneVars>>, Types',
         status = 200 => call[c].op = "me" /\ body = krd.me /\ body # None
  PROVE  Core' /\ Upkeep
<1>1. krd.up /\ body \in Stored \cup GitSignResponses
  BY WaitingIsUp
<1>2. /\ call'[c].pc = "replied" /\ call'[c].status = status /\ call'[c].body = body
      /\ \A b \in Callers \ {c} : call'[b] = call[b]
  BY <1>1, ReplyEffect DEF Core, Types
<1>3. Core' /\ Asks
  BY <1>1, ReplyKeeps
<1>4. KrServed
  BY <1>1, <1>2, KrCalls DEF KrServed, Served
<1> QED BY <1>3, <1>4 DEF Upkeep, KrdChanges, phoneVars

LEMMA CoreTryRequest ==
  ASSUME Core, NEW c \in Callers, call[c].pc = "sent", TryRequest(c),
         UNCHANGED <<krd, disk, phoneVars>>, Types',
         call[c].op \in {"me", "getPair", "hosts", "gitSign"},
         call[c].op = "me" => krd.me = None, call[c].op = "getPair" => c = Kr
  PROVE  Core' /\ Upkeep
<1> USE DEF Core
<1>1. CASE krd.pairing = None
  <2>1. Reply(c, 404, None) /\ 404 \in Statuses /\ None \in Stored /\ 404 # 200
    BY <1>1 DEF TryRequest, Statuses, Stored
  <2> QED BY <2>1, CoreReply
<1>2. CASE krd.pairing # None
  <2> DEFINE r == [call[c] EXCEPT !.pc = "waiting", !.pairing = krd.pairing]
  <2>1. krd.up /\ krd.pairing \in Pairings /\ krd.pairing \in Stored /\ call[c] \in CallState
    BY <1>2, WaitingIsUp DEF Types, ServerTypes, Stored
  <2>2. /\ r.pc = "waiting" /\ r.op = call[c].op
        /\ r.pairing = krd.pairing /\ r.status = call[c].status
    BY <2>1 DEF CallState
  <2>3. call' = [call EXCEPT ![c] = r]
    BY <1>2, <2>1 DEF TryRequest, Types, ServerTypes, CallState
  <2> HIDE DEF r
  <2>4. /\ call'[c] = r
        /\ \A b \in Callers \ {c} : call'[b] = call[b]
    BY <2>2, <2>3 DEF Types, ServerTypes
  <2>5. \A b \in Callers \ {c} : Asking(b)' <=> Asking(b)
    BY <2>4 DEF Asking
  <2>6. DownIsDown' /\ WaitsForPhone'
    BY <2>1, <2>2, <2>4 DEF DownIsDown, WaitsForPhone
  <2>7. ProfilesOnTheWay'
    BY <2>1, <2>2, <2>4, <2>5 DEF ProfilesOnTheWay
  <2>8. Asks
    BY <1>2, <2>1, <2>2, <2>4, <2>5 DEF Asks, Asking, Refreshing
  <2>9. KrServed
    BY <2>2, <2>4, KrCalls DEF KrServed, Served
  <2> QED BY <2>6, <2>7, <2>8, <2>9 DEF Upkeep, KrdChanges, phoneVars
<1> QED BY <1>1, <1>2

LEMMA CoreServe ==
  ASSUME Core, CallsByStep, NEW c \in Callers, Serve(c),
         call[c].op \notin {"putOld", "putNew", "delete"}
  PROVE  Core' /\ Upkeep
<1>1. call[c].pc = "sent" /\ UNCHANGED <<scanned, forgotten>> /\ Types'
  BY TypesServe DEF Serve, Core
<1>2. \A p \in {"old", "new"} : ~HandlePutPair(c, p)
  BY DEF HandlePutPair
<1>3. ~HandleDeletePair(c)
  BY DEF HandleDeletePair
<1>4. CASE HandleGetPair(c)
  <2>1. call[c].op = "getPair" /\ TryRequest(c) /\ UNCHANGED <<krd, disk, phoneVars>>
    BY <1>1, <1>4 DEF HandleGetPair, phoneVars
  <2>2. c = Kr
    BY <2>1 DEF CallsByStep
  <2> QED BY <1>1, <2>1, <2>2, CoreTryRequest
<1>5. CASE HandleEnclaveMe(c)
  <2>1. call[c].op = "me" /\ UNCHANGED <<krd, disk, phoneVars>>
    BY <1>1, <1>5 DEF HandleEnclaveMe, phoneVars
  <2>2. CASE krd.me # None
    <3>1. Reply(c, 200, krd.me) /\ 200 \in Statuses /\ krd.me \in Stored
      BY <1>5, <2>2 DEF HandleEnclaveMe, Statuses, Core, Types, ServerTypes
    <3> QED BY <1>1, <2>1, <2>2, <3>1, CoreReply
  <2>3. CASE krd.me = None /\ krd.pairing \notin scanned
    <3>1. Reply(c, 404, None) /\ 404 \in Statuses /\ None \in Stored /\ 404 # 200
      BY <1>5, <2>3 DEF HandleEnclaveMe, Statuses, Stored
    <3> QED BY <1>1, <2>1, <3>1, CoreReply
  <2>4. CASE krd.me = None /\ krd.pairing \in scanned
    <3>1. TryRequest(c)
      BY <1>5, <2>4 DEF HandleEnclaveMe
    <3> QED BY <1>1, <2>1, <2>4, <3>1, CoreTryRequest
  <2> QED BY <2>2, <2>3, <2>4
<1>6. CASE HandleEnclaveGeneric(c)
  <2>1. call[c].op \in {"hosts", "gitSign"} /\ TryRequest(c) /\ UNCHANGED <<krd, disk, phoneVars>>
    BY <1>1, <1>6 DEF HandleEnclaveGeneric, phoneVars
  <2> QED BY <1>1, <2>1, CoreTryRequest
<1> QED BY <1>2, <1>3, <1>4, <1>5, <1>6 DEF Serve

(* krd serves a call that changes its pairing while nobody waits for a     *)
(* profile.                                                                *)
LEMMA CorePairing ==
  ASSUME Core, NoneAsking, NEW c \in Callers, call[c].pc = "sent", Reply(c, 200, None),
         Types', krd'.up = krd.up
  PROVE  /\ Core' /\ NoneAsking'
         /\ call'[c].pc = "replied" /\ call'[c].status = 200 /\ call'[c].op = call[c].op
         /\ \A b \in Callers \ {c} : call'[b] = call[b]
<1> USE DEF Core
<1>1. krd.up /\ 200 \in Statuses /\ None \in Stored \cup GitSignResponses
  BY WaitingIsUp DEF Statuses, Stored
<1>2. /\ call'[c].pc = "replied" /\ call'[c].status = 200 /\ call'[c].op = call[c].op
      /\ \A b \in Callers \ {c} : call'[b] = call[b]
  BY <1>1, ReplyEffect DEF Types
<1>3. NoneAsking'
  BY <1>2 DEF NoneAsking, Asking
<1>4. DownIsDown' /\ ProfilesOnTheWay' /\ WaitsForPhone'
  BY <1>1, <1>2, <1>3 DEF DownIsDown, ProfilesOnTheWay, WaitsForPhone, NoneAsking
<1> QED BY <1>2, <1>3, <1>4

LEMMA CorePut ==
  ASSUME Core, NoneAsking, NEW c \in Callers, Serve(c), NEW p \in {"old", "new"},
         call[c].op = (IF p = "old" THEN "putOld" ELSE "putNew")
  PROVE  /\ Core' /\ NoneAsking' /\ UNCHANGED <<scanned, forgotten>> /\ unpaired' = Told
         /\ call'[c].pc = "replied" /\ call'[c].status = 200 /\ call'[c].op = call[c].op
         /\ \A b \in Callers \ {c} : call'[b] = call[b]
         /\ krd.up /\ krd'.up /\ krd'.pairing = p
         /\ krd'.me = IF krd.pairing = None THEN krd.me ELSE None
         /\ disk'.pairing = p /\ disk'.old = disk.old /\ disk'.new = disk.new /\ disk'.me = None
<1>1. HandlePutPair(c, p) /\ call[c].pc = "sent" /\ UNCHANGED <<scanned, forgotten>>
  BY DEF Serve, HandlePutPair, HandleDeletePair, HandleGetPair, HandleEnclaveMe, HandleEnclaveGeneric
<1>2. krd.up /\ p \in Stored
  BY <1>1, WaitingIsUp DEF Stored, Pairings
<1>3. /\ krd'.up = krd.up /\ krd'.pairing = p
      /\ krd'.me = IF krd.pairing = None THEN krd.me ELSE None
  BY <1>1, <1>2 DEF HandlePutPair, Core, Types, ServerTypes, Stored
<1>4. disk'.pairing = p /\ disk'.old = disk.old /\ disk'.new = disk.new /\ disk'.me = None
  BY <1>1, <1>2 DEF HandlePutPair, Core, Types, ServerTypes, Stored
<1>5. Reply(c, 200, None) /\ unpaired' = Told /\ Types'
  BY <1>1, TypesServe DEF HandlePutPair, Core
<1> QED BY <1>1, <1>2, <1>3, <1>4, <1>5, CorePairing

LEMMA CoreDelete ==
  ASSUME Core, NoneAsking, NEW c \in Callers, Serve(c), call[c].op = "delete"
  PROVE  /\ Core' /\ NoneAsking' /\ UNCHANGED <<scanned, forgotten>> /\ unpaired' = Told
         /\ call'[c].pc = "replied" /\ call'[c].status = 200 /\ call'[c].op = call[c].op
         /\ \A b \in Callers \ {c} : call'[b] = call[b]
         /\ krd.up /\ krd'.up
         /\ disk'.old = disk.old /\ disk'.new = disk.new
         /\ krd.pairing = None => UNCHANGED <<krd, disk>>
         /\ krd.pairing # None => /\ krd'.pairing = None /\ krd'.me = None
                                  /\ disk'.pairing = None /\ disk'.me = None
<1>1. HandleDeletePair(c) /\ call[c].pc = "sent" /\ UNCHANGED <<scanned, forgotten>>
  BY DEF Serve, HandlePutPair, HandleDeletePair, HandleGetPair, HandleEnclaveMe, HandleEnclaveGeneric
<1>2. krd.up
  BY <1>1, WaitingIsUp
<1>3. /\ krd'.up = krd.up
      /\ krd.pairing = None => UNCHANGED krd
      /\ krd.pairing # None => krd'.pairing = None /\ krd'.me = None
  BY <1>1, <1>2 DEF HandleDeletePair, Core, Types, ServerTypes, Stored
<1>4. /\ disk'.old = disk.old /\ disk'.new = disk.new
      /\ krd.pairing = None => UNCHANGED disk
      /\ krd.pairing # None => disk'.pairing = None /\ disk'.me = None
  BY <1>1, <1>2, ZenonT(60) DEF HandleDeletePair, Core, Types, ServerTypes, Stored
<1>5. Reply(c, 200, None) /\ unpaired' = Told /\ Types'
  BY <1>1, TypesServe DEF HandleDeletePair, Core
<1> QED BY <1>1, <1>2, <1>3, <1>4, <1>5, CorePairing

-----------------------------------------------------------------------------
(* What kr transfer relies on stands whatever krd and its other users do.  *)

LEMMA UpkeepFiles ==
  ASSUME Core, Upkeep
  PROVE  /\ disk'.pairing = disk.pairing /\ disk'.old = disk.old /\ disk'.new = disk.new
         /\ disk'.me = disk.me \/ ProfileArrives
         /\ unpaired' = unpaired /\ forgotten' = forgotten
<1> USE DEF Core, Types
<1>1. CASE UNCHANGED <<krd, disk>> \/ (krd' = Down /\ UNCHANGED disk)
  BY <1>1 DEF Upkeep
<1>2. CASE Start
  BY <1>2, StartKeeps DEF Upkeep
<1>3. CASE ProfileArrives
  BY <1>3 DEF ProfileArrives, ServerTypes, Upkeep
<1> QED BY <1>1, <1>2, <1>3 DEF Upkeep, KrdChanges

LEMMA UpkeepPairingLoaded ==
  ASSUME Core, Upkeep, PairingLoaded
  PROVE  PairingLoaded'
<1> USE DEF Core, Types, PairingLoaded
<1>1. CASE UNCHANGED <<krd, disk>> \/ (krd' = Down /\ UNCHANGED disk)
  BY <1>1 DEF Down
<1>2. CASE Start
  BY <1>2, StartKeeps
<1>3. CASE ProfileArrives
  BY <1>3, UpkeepFiles DEF ProfileArrives, ServerTypes
<1> QED BY <1>1, <1>2, <1>3 DEF Upkeep, KrdChanges

LEMMA UpkeepProfileLoaded ==
  ASSUME Core, Upkeep, ProfileLoaded
  PROVE  ProfileLoaded'
<1> USE DEF Core, Types, ProfileLoaded
<1>1. CASE UNCHANGED <<krd, disk>> \/ (krd' = Down /\ UNCHANGED disk)
  BY <1>1 DEF Down
<1>2. CASE Start
  BY <1>2, StartKeeps
<1>3. CASE ProfileArrives
  BY <1>3 DEF ProfileArrives, ServerTypes
<1> QED BY <1>1, <1>2, <1>3 DEF Upkeep, KrdChanges

(* With a profile in krd only kr itself has it ask the phone.              *)
LEMMA UpkeepNoneAsking ==
  ASSUME Core, Upkeep, NoneAsking, ~Refreshing(Kr),
         krd.up => krd.me # None \/ krd.pairing = None
  PROVE  NoneAsking' /\ disk'.me = disk.me
<1>1. NoneAsking'
  BY DEF Upkeep, Asks, NoneAsking, Refreshing
<1>2. disk'.me = disk.me
  BY UpkeepFiles DEF ProfileArrives
<1> QED BY <1>1, <1>2

LEMMA UpkeepQuiet ==
  ASSUME Core, Upkeep, Quiet, ~Refreshing(Kr)
  PROVE  Quiet' /\ disk'.me = disk.me
<1> USE DEF Core, Types
<1>1. NoneAsking' /\ disk'.me = disk.me
  BY UpkeepNoneAsking DEF Quiet
<1>2. krd'.up => krd'.me # None
  <2>1. CASE UNCHANGED <<krd, disk>> \/ (krd' = Down /\ UNCHANGED disk)
    BY <2>1 DEF Down, Quiet
  <2>2. CASE Start
    BY <2>2, StartKeeps DEF Quiet
  <2>3. CASE ProfileArrives
    BY <2>3 DEF ProfileArrives, Quiet
  <2> QED BY <2>1, <2>2, <2>3 DEF Upkeep, KrdChanges
<1> QED BY <1>1, <1>2 DEF Quiet

LEMMA UpkeepBefore ==
  ASSUME Core, Upkeep, Before, ~Refreshing(Kr)
  PROVE  Before'
<1>1. krd.up => krd.me # None \/ krd.pairing = None
  BY PairingsOrNone DEF Before, PairingLoaded, ProfileLoaded
<1>2. NoneAsking' /\ disk'.me = disk.me
  BY <1>1, UpkeepNoneAsking DEF Before
<1>3. PairingLoaded' /\ ProfileLoaded'
  BY UpkeepPairingLoaded, UpkeepProfileLoaded DEF Before
<1> QED BY <1>2, <1>3, UpkeepFiles DEF Before

LEMMA UpkeepWithOld ==
  ASSUME Core, Upkeep, WithOld
  PROVE  WithOld'
<1> USE DEF Core, Types
<1>1. disk'.me \in {None, "old"} /\ krd'.me \in {None, "old"}
  <2>1. CASE UNCHANGED <<krd, disk>> \/ (krd' = Down /\ UNCHANGED disk)
    BY <2>1 DEF Down, WithOld
  <2>2. CASE Start
    BY <2>2, StartKeeps DEF WithOld
  <2>3. CASE ProfileArrives
    BY <2>3 DEF ProfileArrives, WithOld, OnDisk, PairingLoaded, ServerTypes
  <2> QED BY <2>1, <2>2, <2>3 DEF Upkeep, KrdChanges
<1> QED BY <1>1, UpkeepFiles, UpkeepPairingLoaded DEF WithOld, OnDisk

LEMMA UpkeepBetween ==
  ASSUME Core, Upkeep, Between
  PROVE  Between'
BY UpkeepFiles, UpkeepPairingLoaded DEF Between, OnDisk

LEMMA UpkeepWithNew ==
  ASSUME Core, Upkeep, WithNew
  PROVE  WithNew' /\ (ProfileArrives => NewKnown')
<1>1. WithNew'
  BY UpkeepFiles, UpkeepPairingLoaded DEF WithNew, OnDisk
<1>2. ProfileArrives => disk'.me = "new" /\ krd'.me = "new"
  BY DEF ProfileArrives, WithNew, OnDisk, PairingLoaded, Core, Types, ServerTypes
<1> QED BY <1>1, <1>2 DEF NewKnown, ProfileLoaded

LEMMA UpkeepNewKnown ==
  ASSUME Core, Upkeep, NewKnown
  PROVE  NewKnown'
<1>1. WithNew' /\ (ProfileArrives => NewKnown')
  BY UpkeepWithNew DEF NewKnown
<1>2. disk'.me = disk.me \/ ProfileArrives
  BY UpkeepFiles
<1>3. ProfileLoaded'
  BY UpkeepProfileLoaded DEF NewKnown
<1> QED BY <1>1, <1>2, <1>3 DEF NewKnown

LEMMA UpkeepBackOnOld ==
  ASSUME Core, Upkeep, BackOnOld, ~Refreshing(Kr)
  PROVE  BackOnOld'
BY UpkeepFiles, UpkeepQuiet, UpkeepPairingLoaded, UpkeepProfileLoaded DEF BackOnOld, OnDisk

LEMMA UpkeepOnNew ==
  ASSUME Core, Upkeep, OnNew
  PROVE  OnNew' /\ (disk.pub = "new" => disk'.pub = "new")
<1> USE DEF Core, Types
<1>1. PairingLoaded' /\ ProfileLoaded'
  BY UpkeepPairingLoaded, UpkeepProfileLoaded DEF OnNew
<1>2. /\ disk'.pairing = disk.pairing /\ disk'.old = disk.old /\ disk'.new = disk.new
  BY UpkeepFiles
<1>3. disk'.me = "new" /\ (disk.pub = "new" => disk'.pub = "new")
  <2>1. CASE UNCHANGED <<krd, disk>> \/ (krd' = Down /\ UNCHANGED disk)
    BY <2>1 DEF OnNew
  <2>2. CASE Start
    BY <2>2, StartKeeps, PairingsOrNone DEF OnNew
  <2>3. CASE ProfileArrives
    BY <2>3 DEF ProfileArrives, OnNew, OnDisk, PairingLoaded, ServerTypes
  <2> QED BY <2>1, <2>2, <2>3 DEF Upkeep, KrdChanges
<1> QED BY <1>1, <1>2, <1>3 DEF OnNew, OnDisk

LEMMA UpkeepAllKept ==
  ASSUME Core, Upkeep, AllKept,
         disk.pairing = "new" /\ transfer.left = <<>> => transfer'.left = <<>>
  PROVE  AllKept'
<1> USE DEF Core, Types
<1>1. krd'.pairing \in {krd.pairing, disk.pairing, None}
  <2>1. CASE UNCHANGED <<krd, disk>> \/ (krd' = Down /\ UNCHANGED disk)
    BY <2>1 DEF Down
  <2>2. CASE Start
    BY <2>2, StartKeeps
  <2>3. CASE ProfileArrives
    BY <2>3 DEF ProfileArrives, ServerTypes
  <2> QED BY <2>1, <2>2, <2>3 DEF Upkeep, KrdChanges
<1>2. \A p \in Pairings : Kept(p) => Kept(p)'
  BY UpkeepFiles DEF Kept
<1>3. Kept(disk.pairing)
  BY DEF Kept
<1>4. krd'.pairing = "prior" => disk'.pairing = "prior"
  BY <1>1, UpkeepFiles, PairingsOrNone DEF AllKept
<1> QED BY <1>1, <1>2, <1>3, <1>4, PairingsOrNone DEF AllKept, Upkeep

(* The call that kr has under way is the one of the step it is at.         *)
LEMMA KrCallAtStep ==
  ASSUME CallsByStep, NEW k \in 1..27, todo[Kr] = Rest(k)
  PROVE  /\ call[Kr].pc # "idle" => call[Kr].op = TransferAuthorityMain[k]
         /\ Refreshing(Kr) => k \in {2, 11}
<1>1. ~At(Kr, "refresh")
  BY StepAt, StepsByName
<1>2. call[Kr].pc # "idle" => call[Kr].op = TransferAuthorityMain[k]
  BY <1>1, StepAt DEF CallsByStep
<1>3. Refreshing(Kr) => k \in {2, 11}
  BY <1>2, StepsByName DEF Refreshing
<1> QED BY <1>2, <1>3

LEMMA UpkeepAtStep ==
  ASSUME Core, CallsByStep, Upkeep, NEW k \in 1..27, todo[Kr] = Rest(k), AtStep(k),
         transfer'.left = transfer.left
  PROVE  AtStep(k)'
<1> DEFINE step == TransferAuthorityMain[k]
<1>1. Refreshing(Kr) => k \in {2, 11}
  BY KrCallAtStep
<1>2. Served' /\ ~Served => /\ step \in {"me", "getPair", "hosts", "gitSign"}
                            /\ step = "getPair" => ProfileArrives
  BY KrCallAtStep DEF Upkeep, KrServed
<1>3. k \in {1, 10} => (Served' <=> Served)
  BY <1>2, MainSteps DEF Upkeep, KrServed
<1>4. k = 11 /\ Served' => Served \/ ProfileArrives
  BY <1>2, MainSteps
<1> HIDE DEF step
<1> USE DEF AtStep
<1>5. k = 1 => IF Served' THEN WithOld' ELSE Before'
  BY <1>1, <1>3, UpkeepWithOld, UpkeepBefore
<1>6. k \in 2..7 => WithOld'
  BY UpkeepWithOld
<1>7. k = 8 => OnDisk(None, "old", None)'
  BY UpkeepFiles DEF OnDisk
<1>8. k = 9 => Between'
  BY UpkeepBetween
<1>9. k = 10 => IF Served' THEN WithNew' ELSE Between'
  BY <1>3, UpkeepWithNew, UpkeepBetween
<1>10. k = 11 => WithNew' /\ (Served' => NewKnown')
  BY <1>4, UpkeepWithNew, UpkeepNewKnown
<1>11. k \in 12..13 => NewKnown'
  BY UpkeepNewKnown
<1>12. k = 14 => NewKnown' /\ NoneAsking'
  <2> SUFFICES ASSUME k = 14 PROVE NewKnown' /\ NoneAsking'
    OBVIOUS
  <2>1. krd.up => krd.me # None
    BY PairingsOrNone DEF NewKnown, ProfileLoaded
  <2> QED BY <1>1, <2>1, UpkeepNewKnown, UpkeepNoneAsking
<1>13. k = 15 => OnDisk(None, "old", "new")' /\ Quiet'
  BY <1>1, UpkeepFiles, UpkeepQuiet DEF OnDisk
<1>14. k = 16 => OnDisk("old", None, "new")' /\ Quiet'
  BY <1>1, UpkeepFiles, UpkeepQuiet DEF OnDisk
<1>15. k = 17 => OnDisk("old", None, "new")' /\ Quiet' /\ disk'.me = "old"
  BY <1>1, UpkeepFiles, UpkeepQuiet DEF OnDisk
<1>16. k \in 18..22 => BackOnOld'
  BY <1>1, UpkeepBackOnOld
<1>17. k \in 21..24 => transfer'.left = <<>>
  OBVIOUS
<1>18. k = 23 => OnDisk("new", None, None)' /\ Quiet'
  BY <1>1, UpkeepFiles, UpkeepQuiet DEF OnDisk
<1>19. k = 24 => OnDisk("new", None, None)' /\ Quiet' /\ disk'.me = "new"
  BY <1>1, UpkeepFiles, UpkeepQuiet DEF OnDisk
<1>20. k \in 25..26 => OnNew'
  BY UpkeepOnNew
<1>21. k = 27 => OnNew' /\ disk'.pub = "new"
  BY UpkeepOnNew
<1> QED BY <1>5, <1>6, <1>7, <1>8, <1>9, <1>10, <1>11, <1>12, <1>13, <1>14, <1>15, <1>16, <1>17,
           <1>18, <1>19, <1>20, <1>21

LEMMA AtLast == AtStep(27) <=> OnNew /\ disk.pub = "new"
BY DEF AtStep

LEMMA UpkeepLast ==
  ASSUME Core, Upkeep, AtStep(27)
  PROVE  AtStep(27)'
<1>1. OnNew' /\ disk'.pub = "new"
  BY AtLast, UpkeepOnNew
<1> QED BY <1>1 DEF AtStep

LEMMA UpkeepTransfer ==
  ASSUME Inv, Core', Upkeep, UNCHANGED <<todo, transfer>>
  PROVE  TransferInv'
<1> USE DEF Inv, TransferInv
<1>1. Core /\ CallsByStep
  BY DEF ServerInv, Core, Types
<1>2. KrTypes' /\ MovedFiles'
  BY <1>1, UpkeepFiles DEF KrTypes, MovedFiles
<1>3. AllKept' /\ unpaired' \subseteq {"prior"}
  BY <1>1, UpkeepAllKept, UpkeepFiles
<1>4. CASE transfer.ended = "not"
  <2>1. CASE todo[Kr] \in {<<>>, <<"delete">>} /\ Before
    <3>1. ~At(Kr, "getPair") /\ ~At(Kr, "refresh")
      BY <2>1 DEF At
    <3>2. ~Refreshing(Kr)
      BY <1>1, <3>1 DEF CallsByStep, Refreshing
    <3> QED BY <1>1, <1>2, <1>3, <1>4, <2>1, <3>2, UpkeepBefore DEF Running
  <2>2. ASSUME NEW k \in 1..27, todo[Kr] = Rest(k), AtStep(k)
        PROVE  Running'
    <3>1. AtStep(k)'
      BY <1>1, <2>2, UpkeepAtStep
    <3> QED BY <2>2, <3>1 DEF Running
  <2>3. CASE todo[Kr] = <<"refresh">> \o Rest(27) /\ AtStep(27)
    <3>1. AtStep(27)'
      BY <1>1, <2>3, UpkeepLast
    <3> QED BY <1>2, <1>3, <1>4, <2>3, <3>1 DEF Running
  <2> QED BY <1>2, <1>3, <1>4, <2>1, <2>2, <2>3 DEF Running
<1>5. CASE transfer.ended # "not"
  <2>1. Over'
    BY <1>1, <1>5, UpkeepLast DEF Over
  <2> QED BY <1>2, <1>3, <1>5, <2>1
<1> QED BY <1>4, <1>5

LEMMA InvUpkeep ==
  ASSUME Inv, Core', Upkeep, UNCHANGED <<todo, transfer>>, CallsByStep'
  PROVE  Inv'
BY UpkeepTransfer DEF Inv, ServerInv, Core, Types

LEMMA InvTimeOut ==
  ASSUME Inv, NEW c \in Callers, TimeOut(c), UNCHANGED <<todo, transfer>>
  PROVE  Inv'
<1>1. Core /\ CallsByStep /\ ServerTypes
  BY DEF Inv, ServerInv, Core, Types
<1>2. Core' /\ Upkeep
  BY <1>1, CoreTimeOut
<1>3. SameCalls
  BY <1>1, ReplySameCalls DEF TimeOut
<1> QED BY <1>1, <1>2, <1>3, SameCallsByStep, InvUpkeep

LEMMA InvAnswer ==
  ASSUME Inv, NEW c \in Callers, NEW body \in GitSignResponses, Answer(c, body), ~late',
         UNCHANGED <<todo, transfer>>
  PROVE  Inv'
<1>1. Core /\ CallsByStep /\ ServerTypes
  BY DEF Inv, ServerInv, Core, Types
<1>2. Core' /\ Upkeep
  BY <1>1, CoreAnswer
<1>3. call[c].pc # "idle" /\ \E b : Reply(c, 200, b)
  BY <1>1, AnswerCases
<1>4. SameCalls
  BY <1>1, <1>3, ReplySameCalls
<1> QED BY <1>1, <1>2, <1>4, SameCallsByStep, InvUpkeep

(* The phone's key arrives, or a pairing is saved, and finds it saved.     *)
LEMMA InvSaved ==
  ASSUME Inv, Scan \/ (\E p \in Pairings : SaveScanned(p)) \/ Acknowledge, ~late',
         UNCHANGED <<todo, transfer>>
  PROVE  Inv'
<1>1. Core /\ CallsByStep
  BY DEF Inv, ServerInv
<1>2. Core' /\ Upkeep
  BY <1>1, CoreScan, CoreSaveScanned, CoreAcknowledge
<1>3. SameCalls
  BY DEF SameCalls, Scan, SaveScanned, Acknowledge
<1> QED BY <1>1, <1>2, <1>3, SameCallsByStep, InvUpkeep

LEMMA InvAtStep ==
  ASSUME Core', CallsByStep', KrTypes', MovedFiles', AllKept', unpaired' \subseteq {"prior"},
         transfer'.ended = "not", NEW k \in 1..27, todo'[Kr] = Rest(k), AtStep(k)'
  PROVE  Inv'
<1>1. Running'
  BY DEF Running
<1> QED BY <1>1 DEF Inv, ServerInv, TransferInv

(* The phone of the pairing there was unpairs, which no other pairing of   *)
(* an undisturbed transfer does: kr is not past its first step.            *)
LEMMA PriorIsBefore ==
  ASSUME Inv, disk.pairing = "prior"
  PROVE  /\ ~AtStep(27)
         /\ transfer.ended = "not" => Before /\ ~(todo[Kr] = Rest(1) /\ Served)
         /\ transfer.ended = "not" => \/ todo[Kr] \in {<<>>, <<"delete">>}
                                     \/ todo[Kr] = Rest(1)
<1>1. ASSUME NEW k \in 1..27, AtStep(k)
      PROVE  k = 1 /\ ~Served /\ Before
  <2>1. ~WithOld /\ ~WithNew /\ ~NewKnown /\ ~BackOnOld /\ ~OnNew /\ ~Between
    BY PairingsOrNone DEF WithOld, WithNew, NewKnown, BackOnOld, OnNew, Between, OnDisk
  <2>2. \A o, n : ~OnDisk("old", o, n) /\ ~OnDisk("new", o, n) /\ ~OnDisk(None, o, n)
    BY PairingsOrNone DEF OnDisk
  <2>3. k \notin 2..27
    <3>1. /\ k \notin 2..7 /\ k # 8 /\ k # 9 /\ k # 10 /\ k # 11 /\ k \notin 12..13 /\ k # 14
      BY <1>1, <2>1, <2>2 DEF AtStep
    <3>2. /\ k # 15 /\ k # 16 /\ k # 17 /\ k \notin 18..22 /\ k # 23 /\ k # 24
          /\ k \notin 25..26 /\ k # 27
      BY <1>1, <2>1, <2>2 DEF AtStep
    <3> QED BY <3>1, <3>2
  <2>4. k = 1
    BY <2>3
  <2> QED BY <1>1, <2>1, <2>4 DEF AtStep
<1>2. ~AtStep(27)
  BY <1>1
<1>3. ASSUME transfer.ended = "not"
      PROVE  /\ Before /\ ~(todo[Kr] = Rest(1) /\ Served)
             /\ todo[Kr] \in {<<>>, <<"delete">>} \/ todo[Kr] = Rest(1)
  <2>1. Running
    BY <1>3 DEF Inv, TransferInv
  <2>2. CASE todo[Kr] \in {<<>>, <<"delete">>} /\ Before
    <3>1. Rest(1) # <<>> /\ Rest(1) # <<"delete">>
      <4>1. 1 \in 1..27
        OBVIOUS
      <4> QED BY <4>1, RestInjective, Zenon
    <3> QED BY <2>2, <3>1
  <2>3. CASE \E k \in 1..27 : todo[Kr] = Rest(k) /\ AtStep(k)
    BY <1>1, <2>3
  <2> QED BY <1>2, <2>1, <2>2, <2>3 DEF Running
<1> QED BY <1>2, <1>3

LEMMA InvPhoneUnpairs ==
  ASSUME Inv, PhoneUnpairs, ~late', {"old", "new"} \cap forgotten' = {},
         UNCHANGED <<todo, transfer>>
  PROVE  Inv'
<1>1. Core /\ CallsByStep /\ Types'
  BY TypesPhoneUnpairs DEF Inv, ServerInv, Core
<1>2. krd.pairing = "prior" /\ disk.pairing = "prior"
  <2>1. krd.pairing = "prior"
    BY <1>1 DEF PhoneUnpairs, Core, Types, ServerTypes, Pairings
  <2> QED BY <2>1 DEF Inv, TransferInv, AllKept
<1>3. krd.up
  BY <1>1, <1>2, PairingsOrNone DEF Core, DownIsDown, Down
<1>4. krd'.up /\ krd'.pairing = None /\ krd'.me = None
  BY <1>1, <1>3 DEF PhoneUnpairs, Core, Types, ServerTypes
<1>5. disk'.pairing = None /\ disk'.me = None /\ disk'.old = disk.old /\ disk'.new = disk.new
  BY <1>1 DEF PhoneUnpairs, Core, Types, ServerTypes
<1>6. /\ \A c \in Callers : call'[c].op = call[c].op /\ call'[c].pc # "waiting"
      /\ \A c \in Callers : call[c].pc # "waiting" => call'[c] = call[c]
      /\ \A c \in Callers : call[c].pc = "waiting" => call'[c].status = 404 /\ call'[c].pc = "replied"
  BY <1>1, UnpairsCalls DEF Core
<1>7. NoneAsking'
  BY <1>6 DEF NoneAsking, Asking
<1>8. Core'
  <2>1. DownIsDown' /\ ProfilesOnTheWay'
    BY <1>4, <1>7 DEF DownIsDown, ProfilesOnTheWay, NoneAsking
  <2>2. WaitsForPhone'
    BY <1>1, <1>6 DEF Core, WaitsForPhone
  <2> QED BY <1>1, <2>1, <2>2 DEF Core
<1>9. CallsByStep' /\ (~Served => ~Served')
  <2>1. SameCalls
    BY <1>6, KrCalls DEF SameCalls
  <2>2. ~Served => ~Served'
    BY <1>6, KrCalls DEF Served
  <2> QED BY <1>1, <2>1, <2>2, SameCallsByStep
<1>10. "prior" \in forgotten' /\ forgotten \subseteq forgotten' /\ UNCHANGED <<scanned, unpaired>>
  BY <1>2 DEF PhoneUnpairs
<1>11. KrTypes' /\ MovedFiles' /\ unpaired' \subseteq {"prior"}
  BY <1>5, <1>10 DEF Inv, TransferInv, KrTypes, MovedFiles
<1>12. AllKept'
  <2>1. \A p \in Pairings \ (unpaired \cup forgotten') : p \in scanned => Kept(p) /\ p # "prior"
    BY <1>10 DEF Inv, TransferInv, AllKept
  <2>2. \A p \in Pairings : Kept(p) /\ p # "prior" => Kept(p)'
    BY <1>2, <1>5 DEF Kept
  <2> QED BY <1>4, <1>10, <2>1, <2>2, PairingsOrNone DEF AllKept
<1>13. Before => Before'
  BY <1>4, <1>5, <1>7, <1>10 DEF Before, PairingLoaded, ProfileLoaded
<1>14. CASE transfer.ended = "not"
  <2>1. /\ Before /\ ~(todo[Kr] = Rest(1) /\ Served)
        /\ todo[Kr] \in {<<>>, <<"delete">>} \/ todo[Kr] = Rest(1)
    BY <1>2, <1>14, PriorIsBefore
  <2>2. CASE todo[Kr] \in {<<>>, <<"delete">>}
    BY <1>8, <1>9, <1>11, <1>12, <1>13, <1>14, <2>1, <2>2 DEF Inv, ServerInv, TransferInv, Running
  <2>3. CASE todo[Kr] = Rest(1)
    <3>1. AtStep(1)' /\ 1 \in 1..27
      BY <1>9, <1>13, <2>1, <2>3 DEF AtStep
    <3> QED BY <1>8, <1>9, <1>11, <1>12, <1>14, <2>3, <3>1, InvAtStep
  <2> QED BY <2>1, <2>2, <2>3
<1>15. CASE transfer.ended # "not"
  <2>1. Over'
    BY <1>2, <1>15, PriorIsBefore DEF Inv, TransferInv, Over
  <2> QED BY <1>8, <1>9, <1>11, <1>12, <1>15, <2>1 DEF Inv, ServerInv, TransferInv
<1> QED BY <1>14, <1>15

LEMMA InvCrash ==
  ASSUME Inv, Crash, UNCHANGED <<todo, transfer>>
  PROVE  Inv'
<1>1. Core /\ CallsByStep /\ ServerTypes
  BY DEF Inv, ServerInv, Core, Types
<1>2. Core' /\ Upkeep
  BY <1>1, CoreKill DEF Crash
<1>3. SameCalls
  BY KillSameCalls DEF Crash, Inv, ServerInv, Core
<1> QED BY <1>1, <1>2, <1>3, SameCallsByStep, InvUpkeep

(* A program other than kr calls krd, or reads its answer.                 *)
LEMMA InvSend ==
  ASSUME Inv, NEW c \in Callers \ {Kr}, NEW op \in {"me", "gitSign"}, Send(c, op),
         UNCHANGED <<todo, transfer>>
  PROVE  Inv'
<1>1. Core /\ CallsByStep /\ ServerTypes /\ c \in Callers /\ op \in Ops
  BY DEF Inv, ServerInv, Core, Types, Ops
<1>2. Core' /\ Upkeep
  BY <1>1, CoreSend
<1>3. CallsByStep'
  BY <1>1, OtherSends DEF Core
<1> QED BY <1>2, <1>3, InvUpkeep

LEMMA InvHangUp ==
  ASSUME Inv, NEW c \in Callers \ {Kr}, HangUp(c), UNCHANGED <<todo, transfer>>
  PROVE  Inv'
<1>1. Core /\ CallsByStep /\ ServerTypes /\ c \in Callers
  BY DEF Inv, ServerInv, Core, Types
<1>2. Core' /\ Upkeep
  BY <1>1, CoreHangUp
<1>3. CallsByStep'
  BY <1>1, OtherSends DEF Core
<1> QED BY <1>2, <1>3, InvUpkeep

-----------------------------------------------------------------------------
(* krd serves the calls by which kr changes the pairing.                   *)

(* What kr is at, by its todo list.                                        *)
LEMMA KrAt ==
  ASSUME Inv, NEW step, At(Kr, step)
  PROVE  /\ transfer.ended = "not"
         /\ \/ step = "delete" /\ todo[Kr] = <<"delete">> /\ Before
            \/ \E k \in 1..27 : /\ todo[Kr] = Rest(k) /\ AtStep(k)
                                /\ step = TransferAuthorityMain[k]
            \/ step = "refresh" /\ todo[Kr] = <<"refresh">> \o Rest(27) /\ AtStep(27)
<1>1. todo[Kr] # <<>> /\ Head(todo[Kr]) = step
  BY DEF At
<1>2. transfer.ended = "not" /\ Running
  BY <1>1 DEF Inv, TransferInv, Over
<1>3. ASSUME NEW k \in 1..27, todo[Kr] = Rest(k), AtStep(k)
      PROVE  step = TransferAuthorityMain[k]
  BY <1>3, StepAt
<1>4. todo[Kr] = <<"delete">> => step = "delete"
  BY <1>1
<1>5. todo[Kr] = <<"refresh">> \o Rest(27) => step = "refresh"
  BY <1>1, RefreshSteps, Zenon
<1> QED BY <1>1, <1>2, <1>3, <1>4, <1>5 DEF Running

LEMMA PutOld ==
  ASSUME Inv, Serve(Kr), call[Kr].op = "putOld", UNCHANGED <<todo, transfer>>
  PROVE  Inv'
<1> USE DEF Inv
<1>1. Core /\ CallsByStep /\ call[Kr].pc = "sent" /\ At(Kr, "putOld")
  BY DEF ServerInv, Core, Types, CallsByStep, Serve
<1>2. transfer.ended = "not" /\ 1 \in 1..27 /\ todo[Kr] = Rest(1) /\ AtStep(1)
  <2>1. PICK k \in 1..27 : todo[Kr] = Rest(k) /\ AtStep(k) /\ TransferAuthorityMain[k] = "putOld"
    BY <1>1, KrAt
  <2>2. k = 1
    BY <2>1, StepsByName
  <2> QED BY <1>1, <2>1, <2>2, KrAt
<1>3. Before
  BY <1>1, <1>2 DEF AtStep, Served
<1>4. /\ Core' /\ UNCHANGED <<scanned, forgotten>> /\ unpaired' = Told
      /\ call'[Kr].pc = "replied" /\ call'[Kr].status = 200 /\ call'[Kr].op = call[Kr].op
      /\ \A b \in Callers \ {Kr} : call'[b] = call[b]
      /\ krd.up /\ krd'.up /\ krd'.pairing = "old"
      /\ krd'.me = IF krd.pairing = None THEN krd.me ELSE None
      /\ disk'.pairing = "old" /\ disk'.old = disk.old /\ disk'.new = disk.new /\ disk'.me = None
  BY <1>1, <1>3, KrCalls, CorePut DEF Before
<1>5. CallsByStep'
  BY <1>1, <1>4, SameCallsByStep DEF SameCalls
<1>6. WithOld' /\ Served'
  <2>1. krd'.me = None
    BY <1>3, <1>4, PairingsOrNone DEF Before, PairingLoaded, ProfileLoaded
  <2> QED BY <1>3, <1>4, <2>1 DEF Before, WithOld, OnDisk, PairingLoaded, Served
<1>7. AtStep(1)'
  BY <1>6 DEF AtStep
<1>8. KrTypes' /\ MovedFiles'
  BY <1>4 DEF TransferInv, KrTypes, MovedFiles
<1>9. unpaired' \subseteq {"prior"} /\ "prior" \in unpaired' \cup forgotten'
  <2>1. \/ krd.pairing = "prior"
        \/ krd.pairing = None /\ "prior" \in unpaired \cup forgotten
    BY <1>3, <1>4 DEF Before, PairingLoaded
  <2>2. unpaired \subseteq {"prior"}
    BY DEF TransferInv
  <2> QED BY <1>4, <2>1, <2>2, PairingsOrNone DEF Told
<1>10. AllKept'
  <2>1. \A p \in Pairings : p \in scanned => p \in {"prior"} \cup unpaired \cup forgotten
    BY <1>3, PairingsOrNone DEF TransferInv, AllKept, Kept, Before, Pairings
  <2>2. unpaired \subseteq unpaired' /\ forgotten' = forgotten
    BY <1>4 DEF Told
  <2>3. \A p \in Pairings \ (unpaired' \cup forgotten') :
           p \in scanned' \/ p = krd'.pairing => p = "old"
    BY <1>4, <1>9, <2>1, <2>2
  <2> QED BY <1>4, <2>3 DEF AllKept, Kept
<1> QED BY <1>2, <1>4, <1>5, <1>7, <1>8, <1>9, <1>10, InvAtStep

LEMMA PutNew ==
  ASSUME Inv, Serve(Kr), call[Kr].op = "putNew", UNCHANGED <<todo, transfer>>
  PROVE  Inv'
<1> USE DEF Inv
<1>1. Core /\ CallsByStep /\ call[Kr].pc = "sent" /\ At(Kr, "putNew")
  BY DEF ServerInv, Core, Types, CallsByStep, Serve
<1>2. transfer.ended = "not" /\ 10 \in 1..27 /\ todo[Kr] = Rest(10) /\ AtStep(10)
  <2>1. PICK k \in 1..27 : todo[Kr] = Rest(k) /\ AtStep(k) /\ TransferAuthorityMain[k] = "putNew"
    BY <1>1, KrAt
  <2>2. k = 10
    BY <2>1, StepsByName
  <2> QED BY <1>1, <2>1, <2>2, KrAt
<1>3. Between
  BY <1>1, <1>2 DEF AtStep, Served
<1>4. krd.up /\ krd.pairing = None
  BY <1>1, <1>3, KrCalls, WaitingIsUp DEF Between, OnDisk, PairingLoaded
<1>5. NoneAsking
  BY <1>1, <1>4, PairingsOrNone DEF Core, ProfilesOnTheWay, NoneAsking
<1>6. /\ Core' /\ UNCHANGED <<scanned, forgotten>> /\ unpaired' = Told
      /\ call'[Kr].pc = "replied" /\ call'[Kr].status = 200 /\ call'[Kr].op = call[Kr].op
      /\ \A b \in Callers \ {Kr} : call'[b] = call[b]
      /\ krd'.up /\ krd'.pairing = "new"
      /\ disk'.pairing = "new" /\ disk'.old = disk.old /\ disk'.new = disk.new
  <2>1. call[Kr].op = (IF "new" = "old" THEN "putOld" ELSE "putNew") /\ "new" \in {"old", "new"}
    OBVIOUS
  <2> QED BY <1>1, <1>5, <2>1, KrCalls, CorePut
<1>7. CallsByStep'
  BY <1>1, <1>6, SameCallsByStep DEF SameCalls
<1>8. WithNew' /\ Served'
  BY <1>3, <1>6 DEF Between, WithNew, OnDisk, PairingLoaded, Served
<1>9. AtStep(10)'
  BY <1>8 DEF AtStep
<1>10. KrTypes' /\ MovedFiles'
  BY <1>6 DEF TransferInv, KrTypes, MovedFiles
<1>11. unpaired' = unpaired
  BY <1>4, <1>6 DEF Told
<1>12. AllKept'
  <2>1. \A p \in Pairings \ (unpaired \cup forgotten) : p \in scanned => p = "old"
    BY <1>3, PairingsOrNone DEF TransferInv, AllKept, Kept, Between, OnDisk
  <2>2. disk'.old = "old"
    BY <1>3, <1>6 DEF Between, OnDisk
  <2> QED BY <1>6, <1>11, <2>1, <2>2 DEF AllKept, Kept
<1> QED BY <1>2, <1>6, <1>7, <1>9, <1>10, <1>11, <1>12, InvAtStep DEF TransferInv

LEMMA Delete ==
  ASSUME Inv, Serve(Kr), call[Kr].op = "delete", UNCHANGED <<todo, transfer>>
  PROVE  Inv'
<1> USE DEF Inv
<1>1. Core /\ CallsByStep /\ call[Kr].pc = "sent" /\ At(Kr, "delete")
  BY DEF ServerInv, Core, Types, CallsByStep, Serve
<1>2. transfer.ended = "not" /\ todo[Kr] = <<"delete">> /\ Before
  BY <1>1, KrAt, StepsByName
<1>3. /\ Core' /\ NoneAsking' /\ UNCHANGED <<scanned, forgotten>> /\ unpaired' = Told
      /\ call'[Kr].pc = "replied" /\ call'[Kr].op = call[Kr].op
      /\ \A b \in Callers \ {Kr} : call'[b] = call[b]
      /\ krd.up /\ krd'.up
      /\ disk'.old = disk.old /\ disk'.new = disk.new
      /\ krd.pairing = None => UNCHANGED <<krd, disk>>
      /\ krd.pairing # None => /\ krd'.pairing = None /\ krd'.me = None
                               /\ disk'.pairing = None /\ disk'.me = None
  BY <1>1, <1>2, KrCalls, CoreDelete DEF Before
<1>4. CallsByStep'
  BY <1>1, <1>3, SameCallsByStep DEF SameCalls
<1>5. /\ unpaired' \subseteq {"prior"} /\ unpaired \subseteq unpaired'
      /\ "prior" \in unpaired' \cup forgotten'
      /\ krd'.pairing = None /\ krd'.me = None /\ disk'.pairing = None /\ disk'.me = None
  BY <1>2, <1>3, PairingsOrNone DEF TransferInv, Told, Before, PairingLoaded, ProfileLoaded
<1>6. Before'
  BY <1>2, <1>3, <1>5 DEF Before, PairingLoaded, ProfileLoaded
<1>7. KrTypes' /\ MovedFiles'
  BY <1>3 DEF TransferInv, KrTypes, MovedFiles
<1>8. AllKept'
  <2>1. \A p \in Pairings : p \in scanned => p \in {"prior"} \cup unpaired \cup forgotten
    BY <1>2, PairingsOrNone DEF TransferInv, AllKept, Kept, Before, Pairings
  <2>2. \A p \in Pairings \ (unpaired' \cup forgotten') : ~(p \in scanned' \/ p = krd'.pairing)
    BY <1>3, <1>5, <2>1, PairingsOrNone
  <2> QED BY <1>5, <2>2, PairingsOrNone DEF AllKept
<1> QED BY <1>2, <1>3, <1>4, <1>5, <1>6, <1>7, <1>8 DEF ServerInv, TransferInv, Running

LEMMA InvServe ==
  ASSUME Inv, NEW c \in Callers, Serve(c), UNCHANGED <<todo, transfer>>
  PROVE  Inv'
<1>1. Core /\ CallsByStep /\ ServerTypes /\ call[c].pc = "sent"
  BY DEF Inv, ServerInv, Core, Types, Serve
<1>2. CASE call[c].op \in {"putOld", "putNew", "delete"}
  <2>1. c = Kr
    BY <1>1, <1>2 DEF CallsByStep
  <2> QED BY <1>2, <2>1, PutOld, PutNew, Delete
<1>3. CASE call[c].op \notin {"putOld", "putNew", "delete"}
  <2>1. Core' /\ Upkeep
    BY <1>1, <1>3, CoreServe
  <2>2. SameCalls
    <3>1. \A p \in {"old", "new"} : ~HandlePutPair(c, p)
      BY <1>3 DEF HandlePutPair
    <3>2. ~HandleDeletePair(c)
      BY <1>3 DEF HandleDeletePair
    <3>3. TryRequest(c) \/ Reply(c, 404, None) \/ Reply(c, 200, krd.me)
      BY <3>1, <3>2 DEF Serve, HandleGetPair, HandleEnclaveMe, HandleEnclaveGeneric
    <3> QED BY <1>1, <3>3, ReplySameCalls, TryRequestSameCalls
  <2> QED BY <1>1, <2>1, <2>2, SameCallsByStep, InvUpkeep
<1> QED BY <1>2, <1>3

-----------------------------------------------------------------------------
(* The steps of kr.                                                        *)

LEMMA KrIdle ==
  ASSUME Inv, NEW step, At(Kr, step), step \notin Ops \cup {"none", "refresh"}
  PROVE  call[Kr].pc = "idle" /\ ~Served
BY IdleAtStep DEF Inv, ServerInv, Core, Served

LEMMA SameServer ==
  ASSUME Core, UNCHANGED serverVars
  PROVE  Core' /\ Upkeep /\ UNCHANGED <<krd, disk, scanned, unpaired, forgotten, call>>
<1>1. UNCHANGED <<krd, disk, scanned, unpaired, forgotten, call>>
  BY DEF serverVars, phoneVars
<1>2. Types'
  BY TypesUnchanged DEF Core
<1> QED BY <1>1, <1>2, CoreSame

LEMMA CoreStart ==
  ASSUME Core, PairingLoaded, Start, UNCHANGED <<phoneVars, saveVars, call>>
  PROVE  Core' /\ Upkeep
<1> USE DEF Core, Types
<1>1. Types'
  BY StartKeeps, TypesFiles
<1>2. DownIsDown'
  BY StartKeeps DEF DownIsDown
<1>3. \A c \in Callers : Asking(c)' <=> Asking(c)
  BY DEF Asking
<1>4. \A c \in Callers : Asking(c) => krd.up
  BY DEF Asking, DownIsDown
<1>5. ProfilesOnTheWay'
  BY <1>3, <1>4, StartKeeps DEF ProfilesOnTheWay, PairingLoaded
<1>6. WaitsForPhone'
  BY DEF WaitsForPhone
<1>7. Upkeep
  BY <1>3 DEF Upkeep, KrdChanges, Asks, KrServed, Served, phoneVars
<1> QED BY <1>1, <1>2, <1>5, <1>6, <1>7

LEMMA InvRunKr ==
  ASSUME Inv, NEW command \in DOMAIN Commands, RunKr(command)
  PROVE  Inv'
<1> USE DEF Inv
<1>1. /\ todo[Kr] = <<>> /\ transfer.ended = "not" /\ call[Kr].pc = "idle"
      /\ UNCHANGED serverVars /\ transfer' = transfer
  BY DEF RunKr
<1>2. Before
  BY <1>1, RestSteps, RefreshSteps DEF TransferInv, Running
<1>3. Core' /\ CallsByStep' /\ UNCHANGED <<krd, disk, scanned, unpaired, forgotten, call>>
  BY <1>1, SameServer, IdleCalls DEF ServerInv, Core, Types, serverVars, phoneVars, saveVars
<1>4. Before' /\ ~Served'
  BY <1>1, <1>2, <1>3 DEF Before, PairingLoaded, ProfileLoaded, NoneAsking, Asking, Served
<1>5. AllKept' /\ unpaired' \subseteq {"prior"}
  BY <1>1, <1>3 DEF TransferInv, AllKept, Kept
<1>6. CASE command = "transfer"
  <2>1. todo' = [todo EXCEPT ![Kr] = Rest(1)]
    BY <1>6, RestEnds DEF RunKr, Commands
  <2>2. todo' \in [{Kr} -> Seq(Steps)] /\ todo'[Kr] = Rest(1)
    <3>1. Rest(1) \in Seq(Steps)
      BY RestSteps
    <3> QED BY <2>1, <3>1 DEF TransferInv, KrTypes
  <2>3. KrTypes' /\ MovedFiles'
    BY <1>1, <1>3, <2>2 DEF TransferInv, KrTypes, MovedFiles
  <2>4. AtStep(1)'
    BY <1>4 DEF AtStep
  <2> QED BY <1>1, <1>3, <1>5, <2>2, <2>3, <2>4, InvAtStep
<1>7. CASE command = "unpair"
  <2>1. todo' = [todo EXCEPT ![Kr] = <<"delete">>]
    BY <1>7 DEF RunKr, Commands
  <2>2. <<"delete">> \in Seq(Steps)
    BY DEF Steps
  <2>3. todo' \in [{Kr} -> Seq(Steps)] /\ todo'[Kr] = <<"delete">>
    BY <2>1, <2>2 DEF TransferInv, KrTypes
  <2>4. KrTypes' /\ MovedFiles'
    BY <1>1, <1>3, <2>3 DEF TransferInv, KrTypes, MovedFiles
  <2> QED BY <1>1, <1>3, <1>4, <1>5, <2>3, <2>4 DEF ServerInv, TransferInv, Running
<1> QED BY <1>6, <1>7 DEF Commands

LEMMA InvGiveUp ==
  ASSUME Inv, GiveUp
  PROVE  Inv'
<1> USE DEF Inv
<1>1. HangUp(Kr) /\ Core /\ CallsByStep
  BY DEF GiveUp, HangUp, ServerInv, Core, Types
<1>2. Core' /\ call'[Kr] = Idle /\ UNCHANGED <<krd, disk, scanned, unpaired, forgotten>>
  BY <1>1, CoreHangUp, KrCalls DEF HangUp, phoneVars
<1>3. CallsByStep'
  BY <1>1, KrHangsUpCalls DEF Core
<1>4. /\ transfer'.ended = "failed" /\ transfer'.left = transfer.left
      /\ transfer'.granted = transfer.granted /\ DOMAIN transfer' = DOMAIN transfer
  BY DEF GiveUp, TransferInv, KrTypes
<1>5. todo' \in [{Kr} -> Seq(Steps)] /\ todo'[Kr] = <<>>
  BY EmptySeq DEF GiveUp, TransferInv, KrTypes
<1>6. KrTypes' /\ MovedFiles'
  BY <1>2, <1>4, <1>5 DEF TransferInv, KrTypes, MovedFiles
<1>7. AllKept' /\ unpaired' \subseteq {"prior"}
  BY <1>2, <1>4 DEF TransferInv, AllKept, Kept
<1>8. Over'
  BY <1>4, <1>5 DEF Over
<1> QED BY <1>2, <1>3, <1>4, <1>6, <1>7, <1>8 DEF ServerInv, TransferInv

LEMMA KrStepOf ==
  ASSUME Inv, NEW step, At(Kr, step), step \notin {"delete", "refresh"}
  PROVE  /\ transfer.ended = "not"
         /\ \E k \in 1..27 : todo[Kr] = Rest(k) /\ AtStep(k) /\ TransferAuthorityMain[k] = step
BY KrAt

LEMMA InvConfirm ==
  ASSUME Inv, NEW pgp \in BOOLEAN, NEW continue \in BOOLEAN, Confirm(pgp, continue)
  PROVE  Inv'
<1> USE DEF Inv
<1>1. /\ At(Kr, "confirm") /\ UNCHANGED serverVars
      /\ UNCHANGED <<krd, disk, scanned, unpaired, forgotten, call>>
  BY DEF Confirm, serverVars, phoneVars, saveVars
<1>2. transfer.ended = "not" /\ todo[Kr] = Rest(5) /\ AtStep(5) /\ 5 \in 1..27 /\ 6 \in 1..27
  <2>1. PICK k \in 1..27 : todo[Kr] = Rest(k) /\ AtStep(k) /\ TransferAuthorityMain[k] = "confirm"
    BY <1>1, KrStepOf
  <2>2. k = 5
    BY <2>1, StepsByName
  <2> QED BY <1>1, <2>1, <2>2, KrStepOf
<1>3. call[Kr].pc = "idle"
  BY <1>1, KrIdle DEF Ops
<1>4. Core' /\ CallsByStep'
  BY <1>1, <1>3, SameServer, IdleCalls DEF ServerInv, Core, Types
<1>5. /\ transfer'.left = transfer.left /\ transfer'.granted = transfer.granted
      /\ DOMAIN transfer' = DOMAIN transfer
      /\ transfer'.ended = IF continue THEN "not" ELSE "dry run"
  BY <1>2 DEF Confirm, TransferInv, KrTypes
<1>6. AllKept' /\ unpaired' \subseteq {"prior"}
  BY <1>1, <1>5 DEF TransferInv, AllKept, Kept
<1>7. WithOld'
  BY <1>1, <1>2 DEF AtStep, WithOld, OnDisk, PairingLoaded
<1>8. CASE continue
  <2>1. Done(Kr)
    BY <1>8 DEF Confirm
  <2>2. todo' \in [{Kr} -> Seq(Steps)] /\ todo'[Kr] = Rest(6)
    <3>1. todo' \in [{Kr} -> Seq(Steps)] /\ todo'[Kr] = Rest(5 + 1)
      BY <1>2, <2>1, DoneStep DEF TransferInv
    <3>2. 5 + 1 = 6
      OBVIOUS
    <3> QED BY <3>1, <3>2, Zenon
  <2>3. KrTypes' /\ MovedFiles'
    BY <1>1, <1>5, <1>8, <2>2 DEF TransferInv, KrTypes, MovedFiles
  <2>4. AtStep(6)'
    BY <1>7 DEF AtStep
  <2> QED BY <1>2, <1>4, <1>5, <1>6, <1>8, <2>2, <2>3, <2>4, InvAtStep
<1>9. CASE ~continue
  <2>1. todo' \in [{Kr} -> Seq(Steps)] /\ todo'[Kr] = <<>>
    <3>1. todo' = [todo EXCEPT ![Kr] = <<>>]
      BY <1>9 DEF Confirm
    <3> QED BY <3>1, EmptySeq DEF TransferInv, KrTypes
  <2>2. KrTypes' /\ MovedFiles'
    BY <1>1, <1>5, <1>9, <2>1 DEF TransferInv, KrTypes, MovedFiles
  <2>3. Over'
    BY <1>5, <1>9, <2>1 DEF Over
  <2> QED BY <1>4, <1>5, <1>6, <1>9, <2>2, <2>3 DEF ServerInv, TransferInv
<1> QED BY <1>8, <1>9

(* kr goes on from its k-th step, without a call.                          *)
LEMMA InvNext ==
  ASSUME Inv, NEW k \in 1..26, todo[Kr] = Rest(k), Done(Kr), transfer.ended = "not",
         UNCHANGED transfer, Core', CallsByStep', AllKept', unpaired' \subseteq {"prior"},
         disk'.old \in {None, "old"}, disk'.new \in {None, "new"}, AtStep(k + 1)'
  PROVE  Inv'
<1>1. k \in 1..27 /\ k + 1 \in 1..27
  OBVIOUS
<1>2. todo' \in [{Kr} -> Seq(Steps)] /\ todo'[Kr] = Rest(k + 1)
  BY <1>1, DoneStep DEF Inv, TransferInv
<1>3. KrTypes' /\ MovedFiles'
  BY <1>2 DEF Inv, TransferInv, KrTypes, MovedFiles
<1> QED BY <1>1, <1>2, <1>3, InvAtStep

LEMMA InvKillKrd ==
  ASSUME Inv, KillKrd
  PROVE  Inv'
<1> USE DEF Inv
<1>1. /\ At(Kr, "kill") /\ Kill /\ Done(Kr) /\ UNCHANGED <<disk, unpaired, forgotten, transfer>>
      /\ Core /\ CallsByStep
  BY DEF KillKrd, Kill, ServerInv, Core, Types
<1>2. PICK k \in 1..27 : todo[Kr] = Rest(k) /\ AtStep(k) /\ TransferAuthorityMain[k] = "kill"
  BY <1>1, KrStepOf
<1>3. k \in {6, 8, 13, 17, 21, 24} /\ k \in 1..26
  <2>1. k \in {6, 8, 13, 17, 21, 24}
    BY <1>2, StepsByName
  <2> QED BY <2>1
<1>4. transfer.ended = "not" /\ call[Kr].pc = "idle"
  BY <1>1, KrStepOf, KrIdle DEF Ops
<1>5. Core' /\ Upkeep /\ NoneAsking' /\ krd' = Down
  BY <1>1, CoreKill
<1>6. CallsByStep'
  <2>1. /\ call'[Kr].pc = "idle"
        /\ \A c \in Callers : call'[c].op = call[c].op
    BY <1>1, <1>4, KillSameCalls DEF Core, SameCalls
  <2> QED BY <1>1, <2>1, IdleCalls
<1>7. PairingLoaded' /\ ProfileLoaded' /\ (krd'.up => krd'.me # None)
  BY <1>5 DEF Down, PairingLoaded, ProfileLoaded
<1>8. AtStep(k + 1)'
  <2>1. CASE k = 6
    <3>1. krd'.me = None
      BY <1>5 DEF Down
    <3> QED BY <1>1, <1>2, <1>7, <2>1, <3>1 DEF AtStep, WithOld, OnDisk
  <2>2. CASE k = 8
    BY <1>1, <1>2, <1>7, <2>2 DEF AtStep, Between, OnDisk
  <2>3. CASE k = 13
    BY <1>1, <1>2, <1>5, <1>7, <2>3 DEF AtStep, NewKnown, WithNew, OnDisk
  <2>4. CASE k = 17
    BY <1>1, <1>2, <1>5, <1>7, <2>4 DEF AtStep, BackOnOld, OnDisk, Quiet
  <2>5. CASE k = 21
    BY <1>1, <1>2, <1>5, <1>7, <2>5 DEF AtStep, BackOnOld, OnDisk, Quiet
  <2>6. CASE k = 24
    BY <1>1, <1>2, <1>7, <2>6 DEF AtStep, OnNew, OnDisk
  <2> QED BY <1>3, <2>1, <2>2, <2>3, <2>4, <2>5, <2>6
<1>9. AllKept' /\ unpaired' \subseteq {"prior"}
  BY <1>1, <1>5, UpkeepAllKept DEF TransferInv
<1>10. disk'.old \in {None, "old"} /\ disk'.new \in {None, "new"}
  BY <1>1 DEF TransferInv, MovedFiles
<1> QED BY <1>1, <1>2, <1>3, <1>4, <1>5, <1>6, <1>8, <1>9, <1>10, InvNext

LEMMA InvStartKrd ==
  ASSUME Inv, StartKrd
  PROVE  Inv'
<1> USE DEF Inv
<1>1. /\ At(Kr, "start") /\ Start /\ Done(Kr) /\ UNCHANGED <<phoneVars, saveVars, call, transfer>>
      /\ Core /\ CallsByStep
  BY DEF StartKrd, ServerInv, Core, Types
<1>2. PICK k \in 1..27 : todo[Kr] = Rest(k) /\ AtStep(k) /\ TransferAuthorityMain[k] = "start"
  BY <1>1, KrStepOf
<1>3. k \in {9, 18, 25} /\ k \in 1..26
  <2>1. k \in {9, 18, 25}
    BY <1>2, StepsByName
  <2> QED BY <2>1
<1>4. transfer.ended = "not" /\ call[Kr].pc = "idle" /\ ~Served
  BY <1>1, KrStepOf, KrIdle DEF Ops
<1>5. PairingLoaded
  BY <1>2, <1>3 DEF AtStep, Between, BackOnOld, OnNew
<1>6. Core' /\ Upkeep
  BY <1>1, <1>5, CoreStart
<1>7. CallsByStep' /\ ~Served' /\ ~Refreshing(Kr)
  BY <1>1, <1>4, IdleCalls DEF Served, Refreshing
<1>8. AtStep(k + 1)'
  <2>1. CASE k = 9
    <3>1. Between'
      BY <1>1, <1>2, <1>6, <2>1, UpkeepBetween DEF AtStep
    <3> QED BY <1>7, <2>1, <3>1 DEF AtStep
  <2>2. CASE k = 18
    <3>1. BackOnOld'
      BY <1>1, <1>2, <1>6, <1>7, <2>2, UpkeepBackOnOld DEF AtStep
    <3> QED BY <2>2, <3>1 DEF AtStep
  <2>3. CASE k = 25
    <3>1. OnNew'
      BY <1>1, <1>2, <1>6, <2>3, UpkeepOnNew DEF AtStep
    <3> QED BY <2>3, <3>1 DEF AtStep
  <2> QED BY <1>3, <2>1, <2>2, <2>3
<1>9. AllKept' /\ unpaired' \subseteq {"prior"}
  BY <1>1, <1>6, UpkeepAllKept, UpkeepFiles DEF TransferInv
<1>10. disk'.old \in {None, "old"} /\ disk'.new \in {None, "new"}
  BY <1>1, <1>6, UpkeepFiles DEF TransferInv, MovedFiles
<1> QED BY <1>1, <1>2, <1>3, <1>4, <1>6, <1>7, <1>8, <1>9, <1>10, InvNext

(* A step of kr that changes only the files.                               *)
LEMMA CoreFiles ==
  ASSUME Core, CallsByStep, disk' \in [{"pairing", "old", "new", "me", "pub"} -> Stored],
         UNCHANGED <<krd, phoneVars, saveVars, call>>, call[Kr].pc = "idle"
  PROVE  Core' /\ CallsByStep' /\ (NoneAsking => NoneAsking')
<1>1. Core'
  <2>1. Types'
    BY TypesFiles DEF Core, Types, ServerTypes
  <2> QED BY <2>1 DEF Core, DownIsDown, ProfilesOnTheWay, WaitsForPhone, Asking
<1>2. CallsByStep'
  BY IdleCalls
<1> QED BY <1>1, <1>2 DEF NoneAsking, Asking

LEMMA InvRename ==
  ASSUME Inv, NEW r \in Renames, Rename(r)
  PROVE  Inv'
<1> USE DEF Inv
<1>1. /\ At(Kr, r.step) /\ disk[r.from] # None /\ Done(Kr)
      /\ disk' = [disk EXCEPT ![r.to] = disk[r.from], ![r.from] = None]
      /\ UNCHANGED <<krd, phoneVars, saveVars, call, transfer>>
      /\ UNCHANGED <<scanned, unpaired, forgotten>> /\ Core /\ CallsByStep
  BY DEF Rename, ServerInv, phoneVars
<1>2. r.step \in {"rename pairing old", "rename pairing new", "rename old pairing",
                  "rename new pairing"}
  BY RenameFields
<1>3. PICK k \in 1..27 : todo[Kr] = Rest(k) /\ AtStep(k) /\ TransferAuthorityMain[k] = r.step
  BY <1>1, <1>2, KrStepOf
<1>4. transfer.ended = "not" /\ call[Kr].pc = "idle"
  BY <1>1, <1>2, KrStepOf, KrIdle DEF Ops
<1>5. \/ k = 7 /\ r.from = "pairing" /\ r.to = "old"
      \/ k = 14 /\ r.from = "pairing" /\ r.to = "new"
      \/ k = 15 /\ r.from = "old" /\ r.to = "pairing"
      \/ k = 22 /\ r.from = "new" /\ r.to = "pairing"
  <2>1. \/ r.step = "rename pairing old" /\ r.from = "pairing" /\ r.to = "old"
        \/ r.step = "rename pairing new" /\ r.from = "pairing" /\ r.to = "new"
        \/ r.step = "rename old pairing" /\ r.from = "old" /\ r.to = "pairing"
        \/ r.step = "rename new pairing" /\ r.from = "new" /\ r.to = "pairing"
    BY RenameFields
  <2> QED BY <1>3, <2>1, StepsByName, ZenonT(60)
<1>6. /\ r.from \in {"pairing", "old", "new"} /\ r.to \in {"pairing", "old", "new"} /\ r.from # r.to
  BY <1>5
<1>7. disk' \in [{"pairing", "old", "new", "me", "pub"} -> Stored]
  BY <1>1, <1>6 DEF Core, Types, ServerTypes, Stored
<1>8. Core' /\ CallsByStep' /\ (NoneAsking => NoneAsking')
  BY <1>1, <1>4, <1>7, CoreFiles
<1>9. /\ disk'[r.to] = disk[r.from] /\ disk'[r.from] = None
      /\ \A f \in {"pairing", "old", "new", "me", "pub"} \ {r.from, r.to} : disk'[f] = disk[f]
  <2>1. DOMAIN disk = {"pairing", "old", "new", "me", "pub"}
    BY <1>1 DEF Core, Types, ServerTypes
  <2>2. r.from \in DOMAIN disk /\ r.to \in DOMAIN disk
    BY <1>6, <2>1
  <2> HIDE DEF Inv
  <2> QED BY <1>1, <1>6, <2>1, <2>2
<1>10. unpaired' \subseteq {"prior"} /\ k \in 1..26
  BY <1>1, <1>5 DEF TransferInv
<1> DEFINE Scanned(p) == p \in scanned \/ p = krd.pairing
<1>11. \A p \in Pairings \ (unpaired \cup forgotten) : Scanned(p) => Kept(p)
  BY DEF TransferInv, AllKept
<1>12. /\ krd.pairing = "prior" => disk.pairing = "prior"
       /\ krd.pairing # "prior"
             /\ (\A p \in Pairings \ (unpaired \cup forgotten) : Scanned(p) => Kept(p)') => AllKept'
  BY <1>1 DEF TransferInv, AllKept
<1> HIDE DEF Scanned
<1>13. CASE k = 7
  <2>1. OnDisk("old", None, None) /\ r.from = "pairing" /\ r.to = "old"
    BY <1>3, <1>5, <1>13 DEF AtStep, WithOld
  <2>2. OnDisk(None, "old", None)'
    BY <1>9, <2>1 DEF OnDisk
  <2>3. AtStep(k + 1)'
    BY <1>13, <2>2 DEF AtStep
  <2>4. AllKept'
    BY <1>11, <1>12, <2>1, <2>2, PairingsOrNone DEF Kept, OnDisk
  <2> QED BY <1>1, <1>3, <1>4, <1>8, <1>10, <2>2, <2>3, <2>4, InvNext DEF OnDisk
<1>14. CASE k = 14
  <2>1. /\ OnDisk("new", "old", None) /\ r.from = "pairing" /\ r.to = "new"
        /\ NoneAsking /\ disk.me = "new" /\ ProfileLoaded
    BY <1>3, <1>5, <1>14 DEF AtStep, NewKnown, WithNew
  <2>2. OnDisk(None, "old", "new")' /\ disk'.me = disk.me
    BY <1>9, <2>1 DEF OnDisk
  <2>3. Quiet'
    BY <1>1, <1>8, <2>1, <2>2, PairingsOrNone DEF Quiet, ProfileLoaded
  <2>4. AtStep(k + 1)'
    BY <1>14, <2>2, <2>3 DEF AtStep
  <2>5. AllKept'
    BY <1>11, <1>12, <2>1, <2>2, PairingsOrNone DEF Kept, OnDisk
  <2> QED BY <1>1, <1>3, <1>4, <1>8, <1>10, <2>2, <2>4, <2>5, InvNext DEF OnDisk
<1>15. CASE k = 15
  <2>1. OnDisk(None, "old", "new") /\ r.from = "old" /\ r.to = "pairing" /\ Quiet
    BY <1>3, <1>5, <1>15 DEF AtStep
  <2>2. OnDisk("old", None, "new")' /\ disk'.me = disk.me
    BY <1>9, <2>1 DEF OnDisk
  <2>3. Quiet'
    BY <1>1, <1>8, <2>1, <2>2 DEF Quiet
  <2>4. AtStep(k + 1)'
    BY <1>15, <2>2, <2>3 DEF AtStep
  <2>5. AllKept'
    BY <1>11, <1>12, <2>1, <2>2, PairingsOrNone DEF Kept, OnDisk
  <2> QED BY <1>1, <1>3, <1>4, <1>8, <1>10, <2>2, <2>4, <2>5, InvNext DEF OnDisk
<1>16. CASE k = 22
  <2>1. /\ OnDisk("old", None, "new") /\ r.from = "new" /\ r.to = "pairing" /\ Quiet
        /\ transfer.left = <<>>
    BY <1>3, <1>5, <1>16 DEF AtStep, BackOnOld
  <2>2. OnDisk("new", None, None)' /\ disk'.me = disk.me
    BY <1>9, <2>1 DEF OnDisk
  <2>3. Quiet'
    BY <1>1, <1>8, <2>1, <2>2 DEF Quiet
  <2>4. AtStep(k + 1)'
    BY <1>1, <1>16, <2>1, <2>2, <2>3 DEF AtStep
  <2>5. AllKept'
    BY <1>1, <1>11, <1>12, <2>1, <2>2, PairingsOrNone DEF Kept, OnDisk
  <2> QED BY <1>1, <1>3, <1>4, <1>8, <1>10, <2>2, <2>4, <2>5, InvNext DEF OnDisk
<1> QED BY <1>5, <1>13, <1>14, <1>15, <1>16

LEMMA InvSaveProfile ==
  ASSUME Inv, ProfilesInv, NEW s \in Saves, SaveProfile(s)
  PROVE  Inv'
<1> USE DEF Inv
<1> DEFINE p == transfer[s.profile]
<1>1. /\ At(Kr, s.step) /\ disk' = [disk EXCEPT ![s.file] = p] /\ Done(Kr)
      /\ UNCHANGED <<krd, phoneVars, saveVars, call, transfer>>
      /\ UNCHANGED <<scanned, unpaired, forgotten>> /\ Core /\ CallsByStep
  BY DEF SaveProfile, ServerInv, phoneVars
<1>2. s.step \in {"saveMe old", "saveMe new", "savePub old", "savePub new"}
  BY SaveFields
<1>3. PICK k \in 1..27 : todo[Kr] = Rest(k) /\ AtStep(k) /\ TransferAuthorityMain[k] = s.step
  BY <1>1, <1>2, KrStepOf
<1>4. transfer.ended = "not" /\ call[Kr].pc = "idle"
  BY <1>1, <1>2, KrStepOf, KrIdle DEF Ops
<1>5. \/ k = 16 /\ s.file = "me" /\ p = "old"
      \/ k = 23 /\ s.file = "me" /\ p = "new"
      \/ k = 19 /\ s.file = "pub" /\ p = "old"
      \/ k = 26 /\ s.file = "pub" /\ p = "new"
  <2>1. \/ s.step = "saveMe old" /\ s.file = "me" /\ s.profile = "oldProfile"
        \/ s.step = "saveMe new" /\ s.file = "me" /\ s.profile = "newProfile"
        \/ s.step = "savePub old" /\ s.file = "pub" /\ s.profile = "oldProfile"
        \/ s.step = "savePub new" /\ s.file = "pub" /\ s.profile = "newProfile"
    BY SaveFields
  <2>2. \/ k = 16 /\ s.file = "me" /\ s.profile = "oldProfile"
        \/ k = 23 /\ s.file = "me" /\ s.profile = "newProfile"
        \/ k = 19 /\ s.file = "pub" /\ s.profile = "oldProfile"
        \/ k = 26 /\ s.file = "pub" /\ s.profile = "newProfile"
    BY <1>3, <2>1, StepsByName, ZenonT(60)
  <2>3. /\ k \in {16, 19} => transfer.oldProfile = "old"
        /\ k \in {23, 26} => transfer.newProfile = "new"
    <3>1. ProfilesAt(k)
      BY <1>3 DEF ProfilesInv
    <3> QED BY <3>1 DEF ProfilesAt
  <2> QED BY <2>2, <2>3
<1> HIDE DEF p
<1>6. s.file \in {"me", "pub"} /\ p \in Stored /\ p # None
  BY <1>5, PairingsOrNone DEF Stored, Pairings
<1>7. disk' \in [{"pairing", "old", "new", "me", "pub"} -> Stored]
  BY <1>1, <1>6 DEF Core, Types, ServerTypes
<1>8. Core' /\ CallsByStep' /\ (NoneAsking => NoneAsking')
  BY <1>1, <1>4, <1>7, CoreFiles
<1>9. /\ disk'[s.file] = p
      /\ disk'.pairing = disk.pairing /\ disk'.old = disk.old /\ disk'.new = disk.new
      /\ s.file = "pub" => disk'.me = disk.me
  <2>1. DOMAIN disk = {"pairing", "old", "new", "me", "pub"}
    BY <1>1 DEF Core, Types, ServerTypes
  <2> QED BY <1>1, <1>6, <2>1
<1>10. unpaired' \subseteq {"prior"} /\ k \in 1..26
  BY <1>1, <1>5 DEF TransferInv
<1>11. AllKept'
  BY <1>1, <1>9 DEF TransferInv, AllKept, Kept
<1>12. disk'.old \in {None, "old"} /\ disk'.new \in {None, "new"}
  BY <1>9 DEF TransferInv, MovedFiles
<1>13. AtStep(k + 1)'
  <2>1. CASE k = 16 \/ k = 23
    <3>1. Quiet'
      BY <1>1, <1>3, <1>5, <1>6, <1>8, <1>9, <2>1 DEF AtStep, Quiet
    <3>2. CASE k = 16
      <4>1. OnDisk("old", None, "new")' /\ disk'.me = "old"
        BY <1>3, <1>5, <1>9, <3>2 DEF AtStep, OnDisk
      <4> QED BY <3>1, <3>2, <4>1 DEF AtStep
    <3>3. CASE k = 23
      <4>1. OnDisk("new", None, None)' /\ disk'.me = "new" /\ transfer'.left = <<>>
        BY <1>1, <1>3, <1>5, <1>9, <3>3 DEF AtStep, OnDisk
      <4> QED BY <3>1, <3>3, <4>1 DEF AtStep
    <3> QED BY <2>1, <3>2, <3>3
  <2>2. CASE k = 19
    BY <1>1, <1>3, <1>5, <1>8, <1>9, <2>2
       DEF AtStep, BackOnOld, OnDisk, Quiet, PairingLoaded, ProfileLoaded
  <2>3. CASE k = 26
    BY <1>1, <1>3, <1>5, <1>9, <2>3 DEF AtStep, OnNew, OnDisk, PairingLoaded, ProfileLoaded
  <2> QED BY <1>5, <2>1, <2>2, <2>3
<1> QED BY <1>1, <1>3, <1>4, <1>8, <1>10, <1>11, <1>12, <1>13, InvNext

LEMMA InvAuthorizeHost ==
  ASSUME Inv, NEW succeeds \in BOOLEAN, AuthorizeHost(succeeds)
  PROVE  Inv'
<1> USE DEF Inv
<1>1. /\ At(Kr, "authorize") /\ transfer.left # <<>> 
      /\ UNCHANGED <<phoneVars, saveVars, call, todo>>
      /\ IF krd.up THEN UNCHANGED <<krd, disk>> ELSE Start
      /\ Core /\ CallsByStep
  BY DEF AuthorizeHost, ServerInv, Core, Types
<1>2. transfer.ended = "not" /\ todo[Kr] = Rest(20) /\ AtStep(20) /\ 20 \in 1..27
  <2>1. PICK k \in 1..27 : todo[Kr] = Rest(k) /\ AtStep(k) /\ TransferAuthorityMain[k] = "authorize"
    BY <1>1, KrStepOf
  <2>2. k = 20
    BY <2>1, StepsByName
  <2> QED BY <1>1, <2>1, <2>2, KrStepOf
<1>3. call[Kr].pc = "idle" /\ BackOnOld
  BY <1>1, <1>2, KrIdle DEF Ops, AtStep
<1>4. Core' /\ Upkeep
  <2>1. CASE krd.up
    <3>1. UNCHANGED serverVars
      BY <1>1, <2>1 DEF serverVars
    <3> QED BY <1>1, <3>1, SameServer
  <2>2. CASE ~krd.up
    BY <1>1, <1>3, <2>2, CoreStart DEF BackOnOld
  <2> QED BY <2>1, <2>2
<1>5. CallsByStep' /\ ~Refreshing(Kr)
  BY <1>1, <1>3, IdleCalls DEF Refreshing
<1>6. BackOnOld'
  BY <1>1, <1>3, <1>4, <1>5, UpkeepBackOnOld
<1>7. /\ transfer'.left \in Seq(HostNames) /\ transfer'.granted \subseteq HostNames
      /\ DOMAIN transfer' = DOMAIN transfer /\ transfer'.ended = transfer.ended
  <2>1. /\ transfer'.left = Tail(transfer.left)
        /\ \/ transfer'.granted = transfer.granted \cup {Head(transfer.left)}
           \/ transfer'.granted = transfer.granted
        /\ DOMAIN transfer' = DOMAIN transfer /\ transfer'.ended = transfer.ended
    BY DEF AuthorizeHost, TransferInv, KrTypes
  <2> QED BY <1>1, <2>1, NextHost DEF TransferInv, KrTypes
<1>8. AllKept' /\ unpaired' \subseteq {"prior"}
  BY <1>1, <1>3, <1>4, UpkeepAllKept, UpkeepFiles DEF TransferInv, BackOnOld, OnDisk
<1>9. KrTypes' /\ MovedFiles'
  BY <1>1, <1>3, <1>6, <1>7 DEF TransferInv, KrTypes, MovedFiles, BackOnOld, OnDisk
<1>10. AtStep(20)'
  BY <1>6 DEF AtStep
<1> QED BY <1>1, <1>2, <1>4, <1>5, <1>7, <1>8, <1>9, <1>10, InvAtStep

LEMMA InvHostsHandled ==
  ASSUME Inv, HostsHandled
  PROVE  Inv'
<1> USE DEF Inv
<1>1. /\ At(Kr, "authorize") /\ transfer.left = <<>> /\ Done(Kr)
      /\ UNCHANGED serverVars /\ UNCHANGED <<krd, disk, scanned, unpaired, forgotten, call, transfer>>
      /\ Core /\ CallsByStep
  BY DEF HostsHandled, ServerInv, Core, Types, serverVars, phoneVars, saveVars
<1>2. PICK k \in 1..27 : todo[Kr] = Rest(k) /\ AtStep(k) /\ TransferAuthorityMain[k] = "authorize"
  BY <1>1, KrStepOf
<1>3. k = 20 /\ k \in 1..26
  <2>1. k = 20
    BY <1>2, StepsByName
  <2> QED BY <2>1
<1>4. transfer.ended = "not" /\ call[Kr].pc = "idle"
  BY <1>1, KrStepOf, KrIdle DEF Ops
<1>5. Core' /\ CallsByStep'
  BY <1>1, <1>4, SameServer, IdleCalls
<1>6. AllKept' /\ unpaired' \subseteq {"prior"}
  BY <1>1 DEF TransferInv, AllKept, Kept
<1>7. BackOnOld' /\ transfer'.left = <<>>
  BY <1>1, <1>2, <1>3
     DEF AtStep, BackOnOld, OnDisk, Quiet, NoneAsking, Asking, PairingLoaded, ProfileLoaded
<1>8. AtStep(k + 1)'
  BY <1>3, <1>7 DEF AtStep
<1>9. disk'.old \in {None, "old"} /\ disk'.new \in {None, "new"}
  BY <1>1 DEF TransferInv, MovedFiles
<1> QED BY <1>1, <1>2, <1>3, <1>4, <1>5, <1>6, <1>8, <1>9, InvNext

(* At the special cases nothing is left to move.                           *)
LEMMA AtSpecial ==
  ASSUME Inv, At(Kr, "special"), UNCHANGED serverVars,
         transfer'.left = transfer.left, transfer'.granted = transfer.granted,
         DOMAIN transfer' = DOMAIN transfer
  PROVE  /\ transfer.ended = "not" /\ todo[Kr] = Rest(27) /\ 27 \in 1..27
         /\ Core' /\ CallsByStep' /\ AtStep(27)' /\ AllKept' /\ unpaired' \subseteq {"prior"}
         /\ disk'.old \in {None, "old"} /\ disk'.new \in {None, "new"}
<1> USE DEF Inv
<1>1. UNCHANGED <<krd, disk, scanned, unpaired, forgotten, call>> /\ Core /\ CallsByStep
  BY DEF serverVars, phoneVars, saveVars, ServerInv, Core, Types
<1>2. transfer.ended = "not" /\ todo[Kr] = Rest(27) /\ AtStep(27) /\ 27 \in 1..27
  <2>1. PICK k \in 1..27 : todo[Kr] = Rest(k) /\ AtStep(k) /\ TransferAuthorityMain[k] = "special"
    BY KrStepOf
  <2>2. k = 27
    BY <2>1, StepsByName
  <2> QED BY <2>1, <2>2, KrStepOf
<1>3. call[Kr].pc = "idle"
  BY KrIdle DEF Ops
<1>4. Core' /\ CallsByStep'
  BY <1>1, <1>3, SameServer, IdleCalls
<1>5. AllKept' /\ unpaired' \subseteq {"prior"}
  BY <1>1 DEF TransferInv, AllKept, Kept
<1>6. AtStep(27)'
  <2>1. OnNew /\ disk.pub = "new"
    BY <1>2, AtLast
  <2>2. OnNew' /\ disk'.pub = "new"
    BY <1>1, <2>1 DEF OnNew, OnDisk, PairingLoaded, ProfileLoaded
  <2> QED BY <2>2, AtLast DEF AtStep
<1>7. disk'.old \in {None, "old"} /\ disk'.new \in {None, "new"}
  BY <1>1 DEF TransferInv, MovedFiles
<1> QED BY <1>2, <1>4, <1>5, <1>6, <1>7

LEMMA InvHandleSpecialCase ==
  ASSUME Inv, NEW confirmed \in BOOLEAN, HandleSpecialCase(confirmed)
  PROVE  Inv'
<1> USE DEF Inv
<1>1. /\ At(Kr, "special") /\ UNCHANGED serverVars
      /\ transfer'.left = transfer.left /\ transfer'.granted = transfer.granted
      /\ transfer'.ended = transfer.ended /\ DOMAIN transfer' = DOMAIN transfer
  BY DEF HandleSpecialCase, TransferInv, KrTypes
<1>2. /\ transfer.ended = "not" /\ todo[Kr] = Rest(27) /\ 27 \in 1..27
      /\ Core' /\ CallsByStep' /\ AtStep(27)' /\ AllKept' /\ unpaired' \subseteq {"prior"}
      /\ disk'.old \in {None, "old"} /\ disk'.new \in {None, "new"}
  BY <1>1, AtSpecial
<1> DEFINE r == <<"refresh">> \o Rest(27)
<1>3. r \in Seq(Steps)
  BY RefreshSteps, Zenon
<1>4. todo' = todo \/ todo' = [todo EXCEPT ![Kr] = r]
  <2>1. \/ todo' = [todo EXCEPT ![Kr] = todo[Kr]]
        \/ todo' = [todo EXCEPT ![Kr] = <<"refresh">> \o todo[Kr]]
    BY DEF HandleSpecialCase
  <2>2. [todo EXCEPT ![Kr] = todo[Kr]] = todo
    BY DEF TransferInv, KrTypes
  <2> QED BY <1>2, <2>1, <2>2, Zenon
<1> HIDE DEF r
<1>5. todo' \in [{Kr} -> Seq(Steps)] /\ (todo'[Kr] = Rest(27) \/ todo'[Kr] = r)
  BY <1>2, <1>3, <1>4 DEF TransferInv, KrTypes
<1>6. KrTypes' /\ MovedFiles'
  BY <1>1, <1>2, <1>5 DEF TransferInv, KrTypes, MovedFiles
<1>7. CASE todo'[Kr] = Rest(27)
  BY <1>1, <1>2, <1>6, <1>7, InvAtStep
<1>8. CASE todo'[Kr] = r
  <2>1. Running'
    BY <1>2, <1>8, Zenon DEF Running, r
  <2> QED BY <1>1, <1>2, <1>6, <2>1 DEF ServerInv, TransferInv
<1> QED BY <1>5, <1>7, <1>8

LEMMA InvTransferDone ==
  ASSUME Inv, TransferDone
  PROVE  Inv'
<1> USE DEF Inv
<1>1. /\ At(Kr, "special") /\ UNCHANGED serverVars /\ Done(Kr)
      /\ transfer'.left = transfer.left /\ transfer'.granted = transfer.granted
      /\ transfer'.ended = "done" /\ DOMAIN transfer' = DOMAIN transfer
  BY DEF TransferDone, TransferInv, KrTypes
<1>2. /\ transfer.ended = "not" /\ todo[Kr] = Rest(27) /\ 27 \in 1..27
      /\ Core' /\ CallsByStep' /\ AtStep(27)' /\ AllKept' /\ unpaired' \subseteq {"prior"}
      /\ disk'.old \in {None, "old"} /\ disk'.new \in {None, "new"}
  BY <1>1, AtSpecial
<1>3. todo' \in [{Kr} -> Seq(Steps)] /\ todo'[Kr] = <<>>
  <2>1. todo' \in [{Kr} -> Seq(Steps)] /\ todo'[Kr] = Rest(27 + 1)
    BY <1>1, <1>2, DoneStep DEF TransferInv
  <2>2. 27 + 1 = 28
    OBVIOUS
  <2> QED BY <2>1, <2>2, RestEnds, Zenon
<1>4. KrTypes' /\ MovedFiles'
  BY <1>1, <1>2, <1>3 DEF TransferInv, KrTypes, MovedFiles
<1>5. Over'
  BY <1>2, <1>3, Zenon DEF Over
<1> QED BY <1>1, <1>2, <1>4, <1>5 DEF ServerInv, TransferInv

(* kr's call of krd, by the step it is at.                                 *)
LEMMA KrSends ==
  ASSUME Inv, NEW op \in Ops, Send(Kr, op), UNCHANGED <<todo, transfer>>,
         At(Kr, op) \/ (At(Kr, "refresh") /\ op = "getPair")
  PROVE  Inv'
<1>1. Core' /\ Upkeep
  BY CoreSend, KrCalls DEF Inv, ServerInv, Core, Types
<1>2. CallsByStep'
  BY KrSendsCalls DEF Inv, ServerInv, Core
<1> QED BY <1>1, <1>2, InvUpkeep

LEMMA InvCallKrd ==
  ASSUME Inv, NEW op \in Ops, CallKrd(op)
  PROVE  Inv'
BY KrSends DEF CallKrd

(* kr has read the answer to its call.                                     *)
LEMMA KrHangsUp ==
  ASSUME Inv, HangUp(Kr)
  PROVE  /\ Core' /\ CallsByStep' /\ ~Served' /\ UNCHANGED <<krd, disk, scanned, unpaired, forgotten>>
         /\ NoneAsking => NoneAsking'
<1>1. Core' /\ Asks /\ call'[Kr] = Idle /\ UNCHANGED <<krd, disk, scanned, unpaired, forgotten>>
  BY CoreHangUp, KrCalls DEF HangUp, phoneVars, Inv, ServerInv
<1>2. \A c \in Callers \ {Kr} : call'[c] = call[c]
  BY KrCalls DEF HangUp, Inv, ServerInv, Core, Types, ServerTypes
<1>3. CallsByStep'
  BY KrHangsUpCalls DEF Inv, ServerInv, Core
<1>4. ~Served' /\ (NoneAsking => NoneAsking')
  BY <1>1, <1>2 DEF Served, Idle, NoneAsking, Asking
<1> QED BY <1>1, <1>3, <1>4

LEMMA InvRequestMeForceRefresh ==
  ASSUME Inv, RequestMeForceRefresh
  PROVE  Inv'
<1> USE DEF Inv
<1>1. At(Kr, "refresh") /\ UNCHANGED transfer
  BY DEF RequestMeForceRefresh
<1>2. CASE Send(Kr, "getPair") /\ UNCHANGED todo
  BY <1>1, <1>2, KrSends DEF Ops
<1>3. CASE HangUp(Kr) /\ Done(Kr)
  <2>1. /\ Core' /\ CallsByStep' /\ UNCHANGED <<krd, disk, scanned, unpaired, forgotten>>
    BY <1>3, KrHangsUp
  <2>2. /\ transfer.ended = "not" /\ todo[Kr] = <<"refresh">> \o Rest(27) /\ AtStep(27)
    <3>1. \A k \in 1..27 : TransferAuthorityMain[k] # "refresh"
      BY StepsByName
    <3>2. "refresh" # "delete"
      OBVIOUS
    <3>3. Inv
      OBVIOUS
    <3> HIDE DEF Inv
    <3> QED BY <1>1, <3>1, <3>2, <3>3, KrAt, Zenon
  <2>3. todo' \in [{Kr} -> Seq(Steps)] /\ todo'[Kr] = Rest(27)
    BY <1>3, <2>2, DoneOther DEF TransferInv
  <2>4. KrTypes' /\ MovedFiles'
    BY <1>1, <2>1, <2>3 DEF TransferInv, KrTypes, MovedFiles
  <2>5. AllKept' /\ unpaired' \subseteq {"prior"}
    BY <1>1, <2>1 DEF TransferInv, AllKept, Kept
  <2>6. AtStep(27)'
    <3>1. OnNew /\ disk.pub = "new"
      BY <2>2, AtLast
    <3>2. OnNew' /\ disk'.pub = "new"
      BY <2>1, <3>1 DEF OnNew, OnDisk, PairingLoaded, ProfileLoaded
    <3> QED BY <3>2 DEF AtStep
  <2>7. transfer'.ended = "not" /\ 27 \in 1..27
    BY <1>1, <2>2
  <2> QED BY <2>1, <2>3, <2>4, <2>5, <2>6, <2>7, InvAtStep
<1> QED BY <1>2, <1>3 DEF RequestMeForceRefresh

(* The answer to a call that kr takes for a success.                       *)
LEMMA NoErrIsServed ==
  ASSUME ServerTypes, Replied(Kr), Err(Kr) = "none"
  PROVE  Served
<1>1. call[Kr].status \in {0, 200, 404, 500} /\ call[Kr].op \in Ops \cup {"none"}
  BY KrCalls DEF ServerTypes, CallState, Statuses
<1>2. call[Kr].status = 200
  <2>1. CASE call[Kr].status = 0
    BY <2>1 DEF Err, Error
  <2>2. CASE call[Kr].status = 404
    BY <2>2 DEF Err, Error
  <2>3. CASE call[Kr].status = 500
    BY <2>3 DEF Err, Error
  <2> QED BY <1>1, <2>1, <2>2, <2>3
<1> QED BY <1>2 DEF Served, Replied

LEMMA InvCallReturns ==
  ASSUME Inv, CallReturns
  PROVE  Inv'
<1> USE DEF Inv
<1> DEFINE op == call[Kr].op
<1>1. /\ Replied(Kr) /\ ~At(Kr, "refresh") /\ HangUp(Kr) /\ Done(Kr) /\ Served
      /\ Core /\ CallsByStep
  BY NoErrIsServed DEF CallReturns, ServerInv, Core, Types
<1>2. At(Kr, op) /\ op \in Ops \cup {"none"} /\ op # "refresh"
  BY <1>1, KrCalls DEF CallsByStep, Replied, Core, Types, ServerTypes, CallState, Ops
<1>3. /\ Core' /\ CallsByStep' /\ ~Served' /\ UNCHANGED <<krd, disk, scanned, unpaired, forgotten>>
      /\ NoneAsking => NoneAsking'
  BY <1>1, KrHangsUp
<1>4. /\ transfer'.left \in Seq(HostNames) /\ transfer'.granted = transfer.granted
      /\ transfer'.ended = transfer.ended /\ DOMAIN transfer' = DOMAIN transfer
      /\ op # "hosts" => transfer'.left = transfer.left
  <2>1. CASE op = "hosts"
    <3>1. PICK hosts \in HostLists : transfer' = [transfer EXCEPT !.left = hosts]
      BY <2>1 DEF CallReturns
    <3>2. hosts \in Seq(HostNames)
      BY HostListed
    <3>3. transfer'.left = hosts /\ transfer'.granted = transfer.granted
          /\ transfer'.ended = transfer.ended /\ DOMAIN transfer' = DOMAIN transfer
      BY <3>1 DEF TransferInv, KrTypes
    <3> QED BY <2>1, <3>2, <3>3
  <2>2. CASE op = "me"
    <3>1. \/ transfer' = [transfer EXCEPT !.oldProfile = call[Kr].body]
          \/ transfer' = [transfer EXCEPT !.newProfile = call[Kr].body]
      BY <2>2 DEF CallReturns
    <3> QED BY <2>2, <3>1 DEF TransferInv, KrTypes
  <2>3. CASE op \notin {"hosts", "me"}
    BY <2>3 DEF CallReturns, TransferInv, KrTypes
  <2> QED BY <2>1, <2>2, <2>3
<1> HIDE DEF op
<1>5. CASE op = "delete"
  <2>1. transfer.ended = "not" /\ todo[Kr] = <<"delete">> /\ Before
    <3>1. \A k \in 1..27 : TransferAuthorityMain[k] # "delete"
      BY StepsByName
    <3> QED BY <1>2, <1>5, <3>1, KrAt
  <2>2. todo' \in [{Kr} -> Seq(Steps)] /\ todo'[Kr] = <<>>
    BY <1>1, <2>1, DoneOther DEF TransferInv
  <2>3. KrTypes' /\ MovedFiles'
    BY <1>3, <1>4, <2>2 DEF TransferInv, KrTypes, MovedFiles
  <2>4. Before'
    BY <1>3, <2>1 DEF Before, PairingLoaded, ProfileLoaded
  <2>5. AllKept' /\ unpaired' \subseteq {"prior"}
    BY <1>3, <1>4, <1>5 DEF TransferInv, AllKept, Kept
  <2> QED BY <1>3, <1>4, <2>1, <2>2, <2>3, <2>4, <2>5 DEF ServerInv, TransferInv, Running
<1>6. CASE op # "delete"
  <2>1. transfer.ended = "not"
    BY <1>2, <1>6, KrStepOf
  <2>2. PICK k \in 1..27 : todo[Kr] = Rest(k) /\ AtStep(k) /\ TransferAuthorityMain[k] = op
    BY <1>2, <1>6, KrStepOf
  <2>3. k \in {1, 2, 3, 4, 10, 11, 12} /\ (k # 4 => op # "hosts")
    BY <1>2, <1>6, <2>2, StepsByName DEF Ops
  <2>4. k + 1 \in 1..27
    BY <2>3
  <2>5. AtStep(k + 1)'
    <3>1. CASE k \in {1, 2, 3, 4}
      <4>1. WithOld
        BY <1>1, <2>2, <3>1 DEF AtStep
      <4>2. WithOld'
        BY <1>3, <4>1 DEF WithOld, OnDisk, PairingLoaded
      <4> QED BY <3>1, <4>2 DEF AtStep
    <3>2. CASE k = 10
      <4>1. WithNew
        BY <1>1, <2>2, <3>2 DEF AtStep
      <4>2. WithNew'
        BY <1>3, <4>1 DEF WithNew, OnDisk, PairingLoaded
      <4> QED BY <1>3, <3>2, <4>2 DEF AtStep
    <3>3. CASE k \in {11, 12}
      <4>1. NewKnown
        BY <1>1, <2>2, <3>3 DEF AtStep
      <4>2. NewKnown'
        BY <1>3, <4>1 DEF NewKnown, WithNew, OnDisk, PairingLoaded, ProfileLoaded
      <4>3. CASE k = 11
        BY <4>2, <4>3 DEF AtStep
      <4>4. CASE k = 12
        BY <4>2, <4>4 DEF AtStep
      <4> QED BY <3>3, <4>3, <4>4
    <3> QED BY <2>3, <3>1, <3>2, <3>3
  <2>6. todo' \in [{Kr} -> Seq(Steps)] /\ todo'[Kr] = Rest(k + 1)
    BY <1>1, <2>2, DoneStep DEF TransferInv
  <2>7. KrTypes' /\ MovedFiles'
    BY <1>3, <1>4, <2>6 DEF TransferInv, KrTypes, MovedFiles
  <2>8. unpaired' \subseteq {"prior"}
    BY <1>3 DEF TransferInv
  <2>9. AllKept'
    <3>1. CASE op # "hosts"
      BY <1>3, <1>4, <3>1 DEF TransferInv, AllKept, Kept
    <3>2. CASE op = "hosts"
      <4>1. disk.pairing = "old"
        BY <2>2, <2>3, <3>2 DEF AtStep, WithOld, OnDisk
      <4> QED BY <1>3, <4>1 DEF TransferInv, AllKept, Kept
    <3> QED BY <3>1, <3>2
  <2> QED BY <1>3, <1>4, <2>1, <2>4, <2>5, <2>6, <2>7, <2>8, <2>9, InvAtStep
<1> QED BY <1>5, <1>6

LEMMA InvKrStep ==
  ASSUME Inv, ProfilesInv, KrStep
  PROVE  Inv'
BY InvCallKrd, InvCallReturns, InvConfirm, InvKillKrd, InvStartKrd, InvRename, InvSaveProfile,
   InvAuthorizeHost, InvHandleSpecialCase, InvHostsHandled, InvRequestMeForceRefresh,
   InvTransferDone DEF KrStep

-----------------------------------------------------------------------------
(* The whole workstation.                                                  *)

LEMMA InvInit == Init => Inv
<1> SUFFICES ASSUME Init PROVE Inv
  OBVIOUS
<1>1. /\ krd = Down /\ scanned = {"prior"} /\ unpaired = {} /\ forgotten = {}
      /\ saving = {} /\ unsaved = {} /\ late = FALSE
      /\ disk = [pairing |-> "prior", old |-> None, new |-> None, me |-> "prior", pub |-> "prior"]
      /\ call = [c \in Callers |-> Idle]
  BY DEF Init, ServerInit
<1>2. todo[Kr] = <<>> /\ todo \in [{Kr} -> Seq(Steps)]
  <2>1. <<>> \in Seq(Steps)
    BY EmptySeq
  <2> QED BY <2>1 DEF Init
<1>3. /\ transfer.left = <<>> /\ transfer.granted = {} /\ transfer.ended = "not"
      /\ DOMAIN transfer = {"oldProfile", "newProfile", "left", "services", "due", "granted",
                            "asked", "ended"}
  BY DEF Init, TransferInit
<1>4. Idle \in CallState /\ Idle.pc = "idle" /\ Idle.op = "none" /\ Idle.body = None
  BY DEF Idle, CallState, Stored, Statuses
<1>5. \A c \in Callers : call[c] = Idle
  BY <1>1
<1>6. /\ disk.pairing = "prior" /\ disk.old = None /\ disk.new = None /\ disk.me = "prior"
      /\ disk \in [{"pairing", "old", "new", "me", "pub"} -> Stored]
  BY <1>1 DEF Stored, Pairings
<1>7. ~krd.up /\ krd.pairing = None /\ krd \in [up : BOOLEAN, pairing : Stored, me : Stored]
  BY <1>1 DEF Down, Stored
<1>8. call \in [Callers -> CallState]
  <2> HIDE DEF Idle
  <2> QED BY <1>1, <1>4
<1>9. Types
  <2>1. ServerTypes
    BY <1>1, <1>6, <1>7, <1>8 DEF ServerTypes, Pairings
  <2>2. BodyTypes
    BY <1>4, <1>5 DEF BodyTypes, Stored
  <2> QED BY <2>1, <2>2 DEF Types
<1>10. DownIsDown /\ ProfilesOnTheWay /\ WaitsForPhone /\ CallsByStep
  BY <1>1, <1>4, <1>5, KrCalls DEF DownIsDown, ProfilesOnTheWay, WaitsForPhone, CallsByStep, Asking
<1>11. Before
  BY <1>4, <1>5, <1>6, <1>7 DEF Before, PairingLoaded, ProfileLoaded, NoneAsking, Asking
<1>12. KrTypes /\ MovedFiles
  <2>1. <<>> \in Seq(HostNames)
    BY EmptySeq
  <2> QED BY <1>2, <1>3, <1>6, <2>1 DEF KrTypes, MovedFiles
<1>13. AllKept
  BY <1>1, <1>6, <1>7, PairingsOrNone DEF AllKept, Kept
<1> QED BY <1>1, <1>2, <1>3, <1>9, <1>10, <1>11, <1>12, <1>13
        DEF Inv, ServerInv, Core, TransferInv, Running

LEMMA BaseInit == Init => Base /\ ProfilesInv
<1> SUFFICES ASSUME Init PROVE Base /\ ProfilesInv
  OBVIOUS
<1>1. todo[Kr] = <<>> /\ transfer.oldProfile = None /\ transfer.newProfile = None
  BY DEF Init, TransferInit
<1>2. KrPath /\ ProfileTypes
  BY <1>1 DEF KrPath, ProfileTypes, Stored
<1>3. ProfilesInv
  <2>1. \A k \in 1..27 : Rest(k) # <<>>
    BY RestSteps
  <2> QED BY <1>1, <2>1 DEF ProfilesInv
<1> QED BY <1>2, <1>3, InvInit DEF Base, Inv, ServerInv, Core, TransferInv

LEMMA InvUnchanged ==
  ASSUME Inv, UNCHANGED serverVars, UNCHANGED <<todo, transfer>>
  PROVE  Inv'
<1>1. Core' /\ Upkeep /\ UNCHANGED call
  BY SameServer DEF Inv, ServerInv
<1>2. CallsByStep'
  BY <1>1, SameCallsByStep DEF Inv, ServerInv, SameCalls
<1> QED BY <1>1, <1>2, InvUpkeep

LEMMA InvGitStep ==
  ASSUME Inv, GitStep, UNCHANGED <<todo, transfer>>
  PROVE  Inv'
<1>1. Git \in Callers \ {Kr}
  BY KrCalls
<1>2. CASE \E object \in Objects : SignGit(object)
  <2>1. UNCHANGED serverVars \/ Send(Git, "gitSign")
    BY <1>2 DEF SignGit
  <2> QED BY <1>1, <2>1, InvUnchanged, InvSend
<1>3. CASE SignatureReturns
  BY <1>1, <1>3, InvHangUp DEF SignatureReturns
<1>4. CASE \E succeeds \in BOOLEAN : RedirectToGPG(succeeds)
  BY <1>4, InvUnchanged DEF RedirectToGPG
<1>5. CASE Ended
  BY <1>5, InvUnchanged DEF Ended
<1> QED BY <1>2, <1>3, <1>4, <1>5 DEF GitStep

LEMMA InvRequestMe ==
  ASSUME Inv, NEW c \in Others, RequestMe(c), UNCHANGED <<todo, transfer>>
  PROVE  Inv'
<1>1. c \in Callers \ {Kr}
  BY DEF Others
<1>2. Send(c, "me") \/ HangUp(c)
  BY DEF RequestMe
<1> QED BY <1>1, <1>2, InvSend, InvHangUp

LEMMA InvStep ==
  ASSUME Inv, ProfilesInv, [Next]_vars, Undisturbed'
  PROVE  Inv'
<1>1. CASE \E command \in DOMAIN Commands : RunKr(command)
  BY <1>1, InvRunKr
<1>2. CASE KrStep
  BY <1>2, InvKrStep
<1>3. CASE GiveUp
  BY <1>3, InvGiveUp
<1>4. CASE GitStep /\ UNCHANGED <<todo, transfer>>
  BY <1>4, InvGitStep
<1>5. CASE (\E c \in Callers : Serve(c) \/ TimeOut(c)) /\ UNCHANGED <<todo, transfer>>
  BY <1>5, InvServe, InvTimeOut
<1>6. ~late' /\ {"old", "new"} \cap forgotten' = {}
  BY DEF Undisturbed
<1>7. CASE /\ \E c \in Callers, body \in GitSignResponses : Answer(c, body)
           /\ UNCHANGED <<todo, transfer>>
  BY <1>6, <1>7, InvAnswer
<1>8. CASE /\ Scan \/ (\E p \in Pairings : SaveScanned(p)) \/ Acknowledge
           /\ UNCHANGED <<todo, transfer>>
  BY <1>6, <1>8, InvSaved
<1>9. CASE PhoneUnpairs /\ UNCHANGED <<todo, transfer>>
  BY <1>6, <1>9, InvPhoneUnpairs
<1>10. CASE ((\E c \in Others : RequestMe(c)) \/ Crash) /\ UNCHANGED <<todo, transfer>>
  BY <1>10, InvRequestMe, InvCrash
<1>11. CASE UNCHANGED vars
  <2>1. UNCHANGED serverVars /\ UNCHANGED <<todo, transfer>>
    BY <1>11 DEF vars
  <2> QED BY <2>1, InvUnchanged
<1> QED BY <1>1, <1>2, <1>3, <1>4, <1>5, <1>7, <1>8, <1>9, <1>10, <1>11 DEF Next

-----------------------------------------------------------------------------
(* The profiles that kr gets from krd are those of the phones it paired    *)
(* krd with.                                                               *)

(* kr's call is answered with the profile that krd has, or gets.           *)
KrAnswered ==
    Served' =>
        \/ Served /\ call'[Kr].body = call[Kr].body
        \/ /\ call[Kr].pc # "idle"
           /\ call[Kr].op = "me" => krd.up /\ call'[Kr].body \in {krd.me, krd.pairing} \ {None}

LEMMA UpkeepAnswered == Upkeep => KrAnswered
BY DEF Upkeep, KrServed, KrAnswered

LEMMA RestAt ==
  ASSUME Inv, NEW k \in 1..27, todo[Kr] = Rest(k)
  PROVE  transfer.ended = "not" /\ AtStep(k)
<1> DEFINE step == TransferAuthorityMain[k]
<1>1. At(Kr, step)
  BY RestSteps DEF At
<1>2. step \notin {"delete", "refresh"}
  BY StepsByName
<1> HIDE DEF step
<1>3. PICK j \in 1..27 : todo[Kr] = Rest(j) /\ AtStep(j)
  BY <1>1, <1>2, KrStepOf
<1>4. j = k
  BY <1>3, RestInjective
<1> QED BY <1>1, <1>2, <1>3, <1>4, KrStepOf

SameProfiles == transfer'.oldProfile = transfer.oldProfile /\ transfer'.newProfile = transfer.newProfile

LEMMA ProfilesSame ==
  ASSUME Inv, ProfilesInv, KrAnswered, UNCHANGED todo, SameProfiles,
         transfer'.ended = transfer.ended
  PROVE  ProfilesInv'
<1>1. todo'[Kr] \in {<<>>, <<"delete">>} /\ transfer'.ended = "not" => transfer'.oldProfile = None
  BY DEF ProfilesInv, SameProfiles
<1>2. ASSUME NEW k \in 1..27, todo[Kr] = Rest(k) PROVE ProfilesAt(k)'
  <2>1. ProfilesAt(k) /\ AtStep(k)
    BY <1>2, RestAt DEF ProfilesInv
  <2>2. call[Kr].pc # "idle" => call[Kr].op = TransferAuthorityMain[k]
    BY <1>2, KrCallAtStep DEF Inv, ServerInv
  <2>3. ASSUME k = 3, Served' PROVE call'[Kr].body = "old"
    <3>1. call[Kr].pc # "idle" => call[Kr].op = "me"
      BY <2>2, <2>3, MainSteps
    <3>2. krd.up => krd.me \in {None, "old"} /\ krd.pairing = "old"
      BY <2>1, <2>3 DEF AtStep, WithOld, OnDisk, PairingLoaded
    <3> QED BY <2>1, <2>3, <3>1, <3>2 DEF KrAnswered, ProfilesAt
  <2>4. ASSUME k = 12, Served' PROVE call'[Kr].body = "new"
    <3>1. call[Kr].pc # "idle" => call[Kr].op = "me"
      BY <2>2, <2>4, MainSteps
    <3>2. krd.up => krd.me = "new" /\ krd.pairing = "new"
      BY <2>1, <2>4 DEF AtStep, NewKnown, WithNew, OnDisk, PairingLoaded, ProfileLoaded
    <3> QED BY <2>1, <2>4, <3>1, <3>2 DEF KrAnswered, ProfilesAt
  <2> QED BY <2>1, <2>3, <2>4 DEF ProfilesAt, SameProfiles
<1> QED BY <1>1, <1>2 DEF ProfilesInv

LEMMA ProfilesNext ==
  ASSUME NEW k \in 1..27, todo'[Kr] = Rest(k), ProfilesAt(k)'
  PROVE  ProfilesInv'
<1>1. todo'[Kr] \notin {<<>>, <<"delete">>}
  BY RestInjective
<1>2. \A j \in 1..27 : todo'[Kr] = Rest(j) => j = k
  BY RestInjective
<1> QED BY <1>1, <1>2 DEF ProfilesInv

(* kr goes on from a step by which it gets no profile.                     *)
LEMMA ProfilesDone ==
  ASSUME Inv, ProfilesInv, NEW k \in 1..26, k # 3, k # 12, todo[Kr] = Rest(k), Done(Kr),
         ~Served', SameProfiles
  PROVE  ProfilesInv'
<1>1. k \in 1..27 /\ k + 1 \in 1..27
  OBVIOUS
<1>2. todo'[Kr] = Rest(k + 1)
  BY <1>1, DoneStep DEF Inv, TransferInv
<1>3. ProfilesAt(k)
  BY <1>1 DEF ProfilesInv
<1>4. ProfilesAt(k + 1)'
  BY <1>3 DEF ProfilesAt, SameProfiles
<1> QED BY <1>1, <1>2, <1>4, ProfilesNext

LEMMA ProfilesEnd ==
  ASSUME todo'[Kr] = <<>>, transfer'.ended # "not"
  PROVE  ProfilesInv'
<1>1. \A k \in 1..27 : Rest(k) # <<>>
  BY RestSteps
<1> QED BY <1>1 DEF ProfilesInv

(* Once the files are those of the new phone, kr needs no profile.         *)
LEMMA ProfilesLast ==
  ASSUME todo'[Kr] = Rest(27) \/ todo'[Kr] = <<"refresh">> \o Rest(27)
  PROVE  ProfilesInv'
<1>1. 27 \in 1..27
  OBVIOUS
<1>2. CASE todo'[Kr] = Rest(27)
  <2>1. ProfilesAt(27)'
    BY DEF ProfilesAt
  <2> QED BY <1>1, <1>2, <2>1, ProfilesNext
<1>3. CASE todo'[Kr] = <<"refresh">> \o Rest(27)
  <2> DEFINE r == <<"refresh">> \o Rest(27)
  <2>1. \A k \in 1..27 : Rest(k) # r
    BY RestInjective, Zenon
  <2>2. r # <<>> /\ Head(r) = "refresh"
    BY RefreshSteps, Zenon
  <2> HIDE DEF r
  <2>3. Head(<<"delete">>) = "delete" /\ "delete" # "refresh"
    OBVIOUS
  <2>4. r # <<"delete">>
    BY <2>2, <2>3, Zenon
  <2>5. todo'[Kr] = r
    BY <1>3 DEF r
  <2> QED BY <2>1, <2>2, <2>4, <2>5 DEF ProfilesInv
<1> QED BY <1>2, <1>3

LEMMA ProfilesRunKr ==
  ASSUME Inv, ProfilesInv, NEW command \in DOMAIN Commands, RunKr(command)
  PROVE  ProfilesInv'
<1>1. /\ todo[Kr] = <<>> /\ transfer.ended = "not" /\ transfer' = transfer
      /\ todo' = [todo EXCEPT ![Kr] = Commands[command]]
  BY DEF RunKr
<1>2. transfer'.oldProfile = None
  BY <1>1 DEF ProfilesInv
<1>3. CASE command = "transfer"
  <2>1. todo' = [todo EXCEPT ![Kr] = Rest(1)]
    BY <1>1, <1>3, RestEnds DEF Commands
  <2>2. todo'[Kr] = Rest(1) /\ 1 \in 1..27
    <3>1. Kr \in DOMAIN todo
      BY DEF Inv, TransferInv, KrTypes
    <3>2. todo'[Kr] = Rest(1)
      BY <2>1, <3>1, Zenon
    <3> QED BY <3>2
  <2>3. ProfilesAt(1)'
    BY <1>2 DEF ProfilesAt
  <2> QED BY <2>2, <2>3, ProfilesNext
<1>4. CASE command = "unpair"
  <2>1. todo' = [todo EXCEPT ![Kr] = <<"delete">>]
    BY <1>1, <1>4 DEF Commands
  <2>2. todo'[Kr] = <<"delete">>
    BY <2>1 DEF Inv, TransferInv, KrTypes
  <2>3. \A k \in 1..27 : Rest(k) # <<"delete">>
    BY RestInjective
  <2> QED BY <1>2, <2>2, <2>3 DEF ProfilesInv
<1> QED BY <1>3, <1>4 DEF Commands

LEMMA ProfilesCallReturns ==
  ASSUME Inv, ProfilesInv, CallReturns
  PROVE  ProfilesInv'
<1> DEFINE op == call[Kr].op
<1>1. /\ Replied(Kr) /\ ~At(Kr, "refresh") /\ HangUp(Kr) /\ Done(Kr) /\ Served
  BY NoErrIsServed DEF CallReturns, Inv, ServerInv, Core, Types
<1>2. At(Kr, op) /\ op \in Ops \cup {"none"} /\ op # "refresh"
  BY <1>1, KrCalls DEF CallsByStep, Replied, Inv, ServerInv, Core, Types, ServerTypes, CallState, Ops
<1>3. ~Served' /\ KrTypes
  BY <1>1, KrHangsUp DEF Inv, TransferInv
<1>4. op # "me" => SameProfiles
  BY <1>3 DEF CallReturns, KrTypes, SameProfiles
<1>5. op = "me" =>
         /\ transfer.oldProfile = None => transfer'.oldProfile = call[Kr].body
         /\ transfer.oldProfile # None => /\ transfer'.oldProfile = transfer.oldProfile
                                          /\ transfer'.newProfile = call[Kr].body
  BY <1>3 DEF CallReturns, KrTypes
<1> HIDE DEF op
<1>6. CASE op = "delete"
  <2>1. transfer.ended = "not" /\ todo[Kr] = <<"delete">>
    <3>1. \A k \in 1..27 : TransferAuthorityMain[k] # "delete"
      BY StepsByName
    <3> QED BY <1>2, <1>6, <3>1, KrAt
  <2>2. todo'[Kr] = <<>>
    BY <1>1, <1>3, <2>1, DoneOther
  <2>3. transfer'.oldProfile = None
    BY <1>4, <1>6, <2>1 DEF ProfilesInv, SameProfiles
  <2>4. \A k \in 1..27 : Rest(k) # <<>>
    BY RestSteps
  <2> QED BY <2>2, <2>3, <2>4 DEF ProfilesInv
<1>7. CASE op # "delete"
  <2>1. PICK k \in 1..27 : todo[Kr] = Rest(k) /\ TransferAuthorityMain[k] = op
    BY <1>2, <1>7, KrStepOf
  <2>2. k \in {1, 2, 3, 4, 10, 11, 12} /\ (op = "me" => k \in {3, 12})
    BY <1>2, <1>7, <2>1, StepsByName DEF Ops
  <2>3. k \in {3, 12} => op = "me"
    BY <2>1, MainSteps
  <2>4. CASE k # 3 /\ k # 12
    <3>1. k \in 1..26 /\ SameProfiles
      BY <1>4, <2>2, <2>4
    <3> QED BY <1>1, <1>3, <2>1, <2>4, <3>1, ProfilesDone
  <2>5. CASE k \in {3, 12}
    <3>1. k + 1 \in 1..27 /\ todo'[Kr] = Rest(k + 1)
      <4>1. k + 1 \in 1..27
        BY <2>5
      <4>2. todo'[Kr] = Rest(k + 1)
        BY <1>1, <1>3, <2>1, DoneStep
      <4> QED BY <4>1, <4>2
    <3>2. ProfilesAt(k)
      BY <2>1 DEF ProfilesInv
    <3>3. CASE k = 3
      <4>1. transfer'.oldProfile = "old"
        BY <1>1, <1>5, <2>3, <3>2, <3>3 DEF ProfilesAt
      <4>2. ProfilesAt(k + 1)'
        BY <3>3, <4>1 DEF ProfilesAt
      <4> QED BY <3>1, <4>2, ProfilesNext
    <3>4. CASE k = 12
      <4>1. transfer'.oldProfile = "old" /\ transfer'.newProfile = "new"
        BY <1>1, <1>5, <2>3, <3>2, <3>4, PairingsOrNone DEF ProfilesAt
      <4>2. ProfilesAt(k + 1)'
        BY <3>4, <4>1 DEF ProfilesAt
      <4> QED BY <3>1, <4>2, ProfilesNext
    <3> QED BY <2>5, <3>3, <3>4
  <2> QED BY <2>4, <2>5
<1> QED BY <1>6, <1>7

(* A step of kr that is no call.                                           *)
LEMMA ProfilesFree ==
  ASSUME Inv, ProfilesInv, NEW step, At(Kr, step), Done(Kr), SameProfiles,
         step \notin Ops \cup {"none", "refresh", "special"},
         call[Kr].pc = "idle" => call'[Kr].pc = "idle"
  PROVE  ProfilesInv'
<1>1. step \notin {"delete", "refresh", "me", "special"}
  BY DEF Ops
<1>2. PICK k \in 1..27 : todo[Kr] = Rest(k) /\ TransferAuthorityMain[k] = step
  BY <1>1, KrStepOf
<1>3. k \in 1..26 /\ k # 3 /\ k # 12
  <2>1. /\ TransferAuthorityMain[3] = "me" /\ TransferAuthorityMain[12] = "me"
        /\ TransferAuthorityMain[27] = "special"
    BY MainSteps
  <2>2. k # 3 /\ k # 12 /\ k # 27
    BY <1>1, <1>2, <2>1, Zenon
  <2> QED BY <2>2
<1>4. ~Served'
  BY KrIdle DEF Served
<1> QED BY <1>2, <1>3, <1>4, ProfilesDone

LEMMA ProfilesKrStep ==
  ASSUME Inv, ProfilesInv, KrStep
  PROVE  ProfilesInv'
<1>1. Core /\ CallsByStep /\ KrTypes
  BY DEF Inv, ServerInv, TransferInv
<1>2. ASSUME NEW op \in Ops, Send(Kr, op), UNCHANGED <<todo, transfer>> PROVE ProfilesInv'
  <2>1. KrAnswered
    BY <1>1, <1>2, KrCalls, CoreSend, UpkeepAnswered
  <2> QED BY <1>2, <2>1, ProfilesSame DEF SameProfiles
<1>3. CASE \E op \in Ops : CallKrd(op)
  BY <1>2, <1>3 DEF CallKrd
<1>4. ASSUME NEW pgp \in BOOLEAN, NEW continue \in BOOLEAN, Confirm(pgp, continue)
      PROVE  ProfilesInv'
  <2>1. At(Kr, "confirm") /\ UNCHANGED call
    BY <1>4 DEF Confirm, serverVars
  <2>2. SameProfiles /\ (~continue => transfer'.ended # "not")
    BY <1>1, <1>4 DEF Confirm, KrTypes, SameProfiles
  <2>3. CASE continue
    <3>1. Done(Kr)
      BY <1>4, <2>3 DEF Confirm
    <3> QED BY <2>1, <2>2, <3>1, ProfilesFree DEF Ops
  <2>4. CASE ~continue
    <3>1. todo' = [todo EXCEPT ![Kr] = <<>>]
      BY <1>4, <2>4 DEF Confirm
    <3>2. todo'[Kr] = <<>>
      BY <1>1, <3>1 DEF KrTypes
    <3> QED BY <2>2, <2>4, <3>2, ProfilesEnd
  <2> QED BY <2>3, <2>4
<1>5. CASE KillKrd
  <2>1. At(Kr, "kill") /\ Done(Kr) /\ UNCHANGED transfer /\ Kill
    BY <1>5 DEF KillKrd
  <2>2. call[Kr].pc = "idle" => call'[Kr].pc = "idle"
    BY <1>1, <2>1, KillSameCalls DEF Core, SameCalls
  <2> QED BY <2>1, <2>2, ProfilesFree DEF Ops, SameProfiles
<1>6. CASE StartKrd \/ HostsHandled
  <2>1. PICK step \in {"start", "authorize"} : At(Kr, step)
    BY <1>6 DEF StartKrd, HostsHandled
  <2>2. Done(Kr) /\ UNCHANGED <<call, transfer>>
    BY <1>6 DEF StartKrd, HostsHandled, serverVars
  <2> QED BY <2>1, <2>2, ProfilesFree DEF Ops, SameProfiles
<1>7. ASSUME NEW r \in Renames, Rename(r) PROVE ProfilesInv'
  <2>1. r.step \in {"rename pairing old", "rename pairing new", "rename old pairing",
                    "rename new pairing"}
    BY RenameFields
  <2>2. At(Kr, r.step) /\ Done(Kr) /\ UNCHANGED <<call, transfer>>
    BY <1>7 DEF Rename
  <2> QED BY <2>1, <2>2, ProfilesFree DEF Ops, SameProfiles
<1>8. ASSUME NEW s \in Saves, SaveProfile(s) PROVE ProfilesInv'
  <2>1. s.step \in {"saveMe old", "saveMe new", "savePub old", "savePub new"}
    BY SaveFields
  <2>2. At(Kr, s.step) /\ Done(Kr) /\ UNCHANGED <<call, transfer>>
    BY <1>8 DEF SaveProfile
  <2> QED BY <2>1, <2>2, ProfilesFree DEF Ops, SameProfiles
<1>9. ASSUME NEW b \in BOOLEAN, AuthorizeHost(b) PROVE ProfilesInv'
  <2>1. UNCHANGED <<call, todo>>
    BY <1>9 DEF AuthorizeHost
  <2>2. SameProfiles /\ transfer'.ended = transfer.ended
    BY <1>1, <1>9 DEF AuthorizeHost, KrTypes, SameProfiles
  <2>3. KrAnswered
    BY <2>1 DEF KrAnswered, Served
  <2> QED BY <2>1, <2>2, <2>3, ProfilesSame
<1>10. ASSUME NEW b \in BOOLEAN, HandleSpecialCase(b) PROVE ProfilesInv'
  <2>1. At(Kr, "special")
    BY <1>10 DEF HandleSpecialCase
  <2>2. todo[Kr] = Rest(27)
    <3>1. PICK k \in 1..27 : todo[Kr] = Rest(k) /\ TransferAuthorityMain[k] = "special"
      BY <2>1, KrStepOf
    <3>2. k = 27
      BY <3>1, StepsByName
    <3> QED BY <3>1, <3>2
  <2>3. \/ todo' = [todo EXCEPT ![Kr] = todo[Kr]]
        \/ todo' = [todo EXCEPT ![Kr] = <<"refresh">> \o todo[Kr]]
    BY <1>10 DEF HandleSpecialCase
  <2>4. Kr \in DOMAIN todo
    BY <1>1 DEF KrTypes
  <2>5. todo'[Kr] = Rest(27) \/ todo'[Kr] = <<"refresh">> \o Rest(27)
    BY <2>2, <2>3, <2>4, Zenon
  <2> QED BY <2>5, ProfilesLast
<1>11. CASE RequestMeForceRefresh
  <2>1. CASE Send(Kr, "getPair") /\ UNCHANGED todo
    BY <1>2, <1>11, <2>1 DEF RequestMeForceRefresh, Ops
  <2>2. CASE HangUp(Kr) /\ Done(Kr)
    <3>1. \A k \in 1..27 : TransferAuthorityMain[k] # "refresh"
      BY StepsByName
    <3>2. "refresh" # "delete" /\ At(Kr, "refresh")
      BY <1>11 DEF RequestMeForceRefresh
    <3>3. todo[Kr] = <<"refresh">> \o Rest(27)
      BY <3>1, <3>2, KrAt, Zenon
    <3>4. todo'[Kr] = Rest(27)
      BY <1>1, <2>2, <3>3, DoneOther
    <3> QED BY <3>4, ProfilesLast
  <2> QED BY <1>11, <2>1, <2>2 DEF RequestMeForceRefresh
<1>12. CASE TransferDone
  <2>1. PICK k \in 1..27 : todo[Kr] = Rest(k) /\ TransferAuthorityMain[k] = "special"
    BY <1>12, KrStepOf DEF TransferDone
  <2>2. k = 27
    BY <2>1, StepsByName
  <2>3. todo'[Kr] = Rest(k + 1)
    BY <1>1, <1>12, <2>1, DoneStep DEF TransferDone
  <2>4. k + 1 = 28
    BY <2>2
  <2>5. todo'[Kr] = <<>>
    BY <2>3, <2>4, RestEnds, Zenon
  <2>6. transfer'.ended = "done"
    BY <1>1, <1>12 DEF TransferDone, KrTypes
  <2> QED BY <2>5, <2>6, ProfilesEnd
<1> QED BY <1>3, <1>4, <1>5, <1>6, <1>7, <1>8, <1>9, <1>10, <1>11, <1>12, ProfilesCallReturns
        DEF KrStep

LEMMA ProfilesServe ==
  ASSUME Inv, NEW c \in Callers, Serve(c)
  PROVE  KrAnswered
<1>1. Core /\ CallsByStep /\ call[c].pc = "sent"
  BY DEF Inv, ServerInv, Serve
<1>2. CASE call[c].op \in {"putOld", "putNew", "delete"}
  <2>1. c = Kr
    BY <1>1, <1>2 DEF CallsByStep
  <2> QED BY <1>1, <1>2, <2>1 DEF KrAnswered
<1>3. CASE call[c].op \notin {"putOld", "putNew", "delete"}
  BY <1>1, <1>3, CoreServe, UpkeepAnswered
<1> QED BY <1>2, <1>3

LEMMA ProfilesPhoneUnpairs ==
  ASSUME Inv, PhoneUnpairs
  PROVE  KrAnswered
<1>1. Types
  BY DEF Inv, ServerInv, Core
<1>2. call[Kr].pc # "waiting" => call'[Kr] = call[Kr]
  BY <1>1, UnpairsCalls, KrCalls
<1>3. call[Kr].pc = "waiting" => call'[Kr].status = 404
  BY <1>1, UnpairsCalls, KrCalls
<1> QED BY <1>2, <1>3 DEF KrAnswered, Served

LEMMA ProfilesStep ==
  ASSUME Inv, ProfilesInv, [Next]_vars, Undisturbed'
  PROVE  ProfilesInv'
<1>1. Core /\ CallsByStep /\ KrTypes /\ ~late'
  BY DEF Inv, ServerInv, TransferInv, Undisturbed
<1>2. CASE \E command \in DOMAIN Commands : RunKr(command)
  BY <1>2, ProfilesRunKr
<1>3. CASE KrStep
  BY <1>3, ProfilesKrStep
<1>4. CASE GiveUp
  <2>1. todo'[Kr] = <<>> /\ transfer'.ended = "failed"
    BY <1>1, <1>4 DEF GiveUp, KrTypes
  <2> QED BY <2>1, ProfilesEnd
<1>5. KrAnswered /\ UNCHANGED <<todo, transfer>> => ProfilesInv'
  BY ProfilesSame DEF SameProfiles
<1>6. ASSUME NEW c \in Callers \ {Kr}, NEW op \in Ops, Send(c, op) \/ HangUp(c)
      PROVE  KrAnswered
  BY <1>1, <1>6, CoreSend, CoreHangUp, UpkeepAnswered
<1>7. UNCHANGED serverVars => KrAnswered
  BY <1>1, SameServer, UpkeepAnswered
<1>8. CASE GitStep /\ UNCHANGED <<todo, transfer>>
  <2>1. UNCHANGED serverVars \/ Send(Git, "gitSign") \/ HangUp(Git)
    BY <1>8 DEF GitStep, SignGit, SignatureReturns, RedirectToGPG, Ended
  <2>2. Git \in Callers \ {Kr} /\ "gitSign" \in Ops
    BY KrCalls DEF Ops
  <2> QED BY <1>5, <1>6, <1>7, <1>8, <2>1, <2>2
<1>9. CASE (\E c \in Callers : Serve(c) \/ TimeOut(c)) /\ UNCHANGED <<todo, transfer>>
  BY <1>1, <1>5, <1>9, ProfilesServe, CoreTimeOut, UpkeepAnswered
<1>10. CASE /\ \E c \in Callers, body \in GitSignResponses : Answer(c, body)
            /\ UNCHANGED <<todo, transfer>>
  BY <1>1, <1>5, <1>10, CoreAnswer, UpkeepAnswered
<1>11. CASE /\ Scan \/ (\E p \in Pairings : SaveScanned(p)) \/ Acknowledge
            /\ UNCHANGED <<todo, transfer>>
  BY <1>1, <1>5, <1>11, CoreScan, CoreSaveScanned, CoreAcknowledge, UpkeepAnswered
<1>12. CASE PhoneUnpairs /\ UNCHANGED <<todo, transfer>>
  BY <1>5, <1>12, ProfilesPhoneUnpairs
<1>13. CASE (\E c \in Others : RequestMe(c)) /\ UNCHANGED <<todo, transfer>>
  <2>1. "me" \in Ops
    BY DEF Ops
  <2> QED BY <1>5, <1>6, <1>13, <2>1 DEF RequestMe, Others
<1>14. CASE Crash /\ UNCHANGED <<todo, transfer>>
  BY <1>1, <1>5, <1>14, CoreKill, UpkeepAnswered DEF Crash
<1>15. CASE UNCHANGED vars
  <2>1. UNCHANGED serverVars /\ UNCHANGED <<todo, transfer>>
    BY <1>15 DEF vars
  <2> QED BY <1>5, <1>7, <2>1
<1> QED BY <1>2, <1>3, <1>4, <1>8, <1>9, <1>10, <1>11, <1>12, <1>13, <1>14, <1>15 DEF Next

-----------------------------------------------------------------------------
(* A transfer that is undisturbed now has been so all along.               *)
LEMMA StaysDisturbed ==
  ASSUME Types, [Next]_vars, Undisturbed'
  PROVE  Undisturbed
<1>1. CASE UNCHANGED <<forgotten, late>>
  BY <1>1 DEF Undisturbed
<1>2. ASSUME NEW p, NEW files, SavePairing(p, files), forgotten' = forgotten PROVE Undisturbed
  BY <1>2 DEF SavePairing, Undisturbed
<1>3. CASE PhoneUnpairs
  BY <1>3 DEF PhoneUnpairs, Undisturbed
<1>4. CASE \E c \in Callers, body \in GitSignResponses : Answer(c, body)
  <2>1. UNCHANGED forgotten
    BY <1>4 DEF Answer, phoneVars
  <2>2. UNCHANGED late \/ \E p, files : SavePairing(p, files)
    BY <1>4 DEF Answer
  <2> QED BY <1>1, <1>2, <2>1, <2>2
<1>5. CASE (\E p \in Pairings : SaveScanned(p)) \/ Acknowledge
  BY <1>2, <1>5 DEF SaveScanned, Acknowledge, phoneVars
<1>6. CASE Scan \/ Crash \/ GiveUp
  BY <1>1, <1>6 DEF Scan, Crash, Kill, GiveUp, phoneVars, saveVars
<1>7. ASSUME NEW c, NEW op, Send(c, op) \/ HangUp(c) PROVE Undisturbed
  BY <1>1, <1>7 DEF Send, HangUp, phoneVars, saveVars
<1>8. UNCHANGED serverVars => Undisturbed
  BY <1>1 DEF serverVars, phoneVars, saveVars
<1>9. CASE \E c \in Callers : Serve(c) \/ TimeOut(c)
  BY <1>1, <1>9 DEF Serve, TimeOut, phoneVars, saveVars
<1>10. CASE KrStep
  <2>1. CASE (\E op \in Ops : CallKrd(op)) \/ CallReturns \/ RequestMeForceRefresh
    BY <1>7, <2>1 DEF CallKrd, CallReturns, RequestMeForceRefresh
  <2>2. CASE KillKrd \/ StartKrd
    BY <1>1, <2>2 DEF KillKrd, Kill, StartKrd, phoneVars, saveVars
  <2>3. CASE (\E r \in Renames : Rename(r)) \/ (\E s \in Saves : SaveProfile(s))
    BY <1>1, <2>3 DEF Rename, SaveProfile, phoneVars, saveVars
  <2>4. CASE \E b \in BOOLEAN : AuthorizeHost(b)
    BY <1>1, <2>4 DEF AuthorizeHost, phoneVars, saveVars
  <2>5. CASE \/ \E pgp, continue \in BOOLEAN : Confirm(pgp, continue)
             \/ \E b \in BOOLEAN : HandleSpecialCase(b)
             \/ HostsHandled \/ TransferDone
    BY <1>8, <2>5 DEF Confirm, HandleSpecialCase, HostsHandled, TransferDone
  <2> QED BY <1>10, <2>1, <2>2, <2>3, <2>4, <2>5 DEF KrStep
<1>11. CASE GitStep
  BY <1>7, <1>8, <1>11 DEF GitStep, SignGit, SignatureReturns, RedirectToGPG, Ended
<1>12. CASE (\E command \in DOMAIN Commands : RunKr(command)) \/ UNCHANGED vars
  BY <1>8, <1>12 DEF RunKr, vars
<1>13. CASE \E c \in Others : RequestMe(c)
  BY <1>7, <1>13 DEF RequestMe
<1> QED BY <1>3, <1>4, <1>5, <1>6, <1>9, <1>10, <1>11, <1>12, <1>13 DEF Next

LEMMA KrgpgInvStep ==
  ASSUME KrgpgInv, [Next]_vars
  PROVE  KrgpgInv'
<1>1. CASE UNCHANGED krgpg
  BY <1>1, KrgpgInvUnchanged
<1>2. CASE GitStep
  BY <1>2, KrgpgInvSignGit, KrgpgInvSignatureReturns, KrgpgInvRedirectToGPG, KrgpgInvEnded
     DEF GitStep
<1> QED BY <1>1, <1>2 DEF Next, vars

(* kr takes the steps of its command in turn, whatever krd saves and when; *)
(* as long as no save of krd and no phone meets the transfer, the files,   *)
(* krd's memory and kr's profiles are at every step what AtStep and        *)
(* ProfilesAt say, whatever krd's other users do, and whenever krd dies.   *)
(* krgpg keeps the parts of the object it asks a signature for.            *)
THEOREM Structure == Spec => [](Base /\ (Undisturbed => InOrder) /\ KrgpgInv)
<1>1. Init => Base /\ InOrder /\ KrgpgInv
  BY InvInit, BaseInit, KrgpgInvInit DEF Init, InOrder
<1>2. Base /\ (Undisturbed => InOrder) /\ KrgpgInv /\ [Next]_vars
         => (Base /\ (Undisturbed => InOrder) /\ KrgpgInv)'
  <2> SUFFICES ASSUME Base, Undisturbed => InOrder, KrgpgInv, [Next]_vars
               PROVE  Base' /\ (Undisturbed' => InOrder') /\ KrgpgInv'
    OBVIOUS
  <2>1. Base' /\ KrgpgInv'
    BY BaseStep, KrgpgInvStep
  <2>2. ASSUME Undisturbed' PROVE InOrder'
    <3>1. Undisturbed
      BY <2>2, StaysDisturbed DEF Base
    <3>2. Inv /\ ProfilesInv
      BY <3>1 DEF InOrder
    <3>3. Inv' /\ ProfilesInv'
      BY <2>2, <3>2, InvStep, ProfilesStep
    <3> QED BY <3>3 DEF InOrder
  <2> QED BY <2>1, <2>2
<1> QED BY <1>1, <1>2, PTL DEF Spec

(* krd, its files, the calls, kr transfer and krgpg stay within their      *)
(* types, for any callers, hosts and objects.                              *)
THEOREM TypeCorrect == Spec => []TypeOK
<1>1. Base => ServerTypeOK
  <2> SUFFICES ASSUME Base PROVE ServerTypeOK
    OBVIOUS
  <2>1. /\ krd.up \in BOOLEAN /\ {krd.pairing, krd.me} \subseteq Pairings \cup {None}
        /\ disk \in [{"pairing", "old", "new", "me", "pub"} -> Pairings \cup {None}]
        /\ scanned \subseteq Pairings /\ unpaired \subseteq Pairings /\ forgotten \subseteq Pairings
        /\ saving \subseteq Pairings /\ unsaved \subseteq Pairings /\ late \in BOOLEAN
    BY DEF Base, Types, ServerTypes, Stored
  <2>2. \A c \in Callers :
           /\ call[c].pc \in {"idle", "sent", "waiting", "replied"}
           /\ call[c].op \in Ops \cup {"none"} /\ call[c].status \in Statuses
    BY DEF Base, Types, ServerTypes, CallState
  <2> QED BY <2>1, <2>2 DEF ServerTypeOK
<1>2. Base /\ (Undisturbed => InOrder) => TransferTypeOK
  <2> SUFFICES ASSUME Base, Undisturbed => InOrder PROVE TransferTypeOK
    OBVIOUS
  <2>1. Undisturbed => disk.old \in {None, "old"} /\ disk.new \in {None, "new"}
    BY DEF InOrder, Inv, TransferInv, MovedFiles
  <2>2. {transfer.oldProfile, transfer.newProfile} \subseteq Pairings \cup {None}
    BY DEF Base, ProfileTypes, Stored
  <2> QED BY <2>1, <2>2 DEF Base, KrTypes, TransferTypeOK, HostNames
<1>3. Base /\ (Undisturbed => InOrder) /\ KrgpgInv => TypeOK
  BY <1>1, <1>2 DEF TypeOK, KrgpgInv
<1> QED BY <1>3, Structure, PTL

(* No interleaving of kr transfer with other users of krd, and no crash of *)
(* krd, has the old phone told to unpair, unless krd saved a pairing over  *)
(* another one or a phone of the transfer unpaired by itself.              *)
THEOREM OldPhoneStaysPaired == Spec => []OldStaysPaired
<1>1. (Undisturbed => InOrder) => OldStaysPaired
  BY DEF InOrder, Inv, TransferInv, OldStaysPaired
<1> QED BY <1>1, Structure, PTL

(* A scanned pairing whose phone still has it is always in one of the      *)
(* files, so an interrupted kr transfer can be put right by hand, as long  *)
(* as krd saved no pairing over another one.                               *)
THEOREM NoPairingLost == Spec => []PairingsKept
<1>1. Base /\ (Undisturbed => InOrder) => PairingsKept
  <2> SUFFICES ASSUME Base, InOrder, NEW p \in scanned \ (unpaired \cup forgotten)
               PROVE  \/ p \in {disk.pairing, disk.old, disk.new}
                      \/ p = "old" /\ disk.pairing = "new" /\ transfer.left = <<>>
    BY DEF PairingsKept
  <2>1. p \in Pairings
    BY DEF Base, Types, ServerTypes
  <2> QED BY <2>1 DEF InOrder, Inv, TransferInv, AllKept, Kept
<1> QED BY <1>1, Structure, PTL

(* While kr logs in to the hosts, whoever signs does so with the old       *)
(* phone, and ssh is shown the old key, unless krd saved another pairing   *)
(* or a phone of the transfer unpaired.                                    *)
THEOREM HostsSeeOld == Spec => []HostsSeeTheOldPhone
<1>1. ASSUME Inv, At(Kr, "authorize")
      PROVE  Signer = "old" /\ (IF krd.up THEN krd.me ELSE disk.me) = "old"
  <2>1. PICK k \in 1..27 : todo[Kr] = Rest(k) /\ AtStep(k) /\ TransferAuthorityMain[k] = "authorize"
    BY <1>1, KrStepOf
  <2>2. k = 20
    BY <2>1, StepsByName
  <2>3. BackOnOld
    BY <2>1, <2>2 DEF AtStep
  <2> QED BY <2>3 DEF BackOnOld, OnDisk, PairingLoaded, ProfileLoaded, Signer
<1>2. (Undisturbed => InOrder) => HostsSeeTheOldPhone
  BY <1>1 DEF HostsSeeTheOldPhone, InOrder
<1> QED BY <1>2, Structure, PTL

(* When kr transfer says that the new key is ready to use, pairing,        *)
(* profile and public key are the new phone's, on disk and in krd, unless  *)
(* krd saved another pairing or a phone of the transfer unpaired.          *)
THEOREM EndsOnNew == Spec => []TransferEndsOnTheNewPhone
<1>1. (Undisturbed => InOrder) => TransferEndsOnTheNewPhone
  <2> SUFFICES ASSUME Inv, transfer.ended = "done"
               PROVE  /\ disk.pairing = "new" /\ disk.me = "new" /\ disk.pub = "new"
                      /\ krd.up => krd.pairing = "new" /\ krd.me = "new"
    BY DEF TransferEndsOnTheNewPhone, InOrder
  <2>1. OnNew /\ disk.pub = "new"
    BY AtLast DEF Inv, TransferInv, Over
  <2> QED BY <2>1 DEF OnNew, OnDisk, PairingLoaded, ProfileLoaded
<1> QED BY <1>1, Structure, PTL

(* krgpg exits with 0 only after the phone or gpg has signed.              *)
THEOREM ExitZeroSigned == Spec => []ExitZeroMeansSigned
<1>1. KrgpgInv => ExitZeroMeansSigned
  BY KrgpgInvImplies
<1> QED BY <1>1, Structure, PTL

(* The phone signs the object that git stores, for objects of any length   *)
(* and commits with any number of parents.                                 *)
THEOREM PhoneSignsObject == Spec => []PhoneSignsTheObject
<1>1. KrgpgInv => PhoneSignsTheObject
  BY KrgpgInvImplies
<1> QED BY <1>1, Structure, PTL

-----------------------------------------------------------------------------
(* What kr still has to ask about is in its list, and the PGP key, which   *)
(* ends the loop if it is declined, can only be the last of them.          *)
ServicesInv ==
    /\ transfer.services \in Seq(TransferSpecialServices)
    /\ \A i \in 1..Len(transfer.services) :
          transfer.services[i] = "pgp-github.com" => i = Len(transfer.services)
    /\ transfer.due \subseteq transfer.asked
                        \cup {transfer.services[i] : i \in 1..Len(transfer.services)}
    /\ ServicesAsked

(* No host goes by the name that stands for the PGP key.                   *)
NoHostNamedPGP == \A hosts \in HostLists : "pgp-github.com" \notin ToSet(hosts)

LEMMA SameServices ==
  ASSUME ServicesInv, transfer'.services = transfer.services, transfer'.due = transfer.due,
         transfer'.asked = transfer.asked, transfer'.ended = "done" => transfer.ended = "done"
  PROVE  ServicesInv'
BY DEF ServicesInv, ServicesAsked

LEMMA SummaryOfHosts ==
  ASSUME NEW hosts \in Seq(HostNames), NoHostNamedPGP, NEW pgp \in BOOLEAN
  PROVE  LET services == GetAndPrintSummary(hosts, pgp)
         IN  /\ services \in Seq(TransferSpecialServices)
             /\ \A i \in 1..Len(services) : services[i] = "pgp-github.com" => i = Len(services)
             /\ \A h \in ToSet(hosts) \cap TransferSpecialServices :
                   \E i \in 1..Len(services) : services[i] = h
             /\ pgp => \E i \in 1..Len(services) : services[i] = "pgp-github.com"
<1> DEFINE r == Only(hosts, TransferSpecialServices)
           e == IF pgp THEN <<"pgp-github.com">> ELSE <<>>
           q == GetAndPrintSummary(hosts, pgp)
<1>1. Selected(HostNames, hosts, TransferSpecialServices, r, Len(hosts))
  BY OnlySelects
<1>2. q = r \o e
  BY DEF GetAndPrintSummary
<1>3. r \in Seq(HostNames) /\ Len(r) \in Nat
  BY <1>1 DEF Selected
<1> HIDE DEF r, q
<1>4. \A j \in 1..Len(r) : r[j] \in TransferSpecialServices /\ r[j] # "pgp-github.com"
  <2> SUFFICES ASSUME NEW j \in 1..Len(r)
               PROVE  r[j] \in TransferSpecialServices /\ r[j] # "pgp-github.com"
    OBVIOUS
  <2>1. PICK k \in j..Len(hosts) : r[j] = hosts[k] /\ hosts[k] \in TransferSpecialServices
    BY <1>1 DEF Selected
  <2>2. r[j] \in HostNames
    BY <1>3, ElementOfSeq
  <2>3. "pgp-github.com" \notin HostNames
    BY DEF NoHostNamedPGP, HostNames
  <2> QED BY <2>1, <2>2, <2>3
<1>5. r \in Seq(TransferSpecialServices)
  <2>1. \A j \in 1..Len(r) : r[j] \in TransferSpecialServices
    BY <1>4
  <2> QED BY <1>3, <2>1, SeqDef
<1>6. e \in Seq(TransferSpecialServices) /\ Len(e) = (IF pgp THEN 1 ELSE 0)
      /\ (pgp => e[1] = "pgp-github.com")
  <2>1. CASE pgp
    <3>1. e = <<"pgp-github.com">>
      BY <2>1
    <3> HIDE DEF e
    <3> QED BY <2>1, <3>1 DEF TransferSpecialServices
  <2>2. CASE ~pgp
    <3>1. e = <<>>
      BY <2>2
    <3> HIDE DEF e
    <3> QED BY <2>2, <3>1
  <2> QED BY <2>1, <2>2
<1> HIDE DEF e
<1>7. /\ q \in Seq(TransferSpecialServices) /\ Len(q) = Len(r) + Len(e)
      /\ \A i \in 1..Len(q) : q[i] = IF i <= Len(r) THEN r[i] ELSE e[i - Len(r)]
  <2>1. /\ r \o e \in Seq(TransferSpecialServices) /\ Len(r \o e) = Len(r) + Len(e)
        /\ \A i \in 1..Len(r) + Len(e) :
              (r \o e)[i] = IF i <= Len(r) THEN r[i] ELSE e[i - Len(r)]
    BY <1>5, <1>6, ConcatProperties, Zenon
  <2> QED BY <1>2, <2>1, Zenon
<1>8. \A i \in 1..Len(q) : q[i] = "pgp-github.com" => i = Len(q)
  <2> SUFFICES ASSUME NEW i \in 1..Len(q), q[i] = "pgp-github.com" PROVE i = Len(q)
    OBVIOUS
  <2>1. ~(i <= Len(r))
    BY <1>3, <1>4, <1>7
  <2> QED BY <1>3, <1>6, <1>7, <2>1
<1>9. \A h \in ToSet(hosts) \cap TransferSpecialServices : \E i \in 1..Len(q) : q[i] = h
  <2> SUFFICES ASSUME NEW k \in 1..Len(hosts), hosts[k] \in TransferSpecialServices
               PROVE  \E i \in 1..Len(q) : q[i] = hosts[k]
    BY DEF ToSet
  <2>1. PICK j \in 1..Len(r) : r[j] = hosts[k]
    BY <1>1 DEF Selected
  <2>2. j \in 1..Len(q) /\ q[j] = r[j]
    BY <1>3, <1>6, <1>7
  <2> QED BY <2>1, <2>2
<1>10. pgp => \E i \in 1..Len(q) : q[i] = "pgp-github.com"
  <2> SUFFICES ASSUME pgp PROVE \E i \in 1..Len(q) : q[i] = "pgp-github.com"
    OBVIOUS
  <2>1. Len(q) \in 1..Len(q) /\ q[Len(q)] = e[1]
    BY <1>3, <1>6, <1>7
  <2> QED BY <1>6, <2>1
<1> QED BY <1>7, <1>8, <1>9, <1>10 DEF q

LEMMA ServicesConfirm ==
  ASSUME Base, ServicesInv, NoHostNamedPGP, NEW pgp \in BOOLEAN, NEW continue \in BOOLEAN,
         Confirm(pgp, continue)
  PROVE  ServicesInv'
<1> DEFINE q == GetAndPrintSummary(transfer.left, pgp)
<1>1. transfer.ended = "not"
  BY PathAt DEF Confirm, Base
<1>2. /\ transfer'.services = q /\ transfer'.asked = transfer.asked
      /\ transfer'.due = (ToSet(transfer.left) \cap TransferSpecialServices)
                             \cup (IF pgp THEN {"pgp-github.com"} ELSE {})
      /\ transfer'.ended # "done"
  BY <1>1 DEF Confirm, Base, KrTypes
<1>3. transfer.left \in Seq(HostNames)
  BY DEF Base, KrTypes
<1>4. /\ q \in Seq(TransferSpecialServices)
      /\ \A i \in 1..Len(q) : q[i] = "pgp-github.com" => i = Len(q)
      /\ \A h \in ToSet(transfer.left) \cap TransferSpecialServices :
            \E i \in 1..Len(q) : q[i] = h
      /\ pgp => \E i \in 1..Len(q) : q[i] = "pgp-github.com"
  BY <1>3, SummaryOfHosts, Zenon
<1> HIDE DEF q
<1>5. transfer'.due \subseteq {q[i] : i \in 1..Len(q)}
  BY <1>2, <1>4
<1> QED BY <1>2, <1>4, <1>5 DEF ServicesInv, ServicesAsked

LEMMA ServicesHandled ==
  ASSUME Base, ServicesInv, NEW confirmed \in BOOLEAN, HandleSpecialCase(confirmed)
  PROVE  ServicesInv'
<1> DEFINE q == transfer.services
           t == Tail(q)
<1>1. /\ q \in Seq(TransferSpecialServices) /\ q # <<>> /\ Len(q) \in Nat /\ Len(q) > 0
      /\ Head(q) = q[1] /\ transfer.ended = "not"
  BY PathAt DEF ServicesInv, HandleSpecialCase, Base
<1>2. /\ transfer'.asked = transfer.asked \cup {q[1]} /\ transfer'.due = transfer.due
      /\ transfer'.ended = "not"
      /\ IF q[1] = "pgp-github.com" /\ ~confirmed THEN transfer'.services = <<>>
                                                  ELSE transfer'.services = t
  BY <1>1 DEF HandleSpecialCase, Base, KrTypes
<1>3. /\ t \in Seq(TransferSpecialServices) /\ Len(t) = Len(q) - 1
      /\ \A i \in 1..Len(t) : t[i] = q[i + 1]
  BY <1>1, HeadTailProperties
<1>4. /\ \A i \in 1..Len(q) : q[i] = "pgp-github.com" => i = Len(q)
      /\ transfer.due \subseteq transfer.asked \cup {q[i] : i \in 1..Len(q)}
  BY DEF ServicesInv
<1> HIDE DEF q, t
<1>5. \A i \in 1..Len(q) : i = 1 \/ \E j \in 1..Len(t) : q[i] = t[j]
  <2> SUFFICES ASSUME NEW i \in 1..Len(q), i # 1 PROVE \E j \in 1..Len(t) : q[i] = t[j]
    OBVIOUS
  <2>1. i - 1 \in 1..Len(t) /\ t[i - 1] = q[i]
    BY <1>1, <1>3
  <2> QED BY <2>1
<1>6. CASE q[1] = "pgp-github.com" /\ ~confirmed
  <2>1. Len(q) = 1
    <3>1. 1 \in 1..Len(q)
      BY <1>1
    <3> QED BY <1>4, <1>6, <3>1
  <2>2. transfer'.services = <<>> /\ transfer'.due \subseteq transfer'.asked
    BY <1>2, <1>4, <1>6, <2>1
  <2> QED BY <1>2, <2>2 DEF ServicesInv, ServicesAsked
<1>7. CASE ~(q[1] = "pgp-github.com" /\ ~confirmed)
  <2>1. transfer'.services = t
    BY <1>2, <1>7
  <2>2. \A i \in 1..Len(t) : t[i] = "pgp-github.com" => i = Len(t)
    BY <1>1, <1>3, <1>4
  <2>3. transfer'.due \subseteq transfer'.asked \cup {t[j] : j \in 1..Len(t)}
    BY <1>2, <1>4, <1>5
  <2> QED BY <1>2, <1>3, <2>1, <2>2, <2>3 DEF ServicesInv, ServicesAsked
<1> QED BY <1>6, <1>7

LEMMA ServicesStep ==
  ASSUME Base, ServicesInv, NoHostNamedPGP, [Next]_vars
  PROVE  ServicesInv'
<1> DEFINE Same == /\ transfer'.services = transfer.services /\ transfer'.due = transfer.due
                   /\ transfer'.asked = transfer.asked
                   /\ transfer'.ended = "done" => transfer.ended = "done"
<1>0. DOMAIN transfer = {"oldProfile", "newProfile", "left", "services", "due", "granted",
                         "asked", "ended"}
  BY DEF Base, KrTypes
<1>1. UNCHANGED transfer => Same
  OBVIOUS
<1>2. CASE \E command \in DOMAIN Commands : RunKr(command)
  BY <1>1, <1>2, SameServices DEF RunKr
<1>3. CASE KrStep
  <2>1. CASE \E op \in Ops : CallKrd(op)
    BY <1>1, <2>1, SameServices DEF CallKrd
  <2>2. CASE CallReturns
    <3>1. Same
      BY <1>0, <2>2 DEF CallReturns
    <3> QED BY <3>1, SameServices
  <2>3. CASE \E pgp, continue \in BOOLEAN : Confirm(pgp, continue)
    BY <2>3, ServicesConfirm
  <2>4. CASE KillKrd \/ StartKrd \/ HostsHandled \/ RequestMeForceRefresh
    BY <1>1, <2>4, SameServices DEF KillKrd, StartKrd, HostsHandled, RequestMeForceRefresh
  <2>5. CASE (\E r \in Renames : Rename(r)) \/ (\E s \in Saves : SaveProfile(s))
    BY <1>1, <2>5, SameServices DEF Rename, SaveProfile
  <2>6. CASE \E b \in BOOLEAN : AuthorizeHost(b)
    <3>1. Same
      BY <1>0, <2>6 DEF AuthorizeHost
    <3> QED BY <3>1, SameServices
  <2>7. CASE \E b \in BOOLEAN : HandleSpecialCase(b)
    BY <2>7, ServicesHandled
  <2>8. CASE TransferDone
    <3>1. /\ transfer'.services = transfer.services /\ transfer'.due = transfer.due
          /\ transfer'.asked = transfer.asked /\ transfer.services = <<>>
      BY <1>0, <2>8 DEF TransferDone
    <3>2. transfer.due \subseteq transfer.asked
      BY <3>1 DEF ServicesInv
    <3> QED BY <3>1, <3>2 DEF ServicesInv, ServicesAsked
  <2> QED BY <1>3, <2>1, <2>2, <2>3, <2>4, <2>5, <2>6, <2>7, <2>8 DEF KrStep
<1>4. CASE GiveUp
  <2>1. Same
    BY <1>0, <1>4 DEF GiveUp
  <2> QED BY <2>1, SameServices
<1>5. CASE UNCHANGED transfer
  BY <1>1, <1>5, SameServices
<1> QED BY <1>2, <1>3, <1>4, <1>5 DEF Next, vars

(* When kr transfer is done it has asked about every service that the key  *)
(* has to be uploaded to by hand, in any list of hosts, whatever the user  *)
(* answered; declining the PGP key ends the loop, but it is the last one.  *)
THEOREM AsksEveryService == NoHostNamedPGP => (Spec => []ServicesAsked)
<1> SUFFICES ASSUME NoHostNamedPGP PROVE Spec => []ServicesAsked
  OBVIOUS
<1>1. Init => ServicesInv
  BY EmptySeq DEF Init, TransferInit, ServicesInv, ServicesAsked
<1>2. Base /\ ServicesInv /\ [Next]_vars => ServicesInv'
  BY ServicesStep
<1>3. ServicesInv => ServicesAsked
  BY DEF ServicesInv
<1> QED BY <1>1, <1>2, <1>3, Structure, PTL DEF Spec
=============================================================================
