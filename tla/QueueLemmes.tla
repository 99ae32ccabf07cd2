---------------------------- MODULE QueueLemmes ----------------------------
(***************************************************************************)
(* What the operators of Queue return, for every list: its elements, that  *)
(* none is there twice, and its order.                                     *)
(***************************************************************************)
EXTENDS Queue, SequenceTheorems, WellFoundedInduction, TLAPS

-----------------------------------------------------------------------------
\* Least elements: the form induction takes in these proofs.

\* A set of natural numbers that is not empty has a least element.
LEMMA PlusPetit ==
    ASSUME NEW T, T \subseteq Nat, T # {}
    PROVE  \E x \in T : \A y \in T : x <= y
<1>1. \E x \in T : \A y \in T : ~ (<<y, x>> \in OpToRel(<, Nat))
  BY WFMin, NatLessThanWellFounded, Zenon
<1>2. OpToRel(<, Nat) = {ss \in Nat \X Nat : ss[1] < ss[2]}
  BY Zenon DEF OpToRel
<1>3. PICK x \in T : \A y \in T : ~ (<<y, x>> \in {ss \in Nat \X Nat : ss[1] < ss[2]})
  BY <1>1, <1>2, Zenon
<1>4. ASSUME NEW y \in T PROVE x <= y
  <2>1. x \in Nat /\ y \in Nat
    OBVIOUS
  <2>2. <<y, x>> \in Nat \X Nat
    BY <2>1
  <2>3. ~ (y < x)
    BY <1>3, <2>2
  <2> QED
    BY <2>1, <2>3
<1> QED
  BY <1>4

\* Min gives that element.
LEMMA MinEstPlusPetit ==
    ASSUME NEW T, T \subseteq Nat, T # {}
    PROVE  Min(T) \in T /\ \A y \in T : Min(T) <= y
<1>1. \E x \in T : \A y \in T : x <= y
  BY PlusPetit
<1> QED
  BY <1>1 DEF Min

-----------------------------------------------------------------------------
\* Inserting and removing at an index.

\* r is q with e put in at i.
Inseree(r, q, i, e) ==
    /\ Len(r) = Len(q) + 1
    /\ \A j \in 1 .. i - 1 : r[j] = q[j]
    /\ r[i] = e
    /\ \A j \in i + 1 .. Len(q) + 1 : r[j] = q[j - 1]

LEMMA InsertAtElements ==
    ASSUME NEW S, NEW q \in Seq(S), NEW e \in S, NEW i \in 1 .. Len(q) + 1
    PROVE  /\ InsertAt(q, i, e) \in Seq(S)
           /\ Inseree(InsertAt(q, i, e), q, i, e)
<1> DEFINE a == SubSeq(q, 1, i - 1)
           b == SubSeq(q, i, Len(q))
<1>1. a \in Seq(S) /\ Len(a) = i - 1 /\ \A j \in 1 .. i - 1 : a[j] = q[j]
  BY SubSeqProperties
<1>2. /\ b \in Seq(S) /\ Len(b) = Len(q) + 1 - i
      /\ \A j \in 1 .. Len(q) + 1 - i : b[j] = q[i + j - 1]
  BY SubSeqProperties
<1>3. <<e>> \in Seq(S) /\ Len(<<e>>) = 1 /\ <<e>>[1] = e
  OBVIOUS
<1> DEFINE c == a \o <<e>>
<1>4. /\ c \in Seq(S) /\ Len(c) = i
      /\ \A j \in 1 .. i : c[j] = IF j <= i - 1 THEN q[j] ELSE e
  <2> HIDE DEF a
  <2>1. /\ c \in Seq(S) /\ Len(c) = Len(a) + Len(<<e>>)
        /\ \A j \in 1 .. Len(a) + Len(<<e>>) :
              c[j] = IF j <= Len(a) THEN a[j] ELSE <<e>>[j - Len(a)]
    BY <1>1, <1>3, ConcatProperties
  <2> QED
    BY <1>1, <1>3, <2>1
<1>5. InsertAt(q, i, e) = c \o b
  BY DEF InsertAt
<1> HIDE DEF b, c
<1>6. /\ c \o b \in Seq(S) /\ Len(c \o b) = Len(c) + Len(b)
      /\ \A j \in 1 .. Len(c) + Len(b) :
            (c \o b)[j] = IF j <= Len(c) THEN c[j] ELSE b[j - Len(c)]
  BY <1>2, <1>4, ConcatProperties
<1>7. /\ Len(c \o b) = Len(q) + 1
      /\ \A j \in 1 .. i - 1 : (c \o b)[j] = q[j]
      /\ (c \o b)[i] = e
      /\ \A j \in i + 1 .. Len(q) + 1 : (c \o b)[j] = q[j - 1]
  <2>1. Len(c \o b) = Len(q) + 1
    BY <1>2, <1>4, <1>6
  <2>2. ASSUME NEW j \in 1 .. i - 1 PROVE (c \o b)[j] = q[j]
    BY <1>2, <1>4, <1>6
  <2>3. (c \o b)[i] = e
    BY <1>2, <1>4, <1>6
  <2>4. ASSUME NEW j \in i + 1 .. Len(q) + 1 PROVE (c \o b)[j] = q[j - 1]
    <3>1. j \in 1 .. Len(c) + Len(b) /\ ~ (j <= Len(c)) /\ j - i \in 1 .. Len(q) + 1 - i
      BY <1>2, <1>4
    <3>2. (c \o b)[j] = b[j - i]
      BY <3>1, <1>4, <1>6
    <3>3. b[j - i] = q[i + (j - i) - 1]
      BY <3>1, <1>2
    <3> QED
      BY <3>2, <3>3
  <2> QED
    BY <2>1, <2>2, <2>3, <2>4
<1> QED
  BY <1>5, <1>6, <1>7 DEF Inseree

LEMMA RemoveAtElements ==
    ASSUME NEW S, NEW q \in Seq(S), NEW i \in 1 .. Len(q)
    PROVE  /\ RemoveAt(q, i) \in Seq(S)
           /\ Len(RemoveAt(q, i)) = Len(q) - 1
           /\ \A j \in 1 .. Len(q) - 1 :
                 RemoveAt(q, i)[j] = IF j < i THEN q[j] ELSE q[j + 1]
<1> DEFINE a == SubSeq(q, 1, i - 1)
           b == SubSeq(q, i + 1, Len(q))
<1>1. a \in Seq(S) /\ Len(a) = i - 1 /\ \A j \in 1 .. i - 1 : a[j] = q[j]
  BY SubSeqProperties
<1>2. /\ b \in Seq(S) /\ Len(b) = Len(q) - i
      /\ \A j \in 1 .. Len(q) - i : b[j] = q[i + j]
  BY SubSeqProperties
<1>3. RemoveAt(q, i) = a \o b
  BY DEF RemoveAt
<1> HIDE DEF a, b
<1>4. /\ a \o b \in Seq(S) /\ Len(a \o b) = Len(a) + Len(b)
      /\ \A j \in 1 .. Len(a) + Len(b) :
            (a \o b)[j] = IF j <= Len(a) THEN a[j] ELSE b[j - Len(a)]
  BY <1>1, <1>2, ConcatProperties
<1>5. Len(a) + Len(b) = Len(q) - 1
  BY <1>1, <1>2
<1>6. ASSUME NEW j \in 1 .. Len(q) - 1
      PROVE  (a \o b)[j] = IF j < i THEN q[j] ELSE q[j + 1]
  <2>1. CASE j < i
    <3>1. j \in 1 .. i - 1 /\ j \in 1 .. Len(a) + Len(b) /\ j <= Len(a)
      BY <1>1, <1>5, <2>1
    <3> QED
      BY <1>1, <1>4, <2>1, <3>1
  <2>2. CASE ~ j < i
    <3>1. /\ j - (i - 1) \in 1 .. Len(q) - i /\ i + (j - (i - 1)) = j + 1
          /\ j \in 1 .. Len(a) + Len(b) /\ ~ j <= Len(a) /\ Len(a) = i - 1
      BY <1>1, <1>5, <2>2
    <3> QED
      BY <1>2, <1>4, <2>2, <3>1
  <2> QED
    BY <2>1, <2>2
<1> QED
  BY <1>3, <1>4, <1>5, <1>6

-----------------------------------------------------------------------------
\* queue_add.

\* The place is in the list, after the smaller keys and before the others.
LEMMA PlaceBornes ==
    ASSUME NEW S, NEW q \in Seq(S), NEW e \in S, NEW cle \in [S -> Nat]
    PROVE  /\ Place(q, e, cle) \in 1 .. Len(q) + 1
           /\ \A j \in 1 .. Len(q) : j < Place(q, e, cle) => cle[q[j]] < cle[e]
           /\ Place(q, e, cle) <= Len(q) => cle[q[Place(q, e, cle)]] >= cle[e]
<1> DEFINE T == {i \in 1 .. Len(q) : cle[q[i]] >= cle[e]} \cup {Len(q) + 1}
<1>1. T \subseteq 1 .. Len(q) + 1 /\ T \subseteq Nat /\ T # {} /\ Len(q) \in Nat
  OBVIOUS
<1>2. /\ \A i \in T : i <= Len(q) => cle[q[i]] >= cle[e]
      /\ \A j \in 1 .. Len(q) : j \notin T => cle[q[j]] < cle[e]
  OBVIOUS
<1>3. Place(q, e, cle) = Min(T)
  BY DEF Place
<1> HIDE DEF T
<1>4. PICK m \in T : m = Min(T) /\ \A y \in T : m <= y
  BY <1>1, MinEstPlusPetit
<1>5. m \in 1 .. Len(q) + 1
  BY <1>1
<1>6. ASSUME NEW j \in 1 .. Len(q), j < m PROVE cle[q[j]] < cle[e]
  <2>1. j \notin T
    BY <1>1, <1>4, <1>6
  <2> QED
    BY <2>1, <1>2
<1>7. m <= Len(q) => cle[q[m]] >= cle[e]
  BY <1>2
<1>8. m = Place(q, e, cle)
  BY <1>3, <1>4
<1> QED
  BY <1>5, <1>6, <1>7, <1>8

\* What follows from the elements of the list r that e gives, put in q at i.
LEMMA ListeInseree ==
    ASSUME NEW S, NEW q \in Seq(S), NEW e \in S,
           NEW i \in 1 .. Len(q) + 1,
           NEW r \in Seq(S), Inseree(r, q, i, e)
    PROVE  /\ r # <<>>
           /\ Range(r) = Range(q) \cup {e}
           /\ IsInjective(q) /\ e \notin Range(q) => IsInjective(r)
<1>0. /\ Len(r) = Len(q) + 1
      /\ \A j \in 1 .. i - 1 : r[j] = q[j]
      /\ r[i] = e
      /\ \A j \in i + 1 .. Len(q) + 1 : r[j] = q[j - 1]
  BY DEF Inseree
<1>1. r # <<>>
  BY <1>0
<1>2. Range(r) = {r[j] : j \in 1 .. Len(r)} /\ Range(q) = {q[j] : j \in 1 .. Len(q)}
  BY RangeEquality
<1>3. ASSUME NEW j \in 1 .. Len(r) PROVE r[j] \in Range(q) \cup {e}
  <2>1. j \in 1 .. i - 1 \/ j = i \/ (j \in i + 1 .. Len(q) + 1 /\ j - 1 \in 1 .. Len(q))
    BY <1>0
  <2>2. CASE j \in 1 .. i - 1
    <3>1. j \in 1 .. Len(q)
      BY <2>2
    <3> QED
      BY <1>0, <1>2, <2>2, <3>1
  <2>3. CASE j = i
    BY <1>0, <2>3
  <2>4. CASE j \in i + 1 .. Len(q) + 1 /\ j - 1 \in 1 .. Len(q)
    BY <1>0, <1>2, <2>4
  <2> QED
    BY <2>1, <2>2, <2>3, <2>4
<1>4. e \in Range(r)
  BY <1>0, <1>2
<1>5. ASSUME NEW j \in 1 .. Len(q) PROVE q[j] \in Range(r)
  <2>1. CASE j < i
    BY <2>1, <1>0, <1>2
  <2>2. CASE ~ (j < i)
    <3>1. j + 1 \in 1 .. Len(r) /\ r[j + 1] = q[j]
      BY <2>2, <1>0
    <3> QED
      BY <3>1, <1>2
  <2> QED
    BY <2>1, <2>2
<1>6. Range(r) = Range(q) \cup {e}
  <2>1. Range(r) \subseteq Range(q) \cup {e}
    BY <1>2, <1>3
  <2>2. Range(q) \subseteq Range(r)
    BY <1>2, <1>5
  <2> QED
    BY <2>1, <2>2, <1>4
<1>7. ASSUME IsInjective(q), e \notin Range(q) PROVE IsInjective(r)
  <2>1. \A j, l \in 1 .. Len(q) : q[j] = q[l] => j = l
    BY <1>7 DEF IsInjective
  <2>2. \A j \in 1 .. Len(q) : q[j] # e
    BY <1>7, <1>2
  <2>3. ASSUME NEW j \in 1 .. Len(r), NEW l \in 1 .. Len(r), r[j] = r[l]
        PROVE  j = l
    <3>1. \A x \in 1 .. Len(r) : x < i => x \in 1 .. Len(q) /\ r[x] = q[x]
      BY <1>0
    <3>2. \A x \in 1 .. Len(r) : x > i => x - 1 \in 1 .. Len(q) /\ r[x] = q[x - 1]
      BY <1>0
    <3>0. \A x \in 1 .. Len(r) : r[x] = e => x = i
      <4>1. ASSUME NEW x \in 1 .. Len(r), x < i PROVE r[x] # e
        BY <2>2, <3>1, <4>1
      <4>2. ASSUME NEW x \in 1 .. Len(r), x > i PROVE r[x] # e
        <5>1. x - 1 \in 1 .. Len(q) /\ r[x] = q[x - 1]
          BY <3>2, <4>2
        <5> QED
          BY <2>2, <5>1
      <4> QED
        BY <4>1, <4>2
    <3>3. CASE j = i
      <4>1. r[l] = e
        BY <2>3, <3>3, <1>0
      <4> QED
        BY <3>0, <3>3, <4>1
    <3>4. CASE l = i
      <4>1. r[j] = e
        BY <2>3, <3>4, <1>0
      <4> QED
        BY <3>0, <3>4, <4>1
    <3>5. CASE j < i /\ l < i
      BY <2>1, <2>3, <3>1, <3>5
    <3>6. CASE j < i /\ l > i
      BY <2>1, <2>3, <3>1, <3>2, <3>6
    <3>7. CASE j > i /\ l < i
      BY <2>1, <2>3, <3>1, <3>2, <3>7
    <3>8. CASE j > i /\ l > i
      <4>1. /\ j - 1 \in 1 .. Len(q) /\ r[j] = q[j - 1]
            /\ l - 1 \in 1 .. Len(q) /\ r[l] = q[l - 1]
        BY <3>2, <3>8
      <4>2. j - 1 = l - 1
        BY <2>1, <2>3, <4>1
      <4> QED
        BY <4>2
    <3> QED
      BY <3>3, <3>4, <3>5, <3>6, <3>7, <3>8
  <2> QED
    BY <2>3 DEF IsInjective
<1> QED
  BY <1>1, <1>6, <1>7

\* The same for the keys: v along q, w along the list with c put in at i.
LEMMA ClesInserees ==
    ASSUME NEW n \in Nat, NEW v \in [1 .. n -> Nat], NEW w \in [1 .. n + 1 -> Nat],
           NEW c \in Nat, NEW i \in 1 .. n + 1,
           \A j \in 1 .. n : j < i => v[j] < c,
           i <= n => v[i] >= c,
           \A j, l \in 1 .. n : j < l => v[j] <= v[l],
           \A j \in 1 .. i - 1 : w[j] = v[j],
           w[i] = c,
           \A j \in i + 1 .. n + 1 : w[j] = v[j - 1],
           NEW j \in 1 .. n + 1, NEW l \in 1 .. n + 1, j < l
    PROVE  w[j] <= w[l]
<1>1. CASE l < i
  BY <1>1
<1>2. CASE l = i
  BY <1>2
<1>3. CASE l > i
  <2>1. w[l] = v[l - 1] /\ l - 1 \in 1 .. n /\ i <= l - 1
    BY <1>3
  <2>2. c <= v[l - 1]
    <3>1. i \in 1 .. n /\ c <= v[i] /\ v[i] \in Nat /\ v[l - 1] \in Nat
      BY <2>1
    <3>2. CASE i = l - 1
      BY <3>1, <3>2
    <3>3. CASE i < l - 1
      <4>1. v[i] <= v[l - 1]
        BY <2>1, <3>1, <3>3
      <4> QED
        BY <3>1, <4>1
    <3> QED
      BY <2>1, <3>2, <3>3
  <2> DEFINE a == w[j]
             b == w[l]
  <2>6. a \in Nat /\ b \in Nat /\ c <= b
    BY <2>1, <2>2
  <2>3. CASE j < i
    <3>1. w[j] = v[j] /\ v[j] < c
      BY <2>3
    <3>2. a < c
      BY <3>1
    <3> HIDE DEF a, b
    <3>3. a <= b
      BY <2>6, <3>2
    <3> QED
      BY <3>3 DEF a, b
  <2>4. CASE j = i
    BY <2>4, <2>6
  <2>5. CASE j > i
    <3>1. w[j] = v[j - 1] /\ j - 1 \in 1 .. n /\ j - 1 < l - 1
      BY <2>5
    <3> QED
      BY <2>1, <3>1
  <2> QED
    BY <2>3, <2>4, <2>5
<1> QED
  BY <1>1, <1>2, <1>3

\* queue_add adds its element and no other, keeps an ordered list ordered and,
\* if the element was not in the list, has it there once.
LEMMA QueueAddElements ==
    ASSUME NEW S, NEW q \in Seq(S), NEW e \in S, NEW cle \in [S -> Nat]
    PROVE  /\ QueueAdd(q, e, cle) \in Seq(S)
           /\ QueueAdd(q, e, cle) # <<>>
           /\ Range(QueueAdd(q, e, cle)) = Range(q) \cup {e}
           /\ IsInjective(q) /\ e \notin Range(q) => IsInjective(QueueAdd(q, e, cle))
           /\ Triee(q, cle) => Triee(QueueAdd(q, e, cle), cle)
<1>1. PICK i \in 1 .. Len(q) + 1 :
        /\ i = Place(q, e, cle)
        /\ \A j \in 1 .. Len(q) : j < i => cle[q[j]] < cle[e]
        /\ i <= Len(q) => cle[q[i]] >= cle[e]
  BY PlaceBornes
<1>2. QueueAdd(q, e, cle) = InsertAt(q, i, e)
  BY <1>1 DEF QueueAdd
<1>3. PICK r \in Seq(S) : r = InsertAt(q, i, e) /\ Inseree(r, q, i, e)
  BY InsertAtElements
<1>4. /\ Len(r) = Len(q) + 1
      /\ \A j \in 1 .. i - 1 : r[j] = q[j]
      /\ r[i] = e
      /\ \A j \in i + 1 .. Len(q) + 1 : r[j] = q[j - 1]
  BY <1>3 DEF Inseree
<1>6. /\ r # <<>>
      /\ Range(r) = Range(q) \cup {e}
      /\ IsInjective(q) /\ e \notin Range(q) => IsInjective(r)
  BY <1>3, ListeInseree
<1>5. ASSUME Triee(q, cle) PROVE Triee(r, cle)
  <2> DEFINE v == [j \in 1 .. Len(q) |-> cle[q[j]]]
             w == [j \in 1 .. Len(q) + 1 |-> cle[r[j]]]
  <2>1. Len(q) \in Nat /\ v \in [1 .. Len(q) -> Nat] /\ cle[e] \in Nat
    OBVIOUS
  <2>2. w \in [1 .. Len(q) + 1 -> Nat]
    BY <1>4
  <2>3. /\ \A j \in 1 .. Len(q) : j < i => v[j] < cle[e]
        /\ i <= Len(q) => v[i] >= cle[e]
    BY <1>1
  <2>4. \A j, l \in 1 .. Len(q) : j < l => v[j] <= v[l]
    BY <1>5 DEF Triee
  <2>5. /\ \A j \in 1 .. i - 1 : w[j] = v[j]
        /\ w[i] = cle[e]
        /\ \A j \in i + 1 .. Len(q) + 1 : w[j] = v[j - 1]
    <3>1. ASSUME NEW j \in 1 .. i - 1 PROVE w[j] = v[j]
      <4>1. r[j] = q[j] /\ j \in 1 .. Len(q) /\ j \in 1 .. Len(q) + 1
        BY <1>4
      <4> QED
        BY <4>1
    <3>2. w[i] = cle[e]
      BY <1>4
    <3>3. ASSUME NEW j \in i + 1 .. Len(q) + 1 PROVE w[j] = v[j - 1]
      <4>1. r[j] = q[j - 1] /\ j - 1 \in 1 .. Len(q) /\ j \in 1 .. Len(q) + 1
        BY <1>4
      <4> QED
        BY <4>1
    <3> QED
      BY <3>1, <3>2, <3>3
  <2>6. ASSUME NEW j \in 1 .. Len(r), NEW l \in 1 .. Len(r), j < l
        PROVE  cle[r[j]] <= cle[r[l]]
    <3>1. w[j] = cle[r[j]] /\ w[l] = cle[r[l]]
      BY <1>4
    <3>2. j \in 1 .. Len(q) + 1 /\ l \in 1 .. Len(q) + 1
      BY <1>4
    <3> HIDE DEF v, w
    <3>3. w[j] <= w[l]
      <4> DEFINE n == Len(q)
                 c == cle[e]
      <4>1. n \in Nat /\ v \in [1 .. n -> Nat] /\ w \in [1 .. n + 1 -> Nat] /\ c \in Nat
        BY <2>1, <2>2
      <4>2. i \in 1 .. n + 1 /\ j \in 1 .. n + 1 /\ l \in 1 .. n + 1 /\ j < l
        BY <2>6, <3>2
      <4>3. /\ \A x \in 1 .. n : x < i => v[x] < c
            /\ i <= n => v[i] >= c
            /\ \A x, y \in 1 .. n : x < y => v[x] <= v[y]
            /\ \A x \in 1 .. i - 1 : w[x] = v[x]
            /\ w[i] = c
            /\ \A x \in i + 1 .. n + 1 : w[x] = v[x - 1]
        BY <2>3, <2>4, <2>5
      <4> HIDE DEF n, c
      <4> QED
        BY <4>1, <4>2, <4>3, ClesInserees
    <3> QED
      BY <3>1, <3>3
  <2> QED
    BY <2>6 DEF Triee
<1> QED
  BY <1>2, <1>3, <1>5, <1>6

-----------------------------------------------------------------------------
\* queue_del and queue_out.

\* Taking the element at an index out keeps the others and the order, and
\* takes the last occurrence of an element that is there once.
LEMMA RemoveAtListe ==
    ASSUME NEW S, NEW q \in Seq(S), NEW i \in 1 .. Len(q)
    PROVE  /\ RemoveAt(q, i) \in Seq(S)
           /\ Range(RemoveAt(q, i)) \subseteq Range(q)
           /\ Range(q) \subseteq Range(RemoveAt(q, i)) \cup {q[i]}
           /\ IsInjective(q) => /\ IsInjective(RemoveAt(q, i))
                                /\ q[i] \notin Range(RemoveAt(q, i))
           /\ \A cle : Triee(q, cle) => Triee(RemoveAt(q, i), cle)
<1> DEFINE r == RemoveAt(q, i)
<1>1. /\ r \in Seq(S)
      /\ Len(r) = Len(q) - 1
      /\ \A j \in 1 .. Len(q) - 1 : r[j] = IF j < i THEN q[j] ELSE q[j + 1]
  BY RemoveAtElements
<1> HIDE DEF r
<1>2. Range(r) = {r[j] : j \in 1 .. Len(r)} /\ Range(q) = {q[j] : j \in 1 .. Len(q)}
  BY <1>1, RangeEquality
<1>3. Range(r) \subseteq Range(q)
  BY <1>1, <1>2
<1>4. Range(q) \subseteq Range(r) \cup {q[i]}
  <2>1. ASSUME NEW j \in 1 .. Len(q), j # i PROVE q[j] \in Range(r)
    <3>1. CASE j < i
      BY <3>1, <1>1, <1>2
    <3>2. CASE j > i
      <4>1. j - 1 \in 1 .. Len(r) /\ r[j - 1] = q[j]
        BY <3>2, <1>1
      <4> QED
        BY <4>1, <1>2
    <3> QED
      BY <2>1, <3>1, <3>2
  <2> QED
    BY <2>1, <1>2
<1>5. ASSUME IsInjective(q) PROVE IsInjective(r) /\ q[i] \notin Range(r)
  <2>1. \A j, l \in 1 .. Len(q) : q[j] = q[l] => j = l
    BY <1>5 DEF IsInjective
  <2> DEFINE a(j) == IF j < i THEN j ELSE j + 1
  <2>4. \A j \in 1 .. Len(r) : a(j) \in 1 .. Len(q) /\ a(j) # i /\ r[j] = q[a(j)]
    BY <1>1
  <2>5. \A j, l \in 1 .. Len(r) : a(j) = a(l) => j = l
    BY <1>1
  <2> HIDE DEF a
  <2>2. \A j, l \in 1 .. Len(r) : r[j] = r[l] => j = l
    BY <2>1, <2>4, <2>5
  <2>3. \A j \in 1 .. Len(r) : r[j] # q[i]
    BY <2>1, <2>4
  <2> QED
    BY <2>2, <2>3, <1>1, <1>2 DEF IsInjective
<1>6. ASSUME NEW cle, Triee(q, cle) PROVE Triee(r, cle)
  <2>1. \A j, l \in 1 .. Len(q) : j < l => cle[q[j]] <= cle[q[l]]
    BY <1>6 DEF Triee
  <2>2. ASSUME NEW j \in 1 .. Len(r), NEW l \in 1 .. Len(r), j < l
        PROVE  cle[r[j]] <= cle[r[l]]
    <3>1. CASE l < i
      BY <3>1, <2>1, <2>2, <1>1
    <3>2. CASE j < i /\ ~ (l < i)
      <4>1. r[j] = q[j] /\ r[l] = q[l + 1] /\ j \in 1 .. Len(q) /\ l + 1 \in 1 .. Len(q)
        BY <3>2, <1>1
      <4> QED
        BY <4>1, <2>1, <2>2
    <3>3. CASE ~ (j < i)
      <4>1. r[j] = q[j + 1] /\ r[l] = q[l + 1] /\ j + 1 \in 1 .. Len(q) /\ l + 1 \in 1 .. Len(q)
        BY <3>3, <2>2, <1>1
      <4> QED
        BY <4>1, <2>1, <2>2
    <3> QED
      BY <2>2, <3>1, <3>2, <3>3
  <2> QED
    BY <2>2 DEF Triee
<1> QED
  BY <1>1, <1>3, <1>4, <1>5, <1>6 DEF r

\* queue_del of an element of the list.
LEMMA QueueDelElements ==
    ASSUME NEW S, NEW q \in Seq(S), NEW e \in Range(q)
    PROVE  /\ QueueDel(q, e) \in Seq(S)
           /\ Range(QueueDel(q, e)) \subseteq Range(q)
           /\ Range(q) \subseteq Range(QueueDel(q, e)) \cup {e}
           /\ IsInjective(q) => /\ IsInjective(QueueDel(q, e))
                                /\ e \notin Range(QueueDel(q, e))
           /\ \A cle : Triee(q, cle) => Triee(QueueDel(q, e), cle)
<1> DEFINE i == CHOOSE j \in 1 .. Len(q) : q[j] = e
<1>1. i \in 1 .. Len(q) /\ q[i] = e
  <2>1. \E j \in 1 .. Len(q) : q[j] = e
    BY RangeEquality
  <2> QED
    BY <2>1
<1>2. QueueDel(q, e) = RemoveAt(q, i)
  BY DEF QueueDel
<1> HIDE DEF i
<1> QED
  BY <1>1, <1>2, RemoveAtListe

\* queue_out of a list that is not empty.
LEMMA QueueOutElements ==
    ASSUME NEW S, NEW q \in Seq(S), q # <<>>
    PROVE  /\ QueueTop(q) \in Range(q)
           /\ QueueTop(q) \in S
           /\ QueueOut(q) \in Seq(S)
           /\ Range(QueueOut(q)) \subseteq Range(q)
           /\ Range(q) \subseteq Range(QueueOut(q)) \cup {QueueTop(q)}
           /\ IsInjective(q) => /\ IsInjective(QueueOut(q))
                                /\ QueueTop(q) \notin Range(QueueOut(q))
           /\ \A cle : Triee(q, cle) =>
                 /\ Triee(QueueOut(q), cle)
                 /\ \A e \in Range(QueueOut(q)) : cle[e] <= cle[QueueTop(q)]
<1>1. PICK n \in Nat \ {0} : n = Len(q) /\ n \in 1 .. Len(q)
  BY EmptySeq
<1> DEFINE r == SubSeq(q, 1, n - 1)
<1>2. r \in Seq(S) /\ Len(r) = n - 1 /\ \A j \in 1 .. n - 1 : r[j] = q[j]
  BY <1>1, SubSeqProperties
<1>3. QueueTop(q) = q[n] /\ QueueOut(q) = r
  BY <1>1 DEF QueueTop, QueueOut, Last, Front
<1> HIDE DEF r
<1>4. /\ RemoveAt(q, n) \in Seq(S) /\ Len(RemoveAt(q, n)) = n - 1
      /\ \A j \in 1 .. n - 1 : RemoveAt(q, n)[j] = q[j]
  BY <1>1, RemoveAtElements
<1>5. RemoveAt(q, n) = r
  BY <1>2, <1>4, SeqEqual
<1>6. Range(q) = {q[j] : j \in 1 .. n} /\ Range(r) = {r[j] : j \in 1 .. Len(r)}
  BY <1>1, <1>2, RangeEquality
<1>7. ASSUME NEW cle, Triee(q, cle), NEW e \in Range(r) PROVE cle[e] <= cle[q[n]]
  <2>1. PICK j \in 1 .. n - 1 : e = q[j]
    BY <1>6, <1>2
  <2> QED
    BY <2>1, <1>7, <1>1 DEF Triee
<1>8. q[n] \in S /\ q[n] \in Range(q)
  BY <1>1, <1>6
<1> QED
  BY <1>1, <1>3, <1>5, <1>7, <1>8, RemoveAtListe

-----------------------------------------------------------------------------
\* The two parts of a list.

\* The first m elements of a list, and the others.
LEMMA ListeCoupee ==
    ASSUME NEW S, NEW q \in Seq(S), NEW m \in 0 .. Len(q)
    PROVE  /\ SubSeq(q, 1, m) \in Seq(S)
           /\ SubSeq(q, m + 1, Len(q)) \in Seq(S)
           /\ Range(q) = Range(SubSeq(q, 1, m)) \cup Range(SubSeq(q, m + 1, Len(q)))
           /\ IsInjective(q) =>
                 /\ IsInjective(SubSeq(q, 1, m))
                 /\ IsInjective(SubSeq(q, m + 1, Len(q)))
                 /\ Range(SubSeq(q, 1, m)) \cap Range(SubSeq(q, m + 1, Len(q))) = {}
           /\ \A cle : Triee(q, cle) => Triee(SubSeq(q, m + 1, Len(q)), cle)
<1> DEFINE n == Len(q)
           a == SubSeq(q, 1, m)
           b == SubSeq(q, m + 1, n)
<1>1. n \in Nat /\ m \in 0 .. n
  BY LenProperties
<1>2. a \in Seq(S) /\ Len(a) = m /\ \A j \in 1 .. m : a[j] = q[j]
  BY SubSeqProperties
<1>3. b \in Seq(S) /\ Len(b) = n - m /\ \A j \in 1 .. n - m : b[j] = q[m + j]
  BY SubSeqProperties
<1>4. /\ Len(a) = m /\ \A j \in 1 .. m : a[j] = q[j]
      /\ Len(b) = n - m /\ \A j \in 1 .. n - m : b[j] = q[m + j]
      /\ m \in 0 .. n
      /\ n \in Nat
  BY <1>1, <1>2, <1>3
<1> HIDE DEF a, b
<1>5. /\ Range(q) = {q[j] : j \in 1 .. n}
      /\ Range(a) = {a[j] : j \in 1 .. m}
      /\ Range(b) = {b[j] : j \in 1 .. n - m}
  <2>1. Range(q) = {q[j] : j \in 1 .. Len(q)}
    BY RangeEquality
  <2>2. Range(a) = {a[j] : j \in 1 .. Len(a)}
    BY <1>2, RangeEquality
  <2>3. Range(b) = {b[j] : j \in 1 .. Len(b)}
    BY <1>3, RangeEquality
  <2> QED
    BY <2>1, <2>2, <2>3, <1>4
<1> HIDE DEF n
<1>6. Range(q) = Range(a) \cup Range(b)
  <2>1. ASSUME NEW j \in 1 .. n PROVE q[j] \in Range(a) \cup Range(b)
    <3>1. CASE j <= m
      BY <3>1, <1>4, <1>5
    <3>2. CASE j > m
      <4>1. j - m \in 1 .. n - m /\ b[j - m] = q[m + (j - m)] /\ m + (j - m) = j
        BY <3>2, <1>4
      <4> QED
        BY <4>1, <1>5
    <3> QED
      BY <3>1, <3>2, <1>4
  <2>2. ASSUME NEW j \in 1 .. m PROVE a[j] \in Range(q)
    BY <1>4, <1>5
  <2>3. ASSUME NEW j \in 1 .. n - m PROVE b[j] \in Range(q)
    <3>1. m + j \in 1 .. n /\ b[j] = q[m + j]
      BY <1>4
    <3> QED
      BY <3>1, <1>5
  <2> QED
    BY <2>1, <2>2, <2>3, <1>5
<1>7. ASSUME IsInjective(q)
      PROVE  IsInjective(a) /\ IsInjective(b) /\ Range(a) \cap Range(b) = {}
  <2>1. \A j, l \in 1 .. n : q[j] = q[l] => j = l
    BY <1>7 DEF IsInjective, n
  <2>2. \A j, l \in 1 .. m : a[j] = a[l] => j = l
    BY <2>1, <1>4
  <2>3. ASSUME NEW j \in 1 .. n - m, NEW l \in 1 .. n - m, b[j] = b[l] PROVE j = l
    <3>1. m + j \in 1 .. n /\ m + l \in 1 .. n /\ q[m + j] = q[m + l]
      BY <2>3, <1>4
    <3>2. m + j = m + l
      BY <2>1, <3>1
    <3> QED
      BY <3>2, <1>4
  <2>4. ASSUME NEW j \in 1 .. m, NEW l \in 1 .. n - m PROVE a[j] # b[l]
    <3>1. j \in 1 .. n /\ m + l \in 1 .. n /\ a[j] = q[j] /\ b[l] = q[m + l] /\ j # m + l
      BY <1>4
    <3> QED
      BY <2>1, <3>1
  <2>5. Range(a) \cap Range(b) = {}
    BY <2>4, <1>5
  <2> QED
    BY <2>2, <2>3, <2>5, <1>4 DEF IsInjective
<1>8. ASSUME NEW cle, Triee(q, cle) PROVE Triee(b, cle)
  <2>1. \A j, l \in 1 .. n : j < l => cle[q[j]] <= cle[q[l]]
    BY <1>8 DEF Triee, n
  <2>2. ASSUME NEW j \in 1 .. n - m, NEW l \in 1 .. n - m, j < l
        PROVE  cle[b[j]] <= cle[b[l]]
    <3>1. m + j \in 1 .. n /\ m + l \in 1 .. n /\ m + j < m + l
          /\ b[j] = q[m + j] /\ b[l] = q[m + l]
      BY <2>2, <1>4
    <3> QED
      BY <2>1, <3>1
  <2> QED
    BY <2>2, <1>4 DEF Triee
<1> QED
  BY <1>2, <1>3, <1>6, <1>7, <1>8 DEF a, b, n

-----------------------------------------------------------------------------
\* A loop of queue_add.

\* The list l after i turns of the loop.
Apres(q, w, cle, S, i, l) ==
    /\ l \in Seq(S)
    /\ Range(l) = Range(q) \cup {w[j] : j \in 1 .. i}
    /\ IsInjective(q) /\ IsInjective(w) /\ Range(q) \cap Range(w) = {}
          => IsInjective(l)
    /\ Triee(q, cle) => Triee(l, cle)

LEMMA UnTour ==
    ASSUME NEW S, NEW q \in Seq(S), NEW w \in Seq(S), NEW cle \in [S -> Nat],
           NEW i \in 1 .. Len(w), NEW l, Apres(q, w, cle, S, i - 1, l)
    PROVE  Apres(q, w, cle, S, i, QueueAdd(l, w[i], cle))
<1>2. l \in Seq(S) /\ w[i] \in S
  BY DEF Apres
<1> DEFINE r == QueueAdd(l, w[i], cle)
<1>3. /\ r \in Seq(S)
      /\ Range(r) = Range(l) \cup {w[i]}
      /\ IsInjective(l) /\ w[i] \notin Range(l) => IsInjective(r)
      /\ Triee(l, cle) => Triee(r, cle)
  <2> DEFINE e == w[i]
  <2>1. e \in S
    BY <1>2
  <2> HIDE DEF e
  <2>2. /\ QueueAdd(l, e, cle) \in Seq(S)
        /\ Range(QueueAdd(l, e, cle)) = Range(l) \cup {e}
        /\ IsInjective(l) /\ e \notin Range(l) => IsInjective(QueueAdd(l, e, cle))
        /\ Triee(l, cle) => Triee(QueueAdd(l, e, cle), cle)
    BY <1>2, <2>1, QueueAddElements
  <2> QED
    BY <2>2 DEF e
<1> HIDE DEF r
<1>4. Range(r) = Range(q) \cup {w[j] : j \in 1 .. i}
  <2>1. {w[j] : j \in 1 .. i} = {w[j] : j \in 1 .. i - 1} \cup {w[i]}
    OBVIOUS
  <2>2. Range(l) = Range(q) \cup {w[j] : j \in 1 .. i - 1}
    BY DEF Apres
  <2> QED
    BY <2>1, <2>2, <1>3
<1>5. ASSUME IsInjective(q), IsInjective(w), Range(q) \cap Range(w) = {}
      PROVE  IsInjective(r)
  <2>1. IsInjective(l) /\ Range(l) = Range(q) \cup {w[j] : j \in 1 .. i - 1}
    BY <1>5 DEF Apres
  <2>2. w[i] \notin Range(q)
    BY <1>5, RangeEquality
  <2>3. \A j \in 1 .. i - 1 : w[j] # w[i]
    <3>1. \A j, m \in 1 .. Len(w) : w[j] = w[m] => j = m
      BY <1>5 DEF IsInjective
    <3> QED
      BY <3>1
  <2>4. w[i] \notin Range(l)
    BY <2>1, <2>2, <2>3
  <2> QED
    BY <2>1, <2>4, <1>3
<1>6. Triee(q, cle) => Triee(r, cle)
  BY <1>3 DEF Apres
<1>7. Apres(q, w, cle, S, i, r)
  BY <1>3, <1>4, <1>5, <1>6 DEF Apres
<1> QED
  BY <1>7 DEF r

\* The loop adds every element of w and no other; it keeps an ordered list
\* ordered and leaves nothing twice in the list.
LEMMA QueueAddTousElements ==
    ASSUME NEW S, NEW q \in Seq(S), NEW w \in Seq(S), NEW cle \in [S -> Nat]
    PROVE  /\ QueueAddTous(q, w, cle) \in Seq(S)
           /\ Range(QueueAddTous(q, w, cle)) = Range(q) \cup Range(w)
           /\ IsInjective(q) /\ IsInjective(w) /\ Range(q) \cap Range(w) = {}
                 => IsInjective(QueueAddTous(q, w, cle))
           /\ Triee(q, cle) => Triee(QueueAddTous(q, w, cle), cle)
<1> DEFINE n == Len(w)
           D(f) == [i \in 0 .. n |-> IF i = 0 THEN q ELSE QueueAdd(f[i - 1], w[i], cle)]
           P == CHOOSE f : f = D(f)
           Bon(m, g) == /\ g[0] = q
                        /\ \A i \in 1 .. m : g[i] = QueueAdd(g[i - 1], w[i], cle)
\* The lists of the successive turns exist.
<1>1. n \in Nat
  BY LenProperties
<1>2. \E g : g = [i \in 0 .. n |-> g[i]] /\ Bon(n, g)
  <2> DEFINE T == {m \in 0 .. n : ~ \E g : g = [i \in 0 .. m |-> g[i]] /\ Bon(m, g)}
  <2>0. T = {}
    <3>1. SUFFICES ASSUME T # {} PROVE FALSE
      OBVIOUS
    <3>2. T \subseteq Nat
      BY <1>1
    <3>3. PICK m \in T : \A y \in T : m <= y
      <4> HIDE DEF T
      <4> QED
        BY <3>1, <3>2, PlusPetit
    <3>4. m \in 0 .. n /\ ~ \E g : g = [i \in 0 .. m |-> g[i]] /\ Bon(m, g)
      BY <3>3
    <3>5. m # 0
      <4> DEFINE g == [i \in 0 .. 0 |-> q]
      <4>1. g = [i \in 0 .. 0 |-> g[i]] /\ Bon(0, g)
        OBVIOUS
      <4> HIDE DEF g, Bon
      <4> QED
        BY <3>4, <4>1
    <3>6. m \in 1 .. n /\ m - 1 \in 0 .. n /\ m - 1 \notin T
      <4>1. m \in 1 .. n /\ m - 1 \in 0 .. n /\ ~ m <= m - 1
        BY <1>1, <3>4, <3>5
      <4> HIDE DEF T
      <4> QED
        BY <3>3, <4>1
    <3>7. PICK g : g = [i \in 0 .. m - 1 |-> g[i]] /\ Bon(m - 1, g)
      <4> HIDE DEF Bon
      <4> QED
        BY <3>6
    <3> DEFINE h == [i \in 0 .. m |-> IF i = m THEN QueueAdd(g[m - 1], w[m], cle) ELSE g[i]]
    <3>8. h = [i \in 0 .. m |-> h[i]]
      OBVIOUS
    <3>9. Bon(m, h)
      <4>1. h[0] = q
        BY <3>6, <3>7
      <4>2. ASSUME NEW i \in 1 .. m PROVE h[i] = QueueAdd(h[i - 1], w[i], cle)
        <5>1. i - 1 \in 0 .. m /\ i - 1 # m /\ i \in 0 .. m
          BY <3>6
        <5>2. h[i - 1] = g[i - 1]
          BY <5>1
        <5>3. CASE i = m
          BY <5>1, <5>2, <5>3
        <5>4. CASE i # m
          <6>1. i \in 1 .. m - 1
            BY <3>6, <5>4
          <6>2. g[i] = QueueAdd(g[i - 1], w[i], cle)
            BY <3>7, <6>1
          <6> QED
            BY <5>1, <5>2, <5>4, <6>2
        <5> QED
          BY <5>3, <5>4
      <4> QED
        BY <4>1, <4>2
    <3> HIDE DEF h, Bon
    <3> QED
      BY <3>4, <3>8, <3>9
  <2>1. n \in 0 .. n
    BY <1>1
  <2> HIDE DEF Bon, n
  <2> QED
    BY <2>0, <2>1
<1>3. P = D(P)
  <2>1. PICK g : g = [i \in 0 .. n |-> g[i]] /\ Bon(n, g)
    BY <1>2
  <2>2. g = D(g)
    <3>1. ASSUME NEW i \in 0 .. n PROVE g[i] = D(g)[i]
      <4>1. CASE i = 0
        BY <2>1, <4>1
      <4>2. CASE i # 0
        <5>1. i \in 1 .. n
          BY <1>1, <4>2
        <5> QED
          BY <2>1, <4>2, <5>1
      <4> QED
        BY <4>1, <4>2
    <3> QED
      BY <2>1, <3>1
  <2> HIDE DEF D
  <2> QED
    BY <2>2, Zenon
\* Induction along them.
<1>4. ASSUME NEW f, f = D(f) PROVE \A m \in 0 .. n : Apres(q, w, cle, S, m, f[m])
  <2> DEFINE T == {m \in 0 .. n : ~ Apres(q, w, cle, S, m, f[m])}
  <2>1. SUFFICES ASSUME T # {} PROVE FALSE
    OBVIOUS
  <2>2. T \subseteq Nat
    BY <1>1
  <2>3. PICK m \in T : \A y \in T : m <= y
    <3> HIDE DEF T
    <3> QED
      BY <2>1, <2>2, PlusPetit
  <2>4. f[0] = q
    BY <1>1, <1>4
  <2>5. Apres(q, w, cle, S, 0, q)
    BY DEF Apres
  <2>6. m # 0
    BY <2>3, <2>4, <2>5
  <2>7. m \in 1 .. n /\ m - 1 \in 0 .. n /\ m - 1 \notin T
    BY <1>1, <2>3, <2>6
  <2>8. Apres(q, w, cle, S, m - 1, f[m - 1])
    BY <2>7
  <2>9. Apres(q, w, cle, S, m, QueueAdd(f[m - 1], w[m], cle))
    BY <2>7, <2>8, UnTour
  <2>10. f[m] = QueueAdd(f[m - 1], w[m], cle)
    <3>1. m \in 0 .. n /\ m # 0
      BY <2>7
    <3>2. D(f)[m] = QueueAdd(f[m - 1], w[m], cle)
      BY <3>1
    <3>3. f[m] = D(f)[m]
      <4> HIDE DEF D
      <4> QED
        BY <1>4, Zenon
    <3> QED
      BY <3>2, <3>3, Zenon
  <2> QED
    BY <2>3, <2>9, <2>10
<1>5. QueueAddTous(q, w, cle) = P[n]
  BY Zenon DEF QueueAddTous
<1>6. Apres(q, w, cle, S, n, P[n])
  <2>1. n \in 0 .. n
    BY <1>1
  <2> HIDE DEF P, D
  <2> QED
    BY <1>3, <1>4, <2>1
<1>7. Range(w) = {w[j] : j \in 1 .. n}
  BY RangeEquality
<1> HIDE DEF P, n
<1> QED
  BY <1>5, <1>6, <1>7 DEF Apres

\* The first n elements that queue_out takes are the last n of the list.
LEMMA ListeRetournee ==
    ASSUME NEW S, NEW q \in Seq(S), NEW n \in 0 .. Len(q)
    PROVE  LET w == SubSeq(Reverse(q), 1, n)
               r == SubSeq(q, 1, Len(q) - n)
           IN  /\ w \in Seq(S) /\ Len(w) = n
               /\ r \in Seq(S)
               /\ Range(q) = Range(r) \cup Range(w)
               /\ IsInjective(q) => /\ IsInjective(w) /\ IsInjective(r)
                                    /\ Range(r) \cap Range(w) = {}
<1> DEFINE l == Len(q)
           m == l - n
           b == SubSeq(q, m + 1, l)
           v == Reverse(q)
           w == SubSeq(v, 1, n)
<1>1. l \in Nat /\ m \in 0 .. l /\ n \in 0 .. l
  BY LenProperties
<1>2. v \in Seq(S) /\ Len(v) = l /\ \A j \in 1 .. l : v[j] = q[l - j + 1]
  BY <1>1 DEF Reverse
<1>3. b \in Seq(S) /\ Len(b) = n /\ \A j \in 1 .. n : b[j] = q[m + j]
  <2>1. b \in Seq(S) /\ Len(b) = l - m /\ \A j \in 1 .. l - m : b[j] = q[m + j]
    BY <1>1, SubSeqProperties
  <2> QED
    BY <1>1, <2>1
<1> HIDE DEF v, b
<1>4. w \in Seq(S) /\ Len(w) = n /\ \A j \in 1 .. n : w[j] = v[j]
  BY <1>1, <1>2, SubSeqProperties
<1> HIDE DEF w
<1>5. \A j \in 1 .. n : n - j + 1 \in 1 .. n /\ w[j] = b[n - j + 1]
  <2> SUFFICES ASSUME NEW j \in 1 .. n
               PROVE  n - j + 1 \in 1 .. n /\ w[j] = b[n - j + 1]
    OBVIOUS
  <2>1. n - j + 1 \in 1 .. n /\ m + (n - j + 1) = l - j + 1
    BY <1>1
  <2>2. j \in 1 .. l
    BY <1>1
  <2> HIDE DEF l, m
  <2> QED
    BY <1>2, <1>3, <1>4, <2>1, <2>2
<1>6. Range(w) = Range(b)
  <2>1. Range(w) = {w[j] : j \in 1 .. n} /\ Range(b) = {b[j] : j \in 1 .. n}
    BY <1>3, <1>4, RangeEquality
  <2>2. ASSUME NEW j \in 1 .. n PROVE \E i \in 1 .. n : b[j] = w[i]
    <3>1. n - j + 1 \in 1 .. n /\ n - (n - j + 1) + 1 = j
      BY <1>1
    <3> QED
      BY <1>5, <3>1
  <2>3. ASSUME NEW j \in 1 .. n PROVE \E i \in 1 .. n : w[j] = b[i]
    BY <1>5
  <2> QED
    BY <2>1, <2>2, <2>3
<1>7. ASSUME IsInjective(b) PROVE IsInjective(w)
  <2>1. DOMAIN b = 1 .. n /\ DOMAIN w = 1 .. n
    BY <1>1, <1>3, <1>4, LenProperties
  <2>2. ASSUME NEW i \in 1 .. n, NEW j \in 1 .. n, w[i] = w[j] PROVE i = j
    <3>1. b[n - i + 1] = b[n - j + 1] /\ n - i + 1 \in 1 .. n /\ n - j + 1 \in 1 .. n
      BY <1>5, <2>2
    <3>2. n - i + 1 = n - j + 1
      BY <1>7, <2>1, <3>1 DEF IsInjective
    <3> QED
      BY <1>1, <3>2
  <2> QED
    BY <2>1, <2>2 DEF IsInjective
<1>8. /\ SubSeq(q, 1, m) \in Seq(S) /\ Range(q) = Range(SubSeq(q, 1, m)) \cup Range(b)
      /\ IsInjective(q) => /\ IsInjective(SubSeq(q, 1, m)) /\ IsInjective(b)
                           /\ Range(SubSeq(q, 1, m)) \cap Range(b) = {}
  BY <1>1, ListeCoupee DEF b
<1> QED
  BY <1>4, <1>6, <1>7, <1>8 DEF w, v
=============================================================================
