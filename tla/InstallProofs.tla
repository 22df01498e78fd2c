---------------------------- MODULE InstallProofs -----------------------------
(* Theorems about Install, for every number of commands, of overlapping       *)
(* processes and of troubles.                                                 *)
EXTENDS Install, FiniteSetTheorems, SequenceTheorems, WellFoundedInduction, TLAPS

-----------------------------------------------------------------------------
(* Insertion into a sequence of lines.                                        *)

Inserted(s, k, e, t) ==
    /\ s \in Seq(Lines) /\ t \in Seq(Lines) /\ e \in Lines
    /\ k \in 1..(Len(s) + 1) /\ Len(t) = Len(s) + 1 /\ t[k] = e
    /\ \A j \in 1..(k - 1) : t[j] = s[j]
    /\ \A j \in k..Len(s) : t[j + 1] = s[j]

LEMMA ConcatFacts ==
    ASSUME NEW S, NEW a \in Seq(S), NEW b \in Seq(S)
    PROVE  /\ a \o b \in Seq(S) /\ Len(a \o b) = Len(a) + Len(b)
           /\ \A i \in 1..Len(a) : (a \o b)[i] = a[i]
           /\ \A i \in 1..Len(b) : (a \o b)[Len(a) + i] = b[i]
<1>1. Len(a) \in Nat /\ Len(b) \in Nat
  BY LenProperties
<1>2. /\ a \o b \in Seq(S) /\ Len(a \o b) = Len(a) + Len(b)
      /\ \A i \in 1..(Len(a) + Len(b)) : (a \o b)[i] = IF i <= Len(a) THEN a[i] ELSE b[i - Len(a)]
  OBVIOUS
<1>3. ASSUME NEW i \in 1..Len(a) PROVE (a \o b)[i] = a[i]
  <2>1. i \in 1..(Len(a) + Len(b)) /\ i <= Len(a)
    BY <1>1
  <2> QED
    BY <1>2, <2>1
<1>4. ASSUME NEW i \in 1..Len(b) PROVE (a \o b)[Len(a) + i] = b[i]
  <2>1. Len(a) + i \in 1..(Len(a) + Len(b)) /\ ~(Len(a) + i <= Len(a)) /\ (Len(a) + i) - Len(a) = i
    BY <1>1
  <2> QED
    BY <1>2, <2>1
<1> QED
  BY <1>2, <1>3, <1>4

LEMMA SingleFacts ==
    ASSUME NEW S, NEW e \in S
    PROVE  <<e>> \in Seq(S) /\ Len(<<e>>) = 1 /\ <<e>>[1] = e
OBVIOUS

LEMMA PrependFacts ==
    ASSUME NEW s \in Seq(Lines), NEW e \in Lines
    PROVE  Inserted(s, 1, e, <<e>> \o s)
<1> DEFINE a == <<e>>
           t == a \o s
<1>1. a \in Seq(Lines) /\ Len(a) = 1 /\ a[1] = e
  BY SingleFacts
<1>2. Len(s) \in Nat
  BY LenProperties
<1> HIDE DEF a
<1>3. /\ t \in Seq(Lines) /\ Len(t) = Len(a) + Len(s)
      /\ \A i \in 1..Len(a) : t[i] = a[i]
      /\ \A i \in 1..Len(s) : t[Len(a) + i] = s[i]
  BY <1>1, ConcatFacts
<1> HIDE DEF t
<1>4. 1 \in 1..(Len(s) + 1) /\ Len(t) = Len(s) + 1 /\ t[1] = e
  BY <1>1, <1>2, <1>3
<1>5. ASSUME NEW j \in 1..Len(s) PROVE t[j + 1] = s[j]
  <2>1. t[1 + j] = s[j] /\ 1 + j = j + 1
    BY <1>1, <1>2, <1>3
  <2> QED
    BY <2>1
<1>6. \A j \in 1..(1 - 1) : t[j] = s[j]
  OBVIOUS
<1>7. Inserted(s, 1, e, t)
  BY <1>3, <1>4, <1>5, <1>6 DEF Inserted
<1> QED
  BY <1>7 DEF t, a

LEMMA InsertAtFacts ==
    ASSUME NEW s \in Seq(Lines), NEW e \in Lines, NEW k \in 1..(Len(s) + 1)
    PROVE  Inserted(s, k, e, InsertAt(s, k, e))
<1> DEFINE a == SubSeq(s, 1, k - 1)
           m == <<e>>
           b == SubSeq(s, k, Len(s))
           u == a \o m
           t == u \o b
<1>0. Len(s) \in Nat /\ k \in Nat /\ 1 <= k /\ k <= Len(s) + 1
  BY LenProperties
<1>1. a \in Seq(Lines) /\ Len(a) = k - 1 /\ \A i \in 1..(k - 1) : a[i] = s[i]
  <2>1. 1 \in Int /\ k - 1 \in Int /\ \A i \in 1..(k - 1) : s[i] \in Lines
    BY <1>0, ElementOfSeq
  <2>2. /\ a \in Seq(Lines) /\ Len(a) = IF 1 <= k - 1 THEN (k - 1) - 1 + 1 ELSE 0
        /\ \A i \in 1..((k - 1) - 1 + 1) : a[i] = s[1 + i - 1]
    BY <2>1, SubSeqProperties
  <2> HIDE DEF a
  <2>3. Len(a) = k - 1
    BY <1>0, <2>2
  <2>4. ASSUME NEW i \in 1..(k - 1) PROVE a[i] = s[i]
    <3>1. i \in 1..((k - 1) - 1 + 1) /\ 1 + i - 1 = i
      BY <1>0
    <3> QED
      BY <2>2, <3>1
  <2> QED
    BY <2>2, <2>3, <2>4
<1>2. b \in Seq(Lines) /\ Len(b) = Len(s) - k + 1 /\ \A i \in 1..(Len(s) - k + 1) : b[i] = s[k + i - 1]
  <2>1. k \in Int /\ Len(s) \in Int /\ \A i \in k..Len(s) : s[i] \in Lines
    BY <1>0, ElementOfSeq
  <2>2. /\ b \in Seq(Lines) /\ Len(b) = IF k <= Len(s) THEN Len(s) - k + 1 ELSE 0
        /\ \A i \in 1..(Len(s) - k + 1) : b[i] = s[k + i - 1]
    BY <2>1, SubSeqProperties
  <2> HIDE DEF b
  <2>3. Len(b) = Len(s) - k + 1
    BY <1>0, <2>2
  <2> QED
    BY <2>2, <2>3
<1>3. m \in Seq(Lines) /\ Len(m) = 1 /\ m[1] = e
  BY SingleFacts
<1>4. t = InsertAt(s, k, e)
  BY DEF InsertAt
<1> HIDE DEF a, m, b
<1>5. /\ u \in Seq(Lines) /\ Len(u) = Len(a) + Len(m)
      /\ \A i \in 1..Len(a) : u[i] = a[i]
      /\ \A i \in 1..Len(m) : u[Len(a) + i] = m[i]
  <2>1. a \in Seq(Lines) /\ m \in Seq(Lines)
    BY <1>1, <1>3
  <2> QED
    BY <2>1, ConcatFacts
<1> HIDE DEF u
<1>6. /\ t \in Seq(Lines) /\ Len(t) = Len(u) + Len(b)
      /\ \A i \in 1..Len(u) : t[i] = u[i]
      /\ \A i \in 1..Len(b) : t[Len(u) + i] = b[i]
  <2>1. u \in Seq(Lines) /\ b \in Seq(Lines)
    BY <1>2, <1>5
  <2> QED
    BY <2>1, ConcatFacts
<1> HIDE DEF t
<1>7. Len(u) = k /\ Len(t) = Len(s) + 1
  BY <1>0, <1>1, <1>2, <1>3, <1>5, <1>6
<1>8. t[k] = e
  <2>1. 1 \in 1..Len(m) /\ Len(a) + 1 = k /\ k \in 1..Len(u)
    BY <1>0, <1>1, <1>3, <1>7
  <2>2. u[k] = m[1]
    BY <1>5, <2>1
  <2> QED
    BY <1>3, <1>6, <2>1, <2>2
<1>9. ASSUME NEW j \in 1..(k - 1) PROVE t[j] = s[j]
  <2>1. j \in 1..Len(u) /\ j \in 1..Len(a)
    BY <1>0, <1>1, <1>7
  <2> QED
    BY <1>1, <1>5, <1>6, <2>1
<1>10. ASSUME NEW j \in k..Len(s) PROVE t[j + 1] = s[j]
  <2> DEFINE i == j - k + 1
  <2>1. i \in 1..Len(b) /\ Len(u) + i = j + 1 /\ k + i - 1 = j /\ i \in 1..(Len(s) - k + 1)
    BY <1>0, <1>2, <1>7
  <2> HIDE DEF i
  <2>2. t[Len(u) + i] = b[i] /\ b[i] = s[k + i - 1]
    BY <1>2, <1>6, <2>1
  <2> QED
    BY <2>1, <2>2
<1>11. Inserted(s, k, e, t)
  BY <1>6, <1>7, <1>8, <1>9, <1>10 DEF Inserted
<1> QED
  BY <1>4, <1>11

(* Where the lines of the longer sequence come from.                          *)
LEMMA InsertedOrigin ==
    ASSUME NEW s, NEW k, NEW e, NEW t, Inserted(s, k, e, t)
    PROVE  /\ DOMAIN t = 1..(Len(s) + 1) /\ DOMAIN s = 1..Len(s) /\ Len(s) \in Nat
           /\ k \in Nat /\ 1 <= k /\ k <= Len(s) + 1
           /\ \A i \in DOMAIN t : \/ i = k /\ t[i] = e
                                  \/ i < k /\ i \in DOMAIN s /\ t[i] = s[i]
                                  \/ i > k /\ i - 1 \in DOMAIN s /\ i - 1 >= k /\ t[i] = s[i - 1]
<1>1. DOMAIN t = 1..(Len(s) + 1) /\ DOMAIN s = 1..Len(s) /\ Len(s) \in Nat
  BY LenProperties DEF Inserted
<1>2. k \in Nat /\ 1 <= k /\ k <= Len(s) + 1
  BY <1>1 DEF Inserted
<1>3. ASSUME NEW i \in DOMAIN t
      PROVE  \/ i = k /\ t[i] = e
             \/ i < k /\ i \in DOMAIN s /\ t[i] = s[i]
             \/ i > k /\ i - 1 \in DOMAIN s /\ i - 1 >= k /\ t[i] = s[i - 1]
  <2>1. i \in Nat /\ 1 <= i /\ i <= Len(s) + 1
    BY <1>1
  <2>2. CASE i = k
    BY <2>2 DEF Inserted
  <2>3. CASE i < k
    <3>1. i \in 1..(k - 1) /\ i \in DOMAIN s
      BY <1>1, <1>2, <2>1, <2>3
    <3> QED
      BY <2>3, <3>1 DEF Inserted
  <2>4. CASE i > k
    <3>1. i - 1 \in k..Len(s) /\ i - 1 \in DOMAIN s /\ (i - 1) + 1 = i /\ i - 1 >= k
      BY <1>1, <1>2, <2>1, <2>4
    <3>2. t[(i - 1) + 1] = s[i - 1]
      BY <3>1 DEF Inserted
    <3> QED
      BY <2>4, <3>1, <3>2
  <2> QED
    BY <1>2, <2>1, <2>2, <2>3, <2>4
<1> QED
  BY <1>1, <1>2, <1>3

LEMMA LeastIndex ==
    ASSUME NEW I \in SUBSET Nat, I # {}
    PROVE  \E m \in I : \A j \in I : m <= j
<1> DEFINE Less == OpToRel(<, Nat)
<1>1. \A i, j \in Nat : i < j => <<i, j>> \in Less
  BY DEF OpToRel
<1>2. PICK m \in I : \A j \in I : ~(<<j, m>> \in Less)
  BY NatLessThanWellFounded, WFMin
<1> HIDE DEF Less
<1>3. ASSUME NEW j \in I PROVE m <= j
  <2>1. m \in Nat /\ j \in Nat
    OBVIOUS
  <2>2. ~(j < m)
    BY <1>1, <1>2, <2>1
  <2> QED
    BY <2>1, <2>2
<1> QED
  BY <1>3

(* The least index with a property is the first one.                          *)
LEMMA FirstIndex ==
    ASSUME NEW s \in Seq(Lines), NEW I \in SUBSET DOMAIN s, I # {}
    PROVE  \E i \in DOMAIN s : i \in I /\ \A j \in 1..(i - 1) : j \notin I
<1>1. DOMAIN s = 1..Len(s) /\ Len(s) \in Nat
  BY LenProperties
<1>2. I \in SUBSET Nat
  BY <1>1
<1>3. PICK m \in I : \A j \in I : m <= j
  BY <1>2, LeastIndex
<1>4. ASSUME NEW j \in 1..(m - 1), j \in I PROVE FALSE
  <2>1. m \in Nat /\ m <= j
    BY <1>2, <1>3, <1>4
  <2> QED
    BY <2>1
<1> QED
  BY <1>3, <1>4

LEMMA InsertLineFacts ==
    ASSUME NEW s \in Seq(Lines), NEW e \in Lines
    PROVE  \E k : Inserted(s, k, e, InsertLine(s, e))
<1>1. DOMAIN s = 1..Len(s) /\ Len(s) \in Nat
  BY LenProperties
<1>2. CASE \E i \in DOMAIN s : IsAuthDirective(s[i])
  <2> DEFINE I == {i \in DOMAIN s : IsAuthDirective(s[i])}
             f == FirstWhere(s, IsAuthDirective)
  <2>1. \E i \in DOMAIN s : i \in I /\ \A j \in 1..(i - 1) : j \notin I
    BY <1>2, FirstIndex
  <2>2. \E i \in DOMAIN s : IsAuthDirective(s[i]) /\ \A j \in 1..(i - 1) : ~IsAuthDirective(s[j])
    BY <1>1, <2>1
  <2>3. f \in DOMAIN s
    BY <2>2 DEF FirstWhere
  <2>4. InsertLine(s, e) = InsertAt(s, f, e)
    BY <1>2 DEF InsertLine
  <2> HIDE DEF f
  <2>5. f \in 1..(Len(s) + 1)
    BY <1>1, <2>3
  <2> QED
    BY <2>4, <2>5, InsertAtFacts
<1>3. CASE ~\E i \in DOMAIN s : IsAuthDirective(s[i])
  <2>1. InsertLine(s, e) = <<e>> \o s
    BY <1>3 DEF InsertLine
  <2> QED
    BY <2>1, PrependFacts
<1> QED
  BY <1>2, <1>3

LEMMA U2fFacts ==
    ASSUME NEW s \in Seq(Lines), NEW b \in BOOLEAN
    PROVE  \/ MaybeInsertU2f(s, b) = s
           \/ ~HasU2f(s) /\ \E k : Inserted(s, k, "u2f", MaybeInsertU2f(s, b))
<1> DEFINE IsOurs(l) == l \in {"syauth", "syauthX"}
           I == {i \in DOMAIN s : IsOurs(s[i])}
           f == CHOOSE i \in DOMAIN s : IsOurs(s[i]) /\ \A j \in 1..(i - 1) : ~IsOurs(s[j])
<1>1. DOMAIN s = 1..Len(s) /\ Len(s) \in Nat
  BY LenProperties
<1>2. MaybeInsertU2f(s, b) = IF ~b \/ HasU2f(s) \/ ~\E i \in DOMAIN s : IsOurs(s[i]) THEN s
                             ELSE InsertAt(s, f + 1, "u2f")
  BY DEF MaybeInsertU2f, FirstWhere
<1>3. ASSUME ~HasU2f(s), \E i \in DOMAIN s : IsOurs(s[i])
      PROVE  Inserted(s, f + 1, "u2f", InsertAt(s, f + 1, "u2f"))
  <2>1. \E i \in DOMAIN s : i \in I /\ \A j \in 1..(i - 1) : j \notin I
    BY <1>3, FirstIndex
  <2>2. \E i \in DOMAIN s : IsOurs(s[i]) /\ \A j \in 1..(i - 1) : ~IsOurs(s[j])
    BY <1>1, <2>1
  <2>3. f \in DOMAIN s
    BY <2>2
  <2> HIDE DEF f
  <2>4. f + 1 \in 1..(Len(s) + 1) /\ "u2f" \in Lines
    BY <1>1, <2>3 DEF Lines
  <2> QED
    BY <2>4, InsertAtFacts
<1> HIDE DEF IsOurs, f
<1> QED
  BY <1>2, <1>3

-----------------------------------------------------------------------------
(* One line of each kind.                                                     *)

Single(lines, l) == \A i, j \in DOMAIN lines : lines[i] = l /\ lines[j] = l => i = j

LEMMA SomeAreFinite ==
    ASSUME NEW n \in Int, NEW S \in SUBSET (1..n)
    PROVE  IsFiniteSet(S) /\ Cardinality(S) \in Nat
<1>1. IsFiniteSet(1..n)
  <2>1. 1 \in Int
    OBVIOUS
  <2> QED
    BY <2>1, FS_Interval
<1>2. IsFiniteSet(S)
  BY <1>1, FS_Subset
<1> QED
  BY <1>2, FS_CardinalityType

LEMMA CountFacts ==
    ASSUME NEW s \in Seq(Lines), NEW l
    PROVE  Count(s, l) <= 1 <=> Single(s, l)
<1> DEFINE C == {i \in DOMAIN s : s[i] = l}
<1>1. DOMAIN s = 1..Len(s) /\ Len(s) \in Int
  BY LenProperties
<1>2. C \in SUBSET (1..Len(s))
  BY <1>1
<1>3. IsFiniteSet(C) /\ Cardinality(C) \in Nat
  BY <1>1, <1>2, SomeAreFinite
<1>4. Count(s, l) = Cardinality(C)
  BY DEF Count
<1>5. ASSUME Single(s, l) PROVE Cardinality(C) <= 1
  <2>1. C = {} \/ \E x : C = {x}
    BY <1>5 DEF Single
  <2> HIDE DEF C
  <2>2. CASE C = {}
    BY <2>2, FS_EmptySet
  <2>3. CASE \E x : C = {x}
    <3>1. Cardinality(C) = 1
      BY <1>3, <2>3, FS_Singleton, Zenon
    <3> QED
      BY <3>1
  <2> QED
    BY <2>1, <2>2, <2>3
<1>6. ASSUME Cardinality(C) <= 1 PROVE Single(s, l)
  <2>1. Cardinality(C) = 0 \/ Cardinality(C) = 1
    BY <1>3, <1>6
  <2>2. CASE Cardinality(C) = 0
    <3>1. C = {}
      BY <1>3, <2>2, FS_EmptySet
    <3> QED
      BY <3>1 DEF Single
  <2>3. CASE Cardinality(C) = 1
    <3>1. \E x : C = {x}
      BY <1>3, <2>3, FS_Singleton
    <3>2. PICK x : C = {x}
      BY <3>1
    <3> QED
      BY <3>2 DEF Single
  <2> QED
    BY <2>1, <2>2, <2>3
<1> QED
  BY <1>4, <1>5, <1>6

LEMMA OnceIsSingle ==
    ASSUME NEW s \in Seq(Lines)
    PROVE  Once(s) <=> Single(s, "syauth") /\ Single(s, "u2f")
BY CountFacts DEF Once

LEMMA InsertedSingle ==
    ASSUME NEW s, NEW k, NEW e, NEW t, Inserted(s, k, e, t), NEW l, Single(s, l),
           e = l => \A i \in DOMAIN s : s[i] # l
    PROVE  Single(t, l)
<1> SUFFICES ASSUME NEW i \in DOMAIN t, NEW j \in DOMAIN t, t[i] = l, t[j] = l
             PROVE  i = j
  BY DEF Single
<1>1. /\ DOMAIN t = 1..(Len(s) + 1) /\ DOMAIN s = 1..Len(s) /\ Len(s) \in Nat
      /\ k \in Nat
  BY InsertedOrigin
<1>2. \A x \in DOMAIN t : \/ x = k /\ t[x] = e
                          \/ x < k /\ x \in DOMAIN s /\ t[x] = s[x]
                          \/ x > k /\ x - 1 \in DOMAIN s /\ x - 1 >= k /\ t[x] = s[x - 1]
  BY InsertedOrigin
<1>3. i \in Nat /\ j \in Nat
  BY <1>1
<1>4. CASE e = l
  BY <1>2, <1>4
<1>5. CASE e # l
  <2>1. \/ i < k /\ i \in DOMAIN s /\ s[i] = l
        \/ i > k /\ i - 1 \in DOMAIN s /\ i - 1 >= k /\ s[i - 1] = l
    BY <1>2, <1>5
  <2>2. \/ j < k /\ j \in DOMAIN s /\ s[j] = l
        \/ j > k /\ j - 1 \in DOMAIN s /\ j - 1 >= k /\ s[j - 1] = l
    BY <1>2, <1>5
  <2> QED
    BY <1>1, <1>3, <2>1, <2>2 DEF Single
<1> QED
  BY <1>4, <1>5

-----------------------------------------------------------------------------
(* The administrator's lines keep their places.                               *)

LEMMA PlaceType ==
    ASSUME NEW s, NEW i \in Int
    PROVE  Place(s, i) \in Nat
<1>1. {j \in 1..i : s[j] \notin Ours} \in SUBSET (1..i)
  OBVIOUS
<1> QED
  BY <1>1, SomeAreFinite DEF Place

LEMMA SamePlaces ==
    ASSUME NEW s, NEW t, NEW i \in Int, \A j \in 1..i : s[j] = t[j]
    PROVE  Place(s, i) = Place(t, i)
<1>1. {j \in 1..i : s[j] \notin Ours} = {j \in 1..i : t[j] \notin Ours}
  OBVIOUS
<1> QED
  BY <1>1 DEF Place

(* An index of one of the administrator's lines has a place of its own.       *)
LEMMA PlaceInRange ==
    ASSUME NEW s \in Seq(Lines), NEW i \in DOMAIN s, s[i] \notin Ours
    PROVE  Place(s, i) \in 1..Place(s, Len(s))
<1> DEFINE A == {j \in 1..i : s[j] \notin Ours}
           B == {j \in 1..Len(s) : s[j] \notin Ours}
<1>1. DOMAIN s = 1..Len(s) /\ Len(s) \in Nat /\ i \in Nat /\ 1 <= i /\ i <= Len(s)
  BY LenProperties
<1>2. A \in SUBSET (1..i) /\ B \in SUBSET (1..Len(s)) /\ A \in SUBSET B /\ i \in A
  BY <1>1
<1>3. Place(s, i) = Cardinality(A) /\ Place(s, Len(s)) = Cardinality(B)
  BY DEF Place
<1> HIDE DEF A, B
<1>4. IsFiniteSet(A) /\ Cardinality(A) \in Nat /\ IsFiniteSet(B) /\ Cardinality(B) \in Nat
  <2>0. i \in Int /\ Len(s) \in Int
    BY <1>1
  <2>1. IsFiniteSet(A) /\ Cardinality(A) \in Nat
    BY <1>2, <2>0, SomeAreFinite, Zenon
  <2>2. IsFiniteSet(B) /\ Cardinality(B) \in Nat
    BY <1>2, <2>0, SomeAreFinite, Zenon
  <2> QED
    BY <2>1, <2>2
<1>5. Cardinality(A) <= Cardinality(B)
  BY <1>2, <1>4, FS_Subset
<1>6. Cardinality(A) # 0
  BY <1>2, <1>4, FS_EmptySet
<1> QED
  BY <1>3, <1>4, <1>5, <1>6

(* An inserted line of ours moves the lines below it and no place.            *)
LEMMA PlaceInserted ==
    ASSUME NEW s, NEW k, NEW e, NEW t, Inserted(s, k, e, t), e \in Ours
    PROVE  /\ \A i \in 0..(k - 1) : Place(t, i) = Place(s, i)
           /\ \A i \in k..Len(t) : Place(t, i) = Place(s, i - 1)
<1>1. /\ DOMAIN t = 1..(Len(s) + 1) /\ DOMAIN s = 1..Len(s) /\ Len(s) \in Nat
      /\ k \in Nat /\ 1 <= k /\ k <= Len(s) + 1 /\ Len(t) = Len(s) + 1
  BY InsertedOrigin DEF Inserted
<1>2. \A x \in DOMAIN t : \/ x = k /\ t[x] = e
                          \/ x < k /\ x \in DOMAIN s /\ t[x] = s[x]
                          \/ x > k /\ x - 1 \in DOMAIN s /\ x - 1 >= k /\ t[x] = s[x - 1]
  BY InsertedOrigin
<1>3. ASSUME NEW i \in 0..(k - 1) PROVE Place(t, i) = Place(s, i)
  <2>1. i \in Int /\ \A j \in 1..i : t[j] = s[j]
    BY <1>1 DEF Inserted
  <2> QED
    BY <2>1, SamePlaces
<1>4. ASSUME NEW i \in k..Len(t) PROVE Place(t, i) = Place(s, i - 1)
  <2> DEFINE S == {j \in 1..(i - 1) : s[j] \notin Ours}
             T == {j \in 1..i : t[j] \notin Ours}
             f == [j \in S |-> IF j < k THEN j ELSE j + 1]
  <2>1. i \in Nat /\ k <= i /\ i <= Len(s) + 1 /\ i - 1 \in Int /\ i \in Int
    BY <1>1
  <2>2. ASSUME NEW j \in S
        PROVE  /\ j \in Nat /\ j \in 1..Len(s) /\ f[j] = IF j < k THEN j ELSE j + 1
               /\ f[j] \in T
    <3>1. j \in Nat /\ 1 <= j /\ j <= i - 1 /\ s[j] \notin Ours
      BY <2>1
    <3>2. CASE j < k
      <4>1. j \in 1..(k - 1) /\ j \in 1..i
        BY <1>1, <2>1, <3>1, <3>2
      <4>2. t[j] = s[j]
        BY <4>1 DEF Inserted
      <4> QED
        BY <2>1, <3>1, <3>2, <4>1, <4>2
    <3>3. CASE ~(j < k)
      <4>1. j \in k..Len(s) /\ j + 1 \in 1..i
        BY <1>1, <2>1, <3>1, <3>3
      <4>2. t[j + 1] = s[j]
        BY <4>1 DEF Inserted
      <4> QED
        BY <1>1, <2>1, <3>1, <3>3, <4>1, <4>2
    <3> QED
      BY <3>2, <3>3
  <2>3. f \in [S -> T]
    BY <2>2
  <2>4. \A a, b \in S : f[a] = f[b] => a = b
    BY <1>1, <2>2
  <2>5. ASSUME NEW x \in T PROVE \E a \in S : f[a] = x
    <3>1. x \in DOMAIN t /\ x \in Nat /\ 1 <= x /\ x <= i /\ t[x] \notin Ours
      BY <1>1, <2>1
    <3>2. x # k
      BY <3>1 DEF Inserted
    <3>3. CASE x < k
      <4>1. x \in 1..(i - 1) /\ t[x] = s[x]
        BY <1>1, <1>2, <2>1, <3>1, <3>3
      <4>2. x \in S /\ f[x] = x
        BY <3>1, <3>3, <4>1
      <4> QED
        BY <4>2
    <3>4. CASE x > k
      <4>1. x - 1 \in 1..(i - 1) /\ t[x] = s[x - 1] /\ ~(x - 1 < k) /\ (x - 1) + 1 = x
        BY <1>1, <1>2, <2>1, <3>1, <3>4
      <4>2. x - 1 \in S /\ f[x - 1] = x
        BY <3>1, <4>1
      <4> QED
        BY <4>2
    <3> QED
      BY <1>1, <3>1, <3>2, <3>3, <3>4
  <2>6. S \in SUBSET (1..(i - 1)) /\ Place(s, i - 1) = Cardinality(S) /\ Place(t, i) = Cardinality(T)
    BY DEF Place
  <2> HIDE DEF S, T, f
  <2>7. f \in Bijection(S, T)
    BY <2>3, <2>4, <2>5 DEF Bijection, Injection, Surjection, IsInjective
  <2>8. ExistsBijection(S, T)
    BY <2>7 DEF ExistsBijection
  <2>9. IsFiniteSet(S)
    BY <2>1, <2>6, SomeAreFinite
  <2> QED
    BY <2>6, <2>8, <2>9, FS_Bijection
<1> QED
  BY <1>3, <1>4

LEMMA InsertedKeepsLines ==
    ASSUME NEW s, NEW k, NEW e, NEW t, Inserted(s, k, e, t), e \in Ours,
           NEW own, AdminLinesAre(s, own)
    PROVE  AdminLinesAre(t, own)
<1>1. /\ DOMAIN t = 1..(Len(s) + 1) /\ DOMAIN s = 1..Len(s) /\ Len(s) \in Nat
      /\ k \in Nat /\ 1 <= k /\ k <= Len(s) + 1 /\ Len(t) = Len(s) + 1
  BY InsertedOrigin DEF Inserted
<1>2. \A x \in DOMAIN t : \/ x = k /\ t[x] = e
                          \/ x < k /\ x \in DOMAIN s /\ t[x] = s[x]
                          \/ x > k /\ x - 1 \in DOMAIN s /\ x - 1 >= k /\ t[x] = s[x - 1]
  BY InsertedOrigin
<1>3. /\ \A i \in 0..(k - 1) : Place(t, i) = Place(s, i)
      /\ \A i \in k..Len(t) : Place(t, i) = Place(s, i - 1)
  BY PlaceInserted
<1>4. Len(own) = Place(t, Len(t))
  <2>1. Len(t) \in k..Len(t) /\ Len(t) - 1 = Len(s)
    BY <1>1
  <2> QED
    BY <1>3, <2>1 DEF AdminLinesAre
<1>5. ASSUME NEW i \in DOMAIN t, t[i] \notin Ours PROVE own[Place(t, i)] = t[i]
  <2>1. CASE i < k
    <3>1. i \in 0..(k - 1) /\ i \in DOMAIN s /\ t[i] = s[i]
      BY <1>1, <1>2, <2>1
    <3> QED
      BY <1>3, <1>5, <3>1 DEF AdminLinesAre
  <2>2. CASE i > k
    <3>1. i \in k..Len(t) /\ i - 1 \in DOMAIN s /\ t[i] = s[i - 1]
      BY <1>1, <1>2, <2>2
    <3> QED
      BY <1>3, <1>5, <3>1 DEF AdminLinesAre
  <2>3. i # k
    BY <1>5 DEF Inserted
  <2> QED
    BY <1>1, <2>1, <2>2, <2>3
<1> QED
  BY <1>4, <1>5 DEF AdminLinesAre

LEMMA AppendFacts ==
    ASSUME NEW s \in Seq(Lines), NEW e \in Lines
    PROVE  /\ Append(s, e) \in Seq(Lines) /\ Len(Append(s, e)) = Len(s) + 1
           /\ Append(s, e)[Len(s) + 1] = e
           /\ \A i \in 1..Len(s) : Append(s, e)[i] = s[i]
<1>1. Append(s, e) \in Seq(Lines) /\ Len(Append(s, e)) = Len(s) + 1
  BY AppendProperties
<1>2. \A i \in 1..Len(s) : Append(s, e)[i] = s[i]
  BY AppendProperties
<1>3. Append(s, e)[Len(s) + 1] = e
  BY AppendProperties
<1> QED
  BY <1>1, <1>2, <1>3

(* The administrator's own addition, to the file and to the history.          *)
LEMMA AppendKeepsLines ==
    ASSUME NEW s \in Seq(Lines), NEW own \in Seq(Lines), NEW e \in Lines, e \notin Ours,
           AdminLinesAre(s, own)
    PROVE  AdminLinesAre(Append(s, e), Append(own, e))
<1> DEFINE t == Append(s, e)
           o == Append(own, e)
           n == Len(s)
<1>1. t \in Seq(Lines) /\ Len(t) = n + 1 /\ t[n + 1] = e /\ \A i \in 1..n : t[i] = s[i]
  BY AppendFacts
<1>2. o \in Seq(Lines) /\ Len(o) = Len(own) + 1 /\ o[Len(own) + 1] = e /\ \A i \in 1..Len(own) : o[i] = own[i]
  BY AppendFacts
<1> HIDE DEF t, o
<1>3. n \in Nat /\ DOMAIN s = 1..n /\ DOMAIN t = 1..(n + 1) /\ Len(own) \in Nat
  BY <1>1, LenProperties
<1> HIDE DEF n
<1>4. Len(own) = Place(s, n) /\ \A i \in 1..n : s[i] \notin Ours => own[Place(s, i)] = s[i]
  BY <1>3 DEF AdminLinesAre, n
<1>5. ASSUME NEW i \in 0..n PROVE Place(t, i) = Place(s, i)
  <2>1. i \in Int /\ \A j \in 1..i : t[j] = s[j]
    BY <1>1, <1>3
  <2> QED
    BY <2>1, SamePlaces
<1>6. Place(t, n + 1) = Place(s, n) + 1
  <2> DEFINE A == {j \in 1..n : t[j] \notin Ours}
             B == {j \in 1..(n + 1) : t[j] \notin Ours}
  <2>1. B = A \cup {n + 1} /\ n + 1 \notin A /\ A \in SUBSET (1..n) /\ n \in Int
    BY <1>1, <1>3
  <2>2. Place(t, n) = Cardinality(A) /\ Place(t, n + 1) = Cardinality(B)
    BY DEF Place
  <2> HIDE DEF A, B
  <2>3. IsFiniteSet(A)
    BY <2>1, SomeAreFinite, Zenon
  <2>4. Cardinality(B) = Cardinality(A) + 1
    BY <2>1, <2>3, FS_AddElement
  <2>5. Place(t, n) = Place(s, n)
    BY <1>3, <1>5
  <2> QED
    BY <2>2, <2>4, <2>5
<1>7. Len(o) = Place(t, Len(t))
  BY <1>1, <1>2, <1>4, <1>6
<1>8. ASSUME NEW i \in DOMAIN t, t[i] \notin Ours PROVE o[Place(t, i)] = t[i]
  <2>1. CASE i = n + 1
    BY <1>1, <1>2, <1>4, <1>6, <2>1
  <2>2. CASE i # n + 1
    <3>1. i \in 1..n /\ i \in 0..n /\ i \in DOMAIN s
      BY <1>3, <2>2
    <3>2. t[i] = s[i] /\ Place(t, i) = Place(s, i) /\ own[Place(s, i)] = s[i]
      BY <1>1, <1>4, <1>5, <1>8, <3>1
    <3>3. Place(s, i) \in 1..Place(s, n)
      BY <1>8, <3>1, <3>2, PlaceInRange DEF n
    <3>4. Place(s, i) \in 1..Len(own)
      BY <1>4, <3>3
    <3> QED
      BY <1>2, <3>2, <3>4
  <2> QED
    BY <2>1, <2>2
<1>9. AdminLinesAre(t, o)
  BY <1>7, <1>8 DEF AdminLinesAre
<1> QED
  BY <1>9 DEF t, o

(* A file without lines of ours is the administrator's as it stands.          *)
LEMMA OwnLines ==
    ASSUME NEW s \in Seq(Lines), \A i \in DOMAIN s : s[i] \notin Ours
    PROVE  AdminLinesAre(s, s)
<1>1. Len(s) \in Nat /\ DOMAIN s = 1..Len(s)
  BY LenProperties
<1>2. ASSUME NEW i \in 0..Len(s) PROVE Place(s, i) = i
  <2>1. {j \in 1..i : s[j] \notin Ours} = 1..i
    BY <1>1
  <2>2. 1 \in Int /\ i \in Int
    BY <1>1
  <2>3. Cardinality(1..i) = IF 1 > i THEN 0 ELSE i - 1 + 1
    BY <2>2, FS_Interval
  <2>4. Cardinality(1..i) = i
    BY <1>1, <2>3
  <2> QED
    BY <2>1, <2>4 DEF Place
<1> QED
  BY <1>1, <1>2 DEF AdminLinesAre

(* What the installer is about to write.                                      *)
LEMMA NewContentsFacts ==
    ASSUME NEW c \in Command
    PROVE  /\ NewContents(c) \in Seq(Lines)
           /\ Once(c.seen) => Once(NewContents(c))
           /\ \A own : AdminLinesAre(c.seen, own) => AdminLinesAre(NewContents(c), own)
<1> DEFINE s == c.seen
           r == IF Recognised(s) THEN s ELSE InsertLine(s, c.line)
           t == NewContents(c)
<1>1. s \in Seq(Lines) /\ c.line \in {"syauth", "syauthX"} /\ c.u2f \in BOOLEAN
  BY DEF Command
<1>2. c.line \in Lines /\ c.line \in Ours /\ "u2f" \in Lines /\ "u2f" \in Ours
  BY <1>1 DEF Lines, Ours
<1>3. t = MaybeInsertU2f(r, c.u2f)
  BY DEF NewContents
<1>4. r = s \/ (~Recognised(s) /\ \E k : Inserted(s, k, c.line, r))
  <2>1. CASE Recognised(s)
    BY <2>1
  <2>2. CASE ~Recognised(s)
    <3>1. r = InsertLine(s, c.line)
      BY <2>2
    <3> QED
      BY <1>1, <1>2, <2>2, <3>1, InsertLineFacts
  <2> QED
    BY <2>1, <2>2
<1> HIDE DEF s, r, t
<1>5. r \in Seq(Lines)
  BY <1>1, <1>4 DEF Inserted
<1>6. t = r \/ (~HasU2f(r) /\ \E k : Inserted(r, k, "u2f", t))
  BY <1>1, <1>3, <1>5, U2fFacts
<1>7. t \in Seq(Lines)
  BY <1>5, <1>6 DEF Inserted
<1>8. ASSUME Once(s) PROVE Once(t)
  <2>1. Single(s, "syauth") /\ Single(s, "u2f")
    BY <1>1, <1>8, OnceIsSingle
  <2>2. Single(r, "syauth") /\ Single(r, "u2f")
    <3>1. CASE r = s
      BY <2>1, <3>1
    <3>2. CASE ~Recognised(s) /\ \E k : Inserted(s, k, c.line, r)
      <4>1. PICK k : Inserted(s, k, c.line, r)
        BY <3>2
      <4>2. \A i \in DOMAIN s : s[i] # "syauth"
        BY <3>2 DEF Recognised
      <4>3. c.line # "u2f"
        BY <1>1
      <4>4. Single(r, "syauth")
        BY <2>1, <4>1, <4>2, InsertedSingle
      <4>5. Single(r, "u2f")
        BY <2>1, <4>1, <4>3, InsertedSingle
      <4> QED
        BY <4>4, <4>5
    <3> QED
      BY <1>4, <3>1, <3>2
  <2>3. Single(t, "syauth") /\ Single(t, "u2f")
    <3>1. CASE t = r
      BY <2>2, <3>1
    <3>2. CASE ~HasU2f(r) /\ \E k : Inserted(r, k, "u2f", t)
      <4>1. PICK k : Inserted(r, k, "u2f", t)
        BY <3>2
      <4>2. \A i \in DOMAIN r : r[i] # "u2f"
        BY <3>2 DEF HasU2f
      <4>4. Single(t, "syauth")
        BY <2>2, <4>1, InsertedSingle
      <4>5. Single(t, "u2f")
        BY <2>2, <4>1, <4>2, InsertedSingle
      <4> QED
        BY <4>4, <4>5
    <3> QED
      BY <1>6, <3>1, <3>2
  <2> QED
    BY <1>7, <2>3, OnceIsSingle
<1>9. ASSUME NEW own, AdminLinesAre(s, own) PROVE AdminLinesAre(t, own)
  <2>1. AdminLinesAre(r, own)
    BY <1>2, <1>4, <1>9, InsertedKeepsLines
  <2> QED
    BY <1>2, <1>6, <2>1, InsertedKeepsLines
<1> QED
  BY <1>7, <1>8, <1>9 DEF s, t

-----------------------------------------------------------------------------
(* The invariant with the state it speaks of as arguments.                    *)

Fits(c, sv) ==
    /\ Once(c.seen) /\ FileFits(c.tmp)
    /\ c.pc \in {"backup", "open", "copy", "temp"} =>
          sv # NoFile /\ (c.cmd = "install" => c.mode = Mode)
    /\ c.pc = "persist" => c.tmp # NoFile
Backed(bk, dk) == bk # NoFile /\ (~dk => bk.whole)
KnowsFiles(c, sv, bk, dk, ad, sn) ==
    /\ c.cmd = "install" =>
          /\ c.pc \in {"backup", "open", "copy"} => c.seen = sv.lines /\ ~Recognised(sv.lines)
          /\ c.pc = "temp" => c.seen = sv.lines
          /\ c.pc \in {"temp", "persist"} => Recognised(sv.lines) \/ Backed(bk, dk)
          /\ c.pc = "persist" => c.tmp.whole /\ (~dk => AdminLinesAre(c.tmp.lines, ad))
    /\ c.cmd = "uninstall" =>
          /\ c.pc = "backup" => Recognised(sv.lines)
          /\ c.pc = "persist" =>
                ~Recognised(c.tmp.lines) /\ (~dk => c.tmp.whole /\ AdminLinesAre(c.tmp.lines, sn))
          /\ c.pc = "remove" => ~Recognised(sv.lines)
KnowsDaemon(c, un, bn, sy) ==
    /\ c.pc \in {"reload", "enable"} => bn = "whole"
    /\ c.pc = "enable" => sy.exec = un
Tell(sv, bk, dk, ad, sn, mv) ==
    /\ bk # NoFile => ~Recognised(bk.lines)
    /\ ~dk =>
          /\ sv # NoFile => sv.whole /\ AdminLinesAre(sv.lines, ad)
          /\ bk # NoFile /\ bk.whole => AdminLinesAre(bk.lines, sn)
          /\ Recognised(sv.lines) => IF bk = NoFile THEN mv ELSE bk.whole

Knowing == \A p \in Procs : proc[p].pc # "idle" =>
              /\ KnowsFiles(proc[p], svc, bak, dark, kept, snap)
              /\ KnowsDaemon(proc[p], unit, bin, systemd)
Solo == \A p, q \in Procs : proc[p].pc # "idle" /\ proc[q].pc # "idle" => p = q

LEMMA IInvParts ==
    IInv <=> /\ TypeOK /\ FileFits(svc) /\ FileFits(bak)
             /\ \A p \in Procs : Fits(proc[p], svc)
             /\ ~clash => Tell(svc, bak, dark, kept, snap, moved) /\ Knowing /\ Solo
<1>1. ASSUME NEW p \in Procs PROVE CommandFits(proc[p]) <=> Fits(proc[p], svc)
  BY DEF CommandFits, Fits
<1>2. FilesTell <=> Tell(svc, bak, dark, kept, snap, moved)
  BY DEF FilesTell, Tell
<1>3. ASSUME NEW p \in Procs
      PROVE  Knows(proc[p]) <=> /\ KnowsFiles(proc[p], svc, bak, dark, kept, snap)
                                /\ KnowsDaemon(proc[p], unit, bin, systemd)
  BY DEF Knows, KnowsFiles, KnowsDaemon, InstallerKnows, UninstallerKnows, DaemonKnows, BackedUp, Backed
<1> QED
  BY <1>1, <1>2, <1>3 DEF IInv, Busy, Knowing, Solo

LEMMA IInvNext ==
    ASSUME TypeOK', FileFits(svc'), FileFits(bak'),
           \A p \in Procs : Fits(proc'[p], svc'),
           ~clash' => Tell(svc', bak', dark', kept', snap', moved'),
           ~clash' => \A p \in Procs : proc'[p].pc # "idle" =>
                         /\ KnowsFiles(proc'[p], svc', bak', dark', kept', snap')
                         /\ KnowsDaemon(proc'[p], unit', bin', systemd'),
           ~clash' => \A p, q \in Procs : proc'[p].pc # "idle" /\ proc'[q].pc # "idle" => p = q
    PROVE  IInv'
<1>1. ASSUME NEW p \in Procs PROVE CommandFits(proc[p])'
  <2>1. Fits(proc'[p], svc')
    OBVIOUS
  <2> QED
    BY <2>1 DEF CommandFits, Fits
<1>2. ~clash' => FilesTell'
  BY DEF FilesTell, Tell
<1>3. ASSUME ~clash', NEW p \in Procs, proc'[p].pc # "idle" PROVE Knows(proc[p])'
  <2>1. /\ KnowsFiles(proc'[p], svc', bak', dark', kept', snap')
        /\ KnowsDaemon(proc'[p], unit', bin', systemd')
    BY <1>3
  <2> QED
    BY <2>1 DEF Knows, KnowsFiles, KnowsDaemon, InstallerKnows, UninstallerKnows, DaemonKnows,
                BackedUp, Backed
<1> QED
  BY <1>1, <1>2, <1>3 DEF IInv, Busy

Others(p) == proc' \in [Procs -> Command] /\ \A q \in Procs \ {p} : proc'[q] = proc[q]
FilesTyped ==
    /\ svc \in File /\ bak \in File /\ kept \in Seq(Lines) /\ snap \in Seq(Lines)
DaemonTyped ==
    /\ unit \in {"none", "libexec", "source"}
    /\ bin \in {"none", "torn", "whole"}
    /\ systemd \in [exec : {"none", "libexec", "source"}, enabled : BOOLEAN]
HistoryTyped == clash \in BOOLEAN /\ dark \in BOOLEAN /\ moved \in BOOLEAN

LEMMA TypeParts == TypeOK <=> FilesTyped /\ DaemonTyped /\ HistoryTyped /\ proc \in [Procs -> Command]
BY DEF TypeOK, FilesTyped, DaemonTyped, HistoryTyped

(* A step of one running command keeps the invariant when what it leaves      *)
(* behind fits, and, if no other command runs, what it knows is true.         *)
LEMMA MoveKeeps ==
    ASSUME IInv, NEW p \in Procs, proc[p].pc # "idle", Others(p),
           FilesTyped', DaemonTyped', UNCHANGED <<clash, dark, moved>>,
           FileFits(svc'), FileFits(bak'), svc # NoFile => svc' # NoFile,
           Fits(proc'[p], svc'),
           ~clash => Tell(svc', bak', dark, kept', snap', moved),
           ~clash /\ proc'[p].pc # "idle" =>
               /\ KnowsFiles(proc'[p], svc', bak', dark, kept', snap')
               /\ KnowsDaemon(proc'[p], unit', bin', systemd')
    PROVE  IInv'
<1>0. /\ TypeOK /\ \A q \in Procs : Fits(proc[q], svc)
      /\ ~clash => Knowing /\ Solo
  BY IInvParts
<1>1. proc' \in [Procs -> Command] /\ \A q \in Procs : q # p => proc'[q] = proc[q]
  BY DEF Others
<1>2. TypeOK'
  BY <1>0, <1>1, TypeParts DEF TypeOK, FilesTyped, DaemonTyped
<1>3. ASSUME NEW q \in Procs PROVE Fits(proc'[q], svc')
  <2>1. CASE q = p
    BY <2>1
  <2>2. CASE q # p
    <3>1. proc'[q] = proc[q] /\ Fits(proc[q], svc)
      BY <1>0, <1>1, <2>2
    <3> QED
      BY <3>1 DEF Fits
  <2> QED
    BY <2>1, <2>2
<1>4. ASSUME ~clash, NEW q \in Procs, proc'[q].pc # "idle" PROVE q = p
  <2>1. CASE q # p
    <3>1. proc[q].pc # "idle"
      BY <1>1, <1>4, <2>1
    <3> QED
      BY <1>0, <1>4, <3>1 DEF Solo
  <2> QED
    BY <2>1
<1>5. ~clash => \A q \in Procs : proc'[q].pc # "idle" =>
                   /\ KnowsFiles(proc'[q], svc', bak', dark', kept', snap')
                   /\ KnowsDaemon(proc'[q], unit', bin', systemd')
  BY <1>4
<1>6. ~clash => \A q, r \in Procs : proc'[q].pc # "idle" /\ proc'[r].pc # "idle" => q = r
  BY <1>4
<1> QED
  BY <1>2, <1>3, <1>5, <1>6, IInvNext

(* ... in particular when it leaves the files alone.                          *)
LEMMA QuietKeeps ==
    ASSUME IInv, NEW p \in Procs, proc[p].pc # "idle", Others(p),
           UNCHANGED <<svc, bak, daemonVars, histVars>>,
           Fits(proc'[p], svc),
           ~clash /\ proc'[p].pc # "idle" =>
               /\ KnowsFiles(proc'[p], svc, bak, dark, kept, snap)
               /\ KnowsDaemon(proc'[p], unit, bin, systemd)
    PROVE  IInv'
<1>1. /\ svc' = svc /\ bak' = bak /\ unit' = unit /\ bin' = bin /\ systemd' = systemd
      /\ kept' = kept /\ snap' = snap /\ clash' = clash /\ dark' = dark /\ moved' = moved
  BY DEF daemonVars, histVars
<1>2. FilesTyped /\ DaemonTyped /\ FileFits(svc) /\ FileFits(bak)
      /\ (~clash => Tell(svc, bak, dark, kept, snap, moved))
  BY IInvParts, TypeParts
<1>3. FilesTyped' /\ DaemonTyped'
  BY <1>1, <1>2 DEF FilesTyped, DaemonTyped
<1>4. /\ FileFits(svc') /\ FileFits(bak') /\ Fits(proc'[p], svc')
      /\ (~clash => Tell(svc', bak', dark, kept', snap', moved))
  BY <1>1, <1>2
<1>5. ~clash /\ proc'[p].pc # "idle" =>
         /\ KnowsFiles(proc'[p], svc', bak', dark, kept', snap')
         /\ KnowsDaemon(proc'[p], unit', bin', systemd')
  BY <1>1
<1> QED
  BY <1>1, <1>3, <1>4, <1>5, MoveKeeps

-----------------------------------------------------------------------------
(* What becomes of the command that moves.                                    *)

LEMMA EmptyFacts == <<>> \in Seq(Lines) /\ Once(<<>>)
<1>1. <<>> \in Seq(Lines) /\ DOMAIN <<>> = {}
  OBVIOUS
<1>2. Single(<<>>, "syauth") /\ Single(<<>>, "u2f")
  BY <1>1 DEF Single
<1> QED
  BY <1>1, <1>2, OnceIsSingle

LEMMA NoFileFacts == NoFile \in File /\ FileFits(NoFile) /\ NoFile.lines = <<>> /\ ~Recognised(NoFile.lines)
<1>1. NoFile.lines = <<>> /\ NoFile \in File
  BY DEF NoFile, File
<1> QED
  BY <1>1, EmptyFacts DEF FileFits, Recognised

LEMMA NoCommandFacts ==
    /\ NoCommand \in Command
    /\ NoCommand.pc = "idle" /\ NoCommand.cmd = "none" /\ NoCommand.seen = <<>>
    /\ NoCommand.tmp = NoFile
<1>1. ASSUME NEW e \in Seq(Lines), NEW f \in File
      PROVE  [pc |-> "idle", cmd |-> "none", line |-> "syauth", u2f |-> FALSE, daemon |-> FALSE,
              from |-> FALSE, dry |-> FALSE, seen |-> e, mode |-> "none", tmp |-> f] \in Command
  BY DEF Command, PCs
<1>2. NoCommand \in Command
  BY <1>1, EmptyFacts, NoFileFacts DEF NoCommand
<1> QED
  BY <1>2 DEF NoCommand

LEMMA FreshFits ==
    ASSUME NEW c, NEW sv, c.seen = <<>>, c.tmp = NoFile,
           c.pc \notin {"backup", "open", "copy", "temp", "persist"}
    PROVE  Fits(c, sv)
BY EmptyFacts, NoFileFacts DEF Fits

LEMMA EndFacts ==
    ASSUME proc \in [Procs -> Command], NEW p \in Procs, End(p)
    PROVE  Others(p) /\ proc'[p].pc = "idle" /\ \A sv : Fits(proc'[p], sv)
<1> DEFINE c == NoCommand
<1>1. proc' = [proc EXCEPT ![p] = c] /\ c \in Command /\ c.pc = "idle"
      /\ c.seen = <<>> /\ c.tmp = NoFile
  BY NoCommandFacts DEF End
<1> HIDE DEF c
<1>2. Others(p) /\ proc'[p] = c
  BY <1>1 DEF Others
<1> QED
  BY <1>1, <1>2, FreshFits

LEMMA EndKeeps ==
    ASSUME IInv, NEW p \in Procs, proc[p].pc # "idle", End(p),
           UNCHANGED <<svc, bak, daemonVars, histVars>>
    PROVE  IInv'
<1>1. proc \in [Procs -> Command]
  BY IInvParts, TypeParts
<1>2. Others(p) /\ proc'[p].pc = "idle" /\ Fits(proc'[p], svc)
  BY <1>1, EndFacts
<1> QED
  BY <1>2, QuietKeeps

SameFields(p) ==
    /\ proc'[p].cmd = proc[p].cmd /\ proc'[p].line = proc[p].line /\ proc'[p].u2f = proc[p].u2f
    /\ proc'[p].seen = proc[p].seen /\ proc'[p].mode = proc[p].mode /\ proc'[p].tmp = proc[p].tmp

LEMMA StepFacts ==
    ASSUME proc \in [Procs -> Command], NEW p \in Procs, NEW pc \in PCs, Step(p, pc)
    PROVE  Others(p) /\ proc'[p].pc = pc /\ SameFields(p)
BY DEF Step, Others, SameFields, Command

(* The PAM part is over, and the daemon part may follow.                      *)
LEMMA PamDoneFacts ==
    ASSUME proc \in [Procs -> Command], NEW p \in Procs, PamDone(p)
    PROVE  Others(p) /\ proc'[p].pc \in {"idle", "unit"} /\ \A sv : Fits(proc'[p], sv)
<1> DEFINE d == [NoCommand EXCEPT !.pc = "unit", !.cmd = "install"]
           c == IF proc[p].daemon THEN d ELSE NoCommand
<1>1. proc' = [proc EXCEPT ![p] = c]
  BY DEF PamDone
<1>2. d \in Command /\ d.pc = "unit" /\ d.seen = <<>> /\ d.tmp = NoFile
  <2> DEFINE n == NoCommand
  <2>1. n \in Command /\ n.seen = <<>> /\ n.tmp = NoFile /\ d = [n EXCEPT !.pc = "unit", !.cmd = "install"]
    BY NoCommandFacts
  <2> HIDE DEF n, d
  <2> QED
    BY <2>1 DEF Command, PCs, Commands
<1> HIDE DEF d
<1>3. /\ c \in Command /\ c.pc \in {"idle", "unit"} /\ c.seen = <<>> /\ c.tmp = NoFile
  BY <1>2, NoCommandFacts
<1> HIDE DEF c
<1>4. Others(p) /\ proc'[p] = c
  BY <1>1, <1>3 DEF Others
<1> QED
  BY <1>3, <1>4, FreshFits

LEMMA KnowsLittle ==
    ASSUME NEW c, c.pc \in {"idle", "unit", "read", "binary", "fill"}
    PROVE  /\ \A sv, bk, dk, ad, sn : KnowsFiles(c, sv, bk, dk, ad, sn)
           /\ \A un, bn, sy : KnowsDaemon(c, un, bn, sy)
BY DEF KnowsFiles, KnowsDaemon

-----------------------------------------------------------------------------
(* One lemma per action.                                                      *)

LEMMA Given ==
    ASSUME IInv, NEW p \in Procs
    PROVE  /\ proc \in [Procs -> Command] /\ proc[p] \in Command
           /\ FilesTyped /\ DaemonTyped /\ HistoryTyped
           /\ FileFits(svc) /\ FileFits(bak) /\ Fits(proc[p], svc)
           /\ ~clash => Tell(svc, bak, dark, kept, snap, moved)
           /\ ~clash /\ proc[p].pc # "idle" =>
                 /\ KnowsFiles(proc[p], svc, bak, dark, kept, snap)
                 /\ KnowsDaemon(proc[p], unit, bin, systemd)
<1>1. /\ TypeOK /\ FileFits(svc) /\ FileFits(bak)
      /\ \A q \in Procs : Fits(proc[q], svc)
      /\ ~clash => Tell(svc, bak, dark, kept, snap, moved) /\ Knowing
  BY IInvParts
<1>2. FilesTyped /\ DaemonTyped /\ HistoryTyped /\ proc \in [Procs -> Command]
  BY <1>1, TypeParts
<1> QED
  BY <1>1, <1>2 DEF Knowing

LEMMA FileFields ==
    ASSUME NEW f \in File
    PROVE  /\ f.lines \in Seq(Lines) /\ f.whole \in BOOLEAN /\ f.synced \in BOOLEAN
           /\ f # NoFile => f \in Content /\ f.mode \in {"0600", Mode}
<1>1. CASE f = NoFile
  BY <1>1, EmptyFacts DEF NoFile
<1>2. CASE f # NoFile
  BY <1>2 DEF File, Content
<1> QED
  BY <1>1, <1>2

LEMMA ContentIsFile == \A f \in Content : f \in File /\ f # NoFile
BY DEF Content, File, NoFile, Mode

LEMMA EndingsKeep ==
    ASSUME IInv, NEW p \in Procs,
           \/ Unreadable(p) \/ BackupExists(p) \/ NotInstalled(p) \/ BackupMissing(p)
           \/ DaemonUnresolved(p) \/ BinaryBusy(p) \/ Stops(p)
    PROVE  IInv'
<1>1. proc[p].pc # "idle" /\ End(p) /\ UNCHANGED <<svc, bak, daemonVars, histVars>>
  BY DEF Unreadable, BackupExists, NotInstalled, BackupMissing, DaemonUnresolved, BinaryBusy, Stops,
         NoFileChange, Here, OnDaemonPart
<1> QED
  BY <1>1, EndKeeps

LEMMA AlreadyInstalledKeeps ==
    ASSUME IInv, NEW p \in Procs, AlreadyInstalled(p)
    PROVE  IInv'
<1>1. proc[p].pc # "idle" /\ PamDone(p) /\ UNCHANGED <<svc, bak, daemonVars, histVars>>
  BY DEF AlreadyInstalled, NoFileChange, Here
<1>2. Others(p) /\ proc'[p].pc \in {"idle", "unit"} /\ Fits(proc'[p], svc)
  BY <1>1, Given, PamDoneFacts
<1>3. /\ KnowsFiles(proc'[p], svc, bak, dark, kept, snap)
      /\ KnowsDaemon(proc'[p], unit, bin, systemd)
  BY <1>2, KnowsLittle
<1> QED
  BY <1>1, <1>2, <1>3, QuietKeeps

LEMMA InstallReadKeeps ==
    ASSUME IInv, NEW p \in Procs, InstallRead(p)
    PROVE  IInv'
<1> DEFINE l == svc.lines
           m == svc.mode
           x == IF Recognised(svc.lines) THEN "temp" ELSE "backup"
<1>1. /\ proc \in [Procs -> Command] /\ proc[p] \in Command /\ FileFits(svc) /\ svc \in File
      /\ Fits(proc[p], svc)
  BY Given DEF FilesTyped
<1>2. /\ svc # NoFile /\ proc[p].pc = "read" /\ proc[p].cmd = "install"
      /\ UNCHANGED <<svc, bak, daemonVars, histVars>>
  BY DEF InstallRead, Readable, Here, NoFileChange
<1>3. l \in Seq(Lines) /\ Once(l) /\ m = Mode /\ m \in {"none", "0600", Mode}
  BY <1>1, <1>2, FileFields DEF FileFits
<1>4. x \in PCs /\ (x = "temp" \/ x = "backup") /\ (x = "temp" <=> Recognised(l))
  BY DEF PCs
<1>5. proc' = [proc EXCEPT ![p].seen = l, ![p].mode = m, ![p].pc = x]
  BY DEF InstallRead
<1>6. svc.lines = l
  OBVIOUS
<1> HIDE DEF l, m, x
<1>7. /\ Others(p) /\ proc'[p].seen = l /\ proc'[p].mode = m /\ proc'[p].pc = x
      /\ proc'[p].cmd = "install" /\ proc'[p].tmp = proc[p].tmp
  BY <1>1, <1>2, <1>3, <1>4, <1>5 DEF Others, Command
<1>8. Fits(proc'[p], svc)
  BY <1>1, <1>2, <1>3, <1>4, <1>7 DEF Fits
<1>9. /\ KnowsFiles(proc'[p], svc, bak, dark, kept, snap)
      /\ KnowsDaemon(proc'[p], unit, bin, systemd)
  BY <1>4, <1>6, <1>7 DEF KnowsFiles, KnowsDaemon
<1> QED
  BY <1>2, <1>7, <1>8, <1>9, QuietKeeps

LEMMA BackupFreeKeeps ==
    ASSUME IInv, NEW p \in Procs, BackupFree(p)
    PROVE  IInv'
<1>1. /\ proc[p].pc = "backup" /\ proc[p].cmd = "install" /\ Step(p, "open")
      /\ UNCHANGED <<svc, bak, daemonVars, histVars>>
  BY DEF BackupFree, Here, NoFileChange
<1>2. /\ proc \in [Procs -> Command] /\ Fits(proc[p], svc)
      /\ ~clash /\ proc[p].pc # "idle" => KnowsFiles(proc[p], svc, bak, dark, kept, snap)
  BY Given
<1>3. "open" \in PCs
  BY DEF PCs
<1>4. Others(p) /\ proc'[p].pc = "open" /\ SameFields(p)
  BY <1>1, <1>2, <1>3, StepFacts
<1>5. Fits(proc'[p], svc)
  BY <1>1, <1>2, <1>4 DEF Fits, SameFields
<1>6. ~clash => /\ KnowsFiles(proc'[p], svc, bak, dark, kept, snap)
                /\ KnowsDaemon(proc'[p], unit, bin, systemd)
  BY <1>1, <1>2, <1>4 DEF KnowsFiles, KnowsDaemon, SameFields
<1> QED
  BY <1>1, <1>4, <1>5, <1>6, QuietKeeps

LEMMA UninstallReadKeeps ==
    ASSUME IInv, NEW p \in Procs, UninstallRead(p)
    PROVE  IInv'
<1>1. /\ proc[p].pc = "read" /\ proc[p].cmd = "uninstall" /\ Step(p, "backup")
      /\ svc # NoFile /\ Recognised(svc.lines)
      /\ UNCHANGED <<svc, bak, daemonVars, histVars>>
  BY DEF UninstallRead, Here, NoFileChange, Readable
<1>2. /\ proc \in [Procs -> Command] /\ Fits(proc[p], svc)
  BY Given
<1>3. "backup" \in PCs
  BY DEF PCs
<1>4. Others(p) /\ proc'[p].pc = "backup" /\ SameFields(p)
  BY <1>1, <1>2, <1>3, StepFacts
<1>5. Fits(proc'[p], svc)
  BY <1>1, <1>2, <1>4 DEF Fits, SameFields
<1>6. /\ KnowsFiles(proc'[p], svc, bak, dark, kept, snap)
      /\ KnowsDaemon(proc'[p], unit, bin, systemd)
  BY <1>1, <1>4 DEF KnowsFiles, KnowsDaemon, SameFields
<1> QED
  BY <1>1, <1>4, <1>5, <1>6, QuietKeeps

LEMMA WriteTempKeeps ==
    ASSUME IInv, NEW p \in Procs, WriteTemp(p)
    PROVE  IInv'
<1> DEFINE n == NewContents(proc[p])
           m == proc[p].mode
           t == [lines |-> n, mode |-> m, whole |-> TRUE, synced |-> TRUE]
           e == <<>>
<1>1. /\ proc[p].pc = "temp" /\ proc[p].cmd = "install"
      /\ UNCHANGED <<svc, bak, daemonVars, histVars>>
  BY DEF WriteTemp, Here, NoFileChange
<1>2. /\ proc \in [Procs -> Command] /\ proc[p] \in Command /\ Fits(proc[p], svc)
      /\ ~clash => Tell(svc, bak, dark, kept, snap, moved)
      /\ ~clash /\ proc[p].pc # "idle" => KnowsFiles(proc[p], svc, bak, dark, kept, snap)
  BY Given
<1>3. /\ n \in Seq(Lines) /\ (Once(proc[p].seen) => Once(n))
      /\ \A own : AdminLinesAre(proc[p].seen, own) => AdminLinesAre(n, own)
  BY <1>2, NewContentsFacts
<1>4. m = Mode /\ Once(proc[p].seen) /\ svc # NoFile
  BY <1>1, <1>2 DEF Fits
<1>5. proc' = [proc EXCEPT ![p].tmp = t, ![p].seen = e, ![p].pc = "persist"]
  BY DEF WriteTemp
<1>6. e \in Seq(Lines) /\ Once(e)
  BY EmptyFacts
<1> HIDE DEF n, m, e
<1>7. /\ t \in Content /\ t.lines = n /\ t.whole = TRUE /\ t.mode = Mode
  BY <1>3, <1>4 DEF Content
<1> HIDE DEF t
<1>8. t \in File /\ t # NoFile /\ FileFits(t)
  BY <1>3, <1>4, <1>7, ContentIsFile DEF FileFits
<1>9. /\ Others(p) /\ proc'[p].tmp = t /\ proc'[p].seen = e /\ proc'[p].pc = "persist"
      /\ proc'[p].cmd = "install"
  BY <1>1, <1>2, <1>5, <1>6, <1>8 DEF Others, Command, PCs
<1>10. Fits(proc'[p], svc)
  BY <1>6, <1>8, <1>9 DEF Fits
<1>11. ASSUME ~clash PROVE KnowsFiles(proc'[p], svc, bak, dark, kept, snap)
  <2>1. proc[p].seen = svc.lines /\ (Recognised(svc.lines) \/ Backed(bak, dark))
    BY <1>1, <1>2, <1>11 DEF KnowsFiles
  <2>2. ~dark => AdminLinesAre(svc.lines, kept)
    BY <1>2, <1>4, <1>11 DEF Tell
  <2>3. ~dark => AdminLinesAre(n, kept)
    BY <1>3, <2>1, <2>2
  <2> QED
    BY <1>7, <1>9, <2>1, <2>3 DEF KnowsFiles
<1>12. KnowsDaemon(proc'[p], unit, bin, systemd)
  BY <1>9 DEF KnowsDaemon
<1> QED
  BY <1>1, <1>9, <1>10, <1>11, <1>12, QuietKeeps

LEMMA RestoreTempKeeps ==
    ASSUME IInv, NEW p \in Procs, RestoreTemp(p)
    PROVE  IInv'
<1> DEFINE t == [bak EXCEPT !.mode = svc.mode, !.synced = TRUE]
<1>1. /\ proc[p].pc = "backup" /\ proc[p].cmd = "uninstall" /\ bak # NoFile
      /\ proc' = [proc EXCEPT ![p].tmp = t, ![p].pc = "persist"]
      /\ UNCHANGED <<svc, bak, daemonVars, histVars>>
  BY DEF RestoreTemp, Here, NoFileChange
<1>2. /\ proc \in [Procs -> Command] /\ proc[p] \in Command /\ Fits(proc[p], svc)
      /\ svc \in File /\ bak \in File /\ FileFits(svc) /\ FileFits(bak)
      /\ ~clash => Tell(svc, bak, dark, kept, snap, moved)
      /\ ~clash /\ proc[p].pc # "idle" => KnowsFiles(proc[p], svc, bak, dark, kept, snap)
  BY Given DEF FilesTyped
<1>3. svc # NoFile
  BY <1>1, <1>2 DEF Fits
<1>4. svc.mode = Mode /\ bak \in Content
  BY <1>1, <1>2, <1>3, FileFields DEF FileFits
<1>5. t \in Content /\ t.lines = bak.lines /\ t.whole = bak.whole /\ t.mode = Mode
  BY <1>4 DEF Content
<1> HIDE DEF t
<1>6. t \in File /\ t # NoFile /\ FileFits(t)
  BY <1>2, <1>5, ContentIsFile DEF FileFits
<1>7. /\ Others(p) /\ proc'[p].tmp = t /\ proc'[p].seen = proc[p].seen /\ proc'[p].pc = "persist"
      /\ proc'[p].cmd = "uninstall"
  BY <1>1, <1>2, <1>6 DEF Others, Command, PCs
<1>8. Fits(proc'[p], svc)
  BY <1>2, <1>6, <1>7 DEF Fits
<1>9. ASSUME ~clash PROVE KnowsFiles(proc'[p], svc, bak, dark, kept, snap)
  <2>1. Recognised(svc.lines)
    BY <1>1, <1>2, <1>9 DEF KnowsFiles
  <2>2. /\ ~Recognised(bak.lines)
        /\ ~dark => bak.whole /\ AdminLinesAre(bak.lines, snap)
    BY <1>1, <1>2, <1>9, <2>1 DEF Tell
  <2> QED
    BY <1>5, <1>7, <2>2 DEF KnowsFiles
<1>10. KnowsDaemon(proc'[p], unit, bin, systemd)
  BY <1>7 DEF KnowsDaemon
<1> QED
  BY <1>1, <1>7, <1>8, <1>9, <1>10, QuietKeeps

(* The steps that change a file.                                              *)

LEMMA BackupOpenKeeps ==
    ASSUME IInv, NEW p \in Procs, BackupOpen(p)
    PROVE  IInv'
<1> DEFINE e == <<>>
           b == [lines |-> e, mode |-> Mode, whole |-> FALSE, synced |-> FALSE]
<1>1. /\ proc[p].pc = "open" /\ proc[p].cmd = "install" /\ Step(p, "copy")
      /\ svc' = svc /\ unit' = unit /\ bin' = bin /\ systemd' = systemd
      /\ kept' = kept /\ snap' = snap /\ UNCHANGED <<clash, dark, moved>>
      /\ bak' = b
  BY DEF BackupOpen, Here, daemonVars, histVars
<1>2. /\ proc \in [Procs -> Command] /\ Fits(proc[p], svc)
      /\ FilesTyped /\ DaemonTyped /\ FileFits(svc)
      /\ ~clash => Tell(svc, bak, dark, kept, snap, moved)
      /\ ~clash /\ proc[p].pc # "idle" => KnowsFiles(proc[p], svc, bak, dark, kept, snap)
  BY Given
<1>3. e \in Seq(Lines) /\ Once(e) /\ ~Recognised(e)
  BY EmptyFacts DEF Recognised
<1> HIDE DEF e
<1>4. b \in Content /\ b.lines = e /\ b.whole = FALSE /\ b.mode = Mode
  BY <1>3 DEF Content
<1> HIDE DEF b
<1>5. b \in File /\ b # NoFile /\ FileFits(b)
  BY <1>3, <1>4, ContentIsFile DEF FileFits
<1>6. FilesTyped' /\ DaemonTyped'
  BY <1>1, <1>2, <1>5 DEF FilesTyped, DaemonTyped
<1>7. "copy" \in PCs
  BY DEF PCs
<1>8. Others(p) /\ proc'[p].pc = "copy" /\ SameFields(p)
  BY <1>1, <1>2, <1>7, StepFacts
<1>9. Fits(proc'[p], svc')
  BY <1>1, <1>2, <1>8 DEF Fits, SameFields
<1>10. ASSUME ~clash
       PROVE  /\ Tell(svc', bak', dark, kept', snap', moved)
              /\ KnowsFiles(proc'[p], svc', bak', dark, kept', snap')
  <2>1. ~Recognised(svc.lines) /\ proc[p].seen = svc.lines
    BY <1>1, <1>2, <1>10 DEF KnowsFiles
  <2>2. Tell(svc, b, dark, kept, snap, moved)
    BY <1>2, <1>3, <1>4, <1>10, <2>1 DEF Tell
  <2>3. KnowsFiles(proc'[p], svc, b, dark, kept, snap)
    BY <1>1, <1>8, <2>1 DEF KnowsFiles, SameFields
  <2> QED
    BY <1>1, <2>2, <2>3
<1>11. KnowsDaemon(proc'[p], unit', bin', systemd')
  BY <1>8 DEF KnowsDaemon
<1> QED
  BY <1>1, <1>2, <1>5, <1>6, <1>8, <1>9, <1>10, <1>11, MoveKeeps

LEMMA BackupCopyKeeps ==
    ASSUME IInv, NEW p \in Procs, BackupCopy(p)
    PROVE  IInv'
<1> DEFINE b == [svc EXCEPT !.synced = FALSE]
<1>1. /\ proc[p].pc = "copy" /\ proc[p].cmd = "install" /\ Step(p, "temp")
      /\ svc' = svc /\ unit' = unit /\ bin' = bin /\ systemd' = systemd
      /\ kept' = kept /\ snap' = kept /\ UNCHANGED <<clash, dark, moved>>
      /\ bak' = b
  BY DEF BackupCopy, Here, daemonVars
<1>2. /\ proc \in [Procs -> Command] /\ Fits(proc[p], svc)
      /\ FilesTyped /\ DaemonTyped /\ FileFits(svc) /\ svc \in File
      /\ ~clash => Tell(svc, bak, dark, kept, snap, moved)
      /\ ~clash /\ proc[p].pc # "idle" => KnowsFiles(proc[p], svc, bak, dark, kept, snap)
  BY Given DEF FilesTyped
<1>3. svc # NoFile
  BY <1>1, <1>2 DEF Fits
<1>4. svc \in Content /\ svc.mode = Mode
  BY <1>2, <1>3, FileFields DEF FileFits
<1>5. b \in Content /\ b.lines = svc.lines /\ b.whole = svc.whole /\ b.mode = Mode
  BY <1>4 DEF Content
<1> HIDE DEF b
<1>6. b \in File /\ b # NoFile /\ FileFits(b)
  BY <1>2, <1>5, ContentIsFile DEF FileFits
<1>7. FilesTyped' /\ DaemonTyped'
  BY <1>1, <1>2, <1>6 DEF FilesTyped, DaemonTyped
<1>8. "temp" \in PCs
  BY DEF PCs
<1>9. Others(p) /\ proc'[p].pc = "temp" /\ SameFields(p)
  BY <1>1, <1>2, <1>8, StepFacts
<1>10. Fits(proc'[p], svc')
  BY <1>1, <1>2, <1>9 DEF Fits, SameFields
<1>11. ASSUME ~clash
       PROVE  /\ Tell(svc', bak', dark, kept', snap', moved)
              /\ KnowsFiles(proc'[p], svc', bak', dark, kept', snap')
  <2>1. ~Recognised(svc.lines) /\ proc[p].seen = svc.lines
    BY <1>1, <1>2, <1>11 DEF KnowsFiles
  <2>2. ~dark => svc.whole /\ AdminLinesAre(svc.lines, kept)
    BY <1>2, <1>3, <1>11 DEF Tell
  <2>3. Tell(svc, b, dark, kept, kept, moved)
    BY <1>5, <2>1, <2>2 DEF Tell
  <2>4. KnowsFiles(proc'[p], svc, b, dark, kept, kept)
    BY <1>1, <1>5, <1>6, <1>9, <2>1, <2>2 DEF KnowsFiles, SameFields, Backed
  <2> QED
    BY <1>1, <2>3, <2>4
<1>12. KnowsDaemon(proc'[p], unit', bin', systemd')
  BY <1>9 DEF KnowsDaemon
<1> QED
  BY <1>1, <1>2, <1>6, <1>7, <1>9, <1>10, <1>11, <1>12, MoveKeeps

LEMMA PersistKeeps ==
    ASSUME IInv, NEW p \in Procs, Persist(p)
    PROVE  IInv'
<1> DEFINE t == proc[p].tmp
<1>1. /\ proc[p].pc = "persist" /\ proc[p].cmd = "install" /\ PamDone(p)
      /\ svc' = t /\ bak' = bak /\ unit' = unit /\ bin' = bin /\ systemd' = systemd
      /\ kept' = kept /\ snap' = snap /\ UNCHANGED <<clash, dark, moved>>
  BY DEF Persist, Here, daemonVars, histVars
<1>2. /\ proc \in [Procs -> Command] /\ proc[p] \in Command /\ Fits(proc[p], svc)
      /\ FilesTyped /\ DaemonTyped /\ FileFits(bak)
      /\ ~clash => Tell(svc, bak, dark, kept, snap, moved)
      /\ ~clash /\ proc[p].pc # "idle" => KnowsFiles(proc[p], svc, bak, dark, kept, snap)
  BY Given
<1>3. t \in File /\ t # NoFile /\ FileFits(t)
  BY <1>1, <1>2 DEF Fits, Command
<1>4. FilesTyped' /\ DaemonTyped'
  BY <1>1, <1>2, <1>3 DEF FilesTyped, DaemonTyped
<1>5. Others(p) /\ proc'[p].pc \in {"idle", "unit"} /\ Fits(proc'[p], svc')
  BY <1>1, <1>2, PamDoneFacts
<1>6. /\ KnowsFiles(proc'[p], svc', bak', dark, kept', snap')
      /\ KnowsDaemon(proc'[p], unit', bin', systemd')
  BY <1>5, KnowsLittle
<1>7. ASSUME ~clash PROVE Tell(t, bak, dark, kept, snap, moved)
  <2>1. /\ Recognised(svc.lines) \/ Backed(bak, dark)
        /\ t.whole /\ (~dark => AdminLinesAre(t.lines, kept))
    BY <1>1, <1>2, <1>7 DEF KnowsFiles
  <2> QED
    BY <1>2, <1>7, <2>1 DEF Tell, Backed
<1>8. FileFits(svc') /\ FileFits(bak') /\ svc' # NoFile
  BY <1>1, <1>2, <1>3
<1>9. ~clash => Tell(svc', bak', dark, kept', snap', moved)
  BY <1>1, <1>7
<1> QED
  BY <1>1, <1>4, <1>5, <1>6, <1>8, <1>9, MoveKeeps

LEMMA RestorePersistKeeps ==
    ASSUME IInv, NEW p \in Procs, RestorePersist(p)
    PROVE  IInv'
<1> DEFINE t == proc[p].tmp
           f == NoFile
<1>1. /\ proc[p].pc = "persist" /\ proc[p].cmd = "uninstall"
      /\ proc' = [proc EXCEPT ![p].tmp = f, ![p].pc = "remove"]
      /\ svc' = t /\ bak' = bak /\ unit' = unit /\ bin' = bin /\ systemd' = systemd
      /\ kept' = snap /\ snap' = snap /\ UNCHANGED <<clash, dark, moved>>
  BY DEF RestorePersist, Here, daemonVars
<1>2. /\ proc \in [Procs -> Command] /\ proc[p] \in Command /\ Fits(proc[p], svc)
      /\ FilesTyped /\ DaemonTyped /\ FileFits(bak)
      /\ ~clash => Tell(svc, bak, dark, kept, snap, moved)
      /\ ~clash /\ proc[p].pc # "idle" => KnowsFiles(proc[p], svc, bak, dark, kept, snap)
  BY Given
<1>3. t \in File /\ t # NoFile /\ FileFits(t)
  BY <1>1, <1>2 DEF Fits, Command
<1>4. FilesTyped' /\ DaemonTyped'
  BY <1>1, <1>2, <1>3 DEF FilesTyped, DaemonTyped
<1>5. f \in File /\ FileFits(f)
  BY NoFileFacts
<1> HIDE DEF f
<1>6. /\ Others(p) /\ proc'[p].tmp = f /\ proc'[p].seen = proc[p].seen /\ proc'[p].pc = "remove"
      /\ proc'[p].cmd = "uninstall"
  BY <1>1, <1>2, <1>5 DEF Others, Command, PCs
<1>7. Fits(proc'[p], svc')
  BY <1>2, <1>5, <1>6 DEF Fits
<1>8. ASSUME ~clash
      PROVE  Tell(t, bak, dark, snap, snap, moved) /\ KnowsFiles(proc'[p], t, bak, dark, snap, snap)
  <2>1. ~Recognised(t.lines) /\ (~dark => t.whole /\ AdminLinesAre(t.lines, snap))
    BY <1>1, <1>2, <1>8 DEF KnowsFiles
  <2>2. Tell(t, bak, dark, snap, snap, moved)
    BY <1>2, <1>8, <2>1 DEF Tell
  <2>3. KnowsFiles(proc'[p], t, bak, dark, snap, snap)
    BY <1>6, <2>1 DEF KnowsFiles
  <2> QED
    BY <2>2, <2>3
<1>9. KnowsDaemon(proc'[p], unit', bin', systemd')
  BY <1>6 DEF KnowsDaemon
<1>10. FileFits(svc') /\ FileFits(bak') /\ svc' # NoFile
  BY <1>1, <1>2, <1>3
<1>11. ~clash => /\ Tell(svc', bak', dark, kept', snap', moved)
                 /\ KnowsFiles(proc'[p], svc', bak', dark, kept', snap')
  BY <1>1, <1>8
<1> QED
  BY <1>1, <1>4, <1>6, <1>7, <1>9, <1>10, <1>11, MoveKeeps

LEMMA RemoveBackupKeeps ==
    ASSUME IInv, NEW p \in Procs, RemoveBackup(p)
    PROVE  IInv'
<1>1. /\ proc[p].pc = "remove" /\ proc[p].cmd = "uninstall" /\ End(p)
      /\ svc' = svc /\ bak' = NoFile /\ unit' = unit /\ bin' = bin /\ systemd' = systemd
      /\ kept' = kept /\ snap' = snap /\ UNCHANGED <<clash, dark, moved>>
  BY DEF RemoveBackup, Here, daemonVars, histVars
<1>2. /\ proc \in [Procs -> Command]
      /\ FilesTyped /\ DaemonTyped /\ FileFits(svc)
      /\ ~clash => Tell(svc, bak, dark, kept, snap, moved)
      /\ ~clash /\ proc[p].pc # "idle" => KnowsFiles(proc[p], svc, bak, dark, kept, snap)
  BY Given
<1>3. NoFile \in File /\ FileFits(NoFile)
  BY NoFileFacts
<1>4. FilesTyped' /\ DaemonTyped'
  BY <1>1, <1>2, <1>3 DEF FilesTyped, DaemonTyped
<1>5. Others(p) /\ proc'[p].pc = "idle" /\ Fits(proc'[p], svc')
  BY <1>1, <1>2, EndFacts
<1>6. ASSUME ~clash PROVE Tell(svc, NoFile, dark, kept, snap, moved)
  <2>1. ~Recognised(svc.lines)
    BY <1>1, <1>2, <1>6 DEF KnowsFiles
  <2> QED
    BY <1>2, <1>6, <2>1 DEF Tell
<1>7. FileFits(svc') /\ FileFits(bak') /\ (~clash => Tell(svc', bak', dark, kept', snap', moved))
  BY <1>1, <1>2, <1>3, <1>6
<1> QED
  BY <1>1, <1>4, <1>5, <1>7, MoveKeeps

(* The daemon's part: the unit, the binary and systemd.                       *)
LEMMA DaemonMoveKeeps ==
    ASSUME IInv, NEW p \in Procs, proc[p].pc # "idle", Others(p), DaemonTyped',
           UNCHANGED <<svc, bak, histVars>>, Fits(proc'[p], svc),
           proc'[p].pc \in {"idle", "binary", "fill", "reload", "enable"},
           ~clash => KnowsDaemon(proc'[p], unit', bin', systemd')
    PROVE  IInv'
<1>1. /\ svc' = svc /\ bak' = bak /\ kept' = kept /\ snap' = snap
      /\ UNCHANGED <<clash, dark, moved>>
  BY DEF histVars
<1>2. /\ FilesTyped /\ FileFits(svc) /\ FileFits(bak)
      /\ ~clash => Tell(svc, bak, dark, kept, snap, moved)
  BY Given
<1>3. FilesTyped'
  BY <1>1, <1>2 DEF FilesTyped
<1>4. KnowsFiles(proc'[p], svc', bak', dark, kept', snap')
  BY DEF KnowsFiles
<1>5. /\ FileFits(svc') /\ FileFits(bak') /\ Fits(proc'[p], svc')
      /\ ~clash => Tell(svc', bak', dark, kept', snap', moved)
  BY <1>1, <1>2
<1> QED
  BY <1>1, <1>3, <1>4, <1>5, MoveKeeps

LEMMA DaemonStepFits ==
    ASSUME IInv, NEW p \in Procs, NEW pc \in {"binary", "fill", "reload", "enable"}, Step(p, pc)
    PROVE  Others(p) /\ proc'[p].pc = pc /\ Fits(proc'[p], svc)
<1>1. proc \in [Procs -> Command] /\ Fits(proc[p], svc) /\ pc \in PCs
  BY Given DEF PCs
<1>2. Others(p) /\ proc'[p].pc = pc /\ SameFields(p)
  BY <1>1, StepFacts
<1> QED
  BY <1>1, <1>2 DEF Fits, SameFields

LEMMA DaemonStepsKeep ==
    ASSUME IInv, NEW p \in Procs,
           \/ WriteUnit(p) \/ OpenBinary(p) \/ FillBinary(p) \/ DaemonReload(p) \/ EnableNow(p)
    PROVE  IInv'
<1>1. /\ DaemonTyped /\ proc \in [Procs -> Command]
      /\ ~clash /\ proc[p].pc # "idle" => KnowsDaemon(proc[p], unit, bin, systemd)
  BY Given
<1>2. CASE WriteUnit(p)
  <2>1. /\ proc[p].pc # "idle" /\ UNCHANGED <<svc, bak, histVars>> /\ bin' = bin /\ systemd' = systemd
        /\ unit' \in {"source", "libexec"}
    BY <1>2 DEF WriteUnit, OnDaemonPart
  <2>2. DaemonTyped'
    BY <1>1, <2>1 DEF DaemonTyped
  <2>3. Others(p) /\ proc'[p].pc \in {"idle", "binary"} /\ Fits(proc'[p], svc)
    <3>1. CASE proc[p].dry
      <4>1. End(p)
        BY <1>2, <3>1 DEF WriteUnit
      <4> QED
        BY <1>1, <4>1, EndFacts
    <3>2. CASE ~proc[p].dry
      <4>1. Step(p, "binary")
        BY <1>2, <3>2 DEF WriteUnit
      <4> QED
        BY <4>1, DaemonStepFits
    <3> QED
      BY <3>1, <3>2
  <2>4. KnowsDaemon(proc'[p], unit', bin', systemd')
    BY <2>3 DEF KnowsDaemon
  <2> QED
    BY <2>1, <2>2, <2>3, <2>4, DaemonMoveKeeps
<1>3. CASE OpenBinary(p)
  <2>1. /\ proc[p].pc # "idle" /\ UNCHANGED <<svc, bak, histVars>> /\ unit' = unit /\ systemd' = systemd
        /\ bin' = "torn" /\ Step(p, "fill")
    BY <1>3 DEF OpenBinary, OnDaemonPart
  <2>2. DaemonTyped'
    BY <1>1, <2>1 DEF DaemonTyped
  <2>3. Others(p) /\ proc'[p].pc = "fill" /\ Fits(proc'[p], svc)
    BY <2>1, DaemonStepFits
  <2>4. KnowsDaemon(proc'[p], unit', bin', systemd')
    BY <2>3 DEF KnowsDaemon
  <2> QED
    BY <2>1, <2>2, <2>3, <2>4, DaemonMoveKeeps
<1>4. CASE FillBinary(p)
  <2>1. /\ proc[p].pc # "idle" /\ UNCHANGED <<svc, bak, histVars>> /\ unit' = unit /\ systemd' = systemd
        /\ bin' = "whole" /\ Step(p, "reload")
    BY <1>4 DEF FillBinary, OnDaemonPart
  <2>2. DaemonTyped'
    BY <1>1, <2>1 DEF DaemonTyped
  <2>3. Others(p) /\ proc'[p].pc = "reload" /\ Fits(proc'[p], svc)
    BY <2>1, DaemonStepFits
  <2>4. KnowsDaemon(proc'[p], unit', bin', systemd')
    BY <2>1, <2>3 DEF KnowsDaemon
  <2> QED
    BY <2>1, <2>2, <2>3, <2>4, DaemonMoveKeeps
<1>5. CASE DaemonReload(p)
  <2>1. /\ proc[p].pc = "reload" /\ UNCHANGED <<svc, bak, histVars>> /\ unit' = unit /\ bin' = bin
        /\ systemd' = [systemd EXCEPT !.exec = unit] /\ Step(p, "enable")
    BY <1>5 DEF DaemonReload, OnDaemonPart
  <2>2. DaemonTyped' /\ systemd'.exec = unit'
    BY <1>1, <2>1 DEF DaemonTyped
  <2>3. Others(p) /\ proc'[p].pc = "enable" /\ Fits(proc'[p], svc)
    BY <2>1, DaemonStepFits
  <2>4. ~clash => KnowsDaemon(proc'[p], unit', bin', systemd')
    BY <1>1, <2>1, <2>2, <2>3 DEF KnowsDaemon
  <2> QED
    BY <2>1, <2>2, <2>3, <2>4, DaemonMoveKeeps
<1>6. CASE EnableNow(p)
  <2>1. /\ proc[p].pc = "enable" /\ UNCHANGED <<svc, bak, histVars>> /\ unit' = unit /\ bin' = bin
        /\ systemd' = [systemd EXCEPT !.enabled = TRUE] /\ End(p)
    BY <1>6 DEF EnableNow, OnDaemonPart
  <2>2. DaemonTyped'
    BY <1>1, <2>1 DEF DaemonTyped
  <2>3. Others(p) /\ proc'[p].pc = "idle" /\ Fits(proc'[p], svc)
    BY <1>1, <2>1, EndFacts
  <2>4. KnowsDaemon(proc'[p], unit', bin', systemd')
    BY <2>3 DEF KnowsDaemon
  <2> QED
    BY <2>1, <2>2, <2>3, <2>4, DaemonMoveKeeps
<1> QED
  BY <1>2, <1>3, <1>4, <1>5, <1>6

LEMMA BeginKeeps ==
    ASSUME IInv, NEW p \in Procs, NEW cmd \in Commands, NEW line \in {"syauth", "syauthX"},
           NEW u \in BOOLEAN, NEW d \in BOOLEAN, NEW from \in BOOLEAN, NEW dry \in BOOLEAN,
           Begin(p, cmd, line, u, d, from, dry)
    PROVE  IInv'
<1> DEFINE pc == IF cmd = "daemon" THEN "unit" ELSE "read"
           n == NoCommand
           c == [n EXCEPT !.pc = pc, !.cmd = cmd, !.line = line, !.u2f = u, !.daemon = d,
                          !.from = from, !.dry = dry]
<1>1. /\ proc' = [proc EXCEPT ![p] = c] /\ clash' = (clash \/ Busy # {})
      /\ svc' = svc /\ bak' = bak /\ unit' = unit /\ bin' = bin /\ systemd' = systemd
      /\ kept' = kept /\ snap' = snap /\ dark' = dark /\ moved' = moved
  BY DEF Begin, daemonVars
<1>2. n \in Command /\ n.seen = <<>> /\ n.tmp = NoFile
  BY NoCommandFacts
<1>3. pc \in PCs /\ pc \in {"unit", "read"}
  BY DEF PCs
<1> HIDE DEF n, pc
<1>4. c \in Command /\ c.pc = pc /\ c.seen = n.seen /\ c.tmp = n.tmp
  BY <1>2, <1>3 DEF Command
<1> HIDE DEF c
<1>5. Fits(c, svc)
  BY <1>2, <1>3, <1>4, FreshFits
<1>6. /\ TypeOK /\ FileFits(svc) /\ FileFits(bak)
      /\ \A q \in Procs : Fits(proc[q], svc)
      /\ ~clash => Tell(svc, bak, dark, kept, snap, moved)
  BY IInvParts
<1>7. proc \in [Procs -> Command] /\ clash' \in BOOLEAN
  BY <1>1, <1>6 DEF TypeOK
<1>8. proc' \in [Procs -> Command] /\ proc'[p] = c /\ \A q \in Procs : q # p => proc'[q] = proc[q]
  BY <1>1, <1>4, <1>7
<1>9. TypeOK'
  BY <1>1, <1>6, <1>7, <1>8 DEF TypeOK
<1>10. \A q \in Procs : Fits(proc'[q], svc')
  BY <1>1, <1>5, <1>6, <1>8
<1>11. ~clash' => ~clash /\ \A q \in Procs : proc[q].pc = "idle"
  BY <1>1 DEF Busy
<1>12. ~clash' => \A q \in Procs : proc'[q].pc # "idle" => q = p
  BY <1>8, <1>11
<1>13. /\ KnowsFiles(c, svc', bak', dark', kept', snap')
       /\ KnowsDaemon(c, unit', bin', systemd')
  BY <1>3, <1>4 DEF KnowsFiles, KnowsDaemon
<1>14. ~clash' => \A q \in Procs : proc'[q].pc # "idle" =>
                     /\ KnowsFiles(proc'[q], svc', bak', dark', kept', snap')
                     /\ KnowsDaemon(proc'[q], unit', bin', systemd')
  BY <1>8, <1>12, <1>13
<1>15. /\ FileFits(svc') /\ FileFits(bak')
       /\ ~clash' => Tell(svc', bak', dark', kept', snap', moved')
  BY <1>1, <1>6, <1>11
<1>16. ~clash' => \A q, r \in Procs : proc'[q].pc # "idle" /\ proc'[r].pc # "idle" => q = r
  BY <1>12
<1> QED
  BY <1>9, <1>10, <1>14, <1>15, <1>16, IInvNext

LEMMA StartKeeps ==
    ASSUME IInv, NEW p \in Procs, StartCommand(p)
    PROVE  IInv'
<1>1. {"install", "uninstall", "daemon"} \subseteq Commands
  BY DEF Commands
<1>2. /\ FALSE \in BOOLEAN /\ TRUE \in BOOLEAN
  OBVIOUS
<1> QED
  BY <1>1, <1>2, BeginKeeps DEF StartCommand

(* The administrator and the power.  An edit beside a running command is a    *)
(* clash, so that without one no command runs.                                *)
LEMMA NobodyRuns ==
    ASSUME clash' = (clash \/ Busy # {}), ~clash'
    PROVE  ~clash /\ \A p \in Procs : proc[p].pc = "idle"
BY DEF Busy

LEMMA EditKeeps ==
    ASSUME IInv, Edit
    PROVE  IInv'
<1> DEFINE l == Append(svc.lines, "note")
           o == Append(kept, "note")
           f == [svc EXCEPT !.lines = l]
<1>1. /\ svc # NoFile /\ svc' = f /\ kept' = o /\ clash' = (clash \/ Busy # {})
      /\ bak' = bak /\ unit' = unit /\ bin' = bin /\ systemd' = systemd /\ proc' = proc
      /\ snap' = snap /\ dark' = dark /\ moved' = moved
  BY DEF Edit, daemonVars
<1>2. /\ TypeOK /\ FileFits(svc) /\ FileFits(bak)
      /\ \A q \in Procs : Fits(proc[q], svc)
      /\ ~clash => Tell(svc, bak, dark, kept, snap, moved)
  BY IInvParts
<1>3. svc \in Content /\ svc.lines \in Seq(Lines) /\ svc.mode = Mode /\ kept \in Seq(Lines)
  BY <1>1, <1>2, FileFields DEF TypeOK, FileFits
<1>4. "note" \in Lines /\ "note" \notin Ours
  BY DEF Lines, Ours
<1>5. l \in Seq(Lines) /\ o \in Seq(Lines) /\ Len(l) = Len(svc.lines) + 1
      /\ l[Len(svc.lines) + 1] = "note" /\ \A i \in 1..Len(svc.lines) : l[i] = svc.lines[i]
  <2>1. o \in Seq(Lines)
    BY <1>3, <1>4, AppendFacts
  <2>2. l \in Seq(Lines) /\ Len(l) = Len(svc.lines) + 1
        /\ l[Len(svc.lines) + 1] = "note" /\ \A i \in 1..Len(svc.lines) : l[i] = svc.lines[i]
    BY <1>3, <1>4, AppendFacts
  <2> QED
    BY <2>1, <2>2
<1>6. AdminLinesAre(svc.lines, kept) => AdminLinesAre(l, o)
  BY <1>3, <1>4, AppendKeepsLines
<1> HIDE DEF l, o
<1>7. /\ Len(svc.lines) \in Nat /\ DOMAIN svc.lines = 1..Len(svc.lines)
      /\ DOMAIN l = 1..(Len(svc.lines) + 1)
  BY <1>3, <1>5, LenProperties
<1>8. \A i \in DOMAIN l : l[i] # "note" => i \in DOMAIN svc.lines /\ svc.lines[i] = l[i]
  BY <1>5, <1>7
<1>9. Recognised(l) => Recognised(svc.lines)
  BY <1>8 DEF Recognised
<1>10. Once(l)
  <2>1. Single(svc.lines, "syauth") /\ Single(svc.lines, "u2f")
    BY <1>2, <1>3, OnceIsSingle DEF FileFits
  <2>2. Single(l, "syauth") /\ Single(l, "u2f")
    BY <1>8, <2>1 DEF Single
  <2> QED
    BY <1>5, <2>2, OnceIsSingle
<1>11. f \in Content /\ f.lines = l /\ f.mode = Mode /\ f.whole = svc.whole
  BY <1>3, <1>5 DEF Content
<1> HIDE DEF f
<1>12. f \in File /\ f # NoFile /\ FileFits(f)
  BY <1>10, <1>11, ContentIsFile DEF FileFits
<1>13. clash' \in BOOLEAN
  BY <1>1, <1>2 DEF TypeOK
<1>14. TypeOK'
  BY <1>1, <1>2, <1>5, <1>12, <1>13 DEF TypeOK
<1>15. \A q \in Procs : Fits(proc[q], f)
  BY <1>2, <1>12 DEF Fits
<1>16. ~clash' => ~clash /\ \A q \in Procs : proc[q].pc = "idle"
  BY <1>1, NobodyRuns
<1>17. ASSUME ~clash PROVE Tell(f, bak, dark, o, snap, moved)
  BY <1>1, <1>2, <1>6, <1>9, <1>11, <1>17 DEF Tell
<1>18. /\ FileFits(svc') /\ FileFits(bak') /\ \A q \in Procs : Fits(proc'[q], svc')
       /\ ~clash' => Tell(svc', bak', dark', kept', snap', moved')
       /\ ~clash' => \A q \in Procs : proc'[q].pc = "idle"
  BY <1>1, <1>2, <1>12, <1>15, <1>16, <1>17
<1> QED
  BY <1>14, <1>18, IInvNext

LEMMA MoveAsideKeeps ==
    ASSUME IInv, MoveAside
    PROVE  IInv'
<1>1. /\ bak' = NoFile /\ moved' = TRUE /\ clash' = (clash \/ Busy # {})
      /\ svc' = svc /\ unit' = unit /\ bin' = bin /\ systemd' = systemd /\ proc' = proc
      /\ kept' = kept /\ snap' = snap /\ dark' = dark
  BY DEF MoveAside, daemonVars
<1>2. /\ TypeOK /\ FileFits(svc) /\ \A q \in Procs : Fits(proc[q], svc)
      /\ ~clash => Tell(svc, bak, dark, kept, snap, moved)
  BY IInvParts
<1>3. NoFile \in File /\ FileFits(NoFile)
  BY NoFileFacts
<1>4. clash' \in BOOLEAN /\ TRUE \in BOOLEAN
  BY <1>1, <1>2 DEF TypeOK
<1>5. TypeOK'
  BY <1>1, <1>2, <1>3, <1>4 DEF TypeOK
<1>6. ~clash' => ~clash /\ \A q \in Procs : proc[q].pc = "idle"
  BY <1>1, NobodyRuns
<1>7. ASSUME ~clash PROVE Tell(svc, NoFile, dark, kept, snap, TRUE)
  BY <1>2, <1>7 DEF Tell
<1>8. /\ FileFits(svc') /\ FileFits(bak') /\ \A q \in Procs : Fits(proc'[q], svc')
      /\ ~clash' => Tell(svc', bak', dark', kept', snap', moved')
      /\ ~clash' => \A q \in Procs : proc'[q].pc = "idle"
  BY <1>1, <1>2, <1>3, <1>6, <1>7
<1> QED
  BY <1>5, <1>8, IInvNext

LEMMA SurvivingFacts ==
    ASSUME NEW f \in File, FileFits(f), NEW g \in Surviving(f)
    PROVE  /\ g \in File /\ FileFits(g)
           /\ ~Recognised(f.lines) => ~Recognised(g.lines)
           /\ g = NoFile <=> f = NoFile
<1>1. CASE g = f
  BY <1>1
<1>2. CASE g # f
  <2> DEFINE e == <<>>
  <2>1. f # NoFile /\ g = [f EXCEPT !.whole = FALSE, !.lines = e]
    BY <1>2 DEF Surviving
  <2>2. e \in Seq(Lines) /\ Once(e) /\ ~Recognised(e)
    BY EmptyFacts DEF Recognised
  <2>3. f \in Content /\ f.mode = Mode
    BY <2>1, FileFields DEF FileFits
  <2> HIDE DEF e
  <2>4. g \in Content /\ g.lines = e /\ g.mode = Mode
    BY <2>1, <2>2, <2>3 DEF Content
  <2> QED
    BY <2>1, <2>2, <2>4, ContentIsFile DEF FileFits
<1> QED
  BY <1>1, <1>2

LEMMA PowerLossKeeps ==
    ASSUME IInv, PowerLoss
    PROVE  IInv'
<1>1. /\ dark' = TRUE /\ svc' \in Surviving(svc) /\ bak' \in Surviving(bak)
      /\ proc' = [q \in Procs |-> NoCommand]
      /\ unit' = unit /\ bin' = bin /\ systemd' = systemd
      /\ kept' = kept /\ snap' = snap /\ clash' = clash /\ moved' = moved
  BY DEF PowerLoss, daemonVars
<1>2. /\ TypeOK /\ FileFits(svc) /\ FileFits(bak)
      /\ ~clash => Tell(svc, bak, dark, kept, snap, moved)
  BY IInvParts
<1>3. svc \in File /\ bak \in File
  BY <1>2 DEF TypeOK
<1>4. svc' \in File /\ FileFits(svc')
  BY <1>1, <1>2, <1>3, SurvivingFacts
<1>5. /\ bak' \in File /\ FileFits(bak') /\ (bak' = NoFile <=> bak = NoFile)
      /\ ~Recognised(bak.lines) => ~Recognised(bak'.lines)
  BY <1>1, <1>2, <1>3, SurvivingFacts
<1>6. proc' \in [Procs -> Command] /\ \A q \in Procs : proc'[q] = NoCommand
  BY <1>1, NoCommandFacts
<1>7. TypeOK'
  BY <1>1, <1>2, <1>4, <1>5, <1>6 DEF TypeOK
<1>8. \A q \in Procs : Fits(proc'[q], svc') /\ proc'[q].pc = "idle"
  <2>1. Fits(NoCommand, svc')
    BY NoCommandFacts, FreshFits
  <2> QED
    BY <1>6, <2>1, NoCommandFacts
<1>9. ~clash' => Tell(svc', bak', dark', kept', snap', moved')
  <2>1. ~clash' => (bak' # NoFile => ~Recognised(bak'.lines))
    BY <1>1, <1>2, <1>5 DEF Tell
  <2> QED
    BY <1>1, <2>1 DEF Tell
<1> QED
  BY <1>4, <1>5, <1>7, <1>8, <1>9, IInvNext

-----------------------------------------------------------------------------
(* The theorems.                                                              *)

LEMMA NewFileFacts ==
    ASSUME NEW l, NEW f, f = [lines |-> l, mode |-> Mode, whole |-> TRUE, synced |-> TRUE],
           l = Original \/ l = <<"note">> \/ l = <<"latin1", "auth">>
    PROVE  /\ f \in File /\ FileFits(f) /\ f.lines = l /\ f.whole = TRUE /\ l \in Seq(Lines)
           /\ ~Recognised(l) /\ AdminLinesAre(l, l) /\ \A i \in DOMAIN l : l[i] \notin Ours
<1>1. {"note", "auth", "latin1"} \subseteq Lines
  BY DEF Lines
<1>2. l \in Seq(Lines) /\ \A i \in DOMAIN l : l[i] \in {"note", "auth", "latin1"}
  <2>1. CASE l = <<"note", "auth", "note">>
    <3>1. DOMAIN l = 1..3 /\ l[1] = "note" /\ l[2] = "auth" /\ l[3] = "note"
      BY <2>1
    <3>2. \A i \in 1..3 : i = 1 \/ i = 2 \/ i = 3
      OBVIOUS
    <3>3. l \in Seq(Lines)
      BY <1>1, <2>1
    <3> QED
      BY <3>1, <3>2, <3>3
  <2>2. CASE l = <<"note">>
    BY <1>1, <2>2
  <2>3. CASE l = <<"latin1", "auth">>
    <3>1. DOMAIN l = 1..2 /\ l[1] = "latin1" /\ l[2] = "auth"
      BY <2>3
    <3>2. \A i \in 1..2 : i = 1 \/ i = 2
      OBVIOUS
    <3>3. l \in Seq(Lines)
      BY <1>1, <2>3
    <3> QED
      BY <3>1, <3>2, <3>3
  <2> QED
    BY <2>1, <2>2, <2>3 DEF Original
<1>3. ~Recognised(l) /\ \A i \in DOMAIN l : l[i] \notin Ours
  BY <1>2 DEF Recognised, Ours
<1>4. AdminLinesAre(l, l)
  BY <1>2, <1>3, OwnLines
<1>5. Once(l)
  <2>1. Single(l, "syauth") /\ Single(l, "u2f")
    BY <1>2 DEF Single
  <2> QED
    BY <1>2, <2>1, OnceIsSingle
<1>6. f \in Content /\ f.lines = l /\ f.whole = TRUE /\ f.mode = Mode
  BY <1>2 DEF Content
<1> QED
  BY <1>2, <1>3, <1>4, <1>5, <1>6, ContentIsFile DEF FileFits

LEMMA InitIInv == Init => IInv
<1> SUFFICES ASSUME Init PROVE IInv
  OBVIOUS
<1>1. /\ bak = NoFile /\ unit = "none" /\ bin = "none"
      /\ proc = [p \in Procs |-> NoCommand] /\ kept = svc.lines /\ snap = <<>>
      /\ clash = FALSE /\ dark = FALSE /\ moved = FALSE
  BY DEF Init
<1>2. systemd \in [exec : {"none", "libexec", "source"}, enabled : BOOLEAN]
  <2>1. systemd = [exec |-> "none", enabled |-> FALSE]
    BY DEF Init
  <2> QED
    BY <2>1
<1>3. /\ svc \in File /\ FileFits(svc) /\ svc.lines \in Seq(Lines) /\ ~Recognised(svc.lines)
      /\ svc # NoFile => svc.whole /\ AdminLinesAre(svc.lines, svc.lines)
  <2>1. svc = NoFile \/ \E l \in {Original, <<"note">>, <<"latin1", "auth">>} :
           svc = [lines |-> l, mode |-> Mode, whole |-> TRUE, synced |-> TRUE]
    BY DEF Init
  <2>2. CASE svc = NoFile
    BY <2>2, NoFileFacts, EmptyFacts
  <2>3. ASSUME NEW l \in {Original, <<"note">>, <<"latin1", "auth">>},
               svc = [lines |-> l, mode |-> Mode, whole |-> TRUE, synced |-> TRUE]
        PROVE  /\ svc \in File /\ FileFits(svc) /\ svc.lines \in Seq(Lines) /\ ~Recognised(svc.lines)
               /\ svc # NoFile => svc.whole /\ AdminLinesAre(svc.lines, svc.lines)
    <3>1. l = Original \/ l = <<"note">> \/ l = <<"latin1", "auth">>
      OBVIOUS
    <3>2. /\ svc \in File /\ FileFits(svc) /\ svc.lines = l /\ svc.whole = TRUE /\ l \in Seq(Lines)
          /\ ~Recognised(l) /\ AdminLinesAre(l, l)
      BY <2>3, <3>1, NewFileFacts
    <3> QED
      BY <3>2
  <2> QED
    BY <2>1, <2>2, <2>3
<1>4. bak \in File /\ FileFits(bak) /\ snap \in Seq(Lines)
  BY <1>1, NoFileFacts, EmptyFacts
<1>5. proc \in [Procs -> Command] /\ \A p \in Procs : proc[p].pc = "idle" /\ Fits(proc[p], svc)
  <2>1. Fits(NoCommand, svc)
    BY NoCommandFacts, FreshFits
  <2> QED
    BY <1>1, <2>1, NoCommandFacts
<1>6. TypeOK
  BY <1>1, <1>2, <1>3, <1>4, <1>5 DEF TypeOK
<1>7. Tell(svc, bak, dark, kept, snap, moved)
  BY <1>1, <1>3 DEF Tell
<1>8. Knowing /\ Solo
  BY <1>5 DEF Knowing, Solo
<1> QED
  BY <1>3, <1>4, <1>5, <1>6, <1>7, <1>8, IInvParts

LEMMA StutterKeeps ==
    ASSUME IInv, UNCHANGED vars
    PROVE  IInv'
<1>1. /\ svc' = svc /\ bak' = bak /\ unit' = unit /\ bin' = bin /\ systemd' = systemd
      /\ kept' = kept /\ snap' = snap /\ clash' = clash /\ dark' = dark /\ moved' = moved
      /\ proc' = proc
  BY DEF vars
<1>2. /\ TypeOK /\ FileFits(svc) /\ FileFits(bak)
      /\ \A p \in Procs : Fits(proc[p], svc)
      /\ ~clash => Tell(svc, bak, dark, kept, snap, moved) /\ Knowing /\ Solo
  BY IInvParts
<1>3. TypeOK'
  BY <1>1, <1>2 DEF TypeOK
<1> QED
  BY <1>1, <1>2, <1>3, IInvNext DEF Knowing, Solo

LEMMA StepIInv == IInv /\ [Next]_vars => IInv'
<1> SUFFICES ASSUME IInv, [Next]_vars PROVE IInv'
  OBVIOUS
<1>1. ASSUME NEW p \in Procs, InstallStep(p) PROVE IInv'
  BY <1>1, AlreadyInstalledKeeps, InstallReadKeeps, EndingsKeep, BackupFreeKeeps, BackupOpenKeeps,
     BackupCopyKeeps, WriteTempKeeps, PersistKeeps DEF InstallStep
<1>2. ASSUME NEW p \in Procs, UninstallStep(p) PROVE IInv'
  BY <1>2, EndingsKeep, UninstallReadKeeps, RestoreTempKeeps, RestorePersistKeeps, RemoveBackupKeeps
     DEF UninstallStep
<1>3. ASSUME NEW p \in Procs, DaemonStep(p) PROVE IInv'
  BY <1>3, EndingsKeep, DaemonStepsKeep DEF DaemonStep
<1>4. ASSUME NEW p \in Procs, StartCommand(p) \/ Unreadable(p) \/ Stops(p) PROVE IInv'
  BY <1>4, StartKeeps, EndingsKeep
<1>5. CASE Edit \/ MoveAside \/ PowerLoss
  BY <1>5, EditKeeps, MoveAsideKeeps, PowerLossKeeps
<1>6. CASE UNCHANGED vars
  BY <1>6, StutterKeeps
<1> QED
  BY <1>1, <1>2, <1>3, <1>4, <1>5, <1>6 DEF Next

-----------------------------------------------------------------------------
(* Lines for pam_syauth, in either form, in a file that is written anew.      *)

LEMMA InsertedNames ==
    ASSUME NEW s, NEW k, NEW e, NEW t, Inserted(s, k, e, t), SyauthOnce(s),
           e \in Named => Unnamed(s)
    PROVE  SyauthOnce(t)
<1> SUFFICES ASSUME NEW i \in DOMAIN t, NEW j \in DOMAIN t, t[i] \in Named, t[j] \in Named
             PROVE  i = j
  BY DEF SyauthOnce
<1>1. /\ DOMAIN t = 1..(Len(s) + 1) /\ DOMAIN s = 1..Len(s) /\ Len(s) \in Nat
      /\ k \in Nat
  BY InsertedOrigin
<1>2. \A x \in DOMAIN t : \/ x = k /\ t[x] = e
                          \/ x < k /\ x \in DOMAIN s /\ t[x] = s[x]
                          \/ x > k /\ x - 1 \in DOMAIN s /\ x - 1 >= k /\ t[x] = s[x - 1]
  BY InsertedOrigin
<1>3. i \in Nat /\ j \in Nat
  BY <1>1
<1>4. CASE e \in Named
  BY <1>2, <1>4 DEF Unnamed
<1>5. CASE e \notin Named
  <2>1. \/ i < k /\ i \in DOMAIN s /\ s[i] \in Named
        \/ i > k /\ i - 1 \in DOMAIN s /\ i - 1 >= k /\ s[i - 1] \in Named
    BY <1>2, <1>5
  <2>2. \/ j < k /\ j \in DOMAIN s /\ s[j] \in Named
        \/ j > k /\ j - 1 \in DOMAIN s /\ j - 1 >= k /\ s[j - 1] \in Named
    BY <1>2, <1>5
  <2> QED
    BY <1>1, <1>3, <2>1, <2>2 DEF SyauthOnce
<1> QED
  BY <1>4, <1>5

LEMMA NewContentsNames ==
    ASSUME NEW c \in Command, SyauthOnce(c.seen), Recognised(c.seen) \/ Unnamed(c.seen)
    PROVE  SyauthOnce(NewContents(c))
<1> DEFINE s == c.seen
           r == IF Recognised(s) THEN s ELSE InsertLine(s, c.line)
           t == NewContents(c)
<1>1. s \in Seq(Lines) /\ c.line \in Lines /\ c.u2f \in BOOLEAN
  BY DEF Command, Lines
<1>2. t = MaybeInsertU2f(r, c.u2f) /\ SyauthOnce(s)
  BY DEF NewContents
<1>3. r = s \/ (Unnamed(s) /\ \E k : Inserted(s, k, c.line, r))
  <2>1. CASE Recognised(s)
    BY <2>1
  <2>2. CASE ~Recognised(s)
    <3>1. r = InsertLine(s, c.line) /\ Unnamed(s)
      BY <2>2
    <3> QED
      BY <1>1, <3>1, InsertLineFacts
  <2> QED
    BY <2>1, <2>2
<1> HIDE DEF s, r, t
<1>4. r \in Seq(Lines) /\ SyauthOnce(r)
  BY <1>1, <1>2, <1>3, InsertedNames DEF Inserted
<1>5. t = r \/ \E k : Inserted(r, k, "u2f", t)
  BY <1>1, <1>2, <1>4, U2fFacts
<1>6. "u2f" \notin Named
  BY DEF Named
<1>7. SyauthOnce(t)
  BY <1>4, <1>5, <1>6, InsertedNames
<1> QED
  BY <1>7 DEF t

LEMMA UnnamedFacts ==
    /\ Unnamed(<<>>)
    /\ \A l : Unnamed(l) => SyauthOnce(l) /\ ~Recognised(l)
<1>1. Unnamed(<<>>)
  BY DEF Unnamed
<1>2. ASSUME NEW l, Unnamed(l) PROVE SyauthOnce(l) /\ ~Recognised(l)
  BY <1>2 DEF Unnamed, SyauthOnce, Recognised, Named
<1> QED
  BY <1>1, <1>2

(* The invariant of the names with the state it speaks of as arguments.       *)
NameTell(sv, bk) ==
    /\ SyauthOnce(sv.lines) /\ Unnamed(bk.lines)
    /\ bk = NoFile => Unnamed(sv.lines)
Names(c, sv, bk) ==
    /\ c.cmd = "install" =>
          /\ c.pc \in {"open", "copy"} => Unnamed(sv.lines)
          /\ c.pc = "temp" => bk # NoFile /\ (Recognised(sv.lines) \/ Unnamed(sv.lines))
          /\ c.pc = "persist" => bk # NoFile /\ SyauthOnce(c.tmp.lines)
    /\ c.cmd = "uninstall" =>
          /\ c.pc = "persist" => Unnamed(c.tmp.lines)
          /\ c.pc = "remove" => Unnamed(sv.lines)

LEMMA NamesLittle ==
    ASSUME NEW c, c.pc \notin {"open", "copy", "temp", "persist", "remove"}
    PROVE  \A sv, bk : Names(c, sv, bk)
BY DEF Names

LEMMA NamesGiven ==
    ASSUME IInv, NameInv, ~clash, ~moved, NEW p \in Procs
    PROVE  /\ NameTell(svc, bak)
           /\ proc[p].pc # "idle" => /\ Names(proc[p], svc, bak)
                                     /\ KnowsFiles(proc[p], svc, bak, dark, kept, snap)
<1>1. NameTell(svc, bak)
  BY DEF NameInv, NameTell
<1>2. ASSUME proc[p].pc # "idle" PROVE Names(proc[p], svc, bak)
  <2>1. NameKnows(proc[p])
    BY <1>2 DEF NameInv, Busy
  <2> QED
    BY <2>1 DEF NameKnows, Names
<1> QED
  BY <1>1, <1>2, Given

LEMMA NamesNext ==
    ASSUME ~clash' /\ ~moved' => NameTell(svc', bak'),
           ~clash' /\ ~moved' => \A p \in Procs : proc'[p].pc # "idle" => Names(proc'[p], svc', bak')
    PROVE  NameInv'
<1>1. ASSUME ~clash', ~moved', NEW p \in Procs, proc'[p].pc # "idle" PROVE NameKnows(proc[p])'
  <2>1. Names(proc'[p], svc', bak')
    BY <1>1
  <2> QED
    BY <2>1 DEF NameKnows, Names
<1>2. ~clash' /\ ~moved' => NameTell(svc', bak')
  OBVIOUS
<1> QED
  BY <1>1, <1>2 DEF NameInv, NameTell, Busy

(* A step of the one command that runs.                                       *)
LEMMA NamesMove ==
    ASSUME IInv, NEW p \in Procs, proc[p].pc # "idle", Others(p), UNCHANGED <<clash, moved>>,
           ~clash /\ ~moved => NameTell(svc', bak') /\ Names(proc'[p], svc', bak')
    PROVE  NameInv'
<1>1. ~clash => Solo
  BY IInvParts
<1>2. ASSUME ~clash', ~moved', NEW q \in Procs, proc'[q].pc # "idle" PROVE Names(proc'[q], svc', bak')
  <2>1. CASE q # p
    <3>1. proc[q].pc # "idle"
      BY <1>2, <2>1 DEF Others
    <3> QED
      BY <1>1, <1>2, <2>1, <3>1 DEF Solo
  <2>2. CASE q = p
    BY <1>2, <2>2
  <2> QED
    BY <2>1, <2>2
<1> QED
  BY <1>2, NamesNext

(* The steps after which the command has nothing to know of the names.        *)
LEMMA NamesQuiet ==
    ASSUME IInv, NameInv, NEW p \in Procs, proc[p].pc # "idle", Others(p),
           svc' = svc, bak' = bak, UNCHANGED <<clash, moved>>,
           proc'[p].pc \notin {"open", "copy", "temp", "persist", "remove"}
    PROVE  NameInv'
<1>1. ~clash /\ ~moved => NameTell(svc', bak')
  BY NamesGiven
<1>2. Names(proc'[p], svc', bak')
  BY NamesLittle
<1> QED
  BY <1>1, <1>2, NamesMove

LEMMA EndingNames ==
    ASSUME IInv, NameInv, NEW p \in Procs,
           \/ Unreadable(p) \/ BackupExists(p) \/ NotInstalled(p) \/ BackupMissing(p)
           \/ DaemonUnresolved(p) \/ BinaryBusy(p) \/ Stops(p) \/ EnableNow(p)
    PROVE  NameInv'
<1>1. /\ proc[p].pc # "idle" /\ End(p)
      /\ svc' = svc /\ bak' = bak /\ UNCHANGED <<clash, moved>>
  BY DEF Unreadable, BackupExists, NotInstalled, BackupMissing, DaemonUnresolved, BinaryBusy, Stops,
         EnableNow, NoFileChange, Here, OnDaemonPart, histVars
<1>2. Others(p) /\ proc'[p].pc = "idle"
  BY <1>1, Given, EndFacts
<1> QED
  BY <1>1, <1>2, NamesQuiet

LEMMA DaemonNames ==
    ASSUME IInv, NameInv, NEW p \in Procs,
           \/ WriteUnit(p) \/ OpenBinary(p) \/ FillBinary(p) \/ DaemonReload(p)
    PROVE  NameInv'
<1>1. /\ proc[p].pc # "idle" /\ svc' = svc /\ bak' = bak /\ UNCHANGED <<clash, moved>>
      /\ End(p) \/ \E pc \in {"binary", "fill", "reload", "enable"} : Step(p, pc)
  BY DEF WriteUnit, OpenBinary, FillBinary, DaemonReload, OnDaemonPart, histVars
<1>2. CASE End(p)
  <2>1. Others(p) /\ proc'[p].pc = "idle"
    BY <1>2, Given, EndFacts
  <2> QED
    BY <1>1, <2>1, NamesQuiet
<1>3. ASSUME NEW pc \in {"binary", "fill", "reload", "enable"}, Step(p, pc) PROVE NameInv'
  <2>1. Others(p) /\ proc'[p].pc = pc
    BY <1>3, DaemonStepFits
  <2> QED
    BY <1>1, <2>1, NamesQuiet
<1> QED
  BY <1>1, <1>2, <1>3

LEMMA ReadingNames ==
    ASSUME IInv, NameInv, NEW p \in Procs, AlreadyInstalled(p) \/ UninstallRead(p)
    PROVE  NameInv'
<1>1. /\ proc[p].pc # "idle" /\ svc' = svc /\ bak' = bak /\ UNCHANGED <<clash, moved>>
      /\ PamDone(p) \/ Step(p, "backup")
  BY DEF AlreadyInstalled, UninstallRead, Here, NoFileChange, histVars
<1>2. "backup" \in PCs
  BY DEF PCs
<1>3. Others(p) /\ proc'[p].pc \in {"idle", "unit", "backup"}
  BY <1>1, <1>2, Given, PamDoneFacts, StepFacts
<1> QED
  BY <1>1, <1>3, NamesQuiet

(* Only a file with a recognised line is written without a backup being made, *)
(* and that file has one.                                                     *)
LEMMA InstallReadNames ==
    ASSUME IInv, NameInv, NEW p \in Procs, InstallRead(p)
    PROVE  NameInv'
<1> DEFINE l == svc.lines
           m == svc.mode
           x == IF Recognised(svc.lines) THEN "temp" ELSE "backup"
<1>1. proc \in [Procs -> Command] /\ svc \in File
  BY Given DEF FilesTyped
<1>2. /\ svc # NoFile /\ proc[p].pc = "read" /\ proc[p].cmd = "install"
      /\ svc' = svc /\ bak' = bak /\ UNCHANGED <<clash, moved>>
  BY DEF InstallRead, Readable, Here, NoFileChange, histVars
<1>3. l \in Seq(Lines) /\ m \in {"none", "0600", Mode}
  BY <1>1, <1>2, FileFields
<1>4. x \in PCs /\ (x = "temp" \/ x = "backup") /\ (x = "temp" <=> Recognised(svc.lines))
  BY DEF PCs
<1>5. proc' = [proc EXCEPT ![p].seen = l, ![p].mode = m, ![p].pc = x]
  BY DEF InstallRead
<1> HIDE DEF l, m, x
<1>6. Others(p) /\ proc'[p].pc = x /\ proc'[p].cmd = "install"
  BY <1>1, <1>2, <1>3, <1>4, <1>5 DEF Others, Command
<1>7. ASSUME ~clash, ~moved PROVE NameTell(svc, bak) /\ Names(proc'[p], svc, bak)
  <2>1. NameTell(svc, bak)
    BY <1>7, NamesGiven
  <2>2. Recognised(svc.lines) => bak # NoFile
    BY <2>1, UnnamedFacts DEF NameTell
  <2> QED
    BY <1>4, <1>6, <2>1, <2>2 DEF Names
<1> QED
  BY <1>2, <1>6, <1>7, NamesMove

LEMMA BackupNames ==
    ASSUME IInv, NameInv, NEW p \in Procs, BackupFree(p) \/ BackupOpen(p)
    PROVE  NameInv'
<1>1. /\ proc[p].cmd = "install" /\ proc[p].pc \in {"backup", "open"}
      /\ svc' = svc /\ UNCHANGED <<clash, moved>>
      /\ \/ proc[p].pc = "backup" /\ bak = NoFile /\ bak' = bak /\ Step(p, "open")
         \/ proc[p].pc = "open" /\ bak'.lines = <<>> /\ Step(p, "copy")
  BY DEF BackupFree, BackupOpen, Here, NoFileChange, histVars
<1>2. "open" \in PCs /\ "copy" \in PCs
  BY DEF PCs
<1>3. Others(p) /\ proc'[p].pc \in {"open", "copy"} /\ proc'[p].cmd = "install"
  BY <1>1, <1>2, Given, StepFacts DEF SameFields
<1>4. ASSUME ~clash, ~moved PROVE NameTell(svc, bak') /\ Names(proc'[p], svc, bak')
  <2>1. NameTell(svc, bak) /\ Names(proc[p], svc, bak)
    BY <1>1, <1>4, NamesGiven
  <2>2. Unnamed(svc.lines) /\ Unnamed(bak'.lines)
    BY <1>1, <2>1, UnnamedFacts DEF NameTell, Names
  <2> QED
    BY <1>3, <2>1, <2>2 DEF NameTell, Names
<1> QED
  BY <1>1, <1>3, <1>4, NamesMove

LEMMA BackupCopyNames ==
    ASSUME IInv, NameInv, NEW p \in Procs, BackupCopy(p)
    PROVE  NameInv'
<1> DEFINE b == [svc EXCEPT !.synced = FALSE]
<1>1. /\ proc[p].pc = "copy" /\ proc[p].cmd = "install" /\ Step(p, "temp")
      /\ svc' = svc /\ bak' = b /\ UNCHANGED <<clash, moved>>
  BY DEF BackupCopy, Here
<1>2. proc \in [Procs -> Command] /\ svc \in File /\ Fits(proc[p], svc)
  BY Given DEF FilesTyped
<1>3. svc \in Content
  BY <1>1, <1>2, FileFields DEF Fits
<1>4. b \in Content /\ b.lines = svc.lines
  BY <1>3 DEF Content
<1> HIDE DEF b
<1>5. b # NoFile
  BY <1>4, ContentIsFile
<1>6. "temp" \in PCs
  BY DEF PCs
<1>7. Others(p) /\ proc'[p].pc = "temp" /\ proc'[p].cmd = "install"
  BY <1>1, <1>2, <1>6, StepFacts DEF SameFields
<1>8. ASSUME ~clash, ~moved PROVE NameTell(svc, b) /\ Names(proc'[p], svc, b)
  <2>1. NameTell(svc, bak) /\ Unnamed(svc.lines)
    BY <1>1, <1>8, NamesGiven DEF Names
  <2> QED
    BY <1>4, <1>5, <1>7, <2>1 DEF NameTell, Names
<1> QED
  BY <1>1, <1>7, <1>8, NamesMove

LEMMA WriteTempNames ==
    ASSUME IInv, NameInv, NEW p \in Procs, WriteTemp(p)
    PROVE  NameInv'
<1> DEFINE n == NewContents(proc[p])
           m == proc[p].mode
           t == [lines |-> n, mode |-> m, whole |-> TRUE, synced |-> TRUE]
           e == <<>>
<1>1. /\ proc[p].pc = "temp" /\ proc[p].cmd = "install"
      /\ svc' = svc /\ bak' = bak /\ UNCHANGED <<clash, moved>>
  BY DEF WriteTemp, Here, NoFileChange, histVars
<1>2. proc \in [Procs -> Command] /\ proc[p] \in Command /\ Fits(proc[p], svc)
  BY Given
<1>3. n \in Seq(Lines) /\ m = Mode /\ e \in Seq(Lines)
  BY <1>1, <1>2, NewContentsFacts, EmptyFacts DEF Fits
<1>4. proc' = [proc EXCEPT ![p].tmp = t, ![p].seen = e, ![p].pc = "persist"]
  BY DEF WriteTemp
<1>5. ASSUME ~clash, ~moved PROVE NameTell(svc, bak) /\ bak # NoFile /\ SyauthOnce(n)
  <2>1. /\ NameTell(svc, bak) /\ bak # NoFile /\ (Recognised(svc.lines) \/ Unnamed(svc.lines))
        /\ proc[p].seen = svc.lines
    BY <1>1, <1>5, NamesGiven DEF Names, KnowsFiles
  <2>2. SyauthOnce(proc[p].seen)
    BY <2>1 DEF NameTell
  <2> QED
    BY <1>2, <2>1, <2>2, NewContentsNames
<1> HIDE DEF n, m, e
<1>6. t \in Content /\ t.lines = n
  BY <1>3 DEF Content
<1> HIDE DEF t
<1>7. t \in File
  BY <1>6, ContentIsFile
<1>8. Others(p) /\ proc'[p].tmp = t /\ proc'[p].pc = "persist" /\ proc'[p].cmd = "install"
  BY <1>1, <1>2, <1>3, <1>4, <1>7 DEF Others, Command, PCs
<1>9. ~clash /\ ~moved => NameTell(svc, bak) /\ Names(proc'[p], svc, bak)
  BY <1>5, <1>6, <1>8 DEF Names
<1> QED
  BY <1>1, <1>8, <1>9, NamesMove

LEMMA PersistNames ==
    ASSUME IInv, NameInv, NEW p \in Procs, Persist(p)
    PROVE  NameInv'
<1>1. /\ proc[p].pc = "persist" /\ proc[p].cmd = "install" /\ PamDone(p)
      /\ svc' = proc[p].tmp /\ bak' = bak /\ UNCHANGED <<clash, moved>>
  BY DEF Persist, Here, histVars
<1>2. Others(p) /\ proc'[p].pc \in {"idle", "unit"}
  BY <1>1, Given, PamDoneFacts
<1>3. Names(proc'[p], svc', bak')
  BY <1>2, NamesLittle
<1>4. ASSUME ~clash, ~moved PROVE NameTell(svc', bak')
  <2>1. NameTell(svc, bak) /\ Names(proc[p], svc, bak)
    BY <1>1, <1>4, NamesGiven
  <2> QED
    BY <1>1, <2>1 DEF NameTell, Names
<1> QED
  BY <1>1, <1>2, <1>3, <1>4, NamesMove

LEMMA RestoreTempNames ==
    ASSUME IInv, NameInv, NEW p \in Procs, RestoreTemp(p)
    PROVE  NameInv'
<1> DEFINE t == [bak EXCEPT !.mode = svc.mode, !.synced = TRUE]
<1>1. /\ proc[p].pc = "backup" /\ proc[p].cmd = "uninstall" /\ bak # NoFile
      /\ proc' = [proc EXCEPT ![p].tmp = t, ![p].pc = "persist"]
      /\ svc' = svc /\ bak' = bak /\ UNCHANGED <<clash, moved>>
  BY DEF RestoreTemp, Here, NoFileChange, histVars
<1>2. /\ proc \in [Procs -> Command] /\ Fits(proc[p], svc)
      /\ svc \in File /\ bak \in File /\ FileFits(svc)
  BY Given DEF FilesTyped
<1>3. svc.mode = Mode /\ bak \in Content
  BY <1>1, <1>2, FileFields DEF FileFits, Fits
<1>4. t \in Content /\ t.lines = bak.lines
  BY <1>3 DEF Content
<1> HIDE DEF t
<1>5. t \in File
  BY <1>4, ContentIsFile
<1>6. Others(p) /\ proc'[p].tmp = t /\ proc'[p].pc = "persist" /\ proc'[p].cmd = "uninstall"
  BY <1>1, <1>2, <1>5 DEF Others, Command, PCs
<1>7. ASSUME ~clash, ~moved PROVE NameTell(svc, bak) /\ Names(proc'[p], svc, bak)
  <2>1. NameTell(svc, bak)
    BY <1>7, NamesGiven
  <2> QED
    BY <1>4, <1>6, <2>1 DEF NameTell, Names
<1> QED
  BY <1>1, <1>6, <1>7, NamesMove

LEMMA RestorePersistNames ==
    ASSUME IInv, NameInv, NEW p \in Procs, RestorePersist(p)
    PROVE  NameInv'
<1> DEFINE f == NoFile
<1>1. /\ proc[p].pc = "persist" /\ proc[p].cmd = "uninstall"
      /\ proc' = [proc EXCEPT ![p].tmp = f, ![p].pc = "remove"]
      /\ svc' = proc[p].tmp /\ bak' = bak /\ UNCHANGED <<clash, moved>>
  BY DEF RestorePersist, Here
<1>2. proc \in [Procs -> Command]
  BY Given
<1>3. f \in File
  BY NoFileFacts
<1> HIDE DEF f
<1>4. Others(p) /\ proc'[p].pc = "remove" /\ proc'[p].cmd = "uninstall"
  BY <1>1, <1>2, <1>3 DEF Others, Command, PCs
<1>5. ASSUME ~clash, ~moved PROVE NameTell(svc', bak') /\ Names(proc'[p], svc', bak')
  <2>1. NameTell(svc, bak) /\ Unnamed(svc'.lines)
    BY <1>1, <1>5, NamesGiven DEF Names
  <2> QED
    BY <1>1, <1>4, <2>1, UnnamedFacts DEF NameTell, Names
<1> QED
  BY <1>1, <1>4, <1>5, NamesMove

LEMMA RemoveBackupNames ==
    ASSUME IInv, NameInv, NEW p \in Procs, RemoveBackup(p)
    PROVE  NameInv'
<1>1. /\ proc[p].pc = "remove" /\ proc[p].cmd = "uninstall" /\ End(p)
      /\ svc' = svc /\ bak' = NoFile /\ UNCHANGED <<clash, moved>>
  BY DEF RemoveBackup, Here, histVars
<1>2. Others(p) /\ proc'[p].pc = "idle"
  BY <1>1, Given, EndFacts
<1>3. Names(proc'[p], svc', bak')
  BY <1>2, NamesLittle
<1>4. ASSUME ~clash, ~moved PROVE NameTell(svc', bak')
  <2>1. NameTell(svc, bak) /\ Unnamed(svc.lines)
    BY <1>1, <1>4, NamesGiven DEF Names
  <2>2. Unnamed(NoFile.lines)
    BY UnnamedFacts, NoFileFacts
  <2> QED
    BY <1>1, <2>1, <2>2 DEF NameTell
<1> QED
  BY <1>1, <1>2, <1>3, <1>4, NamesMove

(* A command that starts knows nothing, and is the only one.                  *)
LEMMA BeginNames ==
    ASSUME IInv, NameInv, NEW p \in Procs, NEW cmd, NEW line, NEW u, NEW d, NEW from, NEW dry,
           Begin(p, cmd, line, u, d, from, dry)
    PROVE  NameInv'
<1> DEFINE n == NoCommand
           pc == IF cmd = "daemon" THEN "unit" ELSE "read"
           c == [n EXCEPT !.pc = pc, !.cmd = cmd, !.line = line, !.u2f = u, !.daemon = d,
                          !.from = from, !.dry = dry]
<1>1. /\ proc' = [proc EXCEPT ![p] = c] /\ clash' = (clash \/ Busy # {})
      /\ svc' = svc /\ bak' = bak /\ moved' = moved
  BY DEF Begin
<1>2. n \in Command /\ proc \in [Procs -> Command] /\ pc \in {"unit", "read"}
  BY NoCommandFacts, Given
<1> HIDE DEF n, pc
<1>3. c.pc = pc
  BY <1>2 DEF Command
<1> HIDE DEF c
<1>4. proc'[p] = c /\ \A q \in Procs : q # p => proc'[q] = proc[q]
  BY <1>1, <1>2
<1>5. ~clash' => ~clash /\ \A q \in Procs : proc[q].pc = "idle"
  BY <1>1, NobodyRuns
<1>6. \A q \in Procs : proc'[q].pc # "idle" /\ ~clash' => Names(proc'[q], svc', bak')
  BY <1>2, <1>3, <1>4, <1>5, NamesLittle
<1>7. ~clash' /\ ~moved' => NameTell(svc', bak')
  BY <1>1, <1>5, NamesGiven
<1> QED
  BY <1>6, <1>7, NamesNext

LEMMA EditNames ==
    ASSUME IInv, NameInv, Edit
    PROVE  NameInv'
<1> DEFINE l == Append(svc.lines, "note")
           f == [svc EXCEPT !.lines = l]
<1>1. /\ svc # NoFile /\ svc' = f /\ clash' = (clash \/ Busy # {})
      /\ bak' = bak /\ proc' = proc /\ moved' = moved
  BY DEF Edit
<1>2. svc \in File /\ svc \in Content /\ svc.lines \in Seq(Lines)
  BY <1>1, FileFields, IInvParts DEF TypeOK
<1>3. "note" \in Lines /\ "note" \notin Named
  BY DEF Lines, Named
<1>4. l \in Seq(Lines) /\ Len(l) = Len(svc.lines) + 1
      /\ l[Len(svc.lines) + 1] = "note" /\ \A i \in 1..Len(svc.lines) : l[i] = svc.lines[i]
  BY <1>2, <1>3, AppendFacts
<1> HIDE DEF l
<1>5. /\ Len(svc.lines) \in Nat /\ DOMAIN svc.lines = 1..Len(svc.lines)
      /\ DOMAIN l = 1..(Len(svc.lines) + 1)
  BY <1>2, <1>4, LenProperties
<1>6. \A i \in DOMAIN l : l[i] # "note" => i \in DOMAIN svc.lines /\ svc.lines[i] = l[i]
  BY <1>4, <1>5
<1>7. /\ Unnamed(svc.lines) => Unnamed(l)
      /\ SyauthOnce(svc.lines) => SyauthOnce(l)
  BY <1>3, <1>6 DEF Unnamed, SyauthOnce
<1>8. f.lines = l
  BY <1>2 DEF Content
<1> HIDE DEF f
<1>9. ~clash' => ~clash /\ \A q \in Procs : proc[q].pc = "idle"
  BY <1>1, NobodyRuns
<1>10. ASSUME ~clash', ~moved' PROVE NameTell(svc', bak')
  <2>1. NameTell(svc, bak)
    BY <1>1, <1>9, <1>10 DEF NameInv, NameTell
  <2> QED
    BY <1>1, <1>7, <1>8, <2>1 DEF NameTell
<1>11. ~clash' => \A q \in Procs : proc'[q].pc = "idle"
  BY <1>1, <1>9
<1> QED
  BY <1>10, <1>11, NamesNext

LEMMA PowerLossNames ==
    ASSUME IInv, NameInv, PowerLoss
    PROVE  NameInv'
<1>1. /\ svc' \in Surviving(svc) /\ bak' \in Surviving(bak)
      /\ proc' = [q \in Procs |-> NoCommand] /\ clash' = clash /\ moved' = moved
  BY DEF PowerLoss
<1>2. svc \in File /\ bak \in File /\ FileFits(bak)
  BY IInvParts DEF TypeOK
<1>3. bak' = NoFile => bak = NoFile
  BY <1>1, <1>2, SurvivingFacts
<1>4. ASSUME NEW f \in File, NEW g \in Surviving(f) PROVE g.lines = f.lines \/ g.lines = <<>>
  <2> DEFINE e == <<>>
  <2>1. g = f \/ (f # NoFile /\ g = [f EXCEPT !.whole = FALSE, !.lines = e])
    BY <1>4 DEF Surviving
  <2>2. f # NoFile => f \in Content
    BY FileFields
  <2> HIDE DEF e
  <2>3. g.lines = f.lines \/ g.lines = e
    BY <2>1, <2>2 DEF Content
  <2> QED
    BY <2>3 DEF e
<1>5. /\ svc'.lines = svc.lines \/ svc'.lines = <<>>
      /\ bak'.lines = bak.lines \/ bak'.lines = <<>>
  BY <1>1, <1>2, <1>4
<1>6. ASSUME ~clash', ~moved' PROVE NameTell(svc', bak')
  <2>1. NameTell(svc, bak)
    BY <1>1, <1>6 DEF NameInv, NameTell
  <2> QED
    BY <1>3, <1>5, <2>1, UnnamedFacts DEF NameTell
<1>7. \A q \in Procs : proc'[q].pc = "idle"
  BY <1>1, NoCommandFacts
<1> QED
  BY <1>6, <1>7, NamesNext

LEMMA InitNames == Init => NameInv
<1> SUFFICES ASSUME Init PROVE NameInv
  OBVIOUS
<1>1. bak = NoFile /\ proc = [p \in Procs |-> NoCommand]
  BY DEF Init
<1>2. Unnamed(svc.lines)
  <2>1. svc = NoFile \/ \E l \in {Original, <<"note">>, <<"latin1", "auth">>} :
           svc = [lines |-> l, mode |-> Mode, whole |-> TRUE, synced |-> TRUE]
    BY DEF Init
  <2>2. CASE svc = NoFile
    BY <2>2, NoFileFacts, UnnamedFacts
  <2>3. ASSUME NEW l \in {Original, <<"note">>, <<"latin1", "auth">>},
               svc = [lines |-> l, mode |-> Mode, whole |-> TRUE, synced |-> TRUE]
        PROVE  Unnamed(svc.lines)
    <3>1. l = Original \/ l = <<"note">> \/ l = <<"latin1", "auth">>
      OBVIOUS
    <3>2. svc.lines = l /\ \A i \in DOMAIN l : l[i] \notin Ours
      BY <2>3, <3>1, NewFileFacts
    <3> QED
      BY <3>2 DEF Unnamed, Named, Ours
  <2> QED
    BY <2>1, <2>2, <2>3
<1>3. Unnamed(bak.lines) /\ SyauthOnce(svc.lines)
  BY <1>1, <1>2, NoFileFacts, UnnamedFacts
<1>4. \A p \in Procs : proc[p].pc = "idle"
  BY <1>1, NoCommandFacts
<1> QED
  BY <1>2, <1>3, <1>4 DEF NameInv, Busy

LEMMA StepNames == IInv /\ NameInv /\ [Next]_vars => NameInv'
<1> SUFFICES ASSUME IInv, NameInv, [Next]_vars PROVE NameInv'
  OBVIOUS
<1>1. ASSUME NEW p \in Procs, InstallStep(p) PROVE NameInv'
  BY <1>1, ReadingNames, InstallReadNames, EndingNames, BackupNames, BackupCopyNames,
     WriteTempNames, PersistNames DEF InstallStep
<1>2. ASSUME NEW p \in Procs, UninstallStep(p) PROVE NameInv'
  BY <1>2, EndingNames, ReadingNames, RestoreTempNames, RestorePersistNames, RemoveBackupNames
     DEF UninstallStep
<1>3. ASSUME NEW p \in Procs, DaemonStep(p) PROVE NameInv'
  BY <1>3, EndingNames, DaemonNames DEF DaemonStep
<1>4. ASSUME NEW p \in Procs, StartCommand(p) PROVE NameInv'
  BY <1>4, BeginNames DEF StartCommand
<1>5. ASSUME NEW p \in Procs, Unreadable(p) \/ Stops(p) PROVE NameInv'
  BY <1>5, EndingNames
<1>6. CASE MoveAside
  BY <1>6 DEF MoveAside, NameInv
<1>7. CASE Edit \/ PowerLoss
  BY <1>7, EditNames, PowerLossNames
<1>8. CASE UNCHANGED vars
  BY <1>8 DEF vars, NameInv, Busy, NameKnows
<1> QED
  BY <1>1, <1>2, <1>3, <1>4, <1>5, <1>6, <1>7, <1>8 DEF Next

(* Nothing but an edit and a restored backup touches the histories.           *)
LEMMA StepHistory == HistoryInv /\ [Next]_vars => HistoryInv'
<1> SUFFICES ASSUME HistoryInv, [Next]_vars PROVE HistoryInv'
  OBVIOUS
<1> DEFINE Same == kept' = kept /\ admin' = admin /\ dropped' = dropped
<1>1. ASSUME NEW p \in Procs, InstallStep(p) PROVE Same
  BY <1>1 DEF InstallStep, AlreadyInstalled, InstallRead, BackupExists, BackupFree, BackupOpen,
     BackupCopy, WriteTemp, Persist, NoFileChange, histVars
<1>2. ASSUME NEW p \in Procs, UninstallStep(p), ~RestorePersist(p) PROVE Same
  BY <1>2 DEF UninstallStep, NotInstalled, UninstallRead, BackupMissing, RestoreTemp, RemoveBackup,
     NoFileChange, histVars
<1>3. ASSUME NEW p \in Procs, DaemonStep(p) PROVE Same
  BY <1>3 DEF DaemonStep, WriteUnit, DaemonUnresolved, OpenBinary, BinaryBusy, FillBinary,
     DaemonReload, EnableNow, NoFileChange, histVars
<1>4. ASSUME NEW p \in Procs, StartCommand(p) \/ Unreadable(p) \/ Stops(p) PROVE Same
  BY <1>4 DEF StartCommand, Begin, Unreadable, Stops, NoFileChange, histVars
<1>5. CASE MoveAside \/ PowerLoss
  BY <1>5 DEF MoveAside, PowerLoss, HistoryInv
<1>6. CASE Edit
  BY <1>6 DEF Edit, HistoryInv
<1>7. ASSUME NEW p \in Procs, RestorePersist(p) PROVE HistoryInv'
  BY <1>7 DEF RestorePersist, HistoryInv
<1>8. CASE UNCHANGED vars
  BY <1>8 DEF vars, HistoryInv
<1>9. Same => HistoryInv'
  BY DEF HistoryInv
<1> QED
  BY <1>1, <1>2, <1>3, <1>4, <1>5, <1>6, <1>7, <1>8, <1>9 DEF Next

-----------------------------------------------------------------------------
(* The inductive invariant of the installers holds in every reachable state.  *)
THEOREM Inductive == Spec => []IInv
  BY InitIInv, StepIInv, PTL DEF Spec

(* However many commands overlap, install-pam never puts a second recognised  *)
(* syauth line or a second fallback into the stack; and as long as they do    *)
(* not, and nobody moves a backup aside, the stack never names pam_syauth     *)
(* twice in any form, also after commands that stopped half way and after a   *)
(* power loss.                                                                *)
THEOREM StackNamesUsOnce == Spec => []NamedOnce
<1>1. IInv /\ NameInv => NamedOnce
  BY DEF IInv, NameInv, NamedOnce, FileFits
<1>2. Spec => []NameInv
  BY InitNames, StepNames, Inductive, PTL DEF Spec
<1> QED
  BY <1>1, <1>2, Inductive, PTL

(* The service file keeps its mode always, and, wherever a command that ran   *)
(* alone stopped, is whole with the administrator's lines in their order:     *)
(* every line they ever had there, unless an uninstall put back a backup that *)
(* is older than an edit, and then what that left of them.                    *)
THEOREM AdministratorsLinesStay == Spec => []ServiceKept
<1>1. IInv /\ HistoryInv => ServiceKept
  BY DEF IInv, HistoryInv, ServiceKept, FileFits, FilesTell
<1>2. Init => HistoryInv
  BY DEF Init, HistoryInv
<1>3. Spec => []HistoryInv
  BY <1>2, StepHistory, PTL DEF Spec
<1> QED
  BY <1>1, <1>3, Inductive, PTL

(* As long as syauth is wired in there is a complete backup to go back to,    *)
(* and it is the file as it was before syauth.                                *)
THEOREM InstallCanBeUndone == Spec => []Undoable
<1>1. IInv => Undoable
  <2> SUFFICES ASSUME IInv, ~clash
               PROVE  /\ ~dark /\ ~moved /\ Recognised(svc.lines) => bak # NoFile /\ bak.whole
                      /\ bak # NoFile /\ bak.whole =>
                            ~Recognised(bak.lines) /\ (~dark => AdminLinesAre(bak.lines, snap))
    BY DEF Undoable
  <2>1. FilesTell
    BY DEF IInv
  <2> QED
    BY <2>1 DEF FilesTell
<1> QED
  BY <1>1, Inductive, PTL

(* install-presenced enables the unit only when systemd has read the unit     *)
(* file that is there and the binary it names is complete.                    *)
THEOREM UnitIsRunnable == Spec => EnabledRunnable
<1>1. IInv /\ [Next]_vars => [EnableStep]_vars
  <2> SUFFICES ASSUME IInv, Next, systemd'.enabled, ~systemd.enabled, ~clash
               PROVE  systemd'.exec = unit /\ (unit = "libexec" => bin = "whole")
    BY DEF EnableStep
  <2>1. systemd' # systemd
    OBVIOUS
  <2>2. PICK p \in Procs : DaemonReload(p) \/ EnableNow(p)
    <3>1. ASSUME NEW p \in Procs, InstallStep(p) \/ UninstallStep(p) \/ StartCommand(p)
                                  \/ Unreadable(p) \/ Stops(p)
          PROVE  systemd' = systemd
      BY <3>1 DEF InstallStep, UninstallStep, StartCommand, Unreadable, Stops, AlreadyInstalled,
         InstallRead, BackupExists, BackupFree, BackupOpen, BackupCopy, WriteTemp, Persist,
         NotInstalled, UninstallRead, BackupMissing, RestoreTemp, RestorePersist, RemoveBackup,
         Begin, NoFileChange, daemonVars
    <3>2. ASSUME NEW p \in Procs, WriteUnit(p) \/ DaemonUnresolved(p) \/ OpenBinary(p)
                                  \/ BinaryBusy(p) \/ FillBinary(p)
          PROVE  systemd' = systemd
      BY <3>2 DEF WriteUnit, DaemonUnresolved, OpenBinary, BinaryBusy, FillBinary, NoFileChange,
         daemonVars
    <3>3. Edit \/ MoveAside \/ PowerLoss => systemd' = systemd
      BY DEF Edit, MoveAside, PowerLoss, daemonVars
    <3> QED
      BY <2>1, <3>1, <3>2, <3>3 DEF Next, DaemonStep
  <2>3. DaemonTyped /\ (proc[p].pc # "idle" => KnowsDaemon(proc[p], unit, bin, systemd))
    BY Given
  <2>4. CASE DaemonReload(p)
    <3>1. systemd'.enabled = systemd.enabled
      BY <2>3, <2>4 DEF DaemonReload, DaemonTyped
    <3> QED
      BY <3>1
  <2>5. CASE EnableNow(p)
    <3>1. proc[p].pc = "enable" /\ systemd'.exec = systemd.exec
      BY <2>3, <2>5 DEF EnableNow, OnDaemonPart, DaemonTyped
    <3> QED
      BY <2>3, <3>1 DEF KnowsDaemon
  <2> QED
    BY <2>2, <2>4, <2>5
<1> QED
  BY <1>1, Inductive, PTL DEF Spec, EnabledRunnable
===============================================================================
