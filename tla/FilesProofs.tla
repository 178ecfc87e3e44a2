----------------------------- MODULE FilesProofs -----------------------------
(***************************************************************************)
(* Loading and saving, proved for any number of files, buffers, windows,   *)
(* failing calls and writes by other programs: a signal, at whatever call  *)
(* of a save it comes, loses no text, and no buffer is closed without its  *)
(* text being stored, unless the user has said so.                         *)
(*                                                                         *)
(* The module first has what the operations do to the lists of buffers and *)
(* windows, then the invariant, which says of each buffer that counts as   *)
(* unchanged where its text is, then one lemma per step.                   *)
(***************************************************************************)
EXTENDS Files, SequenceTheorems, FiniteSetTheorems, WellFoundedInduction, TLAPS

----------------------------------------------------------------------------
(* Lists.                                                                  *)

(* A set of numbers that is not empty has a least one: an order without    *)
(* endless descents has minimal elements.                                  *)
LEMMA LeastNumber ==
  ASSUME NEW T \in SUBSET Nat, T # {}
  PROVE  \E m \in T : \A k \in T : m <= k
<1> DEFINE R == {ss \in Nat \X Nat : ss[1] < ss[2]}
<1>1. IsWellFoundedOn(R, Nat)
  BY NatLessThanWellFounded DEF OpToRel
<1> HIDE DEF R
<1>2. \E x \in T : \A y \in T : ~ (<<y, x>> \in R)
  BY <1>1, WFMin
<1>3. PICK x \in T : \A y \in T : ~ (<<y, x>> \in R)
  BY <1>2
<1>4. \A y \in T : ~(y < x)
  <2>1. SUFFICES ASSUME NEW y \in T, y < x PROVE FALSE
    BY <2>1
  <2>2. <<y, x>> \in R
    BY <2>1 DEF R
  <2> QED
    BY <2>2, <1>3
<1>5. \A y \in T : x <= y
  BY <1>4
<1> QED
  BY <1>5

(* The members of a list are what stands at its places.                    *)
LEMMA Members ==
  ASSUME NEW S, NEW s \in Seq(S)
  PROVE  /\ Len(s) \in Nat /\ DOMAIN s = 1..Len(s)
         /\ \A x : x \in ToSet(s) <=> \E i \in 1..Len(s) : s[i] = x
         /\ \A x \in ToSet(s) : x \in S
         /\ s # <<>> => Len(s) > 0
<1>1. Len(s) \in Nat /\ DOMAIN s = 1..Len(s) /\ \A i \in 1..Len(s) : s[i] \in S
  BY LenProperties, ElementOfSeq
<1>2. \A x : x \in ToSet(s) <=> \E i \in 1..Len(s) : s[i] = x
  BY <1>1 DEF ToSet
<1>3. s # <<>> => Len(s) > 0
  BY <1>1, EmptySeq
<1> QED
  BY <1>1, <1>2, <1>3

(* Lists with the same elements at their places have the same members.    *)
LEMMA SameMembers ==
  ASSUME NEW S, NEW s \in Seq(S), NEW d \in Seq(S),
         \A x : (\E i \in 1..Len(d) : d[i] = x) <=> (\E i \in 1..Len(s) : s[i] = x)
  PROVE  ToSet(d) = ToSet(s)
<1>1. \A x : x \in ToSet(s) <=> \E i \in 1..Len(s) : s[i] = x
  BY Members
<1>2. \A x : x \in ToSet(d) <=> \E i \in 1..Len(d) : d[i] = x
  BY Members
<1> QED
  BY <1>1, <1>2

(* RemoveAt takes one element out of a list and leaves the others.         *)
LEMMA CutOut ==
  ASSUME NEW S, NEW s \in Seq(S), NEW i \in 1..Len(s)
  PROVE  /\ RemoveAt(s, i) \in Seq(S) /\ Len(RemoveAt(s, i)) = Len(s) - 1
         /\ \A j \in 1..Len(s) - 1 : RemoveAt(s, i)[j] = IF j < i THEN s[j] ELSE s[j + 1]
<1> DEFINE l == SubSeq(s, 1, i - 1)
           r == SubSeq(s, i + 1, Len(s))
<1>1. Len(s) \in Nat /\ \A j \in 1..Len(s) : s[j] \in S
  BY LenProperties, ElementOfSeq
<1>2. l \in Seq(S) /\ Len(l) = i - 1 /\ \A j \in 1..i - 1 : l[j] = s[j]
  <2>1. \A j \in 1..i - 1 : s[j] \in S
    BY <1>1
  <2>2. /\ l \in Seq(S) /\ Len(l) = IF 1 <= i - 1 THEN (i - 1) - 1 + 1 ELSE 0
        /\ \A j \in 1..(i - 1) - 1 + 1 : l[j] = s[1 + j - 1]
    BY <1>1, <2>1, SubSeqProperties
  <2> HIDE DEF l
  <2> QED
    BY <2>2
<1>3. r \in Seq(S) /\ Len(r) = Len(s) - i /\ \A j \in 1..Len(s) - i : r[j] = s[i + j]
  <2>1. \A j \in i + 1..Len(s) : s[j] \in S
    BY <1>1
  <2>2. /\ r \in Seq(S) /\ Len(r) = IF i + 1 <= Len(s) THEN Len(s) - (i + 1) + 1 ELSE 0
        /\ \A j \in 1..Len(s) - (i + 1) + 1 : r[j] = s[(i + 1) + j - 1]
    BY <1>1, <2>1, SubSeqProperties
  <2> HIDE DEF r
  <2> QED
    BY <2>2, <1>1
<1>4. RemoveAt(s, i) = l \o r
  BY DEF RemoveAt
<1> HIDE DEF l, r
<1> DEFINE c == l \o r
<1>5. /\ c \in Seq(S) /\ Len(c) = Len(l) + Len(r)
      /\ \A j \in 1..Len(l) + Len(r) : c[j] = IF j <= Len(l) THEN l[j] ELSE r[j - Len(l)]
  BY <1>2, <1>3, ConcatProperties
<1> HIDE DEF c
<1>6. Len(c) = Len(s) - 1
  BY <1>1, <1>2, <1>3, <1>5
<1>7. ASSUME NEW j \in 1..Len(s) - 1
      PROVE  c[j] = IF j < i THEN s[j] ELSE s[j + 1]
  <2>1. j \in 1..Len(l) + Len(r)
    BY <1>1, <1>2, <1>3
  <2>2. CASE j < i
    BY <2>1, <2>2, <1>1, <1>2, <1>5
  <2>3. CASE ~(j < i)
    <3>1. j - (i - 1) \in 1..Len(s) - i /\ i + (j - (i - 1)) = j + 1 /\ ~(j <= i - 1)
      BY <1>1, <2>3
    <3>2. c[j] = r[j - (i - 1)]
      BY <2>1, <3>1, <1>2, <1>5
    <3> QED
      BY <3>1, <3>2, <2>3, <1>3
  <2> QED
    BY <2>2, <2>3
<1> QED
  BY <1>4, <1>5, <1>6, <1>7 DEF c

(* InsertAt puts one element into a list and leaves the others.            *)
LEMMA PutIn ==
  ASSUME NEW S, NEW s \in Seq(S), NEW i \in 1..Len(s) + 1, NEW x \in S
  PROVE  /\ InsertAt(s, i, x) \in Seq(S) /\ Len(InsertAt(s, i, x)) = Len(s) + 1
         /\ \A j \in 1..Len(s) + 1 :
              InsertAt(s, i, x)[j] = IF j < i THEN s[j] ELSE IF j = i THEN x ELSE s[j - 1]
<1> DEFINE l == SubSeq(s, 1, i - 1)
           r == SubSeq(s, i, Len(s))
           o == <<x>>
<1>1. Len(s) \in Nat /\ \A j \in 1..Len(s) : s[j] \in S
  BY LenProperties, ElementOfSeq
<1>2. l \in Seq(S) /\ Len(l) = i - 1 /\ \A j \in 1..i - 1 : l[j] = s[j]
  <2>1. \A j \in 1..i - 1 : s[j] \in S
    BY <1>1
  <2>2. /\ l \in Seq(S) /\ Len(l) = IF 1 <= i - 1 THEN (i - 1) - 1 + 1 ELSE 0
        /\ \A j \in 1..(i - 1) - 1 + 1 : l[j] = s[1 + j - 1]
    BY <1>1, <2>1, SubSeqProperties
  <2> HIDE DEF l
  <2> QED
    BY <2>2
<1>3. r \in Seq(S) /\ Len(r) = Len(s) - i + 1 /\ \A j \in 1..Len(s) - i + 1 : r[j] = s[i + j - 1]
  <2>1. \A j \in i..Len(s) : s[j] \in S
    BY <1>1
  <2>2. /\ r \in Seq(S) /\ Len(r) = IF i <= Len(s) THEN Len(s) - i + 1 ELSE 0
        /\ \A j \in 1..Len(s) - i + 1 : r[j] = s[i + j - 1]
    BY <1>1, <2>1, SubSeqProperties
  <2> HIDE DEF r
  <2> QED
    BY <2>2, <1>1
<1>4. o \in Seq(S) /\ Len(o) = 1 /\ o[1] = x
  OBVIOUS
<1>5. InsertAt(s, i, x) = (l \o o) \o r
  BY DEF InsertAt
<1> HIDE DEF l, r, o
<1> DEFINE c == l \o o
<1>6. /\ c \in Seq(S) /\ Len(c) = Len(l) + Len(o)
      /\ \A j \in 1..Len(l) + Len(o) : c[j] = IF j <= Len(l) THEN l[j] ELSE o[j - Len(l)]
  BY <1>2, <1>4, ConcatProperties
<1> HIDE DEF c
<1>7. Len(c) = i /\ \A j \in 1..i : c[j] = IF j < i THEN s[j] ELSE x
  <2>1. Len(c) = i
    BY <1>1, <1>2, <1>4, <1>6
  <2>2. ASSUME NEW j \in 1..i PROVE c[j] = IF j < i THEN s[j] ELSE x
    <3>1. CASE j < i
      BY <3>1, <1>1, <1>2, <1>4, <1>6
    <3>2. CASE ~(j < i)
      <4>1. j - (i - 1) = 1 /\ ~(j <= i - 1) /\ j \in 1..(i - 1) + 1
        BY <1>1, <3>2
      <4> QED
        BY <4>1, <3>2, <1>2, <1>4, <1>6
    <3> QED
      BY <3>1, <3>2
  <2> QED
    BY <2>1, <2>2
<1> DEFINE d == c \o r
<1>8. /\ d \in Seq(S) /\ Len(d) = Len(c) + Len(r)
      /\ \A j \in 1..Len(c) + Len(r) : d[j] = IF j <= Len(c) THEN c[j] ELSE r[j - Len(c)]
  <2>1. c \in Seq(S) /\ r \in Seq(S)
    BY <1>3, <1>6
  <2> QED
    BY <2>1, ConcatProperties
<1> HIDE DEF d
<1>9. Len(d) = Len(s) + 1
  BY <1>1, <1>3, <1>7, <1>8
<1>10. ASSUME NEW j \in 1..Len(s) + 1
       PROVE  d[j] = IF j < i THEN s[j] ELSE IF j = i THEN x ELSE s[j - 1]
  <2>1. j \in 1..Len(c) + Len(r)
    BY <1>1, <1>3, <1>7
  <2>2. CASE j <= i
    BY <2>1, <2>2, <1>1, <1>7, <1>8
  <2>3. CASE ~(j <= i)
    <3>1. j - i \in 1..Len(s) - i + 1 /\ i + (j - i) - 1 = j - 1 /\ ~(j < i) /\ j # i
      BY <1>1, <2>3
    <3>2. d[j] = r[j - i]
      BY <2>1, <2>3, <1>7, <1>8
    <3> QED
      BY <3>1, <3>2, <1>3
  <2> QED
    BY <2>2, <2>3
<1> QED
  BY <1>5, <1>8, <1>9, <1>10 DEF c, d

(* First finds a member of the set if the list has one.                    *)
LEMMA FirstFound ==
  ASSUME NEW S, NEW s \in Seq(S), NEW T, NEW x \in ToSet(s), x \in T
  PROVE  /\ Place(s, T) \in 1..Len(s) /\ s[Place(s, T)] \in T
         /\ First(s, T) \in ToSet(s) /\ First(s, T) \in T
<1> DEFINE P == {i \in 1..Len(s) : s[i] \in T}
<1>1. Len(s) \in Nat /\ DOMAIN s = 1..Len(s)
  BY Members
<1>2. P \in SUBSET Nat /\ P # {}
  BY <1>1, Members
<1>3. PICK m \in P : \A k \in P : m <= k
  BY <1>2, LeastNumber
<1>4. m \in 1..Len(s) /\ s[m] \in T
  BY <1>3
<1>5. \A j \in 1..(m - 1) : s[j] \notin T
  <2>1. SUFFICES ASSUME NEW j \in 1..(m - 1), s[j] \in T PROVE FALSE
    BY <2>1
  <2>2. j \in P /\ ~(m <= j)
    BY <2>1, <1>1, <1>4
  <2> QED
    BY <2>2, <1>3
<1>6. Place(s, T) \in DOMAIN s /\ s[Place(s, T)] \in T
  BY <1>1, <1>4, <1>5 DEF Place
<1>7. First(s, T) \in ToSet(s) /\ First(s, T) \in T
  BY <1>1, <1>6, Members DEF First
<1> QED
  BY <1>1, <1>6, <1>7

(* A list turned by one place, either way, has the members that it had.    *)
LEMMA TurnedList ==
  ASSUME NEW S, NEW s \in Seq(S), s # <<>>
  PROVE  /\ <<Last(s)>> \o Front(s) \in Seq(S) /\ <<Last(s)>> \o Front(s) # <<>>
         /\ ToSet(<<Last(s)>> \o Front(s)) = ToSet(s)
<1> DEFINE o == <<Last(s)>>
           f == Front(s)
           n == Len(s)
           d == o \o f
<1>1. n \in Nat /\ n > 0 /\ \A i \in 1..n : s[i] \in S
  BY Members, ElementOfSeq
<1>2. n \in 1..n /\ n - 1 \in Nat
  BY <1>1
<1>3. o \in Seq(S) /\ Len(o) = 1 /\ o[1] = s[n]
  BY <1>1, <1>2 DEF Last
<1>4. f \in Seq(S) /\ Len(f) = n - 1 /\ \A i \in 1..n - 1 : f[i] = s[i]
  <2>1. \A i \in 1..n - 1 : s[i] \in S
    BY <1>1
  <2>2. /\ f \in Seq(S) /\ Len(f) = IF 1 <= n - 1 THEN (n - 1) - 1 + 1 ELSE 0
        /\ \A i \in 1..(n - 1) - 1 + 1 : f[i] = s[1 + i - 1]
    BY <1>1, <2>1, SubSeqProperties DEF Front
  <2> HIDE DEF f, n
  <2> QED
    BY <2>2, <1>1
<1> HIDE DEF o, f
<1>5. o \in Seq(S) /\ f \in Seq(S)
  BY <1>3, <1>4
<1>6. /\ d \in Seq(S) /\ Len(d) = Len(o) + Len(f)
      /\ \A i \in 1..Len(o) + Len(f) : d[i] = IF i <= Len(o) THEN o[i] ELSE f[i - Len(o)]
  BY <1>5, ConcatProperties
<1> HIDE DEF d, n
<1>7. Len(d) = n /\ d[1] = s[n] /\ \A i \in 2..n : d[i] = s[i - 1]
  <2>1. Len(d) = n
    BY <1>1, <1>3, <1>4, <1>6
  <2>2. d[1] = s[n]
    BY <1>1, <1>3, <1>4, <1>6
  <2>3. ASSUME NEW i \in 2..n PROVE d[i] = s[i - 1]
    <3>1. i \in 1..1 + (n - 1) /\ ~(i <= 1) /\ i - 1 \in 1..n - 1
      BY <1>1
    <3> QED
      BY <3>1, <1>3, <1>4, <1>6
  <2> QED
    BY <2>1, <2>2, <2>3
<1>8. \A x : (\E i \in 1..Len(d) : d[i] = x) <=> (\E i \in 1..Len(s) : s[i] = x)
  <2>1. ASSUME NEW i \in 1..n PROVE \E j \in 1..n : s[j] = d[i]
    <3>1. CASE i = 1
      BY <3>1, <1>2, <1>7
    <3>2. CASE i # 1
      <4>1. i \in 2..n /\ i - 1 \in 1..n
        BY <3>2, <1>1
      <4> QED
        BY <4>1, <1>7
    <3> QED
      BY <3>1, <3>2
  <2>2. ASSUME NEW i \in 1..n PROVE \E j \in 1..n : d[j] = s[i]
    <3>1. CASE i = n
      <4>1. 1 \in 1..n
        BY <1>1
      <4> QED
        BY <4>1, <3>1, <1>7
    <3>2. CASE i # n
      <4>1. i + 1 \in 2..n /\ i + 1 \in 1..n /\ (i + 1) - 1 = i
        BY <3>2, <1>1
      <4> QED
        BY <4>1, <1>7
    <3> QED
      BY <3>1, <3>2
  <2> QED
    BY <2>1, <2>2, <1>7 DEF n
<1>9. d # <<>>
  BY <1>1, <1>7, EmptySeq
<1>10. ToSet(d) = ToSet(s)
  BY <1>6, <1>8, SameMembers
<1> QED
  BY <1>6, <1>9, <1>10 DEF d, o, f

(* The other way round.                                                   *)
LEMMA TurnedBack ==
  ASSUME NEW S, NEW s \in Seq(S), s # <<>>
  PROVE  /\ Append(Tail(s), Head(s)) \in Seq(S) /\ Append(Tail(s), Head(s)) # <<>>
         /\ ToSet(Append(Tail(s), Head(s))) = ToSet(s)
<1> DEFINE t == Tail(s)
           h == Head(s)
           n == Len(s)
           d == Append(t, h)
<1>1. n \in Nat /\ n > 0
  BY Members
<1>2. /\ t \in Seq(S) /\ Len(t) = n - 1 /\ h \in S
      /\ \A i \in 1..Len(t) : t[i] = s[i + 1]
  BY HeadTailProperties
<1>3. h = s[1]
  BY <1>1
<1> HIDE DEF t, h
<1>4. t \in Seq(S) /\ h \in S
  BY <1>2
<1>5. /\ d \in Seq(S) /\ d # <<>> /\ Len(d) = Len(t) + 1
      /\ \A i \in 1..Len(t) : d[i] = t[i]
      /\ d[Len(t) + 1] = h
  BY <1>4, AppendProperties
<1> HIDE DEF d, n
<1>6. Len(d) = n /\ d[n] = s[1] /\ \A i \in 1..n - 1 : d[i] = s[i + 1]
  BY <1>1, <1>2, <1>3, <1>5
<1>7. \A x : (\E i \in 1..Len(d) : d[i] = x) <=> (\E i \in 1..Len(s) : s[i] = x)
  <2>1. ASSUME NEW i \in 1..n PROVE \E j \in 1..n : s[j] = d[i]
    <3>1. CASE i = n
      <4>1. 1 \in 1..n
        BY <1>1
      <4> QED
        BY <4>1, <3>1, <1>6
    <3>2. CASE i # n
      <4>1. i \in 1..n - 1 /\ i + 1 \in 1..n
        BY <3>2, <1>1
      <4> QED
        BY <4>1, <1>6
    <3> QED
      BY <3>1, <3>2
  <2>2. ASSUME NEW i \in 1..n PROVE \E j \in 1..n : d[j] = s[i]
    <3>1. CASE i = 1
      <4>1. n \in 1..n
        BY <1>1
      <4> QED
        BY <4>1, <3>1, <1>6
    <3>2. CASE i # 1
      <4>1. i - 1 \in 1..n - 1 /\ i - 1 \in 1..n /\ (i - 1) + 1 = i
        BY <3>2, <1>1
      <4> QED
        BY <4>1, <1>6
    <3> QED
      BY <3>1, <3>2
  <2> QED
    <3>1. Len(d) = n /\ Len(s) = n
      BY <1>6 DEF n
    <3> QED
      BY <3>1, <2>1, <2>2
<1>8. ToSet(d) = ToSet(s)
  BY <1>5, <1>7, SameMembers
<1> QED
  BY <1>5, <1>8 DEF d, t, h

(* How many numbers there are from 1 on.                                   *)
LEMMA UpTo ==
  ASSUME NEW n \in Nat
  PROVE  IsFiniteSet(1..n) /\ Cardinality(1..n) = n
<1>1. 1 \in Int /\ n \in Int
  OBVIOUS
<1>2. IsFiniteSet(1..n) /\ Cardinality(1..n) = IF 1 > n THEN 0 ELSE n - 1 + 1
  BY <1>1, FS_Interval
<1> QED
  BY <1>2

(* A list shorter than the numbers that it may hold lacks one of them.     *)
LEMMA OneUnused ==
  ASSUME NEW m \in Nat, NEW s \in Seq(1..m), Len(s) < m
  PROVE  \E b \in 1..m : b \notin ToSet(s)
<1>1. Len(s) \in Nat /\ DOMAIN s = 1..Len(s) /\ \A x \in ToSet(s) : x \in 1..m
  BY Members
<1>2. IsFiniteSet(1..Len(s)) /\ Cardinality(1..Len(s)) = Len(s)
  BY <1>1, UpTo
<1>3. s \in Surjection(1..Len(s), ToSet(s))
  <2>1. s \in [1..Len(s) -> 1..m]
    BY LenProperties
  <2>2. \A x : x \in ToSet(s) <=> \E i \in 1..Len(s) : s[i] = x
    BY Members
  <2>3. s \in [1..Len(s) -> ToSet(s)]
    BY <2>1, <2>2
  <2> QED
    BY <2>2, <2>3 DEF Surjection
<1>4. Cardinality(ToSet(s)) <= Len(s) /\ IsFiniteSet(ToSet(s))
  BY <1>2, <1>3, FS_Surjection
<1>5. IsFiniteSet(1..m) /\ Cardinality(1..m) = m
  BY UpTo
<1>6. Cardinality(ToSet(s)) # m
  <2>1. Cardinality(ToSet(s)) \in Nat
    BY <1>4, FS_CardinalityType
  <2> QED
    BY <2>1, <1>1, <1>4
<1>7. ToSet(s) # 1..m
  BY <1>5, <1>6
<1> QED
  BY <1>1, <1>7

----------------------------------------------------------------------------
(* The invariant.                                                          *)

Times(t) == [Names -> [text : Int, time : 0..t]]
Buffers ==
  [name : Names \cup {NoName}, text : Int, changed : BOOLEAN, backup : BOOLEAN, time : Int,
   er : {"none", "open", "read", "new"}, base : Int, own : SUBSET Int, cut : BOOLEAN]
Jobs ==
  [pc : {"idle", "asked", "unlink", "copy", "open", "write", "stat"}, name : Names \cup {NoName},
   callback : {"none", "query", "exit"}, first : Int, rename : BOOLEAN, not_saved : BOOLEAN,
   agreed : BOOLEAN]
Questions == {"save", "exists", "newer", "nobackup", "lose", "keep", "reload"}
Editors ==
  [buf : [1..MaxBufs -> Buffers], bufs : Seq(1..MaxBufs), win : Seq(1..MaxBufs), cur : Int,
   ask : Questions \cup {"none"}, job : Jobs, msg : {"none yet", "all", "some", "none"},
   over : {"no", "left", "killed"}, nobackups : BOOLEAN]

(* Each window shows a buffer of the list.                                 *)
Layout(e) ==
  /\ e \in Editors /\ e.cur \in 1..Len(e.win)
  /\ \A i \in 1..Len(e.win) : e.win[i] \in ToSet(e.bufs)

(* Each buffer that counts as unchanged has its text in its file, or some  *)
(* other program or buffer has written that file since, or a write of it   *)
(* has failed; what a buffer knows of its file is in the past.             *)
Dated(r, t) == r.base \in {-1} \cup 1..t /\ r.own \subseteq 1..t /\ r.time <= t
Kept(r, d) ==
  \/ r.text \in {Blank, Torn} \/ r.cut
  \/ r.name # NoName /\ (d[r.name].text = r.text \/ d[r.name].time \notin r.own \cup {r.base})
BufferRight(r, d, t) == Dated(r, t) /\ (r.changed \/ Kept(r, d))
BuffersRight(e, d, t) == \A b \in 1..MaxBufs : BufferRight(e.buf[b], d, t)
(* But for the one that is being saved to its own file, when the file is   *)
(* open and not written yet.                                               *)
InGap(e, b) == e.job.pc = "write" /\ b = Here(e) /\ e.buf[b].name = e.job.name
AlmostRight(e, d, t) ==
  \A b \in 1..MaxBufs : BufferRight(e.buf[b], d, t) \/ (InGap(e, b) /\ Dated(e.buf[b], t))
DiskRight(d, t) == d \in Times(t) /\ \A n \in Names : d[n] = Missing \/ d[n].time >= 1

(* What a save under way has done so far.  The write of a file makes it    *)
(* newer than what any other buffer knows.                                 *)
Calls == {"unlink", "copy", "open", "write", "stat"}
Saving(e) == e.job.pc \in Calls \/ e.ask \in {"exists", "newer", "nobackup"}
Closes(e) == e.job.callback = "exit" => e.job.rename \/ e.job.name = Buf(e).name
Writing(e, d, t) ==
  /\ d[e.job.name].time = t
  /\ \A b \in 1..MaxBufs : b # Here(e) => t \notin e.buf[b].own \cup {e.buf[b].base}
JobRight(e, d, t) ==
  /\ e.ask # "none" <=> e.job.pc = "asked"
  /\ Saving(e) => e.job.name \in Names /\ Closes(e)
  /\ e.ask = "save" => e.job.callback = "query"
  /\ e.ask = "reload" => e.job.name \in Names
  /\ e.job.pc \in {"unlink", "copy"} => Buf(e).name \in Names
  /\ e.job.pc = "write" => Writing(e, d, t)
  /\ e.job.pc = "stat" => d[e.job.name].text = Buf(e).text

FilesInv ==
  /\ now \in Nat \ {0} /\ plan \in Scenarios
  /\ DiskRight(disk, now) /\ bak \in Times(now)
  /\ Layout(ed) /\ AlmostRight(ed, disk, now) /\ JobRight(ed, disk, now)
  /\ ed.over = "killed" => \A b \in Live : ed.buf[b].changed => ed.buf[b].text \in dead

----------------------------------------------------------------------------
(* Questions: the buffers and windows stay as they are.                    *)

Stays(e, f) ==
  /\ f.buf = e.buf /\ f.bufs = e.bufs /\ f.win = e.win /\ f.cur = e.cur
  /\ f.over = e.over /\ f.nobackups = e.nobackups
Quiet(e) == e.ask = "none" /\ e.job = Idle

(* What stays is laid out as before.                                       *)
LEMMA StaysLaidOut ==
  ASSUME NEW e, Layout(e), NEW f \in Editors, Stays(e, f)
  PROVE  Layout(f) /\ Here(f) = Here(e) /\ Buf(f) = Buf(e)
BY DEF Layout, Stays, Here, Buf

(* The current buffer is one of the list.                                  *)
LEMMA HereIsBuffer ==
  ASSUME NEW e, Layout(e)
  PROVE  Here(e) \in 1..MaxBufs /\ Here(e) \in ToSet(e.bufs) /\ Buf(e) \in Buffers /\ Buf(e) = e.buf[Here(e)]
<1>1. e.bufs \in Seq(1..MaxBufs) /\ e.buf \in [1..MaxBufs -> Buffers]
  BY DEF Layout, Editors
<1>2. Here(e) \in ToSet(e.bufs)
  BY DEF Layout, Here
<1>3. Here(e) \in 1..MaxBufs
  BY <1>1, <1>2, Members
<1> QED
  BY <1>1, <1>2, <1>3 DEF Buf, Here

(* What a save that is not under way is made of.                           *)
LEMMA IdleIsJob == Idle \in Jobs
BY DEF Idle, Jobs

(* What a buffer that is not in use is made of.                            *)
LEMMA FreeIsBuffer == Free \in Buffers
BY DEF Free, Buffers, Blank

(* Nothing is under way once a question is dropped.                        *)
LEMMA DroppedStays ==
  ASSUME NEW e \in Editors
  PROVE  Dropped(e) \in Editors /\ Stays(e, Dropped(e)) /\ Quiet(Dropped(e))
BY IdleIsJob DEF Dropped, Stays, Quiet, Editors

(* The same at the end of querysave, with its message.                     *)
LEMMA MessageStays ==
  ASSUME NEW e \in Editors, NEW m \in {"none yet", "all", "some", "none"}
  PROVE  /\ genexmsgmulti(e, m) \in Editors /\ Stays(e, genexmsgmulti(e, m))
         /\ Quiet(genexmsgmulti(e, m))
BY DroppedStays, IdleIsJob DEF genexmsgmulti, Dropped, Stays, Quiet, Editors

(* A question waits: the rest of the save is as it was.                    *)
LEMMA WaitsStays ==
  ASSUME NEW e \in Editors, NEW q \in Questions
  PROVE  /\ Waits(e, q) \in Editors /\ Stays(e, Waits(e, q))
         /\ Waits(e, q).ask = q /\ Waits(e, q).job = [e.job EXCEPT !.pc = "asked"]
BY DEF Waits, Stays, Editors, Jobs

(* A save starts with the question whether to overwrite, or with a call.   *)
LEMMA dosaveStarts ==
  ASSUME NEW e, Layout(e)
  PROVE  /\ dosave(e) \in Editors /\ Stays(e, dosave(e)) /\ dosave(e).ask = "none"
         /\ \E p \in {"open", "unlink"} :
              /\ dosave(e).job = [e.job EXCEPT !.pc = p]
              /\ p = "unlink" => Buf(e).name \in Names
<1>1. e \in Editors /\ Buf(e) \in Buffers
  BY HereIsBuffer DEF Layout
<1>2. dosave(e) \in Editors /\ Stays(e, dosave(e)) /\ dosave(e).ask = "none"
  BY <1>1 DEF dosave, Stays, Editors, Jobs
<1>3. dosave(e).job = [e.job EXCEPT !.pc = IF backup(e) THEN "open" ELSE "unlink"]
  BY <1>1 DEF dosave, Editors
<1>4. ~backup(e) => Buf(e).name \in Names
  BY <1>1 DEF backup, Buffers
<1> QED
  BY <1>2, <1>3, <1>4

(* With the name that was given for the file.                              *)
LEMMA dosave1Starts ==
  ASSUME NEW e, Layout(e), NEW n \in Names, e.ask = "none", NEW d, NEW t,
         e.job.callback = "exit" => e.job.rename \/ n = Buf(e).name
  PROVE  /\ Layout(dosave1(e, n)) /\ Stays(e, dosave1(e, n)) /\ JobRight(dosave1(e, n), d, t)
<1> DEFINE e1 == [e EXCEPT !.job.name = n]
           f == dosave1(e, n)
<1>1. e \in Editors
  BY DEF Layout
<1>2. /\ e1 \in Editors /\ Stays(e, e1) /\ e1.ask = "none"
      /\ e1.job \in Jobs /\ e1.job = [e.job EXCEPT !.name = n] /\ e1.job.name = n
  BY <1>1 DEF Editors, Jobs, Stays
<1> HIDE DEF e1
<1>3. Layout(e1) /\ Here(e1) = Here(e) /\ Buf(e1) = Buf(e)
  BY <1>2, StaysLaidOut
<1>4. e1.job.callback = "exit" => e1.job.rename \/ e1.job.name = Buf(e1).name
  BY <1>1, <1>2, <1>3 DEF Editors, Jobs
<1>5. f = dosave(e1) \/ \E q \in {"exists", "newer"} : f = Waits(e1, q)
  BY DEF dosave1, e1
<1> HIDE DEF f
<1>6. CASE f = dosave(e1)
  <2>1. f \in Editors /\ Stays(e1, f) /\ f.ask = "none"
    BY <1>6, <1>3, dosaveStarts
  <2>2. PICK p \in {"open", "unlink"} :
          f.job = [e1.job EXCEPT !.pc = p] /\ (p = "unlink" => Buf(e1).name \in Names)
    BY <1>6, <1>3, dosaveStarts
  <2>3. Layout(f) /\ Buf(f) = Buf(e1)
    BY <2>1, <1>3, StaysLaidOut
  <2>4. f.job.pc = p /\ f.job.name = n /\ f.job.callback = e1.job.callback /\ f.job.rename = e1.job.rename
    BY <2>2, <1>2 DEF Jobs
  <2>5. JobRight(f, d, t)
    BY <2>1, <2>2, <2>3, <2>4, <1>2, <1>4 DEF JobRight, Saving, Calls, Closes
  <2> QED
    BY <2>1, <2>3, <2>5, <1>2 DEF Stays, f
<1>7. CASE \E q \in {"exists", "newer"} : f = Waits(e1, q)
  <2>1. PICK q \in {"exists", "newer"} : f = Waits(e1, q)
    BY <1>7
  <2>2. /\ f \in Editors /\ Stays(e1, f) /\ f.ask = q /\ f.job = [e1.job EXCEPT !.pc = "asked"]
    <3>1. q \in Questions /\ e1 \in Editors
      BY <1>2 DEF Questions
    <3> QED
      BY <2>1, <3>1, WaitsStays
  <2>3. Layout(f) /\ Buf(f) = Buf(e1)
    BY <2>2, <1>3, StaysLaidOut
  <2>4. /\ f.job.pc = "asked" /\ f.job.name = n /\ f.job.callback = e1.job.callback
        /\ f.job.rename = e1.job.rename
    BY <2>2, <1>2 DEF Jobs
  <2>5. JobRight(f, d, t)
    BY <2>2, <2>3, <2>4, <1>2, <1>4 DEF JobRight, Saving, Calls, Closes
  <2> QED
    BY <2>2, <2>3, <2>5, <1>2 DEF Stays, f
<1> QED
  BY <1>5, <1>6, <1>7

----------------------------------------------------------------------------
(* Windows and the list of buffers.                                        *)

(* What an operation on windows and buffers leaves of the editor.          *)
Shares(e, f) == f.ask = e.ask /\ f.job = e.job
Frees(e, f) == \A b \in 1..MaxBufs : f.buf[b] = e.buf[b] \/ f.buf[b] = Free
Stay(e, f) == \A b \in ToSet(e.bufs) : b \in ToSet(f.bufs)
AllButOne(e, f, x) == \A b \in ToSet(e.bufs) : b \in ToSet(f.bufs) \/ b = x

(* Some other window shows the current buffer too.                         *)
Twice(e) == \E j \in 1..Len(e.win) : j # e.cur /\ e.win[j] = Here(e)

(* The count of a buffer says whether a window shows it, and whether only  *)
(* one does.                                                               *)
LEMMA Counts ==
  ASSUME NEW e \in Editors, NEW b
  PROVE  /\ count(e, b) \in Nat
         /\ count(e, b) = 0 <=> \A i \in 1..Len(e.win) : e.win[i] # b
         /\ \A i \in 1..Len(e.win) :
              e.win[i] = b /\ count(e, b) # 1 => \E j \in 1..Len(e.win) : j # i /\ e.win[j] = b
<1> DEFINE S == {i \in 1..Len(e.win) : e.win[i] = b}
<1>1. Len(e.win) \in Nat /\ DOMAIN e.win = 1..Len(e.win)
  <2>1. e.win \in Seq(1..MaxBufs)
    BY DEF Editors
  <2> QED
    BY <2>1, Members
<1>2. IsFiniteSet(S)
  <2>1. IsFiniteSet(1..Len(e.win)) /\ S \in SUBSET (1..Len(e.win))
    BY <1>1, UpTo
  <2> QED
    BY <2>1, FS_Subset
<1>3. count(e, b) = Cardinality(S)
  BY <1>1 DEF count
<1>4. Cardinality(S) \in Nat /\ (Cardinality(S) = 0 <=> S = {})
  BY <1>2, FS_CardinalityType, FS_EmptySet
<1>5. ASSUME NEW i \in 1..Len(e.win), e.win[i] = b, \A j \in 1..Len(e.win) : j = i \/ e.win[j] # b
      PROVE  Cardinality(S) = 1
  <2>1. S = {i}
    BY <1>5
  <2> QED
    BY <2>1, FS_Singleton
<1> QED
  BY <1>3, <1>4, <1>5

(* The buffer of the current window, shown more than once.                 *)
LEMMA CountTwice ==
  ASSUME NEW e \in Editors, e.cur \in 1..Len(e.win), e.win[e.cur] = Here(e),
         count(e, Here(e)) # 1
  PROVE  Twice(e)
<1>1. \A i \in 1..Len(e.win) :
        e.win[i] = Here(e) /\ count(e, Here(e)) # 1 =>
          \E j \in 1..Len(e.win) : j # i /\ e.win[j] = Here(e)
  BY Counts
<1> QED
  BY <1>1 DEF Twice

(* brm takes a buffer that no window shows out of the list.                *)
LEMMA brmTakesOut ==
  ASSUME NEW e, Layout(e), NEW b \in ToSet(e.bufs)
  PROVE  /\ Layout(brm(e, b)) /\ Shares(e, brm(e, b)) /\ Frees(e, brm(e, b))
         /\ AllButOne(e, brm(e, b), b) /\ brm(e, b).over = e.over
         /\ count(e, b) # 0 => brm(e, b) = e
<1>1. e \in Editors /\ e.bufs \in Seq(1..MaxBufs) /\ e.win \in Seq(1..MaxBufs)
  BY DEF Layout, Editors
<1>2. count(e, b) \in Nat
  BY <1>1, Counts
<1>3. CASE count(e, b) # 0
  <2>1. brm(e, b) = e
    BY <1>2, <1>3 DEF brm
  <2> QED
    BY <2>1 DEF Shares, Frees, AllButOne
<1>4. CASE count(e, b) = 0
  <2> DEFINE i == Place(e.bufs, {b})
             l == RemoveAt(e.bufs, i)
             f == [e EXCEPT !.bufs = l, !.buf[b] = Free]
  <2>1. brm(e, b) = f
    BY <1>4 DEF brm
  <2>2. i \in 1..Len(e.bufs) /\ e.bufs[i] = b
    BY <1>1, FirstFound
  <2> HIDE DEF i
  <2>3. /\ l \in Seq(1..MaxBufs) /\ Len(l) = Len(e.bufs) - 1
        /\ \A j \in 1..Len(e.bufs) - 1 : l[j] = IF j < i THEN e.bufs[j] ELSE e.bufs[j + 1]
    BY <1>1, <2>2, CutOut
  <2> HIDE DEF l
  <2>4. f \in Editors
    BY <1>1, <2>3, FreeIsBuffer DEF Editors
  <2>5. /\ f.bufs = l /\ f.win = e.win /\ f.cur = e.cur /\ f.over = e.over
        /\ f.ask = e.ask /\ f.job = e.job
    BY <1>1 DEF Editors
  <2>6. Frees(e, f)
    BY <1>1 DEF Frees, Editors
  <2> HIDE DEF f
  <2>7. ASSUME NEW x \in ToSet(e.bufs), x # b PROVE x \in ToSet(l)
    <3>1. PICK k \in 1..Len(e.bufs) : e.bufs[k] = x
      BY <1>1, Members
    <3>2. Len(e.bufs) \in Nat /\ k # i
      BY <1>1, <2>2, <2>7, <3>1, Members
    <3>3. \E j \in 1..Len(l) : l[j] = x
      <4>1. CASE k < i
        <5>1. k \in 1..Len(e.bufs) - 1
          BY <4>1, <3>2, <2>2
        <5> QED
          BY <5>1, <4>1, <3>1, <2>3
      <4>2. CASE ~(k < i)
        <5>1. k - 1 \in 1..Len(e.bufs) - 1 /\ ~(k - 1 < i) /\ (k - 1) + 1 = k
          BY <4>2, <3>2, <2>2
        <5> QED
          BY <5>1, <3>1, <2>3
      <4> QED
        BY <4>1, <4>2
    <3> QED
      BY <3>3, <2>3, Members
  <2>8. \A j \in 1..Len(e.win) : e.win[j] \in ToSet(l)
    BY <1>1, <1>4, <2>7, Counts DEF Layout
  <2>9. Layout(f)
    BY <2>4, <2>5, <2>8 DEF Layout
  <2> QED
    BY <1>4, <2>1, <2>5, <2>6, <2>7, <2>9 DEF Shares, AllButOne
<1> QED
  BY <1>3, <1>4

(* A window takes another buffer; the one that it had goes if no other     *)
(* window shows it.                                                        *)
LEMMA InPlaceTakesOut ==
  ASSUME NEW e, Layout(e), NEW b \in ToSet(e.bufs)
  PROVE  /\ Layout(InPlace(e, b)) /\ Shares(e, InPlace(e, b)) /\ Frees(e, InPlace(e, b))
         /\ AllButOne(e, InPlace(e, b), Here(e)) /\ InPlace(e, b).over = e.over
         /\ Twice(e) => Stay(e, InPlace(e, b))
<1> DEFINE g == [e EXCEPT !.win[e.cur] = b]
           h == Here(e)
<1>1. /\ e \in Editors /\ e.bufs \in Seq(1..MaxBufs) /\ e.win \in Seq(1..MaxBufs)
      /\ e.cur \in 1..Len(e.win)
  BY DEF Layout, Editors
<1>2. b \in 1..MaxBufs /\ h \in ToSet(e.bufs)
  BY <1>1, Members, HereIsBuffer
<1>3. /\ [e.win EXCEPT ![e.cur] = b] \in Seq(1..MaxBufs)
      /\ Len([e.win EXCEPT ![e.cur] = b]) = Len(e.win)
      /\ \A j \in 1..Len(e.win) : [e.win EXCEPT ![e.cur] = b][j] = IF j = e.cur THEN b ELSE e.win[j]
  BY <1>1, <1>2, ExceptSeq
<1>4. /\ g.win = [e.win EXCEPT ![e.cur] = b] /\ g.bufs = e.bufs /\ g.buf = e.buf /\ g.cur = e.cur
      /\ g.ask = e.ask /\ g.job = e.job /\ g.over = e.over
  BY <1>1 DEF Editors
<1>5. g \in Editors
  BY <1>1, <1>3 DEF Editors
<1>6. InPlace(e, b) = brm(g, h)
  BY DEF InPlace
<1> HIDE DEF g, h
<1>7. Layout(g) /\ h \in ToSet(g.bufs)
  BY <1>1, <1>2, <1>3, <1>4, <1>5 DEF Layout
<1>8. /\ Layout(brm(g, h)) /\ Shares(g, brm(g, h)) /\ Frees(g, brm(g, h))
      /\ AllButOne(g, brm(g, h), h) /\ brm(g, h).over = g.over
      /\ count(g, h) # 0 => brm(g, h) = g
  BY <1>7, brmTakesOut
<1>9. Twice(e) => count(g, h) # 0
  <2>1. SUFFICES ASSUME Twice(e) PROVE count(g, h) # 0
    OBVIOUS
  <2>2. PICK j \in 1..Len(e.win) : j # e.cur /\ e.win[j] = h
    BY <2>1 DEF Twice, h
  <2>3. j \in 1..Len(g.win) /\ g.win[j] = h
    BY <2>2, <1>3, <1>4
  <2> QED
    BY <2>3, <1>5, Counts
<1> QED
  BY <1>4, <1>6, <1>8, <1>9 DEF Shares, Frees, AllButOne, Stay, h

(* doedit1 loses a buffer only if it has no name and no changes.           *)
LEMMA doedit1Shows ==
  ASSUME NEW e, Layout(e), NEW b \in ToSet(e.bufs), NEW reload \in BOOLEAN
  PROVE  /\ Layout(doedit1(e, b, reload)) /\ Shares(e, doedit1(e, b, reload))
         /\ Frees(e, doedit1(e, b, reload)) /\ AllButOne(e, doedit1(e, b, reload), Here(e))
         /\ doedit1(e, b, reload).over = e.over
         /\ \/ Stay(e, doedit1(e, b, reload))
            \/ ~Buf(e).changed /\ Buf(e).name = NoName
<1> DEFINE f == doedit1(e, b, reload)
           aside == /\ reload \/ (b # Here(e) /\ count(e, Here(e)) = 1)
                    /\ Buf(e).changed \/ Buf(e).name # NoName
<1>1. /\ e \in Editors /\ e.bufs \in Seq(1..MaxBufs) /\ e.win \in Seq(1..MaxBufs)
      /\ e.cur \in 1..Len(e.win) /\ Len(e.win) \in Nat
  <2>1. e \in Editors /\ e.bufs \in Seq(1..MaxBufs) /\ e.win \in Seq(1..MaxBufs) /\ e.cur \in 1..Len(e.win)
    BY DEF Layout, Editors
  <2> QED
    BY <2>1, Members
<1>2. b \in 1..MaxBufs
  BY <1>1, Members
<1>3. CASE aside
  <2> DEFINE k == e.cur + 1
             w == InsertAt(e.win, k, b)
             g == [e EXCEPT !.win = w, !.cur = @ + 1]
  <2>1. f = g
    BY <1>3 DEF doedit1, k
  <2>2. k \in 1..Len(e.win) + 1 /\ e.cur + 1 \in Int
    BY <1>1
  <2> HIDE DEF k
  <2>3. /\ w \in Seq(1..MaxBufs) /\ Len(w) = Len(e.win) + 1
        /\ \A j \in 1..Len(e.win) + 1 :
             w[j] = IF j < k THEN e.win[j] ELSE IF j = k THEN b ELSE e.win[j - 1]
    <3> DEFINE S == 1..MaxBufs
               v == e.win
    <3>1. v \in Seq(S) /\ b \in S /\ k \in 1..Len(v) + 1
      BY <1>1, <1>2, <2>2
    <3> HIDE DEF S, v
    <3>2. /\ InsertAt(v, k, b) \in Seq(S) /\ Len(InsertAt(v, k, b)) = Len(v) + 1
          /\ \A j \in 1..Len(v) + 1 :
               InsertAt(v, k, b)[j] = IF j < k THEN v[j] ELSE IF j = k THEN b ELSE v[j - 1]
      BY <3>1, PutIn
    <3> QED
      BY <3>2 DEF S, v
  <2> HIDE DEF w
  <2>4. g \in Editors
    <3>1. e \in Editors /\ w \in Seq(1..MaxBufs)
      BY <1>1, <2>3
    <3> QED
      BY <3>1, <2>2 DEF Editors
  <2>5. /\ g.win = w /\ g.cur = e.cur + 1 /\ g.bufs = e.bufs /\ g.buf = e.buf
        /\ g.ask = e.ask /\ g.job = e.job /\ g.over = e.over
    BY <1>1 DEF Editors
  <2> HIDE DEF g
  <2>6. ASSUME NEW j \in 1..Len(w) PROVE w[j] \in ToSet(e.bufs)
    <3>1. j \in 1..Len(e.win) + 1
      BY <2>3
    <3>0. k = e.cur + 1
      BY DEF k
    <3>2. CASE j < k
      <4>1. j \in 1..Len(e.win)
        BY <3>0, <3>1, <3>2, <1>1
      <4> QED
        BY <4>1, <3>1, <3>2, <2>3 DEF Layout
    <3>3. CASE j = k
      BY <3>0, <3>1, <3>3, <2>3, <1>1
    <3>4. CASE j > k
      <4>1. j - 1 \in 1..Len(e.win) /\ ~(j < k) /\ j # k
        BY <3>0, <3>1, <3>4, <1>1
      <4> QED
        BY <4>1, <3>1, <2>3 DEF Layout
    <3> QED
      BY <3>0, <3>1, <3>2, <3>3, <3>4, <1>1
  <2>7. g.cur \in 1..Len(g.win)
    BY <1>1, <2>3, <2>5
  <2>8. Layout(g)
    BY <2>4, <2>5, <2>6, <2>7 DEF Layout
  <2> QED
    BY <2>1, <2>5, <2>8 DEF Shares, Frees, AllButOne, Stay
<1>4. CASE ~aside /\ b = Here(e)
  <2>1. f = e
    BY <1>4 DEF doedit1
  <2> QED
    BY <2>1 DEF Shares, Frees, AllButOne, Stay
<1>5. CASE ~aside /\ b # Here(e)
  <2>1. f = InPlace(e, b)
    BY <1>5 DEF doedit1
  <2>2. /\ Layout(f) /\ Shares(e, f) /\ Frees(e, f) /\ AllButOne(e, f, Here(e)) /\ f.over = e.over
        /\ Twice(e) => Stay(e, f)
    BY <2>1, InPlaceTakesOut
  <2>3. Buf(e).changed \in BOOLEAN
    BY HereIsBuffer DEF Buffers
  <2>4. (~Buf(e).changed /\ Buf(e).name = NoName) \/ count(e, Here(e)) # 1
    BY <1>5, <2>3
  <2>5. count(e, Here(e)) # 1 => Twice(e)
    <3>1. e \in Editors /\ e.cur \in 1..Len(e.win) /\ e.win[e.cur] = Here(e)
      BY <1>1 DEF Here
    <3> QED
      BY <3>1, CountTwice
  <2> QED
    BY <2>2, <2>4, <2>5
<1> QED
  BY <1>3, <1>4, <1>5

(* unbuf and upbuf turn the list and leave the buffers.                    *)
Moves(e, f) ==
  /\ Layout(f) /\ Shares(e, f) /\ f.buf = e.buf /\ ToSet(f.bufs) = ToSet(e.bufs)
  /\ f.cur = e.cur /\ f.over = e.over /\ f.nobackups = e.nobackups

(* The list has the current buffer at least.                               *)
LEMMA ListIsNotEmpty ==
  ASSUME NEW e, Layout(e)
  PROVE  e.bufs # <<>>
<1>1. e.bufs \in Seq(1..MaxBufs) /\ Here(e) \in ToSet(e.bufs)
  BY HereIsBuffer DEF Layout, Editors
<1>2. PICK i \in 1..Len(e.bufs) : e.bufs[i] = Here(e)
  BY <1>1, Members
<1> QED
  BY <1>2, EmptySeq

(* A list of the same buffers, or a window on another buffer of the list.  *)
LEMMA ListMoves ==
  ASSUME NEW e, Layout(e), NEW l \in Seq(1..MaxBufs), ToSet(l) = ToSet(e.bufs)
  PROVE  Moves(e, [e EXCEPT !.bufs = l])
<1> DEFINE g == [e EXCEPT !.bufs = l]
<1>1. e \in Editors
  BY DEF Layout
<1>2. g \in Editors
  BY <1>1 DEF Editors
<1>3. /\ g.win = e.win /\ g.bufs = l /\ g.buf = e.buf /\ g.cur = e.cur /\ g.ask = e.ask
      /\ g.job = e.job /\ g.over = e.over /\ g.nobackups = e.nobackups
  BY <1>1 DEF Editors
<1> HIDE DEF g
<1>4. Moves(e, g)
  BY <1>2, <1>3 DEF Moves, Layout, Shares
<1> QED
  BY <1>4 DEF g

(* A window takes another buffer of the list.                              *)
LEMMA WindowMoves ==
  ASSUME NEW e, Layout(e), NEW b \in ToSet(e.bufs)
  PROVE  Moves(e, [e EXCEPT !.win[e.cur] = b])
<1> DEFINE g == [e EXCEPT !.win[e.cur] = b]
           w == [e.win EXCEPT ![e.cur] = b]
<1>1. /\ e \in Editors /\ e.bufs \in Seq(1..MaxBufs) /\ e.win \in Seq(1..MaxBufs)
      /\ e.cur \in 1..Len(e.win)
  BY DEF Layout, Editors
<1>2. b \in 1..MaxBufs
  BY <1>1, Members
<1>3. w \in Seq(1..MaxBufs) /\ Len(w) = Len(e.win) /\ \A j \in 1..Len(e.win) : w[j] = IF j = e.cur THEN b ELSE e.win[j]
  BY <1>1, <1>2, ExceptSeq
<1>4. /\ g.win = w /\ g.bufs = e.bufs /\ g.buf = e.buf /\ g.cur = e.cur /\ g.ask = e.ask
      /\ g.job = e.job /\ g.over = e.over /\ g.nobackups = e.nobackups
  BY <1>1 DEF Editors
<1>5. g \in Editors
  BY <1>1, <1>3 DEF Editors
<1> HIDE DEF g, w
<1>6. Moves(e, g)
  BY <1>1, <1>3, <1>4, <1>5 DEF Moves, Layout, Shares
<1> QED
  BY <1>6 DEF g

(* One move after another is a move.                                       *)
LEMMA MovesOn ==
  ASSUME NEW e, NEW f, NEW g, Moves(e, f), Moves(f, g)
  PROVE  Moves(e, g)
BY DEF Moves, Shares

(* The list turned by one place, and its new first buffer.                 *)
LEMMA TurnedMoves ==
  ASSUME NEW e, Layout(e)
  PROVE  /\ Moves(e, Turned(e)) /\ Head(Turned(e).bufs) \in ToSet(Turned(e).bufs)
<1> DEFINE S == 1..MaxBufs
           l == <<Last(e.bufs)>> \o Front(e.bufs)
<1>1. e \in Editors /\ e.bufs \in Seq(S) /\ e.bufs # <<>>
  BY ListIsNotEmpty DEF Layout, Editors
<1> HIDE DEF S
<1>2. l \in Seq(S) /\ l # <<>> /\ ToSet(l) = ToSet(e.bufs)
  BY <1>1, TurnedList
<1> HIDE DEF l
<1>3. Turned(e) = [e EXCEPT !.bufs = l] /\ Turned(e).bufs = l
  BY <1>1 DEF Turned, l, Editors
<1>4. Moves(e, Turned(e))
  BY <1>2, <1>3, ListMoves DEF S
<1>5. Head(l) \in ToSet(l)
  <2>1. Len(l) \in Nat /\ Len(l) > 0 /\ Head(l) = l[1]
    BY <1>2, Members
  <2> QED
    BY <2>1, <1>2, Members
<1> QED
  BY <1>3, <1>4, <1>5

(* nbuf and pbuf.                                                          *)
LEMMA unbufMoves ==
  ASSUME NEW e, Layout(e)
  PROVE  Moves(e, unbuf(e))
<1> DEFINE e1 == Turned(e)
           e2 == IF Head(e1.bufs) = Here(e) THEN Turned(e1) ELSE e1
<1>1. Moves(e, e1) /\ Head(e1.bufs) \in ToSet(e1.bufs) /\ Layout(e1)
  BY TurnedMoves DEF Moves
<1>2. Moves(e1, Turned(e1)) /\ Head(Turned(e1).bufs) \in ToSet(Turned(e1).bufs)
  BY <1>1, TurnedMoves
<1> HIDE DEF e1
<1>3. Moves(e, e2) /\ Head(e2.bufs) \in ToSet(e2.bufs)
  BY <1>1, <1>2, MovesOn
<1>4. unbuf(e) = [e2 EXCEPT !.win[e.cur] = Head(e2.bufs)]
  BY DEF unbuf, e1
<1> HIDE DEF e2
<1>5. e2.cur = e.cur /\ Layout(e2)
  BY <1>3 DEF Moves
<1>6. Moves(e2, [e2 EXCEPT !.win[e2.cur] = Head(e2.bufs)])
  BY <1>3, <1>5, WindowMoves
<1> QED
  BY <1>3, <1>4, <1>5, <1>6, MovesOn

(* The other way round, by one place or two.                               *)
LEMMA upbufMoves ==
  ASSUME NEW e, Layout(e)
  PROVE  Moves(e, upbuf(e))
<1> DEFINE Back(x) == [x EXCEPT !.bufs = Append(Tail(@), Head(@))]
           S == 1..MaxBufs
<1>1. ASSUME NEW x, Layout(x)
      PROVE  Moves(x, Back(x)) /\ Last(Back(x).bufs) \in ToSet(Back(x).bufs)
  <2> DEFINE l == Append(Tail(x.bufs), Head(x.bufs))
  <2>1. x \in Editors /\ x.bufs \in Seq(S) /\ x.bufs # <<>>
    BY <1>1, ListIsNotEmpty DEF Layout, Editors
  <2> HIDE DEF S
  <2>2. l \in Seq(S) /\ l # <<>> /\ ToSet(l) = ToSet(x.bufs)
    BY <2>1, TurnedBack
  <2>3. Back(x) = [x EXCEPT !.bufs = l] /\ Back(x).bufs = l
    BY <2>1 DEF Editors
  <2> HIDE DEF l, Back
  <2>4. Moves(x, Back(x))
    BY <1>1, <2>2, <2>3, ListMoves DEF S
  <2>5. Last(l) \in ToSet(l)
    <3>1. Len(l) \in Nat /\ Len(l) > 0 /\ Last(l) = l[Len(l)]
      BY <2>2, Members DEF Last
    <3>2. Len(l) \in 1..Len(l)
      BY <3>1
    <3> QED
      BY <3>1, <3>2, <2>2, Members
  <2> QED
    BY <2>3, <2>4, <2>5
<1> DEFINE e1 == Back(e)
           e2 == IF Last(e1.bufs) = Here(e) THEN Back(e1) ELSE e1
<1>2. upbuf(e) = [e2 EXCEPT !.win[e.cur] = Last(e2.bufs)]
  BY DEF upbuf
<1> HIDE DEF Back
<1>3. Moves(e, e1) /\ Last(e1.bufs) \in ToSet(e1.bufs)
  BY <1>1
<1>4. Layout(e1)
  BY <1>3 DEF Moves
<1>5. Moves(e1, Back(e1)) /\ Last(Back(e1).bufs) \in ToSet(Back(e1).bufs)
  BY <1>1, <1>4
<1> HIDE DEF e1
<1>6. Moves(e, e2) /\ Last(e2.bufs) \in ToSet(e2.bufs)
  BY <1>3, <1>5, MovesOn
<1> HIDE DEF e2
<1>7. e2.cur = e.cur /\ Layout(e2)
  BY <1>6 DEF Moves
<1>8. Moves(e2, [e2 EXCEPT !.win[e2.cur] = Last(e2.bufs)])
  BY <1>6, <1>7, WindowMoves
<1> QED
  BY <1>2, <1>6, <1>7, <1>8, MovesOn

(* The way to the next modified buffer is a row of such moves, as long as  *)
(* the list at most.  The row, which the model defines by recursion, is    *)
(* there for every length: there is no shortest one that is not.           *)
LEMMA NextModifiedMoves ==
  ASSUME NEW e, Layout(e), NEW first
  PROVE  Moves(e, NextModified(e, first))
<1> DEFINE On(x) == IF Found(x, first) THEN x ELSE unbuf(x)
           Row(f, m) == [k \in 0..m |-> IF k = 0 THEN unbuf(e)
                                        ELSE IF Found(f[k - 1], first) THEN f[k - 1] ELSE unbuf(f[k - 1])]
           None == {m \in Nat : \A f : f # Row(f, m)}
<1>1. None = {}
  <2>1. SUFFICES ASSUME None # {} PROVE FALSE
    BY <2>1
  <2>2. None \in SUBSET Nat
    OBVIOUS
  <2> HIDE DEF None
  <2>3. PICK m \in None : \A k \in None : m <= k
    BY <2>1, <2>2, LeastNumber
  <2>4. m \in Nat
    BY <2>2
  <2>5. CASE m = 0
    <3> DEFINE g == [k \in 0..0 |-> unbuf(e)]
    <3>1. g = Row(g, 0)
      OBVIOUS
    <3> QED
      BY <3>1, <2>5, <2>3 DEF None
  <2>6. CASE m # 0
    <3>1. m - 1 \in Nat /\ ~(m <= m - 1)
      BY <2>4, <2>6
    <3>2. m - 1 \notin None
      BY <3>1, <2>3
    <3>3. PICK f : f = Row(f, m - 1)
      BY <3>1, <3>2 DEF None
    <3> DEFINE g == [k \in 0..m |-> IF k < m THEN f[k] ELSE On(f[m - 1])]
    <3>4. \A k \in 0..m - 1 : f[k] = IF k = 0 THEN unbuf(e) ELSE On(f[k - 1])
      BY <3>3
    <3> HIDE DEF On
    <3>5. \A k \in 0..m : g[k] = IF k = 0 THEN unbuf(e) ELSE On(g[k - 1])
      <4>1. SUFFICES ASSUME NEW k \in 0..m PROVE g[k] = IF k = 0 THEN unbuf(e) ELSE On(g[k - 1])
        OBVIOUS
      <4>2. CASE k < m
        <5>1. k \in 0..m - 1 /\ g[k] = f[k]
          BY <4>1, <4>2, <2>4
        <5>2. k # 0 => k - 1 \in 0..m /\ k - 1 < m
          BY <4>1, <4>2, <2>4
        <5>3. k # 0 => g[k - 1] = f[k - 1]
          BY <5>2
        <5> QED
          BY <5>1, <5>3, <3>4
      <4>3. CASE k = m
        <5>1. g[k] = On(f[m - 1])
          BY <4>3, <2>4
        <5>2. m - 1 \in 0..m /\ m - 1 < m
          BY <2>4, <2>6
        <5>3. g[m - 1] = f[m - 1]
          BY <5>2
        <5> QED
          BY <5>1, <5>3, <4>3, <2>6
      <4> QED
        BY <4>1, <4>2, <4>3, <2>4
    <3> DEFINE h == [k \in 0..m |-> IF k = 0 THEN unbuf(e) ELSE On(g[k - 1])]
    <3>6. g = h
      <4>1. DOMAIN g = 0..m /\ g = [k \in 0..m |-> g[k]]
        OBVIOUS
      <4> HIDE DEF g
      <4> QED
        BY <4>1, <3>5
    <3>7. g = Row(g, m)
      <4> HIDE DEF g
      <4> QED
        BY <3>6 DEF On
    <3> QED
      BY <3>7, <2>3, <2>4 DEF None
  <2> QED
    BY <2>5, <2>6
<1>2. MaxBufs \in Nat
  BY FilesAssumption
<1>3. \E f : f = Row(f, MaxBufs)
  <2> HIDE DEF Row
  <2> QED
    BY <1>1, <1>2, Zenon
<1> DEFINE seen == CHOOSE f : f = Row(f, MaxBufs)
<1>4. NextModified(e, first) = seen[MaxBufs]
  BY DEF NextModified
<1>5. seen = Row(seen, MaxBufs)
  BY <1>3
<1> HIDE DEF seen
<1>6. \A k \in 0..MaxBufs : seen[k] = IF k = 0 THEN unbuf(e) ELSE On(seen[k - 1])
  BY <1>5
<1> HIDE DEF On
<1> DEFINE Off == {k \in 0..MaxBufs : ~Moves(e, seen[k])}
<1>7. Off = {}
  <2>1. SUFFICES ASSUME Off # {} PROVE FALSE
    BY <2>1
  <2>2. Off \in SUBSET Nat
    BY <1>2
  <2> HIDE DEF Off
  <2>3. PICK m \in Off : \A k \in Off : m <= k
    BY <2>1, <2>2, LeastNumber
  <2>4. m \in 0..MaxBufs /\ ~Moves(e, seen[m])
    BY DEF Off
  <2>5. m # 0
    BY <2>4, <1>2, <1>6, unbufMoves
  <2>6. m - 1 \in 0..MaxBufs /\ ~(m <= m - 1)
    BY <2>4, <2>5, <1>2
  <2>7. Moves(e, seen[m - 1])
    BY <2>3, <2>6 DEF Off
  <2>8. Moves(seen[m - 1], unbuf(seen[m - 1]))
    BY <2>7, unbufMoves DEF Moves
  <2>9. Moves(e, On(seen[m - 1]))
    BY <2>7, <2>8, MovesOn DEF On
  <2> QED
    BY <2>4, <2>5, <2>9, <1>6
<1> QED
  BY <1>2, <1>4, <1>7

(* A window closes: its buffer goes with it if no other window shows it,   *)
(* and the editor is left only from the last window of the last buffer.    *)
CloseOnly(e, f) ==
  \A b \in ToSet(e.bufs) : (b \in ToSet(f.bufs) /\ f.over = "no") \/ (b = Here(e) /\ ~Twice(e))

Less(e) ==
  [e EXCEPT !.win = RemoveAt(@, e.cur), !.cur = IF @ = Len(e.win) THEN 1 ELSE @]
LEMMA WindowCloses ==
  ASSUME NEW e, Layout(e), Len(e.win) > 1
  PROVE  /\ Layout(Less(e)) /\ Shares(e, Less(e)) /\ Less(e).buf = e.buf
         /\ Less(e).bufs = e.bufs /\ Less(e).over = e.over
         /\ Twice(e) => count(Less(e), Here(e)) # 0
<1> DEFINE w == RemoveAt(e.win, e.cur)
           c == IF e.cur = Len(e.win) THEN 1 ELSE e.cur
           f == [e EXCEPT !.win = w, !.cur = c]
<1>1. /\ e \in Editors /\ e.bufs \in Seq(1..MaxBufs) /\ e.win \in Seq(1..MaxBufs)
      /\ e.cur \in 1..Len(e.win) /\ Len(e.win) \in Nat
  <2>1. e \in Editors /\ e.bufs \in Seq(1..MaxBufs) /\ e.win \in Seq(1..MaxBufs) /\ e.cur \in 1..Len(e.win)
    BY DEF Layout, Editors
  <2> QED
    BY <2>1, Members
<1>2. /\ w \in Seq(1..MaxBufs) /\ Len(w) = Len(e.win) - 1
      /\ \A j \in 1..Len(e.win) - 1 : w[j] = IF j < e.cur THEN e.win[j] ELSE e.win[j + 1]
  <2> DEFINE S == 1..MaxBufs
             v == e.win
             i == e.cur
  <2>1. v \in Seq(S) /\ i \in 1..Len(v) /\ w = RemoveAt(v, i)
    BY <1>1
  <2> HIDE DEF S, v, i
  <2>2. /\ RemoveAt(v, i) \in Seq(S) /\ Len(RemoveAt(v, i)) = Len(v) - 1
        /\ \A j \in 1..Len(v) - 1 : RemoveAt(v, i)[j] = IF j < i THEN v[j] ELSE v[j + 1]
    BY <2>1, CutOut
  <2> QED
    BY <2>1, <2>2 DEF S, v, i
<1> HIDE DEF w
<1>3. c \in 1..Len(w) /\ c \in Int
  BY <1>1, <1>2
<1> HIDE DEF c
<1>4. f \in Editors
  <2>1. e \in Editors /\ w \in Seq(1..MaxBufs) /\ c \in Int
    BY <1>1, <1>2, <1>3
  <2> QED
    BY <2>1 DEF Editors
<1>5. /\ f.win = w /\ f.cur = c /\ f.bufs = e.bufs /\ f.buf = e.buf /\ f.ask = e.ask
      /\ f.job = e.job /\ f.over = e.over
  BY <1>1 DEF Editors
<1> HIDE DEF f
<1>6. ASSUME NEW j \in 1..Len(w) PROVE w[j] \in ToSet(e.bufs)
  <2>1. j \in 1..Len(e.win) - 1 /\ j \in 1..Len(e.win) /\ j + 1 \in 1..Len(e.win)
    BY <1>1, <1>2
  <2> QED
    BY <2>1, <1>2 DEF Layout
<1>7. ASSUME Twice(e) PROVE count(f, Here(e)) # 0
  <2>1. PICK j \in 1..Len(e.win) : j # e.cur /\ e.win[j] = Here(e)
    BY <1>7 DEF Twice
  <2>2. \E k \in 1..Len(w) : w[k] = Here(e)
    <3>1. CASE j < e.cur
      <4>1. j \in 1..Len(e.win) - 1
        BY <3>1, <1>1
      <4> QED
        BY <4>1, <3>1, <2>1, <1>2
    <3>2. CASE j > e.cur
      <4>1. j - 1 \in 1..Len(e.win) - 1 /\ ~(j - 1 < e.cur) /\ (j - 1) + 1 = j
        BY <3>2, <1>1
      <4> QED
        BY <4>1, <2>1, <1>2
    <3> QED
      BY <3>1, <3>2, <2>1, <1>1
  <2>3. \E k \in 1..Len(f.win) : f.win[k] = Here(e)
    BY <2>2, <1>5
  <2> QED
    BY <2>3, <1>4, Counts
<1>8. Layout(f)
  BY <1>3, <1>4, <1>5, <1>6 DEF Layout
<1>9. f = Less(e)
  BY DEF f, w, c, Less
<1> QED
  BY <1>5, <1>7, <1>8, <1>9 DEF Shares

(* abortit leaves the buffers as they are but for the current one, which   *)
(* goes if no other window shows it, or ends the editor.                   *)
LEMMA abortitCloses ==
  ASSUME NEW e, Layout(e), e.over = "no"
  PROVE  /\ Layout(abortit(e)) /\ Quiet(abortit(e)) /\ Frees(e, abortit(e))
         /\ abortit(e).over \in {"no", "left"} /\ CloseOnly(e, abortit(e))
<1> DEFINE g == Dropped(e)
           h == Here(e)
           f == abortit(e)
<1>1. e \in Editors /\ e.win \in Seq(1..MaxBufs) /\ e.cur \in 1..Len(e.win) /\ Len(e.win) \in Nat
  <2>1. e \in Editors /\ e.win \in Seq(1..MaxBufs) /\ e.cur \in 1..Len(e.win)
    BY DEF Layout, Editors
  <2> QED
    BY <2>1, Members
<1>2. g \in Editors /\ Stays(e, g) /\ Quiet(g)
  BY <1>1, DroppedStays
<1>3. Layout(g) /\ Here(g) = h
  BY <1>2, StaysLaidOut
<1>4. g.win = e.win /\ g.cur = e.cur /\ g.bufs = e.bufs /\ g.buf = e.buf /\ g.over = "no"
  BY <1>2 DEF Stays
<1>5. Twice(g) <=> Twice(e)
  BY <1>3, <1>4 DEF Twice
<1>6. h \in ToSet(g.bufs)
  BY <1>3, HereIsBuffer
<1>7. f = Closed(g, h)
  BY DEF abortit
<1> HIDE DEF g, f, h
<1>8. CASE Len(g.win) > 1
  <2> DEFINE x == Less(g)
  <2>1. f = brm(x, h)
    BY <1>7, <1>8 DEF Closed, Less
  <2>2. /\ Layout(x) /\ Shares(g, x) /\ x.buf = g.buf /\ x.bufs = g.bufs /\ x.over = g.over
        /\ Twice(g) => count(x, Here(g)) # 0
    BY <1>3, <1>8, WindowCloses
  <2> HIDE DEF x
  <2>3. /\ Layout(f) /\ Shares(x, f) /\ Frees(x, f) /\ AllButOne(x, f, h) /\ f.over = x.over
        /\ count(x, h) # 0 => f = x
    BY <2>1, <2>2, <1>6, brmTakesOut
  <2> QED
    BY <2>2, <2>3, <1>2, <1>3, <1>4, <1>5 DEF Shares, Frees, AllButOne, Quiet, CloseOnly, h, f
<1>9. CASE ~(Len(g.win) > 1) /\ Orphans(g) # {}
  <2>1. f = InPlace(g, borphan(g))
    BY <1>7, <1>9 DEF Closed
  <2>2. borphan(g) \in ToSet(g.bufs)
    <3>1. PICK b \in ToSet(g.bufs) : b \in Orphans(g)
      BY <1>9 DEF Orphans
    <3>2. g.bufs \in Seq(1..MaxBufs)
      BY <1>2 DEF Editors
    <3> QED
      BY <3>1, <3>2, FirstFound DEF borphan
  <2>3. /\ Layout(f) /\ Shares(g, f) /\ Frees(g, f) /\ AllButOne(g, f, h) /\ f.over = g.over
        /\ Twice(g) => Stay(g, f)
    BY <2>1, <2>2, <1>3, InPlaceTakesOut
  <2> QED
    BY <2>3, <1>2, <1>4, <1>5 DEF Shares, Frees, AllButOne, Stay, Quiet, CloseOnly, h, f
<1>10. CASE ~(Len(g.win) > 1) /\ Orphans(g) = {}
  <2>1. f = [g EXCEPT !.over = "left"]
    BY <1>7, <1>10 DEF Closed
  <2>2. f \in Editors
    BY <2>1, <1>2 DEF Editors
  <2>3. /\ f.win = g.win /\ f.cur = g.cur /\ f.bufs = g.bufs /\ f.buf = g.buf /\ f.ask = g.ask
        /\ f.job = g.job /\ f.over = "left"
    BY <2>1, <1>2 DEF Editors
  <2>4. \A j \in 1..Len(g.win) : j = g.cur
    BY <1>1, <1>4, <1>10
  <2>5. ASSUME NEW b \in ToSet(e.bufs) PROVE b = h
    <3>1. count(g, b) # 0
      BY <2>5, <1>4, <1>10 DEF Orphans
    <3>2. PICK j \in 1..Len(g.win) : g.win[j] = b
      BY <3>1, <1>2, Counts
    <3> QED
      BY <3>2, <2>4, <1>3 DEF Here
  <2>6. ~Twice(e)
    BY <2>4, <1>5 DEF Twice
  <2>7. Layout(f)
    BY <2>2, <2>3, <1>3 DEF Layout
  <2> QED
    BY <2>3, <2>5, <2>6, <2>7, <1>2, <1>4 DEF Quiet, Frees, CloseOnly, h, f
<1> QED
  BY <1>8, <1>9, <1>10

(* A list with one more in front.                                          *)
LEMMA OneMore ==
  ASSUME NEW S, NEW s \in Seq(S), NEW x \in S
  PROVE  /\ <<x>> \o s \in Seq(S) /\ x \in ToSet(<<x>> \o s)
         /\ \A y \in ToSet(s) : y \in ToSet(<<x>> \o s)
<1> DEFINE o == <<x>>
           d == o \o s
<1>1. o \in Seq(S) /\ Len(o) = 1 /\ o[1] = x
  OBVIOUS
<1> HIDE DEF o
<1>2. /\ d \in Seq(S) /\ Len(d) = Len(o) + Len(s)
      /\ \A i \in 1..Len(o) + Len(s) : d[i] = IF i <= Len(o) THEN o[i] ELSE s[i - Len(o)]
  <2>1. o \in Seq(S)
    BY <1>1
  <2> QED
    BY <2>1, ConcatProperties
<1> HIDE DEF d
<1>3. Len(s) \in Nat
  BY Members
<1>4. 1 \in 1..Len(d) /\ d[1] = x
  BY <1>1, <1>2, <1>3
<1>5. ASSUME NEW y \in ToSet(s) PROVE \E j \in 1..Len(d) : d[j] = y
  <2>1. PICK i \in 1..Len(s) : s[i] = y
    BY Members
  <2>2. i + 1 \in 1..1 + Len(s) /\ ~(i + 1 <= 1) /\ (i + 1) - 1 = i
    BY <1>3
  <2>3. i + 1 \in 1..Len(d) /\ d[i + 1] = y
    BY <2>1, <2>2, <1>1, <1>2
  <2> QED
    BY <2>3
<1>6. d \in Seq(S) /\ \A y : (\E j \in 1..Len(d) : d[j] = y) => y \in ToSet(d)
  BY <1>2, Members
<1> QED
  BY <1>4, <1>5, <1>6 DEF d, o

(* A new buffer: the others stay as they are.                              *)
LEMMA NewBuffer ==
  ASSUME NEW e, Layout(e), HasBuffer(e), NEW r \in Buffers, NEW b, b = Unused(e)
  PROVE  /\ Layout(New(e, b, r)) /\ Shares(e, New(e, b, r)) /\ Stay(e, New(e, b, r))
         /\ b \in 1..MaxBufs /\ b \in ToSet(New(e, b, r).bufs) /\ New(e, b, r).over = e.over
         /\ \A x \in 1..MaxBufs : New(e, b, r).buf[x] = IF x = b THEN r ELSE e.buf[x]
         /\ Here(New(e, b, r)) = Here(e) /\ Buf(New(e, b, r)) = Buf(e)
<1> DEFINE S == 1..MaxBufs
           l == <<b>> \o e.bufs
           f == [e EXCEPT !.buf[b] = r, !.bufs = l]
<1>1. e \in Editors /\ e.bufs \in Seq(S) /\ MaxBufs \in Nat
  BY FilesAssumption DEF Layout, Editors
<1>2. b \in S /\ b \notin ToSet(e.bufs)
  BY <1>1, OneUnused DEF Unused, HasBuffer
<1>3. l \in Seq(S) /\ b \in ToSet(l) /\ \A y \in ToSet(e.bufs) : y \in ToSet(l)
  <2> HIDE DEF S
  <2> QED
    BY <1>1, <1>2, OneMore
<1> HIDE DEF l
<1>4. f = New(e, b, r)
  BY <1>1 DEF New, l, Editors
<1>5. f \in Editors
  <2>1. e \in Editors /\ l \in Seq(1..MaxBufs) /\ b \in 1..MaxBufs
    BY <1>1, <1>2, <1>3
  <2> QED
    BY <2>1 DEF Editors
<1>6. /\ f.win = e.win /\ f.cur = e.cur /\ f.bufs = l /\ f.ask = e.ask /\ f.job = e.job
      /\ f.over = e.over
      /\ \A x \in S : f.buf[x] = IF x = b THEN r ELSE e.buf[x]
  BY <1>1 DEF Editors
<1> HIDE DEF f
<1>7. Layout(f)
  BY <1>3, <1>5, <1>6 DEF Layout
<1>8. Here(f) = Here(e) /\ Here(e) \in S /\ Here(e) # b
  BY <1>2, <1>6, HereIsBuffer DEF Here
<1>9. Buf(f) = Buf(e)
  BY <1>6, <1>8 DEF Buf, Here
<1> QED
  BY <1>2, <1>3, <1>4, <1>6, <1>7, <1>8, <1>9 DEF Shares, Stay

----------------------------------------------------------------------------
(* Where the texts are.                                                    *)

(* A buffer that is not in use has no text.                                *)
LEMMA FreeRight ==
  ASSUME NEW d, NEW t \in Nat
  PROVE  BufferRight(Free, d, t)
BY DEF BufferRight, Dated, Kept, Free, Blank

(* Buffers that go take nothing from the others.                           *)
LEMMA FreesRight ==
  ASSUME NEW e, NEW f, NEW d, NEW t \in Nat, BuffersRight(e, d, t), Frees(e, f)
  PROVE  BuffersRight(f, d, t)
BY FreeRight DEF BuffersRight, Frees

(* What is loaded is the text of the file, or nothing, or a part.          *)
LEMMA LoadedRight ==
  ASSUME now \in Nat, DiskRight(disk, now), NEW n \in Names \cup {NoName}, NEW er \in Errors
  PROVE  bload(n, er) \in Buffers /\ BufferRight(bload(n, er), disk, now)
<1> DEFINE r == bload(n, er)
<1> HIDE DEF r
<1>1. NoName \notin Names
  BY FilesAssumption
<1>2. n # NoName => /\ disk[n].text \in Int /\ disk[n].time \in Int /\ disk[n].time <= now
                    /\ disk[n] # Missing => disk[n].time >= 1
  BY DEF DiskRight, Times
<1>3. CASE n = NoName
  <2>1. r = [Free EXCEPT !.er = "new"]
    BY <1>3 DEF bload, r
  <2>2. r \in Buffers
    BY <2>1, FreeIsBuffer DEF Buffers
  <2>3. /\ r.text = Blank /\ r.base = -1 /\ r.own = {} /\ r.time = 0
    BY <2>1, FreeIsBuffer DEF Buffers, Free
  <2> QED
    BY <2>2, <2>3, now \in Nat DEF BufferRight, Dated, Kept, Blank, r
<1>4. CASE n # NoName /\ disk[n] = Missing
  <2>1. r = [Free EXCEPT !.name = n, !.er = "new"]
    BY <1>4 DEF bload, r
  <2>2. r \in Buffers
    BY <2>1, FreeIsBuffer DEF Buffers
  <2>3. /\ r.text = Blank /\ r.base = -1 /\ r.own = {} /\ r.time = 0
    BY <2>1, FreeIsBuffer DEF Buffers, Free
  <2> QED
    BY <2>2, <2>3, now \in Nat DEF BufferRight, Dated, Kept, Blank, r
<1>5. CASE n # NoName /\ disk[n] # Missing /\ er = "open"
  <2>1. r = [Free EXCEPT !.name = n, !.er = er]
    BY <1>5 DEF bload, r
  <2>2. r \in Buffers
    BY <1>5, <2>1, FreeIsBuffer DEF Buffers
  <2>3. /\ r.text = Blank /\ r.base = -1 /\ r.own = {} /\ r.time = 0
    BY <2>1, FreeIsBuffer DEF Buffers, Free
  <2> QED
    BY <2>2, <2>3, <1>5, now \in Nat DEF BufferRight, Dated, Kept, Blank, r
<1>6. CASE n # NoName /\ disk[n] # Missing /\ er = "read"
  <2>1. r = [Free EXCEPT !.name = n, !.er = er, !.text = Torn, !.time = disk[n].time,
                                    !.base = disk[n].time]
    BY <1>6 DEF bload, r
  <2>2. r \in Buffers
    <3>1. Torn \in Int
      BY DEF Torn
    <3> QED
      BY <1>2, <1>6, <2>1, <3>1, FreeIsBuffer DEF Buffers
  <2>3. /\ r.text = Torn /\ r.base = disk[n].time /\ r.own = {} /\ r.time = disk[n].time
    BY <2>1, FreeIsBuffer DEF Buffers, Free
  <2> QED
    BY <2>2, <2>3, <1>2, <1>6, now \in Nat DEF BufferRight, Dated, Kept, Blank, r, Torn
<1>7. CASE n # NoName /\ disk[n] # Missing /\ er = "none"
  <2>1. r = [Free EXCEPT !.name = n, !.text = disk[n].text, !.base = disk[n].time,
                                    !.time = disk[n].time, !.backup = FALSE]
    BY <1>7 DEF bload, r
  <2>2. r \in Buffers
    BY <1>2, <1>7, <2>1, FreeIsBuffer DEF Buffers
  <2>3. /\ r.name = n /\ r.text = disk[n].text /\ r.base = disk[n].time /\ r.own = {}
        /\ r.time = disk[n].time
    BY <2>1, FreeIsBuffer DEF Buffers, Free
  <2> QED
    BY <2>2, <2>3, <1>2, <1>7, now \in Nat DEF BufferRight, Dated, Kept, Blank, r
<1> QED
  BY <1>3, <1>4, <1>5, <1>6, <1>7 DEF Errors, r

(* What a save notes of its buffer leaves the other buffers alone.         *)
Touches(e, f) ==
  /\ Layout(f) /\ Shares(e, f) /\ f.bufs = e.bufs /\ f.win = e.win /\ f.cur = e.cur /\ f.over = e.over
  /\ \A x \in 1..MaxBufs : x # Here(e) => f.buf[x] = e.buf[x]

(* So does a new record for the current buffer.                            *)
LEMMA PutTouches ==
  ASSUME NEW e, Layout(e), NEW r \in Buffers
  PROVE  Touches(e, Put(e, r)) /\ Here(Put(e, r)) = Here(e) /\ Buf(Put(e, r)) = r
<1> DEFINE f == [e EXCEPT !.buf[Here(e)] = r]
<1>1. e \in Editors /\ Here(e) \in 1..MaxBufs
  BY HereIsBuffer DEF Layout
<1>2. f \in Editors
  BY <1>1 DEF Editors
<1>3. /\ f.win = e.win /\ f.cur = e.cur /\ f.bufs = e.bufs /\ f.ask = e.ask /\ f.job = e.job
      /\ f.over = e.over
      /\ \A x \in 1..MaxBufs : f.buf[x] = IF x = Here(e) THEN r ELSE e.buf[x]
  BY <1>1 DEF Editors
<1>4. f = Put(e, r)
  BY DEF Put
<1> HIDE DEF f
<1>5. Layout(f) /\ Here(f) = Here(e)
  BY <1>2, <1>3 DEF Layout, Here
<1>6. Buf(f) = r
  BY <1>1, <1>3, <1>5 DEF Buf, Here
<1> QED
  BY <1>3, <1>4, <1>5, <1>6 DEF Touches, Shares

(* One after the other.                                                    *)
LEMMA TouchesOn ==
  ASSUME NEW e, NEW f, NEW g, Touches(e, f), Touches(f, g)
  PROVE  Touches(e, g) /\ Here(f) = Here(e) /\ Here(g) = Here(e)
BY DEF Touches, Shares, Here

(* And nothing at all.                                                     *)
LEMMA TouchesNothing ==
  ASSUME NEW e, Layout(e)
  PROVE  Touches(e, e)
BY DEF Touches, Shares

(* The other buffers are right as before: the current one must be, too.    *)
LEMMA TouchesRight ==
  ASSUME NEW e, Layout(e), NEW f, Touches(e, f), NEW d, NEW t, BuffersRight(e, d, t),
         BufferRight(Buf(f), d, t)
  PROVE  BuffersRight(f, d, t)
<1>1. Buf(f) = f.buf[Here(e)]
  BY DEF Touches, Buf, Here
<1> QED
  BY <1>1 DEF Touches, BuffersRight

(* saver: a buffer counts as unchanged once its file has its text.         *)
LEMMA saverRight ==
  ASSUME NEW e, Layout(e), BuffersRight(e, disk, now), DiskRight(disk, now), now \in Nat,
         NEW n \in Names, disk[n].text = Buf(e).text
  PROVE  /\ Touches(e, saver(e, n)) /\ BuffersRight(saver(e, n), disk, now)
         /\ Buf(saver(e, n)).text = Buf(e).text
         /\ e.job.rename \/ n = Buf(e).name => Buf(saver(e, n)).name = n
<1> DEFINE e1 == Noted(e, n)
           e2 == Named(e1, n)
           e3 == Unchanged(e2, n)
<1>0. NoName \notin Names
  BY FilesAssumption
<1>1. Buf(e) \in Buffers /\ Buf(e) = e.buf[Here(e)] /\ BufferRight(Buf(e), disk, now)
  BY HereIsBuffer DEF BuffersRight
<1>2. disk[n].time \in Int /\ disk[n].time <= now
  BY DEF DiskRight, Times
<1>3. /\ Touches(e, e1) /\ Buf(e1) \in Buffers /\ Buf(e1).text = Buf(e).text
      /\ Buf(e1).name = Buf(e).name /\ BufferRight(Buf(e1), disk, now)
  <2>1. CASE Buf(e).name \in {NoName, n}
    <3> DEFINE r == [Buf(e) EXCEPT !.time = disk[n].time]
    <3>1. e1 = Put(e, r)
      BY <2>1 DEF Noted
    <3>2. /\ r \in Buffers /\ r.text = Buf(e).text /\ r.name = Buf(e).name /\ r.base = Buf(e).base
          /\ r.own = Buf(e).own /\ r.cut = Buf(e).cut /\ r.changed = Buf(e).changed
          /\ r.time = disk[n].time
      BY <1>1, <1>2 DEF Buffers
    <3> HIDE DEF r, e1
    <3>3. Touches(e, e1) /\ Buf(e1) = r
      BY <3>1, <3>2, PutTouches
    <3> QED
      BY <3>2, <3>3, <1>1, <1>2 DEF BufferRight, Dated, Kept
  <2>2. CASE Buf(e).name \notin {NoName, n}
    <3>1. e1 = e
      BY <2>2 DEF Noted
    <3> QED
      BY <3>1, <1>1, TouchesNothing
  <2> QED
    BY <2>1, <2>2
<1> HIDE DEF e1
<1>4. /\ Touches(e1, e2) /\ Buf(e2) \in Buffers /\ Buf(e2).text = Buf(e).text
      /\ Buf(e2).name = n \/ BufferRight(Buf(e2), disk, now)
      /\ Dated(Buf(e2), now)
      /\ e.job.rename \/ n = Buf(e).name => Buf(e2).name = n
  <2>0. Layout(e1) /\ e1.job = e.job
    BY <1>3 DEF Touches, Shares
  <2>1. CASE e1.job.rename \/ Buf(e1).name = NoName
    <3> DEFINE r == [Buf(e1) EXCEPT !.name = n]
    <3>1. e2 = Put(e1, r)
      BY <2>1 DEF Named
    <3>2. /\ r \in Buffers /\ r.text = Buf(e1).text /\ r.name = n /\ r.base = Buf(e1).base
          /\ r.own = Buf(e1).own /\ r.time = Buf(e1).time
      BY <1>3 DEF Buffers
    <3> HIDE DEF r, e2
    <3>3. Touches(e1, e2) /\ Buf(e2) = r
      BY <3>1, <3>2, <2>0, PutTouches
    <3> QED
      BY <3>2, <3>3, <1>3 DEF BufferRight, Dated
  <2>2. CASE ~(e1.job.rename \/ Buf(e1).name = NoName)
    <3>1. e2 = e1
      BY <2>2 DEF Named
    <3> QED
      BY <3>1, <2>0, <2>2, <1>3, TouchesNothing DEF BufferRight
  <2> QED
    BY <2>1, <2>2
<1> HIDE DEF e2
<1>5. /\ Touches(e2, e3) /\ Buf(e3).text = Buf(e).text /\ Buf(e3).name = Buf(e2).name
      /\ BufferRight(Buf(e3), disk, now)
  <2>0. Layout(e2)
    BY <1>4 DEF Touches
  <2>1. CASE Buf(e2).name = n
    <3> DEFINE r == [Buf(e2) EXCEPT !.changed = FALSE, !.cut = FALSE]
    <3>1. e3 = Put(e2, r)
      BY <2>1 DEF Unchanged
    <3>2. /\ r \in Buffers /\ r.text = Buf(e).text /\ r.name = n /\ r.base = Buf(e2).base
          /\ r.own = Buf(e2).own /\ r.time = Buf(e2).time
      BY <1>4, <2>1 DEF Buffers
    <3> HIDE DEF r, e3
    <3>3. Touches(e2, e3) /\ Buf(e3) = r
      BY <3>1, <3>2, <2>0, PutTouches
    <3>4. BufferRight(r, disk, now)
      BY <3>2, <1>0, <1>4 DEF BufferRight, Dated, Kept
    <3> QED
      BY <3>2, <3>3, <3>4, <2>1
  <2>2. CASE Buf(e2).name # n
    <3>1. e3 = e2
      BY <2>2 DEF Unchanged
    <3> QED
      BY <3>1, <2>0, <2>2, <1>4, TouchesNothing
  <2> QED
    BY <2>1, <2>2
<1>6. e3 = saver(e, n)
  BY DEF saver, e1, e2
<1> HIDE DEF e3
<1>7. Touches(e, e3)
  BY <1>3, <1>4, <1>5, TouchesOn
<1>8. BuffersRight(e3, disk, now)
  BY <1>5, <1>7, TouchesRight
<1> QED
  BY <1>4, <1>5, <1>6, <1>7, <1>8

----------------------------------------------------------------------------
(* Steps of the editor.                                                    *)

(* What an editor may become while the files stay as they are: a buffer    *)
(* goes only if its text is stored, or the user is asked.                  *)
MayLose == ed.ask \in {"lose", "keep"}
Right(f) ==
  /\ Layout(f) /\ BuffersRight(f, disk, now) /\ JobRight(f, disk, now) /\ f.over \in {"no", "left"}
  /\ \A b \in Live : (b \in ToSet(f.bufs) /\ f.over = "no") \/ Stored(b) \/ MayLose
SavedStep == \A b \in Live : Goes(b) => Stored(b) \/ MayLose

(* With nothing in the middle of a write each buffer is right; and what is *)
(* right is right.                                                         *)
LEMMA OutsideGap ==
  ASSUME FilesInv, ed.job.pc # "write"
  PROVE  BuffersRight(ed, disk, now)
BY DEF FilesInv, AlmostRight, InGap, BuffersRight

LEMMA RightIsAlmost ==
  ASSUME NEW e, NEW d, NEW t, BuffersRight(e, d, t)
  PROVE  AlmostRight(e, d, t)
BY DEF AlmostRight, BuffersRight

(* Such a step keeps the invariant and no text is lost with a buffer.      *)
LEMMA EditorStep ==
  ASSUME FilesInv, NEW f, Right(f), ed' = f, bak' \in Times(now), UNCHANGED <<disk, dead, now, plan>>
  PROVE  FilesInv' /\ SavedStep
<1>1. AlmostRight(f, disk, now)
  BY RightIsAlmost DEF Right
<1> QED
  BY <1>1 DEF FilesInv, Right, SavedStep, Goes, Live

(* So does a step that only changes the editor.                            *)
LEMMA DoesRight ==
  ASSUME FilesInv, NEW f, Right(f), Does(f)
  PROVE  FilesInv' /\ SavedStep
BY EditorStep DEF Does, FilesInv

(* Or one whose call fails.                                                *)
LEMMA FailsRight ==
  ASSUME FilesInv, NEW f, Right(f), Fails(f)
  PROVE  FilesInv' /\ SavedStep
BY EditorStep DEF Fails, FilesInv

(* Nothing is asked and no save is under way.                              *)
LEMMA IdleRight ==
  ASSUME NEW f, f.ask = "none", f.job.pc = "idle", NEW d, NEW t
  PROVE  JobRight(f, d, t)
BY DEF JobRight, Saving, Calls

(* The same of a save that is forgotten.                                   *)
LEMMA QuietRight ==
  ASSUME NEW f, Quiet(f), NEW d, NEW t
  PROVE  JobRight(f, d, t)
BY IdleRight DEF Quiet, Idle

(* What counts as unchanged is stored.                                     *)
LEMMA KeptIsStored ==
  ASSUME FilesInv, NEW b \in Live, ~ed.buf[b].changed, ~InGap(ed, b)
  PROVE  Stored(b)
<1>1. b \in 1..MaxBufs /\ ed.buf[b] \in Buffers
  <2>1. ed.bufs \in Seq(1..MaxBufs) /\ ed.buf \in [1..MaxBufs -> Buffers]
    BY DEF FilesInv, Layout, Editors
  <2> QED
    BY <2>1, Members DEF Live
<1>2. Kept(ed.buf[b], disk)
  BY <1>1 DEF FilesInv, AlmostRight, BufferRight
<1>3. ed.buf[b].name # NoName => ed.buf[b].name \in Names
  BY <1>1 DEF Buffers
<1> QED
  BY <1>2, <1>3 DEF Kept, Stored

(* The same buffers and windows, or the list turned.                       *)
Asks(e, f, d, t) ==
  Layout(f) /\ f.buf = e.buf /\ ToSet(f.bufs) = ToSet(e.bufs) /\ f.over = e.over /\ JobRight(f, d, t)

(* All buffers stay in the list.                                           *)
LEMMA AsksRight ==
  ASSUME FilesInv, ed.over = "no", ed.job.pc # "write",
         NEW f, Asks(ed, f, disk, now)
  PROVE  Right(f)
<1>1. BuffersRight(ed, disk, now)
  BY OutsideGap
<1> QED
  BY <1>1 DEF FilesInv, Right, Asks, BuffersRight, Live

(* A question that waits is such a step.                                   *)
LEMMA StaysAsks ==
  ASSUME NEW e, Layout(e), NEW f \in Editors, Stays(e, f), NEW d, NEW t, JobRight(f, d, t)
  PROVE  Asks(e, f, d, t)
BY StaysLaidOut DEF Asks, Stays

(* The editor, but for a question, a save and a message.                   *)
Calm(e) == e \in Editors /\ Stays(ed, e)

(* Its buffers and windows are those of the editor.                        *)
LEMMA CalmLaidOut ==
  ASSUME FilesInv, ed.over = "no", NEW e, Calm(e)
  PROVE  /\ Layout(e) /\ Here(e) = Here(ed) /\ Buf(e) = Buf(ed) /\ e.buf = ed.buf /\ e.bufs = ed.bufs
         /\ e.over = "no" /\ (Twice(e) <=> Twice(ed))
         /\ ed.job.pc # "write" => BuffersRight(e, disk, now)
<1>1. Layout(e) /\ Here(e) = Here(ed) /\ Buf(e) = Buf(ed)
  BY StaysLaidOut DEF FilesInv, Calm
<1>2. /\ e.buf = ed.buf /\ e.bufs = ed.bufs /\ e.over = "no" /\ e.win = ed.win /\ e.cur = ed.cur
  BY DEF Calm, Stays
<1>3. ed.job.pc # "write" => BuffersRight(e, disk, now)
  BY <1>2, OutsideGap DEF BuffersRight
<1> QED
  BY <1>1, <1>2, <1>3 DEF Twice

(* It may become the editor.                                               *)
LEMMA CalmRight ==
  ASSUME FilesInv, ed.over = "no", ed.job.pc # "write",
         NEW e, Calm(e), JobRight(e, disk, now)
  PROVE  Right(e)
<1>1. Asks(ed, e, disk, now)
  BY StaysAsks DEF FilesInv, Calm
<1> QED
  BY <1>1, AsksRight

(* And what comes of it by a question, too.                                *)
LEMMA CalmAsksRight ==
  ASSUME FilesInv, ed.over = "no", ed.job.pc # "write",
         NEW e, Calm(e), NEW f, Asks(e, f, disk, now)
  PROVE  Right(f)
<1>1. Asks(ed, f, disk, now)
  BY DEF Asks, Calm, Stays
<1> QED
  BY <1>1, AsksRight

(* Closing a window: what goes is unchanged, or was asked about.           *)
LEMMA abortitRight ==
  ASSUME FilesInv, ed.over = "no", ed.job.pc # "write",
         NEW e, Calm(e), ~Buf(ed).changed \/ Twice(ed) \/ MayLose
  PROVE  Right(abortit(e))
<1> DEFINE f == abortit(e)
<1>1. /\ Layout(e) /\ Here(e) = Here(ed) /\ Buf(e) = Buf(ed) /\ e.buf = ed.buf /\ e.bufs = ed.bufs
      /\ e.over = "no" /\ BuffersRight(e, disk, now) /\ (Twice(e) <=> Twice(ed))
  BY CalmLaidOut
<1>2. /\ Layout(f) /\ Quiet(f) /\ Frees(e, f) /\ f.over \in {"no", "left"} /\ CloseOnly(e, f)
  BY <1>1, abortitCloses
<1> HIDE DEF f
<1>3. BuffersRight(f, disk, now)
  BY <1>1, <1>2, FreesRight DEF FilesInv
<1>4. JobRight(f, disk, now)
  BY <1>2, QuietRight
<1>5. ASSUME NEW b \in Live, ~(b \in ToSet(f.bufs) /\ f.over = "no")
      PROVE  Stored(b) \/ MayLose
  <2>1. b = Here(ed) /\ ~Twice(ed)
    BY <1>1, <1>2, <1>5 DEF CloseOnly, Live
  <2>2. Buf(ed) = ed.buf[b]
    BY <2>1 DEF Buf, Here
  <2> QED
    BY <2>1, <2>2, KeptIsStored DEF InGap
<1> QED
  BY <1>2, <1>3, <1>4, <1>5 DEF Right, f

(* Querysave asks about the next modified buffer, or says that it is done. *)
LEMMA QueryAsks ==
  ASSUME NEW e, Layout(e), e.job.callback = "query", NEW d, NEW t
  PROVE  Asks(e, doquerysave(e), d, t)
<1> DEFINE f == Waits(e, "save")
<1>1. e \in Editors /\ "save" \in Questions
  BY DEF Layout, Questions
<1>2. f \in Editors /\ Stays(e, f) /\ f.ask = "save" /\ f.job = [e.job EXCEPT !.pc = "asked"]
  BY <1>1, WaitsStays
<1>3. f.job.pc = "asked" /\ f.job.callback = "query"
  BY <1>1, <1>2 DEF Editors, Jobs
<1>4. f = doquerysave(e)
  BY DEF doquerysave
<1> HIDE DEF f
<1>5. JobRight(f, d, t)
  BY <1>2, <1>3 DEF JobRight, Saving, Calls
<1> QED
  BY <1>2, <1>4, <1>5, StaysAsks

(* The message at the end.                                                 *)
LEMMA MessageAsks ==
  ASSUME NEW e, Layout(e), NEW m \in {"none yet", "all", "some", "none"}, NEW d, NEW t
  PROVE  Asks(e, genexmsgmulti(e, m), d, t)
<1>1. e \in Editors
  BY DEF Layout
<1> QED
  BY <1>1, MessageStays, QuietRight, StaysAsks

(* A question after moving on.                                             *)
LEMMA MovesAsks ==
  ASSUME NEW e, NEW x, Moves(e, x), NEW d, NEW t, NEW f, Asks(x, f, d, t)
  PROVE  Asks(e, f, d, t)
BY DEF Moves, Asks

(* From the buffer that was asked about.                                   *)
LEMMA QueryGoesOn ==
  ASSUME NEW e, Layout(e), e.job.callback = "query", NEW d, NEW t
  PROVE  Asks(e, QueryOn(e), d, t)
<1> DEFINE x == NextModified(e, e.job.first)
           f == QueryOn(e)
<1>1. Moves(e, x)
  BY NextModifiedMoves
<1>2. f = doquerysave(x) \/ \E m \in {"some", "all"} : f = genexmsgmulti(x, m)
  BY DEF QueryOn, Further
<1> HIDE DEF x, f
<1>3. Layout(x) /\ x.job.callback = "query"
  BY <1>1 DEF Moves, Shares
<1>4. Asks(x, f, d, t)
  BY <1>2, <1>3, QueryAsks, MessageAsks
<1> QED
  BY <1>1, <1>4, MovesAsks DEF f

(* From the buffer that the command was given in.                          *)
LEMMA QueryBegins ==
  ASSUME NEW e, Layout(e), NEW d, NEW t
  PROVE  Asks(e, uquerysave(e), d, t)
<1> DEFINE e0 == [e EXCEPT !.job.callback = "query", !.job.first = Here(e)]
           x == NextModified(e0, Here(e0))
           f == uquerysave(e)
<1>1. e \in Editors /\ Here(e) \in Int
  BY HereIsBuffer DEF Layout
<1>2. e0 \in Editors /\ Stays(e, e0) /\ e0.job.callback = "query"
  BY <1>1 DEF Editors, Jobs, Stays
<1>3. \/ f = doquerysave(e0) \/ f = doquerysave(x)
      \/ \E m \in {"none"} : f = genexmsgmulti(x, m)
  BY DEF uquerysave, FirstModified
<1> HIDE DEF e0
<1>4. Layout(e0)
  BY <1>2, StaysLaidOut
<1>5. Moves(e0, x)
  BY <1>4, NextModifiedMoves
<1> HIDE DEF x, f
<1>6. Layout(x) /\ x.job.callback = "query"
  BY <1>2, <1>5 DEF Moves, Shares
<1>7. Asks(e0, f, d, t)
  <2>1. CASE f = doquerysave(e0)
    BY <2>1, <1>2, <1>4, QueryAsks
  <2>2. CASE f = doquerysave(x)
    BY <2>2, <1>5, <1>6, QueryAsks, MovesAsks
  <2>3. CASE \E m \in {"none"} : f = genexmsgmulti(x, m)
    BY <2>3, <1>5, <1>6, MessageAsks, MovesAsks
  <2> QED
    BY <1>3, <2>1, <2>2, <2>3
<1> QED
  BY <1>2, <1>7 DEF Asks, Stays, f

(* A save of the current buffer.                                           *)
LEMMA RequestCalm ==
  ASSUME NEW e, Calm(e), NEW c \in {"none", "query", "exit"}, NEW r \in BOOLEAN
  PROVE  /\ Calm(Request(e, c, r)) /\ Request(e, c, r).ask = e.ask
         /\ Request(e, c, r).job.callback = c /\ Request(e, c, r).job.rename = r
BY DEF Request, Calm, Stays, Editors, Jobs

(* The save starts, or asks.                                               *)
LEMMA SaveRight ==
  ASSUME FilesInv, ed.over = "no", ed.job.pc # "write",
         NEW e, Calm(e), e.ask = "none", NEW n \in Names,
         e.job.callback = "exit" => e.job.rename \/ n = Buf(ed).name
  PROVE  Right(dosave1(e, n))
<1> DEFINE f == dosave1(e, n)
<1>1. Layout(e) /\ Buf(e) = Buf(ed)
  BY CalmLaidOut
<1>2. Layout(f) /\ Stays(e, f) /\ JobRight(f, disk, now)
  BY <1>1, dosave1Starts
<1> HIDE DEF f
<1>3. Calm(f)
  BY <1>2 DEF Calm, Stays, Layout
<1> QED
  BY <1>2, <1>3, CalmRight DEF f

(* exsave closes a buffer without changes, or saves it to its name, or to  *)
(* another that it then takes.                                             *)
LEMMA uexsveRight ==
  ASSUME FilesInv, ed.over = "no", ed.job.pc # "write",
         NEW e, Calm(e), e.ask = "none", uexsve(e)
  PROVE  FilesInv' /\ SavedStep
<1>1. Layout(e) /\ Buf(e) = Buf(ed) /\ Buf(e) \in Buffers
  BY CalmLaidOut, HereIsBuffer
<1>2. CASE ~Modified(e) /\ Does(abortit(e))
  BY <1>1, <1>2, abortitRight, DoesRight DEF Modified
<1>3. CASE Modified(e) /\ Buf(e).name # NoName /\ Does(dosave1(Request(e, "exit", FALSE), Buf(e).name))
  <2> DEFINE x == Request(e, "exit", FALSE)
             n == Buf(e).name
  <2>1. Calm(x) /\ x.ask = "none"
    BY RequestCalm
  <2>2. n \in Names
    BY <1>1, <1>3 DEF Buffers
  <2>3. n = Buf(ed).name /\ Does(dosave1(x, n))
    BY <1>1, <1>3
  <2> HIDE DEF x, n
  <2>4. Right(dosave1(x, n))
    BY <2>1, <2>2, <2>3, SaveRight
  <2> QED
    BY <2>3, <2>4, DoesRight
<1>4. CASE Modified(e) /\ \E n \in Names : Does(dosave1(Request(e, "exit", TRUE), n))
  <2> DEFINE x == Request(e, "exit", TRUE)
  <2>1. Calm(x) /\ x.ask = "none" /\ x.job.rename = TRUE
    BY RequestCalm
  <2>2. PICK n \in Names : Does(dosave1(x, n))
    BY <1>4
  <2> HIDE DEF x
  <2>3. Right(dosave1(x, n))
    BY <2>1, SaveRight
  <2> QED
    BY <2>2, <2>3, DoesRight
<1> QED
  BY <1>2, <1>3, <1>4 DEF uexsve

(* A buffer comes up in a window.                                          *)
LEMMA ShownRight ==
  ASSUME FilesInv, ed.over = "no", ed.job.pc # "write", NEW x, Layout(x), Quiet(x), BuffersRight(x, disk, now),
         x.over = "no", Here(x) = Here(ed), Buf(x) = Buf(ed), \A b \in Live : b \in ToSet(x.bufs),
         NEW b \in ToSet(x.bufs), NEW reload \in BOOLEAN
  PROVE  Right(doedit1(x, b, reload))
<1> DEFINE f == doedit1(x, b, reload)
<1>1. /\ Layout(f) /\ Shares(x, f) /\ Frees(x, f) /\ AllButOne(x, f, Here(x)) /\ f.over = x.over
      /\ Stay(x, f) \/ (~Buf(x).changed /\ Buf(x).name = NoName)
  BY doedit1Shows
<1> HIDE DEF f
<1>2. BuffersRight(f, disk, now)
  BY <1>1, FreesRight DEF FilesInv
<1>3. JobRight(f, disk, now)
  BY <1>1, QuietRight DEF Shares, Quiet
<1>4. ASSUME NEW c \in Live, c \notin ToSet(f.bufs)
      PROVE  Stored(c)
  <2>1. c = Here(ed) /\ ~Buf(ed).changed
    BY <1>1, <1>4 DEF AllButOne, Stay
  <2>2. Buf(ed) = ed.buf[c]
    BY <2>1 DEF Buf, Here
  <2> QED
    BY <2>1, <2>2, KeptIsStored DEF InGap
<1> QED
  BY <1>1, <1>2, <1>3, <1>4 DEF Right, f

(* A command forgets the message, an answer the question.                  *)
LEMMA SilentCalm ==
  ASSUME FilesInv
  PROVE  /\ Calm(Silent) /\ Silent.ask = ed.ask /\ Silent.job = ed.job
         /\ Calm(Dropped(Silent)) /\ Quiet(Dropped(Silent))
         /\ Calm(Dropped(ed)) /\ Quiet(Dropped(ed)) /\ Calm(ed)
<1>1. ed \in Editors
  BY DEF FilesInv, Layout
<1>2. Calm(Silent) /\ Silent.ask = ed.ask /\ Silent.job = ed.job /\ Calm(ed)
  BY <1>1 DEF Silent, Calm, Stays, Editors
<1>3. Silent \in Editors
  BY <1>2 DEF Calm
<1> HIDE DEF Silent
<1>4. Dropped(Silent) \in Editors /\ Stays(Silent, Dropped(Silent)) /\ Quiet(Dropped(Silent))
  BY <1>3, DroppedStays
<1>5. Dropped(ed) \in Editors /\ Stays(ed, Dropped(ed)) /\ Quiet(Dropped(ed))
  BY <1>1, DroppedStays
<1> QED
  BY <1>2, <1>4, <1>5 DEF Calm, Stays

(* A file is loaded, or the buffer that has it comes up.                   *)
LEMMA OpenRight ==
  ASSUME FilesInv, ed.over = "no", ed.job.pc # "write",
         NEW n \in Names, NEW reload \in BOOLEAN, NEW er \in Errors,
         Open(n, reload, er)
  PROVE  FilesInv' /\ SavedStep
<1> DEFINE x == Dropped(Silent)
<1>1. Calm(x) /\ Quiet(x)
  BY SilentCalm
<1> HIDE DEF x
<1>2. /\ Layout(x) /\ Here(x) = Here(ed) /\ Buf(x) = Buf(ed) /\ x.buf = ed.buf /\ x.bufs = ed.bufs
      /\ x.over = "no" /\ BuffersRight(x, disk, now)
  BY <1>1, CalmLaidOut
<1>3. CASE ~reload /\ Loaded(ed, n) # {}
  <2> DEFINE b == bcheck_loaded(ed, n)
             f == doedit1(x, b, FALSE)
  <2>1. Does(f)
    BY <1>3 DEF Open, x
  <2>2. b \in ToSet(ed.bufs)
    <3>1. PICK c \in ToSet(ed.bufs) : c \in Loaded(ed, n)
      BY <1>3 DEF Loaded
    <3>2. ed.bufs \in Seq(1..MaxBufs)
      BY DEF FilesInv, Layout, Editors
    <3> QED
      BY <3>1, <3>2, FirstFound DEF bcheck_loaded
  <2> HIDE DEF b
  <2>3. b \in ToSet(x.bufs) /\ \A c \in Live : c \in ToSet(x.bufs)
    BY <2>2, <1>2 DEF Live
  <2>4. Right(f)
    BY <2>3, <1>1, <1>2, ShownRight
  <2> HIDE DEF f
  <2> QED
    BY <2>1, <2>4, DoesRight
<1>4. CASE ~(~reload /\ Loaded(ed, n) # {})
  <2> DEFINE b == Unused(ed)
             r == bload(n, er)
             y == New(x, b, r)
             f == doedit1(y, b, reload)
  <2>1. HasBuffer(ed) /\ ed' = f /\ UNCHANGED <<disk, bak, dead, now, plan>>
    BY <1>4 DEF Open, x
  <2>2. r \in Buffers /\ BufferRight(r, disk, now)
    BY LoadedRight DEF FilesInv
  <2>3. HasBuffer(x) /\ b = Unused(x)
    BY <2>1, <1>2 DEF HasBuffer, Unused
  <2> HIDE DEF r, b
  <2>4. /\ Layout(y) /\ Shares(x, y) /\ Stay(x, y) /\ b \in 1..MaxBufs /\ b \in ToSet(y.bufs)
        /\ y.over = x.over /\ \A z \in 1..MaxBufs : y.buf[z] = IF z = b THEN r ELSE x.buf[z]
        /\ Here(y) = Here(x) /\ Buf(y) = Buf(x)
    BY <2>2, <2>3, <1>2, NewBuffer
  <2> HIDE DEF y
  <2>5. BuffersRight(y, disk, now)
    BY <2>2, <2>4, <1>2 DEF BuffersRight
  <2>6. Quiet(y) /\ \A c \in Live : c \in ToSet(y.bufs)
    BY <2>4, <1>1, <1>2 DEF Quiet, Shares, Stay, Live
  <2>7. Right(f)
    BY <2>4, <2>5, <2>6, <1>2, ShownRight
  <2> HIDE DEF f
  <2> QED
    BY <2>1, <2>7, EditorStep DEF FilesInv
<1> QED
  BY <1>3, <1>4

(* A save that does not come about drops what was to follow.               *)
LEMMA FailedRight ==
  ASSUME FilesInv, ed.over = "no", ed.job.pc # "write"
  PROVE  Right(Callback(ed, FALSE))
<1>1. ed.job.callback \in {"none", "query", "exit"}
  BY DEF FilesInv, Layout, Editors, Jobs
<1>2. Callback(ed, FALSE) = Dropped(ed)
  BY <1>1 DEF Callback, query_next, exdone
<1>3. Calm(Dropped(ed)) /\ Quiet(Dropped(ed))
  BY SilentCalm
<1> QED
  BY <1>2, <1>3, QuietRight, CalmRight

(* A save that is done: the buffer is right, and if the window closes with *)
(* it, its text is in the file that was written.                           *)
LEMMA SavedRight ==
  ASSUME FilesInv, ed.over = "no", ed.job.pc = "stat"
  PROVE  Right(Callback(saver(ed, ed.job.name), TRUE))
<1> DEFINE n == ed.job.name
           e == saver(ed, n)
           f == Callback(e, TRUE)
<1>0. NoName \notin Names
  BY FilesAssumption
<1>1. /\ n \in Names /\ disk[n].text = Buf(ed).text
      /\ ed.job.callback = "exit" => ed.job.rename \/ n = Buf(ed).name
      /\ ed.job.callback \in {"none", "query", "exit"}
      /\ Layout(ed) /\ BuffersRight(ed, disk, now) /\ DiskRight(disk, now) /\ now \in Nat
  BY OutsideGap DEF FilesInv, JobRight, Saving, Calls, Closes, Layout, Editors, Jobs
<1>2. /\ Touches(ed, e) /\ BuffersRight(e, disk, now) /\ Buf(e).text = Buf(ed).text
      /\ ed.job.rename \/ n = Buf(ed).name => Buf(e).name = n
  BY <1>1, saverRight
<1>3. Stored(Here(ed))
  BY <1>1 DEF Stored, Buf, Here
<1> HIDE DEF e
<1>4. /\ Layout(e) /\ e.job = ed.job /\ e.bufs = ed.bufs /\ e.over = "no" /\ Here(e) = Here(ed)
  BY <1>2 DEF Touches, Shares, Here
<1>5. CASE ed.job.callback = "none"
  <2>1. f = Dropped(e)
    BY <1>4, <1>5 DEF Callback
  <2>2. e \in Editors
    BY <1>4 DEF Layout
  <2>3. f \in Editors /\ Stays(e, f) /\ Quiet(f)
    BY <2>1, <2>2, DroppedStays
  <2> HIDE DEF f
  <2>4. Layout(f) /\ JobRight(f, disk, now)
    BY <2>3, <1>4, StaysLaidOut, QuietRight
  <2> QED
    BY <2>3, <2>4, <1>2, <1>4 DEF Right, Stays, BuffersRight, Live, e, f
<1>6. CASE ed.job.callback = "query"
  <2>1. f = QueryOn(e)
    BY <1>4, <1>6 DEF Callback, query_next
  <2>2. Asks(e, f, disk, now)
    BY <2>1, <1>4, <1>6, QueryGoesOn
  <2> HIDE DEF f
  <2> QED
    BY <2>2, <1>2, <1>4 DEF Right, Asks, BuffersRight, Live, e, f
<1>7. CASE ed.job.callback = "exit"
  <2> DEFINE r == [Buf(e) EXCEPT !.changed = FALSE]
             g == Put(e, r)
  <2>1. f = abortit(g)
    BY <1>4, <1>7 DEF Callback, exdone
  <2>2. Buf(e) \in Buffers /\ BufferRight(Buf(e), disk, now)
    BY <1>2, <1>4, HereIsBuffer DEF BuffersRight
  <2>3. /\ r \in Buffers /\ r.text = Buf(e).text /\ r.name = Buf(e).name /\ r.base = Buf(e).base
        /\ r.own = Buf(e).own /\ r.time = Buf(e).time
    BY <2>2 DEF Buffers
  <2>4. BufferRight(r, disk, now)
    BY <2>2, <2>3, <1>0, <1>1, <1>2, <1>7 DEF BufferRight, Dated, Kept
  <2> HIDE DEF r
  <2>5. Touches(e, g) /\ Here(g) = Here(e) /\ Buf(g) = r
    BY <2>3, <1>4, PutTouches
  <2> HIDE DEF g
  <2>6. BuffersRight(g, disk, now)
    BY <2>4, <2>5, <1>2, <1>4, TouchesRight
  <2>7. Layout(g) /\ g.over = "no" /\ g.bufs = ed.bufs
    BY <2>5, <1>4 DEF Touches
  <2> HIDE DEF f
  <2>8. /\ Layout(f) /\ Quiet(f) /\ Frees(g, f) /\ f.over \in {"no", "left"} /\ CloseOnly(g, f)
    BY <2>1, <2>7, abortitCloses
  <2>9. BuffersRight(f, disk, now) /\ JobRight(f, disk, now)
    BY <2>6, <2>8, <1>1, FreesRight, QuietRight
  <2>10. \A b \in Live : (b \in ToSet(f.bufs) /\ f.over = "no") \/ Stored(b)
    BY <2>5, <2>7, <2>8, <1>3, <1>4 DEF CloseOnly, Live
  <2> QED
    BY <2>8, <2>9, <2>10 DEF Right, e, f
<1> QED
  BY <1>1, <1>5, <1>6, <1>7

----------------------------------------------------------------------------
(* Commands.                                                               *)

(* A question that a command asks of the user.                             *)
LEMMA WaitsRight ==
  ASSUME FilesInv, ed.over = "no", ed.job.pc # "write",
         NEW e, Calm(e), NEW q \in {"lose", "keep", "reload"},
         q = "reload" => e.job.name \in Names
  PROVE  Right(Waits(e, q))
<1> DEFINE f == Waits(e, q)
<1>1. e \in Editors /\ q \in Questions /\ e.job \in Jobs
  BY DEF Calm, Questions, Editors
<1>2. f \in Editors /\ Stays(e, f) /\ f.ask = q /\ f.job = [e.job EXCEPT !.pc = "asked"]
  BY <1>1, WaitsStays
<1> HIDE DEF f
<1>3. f.job.pc = "asked" /\ f.job.name = e.job.name
  BY <1>1, <1>2 DEF Jobs
<1>4. JobRight(f, disk, now)
  BY <1>2, <1>3 DEF JobRight, Saving, Calls
<1>5. Calm(f)
  BY <1>2 DEF Calm, Stays
<1> QED
  BY <1>4, <1>5, CalmRight DEF f

(* Another buffer comes up in the window.                                  *)
LEMMA MovedRight ==
  ASSUME FilesInv, Ready, NEW f, Moves(Silent, f)
  PROVE  Right(f)
<1>1. Calm(Silent) /\ Silent.ask = ed.ask /\ Silent.job = ed.job
  BY SilentCalm
<1>2. f.ask = "none" /\ f.job.pc = "idle"
  BY <1>1 DEF Moves, Shares, Ready
<1>3. Asks(Silent, f, disk, now)
  BY <1>2, IdleRight DEF Moves, Asks
<1> QED
  BY <1>1, <1>3, CalmAsksRight DEF Ready

(* The commands, but for changes to the text.                              *)
LEMMA CommandRight ==
  ASSUME FilesInv, Edit \/ Switch \/ NextBuffer \/ PrevBuffer \/ NextWindow \/ Abort \/ Save
                   \/ ExitSave \/ AskExitSave \/ QuerySave
  PROVE  FilesInv' /\ SavedStep
<1>1. Ready
  BY DEF Edit, Switch, NextBuffer, PrevBuffer, NextWindow, Abort, Save, ExitSave, AskExitSave,
         QuerySave, May
<1>2. ed.over = "no" /\ ed.ask = "none" /\ ed.job.pc = "idle"
  BY <1>1 DEF Ready
<1>3. Calm(Silent) /\ Silent.ask = "none" /\ Silent.job = ed.job /\ Calm(ed)
  BY <1>2, SilentCalm
<1>4. /\ Layout(Silent) /\ Buf(Silent) = Buf(ed)
  BY <1>2, <1>3, CalmLaidOut
<1>5. Silent \in Editors /\ Silent.over = "no" /\ ed \in Editors
  BY <1>2, <1>3 DEF Calm, Stays
<1>6. count(ed, Here(ed)) # 1 => Twice(ed)
  <2>1. ed.cur \in 1..Len(ed.win) /\ ed.win[ed.cur] = Here(ed)
    BY DEF Here, FilesInv, Layout
  <2> QED
    BY <2>1, <1>5, CountTwice
<1> HIDE DEF Silent
<1>7. CASE Edit
  <2>1. PICK n \in Names, er \in Errors :
          IF Loaded(ed, n) # {} /\ ed.buf[bcheck_loaded(ed, n)].changed
          THEN Does(Waits([Silent EXCEPT !.job.name = n], "reload"))
          ELSE Open(n, Loaded(ed, n) = {}, er)
    BY <1>7 DEF Edit
  <2>2. CASE Does(Waits([Silent EXCEPT !.job.name = n], "reload"))
    <3> DEFINE x == [Silent EXCEPT !.job.name = n]
    <3>1. x \in Editors /\ Stays(Silent, x) /\ x.job.name = n
      BY <1>5 DEF Editors, Jobs, Stays
    <3>2. Does(Waits(x, "reload"))
      BY <2>2
    <3> HIDE DEF x
    <3>3. Calm(x)
      BY <3>1, <1>3 DEF Calm, Stays
    <3> QED
      BY <3>1, <3>2, <3>3, <1>2, WaitsRight, DoesRight
  <2>3. CASE Open(n, Loaded(ed, n) = {}, er)
    BY <2>3, <1>2, OpenRight
  <2> QED
    BY <2>1, <2>2, <2>3
<1>8. CASE Switch
  BY <1>2, <1>8, OpenRight DEF Switch
<1>9. CASE NextBuffer
  BY <1>1, <1>4, <1>9, unbufMoves, MovedRight, DoesRight DEF NextBuffer
<1>10. CASE PrevBuffer
  BY <1>1, <1>4, <1>10, upbufMoves, MovedRight, DoesRight DEF PrevBuffer
<1>11. CASE NextWindow
  <2> DEFINE c == (Silent.cur % Len(ed.win)) + 1
             f == [Silent EXCEPT !.cur = c]
  <2>1. Does(f)
    BY <1>11 DEF NextWindow
  <2>2. c \in 1..Len(Silent.win) /\ c \in Int
    <3>1. Silent.win = ed.win /\ Silent.cur \in Int /\ Len(ed.win) \in Nat /\ Len(ed.win) > 0
      <4>1. Silent.win = ed.win /\ Silent.win \in Seq(1..MaxBufs) /\ Silent.cur \in 1..Len(Silent.win)
        BY <1>3, <1>4 DEF Calm, Stays, Layout, Editors
      <4> QED
        BY <4>1, Members
    <3>2. Silent.cur % Len(ed.win) \in 0..(Len(ed.win) - 1)
      BY <3>1
    <3> QED
      BY <3>1, <3>2
  <2> HIDE DEF c
  <2>3. f \in Editors
    BY <2>2, <1>5 DEF Editors
  <2>4. /\ f.cur = c /\ f.win = Silent.win /\ f.bufs = Silent.bufs /\ f.buf = Silent.buf
        /\ f.ask = "none" /\ f.job = ed.job /\ f.over = "no"
    BY <1>3, <1>5 DEF Editors
  <2> HIDE DEF f
  <2>5. Layout(f)
    BY <2>2, <2>3, <2>4, <1>4 DEF Layout
  <2>6. Asks(Silent, f, disk, now)
    BY <2>4, <2>5, <1>2, <1>5, IdleRight DEF Asks
  <2> QED
    BY <2>1, <2>6, <1>2, <1>3, CalmAsksRight, DoesRight
<1>12. CASE Abort
  <2>1. CASE Modified(ed) /\ count(ed, Here(ed)) = 1
    <3>1. Does(Waits(Silent, "lose"))
      BY <1>12, <2>1 DEF Abort
    <3> QED
      BY <3>1, <1>2, <1>3, WaitsRight, DoesRight
  <2>2. CASE ~(Modified(ed) /\ count(ed, Here(ed)) = 1)
    <3>1. Does(abortit(Silent))
      BY <1>12, <2>2 DEF Abort
    <3>2. ~Buf(ed).changed \/ Twice(ed)
      BY <2>2, <1>6 DEF Modified
    <3> QED
      BY <3>1, <3>2, <1>2, <1>3, abortitRight, DoesRight
  <2> QED
    BY <2>1, <2>2
<1>13. CASE Save
  <2> DEFINE x == Request(Silent, "none", FALSE)
  <2>1. Calm(x) /\ x.ask = "none" /\ x.job.callback = "none"
    BY <1>3, RequestCalm
  <2>2. PICK n \in Names : Does(dosave1(x, n))
    BY <1>13 DEF Save
  <2> HIDE DEF x
  <2>3. Right(dosave1(x, n))
    BY <2>1, <1>2, SaveRight
  <2> QED
    BY <2>2, <2>3, DoesRight
<1>14. CASE ExitSave
  BY <1>2, <1>3, <1>14, uexsveRight DEF ExitSave
<1>15. CASE AskExitSave
  <2>1. CASE Modified(ed) /\ count(ed, Here(ed)) = 1
    <3>1. Does(Waits(Silent, "keep"))
      BY <1>15, <2>1 DEF AskExitSave
    <3> QED
      BY <3>1, <1>2, <1>3, WaitsRight, DoesRight
  <2>2. CASE ~(Modified(ed) /\ count(ed, Here(ed)) = 1)
    BY <1>15, <2>2, <1>2, <1>3, uexsveRight DEF AskExitSave
  <2> QED
    BY <2>1, <2>2
<1>16. CASE QuerySave
  <2>1. Does(uquerysave(Silent))
    BY <1>16 DEF QuerySave
  <2>2. Asks(Silent, uquerysave(Silent), disk, now)
    BY <1>4, QueryBegins
  <2> QED
    BY <2>1, <2>2, <1>2, <1>3, CalmAsksRight, DoesRight
<1> QED
  BY <1>7, <1>8, <1>9, <1>10, <1>11, <1>12, <1>13, <1>14, <1>15, <1>16

(* The question waits no more and the save goes on.                        *)
LEMMA GoesOnRight ==
  ASSUME FilesInv, ed.over = "no", ed.job.pc # "write", Saving(ed), NEW f \in Editors, Stays(ed, f), f.ask = "none",
         NEW p \in {"unlink", "copy", "open"}, NEW a \in BOOLEAN,
         f.job = [ed.job EXCEPT !.agreed = a, !.pc = p],
         p # "open" => Buf(ed).name \in Names
  PROVE  Right(f)
<1>1. ed.job \in Jobs /\ Layout(ed) /\ ed.job.name \in Names /\ Closes(ed)
  BY DEF FilesInv, Layout, Editors, JobRight
<1>2. /\ f.job.pc = p /\ f.job.name = ed.job.name /\ f.job.callback = ed.job.callback
      /\ f.job.rename = ed.job.rename
  BY <1>1 DEF Jobs
<1>3. Calm(f)
  BY DEF Calm
<1>4. Buf(f) = Buf(ed)
  BY <1>3, CalmLaidOut
<1>5. JobRight(f, disk, now)
  BY <1>1, <1>2, <1>4 DEF JobRight, Saving, Calls, Closes
<1> QED
  BY <1>3, <1>5, CalmRight

(* The backup cannot be made: the question whether to go on without.       *)
LEMMA NoBackupRight ==
  ASSUME FilesInv, ed.over = "no", ed.job.pc # "write", Saving(ed)
  PROVE  Right(Waits(ed, "nobackup"))
<1> DEFINE f == Waits(ed, "nobackup")
<1>1. ed \in Editors /\ ed.job \in Jobs /\ ed.job.name \in Names /\ Closes(ed) /\ "nobackup" \in Questions
  BY DEF FilesInv, Layout, Editors, JobRight, Questions
<1>2. f \in Editors /\ Stays(ed, f) /\ f.ask = "nobackup" /\ f.job = [ed.job EXCEPT !.pc = "asked"]
  BY <1>1, WaitsStays
<1> HIDE DEF f
<1>3. /\ f.job.pc = "asked" /\ f.job.name = ed.job.name /\ f.job.callback = ed.job.callback
      /\ f.job.rename = ed.job.rename
  BY <1>1, <1>2 DEF Jobs
<1>4. Calm(f)
  BY <1>2 DEF Calm
<1>5. Buf(f) = Buf(ed)
  BY <1>4, CalmLaidOut
<1>6. JobRight(f, disk, now)
  BY <1>1, <1>2, <1>3, <1>5 DEF JobRight, Saving, Calls, Closes
<1> QED
  BY <1>4, <1>6, CalmRight DEF f

(* The answers.                                                            *)
LEMMA AnswerRight ==
  ASSUME FilesInv, Answer
  PROVE  FilesInv' /\ SavedStep
<1>1. ed.over = "no"
  BY DEF Answer, Overwrite, SaveAnyway, NotWithoutBackup, SaveThis, NotThis, KeepChanges,
         DropChanges, Lose, Reload, NotReload, Cancel, Asked
<1>0. ed.job.pc # "write"
  BY DEF Answer, Overwrite, SaveAnyway, NotWithoutBackup, SaveThis, NotThis, KeepChanges,
         DropChanges, Lose, Reload, NotReload, Cancel, Asked, FilesInv, JobRight
<1>2. ed \in Editors /\ ed.job \in Jobs /\ Layout(ed) /\ Calm(ed) /\ Buf(ed) \in Buffers
  BY SilentCalm, HereIsBuffer DEF FilesInv, Layout, Editors
<1>3. Calm(Dropped(ed)) /\ Quiet(Dropped(ed))
  BY SilentCalm
<1>4. CASE Overwrite
  <2> DEFINE x == Agreed
             f == dosave(x)
  <2>1. Saving(ed) /\ Does(f)
    BY <1>4 DEF Overwrite, Asked, Saving
  <2>2. x \in Editors /\ Stays(ed, x) /\ x.job = [ed.job EXCEPT !.agreed = TRUE]
    BY <1>2 DEF Agreed, Editors, Jobs, Stays
  <2> HIDE DEF x
  <2>3. Layout(x) /\ Buf(x) = Buf(ed)
    BY <2>2, <1>2, StaysLaidOut
  <2>4. /\ f \in Editors /\ Stays(x, f) /\ f.ask = "none"
        /\ \E p \in {"open", "unlink"} :
             f.job = [x.job EXCEPT !.pc = p] /\ (p = "unlink" => Buf(x).name \in Names)
    BY <2>3, dosaveStarts
  <2> HIDE DEF f
  <2>5. PICK p \in {"open", "unlink"} :
          f.job = [x.job EXCEPT !.pc = p] /\ (p = "unlink" => Buf(x).name \in Names)
    BY <2>4
  <2>6. f.job = [ed.job EXCEPT !.agreed = TRUE, !.pc = p] /\ (p # "open" => Buf(ed).name \in Names)
    BY <2>2, <2>3, <2>5
  <2>7. Stays(ed, f)
    BY <2>2, <2>4 DEF Stays
  <2>8. Right(f)
    BY <1>0, <2>1, <2>4, <2>6, <2>7, <1>1, GoesOnRight
  <2> QED
    BY <2>1, <2>8, DoesRight
<1>5. CASE SaveAnyway
  <2> DEFINE f == [Agreed EXCEPT !.ask = "none", !.job.pc = "open"]
  <2>1. Saving(ed) /\ Does(f)
    BY <1>5 DEF SaveAnyway, Asked, Saving
  <2>2. /\ f \in Editors /\ Stays(ed, f) /\ f.ask = "none"
        /\ f.job = [ed.job EXCEPT !.agreed = TRUE, !.pc = "open"]
    BY <1>2 DEF Agreed, Editors, Jobs, Stays
  <2> HIDE DEF f
  <2>3. Right(f)
    BY <1>0, <2>1, <2>2, <1>1, GoesOnRight
  <2> QED
    BY <2>1, <2>3, DoesRight
<1>6. CASE NotWithoutBackup
  BY <1>0, <1>1, <1>6, FailedRight, DoesRight DEF NotWithoutBackup
<1>7. CASE SaveThis
  <2> DEFINE x == [ed EXCEPT !.ask = "none"]
  <2>1. ed.job.callback = "query"
    BY <1>7 DEF SaveThis, Asked, FilesInv, JobRight
  <2>2. PICK n \in Names : Does(dosave1(x, n))
    BY <1>2, <1>7 DEF SaveThis, Buffers
  <2>3. Calm(x) /\ x.ask = "none" /\ x.job = ed.job
    BY <1>2 DEF Calm, Stays, Editors
  <2> HIDE DEF x
  <2>4. Right(dosave1(x, n))
    BY <1>0, <2>1, <2>3, <1>1, SaveRight
  <2> QED
    BY <2>2, <2>4, DoesRight
<1>8. CASE NotThis
  <2> DEFINE x == [ed EXCEPT !.job.not_saved = @ \/ Modified(ed)]
  <2>1. ed.job.callback = "query" /\ Does(QueryOn(x))
    BY <1>8 DEF NotThis, Asked, FilesInv, JobRight
  <2>2. (ed.job.not_saved \/ Modified(ed)) \in BOOLEAN
    OBVIOUS
  <2>3. x \in Editors /\ Stays(ed, x) /\ x.job.callback = ed.job.callback
    BY <2>2, <1>2 DEF Stays, Editors, Jobs
  <2> HIDE DEF x
  <2>4. Calm(x)
    BY <2>3 DEF Calm
  <2>5. Layout(x)
    BY <2>4, <1>1, CalmLaidOut
  <2>6. Asks(x, QueryOn(x), disk, now)
    BY <2>1, <2>3, <2>5, QueryGoesOn
  <2> QED
    BY <1>0, <2>1, <2>4, <2>6, <1>1, CalmAsksRight, DoesRight
<1>9. CASE KeepChanges
  <2>1. Dropped(ed).ask = "none" /\ uexsve(Dropped(ed))
    BY <1>3, <1>9 DEF KeepChanges, Quiet
  <2> QED
    BY <1>0, <2>1, <1>1, <1>3, uexsveRight
<1>10. CASE DropChanges \/ Lose
  <2>1. MayLose /\ Does(abortit(ed))
    BY <1>10 DEF DropChanges, Lose, Asked, MayLose
  <2> QED
    BY <1>0, <2>1, <1>1, <1>2, abortitRight, DoesRight
<1>11. CASE Reload \/ NotReload
  <2>1. ed.job.name \in Names
    BY <1>11 DEF Reload, NotReload, Asked, FilesInv, JobRight
  <2>2. \E er \in Errors, r \in BOOLEAN : Open(ed.job.name, r, er)
    BY <1>11 DEF Reload, NotReload, Errors
  <2> QED
    BY <1>0, <2>1, <2>2, <1>1, OpenRight
<1>12. CASE Cancel
  <2>1. Right(Dropped(ed))
    BY <1>0, <1>1, <1>3, QuietRight, CalmRight
  <2> QED
    BY <2>1, <1>12, DoesRight DEF Cancel
<1> QED
  BY <1>4, <1>5, <1>6, <1>7, <1>8, <1>9, <1>10, <1>11, <1>12 DEF Answer

----------------------------------------------------------------------------
(* The calls of a save.                                                    *)

(* The next call: what the save was asked for stays as it is.              *)
LEMMA ThenSaves ==
  ASSUME FilesInv, ed.over = "no", ed.job.pc \in Calls, NEW p \in Calls
  PROVE  /\ Calm(Then(p)) /\ Then(p).ask = "none" /\ Then(p).job = [ed.job EXCEPT !.pc = p]
         /\ Then(p).job.pc = p /\ Then(p).job.name = ed.job.name
         /\ Then(p).job.callback = ed.job.callback /\ Then(p).job.rename = ed.job.rename
         /\ Saving(ed) /\ ed.job.name \in Names /\ Closes(ed)
<1>1. ed \in Editors /\ ed.job \in Jobs
  BY DEF FilesInv, Layout, Editors
<1>2. ed.ask = "none" /\ Saving(ed) /\ ed.job.name \in Names /\ Closes(ed)
  <2>1. ed.ask # "none" <=> ed.job.pc = "asked"
    BY DEF FilesInv, JobRight
  <2>2. ed.job.pc # "asked" /\ Saving(ed)
    BY DEF Calls, Saving
  <2> QED
    BY <2>1, <2>2 DEF FilesInv, JobRight
<1>3. Then(p) \in Editors /\ Stays(ed, Then(p)) /\ Then(p).ask = ed.ask /\ Then(p).job = [ed.job EXCEPT !.pc = p]
  BY <1>1 DEF Then, Editors, Jobs, Stays, Calls
<1>4. /\ Then(p).job.pc = p /\ Then(p).job.name = ed.job.name
      /\ Then(p).job.callback = ed.job.callback /\ Then(p).job.rename = ed.job.rename
  BY <1>1, <1>3 DEF Jobs
<1> QED
  BY <1>2, <1>3, <1>4 DEF Calm

(* The old backup is removed.                                              *)
LEMMA UnlinkRight ==
  ASSUME FilesInv, Unlink
  PROVE  FilesInv' /\ SavedStep
<1> DEFINE f == Then("copy")
<1>1. /\ ed.over = "no" /\ ed.job.pc = "unlink" /\ ed' = f
      /\ bak' = [bak EXCEPT ![Buf(ed).name] = Missing] /\ UNCHANGED <<disk, dead, now, plan>>
  BY DEF Unlink, At
<1>2. Buf(ed).name \in Names /\ now \in Nat /\ bak \in Times(now)
  BY <1>1 DEF FilesInv, JobRight
<1>3. /\ Calm(f) /\ f.ask = "none" /\ f.job.pc = "copy" /\ f.job.name = ed.job.name
      /\ f.job.callback = ed.job.callback /\ f.job.rename = ed.job.rename
      /\ ed.job.name \in Names /\ Closes(ed)
  BY <1>1, ThenSaves DEF Calls
<1> HIDE DEF f
<1>4. Buf(f) = Buf(ed)
  BY <1>1, <1>3, CalmLaidOut
<1>5. JobRight(f, disk, now)
  BY <1>2, <1>3, <1>4 DEF JobRight, Saving, Calls, Closes
<1>6. Right(f)
  BY <1>1, <1>3, <1>5, CalmRight
<1>7. bak' \in Times(now)
  BY <1>1, <1>2 DEF Times, Missing, NoText
<1> QED
  BY <1>1, <1>6, <1>7, EditorStep

(* The backup is made.                                                     *)
LEMMA CopyRight ==
  ASSUME FilesInv, Copy
  PROVE  FilesInv' /\ SavedStep
<1> DEFINE g == Then("open")
           r == [Buf(ed) EXCEPT !.backup = TRUE]
           f == Put(g, r)
<1>1. /\ ed.over = "no" /\ ed.job.pc = "copy" /\ ed' = f
      /\ bak' = [bak EXCEPT ![Buf(ed).name] = disk[Buf(ed).name]] /\ UNCHANGED <<disk, dead, now, plan>>
  BY DEF Copy, At
<1>2. Buf(ed).name \in Names /\ now \in Nat /\ bak \in Times(now) /\ disk \in Times(now)
  BY <1>1 DEF FilesInv, JobRight, DiskRight
<1>3. /\ Calm(g) /\ g.ask = "none" /\ g.job.pc = "open" /\ g.job.name = ed.job.name
      /\ g.job.callback = ed.job.callback /\ g.job.rename = ed.job.rename
      /\ ed.job.name \in Names /\ Closes(ed)
  BY <1>1, ThenSaves DEF Calls
<1> HIDE DEF g
<1>4. /\ Layout(g) /\ Here(g) = Here(ed) /\ Buf(g) = Buf(ed) /\ g.bufs = ed.bufs /\ g.over = "no"
      /\ BuffersRight(g, disk, now) /\ Buf(ed) \in Buffers /\ BufferRight(Buf(ed), disk, now)
  <2>1. /\ Layout(g) /\ Here(g) = Here(ed) /\ Buf(g) = Buf(ed) /\ g.bufs = ed.bufs /\ g.over = "no"
        /\ BuffersRight(g, disk, now)
    BY <1>1, <1>3, CalmLaidOut
  <2> QED
    BY <2>1, HereIsBuffer DEF BuffersRight
<1>5. /\ r \in Buffers /\ r.text = Buf(ed).text /\ r.name = Buf(ed).name /\ r.base = Buf(ed).base
      /\ r.own = Buf(ed).own /\ r.time = Buf(ed).time /\ r.changed = Buf(ed).changed
      /\ r.cut = Buf(ed).cut
  BY <1>4 DEF Buffers
<1> HIDE DEF r
<1>6. Touches(g, f) /\ Buf(f) = r
  BY <1>4, <1>5, PutTouches
<1> HIDE DEF f
<1>7. BuffersRight(f, disk, now)
  <2>1. BufferRight(r, disk, now)
    BY <1>4, <1>5 DEF BufferRight, Dated, Kept
  <2> QED
    BY <2>1, <1>4, <1>6, TouchesRight
<1>8. f.ask = "none" /\ f.job = g.job /\ f.bufs = ed.bufs /\ f.over = "no" /\ Layout(f)
  BY <1>3, <1>4, <1>6 DEF Touches, Shares
<1>9. JobRight(f, disk, now)
  BY <1>3, <1>5, <1>6, <1>8 DEF JobRight, Saving, Calls, Closes
<1>10. Right(f)
  BY <1>7, <1>8, <1>9 DEF Right, Live
<1>11. bak' \in Times(now)
  <2>1. disk[Buf(ed).name] \in [text : Int, time : 0..now]
    BY <1>2 DEF Times
  <2> QED
    BY <2>1, <1>1, <1>2 DEF Times
<1> QED
  BY <1>1, <1>10, <1>11, EditorStep

----------------------------------------------------------------------------
(* Steps that change a file.                                               *)

(* A second later, what was right is right.                                *)
LEMMA TimeGoes ==
  ASSUME NEW t \in Nat
  PROVE  /\ \A d : DiskRight(d, t) => DiskRight(d, t + 1)
         /\ \A d \in Times(t) : d \in Times(t + 1)
         /\ \A d, r : BufferRight(r, d, t) /\ r \in Buffers => BufferRight(r, d, t + 1)
<1>1. 0..t \subseteq 0..(t + 1) /\ 1..t \subseteq 1..(t + 1)
  OBVIOUS
<1>2. \A d \in Times(t) : d \in Times(t + 1)
  BY <1>1 DEF Times
<1>3. \A d, r : BufferRight(r, d, t) /\ r \in Buffers => BufferRight(r, d, t + 1)
  BY <1>1 DEF BufferRight, Dated, Buffers
<1> QED
  BY <1>2, <1>3 DEF DiskRight

(* A file written by others, at a time that a buffer does not know: the    *)
(* buffer is right as before.                                              *)
LEMMA OthersWrite ==
  ASSUME NEW d, NEW t, NEW r, BufferRight(r, d, t), NEW n, NEW x, x.time \notin r.own \cup {r.base},
         d \in [Names -> [text : Int, time : Int]], r.name \in Names \cup {NoName}
  PROVE  BufferRight(r, [d EXCEPT ![n] = x], t)
<1> DEFINE c == [d EXCEPT ![n] = x]
<1>1. r.name # NoName => c[r.name] = IF r.name = n THEN x ELSE d[r.name]
  OBVIOUS
<1> HIDE DEF c
<1> QED
  BY <1>1 DEF BufferRight, Kept, c

(* What a buffer knows is in the past.                                     *)
LEMMA NotYet ==
  ASSUME NEW r, NEW t \in Nat, Dated(r, t)
  PROVE  t + 1 \notin r.own \cup {r.base} /\ 0 \notin r.own \cup {r.base}
BY DEF Dated

(* A changed text is nobody's yet.                                         *)
LEMMA ModifyRight ==
  ASSUME FilesInv, Modify
  PROVE  FilesInv' /\ SavedStep
<1> DEFINE r == [Buf(ed) EXCEPT !.text = now + 1, !.changed = TRUE]
           f == Put(Silent, r)
<1>1. /\ ed.over = "no" /\ ed.ask = "none" /\ ed.job.pc = "idle" /\ now' = now + 1 /\ ed' = f
      /\ UNCHANGED <<disk, bak, dead, plan>>
  BY DEF Modify, May, Ready
<1>2. Calm(Silent) /\ Silent.ask = ed.ask /\ Silent.job = ed.job
  BY SilentCalm
<1> HIDE DEF Silent
<1>3. /\ Layout(Silent) /\ Here(Silent) = Here(ed) /\ Buf(Silent) = Buf(ed) /\ Silent.bufs = ed.bufs
      /\ Silent.over = "no" /\ BuffersRight(Silent, disk, now)
      /\ Buf(ed) \in Buffers /\ BufferRight(Buf(ed), disk, now)
  <2>1. /\ Layout(Silent) /\ Here(Silent) = Here(ed) /\ Buf(Silent) = Buf(ed) /\ Silent.bufs = ed.bufs
        /\ Silent.over = "no" /\ BuffersRight(Silent, disk, now)
    BY <1>1, <1>2, CalmLaidOut
  <2> QED
    BY <2>1, HereIsBuffer DEF BuffersRight
<1>4. now \in Nat /\ now \in Nat \ {0} /\ now + 1 \in Nat \ {0} /\ now + 1 \in Int
  BY DEF FilesInv
<1>5. /\ r \in Buffers /\ r.changed = TRUE /\ r.base = Buf(ed).base /\ r.own = Buf(ed).own
      /\ r.time = Buf(ed).time
  BY <1>3, <1>4 DEF Buffers
<1> HIDE DEF r
<1>6. Touches(Silent, f) /\ Buf(f) = r
  BY <1>3, <1>5, PutTouches
<1> HIDE DEF f
<1>7. BuffersRight(f, disk, now)
  <2>1. BufferRight(r, disk, now)
    BY <1>3, <1>5 DEF BufferRight, Dated
  <2> QED
    BY <2>1, <1>3, <1>6, TouchesRight
<1>8. /\ f.ask = "none" /\ f.job.pc = "idle" /\ f.bufs = ed.bufs /\ f.over = "no" /\ Layout(f)
  BY <1>1, <1>2, <1>3, <1>6 DEF Touches, Shares
<1>9. BuffersRight(f, disk, now + 1)
  BY <1>4, <1>7, <1>8, TimeGoes DEF BuffersRight, Layout, Editors
<1>10. DiskRight(disk, now + 1) /\ bak \in Times(now + 1)
  BY <1>4, TimeGoes DEF FilesInv
<1>11. JobRight(f, disk, now + 1)
  BY <1>8, IdleRight
<1>12. FilesInv'
  BY <1>1, <1>4, <1>8, <1>9, <1>10, <1>11, RightIsAlmost DEF FilesInv
<1> QED
  BY <1>1, <1>8, <1>12 DEF SavedStep, Goes, Live

(* Another program writes, or removes, a file.                             *)
LEMMA ExternalRight ==
  ASSUME FilesInv, NEW n \in Names, External(n)
  PROVE  FilesInv' /\ SavedStep
<1> DEFINE x == [text |-> now + 1, time |-> now + 1]
           d == [disk EXCEPT ![n] = x]
<1>1. /\ ed.over = "no" /\ ed.job.pc \in {"idle", "asked"} /\ disk' = d /\ now' = now + 1
      /\ UNCHANGED <<bak, dead, ed, plan>>
  BY DEF External, Outside, Written
<1>2. /\ now \in Nat \ {0} /\ DiskRight(disk, now) /\ bak \in Times(now) /\ Layout(ed)
      /\ BuffersRight(ed, disk, now) /\ JobRight(ed, disk, now)
  BY <1>1, OutsideGap DEF FilesInv
<1>3. now + 1 \in Nat \ {0} /\ now \in Nat
  BY <1>2
<1>4. DiskRight(disk, now + 1) /\ bak \in Times(now + 1)
  BY <1>2, <1>3, TimeGoes
<1>5. DiskRight(d, now + 1)
  <2>1. x \in [text : Int, time : 0..(now + 1)] /\ x.time >= 1
    BY <1>3
  <2> HIDE DEF x
  <2> QED
    BY <2>1, <1>4 DEF DiskRight, Times
<1>6. ASSUME NEW b \in 1..MaxBufs PROVE BufferRight(ed.buf[b], d, now + 1)
  <2>1. ed.buf[b] \in Buffers /\ BufferRight(ed.buf[b], disk, now)
    BY <1>2 DEF Layout, Editors, BuffersRight
  <2>2. x.time = now + 1
    OBVIOUS
  <2> HIDE DEF x
  <2>3. x.time \notin ed.buf[b].own \cup {ed.buf[b].base}
    BY <2>1, <2>2, <1>3, NotYet DEF BufferRight
  <2>4. disk \in [Names -> [text : Int, time : Int]]
    BY <1>2, <1>3 DEF DiskRight, Times
  <2>5. ed.buf[b].name \in Names \cup {NoName}
    BY <2>1 DEF Buffers
  <2>6. BufferRight(ed.buf[b], d, now)
    BY <2>1, <2>3, <2>4, <2>5, OthersWrite
  <2> HIDE DEF d
  <2> QED
    BY <2>1, <2>6, <1>3, TimeGoes
<1> HIDE DEF d
<1>7. JobRight(ed, d, now + 1)
  BY <1>1, <1>2 DEF JobRight, Saving, Calls, Closes
<1>8. FilesInv'
  BY <1>1, <1>2, <1>3, <1>4, <1>5, <1>6, <1>7 DEF FilesInv, AlmostRight
<1> QED
  BY <1>1, <1>8 DEF SavedStep, Goes, Live

(* A file that is not there has no time that a buffer knows.              *)
LEMMA RemovedRight ==
  ASSUME FilesInv, NEW n \in Names, Removed(n)
  PROVE  FilesInv' /\ SavedStep
<1> DEFINE d == [disk EXCEPT ![n] = Missing]
<1>1. /\ ed.over = "no" /\ ed.job.pc \in {"idle", "asked"} /\ disk' = d
      /\ UNCHANGED <<bak, dead, ed, now, plan>>
  BY DEF Removed, Outside
<1>2. /\ now \in Nat /\ DiskRight(disk, now) /\ bak \in Times(now) /\ Layout(ed)
      /\ BuffersRight(ed, disk, now) /\ JobRight(ed, disk, now)
  BY <1>1, OutsideGap DEF FilesInv
<1>3. DiskRight(d, now)
  BY <1>2 DEF DiskRight, Times, Missing, NoText
<1>4. ASSUME NEW b \in 1..MaxBufs PROVE BufferRight(ed.buf[b], d, now)
  <2>1. ed.buf[b] \in Buffers /\ BufferRight(ed.buf[b], disk, now)
    BY <1>2 DEF Layout, Editors, BuffersRight
  <2>2. Missing.time = 0
    BY DEF Missing
  <2>3. Missing.time \notin ed.buf[b].own \cup {ed.buf[b].base}
    BY <2>1, <2>2, <1>2, NotYet DEF BufferRight
  <2>4. disk \in [Names -> [text : Int, time : Int]]
    BY <1>2 DEF DiskRight, Times
  <2>5. ed.buf[b].name \in Names \cup {NoName}
    BY <2>1 DEF Buffers
  <2> QED
    BY <2>1, <2>3, <2>4, <2>5, OthersWrite
<1> HIDE DEF d
<1>5. JobRight(ed, d, now)
  BY <1>1, <1>2 DEF JobRight, Saving, Calls, Closes
<1>6. FilesInv'
  BY <1>1, <1>2, <1>3, <1>4, <1>5 DEF FilesInv, AlmostRight
<1> QED
  BY <1>1, <1>6 DEF SavedStep, Goes, Live

(* A signal: DEADJOE takes what counts as changed.                         *)
LEMMA SignalRight ==
  ASSUME FilesInv, Signal
  PROVE  FilesInv' /\ SavedStep
<1> DEFINE f == [ed EXCEPT !.over = "killed"]
<1>1. /\ ed.over = "no" /\ ed' = f /\ UNCHANGED <<disk, bak, now, plan>>
      /\ dead' = dead \cup {ed.buf[b].text : b \in {x \in ToSet(ed.bufs) : ed.buf[x].changed}}
  BY DEF Signal
<1>2. ed \in Editors
  BY DEF FilesInv, Layout
<1>3. /\ f \in Editors /\ f.buf = ed.buf /\ f.bufs = ed.bufs /\ f.win = ed.win /\ f.cur = ed.cur
      /\ f.ask = ed.ask /\ f.job = ed.job /\ f.over = "killed"
  BY <1>2 DEF Editors
<1> HIDE DEF f
<1>4. Layout(f) /\ AlmostRight(f, disk, now)
  BY <1>3 DEF FilesInv, Layout, AlmostRight, InGap, Here
<1>5. JobRight(f, disk, now)
  BY <1>3 DEF FilesInv, JobRight, Saving, Closes, Writing, Buf, Here
<1>6. \A b \in Live' : f.buf[b].changed => f.buf[b].text \in dead'
  BY <1>1, <1>3 DEF Live
<1>7. FilesInv'
  BY <1>1, <1>4, <1>5, <1>6 DEF FilesInv
<1> QED
  BY <1>1, <1>3, <1>7 DEF SavedStep, Goes, Live

(* The file is opened, and cut short: from now on other buffers that have  *)
(* its name know nothing of it, and this one's text is in no file.         *)
LEMMA OpenToWriteRight ==
  ASSUME FilesInv, OpenToWrite
  PROVE  FilesInv' /\ SavedStep
<1> DEFINE g == Then("write")
           n == ed.job.name
           r == [Buf(ed) EXCEPT !.own = @ \cup {now + 1}]
           f == Put(g, r)
           x == [text |-> Torn, time |-> now + 1]
           d == [disk EXCEPT ![n] = x]
           t == now + 1
<1>1. /\ ed.over = "no" /\ ed.job.pc = "open" /\ disk' = d /\ now' = t /\ ed' = f
      /\ UNCHANGED <<bak, dead, plan>>
  BY DEF OpenToWrite, At, Written
<1>2. /\ now \in Nat \ {0} /\ DiskRight(disk, now) /\ bak \in Times(now) /\ Layout(ed)
      /\ BuffersRight(ed, disk, now) /\ plan \in Scenarios
  BY <1>1, OutsideGap DEF FilesInv
<1>3. t \in Nat \ {0} /\ now \in Nat /\ t = now + 1 /\ t \in Int
  BY <1>2
<1>4. /\ Calm(g) /\ g.ask = "none" /\ g.job.pc = "write" /\ g.job.name = n
      /\ g.job.callback = ed.job.callback /\ g.job.rename = ed.job.rename
      /\ n \in Names /\ Closes(ed)
  BY <1>1, ThenSaves DEF Calls
<1> HIDE DEF g, n
<1>5. /\ Layout(g) /\ Here(g) = Here(ed) /\ Buf(g) = Buf(ed) /\ g.bufs = ed.bufs /\ g.buf = ed.buf
      /\ g.over = "no"
  BY <1>1, <1>4, CalmLaidOut
<1>6. Buf(ed) \in Buffers /\ BufferRight(Buf(ed), disk, now) /\ Here(ed) \in 1..MaxBufs
  BY <1>2, HereIsBuffer DEF BuffersRight
<1>7. /\ r \in Buffers /\ r.text = Buf(ed).text /\ r.name = Buf(ed).name /\ r.base = Buf(ed).base
      /\ r.own = Buf(ed).own \cup {t} /\ r.time = Buf(ed).time /\ r.changed = Buf(ed).changed
      /\ r.cut = Buf(ed).cut
  <2>1. Buf(ed).own \cup {now + 1} \in SUBSET Int
    BY <1>3, <1>6 DEF Buffers
  <2> QED
    BY <2>1, <1>6 DEF Buffers
<1> HIDE DEF r
<1>8. Touches(g, f) /\ Buf(f) = r /\ Here(f) = Here(ed)
  BY <1>5, <1>7, PutTouches
<1> HIDE DEF f
<1>9. /\ Layout(f) /\ f.ask = "none" /\ f.job = g.job /\ f.bufs = ed.bufs /\ f.over = "no"
      /\ \A b \in 1..MaxBufs : b # Here(ed) => f.buf[b] = ed.buf[b]
      /\ f.buf[Here(ed)] = r
  BY <1>4, <1>5, <1>8 DEF Touches, Shares, Buf, Here
<1>10. x \in [text : Int, time : 0..t] /\ x.time = t /\ x.time >= 1
  BY <1>3 DEF Torn
<1> HIDE DEF t, x
<1>11. DiskRight(disk, t) /\ bak \in Times(t)
  BY <1>2, <1>3, TimeGoes
<1>12. DiskRight(d, t)
  BY <1>10, <1>11 DEF DiskRight, Times
<1>13. disk \in [Names -> [text : Int, time : Int]] /\ \A m \in Names : disk[m].time <= now
  BY <1>2, <1>3 DEF DiskRight, Times
<1>14. d[n].time = t /\ \A m \in Names : m # n => d[m] = disk[m]
  BY <1>4, <1>10, <1>13
<1>15. ASSUME NEW b \in 1..MaxBufs, b # Here(ed)
       PROVE  BufferRight(f.buf[b], d, t) /\ t \notin f.buf[b].own \cup {f.buf[b].base}
  <2>1. ed.buf[b] \in Buffers /\ BufferRight(ed.buf[b], disk, now) /\ f.buf[b] = ed.buf[b]
    BY <1>2, <1>9, <1>15 DEF Layout, Editors, BuffersRight
  <2>2. t \notin ed.buf[b].own \cup {ed.buf[b].base}
    BY <2>1, <1>3, NotYet DEF BufferRight
  <2>3. ed.buf[b].name \in Names \cup {NoName}
    BY <2>1 DEF Buffers
  <2>4. BufferRight(ed.buf[b], d, now)
    BY <2>1, <2>2, <2>3, <1>10, <1>13, OthersWrite
  <2> HIDE DEF d
  <2> QED
    BY <2>1, <2>2, <2>4, <1>3, TimeGoes
<1> HIDE DEF d
<1>16. BufferRight(r, d, t) \/ (r.name = n /\ Dated(r, t))
  <2>1. Dated(r, t)
    <3>1. 1..now \subseteq 1..t /\ t \in 1..t
      BY <1>3
    <3>2. r.own \subseteq 1..t /\ r.base \in {-1} \cup 1..t
      BY <3>1, <1>6, <1>7 DEF BufferRight, Dated
    <3>3. r.time <= t
      BY <1>3, <1>6, <1>7 DEF BufferRight, Dated, Buffers
    <3> QED
      BY <3>2, <3>3 DEF Dated
  <2>2. CASE r.name = n
    BY <2>1, <2>2
  <2>3. CASE r.name # n
    <3>1. r.name # NoName => r.name \in Names
      BY <1>7 DEF Buffers
    <3>2. r.name # NoName => d[r.name] = disk[r.name] /\ disk[r.name].time # t
      <4>1. \A m \in Names : disk[m].time # t
        BY <1>3, <1>13
      <4> QED
        BY <3>1, <4>1, <2>3, <1>14
    <3> QED
      BY <2>1, <3>2, <1>6, <1>7 DEF BufferRight, Kept
  <2> QED
    BY <2>2, <2>3
<1>17. AlmostRight(f, d, t)
  BY <1>4, <1>8, <1>9, <1>15, <1>16 DEF AlmostRight, InGap
<1>18. JobRight(f, d, t)
  <2>1. Writing(f, d, t)
    <3>1. d[f.job.name].time = t
      BY <1>4, <1>9, <1>14
    <3>2. \A b \in 1..MaxBufs : b # Here(f) => t \notin f.buf[b].own \cup {f.buf[b].base}
      BY <1>8, <1>15
    <3> QED
      BY <3>1, <3>2 DEF Writing
  <2>2. Closes(f)
    BY <1>4, <1>7, <1>8, <1>9 DEF Closes, n
  <2> QED
    BY <2>1, <2>2, <1>4, <1>9 DEF JobRight, Saving, Calls
<1>19. FilesInv'
  BY <1>1, <1>2, <1>3, <1>9, <1>11, <1>12, <1>17, <1>18 DEF FilesInv
<1> QED
  BY <1>1, <1>9, <1>19 DEF SavedStep, Goes, Live

(* The text is written.                                                    *)
LEMMA WriteRight ==
  ASSUME FilesInv, Write
  PROVE  FilesInv' /\ SavedStep
<1> DEFINE f == Then("stat")
           n == ed.job.name
           x == [disk[n] EXCEPT !.text = Buf(ed).text]
           d == [disk EXCEPT ![n] = x]
<1>1. /\ ed.over = "no" /\ ed.job.pc = "write" /\ disk' = d /\ ed' = f
      /\ UNCHANGED <<bak, dead, now, plan>>
  BY DEF Write, At
<1>2. /\ now \in Nat \ {0} /\ DiskRight(disk, now) /\ bak \in Times(now) /\ Layout(ed)
      /\ AlmostRight(ed, disk, now) /\ plan \in Scenarios /\ Writing(ed, disk, now)
  BY <1>1 DEF FilesInv, JobRight
<1>3. /\ Calm(f) /\ f.ask = "none" /\ f.job.pc = "stat" /\ f.job.name = n
      /\ f.job.callback = ed.job.callback /\ f.job.rename = ed.job.rename
      /\ n \in Names /\ Closes(ed)
  BY <1>1, ThenSaves DEF Calls
<1> HIDE DEF f, n
<1>4. /\ Layout(f) /\ Here(f) = Here(ed) /\ Buf(f) = Buf(ed) /\ f.bufs = ed.bufs /\ f.buf = ed.buf
      /\ f.over = "no"
  BY <1>1, <1>3, CalmLaidOut
<1>5. Buf(ed) \in Buffers /\ Buf(ed) = ed.buf[Here(ed)]
  BY <1>2, HereIsBuffer
<1>6. disk[n] \in [text : Int, time : 0..now] /\ disk[n].time = now /\ Buf(ed).text \in Int
  BY <1>2, <1>3, <1>5 DEF DiskRight, Times, Writing, Buffers, n
<1>7. x \in [text : Int, time : 0..now] /\ x.time = now /\ x.text = Buf(ed).text
  BY <1>6
<1> HIDE DEF x
<1>8. DiskRight(d, now)
  <2>1. now >= 1
    BY <1>2
  <2> QED
    BY <2>1, <1>2, <1>7 DEF DiskRight, Times
<1>9. disk \in [Names -> [text : Int, time : Int]]
  BY <1>2 DEF DiskRight, Times
<1>10. d[n] = x /\ \A m \in Names : m # n => d[m] = disk[m]
  BY <1>3, <1>9
<1>11. ASSUME NEW b \in 1..MaxBufs PROVE BufferRight(ed.buf[b], d, now)
  <2>0. ed.buf[b] \in Buffers
    BY <1>2 DEF Layout, Editors
  <2>1. BufferRight(ed.buf[b], disk, now) \/ (b = Here(ed) /\ Buf(ed).name = n /\ Dated(Buf(ed), now))
    BY <1>2, <1>5 DEF AlmostRight, InGap, n
  <2>2. ed.buf[b].name \in Names \cup {NoName}
    BY <2>0 DEF Buffers
  <2>3. CASE b # Here(ed)
    <3>1. x.time \notin ed.buf[b].own \cup {ed.buf[b].base}
      BY <2>3, <1>2, <1>7 DEF Writing
    <3> QED
      BY <3>1, <2>0, <2>1, <2>2, <2>3, <1>9, OthersWrite
  <2>4. CASE b = Here(ed) /\ Buf(ed).name = n
    <3>1. n # NoName
      BY <1>3, FilesAssumption
    <3>2. d[n].text = ed.buf[b].text
      BY <2>4, <1>5, <1>7, <1>10
    <3>3. Dated(ed.buf[b], now)
      BY <2>1, <2>4, <1>5 DEF BufferRight
    <3> HIDE DEF d
    <3> QED
      BY <3>1, <3>2, <3>3, <2>4, <1>5 DEF BufferRight, Kept
  <2>5. CASE b = Here(ed) /\ Buf(ed).name # n
    <3>1. ed.buf[b].name # NoName => d[ed.buf[b].name] = disk[ed.buf[b].name]
      BY <2>2, <2>5, <1>5, <1>10
    <3>2. BufferRight(ed.buf[b], disk, now)
      BY <2>1, <2>5
    <3> HIDE DEF d
    <3> QED
      BY <3>1, <3>2 DEF BufferRight, Kept
  <2> QED
    BY <2>3, <2>4, <2>5
<1> HIDE DEF d
<1>12. BuffersRight(f, d, now)
  BY <1>4, <1>11 DEF BuffersRight
<1>13. JobRight(f, d, now)
  BY <1>3, <1>4, <1>7, <1>10 DEF JobRight, Saving, Calls, Closes, n
<1>14. FilesInv'
  BY <1>1, <1>2, <1>4, <1>8, <1>12, <1>13, RightIsAlmost DEF FilesInv
<1> QED
  BY <1>1, <1>4, <1>14 DEF SavedStep, Goes, Live

(* The write fails: the user is told, and what was to follow is dropped.   *)
LEMMA NoWriteRight ==
  ASSUME FilesInv, NoWrite
  PROVE  FilesInv' /\ SavedStep
<1> DEFINE g == CutShort(ed)
           f == Callback(g, FALSE)
           r == [Buf(ed) EXCEPT !.cut = TRUE]
<1>1. ed.over = "no" /\ ed.job.pc = "write" /\ Fails(f)
  BY DEF NoWrite, At
<1>2. Layout(ed) /\ AlmostRight(ed, disk, now) /\ ed \in Editors
  BY DEF FilesInv, Layout
<1>3. Here(ed) \in 1..MaxBufs /\ Buf(ed) \in Buffers /\ Buf(ed) = ed.buf[Here(ed)]
  BY <1>2, HereIsBuffer
<1>4. /\ r \in Buffers /\ r.text = Buf(ed).text /\ r.name = Buf(ed).name /\ r.base = Buf(ed).base
      /\ r.own = Buf(ed).own /\ r.time = Buf(ed).time /\ r.changed = Buf(ed).changed /\ r.cut
  BY <1>3 DEF Buffers
<1> HIDE DEF r
<1>5. /\ g \in Editors /\ Layout(g) /\ g.bufs = ed.bufs /\ g.over = "no" /\ g.job = ed.job
      /\ BuffersRight(g, disk, now)
  <2>1. CASE Buf(ed).name = ed.job.name
    <3>1. g = Put(ed, r)
      BY <2>1 DEF CutShort, r
    <3> HIDE DEF g
    <3>2. Touches(ed, g) /\ \A b \in 1..MaxBufs : g.buf[b] = IF b = Here(ed) THEN r ELSE ed.buf[b]
      <4>1. Touches(ed, g) /\ Here(g) = Here(ed) /\ Buf(g) = r
        BY <3>1, <1>2, <1>4, PutTouches
      <4>2. g.buf[Here(ed)] = r
        BY <4>1 DEF Buf, Here
      <4> QED
        BY <4>1, <4>2 DEF Touches
    <3>3. BufferRight(r, disk, now)
      BY <1>2, <1>3, <1>4 DEF AlmostRight, BufferRight, Dated, Kept
    <3>4. \A b \in 1..MaxBufs : b # Here(ed) => BufferRight(ed.buf[b], disk, now)
      BY <1>2 DEF AlmostRight, InGap
    <3>5. BuffersRight(g, disk, now)
      BY <3>2, <3>3, <3>4 DEF BuffersRight
    <3> QED
      BY <3>2, <3>5, <1>1, <1>2 DEF Touches, Shares, Layout
  <2>2. CASE Buf(ed).name # ed.job.name
    <3>1. g = ed
      BY <2>2 DEF CutShort
    <3>2. BuffersRight(ed, disk, now)
      BY <2>2, <1>2, <1>3 DEF AlmostRight, InGap, BuffersRight
    <3> QED
      BY <3>1, <3>2, <1>1, <1>2
  <2> QED
    BY <2>1, <2>2
<1> HIDE DEF g
<1>6. f = Dropped(g)
  <2>1. g.job.callback \in {"none", "query", "exit"}
    BY <1>5 DEF Editors, Jobs
  <2> QED
    BY <2>1 DEF Callback, query_next, exdone
<1>7. f \in Editors /\ Stays(g, f) /\ Quiet(f)
  BY <1>5, <1>6, DroppedStays
<1> HIDE DEF f
<1>8. Layout(f) /\ JobRight(f, disk, now)
  BY <1>5, <1>7, StaysLaidOut, QuietRight
<1>9. BuffersRight(f, disk, now)
  BY <1>5, <1>7 DEF Stays, BuffersRight
<1>10. Right(f)
  BY <1>5, <1>7, <1>8, <1>9 DEF Right, Stays, Live
<1> QED
  BY <1>1, <1>10, FailsRight

(* The calls of a save, done or failing.                                   *)
LEMMA CallRight ==
  ASSUME FilesInv, Call
  PROVE  FilesInv' /\ SavedStep
<1>1. CASE NoTemp
  BY <1>1, NoBackupRight, FailsRight DEF NoTemp, At, Saving, Calls
<1>2. CASE NoCopy
  <2>1. Right(Waits(ed, "nobackup"))
    BY <1>2, NoBackupRight DEF NoCopy, At, Saving, Calls
  <2> QED
    BY <2>1, <1>2, FailsRight, DoesRight DEF NoCopy
<1>3. CASE NoOpen
  BY <1>3, FailedRight, FailsRight DEF NoOpen, At
<1>4. CASE Saved
  BY <1>4, SavedRight, DoesRight DEF Saved, At
<1> QED
  BY <1>1, <1>2, <1>3, <1>4, UnlinkRight, CopyRight, OpenToWriteRight, WriteRight, NoWriteRight
     DEF Call

----------------------------------------------------------------------------
(* The theorems.                                                           *)

(* The file names the editor begins with: none is a name too.              *)
LEMMA BegunNames ==
  ASSUME plan \in Scenarios
  PROVE  /\ Begun(plan.line) \in Seq(Names \cup {NoName})
         /\ Len(Begun(plan.line)) \in 1..MaxBufs
<1>1. MaxBufs \in Nat \ {0} /\ plan.line \in Seq(Names) /\ Len(plan.line) <= MaxBufs
  BY FilesAssumption
<1>2. CASE plan.line = <<>>
  BY <1>1, <1>2 DEF Begun
<1>3. CASE plan.line # <<>>
  <2>1. plan.line \in Seq(Names \cup {NoName}) /\ Len(plan.line) \in Nat /\ Len(plan.line) # 0
    BY <1>1, <1>3, EmptySeq
  <2> QED
    BY <2>1, <1>1, <1>3 DEF Begun
<1> QED
  BY <1>2, <1>3

(* At first each window shows the buffer of its number, and each of those  *)
(* is in the list.                                                         *)
LEMMA FirstBuffers ==
  ASSUME NEW n \in 1..MaxBufs, NEW s, s = [b \in 1..n |-> b]
  PROVE  /\ s \in Seq(1..MaxBufs) /\ Len(s) = n /\ \A i \in 1..n : s[i] = i
         /\ Reverse(s) \in Seq(1..MaxBufs) /\ \A i \in 1..n : i \in ToSet(Reverse(s))
<1>1. n \in Nat /\ MaxBufs \in Nat /\ 1 <= n /\ n <= MaxBufs
  BY FilesAssumption
<1>2. s \in Seq(1..MaxBufs) /\ Len(s) = n
  BY <1>1
<1> DEFINE r == [i \in 1..n |-> n - i + 1]
<1>3. Reverse(s) = r
  <2>1. Reverse(s) = [i \in 1..n |-> s[(n - i) + 1]]
    BY <1>2 DEF Reverse
  <2>2. \A i \in 1..n : s[(n - i) + 1] = n - i + 1
    BY <1>1
  <2> QED
    BY <2>1, <2>2
<1>4. r \in Seq(1..MaxBufs) /\ Len(r) = n
  BY <1>1
<1>5. ASSUME NEW i \in 1..n PROVE \E j \in 1..n : r[j] = i
  <2>1. n - i + 1 \in 1..n /\ r[n - i + 1] = i
    BY <1>1
  <2> QED
    BY <2>1
<1> HIDE DEF r
<1>6. \A i \in 1..n : i \in ToSet(r)
  BY <1>4, <1>5, Members
<1> QED
  BY <1>2, <1>3, <1>4, <1>6

(* The editor begins with each buffer as it was loaded.                    *)
LEMMA FilesInitially ==
  ASSUME Init
  PROVE  FilesInv
<1> DEFINE names == Begun(plan.line)
           n == Len(names)
           buf == [b \in 1..MaxBufs |-> IF b \in DOMAIN names THEN bload(names[b], "none") ELSE Free]
           first == [b \in 1..n |-> b]
<1>1. /\ plan \in Scenarios /\ now = 1
      /\ disk = [m \in Names |-> IF m \in plan.existing THEN [text |-> 1, time |-> 1] ELSE Missing]
      /\ bak = [m \in Names |-> Missing]
  BY DEF Init
<1>2. PICK off \in {FALSE, "nobackups" \in plan.commands} :
        ed = [buf |-> buf, bufs |-> Reverse(first), win |-> first, cur |-> 1, ask |-> "none",
              job |-> Idle, msg |-> "none yet", over |-> "no", nobackups |-> off]
  BY DEF Init
<1>3. DiskRight(disk, now) /\ bak \in Times(now)
  BY <1>1 DEF DiskRight, Times, Missing, NoText
<1>4. names \in Seq(Names \cup {NoName}) /\ n \in 1..MaxBufs
  BY <1>1, BegunNames
<1>5. \A b \in 1..MaxBufs : buf[b] \in Buffers /\ BufferRight(buf[b], disk, now)
  <2>1. ASSUME NEW b \in DOMAIN names
        PROVE  bload(names[b], "none") \in Buffers /\ BufferRight(bload(names[b], "none"), disk, now)
    <3>1. names[b] \in Names \cup {NoName} /\ now \in Nat
      BY <1>1, <1>4, ElementOfSeq
    <3> QED
      BY <3>1, <1>3, LoadedRight DEF Errors
  <2>2. Free \in Buffers /\ BufferRight(Free, disk, now)
    BY <1>1, FreeIsBuffer, FreeRight
  <2> QED
    BY <2>1, <2>2
<1>6. buf \in [1..MaxBufs -> Buffers]
  BY <1>5
<1> HIDE DEF buf, names, n
<1>7. /\ first \in Seq(1..MaxBufs) /\ Len(first) = n /\ \A i \in 1..n : first[i] = i
      /\ Reverse(first) \in Seq(1..MaxBufs) /\ \A i \in 1..n : i \in ToSet(Reverse(first))
  BY <1>4, FirstBuffers
<1> HIDE DEF first
<1>8. off \in BOOLEAN
  <2>1. off = FALSE \/ off = ("nobackups" \in plan.commands)
    OBVIOUS
  <2>2. CASE off = FALSE
    BY <2>2
  <2>3. CASE off = ("nobackups" \in plan.commands)
    <3>1. CASE "nobackups" \in plan.commands
      BY <2>3, <3>1
    <3>2. CASE "nobackups" \notin plan.commands
      BY <2>3, <3>2
    <3> QED
      BY <3>1, <3>2
  <2> QED
    BY <2>1, <2>2, <2>3
<1>9. /\ ed.buf = buf /\ ed.bufs = Reverse(first) /\ ed.win = first /\ ed.cur = 1
      /\ ed.ask = "none" /\ ed.job = Idle /\ ed.over = "no"
  BY <1>2
<1>10. ed \in Editors
  <2> DEFINE r == Reverse(first)
  <2>1. r \in Seq(1..MaxBufs) /\ first \in Seq(1..MaxBufs) /\ Idle \in Jobs
    BY <1>7, IdleIsJob
  <2>2. ed = [buf |-> buf, bufs |-> r, win |-> first, cur |-> 1, ask |-> "none", job |-> Idle,
              msg |-> "none yet", over |-> "no", nobackups |-> off]
    BY <1>2
  <2>3. 1 \in Int
    OBVIOUS
  <2> HIDE DEF r
  <2> QED
    BY <2>1, <2>2, <2>3, <1>6, <1>8, Zenon DEF Editors
<1>11. Layout(ed)
  <2>1. n \in Int /\ 1 \in 1..n
    BY <1>4
  <2> QED
    BY <2>1, <1>7, <1>9, <1>10 DEF Layout
<1>12. AlmostRight(ed, disk, now)
  BY <1>5, <1>9 DEF AlmostRight
<1>13. JobRight(ed, disk, now)
  BY <1>9, IdleRight DEF Idle
<1>14. now \in Nat \ {0} /\ plan \in Scenarios
  BY <1>1
<1> QED
  BY <1>3, <1>9, <1>11, <1>12, <1>13, <1>14 DEF FilesInv

(* Nothing happens: the invariant stays.                                   *)
LEMMA FilesStutters ==
  ASSUME FilesInv, UNCHANGED vars
  PROVE  FilesInv'
BY DEF FilesInv, vars, Live

(* Each step keeps the invariant, and loses no text with a buffer.         *)
LEMMA FilesNext ==
  ASSUME FilesInv, Next
  PROVE  FilesInv' /\ SavedStep
<1>1. CASE Command
  BY <1>1, CommandRight, ModifyRight DEF Command
<1>2. CASE Others
  BY <1>2, ExternalRight, RemovedRight DEF Others
<1> QED
  BY <1>1, <1>2, AnswerRight, CallRight, SignalRight DEF Next

(* The invariant holds in every state.                                     *)
LEMMA FilesInvariant == Spec => []FilesInv
BY FilesInitially, FilesStutters, FilesNext, PTL DEF Spec

(* Variables and lists have their types, and windows show live buffers.    *)
THEOREM FilesTyped == Spec => []TypeOK
<1>1. FilesInv => TypeOK
  <2> SUFFICES ASSUME FilesInv PROVE TypeOK
    OBVIOUS
  <2>1. /\ disk \in Times(now) /\ bak \in Times(now) /\ ed \in Editors /\ now \in Nat
        /\ ed.cur \in 1..Len(ed.win) /\ \A i \in 1..Len(ed.win) : ed.win[i] \in ToSet(ed.bufs)
        /\ ed.ask # "none" <=> ed.job.pc = "asked"
    BY DEF FilesInv, DiskRight, Layout, JobRight
  <2>2. ed.bufs \in Seq(1..MaxBufs) /\ ed.win \in Seq(1..MaxBufs) /\ ed.buf \in [1..MaxBufs -> Buffers]
    BY <2>1 DEF Editors
  <2>3. \A b \in Live : b \in 1..MaxBufs
    BY <2>2, Members DEF Live
  <2>4. ASSUME NEW b \in Live PROVE ed.buf[b].name \in Names \cup {NoName} /\ ed.buf[b].time <= now
    <3>1. ed.buf[b] \in Buffers /\ Dated(ed.buf[b], now)
      BY <2>2, <2>3 DEF FilesInv, AlmostRight, BufferRight
    <3> QED
      BY <3>1 DEF Buffers, Dated
  <2>5. ToSet(ed.win) \subseteq Live
    BY <2>1, <2>2, Members DEF Live
  <2>6. ed.cur \in DOMAIN ed.win
    BY <2>1, <2>2, LenProperties
  <2> QED
    BY <2>1, <2>4, <2>5, <2>6 DEF TypeOK, Times
<1> QED
  BY <1>1, FilesInvariant, PTL

(* A signal at whatever call of a save (src/ufile.c, dosave1 to saver)     *)
(* leaves every text in its file or in DEADJOE (src/b.c, ttsig): a buffer  *)
(* counts as unchanged only when its text is in the file of its name.  Only*)
(* the text of an unmodified buffer that is being saved to its own file is *)
(* nowhere from the fopen of the file to the end of the write.             *)
THEOREM SignalsLoseNothing == Spec => []SignalKeeps
<1>1. FilesInv => SignalKeeps
  <2> SUFFICES ASSUME FilesInv, ed.over = "killed", NEW b \in Live
               PROVE  ed.buf[b].text \in dead \/ Stored(b) \/ (~ed.buf[b].changed /\ Gap(b))
    BY DEF SignalKeeps
  <2>1. CASE ed.buf[b].changed
    BY <2>1 DEF FilesInv
  <2>2. CASE ~ed.buf[b].changed
    BY <2>2, KeptIsStored DEF InGap, Gap
  <2> QED
    BY <2>1, <2>2
<1> QED
  BY <1>1, FilesInvariant, PTL

(* No command closes a buffer (src/ufile.c, abortit) whose text is not     *)
(* stored, unless the user has answered the question whether to lose it.   *)
THEOREM ClosedIsSaved == Spec => ClosedSaved
<1> DEFINE A == \A b \in Live : Goes(b) => Stored(b) \/ ed.ask \in {"lose", "keep"}
<1>1. ASSUME FilesInv, [Next]_vars PROVE [A]_vars
  <2>1. CASE Next
    BY <1>1, <2>1, FilesNext DEF SavedStep, MayLose
  <2>2. CASE UNCHANGED vars
    BY <2>2
  <2> QED
    BY <1>1, <2>1, <2>2
<1>2. Spec => [][A]_vars
  BY <1>1, FilesInvariant, PTL DEF Spec
<1> QED
  BY <1>2 DEF ClosedSaved
=============================================================================
