---------------------------- MODULE HistoryProofs ----------------------------
(***************************************************************************)
(* The list of records implements the history that undo promises the user: *)
(* without redo, every command does to the texts that undo and redo lead to*)
(* what UndoHistory says, for every UNDOKEEP and number of changes.        *)
(***************************************************************************)
EXTENDS SavedProofs, NaturalsInduction, WellFoundedInduction

(* A set of numbers that is not empty has a least one.                     *)
LEMMA LeastNumber ==
  ASSUME NEW T \in SUBSET Nat, T # {}
  PROVE  \E m \in T : \A k \in T : m <= k
<1> DEFINE R == {ss \in Nat \X Nat : ss[1] < ss[2]}
<1>1. IsWellFoundedOn(R, Nat)
  BY NatLessThanWellFounded DEF OpToRel
<1> HIDE DEF R
<1>2. \E x \in T : \A y \in T : ~ (<<y, x>> \in R)
  BY <1>1, WFMin
<1>3. PICK x \in T : \A y \in T : ~ (<<y, x>> \in R)
  BY <1>2
<1>4. ASSUME NEW y \in T PROVE x <= y
  <2>1. SUFFICES ASSUME y < x PROVE FALSE
    BY <2>1
  <2>2. <<y, x>> \in R
    BY <2>1 DEF R
  <2> QED
    BY <2>2, <1>3
<1> QED
  BY <1>4

-----------------------------------------------------------------------------
(* UnitTexts is what its recursive definition says.                        *)
Rows(f, r, T, from, n) ==
  f = [i \in 0 .. n |-> IF i = 0 THEN <<>> ELSE Onto(f[i - 1], r, T, from, i)]

LEMMA RowsAre ==
  ASSUME NEW f, NEW r, NEW T, NEW from, NEW n \in Nat, DOMAIN f = 0 .. n, f = [i \in 0 .. n |-> f[i]],
         f[0] = <<>>, \A i \in 1 .. n : f[i] = Onto(f[i - 1], r, T, from, i)
  PROVE  Rows(f, r, T, from, n)
<1> DEFINE g == [i \in 0 .. n |-> IF i = 0 THEN <<>> ELSE Onto(f[i - 1], r, T, from, i)]
<1>1. ASSUME NEW i \in 0 .. n PROVE f[i] = g[i]
  <2>1. i = 0 \/ i \in 1 .. n
    OBVIOUS
  <2> QED
    BY <2>1
<1>2. g = [i \in 0 .. n |-> g[i]]
  OBVIOUS
<1> HIDE DEF g
<1>3. f = g
  BY <1>1, <1>2
<1> QED
  BY <1>3 DEF Rows, g

LEMMA RowsGive ==
  ASSUME NEW f, NEW r, NEW T, NEW from, NEW n \in Nat, Rows(f, r, T, from, n)
  PROVE  /\ f[0] = <<>> /\ \A i \in 1 .. n : f[i] = Onto(f[i - 1], r, T, from, i)
<1>1. \A i \in 0 .. n : f[i] = IF i = 0 THEN <<>> ELSE Onto(f[i - 1], r, T, from, i)
  BY DEF Rows
<1> QED
  BY <1>1

LEMMA RowsThere ==
  ASSUME NEW r, NEW T, NEW from, NEW n \in Nat
  PROVE  \E f : Rows(f, r, T, from, n)
<1> DEFINE None == {m \in Nat : ~ \E f : Rows(f, r, T, from, m)}
<1>1. SUFFICES ASSUME None # {} PROVE FALSE
  OBVIOUS
<1>2. None \in SUBSET Nat
  OBVIOUS
<1> HIDE DEF None
<1>3. PICK m \in None : \A k \in None : m <= k
  BY <1>1, <1>2, LeastNumber
<1>4. m \in Nat /\ ~ \E f : Rows(f, r, T, from, m)
  BY <1>3 DEF None
<1>5. CASE m = 0
  <2> DEFINE g == [i \in 0 .. 0 |-> <<>>]
  <2>1. DOMAIN g = 0 .. 0 /\ g = [i \in 0 .. 0 |-> g[i]] /\ g[0] = <<>>
    OBVIOUS
  <2> HIDE DEF g
  <2>2. Rows(g, r, T, from, 0)
    BY <2>1, RowsAre
  <2> QED
    BY <2>2, <1>4, <1>5
<1>6. CASE m # 0
  <2>1. m - 1 \in Nat /\ ~(m <= m - 1)
    BY <1>4, <1>6
  <2>2. PICK f : Rows(f, r, T, from, m - 1)
    BY <2>1, <1>3 DEF None
  <2> DEFINE g == [i \in 0 .. m |-> IF i < m THEN f[i] ELSE Onto(f[m - 1], r, T, from, m)]
  <2>3. f[0] = <<>> /\ \A i \in 1 .. m - 1 : f[i] = Onto(f[i - 1], r, T, from, i)
    BY <2>1, <2>2, RowsGive
  <2>4. DOMAIN g = 0 .. m /\ g = [i \in 0 .. m |-> g[i]]
    OBVIOUS
  <2>5. g[m] = Onto(f[m - 1], r, T, from, m) /\ \A i \in 0 .. m - 1 : g[i] = f[i]
    BY <1>4
  <2> HIDE DEF g
  <2>6. g[0] = <<>>
    BY <2>1, <2>3, <2>5
  <2>7. ASSUME NEW i \in 1 .. m PROVE g[i] = Onto(g[i - 1], r, T, from, i)
    <3>1. i - 1 \in 0 .. m - 1 /\ (i = m \/ i \in 1 .. m - 1)
      BY <1>4
    <3>2. g[i - 1] = f[i - 1]
      BY <3>1, <2>5
    <3>3. CASE i = m
      BY <3>2, <3>3, <2>5
    <3>4. CASE i \in 1 .. m - 1
      <4>1. i \in 0 .. m - 1
        BY <3>4
      <4> QED
        BY <4>1, <3>2, <3>4, <2>3, <2>5
    <3> QED
      BY <3>1, <3>3, <3>4
  <2>8. Rows(g, r, T, from, m)
    BY <2>4, <2>6, <2>7, <1>4, RowsAre
  <2> QED
    BY <2>8, <1>4
<1> QED
  BY <1>5, <1>6

LEMMA RowsAgree ==
  ASSUME NEW r, NEW T, NEW from, NEW n \in Nat, NEW m \in Nat, n <= m,
         NEW f, NEW g, Rows(f, r, T, from, n), Rows(g, r, T, from, m)
  PROVE  \A i \in 0 .. n : f[i] = g[i]
<1> DEFINE Off == {i \in 0 .. n : f[i] # g[i]}
<1>1. SUFFICES ASSUME Off # {} PROVE FALSE
  OBVIOUS
<1>2. Off \in SUBSET Nat
  OBVIOUS
<1>3. /\ f[0] = <<>> /\ \A i \in 1 .. n : f[i] = Onto(f[i - 1], r, T, from, i)
      /\ g[0] = <<>> /\ \A i \in 1 .. m : g[i] = Onto(g[i - 1], r, T, from, i)
  BY RowsGive
<1> HIDE DEF Off
<1>4. PICK i \in Off : \A k \in Off : i <= k
  BY <1>1, <1>2, LeastNumber
<1>5. i \in 0 .. n /\ f[i] # g[i]
  BY <1>4 DEF Off
<1>6. i \in 1 .. n /\ i \in 1 .. m /\ i - 1 \in 0 .. n /\ ~(i <= i - 1)
  BY <1>3, <1>5
<1>7. f[i - 1] = g[i - 1]
  BY <1>4, <1>6 DEF Off
<1> QED
  BY <1>3, <1>5, <1>6, <1>7

LEMMA UnitTextsStep ==
  ASSUME NEW r, NEW T, NEW from
  PROVE  /\ UnitTexts(r, T, from, 0) = <<>>
         /\ \A n \in Nat \ {0} :
              UnitTexts(r, T, from, n) = Onto(UnitTexts(r, T, from, n - 1), r, T, from, n)
<1>1. ASSUME NEW n \in Nat
      PROVE  \E f : Rows(f, r, T, from, n) /\ UnitTexts(r, T, from, n) = f[n]
  <2> DEFINE f == CHOOSE f : Rows(f, r, T, from, n)
  <2>1. Rows(f, r, T, from, n)
    BY RowsThere
  <2>2. UnitTexts(r, T, from, n) = f[n]
    BY DEF UnitTexts, Rows
  <2> QED
    BY <2>1, <2>2
<1>2. UnitTexts(r, T, from, 0) = <<>>
  BY <1>1, RowsGive
<1>3. ASSUME NEW n \in Nat \ {0}
      PROVE  UnitTexts(r, T, from, n) = Onto(UnitTexts(r, T, from, n - 1), r, T, from, n)
  <2>1. n \in Nat /\ n - 1 \in Nat /\ n - 1 <= n /\ n \in 1 .. n /\ n - 1 \in 0 .. n - 1
    OBVIOUS
  <2>2. PICK f : Rows(f, r, T, from, n) /\ UnitTexts(r, T, from, n) = f[n]
    BY <2>1, <1>1
  <2>3. PICK g : Rows(g, r, T, from, n - 1) /\ UnitTexts(r, T, from, n - 1) = g[n - 1]
    BY <2>1, <1>1
  <2>4. g[n - 1] = f[n - 1]
    BY <2>1, <2>2, <2>3, RowsAgree
  <2>5. f[n] = Onto(f[n - 1], r, T, from, n)
    BY <2>1, <2>2, RowsGive
  <2> QED
    BY <2>2, <2>3, <2>4, <2>5
<1> QED
  BY <1>2, <1>3

-----------------------------------------------------------------------------
(* Induction over a set of numbers.                                        *)
LEMMA Inductive ==
  ASSUME NEW S, 0 \in S, \A n \in Nat : n \in S => n + 1 \in S
  PROVE  \A n \in Nat : n \in S
<1> DEFINE Off == {n \in Nat : n \notin S}
<1>1. SUFFICES ASSUME Off # {} PROVE FALSE
  OBVIOUS
<1>2. Off \in SUBSET Nat
  OBVIOUS
<1> HIDE DEF Off
<1>3. PICK m \in Off : \A k \in Off : m <= k
  BY <1>1, <1>2, LeastNumber
<1>4. m \in Nat /\ m \notin S
  BY <1>3 DEF Off
<1>5. m - 1 \in Nat /\ ~(m <= m - 1)
  BY <1>4
<1>6. m - 1 \in S
  BY <1>3, <1>5 DEF Off
<1>7. (m - 1) + 1 \in S
  BY <1>5, <1>6
<1> QED
  BY <1>4, <1>7

(* The texts before units are texts.                                       *)
LEMMA UnitTextsType ==
  ASSUME NEW S, NEW r, NEW T, NEW from, NEW n \in Nat, \A i \in 0 .. n - 1 : T[i] \in S
  PROVE  UnitTexts(r, T, from, n) \in Seq(S)
<1> DEFINE Good == {m \in Nat : m <= n => UnitTexts(r, T, from, m) \in Seq(S)}
<1>1. 0 \in Good
  BY UnitTextsStep, EmptySeq
<1>2. ASSUME NEW m \in Nat, m \in Good PROVE m + 1 \in Good
  <2>1. SUFFICES ASSUME m + 1 <= n PROVE UnitTexts(r, T, from, m + 1) \in Seq(S)
    OBVIOUS
  <2>2. UnitTexts(r, T, from, m) \in Seq(S)
    BY <1>2, <2>1
  <2>3. m + 1 \in Nat \ {0} /\ (m + 1) - 1 = m /\ T[m] \in S
    BY <2>1
  <2>4. UnitTexts(r, T, from, m + 1) = Onto(UnitTexts(r, T, from, m), r, T, from, m + 1)
    BY <2>3, UnitTextsStep
  <2>5. Append(UnitTexts(r, T, from, m), T[m]) \in Seq(S)
    BY <2>2, <2>3, AppendProperties
  <2> QED
    BY <2>2, <2>3, <2>4, <2>5 DEF Onto
<1> HIDE DEF Good
<1>3. n \in Good
  BY <1>1, <1>2, Inductive
<1> QED
  BY <1>3 DEF Good

(* Records that start no unit add nothing.                                 *)
LEMMA UnitTextsNone ==
  ASSUME NEW r, NEW T, NEW from \in Nat, NEW m \in Nat, NEW n \in Nat, m <= n,
         \A i \in m + 1 .. n : i >= from => ~StartsUnit(r, i)
  PROVE  UnitTexts(r, T, from, n) = UnitTexts(r, T, from, m)
<1> DEFINE Good == {k \in Nat : m <= k /\ k <= n =>
                      UnitTexts(r, T, from, k) = UnitTexts(r, T, from, m)}
<1>1. 0 \in Good
  OBVIOUS
<1>2. ASSUME NEW k \in Nat, k \in Good PROVE k + 1 \in Good
  <2>1. SUFFICES ASSUME m <= k + 1, k + 1 <= n
        PROVE  UnitTexts(r, T, from, k + 1) = UnitTexts(r, T, from, m)
    OBVIOUS
  <2>2. CASE k + 1 = m
    BY <2>2
  <2>3. CASE k + 1 # m
    <3>1. m <= k /\ k + 1 \in m + 1 .. n /\ k + 1 \in Nat \ {0} /\ (k + 1) - 1 = k
      BY <2>1, <2>3
    <3>2. UnitTexts(r, T, from, k + 1) = Onto(UnitTexts(r, T, from, k), r, T, from, k + 1)
      BY <3>1, UnitTextsStep
    <3> QED
      BY <1>2, <2>1, <3>1, <3>2 DEF Onto
  <2> QED
    BY <2>2, <2>3
<1> HIDE DEF Good
<1>3. n \in Good
  BY <1>1, <1>2, Inductive
<1> QED
  BY <1>3 DEF Good

LEMMA NoUnitTexts ==
  ASSUME NEW r, NEW T, NEW from \in Nat, NEW n \in Nat, n < from
  PROVE  UnitTexts(r, T, from, n) = <<>>
<1>1. UnitTexts(r, T, from, n) = UnitTexts(r, T, from, 0)
  BY UnitTextsNone
<1> QED
  BY <1>1, UnitTextsStep

(* Other lists whose units start at the same texts, d records further on.  *)
Moved(r, T, q, U, d, from, n) ==
  UnitTexts(q, U, from, n) = UnitTexts(r, T, from + d, n + d)

LEMMA UnitTextsMoved ==
  ASSUME NEW r, NEW q, NEW T, NEW U, NEW d \in Nat, NEW from \in Nat \ {0}, NEW n \in Nat,
         \A i \in from .. n : /\ StartsUnit(q, i) <=> StartsUnit(r, i + d)
                              /\ U[i - 1] = T[i + d - 1]
  PROVE  Moved(r, T, q, U, d, from, n)
<1> DEFINE Good == {k \in Nat : k <= n =>
                      UnitTexts(q, U, from, k) = UnitTexts(r, T, from + d, k + d)}
<1>1. 0 \in Good
  <2>1. 0 < from /\ d < from + d /\ from + d \in Nat /\ 0 + d = d
    OBVIOUS
  <2> QED
    BY <2>1, NoUnitTexts
<1>2. ASSUME NEW k \in Nat, k \in Good PROVE k + 1 \in Good
  <2>1. SUFFICES ASSUME k + 1 <= n
        PROVE  UnitTexts(q, U, from, k + 1) = UnitTexts(r, T, from + d, (k + 1) + d)
    OBVIOUS
  <2>2. /\ k + 1 \in Nat \ {0} /\ (k + 1) - 1 = k
        /\ (k + 1) + d \in Nat \ {0} /\ ((k + 1) + d) - 1 = k + d
        /\ (k + 1 >= from <=> (k + 1) + d >= from + d)
    OBVIOUS
  <2>3. /\ UnitTexts(q, U, from, k + 1) = Onto(UnitTexts(q, U, from, k), q, U, from, k + 1)
        /\ UnitTexts(r, T, from + d, (k + 1) + d) =
             Onto(UnitTexts(r, T, from + d, k + d), r, T, from + d, (k + 1) + d)
    BY <2>2, UnitTextsStep
  <2>4. UnitTexts(q, U, from, k) = UnitTexts(r, T, from + d, k + d)
    BY <1>2, <2>1
  <2>5. k + 1 >= from => /\ StartsUnit(q, k + 1) <=> StartsUnit(r, (k + 1) + d)
                         /\ U[(k + 1) - 1] = T[(k + 1) + d - 1]
    BY <2>1
  <2> QED
    BY <2>2, <2>3, <2>4, <2>5 DEF Onto
<1> HIDE DEF Good
<1>3. n \in Good
  BY <1>1, <1>2, Inductive
<1> QED
  BY <1>3 DEF Good, Moved

LEMMA UnitTextsSame ==
  ASSUME NEW r, NEW q, NEW T, NEW U, NEW from \in Nat \ {0}, NEW n \in Nat,
         \A i \in from .. n : /\ StartsUnit(q, i) <=> StartsUnit(r, i)
                              /\ U[i - 1] = T[i - 1]
  PROVE  UnitTexts(q, U, from, n) = UnitTexts(r, T, from, n)
<1>0. PICK d \in Nat : d = 0
  OBVIOUS
<1>1. from + d = from /\ n + d = n /\ \A i \in from .. n : i + d = i
  BY <1>0
<1>2. \A i \in from .. n : /\ StartsUnit(q, i) <=> StartsUnit(r, i + d)
                           /\ U[i - 1] = T[i + d - 1]
  BY <1>1
<1>3. Moved(r, T, q, U, d, from, n)
  BY <1>2, UnitTextsMoved
<1> QED
  BY <1>1, <1>3 DEF Moved

AppendsBehind(a, b, e) == Append(a \o b, e) = a \o Append(b, e)

LEMMA AppendBehind ==
  ASSUME NEW S, NEW a \in Seq(S), NEW b \in Seq(S), NEW e \in S
  PROVE  AppendsBehind(a, b, e)
<1> DEFINE ab == a \o b
           x == <<e>>
<1>1. ab \in Seq(S) /\ x \in Seq(S)
  BY ConcatProperties
<1>2. Append(ab, e) = ab \o x /\ Append(b, e) = b \o x
  BY <1>1, AppendIsConcat
<1> HIDE DEF x
<1>3. (a \o b) \o x = a \o (b \o x)
  BY <1>1, ConcatAssociative
<1> QED
  BY <1>2, <1>3 DEF AppendsBehind

(* The texts before the units of a list, those of its two parts.           *)
Parts(r, T, from, at, n) ==
  UnitTexts(r, T, from, n) = UnitTexts(r, T, from, at - 1) \o UnitTexts(r, T, at, n)

LEMMA UnitTextsSplit ==
  ASSUME NEW S, NEW r, NEW T, NEW from \in Nat, NEW at \in Nat \ {0}, from <= at,
         NEW n \in Nat, at - 1 <= n, \A i \in 0 .. n - 1 : T[i] \in S
  PROVE  Parts(r, T, from, at, n)
<1> DEFINE a == UnitTexts(r, T, from, at - 1)
<1>0. a \in Seq(S)
  <2>1. at - 1 \in Nat /\ \A i \in 0 .. (at - 1) - 1 : T[i] \in S
    OBVIOUS
  <2> QED
    BY <2>1, UnitTextsType
<1> DEFINE Good == {k \in Nat : at - 1 <= k /\ k <= n =>
                      UnitTexts(r, T, from, k) = a \o UnitTexts(r, T, at, k)}
<1> HIDE DEF a
<1>1. 0 \in Good
  <2>1. SUFFICES ASSUME at - 1 <= 0 PROVE UnitTexts(r, T, from, 0) = a \o UnitTexts(r, T, at, 0)
    OBVIOUS
  <2>2. at - 1 = 0
    BY <2>1
  <2>3. a = UnitTexts(r, T, from, 0)
    BY <2>2 DEF a
  <2> QED
    BY <1>0, <2>3, UnitTextsStep, ConcatEmptySeq
<1>2. ASSUME NEW k \in Nat, k \in Good PROVE k + 1 \in Good
  <2>1. SUFFICES ASSUME at - 1 <= k + 1, k + 1 <= n
        PROVE  UnitTexts(r, T, from, k + 1) = a \o UnitTexts(r, T, at, k + 1)
    OBVIOUS
  <2>2. CASE k + 1 = at - 1
    <3>1. UnitTexts(r, T, at, k + 1) = <<>> /\ a = UnitTexts(r, T, from, k + 1)
      BY <2>2, NoUnitTexts DEF a
    <3> QED
      BY <1>0, <3>1, ConcatEmptySeq
  <2>3. CASE k + 1 # at - 1
    <3>1. at - 1 <= k /\ k + 1 \in Nat \ {0} /\ (k + 1) - 1 = k /\ k + 1 >= at /\ k + 1 >= from
          /\ \A i \in 0 .. k - 1 : T[i] \in S
      BY <2>1, <2>3
    <3> DEFINE b == UnitTexts(r, T, at, k)
    <3>2. b \in Seq(S) /\ T[k] \in S
      BY <3>1, <2>1, UnitTextsType
    <3>3. UnitTexts(r, T, from, k) = a \o b
      BY <1>2, <2>1, <3>1
    <3>4. /\ UnitTexts(r, T, from, k + 1) = Onto(a \o b, r, T, from, k + 1)
          /\ UnitTexts(r, T, at, k + 1) = Onto(b, r, T, at, k + 1)
      BY <3>1, <3>3, UnitTextsStep
    <3> DEFINE e == T[k]
    <3> HIDE DEF b, e
    <3>5. a \in Seq(S) /\ b \in Seq(S) /\ e \in S
      BY <1>0, <3>2 DEF e
    <3>6. AppendsBehind(a, b, e)
      BY ONLY <3>5, AppendBehind
    <3> QED
      BY <3>1, <3>4, <3>6 DEF Onto, AppendsBehind, b, e
  <2> QED
    BY <2>2, <2>3
<1> HIDE DEF Good
<1>3. n \in Good
  BY <1>1, <1>2, Inductive
<1> QED
  BY <1>3 DEF Good, a, Parts

-----------------------------------------------------------------------------
(* The texts from ptr on, and the one of the buffer: undo and its inverses *)
(* lead there and back, so they read the same from both ends, and the newer*)
(* half are those that redo returns to.                                    *)
Palindrome(c) == \A i \in 1 .. Len(c) : c[i] = c[Len(c) + 1 - i]
Half(b) == [j \in 1 .. (Len(b) + 1) \div 2 |-> b[Len(b) + 1 - j]]
Even(b, t) == (\E m \in Nat : Len(b) = 2 * m) /\ Palindrome(Append(b, t))
Odd(b) == (\E m \in Nat : Len(b) = 2 * m + 1) /\ Palindrome(b)

(* c is a and b, one after the other, of the lengths l and n.              *)
Join(S, c, a, l, b, n) ==
  /\ c \in Seq(S) /\ Len(c) = l + n
  /\ \A i \in 1 .. l : c[i] = a[i]
  /\ \A i \in 1 .. n : c[l + i] = b[i]

LEMMA JoinIs ==
  ASSUME NEW S, NEW a \in Seq(S), NEW b \in Seq(S), NEW l, l = Len(a), NEW n, n = Len(b)
  PROVE  l \in Nat /\ n \in Nat /\ Join(S, a \o b, a, l, b, n)
<1> DEFINE c == a \o b
<1>1. /\ c \in Seq(S) /\ Len(c) = Len(a) + Len(b)
      /\ \A i \in 1 .. Len(a) + Len(b) : c[i] = IF i <= Len(a) THEN a[i] ELSE b[i - Len(a)]
  BY ConcatProperties
<1> HIDE DEF c
<1>2. Len(a) \in Nat /\ Len(b) \in Nat
  OBVIOUS
<1>3. \A i \in 1 .. l : c[i] = a[i]
  BY <1>1, <1>2
<1>4. ASSUME NEW i \in 1 .. n PROVE c[l + i] = b[i]
  <2>1. l + i \in 1 .. l + n /\ ~(l + i <= l) /\ l + i - l = i
    BY <1>2
  <2> QED
    BY <1>1, <2>1
<1> QED
  BY <1>1, <1>2, <1>3, <1>4 DEF Join, c

(* There and back again, element by element.                               *)
Round(t, f) == (<<t>> \o f) \o Tail(Reverse(<<t>> \o f))

RoundOf(S, c, t, f, m) ==
  /\ c \in Seq(S) /\ Len(c) = 2 * m + 1
  /\ c[1] = t /\ \A i \in 1 .. m : c[i + 1] = f[i]
  /\ c[2 * m + 1] = t /\ \A i \in 1 .. m : c[2 * m + 1 - i] = f[i]

LEMMA RoundIs ==
  ASSUME NEW S, NEW t \in S, NEW f \in Seq(S), NEW m \in Nat, Len(f) = m
  PROVE  RoundOf(S, Round(t, f), t, f, m)
<1> DEFINE x == <<t>>
           h == x \o f
           r == Reverse(h)
           z == Tail(r)
           c == h \o z
<1>1. x \in Seq(S) /\ Len(x) = 1 /\ x[1] = t
  OBVIOUS
<1> HIDE DEF x
<1>2. Join(S, h, x, 1, f, m)
  BY <1>1, JoinIs
<1> HIDE DEF h
<1>3. /\ h \in Seq(S) /\ Len(h) = 1 + m
      /\ h[1] = t /\ \A i \in 1 .. m : h[i + 1] = f[i]
  <2>1. 1 \in 1 .. 1 /\ \A i \in 1 .. m : i + 1 = 1 + i
    OBVIOUS
  <2> QED
    BY <2>1, <1>1, <1>2 DEF Join
<1>4. r \in [1 .. 1 + m -> S] /\ \A i \in 1 .. 1 + m : r[i] = h[m + 2 - i]
  <2>1. ASSUME NEW i \in 1 .. 1 + m
        PROVE  m + 2 - i \in 1 .. Len(h) /\ (Len(h) - i) + 1 = m + 2 - i
    BY <1>3
  <2>2. \A i \in 1 .. 1 + m : h[m + 2 - i] \in S
    BY <2>1, <1>3, ElementOfSeq
  <2> QED
    BY <1>3, <2>1, <2>2 DEF Reverse
<1>5. r \in Seq(S) /\ Len(r) = 1 + m
  <2>1. 1 + m \in Nat
    OBVIOUS
  <2> QED
    BY <2>1, <1>4, FunctionIsSeq
<1> HIDE DEF r
<1>6. r # <<>>
  BY <1>5, EmptySeq
<1>7. z \in Seq(S) /\ Len(z) = m /\ \A i \in 1 .. m : z[i] = r[i + 1]
  <2>1. z \in Seq(S) /\ Len(z) = Len(r) - 1 /\ \A i \in 1 .. Len(z) : z[i] = r[i + 1]
    BY <1>5, <1>6, HeadTailProperties
  <2> HIDE DEF z
  <2>2. Len(z) = m
    BY <2>1, <1>5
  <2> QED
    BY <2>1, <2>2
<1> HIDE DEF z
<1>8. ASSUME NEW i \in 1 .. m PROVE z[i] = h[m + 1 - i]
  <2>1. i + 1 \in 1 .. 1 + m /\ m + 2 - (i + 1) = m + 1 - i
    OBVIOUS
  <2> QED
    BY <2>1, <1>4, <1>7
<1>9. Join(S, c, h, 1 + m, z, m)
  BY <1>3, <1>7, JoinIs
<1>10. c = Round(t, f)
  BY DEF Round, c, z, r, h, x
<1> HIDE DEF c
<1>11. c \in Seq(S) /\ Len(c) = 2 * m + 1
  BY <1>9 DEF Join
<1>12. c[1] = t
  <2>1. 1 \in 1 .. 1 + m
    OBVIOUS
  <2> QED
    BY <2>1, <1>9, <1>3 DEF Join
<1>13. ASSUME NEW i \in 1 .. m PROVE c[i + 1] = f[i]
  <2>1. i + 1 \in 1 .. 1 + m
    OBVIOUS
  <2> QED
    BY <2>1, <1>9, <1>3 DEF Join
<1>14. ASSUME NEW i \in 1 .. m PROVE c[2 * m + 1 - i] = f[i]
  <2>1. CASE i = m
    <3>1. 2 * m + 1 - i = m + 1 /\ m \in 1 .. m
      BY <2>1
    <3> QED
      BY <3>1, <2>1, <1>13
  <2>2. CASE i # m
    <3> DEFINE k == 2 * m + 1 - i
    <3>1. k = (1 + m) + (m - i) /\ m - i \in 1 .. m /\ m + 1 - (m - i) = i + 1
      BY <2>2
    <3> HIDE DEF k
    <3>2. c[k] = z[m - i]
      BY <3>1, <1>9 DEF Join
    <3>3. z[m - i] = h[i + 1]
      BY <3>1, <1>8
    <3> QED
      BY <3>2, <3>3, <1>3 DEF k
  <2> QED
    BY <2>1, <2>2
<1>15. c[2 * m + 1] = t
  <2>1. CASE m = 0
    BY <2>1, <1>12
  <2>2. CASE m # 0
    <3>1. 2 * m + 1 = (1 + m) + m /\ m \in 1 .. m /\ m + 1 - m = 1
      BY <2>2
    <3>2. c[2 * m + 1] = z[m] /\ z[m] = h[1]
      BY <3>1, <1>8, <1>9 DEF Join
    <3> QED
      BY <3>2, <1>3
  <2> QED
    BY <2>1, <2>2
<1> QED
  BY <1>10, <1>11, <1>12, <1>13, <1>14, <1>15 DEF RoundOf

(* f is the newer half of b.                                               *)
HalfOf(S, f, m, b, n) ==
  f \in Seq(S) /\ Len(f) = m /\ \A j \in 1 .. m : f[j] = b[n + 1 - j]

LEMMA HalfIs ==
  ASSUME NEW S, NEW b \in Seq(S), NEW m \in Nat, NEW n, n = Len(b), n = 2 * m \/ n = 2 * m - 1
  PROVE  HalfOf(S, Half(b), m, b, n)
<1> DEFINE f == Half(b)
<1>1. n \in Nat /\ (n + 1) \div 2 = m
  OBVIOUS
<1>2. \A j \in 1 .. m : n + 1 - j \in 1 .. n
  BY <1>1
<1>3. \A j \in 1 .. m : b[n + 1 - j] \in S
  BY <1>2, ElementOfSeq
<1>4. f = [j \in 1 .. m |-> b[n + 1 - j]]
  BY <1>1 DEF Half
<1>5. f \in [1 .. m -> S] /\ \A j \in 1 .. m : f[j] = b[n + 1 - j]
  BY <1>3, <1>4
<1> HIDE DEF f
<1>6. f \in Seq(S) /\ Len(f) = m
  BY <1>5, FunctionIsSeq
<1> QED
  BY <1>5, <1>6 DEF HalfOf, f

(* A sequence with one more element.                                       *)
LEMMA AppendIs ==
  ASSUME NEW S, NEW b \in Seq(S), NEW t \in S, NEW n, n = Len(b)
  PROVE  /\ Append(b, t) \in Seq(S) /\ Len(Append(b, t)) = n + 1 /\ n \in Nat
         /\ Append(b, t)[n + 1] = t /\ \A i \in 1 .. n : Append(b, t)[i] = b[i]
<1>1. Len(b) \in Nat
  OBVIOUS
<1> QED
  BY <1>1, AppendProperties

LEMMA RoundEven ==
  ASSUME NEW S, NEW b \in Seq(S), NEW t \in S, Even(b, t)
  PROVE  Half(b) \in Seq(S) /\ Round(t, Half(b)) = Append(b, t)
<1>1. PICK m \in Nat : Len(b) = 2 * m
  BY DEF Even
<1> DEFINE f == Half(b)
           c == Append(b, t)
           x == Round(t, f)
           n == 2 * m
<1>2. n \in Nat /\ n = Len(b) /\ (n = 2 * m \/ n = 2 * m - 1)
  BY <1>1
<1> HIDE DEF n
<1>3. f \in Seq(S) /\ Len(f) = m /\ \A j \in 1 .. m : f[j] = b[n + 1 - j]
  <2>1. HalfOf(S, f, m, b, n)
    BY ONLY b \in Seq(S), m \in Nat, <1>2, HalfIs DEF f
  <2> QED
    BY <2>1 DEF HalfOf
<1> HIDE DEF f
<1>4. /\ c \in Seq(S) /\ Len(c) = n + 1
      /\ c[n + 1] = t /\ \A i \in 1 .. n : c[i] = b[i]
  BY <1>2, AppendIs
<1>5. \A i \in 1 .. Len(c) : c[i] = c[Len(c) + 1 - i]
  BY DEF Even, Palindrome
<1> HIDE DEF c
<1>6. /\ x \in Seq(S) /\ Len(x) = n + 1
      /\ x[1] = t /\ \A i \in 1 .. m : x[i + 1] = f[i]
      /\ x[n + 1] = t /\ \A i \in 1 .. m : x[n + 1 - i] = f[i]
  <2>1. RoundOf(S, x, t, f, m)
    BY <1>3, RoundIs
  <2>2. n + 1 = 2 * m + 1 /\ \A i \in 1 .. m : n + 1 - i = 2 * m + 1 - i
    BY DEF n
  <2> HIDE DEF x
  <2> QED
    BY <2>1, <2>2 DEF RoundOf
<1> HIDE DEF x
<1>7. \A i \in 1 .. n + 1 : c[i] = c[n + 2 - i]
  <2>1. \A i \in 1 .. n + 1 : Len(c) + 1 - i = n + 2 - i
    BY <1>4, <1>2
  <2> QED
    BY <2>1, <1>4, <1>5
<1>8. ASSUME NEW i \in 1 .. m PROVE x[n + 1 - i] = c[n + 1 - i]
  <2>1. n + 1 - i \in 1 .. n
    BY <1>2
  <2> QED
    BY <2>1, <1>3, <1>4, <1>6
<1>9. ASSUME NEW i \in 1 .. m PROVE x[i + 1] = c[i + 1]
  <2>1. n + 1 - i \in 1 .. n /\ i + 1 \in 1 .. n + 1 /\ n + 2 - (i + 1) = n + 1 - i
    BY <1>2
  <2>2. c[i + 1] = c[n + 1 - i]
    BY <2>1, <1>7
  <2> QED
    BY <2>1, <2>2, <1>3, <1>4, <1>6
<1>10. c[1] = t
  <2>1. 1 \in 1 .. n + 1 /\ n + 2 - 1 = n + 1
    BY <1>2
  <2> QED
    BY <2>1, <1>4, <1>7
<1>11. ASSUME NEW i \in 1 .. n + 1 PROVE x[i] = c[i]
  <2>1. CASE i = 1
    BY <2>1, <1>6, <1>10
  <2>2. CASE i = n + 1
    BY <2>2, <1>4, <1>6
  <2>3. CASE i # 1 /\ i <= m + 1
    <3>1. i - 1 \in 1 .. m /\ (i - 1) + 1 = i
      BY <2>3
    <3> QED
      BY <3>1, <1>9
  <2>4. CASE i # n + 1 /\ i > m + 1
    <3>1. n + 1 - i \in 1 .. m /\ n + 1 - (n + 1 - i) = i
      BY <2>4, <1>2
    <3> QED
      BY <3>1, <1>8
  <2> QED
    BY <2>1, <2>2, <2>3, <2>4
<1>12. x = c
  BY <1>4, <1>6, <1>11, SeqEqual
<1> QED
  BY <1>3, <1>12 DEF f, c, x

(* When the first of these texts has been forgotten, it is missing at the  *)
(* start.                                                                  *)
LEMMA RoundOdd ==
  ASSUME NEW S, NEW b \in Seq(S), NEW t \in S, Odd(b)
  PROVE  /\ Half(b) \in Seq(S) /\ Len(Round(t, Half(b))) \in Nat \ {0}
         /\ SubSeq(Round(t, Half(b)), 2, Len(Round(t, Half(b)))) = Append(b, t)
<1>1. PICK k \in Nat : Len(b) = 2 * k + 1
  BY DEF Odd
<1>2. PICK m \in Nat : m = k + 1
  OBVIOUS
<1> DEFINE f == Half(b)
           c == Append(b, t)
           x == Round(t, f)
           n == 2 * m - 1
           y == SubSeq(x, 2, n + 2)
<1>3. n \in Nat /\ n = Len(b) /\ (n = 2 * m \/ n = 2 * m - 1) /\ 2 * m + 1 = n + 2
  BY <1>1, <1>2
<1> HIDE DEF n
<1>4. f \in Seq(S) /\ Len(f) = m /\ \A j \in 1 .. m : f[j] = b[n + 1 - j]
  <2>1. HalfOf(S, f, m, b, n)
    BY ONLY b \in Seq(S), m \in Nat, <1>3, HalfIs DEF f
  <2> QED
    BY <2>1 DEF HalfOf
<1> HIDE DEF f
<1>5. /\ c \in Seq(S) /\ Len(c) = n + 1
      /\ c[n + 1] = t /\ \A i \in 1 .. n : c[i] = b[i]
  BY <1>3, AppendIs
<1>6. \A i \in 1 .. n : b[i] = b[n + 1 - i]
  BY <1>3 DEF Odd, Palindrome
<1> HIDE DEF c
<1>7. /\ x \in Seq(S) /\ Len(x) = n + 2
      /\ \A i \in 1 .. m : x[i + 1] = f[i]
      /\ x[n + 2] = t /\ \A i \in 1 .. m : x[n + 2 - i] = f[i]
  <2>1. RoundOf(S, x, t, f, m)
    BY <1>4, RoundIs
  <2>2. n + 2 = 2 * m + 1 /\ \A i \in 1 .. m : n + 2 - i = 2 * m + 1 - i
    BY DEF n
  <2> HIDE DEF x
  <2> QED
    BY <2>1, <2>2 DEF RoundOf
<1> HIDE DEF x
<1>8. ASSUME NEW i \in 1 .. n PROVE x[i + 1] = b[i]
  <2>1. CASE i <= m
    <3>1. i \in 1 .. m
      BY <2>1
    <3> QED
      BY <3>1, <1>4, <1>6, <1>7
  <2>2. CASE i > m
    <3>1. n + 1 - i \in 1 .. m /\ n + 2 - (n + 1 - i) = i + 1 /\ n + 1 - (n + 1 - i) = i
      BY <2>2, <1>3 DEF n
    <3> QED
      BY <3>1, <1>4, <1>7
  <2> QED
    BY <2>1, <2>2, <1>3
<1>9. y \in Seq(S) /\ Len(y) = n + 1 /\ \A i \in 1 .. n + 1 : y[i] = x[i + 1]
  <2>1. 2 \in Int /\ n + 2 \in Int /\ (n + 2) - 2 + 1 = n + 1 /\ 2 <= n + 2
        /\ \A i \in 1 .. n + 1 : 2 + i - 1 = i + 1
    BY <1>3
  <2>2. \A i \in 2 .. n + 2 : x[i] \in S
    <3>1. \A i \in 2 .. n + 2 : i \in 1 .. Len(x)
      BY <1>3, <1>7
    <3> QED
      BY <3>1, <1>7, ElementOfSeq
  <2>3. /\ y \in Seq(S) /\ Len(y) = IF 2 <= n + 2 THEN (n + 2) - 2 + 1 ELSE 0
        /\ \A i \in 1 .. (n + 2) - 2 + 1 : y[i] = x[2 + i - 1]
    BY <2>1, <2>2, SubSeqProperties
  <2> HIDE DEF y
  <2> QED
    BY <2>1, <2>3
<1> HIDE DEF y
<1>10. ASSUME NEW i \in 1 .. n + 1 PROVE y[i] = c[i]
  <2>1. CASE i = n + 1
    <3>1. i + 1 = n + 2
      BY <2>1, <1>3
    <3> QED
      BY <2>1, <3>1, <1>5, <1>7, <1>9
  <2>2. CASE i # n + 1
    <3>1. i \in 1 .. n
      BY <2>2, <1>3
    <3> QED
      BY <3>1, <1>5, <1>8, <1>9
  <2> QED
    BY <2>1, <2>2
<1>11. y = c
  BY <1>5, <1>9, <1>10, SeqEqual
<1>12. Len(x) = n + 2 /\ n + 2 \in Nat \ {0}
  BY <1>3, <1>7
<1> QED
  BY <1>4, <1>11, <1>12 DEF f, c, x, y

(* An undo to u from t.                                                    *)
RoundsBack(S, a, u, b, t) == a \in Seq(S) /\ Even(a, u) /\ Half(a) = <<t>> \o Half(b)

LEMMA RoundUndo ==
  ASSUME NEW S, NEW b \in Seq(S), NEW t \in S, NEW u \in S, Even(b, t),
         NEW a, a = <<u>> \o Append(b, t)
  PROVE  RoundsBack(S, a, u, b, t)
<1>1. PICK m \in Nat : Len(b) = 2 * m
  BY DEF Even
<1> DEFINE f == Half(b)
           c == Append(b, t)
           d == Append(a, u)
           g == Half(a)
           n == 2 * m
           x == <<u>>
           y == <<t>>
           h == y \o f
<1>2. /\ n \in Nat /\ n = Len(b) /\ (n = 2 * m \/ n = 2 * m - 1)
      /\ m + 1 \in Nat /\ n + 2 = 2 * (m + 1)
  BY <1>1
<1> HIDE DEF n
<1>3. f \in Seq(S) /\ Len(f) = m /\ \A j \in 1 .. m : f[j] = b[n + 1 - j]
  <2>1. HalfOf(S, f, m, b, n)
    BY ONLY b \in Seq(S), m \in Nat, <1>2, HalfIs DEF f
  <2> QED
    BY <2>1 DEF HalfOf
<1> HIDE DEF f
<1>4. /\ c \in Seq(S) /\ Len(c) = n + 1
      /\ c[n + 1] = t /\ \A i \in 1 .. n : c[i] = b[i]
  BY <1>2, AppendIs
<1>5. \A i \in 1 .. n + 1 : c[i] = c[n + 2 - i]
  <2>1. \A i \in 1 .. Len(c) : c[i] = c[Len(c) + 1 - i]
    BY DEF Even, Palindrome
  <2> HIDE DEF c
  <2>2. \A i \in 1 .. n + 1 : Len(c) + 1 - i = n + 2 - i
    BY <1>4, <1>2
  <2> QED
    BY <2>1, <2>2, <1>4
<1>6. a = x \o c
  OBVIOUS
<1> HIDE DEF c
<1>7. x \in Seq(S) /\ Len(x) = 1 /\ x[1] = u /\ y \in Seq(S) /\ Len(y) = 1 /\ y[1] = t
  OBVIOUS
<1> HIDE DEF x, y
<1>8. Join(S, x \o c, x, 1, c, n + 1)
  BY <1>4, <1>7, JoinIs
<1>9. /\ a \in Seq(S) /\ Len(a) = n + 2
      /\ a[1] = u /\ \A i \in 1 .. n + 1 : a[i + 1] = c[i]
  <2>1. 1 \in 1 .. 1 /\ 1 + (n + 1) = n + 2 /\ \A i \in 1 .. n + 1 : 1 + i = i + 1
    BY <1>2
  <2>2. Join(S, a, x, 1, c, n + 1)
    BY <1>6, <1>8
  <2> QED
    BY <2>1, <2>2, <1>7 DEF Join
<1>10. /\ d \in Seq(S) /\ Len(d) = n + 3
       /\ d[n + 3] = u /\ \A i \in 1 .. n + 2 : d[i] = a[i]
  <2>1. (n + 2) + 1 = n + 3
    BY <1>2
  <2> QED
    BY <2>1, <1>9, AppendIs
<1> HIDE DEF d
<1>11. ASSUME NEW i \in 1 .. n + 3 PROVE d[i] = d[(n + 3) + 1 - i]
  <2>1. CASE i = 1
    <3>1. 1 \in 1 .. n + 2 /\ (n + 3) + 1 - 1 = n + 3
      BY <1>2
    <3> QED
      BY <2>1, <3>1, <1>9, <1>10
  <2>2. CASE i = n + 3
    <3>1. 1 \in 1 .. n + 2 /\ (n + 3) + 1 - (n + 3) = 1
      BY <1>2
    <3> QED
      BY <2>2, <3>1, <1>9, <1>10
  <2>3. CASE i # 1 /\ i # n + 3
    <3> DEFINE k == i - 1
               l == n + 2 - k
    <3>1. /\ k \in 1 .. n + 1 /\ i = k + 1 /\ l \in 1 .. n + 1 /\ (n + 3) + 1 - i = l + 1
          /\ k + 1 \in 1 .. n + 2 /\ l + 1 \in 1 .. n + 2
      BY <2>3, <1>2
    <3>2. c[k] = c[l]
      BY <3>1, <1>5
    <3> HIDE DEF k, l
    <3>3. d[k + 1] = c[k] /\ d[l + 1] = c[l]
      BY <3>1, <1>9, <1>10
    <3> QED
      BY <3>1, <3>2, <3>3
  <2> QED
    BY <2>1, <2>2, <2>3
<1>12. Even(a, u)
  <2>1. Palindrome(d)
    BY <1>10, <1>11 DEF Palindrome
  <2> QED
    BY <2>1, <1>2, <1>9 DEF Even, d
<1>13. g \in Seq(S) /\ Len(g) = m + 1 /\ \A j \in 1 .. m + 1 : g[j] = a[(n + 2) + 1 - j]
  <2>1. HalfOf(S, g, m + 1, a, n + 2)
    BY <1>2, <1>9, HalfIs
  <2> QED
    BY <2>1 DEF HalfOf
<1> HIDE DEF g
<1>14. Join(S, h, y, 1, f, m)
  BY <1>3, <1>7, JoinIs
<1>15. h \in Seq(S) /\ Len(h) = m + 1 /\ h[1] = t /\ \A i \in 1 .. m : h[i + 1] = f[i]
  <2>1. 1 \in 1 .. 1 /\ 1 + m = m + 1 /\ \A i \in 1 .. m : 1 + i = i + 1
    OBVIOUS
  <2> QED
    BY <2>1, <1>7, <1>14 DEF Join
<1> HIDE DEF h
<1>16. ASSUME NEW j \in 1 .. m + 1 PROVE g[j] = h[j]
  <2>1. CASE j = 1
    <3>1. (n + 2) + 1 - 1 = (n + 1) + 1 /\ n + 1 \in 1 .. n + 1 /\ 1 \in 1 .. m + 1
      BY <1>2
    <3>2. a[(n + 1) + 1] = t
      BY <3>1, <1>4, <1>9
    <3>3. g[1] = a[(n + 1) + 1]
      BY <3>1, <1>13
    <3> QED
      BY <2>1, <3>2, <3>3, <1>15
  <2>2. CASE j # 1
    <3> DEFINE i == j - 1
               l == n + 1 - i
    <3>1. i \in 1 .. m /\ j = i + 1 /\ l \in 1 .. n /\ l \in 1 .. n + 1 /\ (n + 2) + 1 - j = l + 1
      BY <2>2, <1>2
    <3>2. f[i] = b[l]
      BY <3>1, <1>3
    <3> HIDE DEF i, l
    <3>3. a[l + 1] = b[l] /\ h[i + 1] = f[i]
      BY <3>1, <1>4, <1>9, <1>15
    <3> QED
      BY <3>1, <3>2, <3>3, <1>13
  <2> QED
    BY <2>1, <2>2
<1>17. g = h
  BY <1>13, <1>15, <1>16, SeqEqual
<1> QED
  BY <1>9, <1>12, <1>17 DEF RoundsBack, g, h, y, f

(* The unit at ptr is evicted.                                             *)
LEMMA RoundEvicted ==
  ASSUME NEW S, NEW b \in Seq(S), NEW t \in S, Even(b, t), b # <<>>
  PROVE  Odd(Tail(b)) /\ Half(Tail(b)) = Half(b)
<1>1. PICK m \in Nat : Len(b) = 2 * m
  BY DEF Even
<1> DEFINE f == Half(b)
           c == Append(b, t)
           a == Tail(b)
           g == Half(a)
           n == 2 * m
<1>2. n \in Nat /\ n = Len(b) /\ (n = 2 * m \/ n = 2 * m - 1) /\ m > 0
  <2>1. Len(b) > 0
    BY EmptySeq
  <2> QED
    BY <2>1, <1>1
<1>3. n - 1 = 2 * m - 1 /\ m - 1 \in Nat /\ n - 1 = 2 * (m - 1) + 1
  BY <1>2
<1> HIDE DEF n
<1>4. f \in Seq(S) /\ Len(f) = m /\ \A j \in 1 .. m : f[j] = b[n + 1 - j]
  <2>1. HalfOf(S, f, m, b, n)
    BY ONLY b \in Seq(S), m \in Nat, <1>2, HalfIs DEF f
  <2> QED
    BY <2>1 DEF HalfOf
<1> HIDE DEF f
<1>5. /\ c \in Seq(S) /\ Len(c) = n + 1
      /\ c[n + 1] = t /\ \A i \in 1 .. n : c[i] = b[i]
  BY <1>2, AppendIs
<1>6. \A i \in 1 .. n + 1 : c[i] = c[n + 2 - i]
  <2>1. \A i \in 1 .. Len(c) : c[i] = c[Len(c) + 1 - i]
    BY DEF Even, Palindrome
  <2> HIDE DEF c
  <2>2. \A i \in 1 .. n + 1 : Len(c) + 1 - i = n + 2 - i
    BY <1>5, <1>2
  <2> QED
    BY <2>1, <2>2, <1>5
<1> HIDE DEF c
<1>7. a \in Seq(S) /\ Len(a) = n - 1 /\ \A i \in 1 .. n - 1 : a[i] = b[i + 1]
  <2>1. a \in Seq(S) /\ Len(a) = Len(b) - 1 /\ \A i \in 1 .. Len(a) : a[i] = b[i + 1]
    BY HeadTailProperties
  <2> HIDE DEF a
  <2>2. Len(a) = n - 1
    BY <2>1, <1>2
  <2> QED
    BY <2>1, <2>2
<1> HIDE DEF a
<1>8. ASSUME NEW i \in 1 .. n - 1 PROVE a[i] = a[(n - 1) + 1 - i]
  <2> DEFINE l == n - i
  <2>1. /\ i + 1 \in 1 .. n /\ i + 1 \in 1 .. n + 1 /\ n + 2 - (i + 1) = l + 1 /\ l \in 1 .. n - 1
        /\ (n - 1) + 1 - i = l /\ l + 1 \in 1 .. n
    BY <1>2
  <2>2. c[i + 1] = c[l + 1]
    BY <2>1, <1>6
  <2> HIDE DEF l
  <2> QED
    BY <2>1, <2>2, <1>5, <1>7
<1>9. Odd(a)
  <2>1. Palindrome(a)
    BY <1>7, <1>8 DEF Palindrome
  <2> QED
    BY <2>1, <1>3, <1>7 DEF Odd
<1>10. g \in Seq(S) /\ Len(g) = m /\ \A j \in 1 .. m : g[j] = a[(n - 1) + 1 - j]
  <2>1. HalfOf(S, g, m, a, n - 1)
    BY <1>3, <1>7, HalfIs
  <2> QED
    BY <2>1 DEF HalfOf
<1> HIDE DEF g
<1>11. ASSUME NEW j \in 1 .. m PROVE g[j] = f[j]
  <2>1. (n - 1) + 1 - j = n - j /\ n - j \in 1 .. n - 1 /\ (n - j) + 1 = n + 1 - j
    BY <1>2 DEF n
  <2> QED
    BY <2>1, <1>4, <1>7, <1>10
<1>12. g = f
  BY <1>4, <1>10, <1>11, SeqEqual
<1> QED
  BY <1>9, <1>12 DEF g, f, a

-----------------------------------------------------------------------------
(* A unit that starts the list adds the text before it.                    *)
LeadsWith(r, T, a, n) == UnitTexts(r, T, a, n) = <<T[a - 1]>> \o UnitTexts(r, T, a + 1, n)

LEMMA UnitTextsFirst ==
  ASSUME NEW S, NEW r, NEW T, NEW n \in Nat, NEW a \in 1 .. n, StartsUnit(r, a),
         \A i \in 0 .. n - 1 : T[i] \in S
  PROVE  LeadsWith(r, T, a, n)
<1>1. /\ a \in Nat \ {0} /\ a + 1 \in Nat \ {0} /\ (a + 1) - 1 = a /\ a <= a + 1 /\ a <= n
      /\ a - 1 \in Nat /\ a - 1 < a /\ a >= a
  OBVIOUS
<1>2. UnitTexts(r, T, a, n) = UnitTexts(r, T, a, a) \o UnitTexts(r, T, a + 1, n)
  <2> DEFINE c == a + 1
  <2>1. c \in Nat \ {0} /\ c - 1 = a /\ a <= c
    BY <1>1
  <2> HIDE DEF c
  <2>2. Parts(r, T, a, c, n)
    BY <1>1, <2>1, UnitTextsSplit
  <2> QED
    BY <2>1, <2>2 DEF Parts, c
<1>3. UnitTexts(r, T, a, a) = Onto(UnitTexts(r, T, a, a - 1), r, T, a, a)
  BY <1>1, UnitTextsStep
<1>4. UnitTexts(r, T, a, a - 1) = <<>>
  BY <1>1, NoUnitTexts
<1>5. UnitTexts(r, T, a, a) = Append(<<>>, T[a - 1])
  BY <1>1, <1>3, <1>4 DEF Onto
<1>6. UnitTexts(r, T, a, a) = <<T[a - 1]>>
  <2> DEFINE e == T[a - 1]
  <2> HIDE DEF e
  <2>1. Append(<<>>, e) = <<e>>
    OBVIOUS
  <2> QED
    BY <1>5, <2>1 DEF e
<1> QED
  BY <1>2, <1>6 DEF LeadsWith

(* Replaying the records gives the texts they lead through.                *)
Replay(f, r, t, top) ==
  f = [i \in 0 .. top |-> IF i = top THEN t ELSE Revert(f[i + 1], r[i + 1])]

Replays(r, t, top, T) == \A i \in 0 .. top : Replayed(r, t, top)[i] = T[i]

LEMMA ReplayedIs ==
  ASSUME NEW r, NEW T, NEW t, NEW top \in Nat, T[top] = t,
         \A i \in 1 .. top : T[i - 1] = Revert(T[i], r[i])
  PROVE  Replays(r, t, top, T)
<1> DEFINE g == [i \in 0 .. top |-> T[i]]
           h == [i \in 0 .. top |-> IF i = top THEN t ELSE Revert(g[i + 1], r[i + 1])]
<1>1. ASSUME NEW i \in 0 .. top PROVE g[i] = h[i]
  <2>1. CASE i = top
    BY <2>1
  <2>2. CASE i # top
    <3>1. i + 1 \in 1 .. top /\ (i + 1) - 1 = i /\ i + 1 \in 0 .. top
      BY <2>2
    <3>2. T[i] = Revert(T[i + 1], r[i + 1])
      BY <3>1
    <3> QED
      BY <2>2, <3>1, <3>2
  <2> QED
    BY <2>1, <2>2
<1>2. g = [i \in 0 .. top |-> g[i]] /\ h = [i \in 0 .. top |-> h[i]]
  OBVIOUS
<1>3. Replay(g, r, t, top)
  <2> HIDE DEF g
  <2>1. h = [i \in 0 .. top |-> IF i = top THEN t ELSE Revert(g[i + 1], r[i + 1])]
    OBVIOUS
  <2> HIDE DEF h
  <2>2. g = h
    BY <1>1, <1>2
  <2> QED
    BY <2>1, <2>2 DEF Replay
<1> HIDE DEF g, h
<1> DEFINE f == CHOOSE f : Replay(f, r, t, top)
<1>4. Replay(f, r, t, top)
  BY <1>3
<1>5. Replayed(r, t, top) = f
  BY DEF Replayed, Replay
<1> HIDE DEF f
<1>6. \A i \in 0 .. top : f[i] = IF i = top THEN t ELSE Revert(f[i + 1], r[i + 1])
  BY <1>4 DEF Replay
<1> DEFINE Off == {k \in 0 .. top : f[top - k] # T[top - k]}
<1>7. Off = {}
  <2>1. SUFFICES ASSUME Off # {} PROVE FALSE
    OBVIOUS
  <2>2. Off \in SUBSET Nat
    OBVIOUS
  <2> HIDE DEF Off
  <2>3. PICK k \in Off : \A l \in Off : k <= l
    BY <2>1, <2>2, LeastNumber
  <2>4. k \in 0 .. top /\ f[top - k] # T[top - k]
    BY <2>3 DEF Off
  <2>5. CASE k = 0
    <3>1. top - k = top /\ top \in 0 .. top
      BY <2>5
    <3> QED
      BY <2>4, <3>1, <1>6
  <2>6. CASE k # 0
    <3> DEFINE i == top - k
    <3>1. /\ k - 1 \in 0 .. top /\ ~(k <= k - 1) /\ top - (k - 1) = i + 1
          /\ i \in 0 .. top /\ i # top /\ i + 1 \in 1 .. top /\ (i + 1) - 1 = i
      BY <2>4, <2>6
    <3>2. f[i + 1] = T[i + 1]
      <4>1. k - 1 \notin Off
        BY <2>3, <3>1
      <4> QED
        BY <4>1, <3>1 DEF Off
    <3> HIDE DEF i
    <3>3. f[i] = Revert(f[i + 1], r[i + 1]) /\ T[i] = Revert(T[i + 1], r[i + 1])
      BY <3>1, <1>6
    <3>4. f[i] = T[i]
      BY <3>2, <3>3
    <3> QED
      BY <2>4, <3>4 DEF i
  <2> QED
    BY <2>5, <2>6
<1>8. ASSUME NEW i \in 0 .. top PROVE f[i] = T[i]
  <2>1. top - i \in 0 .. top /\ top - (top - i) = i
    OBVIOUS
  <2> QED
    BY <2>1, <1>7
<1> QED
  BY <1>5, <1>8 DEF Replays

-----------------------------------------------------------------------------
(* What a state between commands is: closed units that lead, record by     *)
(* record, through the texts T, with ptr at the start of a unit; and from  *)
(* there on the way there and back, but for a text that is forgotten.      *)
At(s) == IF Live(s) THEN s.ptr ELSE Len(s.recs) + 1
Behind(s, T) == UnitTexts(s.recs, T, 1, At(s) - 1)
Beyond(s, T) == UnitTexts(s.recs, T, At(s), Len(s.recs))

Listed(s, T) ==
  /\ List(s.recs) /\ Units(s.recs, Len(s.recs))
  /\ Chain(T, s.recs, s.text) /\ \A i \in 0 .. Len(s.recs) : T[i] \in Texts
  /\ s.ptr \in {Null, Anchor} \cup 1 .. Len(s.recs)
  /\ Live(s) => StartsUnit(s.recs, s.ptr) /\ ~s.recs[Len(s.recs)].min

Sound(s, T) ==
  /\ Listed(s, T)
  /\ \/ Even(Beyond(s, T), s.text)
     \/ Odd(Beyond(s, T)) /\ s.ptr = 1

LEMMA ListedTypes ==
  ASSUME NEW s, NEW T, Listed(s, T)
  PROVE  /\ Len(s.recs) \in Nat /\ At(s) \in 1 .. Len(s.recs) + 1
         /\ s.text \in Texts /\ T[Len(s.recs)] = s.text
         /\ Behind(s, T) \in Seq(Texts) /\ Beyond(s, T) \in Seq(Texts)
<1>1. Len(s.recs) \in Nat
  BY LenProperties DEF Listed, List
<1>2. At(s) \in 1 .. Len(s.recs) + 1
  BY <1>1 DEF At, Live
<1>3. T[Len(s.recs)] = s.text
  BY DEF Listed, Chain
<1>4. s.text \in Texts
  <2>1. Len(s.recs) \in 0 .. Len(s.recs)
    BY <1>1
  <2> QED
    BY <2>1, <1>3 DEF Listed
<1>5. At(s) - 1 \in Nat /\ \A i \in 0 .. (At(s) - 1) - 1 : i \in 0 .. Len(s.recs)
  BY <1>1, <1>2
<1>6. \A i \in 0 .. (At(s) - 1) - 1 : T[i] \in Texts
  BY <1>5 DEF Listed
<1>7. \A i \in 0 .. Len(s.recs) - 1 : T[i] \in Texts
  BY <1>1 DEF Listed
<1>8. Behind(s, T) \in Seq(Texts)
  BY <1>5, <1>6, UnitTextsType DEF Behind
<1>9. Beyond(s, T) \in Seq(Texts)
  BY <1>1, <1>7, UnitTextsType DEF Beyond
<1> QED
  BY <1>1, <1>2, <1>3, <1>4, <1>8, <1>9

(* The text of the buffer is the one before ptr.                           *)
LEMMA TextBehind ==
  ASSUME NEW s, NEW T, Sound(s, T), At(s) > 1
  PROVE  T[At(s) - 1] = s.text
<1> DEFINE n == Len(s.recs)
           a == At(s)
           b == Beyond(s, T)
<1>0. Listed(s, T)
  BY DEF Sound
<1>1. /\ n \in Nat /\ a \in 1 .. n + 1 /\ T[n] = s.text /\ s.text \in Texts
      /\ b \in Seq(Texts)
  BY <1>0, ListedTypes
<1>2. CASE ~Live(s)
  <2>1. a = n + 1
    BY <1>2 DEF At
  <2>2. a - 1 = n
    BY <2>1, <1>1
  <2> QED
    BY <2>2, <1>1
<1>3. CASE Live(s)
  <2>1. a = s.ptr /\ a \in 1 .. n /\ StartsUnit(s.recs, a) /\ Even(b, s.text)
    BY <1>0, <1>3 DEF At, Live, Listed, Sound
  <2>2. \A i \in 0 .. n - 1 : T[i] \in Texts
    BY <1>0, <1>1 DEF Listed
  <2> DEFINE x == <<T[a - 1]>>
             y == UnitTexts(s.recs, T, a + 1, n)
  <2> HIDE DEF n, a
  <2>3. b = x \o y
    <3>1. LeadsWith(s.recs, T, a, n)
      BY <1>1, <2>1, <2>2, UnitTextsFirst
    <3> QED
      BY <3>1 DEF LeadsWith, Beyond, a, n
  <2>4. a - 1 \in 0 .. n - 1 /\ a + 1 \in Nat
    BY <1>1, <2>1
  <2>5. x \in Seq(Texts) /\ Len(x) = 1 /\ x[1] = T[a - 1]
    BY <2>2, <2>4
  <2>6. y \in Seq(Texts)
    BY <1>1, <2>2, UnitTextsType
  <2> HIDE DEF x, y, b
  <2> DEFINE l == Len(b)
             c == Append(b, s.text)
  <2>7. Join(Texts, x \o y, x, 1, y, Len(y)) /\ Len(y) \in Nat
    BY <2>5, <2>6, JoinIs
  <2>8. 1 \in 1 .. 1
    OBVIOUS
  <2>9. b[1] = T[a - 1] /\ l = 1 + Len(y)
    BY <2>3, <2>5, <2>7, <2>8 DEF Join
  <2>10. l \in Nat /\ l > 0
    BY <2>7, <2>9
  <2>11. Len(c) = l + 1 /\ c[l + 1] = s.text /\ \A i \in 1 .. l : c[i] = b[i]
    BY <1>1, AppendIs
  <2>12. \A i \in 1 .. Len(c) : c[i] = c[Len(c) + 1 - i]
    BY <2>1 DEF Even, Palindrome
  <2> HIDE DEF c, l
  <2>13. 1 \in 1 .. l /\ 1 \in 1 .. Len(c) /\ Len(c) + 1 - 1 = l + 1
    BY <2>10, <2>11
  <2>14. c[1] = c[l + 1]
    BY <2>12, <2>13
  <2> QED
    BY <2>9, <2>11, <2>13, <2>14 DEF a
<1> QED
  BY <1>2, <1>3

(* The texts that undo and redo lead to, by the texts T.                   *)
LEMMA HistoryIs ==
  ASSUME NEW s, NEW T, Sound(s, T)
  PROVE  PastOf(s) = Behind(s, T) /\ FutureOf(s) = Half(Beyond(s, T))
<1> DEFINE r == s.recs
           t == s.text
           n == Len(r)
           top == At(s) - 1
<1>0. Listed(s, T)
  BY DEF Sound
<1>1. n \in Nat /\ At(s) \in 1 .. n + 1 /\ T[n] = t
  BY <1>0, ListedTypes
<1>2. \A i \in 1 .. n : T[i - 1] = Revert(T[i], r[i])
  BY <1>0 DEF Listed, Chain
<1>3. top = IF Live(s) THEN s.ptr - 1 ELSE Len(s.recs)
  BY <1>1 DEF At
<1>4. /\ PastOf(s) = UnitTexts(r, Replayed(r, t, top), 1, top)
      /\ Behind(s, T) = UnitTexts(r, T, 1, top)
      /\ ~Live(s) => FutureOf(s) = <<>>
      /\ Live(s) => FutureOf(s) = Half(UnitTexts(r, Replayed(r, t, n), s.ptr, n))
      /\ Beyond(s, T) = UnitTexts(r, T, At(s), n)
  BY <1>3 DEF PastOf, FutureOf, Half, Behind, Beyond
<1>5. top \in 0 .. n /\ (top # 0 => At(s) > 1)
  BY <1>1
<1>6. top # 0 => T[top] = t
  BY <1>5, TextBehind
<1> HIDE DEF n, top, r, t
<1>7. UnitTexts(r, Replayed(r, t, top), 1, top) = UnitTexts(r, T, 1, top)
  <2>1. CASE top = 0
    BY <2>1, UnitTextsStep
  <2>2. CASE top # 0
    <3> DEFINE V == Replayed(r, t, top)
    <3>1. top \in Nat /\ 1 \in Nat \ {0} /\ \A i \in 1 .. top : i \in 1 .. n /\ i - 1 \in 0 .. top
      BY <1>1, <1>5
    <3>2. \A i \in 1 .. top : T[i - 1] = Revert(T[i], r[i])
      BY <3>1, <1>2
    <3>3. Replays(r, t, top, T)
      BY <1>6, <2>2, <3>1, <3>2, ReplayedIs
    <3>4. \A i \in 0 .. top : V[i] = T[i]
      BY <3>3 DEF Replays
    <3> HIDE DEF V
    <3>5. \A i \in 1 .. top : (StartsUnit(r, i) <=> StartsUnit(r, i)) /\ V[i - 1] = T[i - 1]
      BY <3>1, <3>4
    <3>6. UnitTexts(r, V, 1, top) = UnitTexts(r, T, 1, top)
      BY <3>1, <3>5, UnitTextsSame
    <3> QED
      BY <3>6 DEF V
  <2> QED
    BY <2>1, <2>2
<1>8. CASE ~Live(s)
  <2>1. Beyond(s, T) = <<>>
    <3>1. At(s) = n + 1 /\ n + 1 \in Nat /\ n < n + 1
      BY <1>1, <1>8 DEF At, n, r
    <3> QED
      BY <1>1, <1>4, <3>1, NoUnitTexts
  <2>2. Half(<<>>) = <<>>
    BY DEF Half
  <2> QED
    BY <1>4, <1>7, <1>8, <2>1, <2>2
<1>9. CASE Live(s)
  <2> DEFINE V == Replayed(r, t, n)
             p == s.ptr
  <2>1. Replays(r, t, n, T)
    BY <1>1, <1>2, ReplayedIs
  <2>2. \A i \in 0 .. n : V[i] = T[i]
    BY <2>1 DEF Replays
  <2> HIDE DEF V
  <2>3. p \in Nat \ {0} /\ At(s) = p
    BY <1>9 DEF Live, At
  <2> HIDE DEF p
  <2>4. \A i \in p .. n : (StartsUnit(r, i) <=> StartsUnit(r, i)) /\ V[i - 1] = T[i - 1]
    BY <1>1, <2>2, <2>3
  <2>5. UnitTexts(r, V, p, n) = UnitTexts(r, T, p, n)
    BY <1>1, <2>3, <2>4, UnitTextsSame
  <2> QED
    BY <1>4, <1>7, <1>9, <2>3, <2>5 DEF V, p
<1> QED
  BY <1>8, <1>9

(* At rest there is no future.                                             *)
LEMMA RestingSound ==
  ASSUME NEW s, NEW T, Listed(s, T), ~Live(s)
  PROVE  Sound(s, T) /\ Even(Beyond(s, T), s.text) /\ Beyond(s, T) = <<>>
<1>1. Len(s.recs) \in Nat
  BY ListedTypes
<1>2. At(s) = Len(s.recs) + 1 /\ Len(s.recs) + 1 \in Nat /\ Len(s.recs) < Len(s.recs) + 1
  BY <1>1 DEF At
<1>3. Beyond(s, T) = <<>>
  BY <1>1, <1>2, NoUnitTexts DEF Beyond
<1>4. Even(<<>>, s.text)
  <2> DEFINE c == Append(<<>>, s.text)
  <2>1. Len(c) = 1
    OBVIOUS
  <2> HIDE DEF c
  <2>2. \A i \in 1 .. Len(c) : Len(c) + 1 - i = i
    BY <2>1
  <2>3. Palindrome(c)
    BY <2>2 DEF Palindrome
  <2>4. 0 \in Nat /\ Len(<<>>) = 2 * 0
    OBVIOUS
  <2> QED
    BY <2>3, <2>4 DEF Even, c
<1>5. Even(Beyond(s, T), s.text)
  BY <1>3, <1>4
<1> QED
  BY <1>3, <1>5 DEF Sound

(* A list that another one has grown to by one unit.                       *)
OneMore(s, T, q, U) ==
  LET n == Len(s.recs) IN
  /\ n < Len(q.recs)
  /\ \A i \in 1 .. n : q.recs[i].unit = s.recs[i].unit
  /\ \A i \in 0 .. n : U[i] = T[i]
  /\ StartsUnit(q.recs, n + 1)
  /\ \A i \in n + 2 .. Len(q.recs) : ~StartsUnit(q.recs, i)

LEMMA OneMoreUnit ==
  ASSUME NEW s, NEW T, NEW q, NEW U, Listed(s, T), Listed(q, U), OneMore(s, T, q, U),
         NEW from \in 1 .. Len(s.recs) + 1
  PROVE  UnitTexts(q.recs, U, from, Len(q.recs)) =
           Append(UnitTexts(s.recs, T, from, Len(s.recs)), s.text)
<1> DEFINE n == Len(s.recs)
           m == Len(q.recs)
<1>1. n \in Nat /\ m \in Nat /\ n < m /\ T[n] = s.text
  BY ListedTypes DEF OneMore
<1>2. /\ \A i \in 1 .. n : q.recs[i].unit = s.recs[i].unit
      /\ \A i \in 0 .. n : U[i] = T[i]
      /\ StartsUnit(q.recs, n + 1) /\ \A i \in n + 2 .. m : ~StartsUnit(q.recs, i)
  BY DEF OneMore
<1> HIDE DEF n, m
<1>3. /\ from \in Nat \ {0} /\ n + 1 \in Nat \ {0} /\ n + 1 <= m /\ (n + 1) - 1 = n
      /\ n + 1 >= from /\ (n + 1) + 1 = n + 2 /\ n \in 0 .. n
  BY <1>1 DEF n
<1>4. UnitTexts(q.recs, U, from, m) = UnitTexts(q.recs, U, from, n + 1)
  <2>1. \A i \in (n + 1) + 1 .. m : i >= from => ~StartsUnit(q.recs, i)
    BY <1>2, <1>3
  <2> QED
    BY <1>1, <1>3, <2>1, UnitTextsNone
<1>5. UnitTexts(q.recs, U, from, n + 1) = Onto(UnitTexts(q.recs, U, from, n), q.recs, U, from, n + 1)
  BY <1>3, UnitTextsStep
<1>6. UnitTexts(q.recs, U, from, n) = UnitTexts(s.recs, T, from, n)
  <2>1. ASSUME NEW i \in from .. n
        PROVE  (StartsUnit(q.recs, i) <=> StartsUnit(s.recs, i)) /\ U[i - 1] = T[i - 1]
    <3>1. i \in 1 .. n /\ i - 1 \in 0 .. n
      BY <1>3
    <3> QED
      BY <1>2, <3>1 DEF StartsUnit
  <2> QED
    BY <1>1, <1>3, <2>1, UnitTextsSame
<1>7. U[n] = s.text
  BY <1>1, <1>2, <1>3
<1> QED
  BY <1>2, <1>3, <1>4, <1>5, <1>6, <1>7 DEF Onto, n, m

(* An edit: what there was on the way there and back belongs to the past.  *)
Edited(s, T, q, U) == Behind(q, U) = Behind(s, T) \o Append(Beyond(s, T), s.text)

LEMMA EditHistory ==
  ASSUME NEW s, NEW T, NEW q, NEW U, Listed(s, T), Listed(q, U), OneMore(s, T, q, U), ~Live(q)
  PROVE  Edited(s, T, q, U)
<1> DEFINE n == Len(s.recs)
           m == Len(q.recs)
           a == Behind(s, T)
           b == Beyond(s, T)
           t == s.text
<1>1. /\ n \in Nat /\ m \in Nat /\ At(s) \in 1 .. n + 1 /\ t \in Texts
      /\ a \in Seq(Texts) /\ b \in Seq(Texts)
  BY ListedTypes
<1>2. At(q) - 1 = m /\ 1 \in 1 .. n + 1
  BY <1>1 DEF At
<1>3. Behind(q, U) = UnitTexts(q.recs, U, 1, m)
  BY <1>2 DEF Behind
<1>4. UnitTexts(q.recs, U, 1, m) = Append(UnitTexts(s.recs, T, 1, n), t)
  BY <1>2, OneMoreUnit
<1>5. Parts(s.recs, T, 1, At(s), n)
  <2>1. \A i \in 0 .. n - 1 : T[i] \in Texts
    BY <1>1 DEF Listed
  <2>2. 1 \in Nat /\ At(s) \in Nat \ {0} /\ 1 <= At(s) /\ At(s) - 1 <= n
    BY <1>1
  <2> HIDE DEF n
  <2> QED
    BY <1>1, <2>1, <2>2, UnitTextsSplit
<1>6. UnitTexts(s.recs, T, 1, n) = a \o b
  BY <1>5 DEF Parts, Behind, Beyond
<1> HIDE DEF a, b, t
<1>7. AppendsBehind(a, b, t)
  BY <1>1, AppendBehind
<1>8. Behind(q, U) = Append(a \o b, t)
  BY <1>3, <1>4, <1>6
<1>9. Behind(q, U) = a \o Append(b, t)
  BY <1>7, <1>8 DEF AppendsBehind
<1> QED
  BY <1>9 DEF Edited, a, b, t

(* An undo: the last text of the past is that of the buffer again, and the *)
(* one it had is the first that redo returns to.                           *)
Undid(s, T, q, U) ==
  /\ Behind(s, T) = Append(Behind(q, U), q.text)
  /\ Half(Beyond(q, U)) = <<s.text>> \o Half(Beyond(s, T))

LEMMA UndoneHistory ==
  ASSUME NEW s, NEW T, NEW q, NEW U, Sound(s, T), Listed(q, U), OneMore(s, T, q, U),
         NEW u, u = q.ptr, u \in 1 .. At(s) - 1, StartsUnit(s.recs, u), q.text = T[u - 1],
         \A i \in u + 1 .. At(s) - 1 : ~StartsUnit(s.recs, i)
  PROVE  Sound(q, U) /\ Even(Beyond(q, U), q.text) /\ Undid(s, T, q, U)
<1> DEFINE n == Len(s.recs)
           m == Len(q.recs)
           k == At(s)
           b == Beyond(s, T)
           t == s.text
           v == q.text
<1>0. Listed(s, T)
  BY DEF Sound
<1>1. /\ n \in Nat /\ m \in Nat /\ k \in 1 .. n + 1 /\ t \in Texts /\ v \in Texts
      /\ b \in Seq(Texts) /\ n < m /\ Behind(q, U) \in Seq(Texts)
  BY <1>0, ListedTypes DEF OneMore
<1>2. /\ \A i \in 1 .. n : q.recs[i].unit = s.recs[i].unit
      /\ \A i \in 0 .. n : U[i] = T[i]
  BY DEF OneMore
<1>3. u \in 1 .. k - 1 /\ \A i \in u + 1 .. k - 1 : ~StartsUnit(s.recs, i)
  OBVIOUS
<1>4. /\ \A i \in 0 .. n : T[i] \in Texts
      /\ \A i \in 0 .. m : U[i] \in Texts
  BY <1>0 DEF Listed
<1>5. At(q) = u
  <2>1. u \in 1 .. m
    BY <1>1, <1>3
  <2>2. q.ptr = u /\ u \in 1 .. Len(q.recs)
    BY <2>1
  <2> QED
    BY <2>2 DEF At, Live
<1>6. /\ Behind(s, T) = UnitTexts(s.recs, T, 1, k - 1)
      /\ Behind(q, U) = UnitTexts(q.recs, U, 1, u - 1)
      /\ b = UnitTexts(s.recs, T, k, n)
      /\ Beyond(q, U) = UnitTexts(q.recs, U, u, m)
  BY <1>5 DEF Behind, Beyond
<1>7. Even(b, t)
  <2>1. ~(s.ptr = 1)
    <3>1. SUFFICES ASSUME s.ptr = 1 PROVE FALSE
      OBVIOUS
    <3>2. 1 \in 1 .. n
      BY <1>1, <1>3
    <3>3. k = 1
      BY <3>1, <3>2 DEF At, Live
    <3> QED
      BY <3>3, <1>3
  <2> QED
    BY <2>1 DEF Sound
<1>8. \A from \in 1 .. n + 1 :
        UnitTexts(q.recs, U, from, m) = Append(UnitTexts(s.recs, T, from, n), t)
  BY <1>0, OneMoreUnit
<1> HIDE DEF n, m, k, b, t, v
<1>9. /\ u \in Nat \ {0} /\ u \in 1 .. n /\ u \in 1 .. m /\ u + 1 \in 1 .. n + 1 /\ u - 1 \in Nat
      /\ k \in Nat \ {0} /\ k - 1 \in Nat /\ k - 1 <= n /\ u + 1 <= k /\ u <= k - 1
      /\ (u + 1) - 1 = u /\ 1 \in Nat \ {0} /\ u >= 1 /\ 1 \in Nat /\ u + 1 \in Nat
      /\ k - 1 < k /\ u \in Nat
  BY <1>1, <1>3
(* What is before ptr.                                                     *)
<1>10. UnitTexts(q.recs, U, 1, u - 1) = UnitTexts(s.recs, T, 1, u - 1)
  <2>1. ASSUME NEW i \in 1 .. u - 1
        PROVE  (StartsUnit(q.recs, i) <=> StartsUnit(s.recs, i)) /\ U[i - 1] = T[i - 1]
    <3>1. i \in 1 .. n /\ i - 1 \in 0 .. n
      BY <1>1, <1>9
    <3> QED
      BY <1>2, <3>1 DEF StartsUnit
  <2> QED
    BY <1>9, <2>1, UnitTextsSame
<1>11. UnitTexts(s.recs, T, 1, k - 1) = UnitTexts(s.recs, T, 1, u)
  BY <1>3, <1>9, UnitTextsNone
<1>12. UnitTexts(s.recs, T, 1, u) = Append(UnitTexts(s.recs, T, 1, u - 1), v)
  <2>1. \A i \in Nat \ {0} :
          UnitTexts(s.recs, T, 1, i) = Onto(UnitTexts(s.recs, T, 1, i - 1), s.recs, T, 1, i)
    BY UnitTextsStep
  <2>2. u \in Nat \ {0}
    BY <1>9
  <2>3. UnitTexts(s.recs, T, 1, u) = Onto(UnitTexts(s.recs, T, 1, u - 1), s.recs, T, 1, u)
    BY <2>1, <2>2
  <2> QED
    BY <1>9, <2>3 DEF Onto, v
<1>13. Behind(s, T) = Append(Behind(q, U), v)
  BY <1>6, <1>10, <1>11, <1>12
(* What is from ptr on.                                                    *)
<1>14. UnitTexts(s.recs, T, u + 1, n) = b
  <2> DEFINE c == u + 1
  <2>1. c \in Nat /\ c <= k /\ k - 1 \in Nat /\ c - 1 = u /\ u < c
    BY <1>9
  <2>2. UnitTexts(s.recs, T, c, k - 1) = UnitTexts(s.recs, T, c, u)
    BY <1>3, <1>9, <2>1, UnitTextsNone
  <2> HIDE DEF c
  <2>3. UnitTexts(s.recs, T, c, u) = <<>>
    BY <1>9, <2>1, NoUnitTexts
  <2>4. \A i \in 0 .. n - 1 : T[i] \in Texts
    BY <1>1, <1>4
  <2>5. Parts(s.recs, T, c, k, n)
    BY <1>1, <1>9, <2>1, <2>4, UnitTextsSplit
  <2>6. UnitTexts(s.recs, T, c, n) = <<>> \o b
    BY <1>6, <2>2, <2>3, <2>5 DEF Parts
  <2>7. <<>> \o b = b
    BY <1>1, ConcatEmptySeq
  <2> QED
    BY <2>6, <2>7 DEF c
<1>15. StartsUnit(q.recs, u) /\ U[u - 1] = v
  <2>1. u - 1 \in 0 .. n
    BY <1>1, <1>9
  <2> QED
    BY <1>2, <1>9, <2>1 DEF StartsUnit, v
<1>16. LeadsWith(q.recs, U, u, m)
  <2>1. \A i \in 0 .. m - 1 : U[i] \in Texts
    BY <1>1, <1>4
  <2> QED
    BY <1>1, <1>9, <1>15, <2>1, UnitTextsFirst
<1>17. UnitTexts(q.recs, U, u + 1, m) = Append(b, t)
  BY <1>8, <1>9, <1>14
<1>18. Beyond(q, U) = <<v>> \o Append(b, t)
  BY <1>6, <1>15, <1>16, <1>17 DEF LeadsWith
<1>19. Even(Beyond(q, U), v) /\ Half(Beyond(q, U)) = <<t>> \o Half(b)
  <2>1. RoundsBack(Texts, Beyond(q, U), v, b, t)
    BY <1>1, <1>7, <1>18, RoundUndo
  <2> QED
    BY <2>1 DEF RoundsBack
<1>20. Sound(q, U)
  BY <1>19 DEF Sound, v
<1> QED
  BY <1>13, <1>19, <1>20 DEF Undid, v, t, b

(* The list q is the list r without its first unit, of n records.          *)
WithoutFirst(r, T, q, U, n) ==
  /\ n \in 1 .. Len(r) /\ Len(q) = Len(r) - n
  /\ StartsUnit(r, 1) /\ \A i \in 2 .. n : ~StartsUnit(r, i)
  /\ \A i \in 1 .. Len(q) : /\ StartsUnit(q, i) <=> StartsUnit(r, i + n)
                            /\ U[i - 1] = T[i + n - 1]

(* The texts before its units are those of r but the first one.            *)
FirstGone(S, r, T, q, U, n, m) ==
  /\ UnitTexts(r, T, 1, m) \in Seq(S) /\ UnitTexts(r, T, 1, m) # <<>>
  /\ UnitTexts(q, U, 1, m - n) = Tail(UnitTexts(r, T, 1, m))

LEMMA FirstDropped ==
  ASSUME NEW S, NEW r, NEW T, NEW q, NEW U, NEW n, WithoutFirst(r, T, q, U, n), Len(r) \in Nat,
         \A i \in 0 .. Len(r) - 1 : T[i] \in S, NEW m \in n .. Len(r)
  PROVE  FirstGone(S, r, T, q, U, n, m)
<1> DEFINE a == UnitTexts(r, T, 1, m)
           b == UnitTexts(q, U, 1, m - n)
           x == <<T[0]>>
<1>1. /\ n \in 1 .. Len(r) /\ n \in Nat /\ m \in Nat /\ m - n \in Nat /\ 1 \in 1 .. m /\ 1 \in Nat \ {0}
      /\ 1 - 1 = 0 /\ 1 + 1 = 2 /\ (m - n) + n = m /\ n + 1 \in Nat \ {0} /\ (n + 1) - 1 = n
      /\ 2 <= n + 1 /\ n <= m /\ 2 \in Nat /\ 1 \in Nat /\ 1 <= n /\ 1 < 2
      /\ 0 \in 0 .. m - 1
  BY DEF WithoutFirst
<1>2. /\ StartsUnit(r, 1) /\ \A i \in 2 .. n : ~StartsUnit(r, i)
      /\ \A i \in 1 .. m - n : (StartsUnit(q, i) <=> StartsUnit(r, i + n)) /\ U[i - 1] = T[i + n - 1]
  <2>1. \A i \in 1 .. m - n : i \in 1 .. Len(q)
    BY DEF WithoutFirst
  <2> QED
    BY <2>1 DEF WithoutFirst
<1>3. \A i \in 0 .. m - 1 : T[i] \in S
  OBVIOUS
<1>4. a \in Seq(S)
  BY <1>1, <1>3, UnitTextsType
<1>5. LeadsWith(r, T, 1, m)
  BY <1>1, <1>2, <1>3, UnitTextsFirst
<1>6. a = x \o UnitTexts(r, T, 2, m)
  BY <1>1, <1>5 DEF LeadsWith
<1>7. UnitTexts(r, T, 2, m) = b
  <2>1. UnitTexts(r, T, 2, n) = UnitTexts(r, T, 2, 1)
    <3>1. \A i \in 1 + 1 .. n : i >= 2 => ~StartsUnit(r, i)
      BY <1>2
    <3> QED
      BY <1>1, <3>1, UnitTextsNone
  <2>2. UnitTexts(r, T, 2, 1) = <<>>
    BY <1>1, NoUnitTexts
  <2> DEFINE c == n + 1
             d == m - n
  <2>3. c \in Nat \ {0} /\ c - 1 = n /\ 2 <= c /\ c = 1 + n /\ d \in Nat /\ d + n = m
    BY <1>1
  <2>4. \A i \in 1 .. d : (StartsUnit(q, i) <=> StartsUnit(r, i + n)) /\ U[i - 1] = T[i + n - 1]
    BY <1>2
  <2>5. b = UnitTexts(q, U, 1, d)
    OBVIOUS
  <2> HIDE DEF c, d
  <2>6. Parts(r, T, 2, c, m)
    BY <1>1, <1>3, <2>3, UnitTextsSplit
  <2>7. Moved(r, T, q, U, n, 1, d)
    BY <1>1, <2>3, <2>4, UnitTextsMoved
  <2>8. UnitTexts(r, T, 2, m) = <<>> \o UnitTexts(r, T, c, m)
    BY <2>1, <2>2, <2>3, <2>6 DEF Parts
  <2>9. UnitTexts(r, T, c, m) \in Seq(S)
    BY <1>1, <1>3, UnitTextsType
  <2>10. <<>> \o UnitTexts(r, T, c, m) = UnitTexts(r, T, c, m)
    BY <2>9, ConcatEmptySeq
  <2> QED
    BY <2>3, <2>5, <2>7, <2>8, <2>10 DEF Moved
<1>8. b \in Seq(S)
  BY <1>1, <1>3, <1>7, UnitTextsType
<1>9. x \in Seq(S) /\ Len(x) = 1
  BY <1>1, <1>3
<1> HIDE DEF a, b, x
<1>10. a = x \o b
  BY <1>6, <1>7
<1>11. Join(S, x \o b, x, 1, b, Len(b)) /\ Len(b) \in Nat
  BY <1>8, <1>9, JoinIs
<1>12. Len(a) = 1 + Len(b) /\ \A i \in 1 .. Len(b) : a[1 + i] = b[i]
  BY <1>10, <1>11 DEF Join
<1>13. a # <<>>
  <2>1. Len(a) > 0
    BY <1>11, <1>12
  <2> QED
    BY <2>1
<1> DEFINE z == Tail(a)
<1>14. z \in Seq(S) /\ Len(z) = Len(a) - 1 /\ \A i \in 1 .. Len(z) : z[i] = a[i + 1]
  BY <1>4, <1>13, HeadTailProperties DEF a
<1> HIDE DEF z
<1>15. Len(z) = Len(b) /\ \A i \in 1 .. Len(z) : z[i] = b[i]
  <2>1. Len(z) = Len(b) /\ \A i \in 1 .. Len(b) : i + 1 = 1 + i
    BY <1>11, <1>12, <1>14
  <2> QED
    BY <2>1, <1>12, <1>14
<1>16. z = b
  BY <1>8, <1>14, <1>15, SeqEqual
<1> QED
  BY <1>4, <1>13, <1>16 DEF FirstGone, a, b, z

(* An eviction: the oldest text of the past is forgotten, or the text that *)
(* undo has come to.                                                       *)
Evicted(s, T, q, U) ==
  /\ Behind(q, U) = IF Behind(s, T) = <<>> THEN <<>> ELSE Tail(Behind(s, T))
  /\ Half(Beyond(q, U)) = Half(Beyond(s, T))

LEMMA EvictedHistory ==
  ASSUME NEW s, NEW T, NEW q, NEW U, Listed(s, T), Even(Beyond(s, T), s.text), Listed(q, U),
         NEW n, WithoutFirst(s.recs, T, q.recs, U, n), q.text = s.text,
         IF s.ptr = 1 THEN n < Len(s.recs) /\ q.ptr = 1 ELSE At(s) > n /\ At(q) = At(s) - n
  PROVE  Sound(q, U) /\ Evicted(s, T, q, U)
<1> DEFINE l == Len(s.recs)
           m == Len(q.recs)
           k == At(s)
           j == At(q)
           b == Beyond(s, T)
           a == Behind(s, T)
           t == s.text
<1>1. /\ l \in Nat /\ m \in Nat /\ k \in 1 .. l + 1 /\ t \in Texts
      /\ b \in Seq(Texts) /\ a \in Seq(Texts)
      /\ Behind(q, U) \in Seq(Texts) /\ Beyond(q, U) \in Seq(Texts)
  BY ListedTypes
<1>2. n \in 1 .. l /\ m = l - n /\ \A i \in 0 .. l - 1 : T[i] \in Texts
  BY <1>1 DEF Listed, WithoutFirst
<1>3. /\ a = UnitTexts(s.recs, T, 1, k - 1)
      /\ Behind(q, U) = UnitTexts(q.recs, U, 1, j - 1)
      /\ b = UnitTexts(s.recs, T, k, l)
      /\ Beyond(q, U) = UnitTexts(q.recs, U, j, m)
  BY DEF Behind, Beyond
<1>4. \A i \in n .. l :
        /\ UnitTexts(s.recs, T, 1, i) # <<>>
        /\ UnitTexts(q.recs, U, 1, i - n) = Tail(UnitTexts(s.recs, T, 1, i))
  <2>1. \A i \in n .. l : FirstGone(Texts, s.recs, T, q.recs, U, n, i)
    BY <1>1, <1>2, FirstDropped
  <2> QED
    BY <2>1 DEF FirstGone
<1>5. CASE s.ptr = 1
  <2>1. 1 \in 1 .. l /\ 1 \in 1 .. m
    BY <1>1, <1>2, <1>5
  <2>2. k = 1 /\ j = 1
    BY <1>5, <2>1 DEF At, Live
  <2> HIDE DEF l, m, k, j, b, a, t
  <2>3. k - 1 = 0 /\ j - 1 = 0 /\ l \in n .. l /\ l - n = m
    BY <1>1, <1>2, <2>2
  <2>4. a = <<>> /\ Behind(q, U) = <<>>
    BY <1>3, <2>3, UnitTextsStep
  <2>5. b # <<>> /\ Beyond(q, U) = Tail(b)
    BY <1>3, <1>4, <2>2, <2>3
  <2>6. Odd(Beyond(q, U)) /\ Half(Beyond(q, U)) = Half(b)
    BY <1>1, <2>5, RoundEvicted DEF b, t
  <2>7. q.ptr = 1
    BY <1>5
  <2> QED
    BY <2>4, <2>6, <2>7 DEF Sound, Evicted, a, b
<1>6. CASE s.ptr # 1
  <2>1. k > n /\ j = k - n
    BY <1>6
  <2>2. \A i \in 1 .. m : (StartsUnit(q.recs, i) <=> StartsUnit(s.recs, i + n)) /\ U[i - 1] = T[i + n - 1]
    BY DEF WithoutFirst
  <2> HIDE DEF l, m, k, j, b, a, t
  <2>3. /\ k - 1 \in n .. l /\ (k - 1) - n = j - 1
        /\ n \in Nat /\ j \in Nat \ {0} /\ j + n = k /\ m + n = l
    BY <1>1, <1>2, <2>1
  <2>4. a # <<>> /\ Behind(q, U) = Tail(a)
    BY <1>3, <1>4, <2>3
  <2>5. \A i \in j .. m : (StartsUnit(q.recs, i) <=> StartsUnit(s.recs, i + n)) /\ U[i - 1] = T[i + n - 1]
    BY <2>2, <2>3
  <2>6. Moved(s.recs, T, q.recs, U, n, j, m)
    BY <1>1, <2>3, <2>5, UnitTextsMoved
  <2>7. Beyond(q, U) = b
    BY <1>3, <2>3, <2>6 DEF Moved
  <2>8. Even(Beyond(q, U), q.text)
    BY <2>7 DEF b
  <2> QED
    BY <2>4, <2>7, <2>8 DEF Sound, Evicted, a, b
<1> QED
  BY <1>5, <1>6

-----------------------------------------------------------------------------
(* q is p but for the first texts, n at most.                              *)
Forget(p, q, n) ==
  \E k \in 0 .. n : k <= Len(p) /\ (k > 0 => Forgets) /\ q = SubSeq(p, k + 1, Len(p))

LEMMA ForgetNone ==
  ASSUME NEW S, NEW p \in Seq(S), NEW n \in Nat
  PROVE  Forget(p, p, n)
<1>1. Len(p) \in Nat /\ 0 \in 0 .. n /\ 0 <= Len(p) /\ ~(0 > 0) /\ 0 + 1 = 1
  OBVIOUS
<1>2. p = SubSeq(p, 1, Len(p))
  BY SubSeqFull
<1> QED
  BY <1>1, <1>2 DEF Forget

LEMMA ForgetMore ==
  ASSUME NEW p, NEW q, NEW n \in Nat, NEW m \in Nat, n <= m, Forget(p, q, n)
  PROVE  Forget(p, q, m)
<1>1. \A k \in 0 .. n : k \in 0 .. m
  OBVIOUS
<1> QED
  BY <1>1 DEF Forget

LEMMA ForgetOne ==
  ASSUME NEW S, NEW p \in Seq(S), NEW q, NEW n \in Nat, Forget(p, q, n), Forgets
  PROVE  Forget(p, IF q = <<>> THEN <<>> ELSE Tail(q), n + 1)
<1>1. PICK k \in 0 .. n : k <= Len(p) /\ q = SubSeq(p, k + 1, Len(p))
  BY DEF Forget
<1> DEFINE l == Len(p)
<1>2. l \in Nat /\ k \in Nat /\ k \in 0 .. n + 1 /\ k + 1 \in 0 .. n + 1 /\ k + 1 \in Int /\ l \in Int
  OBVIOUS
<1>3. CASE k = l
  <2>1. q = <<>>
    <3>1. l < k + 1
      BY <1>2, <1>3
    <3> QED
      BY <1>1, <1>2, <3>1, SubSeqEmpty
  <2> QED
    BY <1>1, <1>2, <2>1 DEF Forget
<1>4. CASE k # l
  <2> DEFINE m == k + 1
             r == SubSeq(p, m, l)
  <2>1. m \in 1 .. l /\ l \in m .. l /\ m \in 0 .. n + 1 /\ m <= l
    BY <1>1, <1>2, <1>4
  <2>2. q = r
    BY <1>1
  <2>3. Tail(r) = SubSeq(p, m + 1, l)
    <3> HIDE DEF m, l, r
    <3>1. Tail(SubSeq(p, m, l)) = SubSeq(p, m + 1, l)
      BY <2>1, HeadTailOfSubSeq DEF l
    <3> QED
      BY <3>1 DEF r
  <2>4. r # <<>>
    <3>1. \A i \in m .. l : p[i] \in S
      <4>1. \A i \in m .. l : i \in 1 .. Len(p)
        BY <2>1
      <4> QED
        BY <4>1, ElementOfSeq
    <3> HIDE DEF m, l
    <3>2. m \in Int /\ l \in Int
      BY <1>2, <2>1
    <3>3. Len(r) = IF m <= l THEN l - m + 1 ELSE 0
      BY <3>1, <3>2, SubSeqProperties
    <3> HIDE DEF r
    <3>4. Len(r) > 0
      BY <2>1, <3>2, <3>3
    <3> QED
      BY <3>4
  <2> HIDE DEF r, m
  <2>5. Tail(q) = SubSeq(p, m + 1, Len(p)) /\ q # <<>>
    BY <2>2, <2>3, <2>4
  <2> QED
    BY <2>1, <2>5 DEF Forget
<1> QED
  BY <1>3, <1>4

(* Going on to edit keeps the way there and back, but for the text that is *)
(* forgotten already.                                                      *)
LEMMA EditForgets ==
  ASSUME NEW s, NEW T, Sound(s, T), Forgets,
         NEW c, c = Behind(s, T) \o Append(Beyond(s, T), s.text)
  PROVE  /\ Behind(s, T) \o Round(s.text, Half(Beyond(s, T))) \in Seq(Texts)
         /\ Forget(Behind(s, T) \o Round(s.text, Half(Beyond(s, T))), c,
                   IF Behind(s, T) = <<>> THEN 1 ELSE 0)
<1> DEFINE a == Behind(s, T)
           b == Beyond(s, T)
           t == s.text
           f == Half(b)
           e == Append(b, t)
           x == Round(t, f)
           n == IF a = <<>> THEN 1 ELSE 0
<1>1. a \in Seq(Texts) /\ b \in Seq(Texts) /\ t \in Texts /\ n \in Nat
  BY ListedTypes DEF Sound
<1>2. e \in Seq(Texts)
  BY <1>1, AppendIs
<1>3. c = a \o e
  OBVIOUS
<1>4. CASE Even(b, t)
  <2>1. x = e
    BY <1>1, <1>4, RoundEven
  <2> HIDE DEF a, x, e, n
  <2>2. a \o x = c /\ a \o x \in Seq(Texts)
    BY <1>1, <1>2, <1>3, <2>1, ConcatProperties
  <2>3. Forget(a \o x, c, n)
    BY <1>1, <2>2, ForgetNone
  <2> QED
    BY <2>2, <2>3 DEF a, x, n
<1>5. CASE Odd(b) /\ s.ptr = 1
  <2>1. Live(s)
    <3>1. Listed(s, T)
      BY DEF Sound
    <3> QED
      BY <1>5, <3>1 DEF Listed, Live, Null, Anchor
  <2>2. a = <<>>
    <3>1. At(s) - 1 = 0
      BY <1>5, <2>1 DEF At
    <3> QED
      BY <3>1, UnitTextsStep DEF Behind
  <2> DEFINE l == Len(x)
  <2>3. l \in Nat \ {0} /\ SubSeq(x, 2, l) = e
    BY <1>1, <1>5, RoundOdd
  <2>4. f \in Seq(Texts)
    BY <1>1, <1>5, RoundOdd
  <2>5. x \in Seq(Texts)
    <3>1. RoundOf(Texts, x, t, f, Len(f)) /\ Len(f) \in Nat
      BY <1>1, <2>4, RoundIs
    <3> QED
      BY <3>1 DEF RoundOf
  <2>6. a \o x = x /\ c = e
    <3> HIDE DEF x, a, e
    <3> QED
      BY <1>2, <1>3, <2>2, <2>5, ConcatEmptySeq
  <2> HIDE DEF x, e
  <2>7. 1 \in 0 .. 1 /\ 1 <= l /\ 1 + 1 = 2
    BY <2>3
  <2>8. Forget(x, e, 1)
    BY <2>3, <2>7 DEF Forget
  <2> QED
    BY <2>2, <2>5, <2>6, <2>8 DEF x
<1> QED
  BY <1>4, <1>5 DEF Sound

-----------------------------------------------------------------------------
(* The texts a buffer can hold.                                            *)
Letters == UNION {{c[i] : i \in DOMAIN c} : c \in Chunk}

LEMMA TextsAre ==
  ASSUME NEW t
  PROVE  t \in Texts <=> t \in Seq(Letters) /\ Len(t) <= MaxText
<1>1. Texts = UNION {[1 .. n -> Letters] : n \in 0 .. MaxText}
  BY DEF Texts, Letters
<1> HIDE DEF Letters
<1>2. ASSUME t \in Texts PROVE t \in Seq(Letters) /\ Len(t) <= MaxText
  <2>1. PICK n \in 0 .. MaxText : t \in [1 .. n -> Letters]
    BY <1>1, <1>2
  <2>2. n \in Nat /\ n <= MaxText
    BY BoundAssumption
  <2>3. t \in Seq(Letters) /\ Len(t) = n
    BY <2>1, <2>2, FunctionIsSeq
  <2> QED
    BY <2>2, <2>3
<1>3. ASSUME t \in Seq(Letters), Len(t) <= MaxText PROVE t \in Texts
  <2>1. Len(t) \in 0 .. MaxText /\ t \in [1 .. Len(t) -> Letters]
    BY <1>3, BoundAssumption, LenProperties
  <2> QED
    BY <1>1, <2>1
<1> QED
  BY <1>2, <1>3

LEMMA TextByLetters ==
  ASSUME NEW x \in Seq(Nat), Len(x) <= MaxText, \A i \in 1 .. Len(x) : x[i] \in Letters
  PROVE  x \in Texts
<1>1. Len(x) \in Nat /\ x \in [1 .. Len(x) -> Nat]
  BY LenProperties
<1>2. x \in [1 .. Len(x) -> Letters]
  BY <1>1
<1>3. x \in Seq(Letters)
  BY <1>1, <1>2, FunctionIsSeq
<1> QED
  BY <1>3, TextsAre

LEMMA LettersOf ==
  ASSUME NEW t \in Texts, NEW i \in 1 .. Len(t)
  PROVE  t[i] \in Letters
<1>1. t \in Seq(Letters)
  BY TextsAre
<1> QED
  BY <1>1, ElementOfSeq

LEMMA PutText ==
  ASSUME NEW t \in Texts, t \in Seq(Nat), NEW s \in Chunk, NEW p \in 0 .. Len(t),
         Len(t) + Len(s) <= MaxText
  PROVE  Put(t, p, s) \in Texts
<1> DEFINE x == Put(t, p, s)
           l == Len(t)
           n == Len(s)
<1>1. s \in Seq(Nat) /\ n \in Nat /\ l \in Nat /\ p \in 0 .. l
  BY ChunkAssumption
<1>2. /\ x \in Seq(Nat) /\ Len(x) = l + n
      /\ \A i \in 1 .. p : x[i] = t[i]
      /\ \A i \in 1 .. n : x[p + i] = s[i]
      /\ \A i \in p + 1 .. l : x[n + i] = t[i]
  BY <1>1, PutIs
<1>3. /\ \A i \in 1 .. l : t[i] \in Letters
      /\ \A i \in 1 .. n : s[i] \in Letters
  <2>1. \A i \in 1 .. n : i \in DOMAIN s
    BY <1>1, LenProperties
  <2> QED
    BY <2>1, LettersOf DEF Letters
<1> HIDE DEF x, l, n
<1>4. ASSUME NEW i \in 1 .. l + n PROVE x[i] \in Letters
  <2>1. CASE i <= p
    <3>1. i \in 1 .. p /\ i \in 1 .. l
      BY <1>1, <2>1
    <3> QED
      BY <3>1, <1>2, <1>3
  <2>2. CASE i > p /\ i <= p + n
    <3>1. i - p \in 1 .. n /\ p + (i - p) = i
      BY <1>1, <2>2
    <3> QED
      BY <3>1, <1>2, <1>3
  <2>3. CASE i > p + n
    <3>1. i - n \in p + 1 .. l /\ n + (i - n) = i /\ i - n \in 1 .. l
      BY <1>1, <2>3
    <3> QED
      BY <3>1, <1>2, <1>3
  <2> QED
    BY <1>1, <2>1, <2>2, <2>3
<1>5. Len(x) <= MaxText
  BY <1>2 DEF l, n
<1> QED
  BY <1>2, <1>4, <1>5, TextByLetters DEF x

LEMMA CutText ==
  ASSUME NEW t \in Texts, t \in Seq(Nat), NEW p \in Nat, NEW n \in Nat, p + n <= Len(t)
  PROVE  Cut(t, p, n) \in Texts
<1> DEFINE x == Cut(t, p, n)
           l == Len(t)
<1>1. l \in Nat /\ l <= MaxText
  BY TextsAre
<1>2. /\ x \in Seq(Nat) /\ Len(x) = l - n
      /\ \A i \in 1 .. p : x[i] = t[i]
      /\ \A i \in p + 1 .. l - n : x[i] = t[i + n]
  BY CutIs
<1>3. \A i \in 1 .. l : t[i] \in Letters
  BY LettersOf
<1>4. p + n <= l
  OBVIOUS
<1> HIDE DEF x, l
<1>5. ASSUME NEW i \in 1 .. l - n PROVE x[i] \in Letters
  <2>1. CASE i <= p
    <3>1. i \in 1 .. p /\ i \in 1 .. l
      BY <1>1, <1>4, <2>1
    <3> QED
      BY <3>1, <1>2, <1>3
  <2>2. CASE i > p
    <3>1. i \in p + 1 .. l - n /\ i + n \in 1 .. l
      BY <1>1, <1>4, <2>2
    <3> QED
      BY <3>1, <1>2, <1>3
  <2> QED
    BY <2>1, <2>2
<1>6. Len(x) <= MaxText
  BY <1>1, <1>2, BoundAssumption
<1> QED
  BY <1>2, <1>5, <1>6, TextByLetters DEF x

LEMMA EmptyText == <<>> \in Texts
<1>1. <<>> \in Seq(Letters) /\ Len(<<>>) <= MaxText
  BY BoundAssumption, EmptySeq
<1> QED
  BY <1>1, TextsAre

-----------------------------------------------------------------------------
(* Where a command is, seen from the state in which it began.  T0 and T are*)
(* the texts that the records led through then and lead through now.       *)
N0 == Len(snap.recs)
Resting(p) == p \in {Null, Anchor}

(* The first n records are those the command found.                        *)
Kept(T0, T, n) ==
  /\ n <= Len(recs)
  /\ \A i \in 1 .. n : recs[i].unit = snap.recs[i].unit
  /\ \A i \in 0 .. n : T[i] = T0[i]

(* Nothing has happened to the text.                                       *)
Untouched(T0, T) ==
  /\ pc \in {"idle", "run", "failed"}
  /\ Len(recs) = N0 /\ Kept(T0, T, N0) /\ first = Null
  /\ ptr = snap.ptr \/ (Resting(ptr) /\ Resting(snap.ptr))
  /\ kind \in {"none", "minor"} => recs = snap.recs
  /\ pc = "idle" => ptr = snap.ptr /\ kind = "none"
  /\ kind \notin {"none", "minor"} => \A i \in 1 .. N0 : ~recs[i].min

(* The user has changed the text, and the changes are a new unit.          *)
Changed(T0, T) ==
  /\ pc = "run" /\ kind \in {"minor", "edit"} /\ (kind = "minor" => steps > 0)
  /\ Resting(ptr) /\ first = N0 + 1 /\ Len(recs) > N0 /\ Kept(T0, T, N0)

(* The user has typed on, and the newest record has grown.                 *)
Typed(T0, T) ==
  /\ pc = "run" /\ kind = "minor" /\ steps > 0
  /\ Resting(ptr) /\ Resting(snap.ptr) /\ first = Null
  /\ Len(recs) = N0 /\ N0 > 0 /\ Kept(T0, T, N0 - 1)
  /\ recs[N0].unit = snap.recs[N0].unit /\ recs[N0].min /\ snap.recs[N0].min

(* u starts the unit before a.                                             *)
Precedes(r, u, a) ==
  /\ u \in 1 .. a - 1 /\ StartsUnit(r, u)
  /\ \A i \in u + 1 .. a - 1 : ~StartsUnit(r, i)

(* The unit that starts at u is undone: from the place where undo stood    *)
(* down to the record after the one to be undone next.                     *)
LastStart(u) == Precedes(snap.recs, u, At(snap))

Place == IF Resting(ptr) THEN N0 + 1 ELSE ptr

Reverting(T0, T) ==
  /\ kind = "undo" /\ steps > 0 /\ Kept(T0, T, N0)
  /\ first = (IF Len(recs) = N0 THEN Null ELSE N0 + 1)
  /\ Resting(ptr) => Resting(snap.ptr)
  /\ \A i \in 1 .. N0 : ~recs[i].min
  /\ \/ pc = "undoing" /\ LastStart(upto) /\ Place \in upto + 1 .. At(snap)
     \/ pc = "run" /\ LastStart(ptr) /\ Len(recs) > N0
  /\ text = T0[Place - 1]

HistoryBy(T0, T) ==
  /\ Sound(snap, T0)
  /\ Chain(T, recs, text) /\ \A i \in 0 .. Len(recs) : T[i] \in Texts
  /\ Untouched(T0, T) \/ Changed(T0, T) \/ Typed(T0, T) \/ Reverting(T0, T)

HistoryInv == \E T0, T : HistoryBy(T0, T)

(* A record that has grown was open to that and still is; no other is      *)
(* opened or closed.                                                       *)
Unclosed ==
  /\ Grown => /\ recs # <<>> /\ Newest.min /\ recs'[Len(recs)].min
              /\ \A i \in 1 .. Len(recs) - 1 : recs'[i].min = recs[i].min
  /\ Enqueued => \A i \in 1 .. Len(recs) : recs'[i].min = recs[i].min

LEMMA RecordedOpen ==
  ASSUME TypeOK, (\E p, n : undoins(p, n)) \/ (\E p, s : undodel(p, s))
  PROVE  (Grown \/ Enqueued) /\ Unclosed
<1>1. Grown \/ Enqueued
  BY RecordedLinks
<1>2. recs \in Seq(Record) /\ Len(recs) \in Nat /\ recs \in [1 .. Len(recs) -> Record]
  BY LenProperties DEF TypeOK
<1>3. Mergeable(TRUE) \/ Mergeable(FALSE) => recs # <<>> /\ Newest.min /\ Newest \in Record
  <2>1. recs # <<>> => Len(recs) \in 1 .. Len(recs)
    BY <1>2, EmptySeq
  <2> QED
    BY <2>1, <1>2 DEF Mergeable, Newest
<1>4. \/ \E g : GrowNewest(g) /\ g.min /\ recs # <<>> /\ Newest.min
      \/ \E g : enqueb(g)
  <2>1. ASSUME NEW p, NEW n, undoins(p, n)
        PROVE  \/ \E g : GrowNewest(g) /\ g.min /\ recs # <<>> /\ Newest.min
               \/ \E g : enqueb(g)
    <3> DEFINE g == [Newest EXCEPT !.len = @ + n]
    <3>1. Newest \in Record => g.min = Newest.min
      BY DEF Record
    <3> HIDE DEF g
    <3>2. (Mergeable(FALSE) /\ GrowNewest(g)) \/ \E h : enqueb(h)
      BY <2>1 DEF undoins, g
    <3> QED
      BY <3>1, <3>2, <1>3
  <2>2. ASSUME NEW p, NEW s, undodel(p, s)
        PROVE  \/ \E g : GrowNewest(g) /\ g.min /\ recs # <<>> /\ Newest.min
               \/ \E g : enqueb(g)
    <3> DEFINE g == [Newest EXCEPT !.text = @ \o s, !.len = @ + Len(s)]
               k == [Newest EXCEPT !.text = s \o @, !.len = @ + Len(s), !.where = p]
    <3>1. Newest \in Record => g.min = Newest.min /\ k.min = Newest.min
      BY DEF Record
    <3> HIDE DEF g, k
    <3>2. (Mergeable(TRUE) /\ GrowNewest(g)) \/ (Mergeable(TRUE) /\ GrowNewest(k)) \/ \E h : enqueb(h)
      BY <2>2 DEF undodel, g, k
    <3> QED
      BY <3>1, <3>2, <1>3
  <2> QED
    BY <2>1, <2>2
<1>5. CASE \E g : GrowNewest(g) /\ g.min /\ recs # <<>> /\ Newest.min
  <2>1. PICK g : GrowNewest(g) /\ g.min /\ recs # <<>> /\ Newest.min
    BY <1>5
  <2>2. recs' = [recs EXCEPT ![Len(recs)] = g] /\ Len(recs) \in 1 .. Len(recs)
    BY <2>1, <1>2, EmptySeq DEF GrowNewest
  <2> DEFINE n == Len(recs)
  <2>3. DOMAIN recs = 1 .. n /\ n \in Nat
    BY <1>2
  <2>4. recs' = [recs EXCEPT ![n] = g] /\ n \in 1 .. n
    BY <2>2
  <2>5. Len(recs') = n
    BY <1>2, <2>2
  <2> HIDE DEF n
  <2>6. recs'[n] = g /\ \A i \in 1 .. n - 1 : recs'[i] = recs[i]
    BY <2>3, <2>4
  <2>7. n # n + 1
    BY <2>3
  <2>8. ~Enqueued
    BY <2>5, <2>7 DEF Enqueued, n
  <2>9. Newest.min /\ recs # <<>> /\ recs'[Len(recs)].min
    BY <2>1, <2>6 DEF n
  <2>10. \A i \in 1 .. Len(recs) - 1 : recs'[i].min = recs[i].min
    BY <2>6 DEF n
  <2> QED
    BY <1>1, <2>8, <2>9, <2>10 DEF Unclosed
<1>6. CASE \E g : enqueb(g)
  <2>1. PICK g : enqueb(g)
    BY <1>6
  <2>2. recs' = Append(recs, g)
    BY <2>1 DEF enqueb
  <2> DEFINE n == Len(recs)
  <2>3. Len(recs') = n + 1 /\ n \in Nat /\ \A i \in 1 .. n : recs'[i] = recs[i]
    BY <1>2, <2>2
  <2> HIDE DEF n
  <2>4. n # n + 1
    BY <2>3
  <2>5. ~Grown
    BY <2>3, <2>4 DEF Grown, n
  <2>6. \A i \in 1 .. Len(recs) : recs'[i].min = recs[i].min
    BY <2>3 DEF n
  <2> QED
    BY <1>1, <2>5, <2>6 DEF Unclosed
<1> QED
  BY <1>4, <1>5, <1>6

(* What a recorded change leaves of the texts.                             *)
Advanced(T, U) ==
  /\ Chain(U, recs', text') /\ \A i \in 0 .. Len(recs') : U[i] \in Texts
  /\ \A i \in 0 .. Len(recs) - 1 : U[i] = T[i]
  /\ Enqueued => U[Len(recs)] = text

LEMMA RecordedTexts ==
  ASSUME TypeOK, NEW T, NEW U, Chain(T, recs, text), RecordsOf(T, U), Grown \/ Enqueued,
         \A i \in 0 .. Len(recs) : T[i] \in Texts, text' \in Texts
  PROVE  Advanced(T, U)
<1> DEFINE n == Len(recs)
           m == Len(recs')
<1>1. n \in Nat /\ T[n] = text
  BY TypeOfList DEF Chain
<1>2. Chain(U, recs', text') /\ (\A i \in 0 .. n - 1 : U[i] = T[i]) /\ (m > n => U[n] = text)
  BY DEF RecordsOf
<1>3. U[m] = text'
  BY <1>2 DEF Chain
<1>4. m = n \/ m = n + 1
  BY DEF Grown, Enqueued
<1>5. Enqueued => m = n + 1
  BY DEF Enqueued
<1> HIDE DEF n, m
<1>6. ASSUME NEW i \in 0 .. m PROVE U[i] \in Texts
  <2>1. CASE i = m
    BY <1>3, <2>1
  <2>2. CASE i # m /\ i < n
    <3>1. i \in 0 .. n - 1 /\ i \in 0 .. n
      BY <1>1, <1>4, <2>2
    <3> QED
      BY <3>1, <1>2 DEF n
  <2>3. CASE i # m /\ ~(i < n)
    <3>1. i = n /\ m > n /\ n \in 0 .. n
      BY <1>1, <1>4, <2>3
    <3> QED
      BY <3>1, <1>1, <1>2 DEF n
  <2> QED
    BY <2>1, <2>2, <2>3
<1>7. Enqueued => U[n] = text
  BY <1>1, <1>2, <1>5
<1> QED
  BY <1>2, <1>6, <1>7 DEF Advanced, n, m

-----------------------------------------------------------------------------
(* In a list of units, the unit before a place where one starts, or before *)
(* the end, starts at the record its last one points at.                   *)
LEMMA UnitBefore ==
  ASSUME NEW r, NEW m \in Nat, Units(r, m), \A i \in 1 .. m : r[i].unit \in Int,
         NEW a \in 2 .. m + 1, a <= m => StartsUnit(r, a)
  PROVE  Precedes(r, r[a - 1].unit, a)
<1> DEFINE e == a - 1
           u == r[e].unit
<1>1. e \in 1 .. m /\ e = a - 1
  OBVIOUS
<1>2. EndsUnit(r, e)
  <2>1. CASE a <= m
    <3>1. e \in 1 .. m - 1 /\ e + 1 = a
      BY <1>1, <2>1
    <3> QED
      BY <2>1, <3>1 DEF Units
  <2>2. CASE ~(a <= m)
    <3>1. e = m /\ m > 0
      BY <1>1, <2>2
    <3> QED
      BY <3>1 DEF Units
  <2> QED
    BY <2>1, <2>2
<1>3. u \in 1 .. e
  BY <1>2 DEF EndsUnit
<1>4. r[u].unit = e
  <2>1. u # Null
    BY <1>1, <1>3 DEF Null
  <2> QED
    BY <1>1, <2>1 DEF Units
<1> HIDE DEF e, u
<1>5. StartsUnit(r, u)
  BY <1>1, <1>3, <1>4 DEF StartsUnit
<1>6. ASSUME NEW i \in u + 1 .. e PROVE ~StartsUnit(r, i)
  <2>1. CASE i = e
    <3>1. r[i].unit = u /\ u < i /\ u \in Int /\ i \in Int
      BY <1>1, <1>3, <2>1 DEF u
    <3> QED
      BY <3>1 DEF StartsUnit
  <2>2. CASE i # e
    <3>1. u \in 1 .. m /\ i \in 1 .. m /\ u < i /\ i < r[u].unit
      BY <1>1, <1>3, <1>4, <2>2
    <3>2. r[i].unit = Null
      BY <3>1 DEF Units
    <3> QED
      BY <3>1, <3>2 DEF StartsUnit, Null
  <2> QED
    BY <2>1, <2>2
<1> QED
  BY <1>1, <1>3, <1>5, <1>6 DEF Precedes, e, u

(* While nothing happens to the text.                                      *)
LEMMA NothingChanged ==
  ASSUME TypeOK, NEW T0, NEW T, HistoryBy(T0, T), Untouched(T0, T),
         snap' = snap, text' = text, first' = first,
         Len(recs') = Len(recs),
         \A i \in 1 .. Len(recs) :
            /\ recs'[i].where = recs[i].where /\ recs'[i].len = recs[i].len
            /\ recs'[i].text = recs[i].text /\ recs'[i].del = recs[i].del
            /\ recs'[i].unit = recs[i].unit,
         pc' \in {"run", "failed"}, ptr' = ptr \/ (Resting(ptr) /\ Resting(ptr')),
         kind' \in {"none", "minor"} => recs' = recs /\ kind \in {"none", "minor"},
         kind' \notin {"none", "minor"} => \A i \in 1 .. Len(recs) : ~recs'[i].min
  PROVE  HistoryInv'
<1>1. Chain(T, recs', text')
  BY SameChain DEF HistoryBy
<1>2. Sound(snap', T0) /\ \A i \in 0 .. Len(recs') : T[i] \in Texts
  BY DEF HistoryBy
<1>3. Len(recs) = N0 /\ N0' = N0
  BY DEF Untouched, N0
<1>4. Kept(T0, T, N0)'
  BY <1>3 DEF Kept, Untouched, N0
<1>5. Untouched(T0, T)'
  <2>1. Len(recs') = N0' /\ first' = Null
    BY <1>3 DEF Untouched
  <2>2. ptr' = snap'.ptr \/ (Resting(ptr') /\ Resting(snap'.ptr))
    BY DEF Untouched
  <2>3. kind' \in {"none", "minor"} => recs' = snap'.recs
    BY DEF Untouched
  <2> QED
    BY <1>3, <1>4, <2>1, <2>2, <2>3 DEF Untouched
<1>6. HistoryBy(T0, T)'
  BY <1>1, <1>2, <1>5 DEF HistoryBy
<1> QED
  BY <1>6 DEF HistoryInv

LEMMA BeginHistory ==
  ASSUME TypeOK, HistoryInv, snap' = snap, NEW k \in Kinds, Begin(k)
  PROVE  HistoryInv'
<1>1. PICK T0, T : HistoryBy(T0, T)
  BY DEF HistoryInv
<1>2. pc = "idle" /\ UNCHANGED <<text, ptr, first>> /\ pc' = "run" /\ kind' = k
  BY DEF Begin
<1>3. Untouched(T0, T)
  BY <1>1, <1>2 DEF HistoryBy, Changed, Typed, Reverting
<1>4. kind = "none"
  BY <1>2, <1>3 DEF Untouched
<1>5. recs' = IF k = "minor" THEN recs ELSE Cleared(recs)
  BY DEF Begin
<1>6. List(recs) /\ Len(recs) \in Nat
  BY TypeOfList
<1>7. Len(Cleared(recs)) = Len(recs)
  BY <1>6, ClearedList
<1>8. ASSUME NEW i \in 1 .. Len(recs)
      PROVE  /\ Cleared(recs)[i].where = recs[i].where /\ Cleared(recs)[i].len = recs[i].len
             /\ Cleared(recs)[i].text = recs[i].text /\ Cleared(recs)[i].del = recs[i].del
             /\ Cleared(recs)[i].unit = recs[i].unit /\ ~Cleared(recs)[i].min
  <2>1. recs[i] \in Record
    BY <1>6 DEF List
  <2>2. Cleared(recs)[i] = [recs[i] EXCEPT !.min = FALSE]
    BY DEF Cleared
  <2> QED
    BY <2>1, <2>2 DEF Record
<1>9. k # "none"
  BY KindsAssumption DEF AllKinds
<1>10. CASE k = "minor"
  BY <1>1, <1>2, <1>3, <1>4, <1>5, <1>10, NothingChanged
<1>11. CASE k # "minor"
  BY <1>1, <1>2, <1>3, <1>5, <1>7, <1>8, <1>9, <1>11, NothingChanged
<1> QED
  BY <1>10, <1>11

LEMMA SaveHistory ==
  ASSUME TypeOK, HistoryInv, snap' = snap, NEW own \in BOOLEAN, Save(own)
  PROVE  HistoryInv'
<1>1. PICK T0, T : HistoryBy(T0, T)
  BY DEF HistoryInv
<1>2. /\ pc = "run" /\ kind = "save" /\ UNCHANGED <<text, ptr, first>>
      /\ pc' = "run" /\ kind' = "save"
  BY DEF Save, Step, May
<1>3. Untouched(T0, T)
  BY <1>1, <1>2 DEF HistoryBy, Changed, Typed, Reverting
<1>4. \A i \in 1 .. Len(recs) : ~recs[i].min
  BY <1>2, <1>3 DEF Untouched
<1>5. recs' = [i \in 1 .. Len(recs) |->
                IF NewestUnmodified(i) THEN [recs[i] EXCEPT !.changed = TRUE] ELSE recs[i]]
  BY DEF Save
<1>6. List(recs) /\ Len(recs) \in Nat
  BY TypeOfList
<1>7. Len(recs') = Len(recs)
  BY <1>5, <1>6
<1>8. ASSUME NEW i \in 1 .. Len(recs)
      PROVE  /\ recs'[i].where = recs[i].where /\ recs'[i].len = recs[i].len
             /\ recs'[i].text = recs[i].text /\ recs'[i].del = recs[i].del
             /\ recs'[i].unit = recs[i].unit /\ recs'[i].min = recs[i].min
  <2>1. recs[i] \in Record
    BY <1>6 DEF List
  <2>2. recs'[i] = IF NewestUnmodified(i) THEN [recs[i] EXCEPT !.changed = TRUE] ELSE recs[i]
    BY <1>5
  <2> QED
    BY <2>1, <2>2 DEF Record
<1>9. \A i \in 1 .. Len(recs) : ~recs'[i].min
  BY <1>4, <1>8
<1> QED
  BY <1>1, <1>2, <1>3, <1>7, <1>8, <1>9, NothingChanged

LEMMA UnotmodHistory ==
  ASSUME TypeOK, HistoryInv, snap' = snap, unotmod
  PROVE  HistoryInv'
<1>1. PICK T0, T : HistoryBy(T0, T)
  BY DEF HistoryInv
<1>2. /\ pc = "run" /\ kind = "notmod" /\ UNCHANGED <<text, ptr, first, recs>>
      /\ pc' = "run" /\ kind' = "notmod"
  BY DEF unotmod, Step, May, undoVars
<1>3. Untouched(T0, T)
  BY <1>1, <1>2 DEF HistoryBy, Changed, Typed, Reverting
<1>4. \A i \in 1 .. Len(recs) : ~recs[i].min
  BY <1>2, <1>3 DEF Untouched
<1> QED
  BY <1>1, <1>2, <1>3, <1>4, NothingChanged

(* A command of the kinds minor and undo takes one step: it makes one      *)
(* change, or undoes one unit.                                             *)
OneStep == \A k \in Kinds \cap {"minor", "undo"} : Limit[k] <= 1

LEMMA FirstStep ==
  ASSUME OneStep, TypeOK, NEW ks, May(ks), kind \in {"minor", "undo"}
  PROVE  steps = 0
<1>1. kind \in Kinds /\ steps \in Nat
  BY DEF TypeOK
<1>2. Limit[kind] \in Nat /\ Limit[kind] <= 1 /\ steps < Limit[kind]
  BY <1>1, KindsAssumption DEF OneStep, May
<1> QED
  BY <1>1, <1>2

(* Where ptr is when a command has changed nothing.                        *)
LEMMA PtrPlace ==
  ASSUME TypeOK, UndoInv, NEW T0, NEW T, HistoryBy(T0, T), Untouched(T0, T)
  PROVE  /\ Place = At(snap) /\ N0 \in Nat /\ Len(recs) = N0 /\ text = snap.text
         /\ (Resting(ptr) /\ Place = N0 + 1) \/ (ptr \in 1 .. N0 /\ Place = ptr)
<1>1. Listed(snap, T0)
  BY DEF HistoryBy, Sound
<1>2. N0 \in Nat /\ Len(recs) = N0 /\ first = Null
  BY <1>1, ListedTypes DEF N0, Untouched
<1>3. T[N0] = text /\ T[N0] = T0[N0] /\ T0[N0] = snap.text
  <2>1. N0 \in 0 .. N0
    BY <1>2
  <2> QED
    BY <1>1, <1>2, <2>1 DEF HistoryBy, Untouched, Kept, Listed, Chain, N0
<1>4. snap.ptr \in {Null, Anchor} \cup 1 .. N0
  BY <1>1 DEF Listed, N0
<1>5. CASE Resting(ptr)
  <2>1. snap.ptr \in {Null, Anchor}
    BY <1>5 DEF Untouched, Resting
  <2>2. ~Live(snap)
    BY <2>1 DEF Live, Null, Anchor
  <2> QED
    BY <1>2, <1>3, <1>5, <2>2 DEF Place, At, N0
<1>6. CASE ~Resting(ptr)
  <2>1. ptr = snap.ptr
    BY <1>6 DEF Untouched
  <2>2. ptr \in 1 .. N0
    BY <1>4, <1>6, <2>1 DEF Resting
  <2>3. Live(snap)
    BY <2>1, <2>2 DEF Live, N0
  <2> QED
    BY <1>2, <1>3, <1>6, <2>1, <2>2, <2>3 DEF Place, At
<1> QED
  BY <1>5, <1>6

LEMMA UndoBegins ==
  ASSUME NoRedo, OneStep, TypeOK, UndoInv, UndoInv', HistoryInv, snap' = snap, Undo
  PROVE  HistoryInv'
<1>1. PICK T0, T : HistoryBy(T0, T)
  BY DEF HistoryInv
<1>2. /\ pc = "run" /\ kind = "undo" /\ kind' = "undo" /\ steps' = steps + 1
      /\ UNCHANGED <<text, recs, first>>
  <2>1. kind # "macro"
    BY DEF NoRedo, TypeOK, May, Undo
  <2> QED
    BY <2>1 DEF Undo, Step, May
<1>3. steps = 0
  <2>1. May({"undo", "macro"})
    BY DEF Undo
  <2> QED
    BY <1>2, <2>1, FirstStep
<1>4. Untouched(T0, T)
  BY <1>1, <1>2, <1>3 DEF HistoryBy, Changed, Typed, Reverting
<1>5. \A i \in 1 .. Len(recs) : ~recs[i].min
  BY <1>2, <1>4 DEF Untouched
<1>6. CASE pc' = "failed"
  <2>1. ptr' = ptr \/ (Resting(ptr) /\ Resting(ptr'))
    BY DEF Undo, Resting
  <2> QED
    BY <1>1, <1>2, <1>4, <1>5, <1>6, <2>1, NothingChanged
<1>7. CASE pc' # "failed"
  <2> DEFINE p == IF ptr = Null THEN Anchor ELSE ptr
             a == At(snap)
  <2>1. /\ Prev(p) \notin {Anchor, Freed} /\ pc' = "undoing" /\ ptr' = p
        /\ upto' = recs[Prev(p)].unit
    BY <1>7 DEF Undo, Step, UndoInv
  <2>2. /\ Place = a /\ N0 \in Nat /\ Len(recs) = N0 /\ text = snap.text
        /\ (Resting(ptr) /\ a = N0 + 1) \/ (ptr \in 1 .. N0 /\ a = ptr)
    BY <1>1, <1>4, PtrPlace
  <2>3. Place' = a /\ N0' = N0
    <3>1. Resting(ptr) => Resting(p)
      BY DEF Resting
    <3>2. ~Resting(ptr) => p = ptr
      BY DEF Resting
    <3> QED
      BY <2>1, <2>2, <3>1, <3>2 DEF Place, N0
  <2>4. a \in 2 .. N0 + 1 /\ Prev(p) = a - 1
    <3>1. CASE Resting(ptr)
      <4>1. p = Anchor /\ a = N0 + 1
        BY <2>2, <3>1 DEF Resting, Null, Anchor
      <4>2. recs # <<>> /\ Prev(p) = N0
        BY <2>1, <2>2, <4>1 DEF Prev
      <4>3. N0 # 0
        BY <2>2, <4>2, EmptySeq DEF TypeOK
      <4> QED
        BY <2>2, <4>1, <4>2, <4>3
    <3>2. CASE ~Resting(ptr)
      <4>1. p = ptr /\ ptr \in 1 .. N0 /\ a = ptr
        BY <2>2, <3>2 DEF Resting
      <4>2. ptr # 1 /\ Prev(p) = ptr - 1
        BY <2>1, <2>2, <4>1 DEF Prev, Anchor, Freed
      <4> QED
        BY <2>2, <4>1, <4>2
    <3> QED
      BY <3>1, <3>2
  <2>5. Listed(snap, T0) /\ Sound(snap, T0)
    BY <1>1 DEF HistoryBy, Sound
  <2>6. upto' = snap.recs[a - 1].unit
    <3>1. a - 1 \in 1 .. N0
      BY <2>2, <2>4
    <3> QED
      BY <1>4, <2>1, <2>4, <3>1 DEF Untouched, Kept
  <2>7. Precedes(snap.recs, snap.recs[a - 1].unit, a)
    <3>1. Units(snap.recs, N0) /\ \A i \in 1 .. N0 : snap.recs[i].unit \in Int
      BY <2>5 DEF Listed, List, InRange, N0, Null, Freed
    <3>2. a <= N0 => StartsUnit(snap.recs, a)
      BY <2>2, <2>5 DEF Listed, At, N0
    <3> QED
      BY <2>2, <2>4, <3>1, <3>2, UnitBefore
  <2>8. text = T0[a - 1]
    <3>1. a > 1
      BY <2>2, <2>4
    <3> QED
      BY <2>2, <2>5, <3>1, TextBehind
  <2> HIDE DEF a, p
  <2>9. upto' \in 1 .. a - 1 /\ a \in upto' + 1 .. a
    <3>1. upto' \in 1 .. a - 1
      BY <2>6, <2>7 DEF Precedes
    <3>2. a \in Nat /\ N0 \in Nat
      BY <2>2, <2>4
    <3>3. ASSUME NEW u, u \in 1 .. a - 1 PROVE a \in u + 1 .. a
      BY <3>2, <3>3
    <3> QED
      BY <3>1, <3>3
  <2>10. LastStart(upto)'
    BY <2>6, <2>7 DEF LastStart, a
  <2>11. Resting(ptr') => Resting(snap.ptr)
    <3>1. Resting(ptr') => Resting(ptr)
      BY <2>1 DEF Resting, p
    <3> QED
      BY <1>4, <3>1 DEF Untouched
  <2>12. Kept(T0, T, N0)' /\ first' = Null /\ Len(recs') = N0'
    BY <1>2, <1>4, <2>2, <2>3 DEF Kept, Untouched
  <2>13. \A i \in 1 .. N0' : ~recs'[i].min
    BY <1>2, <1>5, <2>2, <2>3
  <2>14. steps' > 0
    BY <1>2, <1>3
  <2>15. text' = T0[Place' - 1] /\ Place' \in upto' + 1 .. At(snap')
    BY <1>2, <2>3, <2>8, <2>9 DEF a
  <2>16. Reverting(T0, T)'
    BY <1>2, <2>1, <2>10, <2>11, <2>12, <2>13, <2>14, <2>15 DEF Reverting
  <2>17. Sound(snap', T0) /\ Chain(T, recs', text') /\ \A i \in 0 .. Len(recs') : T[i] \in Texts
    BY <1>1, <1>2, <2>5 DEF HistoryBy
  <2>18. HistoryBy(T0, T)'
    BY <2>16, <2>17 DEF HistoryBy
  <2> QED
    BY <2>18 DEF HistoryInv
<1> QED
  BY <1>6, <1>7

(* The changes of an edit, and typing on.                                  *)
LEMMA ChangeHistory ==
  ASSUME NoRedo, OneStep, TypeOK, HistoryInv, snap' = snap, NEW T0, NEW T, HistoryBy(T0, T),
         NEW U, Advanced(T, U), Grown \/ Enqueued, Unclosed, undoover,
         May({"minor", "edit", "macro"}), Step("run")
  PROVE  HistoryInv'
<1>1. /\ pc = "run" /\ kind \in {"minor", "edit"} /\ kind' = kind /\ pc' = "run"
      /\ steps' = steps + 1 /\ steps \in Nat
  BY DEF NoRedo, TypeOK, May, Step
<1>2. kind = "minor" => steps = 0
  BY FirstStep
<1>3. Untouched(T0, T) \/ (Changed(T0, T) /\ kind = "edit")
  BY <1>1, <1>2 DEF HistoryBy, Changed, Typed, Reverting
<1>4. Listed(snap, T0) /\ Sound(snap, T0)
  BY DEF HistoryBy, Sound
<1>5. Resting(ptr') /\ steps' > 0
  BY <1>1 DEF undoover, Resting
<1> DEFINE n == N0
           l == Len(recs)
<1>6. n \in Nat /\ l \in Nat /\ n <= l /\ N0' = n
  BY <1>3, <1>4, ListedTypes, TypeOfList DEF Untouched, Changed, Kept, N0
<1>7. /\ \A i \in 1 .. n : recs[i].unit = snap.recs[i].unit
      /\ \A i \in 0 .. n : T[i] = T0[i]
  BY <1>3 DEF Untouched, Changed, Kept
<1>8. \A i \in 1 .. l : recs'[i].unit = recs[i].unit
  BY DEF Grown, Enqueued
<1>9. \A i \in 1 .. n : recs'[i].unit = snap.recs[i].unit
  BY <1>6, <1>7, <1>8
<1>10. /\ Chain(U, recs', text') /\ (\A i \in 0 .. Len(recs') : U[i] \in Texts)
       /\ (\A i \in 0 .. l - 1 : U[i] = T[i]) /\ (Enqueued => U[l] = text)
  BY DEF Advanced
<1>11. T[l] = text
  BY DEF HistoryBy, Chain
<1>12. SUFFICES Changed(T0, U)' \/ Typed(T0, U)'
  <2>1. Sound(snap', T0)
    BY <1>4
  <2>2. ASSUME Changed(T0, U)' \/ Typed(T0, U)' PROVE HistoryBy(T0, U)'
    BY <1>10, <2>1, <2>2 DEF HistoryBy
  <2> QED
    BY <2>2 DEF HistoryInv
<1> HIDE DEF n, l
<1>13. CASE Enqueued
  <2>1. Len(recs') = l + 1 /\ first' = (IF first = Null THEN l + 1 ELSE first)
    BY <1>13 DEF Enqueued, l
  <2>2. first' = n + 1
    <3>1. CASE Untouched(T0, T)
      BY <2>1, <3>1 DEF Untouched, n, l
    <3>2. CASE Changed(T0, T)
      <4>1. first = n + 1 /\ n + 1 # Null
        BY <1>6, <3>2 DEF Changed, n, Null
      <4> QED
        BY <2>1, <4>1
    <3> QED
      BY <1>3, <3>1, <3>2
  <2>3. \A i \in 0 .. n : U[i] = T0[i]
    <3>1. ASSUME NEW i \in 0 .. n PROVE U[i] = T[i]
      <4>1. i = l \/ i \in 0 .. l - 1
        BY <1>6
      <4> QED
        BY <1>10, <1>11, <1>13, <4>1
    <3> QED
      BY <1>7, <3>1
  <2>4. n <= Len(recs') /\ Len(recs') > n
    BY <1>6, <2>1
  <2>5. Kept(T0, U, N0)'
    BY <1>6, <1>9, <2>3, <2>4 DEF Kept, n
  <2>6. Changed(T0, U)'
    BY <1>1, <1>5, <1>6, <2>2, <2>4, <2>5 DEF Changed, n
  <2> QED
    BY <2>6
<1>14. CASE Grown
  <2>1. Len(recs') = l /\ first' = first
    BY <1>14 DEF Grown, l
  <2>2. recs # <<>> /\ Newest.min /\ recs'[l].min /\ l # 0
    <3>1. recs # <<>> /\ Newest.min /\ recs'[l].min
      BY <1>14 DEF Unclosed, l
    <3> QED
      BY <3>1, EmptySeq DEF TypeOK, l
  <2>3. l \in 1 .. l /\ l - 1 \in Nat
    BY <1>6, <2>2
  <2>4. CASE Untouched(T0, T)
    <3>1. l = n
      BY <2>4 DEF Untouched, l, n
    <3>2. kind = "minor"
      <4>1. SUFFICES ASSUME kind = "edit" PROVE FALSE
        BY <1>1
      <4>2. ~recs[l].min
        BY <2>3, <2>4, <3>1, <4>1 DEF Untouched, n
      <4> QED
        BY <2>2, <4>2 DEF Newest, l
    <3>3. recs = snap.recs
      BY <2>4, <3>2 DEF Untouched
    <3>4. snap.recs[n].min /\ ~Live(snap)
      BY <1>4, <2>2, <3>1, <3>3 DEF Newest, Listed, l, n, N0
    <3>5. Resting(snap.ptr)
      BY <1>4, <3>4 DEF Listed, Live, Resting
    <3>6. recs'[n].unit = snap.recs[n].unit /\ recs'[n].min
      BY <1>8, <2>2, <2>3, <3>1, <3>3
    <3>7. Kept(T0, U, N0 - 1)'
      <4>1. \A i \in 0 .. n - 1 : U[i] = T0[i]
        <5>1. \A i \in 0 .. n - 1 : U[i] = T[i]
          BY <1>10, <3>1
        <5> QED
          BY <1>6, <1>7, <5>1
      <4>2. n - 1 <= Len(recs')
        BY <1>6, <2>1, <3>1
      <4>3. \A i \in 1 .. n - 1 : recs'[i].unit = snap.recs[i].unit
        BY <1>6, <1>9
      <4> QED
        BY <1>6, <4>1, <4>2, <4>3 DEF Kept, n
    <3>8. first' = Null /\ Len(recs') = n /\ n > 0
      BY <1>6, <2>1, <2>2, <2>4, <3>1 DEF Untouched
    <3>9. Typed(T0, U)'
      BY <1>1, <1>5, <1>6, <3>2, <3>4, <3>5, <3>6, <3>7, <3>8 DEF Typed, n
    <3> QED
      BY <3>9
  <2>5. CASE Changed(T0, T)
    <3>1. l > n /\ first' = n + 1
      BY <2>1, <2>5 DEF Changed, l, n
    <3>2. \A i \in 0 .. n : U[i] = T0[i]
      <4>1. \A i \in 0 .. n : i \in 0 .. l - 1
        BY <1>6, <3>1
      <4> QED
        BY <1>7, <1>10, <4>1
    <3>3. Kept(T0, U, N0)'
      BY <1>6, <1>9, <2>1, <3>2 DEF Kept, n
    <3>4. Changed(T0, U)'
      BY <1>1, <1>5, <1>6, <2>1, <3>1, <3>3 DEF Changed, n
    <3> QED
      BY <3>4
  <2> QED
    BY <1>3, <2>4, <2>5
<1> QED
  BY <1>13, <1>14

LEMMA InsertHistory ==
  ASSUME NoRedo, OneStep, TypeOK, HistoryInv, snap' = snap,
         NEW p \in 0 .. MaxText, NEW s \in Chunk, Insert(p, s)
  PROVE  HistoryInv'
<1>1. PICK T0, T : HistoryBy(T0, T)
  BY DEF HistoryInv
<1>2. /\ text \in Seq(Nat) /\ p \in 0 .. Len(text) /\ s \in Seq(Nat) /\ Len(s) > 0
      /\ Len(text) + Len(s) <= MaxText
  <2>1. s # <<>> /\ s \in Seq(Nat)
    BY ChunkAssumption
  <2>2. Len(s) \in Nat /\ Len(s) # 0
    BY <2>1, EmptySeq, LenProperties
  <2> QED
    BY <2>1, <2>2, BoundAssumption DEF TypeOK, Insert
<1>3. text' = Put(text, p, s)
  BY <1>2, TextIs DEF Insert
<1>4. undoins(p, Len(s)) /\ undoover /\ May({"minor", "edit", "macro"}) /\ Step("run")
  BY DEF Insert
<1>5. Chain(T, recs, text) /\ \A i \in 0 .. Len(recs) : T[i] \in Texts
  BY <1>1 DEF HistoryBy
<1>6. text \in Texts
  <2>1. T[Len(recs)] = text /\ Len(recs) \in 0 .. Len(recs)
    BY <1>5, TypeOfList DEF Chain
  <2> QED
    BY <1>5, <2>1
<1>7. text' \in Texts
  BY <1>2, <1>3, <1>6, PutText
<1>8. PICK U : RecordsOf(T, U)
  BY <1>2, <1>3, <1>4, <1>5, InsertRecords
<1>9. (Grown \/ Enqueued) /\ Unclosed
  BY <1>4, RecordedOpen
<1>10. Advanced(T, U)
  BY <1>5, <1>7, <1>8, <1>9, RecordedTexts
<1> QED
  BY <1>1, <1>4, <1>9, <1>10, ChangeHistory

LEMMA DeleteHistory ==
  ASSUME NoRedo, OneStep, TypeOK, HistoryInv, snap' = snap,
         NEW p \in 0 .. MaxText, NEW n \in 1 .. MaxText, Delete(p, n)
  PROVE  HistoryInv'
<1>1. PICK T0, T : HistoryBy(T0, T)
  BY DEF HistoryInv
<1>2. /\ text \in Seq(Nat) /\ p \in Nat /\ n \in Nat /\ n > 0 /\ p + n <= Len(text)
  BY BoundAssumption DEF TypeOK, Delete
<1>3. text' = Cut(text, p, n) /\ Bytes(p, n) = Mid(text, p, n)
  BY <1>2, TextIs DEF Delete
<1>4. /\ undodel(p, Bytes(p, n)) /\ undoover /\ May({"minor", "edit", "macro"})
      /\ Step("run")
  BY DEF Delete
<1>5. Chain(T, recs, text) /\ \A i \in 0 .. Len(recs) : T[i] \in Texts
  BY <1>1 DEF HistoryBy
<1>6. text \in Texts
  <2>1. T[Len(recs)] = text /\ Len(recs) \in 0 .. Len(recs)
    BY <1>5, TypeOfList DEF Chain
  <2> QED
    BY <1>5, <2>1
<1>7. text' \in Texts
  BY <1>2, <1>3, <1>6, CutText
<1>8. PICK U : RecordsOf(T, U)
  BY <1>2, <1>3, <1>4, <1>5, DeleteRecords
<1>9. (Grown \/ Enqueued) /\ Unclosed
  BY <1>4, RecordedOpen
<1>10. Advanced(T, U)
  BY <1>5, <1>7, <1>8, <1>9, RecordedTexts
<1> QED
  BY <1>1, <1>4, <1>9, <1>10, ChangeHistory

(* One record more is undone.                                              *)
LEMMA UndoRecHistory ==
  ASSUME TypeOK, UndoInv, HistoryInv, snap' = snap, UndoRec
  PROVE  HistoryInv'
<1>1. PICK T0, T : HistoryBy(T0, T)
  BY DEF HistoryInv
<1>2. pc = "undoing"
  BY DEF UndoRec
<1>3. Reverting(T0, T)
  BY <1>1, <1>2 DEF HistoryBy, Untouched, Changed, Typed
<1>4. Listed(snap, T0) /\ Sound(snap, T0)
  BY <1>1 DEF HistoryBy, Sound
<1> DEFINE n == N0
           l == Len(recs)
           p == Prev(ptr)
           a == At(snap)
           e == Place
<1>5. /\ kind = "undo" /\ steps > 0 /\ Kept(T0, T, n)
      /\ first = (IF l = n THEN Null ELSE n + 1)
      /\ Resting(ptr) => Resting(snap.ptr)
      /\ \A i \in 1 .. n : ~recs[i].min
      /\ LastStart(upto) /\ e \in upto + 1 .. a /\ text = T0[e - 1]
  BY <1>2, <1>3 DEF Reverting
<1>6. n \in Nat /\ l \in Nat /\ n <= l /\ N0' = n /\ a \in 1 .. n + 1
  BY <1>4, <1>5, ListedTypes, TypeOfList DEF Kept, N0
<1>7. /\ upto \in 1 .. Closed /\ upto <= p /\ ptr # Null
      /\ ptr \notin {Null, Anchor} => ptr \in 1 .. Closed
      /\ first # Null => ptr \notin {Null, Anchor}
  BY <1>2, <1>5 DEF UndoInv, LoopInv, PtrInv
<1>8. Closed = n
  BY <1>5, <1>6 DEF Closed, Null
<1>9. p \in upto .. n /\ p = e - 1 /\ upto \in Nat /\ upto >= 1 /\ p \in 1 .. n
  <2>1. CASE Resting(ptr)
    <3>1. ptr = Anchor
      BY <1>7, <2>1 DEF Resting
    <3>2. l = n /\ e = n + 1
      BY <1>5, <1>6, <1>7, <2>1, <3>1 DEF Null, Place
    <3>3. p = IF recs = <<>> THEN Anchor ELSE l
      BY <3>1 DEF Prev, Anchor, Freed
    <3>4. p = l
      BY <1>7, <3>3 DEF Anchor
    <3> QED
      BY <1>6, <1>7, <1>8, <3>2, <3>4
  <2>2. CASE ~Resting(ptr)
    <3>1. ptr \in 1 .. n /\ e = ptr
      BY <1>7, <1>8, <2>2 DEF Resting, Place
    <3>2. p = IF ptr = 1 THEN Anchor ELSE ptr - 1
      BY <3>1 DEF Prev, Anchor, Freed
    <3>3. p = ptr - 1
      BY <1>7, <3>2 DEF Anchor
    <3> QED
      BY <1>6, <1>7, <1>8, <3>1, <3>3
  <2> QED
    BY <2>1, <2>2
<1>10. p \notin {Anchor, Freed}
  BY <1>9 DEF Anchor, Freed
<1>11. /\ ptr' = p /\ doundo(recs[p]) /\ InverseOf(recs[p])
       /\ UNCHANGED <<kind, steps>>
       /\ IF MoreThan(p) THEN UNCHANGED <<pc, upto>> ELSE pc' = "run" /\ upto' = Null
  BY <1>10 DEF UndoRec
<1>12. Chain(T, recs, text) /\ (\A i \in 0 .. l : T[i] \in Texts)
  BY <1>1 DEF HistoryBy
<1>13. /\ \A i \in 1 .. n : recs[i].unit = snap.recs[i].unit
       /\ \A i \in 0 .. n : T[i] = T0[i]
  BY <1>5 DEF Kept
<1>14. T[p] = text /\ T[p - 1] = T0[p - 1] /\ T0[p - 1] \in Texts
  <2>1. p \in 0 .. n /\ p - 1 \in 0 .. n
    BY <1>6, <1>9
  <2>2. T0[p - 1] \in Texts
    BY <1>4, <2>1 DEF Listed, N0
  <2> QED
    BY <1>5, <1>9, <1>13, <2>1, <2>2
<1>15. Fits(recs[p], text) /\ T[p - 1] = Revert(text, recs[p]) /\ recs[p] \in Record
  <2>1. p \in 1 .. l
    BY <1>6, <1>9
  <2> QED
    BY <1>12, <1>14, <2>1 DEF Chain, TypeOK
<1>16. text' = Reverted(recs[p])
  BY <1>11 DEF doundo
<1>17. /\ text' = Revert(text, recs[p]) /\ \E U : RecordsOf(T, U)
       /\ (\E k, m : undoins(k, m)) \/ (\E k, s : undodel(k, s))
  BY <1>11, <1>12, <1>15, <1>16, UndoneRecords
<1>18. (Grown \/ Enqueued) /\ Unclosed
  BY <1>17, RecordedOpen
<1>19. text' = T0[p - 1] /\ text' \in Texts
  BY <1>14, <1>15, <1>17
<1>20. PICK U : RecordsOf(T, U)
  BY <1>17
<1>21. Advanced(T, U)
  BY <1>12, <1>18, <1>19, <1>20, RecordedTexts
<1>22. /\ Chain(U, recs', text') /\ (\A i \in 0 .. Len(recs') : U[i] \in Texts)
       /\ (\A i \in 0 .. l - 1 : U[i] = T[i]) /\ (Enqueued => U[l] = text)
  BY <1>21 DEF Advanced
<1>23. T[l] = text
  BY <1>12 DEF Chain
<1>24. \A i \in 1 .. l : recs'[i].unit = recs[i].unit
  BY <1>18 DEF Grown, Enqueued
<1> HIDE DEF n, l, p, a, e
<1>25. /\ Len(recs') > n /\ n <= Len(recs') /\ first' = n + 1
       /\ \A i \in 1 .. n : ~recs'[i].min
       /\ \A i \in 0 .. n : U[i] = T[i]
  <2>1. CASE Enqueued
    <3>1. Len(recs') = l + 1 /\ first' = (IF first = Null THEN l + 1 ELSE first)
      BY <2>1 DEF Enqueued, l
    <3>2. first' = n + 1
      <4>1. n + 1 # Null
        BY <1>6 DEF Null
      <4> QED
        BY <1>5, <3>1, <4>1
    <3>3. \A i \in 1 .. l : recs'[i].min = recs[i].min
      BY <1>18, <2>1 DEF Unclosed, l
    <3>4. \A i \in 1 .. n : i \in 1 .. l
      BY <1>6
    <3>5. \A i \in 1 .. n : ~recs'[i].min
      BY <1>5, <3>3, <3>4
    <3>6. ASSUME NEW i \in 0 .. n PROVE U[i] = T[i]
      <4>1. i = l \/ i \in 0 .. l - 1
        BY <1>6
      <4> QED
        BY <1>22, <1>23, <2>1, <4>1
    <3>7. Len(recs') > n /\ n <= Len(recs')
      BY <1>6, <3>1
    <3> QED
      BY <3>2, <3>5, <3>6, <3>7
  <2>2. CASE Grown
    <3>1. Len(recs') = l /\ first' = first
      BY <2>2 DEF Grown, l
    <3>2. /\ recs # <<>> /\ recs[l].min
          /\ \A i \in 1 .. l - 1 : recs'[i].min = recs[i].min
      BY <1>18, <2>2 DEF Unclosed, Newest, l
    <3>3. l > n
      <4>1. l # 0
        BY <3>2, EmptySeq DEF TypeOK, l
      <4>2. l \notin 1 .. n
        BY <1>5, <3>2
      <4> QED
        BY <1>6, <4>1, <4>2
    <3>4. \A i \in 1 .. n : i \in 1 .. l - 1
      BY <1>6, <3>3
    <3>5. \A i \in 0 .. n : i \in 0 .. l - 1
      BY <1>6, <3>3
    <3>6. first' = n + 1
      BY <1>5, <1>6, <3>1, <3>3
    <3>7. \A i \in 1 .. n : ~recs'[i].min
      BY <1>5, <3>2, <3>4
    <3> QED
      BY <1>6, <1>22, <3>1, <3>3, <3>5, <3>6, <3>7
  <2> QED
    BY <1>18, <2>1, <2>2
<1>26. Kept(T0, U, N0)'
  <2>1. \A i \in 1 .. n : recs'[i].unit = snap.recs[i].unit
    BY <1>6, <1>13, <1>24
  <2>2. \A i \in 0 .. n : U[i] = T0[i]
    BY <1>13, <1>25
  <2> QED
    BY <1>6, <1>25, <2>1, <2>2 DEF Kept
<1>27. ~Resting(ptr') /\ Place' = p
  <2>1. ptr' = p /\ p # Null /\ p # Anchor
    BY <1>9, <1>11 DEF Null, Anchor
  <2> QED
    BY <2>1 DEF Resting, Place
<1>28. first' = IF Len(recs') = N0' THEN Null ELSE N0' + 1
  BY <1>6, <1>25
<1>29. \/ pc' = "undoing" /\ LastStart(upto)' /\ Place' \in upto' + 1 .. At(snap')
       \/ pc' = "run" /\ LastStart(ptr)' /\ Len(recs') > N0'
  <2>1. LastStart(upto) /\ At(snap') = a
    BY <1>5 DEF a
  <2>2. CASE MoreThan(p)
    <3>1. upto # p /\ upto' = upto /\ pc' = "undoing"
      BY <1>2, <1>11, <2>2 DEF MoreThan
    <3>2. p \in upto + 1 .. a
      <4>1. p \in upto .. n /\ upto \in Nat /\ p = e - 1 /\ e \in upto + 1 .. a /\ a \in 1 .. n + 1
            /\ n \in Nat
        BY <1>5, <1>6, <1>9
      <4> QED
        BY <3>1, <4>1
    <3>3. LastStart(upto)'
      BY <2>1, <3>1 DEF LastStart
    <3> QED
      BY <1>27, <2>1, <3>1, <3>2, <3>3
  <2>3. CASE ~MoreThan(p)
    <3>1. pc' = "run" /\ p = upto
      BY <1>9, <1>11, <2>3 DEF MoreThan, Null
    <3>2. LastStart(ptr)'
      BY <1>11, <2>1, <3>1 DEF LastStart
    <3> QED
      BY <1>6, <1>25, <3>1, <3>2
  <2> QED
    BY <2>2, <2>3
<1>30. Reverting(T0, U)'
  <2>1. kind' = "undo" /\ steps' > 0 /\ text' = T0[Place' - 1]
    BY <1>5, <1>11, <1>19, <1>27
  <2>2. \A i \in 1 .. N0' : ~recs'[i].min
    BY <1>6, <1>25
  <2> QED
    BY <1>26, <1>27, <1>28, <1>29, <2>1, <2>2 DEF Reverting
<1>31. HistoryBy(T0, U)'
  <2>1. Sound(snap', T0)
    BY <1>4
  <2> QED
    BY <1>22, <1>30, <2>1 DEF HistoryBy
<1> QED
  BY <1>31 DEF HistoryInv

-----------------------------------------------------------------------------
(* The end of a command, seen from the state in which it began.            *)
OpenOf(s) == s.recs # <<>> /\ s.recs[Len(s.recs)].min

Edits(s, T, q, U) ==
  /\ Forget(Behind(s, T) \o Round(s.text, Half(Beyond(s, T))), Behind(q, U),
            IF Behind(s, T) = <<>> THEN 2 ELSE 1)
  /\ Half(Beyond(q, U)) = <<>>
TypesOn(s, T, q, U) ==
  /\ OpenOf(s) /\ OpenOf(q)
  /\ Beyond(s, T) = <<>> /\ Beyond(q, U) = <<>> /\ Behind(q, U) = Behind(s, T)
Closes(s, T, q, U) ==
  /\ q.text = s.text /\ (OpenOf(q) => OpenOf(s))
  /\ Behind(q, U) = Behind(s, T) /\ Beyond(q, U) = Beyond(s, T)
Undoes(s, T, q, U) ==
  /\ \E b \in Seq(Texts) : Behind(s, T) = Append(b, q.text) /\ Forget(b, Behind(q, U), 1)
  /\ Half(Beyond(q, U)) = <<s.text>> \o Half(Beyond(s, T)) /\ ~OpenOf(q)

Follows(s, T, q, U) ==
  Edits(s, T, q, U) \/ TypesOn(s, T, q, U) \/ Closes(s, T, q, U) \/ Undoes(s, T, q, U)

Lasts(s, q) == \E T, U : Sound(s, T) /\ Sound(q, U) /\ Follows(s, T, q, U)

(* The open unit is closed.                                                *)
LinkedTo(r, i) ==
  /\ Linked(r)[i].where = r[i].where /\ Linked(r)[i].len = r[i].len
  /\ Linked(r)[i].text = r[i].text /\ Linked(r)[i].del = r[i].del
  /\ Linked(r)[i].min = r[i].min
  /\ Linked(r)[i].unit =
       IF i = last THEN first ELSE IF i = first THEN last ELSE r[i].unit

LEMMA LinkedIs ==
  ASSUME NEW r, List(r), NEW i \in 1 .. Len(r)
  PROVE  LinkedTo(r, i)
<1>1. r[i] \in Record
  BY DEF List
<1>2. Linked(r)[i] = CASE i = last  -> [r[i] EXCEPT !.unit = first]
                       [] i # last /\ i = first -> [r[i] EXCEPT !.unit = last]
                       [] OTHER -> r[i]
  BY DEF Linked
<1>3. CASE i = last
  <2>1. Linked(r)[i] = [r[i] EXCEPT !.unit = first]
    BY <1>2, <1>3
  <2> QED
    BY <1>1, <1>3, <2>1 DEF LinkedTo, Record
<1>4. CASE i # last /\ i = first
  <2>1. Linked(r)[i] = [r[i] EXCEPT !.unit = last]
    BY <1>2, <1>4
  <2> QED
    BY <1>1, <1>4, <2>1 DEF LinkedTo, Record
<1>5. CASE i # last /\ i # first
  <2>1. Linked(r)[i] = r[i]
    BY <1>2, <1>5
  <2> QED
    BY <1>5, <2>1 DEF LinkedTo
<1> QED
  BY <1>3, <1>4, <1>5

(* The records when a command has ended, before undomark.                  *)
Ends == IF kind = "minor" THEN recs ELSE Cleared(recs)

LEMMA EndsIs ==
  ASSUME TypeOK, NEW r, r = Ends
  PROVE  /\ List(r) /\ Len(r) = Len(recs) /\ Len(r) \in Nat
         /\ \A i \in 1 .. Len(r) : r[i].unit = recs[i].unit
         /\ \A T : Chain(T, recs, text) => Chain(T, r, text)
         /\ kind # "minor" => \A i \in 1 .. Len(r) : ~r[i].min
<1>1. List(recs) /\ Len(recs) \in Nat
  BY TypeOfList
<1>2. List(r) /\ Len(r) = Len(recs)
  BY <1>1, ClearedList DEF Ends
<1>3. \A i \in 1 .. Len(r) : r[i].unit = recs[i].unit
  BY <1>1, <1>2, ClearedLinks DEF Ends
<1>4. SameRecords(r, recs)
  BY ClosedRecords DEF Ends
<1>5. ASSUME NEW T, Chain(T, recs, text) PROVE Chain(T, r, text)
  BY <1>4, <1>5, SameChain DEF SameRecords
<1>6. ASSUME kind # "minor", NEW i \in 1 .. Len(r) PROVE ~r[i].min
  <2>1. recs[i] \in Record /\ r[i] = [recs[i] EXCEPT !.min = FALSE]
    BY <1>1, <1>2, <1>6 DEF Ends, Cleared, List
  <2> QED
    BY <2>1 DEF Record
<1> QED
  BY <1>1, <1>2, <1>3, <1>5, <1>6

(* A command that leaves no unit open.                                     *)
LEMMA UnmarkedEnds ==
  ASSUME TypeOK, UndoInv, NEW T0, NEW T, HistoryBy(T0, T), first = Null, pc \in {"run", "failed"},
         NEW q, q.recs = Ends, q.text = text, q.ptr = ptr
  PROVE  Sound(q, T) /\ Follows(snap, T0, q, T)
<1> DEFINE n == N0
           r == q.recs
<1>1. Listed(snap, T0) /\ Sound(snap, T0)
  BY DEF HistoryBy, Sound
<1>2. n \in Nat /\ n + 1 # Null
  BY <1>1, ListedTypes DEF N0, Null
<1>3. Untouched(T0, T) \/ Typed(T0, T)
  <2>1. ~Changed(T0, T)
    BY <1>2 DEF Changed
  <2>2. ~Reverting(T0, T)
    <3>1. SUFFICES ASSUME Reverting(T0, T) PROVE FALSE
      OBVIOUS
    <3>2. Len(recs) = n
      BY <1>2, <3>1 DEF Reverting
    <3>3. Len(recs) > n
      BY <3>1 DEF Reverting
    <3> QED
      BY <1>2, <3>2, <3>3
  <2> QED
    BY <2>1, <2>2 DEF HistoryBy
<1>4. /\ List(r) /\ Len(r) = Len(recs)
      /\ \A i \in 1 .. Len(r) : r[i].unit = recs[i].unit
      /\ \A V : Chain(V, recs, text) => Chain(V, r, text)
      /\ kind # "minor" => \A i \in 1 .. Len(r) : ~r[i].min
  BY EndsIs
<1>5. Len(recs) = n /\ Len(r) = n /\ Len(snap.recs) = n
  BY <1>3, <1>4 DEF Untouched, Typed, N0
<1>6. \A i \in 1 .. n : r[i].unit = snap.recs[i].unit
  <2>1. CASE Untouched(T0, T)
    BY <1>4, <1>5, <2>1 DEF Untouched, Kept
  <2>2. CASE Typed(T0, T)
    <3>1. \A i \in 1 .. n : i \in 1 .. n - 1 \/ i = n
      BY <1>2
    <3> QED
      BY <1>4, <1>5, <2>2, <3>1 DEF Typed, Kept
  <2> QED
    BY <1>3, <2>1, <2>2
<1>7. Units(r, n)
  BY <1>1, <1>5, <1>6, <1>2, UnitsSame DEF Listed, List, InRange, Null, Freed
<1>8. Chain(T, r, text) /\ \A i \in 0 .. n : T[i] \in Texts
  BY <1>4, <1>5 DEF HistoryBy
<1>9. \A i \in 1 .. n : StartsUnit(r, i) <=> StartsUnit(snap.recs, i)
  BY <1>6 DEF StartsUnit
<1>10. \A i \in 1 .. n : T[i - 1] = T0[i - 1]
  <2>1. \A i \in 0 .. n - 1 : T[i] = T0[i]
    BY <1>2, <1>3 DEF Untouched, Typed, Kept
  <2>2. \A i \in 1 .. n : i - 1 \in 0 .. n - 1
    BY <1>2
  <2> QED
    BY <2>1, <2>2
<1> HIDE DEF n, r
<1>11. ASSUME NEW a \in 1 .. n + 1, NEW m \in 0 .. n
       PROVE  UnitTexts(r, T, a, m) = UnitTexts(snap.recs, T0, a, m)
  <2>1. \A i \in a .. m : i \in 1 .. n
    BY <1>2
  <2>2. a \in Nat \ {0} /\ m \in Nat
    BY <1>2
  <2> QED
    BY <1>9, <1>10, <2>1, <2>2, UnitTextsSame
<1>12. CASE Typed(T0, T)
  <2>1. kind = "minor" /\ Resting(ptr) /\ Resting(snap.ptr) /\ n > 0 /\ recs[n].min /\ snap.recs[n].min
    BY <1>12 DEF Typed, n
  <2>2. r = recs
    BY <2>1 DEF Ends, r
  <2>3. ~Live(q) /\ ~Live(snap)
    BY <2>1 DEF Live, Resting, Null, Anchor
  <2>4. Listed(q, T)
    BY <1>4, <1>5, <1>7, <1>8, <2>1, <2>3 DEF Listed, Resting, r
  <2>5. Sound(q, T) /\ Beyond(q, T) = <<>> /\ Beyond(snap, T0) = <<>>
    BY <1>1, <2>3, <2>4, RestingSound
  <2>6. Behind(q, T) = Behind(snap, T0)
    <3>1. At(q) = n + 1 /\ At(snap) = n + 1 /\ (n + 1) - 1 = n /\ 1 \in 1 .. n + 1 /\ n \in 0 .. n
      BY <1>2, <1>5, <2>3 DEF At, r
    <3> QED
      BY <1>11, <3>1 DEF Behind, r
  <2>7. OpenOf(q) /\ OpenOf(snap)
    <3>1. r # <<>> /\ snap.recs # <<>>
      BY <1>5, <2>1, EmptySeq
    <3> QED
      BY <1>5, <2>1, <2>2, <3>1 DEF OpenOf, r
  <2> QED
    BY <2>5, <2>6, <2>7 DEF Follows, TypesOn
<1>13. CASE Untouched(T0, T)
  <2>1. Place = At(snap) /\ text = snap.text
    BY <1>13, PtrPlace
  <2>2. Live(q) <=> Live(snap)
    <3>1. ptr = snap.ptr \/ (Resting(ptr) /\ Resting(snap.ptr))
      BY <1>13 DEF Untouched
    <3>2. 0 \notin 1 .. n /\ -1 \notin 1 .. n
      BY <1>2
    <3> QED
      BY <1>5, <3>1, <3>2 DEF Live, Resting, Null, Anchor, r
  <2>3. Live(q) => q.ptr = snap.ptr
    <3>1. ptr = snap.ptr \/ Resting(ptr)
      BY <1>13 DEF Untouched
    <3>2. 0 \notin 1 .. n /\ -1 \notin 1 .. n
      BY <1>2
    <3> QED
      BY <1>5, <3>1, <3>2 DEF Live, Resting, Null, Anchor, r
  <2>4. At(q) = At(snap)
    BY <1>5, <2>2, <2>3 DEF At, r
  <2>5. OpenOf(q) => OpenOf(snap)
    <3>1. SUFFICES ASSUME r # <<>>, r[n].min PROVE OpenOf(snap)
      BY <1>5 DEF OpenOf, r
    <3>2. n \in 1 .. n
      <4>1. n # 0
        BY <1>4, <1>5, <3>1, EmptySeq DEF List
      <4> QED
        BY <1>2, <4>1
    <3>3. kind = "minor"
      BY <1>4, <1>5, <3>1, <3>2
    <3>4. r = snap.recs
      BY <1>13, <3>3 DEF Untouched, Ends, r
    <3> QED
      BY <1>5, <3>1, <3>4 DEF OpenOf
  <2>6. Live(q) => StartsUnit(r, q.ptr) /\ ~r[n].min
    <3>1. SUFFICES ASSUME Live(q) PROVE StartsUnit(r, q.ptr) /\ ~r[n].min
      OBVIOUS
    <3>2. q.ptr = snap.ptr /\ Live(snap) /\ q.ptr \in 1 .. n
      BY <1>5, <2>2, <2>3, <3>1 DEF Live
    <3>3. StartsUnit(snap.recs, snap.ptr) /\ ~snap.recs[n].min
      BY <1>1, <1>5, <3>2 DEF Listed
    <3>4. StartsUnit(r, q.ptr)
      BY <1>9, <3>2, <3>3
    <3>5. ~r[n].min
      <4>1. r # <<>>
        <5>1. n # 0
          BY <1>2, <3>2
        <5> QED
          BY <1>5, <5>1, EmptySeq
      <4>2. ~OpenOf(snap)
        BY <1>5, <3>3 DEF OpenOf
      <4> QED
        BY <1>5, <2>5, <4>1, <4>2 DEF OpenOf, r
    <3> QED
      BY <3>4, <3>5
  <2>7. q.ptr \in {Null, Anchor} \cup 1 .. n
    <3>1. snap.ptr \in {Null, Anchor} \cup 1 .. n
      BY <1>1, <1>5 DEF Listed
    <3> QED
      BY <1>13, <3>1 DEF Untouched, Resting
  <2>8. Listed(q, T)
    BY <1>4, <1>5, <1>7, <1>8, <2>6, <2>7 DEF Listed, r
  <2>9. Behind(q, T) = Behind(snap, T0) /\ Beyond(q, T) = Beyond(snap, T0)
    <3>1. At(snap) \in 1 .. n + 1 /\ At(snap) - 1 \in 0 .. n /\ 1 \in 1 .. n + 1 /\ n \in 0 .. n
      <4>1. At(snap) \in 1 .. n + 1
        BY <1>1, <1>5, ListedTypes
      <4> QED
        BY <1>2, <4>1
    <3> QED
      BY <1>5, <1>11, <2>4, <3>1 DEF Behind, Beyond, r
  <2>10. Sound(q, T)
    <3>1. CASE Even(Beyond(snap, T0), snap.text)
      BY <2>1, <2>8, <2>9, <3>1 DEF Sound
    <3>2. CASE Odd(Beyond(snap, T0)) /\ snap.ptr = 1
      <4>1. ptr = 1
        BY <1>13, <3>2 DEF Untouched, Resting, Null, Anchor
      <4> QED
        BY <2>8, <2>9, <3>2, <4>1 DEF Sound
    <3> QED
      BY <1>1, <3>1, <3>2 DEF Sound
  <2>11. Closes(snap, T0, q, T)
    BY <2>1, <2>5, <2>9 DEF Closes
  <2> QED
    BY <2>10, <2>11 DEF Follows
<1> QED
  BY <1>3, <1>12, <1>13

(* A command that closes its unit: the list before the oldest unit may go. *)
LEMMA MarkedEnds ==
  ASSUME TypeOK, UndoInv, Forgets, NEW T0, NEW T, HistoryBy(T0, T), first # Null, pc = "run",
         NEW r, r = Ends, NEW q, q.recs = Linked(r), q.text = text, q.ptr = ptr
  PROVE  /\ Sound(q, T) /\ Even(Beyond(q, T), q.text) /\ Listed(snap, T0) /\ Sound(snap, T0)
         /\ OneMore(snap, T0, q, T)
         /\ \/ Changed(T0, T) /\ ~Live(q) /\ Edited(snap, T0, q, T)
            \/ Reverting(T0, T) /\ ~OpenOf(q) /\ Undid(snap, T0, q, T)
<1> DEFINE n == N0
           x == q.recs
           m == Len(r)
<1>1. Listed(snap, T0) /\ Sound(snap, T0)
  BY DEF HistoryBy, Sound
<1>2. n \in Nat
  BY <1>1, ListedTypes DEF N0
<1>3. Changed(T0, T) \/ (Reverting(T0, T) /\ LastStart(ptr))
  BY DEF HistoryBy, Untouched, Typed, Reverting
<1>4. /\ List(r) /\ m = Len(recs) /\ m \in Nat
      /\ \A i \in 1 .. m : r[i].unit = recs[i].unit
      /\ \A V : Chain(V, recs, text) => Chain(V, r, text)
      /\ kind # "minor" => \A i \in 1 .. m : ~r[i].min
  BY EndsIs
<1>5. first = n + 1 /\ Kept(T0, T, n)
  BY <1>3 DEF Changed, Reverting
<1>6. m > n /\ last = m
  <2>1. Len(recs) > n
    <3>1. CASE Changed(T0, T)
      BY <3>1 DEF Changed
    <3>2. CASE Reverting(T0, T)
      <4>1. Len(recs) # n /\ n <= Len(recs)
        BY <1>5, <3>2 DEF Reverting, Kept
      <4> QED
        BY <1>2, <1>4, <4>1
    <3> QED
      BY <1>3, <3>1, <3>2
  <2>2. last = Len(recs)
    BY DEF UndoInv, OpenUnit
  <2> QED
    BY <1>4, <2>1, <2>2
<1>7. /\ Units(r, first - 1) /\ \A i \in first .. m : r[i].unit = Null
      /\ first \in 1 .. m /\ first - 1 = n /\ Closed = n
  <2>1. Closed = first - 1
    BY DEF Closed
  <2>2. first - 1 = n /\ first \in 1 .. m
    BY <1>2, <1>4, <1>5, <1>6
  <2>3. Units(recs, n) /\ \A i \in n + 1 .. m : recs[i].unit = Null
    BY <1>4, <2>1, <2>2 DEF UndoInv, OpenUnit
  <2>4. \A i \in n + 1 .. m : i \in 1 .. m
    BY <1>2
  <2>5. \A i \in 1 .. n : i \in 1 .. m
    BY <1>2, <1>4, <1>6
  <2>6. \A i \in 1 .. n : r[i].unit = recs[i].unit /\ recs[i].unit \in Int
    BY <1>4, <2>5 DEF List, InRange, Null, Freed
  <2>7. Units(r, n)
    BY <1>2, <2>3, <2>6, UnitsSame
  <2> QED
    BY <1>4, <1>5, <2>1, <2>2, <2>3, <2>4, <2>7
<1>8. List(x) /\ Len(x) = m
  <2>1. first \in (Null .. m) \cup {Freed} /\ last \in (Null .. m) \cup {Freed}
    BY <1>4, <1>6, <1>7 DEF Null
  <2> QED
    BY <1>4, <2>1, LinkedList
<1>9. Units(x, m)
  BY <1>4, <1>6, <1>7, LinkedUnits
<1>10. \A i \in 1 .. m : LinkedTo(r, i)
  BY <1>4, LinkedIs
<1>11. Chain(T, x, text)
  <2>1. Chain(T, r, text)
    BY <1>4 DEF HistoryBy
  <2> QED
    BY <1>8, <1>10, <2>1, SameChain DEF LinkedTo
<1>12. \A i \in 0 .. m : T[i] \in Texts
  BY <1>4 DEF HistoryBy
<1>13. /\ \A i \in 1 .. n : x[i].unit = snap.recs[i].unit
       /\ \A i \in 0 .. n : T[i] = T0[i]
  <2>1. ASSUME NEW i \in 1 .. n PROVE x[i].unit = snap.recs[i].unit
    <3>1. i \in 1 .. m /\ i # first /\ i # last
      BY <1>2, <1>4, <1>5, <1>6
    <3>2. x[i].unit = r[i].unit
      BY <1>10, <3>1 DEF LinkedTo
    <3> QED
      BY <1>4, <1>5, <3>1, <3>2 DEF Kept
  <2> QED
    BY <1>5, <2>1 DEF Kept
<1>14. StartsUnit(x, n + 1)
  <2>1. n + 1 \in 1 .. m /\ n + 1 <= m
    BY <1>2, <1>4, <1>6
  <2>2. x[n + 1].unit = m \/ (x[n + 1].unit = n + 1 /\ n + 1 = m)
    BY <1>5, <1>6, <1>10, <2>1 DEF LinkedTo
  <2> QED
    BY <1>2, <1>4, <2>1, <2>2 DEF StartsUnit
<1>15. ASSUME NEW i \in n + 2 .. m PROVE ~StartsUnit(x, i)
  <2>1. i \in 1 .. m /\ i \in first .. m /\ i # first /\ i > first
    BY <1>2, <1>4, <1>5
  <2>2. x[i].unit = first \/ x[i].unit = Null
    BY <1>7, <1>10, <2>1 DEF LinkedTo
  <2> QED
    BY <1>7, <2>1, <2>2 DEF StartsUnit, Null
<1> HIDE DEF n, x, m
<1>16. OneMore(snap, T0, q, T)
  <2>1. n < m
    BY <1>2, <1>4, <1>6
  <2> QED
    BY <1>8, <1>13, <1>14, <1>15, <2>1 DEF OneMore, n, x, N0
<1>17. CASE Changed(T0, T)
  <2>1. Resting(ptr)
    BY <1>17 DEF Changed
  <2>2. ~Live(q)
    BY <2>1 DEF Resting, Live, Null, Anchor
  <2>3. Listed(q, T)
    BY <1>8, <1>9, <1>11, <1>12, <2>1, <2>2 DEF Listed, Resting, x
  <2>4. Sound(q, T) /\ Even(Beyond(q, T), q.text)
    BY <2>2, <2>3, RestingSound
  <2>5. Edited(snap, T0, q, T)
    BY <1>1, <1>16, <2>2, <2>3, EditHistory
  <2> QED
    BY <1>1, <1>16, <1>17, <2>2, <2>4, <2>5
<1>18. CASE Reverting(T0, T) /\ LastStart(ptr)
  <2>1. kind = "undo" /\ text = T0[Place - 1]
    BY <1>18 DEF Reverting
  <2>2. ptr \in 1 .. At(snap) - 1 /\ StartsUnit(snap.recs, ptr)
        /\ \A i \in ptr + 1 .. At(snap) - 1 : ~StartsUnit(snap.recs, i)
    BY <1>18 DEF LastStart, Precedes
  <2>3. At(snap) \in 1 .. n + 1
    BY <1>1, ListedTypes DEF n, N0
  <2>4. ptr \in 1 .. n /\ ptr \in 1 .. m /\ ptr # 0 /\ ptr # -1
    BY <1>2, <1>4, <1>6, <2>2, <2>3
  <2>5. Place = ptr
    BY <2>4 DEF Place, Resting, Null, Anchor
  <2>6. StartsUnit(x, ptr)
    BY <1>13, <2>2, <2>4 DEF StartsUnit
  <2>7. m \in 1 .. m
    BY <1>2, <1>4, <1>6
  <2>8. ~x[m].min
    <3>1. ~r[m].min
      BY <1>4, <2>1, <2>7
    <3> QED
      BY <1>10, <2>7, <3>1 DEF LinkedTo, x
  <2>9. Listed(q, T)
    BY <1>8, <1>9, <1>11, <1>12, <2>4, <2>6, <2>8 DEF Listed, x
  <2>10. Sound(q, T) /\ Even(Beyond(q, T), q.text) /\ Undid(snap, T0, q, T)
    <3>1. q.ptr = ptr /\ q.text = T0[ptr - 1]
      BY <2>1, <2>5
    <3> QED
      BY <1>1, <1>16, <2>2, <2>9, <3>1, UndoneHistory
  <2>11. ~OpenOf(q)
    BY <1>8, <2>8 DEF OpenOf, x
  <2> QED
    BY <1>1, <1>16, <1>18, <2>10, <2>11
<1> QED
  BY <1>3, <1>17, <1>18

(* The eviction.                                                           *)
DropsOldest(s, q, n) ==
  /\ q.recs = Dropped(s.recs, n) /\ q.text = s.text
  /\ q.ptr = IF s.ptr # 1 THEN Shift(s.ptr, n) ELSE IF n = Len(s.recs) THEN Anchor ELSE 1

ShiftedTo(r, q, n, i) ==
  /\ q[i].where = r[i + n].where /\ q[i].len = r[i + n].len
  /\ q[i].text = r[i + n].text /\ q[i].del = r[i + n].del
  /\ q[i].min = r[i + n].min /\ q[i].unit = Shift(r[i + n].unit, n)

LEMMA DroppedIs ==
  ASSUME NEW r, List(r), NEW n \in 1 .. Len(r), NEW q, q = Dropped(r, n), NEW i \in 1 .. Len(r) - n
  PROVE  ShiftedTo(r, q, n, i)
<1>1. Len(r) \in Nat
  BY LenProperties DEF List
<1>2. i + n \in 1 .. Len(r)
  BY <1>1
<1>3. r[i + n] \in Record
  BY <1>2 DEF List
<1>4. q[i] = [r[i + n] EXCEPT !.unit = Shift(@, n)]
  BY DEF Dropped
<1> QED
  BY <1>3, <1>4 DEF Record, ShiftedTo

LEMMA ShiftedBack ==
  ASSUME NEW u \in Int, NEW n \in Nat, NEW i \in Nat, i >= 1, Shift(u, n) >= i
  PROVE  u >= i + n
<1>1. CASE u <= 0
  BY <1>1 DEF Shift
<1>2. CASE u \in 1 .. n
  <2>1. Shift(u, n) = Freed
    BY <1>2 DEF Shift
  <2> QED
    BY <2>1 DEF Freed
<1>3. CASE u > 0 /\ u \notin 1 .. n
  <2>1. Shift(u, n) = u - n
    BY <1>3 DEF Shift
  <2> QED
    BY <2>1
<1> QED
  BY <1>1, <1>2, <1>3

LEMMA EvictionEnds ==
  ASSUME NEW s, NEW T, Listed(s, T), Even(Beyond(s, T), s.text), s.recs # <<>>,
         NEW n, n = Oldest(s.recs), s.ptr = 1 => n < Len(s.recs),
         NEW q, DropsOldest(s, q, n)
  PROVE  \E U : Sound(q, U) /\ Evicted(s, T, q, U) /\ (OpenOf(q) => OpenOf(s))
<1> DEFINE r == s.recs
           x == q.recs
           l == Len(r)
           m == l - n
           U == [i \in 0 .. l - n |-> T[i + n]]
<1>1. List(r) /\ Units(r, l) /\ Chain(T, r, s.text) /\ l \in Nat /\ \A i \in 0 .. l : T[i] \in Texts
  BY ListedTypes DEF Listed
<1>2. /\ n \in 1 .. l /\ Units(Dropped(r, n), m)
      /\ \A i \in 2 .. l : StartsUnit(r, i) => i > n /\ StartsUnit(Dropped(r, n), i - n)
      /\ n < l => StartsUnit(Dropped(r, n), 1)
  BY <1>1, DroppedUnits
<1>3. m \in Nat /\ m < l /\ m + n = l /\ n \in Nat /\ n >= 1
  BY <1>1, <1>2
<1>4. x = Dropped(r, n) /\ List(x) /\ Len(x) = m
  BY <1>1, <1>2, DroppedList DEF DropsOldest
<1>5. \A i \in 1 .. m : /\ x[i].where = r[i + n].where /\ x[i].len = r[i + n].len
                        /\ x[i].text = r[i + n].text /\ x[i].del = r[i + n].del
                        /\ x[i].min = r[i + n].min /\ x[i].unit = Shift(r[i + n].unit, n)
  <2>1. List(r) /\ n \in 1 .. Len(r) /\ x = Dropped(r, n) /\ m = Len(r) - n
    BY <1>1, <1>2, <1>4
  <2> HIDE DEF r, x, m
  <2>2. \A i \in 1 .. Len(r) - n : ShiftedTo(r, x, n, i)
    BY <2>1, DroppedIs
  <2> QED
    BY <2>1, <2>2 DEF ShiftedTo
<1>6. Chain(U, x, q.text)
  <2>1. r \in Seq(Record) /\ Len(x) = Len(r) - n
    BY <1>1, <1>4 DEF List
  <2>2. Chain(U, x, s.text)
    BY <1>1, <1>2, <1>5, <2>1, DroppedChain
  <2> QED
    BY <2>2 DEF DropsOldest
<1>7. \A i \in 0 .. m : U[i] = T[i + n]
  OBVIOUS
<1>8. \A i \in 0 .. m : U[i] \in Texts
  <2>1. \A i \in 0 .. m : i + n \in 0 .. l
    BY <1>3
  <2> QED
    BY <1>1, <1>7, <2>1
<1> HIDE DEF r, x, l, m, U
<1>9. WithoutFirst(r, T, x, U, n)
  <2>1. StartsUnit(r, 1)
    BY <1>1, <1>2, <1>3 DEF Units
  <2>2. \A i \in 2 .. n : ~StartsUnit(r, i)
    <3>1. \A i \in 2 .. n : i \in 2 .. l /\ ~(i > n)
      BY <1>1, <1>2
    <3> QED
      BY <1>2, <3>1
  <2>3. ASSUME NEW i \in 1 .. m
        PROVE  (StartsUnit(x, i) <=> StartsUnit(r, i + n)) /\ U[i - 1] = T[i + n - 1]
    <3>1. i + n \in 2 .. l /\ (i + n) - n = i /\ i + n \in 1 .. l /\ i \in Nat /\ i >= 1
          /\ i - 1 \in 0 .. m /\ (i - 1) + n = i + n - 1
      BY <1>1, <1>3
    <3>2. StartsUnit(r, i + n) => StartsUnit(x, i)
      BY <1>2, <1>4, <3>1
    <3>3. ASSUME StartsUnit(x, i) PROVE StartsUnit(r, i + n)
      <4>1. x[i].unit = Shift(r[i + n].unit, n) /\ x[i].unit >= i
        BY <1>5, <3>3 DEF StartsUnit
      <4>2. r[i + n].unit \in Int
        BY <1>1, <3>1 DEF List, InRange, Null, Freed, l
      <4>3. r[i + n].unit >= i + n
        BY <1>3, <3>1, <4>1, <4>2, ShiftedBack
      <4> QED
        BY <4>3 DEF StartsUnit
    <3>4. U[i - 1] = T[i + n - 1]
      <4>1. U[i - 1] = T[(i - 1) + n]
        BY <1>7, <3>1
      <4> QED
        BY <3>1, <4>1
    <3> QED
      BY <3>2, <3>3, <3>4
  <2>4. n \in 1 .. Len(r) /\ Len(x) = Len(r) - n
    BY <1>2, <1>4 DEF l, m
  <2> QED
    BY <1>4, <2>1, <2>2, <2>3, <2>4 DEF WithoutFirst
<1> DEFINE p == s.ptr
<1>10. /\ p \in {Null, Anchor} \cup 1 .. l
       /\ p \in 1 .. l => StartsUnit(r, p) /\ ~r[l].min
       /\ p = 1 => n < l
  BY DEF Listed, Live, l, r
<1>11. q.ptr = IF p # 1 THEN Shift(p, n) ELSE IF n = l THEN Anchor ELSE 1
  BY DEF DropsOldest, l, r
<1>12. At(s) = (IF p \in 1 .. l THEN p ELSE l + 1) /\ At(q) = (IF q.ptr \in 1 .. m THEN q.ptr ELSE m + 1)
  BY <1>4 DEF At, Live, l, r, x
<1> HIDE DEF p
<1>13. \/ p \in {Null, Anchor} /\ q.ptr = p
       \/ p = 1 /\ q.ptr = 1 /\ n < l
       \/ p \in 2 .. l /\ p > n /\ q.ptr = p - n
  <2>1. CASE p \in {Null, Anchor}
    BY <1>11, <2>1 DEF Null, Anchor, Shift
  <2>2. CASE p = 1
    <3>1. n < l /\ n # l
      BY <1>3, <1>10, <2>2
    <3> QED
      BY <1>11, <2>2, <3>1
  <2>3. CASE p \in 1 .. l /\ p # 1
    <3>1. p \in 2 .. l
      BY <1>1, <2>3
    <3>2. p > n
      BY <1>2, <1>10, <2>3, <3>1
    <3>3. Shift(p, n) = p - n
      BY <1>3, <3>1, <3>2 DEF Shift
    <3> QED
      BY <1>11, <2>3, <3>1, <3>2, <3>3
  <2> QED
    BY <1>10, <2>1, <2>2, <2>3
<1>14. \/ q.ptr \in {Null, Anchor} /\ q.ptr \notin 1 .. m /\ p # 1 /\ At(s) = l + 1 /\ At(q) = m + 1
       \/ q.ptr \in 1 .. m /\ p \in 1 .. l /\ StartsUnit(x, q.ptr)
          /\ \/ p = 1 /\ q.ptr = 1
             \/ p # 1 /\ At(s) > n /\ At(q) = At(s) - n
  <2>1. CASE p \in {Null, Anchor} /\ q.ptr = p
    <3>1. 0 \notin 1 .. m /\ -1 \notin 1 .. m /\ 0 \notin 1 .. l /\ -1 \notin 1 .. l
      BY <1>1, <1>3
    <3>2. p \notin 1 .. m /\ p \notin 1 .. l /\ p # 1
      BY <2>1, <3>1 DEF Null, Anchor
    <3> QED
      BY <1>12, <2>1, <3>2
  <2>2. CASE p = 1 /\ q.ptr = 1 /\ n < l
    <3>1. 1 \in 1 .. m /\ 1 \in 1 .. l
      BY <1>1, <1>3, <2>2
    <3>2. StartsUnit(x, 1)
      BY <1>2, <1>4, <2>2
    <3> QED
      BY <2>2, <3>1, <3>2
  <2>3. CASE p \in 2 .. l /\ p > n /\ q.ptr = p - n
    <3>1. p - n \in 1 .. m /\ p \in 1 .. l /\ p # 1
      BY <1>1, <1>3, <2>3
    <3>2. StartsUnit(x, p - n)
      BY <1>2, <1>4, <1>10, <2>3, <3>1
    <3> QED
      BY <1>12, <2>3, <3>1, <3>2
  <2> QED
    BY <1>13, <2>1, <2>2, <2>3
<1>15. q.ptr \in 1 .. m => ~x[m].min
  <2>1. SUFFICES ASSUME q.ptr \in 1 .. m PROVE ~x[m].min
    OBVIOUS
  <2>2. m \in 1 .. m /\ m + n = l
    BY <1>3, <2>1
  <2>3. x[m].min = r[l].min
    BY <1>5, <2>2
  <2>4. q.ptr \notin {0, -1}
    BY <1>3, <2>1
  <2>5. p \in 1 .. l
    BY <1>14, <2>4 DEF Null, Anchor
  <2> QED
    BY <1>10, <2>3, <2>5
<1>16. Listed(q, U)
  <2>1. q.ptr \in {Null, Anchor} \cup 1 .. m
    BY <1>14
  <2>2. q.ptr \in 1 .. m => StartsUnit(x, q.ptr)
    <3>1. 0 \notin 1 .. m /\ -1 \notin 1 .. m
      BY <1>3
    <3> QED
      BY <1>14, <3>1 DEF Null, Anchor
  <2> QED
    BY <1>2, <1>4, <1>6, <1>8, <1>15, <2>1, <2>2 DEF Listed, Live, x
<1>17. IF s.ptr = 1 THEN n < Len(s.recs) /\ q.ptr = 1 ELSE At(s) > n /\ At(q) = At(s) - n
  <2>1. CASE p = 1
    BY <1>10, <1>13, <2>1 DEF p, l, r, Null, Anchor
  <2>2. CASE p # 1
    <3>1. CASE At(s) = l + 1 /\ At(q) = m + 1
      <4>1. l + 1 > n /\ m + 1 = (l + 1) - n
        BY <1>1, <1>3
      <4> QED
        BY <2>2, <3>1, <4>1 DEF p
    <3> QED
      BY <1>14, <2>2, <3>1 DEF p
  <2> QED
    BY <2>1, <2>2
<1>18. Sound(q, U) /\ Evicted(s, T, q, U)
  <2>1. q.text = s.text
    BY DEF DropsOldest
  <2> QED
    BY <1>9, <1>16, <1>17, <2>1, EvictedHistory DEF r, x
<1>19. OpenOf(q) => OpenOf(s)
  <2>1. SUFFICES ASSUME x # <<>>, x[m].min PROVE OpenOf(s)
    BY <1>4 DEF OpenOf, x
  <2>2. m # 0
    BY <1>4, <2>1, EmptySeq DEF List
  <2>3. m \in 1 .. m /\ m + n = l
    BY <1>3, <2>2
  <2>4. r[l].min
    BY <1>5, <2>1, <2>3
  <2> QED
    BY <2>4 DEF OpenOf, l, r
<1> QED
  BY <1>18, <1>19

LEMMA HalfNone == Half(<<>>) = <<>>
<1>1. 0 \in Nat /\ Len(<<>>) = 0 /\ 0 = 2 * 0 /\ <<>> \in Seq(Texts)
  BY EmptySeq
<1>2. PICK m \in Nat : m = 0
  OBVIOUS
<1>3. Len(<<>>) = 2 * m
  BY <1>2
<1>4. HalfOf(Texts, Half(<<>>), m, <<>>, Len(<<>>))
  BY <1>1, <1>3, HalfIs
<1>5. Half(<<>>) \in Seq(Texts) /\ Len(Half(<<>>)) = 0
  BY <1>2, <1>4 DEF HalfOf
<1> QED
  BY <1>5, EmptySeq

(* An edit and an undo, before anything is evicted.                        *)
LEMMA ClosedEnds ==
  ASSUME Forgets, NEW s, NEW T0, NEW q, NEW T, Sound(s, T0), Sound(q, T),
         \/ ~Live(q) /\ Edited(s, T0, q, T)
         \/ ~OpenOf(q) /\ Undid(s, T0, q, T)
  PROVE  Follows(s, T0, q, T)
<1>1. Listed(s, T0) /\ Listed(q, T)
  BY DEF Sound
<1>2. Behind(q, T) \in Seq(Texts)
  BY <1>1, ListedTypes
<1>3. CASE ~Live(q) /\ Edited(s, T0, q, T)
  <2> DEFINE p == Behind(s, T0) \o Round(s.text, Half(Beyond(s, T0)))
  <2>1. Behind(q, T) = Behind(s, T0) \o Append(Beyond(s, T0), s.text)
    BY <1>3 DEF Edited
  <2>2. Forget(p, Behind(q, T), IF Behind(s, T0) = <<>> THEN 1 ELSE 0)
    BY <2>1, EditForgets
  <2> HIDE DEF p
  <2>3. Forget(p, Behind(q, T), IF Behind(s, T0) = <<>> THEN 2 ELSE 1)
    <3>1. CASE Behind(s, T0) = <<>>
      <4>1. Forget(p, Behind(q, T), 1) /\ 1 \in Nat /\ 2 \in Nat /\ 1 <= 2
        BY <2>2, <3>1
      <4>2. Forget(p, Behind(q, T), 2)
        BY <4>1, ForgetMore
      <4> QED
        BY <3>1, <4>2
    <3>2. CASE Behind(s, T0) # <<>>
      <4>1. Forget(p, Behind(q, T), 0) /\ 0 \in Nat /\ 1 \in Nat /\ 0 <= 1
        BY <2>2, <3>2
      <4>2. Forget(p, Behind(q, T), 1)
        BY <4>1, ForgetMore
      <4> QED
        BY <3>2, <4>2
    <3> QED
      BY <3>1, <3>2
  <2>4. Half(Beyond(q, T)) = <<>>
    <3>1. Beyond(q, T) = <<>>
      BY <1>1, <1>3, RestingSound
    <3> QED
      BY <3>1, HalfNone
  <2> QED
    BY <2>3, <2>4 DEF Follows, Edits, p
<1>4. CASE ~OpenOf(q) /\ Undid(s, T0, q, T)
  <2>1. Forget(Behind(q, T), Behind(q, T), 1)
    <3>1. 1 \in Nat
      OBVIOUS
    <3> QED
      BY <1>2, <3>1, ForgetNone
  <2> QED
    BY <1>2, <1>4, <2>1 DEF Follows, Undoes, Undid
<1> QED
  BY <1>3, <1>4

(* The same when the oldest unit of s1 has been evicted.                   *)
LEMMA EvictedEnds ==
  ASSUME Forgets, NEW s, NEW T0, NEW q, NEW T, NEW e, NEW U,
         Sound(s, T0), Sound(q, T), Sound(e, U), Evicted(q, T, e, U), e.text = q.text,
         OpenOf(e) => OpenOf(q),
         \/ ~Live(q) /\ Edited(s, T0, q, T)
         \/ ~OpenOf(q) /\ Undid(s, T0, q, T)
  PROVE  Follows(s, T0, e, U)
<1>1. Listed(s, T0) /\ Listed(q, T)
  BY DEF Sound
<1>2. Behind(q, T) \in Seq(Texts)
  BY <1>1, ListedTypes
<1>3. /\ Behind(e, U) = IF Behind(q, T) = <<>> THEN <<>> ELSE Tail(Behind(q, T))
      /\ Half(Beyond(e, U)) = Half(Beyond(q, T))
  BY DEF Evicted
<1>4. CASE ~Live(q) /\ Edited(s, T0, q, T)
  <2> DEFINE p == Behind(s, T0) \o Round(s.text, Half(Beyond(s, T0)))
             b == Behind(q, T)
  <2>1. b = Behind(s, T0) \o Append(Beyond(s, T0), s.text)
    BY <1>4 DEF Edited
  <2>2. p \in Seq(Texts) /\ Forget(p, b, IF Behind(s, T0) = <<>> THEN 1 ELSE 0)
    BY <2>1, EditForgets
  <2> HIDE DEF p, b
  <2>3. ASSUME NEW n \in Nat, Forget(p, b, n) PROVE Forget(p, Behind(e, U), n + 1)
    BY <1>3, <2>2, <2>3, ForgetOne DEF b
  <2>4. Forget(p, Behind(e, U), IF Behind(s, T0) = <<>> THEN 2 ELSE 1)
    <3>1. CASE Behind(s, T0) = <<>>
      <4>1. Forget(p, b, 1) /\ 1 \in Nat /\ 1 + 1 = 2
        BY <2>2, <3>1
      <4>2. Forget(p, Behind(e, U), 2)
        BY <2>3, <4>1
      <4> QED
        BY <3>1, <4>2
    <3>2. CASE Behind(s, T0) # <<>>
      <4>1. Forget(p, b, 0) /\ 0 \in Nat /\ 0 + 1 = 1
        BY <2>2, <3>2
      <4>2. Forget(p, Behind(e, U), 1)
        BY <2>3, <4>1
      <4> QED
        BY <3>2, <4>2
    <3> QED
      BY <3>1, <3>2
  <2>5. Half(Beyond(e, U)) = <<>>
    <3>1. Beyond(q, T) = <<>>
      BY <1>1, <1>4, RestingSound
    <3> QED
      BY <1>3, <3>1, HalfNone
  <2> QED
    BY <2>4, <2>5 DEF Follows, Edits, p
<1>5. CASE ~OpenOf(q) /\ Undid(s, T0, q, T)
  <2> DEFINE b == Behind(q, T)
  <2>1. Forget(b, Behind(e, U), 1)
    <3>1. PICK z \in Nat : z = 0
      OBVIOUS
    <3>2. Forget(b, b, z)
      BY <1>2, ForgetNone
    <3>3. Forget(b, Behind(e, U), z + 1) /\ z + 1 = 1
      BY <1>2, <1>3, <3>1, <3>2, ForgetOne
    <3> QED
      BY <3>3
  <2>2. Behind(s, T0) = Append(b, e.text) /\ Half(Beyond(e, U)) = <<s.text>> \o Half(Beyond(s, T0))
    BY <1>3, <1>5 DEF Undid
  <2> QED
    BY <1>2, <1>5, <2>1, <2>2 DEF Follows, Undoes
<1> QED
  BY <1>4, <1>5

LEMMA EndHistory ==
  ASSUME TypeOK, UndoInv, UndoInv', Forgets, HistoryInv, End,
         snap' = [text |-> text', recs |-> recs', ptr |-> ptr']
  PROVE  HistoryInv' /\ Lasts(snap, snap')
<1>1. PICK T0, T : HistoryBy(T0, T)
  BY DEF HistoryInv
<1> DEFINE q == snap'
           r == Ends
<1>2. q.text = text /\ q.recs = recs' /\ q.ptr = ptr'
  BY DEF End
<1>3. /\ undomark(r) /\ pc \in {"run", "failed"}
      /\ first' = Null /\ kind' = "none" /\ text' = text
  BY DEF End, Ends
<1>4. pc' = "idle"
  BY <1>3 DEF undomark, undogc, UndoInv
<1> HIDE DEF q, r
<1>5. \E U : Sound(snap, T0) /\ Sound(q, U) /\ Follows(snap, T0, q, U)
  <2>1. Sound(snap, T0)
    BY <1>1 DEF HistoryBy
  <2>2. CASE first = Null
    <3>1. q.recs = Ends /\ q.ptr = ptr
      BY <1>2, <1>3, <2>2 DEF undomark, r
    <3> QED
      BY <1>1, <1>2, <1>3, <2>1, <2>2, <3>1, UnmarkedEnds
  <2>3. CASE first # Null
    <3>1. pc = "run"
      BY <1>1, <1>3, <2>3 DEF HistoryBy, Untouched, Changed, Typed, Reverting
    <3> DEFINE s == [text |-> text, recs |-> Linked(r), ptr |-> ptr]
    <3>2. s.text = text /\ s.recs = Linked(r) /\ s.ptr = ptr
      OBVIOUS
    <3> HIDE DEF s
    <3>3. /\ Sound(s, T) /\ Even(Beyond(s, T), s.text)
          /\ OneMore(snap, T0, s, T)
          /\ \/ Changed(T0, T) /\ ~Live(s) /\ Edited(snap, T0, s, T)
             \/ Reverting(T0, T) /\ ~OpenOf(s) /\ Undid(snap, T0, s, T)
      BY <1>1, <2>3, <3>1, <3>2, MarkedEnds DEF r
    <3>4. CASE nrecs + 1 # UNDOKEEP
      <4>1. recs' = Linked(r) /\ ptr' = ptr
        BY <1>3, <2>3, <3>4 DEF undomark
      <4>2. q = s
        BY <4>1, <1>3 DEF q, s
      <4> QED
        BY <2>1, <3>3, <4>2, ClosedEnds
    <3>5. CASE nrecs + 1 = UNDOKEEP
      <4> DEFINE n == Oldest(s.recs)
      <4>1. undogc(s.recs)
        BY <1>3, <2>3, <3>2, <3>5 DEF undomark
      <4>2. DropsOldest(s, q, n)
        BY <1>2, <1>4, <3>2, <4>1 DEF undogc, DropsOldest
      <4>3. Listed(s, T) /\ Len(s.recs) \in Nat /\ Len(snap.recs) \in Nat
            /\ At(snap) \in 1 .. Len(snap.recs) + 1
        BY <2>1, <3>3, ListedTypes DEF Sound
      <4>4. Len(snap.recs) < Len(s.recs) /\ StartsUnit(s.recs, Len(snap.recs) + 1)
        BY <3>3 DEF OneMore
      <4>5. s.recs # <<>>
        <5>1. Len(s.recs) # 0
          BY <4>3, <4>4
        <5> QED
          BY <5>1, EmptySeq
      <4> HIDE DEF n
      <4>6. s.ptr = 1 => n < Len(s.recs)
        <5>1. SUFFICES ASSUME ptr = 1 PROVE n < Len(s.recs)
          BY <3>2
        <5>2. Reverting(T0, T)
          BY <3>3, <5>1 DEF Changed, Resting, Null, Anchor
        <5>3. 1 \in 1 .. At(snap) - 1
          BY <3>1, <5>1, <5>2 DEF Reverting, LastStart, Precedes
        <5>4. Len(snap.recs) + 1 \in 2 .. Len(s.recs)
          BY <4>3, <4>4, <5>3
        <5>5. List(s.recs) /\ Units(s.recs, Len(s.recs))
          BY <4>3 DEF Listed
        <5>6. /\ n \in 1 .. Len(s.recs)
              /\ \A i \in 2 .. Len(s.recs) : StartsUnit(s.recs, i) => i > n
          BY <4>5, <5>5, DroppedUnits DEF n
        <5> QED
          BY <4>3, <4>4, <5>4, <5>6
      <4>7. PICK U : Sound(q, U) /\ Evicted(s, T, q, U) /\ (OpenOf(q) => OpenOf(s))
        BY <3>3, <4>2, <4>3, <4>5, <4>6, EvictionEnds DEF n
      <4>8. q.text = s.text
        BY <1>2, <3>2
      <4>9. Follows(snap, T0, q, U)
        BY <2>1, <3>3, <4>7, <4>8, EvictedEnds
      <4> QED
        BY <2>1, <4>7, <4>9
    <3> QED
      BY <3>4, <3>5
  <2> QED
    BY <2>2, <2>3
<1>6. PICK U : Sound(q, U) /\ Follows(snap, T0, q, U) /\ Sound(snap, T0)
  BY <1>5
<1>7. HistoryBy(U, U)'
  <2>1. Listed(q, U)
    BY <1>6 DEF Sound
  <2>2. Chain(U, recs', text') /\ (\A i \in 0 .. Len(recs') : U[i] \in Texts) /\ Len(recs') \in Nat
    BY <1>2, <1>3, <2>1, ListedTypes DEF Listed
  <2>3. N0' = Len(recs') /\ snap'.recs = recs' /\ snap'.ptr = ptr'
    BY <1>2 DEF N0, q
  <2>4. Kept(U, U, N0)'
    BY <2>2, <2>3 DEF Kept
  <2>5. Untouched(U, U)'
    BY <1>3, <1>4, <2>2, <2>3, <2>4 DEF Untouched
  <2> QED
    BY <1>6, <2>2, <2>5 DEF HistoryBy, q
<1>8. HistoryInv'
  BY <1>7 DEF HistoryInv
<1>9. Lasts(snap, snap')
  BY <1>6 DEF Lasts, q
<1> QED
  BY <1>8, <1>9

-----------------------------------------------------------------------------
LEMMA FrontAndLast ==
  ASSUME NEW S, NEW b \in Seq(S), NEW e \in S, NEW c, c = Append(b, e)
  PROVE  c # <<>> /\ Front(c) = b /\ Last(c) = e
<1> DEFINE n == Len(b)
<1>1. n \in Nat /\ c \in Seq(S) /\ Len(c) = n + 1 /\ c[n + 1] = e /\ \A i \in 1 .. n : c[i] = b[i]
  BY AppendIs
<1> HIDE DEF n
<1>2. c # <<>>
  <2>1. Len(c) # 0
    BY <1>1
  <2> QED
    BY <2>1, EmptySeq
<1>3. Last(c) = e
  BY <1>1 DEF Last
<1>4. (n + 1) - 1 = n /\ n \in 0 .. n + 1
  BY <1>1
<1>5. Front(c) = SubSeq(c, 1, n)
  BY <1>1, <1>4 DEF Front
<1>6. SubSeq(c, 1, n) = b
  <2> DEFINE f == SubSeq(c, 1, n)
  <2>1. /\ f \in Seq(S) /\ Len(f) = n
        /\ \A i \in 1 .. n : f[i] = c[i]
    <3>1. \A i \in 1 .. n : c[i] \in S
      BY <1>1, <1>4
    <3> QED
      BY <1>1, <3>1, SubSeqProperties
  <2> HIDE DEF f
  <2>2. \A i \in 1 .. n : f[i] = b[i]
    BY <1>1, <2>1
  <2>3. Len(b) = n
    BY DEF n
  <2> QED
    BY <2>1, <2>2, <2>3, SeqEqual DEF f
<1> QED
  BY <1>2, <1>3, <1>5, <1>6

(* What a command does to the texts, UndoHistory allows.                   *)
LEMMA HistoryAllows ==
  ASSUME Lasts(snap, snap')
  PROVE  [History!Next]_(History!vars)
<1>1. PICK T, U : Sound(snap, T) /\ Sound(snap', U) /\ Follows(snap, T, snap', U)
  BY DEF Lasts
<1> DEFINE q == snap'
<1>2. /\ PastOf(snap) = Behind(snap, T) /\ FutureOf(snap) = Half(Beyond(snap, T))
  BY <1>1, HistoryIs
<1>3. PastOf(q) = Behind(q, U) /\ FutureOf(q) = Half(Beyond(q, U))
  BY <1>1, HistoryIs
<1>4. /\ snap.text \in Texts /\ q.text \in Texts
      /\ Behind(snap, T) \in Seq(Texts) /\ Beyond(snap, T) \in Seq(Texts)
      /\ Behind(q, U) \in Seq(Texts) /\ Beyond(q, U) \in Seq(Texts)
  BY <1>1, ListedTypes DEF Sound
<1>5. PastOf(snap)' = PastOf(q) /\ FutureOf(snap)' = FutureOf(q) /\ snap.text' = q.text
  OBVIOUS
<1>6. CASE Edits(snap, T, q, U)
  <2>1. Forget(PastOf(snap) \o Round(snap.text, FutureOf(snap)), PastOf(snap)',
               IF PastOf(snap) = <<>> THEN 2 ELSE 1)
    BY <1>2, <1>3, <1>5, <1>6 DEF Edits
  <2>2. FutureOf(snap)' = <<>>
    BY <1>3, <1>5, <1>6 DEF Edits
  <2>3. \A c : History!Reverse(c) = Reverse(c)
    BY DEF History!Reverse, Reverse
  <2>4. Round(snap.text, FutureOf(snap)) = History!AndBack
    BY <2>3 DEF History!AndBack, History!There, Round
  <2>5. History!Keeps(PastOf(snap) \o History!AndBack, IF PastOf(snap) = <<>> THEN 2 ELSE 1)
    BY <2>1, <2>4 DEF History!Keeps, Forget
  <2>6. History!Edit(q.text)
    BY <2>2, <2>5 DEF History!Edit
  <2> QED
    BY <1>4, <2>6 DEF History!Next
<1>7. CASE TypesOn(snap, T, q, U)
  <2>1. OpenOf(snap) /\ OpenOf(q) /\ FutureOf(snap) = <<>> /\ FutureOf(q) = <<>>
        /\ PastOf(q) = PastOf(snap)
    BY <1>2, <1>3, <1>7, HalfNone DEF TypesOn
  <2>2. History!Type(q.text)
    BY <1>5, <2>1 DEF History!Type, OpenOf
  <2> QED
    BY <1>4, <2>2 DEF History!Next
<1>8. CASE Closes(snap, T, q, U)
  <2>1. q.text = snap.text /\ FutureOf(q) = FutureOf(snap) /\ PastOf(q) = PastOf(snap)
        /\ (OpenOf(q) => OpenOf(snap))
    BY <1>2, <1>3, <1>8 DEF Closes
  <2>2. CASE OpenOf(q)
    <3>1. UNCHANGED History!vars
      BY <1>5, <2>1, <2>2 DEF History!vars, OpenOf
    <3> QED
      BY <3>1
  <2>3. CASE ~OpenOf(q)
    <3>1. History!Close
      BY <1>5, <2>1, <2>3 DEF History!Close, OpenOf
    <3> QED
      BY <3>1 DEF History!Next
  <2> QED
    BY <2>2, <2>3
<1>9. CASE Undoes(snap, T, q, U)
  <2>1. PICK b \in Seq(Texts) : PastOf(snap) = Append(b, q.text) /\ Forget(b, PastOf(q), 1)
    BY <1>2, <1>3, <1>9 DEF Undoes
  <2>2. PastOf(snap) # <<>> /\ Front(PastOf(snap)) = b /\ Last(PastOf(snap)) = q.text
    BY <1>4, <2>1, FrontAndLast
  <2>3. FutureOf(q) = <<snap.text>> \o FutureOf(snap) /\ ~OpenOf(q)
    BY <1>2, <1>3, <1>9 DEF Undoes
  <2>4. Forget(Front(PastOf(snap)), PastOf(snap)', 1)
    BY <1>5, <2>1, <2>2
  <2>5. \A c : History!Front(c) = Front(c) /\ History!Last(c) = Last(c)
    BY DEF History!Front, Front, History!Last, Last
  <2>6. History!Keeps(History!Front(PastOf(snap)), 1)
    BY <2>4, <2>5 DEF History!Keeps, Forget
  <2>7. History!Undo
    BY <1>5, <2>2, <2>3, <2>5, <2>6 DEF History!Undo, History!There, OpenOf
  <2> QED
    BY <2>7 DEF History!Next
<1> QED
  BY <1>1, <1>6, <1>7, <1>8, <1>9 DEF Follows

LEMMA InitHistory ==
  ASSUME MCInit
  PROVE  HistoryInv /\ History!Init
<1> DEFINE T == [i \in 0 .. 0 |-> <<>>]
<1>1. /\ text = <<>> /\ recs = <<>> /\ ptr = Null /\ Len(recs) = 0 /\ first = Null
      /\ pc = "idle" /\ kind = "none"
  BY DEF MCInit, Init
<1>2. snap.text = <<>> /\ snap.recs = <<>> /\ snap.ptr = Null /\ Len(snap.recs) = 0
  BY DEF MCInit
<1>3. <<>> \in Seq(Nat) /\ T \in [0 .. 0 -> Seq(Nat)] /\ T[0] = <<>>
  OBVIOUS
<1>4. Chain(T, recs, text) /\ Chain(T, snap.recs, snap.text)
  BY <1>1, <1>2, <1>3 DEF Chain
<1>5. List(snap.recs) /\ Units(snap.recs, Len(snap.recs))
  <2>1. <<>> \in Seq(Record)
    OBVIOUS
  <2> QED
    BY <1>2, <2>1 DEF List, InRange, Units
<1>6. \A i \in 0 .. 0 : T[i] \in Texts
  BY <1>3, EmptyText
<1> HIDE DEF T
<1>7. Listed(snap, T) /\ ~Live(snap)
  BY <1>2, <1>4, <1>5, <1>6 DEF Listed, Live
<1>8. Sound(snap, T) /\ Beyond(snap, T) = <<>>
  BY <1>7, RestingSound
<1>9. Untouched(T, T)
  BY <1>1, <1>2 DEF Untouched, Kept, N0
<1>10. HistoryInv
  BY <1>1, <1>4, <1>6, <1>8, <1>9 DEF HistoryInv, HistoryBy
<1>11. PastOf(snap) = <<>>
  <2>1. PastOf(snap) = Behind(snap, T)
    BY <1>8, HistoryIs
  <2>2. At(snap) - 1 = 0
    BY <1>2, <1>7 DEF At
  <2> QED
    BY <2>1, <2>2, UnitTextsStep DEF Behind
<1>12. FutureOf(snap) = <<>>
  BY <1>7 DEF FutureOf
<1> QED
  BY <1>2, <1>10, <1>11, <1>12 DEF History!Init

LEMMA NextHistory ==
  ASSUME NoRedo, OneStep, Forgets, TypeOK, UndoInv, UndoInv', HistoryInv, MCNext
  PROVE  HistoryInv' /\ [History!Next]_(History!vars)
<1>1. Next /\ snap' = IF pc' = "idle" THEN [text |-> text', recs |-> recs', ptr |-> ptr'] ELSE snap
  BY DEF MCNext
<1>2. snap' = snap => [History!Next]_(History!vars)
  BY DEF History!vars
<1>3. ASSUME NEW k \in Kinds, Begin(k) PROVE snap' = snap /\ HistoryInv'
  <2>1. snap' = snap
    BY <1>1, <1>3 DEF Begin
  <2> QED
    BY <1>3, <2>1, BeginHistory
<1>4. ASSUME NEW p \in 0 .. MaxText, NEW s \in Chunk, Insert(p, s) PROVE snap' = snap /\ HistoryInv'
  <2>1. snap' = snap
    BY <1>1, <1>4 DEF Insert, Step
  <2> QED
    BY <1>4, <2>1, InsertHistory
<1>5. ASSUME NEW p \in 0 .. MaxText, NEW n \in 1 .. MaxText, Delete(p, n)
      PROVE  snap' = snap /\ HistoryInv'
  <2>1. snap' = snap
    BY <1>1, <1>5 DEF Delete, Step
  <2> QED
    BY <1>5, <2>1, DeleteHistory
<1>6. ASSUME NEW own \in BOOLEAN, Save(own) PROVE snap' = snap /\ HistoryInv'
  <2>1. snap' = snap
    BY <1>1, <1>6 DEF Save, Step
  <2> QED
    BY <1>6, <2>1, SaveHistory
<1>7. ASSUME Undo PROVE snap' = snap /\ HistoryInv'
  <2>1. pc' # "idle"
    BY <1>7 DEF Undo, Step
  <2>2. snap' = snap
    BY <1>1, <2>1
  <2> QED
    BY <1>7, <2>2, UndoBegins
<1>8. ~Redo
  BY DEF Redo, May, NoRedo, TypeOK
<1>9. ASSUME unotmod PROVE snap' = snap /\ HistoryInv'
  <2>1. snap' = snap
    BY <1>1, <1>9 DEF unotmod, Step
  <2> QED
    BY <1>9, <2>1, UnotmodHistory
<1>10. ASSUME UndoRec PROVE snap' = snap /\ HistoryInv'
  <2>1. pc' # "idle"
    BY <1>10 DEF UndoRec
  <2>2. snap' = snap
    BY <1>1, <2>1
  <2> QED
    BY <1>10, <2>2, UndoRecHistory
<1>11. ~RedoRec
  BY DEF RedoRec, UndoInv
<1>12. ASSUME End PROVE HistoryInv' /\ [History!Next]_(History!vars)
  <2>1. pc' = "idle"
    BY <1>12 DEF End, undomark, undogc, UndoInv
  <2>2. snap' = [text |-> text', recs |-> recs', ptr |-> ptr']
    BY <1>1, <2>1
  <2>3. HistoryInv' /\ Lasts(snap, snap')
    BY <1>12, <2>2, EndHistory
  <2> QED
    BY <2>3, HistoryAllows
<1> QED
  BY <1>1, <1>2, <1>3, <1>4, <1>5, <1>6, <1>7, <1>8, <1>9, <1>10, <1>11, <1>12
  DEF Next, Internal

(* Without redo, and when a typing or an undo command makes one change:    *)
(* undo gives back, one command's changes at a time, every text the user   *)
(* has had since the oldest unit that is kept, the texts undone and then   *)
(* left behind among them, and it forgets only the oldest (undo.c, uundo,  *)
(* undomark and undogc).                                                   *)
THEOREM HistoryKept ==
  ASSUME NoRedo, OneStep, Forgets
  PROVE  MCSpec => ImplementsHistory
<1>1. MCInit => HistoryInv /\ History!Init
  BY InitHistory
<1>2. TypeOK /\ UndoInv /\ UndoInv' /\ HistoryInv /\ [MCNext]_mcvars
        => HistoryInv' /\ [History!Next]_(History!vars)
  <2> SUFFICES ASSUME TypeOK, UndoInv, UndoInv', HistoryInv, [MCNext]_mcvars
               PROVE  HistoryInv' /\ [History!Next]_(History!vars)
    OBVIOUS
  <2>1. CASE MCNext
    BY <2>1, NextHistory
  <2>2. CASE UNCHANGED mcvars
    <3>1. UNCHANGED <<text, recs, ptr, first, pc, kind, steps, upto, snap>>
      BY <2>2 DEF mcvars, vars, undoVars, loopVars
    <3>2. PICK T0, T : HistoryBy(T0, T)
      BY DEF HistoryInv
    <3>3. HistoryBy(T0, T)'
      BY <3>1, <3>2 DEF HistoryBy, Untouched, Changed, Typed, Reverting, Kept, N0, Resting,
                        LastStart, Place
    <3>4. UNCHANGED History!vars
      BY <3>1 DEF History!vars
    <3> QED
      BY <3>3, <3>4 DEF HistoryInv
  <2> QED
    BY <2>1, <2>2
<1>3. MCInit => Init
  BY DEF MCInit
<1>4. [MCNext]_mcvars => [Next]_vars
  BY DEF MCNext, mcvars
<1>5. Spec => [](TypeOK /\ UndoInv)
  BY UndoInvariant
<1> QED
  BY <1>1, <1>2, <1>3, <1>4, <1>5, PTL DEF MCSpec, Spec, ImplementsHistory, History!Spec
=============================================================================
