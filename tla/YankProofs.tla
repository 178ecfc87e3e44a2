----------------------------- MODULE YankProofs -----------------------------
(***************************************************************************)
(* Killed text, proved for every text, every limit of the ring and any     *)
(* number of commands: kills in a row come back as the text that was there *)
(* before the first of them, and a yankpop leaves the text as if the older *)
(* record had been yanked.                                                 *)
(*                                                                         *)
(* The module first has what cutting and putting back do to a sequence,    *)
(* then the invariant that ties the newest record, the cursor and the text *)
(* together, then one lemma per kind of command.                           *)
(***************************************************************************)
EXTENDS Yank, SequenceTheorems, WellFoundedInduction, TLAPS

----------------------------------------------------------------------------
(* Sequences: cutting in two, cutting out, putting in.                     *)

(* A sequence cut after its i-th element is the two parts in a row.        *)
LEMMA Halved ==
  ASSUME NEW S, NEW s \in Seq(S), NEW i \in 0 .. Len(s)
  PROVE  /\ SubSeq(s, 1, i) \in Seq(S) /\ Len(SubSeq(s, 1, i)) = i
         /\ SubSeq(s, i + 1, Len(s)) \in Seq(S)
         /\ Len(SubSeq(s, i + 1, Len(s))) = Len(s) - i
         /\ SubSeq(s, 1, i) \o SubSeq(s, i + 1, Len(s)) = s
<1>1. Len(s) \in Nat
  BY LenProperties
<1>2. \A k \in 1 .. Len(s) : s[k] \in S
  BY ElementOfSeq
<1>3. SubSeq(s, 1, i) \in Seq(S) /\ Len(SubSeq(s, 1, i)) = i
  BY <1>1, <1>2, SubSeqProperties
<1>4. SubSeq(s, i + 1, Len(s)) \in Seq(S) /\ Len(SubSeq(s, i + 1, Len(s))) = Len(s) - i
  BY <1>1, <1>2, SubSeqProperties
<1>5. SubSeq(s, 1, i) \o SubSeq(s, i + 1, Len(s)) = SubSeq(s, 1, Len(s))
  <2>1. 1 \in 1 .. Len(s) + 1 /\ i \in 1 - 1 .. Len(s) /\ Len(s) \in i .. Len(s)
    BY <1>1
  <2> QED
    BY <2>1, ConcatAdjacentSubSeq
<1> QED
  BY <1>3, <1>4, <1>5, SubSeqFull

(* Two sequences in a row, cut where they meet, are the two again.         *)
LEMMA Rejoined ==
  ASSUME NEW S, NEW a \in Seq(S), NEW b \in Seq(S)
  PROVE  /\ SubSeq(a \o b, 1, Len(a)) = a
         /\ SubSeq(a \o b, Len(a) + 1, Len(a \o b)) = b
<1> DEFINE ab == a \o b
<1>1. /\ ab \in Seq(S) /\ Len(ab) = Len(a) + Len(b)
      /\ \A k \in 1 .. Len(a) + Len(b) : ab[k] = IF k <= Len(a) THEN a[k] ELSE b[k - Len(a)]
  BY ConcatProperties
<1>2. Len(a) \in Nat /\ Len(b) \in Nat
  BY LenProperties
<1> HIDE DEF ab
<1>3. Len(a) \in 0 .. Len(ab)
  BY <1>1, <1>2
<1> DEFINE l == SubSeq(ab, 1, Len(a))
           r == SubSeq(ab, Len(a) + 1, Len(ab))
<1>4. /\ l \in Seq(S) /\ Len(l) = Len(a) /\ r \in Seq(S) /\ Len(r) = Len(ab) - Len(a)
  BY <1>1, <1>3, Halved
<1>5. \A k \in 1 .. Len(ab) : ab[k] \in S
  BY <1>1, ElementOfSeq
<1>6. \A k \in 1 .. Len(a) - 1 + 1 : l[k] = ab[1 + k - 1]
  BY <1>1, <1>2, <1>5, SubSeqProperties
<1>7. \A k \in 1 .. Len(ab) - (Len(a) + 1) + 1 : r[k] = ab[Len(a) + 1 + k - 1]
  BY <1>1, <1>2, <1>5, SubSeqProperties
<1> HIDE DEF l, r
<1>8. l = a
  <2>1. \A k \in 1 .. Len(l) : l[k] = a[k]
    BY <1>1, <1>2, <1>4, <1>6
  <2> QED
    BY <2>1, <1>4, SeqEqual
<1>9. r = b
  <2>2. Len(r) = Len(b)
    BY <1>1, <1>2, <1>4
  <2>1. ASSUME NEW k \in 1 .. Len(r) PROVE r[k] = b[k]
    <3>1. k \in Nat \ {0} /\ k <= Len(b) /\ Len(ab) - (Len(a) + 1) + 1 = Len(b)
      BY <1>1, <1>2, <2>2
    <3>2. r[k] = ab[Len(a) + 1 + k - 1]
      BY <3>1, <1>7
    <3>3. Len(a) + 1 + k - 1 = Len(a) + k /\ Len(a) + k - Len(a) = k
      BY <3>1, <1>2
    <3>4. Len(a) + k \in 1 .. Len(a) + Len(b) /\ ~(Len(a) + k <= Len(a))
      BY <3>1, <1>2
    <3> QED
      BY <3>2, <3>3, <3>4, <1>1
  <2> QED
    BY <2>1, <2>2, <1>4, SeqEqual
<1> QED
  BY <1>8, <1>9 DEF l, r, ab

(* One element and another.                                                *)
LEMMA TwoInARow ==
  ASSUME NEW a, NEW b
  PROVE  <<a>> \o <<b>> = <<a, b>>
<1> DEFINE S == {a, b}
           l == <<a>> \o <<b>>
           r == <<a, b>>
<1>1. <<a>> \in Seq(S) /\ <<b>> \in Seq(S) /\ Len(<<a>>) = 1 /\ Len(<<b>>) = 1
  OBVIOUS
<1>2. r \in Seq(S) /\ Len(r) = 2 /\ r[1] = a /\ r[2] = b
  OBVIOUS
<1> HIDE DEF S, r
<1>3. /\ l \in Seq(S) /\ Len(l) = Len(<<a>>) + Len(<<b>>)
      /\ \A i \in 1 .. Len(<<a>>) + Len(<<b>>) :
           l[i] = IF i <= Len(<<a>>) THEN <<a>>[i] ELSE <<b>>[i - Len(<<a>>)]
  BY <1>1, ConcatProperties
<1> HIDE DEF l
<1>4. Len(l) = 2 /\ l[1] = a /\ l[2] = b
  BY <1>1, <1>3
<1>5. \A i \in 1 .. Len(l) : l[i] = r[i]
  <2>1. \A i \in 1 .. 2 : i = 1 \/ i = 2
    OBVIOUS
  <2> QED
    BY <2>1, <1>2, <1>4
<1>6. l = r
  BY <1>2, <1>3, <1>4, <1>5, SeqEqual
<1> QED
  BY <1>6 DEF l, r

(* Three sequences in a row may be joined from either end. The equation is *)
(* an operator so that a proof may pass it on without looking into it.     *)
Regrouped(u, v, w) == (u \o v) \o w = u \o (v \o w)

LEMMA Regroup ==
  ASSUME NEW S, NEW u \in Seq(S), NEW v \in Seq(S), NEW w \in Seq(S)
  PROVE  Regrouped(u, v, w)
  BY SMT DEF Regrouped

(* A text with something put in, in its three parts.                       *)
Spliced(s, i, x) ==
  With(s, i, x) = SubSeq(s, 1, i) \o (x \o SubSeq(s, i + 1, Len(s)))

LEMMA WithIn ==
  ASSUME NEW S, NEW s \in Seq(S), NEW i \in 0 .. Len(s), NEW x \in Seq(S)
  PROVE  /\ With(s, i, x) \in Seq(S) /\ Len(With(s, i, x)) = Len(s) + Len(x)
         /\ Spliced(s, i, x)
<1> DEFINE a == SubSeq(s, 1, i)
           b == SubSeq(s, i + 1, Len(s))
<1>1. a \in Seq(S) /\ b \in Seq(S) /\ Len(a) = i /\ Len(b) = Len(s) - i
  BY Halved
<1>2. With(s, i, x) = (a \o x) \o b
  BY DEF With
<1>8. a \in Seq(S) /\ b \in Seq(S)
  BY <1>1
<1> HIDE DEF a, b
<1>3. (a \o x) \o b = a \o (x \o b)
  <2>1. Regrouped(a, x, b)
    BY <1>8, Regroup
  <2> QED
    BY <2>1 DEF Regrouped
<1>4. x \o b \in Seq(S) /\ Len(x \o b) = Len(x) + Len(b)
  BY <1>1, ConcatProperties
<1>5. a \o (x \o b) \in Seq(S) /\ Len(a \o (x \o b)) = Len(a) + Len(x \o b)
  BY <1>1, <1>4, ConcatProperties
<1>6. Len(s) \in Nat /\ Len(x) \in Nat
  BY LenProperties
<1>7. i + (Len(x) + (Len(s) - i)) = Len(s) + Len(x)
  BY <1>6
<1>9. With(s, i, x) = a \o (x \o b)
  BY <1>2, <1>3, Zenon
<1>10. With(s, i, x) \in Seq(S) /\ Len(With(s, i, x)) = Len(a) + (Len(x) + Len(b))
  BY <1>4, <1>5, <1>9, Zenon
<1>11. Len(With(s, i, x)) = Len(s) + Len(x)
  BY <1>1, <1>7, <1>10
<1>12. Spliced(s, i, x)
  BY <1>9, Zenon DEF Spliced, a, b
<1> QED
  BY <1>10, <1>11, <1>12

(* Two texts in a row with something put in where they meet.               *)
LEMMA Between ==
  ASSUME NEW S, NEW a \in Seq(S), NEW b \in Seq(S), NEW x \in Seq(S)
  PROVE  With(a \o b, Len(a), x) = a \o (x \o b)
<1>1. With(a \o b, Len(a), x) = (a \o x) \o b
  BY Rejoined DEF With
<1>2. Regrouped(a, x, b)
  BY Regroup
<1> QED
  BY <1>1, <1>2, Zenon DEF Regrouped

(* A text in the three parts that a deletion sees.                         *)
LEMMA Parts ==
  ASSUME NEW S, t \in Seq(S), NEW i \in 0 .. Len(t), NEW j \in i .. Len(t)
  PROVE  /\ Cut(0, i) \in Seq(S) /\ Cut(i, j) \in Seq(S) /\ Cut(j, Len(t)) \in Seq(S)
         /\ Len(Cut(0, i)) = i /\ Len(Cut(i, j)) = j - i /\ Len(Cut(j, Len(t))) = Len(t) - j
         /\ t = Cut(0, i) \o (Cut(i, j) \o Cut(j, Len(t)))
         /\ Without(i, j) \in Seq(S) /\ Len(Without(i, j)) = Len(t) - (j - i)
<1>1. Len(t) \in Nat
  BY LenProperties
<1>2. j \in 0 .. Len(t) /\ i \in Nat /\ j \in Nat /\ 0 + 1 = 1
  BY <1>1
<1>3. /\ Cut(0, i) = SubSeq(t, 1, i) /\ Cut(i, j) = SubSeq(t, i + 1, j)
      /\ Cut(j, Len(t)) = SubSeq(t, j + 1, Len(t))
  BY <1>2 DEF Cut
<1> DEFINE a == SubSeq(t, 1, i)
           x == SubSeq(t, i + 1, j)
           b == SubSeq(t, j + 1, Len(t))
           y == SubSeq(t, i + 1, Len(t))
<1>4. a \in Seq(S) /\ Len(a) = i /\ a \o y = t
  BY Halved
<1>5. b \in Seq(S) /\ Len(b) = Len(t) - j
  BY <1>2, Halved
<1>6. x \in Seq(S) /\ Len(x) = j - i
  <2>1. \A k \in i + 1 .. j : t[k] \in S
    BY <1>1, <1>2, ElementOfSeq
  <2> QED
    BY <1>1, <1>2, <2>1, SubSeqProperties
<1>7. x \o b = y
  <2> HIDE DEF a
  <2> DEFINE m == i + 1
  <2>1. m \in 1 .. Len(t) + 1
    BY <1>1, <1>2
  <2>2. j \in m - 1 .. Len(t)
    BY <1>1, <1>2
  <2>3. Len(t) \in j .. Len(t)
    BY <1>1, <1>2
  <2> HIDE DEF m
  <2>4. SubSeq(t, m, j) \o SubSeq(t, j + 1, Len(t)) = SubSeq(t, m, Len(t))
    BY <2>1, <2>2, <2>3, ConcatAdjacentSubSeq
  <2> QED
    BY <2>4 DEF m
<1>8. Without(i, j) = a \o b
  BY <1>3 DEF Without
<1> HIDE DEF a, x, b, y
<1>9. a \o b \in Seq(S) /\ Len(a \o b) = i + (Len(t) - j)
  BY <1>4, <1>5, ConcatProperties
<1>10. i + (Len(t) - j) = Len(t) - (j - i)
  BY <1>1, <1>2
<1>11. Cut(0, i) = a /\ Cut(i, j) = x /\ Cut(j, Len(t)) = b
  BY <1>3 DEF a, x, b
<1> QED
  BY <1>4, <1>5, <1>6, <1>7, <1>8, <1>9, <1>10, <1>11


(* What was cut out, put back where it was, gives the text again.          *)
LEMMA PutBack ==
  ASSUME NEW S, t \in Seq(S), NEW i \in 0 .. Len(t), NEW j \in i .. Len(t)
  PROVE  With(Without(i, j), i, Cut(i, j)) = t
<1> DEFINE a == Cut(0, i)
           x == Cut(i, j)
           b == Cut(j, Len(t))
<1>1. /\ a \in Seq(S) /\ x \in Seq(S) /\ b \in Seq(S) /\ Len(a) = i /\ t = a \o (x \o b)
  BY Parts
<1>2. Without(i, j) = a \o b
  BY DEF Without
<1> HIDE DEF a, x, b
<1>3. With(a \o b, Len(a), x) = a \o (x \o b)
  BY <1>1, Between
<1> QED
  BY <1>1, <1>2, <1>3 DEF x

(* What is cut out behind a place where d belongs goes behind d.           *)
LEMMA PutBackBehind ==
  ASSUME NEW S, t \in Seq(S), NEW i \in 0 .. Len(t), NEW j \in i .. Len(t), NEW d \in Seq(S)
  PROVE  With(Without(i, j), i, d \o Cut(i, j)) = With(t, i, d)
<1> DEFINE a == Cut(0, i)
           x == Cut(i, j)
           b == Cut(j, Len(t))
           dx == d \o x
           xb == x \o b
<1>1. a \in Seq(S) /\ x \in Seq(S) /\ b \in Seq(S)
  BY Parts
<1>2. Len(a) = i /\ t = a \o xb
  BY Parts
<1>3. Without(i, j) = a \o b
  BY DEF Without
<1> HIDE DEF a, x, b
<1>4. dx \in Seq(S) /\ xb \in Seq(S)
  BY <1>1, ConcatProperties
<1> HIDE DEF dx, xb
<1>5. dx \o b = d \o xb
  <2>1. Regrouped(d, x, b)
    BY <1>1, Regroup
  <2> QED
    BY <2>1, Zenon DEF Regrouped, dx, xb
<1>6. With(a \o b, Len(a), dx) = a \o (dx \o b)
  BY <1>1, <1>4, Between
<1>7. With(a \o xb, Len(a), d) = a \o (d \o xb)
  BY <1>1, <1>4, Between
<1> QED
  BY <1>2, <1>3, <1>5, <1>6, <1>7 DEF x, dx

(* What is cut out before it goes before d.                                *)
LEMMA PutBackBefore ==
  ASSUME NEW S, t \in Seq(S), NEW i \in 0 .. Len(t), NEW j \in i .. Len(t), NEW d \in Seq(S)
  PROVE  With(Without(i, j), i, Cut(i, j) \o d) = With(t, j, d)
<1> DEFINE a == Cut(0, i)
           x == Cut(i, j)
           b == Cut(j, Len(t))
           xd == x \o d
           ax == a \o x
           db == d \o b
<1>1. a \in Seq(S) /\ x \in Seq(S) /\ b \in Seq(S)
  BY Parts
<1>2. Len(a) = i /\ Len(x) = j - i /\ t = a \o (x \o b)
  BY Parts
<1>3. Without(i, j) = a \o b
  BY DEF Without
<1>4. i + (j - i) = j
  BY LenProperties
<1> HIDE DEF a, x, b
<1>5. xd \in Seq(S) /\ ax \in Seq(S) /\ db \in Seq(S)
  BY <1>1, ConcatProperties
<1>6. Len(ax) = Len(a) + Len(x)
  BY <1>1, ConcatProperties
<1> HIDE DEF xd, ax, db
<1>7. ax \o b = a \o (x \o b)
  <2>1. Regrouped(a, x, b)
    BY <1>1, Regroup
  <2> QED
    BY <2>1, Zenon DEF Regrouped, ax
<1>8. xd \o b = x \o db
  <2>1. Regrouped(x, d, b)
    BY <1>1, Regroup
  <2> QED
    BY <2>1, Zenon DEF Regrouped, xd, db
<1>9. ax \o db = a \o (x \o db)
  <2>1. Regrouped(a, x, db)
    BY <1>1, <1>5, Regroup
  <2> QED
    BY <2>1, Zenon DEF Regrouped, ax
<1>10. With(a \o b, Len(a), xd) = a \o (xd \o b)
  <2>1. \A y \in Seq(S) : With(a \o b, Len(a), y) = a \o (y \o b)
    BY <1>1, Between
  <2> QED
    BY <2>1, <1>5
<1>11. With(ax \o b, Len(ax), d) = ax \o db
  BY <1>1, <1>5, Between DEF db
<1>12. ax \o b = t /\ Len(ax) = j
  BY <1>2, <1>4, <1>6, <1>7
<1> QED
  BY <1>2, <1>3, <1>8, <1>9, <1>10, <1>11, <1>12 DEF x, xd

(* What was put into s, cut out again, gives s.                            *)
LEMMA TakenOut ==
  ASSUME NEW S, t \in Seq(S), NEW s \in Seq(S), NEW i \in 0 .. Len(s), NEW x \in Seq(S),
         t = With(s, i, x)
  PROVE  Without(i, i + Len(x)) = s
<1> DEFINE a == SubSeq(s, 1, i)
           b == SubSeq(s, i + 1, Len(s))
           xb == x \o b
           ax == a \o x
<1>1. a \in Seq(S) /\ b \in Seq(S)
  BY Halved
<1>2. Len(a) = i /\ a \o b = s
  BY Halved
<1>3. t = a \o xb
  <2>1. Spliced(s, i, x)
    BY WithIn
  <2> QED
    BY <2>1, Zenon DEF Spliced
<1> HIDE DEF a, b
<1>4. xb \in Seq(S) /\ ax \in Seq(S)
  BY <1>1, ConcatProperties
<1>5. Len(ax) = i + Len(x)
  BY <1>1, <1>2, ConcatProperties
<1> HIDE DEF xb, ax
<1>6. ax \o b = a \o xb
  <2>1. Regrouped(a, x, b)
    BY <1>1, Regroup
  <2> QED
    BY <2>1, Zenon DEF Regrouped, ax, xb
<1>7. SubSeq(a \o xb, 1, Len(a)) = a
  BY <1>1, <1>4, Rejoined
<1>8. SubSeq(ax \o b, Len(ax) + 1, Len(ax \o b)) = b
  BY <1>1, <1>4, Rejoined
<1>9. SubSeq(t, 1, i) = a /\ SubSeq(t, i + Len(x) + 1, Len(t)) = b
  BY <1>2, <1>3, <1>5, <1>6, <1>7, <1>8
<1>10. Cut(0, i) = SubSeq(t, 1, i)
  <2>1. 0 + 1 = 1
    OBVIOUS
  <2> QED
    BY <2>1 DEF Cut
<1>11. Cut(0, i) = a /\ Cut(i + Len(x), Len(t)) = b
  BY <1>9, <1>10 DEF Cut
<1> QED
  BY <1>2, <1>11 DEF Without

----------------------------------------------------------------------------
(* Numbers.                                                                *)

(* A set of numbers that is not empty has a least one: an order without    *)
(* endless descents has minimal elements.                                  *)
LEMMA LeastNumber ==
  ASSUME NEW T \in SUBSET Nat, T # {}
  PROVE  \E m \in T : \A k \in T : m <= k
<1> DEFINE R == {ss \in Nat \X Nat : ss[1] < ss[2]}
<1>1. IsWellFoundedOn(R, Nat)
  BY NatLessThanWellFounded DEF OpToRel
<1> HIDE DEF R
<1>2. \E x \in T : \A y \in T : ~ (<<y, x>> \in R)
  BY <1>1, WFMin
<1>3. PICK x \in T : \A y \in T : ~ (<<y, x>> \in R)
  BY <1>2
<1>4. \A y \in T : ~(y < x)
  <2>1. SUFFICES ASSUME NEW y \in T, y < x PROVE FALSE
    BY <2>1
  <2>2. <<y, x>> \in R
    BY <2>1 DEF R
  <2> QED
    BY <2>2, <1>3
<1>5. \A y \in T : x <= y
  BY <1>4
<1> QED
  BY <1>5

(* What lies ahead of the cursor ends somewhere: at the end of the text at *)
(* the latest, which is no member of S.                                    *)
LEMMA AheadIsPlace ==
  ASSUME t \in Seq(Letters), c \in 0 .. Len(t), NEW S, "eof" \notin S
  PROVE  Ahead(S) \in c .. Len(t)
<1> DEFINE T == {i \in c .. Len(t) : Kind(i) \notin S}
<1>1. Len(t) \in Nat
  BY LenProperties
<1>2. Kind(Len(t)) = "eof"
  BY <1>1 DEF Kind, At
<1>3. T \in SUBSET Nat /\ T # {}
  <2>1. Len(t) \in T
    BY <1>1, <1>2
  <2> QED
    BY <2>1, <1>1
<1>4. PICK m \in T : \A k \in T : m <= k
  BY <1>3, LeastNumber
<1>5. m \in c .. Len(t) /\ Kind(m) \notin S
  BY <1>4
<1>6. \A k \in c .. m - 1 : Kind(k) \in S
  <2>1. SUFFICES ASSUME NEW k \in c .. m - 1, Kind(k) \notin S PROVE FALSE
    BY <2>1
  <2>2. k \in T /\ ~(m <= k)
    BY <2>1, <1>1, <1>5
  <2> QED
    BY <2>2, <1>4
<1> QED
  BY <1>5, <1>6 DEF Ahead

----------------------------------------------------------------------------
(* The invariant.                                                          *)

Killed    == Seq(Letters) \ {<<>>}
Record    == [where : Nat, data : Killed]
Places(n) == {NULL} \cup 0 .. n

(* The texts and places are such, and no record is empty.                  *)
YankTypes ==
  /\ t \in Seq(Letters) /\ c \in 0 .. Len(t)
  /\ markb \in Places(Len(t)) /\ markk \in Places(Len(t))
  /\ ring \in Seq(Record) /\ yankwhere \in {NULL} \cup Nat
  /\ yankwhere # NULL => ring # <<>>

(* The newest record put back where it is from gives the text from before  *)
(* the row of kills.                                                       *)
RowKept ==
  row # None =>
    /\ justkilled /\ ring # <<>> /\ Newest.where <= Len(t)
    /\ With(t, Newest.where, Newest.data) = row.t

(* After a yank or a yankpop the newest record is what it put in, and the  *)
(* cursor is behind it.                                                    *)
YankKept ==
  yanking # None =>
    /\ ring # <<>> /\ yanking.t \in Seq(Letters) /\ yanking.c \in 0 .. Len(yanking.t)
    /\ t = With(yanking.t, yanking.c, Newest.data)
    /\ c = yanking.c + Len(Newest.data) /\ yankwhere = c

(* What an undo of the latest command would take away is in the text.      *)
Inserts(i, x) == last = <<Ins(i, x)>> \/ \E y \in Killed : last = <<Del(i, y), Ins(i, x)>>
UndoKept ==
  last # <<>> => \E i \in Nat, x \in Killed : Inserts(i, x) /\ i + Len(x) <= Len(t)

YankInv == YankTypes /\ RowKept /\ YankKept /\ UndoKept

----------------------------------------------------------------------------
(* What the operators do to the state of the invariant.                    *)

(* A text of killed letters has a length.                                  *)
LEMMA KilledLen ==
  ASSUME NEW x \in Killed
  PROVE  x \in Seq(Letters) /\ Len(x) \in Nat /\ Len(x) > 0
BY EmptySeq, LenProperties DEF Killed

(* A piece of the text that is not empty is a killed text.                 *)
LEMMA CutKilled ==
  ASSUME t \in Seq(Letters), NEW i \in 0 .. Len(t), NEW j \in 0 .. Len(t), i < j
  PROVE  Cut(i, j) \in Killed /\ Len(Cut(i, j)) = j - i
<1>1. Len(t) \in Nat
  BY LenProperties
<1>2. j \in i .. Len(t)
  BY <1>1
<1>3. Cut(i, j) \in Seq(Letters) /\ Len(Cut(i, j)) = j - i
  BY <1>2, Parts
<1>4. Len(<<>>) = 0 /\ j - i # 0
  BY <1>1
<1> QED
  BY <1>3, <1>4 DEF Killed

(* The newest record is one of the ring.                                   *)
LEMMA NewestRecord ==
  ASSUME ring \in Seq(Record), ring # <<>>
  PROVE  /\ Newest \in Record /\ Newest.where \in Nat /\ Newest.data \in Killed
         /\ Len(ring) \in Nat \ {0} /\ Len(ring) \in 1 .. Len(ring)
<1>1. Len(ring) \in Nat \ {0}
  BY EmptySeq
<1>2. Newest \in Record
  BY <1>1, ElementOfSeq DEF Newest
<1> QED
  BY <1>1, <1>2 DEF Record

(* Text on the ring: it is in the newest record.                           *)
LEMMA FedRing ==
  ASSUME ring \in Seq(Record), NEW where \in Nat, NEW x \in Killed
  PROVE  /\ Fed(where, x) \in Seq(Record) /\ Fed(where, x) # <<>>
         /\ Fed(where, x)[Len(Fed(where, x))] =
              IF Joins(where, Len(x)) THEN Joined(Newest, where, x)
              ELSE [where |-> where, data |-> x]
<1> DEFINE f == Fed(where, x)
           new == [where |-> where, data |-> x]
<1>1. new \in Record
  BY DEF Record
<1>2. CASE Joins(where, Len(x))
  <2>1. ring # <<>>
    BY <1>2 DEF Joins
  <2>2. /\ Newest \in Record /\ Newest.where \in Nat /\ Newest.data \in Killed
        /\ Len(ring) \in Nat \ {0} /\ Len(ring) \in 1 .. Len(ring)
    BY <2>1, NewestRecord
  <2>3. Joined(Newest, where, x) \in Record
    <3>1. x \in Seq(Letters) /\ Newest.data \in Seq(Letters) /\ x # <<>>
      BY <2>2 DEF Killed
    <3>2. Newest.data \o x \in Killed
      BY <3>1, ConcatProperties, ConcatEqualIffEmpty DEF Killed
    <3>3. x \o Newest.data \in Killed
      BY <3>1, ConcatProperties, ConcatEqualIffEmpty DEF Killed
    <3> QED
      BY <2>2, <3>2, <3>3 DEF Joined, Record
  <2>4. f = [ring EXCEPT ![Len(ring)] = Joined(Newest, where, x)]
    BY <1>2, <2>2, LenProperties DEF Fed, Newest
  <2>5. f \in Seq(Record) /\ Len(f) = Len(ring) /\ f[Len(ring)] = Joined(Newest, where, x)
    <3> DEFINE e == Joined(Newest, where, x)
               n == Len(ring)
    <3> HIDE DEF e, n
    <3>1. e \in Record /\ n \in 1 .. Len(ring)
      BY <2>2, <2>3 DEF e, n
    <3>2. /\ [ring EXCEPT ![n] = e] \in Seq(Record) /\ Len([ring EXCEPT ![n] = e]) = Len(ring)
          /\ [ring EXCEPT ![n] = e][n] = e
      BY <3>1, ExceptSeq
    <3> QED
      BY <2>4, <3>2 DEF e, n
  <2>6. f # <<>>
    BY <2>2, <2>5
  <2> QED
    BY <1>2, <2>5, <2>6
<1>3. CASE ~Joins(where, Len(x))
  <2> DEFINE old == IF Len(ring) + 1 = Limit THEN Tail(ring) ELSE ring
  <2>1. f = Append(old, new)
    BY <1>3 DEF Fed, Enqueued
  <2>2. old \in Seq(Record)
    <3>1. CASE Len(ring) + 1 = Limit
      <4>1. ring # <<>>
        BY <3>1, YankAssumption
      <4> QED
        BY <3>1, <4>1, HeadTailProperties
    <3>2. CASE Len(ring) + 1 # Limit
      BY <3>2
    <3> QED
      BY <3>1, <3>2
  <2> HIDE DEF old, new
  <2>3. /\ Append(old, new) \in Seq(Record) /\ Append(old, new) # <<>>
        /\ Append(old, new)[Len(Append(old, new))] = new
    BY <1>1, <2>2, AppendProperties
  <2> QED
    BY <1>3, <2>1, <2>3 DEF new
<1> QED
  BY <1>2, <1>3

(* Places before and after an insertion and a deletion.                    *)
LEMMA PushedPlace ==
  ASSUME NEW n \in Nat, NEW p \in Places(n), NEW i \in Nat, NEW k \in Nat
  PROVE  Pushed(p, i, k) \in Places(n + k)
BY DEF Places, Pushed, NULL
LEMMA PulledPlace ==
  ASSUME NEW n \in Nat, NEW p \in Places(n), NEW i \in 0 .. n, NEW j \in i .. n
  PROVE  Pulled(p, i, j) \in Places(n - (j - i))
BY DEF Places, Pulled, NULL

----------------------------------------------------------------------------
(* The commands.                                                           *)

(* A kill: the row goes on or begins anew.                                 *)
LEMMA KillStep ==
  ASSUME YankInv, NEW i \in 0 .. Len(t), NEW j \in 0 .. Len(t), Kill(i, j)
  PROVE  YankInv'
<1> USE DEF YankInv
<1>1. justkilled' = TRUE /\ yankwhere' = yankwhere /\ last' = <<>> /\ yanking' = None
  BY DEF Kill, Ends
<1>2. CASE i >= j
  <2>1. t' = t /\ c' = c /\ markb' = markb /\ markk' = markk /\ ring' = ring /\ row' = row
    BY <1>2 DEF Kill, places
  <2>2. YankTypes'
    BY <1>1, <2>1 DEF YankTypes
  <2>3. RowKept'
    BY <1>1, <2>1 DEF RowKept, Newest
  <2> QED
    BY <1>1, <2>2, <2>3 DEF YankKept, UndoKept
<1>3. CASE ~(i >= j)
  <2> DEFINE x == Cut(i, j)
  <2>1. /\ t' = Without(i, j) /\ c' = Pulled(c, i, j)
        /\ markb' = Pulled(markb, i, j) /\ markk' = Pulled(markk, i, j)
        /\ ring' = Fed(i, x) /\ row' = Row(i, x)
    BY <1>3 DEF Kill
  <2>2. t \in Seq(Letters) /\ Len(t) \in Nat /\ i \in Nat /\ j \in i .. Len(t) /\ i < j
    BY <1>3, LenProperties DEF YankTypes
  <2>3. x \in Killed /\ Len(x) = j - i
    BY <2>2, CutKilled
  <2>4. t' \in Seq(Letters) /\ Len(t') = Len(t) - (j - i)
    BY <2>1, <2>2, Parts
  <2>5. /\ ring' \in Seq(Record) /\ ring' # <<>>
        /\ Newest' = IF Joins(i, Len(x)) THEN Joined(Newest, i, x)
                     ELSE [where |-> i, data |-> x]
    <3>1. ring \in Seq(Record)
      BY DEF YankTypes
    <3> HIDE DEF x, YankInv
    <3>2. /\ Fed(i, x) \in Seq(Record) /\ Fed(i, x) # <<>>
          /\ Fed(i, x)[Len(Fed(i, x))] =
               IF Joins(i, Len(x)) THEN Joined(Newest, i, x) ELSE [where |-> i, data |-> x]
      BY <2>2, <2>3, <3>1, FedRing
    <3>3. Newest' = ring'[Len(ring')]
      BY DEF Newest
    <3> QED
      BY <2>1, <3>2, <3>3
  <2> HIDE DEF x
  <2>6. YankTypes'
    <3>1. c' \in 0 .. Len(t')
      BY <2>1, <2>2, <2>4 DEF Pulled, YankTypes
    <3>2. markb' \in Places(Len(t')) /\ markk' \in Places(Len(t'))
      BY <2>1, <2>2, <2>4, PulledPlace DEF YankTypes
    <3> QED
      BY <1>1, <2>4, <2>5, <3>1, <3>2 DEF YankTypes
  <2>7. RowKept'
    <3>1. i <= Len(t')
      BY <2>2, <2>4
    <3>2. CASE ~Joins(i, Len(x))
      <4>1. Newest'.where = i /\ Newest'.data = x /\ row'.t = t
        BY <2>1, <2>5, <3>2 DEF Row
      <4>2. With(t', i, x) = t
        BY <2>1, <2>2, PutBack DEF x
      <4> QED
        BY <1>1, <2>5, <3>1, <4>1, <4>2 DEF RowKept, With
    <3>3. CASE Joins(i, Len(x))
      <4>1. row' = row /\ Newest' = Joined(Newest, i, x)
        BY <2>1, <2>5, <3>3 DEF Row
      <4>2. ring # <<>> /\ (i = Newest.where \/ i + Len(x) = Newest.where)
        BY <3>3 DEF Joins
      <4>3. Newest.where \in Nat /\ Newest.data \in Seq(Letters)
        BY <4>2, NewestRecord, KilledLen DEF YankTypes
      <4>4. Newest'.where = i
        BY <4>1, <4>3 DEF Joined
      <4>5. With(t', i, Newest'.data) = With(t, Newest.where, Newest.data)
        <5>1. CASE i = Newest.where
          <6>1. Newest'.data = Newest.data \o x
            BY <4>1, <5>1 DEF Joined
          <6>2. With(t', i, Newest.data \o x) = With(t, i, Newest.data)
            BY <2>1, <2>2, <4>3, PutBackBehind DEF x
          <6> QED
            BY <5>1, <6>1, <6>2
        <5>2. CASE i # Newest.where
          <6>1. Newest'.data = x \o Newest.data
            BY <4>1, <5>2 DEF Joined
          <6>3. Newest.where = j
            BY <2>2, <2>3, <4>2, <5>2
          <6>2. With(t', i, x \o Newest.data) = With(t, j, Newest.data)
            BY <2>1, <2>2, <4>3, PutBackBefore DEF x
          <6> QED
            BY <6>1, <6>2, <6>3
        <5> QED
          BY <5>1, <5>2
      <4> QED
        BY <1>1, <2>5, <3>1, <4>1, <4>4, <4>5 DEF RowKept, With
    <3> QED
      BY <3>2, <3>3
  <2> QED
    BY <1>1, <2>6, <2>7 DEF YankKept, UndoKept
<1> QED
  BY <1>2, <1>3

(* The deletions of uedit.c and ublkdel are kills between two places.      *)
LEMMA KillsStep ==
  ASSUME YankInv, udelch \/ ubacks \/ udelel \/ u_word_delete \/ ublkdel
  PROVE  YankInv'
<1>1. t \in Seq(Letters) /\ c \in 0 .. Len(t) /\ Len(t) \in Nat
  BY LenProperties DEF YankInv, YankTypes
<1>2. Least(c + 1, Len(t)) \in 0 .. Len(t)
  BY <1>1 DEF Least
<1>3. CASE udelch
  <2>1. Kill(c, Least(c + 1, Len(t)))
    BY <1>3 DEF udelch
  <2> QED
    BY <1>1, <1>2, <2>1, KillStep
<1>4. CASE ubacks
  <2>1. Kill(Most(c - 1, 0), c) /\ Most(c - 1, 0) \in 0 .. Len(t)
    BY <1>1, <1>4 DEF ubacks, Most
  <2> QED
    BY <1>1, <2>1, KillStep
<1>5. CASE udelel
  <2>1. Ahead({"letter"}) \in 0 .. Len(t)
    BY <1>1, AheadIsPlace
  <2>2. Most(Ahead({"letter"}), Least(c + 1, Len(t))) \in 0 .. Len(t)
    BY <1>2, <2>1 DEF Most
  <2>3. Kill(c, Most(Ahead({"letter"}), Least(c + 1, Len(t))))
    BY <1>5 DEF udelel
  <2> QED
    BY <1>1, <2>2, <2>3, KillStep
<1>6. CASE u_word_delete
  <2>1. Ahead({Kind(c)} \ {"eof"}) \in 0 .. Len(t)
    BY <1>1, AheadIsPlace
  <2>2. Kill(c, Ahead({Kind(c)} \ {"eof"}))
    BY <1>6 DEF u_word_delete
  <2> QED
    BY <1>1, <2>1, <2>2, KillStep
<1>7. CASE ublkdel
  <2>1. markv => markb \in 0 .. Len(t) /\ markk \in 0 .. Len(t)
    BY <1>1 DEF markv, YankInv, YankTypes, Places, NULL
  <2>2. CASE markv
    <3>1. Kill(markb, markk)
      BY <1>7, <2>2 DEF ublkdel
    <3> QED
      BY <2>1, <2>2, <3>1, KillStep
  <2>3. CASE ~markv
    <3>1. Kill(c, c)
      BY <1>7, <2>3 DEF ublkdel
    <3> QED
      BY <1>1, <3>1, KillStep
  <2> QED
    BY <2>2, <2>3
<1> QED
  BY <1>3, <1>4, <1>5, <1>6, <1>7

(* Commands that leave the text alone, or type into it.                    *)
LEMMA OtherStep ==
  ASSUME YankInv, ucopy \/ uyapp \/ umarkb \/ umarkk \/ utype \/ Move
  PROVE  YankInv'
<1> USE DEF YankInv
<1>1. t \in Seq(Letters) /\ c \in 0 .. Len(t) /\ Len(t) \in Nat /\ ring \in Seq(Record)
  BY LenProperties DEF YankTypes
<1>2. CASE ucopy
  <2>1. /\ t' = t /\ c' = c /\ markb' = markb /\ markk' = markk /\ yankwhere' = yankwhere
        /\ last' = <<>> /\ yanking' = None /\ row' = None
    BY <1>2 DEF ucopy, Ends, places
  <2>2. ring' \in Seq(Record) /\ (ring # <<>> => ring' # <<>>)
    <3>1. CASE markv
      <4>1. markb \in 0 .. Len(t) /\ markk \in 0 .. Len(t) /\ markb < markk
        BY <1>1, <3>1 DEF markv, YankTypes, Places, NULL
      <4>2. Cut(markb, markk) \in Killed
        BY <1>1, <4>1, CutKilled
      <4>3. ring' = Fed(markb, Cut(markb, markk))
        BY <1>2, <3>1 DEF ucopy
      <4>4. markb \in Nat
        BY <4>1
      <4> QED
        BY <1>1, <4>2, <4>3, <4>4, FedRing
    <3>2. CASE ~markv
      BY <1>1, <1>2, <3>2 DEF ucopy
    <3> QED
      BY <3>1, <3>2
  <2> QED
    BY <2>1, <2>2 DEF YankTypes, RowKept, YankKept, UndoKept
<1>3. CASE uyapp
  <2>1. /\ t' = t /\ c' = c /\ markb' = markb /\ markk' = markk /\ yankwhere' = yankwhere
        /\ last' = <<>> /\ yanking' = None /\ row' = None
    BY <1>3 DEF uyapp, Ends, places
  <2>2. ring' \in Seq(Record) /\ (ring # <<>> => ring' # <<>>)
    <3>1. CASE ring # <<>>
      <4> DEFINE rec == [ring[Len(ring)] EXCEPT !.where = c]
                 n == Len(ring)
      <4>1. ring' = [ring EXCEPT ![n] = rec]
        BY <1>3, <3>1, LenProperties DEF uyapp
      <4>2. rec \in Record /\ n \in 1 .. Len(ring)
        <5>1. ring[n] \in Record /\ n \in 1 .. Len(ring)
          BY <1>1, <3>1, NewestRecord DEF Newest
        <5>2. c \in Nat
          BY <1>1
        <5> HIDE DEF n
        <5> QED
          BY <5>1, <5>2 DEF Record, n
      <4> HIDE DEF rec, n
      <4>3. [ring EXCEPT ![n] = rec] \in Seq(Record) /\ Len([ring EXCEPT ![n] = rec]) = Len(ring)
        BY <1>1, <4>2, ExceptSeq
      <4>4. Len(ring) # 0 /\ Len(<<>>) = 0
        BY <1>1, <3>1, EmptySeq
      <4> QED
        BY <4>1, <4>3, <4>4
    <3>2. CASE ring = <<>>
      BY <1>1, <1>3, <3>2 DEF uyapp
    <3> QED
      BY <3>1, <3>2
  <2> QED
    BY <2>1, <2>2 DEF YankTypes, RowKept, YankKept, UndoKept
<1>4. CASE umarkb \/ umarkk
  <2>1. /\ t' = t /\ c' = c /\ yankwhere' = yankwhere /\ ring' = ring
        /\ last' = <<>> /\ yanking' = None /\ row' = None
        /\ markb' \in {markb, c} /\ markk' \in {markk, c}
    BY <1>4 DEF umarkb, umarkk, Ends
  <2> QED
    BY <1>1, <2>1 DEF YankTypes, RowKept, YankKept, UndoKept, Places
<1>5. CASE utype
  <2>1. /\ t' = With(t, c, <<"x">>) /\ c' = c + 1 /\ yankwhere' = yankwhere /\ ring' = ring
        /\ last' = <<>> /\ yanking' = None /\ row' = None
        /\ markb' = Pushed(markb, c, 1) /\ markk' = Pushed(markk, c, 1)
    BY <1>5 DEF utype, Ends
  <2>2. t' \in Seq(Letters) /\ Len(t') = Len(t) + 1
    <3> DEFINE k == "x"
    <3>2. k \in Letters
      BY YankAssumption
    <3> HIDE DEF k
    <3>1. <<k>> \in Seq(Letters) /\ Len(<<k>>) = 1
      <4>1. /\ Append(<<>>, k) \in Seq(Letters) /\ Len(Append(<<>>, k)) = Len(<<>>) + 1
            /\ Len(<<>>) = 0
        BY <3>2, AppendProperties, EmptySeq
      <4>2. Append(<<>>, k) = <<k>>
        OBVIOUS
      <4> QED
        BY <4>1, <4>2
    <3>3. With(t, c, <<k>>) \in Seq(Letters) /\ Len(With(t, c, <<k>>)) = Len(t) + Len(<<k>>)
      BY <1>1, <3>1, WithIn
    <3> QED
      BY <2>1, <3>1, <3>3 DEF k
  <2>3. markb' \in Places(Len(t')) /\ markk' \in Places(Len(t'))
    <3>1. markb \in Places(Len(t)) /\ markk \in Places(Len(t)) /\ c \in Nat /\ 1 \in Nat
      BY <1>1 DEF YankTypes
    <3>2. Pushed(markb, c, 1) \in Places(Len(t) + 1) /\ Pushed(markk, c, 1) \in Places(Len(t) + 1)
      BY <1>1, <3>1, PushedPlace
    <3> QED
      BY <2>1, <2>2, <3>2
  <2> QED
    BY <1>1, <2>1, <2>2, <2>3 DEF YankTypes, RowKept, YankKept, UndoKept
<1>6. CASE Move
  <2>1. /\ t' = t /\ c' \in 0 .. Len(t) /\ markb' = markb /\ markk' = markk
        /\ yankwhere' = yankwhere /\ ring' = ring
        /\ last' = <<>> /\ yanking' = None /\ row' = None
    BY <1>6 DEF Move, places
  <2> QED
    BY <2>1 DEF YankTypes, RowKept, YankKept, UndoKept
<1> QED
  BY <1>2, <1>3, <1>4, <1>5, <1>6

(* Something that is put into s at i, the marks being p: types, and what   *)
(* the next undo would take away again.                                    *)
LEMMA PutsIn ==
  ASSUME NEW s \in Seq(Letters), NEW i \in 0 .. Len(s), NEW x \in Killed, NEW p,
         p[1] \in Places(Len(s)), p[2] \in Places(Len(s)), Puts(s, p, i, x)
  PROVE  /\ t' = With(s, i, x) /\ t' \in Seq(Letters) /\ c' \in 0 .. Len(t')
         /\ c' = i + Len(x) /\ yankwhere' = c' /\ yankwhere' \in Nat
         /\ markb' \in Places(Len(t')) /\ markk' \in Places(Len(t'))
         /\ i + Len(x) <= Len(t')
<1>1. x \in Seq(Letters) /\ Len(x) \in Nat /\ Len(s) \in Nat
  BY KilledLen, LenProperties
<1>2. t' = With(s, i, x) /\ t' \in Seq(Letters) /\ Len(t') = Len(s) + Len(x)
  BY <1>1, WithIn DEF Puts
<1>3. c' = i + Len(x) /\ yankwhere' = i + Len(x)
  BY DEF Puts
<1>6. ASSUME NEW q \in Places(Len(s)) PROVE Pushed(q, i, Len(x)) \in Places(Len(s) + Len(x))
  <2>1. i \in Nat
    BY <1>1
  <2> QED
    BY <1>1, <1>6, <2>1, PushedPlace
<1>4. Pushed(p[1], i, Len(x)) \in Places(Len(s) + Len(x))
  BY <1>6
<1>5. Pushed(p[2], i, Len(x)) \in Places(Len(s) + Len(x))
  BY <1>6
<1>7. c' \in 0 .. Len(t') /\ i + Len(x) <= Len(t') /\ yankwhere' \in Nat
  BY <1>1, <1>2, <1>3
<1> QED
  BY <1>2, <1>3, <1>4, <1>5, <1>7 DEF Puts

(* A yank: the next yankpop is to replace the newest record.               *)
LEMMA YankStep ==
  ASSUME YankInv, uyank
  PROVE  YankInv'
<1> USE DEF YankInv
<1>1. /\ t \in Seq(Letters) /\ c \in 0 .. Len(t) /\ Len(t) \in Nat /\ ring \in Seq(Record)
      /\ ring' = ring /\ row' = None
  BY LenProperties DEF YankTypes, uyank, Ends
<1>2. CASE ring = <<>>
  <2>1. /\ t' = t /\ c' = c /\ markb' = markb /\ markk' = markk
        /\ yankwhere' = yankwhere /\ last' = <<>> /\ yanking' = None
    BY <1>2 DEF uyank, Ends, places
  <2> QED
    BY <1>1, <2>1 DEF YankTypes, RowKept, YankKept, UndoKept
<1>3. CASE ring # <<>>
  <2> DEFINE x == Newest.data
  <2>1. /\ Puts(t, places, c, x) /\ last' = <<Ins(c, x)>> /\ yanking' = [t |-> t, c |-> c]
    BY <1>3 DEF uyank
  <2>2. x \in Killed /\ Newest' = Newest
    BY <1>1, <1>3, NewestRecord DEF Newest
  <2> HIDE DEF x
  <2>3. places[1] \in Places(Len(t)) /\ places[2] \in Places(Len(t))
    BY DEF places, YankTypes
  <2>4. /\ t' = With(t, c, x) /\ t' \in Seq(Letters) /\ c' \in 0 .. Len(t')
        /\ c' = c + Len(x) /\ yankwhere' = c' /\ yankwhere' \in Nat
        /\ markb' \in Places(Len(t')) /\ markk' \in Places(Len(t'))
        /\ c + Len(x) <= Len(t')
    BY <1>1, <2>1, <2>2, <2>3, PutsIn
  <2>5. YankTypes'
    BY <1>1, <1>3, <2>4 DEF YankTypes
  <2>6. YankKept'
    BY <1>1, <1>3, <2>1, <2>2, <2>4 DEF YankKept, With, x
  <2>7. UndoKept'
    <3>1. \E i \in Nat, y \in Killed : last' = <<Ins(i, y)>> /\ i + Len(y) <= Len(t')
      BY <1>1, <2>1, <2>2, <2>4
    <3> QED
      BY <3>1 DEF UndoKept, Inserts, Ins
  <2> QED
    BY <1>1, <2>5, <2>6, <2>7 DEF RowKept
<1> QED
  BY <1>2, <1>3

(* As many characters as the newest record has, before the cursor.         *)
Replaced == Most(c - Len(Newest.data), 0)

(* A yankpop that replaces what is before the cursor: the ring turns, and  *)
(* the record before the newest takes its place.                           *)
LEMMA TurnedRing ==
  ASSUME ring \in Seq(Record), ring # <<>>, NEW i
  PROVE  /\ Turned(i) \in Seq(Record) /\ Turned(i) # <<>>
         /\ Last(Turned(i)) = Before /\ Turned(i)[Len(Turned(i))] = Before
         /\ Before \in Record
<1> DEFINE n == Len(ring)
           f == Front(ring)
<1>1. Newest \in Record /\ n \in Nat \ {0}
  BY NewestRecord
<1>2. \A k \in 1 .. n : ring[k] \in Record
  BY ElementOfSeq
<1>3. f = SubSeq(ring, 1, n - 1)
  BY DEF Front
<1>4. f \in Seq(Record) /\ Len(f) = n - 1 /\ \A k \in 1 .. n - 1 : f[k] = ring[k]
  <2>1. \A k \in 1 .. n - 1 : ring[k] \in Record
    BY <1>1, <1>2
  <2>2. 1 \in Int /\ n - 1 \in Int
    BY <1>1
  <2> HIDE DEF n, f
  <2>3. /\ SubSeq(ring, 1, n - 1) \in Seq(Record)
        /\ Len(SubSeq(ring, 1, n - 1)) = IF 1 <= n - 1 THEN n - 1 - 1 + 1 ELSE 0
        /\ \A k \in 1 .. n - 1 - 1 + 1 : SubSeq(ring, 1, n - 1)[k] = ring[1 + k - 1]
    BY <2>1, <2>2, SubSeqProperties
  <2> QED
    BY <1>1, <1>3, <2>3
<1> DEFINE h == <<Newest>>
<1>5. h \in Seq(Record) /\ Len(h) = 1 /\ h[1] = Newest
  BY <1>1
<1>6. Turned(i) = h \o f
  BY DEF Turned
<1> HIDE DEF f, h
<1>7. /\ h \o f \in Seq(Record) /\ Len(h \o f) = Len(h) + Len(f)
      /\ \A k \in 1 .. Len(h) + Len(f) : (h \o f)[k] = IF k <= Len(h) THEN h[k] ELSE f[k - Len(h)]
  BY <1>4, <1>5, ConcatProperties
<1>8. Len(h \o f) = n
  BY <1>1, <1>4, <1>5, <1>7
<1>9. (h \o f)[n] = Before
  <2>1. CASE n = 1
    BY <1>4, <1>5, <1>7, <2>1 DEF Before, Newest
  <2>2. CASE n # 1
    <3>1. (h \o f)[n] = f[n - 1]
      BY <1>1, <1>4, <1>5, <1>7, <2>2
    <3>2. f[n - 1] = ring[n - 1]
      BY <1>1, <1>4, <2>2
    <3> QED
      BY <2>2, <3>1, <3>2 DEF Before
  <2> QED
    BY <2>1, <2>2
<1>10. Before \in Record
  <2>1. CASE n = 1
    BY <1>2, <2>1 DEF Before
  <2>2. CASE n # 1
    <3> HIDE DEF n
    <3>1. n - 1 \in 1 .. n
      BY <1>1, <2>2
    <3> QED
      BY <1>2, <2>2, <3>1 DEF Before, n
  <2> QED
    BY <2>1, <2>2
<1>11. h \o f # <<>>
  BY <1>1, <1>8, EmptySeq
<1> QED
  BY <1>6, <1>7, <1>8, <1>9, <1>10, <1>11 DEF Last

(* What a yankpop behind a yank does, and it leaves the text as if the     *)
(* record before the newest had been yanked.                               *)
LEMMA PopStep ==
  ASSUME YankInv, uyankpop
  PROVE  /\ YankInv'
         /\ c = yankwhere => PopReplaces
<1> USE DEF YankInv
<1>1. /\ t \in Seq(Letters) /\ c \in 0 .. Len(t) /\ Len(t) \in Nat /\ ring \in Seq(Record)
  BY LenProperties DEF YankTypes
<1>2. CASE c # yankwhere
  <2>1. uyank
    BY <1>2 DEF uyankpop
  <2> QED
    BY <1>2, <2>1, YankStep
<1>3. CASE c = yankwhere
  <2>1. ring # <<>>
    BY <1>1, <1>3 DEF YankTypes, NULL
  <2>2. Newest \in Record /\ Newest.data \in Killed
    BY <1>1, <2>1, NewestRecord
  <2>3. Newest.data \in Seq(Letters) /\ Len(Newest.data) \in Nat /\ Len(Newest.data) > 0
    BY <2>2, KilledLen
  <2> DEFINE n == Len(Newest.data)
             i == Most(c - n, 0)
             s == Without(i, c)
             x == Before.data
             p == <<Pulled(markb, i, c), Pulled(markk, i, c)>>
  <2>4. i \in 0 .. Len(t) /\ c \in i .. Len(t) /\ i \in Nat
    BY <1>1, <2>3 DEF Most
  <2>5. /\ Turned(i) \in Seq(Record) /\ Turned(i) # <<>>
        /\ Last(Turned(i)) = Before /\ Turned(i)[Len(Turned(i))] = Before
        /\ Before \in Record
    BY <1>1, <2>1, TurnedRing
  <2>6. x \in Killed
    BY <2>5 DEF Record
  <2>7. /\ ring' = Turned(i) /\ Puts(s, p, i, x) /\ yanking' = yanking
        /\ last' = (IF i < c THEN <<Del(i, Cut(i, c))>> ELSE <<>>) \o <<Ins(i, x)>>
        /\ row' = None
    BY <1>3, <2>5 DEF uyankpop, Ends
  <2>8. s \in Seq(Letters) /\ Len(s) = Len(t) - (c - i) /\ i \in 0 .. Len(s)
    <3>1. s \in Seq(Letters) /\ Len(s) = Len(t) - (c - i)
      BY <1>1, <2>4, Parts
    <3> HIDE DEF s, i
    <3> QED
      BY <1>1, <2>4, <3>1
  <2>9. p[1] \in Places(Len(s)) /\ p[2] \in Places(Len(s))
    <3>1. markb \in Places(Len(t)) /\ markk \in Places(Len(t))
      BY DEF YankTypes
    <3> HIDE DEF i, YankInv
    <3>2. Pulled(markb, i, c) \in Places(Len(t) - (c - i))
      BY <1>1, <2>4, <3>1, PulledPlace
    <3>3. Pulled(markk, i, c) \in Places(Len(t) - (c - i))
      BY <1>1, <2>4, <3>1, PulledPlace
    <3> HIDE DEF s
    <3> QED
      BY <2>8, <3>2, <3>3
  <2> HIDE DEF n, i, s, x, p
  <2>10. /\ t' = With(s, i, x) /\ t' \in Seq(Letters) /\ c' \in 0 .. Len(t')
         /\ c' = i + Len(x) /\ yankwhere' = c' /\ yankwhere' \in Nat
         /\ markb' \in Places(Len(t')) /\ markk' \in Places(Len(t'))
         /\ i + Len(x) <= Len(t')
    BY <2>6, <2>7, <2>8, <2>9, PutsIn
  <2>11. YankTypes'
    BY <2>5, <2>7, <2>10 DEF YankTypes
  <2>12. Newest' = Before
    BY <2>5, <2>7 DEF Newest
  <2>13. yanking # None =>
           /\ yanking.t \in Seq(Letters) /\ yanking.c \in 0 .. Len(yanking.t)
           /\ s = yanking.t /\ i = yanking.c
    <3> SUFFICES ASSUME yanking # None
                 PROVE  /\ yanking.t \in Seq(Letters) /\ yanking.c \in 0 .. Len(yanking.t)
                        /\ s = yanking.t /\ i = yanking.c
      OBVIOUS
    <3> DEFINE y == yanking.t
               k == yanking.c
    <3>1. /\ y \in Seq(Letters) /\ k \in 0 .. Len(y)
          /\ t = With(y, k, Newest.data) /\ c = k + n
      BY DEF YankKept, n
    <3>5. n \in Nat /\ n > 0
      BY <2>3 DEF n
    <3>2. k \in Nat /\ Len(y) \in Nat
      BY <3>1, LenProperties
    <3> HIDE DEF y, k
    <3>3. i = k /\ c = i + n
      BY <3>1, <3>2, <3>5 DEF i, Most
    <3> HIDE DEF YankInv
    <3>4. Without(k, k + Len(Newest.data)) = y
      BY <1>1, <2>3, <3>1, TakenOut
    <3> QED
      BY <3>1, <3>3, <3>4 DEF s, n, y, k
  <2>14. YankKept'
    BY <2>5, <2>7, <2>10, <2>12, <2>13 DEF YankKept, With, x
  <2>15. UndoKept'
    <3>1. \E a \in Nat, b \in Killed :
            /\ last' = <<Ins(a, b)>> \/ \E y \in Killed : last' = <<Del(a, y), Ins(a, b)>>
            /\ a + Len(b) <= Len(t')
      <4>1. CASE i < c
        <5>1. Cut(i, c) \in Killed
          BY <1>1, <2>4, <4>1, CutKilled
        <5>2. last' = <<Del(i, Cut(i, c)), Ins(i, x)>>
          <6> DEFINE a == Del(i, Cut(i, c))
                     b == Ins(i, x)
          <6>1. last' = <<a>> \o <<b>>
            BY <2>7, <4>1
          <6> HIDE DEF a, b
          <6>2. <<a>> \o <<b>> = <<a, b>>
            BY TwoInARow
          <6> QED
            BY <6>1, <6>2 DEF a, b
        <5> QED
          BY <2>4, <2>6, <2>10, <5>1, <5>2
      <4>2. CASE ~(i < c)
        <5>1. last' = <<Ins(i, x)>>
          BY <2>7, <4>2
        <5> QED
          BY <2>4, <2>6, <2>10, <5>1
      <4> QED
        BY <4>1, <4>2
    <3> QED
      BY <3>1 DEF UndoKept, Inserts, Ins, Del
  <2>16. PopReplaces
    BY <2>10, <2>13 DEF PopReplaces, x
  <2> QED
    BY <2>7, <2>11, <2>14, <2>15, <2>16 DEF RowKept
<1> QED
  BY <1>2, <1>3

(* Undo of a yank: what it put in goes to the ring, what it took away is   *)
(* back.                                                                   *)
LEMMA UndoStep ==
  ASSUME YankInv, uundo
  PROVE  YankInv'
<1> USE DEF YankInv
<1>1. /\ t \in Seq(Letters) /\ Len(t) \in Nat /\ ring \in Seq(Record)
      /\ markb \in Places(Len(t)) /\ markk \in Places(Len(t))
  BY LenProperties DEF YankTypes
<1>2. PICK i \in Nat, x \in Killed : Inserts(i, x) /\ i + Len(x) <= Len(t)
  BY DEF uundo, UndoKept
<1> DEFINE j == i + Len(x)
           back == IF Len(last) = 2 THEN last[1].data ELSE <<>>
<1>3. /\ last[Len(last)].where = i /\ last[Len(last)].data = x
      /\ back \in Seq(Letters)
  <2>1. CASE last = <<Ins(i, x)>>
    BY <2>1, EmptySeq DEF Ins
  <2>2. CASE \E y \in Killed : last = <<Del(i, y), Ins(i, x)>>
    BY <2>2 DEF Ins, Del, Killed
  <2> QED
    BY <1>2, <2>1, <2>2 DEF Inserts
<1>4. /\ t' = With(Without(i, j), i, back) /\ c' = i /\ ring' = Fed(i, x)
      /\ markb' = Pushed(Pulled(markb, i, j), i, Len(back))
      /\ markk' = Pushed(Pulled(markk, i, j), i, Len(back))
      /\ row' = None /\ yanking' = None /\ last' = <<>> /\ yankwhere' = yankwhere
  BY <1>3 DEF uundo, Ends
<1>5. Len(x) \in Nat /\ Len(back) \in Nat
  BY <1>3, KilledLen, LenProperties
<1> HIDE DEF back
<1>6. i \in 0 .. Len(t) /\ j \in i .. Len(t)
  BY <1>1, <1>2, <1>5
<1> HIDE DEF j
<1> DEFINE s == Without(i, j)
           m == Len(t) - (j - i)
<1>7. s \in Seq(Letters) /\ Len(s) = m
  BY <1>1, <1>6, Parts
<1>8. m \in Nat /\ i \in 0 .. m
  BY <1>1, <1>6
<1>9. Pulled(markb, i, j) \in Places(m) /\ Pulled(markk, i, j) \in Places(m)
  BY <1>1, <1>6, PulledPlace
<1> HIDE DEF s, m
<1>10. With(s, i, back) \in Seq(Letters) /\ Len(With(s, i, back)) = m + Len(back)
  BY <1>3, <1>7, <1>8, WithIn
<1>11. t' = With(s, i, back)
  BY <1>4 DEF s
<1>12. markb' \in Places(Len(t')) /\ markk' \in Places(Len(t'))
  <2>1. ASSUME NEW q \in Places(m) PROVE Pushed(q, i, Len(back)) \in Places(m + Len(back))
    BY <1>5, <1>8, <2>1, PushedPlace
  <2> QED
    BY <1>4, <1>9, <1>10, <1>11, <2>1
<1>13. c' \in 0 .. Len(t')
  BY <1>4, <1>5, <1>8, <1>10, <1>11
<1>14. ring' \in Seq(Record) /\ ring' # <<>>
  BY <1>1, <1>2, <1>4, FedRing
<1>15. YankTypes'
  BY <1>4, <1>10, <1>11, <1>12, <1>13, <1>14 DEF YankTypes
<1> QED
  BY <1>4, <1>15 DEF RowKept, YankKept, UndoKept

----------------------------------------------------------------------------
(* The theorem.                                                            *)

(* The invariant holds in the beginning.                                   *)
LEMMA YankInitially ==
  ASSUME YankInit
  PROVE  YankInv
<1>1. t \in Seq(Letters) /\ Len(t) \in Nat /\ <<>> \in Seq(Record)
  BY YankAssumption, EmptySeq, LenProperties DEF YankInit
<1> QED
  BY <1>1 DEF YankInit, YankInv, YankTypes, RowKept, YankKept, UndoKept, Places, NULL

(* So does each step.                                                      *)
LEMMA YankKeeps ==
  ASSUME YankInv, YankNext
  PROVE  YankInv'
BY KillsStep, OtherStep, YankStep, PopStep, UndoStep DEF YankNext

(* A step that leaves nothing of it as it was: the invariant.              *)
LEMMA YankStutters ==
  ASSUME YankInv, UNCHANGED yankVars
  PROVE  YankInv'
BY DEF yankVars, YankInv, YankTypes, RowKept, YankKept, UndoKept, Newest, With, Inserts

(* Only a yankpop behind a yank leaves what was there before the yank as it*)
(* is known: every other step forgets it, or is another yank.              *)
LEMMA OnlyPops ==
  ASSUME YankInv, YankNext
  PROVE  PopReplaces
<1> USE DEF YankInv
<1>1. SUFFICES ASSUME yanking # None, yanking' = yanking PROVE PopReplaces
  BY <1>1 DEF PopReplaces
<1>2. c = yankwhere
  BY <1>1 DEF YankKept
<1>3. CASE uyankpop
  BY <1>2, <1>3, PopStep
<1>4. CASE uyank
  <2>1. ring # <<>> /\ ring \in Seq(Record)
    BY <1>1 DEF YankKept, YankTypes
  <2>2. yanking' = [t |-> t, c |-> c]
    BY <1>4, <2>1 DEF uyank
  <2>3. yanking.c = c
    BY <1>1, <2>2
  <2>4. c = yanking.c + Len(Newest.data) /\ yanking.c \in 0 .. Len(yanking.t)
    BY <1>1 DEF YankKept
  <2>5. Len(Newest.data) \in Nat /\ Len(Newest.data) > 0 /\ c \in Nat
    BY <2>1, NewestRecord, KilledLen, LenProperties DEF YankTypes
  <2> QED
    BY <2>3, <2>4, <2>5
<1>5. CASE ~uyankpop /\ ~uyank
  <2>1. yanking' = None
    BY <1>5 DEF YankNext, udelch, ubacks, udelel, u_word_delete, ublkdel, Kill, ucopy, uyapp,
                umarkb, umarkk, utype, Move, uundo, Ends
  <2> QED
    BY <1>1, <2>1
<1> QED
  BY <1>3, <1>4, <1>5

(* Killed text comes back: the newest record, put back where it is from,   *)
(* gives the text from before a row of kills, whichever way the kills went *)
(* and wherever the ring was turned before (yankdel, undo.c:252); and a    *)
(* yankpop behind a yank leaves text and cursor as if the record before    *)
(* had been yanked (uyankpop, undo.c:416).                                 *)
THEOREM KillsComeBack == YankSpec => YankRight
<1>1. YankInit => YankInv
  BY YankInitially
<1>2. YankInv /\ [YankNext]_yankVars => YankInv'
  BY YankKeeps, YankStutters
<1>3. YankInv /\ YankInv' /\ [YankNext]_yankVars => [RowWhole /\ PopReplaces]_yankVars
  <2>1. ASSUME YankInv, YankInv', YankNext PROVE RowWhole /\ PopReplaces
    <3>1. RowWhole
      BY <2>1 DEF YankInv, RowKept, RowWhole, With
    <3> QED
      BY <2>1, <3>1, OnlyPops
  <2> QED
    BY <2>1
<1>4. YankSpec => [][RowWhole /\ PopReplaces]_yankVars
  BY <1>1, <1>2, <1>3, PTL DEF YankSpec
<1> QED
  BY <1>4 DEF YankRight
=============================================================================
