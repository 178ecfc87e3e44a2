----------------------------- MODULE SavedProofs -----------------------------
(***************************************************************************)
(* A buffer that is not marked as changed has the text of its file: the    *)
(* records of undo, read from the newest to the oldest, lead from the text *)
(* back through every text the buffer had, and the marks they keep tell    *)
(* which of these texts is the one in the file.                            *)
(***************************************************************************)
EXTENDS MCUndo, UndoProofs

(* A part of a text, by its length and its elements.                       *)
LEMMA Slice ==
  ASSUME NEW t \in Seq(Nat), NEW p \in Nat, NEW q \in Nat, p <= q, q <= Len(t)
  PROVE  /\ SubSeq(t, p + 1, q) \in Seq(Nat)
         /\ Len(SubSeq(t, p + 1, q)) = q - p
         /\ \A i \in 1 .. q - p : SubSeq(t, p + 1, q)[i] = t[p + i]
<1> DEFINE x == SubSeq(t, p + 1, q)
<1>1. Len(t) \in Nat /\ \A i \in 1 .. Len(t) : t[i] \in Nat
  BY LenProperties, ElementOfSeq
<1>2. \A i \in p + 1 .. q : t[i] \in Nat
  BY <1>1
<1>3. p + 1 \in Int /\ q \in Int
  OBVIOUS
<1>4. /\ x \in Seq(Nat)
      /\ Len(x) = IF p + 1 <= q THEN q - (p + 1) + 1 ELSE 0
      /\ \A i \in 1 .. q - (p + 1) + 1 : x[i] = t[(p + 1) + i - 1]
  BY <1>2, <1>3, SubSeqProperties
<1> HIDE DEF x
<1>5. q - (p + 1) + 1 = q - p /\ \A i \in 1 .. q - p : (p + 1) + i - 1 = p + i
  OBVIOUS
<1>6. Len(x) = q - p
  BY <1>4
<1>7. \A i \in 1 .. q - p : x[i] = t[p + i]
  BY <1>4, <1>5
<1> QED
  BY <1>4, <1>6, <1>7 DEF x

LEMMA Joined ==
  ASSUME NEW a \in Seq(Nat), NEW b \in Seq(Nat)
  PROVE  /\ a \o b \in Seq(Nat) /\ Len(a \o b) = Len(a) + Len(b)
         /\ \A i \in 1 .. Len(a) : (a \o b)[i] = a[i]
         /\ \A i \in 1 .. Len(b) : (a \o b)[Len(a) + i] = b[i]
<1> DEFINE x == a \o b
<1>1. /\ x \in Seq(Nat) /\ Len(x) = Len(a) + Len(b)
      /\ \A i \in 1 .. Len(a) + Len(b) : x[i] = IF i <= Len(a) THEN a[i] ELSE b[i - Len(a)]
  BY ConcatProperties
<1> HIDE DEF x
<1>2. Len(a) \in Nat /\ Len(b) \in Nat
  OBVIOUS
<1>3. \A i \in 1 .. Len(a) : x[i] = a[i]
  BY <1>1, <1>2
<1>4. ASSUME NEW i \in 1 .. Len(b) PROVE x[Len(a) + i] = b[i]
  <2>1. Len(a) + i \in 1 .. Len(a) + Len(b) /\ ~(Len(a) + i <= Len(a)) /\ Len(a) + i - Len(a) = i
    BY <1>2
  <2> QED
    BY <1>1, <2>1
<1> QED
  BY <1>1, <1>3, <1>4 DEF x

(* Inserting and deleting in a text, by length and elements.               *)
Put(t, p, s) == SubSeq(t, 1, p) \o s \o SubSeq(t, p + 1, Len(t))
Cut(t, p, n) == SubSeq(t, 1, p) \o SubSeq(t, p + n + 1, Len(t))
Mid(t, p, n) == SubSeq(t, p + 1, p + n)

LEMMA FrontIs ==
  ASSUME NEW t \in Seq(Nat), NEW p \in 0 .. Len(t)
  PROVE  /\ SubSeq(t, 1, p) \in Seq(Nat) /\ Len(SubSeq(t, 1, p)) = p
         /\ \A i \in 1 .. p : SubSeq(t, 1, p)[i] = t[i]
<1>1. Len(t) \in Nat /\ p \in Nat /\ 0 \in Nat /\ 0 <= p /\ p <= Len(t)
  OBVIOUS
<1>2. 0 + 1 = 1 /\ p - 0 = p /\ \A i \in 1 .. p : 0 + i = i
  BY <1>1
<1>3. /\ SubSeq(t, 0 + 1, p) \in Seq(Nat) /\ Len(SubSeq(t, 0 + 1, p)) = p - 0
      /\ \A i \in 1 .. p - 0 : SubSeq(t, 0 + 1, p)[i] = t[0 + i]
  BY <1>1, Slice
<1> DEFINE x == SubSeq(t, 1, p)
<1>4. /\ x \in Seq(Nat) /\ Len(x) = p /\ \A i \in 1 .. p : x[i] = t[0 + i]
  BY <1>2, <1>3
<1> HIDE DEF x
<1>5. \A i \in 1 .. p : x[i] = t[i]
  BY <1>2, <1>4
<1> QED
  BY <1>4, <1>5 DEF x

LEMMA PutIs ==
  ASSUME NEW t \in Seq(Nat), NEW s \in Seq(Nat), NEW p \in 0 .. Len(t)
  PROVE  /\ Put(t, p, s) \in Seq(Nat) /\ Len(Put(t, p, s)) = Len(t) + Len(s)
         /\ \A i \in 1 .. p : Put(t, p, s)[i] = t[i]
         /\ \A i \in 1 .. Len(s) : Put(t, p, s)[p + i] = s[i]
         /\ \A i \in p + 1 .. Len(t) : Put(t, p, s)[Len(s) + i] = t[i]
<1> DEFINE a == SubSeq(t, 1, p)
           b == SubSeq(t, p + 1, Len(t))
           as == a \o s
           x == as \o b
<1>1. Len(t) \in Nat /\ Len(s) \in Nat /\ p \in Nat /\ p <= Len(t)
  OBVIOUS
<1>2. a \in Seq(Nat) /\ Len(a) = p /\ \A i \in 1 .. p : a[i] = t[i]
  BY FrontIs
<1>3. b \in Seq(Nat) /\ Len(b) = Len(t) - p /\ \A i \in 1 .. Len(t) - p : b[i] = t[p + i]
  BY <1>1, Slice
<1> HIDE DEF a, b
<1>4. /\ as \in Seq(Nat) /\ Len(as) = Len(a) + Len(s)
      /\ \A i \in 1 .. Len(a) : as[i] = a[i]
      /\ \A i \in 1 .. Len(s) : as[Len(a) + i] = s[i]
  BY <1>2, Joined
<1> HIDE DEF as
<1>5. /\ x \in Seq(Nat) /\ Len(x) = Len(as) + Len(b)
      /\ \A i \in 1 .. Len(as) : x[i] = as[i]
      /\ \A i \in 1 .. Len(b) : x[Len(as) + i] = b[i]
  BY <1>3, <1>4, Joined
<1> HIDE DEF x
<1>6. Len(as) = p + Len(s)
  BY <1>2, <1>4
<1>7. Len(x) = Len(t) + Len(s)
  BY <1>1, <1>3, <1>5, <1>6
<1>8. \A i \in 1 .. p : x[i] = t[i]
  <2>1. \A i \in 1 .. p : i \in 1 .. p + Len(s)
    BY <1>1
  <2> QED
    BY <2>1, <1>2, <1>4, <1>5, <1>6
<1>9. \A i \in 1 .. Len(s) : x[p + i] = s[i]
  <2>1. \A i \in 1 .. Len(s) : p + i \in 1 .. p + Len(s)
    BY <1>1
  <2> QED
    BY <2>1, <1>2, <1>4, <1>5, <1>6
<1>10. ASSUME NEW i \in p + 1 .. Len(t) PROVE x[Len(s) + i] = t[i]
  <2>1. i - p \in 1 .. Len(t) - p /\ p + Len(s) + (i - p) = Len(s) + i /\ p + (i - p) = i
    BY <1>1
  <2>2. x[p + Len(s) + (i - p)] = b[i - p]
    BY <2>1, <1>3, <1>5, <1>6
  <2>3. b[i - p] = t[p + (i - p)]
    BY <2>1, <1>3
  <2> QED
    BY <2>1, <2>2, <2>3
<1>11. Put(t, p, s) = x
  BY DEF Put, x, as, a, b
<1> QED
  BY <1>5, <1>7, <1>8, <1>9, <1>10, <1>11

LEMMA CutIs ==
  ASSUME NEW t \in Seq(Nat), NEW p \in Nat, NEW n \in Nat, p + n <= Len(t)
  PROVE  /\ Cut(t, p, n) \in Seq(Nat) /\ Len(Cut(t, p, n)) = Len(t) - n
         /\ \A i \in 1 .. p : Cut(t, p, n)[i] = t[i]
         /\ \A i \in p + 1 .. Len(t) - n : Cut(t, p, n)[i] = t[i + n]
<1> DEFINE a == SubSeq(t, 1, p)
           b == SubSeq(t, p + n + 1, Len(t))
           x == a \o b
<1>1. Len(t) \in Nat /\ p \in 0 .. Len(t) /\ p + n \in Nat
  OBVIOUS
<1>2. a \in Seq(Nat) /\ Len(a) = p /\ \A i \in 1 .. p : a[i] = t[i]
  BY <1>1, FrontIs
<1>3. /\ b \in Seq(Nat) /\ Len(b) = Len(t) - (p + n)
      /\ \A i \in 1 .. Len(t) - (p + n) : b[i] = t[p + n + i]
  BY <1>1, Slice
<1> HIDE DEF a, b
<1>4. /\ x \in Seq(Nat) /\ Len(x) = Len(a) + Len(b)
      /\ \A i \in 1 .. Len(a) : x[i] = a[i]
      /\ \A i \in 1 .. Len(b) : x[Len(a) + i] = b[i]
  BY <1>2, <1>3, Joined
<1> HIDE DEF x
<1>5. Len(x) = Len(t) - n
  BY <1>1, <1>2, <1>3, <1>4
<1>6. \A i \in 1 .. p : x[i] = t[i]
  BY <1>2, <1>4
<1>7. ASSUME NEW i \in p + 1 .. Len(t) - n PROVE x[i] = t[i + n]
  <2>1. i - p \in 1 .. Len(t) - (p + n) /\ p + (i - p) = i /\ p + n + (i - p) = i + n
    BY <1>1
  <2>2. x[p + (i - p)] = b[i - p]
    BY <2>1, <1>2, <1>3, <1>4
  <2>3. b[i - p] = t[p + n + (i - p)]
    BY <2>1, <1>3
  <2> QED
    BY <2>1, <2>2, <2>3
<1>8. Cut(t, p, n) = x
  BY DEF Cut, x, a, b
<1> QED
  BY <1>4, <1>5, <1>6, <1>7, <1>8

LEMMA MidIs ==
  ASSUME NEW t \in Seq(Nat), NEW p \in Nat, NEW n \in Nat, p + n <= Len(t)
  PROVE  /\ Mid(t, p, n) \in Seq(Nat) /\ Len(Mid(t, p, n)) = n
         /\ \A i \in 1 .. n : Mid(t, p, n)[i] = t[p + i]
<1>1. p + n \in Nat /\ p <= p + n /\ p + n - p = n
  OBVIOUS
<1> QED
  BY <1>1, Slice DEF Mid

(* What takes a change back, and what a change merged with another one     *)
(* takes back: the texts of doundo, undoins and undodel.                   *)
LEMMA CutPut ==
  ASSUME NEW t \in Seq(Nat), NEW s \in Seq(Nat), NEW p \in 0 .. Len(t)
  PROVE  Cut(Put(t, p, s), p, Len(s)) = t
<1> DEFINE u == Put(t, p, s)
           c == Cut(u, p, Len(s))
<1>1. Len(t) \in Nat /\ Len(s) \in Nat /\ p \in Nat /\ p <= Len(t)
  OBVIOUS
<1>2. /\ u \in Seq(Nat) /\ Len(u) = Len(t) + Len(s)
      /\ \A i \in 1 .. p : u[i] = t[i]
      /\ \A i \in p + 1 .. Len(t) : u[Len(s) + i] = t[i]
  BY PutIs
<1> HIDE DEF u
<1>3. /\ c \in Seq(Nat) /\ Len(c) = Len(u) - Len(s)
      /\ \A i \in 1 .. p : c[i] = u[i]
      /\ \A i \in p + 1 .. Len(u) - Len(s) : c[i] = u[i + Len(s)]
  <2>1. p + Len(s) <= Len(u)
    BY <1>1, <1>2
  <2> QED
    BY <2>1, <1>1, <1>2, CutIs
<1> HIDE DEF c
<1>4. Len(c) = Len(t)
  BY <1>1, <1>2, <1>3
<1>5. ASSUME NEW i \in 1 .. Len(t) PROVE c[i] = t[i]
  <2>1. CASE i <= p
    BY <2>1, <1>1, <1>2, <1>3
  <2>2. CASE i > p
    <3>1. i \in p + 1 .. Len(t) /\ i + Len(s) = Len(s) + i /\ Len(u) - Len(s) = Len(t)
      BY <2>2, <1>1, <1>2
    <3> QED
      BY <3>1, <1>2, <1>3
  <2> QED
    BY <2>1, <2>2, <1>1
<1>6. c = t
  BY <1>3, <1>4, <1>5, SeqEqual
<1> QED
  BY <1>6 DEF c, u

LEMMA PutCut ==
  ASSUME NEW t \in Seq(Nat), NEW p \in Nat, NEW n \in Nat, p + n <= Len(t)
  PROVE  Put(Cut(t, p, n), p, Mid(t, p, n)) = t
<1> DEFINE u == Cut(t, p, n)
           s == Mid(t, p, n)
           c == Put(u, p, s)
<1>1. Len(t) \in Nat /\ p <= Len(t) - n
  OBVIOUS
<1>2. /\ u \in Seq(Nat) /\ Len(u) = Len(t) - n
      /\ \A i \in 1 .. p : u[i] = t[i]
      /\ \A i \in p + 1 .. Len(t) - n : u[i] = t[i + n]
  BY CutIs
<1>3. s \in Seq(Nat) /\ Len(s) = n /\ \A i \in 1 .. n : s[i] = t[p + i]
  BY MidIs
<1> HIDE DEF u, s
<1>4. /\ c \in Seq(Nat) /\ Len(c) = Len(u) + Len(s)
      /\ \A i \in 1 .. p : c[i] = u[i]
      /\ \A i \in 1 .. Len(s) : c[p + i] = s[i]
      /\ \A i \in p + 1 .. Len(u) : c[Len(s) + i] = u[i]
  <2>1. p \in 0 .. Len(u)
    BY <1>1, <1>2
  <2> QED
    BY <2>1, <1>2, <1>3, PutIs
<1> HIDE DEF c
<1>5. Len(c) = Len(t)
  BY <1>1, <1>2, <1>3, <1>4
<1>6. ASSUME NEW i \in 1 .. Len(t) PROVE c[i] = t[i]
  <2>1. CASE i <= p
    BY <2>1, <1>1, <1>2, <1>4
  <2>2. CASE p < i /\ i <= p + n
    <3>1. i - p \in 1 .. n /\ p + (i - p) = i
      BY <2>2, <1>1
    <3>2. c[p + (i - p)] = s[i - p]
      BY <3>1, <1>3, <1>4
    <3>3. s[i - p] = t[p + (i - p)]
      BY <3>1, <1>3
    <3> QED
      BY <3>1, <3>2, <3>3
  <2>3. CASE p + n < i
    <3>1. i - n \in p + 1 .. Len(t) - n /\ n + (i - n) = i /\ i - n + n = i
      BY <2>3, <1>1
    <3>2. c[n + (i - n)] = u[i - n] /\ u[i - n] = t[i - n + n]
      BY <3>1, <1>2, <1>3, <1>4
    <3> QED
      BY <3>1, <3>2
  <2> QED
    BY <2>1, <2>2, <2>3, <1>1
<1>7. c = t
  BY <1>4, <1>5, <1>6, SeqEqual
<1> QED
  BY <1>7 DEF c, u, s

(* An insertion into an insertion is taken back together with it.          *)
LEMMA CutGrown ==
  ASSUME NEW t \in Seq(Nat), NEW s \in Seq(Nat), NEW w \in Nat, NEW l \in Nat,
         w + l <= Len(t), NEW p \in w .. w + l
  PROVE  Cut(Put(t, p, s), w, l + Len(s)) = Cut(t, w, l)
<1> DEFINE u == Put(t, p, s)
           n == Len(s)
           c == Cut(u, w, l + n)
           d == Cut(t, w, l)
<1>1. Len(t) \in Nat /\ n \in Nat /\ p \in Nat /\ w <= p /\ p <= w + l /\ p \in 0 .. Len(t)
  OBVIOUS
<1> HIDE DEF n
<1>2. /\ u \in Seq(Nat) /\ Len(u) = Len(t) + n
      /\ \A i \in 1 .. p : u[i] = t[i]
      /\ \A i \in p + 1 .. Len(t) : u[n + i] = t[i]
  BY <1>1, PutIs DEF n
<1> HIDE DEF u
<1>3. /\ c \in Seq(Nat) /\ Len(c) = Len(u) - (l + n)
      /\ \A i \in 1 .. w : c[i] = u[i]
      /\ \A i \in w + 1 .. Len(u) - (l + n) : c[i] = u[i + (l + n)]
  <2>1. w + (l + n) <= Len(u) /\ l + n \in Nat
    BY <1>1, <1>2
  <2> QED
    BY <2>1, <1>2, CutIs
<1>4. /\ d \in Seq(Nat) /\ Len(d) = Len(t) - l
      /\ \A i \in 1 .. w : d[i] = t[i]
      /\ \A i \in w + 1 .. Len(t) - l : d[i] = t[i + l]
  BY CutIs
<1> HIDE DEF c, d
<1>5. Len(c) = Len(d) /\ Len(d) = Len(t) - l /\ Len(u) - (l + n) = Len(t) - l
  BY <1>1, <1>2, <1>3, <1>4
<1>6. ASSUME NEW i \in 1 .. Len(d) PROVE c[i] = d[i]
  <2>1. CASE i <= w
    <3>1. i \in 1 .. w /\ i \in 1 .. p
      BY <2>1, <1>1, <1>5
    <3> QED
      BY <3>1, <1>2, <1>3, <1>4
  <2>2. CASE i > w
    <3>1. /\ i \in w + 1 .. Len(t) - l /\ i + (l + n) = n + (i + l)
          /\ i + l \in p + 1 .. Len(t)
      BY <2>2, <1>1, <1>5
    <3>2. c[i] = u[i + (l + n)] /\ d[i] = t[i + l]
      BY <3>1, <1>3, <1>4, <1>5
    <3>3. u[n + (i + l)] = t[i + l]
      BY <3>1, <1>2
    <3> QED
      BY <3>1, <3>2, <3>3
  <2> QED
    BY <2>1, <2>2, <1>1, <1>5
<1>7. c = d
  BY <1>3, <1>4, <1>5, <1>6, SeqEqual
<1> QED
  BY <1>7 DEF c, d, u, n

(* A deletion behind a deletion, or before it, is taken back with it.      *)
LEMMA PutGrownAfter ==
  ASSUME NEW t \in Seq(Nat), NEW w \in Nat, NEW n \in Nat, w + n <= Len(t),
         NEW x \in Seq(Nat)
  PROVE  Put(Cut(t, w, n), w, x \o Mid(t, w, n)) = Put(t, w, x)
<1> DEFINE u == Cut(t, w, n)
           m == Mid(t, w, n)
           s == x \o m
           l == Len(x)
           c == Put(u, w, s)
           d == Put(t, w, x)
<1>1. Len(t) \in Nat /\ l \in Nat /\ w \in 0 .. Len(t) /\ w <= Len(t) - n
  OBVIOUS
<1>2. /\ u \in Seq(Nat) /\ Len(u) = Len(t) - n
      /\ \A i \in 1 .. w : u[i] = t[i]
      /\ \A i \in w + 1 .. Len(t) - n : u[i] = t[i + n]
  BY CutIs
<1>3. m \in Seq(Nat) /\ Len(m) = n /\ \A i \in 1 .. n : m[i] = t[w + i]
  BY MidIs
<1> HIDE DEF u, m
<1>4. /\ s \in Seq(Nat) /\ Len(s) = l + n
      /\ \A i \in 1 .. l : s[i] = x[i]
      /\ \A i \in 1 .. n : s[l + i] = m[i]
  BY <1>3, Joined
<1>5. /\ d \in Seq(Nat) /\ Len(d) = Len(t) + l
      /\ \A i \in 1 .. w : d[i] = t[i]
      /\ \A i \in 1 .. l : d[w + i] = x[i]
      /\ \A i \in w + 1 .. Len(t) : d[l + i] = t[i]
  BY <1>1, PutIs
<1> HIDE DEF s, l, d
<1>6. /\ c \in Seq(Nat) /\ Len(c) = Len(u) + Len(s)
      /\ \A i \in 1 .. w : c[i] = u[i]
      /\ \A i \in 1 .. Len(s) : c[w + i] = s[i]
      /\ \A i \in w + 1 .. Len(u) : c[Len(s) + i] = u[i]
  <2>1. w \in 0 .. Len(u)
    BY <1>1, <1>2
  <2> QED
    BY <2>1, <1>2, <1>4, PutIs
<1> HIDE DEF c
<1>7. Len(c) = Len(d)
  BY <1>1, <1>2, <1>4, <1>5, <1>6
<1>8. ASSUME NEW i \in 1 .. Len(d) PROVE c[i] = d[i]
  <2>1. CASE i <= w
    <3>1. i \in 1 .. w
      BY <2>1, <1>1
    <3> QED
      BY <3>1, <1>2, <1>5, <1>6
  <2>2. CASE w < i /\ i <= w + l
    <3>1. i - w \in 1 .. l /\ i - w \in 1 .. l + n /\ w + (i - w) = i
      BY <2>2, <1>1
    <3>2. c[w + (i - w)] = s[i - w] /\ s[i - w] = x[i - w] /\ d[w + (i - w)] = x[i - w]
      BY <3>1, <1>4, <1>5, <1>6
    <3> QED
      BY <3>1, <3>2
  <2>3. CASE w + l < i /\ i <= w + l + n
    <3>1. /\ i - w \in 1 .. l + n /\ w + (i - w) = i
          /\ i - w - l \in 1 .. n /\ l + (i - w - l) = i - w
          /\ i - l \in w + 1 .. Len(t) /\ l + (i - l) = i /\ w + (i - w - l) = i - l
      BY <2>3, <1>1
    <3>2. c[w + (i - w)] = s[i - w]
      BY <3>1, <1>4, <1>6
    <3>3. s[l + (i - w - l)] = m[i - w - l] /\ m[i - w - l] = t[w + (i - w - l)]
      BY <3>1, <1>3, <1>4
    <3>4. d[l + (i - l)] = t[i - l]
      BY <3>1, <1>5
    <3> QED
      BY <3>1, <3>2, <3>3, <3>4
  <2>4. CASE w + l + n < i
    <3>1. /\ i - (l + n) \in w + 1 .. Len(t) - n /\ l + n + (i - (l + n)) = i
          /\ i - l \in w + 1 .. Len(t) /\ l + (i - l) = i /\ i - (l + n) + n = i - l
      BY <2>4, <1>1, <1>5
    <3>2. c[l + n + (i - (l + n))] = u[i - (l + n)] /\ u[i - (l + n)] = t[i - (l + n) + n]
      BY <3>1, <1>2, <1>4, <1>6
    <3>3. d[l + (i - l)] = t[i - l]
      BY <3>1, <1>5
    <3> QED
      BY <3>1, <3>2, <3>3
  <2>5. i <= w \/ (w < i /\ i <= w + l) \/ (w + l < i /\ i <= w + l + n) \/ w + l + n < i
    BY <1>1, <1>5
  <2> QED
    BY <2>1, <2>2, <2>3, <2>4, <2>5
<1>9. c = d
  BY <1>5, <1>6, <1>7, <1>8, SeqEqual
<1> QED
  BY <1>9 DEF c, d, s, u, m

LEMMA PutGrownBefore ==
  ASSUME NEW t \in Seq(Nat), NEW p \in Nat, NEW n \in Nat, p + n <= Len(t),
         NEW x \in Seq(Nat)
  PROVE  Put(Cut(t, p, n), p, Mid(t, p, n) \o x) = Put(t, p + n, x)
<1> DEFINE u == Cut(t, p, n)
           m == Mid(t, p, n)
           s == m \o x
           l == Len(x)
           c == Put(u, p, s)
           d == Put(t, p + n, x)
<1>1. Len(t) \in Nat /\ l \in Nat /\ p + n \in 0 .. Len(t) /\ p <= Len(t) - n
  OBVIOUS
<1>2. /\ u \in Seq(Nat) /\ Len(u) = Len(t) - n
      /\ \A i \in 1 .. p : u[i] = t[i]
      /\ \A i \in p + 1 .. Len(t) - n : u[i] = t[i + n]
  BY CutIs
<1>3. m \in Seq(Nat) /\ Len(m) = n /\ \A i \in 1 .. n : m[i] = t[p + i]
  BY MidIs
<1> HIDE DEF u, m
<1>4. /\ s \in Seq(Nat) /\ Len(s) = n + l
      /\ \A i \in 1 .. n : s[i] = m[i]
      /\ \A i \in 1 .. l : s[n + i] = x[i]
  BY <1>3, Joined
<1>5. /\ d \in Seq(Nat) /\ Len(d) = Len(t) + l
      /\ \A i \in 1 .. p + n : d[i] = t[i]
      /\ \A i \in 1 .. l : d[p + n + i] = x[i]
      /\ \A i \in p + n + 1 .. Len(t) : d[l + i] = t[i]
  BY <1>1, PutIs
<1> HIDE DEF s, l, d
<1>6. /\ c \in Seq(Nat) /\ Len(c) = Len(u) + Len(s)
      /\ \A i \in 1 .. p : c[i] = u[i]
      /\ \A i \in 1 .. Len(s) : c[p + i] = s[i]
      /\ \A i \in p + 1 .. Len(u) : c[Len(s) + i] = u[i]
  <2>1. p \in 0 .. Len(u)
    BY <1>1, <1>2
  <2> QED
    BY <2>1, <1>2, <1>4, PutIs
<1> HIDE DEF c
<1>7. Len(c) = Len(d)
  BY <1>1, <1>2, <1>4, <1>5, <1>6
<1>8. ASSUME NEW i \in 1 .. Len(d) PROVE c[i] = d[i]
  <2>1. CASE i <= p
    <3>1. i \in 1 .. p /\ i \in 1 .. p + n
      BY <2>1, <1>1
    <3> QED
      BY <3>1, <1>2, <1>5, <1>6
  <2>2. CASE p < i /\ i <= p + n
    <3>1. i - p \in 1 .. n /\ i - p \in 1 .. n + l /\ p + (i - p) = i
      BY <2>2, <1>1
    <3>2. c[p + (i - p)] = s[i - p]
      BY <3>1, <1>4, <1>6
    <3>3. s[i - p] = m[i - p]
      BY <3>1, <1>4
    <3>4. m[i - p] = t[p + (i - p)]
      BY <3>1, <1>3
    <3>5. d[i] = t[i]
      BY <2>2, <1>1, <1>5
    <3> QED
      BY <3>1, <3>2, <3>3, <3>4, <3>5
  <2>3. CASE p + n < i /\ i <= p + n + l
    <3>1. /\ i - p \in 1 .. n + l /\ p + (i - p) = i
          /\ i - p - n \in 1 .. l /\ n + (i - p - n) = i - p /\ p + n + (i - p - n) = i
      BY <2>3, <1>1
    <3>2. c[p + (i - p)] = s[i - p]
      BY <3>1, <1>4, <1>6
    <3>3. s[n + (i - p - n)] = x[i - p - n] /\ d[p + n + (i - p - n)] = x[i - p - n]
      BY <3>1, <1>4, <1>5
    <3> QED
      BY <3>1, <3>2, <3>3
  <2>4. CASE p + n + l < i
    <3>1. /\ i - (n + l) \in p + 1 .. Len(t) - n /\ n + l + (i - (n + l)) = i
          /\ i - l \in p + n + 1 .. Len(t) /\ l + (i - l) = i /\ i - (n + l) + n = i - l
      BY <2>4, <1>1, <1>5
    <3>2. c[n + l + (i - (n + l))] = u[i - (n + l)] /\ u[i - (n + l)] = t[i - (n + l) + n]
      BY <3>1, <1>2, <1>4, <1>6
    <3>3. d[l + (i - l)] = t[i - l]
      BY <3>1, <1>5
    <3> QED
      BY <3>1, <3>2, <3>3
  <2>5. i <= p \/ (p < i /\ i <= p + n) \/ (p + n < i /\ i <= p + n + l) \/ p + n + l < i
    BY <1>1, <1>5
  <2> QED
    BY <2>1, <2>2, <2>3, <2>4, <2>5
<1>9. c = d
  BY <1>5, <1>6, <1>7, <1>8, SeqEqual
<1> QED
  BY <1>9 DEF c, d, s, u, m

-----------------------------------------------------------------------------
(* The records lead from a text back to the text before each of them: T[i] *)
(* is the text that record i was made for, or would be after the records   *)
(* behind it were taken back.                                              *)
Fits(rec, t) ==
  /\ rec.len > 0
  /\ IF rec.del THEN rec.where <= Len(t) /\ Len(rec.text) = rec.len
                ELSE rec.where + rec.len <= Len(t)

Chain(T, r, t) ==
  /\ T \in [0 .. Len(r) -> Seq(Nat)] /\ T[Len(r)] = t
  /\ \A i \in 1 .. Len(r) : Fits(r[i], T[i]) /\ T[i - 1] = Revert(T[i], r[i])

LEMMA RevertIs ==
  ASSUME NEW t, NEW rec
  PROVE  /\ rec.del => Revert(t, rec) = Put(t, rec.where, rec.text)
         /\ ~rec.del => Revert(t, rec) = Cut(t, rec.where, rec.len)
  BY DEF Revert, Put, Cut

(* A record is appended for a change that it takes back.                   *)
LEMMA Appended ==
  ASSUME NEW r \in Seq(Record), NEW T, NEW t, Chain(T, r, t), NEW rec \in Record,
         NEW u \in Seq(Nat), Fits(rec, u), Revert(u, rec) = t
  PROVE  \E U : Chain(U, Append(r, rec), u) /\ \A i \in 0 .. Len(r) : U[i] = T[i]
<1> DEFINE n == Len(r)
           q == Append(r, rec)
           U == [i \in 0 .. n + 1 |-> IF i = n + 1 THEN u ELSE T[i]]
<1>1. n \in Nat /\ Len(q) = n + 1 /\ q[n + 1] = rec /\ \A i \in 1 .. n : q[i] = r[i]
  OBVIOUS
<1>2. /\ T \in [0 .. n -> Seq(Nat)] /\ T[n] = t
      /\ \A i \in 1 .. n : Fits(r[i], T[i]) /\ T[i - 1] = Revert(T[i], r[i])
  BY DEF Chain
<1> HIDE DEF n, q
<1>3. U \in [0 .. n + 1 -> Seq(Nat)] /\ U[n + 1] = u /\ \A i \in 0 .. n : U[i] = T[i]
  BY <1>1, <1>2
<1> HIDE DEF U
<1>4. ASSUME NEW i \in 1 .. n + 1
      PROVE  Fits(q[i], U[i]) /\ U[i - 1] = Revert(U[i], q[i])
  <2>1. CASE i = n + 1
    <3>1. i - 1 = n /\ n \in 0 .. n
      BY <2>1, <1>1
    <3> QED
      BY <3>1, <2>1, <1>1, <1>2, <1>3
  <2>2. CASE i # n + 1
    <3>1. i \in 1 .. n /\ i \in 0 .. n /\ i - 1 \in 0 .. n
      BY <2>2, <1>1
    <3> QED
      BY <3>1, <1>1, <1>2, <1>3
  <2> QED
    BY <2>1, <2>2
<1>5. Chain(U, q, u)
  BY <1>1, <1>3, <1>4 DEF Chain
<1> QED
  BY <1>3, <1>5 DEF q, n

(* The newest record grows by a change that it takes back with its own.    *)
LEMMA Regrown ==
  ASSUME NEW r \in Seq(Record), r # <<>>, NEW T, NEW t, Chain(T, r, t), NEW rec \in Record,
         NEW u \in Seq(Nat), Fits(rec, u), Revert(u, rec) = Revert(t, r[Len(r)])
  PROVE  \E U : /\ Chain(U, [r EXCEPT ![Len(r)] = rec], u)
                /\ \A i \in 0 .. Len(r) - 1 : U[i] = T[i]
<1> DEFINE n == Len(r)
           q == [r EXCEPT ![n] = rec]
           U == [i \in 0 .. n |-> IF i = n THEN u ELSE T[i]]
<1>0. n \in Nat \ {0} /\ n \in 1 .. Len(r)
  OBVIOUS
<1>1. Len(q) = n /\ q[n] = rec /\ \A i \in 1 .. n - 1 : q[i] = r[i]
  BY <1>0, ExceptSeq
<1>2. /\ T \in [0 .. n -> Seq(Nat)] /\ T[n] = t
      /\ \A i \in 1 .. n : Fits(r[i], T[i]) /\ T[i - 1] = Revert(T[i], r[i])
  BY DEF Chain
<1>3. Revert(u, rec) = Revert(t, r[n])
  OBVIOUS
<1> HIDE DEF n, q
<1>4. U \in [0 .. n -> Seq(Nat)] /\ U[n] = u /\ \A i \in 0 .. n - 1 : U[i] = T[i]
  BY <1>0, <1>2
<1> HIDE DEF U
<1>5. ASSUME NEW i \in 1 .. n
      PROVE  Fits(q[i], U[i]) /\ U[i - 1] = Revert(U[i], q[i])
  <2>1. CASE i = n
    <3>1. n - 1 \in 0 .. n - 1 /\ n \in 1 .. n
      BY <1>0
    <3>2. U[n - 1] = Revert(t, r[n])
      BY <3>1, <1>2, <1>4
    <3> QED
      BY <3>2, <2>1, <1>1, <1>3, <1>4
  <2>2. CASE i # n
    <3>1. i \in 1 .. n - 1 /\ i \in 0 .. n - 1 /\ i - 1 \in 0 .. n - 1
      BY <2>2, <1>0
    <3> QED
      BY <3>1, <1>1, <1>2, <1>4
  <2> QED
    BY <2>1, <2>2
<1>6. Chain(U, q, u)
  BY <1>1, <1>4, <1>5 DEF Chain
<1> QED
  BY <1>4, <1>6 DEF q, n

(* What recording a change does to the texts: those before the newest      *)
(* record stay, and a record says that its buffer was unmodified only if   *)
(* it said so before or the buffer is unmodified now.                      *)
RecordsOf(T, U) ==
  /\ Chain(U, recs', text') /\ Len(recs') >= Len(recs)
  /\ \A i \in 0 .. Len(recs) - 1 : U[i] = T[i]
  /\ Len(recs') > Len(recs) => U[Len(recs)] = text
  /\ \A i \in 1 .. Len(recs') : ~recs'[i].changed =>
       \/ i <= Len(recs) /\ ~recs[i].changed
       \/ ~changed /\ U[i - 1] = text

LEMMA EnquebRecords ==
  ASSUME recs \in Seq(Record), NEW T, Chain(T, recs, text), NEW rec \in Record,
         rec.changed = changed, enqueb(rec),
         text' \in Seq(Nat), Fits(rec, text'), Revert(text', rec) = text
  PROVE  \E U : RecordsOf(T, U)
<1>1. /\ recs' = Append(recs, rec) /\ Len(recs) \in Nat /\ Len(recs') = Len(recs) + 1
      /\ recs'[Len(recs) + 1] = rec /\ \A i \in 1 .. Len(recs) : recs'[i] = recs[i]
  BY DEF enqueb
<1>2. PICK U : Chain(U, Append(recs, rec), text') /\ \A i \in 0 .. Len(recs) : U[i] = T[i]
  BY Appended
<1>3. U[Len(recs)] = text
  BY <1>1, <1>2 DEF Chain
<1>4. ASSUME NEW i \in 1 .. Len(recs'), ~recs'[i].changed
      PROVE  (i <= Len(recs) /\ ~recs[i].changed) \/ (~changed /\ U[i - 1] = text)
  <2>1. CASE i = Len(recs) + 1
    BY <2>1, <1>1, <1>3, <1>4
  <2>2. CASE i # Len(recs) + 1
    BY <2>2, <1>1, <1>4
  <2> QED
    BY <2>1, <2>2
<1>5. \A i \in 0 .. Len(recs) - 1 : U[i] = T[i]
  BY <1>1, <1>2
<1> QED
  BY <1>1, <1>2, <1>3, <1>4, <1>5 DEF RecordsOf

LEMMA GrowRecords ==
  ASSUME recs \in Seq(Record), recs # <<>>, NEW T, Chain(T, recs, text),
         NEW rec \in Record, rec.changed = Newest.changed, GrowNewest(rec),
         text' \in Seq(Nat), Fits(rec, text'), Revert(text', rec) = Revert(text, Newest)
  PROVE  \E U : RecordsOf(T, U)
<1>1. /\ recs' = [recs EXCEPT ![Len(recs)] = rec] /\ Len(recs) \in Nat \ {0}
      /\ Len(recs) \in 1 .. Len(recs) /\ Newest = recs[Len(recs)]
  BY DEF GrowNewest, Newest
<1>2. /\ Len(recs') = Len(recs) /\ recs'[Len(recs)] = rec
      /\ \A i \in 1 .. Len(recs) : i # Len(recs) => recs'[i] = recs[i]
  BY <1>1, ExceptSeq
<1>3. \A i \in 1 .. Len(recs) : recs'[i].changed = recs[i].changed
  BY <1>1, <1>2
<1>4. Revert(text', rec) = Revert(text, recs[Len(recs)])
  BY <1>1
<1>5. \E U : /\ Chain(U, [recs EXCEPT ![Len(recs)] = rec], text')
             /\ \A i \in 0 .. Len(recs) - 1 : U[i] = T[i]
  BY <1>4, Regrown
<1>6. recs' = [recs EXCEPT ![Len(recs)] = rec] /\ Len(recs) \in Nat /\ Len(recs') = Len(recs)
  BY <1>1, <1>2
<1> DEFINE q == [recs EXCEPT ![Len(recs)] = rec]
<1> HIDE DEF q
<1>7. \E U : Chain(U, q, text') /\ \A i \in 0 .. Len(recs) - 1 : U[i] = T[i]
  BY <1>5 DEF q
<1>8. recs' = q
  BY <1>6 DEF q
<1>9. PICK U : Chain(U, recs', text') /\ \A i \in 0 .. Len(recs) - 1 : U[i] = T[i]
  BY <1>7, <1>8
<1>10. Len(recs') >= Len(recs) /\ ~(Len(recs') > Len(recs))
  <2>1. Len(recs') = Len(recs) /\ Len(recs) \in Nat
    BY <1>6
  <2> QED
    BY <2>1
<1>11. \A i \in 1 .. Len(recs') : ~recs'[i].changed => i <= Len(recs) /\ ~recs[i].changed
  <2>1. Len(recs') = Len(recs) /\ Len(recs) \in Nat
    BY <1>6
  <2> QED
    BY <2>1, <1>3
<1> QED
  BY <1>9, <1>10, <1>11 DEF RecordsOf

(* binsm, binsb and bdel: a change by the user.                            *)
LEMMA TextIs ==
  ASSUME text \in Seq(Nat), NEW p \in Nat
  PROVE  /\ p <= Len(text) => Clip(p) = p /\ \A s : With(p, s) = Put(text, p, s)
         /\ \A n \in Nat : p + n <= Len(text) => Without(p, n) = Cut(text, p, n)
         /\ \A n : Bytes(p, n) = Mid(text, p, n)
<1>1. Len(text) \in Nat
  OBVIOUS
<1>2. ASSUME NEW n \in Nat, p + n <= Len(text)
      PROVE  Clip(p) = p /\ Clip(p + n) = p + n
  BY <1>1, <1>2 DEF Clip
<1>3. p <= Len(text) => Clip(p) = p
  BY <1>1 DEF Clip
<1> QED
  BY <1>2, <1>3 DEF With, Without, Upto, From, Bytes, Put, Cut, Mid

(* The parts of an insertion that has grown.                               *)
LEMMA LongerParts ==
  ASSUME NEW r \in Record, NEW l \in Nat, NEW g, g = [r EXCEPT !.len = l]
  PROVE  /\ g \in Record /\ g.len = l /\ g.where = r.where /\ g.text = r.text
         /\ g.del = r.del /\ g.changed = r.changed
  BY DEF Record

LEMMA InsertRecords ==
  ASSUME TypeOK, NEW T, Chain(T, recs, text), NEW p \in 0 .. Len(text),
         NEW s \in Seq(Nat), Len(s) > 0, text' = Put(text, p, s), undoins(p, Len(s))
  PROVE  \E U : RecordsOf(T, U)
<1> DEFINE n == Len(s)
<1>1. /\ text \in Seq(Nat) /\ recs \in Seq(Record) /\ changed \in BOOLEAN
      /\ Len(text) \in Nat /\ n \in Nat /\ p \in Nat /\ <<>> \in Seq(Nat)
  BY DEF TypeOK
<1>2. text' \in Seq(Nat) /\ Len(text') = Len(text) + n
  BY <1>1, PutIs
<1>3. CASE Mergeable(FALSE) /\ p \in {Newest.where, Newest.where + Newest.len}
  <2> DEFINE w == Newest.where
             l == Newest.len
             g == [Newest EXCEPT !.len = l + n]
  <2>1. recs # <<>> /\ ~Newest.del /\ Len(recs) \in Nat \ {0}
    BY <1>1, <1>3 DEF Mergeable
  <2>2. Newest \in Record
    BY <1>1, <2>1 DEF Newest
  <2>3. Fits(Newest, text)
    BY <2>1 DEF Chain, Newest
  <2>4. w \in Nat /\ l \in Nat /\ l > 0 /\ w + l <= Len(text)
    BY <2>1, <2>2, <2>3 DEF Fits, Record
  <2>5. GrowNewest(g)
    BY <1>3 DEF undoins
  <2>6. l + n \in Nat /\ p \in w .. w + l
    <3>1. p = w \/ p = w + l
      BY <1>3
    <3>2. n \in Nat
      BY <1>1
    <3> HIDE DEF w, l, n
    <3> QED
      BY <2>4, <3>1, <3>2
  <2>7. g \in Record /\ g.len = l + n /\ g.where = w /\ ~g.del /\ g.changed = Newest.changed
    <3> HIDE DEF l
    <3>1. /\ g \in Record /\ g.len = l + n /\ g.where = Newest.where /\ g.text = Newest.text
          /\ g.del = Newest.del /\ g.changed = Newest.changed
      BY <2>2, <2>6, LongerParts
    <3> QED
      BY <3>1, <2>1
  <2> HIDE DEF g
  <2>8. Revert(text', g) = Cut(text', w, l + n) /\ Revert(text, Newest) = Cut(text, w, l)
    BY <2>1, <2>7, RevertIs
  <2>9. Cut(text', w, l + n) = Cut(text, w, l)
    BY <1>1, <2>4, <2>6, CutGrown
  <2>10. Fits(g, text')
    <3>0. n \in Nat /\ n > 0 /\ Len(text') = Len(text) + n /\ Len(text) \in Nat
      BY <1>1, <1>2
    <3>1. l + n > 0 /\ w + (l + n) <= Len(text')
      <4> HIDE DEF n, w, l
      <4> QED
        BY <3>0, <2>4
    <3> QED
      BY <3>1, <2>7 DEF Fits
  <2> QED
    BY <1>1, <1>2, <2>1, <2>5, <2>7, <2>8, <2>9, <2>10, GrowRecords
<1>4. CASE ~(Mergeable(FALSE) /\ p \in {Newest.where, Newest.where + Newest.len})
  <2> DEFINE g == NewRec(p, n, <<>>, FALSE)
  <2>1. enqueb(g)
    BY <1>4 DEF undoins
  <2>2. g \in Record /\ g.where = p /\ g.len = n /\ ~g.del /\ g.changed = changed
    BY <1>1 DEF NewRec, Record, Link, Null
  <2> HIDE DEF g
  <2>3. Revert(text', g) = Cut(text', p, n)
    BY <2>2, RevertIs
  <2>4. Cut(text', p, n) = text
    BY <1>1, CutPut
  <2>5. Fits(g, text')
    <3>0. n \in Nat /\ n > 0 /\ Len(text') = Len(text) + n /\ Len(text) \in Nat
      BY <1>1, <1>2
    <3>1. n > 0 /\ p + n <= Len(text')
      <4> HIDE DEF n
      <4> QED
        BY <3>0, <1>1
    <3> QED
      BY <3>1, <2>2 DEF Fits
  <2> QED
    BY <1>1, <1>2, <2>1, <2>2, <2>3, <2>4, <2>5, EnquebRecords
<1> QED
  BY <1>3, <1>4

LEMMA DeleteRecords ==
  ASSUME TypeOK, NEW T, Chain(T, recs, text), NEW p \in Nat, NEW n \in Nat, n > 0,
         p + n <= Len(text), text' = Cut(text, p, n), NEW s, s = Mid(text, p, n),
         undodel(p, s)
  PROVE  \E U : RecordsOf(T, U)
<1>1. /\ text \in Seq(Nat) /\ recs \in Seq(Record) /\ changed \in BOOLEAN
      /\ Len(text) \in Nat
  BY DEF TypeOK
<1>2. text' \in Seq(Nat) /\ Len(text') = Len(text) - n
  BY <1>1, CutIs
<1>3. s \in Seq(Nat) /\ Len(s) = n
  BY <1>1, MidIs
<1>4. ASSUME Mergeable(TRUE)
      PROVE  /\ recs # <<>> /\ Newest.del /\ Newest \in Record
             /\ Newest.where \in Nat /\ Newest.len \in Nat /\ Newest.text \in Seq(Nat)
             /\ Newest.len > 0 /\ Newest.where <= Len(text) /\ Len(Newest.text) = Newest.len
  <2>1. recs # <<>> /\ Newest.del /\ Len(recs) \in Nat \ {0}
    BY <1>1, <1>4 DEF Mergeable
  <2>2. Newest \in Record
    BY <1>1, <2>1 DEF Newest
  <2>3. Fits(Newest, text)
    BY <2>1 DEF Chain, Newest
  <2> QED
    BY <2>1, <2>2, <2>3 DEF Fits, Record
<1>5. CASE Mergeable(TRUE) /\ p = Newest.where
  <2> DEFINE l == Newest.len
             x == Newest.text \o s
             g == [Newest EXCEPT !.text = x, !.len = l + n]
  <2>1. /\ recs # <<>> /\ Newest.del /\ Newest \in Record
        /\ Newest.where = p /\ l \in Nat /\ Newest.text \in Seq(Nat)
        /\ l > 0 /\ Len(Newest.text) = l
    BY <1>4, <1>5
  <2>2. x \in Seq(Nat) /\ Len(x) = l + n
    <3>1. x \in Seq(Nat) /\ Len(x) = Len(Newest.text) + Len(s)
      BY <1>3, <2>1, Joined, Zenon
    <3> QED
      BY <3>1, <1>3, <2>1
  <2>3. GrowNewest(g)
    BY <1>3, <1>5 DEF undodel
  <2>4. l + n \in Nat /\ l + n > 0 /\ p <= Len(text')
    <3>1. n \in Nat /\ l \in Nat /\ l > 0
      BY <1>1, <1>3, <2>1
    <3> HIDE DEF l
    <3>2. l + n \in Nat /\ l + n > 0
      BY <3>1
    <3> QED
      BY <3>2, <1>1, <1>2
  <2>5. /\ g \in Record /\ g.len = l + n /\ g.where = p /\ g.text = x
        /\ g.del = Newest.del /\ g.changed = Newest.changed
    <3> HIDE DEF x, l
    <3>1. l + n \in Nat /\ x \in Seq(Nat)
      BY <2>2, <2>4
    <3>2. g \in Record /\ g.len = l + n /\ g.where = Newest.where /\ g.text = x
      BY <3>1, <2>1 DEF Record
    <3>3. g.del = Newest.del /\ g.changed = Newest.changed
      BY <3>1, <2>1 DEF Record
    <3> QED
      BY <2>1, <3>2, <3>3
  <2> HIDE DEF g
  <2>6. Revert(text', g) = Put(text', p, x) /\ Revert(text, Newest) = Put(text, p, Newest.text)
    BY <2>1, <2>5, RevertIs
  <2>7. Put(text', p, x) = Put(text, p, Newest.text)
    BY <1>1, <2>1, PutGrownAfter
  <2>8. Fits(g, text')
    <3> HIDE DEF x, l
    <3> QED
      BY <2>1, <2>2, <2>4, <2>5 DEF Fits
  <2> QED
    BY <1>1, <1>2, <2>1, <2>3, <2>5, <2>6, <2>7, <2>8, GrowRecords
<1>6. CASE ~(Mergeable(TRUE) /\ p = Newest.where) /\ Mergeable(TRUE) /\ p + n = Newest.where
  <2> DEFINE l == Newest.len
             x == s \o Newest.text
             g == [Newest EXCEPT !.text = x, !.len = l + n, !.where = p]
  <2>1. /\ recs # <<>> /\ Newest.del /\ Newest \in Record
        /\ Newest.where = p + n /\ l \in Nat /\ Newest.text \in Seq(Nat)
        /\ l > 0 /\ Len(Newest.text) = l
    BY <1>4, <1>6
  <2>2. x \in Seq(Nat) /\ Len(x) = n + l
    <3>1. x \in Seq(Nat) /\ Len(x) = Len(s) + Len(Newest.text)
      BY <1>3, <2>1, Joined, Zenon
    <3> QED
      BY <3>1, <1>3, <2>1
  <2>3. GrowNewest(g)
    BY <1>3, <1>6 DEF undodel
  <2>4. l + n \in Nat /\ l + n > 0 /\ p <= Len(text') /\ n + l = l + n
    <3>1. l \in Nat /\ l > 0 /\ Len(text') = Len(text) - n /\ Len(text) \in Nat
      BY <1>1, <1>2, <2>1
    <3> HIDE DEF l
    <3> QED
      BY <3>1
  <2>5. /\ g \in Record /\ g.len = l + n /\ g.where = p /\ g.text = x
        /\ g.del = Newest.del /\ g.changed = Newest.changed
    <3> HIDE DEF x, l
    <3>1. l + n \in Nat /\ x \in Seq(Nat)
      BY <2>2, <2>4
    <3>2. g \in Record /\ g.len = l + n /\ g.where = p /\ g.text = x
      BY <3>1, <2>1 DEF Record
    <3>3. g.del = Newest.del /\ g.changed = Newest.changed
      BY <3>1, <2>1 DEF Record
    <3> QED
      BY <3>2, <3>3
  <2> HIDE DEF g
  <2>6. /\ Revert(text', g) = Put(text', p, x)
        /\ Revert(text, Newest) = Put(text, p + n, Newest.text)
    BY <2>1, <2>5, RevertIs
  <2>7. Put(text', p, x) = Put(text, p + n, Newest.text)
    BY <1>1, <2>1, PutGrownBefore
  <2>8. Fits(g, text')
    <3> HIDE DEF x, l
    <3> QED
      BY <2>1, <2>2, <2>4, <2>5 DEF Fits
  <2> QED
    BY <1>1, <1>2, <2>1, <2>3, <2>5, <2>6, <2>7, <2>8, GrowRecords
<1>7. CASE /\ ~(Mergeable(TRUE) /\ p = Newest.where)
           /\ ~(Mergeable(TRUE) /\ p + n = Newest.where)
  <2> DEFINE g == NewRec(p, n, s, TRUE)
  <2>1. enqueb(g)
    BY <1>3, <1>7 DEF undodel
  <2>2. g \in Record /\ g.where = p /\ g.len = n /\ g.text = s /\ g.del /\ g.changed = changed
    BY <1>1, <1>3 DEF NewRec, Record, Link, Null
  <2> HIDE DEF g
  <2>3. Revert(text', g) = Put(text', p, s)
    BY <2>2, RevertIs
  <2>4. Put(text', p, s) = text
    BY <1>1, PutCut
  <2>5. Fits(g, text')
    <3>1. p <= Len(text')
      BY <1>1, <1>2
    <3> QED
      BY <3>1, <1>3, <2>2 DEF Fits
  <2> QED
    BY <1>1, <1>2, <2>1, <2>2, <2>3, <2>4, <2>5, EnquebRecords
<1> QED
  BY <1>5, <1>6, <1>7

-----------------------------------------------------------------------------
(* The invariant.  For some texts that the records lead back through: when *)
(* the user is undoing, the text is the one before the record at ptr; and  *)
(* if every save has met one unmodified record at most, each record made   *)
(* on an unmodified buffer leads back to the text of the file.  ptr = 1 is *)
(* left out, for ptr is put there when the unit it is in is evicted.       *)
Marks(T) ==
  /\ \A i \in 1 .. Len(recs) : ~recs[i].changed => T[i - 1] = disk
  /\ ~changed => text = disk

SavedBy(T) ==
  /\ Chain(T, recs, text)
  /\ ptr \notin {Null, Anchor, 1} => T[ptr - 1] = text
  /\ unique => Marks(T)

(* A save leaves no record that says its buffer was unmodified.            *)
SaveMarks ==
  unique /\ kind = "save" /\ pc = "run" /\ steps > 0 =>
    \A i \in 1 .. Len(recs) : recs[i].changed

SavedInv == (\E T : SavedBy(T)) /\ SaveMarks /\ (pc = "idle" => steps = 0)

(* A change of the fields that undo does not read.                         *)
LEMMA SameChain ==
  ASSUME NEW r, NEW q, NEW T, NEW t, Chain(T, r, t), Len(q) = Len(r),
         \A i \in 1 .. Len(r) : /\ q[i].where = r[i].where /\ q[i].len = r[i].len
                                /\ q[i].text = r[i].text /\ q[i].del = r[i].del
  PROVE  Chain(T, q, t)
<1>1. ASSUME NEW i \in 1 .. Len(r)
      PROVE  (Fits(r[i], T[i]) => Fits(q[i], T[i])) /\ Revert(T[i], q[i]) = Revert(T[i], r[i])
  BY DEF Fits, Revert
<1> QED
  BY <1>1 DEF Chain

(* A recorded change keeps what the older records lead back to.            *)
LEMMA RecordedSaved ==
  ASSUME recs \in Seq(Record), NEW T, SavedBy(T), NEW U, RecordsOf(T, U),
         disk' = disk, unique' => unique,
         ptr' \notin {Null, Anchor, 1} => U[ptr' - 1] = text',
         unique /\ ~changed' => text' = disk
  PROVE  SavedBy(U)'
<1>1. Chain(U, recs', text')
  BY DEF RecordsOf
<1>2. ASSUME unique', NEW i \in 1 .. Len(recs'), ~recs'[i].changed
      PROVE  U[i - 1] = disk'
  <2>1. CASE i <= Len(recs) /\ ~recs[i].changed
    <3>1. Len(recs) \in Nat /\ i \in 1 .. Len(recs) /\ i - 1 \in 0 .. Len(recs) - 1
      BY <1>2, <2>1
    <3>2. U[i - 1] = T[i - 1]
      BY <3>1 DEF RecordsOf
    <3> QED
      BY <1>2, <2>1, <3>1, <3>2 DEF SavedBy, Marks
  <2>2. CASE ~changed /\ U[i - 1] = text
    BY <1>2, <2>2 DEF SavedBy, Marks
  <2> QED
    BY <1>2, <2>1, <2>2 DEF RecordsOf
<1> QED
  BY <1>1, <1>2 DEF SavedBy, Marks

LEMMA BeginSaved ==
  ASSUME TypeOK, SavedInv, NEW k \in Kinds, Begin(k), unique' => unique
  PROVE  SavedInv'
<1>1. PICK T : SavedBy(T)
  BY DEF SavedInv
<1>2. /\ Len(recs') = Len(recs)
      /\ \A i \in 1 .. Len(recs) :
           /\ recs'[i].where = recs[i].where /\ recs'[i].len = recs[i].len
           /\ recs'[i].text = recs[i].text /\ recs'[i].del = recs[i].del
           /\ recs'[i].changed = recs[i].changed
  <2>1. CASE recs' = recs
    BY <2>1
  <2>2. CASE recs' = Cleared(recs)
    <3>1. Len(recs') = Len(recs)
      BY <2>2, ClearedList, TypeOfList
    <3>2. \A i \in 1 .. Len(recs) : recs'[i] = [recs[i] EXCEPT !.min = FALSE]
      BY <2>2 DEF Cleared
    <3>3. \A i \in 1 .. Len(recs) : recs[i] \in Record
      BY DEF TypeOK
    <3> QED
      BY <3>1, <3>2, <3>3 DEF Record
  <2> QED
    BY <2>1, <2>2 DEF Begin
<1>3. Chain(T, recs', text')
  BY <1>1, <1>2, SameChain DEF SavedBy, Begin
<1>4. UNCHANGED <<text, changed, disk, ptr, steps>>
  BY DEF Begin
<1>5. SavedBy(T)'
  BY <1>1, <1>2, <1>3, <1>4 DEF SavedBy, Marks
<1>6. steps' = 0
  BY DEF Begin, SavedInv
<1> QED
  BY <1>5, <1>6 DEF SavedInv, SaveMarks

(* A change by the user: the buffer is modified, and no text is known to   *)
(* be the one at ptr.                                                      *)
LEMMA ChangeSaved ==
  ASSUME TypeOK, SavedInv, NEW T, SavedBy(T), NEW U, RecordsOf(T, U), undoover,
         disk' = disk, changed' = TRUE, unique' => unique,
         kind \in {"minor", "edit"}, Step("run")
  PROVE  SavedInv'
<1>1. ptr' \in {Null, Anchor}
  BY DEF undoover
<1>2. SavedBy(U)'
  BY <1>1, RecordedSaved DEF TypeOK
<1> QED
  BY <1>2 DEF SavedInv, SaveMarks, Step

LEMMA InsertSaved ==
  ASSUME NoRedo, TypeOK, SavedInv, NEW p \in 0 .. MaxText, NEW s \in Chunk, Insert(p, s),
         unique' => unique
  PROVE  SavedInv'
<1>1. /\ p <= Len(text) /\ text' = With(p, s) /\ undoover /\ undoins(p, Len(s))
      /\ changed' = TRUE /\ disk' = disk /\ Step("run") /\ kind \in {"minor", "edit"}
  BY DEF Insert, May, NoRedo, TypeOK
<1>2. text \in Seq(Nat) /\ p \in Nat /\ p \in 0 .. Len(text) /\ s \in Seq(Nat) /\ Len(s) > 0
  <2>1. s \in Seq(Nat) /\ s # <<>>
    BY ChunkAssumption
  <2> QED
    BY <1>1, <2>1, BoundAssumption DEF TypeOK
<1>3. text' = Put(text, p, s)
  BY <1>1, <1>2, TextIs
<1>4. PICK T : SavedBy(T)
  BY DEF SavedInv
<1>5. Chain(T, recs, text)
  BY <1>4 DEF SavedBy
<1>6. \E U : RecordsOf(T, U)
  BY <1>1, <1>2, <1>3, <1>5, InsertRecords
<1> QED
  BY <1>1, <1>4, <1>6, ChangeSaved

LEMMA DeleteSaved ==
  ASSUME NoRedo, TypeOK, SavedInv, NEW p \in 0 .. MaxText, NEW n \in 1 .. MaxText,
         Delete(p, n), unique' => unique
  PROVE  SavedInv'
<1>1. /\ p + n <= Len(text) /\ text' = Without(p, n) /\ undoover /\ undodel(p, Bytes(p, n))
      /\ changed' = TRUE /\ disk' = disk /\ Step("run") /\ kind \in {"minor", "edit"}
  BY DEF Delete, May, NoRedo, TypeOK
<1>2. text \in Seq(Nat) /\ p \in Nat /\ n \in Nat /\ n > 0
  BY BoundAssumption DEF TypeOK
<1>3. text' = Cut(text, p, n) /\ Bytes(p, n) = Mid(text, p, n)
  BY <1>1, <1>2, TextIs
<1>4. PICK T : SavedBy(T)
  BY DEF SavedInv
<1>5. Chain(T, recs, text)
  BY <1>4 DEF SavedBy
<1>6. \E U : RecordsOf(T, U)
  BY <1>1, <1>2, <1>3, <1>5, DeleteRecords
<1> QED
  BY <1>1, <1>4, <1>6, ChangeSaved

(* uundo up to its loop moves ptr from Null to the end of the list.        *)
LEMMA UndoSaved ==
  ASSUME NoRedo, TypeOK, SavedInv, Undo, unique' => unique
  PROVE  SavedInv'
<1>1. PICK T : SavedBy(T)
  BY DEF SavedInv
<1>2. /\ UNCHANGED <<text, changed, disk, recs>> /\ kind = "undo" /\ kind' = kind
      /\ pc' # "idle" /\ (ptr' = ptr \/ ptr' = Anchor)
  BY DEF Undo, May, Step, NoRedo, TypeOK
<1>3. SavedBy(T)'
  BY <1>1, <1>2 DEF SavedBy, Marks
<1> QED
  BY <1>2, <1>3 DEF SavedInv, SaveMarks

(* doundo: a record is taken back, and what takes that back is recorded.   *)
LEMMA UndoneRecords ==
  ASSUME TypeOK, NEW T, Chain(T, recs, text), NEW rec \in Record, Fits(rec, text),
         text' = Reverted(rec), InverseOf(rec)
  PROVE  /\ text' = Revert(text, rec) /\ \E U : RecordsOf(T, U)
         /\ (\E p, n : undoins(p, n)) \/ (\E p, s : undodel(p, s))
<1>1. text \in Seq(Nat) /\ Len(text) \in Nat
  BY LenProperties DEF TypeOK
<1>2. /\ rec.where \in Nat /\ rec.len \in Nat /\ rec.text \in Seq(Nat) /\ rec.len > 0
      /\ rec.where <= Len(text) /\ Clip(rec.where) = rec.where
      /\ rec.del => Len(rec.text) = rec.len
      /\ ~rec.del => rec.where + rec.len <= Len(text)
  <2>1. rec.where \in Nat /\ rec.len \in Nat /\ rec.text \in Seq(Nat)
    BY DEF Record
  <2>2. /\ rec.len > 0 /\ rec.where <= Len(text)
        /\ rec.del => Len(rec.text) = rec.len
        /\ ~rec.del => rec.where + rec.len <= Len(text)
    BY <1>1, <2>1 DEF Fits
  <2> QED
    BY <1>1, <2>1, <2>2, TextIs
<1>3. CASE rec.del
  <2>1. text' = Put(text, rec.where, rec.text)
    BY <1>1, <1>2, <1>3, TextIs DEF Reverted
  <2>2. undoins(rec.where, Len(rec.text)) /\ Len(rec.text) > 0
    BY <1>2, <1>3 DEF InverseOf
  <2>3. rec.where \in 0 .. Len(text)
    BY <1>1, <1>2
  <2> QED
    BY <1>2, <1>3, <2>1, <2>2, <2>3, InsertRecords, RevertIs
<1>4. CASE ~rec.del
  <2>1. /\ rec.where + rec.len <= Len(text) /\ rec.where + rec.len \in Nat
        /\ Clip(rec.where + rec.len) = rec.where + rec.len
        /\ Clip(rec.where + rec.len) - Clip(rec.where) = rec.len
    BY <1>1, <1>2, <1>4 DEF Clip
  <2>2. text' = Cut(text, rec.where, rec.len)
    BY <1>2, <1>4, <2>1 DEF Reverted, Upto, From, Cut
  <2>3. Bytes(rec.where, rec.len) = Mid(text, rec.where, rec.len)
    BY DEF Bytes, Mid
  <2>4. Mid(text, rec.where, rec.len) # <<>>
    BY <1>1, <1>2, <2>1, MidIs
  <2>5. undodel(rec.where, Mid(text, rec.where, rec.len))
    BY <1>2, <1>4, <2>1, <2>3, <2>4 DEF InverseOf
  <2> QED
    BY <1>2, <1>4, <2>1, <2>2, <2>5, DeleteRecords, RevertIs
<1> QED
  BY <1>3, <1>4

(* One iteration of uundo: the record before ptr is taken back, and what   *)
(* takes that back is recorded.                                            *)
LEMMA UndoRecSaved ==
  ASSUME TypeOK, UndoInv, SavedInv, UndoRec, unique' => unique
  PROVE  SavedInv'
<1> DEFINE p == Prev(ptr)
           rec == recs[p]
<1>1. /\ Len(recs) \in Nat /\ Closed \in 0 .. Len(recs)
      /\ recs \in Seq(Record) /\ text \in Seq(Nat) /\ Len(text) \in Nat
  BY TypeOfList DEF Closed, UndoInv, OpenUnit, InList, Null, TypeOK
<1>2. PICK T : SavedBy(T)
  BY DEF SavedInv
<1>3. /\ pc = "undoing" /\ kind = "undo" /\ ptr # Null
      /\ upto \in 1 .. Closed /\ upto <= p
      /\ (ptr # Anchor => ptr \in 1 .. Closed)
  BY DEF UndoRec, UndoInv, LoopInv, PtrInv
<1>4. p \in 1 .. Len(recs) /\ T[p] = text
  <2>1. CASE ptr = Anchor
    <3>1. p = Len(recs) /\ p \in 1 .. Len(recs)
      BY <1>1, <1>3, <2>1 DEF Prev, Anchor
    <3> QED
      BY <3>1, <1>2 DEF SavedBy, Chain
  <2>2. CASE ptr # Anchor
    <3>1. ptr # 1 /\ p = ptr - 1 /\ p \in 1 .. Len(recs)
      BY <1>1, <1>3, <2>2 DEF Prev, Anchor, Freed
    <3> QED
      BY <3>1, <2>2, <1>2, <1>3 DEF SavedBy
  <2> QED
    BY <2>1, <2>2
<1>5. p \notin {Anchor, Freed}
  BY <1>1, <1>4 DEF Anchor, Freed
<1>6. /\ ptr' = p /\ text' = Reverted(rec) /\ changed' = rec.changed /\ InverseOf(rec)
      /\ kind' = kind /\ disk' = disk /\ pc' # "idle"
  BY <1>3, <1>5 DEF UndoRec, doundo
<1>7. rec \in Record /\ Fits(rec, text) /\ T[p - 1] = Revert(text, rec)
  BY <1>1, <1>2, <1>4 DEF SavedBy, Chain
<1> HIDE DEF p, rec
<1>8. Chain(T, recs, text)
  BY <1>2 DEF SavedBy
<1>9. InverseOf(rec)
  BY <1>6
<1>10. text' = Revert(text, rec) /\ \E U : RecordsOf(T, U)
  BY <1>6, <1>7, <1>8, <1>9, UndoneRecords
<1>11. PICK U : RecordsOf(T, U)
  BY <1>10
<1>12. U[p - 1] = T[p - 1]
  <2>1. p - 1 \in 0 .. Len(recs) - 1
    BY <1>1, <1>4
  <2> QED
    BY <2>1, <1>11 DEF RecordsOf
<1>13. unique /\ ~changed' => text' = disk
  <2>1. unique /\ ~recs[p].changed => T[p - 1] = disk
    BY <1>2, <1>4 DEF SavedBy, Marks
  <2> QED
    BY <2>1, <1>6, <1>7, <1>10 DEF rec
<1>14. SavedBy(U)'
  BY <1>1, <1>2, <1>6, <1>7, <1>10, <1>11, <1>12, <1>13, RecordedSaved
<1> QED
  BY <1>3, <1>6, <1>14 DEF SavedInv, SaveMarks

(* A save that meets one unmodified record at most leaves none.            *)
LEMMA SaveSaved ==
  ASSUME TypeOK, SavedInv, NEW own \in BOOLEAN, Save(own),
         unique' => unique /\ OneUnmodified
  PROVE  SavedInv'
<1> DEFINE f == [i \in 1 .. Len(recs) |->
                   IF NewestUnmodified(i) THEN [recs[i] EXCEPT !.changed = TRUE]
                                          ELSE recs[i]]
<1>1. Len(recs) \in Nat /\ \A i \in 1 .. Len(recs) : recs[i] \in Record
  BY TypeOfList DEF TypeOK
<1>2. \A i \in 1 .. Len(recs) :
        /\ f[i] \in Record /\ f[i].where = recs[i].where /\ f[i].len = recs[i].len
        /\ f[i].text = recs[i].text /\ f[i].del = recs[i].del
        /\ f[i].changed = IF NewestUnmodified(i) THEN TRUE ELSE recs[i].changed
  BY <1>1 DEF Record
<1>3. f \in [1 .. Len(recs) -> Record] /\ recs' = f
  BY <1>2 DEF Save
<1>4. Len(recs') = Len(recs)
  BY <1>1, <1>3, FunctionIsSeq
<1> HIDE DEF f
<1>5. /\ UNCHANGED <<text, ptr>> /\ pc = "run" /\ pc' = "run" /\ kind = "save"
      /\ steps' = steps + 1 /\ (own => disk' = text) /\ (~own => UNCHANGED <<disk, changed>>)
  BY DEF Save, May, Step
<1>6. PICK T : SavedBy(T)
  BY DEF SavedInv
<1>7. Chain(T, recs', text')
  BY <1>2, <1>3, <1>4, <1>5, <1>6, SameChain DEF SavedBy
<1>8. ASSUME unique', NEW i \in 1 .. Len(recs) PROVE recs'[i].changed
  <2>1. recs[i].changed \/ NewestUnmodified(i)
    <3>1. CASE steps = 0
      <4>1. \A j \in 1 .. Len(recs) : ~recs[i].changed /\ ~recs[j].changed => i = j
        BY <1>5, <1>8, <3>1 DEF OneUnmodified
      <4>2. \A j \in i + 1 .. Len(recs) : j \in 1 .. Len(recs) /\ i # j
        BY <1>1
      <4> QED
        BY <4>1, <4>2 DEF NewestUnmodified
    <3>2. CASE steps # 0
      <4>1. steps > 0
        BY <3>2 DEF TypeOK
      <4> QED
        BY <4>1, <1>5, <1>8 DEF SavedInv, SaveMarks
    <3> QED
      BY <3>1, <3>2
  <2> QED
    BY <2>1, <1>2, <1>3
<1>9. unique' /\ ~changed' => text' = disk'
  <2>1. CASE own
    BY <2>1, <1>5
  <2>2. CASE ~own
    BY <2>2, <1>5, <1>6, <1>8 DEF SavedBy, Marks
  <2> QED
    BY <2>1, <2>2
<1>10. SavedBy(T)'
  BY <1>4, <1>5, <1>6, <1>7, <1>8, <1>9 DEF SavedBy, Marks
<1> QED
  BY <1>4, <1>5, <1>8, <1>10 DEF SavedInv, SaveMarks

(* The first n records go.                                                 *)
LEMMA DroppedChain ==
  ASSUME NEW r \in Seq(Record), NEW n \in 1 .. Len(r), NEW T, NEW t, Chain(T, r, t),
         NEW q, Len(q) = Len(r) - n,
         \A i \in 1 .. Len(r) - n :
           /\ q[i].where = r[i + n].where /\ q[i].len = r[i + n].len
           /\ q[i].text = r[i + n].text /\ q[i].del = r[i + n].del
  PROVE  Chain([i \in 0 .. Len(r) - n |-> T[i + n]], q, t)
<1> DEFINE m == Len(r) - n
           U == [i \in 0 .. m |-> T[i + n]]
<1>1. m \in Nat /\ n \in Nat /\ Len(q) = m /\ m + n = Len(r) /\ Len(r) \in Nat
  OBVIOUS
<1>2. /\ T \in [0 .. Len(r) -> Seq(Nat)] /\ T[Len(r)] = t
      /\ \A i \in 1 .. Len(r) : Fits(r[i], T[i]) /\ T[i - 1] = Revert(T[i], r[i])
  BY DEF Chain
<1>3. \A i \in 1 .. m : /\ q[i].where = r[i + n].where /\ q[i].len = r[i + n].len
                        /\ q[i].text = r[i + n].text /\ q[i].del = r[i + n].del
  OBVIOUS
<1> HIDE DEF m
<1>4. U \in [0 .. m -> Seq(Nat)] /\ U[m] = t /\ \A i \in 0 .. m : U[i] = T[i + n]
  <2>1. \A i \in 0 .. m : i + n \in 0 .. Len(r)
    BY <1>1
  <2> QED
    BY <2>1, <1>1, <1>2
<1> HIDE DEF U
<1>5. ASSUME NEW i \in 1 .. m
      PROVE  Fits(q[i], U[i]) /\ U[i - 1] = Revert(U[i], q[i])
  <2>1. /\ i + n \in 1 .. Len(r) /\ i \in 0 .. m /\ i - 1 \in 0 .. m
        /\ i - 1 + n = i + n - 1
    BY <1>1
  <2>2. U[i] = T[i + n] /\ U[i - 1] = T[i + n - 1]
    BY <2>1, <1>4
  <2>3. Fits(r[i + n], T[i + n]) /\ T[i + n - 1] = Revert(T[i + n], r[i + n])
    BY <2>1, <1>2
  <2>4. /\ Fits(q[i], T[i + n])
        /\ Revert(T[i + n], q[i]) = Revert(T[i + n], r[i + n])
    BY <2>3, <1>3 DEF Fits, Revert
  <2> QED
    BY <2>2, <2>3, <2>4
<1>6. Chain(U, q, t)
  BY <1>1, <1>4, <1>5 DEF Chain
<1> QED
  BY <1>6 DEF U, m

(* What a list of records says of the texts, whatever its links are.       *)
SameRecords(q, r) ==
  /\ Len(q) = Len(r)
  /\ \A i \in 1 .. Len(r) : /\ q[i].where = r[i].where /\ q[i].len = r[i].len
                            /\ q[i].text = r[i].text /\ q[i].del = r[i].del
                            /\ q[i].changed = r[i].changed

LEMMA ClosedRecords ==
  ASSUME TypeOK
  PROVE  /\ SameRecords(Cleared(recs), recs) /\ SameRecords(recs, recs)
         /\ \A r \in Seq(Record) : List(r) /\ Len(r) = Len(recs) => SameRecords(Linked(r), r)
<1>1. List(recs) /\ Len(Cleared(recs)) = Len(recs)
  BY ClearedList, TypeOfList
<1>2. \A i \in 1 .. Len(recs) :
        recs[i] \in Record /\ Cleared(recs)[i] = [recs[i] EXCEPT !.min = FALSE]
  BY <1>1 DEF Cleared, List
<1>3. SameRecords(Cleared(recs), recs)
  BY <1>1, <1>2 DEF SameRecords, Record
<1>4. ASSUME NEW r \in Seq(Record), List(r), Len(r) = Len(recs)
      PROVE  SameRecords(Linked(r), r)
  <2>1. first \in (Null .. Len(r)) \cup {Freed} /\ last \in (Null .. Len(r)) \cup {Freed}
    BY <1>4 DEF TypeOK, InList
  <2>2. Len(Linked(r)) = Len(r)
    BY <2>1, <1>4, LinkedList
  <2>3. ASSUME NEW i \in 1 .. Len(r)
        PROVE  /\ Linked(r)[i].where = r[i].where /\ Linked(r)[i].len = r[i].len
               /\ Linked(r)[i].text = r[i].text /\ Linked(r)[i].del = r[i].del
               /\ Linked(r)[i].changed = r[i].changed
    <3>1. r[i] \in Record
      OBVIOUS
    <3>2. \/ Linked(r)[i] = [r[i] EXCEPT !.unit = first]
          \/ Linked(r)[i] = [r[i] EXCEPT !.unit = last]
          \/ Linked(r)[i] = r[i]
      BY DEF Linked
    <3> QED
      BY <3>1, <3>2 DEF Record
  <2> QED
    BY <2>2, <2>3 DEF SameRecords
<1> QED
  BY <1>3, <1>4 DEF SameRecords

(* The end of a command: the links change, and the oldest unit may go with *)
(* the texts that only it led back to.                                     *)
LEMMA EndSaved ==
  ASSUME TypeOK, UndoInv, UndoInv', SavedInv, End, unique' => unique
  PROVE  SavedInv'
<1> DEFINE r == IF kind = "minor" THEN recs ELSE Cleared(recs)
           l == Linked(r)
           n == Oldest(l)
<1>1. List(r) /\ Len(r) = Len(recs) /\ Len(recs) \in Nat /\ SameRecords(r, recs)
  BY ClearedList, TypeOfList, ClosedRecords
<1>2. List(l) /\ Len(l) = Len(recs) /\ SameRecords(l, recs)
  <2>1. first \in (Null .. Len(r)) \cup {Freed} /\ last \in (Null .. Len(r)) \cup {Freed}
    BY <1>1 DEF TypeOK, InList
  <2>2. List(l) /\ Len(l) = Len(r)
    BY <1>1, <2>1, LinkedList
  <2>3. SameRecords(l, r)
    BY <1>1, ClosedRecords DEF List
  <2> QED
    BY <1>1, <2>2, <2>3 DEF SameRecords
<1>3. /\ undomark(r) /\ kind' = "none" /\ steps' = 0
      /\ UNCHANGED <<text, changed, disk>> /\ pc' # "wild"
  BY DEF End, UndoInv
<1>4. PICK T : SavedBy(T)
  BY DEF SavedInv
<1> HIDE DEF r, l
<1>5. ASSUME SameRecords(recs', recs), ptr' = ptr
      PROVE  SavedBy(T)'
  <2>1. Chain(T, recs', text')
    BY <1>3, <1>4, <1>5, SameChain DEF SavedBy, SameRecords
  <2> QED
    BY <1>3, <1>4, <1>5, <2>1 DEF SavedBy, SameRecords, Marks
<1>6. CASE undogc(l)
  <2> DEFINE m == Len(l) - n
             U == [i \in 0 .. m |-> T[i + n]]
  <2>1. n # Freed /\ recs' = Dropped(l, n)
        /\ ptr' = IF ptr # 1 THEN Shift(ptr, n) ELSE IF n = Len(l) THEN Anchor ELSE 1
    BY <1>3, <1>6 DEF undogc
  <2>2. n \in 1 .. Len(l)
    <3>1. l # <<>> /\ Len(l) \in Nat \ {0} /\ 1 \in 1 .. Len(l)
      BY <1>1, <1>2, <2>1 DEF Oldest, List
    <3>2. l[1].unit \in (Null .. Len(l)) \cup {Freed}
      BY <1>2, <3>1 DEF List, InRange
    <3> QED
      BY <2>1, <3>1, <3>2 DEF Oldest, Null
  <2>3. Len(recs') = m /\ m \in Nat
    <3>1. Len(Dropped(l, n)) = m
      BY <1>2, <2>2, DroppedList
    <3> QED
      BY <2>1, <2>2, <3>1, <1>1, <1>2
  <2>4. ASSUME NEW i \in 1 .. m
        PROVE  /\ recs'[i].where = l[i + n].where /\ recs'[i].len = l[i + n].len
               /\ recs'[i].text = l[i + n].text /\ recs'[i].del = l[i + n].del
               /\ recs'[i].changed = l[i + n].changed
    <3>1. l[i + n] \in Record
      BY <1>1, <1>2, <2>2 DEF List
    <3>2. recs'[i] = [l[i + n] EXCEPT !.unit = Shift(@, n)]
      BY <2>1 DEF Dropped
    <3> QED
      BY <3>1, <3>2 DEF Record
  <2>5. Chain(T, l, text)
    BY <1>2, <1>4, SameChain DEF SavedBy, SameRecords
  <2>6. Chain(U, recs', text')
    <3>1. l \in Seq(Record) /\ text' = text
      BY <1>2, <1>3 DEF List
    <3> QED
      BY <2>2, <2>3, <2>4, <2>5, <3>1, DroppedChain
  <2>7. \A i \in 0 .. m : U[i] = T[i + n]
    OBVIOUS
  <2> HIDE DEF n, U, m
  <2>8. PICK V : Chain(V, recs', text') /\ \A i \in 0 .. m : V[i] = T[i + n]
    BY <2>6, <2>7
  <2>9. ASSUME ptr' \notin {Null, Anchor, 1}
        PROVE  V[ptr' - 1] = text'
    <3>1. ptr' \in 1 .. m
      <4>1. ptr' \in 1 .. Closed' /\ Closed' = Len(recs')
        BY <2>9, <1>3 DEF UndoInv, PtrInv, OpenUnit, Closed, End
      <4> QED
        BY <4>1, <2>3
    <3>2. ptr # 1 /\ ptr' = Shift(ptr, n)
      BY <2>1, <2>9
    <3>3. ptr \notin {Null, Anchor, 1} /\ ptr \in Nat /\ ptr' = ptr - n
      <4>1. ptr \in (Null .. Len(recs)) \cup {Anchor, Freed} /\ n \in Nat
        BY <2>2 DEF TypeOK, InList
      <4>2. ptr > 0
        BY <3>1, <3>2, <4>1, <2>3 DEF Shift, Null, Anchor, Freed
      <4>3. ptr' = ptr - n
        BY <3>1, <3>2, <4>1, <4>2, <2>3 DEF Shift, Null, Anchor, Freed
      <4> QED
        BY <3>2, <4>1, <4>2, <4>3, <1>1 DEF Null, Anchor, Freed
    <3>4. ptr' - 1 \in 0 .. m /\ ptr' - 1 + n = ptr - 1
      BY <3>1, <3>3, <2>2, <2>3
    <3>5. T[ptr - 1] = text
      BY <3>3, <1>4 DEF SavedBy
    <3> QED
      BY <3>4, <3>5, <2>8, <1>3
  <2>10. ASSUME unique', NEW i \in 1 .. Len(recs'), ~recs'[i].changed
        PROVE  V[i - 1] = disk'
    <3>1. /\ i \in 1 .. m /\ i + n \in 1 .. Len(recs) /\ i - 1 \in 0 .. m
          /\ (i - 1) + n = (i + n) - 1
      BY <1>1, <1>2, <2>2, <2>3 DEF m
    <3>2. ~recs[i + n].changed
      BY <2>4, <2>10, <3>1, <1>2 DEF SameRecords
    <3>3. T[(i + n) - 1] = disk
      <4>1. Marks(T)
        BY <2>10, <1>4 DEF SavedBy
      <4> QED
        BY <4>1, <3>1, <3>2 DEF Marks
    <3> QED
      BY <3>1, <3>3, <2>8, <1>3
  <2>11. SavedBy(V)'
    BY <1>3, <1>4, <2>8, <2>9, <2>10 DEF SavedBy, Marks
  <2> QED
    BY <1>3, <2>11 DEF SavedInv, SaveMarks
<1>7. CASE ~undogc(l)
  <2>1. (recs' = r \/ recs' = l) /\ ptr' = ptr
    BY <1>3, <1>7 DEF undomark, l
  <2>2. SavedBy(T)'
    BY <1>1, <1>2, <1>5, <2>1
  <2> QED
    BY <1>3, <2>2 DEF SavedInv, SaveMarks
<1> QED
  BY <1>6, <1>7

(* Without redo, and if the user never clears the mark by hand: a buffer   *)
(* that is not marked as changed has the text of its file, whatever is     *)
(* edited, merged, undone, saved and evicted, as long as no save has met   *)
(* two unmodified records (undo.c, doundo, undoins and undodel; ufile.c,   *)
(* saver).                                                                 *)
THEOREM UnmodifiedIsSaved ==
  ASSUME NoRedo, "notmod" \notin Kinds
  PROVE  MCSpec => []UniqueMeansSaved
<1>1. MCInit => SavedInv
  <2> SUFFICES ASSUME MCInit PROVE SavedInv
    OBVIOUS
  <2> DEFINE T == [i \in 0 .. 0 |-> <<>>]
  <2>1. /\ text = <<>> /\ disk = <<>> /\ recs = <<>> /\ ptr = Null /\ Len(recs) = 0
        /\ steps = 0 /\ pc = "idle"
    BY DEF MCInit, Init
  <2>2. <<>> \in Seq(Nat) /\ T \in [0 .. 0 -> Seq(Nat)] /\ T[0] = <<>>
    OBVIOUS
  <2>3. Chain(T, recs, text)
    BY <2>1, <2>2 DEF Chain
  <2>4. SavedBy(T)
    BY <2>1, <2>3 DEF SavedBy, Marks
  <2> QED
    BY <2>1, <2>4 DEF SavedInv, SaveMarks
<1>2. TypeOK /\ UndoInv /\ UndoInv' /\ SavedInv /\ [MCNext]_mcvars => SavedInv'
  <2> SUFFICES ASSUME TypeOK, UndoInv, UndoInv', SavedInv, [MCNext]_mcvars PROVE SavedInv'
    OBVIOUS
  <2>1. CASE MCNext
    <3>1. Next /\ (unique' => unique /\ OneUnmodified)
      BY <2>1 DEF MCNext
    <3>2. ASSUME NEW k \in Kinds, Begin(k) PROVE SavedInv'
      BY <3>1, <3>2, BeginSaved
    <3>3. ASSUME NEW p \in 0 .. MaxText, NEW s \in Chunk, Insert(p, s) PROVE SavedInv'
      BY <3>1, <3>3, InsertSaved
    <3>4. ASSUME NEW p \in 0 .. MaxText, NEW n \in 1 .. MaxText, Delete(p, n) PROVE SavedInv'
      BY <3>1, <3>4, DeleteSaved
    <3>5. ASSUME NEW own \in BOOLEAN, Save(own) PROVE SavedInv'
      BY <3>1, <3>5, SaveSaved
    <3>6. CASE Undo
      BY <3>1, <3>6, UndoSaved
    <3>7. CASE Redo
      BY <3>7 DEF Redo, May, NoRedo, TypeOK
    <3>8. CASE unotmod
      BY <3>8 DEF unotmod, May, TypeOK
    <3>9. CASE UndoRec
      BY <3>1, <3>9, UndoRecSaved
    <3>10. CASE RedoRec
      BY <3>10 DEF RedoRec, UndoInv
    <3>11. CASE End
      BY <3>1, <3>11, EndSaved
    <3> QED
      BY <3>1, <3>2, <3>3, <3>4, <3>5, <3>6, <3>7, <3>8, <3>9, <3>10, <3>11
      DEF Next, Internal
  <2>2. CASE UNCHANGED mcvars
    <3>1. UNCHANGED <<text, changed, disk, recs, ptr, pc, kind, steps, unique>>
      BY <2>2 DEF mcvars, vars, undoVars, loopVars
    <3>2. PICK T : SavedBy(T)
      BY DEF SavedInv
    <3>3. SavedBy(T)'
      BY <3>1, <3>2 DEF SavedBy, Marks
    <3> QED
      BY <3>1, <3>3 DEF SavedInv, SaveMarks
  <2> QED
    BY <2>1, <2>2
<1>3. SavedInv => UniqueMeansSaved
  BY DEF SavedInv, SavedBy, Marks, UniqueMeansSaved, UnmodifiedMeansSaved
<1>4. MCInit => Init
  BY DEF MCInit
<1>5. [MCNext]_mcvars => [Next]_vars
  BY DEF MCNext, mcvars
<1>6. Spec => [](TypeOK /\ UndoInv)
  BY UndoInvariant
<1> QED
  BY <1>1, <1>2, <1>3, <1>4, <1>5, <1>6, PTL DEF MCSpec, Spec
=============================================================================
