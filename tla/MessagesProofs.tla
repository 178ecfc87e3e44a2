--------------------------- MODULE MessagesProofs ---------------------------
(***************************************************************************)
(* Compiler messages, proved for every file, every number of messages and  *)
(* of edits: a message stays with its line.                                *)
(*                                                                         *)
(* The lines have names, and no two lines of a text have the same.  What   *)
(* the invariant says beyond that is about undo: the records lead from text*)
(* to text, each to that of the record behind it and the newest to that of *)
(* the buffer; and from the record that undo has come to on, the texts read*)
(* the same backwards, for each undo has put its own record at the end.    *)
(***************************************************************************)
EXTENDS Messages, SequenceTheorems, TLAPS

(* Names given so far: those of new lines are beyond.                      *)
Bound == MaxTextLines * (edits + 1)
Named(t, b) == Distinct(t) /\ \A i \in 1 .. Len(t) : t[i] \in 1 .. b

(* t is s with n lines more behind the first k.                            *)
Grown(s, t, k, n) ==
  /\ k \in 0 .. Len(s) /\ n \in Nat /\ Len(t) = Len(s) + n
  /\ \A i \in 1 .. k : t[i] = s[i]
  /\ \A i \in k + 1 .. Len(s) : t[i + n] = s[i]

(* The lines before those that an edit at line l brings or takes.          *)
Behind(l, bol) == IF bol THEN l ELSE l + 1

(* The change that u is the record of leads from its text to t.            *)
Gives(u, t) ==
  IF u.ins THEN Grown(u.text, t, Behind(u.l, u.bol), u.n)
           ELSE Grown(t, u.text, Behind(u.l, u.bol), u.n)

(* The texts of the records, and of the buffer behind them.                *)
TextAt(b, i) == IF i = Len(b.recs) + 1 THEN b.text ELSE b.recs[i].text

Msg == [name : Nat, line : Nat, org : Nat, valid : BOOLEAN, saved : BOOLEAN]
Record ==
  [text : Seq(Nat), changed : BOOLEAN, l : Nat, n : Nat, bol : BOOLEAN, ins : BOOLEAN]
Buffer == [open : BOOLEAN, text : Seq(Nat), changed : BOOLEAN, recs : Seq(Record), ptr : Nat]
MessageTypes ==
  /\ buf \in Buffer /\ onDisk \in Seq(Nat) /\ errors \in Seq(Msg)
  /\ errptr \in 0 .. Len(errors) /\ edits \in Nat /\ unique \in BOOLEAN

(* A buffer b of a file d, when names up to m have been given.             *)
TextsNamed(b, d, m) ==
  /\ Named(d, m) /\ Named(b.text, m)
  /\ \A k \in 1 .. Len(b.recs) : Named(b.recs[k].text, m)
RecsGive(b) == \A k \in 1 .. Len(b.recs) : Gives(b.recs[k], TextAt(b, k + 1))
Mirrored(b) ==
  b.ptr # 0 =>
    /\ b.ptr \in 1 .. Len(b.recs) /\ (Len(b.recs) - b.ptr) % 2 = 1
    /\ \A i \in b.ptr .. Len(b.recs) + 1 : TextAt(b, i) = TextAt(b, Len(b.recs) + 1 + b.ptr - i)
Closed(b) == ~b.open => ~b.changed /\ b.recs = <<>>
BufferKept(b, d, m) == TextsNamed(b, d, m) /\ RecsGive(b) /\ Mirrored(b) /\ Closed(b)

(* What is not modified is as the file is: the buffer, and what undo comes *)
(* back to.                                                                *)
AsFile(b, d) ==
  /\ b.open => b.changed \/ b.text = d
  /\ \A k \in 1 .. Len(b.recs) : b.recs[k].changed \/ b.recs[k].text = d

MessagesInv ==
  /\ MessageTypes /\ BufferKept(buf, onDisk, Bound)
  /\ unique => AsFile(buf, onDisk) /\ WithTheirLines

-----------------------------------------------------------------------------
(* One message.                                                            *)

(* New lines push the lines behind them down.                              *)
LEMMA LinePushed ==
  ASSUME NEW s \in Seq(Nat), NEW t \in Seq(Nat), NEW l \in Nat, NEW bol \in BOOLEAN,
         NEW n \in Nat, Grown(s, t, Behind(l, bol), n), NEW p \in Nat, NEW x, IsLine(s, p, x)
  PROVE  IsLine(t, IF p > l \/ (p = l /\ bol) THEN p + n ELSE p, x)
<1>1. Len(s) \in Nat /\ Len(t) = Len(s) + n
  BY LenProperties DEF Grown
<1>2. CASE p > l \/ (p = l /\ bol)
  <2>1. p + 1 \in Behind(l, bol) + 1 .. Len(s)
    <3>1. p < Len(s)
      BY DEF IsLine
    <3>2. Behind(l, bol) \in Nat /\ Behind(l, bol) <= p
      BY <1>2 DEF Behind
    <3> QED
      BY <1>1, <3>1, <3>2
  <2>2. t[p + 1 + n] = s[p + 1]
    BY <2>1 DEF Grown
  <2>3. p + 1 + n = p + n + 1 /\ p + n < Len(t)
    BY <1>1, <2>1
  <2> QED
    BY <1>2, <2>2, <2>3 DEF IsLine
<1>3. CASE ~(p > l \/ (p = l /\ bol))
  <2>1. p + 1 \in 1 .. Behind(l, bol)
    BY <1>3 DEF Behind
  <2>2. t[p + 1] = s[p + 1]
    BY <2>1 DEF Grown
  <2> QED
    BY <1>1, <1>3, <2>2 DEF IsLine
<1> QED
  BY <1>2, <1>3

(* A deletion pulls the lines behind it up; a line that is still there is  *)
(* none of those that went.                                                *)
LEMMA LinePulled ==
  ASSUME NEW s \in Seq(Nat), NEW t \in Seq(Nat), NEW l \in Nat, NEW bol \in BOOLEAN,
         NEW n \in Nat, Grown(s, t, Behind(l, bol), n), Distinct(t),
         NEW p \in Nat, NEW x, IsLine(t, p, x), NEW j \in 1 .. Len(s), s[j] = x
  PROVE  IsLine(s, IF p > l + n THEN p - n ELSE IF p \in l + 1 .. l + n THEN l ELSE p, x)
<1> DEFINE q == IF p > l + n THEN p - n ELSE IF p \in l + 1 .. l + n THEN l ELSE p
<1>1. Len(s) \in Nat /\ Len(t) = Len(s) + n /\ Behind(l, bol) \in 0 .. Len(s)
  BY LenProperties DEF Grown
<1>2. p + 1 \in 1 .. Len(t) /\ t[p + 1] = x
  <2>1. p < Len(t) /\ t[p + 1] = x
    BY DEF IsLine
  <2> QED
    BY <1>1, <2>1
<1>3. CASE j <= Behind(l, bol)
  <2>1. j \in 1 .. Behind(l, bol) /\ j \in 1 .. Len(t)
    BY <1>1, <1>3
  <2>2. t[j] = x
    BY <2>1 DEF Grown
  <2>3. j = p + 1
    BY <1>2, <2>1, <2>2 DEF Distinct
  <2>4. p <= l
    BY <1>3, <2>3 DEF Behind
  <2>5. q = p
    BY <2>4
  <2>6. p < Len(s) /\ s[p + 1] = x
    BY <1>1, <2>3
  <2> QED
    BY <2>5, <2>6 DEF IsLine
<1>4. CASE j > Behind(l, bol)
  <2>1. j \in Behind(l, bol) + 1 .. Len(s) /\ j + n \in 1 .. Len(t)
    BY <1>1, <1>4
  <2>2. t[j + n] = x
    BY <2>1 DEF Grown
  <2>3. j + n = p + 1
    BY <1>2, <2>1, <2>2 DEF Distinct
  <2>4. p >= l + n
    BY <1>4, <2>3 DEF Behind
  <2>5. q = p - n
    BY <2>4
  <2>6. p - n + 1 = j /\ p - n < Len(s)
    BY <1>1, <2>3
  <2> QED
    BY <2>5, <2>6 DEF IsLine
<1> QED
  BY <1>3, <1>4 DEF Behind

(* A message that is moved to another line is otherwise the same.          *)
LEMMA Moved ==
  ASSUME NEW e \in Msg, NEW l \in Nat
  PROVE  LET d == [e EXCEPT !.line = l]
         IN /\ d \in Msg /\ d.line = l /\ d.name = e.name /\ d.valid = e.valid
            /\ d.org = e.org /\ d.saved = e.saved
BY DEF Msg

(* Messages move with their lines.                                         *)
LEMMA Pushed ==
  ASSUME NEW s \in Seq(Nat), NEW t \in Seq(Nat), NEW l \in Nat, NEW bol \in BOOLEAN,
         NEW n \in Nat, Grown(s, t, Behind(l, bol), n), NEW e \in Msg
  PROVE  LET d == inserr(e, l, n, bol)
         IN /\ d \in Msg /\ d.name = e.name /\ d.valid = e.valid
            /\ d.org = e.org /\ d.saved = e.saved
            /\ IsLine(s, e.line, e.name) => IsLine(t, d.line, e.name)
<1> DEFINE d == inserr(e, l, n, bol)
           q == IF e.line > l \/ (e.line = l /\ bol) THEN e.line + n ELSE e.line
<1>1. e.line \in Nat /\ e.line + n \in Nat
  BY DEF Msg
<1>2. /\ d \in Msg /\ d.name = e.name /\ d.valid = e.valid /\ d.org = e.org /\ d.saved = e.saved
      /\ d.line = q
  <2>1. CASE e.line > l \/ (e.line = l /\ bol)
    BY <1>1, <2>1, Moved DEF inserr
  <2>2. CASE ~(e.line > l \/ (e.line = l /\ bol))
    BY <2>2 DEF inserr
  <2> QED
    BY <2>1, <2>2
<1>3. IsLine(s, e.line, e.name) => IsLine(t, q, e.name)
  BY <1>1, LinePushed
<1> QED
  BY <1>2, <1>3

LEMMA Pulled ==
  ASSUME NEW s \in Seq(Nat), NEW t \in Seq(Nat), NEW l \in Nat, NEW bol \in BOOLEAN,
         NEW n \in Nat, Grown(s, t, Behind(l, bol), n), Distinct(t), NEW e \in Msg
  PROVE  LET d == delerr(e, l, n)
         IN /\ d \in Msg /\ d.name = e.name /\ d.valid = e.valid
            /\ d.org = e.org /\ d.saved = e.saved
            /\ IsLine(t, e.line, e.name) /\ (\E j \in DOMAIN s : s[j] = e.name) =>
                 IsLine(s, d.line, e.name)
<1> DEFINE d == delerr(e, l, n)
           q == IF e.line > l + n THEN e.line - n
                ELSE IF e.line \in l + 1 .. l + n THEN l ELSE e.line
<1>1. e.line \in Nat /\ (e.line > l + n => e.line - n \in Nat)
  BY DEF Msg
<1>2. /\ d \in Msg /\ d.name = e.name /\ d.valid = e.valid /\ d.org = e.org /\ d.saved = e.saved
      /\ d.line = q
  <2>1. CASE e.line > l + n
    <3>1. d = [e EXCEPT !.line = e.line - n]
      BY <2>1 DEF delerr
    <3> QED
      BY <1>1, <2>1, <3>1, Moved
  <2>2. CASE ~(e.line > l + n) /\ e.line \in l + 1 .. l + n
    <3>1. d = [e EXCEPT !.line = l]
      BY <2>2 DEF delerr
    <3> QED
      BY <2>2, <3>1, Moved
  <2>3. CASE ~(e.line > l + n) /\ e.line \notin l + 1 .. l + n
    <3>1. d = e
      BY <2>3 DEF delerr
    <3> QED
      BY <2>3, <3>1
  <2> QED
    BY <2>1, <2>2, <2>3
<1>3. ASSUME IsLine(t, e.line, e.name), NEW j \in DOMAIN s, s[j] = e.name
      PROVE  IsLine(s, q, e.name)
  BY <1>1, <1>3, LinePulled, LenProperties
<1> QED
  BY <1>2, <1>3

-----------------------------------------------------------------------------
(* Texts.                                                                  *)

(* Lines that are all different are so when some of them are gone.         *)
LEMMA Fewer ==
  ASSUME NEW s \in Seq(Nat), NEW t \in Seq(Nat), NEW k, NEW n, Grown(s, t, k, n),
         NEW m \in Nat, Named(t, m)
  PROVE  Named(s, m)
<1> DEFINE at(i) == IF i <= k THEN i ELSE i + n
<1>1. Len(s) \in Nat /\ Len(t) = Len(s) + n /\ k \in 0 .. Len(s) /\ n \in Nat
  BY LenProperties DEF Grown
<1>2. ASSUME NEW i \in 1 .. Len(s) PROVE at(i) \in 1 .. Len(t) /\ t[at(i)] = s[i]
  <2>1. CASE i <= k
    BY <1>1, <2>1 DEF Grown
  <2>2. CASE i > k
    <3>1. i \in k + 1 .. Len(s) /\ i + n \in 1 .. Len(t)
      BY <1>1, <2>2
    <3>2. t[i + n] = s[i]
      BY <3>1 DEF Grown
    <3> QED
      BY <1>1, <2>2, <3>1, <3>2
  <2> QED
    BY <1>1, <2>1, <2>2
<1>3. ASSUME NEW i \in 1 .. Len(s), NEW j \in 1 .. Len(s), at(i) = at(j) PROVE i = j
  BY <1>1, <1>3
<1> HIDE DEF at
<1>4. Distinct(s)
  BY <1>2, <1>3 DEF Distinct, Named
<1>5. \A i \in 1 .. Len(s) : s[i] \in 1 .. m
  BY <1>2 DEF Named
<1> QED
  BY <1>4, <1>5 DEF Named

(* A text with lines taken out.                                            *)
LEMMA Taken ==
  ASSUME NEW t \in Seq(Nat), NEW k \in Nat, NEW n \in Nat, k + n <= Len(t)
  PROVE  LET s == SubSeq(t, 1, k) \o SubSeq(t, k + n + 1, Len(t))
         IN  s \in Seq(Nat) /\ Grown(s, t, k, n)
<1> DEFINE a == SubSeq(t, 1, k)
           b == SubSeq(t, k + n + 1, Len(t))
           s == a \o b
<1>1. Len(t) \in Nat /\ \A i \in 1 .. Len(t) : t[i] \in Nat
  BY LenProperties, ElementOfSeq
<1>2. a \in Seq(Nat) /\ Len(a) = k /\ \A i \in 1 .. k : a[i] = t[i]
  <2>1. 1 \in Int /\ k \in Int /\ \A i \in 1 .. k : t[i] \in Nat
    BY <1>1
  <2> QED
    BY <2>1, SubSeqProperties
<1>3. b \in Seq(Nat) /\ Len(b) = Len(t) - (k + n)
  BY <1>1, SubSeqProperties
<1>4. \A i \in 1 .. Len(t) - (k + n) : b[i] = t[k + n + i]
  BY <1>1, SubSeqProperties
<1> HIDE DEF a, b
<1>5. /\ s \in Seq(Nat) /\ Len(s) = Len(a) + Len(b)
      /\ \A i \in 1 .. Len(a) + Len(b) : s[i] = IF i <= Len(a) THEN a[i] ELSE b[i - Len(a)]
  <2>1. a \in Seq(Nat) /\ b \in Seq(Nat)
    BY <1>2, <1>3
  <2> QED
    BY ONLY <2>1, ConcatProperties
<1> HIDE DEF s
<1>6. /\ Len(s) = k + (Len(t) - (k + n))
      /\ \A i \in 1 .. k + (Len(t) - (k + n)) : s[i] = IF i <= k THEN a[i] ELSE b[i - k]
  BY <1>2, <1>3, <1>5
<1>7. Len(t) = Len(s) + n /\ k \in 0 .. Len(s) /\ Len(s) \in Nat
  BY <1>1, <1>6
<1>8. ASSUME NEW i \in 1 .. k PROVE t[i] = s[i]
  <2>1. i \in 1 .. k + (Len(t) - (k + n)) /\ i <= k
    BY <1>1
  <2>2. s[i] = a[i]
    BY <1>6, <2>1
  <2> QED
    BY <1>2, <2>2
<1>9. ASSUME NEW i \in k + 1 .. Len(s) PROVE t[i + n] = s[i]
  <2>1. s[i] = b[i - k]
    BY <1>1, <1>6
  <2>2. i - k \in 1 .. Len(t) - (k + n) /\ k + n + (i - k) = i + n
    BY <1>1, <1>7
  <2>3. b[i - k] = t[k + n + (i - k)]
    BY <1>4, <2>2
  <2> QED
    BY <2>1, <2>2, <2>3
<1>10. s \in Seq(Nat) /\ Grown(s, t, k, n)
  BY <1>5, <1>7, <1>8, <1>9 DEF Grown
<1> QED
  BY <1>10 DEF s, a, b

(* A text with lines put in.                                               *)
LEMMA PutIn ==
  ASSUME NEW s \in Seq(Nat), NEW x \in Seq(Nat), NEW k \in 0 .. Len(s)
  PROVE  LET t == SubSeq(s, 1, k) \o x \o SubSeq(s, k + 1, Len(s))
         IN /\ t \in Seq(Nat) /\ Grown(s, t, k, Len(x))
            /\ \A i \in k + 1 .. k + Len(x) : t[i] = x[i - k]
<1> DEFINE a == SubSeq(s, 1, k)
           b == SubSeq(s, k + 1, Len(s))
           ax == a \o x
           t == ax \o b
           n == Len(x)
<1>1. Len(s) \in Nat /\ Len(x) \in Nat /\ \A i \in 1 .. Len(s) : s[i] \in Nat
  BY LenProperties, ElementOfSeq
<1>2. a \in Seq(Nat) /\ Len(a) = k /\ \A i \in 1 .. k : a[i] = s[i]
  <2>1. 1 \in Int /\ k \in Int /\ \A i \in 1 .. k : s[i] \in Nat
    BY <1>1
  <2> QED
    BY <2>1, SubSeqProperties
<1>3. b \in Seq(Nat) /\ Len(b) = Len(s) - k /\ \A i \in 1 .. Len(s) - k : b[i] = s[k + i]
  BY <1>1, SubSeqProperties
<1> HIDE DEF a, b
<1>4. /\ ax \in Seq(Nat) /\ Len(ax) = k + n
      /\ \A i \in 1 .. k + n : ax[i] = IF i <= k THEN a[i] ELSE x[i - k]
  BY <1>2, ConcatProperties
<1> HIDE DEF ax
<1>5. /\ t \in Seq(Nat) /\ Len(t) = Len(ax) + Len(b)
      /\ \A i \in 1 .. Len(ax) + Len(b) : t[i] = IF i <= Len(ax) THEN ax[i] ELSE b[i - Len(ax)]
  <2>1. ax \in Seq(Nat) /\ b \in Seq(Nat)
    BY <1>3, <1>4
  <2> QED
    BY ONLY <2>1, ConcatProperties
<1> HIDE DEF t, n
<1>6. t \in Seq(Nat) /\ Len(t) = k + n + (Len(s) - k)
  BY <1>3, <1>4, <1>5
<1>7. \A i \in 1 .. k + n + (Len(s) - k) : t[i] = IF i <= k + n THEN ax[i] ELSE b[i - (k + n)]
  BY <1>3, <1>4, <1>5
<1>8. Len(t) = Len(s) + n /\ n \in Nat
  BY <1>1, <1>6 DEF n
<1>9. ASSUME NEW i \in 1 .. k PROVE t[i] = s[i]
  <2>1. i \in 1 .. k + n + (Len(s) - k) /\ i \in 1 .. k + n
    BY <1>1, <1>8
  <2> QED
    BY <1>2, <1>4, <1>7, <2>1
<1>10. ASSUME NEW i \in k + 1 .. k + n PROVE t[i] = x[i - k]
  <2>1. i \in 1 .. k + n + (Len(s) - k) /\ i \in 1 .. k + n /\ ~(i <= k)
    BY <1>1, <1>8
  <2> QED
    BY <1>4, <1>7, <2>1
<1>11. ASSUME NEW i \in k + 1 .. Len(s) PROVE t[i + n] = s[i]
  <2>1. i + n \in 1 .. k + n + (Len(s) - k) /\ ~(i + n <= k + n)
    BY <1>1, <1>8
  <2>2. t[i + n] = b[i + n - (k + n)]
    <3>1. k \in Nat /\ n \in Nat /\ i + n \in Int
      BY <1>8
    <3> QED
      BY <1>7, <2>1, <3>1
  <2>3. i + n - (k + n) = i - k /\ i - k \in 1 .. Len(s) - k /\ k + (i - k) = i
    BY <1>1, <1>8
  <2>4. b[i - k] = s[k + (i - k)]
    BY <1>3, <2>3
  <2> QED
    BY <2>2, <2>3, <2>4
<1>12. Grown(s, t, k, n)
  BY <1>1, <1>8, <1>9, <1>11 DEF Grown
<1> QED
  BY <1>6, <1>10, <1>12 DEF t, ax, a, b, n

(* Lines that are all different are so with new ones between them.         *)
LEMMA MoreNamed ==
  ASSUME NEW s \in Seq(Nat), NEW t \in Seq(Nat), NEW k, NEW n, Grown(s, t, k, n),
         NEW m \in Nat, Named(s, m), NEW m2 \in Nat, m + n <= m2,
         \A i \in k + 1 .. k + n : t[i] = m + (i - k)
  PROVE  Named(t, m2)
<1>1. Len(s) \in Nat /\ Len(t) = Len(s) + n /\ k \in 0 .. Len(s) /\ n \in Nat
  BY LenProperties DEF Grown
<1> DEFINE old(i) == i <= k \/ i > k + n
           at(i)  == IF i <= k THEN i ELSE i - n
<1>2. ASSUME NEW i \in 1 .. Len(t), old(i) PROVE at(i) \in 1 .. Len(s) /\ t[i] = s[at(i)]
  <2>1. CASE i <= k
    BY <1>1, <2>1 DEF Grown
  <2>2. CASE i > k + n
    <3>1. i - n \in k + 1 .. Len(s) /\ i - n + n = i /\ ~(i <= k)
      BY <1>1, <2>2
    <3>2. t[i - n + n] = s[i - n]
      BY <3>1 DEF Grown
    <3> QED
      BY <1>1, <3>1, <3>2
  <2> QED
    BY <1>2, <2>1, <2>2
<1>3. ASSUME NEW i \in 1 .. Len(t), NEW j \in 1 .. Len(t), old(i), old(j), at(i) = at(j)
      PROVE  i = j
  <2>1. CASE i <= k /\ j <= k
    BY <1>3, <2>1
  <2>2. CASE i > k /\ j > k
    <3>1. i - n = j - n
      BY <1>1, <1>3, <2>2
    <3> QED
      BY <1>1, <3>1
  <2>3. CASE i <= k /\ j > k + n
    BY <1>1, <1>3, <2>3
  <2>4. CASE j <= k /\ i > k + n
    BY <1>1, <1>3, <2>4
  <2> QED
    BY <1>1, <1>3, <2>1, <2>2, <2>3, <2>4
<1>4. ASSUME NEW i \in 1 .. Len(t), ~old(i) PROVE i \in k + 1 .. k + n
  BY <1>1, <1>4
<1> HIDE DEF old, at
<1>5. ASSUME NEW i \in 1 .. Len(t), old(i) PROVE t[i] \in 1 .. m
  BY <1>2, <1>5 DEF Named
<1>6. ASSUME NEW i \in 1 .. Len(t), ~old(i) PROVE t[i] = m + (i - k) /\ t[i] \in m + 1 .. m2
  <2>1. i \in k + 1 .. k + n
    BY <1>4, <1>6
  <2>2. t[i] = m + (i - k)
    BY <2>1
  <2> QED
    BY <1>1, <2>1, <2>2
<1>7. \A i \in 1 .. Len(t) : t[i] \in 1 .. m2
  BY <1>1, <1>5, <1>6
<1>8. ASSUME NEW i \in 1 .. Len(t), NEW j \in 1 .. Len(t), t[i] = t[j] PROVE i = j
  <2>1. CASE old(i) /\ old(j)
    <3>1. at(i) \in 1 .. Len(s) /\ at(j) \in 1 .. Len(s) /\ s[at(i)] = s[at(j)]
      BY <1>2, <1>8, <2>1
    <3>2. at(i) = at(j)
      BY <3>1 DEF Named, Distinct
    <3> QED
      BY <1>3, <2>1, <3>2
  <2>2. CASE ~old(i) /\ ~old(j)
    <3>1. m + (i - k) = m + (j - k)
      BY <1>6, <1>8, <2>2
    <3> QED
      BY <1>1, <3>1
  <2>3. CASE old(i) /\ ~old(j)
    BY <1>5, <1>6, <1>8, <2>3
  <2>4. CASE ~old(i) /\ old(j)
    BY <1>5, <1>6, <1>8, <2>4
  <2> QED
    BY <2>1, <2>2, <2>3, <2>4
<1> QED
  BY <1>7, <1>8 DEF Named, Distinct

-----------------------------------------------------------------------------
(* The buffer and its undo records.                                        *)

(* Names that have been given stay given.                                  *)
LEMMA NamedStays ==
  ASSUME NEW t \in Seq(Nat), NEW m \in Nat, NEW m2 \in Nat, m <= m2, Named(t, m)
  PROVE  Named(t, m2)
BY DEF Named

(* A change is recorded, an edit or an undo: u leads from the text to t.   *)
LEMMA RecordGiven ==
  ASSUME NEW b \in Buffer, NEW d \in Seq(Nat), NEW m \in Nat, BufferKept(b, d, m), b.open,
         NEW u \in Record, u.text = b.text,
         NEW t \in Seq(Nat), Gives(u, t), NEW m2 \in Nat, m <= m2, Named(t, m2),
         NEW c \in Buffer, c.text = t, c.recs = Append(b.recs, u), c.open
  PROVE  /\ Len(b.recs) \in Nat /\ Len(c.recs) = Len(b.recs) + 1
         /\ c.recs[Len(b.recs) + 1] = u
         /\ \A k \in 1 .. Len(b.recs) : c.recs[k] = b.recs[k]
         /\ \A k \in 1 .. Len(b.recs) + 1 : TextAt(c, k) = TextAt(b, k)
         /\ TextsNamed(c, d, m2) /\ RecsGive(c) /\ Closed(c)
<1> DEFINE p == b.recs
           q == c.recs
<1>1. p \in Seq(Record) /\ Len(p) \in Nat /\ b.text \in Seq(Nat)
  BY LenProperties DEF Buffer
<1>2. q = Append(p, u)
  OBVIOUS
<1> HIDE DEF p, q
<1>3. Len(q) = Len(p) + 1 /\ q[Len(p) + 1] = u /\ \A k \in 1 .. Len(p) : q[k] = p[k]
  BY <1>1, <1>2, AppendProperties
<1>4. ASSUME NEW k \in 1 .. Len(p) PROVE p[k] \in Record /\ p[k].text \in Seq(Nat)
  <2>1. p[k] \in Record
    BY <1>1, ElementOfSeq
  <2> QED
    BY <2>1 DEF Record
<1>5. ASSUME NEW k \in 1 .. Len(p) + 1 PROVE TextAt(c, k) = TextAt(b, k)
  <2>1. CASE k = Len(p) + 1
    BY <1>1, <1>3, <2>1 DEF TextAt, p, q
  <2>2. CASE k # Len(p) + 1
    <3>1. k \in 1 .. Len(p) /\ k # Len(q) + 1
      BY <1>1, <1>3, <2>2
    <3>2. TextAt(c, k) = q[k].text /\ TextAt(b, k) = p[k].text
      BY <2>2, <3>1 DEF TextAt, p, q
    <3> QED
      BY <1>3, <3>1, <3>2
  <2> QED
    BY <2>1, <2>2
<1>6. TextsNamed(c, d, m2)
  <2>1. Named(d, m2) /\ Named(b.text, m2)
    BY <1>1, NamedStays DEF BufferKept, TextsNamed
  <2>2. ASSUME NEW k \in 1 .. Len(p) PROVE Named(q[k].text, m2)
    BY <1>3, <1>4, NamedStays DEF BufferKept, TextsNamed, p
  <2>3. Named(q[Len(p) + 1].text, m2)
    BY <1>3, <2>1
  <2>4. ASSUME NEW k \in 1 .. Len(q) PROVE Named(q[k].text, m2)
    <3>1. k \in 1 .. Len(p) \/ k = Len(p) + 1
      BY <1>1, <1>3
    <3> QED
      BY <2>2, <2>3, <3>1
  <2>5. Named(c.text, m2)
    OBVIOUS
  <2> QED
    BY <2>1, <2>4, <2>5 DEF TextsNamed, q
<1>7. RecsGive(c)
  <2>1. SUFFICES ASSUME NEW k \in 1 .. Len(q) PROVE Gives(q[k], TextAt(c, k + 1))
    BY DEF RecsGive, q
  <2>2. CASE k = Len(p) + 1
    <3>1. k + 1 = Len(q) + 1
      BY <1>1, <1>3, <2>2
    <3>2. TextAt(c, k + 1) = t
      BY <3>1 DEF TextAt, q
    <3> QED
      BY <1>3, <2>2, <3>2
  <2>3. CASE k # Len(p) + 1
    <3>1. k \in 1 .. Len(p) /\ k + 1 \in 1 .. Len(p) + 1
      BY <1>1, <1>3, <2>3
    <3>2. Gives(p[k], TextAt(b, k + 1))
      BY <3>1 DEF BufferKept, RecsGive, p
    <3> QED
      BY <1>3, <1>5, <3>1, <3>2
  <2> QED
    BY <2>2, <2>3
<1>8. Closed(c)
  BY DEF Closed
<1> QED
  BY <1>1, <1>3, <1>5, <1>6, <1>7, <1>8 DEF p, q

(* The record of a change of an unmodified buffer leads back to the file.  *)
LEMMA RecordAsFile ==
  ASSUME NEW b \in Buffer, NEW d \in Seq(Nat), AsFile(b, d), b.open,
         NEW u \in Record, u.text = b.text, u.changed = b.changed,
         NEW c \in Buffer, c.recs = Append(b.recs, u), c.open => c.changed \/ c.text = d
  PROVE  AsFile(c, d)
<1> DEFINE p == b.recs
           q == c.recs
<1>1. p \in Seq(Record) /\ Len(p) \in Nat /\ q = Append(p, u)
  BY LenProperties DEF Buffer
<1> HIDE DEF p, q
<1>2. Len(q) = Len(p) + 1 /\ q[Len(p) + 1] = u /\ \A k \in 1 .. Len(p) : q[k] = p[k]
  BY <1>1, AppendProperties
<1>3. ASSUME NEW k \in 1 .. Len(q) PROVE q[k].changed \/ q[k].text = d
  <2>1. CASE k = Len(p) + 1
    BY <1>2, <2>1 DEF AsFile
  <2>2. CASE k # Len(p) + 1
    <3>1. k \in 1 .. Len(p)
      BY <1>1, <1>2, <2>2
    <3> QED
      BY <1>2, <3>1 DEF AsFile, p
  <2> QED
    BY <2>1, <2>2
<1> QED
  BY <1>3 DEF AsFile, q

(* An edit, with its record.                                               *)
LEMMA EditKeeps ==
  ASSUME buf \in Buffer, onDisk \in Seq(Nat), NEW m \in Nat, BufferKept(buf, onDisk, m), buf.open,
         NEW u \in Record, u.text = buf.text, u.changed = buf.changed,
         NEW t \in Seq(Nat), Gives(u, t), NEW m2 \in Nat, m <= m2, Named(t, m2)
  PROVE  LET c == Edited(t, u)
         IN /\ c \in Buffer /\ BufferKept(c, onDisk, m2) /\ c.open /\ c.text = t
            /\ AsFile(buf, onDisk) => AsFile(c, onDisk)
<1> DEFINE c == Edited(t, u)
           q == Append(buf.recs, u)
<1>1. q \in Seq(Record)
  BY AppendProperties DEF Buffer
<1>2. /\ c \in Buffer /\ c.text = t /\ c.changed = TRUE /\ c.recs = q /\ c.ptr = 0
      /\ c.open = buf.open
  <2> DEFINE ch == TRUE
             z == 0
  <2>1. c = [buf EXCEPT !.text = t, !.changed = ch, !.recs = q, !.ptr = z]
    BY DEF Edited, Recorded
  <2>2. ch \in BOOLEAN /\ ch = TRUE /\ z \in Nat /\ z = 0
    OBVIOUS
  <2> HIDE DEF c, q, ch, z
  <2>3. /\ c \in Buffer /\ c.text = t /\ c.changed = ch /\ c.recs = q /\ c.ptr = z
        /\ c.open = buf.open
    BY <1>1, <2>1, <2>2 DEF Buffer
  <2> QED
    BY <2>2, <2>3
<1>3. c.recs = Append(buf.recs, u)
  BY <1>2
<1> HIDE DEF c, q
<1>4. TextsNamed(c, onDisk, m2) /\ RecsGive(c) /\ Closed(c)
  BY <1>2, <1>3, RecordGiven
<1>5. Mirrored(c)
  BY <1>2 DEF Mirrored
<1>6. AsFile(buf, onDisk) => AsFile(c, onDisk)
  BY <1>2, <1>3, RecordAsFile
<1> QED
  BY <1>2, <1>4, <1>5, <1>6 DEF BufferKept, c

(* As many records more or fewer at both ends of what undo has gone over.  *)
LEMMA OddStays ==
  /\ \A n, r, p \in Int : p = r - 1 /\ (n - r) % 2 = 1 => (n + 1 - p) % 2 = 1
  /\ \A x \in Int : x % 2 = 1 => (x - 2) % 2 = 1
<1>1. ASSUME NEW n \in Int, NEW r \in Int, NEW p \in Int, p = r - 1, (n - r) % 2 = 1
      PROVE  (n + 1 - p) % 2 = 1
  <2>1. n + 1 - p = n - r + 2 /\ n - r \in Int
    BY <1>1
  <2>2. \A x \in Int : x % 2 = 1 => (x + 2) % 2 = 1
    OBVIOUS
  <2> QED
    BY <1>1, <2>1, <2>2
<1>2. \A x \in Int : x % 2 = 1 => (x - 2) % 2 = 1
  OBVIOUS
<1> QED
  BY <1>1, <1>2

(* What undo takes back: the change of the record before ptr.              *)
UndoAt == IF buf.ptr = 0 THEN Len(buf.recs) ELSE buf.ptr - 1

(* Undo goes back to that record's text, with a record of its own.         *)
LEMMA UndoKeeps ==
  ASSUME buf \in Buffer, onDisk \in Seq(Nat), NEW m \in Nat, BufferKept(buf, onDisk, m), buf.open,
         buf.recs # <<>>, buf.ptr # 1
  PROVE  LET u == buf.recs[UndoAt]
             c == Recorded(u.text, u.changed, Undoable(u.l, u.n, u.bol, ~u.ins), UndoAt)
         IN /\ u \in Record /\ Gives(u, buf.text) /\ Named(u.text, m)
            /\ c \in Buffer /\ BufferKept(c, onDisk, m) /\ c.open /\ c.text = u.text
            /\ AsFile(buf, onDisk) => AsFile(c, onDisk)
<1> DEFINE n == Len(buf.recs)
           p == UndoAt
           u == buf.recs[p]
           v == Undoable(u.l, u.n, u.bol, ~u.ins)
           q == Append(buf.recs, v)
           c == Recorded(u.text, u.changed, v, p)
<1>1. buf.recs \in Seq(Record) /\ n \in Nat \ {0} /\ buf.text \in Seq(Nat) /\ buf.changed \in BOOLEAN
  BY EmptySeq, LenProperties DEF Buffer
<1>2. buf.ptr # 0 => buf.ptr \in 1 .. n /\ (n - buf.ptr) % 2 = 1
  BY DEF BufferKept, Mirrored
<1>3. p \in 1 .. n
  BY <1>1, <1>2 DEF UndoAt
<1> HIDE DEF n, p
<1>4. u \in Record
  BY <1>1, <1>3, ElementOfSeq DEF n
<1> HIDE DEF u
<1>5. u.text \in Seq(Nat) /\ u.changed \in BOOLEAN /\ u.l \in Nat /\ u.n \in Nat
      /\ u.bol \in BOOLEAN /\ u.ins \in BOOLEAN
  BY <1>4 DEF Record
<1>6. /\ v \in Record /\ v.text = buf.text /\ v.changed = buf.changed
      /\ v.l = u.l /\ v.n = u.n /\ v.bol = u.bol /\ v.ins = ~u.ins
  BY <1>1, <1>5 DEF Undoable, Record
<1> HIDE DEF v
<1>7. q \in Seq(Record)
  BY <1>1, <1>6, AppendProperties
<1>8. /\ c \in Buffer /\ c.text = u.text /\ c.changed = u.changed /\ c.ptr = p /\ c.open = buf.open
      /\ c.recs = Append(buf.recs, v)
  <2> HIDE DEF q
  <2>1. c = [buf EXCEPT !.text = u.text, !.changed = u.changed, !.recs = q, !.ptr = p]
    BY DEF Recorded, q
  <2>2. p \in Nat
    BY <1>1, <1>3
  <2>3. /\ c \in Buffer /\ c.text = u.text /\ c.changed = u.changed /\ c.ptr = p
        /\ c.open = buf.open /\ c.recs = q
    BY <1>5, <1>7, <2>1, <2>2 DEF Buffer
  <2> QED
    BY <2>3 DEF q
<1> HIDE DEF c, q
<1>9. TextAt(buf, p + 1) = buf.text
  <2>1. CASE buf.ptr = 0
    BY <2>1 DEF TextAt, UndoAt, p, n
  <2>2. CASE buf.ptr # 0
    <3>1. p + 1 = buf.ptr
      BY <1>2, <2>2 DEF UndoAt, p
    <3>2. buf.ptr \in buf.ptr .. n + 1 /\ n + 1 + buf.ptr - buf.ptr = n + 1
      BY <1>1, <1>2, <2>2
    <3>3. TextAt(buf, buf.ptr) = TextAt(buf, n + 1 + buf.ptr - buf.ptr)
      BY <2>2, <3>2 DEF BufferKept, Mirrored, n
    <3>4. TextAt(buf, n + 1) = buf.text
      BY DEF TextAt, n
    <3> QED
      BY <3>1, <3>2, <3>3, <3>4
  <2> QED
    BY <2>1, <2>2
<1>10. Gives(u, buf.text) /\ Named(u.text, m)
  <2>1. Gives(u, TextAt(buf, p + 1))
    BY <1>3 DEF BufferKept, RecsGive, n, u
  <2>2. Named(u.text, m)
    BY <1>3 DEF BufferKept, TextsNamed, n, u
  <2> QED
    BY <1>9, <2>1, <2>2
<1>11. Gives(v, u.text)
  BY <1>6, <1>10, <1>5 DEF Gives
<1>12. /\ Len(c.recs) = n + 1
       /\ \A k \in 1 .. n + 1 : TextAt(c, k) = TextAt(buf, k)
       /\ TextsNamed(c, onDisk, m) /\ RecsGive(c) /\ Closed(c)
  <2>1. m <= m /\ c.open
    BY <1>8
  <2>2. Gives(v, c.text) /\ Named(c.text, m) /\ c.text \in Seq(Nat)
    BY <1>5, <1>8, <1>10, <1>11
  <2> QED
    BY <1>6, <1>8, <2>1, <2>2, RecordGiven DEF n
<1>13. Mirrored(c)
  <2>1. c.ptr \in 1 .. Len(c.recs) /\ (Len(c.recs) - c.ptr) % 2 = 1
    <3>1. CASE buf.ptr = 0
      <4>1. p = n /\ n + 1 - n = 1 /\ n \in 1 .. n + 1
        BY <1>1, <3>1 DEF UndoAt, p, n
      <4>2. c.ptr = n /\ Len(c.recs) = n + 1
        BY <1>8, <1>12, <4>1
      <4>3. 1 % 2 = 1
        OBVIOUS
      <4> QED
        BY <4>1, <4>2, <4>3
    <3>2. CASE buf.ptr # 0
      <4>1. p = buf.ptr - 1
        BY <3>2 DEF UndoAt, p
      <4>2. n \in Int /\ buf.ptr \in Int /\ p \in Int /\ (n - buf.ptr) % 2 = 1
        BY <1>1, <1>2, <1>3, <3>2
      <4>3. (n + 1 - p) % 2 = 1
        BY <4>1, <4>2, OddStays
      <4>4. c.ptr = p /\ Len(c.recs) = n + 1 /\ p \in 1 .. n + 1
        BY <1>1, <1>3, <1>8, <1>12
      <4>5. Len(c.recs) - c.ptr = n + 1 - p
        BY <4>2, <4>4
      <4>6. c.ptr \in 1 .. Len(c.recs)
        BY <4>4
      <4> QED
        BY <4>3, <4>5, <4>6
    <3> QED
      BY <3>1, <3>2
  <2>2. TextAt(c, n + 2) = u.text /\ TextAt(c, p) = u.text
    <3>1. TextAt(c, n + 2) = c.text
      <4>1. n + 1 + 1 = n + 2
        BY <1>1
      <4> QED
        BY <1>12, <4>1 DEF TextAt
    <3>2. TextAt(buf, p) = u.text
      <4>1. p # n + 1
        BY <1>1, <1>3
      <4> QED
        BY <4>1 DEF TextAt, n, u
    <3>3. TextAt(c, p) = TextAt(buf, p)
      BY <1>1, <1>3, <1>12
    <3> QED
      BY <1>8, <3>1, <3>2, <3>3
  <2>3. ASSUME NEW i \in p .. n + 2 PROVE TextAt(c, i) = TextAt(c, n + 2 + p - i)
    <3>1. CASE i = p
      <4>1. n + 2 + p - i = n + 2
        BY <1>1, <1>3, <3>1
      <4> QED
        BY <2>2, <3>1, <4>1
    <3>2. CASE i = n + 2
      <4>1. n + 2 + p - i = p
        BY <1>1, <1>3, <3>2
      <4> QED
        BY <2>2, <3>2, <4>1
    <3>3. CASE i # p /\ i # n + 2
      <4>1. i \in p + 1 .. n + 1 /\ n + 2 + p - i \in p + 1 .. n + 1
        BY <1>1, <1>3, <3>3
      <4>2. i \in 1 .. n + 1 /\ n + 2 + p - i \in 1 .. n + 1
        BY <1>1, <1>3, <4>1
      <4>3. TextAt(buf, i) = TextAt(buf, n + 2 + p - i)
        <5>1. CASE buf.ptr = 0
          <6>1. p = n
            BY <5>1 DEF UndoAt, p, n
          <6>2. n + 2 + p - i = i
            BY <1>1, <4>1, <6>1
          <6> QED
            BY <6>2
        <5>2. CASE buf.ptr # 0
          <6>1. p + 1 = buf.ptr /\ buf.ptr \in Int
            BY <1>2, <5>2 DEF UndoAt, p
          <6>2. i \in buf.ptr .. n + 1 /\ n + 2 + p - i = n + 1 + buf.ptr - i
            <7>1. n \in Int /\ p \in Int /\ i \in Int
              BY <1>1, <1>3
            <7> QED
              BY <4>1, <6>1, <7>1
          <6>3. TextAt(buf, i) = TextAt(buf, n + 1 + buf.ptr - i)
            BY <5>2, <6>2 DEF BufferKept, Mirrored, n
          <6> QED
            BY <6>2, <6>3
        <5> QED
          BY <5>1, <5>2
      <4> QED
        BY <1>12, <4>2, <4>3
    <3> QED
      BY <3>1, <3>2, <3>3
  <2>4. Len(c.recs) + 1 = n + 2
    BY <1>1, <1>12
  <2> QED
    BY <1>8, <2>1, <2>3, <2>4 DEF Mirrored
<1>14. AsFile(buf, onDisk) => AsFile(c, onDisk)
  <2>1. SUFFICES ASSUME AsFile(buf, onDisk) PROVE AsFile(c, onDisk)
    OBVIOUS
  <2>2. u.changed \/ u.text = onDisk
    BY <1>3, <2>1 DEF AsFile, n, u
  <2> QED
    BY <1>6, <1>8, <2>1, <2>2, RecordAsFile
<1>15. BufferKept(c, onDisk, m)
  BY <1>12, <1>13 DEF BufferKept
<1>16. /\ u \in Record /\ Gives(u, buf.text) /\ Named(u.text, m)
       /\ c \in Buffer /\ BufferKept(c, onDisk, m) /\ c.open /\ c.text = u.text
       /\ AsFile(buf, onDisk) => AsFile(c, onDisk)
  BY <1>4, <1>8, <1>10, <1>14, <1>15
<1> QED
  BY <1>16 DEF c, v, u, p

LEMMA AllButLast ==
  ASSUME NEW S, NEW p \in Seq(S), Len(p) \in Nat \ {0}
  PROVE  /\ Front(p) \in Seq(S) /\ Len(Front(p)) = Len(p) - 1
         /\ \A k \in 1 .. Len(p) - 1 : Front(p)[k] = p[k]
<1>1. \A k \in 1 .. Len(p) - 1 : p[k] \in S
  BY ElementOfSeq
<1> DEFINE n == Len(p) - 1
<1>2. n \in Nat /\ Front(p) = SubSeq(p, 1, n) /\ \A k \in 1 .. n : p[k] \in S
  BY <1>1 DEF Front
<1> HIDE DEF n
<1>3. SubSeq(p, 1, n) \in Seq(S) /\ Len(SubSeq(p, 1, n)) = n
  BY <1>2, SubSeqProperties
<1>4. \A k \in 1 .. n : SubSeq(p, 1, n)[k] = p[k]
  BY <1>2, SubSeqProperties
<1> QED
  BY <1>2, <1>3, <1>4 DEF n

(* Redo takes the newest record back, and goes on by one.                  *)
LEMMA RedoKeeps ==
  ASSUME NEW b \in Buffer, NEW d \in Seq(Nat), NEW m \in Nat, BufferKept(b, d, m), b.open,
         b.ptr # 0
  PROVE  LET u == Last(b.recs)
             c == [b EXCEPT !.text = u.text, !.changed = u.changed, !.recs = Front(@),
                            !.ptr = IF @ + 1 = Len(b.recs) THEN 0 ELSE @ + 1]
         IN /\ u \in Record /\ Gives(u, b.text) /\ Named(u.text, m)
            /\ c \in Buffer /\ BufferKept(c, d, m) /\ c.open /\ c.text = u.text
            /\ AsFile(b, d) => AsFile(c, d)
<1> DEFINE p == b.recs
           n == Len(p)
           u == Last(p)
           q == Front(p)
           r == IF b.ptr + 1 = n THEN 0 ELSE b.ptr + 1
           c == [b EXCEPT !.text = u.text, !.changed = u.changed, !.recs = q, !.ptr = r]
<1>1. b.ptr \in 1 .. n /\ (n - b.ptr) % 2 = 1
  BY DEF BufferKept, Mirrored
<1>2. p \in Seq(Record) /\ n \in Nat \ {0} /\ b.ptr \in Nat
  <2>1. p \in Seq(Record) /\ n \in Nat /\ b.ptr \in Nat
    BY LenProperties DEF Buffer
  <2> QED
    BY <1>1, <2>1
<1>3. \A k \in 1 .. n : p[k] \in Record
  BY <1>2, ElementOfSeq
<1>4. n \in 1 .. n /\ u = p[n] /\ u \in Record
  BY <1>2, <1>3 DEF Last
<1>5. q \in Seq(Record) /\ Len(q) = n - 1 /\ \A k \in 1 .. n - 1 : q[k] = p[k]
  BY <1>2, AllButLast
<1>6. r \in Nat
  BY <1>2
<1> HIDE DEF p, u, q, n, r
<1>7. /\ c \in Buffer /\ c.text = u.text /\ c.changed = u.changed /\ c.recs = q
      /\ c.ptr = r /\ c.open = b.open
  BY <1>4, <1>5, <1>6 DEF Buffer, Record
<1> HIDE DEF c
<1>8. ASSUME NEW k \in 1 .. n PROVE TextAt(c, k) = TextAt(b, k)
  <2>0. TextAt(b, k) = p[k].text
    <3>1. k # n + 1
      BY <1>2
    <3> QED
      BY <3>1 DEF TextAt, p, n
  <2>1. CASE k = n
    <3>1. Len(q) + 1 = k
      BY <1>2, <1>5, <2>1
    <3>2. TextAt(c, k) = c.text
      BY <1>7, <3>1 DEF TextAt
    <3> QED
      BY <1>4, <1>7, <2>0, <2>1, <3>2
  <2>2. CASE k # n
    <3>1. k \in 1 .. n - 1 /\ k # Len(q) + 1
      BY <1>2, <1>5, <2>2
    <3>2. TextAt(c, k) = q[k].text
      BY <1>7, <3>1 DEF TextAt
    <3> QED
      BY <1>5, <2>0, <3>1, <3>2
  <2> QED
    BY <2>1, <2>2
<1>9. Gives(u, b.text) /\ Named(u.text, m)
  <2>1. Gives(p[n], TextAt(b, n + 1))
    BY <1>4 DEF BufferKept, RecsGive, p, n
  <2>2. TextAt(b, n + 1) = b.text
    BY DEF TextAt, p, n
  <2>3. Named(p[n].text, m)
    BY <1>4 DEF BufferKept, TextsNamed, p, n
  <2> QED
    BY <1>4, <2>1, <2>2, <2>3
<1>10. TextsNamed(c, d, m)
  <2>1. Named(d, m)
    BY DEF BufferKept, TextsNamed
  <2>2. ASSUME NEW k \in 1 .. Len(q) PROVE Named(q[k].text, m)
    <3>1. k \in 1 .. n /\ q[k] = p[k]
      BY <1>2, <1>5
    <3> QED
      BY <3>1 DEF BufferKept, TextsNamed, p, n
  <2> QED
    BY <1>7, <1>9, <2>1, <2>2 DEF TextsNamed
<1>11. RecsGive(c)
  <2>1. SUFFICES ASSUME NEW k \in 1 .. Len(q) PROVE Gives(q[k], TextAt(c, k + 1))
    BY <1>7 DEF RecsGive
  <2>2. k \in 1 .. n /\ q[k] = p[k] /\ k + 1 \in 1 .. n
    BY <1>2, <1>5
  <2>3. Gives(p[k], TextAt(b, k + 1))
    BY <2>2 DEF BufferKept, RecsGive, p, n
  <2> QED
    BY <1>8, <2>2, <2>3
<1>12. Mirrored(c)
  <2>1. SUFFICES ASSUME r # 0
                 PROVE  /\ r \in 1 .. n - 1 /\ (n - 1 - r) % 2 = 1
                        /\ \A i \in r .. n : TextAt(c, i) = TextAt(c, n + r - i)
    <3>1. Len(c.recs) = n - 1 /\ n - 1 + 1 = n
      BY <1>2, <1>5, <1>7
    <3> QED
      BY <1>7, <3>1 DEF Mirrored
  <2>2. r = b.ptr + 1 /\ b.ptr + 1 # n
    BY <2>1 DEF r
  <2>3. b.ptr # n
    <3>1. n - n = 0 /\ 0 % 2 = 0
      BY <1>2
    <3> QED
      BY <1>1, <3>1
  <2>0. b.ptr \in 1 .. n /\ b.ptr \in Int /\ n \in Int /\ r \in Int
    BY <1>1, <1>2, <2>2
  <2>4. r \in 1 .. n - 1
    BY <2>0, <2>2, <2>3
  <2>5. n - 1 - r = n - b.ptr - 2 /\ n - b.ptr \in Int
    BY <2>0, <2>2
  <2>6. (n - b.ptr - 2) % 2 = 1
    BY <1>1, <2>5, OddStays
  <2>7. ASSUME NEW i \in r .. n PROVE TextAt(c, i) = TextAt(c, n + r - i)
    <3>1. i \in 1 .. n /\ n + r - i \in 1 .. n /\ i \in b.ptr .. n + 1
      BY <2>0, <2>2, <2>4
    <3>2. n + 1 + b.ptr - i = n + r - i
      BY <2>0, <2>2, <3>1
    <3>3. TextAt(b, i) = TextAt(b, n + 1 + b.ptr - i)
      BY <3>1 DEF BufferKept, Mirrored, p, n
    <3> QED
      BY <1>8, <3>1, <3>2, <3>3
  <2> QED
    BY <2>4, <2>5, <2>6, <2>7
<1>13. Closed(c)
  BY <1>7 DEF Closed
<1>14. AsFile(b, d) => AsFile(c, d)
  <2>1. SUFFICES ASSUME AsFile(b, d) PROVE AsFile(c, d)
    OBVIOUS
  <2>2. u.changed \/ u.text = d
    BY <1>4, <2>1 DEF AsFile, p, n
  <2>3. ASSUME NEW k \in 1 .. Len(q) PROVE q[k].changed \/ q[k].text = d
    <3>1. k \in 1 .. n /\ q[k] = p[k]
      BY <1>2, <1>5
    <3> QED
      BY <2>1, <3>1 DEF AsFile, p, n
  <2> QED
    BY <1>7, <2>2, <2>3 DEF AsFile
<1>15. BufferKept(c, d, m)
  BY <1>10, <1>11, <1>12, <1>13 DEF BufferKept
<1>16. c = [b EXCEPT !.text = u.text, !.changed = u.changed, !.recs = Front(@),
                     !.ptr = IF @ + 1 = Len(b.recs) THEN 0 ELSE @ + 1]
  BY DEF c, q, r, p, n
<1>17. u = Last(b.recs)
  BY DEF u, p
<1> QED
  BY <1>4, <1>7, <1>9, <1>14, <1>15, <1>16, <1>17

(* A save: the records but for one mark are as they were.  If that was the *)
(* only one that counted as unmodified, none does now.                     *)
LEMMA SaveKeeps ==
  ASSUME buf \in Buffer, onDisk \in Seq(Nat), NEW m \in Nat, BufferKept(buf, onDisk, m), buf.open,
         NEW own \in BOOLEAN, NEW d, d = IF own THEN buf.text ELSE onDisk
  PROVE  LET c == [buf EXCEPT !.changed = @ /\ ~own, !.recs = Marked]
         IN /\ c \in Buffer /\ BufferKept(c, d, m) /\ c.open /\ c.text = buf.text
            /\ AsFile(buf, onDisk) /\ (own => \A i, j \in Unmodified : i = j) => AsFile(c, d)
<1> DEFINE p == buf.recs
           n == Len(p)
           q == Marked
           marked(k) == p[k].changed \/ \A j \in Unmodified : j <= k
           ch == buf.changed /\ ~own
           c == [buf EXCEPT !.changed = ch, !.recs = q]
<1>1. p \in Seq(Record) /\ DOMAIN p = 1 .. n /\ n \in Nat /\ buf.changed \in BOOLEAN
  BY LenProperties DEF Buffer
<1>2. Unmodified = {i \in 1 .. n : ~p[i].changed}
  BY <1>1 DEF Unmodified
<1>3. q = [k \in 1 .. n |-> [p[k] EXCEPT !.changed = marked(k)]]
  BY <1>1 DEF Marked
<1>4. \A k \in 1 .. n : marked(k) \in BOOLEAN
  OBVIOUS
<1>5. ch \in BOOLEAN
  OBVIOUS
<1> HIDE DEF p, n, q, marked, ch
<1>6. ASSUME NEW k \in 1 .. n
      PROVE  LET v == [p[k] EXCEPT !.changed = marked(k)]
             IN /\ v \in Record /\ v.changed = marked(k) /\ v.text = p[k].text /\ v.l = p[k].l
                /\ v.n = p[k].n /\ v.bol = p[k].bol /\ v.ins = p[k].ins
  <2>1. p[k] \in Record
    BY <1>1, ElementOfSeq DEF n
  <2> QED
    BY <1>4, <2>1 DEF Record
<1>7. q \in Seq(Record) /\ Len(q) = n /\ \A k \in 1 .. n : q[k] = [p[k] EXCEPT !.changed = marked(k)]
  <2>1. \A k \in 1 .. n : [p[k] EXCEPT !.changed = marked(k)] \in Record
    BY <1>6
  <2>2. /\ [k \in 1 .. n |-> [p[k] EXCEPT !.changed = marked(k)]] \in Seq(Record)
        /\ Len([k \in 1 .. n |-> [p[k] EXCEPT !.changed = marked(k)]]) = n
    <3> DEFINE e(k) == [p[k] EXCEPT !.changed = marked(k)]
    <3>1. \A k \in 1 .. n : e(k) \in Record
      BY <2>1
    <3> HIDE DEF e
    <3>2. [k \in 1 .. n |-> e(k)] \in Seq(Record) /\ Len([k \in 1 .. n |-> e(k)]) = n
      BY <1>1, <3>1
    <3> QED
      BY <3>2 DEF e
  <2> QED
    BY <1>3, <2>2
<1>8. \A k \in 1 .. n :
        /\ q[k].changed = marked(k) /\ q[k].text = p[k].text /\ q[k].l = p[k].l
        /\ q[k].n = p[k].n /\ q[k].bol = p[k].bol /\ q[k].ins = p[k].ins
  BY <1>6, <1>7
<1>9. /\ c \in Buffer /\ c.text = buf.text /\ c.changed = ch /\ c.recs = q
      /\ c.ptr = buf.ptr /\ c.open = buf.open
  BY <1>5, <1>7 DEF Buffer
<1> HIDE DEF c
<1>10. ASSUME NEW k \in 1 .. n + 1 PROVE TextAt(c, k) = TextAt(buf, k)
  <2>1. CASE k = n + 1
    BY <1>7, <1>9, <2>1 DEF TextAt, p, n
  <2>2. CASE k # n + 1
    <3>1. k \in 1 .. n
      BY <1>1, <2>2
    <3>2. TextAt(c, k) = q[k].text /\ TextAt(buf, k) = p[k].text
      BY <1>7, <1>9, <2>2 DEF TextAt, p, n
    <3> QED
      BY <1>8, <3>1, <3>2
  <2> QED
    BY <2>1, <2>2
<1>11. TextsNamed(c, d, m)
  <2>1. Named(buf.text, m) /\ Named(onDisk, m) /\ \A k \in 1 .. n : Named(p[k].text, m)
    BY DEF BufferKept, TextsNamed, p, n
  <2> QED
    BY <1>7, <1>8, <1>9, <2>1 DEF TextsNamed
<1>12. RecsGive(c)
  <2>1. SUFFICES ASSUME NEW k \in 1 .. n PROVE Gives(q[k], TextAt(c, k + 1))
    BY <1>7, <1>9 DEF RecsGive
  <2>2. Gives(p[k], TextAt(buf, k + 1))
    BY DEF BufferKept, RecsGive, p, n
  <2>3. TextAt(c, k + 1) = TextAt(buf, k + 1)
    <3>1. k + 1 \in 1 .. n + 1
      BY <1>1
    <3> QED
      BY <1>10, <3>1
  <2> QED
    BY <1>8, <2>2, <2>3 DEF Gives
<1>13. Mirrored(c)
  <2>1. SUFFICES ASSUME buf.ptr # 0
                 PROVE  /\ buf.ptr \in 1 .. n /\ (n - buf.ptr) % 2 = 1
                        /\ \A i \in buf.ptr .. n + 1 : TextAt(c, i) = TextAt(c, n + 1 + buf.ptr - i)
    BY <1>7, <1>9 DEF Mirrored
  <2>2. /\ buf.ptr \in 1 .. n /\ (n - buf.ptr) % 2 = 1
        /\ \A i \in buf.ptr .. n + 1 : TextAt(buf, i) = TextAt(buf, n + 1 + buf.ptr - i)
    BY <2>1 DEF BufferKept, Mirrored, p, n
  <2>3. ASSUME NEW i \in buf.ptr .. n + 1 PROVE TextAt(c, i) = TextAt(c, n + 1 + buf.ptr - i)
    <3>1. i \in 1 .. n + 1 /\ n + 1 + buf.ptr - i \in 1 .. n + 1
      <4>1. n \in Int /\ buf.ptr \in Int /\ i \in Int /\ buf.ptr >= 1
        BY <1>1, <2>2
      <4> QED
        BY <4>1
    <3> QED
      BY <1>10, <2>2, <3>1
  <2> QED
    BY <2>2, <2>3
<1>14. Closed(c)
  BY <1>9 DEF Closed
<1>15. AsFile(buf, onDisk) /\ (own => \A i, j \in Unmodified : i = j) => AsFile(c, d)
  <2>1. SUFFICES ASSUME AsFile(buf, onDisk), own => \A i, j \in Unmodified : i = j
                 PROVE  AsFile(c, d)
    OBVIOUS
  <2>2. c.changed \/ c.text = d
    <3>1. CASE own
      BY <1>9, <3>1
    <3>2. CASE ~own
      BY <1>9, <2>1, <3>2 DEF AsFile, ch
    <3> QED
      BY <3>1, <3>2
  <2>3. ASSUME NEW k \in 1 .. n PROVE q[k].changed \/ q[k].text = d
    <3>1. CASE p[k].changed
      BY <1>8, <3>1 DEF marked
    <3>2. CASE ~p[k].changed /\ own
      <4>1. k \in Unmodified
        BY <1>2, <3>2
      <4>2. \A j \in Unmodified : j = k
        BY <2>1, <3>2, <4>1
      <4>3. \A j \in Unmodified : j <= k
        BY <1>1, <4>2
      <4> QED
        BY <1>8, <4>3 DEF marked
    <3>3. CASE ~p[k].changed /\ ~own
      <4>1. p[k].text = onDisk
        BY <2>1, <3>3 DEF AsFile, p, n
      <4> QED
        BY <1>8, <3>3, <4>1
    <3> QED
      BY <3>1, <3>2, <3>3
  <2> QED
    BY <1>7, <1>9, <2>2, <2>3 DEF AsFile
<1>16. BufferKept(c, d, m)
  BY <1>11, <1>12, <1>13, <1>14 DEF BufferKept
<1>17. c = [buf EXCEPT !.changed = @ /\ ~own, !.recs = Marked]
  BY DEF c, q, ch
<1> QED
  BY <1>9, <1>15, <1>16, <1>17

(* The file is loaded into a new buffer, if there is none.                 *)
LEMMA LoadKeeps ==
  ASSUME MessageTypes, BufferKept(buf, onDisk, Bound)
  PROVE  /\ Loaded \in Buffer /\ BufferKept(Loaded, onDisk, Bound) /\ Loaded.open
         /\ Loaded.text = Current
         /\ AsFile(buf, onDisk) => AsFile(Loaded, onDisk)
<1>1. CASE buf.open
  BY <1>1 DEF Loaded, Current, MessageTypes
<1>2. CASE ~buf.open
  <2> DEFINE c == [buf EXCEPT !.open = TRUE, !.text = onDisk]
  <2>1. buf \in Buffer /\ onDisk \in Seq(Nat) /\ buf.recs = <<>>
    BY <1>2 DEF MessageTypes, BufferKept, Closed
  <2>2. /\ c \in Buffer /\ c.open = TRUE /\ c.text = onDisk /\ c.recs = <<>>
        /\ c.changed = buf.changed /\ c.ptr = buf.ptr
    BY <2>1 DEF Buffer
  <2>3. Loaded = c /\ Current = onDisk
    BY <1>2 DEF Loaded, Current
  <2> HIDE DEF c
  <2>4. \A k \in 1 .. Len(c.recs) : FALSE
    BY <2>2
  <2>5. c.ptr = 0
    <3>1. \A k \in 1 .. Len(buf.recs) : FALSE
      BY <2>1
    <3> QED
      BY <2>2, <3>1 DEF BufferKept, Mirrored
  <2>6. BufferKept(c, onDisk, Bound)
    BY <2>2, <2>4, <2>5 DEF BufferKept, TextsNamed, RecsGive, Mirrored, Closed
  <2>7. AsFile(c, onDisk)
    BY <2>2, <2>4 DEF AsFile
  <2> QED
    BY <2>2, <2>3, <2>6, <2>7
<1> QED
  BY <1>1, <1>2 DEF MessageTypes, Buffer

-----------------------------------------------------------------------------
(* What the messages say.                                                  *)
Right(e, t, d) ==
  /\ e.valid => IsLine(t, e.line, e.name)
  /\ e.saved => IsLine(d, e.org, e.name)

LEMMA AllRight == WithTheirLines <=> \A i \in DOMAIN errors : Right(errors[i], Current, onDisk)
BY DEF WithTheirLines, Right

LEMMA AllRightNext ==
  WithTheirLines' <=> \A i \in DOMAIN errors' : Right(errors'[i], Current', onDisk')
BY DEF WithTheirLines, Right

(* Messages, each of them changed, are as many messages.                   *)
LEMMA EachChanged ==
  ASSUME NEW s \in Seq(Msg), NEW r \in [DOMAIN s -> Msg]
  PROVE  r \in Seq(Msg) /\ Len(r) = Len(s) /\ DOMAIN r = DOMAIN s
<1>1. Len(s) \in Nat /\ DOMAIN s = 1 .. Len(s)
  BY LenProperties
<1>2. r = [i \in 1 .. Len(s) |-> r[i]] /\ \A i \in 1 .. Len(s) : r[i] \in Msg
  BY <1>1
<1>3. [i \in 1 .. Len(s) |-> r[i]] \in Seq(Msg)
  BY <1>1, <1>2, IsASeq
<1>4. r \in Seq(Msg) /\ DOMAIN r = 1 .. Len(s)
  BY <1>2, <1>3
<1>5. DOMAIN r = 1 .. Len(r) /\ Len(r) \in Nat
  BY <1>4, LenProperties
<1>6. Len(r) = Len(s)
  BY <1>1, <1>4, <1>5
<1> QED
  BY <1>1, <1>4, <1>6

(* New lines, with an edit or with an undo.                                *)
LEMMA InsertsRight ==
  ASSUME MessageTypes, Current = buf.text, NEW t \in Seq(Nat),
         NEW l \in Nat, NEW bol \in BOOLEAN, NEW n \in Nat,
         Grown(buf.text, t, Behind(l, bol), n)
  PROVE  /\ InsAll(l, n, bol) \in Seq(Msg) /\ Len(InsAll(l, n, bol)) = Len(errors)
         /\ WithTheirLines => \A i \in DOMAIN InsAll(l, n, bol) : Right(InsAll(l, n, bol)[i], t, onDisk)
<1>1. errors \in Seq(Msg) /\ buf.text \in Seq(Nat)
  BY DEF MessageTypes, Buffer
<1>2. ASSUME NEW i \in DOMAIN errors
      PROVE  /\ inserr(errors[i], l, n, bol) \in Msg
             /\ WithTheirLines => Right(inserr(errors[i], l, n, bol), t, onDisk)
  <2>1. errors[i] \in Msg /\ (WithTheirLines => Right(errors[i], buf.text, onDisk))
    BY <1>1, AllRight, LenProperties, ElementOfSeq
  <2> QED
    BY <1>1, <2>1, Pushed DEF Right
<1>3. InsAll(l, n, bol) \in [DOMAIN errors -> Msg]
  BY <1>2 DEF InsAll
<1>4. InsAll(l, n, bol) \in Seq(Msg) /\ Len(InsAll(l, n, bol)) = Len(errors)
      /\ DOMAIN InsAll(l, n, bol) = DOMAIN errors
  BY <1>1, <1>3, EachChanged
<1>5. \A i \in DOMAIN errors : InsAll(l, n, bol)[i] = inserr(errors[i], l, n, bol)
  BY DEF InsAll
<1> QED
  BY <1>2, <1>4, <1>5

(* Lines that go, with an edit or with an undo.                            *)
LEMMA DeletesRight ==
  ASSUME MessageTypes, Current = buf.text, NEW t \in Seq(Nat),
         NEW l \in Nat, NEW bol \in BOOLEAN, NEW n \in Nat,
         Grown(t, buf.text, Behind(l, bol), n), Distinct(buf.text)
  PROVE  /\ DelAll(l, n, t) \in Seq(Msg) /\ Len(DelAll(l, n, t)) = Len(errors)
         /\ WithTheirLines => \A i \in DOMAIN DelAll(l, n, t) : Right(DelAll(l, n, t)[i], t, onDisk)
<1>1. errors \in Seq(Msg) /\ buf.text \in Seq(Nat)
  BY DEF MessageTypes, Buffer
<1> DEFINE there(i) == \E j \in DOMAIN t : t[j] = errors[i].name
           e(i) == [delerr(errors[i], l, n) EXCEPT !.valid = @ /\ there(i)]
<1>2. ASSUME NEW i \in DOMAIN errors
      PROVE  e(i) \in Msg /\ (WithTheirLines => Right(e(i), t, onDisk))
  <2> DEFINE d == delerr(errors[i], l, n)
  <2>1. errors[i] \in Msg /\ (WithTheirLines => Right(errors[i], buf.text, onDisk))
    BY <1>1, AllRight, LenProperties, ElementOfSeq
  <2>2. /\ d \in Msg /\ d.name = errors[i].name /\ d.valid = errors[i].valid
        /\ d.org = errors[i].org /\ d.saved = errors[i].saved
        /\ IsLine(buf.text, errors[i].line, errors[i].name) /\ there(i) =>
             IsLine(t, d.line, errors[i].name)
    BY <1>1, <2>1, Pulled
  <2> HIDE DEF d, there
  <2>3. there(i) \in BOOLEAN
    BY DEF there
  <2>4. /\ e(i) \in Msg /\ e(i).name = d.name /\ e(i).org = d.org /\ e(i).saved = d.saved
        /\ e(i).line = d.line /\ e(i).valid = (d.valid /\ there(i))
    BY <2>2, <2>3 DEF d, Msg
  <2> HIDE DEF e
  <2> QED
    BY <2>1, <2>2, <2>4 DEF Right
<1>3. DelAll(l, n, t) = [i \in DOMAIN errors |-> e(i)]
  BY DEF DelAll
<1> HIDE DEF e
<1>4. DelAll(l, n, t) \in [DOMAIN errors -> Msg]
  BY <1>2, <1>3
<1>5. DelAll(l, n, t) \in Seq(Msg) /\ Len(DelAll(l, n, t)) = Len(errors)
      /\ DOMAIN DelAll(l, n, t) = DOMAIN errors
  BY <1>1, <1>4, EachChanged
<1>6. \A i \in DOMAIN errors : DelAll(l, n, t)[i] = e(i)
  BY <1>3
<1> QED
  BY <1>2, <1>5, <1>6

(* A change that a record is of is taken back, by undo or redo.            *)
LEMMA TakenBackRight ==
  ASSUME MessageTypes, Current = buf.text, Distinct(buf.text),
         NEW u \in Record, Gives(u, buf.text)
  PROVE  /\ TakenBack(u) \in Seq(Msg) /\ Len(TakenBack(u)) = Len(errors)
         /\ WithTheirLines => \A i \in DOMAIN TakenBack(u) : Right(TakenBack(u)[i], u.text, onDisk)
<1>1. u.text \in Seq(Nat) /\ u.l \in Nat /\ u.n \in Nat /\ u.bol \in BOOLEAN /\ u.ins \in BOOLEAN
  BY DEF Record
<1>2. CASE u.ins
  <2>1. Grown(u.text, buf.text, Behind(u.l, u.bol), u.n) /\ TakenBack(u) = DelAll(u.l, u.n, u.text)
    BY <1>2 DEF Gives, TakenBack
  <2> QED
    BY <1>1, <2>1, DeletesRight
<1>3. CASE ~u.ins
  <2>1. Grown(buf.text, u.text, Behind(u.l, u.bol), u.n) /\ TakenBack(u) = InsAll(u.l, u.n, u.bol)
    BY <1>3 DEF Gives, TakenBack
  <2> QED
    BY <1>1, <2>1, InsertsRight
<1> QED
  BY <1>2, <1>3

-----------------------------------------------------------------------------
(* The steps.                                                              *)

LEMMA BoundIs ==
  ASSUME LinesAssumption, edits \in Nat
  PROVE  Bound \in Nat /\ MaxTextLines * (edits + 2) = Bound + MaxTextLines
BY DEF LinesAssumption, Bound

(* An edit: its text, its record, and what it does to the messages.        *)
LEMMA EditStep ==
  ASSUME LinesAssumption, MessagesInv, buf.open,
         NEW t \in Seq(Nat), NEW l \in Nat, NEW n \in Nat, NEW bol \in BOOLEAN, NEW ins \in BOOLEAN,
         Gives(Undoable(l, n, bol, ins), t), Named(t, Bound + MaxTextLines),
         buf' = Edited(t, Undoable(l, n, bol, ins)),
         errors' \in Seq(Msg), Len(errors') = Len(errors),
         WithTheirLines => \A i \in DOMAIN errors' : Right(errors'[i], t, onDisk),
         edits' = edits + 1, UNCHANGED <<onDisk, errptr, unique>>
  PROVE  MessagesInv' /\ (unique' => LinesKept)
<1> DEFINE u == Undoable(l, n, bol, ins)
<1>1. buf \in Buffer /\ onDisk \in Seq(Nat) /\ edits \in Nat /\ buf.text \in Seq(Nat) /\ buf.changed \in BOOLEAN
  BY DEF MessagesInv, MessageTypes, Buffer
<1>2. u \in Record /\ u.text = buf.text /\ u.changed = buf.changed
  BY <1>1 DEF Undoable, Record
<1>3. Bound \in Nat /\ Bound + MaxTextLines \in Nat /\ Bound <= Bound + MaxTextLines /\ Bound' = Bound + MaxTextLines
  <2>1. MaxTextLines \in Nat
    BY DEF LinesAssumption
  <2>2. Bound' = MaxTextLines * (edits + 2)
    <3>1. edits + 1 + 1 = edits + 2
      BY <1>1
    <3> QED
      BY <3>1 DEF Bound
  <2>3. Bound \in Nat /\ MaxTextLines * (edits + 2) = Bound + MaxTextLines
    BY <1>1, BoundIs
  <2> HIDE DEF Bound
  <2> QED
    BY <2>1, <2>2, <2>3
<1> HIDE DEF u
<1>4. /\ buf' \in Buffer /\ BufferKept(buf', onDisk, Bound + MaxTextLines) /\ buf'.open
      /\ buf'.text = t /\ (AsFile(buf, onDisk) => AsFile(buf', onDisk))
  <2> DEFINE m2 == Bound + MaxTextLines
  <2>1. buf' = Edited(t, u)
    BY DEF u
  <2>2. Gives(u, t)
    BY DEF u
  <2>3. BufferKept(buf, onDisk, Bound)
    BY DEF MessagesInv
  <2>4. m2 \in Nat /\ Bound \in Nat /\ Bound <= m2 /\ Named(t, m2)
    BY <1>3
  <2> HIDE DEF m2
  <2>5. /\ Edited(t, u) \in Buffer /\ BufferKept(Edited(t, u), onDisk, m2)
        /\ Edited(t, u).open /\ Edited(t, u).text = t
        /\ AsFile(buf, onDisk) => AsFile(Edited(t, u), onDisk)
    BY <1>1, <1>2, <2>2, <2>3, <2>4, EditKeeps
  <2> QED
    BY <2>1, <2>5 DEF m2
<1>5. Current' = t /\ onDisk' = onDisk
  BY <1>4 DEF Current
<1>6. unique' => AsFile(buf, onDisk)' /\ WithTheirLines'
  <2>1. SUFFICES ASSUME unique PROVE AsFile(buf, onDisk)' /\ WithTheirLines'
    OBVIOUS
  <2>2. AsFile(buf, onDisk) /\ WithTheirLines
    BY <2>1 DEF MessagesInv
  <2> QED
    BY <1>4, <1>5, <2>2, AllRightNext
<1>7. MessageTypes'
  BY <1>1, <1>4 DEF MessagesInv, MessageTypes
<1>8. BufferKept(buf, onDisk, Bound)'
  BY <1>3, <1>4, <1>5
<1>9. GoesThere
  BY DEF GoesThere
<1> QED
  BY <1>6, <1>7, <1>8, <1>9 DEF MessagesInv, LinesKept

LEMMA InsertStep ==
  ASSUME LinesAssumption, MessagesInv, NEW l \in 0 .. Len(buf.text) - 1, NEW n \in 1 .. 2,
         NEW bol \in BOOLEAN, fixupins(l, n, bol)
  PROVE  MessagesInv' /\ (unique' => LinesKept)
<1> DEFINE k == Behind(l, bol)
           x == NewLines(n)
           t == SubSeq(buf.text, 1, k) \o x \o SubSeq(buf.text, k + 1, Len(buf.text))
<1>1. buf.text \in Seq(Nat) /\ edits \in Nat /\ Len(buf.text) \in Nat /\ MaxTextLines \in Nat
  BY LenProperties DEF MessagesInv, MessageTypes, Buffer, LinesAssumption
<1>2. k \in 0 .. Len(buf.text) /\ l \in Nat /\ n \in Nat /\ n <= MaxTextLines /\ Bound \in Nat
  BY <1>1, BoundIs DEF Behind, fixupins
<1>3. x \in Seq(Nat) /\ Len(x) = n /\ \A i \in 1 .. n : x[i] = Bound + i
  <2>1. x = [i \in 1 .. n |-> Bound + i]
    BY DEF NewLines, Bound
  <2>2. \A i \in 1 .. n : Bound + i \in Nat
    BY <1>2
  <2>3. [i \in 1 .. n |-> Bound + i] \in Seq(Nat)
    BY <1>2, <2>2, IsASeq
  <2> QED
    BY <1>2, <2>1, <2>3
<1> HIDE DEF x, k
<1>4. /\ t \in Seq(Nat) /\ Grown(buf.text, t, k, n)
      /\ \A i \in k + 1 .. k + n : t[i] = x[i - k]
  BY <1>1, <1>2, <1>3, PutIn
<1>5. /\ buf.open /\ buf' = Edited(t, Undoable(l, n, bol, TRUE)) /\ errors' = InsAll(l, n, bol)
      /\ edits' = edits + 1 /\ UNCHANGED <<onDisk, errptr, unique>>
  BY DEF fixupins, Behind, x, k
<1> HIDE DEF t
<1>6. Named(t, Bound + MaxTextLines)
  <2>1. \A i \in k + 1 .. k + n : t[i] = Bound + (i - k)
    BY <1>2, <1>3, <1>4
  <2>2. Bound + MaxTextLines \in Nat /\ Bound + n <= Bound + MaxTextLines
    BY <1>1, <1>2
  <2>3. Named(buf.text, Bound)
    BY DEF MessagesInv, BufferKept, TextsNamed
  <2> QED
    <3> DEFINE m2 == Bound + MaxTextLines
    <3>1. m2 \in Nat /\ Bound + n <= m2
      BY <2>2
    <3> HIDE DEF m2
    <3>2. buf.text \in Seq(Nat) /\ t \in Seq(Nat) /\ Grown(buf.text, t, k, n) /\ Bound \in Nat
      BY <1>1, <1>2, <1>4
    <3>3. Named(t, m2)
      BY ONLY <2>1, <2>3, <3>1, <3>2, MoreNamed
    <3> QED
      BY <3>3 DEF m2
<1>7. Gives(Undoable(l, n, bol, TRUE), t)
  BY <1>4 DEF Gives, Undoable, k
<1>8. Current = buf.text
  BY <1>5 DEF Current
<1>9. /\ errors' \in Seq(Msg) /\ Len(errors') = Len(errors)
      /\ WithTheirLines => \A i \in DOMAIN errors' : Right(errors'[i], t, onDisk)
  BY <1>2, <1>4, <1>5, <1>8, InsertsRight DEF MessagesInv, k
<1> QED
  BY <1>2, <1>4, <1>5, <1>6, <1>7, <1>9, EditStep

LEMMA DeleteStep ==
  ASSUME LinesAssumption, MessagesInv, NEW l \in 0 .. Len(buf.text) - 1, NEW n \in 1 .. 2,
         NEW bol \in BOOLEAN, bcut(l, n, bol)
  PROVE  MessagesInv' /\ (unique' => LinesKept)
<1> DEFINE k == Behind(l, bol)
           t == SubSeq(buf.text, 1, k) \o SubSeq(buf.text, k + n + 1, Len(buf.text))
<1>1. buf.text \in Seq(Nat) /\ edits \in Nat /\ Len(buf.text) \in Nat /\ MaxTextLines \in Nat
  BY LenProperties DEF MessagesInv, MessageTypes, Buffer, LinesAssumption
<1>2. k \in Nat /\ l \in Nat /\ n \in Nat /\ k + n <= Len(buf.text) /\ Bound \in Nat
  BY <1>1, BoundIs DEF Behind, bcut
<1>3. /\ buf.open /\ buf' = Edited(t, Undoable(l, n, bol, FALSE)) /\ errors' = DelAll(l, n, t)
      /\ edits' = edits + 1 /\ UNCHANGED <<onDisk, errptr, unique>>
  BY DEF bcut, Behind
<1> HIDE DEF k
<1>4. t \in Seq(Nat) /\ Grown(t, buf.text, k, n)
  BY <1>1, <1>2, Taken
<1> HIDE DEF t
<1>5. Named(buf.text, Bound)
  BY DEF MessagesInv, BufferKept, TextsNamed
<1>6. Named(t, Bound + MaxTextLines)
  <2>1. Named(t, Bound)
    BY <1>1, <1>2, <1>4, <1>5, Fewer
  <2>2. Bound + MaxTextLines \in Nat /\ Bound <= Bound + MaxTextLines
    BY <1>1, <1>2
  <2> QED
    BY <1>2, <1>4, <2>1, <2>2, NamedStays
<1>7. Gives(Undoable(l, n, bol, FALSE), t)
  BY <1>4 DEF Gives, Undoable, k
<1>8. Current = buf.text
  BY <1>3 DEF Current
<1>9. /\ errors' \in Seq(Msg) /\ Len(errors') = Len(errors)
      /\ WithTheirLines => \A i \in DOMAIN errors' : Right(errors'[i], t, onDisk)
  BY <1>2, <1>3, <1>4, <1>5, <1>8, DeletesRight DEF MessagesInv, Named, k
<1> QED
  BY <1>2, <1>3, <1>4, <1>6, <1>7, <1>9, EditStep

LEMMA UndoStep ==
  ASSUME LinesAssumption, MessagesInv, uundoLines
  PROVE  MessagesInv' /\ (unique' => LinesKept)
<1> DEFINE u == buf.recs[UndoAt]
<1>1. /\ buf \in Buffer /\ onDisk \in Seq(Nat) /\ edits \in Nat /\ buf.open /\ buf.recs # <<>> /\ buf.ptr # 1
      /\ buf' = Recorded(u.text, u.changed, Undoable(u.l, u.n, u.bol, ~u.ins), UndoAt)
      /\ errors' = TakenBack(u) /\ UNCHANGED <<onDisk, errptr, edits, unique>>
  BY DEF MessagesInv, MessageTypes, uundoLines, UndoAt
<1>2. Bound \in Nat /\ BufferKept(buf, onDisk, Bound)
  BY <1>1, BoundIs DEF MessagesInv
<1>3. /\ u \in Record /\ Gives(u, buf.text)
      /\ buf' \in Buffer /\ BufferKept(buf', onDisk, Bound) /\ buf'.open /\ buf'.text = u.text
      /\ AsFile(buf, onDisk) => AsFile(buf', onDisk)
  BY <1>1, <1>2, UndoKeeps
<1> HIDE DEF u
<1>4. Current = buf.text /\ Current' = u.text /\ onDisk' = onDisk /\ Bound' = Bound
  BY <1>1, <1>3 DEF Current, Bound
<1>5. Distinct(buf.text)
  BY <1>2 DEF BufferKept, TextsNamed, Named
<1>6. /\ errors' \in Seq(Msg) /\ Len(errors') = Len(errors)
      /\ WithTheirLines => \A i \in DOMAIN errors' : Right(errors'[i], u.text, onDisk)
  BY <1>1, <1>3, <1>4, <1>5, TakenBackRight DEF MessagesInv
<1>7. unique' => AsFile(buf, onDisk)' /\ WithTheirLines'
  <2>1. SUFFICES ASSUME unique PROVE AsFile(buf, onDisk)' /\ WithTheirLines'
    BY <1>1
  <2>2. AsFile(buf, onDisk) /\ WithTheirLines
    BY <2>1 DEF MessagesInv
  <2> QED
    BY <1>1, <1>3, <1>4, <1>6, <2>2, AllRightNext
<1>8. MessageTypes'
  BY <1>1, <1>3, <1>6 DEF MessagesInv, MessageTypes
<1>9. BufferKept(buf, onDisk, Bound)'
  BY <1>3, <1>4
<1>10. GoesThere
  BY <1>1 DEF GoesThere
<1> QED
  BY <1>7, <1>8, <1>9, <1>10 DEF MessagesInv, LinesKept

LEMMA RedoStep ==
  ASSUME LinesAssumption, MessagesInv, uredoLines
  PROVE  MessagesInv' /\ (unique' => LinesKept)
<1> DEFINE u == Last(buf.recs)
<1>1. /\ buf \in Buffer /\ onDisk \in Seq(Nat) /\ edits \in Nat /\ buf.open /\ buf.ptr # 0
      /\ buf' = [buf EXCEPT !.text = u.text, !.changed = u.changed, !.recs = Front(@),
                       !.ptr = IF @ + 1 = Len(buf.recs) THEN 0 ELSE @ + 1]
      /\ errors' = TakenBack(u) /\ UNCHANGED <<onDisk, errptr, edits, unique>>
  BY DEF MessagesInv, MessageTypes, uredoLines
<1>2. Bound \in Nat /\ BufferKept(buf, onDisk, Bound)
  BY <1>1, BoundIs DEF MessagesInv
<1>3. /\ u \in Record /\ Gives(u, buf.text)
      /\ buf' \in Buffer /\ BufferKept(buf', onDisk, Bound) /\ buf'.open /\ buf'.text = u.text
      /\ AsFile(buf, onDisk) => AsFile(buf', onDisk)
  BY <1>1, <1>2, RedoKeeps
<1> HIDE DEF u
<1>4. Current = buf.text /\ Current' = u.text /\ onDisk' = onDisk /\ Bound' = Bound
  BY <1>1, <1>3 DEF Current, Bound
<1>5. Distinct(buf.text)
  BY <1>2 DEF BufferKept, TextsNamed, Named
<1>6. /\ errors' \in Seq(Msg) /\ Len(errors') = Len(errors)
      /\ WithTheirLines => \A i \in DOMAIN errors' : Right(errors'[i], u.text, onDisk)
  BY <1>1, <1>3, <1>4, <1>5, TakenBackRight DEF MessagesInv
<1>7. unique' => AsFile(buf, onDisk)' /\ WithTheirLines'
  <2>1. SUFFICES ASSUME unique PROVE AsFile(buf, onDisk)' /\ WithTheirLines'
    BY <1>1
  <2>2. AsFile(buf, onDisk) /\ WithTheirLines
    BY <2>1 DEF MessagesInv
  <2> QED
    BY <1>1, <1>3, <1>4, <1>6, <2>2, AllRightNext
<1>8. MessageTypes'
  BY <1>1, <1>3, <1>6 DEF MessagesInv, MessageTypes
<1>9. BufferKept(buf, onDisk, Bound)'
  BY <1>3, <1>4
<1>10. GoesThere
  BY <1>1 DEF GoesThere
<1> QED
  BY <1>7, <1>8, <1>9, <1>10 DEF MessagesInv, LinesKept

(* The compiler has read the file as it is in the buffer.                  *)
LEMMA ParseStep ==
  ASSUME LinesAssumption, MessagesInv, parserr
  PROVE  MessagesInv' /\ (unique' => LinesKept)
<1>1. /\ buf \in Buffer /\ onDisk \in Seq(Nat) /\ edits \in Nat /\ MaxMessages \in Nat
      /\ errptr' = 0 /\ ~buf.changed /\ UNCHANGED <<buf, onDisk, edits, unique>>
  BY DEF MessagesInv, MessageTypes, parserr, LinesAssumption
<1>2. PICK ls \in BoundedSeq(0 .. Len(onDisk) - 1, MaxMessages) :
        errors' = [i \in DOMAIN ls |-> Message(ls[i])]
  BY DEF parserr
<1>3. PICK n \in 0 .. MaxMessages : ls \in [1 .. n -> 0 .. Len(onDisk) - 1]
  BY <1>2 DEF BoundedSeq, SeqOf
<1>4. unique => Current = onDisk
  BY <1>1 DEF Current, MessagesInv, AsFile
<1>5. ASSUME NEW l \in 0 .. Len(onDisk) - 1 PROVE Message(l) \in Msg /\ Right(Message(l), onDisk, onDisk)
  <2>1. Len(onDisk) \in Nat /\ l + 1 \in 1 .. Len(onDisk) /\ l \in Nat
    BY <1>1, LenProperties
  <2>2. onDisk[l + 1] \in Nat
    BY <1>1, <2>1, ElementOfSeq
  <2> QED
    BY <2>1, <2>2 DEF Message, Msg, Right, IsLine
<1>6. errors' = [i \in 1 .. n |-> Message(ls[i])]
  BY <1>2, <1>3
<1>7. \A i \in 1 .. n : Message(ls[i]) \in Msg /\ Right(Message(ls[i]), onDisk, onDisk)
  BY <1>3, <1>5
<1>8. errors' \in Seq(Msg) /\ Len(errors') \in Nat
  <2>1. n \in Nat
    BY <1>1
  <2>2. [i \in 1 .. n |-> Message(ls[i])] \in Seq(Msg)
    BY <1>7, <2>1, IsASeq
  <2> QED
    BY <1>6, <2>2, LenProperties
<1>9. \A i \in DOMAIN errors' : Right(errors'[i], onDisk, onDisk)
  BY <1>6, <1>7
<1>10. Current' = Current /\ onDisk' = onDisk /\ Bound' = Bound
  BY <1>1 DEF Current, Bound
<1>11. unique' => AsFile(buf, onDisk)' /\ WithTheirLines'
  BY <1>1, <1>4, <1>9, <1>10, AllRightNext DEF MessagesInv
<1>12. MessageTypes'
  <2>1. buf' \in Buffer /\ onDisk' \in Seq(Nat) /\ edits' \in Nat /\ unique' \in BOOLEAN
    BY <1>1 DEF MessagesInv, MessageTypes
  <2>2. errptr' \in 0 .. Len(errors')
    BY <1>1, <1>8
  <2> QED
    BY <1>8, <2>1, <2>2 DEF MessageTypes
<1>13. BufferKept(buf, onDisk, Bound)'
  BY <1>1, <1>10 DEF MessagesInv
<1>14. GoesThere
  BY <1>1 DEF GoesThere
<1> QED
  BY <1>11, <1>12, <1>13, <1>14 DEF MessagesInv, LinesKept

(* The file is written.                                                    *)
LEMMA SaveStep ==
  ASSUME LinesAssumption, MessagesInv, NEW own \in BOOLEAN, saver(own)
  PROVE  MessagesInv' /\ (unique' => LinesKept)
<1>1. /\ buf \in Buffer /\ onDisk \in Seq(Nat) /\ edits \in Nat /\ buf.open /\ errors \in Seq(Msg)
      /\ buf.text \in Seq(Nat) /\ onDisk' = (IF own THEN buf.text ELSE onDisk)
      /\ buf' = [buf EXCEPT !.changed = @ /\ ~own, !.recs = Marked]
      /\ errors' = (IF own THEN [i \in DOMAIN errors |-> saverr(errors[i])] ELSE errors)
      /\ unique' = (unique /\ (own => \A i, j \in Unmodified : i = j))
      /\ UNCHANGED <<errptr, edits>>
  BY DEF MessagesInv, MessageTypes, saver, Buffer
<1>2. Bound \in Nat /\ BufferKept(buf, onDisk, Bound)
  BY <1>1, BoundIs DEF MessagesInv
<1>3. /\ buf' \in Buffer /\ BufferKept(buf', onDisk', Bound) /\ buf'.open /\ buf'.text = buf.text
      /\ AsFile(buf, onDisk) /\ (own => \A i, j \in Unmodified : i = j) => AsFile(buf', onDisk')
  BY <1>1, <1>2, SaveKeeps
<1>4. Current = buf.text /\ Current' = buf.text /\ Bound' = Bound
  BY <1>1, <1>3 DEF Current, Bound
<1>5. ASSUME NEW i \in DOMAIN errors
      PROVE  /\ saverr(errors[i]) \in Msg
             /\ WithTheirLines => Right(saverr(errors[i]), buf.text, buf.text)
  <2>1. errors[i] \in Msg /\ (WithTheirLines => Right(errors[i], buf.text, onDisk))
    BY <1>1, <1>4, AllRight, LenProperties, ElementOfSeq
  <2>2. LET d == saverr(errors[i])
        IN /\ d \in Msg /\ d.line = errors[i].line /\ d.org = errors[i].line
           /\ d.name = errors[i].name /\ d.valid = errors[i].valid /\ d.saved = errors[i].valid
    BY <2>1 DEF saverr, Msg
  <2> QED
    BY <2>1, <2>2 DEF Right
<1>6. /\ errors' \in Seq(Msg) /\ Len(errors') = Len(errors)
      /\ WithTheirLines => \A i \in DOMAIN errors' : Right(errors'[i], buf.text, onDisk')
  <2>1. CASE own
    <3>1. errors' \in [DOMAIN errors -> Msg]
      BY <1>1, <1>5, <2>1
    <3>2. errors' \in Seq(Msg) /\ Len(errors') = Len(errors) /\ DOMAIN errors' = DOMAIN errors
      BY <1>1, <3>1, EachChanged
    <3> QED
      BY <1>1, <1>5, <2>1, <3>2
  <2>2. CASE ~own
    BY <1>1, <1>4, <2>2, AllRight
  <2> QED
    BY <2>1, <2>2
<1>7. unique' => AsFile(buf, onDisk)' /\ WithTheirLines'
  <2>1. SUFFICES ASSUME unique, own => \A i, j \in Unmodified : i = j
                 PROVE  AsFile(buf, onDisk)' /\ WithTheirLines'
    BY <1>1
  <2>2. AsFile(buf, onDisk) /\ WithTheirLines
    BY <2>1 DEF MessagesInv
  <2> QED
    BY <1>3, <1>4, <1>6, <2>1, <2>2, AllRightNext
<1>8. MessageTypes'
  <2>1. unique' \in BOOLEAN
    BY <1>1
  <2>2. onDisk' \in Seq(Nat)
    BY <1>1
  <2> QED
    BY <1>1, <1>3, <1>6, <2>1, <2>2 DEF MessagesInv, MessageTypes
<1>9. BufferKept(buf, onDisk, Bound)'
  BY <1>3, <1>4
<1>10. GoesThere
  BY <1>1 DEF GoesThere
<1> QED
  BY <1>7, <1>8, <1>9, <1>10 DEF MessagesInv, LinesKept

(* The buffer is closed: what was not saved of it is forgotten.            *)
LEMMA CloseStep ==
  ASSUME LinesAssumption, MessagesInv, brm
  PROVE  MessagesInv' /\ (unique' => LinesKept)
<1> DEFINE c == Empty
<1>1. /\ onDisk \in Seq(Nat) /\ edits \in Nat /\ buf.open /\ errors \in Seq(Msg) /\ buf' = c
      /\ errors' = (IF buf.changed THEN [i \in DOMAIN errors |-> abrerr(errors[i])] ELSE errors)
      /\ UNCHANGED <<onDisk, errptr, edits, unique>>
  BY DEF MessagesInv, MessageTypes, brm
<1>2. c \in Buffer /\ c.open = FALSE /\ c.text = <<>> /\ c.recs = <<>> /\ c.changed = FALSE /\ c.ptr = 0
  BY DEF Buffer, Empty
<1> HIDE DEF c
<1>3. Current = buf.text /\ Current' = onDisk /\ Bound' = Bound /\ onDisk' = onDisk
  BY <1>1, <1>2 DEF Current, Bound
<1>4. BufferKept(c, onDisk, Bound) /\ AsFile(c, onDisk)
  <2>1. Named(onDisk, Bound)
    BY DEF MessagesInv, BufferKept, TextsNamed
  <2>2. Named(<<>>, Bound)
    BY DEF Named, Distinct
  <2>3. \A k \in 1 .. Len(c.recs) : FALSE
    BY <1>2
  <2> QED
    BY <1>2, <2>1, <2>2, <2>3 DEF BufferKept, TextsNamed, RecsGive, Mirrored, Closed, AsFile
<1>5. ASSUME NEW i \in DOMAIN errors
      PROVE  errors[i] \in Msg /\ (WithTheirLines => Right(errors[i], buf.text, onDisk))
  BY <1>1, <1>3, <1>5, AllRight, LenProperties, ElementOfSeq
<1>6. /\ errors' \in Seq(Msg) /\ Len(errors') = Len(errors)
      /\ unique => \A i \in DOMAIN errors' : Right(errors'[i], onDisk, onDisk)
  <2>1. CASE buf.changed
    <3>1. ASSUME NEW i \in DOMAIN errors
          PROVE  /\ abrerr(errors[i]) \in Msg
                 /\ WithTheirLines => Right(abrerr(errors[i]), onDisk, onDisk)
      <4>1. LET d == abrerr(errors[i])
            IN /\ d \in Msg /\ d.line = errors[i].org /\ d.org = errors[i].org
               /\ d.name = errors[i].name /\ d.valid = errors[i].saved /\ d.saved = errors[i].saved
        BY <1>5 DEF abrerr, Msg
      <4> QED
        BY <1>5, <4>1 DEF Right
    <3>2. errors' \in [DOMAIN errors -> Msg]
      BY <1>1, <2>1, <3>1
    <3>3. errors' \in Seq(Msg) /\ Len(errors') = Len(errors) /\ DOMAIN errors' = DOMAIN errors
      BY <1>1, <3>2, EachChanged
    <3> QED
      BY <1>1, <2>1, <3>1, <3>3 DEF MessagesInv
  <2>2. CASE ~buf.changed
    <3>1. unique => buf.text = onDisk /\ WithTheirLines
      BY <1>1, <2>2 DEF MessagesInv, AsFile
    <3> QED
      BY <1>1, <1>5, <2>2, <3>1
  <2> QED
    BY <2>1, <2>2
<1>7. unique' => AsFile(buf, onDisk)' /\ WithTheirLines'
  BY <1>1, <1>3, <1>4, <1>6, AllRightNext
<1>8. MessageTypes'
  BY <1>1, <1>2, <1>6 DEF MessagesInv, MessageTypes
<1>9. BufferKept(buf, onDisk, Bound)'
  BY <1>1, <1>3, <1>4
<1>10. GoesThere
  BY <1>1 DEF GoesThere
<1> QED
  BY <1>7, <1>8, <1>9, <1>10 DEF MessagesInv, LinesKept

(* Going to a message goes to its line.                                    *)
LEMMA GoToStep ==
  ASSUME LinesAssumption, MessagesInv, NEW i \in 1 .. Len(errors), GoTo(i)
  PROVE  MessagesInv' /\ (unique' => LinesKept)
<1>1. /\ onDisk \in Seq(Nat) /\ edits \in Nat /\ errors \in Seq(Msg) /\ errptr' = i /\ buf' = Loaded
      /\ cursor' = Lower(errors[i].line, Len(Loaded.text) - 1) /\ UNCHANGED <<onDisk, errors, edits, unique>>
  BY DEF MessagesInv, MessageTypes, GoTo
<1>2. /\ Loaded \in Buffer /\ BufferKept(Loaded, onDisk, Bound) /\ Loaded.open
      /\ Loaded.text = Current /\ (AsFile(buf, onDisk) => AsFile(Loaded, onDisk))
  BY LoadKeeps DEF MessagesInv
<1>3. Current' = Current /\ onDisk' = onDisk /\ Bound' = Bound
  BY <1>1, <1>2 DEF Current, Bound
<1>4. unique' => AsFile(buf, onDisk)' /\ WithTheirLines'
  BY <1>1, <1>2, <1>3, AllRight, AllRightNext DEF MessagesInv
<1>5. MessageTypes'
  BY <1>1, <1>2 DEF MessagesInv, MessageTypes
<1>6. BufferKept(buf, onDisk, Bound)'
  BY <1>1, <1>2, <1>3
<1>7. unique => GoesThere
  <2>1. SUFFICES ASSUME unique, errors[i].valid PROVE IsLine(buf'.text, cursor', errors[i].name)
    BY <1>1 DEF GoesThere
  <2>2. errors[i] \in Msg /\ Loaded.text \in Seq(Nat)
    BY <1>1, <1>2, ElementOfSeq DEF Buffer
  <2>3. IsLine(Loaded.text, errors[i].line, errors[i].name)
    BY <1>1, <1>2, <2>1, LenProperties DEF MessagesInv, WithTheirLines
  <2>4. errors[i].line \in Nat /\ Len(Loaded.text) \in Nat /\ errors[i].line < Len(Loaded.text)
    BY <2>2, <2>3, LenProperties DEF Msg, IsLine
  <2>5. cursor' = errors[i].line
    BY <1>1, <2>4 DEF Lower
  <2> QED
    BY <1>1, <2>3, <2>5
<1> QED
  BY <1>1, <1>4, <1>5, <1>6, <1>7 DEF MessagesInv, LinesKept

LEMMA MessagesStep ==
  ASSUME LinesAssumption, MessagesInv, MessagesNext
  PROVE  MessagesInv' /\ (unique' => LinesKept)
<1>1. errptr \in 0 .. Len(errors) /\ Len(errors) \in Nat /\ errors \in Seq(Msg)
  BY LenProperties DEF MessagesInv, MessageTypes
<1>2. CASE parserr
  BY <1>2, ParseStep
<1>3. CASE uundoLines
  BY <1>3, UndoStep
<1>9. CASE uredoLines
  BY <1>9, RedoStep
<1>4. ASSUME NEW own \in BOOLEAN, saver(own) PROVE MessagesInv' /\ (unique' => LinesKept)
  BY <1>4, SaveStep
<1>5. CASE brm
  BY <1>5, CloseStep
<1>6. CASE unxterr
  <2>1. errptr + 1 \in 1 .. Len(errors) /\ GoTo(errptr + 1)
    BY <1>1, <1>6 DEF unxterr
  <2> QED
    BY <2>1, GoToStep
<1>7. CASE uprverr
  <2>1. CASE errptr > 1 /\ GoTo(errptr - 1)
    <3>1. errptr - 1 \in 1 .. Len(errors)
      BY <1>1, <2>1
    <3> QED
      BY <2>1, <3>1, GoToStep
  <2>2. CASE errors # <<>> /\ GoTo(Len(errors))
    <3>1. Len(errors) \in 1 .. Len(errors)
      BY <1>1, <2>2, EmptySeq
    <3> QED
      BY <2>2, <3>1, GoToStep
  <2> QED
    BY <1>7, <2>1, <2>2 DEF uprverr
<1>8. ASSUME NEW l \in 0 .. Len(buf.text) - 1, NEW n \in 1 .. 2, NEW bol \in BOOLEAN,
             fixupins(l, n, bol) \/ bcut(l, n, bol)
      PROVE  MessagesInv' /\ (unique' => LinesKept)
  BY <1>8, InsertStep, DeleteStep
<1> QED
  BY <1>2, <1>3, <1>4, <1>5, <1>6, <1>7, <1>8, <1>9 DEF MessagesNext

LEMMA MessagesInitially ==
  ASSUME LinesAssumption, MessagesInit
  PROVE  MessagesInv
<1>1. /\ FileText \in Seq(Nat) /\ FileText \in Seq(1 .. MaxTextLines) /\ Distinct(FileText) /\ MaxTextLines \in Nat
      /\ onDisk = FileText /\ errors = <<>> /\ errptr = 0 /\ edits = 0
      /\ unique = TRUE /\ buf = [Empty EXCEPT !.open = TRUE, !.text = FileText]
  <2>1. 1 .. MaxTextLines \subseteq Nat
    BY DEF LinesAssumption
  <2> QED
    BY <2>1, SeqMonotonic DEF LinesAssumption, MessagesInit
<1>2. buf \in Buffer /\ buf.open = TRUE /\ buf.text = FileText /\ buf.recs = <<>> /\ buf.ptr = 0
  <2>1. <<>> \in Seq(Record) /\ <<>> \in Seq(Nat)
    OBVIOUS
  <2>2. Empty \in Buffer /\ Empty.recs = <<>> /\ Empty.ptr = 0
    BY <2>1 DEF Buffer, Empty
  <2> QED
    BY <1>1, <2>2 DEF Buffer
<1>3. Bound = MaxTextLines
  BY <1>1 DEF Bound
<1>4. Named(FileText, Bound)
  BY <1>1, <1>3, ElementOfSeq DEF Named
<1>5. BufferKept(buf, onDisk, Bound) /\ AsFile(buf, onDisk)
  BY <1>1, <1>2, <1>4 DEF BufferKept, TextsNamed, RecsGive, Mirrored, Closed, AsFile
<1>6. MessageTypes
  BY <1>1, <1>2 DEF MessageTypes
<1>7. WithTheirLines
  BY <1>1 DEF WithTheirLines
<1> QED
  BY <1>5, <1>6, <1>7 DEF MessagesInv

(* Compiler messages stay with their lines (uerror.c: inserr, delerr,      *)
(* abrerr, saverr, unxterr, uprverr): through any number of edits, undos,  *)
(* redos, saves and closings of the buffer, the number of a message is that*)
(* of its line unless the line was deleted, and going to it goes to that   *)
(* line; as long as no save meets two records that count as unmodified     *)
(* (ufile.c:363-378).                                                      *)
THEOREM MessagesStay == MessagesSpec => MessagesRight
<1>1. MessagesInit => MessagesInv
  BY LinesGiven, MessagesInitially
<1>2. MessagesInv /\ [MessagesNext]_messageVars => MessagesInv' /\ [unique' => LinesKept]_messageVars
  <2>1. CASE UNCHANGED messageVars
    BY <2>1 DEF messageVars, MessagesInv, MessageTypes, BufferKept, TextsNamed, RecsGive, TextAt,
                Mirrored, Closed, AsFile, Bound, WithTheirLines, Current
  <2> QED
    BY <2>1, LinesGiven, MessagesStep
<1>3. MessagesSpec => [][unique' => LinesKept]_messageVars
  BY <1>1, <1>2, PTL DEF MessagesSpec
<1> QED
  BY <1>3 DEF MessagesRight
=============================================================================
