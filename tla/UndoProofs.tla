----------------------------- MODULE UndoProofs -----------------------------
(***************************************************************************)
(* Theorems about the undo system, for every kind of command, every bound  *)
(* and every value of UNDOKEEP.                                            *)
(***************************************************************************)
EXTENDS Undo, SequenceTheorems, TLAPS

(* A function on 1 .. n is a sequence of length n.                         *)
LEMMA FunctionIsSeq ==
  ASSUME NEW S, NEW n \in Nat, NEW f, f \in [1 .. n -> S]
  PROVE  f \in Seq(S) /\ Len(f) = n /\ DOMAIN f = 1 .. n
  BY SeqDef

(* Every link of a list leads to a record of the list, or is Null or Freed.*)
InRange(r) == \A i \in 1 .. Len(r) : r[i].unit \in (Null .. Len(r)) \cup {Freed}
List(r) == r \in Seq(Record) /\ InRange(r)

(* Replacing records one by one keeps the list a list.                     *)
LEMMA MappedList ==
  ASSUME NEW r, NEW n \in Nat, NEW f,
         f = [i \in 1 .. n |-> f[i]],
         \A i \in 1 .. n : f[i] \in Record /\ f[i].unit \in (Null .. n) \cup {Freed}
  PROVE  List(f) /\ Len(f) = n
<1>1. f \in [1 .. n -> Record]
  OBVIOUS
<1>2. f \in Seq(Record) /\ Len(f) = n
  BY <1>1, FunctionIsSeq
<1> QED
  BY <1>2 DEF List, InRange

(* umclear                                                                 *)
LEMMA ClearedList ==
  ASSUME NEW r, List(r)
  PROVE  List(Cleared(r)) /\ Len(Cleared(r)) = Len(r)
<1> DEFINE f == Cleared(r)
<1>1. Len(r) \in Nat /\ \A i \in 1 .. Len(r) : r[i] \in Record
  BY DEF List
<1>2. \A i \in 1 .. Len(r) : f[i] \in Record /\ f[i].unit = r[i].unit
  BY <1>1 DEF Cleared, Record
<1>3. f = [i \in 1 .. Len(r) |-> f[i]]
  BY DEF Cleared
<1> QED
  BY <1>1, <1>2, <1>3, MappedList DEF List, InRange

LEMMA ClearedLinks ==
  ASSUME NEW r, List(r)
  PROVE  \A i \in 1 .. Len(r) : Cleared(r)[i].unit = r[i].unit
<1>1. \A i \in 1 .. Len(r) : r[i] \in Record
  BY DEF List
<1> QED
  BY <1>1 DEF Cleared, Record

(* undomark                                                                *)
LEMMA LinkedList ==
  ASSUME NEW r, List(r),
         first \in (Null .. Len(r)) \cup {Freed}, last \in (Null .. Len(r)) \cup {Freed}
  PROVE  List(Linked(r)) /\ Len(Linked(r)) = Len(r)
<1> DEFINE f == Linked(r)
<1>1. Len(r) \in Nat /\ \A i \in 1 .. Len(r) : r[i] \in Record
  BY DEF List
<1>2. (Null .. Len(r)) \cup {Freed} \subseteq Link
  BY <1>1 DEF Null, Freed, Link
<1>3. \A i \in 1 .. Len(r) : f[i] \in Record /\ f[i].unit \in (Null .. Len(r)) \cup {Freed}
  BY <1>1, <1>2 DEF Linked, Record, List, InRange
<1>4. f = [i \in 1 .. Len(r) |-> f[i]]
  BY DEF Linked
<1> QED
  BY <1>1, <1>3, <1>4, MappedList

(* undogc                                                                  *)
LEMMA DroppedList ==
  ASSUME NEW r, List(r), NEW n \in 1 .. Len(r)
  PROVE  List(Dropped(r, n)) /\ Len(Dropped(r, n)) = Len(r) - n
<1> DEFINE f == Dropped(r, n)
           m == Len(r) - n
<1>1. Len(r) \in Nat /\ m \in Nat /\ \A i \in 1 .. Len(r) : r[i] \in Record
  BY DEF List
<1>2. \A u \in (Null .. Len(r)) \cup {Freed} : Shift(u, n) \in (Null .. m) \cup {Freed}
  BY <1>1 DEF Shift, Null, Freed
<1>3. (Null .. m) \cup {Freed} \subseteq Link
  BY <1>1 DEF Null, Freed, Link
<1>4. ASSUME NEW i \in 1 .. m
      PROVE  f[i] \in Record /\ f[i].unit \in (Null .. m) \cup {Freed}
  <2>1. i + n \in 1 .. Len(r)
    BY <1>1
  <2>2. f[i] = [r[i + n] EXCEPT !.unit = Shift(@, n)]
    BY DEF Dropped
  <2>3. r[i + n] \in Record /\ r[i + n].unit \in (Null .. Len(r)) \cup {Freed}
    BY <2>1, <1>1 DEF List, InRange
  <2>4. Shift(r[i + n].unit, n) \in (Null .. m) \cup {Freed}
    BY <2>3, <1>2
  <2> QED
    BY <2>2, <2>3, <2>4, <1>3 DEF Record
<1>5. f = [i \in 1 .. m |-> f[i]]
  BY DEF Dropped
<1> QED
  BY <1>1, <1>4, <1>5, MappedList

(* uredo: the newest record is removed                                     *)
LEMMA PoppedList ==
  ASSUME List(recs), recs # <<>>
  PROVE  /\ List(Popped) /\ Len(Popped) = Len(recs) - 1
         /\ \A u \in InList \cup {Freed} :
              Unlinked(u) \in (Null .. Len(recs) - 1) \cup {Freed}
<1> DEFINE f == Popped
           m == Len(recs) - 1
<1>1. Len(recs) \in Nat /\ m \in Nat /\ \A i \in 1 .. Len(recs) : recs[i] \in Record
  BY DEF List
<1>2. \A u \in InList \cup {Freed} : Unlinked(u) \in (Null .. m) \cup {Freed}
  BY <1>1 DEF Unlinked, InList, Null, Freed
<1>3. (Null .. m) \cup {Freed} \subseteq Link
  BY <1>1 DEF Null, Freed, Link
<1>4. ASSUME NEW i \in 1 .. m
      PROVE  f[i] \in Record /\ f[i].unit \in (Null .. m) \cup {Freed}
  <2>1. i \in 1 .. Len(recs)
    BY <1>1
  <2>2. f[i] = [recs[i] EXCEPT !.unit = Unlinked(@)]
    BY DEF Popped
  <2>3. recs[i] \in Record /\ recs[i].unit \in InList \cup {Freed}
    BY <2>1, <1>1 DEF List, InRange, InList
  <2>4. Unlinked(recs[i].unit) \in (Null .. m) \cup {Freed}
    BY <2>3, <1>2
  <2> QED
    BY <2>2, <2>3, <2>4, <1>3 DEF Record
<1>5. f = [i \in 1 .. m |-> f[i]]
  BY DEF Popped
<1>6. List(Popped) /\ Len(Popped) = m
  BY <1>1, <1>4, <1>5, MappedList
<1> QED
  BY <1>2, <1>6

(* A record is appended (undoins, undodel).                                *)
LEMMA EnquebList ==
  ASSUME List(recs), first \in InList \cup {Freed}, NEW rec \in Record,
         rec.unit = Null, enqueb(rec)
  PROVE  /\ List(recs') /\ Len(recs') = Len(recs) + 1
         /\ first' \in InList' \cup {Freed} /\ last' \in InList' \cup {Freed}
<1>1. Len(recs) \in Nat /\ recs \in Seq(Record)
  BY DEF List
<1>2. recs' = Append(recs, rec)
  BY DEF enqueb
<1>3. recs' \in Seq(Record) /\ Len(recs') = Len(recs) + 1
  BY <1>1, <1>2
<1>4. \A i \in 1 .. Len(recs) : recs'[i] = recs[i]
  BY <1>1, <1>2
<1>5. recs'[Len(recs) + 1] = rec
  BY <1>1, <1>2
<1>6. \A i \in 1 .. Len(recs) + 1 : recs'[i].unit \in (Null .. Len(recs) + 1) \cup {Freed}
  <2> TAKE i \in 1 .. Len(recs) + 1
  <2>1. CASE i = Len(recs) + 1
    BY <2>1, <1>1, <1>5 DEF Null
  <2>2. CASE i # Len(recs) + 1
    <3>1. i \in 1 .. Len(recs)
      BY <2>2, <1>1
    <3>2. recs[i].unit \in (Null .. Len(recs)) \cup {Freed}
      BY <3>1 DEF List, InRange
    <3> QED
      BY <3>1, <3>2, <1>1, <1>4 DEF Null, Freed
  <2> QED
    BY <2>1, <2>2
<1>7. first' \in InList' \cup {Freed} /\ last' \in InList' \cup {Freed}
  BY <1>1, <1>3 DEF enqueb, InList, Null, Freed
<1> QED
  BY <1>3, <1>6, <1>7 DEF List, InRange

(* The newest record grows (undoins, undodel).                             *)
LEMMA GrowList ==
  ASSUME List(recs), recs # <<>>, NEW rec \in Record, rec.unit = Newest.unit,
         GrowNewest(rec)
  PROVE  List(recs') /\ Len(recs') = Len(recs) /\ first' = first /\ last' = last
<1>1. Len(recs) \in Nat \ {0} /\ recs \in Seq(Record)
  BY DEF List
<1>2. recs' = [recs EXCEPT ![Len(recs)] = rec]
  BY DEF GrowNewest
<1>3. recs' \in Seq(Record) /\ Len(recs') = Len(recs)
  BY <1>1, <1>2, ExceptSeq
<1>4. \A i \in 1 .. Len(recs) : recs'[i].unit = recs[i].unit
  BY <1>1, <1>2 DEF Newest
<1> QED
  BY <1>1, <1>3, <1>4 DEF List, InRange, GrowNewest

(* The pieces of the text are texts.                                       *)
LEMMA TextPieces ==
  ASSUME text \in Seq(Nat), NEW p \in Nat
  PROVE  /\ Clip(p) \in 0 .. Len(text)
         /\ Upto(p) \in Seq(Nat) /\ From(p) \in Seq(Nat)
         /\ \A s \in Seq(Nat) : With(p, s) \in Seq(Nat)
         /\ \A n \in Nat : Without(p, n) \in Seq(Nat)
         /\ \A n \in Nat : p + n <= Len(text) =>
              Bytes(p, n) \in Seq(Nat) /\ Len(Bytes(p, n)) = n
<1>1. Len(text) \in Nat /\ \A i \in 1 .. Len(text) : text[i] \in Nat
  BY LenProperties, ElementOfSeq
<1>2. \A q \in Nat : Clip(q) \in 0 .. Len(text)
  BY <1>1 DEF Clip
<1>3. \A q \in Nat : Upto(q) \in Seq(Nat) /\ From(q) \in Seq(Nat)
  <2> TAKE q \in Nat
  <2>1. \A i \in 1 .. Clip(q) : text[i] \in Nat
    BY <1>1, <1>2
  <2>2. \A i \in Clip(q) + 1 .. Len(text) : text[i] \in Nat
    BY <1>1, <1>2
  <2>3. 1 \in Int /\ Clip(q) \in Int /\ Clip(q) + 1 \in Int /\ Len(text) \in Int
    BY <1>1, <1>2
  <2> QED
    BY <2>1, <2>2, <2>3, SubSeqProperties DEF Upto, From
<1>4. \A s \in Seq(Nat) : With(p, s) \in Seq(Nat)
  BY <1>3, ConcatProperties DEF With
<1>5. \A n \in Nat : Without(p, n) \in Seq(Nat)
  <2> TAKE n \in Nat
  <2>1. p + n \in Nat
    OBVIOUS
  <2> QED
    BY <2>1, <1>3, ConcatProperties DEF Without
<1>6. ASSUME NEW n \in Nat, p + n <= Len(text)
      PROVE  Bytes(p, n) \in Seq(Nat) /\ Len(Bytes(p, n)) = n
  <2>1. \A i \in p + 1 .. p + n : text[i] \in Nat
    BY <1>1, <1>6
  <2>2. p + 1 \in Int /\ p + n \in Int
    OBVIOUS
  <2>3. Bytes(p, n) \in Seq(Nat)
    BY <2>1, <2>2, SubSeqProperties DEF Bytes
  <2>4. Len(Bytes(p, n)) = IF p + 1 <= p + n THEN p + n - (p + 1) + 1 ELSE 0
    BY <2>1, <2>2, SubSeqProperties DEF Bytes
  <2> QED
    BY <2>3, <2>4
<1> QED
  BY <1>2, <1>3, <1>4, <1>5, <1>6

(* What doundo makes of a text is a text.                                  *)
LEMMA RevertedText ==
  ASSUME text \in Seq(Nat), NEW rec \in Record
  PROVE  Reverted(rec) \in Seq(Nat)
<1>1. rec.where \in Nat /\ rec.len \in Nat /\ rec.text \in Seq(Nat)
  BY DEF Record
<1>2. Clip(rec.where) \in Nat /\ rec.where + rec.len \in Nat
  BY <1>1, LenProperties DEF Clip
<1>3. With(Clip(rec.where), rec.text) \in Seq(Nat)
  BY <1>1, <1>2, TextPieces
<1>4. Upto(rec.where) \o From(rec.where + rec.len) \in Seq(Nat)
  BY <1>1, <1>2, TextPieces, ConcatProperties
<1> QED
  BY <1>3, <1>4 DEF Reverted

(* A record that grows keeps its link.                                     *)
LEMMA GrownRecord ==
  ASSUME NEW r \in Record, NEW t \in Seq(Nat), NEW l \in Nat, NEW w \in Nat
  PROVE  /\ [r EXCEPT !.text = t, !.len = l] \in Record
         /\ [r EXCEPT !.text = t, !.len = l].unit = r.unit
         /\ [r EXCEPT !.text = t, !.len = l, !.where = w] \in Record
         /\ [r EXCEPT !.text = t, !.len = l, !.where = w].unit = r.unit
  BY DEF Record

(* An insertion that grows, likewise.                                      *)
LEMMA LongerRecord ==
  ASSUME NEW r \in Record, NEW l \in Nat
  PROVE  [r EXCEPT !.len = l] \in Record /\ [r EXCEPT !.len = l].unit = r.unit
  BY DEF Record

(* What recording a change leaves.                                         *)
Recorded == /\ List(recs') /\ Len(recs') \in {Len(recs), Len(recs) + 1}
            /\ first' \in InList' \cup {Freed} /\ last' \in InList' \cup {Freed}

LEMMA RecordedList ==
  ASSUME List(recs), changed \in BOOLEAN,
         first \in InList \cup {Freed}, last \in InList \cup {Freed}
  PROVE  /\ \A p, n \in Nat : undoins(p, n) => Recorded
         /\ \A p \in Nat, s \in Seq(Nat) : undodel(p, s) => Recorded
<1>1. Len(recs) \in Nat /\ recs \in Seq(Record)
  BY DEF List
<1>2. ASSUME NEW p \in Nat, NEW n \in Nat, NEW s \in Seq(Nat), NEW del \in BOOLEAN
      PROVE  NewRec(p, n, s, del) \in Record /\ NewRec(p, n, s, del).unit = Null
  BY DEF NewRec, Record, Link, Null
<1>3. ASSUME NEW rec \in Record, rec.unit = Null, enqueb(rec)
      PROVE  Recorded
  BY <1>3, EnquebList DEF Recorded
<1>4. ASSUME recs # <<>>, NEW rec \in Record, rec.unit = Newest.unit, GrowNewest(rec)
      PROVE  Recorded
  BY <1>4, <1>1, GrowList DEF Recorded, InList
<1>5. ASSUME recs # <<>>
      PROVE  Newest \in Record
  BY <1>5, <1>1 DEF Newest
<1>6. ASSUME NEW p \in Nat, NEW n \in Nat, undoins(p, n)
      PROVE  Recorded
  <2>0. <<>> \in Seq(Nat)
    OBVIOUS
  <2>1. CASE Mergeable(FALSE) /\ p \in {Newest.where, Newest.where + Newest.len}
    <3> DEFINE rec == [Newest EXCEPT !.len = @ + n]
    <3>1. recs # <<>> /\ GrowNewest(rec)
      BY <1>6, <2>1 DEF undoins, Mergeable
    <3>2. Newest \in Record /\ Newest.len + n \in Nat
      BY <3>1, <1>5, <1>6 DEF Record
    <3>3. rec \in Record /\ rec.unit = Newest.unit
      BY <3>2, LongerRecord
    <3> QED
      BY <3>1, <3>3, <1>4
  <2>2. CASE ~(Mergeable(FALSE) /\ p \in {Newest.where, Newest.where + Newest.len})
    BY <1>6, <2>0, <2>2, <1>2, <1>3 DEF undoins
  <2> QED
    BY <2>1, <2>2
<1>7. ASSUME NEW p \in Nat, NEW s \in Seq(Nat), undodel(p, s)
      PROVE  Recorded
  <2>1. Len(s) \in Nat
    OBVIOUS
  <2>2. CASE Mergeable(TRUE) /\ p = Newest.where
    <3> DEFINE rec == [Newest EXCEPT !.text = @ \o s, !.len = @ + Len(s)]
    <3>1. recs # <<>> /\ GrowNewest(rec)
      BY <1>7, <2>2 DEF undodel, Mergeable
    <3>2. Newest.text \o s \in Seq(Nat)
      BY <3>1, <1>5, ConcatProperties DEF Record
    <3>3. Newest \in Record
      BY <3>1, <1>5
    <3>4. Newest.len + Len(s) \in Nat
      BY <3>3, <2>1 DEF Record
    <3>5. ASSUME NEW y \in Seq(Nat), NEW k \in Nat
          PROVE  /\ [Newest EXCEPT !.text = y, !.len = k] \in Record
                 /\ [Newest EXCEPT !.text = y, !.len = k].unit = Newest.unit
      BY <3>3 DEF Record
    <3>6. rec \in Record /\ rec.unit = Newest.unit
      BY <3>2, <3>4, <3>5
    <3> QED
      BY <3>1, <3>6, <1>4
  <2>3. CASE ~(Mergeable(TRUE) /\ p = Newest.where) /\
             Mergeable(TRUE) /\ p + Len(s) = Newest.where
    <3> DEFINE rec == [Newest EXCEPT !.text = s \o @, !.len = @ + Len(s), !.where = p]
    <3>1. recs # <<>> /\ GrowNewest(rec)
      BY <1>7, <2>3 DEF undodel, Mergeable
    <3>2. s \o Newest.text \in Seq(Nat)
      BY <3>1, <1>5, ConcatProperties DEF Record
    <3>3. Newest \in Record
      BY <3>1, <1>5
    <3>4. Newest.len + Len(s) \in Nat
      BY <3>3, <2>1 DEF Record
    <3>5. rec = [[Newest EXCEPT !.text = s \o Newest.text, !.len = Newest.len + Len(s)]
                   EXCEPT !.where = p]
      BY <3>3 DEF Record
    <3>6. rec \in Record /\ rec.unit = Newest.unit
      BY <3>2, <3>3, <3>4, <3>5, GrownRecord DEF Record
    <3> QED
      BY <3>1, <3>6, <1>4
  <2>4. CASE ~(Mergeable(TRUE) /\ p = Newest.where) /\
             ~(Mergeable(TRUE) /\ p + Len(s) = Newest.where)
    <3>1. enqueb(NewRec(p, Len(s), s, TRUE))
      BY <1>7, <2>4 DEF undodel
    <3> QED
      BY <3>1, <2>1, <1>2, <1>3
  <2> QED
    BY <2>2, <2>3, <2>4
<1> QED
  BY <1>6, <1>7

-----------------------------------------------------------------------------
(* What TypeOK says of the list and of the links to it.                    *)
LEMMA TypeOfList ==
  ASSUME TypeOK
  PROVE  /\ List(recs) /\ Len(recs) \in Nat
         /\ InList \subseteq Nat /\ InList \subseteq Link
  BY DEF TypeOK, List, InRange, InList, Link, Null

LEMMA StartsTyped == Init => TypeOK
<1> SUFFICES ASSUME Init PROVE TypeOK
  OBVIOUS
<1>1. <<>> \in Seq(Nat) /\ <<>> \in Seq(Record) /\ Len(<<>>) = 0
  OBVIOUS
<1>2. /\ recs \in Seq(Record)
      /\ \A i \in 1 .. Len(recs) : recs[i].unit \in InList \cup {Freed}
  BY <1>1 DEF Init
<1>3. Null \in InList \cup {Anchor, Freed} /\ Null \in InList \cup {Freed} /\ Null \in Link
  BY <1>1 DEF Init, InList, Null, Link
<1> QED
  BY <1>1, <1>2, <1>3 DEF Init, TypeOK

(* A primitive change by the user.                                         *)
LEMMA ChangeTyped ==
  ASSUME TypeOK, undoover, Recorded, text' \in Seq(Nat), changed' = TRUE,
         Step("run"), UNCHANGED <<disk, nrecs, upto>>
  PROVE  TypeOK'
<1>1. Len(recs) \in Nat /\ Len(recs') \in Nat /\ Len(recs') >= Len(recs)
  BY TypeOfList DEF Recorded
<1>2. ptr' \in InList' \cup {Anchor, Freed}
  BY <1>1 DEF undoover, TypeOK, InList, Null, Anchor, Freed
<1>3. /\ recs' \in Seq(Record)
      /\ \A i \in 1 .. Len(recs') : recs'[i].unit \in InList' \cup {Freed}
  BY DEF Recorded, List, InRange, InList
<1> QED
  BY <1>1, <1>2, <1>3 DEF Recorded, Step, TypeOK

LEMMA InsertTyped ==
  ASSUME TypeOK, NEW p \in 0 .. MaxText, NEW s \in Chunk, Insert(p, s)
  PROVE  TypeOK'
<1>1. p \in Nat /\ s \in Seq(Nat) /\ Len(s) \in Nat
  BY BoundAssumption, ChunkAssumption
<1>2. text' \in Seq(Nat)
  BY <1>1, TextPieces DEF Insert, TypeOK
<1>3. Recorded
  BY <1>1, RecordedList, TypeOfList DEF Insert, TypeOK
<1> QED
  BY <1>2, <1>3, ChangeTyped DEF Insert

LEMMA DeleteTyped ==
  ASSUME TypeOK, NEW p \in 0 .. MaxText, NEW n \in 1 .. MaxText, Delete(p, n)
  PROVE  TypeOK'
<1>1. p \in Nat /\ n \in Nat
  BY BoundAssumption
<1>2. text' \in Seq(Nat) /\ Bytes(p, n) \in Seq(Nat)
  BY <1>1, TextPieces DEF Delete, TypeOK
<1>3. Recorded
  BY <1>1, <1>2, RecordedList, TypeOfList DEF Delete, TypeOK
<1> QED
  BY <1>2, <1>3, ChangeTyped DEF Delete

LEMMA BeginTyped ==
  ASSUME TypeOK, NEW k \in Kinds, Begin(k)
  PROVE  TypeOK'
<1>1. List(recs') /\ Len(recs') = Len(recs)
  BY ClearedList, TypeOfList DEF Begin
<1> QED
  BY <1>1 DEF Begin, TypeOK, List, InRange, InList

LEMMA UndoTyped ==
  ASSUME TypeOK, Undo
  PROVE  TypeOK'
<1>1. \A i \in 1 .. Len(recs) : recs[i].unit \in Link
  BY TypeOfList DEF TypeOK, Link
<1>2. ptr' \in InList \cup {Anchor, Freed}
  BY DEF Undo, TypeOK, Null, Anchor
<1>3. upto' \in Link
  <2> DEFINE p == IF ptr = Null THEN Anchor ELSE ptr
  <2>1. CASE upto' = upto
    BY <2>1 DEF TypeOK
  <2>2. CASE upto' # upto
    <3>1. Prev(p) \notin {Anchor, Freed} /\ upto' = recs[Prev(p)].unit
      BY <2>2 DEF Undo
    <3>2. p \in (1 .. Len(recs)) \cup {Anchor, Freed}
      BY TypeOfList DEF TypeOK, InList, Null, Anchor, Freed
    <3>3. Prev(p) \in 1 .. Len(recs)
      BY <3>1, <3>2, TypeOfList DEF Prev, Anchor, Freed
    <3> QED
      BY <3>1, <3>3, <1>1
  <2> QED
    BY <2>1, <2>2
<1>4. UNCHANGED <<text, changed, disk, recs, first, last, nrecs, kind>>
  BY DEF Undo, Step
<1>5. steps' \in Nat /\ pc' \in {"failed", "wild", "undoing"}
  BY DEF Undo, Step, TypeOK
<1> QED
  BY <1>2, <1>3, <1>4, <1>5 DEF TypeOK, InList

LEMMA UndoRecTyped ==
  ASSUME TypeOK, UndoRec
  PROVE  TypeOK'
<1> DEFINE p == Prev(ptr)
<1>0. Len(recs) \in Nat /\ recs \in Seq(Record)
  BY TypeOfList DEF TypeOK
<1>1. CASE p \in {Anchor, Freed}
  BY <1>1 DEF UndoRec, TypeOK, InList
<1>2. CASE p \notin {Anchor, Freed}
  <2> DEFINE rec == recs[p]
  <2>1. p \in 1 .. Len(recs)
    BY <1>0, <1>2 DEF TypeOK, InList, Prev, Null, Anchor, Freed
  <2>2. rec \in Record
    BY <2>1, <1>0
  <2>3. /\ ptr' = p /\ doundo(rec) /\ InverseOf(rec)
        /\ pc' \in {"undoing", "run"} /\ upto' \in {upto, Null}
        /\ UNCHANGED <<disk, nrecs, kind, steps>>
    BY <1>2 DEF UndoRec
  <2>4. rec.where \in Nat /\ rec.len \in Nat /\ rec.text \in Seq(Nat)
        /\ rec.changed \in BOOLEAN
    BY <2>2 DEF Record
  <2>5. Clip(rec.where) \in 0 .. Len(text) /\ Len(text) \in Nat
    <3>1. text \in Seq(Nat)
      BY DEF TypeOK
    <3>2. Len(text) \in Nat
      BY <3>1
    <3> HIDE DEF rec
    <3> QED
      BY <2>4, <3>2 DEF Clip
  <2>6. text' \in Seq(Nat) /\ changed' \in BOOLEAN
    BY <2>2, <2>3, RevertedText DEF doundo, Record, TypeOK
  <2>7. Recorded
    <3> DEFINE q == Clip(rec.where)
               n == Clip(q + rec.len) - q
               s == Bytes(q, n)
    <3>1. q \in Nat /\ q + rec.len \in Nat
      BY <2>4, <2>5
    <3>2. Clip(q + rec.len) \in 0 .. Len(text) /\ Clip(q + rec.len) >= q
      BY <2>4, <2>5, <3>1 DEF Clip
    <3>3. n \in Nat /\ q + n <= Len(text)
      BY <2>5, <3>1, <3>2
    <3>4. s \in Seq(Nat)
      BY <3>1, <3>3, TextPieces DEF TypeOK
    <3>5. CASE rec.del
      <4>1. undoins(q, rec.len)
        BY <2>3, <3>5 DEF InverseOf
      <4> QED
        BY <4>1, <2>4, <3>1, RecordedList, TypeOfList DEF TypeOK
    <3>6. CASE ~rec.del /\ s # <<>>
      <4>1. undodel(q, s)
        BY <2>3, <3>6 DEF InverseOf
      <4> QED
        BY <4>1, <3>1, <3>4, RecordedList, TypeOfList DEF TypeOK
    <3>7. CASE ~rec.del /\ s = <<>>
      <4>1. UNCHANGED <<recs, first, last>>
        BY <2>3, <3>7 DEF InverseOf
      <4> QED
        BY <4>1, TypeOfList DEF Recorded, TypeOK, InList, List, InRange
    <3> QED
      BY <3>5, <3>6, <3>7
  <2>8. ptr' \in InList' \cup {Anchor, Freed}
    BY <1>0, <2>1, <2>3, <2>7 DEF Recorded, InList, Null
  <2>9. /\ recs' \in Seq(Record)
        /\ \A i \in 1 .. Len(recs') : recs'[i].unit \in InList' \cup {Freed}
        /\ first' \in InList' \cup {Freed} /\ last' \in InList' \cup {Freed}
    BY <2>7 DEF Recorded, List, InRange, InList
  <2>10. upto' \in Link
    BY <2>3 DEF TypeOK, Link, Null
  <2> QED
    BY <2>3, <2>6, <2>8, <2>9, <2>10 DEF TypeOK
<1> QED
  BY <1>1, <1>2

LEMMA RedoTyped ==
  ASSUME TypeOK, Redo
  PROVE  TypeOK'
<1>1. UNCHANGED <<text, changed, disk, undoVars, kind>>
  BY DEF Redo, Step
<1>2. steps' \in Nat /\ pc' \in {"failed", "wild", "redoing"}
  BY DEF Redo, Step, TypeOK
<1>3. upto' \in Link
  <2>1. recs # <<>> => Newest.unit \in InList \cup {Freed}
    BY TypeOfList DEF TypeOK, Newest
  <2> QED
    BY <2>1, TypeOfList DEF Redo, TypeOK, Link
<1> QED
  BY <1>1, <1>2, <1>3 DEF TypeOK, InList, undoVars

LEMMA RedoRecTyped ==
  ASSUME TypeOK, RedoRec
  PROVE  TypeOK'
<1>0. Len(recs) \in Nat /\ recs \in Seq(Record)
  BY TypeOfList DEF TypeOK
<1>1. CASE recs = <<>>
  BY <1>1 DEF RedoRec, TypeOK, InList
<1>2. CASE recs # <<>>
  <2>0. Newest \in Record /\ Len(recs) \in Nat \ {0}
    BY <1>0, <1>2 DEF Newest
  <2>1. /\ doundo(Newest) /\ recs' = Popped /\ ptr' = NextAfterPop(ptr)
        /\ first' = Unlinked(first) /\ last' = Unlinked(last)
        /\ pc' \in {"redoing", "run"} /\ upto' \in {Unlinked(upto), Null}
        /\ UNCHANGED <<disk, nrecs, kind, steps>>
    BY <1>2 DEF RedoRec
  <2>2. text' \in Seq(Nat) /\ changed' \in BOOLEAN
    BY <2>0, <2>1, RevertedText DEF doundo, Record, TypeOK
  <2>3. /\ List(recs') /\ Len(recs') = Len(recs) - 1
        /\ first' \in InList' \cup {Freed} /\ last' \in InList' \cup {Freed}
    BY <1>2, <2>1, PoppedList, TypeOfList DEF TypeOK, InList
  <2>4. ptr' \in InList' \cup {Anchor, Freed}
    BY <2>0, <2>1, <2>3 DEF NextAfterPop, TypeOK, InList, Null, Anchor, Freed
  <2>5. upto' \in Link
    BY <2>1 DEF TypeOK, Unlinked, Link, Null, Freed
  <2> QED
    BY <2>1, <2>2, <2>3, <2>4, <2>5 DEF TypeOK, List, InRange, InList
<1> QED
  BY <1>1, <1>2

LEMMA SaveTyped ==
  ASSUME TypeOK, NEW own \in BOOLEAN, Save(own)
  PROVE  TypeOK'
<1> DEFINE f == [i \in 1 .. Len(recs) |->
                   IF NewestUnmodified(i) THEN [recs[i] EXCEPT !.changed = TRUE]
                                          ELSE recs[i]]
<1>1. Len(recs) \in Nat /\ \A i \in 1 .. Len(recs) : recs[i] \in Record
  BY TypeOfList DEF TypeOK
<1>2. recs' = f
  BY DEF Save
<1>3. ASSUME NEW i \in 1 .. Len(recs)
      PROVE  f[i] \in Record /\ f[i].unit \in (Null .. Len(recs)) \cup {Freed}
  <2>1. recs[i] \in Record /\ recs[i].unit \in (Null .. Len(recs)) \cup {Freed}
    BY <1>1 DEF TypeOK, InList
  <2>2. [recs[i] EXCEPT !.changed = TRUE] \in Record /\
        [recs[i] EXCEPT !.changed = TRUE].unit = recs[i].unit
    BY <2>1 DEF Record
  <2> QED
    BY <2>1, <2>2
<1>4. f = [i \in 1 .. Len(recs) |-> f[i]]
  OBVIOUS
<1>5. List(f) /\ Len(f) = Len(recs)
  BY <1>1, <1>3, <1>4, MappedList
<1>6. List(recs') /\ Len(recs') = Len(recs)
  BY <1>2, <1>5
<1>7. disk' \in Seq(Nat) /\ changed' \in BOOLEAN
  BY DEF Save, TypeOK
<1> QED
  BY <1>6, <1>7 DEF Save, Step, TypeOK, List, InRange, InList

LEMMA UnotmodTyped ==
  ASSUME TypeOK, unotmod
  PROVE  TypeOK'
<1>1. /\ text' = text /\ disk' = disk /\ recs' = recs /\ ptr' = ptr
      /\ first' = first /\ last' = last /\ upto' = upto
      /\ nrecs' = nrecs /\ kind' = kind
  BY DEF unotmod, Step, undoVars
<1>2. InList' = InList
  BY <1>1 DEF InList
<1>3. changed' \in BOOLEAN /\ pc' = "run" /\ steps' = steps + 1
  BY DEF unotmod, Step
<1>4. steps' \in Nat
  BY <1>3 DEF TypeOK
<1> QED
  BY <1>1, <1>2, <1>3, <1>4 DEF TypeOK

LEMMA EndTyped ==
  ASSUME TypeOK, End
  PROVE  TypeOK'
<1> DEFINE r == IF kind = "minor" THEN recs ELSE Cleared(recs)
<1>1. List(r) /\ Len(r) = Len(recs) /\ Len(recs) \in Nat
  BY ClearedList, TypeOfList
<1>2. List(Linked(r)) /\ Len(Linked(r)) = Len(r)
  BY <1>1, LinkedList DEF TypeOK, InList
<1>3. /\ undomark(r) /\ first' = Null /\ last' = Null
      /\ kind' = "none" /\ steps' = 0
      /\ UNCHANGED <<text, changed, disk, upto>>
  BY DEF End
<1>4. /\ List(recs') /\ ptr' \in (Null .. Len(recs')) \cup {Anchor, Freed}
      /\ nrecs' \in Nat /\ pc' \in {"idle", "wild"}
  <2>1. CASE recs' = r /\ pc' \in {"idle", "wild"} /\ UNCHANGED <<ptr, nrecs>>
    BY <2>1, <1>1 DEF TypeOK, InList
  <2>2. CASE recs' = Linked(r) /\ nrecs' = nrecs + 1 /\ pc' = "idle" /\ UNCHANGED ptr
    BY <2>2, <1>1, <1>2 DEF TypeOK, InList
  <2>3. CASE undogc(Linked(r))
    <3> DEFINE l == Linked(r)
               n == Oldest(l)
    <3>1. List(l) /\ Len(l) = Len(recs) /\ Len(l) \in Nat
      BY <1>1, <1>2
    <3>2. n \in (1 .. Len(l)) \cup {Freed}
      <4>1. CASE l = <<>>
        BY <4>1 DEF Oldest
      <4>2. CASE l # <<>>
        <5>1. 1 \in 1 .. Len(l)
          BY <3>1, <4>2 DEF List
        <5>2. l[1].unit \in (Null .. Len(l)) \cup {Freed}
          BY <3>1, <5>1 DEF List, InRange
        <5> QED
          BY <3>1, <4>2, <5>1, <5>2 DEF Oldest, Null, Freed
      <4> QED
        BY <4>1, <4>2
    <3>3. CASE n = Freed
      BY <2>3, <3>1, <3>3 DEF undogc, TypeOK, InList
    <3>4. CASE n # Freed
      <4>1. n \in 1 .. Len(l)
        BY <3>2, <3>4
      <4>2. List(Dropped(l, n)) /\ Len(Dropped(l, n)) = Len(l) - n
        BY <3>1, <4>1, DroppedList
      <4>3. recs' = Dropped(l, n) /\ pc' = "idle" /\ nrecs' = nrecs
        BY <2>3, <3>4 DEF undogc
      <4>4. ptr' = IF ptr # 1 THEN Shift(ptr, n) ELSE IF n = Len(l) THEN Anchor ELSE 1
        BY <2>3, <3>4 DEF undogc
      <4>5. ptr \in (Null .. Len(l)) \cup {Anchor, Freed}
        BY <3>1 DEF TypeOK, InList
      <4>6. ptr' \in (Null .. Len(l) - n) \cup {Anchor, Freed}
        BY <3>1, <4>1, <4>4, <4>5 DEF Shift, Null, Anchor, Freed
      <4> QED
        BY <4>2, <4>3, <4>6 DEF TypeOK
    <3> QED
      BY <3>3, <3>4
  <2> QED
    BY <1>3, <2>1, <2>2, <2>3 DEF undomark
<1>5. Null \in InList' \cup {Freed}
  BY <1>4 DEF List, InList, Null
<1> QED
  BY <1>3, <1>4, <1>5 DEF TypeOK, List, InRange, InList

(* Every command, and the loops of undo and redo, keep the undo list well  *)
(* formed: no link of it ever leads to a record that is not there without  *)
(* being known as freed, whatever is merged, undone, redone or evicted     *)
(* (undo.c, undoins to undogc).                                            *)
THEOREM TypeCorrect == Spec => []TypeOK
<1>1. Init => TypeOK
  BY StartsTyped
<1>2. TypeOK /\ [Next]_vars => TypeOK'
  <2> SUFFICES ASSUME TypeOK, [Next]_vars PROVE TypeOK'
    OBVIOUS
  <2>1. ASSUME NEW k \in Kinds, Begin(k) PROVE TypeOK'
    BY <2>1, BeginTyped
  <2>2. ASSUME NEW p \in 0 .. MaxText, NEW s \in Chunk, Insert(p, s) PROVE TypeOK'
    BY <2>2, InsertTyped
  <2>3. ASSUME NEW p \in 0 .. MaxText, NEW n \in 1 .. MaxText, Delete(p, n) PROVE TypeOK'
    BY <2>3, DeleteTyped
  <2>4. ASSUME NEW own \in BOOLEAN, Save(own) PROVE TypeOK'
    BY <2>4, SaveTyped
  <2>5. CASE Undo
    BY <2>5, UndoTyped
  <2>6. CASE Redo
    BY <2>6, RedoTyped
  <2>7. CASE unotmod
    BY <2>7, UnotmodTyped
  <2>8. CASE UndoRec
    BY <2>8, UndoRecTyped
  <2>9. CASE RedoRec
    BY <2>9, RedoRecTyped
  <2>10. CASE End
    BY <2>10, EndTyped
  <2>11. CASE UNCHANGED vars
    BY <2>11 DEF vars, undoVars, loopVars, TypeOK, InList
  <2> QED
    BY <2>1, <2>2, <2>3, <2>4, <2>5, <2>6, <2>7, <2>8, <2>9, <2>10, <2>11
    DEF Next, Internal
<1> QED
  BY <1>1, <1>2, PTL DEF Spec

-----------------------------------------------------------------------------
(***************************************************************************)
(* Undo without redo: the links that uundo and undogc follow are right.    *)
(***************************************************************************)

(* Units depends only on the links.                                        *)
LEMMA UnitsSame ==
  ASSUME NEW r, NEW q, NEW m \in Nat,
         \A i \in 1 .. m : q[i].unit = r[i].unit,
         \A i \in 1 .. m : r[i].unit \in Int,
         Units(r, m)
  PROVE  Units(q, m)
<1>1. \A i \in 1 .. m : q[i].unit # Null =>
        q[i].unit \in 1 .. m /\ q[q[i].unit].unit = i
  BY DEF Units
<1>2. \A i, j \in 1 .. m : i < j /\ j < q[i].unit => q[j].unit = Null
  BY DEF Units
<1>3. \A i \in 1 .. m - 1 : EndsUnit(q, i) <=> StartsUnit(q, i + 1)
  BY DEF Units, EndsUnit, StartsUnit
<1>4. m > 0 => StartsUnit(q, 1) /\ EndsUnit(q, m)
  BY DEF Units, EndsUnit, StartsUnit
<1> QED
  BY <1>1, <1>2, <1>3, <1>4 DEF Units

(* How recording a change leaves the links.                                *)
Grown ==
  /\ Len(recs') = Len(recs) /\ UNCHANGED <<first, last>>
  /\ \A i \in 1 .. Len(recs) : recs'[i].unit = recs[i].unit
Enqueued ==
  /\ Len(recs') = Len(recs) + 1 /\ last' = Len(recs) + 1
  /\ first' = (IF first = Null THEN Len(recs) + 1 ELSE first)
  /\ \A i \in 1 .. Len(recs) : recs'[i].unit = recs[i].unit
  /\ recs'[Len(recs) + 1].unit = Null

LEMMA RecordedLinks ==
  ASSUME TypeOK
  PROVE  /\ \A p, n : undoins(p, n) => Grown \/ Enqueued
         /\ \A p, s : undodel(p, s) => Grown \/ Enqueued
<1>1. Len(recs) \in Nat /\ recs \in Seq(Record)
  BY TypeOfList DEF TypeOK
<1>2. ASSUME NEW rec, rec.unit = Null, enqueb(rec)
      PROVE  Enqueued
  BY <1>1, <1>2 DEF enqueb, Enqueued
<1>3. ASSUME recs # <<>>, NEW rec, rec.unit = Newest.unit, GrowNewest(rec)
      PROVE  Grown
  <2>1. recs' = [recs EXCEPT ![Len(recs)] = rec] /\ UNCHANGED <<first, last>>
    BY <1>3 DEF GrowNewest
  <2>2. Len(recs) \in 1 .. Len(recs) /\ DOMAIN recs = 1 .. Len(recs)
    BY <1>1, <1>3
  <2>3. recs \in [1 .. Len(recs) -> Record]
    BY <1>1
  <2>4. recs' \in [1 .. Len(recs) -> Record \cup {rec}]
    BY <2>1, <2>2, <2>3
  <2>5. Len(recs') = Len(recs)
    BY <1>1, <2>4, FunctionIsSeq
  <2>6. \A i \in 1 .. Len(recs) : recs'[i].unit = recs[i].unit
    BY <1>3, <2>1, <2>2, <2>3 DEF Newest
  <2> QED
    BY <2>1, <2>5, <2>6 DEF Grown
<1>4. recs # <<>> => Newest \in Record
  BY <1>1 DEF Newest
<1>5. ASSUME NEW p, NEW n, undoins(p, n)
      PROVE  Grown \/ Enqueued
  <2>1. CASE recs # <<>> /\ GrowNewest([Newest EXCEPT !.len = @ + n])
    <3>1. [Newest EXCEPT !.len = @ + n].unit = Newest.unit
      BY <2>1, <1>4 DEF Record
    <3> QED
      BY <2>1, <3>1, <1>3
  <2>2. CASE enqueb(NewRec(p, n, <<>>, FALSE))
    BY <2>2, <1>2 DEF NewRec
  <2> QED
    BY <1>5, <2>1, <2>2 DEF undoins, Mergeable
<1>6. ASSUME NEW p, NEW s, undodel(p, s)
      PROVE  Grown \/ Enqueued
  <2> DEFINE after == [Newest EXCEPT !.text = @ \o s, !.len = @ + Len(s)]
             before == [Newest EXCEPT !.text = s \o @, !.len = @ + Len(s), !.where = p]
  <2>1. CASE recs # <<>> /\ GrowNewest(after)
    <3>1. after.unit = Newest.unit
      BY <2>1, <1>4 DEF Record
    <3> QED
      BY <2>1, <3>1, <1>3
  <2>2. CASE recs # <<>> /\ GrowNewest(before)
    <3>1. before.unit = Newest.unit
      BY <2>2, <1>4 DEF Record
    <3> QED
      BY <2>2, <3>1, <1>3
  <2>3. CASE enqueb(NewRec(p, Len(s), s, TRUE))
    BY <2>3, <1>2 DEF NewRec
  <2> QED
    BY <1>6, <2>1, <2>2, <2>3 DEF undodel, Mergeable
<1> QED
  BY <1>5, <1>6

(* Recording a change leaves the closed units alone.                       *)
LEMMA RecordedUnits ==
  ASSUME TypeOK, Units(recs, Closed), OpenUnit, Grown \/ Enqueued, pc' # "idle"
  PROVE  /\ Closed' = Closed /\ Units(recs', Closed') /\ OpenUnit'
         /\ \A i \in 1 .. Closed : StartsUnit(recs', i) <=> StartsUnit(recs, i)
<1>1. Len(recs) \in Nat /\ InList \subseteq Nat
  BY TypeOfList
<1>2. Closed \in 0 .. Len(recs)
  BY <1>1 DEF Closed, OpenUnit, InList, Null
<1>3. Closed' = Closed
  BY <1>1 DEF Closed, Grown, Enqueued, OpenUnit, InList, Null
<1>4. \A i \in 1 .. Len(recs) : recs'[i].unit = recs[i].unit
  BY DEF Grown, Enqueued
<1>5. \A i \in 1 .. Closed : recs[i].unit \in Int
  <2>1. \A i \in 1 .. Len(recs) : recs[i].unit \in InList \cup {Freed}
    BY DEF TypeOK
  <2>2. InList \cup {Freed} \subseteq Int
    BY <1>1 DEF Freed
  <2> QED
    BY <1>1, <1>2, <2>1, <2>2
<1>6. Units(recs', Closed)
  BY <1>1, <1>2, <1>4, <1>5, UnitsSame
<1>7. OpenUnit'
  <2>1. CASE Grown
    BY <2>1, <1>1, <1>2, <1>3 DEF Grown, OpenUnit, InList, Null
  <2>2. CASE Enqueued
    <3>1. first' \in InList' /\ last' = (IF first' = Null THEN Null ELSE Len(recs'))
      BY <2>2, <1>1 DEF Enqueued, OpenUnit, InList, Null
    <3>2. \A i \in Closed + 1 .. Len(recs') : recs'[i].unit = Null
      BY <2>2, <1>1, <1>2 DEF Enqueued, OpenUnit
    <3> QED
      BY <3>1, <3>2, <1>3 DEF OpenUnit
  <2> QED
    BY <2>1, <2>2
<1>8. \A i \in 1 .. Closed : StartsUnit(recs', i) <=> StartsUnit(recs, i)
  BY <1>1, <1>2, <1>4 DEF StartsUnit
<1> QED
  BY <1>3, <1>6, <1>7, <1>8

(* undomark closes the open unit: all the records are in closed units.     *)
LEMMA LinkedUnits ==
  ASSUME NEW r, List(r), first \in 1 .. Len(r), last = Len(r),
         Units(r, first - 1), \A i \in first .. Len(r) : r[i].unit = Null
  PROVE  /\ Units(Linked(r), Len(r))
         /\ \A i \in 1 .. first - 1 : StartsUnit(Linked(r), i) <=> StartsUnit(r, i)
<1> DEFINE l == Linked(r)
           n == Len(r)
           m == first - 1
<1>1. n \in Nat /\ first \in Nat /\ m \in Nat
  BY DEF List
<1>2. \A i \in 1 .. n : r[i] \in Record /\ r[i].unit \in Int
  BY <1>1 DEF List, InRange, Null, Freed
<1>3. /\ \A i \in 1 .. m : l[i].unit = r[i].unit
      /\ l[n].unit = first /\ l[first].unit = n
      /\ \A i \in first + 1 .. n - 1 : l[i].unit = Null
  BY <1>1, <1>2 DEF Linked, Record
<1>4. \A i \in 1 .. m : r[i].unit # Null => r[i].unit \in 1 .. m
  BY DEF Units
<1>5. ASSUME NEW i \in 1 .. n, l[i].unit # Null
      PROVE  l[i].unit \in 1 .. n /\ l[l[i].unit].unit = i
  BY <1>1, <1>3, <1>4, <1>5 DEF Units
<1>6. ASSUME NEW i \in 1 .. n, NEW j \in 1 .. n, i < j, j < l[i].unit
      PROVE  l[j].unit = Null
  <2>1. CASE i <= m
    <3>1. i \in 1 .. m /\ l[i].unit = r[i].unit /\ r[i].unit \in Int /\ r[i].unit # Null
      BY <2>1, <1>1, <1>2, <1>3, <1>6 DEF Null
    <3>2. r[i].unit \in 1 .. m
      BY <3>1, <1>4
    <3>3. j \in 1 .. m /\ l[j].unit = r[j].unit /\ j < r[i].unit
      BY <3>1, <3>2, <1>1, <1>3, <1>6
    <3> QED
      BY <3>1, <3>3, <1>6 DEF Units
  <2>2. CASE i = first
    <3>1. j \in first + 1 .. n - 1
      BY <2>2, <1>1, <1>3, <1>6
    <3> QED
      BY <3>1, <1>3
  <2>3. CASE i > first
    <3>1. l[i].unit \in {Null, first}
      BY <2>3, <1>1, <1>3
    <3> QED
      BY <2>3, <3>1, <1>1, <1>6 DEF Null
  <2> QED
    BY <2>1, <2>2, <2>3, <1>1
<1>7. ASSUME NEW i \in 1 .. n - 1
      PROVE  EndsUnit(l, i) <=> StartsUnit(l, i + 1)
  <2>1. CASE i < m
    BY <2>1, <1>1, <1>2, <1>3 DEF Units, EndsUnit, StartsUnit
  <2>2. CASE i = m
    BY <2>2, <1>1, <1>2, <1>3 DEF Units, EndsUnit, StartsUnit
  <2>3. CASE i > m
    <3>1. ~EndsUnit(l, i)
      <4>1. l[i].unit = n \/ l[i].unit = Null
        BY <2>3, <1>1, <1>3
      <4> QED
        BY <4>1, <1>1 DEF EndsUnit, Null
    <3>2. ~StartsUnit(l, i + 1)
      <4>1. i + 1 \in first + 1 .. n
        BY <2>3, <1>1
      <4>2. l[i + 1].unit = first \/ l[i + 1].unit = Null
        BY <4>1, <1>1, <1>3
      <4> QED
        BY <2>3, <4>2, <1>1 DEF StartsUnit, Null
    <3> QED
      BY <3>1, <3>2
  <2> QED
    BY <2>1, <2>2, <2>3, <1>1
<1>8. StartsUnit(l, 1) /\ EndsUnit(l, n)
  <2>1. CASE m = 0
    BY <2>1, <1>1, <1>3 DEF EndsUnit, StartsUnit
  <2>2. CASE m > 0
    BY <2>2, <1>1, <1>3 DEF Units, EndsUnit, StartsUnit
  <2> QED
    BY <2>1, <2>2, <1>1
<1>9. \A i \in 1 .. m : StartsUnit(l, i) <=> StartsUnit(r, i)
  BY <1>3 DEF StartsUnit
<1> QED
  BY <1>5, <1>6, <1>7, <1>8, <1>9 DEF Units

(* undogc removes exactly the oldest unit: the others stay closed, and a   *)
(* record that starts a unit and is not removed still starts one.          *)
LEMMA DroppedUnits ==
  ASSUME NEW r, List(r), r # <<>>, Units(r, Len(r)),
         NEW n, n = Oldest(r), NEW m, m = Len(r) - n
  PROVE  /\ n \in 1 .. Len(r)
         /\ Units(Dropped(r, n), m)
         /\ \A i \in 2 .. Len(r) : StartsUnit(r, i) =>
              i > n /\ StartsUnit(Dropped(r, n), i - n)
         /\ n < Len(r) => StartsUnit(Dropped(r, n), 1)
<1> DEFINE d == Dropped(r, n)
<1>1. Len(r) \in Nat /\ Len(r) > 0 /\ \A i \in 1 .. Len(r) : r[i] \in Record /\ r[i].unit \in Int
  BY DEF List, InRange, Null, Freed
<1>2. /\ \A i \in 1 .. Len(r) : r[i].unit # Null =>
           r[i].unit \in 1 .. Len(r) /\ r[r[i].unit].unit = i
      /\ \A i, j \in 1 .. Len(r) : i < j /\ j < r[i].unit => r[j].unit = Null
      /\ \A i \in 1 .. Len(r) - 1 : EndsUnit(r, i) <=> StartsUnit(r, i + 1)
      /\ StartsUnit(r, 1) /\ EndsUnit(r, Len(r))
  BY <1>1 DEF Units
<1>3. n = r[1].unit /\ n \in 1 .. Len(r) /\ r[n].unit = 1
  BY <1>1, <1>2 DEF Oldest, StartsUnit, Null
<1>4. m \in Nat
  BY <1>1, <1>3
<1>5. \A j \in 1 .. n : j # 1 /\ j # n => r[j].unit = Null
  <2> SUFFICES ASSUME NEW j \in 1 .. n, j # 1, j # n
               PROVE  r[j].unit = Null
    OBVIOUS
  <2>1. 1 \in 1 .. Len(r) /\ j \in 1 .. Len(r) /\ 1 < j /\ j < r[1].unit
    BY <1>1, <1>3
  <2> QED
    BY <2>1, <1>2
<1>6. \A i \in n + 1 .. Len(r) : r[i].unit # Null => r[i].unit \in n + 1 .. Len(r)
  <2> SUFFICES ASSUME NEW i \in n + 1 .. Len(r), r[i].unit # Null
               PROVE  r[i].unit \in n + 1 .. Len(r)
    OBVIOUS
  <2>1. i \in 1 .. Len(r) /\ i # 1 /\ i # n
    BY <1>1, <1>3
  <2>2. r[i].unit \in 1 .. Len(r) /\ r[r[i].unit].unit = i
    BY <1>2, <2>1
  <2>3. r[i].unit \notin 1 .. n
    <3> SUFFICES ASSUME NEW j, j = r[i].unit, j \in 1 .. n
                 PROVE  FALSE
      OBVIOUS
    <3>1. r[j].unit = i
      BY <2>2
    <3>2. j # 1 /\ j # n
      BY <1>3, <2>1, <3>1
    <3>3. r[j].unit = 0
      BY <1>5, <3>2 DEF Null
    <3> QED
      BY <1>3, <2>1, <3>1, <3>3
  <2> QED
    BY <1>1, <1>3, <2>2, <2>3
<1>7. \A i \in 1 .. m : d[i].unit = IF r[i + n].unit = Null THEN Null ELSE r[i + n].unit - n
  <2> TAKE i \in 1 .. m
  <2>1. i + n \in n + 1 .. Len(r) /\ i + n \in 1 .. Len(r)
    BY <1>1, <1>3
  <2>2. d[i] = [r[i + n] EXCEPT !.unit = Shift(@, n)]
    BY DEF Dropped
  <2>3. d[i].unit = Shift(r[i + n].unit, n)
    BY <1>1, <2>1, <2>2 DEF Record
  <2>4. r[i + n].unit = Null \/ r[i + n].unit \in n + 1 .. Len(r)
    BY <1>6, <2>1
  <2> QED
    BY <1>1, <1>3, <2>3, <2>4 DEF Shift, Null
<1>8. ASSUME NEW i \in 1 .. m, d[i].unit # Null
      PROVE  d[i].unit \in 1 .. m /\ d[d[i].unit].unit = i
  <2>1. i + n \in n + 1 .. Len(r) /\ i + n \in 1 .. Len(r)
    BY <1>1, <1>3
  <2> DEFINE u == r[i + n].unit
  <2>2. d[i].unit = u - n /\ u # Null
    BY <1>7, <1>8
  <2>3. u \in n + 1 .. Len(r) /\ r[u].unit = i + n
    BY <1>2, <1>6, <2>1, <2>2
  <2>4. u - n \in 1 .. m /\ (u - n) + n = u
    <3>1. u \in Int /\ n \in Int /\ Len(r) \in Int /\ n + 1 <= u /\ u <= Len(r)
      BY <1>1, <1>3, <2>3
    <3> HIDE DEF u
    <3> QED
      BY <3>1
  <2>5. d[u - n].unit = IF r[u].unit = Null THEN Null ELSE r[u].unit - n
    BY <1>7, <2>4
  <2>6. d[u - n].unit = i
    BY <1>1, <1>3, <2>3, <2>5 DEF Null
  <2> QED
    BY <2>2, <2>4, <2>6
<1>9. ASSUME NEW i \in 1 .. m, NEW j \in 1 .. m, i < j, j < d[i].unit
      PROVE  d[j].unit = Null
  <2>1. i + n \in 1 .. Len(r) /\ j + n \in 1 .. Len(r) /\ i + n < j + n
    BY <1>1, <1>3, <1>9
  <2>2. j + n < r[i + n].unit
    <3>1. d[i].unit = IF r[i + n].unit = Null THEN Null ELSE r[i + n].unit - n
      BY <1>7
    <3>2. r[i + n].unit \in Int /\ n \in Int
      BY <1>1, <1>3, <2>1
    <3>3. CASE r[i + n].unit = Null
      BY <1>9, <3>1, <3>3 DEF Null
    <3>4. CASE r[i + n].unit # Null
      <4>1. j < r[i + n].unit - n
        BY <1>9, <3>1, <3>4
      <4> QED
        BY <3>2, <4>1
    <3> QED
      BY <3>3, <3>4
  <2>3. r[j + n].unit = Null
    BY <1>2, <2>1, <2>2
  <2> QED
    BY <1>7, <2>3
<1>10. \A i \in 1 .. m : /\ EndsUnit(d, i) <=> EndsUnit(r, i + n)
                         /\ StartsUnit(d, i) <=> StartsUnit(r, i + n)
  <2> TAKE i \in 1 .. m
  <2>1. i + n \in n + 1 .. Len(r) /\ i + n \in 1 .. Len(r)
    BY <1>1, <1>3
  <2>2. r[i + n].unit = Null \/ r[i + n].unit \in n + 1 .. Len(r)
    BY <1>6, <2>1
  <2>3. d[i].unit = IF r[i + n].unit = Null THEN Null ELSE r[i + n].unit - n
    BY <1>7
  <2>4. n \in Int /\ n >= 1 /\ i \in Int /\ i >= 1
    BY <1>1, <1>3
  <2>5. CASE r[i + n].unit = Null
    BY <2>3, <2>4, <2>5 DEF EndsUnit, StartsUnit, Null
  <2>6. CASE r[i + n].unit # Null
    <3>1. d[i].unit = r[i + n].unit - n /\ r[i + n].unit \in n + 1 .. Len(r)
      BY <2>2, <2>3, <2>6
    <3>2. r[i + n].unit \in Int /\ d[i].unit >= 1
      BY <1>1, <2>4, <3>1
    <3> QED
      BY <2>4, <3>1, <3>2 DEF EndsUnit, StartsUnit, Null
  <2> QED
    BY <2>5, <2>6
<1>11. ASSUME NEW i \in 1 .. m - 1
       PROVE  EndsUnit(d, i) <=> StartsUnit(d, i + 1)
  <2>0. i \in Int /\ 1 <= i /\ i <= m - 1 /\ n \in Int /\ 1 <= n /\ m = Len(r) - n
        /\ Len(r) \in Int
    BY <1>1, <1>3, <1>4
  <2>1. /\ i + n \in 1 .. Len(r) - 1 /\ i \in 1 .. m /\ i + 1 \in 1 .. m
        /\ (i + 1) + n = (i + n) + 1
    BY <2>0
  <2> QED
    BY <1>2, <1>10, <2>1
<1>12. m > 0 => StartsUnit(d, 1) /\ EndsUnit(d, m)
  <2> SUFFICES ASSUME m > 0 PROVE StartsUnit(d, 1) /\ EndsUnit(d, m)
    OBVIOUS
  <2>0. n \in Int /\ 1 <= n /\ m = Len(r) - n /\ Len(r) \in Int /\ m > 0 /\ m \in Int
    BY <1>1, <1>3, <1>4
  <2>1. /\ n \in 1 .. Len(r) - 1 /\ 1 \in 1 .. m /\ m \in 1 .. m
        /\ 1 + n = n + 1 /\ m + n = Len(r)
    BY <2>0
  <2>2. EndsUnit(r, n)
    BY <1>3 DEF EndsUnit
  <2> QED
    BY <1>2, <1>10, <2>1, <2>2
<1>13. ASSUME NEW i \in 2 .. Len(r), StartsUnit(r, i)
       PROVE  i > n /\ StartsUnit(d, i - n)
  <2>1. i > n
    BY <1>1, <1>3, <1>5, <1>13 DEF StartsUnit, Null
  <2>2. i - n \in 1 .. m /\ (i - n) + n = i
    BY <1>1, <1>3, <2>1
  <2> QED
    BY <1>10, <1>13, <2>1, <2>2
<1> QED
  BY <1>3, <1>4, <1>8, <1>9, <1>11, <1>12, <1>13 DEF Units

NoRedo == Kinds \cap {"redo", "macro"} = {}

(* A step that leaves the links alone.                                     *)
LEMMA LinksKept ==
  ASSUME TypeOK, UndoInv, Len(recs') = Len(recs),
         \A i \in 1 .. Len(recs) : recs'[i].unit = recs[i].unit,
         UNCHANGED <<ptr, first, last, upto>>,
         pc' \in {"idle", "run", "failed"}, pc # "undoing",
         pc' = "idle" => pc = "idle",
         kind' = "undo" => kind = "undo" \/ first = Null
  PROVE  UndoInv'
<1>1. Len(recs) \in Nat /\ InList \subseteq Nat
  BY TypeOfList
<1>2. Closed \in 0 .. Len(recs) /\ Closed' = Closed /\ InList' = InList
  BY <1>1 DEF Closed, UndoInv, OpenUnit, InList, Null
<1>3. \A i \in 1 .. Closed : recs[i].unit \in Int
  BY <1>1, <1>2 DEF TypeOK, InList, Null, Freed
<1>4. Units(recs', Closed)
  BY <1>1, <1>2, <1>3, UnitsSame DEF UndoInv
<1>5. OpenUnit'
  BY <1>1, <1>2 DEF UndoInv, OpenUnit
<1>6. PtrInv'
  BY <1>1, <1>2 DEF UndoInv, PtrInv, StartsUnit
<1> QED
  BY <1>2, <1>4, <1>5, <1>6 DEF UndoInv, LoopInv

LEMMA BeginKeeps ==
  ASSUME TypeOK, UndoInv, NEW k \in Kinds, Begin(k)
  PROVE  UndoInv'
<1>1. Len(recs') = Len(recs) /\ \A i \in 1 .. Len(recs) : recs'[i].unit = recs[i].unit
  <2>1. CASE recs' = recs
    BY <2>1
  <2>2. CASE recs' = Cleared(recs)
    BY <2>2, ClearedList, TypeOfList, ClearedLinks
  <2> QED
    BY <2>1, <2>2 DEF Begin
<1>2. first = Null
  BY DEF Begin, UndoInv, OpenUnit
<1> QED
  BY <1>1, <1>2, LinksKept DEF Begin

LEMMA ChangeKeeps ==
  ASSUME TypeOK, UndoInv, pc = "run", kind \in {"minor", "edit"}, undoover,
         Grown \/ Enqueued, Step("run")
  PROVE  UndoInv'
<1>1. /\ Closed' = Closed /\ Units(recs', Closed') /\ OpenUnit'
      /\ \A i \in 1 .. Closed : StartsUnit(recs', i) <=> StartsUnit(recs, i)
  BY RecordedUnits DEF UndoInv, Step
<1>2. PtrInv'
  BY DEF PtrInv, undoover, Step, Null, Anchor
<1> QED
  BY <1>1, <1>2 DEF UndoInv, LoopInv, Step

LEMMA InsertKeeps ==
  ASSUME NoRedo, TypeOK, UndoInv, NEW p \in 0 .. MaxText, NEW s \in Chunk, Insert(p, s)
  PROVE  UndoInv'
<1>1. pc = "run" /\ kind \in {"minor", "edit"} /\ undoover /\ undoins(p, Len(s)) /\ Step("run")
  BY DEF Insert, May, NoRedo, TypeOK
<1> QED
  BY <1>1, RecordedLinks, ChangeKeeps

LEMMA DeleteKeeps ==
  ASSUME NoRedo, TypeOK, UndoInv, NEW p \in 0 .. MaxText, NEW n \in 1 .. MaxText, Delete(p, n)
  PROVE  UndoInv'
<1>1. pc = "run" /\ kind \in {"minor", "edit"} /\ undoover /\ undodel(p, Bytes(p, n)) /\ Step("run")
  BY DEF Delete, May, NoRedo, TypeOK
<1> QED
  BY <1>1, RecordedLinks, ChangeKeeps

(* uundo starts its loop at the last record of a closed unit.              *)
LEMMA UndoKeeps ==
  ASSUME NoRedo, TypeOK, UndoInv, Undo
  PROVE  UndoInv'
<1> DEFINE p == IF ptr = Null THEN Anchor ELSE ptr
<1>1. pc = "run" /\ kind = "undo" /\ kind' = "undo"
  BY DEF Undo, May, Step, NoRedo, TypeOK
<1>2. Len(recs) \in Nat /\ Closed \in 0 .. Len(recs)
  BY TypeOfList DEF Closed, UndoInv, OpenUnit, InList, Null
<1>3. /\ UNCHANGED <<recs, first, last>>
      /\ \/ ptr' = ptr /\ upto' = upto /\ pc' = "failed"
         \/ ptr' = p /\ upto' = upto /\ pc' = (IF p = Freed THEN "wild" ELSE "failed")
         \/ /\ ptr' = p /\ Prev(p) \notin {Anchor, Freed}
            /\ upto' = recs[Prev(p)].unit /\ pc' = "undoing"
  BY DEF Undo, Step
<1>4. (p = Anchor /\ first = Null) \/ (p \in 1 .. Closed /\ StartsUnit(recs, p))
  <2>1. CASE ptr \in {Null, Anchor}
    <3>1. first = Null
      BY <1>1, <2>1 DEF UndoInv, PtrInv
    <3>2. p = Anchor
      BY <2>1
    <3> QED
      BY <3>1, <3>2
  <2>2. CASE ptr \notin {Null, Anchor}
    BY <1>1, <2>2 DEF UndoInv, PtrInv
  <2> QED
    BY <2>1, <2>2
<1>5. Closed' = Closed /\ Units(recs', Closed') /\ pc' # "idle" /\ OpenUnit'
  BY <1>1, <1>3 DEF UndoInv, OpenUnit, Closed, InList
<1>6. PtrInv'
  BY <1>1, <1>3, <1>4, <1>5 DEF PtrInv, UndoInv, Null, Anchor
<1>7. p # Freed
  BY <1>2, <1>4 DEF Anchor, Freed
<1>8. LoopInv'
  <2> SUFFICES ASSUME pc' = "undoing" PROVE LoopInv'
    BY DEF LoopInv
  <2>1. ptr' = p /\ Prev(p) \notin {Anchor, Freed} /\ upto' = recs[Prev(p)].unit
    BY <1>3
  <2>2. Prev(p) \in 1 .. Closed /\ EndsUnit(recs, Prev(p))
    <3>1. CASE p = Anchor /\ first = Null
      <4>1. Closed = Len(recs) /\ Prev(p) = Len(recs) /\ Len(recs) > 0
        BY <3>1, <2>1, <1>2 DEF Closed, Prev
      <4> QED
        BY <4>1, <1>2 DEF UndoInv, Units
    <3>2. CASE p \in 1 .. Closed /\ StartsUnit(recs, p)
      <4>1. p # 1 /\ Prev(p) = p - 1
        BY <3>2, <2>1, <1>2 DEF Prev, Anchor, Freed
      <4>2. p - 1 \in 1 .. Closed - 1 /\ (p - 1) + 1 = p
        BY <3>2, <4>1, <1>2
      <4>3. EndsUnit(recs, p - 1)
        BY <3>2, <4>2 DEF UndoInv, Units
      <4> QED
        BY <4>1, <4>2, <4>3, <1>2
    <3> QED
      BY <3>1, <3>2, <1>4
  <2>3. upto' \in 1 .. Prev(p)
    BY <2>1, <2>2 DEF EndsUnit
  <2>4. upto' \in 1 .. Closed
    BY <2>2, <2>3, <1>2
  <2>5. recs[upto'].unit = Prev(p)
    <3>1. recs[Prev(p)].unit # Null
      BY <2>1, <2>3 DEF Null
    <3> QED
      BY <2>1, <2>2, <3>1 DEF UndoInv, Units
  <2>6. StartsUnit(recs, upto')
    BY <2>2, <2>3, <2>5, <1>2 DEF StartsUnit
  <2>7. Prev(ptr)' = Prev(p)
    BY <2>1, <1>3 DEF Prev
  <2>8. upto' <= Prev(ptr)' /\ ptr' # Null /\ StartsUnit(recs, upto)'
    BY <2>1, <2>2, <2>3, <2>6, <2>7, <1>2, <1>3, <1>4 DEF StartsUnit, Null, Anchor
  <2> QED
    BY <1>1, <1>5, <2>4, <2>8 DEF LoopInv
<1> QED
  BY <1>3, <1>5, <1>6, <1>7, <1>8 DEF UndoInv

(* The loop of uundo stays in the unit and ends at its first record.       *)
LEMMA UndoRecKeeps ==
  ASSUME TypeOK, UndoInv, UndoRec
  PROVE  UndoInv'
<1> DEFINE p == Prev(ptr)
<1>1. Len(recs) \in Nat /\ Closed \in 0 .. Len(recs)
  BY TypeOfList DEF Closed, UndoInv, OpenUnit, InList, Null
<1>2. /\ pc = "undoing" /\ kind = "undo" /\ ptr # Null
      /\ upto \in 1 .. Closed /\ upto <= p /\ StartsUnit(recs, upto)
  BY DEF UndoRec, UndoInv, LoopInv
<1>3. p \in 1 .. Closed /\ p \notin {Anchor, Freed}
  <2>1. CASE ptr = Anchor
    <3>1. first = Null
      BY <1>2, <2>1 DEF UndoInv, PtrInv
    <3> QED
      BY <1>1, <1>2, <2>1, <3>1 DEF Prev, Closed, Anchor, Freed
  <2>2. CASE ptr # Anchor
    <3>1. ptr \in 1 .. Closed
      BY <1>2, <2>2 DEF UndoInv, PtrInv
    <3> QED
      BY <1>1, <1>2, <3>1 DEF Prev, Anchor, Freed
  <2> QED
    BY <2>1, <2>2
<1>4. /\ ptr' = p /\ InverseOf(recs[p]) /\ UNCHANGED kind
      /\ IF upto # p THEN pc' = pc /\ upto' = upto ELSE pc' = "run" /\ upto' = Null
  BY <1>2, <1>3 DEF UndoRec, MoreThan, Null
<1>5. Grown \/ Enqueued
  <2>1. CASE UNCHANGED <<recs, first, last>>
    BY <2>1 DEF Grown
  <2> QED
    BY <1>4, <2>1, RecordedLinks DEF InverseOf
<1>6. /\ Closed' = Closed /\ Units(recs', Closed') /\ OpenUnit'
      /\ \A i \in 1 .. Closed : StartsUnit(recs', i) <=> StartsUnit(recs, i)
  BY <1>2, <1>4, <1>5, RecordedUnits DEF UndoInv
<1>7. p # Null /\ p # Anchor
  BY <1>1, <1>3 DEF Null, Anchor
<1>8. CASE upto # p
  <2>1. ptr' = p /\ pc' = "undoing" /\ upto' = upto
    BY <1>2, <1>4, <1>8
  <2>2. Prev(ptr)' = p - 1 /\ upto <= p - 1
    <3>1. p \in 1 .. Closed /\ upto \in 1 .. Closed /\ upto <= p /\ Closed \in Nat
      BY <1>1, <1>2, <1>3
    <3> HIDE DEF p
    <3>2. p \in Nat /\ p > 1 /\ upto <= p - 1
      BY <3>1, <1>8
    <3>3. Prev(ptr)' = p - 1
      BY <2>1, <3>2 DEF Prev, Anchor, Freed
    <3> QED
      BY <3>2, <3>3
  <2>3. LoopInv'
    BY <1>2, <1>4, <1>6, <1>7, <2>1, <2>2 DEF LoopInv
  <2>4. PtrInv'
    BY <1>3, <1>6, <1>7, <2>1 DEF PtrInv
  <2> QED
    BY <1>6, <2>1, <2>3, <2>4 DEF UndoInv
<1>9. CASE upto = p
  <2>1. ptr' = p /\ pc' = "run" /\ StartsUnit(recs', p)
    BY <1>2, <1>3, <1>4, <1>6, <1>9
  <2>2. PtrInv'
    BY <1>3, <1>6, <1>7, <2>1 DEF PtrInv
  <2> QED
    BY <1>6, <2>1, <2>2 DEF UndoInv, LoopInv
<1> QED
  BY <1>8, <1>9

LEMMA SaveKeeps ==
  ASSUME TypeOK, UndoInv, NEW own \in BOOLEAN, Save(own)
  PROVE  UndoInv'
<1> DEFINE f == [i \in 1 .. Len(recs) |->
                   IF NewestUnmodified(i) THEN [recs[i] EXCEPT !.changed = TRUE]
                                          ELSE recs[i]]
<1>1. Len(recs) \in Nat /\ \A i \in 1 .. Len(recs) : recs[i] \in Record
  BY TypeOfList DEF TypeOK
<1>2. \A i \in 1 .. Len(recs) : f[i] \in Record /\ f[i].unit = recs[i].unit
  BY <1>1 DEF Record
<1>3. f \in [1 .. Len(recs) -> Record] /\ recs' = f
  BY <1>2 DEF Save
<1>4. Len(recs') = Len(recs)
  BY <1>1, <1>3, FunctionIsSeq
<1>5. \A i \in 1 .. Len(recs) : recs'[i].unit = recs[i].unit
  BY <1>2, <1>3
<1>6. /\ UNCHANGED <<ptr, first, last, upto>> /\ pc = "run" /\ pc' = "run"
      /\ kind = "save" /\ kind' = "save"
  BY DEF Save, May, Step
<1> QED
  BY <1>4, <1>5, <1>6, LinksKept

(* The end of a command closes its unit and may evict the oldest one.      *)
LEMMA EndKeeps ==
  ASSUME TypeOK, UndoInv, End
  PROVE  UndoInv'
<1> DEFINE r == IF kind = "minor" THEN recs ELSE Cleared(recs)
<1>1. /\ List(r) /\ Len(r) = Len(recs) /\ Len(recs) \in Nat
      /\ \A i \in 1 .. Len(recs) : r[i].unit = recs[i].unit
  BY ClearedList, ClearedLinks, TypeOfList
<1>2. Closed \in 0 .. Len(recs)
  BY <1>1 DEF Closed, UndoInv, OpenUnit, InList, Null
<1>3. \A i \in 1 .. Closed : recs[i].unit \in Int
  BY <1>1, <1>2 DEF TypeOK, InList, Null, Freed
<1>4. Units(r, Closed)
  BY <1>1, <1>2, <1>3, UnitsSame DEF UndoInv
<1>5. undomark(r) /\ first' = Null /\ last' = Null /\ kind' = "none" /\ pc # "undoing"
  BY DEF End
<1>6. ptr \notin {Null, Anchor} => ptr \in 1 .. Closed /\ StartsUnit(r, ptr)
  BY <1>1, <1>2, <1>5 DEF UndoInv, PtrInv, StartsUnit
<1>7. CASE first = Null
  <2>1. recs' = r /\ pc' = "idle" /\ ptr' = ptr
    BY <1>5, <1>7 DEF undomark
  <2>2. Closed = Len(recs) /\ Closed' = Len(recs')
    BY <1>5, <1>7 DEF Closed
  <2> QED
    BY <1>1, <1>4, <1>5, <1>6, <2>1, <2>2
    DEF UndoInv, OpenUnit, PtrInv, LoopInv, InList, Null
<1>8. CASE first # Null
  <2> DEFINE l == Linked(r)
  <2>1. /\ first \in 1 .. Len(r) /\ last = Len(r) /\ Closed = first - 1
        /\ \A i \in first .. Len(r) : r[i].unit = Null
    BY <1>1, <1>8 DEF UndoInv, OpenUnit, Closed, InList, Null
  <2>2. /\ Units(l, Len(r)) /\ List(l) /\ Len(l) = Len(r)
        /\ \A i \in 1 .. first - 1 : StartsUnit(l, i) <=> StartsUnit(r, i)
    BY <1>1, <1>4, <2>1, LinkedUnits, LinkedList DEF Null
  <2>3. ptr \notin {Null, Anchor} => ptr \in 1 .. Len(r) /\ StartsUnit(l, ptr)
    BY <1>1, <1>6, <2>1, <2>2
  <2>4. CASE recs' = l /\ ptr' = ptr /\ pc' = "idle"
    <3>1. Closed' = Len(recs')
      BY <1>5 DEF Closed
    <3> QED
      BY <1>1, <1>5, <2>2, <2>3, <2>4, <3>1
      DEF UndoInv, OpenUnit, PtrInv, LoopInv, InList, Null
  <2>5. CASE undogc(l)
    <3> DEFINE n == Oldest(l)
               m == Len(l) - n
               d == Dropped(l, n)
    <3>1. l # <<>>
      BY <1>1, <2>1, <2>2
    <3>2. /\ n \in 1 .. Len(l) /\ Units(d, m)
          /\ \A i \in 2 .. Len(l) : StartsUnit(l, i) => i > n /\ StartsUnit(d, i - n)
          /\ n < Len(l) => StartsUnit(d, 1)
      BY <2>2, <3>1, DroppedUnits
    <3>3. n # Freed
      BY <1>1, <2>2, <3>2 DEF Freed
    <3>4. /\ recs' = d /\ pc' = "idle"
          /\ ptr' = IF ptr # 1 THEN Shift(ptr, n) ELSE IF n = Len(l) THEN Anchor ELSE 1
      BY <2>5, <3>3 DEF undogc
    <3>5. Len(recs') = m /\ m \in Nat /\ Closed' = m
      <4>1. Len(d) = m
        BY <2>2, <3>2, DroppedList
      <4>2. m \in Nat
        BY <1>1, <2>2, <3>2
      <4> QED
        BY <1>5, <3>4, <4>1, <4>2 DEF Closed
    <3>6. ptr' \notin {Null, Anchor} => ptr' \in 1 .. m /\ StartsUnit(recs', ptr')
      <4>0. Len(l) \in Nat /\ n \in Nat /\ 1 <= n /\ n <= Len(l)
        BY <1>1, <2>2, <3>2
      <4>1. CASE ptr \in {Null, Anchor}
        BY <3>4, <4>0, <4>1 DEF Shift, Null, Anchor
      <4>2. CASE ptr = 1
        BY <3>2, <3>4, <3>5, <4>0, <4>2
      <4>3. CASE ptr \notin {Null, Anchor} /\ ptr # 1
        <5>1. ptr \in 2 .. Len(l) /\ StartsUnit(l, ptr)
          BY <1>1, <2>2, <2>3, <4>3
        <5>2. ptr > n /\ StartsUnit(d, ptr - n)
          BY <3>2, <5>1
        <5>3. ptr' = ptr - n
          BY <3>4, <4>0, <4>3, <5>1, <5>2 DEF Shift
        <5> QED
          BY <3>4, <4>0, <5>1, <5>2, <5>3
      <4> QED
        BY <4>1, <4>2, <4>3
    <3>7. UndoInv'
      BY <1>5, <3>2, <3>4, <3>5, <3>6
      DEF UndoInv, OpenUnit, PtrInv, LoopInv, InList, Null
    <3> QED
      BY <3>7
  <2> QED
    BY <1>5, <1>8, <2>4, <2>5 DEF undomark
<1> QED
  BY <1>7, <1>8

(* Without redo and without macros the invariant is inductive.             *)
LEMMA UndoInvariant ==
  ASSUME NoRedo
  PROVE  Spec => [](TypeOK /\ UndoInv)
<1>1. Init => UndoInv
  <2>1. Init => Len(recs) = 0 /\ Closed = 0
    BY DEF Init, Closed
  <2> QED
    BY <2>1 DEF Init, UndoInv, Units, OpenUnit, PtrInv, LoopInv, InList, Null
<1>2. TypeOK /\ UndoInv /\ [Next]_vars => UndoInv'
  <2> SUFFICES ASSUME TypeOK, UndoInv, [Next]_vars PROVE UndoInv'
    OBVIOUS
  <2>1. ASSUME NEW k \in Kinds, Begin(k) PROVE UndoInv'
    BY <2>1, BeginKeeps
  <2>2. ASSUME NEW p \in 0 .. MaxText, NEW s \in Chunk, Insert(p, s) PROVE UndoInv'
    BY <2>2, InsertKeeps
  <2>3. ASSUME NEW p \in 0 .. MaxText, NEW n \in 1 .. MaxText, Delete(p, n) PROVE UndoInv'
    BY <2>3, DeleteKeeps
  <2>4. ASSUME NEW own \in BOOLEAN, Save(own) PROVE UndoInv'
    BY <2>4, SaveKeeps
  <2>5. CASE Undo
    BY <2>5, UndoKeeps
  <2>6. CASE Redo
    BY <2>6 DEF Redo, May, NoRedo, TypeOK
  <2>7. CASE unotmod
    BY <2>7, LinksKept DEF unotmod, May, Step, undoVars
  <2>8. CASE UndoRec
    BY <2>8, UndoRecKeeps
  <2>9. CASE RedoRec
    BY <2>9 DEF RedoRec, UndoInv
  <2>10. CASE End
    BY <2>10, EndKeeps
  <2>11. CASE UNCHANGED vars
    BY <2>11 DEF vars, undoVars, loopVars, UndoInv, Units, StartsUnit, EndsUnit,
                 OpenUnit, PtrInv, LoopInv, InList, Closed, Prev
  <2> QED
    BY <2>1, <2>2, <2>3, <2>4, <2>5, <2>6, <2>7, <2>8, <2>9, <2>10, <2>11
    DEF Next, Internal
<1> QED
  BY <1>1, <1>2, TypeCorrect, PTL DEF Spec

(* In a system without redo and without macros, whatever UNDOKEEP is and   *)
(* however many changes a command makes, undo never follows a link out of  *)
(* the list, the units stay whole when the oldest is evicted, and ptr is   *)
(* always at the start of a unit (undo.c, uundo, undomark and undogc).     *)
THEOREM UndoSafe ==
  ASSUME NoRedo
  PROVE  Spec => [](UnitsWellFormed /\ PtrInside)
<1>1. UndoInv => UnitsWellFormed /\ PtrInside
  <2> SUFFICES ASSUME UndoInv PROVE UnitsWellFormed /\ PtrInside
    OBVIOUS
  <2>1. pc = "idle" => Closed = Len(recs)
    BY DEF UndoInv, OpenUnit, Closed
  <2> QED
    BY <2>1 DEF UndoInv, PtrInv, UnitsWellFormed, PtrInside, PtrAtUnit, NeverWild
<1> QED
  BY <1>1, UndoInvariant, PTL

-----------------------------------------------------------------------------
(***************************************************************************)
(* The list of units in a system with redo.  Undo can merge the inverses   *)
(* of a unit into fewer records (undo.c:225), redo then leaves ptr inside  *)
(* a unit, and nothing the proof of UndoSafe knows of ptr is left.  The    *)
(* list itself is sound all the same: it does not depend on ptr.           *)
(***************************************************************************)

(* Macros apart, commands are undos or redos or change the text.           *)
NoMacro == "macro" \notin Kinds

(* While uredo removes the newest unit, whose first record is upto, those  *)
(* before it are whole; otherwise all but the open one are.                *)
ListInv ==
  pc # "wild" =>
    /\ OpenUnit
    /\ kind = "redo" => first = Null
    /\ pc = "undoing" => kind = "undo"
    /\ IF pc = "redoing"
       THEN kind = "redo" /\ upto \in 1 .. Len(recs) /\ Units(recs, upto - 1)
       ELSE Units(recs, Closed)

LEMMA InOrder ==
  ASSUME TypeOK, OpenUnit
  PROVE  /\ Len(recs) \in Nat /\ Closed \in 0 .. Len(recs)
         /\ \A i \in 1 .. Len(recs) : recs[i].unit \in Int
<1>1. Len(recs) \in Nat /\ InList \subseteq Nat
  BY TypeOfList
<1>2. \A i \in 1 .. Len(recs) : recs[i].unit \in InList \cup {Freed}
  BY DEF TypeOK
<1> QED
  BY <1>1, <1>2 DEF Closed, OpenUnit, InList, Null, Freed

(* The list before the first record of its last unit.                      *)
LEMMA WithoutLast ==
  ASSUME NEW r, NEW m \in Nat \ {0}, Units(r, m), \A i \in 1 .. m : r[i].unit \in Int
  PROVE  r[m].unit \in 1 .. m /\ Units(r, r[m].unit - 1)
<1> DEFINE s == r[m].unit
<1>1. s \in 1 .. m /\ m \in 1 .. m
  BY DEF Units, EndsUnit
<1>2. r[s].unit = m
  BY <1>1 DEF Units, Null
<1>3. ASSUME NEW i \in 1 .. s - 1, r[i].unit # Null
      PROVE  r[i].unit \in 1 .. s - 1 /\ r[r[i].unit].unit = i
  <2>1. i \in 1 .. m /\ i < s
    BY <1>1
  <2>2. r[i].unit \in 1 .. m /\ r[r[i].unit].unit = i
    BY <1>3, <2>1 DEF Units
  <2>3. r[i].unit # s
    BY <1>1, <1>2, <2>1, <2>2
  <2>4. ~(s < r[i].unit)
    <3>1. SUFFICES ASSUME s < r[i].unit PROVE FALSE
      OBVIOUS
    <3>2. r[s].unit = Null
      BY <1>1, <2>1, <3>1 DEF Units
    <3> QED
      BY <1>1, <1>2, <3>2 DEF Null
  <2> HIDE DEF s
  <2> QED
    BY <1>1, <2>2, <2>3, <2>4
<1>4. \A i, j \in 1 .. s - 1 : i < j /\ j < r[i].unit => r[j].unit = Null
  BY <1>1 DEF Units
<1>5. \A i \in 1 .. s - 2 : EndsUnit(r, i) <=> StartsUnit(r, i + 1)
  <2>1. 1 .. s - 2 \subseteq 1 .. m - 1
    BY <1>1
  <2> HIDE DEF s
  <2> QED
    BY <2>1 DEF Units
<1>6. s - 1 > 0 => StartsUnit(r, 1) /\ EndsUnit(r, s - 1)
  <2>1. SUFFICES ASSUME s - 1 > 0 PROVE StartsUnit(r, 1) /\ EndsUnit(r, s - 1)
    OBVIOUS
  <2>2. s - 1 \in 1 .. m - 1 /\ (s - 1) + 1 = s
    BY <1>1, <2>1
  <2>3. StartsUnit(r, s)
    BY <1>1, <1>2 DEF StartsUnit
  <2>4. EndsUnit(r, s - 1) <=> StartsUnit(r, (s - 1) + 1)
    BY <2>2 DEF Units
  <2>5. EndsUnit(r, s - 1)
    BY <2>2, <2>3, <2>4
  <2> QED
    BY <2>5 DEF Units
<1>7. (s - 1) - 1 = s - 2
  BY <1>1
<1> HIDE DEF s
<1>8. Units(r, s - 1)
  BY <1>3, <1>4, <1>5, <1>6, <1>7 DEF Units
<1> QED
  BY <1>1, <1>8 DEF s

(* A step that leaves the links and the open unit alone.                   *)
LEMMA ListKept ==
  ASSUME TypeOK, ListInv, pc \in {"idle", "run"}, Len(recs') = Len(recs),
         \A i \in 1 .. Len(recs) : recs'[i].unit = recs[i].unit,
         UNCHANGED <<first, last>>, pc' \in {"idle", "run", "failed"},
         pc' = "idle" => pc = "idle",
         kind' = "redo" => kind = "redo" \/ first = Null
  PROVE  ListInv'
<1>1. OpenUnit /\ Units(recs, Closed) /\ (kind = "redo" => first = Null)
  BY DEF ListInv
<1>2. Len(recs) \in Nat /\ Closed \in 0 .. Len(recs) /\ Closed' = Closed
  BY <1>1, InOrder DEF Closed
<1>3. \A i \in 1 .. Closed : recs[i].unit \in Int
  BY <1>1, <1>2, InOrder
<1>4. Units(recs', Closed)
  BY <1>1, <1>2, <1>3, UnitsSame
<1>5. OpenUnit'
  BY <1>1, <1>2 DEF OpenUnit, InList
<1> QED
  BY <1>1, <1>2, <1>4, <1>5 DEF ListInv

LEMMA BeginList == ASSUME TypeOK, ListInv, NEW k \in Kinds, Begin(k) PROVE ListInv'
<1>1. Len(recs') = Len(recs) /\ \A i \in 1 .. Len(recs) : recs'[i].unit = recs[i].unit
  <2>1. CASE recs' = recs
    BY <2>1
  <2>2. CASE recs' = Cleared(recs)
    BY <2>2, ClearedList, TypeOfList, ClearedLinks
  <2> QED
    BY <2>1, <2>2 DEF Begin
<1>2. pc = "idle" /\ pc' = "run" /\ first = Null /\ UNCHANGED <<first, last>>
  BY DEF Begin, ListInv, OpenUnit
<1> QED
  BY <1>1, <1>2, ListKept

(* A change, by the user or by undo, touches the open unit only.           *)
LEMMA RecordedInList ==
  ASSUME TypeOK, ListInv, pc \in {"run", "undoing"}, pc' \in {"run", "undoing"},
         kind' = kind, kind # "redo", pc' = "undoing" => kind = "undo", Grown \/ Enqueued
  PROVE  ListInv'
<1>1. OpenUnit /\ Units(recs, Closed)
  BY DEF ListInv
<1>2. Closed' = Closed /\ Units(recs', Closed') /\ OpenUnit'
  BY <1>1, RecordedUnits
<1> QED
  BY <1>2 DEF ListInv

LEMMA UndoList == ASSUME NoMacro, TypeOK, ListInv, Undo PROVE ListInv'
<1>1. kind = "undo" /\ kind' = "undo" /\ pc = "run" /\ UNCHANGED <<recs, first, last>>
  BY DEF Undo, May, Step, NoMacro, TypeOK
<1>2. pc' \in {"failed", "undoing", "wild"}
  BY DEF Undo, Step
<1>3. OpenUnit /\ Units(recs, Closed)
  BY <1>1 DEF ListInv
<1>4. Closed' = Closed /\ OpenUnit' /\ Units(recs', Closed')
  BY <1>1, <1>2, <1>3 DEF OpenUnit, Closed, InList
<1> QED
  BY <1>1, <1>2, <1>4 DEF ListInv

LEMMA UndoRecList == ASSUME TypeOK, ListInv, UndoRec PROVE ListInv'
<1> DEFINE p == Prev(ptr)
<1>1. pc = "undoing" /\ kind = "undo" /\ kind' = kind
  BY DEF UndoRec, ListInv
<1>2. CASE p \in {Anchor, Freed}
  BY <1>1, <1>2 DEF UndoRec, ListInv
<1>3. CASE p \notin {Anchor, Freed}
  <2>1. InverseOf(recs[p]) /\ pc' \in {"run", "undoing"}
    BY <1>1, <1>3 DEF UndoRec
  <2>2. Grown \/ Enqueued
    <3>1. CASE UNCHANGED <<recs, first, last>>
      BY <3>1 DEF Grown
    <3> QED
      BY <2>1, <3>1, RecordedLinks DEF InverseOf
  <2> QED
    BY <1>1, <2>1, <2>2, RecordedInList
<1> QED
  BY <1>2, <1>3

(* uredo starts at the last record of a whole unit.                        *)
LEMMA RedoList == ASSUME NoMacro, TypeOK, ListInv, Redo PROVE ListInv'
<1>1. /\ kind = "redo" /\ kind' = "redo" /\ pc = "run" /\ first = Null
      /\ UNCHANGED <<recs, ptr, first, last>>
  BY DEF Redo, May, Step, NoMacro, TypeOK, undoVars, ListInv
<1>2. OpenUnit /\ Units(recs, Len(recs)) /\ Closed = Len(recs)
  BY <1>1 DEF ListInv, Closed
<1>3. OpenUnit' \/ pc' = "wild"
  BY <1>1, <1>2 DEF Redo, Step, OpenUnit, Closed, InList
<1>4. CASE pc' = "redoing"
  <2>1. recs # <<>> /\ upto' = Newest.unit
    BY <1>4 DEF Redo, Step
  <2>2. Len(recs) \in Nat \ {0}
    BY <2>1, TypeOfList DEF TypeOK
  <2>3. upto' \in 1 .. Len(recs) /\ Units(recs, upto' - 1)
    BY <1>2, <2>1, <2>2, InOrder, WithoutLast DEF Newest
  <2> QED
    BY <1>1, <1>3, <1>4, <2>3 DEF ListInv
<1>5. CASE pc' # "redoing"
  <2>1. pc' \in {"failed", "wild"}
    BY <1>5 DEF Redo, Step
  <2> QED
    BY <1>1, <1>2, <1>3, <2>1 DEF ListInv, Closed
<1> QED
  BY <1>4, <1>5

(* It takes away the newest records down to the first one of that unit.    *)
LEMMA RedoRecList == ASSUME TypeOK, ListInv, RedoRec PROVE ListInv'
<1>1. /\ pc = "redoing" /\ kind = "redo" /\ kind' = "redo" /\ first = Null /\ last = Null
      /\ upto \in 1 .. Len(recs) /\ Units(recs, upto - 1)
      /\ Len(recs) \in Nat /\ \A i \in 1 .. Len(recs) : recs[i].unit \in Int
  BY InOrder DEF RedoRec, ListInv, OpenUnit
<1>2. /\ recs # <<>> /\ recs' = Popped /\ first' = Null /\ last' = Null
      /\ IF upto # Len(recs) THEN pc' = "redoing" /\ upto' = upto ELSE pc' = "run"
  <2>1. recs # <<>> /\ upto # Null /\ Len(recs) # Null
    BY <1>1 DEF Null
  <2> QED
    BY <1>1, <2>1 DEF RedoRec, Unlinked, MoreThan
<1>3. Len(recs') = Len(recs) - 1
  BY <1>2, PoppedList, TypeOfList
<1>4. \A i \in 1 .. upto - 1 : recs'[i].unit = recs[i].unit
  <2> TAKE i \in 1 .. upto - 1
  <2>1. i \in 1 .. Len(recs) - 1 /\ i \in 1 .. Len(recs) /\ recs[i] \in Record
    BY <1>1 DEF TypeOK
  <2>2. recs'[i] = [recs[i] EXCEPT !.unit = Unlinked(recs[i].unit)]
    BY <1>2, <2>1 DEF Popped
  <2>3. recs[i].unit # Len(recs)
    <3>1. CASE recs[i].unit = Null
      BY <1>1, <3>1 DEF Null
    <3>2. CASE recs[i].unit # Null
      <4>1. recs[i].unit \in 1 .. upto - 1
        BY <1>1, <3>2 DEF Units
      <4> QED
        BY <1>1, <4>1
    <3> QED
      BY <3>1, <3>2
  <2> QED
    BY <2>1, <2>2, <2>3 DEF Unlinked, Record
<1>5. Units(recs', upto - 1)
  <2>1. upto - 1 \in Nat /\ \A i \in 1 .. upto - 1 : recs[i].unit \in Int
    BY <1>1
  <2> QED
    BY <1>1, <1>4, <2>1, UnitsSame
<1>6. Closed' = Len(recs') /\ OpenUnit'
  BY <1>1, <1>2, <1>3 DEF Closed, OpenUnit, InList, Null
<1>7. CASE upto # Len(recs)
  BY <1>1, <1>2, <1>3, <1>5, <1>6, <1>7 DEF ListInv
<1>8. CASE upto = Len(recs)
  BY <1>1, <1>2, <1>3, <1>5, <1>6, <1>8 DEF ListInv
<1> QED
  BY <1>7, <1>8

LEMMA SaveList == ASSUME TypeOK, ListInv, NEW own \in BOOLEAN, Save(own) PROVE ListInv'
<1> DEFINE f == [i \in 1 .. Len(recs) |->
                   IF NewestUnmodified(i) THEN [recs[i] EXCEPT !.changed = TRUE]
                                          ELSE recs[i]]
<1>1. Len(recs) \in Nat /\ \A i \in 1 .. Len(recs) : recs[i] \in Record
  BY TypeOfList DEF TypeOK
<1>2. \A i \in 1 .. Len(recs) : f[i] \in Record /\ f[i].unit = recs[i].unit
  BY <1>1 DEF Record
<1>3. f \in [1 .. Len(recs) -> Record] /\ recs' = f
  BY <1>2 DEF Save
<1>4. Len(recs') = Len(recs)
  BY <1>1, <1>3, FunctionIsSeq
<1>5. \A i \in 1 .. Len(recs) : recs'[i].unit = recs[i].unit
  BY <1>2, <1>3
<1>6. pc = "run" /\ pc' = "run" /\ kind' = kind /\ UNCHANGED <<first, last>>
  BY DEF Save, May, Step
<1> QED
  BY <1>4, <1>5, <1>6, ListKept

(* The open unit is linked, and the oldest one may go.                     *)
LEMMA EndList == ASSUME TypeOK, ListInv, End PROVE ListInv'
<1> DEFINE r == IF kind = "minor" THEN recs ELSE Cleared(recs)
<1>1. OpenUnit /\ Units(recs, Closed)
  BY DEF End, ListInv
<1>2. /\ List(r) /\ Len(r) = Len(recs) /\ Len(recs) \in Nat
      /\ \A i \in 1 .. Len(recs) : r[i].unit = recs[i].unit
  BY ClearedList, ClearedLinks, TypeOfList
<1>3. Closed \in 0 .. Len(recs) /\ \A i \in 1 .. Closed : recs[i].unit \in Int
  BY <1>1, InOrder
<1>4. Units(r, Closed)
  BY <1>1, <1>2, <1>3, UnitsSame
<1>5. /\ undomark(r) /\ first' = Null /\ last' = Null /\ kind' = "none"
      /\ Closed' = Len(recs') /\ \A m \in Nat : Len(recs') = m => OpenUnit'
  BY DEF End, Closed, OpenUnit, InList, Null
<1>6. CASE first = Null
  <2>1. recs' = r /\ pc' = "idle" /\ Closed = Len(recs)
    BY <1>5, <1>6 DEF undomark, Closed
  <2> QED
    BY <1>2, <1>4, <1>5, <2>1 DEF ListInv
<1>7. CASE first # Null
  <2> DEFINE l == Linked(r)
  <2>1. /\ first \in 1 .. Len(r) /\ last = Len(r) /\ Closed = first - 1
        /\ \A i \in first .. Len(r) : r[i].unit = Null
    BY <1>1, <1>2, <1>7 DEF OpenUnit, Closed, InList, Null
  <2>2. Units(l, Len(r)) /\ List(l) /\ Len(l) = Len(r)
    BY <1>2, <1>4, <2>1, LinkedUnits, LinkedList DEF Null
  <2>3. CASE recs' = l /\ pc' = "idle"
    BY <1>2, <1>5, <2>2, <2>3 DEF ListInv
  <2>4. CASE undogc(l)
    <3> DEFINE n == Oldest(l)
               d == Dropped(l, n)
    <3>1. l # <<>>
      BY <1>2, <2>1, <2>2
    <3>2. n \in 1 .. Len(l) /\ Units(d, Len(l) - n)
      BY <2>2, <3>1, DroppedUnits
    <3>3. Len(d) = Len(l) - n /\ Len(l) - n \in Nat /\ n # Freed
      BY <1>2, <2>2, <3>2, DroppedList DEF Freed
    <3>4. recs' = d /\ pc' = "idle"
      BY <2>4, <3>3 DEF undogc
    <3> QED
      BY <1>5, <3>2, <3>3, <3>4 DEF ListInv
  <2> QED
    BY <1>5, <1>7, <2>3, <2>4 DEF undomark
<1> QED
  BY <1>6, <1>7

(* The loops of uundo and uredo know where a unit ends by the links of its *)
(* first and last record.  Whatever is edited, undone and redone, however  *)
(* records have merged and whatever is evicted: between commands the list  *)
(* consists of whole units.  (A macro that undoes what it has changed      *)
(* itself breaks it: uredo then removes records of the open unit.)         *)
THEOREM UnitsWhole ==
  ASSUME NoMacro
  PROVE  Spec => []UnitsWellFormed
<1>1. Init => ListInv
  <2>1. Init => Len(recs) = 0 /\ Closed = 0
    BY DEF Init, Closed
  <2> QED
    BY <2>1 DEF Init, ListInv, Units, OpenUnit, InList, Null
<1>2. TypeOK /\ ListInv /\ [Next]_vars => ListInv'
  <2> SUFFICES ASSUME TypeOK, ListInv, [Next]_vars PROVE ListInv'
    OBVIOUS
  <2>1. ASSUME NEW k \in Kinds, Begin(k) PROVE ListInv'
    BY <2>1, BeginList
  <2>2. ASSUME NEW p \in 0 .. MaxText, NEW s \in Chunk, Insert(p, s) PROVE ListInv'
    <3>1. pc = "run" /\ pc' = "run" /\ kind' = kind /\ kind # "redo" /\ undoins(p, Len(s))
      BY <2>2 DEF Insert, May, Step
    <3> QED
      BY <3>1, RecordedLinks, RecordedInList
  <2>3. ASSUME NEW p \in 0 .. MaxText, NEW n \in 1 .. MaxText, Delete(p, n) PROVE ListInv'
    <3>1. pc = "run" /\ pc' = "run" /\ kind' = kind /\ kind # "redo" /\ undodel(p, Bytes(p, n))
      BY <2>3 DEF Delete, May, Step
    <3> QED
      BY <3>1, RecordedLinks, RecordedInList
  <2>4. ASSUME NEW own \in BOOLEAN, Save(own) PROVE ListInv'
    BY <2>4, SaveList
  <2>5. CASE Undo \/ Redo
    BY <2>5, UndoList, RedoList
  <2>6. CASE unotmod
    BY <2>6, ListKept DEF unotmod, May, Step, undoVars
  <2>7. CASE UndoRec \/ RedoRec \/ End
    BY <2>7, UndoRecList, RedoRecList, EndList
  <2>8. CASE UNCHANGED vars
    BY <2>8 DEF vars, undoVars, loopVars, ListInv, Units, StartsUnit, EndsUnit, OpenUnit,
                InList, Closed
  <2> QED
    BY <2>1, <2>2, <2>3, <2>4, <2>5, <2>6, <2>7, <2>8 DEF Next, Internal
<1>3. ListInv => UnitsWellFormed
  BY DEF ListInv, OpenUnit, Closed, UnitsWellFormed
<1> QED
  BY <1>1, <1>2, <1>3, TypeCorrect, PTL DEF Spec
=============================================================================
