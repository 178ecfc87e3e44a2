----------------------------- MODULE MpxProofs -----------------------------
(***************************************************************************)
(* Theorems about the input multiplexer, for every set of buffers, number  *)
(* of slots, size of packets and of the output buffer, and every bound.    *)
(***************************************************************************)
EXTENDS Mpx, SequenceTheorems, FiniteSetTheorems, TLAPS

(***************************************************************************)
(* The pipe.                                                               *)
(***************************************************************************)

(* A packet that is sent comes behind those in the pipe.                   *)
LEMMA Sent ==
  ASSUME pipe \in Seq(Packet), NEW k \in Packet, pipe' = Append(pipe, k)
  PROVE  /\ pipe' \in Seq(Packet) /\ Len(pipe') = Len(pipe) + 1
         /\ \A t \in Tasks : From(pipe', t) <=> From(pipe, t) \/ t = k.who
         /\ \A t \in Tasks : Single(pipe, t) /\ (t = k.who => ~From(pipe, t)) => Single(pipe', t)
         /\ \A i \in 1 .. Len(pipe') : (i \in 1 .. Len(pipe) /\ pipe'[i] = pipe[i]) \/ pipe'[i] = k
<1>1. pipe' \in Seq(Packet) /\ Len(pipe') = Len(pipe) + 1 /\ Len(pipe) \in Nat
  OBVIOUS
<1>2. \A i \in 1 .. Len(pipe) : pipe'[i] = pipe[i]
  OBVIOUS
<1>3. pipe'[Len(pipe) + 1] = k
  OBVIOUS
<1>4. \A i \in 1 .. Len(pipe') : i \in 1 .. Len(pipe) \/ i = Len(pipe) + 1
  BY <1>1
<1>5. \A t \in Tasks : From(pipe', t) <=> From(pipe, t) \/ t = k.who
  BY <1>1, <1>2, <1>3, <1>4 DEF From
<1>6. \A t \in Tasks : Single(pipe, t) /\ (t = k.who => ~From(pipe, t)) => Single(pipe', t)
  BY <1>1, <1>2, <1>3, <1>4 DEF From, Single
<1> QED
  BY <1>1, <1>2, <1>3, <1>4, <1>5, <1>6

(* Without the packet at its head a pipe holds the other ones.             *)
LEMMA Taken ==
  ASSUME pipe \in Seq(Packet), pipe # <<>>, pipe' = Tail(pipe)
  PROVE  /\ pipe' \in Seq(Packet) /\ Head(pipe) = pipe[1] /\ 1 \in 1 .. Len(pipe) /\ Head(pipe) \in Packet
         /\ From(pipe, Head(pipe).who)
         /\ \A t \in Tasks : t # Head(pipe).who => (From(pipe', t) <=> From(pipe, t))
         /\ \A t \in Tasks : From(pipe', t) => From(pipe, t)
         /\ Single(pipe, Head(pipe).who) => ~From(pipe', Head(pipe).who)
         /\ \A t \in Tasks : Single(pipe, t) => Single(pipe', t)
         /\ \A i \in 1 .. Len(pipe') : i + 1 \in 1 .. Len(pipe) /\ pipe'[i] = pipe[i + 1]
<1>1. pipe' \in Seq(Packet) /\ Len(pipe') = Len(pipe) - 1 /\ Len(pipe) \in Nat \ {0}
  OBVIOUS
<1>2. \A i \in 1 .. Len(pipe') : i + 1 \in 1 .. Len(pipe) /\ pipe'[i] = pipe[i + 1]
  BY <1>1
<1>3. Head(pipe) = pipe[1] /\ 1 \in 1 .. Len(pipe) /\ Head(pipe) \in Packet
  BY <1>1
<1>4. \A j \in 1 .. Len(pipe) : j = 1 \/ (j - 1 \in 1 .. Len(pipe') /\ pipe'[j - 1] = pipe[j])
  BY <1>1
<1>5. From(pipe, Head(pipe).who)
  BY <1>3 DEF From
<1>6. \A t \in Tasks : From(pipe', t) => From(pipe, t)
  BY <1>2 DEF From
<1>7. \A t \in Tasks : t # Head(pipe).who => (From(pipe', t) <=> From(pipe, t))
  BY <1>2, <1>3, <1>4 DEF From
<1>8. Single(pipe, Head(pipe).who) => ~From(pipe', Head(pipe).who)
  BY <1>1, <1>2, <1>3 DEF From, Single
<1>9. \A t \in Tasks : Single(pipe, t) => Single(pipe', t)
  BY <1>1, <1>2 DEF Single
<1> QED
  BY <1>1, <1>2, <1>3, <1>5, <1>6, <1>7, <1>8, <1>9

LEMMA TaskFacts ==
  /\ Kbd \in Tasks /\ Kbd \notin Slots /\ Slots \subseteq Tasks
  /\ \A t \in Tasks : t # Kbd => t \in Slots
  /\ \A c \in Nat : c # NO_MORE_DATA
  BY DEF Kbd, Slots, Tasks, NO_MORE_DATA

(* Who has sent the packets.                                               *)
LEMMA Senders ==
  ASSUME TypeOK
  PROVE  /\ pack.who \in Tasks /\ (pack.who # Kbd => pack.who \in Slots)
         /\ \A i \in 1 .. Len(pipe) :
              pipe[i].who \in Tasks /\ (pipe[i].who # Kbd => pipe[i].who \in Slots)
<1>1. \A i \in 1 .. Len(pipe) : pipe[i] \in Packet
  BY DEF TypeOK
<1>2. \A p \in Packet : p.who \in Tasks
  BY DEF Packet
<1>3. pack.who \in Tasks
  BY DEF TypeOK, Header
<1> QED
  BY <1>1, <1>2, <1>3, TaskFacts

LEMMA EmptyPipe ==
  \A t \in Tasks : ~From(<<>>, t) /\ Single(<<>>, t)
  BY DEF From, Single

(* What a copier sends is output of its program.                           *)
LEMMA OutputType ==
  ASSUME NEW b \in Bufs, NEW i \in Nat, NEW j \in Nat, i <= j
  PROVE  /\ Output(b, i, j) \in Seq(Item)
         /\ \A k \in 1 .. Len(Output(b, i, j)) : Output(b, i, j)[k].buf = b
<1> DEFINE o == Output(b, i, j)
<1>1. o \in [1 .. j - i -> Item]
  BY DEF Output, Item
<1>2. j - i \in Nat
  OBVIOUS
<1>3. o \in Seq(Item) /\ Len(o) = j - i
  BY <1>1, <1>2, SeqDef
<1> QED
  BY <1>3 DEF Output

(* What is read into the packet of the editor.                             *)
LEMMA ReadType ==
  ASSUME TypeOK, pack.size <= Len(data), pipe # <<>>, Read(Head(pipe))
  PROVE  /\ Head(pipe) \in Packet
         /\ pack' \in Header /\ data' \in Seq(Item) /\ Len(data) <= Len(data')
         /\ pack'.size <= Len(data')
         /\ tty_accept' = Head(pipe).ch /\ pack'.who = Head(pipe).who
         /\ pack'.ch = Head(pipe).ch
<1> DEFINE p == Head(pipe)
<1>1. p \in Packet
  BY DEF TypeOK
<1>2. p.data \in Seq(Item) /\ data \in Seq(Item) /\ Len(p.data) \in Nat /\ Len(data) \in Nat
  BY <1>1 DEF TypeOK, Packet
<1> DEFINE rest == SubSeq(data, Len(p.data) + 1, Len(data))
<1>3. rest \in Seq(Item)
        /\ Len(rest) = IF Len(p.data) + 1 <= Len(data) THEN Len(data) - Len(p.data) ELSE 0
  <2> DEFINE m == Len(p.data) + 1
             n == Len(data)
  <2>1. m \in Int /\ n \in Int /\ \A i \in m .. n : data[i] \in Item
    BY <1>2
  <2>2. n - m + 1 = Len(data) - Len(p.data)
    BY <1>2
  <2> HIDE DEF m, n
  <2>3. SubSeq(data, m, n) \in Seq(Item)
          /\ Len(SubSeq(data, m, n)) = IF m <= n THEN n - m + 1 ELSE 0
    BY <2>1, SubSeqProperties
  <2> QED
    BY <2>2, <2>3 DEF m, n
<1>4. data' \in Seq(Item) /\ Len(data') = Len(p.data) + Len(rest)
  <2>1. data' = p.data \o rest
    BY DEF Read
  <2> HIDE DEF rest
  <2> QED
    BY <1>2, <1>3, <2>1, ConcatProperties
<1>5. pack' \in Header /\ pack'.size = Len(p.data) /\ pack'.who = p.who /\ pack'.ch = p.ch
  BY <1>1, <1>2 DEF Read, Header, Packet
<1>6. Len(data') \in Nat /\ Len(data) <= Len(data') /\ Len(p.data) <= Len(data')
  <2> DEFINE a == Len(p.data)
             b == Len(data)
             c == Len(rest)
  <2>1. a \in Nat /\ b \in Nat /\ c = (IF a + 1 <= b THEN b - a ELSE 0)
    BY <1>2, <1>3
  <2>2. Len(data') = a + c
    BY <1>4
  <2> HIDE DEF a, b, c
  <2>3. a + c \in Nat /\ b <= a + c /\ a <= a + c
    BY <2>1
  <2> QED
    BY <2>2, <2>3 DEF a, b
<1>7. tty_accept' = p.ch
  BY DEF Read
<1> HIDE DEF rest, p
<1>8. p = Head(pipe)
  BY DEF p
<1> QED
  BY <1>1, <1>4, <1>5, <1>6, <1>7, <1>8

(***************************************************************************)
(* Slots and children.                                                     *)
(***************************************************************************)

LEMMA Counted ==
  ASSUME TypeOK
  PROVE  /\ IsFiniteSet(Occupied) /\ Cardinality(Occupied) \in Nat
         /\ IsFiniteSet(Ended) /\ Cardinality(Ended) \in Nat
<1>1. IsFiniteSet(Slots)
  BY FS_Interval, SlotAssumption DEF Slots
<1>2. IsFiniteSet(Occupied) /\ IsFiniteSet(Ended)
  BY <1>1, FS_Subset DEF Occupied, Ended
<1> QED
  BY <1>2, FS_CardinalityType

(* While a copier runs the multiplexer is on.                              *)
LEMMA CopierNeedsMpx ==
  ASSUME TypeOK, MpxInv, NEW m \in Slots, copier[m] # "none"
  PROVE  ackkbd /\ func[m] \in Bufs
<1>1. m \in Occupied /\ func[m] \in Bufs
  BY DEF MpxInv, SlotsInv, Occupied, TypeOK
<1>2. SUFFICES ASSUME ~ackkbd PROVE FALSE
  BY <1>1
<1>3. nmpx = 0
  <2>1. ~(nmpx > 0)
    BY <1>2, Zenon DEF MpxInv, ModeConsistent
  <2> QED
    BY <2>1 DEF TypeOK
<1>4. CASE at = "reap"
  <2>1. pack.who \in Occupied /\ pack.who # m
    BY <1>4 DEF MpxInv, LastPacket, LastTaken, Occupied, TypeOK, Header, Tasks
  <2>2. Cardinality(Occupied \ {m}) = Cardinality(Occupied) - 1 /\ IsFiniteSet(Occupied \ {m})
    BY <1>1, Counted, FS_RemoveElement
  <2>3. Cardinality(Occupied) = 1
    BY <1>3, <1>4, Counted DEF MpxInv, ModeConsistent
  <2> QED
    BY <2>1, <2>2, <2>3, FS_EmptySet
<1>5. CASE at # "reap"
  BY <1>1, <1>3, <1>5, Counted, FS_EmptySet DEF MpxInv, ModeConsistent
<1> QED
  BY <1>4, <1>5

(***************************************************************************)
(* The inductive invariant.  Parts of it that a step leaves alone.         *)
(***************************************************************************)

IndInv == TypeOK /\ MpxInv

LEMMA KeepCredit ==
  ASSUME CopierCredit, UNCHANGED <<copier, acks, pipe, pack, tty_accept>>
  PROVE  CopierCredit'
  BY DEF CopierCredit, Token, Held

LEMMA KeepKbd ==
  ASSUME KbdCredit, UNCHANGED <<kbd, acks, pipe, pack, tty_accept, ackkbd>>
  PROVE  KbdCredit'
  BY DEF KbdCredit, Token, Held

LEMMA KeepOwned ==
  ASSUME PacketsOwned, UNCHANGED <<pipe, func>>
  PROVE  PacketsOwned'
  BY DEF PacketsOwned

LEMMA KeepMode ==
  ASSUME ModeConsistent, UNCHANGED <<ackkbd, nmpx, func>>,
         kbd' = "off" <=> kbd = "off", at' = "reap" <=> at = "reap"
  PROVE  ModeConsistent'
  BY DEF ModeConsistent, Occupied

LEMMA KeepControl ==
  ASSUME Control,
         UNCHANGED <<pack, data, ackkbd, tty_accept, pipe, have, at, then, steps, obj,
                     prog, func>>
  PROVE  Control'
  BY DEF Control, Inside, Held, FreeSlots

LEMMA KeepSlots ==
  ASSUME SlotsInv, UNCHANGED <<copier, func, prog, tty_accept, pack, pipe>>
  PROVE  SlotsInv'
  BY DEF SlotsInv, Held

LEMMA KeepLast ==
  ASSUME LastPacket, UNCHANGED <<pipe, pack, copier, func>>, LastTaken' => LastTaken
  PROVE  LastPacket'
  BY DEF LastPacket

LEMMA KeepChildren ==
  ASSUME Children, UNCHANGED <<func, copier>>, exiting' + zombies' = exiting + zombies
  PROVE  Children'
  BY DEF Children, Ended, Occupied

(***************************************************************************)
(* The user, the keyboard task, the programs and their copiers.            *)
(***************************************************************************)

LEMMA TypeStep == ASSUME IndInv, Type PROVE IndInv'
<1> USE DEF Type, kbdVars, progVars, copyVars, kidVars, edVars, packVars, modeVars,
            callVars
<1>1. TypeOK'
  BY DEF IndInv, TypeOK
<1>2. MpxInv'
  BY KeepCredit, KeepKbd, KeepOwned, KeepMode, KeepControl, KeepSlots, KeepLast,
     KeepChildren DEF IndInv, MpxInv, LastTaken
<1> QED
  BY <1>1, <1>2 DEF IndInv

LEMMA KbdReadStep == ASSUME IndInv, KbdRead PROVE IndInv'
<1> USE DEF KbdRead, progVars, copyVars, kidVars, edVars, packVars, modeVars, callVars
<1>1. TypeOK'
  BY DEF IndInv, TypeOK
<1>2. KbdCredit'
  BY DEF IndInv, MpxInv, KbdCredit, Token, Held
<1>3. MpxInv'
  BY <1>2, KeepCredit, KeepOwned, KeepMode, KeepControl, KeepSlots, KeepLast,
     KeepChildren DEF IndInv, MpxInv, LastTaken
<1> QED
  BY <1>1, <1>3 DEF IndInv

LEMMA KbdWriteStep == ASSUME IndInv, KbdWrite PROVE IndInv'
<1> DEFINE k == [who |-> Kbd, ch |-> key, data |-> <<>>]
<1> USE DEF KbdWrite, termVars, progVars, copyVars, kidVars, edVars, packVars, modeVars,
            callVars
<1>1. k \in Packet /\ k.who = Kbd /\ k.ch # NO_MORE_DATA /\ pipe \in Seq(Packet)
  BY DEF Packet, Tasks, Kbd, NO_MORE_DATA, IndInv, TypeOK
<1>2. pipe' = Append(pipe, k)
  BY DEF Send
<1>3. ackkbd /\ ~From(pipe, Kbd) /\ ~Held(Kbd) /\ Single(pipe, Kbd) /\ acks[Kbd] = 0
  BY DEF IndInv, MpxInv, ModeConsistent, KbdCredit, Token
<1>4. /\ pipe' \in Seq(Packet) /\ Len(pipe') = Len(pipe) + 1
      /\ \A t \in Tasks : From(pipe', t) <=> From(pipe, t) \/ t = Kbd
      /\ \A t \in Tasks : Single(pipe, t) => Single(pipe', t)
      /\ \A i \in 1 .. Len(pipe') :
           (i \in 1 .. Len(pipe) /\ pipe'[i] = pipe[i]) \/ pipe'[i] = k
  <2> HIDE DEF k
  <2> QED
    BY <1>1, <1>2, <1>3, Sent
<1>5. Kbd \in Tasks /\ Kbd \notin Slots /\ Slots \subseteq Tasks /\ pack.who \in Tasks
  BY TaskFacts DEF IndInv, TypeOK, Header
<1>6. TypeOK'
  BY <1>4 DEF IndInv, TypeOK
<1>7. CopierCredit'
  BY <1>4, <1>5 DEF IndInv, MpxInv, CopierCredit, Token, Held
<1>8. KbdCredit'
  BY <1>3, <1>4, <1>5 DEF KbdCredit, Token, Held
<1>9. PacketsOwned'
  BY <1>1, <1>4 DEF IndInv, MpxInv, PacketsOwned
<1>10. Control'
  BY <1>3 DEF IndInv, MpxInv, Control, Inside, Held, FreeSlots
<1>11. SlotsInv'
  BY <1>4, <1>5 DEF IndInv, MpxInv, SlotsInv, Held
<1>12. LastPacket'
  BY <1>1, <1>4, <1>5 DEF IndInv, MpxInv, LastPacket, LastTaken
<1> QED
  BY <1>6, <1>7, <1>8, <1>9, <1>10, <1>11, <1>12, KeepMode, KeepChildren
     DEF IndInv, MpxInv

LEMMA KbdAckStep == ASSUME IndInv, KbdAck PROVE IndInv'
<1> USE DEF KbdAck, termVars, progVars, copyVars, kidVars, edVars, packVars, modeVars,
            callVars
<1>1. Kbd \in Tasks /\ Kbd \notin Slots /\ Slots \subseteq Tasks
  BY TaskFacts
<1>2. acks[Kbd] = 1 /\ ~From(pipe, Kbd) /\ ~Held(Kbd) /\ Single(pipe, Kbd)
  BY DEF IndInv, MpxInv, KbdCredit, Token
<1>3. TypeOK'
  BY <1>1 DEF IndInv, TypeOK
<1>4. CopierCredit'
  BY <1>1 DEF IndInv, MpxInv, TypeOK, CopierCredit, Token, Held
<1>5. KbdCredit'
  BY <1>1, <1>2 DEF IndInv, TypeOK, KbdCredit, Token, Held
<1> QED
  BY <1>3, <1>4, <1>5, KeepOwned, KeepMode, KeepControl, KeepSlots, KeepLast,
     KeepChildren DEF IndInv, MpxInv, LastTaken

LEMMA ProgWriteStep == ASSUME IndInv, NEW b \in Bufs, ProgWrite(b) PROVE IndInv'
<1> USE DEF ProgWrite, termVars, kbdVars, copyVars, kidVars, edVars, packVars, modeVars,
            callVars
<1>1. TypeOK'
  BY DEF IndInv, TypeOK
<1> QED
  BY <1>1, KeepCredit, KeepKbd, KeepOwned, KeepMode, KeepControl, KeepSlots, KeepLast,
     KeepChildren DEF IndInv, MpxInv, LastTaken

LEMMA ProgExitStep == ASSUME IndInv, NEW b \in Bufs, ProgExit(b) PROVE IndInv'
<1> USE DEF ProgExit, termVars, kbdVars, copyVars, kidVars, edVars, packVars, modeVars,
            callVars
<1>1. TypeOK'
  BY DEF IndInv, TypeOK
<1>2. Control'
  BY DEF IndInv, MpxInv, TypeOK, Control, Inside, Held, FreeSlots
<1>3. SlotsInv'
  BY DEF IndInv, MpxInv, TypeOK, SlotsInv, Held
<1> QED
  BY <1>1, <1>2, <1>3, KeepCredit, KeepKbd, KeepOwned, KeepMode, KeepLast, KeepChildren
     DEF IndInv, MpxInv, LastTaken

LEMMA CopierReadStep == ASSUME IndInv, NEW m \in Slots, CopierRead(m) PROVE IndInv'
<1> USE DEF termVars, kbdVars, progVars, kidVars, edVars, packVars, modeVars, callVars
<1>1. PICK n \in copied[func[m]] + 1 .. written[func[m]] :
        /\ Send(m, 0, Output(func[m], copied[func[m]], n))
        /\ copied' = [copied EXCEPT ![func[m]] = n]
  BY DEF CopierRead
<1>2. /\ copier[m] = "read" /\ copier' = [copier EXCEPT ![m] = "wait"]
      /\ UNCHANGED <<termVars, kbdVars, progVars, acks, kidVars, edVars>>
  BY DEF CopierRead
<1>3. /\ ackkbd /\ func[m] \in Bufs /\ ~From(pipe, m) /\ ~Held(m) /\ Single(pipe, m)
      /\ acks[m] = 0
  BY <1>2, CopierNeedsMpx DEF IndInv, MpxInv, CopierCredit, Token
<1>4. /\ n \in Nat /\ copied[func[m]] \in Nat /\ copied[func[m]] <= n
      /\ m \in Tasks /\ m # Kbd /\ Slots \subseteq Tasks /\ Kbd \in Tasks /\ 0 # NO_MORE_DATA
      /\ pipe \in Seq(Packet) /\ pack.who \in Tasks
  BY <1>1, <1>3, TaskFacts DEF IndInv, TypeOK, Header
<1> DEFINE items == Output(func[m], copied[func[m]], n)
           k == [who |-> m, ch |-> 0, data |-> items]
<1>5. items \in Seq(Item) /\ \A j \in 1 .. Len(items) : items[j].buf = func[m]
  BY <1>3, <1>4, OutputType
<1> HIDE DEF items
<1>6. /\ k \in Packet /\ k.who = m /\ k.ch # NO_MORE_DATA
      /\ \A j \in 1 .. Len(k.data) : k.data[j].buf = func[m]
  BY <1>4, <1>5 DEF Packet
<1>7. pipe' = Append(pipe, k)
  BY <1>1 DEF Send, items
<1> HIDE DEF k
<1>8. /\ pipe' \in Seq(Packet)
      /\ \A t \in Tasks : From(pipe', t) <=> From(pipe, t) \/ t = m
      /\ \A t \in Tasks : Single(pipe, t) => Single(pipe', t)
      /\ \A i \in 1 .. Len(pipe') :
           (i \in 1 .. Len(pipe) /\ pipe'[i] = pipe[i]) \/ pipe'[i] = k
  BY <1>3, <1>4, <1>6, <1>7, Sent
<1>9. copier[m] # "none" /\ \A t \in Slots : (copier'[t] = "none" <=> copier[t] = "none")
  BY <1>2 DEF IndInv, TypeOK
<1>10. TypeOK'
  <2>1. copied' \in [Bufs -> Nat] /\ copier' \in [Slots -> {"none", "read", "wait"}]
    BY <1>1, <1>2, <1>3, <1>4 DEF IndInv, TypeOK
  <2> QED
    BY <1>2, <1>8, <2>1 DEF IndInv, TypeOK
<1>11. CopierCredit'
  BY <1>2, <1>3, <1>4, <1>8 DEF IndInv, MpxInv, TypeOK, CopierCredit, Token, Held
<1>12. KbdCredit'
  BY <1>2, <1>4, <1>8 DEF IndInv, MpxInv, KbdCredit, Token, Held
<1>13. PacketsOwned'
  BY <1>2, <1>3, <1>6, <1>8, NullAssumption DEF IndInv, MpxInv, PacketsOwned
<1>14. Control'
  BY <1>2, <1>3 DEF IndInv, MpxInv, Control, Inside, Held, FreeSlots
<1>15. SlotsInv'
  BY <1>2, <1>3, <1>4, <1>8 DEF IndInv, MpxInv, TypeOK, SlotsInv, Held
<1>16. LastPacket'
  <2>1. LastTaken' <=> LastTaken
    BY <1>2 DEF LastTaken
  <2>2. ASSUME NEW i \in 1 .. Len(pipe')
        PROVE  IF pipe'[i].who = Kbd THEN pipe'[i].ch # NO_MORE_DATA
               ELSE (pipe'[i].ch = NO_MORE_DATA <=> copier'[pipe'[i].who] = "none")
    <3>1. CASE pipe'[i] = k
      BY <3>1, <1>4, <1>6, <1>9
    <3>2. CASE i \in 1 .. Len(pipe) /\ pipe'[i] = pipe[i]
      BY <3>2, <1>9, Senders DEF IndInv, MpxInv, LastPacket
    <3> QED
      BY <1>8, <3>1, <3>2
  <2>3. LastTaken =>
          /\ pack.who # Kbd /\ pack.ch = NO_MORE_DATA /\ ~From(pipe', pack.who)
          /\ func[pack.who] # NULL /\ copier'[pack.who] = "none"
    BY <1>4, <1>8, <1>9, Senders DEF IndInv, MpxInv, LastPacket
  <2> QED
    BY <1>2, <2>1, <2>2, <2>3 DEF LastPacket
<1>17. Ended' = Ended
  BY <1>2, <1>9 DEF Ended, Occupied
<1> QED
  BY <1>2, <1>10, <1>11, <1>12, <1>13, <1>14, <1>15, <1>16, <1>17, KeepMode
     DEF IndInv, MpxInv, Children

LEMMA CopierAckStep == ASSUME IndInv, NEW m \in Slots, CopierAck(m) PROVE IndInv'
<1> USE DEF CopierAck, termVars, kbdVars, progVars, kidVars, edVars, packVars, modeVars,
            callVars
<1>1. m \in Tasks /\ m # Kbd /\ Slots \subseteq Tasks /\ Kbd \in Tasks /\ Kbd \notin Slots
  BY TaskFacts
<1>2. /\ acks[m] = 1 /\ ~From(pipe, m) /\ ~Held(m) /\ Single(pipe, m)
      /\ copier[m] # "none" /\ \A t \in Slots : (copier'[t] = "none" <=> copier[t] = "none")
  BY DEF IndInv, MpxInv, TypeOK, CopierCredit, Token
<1>3. acks'[m] = 0 /\ \A t \in Tasks : t # m => acks'[t] = acks[t]
  BY <1>1, <1>2 DEF IndInv, TypeOK
<1>4. TypeOK'
  BY <1>1 DEF IndInv, TypeOK
<1>5. CopierCredit'
  BY <1>1, <1>2, <1>3 DEF IndInv, MpxInv, TypeOK, CopierCredit, Token, Held
<1>6. KbdCredit'
  BY <1>1, <1>3 DEF IndInv, MpxInv, KbdCredit, Token, Held
<1>7. SlotsInv'
  BY <1>1, <1>2 DEF IndInv, MpxInv, TypeOK, SlotsInv, Held
<1>8. LastPacket'
  BY <1>2, Senders DEF IndInv, MpxInv, LastPacket, LastTaken
<1>9. Ended' = Ended
  BY <1>2 DEF Ended, Occupied
<1> QED
  BY <1>4, <1>5, <1>6, <1>7, <1>8, <1>9, KeepOwned, KeepMode, KeepControl
     DEF IndInv, MpxInv, Children

LEMMA CopierEofStep == ASSUME IndInv, NEW m \in Slots, CopierEof(m) PROVE IndInv'
<1> USE DEF termVars, kbdVars, progVars, edVars, packVars, modeVars, callVars
<1> DEFINE k == [who |-> m, ch |-> NO_MORE_DATA, data |-> <<>>]
<1>1. /\ copier[m] = "read" /\ copier' = [copier EXCEPT ![m] = "none"]
      /\ exiting' = exiting + 1 /\ pipe' = Append(pipe, k)
      /\ UNCHANGED <<termVars, kbdVars, progVars, copied, acks, zombies, edVars>>
  BY DEF CopierEof, Send
<1>2. /\ ackkbd /\ func[m] \in Bufs /\ ~From(pipe, m) /\ ~Held(m) /\ Single(pipe, m)
      /\ acks[m] = 0
  BY <1>1, CopierNeedsMpx DEF IndInv, MpxInv, CopierCredit, Token
<1>3. /\ m \in Tasks /\ m # Kbd /\ Slots \subseteq Tasks /\ Kbd \in Tasks
      /\ pipe \in Seq(Packet)
  BY TaskFacts DEF IndInv, TypeOK
<1>4. k \in Packet /\ k.who = m /\ k.ch = NO_MORE_DATA /\ Len(k.data) = 0
  BY <1>3 DEF Packet
<1> HIDE DEF k
<1>5. /\ pipe' \in Seq(Packet)
      /\ \A t \in Tasks : From(pipe', t) <=> From(pipe, t) \/ t = m
      /\ \A t \in Tasks : Single(pipe, t) => Single(pipe', t)
      /\ \A i \in 1 .. Len(pipe') :
           (i \in 1 .. Len(pipe) /\ pipe'[i] = pipe[i]) \/ pipe'[i] = k
  BY <1>1, <1>2, <1>3, <1>4, Sent
<1>6. /\ copier'[m] = "none" /\ copier' \in [Slots -> {"none", "read", "wait"}]
      /\ \A t \in Slots : t # m => copier'[t] = copier[t]
  BY <1>1 DEF IndInv, TypeOK
<1>7. TypeOK'
  BY <1>1, <1>5, <1>6 DEF IndInv, TypeOK
<1>8. CopierCredit'
  BY <1>1, <1>3, <1>5, <1>6 DEF IndInv, MpxInv, CopierCredit, Token, Held
<1>9. KbdCredit'
  BY <1>1, <1>3, <1>5 DEF IndInv, MpxInv, KbdCredit, Token, Held
<1>10. PacketsOwned'
  BY <1>1, <1>2, <1>4, <1>5, NullAssumption DEF IndInv, MpxInv, PacketsOwned
<1>11. Control'
  BY <1>1, <1>2 DEF IndInv, MpxInv, Control, Inside, Held, FreeSlots
<1>12. SlotsInv'
  BY <1>1, <1>2, <1>3, <1>5, <1>6 DEF IndInv, MpxInv, SlotsInv, Held
<1>13. LastPacket'
  <2>1. LastTaken' <=> LastTaken
    BY <1>1 DEF LastTaken
  <2>2. ASSUME NEW i \in 1 .. Len(pipe')
        PROVE  IF pipe'[i].who = Kbd THEN pipe'[i].ch # NO_MORE_DATA
               ELSE (pipe'[i].ch = NO_MORE_DATA <=> copier'[pipe'[i].who] = "none")
    <3>1. CASE pipe'[i] = k
      BY <3>1, <1>3, <1>4, <1>6
    <3>2. CASE i \in 1 .. Len(pipe) /\ pipe'[i] = pipe[i]
      <4>1. pipe[i].who # m
        BY <1>2, <3>2 DEF From
      <4> QED
        BY <3>2, <4>1, <1>6, Senders DEF IndInv, MpxInv, LastPacket
    <3> QED
      BY <1>5, <3>1, <3>2
  <2>3. LastTaken =>
          /\ pack.who # Kbd /\ pack.ch = NO_MORE_DATA /\ ~From(pipe', pack.who)
          /\ func[pack.who] # NULL /\ copier'[pack.who] = "none"
    BY <1>1, <1>3, <1>5, <1>6, Senders DEF IndInv, MpxInv, LastPacket
  <2> QED
    BY <1>1, <2>1, <2>2, <2>3 DEF LastPacket
<1>14. Children'
  <2>1. m \in Occupied /\ m \notin Ended /\ Ended' = Ended \cup {m}
    BY <1>1, <1>2, <1>6, NullAssumption DEF Ended, Occupied
  <2>2. Cardinality(Ended') = Cardinality(Ended) + 1
    BY <2>1, Counted, FS_AddElement DEF IndInv
  <2> QED
    BY <1>1, <2>2 DEF IndInv, MpxInv, TypeOK, Children
<1> QED
  BY <1>1, <1>7, <1>8, <1>9, <1>10, <1>11, <1>12, <1>13, <1>14, KeepMode
     DEF IndInv, MpxInv

LEMMA CopierExitStep == ASSUME IndInv, CopierExit PROVE IndInv'
<1> USE DEF CopierExit, sideVars, termVars, kbdVars, progVars, copyVars, edVars, packVars,
            modeVars, callVars
<1>1. TypeOK' /\ exiting' + zombies' = exiting + zombies
  BY DEF IndInv, TypeOK
<1> QED
  BY <1>1, KeepCredit, KeepKbd, KeepOwned, KeepMode, KeepControl, KeepSlots, KeepLast,
     KeepChildren DEF IndInv, MpxInv, LastTaken

(***************************************************************************)
(* The editor.                                                             *)
(***************************************************************************)

(* An acknowledgement always goes to the task whose packet it is for.      *)
LEMMA AckToOwner ==
  ASSUME IndInv, AckDue
  PROVE  /\ AckTo = pack.who /\ pack.who \in Tasks /\ Held(pack.who)
         /\ pack.who = Kbd => kbd = "wait" /\ acks[Kbd] = 0 /\ ~From(pipe, Kbd)
         /\ pack.who # Kbd => /\ pack.who \in Slots /\ copier[pack.who] = "wait"
                              /\ acks[pack.who] = 0 /\ ~From(pipe, pack.who)
<1>1. Held(pack.who) /\ pack.who \in Tasks /\ (pack.who # Kbd => pack.who \in Slots)
  BY Senders DEF AckDue, Held, IndInv
<1>2. ASSUME pack.who = Kbd
      PROVE  kbd = "wait" /\ acks[Kbd] = 0 /\ ~From(pipe, Kbd)
  BY <1>1, <1>2 DEF AckDue, IndInv, MpxInv, ModeConsistent, KbdCredit, Token
<1>3. ASSUME pack.who # Kbd
      PROVE  /\ copier[pack.who] = "wait" /\ func[pack.who] # NULL
             /\ acks[pack.who] = 0 /\ ~From(pipe, pack.who)
  BY <1>1, <1>3 DEF IndInv, MpxInv, SlotsInv, CopierCredit, Token
<1> QED
  BY <1>1, <1>2, <1>3 DEF AckTo

LEMMA AckStep == ASSUME IndInv, Ack PROVE IndInv'
<1> USE DEF sideVars, termVars, kbdVars, progVars, copyVars, kidVars, modeVars
<1>1. /\ at = "ack" /\ at' = "poll" /\ obufp' = 0
      /\ acks' = IF AckDue THEN [acks EXCEPT ![AckTo] = @ + 1] ELSE acks
      /\ tty_accept' = IF AckDue THEN NO_MORE_DATA ELSE tty_accept
      /\ UNCHANGED <<sideVars, pipe, kidVars, have, havec, pack, data, modeVars,
                     then, obj, x, siz, steps, used, out>>
  BY DEF Ack
<1>2. AckDue => /\ \A t \in Tasks : acks'[t] = IF t = pack.who THEN 1 ELSE acks[t]
                /\ acks' \in [Tasks -> Nat]
  BY <1>1, AckToOwner DEF IndInv, TypeOK
<1>3. TypeOK'
  BY <1>1, <1>2 DEF IndInv, TypeOK
<1>4. CopierCredit'
  <2>1. CASE AckDue
    BY <1>1, <1>2, <2>1, AckToOwner, TaskFacts
       DEF IndInv, MpxInv, CopierCredit, Token, Held
  <2>2. CASE ~AckDue
    BY <1>1, <2>2, KeepCredit DEF IndInv, MpxInv
  <2> QED
    BY <2>1, <2>2
<1>5. KbdCredit'
  <2>1. CASE AckDue
    BY <1>1, <1>2, <2>1, AckToOwner, TaskFacts DEF IndInv, MpxInv, KbdCredit, Token, Held
  <2>2. CASE ~AckDue
    BY <1>1, <2>2, KeepKbd DEF IndInv, MpxInv
  <2> QED
    BY <2>1, <2>2
<1>6. Control'
  BY <1>1 DEF AckDue, IndInv, MpxInv, Control, Inside, Held, FreeSlots
<1>7. SlotsInv'
  BY <1>1 DEF IndInv, MpxInv, SlotsInv, Held
<1>8. LastTaken' => LastTaken
  BY <1>1 DEF LastTaken
<1> QED
  BY <1>1, <1>3, <1>4, <1>5, <1>6, <1>7, <1>8, KeepOwned, KeepMode, KeepLast, KeepChildren
     DEF IndInv, MpxInv

(* The last packet of a program has left the pipe, its slot is in use and  *)
(* its copier has ended.                                                   *)
LastOf(who, p) == who # Kbd /\ ~From(p, who) /\ func[who] # NULL /\ copier[who] = "none"

(* Reading a packet.                                                       *)
LEMMA ReadKeeps ==
  ASSUME IndInv, Read(Head(pipe)), tty_accept = NO_MORE_DATA, ackkbd,
         UNCHANGED <<kbd, copier, acks, func, prog, ackkbd>>
  PROVE  /\ pipe' \in Seq(Packet) /\ pack' \in Header /\ data' \in Seq(Item)
         /\ Len(data) <= Len(data') /\ pack'.size <= Len(data') /\ tty_accept' = pack'.ch
         /\ CopierCredit' /\ KbdCredit' /\ PacketsOwned' /\ SlotsInv'
         /\ \A i \in 1 .. Len(pipe') :
              IF pipe'[i].who = Kbd THEN pipe'[i].ch # NO_MORE_DATA
              ELSE (pipe'[i].ch = NO_MORE_DATA <=> copier[pipe'[i].who] = "none")
         /\ pack'.who \in Tasks /\ (pack'.who # Kbd => func[pack'.who] \in Bufs)
         /\ pack'.ch = NO_MORE_DATA => LastOf(pack'.who, pipe')
<1> DEFINE h == Head(pipe)
<1>1. pipe # <<>> /\ pipe' = Tail(pipe) /\ pipe \in Seq(Packet) /\ pack.size <= Len(data)
  BY DEF Read, IndInv, TypeOK, MpxInv, Control
<1>2. /\ h \in Packet /\ pack' \in Header /\ data' \in Seq(Item)
      /\ Len(data) <= Len(data') /\ pack'.size <= Len(data')
      /\ tty_accept' = h.ch /\ pack'.who = h.who /\ pack'.ch = h.ch
  BY <1>1, ReadType DEF IndInv
<1>3. /\ pipe' \in Seq(Packet) /\ h = pipe[1] /\ 1 \in 1 .. Len(pipe)
      /\ From(pipe, h.who)
      /\ \A t \in Tasks : t # h.who => (From(pipe', t) <=> From(pipe, t))
      /\ \A t \in Tasks : From(pipe', t) => From(pipe, t)
      /\ Single(pipe, h.who) => ~From(pipe', h.who)
      /\ \A t \in Tasks : Single(pipe, t) => Single(pipe', t)
      /\ \A i \in 1 .. Len(pipe') : i + 1 \in 1 .. Len(pipe) /\ pipe'[i] = pipe[i + 1]
  BY <1>1, Taken
<1>4. h.who \in Tasks /\ (h.who # Kbd => h.who \in Slots)
  BY <1>3, Senders DEF IndInv
<1>5. IF h.who = Kbd THEN h.ch # NO_MORE_DATA
      ELSE (h.ch = NO_MORE_DATA <=> copier[h.who] = "none")
  BY <1>3 DEF IndInv, MpxInv, LastPacket
<1>6. h.who # Kbd => func[h.who] # NULL
  BY <1>3 DEF IndInv, MpxInv, PacketsOwned
<1>7. kbd # "off" /\ Single(pipe, Kbd)
  BY DEF IndInv, MpxInv, ModeConsistent, KbdCredit
<1>8. ~From(pipe', h.who)
  BY <1>3, <1>4, <1>7 DEF IndInv, MpxInv, SlotsInv
<1>9. h.who = Kbd => kbd = "wait" /\ acks[Kbd] = 0
  BY <1>3, <1>7 DEF IndInv, MpxInv, KbdCredit, Token
<1>10. h.who # Kbd /\ h.ch # NO_MORE_DATA => copier[h.who] = "wait" /\ acks[h.who] = 0
  BY <1>3, <1>4, <1>5 DEF IndInv, MpxInv, TypeOK, CopierCredit, Token
<1> HIDE DEF h
<1>11. \A t \in Tasks : Held(t)' <=> t = h.who /\ h.ch # NO_MORE_DATA
  BY <1>2 DEF Held
<1>12. \A t \in Tasks : ~Held(t)
  BY DEF Held
<1>13. CopierCredit'
  <2>1. ASSUME NEW m \in Slots, copier[m] \in {"read", "wait"}
        PROVE  /\ Token(m, copier[m] = "wait")' /\ Single(pipe', m)
               /\ From(pipe', m) => copier[m] = "wait"
    <3>1. /\ m \in Tasks /\ m # Kbd /\ Single(pipe, m)
          /\ acks[m] = IF copier[m] = "wait" /\ ~From(pipe, m) THEN 1 ELSE 0
          /\ From(pipe, m) => copier[m] = "wait"
      BY <1>12, <2>1, TaskFacts DEF IndInv, MpxInv, CopierCredit, Token
    <3>2. CASE m = h.who
      BY <1>3, <1>5, <1>8, <1>10, <1>11, <2>1, <3>1, <3>2 DEF Token
    <3>3. CASE m # h.who
      BY <1>3, <1>11, <2>1, <3>1, <3>3 DEF Token
    <3> QED
      BY <3>2, <3>3
  <2> QED
    BY <2>1 DEF CopierCredit
<1>14. KbdCredit'
  <2>1. /\ Kbd \in Tasks /\ Single(pipe, Kbd)
        /\ acks[Kbd] = IF kbd = "wait" /\ ~From(pipe, Kbd) THEN 1 ELSE 0
        /\ From(pipe, Kbd) => kbd = "wait"
    BY <1>7, <1>12, TaskFacts DEF IndInv, MpxInv, KbdCredit, Token
  <2>2. CASE Kbd = h.who
    BY <1>3, <1>5, <1>7, <1>8, <1>9, <1>11, <2>1, <2>2 DEF KbdCredit, Token
  <2>3. CASE Kbd # h.who
    BY <1>3, <1>7, <1>11, <2>1, <2>3 DEF KbdCredit, Token
  <2> QED
    BY <2>2, <2>3
<1>15. PacketsOwned'
  BY <1>3 DEF IndInv, MpxInv, PacketsOwned
<1>16. SlotsInv'
  BY <1>3, <1>4, <1>10, <1>11, TaskFacts DEF IndInv, MpxInv, SlotsInv
<1>17. \A i \in 1 .. Len(pipe') :
         IF pipe'[i].who = Kbd THEN pipe'[i].ch # NO_MORE_DATA
         ELSE (pipe'[i].ch = NO_MORE_DATA <=> copier[pipe'[i].who] = "none")
  BY <1>3 DEF IndInv, MpxInv, LastPacket
<1>18. pack'.who # Kbd => func[pack'.who] \in Bufs
  BY <1>2, <1>4, <1>6 DEF IndInv, TypeOK
<1>19. pack'.ch = NO_MORE_DATA => LastOf(pack'.who, pipe')
  BY <1>2, <1>5, <1>6, <1>8 DEF LastOf
<1> QED
  BY <1>2, <1>3, <1>4, <1>13, <1>14, <1>15, <1>16, <1>17, <1>18, <1>19

LEMMA PollStep == ASSUME IndInv, Poll PROVE IndInv'
<1> USE DEF termVars, kbdVars, progVars, copyVars, kidVars, modeVars
<1>1. /\ at = "poll" /\ at' = then
      /\ UNCHANGED <<typed, kbdVars, progVars, copyVars, acks, kidVars, modeVars,
                     then, obj, x, siz, steps, obufp, used, out>>
  BY DEF Poll
<1>2. at' \in {"get", "data", "fork"} /\ at' # "reap"
  BY <1>1 DEF IndInv, TypeOK
<1>3. CASE UNCHANGED <<pipe, packVars>> /\ tty' \in Seq(Nat) /\ (have \/ ackkbd)
  <2> USE <1>3 DEF packVars
  <2>1. TypeOK'
    BY <1>1, <1>2 DEF IndInv, TypeOK
  <2>2. Control'
    BY <1>1, <1>2 DEF IndInv, MpxInv, Control, Inside, Held, FreeSlots
  <2>3. LastTaken' => LastTaken
    BY <1>1, <1>2 DEF LastTaken
  <2> QED
    BY <1>1, <1>2, <2>1, <2>2, <2>3, KeepCredit, KeepKbd, KeepOwned, KeepMode, KeepSlots,
       KeepLast, KeepChildren DEF IndInv, MpxInv
<1>4. CASE ~have /\ ackkbd /\ Read(Head(pipe)) /\ have' = TRUE /\ UNCHANGED <<havec, tty>>
  <2> USE <1>4
  <2>1. tty_accept = NO_MORE_DATA
    BY <1>1 DEF IndInv, MpxInv, Control
  <2>2. /\ pipe' \in Seq(Packet) /\ pack' \in Header /\ data' \in Seq(Item)
        /\ Len(data) <= Len(data') /\ pack'.size <= Len(data') /\ tty_accept' = pack'.ch
        /\ CopierCredit' /\ KbdCredit' /\ PacketsOwned' /\ SlotsInv'
        /\ \A i \in 1 .. Len(pipe') :
             IF pipe'[i].who = Kbd THEN pipe'[i].ch # NO_MORE_DATA
             ELSE (pipe'[i].ch = NO_MORE_DATA <=> copier[pipe'[i].who] = "none")
        /\ pack'.ch = NO_MORE_DATA => LastOf(pack'.who, pipe')
    BY <1>1, <2>1, ReadKeeps
  <2>3. TypeOK'
    <3>1. x \in 0 .. siz /\ siz \in 0 .. Len(data') /\ tty_accept' \in Nat \cup {NO_MORE_DATA}
      BY <2>2 DEF IndInv, TypeOK, Header
    <3> QED
      BY <1>1, <1>2, <2>2, <3>1 DEF IndInv, TypeOK
  <2>4. Control'
    BY <1>1, <1>2, <2>2 DEF IndInv, MpxInv, Control, Inside, FreeSlots
  <2>5. LastPacket'
    BY <1>1, <1>2, <2>2 DEF LastPacket, LastTaken, LastOf
  <2> QED
    BY <1>1, <1>2, <2>2, <2>3, <2>4, <2>5, KeepMode, KeepChildren DEF IndInv, MpxInv
<1>5. CASE ~have /\ ~ackkbd /\ havec' \in Nat /\ tty' \in Seq(Nat) /\ have' \in BOOLEAN
             /\ UNCHANGED <<pipe, pack, data, tty_accept>>
  <2> USE <1>5
  <2>1. TypeOK'
    BY <1>1, <1>2 DEF IndInv, TypeOK
  <2>2. Control'
    BY <1>1, <1>2 DEF IndInv, MpxInv, Control, Inside, Held, FreeSlots
  <2>3. LastTaken' => LastTaken
    BY <1>1, <1>2 DEF LastTaken
  <2> QED
    BY <1>1, <1>2, <2>1, <2>2, <2>3, KeepCredit, KeepKbd, KeepOwned, KeepMode, KeepSlots,
       KeepLast, KeepChildren DEF IndInv, MpxInv
<1>6. tty \in Seq(Nat) /\ havec \in Nat /\ have \in BOOLEAN
        /\ (tty # <<>> => Head(tty) \in Nat /\ Tail(tty) \in Seq(Nat))
  BY DEF IndInv, TypeOK
<1> QED
  BY <1>3, <1>4, <1>5, <1>6 DEF Poll, packVars

LEMMA GetKeyStep == ASSUME IndInv, GetKey PROVE IndInv'
<1> USE DEF termVars, kbdVars, progVars, copyVars, kidVars, modeVars
<1>1. /\ at = "get" /\ at' = "cmd" /\ ~ackkbd /\ steps' = 0 /\ have' = FALSE
      /\ UNCHANGED <<typed, kbdVars, progVars, copyVars, acks, pipe, kidVars, pack,
                     data, tty_accept, modeVars, then, obj, x, siz, obufp, out>>
  BY DEF GetKey, Execute
<1>2. tty' \in Seq(Nat) /\ havec' \in Nat /\ used' \in Nat
  <2>1. tty \in Seq(Nat) /\ havec \in Nat
          /\ (tty # <<>> => Head(tty) \in Nat /\ Tail(tty) \in Seq(Nat))
    BY DEF IndInv, TypeOK
  <2> QED
    BY <2>1 DEF GetKey, Execute
<1>3. TypeOK'
  BY <1>1, <1>2 DEF IndInv, TypeOK
<1>4. Control'
  BY <1>1 DEF IndInv, MpxInv, Control, Inside, Held, FreeSlots
<1>5. LastTaken' => LastTaken
  BY <1>1 DEF LastTaken
<1> QED
  BY <1>1, <1>3, <1>4, <1>5, KeepCredit, KeepKbd, KeepOwned, KeepMode, KeepSlots, KeepLast,
     KeepChildren DEF IndInv, MpxInv

(* Handing a packet on, whether it was prefetched or just read.            *)
LEMMA GetPacketStep == ASSUME IndInv, GetPacket PROVE IndInv'
<1> USE DEF sideVars, termVars, kbdVars, progVars, copyVars, kidVars, modeVars
<1>1. /\ at = "get" /\ ackkbd /\ have' = FALSE /\ Dispatch
      /\ UNCHANGED <<sideVars, acks, kidVars, havec, modeVars, then, obufp, out>>
  BY DEF GetPacket
<1>2. /\ pipe' \in Seq(Packet) /\ pack' \in Header /\ data' \in Seq(Item)
      /\ Len(data) <= Len(data') /\ pack'.size <= Len(data') /\ tty_accept' = pack'.ch
      /\ CopierCredit' /\ KbdCredit' /\ PacketsOwned' /\ SlotsInv'
      /\ \A i \in 1 .. Len(pipe') :
           IF pipe'[i].who = Kbd THEN pipe'[i].ch # NO_MORE_DATA
           ELSE (pipe'[i].ch = NO_MORE_DATA <=> copier[pipe'[i].who] = "none")
      /\ pack'.who # Kbd => func[pack'.who] \in Bufs
      /\ pack'.ch = NO_MORE_DATA => LastOf(pack'.who, pipe')
  <2>1. CASE have
    <3>1. UNCHANGED <<pipe, pack, data, tty_accept>> /\ tty_accept = pack.ch
      BY <1>1, <2>1 DEF GetPacket, IndInv, MpxInv, Control
    <3>2. /\ pipe \in Seq(Packet) /\ pack \in Header /\ data \in Seq(Item)
          /\ Len(data) <= Len(data) /\ pack.size <= Len(data)
      BY DEF IndInv, TypeOK, MpxInv, Control
    <3>3. pack.ch = NO_MORE_DATA => LastOf(pack.who, pipe)
      BY <1>1, <2>1 DEF IndInv, MpxInv, LastPacket, LastTaken, LastOf
    <3>4. pack.who # Kbd => func[pack.who] \in Bufs
      <4>1. ASSUME pack.who # Kbd, pack.ch # NO_MORE_DATA
            PROVE  func[pack.who] # NULL
        BY <3>1, <4>1, Senders DEF IndInv, MpxInv, SlotsInv, Held
      <4>2. pack.who # Kbd => pack.who \in Slots /\ func[pack.who] \in Bufs \cup {NULL}
        BY Senders DEF IndInv, TypeOK
      <4> QED
        BY <3>3, <4>1, <4>2 DEF LastOf
    <3>5. CopierCredit' /\ KbdCredit' /\ PacketsOwned' /\ SlotsInv'
      BY <1>1, <3>1, KeepCredit, KeepKbd, KeepOwned, KeepSlots DEF IndInv, MpxInv
    <3> QED
      BY <3>1, <3>2, <3>3, <3>4, <3>5 DEF IndInv, MpxInv, LastPacket
  <2>2. CASE ~have
    <3>1. Read(Head(pipe)) /\ tty_accept = NO_MORE_DATA
      BY <1>1, <2>2 DEF GetPacket, IndInv, MpxInv, Control
    <3> QED
      BY <1>1, <3>1, ReadKeeps
  <2> QED
    BY <2>1, <2>2
<1>3. \/ /\ at' = "cmd" /\ steps' = 0 /\ used' = pack'.ch /\ pack'.ch # NO_MORE_DATA
         /\ pack'.who = Kbd /\ UNCHANGED <<obj, x, siz>>
      \/ /\ at' = "data" /\ obj' \in Bufs /\ x' = 0 /\ siz' = pack'.size
         /\ pack'.ch # NO_MORE_DATA /\ UNCHANGED <<used, steps>>
      \/ /\ at' = "died" /\ pack'.ch = NO_MORE_DATA /\ UNCHANGED <<obj, x, siz, used, steps>>
  BY <1>1, <1>2, NullAssumption DEF Dispatch, Execute
<1>4. TypeOK'
  <2>1. pack'.size \in Nat /\ pack'.ch \in Nat \cup {NO_MORE_DATA}
    BY <1>2 DEF Header
  <2>2. x' \in 0 .. siz' /\ siz' \in 0 .. Len(data')
    <3>1. Len(data) \in Nat /\ Len(data') \in Nat /\ Len(data) <= Len(data')
            /\ pack'.size <= Len(data') /\ x \in 0 .. siz /\ siz \in 0 .. Len(data)
      BY <1>2 DEF IndInv, TypeOK
    <3>2. CASE x' = 0 /\ siz' = pack'.size
      BY <2>1, <3>1, <3>2
    <3>3. CASE UNCHANGED <<x, siz>>
      BY <3>1, <3>3
    <3> QED
      BY <1>3, <3>2, <3>3
  <2>3. /\ used' \in Nat /\ steps' \in Nat /\ obj' \in Bufs \cup {NULL}
        /\ at' \in {"cmd", "data", "died"}
    BY <1>3, <2>1 DEF IndInv, TypeOK
  <2> QED
    BY <1>1, <1>2, <2>1, <2>2, <2>3 DEF IndInv, TypeOK
<1>5. Control'
  BY <1>1, <1>2, <1>3 DEF IndInv, MpxInv, Control, Inside, Held
<1>6. LastPacket'
  BY <1>1, <1>2, <1>3 DEF LastPacket, LastTaken, LastOf
<1>7. ModeConsistent'
  BY <1>1, <1>3, KeepMode DEF IndInv, MpxInv
<1> QED
  BY <1>1, <1>2, <1>4, <1>5, <1>6, <1>7, KeepChildren DEF IndInv, MpxInv

LEMMA DataStep == ASSUME IndInv, Data PROVE IndInv'
<1> USE DEF sideVars, termVars, kbdVars, progVars, copyVars, kidVars, packVars, modeVars
<1>1. /\ at = "data" /\ x < siz /\ x' = x + 1
      /\ out' = [out EXCEPT ![obj] = Append(@, data[x + 1])]
      /\ obufp' \in {obufp, obufp + 1}
      /\ (at' = "ack" /\ then' = "data") \/ UNCHANGED <<at, then>>
      /\ UNCHANGED <<sideVars, acks, pipe, kidVars, packVars, modeVars, obj, siz,
                     steps, used>>
  BY DEF Data, Flush
<1>2. obj \in Bufs
  BY <1>1 DEF IndInv, MpxInv, Control, Inside
<1>3. TypeOK'
  <2>1. x + 1 \in 0 .. siz /\ x + 1 \in 1 .. Len(data)
    BY <1>1 DEF IndInv, TypeOK
  <2>2. data[x + 1] \in Item /\ out[obj] \in Seq(Item)
    BY <1>2, <2>1 DEF IndInv, TypeOK
  <2>3. out' \in [Bufs -> Seq(Item)]
    BY <1>1, <1>2, <2>2 DEF IndInv, TypeOK
  <2> QED
    BY <1>1, <2>1, <2>3 DEF IndInv, TypeOK
<1>4. Control'
  BY <1>1, <1>2 DEF IndInv, MpxInv, Control, Inside, Held
<1>5. LastTaken' => LastTaken
  BY <1>1 DEF LastTaken
<1> QED
  BY <1>1, <1>3, <1>4, <1>5, KeepCredit, KeepKbd, KeepOwned, KeepMode, KeepSlots, KeepLast,
     KeepChildren DEF IndInv, MpxInv

(* Steps that only send the editor to a flush.                             *)
LEMMA FlushStep ==
  ASSUME IndInv, DataEnd \/ CmdEnd \/ \E b \in Bufs : Run(b)
  PROVE  IndInv'
<1> USE DEF sideVars, termVars, kbdVars, progVars, copyVars, kidVars, packVars, modeVars
<1>1. /\ at \in {"data", "cmd"}
      /\ \/ at' = "ack" /\ then' = "get" /\ UNCHANGED <<obj, steps>>
         \/ /\ at' = "ack" /\ then' = "fork" /\ UNCHANGED steps
            /\ obj' \in Bufs /\ prog[obj'] = "none" /\ FreeSlots # {}
         \/ /\ at = "cmd" /\ UNCHANGED <<at, then, obj>>
            /\ steps' = MaxSteps /\ steps < MaxSteps
      /\ UNCHANGED <<sideVars, acks, pipe, kidVars, packVars, modeVars, x, siz,
                     obufp, used, out>>
  BY DEF DataEnd, CmdEnd, Run, More, Flush
<1>2. TypeOK'
  BY <1>1, MpxBoundAssumption DEF IndInv, TypeOK
<1>3. Control'
  BY <1>1, MpxBoundAssumption DEF IndInv, MpxInv, TypeOK, Control, Inside, Held, FreeSlots
<1>4. LastTaken' => LastTaken
  BY <1>1 DEF LastTaken
<1> QED
  BY <1>1, <1>2, <1>3, <1>4, KeepCredit, KeepKbd, KeepOwned, KeepMode, KeepSlots, KeepLast,
     KeepChildren DEF IndInv, MpxInv

(* The one program that is left is the one that has died.                  *)
LEMMA DiedStep == ASSUME IndInv, Died PROVE IndInv'
<1> USE DEF termVars, progVars, copyVars, kidVars
<1>1. /\ at = "died" /\ at' = "reap" /\ nmpx' = nmpx - 1
      /\ UNCHANGED <<termVars, key, progVars, copyVars, acks, kidVars, have, pack, data,
                     tty_accept, func, then, obj, x, siz, steps, obufp, used, out>>
  BY DEF Died
<1>2. /\ pack.who \in Occupied /\ copier[pack.who] = "none" /\ pack.who # Kbd
      /\ ~From(pipe, pack.who) /\ pack.ch = NO_MORE_DATA
      /\ ~have /\ tty_accept = NO_MORE_DATA
  BY <1>1, Senders DEF IndInv, MpxInv, LastPacket, LastTaken, Occupied, Control
<1>3. /\ nmpx = Cardinality(Occupied) /\ nmpx \in Nat \ {0} /\ ackkbd
      /\ \A m, n \in Occupied : func[m] = func[n] => m = n
  <2>1. nmpx = Cardinality(Occupied) /\ nmpx \in Nat
    BY <1>1, Counted DEF IndInv, MpxInv, ModeConsistent
  <2>2. nmpx # 0
    BY <1>2, <2>1, Counted, FS_EmptySet DEF IndInv
  <2> QED
    BY <2>1, <2>2 DEF IndInv, MpxInv, ModeConsistent
<1>4. CASE nmpx' = 0
  <2>1. kbd' = "off" /\ ackkbd' = FALSE /\ pipe' = <<>> /\ havec' = havec
    BY <1>2, <1>4 DEF Died, mpxend
  <2>2. Occupied = {pack.who}
    BY <1>1, <1>2, <1>3, <1>4, Counted, FS_Singleton DEF IndInv
  <2>3. \A m \in Slots : copier[m] = "none"
    BY <1>2, <2>2 DEF IndInv, MpxInv, SlotsInv, Occupied
  <2>4. TypeOK'
    <3>1. pipe' \in Seq(Packet)
      BY <2>1
    <3>2. nmpx' \in Nat /\ kbd' \in {"off", "read", "write", "wait"} /\ ackkbd' \in BOOLEAN
      BY <1>4, <2>1
    <3> QED
      BY <1>1, <2>1, <3>1, <3>2 DEF IndInv, TypeOK
  <2>5. CopierCredit' /\ KbdCredit' /\ PacketsOwned'
    BY <1>1, <2>1, <2>3, EmptyPipe, TaskFacts DEF CopierCredit, KbdCredit, PacketsOwned
  <2>6. ModeConsistent'
    BY <1>1, <1>3, <1>4, <2>1 DEF ModeConsistent, Occupied
  <2>7. Control'
    BY <1>1, <1>2, <2>1 DEF IndInv, MpxInv, Control, Inside
  <2>8. SlotsInv'
    BY <1>1, <1>2, <2>1, EmptyPipe, TaskFacts DEF IndInv, MpxInv, SlotsInv, Held
  <2>9. LastPacket'
    BY <1>1, <1>2, <2>1, EmptyPipe, Senders
       DEF IndInv, MpxInv, LastPacket, LastTaken, Occupied
  <2> QED
    BY <1>1, <2>4, <2>5, <2>6, <2>7, <2>8, <2>9, KeepChildren DEF IndInv, MpxInv
<1>5. CASE nmpx' # 0
  <2>1. UNCHANGED <<ackkbd, kbd, pipe, havec>>
    BY <1>5 DEF Died
  <2>2. TypeOK'
    BY <1>1, <1>3, <2>1 DEF IndInv, TypeOK
  <2>3. ModeConsistent'
    BY <1>1, <1>3, <1>5, <2>1 DEF IndInv, MpxInv, ModeConsistent, Occupied
  <2>4. Control'
    BY <1>1, <1>2, <2>1, <1>3 DEF IndInv, MpxInv, Control, Inside
  <2>5. LastTaken' => LastTaken
    BY <1>1 DEF LastTaken
  <2> QED
    BY <1>1, <2>1, <2>2, <2>3, <2>4, <2>5, KeepCredit, KeepKbd, KeepOwned, KeepSlots,
       KeepLast, KeepChildren DEF IndInv, MpxInv
<1> QED
  BY <1>4, <1>5

LEMMA ReapStep == ASSUME IndInv, Reap PROVE IndInv'
<1> USE DEF termVars, kbdVars, copyVars, packVars
<1> DEFINE w == pack.who
<1>1. /\ at = "reap" /\ at' = "ack" /\ then' = "get" /\ zombies > 0 /\ zombies' = zombies - 1
      /\ prog' = [prog EXCEPT ![func[w]] = "none"] /\ func' = [func EXCEPT ![w] = NULL]
      /\ UNCHANGED <<termVars, kbdVars, written, copyVars, acks, pipe, exiting, packVars,
                     ackkbd, nmpx, obj, x, siz, steps, obufp, used, out>>
  BY DEF Reap, Flush
<1>2. /\ w \in Slots /\ w \in Occupied /\ copier[w] = "none" /\ ~From(pipe, w)
      /\ func[w] \in Bufs /\ ~have /\ tty_accept = NO_MORE_DATA
  BY <1>1, Senders DEF IndInv, MpxInv, LastPacket, LastTaken, Occupied, Control, TypeOK
<1>3. /\ func'[w] = NULL /\ \A m \in Slots : m # w => func'[m] = func[m]
      /\ func' \in [Slots -> Bufs \cup {NULL}]
      /\ \A b \in Bufs : b # func[w] => prog'[b] = prog[b]
      /\ prog' \in [Bufs -> {"none", "runs", "exited"}]
  BY <1>1, <1>2 DEF IndInv, TypeOK
<1>4. /\ Occupied' = Occupied \ {w} /\ Ended' = Ended \ {w} /\ w \in Ended
  BY <1>1, <1>2, <1>3 DEF Occupied, Ended
<1>5. /\ Cardinality(Occupied') = Cardinality(Occupied) - 1
      /\ Cardinality(Ended') = Cardinality(Ended) - 1
  BY <1>2, <1>4, Counted, FS_RemoveElement DEF IndInv
<1>6. TypeOK'
  BY <1>1, <1>3 DEF IndInv, TypeOK
<1>7. CopierCredit' /\ KbdCredit'
  BY <1>1, KeepCredit, KeepKbd DEF IndInv, MpxInv
<1>8. PacketsOwned'
  <2>1. \A i \in 1 .. Len(pipe) : pipe[i].who # w
    BY <1>2 DEF From
  <2> QED
    BY <1>1, <1>3, <2>1, Senders DEF IndInv, MpxInv, PacketsOwned
<1>9. ModeConsistent'
  <2>1. nmpx' = Cardinality(Occupied') - 0
    BY <1>1, <1>5, Counted DEF IndInv, MpxInv, ModeConsistent
  <2>2. \A m, n \in Occupied' : func'[m] = func'[n] => m = n
    BY <1>3, <1>4 DEF IndInv, MpxInv, ModeConsistent, Occupied
  <2> QED
    BY <1>1, <2>1, <2>2 DEF IndInv, MpxInv, ModeConsistent
<1>10. Control'
  BY <1>1, <1>2 DEF IndInv, MpxInv, Control, Inside
<1>11. SlotsInv'
  <2>1. ASSUME NEW m \in Slots
        PROVE  /\ copier'[m] # "none" => func'[m] # NULL
               /\ func'[m] # NULL => prog'[func'[m]] # "none"
               /\ Held(m)' => copier'[m] = "wait"
               /\ Single(pipe', m)
    <3>1. CASE m = w
      BY <1>1, <1>2, <1>3, <3>1 DEF IndInv, MpxInv, SlotsInv, Held
    <3>2. CASE m # w
      <4>1. func[m] # NULL => func[m] # func[w] /\ func[m] \in Bufs
        BY <1>2, <3>2 DEF IndInv, MpxInv, ModeConsistent, Occupied, TypeOK
      <4> QED
        BY <1>1, <1>3, <3>2, <4>1 DEF IndInv, MpxInv, SlotsInv, Held
    <3> QED
      BY <3>1, <3>2
  <2> QED
    BY <2>1 DEF SlotsInv
<1>12. LastPacket'
  BY <1>1, <1>2 DEF IndInv, MpxInv, LastPacket, LastTaken
<1>13. Children'
  BY <1>1, <1>5, Counted DEF IndInv, MpxInv, Children, TypeOK
<1> QED
  BY <1>6, <1>7, <1>8, <1>9, <1>10, <1>11, <1>12, <1>13 DEF IndInv, MpxInv

(***************************************************************************)
(* Starting a program and suspending the editor.                           *)
(***************************************************************************)

LEMMA ForkStep == ASSUME IndInv, Fork PROVE IndInv'
<1> USE DEF termVars, kbdVars, packVars, kidVars
<1>1. PICK m \in FreeSlots :
        /\ func' = [func EXCEPT ![m] = obj] /\ copier' = [copier EXCEPT ![m] = "read"]
        /\ acks' = [t \in Tasks |-> IF t = m \/ (t = Kbd /\ ~ackkbd) THEN 0 ELSE acks[t]]
  BY DEF Fork
<1>2. /\ at = "fork" /\ at' = "cmd" /\ steps' = steps + 1
      /\ nmpx' = nmpx + 1 /\ ackkbd' = TRUE
      /\ IF ackkbd THEN UNCHANGED <<tty_accept, have, kbdVars>> ELSE mpxresume
      /\ prog' = [prog EXCEPT ![obj] = "runs"]
      /\ UNCHANGED <<termVars, written, copied, pipe, kidVars, havec, pack, data,
                     then, obj, x, siz, obufp, used, out>>
  BY DEF Fork
<1>3. m \in Slots /\ func[m] = NULL /\ obj \in Bufs /\ prog[obj] = "none" /\ obj # NULL
  BY <1>1, <1>2, NullAssumption DEF IndInv, MpxInv, Control, Inside, FreeSlots
<1>4. /\ m \in Tasks /\ m # Kbd /\ Kbd \in Tasks /\ Kbd \notin Slots /\ Slots \subseteq Tasks
      /\ pack.who \in Tasks
  BY <1>3, TaskFacts, Senders DEF IndInv
<1>5. copier[m] = "none" /\ ~From(pipe, m) /\ ~Held(m) /\ Single(pipe, m)
  BY <1>3, <1>4 DEF IndInv, MpxInv, SlotsInv, PacketsOwned, From
<1>6. /\ func'[m] = obj /\ copier'[m] = "read" /\ acks'[m] = 0
      /\ \A t \in Slots : t # m => /\ func'[t] = func[t] /\ copier'[t] = copier[t]
                                   /\ acks'[t] = acks[t]
      /\ acks'[Kbd] = IF ackkbd THEN acks[Kbd] ELSE 0
      /\ func' \in [Slots -> Bufs \cup {NULL}] /\ acks' \in [Tasks -> Nat]
      /\ copier' \in [Slots -> {"none", "read", "wait"}]
  BY <1>1, <1>3, <1>4 DEF IndInv, TypeOK
<1>7. \/ ackkbd /\ UNCHANGED <<tty_accept, have, kbd, key>>
      \/ /\ ~ackkbd /\ tty_accept = NO_MORE_DATA /\ tty_accept' = NO_MORE_DATA
         /\ pipe = <<>> /\ have' = FALSE /\ kbd' = "read" /\ key' = 0
  BY <1>2 DEF mpxresume, IndInv, MpxInv, Control
<1>8. /\ tty_accept' = tty_accept
      /\ kbd' # "off" /\ kbd' \in {"read", "write", "wait"}
  BY <1>7 DEF IndInv, MpxInv, TypeOK, ModeConsistent
<1>9. /\ \A b \in Bufs : prog'[b] = IF b = obj THEN "runs" ELSE prog[b]
      /\ prog' \in [Bufs -> {"none", "runs", "exited"}]
  BY <1>2 DEF IndInv, TypeOK
<1>10. /\ Occupied' = Occupied \cup {m} /\ m \notin Occupied /\ Ended' = Ended
  BY <1>3, <1>6 DEF Occupied, Ended
<1>11. Cardinality(Occupied') = Cardinality(Occupied) + 1
  BY <1>10, Counted, FS_AddElement DEF IndInv
<1>12. TypeOK'
  <2>1. key' \in Nat /\ nmpx' \in Nat /\ steps' \in Nat /\ ackkbd' \in BOOLEAN
    BY <1>2, <1>7 DEF IndInv, TypeOK
  <2>2. have \in BOOLEAN
    BY DEF IndInv, TypeOK
  <2>3. have' \in BOOLEAN
    BY <1>7, <2>2, Zenon
  <2> QED
    BY <1>2, <1>6, <1>8, <1>9, <2>1, <2>3 DEF IndInv, TypeOK
<1>13. CopierCredit'
  <2>1. ASSUME NEW t \in Slots, copier'[t] \in {"read", "wait"}
        PROVE  /\ Token(t, copier[t] = "wait")' /\ Single(pipe, t)
               /\ From(pipe, t) => copier'[t] = "wait"
    <3>1. CASE t = m
      BY <1>2, <1>5, <1>6, <1>8, <3>1 DEF Token, Held
    <3>2. CASE t # m
      BY <1>2, <1>6, <1>8, <2>1, <3>2 DEF IndInv, MpxInv, CopierCredit, Token, Held
    <3> QED
      BY <3>1, <3>2
  <2> QED
    BY <1>2, <2>1 DEF CopierCredit
<1>14. KbdCredit'
  <2>1. CASE ackkbd
    BY <1>2, <1>6, <1>7, <2>1 DEF IndInv, MpxInv, ModeConsistent, KbdCredit, Token, Held
  <2>2. CASE ~ackkbd
    BY <1>2, <1>6, <1>7, <2>2, EmptyPipe, TaskFacts DEF KbdCredit, Token, Held
  <2> QED
    BY <2>1, <2>2
<1>15. PacketsOwned'
  <2>1. \A i \in 1 .. Len(pipe) : pipe[i].who # m
    BY <1>5 DEF From
  <2> QED
    BY <1>2, <1>6, <2>1, Senders DEF IndInv, MpxInv, PacketsOwned
<1>16. ModeConsistent'
  <2>1. nmpx' > 0 /\ nmpx' = Cardinality(Occupied')
    BY <1>2, <1>11, Counted DEF IndInv, MpxInv, ModeConsistent, TypeOK
  <2>2. \A t \in Occupied : func[t] # obj
    BY <1>3 DEF IndInv, MpxInv, SlotsInv, Occupied
  <2>3. \A t, n \in Occupied' : func'[t] = func'[n] => t = n
    BY <1>6, <1>10, <2>2 DEF IndInv, MpxInv, ModeConsistent, Occupied
  <2>4. Cardinality(Occupied') \in Nat
    BY <2>1, <1>12 DEF TypeOK
  <2> QED
    BY <1>2, <1>8, <2>1, <2>3, <2>4 DEF ModeConsistent
<1>17. Control'
  BY <1>2, <1>7 DEF IndInv, MpxInv, TypeOK, Control, Inside
<1>18. SlotsInv'
  <2>1. ASSUME NEW t \in Slots
        PROVE  /\ copier'[t] # "none" => func'[t] # NULL
               /\ func'[t] # NULL => prog'[func'[t]] # "none"
               /\ Held(t)' => copier'[t] = "wait"
               /\ Single(pipe', t)
    <3>1. CASE t = m
      BY <1>2, <1>3, <1>5, <1>6, <1>8, <1>9, <3>1 DEF Held
    <3>2. CASE t # m
      <4>1. func[t] # NULL => func[t] \in Bufs /\ prog[func[t]] # "none"
        BY DEF IndInv, MpxInv, SlotsInv, TypeOK
      <4> QED
        BY <1>2, <1>6, <1>8, <1>9, <3>2, <4>1 DEF IndInv, MpxInv, SlotsInv, Held
    <3> QED
      BY <3>1, <3>2
  <2> QED
    BY <2>1 DEF SlotsInv
<1>19. LastPacket'
  <2>1. \A i \in 1 .. Len(pipe) : pipe[i].who # m
    BY <1>5 DEF From
  <2>2. LastTaken' => LastTaken
    BY <1>2, <1>7 DEF LastTaken
  <2> QED
    BY <1>2, <1>3, <1>6, <2>1, <2>2, Senders DEF IndInv, MpxInv, LastPacket
<1>20. Children'
  BY <1>2, <1>10 DEF IndInv, MpxInv, Children
<1> QED
  BY <1>12, <1>13, <1>14, <1>15, <1>16, <1>17, <1>18, <1>19, <1>20 DEF IndInv, MpxInv

(* The key of the command is acknowledged or forgotten with its task.      *)
LEMMA SuspendStep == ASSUME IndInv, MaxSteps <= 1, Suspend PROVE IndInv'
<1> USE DEF termVars, kbdVars, progVars, copyVars, kidVars, modeVars
<1>1. /\ at = "cmd" /\ steps = 0 /\ steps' = 1
      /\ UNCHANGED <<termVars, progVars, copyVars, pipe, kidVars, havec, pack, data,
                     modeVars, at, then, obj, x, siz, obufp, used, out>>
  <2>1. at = "cmd" /\ steps < MaxSteps /\ steps' = steps + 1
    BY DEF Suspend, More
  <2>2. steps \in Nat
    BY DEF IndInv, TypeOK
  <2>3. steps = 0
    BY <2>1, <2>2, MpxBoundAssumption
  <2>4. UNCHANGED <<termVars, progVars, copyVars, pipe, kidVars, havec, pack, data,
                     modeVars, at, then, obj, x, siz, obufp, used, out>>
    BY <2>1 DEF Suspend
  <2> QED
    BY <2>1, <2>3, <2>4
<1>2. CASE ackkbd
  <2>1. pack.who = Kbd /\ tty_accept # NO_MORE_DATA /\ ~have
    BY <1>1, <1>2 DEF IndInv, MpxInv, Control, Held
  <2>2. AckTo = Kbd
    BY <2>1 DEF AckTo
  <2>3. kbd' = "read" /\ key' = 0 /\ tty_accept' = NO_MORE_DATA /\ have' = FALSE
    BY <1>2 DEF Suspend, mpxresume
  <2>4. acks' = [t \in Tasks |-> IF t = Kbd THEN 0 ELSE acks[t]]
    BY <1>2, <2>2 DEF Suspend
  <2>5. acks'[Kbd] = 0 /\ \A t \in Slots : acks'[t] = acks[t]
    BY <2>4, TaskFacts
  <2>6. ~From(pipe, Kbd) /\ Single(pipe, Kbd)
    BY <1>2, <2>1 DEF IndInv, MpxInv, ModeConsistent, KbdCredit, Token, Held
  <2>7. TypeOK'
    <3>1. acks' \in [Tasks -> Nat]
      BY <2>4 DEF IndInv, TypeOK
    <3> QED
      BY <1>1, <2>3, <3>1 DEF IndInv, TypeOK
  <2>8. CopierCredit'
    BY <1>1, <2>1, <2>3, <2>5, TaskFacts DEF IndInv, MpxInv, CopierCredit, Token, Held
  <2>9. KbdCredit'
    BY <1>1, <2>3, <2>5, <2>6 DEF KbdCredit, Token, Held
  <2>10. ModeConsistent'
    BY <1>1, <1>2, <2>3 DEF IndInv, MpxInv, ModeConsistent, Occupied
  <2>11. Control'
    BY <1>1, <2>3 DEF IndInv, MpxInv, Control, Inside
  <2>12. SlotsInv'
    BY <1>1, <2>1, <2>3, TaskFacts DEF IndInv, MpxInv, SlotsInv, Held
  <2>13. LastTaken' => LastTaken
    BY <1>1, <2>3 DEF LastTaken
  <2> QED
    BY <1>1, <2>7, <2>8, <2>9, <2>10, <2>11, <2>12, <2>13, KeepOwned, KeepLast,
       KeepChildren DEF IndInv, MpxInv
<1>3. CASE ~ackkbd
  <2>1. UNCHANGED <<acks, tty_accept, have, kbdVars>>
    BY <1>3 DEF Suspend
  <2>2. TypeOK'
    BY <1>1, <2>1 DEF IndInv, TypeOK
  <2>3. Control'
    BY <1>1, <2>1 DEF IndInv, MpxInv, Control, Inside
  <2> QED
    BY <1>1, <2>1, <2>2, <2>3, KeepCredit, KeepKbd, KeepOwned, KeepMode, KeepSlots,
       KeepLast, KeepChildren DEF IndInv, MpxInv, LastTaken
<1> QED
  BY <1>2, <1>3

(***************************************************************************)
(* The theorem.                                                            *)
(***************************************************************************)

LEMMA Initially == Init => IndInv
<1> SUFFICES ASSUME Init PROVE IndInv
  OBVIOUS
<1> USE DEF Init
<1>1. TypeOK
  <2>1. tty \in Seq(Nat) /\ pipe \in Seq(Packet) /\ data \in Seq(Item) /\ Len(data) = 0
    OBVIOUS
  <2>2. pack \in Header
    BY TaskFacts DEF Header
  <2>3. out \in [Bufs -> Seq(Item)]
    OBVIOUS
  <2> QED
    <3>1. /\ prog \in [Bufs -> {"none", "runs", "exited"}]
          /\ written \in [Bufs -> Nat] /\ copied \in [Bufs -> Nat]
          /\ copier \in [Slots -> {"none", "read", "wait"}] /\ acks \in [Tasks -> Nat]
          /\ func \in [Slots -> Bufs \cup {NULL}]
      OBVIOUS
    <3>2. x \in 0 .. siz /\ siz \in 0 .. Len(data)
      BY <2>1
    <3>3. ackkbd \in BOOLEAN /\ have \in BOOLEAN
      OBVIOUS
    <3>4. tty_accept \in Nat \cup {NO_MORE_DATA}
      OBVIOUS
    <3> HIDE DEF Init
    <3>5. /\ typed \in Nat /\ key \in Nat /\ kbd \in {"off", "read", "write", "wait"}
          /\ exiting \in Nat /\ zombies \in Nat /\ at = "ack" /\ then = "get"
          /\ havec \in Nat /\ nmpx \in Nat /\ obj = NULL /\ obufp \in Nat
          /\ steps \in Nat /\ used \in Nat
      BY DEF Init
    <3> QED
      BY <2>1, <2>2, <2>3, <3>1, <3>2, <3>3, <3>4, <3>5 DEF TypeOK
<1>2. Occupied = {} /\ Ended = {}
  BY DEF Occupied, Ended
<1>3. CopierCredit /\ KbdCredit /\ PacketsOwned /\ SlotsInv /\ LastPacket
  BY EmptyPipe, TaskFacts
     DEF CopierCredit, KbdCredit, PacketsOwned, SlotsInv, LastPacket, LastTaken, Held
<1>4. ModeConsistent /\ Children
  BY <1>2, FS_EmptySet DEF ModeConsistent, Children
<1>5. Control
  BY DEF Control, Inside
<1> QED
  BY <1>1, <1>3, <1>4, <1>5 DEF IndInv, MpxInv

LEMMA Inductive == ASSUME IndInv, MaxSteps <= 1, [Next]_vars PROVE IndInv'
<1>1. CASE UNCHANGED vars
  <2> USE <1>1 DEF vars, sideVars, termVars, kbdVars, progVars, copyVars, kidVars, edVars,
                   packVars, modeVars, callVars
  <2>1. TypeOK'
    BY DEF IndInv, TypeOK
  <2> QED
    BY <2>1, KeepCredit, KeepKbd, KeepOwned, KeepMode, KeepControl, KeepSlots, KeepLast,
       KeepChildren DEF IndInv, MpxInv, LastTaken
<1>2. CASE Type \/ KbdTask
  BY <1>2, TypeStep, KbdReadStep, KbdWriteStep, KbdAckStep DEF KbdTask
<1>3. CASE Editor
  BY <1>3, AckStep, PollStep, GetKeyStep, GetPacketStep, DataStep, FlushStep, DiedStep,
     ReapStep, ForkStep, SuspendStep DEF Editor, Command
<1>4. ASSUME NEW b \in Bufs, Program(b) PROVE IndInv'
  BY <1>4, ProgWriteStep, ProgExitStep DEF Program
<1>5. CASE CopierExit
  BY <1>5, CopierExitStep
<1>6. ASSUME NEW m \in Slots, Copier(m) PROVE IndInv'
  BY <1>6, CopierReadStep, CopierAckStep, CopierEofStep DEF Copier
<1> QED
  BY <1>1, <1>2, <1>3, <1>4, <1>5, <1>6 DEF Next

(* The editor does not hang in mpxdied.                                    *)
LEMMA ChildLeft == ASSUME IndInv PROVE WaitReturns
<1> SUFFICES ASSUME at = "reap" PROVE exiting + zombies > 0
  BY DEF WaitReturns
<1>1. pack.who \in Ended
  BY Senders DEF IndInv, MpxInv, LastPacket, LastTaken, Ended, Occupied
<1>2. Cardinality(Ended) \in Nat /\ Cardinality(Ended) # 0
  BY <1>1, Counted, FS_EmptySet DEF IndInv
<1> QED
  BY <1>2 DEF IndInv, MpxInv, Children

(* As long as no command starts a program and suspends the editor as well, *)
(* whatever the number of buffers, slots and packets and however the       *)
(* processes interleave, every packet that is sent is acknowledged once    *)
(* and to its sender, it is for the program that has the slot, the         *)
(* multiplexer and the keyboard task run exactly while there are programs, *)
(* and there is a child to wait for when the editor waits for one.         *)
THEOREM MpxSafe ==
  ASSUME MaxSteps <= 1
  PROVE  Spec => [](/\ TypeOK /\ CopierCredit /\ KbdCredit /\ PacketsOwned
                    /\ ModeConsistent /\ WaitReturns)
<1>1. Init => IndInv
  BY Initially
<1>2. IndInv /\ [Next]_vars => IndInv'
  BY Inductive
<1>3. IndInv => /\ TypeOK /\ CopierCredit /\ KbdCredit /\ PacketsOwned
                /\ ModeConsistent /\ WaitReturns
  BY ChildLeft DEF IndInv, MpxInv
<1> QED
  BY <1>1, <1>2, <1>3, PTL DEF Spec

-----------------------------------------------------------------------------
(***************************************************************************)
(* What comes through the multiplexer comes in order: keys, and the output *)
(* of programs.  The invariant above says where packets can be; here it is *)
(* what they hold.                                                         *)
(***************************************************************************)

(***************************************************************************)
(* Keys.                                                                   *)
(***************************************************************************)

LEMMA KeepKeys ==
  ASSUME KeyOrder, UNCHANGED <<termVars, kbdVars, pipe, have, havec, pack, ackkbd, used>>
  PROVE  KeyOrder'
  BY DEF KeyOrder, Ahead, termVars, kbdVars

(* A packet of a copier joins the pipe, and no key moves.                  *)
LEMMA KeepKeysSend ==
  ASSUME IndInv, KeyOrder, NEW k \in Packet, k.who # Kbd, pipe' = Append(pipe, k),
         UNCHANGED <<termVars, kbdVars, have, havec, pack, ackkbd, used>>
  PROVE  KeyOrder'
<1>1. \A i \in 1 .. Len(pipe') : (i \in 1 .. Len(pipe) /\ pipe'[i] = pipe[i]) \/ pipe'[i] = k
  BY Sent DEF IndInv, TypeOK
<1> QED
  BY <1>1 DEF KeyOrder, Ahead, termVars, kbdVars

(* The first key is taken from the terminal: it is before the others, and  *)
(* what was ahead of it still is ahead of those.                           *)
LEMMA KeyTaken ==
  ASSUME IndInv, KeyOrder, tty # <<>>, tty' = Tail(tty), UNCHANGED <<typed, used>>
  PROVE  /\ \E k \in Nat : k = Head(tty) /\ Ahead(k)' /\ used < k
         /\ \A k \in Nat : Ahead(k) => Ahead(k)'
         /\ \A i \in 1 .. Len(tty') : used < tty'[i] /\ tty'[i] <= typed /\ Head(tty) < tty'[i]
         /\ \A i, j \in 1 .. Len(tty') : i < j => tty'[i] < tty'[j]
<1>1. tty \in Seq(Nat) /\ typed \in Nat /\ used \in Nat
  BY DEF IndInv, TypeOK
<1>2. /\ Len(tty) \in Nat \ {0} /\ Len(tty') = Len(tty) - 1 /\ Head(tty) = tty[1] /\ tty[1] \in Nat
      /\ \A i \in 1 .. Len(tty') : tty'[i] = tty[i + 1] /\ i + 1 \in 1 .. Len(tty)
  BY <1>1
<1>3. \A i \in 1 .. Len(tty') : used < tty'[i] /\ tty'[i] <= typed /\ tty[1] < tty'[i]
  BY <1>2 DEF KeyOrder
<1>4. \A i, j \in 1 .. Len(tty') : i < j => tty'[i] < tty'[j]
  BY <1>2 DEF KeyOrder
<1>5. used < tty[1] /\ tty[1] <= typed
  BY <1>2 DEF KeyOrder
<1>6. \A k \in Nat : Ahead(k) => Ahead(k)'
  BY <1>2 DEF Ahead
<1> QED
  BY <1>2, <1>3, <1>4, <1>5, <1>6 DEF Ahead

LEMMA KeysTyped ==
  ASSUME IndInv
  PROVE  /\ \A i \in 1 .. Len(pipe) : pipe[i].who = Kbd => pipe[i].ch \in Nat
         /\ have /\ ackkbd /\ pack.who = Kbd => pack.ch \in Nat
<1>1. \A i \in 1 .. Len(pipe) : pipe[i] \in Packet
  BY DEF IndInv, TypeOK
<1>2. \A p \in Packet : p.ch \in Nat \/ p.ch = NO_MORE_DATA
  BY DEF Packet
<1>3. pack.ch \in Nat \/ pack.ch = NO_MORE_DATA
  BY DEF IndInv, TypeOK, Header
<1> QED
  BY <1>1, <1>2, <1>3 DEF IndInv, MpxInv, LastPacket, LastTaken

LEMMA TypeKeys == ASSUME IndInv, KeyOrder, Type PROVE KeyOrder'
<1> USE DEF Type, kbdVars, edVars, packVars, modeVars
<1>1. /\ tty \in Seq(Nat) /\ typed \in Nat /\ used \in Nat
      /\ tty' = Append(tty, typed + 1) /\ typed' = typed + 1
  BY DEF IndInv, TypeOK
<1>2. Len(tty') = Len(tty) + 1 /\ Len(tty) \in Nat /\ tty'[Len(tty) + 1] = typed + 1
  BY <1>1
<1>3. \A i \in 1 .. Len(tty) : tty'[i] = tty[i] /\ tty[i] \in Nat
  BY <1>1
<1>4. \A i \in 1 .. Len(tty') : i \in 1 .. Len(tty) \/ i = Len(tty) + 1
  BY <1>2
<1>5. \A k \in Nat : Ahead(k) => Ahead(k)'
  BY <1>1, <1>2, <1>3, <1>4 DEF Ahead
<1>6. /\ \A i \in 1 .. Len(tty') : used < tty'[i] /\ tty'[i] <= typed'
      /\ \A i, j \in 1 .. Len(tty') : i < j => tty'[i] < tty'[j]
  BY <1>1, <1>2, <1>3, <1>4 DEF KeyOrder
<1>7. used' <= typed' /\ (kbd' = "write" => Ahead(key)')
  BY <1>1, <1>5 DEF KeyOrder, IndInv, TypeOK
<1>8. (\A i \in 1 .. Len(pipe) : pipe[i].who = Kbd => Ahead(pipe[i].ch))'
  BY <1>5, KeysTyped DEF KeyOrder
<1>9. /\ (have /\ ackkbd /\ pack.who = Kbd => Ahead(pack.ch))'
      /\ (have /\ ~ackkbd => Ahead(havec))'
  BY <1>5, KeysTyped DEF KeyOrder, IndInv, TypeOK
<1> QED
  BY <1>6, <1>7, <1>8, <1>9 DEF KeyOrder

LEMMA KbdReadKeys == ASSUME IndInv, KeyOrder, KbdRead PROVE KeyOrder'
<1> USE DEF KbdRead, progVars, edVars, packVars, modeVars
<1>1. ackkbd /\ ~From(pipe, Kbd) /\ ~Held(Kbd)
  BY DEF IndInv, MpxInv, KbdCredit, Token, ModeConsistent
<1>2. \A i \in 1 .. Len(pipe) : pipe[i].who # Kbd
  BY <1>1 DEF From
<1>3. ~(have /\ pack.who = Kbd)
  BY <1>1, TaskFacts DEF IndInv, MpxInv, Control, Held, LastPacket, LastTaken
<1> QED
  BY <1>1, <1>2, <1>3, KeyTaken DEF KeyOrder, IndInv, TypeOK

LEMMA KbdWriteKeys == ASSUME IndInv, KeyOrder, KbdWrite PROVE KeyOrder'
<1> USE DEF KbdWrite, termVars, edVars, packVars, modeVars
<1> DEFINE k == [who |-> Kbd, ch |-> key, data |-> <<>>]
<1>1. k \in Packet /\ pipe' = Append(pipe, k)
  BY TaskFacts DEF Packet, Send, IndInv, TypeOK
<1>2. \A i \in 1 .. Len(pipe') : (i \in 1 .. Len(pipe) /\ pipe'[i] = pipe[i]) \/ pipe'[i] = k
  BY <1>1, Sent DEF IndInv, TypeOK
<1> QED
  BY <1>2 DEF KeyOrder, Ahead

LEMMA KbdAckKeys == ASSUME IndInv, KeyOrder, KbdAck PROVE KeyOrder'
  BY DEF KeyOrder, Ahead, KbdAck, termVars, edVars, packVars, modeVars

LEMMA CopierReadKeys == ASSUME IndInv, KeyOrder, NEW m \in Slots, CopierRead(m) PROVE KeyOrder'
<1>1. func[m] \in Bufs
  BY CopierNeedsMpx DEF CopierRead, IndInv
<1>2. PICK n \in copied[func[m]] + 1 .. written[func[m]] :
        Send(m, 0, Output(func[m], copied[func[m]], n))
  BY DEF CopierRead
<1>3. Output(func[m], copied[func[m]], n) \in Seq(Item)
  BY <1>1, OutputType DEF IndInv, TypeOK
<1> DEFINE k == [who |-> m, ch |-> 0, data |-> Output(func[m], copied[func[m]], n)]
<1>4. k \in Packet /\ k.who # Kbd /\ pipe' = Append(pipe, k)
  BY <1>2, <1>3, TaskFacts DEF Packet, Send
<1> HIDE DEF k
<1> QED
  BY <1>4, KeepKeysSend DEF CopierRead, edVars, packVars, modeVars

LEMMA CopierEofKeys == ASSUME IndInv, KeyOrder, NEW m \in Slots, CopierEof(m) PROVE KeyOrder'
<1> DEFINE k == [who |-> m, ch |-> NO_MORE_DATA, data |-> <<>>]
<1>1. k \in Packet /\ k.who # Kbd /\ pipe' = Append(pipe, k)
  BY TaskFacts DEF CopierEof, Packet, Send
<1> HIDE DEF k
<1> QED
  BY <1>1, KeepKeysSend DEF CopierEof, edVars, packVars, modeVars

(* A packet is read: the key in it, if any, stays where it is in the order.*)
LEMMA ReadKeys ==
  ASSUME IndInv, KeyOrder, pipe # <<>>, Read(Head(pipe))
  PROVE  /\ pack'.who = Kbd => Ahead(pack'.ch)
         /\ \A i \in 1 .. Len(pipe') : pipe'[i].who = Kbd => Ahead(pipe'[i].ch)
<1>1. /\ Head(pipe) = pipe[1] /\ 1 \in 1 .. Len(pipe)
      /\ \A i \in 1 .. Len(pipe') : i + 1 \in 1 .. Len(pipe) /\ pipe'[i] = pipe[i + 1]
  BY Taken DEF IndInv, TypeOK, Read
<1> QED
  BY <1>1 DEF Read, KeyOrder

LEMMA PollKeys == ASSUME IndInv, KeyOrder, Poll PROVE KeyOrder'
<1> USE DEF Poll, kbdVars, progVars, copyVars, kidVars, modeVars, packVars
<1>1. CASE have
  BY <1>1, KeepKeys DEF termVars
<1>2. CASE ~have /\ ackkbd
  <2>1. CASE pipe = <<>>
    BY <1>2, <2>1, KeepKeys DEF termVars
  <2>2. CASE pipe # <<>>
    BY <1>2, <2>2, ReadKeys DEF KeyOrder, Ahead
  <2> QED
    BY <2>1, <2>2
<1>3. CASE ~have /\ ~ackkbd
  <2>1. CASE tty = <<>>
    BY <1>3, <2>1, KeepKeys DEF termVars
  <2>2. CASE tty # <<>>
    <3>1. tty' = Tail(tty) /\ havec' = Head(tty) /\ UNCHANGED <<typed, used, pipe, kbd, ackkbd>>
      BY <1>3, <2>2
    <3>2. pipe = <<>> /\ kbd = "off"
      BY <1>3 DEF IndInv, MpxInv, Control, ModeConsistent
    <3> QED
      BY <1>3, <2>2, <3>1, <3>2, KeyTaken DEF KeyOrder
  <2> QED
    BY <2>1, <2>2
<1> QED
  BY <1>1, <1>2, <1>3

(* A key is executed: it was the first of those on their way.              *)
LEMMA GetKeyKeys == ASSUME IndInv, KeyOrder, GetKey PROVE KeyOrder' /\ (at' = "cmd" => used' > used)
<1> USE DEF GetKey, kbdVars, progVars, copyVars, kidVars, modeVars, Execute
<1>1. pipe = <<>> /\ kbd = "off" /\ ~ackkbd /\ used \in Nat /\ havec \in Nat
  BY DEF IndInv, MpxInv, Control, ModeConsistent, TypeOK
<1>2. CASE have
  BY <1>1, <1>2 DEF KeyOrder, Ahead
<1>3. CASE ~have
  <2>1. tty # <<>> /\ tty' = Tail(tty) /\ UNCHANGED <<typed, pipe, kbd, ackkbd>>
    BY <1>3
  <2>2. used' = Head(tty) /\ Head(tty) \in Nat
    BY <1>3, <2>1 DEF IndInv, TypeOK
  <2>3. /\ Len(tty) \in Nat \ {0} /\ Head(tty) = tty[1] /\ 1 \in 1 .. Len(tty)
        /\ \A i \in 1 .. Len(tty') : tty'[i] = tty[i + 1] /\ i + 1 \in 1 .. Len(tty) /\ 1 < i + 1
    BY <2>1 DEF IndInv, TypeOK
  <2>4. used < used' /\ used' <= typed'
    BY <2>1, <2>2, <2>3 DEF KeyOrder
  <2>5. \A i \in 1 .. Len(tty') : used' < tty'[i] /\ tty'[i] <= typed'
    BY <2>1, <2>2, <2>3 DEF KeyOrder
  <2>6. \A i, j \in 1 .. Len(tty') : i < j => tty'[i] < tty'[j]
    BY <2>3 DEF KeyOrder
  <2> QED
    BY <1>1, <1>3, <2>1, <2>4, <2>5, <2>6 DEF KeyOrder
<1> QED
  BY <1>2, <1>3

LEMMA GetPacketKeys ==
  ASSUME IndInv, IndInv', KeyOrder, GetPacket PROVE KeyOrder' /\ (at' = "cmd" => used' > used)
<1> USE DEF GetPacket, sideVars, termVars, kbdVars, modeVars
<1>1. /\ pack'.who = Kbd => Ahead(pack'.ch)
      /\ \A i \in 1 .. Len(pipe') : pipe'[i].who = Kbd => Ahead(pipe'[i].ch)
  <2>1. CASE have
    BY <2>1 DEF KeyOrder
  <2>2. CASE ~have
    BY <2>2, ReadKeys DEF Read
  <2> QED
    BY <2>1, <2>2
<1>2. CASE pack'.who # Kbd \/ pack'.ch = NO_MORE_DATA
  <2>1. at' # "cmd" /\ UNCHANGED <<used, typed, tty, kbd, key, ackkbd>> /\ ~have'
    BY <1>2 DEF Dispatch
  <2> QED
    BY <1>1, <2>1 DEF KeyOrder, Ahead
<1>3. CASE pack'.who = Kbd /\ pack'.ch # NO_MORE_DATA
  <2>1. used' = tty_accept' /\ at' = "cmd" /\ steps' = 0 /\ ~have'
    BY <1>3 DEF Dispatch, Execute
  <2>2. tty_accept' = pack'.ch
    <3>1. CASE have
      BY <3>1 DEF IndInv, MpxInv, Control
    <3>2. CASE ~have
      BY <3>2 DEF Read
    <3> QED
      BY <3>1, <3>2
  <2>3. used < used' /\ used' <= typed /\ \A i \in 1 .. Len(tty) : used' < tty[i]
    BY <1>1, <1>3, <2>1, <2>2 DEF Ahead
  <2>4. kbd' = "wait" \/ kbd' = "off"
    BY <1>3, <2>2 DEF IndInv, MpxInv, KbdCredit, Token, Held, TypeOK
  <2>5. ~From(pipe', Kbd)
    BY <1>3, <2>2 DEF IndInv, MpxInv, KbdCredit, Token, Held
  <2>6. \A i \in 1 .. Len(pipe') : pipe'[i].who # Kbd
    BY <2>5 DEF From
  <2>7. UNCHANGED <<typed, tty, kbd, key, ackkbd>>
    OBVIOUS
  <2> QED
    BY <2>1, <2>3, <2>4, <2>6, <2>7 DEF KeyOrder
<1> QED
  BY <1>2, <1>3

LEMMA DiedKeys == ASSUME IndInv, KeyOrder, Died PROVE KeyOrder'
<1> USE DEF Died, mpxend, termVars, progVars, copyVars, kidVars
<1>1. ~have
  BY DEF IndInv, MpxInv, Control
<1>2. CASE nmpx' = 0
  BY <1>1, <1>2 DEF KeyOrder, Ahead
<1>3. CASE nmpx' # 0
  BY <1>1, <1>3 DEF KeyOrder, Ahead
<1> QED
  BY <1>2, <1>3

LEMMA ForkKeys == ASSUME IndInv, KeyOrder, Fork PROVE KeyOrder'
<1> USE DEF Fork, mpxresume, termVars, kbdVars, kidVars
<1>1. CASE ackkbd
  BY <1>1 DEF KeyOrder, Ahead
<1>2. CASE ~ackkbd
  <2>1. pipe = <<>>
    BY <1>2 DEF IndInv, MpxInv, Control
  <2> QED
    BY <1>2, <2>1 DEF KeyOrder, Ahead
<1> QED
  BY <1>1, <1>2

LEMMA SuspendKeys == ASSUME IndInv, KeyOrder, Suspend PROVE KeyOrder'
  BY DEF KeyOrder, Ahead, Suspend, mpxresume, termVars, progVars, copyVars, kidVars, modeVars, kbdVars

(* Keys stay in order whatever happens, and one that is executed is behind *)
(* the one executed before.                                                *)
LEMMA KeysStep ==
  ASSUME IndInv, IndInv', KeyOrder, [Next]_vars
  PROVE  KeyOrder' /\ (at = "get" /\ at' = "cmd" => used' > used)
<1> USE DEF vars, sideVars, termVars, kbdVars, progVars, copyVars, packVars, modeVars, callVars,
            kidVars, edVars
<1>1. CASE Type
  BY <1>1, TypeKeys DEF Type
<1>2. CASE KbdTask
  BY <1>2, KbdReadKeys, KbdWriteKeys, KbdAckKeys DEF KbdTask, KbdRead, KbdWrite, KbdAck
<1>3. CASE Ack \/ Data \/ DataEnd \/ Reap \/ CmdEnd \/ \E b \in Bufs : Run(b)
  BY <1>3, KeepKeys DEF Ack, Data, DataEnd, Reap, CmdEnd, Run, Flush, More
<1>4. CASE Poll
  BY <1>4, PollKeys DEF Poll
<1>5. CASE GetKey
  BY <1>5, GetKeyKeys
<1>6. CASE GetPacket
  BY <1>6, GetPacketKeys
<1>7. CASE Died
  BY <1>7, DiedKeys DEF Died
<1>8. CASE Fork
  BY <1>8, ForkKeys DEF Fork
<1>9. CASE Suspend
  BY <1>9, SuspendKeys DEF Suspend, More
<1>10. CASE \E b \in Bufs : Program(b)
  BY <1>10, KeepKeys DEF Program, ProgWrite, ProgExit
<1>11. CASE CopierExit
  BY <1>11, KeepKeys DEF CopierExit
<1>12. CASE \E m \in Slots : Copier(m)
  <2>1. PICK m \in Slots : Copier(m)
    BY <1>12
  <2>2. CASE CopierAck(m)
    BY <2>2, KeepKeys DEF CopierAck
  <2> QED
    BY <2>1, <2>2, CopierReadKeys, CopierEofKeys DEF Copier, CopierRead, CopierEof
<1>13. CASE UNCHANGED vars
  BY <1>13, KeepKeys
<1> QED
  BY <1>1, <1>2, <1>3, <1>4, <1>5, <1>6, <1>7, <1>8, <1>9, <1>10, <1>11, <1>12, <1>13
     DEF Next, Editor, Command

(* Keys are executed in the order they were typed and none twice, whether  *)
(* they come from the terminal, from the multiplexer, or were read ahead   *)
(* by either, while programs start and end: for any number of programs.    *)
THEOREM KeysArriveInOrder ==
  ASSUME MaxSteps <= 1
  PROVE  Spec => KeysInOrder
<1> DEFINE OrderInv == IndInv /\ KeyOrder
<1>1. Init => OrderInv
  BY Initially DEF Init, KeyOrder, Ahead
<1>2. OrderInv /\ [Next]_vars => OrderInv'
  BY Inductive, KeysStep
<1>3. OrderInv /\ [Next]_vars => [at = "get" /\ at' = "cmd" => used' > used]_vars
  BY Inductive, KeysStep
<1> QED
  BY <1>1, <1>2, <1>3, PTL DEF Spec, KeysInOrder

(***************************************************************************)
(* Output.  From here on an output buffer is larger than a packet, so that *)
(* the bells in one packet do not flush it.                                *)
(***************************************************************************)

ShowInv == IndInv /\ Unflushed /\ Delivery

LEMMA OutputIs ==
  ASSUME NEW b \in Bufs, NEW i \in Nat, NEW j \in Nat, i <= j
  PROVE  /\ Output(b, i, j) \in Seq(Item) /\ Len(Output(b, i, j)) = j - i
         /\ \A k \in 1 .. j - i : Output(b, i, j)[k] = [buf |-> b, n |-> i + k]
<1> DEFINE o == Output(b, i, j)
<1>1. o \in [1 .. j - i -> Item] /\ j - i \in Nat
  BY DEF Output, Item
<1>2. o \in Seq(Item) /\ Len(o) = j - i
  BY <1>1, SeqDef
<1> QED
  BY <1>2 DEF Output

(* A sequence of the items i + 1 .. j is that output.                      *)
LEMMA OutputEqual ==
  ASSUME NEW b \in Bufs, NEW i \in Nat, NEW j \in Nat, i <= j,
         NEW s \in Seq(Item), Len(s) = j - i,
         \A k \in 1 .. j - i : s[k] = [buf |-> b, n |-> i + k]
  PROVE  s = Output(b, i, j)
<1>1. Output(b, i, j) \in Seq(Item) /\ Len(Output(b, i, j)) = j - i
  BY OutputIs
<1>2. \A k \in 1 .. Len(s) : s[k] = Output(b, i, j)[k]
  BY OutputIs
<1> QED
  BY <1>1, <1>2, SeqEqual

LEMMA OutputNone ==
  ASSUME NEW b \in Bufs, NEW i \in Nat
  PROVE  Output(b, i, i) = <<>>
<1>1. Output(b, i, i) \in Seq(Item) /\ Len(Output(b, i, i)) = i - i
  BY OutputIs
<1> QED
  BY <1>1, EmptySeq

LEMMA OutputMore ==
  ASSUME NEW b \in Bufs, NEW j \in Nat
  PROVE  Append(Output(b, 0, j), [buf |-> b, n |-> j + 1]) = Output(b, 0, j + 1)
<1> DEFINE o == Output(b, 0, j)
           it == [buf |-> b, n |-> j + 1]
           s == Append(o, it)
<1>1. o \in Seq(Item) /\ Len(o) = j /\ \A k \in 1 .. j : o[k] = [buf |-> b, n |-> 0 + k]
  <2>1. 0 \in Nat /\ 0 <= j /\ j - 0 = j
    OBVIOUS
  <2>2. /\ Output(b, 0, j) \in Seq(Item) /\ Len(Output(b, 0, j)) = j - 0
        /\ \A k \in 1 .. j - 0 : Output(b, 0, j)[k] = [buf |-> b, n |-> 0 + k]
    BY <2>1, OutputIs
  <2> QED
    BY <2>1, <2>2
<1>2. it \in Item
  BY DEF Item
<1> HIDE DEF o, it
<1>3. s \in Seq(Item) /\ Len(s) = j + 1 /\ s[j + 1] = it /\ \A k \in 1 .. j : s[k] = o[k]
  BY <1>1, <1>2
<1>4. \A k \in 1 .. j + 1 - 0 : s[k] = [buf |-> b, n |-> 0 + k]
  <2> TAKE k \in 1 .. j + 1 - 0
  <2>1. CASE k = j + 1
    BY <1>3, <2>1 DEF it
  <2>2. CASE k # j + 1
    <3>1. k \in 1 .. j
      BY <2>2
    <3> QED
      BY <1>1, <1>3, <3>1
  <2> QED
    BY <2>1, <2>2
<1> HIDE DEF s
<1>5. s = Output(b, 0, j + 1)
  BY <1>3, <1>4, OutputEqual, 0 \in Nat, j + 1 \in Nat
<1> QED
  BY <1>5 DEF s, o, it

LEMMA Lengths ==
  ASSUME TypeOK, NEW b \in Bufs
  PROVE  /\ out[b] \in Seq(Item) /\ Len(out[b]) \in Nat
         /\ copied[b] \in Nat /\ written[b] \in Nat
  BY DEF TypeOK

(* A buffer that a slot serves, and no other slot does.                    *)
LEMMA Serves ==
  ASSUME IndInv, NEW m \in Slots, func[m] # NULL
  PROVE  /\ func[m] \in Bufs /\ prog[func[m]] # "none"
         /\ \A s \in Slots : func[s] = func[m] => s = m
<1>1. func[m] \in Bufs
  BY DEF IndInv, TypeOK
<1>2. m \in Occupied
  BY DEF Occupied
<1>3. \A s \in Slots : func[s] = func[m] => s \in Occupied
  BY DEF Occupied
<1> QED
  BY <1>1, <1>2, <1>3 DEF IndInv, MpxInv, ModeConsistent, SlotsInv

LEMMA KeepBuffers ==
  ASSUME \A b \in Bufs : InBuffer(b), UNCHANGED <<out, copied, written, prog>>
  PROVE  (\A b \in Bufs : InBuffer(b))'
  BY DEF InBuffer

LEMMA KeepDelivery ==
  ASSUME Delivery,
         UNCHANGED <<out, copied, written, prog, func, pipe, have, pack, data, x, siz>>,
         ackkbd' = ackkbd, at' = "data" <=> at = "data",
         \A m \in Slots : copier'[m] = "none" <=> copier[m] = "none"
  PROVE  Delivery'
<1>1. \A m \in Slots : func[m] # NULL => UnderWay(m, func[m])'
  BY DEF Delivery, UnderWay, Unshown, Prefetched, Unpacked, Holds
<1> QED
  BY <1>1, KeepBuffers DEF Delivery

(* A packet joins the pipe: to the other slots nothing changes.            *)
LEMMA KeepUnderWay ==
  ASSUME IndInv, Delivery, NEW k \in Packet, pipe' = Append(pipe, k),
         NEW m \in Slots, m # k.who, func[m] # NULL, copier'[m] = copier[m],
         copied'[func[m]] = copied[func[m]],
         UNCHANGED <<out, written, prog, func, have, ackkbd, pack, data, at, x, siz>>
  PROVE  UnderWay(m, func[m])'
<1>1. /\ \A i \in 1 .. Len(pipe') : (i \in 1 .. Len(pipe) /\ pipe'[i] = pipe[i]) \/ pipe'[i] = k
      /\ From(pipe', m) <=> From(pipe, m)
  BY Sent, TaskFacts DEF IndInv, TypeOK
<1>2. UnderWay(m, func[m])
  BY DEF Delivery
<1> QED
  BY <1>1, <1>2 DEF UnderWay, Unshown, Prefetched, Unpacked, Holds

LEMMA KeepUnflushed ==
  ASSUME Unflushed, UNCHANGED <<at, then, obufp, x, siz, obj, tty_accept, pack, func, have>>
  PROVE  Unflushed'
  BY DEF Unflushed, Held

LEMMA KbdWriteShow == ASSUME ShowInv, KbdWrite PROVE Delivery'
<1> USE DEF KbdWrite, termVars, edVars, packVars, modeVars, copyVars, progVars, callVars
<1> DEFINE k == [who |-> Kbd, ch |-> key, data |-> <<>>]
<1>1. k \in Packet /\ pipe' = Append(pipe, k) /\ k.who = Kbd
  BY TaskFacts DEF Packet, Send, ShowInv, IndInv, TypeOK
<1> HIDE DEF k
<1>2. \A m \in Slots : func[m] # NULL => UnderWay(m, func[m])'
  BY <1>1, KeepUnderWay, TaskFacts DEF ShowInv
<1> QED
  BY <1>2, KeepBuffers DEF ShowInv, Delivery

LEMMA ProgWriteShow == ASSUME ShowInv, NEW b \in Bufs, ProgWrite(b) PROVE Delivery'
<1> USE DEF ProgWrite, termVars, edVars, packVars, modeVars, copyVars, callVars
<1>1. /\ written' = [written EXCEPT ![b] = written[b] + 1] /\ written \in [Bufs -> Nat]
      /\ \A c \in Bufs : copied[c] \in Nat
  BY DEF ShowInv, IndInv, TypeOK
<1>2. \A c \in Bufs : InBuffer(c)'
  BY <1>1, MpxBoundAssumption DEF InBuffer, ShowInv, Delivery
<1>3. ASSUME NEW m \in Slots, func[m] # NULL PROVE UnderWay(m, func[m])'
  <2>1. UnderWay(m, func[m]) /\ func[m] \in Bufs
    BY <1>3, Serves DEF ShowInv, Delivery
  <2>2. copier[m] = "none" => func[m] # b
    BY <2>1 DEF UnderWay
  <2> QED
    BY <1>1, <2>1, <2>2 DEF UnderWay, Unshown, Prefetched, Unpacked, Holds
<1> QED
  BY <1>2, <1>3 DEF Delivery

LEMMA ProgExitShow == ASSUME ShowInv, NEW b \in Bufs, ProgExit(b) PROVE Delivery'
<1> USE DEF ProgExit, termVars, edVars, packVars, modeVars, copyVars, callVars
<1>1. prog' = [prog EXCEPT ![b] = "exited"] /\ prog \in [Bufs -> {"none", "runs", "exited"}]
  BY DEF ShowInv, IndInv, TypeOK
<1>2. \A c \in Bufs : InBuffer(c)'
  BY <1>1 DEF InBuffer, ShowInv, Delivery
<1>3. ASSUME NEW m \in Slots, func[m] # NULL PROVE UnderWay(m, func[m])'
  <2>1. UnderWay(m, func[m]) /\ func[m] \in Bufs
    BY <1>3, Serves DEF ShowInv, Delivery
  <2> QED
    BY <1>1, <2>1 DEF UnderWay, Unshown, Prefetched, Unpacked, Holds
<1> QED
  BY <1>2, <1>3 DEF Delivery

(* While a copier reads, all that it has read is in the buffer.            *)
LEMMA ReadingShown ==
  ASSUME ShowInv, NEW m \in Slots, copier[m] = "read"
  PROVE  /\ func[m] # NULL /\ func[m] \in Bufs /\ UnderWay(m, func[m])
         /\ ~From(pipe, m) /\ ~Prefetched(m) /\ ~Unpacked(m) /\ Unshown(func[m]) = 0
         /\ copied[func[m]] = Len(out[func[m]])
<1>1. func[m] # NULL /\ func[m] \in Bufs
  BY Serves DEF ShowInv, IndInv, MpxInv, SlotsInv
<1>2. ~From(pipe, m) /\ ~Held(m)
  BY DEF ShowInv, IndInv, MpxInv, CopierCredit, Token
<1>3. ~Prefetched(m)
  BY <1>2 DEF Prefetched, Held, ShowInv, IndInv, MpxInv, Control, LastPacket, LastTaken
<1>4. ~Unpacked(m)
  BY <1>2 DEF Unpacked, ShowInv, Unflushed
<1>5. UnderWay(m, func[m])
  BY <1>1 DEF ShowInv, Delivery
<1>6. Unshown(func[m]) = 0
  BY <1>2, <1>3, <1>4, <1>5 DEF UnderWay
<1> QED
  BY <1>1, <1>2, <1>3, <1>4, <1>5, <1>6, Lengths DEF Unshown, ShowInv, IndInv

LEMMA CopierReadShow == ASSUME ShowInv, NEW m \in Slots, CopierRead(m) PROVE Delivery'
<1> USE DEF CopierRead, termVars, edVars, packVars, modeVars, progVars, callVars
<1> DEFINE b == func[m]
<1>1. /\ b # NULL /\ b \in Bufs /\ copied[b] = Len(out[b]) /\ copier[m] = "read"
      /\ ~From(pipe, m) /\ ~Prefetched(m) /\ ~Unpacked(m)
  BY ReadingShown
<1>2. PICK n \in copied[b] + 1 .. written[b] :
        n - copied[b] <= Chunk /\ Send(m, 0, Output(b, copied[b], n)) /\ copied' = [copied EXCEPT ![b] = n]
  OBVIOUS
<1>3. /\ n \in Nat /\ copied[b] \in Nat /\ copied[b] <= n /\ written[b] \in Nat /\ n <= written[b]
      /\ Len(out[b]) \in Nat
  BY <1>1, Lengths DEF ShowInv, IndInv
<1>4. Output(b, copied[b], n) \in Seq(Item)
  BY <1>1, <1>3, OutputType
<1> DEFINE k == [who |-> m, ch |-> 0, data |-> Output(b, copied[b], n)]
<1>5. /\ k \in Packet /\ k.who = m /\ pipe' = Append(pipe, k)
      /\ k.data = Output(b, copied[b], n)
  BY <1>2, <1>4, TaskFacts DEF Packet, Send
<1> HIDE DEF k
<1>6. copied \in [Bufs -> Nat] /\ copier \in [Slots -> {"none", "read", "wait"}]
  BY DEF ShowInv, IndInv, TypeOK
<1>7. \A c \in Bufs : InBuffer(c)'
  BY <1>1, <1>2, <1>3, <1>6 DEF InBuffer, ShowInv, Delivery
<1>8. ASSUME NEW s \in Slots, func[s] # NULL, s # m PROVE UnderWay(s, func[s])'
  <2>1. func[s] # b /\ func[s] \in Bufs
    BY <1>1, <1>8, Serves DEF ShowInv
  <2> QED
    BY <1>2, <1>5, <1>6, <1>8, <2>1, KeepUnderWay DEF ShowInv
<1>9. UnderWay(m, func[m])'
  <2>1. copied'[b] = n /\ func'[m] = b /\ copier'[m] = "wait"
    BY <1>1, <1>2, <1>6
  <2>2. Unshown(b)' <= Chunk
    BY <1>1, <1>2, <2>1 DEF Unshown
  <2>3. /\ \A i \in 1 .. Len(pipe') : pipe'[i].who = m => pipe'[i].data = Output(b, Len(out[b]), n)
        /\ From(pipe', m)
    <3>1. /\ \A i \in 1 .. Len(pipe') :
                (i \in 1 .. Len(pipe) /\ pipe'[i] = pipe[i]) \/ pipe'[i] = k
          /\ From(pipe', m) <=> From(pipe, m) \/ m = k.who
      BY <1>5, Sent, TaskFacts DEF ShowInv, IndInv, TypeOK
    <3> QED
      BY <1>1, <1>5, <3>1 DEF From
  <2>4. ~Prefetched(m)' /\ ~Unpacked(m)'
    BY <1>1 DEF Prefetched, Unpacked
  <2> QED
    BY <2>1, <2>2, <2>3, <2>4 DEF UnderWay
<1> QED
  BY <1>7, <1>8, <1>9 DEF Delivery

LEMMA CopierEofShow == ASSUME ShowInv, NEW m \in Slots, CopierEof(m) PROVE Delivery'
<1> USE DEF CopierEof, termVars, edVars, packVars, modeVars, progVars, callVars
<1> DEFINE b == func[m]
           k == [who |-> m, ch |-> NO_MORE_DATA, data |-> <<>>]
<1>1. /\ b # NULL /\ b \in Bufs /\ copied[b] = Len(out[b]) /\ Unshown(b) = 0
      /\ ~From(pipe, m) /\ ~Prefetched(m) /\ ~Unpacked(m)
  BY ReadingShown
<1>2. k \in Packet /\ k.who = m /\ pipe' = Append(pipe, k) /\ k.data = <<>>
  BY TaskFacts DEF Packet, Send
<1>3. Output(b, copied[b], copied[b]) = <<>>
  BY <1>1, OutputNone, Lengths DEF ShowInv, IndInv
<1> HIDE DEF k
<1>4. ASSUME NEW s \in Slots, func[s] # NULL, s # m PROVE UnderWay(s, func[s])'
  BY <1>2, <1>4, KeepUnderWay DEF ShowInv, IndInv, TypeOK
<1>5. UnderWay(m, func[m])'
  <2>1. /\ \A i \in 1 .. Len(pipe') :
              (i \in 1 .. Len(pipe) /\ pipe'[i] = pipe[i]) \/ pipe'[i] = k
        /\ From(pipe', m) <=> From(pipe, m) \/ m = k.who
    BY <1>2, Sent, TaskFacts DEF ShowInv, IndInv, TypeOK
  <2>2. \A i \in 1 .. Len(pipe') : pipe'[i].who = m => pipe'[i].data = Output(b, Len(out[b]), copied[b])
    BY <1>1, <1>2, <1>3, <2>1 DEF From
  <2>3. Unshown(b)' = 0 /\ Unshown(b)' <= Chunk
    BY <1>1, SlotAssumption DEF Unshown
  <2>4. ~Prefetched(m)' /\ ~Unpacked(m)'
    BY <1>1 DEF Prefetched, Unpacked
  <2> QED
    BY <2>2, <2>3, <2>4 DEF UnderWay
<1> QED
  BY <1>4, <1>5, KeepBuffers DEF ShowInv, Delivery

(* A packet that is read from the pipe for slot m holds what its buffer    *)
(* does not show yet, and for the other slots nothing changes.             *)
LEMMA ReadShow ==
  ASSUME ShowInv, ackkbd, ~have, at # "data", pipe # <<>>, Read(Head(pipe)),
         UNCHANGED <<out, copied, written, prog, copier, func>>
  PROVE  /\ pack'.who \in Tasks
         /\ pack'.who # Kbd => /\ pack'.who \in Slots /\ func[pack'.who] # NULL
                               /\ Holds(func[pack.who], 0, pack.size)'
                               /\ Unshown(func[pack'.who]) <= Chunk /\ ~From(pipe', pack'.who)
                               /\ pack'.ch = NO_MORE_DATA => copier[pack'.who] = "none"
         /\ \A m \in Slots : m # pack'.who /\ func[m] # NULL =>
              /\ From(pipe', m) \/ Unshown(func[m]) = 0
              /\ \A i \in 1 .. Len(pipe') : pipe'[i].who = m =>
                   pipe'[i].data = Output(func[m], Len(out[func[m]]), copied[func[m]])
                   /\ Unshown(func[m]) <= Chunk
<1>1. /\ pipe' = Tail(pipe) /\ pack'.who = Head(pipe).who /\ pack'.size = Len(Head(pipe).data)
      /\ pack'.ch = Head(pipe).ch
      /\ data' = Head(pipe).data \o SubSeq(data, Len(Head(pipe).data) + 1, Len(data))
  BY DEF Read
<1>2. /\ Head(pipe) = pipe[1] /\ 1 \in 1 .. Len(pipe) /\ Head(pipe) \in Packet
      /\ From(pipe, Head(pipe).who)
      /\ \A t \in Tasks : t # Head(pipe).who => (From(pipe', t) <=> From(pipe, t))
      /\ Single(pipe, Head(pipe).who) => ~From(pipe', Head(pipe).who)
      /\ \A i \in 1 .. Len(pipe') : i + 1 \in 1 .. Len(pipe) /\ pipe'[i] = pipe[i + 1]
  BY <1>1, Taken DEF ShowInv, IndInv, TypeOK
<1>3. pack'.who \in Tasks
  BY <1>1, <1>2 DEF Packet
<1>4. ASSUME pack'.who # Kbd
      PROVE  /\ pack'.who \in Slots /\ func[pack'.who] # NULL
             /\ Holds(func[pack.who], 0, pack.size)'
             /\ Unshown(func[pack'.who]) <= Chunk /\ ~From(pipe', pack'.who)
             /\ pack'.ch = NO_MORE_DATA => copier[pack'.who] = "none"
  <2> DEFINE m == pack'.who
             b == func[m]
  <2>1. m \in Slots
    BY <1>3, <1>4, TaskFacts
  <2>2. b # NULL /\ (pack'.ch = NO_MORE_DATA => copier[m] = "none")
    BY <1>1, <1>2, <1>4 DEF ShowInv, IndInv, MpxInv, PacketsOwned, LastPacket
  <2>3. b \in Bufs /\ UnderWay(m, b) /\ InBuffer(b)
    BY <2>1, <2>2, Serves DEF ShowInv, Delivery
  <2>4. Head(pipe).data = Output(b, Len(out[b]), copied[b]) /\ Unshown(b) <= Chunk
    BY <1>1, <1>2, <2>3 DEF UnderWay
  <2>5. ~From(pipe', m)
    BY <1>1, <1>2, <2>1 DEF ShowInv, IndInv, MpxInv, SlotsInv
  <2> DEFINE o == Output(b, Len(out[b]), copied[b])
             n == Len(out[b])
             c == copied[b]
  <2>6. n \in Nat /\ c \in Nat /\ n <= c
    BY <2>3, Lengths DEF InBuffer, ShowInv, IndInv
  <2>7. /\ o \in Seq(Item) /\ Len(o) = c - n
        /\ \A i \in 1 .. c - n : o[i] = [buf |-> b, n |-> n + i]
    BY <2>3, <2>6, OutputIs
  <2>8. \A i \in 1 .. Len(o) : data'[i] = o[i]
    <3> DEFINE rest == SubSeq(data, Len(o) + 1, Len(data))
    <3>1. data \in Seq(Item) /\ Len(data) \in Nat /\ Len(o) \in Nat
      BY <2>6, <2>7 DEF ShowInv, IndInv, TypeOK
    <3>2. rest \in Seq(Item)
      <4>1. \A i \in Len(o) + 1 .. Len(data) : data[i] \in Item
        BY <3>1
      <4> DEFINE lo == Len(o) + 1
      <4>2. lo \in Int
        BY <3>1
      <4> HIDE DEF lo
      <4> QED
        BY <3>1, <4>1, <4>2, SubSeqProperties DEF lo
    <3>3. data' = o \o rest
      BY <1>1, <2>4
    <3> HIDE DEF rest, o
    <3> QED
      BY <2>7, <3>2, <3>3, ConcatProperties
  <2>9. Unshown(b) = c - n
    BY DEF Unshown
  <2>10. pack'.size = Len(o)
    BY <1>1, <2>4
  <2>11. Holds(func[pack.who], 0, pack.size)'
    <3>1. /\ pack'.size - 0 = c - n
          /\ \A k \in 1 .. c - n : data'[0 + k] = [buf |-> b, n |-> n + k]
      <4> HIDE DEF n, c, b, o
      <4> QED
        BY <2>6, <2>7, <2>8, <2>10
    <3>2. Unshown(func[pack.who])' = c - n
      BY <2>9 DEF Unshown
    <3> QED
      BY <3>1, <3>2 DEF Holds
  <2> QED
    BY <2>1, <2>2, <2>4, <2>5, <2>11
<1>5. ASSUME NEW m \in Slots, m # pack'.who, func[m] # NULL
      PROVE  /\ From(pipe', m) \/ Unshown(func[m]) = 0
             /\ \A i \in 1 .. Len(pipe') : pipe'[i].who = m =>
                  pipe'[i].data = Output(func[m], Len(out[func[m]]), copied[func[m]])
                  /\ Unshown(func[m]) <= Chunk
  <2>1. UnderWay(m, func[m]) /\ ~Prefetched(m) /\ ~Unpacked(m)
    BY <1>5 DEF ShowInv, Delivery, Prefetched, Unpacked
  <2>2. From(pipe', m) <=> From(pipe, m)
    BY <1>1, <1>2, <1>5, TaskFacts
  <2> QED
    BY <1>2, <2>1, <2>2 DEF UnderWay
<1> QED
  BY <1>3, <1>4, <1>5

LEMMA PollShow == ASSUME ShowInv, Poll PROVE Delivery'
<1> USE DEF Poll, kbdVars, progVars, copyVars, kidVars, modeVars, packVars
<1>1. at' # "data" /\ at # "data"
  BY DEF ShowInv, Unflushed
<1>2. CASE have \/ (ackkbd /\ pipe = <<>>)
  BY <1>1, <1>2, KeepDelivery DEF Prefetched, ShowInv
<1>3. CASE ~have /\ ackkbd /\ pipe # <<>>
  <2>1. Read(Head(pipe)) /\ have' /\ ackkbd'
    BY <1>3
  <2>2. \A m \in Slots : func[m] # NULL => UnderWay(m, func[m])'
    <3> TAKE m \in Slots
    <3> HAVE func[m] # NULL
    <3>1. UnderWay(m, func[m]) /\ ~Unpacked(m) /\ ~Unpacked(m)'
      BY <1>1 DEF ShowInv, Delivery, Unpacked
    <3>2. CASE m = pack'.who
      <4>1. /\ Holds(func[m], 0, pack.size)' /\ Unshown(func[m]) <= Chunk /\ ~From(pipe', m)
        BY <1>1, <1>3, <2>1, <3>2, ReadShow, TaskFacts
      <4> QED
        BY <2>1, <3>1, <3>2, <4>1 DEF UnderWay, Prefetched, From, Unshown
    <3>3. CASE m # pack'.who
      <4>1. /\ From(pipe', m) \/ Unshown(func[m]) = 0
            /\ \A i \in 1 .. Len(pipe') : pipe'[i].who = m =>
                 pipe'[i].data = Output(func[m], Len(out[func[m]]), copied[func[m]])
                 /\ Unshown(func[m]) <= Chunk
        BY <1>1, <1>3, <2>1, <3>3, ReadShow
      <4> QED
        BY <3>1, <3>3, <4>1 DEF UnderWay, Prefetched, Unshown
    <3> QED
      BY <3>2, <3>3
  <2> QED
    BY <2>2, KeepBuffers DEF ShowInv, Delivery
<1>4. CASE ~have /\ ~ackkbd
  <2>1. \A m \in Slots : func[m] # NULL => UnderWay(m, func[m])'
    BY <1>1, <1>4 DEF ShowInv, Delivery, UnderWay, Unshown, Prefetched, Unpacked, Holds
  <2> QED
    BY <2>1, KeepBuffers DEF ShowInv, Delivery
<1> QED
  BY <1>2, <1>3, <1>4

LEMMA GetKeyShow == ASSUME ShowInv, GetKey PROVE Delivery'
<1> USE DEF GetKey, kbdVars, progVars, copyVars, kidVars, modeVars, Execute
<1>1. at' # "data" /\ at # "data" /\ ~ackkbd /\ ~ackkbd'
  OBVIOUS
<1>2. \A m \in Slots : func[m] # NULL => UnderWay(m, func[m])'
  BY <1>1 DEF ShowInv, Delivery, UnderWay, Unshown, Prefetched, Unpacked, Holds
<1> QED
  BY <1>2, KeepBuffers DEF ShowInv, Delivery

(* The packet that ttgetc hands on, prefetched or not.                     *)
LEMMA HandedOn ==
  ASSUME ShowInv, GetPacket
  PROVE  /\ pack'.who # Kbd /\ func[pack'.who] # NULL =>
              /\ pack'.who \in Slots
              /\ Holds(func[pack.who], 0, pack.size)'
              /\ Unshown(func[pack'.who]) <= Chunk /\ ~From(pipe', pack'.who)
              /\ pack'.ch = NO_MORE_DATA => copier[pack'.who] = "none"
         /\ \A m \in Slots : m # pack'.who /\ func[m] # NULL =>
              /\ From(pipe', m) \/ Unshown(func[m]) = 0
              /\ \A i \in 1 .. Len(pipe') : pipe'[i].who = m =>
                   pipe'[i].data = Output(func[m], Len(out[func[m]]), copied[func[m]])
                   /\ Unshown(func[m]) <= Chunk
<1> USE DEF GetPacket, sideVars, progVars, copyVars, modeVars
<1>1. CASE ~have
  <2>1. pipe # <<>> /\ Read(Head(pipe)) /\ at # "data" /\ ackkbd
    BY <1>1 DEF Read
  <2> QED
    BY <1>1, <2>1, ReadShow
<1>2. CASE have
  <2>1. ackkbd /\ UNCHANGED <<pipe, pack, data, tty_accept>>
    BY <1>2
  <2>2. ASSUME pack.who # Kbd, func[pack.who] # NULL
        PROVE  /\ pack.who \in Slots
               /\ Holds(func[pack.who], 0, pack.size)
               /\ Unshown(func[pack.who]) <= Chunk /\ ~From(pipe, pack.who)
               /\ pack.ch = NO_MORE_DATA => copier[pack.who] = "none"
    <3>1. pack.who \in Slots
      BY <2>2, Senders DEF ShowInv, IndInv
    <3>2. UnderWay(pack.who, func[pack.who]) /\ Prefetched(pack.who)
      BY <1>2, <2>1, <2>2, <3>1 DEF ShowInv, Delivery, Prefetched
    <3>3. CASE pack.ch = NO_MORE_DATA
      BY <1>2, <2>1, <3>1, <3>2, <3>3 DEF UnderWay, ShowInv, IndInv, MpxInv, LastPacket, LastTaken
    <3>4. CASE pack.ch # NO_MORE_DATA
      <4>1. tty_accept = pack.ch
        BY <1>2, <2>1 DEF ShowInv, IndInv, MpxInv, Control
      <4>2. Held(pack.who)
        BY <3>4, <4>1 DEF Held
      <4>3. copier[pack.who] = "wait"
        BY <3>1, <4>2 DEF ShowInv, IndInv, MpxInv, SlotsInv
      <4>4. ~From(pipe, pack.who)
        BY <3>1, <4>2, <4>3 DEF ShowInv, IndInv, MpxInv, CopierCredit, Token
      <4> QED
        BY <3>1, <3>2, <3>4, <4>4 DEF UnderWay
    <3> QED
      BY <3>3, <3>4
  <2>3. ASSUME NEW m \in Slots, m # pack.who, func[m] # NULL
        PROVE  /\ From(pipe, m) \/ Unshown(func[m]) = 0
               /\ \A i \in 1 .. Len(pipe) : pipe[i].who = m =>
                    pipe[i].data = Output(func[m], Len(out[func[m]]), copied[func[m]])
                    /\ Unshown(func[m]) <= Chunk
    BY <2>3 DEF ShowInv, Delivery, UnderWay, Prefetched, Unpacked
  <2>4. Holds(func[pack.who], 0, pack.size)' <=> Holds(func[pack.who], 0, pack.size)
    BY <2>1 DEF Holds, Unshown
  <2> QED
    BY <2>1, <2>2, <2>3, <2>4
<1> QED
  BY <1>1, <1>2

LEMMA GetPacketShow == ASSUME ShowInv, GetPacket PROVE Delivery'
<1> USE DEF GetPacket, sideVars, progVars, copyVars, modeVars
<1>1. UNCHANGED <<out, copied, written, prog, copier, func>> /\ ~have' /\ at # "data"
  OBVIOUS
<1>2. ASSUME NEW m \in Slots, func[m] # NULL PROVE UnderWay(m, func[m])'
  <2>1. UnderWay(m, func[m]) /\ m # Kbd
    BY <1>2, TaskFacts DEF ShowInv, Delivery
  <2>2. CASE m # pack'.who
    <3>1. /\ From(pipe', m) \/ Unshown(func[m]) = 0
          /\ \A i \in 1 .. Len(pipe') : pipe'[i].who = m =>
               pipe'[i].data = Output(func[m], Len(out[func[m]]), copied[func[m]])
               /\ Unshown(func[m]) <= Chunk
      BY <1>2, <2>2, HandedOn
    <3>2. ~Prefetched(m)' /\ ~Unpacked(m)'
      BY <1>1, <2>2 DEF Prefetched, Unpacked
    <3> QED
      BY <1>1, <2>1, <3>1, <3>2 DEF UnderWay, Unshown
  <2>3. CASE m = pack'.who
    <3>1. /\ Holds(func[m], 0, pack.size)' /\ ~From(pipe', m)
          /\ pack'.ch = NO_MORE_DATA => copier[m] = "none"
      BY <1>2, <2>1, <2>3, HandedOn
    <3>2. ~Prefetched(m)' /\ \A i \in 1 .. Len(pipe') : pipe'[i].who # m
      BY <1>1, <3>1 DEF Prefetched, From
    <3>3. CASE pack'.ch = NO_MORE_DATA
      <4>1. Unshown(func[m]) = 0
        BY <2>1, <3>1, <3>3 DEF UnderWay
      <4>2. ~Unpacked(m)'
        BY <2>1, <2>3, <3>3 DEF Dispatch, Unpacked
      <4> QED
        BY <1>1, <2>1, <3>2, <4>1, <4>2 DEF UnderWay, Unshown
    <3>4. CASE pack'.ch # NO_MORE_DATA
      <4>1. at' = "data" /\ x' = 0 /\ siz' = pack'.size
        BY <1>2, <2>1, <2>3, <3>4 DEF Dispatch, Execute
      <4>2. Holds(func[m], x, siz)' /\ Unpacked(m)'
        BY <2>3, <3>1, <4>1 DEF Holds, Unpacked
      <4> QED
        BY <1>1, <2>1, <3>2, <4>2 DEF UnderWay, Unshown
    <3> QED
      BY <3>3, <3>4
  <2> QED
    BY <2>2, <2>3
<1> QED
  BY <1>1, <1>2, KeepBuffers DEF ShowInv, Delivery

(* While cdata runs: the item it shows is the next one of its buffer.      *)
LEMMA NextItem ==
  ASSUME ShowInv, at = "data"
  PROVE  /\ pack.who \in Slots /\ obj = func[pack.who] /\ obj # NULL /\ obj \in Bufs
         /\ UnderWay(pack.who, obj) /\ Holds(obj, x, siz)
         /\ ~From(pipe, pack.who) /\ ~have /\ copier[pack.who] = "wait"
<1>1. pack.who # Kbd /\ Held(pack.who) /\ obj = func[pack.who] /\ ~have
  BY DEF ShowInv, Unflushed
<1>2. pack.who \in Slots
  BY <1>1, Senders DEF ShowInv, IndInv
<1>3. copier[pack.who] = "wait" /\ obj # NULL
  BY <1>1, <1>2 DEF ShowInv, IndInv, MpxInv, SlotsInv
<1>4. ~From(pipe, pack.who)
  BY <1>1, <1>2, <1>3 DEF ShowInv, IndInv, MpxInv, CopierCredit, Token
<1>5. obj \in Bufs /\ UnderWay(pack.who, obj)
  BY <1>1, <1>2, <1>3, Serves DEF ShowInv, Delivery
<1> QED
  BY <1>1, <1>2, <1>3, <1>4, <1>5 DEF UnderWay, Unpacked

LEMMA ItemShown ==
  ASSUME ShowInv, Data
  PROVE  /\ data[x + 1] = [buf |-> obj, n |-> Len(out[obj]) + 1]
         /\ Len(out[obj]) + 1 <= copied[obj]
         /\ out' = [out EXCEPT ![obj] = Output(obj, 0, Len(out[obj]) + 1)]
         /\ Len(out'[obj]) = Len(out[obj]) + 1
<1> USE DEF Data
<1>1. obj \in Bufs /\ Holds(obj, x, siz) /\ InBuffer(obj)
  BY NextItem DEF ShowInv, Delivery
<1>2. /\ Len(out[obj]) \in Nat /\ copied[obj] \in Nat /\ x \in Nat /\ siz \in Nat
      /\ out \in [Bufs -> Seq(Item)]
  <2>1. TypeOK
    BY DEF ShowInv, IndInv
  <2>2. x \in Nat /\ siz \in Nat
    BY <2>1 DEF TypeOK
  <2>3. out \in [Bufs -> Seq(Item)]
    BY <2>1 DEF TypeOK
  <2>4. Len(out[obj]) \in Nat /\ copied[obj] \in Nat
    BY <2>1, <1>1, Lengths
  <2> QED
    BY <2>2, <2>3, <2>4
<1>3. Unshown(obj) \in Int /\ 1 \in 1 .. Unshown(obj)
  BY <1>1, <1>2 DEF Unshown, Holds
<1>4. data[x + 1] = [buf |-> obj, n |-> Len(out[obj]) + 1]
  BY <1>1, <1>3 DEF Holds
<1>5. out' = [out EXCEPT ![obj] = Append(out[obj], data[x + 1])]
  OBVIOUS
<1>6. Append(out[obj], data[x + 1]) = Output(obj, 0, Len(out[obj]) + 1)
  BY <1>1, <1>2, <1>4, OutputMore DEF InBuffer
<1>7. out'[obj] = Output(obj, 0, Len(out[obj]) + 1)
  BY <1>1, <1>2, <1>5, <1>6
<1>8. Len(out'[obj]) = Len(out[obj]) + 1
  <2> DEFINE n == Len(out[obj]) + 1
  <2>1. n \in Nat /\ 0 <= n /\ out'[obj] = Output(obj, 0, n)
    BY <1>2, <1>7
  <2> HIDE DEF n
  <2>2. Len(Output(obj, 0, n)) = n - 0
    BY <1>1, <2>1, OutputIs
  <2>3. Len(out'[obj]) = n
    BY <2>1, <2>2
  <2> QED
    BY <2>3 DEF n
<1>9. Len(out[obj]) + 1 <= copied[obj]
  BY <1>2, <1>3 DEF Unshown
<1>10. out' = [out EXCEPT ![obj] = Output(obj, 0, Len(out[obj]) + 1)]
  BY <1>5, <1>6
<1> QED
  BY <1>4, <1>8, <1>9, <1>10

LEMMA DataShow == ASSUME ShowInv, Chunk < obufsiz, Data PROVE Unflushed' /\ Delivery'
<1> USE DEF Data, sideVars, progVars, copyVars, packVars, modeVars
<1>1. /\ pack.who \in Slots /\ obj = func[pack.who] /\ obj # NULL /\ obj \in Bufs
      /\ UnderWay(pack.who, obj) /\ Holds(obj, x, siz)
      /\ ~From(pipe, pack.who) /\ ~have /\ copier[pack.who] = "wait"
  BY NextItem
<1>2. /\ Len(out[obj]) + 1 <= copied[obj]
      /\ out' = [out EXCEPT ![obj] = Output(obj, 0, Len(out[obj]) + 1)]
      /\ Len(out'[obj]) = Len(out[obj]) + 1
  BY ItemShown
<1>3. /\ Len(out[obj]) \in Nat /\ copied[obj] \in Nat /\ x \in Nat /\ siz \in Nat
      /\ out \in [Bufs -> Seq(Item)] /\ obufp \in Nat
  <2>1. TypeOK
    BY DEF ShowInv, IndInv
  <2>2. Len(out[obj]) \in Nat /\ copied[obj] \in Nat
    BY <1>1, <2>1, Lengths
  <2>3. x \in Nat /\ siz \in Nat
    <3>1. data \in Seq(Item) /\ siz \in 0 .. Len(data) /\ x \in 0 .. siz
      BY <2>1 DEF TypeOK
    <3>2. Len(data) \in Nat
      BY <3>1
    <3> QED
      BY <3>1, <3>2
  <2> QED
    BY <2>1, <2>2, <2>3 DEF TypeOK
<1>4. at' = "data" /\ then' = then /\ obufp' <= x'
  <2>1. obufp <= x /\ x + 1 <= Chunk
    BY <1>3, SlotAssumption DEF ShowInv, Unflushed
  <2>2. obufp' <= x + 1
    BY <1>3, <2>1
  <2>3. obufp' # obufsiz
    BY <1>3, <2>1, <2>2, SlotAssumption, OutputAssumption
  <2> QED
    BY <2>2, <2>3
<1>5. Unflushed'
  BY <1>4 DEF ShowInv, Unflushed, Held
<1>6. \A b \in Bufs : InBuffer(b)'
  <2> TAKE b \in Bufs
  <2>1. InBuffer(b)
    BY DEF ShowInv, Delivery
  <2>2. CASE b # obj
    BY <1>2, <1>3, <2>1, <2>2 DEF InBuffer
  <2>3. CASE b = obj
    <3>1. out'[obj] = Output(obj, 0, Len(out'[obj]))
      BY <1>1, <1>2, <1>3
    <3>2. prog[obj] # "none"
      BY <1>1, Serves DEF ShowInv
    <3> QED
      BY <1>2, <2>1, <2>3, <3>1, <3>2 DEF InBuffer
  <2> QED
    BY <2>2, <2>3
<1>7. ASSUME NEW m \in Slots, func[m] # NULL PROVE UnderWay(m, func[m])'
  <2>1. UnderWay(m, func[m]) /\ func[m] \in Bufs
    BY <1>7, Serves DEF ShowInv, Delivery
  <2>2. CASE m # pack.who
    <3>1. func[m] # obj
      BY <1>1, <1>7, <2>2, Serves DEF ShowInv
    <3>2. out'[func[m]] = out[func[m]]
      BY <1>2, <1>3, <2>1, <3>1
    <3> QED
      BY <1>1, <2>1, <2>2, <3>2 DEF UnderWay, Unshown, Prefetched, Unpacked
  <2>3. CASE m = pack.who
    <3>1. \A i \in 1 .. Len(pipe) : pipe[i].who # m
      BY <1>1, <2>3 DEF From
    <3>2. Unshown(obj) \in Nat /\ Unshown(obj)' = Unshown(obj) - 1 /\ Unshown(obj) > 0
      BY <1>2, <1>3 DEF Unshown
    <3>3. Holds(obj, x, siz)'
      <4>1. siz' - x' = Unshown(obj)'
        BY <1>1, <1>3, <3>2 DEF Holds
      <4>2. ASSUME NEW k \in 1 .. Unshown(obj)'
            PROVE data'[x' + k] = [buf |-> obj', n |-> Len(out'[obj]) + k]
        <5>1. k + 1 \in 1 .. Unshown(obj) /\ x + (k + 1) = x' + k
          BY <1>3, <3>2, <4>2
        <5>2. data[x + (k + 1)] = [buf |-> obj, n |-> Len(out[obj]) + (k + 1)]
          BY <1>1, <5>1 DEF Holds
        <5>3. Len(out[obj]) + (k + 1) = Len(out'[obj]) + k
          <6> DEFINE l == Len(out'[obj])
                     n == Len(out[obj])
          <6>1. l = n + 1 /\ n \in Int /\ k \in Int
            BY <1>2, <1>3, <3>2
          <6> HIDE DEF l, n
          <6>2. n + (k + 1) = l + k
            BY <6>1
          <6> QED
            BY <6>2 DEF l, n
        <5>4. data' = data /\ obj' = obj
          OBVIOUS
        <5> QED
          BY <5>1, <5>2, <5>3, <5>4
      <4> QED
        BY <4>1, <4>2 DEF Holds
    <3>4. Unpacked(m)' /\ ~Prefetched(m)'
      BY <1>1, <1>4, <2>3 DEF Unpacked, Prefetched
    <3> QED
      BY <1>1, <2>3, <3>1, <3>3, <3>4 DEF UnderWay
  <2> QED
    BY <2>2, <2>3
<1> QED
  BY <1>5, <1>6, <1>7 DEF Delivery

(* At the end of the packet its buffer shows all that the copier has read. *)
LEMMA DataEndShow == ASSUME ShowInv, DataEnd PROVE Delivery'
<1> USE DEF DataEnd, Flush, sideVars, progVars, copyVars, packVars, modeVars
<1>1. /\ pack.who \in Slots /\ obj = func[pack.who] /\ obj # NULL /\ obj \in Bufs
      /\ UnderWay(pack.who, obj) /\ Holds(obj, x, siz)
  BY NextItem
<1>2. Unshown(obj) = 0
  <2>1. siz \in Int
    BY DEF ShowInv, IndInv, TypeOK
  <2> QED
    BY <1>1, <2>1 DEF Holds
<1>3. ASSUME NEW m \in Slots, func[m] # NULL PROVE UnderWay(m, func[m])'
  <2>1. UnderWay(m, func[m]) /\ ~Unpacked(m)'
    BY <1>3 DEF ShowInv, Delivery, Unpacked
  <2>2. Unpacked(m) => Unshown(func[m]) = 0
    BY <1>1, <1>2 DEF Unpacked
  <2> QED
    BY <2>1, <2>2 DEF UnderWay, Unshown, Prefetched, Holds
<1> QED
  BY <1>3, KeepBuffers DEF ShowInv, Delivery

(* With the last program goes the pipe, and nothing is in it then.         *)
LEMMA DiedShow == ASSUME ShowInv, Died PROVE Delivery'
<1> USE DEF Died, termVars, progVars, copyVars, kidVars
<1>1. CASE nmpx' # 0
  BY <1>1, KeepDelivery DEF ShowInv
<1>2. CASE nmpx' = 0
  <2>1. /\ ackkbd' = FALSE /\ pipe' = <<>> /\ at' = "reap"
        /\ UNCHANGED <<out, copied, written, prog, copier, func>>
    BY <1>2 DEF mpxend
  <2>2. pack.who \in Occupied /\ copier[pack.who] = "none"
    BY Senders DEF ShowInv, IndInv, MpxInv, LastPacket, LastTaken, Occupied
  <2>3. Occupied = {pack.who}
    <3>1. nmpx = Cardinality(Occupied) /\ nmpx \in Nat
      BY Counted DEF ShowInv, IndInv, MpxInv, ModeConsistent
    <3>2. nmpx = 1
      BY <1>2, <3>1
    <3>3. Cardinality(Occupied) = 1 /\ IsFiniteSet(Occupied)
      BY <3>1, <3>2, Counted DEF ShowInv, IndInv
    <3>4. PICK m : Occupied = {m}
      BY <3>3, FS_Singleton
    <3> QED
      BY <2>2, <3>4
  <2>4. ASSUME NEW m \in Slots, func[m] # NULL PROVE UnderWay(m, func[m])'
    <3>1. UnderWay(m, func[m]) /\ copier[m] = "none"
      BY <2>2, <2>3, <2>4 DEF Occupied, ShowInv, Delivery
    <3>2. Len(pipe') = 0 /\ ~From(pipe', m)
      BY <2>1 DEF From
    <3>3. ~Prefetched(m)' /\ ~Unpacked(m)'
      BY <2>1 DEF Prefetched, Unpacked
    <3> QED
      BY <2>1, <3>1, <3>2, <3>3 DEF UnderWay, Unshown
  <2> QED
    BY <2>1, <2>4, KeepBuffers DEF ShowInv, Delivery
<1> QED
  BY <1>1, <1>2

(* When a program is taken for ended, all its output is shown.             *)
LEMMA ReapShow == ASSUME ShowInv, Reap PROVE Delivery'
<1> USE DEF Reap, Flush, kbdVars, termVars, copyVars, packVars
<1> DEFINE m == pack.who
           b == func[m]
<1>1. m \in Slots /\ b # NULL /\ copier[m] = "none"
  BY Senders DEF ShowInv, IndInv, MpxInv, LastPacket, LastTaken
<1>2. b \in Bufs /\ UnderWay(m, b)
  BY <1>1, Serves DEF ShowInv, Delivery
<1>3. prog' = [prog EXCEPT ![b] = "none"] /\ func' = [func EXCEPT ![m] = NULL]
  OBVIOUS
<1>4. prog \in [Bufs -> {"none", "runs", "exited"}] /\ func \in [Slots -> Bufs \cup {NULL}]
  BY DEF ShowInv, IndInv, TypeOK
<1>5. UNCHANGED <<out, copied, written, copier, pipe, have, pack, data, x, siz, ackkbd>>
  OBVIOUS
<1>6. Len(out[b]) = written[b]
  BY <1>1, <1>2, Lengths DEF UnderWay, Unshown, ShowInv, IndInv
<1>7. \A c \in Bufs : InBuffer(c)'
  BY <1>2, <1>3, <1>4, <1>5, <1>6 DEF InBuffer, ShowInv, Delivery
<1>8. ASSUME NEW s \in Slots, func'[s] # NULL PROVE UnderWay(s, func[s])'
  <2>1. s # m /\ func'[s] = func[s] /\ func[s] # NULL
    BY <1>1, <1>3, <1>4, <1>8
  <2>2. UnderWay(s, func[s]) /\ func[s] # b /\ func[s] \in Bufs
    BY <1>1, <2>1, Serves DEF ShowInv, Delivery
  <2>3. prog'[func[s]] = prog[func[s]]
    BY <1>3, <1>4, <2>2
  <2>4. at # "data" /\ at' # "data"
    OBVIOUS
  <2> QED
    BY <1>5, <2>1, <2>2, <2>3, <2>4 DEF UnderWay, Unshown, Prefetched, Unpacked, Holds
<1> QED
  BY <1>7, <1>8 DEF Delivery

(* A slot that is taken for a program has nothing under way from the one   *)
(* before, and neither has its buffer.                                     *)
LEMMA ForkShow == ASSUME ShowInv, Fork PROVE Delivery'
<1> USE DEF Fork, termVars, kidVars
<1>1. PICK m \in FreeSlots : /\ func' = [func EXCEPT ![m] = obj]
                             /\ copier' = [copier EXCEPT ![m] = "read"]
  OBVIOUS
<1>2. /\ m \in Slots /\ func[m] = NULL /\ obj \in Bufs /\ prog[obj] = "none"
      /\ \A s \in Slots : func[s] # NULL => func[s] # obj
  BY Serves DEF ShowInv, IndInv, MpxInv, Control, Inside, FreeSlots
<1>3. /\ prog' = [prog EXCEPT ![obj] = "runs"] /\ at = "fork" /\ at' = "cmd"
      /\ UNCHANGED <<out, copied, written, pipe, pack, data, x, siz>>
      /\ ackkbd' /\ (ackkbd => have' = have) /\ (~ackkbd => ~have')
  BY DEF mpxresume
<1>4. /\ prog \in [Bufs -> {"none", "runs", "exited"}] /\ func \in [Slots -> Bufs \cup {NULL}]
      /\ copier \in [Slots -> {"none", "read", "wait"}]
  BY DEF ShowInv, IndInv, TypeOK
<1>5. \A b \in Bufs : InBuffer(b)'
  BY <1>2, <1>3, <1>4 DEF InBuffer, ShowInv, Delivery
<1>6. UnderWay(m, func[m])'
  <2>1. \A i \in 1 .. Len(pipe) : pipe[i].who # m
    BY <1>2, TaskFacts DEF ShowInv, IndInv, MpxInv, PacketsOwned
  <2>2. ~Prefetched(m)'
    <3>1. SUFFICES ASSUME have, ackkbd, pack.who = m PROVE FALSE
      BY <1>3 DEF Prefetched
    <3>2. pack.ch # NO_MORE_DATA
      BY <1>2, <3>1 DEF ShowInv, IndInv, MpxInv, LastPacket, LastTaken
    <3>3. Held(m)
      BY <3>1, <3>2 DEF ShowInv, IndInv, MpxInv, Control, Held
    <3> QED
      BY <1>2, <3>3 DEF ShowInv, IndInv, MpxInv, SlotsInv
  <2>3. ~Unpacked(m)'
    BY <1>3 DEF Unpacked
  <2>4. Unshown(obj) = 0
    BY <1>2, Lengths DEF ShowInv, IndInv, Delivery, InBuffer, Unshown
  <2>5. func'[m] = obj /\ copier'[m] = "read"
    BY <1>1, <1>2, <1>4
  <2> QED
    BY <1>3, <2>1, <2>2, <2>3, <2>4, <2>5 DEF UnderWay, Unshown
<1>7. ASSUME NEW s \in Slots, s # m, func'[s] # NULL PROVE UnderWay(s, func[s])'
  <2>1. func'[s] = func[s] /\ copier'[s] = copier[s]
    BY <1>1, <1>4, <1>7
  <2>2. UnderWay(s, func[s]) /\ func[s] # obj /\ func[s] \in Bufs
    BY <1>2, <1>7, <2>1, Serves DEF ShowInv, Delivery
  <2>3. prog'[func[s]] = prog[func[s]] /\ ~Unpacked(s) /\ ~Unpacked(s)'
    BY <1>3, <1>4, <2>2 DEF Unpacked
  <2>4. Prefetched(s)' <=> Prefetched(s)
    BY <1>3 DEF Prefetched
  <2>5. Unshown(func[s])' = Unshown(func[s])
    BY <1>3, <2>1 DEF Unshown
  <2>6. Holds(func[s], 0, pack.size)' <=> Holds(func[s], 0, pack.size)
    BY <1>3, <2>1, <2>5 DEF Holds
  <2> QED
    BY <1>3, <2>1, <2>2, <2>3, <2>4, <2>5, <2>6 DEF UnderWay
<1> QED
  BY <1>5, <1>6, <1>7 DEF Delivery

LEMMA SuspendShow == ASSUME ShowInv, MaxSteps <= 1, Suspend PROVE Delivery'
<1>1. steps = 0
  <2>1. steps < MaxSteps
    BY DEF Suspend, More
  <2>2. steps \in Nat
    BY DEF ShowInv, IndInv, TypeOK
  <2> QED
    BY <2>1, <2>2, MpxBoundAssumption
<1> USE DEF Suspend, More, termVars, progVars, copyVars, kidVars, modeVars
<1>2. ~have /\ have' = have
  <2>1. ~have /\ have \in BOOLEAN
    BY <1>1 DEF ShowInv, IndInv, MpxInv, Control, TypeOK
  <2>2. have' = FALSE \/ have' = have
    BY DEF mpxresume
  <2> QED
    BY <2>1, <2>2
<1> QED
  BY <1>2, KeepDelivery DEF ShowInv

(* Outside of cdata the output buffer is empty until it is flushed.        *)
LEMMA UnflushedStep ==
  ASSUME ShowInv, MaxSteps <= 1, Next, ~Data, ~GetPacket
  PROVE  Unflushed'
<1> USE DEF ShowInv, sideVars, termVars, kbdVars, progVars, copyVars, packVars, modeVars,
            callVars, kidVars, edVars
<1>1. CASE Type \/ KbdTask \/ (\E b \in Bufs : Program(b)) \/ CopierExit
  BY <1>1, KeepUnflushed
     DEF Type, KbdTask, KbdRead, KbdWrite, KbdAck, Program, ProgWrite, ProgExit, CopierExit
<1>2. CASE \E m \in Slots : Copier(m)
  BY <1>2, KeepUnflushed DEF Copier, CopierRead, CopierAck, CopierEof
<1>3. CASE Ack \/ Poll
  BY <1>3 DEF Ack, Poll, Unflushed
<1>4. CASE GetKey \/ DataEnd \/ Died \/ Reap
  BY <1>4 DEF GetKey, Execute, DataEnd, Died, Reap, Flush, Unflushed
<1>5. CASE (\E b \in Bufs : Run(b)) \/ Fork \/ Suspend \/ CmdEnd
  BY <1>5 DEF Run, More, Fork, Suspend, CmdEnd, Flush, Unflushed
<1> QED
  BY <1>1, <1>2, <1>3, <1>4, <1>5 DEF Next, Editor, Command

(* The packet that is handed to cdata is still to be acknowledged.         *)
LEMMA GetPacketUnflushed == ASSUME ShowInv, GetPacket PROVE Unflushed'
<1> USE DEF GetPacket
<1>1. then' = then /\ obufp' = obufp /\ ~have' /\ func' = func /\ obufp <= 0
  BY DEF ShowInv, Unflushed, modeVars
<1>2. CASE at' # "data"
  BY <1>1, <1>2 DEF ShowInv, Unflushed
<1>3. CASE at' = "data"
  <2>1. /\ pack'.who # Kbd /\ pack'.ch # NO_MORE_DATA /\ func[pack'.who] # NULL
        /\ obj' = func[pack'.who] /\ x' = 0 /\ siz' = pack'.size
    BY <1>3 DEF Dispatch, Execute
  <2>2. tty_accept' = pack'.ch
    <3>1. CASE have
      BY <3>1 DEF ShowInv, IndInv, MpxInv, Control
    <3>2. CASE ~have
      BY <3>2 DEF Read
    <3> QED
      BY <3>1, <3>2
  <2>3. Held(pack.who)'
    BY <2>1, <2>2 DEF Held
  <2>4. pack'.size <= Chunk
    <3>1. /\ pack'.who \in Slots /\ Holds(func[pack.who], 0, pack.size)'
          /\ Unshown(func[pack'.who]) <= Chunk
      BY <2>1, HandedOn
    <3>2. Unshown(func[pack.who])' = Unshown(func[pack'.who])
      BY <1>1 DEF Unshown, sideVars, copyVars
    <3>3. pack'.size = Unshown(func[pack'.who])
      <4>1. pack'.size \in Int
        <5>1. Read(Head(pipe)) => pack'.size \in Nat
          BY DEF Read, ShowInv, IndInv, TypeOK, Packet
        <5> QED
          BY <5>1 DEF ShowInv, IndInv, TypeOK, Header
      <4> QED
        BY <3>1, <3>2, <4>1 DEF Holds
    <3> QED
      BY <3>1, <3>3
  <2> QED
    BY <1>1, <1>3, <2>1, <2>3, <2>4 DEF ShowInv, Unflushed
<1> QED
  BY <1>2, <1>3

LEMMA ShowInitially == Init => ShowInv
<1> SUFFICES ASSUME Init PROVE ShowInv
  OBVIOUS
<1>1. IndInv
  BY Initially
<1>2. Unflushed
  BY DEF Init, Unflushed
<1>3. \A b \in Bufs : InBuffer(b)
  <2> TAKE b \in Bufs
  <2>1. /\ out[b] = <<>> /\ copied[b] = 0 /\ written[b] = 0 /\ Len(out[b]) = 0
    BY DEF Init
  <2>2. Output(b, 0, 0) = <<>>
    BY OutputNone, 0 \in Nat
  <2> QED
    BY <2>1, <2>2, MpxBoundAssumption DEF InBuffer
<1>4. \A m \in Slots : func[m] = NULL
  BY DEF Init
<1> QED
  BY <1>1, <1>2, <1>3, <1>4 DEF ShowInv, Delivery

(* What has been read from a program, and is not shown yet, is in its one  *)
(* packet, whatever step is taken.                                         *)
LEMMA ShowStep ==
  ASSUME ShowInv, MaxSteps <= 1, Chunk < obufsiz, [Next]_vars
  PROVE  ShowInv'
<1> USE DEF sideVars, termVars, kbdVars, progVars, copyVars, packVars, modeVars, callVars,
            kidVars, edVars
<1>1. IndInv'
  BY Inductive DEF ShowInv
<1>2. CASE UNCHANGED vars
  <2>1. Delivery'
    BY <1>2, KeepDelivery DEF ShowInv, vars
  <2>2. Unflushed'
    BY <1>2, KeepUnflushed DEF ShowInv, vars
  <2> QED
    BY <1>1, <2>1, <2>2 DEF ShowInv
<1>3. CASE Next
  <2>1. Unflushed'
    BY <1>3, UnflushedStep, DataShow, GetPacketUnflushed
  <2>2. Delivery'
    <3>1. CASE Type \/ KbdRead \/ KbdAck \/ CopierExit
      BY <3>1, KeepDelivery DEF ShowInv, Type, KbdRead, KbdAck, CopierExit
    <3>2. CASE Ack \/ (\E b \in Bufs : Run(b)) \/ CmdEnd
      BY <3>2, KeepDelivery DEF ShowInv, Ack, Run, More, CmdEnd, Flush
    <3>3. CASE \E b \in Bufs : Program(b)
      BY <3>3, ProgWriteShow, ProgExitShow DEF Program
    <3>4. CASE \E m \in Slots : Copier(m)
      <4>1. PICK m \in Slots : Copier(m)
        BY <3>4
      <4>2. CASE CopierAck(m)
        <5>1. copier' = [copier EXCEPT ![m] = "read"] /\ copier[m] = "wait"
          BY <4>2 DEF CopierAck
        <5>2. copier \in [Slots -> {"none", "read", "wait"}]
          BY DEF ShowInv, IndInv, TypeOK
        <5>3. \A s \in Slots : copier'[s] = "none" <=> copier[s] = "none"
          BY <5>1, <5>2
        <5> QED
          BY <4>2, <5>3, KeepDelivery DEF ShowInv, CopierAck
      <4> QED
        BY <4>1, <4>2, CopierReadShow, CopierEofShow DEF Copier
    <3>5. CASE KbdWrite \/ Poll \/ GetKey \/ GetPacket
      BY <3>5, KbdWriteShow, PollShow, GetKeyShow, GetPacketShow
    <3>6. CASE Data \/ DataEnd \/ Died \/ Reap
      BY <3>6, DataShow, DataEndShow, DiedShow, ReapShow
    <3>7. CASE Fork \/ Suspend
      BY <3>7, ForkShow, SuspendShow
    <3> QED
      BY <1>3, <3>1, <3>2, <3>3, <3>4, <3>5, <3>6, <3>7 DEF Next, KbdTask, Editor, Command
  <2> QED
    BY <1>1, <2>1, <2>2 DEF ShowInv
<1> QED
  BY <1>2, <1>3

(* The properties of MpxSafe, of keys and of output together, for any      *)
(* number of programs, slots, keys and items: each task that waits has one *)
(* packet or acknowledgement under way, every packet belongs to the        *)
(* program it is handed to, the editor waits for no child that is not      *)
(* there, and what is on its way is in order.                              *)
THEOREM MpxSafeInOrder ==
  ASSUME MaxSteps <= 1
  PROVE  Spec => []MpxSafety
<1> DEFINE All == IndInv /\ KeyOrder /\ (Chunk < obufsiz => ShowInv)
<1>1. Init => All
  BY Initially, ShowInitially DEF Init, KeyOrder, Ahead
<1>2. All /\ [Next]_vars => All'
  BY Inductive, KeysStep, ShowStep
<1>3. All => MpxSafety
  BY ChildLeft DEF IndInv, ShowInv, MpxSafety
<1> QED
  BY <1>1, <1>2, <1>3, PTL DEF Spec

(***************************************************************************)
(* The window seen from outside.                                           *)
(***************************************************************************)

(* What the window shows, seen from outside, before and after a step.      *)
LEMMA Seen ==
  ASSUME IndInv
  PROVE  /\ Window!vars = <<[b \in Bufs |-> Output(b, 0, written[b])], out,
                            [b \in Bufs |-> prog[b] # "none"]>>
         /\ \A b \in Bufs : /\ Output(b, 0, written[b]) \in Seq(Item)
                            /\ Len(Output(b, 0, written[b])) = written[b]
                            /\ \A k \in 1 .. written[b] :
                                 Output(b, 0, written[b])[k] = [buf |-> b, n |-> k]
<1>1. Window!vars = <<[b \in Bufs |-> Output(b, 0, written[b])], out,
                      [b \in Bufs |-> prog[b] # "none"]>>
  BY DEF Window!vars
<1>2. ASSUME NEW b \in Bufs
      PROVE  /\ Output(b, 0, written[b]) \in Seq(Item)
             /\ Len(Output(b, 0, written[b])) = written[b]
             /\ \A k \in 1 .. written[b] : Output(b, 0, written[b])[k] = [buf |-> b, n |-> k]
  <2> DEFINE w == written[b]
  <2>1. w \in Nat /\ 0 <= w /\ w - 0 = w
    BY <1>2, Lengths DEF IndInv
  <2> HIDE DEF w
  <2>2. /\ Output(b, 0, w) \in Seq(Item) /\ Len(Output(b, 0, w)) = w
        /\ \A k \in 1 .. w : Output(b, 0, w)[k] = [buf |-> b, n |-> 0 + k]
    BY <2>1, OutputIs, 0 \in Nat
  <2>3. \A k \in 1 .. w : Output(b, 0, w)[k] = [buf |-> b, n |-> k]
    BY <2>1, <2>2
  <2> QED
    BY <2>2, <2>3 DEF w
<1> QED
  BY <1>1, <1>2

(* The steps of Mpx that a window knows nothing of.                        *)
LEMMA OutOfSight ==
  ASSUME UNCHANGED <<written, prog, out>>
  PROVE  UNCHANGED Window!vars
  BY DEF Window!vars

LEMMA ShownInitially == ASSUME Init PROVE Window!Init
<1>1. \A b \in Bufs : Output(b, 0, written[b]) = <<>>
  <2> TAKE b \in Bufs
  <2>1. written[b] = 0
    BY DEF Init
  <2> QED
    BY <2>1, OutputNone, 0 \in Nat
<1> QED
  BY <1>1 DEF Init, Window!Init

(* A program starts.                                                       *)
LEMMA ForkIsStart == ASSUME ShowInv, Fork PROVE Window!Start(obj) /\ obj \in Bufs
<1> USE DEF Fork, kidVars
<1>1. obj \in Bufs /\ prog[obj] = "none" /\ prog' = [prog EXCEPT ![obj] = "runs"]
  BY DEF ShowInv, IndInv, MpxInv, Control, Inside
<1>2. prog \in [Bufs -> {"none", "runs", "exited"}]
  BY DEF ShowInv, IndInv, TypeOK
<1>3. UNCHANGED <<written, out>>
  OBVIOUS
<1>4. [b \in Bufs |-> prog'[b] # "none"]
        = [[b \in Bufs |-> prog[b] # "none"] EXCEPT ![obj] = TRUE]
  BY <1>1, <1>2
<1> QED
  BY <1>1, <1>3, <1>4 DEF Window!Start

(* It writes.                                                              *)
LEMMA ProgWriteIsWrite == ASSUME ShowInv, NEW b \in Bufs, ProgWrite(b) PROVE Window!Write(b)
<1> USE DEF ProgWrite, edVars
<1> DEFINE n == written[b]
           it == [buf |-> b, n |-> n + 1]
<1>1. /\ prog[b] = "runs" /\ n \in Nat /\ n < MaxOut /\ written' = [written EXCEPT ![b] = n + 1]
      /\ written \in [Bufs -> Nat]
  BY DEF ShowInv, IndInv, TypeOK
<1>2. it \in [buf: Bufs, n: 1 .. MaxOut]
  BY <1>1, MpxBoundAssumption
<1>3. Output(b, 0, n + 1) = Append(Output(b, 0, n), it)
  BY <1>1, OutputMore
<1>4. UNCHANGED <<prog, out>>
  OBVIOUS
<1> DEFINE sent == [c \in Bufs |-> Output(c, 0, written[c])]
<1>5. \A c \in Bufs : Output(c, 0, written'[c]) = IF c = b THEN Output(b, 0, n + 1) ELSE Output(c, 0, written[c])
  BY <1>1
<1>6. [c \in Bufs |-> Output(c, 0, written'[c])] = [sent EXCEPT ![b] = Append(sent[b], it)]
  BY <1>3, <1>5
<1> HIDE DEF it, sent
<1>7. \E i \in [buf: Bufs, n: 1 .. MaxOut] :
        [c \in Bufs |-> Output(c, 0, written'[c])] = [sent EXCEPT ![b] = Append(sent[b], i)]
  BY <1>2, <1>6
<1>8. /\ UNCHANGED <<out, [c \in Bufs |-> prog[c] # "none"]>>
      /\ [c \in Bufs |-> prog[c] # "none"][b]
  BY <1>1, <1>4
<1> QED
  BY <1>7, <1>8 DEF Window!Write, sent

(* An item of it appears.                                                  *)
LEMMA DataIsShow == ASSUME ShowInv, Data PROVE Window!Show(obj) /\ obj \in Bufs
<1>1. /\ data[x + 1] = [buf |-> obj, n |-> Len(out[obj]) + 1]
      /\ Len(out[obj]) + 1 <= copied[obj]
  BY ItemShown
<1>2. obj \in Bufs /\ obj # NULL
  BY NextItem DEF Data
<1>3. copied[obj] <= written[obj] /\ copied[obj] \in Nat /\ written[obj] \in Nat /\ Len(out[obj]) \in Nat
  BY <1>2, Lengths DEF ShowInv, IndInv, Delivery, InBuffer
<1>4. Len(out[obj]) + 1 \in 1 .. written[obj]
  BY <1>1, <1>3
<1>5. /\ Len(Output(obj, 0, written[obj])) = written[obj]
      /\ Output(obj, 0, written[obj])[Len(out[obj]) + 1] = data[x + 1]
  BY <1>1, <1>2, <1>4, Seen DEF ShowInv
<1>6. out' = [out EXCEPT ![obj] = Append(out[obj], data[x + 1])] /\ UNCHANGED <<written, prog>>
  BY DEF Data, sideVars, progVars
<1>7. Len(out[obj]) < written[obj]
  BY <1>3, <1>4
<1> QED
  BY <1>2, <1>5, <1>6, <1>7 DEF Window!Show

(* The window takes the program for ended: all its output is there.        *)
LEMMA ReapIsStop ==
  ASSUME ShowInv, Reap PROVE Window!Stop(func[pack.who]) /\ func[pack.who] \in Bufs
<1> DEFINE b == func[pack.who]
<1>1. pack.who \in Slots /\ b # NULL /\ copier[pack.who] = "none"
  BY Senders DEF Reap, ShowInv, IndInv, MpxInv, LastPacket, LastTaken
<1>2. b \in Bufs /\ UnderWay(pack.who, b) /\ prog[b] # "none"
  BY <1>1, Serves DEF ShowInv, Delivery
<1>3. Len(out[b]) = written[b]
  BY <1>1, <1>2, Lengths DEF UnderWay, Unshown, ShowInv, IndInv
<1>4. out[b] = Output(b, 0, written[b])
  BY <1>2, <1>3 DEF ShowInv, Delivery, InBuffer
<1>5. prog' = [prog EXCEPT ![b] = "none"] /\ UNCHANGED <<written, out>>
  BY DEF Reap
<1>6. prog \in [Bufs -> {"none", "runs", "exited"}]
  BY DEF ShowInv, IndInv, TypeOK
<1>7. [c \in Bufs |-> prog'[c] # "none"]
        = [[c \in Bufs |-> prog[c] # "none"] EXCEPT ![b] = FALSE]
  BY <1>2, <1>5, <1>6
<1> QED
  BY <1>2, <1>4, <1>5, <1>7 DEF Window!Stop

(* A program that ends is still in its window until the editor knows.      *)
LEMMA ProgExitIsNone ==
  ASSUME ShowInv, NEW b \in Bufs, ProgExit(b) PROVE UNCHANGED Window!vars
<1> USE DEF ProgExit, edVars
<1>1. prog[b] = "runs" /\ prog' = [prog EXCEPT ![b] = "exited"] /\ UNCHANGED <<written, out>>
  OBVIOUS
<1>2. prog \in [Bufs -> {"none", "runs", "exited"}]
  BY DEF ShowInv, IndInv, TypeOK
<1>3. [c \in Bufs |-> prog'[c] # "none"] = [c \in Bufs |-> prog[c] # "none"]
  BY <1>1, <1>2
<1> QED
  BY <1>1, <1>3 DEF Window!vars

LEMMA WindowStep ==
  ASSUME ShowInv, [Next]_vars
  PROVE  [Window!Next]_(Window!vars)
<1> USE DEF sideVars, progVars, edVars
<1>1. CASE UNCHANGED vars \/ Type \/ KbdTask \/ CopierExit \/ \E m \in Slots : Copier(m)
  BY <1>1, OutOfSight DEF vars, Type, KbdTask, KbdRead, KbdWrite, KbdAck, CopierExit, Copier,
                       CopierRead, CopierAck, CopierEof
<1>2. CASE \E b \in Bufs : Program(b)
  <2>1. PICK b \in Bufs : Program(b)
    BY <1>2
  <2>2. CASE ProgWrite(b)
    <3>1. Window!Write(b)
      BY <2>2, ProgWriteIsWrite
    <3> QED
      BY <3>1 DEF Window!Next
  <2> QED
    BY <2>1, <2>2, ProgExitIsNone DEF Program
<1>3. CASE Ack \/ Poll \/ GetKey \/ GetPacket \/ DataEnd \/ Died
  BY <1>3, OutOfSight DEF Ack, Poll, GetKey, GetPacket, DataEnd, Died
<1>4. CASE Data \/ Reap
  <2>1. CASE Data
    <3>1. Window!Show(obj) /\ obj \in Bufs
      BY <2>1, DataIsShow
    <3> QED
      BY <3>1 DEF Window!Next
  <2>2. CASE Reap
    <3>1. Window!Stop(func[pack.who]) /\ func[pack.who] \in Bufs
      BY <2>2, ReapIsStop
    <3>2. \E b \in Bufs : Window!Stop(b)
      BY <3>1 DEF Window!Stop
    <3> QED
      BY <3>2 DEF Window!Next
  <2> QED
    BY <1>4, <2>1, <2>2
<1>5. CASE (\E b \in Bufs : Run(b)) \/ Suspend \/ CmdEnd
  BY <1>5, OutOfSight DEF Run, Suspend, CmdEnd
<1>6. CASE Fork
  <2>1. \E b \in Bufs : Window!Start(b)
    BY <1>6, ForkIsStart DEF Window!Start
  <2> QED
    BY <2>1 DEF Window!Next
<1> QED
  BY <1>1, <1>2, <1>3, <1>4, <1>5, <1>6 DEF Next, Editor, Command

(* "Any output from the shell or from commands executed in the shell is    *)
(* appended to the shell window" (joe.1.in:924): seen from outside, what   *)
(* the copiers, the pipe and the editor do together is that items that     *)
(* programs have written appear in order, none twice and none left out,    *)
(* and that a program is taken for ended only when all of them are there.  *)
(* For any number of windows, slots and items, as long as the bells in one *)
(* packet do not fill the output buffer.                                   *)
THEOREM OutputArrives ==
  ASSUME MaxSteps <= 1, Chunk < obufsiz
  PROVE  Spec => ShowsOutput
<1>1. Init => ShowInv /\ Window!Init
  BY ShowInitially, ShownInitially
<1>2. ShowInv /\ [Next]_vars => ShowInv'
  BY ShowStep
<1>3. ShowInv /\ [Next]_vars => [Window!Next]_(Window!vars)
  BY WindowStep
<1> QED
  BY <1>1, <1>2, <1>3, PTL DEF Spec, ShowsOutput, Window!Safe
=============================================================================
