------------------------------ MODULE GapBuffer ------------------------------
(***************************************************************************)
(* The editing engine of b.c: a buffer is a chain of headers, each with a  *)
(* segment of at most SEGSIZ bytes around a gap, and a ring of pointers    *)
(* that every edit has to carry along.  One action is one editing command  *)
(* as the callers of b.c make it; inside it the code's own steps are       *)
(* operators from buffer to buffer, under the code's names.                *)
(*                                                                         *)
(* buf is the buffer: its chain (bof's header first), the contents of the  *)
(* segments in use (bytes left and right of the gap, count of newlines),   *)
(* the pointers by name, the number of locks on each segment's page (lock  *)
(* 0 is what unlocking a null pointer would touch), and the -crlf option.  *)
(* A pointer's ptr is the segment it holds locked, 0 when it is offline.   *)
(* A column that is not valid is kept as 0: the code never reads it.       *)
(*                                                                         *)
(* vlock/vunlock pairs around one step leave nothing behind and are left   *)
(* out, as are the screen (scrins, scrdel), the error list and undo, which *)
(* is modelled in Undo.  The charmap is a byte charmap.                    *)
(***************************************************************************)
EXTENDS Integers, Sequences, SequencesExt, FiniteSets, FiniteSetsExt, TLC

CONSTANTS
  SEGSIZ,    \* bytes in a segment
  Users,     \* pointers the rest of the editor holds: cursors, marks
  Blocks,    \* the texts a command may insert
  NL, CR,    \* the two bytes the engine itself looks at
  CrlfModes, \* the values of the -crlf option to consider
  MaxText,   \* bound on the length of the text
  MaxHdr     \* bound on the headers in use inside one command

ASSUME SegmentsAssumption == SEGSIZ \in Nat \ {0} /\ MaxHdr \in Nat \ {0}
ASSUME BlocksAssumption == \A blk \in Blocks : Len(blk) \in 1 .. MaxText
ASSUME NewlinesAssumption == NL # CR /\ CrlfModes \subseteq BOOLEAN

VARIABLE buf

NULL == 0
NO_MORE_DATA == "no more data"

----------------------------------------------------------------------------
(* Segments.                                                               *)

mcnt(s) == Cardinality({i \in DOMAIN s : s[i] = NL})

gstgap(s, ofst) ==
  LET hole == Len(s.l)
  IN IF ofst > hole
     THEN [s EXCEPT !.l = @ \o SubSeq(s.r, 1, ofst - hole),
                    !.r = SubSeq(@, ofst - hole + 1, Len(@))]
     ELSE [s EXCEPT !.l = SubSeq(@, 1, ofst), !.r = SubSeq(s.l, ofst + 1, hole) \o @]

ginsm(s, ofst, blk) == [gstgap(s, ofst) EXCEPT !.l = @ \o blk]

Bytes(s)    == s.l \o s.r
GSIZE(b, h) == Len(b.seg[h].l) + Len(b.seg[h].r)
GGAPSZ(b, h) == SEGSIZ - GSIZE(b, h)
GCHAR(b, p) == LET s == b.seg[p.hdr]
               IN IF p.ofst >= Len(s.l) THEN s.r[p.ofst - Len(s.l) + 1] ELSE s.l[p.ofst + 1]

(* halloc: a header that is not in use, with text s in its segment.        *)
Spare(b) == Min((1 .. MaxHdr) \ DOMAIN b.seg)
halloc(b, s, n) == [b EXCEPT !.seg = (Spare(b) :> [l |-> s, r |-> <<>>, n |-> n]) @@ @]
hfree(b, H)     == [b EXCEPT !.seg = [h \in DOMAIN @ \ H |-> @[h]]]

(* The text after the gap, or before it, goes to a header of its own: what *)
(* stays.                                                                  *)
SplitOff(s) == [s EXCEPT !.r = <<>>, !.n = @ - mcnt(s.r)]
CutFront(s) == [s EXCEPT !.l = <<>>, !.n = @ - mcnt(s.l)]

(* The chain.                                                              *)
At(c, h)   == CHOOSE i \in DOMAIN c : c[i] = h
Succ(b, h) == b.chain[At(b.chain, h) + 1]
Pred(b, h) == b.chain[At(b.chain, h) - 1]
Final(c)   == c[Len(c)]
Before(c, h, a) == SubSeq(c, 1, At(c, h) - 1) \o a \o SubSeq(c, At(c, h), Len(c))
After(c, h, a)  == SubSeq(c, 1, At(c, h)) \o a \o SubSeq(c, At(c, h) + 1, Len(c))
Unlinked(c, h)  == SubSeq(c, 1, At(c, h) - 1) \o SubSeq(c, At(c, h) + 1, Len(c))

----------------------------------------------------------------------------
(* Pointers.                                                               *)

Locked(b, h)   == [b EXCEPT !.lock[h] = @ + 1]
Unlocked(b, h) == [b EXCEPT !.lock[h] = @ - 1]

(* vunlock(p->ptr); p->ptr = vlock(hdr->seg)                               *)
Relock(b, n, h) == [Locked(Unlocked(b, b.pt[n].ptr), h) EXCEPT !.pt[n].ptr = h]

(* A pointer that a movement took to p: its lock went with it.             *)
Moved(b, n, p) ==
  LET c == IF p.ptr = b.pt[n].ptr THEN b ELSE Relock(b, n, p.ptr)
  IN [c EXCEPT !.pt[n] = p]

Stale(p) == [p EXCEPT !.valcol = FALSE, !.col = 0]

poffline(b, n) ==
  IF b.pt[n].ptr = NULL THEN b ELSE [Unlocked(b, b.pt[n].ptr) EXCEPT !.pt[n].ptr = NULL]
ponline(b, n) ==
  IF b.pt[n].ptr # NULL THEN b ELSE [Locked(b, b.pt[n].hdr) EXCEPT !.pt[n].ptr = b.pt[n].hdr]

(* Faulty variant of pset: what n had locked is forgotten.                 *)
pset_Held(b, n, m) ==
  IF n = m THEN b ELSE
  LET h == IF b.pt[m].ptr # NULL THEN b.pt[m].ptr ELSE b.pt[m].hdr
  IN [Locked(b, h) EXCEPT !.pt[n] = [b.pt[m] EXCEPT !.ptr = h]]

pset(b, n, m) ==
  IF n = m THEN b ELSE
  LET p == b.pt[m]
      h == IF p.ptr # NULL THEN p.ptr ELSE p.hdr
  IN [Locked(poffline(b, n), h) EXCEPT !.pt[n] = [p EXCEPT !.ptr = h]]

pdup(b, n, m) == pset([b EXCEPT !.pt = (n :> [b.pt[m] EXCEPT !.ptr = NULL]) @@ @], n, m)
prm(b, n) == LET c == poffline(b, n) IN [c EXCEPT !.pt = [m \in DOMAIN @ \ {n} |-> @[m]]]

(* for (q = p->link.next; q != p; q = q->link.next) Body                   *)
Others(b, n, Body(_, _)) == FoldSet(LAMBDA m, c : Body(c, m), b, DOMAIN b.pt \ {n})

pisbof(b, p) == p.hdr = b.pt["bof"].hdr /\ p.ofst = 0
piseof(b, p) == p.ofst = GSIZE(b, p.hdr)
brc(b, p)    == IF piseof(b, p) THEN NO_MORE_DATA ELSE GCHAR(b, p)

pnext(b, p) ==
  IF p.hdr = b.pt["eof"].hdr THEN [p EXCEPT !.ofst = GSIZE(b, p.hdr)]
  ELSE [p EXCEPT !.hdr = Succ(b, p.hdr), !.ofst = 0, !.ptr = Succ(b, p.hdr)]
pprev(b, p) ==
  IF p.hdr = b.pt["bof"].hdr THEN [p EXCEPT !.ofst = 0]
  ELSE LET h == Pred(b, p.hdr) IN [p EXCEPT !.hdr = h, !.ofst = GSIZE(b, h), !.ptr = h]

(* Faulty variant of Step: p is left at the end of its segment.            *)
Step_Parked(b, p) == [p EXCEPT !.ofst = @ + 1, !.byte = @ + 1]

(* No pointer stays at the end of a segment that another follows.         *)
Settle(b, p) == IF piseof(b, p) THEN pnext(b, p) ELSE p

(* Over one byte, into the next segment when this one ends.                *)
Bump(p)    == [p EXCEPT !.ofst = @ + 1, !.byte = @ + 1]
Step(b, p) == Settle(b, Bump(p))

(* The movements of one byte, as <<pointer, byte read>>.                   *)
NewLine(p) == [p EXCEPT !.line = @ + 1, !.col = 0, !.valcol = TRUE]
Read(b, q, c) ==      \* c was read, q is behind it
  IF c = NL THEN <<NewLine(q), NL>>
  ELSE IF c = CR /\ b.crlf /\ brc(b, q) = NL THEN <<NewLine(Step(b, q)), NL>>
  ELSE <<Stale(q), c>>
pgetb(b, p) ==
  IF piseof(b, p) THEN <<p, NO_MORE_DATA>> ELSE Read(b, Step(b, p), GCHAR(b, p))

OneBack(p) == [p EXCEPT !.ofst = @ - 1, !.byte = @ - 1]
Unread(b, p) ==       \* p went back over the byte it is at
  IF GCHAR(b, p) = NL THEN <<[p EXCEPT !.line = @ - 1], NL>> ELSE <<p, GCHAR(b, p)>>
prgetb1(b, p) ==
  IF pisbof(b, p) THEN <<pprev(b, p), NO_MORE_DATA>>
  ELSE Unread(b, OneBack(Stale(IF p.ofst = 0 THEN pprev(b, p) ELSE p)))

(* Faulty variant of prgetb: the return before a newline is not looked at. *)
prgetb_Lf(b, p) == prgetb1(b, p)

BehindCr(b, x) ==     \* a newline was read, and before it x
  <<IF x[2] \in {CR, NO_MORE_DATA} THEN x[1] ELSE pgetb(b, x[1])[1], NL>>
BehindNl(b, x) ==
  IF b.crlf /\ x[2] = NL THEN BehindCr(b, prgetb1(b, x[1])) ELSE x
prgetb(b, p) == BehindNl(b, prgetb1(b, p))

(* pisbol moves p back and forth: <<pointer, answer>>.                     *)
Forth(b, x)  == <<pgetb(b, x[1])[1], x[2] = NL>>
pisbol(b, p) == IF pisbof(b, p) THEN <<p, TRUE>> ELSE Forth(b, prgetb(b, p))

(* A temporary pointer n at byte i, as pdup and pgoto leave it: inside a   *)
(* segment, at the end of one only at the end of the file.                 *)
Text(b) == FlattenSeq([i \in DOMAIN b.chain |-> Bytes(b.seg[b.chain[i]])])
Start(b, k) == Len(Text([b EXCEPT !.chain = SubSeq(@, 1, k - 1)]))
Nth(b, i) == Max({1} \cup {j \in DOMAIN b.chain : Start(b, j) <= i /\ GSIZE(b, b.chain[j]) > 0})
InNth(b, i, k, line) ==
  [hdr |-> b.chain[k], ofst |-> i - Start(b, k), byte |-> i, line |-> line,
   col |-> 0, valcol |-> FALSE, ptr |-> b.chain[k]]
Place(b, i) == InNth(b, i, Nth(b, i), mcnt(SubSeq(Text(b), 1, i)))
GoTo(b, n, i) == IF b.pt[n].byte = i THEN b ELSE Moved(b, n, Place(b, i))
Temp(b, n, i) == GoTo(pdup(b, n, "bof"), n, i)

----------------------------------------------------------------------------
(* Coalescing small segments around p.                                     *)

Fits(b, h, k) == GSIZE(b, h) + GSIZE(b, k) <= SEGSIZ - SEGSIZ \div 4

(* The text of a second segment comes into segment s at ofst.              *)
Join(s, ofst, t) == [ginsm(s, ofst, Bytes(t)) EXCEPT !.n = @ + t.n]

(* Pointer n goes to header h, its lock with it.                           *)
Carry(b, n, h, ofst) ==
  [(IF b.pt[n].ptr = NULL THEN b ELSE Relock(b, n, h)) EXCEPT
     !.pt[n].hdr = h, !.pt[n].ofst = ofst]

JoinNext(b, n, g, h) ==
  LET Follow(d, q) ==
        IF d.pt[q].hdr = h THEN Carry(d, q, g, d.pt[q].ofst + GSIZE(b, g)) ELSE d
  IN Others([hfree(b, {h}) EXCEPT !.seg[g] = Join(@, GSIZE(b, g), b.seg[h]),
                                  !.chain = Unlinked(@, h)], n, Follow)
CoalesceNext(b, n) ==
  IF b.pt[n].hdr = b.pt["eof"].hdr \/ ~Fits(b, b.pt[n].hdr, Succ(b, b.pt[n].hdr)) THEN b
  ELSE JoinNext(b, n, b.pt[n].hdr, Succ(b, b.pt[n].hdr))

(* The second half takes an offline pointer online.                        *)
JoinPrev(b, n, g, h) ==
  LET Follow(d, q) ==
        CASE d.pt[q].hdr = h -> ponline([poffline(d, q) EXCEPT !.pt[q].hdr = g], q)
          [] d.pt[q].hdr = g -> [d EXCEPT !.pt[q].ofst = @ + GSIZE(b, h)]
          [] OTHER -> d
  IN Others([hfree(b, {h}) EXCEPT !.seg[g] = Join(@, 0, b.seg[h]), !.chain = Unlinked(@, h),
                                  !.pt[n].ofst = @ + GSIZE(b, h)], n, Follow)
CoalescePrev(b, n) ==
  IF b.pt[n].hdr = b.pt["bof"].hdr \/ ~Fits(b, b.pt[n].hdr, Pred(b, b.pt[n].hdr)) THEN b
  ELSE JoinPrev(b, n, b.pt[n].hdr, Pred(b, b.pt[n].hdr))

pcoalesce(b, n) == CoalescePrev(CoalesceNext(b, n), n)

(* A second buffer made of chain c.  It shares segments and locks with b:  *)
(* WithBuffer brings what happened to them back to b.                      *)
bmkchn(b, c, amnt, nlines) ==
  LET bof == [hdr |-> c[1], ofst |-> 0, byte |-> 0, line |-> 0, col |-> 0,
              valcol |-> TRUE, ptr |-> c[1]]
      eof == [bof EXCEPT !.hdr = Final(c), !.ptr = Final(c), !.ofst = GSIZE(b, Final(c)),
                         !.byte = amnt, !.line = nlines, !.valcol = FALSE]
      d == [Locked(Locked(b, c[1]), Final(c)) EXCEPT
              !.chain = c, !.pt = [bof |-> bof, eof |-> eof]]
  IN pcoalesce(pcoalesce(d, "bof"), "eof")

WithBuffer(b, d) == <<[b EXCEPT !.seg = d.seg, !.lock = d.lock], d>>

brm(b, d) ==
  LET c == hfree(b, {d.chain[i] : i \in DOMAIN d.chain})
  IN Unlocked(Unlocked(c, d.pt["bof"].ptr), d.pt["eof"].ptr)

----------------------------------------------------------------------------
(* Deleting the text from pointer f to pointer t.                          *)

(* Within one segment: <<buffer, headers with the deleted text, toamnt>>.  *)
CutOne(b, f, t) ==
  LET g == b.pt[f].hdr
      s == gstgap(b.seg[g], b.pt[f].ofst)
      amnt == b.pt[t].byte - b.pt[f].byte
      nlines == b.pt[t].line - b.pt[f].line
      c == halloc(b, SubSeq(s.r, 1, amnt), nlines)
  IN <<[c EXCEPT !.seg[g] = [s EXCEPT !.r = SubSeq(@, amnt + 1, Len(@)), !.n = @ - nlines]],
       <<Spare(b)>>, amnt>>

(* Faulty variant of Pieces: the two ends swapped.                         *)
Pieces_Swapped(h, between, i) == i \o between \o h

(* The deleted text in order: the end of from's segment, those between,    *)
(* the start of to's.                                                      *)
Pieces(h, between, i) == h \o between \o i

(* Across segments: the start of t's, the end of f's, and all between.     *)
CutMany(b, f, t) ==
  LET g == b.pt[f].hdr
      k == b.pt[t].hdr
      toamnt == b.pt[t].ofst
      st == gstgap(b.seg[k], toamnt)
      b1 == IF toamnt = 0 THEN b
            ELSE [halloc(b, st.l, mcnt(st.l)) EXCEPT
                    !.seg[k] = CutFront(st)]
      i  == IF toamnt = 0 THEN <<>> ELSE <<Spare(b)>>
      sf == gstgap(b1.seg[g], b.pt[f].ofst)
      b2 == IF b.pt[f].ofst = 0 THEN b1
            ELSE [halloc(b1, sf.r, mcnt(sf.r)) EXCEPT
                    !.seg[g] = SplitOff(sf)]
      h  == IF b.pt[f].ofst = 0 THEN <<>> ELSE <<Spare(b1)>>
      a  == IF b.pt[f].ofst = 0 THEN At(b.chain, g) - 1 ELSE At(b.chain, g)
      z  == At(b.chain, k)
      \* from->ptr = to->ptr; vupcount(to->ptr)
      b3 == [Locked(Unlocked(b2, b.pt[f].ptr), b.pt[t].ptr) EXCEPT
               !.pt[f].hdr = k, !.pt[f].ptr = b.pt[t].ptr, !.pt[f].ofst = 0,
               !.chain = SubSeq(@, 1, a) \o SubSeq(@, z, Len(@))]
      bofmove == a = 0
  IN <<IF bofmove THEN pset(b3, "bof", f) ELSE b3,
       Pieces(h, SubSeq(b.chain, a + 1, z - 1), i), toamnt>>

(* If to is empty it was at the end of the file: unlink it too.            *)
DropEmpty(b, f, t) ==
  IF GSIZE(b, b.pt[t].hdr) # 0 \/ b.pt[f].byte = 0 THEN b ELSE
  LET h == b.pt[f].hdr
      ph == Pred(b, h)
      c == Relock([hfree(b, {h}) EXCEPT !.chain = Unlinked(@, h)], f, ph)
      d == Relock(c, "eof", ph)
  IN [d EXCEPT !.pt[f].hdr = ph, !.pt[f].ofst = GSIZE(b, ph),
               !.pt["eof"].hdr = ph, !.pt["eof"].ofst = GSIZE(b, ph)]

(* Scroll if necessary: the test whether from begins a line moves it.      *)
Scrolled(b, f, nlines) == IF nlines = 0 THEN b ELSE Moved(b, f, pisbol(b, b.pt[f])[1])

(* A pointer p behind the deletion.                                        *)
Behind(p, amnt, nlines, tohdr, toamnt) ==
  [p EXCEPT !.ofst = IF p.hdr = tohdr THEN @ - toamnt ELSE @,
            !.byte = @ - amnt, !.line = @ - nlines]

FixDeleted(b, f, tohdr, amnt, nlines, toamnt) ==
  LET from == b.pt[f]
      c == [b EXCEPT !.pt = [q \in DOMAIN @ |->
              IF q # f /\ @[q].line = from.line /\ @[q].byte > from.byte
              THEN Stale(@[q]) ELSE @[q]]]
      Fix(d, q) ==
        LET p == d.pt[q]
        IN CASE p.byte < from.byte -> d
             [] p.byte \in from.byte .. from.byte + amnt ->
                  IF p.ptr # NULL THEN pset(d, q, f) ELSE poffline(pset(d, q, f), q)
             [] OTHER -> [d EXCEPT !.pt[q] = Behind(@, amnt, nlines, tohdr, toamnt)]
  IN Others(c, f, Fix)

(* <<buffer, buffer with the deleted text>>                                *)
Removed(b, f, t, x, amnt, nlines) ==
  pcoalesce(FixDeleted(Scrolled(DropEmpty(x[1], f, t), f, nlines),
                       f, b.pt[t].hdr, amnt, nlines, x[3]), f)
CutOff(b, f, t, x, amnt, nlines) ==
  LET MkChn(d) == WithBuffer(d, bmkchn(d, x[2], amnt, nlines))
  IN MkChn(Removed(b, f, t, x, amnt, nlines))
bcut(b, f, t) ==
  CutOff(b, f, t, IF b.pt[f].hdr = b.pt[t].hdr THEN CutOne(b, f, t) ELSE CutMany(b, f, t),
         b.pt[t].byte - b.pt[f].byte, b.pt[t].line - b.pt[f].line)

(* The deleted text goes to undo, which keeps a buffer of its own.         *)
bdel(b, f, t) ==
  LET Drop(x) == brm(x[1], x[2])
  IN IF b.pt[t].byte = b.pt[f].byte THEN b ELSE Drop(bcut(b, f, t))

----------------------------------------------------------------------------
(* Inserting.                                                              *)

bsplit(b, n) ==
  IF b.pt[n].ofst = 0 THEN b ELSE
  LET g == b.pt[n].hdr
      o == b.pt[n].ofst
      h == Spare(b)
      s == gstgap(b.seg[g], o)
      c == [halloc(b, s.r, mcnt(s.r)) EXCEPT
              !.seg[g] = SplitOff(s),
              !.chain = After(@, g, <<h>>)]
      Follow(d, q) ==
        IF d.pt[q].hdr = g /\ d.pt[q].ofst >= o THEN Carry(d, q, h, d.pt[q].ofst - o) ELSE d
  IN [Relock(Others(c, n, Follow), n, h) EXCEPT !.pt[n].hdr = h, !.pt[n].ofst = 0]

EofTo(b, h) == [Relock(b, "eof", h) EXCEPT !.pt["eof"].hdr = h, !.pt["eof"].ofst = GSIZE(b, h)]
ToHdr(b, n, h) == [Relock(b, n, h) EXCEPT !.pt[n].hdr = h]

(* The chain a goes in at pointer n, which ends at its start.              *)
inschn(b, n, a) ==
  LET p == b.pt[n]
  IN IF b.pt["eof"].byte = 0 THEN
       EofTo(pset(ToHdr([hfree(b, {p.hdr}) EXCEPT !.chain = a], n, a[1]), "bof", n), Final(a))
     ELSE IF piseof(b, p) THEN
       [ToHdr(EofTo([b EXCEPT !.chain = @ \o a], Final(a)), n, a[1]) EXCEPT !.pt[n].ofst = 0]
     ELSE IF pisbof(b, p) THEN
       pset(ToHdr([b EXCEPT !.chain = a \o @], n, a[1]), "bof", n)
     ELSE LET c == bsplit(b, n)
          IN ToHdr([c EXCEPT !.chain = Before(@, c.pt[n].hdr, a)], n, a[1])

(* Faulty variant of Past: so is every pointer at the same place.          *)
Past_All(b, q, at) == b.pt[q].byte >= at.byte

(* Pointer q of b is behind what is inserted at `at'; eof always is.       *)
Past(b, q, at) == b.pt[q].byte > at.byte \/ (q = "eof" /\ b.pt[q].byte = at.byte)

(* The pointers after n have amnt bytes more before them.                  *)
Shifted(b, n, amnt, nlines, hdr, hdramnt) ==
  LET at == b.pt[n]
      c == [b EXCEPT !.pt = [q \in DOMAIN @ |->
              IF q # n /\ @[q].line = at.line /\ Past(b, q, at) THEN Stale(@[q]) ELSE @[q]]]
      Fix(d, q) ==
        CASE Past(b, q, at) -> [d EXCEPT !.pt[q].byte = @ + amnt, !.pt[q].line = @ + nlines,
                                  !.pt[q].ofst = IF d.pt[q].hdr = hdr THEN @ + hdramnt ELSE @]
          [] d.pt[q].byte = at.byte /\ q # "eof" ->
               IF d.pt[q].ptr # NULL THEN pset(d, q, n) ELSE poffline(pset(d, q, n), q)
          [] OTHER -> d
  IN Others(c, n, Fix)
fixupins(b, n, amnt, nlines, hdr, hdramnt) ==
  Shifted(Moved(b, n, pisbol(b, b.pt[n])[1]), n, amnt, nlines, hdr, hdramnt)

(* Texts into headers of their own, in order: <<buffer, chain>>.           *)
(* bcpy takes over the count of a whole segment: SegmentsExact.            *)
NewHeaders(b, texts) ==
  FoldLeft(LAMBDA x, s : <<halloc(x[1], s, mcnt(s)), Append(x[2], Spare(x[1]))>>,
           <<b, <<>>>>, texts)

bldchn(b, blk) ==
  NewHeaders(b, [i \in 1 .. (Len(blk) + SEGSIZ - 1) \div SEGSIZ |->
                   SubSeq(blk, (i - 1) * SEGSIZ + 1, Min({i * SEGSIZ, Len(blk)}))])

(* Where the text blk goes at the temporary pointer q -- into its segment, *)
(* at the end of the one before, or into new ones: <<buffer, the header    *)
(* whose pointers move in it, by how much>>.                               *)
Into(b, h, o, blk) == [b EXCEPT !.seg[h] = [ginsm(@, o, blk) EXCEPT !.n = @ + mcnt(blk)]]
AtEnd(b, p, blk)   == Into(Moved(b, "q", p), p.hdr, p.ofst, blk)
Room(b, q, blk) ==
  LET Chain(y) == inschn(y[1], "q", y[2])
  IN IF Len(blk) <= GGAPSZ(b, q.hdr) THEN <<Into(b, q.hdr, q.ofst, blk), q.hdr, Len(blk)>>
     ELSE IF q.ofst = 0 /\ ~pisbof(b, q) /\ Len(blk) <= GGAPSZ(b, Pred(b, q.hdr))
       THEN <<AtEnd(b, pprev(b, q), blk), NULL, 0>>
     ELSE <<Chain(bldchn(b, blk)), NULL, 0>>
binsm(b, n, blk) ==
  LET Fixed(x)  == fixupins(x[1], "q", Len(blk), mcnt(blk), x[2], x[3])
      Within(c) == prm(pcoalesce(Fixed(Room(c, c.pt["q"], blk)), "q"), "q")
  IN Within(pdup(b, "q", n))

(* The text between f and t in a new buffer: <<buffer, copy>>.  The gaps   *)
(* of the two segments it starts and ends in are moved there.              *)
Copied(b, f, t, g, k) ==     \* <<buffer, texts>>
  LET Gap(c, h, o) == [c EXCEPT !.seg[h] = gstgap(@, o)]
      c == IF t.ofst = 0 THEN Gap(b, g, f.ofst) ELSE Gap(Gap(b, g, f.ofst), k, t.ofst)
  IN IF g = k THEN <<Gap(b, g, f.ofst), <<SubSeq(Bytes(b.seg[g]), f.ofst + 1, t.ofst)>>>>
     ELSE <<c, <<SubSeq(Bytes(b.seg[g]), f.ofst + 1, GSIZE(b, g))>>
               \o [i \in 1 .. At(b.chain, k) - At(b.chain, g) - 1 |->
                     Bytes(b.seg[b.chain[At(b.chain, g) + i]])]
               \o (IF t.ofst = 0 THEN <<>> ELSE <<SubSeq(Bytes(b.seg[k]), 1, t.ofst)>>)>>
bcpy(b, f, t) ==
  LET from == b.pt[f]
      to == b.pt[t]
      empty == from.byte >= to.byte
      Alloc(x) == NewHeaders(x[1], x[2])
      MkChn(x) == WithBuffer(x[1], bmkchn(x[1], x[2], IF empty THEN 0 ELSE to.byte - from.byte,
                                                      IF empty THEN 0 ELSE to.line - from.line))
  IN MkChn(Alloc(IF empty THEN <<b, <<<<>>>>>> ELSE Copied(b, from, to, from.hdr, to.hdr)))

(* The buffer d goes in at n and goes away.                                *)
Poured(b, d, c) ==    \* b->eof->hdr = halloc(), so that brm does not free what moved
  LET Fixed(x) == prm(pcoalesce(fixupins(x, "q", d.pt["eof"].byte, d.pt["eof"].line, NULL, 0),
                                "q"), "q")
  IN brm(Fixed(halloc(c, <<>>, 0)), [d EXCEPT !.chain = <<Spare(c)>>])
binsb(b, n, d) ==
  IF d.pt["eof"].byte = 0 THEN brm(b, d)
  ELSE Poured(b, d, inschn(pdup(b, "q", n), "q", d.chain))

----------------------------------------------------------------------------
(* The commands.                                                           *)

(* Headers are interchangeable: after a command they are numbered in the   *)
(* order of the chain, so that TLC does not tell permutations apart.       *)
Renumber(b) ==
  LET rest == (1 .. MaxHdr) \ {b.chain[i] : i \in DOMAIN b.chain}
      Rank(h) == Len(b.chain) + Cardinality({g \in rest : g <= h})
      num == [h \in 0 .. MaxHdr |-> IF h = NULL THEN NULL
                                    ELSE IF h \in rest THEN Rank(h) ELSE At(b.chain, h)]
      was == [i \in 0 .. MaxHdr |-> CHOOSE h \in 0 .. MaxHdr : num[h] = i]
  IN IF b.chain = [i \in DOMAIN b.chain |-> i] THEN b ELSE
     [b EXCEPT !.chain = [i \in DOMAIN @ |-> i],
               !.seg = [i \in {num[h] : h \in DOMAIN @} |-> @[was[i]]],
               !.lock = [i \in DOMAIN @ |-> @[was[i]]],
               !.pt = [q \in DOMAIN @ |->
                         [@[q] EXCEPT !.hdr = num[@], !.ptr = num[@]]]]

Size == buf.pt["eof"].byte

(* With -crlf a command takes a return and its newline for one character:  *)
(* no operand is between the two.                                          *)
Whole(b, i) == ~(b.crlf /\ i \in 1 .. Len(Text(b)) - 1
                 /\ Text(b)[i] = CR /\ Text(b)[i + 1] = NL)

Init ==
  \E crlf \in CrlfModes :
    LET p == [hdr |-> 1, ofst |-> 0, byte |-> 0, line |-> 0, col |-> 0, valcol |-> TRUE, ptr |-> 1]
        pts == Users \cup {"bof", "eof"}
    IN buf = [chain |-> <<1>>, seg |-> 1 :> [l |-> <<>>, r |-> <<>>, n |-> 0], crlf |-> crlf,
              pt |-> [q \in pts |-> IF q = "eof" THEN Stale(p) ELSE p],
              lock |-> [h \in 0 .. MaxHdr |-> IF h = 1 THEN Cardinality(pts) ELSE 0]]

(* binsc and binsm at a cursor: a newline typed with -crlf is two bytes.   *)
Typed(blk) == IF buf.crlf /\ blk = <<NL>> THEN <<CR, NL>> ELSE blk
Insert(u, blk) ==
  /\ buf.pt[u].ptr # NULL /\ Size + Len(Typed(blk)) <= MaxText
  /\ buf' = Renumber(binsm(buf, u, Typed(blk)))

(* q = pdup(p); q goes forward; bdel(p, q); prm(q): udelch and its kin.    *)
DeleteForward(u, i) ==
  /\ buf.pt[u].ptr # NULL /\ i \in buf.pt[u].byte + 1 .. Size /\ Whole(buf, i)
  /\ buf' = Renumber(prm(bdel(GoTo(pdup(buf, "t", u), "t", i), u, "t"), "t"))

(* q = pdup(p); p goes back; bdel(p, q); prm(q): ubacks and its kin.       *)
DeleteBack(u, i) ==
  /\ buf.pt[u].ptr # NULL /\ i \in 0 .. buf.pt[u].byte - 1 /\ Whole(buf, i)
  /\ buf' = Renumber(prm(bdel(GoTo(pdup(buf, "t", u), u, i), u, "t"), "t"))

(* bdel(markb, markk) between two pointers of others: ublkdel.             *)
DeleteBlock(u, v) ==
  /\ buf.pt[u].ptr # NULL /\ buf.pt[v].ptr # NULL /\ buf.pt[u].byte < buf.pt[v].byte
  /\ buf' = Renumber(bdel(buf, u, v))

(* binsb(p, bcpy(from, to)): ublkcpy, yank, and undo putting text back.    *)
Paste(u, i, j) ==
  /\ buf.pt[u].ptr # NULL /\ i <= j /\ Size + j - i <= MaxText
  /\ Whole(buf, i) /\ Whole(buf, j)
  /\ LET Put(x) == binsb(prm(prm(x[1], "t"), "f"), u, x[2])
     IN buf' = Renumber(Put(bcpy(Temp(Temp(buf, "f", i), "t", j), "f", "t")))

(* A mark is set to where the cursor v is and kept offline; going there is *)
(* a copy: dosetmark and dogomark.                                         *)
SetMark(u, v)  == u # v /\ buf.pt[v].ptr # NULL /\ buf' = poffline(pdup(prm(buf, u), u, v), u)
GotoMark(u, v) == u # v /\ buf.pt[u].ptr # NULL /\ buf' = pset(buf, u, v)

Edit ==
  \E u \in Users :
    \/ \E blk \in Blocks : Insert(u, blk)
    \/ \E i \in 0 .. Size : DeleteForward(u, i) \/ DeleteBack(u, i)
    \/ \E v \in Users : DeleteBlock(u, v)
    \/ \E i, j \in 0 .. Size : Paste(u, i, j)

(* Points has the movements; here a cursor just gets to a byte.            *)
Goto(u, i) == buf.pt[u].ptr # NULL /\ Whole(buf, i) /\ buf' = GoTo(buf, u, i)

Next ==
  \/ Edit
  \/ \E u, v \in Users : SetMark(u, v) \/ GotoMark(u, v)
  \/ \E u \in Users, i \in 0 .. Size : Goto(u, i)

Spec == Init /\ [][Next]_buf

----------------------------------------------------------------------------
(* Properties.                                                             *)

TypeOK ==
  /\ buf.chain \in Seq(1 .. MaxHdr) /\ buf.chain # <<>> /\ buf.crlf \in CrlfModes
  /\ DOMAIN buf.pt = Users \cup {"bof", "eof"}
  /\ \A q \in DOMAIN buf.pt :
       LET p == buf.pt[q]
       IN /\ p.hdr \in 1 .. MaxHdr /\ p.ptr \in 0 .. MaxHdr /\ p.valcol \in BOOLEAN
          /\ p.ofst \in Nat /\ p.byte \in Nat /\ p.line \in Nat /\ p.col \in Nat

(* Every pointer is where its byte offset says: its header and offset, and *)
(* the line, are those of that byte, and it is never parked at the end of  *)
(* a segment that another follows -- piseof compares the offset with the   *)
(* size of its segment and nothing else (b.c:384).  bof and eof are at the *)
(* ends.  Every edit has to carry every pointer along (b.c:1625, b.c:1791).*)
PointersCoherent ==
  /\ buf.pt["bof"].byte = 0 /\ buf.pt["eof"].byte = Len(Text(buf))
  /\ \A q \in DOMAIN buf.pt :
       LET p == buf.pt[q]
       IN /\ p.byte \in 0 .. Len(Text(buf))
          /\ LET z == Place(buf, p.byte)
             IN p.hdr = z.hdr /\ p.ofst = z.ofst /\ p.line = z.line

(* A header's count of newlines is that of its segment (pnextl and pline   *)
(* skip segments by it, b.c:819), a segment holds no more than SEGSIZ      *)
(* bytes, and only an empty file has an empty segment.                     *)
SegmentsExact ==
  \A i \in DOMAIN buf.chain :
    LET s == buf.seg[buf.chain[i]]
    IN /\ s.n = mcnt(Bytes(s)) /\ Len(Bytes(s)) <= SEGSIZ
       /\ Len(Bytes(s)) = 0 => Len(buf.chain) = 1

(* No page stays locked for nobody, none is unlocked under a pointer that  *)
(* reads it, a null pointer is never unlocked, and a header is either in   *)
(* the chain or free: vunlock is to be called once for every vlock         *)
(* (vfile.h:107), or vlock ends with no page to evict.                     *)
LocksBalanced ==
  /\ DOMAIN buf.seg = {buf.chain[i] : i \in DOMAIN buf.chain}
  /\ \A q \in DOMAIN buf.pt : buf.pt[q].ptr \in {NULL, buf.pt[q].hdr}
  /\ buf.lock[NULL] = 0
  /\ \A h \in 1 .. MaxHdr :
       buf.lock[h] = Cardinality({q \in DOMAIN buf.pt : buf.pt[q].ptr = h})
(* The segments and the pointers into them agree in all of this.           *)
SegmentsSound == PointersCoherent /\ SegmentsExact /\ LocksBalanced

(* What bcut hands to undo is the text it removed, and bcpy's buffer is    *)
(* the text between its pointers: an undo puts back exactly that.          *)
Holds(x, text, i, j) ==
  /\ text = SubSeq(Text(buf), i + 1, j)
  /\ x[2].pt["eof"].hdr = Final(x[2].chain) /\ x[2].pt["eof"].byte = j - i
  /\ x[2].pt["eof"].line = mcnt(text)
TextHandedOver ==
  \A u, v \in DOMAIN buf.pt :
    LET i == buf.pt[u].byte
        j == buf.pt[v].byte
        Handed(x) == Holds(x, Text([x[1] EXCEPT !.chain = x[2].chain]), i, j)
    IN i < j /\ buf.pt[u].ptr # NULL /\ buf.pt[v].ptr # NULL
         => Handed(bcut(buf, u, v)) /\ Handed(bcpy(buf, u, v))
============================================================================
