------------------------------- MODULE Format -------------------------------
(***************************************************************************)
(* uformat.c: word wrap, centring, paragraphs, and formatting a paragraph  *)
(* or the paragraphs of a block.  Each operator is one function of that    *)
(* file, from edited text to edited text.                                  *)
(***************************************************************************)
EXTENDS Blocks

(* Characters of the alphabet that can indent a paragraph.  A full stop is *)
(* one of them, so that pisnpara's test for a line that begins with a full *)
(* stop never holds.                                                       *)
Para == Blanks \union {".", ">", ")"}

ParaEnd(t, i)  == SkipOn(t, p_goto_bol(t, i), Para)
pisnpara(t, i) == brc(t, ParaEnd(t, i)) = NL
nindent(t, i)  == piscol(t, ParaEnd(t, i))

(* prefix goes back over the blanks before the first word.  prgetb, which  *)
(* prgetc is when the text is in bytes, leaves the column behind, and      *)
(* prefix returns it as it was.                                            *)
prefix(t, i) ==
  IF opt.utf8 THEN piscol(t, SkipBack(t, ParaEnd(t, i), Blanks)) ELSE nindent(t, i)

Rep(n, c) == [k \in 1 .. n |-> c]

----------------------------------------------------------------------------
(* Paragraphs.                                                             *)

Follows(e, i)  == e.within => i > e.p["markb"]
Precedes(e, i) == e.within => i < e.p["markk"]

(* The first line of the paragraph, upwards from line i; u is the one above.*)
RECURSIVE PbopUp(_, _, _, _)
PbopAt(e, i, u, indent, prelen) ==
  CASE pisnpara(e.t, u) \/ prefix(e.t, u) # prelen -> i
    [] ~(pisnpara(e.t, u) \/ prefix(e.t, u) # prelen) /\ nindent(e.t, u) > indent -> u
    [] ~(pisnpara(e.t, u) \/ prefix(e.t, u) # prelen) /\ nindent(e.t, u) < indent ->
         IF u = 0 \/ pisnpara(e.t, LineUp(e.t, u)) THEN u ELSE i
    [] OTHER -> PbopUp(e, u, indent, prelen)
PbopUp(e, i, indent, prelen) ==
  IF i = 0 \/ ~Follows(e, i) THEN i ELSE PbopAt(e, i, LineUp(e.t, i), indent, prelen)
PbopFrom(e, i) == PbopUp(e, i, nindent(e.t, i), prefix(e.t, i))
pbop(e, i)     == PbopFrom(e, p_goto_bol(e.t, i))

(* Behind its last line, from its second line i downwards.                 *)
RECURSIVE PeopOn(_, _, _, _)
Differs(t, i, indent, prelen) ==
  nindent(t, i) # indent \/ prefix(t, i) # prelen \/ pisnpara(t, i)
PeopAt(e, i, indent, prelen) ==
  IF ~Precedes(e, i) \/ Differs(e.t, i, indent, prelen) THEN i
  ELSE PeopOn(e, i, indent, prelen)
PeopOn(e, i, indent, prelen) ==
  IF OnLast(e.t, i) THEN Len(e.t) ELSE PeopAt(e, pnextl(e.t, i), indent, prelen)
PeopFrom(e, i) ==
  IF pisnpara(e.t, i) \/ (e.within /\ i >= e.p["markk"]) THEN i
  ELSE PeopOn(e, i, nindent(e.t, i), prefix(e.t, i))
peop(e, i) == IF OnLast(e.t, i) THEN Len(e.t) ELSE PeopFrom(e, pnextl(e.t, i))

RECURSIVE UpPara(_, _)
UpPara(e, i) ==
  IF pisnpara(e.t, i) /\ i # 0 /\ Follows(e, i) THEN UpPara(e, pprevl(e.t, i)) ELSE i
RECURSIVE DownPara(_, _)
DownPara(t, i) ==
  IF pisnpara(t, i) /\ i # Len(t) THEN DownPara(t, pnextl(t, i)) ELSE i

(* Not to where the cursor already is: then one on, and again.             *)
RECURSIVE UbopFrom(_, _)
UbopTo(e, q) ==
  IF q # e.p["cursor"] THEN pset(e, "cursor", q)
  ELSE IF q # 0 THEN UbopFrom(e, q - 1) ELSE e
UbopFrom(e, i) == UbopTo(e, pbop(e, UpPara(e, i)))
ubop(e)        == UbopFrom(e, e.p["cursor"])

RECURSIVE UeopFrom(_, _)
UeopTo(e, q) ==
  IF q # e.p["cursor"] THEN pset(e, "cursor", q)
  ELSE IF q # Len(e.t) THEN UeopFrom(e, pnextl(e.t, q)) ELSE e
UeopFrom(e, i) == UeopTo(e, peop(e, pbop(e, DownPara(e.t, i))))
ueop(e)        == UeopFrom(e, e.p["cursor"])

----------------------------------------------------------------------------
(* Centring a line.                                                        *)

Centred(e, i, j, k) ==      \* the text of the line from column j to k
  IF k - j > opt.rmargin + opt.lmargin THEN pset(e, "cursor", i)
  ELSE LET b == p_goto_bol(e.t, i)
       IN binss(pset(bdel(e, b, i), "cursor", b), "cursor",
                Rep((opt.lmargin + opt.rmargin) \div 2 - (k - j) \div 2, SP))
CentredLine(e, i, k) ==     \* its first and last word at i and before k
  IF Before(e.t, k) \in {NL, NoData} THEN pset(e, "cursor", k)
  ELSE Centred(e, i, piscol(e.t, i), piscol(e.t, k))
LineDown(e) ==
  IF OnLast(e.t, e.p["cursor"]) THEN Type(pset(e, "cursor", Len(e.t)), "cursor", <<NL>>)
  ELSE pset(e, "cursor", pnextl(e.t, e.p["cursor"]))
ucenter(e) ==
  LineDown(CentredLine(e, pboi(e.t, e.p["cursor"]),
                       SkipBack(e.t, p_goto_eol(e.t, e.p["cursor"]), Blanks)))

----------------------------------------------------------------------------
(* Wrapping the word before pointer n onto a line of its own.              *)

RECURSIVE WordStart(_, _, _)
WordStart(t, k, indent) ==
  IF pisbol(t, k) \/ piscol(t, k) <= indent THEN k
  ELSE IF Before(t, k) \in Blanks THEN k - 1 ELSE WordStart(t, k - 1, indent)

(* The end of the word before: with one blank left behind a full stop.     *)
WordEnd(t, j, k) ==
  IF Before(t, k) = "." /\ k # j /\ ~opt.french THEN k + 1 ELSE k

(* Faulty variant of Wrapped: the pointer is left where the line breaks.   *)
Wrapped_Lost(e, n, q, j, s) ==
  pset(Insert(bdel(e, q, j + 1), q, <<NL>> \o s), n, q)

(* What is between q and the word, the blank at j included, becomes a line *)
(* break and the indentation s; the pointer stays in its word.             *)
Wrapped(e, n, q, j, s) ==
  pset(Insert(bdel(e, q, j + 1), q, <<NL>> \o s), n,
       e.p[n] - (j + 1 - q) + 1 + Len(s))
WrapAt(e, n, j, indent, s) ==
  IF ~pisbol(e.t, j) /\ piscol(e.t, j) > indent
  THEN Wrapped(e, n, WordEnd(e.t, j, SkipBack(e.t, j, Blanks)), j, s)
  ELSE e
wrapword(e, n, indent, s) == WrapAt(e, n, WordStart(e.t, e.p[n], indent), indent, s)

----------------------------------------------------------------------------
(* Formatting a paragraph.  f is what uformat keeps: the text f.buf of the *)
(* paragraph, the place f.off of the cursor in it, the indentation; b is   *)
(* how far it has read.  Pointer "p" writes.                               *)

Marked(e, f, b) == IF b = f.off THEN pset(e, "cursor", e.p["p"]) ELSE e

TooFar(e)       == Col(e, "p") > opt.rmargin
Rewrapped(e, f) == wrapword(e, "p", f.indent, f.indents)

RECURSIVE FirstLine(_, _, _)      \* <<edited text, how far it has read>>
FirstPut(e, f, b, c) ==
  IF TooFar(e) /\ c \notin Blanks THEN <<Rewrapped(e, f), b>> ELSE FirstLine(e, f, b)
FirstChar(e, f, b, c) ==
  CASE c = NL -> <<e, b>>
    [] c \in Blanks /\ piseolblank(f.buf, b + 1) -> <<e, b + 1>>
    [] OTHER -> FirstPut(Type(e, "p", <<c>>), f, b + 1, c)
FirstLine(e, f, b) ==
  IF b = Len(f.buf) THEN <<e, b>> ELSE FirstChar(Marked(e, f, b), f, b, brc(f.buf, b))

(* Over blanks, line ends and the indentation behind them.                 *)
RECURSIVE OverIndent(_, _, _)
OverIndent(e, f, b) ==
  IF brc(f.buf, b) \in Para THEN OverIndent(Marked(e, f, b), f, b + 1) ELSE <<e, b>>
RECURSIVE OverSpace(_, _, _)
OverSpace(e, f, b) ==
  IF brc(f.buf, b) = NL THEN OverIndent(Marked(e, f, b), f, b + 1)
  ELSE IF brc(f.buf, b) \in Blanks THEN OverSpace(Marked(e, f, b), f, b + 1)
  ELSE <<e, b>>

(* Two spaces behind a full stop where there were two.                     *)
Apart(f, b) ==
  IF Before(f.buf, b) = "." /\ brc(f.buf, b + 1) \in Spaces /\ ~opt.french THEN 2 ELSE 1

RECURSIVE OtherLines(_, _, _)
Spaced(s, f, n) ==
  IF s[2] = Len(f.buf) THEN s[1]
  ELSE OtherLines(Type(s[1], "p", Rep(n, SP)), f, s[2])
WordPut(e, f, b) == OtherLines(IF TooFar(e) THEN Rewrapped(e, f) ELSE e, f, b)
OtherLines(e, f, b) ==
  CASE b = Len(f.buf) -> e
    [] brc(f.buf, b) \in Spaces -> Spaced(OverSpace(e, f, b), f, Apart(f, b))
    [] OTHER -> WordPut(Type(Marked(e, f, b), "p", <<brc(f.buf, b)>>), f, b + 1)
Refilled(s, f) == OtherLines(s[1], f, s[2])

Filled(e, f)   == binss(Refilled(FirstLine(e, f, 0), f), "p", <<NL>>)

(* Indentation of the second line if there is one.                         *)
Model(t, i, j)      == IF pnextl(t, i) < j THEN pnextl(t, i) ELSE i
Job(t, i, j, c, m)  ==
  [buf |-> Cut(t, i, j), off |-> c - i, indent |-> Max({nindent(t, m), opt.lmargin}),
   indents |-> Cut(t, m, pcol(t, m, nindent(t, m)))]
Taken(e, i, j)      == pset(bdel(pset(e, "cursor", j), i, j), "p", i)
Formatted(e, i, j, c) == Filled(Taken(e, i, j), Job(e.t, i, j, c, Model(e.t, i, j)))
Ended(e, j)         == IF pisbol(e.t, j) THEN e ELSE Insert(e, j, <<NL>>)
FormatTo(e, i, j)   == Formatted(Ended(e, j), i, IF pisbol(e.t, j) THEN j ELSE j + 1,
                                 e.p["cursor"])
FormatFrom(e, i)    == FormatTo(e, i, peop(e, i))
uformat(e) ==
  IF pisnpara(e.t, e.p["cursor"]) THEN e ELSE FormatFrom(e, pbop(e, e.p["cursor"]))

----------------------------------------------------------------------------
(* ufmtblk: the paragraphs of the block from its end to its beginning.     *)
(* Pointer "q" is the cursor that is put back, once it was in one of them. *)

RECURSIVE FmtUp(_, _)
FmtOn(e, hasp) ==
  IF e.p["cursor"] > e.p["markb"] THEN FmtUp(e, hasp)
  ELSE IF hasp THEN pset(e, "cursor", e.p["q"]) ELSE e
Kept(e) == ubop(pset(e, "q", e.p["cursor"]))
FmtStep(e, hasp, end) ==
  IF e.p["cursor"] < e.p["q"] /\ e.p["q"] < end
  THEN FmtOn(Kept(uformat(pset(e, "cursor", e.p["q"]))), TRUE)
  ELSE FmtOn(uformat(e), hasp)
FmtUp(e, hasp) == FmtStep(ubop(e), hasp, e.p["cursor"])

Begun(e) ==
  [e EXCEPT !.p["q"] = e.p["cursor"], !.p["cursor"] = e.p["markk"], !.within = TRUE]
FmtBlock(e) == Lit([FmtUp(Begun(e), FALSE) EXCEPT !.within = FALSE])
FmtAll(e)   == IF markv(e) /\ Inside(e) THEN FmtBlock(e) ELSE uformat(e)
ufmtblk(e)  == FmtAll(Swapped(e))
=============================================================================
